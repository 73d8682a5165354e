-------------------------- MODULE ConnectionProofs --------------------------
(***************************************************************************)
(* Proofs about PayloadSender, and about a Connection of a sender and a    *)
(* PayloadReceiver, for callers that submit a payload only when no write   *)
(* is outstanding (Overlap = FALSE), for every set of sizes, every chunk   *)
(* size, every width of size_t that holds them, and every number of        *)
(* payloads.                                                               *)
(***************************************************************************)
EXTENDS Connection, SumTheorems, TLAPS

-----------------------------------------------------------------------------
(* The sender: one chain of writes.                                        *)

\* The payload at the head of the queue is the one in _buf.
HeadInBuf ==
    /\ outgoingQueue.items # <<>>
    /\ Head(outgoingQueue.items) = buf

\* A write works on _buf, and one of content stays inside the content.
GoodWrite(w) ==
    /\ HeadInBuf
    /\ w.part = "PAYLOAD_CONTENT" =>
          w.from = bufContentOffset /\ w.from + w.done + w.left <= SizeOf(buf)

GoodCompletion(c) ==
    /\ HeadInBuf
    /\ c.part = "PAYLOAD_CONTENT" => bufContentOffset + c.length <= SizeOf(buf)

\* There is one chain of writes at a time: nothing is under way, or one write
\* is, or one handler is about to run.
Outstanding ==
    \/ writes = <<>> /\ completions = <<>>
    \/ \E w \in Writes :
          writes = <<w>> /\ completions = <<>> /\ GoodWrite(w)
    \/ \E c \in Completions :
          writes = <<>> /\ completions = <<c>> /\ GoodCompletion(c)

IInv ==
    /\ TypeOK
    /\ Outstanding
    /\ OffsetBelongsToHead
    /\ NoAssertFailure
    /\ OneTracePerAttempt

-----------------------------------------------------------------------------
\* A sequence over a set is one over a larger set.
LEMMA SeqWiden ==
    ASSUME NEW S, NEW T, S \subseteq T, NEW s \in Seq(S)
    PROVE  s \in Seq(T)
OBVIOUS

\* push(): the queue is not empty afterwards, and its front stays.
LEMMA AppendKeepsHead ==
    ASSUME NEW S, NEW s \in Seq(S), NEW x \in S
    PROVE  /\ Append(s, x) \in Seq(S)
           /\ Append(s, x) # <<>>
           /\ s # <<>> => Head(Append(s, x)) = Head(s)
<1>1. Append(s, x) \in Seq(S) /\ Len(Append(s, x)) = Len(s) + 1 /\ Len(s) \in Nat
  OBVIOUS
<1>2. Append(s, x) # <<>>
  BY <1>1
<1>3. ASSUME s # <<>> PROVE Head(Append(s, x)) = Head(s)
  <2>1. Len(s) >= 1
    BY <1>3
  <2>2. Append(s, x)[1] = s[1]
    BY <2>1
  <2> QED
    BY <1>2, <1>3, <2>2
<1> QED
  BY <1>1, <1>2, <1>3

\* The size of a payload is a size_t.
LEMMA SizeOfIsSize ==
    ASSUME sizes \in Seq(Sizes), NEW n \in 0..Len(sizes)
    PROVE  SizeOf(n) \in Nat /\ SizeOf(n) < SizeModulus
<1>1. CASE n = 0
  BY <1>1, SenderAssumption DEF SizeOf
<1>2. CASE n # 0
  <2>1. n \in 1..Len(sizes)
    BY <1>2
  <2>2. sizes[n] \in Sizes
    BY <2>1
  <2> QED
    BY <1>2, <2>2, SenderAssumption DEF SizeOf
<1> QED
  BY <1>1, <1>2

\* BytesToWrite() inside the content: the subtraction of two size_t does not
\* wrap around, and what is written next stays inside the content.
LEMMA BytesToWriteInContent ==
    ASSUME TypeOK, NEW offset \in Nat, offset <= SizeOf(buf)
    PROVE  /\ BytesToWrite(offset) \in Nat
           /\ offset + BytesToWrite(offset) <= SizeOf(buf)
<1> DEFINE left == SizeOf(buf) - offset
<1>1. SizeOf(buf) \in Nat /\ SizeOf(buf) < SizeModulus
  BY SizeOfIsSize DEF TypeOK
<1>2. left \in Nat /\ left < SizeModulus
  BY <1>1, SenderAssumption
<1>3. left % SizeModulus = left
  BY <1>2, SenderAssumption
<1> QED
  BY <1>1, <1>2, <1>3, SenderAssumption DEF BytesToWrite

\* Submitting a payload does not change the size of the ones before it.
LEMMA SizeOfStays ==
    ASSUME sizes \in Seq(Sizes), NEW n \in 0..Len(sizes), NEW size \in Sizes,
           sizes' = Append(sizes, size)
    PROVE  SizeOf(n)' = SizeOf(n)
<1>1. CASE n = 0
  BY <1>1 DEF SizeOf
<1>2. CASE n # 0
  BY <1>2 DEF SizeOf
<1> QED
  BY <1>1, <1>2

\* Starting a write when nothing is under way leaves one write under way, or,
\* when it has nothing to write, one handler about to run.
LEMMA StartWriteOutstanding ==
    ASSUME NEW w \in Writes, writes = <<>>, StartWrite(w, <<>>), GoodWrite(w)'
    PROVE  /\ Outstanding'
           /\ ~Idle'
           /\ writes' \in Seq(Writes)
           /\ completions' \in Seq(Completions)
<1>1. CASE w.left = 0
  <2> DEFINE c == Completed(w, FALSE)
  <2>1. c \in Completions
    BY DEF Writes, Completions, Completed
  <2>2. writes' = <<>> /\ completions' = Append(<<>>, c)
    BY <1>1 DEF StartWrite
  <2>3. GoodCompletion(c)'
    BY <1>1 DEF GoodWrite, GoodCompletion, Completed, Writes
  <2> HIDE DEF c
  <2>4. completions' = <<c>>
    BY <2>1, <2>2
  <2> QED
    BY <2>1, <2>2, <2>3, <2>4 DEF Outstanding, Idle
<1>2. CASE w.left # 0
  <2>1. writes' = <<w>> /\ completions' = <<>>
    BY <1>2 DEF StartWrite
  <2> QED
    BY <2>1 DEF Outstanding, Idle
<1> QED
  BY <1>1, <1>2

-----------------------------------------------------------------------------
\* The constructors of the sender, of its handler part and of the logger.
LEMMA InitIInv == Init => IInv
<1> SUFFICES ASSUME Init PROVE IInv
  OBVIOUS
<1> USE DEF Init, EmptyQueue, LoggerInit
<1>1. TypeOK
  <2>1. Len(sizes) = 0 /\ sizes \in Seq(Sizes) /\ MaxPayloads \in Nat
    BY SenderAssumption
  <2>2. outgoingQueue \in Queues(1..Len(sizes))
    BY DEF Queues
  <2>3. LoggerTypeOK
    BY DEF LoggerTypeOK, Traces
  <2>4. writes \in Seq(Writes) /\ completions \in Seq(Completions)
        /\ wire \in Seq(StreamUnits)
    OBVIOUS
  <2>5. link \in {"connecting", "open", "broken"} /\ isProcessing \in BOOLEAN
        /\ aborted \in BOOLEAN
    BY Zenon
  <2>6. buf \in 0..Len(sizes) /\ bufContentOffset \in Nat /\ popCount \in Nat
    BY <2>1
  <2> HIDE DEF Init
  <2> QED
    BY <2>1, <2>2, <2>3, <2>4, <2>5, <2>6 DEF TypeOK
<1>2. Outstanding /\ OffsetBelongsToHead /\ NoAssertFailure
  BY DEF Outstanding, OffsetBelongsToHead, NoAssertFailure
<1>3. OneTracePerAttempt
  BY DEF OneTracePerAttempt, TracesNumbered, Idle
<1> QED
  BY <1>1, <1>2, <1>3 DEF IInv

\* The connection is made or lost.
LEMMA LinkStep ==
    ASSUME IInv, link' \in {"connecting", "open", "broken"},
           UNCHANGED <<wire, bufVars, writes, completions, logVars, histVars, aborted>>
    PROVE  IInv'
<1> USE DEF IInv, bufVars, logVars, histVars
<1>1. TypeOK'
  BY DEF TypeOK, LoggerTypeOK
<1>2. Outstanding'
  BY DEF Outstanding, GoodWrite, GoodCompletion, HeadInBuf, SizeOf
<1>3. OffsetBelongsToHead' /\ NoAssertFailure'
  BY DEF OffsetBelongsToHead, NoAssertFailure, SizeOf, front
<1>4. OneTracePerAttempt'
  BY DEF OneTracePerAttempt, TracesNumbered, Idle
<1> QED
  BY <1>1, <1>2, <1>3, <1>4

\* What the socket takes goes behind what it took before.
LEMMA TransmitAppends ==
    IInv /\ Transmit => \E t \in Seq(StreamUnits) : wire' = wire \o t
<1> SUFFICES ASSUME IInv, Transmit PROVE \E t \in Seq(StreamUnits) : wire' = wire \o t
  OBVIOUS
<1>1. PICK w \in Writes : writes = <<w>>
  BY DEF IInv, Transmit, Outstanding
<1>2. PICK k \in 1..w.left, held \in Held(w) : wire' = wire \o Transmitted(w, k, held)
  <2>1. Head(writes) = w
    BY <1>1
  <2> QED
    BY <2>1 DEF Transmit
<1>3. w.done \in Nat /\ w.left \in Nat /\ w.from \in Nat /\ k \in Nat
  BY DEF Writes
<1>4. held \in Nat /\ buf \in Nat /\ SizeOf(buf) \in Nat
  BY SenderAssumption, SizeOfIsSize DEF IInv, Held, TypeOK, Writes, Ids
<1>5. \A i \in Nat : ByteOf(held, i) \in StreamUnits
  BY <1>4 DEF ByteOf, Garbage, StreamUnits
<1>6. Transmitted(w, k, held) \in Seq(StreamUnits)
  <2>1. CASE w.part = "PAYLOAD_TYPE"
    BY <1>4, <2>1 DEF Transmitted, StreamUnits
  <2>2. CASE w.part = "PAYLOAD_SIZE"
    BY <1>4, <2>2 DEF Transmitted, StreamUnits
  <2>3. CASE w.part = "PAYLOAD_CONTENT"
    <3>1. \A i \in 1..k : ByteOf(held, w.from + w.done + i) \in StreamUnits
      BY <1>3, <1>5
    <3> QED
      BY <1>3, <2>3, <3>1 DEF Transmitted
  <2> QED
    BY <2>1, <2>2, <2>3 DEF Writes, Parts
<1> QED
  BY <1>2, <1>6

\* The socket takes bytes.
LEMMA TransmitStep == IInv /\ Transmit => IInv'
<1> SUFFICES ASSUME IInv, Transmit PROVE IInv'
  OBVIOUS
<1> USE DEF IInv, bufVars, logVars, histVars
<1>1. PICK w \in Writes : writes = <<w>> /\ completions = <<>> /\ GoodWrite(w)
  BY DEF Transmit, Outstanding
<1>2. Head(writes) = w /\ Tail(writes) = <<>>
  BY <1>1
<1>3. PICK k \in 1..w.left, held \in Held(w) :
        LET taken == [w EXCEPT !.done = @ + k, !.left = @ - k] IN
          /\ wire' = wire \o Transmitted(w, k, held)
          /\ IF taken.left = 0
             THEN /\ writes' = Tail(writes)
                  /\ completions' = Append(completions, Completed(taken, FALSE))
             ELSE /\ writes' = Append(Tail(writes), taken)
                  /\ UNCHANGED completions
  BY <1>2 DEF Transmit
<1> DEFINE taken == [w EXCEPT !.done = @ + k, !.left = @ - k]
           c == Completed(taken, FALSE)
<1>4. w.done \in Nat /\ w.left \in Nat /\ w.from \in Nat /\ k \in Nat /\ k <= w.left
  BY DEF Writes
<1>5. /\ taken \in Writes
      /\ taken.part = w.part /\ taken.from = w.from
      /\ taken.done = w.done + k /\ taken.left = w.left - k
  <2>1. w.done + k \in Nat /\ w.left - k \in Nat
    BY <1>4
  <2> QED
    BY <2>1 DEF Writes
<1>6. c \in Completions /\ c.part = w.part /\ c.length = w.done + k
  BY <1>4, <1>5 DEF Completions, Completed, Writes
<1>7. UNCHANGED <<link, bufVars, logVars, histVars, aborted>>
  BY DEF Transmit
<1>8. SizeOf(buf) \in Nat /\ bufContentOffset \in Nat
  BY SizeOfIsSize DEF TypeOK
<1>9. Outstanding' /\ writes' \in Seq(Writes) /\ completions' \in Seq(Completions)
      /\ ~Idle'
  <2>1. CASE taken.left = 0
    <3>1. writes' = <<>> /\ completions' = Append(<<>>, c)
      BY <1>1, <1>2, <1>3, <2>1
    <3> HIDE DEF c, taken
    <3>2. GoodCompletion(c)'
      <4>1. HeadInBuf'
        BY <1>1, <1>7 DEF GoodWrite, HeadInBuf
      <4>2. SizeOf(buf)' = SizeOf(buf)
        BY <1>7 DEF SizeOf
      <4>3. ASSUME c.part = "PAYLOAD_CONTENT"
            PROVE  bufContentOffset + c.length <= SizeOf(buf)
        BY <1>1, <1>4, <1>5, <1>6, <1>8, <2>1, <4>3 DEF GoodWrite
      <4> QED
        BY <1>7, <4>1, <4>2, <4>3 DEF GoodCompletion
    <3>3. completions' = <<c>>
      BY <1>6, <3>1
    <3> QED
      BY <1>6, <3>1, <3>2, <3>3 DEF Outstanding, Idle
  <2>2. CASE taken.left # 0
    <3>1. writes' = Append(<<>>, taken) /\ completions' = <<>>
      BY <1>1, <1>2, <1>3, <2>2
    <3>2. GoodWrite(taken)'
      BY <1>1, <1>4, <1>5, <1>7, <1>8 DEF GoodWrite, HeadInBuf, SizeOf
    <3> HIDE DEF taken
    <3>3. writes' = <<taken>>
      BY <1>5, <3>1
    <3> QED
      BY <1>5, <3>1, <3>2, <3>3 DEF Outstanding, Idle
  <2> QED
    BY <2>1, <2>2
<1>10. wire' \in Seq(StreamUnits)
  <2>1. PICK t \in Seq(StreamUnits) : wire' = wire \o t
    BY TransmitAppends, Zenon
  <2>2. wire \in Seq(StreamUnits)
    BY DEF TypeOK
  <2> QED
    BY ONLY <2>1, <2>2
<1>11. TypeOK'
  BY <1>7, <1>9, <1>10 DEF TypeOK, LoggerTypeOK
<1>12. OffsetBelongsToHead' /\ NoAssertFailure'
  BY <1>7 DEF OffsetBelongsToHead, NoAssertFailure, SizeOf, front
<1>13. OneTracePerAttempt'
  BY <1>1, <1>7, <1>9 DEF OneTracePerAttempt, TracesNumbered, Idle
<1> QED
  BY <1>9, <1>11, <1>12, <1>13

\* A write fails.
LEMMA FailWriteStep == IInv /\ FailWrite => IInv'
<1> SUFFICES ASSUME IInv, FailWrite PROVE IInv'
  OBVIOUS
<1> USE DEF IInv, bufVars, logVars, histVars, socketVars
<1>1. PICK w \in Writes : writes = <<w>> /\ completions = <<>> /\ GoodWrite(w)
  BY DEF FailWrite, Outstanding
<1> DEFINE c == Completed(w, TRUE)
<1>2. c \in Completions /\ c.part = w.part /\ c.length = w.done
  BY DEF Completions, Completed, Writes
<1>3. UNCHANGED <<link, wire, bufVars, logVars, histVars, aborted>>
  BY DEF FailWrite
<1>4. writes' = <<>> /\ completions' = Append(<<>>, c)
  BY <1>1 DEF FailWrite
<1>5. GoodCompletion(c)'
  <2>1. SizeOf(buf) \in Nat /\ bufContentOffset \in Nat
    BY SizeOfIsSize DEF TypeOK
  <2>2. HeadInBuf'
    BY <1>1, <1>3 DEF GoodWrite, HeadInBuf
  <2>3. SizeOf(buf)' = SizeOf(buf)
    BY <1>3 DEF SizeOf
  <2> HIDE DEF c
  <2>4. ASSUME c.part = "PAYLOAD_CONTENT"
        PROVE  bufContentOffset + c.length <= SizeOf(buf)
    BY <1>1, <1>2, <2>1, <2>4 DEF GoodWrite, Writes
  <2> QED
    BY <1>3, <2>2, <2>3, <2>4 DEF GoodCompletion
<1> HIDE DEF c
<1>6. completions' = <<c>>
  BY <1>2, <1>4
<1>7. Outstanding' /\ ~Idle'
  BY <1>2, <1>4, <1>5, <1>6 DEF Outstanding, Idle
<1>8. TypeOK'
  BY <1>2, <1>3, <1>4, <1>6 DEF TypeOK, LoggerTypeOK
<1>9. OffsetBelongsToHead' /\ NoAssertFailure'
  BY <1>3 DEF OffsetBelongsToHead, NoAssertFailure, SizeOf, front
<1>10. OneTracePerAttempt'
  BY <1>1, <1>3, <1>7 DEF OneTracePerAttempt, TracesNumbered, Idle
<1> QED
  BY <1>7, <1>8, <1>9, <1>10
-----------------------------------------------------------------------------
\* _sendPayloadType() on a queue that is not empty, when nothing is under way.
LEMMA SendPayloadTypeStep ==
    ASSUME NEW q, q.items \in Seq(1..Len(sizes')), q.items # <<>>,
           sizes' \in Seq(Sizes), Len(sizes') <= MaxPayloads,
           traceBuf \in Traces,
           writes = <<>>, SendPayloadType(q, <<>>), outgoingQueue' = q
    PROVE  /\ Outstanding' /\ ~Idle'
           /\ writes' \in Seq(Writes) /\ completions' \in Seq(Completions)
           /\ buf' = Head(q.items) /\ buf' \in 1..Len(sizes')
           /\ traceBuf' \in Traces
           /\ traceBuf'.payloadId = traceBuf.payloadId + 1
<1> DEFINE n == Head(q.items)
           w == [part |-> "PAYLOAD_TYPE", payload |-> n, from |-> 0,
                 done |-> 0, left |-> 1]
<1>1. n \in 1..Len(sizes') /\ n \in Nat /\ n \in Ids /\ Len(sizes') \in Nat
  BY SenderAssumption DEF Ids
<1>2. buf' = n
  BY DEF SendPayloadType, front
<1>3. sizes'[n] \in Nat
  <2> HIDE DEF n
  <2>1. sizes'[n] \in Sizes
    BY <1>1
  <2> QED
    BY <2>1, SenderAssumption
<1>4. /\ traceBuf' \in Traces
      /\ traceBuf'.payloadId = traceBuf.payloadId + 1
  <2> HIDE DEF n
  <2>1. traceBuf' = LET trace == logPayloadType(logNewPayload(traceBuf), n)
                    IN  logPayloadSize(trace, sizes'[n])
    BY DEF SendPayloadType, front, n
  <2>2. traceBuf.payloadId + 1 \in Nat
    BY DEF Traces
  <2>3. traceBuf' = [payloadId |-> traceBuf.payloadId + 1, payloadType |-> n,
                     expectedSize |-> sizes'[n]]
    BY <2>1 DEF logNewPayload, logPayloadType, logPayloadSize, Traces
  <2> QED
    BY <1>1, <1>3, <2>2, <2>3 DEF Traces
<1>5. w \in Writes
  BY <1>1 DEF Writes, Parts
<1>6. StartWrite(w, <<>>)
  BY DEF SendPayloadType, front
<1>7. GoodWrite(w)'
  BY <1>2 DEF GoodWrite, HeadInBuf
<1> HIDE DEF n, w
<1>8. /\ Outstanding' /\ ~Idle'
      /\ writes' \in Seq(Writes) /\ completions' \in Seq(Completions)
  BY <1>5, <1>6, <1>7, StartWriteOutstanding
<1> QED
  BY <1>1, <1>2, <1>4, <1>8 DEF n

\* _sendPayload() when nothing is under way.
LEMMA SendPayloadStep ==
    ASSUME Overlap = FALSE, IInv, NEW size \in Sizes, SendPayload(size)
    PROVE  IInv'
<1> USE DEF IInv
<1> DEFINE q == push(outgoingQueue, Len(sizes) + 1)
<1>1. Idle /\ Len(sizes) < MaxPayloads /\ sizes' = Append(sizes, size)
      /\ outgoingQueue' = q
      /\ UNCHANGED <<link, wire, bufContentOffset, isProcessing, tracesQueue,
                     speedQueue, popCount, aborted>>
  BY DEF SendPayload, socketVars
<1>2. /\ sizes \in Seq(Sizes) /\ Len(sizes) \in Nat
      /\ sizes' \in Seq(Sizes) /\ Len(sizes') = Len(sizes) + 1
      /\ Len(sizes') <= MaxPayloads
  BY <1>1, SenderAssumption DEF TypeOK
<1>3. /\ outgoingQueue.items \in Seq(1..Len(sizes'))
      /\ q.items = Append(outgoingQueue.items, Len(sizes) + 1)
      /\ q.items \in Seq(1..Len(sizes')) /\ q.items # <<>>
      /\ q \in Queues(1..Len(sizes'))
  <2>1. 1..Len(sizes) \subseteq 1..Len(sizes')
    BY <1>2
  <2>2. outgoingQueue.items \in Seq(1..Len(sizes'))
    <3> DEFINE items == outgoingQueue.items
    <3>1. items \in Seq(1..Len(sizes))
      BY DEF TypeOK, Queues
    <3> HIDE DEF items
    <3>2. items \in Seq(1..Len(sizes'))
      BY <2>1, <3>1, SeqWiden
    <3> QED
      BY <3>2 DEF items
  <2>3. Len(sizes) + 1 \in 1..Len(sizes')
    BY <1>2
  <2>4. q.items = Append(outgoingQueue.items, Len(sizes) + 1) /\ q.isQueueEmpty = FALSE
    BY DEF push
  <2>5. /\ Append(outgoingQueue.items, Len(sizes) + 1) \in Seq(1..Len(sizes'))
        /\ Append(outgoingQueue.items, Len(sizes) + 1) # <<>>
    BY <2>2, <2>3, AppendKeepsHead
  <2> QED
    BY <2>2, <2>4, <2>5 DEF Queues, push
<1>4. outgoingQueue.items # <<>> => Head(q.items) = Head(outgoingQueue.items)
  <2>1. Len(sizes) + 1 \in 1..Len(sizes')
    BY <1>2
  <2> HIDE DEF q
  <2> QED
    BY <1>3, <2>1, AppendKeepsHead
<1>5. SizeOf(buf)' = IF buf' = buf THEN SizeOf(buf) ELSE SizeOf(buf)'
  <2>1. buf \in 0..Len(sizes)
    BY DEF TypeOK
  <2>2. \A n \in 0..Len(sizes) : SizeOf(n)' = SizeOf(n)
    BY <1>1, <1>2, SizeOfStays
  <2> QED
    BY <2>1, <2>2 DEF SizeOf
<1>6. NoAssertFailure'
  BY <1>1 DEF NoAssertFailure
<1>7. CASE isProcessing
  <2>1. UNCHANGED <<buf, traceBuf, writes, completions>>
    BY <1>7 DEF SendPayload
  <2>2. TypeOK'
    <3>1. buf' \in 0..Len(sizes')
      BY <1>2, <2>1 DEF TypeOK
    <3> HIDE DEF q
    <3>2. outgoingQueue' \in Queues(1..Len(sizes'))
      BY <1>1, <1>3
    <3>3. LoggerTypeOK'
      BY <1>1, <2>1 DEF TypeOK, LoggerTypeOK
    <3> QED
      BY <1>1, <1>2, <2>1, <3>1, <3>2, <3>3 DEF TypeOK
  <2>3. Outstanding'
    BY <1>1, <2>1 DEF Outstanding, Idle
  <2>4. OffsetBelongsToHead'
    BY <1>1, <1>3, <1>4, <1>5, <2>1 DEF OffsetBelongsToHead, front
  <2>5. OneTracePerAttempt'
    BY <1>1, <2>1 DEF OneTracePerAttempt, TracesNumbered, Idle
  <2> QED
    BY <1>6, <2>2, <2>3, <2>4, <2>5
<1>8. CASE ~isProcessing
  <2>1. SendPayloadType(q, <<>>) /\ writes = <<>>
    BY <1>1, <1>8 DEF SendPayload, Idle
  <2>2. traceBuf \in Traces
    BY DEF TypeOK, LoggerTypeOK
  <2> HIDE DEF q
  <2>3. /\ Outstanding' /\ ~Idle'
        /\ writes' \in Seq(Writes) /\ completions' \in Seq(Completions)
        /\ buf' = Head(q.items) /\ buf' \in 1..Len(sizes')
        /\ traceBuf' \in Traces
        /\ traceBuf'.payloadId = traceBuf.payloadId + 1
    BY <1>1, <1>2, <1>3, <2>1, <2>2, SendPayloadTypeStep
  <2>4. TypeOK'
    <3>1. buf' \in 0..Len(sizes')
      BY <1>2, <2>3
    <3>2. outgoingQueue' \in Queues(1..Len(sizes'))
      BY <1>1, <1>3
    <3>3. LoggerTypeOK'
      BY <1>1, <2>3 DEF TypeOK, LoggerTypeOK
    <3> QED
      BY <1>1, <1>2, <2>3, <3>1, <3>2, <3>3 DEF TypeOK
  <2>5. OffsetBelongsToHead'
    <3> SUFFICES ASSUME bufContentOffset # 0
                 PROVE  /\ q.items # <<>> /\ Head(q.items) = buf'
                        /\ bufContentOffset < SizeOf(buf)'
      BY <1>1 DEF OffsetBelongsToHead, front
    <3>1. /\ outgoingQueue.items # <<>> /\ Head(outgoingQueue.items) = buf
          /\ bufContentOffset < SizeOf(buf)
      BY DEF OffsetBelongsToHead, front
    <3>2. buf' = buf
      BY <1>4, <2>3, <3>1
    <3> QED
      BY <1>3, <1>5, <2>3, <3>1, <3>2
  <2>6. OneTracePerAttempt'
    BY <1>1, <2>2, <2>3 DEF OneTracePerAttempt, TracesNumbered, TypeOK, LoggerTypeOK
  <2> QED
    BY <1>6, <2>3, <2>4, <2>5, <2>6
<1> QED
  BY <1>7, <1>8
-----------------------------------------------------------------------------
\* When a handler runs, it is the only thing under way.
LEMMA HandlerAlone ==
    ASSUME IInv, NEW part \in Parts, NEW ec \in BOOLEAN, Handler(part, ec)
    PROVE  /\ writes = <<>> /\ Tail(completions) = <<>> /\ ~Idle
           /\ Head(completions) \in Completions
           /\ Head(completions).part = part
           /\ GoodCompletion(Head(completions))
<1>1. PICK c \in Completions :
        writes = <<>> /\ completions = <<c>> /\ GoodCompletion(c)
  BY DEF IInv, Outstanding, Handler
<1>2. Head(completions) = c /\ Tail(completions) = <<>>
  BY <1>1
<1> QED
  BY <1>1, <1>2 DEF Handler, Idle

\* An attempt that ends, well or not, commits the trace it has opened.
LEMMA CommitKeepsTraces ==
    ASSUME TypeOK, OneTracePerAttempt, ~Idle, CommitLog(traceBuf)
    PROVE  /\ TracesNumbered'
           /\ tracesQueue' \in Seq(Traces)
           /\ Len(tracesQueue') = traceBuf.payloadId
<1> USE DEF TypeOK, LoggerTypeOK, CommitLog
<1>1. /\ tracesQueue \in Seq(Traces) /\ traceBuf \in Traces
      /\ tracesQueue' = Append(tracesQueue, traceBuf)
  OBVIOUS
<1>2. traceBuf.payloadId = Len(tracesQueue) + 1
  BY DEF OneTracePerAttempt
<1>3. /\ tracesQueue' \in Seq(Traces)
      /\ Len(tracesQueue') = Len(tracesQueue) + 1 /\ Len(tracesQueue) \in Nat
  BY <1>1
<1>4. ASSUME NEW k \in DOMAIN tracesQueue' PROVE tracesQueue'[k].payloadId = k
  <2>1. k \in 1..(Len(tracesQueue) + 1)
    BY <1>3
  <2>2. CASE k <= Len(tracesQueue)
    <3>1. k \in DOMAIN tracesQueue /\ tracesQueue'[k] = tracesQueue[k]
      BY <1>1, <2>1, <2>2
    <3> QED
      BY <3>1 DEF OneTracePerAttempt, TracesNumbered
  <2>3. CASE k = Len(tracesQueue) + 1
    <3>1. tracesQueue'[k] = traceBuf
      BY <1>1, <2>3
    <3> QED
      BY <1>2, <2>3, <3>1
  <2> QED
    BY <1>3, <2>1, <2>2, <2>3
<1> QED
  BY <1>2, <1>3, <1>4 DEF TracesNumbered

\* _onPayloadSendError().
LEMMA SendErrorStep == IInv /\ OnPayloadSendError => IInv'
<1> SUFFICES ASSUME IInv, OnPayloadSendError PROVE IInv'
  OBVIOUS
<1> USE DEF IInv
<1>1. PICK part \in Parts : Handler(part, TRUE)
  BY DEF OnPayloadSendError
<1>2. writes = <<>> /\ Tail(completions) = <<>> /\ ~Idle
  BY <1>1, HandlerAlone
<1>3. /\ completions' = <<>> /\ CommitLog(traceBuf)
      /\ UNCHANGED <<link, wire, outgoingQueue, buf, bufContentOffset, isProcessing,
                     writes, traceBuf, speedQueue, sizes, popCount, aborted>>
  BY <1>2 DEF OnPayloadSendError, socketVars, bufVars, histVars
<1>4. /\ TracesNumbered' /\ tracesQueue' \in Seq(Traces)
      /\ Len(tracesQueue') = traceBuf.payloadId
  BY <1>2, <1>3, CommitKeepsTraces
<1>5. TypeOK'
  <2>1. completions' \in Seq(Completions)
    BY <1>3
  <2> QED
    BY <1>3, <1>4, <2>1 DEF TypeOK, LoggerTypeOK
<1>6. Outstanding' /\ Idle'
  BY <1>2, <1>3 DEF Outstanding, Idle
<1>7. OffsetBelongsToHead' /\ NoAssertFailure'
  BY <1>3 DEF OffsetBelongsToHead, NoAssertFailure, SizeOf, front
<1>8. OneTracePerAttempt'
  <2>1. traceBuf'.payloadId = Len(tracesQueue')
    BY <1>3, <1>4
  <2>2. traceBuf.payloadId \in Nat
    BY DEF TypeOK, LoggerTypeOK, Traces
  <2> QED
    BY <1>3, <1>4, <1>6, <2>1, <2>2 DEF OneTracePerAttempt
<1> QED
  BY <1>5, <1>6, <1>7, <1>8

\* A handler that starts the next write of the same payload, leaving the queue
\* and the traces alone.
LEMMA NextPartStep ==
    ASSUME IInv, ~Idle, writes = <<>>, NEW w \in Writes, StartWrite(w, <<>>),
           GoodWrite(w)', OffsetBelongsToHead', bufContentOffset' \in Nat,
           speedQueue' \in Seq(SpeedTraces),
           UNCHANGED <<link, wire, outgoingQueue, buf, isProcessing, traceBuf,
                       tracesQueue, sizes, popCount, aborted>>
    PROVE  IInv'
<1>1. /\ Outstanding' /\ ~Idle'
      /\ writes' \in Seq(Writes) /\ completions' \in Seq(Completions)
  BY StartWriteOutstanding
<1>2. TypeOK'
  BY <1>1 DEF IInv, TypeOK, LoggerTypeOK
<1>3. OneTracePerAttempt'
  BY <1>1 DEF IInv, OneTracePerAttempt, TracesNumbered
<1>4. NoAssertFailure'
  BY DEF IInv, NoAssertFailure
<1> QED
  BY <1>1, <1>2, <1>3, <1>4 DEF IInv

\* The handler of the type starts the write of the size.
LEMMA TypeWrittenStep == IInv /\ OnTypeWritten => IInv'
<1> SUFFICES ASSUME IInv, OnTypeWritten PROVE IInv'
  OBVIOUS
<1>1. Handler("PAYLOAD_TYPE", FALSE)
  BY DEF OnTypeWritten
<1>2. /\ writes = <<>> /\ Tail(completions) = <<>> /\ ~Idle
      /\ GoodCompletion(Head(completions))
  BY <1>1, HandlerAlone DEF Parts
<1>3. PICK w : w = [part |-> "PAYLOAD_SIZE", payload |-> buf, from |-> 0,
                    done |-> 0, left |-> 1]
  OBVIOUS
<1>4. /\ StartWrite(w, <<>>)
      /\ UNCHANGED <<link, wire, outgoingQueue, buf, bufContentOffset, isProcessing,
                     traceBuf, tracesQueue, speedQueue, sizes, popCount, aborted>>
  BY <1>2, <1>3 DEF OnTypeWritten, SendPayloadBytesSize, socketVars, bufVars,
                    logVars, histVars
<1>5. w \in Writes
  BY <1>3, SenderAssumption DEF Writes, Parts, Ids, IInv, TypeOK
<1>6. GoodWrite(w)'
  BY <1>2, <1>3, <1>4 DEF GoodWrite, GoodCompletion, HeadInBuf
<1>7. OffsetBelongsToHead'
  BY <1>4 DEF IInv, OffsetBelongsToHead, SizeOf, front
<1>8. bufContentOffset' \in Nat /\ speedQueue' \in Seq(SpeedTraces)
  BY <1>4 DEF IInv, TypeOK, LoggerTypeOK
<1> QED
  BY <1>2, <1>4, <1>5, <1>6, <1>7, <1>8, NextPartStep

\* The handler of the size starts the first write of content, from the offset
\* an earlier attempt may have left behind.
LEMMA SizeWrittenStep == IInv /\ OnSizeWritten => IInv'
<1> SUFFICES ASSUME IInv, OnSizeWritten PROVE IInv'
  OBVIOUS
<1>1. Handler("PAYLOAD_SIZE", FALSE)
  BY DEF OnSizeWritten
<1>2. /\ writes = <<>> /\ Tail(completions) = <<>> /\ ~Idle
      /\ GoodCompletion(Head(completions))
  BY <1>1, HandlerAlone DEF Parts
<1>3. PICK w : w = [part |-> "PAYLOAD_CONTENT", payload |-> buf,
                    from |-> bufContentOffset, done |-> 0,
                    left |-> BytesToWrite(bufContentOffset)]
  OBVIOUS
<1>4. /\ StartWrite(w, <<>>)
      /\ UNCHANGED <<link, wire, outgoingQueue, buf, bufContentOffset, isProcessing,
                     traceBuf, tracesQueue, speedQueue, sizes, popCount, aborted>>
  BY <1>2, <1>3 DEF OnSizeWritten, SendPayloadBytes, socketVars, bufVars,
                    logVars, histVars
<1>5. /\ TypeOK /\ bufContentOffset \in Nat /\ SizeOf(buf) \in Nat
      /\ bufContentOffset <= SizeOf(buf)
  <2>1. TypeOK /\ bufContentOffset \in Nat /\ SizeOf(buf) \in Nat
    BY SizeOfIsSize DEF IInv, TypeOK
  <2> QED
    BY <2>1 DEF IInv, OffsetBelongsToHead
<1>6. /\ BytesToWrite(bufContentOffset) \in Nat
      /\ bufContentOffset + BytesToWrite(bufContentOffset) <= SizeOf(buf)
  BY <1>5, BytesToWriteInContent
<1>7. w \in Writes
  BY <1>3, <1>5, <1>6, SenderAssumption DEF Writes, Parts, Ids, TypeOK
<1>8. GoodWrite(w)'
  <2>1. SizeOf(buf)' = SizeOf(buf)
    BY <1>4 DEF SizeOf
  <2> QED
    BY <1>2, <1>3, <1>4, <1>5, <1>6, <2>1 DEF GoodWrite, GoodCompletion, HeadInBuf
<1>9. OffsetBelongsToHead'
  BY <1>4 DEF IInv, OffsetBelongsToHead, SizeOf, front
<1>10. bufContentOffset' \in Nat /\ speedQueue' \in Seq(SpeedTraces)
  BY <1>4 DEF IInv, TypeOK, LoggerTypeOK
<1> QED
  BY <1>2, <1>4, <1>7, <1>8, <1>9, <1>10, NextPartStep

\* commitPayloadSpeed() keeps the speed traces well typed.
LEMMA SpeedTyped ==
    ASSUME TypeOK, NEW loaded \in Nat, CommitPayloadSpeed(loaded)
    PROVE  speedQueue' \in Seq(SpeedTraces)
<1>1. [payloadId |-> traceBuf.payloadId, bytesExchanged |-> loaded] \in SpeedTraces
  BY DEF TypeOK, LoggerTypeOK, Traces, SpeedTraces
<1> QED
  BY <1>1 DEF TypeOK, LoggerTypeOK, CommitPayloadSpeed

\* The handler of the content while content remains.
LEMMA ChunkWrittenStep == IInv /\ OnChunkWritten => IInv'
<1> SUFFICES ASSUME IInv, OnChunkWritten PROVE IInv'
  OBVIOUS
<1>1. Handler("PAYLOAD_CONTENT", FALSE)
  BY DEF OnChunkWritten
<1>2. /\ writes = <<>> /\ Tail(completions) = <<>> /\ ~Idle
      /\ Head(completions) \in Completions
      /\ GoodCompletion(Head(completions))
  BY <1>1, HandlerAlone DEF Parts
<1>3. PICK length : length = Head(completions).length
  OBVIOUS
<1>4. PICK offset : offset = bufContentOffset + length
  OBVIOUS
<1>5. PICK w : w = [part |-> "PAYLOAD_CONTENT", payload |-> buf, from |-> offset,
                    done |-> 0, left |-> BytesToWrite(offset)]
  OBVIOUS
<1>6. /\ StartWrite(w, <<>>)
      /\ offset < SizeOf(buf) /\ bufContentOffset' = offset
      /\ CommitPayloadSpeed(length)
      /\ UNCHANGED <<link, wire, outgoingQueue, buf, isProcessing, traceBuf,
                     tracesQueue, sizes, popCount, aborted>>
  BY <1>2, <1>3, <1>4, <1>5
     DEF OnChunkWritten, SendPayloadBytes, socketVars, histVars
<1>7. TypeOK /\ length \in Nat /\ offset \in Nat /\ SizeOf(buf) \in Nat
  <2>1. SizeOf(buf) \in Nat /\ TypeOK /\ bufContentOffset \in Nat
    BY SizeOfIsSize DEF IInv, TypeOK
  <2>2. length \in Nat
    BY <1>2, <1>3 DEF Completions
  <2> QED
    BY <1>4, <2>1, <2>2
<1>8. BytesToWrite(offset) \in Nat /\ offset + BytesToWrite(offset) <= SizeOf(buf)
  BY <1>6, <1>7, BytesToWriteInContent
<1>9. w \in Writes
  BY <1>5, <1>7, <1>8, SenderAssumption DEF Writes, Parts, Ids, TypeOK
<1>10. SizeOf(buf)' = SizeOf(buf) /\ HeadInBuf /\ HeadInBuf'
  BY <1>2, <1>6 DEF SizeOf, GoodCompletion, HeadInBuf
<1>11. GoodWrite(w)'
  BY <1>5, <1>6, <1>7, <1>8, <1>10 DEF GoodWrite
<1>12. OffsetBelongsToHead'
  BY <1>6, <1>10 DEF OffsetBelongsToHead, HeadInBuf, front
<1>13. bufContentOffset' \in Nat /\ speedQueue' \in Seq(SpeedTraces)
  BY <1>6, <1>7, SpeedTyped
<1> QED
  BY <1>2, <1>6, <1>9, <1>11, <1>12, <1>13, NextPartStep
\* The handler of the content at its end: the assertion of pop() holds, and
\* the offset is reset before the next payload becomes _buf.
LEMMA ContentWrittenStep == IInv /\ OnContentWritten => IInv'
<1> SUFFICES ASSUME IInv, OnContentWritten PROVE IInv'
  OBVIOUS
<1>1. Handler("PAYLOAD_CONTENT", FALSE)
  BY DEF OnContentWritten
<1>2. /\ writes = <<>> /\ Tail(completions) = <<>> /\ ~Idle
      /\ Head(completions) \in Completions
      /\ HeadInBuf
  BY <1>1, HandlerAlone DEF Parts, GoodCompletion
<1>3. TypeOK /\ Assertable(outgoingQueue)
  BY <1>2 DEF IInv, Assertable, HeadInBuf
<1>4. PICK q : q = pop(outgoingQueue)
  OBVIOUS
<1>5. /\ outgoingQueue' = q /\ bufContentOffset' = 0 /\ popCount' = popCount + 1
      /\ CommitLog(traceBuf)
      /\ IF q.items # <<>>
         THEN SendPayloadType(q, <<>>)
         ELSE completions' = <<>> /\ UNCHANGED <<buf, traceBuf, writes>>
      /\ UNCHANGED <<link, wire, isProcessing, sizes, aborted>>
  BY <1>2, <1>3, <1>4 DEF OnContentWritten, socketVars
<1>6. speedQueue' \in Seq(SpeedTraces)
  <2>1. PICK length : length = Head(completions).length
    OBVIOUS
  <2>2. length \in Nat /\ CommitPayloadSpeed(length)
    BY <1>2, <2>1 DEF Completions, OnContentWritten
  <2> QED
    BY <1>3, <2>2, SpeedTyped
<1>7. q.items \in Seq(1..Len(sizes')) /\ q \in Queues(1..Len(sizes'))
  <2> DEFINE items == outgoingQueue.items
             S == 1..Len(sizes)
  <2>1. items \in Seq(S) /\ items # <<>>
    BY <1>2 DEF IInv, TypeOK, Queues, HeadInBuf
  <2> HIDE DEF items, S
  <2>2. Tail(items) \in Seq(S)
    BY <2>1
  <2>3. q = [items |-> Tail(items), isQueueEmpty |-> Tail(items) = <<>>]
    BY <1>4 DEF pop, items
  <2>4. q.items \in Seq(S) /\ q \in Queues(S)
    BY <2>2, <2>3 DEF Queues
  <2> QED
    BY <1>5, <2>4 DEF S
<1>8. /\ TracesNumbered' /\ tracesQueue' \in Seq(Traces)
      /\ Len(tracesQueue') = traceBuf.payloadId
  BY <1>2, <1>3, <1>5, CommitKeepsTraces DEF IInv
<1>9. OffsetBelongsToHead' /\ NoAssertFailure'
  BY <1>5 DEF IInv, OffsetBelongsToHead, NoAssertFailure
<1>10. /\ traceBuf \in Traces /\ traceBuf.payloadId \in Nat
       /\ sizes' \in Seq(Sizes) /\ Len(sizes') <= MaxPayloads
       /\ Len(sizes') \in Nat /\ popCount' \in Nat
  BY <1>3, <1>5 DEF TypeOK, LoggerTypeOK, Traces
<1>11. CASE q.items # <<>>
  <2>1. /\ Outstanding' /\ ~Idle'
        /\ writes' \in Seq(Writes) /\ completions' \in Seq(Completions)
        /\ buf' \in 1..Len(sizes')
        /\ traceBuf' \in Traces
        /\ traceBuf'.payloadId = traceBuf.payloadId + 1
    BY <1>2, <1>5, <1>7, <1>10, <1>11, SendPayloadTypeStep
  <2>2. TypeOK'
    <3>1. buf' \in 0..Len(sizes')
      BY <1>10, <2>1
    <3> QED
      BY <1>3, <1>5, <1>6, <1>7, <1>8, <1>10, <2>1, <3>1 DEF TypeOK, LoggerTypeOK
  <2>3. OneTracePerAttempt'
    BY <1>8, <1>10, <2>1 DEF OneTracePerAttempt
  <2> QED
    BY <1>9, <2>1, <2>2, <2>3 DEF IInv
<1>12. CASE q.items = <<>>
  <2>1. completions' = <<>> /\ writes' = <<>> /\ UNCHANGED <<buf, traceBuf>>
    BY <1>2, <1>5, <1>12
  <2>2. Outstanding' /\ Idle'
    BY <2>1 DEF Outstanding, Idle
  <2>3. TypeOK'
    <3>1. completions' \in Seq(Completions) /\ writes' \in Seq(Writes)
      BY <2>1
    <3> QED
      BY <1>3, <1>5, <1>6, <1>7, <1>8, <1>10, <2>1, <3>1 DEF TypeOK, LoggerTypeOK
  <2>4. OneTracePerAttempt'
    BY <1>8, <1>10, <2>1, <2>2 DEF OneTracePerAttempt
  <2> QED
    BY <1>9, <2>2, <2>3, <2>4 DEF IInv
<1> QED
  BY <1>11, <1>12

-----------------------------------------------------------------------------
\* Every handler of IPayloadSender and every step of the socket keeps the
\* invariant.
LEMMA StepIInv ==
    ASSUME Overlap = FALSE, IInv, [Next]_vars
    PROVE  IInv'
<1>1. CASE Connected \/ Disconnected \/ UNCHANGED vars
  <2>1. link' \in {"connecting", "open", "broken"}
    BY <1>1 DEF Connected, Disconnected, vars, socketVars, IInv, TypeOK
  <2>2. UNCHANGED <<wire, bufVars, writes, completions, logVars, histVars, aborted>>
    BY <1>1 DEF Connected, Disconnected, vars, socketVars
  <2> QED
    BY <2>1, <2>2, LinkStep
<1>2. CASE Transmit
  BY <1>2, TransmitStep
<1>3. CASE FailWrite
  BY <1>3, FailWriteStep
<1>4. ASSUME NEW size \in Sizes, SendPayload(size) PROVE IInv'
  BY <1>4, SendPayloadStep
<1>5. CASE OnPayloadSendError
  BY <1>5, SendErrorStep
<1>6. CASE OnTypeWritten
  BY <1>6, TypeWrittenStep
<1>7. CASE OnSizeWritten
  BY <1>7, SizeWrittenStep
<1>8. CASE OnChunkWritten
  BY <1>8, ChunkWrittenStep
<1>9. CASE OnContentWritten
  BY <1>9, ContentWrittenStep
<1> QED
  BY <1>1, <1>2, <1>3, <1>4, <1>5, <1>6, <1>7, <1>8, <1>9 DEF Next

\* The inductive invariant holds for every sender whose callers wait.
THEOREM SenderInvariance ==
    ASSUME Overlap = FALSE
    PROVE  Spec => []IInv
BY InitIInv, StepIInv, PTL DEF Spec

\* IPayloadSender and its PayloadLogger keep their state well typed.
THEOREM SenderTypeCorrect ==
    ASSUME Overlap = FALSE
    PROVE  Spec => []TypeOK
BY SenderInvariance, PTL DEF IInv

\* pop() is never called on an empty queue, whatever fails and however often,
\* as long as _sendPayload() is not called while a write is outstanding.
THEOREM SenderNeverAsserts ==
    ASSUME Overlap = FALSE
    PROVE  Spec => []NoAssertFailure
BY SenderInvariance, PTL DEF IInv

\* The offset that a failed attempt leaves in _bufContentOffset is always one
\* inside the payload that the next attempt sends, so the subtraction in
\* _sendPayloadBytes() does not wrap around.
THEOREM SenderOffsetBelongsToHead ==
    ASSUME Overlap = FALSE
    PROVE  Spec => []OffsetBelongsToHead
BY SenderInvariance, PTL DEF IInv

\* Every attempt opens and commits exactly one trace.
THEOREM SenderTracesEveryAttempt ==
    ASSUME Overlap = FALSE
    PROVE  Spec => []OneTracePerAttempt
BY SenderInvariance, PTL DEF IInv
-----------------------------------------------------------------------------
(* What is on the wire.  The invariant above says what is under way; the   *)
(* one below says that it goes on where the wire ends.                     *)

\* Unit j of the frame of payload n.
FrameUnit(sz, n, j) ==
    IF j = 1 THEN <<"type", n, 0>>
    ELSE IF j = 2 THEN <<"size", n, sz[n]>>
    ELSE <<"byte", n, j - 2>>

\* Stream s ends with unit j of the frame of payload n, or with the last unit
\* before that frame if j is 0; the units of the frame up to it are there.
EndsAt(s, sz, n, j) ==
    /\ IF j # 0 THEN s # <<>> /\ s[Len(s)] = FrameUnit(sz, n, j)
       ELSE IF n = 1 THEN s = <<>>
       ELSE s # <<>> /\ s[Len(s)] = FrameUnit(sz, n - 1, sz[n - 1] + 2)
    /\ \A i \in 1..j : \E k \in 1..Len(s) : s[k] = FrameUnit(sz, n, i)

\* The units that come after unit j of the frame.
Continues(t, sz, n, j) == \A i \in 1..Len(t) : t[i] = FrameUnit(sz, n, j + i)

\* How much of the frame of the payload that is sent next is on the wire.
WireAt(j) == EndsAt(wire, sizes, popCount + 1, j)

\* A frame begins on the wire where its first byte of content is to come from.
FreshFrame == WireAt(0) /\ bufContentOffset = 0

\* What a write of _buf still has to write follows what is on the wire.  (Once
\* the connection is lost, nothing is written any more.)
WriteFollowsWire(w) ==
    /\ w.payload = buf
    /\ w.part # "PAYLOAD_CONTENT" => w.left = 1
    /\ link = "connecting" => w.part = "PAYLOAD_TYPE"
    /\ link = "open" =>
        /\ w.part = "PAYLOAD_TYPE" => FreshFrame
        /\ w.part = "PAYLOAD_SIZE" => WireAt(1) /\ bufContentOffset = 0
        /\ w.part = "PAYLOAD_CONTENT" => WireAt(2 + w.from + w.done)

\* A part that was written, also before the connection was lost, is the end of
\* the wire; one that failed and whose failure is still to be handled did so
\* before the connection was made, or the connection is lost.
CompletionFollowsWire(c) ==
    /\ ~c.ec =>
        /\ link # "connecting"
        /\ c.part = "PAYLOAD_TYPE" => WireAt(1) /\ bufContentOffset = 0
        /\ c.part = "PAYLOAD_SIZE" => WireAt(2) /\ bufContentOffset = 0
        /\ c.part = "PAYLOAD_CONTENT" => WireAt(2 + bufContentOffset + c.length)
    /\ c.ec /\ link = "open" => FreshFrame

SenderFollowsWire ==
    /\ link = "connecting" => wire = <<>> /\ popCount = 0 /\ bufContentOffset = 0
    /\ link = "open" /\ Idle => FreshFrame
    /\ \A w \in Writes : writes = <<w>> => WriteFollowsWire(w)
    /\ \A c \in Completions : completions = <<c>> => CompletionFollowsWire(c)

WireInv ==
    /\ popCount <= Len(sizes)
    /\ WireHoldsFrames
    /\ PoppedWasSent
    /\ SenderFollowsWire

-----------------------------------------------------------------------------
\* Where the elements of two sequences are once they are put together.
LEMMA ConcatUnits ==
    ASSUME NEW S, NEW s \in Seq(S), NEW t \in Seq(S)
    PROVE  /\ Len(s \o t) = Len(s) + Len(t)
           /\ \A i \in 1..Len(s) : (s \o t)[i] = s[i]
           /\ \A i \in 1..Len(t) : (s \o t)[Len(s) + i] = t[i]
           /\ s \o t \in Seq(S)
<1>1. /\ Len(s \o t) = Len(s) + Len(t)
      /\ \A i \in 1..Len(s) : (s \o t)[i] = s[i]
      /\ s \o t \in Seq(S)
  OBVIOUS
<1>2. ASSUME NEW i \in 1..Len(t) PROVE (s \o t)[Len(s) + i] = t[i]
  OBVIOUS
<1> QED
  BY <1>1, <1>2

\* The units of Frame(), one by one.
LEMMA UnitsOfFrame ==
    ASSUME NEW sz \in Seq(Nat), NEW n \in 1..Len(sz), NEW u \in Range(Frame(sz, n))
    PROVE  \E j \in 1..(sz[n] + 2) : u = FrameUnit(sz, n, j)
<1> DEFINE front2 == << <<"type", n, 0>>, <<"size", n, sz[n]>> >>
           U == {"type", "size", "byte"} \X Nat \X Nat
<1>1. sz[n] \in Nat /\ n \in Nat
  OBVIOUS
<1>2. front2 \in Seq(U) /\ Len(front2) = 2
  BY <1>1
<1>3. Content(sz, n) \in Seq(U) /\ Len(Content(sz, n)) = sz[n]
  <2>1. \A i \in 1..sz[n] : <<"byte", n, i>> \in U
    BY <1>1
  <2> HIDE DEF U
  <2> QED
    BY <1>1, <2>1 DEF Content
<1>4. front2[1] = FrameUnit(sz, n, 1) /\ front2[2] = FrameUnit(sz, n, 2)
  BY DEF FrameUnit
<1>5. \A i \in 1..sz[n] : Content(sz, n)[i] = FrameUnit(sz, n, i + 2)
  BY <1>1 DEF Content, FrameUnit
<1>6. Frame(sz, n) = front2 \o Content(sz, n)
  BY DEF Frame
<1> HIDE DEF front2, U
<1>7. /\ Frame(sz, n) \in Seq(U) /\ Len(Frame(sz, n)) = 2 + sz[n]
      /\ \A i \in 1..2 : Frame(sz, n)[i] = front2[i]
      /\ \A i \in 1..sz[n] : Frame(sz, n)[2 + i] = Content(sz, n)[i]
  <2> DEFINE c == Content(sz, n)
  <2> HIDE DEF c
  <2>1. /\ Len(front2 \o c) = Len(front2) + Len(c)
        /\ \A i \in 1..Len(front2) : (front2 \o c)[i] = front2[i]
        /\ \A i \in 1..Len(c) : (front2 \o c)[Len(front2) + i] = c[i]
        /\ front2 \o c \in Seq(U)
    BY <1>2, <1>3, ConcatUnits, Zenon DEF c
  <2>2. Frame(sz, n) = front2 \o c /\ Len(c) = sz[n]
    BY <1>3, <1>6 DEF c
  <2> HIDE DEF Frame
  <2>3. PICK f : f = front2 \o c
    OBVIOUS
  <2>4. f \in Seq(U) /\ Len(f) = 2 + sz[n]
        /\ (\A i \in 1..2 : f[i] = front2[i]) /\ (\A i \in 1..sz[n] : f[2 + i] = c[i])
    BY <1>2, <2>1, <2>2, <2>3, Zenon
  <2> QED
    BY <2>2, <2>3, <2>4, Zenon DEF c
<1>8. PICK j \in 1..(sz[n] + 2) : u = Frame(sz, n)[j]
  <2>1. DOMAIN Frame(sz, n) = 1..(sz[n] + 2)
    BY <1>1, <1>7
  <2> QED
    BY <2>1 DEF Range
<1>9. Frame(sz, n)[j] = FrameUnit(sz, n, j)
  <2>1. CASE j = 1
    BY <1>4, <1>7, <2>1
  <2>2. CASE j = 2
    BY <1>4, <1>7, <2>2
  <2>3. CASE j > 2
    <3>1. PICK i \in 1..sz[n] : j = 2 + i /\ j = i + 2
      <4>1. j - 2 \in 1..sz[n] /\ j = 2 + (j - 2) /\ j = (j - 2) + 2
        BY <1>1, <2>3
      <4> QED
        BY <4>1
    <3> QED
      BY <1>5, <1>7, <3>1
  <2> QED
    BY <1>1, <2>1, <2>2, <2>3
<1> QED
  BY <1>8, <1>9

\* UnitAfter() goes through a frame and then to the next one.
LEMMA AfterUnit ==
    ASSUME NEW sz \in Seq(Nat), NEW n \in 1..Len(sz), NEW j \in 1..(sz[n] + 2)
    PROVE  /\ UnitAfter(sz, FrameUnit(sz, n, j)) =
                IF j = sz[n] + 2 THEN FrameUnit(sz, n + 1, 1)
                ELSE FrameUnit(sz, n, j + 1)
           /\ FrameUnit(sz, n, j) \in StreamUnits
           /\ FrameUnit(sz, n, j)[2] = n
<1>1. sz[n] \in Nat /\ n \in Nat /\ j \in Nat
  OBVIOUS
<1>2. CASE j = 1
  BY <1>1, <1>2 DEF UnitAfter, FrameUnit, StreamUnits
<1>3. CASE j = 2
  BY <1>1, <1>3 DEF UnitAfter, FrameUnit, StreamUnits
<1>4. CASE j > 2
  <2>1. j - 2 \in Nat /\ (j - 2) + 1 = (j + 1) - 2 /\ j + 1 > 2
    BY <1>1, <1>4
  <2>2. (j - 2 < sz[n]) <=> j # sz[n] + 2
    BY <1>1, <1>4
  <2>3. FrameUnit(sz, n, j) = <<"byte", n, j - 2>> /\ FrameUnit(sz, n + 1, 1) = <<"type", n + 1, 0>>
        /\ FrameUnit(sz, n, j + 1) = <<"byte", n, (j - 2) + 1>>
    BY <1>1, <1>4, <2>1 DEF FrameUnit
  <2>4. UnitAfter(sz, <<"byte", n, j - 2>>) =
            IF j - 2 < sz[n] THEN <<"byte", n, (j - 2) + 1>> ELSE <<"type", n + 1, 0>>
    BY DEF UnitAfter
  <2>5. FrameUnit(sz, n, j) \in StreamUnits
    <3>1. <<"byte", n, j - 2>> \in StreamUnits
      BY ONLY <1>1, <2>1, Zenon DEF StreamUnits
    <3> QED
      BY ONLY <2>3, <3>1, Zenon
  <2>6. FrameUnit(sz, n, j)[2] = n
    BY <2>3
  <2>7. UnitAfter(sz, FrameUnit(sz, n, j)) =
            IF j - 2 < sz[n] THEN <<"byte", n, (j - 2) + 1>> ELSE <<"type", n + 1, 0>>
    BY <2>3, <2>4, Zenon
  <2> QED
    BY <2>2, <2>3, <2>5, <2>6, <2>7, Zenon
<1> QED
  BY <1>1, <1>2, <1>3, <1>4

\* A stream that the next units of the frame are appended to.
LEMMA StreamGrows ==
    ASSUME NEW sz \in Seq(Nat), NEW s \in Seq(StreamUnits), NEW t \in Seq(StreamUnits),
           NEW n \in 1..Len(sz), NEW j \in Nat, NEW k \in Nat \ {0}, Len(t) = k,
           j + k <= sz[n] + 2,
           IsCutStream(s, sz), EndsAt(s, sz, n, j), Continues(t, sz, n, j)
    PROVE  IsCutStream(s \o t, sz) /\ EndsAt(s \o t, sz, n, j + k)
<1>0. PICK r : r = s \o t
  OBVIOUS
<1>1. sz[n] \in Nat /\ n \in Nat /\ Len(s) \in Nat
  OBVIOUS
<1>2. /\ Len(r) = Len(s) + k
      /\ \A i \in 1..Len(s) : r[i] = s[i]
      /\ \A i \in 1..k : r[Len(s) + i] = t[i]
  <2>1. /\ Len(s \o t) = Len(s) + Len(t)
        /\ \A i \in 1..Len(s) : (s \o t)[i] = s[i]
        /\ \A i \in 1..Len(t) : (s \o t)[Len(s) + i] = t[i]
    <3>1. s \in Seq(StreamUnits) /\ t \in Seq(StreamUnits)
      OBVIOUS
    <3> QED
      BY ONLY <3>1, ConcatUnits, SMT
  <2> QED
    BY <1>0, <2>1, Zenon
<1>3. \A i \in 1..k : r[Len(s) + i] = FrameUnit(sz, n, j + i)
  BY <1>2, Zenon DEF Continues
<1>4. r # <<>>
  <2>1. Len(r) # 0
    BY <1>1, <1>2
  <2> QED
    BY <2>1
<1>5. r[1] = <<"type", 1, 0>>
  <2>1. CASE s # <<>>
    <3>1. Len(s) >= 1
      BY <2>1
    <3>2. 1 \in 1..Len(s)
      BY ONLY <1>1, <3>1, SMT
    <3>3. s[1] = <<"type", 1, 0>>
      BY <2>1, Zenon DEF IsCutStream
    <3> QED
      BY <1>2, <3>2, <3>3, Zenon
  <2>2. CASE s = <<>>
    <3>1. Len(s) = 0
      BY <2>2
    <3>2. j = 0 /\ n = 1
      BY <2>2 DEF EndsAt
    <3>3. r[Len(s) + 1] = FrameUnit(sz, n, j + 1)
      BY <1>3
    <3> QED
      BY <3>1, <3>2, <3>3 DEF FrameUnit
  <2> QED
    BY <2>1, <2>2
<1>6. \A i \in 1..Len(r) : r[i][2] \in 1..Len(sz)
  <2> TAKE i \in 1..Len(r)
  <2>1. CASE i <= Len(s)
    <3>1. i \in 1..Len(s)
      BY ONLY <1>1, <1>2, <2>1, i \in 1..Len(r), SMT
    <3>2. s[i][2] \in 1..Len(sz)
      BY <3>1, Zenon DEF IsCutStream
    <3> QED
      BY <1>2, <3>1, <3>2, Zenon
  <2>2. CASE i > Len(s)
    <3>1. PICK m \in 1..k : i = Len(s) + m
      <4>1. i - Len(s) \in 1..k /\ i = Len(s) + (i - Len(s))
        BY <1>1, <1>2, <2>2
      <4> QED
        BY <4>1
    <3>2. j + m \in 1..(sz[n] + 2)
      BY <1>1
    <3>3. FrameUnit(sz, n, j + m)[2] = n
      BY <3>2, AfterUnit
    <3> QED
      BY <1>3, <3>1, <3>3
  <2> QED
    BY <1>1, <1>2, <2>1, <2>2
<1>7. \A i \in 1..(Len(r) - 1) : r[i + 1] = UnitAfter(sz, r[i])
  <2> TAKE i \in 1..(Len(r) - 1)
  <2>1. CASE i < Len(s)
    <3>1. i \in 1..(Len(s) - 1) /\ i \in 1..Len(s) /\ i + 1 \in 1..Len(s)
      BY ONLY <1>1, <2>1, i \in 1..(Len(r) - 1), SMT
    <3> QED
      BY <1>2, <3>1, Zenon DEF IsCutStream
  <2>2. CASE i = Len(s)
    <3>1. r[i + 1] = FrameUnit(sz, n, j + 1)
      BY <1>3, <2>2
    <3>2. r[i] = s[Len(s)] /\ s # <<>>
      BY <1>1, <1>2, <2>2
    <3>3. CASE j # 0
      <4>1. r[i] = FrameUnit(sz, n, j)
        BY <3>2, <3>3, Zenon DEF EndsAt
      <4>2. j \in 1..(sz[n] + 2) /\ j # sz[n] + 2
        BY ONLY <1>1, <3>3, j \in Nat, k \in Nat \ {0}, j + k <= sz[n] + 2, SMT
      <4> QED
        BY <3>1, <4>1, <4>2, AfterUnit
    <3>4. CASE j = 0
      <4>1. n # 1 /\ r[i] = FrameUnit(sz, n - 1, sz[n - 1] + 2)
        BY <3>2, <3>4 DEF EndsAt
      <4>2. PICK p \in 1..Len(sz) : p = n - 1
        BY <4>1
      <4>3. sz[p] \in Nat /\ sz[p] + 2 \in 1..(sz[p] + 2) /\ p + 1 = n
        <5>1. sz[p] \in Nat
          BY ONLY sz \in Seq(Nat), p \in 1..Len(sz), SMT
        <5>2. p + 1 = n
          BY <1>1, <4>2
        <5>3. \A x \in Nat : x + 2 \in 1..(x + 2)
          OBVIOUS
        <5> QED
          BY <5>1, <5>2, <5>3, Zenon
      <4>4. UnitAfter(sz, FrameUnit(sz, p, sz[p] + 2)) = FrameUnit(sz, p + 1, 1)
        BY <4>3, AfterUnit
      <4> QED
        BY <3>1, <3>4, <4>1, <4>2, <4>3, <4>4
    <3> QED
      BY <3>3, <3>4
  <2>3. CASE i > Len(s)
    <3>1. PICK m \in 1..k : i = Len(s) + m /\ m + 1 \in 1..k
      <4>1. /\ i - Len(s) \in 1..k /\ i = Len(s) + (i - Len(s))
            /\ (i - Len(s)) + 1 \in 1..k
        <5>1. Len(r) = Len(s) + k
          BY <1>2
        <5> QED
          BY ONLY <1>1, <2>3, <5>1, i \in 1..(Len(r) - 1), k \in Nat \ {0}, SMT
      <4> QED
        BY <4>1
    <3>2. j + m \in 1..(sz[n] + 2) /\ j + m # sz[n] + 2
      <4>1. PICK y \in Nat : y = sz[n]
        BY ONLY <1>1
      <4>2. m + 1 <= k
        BY ONLY <3>1, m \in 1..k, k \in Nat \ {0}
      <4>3. j + k <= y + 2
        BY ONLY <4>1, j + k <= sz[n] + 2, Zenon
      <4>4. j + m \in 1..(y + 2) /\ j + m # y + 2
        BY ONLY <4>2, <4>3, m \in 1..k, j \in Nat, k \in Nat \ {0}, y \in Nat
      <4> QED
        BY ONLY <4>1, <4>4, Zenon
    <3>3. UnitAfter(sz, FrameUnit(sz, n, j + m)) = FrameUnit(sz, n, (j + m) + 1)
      BY <3>2, AfterUnit
    <3>4. r[Len(s) + m] = FrameUnit(sz, n, j + m)
          /\ r[Len(s) + (m + 1)] = FrameUnit(sz, n, j + (m + 1))
      BY <1>3, <3>1
    <3>5. (j + m) + 1 = j + (m + 1) /\ i + 1 = Len(s) + (m + 1)
      BY <1>1, <3>1
    <3> QED
      BY <3>1, <3>3, <3>4, <3>5
  <2> QED
    BY <1>1, <1>2, <2>1, <2>2, <2>3
<1>8. r[Len(r)] = FrameUnit(sz, n, j + k)
  <2>1. k \in 1..k
    OBVIOUS
  <2> QED
    BY <1>2, <1>3, <2>1, Zenon
<1>9. \A i \in 1..(j + k) : \E m \in 1..Len(r) : r[m] = FrameUnit(sz, n, i)
  <2> TAKE i \in 1..(j + k)
  <2>1. CASE i <= j
    <3>1. PICK m \in 1..Len(s) : s[m] = FrameUnit(sz, n, i)
      BY <2>1 DEF EndsAt
    <3>2. m \in 1..Len(r) /\ r[m] = s[m]
      BY <1>1, <1>2
    <3> QED
      BY <3>1, <3>2
  <2>2. CASE i > j
    <3>1. i - j \in 1..k /\ j + (i - j) = i
      BY <2>2
    <3>2. r[Len(s) + (i - j)] = FrameUnit(sz, n, i)
      BY <1>3, <3>1, Zenon
    <3>3. Len(s) + (i - j) \in 1..Len(r)
      BY <1>1, <1>2, <3>1
    <3> QED
      BY <3>2, <3>3
  <2> QED
    BY <2>1, <2>2
<1>10. EndsAt(r, sz, n, j + k)
  <2>1. j + k # 0
    OBVIOUS
  <2> QED
    BY <1>4, <1>8, <1>9, <2>1, Zenon DEF EndsAt
<1>11. IsCutStream(r, sz)
  BY <1>5, <1>6, <1>7 DEF IsCutStream
<1> QED
  BY <1>0, <1>10, <1>11

\* Submitting a payload changes neither the stream nor where it ends.
LEMMA StreamStays ==
    ASSUME NEW sz \in Seq(Nat), NEW s \in Seq(StreamUnits), NEW x \in Nat
    PROVE  /\ IsCutStream(s, sz) => IsCutStream(s, Append(sz, x))
           /\ \A n \in 1..(Len(sz) + 1) :
                EndsAt(s, sz, n, 0) => EndsAt(s, Append(sz, x), n, 0)
           /\ \A n \in 1..Len(sz) : Frame(Append(sz, x), n) = Frame(sz, n)
<1> DEFINE z == Append(sz, x)
<1>1. /\ Len(z) = Len(sz) + 1 /\ Len(sz) \in Nat
      /\ \A n \in 1..Len(sz) : z[n] = sz[n]
  OBVIOUS
<1> HIDE DEF z
<1>2. ASSUME IsCutStream(s, sz) PROVE IsCutStream(s, z)
  <2>1. ASSUME NEW k \in 1..(Len(s) - 1) PROVE s[k + 1] = UnitAfter(z, s[k])
    <3>1. k \in 1..Len(s) /\ s[k + 1] = UnitAfter(sz, s[k])
      BY <1>2 DEF IsCutStream
    <3>2. s[k][2] \in 1..Len(sz)
      BY <1>2, <3>1 DEF IsCutStream
    <3> QED
      BY <1>1, <3>1, <3>2 DEF UnitAfter
  <2>2. \A k \in 1..Len(s) : s[k][2] \in 1..Len(z)
    BY <1>1, <1>2 DEF IsCutStream
  <2> QED
    BY <1>2, <2>1, <2>2 DEF IsCutStream
<1>3. ASSUME NEW n \in 1..(Len(sz) + 1), EndsAt(s, sz, n, 0) PROVE EndsAt(s, z, n, 0)
  <2>1. n # 1 => n - 1 \in 1..Len(sz) /\ z[n - 1] = sz[n - 1]
    BY <1>1
  <2>2. n # 1 => FrameUnit(z, n - 1, z[n - 1] + 2) = FrameUnit(sz, n - 1, sz[n - 1] + 2)
    BY <2>1 DEF FrameUnit
  <2> QED
    BY <1>3, <2>2 DEF EndsAt
<1>4. ASSUME NEW n \in 1..Len(sz) PROVE Frame(z, n) = Frame(sz, n)
  BY <1>1 DEF Frame, Content
<1> QED
  BY <1>2, <1>3, <1>4 DEF z
-----------------------------------------------------------------------------
\* The payloads are sent in the order of their numbers.
LEMMA HeadIsNext ==
    ASSUME IInv, WireInv, HeadInBuf
    PROVE  /\ buf = popCount + 1 /\ buf \in 1..Len(sizes) /\ SizeOf(buf) = sizes[buf]
           /\ sizes \in Seq(Nat) /\ sizes[buf] \in Nat
<1>1. /\ sizes \in Seq(Sizes) /\ popCount \in Nat /\ Len(sizes) \in Nat
      /\ popCount <= Len(sizes)
  BY DEF IInv, TypeOK, WireInv
<1>2. sizes \in Seq(Nat)
  BY <1>1, SeqWiden, SenderAssumption
<1>3. outgoingQueue.items = [i \in 1..(Len(sizes) - popCount) |-> popCount + i]
  BY DEF WireInv, PoppedWasSent
<1> DEFINE items == [i \in 1..(Len(sizes) - popCount) |-> popCount + i]
<1>4. items \in Seq(Nat) /\ Len(items) = Len(sizes) - popCount
  BY <1>1
<1>5. items # <<>> /\ Head(items) = buf
  BY <1>3 DEF HeadInBuf
<1>6. Len(items) # 0
  <2> HIDE DEF items
  <2> QED
    BY <1>4, <1>5
<1>7. popCount < Len(sizes)
  <2>1. Len(sizes) - popCount # 0
    BY <1>4, <1>6
  <2> QED
    BY <1>1, <2>1
<1>8. items[1] = popCount + 1
  BY <1>1, <1>7
<1>9. Head(items) = items[1]
  <2> HIDE DEF items
  <2> QED
    BY <1>4, <1>5
<1>10. buf = popCount + 1 /\ buf \in 1..Len(sizes)
  BY <1>1, <1>5, <1>7, <1>8, <1>9
<1>11. sizes[buf] \in Nat
  BY <1>2, <1>10
<1> QED
  BY <1>1, <1>2, <1>10, <1>11 DEF SizeOf

\* What is said of the wire stays true of a step that leaves the wire and the
\* payloads alone.
LEMMA WireStays ==
    ASSUME UNCHANGED <<wire, sizes, popCount>>
    PROVE  /\ \A j : WireAt(j)' <=> WireAt(j)
           /\ WireHoldsFrames' <=> WireHoldsFrames
           /\ (popCount <= Len(sizes))' <=> popCount <= Len(sizes)
           /\ outgoingQueue'.items = outgoingQueue.items =>
                (PoppedWasSent' <=> PoppedWasSent)
BY DEF WireAt, WireHoldsFrames, PoppedWasSent

\* The write that is started follows the wire, or what it comes to when there
\* is nothing to write.
LEMMA StartWriteFollows ==
    ASSUME NEW w \in Writes, writes = <<>>, StartWrite(w, <<>>),
           WriteFollowsWire(w)', w.left = 0 => CompletionFollowsWire(Completed(w, FALSE))',
           (link = "connecting" => wire = <<>> /\ popCount = 0 /\ bufContentOffset = 0)'
    PROVE  SenderFollowsWire'
<1>1. CASE w.left = 0
  <2> DEFINE c == Completed(w, FALSE)
  <2>1. c \in Completions
    BY DEF Writes, Completions, Completed
  <2>2. writes' = <<>> /\ completions' = Append(<<>>, c)
    BY <1>1 DEF StartWrite
  <2>3. CompletionFollowsWire(c)'
    BY <1>1
  <2> HIDE DEF c
  <2>4. completions' = <<c>>
    BY <2>1, <2>2
  <2> QED
    BY <2>2, <2>3, <2>4 DEF SenderFollowsWire, Idle
<1>2. CASE w.left # 0
  <2>1. writes' = <<w>> /\ completions' = <<>>
    BY <1>2 DEF StartWrite
  <2> QED
    BY <2>1 DEF SenderFollowsWire, Idle
<1> QED
  BY <1>1, <1>2

\* Nothing is on the wire when the sender is constructed.
LEMMA InitWireInv == Init => WireInv
<1> SUFFICES ASSUME Init PROVE WireInv
  OBVIOUS
<1>1. /\ link = "connecting" /\ sizes = <<>> /\ outgoingQueue.items = <<>>
      /\ bufContentOffset = 0 /\ writes = <<>> /\ completions = <<>>
      /\ wire = <<>> /\ popCount = 0
  BY DEF Init, EmptyQueue
<1>2. popCount <= Len(sizes) /\ WireHoldsFrames
  BY <1>1 DEF WireHoldsFrames, IsCutStream
<1>3. PoppedWasSent
  BY <1>1 DEF PoppedWasSent
<1>4. SenderFollowsWire
  BY <1>1 DEF SenderFollowsWire
<1> QED
  BY <1>2, <1>3, <1>4 DEF WireInv

\* The connection is made, with nothing on the wire and the first payload, if
\* any, still to begin; or it is lost, and nothing is written any more.
LEMMA LinkWire ==
    ASSUME IInv, WireInv, Connected \/ Disconnected \/ UNCHANGED vars
    PROVE  WireInv'
<1>1. UNCHANGED <<wire, bufVars, writes, completions, logVars, histVars, aborted>>
  BY DEF Connected, Disconnected, vars, socketVars
<1>2. UNCHANGED <<wire, sizes, popCount, outgoingQueue, buf, bufContentOffset, writes,
                  completions>>
  BY <1>1 DEF bufVars, histVars
<1>3. \/ link' = link
      \/ link = "connecting" /\ link' = "open"
      \/ link' = "broken"
  BY DEF Connected, Disconnected, vars, socketVars
<1>4. /\ \A j : WireAt(j)' <=> WireAt(j)
      /\ WireHoldsFrames' /\ PoppedWasSent' /\ (popCount <= Len(sizes))'
  BY <1>2, WireStays DEF WireInv
<1>5. FreshFrame' <=> FreshFrame
  BY <1>2, <1>4 DEF FreshFrame
<1>6. link = "connecting" => FreshFrame
  BY DEF WireInv, SenderFollowsWire, FreshFrame, WireAt, EndsAt
<1>7. link' = "connecting" => link = "connecting"
  BY <1>3
<1>8. link' = "open" => link = "open" \/ link = "connecting"
  BY <1>3
<1>9. ASSUME NEW w \in Writes, writes = <<w>> PROVE WriteFollowsWire(w)'
  <2>1. WriteFollowsWire(w)
    BY <1>9 DEF WireInv, SenderFollowsWire
  <2> QED
    BY <1>2, <1>4, <1>5, <1>6, <1>7, <1>8, <2>1 DEF WriteFollowsWire
<1>10. ASSUME NEW c \in Completions, completions = <<c>> PROVE CompletionFollowsWire(c)'
  <2>1. CompletionFollowsWire(c)
    BY <1>10 DEF WireInv, SenderFollowsWire
  <2> QED
    BY <1>2, <1>4, <1>5, <1>6, <1>7, <1>8, <2>1 DEF CompletionFollowsWire
<1>11. SenderFollowsWire'
  <2>1. (link = "connecting" => wire = <<>> /\ popCount = 0 /\ bufContentOffset = 0)'
    BY <1>2, <1>7 DEF WireInv, SenderFollowsWire
  <2>2. (link = "open" /\ Idle => FreshFrame)'
    BY <1>2, <1>5, <1>6, <1>8 DEF WireInv, SenderFollowsWire, Idle
  <2> QED
    BY <1>2, <1>9, <1>10, <2>1, <2>2 DEF SenderFollowsWire
<1> QED
  BY <1>4, <1>11 DEF WireInv
\* The socket takes units of a write: they are the ones that come next.
LEMMA TransmitWire == IInv /\ WireInv /\ Transmit => WireInv'
<1> SUFFICES ASSUME IInv, WireInv, Transmit PROVE WireInv'
  OBVIOUS
<1>1. PICK w \in Writes : writes = <<w>> /\ completions = <<>> /\ GoodWrite(w)
  BY DEF Transmit, IInv, Outstanding
<1>2. Head(writes) = w /\ Tail(writes) = <<>> /\ link = "open"
  BY <1>1 DEF Transmit
<1>3. PICK k \in 1..w.left, held \in Held(w) :
        LET taken == [w EXCEPT !.done = @ + k, !.left = @ - k] IN
          /\ wire' = wire \o Transmitted(w, k, held)
          /\ IF taken.left = 0
             THEN /\ writes' = Tail(writes)
                  /\ completions' = Append(completions, Completed(taken, FALSE))
             ELSE /\ writes' = Append(Tail(writes), taken)
                  /\ UNCHANGED completions
  BY <1>2 DEF Transmit
<1>4. UNCHANGED <<link, outgoingQueue, buf, bufContentOffset, sizes, popCount>>
  BY DEF Transmit, bufVars, histVars
<1>5. /\ buf = popCount + 1 /\ buf \in 1..Len(sizes) /\ SizeOf(buf) = sizes[buf]
      /\ sizes \in Seq(Nat) /\ sizes[buf] \in Nat
  BY <1>1, HeadIsNext DEF GoodWrite
<1>6. WriteFollowsWire(w) /\ held = buf
  BY <1>1 DEF WireInv, SenderFollowsWire, WriteFollowsWire, Held
<1>7. /\ w.done \in Nat /\ w.left \in Nat /\ w.from \in Nat /\ k \in Nat /\ k >= 1
      /\ k <= w.left /\ w.part \in Parts /\ bufContentOffset \in Nat
      /\ wire \in Seq(StreamUnits)
  BY DEF Writes, IInv, TypeOK
<1>8. PICK j \in Nat : /\ w.part = "PAYLOAD_TYPE" => j = 0
                       /\ w.part = "PAYLOAD_SIZE" => j = 1
                       /\ w.part = "PAYLOAD_CONTENT" => j = 2 + w.from + w.done
  <2>1. CASE w.part = "PAYLOAD_CONTENT"
    <3>1. 2 + w.from + w.done \in Nat
      BY <1>7
    <3> QED
      BY <2>1, <3>1
  <2>2. CASE w.part = "PAYLOAD_TYPE"
    BY <2>2
  <2>3. CASE w.part = "PAYLOAD_SIZE"
    BY <2>3
  <2> QED
    BY <1>7, <2>1, <2>2, <2>3 DEF Parts
<1>9. WireAt(j)
  BY <1>2, <1>6, <1>7, <1>8 DEF WriteFollowsWire, FreshFrame, Parts
<1>10. PICK t : t = Transmitted(w, k, held)
  OBVIOUS
<1>11. /\ t \in Seq(StreamUnits) /\ Len(t) = k /\ Continues(t, sizes, buf, j)
       /\ j + k <= sizes[buf] + 2
       /\ w.part # "PAYLOAD_CONTENT" => k = 1
  <2>1. CASE w.part = "PAYLOAD_TYPE"
    <3>1. k = 1 /\ j = 0
      BY <1>6, <1>7, <1>8, <2>1 DEF WriteFollowsWire
    <3>2. t = << <<"type", buf, 0>> >>
      BY <1>10, <2>1 DEF Transmitted
    <3>3. FrameUnit(sizes, buf, 1) = <<"type", buf, 0>>
      BY DEF FrameUnit
    <3>4. <<"type", buf, 0>> \in StreamUnits
      BY <1>5 DEF StreamUnits
    <3>5. t \in Seq(StreamUnits) /\ Len(t) = 1 /\ t[1] = <<"type", buf, 0>>
      BY <3>2, <3>4
    <3>6. Continues(t, sizes, buf, j)
      BY <3>1, <3>3, <3>5 DEF Continues
    <3> QED
      BY <1>5, <3>1, <3>5, <3>6
  <2>2. CASE w.part = "PAYLOAD_SIZE"
    <3>1. k = 1 /\ j = 1
      BY <1>6, <1>7, <1>8, <2>2 DEF WriteFollowsWire
    <3>2. t = << <<"size", buf, sizes[buf]>> >>
      BY <1>5, <1>10, <2>2 DEF Transmitted
    <3>3. FrameUnit(sizes, buf, 2) = <<"size", buf, sizes[buf]>>
      BY DEF FrameUnit
    <3>4. <<"size", buf, sizes[buf]>> \in StreamUnits
      BY <1>5 DEF StreamUnits
    <3>5. t \in Seq(StreamUnits) /\ Len(t) = 1 /\ t[1] = <<"size", buf, sizes[buf]>>
      BY <3>2, <3>4
    <3>6. Continues(t, sizes, buf, j)
      BY <3>1, <3>3, <3>5 DEF Continues
    <3> QED
      BY <1>5, <3>1, <3>5, <3>6
  <2>3. CASE w.part = "PAYLOAD_CONTENT"
    <3>1. j = 2 + w.from + w.done /\ w.from + w.done + w.left <= sizes[buf]
      BY <1>1, <1>5, <1>8, <2>3 DEF GoodWrite
    <3>2. w.from + w.done \in Nat /\ j = 2 + (w.from + w.done)
      BY <1>7, <3>1
    <3>3. t = [i \in 1..k |-> ByteOf(buf, w.from + w.done + i)]
      BY <1>6, <1>10, <2>3 DEF Transmitted
    <3>4. ASSUME NEW i \in 1..k
          PROVE  /\ ByteOf(buf, w.from + w.done + i) = FrameUnit(sizes, buf, j + i)
                 /\ ByteOf(buf, w.from + w.done + i) \in StreamUnits
      <4>1. /\ w.from + w.done + i <= sizes[buf] /\ j + i # 1 /\ j + i # 2
            /\ (j + i) - 2 = w.from + w.done + i /\ w.from + w.done + i \in Nat
        <5>1. \A a, l, z \in Nat : j = 2 + a /\ a + l <= z /\ k <= l =>
                  /\ a + i <= z /\ j + i # 1 /\ j + i # 2
                  /\ (j + i) - 2 = a + i /\ a + i \in Nat
          BY <1>7
        <5> QED
          BY <1>5, <1>7, <3>1, <3>2, <5>1
      <4>2. ByteOf(buf, w.from + w.done + i) = <<"byte", buf, w.from + w.done + i>>
        BY <1>5, <4>1 DEF ByteOf
      <4>3. FrameUnit(sizes, buf, j + i) = <<"byte", buf, w.from + w.done + i>>
        BY <4>1 DEF FrameUnit
      <4>4. <<"byte", buf, w.from + w.done + i>> \in StreamUnits
        BY <1>5, <4>1 DEF StreamUnits
      <4> QED
        BY <4>2, <4>3, <4>4
    <3>5. /\ t \in Seq(StreamUnits) /\ Len(t) = k
          /\ \A i \in 1..k : t[i] = ByteOf(buf, w.from + w.done + i)
      BY <1>7, <3>3, <3>4
    <3>6. Continues(t, sizes, buf, j)
      BY <3>4, <3>5 DEF Continues
    <3>7. j + k <= sizes[buf] + 2
      <4>1. \A a, l, z \in Nat : j = 2 + a /\ a + l <= z /\ k <= l => j + k <= z + 2
        BY <1>7
      <4> QED
        BY <1>5, <1>7, <3>1, <3>2, <4>1
    <3> QED
      BY <2>3, <3>5, <3>6, <3>7
  <2> QED
    BY <1>7, <2>1, <2>2, <2>3 DEF Parts
<1>12. /\ IsCutStream(wire', sizes) /\ EndsAt(wire', sizes, buf, j + k)
  <2>1. IsCutStream(wire, sizes) /\ EndsAt(wire, sizes, buf, j)
    BY <1>5, <1>9 DEF WireInv, WireHoldsFrames, WireAt
  <2>2. wire' = wire \o t
    BY <1>3, <1>10
  <2>3. k \in Nat \ {0}
    BY <1>7
  <2>4. IsCutStream(wire \o t, sizes) /\ EndsAt(wire \o t, sizes, buf, j + k)
    BY ONLY <1>5, <1>7, <1>11, <2>1, <2>3, StreamGrows, j \in Nat, Zenon
  <2> QED
    BY <2>2, <2>4
<1>13. WireHoldsFrames' /\ WireAt(j + k)' /\ (popCount <= Len(sizes))'
  BY <1>4, <1>5, <1>12 DEF WireInv, WireHoldsFrames, WireAt
<1>14. PoppedWasSent'
  <2>1. Range(wire) \subseteq Range(wire')
    <3>1. wire' = wire \o t
      BY <1>3, <1>10
    <3>2. Len(wire \o t) = Len(wire) + Len(t) /\ wire \o t \in Seq(StreamUnits)
          /\ \A i \in 1..Len(wire) : (wire \o t)[i] = wire[i]
      <4>1. wire \in Seq(StreamUnits) /\ t \in Seq(StreamUnits)
        BY <1>7, <1>11
      <4> QED
        BY ONLY <4>1, ConcatUnits, SMT
    <3>3. DOMAIN wire = 1..Len(wire) /\ DOMAIN wire' = 1..Len(wire')
          /\ Len(wire') = Len(wire) + k /\ Len(wire) \in Nat
      BY ONLY <1>7, <1>11, <3>1, <3>2, SMT
    <3>4. \A i \in DOMAIN wire : i \in DOMAIN wire' /\ wire'[i] = wire[i]
      BY <1>7, <3>1, <3>2, <3>3
    <3> QED
      BY <3>4 DEF Range
  <2> QED
    BY <1>4, <2>1 DEF WireInv, PoppedWasSent
<1> DEFINE taken == [w EXCEPT !.done = @ + k, !.left = @ - k]
           c == Completed(taken, FALSE)
<1>15. /\ taken \in Writes /\ taken.part = w.part /\ taken.payload = w.payload
       /\ taken.from = w.from /\ taken.done = w.done + k /\ taken.left = w.left - k
  <2>1. w.done + k \in Nat /\ w.left - k \in Nat
    BY <1>7
  <2> QED
    BY <2>1 DEF Writes
<1>16. c \in Completions /\ c.part = w.part /\ c.length = w.done + k /\ c.ec = FALSE
  BY <1>7, <1>15 DEF Completions, Completed, Writes
<1>17. IF taken.left = 0 THEN writes' = <<>> /\ completions' = Append(<<>>, c)
       ELSE writes' = Append(<<>>, taken) /\ completions' = <<>>
  BY <1>1, <1>2, <1>3
<1> HIDE DEF taken, c
<1>18. CASE taken.left = 0
  <2>1. writes' = <<>> /\ completions' = <<c>>
    BY <1>16, <1>17, <1>18
  <2>2. CompletionFollowsWire(c)'
    <3>1. w.part = "PAYLOAD_TYPE" => j + k = 1 /\ bufContentOffset = 0
      BY <1>2, <1>6, <1>8, <1>11 DEF WriteFollowsWire, FreshFrame
    <3>2. w.part = "PAYLOAD_SIZE" => j + k = 2 /\ bufContentOffset = 0
      BY <1>2, <1>6, <1>8, <1>11 DEF WriteFollowsWire
    <3>3. w.part = "PAYLOAD_CONTENT" => j + k = 2 + bufContentOffset + c.length
      BY <1>1, <1>7, <1>8, <1>16 DEF GoodWrite
    <3> QED
      BY <1>2, <1>4, <1>13, <1>16, <3>1, <3>2, <3>3 DEF CompletionFollowsWire
  <2>3. SenderFollowsWire'
    BY <1>2, <1>4, <2>1, <2>2 DEF SenderFollowsWire, Idle
  <2> QED
    BY <1>13, <1>14, <2>3 DEF WireInv
<1>19. CASE taken.left # 0
  <2>1. writes' = <<taken>> /\ completions' = <<>>
    BY <1>15, <1>17, <1>19
  <2>2. w.part = "PAYLOAD_CONTENT" /\ j + k = 2 + taken.from + taken.done
    <3>1. w.part = "PAYLOAD_CONTENT"
      <4>1. w.part # "PAYLOAD_CONTENT" => w.left = 1 /\ k = 1
        BY <1>6, <1>11 DEF WriteFollowsWire
      <4> QED
        BY <1>15, <1>19, <4>1
    <3> QED
      BY <1>7, <1>8, <1>15, <3>1
  <2>3. WriteFollowsWire(taken)'
    BY <1>2, <1>4, <1>6, <1>13, <1>15, <2>2 DEF WriteFollowsWire
  <2>4. SenderFollowsWire'
    BY <1>2, <1>4, <2>1, <2>3 DEF SenderFollowsWire, Idle
  <2> QED
    BY <1>13, <1>14, <2>4 DEF WireInv
<1> QED
  BY <1>18, <1>19
\* A write fails: the connection is not made yet, or lost.
LEMMA FailWriteWire == IInv /\ WireInv /\ FailWrite => WireInv'
<1> SUFFICES ASSUME IInv, WireInv, FailWrite PROVE WireInv'
  OBVIOUS
<1>1. PICK w \in Writes : writes = <<w>> /\ completions = <<>>
  BY DEF FailWrite, IInv, Outstanding
<1>2. PICK c : c = Completed(w, TRUE)
  OBVIOUS
<1>3. c \in Completions /\ c.ec = TRUE
  BY <1>2 DEF Completions, Completed, Writes
<1>4. UNCHANGED <<link, wire, sizes, popCount, outgoingQueue, bufContentOffset>>
      /\ link # "open"
  BY DEF FailWrite, socketVars, bufVars, histVars
<1>5. writes' = <<>> /\ completions' = Append(<<>>, c)
  BY <1>1, <1>2 DEF FailWrite
<1>6. completions' = <<c>>
  BY <1>3, <1>5
<1>7. SenderFollowsWire'
  BY <1>3, <1>4, <1>5, <1>6
     DEF WireInv, SenderFollowsWire, CompletionFollowsWire, Idle
<1> QED
  BY <1>4, <1>7, WireStays DEF WireInv

\* _sendPayloadType(), with the queue as the handler leaves it: the frame it
\* begins is the next one.
LEMMA SendPayloadTypeFollows ==
    ASSUME NEW q, q.items # <<>>, Head(q.items) \in Ids,
           writes = <<>>, SendPayloadType(q, <<>>), outgoingQueue' = q,
           link' = "open" => FreshFrame',
           (link = "connecting" => wire = <<>> /\ popCount = 0 /\ bufContentOffset = 0)'
    PROVE  SenderFollowsWire'
<1>1. PICK w : w = [part |-> "PAYLOAD_TYPE", payload |-> front(q), from |-> 0,
                    done |-> 0, left |-> 1]
  OBVIOUS
<1>2. w \in Writes
  BY <1>1 DEF Writes, Parts, front
<1>3. StartWrite(w, <<>>) /\ buf' = w.payload
  BY <1>1 DEF SendPayloadType
<1>4. WriteFollowsWire(w)'
  BY <1>1, <1>3 DEF WriteFollowsWire
<1>5. w.left # 0
  BY <1>1
<1> QED
  BY <1>2, <1>3, <1>4, <1>5, StartWriteFollows

\* _sendPayload(): the new payload comes last.
LEMMA SendPayloadWire ==
    ASSUME Overlap = FALSE, IInv, IInv', WireInv, NEW size \in Sizes, SendPayload(size)
    PROVE  WireInv'
<1>1. /\ Idle /\ sizes' = Append(sizes, size)
      /\ outgoingQueue' = push(outgoingQueue, Len(sizes) + 1)
      /\ UNCHANGED <<link, wire, bufContentOffset, popCount>>
  BY DEF SendPayload, socketVars
<1>2. /\ sizes \in Seq(Nat) /\ wire \in Seq(StreamUnits) /\ size \in Nat
      /\ Len(sizes) \in Nat /\ Len(sizes') = Len(sizes) + 1
      /\ popCount \in Nat /\ popCount <= Len(sizes)
  <2>1. sizes \in Seq(Sizes) /\ wire \in Seq(StreamUnits) /\ popCount \in Nat
    BY DEF IInv, TypeOK
  <2>2. sizes \in Seq(Nat) /\ size \in Nat
    BY <2>1, SeqWiden, SenderAssumption
  <2>3. popCount <= Len(sizes)
    BY DEF WireInv
  <2> QED
    BY <1>1, <2>1, <2>2, <2>3
<1>3. /\ IsCutStream(wire, sizes) => IsCutStream(wire, Append(sizes, size))
      /\ \A n \in 1..(Len(sizes) + 1) :
            EndsAt(wire, sizes, n, 0) => EndsAt(wire, Append(sizes, size), n, 0)
      /\ \A n \in 1..Len(sizes) : Frame(Append(sizes, size), n) = Frame(sizes, n)
  <2>1. sizes \in Seq(Nat) /\ wire \in Seq(StreamUnits) /\ size \in Nat
    BY <1>2
  <2> QED
    BY ONLY <2>1, StreamStays, Zenon
<1>4. WireHoldsFrames' /\ (popCount <= Len(sizes))'
  BY <1>1, <1>2, <1>3 DEF WireInv, WireHoldsFrames
<1>5. WireAt(0) => WireAt(0)'
  <2>1. popCount + 1 \in 1..(Len(sizes) + 1)
    BY <1>2
  <2> QED
    BY <1>1, <1>3, <2>1 DEF WireAt
<1>6. PoppedWasSent'
  <2>1. \A n \in 1..popCount : Range(Frame(sizes, n)) \subseteq Range(wire)
    BY DEF WireInv, PoppedWasSent
  <2>2. \A n \in 1..popCount : n \in 1..Len(sizes)
    BY <1>2
  <2>3. \A n \in 1..popCount' : Range(Frame(sizes', n)) \subseteq Range(wire')
    BY <1>1, <1>3, <2>1, <2>2
  <2>4. outgoingQueue'.items = Append(outgoingQueue.items, Len(sizes) + 1)
    BY <1>1 DEF push
  <2> DEFINE d == Len(sizes) - popCount
  <2>5. d \in Nat /\ Len(sizes') - popCount = d + 1 /\ popCount + (d + 1) = Len(sizes) + 1
    BY <1>2
  <2>6. outgoingQueue.items = [i \in 1..d |-> popCount + i]
    BY DEF WireInv, PoppedWasSent
  <2> HIDE DEF d
  <2>7. Append([i \in 1..d |-> popCount + i], popCount + (d + 1))
            = [i \in 1..(d + 1) |-> popCount + i]
    BY <1>2, <2>5
  <2> QED
    BY <1>1, <2>3, <2>4, <2>5, <2>6, <2>7 DEF PoppedWasSent
<1>7. link' = "open" => FreshFrame'
  BY <1>1, <1>5 DEF WireInv, SenderFollowsWire, FreshFrame
<1>8. (link = "connecting" => wire = <<>> /\ popCount = 0 /\ bufContentOffset = 0)'
  BY <1>1 DEF WireInv, SenderFollowsWire
<1>9. SenderFollowsWire'
  <2>1. CASE isProcessing
    <3>1. writes' = <<>> /\ completions' = <<>>
      BY <1>1, <2>1 DEF SendPayload, Idle
    <3> QED
      BY <1>7, <1>8, <3>1 DEF SenderFollowsWire
  <2>2. CASE ~isProcessing
    <3>1. PICK q : q = outgoingQueue'
      OBVIOUS
    <3>2. SendPayloadType(q, <<>>) /\ writes = <<>>
      BY <1>1, <2>2, <3>1 DEF SendPayload, Idle
    <3>3. q.items # <<>> /\ Head(q.items) \in Ids
      <4>1. PICK items : items = outgoingQueue.items
        OBVIOUS
      <4>2. items \in Seq(Nat) /\ q.items = Append(items, Len(sizes) + 1)
        <5>1. items \in Seq(1..Len(sizes))
          BY <4>1 DEF IInv, TypeOK, Queues
        <5>2. 1..Len(sizes) \subseteq Nat
          BY <1>2
        <5> QED
          BY <1>1, <3>1, <4>1, <5>1, <5>2, SeqWiden DEF push
      <4>3. q.items # <<>>
        <5>1. Len(sizes) + 1 \in Nat
          BY <1>2
        <5>2. Append(items, Len(sizes) + 1) # <<>>
          BY ONLY <4>2, <5>1, AppendKeepsHead, Zenon
        <5> QED
          BY <4>2, <5>2
      <4>4. q.items \in Seq(1..Len(sizes')) /\ Len(sizes') <= MaxPayloads
        BY <3>1 DEF IInv, TypeOK, Queues
      <4>5. Head(q.items) \in 1..Len(sizes')
        <5>1. PICK it : it = q.items
          OBVIOUS
        <5>2. it \in Seq(1..Len(sizes')) /\ it # <<>>
          BY <4>3, <4>4, <5>1
        <5>3. Head(it) \in 1..Len(sizes')
          BY ONLY <5>2, SMT
        <5> QED
          BY <5>1, <5>3
      <4> QED
        BY <1>2, <4>3, <4>4, <4>5, SenderAssumption DEF Ids
    <3> QED
      BY <1>7, <1>8, <3>1, <3>2, <3>3, SendPayloadTypeFollows
  <2> QED
    BY <2>1, <2>2
<1> QED
  BY <1>4, <1>6, <1>9 DEF WireInv
\* The handler that runs finds the part it belongs to on the wire, or not.
LEMMA HandlerFollows ==
    ASSUME IInv, WireInv, NEW part \in Parts, NEW ec \in BOOLEAN, Handler(part, ec)
    PROVE  /\ writes = <<>> /\ Tail(completions) = <<>>
           /\ Head(completions) \in Completions /\ Head(completions).part = part
           /\ Head(completions).ec = ec
           /\ GoodCompletion(Head(completions))
           /\ CompletionFollowsWire(Head(completions))
<1>1. PICK c \in Completions :
        writes = <<>> /\ completions = <<c>> /\ GoodCompletion(c)
  BY DEF IInv, Outstanding, Handler
<1>2. Head(completions) = c /\ Tail(completions) = <<>>
  BY <1>1
<1>3. CompletionFollowsWire(c)
  BY <1>1 DEF WireInv, SenderFollowsWire
<1> QED
  BY <1>1, <1>2, <1>3 DEF Handler

\* _onPayloadSendError(): either no byte was written, or none will be.
LEMMA SendErrorWire == IInv /\ WireInv /\ OnPayloadSendError => WireInv'
<1> SUFFICES ASSUME IInv, WireInv, OnPayloadSendError PROVE WireInv'
  OBVIOUS
<1>1. PICK part \in Parts : Handler(part, TRUE)
  BY DEF OnPayloadSendError
<1>2. /\ writes = <<>> /\ Tail(completions) = <<>>
      /\ Head(completions).ec = TRUE /\ CompletionFollowsWire(Head(completions))
  BY <1>1, HandlerFollows
<1>3. /\ completions' = <<>> /\ writes' = <<>>
      /\ UNCHANGED <<link, wire, outgoingQueue, bufContentOffset, sizes, popCount>>
  BY <1>2 DEF OnPayloadSendError, socketVars, bufVars, histVars
<1>4. link = "open" => FreshFrame
  BY <1>2 DEF CompletionFollowsWire
<1>5. SenderFollowsWire'
  BY <1>3, <1>4, WireStays DEF WireInv, SenderFollowsWire, FreshFrame
<1> QED
  BY <1>3, <1>5, WireStays DEF WireInv

\* A handler that goes on with the same payload.
LEMMA NextPartWire ==
    ASSUME WireInv, link # "connecting", NEW w \in Writes, writes = <<>>,
           StartWrite(w, <<>>), WriteFollowsWire(w)',
           w.left = 0 => CompletionFollowsWire(Completed(w, FALSE))',
           UNCHANGED <<link, wire, outgoingQueue, sizes, popCount>>
    PROVE  WireInv'
<1>1. SenderFollowsWire'
  BY StartWriteFollows
<1> QED
  BY <1>1, WireStays DEF WireInv

\* The type is on the wire: its handler starts the write of the size.
LEMMA TypeWrittenWire == IInv /\ WireInv /\ OnTypeWritten => WireInv'
<1> SUFFICES ASSUME IInv, WireInv, OnTypeWritten PROVE WireInv'
  OBVIOUS
<1>1. /\ writes = <<>> /\ Tail(completions) = <<>>
      /\ Head(completions).part = "PAYLOAD_TYPE" /\ Head(completions).ec = FALSE
      /\ CompletionFollowsWire(Head(completions))
  BY HandlerFollows DEF OnTypeWritten, Parts
<1>2. PICK w : w = [part |-> "PAYLOAD_SIZE", payload |-> buf, from |-> 0,
                    done |-> 0, left |-> 1]
  OBVIOUS
<1>3. /\ StartWrite(w, <<>>)
      /\ UNCHANGED <<link, wire, outgoingQueue, buf, bufContentOffset, sizes, popCount>>
  BY <1>1, <1>2 DEF OnTypeWritten, SendPayloadBytesSize, socketVars, bufVars, histVars
<1>4. w \in Writes
  BY <1>2, SenderAssumption DEF Writes, Parts, Ids, IInv, TypeOK
<1>5. link # "connecting" /\ WireAt(1) /\ bufContentOffset = 0
  BY <1>1 DEF CompletionFollowsWire
<1>6. WireAt(1)'
  BY <1>3, <1>5, WireStays
<1>7. WriteFollowsWire(w)' /\ w.left # 0
  BY <1>2, <1>3, <1>5, <1>6 DEF WriteFollowsWire
<1> QED
  BY <1>1, <1>3, <1>4, <1>5, <1>7, NextPartWire

\* The size is on the wire: its handler starts the content at its beginning.
LEMMA SizeWrittenWire == IInv /\ WireInv /\ OnSizeWritten => WireInv'
<1> SUFFICES ASSUME IInv, WireInv, OnSizeWritten PROVE WireInv'
  OBVIOUS
<1>1. /\ writes = <<>> /\ Tail(completions) = <<>>
      /\ Head(completions).part = "PAYLOAD_SIZE" /\ Head(completions).ec = FALSE
      /\ CompletionFollowsWire(Head(completions))
  BY HandlerFollows DEF OnSizeWritten, Parts
<1>2. link # "connecting" /\ WireAt(2) /\ bufContentOffset = 0
  BY <1>1 DEF CompletionFollowsWire
<1>3. PICK w : w = [part |-> "PAYLOAD_CONTENT", payload |-> buf, from |-> 0,
                    done |-> 0, left |-> BytesToWrite(0)]
  OBVIOUS
<1>4. /\ StartWrite(w, <<>>)
      /\ UNCHANGED <<link, wire, outgoingQueue, buf, bufContentOffset, sizes, popCount>>
  BY <1>1, <1>2, <1>3
     DEF OnSizeWritten, SendPayloadBytes, socketVars, bufVars, histVars
<1>5. w \in Writes
  <2>1. TypeOK /\ SizeOf(buf) \in Nat
    BY SizeOfIsSize DEF IInv, TypeOK
  <2>2. BytesToWrite(0) \in Nat
    BY <2>1, BytesToWriteInContent
  <2> QED
    BY <1>3, <2>1, <2>2, SenderAssumption DEF Writes, Parts, Ids, TypeOK
<1>6. WireAt(2 + 0 + 0)'
  <2>1. WireAt(2 + 0 + 0)
    BY <1>2
  <2> QED
    BY <1>4, <2>1, WireStays
<1>7. WriteFollowsWire(w)'
  <2>1. /\ w.part = "PAYLOAD_CONTENT" /\ w.payload = buf' /\ w.from = 0 /\ w.done = 0
        /\ link' # "connecting"
    BY <1>2, <1>3, <1>4
  <2> QED
    BY <1>6, <2>1 DEF WriteFollowsWire
<1>8. CompletionFollowsWire(Completed(w, FALSE))'
  BY <1>2, <1>3, <1>4, <1>6 DEF CompletionFollowsWire, Completed
<1> QED
  BY <1>1, <1>2, <1>4, <1>5, <1>7, <1>8, NextPartWire

\* A chunk is on the wire: the next one starts where it ended.
LEMMA ChunkWrittenWire == IInv /\ WireInv /\ OnChunkWritten => WireInv'
<1> SUFFICES ASSUME IInv, WireInv, OnChunkWritten PROVE WireInv'
  OBVIOUS
<1>1. /\ writes = <<>> /\ Tail(completions) = <<>>
      /\ Head(completions) \in Completions
      /\ Head(completions).part = "PAYLOAD_CONTENT" /\ Head(completions).ec = FALSE
      /\ CompletionFollowsWire(Head(completions))
  BY HandlerFollows DEF OnChunkWritten, Parts
<1>2. PICK length : length = Head(completions).length
  OBVIOUS
<1>3. PICK offset : offset = bufContentOffset + length
  OBVIOUS
<1>4. PICK w : w = [part |-> "PAYLOAD_CONTENT", payload |-> buf, from |-> offset,
                    done |-> 0, left |-> BytesToWrite(offset)]
  OBVIOUS
<1>5. /\ StartWrite(w, <<>>)
      /\ offset < SizeOf(buf) /\ bufContentOffset' = offset
      /\ UNCHANGED <<link, wire, outgoingQueue, buf, sizes, popCount>>
  BY <1>1, <1>2, <1>3, <1>4
     DEF OnChunkWritten, SendPayloadBytes, socketVars, histVars
<1>6. /\ TypeOK /\ offset \in Nat /\ SizeOf(buf) \in Nat
      /\ 2 + bufContentOffset + length = 2 + offset
  <2>1. SizeOf(buf) \in Nat /\ TypeOK /\ bufContentOffset \in Nat
    BY SizeOfIsSize DEF IInv, TypeOK
  <2>2. length \in Nat
    BY <1>1, <1>2 DEF Completions
  <2> QED
    BY <1>3, <2>1, <2>2
<1>7. BytesToWrite(offset) \in Nat
  BY <1>5, <1>6, BytesToWriteInContent
<1>8. w \in Writes
  BY <1>4, <1>6, <1>7, SenderAssumption DEF Writes, Parts, Ids, TypeOK
<1>9. link # "connecting" /\ WireAt(2 + offset)
  BY <1>1, <1>2, <1>6 DEF CompletionFollowsWire
<1>10. WireAt(2 + offset)' /\ 2 + offset + 0 = 2 + offset
  BY <1>5, <1>6, <1>9, WireStays
<1>11. WriteFollowsWire(w)'
  BY <1>4, <1>5, <1>9, <1>10 DEF WriteFollowsWire
<1>12. CompletionFollowsWire(Completed(w, FALSE))'
  BY <1>4, <1>5, <1>9, <1>10 DEF CompletionFollowsWire, Completed
<1> QED
  BY <1>1, <1>5, <1>8, <1>9, <1>11, <1>12, NextPartWire
\* The end of the content is on the wire, and with it the whole frame: its
\* handler pops the payload, and the next frame begins.
LEMMA ContentWrittenWire == IInv /\ IInv' /\ WireInv /\ OnContentWritten => WireInv'
<1> SUFFICES ASSUME IInv, IInv', WireInv, OnContentWritten PROVE WireInv'
  OBVIOUS
<1>1. /\ writes = <<>> /\ Tail(completions) = <<>>
      /\ Head(completions) \in Completions
      /\ Head(completions).part = "PAYLOAD_CONTENT" /\ Head(completions).ec = FALSE
      /\ GoodCompletion(Head(completions))
      /\ CompletionFollowsWire(Head(completions))
  BY HandlerFollows DEF OnContentWritten, Parts
<1>2. PICK length : length = Head(completions).length
  OBVIOUS
<1>3. PICK q : q = pop(outgoingQueue)
  OBVIOUS
<1>4. HeadInBuf /\ Assertable(outgoingQueue)
  BY <1>1 DEF GoodCompletion, HeadInBuf, Assertable
<1>5. /\ outgoingQueue' = q /\ bufContentOffset' = 0 /\ popCount' = popCount + 1
      /\ bufContentOffset + length >= SizeOf(buf)
      /\ IF q.items # <<>>
         THEN SendPayloadType(q, <<>>)
         ELSE completions' = <<>> /\ UNCHANGED writes
      /\ UNCHANGED <<link, wire, sizes>>
  BY <1>1, <1>2, <1>3, <1>4 DEF OnContentWritten, socketVars
<1>6. /\ buf = popCount + 1 /\ buf \in 1..Len(sizes) /\ SizeOf(buf) = sizes[buf]
      /\ sizes \in Seq(Nat) /\ sizes[buf] \in Nat
  BY <1>4, HeadIsNext
<1>7. /\ length \in Nat /\ bufContentOffset \in Nat /\ popCount \in Nat
      /\ Len(sizes) \in Nat /\ wire \in Seq(StreamUnits)
  BY <1>1, <1>2 DEF Completions, IInv, TypeOK
<1>8. 2 + bufContentOffset + length = sizes[buf] + 2
  <2>1. bufContentOffset + length <= sizes[buf]
    BY <1>1, <1>2, <1>6 DEF GoodCompletion
  <2>2. bufContentOffset + length >= sizes[buf]
    BY ONLY <1>5, <1>6, Zenon
  <2> QED
    BY ONLY <1>6, <1>7, <2>1, <2>2
<1>9. link # "connecting" /\ EndsAt(wire, sizes, buf, sizes[buf] + 2)
  BY <1>1, <1>2, <1>6, <1>8 DEF CompletionFollowsWire, WireAt
<1>10. WireAt(0)'
  <2>1. /\ wire # <<>> /\ wire[Len(wire)] = FrameUnit(sizes, buf, sizes[buf] + 2)
    <3>1. sizes[buf] + 2 # 0
      BY <1>6
    <3> QED
      BY <1>9, <3>1 DEF EndsAt
  <2>2. buf + 1 # 1 /\ (buf + 1) - 1 = buf /\ popCount' + 1 = buf + 1
    BY <1>5, <1>6
  <2>3. EndsAt(wire, sizes, buf + 1, 0)
    BY <2>1, <2>2 DEF EndsAt
  <2> QED
    BY <1>5, <2>2, <2>3 DEF WireAt
<1>11. WireHoldsFrames' /\ (popCount <= Len(sizes))'
  BY <1>5, <1>6 DEF WireInv, WireHoldsFrames
<1>12. PoppedWasSent'
  <2>1. Range(Frame(sizes, buf)) \subseteq Range(wire)
    <3> SUFFICES ASSUME NEW u \in Range(Frame(sizes, buf)) PROVE u \in Range(wire)
      OBVIOUS
    <3>1. PICK j \in 1..(sizes[buf] + 2) : u = FrameUnit(sizes, buf, j)
      BY <1>6, UnitsOfFrame
    <3>2. PICK k \in 1..Len(wire) : wire[k] = FrameUnit(sizes, buf, j)
      BY <1>9 DEF EndsAt
    <3>3. DOMAIN wire = 1..Len(wire)
      BY <1>7
    <3> QED
      BY <3>1, <3>2, <3>3 DEF Range
  <2>2. \A n \in 1..popCount : Range(Frame(sizes, n)) \subseteq Range(wire)
    BY DEF WireInv, PoppedWasSent
  <2>3. \A n \in 1..popCount' : n \in 1..popCount \/ n = buf
    BY <1>5, <1>6, <1>7
  <2>4. \A n \in 1..popCount' : Range(Frame(sizes', n)) \subseteq Range(wire')
    BY <1>5, <2>1, <2>2, <2>3
  <2> DEFINE d == Len(sizes) - popCount
  <2>5. d \in Nat /\ d >= 1 /\ Len(sizes) - (popCount + 1) = d - 1
    BY <1>6, <1>7
  <2>6. outgoingQueue.items = [i \in 1..d |-> popCount + i]
    BY DEF WireInv, PoppedWasSent
  <2> HIDE DEF d
  <2>7. Tail([i \in 1..d |-> popCount + i]) = [i \in 1..(d - 1) |-> (popCount + 1) + i]
    <3>1. \A i \in 1..(d - 1) : popCount + (i + 1) = (popCount + 1) + i
      BY <1>7, <2>5
    <3> DEFINE items == [i \in 1..d |-> popCount + i]
    <3>2. items \in Seq(Nat) /\ Len(items) = d
      BY <1>7, <2>5
    <3>3. \A i \in 1..(d - 1) : items[i + 1] = popCount + (i + 1)
      BY <2>5
    <3> HIDE DEF items
    <3>4. /\ Tail(items) \in Seq(Nat) /\ Len(Tail(items)) = d - 1
          /\ \A i \in 1..(d - 1) : Tail(items)[i] = items[i + 1]
      BY ONLY <2>5, <3>2, SMT
    <3>5. PICK rest : rest = Tail(items)
      OBVIOUS
    <3>6. rest \in Seq(Nat) /\ Len(rest) = d - 1
          /\ \A i \in 1..(d - 1) : rest[i] = (popCount + 1) + i
      BY <3>1, <3>3, <3>4, <3>5, Zenon
    <3>7. rest = [i \in 1..(d - 1) |-> (popCount + 1) + i]
      BY <3>6
    <3> QED
      BY <3>5, <3>7 DEF items
  <2>8. q.items = Tail(outgoingQueue.items)
    BY <1>3 DEF pop
  <2> QED
    BY <1>5, <2>4, <2>5, <2>6, <2>7, <2>8 DEF PoppedWasSent
<1>13. FreshFrame'
  BY <1>5, <1>10 DEF FreshFrame
<1>14. SenderFollowsWire'
  <2>1. CASE q.items # <<>>
    <3>1. Head(q.items) \in Ids
      <4>1. PICK it : it = q.items
        OBVIOUS
      <4>2. it \in Seq(1..Len(sizes')) /\ it # <<>> /\ Len(sizes') <= MaxPayloads
        BY <1>5, <2>1, <4>1 DEF IInv, TypeOK, Queues
      <4>3. Head(it) \in 1..Len(sizes')
        BY ONLY <4>2, SMT
      <4> QED
        BY <1>5, <1>7, <4>1, <4>2, <4>3, SenderAssumption DEF Ids
    <3> QED
      BY <1>1, <1>5, <1>9, <1>13, <2>1, <3>1, SendPayloadTypeFollows
  <2>2. CASE q.items = <<>>
    <3>1. completions' = <<>> /\ writes' = <<>>
      BY <1>1, <1>5, <2>2
    <3> QED
      BY <1>5, <1>9, <1>13, <3>1 DEF SenderFollowsWire
  <2> QED
    BY <2>1, <2>2
<1> QED
  BY <1>11, <1>12, <1>14 DEF WireInv

\* Every handler and every step of the socket goes on where the wire ends.
LEMMA StepWireInv ==
    ASSUME Overlap = FALSE, IInv, IInv', WireInv, [Next]_vars
    PROVE  WireInv'
<1>1. CASE Connected \/ Disconnected \/ UNCHANGED vars
  BY <1>1, LinkWire
<1>2. CASE Transmit
  BY <1>2, TransmitWire
<1>3. CASE FailWrite
  BY <1>3, FailWriteWire
<1>4. ASSUME NEW size \in Sizes, SendPayload(size) PROVE WireInv'
  BY <1>4, SendPayloadWire
<1>5. CASE OnPayloadSendError
  BY <1>5, SendErrorWire
<1>6. CASE OnTypeWritten
  BY <1>6, TypeWrittenWire
<1>7. CASE OnSizeWritten
  BY <1>7, SizeWrittenWire
<1>8. CASE OnChunkWritten
  BY <1>8, ChunkWrittenWire
<1>9. CASE OnContentWritten
  BY <1>9, ContentWrittenWire
<1> QED
  BY <1>1, <1>2, <1>3, <1>4, <1>5, <1>6, <1>7, <1>8, <1>9 DEF Next

\* For every sender whose callers wait, what is under way goes on where the
\* wire ends.
THEOREM SenderFollowsItsWire ==
    ASSUME Overlap = FALSE
    PROVE  Spec => []WireInv
<1>1. Init => WireInv
  BY InitWireInv
<1>2. IInv /\ IInv' /\ WireInv /\ [Next]_vars => WireInv'
  BY StepWireInv
<1> QED
  BY <1>1, <1>2, SenderInvariance, PTL DEF Spec

\* The wire holds the frames of the payloads in order, the last one possibly
\* cut: no byte is repeated, skipped or another payload's, whatever the sizes,
\* the chunks and the moments at which the connection is made and lost.
THEOREM SenderWireHoldsFrames ==
    ASSUME Overlap = FALSE
    PROVE  Spec => []WireHoldsFrames
BY SenderFollowsItsWire, PTL DEF WireInv

\* No payload is popped before its whole frame is on the wire, and the queue
\* holds exactly the others, in order.
THEOREM SenderPopsWhatWasSent ==
    ASSUME Overlap = FALSE
    PROVE  Spec => []PoppedWasSent
BY SenderFollowsItsWire, PTL DEF WireInv

-----------------------------------------------------------------------------
(* The receiver.  It reads the stream in step with its frames.             *)

\* The first r units of stream s end with unit j of the frame of payload n, or
\* with the last unit before that frame if j is 0.
ReadTo(s, sz, r, n, j) ==
    IF j # 0 THEN r # 0 /\ s[r] = FrameUnit(sz, n, j)
    ELSE IF n = 1 THEN r = 0
    ELSE r # 0 /\ s[r] = FrameUnit(sz, n - 1, sz[n - 1] + 2)

\* The unit after them is the next one of that frame, and the payload exists.
LEMMA NextRead ==
    ASSUME NEW sz \in Seq(Nat), NEW s \in Seq(StreamUnits), IsCutStream(s, sz),
           NEW r \in Nat, r + 1 <= Len(s), NEW n \in 1..(Len(sz) + 1), NEW j \in Nat,
           IF n <= Len(sz) THEN j < sz[n] + 2 ELSE j = 0,
           ReadTo(s, sz, r, n, j)
    PROVE  n \in 1..Len(sz) /\ ReadTo(s, sz, r + 1, n, j + 1)
<1>1. s[r + 1][2] \in 1..Len(sz) /\ r + 1 # 0 /\ j + 1 # 0
  <2>1. r + 1 \in 1..Len(s)
    OBVIOUS
  <2> QED
    BY <2>1 DEF IsCutStream
<1>2. CASE r = 0
  <2>1. n = 1 /\ j = 0
    BY <1>2 DEF ReadTo
  <2>2. s[1] = <<"type", 1, 0>>
    BY DEF IsCutStream
  <2>3. FrameUnit(sz, 1, 1) = <<"type", 1, 0>>
    BY DEF FrameUnit
  <2>4. n \in 1..Len(sz)
    <3>1. Len(s) # 0 /\ s[1][2] \in 1..Len(sz)
      BY ONLY <1>1, <1>2, r + 1 <= Len(s), Len(s) \in Nat
    <3> QED
      BY ONLY <2>1, <2>2, <3>1
  <2>5. r + 1 = 1 /\ j + 1 = 1
    BY ONLY <1>2, <2>1
  <2> QED
    BY ONLY <2>1, <2>2, <2>3, <2>4, <2>5 DEF ReadTo
<1>3. ASSUME r # 0 PROVE s[r + 1] = UnitAfter(sz, s[r])
  <2>1. r \in 1..(Len(s) - 1)
    BY <1>3
  <2> QED
    BY <2>1 DEF IsCutStream
<1>4. CASE r # 0 /\ j # 0
  <2>1. n \in 1..Len(sz) /\ j \in 1..(sz[n] + 2) /\ j # sz[n] + 2
    BY <1>4
  <2>2. s[r] = FrameUnit(sz, n, j)
    BY <1>4 DEF ReadTo
  <2>3. s[r + 1] = FrameUnit(sz, n, j + 1)
    BY <1>3, <1>4, <2>1, <2>2, AfterUnit
  <2> QED
    BY <1>1, <2>1, <2>3 DEF ReadTo
<1>5. CASE r # 0 /\ j = 0
  <2>1. n # 1 /\ s[r] = FrameUnit(sz, n - 1, sz[n - 1] + 2)
    BY <1>5 DEF ReadTo
  <2>2. PICK m \in 1..Len(sz) : m = n - 1 /\ m + 1 = n
    BY <2>1
  <2>3. sz[m] \in Nat /\ sz[m] + 2 \in 1..(sz[m] + 2)
    <3>1. sz[m] \in Nat
      OBVIOUS
    <3> QED
      BY ONLY <3>1
  <2>4. s[r + 1] = FrameUnit(sz, n, 1)
    <3>1. UnitAfter(sz, FrameUnit(sz, m, sz[m] + 2)) = FrameUnit(sz, m + 1, 1)
      BY ONLY <2>3, sz \in Seq(Nat), m \in 1..Len(sz), AfterUnit
    <3> QED
      BY ONLY <1>3, <1>5, <2>1, <2>2, <3>1, Zenon
  <2>5. FrameUnit(sz, n, 1)[2] = n
    BY DEF FrameUnit
  <2> QED
    BY <1>1, <1>5, <2>4, <2>5 DEF ReadTo
<1> QED
  BY <1>2, <1>4, <1>5

\* The w units after them are the next ones of that frame.
LEMMA NextReads ==
    ASSUME NEW sz \in Seq(Nat), NEW s \in Seq(StreamUnits), IsCutStream(s, sz),
           NEW r \in Nat, NEW w \in Nat, r + w <= Len(s), NEW n \in 1..Len(sz),
           NEW j \in Nat, j + w <= sz[n] + 2, ReadTo(s, sz, r, n, j)
    PROVE  \A i \in 0..w : ReadTo(s, sz, r + i, n, j + i)
<1> DEFINE bad == {i \in 0..w : ~ReadTo(s, sz, r + i, n, j + i)}
<1> SUFFICES ASSUME bad # {} PROVE FALSE
  OBVIOUS
<1>1. bad \subseteq Nat
  OBVIOUS
<1>2. PICK i \in bad : \A k \in bad : i <= k
  <2> HIDE DEF bad
  <2> QED
    BY <1>1, LeastNat
<1>3. i # 0
  BY <1>2
<1>4. PICK k \in 0..w : k = i - 1 /\ i = k + 1 /\ k + 1 <= w
  BY <1>2, <1>3
<1>5. ReadTo(s, sz, r + k, n, j + k)
  <2>1. ~(i <= k)
    BY ONLY <1>4, w \in Nat
  <2>2. k \notin bad
    BY ONLY <1>2, <2>1, Zenon
  <2> QED
    BY ONLY <2>2, k \in 0..w, Zenon DEF bad
<1>6. PICK q \in Nat : q = r + k /\ q + 1 = r + i
  BY ONLY <1>4, r \in Nat, w \in Nat
<1>7. PICK l \in Nat : l = j + k /\ l + 1 = j + i
  BY ONLY <1>4, j \in Nat, w \in Nat
<1>8. q + 1 <= Len(s) /\ sz[n] \in Nat /\ l < sz[n] + 2 /\ n \in 1..(Len(sz) + 1) /\ n <= Len(sz)
  <2>1. sz[n] \in Nat /\ Len(s) \in Nat /\ Len(sz) \in Nat
    BY ONLY sz \in Seq(Nat), s \in Seq(StreamUnits), n \in 1..Len(sz)
  <2> QED
    BY ONLY <1>4, <1>6, <1>7, <2>1, r \in Nat, w \in Nat, j \in Nat, n \in 1..Len(sz),
            r + w <= Len(s), j + w <= sz[n] + 2
<1>9. ReadTo(s, sz, q, n, l)
  BY <1>5, <1>6, <1>7
<1>10. ReadTo(s, sz, q + 1, n, l + 1)
  BY ONLY <1>8, <1>9, NextRead, IsCutStream(s, sz), sz \in Seq(Nat), s \in Seq(StreamUnits), q \in Nat, l \in Nat
<1> QED
  BY <1>2, <1>6, <1>7, <1>10

-----------------------------------------------------------------------------
\* The bytes that q reports for payload n.
Reported(q, n) ==
    Total([k \in DOMAIN q |-> IF q[k].payloadId = n THEN q[k].bytesExchanged ELSE 0])

LEMMA ReportedAppend ==
    ASSUME NEW q \in Seq(SpeedTraces), NEW x \in SpeedTraces, NEW n
    PROVE  /\ Reported(Append(q, x), n) =
                Reported(q, n) + (IF x.payloadId = n THEN x.bytesExchanged ELSE 0)
           /\ Reported(q, n) \in Int
<1> DEFINE Of(y) == IF y.payloadId = n THEN y.bytesExchanged ELSE 0
           s == [k \in DOMAIN q |-> Of(q[k])]
           t == [k \in DOMAIN Append(q, x) |-> Of(Append(q, x)[k])]
<1>1. \A y \in SpeedTraces : Of(y) \in Int
  BY DEF SpeedTraces
<1>2. Reported(q, n) = Total(s) /\ Reported(Append(q, x), n) = Total(t)
  BY DEF Reported
<1> HIDE DEF Of
<1>3. PICK m \in Nat : m = Len(q)
  OBVIOUS
<1>4. s \in Seq(Int) /\ Len(s) = m /\ \A k \in 1..m : s[k] = Of(q[k])
  BY <1>1, <1>3
<1>5. PICK r : r = Append(q, x)
  OBVIOUS
<1>6. r \in Seq(SpeedTraces) /\ Len(r) = m + 1 /\ r[m + 1] = x /\ \A k \in 1..m : r[k] = q[k]
  BY <1>3, <1>5
<1>7. DOMAIN r = 1..(m + 1) /\ t = [k \in DOMAIN r |-> Of(r[k])]
  BY <1>5, <1>6
<1>8. t = Append(s, Of(x))
  <2>1. t = [k \in 1..(m + 1) |-> Of(r[k])]
    BY <1>7
  <2> HIDE DEF t, s
  <2>2. PICK y \in Int : y = Of(x)
    BY <1>1
  <2>3. PICK a : a = Append(s, y)
    OBVIOUS
  <2>4. a \in Seq(Int) /\ Len(a) = m + 1 /\ a[m + 1] = y /\ \A k \in 1..m : a[k] = s[k]
    BY ONLY <1>4, <2>3, m \in Nat, y \in Int
  <2>5. a = [k \in 1..(m + 1) |-> a[k]]
    BY ONLY <2>4
  <2>6. \A k \in 1..(m + 1) : Of(r[k]) = a[k]
    BY ONLY <1>4, <1>6, <2>2, <2>4, m \in Nat
  <2>7. t = a
    BY ONLY <2>1, <2>5, <2>6
  <2> QED
    BY ONLY <2>2, <2>3, <2>7, Zenon
<1> HIDE DEF t, s
<1>9. Total(t) = Total(s) + Of(x) /\ Total(s) \in Int
  BY ONLY <1>1, <1>4, <1>8, x \in SpeedTraces, TotalAppend
<1> QED
  BY ONLY <1>2, <1>9, Zenon DEF Of

-----------------------------------------------------------------------------
\* What has arrived is a beginning of what was written.
Arrived ==
    /\ stream \in Seq(StreamUnits)
    /\ Len(stream) <= Len(wire)
    /\ \A k \in 1..Len(stream) : stream[k] = wire[k]
    /\ readCount \in 0..Len(stream)

\* The receiver has pushed d payloads, the first ones, whole and in order.
Pushed(d) == incomingQueue.items = [n \in 1..d |-> Payload(n, sizes[n])]

ReadOf(n, j) == ReadTo(stream, sizes, readCount, n, j)

\* The content of payload n up to the offset is in the buffer.
ContentOf(n) ==
    /\ recvBuf.bytesSize = sizes[n]
    /\ recvOffset <= sizes[n]
    /\ DOMAIN recvBuf.bytes = 1..sizes[n]
    /\ \A i \in 1..recvOffset : recvBuf.bytes[i] = <<"byte", n, i>>

\* The part it reads next is the one the stream goes on with, of payload n.
ReadsInStep(n) ==
    /\ recvBuf = [type |-> recvBuf.type, bytesSize |-> recvBuf.bytesSize,
                  bytes |-> recvBuf.bytes]
    /\ recvBuf.type \in Nat
    /\ recvOffset \in Nat
    /\ reading \in {"nothing", "PAYLOAD_TYPE", "PAYLOAD_SIZE", "PAYLOAD_CONTENT"}
    /\ recvProcessing \in BOOLEAN
    /\ ~recvProcessing => reading = "nothing" /\ n = 1 /\ readCount = 0
    /\ reading # "PAYLOAD_CONTENT" /\ (recvProcessing => reading # "nothing") => recvOffset = 0
    /\ reading = "PAYLOAD_TYPE" => ReadOf(n, 0)
    /\ reading \in {"PAYLOAD_SIZE", "PAYLOAD_CONTENT"} =>
          n <= Len(sizes) /\ recvBuf.type = n
    /\ reading = "PAYLOAD_SIZE" => ReadOf(n, 1)
    /\ reading = "PAYLOAD_CONTENT" => ReadOf(n, 2 + recvOffset) /\ ContentOf(n)

\* The receiver has failed.
Failed == recvProcessing /\ reading = "nothing"

\* The traces and the speeds committed while d payloads were pushed.
Accounted(d) ==
    /\ recvTraceBuf \in Traces
    /\ recvTraces \in Seq(Traces)
    /\ recvSpeeds \in Seq(SpeedTraces)
    /\ Len(recvTraces) = d + (IF Failed THEN 1 ELSE 0)
    /\ \A k \in 1..Len(recvTraces) : recvTraces[k].payloadId = k
    /\ \A k \in 1..d : recvTraces[k].payloadType = k
    /\ ~Failed => recvTraceBuf.payloadId =
          d + (IF reading \in {"PAYLOAD_SIZE", "PAYLOAD_CONTENT"} THEN 1 ELSE 0)
    /\ reading \in {"PAYLOAD_SIZE", "PAYLOAD_CONTENT"} => recvTraceBuf.payloadType = d + 1
    /\ \A k \in 1..d : Reported(recvSpeeds, k) = sizes[k]
    /\ ~Failed => Reported(recvSpeeds, d + 1) = recvOffset
    /\ \A k \in Nat : k > d + 1 => Reported(recvSpeeds, k) = 0

ReceiverAt(d) == Pushed(d) /\ ReadsInStep(d + 1) /\ Accounted(d)

ReceiverInv == Arrived /\ \E d \in 0..Len(sizes) : ReceiverAt(d)

\* What is known of the sizes submitted and of what has arrived.
LEMMA CutArrived ==
    ASSUME IInv, WireInv, Arrived
    PROVE  sizes \in Seq(Nat) /\ IsCutStream(stream, sizes)
<1>1. sizes \in Seq(Nat)
  BY SenderAssumption, SeqWiden DEF IInv, TypeOK
<1>2. wire \in Seq(StreamUnits) /\ IsCutStream(wire, sizes)
  BY DEF IInv, TypeOK, WireInv, WireHoldsFrames
<1>3. Len(stream) \in Nat /\ Len(wire) \in Nat /\ Len(stream) <= Len(wire)
  BY <1>2 DEF Arrived
<1>4. \A k \in 1..Len(stream) : stream[k] = wire[k] /\ k \in 1..Len(wire)
  BY <1>3 DEF Arrived
<1>5. stream # <<>> => stream[1] = <<"type", 1, 0>>
  <2> SUFFICES ASSUME stream # <<>> PROVE stream[1] = <<"type", 1, 0>>
    OBVIOUS
  <2>1. 1 \in 1..Len(stream) /\ wire # <<>>
    BY <1>3 DEF Arrived
  <2> QED
    BY <1>2, <1>4, <2>1 DEF IsCutStream
<1>6. ASSUME NEW k \in 1..(Len(stream) - 1) PROVE stream[k + 1] = UnitAfter(sizes, stream[k])
  <2>1. k \in 1..Len(stream) /\ k + 1 \in 1..Len(stream) /\ k \in 1..(Len(wire) - 1)
    BY <1>3
  <2> QED
    BY <1>2, <1>4, <2>1, Zenon DEF IsCutStream
<1>7. \A k \in 1..Len(stream) : stream[k][2] \in 1..Len(sizes)
  BY <1>2, <1>4, Zenon DEF IsCutStream
<1> QED
  BY <1>1, <1>5, <1>6, <1>7 DEF IsCutStream

\* How much a read of the type or of the size, and one of content, asks for.
LEMMA WantedOne ==
    ASSUME reading # "PAYLOAD_CONTENT"
    PROVE  Receiver!Wanted = 1
BY DEF Receiver!Wanted

LEMMA WantedOfContent ==
    ASSUME reading = "PAYLOAD_CONTENT", NEW n, ContentOf(n), sizes[n] \in Nat, recvOffset \in Nat
    PROVE  /\ Receiver!Wanted \in Nat
           /\ recvOffset + Receiver!Wanted <= sizes[n]
BY SenderAssumption DEF Receiver!Wanted, Receiver!BytesToRead, ContentOf

\* A read that completes stays inside what has arrived.
LEMMA ReadStays ==
    ASSUME Arrived, Receiver!Wanted \in Nat, NEW part, Receiver!Handler(part),
           UNCHANGED wire
    PROVE  /\ Arrived'
           /\ readCount' = readCount + Receiver!Wanted
           /\ readCount + Receiver!Wanted <= Len(stream)
           /\ \A i \in 1..Receiver!Wanted : Receiver!Taken[i] = stream[readCount + i]
<1>1. PICK w \in Nat : w = Receiver!Wanted
  OBVIOUS
<1>2. stream \in Seq(StreamUnits) /\ readCount \in 0..Len(stream) /\ Len(stream) \in Nat
  BY DEF Arrived
<1>3. readCount' = readCount + w /\ readCount + w <= Len(stream) /\ stream' = stream
  BY <1>1, <1>2 DEF Receiver!Handler, Receiver!Readable, Receiver!peerVars
<1>4. Receiver!Taken = SubSeq(stream, readCount + 1, readCount + w)
  BY <1>1 DEF Receiver!Taken
<1>5. \A i \in 1..w : SubSeq(stream, readCount + 1, readCount + w)[i] = stream[readCount + i]
  BY ONLY <1>2, <1>3, w \in Nat
<1>6. readCount' \in 0..Len(stream')
  BY <1>2, <1>3
<1>7. Arrived'
  BY <1>3, <1>6 DEF Arrived
<1> QED
  BY <1>1, <1>3, <1>4, <1>5, <1>7

-----------------------------------------------------------------------------
\* _startReceiving().
LEMMA StartStep ==
    ASSUME NEW d \in Nat, ReceiverAt(d), Receiver!StartReceiving
    PROVE  ReceiverAt(d)'
<1> USE DEF Receiver!StartReceiving, Receiver!peerVars, Receiver!logVars
<1>1. Pushed(d)'
  BY DEF ReceiverAt, Pushed
<1>2. d + 1 = 1 /\ readCount = 0 /\ recvOffset = 0 /\ reading = "nothing" /\ ~recvProcessing
  BY DEF ReceiverAt, ReadsInStep
<1>3. ReadOf(d + 1, 0)'
  BY <1>2 DEF ReadOf, ReadTo
<1>4. ReadsInStep(d + 1)'
  BY <1>2, <1>3 DEF ReceiverAt, ReadsInStep
<1>5. ~Failed /\ ~Failed'
  BY <1>2 DEF Failed
<1>6. Accounted(d)'
  BY <1>2, <1>5 DEF ReceiverAt, Accounted
<1> QED
  BY <1>1, <1>4, <1>6 DEF ReceiverAt

\* logNewPayload() and logPayloadType().
LEMMA TraceOpened ==
    ASSUME NEW trace \in Traces, NEW type \in Nat
    PROVE  LET opened == Receiver!logPayloadType(Receiver!logNewPayload(trace), type)
           IN  /\ opened \in Traces
               /\ opened.payloadId = trace.payloadId + 1
               /\ opened.payloadType = type
<1>1. PICK new : new = Receiver!logNewPayload(trace)
  OBVIOUS
<1>2. new \in Traces /\ new.payloadId = trace.payloadId + 1
  BY <1>1 DEF Receiver!logNewPayload, Traces
<1>3. PICK opened : opened = Receiver!logPayloadType(new, type)
  OBVIOUS
<1>4. opened \in Traces /\ opened.payloadId = new.payloadId /\ opened.payloadType = type
  BY <1>2, <1>3 DEF Receiver!logPayloadType, Traces
<1> QED
  BY ONLY <1>1, <1>2, <1>3, <1>4, Zenon

\* The handler of the type: it is of the payload after those pushed, which was
\* submitted.
LEMMA TypeReadStep ==
    ASSUME sizes \in Seq(Nat), IsCutStream(stream, sizes), Arrived, UNCHANGED wire,
           NEW d \in 0..Len(sizes), ReceiverAt(d), Receiver!OnTypeRead
    PROVE  Arrived' /\ ReceiverAt(d)'
<1>1. PICK n \in Nat \ {0} : n = d + 1
  OBVIOUS
<1>2. /\ Receiver!Handler("PAYLOAD_TYPE") /\ reading = "PAYLOAD_TYPE" /\ reading' = "PAYLOAD_SIZE"
      /\ UNCHANGED <<sizes, stream, recvProcessing, recvOffset, incomingQueue, recvTraces, recvSpeeds>>
      /\ recvBuf' = [recvBuf EXCEPT !.type = Receiver!Taken[1][2]]
      /\ recvTraceBuf' = Receiver!logPayloadType(Receiver!logNewPayload(recvTraceBuf), recvBuf'.type)
  BY DEF Receiver!OnTypeRead, Receiver!Handler, Receiver!peerVars
<1>3. Receiver!Wanted = 1
  BY <1>2, WantedOne
<1>4. Arrived' /\ readCount' = readCount + 1 /\ readCount + 1 <= Len(stream)
      /\ Receiver!Taken[1] = stream[readCount + 1]
  <2>1. 1 \in Nat /\ 1 \in 1..1
    OBVIOUS
  <2> QED
    BY <1>2, <1>3, <2>1, ReadStays
<1>5. /\ ReadTo(stream, sizes, readCount, n, 0) /\ recvOffset = 0
      /\ recvBuf = [type |-> recvBuf.type, bytesSize |-> recvBuf.bytesSize, bytes |-> recvBuf.bytes]
      /\ recvProcessing = TRUE
  BY <1>1, <1>2 DEF ReceiverAt, ReadsInStep, ReadOf
<1>6. n \in 1..Len(sizes) /\ ReadTo(stream, sizes, readCount + 1, n, 1)
  <2>1. n \in 1..(Len(sizes) + 1) /\ (IF n <= Len(sizes) THEN 0 < sizes[n] + 2 ELSE 0 = 0)
    BY <1>1
  <2>2. stream \in Seq(StreamUnits) /\ readCount \in Nat
    BY DEF Arrived
  <2>3. n \in 1..Len(sizes) /\ ReadTo(stream, sizes, readCount + 1, n, 0 + 1)
    BY ONLY <1>4, <1>5, <2>1, <2>2, NextRead, sizes \in Seq(Nat), IsCutStream(stream, sizes), 0 \in Nat
  <2> QED
    BY <2>3
<1>7. stream[readCount + 1] = <<"type", n, 0>>
  BY <1>6 DEF ReadTo, FrameUnit
<1>8. recvBuf' = [recvBuf EXCEPT !.type = n]
  BY <1>2, <1>4, <1>7
<1>9. recvBuf' = [type |-> n, bytesSize |-> recvBuf.bytesSize, bytes |-> recvBuf.bytes]
  BY <1>5, <1>8
<1>10. Pushed(d)'
  BY <1>2 DEF ReceiverAt, Pushed
<1>11. ReadsInStep(n)'
  <2>1. ReadOf(n, 1)'
    BY <1>2, <1>4, <1>6 DEF ReadOf
  <2> QED
    BY <1>2, <1>5, <1>6, <1>9, <2>1 DEF ReadsInStep
<1>12. Accounted(d)'
  <2>1. ~Failed /\ ~Failed'
    BY <1>2 DEF Failed
  <2>2. recvTraceBuf \in Traces /\ recvTraceBuf.payloadId = d
    BY <1>2, <2>1 DEF ReceiverAt, Accounted
  <2>3. recvTraceBuf' = Receiver!logPayloadType(Receiver!logNewPayload(recvTraceBuf), n)
    BY <1>2, <1>9
  <2>4. recvTraceBuf' \in Traces /\ recvTraceBuf'.payloadId = d + 1 /\ recvTraceBuf'.payloadType = d + 1
    BY <1>1, <2>2, <2>3, TraceOpened
  <2> QED
    BY <1>2, <2>1, <2>4 DEF ReceiverAt, Accounted
<1> QED
  BY <1>1, <1>4, <1>10, <1>11, <1>12 DEF ReceiverAt

\* The handler of the size: the buffer is made as long as the content.
LEMMA SizeReadStep ==
    ASSUME sizes \in Seq(Nat), IsCutStream(stream, sizes), Arrived, UNCHANGED wire,
           NEW d \in 0..Len(sizes), ReceiverAt(d), Receiver!OnSizeRead
    PROVE  Arrived' /\ ReceiverAt(d)'
<1>1. PICK n \in Nat \ {0} : n = d + 1
  OBVIOUS
<1>2. /\ Receiver!Handler("PAYLOAD_SIZE") /\ reading = "PAYLOAD_SIZE" /\ reading' = "PAYLOAD_CONTENT"
      /\ UNCHANGED <<sizes, stream, recvProcessing, recvOffset, incomingQueue,
                     recvTraceBuf, recvTraces, recvSpeeds>>
  BY DEF Receiver!OnSizeRead, Receiver!Handler, Receiver!peerVars, Receiver!logVars
<1>3. Receiver!Wanted = 1
  BY <1>2, WantedOne
<1>4. Arrived' /\ readCount' = readCount + 1 /\ readCount + 1 <= Len(stream)
      /\ Receiver!Taken[1] = stream[readCount + 1]
  <2>1. 1 \in Nat /\ 1 \in 1..1
    OBVIOUS
  <2> QED
    BY <1>2, <1>3, <2>1, ReadStays
<1>5. /\ ReadTo(stream, sizes, readCount, n, 1) /\ recvOffset = 0 /\ n <= Len(sizes) /\ recvBuf.type = n
      /\ recvBuf = [type |-> recvBuf.type, bytesSize |-> recvBuf.bytesSize, bytes |-> recvBuf.bytes]
      /\ recvProcessing = TRUE
  BY <1>1, <1>2 DEF ReceiverAt, ReadsInStep, ReadOf
<1>6. n \in 1..Len(sizes) /\ sizes[n] \in Nat
  BY <1>5
<1>7. ReadTo(stream, sizes, readCount + 1, n, 2)
  <2>1. n \in 1..(Len(sizes) + 1) /\ (IF n <= Len(sizes) THEN 1 < sizes[n] + 2 ELSE 1 = 0)
    BY <1>6
  <2>2. stream \in Seq(StreamUnits) /\ readCount \in Nat
    BY DEF Arrived
  <2>3. ReadTo(stream, sizes, readCount + 1, n, 1 + 1)
    BY ONLY <1>4, <1>5, <2>1, <2>2, NextRead, sizes \in Seq(Nat), IsCutStream(stream, sizes), 1 \in Nat
  <2> QED
    BY <2>3
<1>8. stream[readCount + 1] = <<"size", n, sizes[n]>>
  BY <1>7 DEF ReadTo, FrameUnit
<1>9. PICK bytes : bytes = Receiver!Resized(recvBuf.bytes, sizes[n])
  OBVIOUS
<1>10. DOMAIN bytes = 1..sizes[n]
  BY <1>9 DEF Receiver!Resized
<1>11. recvBuf' = [type |-> n, bytesSize |-> sizes[n], bytes |-> bytes]
  <2>1. PICK size : size = sizes[n]
    OBVIOUS
  <2>2. recvBuf' = [recvBuf EXCEPT !.bytesSize = size, !.bytes = Receiver!Resized(@, size)]
    BY <1>4, <1>8, <2>1 DEF Receiver!OnSizeRead
  <2>3. recvBuf' = [[recvBuf EXCEPT !.bytesSize = size] EXCEPT !.bytes = bytes]
    BY <1>9, <2>1, <2>2, Zenon
  <2> QED
    BY <1>5, <2>1, <2>3
<1>12. Pushed(d)'
  BY <1>2 DEF ReceiverAt, Pushed
<1>13. ReadsInStep(n)'
  <2>1. ReadOf(n, 2 + recvOffset)'
    BY <1>2, <1>4, <1>5, <1>7 DEF ReadOf
  <2>2. ContentOf(n)'
    BY <1>2, <1>5, <1>6, <1>10, <1>11 DEF ContentOf
  <2> QED
    BY <1>2, <1>5, <1>6, <1>11, <2>1, <2>2 DEF ReadsInStep
<1>14. Accounted(d)'
  <2>1. ~Failed /\ ~Failed'
    BY <1>2 DEF Failed
  <2> QED
    BY <1>2, <2>1 DEF ReceiverAt, Accounted
<1> QED
  BY <1>1, <1>4, <1>12, <1>13, <1>14 DEF ReceiverAt

\* The read of w bytes of the content of payload n, d payloads having been pushed.
Takes(d, n, w) ==
    /\ n = d + 1 /\ w = Receiver!Wanted
    /\ Arrived' /\ readCount' = readCount + w
    /\ recvOffset \in Nat /\ recvOffset + w <= sizes[n] /\ sizes[n] \in Nat
    /\ ReadTo(stream, sizes, readCount + w, n, 2 + (recvOffset + w))
    /\ recvBuf' = [type |-> n, bytesSize |-> sizes[n], bytes |-> recvBuf'.bytes]
    /\ DOMAIN recvBuf'.bytes = 1..sizes[n]
    /\ recvBuf'.bytes = [i \in 1..sizes[n] |-> recvBuf'.bytes[i]]
    /\ \A i \in 1..(recvOffset + w) : recvBuf'.bytes[i] = <<"byte", n, i>>
    /\ recvSpeeds' \in Seq(SpeedTraces)
    /\ Reported(recvSpeeds', n) = recvOffset + w
    /\ \A k \in Nat : k # n => Reported(recvSpeeds', k) = Reported(recvSpeeds, k)

\* What both branches of the handler of the content do: the bytes read are the
\* next ones of the payload, they go behind those already there, and they are
\* reported for this payload.
LEMMA ContentTaken ==
    ASSUME sizes \in Seq(Nat), IsCutStream(stream, sizes), Arrived, UNCHANGED wire,
           NEW d \in 0..Len(sizes), ReceiverAt(d), Receiver!Handler("PAYLOAD_CONTENT"),
           recvBuf' = Receiver!Filled, Receiver!CommitPayloadSpeed(Receiver!Wanted)
    PROVE  \E n \in 1..Len(sizes), w \in Nat : Takes(d, n, w)
<1>1. PICK n \in Nat \ {0} : n = d + 1
  OBVIOUS
<1>2. reading = "PAYLOAD_CONTENT" /\ recvProcessing' = recvProcessing /\ sizes' = sizes /\ stream' = stream
  BY DEF Receiver!Handler, Receiver!peerVars
<1>3. /\ ReadTo(stream, sizes, readCount, n, 2 + recvOffset) /\ n <= Len(sizes) /\ recvBuf.type = n
      /\ recvBuf = [type |-> recvBuf.type, bytesSize |-> recvBuf.bytesSize, bytes |-> recvBuf.bytes]
      /\ ContentOf(n) /\ recvOffset \in Nat
  BY <1>1, <1>2 DEF ReceiverAt, ReadsInStep, ReadOf
<1>4. n \in 1..Len(sizes) /\ sizes[n] \in Nat
  BY <1>3
<1>5. Receiver!Wanted \in Nat /\ recvOffset + Receiver!Wanted <= sizes[n]
  BY <1>2, <1>3, <1>4, WantedOfContent
<1>6. PICK w \in Nat : w = Receiver!Wanted
  BY <1>5
<1>7. /\ Arrived' /\ readCount' = readCount + w /\ readCount + w <= Len(stream)
      /\ \A i \in 1..w : Receiver!Taken[i] = stream[readCount + i]
  BY <1>5, <1>6, ReadStays
<1>8. ASSUME NEW i \in 0..w PROVE ReadTo(stream, sizes, readCount + i, n, (2 + recvOffset) + i)
  <2>1. stream \in Seq(StreamUnits) /\ readCount \in Nat /\ 2 + recvOffset \in Nat
        /\ (2 + recvOffset) + w <= sizes[n] + 2
    <3>1. stream \in Seq(StreamUnits) /\ readCount \in Nat
      BY DEF Arrived
    <3>2. recvOffset \in Nat /\ recvOffset + w <= sizes[n] /\ sizes[n] \in Nat
      BY ONLY <1>3, <1>4, <1>5, <1>6, Zenon
    <3> QED
      BY ONLY <3>1, <3>2, w \in Nat
  <2>2. ReadTo(stream, sizes, readCount, n, 2 + recvOffset) /\ readCount + w <= Len(stream)
    BY ONLY <1>3, <1>7, Zenon
  <2>3. PICK j \in Nat : j = 2 + recvOffset
    BY ONLY <2>1
  <2>4. ReadTo(stream, sizes, readCount + i, n, j + i)
    BY ONLY <1>4, <2>1, <2>2, <2>3, NextReads, sizes \in Seq(Nat), IsCutStream(stream, sizes), w \in Nat, i \in 0..w
  <2> QED
    BY ONLY <2>3, <2>4, Zenon
<1>9. ASSUME NEW i \in 1..w PROVE Receiver!Taken[i] = <<"byte", n, recvOffset + i>>
  <2>0. recvOffset \in Nat
    BY ONLY <1>3, Zenon
  <2>1. i \in 0..w /\ (2 + recvOffset) + i > 2 /\ ((2 + recvOffset) + i) - 2 = recvOffset + i
    BY ONLY <2>0, i \in 1..w, w \in Nat
  <2>2. stream[readCount + i] = FrameUnit(sizes, n, (2 + recvOffset) + i)
    BY <1>8, <2>1 DEF ReadTo
  <2>3. FrameUnit(sizes, n, (2 + recvOffset) + i) = <<"byte", n, recvOffset + i>>
    BY <1>3, <2>1 DEF FrameUnit
  <2> QED
    BY <1>7, <2>2, <2>3
<1>10. PICK bytes : bytes = [i \in DOMAIN recvBuf.bytes |->
            IF i \in recvOffset + 1 .. recvOffset + w THEN Receiver!Taken[i - recvOffset] ELSE recvBuf.bytes[i]]
  OBVIOUS
<1>11. recvBuf' = [recvBuf EXCEPT !.bytes = bytes]
  BY <1>6, <1>10 DEF Receiver!Filled
<1>12. recvBuf' = [type |-> n, bytesSize |-> sizes[n], bytes |-> bytes] /\ recvBuf'.bytes = bytes
  BY <1>3, <1>11 DEF ContentOf
<1>13. DOMAIN bytes = 1..sizes[n] /\ bytes = [i \in 1..sizes[n] |-> bytes[i]]
  BY <1>3, <1>10 DEF ContentOf
<1>14. ASSUME NEW i \in 1..(recvOffset + w) PROVE bytes[i] = <<"byte", n, i>>
  <2>1. i \in 1..sizes[n]
    BY <1>3, <1>4, <1>5, <1>6
  <2>2. CASE i <= recvOffset
    <3>1. i \in 1..recvOffset /\ i \notin recvOffset + 1 .. recvOffset + w
      BY <1>3, <2>2
    <3> QED
      BY <1>3, <1>10, <2>1, <3>1 DEF ContentOf
  <2>3. CASE i > recvOffset
    <3>1. i - recvOffset \in 1..w /\ recvOffset + (i - recvOffset) = i /\ i \in recvOffset + 1 .. recvOffset + w
      BY <1>3, <2>3
    <3>2. Receiver!Taken[i - recvOffset] = <<"byte", n, i>>
      BY <1>9, <3>1
    <3> QED
      BY <1>3, <1>10, <2>1, <3>1, <3>2 DEF ContentOf
  <2> QED
    BY <1>3, <2>2, <2>3
<1>15. ~Failed /\ recvTraceBuf \in Traces /\ recvTraceBuf.payloadId = n /\ recvSpeeds \in Seq(SpeedTraces)
       /\ Reported(recvSpeeds, n) = recvOffset
  BY <1>1, <1>2 DEF Failed, ReceiverAt, Accounted
<1>16. PICK x : x = [payloadId |-> n, bytesExchanged |-> w]
  OBVIOUS
<1>17. x \in SpeedTraces /\ x.payloadId = n /\ x.bytesExchanged = w /\ recvSpeeds' = Append(recvSpeeds, x)
  BY <1>6, <1>15, <1>16 DEF SpeedTraces, Receiver!CommitPayloadSpeed
<1>18. /\ recvSpeeds' \in Seq(SpeedTraces)
       /\ Reported(recvSpeeds', n) = recvOffset + w
       /\ \A k \in Nat : k # n => Reported(recvSpeeds', k) = Reported(recvSpeeds, k)
  <2>1. \A k \in Nat : /\ Reported(recvSpeeds', k) =
                            Reported(recvSpeeds, k) + (IF x.payloadId = k THEN x.bytesExchanged ELSE 0)
                       /\ Reported(recvSpeeds, k) \in Int
    BY ONLY <1>15, <1>17, ReportedAppend
  <2>2. recvSpeeds' \in Seq(SpeedTraces)
    BY ONLY <1>15, <1>17
  <2>3. Reported(recvSpeeds', n) = Reported(recvSpeeds, n) + w
    BY ONLY <1>17, <2>1, n \in Nat \ {0}
  <2>4. ASSUME NEW k \in Nat, k # n PROVE Reported(recvSpeeds', k) = Reported(recvSpeeds, k)
    BY ONLY <1>17, <2>1, <2>4, k \in Nat
  <2> QED
    BY ONLY <1>15, <2>2, <2>3, <2>4
<1>19. w \in 0..w /\ (2 + recvOffset) + w = 2 + (recvOffset + w)
  <2>1. recvOffset \in Nat
    BY ONLY <1>3, Zenon
  <2> QED
    BY ONLY <2>1, w \in Nat
<1>20. ReadTo(stream, sizes, readCount + w, n, 2 + (recvOffset + w))
  BY <1>8, <1>19
<1> QED
  BY ONLY <1>1, <1>3, <1>4, <1>5, <1>6, <1>7, <1>12, <1>13, <1>14, <1>18, <1>20, Zenon DEF Takes

\* The handler of the content while content remains.
LEMMA ChunkReadStep ==
    ASSUME sizes \in Seq(Nat), IsCutStream(stream, sizes), Arrived, UNCHANGED wire,
           NEW d \in 0..Len(sizes), ReceiverAt(d), Receiver!OnChunkRead
    PROVE  Arrived' /\ ReceiverAt(d)'
<1>1. /\ Receiver!Handler("PAYLOAD_CONTENT") /\ reading = "PAYLOAD_CONTENT"
      /\ recvBuf' = Receiver!Filled /\ Receiver!CommitPayloadSpeed(Receiver!Wanted)
      /\ recvOffset' = recvOffset + Receiver!Wanted
      /\ UNCHANGED <<sizes, stream, recvProcessing, reading, incomingQueue, recvTraceBuf, recvTraces>>
  BY DEF Receiver!OnChunkRead, Receiver!Handler, Receiver!peerVars
<1>2. PICK n \in 1..Len(sizes), w \in Nat : Takes(d, n, w)
  BY <1>1, ContentTaken
<1> USE <1>2 DEF Takes
<1>3. recvBuf'.type = n /\ recvBuf'.bytesSize = sizes[n] /\ recvOffset' = recvOffset + w /\ recvOffset' \in Nat
  BY <1>1, <1>2
<1>4. Pushed(d)'
  BY <1>1 DEF ReceiverAt, Pushed
<1>5. ReadsInStep(n)'
  <2>1. ReadOf(n, 2 + recvOffset)'
    BY <1>1, <1>2, <1>3 DEF ReadOf
  <2>2. ContentOf(n)'
    BY <1>1, <1>2, <1>3 DEF ContentOf
  <2>3. recvProcessing = TRUE
    BY <1>1 DEF ReceiverAt, ReadsInStep
  <2> QED
    BY <1>1, <1>2, <1>3, <2>1, <2>2, <2>3 DEF ReadsInStep
<1>6. Accounted(d)'
  <2>1. ~Failed /\ ~Failed'
    BY <1>1 DEF Failed
  <2>2. /\ \A k \in 1..d : Reported(recvSpeeds', k) = sizes[k]
        /\ \A k \in Nat : k > d + 1 => Reported(recvSpeeds', k) = 0
    <3>1. /\ \A k \in 1..d : Reported(recvSpeeds, k) = sizes[k]
          /\ \A k \in Nat : k > d + 1 => Reported(recvSpeeds, k) = 0
          /\ \A k \in Nat : k # d + 1 => Reported(recvSpeeds', k) = Reported(recvSpeeds, k)
      BY DEF ReceiverAt, Accounted
    <3> QED
      BY ONLY <3>1, d \in Nat
  <2> QED
    BY <1>1, <1>2, <1>3, <2>1, <2>2 DEF ReceiverAt, Accounted
<1> QED
  BY <1>2, <1>4, <1>5, <1>6 DEF ReceiverAt

\* The handler of the content at its end: the payload that was submitted is
\* pushed, and the next frame begins.
LEMMA ContentReadStep ==
    ASSUME sizes \in Seq(Nat), IsCutStream(stream, sizes), Arrived, UNCHANGED wire,
           NEW d \in 0..Len(sizes), ReceiverAt(d), Receiver!OnContentRead
    PROVE  /\ d + 1 \in 0..Len(sizes)
           /\ Arrived' /\ ReceiverAt(d + 1)'
           /\ incomingQueue'.items = Append(incomingQueue.items, Payload(d + 1, sizes[d + 1]))
<1>1. /\ Receiver!Handler("PAYLOAD_CONTENT") /\ reading = "PAYLOAD_CONTENT" /\ reading' = "PAYLOAD_TYPE"
      /\ recvBuf' = Receiver!Filled /\ Receiver!CommitPayloadSpeed(Receiver!Wanted)
      /\ recvOffset + Receiver!Wanted >= recvBuf.bytesSize
      /\ incomingQueue' = Receiver!push(incomingQueue, recvBuf')
      /\ recvTraces' = Append(recvTraces, recvTraceBuf)
      /\ recvOffset' = 0
      /\ UNCHANGED <<sizes, stream, recvProcessing, recvTraceBuf>>
  BY DEF Receiver!OnContentRead, Receiver!Handler, Receiver!peerVars, Receiver!CommitLog
<1>2. PICK n \in 1..Len(sizes), w \in Nat : Takes(d, n, w)
  BY <1>1, ContentTaken
<1> USE <1>2 DEF Takes
<1>3. recvBuf.bytesSize = sizes[n] /\ recvProcessing = TRUE
  BY <1>1, <1>2 DEF ReceiverAt, ReadsInStep, ContentOf
<1>4. recvOffset + w = sizes[n]
  <2>1. recvOffset + w >= sizes[n] /\ recvOffset + w <= sizes[n] /\ recvOffset \in Nat /\ sizes[n] \in Nat
    BY <1>1, <1>3
  <2> QED
    BY ONLY <2>1, w \in Nat
<1>5. recvBuf' = Payload(n, sizes[n])
  <2>1. recvBuf'.bytes = [i \in 1..sizes[n] |-> <<"byte", n, i>>]
    BY <1>2, <1>4
  <2> QED
    BY <1>2, <2>1 DEF Payload
<1>6. incomingQueue'.items = Append(incomingQueue.items, Payload(n, sizes[n]))
  BY <1>1, <1>5 DEF Receiver!push
<1>7. Pushed(n)'
  <2>1. incomingQueue.items = [k \in 1..d |-> Payload(k, sizes[k])]
    BY DEF ReceiverAt, Pushed
  <2>2. Append([k \in 1..d |-> Payload(k, sizes[k])], Payload(n, sizes[n])) = [k \in 1..n |-> Payload(k, sizes[k])]
    BY ONLY <1>2, d \in Nat
  <2> QED
    BY <1>1, <1>6, <2>1, <2>2 DEF Pushed
<1>8. ReadsInStep(n + 1)'
  <2>1. ReadTo(stream, sizes, readCount + w, n + 1, 0)
    <3>1. sizes[n] \in Nat /\ n = d + 1 /\ d \in Nat
      BY ONLY <1>2, d \in 0..Len(sizes) DEF Takes
    <3>2. 2 + (recvOffset + w) = sizes[n] + 2 /\ sizes[n] + 2 # 0 /\ n + 1 # 1 /\ (n + 1) - 1 = n
      BY ONLY <1>4, <3>1
    <3> QED
      BY <1>2, <3>2 DEF ReadTo
  <2>2. ReadOf(n + 1, 0)'
    BY <1>1, <1>2, <2>1 DEF ReadOf
  <2> QED
    BY <1>1, <1>2, <1>3, <2>2 DEF ReadsInStep
<1>9. Accounted(n)'
  <2>1. ~Failed /\ ~Failed'
    BY <1>1 DEF Failed
  <2>2. /\ recvTraceBuf \in Traces /\ recvTraces \in Seq(Traces) /\ Len(recvTraces) = d
        /\ recvTraceBuf.payloadId = n /\ recvTraceBuf.payloadType = n
        /\ \A k \in 1..d : recvTraces[k].payloadId = k /\ recvTraces[k].payloadType = k
    BY <1>1, <1>2, <2>1 DEF ReceiverAt, Accounted
  <2>3. /\ recvTraces' \in Seq(Traces) /\ Len(recvTraces') = n
        /\ \A k \in 1..n : recvTraces'[k].payloadId = k /\ recvTraces'[k].payloadType = k
    <3>1. recvTraces' = Append(recvTraces, recvTraceBuf) /\ n = d + 1
      BY <1>1
    <3> QED
      BY ONLY <2>2, <3>1, d \in Nat
  <2>4. /\ \A k \in 1..n : Reported(recvSpeeds', k) = sizes[k]
        /\ \A k \in Nat : k > n => Reported(recvSpeeds', k) = 0
    <3>1. /\ \A k \in 1..d : Reported(recvSpeeds, k) = sizes[k]
          /\ \A k \in Nat : k > d + 1 => Reported(recvSpeeds, k) = 0
          /\ \A k \in Nat : k # n => Reported(recvSpeeds', k) = Reported(recvSpeeds, k)
          /\ Reported(recvSpeeds', n) = sizes[n] /\ n = d + 1
      BY <1>4 DEF ReceiverAt, Accounted
    <3> QED
      BY ONLY <3>1, d \in Nat
  <2>5. Reported(recvSpeeds', n + 1) = 0 /\ recvSpeeds' \in Seq(SpeedTraces) /\ n \in Nat
    <3>1. n \in Nat /\ n + 1 \in Nat /\ n + 1 > n
      OBVIOUS
    <3> QED
      BY <2>4, <3>1
  <2>6. /\ UNCHANGED <<sizes, recvTraceBuf>> /\ recvOffset' = 0
        /\ reading' \notin {"PAYLOAD_SIZE", "PAYLOAD_CONTENT"}
    BY <1>1
  <2>7. \A k \in Nat : k > n + 1 => Reported(recvSpeeds', k) = 0
    BY ONLY <2>4, n \in Nat
  <2> QED
    BY ONLY <2>1, <2>2, <2>3, <2>4, <2>5, <2>6, <2>7 DEF Accounted
<1> QED
  BY <1>2, <1>6, <1>7, <1>8, <1>9 DEF ReceiverAt

\* A handler with an error: one more trace, and nothing is read any more.
LEMMA ReceiveErrorStep ==
    ASSUME sizes \in Seq(Nat), NEW d \in 0..Len(sizes), ReceiverAt(d), Receiver!OnPayloadReceiveError
    PROVE  ReceiverAt(d)'
<1>1. /\ reading # "nothing" /\ reading' = "nothing"
      /\ recvTraceBuf' = IF reading = "PAYLOAD_TYPE"
                         THEN Receiver!logPayloadType(Receiver!logNewPayload(recvTraceBuf), recvBuf.type)
                         ELSE recvTraceBuf
      /\ recvTraces' = Append(recvTraces, recvTraceBuf')
      /\ UNCHANGED <<sizes, stream, readCount, recvBuf, recvOffset, recvProcessing, incomingQueue, recvSpeeds>>
  BY DEF Receiver!OnPayloadReceiveError, Receiver!peerVars, Receiver!CommitLog
<1>2. recvProcessing = TRUE /\ reading \in {"PAYLOAD_TYPE", "PAYLOAD_SIZE", "PAYLOAD_CONTENT"}
      /\ recvOffset \in Nat
  BY <1>1 DEF ReceiverAt, ReadsInStep
<1>3. ~Failed /\ Failed'
  BY <1>1, <1>2 DEF Failed
<1>4. Pushed(d)' /\ ReadsInStep(d + 1)'
  BY <1>1, <1>2 DEF ReceiverAt, Pushed, ReadsInStep
<1>5. recvTraceBuf \in Traces /\ recvTraces \in Seq(Traces) /\ Len(recvTraces) = d
      /\ recvTraceBuf.payloadId = d + (IF reading \in {"PAYLOAD_SIZE", "PAYLOAD_CONTENT"} THEN 1 ELSE 0)
      /\ \A k \in 1..d : recvTraces[k].payloadId = k /\ recvTraces[k].payloadType = k
  BY <1>3 DEF ReceiverAt, Accounted
<1>6. recvTraceBuf' \in Traces /\ recvTraceBuf'.payloadId = d + 1
  <2>1. recvBuf.type \in Nat
    BY DEF ReceiverAt, ReadsInStep
  <2>2. CASE reading = "PAYLOAD_TYPE"
    <3>1. recvTraceBuf' = Receiver!logPayloadType(Receiver!logNewPayload(recvTraceBuf), recvBuf.type)
      BY <1>1, <2>2
    <3>2. recvTraceBuf \in Traces /\ recvTraceBuf.payloadId = d
      BY <1>5, <2>2
    <3>3. recvTraceBuf' \in Traces /\ recvTraceBuf'.payloadId = recvTraceBuf.payloadId + 1
      BY ONLY <2>1, <3>1, <3>2, TraceOpened
    <3> QED
      BY ONLY <3>2, <3>3
  <2>3. CASE reading # "PAYLOAD_TYPE"
    BY <1>1, <1>2, <1>5, <2>3
  <2> QED
    BY <2>2, <2>3
<1>7. /\ recvTraces' \in Seq(Traces) /\ Len(recvTraces') = d + 1
      /\ \A k \in 1..(d + 1) : recvTraces'[k].payloadId = k
      /\ \A k \in 1..d : recvTraces'[k].payloadType = k
  BY <1>1, <1>5, <1>6
<1>8. Accounted(d)'
  BY <1>1, <1>3, <1>6, <1>7 DEF ReceiverAt, Accounted
<1> QED
  BY <1>4, <1>8 DEF ReceiverAt

-----------------------------------------------------------------------------
(* Both ends.                                                              *)

\* Payloads are only added, behind the others, and so are units on the wire.
LEMMA SenderGrows ==
    ASSUME IInv, [Next]_vars
    PROVE  /\ \/ sizes' = sizes
              \/ \E size \in Sizes : Len(sizes) < MaxPayloads /\ sizes' = Append(sizes, size)
           /\ Len(wire) <= Len(wire')
           /\ \A k \in 1..Len(wire) : wire'[k] = wire[k]
<1>1. CASE Transmit
  <2>1. PICK t \in Seq(StreamUnits) : wire' = wire \o t
    BY <1>1, TransmitAppends
  <2>2. wire \in Seq(StreamUnits) /\ sizes' = sizes
    BY <1>1 DEF IInv, TypeOK, Transmit, histVars
  <2> QED
    BY <2>1, <2>2
<1>2. ASSUME NEW size \in Sizes, SendPayload(size)
      PROVE  Len(sizes) < MaxPayloads /\ sizes' = Append(sizes, size) /\ wire' = wire
  BY <1>2 DEF SendPayload, socketVars
<1>3. CASE \/ Connected \/ Disconnected \/ FailWrite \/ OnPayloadSendError \/ OnTypeWritten
           \/ OnSizeWritten \/ OnChunkWritten \/ OnContentWritten \/ UNCHANGED vars
  <2>1. sizes' = sizes /\ wire' = wire
    BY <1>3 DEF Connected, Disconnected, FailWrite, OnPayloadSendError, OnTypeWritten, OnSizeWritten,
                OnChunkWritten, OnContentWritten, vars, histVars, socketVars
  <2> QED
    BY <2>1 DEF IInv, TypeOK
<1>4. Len(wire) \in Nat
  BY DEF IInv, TypeOK
<1> QED
  BY <1>1, <1>2, <1>3, <1>4 DEF Next

\* What a step of the sending end leaves of the receiver's invariant: all of it.
LEMMA SenderStepKeeps ==
    ASSUME IInv, [Next]_vars, sizes \in Seq(Nat), sizes' \in Seq(Nat), UNCHANGED receiverVars,
           ReceiverInv
    PROVE  ReceiverInv'
<1>1. PICK d \in 0..Len(sizes) : ReceiverAt(d)
  BY DEF ReceiverInv
<1>2. UNCHANGED <<stream, readCount, reading, recvBuf, recvOffset, recvProcessing, incomingQueue,
                  recvTraceBuf, recvTraces, recvSpeeds>>
  BY DEF receiverVars
<1>3. Len(sizes) <= Len(sizes') /\ \A n \in 1..Len(sizes) : sizes'[n] = sizes[n]
  <2>1. sizes' = sizes \/ \E size \in Sizes : sizes' = Append(sizes, size)
    BY ONLY IInv, [Next]_vars, SenderGrows, Zenon
  <2>2. CASE sizes' = sizes
    BY ONLY <2>2, sizes \in Seq(Nat)
  <2>3. ASSUME NEW size \in Sizes, sizes' = Append(sizes, size)
        PROVE  Len(sizes) <= Len(sizes') /\ \A n \in 1..Len(sizes) : sizes'[n] = sizes[n]
    <3>1. size \in Nat
      BY SenderAssumption
    <3> QED
      BY ONLY <2>3, <3>1, sizes \in Seq(Nat)
  <2> QED
    BY ONLY <2>1, <2>2, <2>3
<1>4. Arrived'
  <2>1. wire \in Seq(StreamUnits) /\ Len(wire) \in Nat /\ Len(stream) <= Len(wire) /\ Len(stream) \in Nat
    BY DEF IInv, TypeOK, ReceiverInv, Arrived
  <2>2. Len(wire) <= Len(wire') /\ \A k \in 1..Len(wire) : wire'[k] = wire[k]
    BY SenderGrows
  <2>3. Len(wire') \in Nat
    BY StepIInv, CallersWait DEF IInv, TypeOK
  <2>4. Len(stream) <= Len(wire') /\ \A k \in 1..Len(stream) : stream[k] = wire'[k]
    BY <2>1, <2>2, <2>3 DEF ReceiverInv, Arrived
  <2> QED
    BY <1>2, <2>4 DEF ReceiverInv, Arrived
<1>5. Pushed(d)'
  <2>1. \A n \in 1..d : Payload(n, sizes'[n]) = Payload(n, sizes[n])
    BY <1>3
  <2>2. [n \in 1..d |-> Payload(n, sizes[n])] = [n \in 1..d |-> Payload(n, sizes'[n])]
    BY ONLY <2>1, Zenon
  <2> QED
    BY <1>1, <1>2, <2>2 DEF ReceiverAt, Pushed
<1>6. \A n \in 1..Len(sizes), j \in Nat : FrameUnit(sizes', n, j) = FrameUnit(sizes, n, j)
  BY <1>3 DEF FrameUnit
<1>7. ASSUME NEW n \in Nat, n = d + 1 PROVE ReadsInStep(n)'
  <2>1. ReadsInStep(n)
    BY <1>1, <1>7 DEF ReceiverAt
  <2>2. ASSUME ReadOf(n, 0) PROVE ReadOf(n, 0)'
    <3>1. CASE n = 1
      BY <1>2, <2>2, <3>1 DEF ReadOf, ReadTo
    <3>2. CASE n # 1
      <4>1. PICK m \in 1..Len(sizes) : m = n - 1
        BY <1>7, <3>2
      <4>2. sizes'[m] = sizes[m] /\ sizes[m] + 2 \in Nat
        BY <1>3
      <4>3. FrameUnit(sizes', m, sizes'[m] + 2) = FrameUnit(sizes, m, sizes[m] + 2)
        BY <1>6, <4>2
      <4> QED
        BY <1>2, <2>2, <3>2, <4>1, <4>3 DEF ReadOf, ReadTo
    <3> QED
      BY <3>1, <3>2
  <2>3. ASSUME n <= Len(sizes), NEW j \in Nat \ {0}, ReadOf(n, j) PROVE ReadOf(n, j)'
    <3>1. n \in 1..Len(sizes)
      BY <1>7, <2>3
    <3> QED
      BY <1>2, <1>6, <2>3, <3>1 DEF ReadOf, ReadTo
  <2>4. ASSUME n <= Len(sizes), ContentOf(n) PROVE ContentOf(n)'
    <3>1. sizes'[n] = sizes[n]
      BY <1>3, <1>7, <2>4
    <3> QED
      BY <1>2, <2>4, <3>1 DEF ContentOf
  <2>5. recvOffset \in Nat /\ 2 + recvOffset \in Nat \ {0} /\ (n <= Len(sizes) => n <= Len(sizes'))
    BY <1>3, <2>1 DEF ReadsInStep
  <2>6. (2 + recvOffset)' = 2 + recvOffset
    BY <1>2
  <2>7. reading = "PAYLOAD_TYPE" => ReadOf(n, 0)'
    BY <2>1, <2>2 DEF ReadsInStep
  <2>8. reading = "PAYLOAD_SIZE" => ReadOf(n, 1)'
    BY <2>1, <2>3 DEF ReadsInStep
  <2>9. reading = "PAYLOAD_CONTENT" => ReadOf(n, 2 + recvOffset)' /\ ContentOf(n)'
    <3> SUFFICES ASSUME reading = "PAYLOAD_CONTENT" PROVE ReadOf(n, 2 + recvOffset)' /\ ContentOf(n)'
      OBVIOUS
    <3>1. PICK j \in Nat \ {0} : j = 2 + recvOffset
      BY <2>5
    <3>2. n <= Len(sizes) /\ ReadOf(n, j) /\ ContentOf(n)
      BY <2>1, <3>1 DEF ReadsInStep
    <3>3. ReadOf(n, j)'
      BY <2>3, <3>2
    <3>4. ReadOf(n, 2 + recvOffset)'
      BY <2>6, <3>1, <3>3 DEF ReadOf
    <3> QED
      BY <2>4, <3>2, <3>4
  <2> QED
    BY <1>2, <2>1, <2>5, <2>7, <2>8, <2>9 DEF ReadsInStep
<1>8. Accounted(d)'
  <2>1. Failed' <=> Failed
    BY <1>2 DEF Failed
  <2>2. \A k \in 1..d : Reported(recvSpeeds, k) = sizes'[k]
    <3>1. \A k \in 1..d : Reported(recvSpeeds, k) = sizes[k] /\ k \in 1..Len(sizes)
      BY <1>1 DEF ReceiverAt, Accounted
    <3> QED
      BY ONLY <1>3, <3>1, Zenon
  <2> QED
    BY <1>1, <1>2, <2>1, <2>2 DEF ReceiverAt, Accounted
<1>9. d \in 0..Len(sizes')
  BY <1>3
<1> QED
  BY <1>4, <1>5, <1>7, <1>8, <1>9 DEF ReceiverInv, ReceiverAt

\* A unit arrives behind what the reads have consumed.
LEMMA DeliverKeeps ==
    ASSUME IInv, ReceiverInv, Deliver
    PROVE  ReceiverInv'
<1>1. PICK d \in 0..Len(sizes) : ReceiverAt(d)
  BY DEF ReceiverInv
<1>2. UNCHANGED <<sizes, wire, readCount, reading, recvBuf, recvOffset, recvProcessing, incomingQueue,
                  recvTraceBuf, recvTraces, recvSpeeds>>
  BY DEF Deliver, senderVars, socketVars
<1>3. wire \in Seq(StreamUnits) /\ stream \in Seq(StreamUnits) /\ readCount \in 0..Len(stream)
      /\ Len(stream) < Len(wire) /\ stream' = Append(stream, wire[Len(stream) + 1])
      /\ \A k \in 1..Len(stream) : stream[k] = wire[k]
  BY DEF IInv, TypeOK, ReceiverInv, Arrived, Deliver
<1>4. wire[Len(stream) + 1] \in StreamUnits
  BY <1>3
<1>5. /\ stream' \in Seq(StreamUnits) /\ Len(stream') = Len(stream) + 1 /\ Len(stream) \in Nat
      /\ \A k \in 1..Len(stream) : stream'[k] = stream[k]
      /\ stream'[Len(stream) + 1] = wire[Len(stream) + 1]
  BY ONLY <1>3, <1>4
<1>6. Arrived'
  <2>1. Len(stream') <= Len(wire') /\ readCount' \in 0..Len(stream')
    BY <1>2, <1>3, <1>5
  <2>2. \A k \in 1..Len(stream') : stream'[k] = wire'[k]
    BY <1>2, <1>3, <1>5
  <2> QED
    BY <1>5, <2>1, <2>2 DEF Arrived
<1>7. \A n, j : ReadOf(n, j)' <=> ReadOf(n, j)
  <2>1. readCount # 0 => stream'[readCount] = stream[readCount]
    BY <1>3, <1>5
  <2> QED
    BY <1>2, <2>1 DEF ReadOf, ReadTo
<1>8. ReadsInStep(d + 1)'
  BY <1>1, <1>2, <1>7 DEF ReceiverAt, ReadsInStep, ContentOf
<1>9. Pushed(d)' /\ Accounted(d)'
  BY <1>1, <1>2 DEF ReceiverAt, Pushed, Accounted, Failed
<1> QED
  BY <1>1, <1>2, <1>6, <1>8, <1>9 DEF ReceiverInv, ReceiverAt

\* The connection ends: nothing else happens.
LEMMA EndKeeps ==
    ASSUME ReceiverInv, NEW how, Receiver!ConnectionEnds(how), UNCHANGED wire
    PROVE  ReceiverInv'
<1>1. PICK d \in 0..Len(sizes) : ReceiverAt(d)
  BY DEF ReceiverInv
<1>2. UNCHANGED <<sizes, wire, stream, readCount, reading, recvBuf, recvOffset, recvProcessing,
                  incomingQueue, recvTraceBuf, recvTraces, recvSpeeds>>
  BY DEF Receiver!ConnectionEnds, Receiver!logVars
<1>3. Arrived'
  BY <1>2 DEF ReceiverInv, Arrived
<1>4. ReceiverAt(d)'
  BY <1>1, <1>2 DEF ReceiverAt, Pushed, ReadsInStep, ReadOf, ContentOf, Accounted, Failed
<1> QED
  BY <1>1, <1>2, <1>3, <1>4 DEF ReceiverInv

\* A handler of the receiver.
LEMMA HandlersKeep ==
    ASSUME IInv, WireInv, ReceiverInv, Receiver!Handlers, UNCHANGED wire
    PROVE  ReceiverInv'
<1>1. PICK d \in 0..Len(sizes) : ReceiverAt(d)
  BY DEF ReceiverInv
<1>2. Arrived /\ sizes \in Seq(Nat) /\ IsCutStream(stream, sizes)
  BY CutArrived DEF ReceiverInv
<1>3. sizes' = sizes
  BY DEF Receiver!Handlers, Receiver!StartReceiving, Receiver!OnTypeRead, Receiver!OnSizeRead,
         Receiver!OnChunkRead, Receiver!OnContentRead, Receiver!OnPayloadReceiveError,
         Receiver!Handler, Receiver!peerVars
<1>4. CASE Receiver!StartReceiving
  <2>1. Arrived'
    BY <1>2, <1>4 DEF Arrived, Receiver!StartReceiving, Receiver!peerVars
  <2> QED
    BY <1>1, <1>3, <1>4, <2>1, StartStep DEF ReceiverInv
<1>5. CASE Receiver!OnPayloadReceiveError
  <2>1. Arrived'
    BY <1>2, <1>5 DEF Arrived, Receiver!OnPayloadReceiveError, Receiver!peerVars
  <2> QED
    BY <1>1, <1>2, <1>3, <1>5, <2>1, ReceiveErrorStep DEF ReceiverInv
<1>6. CASE Receiver!OnTypeRead
  BY <1>1, <1>2, <1>3, <1>6, TypeReadStep DEF ReceiverInv
<1>7. CASE Receiver!OnSizeRead
  BY <1>1, <1>2, <1>3, <1>7, SizeReadStep DEF ReceiverInv
<1>8. CASE Receiver!OnChunkRead
  BY <1>1, <1>2, <1>3, <1>8, ChunkReadStep DEF ReceiverInv
<1>9. CASE Receiver!OnContentRead
  <2>1. d + 1 \in 0..Len(sizes) /\ Arrived' /\ ReceiverAt(d + 1)'
    BY <1>1, <1>2, <1>9, ContentReadStep
  <2> QED
    BY <1>3, <2>1 DEF ReceiverInv
<1> QED
  BY <1>4, <1>5, <1>6, <1>7, <1>8, <1>9 DEF Receiver!Handlers

-----------------------------------------------------------------------------
ConnectionInv == IInv /\ WireInv /\ ReceiverInv

LEMMA InitConnectionInv == ConnectionInit => ConnectionInv
<1> SUFFICES ASSUME ConnectionInit PROVE ConnectionInv
  OBVIOUS
<1>1. Init /\ Receiver!Init
  BY DEF ConnectionInit
<1>2. IInv /\ WireInv
  BY <1>1, InitIInv, InitWireInv
<1> USE <1>1 DEF Init, Receiver!Init, Receiver!EmptyQueue, Receiver!LoggerInit
<1>3. Len(sizes) = 0 /\ Len(stream) = 0 /\ Len(wire) = 0 /\ stream \in Seq(StreamUnits)
  OBVIOUS
<1>4. Arrived
  BY <1>3 DEF Arrived
<1>5. Pushed(0)
  <2>1. [n \in 1..0 |-> Payload(n, sizes[n])] = <<>>
    OBVIOUS
  <2> QED
    BY <2>1 DEF Pushed
<1>6. ReadsInStep(0 + 1)
  <2>1. PICK b : b = [type |-> 0, bytesSize |-> 0, bytes |-> <<>>]
    OBVIOUS
  <2>2. b = [type |-> b.type, bytesSize |-> b.bytesSize, bytes |-> b.bytes] /\ b.type \in Nat
    BY <2>1
  <2>3. recvBuf = b
    BY <2>1
  <2>4. /\ reading = "nothing" /\ recvProcessing = FALSE /\ readCount = 0 /\ recvOffset = 0
        /\ 0 \in Nat /\ 0 + 1 = 1
    OBVIOUS
  <2> QED
    BY ONLY <2>2, <2>3, <2>4 DEF ReadsInStep
<1>7. Accounted(0)
  <2>1. ~Failed
    BY DEF Failed
  <2>2. \A k : Reported(recvSpeeds, k) = 0
    <3> SUFFICES ASSUME NEW k PROVE Reported(<<>>, k) = 0
      OBVIOUS
    <3>1. [i \in DOMAIN <<>> |-> IF <<>>[i].payloadId = k THEN <<>>[i].bytesExchanged ELSE 0] = <<>>
      OBVIOUS
    <3> QED
      BY <3>1, TotalEmpty DEF Reported
  <2>3. recvTraceBuf \in Traces /\ recvTraceBuf.payloadId = 0
    BY DEF Traces
  <2> QED
    BY <2>1, <2>2, <2>3 DEF Accounted
<1> QED
  BY <1>2, <1>3, <1>4, <1>5, <1>6, <1>7 DEF ConnectionInv, ReceiverInv, ReceiverAt

\* A step of the connection is one of the sender or none of it.
LEMMA SenderAllows ==
    ASSUME [ConnectionNext]_connectionVars
    PROVE  [Next]_vars
BY DEF ConnectionNext, SenderStep, Deliver, EndOfStream, Reset, ReceiverStep, connectionVars, senderVars,
       vars, histVars, Receiver!ConnectionEnds, Receiver!Handlers, Receiver!StartReceiving,
       Receiver!OnTypeRead, Receiver!OnSizeRead, Receiver!OnChunkRead, Receiver!OnContentRead,
       Receiver!OnPayloadReceiveError, Receiver!Handler, Receiver!peerVars

LEMMA StepConnectionInv ==
    ASSUME ConnectionInv, [ConnectionNext]_connectionVars
    PROVE  ConnectionInv'
<1> USE DEF ConnectionInv
<1>1. IInv' /\ WireInv'
  BY SenderAllows, StepIInv, StepWireInv, CallersWait
<1>2. sizes \in Seq(Nat) /\ sizes' \in Seq(Nat)
  BY <1>1, SenderAssumption, SeqWiden DEF IInv, TypeOK
<1>3. CASE SenderStep \/ UNCHANGED connectionVars
  <2>1. UNCHANGED receiverVars
    BY <1>3 DEF SenderStep, connectionVars
  <2> QED
    BY <1>1, <1>2, <2>1, SenderAllows, SenderStepKeeps
<1>4. CASE Deliver
  BY <1>1, <1>4, DeliverKeeps
<1>5. CASE EndOfStream \/ Reset \/ ReceiverStep
  <2>1. UNCHANGED wire
    BY <1>5 DEF EndOfStream, Reset, ReceiverStep, senderVars, socketVars
  <2>2. CASE EndOfStream
    BY <1>1, <2>1, <2>2, EndKeeps DEF EndOfStream
  <2>3. CASE Reset
    BY <1>1, <2>1, <2>3, EndKeeps DEF Reset
  <2>4. CASE ReceiverStep
    BY <1>1, <2>1, <2>4, HandlersKeep DEF ReceiverStep
  <2> QED
    BY <1>5, <2>2, <2>3, <2>4
<1> QED
  BY <1>3, <1>4, <1>5 DEF ConnectionNext

\* Both ends of a connection stay in step, whatever is written, delivered and
\* read in which pieces, and whenever either end fails.
THEOREM ConnectionInvariance == ConnectionSpec => []ConnectionInv
<1>1. ConnectionInit => ConnectionInv
  BY InitConnectionInv
<1>2. ConnectionInv /\ [ConnectionNext]_connectionVars => ConnectionInv'
  BY StepConnectionInv
<1> QED
  BY <1>1, <1>2, PTL DEF ConnectionSpec

\* The sum in the receiver's module is this module's.
LEMMA ReceiverTotals ==
    ASSUME NEW s
    PROVE  Receiver!FoldLeft(LAMBDA a, b : a + b, 0, s) = Total(s)
BY Zenon DEF Total, FoldLeft, MapThenFoldSet, Max, Receiver!FoldLeft, Receiver!MapThenFoldSet, Receiver!Max

\* TracesAccount for any sizes, chunks and number of payloads: the speeds
\* reported for a payload add up to its size, however it was cut into reads.
THEOREM ReceiverTracesAccount == ConnectionSpec => []TracesAccount
<1>1. ConnectionInv => TracesAccount
  <2> SUFFICES ASSUME ConnectionInv PROVE TracesAccount
    OBVIOUS
  <2>1. PICK d \in 0..Len(sizes) : ReceiverAt(d)
    BY DEF ConnectionInv, ReceiverInv
  <2>2. Pushed(d) /\ Accounted(d) /\ d \in Nat
    BY <2>1 DEF ReceiverAt
  <2>3. Len(incomingQueue.items) = d
    BY <2>2 DEF Pushed
  <2>4. DOMAIN recvTraces = 1..Len(recvTraces)
    BY <2>2 DEF Accounted
  <2>5. Receiver!TracesNumbered
    BY <2>2, <2>4 DEF Accounted, Receiver!TracesNumbered
  <2>6. ASSUME NEW n \in 1..d
        PROVE  Receiver!CommittedFor(n, n) /\ Reported(recvSpeeds, n) = sizes[n]
    <3>1. n \in 1..Len(recvTraces)
      BY <2>2 DEF Accounted
    <3> QED
      BY <2>2, <2>4, <3>1 DEF Accounted, Receiver!CommittedFor
  <2>7. Len(recvTraces) = d + (IF recvProcessing /\ reading = "nothing" THEN 1 ELSE 0)
    BY <2>2 DEF Accounted, Failed
  <2> QED
    BY <2>3, <2>5, <2>6, <2>7, ReceiverTotals, Zenon DEF TracesAccount, Receiver!TracesAccount, Reported
<1> QED
  BY <1>1, ConnectionInvariance, PTL

-----------------------------------------------------------------------------
(* The two refinements.                                                    *)

\* The unit the wire goes on with is the one the receiver's module says.
LEMMA DeliverIsArrive ==
    ASSUME ConnectionInv, Deliver
    PROVE  Receiver!Arrive
<1>1. /\ wire \in Seq(StreamUnits) /\ IsCutStream(wire, sizes)
      /\ stream \in Seq(StreamUnits) /\ \A k \in 1..Len(stream) : stream[k] = wire[k]
  BY DEF ConnectionInv, IInv, TypeOK, WireInv, WireHoldsFrames, ReceiverInv, Arrived
<1>2. recvLink = "open" /\ Len(stream) < Len(wire) /\ stream' = Append(stream, wire[Len(stream) + 1])
      /\ UNCHANGED <<sizes, recvLink, readCount, reading, recvBuf, recvOffset, recvProcessing,
                     incomingQueue, Receiver!logVars>>
  BY DEF Deliver, Receiver!logVars
<1>3. Len(stream) \in Nat /\ Len(stream) + 1 \in 1..Len(wire) /\ Len(sizes) \in Nat
  BY <1>1, <1>2 DEF ConnectionInv, IInv, TypeOK
<1>4. wire[Len(stream) + 1][2] \in 1..Len(sizes)
  BY <1>1, <1>3 DEF IsCutStream
<1>5. wire[Len(stream) + 1] = Receiver!NextUnit(sizes, stream)
  <2>1. CASE stream = <<>>
    <3>1. Len(stream) + 1 = 1 /\ wire # <<>>
      BY <1>1, <1>2, <2>1
    <3> QED
      BY <1>1, <2>1, <3>1 DEF IsCutStream, Receiver!NextUnit
  <2>2. CASE stream # <<>>
    <3>1. Len(stream) \in 1..Len(stream) /\ Len(stream) \in 1..(Len(wire) - 1)
      BY <1>1, <1>2, <2>2
    <3>2. wire[Len(stream) + 1] = UnitAfter(sizes, wire[Len(stream)]) /\ wire[Len(stream)] = stream[Len(stream)]
      BY <1>1, <3>1 DEF IsCutStream
    <3> QED
      BY <2>2, <3>2 DEF Receiver!NextUnit, Receiver!UnitAfter, UnitAfter
  <2> QED
    BY <2>1, <2>2
<1>6. Receiver!NextUnit(sizes, stream)[2] <= Len(sizes)
  BY <1>3, <1>4, <1>5
<1> QED
  BY <1>2, <1>5, <1>6 DEF Receiver!Arrive

\* SenderIsThePeer for any sizes, chunks and number of payloads: whatever the
\* sender does, what its receiver gets to read is a stream of whole frames.
THEOREM SenderIsAlwaysThePeer == ConnectionSpec => SenderIsThePeer
<1>1. ConnectionInit => Receiver!Init
  BY DEF ConnectionInit
<1>2. ConnectionInv /\ [ConnectionNext]_connectionVars => [Receiver!Next]_(Receiver!vars)
  <2> SUFFICES ASSUME ConnectionInv, [ConnectionNext]_connectionVars
               PROVE  [Receiver!Next]_(Receiver!vars)
    OBVIOUS
  <2>1. CASE SenderStep \/ UNCHANGED connectionVars
    <3>1. UNCHANGED receiverVars
      BY <2>1 DEF SenderStep, connectionVars
    <3>2. \/ sizes' = sizes
          \/ \E size \in Sizes : Len(sizes) < MaxPayloads /\ sizes' = Append(sizes, size)
      BY SenderAllows, SenderGrows DEF ConnectionInv
    <3>3. CASE sizes' = sizes
      BY <3>1, <3>3 DEF receiverVars, Receiver!vars, Receiver!peerVars, Receiver!logVars
    <3>4. ASSUME NEW size \in Sizes, Len(sizes) < MaxPayloads, sizes' = Append(sizes, size)
          PROVE  Receiver!PeerSends(size)
      BY <3>1, <3>4 DEF receiverVars, Receiver!PeerSends, Receiver!logVars
    <3> QED
      BY <3>2, <3>3, <3>4 DEF Receiver!Next
  <2>2. CASE Deliver
    BY <2>2, DeliverIsArrive DEF Receiver!Next
  <2>3. CASE EndOfStream
    BY <2>3 DEF EndOfStream, Receiver!Next
  <2>4. CASE Reset
    BY <2>4 DEF Reset, Receiver!Next
  <2>5. CASE ReceiverStep
    BY <2>5 DEF ReceiverStep, Receiver!Next
  <2> QED
    BY <2>1, <2>2, <2>3, <2>4, <2>5 DEF ConnectionNext
<1> QED
  BY <1>1, <1>2, ConnectionInvariance, PTL DEF ConnectionSpec, SenderIsThePeer, Receiver!Spec

\* One more size is one more payload submitted.
LEMMA SubmittedAppend ==
    ASSUME NEW sz \in Seq(Nat), NEW x \in Nat
    PROVE  [n \in DOMAIN Append(sz, x) |-> Payload(n, Append(sz, x)[n])] =
           Append([n \in DOMAIN sz |-> Payload(n, sz[n])], Payload(Len(sz) + 1, x))
<1>1. PICK m \in Nat : m = Len(sz)
  OBVIOUS
<1>2. PICK r : r = Append(sz, x)
  OBVIOUS
<1>3. DOMAIN r = 1..(m + 1) /\ r[m + 1] = x /\ \A n \in 1..m : r[n] = sz[n]
  BY <1>1, <1>2
<1>4. PICK p : p = Payload(m + 1, x)
  OBVIOUS
<1>5. PICK s : s = [n \in 1..m |-> Payload(n, sz[n])]
  OBVIOUS
<1>6. PICK Q : Q = {p} \cup {s[n] : n \in 1..m}
  OBVIOUS
<1>7. p \in Q /\ s \in [1..m -> Q]
  BY ONLY <1>5, <1>6
<1>8. s \in Seq(Q) /\ Len(s) = m
  BY ONLY <1>7, m \in Nat
<1>9. PICK a : a = Append(s, p)
  OBVIOUS
<1>10. a \in Seq(Q) /\ Len(a) = m + 1 /\ a[m + 1] = p /\ \A n \in 1..m : a[n] = s[n]
  BY ONLY <1>7, <1>8, <1>9, m \in Nat
<1>11. a = [n \in 1..(m + 1) |-> a[n]]
  BY ONLY <1>10, m \in Nat
<1>12. \A n \in 1..(m + 1) : Payload(n, r[n]) = a[n]
  <2> SUFFICES ASSUME NEW n \in 1..(m + 1) PROVE Payload(n, r[n]) = a[n]
    OBVIOUS
  <2>1. CASE n = m + 1
    BY ONLY <1>3, <1>4, <1>10, <2>1, Zenon
  <2>2. CASE n # m + 1
    <3>1. n \in 1..m
      BY ONLY <2>2, n \in 1..(m + 1), m \in Nat
    <3> QED
      BY ONLY <1>3, <1>5, <1>10, <3>1
  <2> QED
    BY ONLY <2>1, <2>2
<1>13. [n \in DOMAIN r |-> Payload(n, r[n])] = a
  <2>1. [n \in DOMAIN r |-> Payload(n, r[n])] = [n \in 1..(m + 1) |-> a[n]]
    BY ONLY <1>3, <1>12
  <2> QED
    BY ONLY <1>11, <2>1, Zenon
<1>14. DOMAIN sz = 1..m
  BY <1>1
<1> QED
  BY ONLY <1>1, <1>2, <1>4, <1>5, <1>9, <1>13, <1>14, Zenon

\* ImplementsChannel for any sizes, chunks and number of payloads: every
\* payload submitted comes out whole, once and in order, or nothing after it
\* comes out at all.
THEOREM ConnectionImplementsChannel == ConnectionSpec => ImplementsChannel
<1>1. ConnectionInit => Channel!Init
  <2> SUFFICES ASSUME ConnectionInit PROVE Channel!Init
    OBVIOUS
  <2>1. sizes = <<>> /\ incomingQueue.items = <<>>
    BY DEF ConnectionInit, Init, Receiver!Init, Receiver!EmptyQueue
  <2>2. [n \in DOMAIN sizes |-> Payload(n, sizes[n])] = <<>>
    BY <2>1
  <2> QED
    BY <2>1, <2>2 DEF Channel!Init
<1>2. ConnectionInv /\ [ConnectionNext]_connectionVars => [Channel!Next]_(Channel!chanVars)
  <2> SUFFICES ASSUME ConnectionInv, [ConnectionNext]_connectionVars
               PROVE  [Channel!Next]_(Channel!chanVars)
    OBVIOUS
  <2>1. sizes \in Seq(Nat) /\ sizes \in Seq(Sizes) /\ Len(sizes) <= MaxPayloads /\ Len(sizes) \in Nat
    BY CutArrived DEF ConnectionInv, ReceiverInv, IInv, TypeOK
  <2>2. CASE sizes' = sizes /\ UNCHANGED incomingQueue
    BY <2>2 DEF Channel!chanVars
  <2>3. ASSUME NEW size \in Sizes, Len(sizes) < MaxPayloads, sizes' = Append(sizes, size),
               UNCHANGED incomingQueue
        PROVE  Channel!Next
    <3>1. PICK p : p = Payload(Len(sizes) + 1, size)
      OBVIOUS
    <3>2. p \in {Payload(n, sz) : n \in 1..MaxPayloads, sz \in Sizes}
      <4>1. Len(sizes) + 1 \in 1..MaxPayloads
        BY <2>1, <2>3, SenderAssumption
      <4> QED
        BY <3>1, <4>1
    <3>3. [n \in DOMAIN sizes' |-> Payload(n, sizes'[n])] =
          Append([n \in DOMAIN sizes |-> Payload(n, sizes[n])], p)
      BY <2>1, <2>3, <3>1, SubmittedAppend
    <3>4. Channel!Submit(p)
      BY <2>3, <3>3, Zenon DEF Channel!Submit
    <3> QED
      BY <3>2, <3>4 DEF Channel!Next
  <2>4. CASE Receiver!OnContentRead /\ ReceiverStep
    <3>1. PICK d \in 0..Len(sizes) : ReceiverAt(d)
      BY DEF ConnectionInv, ReceiverInv
    <3>2. d + 1 \in 0..Len(sizes)
          /\ incomingQueue'.items = Append(incomingQueue.items, Payload(d + 1, sizes[d + 1]))
      BY <2>1, <2>4, <3>1, CutArrived, ContentReadStep
         DEF ConnectionInv, ReceiverInv, ReceiverStep, senderVars, socketVars
    <3>3. Len(incomingQueue.items) = d
      BY <3>1 DEF ReceiverAt, Pushed
    <3>4. sizes' = sizes
      BY <2>4 DEF Receiver!OnContentRead, Receiver!Handler, Receiver!peerVars
    <3>5. d + 1 \in DOMAIN sizes /\ d < Len(sizes)
      BY <2>1, <3>2
    <3>6. PICK sub : sub = [n \in DOMAIN sizes |-> Payload(n, sizes[n])]
      OBVIOUS
    <3>7. sub[d + 1] = Payload(d + 1, sizes[d + 1]) /\ Len(sub) = Len(sizes)
      BY <2>1, <3>5, <3>6
    <3>8. Channel!Deliver
      BY <3>2, <3>3, <3>4, <3>5, <3>6, <3>7 DEF Channel!Deliver
    <3> QED
      BY <3>8 DEF Channel!Next
  <2>5. CASE SenderStep \/ UNCHANGED connectionVars
    <3>1. UNCHANGED incomingQueue
      BY <2>5 DEF SenderStep, connectionVars, receiverVars
    <3>2. \/ sizes' = sizes
          \/ \E size \in Sizes : Len(sizes) < MaxPayloads /\ sizes' = Append(sizes, size)
      BY SenderAllows, SenderGrows DEF ConnectionInv
    <3> QED
      BY <2>2, <2>3, <3>1, <3>2
  <2>6. CASE Deliver \/ EndOfStream \/ Reset
    BY <2>2, <2>6 DEF Deliver, EndOfStream, Reset, Receiver!ConnectionEnds
  <2>7. CASE ReceiverStep /\ ~Receiver!OnContentRead
    BY <2>2, <2>7 DEF ReceiverStep, Receiver!Handlers, Receiver!StartReceiving, Receiver!OnTypeRead,
         Receiver!OnSizeRead, Receiver!OnChunkRead, Receiver!OnPayloadReceiveError,
         Receiver!Handler, Receiver!peerVars
  <2> QED
    BY <2>4, <2>5, <2>6, <2>7 DEF ConnectionNext
<1> QED
  BY <1>1, <1>2, ConnectionInvariance, PTL DEF ConnectionSpec, ImplementsChannel, Channel!Spec
=============================================================================
