--------------------------- MODULE PayloadSender ---------------------------
(***************************************************************************)
(* IPayloadSender: the sending half of a socket                            *)
(* (src/network/IPayloadSender.cpp), with the queue, the buffer and the    *)
(* offset it inherits from IPayloadHandler and the PayloadLogger below it. *)
(*                                                                         *)
(* Everything here runs on the one thread of the io_context: an action is  *)
(* one handler run to its end, and the handlers interleave with what the   *)
(* socket does.  A payload is written as a frame of three parts, each one  *)
(* an asio::async_write whose handler starts the next part; the content is *)
(* written in chunks of at most MaxBytes.  The writes do not copy: they    *)
(* point into _buf, so what reaches the wire is what _buf holds when the   *)
(* socket takes the bytes.                                                 *)
(*                                                                         *)
(* The n-th payload given to _sendPayload is represented by n, and the     *)
(* sequence sizes holds the size of its content.                           *)
(***************************************************************************)
EXTENDS Integers, Sequences, AtomicQueue, PayloadLogger, Framing

CONSTANTS
    Sizes,          \* content sizes a payload may have
    MaxBytes,       \* Defaults::MAXIMUM_BYTES_AS_NETWORK_BUFFER
    SizeModulus,    \* 2^w for the width w of size_t
    MaxPayloads,    \* bound: how many payloads are ever submitted
    Overlap         \* may _sendPayload run while a write is outstanding?

ASSUME SenderAssumption ==
    /\ Sizes \subseteq Nat
    /\ MaxBytes \in Nat \ {0}
    /\ SizeModulus \in Nat
    /\ \A s \in Sizes : s < SizeModulus
    /\ MaxBytes < SizeModulus
    /\ MaxPayloads \in Nat
    /\ Overlap \in BOOLEAN

VARIABLES
    link,               \* the TCP connection under the socket
    sizes,              \* history: the sizes of the payloads submitted
    outgoingQueue,      \* the AtomicQueue _payloadQueue points to
    buf,                \* _buf, as the payload it is a copy of
    bufContentOffset,   \* _bufContentOffset
    isProcessing,       \* _isProcessing
    writes,             \* async_writes the socket has not finished, in order
    completions,        \* finished writes whose handler has not run yet
    wire,               \* what the connection has taken so far
    popCount,           \* history: how many payloads were popped
    aborted             \* an assert() of AtomicQueue has failed

socketVars == <<link, wire>>
bufVars == <<outgoingQueue, buf, bufContentOffset, isProcessing>>
histVars == <<sizes, popCount>>
vars == <<socketVars, bufVars, writes, completions, logVars, histVars, aborted>>

\* 0 is the RawPayload{} that _buf is constructed as.
Ids == 0..MaxPayloads

SizeOf(n) == IF n = 0 THEN 0 ELSE sizes[n]

Parts == {"PAYLOAD_TYPE", "PAYLOAD_SIZE", "PAYLOAD_CONTENT"}

\* One asio::async_write: the part it writes, the payload _buf was when it
\* was started, where in the content it starts, how much it has written and
\* how much it has left to write.
Writes == [part : Parts, payload : Ids, from : Nat, done : Nat, left : Nat]

\* The result a handler is called with.
Completions == [part : Parts, length : Nat, ec : BOOLEAN]

TypeOK ==
    /\ link \in {"connecting", "open", "broken"}
    /\ sizes \in Seq(Sizes) /\ Len(sizes) <= MaxPayloads
    /\ outgoingQueue \in Queues(1..Len(sizes))
    /\ buf \in 0..Len(sizes)
    /\ bufContentOffset \in Nat
    /\ isProcessing \in BOOLEAN
    /\ writes \in Seq(Writes)
    /\ completions \in Seq(Completions)
    /\ wire \in Seq(StreamUnits)
    /\ popCount \in Nat
    /\ LoggerTypeOK
    /\ aborted \in BOOLEAN

Init ==
    /\ link = "connecting"
    /\ sizes = <<>>
    /\ outgoingQueue = EmptyQueue
    /\ buf = 0
    /\ bufContentOffset = 0
    /\ isProcessing = FALSE
    /\ writes = <<>>
    /\ completions = <<>>
    /\ wire = <<>>
    /\ popCount = 0
    /\ LoggerInit
    /\ aborted = FALSE

\* No write of this sender is under way.
Idle == writes = <<>> /\ completions = <<>>

-----------------------------------------------------------------------------
(* The socket.                                                             *)

Connected ==
    /\ link = "connecting"
    /\ link' = "open"
    /\ UNCHANGED <<wire, bufVars, writes, completions, logVars, histVars, aborted>>

\* The connection is refused, or it is reset.
Disconnected ==
    /\ link # "broken"
    /\ link' = "broken"
    /\ UNCHANGED <<wire, bufVars, writes, completions, logVars, histVars, aborted>>

Completed(write, ec) ==
    [part |-> write.part, length |-> write.done, ec |-> ec]

\* async_write of an empty buffer completes at once, whatever the socket does.
StartWrite(write, pending) ==
    IF write.left = 0
    THEN /\ completions' = Append(pending, Completed(write, FALSE))
         /\ UNCHANGED writes
    ELSE /\ writes' = Append(writes, write)
         /\ completions' = pending

\* The byte at position i (from 1) of a buffer that holds payload n.
ByteOf(n, i) == IF i <= SizeOf(n) THEN <<"byte", n, i>> ELSE Garbage

\* The next k units of a write.  The type and the size are read from _buf.
\* The content is read through a pointer into _buf.bytes: if _buf was
\* assigned since the write started, the memory may hold the payload it held
\* then, the one it holds now, or neither.
Transmitted(write, k, held) ==
    CASE write.part = "PAYLOAD_TYPE" -> << <<"type", buf, 0>> >>
      [] write.part = "PAYLOAD_SIZE" -> << <<"size", buf, SizeOf(buf)>> >>
      [] write.part = "PAYLOAD_CONTENT" ->
            [i \in 1..k |-> ByteOf(held, write.from + write.done + i)]

Held(write) ==
    IF write.payload = buf THEN {buf} ELSE {write.payload, buf, 0}

\* The socket takes some bytes of the write at the head of its queue; a write
\* that is not finished goes back to the end of the queue.
Transmit ==
    /\ ~aborted
    /\ link = "open"
    /\ writes # <<>>
    /\ LET write == Head(writes) IN
       \E k \in 1..write.left, held \in Held(write) :
          LET taken == [write EXCEPT !.done = @ + k, !.left = @ - k] IN
          /\ wire' = wire \o Transmitted(write, k, held)
          /\ IF taken.left = 0
             THEN /\ writes' = Tail(writes)
                  /\ completions' = Append(completions, Completed(taken, FALSE))
             ELSE /\ writes' = Append(Tail(writes), taken)
                  /\ UNCHANGED completions
    /\ UNCHANGED <<link, bufVars, logVars, histVars, aborted>>

\* A write on a socket that is not connected fails, having written less than
\* it should.  (Before the connection is made it may also wait for it.)
FailWrite ==
    /\ ~aborted
    /\ link # "open"
    /\ writes # <<>>
    /\ writes' = Tail(writes)
    /\ completions' = Append(completions, Completed(Head(writes), TRUE))
    /\ UNCHANGED <<socketVars, bufVars, logVars, histVars, aborted>>

-----------------------------------------------------------------------------
(* The handlers.  Each takes the completions that are left once its own is *)
(* taken off.                                                              *)

\* _sendPayloadType(): front() of queue q becomes _buf.
SendPayloadType(q, pending) ==
    /\ buf' = front(q)
    /\ traceBuf' = LET trace == logPayloadType(logNewPayload(traceBuf), front(q))
                   IN  logPayloadSize(trace, sizes'[front(q)])
    /\ StartWrite([part |-> "PAYLOAD_TYPE", payload |-> front(q), from |-> 0,
                   done |-> 0, left |-> 1], pending)

SendPayloadBytesSize(pending) ==
    StartWrite([part |-> "PAYLOAD_SIZE", payload |-> buf, from |-> 0,
                done |-> 0, left |-> 1], pending)

\* std::min of two size_t: the difference wraps around below zero.
BytesToWrite(offset) ==
    LET remaining == (SizeOf(buf) - offset) % SizeModulus
    IN  IF remaining < MaxBytes THEN remaining ELSE MaxBytes

SendPayloadBytes(offset, pending) ==
    StartWrite([part |-> "PAYLOAD_CONTENT", payload |-> buf, from |-> offset,
                done |-> 0, left |-> BytesToWrite(offset)], pending)

\* _sendPayload().  With Overlap = FALSE the callers submit a payload only
\* when no write is outstanding.
SendPayload(size) ==
    /\ ~aborted
    /\ Len(sizes) < MaxPayloads
    /\ Overlap \/ Idle
    /\ sizes' = Append(sizes, size)
    /\ outgoingQueue' = push(outgoingQueue, Len(sizes) + 1)
    /\ IF isProcessing
       THEN UNCHANGED <<buf, traceBuf, writes, completions>>
       ELSE SendPayloadType(outgoingQueue', completions)
    /\ UNCHANGED <<socketVars, bufContentOffset, isProcessing, tracesQueue,
                   speedQueue, popCount, aborted>>

\* The handler of the write that completed first runs.
Handler(part, ec) ==
    /\ ~aborted
    /\ completions # <<>>
    /\ Head(completions).part = part
    /\ Head(completions).ec = ec

\* Plausible slips: the payload that failed is given up, or no trace of the
\* attempt is committed.
OnPayloadSendErrorPopping ==
    /\ \E part \in Parts : Handler(part, TRUE)
    /\ completions' = Tail(completions)
    /\ CommitLog(traceBuf)
    /\ outgoingQueue' = pop(outgoingQueue)
    /\ UNCHANGED <<socketVars, buf, bufContentOffset, isProcessing, writes,
                   traceBuf, speedQueue, histVars, aborted>>

OnPayloadSendErrorUntraced ==
    /\ \E part \in Parts : Handler(part, TRUE)
    /\ completions' = Tail(completions)
    /\ UNCHANGED <<socketVars, bufVars, writes, logVars, histVars, aborted>>

\* Any of the three handlers with an error: _onPayloadSendError().
OnPayloadSendError ==
    /\ \E part \in Parts : Handler(part, TRUE)
    /\ completions' = Tail(completions)
    /\ CommitLog(traceBuf)
    /\ UNCHANGED <<socketVars, bufVars, writes, traceBuf, speedQueue, histVars, aborted>>

\* A plausible slip: the payload is popped as soon as its sending has begun.
OnTypeWrittenPopping ==
    /\ Handler("PAYLOAD_TYPE", FALSE)
    /\ SendPayloadBytesSize(Tail(completions))
    /\ outgoingQueue' = pop(outgoingQueue)
    /\ UNCHANGED <<socketVars, buf, bufContentOffset, isProcessing, logVars,
                   histVars, aborted>>

OnTypeWritten ==
    /\ Handler("PAYLOAD_TYPE", FALSE)
    /\ SendPayloadBytesSize(Tail(completions))
    /\ UNCHANGED <<socketVars, bufVars, logVars, histVars, aborted>>

OnSizeWritten ==
    /\ Handler("PAYLOAD_SIZE", FALSE)
    /\ SendPayloadBytes(bufContentOffset, Tail(completions))
    /\ UNCHANGED <<socketVars, bufVars, logVars, histVars, aborted>>

\* A plausible slip: the next chunk is taken from where the last one began.
OnChunkWrittenRepeating ==
    /\ Handler("PAYLOAD_CONTENT", FALSE)
    /\ LET length == Head(completions).length IN
       /\ bufContentOffset + length < SizeOf(buf)
       /\ bufContentOffset' = bufContentOffset + length
       /\ CommitPayloadSpeed(length)
       /\ SendPayloadBytes(bufContentOffset, Tail(completions))
    /\ UNCHANGED <<socketVars, outgoingQueue, buf, isProcessing, traceBuf,
                   tracesQueue, histVars, aborted>>

\* The content handler while content remains.
OnChunkWritten ==
    /\ Handler("PAYLOAD_CONTENT", FALSE)
    /\ LET length == Head(completions).length IN
       /\ bufContentOffset + length < SizeOf(buf)
       /\ bufContentOffset' = bufContentOffset + length
       /\ CommitPayloadSpeed(length)
       /\ SendPayloadBytes(bufContentOffset', Tail(completions))
    /\ UNCHANGED <<socketVars, outgoingQueue, buf, isProcessing, traceBuf,
                   tracesQueue, histVars, aborted>>

\* A plausible slip: the offset is not reset.
OnContentWrittenKeepingOffset ==
    /\ Handler("PAYLOAD_CONTENT", FALSE)
    /\ UNCHANGED <<socketVars, isProcessing, sizes, aborted>>
    /\ LET length == Head(completions).length IN
       /\ bufContentOffset + length >= SizeOf(buf)
       /\ bufContentOffset' = bufContentOffset + length
       /\ CommitPayloadSpeed(length)
    /\ outgoingQueue' = pop(outgoingQueue)
    /\ popCount' = popCount + 1
    /\ CommitLog(traceBuf)
    /\ IF outgoingQueue'.items # <<>>
       THEN SendPayloadType(outgoingQueue', Tail(completions))
       ELSE /\ completions' = Tail(completions)
            /\ UNCHANGED <<buf, traceBuf, writes>>

\* The content handler at the end of the content: pop, commit, and start over
\* if payloads are left.  pop() asserts that the queue is not empty.
OnContentWritten ==
    /\ Handler("PAYLOAD_CONTENT", FALSE)
    /\ UNCHANGED <<socketVars, isProcessing, sizes>>
    /\ LET length == Head(completions).length IN
       /\ bufContentOffset + length >= SizeOf(buf)
       /\ CommitPayloadSpeed(length)
    /\ bufContentOffset' = 0
    /\ IF Assertable(outgoingQueue)
       THEN /\ outgoingQueue' = pop(outgoingQueue)
            /\ popCount' = popCount + 1
            /\ CommitLog(traceBuf)
            /\ IF outgoingQueue'.items # <<>>
               THEN SendPayloadType(outgoingQueue', Tail(completions))
               ELSE /\ completions' = Tail(completions)
                    /\ UNCHANGED <<buf, traceBuf, writes>>
            /\ UNCHANGED aborted
       ELSE /\ aborted' = TRUE
            /\ UNCHANGED <<outgoingQueue, popCount, tracesQueue, buf, traceBuf,
                           writes, completions>>

-----------------------------------------------------------------------------
Next ==
    \/ Connected
    \/ Disconnected
    \/ Transmit
    \/ FailWrite
    \/ \E size \in Sizes : SendPayload(size)
    \/ OnPayloadSendError
    \/ OnTypeWritten
    \/ OnSizeWritten
    \/ OnChunkWritten
    \/ OnContentWritten

Spec == Init /\ [][Next]_vars

Handlers ==
    OnPayloadSendError \/ OnTypeWritten \/ OnSizeWritten \/ OnChunkWritten
        \/ OnContentWritten

-----------------------------------------------------------------------------
(* Safety.                                                                 *)

\* The peer can decode what it is sent: at any time the wire holds the frames
\* of the payloads in the order of submission, the last one possibly cut.
\* No byte is repeated, skipped or taken from another payload, also when a
\* payload is sent again because its first attempt failed.
WireHoldsFrames == IsCutStream(wire, sizes)

\* pop() comes last: a payload leaves the queue only when its whole frame is
\* on the wire, and one whose sending failed stays at the head of the queue.
PoppedWasSent ==
    /\ \A n \in 1..popCount : Range(Frame(sizes, n)) \subseteq Range(wire)
    /\ outgoingQueue.items = [i \in 1..(Len(sizes) - popCount) |-> popCount + i]

\* _onPayloadSendError() does not reset _bufContentOffset.  An offset that an
\* attempt leaves behind belongs to the payload the next attempt will send,
\* and lies inside its content: bytesSize - offset does not wrap around.
OffsetBelongsToHead ==
    bufContentOffset # 0 =>
        /\ outgoingQueue.items # <<>>
        /\ front(outgoingQueue) = buf
        /\ bufContentOffset < SizeOf(buf)

\* The assertions of AtomicQueue::front() and AtomicQueue::pop() hold.
NoAssertFailure == ~aborted

\* Every attempt to send a payload leaves one trace, in the order of the
\* attempts, whether it succeeded or failed.
OneTracePerAttempt ==
    /\ TracesNumbered
    /\ traceBuf.payloadId = Len(tracesQueue) + (IF Idle THEN 0 ELSE 1)
=============================================================================
