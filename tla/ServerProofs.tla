---------------------------- MODULE ServerProofs ----------------------------
(***************************************************************************)
(* Proofs about PayloadProcessor, for every set of producers and every     *)
(* number of payloads, and about Server, for every set of clients: the     *)
(* server runs its queue as PayloadProcessor says, and an application sees *)
(* each client's payloads complete and in order.                           *)
(***************************************************************************)
EXTENDS Server, SequenceTheorems, TLAPS

-----------------------------------------------------------------------------
(* The queue and the thread that takes from it.                            *)

\* The local queue holds something exactly while the inner loop runs: without
\* it, Drain could overwrite payloads and InOrder would not be inductive.
BatchOnlyWhileProcessing == state = "processing" <=> payloads # <<>>

\* A wait starts at the present and pushes only increase the count.
WaitedInThePast == waitedAt <= pushCount

IInv ==
    /\ TypeOK
    /\ BatchOnlyWhileProcessing
    /\ WaitedInThePast
    /\ InOrder
    /\ LaterPushWillNotify

\* push(): appending to the last of three places appends to the whole.
LEMMA AppendToLast ==
    ASSUME NEW S, NEW h \in Seq(S), NEW b \in Seq(S), NEW q \in Seq(S), NEW x \in S
    PROVE  h \o b \o Append(q, x) = Append(h \o b \o q, x)
<1>1. \A s \in Seq(S) : s \o Append(q, x) = Append(s \o q, x)
  OBVIOUS
<1>2. h \o b \in Seq(S)
  OBVIOUS
<1> QED
  BY <1>1, <1>2

\* Push n + 1 extends the order of the first n pushes.
LEMMA OrderExtends ==
    ASSUME NEW n \in Nat
    PROVE  Append([i \in 1..n |-> i], n + 1) = [i \in 1..(n + 1) |-> i]
<1>1. [i \in 1..n |-> i] \in Seq(Nat) /\ Len([i \in 1..n |-> i]) = n
  OBVIOUS
<1> QED
  BY <1>1

\* The processing loop: moving the head of the local queue to what is handled
\* keeps the concatenation.
LEMMA MoveHead ==
    ASSUME NEW S, NEW h \in Seq(S), NEW b \in Seq(S), b # <<>>
    PROVE  /\ Append(h, Head(b)) \o Tail(b) = h \o b
           /\ Append(h, Head(b)) \in Seq(S)
           /\ Tail(b) \in Seq(S)
<1>1. Append(h, Head(b)) \in Seq(S) /\ Tail(b) \in Seq(S)
  BY HeadTailProperties, AppendProperties
<1>2. Append(h, Head(b)) \o Tail(b) = h \o b
  OBVIOUS
<1> QED
  BY <1>1, <1>2

-----------------------------------------------------------------------------
\* A new AtomicQueue and a thread that has not called processPayloadQueue().
LEMMA InitIInv == Init => IInv
BY MaxPayloadsAssumption
   DEF Init, IInv, TypeOK, BatchOnlyWhileProcessing, WaitedInThePast, InOrder,
       LaterPushWillNotify, PushOrder, EmptyQueue, Queues, States

\* Every step of push() and of processPayloadQueue() keeps the invariant.
LEMMA StepIInv == IInv /\ [Next]_vars => IInv'
<1> SUFFICES ASSUME IInv, [Next]_vars PROVE IInv'
  OBVIOUS
<1> USE MaxPayloadsAssumption DEF IInv, Queues
<1>1. ASSUME NEW p \in Producers, PushLocked(p) PROVE IInv'
  <2> USE <1>1 DEF PushLocked
  <2>1. pushCount + 1 \in Ids /\ pushCount \in Nat
    BY DEF TypeOK, Ids
  <2>2. TypeOK'
    BY <2>1 DEF TypeOK, push, Ids
  <2>3. InOrder'
    <3>1. handled \in Seq(Ids) /\ payloads \in Seq(Ids) /\ queue.items \in Seq(Ids)
      BY DEF TypeOK
    <3>2. handled \o payloads \o queue.items = [i \in 1..pushCount |-> i]
      BY DEF InOrder, PushOrder
    <3> DEFINE items == queue.items
               next == pushCount + 1
    <3>3. items \in Seq(Ids) /\ next \in Ids
      BY <2>1, <3>1
    <3>4. handled \o payloads \o Append(items, next)
            = Append(handled \o payloads \o items, next)
      <4>1. PICK q \in Seq(Ids), x \in Ids : q = items /\ x = next
        BY <3>3
      <4>2. handled \o payloads \o Append(q, x) = Append(handled \o payloads \o q, x)
        BY ONLY <3>1, q \in Seq(Ids), x \in Ids, AppendToLast
      <4> QED
        BY <4>1, <4>2
    <3>5. Append([i \in 1..pushCount |-> i], pushCount + 1)
            = [i \in 1..(pushCount + 1) |-> i]
      BY <2>1, OrderExtends
    <3> QED
      BY <3>2, <3>4, <3>5 DEF InOrder, PushOrder, push
  <2>4. LaterPushWillNotify'
    BY DEF LaterPushWillNotify
  <2>5. WaitedInThePast' /\ BatchOnlyWhileProcessing'
    BY DEF TypeOK, WaitedInThePast, BatchOnlyWhileProcessing
  <2> QED
    BY <2>2, <2>3, <2>4, <2>5
<1>2. ASSUME NEW p \in Producers, NotifyAll(p) PROVE IInv'
  <2> USE <1>2 DEF NotifyAll
  <2>1. TypeOK'
    BY DEF TypeOK, States
  <2>2. InOrder' /\ WaitedInThePast'
    BY DEF InOrder, PushOrder, WaitedInThePast
  <2>3. LaterPushWillNotify' /\ BatchOnlyWhileProcessing'
    BY DEF LaterPushWillNotify, BatchOnlyWhileProcessing
  <2> QED
    BY <2>1, <2>2, <2>3
<1>3. CASE Call
  BY <1>3 DEF Call, TypeOK, States, BatchOnlyWhileProcessing, WaitedInThePast,
              InOrder, PushOrder, LaterPushWillNotify
<1>4. CASE WaitToBeFilled
  <2> USE <1>4 DEF WaitToBeFilled
  <2>1. TypeOK' /\ WaitedInThePast' /\ LaterPushWillNotify'
    BY DEF TypeOK, States, WaitedInThePast, LaterPushWillNotify
  <2>2. InOrder' /\ BatchOnlyWhileProcessing'
    BY DEF InOrder, PushOrder, BatchOnlyWhileProcessing
  <2> QED
    BY <2>1, <2>2
<1>5. CASE SpuriousWakeup
  BY <1>5 DEF SpuriousWakeup, TypeOK, States, BatchOnlyWhileProcessing,
              WaitedInThePast, InOrder, PushOrder, LaterPushWillNotify
<1>6. CASE Drain
  <2> USE <1>6 DEF Drain
  <2>1. TypeOK'
    BY DEF TypeOK, States, AfterBatch, popIntoQueue
  <2>2. InOrder'
    <3>1. payloads = <<>>
      BY DEF BatchOnlyWhileProcessing
    <3>2. handled \o queue.items \o <<>> = handled \o payloads \o queue.items
      BY <3>1 DEF TypeOK
    <3> QED
      BY <3>2 DEF InOrder, PushOrder, popIntoQueue
  <2>3. BatchOnlyWhileProcessing' /\ WaitedInThePast' /\ LaterPushWillNotify'
    BY DEF BatchOnlyWhileProcessing, WaitedInThePast, LaterPushWillNotify, AfterBatch
  <2> QED
    BY <2>1, <2>2, <2>3
<1>7. CASE Process
  <2> USE <1>7 DEF Process
  <2>1. /\ handled' \o payloads' = handled \o payloads
        /\ handled' \in Seq(Ids)
        /\ payloads' \in Seq(Ids)
    <3>1. payloads # <<>>
      BY DEF BatchOnlyWhileProcessing
    <3>2. handled \in Seq(Ids) /\ payloads \in Seq(Ids)
      BY DEF TypeOK
    <3> QED
      BY <3>1, <3>2, MoveHead
  <2>2. TypeOK'
    BY <2>1 DEF TypeOK, States, AfterBatch
  <2>3. InOrder'
    BY <2>1 DEF InOrder, PushOrder
  <2>4. BatchOnlyWhileProcessing' /\ WaitedInThePast' /\ LaterPushWillNotify'
    BY DEF BatchOnlyWhileProcessing, WaitedInThePast, LaterPushWillNotify, AfterBatch
  <2> QED
    BY <2>2, <2>3, <2>4
<1>8. CASE ProcessAndBreak
  <2> USE <1>8 DEF ProcessAndBreak
  <2>1. payloads # <<>> /\ payloads \in Seq(Ids) /\ handled \in Seq(Ids)
    BY DEF BatchOnlyWhileProcessing, TypeOK
  <2>2. Tail(payloads) \in Seq(Ids) /\ handled \o payloads \in Seq(Ids)
    BY <2>1, HeadTailProperties, ConcatProperties
  <2>3. {Tail(payloads)[i] : i \in DOMAIN Tail(payloads)} \subseteq Ids
    BY <2>2
  <2>4. TypeOK'
    BY <2>2, <2>3 DEF TypeOK, States
  <2>5. handled' \o payloads' = handled \o payloads
    BY <2>2
  <2>6. InOrder'
    BY <2>5 DEF InOrder, PushOrder
  <2>7. BatchOnlyWhileProcessing' /\ WaitedInThePast' /\ LaterPushWillNotify'
    BY DEF BatchOnlyWhileProcessing, WaitedInThePast, LaterPushWillNotify
  <2> QED
    BY <2>4, <2>6, <2>7
<1>9. CASE UNCHANGED vars
  BY <1>9 DEF vars, TypeOK, BatchOnlyWhileProcessing, WaitedInThePast, InOrder,
              PushOrder, LaterPushWillNotify
<1> QED
  BY <1>1, <1>2, <1>3, <1>4, <1>5, <1>6, <1>7, <1>8, <1>9 DEF Next

\* The inductive invariant holds in every behaviour of the hand-over.
THEOREM Invariance == Spec => []IInv
BY InitIInv, StepIInv, PTL DEF Spec

\* AtomicQueue and processPayloadQueue() keep their state well typed.
THEOREM TypeCorrect == Spec => []TypeOK
BY Invariance, PTL DEF IInv

\* No payload is lost, duplicated or overtaken between push(),
\* popIntoQueue() and the processing loop, whatever the interleaving and
\* however often the callback stops the loop.
THEOREM HandOverInOrder == Spec => []InOrder
BY Invariance, PTL DEF IInv

\* A payload pushed while the processing thread sleeps in waitToBeFilled()
\* always still has a notification to come: only pushes made before the wait
\* can lose theirs.
THEOREM OnlyEarlierPushesStranded == Spec => []LaterPushWillNotify
BY Invariance, PTL DEF IInv

-----------------------------------------------------------------------------
(* The server.                                                             *)

SocketType == [spawnId : Nat, client : Clients]

OriginType == [spawnId : Nat, number : Nat]

ServerTypeOK ==
    /\ clients \in [Clients -> {"away", "pending", "connected", "gone"}]
    /\ spawnCount \in Nat
    /\ spawnedSockets \in Seq(SocketType)
    /\ received \in [Clients -> Nat]
    /\ origins \in Seq(OriginType)

\* _spawnCount has been given to every socket before it, never twice, and a
\* client has one socket.
SocketsNumbered ==
    \A i, j \in DOMAIN spawnedSockets :
        /\ spawnedSockets[i].spawnId <= spawnCount
        /\ i # j => /\ spawnedSockets[i].spawnId # spawnedSockets[j].spawnId
                    /\ spawnedSockets[i].client # spawnedSockets[j].client

\* A client that was not accepted has no socket and has sent nothing.
OnlyAcceptedListed ==
    \A c \in Clients : clients[c] \in {"away", "pending"} =>
        /\ received[c] = 0
        /\ \A i \in DOMAIN spawnedSockets : spawnedSockets[i].client # c

\* Every payload pushed has an origin, under a spawnId already given.
OriginsKnown ==
    /\ Len(origins) = pushCount
    /\ \A n \in DOMAIN origins : origins[n].spawnId <= spawnCount

\* The pushes under one spawnId.
PushesUnder(spawnId) == {n \in DOMAIN origins : origins[n].spawnId = spawnId}

\* What the receiver of one socket has pushed: the payloads of its client, in
\* the client's order.
SocketPushesInOrder(socket) ==
    /\ {origins[n].number : n \in PushesUnder(socket.spawnId)}
           = 1..received[socket.client]
    /\ \A m, n \in PushesUnder(socket.spawnId) :
           m < n => origins[m].number < origins[n].number

PushesInOrder ==
    \A i \in DOMAIN spawnedSockets : SocketPushesInOrder(spawnedSockets[i])

\* The part of the inductive invariant that is about the sockets.
SocketInv ==
    /\ ServerTypeOK
    /\ SocketsNumbered
    /\ OnlyAcceptedListed
    /\ OriginsKnown
    /\ PushesInOrder

ServerInv == IInv /\ SocketInv

-----------------------------------------------------------------------------
\* The handlers and the processing thread do with the queue only what
\* PayloadProcessor allows, the io_context's thread being its one producer.
LEMMA ServerStepIsProcessorStep == [ServerNext]_serverVars => [Next]_vars
<1> USE DEF serverVars, socketVars, acceptVars
<1>1. ASSUME NEW c \in Clients, Connect(c) \/ OnAccept(c) PROVE UNCHANGED vars
  BY <1>1 DEF Connect, OnAccept
<1>2. ASSUME OnAcceptError PROVE UNCHANGED vars
  BY <1>2 DEF OnAcceptError
<1>3. ASSUME NEW socket \in Sockets, OnPayloadReceived(socket) PROVE Next
  BY <1>3, ServerAssumption DEF OnPayloadReceived, Next
<1>4. ASSUME NEW socket \in Sockets, OnReceiveError(socket) PROVE UNCHANGED vars
  BY <1>4 DEF OnReceiveError
<1>5. ASSUME OnPushed PROVE Next
  BY <1>5, ServerAssumption DEF OnPushed, Next
<1>6. ASSUME ProcessingStep PROVE Next
  BY <1>6 DEF ProcessingStep, Next
<1> QED
  BY <1>1, <1>2, <1>3, <1>4, <1>5, <1>6 DEF ServerNext

\* The server's queue is a PayloadProcessor: what is proved of every
\* behaviour of that specification holds in the server too.
THEOREM ServerImplementsProcessor == ServerSpec => Spec
<1>1. ServerInit => Init
  BY DEF ServerInit
<1> QED
  BY <1>1, ServerStepIsProcessorStep, PTL DEF ServerSpec, Spec

-----------------------------------------------------------------------------
\* The constructor of the server: no sockets, nothing received.
LEMMA InitSocketInv == ServerInit => SocketInv
BY DEF ServerInit, Init, SocketInv, ServerTypeOK, SocketsNumbered,
       OnlyAcceptedListed, OriginsKnown, PushesInOrder

\* The fields of a listed socket and of an origin.
LEMMA Fields ==
    ASSUME ServerTypeOK
    PROVE  /\ DOMAIN spawnedSockets = 1..Len(spawnedSockets)
           /\ Len(spawnedSockets) \in Nat
           /\ \A i \in DOMAIN spawnedSockets :
                  /\ spawnedSockets[i] \in SocketType
                  /\ spawnedSockets[i].spawnId \in Nat
                  /\ spawnedSockets[i].client \in Clients
           /\ DOMAIN origins = 1..Len(origins)
           /\ Len(origins) \in Nat
           /\ \A n \in DOMAIN origins :
                  /\ origins[n].spawnId \in Nat
                  /\ origins[n].number \in Nat
<1>1. spawnedSockets \in Seq(SocketType) /\ origins \in Seq(OriginType)
  BY DEF ServerTypeOK
<1>2. \A i \in DOMAIN spawnedSockets : spawnedSockets[i] \in SocketType
  BY <1>1
<1>3. \A n \in DOMAIN origins : origins[n] \in OriginType
  BY <1>1
<1> QED
  BY <1>1, <1>2, <1>3 DEF SocketType, OriginType

\* A step that leaves the sockets and the pushes alone: the processing
\* thread, and the notification after a push.
LEMMA SocketsStay ==
    SocketInv /\ UNCHANGED <<socketVars, pushCount>> => SocketInv'
<1> SUFFICES ASSUME SocketInv, UNCHANGED <<socketVars, pushCount>> PROVE SocketInv'
  OBVIOUS
<1> USE DEF socketVars, acceptVars, SocketInv
<1>1. ServerTypeOK' /\ SocketsNumbered' /\ OnlyAcceptedListed'
  BY DEF ServerTypeOK, SocketsNumbered, OnlyAcceptedListed
<1>2. OriginsKnown' /\ PushesInOrder'
  BY DEF OriginsKnown, PushesInOrder, SocketPushesInOrder, PushesUnder
<1> QED
  BY <1>1, <1>2

\* A client connects.
LEMMA ConnectSocketInv ==
    ASSUME SocketInv, NEW c \in Clients, Connect(c)
    PROVE  SocketInv'
<1> USE DEF Connect, acceptVars, vars, SocketInv
<1>1. ServerTypeOK'
  BY DEF ServerTypeOK
<1>2. SocketsNumbered' /\ OriginsKnown' /\ PushesInOrder'
  BY DEF SocketsNumbered, OriginsKnown, PushesInOrder, SocketPushesInOrder, PushesUnder
<1>3. OnlyAcceptedListed'
  BY DEF ServerTypeOK, OnlyAcceptedListed
<1> QED
  BY <1>1, <1>2, <1>3

\* The receiver of a socket fails.
LEMMA ReceiveErrorSocketInv ==
    ASSUME SocketInv, NEW socket \in Sockets, OnReceiveError(socket)
    PROVE  SocketInv'
<1> USE DEF OnReceiveError, acceptVars, vars, SocketInv
<1>1. socket.client \in Clients
  BY Fields DEF Sockets
<1>2. ServerTypeOK'
  BY <1>1 DEF ServerTypeOK
<1>3. SocketsNumbered' /\ OriginsKnown' /\ PushesInOrder'
  BY DEF SocketsNumbered, OriginsKnown, PushesInOrder, SocketPushesInOrder, PushesUnder
<1>4. OnlyAcceptedListed'
  BY <1>1 DEF ServerTypeOK, OnlyAcceptedListed
<1> QED
  BY <1>2, <1>3, <1>4

\* Accepting fails: the number used up belongs to no socket.
LEMMA AcceptErrorSocketInv ==
    ASSUME SocketInv, OnAcceptError
    PROVE  SocketInv'
<1> USE DEF OnAcceptError, vars, SocketInv
<1>1. ServerTypeOK' /\ OnlyAcceptedListed'
  BY DEF ServerTypeOK, OnlyAcceptedListed
<1>2. SocketsNumbered' /\ OriginsKnown'
  <2>1. spawnCount \in Nat /\ \A a \in Nat : a <= spawnCount => a <= spawnCount + 1
    BY DEF ServerTypeOK
  <2> QED
    BY <2>1, Fields DEF SocketsNumbered, OriginsKnown
<1>4. PushesInOrder'
  BY DEF PushesInOrder, SocketPushesInOrder, PushesUnder
<1> QED
  BY <1>1, <1>2, <1>4

\* A client is accepted: its spawnId is new, so nothing was pushed under it.
LEMMA AcceptSocketInv ==
    ASSUME SocketInv, NEW c \in Clients, OnAccept(c)
    PROVE  SocketInv'
<1> USE DEF OnAccept, vars, SocketInv
<1> DEFINE socket == [spawnId |-> spawnCount + 1, client |-> c]
<1>1. /\ spawnedSockets \in Seq(SocketType)
      /\ spawnCount \in Nat
      /\ socket \in SocketType
      /\ socket.spawnId = spawnCount + 1
      /\ socket.client = c
      /\ spawnedSockets' = Append(spawnedSockets, socket)
      /\ spawnCount' = spawnCount + 1
  BY DEF ServerTypeOK, SocketType
<1> HIDE DEF socket
<1>2. /\ Len(spawnedSockets') = Len(spawnedSockets) + 1
      /\ DOMAIN spawnedSockets' = 1..(Len(spawnedSockets) + 1)
      /\ DOMAIN spawnedSockets = 1..Len(spawnedSockets)
      /\ Len(spawnedSockets) \in Nat
      /\ \A i \in DOMAIN spawnedSockets : spawnedSockets'[i] = spawnedSockets[i]
      /\ spawnedSockets'[Len(spawnedSockets) + 1] = socket
      /\ spawnedSockets' \in Seq(SocketType)
  BY <1>1
<1>3. \A i \in DOMAIN spawnedSockets' :
         \/ i \in DOMAIN spawnedSockets /\ spawnedSockets'[i] = spawnedSockets[i]
         \/ i = Len(spawnedSockets) + 1 /\ spawnedSockets'[i] = socket
  BY <1>2
<1>4. \A i \in DOMAIN spawnedSockets :
         /\ spawnedSockets[i].client # c
         /\ spawnedSockets[i].spawnId \in Nat
         /\ spawnedSockets[i].spawnId <= spawnCount
  BY Fields DEF OnlyAcceptedListed, SocketsNumbered
<1>5. ServerTypeOK'
  BY <1>1, <1>2 DEF ServerTypeOK
<1>6. SocketsNumbered'
  <2>1. SUFFICES ASSUME NEW i \in DOMAIN spawnedSockets', NEW j \in DOMAIN spawnedSockets'
                 PROVE  /\ spawnedSockets'[i].spawnId <= spawnCount + 1
                        /\ i # j =>
                             /\ spawnedSockets'[i].spawnId # spawnedSockets'[j].spawnId
                             /\ spawnedSockets'[i].client # spawnedSockets'[j].client
    BY <1>1 DEF SocketsNumbered
  <2>2. CASE i \in DOMAIN spawnedSockets /\ j \in DOMAIN spawnedSockets
    BY <2>2, <1>1, <1>2, <1>4 DEF SocketsNumbered
  <2>3. CASE i = Len(spawnedSockets) + 1
    BY <2>3, <1>1, <1>2, <1>3, <1>4
  <2>4. CASE j = Len(spawnedSockets) + 1
    BY <2>4, <1>1, <1>2, <1>3, <1>4
  <2> QED
    BY <2>2, <2>3, <2>4, <1>3
<1>7. OnlyAcceptedListed'
  BY <1>1, <1>3 DEF OnlyAcceptedListed, ServerTypeOK
<1>8. OriginsKnown'
  <2>1. spawnCount \in Nat /\ \A a \in Nat : a <= spawnCount => a <= spawnCount + 1
    BY DEF ServerTypeOK
  <2> QED
    BY <2>1, Fields DEF OriginsKnown
<1>9. PushesInOrder'
  <2>2. SocketPushesInOrder(socket)
    <3>1. PushesUnder(spawnCount + 1) = {}
      BY <1>1, Fields DEF PushesUnder, OriginsKnown
    <3>2. received[c] = 0
      BY DEF OnlyAcceptedListed
    <3> QED
      BY <3>1, <3>2, <1>1 DEF SocketPushesInOrder
  <2>3. \A i \in DOMAIN spawnedSockets' : SocketPushesInOrder(spawnedSockets'[i])
    BY <2>2, <1>3 DEF PushesInOrder
  <2>4. \A i \in DOMAIN spawnedSockets' : SocketPushesInOrder(spawnedSockets[i])'
    BY <2>3 DEF SocketPushesInOrder, PushesUnder
  <2> QED
    BY <2>4 DEF PushesInOrder
<1> QED
  BY <1>5, <1>6, <1>7, <1>8, <1>9

\* A receiver pushes a payload: it is the next one of the socket's client, and
\* no other socket has this client or this spawnId.
LEMMA PayloadReceivedSocketInv ==
    ASSUME SocketInv, pushCount \in Nat, NEW socket \in Sockets, OnPayloadReceived(socket)
    PROVE  SocketInv'
<1> USE DEF SocketInv
<1> DEFINE c == socket.client
           L == Len(origins)
           r == received[c]
           new == [spawnId |-> socket.spawnId, number |-> r + 1]
<1>1. /\ UNCHANGED <<clients, spawnCount, spawnedSockets>>
      /\ received' = [received EXCEPT ![c] = r + 1]
      /\ origins' = Append(origins, [spawnId |-> socket.spawnId, number |-> received'[c]])
      /\ pushCount' = pushCount + 1
      /\ clients[c] = "connected"
  BY DEF OnPayloadReceived, PushLocked, acceptVars
<1>2. PICK k \in DOMAIN spawnedSockets : socket = spawnedSockets[k]
  BY DEF Sockets
<1>3. /\ c \in Clients
      /\ socket.spawnId \in Nat
      /\ socket.spawnId <= spawnCount
      /\ received \in [Clients -> Nat]
      /\ r \in Nat
      /\ origins \in Seq(OriginType)
      /\ L \in Nat
      /\ DOMAIN origins = 1..L
  BY <1>2, Fields DEF SocketsNumbered, ServerTypeOK
<1>4. /\ origins' = Append(origins, new)
      /\ received' \in [Clients -> Nat]
      /\ received'[c] = r + 1
      /\ \A d \in Clients : d # c => received'[d] = received[d]
  BY <1>1, <1>3
<1>5. new \in OriginType /\ new.spawnId = socket.spawnId /\ new.number = r + 1
  BY <1>3 DEF OriginType
<1> HIDE DEF new, L, r, c
<1>6. /\ origins' \in Seq(OriginType)
      /\ Len(origins') = L + 1
      /\ DOMAIN origins' = 1..(L + 1)
      /\ \A n \in 1..L : origins'[n] = origins[n]
      /\ origins'[L + 1] = new
  BY <1>3, <1>4, <1>5 DEF L
<1>7. ServerTypeOK'
  BY <1>1, <1>4, <1>6 DEF ServerTypeOK
<1>8. SocketsNumbered'
  BY <1>1 DEF SocketsNumbered
<1>9. OnlyAcceptedListed'
  BY <1>1, <1>4, <1>3 DEF OnlyAcceptedListed
<1>10. OriginsKnown'
  <2>1. Len(origins') = pushCount'
    BY <1>1, <1>6 DEF OriginsKnown, L
  <2>2. \A n \in 1..(L + 1) : n \in 1..L \/ n = L + 1
    BY <1>3
  <2> QED
    BY <2>1, <2>2, <1>1, <1>3, <1>5, <1>6 DEF OriginsKnown
<1>11. ASSUME NEW i \in DOMAIN spawnedSockets, i # k
       PROVE  SocketPushesInOrder(spawnedSockets[i])'
  <2> DEFINE s == spawnedSockets[i]
  <2>1. s.spawnId # socket.spawnId /\ s.client # c /\ s.client \in Clients
    BY <1>2, <1>11, Fields DEF SocketsNumbered, c
  <2>2. SocketPushesInOrder(s)
    BY DEF PushesInOrder
  <2>3. received'[s.client] = received[s.client]
    BY <2>1, <1>4
  <2>4. \A n : n \in PushesUnder(s.spawnId)' <=> n \in PushesUnder(s.spawnId)
    <3>1. \A n \in 1..(L + 1) : n \in 1..L \/ n = L + 1
      BY <1>3
    <3>2. \A n \in 1..L : n \in 1..(L + 1)
      BY <1>3
    <3> QED
      BY <3>1, <3>2, <2>1, <1>1, <1>3, <1>5, <1>6 DEF PushesUnder
  <2>5. PushesUnder(s.spawnId)' = PushesUnder(s.spawnId)
    BY <2>4
  <2>6. \A n \in PushesUnder(s.spawnId) : origins'[n] = origins[n]
    BY <1>3, <1>6 DEF PushesUnder
  <2>7. {origins'[n].number : n \in PushesUnder(s.spawnId)}
          = {origins[n].number : n \in PushesUnder(s.spawnId)}
    BY <2>6
  <2>8. /\ {origins'[n].number : n \in PushesUnder(s.spawnId)} = 1..received'[s.client]
        /\ \A m, n \in PushesUnder(s.spawnId) :
               m < n => origins'[m].number < origins'[n].number
    BY <2>2, <2>3, <2>6, <2>7 DEF SocketPushesInOrder
  <2>9. spawnedSockets'[i] = s
    BY <1>1
  <2> QED
    BY <2>5, <2>8, <2>9, Zenon DEF SocketPushesInOrder
<1>12. SocketPushesInOrder(spawnedSockets[k])'
  <2> DEFINE P == PushesUnder(socket.spawnId)
  <2>1. /\ {origins[n].number : n \in P} = 1..r
        /\ \A m, n \in P : m < n => origins[m].number < origins[n].number
    BY <1>2 DEF PushesInOrder, SocketPushesInOrder, r, c
  <2>2. P \subseteq 1..L
    BY <1>3 DEF PushesUnder
  <2>3. PushesUnder(spawnedSockets[k].spawnId)' = P \union {L + 1}
    <3>1. \A n : n \in PushesUnder(spawnedSockets[k].spawnId)' <=> n \in P \union {L + 1}
      <4>1. \A n \in 1..(L + 1) : n \in 1..L \/ n = L + 1
        BY <1>3
      <4>2. \A n \in 1..L : n \in 1..(L + 1)
        BY <1>3
      <4>3. L + 1 \in 1..(L + 1)
        BY <1>3
      <4> QED
        BY <4>1, <4>2, <4>3, <1>1, <1>2, <1>3, <1>5, <1>6 DEF PushesUnder
    <3> QED
      BY <3>1
  <2>4. \A n \in P : origins'[n] = origins[n] /\ origins[n].number \in 1..r
    BY <2>1, <2>2, <1>6
  <2>5. {origins'[n].number : n \in P \union {L + 1}} = 1..(r + 1)
    <3>1. {origins'[n].number : n \in P \union {L + 1}}
            = {origins[n].number : n \in P} \union {r + 1}
      <4> HIDE DEF P
      <4> QED
        BY <2>4, <1>5, <1>6
    <3>2. (1..r) \union {r + 1} = 1..(r + 1)
      BY <1>3
    <3> QED
      BY <3>1, <3>2, <2>1
  <2>6. \A m, n \in P \union {L + 1} : m < n => origins'[m].number < origins'[n].number
    <3> SUFFICES ASSUME NEW m \in P \union {L + 1}, NEW n \in P \union {L + 1}, m < n
                 PROVE  origins'[m].number < origins'[n].number
      OBVIOUS
    <3>1. m \in P
      BY <2>2, <1>3
    <3>2. CASE n \in P
      BY <3>1, <3>2, <2>1, <2>4
    <3>3. CASE n = L + 1
      <4>1. origins'[n].number = r + 1
        BY <3>3, <1>5, <1>6
      <4>2. origins'[m].number \in 1..r
        BY <3>1, <2>4, Zenon
      <4> QED
        BY <4>1, <4>2, <1>3
    <3> QED
      BY <3>2, <3>3
  <2>7. received'[spawnedSockets'[k].client] = r + 1
    BY <1>1, <1>2, <1>4 DEF c
  <2> QED
    BY <2>3, <2>5, <2>6, <2>7 DEF SocketPushesInOrder
<1>13. PushesInOrder'
  BY <1>11, <1>12, <1>1 DEF PushesInOrder
<1> QED
  BY <1>7, <1>8, <1>9, <1>10, <1>13

-----------------------------------------------------------------------------
\* Every handler of the server and every step of the processing thread keeps
\* what is known of the sockets.
LEMMA StepSocketInv == ServerInv /\ [ServerNext]_serverVars => SocketInv'
<1> SUFFICES ASSUME ServerInv, [ServerNext]_serverVars PROVE SocketInv'
  OBVIOUS
<1> USE DEF ServerInv
<1>1. pushCount \in Nat
  BY MaxPayloadsAssumption DEF IInv, TypeOK
<1>2. ASSUME NEW c \in Clients, Connect(c) \/ OnAccept(c) PROVE SocketInv'
  BY <1>2, ConnectSocketInv, AcceptSocketInv
<1>3. CASE OnAcceptError
  BY <1>3, AcceptErrorSocketInv
<1>4. ASSUME NEW socket \in Sockets, OnPayloadReceived(socket) \/ OnReceiveError(socket)
      PROVE  SocketInv'
  BY <1>4, <1>1, PayloadReceivedSocketInv, ReceiveErrorSocketInv
<1>5. CASE OnPushed
  BY <1>5, SocketsStay DEF OnPushed, NotifyAll
<1>6. CASE ProcessingStep
  BY <1>6, SocketsStay DEF ProcessingStep, Call, WaitToBeFilled, SpuriousWakeup, Drain,
                           Process, ProcessAndBreak
<1>7. CASE UNCHANGED serverVars
  BY <1>7, SocketsStay DEF serverVars, vars
<1> QED
  BY <1>2, <1>3, <1>4, <1>5, <1>6, <1>7 DEF ServerNext

\* The inductive invariant holds in every behaviour of the server.
THEOREM ServerInvariance == ServerSpec => []ServerInv
<1>1. ServerInit => ServerInv
  BY InitSocketInv, InitIInv DEF ServerInit, ServerInv
<1>2. ServerInv /\ [ServerNext]_serverVars => ServerInv'
  BY StepSocketInv, ServerStepIsProcessorStep, StepIInv DEF ServerInv
<1> QED
  BY <1>1, <1>2, PTL DEF ServerSpec

\* What was pushed in order is shown in order: the hand-over keeps the places.
LEMMA ShownInOrder == ServerInv => ClientOrderKept
<1> SUFFICES ASSUME ServerInv, NEW socket \in Sockets
             PROVE  LET places == PlacesUnder(socket.spawnId)
                    IN  /\ {NumberAt(k) : k \in places} = 1..received[socket.client]
                        /\ \A j, k \in places : j < k => NumberAt(j) < NumberAt(k)
  BY DEF ClientOrderKept
<1>1. pushCount \in Nat
  BY MaxPayloadsAssumption DEF ServerInv, IInv, TypeOK
<1>2. Shown = [i \in 1..pushCount |-> i]
  BY DEF ServerInv, IInv, InOrder, PushOrder, Shown
<1>3. DOMAIN Shown = DOMAIN origins /\ \A k \in DOMAIN Shown : Shown[k] = k
  BY <1>1, <1>2, Fields DEF ServerInv, SocketInv, OriginsKnown
<1>4. PlacesUnder(socket.spawnId) = PushesUnder(socket.spawnId)
  BY <1>3 DEF PlacesUnder, PushesUnder
<1>5. \A k \in PushesUnder(socket.spawnId) : NumberAt(k) = origins[k].number
  BY <1>3 DEF PushesUnder, NumberAt
<1>6. SocketPushesInOrder(socket)
  BY DEF ServerInv, SocketInv, PushesInOrder, Sockets
<1> QED
  BY <1>4, <1>5, <1>6 DEF SocketPushesInOrder

\* Under a spawnId an application sees exactly what one client has sent, in
\* that client's order, whatever the interleaving of receivers, accept errors,
\* processing and breaks.
THEOREM ServerKeepsClientOrder == ServerSpec => []ClientOrderKept
BY ServerInvariance, ShownInOrder, PTL
=============================================================================
