----------------------------- MODULE Connection -----------------------------
(***************************************************************************)
(* One direction of a TCP connection between a ClientSocket and a          *)
(* SpawnedSocket: the PayloadSender of one end, the PayloadReceiver of the *)
(* other one, and between them the bytes in flight.  The two ends run on   *)
(* threads of their own and notice the end of the connection at different  *)
(* times.  It implements PayloadChannel.                                   *)
(*                                                                         *)
(* The sender's variables have the names they have in its module, the      *)
(* receiver's that would clash begin with "recv".                          *)
(***************************************************************************)
EXTENDS PayloadSender

\* The callers submit a payload when the one before it has been written or
\* has failed.
ASSUME CallersWait == Overlap = FALSE

\* A stream cut anywhere, as the sender's module says it unit by unit, is what
\* the frames put one after the other give: evaluated on small streams.
ASSUME CutStreamsAreFrames ==
    \A s \in BoundedSeq(0..3, 3) :
        LET frames == Frames(s, Len(s))
        IN  \A k \in 0..Len(frames) : IsCutStream(SubSeq(frames, 1, k), s)

VARIABLES
    stream, recvLink, readCount, reading, recvBuf, recvOffset, recvProcessing,
    incomingQueue, recvTraceBuf, recvTraces, recvSpeeds

\* What only the receiver has, and what only the sender has: sizes, the
\* payloads submitted, belongs to both modules.
receiverVars ==
    <<stream, recvLink, readCount, reading, recvBuf, recvOffset, recvProcessing,
      incomingQueue, recvTraceBuf, recvTraces, recvSpeeds>>

senderVars == <<socketVars, bufVars, writes, completions, logVars, popCount, aborted>>

connectionVars == <<senderVars, sizes, receiverVars>>

Receiver == INSTANCE PayloadReceiver WITH
    link <- recvLink, buf <- recvBuf, bufContentOffset <- recvOffset,
    isProcessing <- recvProcessing, traceBuf <- recvTraceBuf,
    tracesQueue <- recvTraces, speedQueue <- recvSpeeds

ConnectionInit == Init /\ Receiver!Init

\* A step of the sending end: a payload is submitted, a handler runs, its
\* socket writes, connects or breaks.
SenderStep == Next /\ UNCHANGED receiverVars

\* The bytes written arrive in order.
Deliver ==
    /\ recvLink = "open"
    /\ Len(stream) < Len(wire)
    /\ stream' = Append(stream, wire[Len(stream) + 1])
    /\ UNCHANGED <<senderVars, sizes, recvLink, readCount, reading, recvBuf,
                   recvOffset, recvProcessing, incomingQueue, recvTraceBuf,
                   recvTraces, recvSpeeds>>

\* The sender's end was closed and everything it wrote has arrived.
EndOfStream ==
    /\ link = "broken"
    /\ stream = wire
    /\ Receiver!ConnectionEnds("closed")
    /\ UNCHANGED senderVars

\* The connection is lost: the receiver sees it first, last, or alone.
Reset == Receiver!ConnectionEnds("reset") /\ UNCHANGED senderVars

\* A step of the receiving end.
ReceiverStep == Receiver!Handlers /\ UNCHANGED senderVars

ConnectionNext == SenderStep \/ Deliver \/ EndOfStream \/ Reset \/ ReceiverStep

ConnectionSpec == ConnectionInit /\ [][ConnectionNext]_connectionVars

\* Both io_contexts run their handlers, and as long as nothing breaks the
\* bytes keep moving.
ConnectionFairness ==
    /\ WF_connectionVars(Handlers /\ UNCHANGED receiverVars)
    /\ WF_connectionVars(Transmit /\ UNCHANGED receiverVars)
    /\ WF_connectionVars(Deliver)
    /\ WF_connectionVars(ReceiverStep)

FairConnectionSpec == ConnectionSpec /\ ConnectionFairness

-----------------------------------------------------------------------------
\* PayloadReceiver says of its peer that it writes whole frames one after the
\* other, whatever their sizes.  IPayloadSender is such a peer: through its
\* chunks, partial writes, failures and repeated attempts it never gives the
\* receiver anything else to read, so every step here is one the receiver's
\* own specification allows.
SenderIsThePeer == Receiver!Spec

\* Payload n with content of a given size.
Payload(n, size) ==
    [type |-> n, bytesSize |-> size, bytes |-> [i \in 1..size |-> <<"byte", n, i>>]]

Channel == INSTANCE PayloadChannel WITH
    Payloads <- {Payload(n, size) : n \in 1..MaxPayloads, size \in Sizes},
    submitted <- [n \in DOMAIN sizes |-> Payload(n, sizes[n])],
    delivered <- incomingQueue.items

\* A connection implements a channel: the payloads submitted with
\* _sendPayload() are pushed by the receiver whole, once, in order, through
\* chunked writes, partial writes, failed and repeated attempts, chunked
\* reads and a connection that ends anywhere.
ImplementsChannel == Channel!Spec

\* The receiver's traces account for every payload and its bytes, with the
\* stream the real sender gives it (IPayloadReceiver.cpp:31-40, 72, 116-135).
TracesAccount == Receiver!TracesAccount

\* The two ends agree on a payload: when the sender drops it from its queue,
\* believing it sent, the receiver gets it unless the connection is lost.
PoppedIsDelivered ==
    \A n \in 1..MaxPayloads :
        popCount >= n ~> (Len(incomingQueue.items) >= n \/ recvLink # "open")
=============================================================================
