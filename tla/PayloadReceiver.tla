-------------------------- MODULE PayloadReceiver --------------------------
(***************************************************************************)
(* IPayloadReceiver: the receiving half of a socket                        *)
(* (src/network/IPayloadReceiver.cpp), with the queue, the buffer and the  *)
(* offset it inherits from IPayloadHandler and the PayloadLogger below it. *)
(*                                                                         *)
(* The peer writes the frames of its payloads, in order; the connection    *)
(* delivers the stream unit by unit and may end anywhere in it.  One       *)
(* asio::async_read is outstanding at a time, each handler starting the    *)
(* next one; an action is one handler run to its end, taken when what its  *)
(* read asked for has arrived.                                             *)
(***************************************************************************)
EXTENDS Integers, Sequences, AtomicQueue, PayloadLogger, Framing

CONSTANTS
    Sizes,          \* content sizes a payload may have
    MaxBytes,       \* Defaults::MAXIMUM_BYTES_AS_NETWORK_BUFFER
    MaxPayloads     \* bound: how many payloads the peer ever sends
                    \* (PayloadSender, the peer, says what is assumed of them)

VARIABLES
    sizes,              \* history: the sizes of the payloads the peer sends
    stream,             \* what has arrived of the frames of these payloads
    link,               \* the connection
    readCount,          \* how much of the stream the reads have consumed
    reading,            \* the part the outstanding async_read is for
    buf,                \* _buf
    bufContentOffset,   \* _bufContentOffset
    isProcessing,       \* _isProcessing
    incomingQueue       \* the AtomicQueue _payloadQueue points to

peerVars == <<sizes, stream, link>>
vars == <<peerVars, readCount, reading, buf, bufContentOffset, isProcessing,
          incomingQueue, logVars>>

Init ==
    /\ sizes = <<>>
    /\ stream = <<>>
    /\ link = "open"
    /\ readCount = 0
    /\ reading = "nothing"
    /\ buf = [type |-> 0, bytesSize |-> 0, bytes |-> <<>>]
    /\ bufContentOffset = 0
    /\ isProcessing = FALSE
    /\ incomingQueue = EmptyQueue
    /\ LoggerInit

-----------------------------------------------------------------------------
(* The peer and the connection.                                            *)

\* Also when the connection has ended: then nothing of it arrives.
PeerSends(size) ==
    /\ Len(sizes) < MaxPayloads
    /\ sizes' = Append(sizes, size)
    /\ UNCHANGED <<stream, link, readCount, reading, buf,
                   bufContentOffset, isProcessing, incomingQueue, logVars>>

Arrive ==
    /\ link = "open"
    /\ LET unit == NextUnit(sizes, stream) IN
       /\ unit[2] <= Len(sizes)
       /\ stream' = Append(stream, unit)
    /\ UNCHANGED <<sizes, link, readCount, reading, buf, bufContentOffset,
                   isProcessing, incomingQueue, logVars>>

\* An orderly end: what has arrived can still be read, the rest never comes.
\* A reset: reads fail from now on.
ConnectionEnds(how) ==
    /\ link = "open"
    /\ link' = how
    /\ UNCHANGED <<sizes, stream, readCount, reading, buf,
                   bufContentOffset, isProcessing, incomingQueue, logVars>>

-----------------------------------------------------------------------------
(* The reads.                                                              *)

\* std::min(bytesSize - _bufContentOffset, MAXIMUM_BYTES_AS_NETWORK_BUFFER)
BytesToRead ==
    IF buf.bytesSize - bufContentOffset < MaxBytes
    THEN buf.bytesSize - bufContentOffset
    ELSE MaxBytes

\* How much the outstanding read asks for.
Wanted == IF reading = "PAYLOAD_CONTENT" THEN BytesToRead ELSE 1

\* The outstanding read can complete; one of an empty buffer always can.
Readable ==
    \/ Wanted = 0
    \/ link # "reset" /\ readCount + Wanted <= Len(stream)

\* The outstanding read can only fail.
Failing ==
    /\ Wanted > 0
    /\ \/ link = "reset"
       \/ link = "closed" /\ readCount + Wanted > Len(stream)

\* The units the read takes from the stream.
Taken == SubSeq(stream, readCount + 1, readCount + Wanted)

\* A handler is called without an error, for this part.
Handler(part) ==
    /\ reading = part
    /\ Readable
    /\ readCount' = readCount + Wanted
    /\ UNCHANGED <<peerVars, isProcessing>>

-----------------------------------------------------------------------------
(* The handlers.                                                           *)

\* _startReceiving(), called when the connection is made.  It does nothing
\* when it was called before: the flag is never cleared.
StartReceiving ==
    /\ ~isProcessing
    /\ isProcessing' = TRUE
    /\ reading' = "PAYLOAD_TYPE"
    /\ UNCHANGED <<peerVars, readCount, buf, bufContentOffset, incomingQueue, logVars>>

OnTypeRead ==
    /\ Handler("PAYLOAD_TYPE")
    /\ buf' = [buf EXCEPT !.type = Taken[1][2]]
    /\ traceBuf' = logPayloadType(logNewPayload(traceBuf), buf'.type)
    /\ reading' = "PAYLOAD_SIZE"
    /\ UNCHANGED <<bufContentOffset, incomingQueue, tracesQueue, speedQueue>>

\* std::string::resize(): what fits is kept, the rest is zeros.
Resized(bytes, size) ==
    [i \in 1..size |-> IF i <= Len(bytes) THEN bytes[i] ELSE Garbage]

OnSizeRead ==
    /\ Handler("PAYLOAD_SIZE")
    /\ LET size == Taken[1][3] IN
       buf' = [buf EXCEPT !.bytesSize = size, !.bytes = Resized(@, size)]
    /\ reading' = "PAYLOAD_CONTENT"
    /\ UNCHANGED <<bufContentOffset, incomingQueue, logVars>>

\* A plausible slip: every chunk is read into the start of the buffer.
FilledFromStart ==
    [buf EXCEPT !.bytes =
        [i \in DOMAIN @ |-> IF i <= Wanted THEN Taken[i] ELSE @[i]]]

\* The bytes read go into the buffer at the offset.
Filled ==
    [buf EXCEPT !.bytes =
        [i \in DOMAIN @ |->
            IF i \in bufContentOffset + 1 .. bufContentOffset + Wanted
            THEN Taken[i - bufContentOffset]
            ELSE @[i]]]

\* The content handler while content remains.
OnChunkRead ==
    /\ Handler("PAYLOAD_CONTENT")
    /\ bufContentOffset + Wanted < buf.bytesSize
    /\ buf' = Filled
    /\ bufContentOffset' = bufContentOffset + Wanted
    /\ CommitPayloadSpeed(Wanted)
    /\ UNCHANGED <<reading, incomingQueue, traceBuf, tracesQueue>>

OnContentReadStopping ==
    /\ Handler("PAYLOAD_CONTENT")
    /\ bufContentOffset + Wanted >= buf.bytesSize
    /\ buf' = Filled
    /\ CommitPayloadSpeed(Wanted)
    /\ incomingQueue' = push(incomingQueue, buf')
    /\ CommitLog(traceBuf)
    /\ bufContentOffset' = 0
    /\ reading' = "nothing"
    /\ UNCHANGED traceBuf

\* The content handler at the end of the content: push, commit, start over.
OnContentRead ==
    /\ Handler("PAYLOAD_CONTENT")
    /\ bufContentOffset + Wanted >= buf.bytesSize
    /\ buf' = Filled
    /\ CommitPayloadSpeed(Wanted)
    /\ incomingQueue' = push(incomingQueue, buf')
    /\ CommitLog(traceBuf)
    /\ bufContentOffset' = 0
    /\ reading' = "PAYLOAD_TYPE"
    /\ UNCHANGED traceBuf

\* A plausible slip: no trace of the failure is committed.
OnPayloadReceiveErrorUntraced ==
    /\ reading # "nothing"
    /\ Failing
    /\ reading' = "nothing"
    /\ UNCHANGED <<peerVars, readCount, buf, bufContentOffset, isProcessing,
                   incomingQueue, logVars>>

\* The handlers with an error: _onPayloadReceiveError(), and no next read.
\* The type handler logs a new payload before it looks at the error.  (A read
\* that is cut leaves the bytes it got in _buf; nothing looks at them again.)
OnPayloadReceiveError ==
    /\ reading # "nothing"
    /\ Failing
    /\ reading' = "nothing"
    /\ traceBuf' = IF reading = "PAYLOAD_TYPE"
                   THEN logPayloadType(logNewPayload(traceBuf), buf.type)
                   ELSE traceBuf
    /\ CommitLog(traceBuf')
    /\ UNCHANGED <<peerVars, readCount, buf, bufContentOffset, isProcessing,
                   incomingQueue, speedQueue>>

-----------------------------------------------------------------------------
Handlers ==
    \/ StartReceiving
    \/ OnTypeRead
    \/ OnSizeRead
    \/ OnChunkRead
    \/ OnContentRead
    \/ OnPayloadReceiveError

Next ==
    \/ \E size \in Sizes : PeerSends(size)
    \/ Arrive
    \/ \E how \in {"closed", "reset"} : ConnectionEnds(how)
    \/ Handlers

Spec == Init /\ [][Next]_vars

-----------------------------------------------------------------------------
(* Safety.                                                                 *)

\* Every payload pushed has one trace, of its own type, and the bytes reported
\* for it add up to its size; a receiver that failed has one more trace.
TracesAccount ==
    LET pushed == Len(incomingQueue.items)
        ReportedFor(n, speed) ==
            IF speed.payloadId = n THEN speed.bytesExchanged ELSE 0
        BytesReported(n) ==
            FoldLeft(LAMBDA a, b : a + b, 0,
                     [k \in DOMAIN speedQueue |-> ReportedFor(n, speedQueue[k])])
    IN  /\ TracesNumbered
        /\ \A n \in 1..pushed :
              CommittedFor(n, n) /\ BytesReported(n) = sizes[n]
        /\ Len(tracesQueue) =
              pushed + (IF isProcessing /\ reading = "nothing" THEN 1 ELSE 0)
=============================================================================
