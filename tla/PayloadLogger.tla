--------------------------- MODULE PayloadLogger ---------------------------
(***************************************************************************)
(* PayloadLogger (src/network/PayloadLogger.{h,cpp}), the base class of    *)
(* the senders and the receivers: one trace under construction, the queue  *)
(* of committed traces and the queue of transfer speeds.  Nothing in the   *)
(* repository takes the traces out again, so the queues are sequences that *)
(* grow.  The timestamps are left out.                                     *)
(***************************************************************************)
EXTENDS Naturals, Sequences

VARIABLES
    traceBuf,       \* _traceBuf
    tracesQueue,
    speedQueue

logVars == <<traceBuf, tracesQueue, speedQueue>>

\* A payload's type is represented by the payload.
Traces == [payloadId : Nat, payloadType : Nat, expectedSize : Nat]

SpeedTraces == [payloadId : Nat, bytesExchanged : Nat]

LoggerTypeOK ==
    /\ traceBuf \in Traces
    /\ tracesQueue \in Seq(Traces)
    /\ speedQueue \in Seq(SpeedTraces)

LoggerInit ==
    /\ traceBuf = [payloadId |-> 0, payloadType |-> 0, expectedSize |-> 0]
    /\ tracesQueue = <<>>
    /\ speedQueue = <<>>

\* What logNewPayload(), logPayloadType() and logPayloadSize() make of a trace.
logNewPayload(trace) == [trace EXCEPT !.payloadId = @ + 1]

logPayloadType(trace, type) == [trace EXCEPT !.payloadType = type]

logPayloadSize(trace, size) == [trace EXCEPT !.expectedSize = size]

CommitPayloadSpeed(loaded) ==
    speedQueue' = Append(speedQueue, [payloadId |-> traceBuf.payloadId,
                                      bytesExchanged |-> loaded])

CommitLog(trace) == tracesQueue' = Append(tracesQueue, trace)

-----------------------------------------------------------------------------
\* The traces are numbered in the order they are committed.
TracesNumbered == \A k \in DOMAIN tracesQueue : tracesQueue[k].payloadId = k

\* Trace id was committed for a payload of this type.
CommittedFor(id, type) ==
    id \in DOMAIN tracesQueue /\ tracesQueue[id].payloadType = type
=============================================================================
