--------------------------- MODULE PayloadChannel ---------------------------
(***************************************************************************)
(* What a connection between two sockets promises, with everything inside  *)
(* it left out: the payloads that were submitted on one side come out on   *)
(* the other one, whole, each once and in order.  Delivery may stop at any *)
(* time (the connection may break, nothing resends on a new one); it never *)
(* resumes behind a gap.                                                   *)
(***************************************************************************)
EXTENDS Naturals, Sequences

CONSTANT Payloads       \* the payloads there are

VARIABLES
    submitted,          \* the payloads given to the sender
    delivered           \* the payloads the receiver pushed into its queue

chanVars == <<submitted, delivered>>

Init ==
    /\ submitted = <<>>
    /\ delivered = <<>>

Submit(p) ==
    /\ submitted' = Append(submitted, p)
    /\ UNCHANGED delivered

Deliver ==
    /\ Len(delivered) < Len(submitted)
    /\ delivered' = Append(delivered, submitted[Len(delivered) + 1])
    /\ UNCHANGED submitted

Next == Deliver \/ \E p \in Payloads : Submit(p)

Spec == Init /\ [][Next]_chanVars
=============================================================================
