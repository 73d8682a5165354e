------------------------------- MODULE MCHover -------------------------------
(***************************************************************************)
(* One model of hovering: which widget is found under the cursor           *)
(* (Hovering), and what two of the widgets make of being hovered           *)
(* (HoverLooks).  In the first an animation may change any geometry, in    *)
(* the second the cursor may enter or leave at any time, so each includes  *)
(* all that the other can do to it: an execution is one of a part, chosen  *)
(* at the start, and the other part stays where it begins.                 *)
(***************************************************************************)
EXTENDS Hovering, HoverLooks

VARIABLE part

HoverInit ==
    /\ part \in {"hovering", "looks"}
    /\ Init /\ LooksInit

HoveringStep == part = "hovering" /\ Next /\ UNCHANGED looksVars

LooksStep == part = "looks" /\ LooksNext /\ UNCHANGED vars

HoverNext == (HoveringStep \/ LooksStep) /\ UNCHANGED part

HoverSpec == HoverInit /\ [][HoverNext]_<<part, vars, looksVars>>
=============================================================================
