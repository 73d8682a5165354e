------------------------------- MODULE MCPanel -------------------------------
(***************************************************************************)
(* One model of the scrollable panel: how it scrolls (Scrolling) and how   *)
(* it is laid out (Layout).  The first counts lengths along the axis that  *)
(* scrolls and the second has no time, so the modules share no variable:   *)
(* an execution is one of a part, chosen at the start, and the other part  *)
(* stays where it begins.                                                  *)
(***************************************************************************)
EXTENDS Scrolling, Layout

ASSUME SlideAssumption ==
    /\ SlideIsExact /\ LongestFrame
    /\ UnitIsFine([n \in 0..MaxInputs |-> Duration ^ (MaxInputs - n)])

VARIABLE part

PanelInit ==
    /\ part \in {"scrolling", "layout"}
    /\ Init /\ LayoutInit
    /\ part = "scrolling" => stickness = "Right"
    /\ part = "layout" => ratio = Min(Ratios)

ScrollingStep == part = "scrolling" /\ Next /\ UNCHANGED layoutVars

LayoutStep == part = "layout" /\ LayoutNext /\ UNCHANGED vars

PanelNext == (ScrollingStep \/ LayoutStep) /\ UNCHANGED part

PanelSpec == PanelInit /\ [][PanelNext]_<<part, vars, layoutVars>>
=============================================================================
