------------------------------- MODULE MCMouse -------------------------------
(***************************************************************************)
(* One model of what the mouse works on besides the camera: the events and *)
(* the widgets that take them (AppEvents), the selection rectangle         *)
(* (SelectionRect) and the buffer of a drag (MouseMovements).  The modules *)
(* share no variable and no step of one depends on another, so nothing is  *)
(* gained by interleaving them: an execution is one of a part, chosen at   *)
(* the start, and the others stay where they begin.                        *)
(***************************************************************************)
EXTENDS AppEvents, SelectionRect, MouseMovements

VARIABLE part

\* "one button" is AppEvents for a user who holds one button at a time.
Parts == {"events", "one button", "selection", "movements"}

\* Odd and even, higher and wider.
MCSizes == {<<4, 3>>, <<3, 4>>, <<5, 5>>}

MouseInit ==
    /\ part \in Parts
    /\ Init /\ SelectionInit /\ MovementsInit
    /\ part # "selection" => framebuffer = <<4, 3>>

EventsStep ==
    /\ part \in {"events", "one button"}
    /\ Next
    /\ part = "one button" => Cardinality(held') <= 1
    /\ UNCHANGED <<selectionVars, movementsVars>>

SelectionStep ==
    /\ part = "selection"
    /\ SelectionNext
    /\ UNCHANGED <<vars, movementsVars>>

MovementsStep ==
    /\ part = "movements"
    /\ MovementsNext
    /\ UNCHANGED <<vars, selectionVars>>

MouseNext ==
    /\ EventsStep \/ SelectionStep \/ MovementsStep
    /\ UNCHANGED part

MouseSpec == MouseInit /\ [][MouseNext]_<<part, vars, selectionVars, movementsVars>>

-----------------------------------------------------------------------------
\* With one mouse button at a time, whatever was pressed where and released
\* wherever: when no button is held, no widget has the lock or is about to be
\* toggled (it would ignore the mouse for good), nothing is selected, and the
\* cursor does not show a drag (Toggleable.hpp:70-77, USApplication.cpp:395-430).
GesturesEnd ==
    part = "one button" /\ held = {} =>
        lock = None /\ preToggling = {} /\ ~selecting /\ cursor # "resizeAll"
=============================================================================
