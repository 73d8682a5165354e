----------------------------- MODULE AppEvents ------------------------------
(***************************************************************************)
(* How the events of the mouse find their widget: AppContainer locks the   *)
(* deepest hovered one at a press, and has it handle moves and the release *)
(* (src/app/widgets/base/AppContainer.hpp).  The widgets are the map,      *)
(* which is USApplication itself, the button of the atom selector, the     *)
(* handle of its scroller, and "other" for those that handle neither       *)
(* presses, moves nor releases: panel, scroller, content, shortcuts.       *)
(*                                                                         *)
(* Which widget is the deepest at a position is Hovering's matter, what    *)
(* happens to the camera is Camera's: a move may find any widget, and only *)
(* the cursor tells that the camera is dragged.                            *)
(***************************************************************************)
EXTENDS Naturals, FiniteSets

CONSTANT MaxHeld        \* bound: how many buttons are held at a time

ASSUME MaxHeldAssumption == MaxHeld \in Nat \ {0}

MouseButtons == {"left", "right", "middle"}
Buttons == {"button", "handle"}         \* the Button widgets
Widgets == {"map", "other"} \cup Buttons
None == "none"                          \* nullptr

VARIABLES
    held,               \* environment: the mouse buttons held down
    mouseState,         \* _mouseState: _lPressed and _lMoved
    deepest,            \* _deepestHoveredShape
    lock,               \* _lockContext
    hovered,            \* _isHovered, of the Button widgets
    preToggling,        \* _preToggling, of the Button widgets
    toggled,            \* _toggled, of the Button widgets
    colored,            \* which Button widgets are in their active color
    target,             \* where the button of the selector moves to
    panelToggled,       \* _toggled of the panel
    selecting,          \* _isSelecting of the selection rectangle
    cursor

buttonVars == <<preToggling, toggled, colored, target, panelToggled>>
vars == <<held, mouseState, deepest, lock, hovered, buttonVars, selecting, cursor>>

Idle == [pressed |-> FALSE, moved |-> FALSE]

(***************************************************************************)
(* MouseState: whether a press is the second of a double click, which only *)
(* the camera asks, depends on the clock and is left to Camera.            *)
(***************************************************************************)
leftPressed == [pressed |-> TRUE, moved |-> FALSE]
leftReleased == Idle
mayBeDragging == [mouseState EXCEPT !.moved = @ \/ mouseState.pressed]

Init ==
    /\ held = {} /\ mouseState = Idle
    /\ deepest = None /\ lock = None
    /\ hovered = {} /\ preToggling = {} /\ toggled = {}
    /\ colored = {} /\ target = "rest"
    /\ panelToggled = FALSE
    /\ selecting = FALSE
    /\ cursor = "arrow"

(***************************************************************************)
(* Button, AtomSelectorButton and ScrollerHandle                           *)
(***************************************************************************)
\* _updateCurrentColor() and _updateScrollColor(): the handle does not show
\* whether it is toggled.
Active(hov, tog) == hov \cup (tog \cap {"button"})

\* _updateAnimationYTarget()
Target(hov, tog) ==
    IF "button" \in tog THEN "toggled" ELSE IF "button" \in hov THEN "hovered" ELSE "rest"

\* The widgets among ws look the way they are now.
Refresh(ws, hov, tog) ==
    /\ colored' = (colored \ ws) \cup (Active(hov, tog) \cap ws)
    /\ target' = IF "button" \in ws THEN Target(hov, tog) ELSE target

\* handlePressEvent()
PressButton(w) ==
    /\ preToggling' = preToggling \cup {w}
    /\ UNCHANGED <<toggled, colored, target, panelToggled, selecting, cursor>>

\* Mutant of ReleaseButton: the widget does not look at itself again.
ReleaseButtonStaleLook(w) ==
    /\ preToggling' = preToggling \ {w}
    /\ toggled' = (toggled \ {w}) \cup ({w} \ toggled)
    /\ panelToggled' = IF w = "button" THEN ~panelToggled ELSE panelToggled
    /\ UNCHANGED <<colored, target, selecting, cursor>>

\* handleLockReleaseEvent(): wherever the mouse is by then, the widget toggles,
\* and the selector's button the panel with it.
ReleaseButton(w) ==
    /\ preToggling' = preToggling \ {w}
    /\ toggled' = (toggled \ {w}) \cup ({w} \ toggled)
    /\ panelToggled' = IF w = "button" THEN ~panelToggled ELSE panelToggled
    /\ Refresh({w}, hovered, toggled')
    /\ UNCHANGED <<selecting, cursor>>

(***************************************************************************)
(* USApplication                                                           *)
(***************************************************************************)
PressMap(b) ==
    /\ selecting' = (selecting \/ b = "right")
    /\ UNCHANGED <<buttonVars, cursor>>

\* Mutant of ReleaseMap: the selection goes on.
ReleaseMapKeepsSelection(b) ==
    /\ cursor' = IF b = "left" /\ mouseState.moved THEN "arrow" ELSE cursor
    /\ UNCHANGED <<buttonVars, selecting>>

\* The release of a drag, and of a selection (which zooms).
ReleaseMap(b) ==
    /\ cursor' = IF b = "left" /\ mouseState.moved THEN "arrow" ELSE cursor
    /\ selecting' = (selecting /\ b # "right")
    /\ UNCHANGED buttonVars

(***************************************************************************)
(* AppContainer                                                            *)
(***************************************************************************)
\* _propagateMousePressEvent()
Press(b) ==
    /\ b \notin held /\ Cardinality(held) < MaxHeld
    /\ held' = held \cup {b}
    /\ mouseState' = IF b = "left" THEN leftPressed ELSE mouseState
    /\ lock' = deepest
    /\ \/ lock' = "map" /\ PressMap(b)
       \/ lock' \in Buttons /\ PressButton(lock')
       \/ lock' \notin Buttons \cup {"map"} /\ UNCHANGED <<buttonVars, selecting, cursor>>
    /\ UNCHANGED <<deepest, hovered>>

\* _propagateMouseReleaseEvent(): any button releases the lock.
Release(b) ==
    /\ b \in held
    /\ held' = held \ {b}
    /\ \/ lock = "map" /\ ReleaseMap(b)
       \/ lock \in Buttons /\ ReleaseButton(lock)
       \/ lock \notin Buttons \cup {"map"} /\ UNCHANGED <<buttonVars, selecting, cursor>>
    /\ mouseState' = IF b = "left" THEN leftReleased ELSE mouseState
    /\ lock' = None
    /\ UNCHANGED <<deepest, hovered>>

\* _onHoverChanged() of the widgets whose hovering changes, except for those
\* about to be toggled.
HoverChanged(hov) ==
    LET changed == ((hov \ hovered) \cup (hovered \ hov)) \ preToggling
    IN  /\ Refresh(changed, hov, toggled)
        /\ UNCHANGED <<preToggling, toggled, panelToggled>>

CursorAfterHover(hov) ==
    IF "button" \notin preToggling /\ ("button" \in hov) # ("button" \in hovered)
    THEN IF "button" \in hov THEN "hand" ELSE "arrow"
    ELSE cursor

\* handleLockMoveEvent(): the map is dragged, or else the selection follows.
handleLockMoveEvent(moved, c) == IF moved THEN "resizeAll" ELSE c

\* _propagateMouseMoveEvent(): a widget that was left may still be hovered
\* (see Hovering), so hov is any set with the deepest one.
Move ==
    \E w \in Widgets \cup {None}, hov \in SUBSET Buttons :
        /\ w \in Buttons => w \in hov
        /\ deepest' = w
        /\ hovered' = hov
        /\ HoverChanged(hov)
        /\ mouseState' = mayBeDragging
        /\ cursor' = IF lock = "map"
                     THEN handleLockMoveEvent(mouseState'.moved, CursorAfterHover(hov))
                     ELSE CursorAfterHover(hov)
        /\ UNCHANGED <<held, lock, selecting>>

\* viewportEvent(): the window is resized.
Viewport ==
    /\ selecting' = FALSE
    /\ UNCHANGED <<held, mouseState, deepest, lock, hovered, buttonVars, cursor>>

Next ==
    \/ \E b \in MouseButtons : Press(b) \/ Release(b)
    \/ Move
    \/ Viewport

Spec == Init /\ [][Next]_vars

(***************************************************************************)
(* Properties                                                              *)
(***************************************************************************)
\* Unless it is about to be toggled, a button looks the way it is: its color
\* and the place it moves to are those of being hovered and toggled, whatever
\* hovering was ignored while it was pressed (AtomSelectorButton.hpp:91-116,
\* ScrollerHandle.cpp:78-94).
ButtonsLookRight ==
    /\ \A w \in Buttons \ preToggling : w \in colored <=> w \in Active(hovered, toggled)
    /\ "button" \notin preToggling => target = Target(hovered, toggled)
=============================================================================
