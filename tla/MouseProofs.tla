----------------------------- MODULE MouseProofs ----------------------------
(***************************************************************************)
(* Proofs about what the mouse works on besides the camera.                *)
(*                                                                         *)
(* AppEvents, however many mouse buttons are held together, and in         *)
(* whatever order they are pressed and released: the buttons look the way  *)
(* they are, the panel follows its button, and only a pressed button has   *)
(* the lock.  Each of the three is inductive together with the types of    *)
(* the sets it is about.  With one mouse button at a time, a gesture       *)
(* leaves nothing behind.                                                  *)
(*                                                                         *)
(* SelectionRect, for windows of every size: BorderFits compares two       *)
(* representations of the same corners, so the invariant has to say how    *)
(* they are related while there is a selection, and that the inner         *)
(* rectangle is the padded one of the corners in pixels.                   *)
(*                                                                         *)
(* MouseMovements, for every threshold and every drag: the time of the     *)
(* buffer is what it was at the threshold plus the credits.                *)
(***************************************************************************)
EXTENDS MCMouse, SumTheorems, FiniteSetTheorems, TLAPS

-----------------------------------------------------------------------------
(* AppEvents.                                                              *)

\* The types the proofs need.
EventsTypes ==
    /\ deepest \in Widgets \cup {None} /\ lock \in Widgets \cup {None}
    /\ UNION {hovered, preToggling, toggled, colored} \subseteq Buttons
    /\ panelToggled \in BOOLEAN

\* The panel is open exactly when its button is toggled (USApplication.cpp:151).
PanelFollowsButton == panelToggled <=> "button" \in toggled

\* A button that has the lock is about to be toggled: a release toggles only
\* what was pressed (Toggleable.hpp:70-77).
LockedIsPressed == lock \in Buttons => lock \in preToggling

EventsInv ==
    /\ EventsTypes
    /\ ButtonsLookRight
    /\ PanelFollowsButton
    /\ LockedIsPressed

\* A widget is one of the Button widgets, the map, another one, or none.
LEMMA WidgetKinds ==
    /\ "map" \notin Buttons /\ None \notin Buttons /\ "other" \notin Buttons
    /\ "button" \in Buttons
BY DEF Buttons, None

\* At the start nothing is hovered, pressed or toggled.
LEMMA InitEventsInv == Init => EventsInv
BY DEF Init, EventsInv, EventsTypes, ButtonsLookRight, PanelFollowsButton, LockedIsPressed, Active, Target,
       Buttons, None, Widgets

\* Refresh() leaves the widgets it is about looking the way they are, and all
\* others as they were.
LEMMA RefreshLooks ==
    ASSUME NEW ws \in SUBSET Buttons, NEW hov \in SUBSET Buttons, NEW tog \in SUBSET Buttons,
           colored \subseteq Buttons, Refresh(ws, hov, tog)
    PROVE  /\ colored' \subseteq Buttons
           /\ \A w \in ws : w \in colored' <=> w \in Active(hov, tog)
           /\ \A w \in Buttons \ ws : w \in colored' <=> w \in colored
           /\ "button" \in ws => target' = Target(hov, tog)
           /\ "button" \notin ws => target' = target
BY DEF Refresh, Active, Buttons

\* A press of a button disturbs only what is about to be toggled.
LEMMA PressButtonEventsInv ==
    ASSUME EventsInv, NEW w \in Buttons, PressButton(w), lock' = w, UNCHANGED <<deepest, hovered>>
    PROVE  EventsInv'
<1>1. EventsTypes'
  BY DEF EventsInv, EventsTypes, PressButton, Widgets
<1>2. ButtonsLookRight'
  BY DEF EventsInv, EventsTypes, PressButton, ButtonsLookRight, Active, Target
<1>3. PanelFollowsButton' /\ LockedIsPressed'
  BY DEF EventsInv, PressButton, PanelFollowsButton, LockedIsPressed
<1> QED BY <1>1, <1>2, <1>3 DEF EventsInv

\* A release toggles the button and has it look again; the others look as
\* they did, since what they depend on is as it was.
LEMMA ReleaseButtonEventsInv ==
    ASSUME EventsInv, NEW w \in Buttons, ReleaseButton(w), lock' = None, UNCHANGED <<deepest, hovered>>
    PROVE  EventsInv'
<1> DEFINE tog == (toggled \ {w}) \cup ({w} \ toggled)
<1>1. /\ preToggling' = preToggling \ {w} /\ toggled' = tog
      /\ panelToggled' = IF w = "button" THEN ~panelToggled ELSE panelToggled
      /\ Refresh({w}, hovered, tog)
  BY DEF ReleaseButton
<1>2. /\ tog \subseteq Buttons /\ hovered \subseteq Buttons /\ colored \subseteq Buttons
      /\ {w} \subseteq Buttons
  BY DEF EventsInv, EventsTypes
<1>3. /\ colored' \subseteq Buttons
      /\ w \in colored' <=> w \in Active(hovered, tog)
      /\ \A v \in Buttons \ {w} : v \in colored' <=> v \in colored
      /\ "button" = w => target' = Target(hovered, tog)
      /\ "button" # w => target' = target
  BY <1>1, <1>2, RefreshLooks
<1>4. EventsTypes'
  BY <1>1, <1>2, <1>3 DEF EventsInv, EventsTypes, Widgets
<1>5. ASSUME NEW v \in Buttons \ preToggling'
      PROVE  v \in colored' <=> v \in Active(hovered, toggled)'
  <2>1. CASE v = w
    BY <2>1, <1>1, <1>3 DEF Active
  <2>2. CASE v # w
    <3>1. v \in colored <=> v \in Active(hovered, toggled)
      BY <2>2, <1>1 DEF EventsInv, ButtonsLookRight
    <3>2. v \in Active(hovered, toggled) <=> v \in Active(hovered, tog)
      BY <2>2 DEF Active
    <3> QED BY <3>1, <3>2, <2>2, <1>1, <1>3 DEF Active
  <2> QED BY <2>1, <2>2
<1>6. "button" \notin preToggling' => target' = Target(hovered, toggled)'
  BY <1>1, <1>3 DEF EventsInv, ButtonsLookRight, Target
<1>7. PanelFollowsButton'
  BY <1>1 DEF EventsInv, EventsTypes, PanelFollowsButton
<1>8. LockedIsPressed'
  BY WidgetKinds DEF LockedIsPressed
<1> QED BY <1>4, <1>5, <1>6, <1>7, <1>8 DEF EventsInv, ButtonsLookRight

\* A step that changes nothing the invariant is about, but perhaps the lock.
LEMMA UnlockedEventsInv ==
    ASSUME EventsInv, UNCHANGED <<buttonVars, hovered, deepest>>,
           lock' \in Widgets \cup {None},
           lock' \in Buttons => lock' \in preToggling
    PROVE  EventsInv'
BY DEF EventsInv, EventsTypes, ButtonsLookRight, PanelFollowsButton, LockedIsPressed, buttonVars,
       Active, Target

\* A move has those widgets look again whose hovering changed, but for the ones
\* about to be toggled, which are excused.
LEMMA MoveEventsInv ==
    ASSUME EventsInv, Move
    PROVE  EventsInv'
<1>1. PICK w \in Widgets \cup {None}, hov \in SUBSET Buttons :
        /\ deepest' = w /\ hovered' = hov /\ HoverChanged(hov) /\ lock' = lock
  BY DEF Move
<1> DEFINE ws == ((hov \ hovered) \cup (hovered \ hov)) \ preToggling
<1>2. /\ Refresh(ws, hov, toggled)
      /\ UNCHANGED <<preToggling, toggled, panelToggled>>
  BY <1>1 DEF HoverChanged
<1>3. ws \subseteq Buttons /\ toggled \subseteq Buttons /\ colored \subseteq Buttons
  BY <1>1 DEF EventsInv, EventsTypes
<1>4. /\ colored' \subseteq Buttons
      /\ \A v \in ws : v \in colored' <=> v \in Active(hov, toggled)
      /\ \A v \in Buttons \ ws : v \in colored' <=> v \in colored
      /\ "button" \in ws => target' = Target(hov, toggled)
      /\ "button" \notin ws => target' = target
  BY <1>1, <1>2, <1>3, RefreshLooks
<1>5. EventsTypes'
  BY <1>1, <1>2, <1>4 DEF EventsInv, EventsTypes
<1>6. ASSUME NEW v \in Buttons \ preToggling'
      PROVE  v \in colored' <=> v \in Active(hovered, toggled)'
  <2>1. CASE v \in ws
    BY <2>1, <1>1, <1>2, <1>4 DEF Active
  <2>2. CASE v \notin ws
    <3>1. v \in hov <=> v \in hovered
      BY <2>2, <1>2
    <3>2. v \in colored <=> v \in Active(hovered, toggled)
      BY <1>2 DEF EventsInv, ButtonsLookRight
    <3> QED BY <3>1, <3>2, <2>2, <1>1, <1>2, <1>4 DEF Active
  <2> QED BY <2>1, <2>2
<1>7. "button" \notin preToggling' => target' = Target(hovered, toggled)'
  <2> SUFFICES ASSUME "button" \notin preToggling
               PROVE  target' = Target(hov, toggled)
    BY <1>1, <1>2 DEF Target
  <2>1. target = Target(hovered, toggled)
    BY DEF EventsInv, ButtonsLookRight
  <2>2. CASE "button" \in ws
    BY <2>2, <1>4
  <2>3. CASE "button" \notin ws
    BY <2>1, <2>3, <1>4 DEF Target
  <2> QED BY <2>2, <2>3
<1>8. PanelFollowsButton' /\ LockedIsPressed'
  BY <1>1, <1>2 DEF EventsInv, PanelFollowsButton, LockedIsPressed
<1> QED BY <1>5, <1>6, <1>7, <1>8 DEF EventsInv, ButtonsLookRight

\* Every step of the system keeps the invariant.
LEMMA NextEventsInv == EventsInv /\ [Next]_vars => EventsInv'
<1> SUFFICES ASSUME EventsInv, [Next]_vars PROVE EventsInv'
  OBVIOUS
<1>0. EventsInv => (lock \in Buttons => lock \in preToggling)
  BY DEF EventsInv, LockedIsPressed
<1>1. ASSUME NEW b \in MouseButtons, Press(b) PROVE EventsInv'
  <2>1. lock' = deepest /\ UNCHANGED <<deepest, hovered>>
    BY <1>1 DEF Press
  <2>2. lock' \in Widgets \cup {None}
    BY <2>1 DEF EventsInv, EventsTypes
  <2>3. CASE lock' \in Buttons
    <3>1. PressButton(lock')
      BY <1>1, <2>3, WidgetKinds DEF Press
    <3> QED BY <2>1, <2>3, <3>1, PressButtonEventsInv
  <2>4. CASE lock' \notin Buttons
    <3>1. UNCHANGED buttonVars
      BY <1>1, <2>4 DEF Press, PressMap
    <3> QED BY <2>1, <2>2, <2>4, <3>1, UnlockedEventsInv
  <2> QED BY <2>3, <2>4
<1>2. ASSUME NEW b \in MouseButtons, Release(b) PROVE EventsInv'
  <2>1. lock' = None /\ UNCHANGED <<deepest, hovered>>
    BY <1>2 DEF Release
  <2>2. CASE lock \in Buttons
    <3>1. ReleaseButton(lock)
      BY <1>2, <2>2, WidgetKinds DEF Release
    <3> QED BY <2>1, <2>2, <3>1, ReleaseButtonEventsInv
  <2>3. CASE lock \notin Buttons
    <3>1. UNCHANGED buttonVars
      BY <1>2, <2>3 DEF Release, ReleaseMap
    <3> QED BY <2>1, <3>1, UnlockedEventsInv, WidgetKinds
  <2> QED BY <2>2, <2>3
<1>3. CASE Move
  BY <1>3, MoveEventsInv
<1>4. CASE Viewport
  <2>1. UNCHANGED <<buttonVars, hovered, deepest>> /\ lock' = lock
    BY <1>4 DEF Viewport
  <2> QED BY <2>1, <1>0, UnlockedEventsInv DEF EventsInv, EventsTypes
<1>5. CASE UNCHANGED vars
  <2>1. UNCHANGED <<buttonVars, hovered, deepest>> /\ lock' = lock
    BY <1>5 DEF vars
  <2> QED BY <2>1, <1>0, UnlockedEventsInv DEF EventsInv, EventsTypes
<1> QED BY <1>1, <1>2, <1>3, <1>4, <1>5 DEF Next

\* The invariant holds, however many buttons of the mouse are held at a time.
THEOREM EventsInvariance == Spec => []EventsInv
BY InitEventsInv, NextEventsInv, PTL DEF Spec

\* Whatever mouse buttons are held together and whatever hovering is ignored
\* meanwhile, a button that is not about to be toggled looks the way it is
\* (AtomSelectorButton.hpp:91-116, ScrollerHandle.cpp:78-94).
THEOREM ButtonsAlwaysLookRight == Spec => []ButtonsLookRight
<1>1. EventsInv => ButtonsLookRight
  BY DEF EventsInv
<1> QED BY <1>1, EventsInvariance, PTL

\* The panel is open exactly when its button is toggled, though it keeps a
\* state of its own and is told by a callback (USApplication.cpp:151).
THEOREM PanelAlwaysFollowsButton == Spec => []PanelFollowsButton
<1>1. EventsInv => PanelFollowsButton
  BY DEF EventsInv
<1> QED BY <1>1, EventsInvariance, PTL

\* A release never toggles a button that was not pressed, though any mouse
\* button sets and clears the lock (AppContainer.hpp:69,105).
THEOREM LockedIsAlwaysPressed == Spec => []LockedIsPressed
<1>1. EventsInv => LockedIsPressed
  BY DEF EventsInv
<1> QED BY <1>1, EventsInvariance, PTL

-----------------------------------------------------------------------------
(* One mouse button at a time.                                             *)

\* While button b is held, all that goes on is what b has started over the
\* widget that has the lock.
Gesture(b) ==
    /\ preToggling \subseteq {lock}
    /\ selecting => b = "right" /\ lock = "map"
    /\ cursor = "resizeAll" => b = "left" /\ lock = "map" /\ mouseState.moved
    /\ mouseState.pressed \/ mouseState.moved => b = "left"

\* Nothing goes on.
AtRest ==
    /\ lock = None /\ preToggling = {} /\ ~selecting /\ cursor # "resizeAll"
    /\ ~mouseState.pressed /\ ~mouseState.moved

GestureInv ==
    /\ held \subseteq MouseButtons
    /\ preToggling \subseteq Buttons
    /\ mouseState \in [pressed : BOOLEAN, moved : BOOLEAN]
    /\ part = "one button" =>
          \/ held = {} /\ AtRest
          \/ \E b \in MouseButtons : held = {b} /\ Gesture(b)

\* A second button cannot be pressed.
LEMMA OneAtATime ==
    ASSUME held \subseteq MouseButtons, NEW b, b \notin held, Cardinality(held \cup {b}) <= 1
    PROVE  held = {}
<1>1. IsFiniteSet(MouseButtons)
  <2>1. IsFiniteSet({}) /\ MouseButtons = (({} \cup {"left"}) \cup {"right"}) \cup {"middle"}
    BY FS_EmptySet DEF MouseButtons
  <2> QED
    BY <2>1, FS_AddElement, Zenon
<1>2. IsFiniteSet(held)
  BY <1>1, FS_Subset
<1>3. Cardinality(held) \in Nat /\ Cardinality(held \cup {b}) = Cardinality(held) + 1
  BY <1>2, FS_CardinalityType, FS_AddElement
<1> QED
  BY <1>2, <1>3, FS_EmptySet

\* Nothing is held at first.
LEMMA InitGestureInv == MouseInit => GestureInv
<1> SUFFICES ASSUME MouseInit PROVE GestureInv
  OBVIOUS
<1>1. /\ held = {} /\ mouseState = [pressed |-> FALSE, moved |-> FALSE]
      /\ lock = None /\ preToggling = {} /\ selecting = FALSE /\ cursor = "arrow"
  BY DEF MouseInit, Init, Idle
<1>2. /\ ~mouseState.pressed /\ ~mouseState.moved
      /\ mouseState \in [pressed : BOOLEAN, moved : BOOLEAN]
  BY <1>1
<1>3. AtRest
  BY <1>1, <1>2 DEF AtRest
<1> QED
  BY <1>1, <1>2, <1>3 DEF GestureInv

\* A press starts a gesture.
LEMMA PressGesture ==
    ASSUME held = {}, AtRest, NEW b \in MouseButtons, Press(b)
    PROVE  held' = {b} /\ Gesture(b)'
<1>1. /\ held' = {b} /\ mouseState' = IF b = "left" THEN leftPressed ELSE mouseState
      /\ \/ lock' = "map" /\ PressMap(b)
         \/ lock' \in Buttons /\ PressButton(lock')
         \/ lock' \notin Buttons \cup {"map"} /\ UNCHANGED <<buttonVars, selecting, cursor>>
  BY DEF Press
<1>2. mouseState'.pressed \/ mouseState'.moved => b = "left"
  BY <1>1, Zenon DEF AtRest
<1>3. preToggling' \subseteq {lock'} /\ cursor' # "resizeAll"
  BY <1>1 DEF AtRest, PressMap, PressButton, buttonVars
<1>4. selecting' => b = "right" /\ lock' = "map"
  BY <1>1, WidgetKinds, Zenon DEF AtRest, PressMap, PressButton
<1> QED
  BY <1>1, <1>2, <1>3, <1>4 DEF Gesture

\* Its release ends all of it.
LEMMA ReleaseGesture ==
    ASSUME NEW b \in MouseButtons, held = {b}, Gesture(b), preToggling \subseteq Buttons,
           mouseState \in [pressed : BOOLEAN, moved : BOOLEAN], NEW c, Release(c)
    PROVE  held' = {} /\ AtRest'
<1>1. /\ c = b /\ held' = {} /\ lock' = None
      /\ mouseState' = IF b = "left" THEN leftReleased ELSE mouseState
      /\ \/ lock = "map" /\ ReleaseMap(b)
         \/ lock \in Buttons /\ ReleaseButton(lock)
         \/ lock \notin Buttons \cup {"map"} /\ UNCHANGED <<buttonVars, selecting, cursor>>
  BY DEF Release
<1>2. ~mouseState'.pressed /\ ~mouseState'.moved
  <2>1. CASE b = "left"
    BY <1>1, <2>1 DEF leftReleased, Idle
  <2>2. CASE b # "left"
    BY <1>1, <2>2, Zenon DEF Gesture
  <2> QED
    BY <2>1, <2>2
<1>3. preToggling' = {}
  BY <1>1, WidgetKinds DEF Gesture, ReleaseMap, ReleaseButton, buttonVars
<1>4. ~selecting'
  BY <1>1, WidgetKinds, Zenon DEF Gesture, ReleaseMap, ReleaseButton
<1>5. cursor' # "resizeAll"
  BY <1>1, WidgetKinds DEF Gesture, ReleaseMap, ReleaseButton
<1> QED
  BY <1>1, <1>2, <1>3, <1>4, <1>5 DEF AtRest

\* A move shows that the map is dragged, or no more than what is hovered.
LEMMA MoveCursor ==
    ASSUME Move, mouseState \in [pressed : BOOLEAN, moved : BOOLEAN]
    PROVE  /\ UNCHANGED <<held, lock, selecting, preToggling>>
           /\ mouseState'.pressed = mouseState.pressed
           /\ mouseState'.moved = (mouseState.moved \/ mouseState.pressed)
           /\ cursor' = "resizeAll" => cursor = "resizeAll" \/ (lock = "map" /\ mouseState'.moved)
<1>1. PICK hov \in SUBSET Buttons :
        /\ HoverChanged(hov) /\ mouseState' = mayBeDragging
        /\ cursor' = IF lock = "map"
                     THEN handleLockMoveEvent(mouseState'.moved, CursorAfterHover(hov))
                     ELSE CursorAfterHover(hov)
        /\ UNCHANGED <<held, lock, selecting>>
  BY DEF Move
<1>2. preToggling' = preToggling
  BY <1>1 DEF HoverChanged
<1>3. /\ mouseState'.pressed = mouseState.pressed
      /\ mouseState'.moved = (mouseState.moved \/ mouseState.pressed)
  BY <1>1 DEF mayBeDragging
<1>4. CursorAfterHover(hov) = "resizeAll" => cursor = "resizeAll"
  BY DEF CursorAfterHover
<1>5. cursor' = "resizeAll" => cursor = "resizeAll" \/ (lock = "map" /\ mouseState'.moved)
  BY <1>1, <1>4, Zenon DEF handleLockMoveEvent
<1> QED
  BY <1>1, <1>2, <1>3, <1>5

\* Whatever the mouse does with one button at a time, there is one gesture or
\* none.
LEMMA NextGestureInv ==
    GestureInv /\ [MouseNext]_<<part, vars, selectionVars, movementsVars>> => GestureInv'
<1> SUFFICES ASSUME GestureInv, [MouseNext]_<<part, vars, selectionVars, movementsVars>>
             PROVE  GestureInv'
  OBVIOUS
<1> DEFINE Same == UNCHANGED <<held, lock, preToggling, selecting, cursor, mouseState>>
<1>0. /\ held \subseteq MouseButtons /\ preToggling \subseteq Buttons
      /\ mouseState \in [pressed : BOOLEAN, moved : BOOLEAN] /\ part' = part
  BY DEF GestureInv, MouseNext
<1>1. ASSUME Same PROVE GestureInv'
  BY <1>0, <1>1 DEF GestureInv, Gesture, AtRest
<1>2. CASE SelectionStep \/ MovementsStep \/ UNCHANGED <<part, vars, selectionVars, movementsVars>>
  <2>1. UNCHANGED vars
    BY <1>2 DEF SelectionStep, MovementsStep
  <2> QED
    BY <1>1, <2>1 DEF vars, buttonVars
<1>3. ASSUME NEW b \in MouseButtons, Press(b), part = "one button" => Cardinality(held') <= 1
      PROVE  GestureInv'
  <2>1. held' = held \cup {b} /\ b \notin held
    BY <1>3 DEF Press
  <2>2. part = "one button" => held = {} /\ AtRest
    <3>1. part = "one button" => held = {}
      BY <1>0, <1>3, <2>1, OneAtATime
    <3> QED
      BY <3>1 DEF GestureInv
  <2>3. held' \subseteq MouseButtons
    BY <1>0, <2>1
  <2>4. mouseState' \in [pressed : BOOLEAN, moved : BOOLEAN]
    BY <1>0, <1>3 DEF Press, leftPressed
  <2>5. preToggling' \subseteq Buttons
    BY <1>0, <1>3 DEF Press, PressMap, PressButton, buttonVars
  <2>6. part = "one button" => held' = {b} /\ Gesture(b)'
    BY <1>3, <2>2, PressGesture
  <2> QED
    BY <1>0, <2>3, <2>4, <2>5, <2>6, Zenon DEF GestureInv, Gesture
<1>4. ASSUME NEW c \in MouseButtons, Release(c) PROVE GestureInv'
  <2>1. held' = held \ {c} /\ c \in held
    BY <1>4 DEF Release
  <2>2. mouseState' \in [pressed : BOOLEAN, moved : BOOLEAN]
    BY <1>0, <1>4 DEF Release, leftReleased, Idle
  <2>3. preToggling' \subseteq Buttons
    BY <1>0, <1>4 DEF Release, ReleaseMap, ReleaseButton, buttonVars
  <2>4. part = "one button" => held' = {} /\ AtRest'
    <3>1. part = "one button" => \E b \in MouseButtons : held = {b} /\ Gesture(b)
      BY <2>1 DEF GestureInv
    <3> QED
      BY <1>0, <1>4, <3>1, ReleaseGesture, Zenon
  <2> QED
    BY <1>0, <2>1, <2>2, <2>3, <2>4, Zenon DEF GestureInv, AtRest
<1>5. CASE Move
  <2>1. /\ UNCHANGED <<held, lock, selecting, preToggling>>
        /\ mouseState'.pressed = mouseState.pressed
        /\ mouseState'.moved = (mouseState.moved \/ mouseState.pressed)
        /\ cursor' = "resizeAll" => cursor = "resizeAll" \/ (lock = "map" /\ mouseState'.moved)
    BY <1>0, <1>5, MoveCursor
  <2>2. mouseState' \in [pressed : BOOLEAN, moved : BOOLEAN]
    BY <1>0, <1>5 DEF Move, mayBeDragging
  <2>3. AtRest => AtRest'
    <3>1. AtRest => lock # "map"
      BY DEF AtRest, None
    <3> QED
      BY <2>1, <3>1, Zenon DEF AtRest
  <2>4. ASSUME NEW b, Gesture(b) PROVE Gesture(b)'
    BY <2>1, <2>4, Zenon DEF Gesture
  <2> QED
    BY <1>0, <2>1, <2>2, <2>3, <2>4, Zenon DEF GestureInv, Gesture, AtRest
<1>6. CASE Viewport
  <2>1. UNCHANGED <<held, lock, preToggling, cursor, mouseState>> /\ selecting' = FALSE
    BY <1>6 DEF Viewport, buttonVars
  <2> QED
    BY <1>0, <2>1 DEF GestureInv, Gesture, AtRest
<1> QED
  BY <1>2, <1>3, <1>4, <1>5, <1>6 DEF MouseNext, EventsStep, Next

\* With one mouse button at a time, wherever it was pressed and released and
\* whatever was resized meanwhile, its release leaves nothing behind: no lock,
\* no widget about to be toggled, no selection, no cursor of a drag
\* (Toggleable.hpp:70-77, USApplication.cpp:395-430).
THEOREM GesturesAlwaysEnd == MouseSpec => []GesturesEnd
<1>1. GestureInv => GesturesEnd
  BY DEF GestureInv, GesturesEnd, AtRest
<1> QED
  BY <1>1, InitGestureInv, NextGestureInv, PTL DEF MouseSpec

-----------------------------------------------------------------------------
(* SelectionRect.                                                          *)

SelectionTypes ==
    /\ framebuffer \in Sizes
    /\ isSelecting \in BOOLEAN
    /\ vert \in [{1, 2} -> [at : Int \X Int, height : Nat]]
    /\ px \in [{1, 2} -> Nat \X Nat]

\* A corner's pixels and its vertex are the same point, of the window as it is.
SamePoint(c) ==
    /\ vert[c].at = <<px[c][1] - framebuffer[1] \div 2,
                      px[c][2] - framebuffer[2] + framebuffer[2] \div 2>>
    /\ vert[c].height = framebuffer[2]

Corners == isSelecting => \A c \in {1, 2} : SamePoint(c)

Inner == innerRect = [d \in {1, 2} |-> Padded(StandardizedRect({px[1], px[2]}, d))]

SelectionInv == SelectionTypes /\ Corners /\ (isSelecting => Inner)

\* Both corners handed to the snapshot zoom are fractions of one and the same
\* height, that of the window as it is (MapScaleHelper.hpp:63).
CornersComparable ==
    isSelecting => vert[1].height = framebuffer[2] /\ vert[2].height = framebuffer[2]

\* The least and the greatest of two numbers.
LEMMA MinMaxOfTwo ==
    ASSUME NEW a \in Int, NEW b \in Int
    PROVE  /\ Min({a, b}) = IF a <= b THEN a ELSE b
           /\ Max({a, b}) = IF a <= b THEN b ELSE a
<1>1. Min({a, b}) = IF a <= b THEN a ELSE b
  BY DEF Min
<1>2. Max({a, b}) = IF a <= b THEN b ELSE a
  BY DEF Max
<1> QED BY <1>1, <1>2

\* _getStandardizedRect() of two corners.
LEMMA Standardized ==
    ASSUME NEW p \in Int \X Int, NEW q \in Int \X Int, NEW d \in {1, 2}
    PROVE  StandardizedRect({p, q}, d) =
               [min |-> IF p[d] <= q[d] THEN p[d] ELSE q[d],
                max |-> IF p[d] <= q[d] THEN q[d] ELSE p[d]]
<1>1. p[d] \in Int /\ q[d] \in Int
  OBVIOUS
<1>2. {c[d] : c \in {p, q}} = {p[d], q[d]}
  OBVIOUS
<1> QED BY <1>1, <1>2, MinMaxOfTwo DEF StandardizedRect

\* A position of the mouse gives corners that are the same point.
LEMMA PositionIsPoint ==
    ASSUME framebuffer \in Sizes, NEW m \in Positions
    PROVE  /\ framebuffer[1] \in Nat \ {0} /\ framebuffer[2] \in Nat \ {0}
           /\ trVert(m) \in [at : Int \X Int, height : Nat]
           /\ trFrag(m) \in Nat \X Nat
           /\ trVert(m).at = <<trFrag(m)[1] - framebuffer[1] \div 2,
                               trFrag(m)[2] - framebuffer[2] + framebuffer[2] \div 2>>
           /\ trVert(m).height = framebuffer[2]
<1>1. framebuffer[1] \in Nat \ {0} /\ framebuffer[2] \in Nat \ {0}
  BY SizesAssumption
<1>2. m[1] \in 0..framebuffer[1] - 1 /\ m[2] \in 0..framebuffer[2] - 1
  BY DEF Positions
<1>3. framebuffer[1] \div 2 \in Int /\ framebuffer[2] \div 2 \in Int
  BY <1>1
<1> QED BY <1>1, <1>2, <1>3 DEF trVert, trFrag

\* Nothing is selected at the start.
LEMMA InitSelectionInv == SelectionInit => SelectionInv
<1> SUFFICES ASSUME SelectionInit PROVE SelectionInv
  OBVIOUS
<1>1. framebuffer[2] \in Nat
  BY SizesAssumption DEF SelectionInit
<1>2. SelectionTypes
  <2>1. framebuffer \in Sizes /\ isSelecting \in BOOLEAN
    BY DEF SelectionInit
  <2>2. vert \in [{1, 2} -> [at : Int \X Int, height : Nat]]
    BY <1>1 DEF SelectionInit
  <2>3. px \in [{1, 2} -> Nat \X Nat]
    BY DEF SelectionInit
  <2> QED BY <2>1, <2>2, <2>3 DEF SelectionTypes
<1>3. ~isSelecting
  BY DEF SelectionInit
<1> QED BY <1>2, <1>3 DEF SelectionInv, Corners

\* A first corner, or a second one, where there is a selection.
LEMMA UpdateSelectionInv ==
    ASSUME SelectionInv, NEW m \in Positions, updatefromPoint(m), isSelecting' \in BOOLEAN
    PROVE  SelectionInv'
<1>1. /\ framebuffer' = framebuffer /\ framebuffer \in Sizes /\ isSelecting
      /\ vert' = [vert EXCEPT ![2] = trVert(m)]
      /\ px' = [px EXCEPT ![2] = trFrag(m)]
  BY DEF updatefromPoint, SelectionInv, SelectionTypes
<1>2. SelectionTypes'
  BY <1>1, PositionIsPoint DEF SelectionInv, SelectionTypes
<1>3. SamePoint(1)'
  BY <1>1 DEF SelectionInv, SelectionTypes, Corners, SamePoint
<1>4. SamePoint(2)'
  BY <1>1, PositionIsPoint DEF SelectionInv, SelectionTypes, SamePoint
<1>5. Inner'
  BY DEF updatefromPoint, UpdateShaderData, Inner, Padded, StandardizedRect
<1> QED BY <1>2, <1>3, <1>4, <1>5 DEF SelectionInv, Corners

\* Every step keeps the invariant.
LEMMA NextSelectionInv == SelectionInv /\ [SelectionNext]_selectionVars => SelectionInv'
<1> SUFFICES ASSUME SelectionInv, [SelectionNext]_selectionVars PROVE SelectionInv'
  OBVIOUS
<1>1. ASSUME NEW m \in Positions, StartSelection(m) PROVE SelectionInv'
  <2>1. /\ framebuffer' = framebuffer /\ framebuffer \in Sizes /\ isSelecting' = TRUE
        /\ vert' = [c \in {1, 2} |-> trVert(m)]
        /\ px' = [c \in {1, 2} |-> trFrag(m)]
    BY <1>1 DEF StartSelection, SelectionInv, SelectionTypes
  <2>2. SelectionTypes'
    BY <2>1, PositionIsPoint DEF SelectionTypes
  <2>3. ASSUME NEW c \in {1, 2} PROVE SamePoint(c)'
    BY <2>1, PositionIsPoint DEF SamePoint
  <2>4. Inner'
    BY <1>1 DEF StartSelection, UpdateShaderData, Inner, Padded, StandardizedRect
  <2> QED BY <2>2, <2>3, <2>4 DEF SelectionInv, Corners
<1>2. ASSUME NEW m \in Positions, UpdateSelection(m) PROVE SelectionInv'
  BY <1>2, UpdateSelectionInv DEF UpdateSelection, SelectionInv, SelectionTypes
<1>3. ASSUME NEW m \in Positions, EndSelection(m) PROVE SelectionInv'
  BY <1>3, UpdateSelectionInv DEF EndSelection
<1>4. ASSUME NEW size \in Sizes, viewportEvent(size) PROVE SelectionInv'
  BY <1>4 DEF viewportEvent, SelectionInv, SelectionTypes, Corners
<1>5. CASE UNCHANGED selectionVars
  BY <1>5 DEF selectionVars, SelectionInv, SelectionTypes, Corners, SamePoint, Inner, Padded, StandardizedRect
<1> QED BY <1>1, <1>2, <1>3, <1>4, <1>5 DEF SelectionNext

\* The invariant holds for windows of every size.
THEOREM SelectionInvariance == SelectionSpec => []SelectionInv
BY InitSelectionInv, NextSelectionInv, PTL DEF SelectionSpec

\* Whatever the sizes of the window and however it is resized, both corners
\* handed to the zoom are fractions of the height of the window as it is.
THEOREM CornersAlwaysComparable == SelectionSpec => []CornersComparable
<1>1. SelectionInv => CornersComparable
  BY DEF SelectionInv, Corners, SamePoint, CornersComparable
<1> QED BY <1>1, SelectionInvariance, PTL

\* One side of the rectangle: what is filled, in half pixels, is the corners
\* with half a pixel more at most, where the size of the window is odd.
LEMMA FilledSide ==
    ASSUME NEW a \in Int, NEW b \in Int, NEW n \in Nat, NEW s \in Int,
           s = n \div 2 \/ s = n - n \div 2,
           NEW f, NEW i,
           f = [min |-> 2 * ((IF a <= b THEN a ELSE b) - s) + n,
                max |-> 2 * ((IF a <= b THEN b ELSE a) - s) + n],
           i = Padded([min |-> IF a <= b THEN a ELSE b, max |-> IF a <= b THEN b ELSE a]),
           f.min < f.max
    PROVE  /\ f.min <= i.min /\ i.max <= f.max
           /\ i.min - f.min <= 2 * BORDER_PX_WIDTH + 1
           /\ f.max - i.max <= 2 * BORDER_PX_WIDTH + 1
<1>1. 2 * s - n \in {-1, 0, 1}
  <2>1. n = 2 * (n \div 2) \/ n = 2 * (n \div 2) + 1
    OBVIOUS
  <2> QED BY <2>1
<1>2. BORDER_PX_WIDTH = 1
  BY DEF BORDER_PX_WIDTH
<1>3. CASE a <= b
  BY <1>1, <1>2, <1>3 DEF Padded
<1>4. CASE ~(a <= b)
  BY <1>1, <1>2, <1>4 DEF Padded
<1> QED BY <1>3, <1>4

\* For windows of every size, odd or even, and both directions of the mouse,
\* the border fits (SelectionRectState.hpp:84-147).
THEOREM BorderAlwaysFits == SelectionSpec => []BorderFits
<1>1. SelectionInv => BorderFits
  <2> SUFFICES ASSUME SelectionInv, isSelecting, NEW d \in {1, 2}, Filled(d).min < Filled(d).max
               PROVE  /\ Filled(d).min <= innerRect[d].min /\ innerRect[d].max <= Filled(d).max
                      /\ innerRect[d].min - Filled(d).min <= 2 * BORDER_PX_WIDTH + 1
                      /\ Filled(d).max - innerRect[d].max <= 2 * BORDER_PX_WIDTH + 1
    BY DEF BorderFits
  <2> DEFINE a == px[1][d]
             b == px[2][d]
             n == framebuffer[d]
             s == IF d = 1 THEN n \div 2 ELSE n - n \div 2
  <2>1. px[1] \in Int \X Int /\ px[2] \in Int \X Int /\ framebuffer \in Nat \X Nat
    BY SizesAssumption DEF SelectionInv, SelectionTypes
  <2>2. a \in Int /\ b \in Int /\ n \in Nat /\ n \div 2 \in Int
    BY <2>1
  <2>3. s \in Int /\ (s = n \div 2 \/ s = n - n \div 2)
    BY <2>2
  <2>4. innerRect[d] = Padded(StandardizedRect({px[1], px[2]}, d))
    BY DEF SelectionInv, Inner
  <2>5. StandardizedRect({px[1], px[2]}, d) =
            [min |-> IF a <= b THEN a ELSE b, max |-> IF a <= b THEN b ELSE a]
    BY <2>1, Standardized
  <2>6. vert[1].at \in Int \X Int /\ vert[2].at \in Int \X Int
    BY DEF SelectionInv, SelectionTypes
  <2>7. vert[1].at[d] = a - s /\ vert[2].at[d] = b - s
    BY <2>1, <2>2 DEF SelectionInv, Corners, SamePoint
  <2> HIDE DEF a, b, n, s
  <2>8. StandardizedRect({vert[1].at, vert[2].at}, d) =
            [min |-> (IF a <= b THEN a ELSE b) - s, max |-> (IF a <= b THEN b ELSE a) - s]
    <3>1. StandardizedRect({vert[1].at, vert[2].at}, d) =
              [min |-> IF vert[1].at[d] <= vert[2].at[d] THEN vert[1].at[d] ELSE vert[2].at[d],
               max |-> IF vert[1].at[d] <= vert[2].at[d] THEN vert[2].at[d] ELSE vert[1].at[d]]
      BY <2>6, Standardized
    <3>2. a - s <= b - s <=> a <= b
      BY <2>2, <2>3
    <3> QED BY <3>1, <3>2, <2>7
  <2>9. Filled(d) = [min |-> 2 * ((IF a <= b THEN a ELSE b) - s) + n,
                     max |-> 2 * ((IF a <= b THEN b ELSE a) - s) + n]
    BY <2>8 DEF Filled, n
  <2>10. innerRect[d] =
             Padded([min |-> IF a <= b THEN a ELSE b, max |-> IF a <= b THEN b ELSE a])
    BY <2>4, <2>5
  <2> QED BY ONLY <2>2, <2>3, <2>9, <2>10, FilledSide, Filled(d).min < Filled(d).max
<1> QED BY <1>1, SelectionInvariance, PTL

-----------------------------------------------------------------------------
(* MouseMovements.                                                         *)

Samples == Nat \X Int

Movements ==
    [buffer : Seq(Samples), cumulator : Int, ms : Int, count : Nat,
     total : Nat, last : Nat, credits : Nat]

\* The buffer holds the last movements of the drag.
HoldsLastMoves(buffer, drag) ==
    /\ Len(buffer) <= Len(drag)
    /\ \A i \in 1..Len(buffer) : buffer[i][2] = drag[(Len(drag) - Len(buffer)) + i]

\* The time of the buffer is what it was at the threshold, and the credits that
\* its oldest sample is still too long for.
MovementsInv ==
    /\ mm \in Movements
    /\ base \in 0..ACCELERATION_THRESHOLD_MS
    /\ moves \in Seq(Int)
    /\ mm.count = 0 => mm.total = 0 /\ mm.last = 0
    /\ mm.cumulator = SumOf(mm.buffer, 2)
    /\ mm.ms = SumOf(mm.buffer, 1)
    /\ HoldsLastMoves(mm.buffer, moves)
    /\ mm.ms = base + mm.credits
    /\ mm.total <= ACCELERATION_THRESHOLD_MS => mm.credits = 0 /\ base = mm.total
    /\ mm.total > ACCELERATION_THRESHOLD_MS /\ mm.buffer # << >> =>
          mm.credits < mm.buffer[1][1]
    /\ released.samples # 0 => released.ms > 0

\* The times, or the vectors, of some samples.
Column(samples, i) == [k \in DOMAIN samples |-> samples[k][i]]

\* A column is a sequence of numbers.
LEMMA ColumnIs ==
    ASSUME NEW b \in Seq(Samples), NEW i \in {1, 2}
    PROVE  /\ Column(b, i) \in Seq(Int) /\ Len(Column(b, i)) = Len(b)
           /\ \A k \in 1..Len(b) : Column(b, i)[k] = b[k][i]
<1>1. \A x \in Samples : x[i] \in Int
  BY DEF Samples
<1>2. \A k \in 1..Len(b) : b[k][i] \in Int
  BY <1>1
<1> QED
  BY <1>2 DEF Column

\* The sum of a column.
LEMMA SumOfColumn ==
    ASSUME NEW b, NEW i
    PROVE  SumOf(b, i) = Total(Column(b, i))
BY Zenon DEF SumOf, Total, Column

\* A column of a part is the part of the column.
LEMMA ColumnOfPart ==
    ASSUME NEW b \in Seq(Samples), NEW i \in {1, 2},
           NEW x \in 1..(Len(b) + 1), NEW y \in 0..Len(b), y + 1 >= x
    PROVE  Column(SubSeq(b, x, y), i) = SubSeq(Column(b, i), x, y)
<1>1. PICK c : c = SubSeq(b, x, y)
  OBVIOUS
<1>2. PICK n \in Nat : n = (y + 1) - x
  OBVIOUS
<1>3. c \in Seq(Samples) /\ Len(c) = n /\ \A k \in 1..n : c[k] = b[(x + k) - 1] /\ (x + k) - 1 \in 1..Len(b)
  BY <1>1, <1>2
<1>4. PICK e : e = Column(b, i)
  OBVIOUS
<1>5. e \in Seq(Int) /\ Len(e) = Len(b) /\ \A k \in 1..Len(b) : e[k] = b[k][i]
  BY ONLY <1>4, b \in Seq(Samples), i \in {1, 2}, ColumnIs
<1>6. PICK f : f = SubSeq(e, x, y)
  OBVIOUS
<1>7. f \in Seq(Int) /\ Len(f) = n /\ \A k \in 1..n : f[k] = e[(x + k) - 1]
  BY <1>2, <1>5, <1>6
<1>8. Column(c, i) = [k \in 1..n |-> c[k][i]]
  BY ONLY <1>3 DEF Column
<1>9. f = [k \in 1..n |-> f[k]]
  BY ONLY <1>7, n \in Nat
<1>10. \A k \in 1..n : c[k][i] = f[k]
  BY ONLY <1>3, <1>5, <1>7
<1> QED
  BY ONLY <1>1, <1>4, <1>6, <1>8, <1>9, <1>10

\* p[n] is the sum of the first n samples.
PartSums(p, b, i) ==
    /\ p \in [0..Len(b) -> Int]
    /\ p[0] = 0
    /\ SumOf(b, i) = p[Len(b)]
    /\ \A k \in 1..Len(b) : p[k] = p[k - 1] + b[k][i]
    /\ \A n \in 0..Len(b) : /\ SumOf(SubSeq(b, 1, n), i) = p[n]
                            /\ SumOf(SubSeq(b, n + 1, Len(b)), i) = p[Len(b)] - p[n]

\* There are such sums.
LEMMA PartSumsExist ==
    ASSUME NEW b \in Seq(Samples), NEW i \in {1, 2}
    PROVE  \E p : PartSums(p, b, i)
<1>1. PICK e : e = Column(b, i)
  OBVIOUS
<1>2. e \in Seq(Int) /\ Len(e) = Len(b) /\ \A k \in 1..Len(b) : e[k] = b[k][i]
  BY ONLY <1>1, b \in Seq(Samples), i \in {1, 2}, ColumnIs
<1>3. PICK p : Sums(p, e) /\ Total(e) = p[Len(e)]
  BY ONLY <1>2, TotalSums
<1>4. p \in [0..Len(b) -> Int] /\ p[0] = 0 /\ \A k \in 1..Len(b) : p[k] = p[k - 1] + b[k][i]
  BY ONLY <1>2, <1>3 DEF Sums
<1>5. SumOf(b, i) = p[Len(b)]
  BY ONLY <1>1, <1>2, <1>3, SumOfColumn
<1>6. ASSUME NEW n \in 0..Len(b)
      PROVE  /\ SumOf(SubSeq(b, 1, n), i) = p[n]
             /\ SumOf(SubSeq(b, n + 1, Len(b)), i) = p[Len(b)] - p[n]
  <2>1. /\ Total(SubSeq(e, 1, n)) = p[n]
        /\ Total(SubSeq(e, n + 1, Len(b))) = p[Len(b)] - p[n]
    BY ONLY <1>2, <1>3, n \in 0..Len(b), TotalOfParts
  <2>2. 1 \in 1..(Len(b) + 1) /\ n + 1 \in 1..(Len(b) + 1) /\ n \in 0..Len(b) /\ n + 1 >= 1
        /\ Len(b) \in 0..Len(b) /\ Len(b) + 1 >= n + 1
    OBVIOUS
  <2>3. Column(SubSeq(b, 1, n), i) = SubSeq(e, 1, n)
    BY ONLY <1>1, <2>2, b \in Seq(Samples), i \in {1, 2}, ColumnOfPart
  <2>4. Column(SubSeq(b, n + 1, Len(b)), i) = SubSeq(e, n + 1, Len(b))
    BY ONLY <1>1, <2>2, b \in Seq(Samples), i \in {1, 2}, ColumnOfPart
  <2> QED
    BY ONLY <2>1, <2>3, <2>4, SumOfColumn, Zenon
<1> QED
  BY ONLY <1>4, <1>5, <1>6 DEF PartSums

\* One more sample.
LEMMA SumOfAppend ==
    ASSUME NEW b \in Seq(Samples), NEW x \in Samples, NEW i \in {1, 2}
    PROVE  SumOf(Append(b, x), i) = SumOf(b, i) + x[i] /\ SumOf(b, i) \in Int
<1>1. PICK m \in Nat : m = Len(b)
  OBVIOUS
<1>2. PICK r : r = Append(b, x)
  OBVIOUS
<1>3. r \in Seq(Samples) /\ Len(r) = m + 1 /\ r[m + 1] = x /\ \A k \in 1..m : r[k] = b[k]
  BY <1>1, <1>2
<1>4. PICK p : PartSums(p, r, i)
  BY ONLY <1>3, i \in {1, 2}, PartSumsExist
<1>5. SubSeq(r, 1, m) = b
  BY ONLY <1>1, <1>3, b \in Seq(Samples), m \in Nat
<1>6. SumOf(b, i) = p[m] /\ SumOf(r, i) = p[m + 1] /\ p[m + 1] = p[m] + x[i] /\ p[m] \in Int
  <2>1. m \in 0..Len(r) /\ m + 1 \in 1..Len(r) /\ (m + 1) - 1 = m
    BY ONLY <1>3, m \in Nat
  <2> QED
    BY ONLY <1>3, <1>4, <1>5, <2>1 DEF PartSums
<1> QED
  BY ONLY <1>2, <1>6, Zenon

\* Credits always pay for some number of samples, and not for one more.
LEMMA PaidIs ==
    ASSUME NEW b \in Seq(Samples), NEW c \in Nat, NEW p, PartSums(p, b, 1)
    PROVE  /\ Paid(b, c) \in 0..Len(b)
           /\ p[Paid(b, c)] <= c
           /\ Paid(b, c) < Len(b) => p[Paid(b, c) + 1] > c
<1>1. PICK m \in Nat : m = Len(b)
  OBVIOUS
<1>2. p \in [0..m -> Int] /\ p[0] = 0 /\ \A n \in 0..m : SumOf(SubSeq(b, 1, n), 1) = p[n]
  BY <1>1 DEF PartSums
<1>3. \E n \in 0..m : p[n] <= c /\ (n < m => p[n + 1] > c)
  <2> DEFINE over == {k \in 0..m : p[k] > c}
  <2>1. CASE over = {}
    <3>1. m \in 0..m /\ ~(p[m] > c) /\ p[m] \in Int
      BY ONLY <1>2, <2>1, m \in Nat
    <3> QED
      BY ONLY <3>1, c \in Nat, m \in Nat
  <2>2. CASE over # {}
    <3>1. over \subseteq Nat
      OBVIOUS
    <3>2. PICK k \in over : \A l \in over : k <= l
      <4> HIDE DEF over
      <4> QED
        BY <2>2, <3>1, LeastNat
    <3>3. k \in 0..m /\ p[k] > c
      BY <3>2
    <3>4. k # 0
      BY <1>2, <3>3
    <3>5. PICK n \in 0..m : n + 1 = k /\ n < k
      BY <3>3, <3>4
    <3>6. n \notin over
      BY ONLY <3>2, <3>3, <3>5
    <3>7. p[n] <= c
      BY ONLY <1>2, <3>6, n \in 0..m, c \in Nat
    <3> QED
      BY ONLY <3>3, <3>5, <3>7, n \in 0..m
  <2> QED
    BY <2>1, <2>2
<1>4. \E n \in 0..Len(b) : /\ SumOf(SubSeq(b, 1, n), 1) <= c
                           /\ n < Len(b) => SumOf(SubSeq(b, 1, n + 1), 1) > c
  <2>1. PICK n \in 0..m : p[n] <= c /\ (n < m => p[n + 1] > c)
    BY <1>3
  <2>2. n < m => n + 1 \in 0..m
    BY ONLY n \in 0..m, m \in Nat
  <2> QED
    BY ONLY <1>1, <1>2, <2>1, <2>2
<1>5. PICK n : n = Paid(b, c)
  OBVIOUS
<1>6. /\ n \in 0..m /\ SumOf(SubSeq(b, 1, n), 1) <= c
      /\ n < m => SumOf(SubSeq(b, 1, n + 1), 1) > c
  BY ONLY <1>1, <1>4, <1>5, Zenon DEF Paid
<1>7. n < m => n + 1 \in 0..m
  BY ONLY <1>6, m \in Nat
<1> QED
  BY ONLY <1>1, <1>2, <1>5, <1>6, <1>7

\* r is what mayReduce() leaves of m: its n oldest samples are gone, and with
\* them the time g and the vector v.
Reduction(r, m, n, g, v) ==
    /\ r \in Movements
    /\ r.count = m.count /\ r.total = m.total /\ r.last = m.last
    /\ r.credits = (m.credits + m.last) - g
    /\ r.ms = m.ms - g
    /\ r.cumulator = m.cumulator - v
    /\ r.buffer = SubSeq(m.buffer, n + 1, Len(m.buffer))
    /\ SumOf(r.buffer, 1) = SumOf(m.buffer, 1) - g
    /\ SumOf(r.buffer, 2) = SumOf(m.buffer, 2) - v
    /\ r.buffer # << >> => r.credits < r.buffer[1][1]

\* After the threshold, mayReduce() pays for what it drops and keeps credits
\* for less than a sample.
LEMMA Reduces ==
    ASSUME NEW m \in Movements, m.total > ACCELERATION_THRESHOLD_MS
    PROVE  \E n \in 0..Len(m.buffer), g \in Int, v \in Int : Reduction(mayReduce(m), m, n, g, v)
<1>1. PICK b \in Seq(Samples) : b = m.buffer
  BY DEF Movements
<1>2. PICK c \in Nat : c = m.credits + m.last
  BY DEF Movements
<1>3. PICK p : PartSums(p, b, 1)
  BY PartSumsExist
<1>4. PICK q : PartSums(q, b, 2)
  BY PartSumsExist
<1>5. PICK n : n = Paid(b, c)
  OBVIOUS
<1>6. n \in 0..Len(b) /\ p[n] <= c /\ (n < Len(b) => p[n + 1] > c)
  BY ONLY <1>3, <1>5, b \in Seq(Samples), c \in Nat, PaidIs
<1>7. PICK g \in Int : g = p[n] /\ g = SumOf(SubSeq(b, 1, n), 1)
  BY ONLY <1>3, <1>6 DEF PartSums
<1>8. PICK v \in Int : v = q[n] /\ v = SumOf(SubSeq(b, 1, n), 2)
  BY ONLY <1>4, <1>6 DEF PartSums
<1>9. PICK e \in Seq(Samples) : e = SubSeq(b, n + 1, Len(b))
  <2>1. PICK l \in Nat : l = Len(b)
    OBVIOUS
  <2>2. PICK x \in 1..(l + 1) : x = n + 1
    BY ONLY <1>6, <2>1, l \in Nat
  <2>3. SubSeq(b, x, l) \in Seq(Samples)
    BY ONLY <2>1, b \in Seq(Samples), l \in Nat, x \in 1..(l + 1)
  <2> QED
    BY ONLY <2>1, <2>2, <2>3, Zenon
<1>10. mayReduce(m) = [buffer |-> e, cumulator |-> m.cumulator - v, ms |-> m.ms - g, count |-> m.count,
                       total |-> m.total, last |-> m.last, credits |-> c - g]
  <2>1. PICK d : d = [m EXCEPT !.credits = c]
    OBVIOUS
  <2>2. d = [buffer |-> b, cumulator |-> m.cumulator, ms |-> m.ms, count |-> m.count,
             total |-> m.total, last |-> m.last, credits |-> c]
    BY ONLY <1>1, <2>1, m \in Movements DEF Movements
  <2>3. mayReduce(m) = PopFront(d, n)
    <3>1. [m EXCEPT !.credits = @ + m.last] = d
      BY ONLY <1>2, <2>1, m \in Movements DEF Movements
    <3>2. d.buffer = b /\ d.credits = c
      BY ONLY <2>2
    <3> QED
      BY ONLY <1>5, <3>1, <3>2, m.total > ACCELERATION_THRESHOLD_MS, Zenon DEF mayReduce
  <2>4. PopFront(d, n) = [d EXCEPT !.credits = c - g, !.ms = m.ms - g, !.cumulator = m.cumulator - v,
                                   !.buffer = e]
    <3>1. d.buffer = b /\ d.credits = c /\ d.ms = m.ms /\ d.cumulator = m.cumulator
      BY ONLY <2>2
    <3>2. PopFront(d, n) = [d EXCEPT !.credits = d.credits - g, !.ms = d.ms - g, !.cumulator = d.cumulator - v,
                                     !.buffer = SubSeq(d.buffer, n + 1, Len(d.buffer))]
      BY ONLY <1>7, <1>8, <3>1 DEF PopFront
    <3> QED
      BY ONLY <1>9, <3>1, <3>2, Zenon
  <2>5. \A b2, t2, ms2, c2 : [d EXCEPT !.credits = c2, !.ms = ms2, !.cumulator = t2, !.buffer = b2] =
           [buffer |-> b2, cumulator |-> t2, ms |-> ms2, count |-> m.count,
            total |-> m.total, last |-> m.last, credits |-> c2]
    <3> TAKE b2, t2, ms2, c2
    <3>1. PICK d1 : d1 = [d EXCEPT !.credits = c2]
      OBVIOUS
    <3>2. d1 = [buffer |-> b, cumulator |-> m.cumulator, ms |-> m.ms, count |-> m.count,
                total |-> m.total, last |-> m.last, credits |-> c2]
      BY ONLY <2>2, <3>1
    <3>3. PICK d2 : d2 = [d1 EXCEPT !.ms = ms2]
      OBVIOUS
    <3>4. d2 = [buffer |-> b, cumulator |-> m.cumulator, ms |-> ms2, count |-> m.count,
                total |-> m.total, last |-> m.last, credits |-> c2]
      BY ONLY <3>2, <3>3
    <3>5. PICK d3 : d3 = [d2 EXCEPT !.cumulator = t2]
      OBVIOUS
    <3>6. d3 = [buffer |-> b, cumulator |-> t2, ms |-> ms2, count |-> m.count,
                total |-> m.total, last |-> m.last, credits |-> c2]
      BY ONLY <3>4, <3>5
    <3>7. [d3 EXCEPT !.buffer = b2] =
          [buffer |-> b2, cumulator |-> t2, ms |-> ms2, count |-> m.count,
           total |-> m.total, last |-> m.last, credits |-> c2]
      BY ONLY <3>6
    <3>8. [d EXCEPT !.credits = c2, !.ms = ms2, !.cumulator = t2, !.buffer = b2] =
          [[[[d EXCEPT !.credits = c2] EXCEPT !.ms = ms2] EXCEPT !.cumulator = t2] EXCEPT !.buffer = b2]
      BY ONLY TRUE
    <3> QED
      BY ONLY <3>1, <3>3, <3>5, <3>7, <3>8, Zenon
  <2> QED
    BY ONLY <2>3, <2>4, <2>5, Zenon
<1>11. PICK r : r = mayReduce(m)
  OBVIOUS
<1>12. /\ r.buffer = e /\ r.cumulator = m.cumulator - v /\ r.ms = m.ms - g /\ r.count = m.count
       /\ r.total = m.total /\ r.last = m.last /\ r.credits = c - g
  BY ONLY <1>10, <1>11
<1>13. r \in Movements
  <2>1. m.cumulator - v \in Int /\ m.ms - g \in Int /\ m.count \in Nat /\ m.total \in Nat /\ m.last \in Nat
    BY ONLY m \in Movements, v \in Int, g \in Int DEF Movements
  <2>2. c - g \in Nat
    BY ONLY <1>6, <1>7, c \in Nat, g \in Int
  <2> QED
    BY ONLY <1>10, <1>11, <2>1, <2>2, e \in Seq(Samples) DEF Movements
<1>14. SumOf(e, 1) = SumOf(b, 1) - g /\ SumOf(e, 2) = SumOf(b, 2) - v
  BY ONLY <1>3, <1>4, <1>6, <1>7, <1>8, <1>9 DEF PartSums
<1>15. ASSUME e # << >> PROVE c - g < e[1][1]
  <2>1. n < Len(b) /\ n + 1 \in 1..Len(b) /\ (n + 1) - 1 = n
    BY ONLY <1>6, <1>9, <1>15, b \in Seq(Samples)
  <2>2. e[1] = b[n + 1]
    BY ONLY <1>9, <2>1, b \in Seq(Samples)
  <2>3. p[n + 1] = g + b[n + 1][1] /\ p[n + 1] > c
    BY ONLY <1>3, <1>6, <1>7, <2>1 DEF PartSums
  <2>4. b[n + 1][1] \in Int
    BY ONLY <2>1, b \in Seq(Samples) DEF Samples
  <2> QED
    BY ONLY <2>2, <2>3, <2>4, g \in Int, c \in Nat
<1>16. Reduction(r, m, n, g, v)
  BY ONLY <1>1, <1>2, <1>9, <1>12, <1>13, <1>14, <1>15 DEF Reduction
<1> QED
  BY ONLY <1>1, <1>6, <1>11, <1>16, g \in Int, v \in Int

\* updateAccelerationTime() adds the same time everywhere; for the first sample
\* it is 0.
LEMMA TimeAdded ==
    ASSUME NEW m \in Movements, m.count = 0 => m.total = 0 /\ m.last = 0, NEW delay \in Nat
    PROVE  \E e \in Nat : updateAccelerationTime(m, delay) =
              [buffer |-> m.buffer, cumulator |-> m.cumulator, ms |-> m.ms + e, count |-> m.count,
               total |-> m.total + e, last |-> e, credits |-> m.credits]
<1>1. CASE m.count = 0
  <2>1. m = [buffer |-> m.buffer, cumulator |-> m.cumulator, ms |-> m.ms, count |-> m.count,
             total |-> m.total, last |-> m.last, credits |-> m.credits]
    BY DEF Movements
  <2>2. m.ms = m.ms + 0 /\ m.total = m.total + 0 /\ m.last = 0
    BY <1>1 DEF Movements
  <2>3. updateAccelerationTime(m, delay) = m
    BY <1>1 DEF updateAccelerationTime
  <2>4. m = [buffer |-> m.buffer, cumulator |-> m.cumulator, ms |-> m.ms + 0, count |-> m.count,
             total |-> m.total + 0, last |-> 0, credits |-> m.credits]
    BY ONLY <2>1, <2>2, Zenon
  <2> QED
    BY ONLY <2>3, <2>4
<1>2. CASE m.count # 0
  <2>1. updateAccelerationTime(m, delay) = [m EXCEPT !.last = delay, !.total = @ + delay, !.ms = @ + delay]
    BY <1>2 DEF updateAccelerationTime
  <2>2. PICK d : d = [m EXCEPT !.last = delay]
    OBVIOUS
  <2>3. d = [buffer |-> m.buffer, cumulator |-> m.cumulator, ms |-> m.ms, count |-> m.count,
             total |-> m.total, last |-> delay, credits |-> m.credits]
    BY ONLY <2>2, m \in Movements DEF Movements
  <2>4. PICK d1 : d1 = [d EXCEPT !.total = @ + delay]
    OBVIOUS
  <2>5. d1 = [buffer |-> m.buffer, cumulator |-> m.cumulator, ms |-> m.ms, count |-> m.count,
              total |-> m.total + delay, last |-> delay, credits |-> m.credits]
    BY ONLY <2>3, <2>4
  <2>6. [d1 EXCEPT !.ms = @ + delay] =
        [buffer |-> m.buffer, cumulator |-> m.cumulator, ms |-> m.ms + delay, count |-> m.count,
         total |-> m.total + delay, last |-> delay, credits |-> m.credits]
    BY ONLY <2>5
  <2>7. [m EXCEPT !.last = delay, !.total = @ + delay, !.ms = @ + delay] =
        [[[m EXCEPT !.last = delay] EXCEPT !.total = @ + delay] EXCEPT !.ms = @ + delay]
    BY ONLY TRUE
  <2>8. updateAccelerationTime(m, delay) = [d1 EXCEPT !.ms = @ + delay]
    BY ONLY <2>1, <2>2, <2>4, <2>7, Zenon
  <2> QED
    BY ONLY <2>6, <2>8, delay \in Nat
<1> QED
  BY <1>1, <1>2

\* At the start nothing has moved.
LEMMA ResetMovements ==
    ASSUME NEW z, z = resetAccelerationBuffer
    PROVE  /\ z \in Movements /\ z.buffer = << >> /\ z.cumulator = 0 /\ z.ms = 0 /\ z.total = 0
           /\ z.last = 0 /\ z.credits = 0
           /\ SumOf(z.buffer, 1) = 0 /\ SumOf(z.buffer, 2) = 0
<1>1. z.buffer = << >>
  BY DEF resetAccelerationBuffer
<1>2. Column(<< >>, 1) = << >> /\ Column(<< >>, 2) = << >>
  BY DEF Column
<1>3. SumOf(<< >>, 1) = 0 /\ SumOf(<< >>, 2) = 0
  BY ONLY <1>2, SumOfColumn, TotalEmpty
<1>4. z \in Movements
  BY DEF resetAccelerationBuffer, Movements
<1> QED
  BY <1>1, <1>3, <1>4 DEF resetAccelerationBuffer

\* What a reset makes of the invariant.
LEMMA ResetKeeps ==
    ASSUME mm' = resetAccelerationBuffer, base' = 0, moves' = << >>,
           released'.samples # 0 => released'.ms > 0
    PROVE  MovementsInv'
<1>1. PICK z : z = resetAccelerationBuffer
  OBVIOUS
<1>2. /\ z \in Movements /\ z.buffer = << >> /\ z.cumulator = 0 /\ z.ms = 0 /\ z.total = 0
      /\ z.last = 0 /\ z.credits = 0
      /\ SumOf(z.buffer, 1) = 0 /\ SumOf(z.buffer, 2) = 0
  BY ONLY <1>1, ResetMovements
<1>3. mm' = z
  BY <1>1
<1>4. HoldsLastMoves(z.buffer, << >>) /\ << >> \in Seq(Int)
  BY <1>2 DEF HoldsLastMoves
<1>5. 0 \in 0..ACCELERATION_THRESHOLD_MS /\ ~(0 > ACCELERATION_THRESHOLD_MS) /\ 0 = 0 + 0
  BY MouseMovementsAssumption
<1> QED
  BY ONLY <1>2, <1>3, <1>4, <1>5, base' = 0, moves' = << >>,
          released'.samples # 0 => released'.ms > 0, Zenon DEF MovementsInv

\* A movement of the mouse.
LEMMA AddKeeps ==
    ASSUME MovementsInv, NEW delay \in Delays, NEW v \in Vectors, addToAccelerationBuffer(delay, v)
    PROVE  MovementsInv'
<1>1. delay \in Nat /\ v \in Int /\ ACCELERATION_THRESHOLD_MS \in Nat
  BY MouseMovementsAssumption
<1>2. /\ mm \in Movements /\ base \in 0..ACCELERATION_THRESHOLD_MS /\ moves \in Seq(Int)
      /\ mm.cumulator = SumOf(mm.buffer, 2) /\ mm.ms = SumOf(mm.buffer, 1)
      /\ HoldsLastMoves(mm.buffer, moves) /\ mm.ms = base + mm.credits
      /\ mm.total <= ACCELERATION_THRESHOLD_MS => mm.credits = 0 /\ base = mm.total
      /\ mm.count = 0 => mm.total = 0 /\ mm.last = 0
  BY DEF MovementsInv
<1>3. PICK e \in Nat : updateAccelerationTime(mm, delay) =
        [buffer |-> mm.buffer, cumulator |-> mm.cumulator, ms |-> mm.ms + e, count |-> mm.count,
         total |-> mm.total + e, last |-> e, credits |-> mm.credits]
  BY ONLY <1>1, <1>2, TimeAdded
<1>4. PICK t : t = updateAccelerationTime(mm, delay)
  OBVIOUS
<1>5. PICK q : q = Pushed(t, v)
  OBVIOUS
<1>6. /\ mm' = mayReduce(q)
      /\ base' = IF t.total > ACCELERATION_THRESHOLD_MS THEN base ELSE t.total
      /\ moves' = Append(moves, v)
      /\ released'.samples = 0
  BY <1>4, <1>5 DEF addToAccelerationBuffer, NoTranslation
<1>7. /\ mm.buffer \in Seq(Samples) /\ mm.cumulator \in Int /\ mm.ms \in Int /\ mm.count \in Nat
      /\ mm.total \in Nat /\ mm.credits \in Nat /\ base \in Nat
  BY ONLY <1>1, <1>2 DEF Movements
<1>8. PICK x \in Samples : x = <<e, v>> /\ x[1] = e /\ x[2] = v
  <2>1. PICK x : x = <<e, v>>
    OBVIOUS
  <2>2. x \in Samples /\ x[1] = e /\ x[2] = v
    BY ONLY <1>1, <2>1, e \in Nat DEF Samples
  <2> QED
    BY ONLY <2>1, <2>2
<1>9. q = [buffer |-> Append(mm.buffer, x), cumulator |-> mm.cumulator + v, ms |-> mm.ms + e,
           count |-> mm.count + 1, total |-> mm.total + e, last |-> e, credits |-> mm.credits]
  <2>1. t = [buffer |-> mm.buffer, cumulator |-> mm.cumulator, ms |-> mm.ms + e, count |-> mm.count,
             total |-> mm.total + e, last |-> e, credits |-> mm.credits]
    BY ONLY <1>3, <1>4, Zenon
  <2>2. t.buffer = mm.buffer /\ t.cumulator = mm.cumulator /\ t.count = mm.count /\ t.last = e
    BY ONLY <2>1
  <2>3. q = [t EXCEPT !.cumulator = t.cumulator + v, !.count = t.count + 1,
                      !.buffer = Append(t.buffer, <<t.last, v>>)]
    BY ONLY <1>5 DEF Pushed
  <2>4. PICK a, b, c, d : a = t.cumulator + v /\ b = t.count + 1 /\ c = Append(t.buffer, <<t.last, v>>)
                          /\ d = mm.ms + e
    OBVIOUS
  <2>5. PICK h : h = mm.total + e
    OBVIOUS
  <2>6. t = [buffer |-> mm.buffer, cumulator |-> mm.cumulator, ms |-> d, count |-> mm.count,
             total |-> h, last |-> e, credits |-> mm.credits]
    BY ONLY <2>1, <2>4, <2>5, Zenon
  <2>7. PICK t1 : t1 = [t EXCEPT !.cumulator = a]
    OBVIOUS
  <2>8. t1 = [buffer |-> mm.buffer, cumulator |-> a, ms |-> d, count |-> mm.count,
              total |-> h, last |-> e, credits |-> mm.credits]
    BY ONLY <2>6, <2>7
  <2>9. PICK t2 : t2 = [t1 EXCEPT !.count = b]
    OBVIOUS
  <2>10. t2 = [buffer |-> mm.buffer, cumulator |-> a, ms |-> d, count |-> b,
               total |-> h, last |-> e, credits |-> mm.credits]
    BY ONLY <2>8, <2>9
  <2>11. [t2 EXCEPT !.buffer = c] = [buffer |-> c, cumulator |-> a, ms |-> d, count |-> b,
               total |-> h, last |-> e, credits |-> mm.credits]
    BY ONLY <2>10
  <2>12. [t EXCEPT !.cumulator = a, !.count = b, !.buffer = c] =
         [[[t EXCEPT !.cumulator = a] EXCEPT !.count = b] EXCEPT !.buffer = c]
    BY ONLY TRUE
  <2>13. q = [buffer |-> c, cumulator |-> a, ms |-> d, count |-> b,
              total |-> h, last |-> e, credits |-> mm.credits]
    BY ONLY <2>3, <2>4, <2>7, <2>9, <2>11, <2>12, Zenon
  <2> QED
    BY ONLY <1>8, <2>2, <2>4, <2>5, <2>13, Zenon
<1>10. /\ q.buffer = Append(mm.buffer, x) /\ q.cumulator = mm.cumulator + v /\ q.ms = mm.ms + e
       /\ q.count = mm.count + 1 /\ q.total = mm.total + e /\ q.last = e /\ q.credits = mm.credits
  BY ONLY <1>9
<1>11. q \in Movements
  <2>1. Append(mm.buffer, x) \in Seq(Samples)
    BY ONLY <1>7, x \in Samples
  <2>2. mm.cumulator + v \in Int /\ mm.ms + e \in Int /\ mm.count + 1 \in Nat /\ mm.total + e \in Nat
    <3>1. mm.cumulator \in Int /\ mm.ms \in Int /\ mm.count \in Nat /\ mm.total \in Nat /\ v \in Int
      BY ONLY <1>1, <1>7, Zenon
    <3> QED
      BY ONLY <3>1, e \in Nat
  <2> QED
    BY ONLY <1>7, <1>9, <2>1, <2>2, e \in Nat DEF Movements
<1>12. q.ms = SumOf(q.buffer, 1) /\ q.cumulator = SumOf(q.buffer, 2)
  <2>1. SumOf(Append(mm.buffer, x), 1) = SumOf(mm.buffer, 1) + x[1]
    BY ONLY <1>7, x \in Samples, SumOfAppend
  <2>2. SumOf(Append(mm.buffer, x), 2) = SumOf(mm.buffer, 2) + x[2]
    BY ONLY <1>7, x \in Samples, SumOfAppend
  <2> QED
    BY ONLY <1>2, <1>8, <1>10, <2>1, <2>2, Zenon
<1>13. HoldsLastMoves(q.buffer, moves') /\ moves' \in Seq(Int)
  <2>1. PICK b \in Seq(Samples) : b = mm.buffer
    BY ONLY <1>7
  <2>2. PICK w : w = moves'
    OBVIOUS
  <2>3. PICK k \in Nat, l \in Nat : k = Len(b) /\ l = Len(moves)
    BY ONLY <1>2, b \in Seq(Samples)
  <2>4. w \in Seq(Int) /\ Len(w) = l + 1 /\ w[l + 1] = v /\ \A i \in 1..l : w[i] = moves[i]
    BY ONLY <1>1, <1>2, <1>6, <2>2, <2>3
  <2>5. PICK a : a = Append(b, x)
    OBVIOUS
  <2>6. Len(a) = k + 1 /\ a[k + 1] = x /\ \A i \in 1..k : a[i] = b[i]
    BY ONLY <2>3, <2>5, b \in Seq(Samples), x \in Samples
  <2>7. k <= l /\ \A i \in 1..k : b[i][2] = moves[(l - k) + i]
    BY ONLY <1>2, <2>1, <2>3 DEF HoldsLastMoves
  <2>8. ASSUME NEW i \in 1..(k + 1) PROVE a[i][2] = w[((l + 1) - (k + 1)) + i]
    <3>1. CASE i = k + 1
      <4>1. ((l + 1) - (k + 1)) + i = l + 1
        BY ONLY <3>1, k \in Nat, l \in Nat
      <4> QED
        BY ONLY <1>8, <2>4, <2>6, <3>1, <4>1, Zenon
    <3>2. CASE i # k + 1
      <4>1. i \in 1..k /\ (l - k) + i \in 1..l /\ ((l + 1) - (k + 1)) + i = (l - k) + i
        BY ONLY <2>7, <3>2, i \in 1..(k + 1), k \in Nat, l \in Nat
      <4> QED
        BY ONLY <2>4, <2>6, <2>7, <4>1, Zenon
    <3> QED
      BY ONLY <3>1, <3>2
  <2>9. k + 1 <= l + 1
    BY ONLY <2>7, k \in Nat, l \in Nat
  <2>10. HoldsLastMoves(a, w)
    BY ONLY <2>4, <2>6, <2>8, <2>9 DEF HoldsLastMoves
  <2> QED
    BY ONLY <1>10, <2>1, <2>2, <2>4, <2>5, <2>10, Zenon
<1>14. t.total = q.total /\ q.total \in Nat
  <2>1. t.total = mm.total + e
    BY ONLY <1>3, <1>4
  <2> QED
    BY ONLY <1>10, <1>11, <2>1 DEF Movements
<1>15. CASE q.total <= ACCELERATION_THRESHOLD_MS
  <2>1. ~(q.total > ACCELERATION_THRESHOLD_MS) /\ mm.total <= ACCELERATION_THRESHOLD_MS
        /\ q.total \in 0..ACCELERATION_THRESHOLD_MS
    <3>1. q.total = mm.total + e /\ mm.total \in Nat /\ q.total \in Nat /\ ACCELERATION_THRESHOLD_MS \in Nat
      BY ONLY <1>1, <1>7, <1>10, <1>14, Zenon
    <3> QED
      BY ONLY <1>15, <3>1, e \in Nat
  <2>2. mm' = q /\ base' = q.total
    BY ONLY <1>6, <1>14, <2>1, Zenon DEF mayReduce
  <2>3. q.credits = 0 /\ q.ms = q.total + q.credits /\ q.count # 0
    <3>1. mm.credits = 0 /\ base = mm.total /\ mm.ms = base + mm.credits
      BY ONLY <1>2, <2>1, Zenon
    <3>2. /\ q.credits = mm.credits /\ q.ms = mm.ms + e /\ q.total = mm.total + e /\ q.count = mm.count + 1
          /\ mm.total \in Nat /\ mm.count \in Nat
      BY ONLY <1>7, <1>10, Zenon
    <3> QED
      BY ONLY <3>1, <3>2, e \in Nat
  <2> QED
    BY ONLY <1>6, <1>11, <1>12, <1>13, <2>1, <2>2, <2>3, Zenon DEF MovementsInv
<1>16. CASE ~(q.total <= ACCELERATION_THRESHOLD_MS)
  <2>1. q.total > ACCELERATION_THRESHOLD_MS
    BY ONLY <1>1, <1>14, <1>16
  <2>2. base' = base
    BY ONLY <1>6, <1>14, <2>1, Zenon
  <2>3. PICK n \in 0..Len(q.buffer), g \in Int, u \in Int : Reduction(mm', q, n, g, u)
    BY ONLY <1>6, <1>11, <2>1, Reduces
  <2>4. /\ mm' \in Movements /\ mm'.count = q.count /\ mm'.total = q.total
        /\ mm'.credits = (q.credits + q.last) - g /\ mm'.ms = q.ms - g /\ mm'.cumulator = q.cumulator - u
        /\ mm'.buffer = SubSeq(q.buffer, n + 1, Len(q.buffer))
        /\ SumOf(mm'.buffer, 1) = SumOf(q.buffer, 1) - g /\ SumOf(mm'.buffer, 2) = SumOf(q.buffer, 2) - u
        /\ mm'.buffer # << >> => mm'.credits < mm'.buffer[1][1]
    BY ONLY <2>3, Zenon DEF Reduction
  <2>5. mm'.ms = base + mm'.credits
    <3>1. mm'.credits = (mm.credits + e) - g /\ mm'.ms = (mm.ms + e) - g
      BY ONLY <1>10, <2>4, Zenon
    <3>2. mm.ms = base + mm.credits /\ base \in Nat /\ mm.credits \in Nat
      BY ONLY <1>2, <1>7, Zenon
    <3> QED
      BY ONLY <3>1, <3>2, e \in Nat, g \in Int
  <2>6. mm'.count # 0
    <3>1. mm'.count = mm.count + 1 /\ mm.count \in Nat
      BY ONLY <1>7, <1>10, <2>4, Zenon
    <3> QED
      BY ONLY <3>1
  <2>7. mm'.cumulator = SumOf(mm'.buffer, 2) /\ mm'.ms = SumOf(mm'.buffer, 1)
    BY ONLY <1>12, <2>4, Zenon
  <2>8. HoldsLastMoves(mm'.buffer, moves')
    <3>1. PICK b \in Seq(Samples) : b = q.buffer
      BY ONLY <1>11 DEF Movements
    <3>2. PICK w : w = moves'
      OBVIOUS
    <3>3. PICK k \in Nat, l \in Nat : k = Len(b) /\ l = Len(w)
      BY ONLY <1>13, <3>2, b \in Seq(Samples)
    <3>4. n \in 0..k /\ k <= l /\ \A i \in 1..k : b[i][2] = w[(l - k) + i]
      BY ONLY <1>13, <3>1, <3>2, <3>3, n \in 0..Len(q.buffer) DEF HoldsLastMoves
    <3>5. PICK a : a = SubSeq(b, n + 1, k)
      OBVIOUS
    <3>6. Len(a) = k - n /\ \A i \in 1..(k - n) : a[i] = b[n + i]
      BY ONLY <3>3, <3>4, <3>5, b \in Seq(Samples), k \in Nat
    <3>7. ASSUME NEW i \in 1..(k - n) PROVE a[i][2] = w[(l - (k - n)) + i]
      <4>1. n + i \in 1..k /\ (l - k) + (n + i) = (l - (k - n)) + i
        BY ONLY <3>4, i \in 1..(k - n), k \in Nat, l \in Nat
      <4> QED
        BY ONLY <3>4, <3>6, <4>1, Zenon
    <3>8. k - n <= l
      BY ONLY <3>4, k \in Nat, l \in Nat
    <3>9. HoldsLastMoves(a, w)
      BY ONLY <3>3, <3>6, <3>7, <3>8 DEF HoldsLastMoves
    <3> QED
      BY ONLY <2>4, <3>1, <3>2, <3>3, <3>5, <3>9, Zenon
  <2>9. ~(mm'.total <= ACCELERATION_THRESHOLD_MS)
    BY ONLY <1>16, <2>4, Zenon
  <2> QED
    BY ONLY <1>2, <1>6, <1>13, <2>2, <2>4, <2>5, <2>6, <2>7, <2>8, <2>9, Zenon DEF MovementsInv
<1> QED
  BY <1>15, <1>16

\* The release: what is left once the old samples are paid for has a time that
\* is not negative.
LEMMA ReleaseKeeps ==
    ASSUME MovementsInv, NEW delay \in Delays, computeAccelerationBuffer(delay)
    PROVE  MovementsInv'
<1>1. delay \in Nat /\ ACCELERATION_THRESHOLD_MS \in Nat
  BY MouseMovementsAssumption
<1>2. /\ mm \in Movements /\ base \in 0..ACCELERATION_THRESHOLD_MS /\ mm.ms = base + mm.credits
      /\ mm.count = 0 => mm.total = 0 /\ mm.last = 0
  BY DEF MovementsInv
<1>3. PICK e \in Nat : updateAccelerationTime(mm, delay) =
        [buffer |-> mm.buffer, cumulator |-> mm.cumulator, ms |-> mm.ms + e, count |-> mm.count,
         total |-> mm.total + e, last |-> e, credits |-> mm.credits]
  BY ONLY <1>1, <1>2, TimeAdded
<1>4. PICK t : t = updateAccelerationTime(mm, delay)
  OBVIOUS
<1>5. t.ms = mm.ms + e /\ t.last = e /\ t.credits = mm.credits /\ t.total = mm.total + e
  BY ONLY <1>3, <1>4
<1>6. /\ mm.buffer \in Seq(Samples) /\ mm.cumulator \in Int /\ mm.ms \in Int /\ mm.count \in Nat
      /\ mm.total \in Nat /\ mm.credits \in Nat /\ base \in Nat
  BY ONLY <1>1, <1>2 DEF Movements
<1>7. t \in Movements
  <2>1. mm.ms + e \in Int /\ mm.total + e \in Nat
    BY ONLY <1>6, e \in Nat
  <2> QED
    BY ONLY <1>3, <1>4, <1>6, <2>1, e \in Nat DEF Movements
<1>8. mayReduce(t).ms >= 0 /\ mayReduce(t).ms \in Int
  <2>1. CASE t.total > ACCELERATION_THRESHOLD_MS
    <3>1. PICK n \in 0..Len(t.buffer), g \in Int, u \in Int : Reduction(mayReduce(t), t, n, g, u)
      BY ONLY <1>7, <2>1, Reduces
    <3>2. PICK r : r = mayReduce(t)
      OBVIOUS
    <3>3. r.credits = (t.credits + t.last) - g /\ r.ms = t.ms - g /\ r.credits \in Nat
      BY ONLY <3>1, <3>2 DEF Reduction, Movements
    <3>4. r.ms >= 0 /\ r.ms \in Int
      <4>1. /\ r.credits = (mm.credits + e) - g /\ r.ms = (mm.ms + e) - g /\ r.credits \in Nat
            /\ mm.ms = base + mm.credits /\ base \in Nat /\ mm.credits \in Nat
        BY ONLY <1>2, <1>5, <1>6, <3>3, Zenon
      <4> QED
        BY ONLY <4>1, e \in Nat, g \in Int
    <3> QED
      BY ONLY <3>2, <3>4, Zenon
  <2>2. CASE ~(t.total > ACCELERATION_THRESHOLD_MS)
    <3>1. mayReduce(t) = t
      BY ONLY <2>2, Zenon DEF mayReduce
    <3>2. t.ms >= 0 /\ t.ms \in Int
      BY ONLY <1>2, <1>5, <1>6, e \in Nat
    <3> QED
      BY ONLY <3>1, <3>2, Zenon
  <2> QED
    BY ONLY <2>1, <2>2
<1>9. PICK r : r = mayReduce(t)
  OBVIOUS
<1>10. released' = getAccelerationTranslation(r)
  BY ONLY <1>4, <1>9, computeAccelerationBuffer(delay), Zenon DEF computeAccelerationBuffer
<1>11. released'.samples # 0 => released'.ms > 0
  <2>1. CASE r.buffer = << >> \/ r.ms = 0
    BY ONLY <1>10, <2>1 DEF getAccelerationTranslation, NoTranslation
  <2>2. CASE ~(r.buffer = << >> \/ r.ms = 0)
    <3>1. released' = [cumulator |-> r.cumulator, samples |-> Len(r.buffer), ms |-> r.ms]
      BY ONLY <1>10, <2>2, Zenon DEF getAccelerationTranslation
    <3>2. released'.ms = r.ms
      BY ONLY <3>1
    <3>3. r.ms > 0
      BY ONLY <1>8, <1>9, <2>2
    <3> QED
      BY ONLY <3>2, <3>3, Zenon
  <2> QED
    BY ONLY <2>1, <2>2
<1> QED
  BY <1>11, ResetKeeps DEF computeAccelerationBuffer

\* Every step of MouseMovements.
LEMMA NextMovementsInv == MovementsInv /\ [MovementsNext]_movementsVars => MovementsInv'
<1> SUFFICES ASSUME MovementsInv, [MovementsNext]_movementsVars PROVE MovementsInv'
  OBVIOUS
<1>1. ASSUME NEW delay \in Delays, NEW v \in Vectors, addToAccelerationBuffer(delay, v)
      PROVE  MovementsInv'
  BY <1>1, AddKeeps
<1>2. ASSUME NEW delay \in Delays, computeAccelerationBuffer(delay)
      PROVE  MovementsInv'
  BY <1>2, ReleaseKeeps
<1>3. CASE stopAnim
  <2>1. released'.samples # 0 => released'.ms > 0
    BY <1>3 DEF stopAnim, MovementsInv
  <2> QED
    BY <1>3, <2>1, ResetKeeps DEF stopAnim
<1>4. CASE UNCHANGED movementsVars
  BY <1>4, Zenon DEF movementsVars, MovementsInv
<1> QED
  BY <1>1, <1>2, <1>3, <1>4 DEF MovementsNext

\* The samples kept, their sums and the credits stay in step, for any drag.
THEOREM MovementsInvariance == MovementsSpec => []MovementsInv
<1>1. MovementsInit => MovementsInv
  <2> SUFFICES ASSUME MovementsInit PROVE MovementsInv
    OBVIOUS
  <2>1. PICK z : z = resetAccelerationBuffer
    OBVIOUS
  <2>2. /\ z \in Movements /\ z.buffer = << >> /\ z.cumulator = 0 /\ z.ms = 0 /\ z.total = 0
        /\ z.last = 0 /\ z.credits = 0
        /\ SumOf(z.buffer, 1) = 0 /\ SumOf(z.buffer, 2) = 0
    BY ONLY <2>1, ResetMovements
  <2>3. mm = z /\ base = 0 /\ moves = << >> /\ released.samples = 0
    BY <2>1 DEF MovementsInit, NoTranslation
  <2>4. HoldsLastMoves(z.buffer, << >>) /\ << >> \in Seq(Int)
    BY <2>2 DEF HoldsLastMoves
  <2>5. 0 \in 0..ACCELERATION_THRESHOLD_MS /\ ~(0 > ACCELERATION_THRESHOLD_MS) /\ 0 = 0 + 0
    BY MouseMovementsAssumption
  <2> QED
    BY ONLY <2>2, <2>3, <2>4, <2>5, Zenon DEF MovementsInv
<1> QED
  BY <1>1, NextMovementsInv, PTL DEF MovementsSpec

\* A buffer that holds the last movements is a suffix of them.
LEMMA LastMovesAreSuffix ==
    ASSUME NEW b \in Seq(Samples), NEW w \in Seq(Int), HoldsLastMoves(b, w)
    PROVE  IsSuffix([i \in DOMAIN b |-> b[i][2]], w)
<1>1. PICK k \in Nat, l \in Nat : k = Len(b) /\ l = Len(w)
  OBVIOUS
<1>2. k <= l /\ \A i \in 1..k : b[i][2] = w[(l - k) + i]
  BY <1>1 DEF HoldsLastMoves
<1>3. PICK c : c = Column(b, 2)
  OBVIOUS
<1>4. c \in Seq(Int) /\ Len(c) = k /\ \A i \in 1..k : c[i] = b[i][2]
  BY ONLY <1>1, <1>3, b \in Seq(Samples), ColumnIs
<1>5. PICK x : x = Reverse(c)
  OBVIOUS
<1>6. x = [i \in 1..k |-> c[(k - i) + 1]] /\ x \in Seq(Int) /\ Len(x) = k
  <2>1. x = [i \in 1..k |-> c[(k - i) + 1]]
    BY ONLY <1>4, <1>5 DEF Reverse
  <2>2. \A i \in 1..k : c[(k - i) + 1] \in Int
    BY ONLY <1>4, k \in Nat
  <2> QED
    BY ONLY <2>1, <2>2, k \in Nat
<1>7. PICK y : y = Reverse(w)
  OBVIOUS
<1>8. y = [i \in 1..l |-> w[(l - i) + 1]] /\ y \in Seq(Int) /\ Len(y) = l
  <2>1. y = [i \in 1..l |-> w[(l - i) + 1]]
    BY ONLY <1>1, <1>7 DEF Reverse
  <2>2. \A i \in 1..l : w[(l - i) + 1] \in Int
    BY ONLY <1>1, w \in Seq(Int), l \in Nat
  <2> QED
    BY ONLY <2>1, <2>2, l \in Nat
<1>9. ASSUME NEW i \in 1..k PROVE x[i] = y[i]
  <2>1. (k - i) + 1 \in 1..k /\ i \in 1..l /\ (l - k) + ((k - i) + 1) = (l - i) + 1
    BY ONLY <1>2, i \in 1..k, k \in Nat, l \in Nat
  <2>2. c[(k - i) + 1] = w[(l - i) + 1]
    BY ONLY <1>2, <1>4, <2>1, Zenon
  <2> QED
    BY ONLY <1>6, <1>8, <2>1, <2>2
<1>10. SubSeq(x, 1, k) = SubSeq(y, 1, k)
  <2>1. PICK a, b1 : a = SubSeq(x, 1, k) /\ b1 = SubSeq(y, 1, k)
    OBVIOUS
  <2>0. x \in Seq(Int) /\ Len(x) = k /\ y \in Seq(Int) /\ Len(y) = l
    BY ONLY <1>6, <1>8, Zenon
  <2>2. a \in Seq(Int) /\ Len(a) = k /\ \A i \in 1..k : a[i] = x[i]
    BY ONLY <2>0, <2>1, k \in Nat
  <2>3. b1 \in Seq(Int) /\ Len(b1) = k /\ \A i \in 1..k : b1[i] = y[i]
    BY ONLY <1>2, <2>0, <2>1, k \in Nat, l \in Nat
  <2>4. \A i \in 1..k : a[i] = b1[i]
    BY ONLY <1>9, <2>2, <2>3, Zenon
  <2>5. a = [i \in 1..k |-> a[i]] /\ b1 = [i \in 1..k |-> b1[i]]
    BY ONLY <2>2, <2>3
  <2>6. [i \in 1..k |-> a[i]] = [i \in 1..k |-> b1[i]]
    BY ONLY <2>4
  <2> QED
    BY ONLY <2>1, <2>5, <2>6, Zenon
<1>11. IsPrefix(x, y)
  BY ONLY <1>2, <1>6, <1>8, <1>10, Zenon DEF IsPrefix
<1> QED
  BY ONLY <1>3, <1>5, <1>7, <1>11, Zenon DEF IsSuffix, Column

\* WindowKeepsItsLength for any delays, vectors and threshold: the buffer is
\* a window on the last movements, and spans a time that stays.
THEOREM WindowAlwaysKeepsItsLength == MovementsSpec => []WindowKeepsItsLength
<1>1. MovementsInv => WindowKeepsItsLength
  <2> SUFFICES ASSUME MovementsInv PROVE WindowKeepsItsLength
    OBVIOUS
  <2>1. PICK b \in Seq(Samples) : b = mm.buffer
    BY DEF MovementsInv, Movements
  <2>2. IsSuffix([i \in DOMAIN b |-> b[i][2]], moves)
    BY <2>1, LastMovesAreSuffix DEF MovementsInv
  <2>3. b # << >> => Head(b) = b[1]
    OBVIOUS
  <2> QED
    BY ONLY MovementsInv, <2>1, <2>2, <2>3, Zenon DEF MovementsInv, WindowKeepsItsLength
<1> QED
  BY <1>1, MovementsInvariance, PTL

\* ReleaseIsOfRecent for any delays, vectors and threshold.
THEOREM ReleaseIsAlwaysOfRecent == MovementsSpec => []ReleaseIsOfRecent
<1>1. MovementsInv => ReleaseIsOfRecent
  <2> SUFFICES ASSUME MovementsInv PROVE ReleaseIsOfRecent
    OBVIOUS
  <2>1. PICK b \in Seq(Samples) : b = mm.buffer
    BY DEF MovementsInv, Movements
  <2>2. ASSUME b # << >> PROVE mm.ms - Head(b)[1] <= ACCELERATION_THRESHOLD_MS
    <3>1. Head(b) = b[1] /\ b[1][1] \in Nat
      BY <2>2 DEF Samples
    <3>2. /\ base \in 0..ACCELERATION_THRESHOLD_MS /\ mm.credits \in Nat /\ mm.ms = base + mm.credits
          /\ mm.total \in Nat
          /\ mm.total <= ACCELERATION_THRESHOLD_MS => mm.credits = 0
          /\ mm.total > ACCELERATION_THRESHOLD_MS => mm.credits < b[1][1]
      BY <2>1, <2>2 DEF MovementsInv, Movements
    <3> QED
      BY ONLY <3>1, <3>2, MouseMovementsAssumption
  <2>3. released.samples # 0 => released.ms > 0
    BY DEF MovementsInv
  <2> QED
    BY ONLY <2>1, <2>2, <2>3 DEF ReleaseIsOfRecent
<1> QED
  BY <1>1, MovementsInvariance, PTL
=============================================================================
