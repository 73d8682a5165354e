------------------------- MODULE KeyboardMoveHelper -------------------------
(***************************************************************************)
(* KeyboardMovements and KeyboardMoveHelper (src/app/widgets/navigation):  *)
(* the arrow keys move the camera, faster while a key is held, slower and  *)
(* slower after it was released.                                           *)
(*                                                                         *)
(* Left/Right and Down/Up are the two keys of an axis.  Directions are the *)
(* sign of the camera's movement, and the speed, an easing of timePassed,  *)
(* is timePassed.                                                          *)
(***************************************************************************)
EXTENDS Integers, Sequences, FiniteSetsExt, SequencesExt

CONSTANTS
    Axes,               \* the axes in use, among "x" and "y"
    MaxSpeedTime        \* MAX_SPEED_REACHED_IN_MS, in ticks

ASSUME KeyboardAssumption ==
    /\ Axes \subseteq {"x", "y"}
    /\ MaxSpeedTime \in Nat \ {0}

\* The two keys of an axis are told apart by the indirection they stand for.
Keys == [axis : Axes, indirection : BOOLEAN]

VARIABLES
    held,               \* environment: the arrow keys held down
    km,                 \* _km: the keys acknowledged, _latestH and _latestV
    momentum,           \* _x and _y
    order               \* history: <<k, l>>: of two acknowledged keys l was
                        \* pressed last; <<k, k>>: k is acknowledged

keyboardVars == <<held, km, momentum, order>>

NoKeys == [moving |-> {}, latest |-> [a \in Axes |-> FALSE]]
AtRest == [timePassed |-> 0, currentDirection |-> 0, momentumDirection |-> 0]

KeyboardInit ==
    /\ held = {}
    /\ km = NoKeys
    /\ momentum = [a \in Axes |-> AtRest]
    /\ order = {}

(***************************************************************************)
(* KeyboardMovements                                                       *)
(***************************************************************************)
Direction(indirection) == IF indirection THEN -1 ELSE 1

\* Mutant of ackMovement: a release takes the direction of the released key.
ackMovementKeepsLatest(key, isPress) ==
    [moving |-> IF isPress THEN km.moving \cup {key} ELSE km.moving \ {key},
     latest |-> [km.latest EXCEPT ![key.axis] = key.indirection]]

\* Releasing a key makes the other one of its axis the latest.
ackMovement(key, isPress) ==
    [moving |-> IF isPress THEN km.moving \cup {key} ELSE km.moving \ {key},
     latest |-> [km.latest EXCEPT ![key.axis] =
                    IF isPress THEN key.indirection ELSE ~key.indirection]]

Pressed(k, axis) == {key \in k.moving : key.axis = axis}

defineMomentum(m) ==
    [m EXCEPT !.momentumDirection = m.currentDirection, !.currentDirection = 0]

updateMomentum(k, axis) ==
    [momentum EXCEPT ![axis] =
        IF Pressed(k, axis) # {}
        THEN [@ EXCEPT !.currentDirection = Direction(k.latest[axis])]
        ELSE defineMomentum(@)]

(***************************************************************************)
(* KeyboardMoveHelper                                                      *)
(***************************************************************************)
keyEvent(key, isPress) ==
    /\ km' = ackMovement(key, isPress)
    /\ momentum' = updateMomentum(km', key.axis)

Acknowledged == {k \in Keys : <<k, k>> \in order}

\* Repeated presses are ignored, so a press is of a key not held before.
keyPressEvent(key) ==
    /\ key \notin held
    /\ held' = held \cup {key}
    /\ keyEvent(key, TRUE)
    /\ order' = order \cup {<<k, key>> : k \in Acknowledged \cup {key}}

keyReleaseEvent(key) ==
    /\ key \in held
    /\ held' = held \ {key}
    /\ keyEvent(key, FALSE)
    /\ order' = {p \in order : p[1] # key /\ p[2] # key}

\* stopAnim() forgets the keys, held or not.
StopKeyboard ==
    /\ km' = NoKeys
    /\ momentum' = [a \in Axes |-> AtRest]
    /\ order' = {}

\* What a frame of fd ticks makes of the momentum of an axis.
considerAxis(m, fd) ==
    IF m.currentDirection # 0
    THEN [m EXCEPT !.timePassed = Min({MaxSpeedTime, @ + fd})]
    ELSE [m EXCEPT !.timePassed = Max({0, @ - fd})]

\* By how much the same frame moves the camera along the axis.
Translation(m, fd) ==
    LET v == IF m.currentDirection # 0 THEN m.currentDirection
             ELSE m.momentumDirection
    IN  v * considerAxis(m, fd).timePassed * fd

AdvanceKeyboard(fd) ==
    momentum' = [a \in Axes |-> considerAxis(momentum[a], fd)]

\* The camera moves where the key pressed last among those still acknowledged
\* says, in whatever order the two keys of an axis, Esc and the mouse were
\* used, and it has no direction when there is none
\* (KeyboardMovements.hpp:72-114).
DirectionFollowsKeys ==
    \A axis \in Axes :
        LET mine == {k \in Acknowledged : k.axis = axis}
        IN  IF mine = {} THEN momentum[axis].currentDirection = 0
            ELSE \E latest \in mine :
                    /\ \A k \in mine : <<k, latest>> \in order
                    /\ momentum[axis].currentDirection = Direction(latest.indirection)

Moving(axis) == momentum[axis].currentDirection # 0 \/ momentum[axis].timePassed # 0
=============================================================================
