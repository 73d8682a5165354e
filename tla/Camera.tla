------------------------------- MODULE Camera -------------------------------
(***************************************************************************)
(* The camera of the map: _transformationWorld of USApplication, and the   *)
(* three helpers that move it, MouseMoveHelper (_mmh), MapScaleHelper      *)
(* (_msh) and KeyboardMoveHelper (_kmh).                                   *)
(*                                                                         *)
(* The map has one dimension.  Translations are integers and scalings are  *)
(* multiples of MIN_SCALE; a translation that is scaled is rounded.  Which *)
(* widget an event goes to is AppEvents' matter: here all go to the map.   *)
(***************************************************************************)
EXTENDS KeyboardMoveHelper, Animator

CONSTANTS
    Unit,               \* the scaling of the identity, in units of MIN_SCALE
    MaxScale,           \* MAX_SCALE, in units of MIN_SCALE
    Vectors,            \* by how much the mouse may move the camera
    MaxInputs,          \* bound: how many inputs there are
    MapEdge             \* bound: where the keyboard moves the camera no further

ASSUME CameraAssumption ==
    /\ Unit \in 1..MaxScale /\ MaxScale \in Nat
    /\ Vectors \subseteq Int

VARIABLES
    world,              \* _transformationWorld
    mmh, msh,           \* the animators, of a translation and of a view
    accuracy,           \* _zoomAccuracy, in halves
    left,               \* _mouseState: the left button, or that it drags
    frame,              \* previousFrameDuration()
    last,               \* history: what the last input was
    inputs              \* how many inputs there were

mouse == <<mmh, msh, accuracy, left>>
vars == <<keyboardVars, mouse, world, frame, last, inputs>>

View(tr, sc) == [tr |-> tr, sc |-> sc]
Identity == View(0, Unit)
NoView == View(0, 0)

Init ==
    /\ KeyboardInit
    /\ world = Identity
    /\ mmh = NewAnimator(0)
    /\ msh = NewAnimator(NoView)
    /\ accuracy = 1
    /\ left = "up"
    /\ frame = 0
    /\ last = "none"
    /\ inputs = 0

\* The kinds of input: "reset" is Esc, "center" a mouse animation alone.
Input(kind) ==
    /\ inputs < MaxInputs
    /\ inputs' = inputs + 1
    /\ last' = kind
    /\ UNCHANGED frame

(***************************************************************************)
(* MouseMoveHelper                                                         *)
(***************************************************************************)
Scaled(view, sc) == View((view.tr * sc) \div view.sc, sc)

\* _startAnim() stops what _mmh excludes, the keyboard.
UpdateFromMoveVectorAndPlay(v) ==
    /\ mmh' = UpdateAnimationAndPlay(world.tr, world.tr + v, 0)
    /\ StopKeyboard

MouseInput == Input(IF IsPlaying(msh) THEN "other" ELSE "center")

\* handlePressEvent() of the left button.
PressLeft ==
    /\ left = "up"
    /\ left' = "down"
    /\ \/ /\ mmh' = StopAnim(mmh)
          /\ Input("other")
          /\ UNCHANGED <<km, momentum, order>>
       \/ \E v \in Vectors : UpdateFromMoveVectorAndPlay(v) /\ MouseInput
    /\ UNCHANGED <<held, world, msh, accuracy>>

\* handleLockMoveEvent(): the map follows the mouse.
DragLeft ==
    /\ left \in {"down", "dragging"}
    /\ left' = "dragging"
    /\ \E v \in Vectors : world' = View(world.tr + v, world.sc)
    /\ Input("other")
    /\ UNCHANGED <<keyboardVars, mmh, msh, accuracy>>

\* handleLockReleaseEvent(): a drag goes on for what MouseMovements computes,
\* a click has no effect.
ReleaseLeft ==
    /\ left # "up"
    /\ left' = "up"
    /\ \/ /\ left = "down"
          /\ Input("other")
          /\ UNCHANGED <<km, momentum, order, mmh>>
       \/ /\ left = "dragging"
          /\ \E v \in Vectors \cup {0} : UpdateFromMoveVectorAndPlay(v)
          /\ MouseInput
    /\ UNCHANGED <<held, world, msh, accuracy>>

(***************************************************************************)
(* MapScaleHelper                                                          *)
(***************************************************************************)
\* Mutant of ThresholdScaling: the upper limit is forgotten.
ThresholdScalingBelow(sc) == Max({1, sc})

ThresholdScaling(sc) == Min({MaxScale, Max({1, sc})})

ScalingFromDirection(direction) ==
    ThresholdScaling(IF direction < 0 THEN world.sc \div 2 ELSE world.sc * 2)

ZoomTo(to) ==
    /\ msh' = UpdateAnimationAndPlay(View(0, world.sc), to, NoView)
    /\ UNCHANGED <<keyboardVars, world, mmh, left>>

\* Zooming in goes to the cursor, zooming out stays where it is.
ScrollOnMap(direction) ==
    /\ Input("other")
    /\ \E v \in IF direction > 0 THEN Vectors ELSE {0} :
        ZoomTo(View(v, ScalingFromDirection(direction)))
    /\ accuracy' = IF direction > 0 THEN 1 ELSE accuracy

\* The selection's height is a fraction or a multiple of the screen's, or 0,
\* and the factor then infinite; every limit there is cuts it.
snapshotZoom ==
    /\ Input("other")
    /\ \E v \in Vectors, sc \in {world.sc \div 2, world.sc * 2, 2 * MaxScale} :
        ZoomTo(View(v, ThresholdScaling(sc)))
    /\ accuracy' = 2

\* NumAdd and NumSubtract.
InstantZoom(direction) ==
    /\ Input("other")
    /\ msh' = StopAnim(msh)
    /\ world' = Scaled(world, ScalingFromDirection(direction))
    /\ UNCHANGED <<keyboardVars, mmh, accuracy, left>>

(***************************************************************************)
(* The keyboard, Esc and the frames                                        *)
(***************************************************************************)
PressKey(key) ==
    /\ keyPressEvent(key)
    /\ Input("other")
    /\ UNCHANGED <<mouse, world>>

ReleaseKey(key) ==
    /\ keyReleaseEvent(key)
    /\ Input(last)
    /\ UNCHANGED <<mouse, world>>

\* Mutant of resetWorldMatrix: the zoom goes on.
resetWorldMatrixNotZoom ==
    /\ Input("reset")
    /\ mmh' = StopAnim(mmh)
    /\ StopKeyboard
    /\ world' = Identity
    /\ UNCHANGED <<held, msh, accuracy, left>>

resetWorldMatrix ==
    /\ Input("reset")
    /\ mmh' = StopAnim(mmh)
    /\ msh' = StopAnim(msh)
    /\ StopKeyboard
    /\ world' = Identity
    /\ UNCHANGED <<held, accuracy, left>>

LerpView(anim, duration) ==
    View(Lerp(anim.from.tr, anim.to.tr, anim.elapsed, duration),
         Lerp(anim.from.sc, anim.to.sc, anim.elapsed, duration))

\* _translateTo(): an absolute position, whatever moved the camera meanwhile.
MovedByMouse(view, anim) == IF IsPlaying(anim) THEN View(anim.current, view.sc) ELSE view

\* The step of the translation is what it grew by since the frame before.
MovedByZoom(view, anim, previous) ==
    IF IsPlaying(anim)
    THEN LET step == anim.current.tr - previous.tr
             scaled == Scaled(view, anim.current.sc)
         IN  View(scaled.tr + (step * anim.current.sc * accuracy) \div (2 * anim.from.sc),
                  scaled.sc)
    ELSE view

\* By how much the keyboard moves the camera along an axis, if it is in use.
Shift(axis) == IF axis \in Axes THEN Translation(momentum[axis], frame) ELSE 0

\* The keyboard moves along both axes, up to the bound.
MovedByKeyboard(view) ==
    IF view.tr \in -MapEdge..MapEdge
    THEN View(view.tr + Shift("x") + Shift("y"), view.sc)
    ELSE view

\* drawEvent(): the animators advance in the order they were made.
Draw(ticks) ==
    LET mmh1 == Advanced(mmh, Duration, LerpInt(mmh, Duration))
        msh1 == Advanced(msh, Duration, LerpView(msh, Duration))
    IN  /\ world' = MovedByKeyboard(MovedByZoom(MovedByMouse(world, mmh1), msh1, msh.current))
        /\ AdvanceKeyboard(frame)
        /\ mmh' = NextFrame(mmh1, ticks, Duration)
        /\ msh' = NextFrame(msh1, ticks, Duration)
        /\ frame' = ticks
        /\ UNCHANGED <<held, km, order, accuracy, left, last, inputs>>

Next ==
    \/ PressLeft \/ DragLeft \/ ReleaseLeft
    \/ snapshotZoom
    \/ \E direction \in {-1, 1} : ScrollOnMap(direction) \/ InstantZoom(direction)
    \/ \E key \in Keys : PressKey(key) \/ ReleaseKey(key)
    \/ resetWorldMatrix
    \/ \E ticks \in FrameTimes : Draw(ticks)

Spec == Init /\ [][Next]_vars

FairSpec == Spec /\ WF_vars(\E ticks \in FrameTimes : Draw(ticks))

(***************************************************************************)
(* Properties                                                              *)
(***************************************************************************)
\* However wheel, keyboard and snapshot zooms follow or interrupt each other,
\* the camera never leaves its scaling limits (MapScaleHelper.hpp:130-136).
ScaleInBounds == world.sc \in 1..MaxScale

\* After Esc the camera stays where it was reset, whatever played before and
\* whichever keys are released later (USApplication.cpp:436-441).
ResetHolds == last \in {"none", "reset"} => world = Identity

KeyboardStill == \A axis \in Axes : ~Moving(axis)

\* Once no arrow key is acknowledged any more, the camera comes to rest: every
\* animation that was started or started over ends.
CameraComesToRest ==
    <>[](km.moving = {}) => <>[](~IsPlaying(mmh) /\ ~IsPlaying(msh) /\ KeyboardStill)
=============================================================================
