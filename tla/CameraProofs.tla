---------------------------- MODULE CameraProofs ----------------------------
(***************************************************************************)
(* Proofs about KeyboardMoveHelper and Camera, for every duration, every   *)
(* frame time, every limit of the scaling and every set of mouse vectors.  *)
(***************************************************************************)
EXTENDS Camera, TLAPS

Key(axis, indirection) == [axis |-> axis, indirection |-> indirection]

KeyboardTypeOK ==
    /\ held \subseteq Keys
    /\ km \in [moving : SUBSET Keys, latest : [Axes -> BOOLEAN]]
    /\ momentum \in [Axes -> [timePassed : Nat, currentDirection : {-1, 0, 1},
                              momentumDirection : {-1, 0, 1}]]

\* The keys of KeyboardMovements are those the history has, and they are held.
KeysAcknowledged ==
    /\ km.moving = Acknowledged
    /\ Acknowledged \subseteq held

\* _latestH and _latestV name the key that was pressed last, if there is one.
LatestWasLast ==
    \A axis \in Axes : Pressed(km, axis) # {} =>
        LET key == Key(axis, km.latest[axis])
        IN  key \in Acknowledged /\ \A k \in Pressed(km, axis) : <<k, key>> \in order

DirectionIsLatest ==
    \A axis \in Axes :
        momentum[axis].currentDirection =
            IF Pressed(km, axis) = {} THEN 0 ELSE Direction(km.latest[axis])

KeyboardInv ==
    /\ KeyboardTypeOK
    /\ KeysAcknowledged
    /\ LatestWasLast
    /\ DirectionIsLatest

\* The animator of a zoom plays between two scalings within the limits, and
\* its time does not run beyond its duration.
ZoomOK ==
    /\ msh = [playing |-> msh.playing, elapsed |-> msh.elapsed, from |-> msh.from,
              to |-> msh.to, current |-> msh.current]
    /\ msh.playing \in BOOLEAN
    /\ msh.elapsed \in 0..Duration
    /\ msh.playing => msh.from.sc \in 1..MaxScale /\ msh.to.sc \in 1..MaxScale

ZoomInv ==
    /\ ZoomOK
    /\ ScaleInBounds

IsAnimator(a) ==
    a = [playing |-> a.playing, elapsed |-> a.elapsed, from |-> a.from, to |-> a.to,
         current |-> a.current]

\* After Esc nothing moves: no animation plays, and the keyboard is at rest,
\* also when keys are released that were held before.
StillAfterReset ==
    /\ frame \in Nat
    /\ IsAnimator(mmh) /\ IsAnimator(msh)
    /\ last \in {"none", "reset"} =>
          /\ world = Identity
          /\ ~IsPlaying(mmh)
          /\ ~IsPlaying(msh)
          /\ km.moving = {}
          /\ momentum = [a \in Axes |-> AtRest]

-----------------------------------------------------------------------------
(* Arithmetic.                                                             *)

\* std::max and std::min of two values.
LEMMA MaxOfTwo ==
    ASSUME NEW a \in Int, NEW b \in Int
    PROVE  Max({a, b}) = IF a >= b THEN a ELSE b
<1>1. \E x \in {a, b} : \A y \in {a, b} : x >= y
  OBVIOUS
<1>2. Max({a, b}) \in {a, b} /\ \A y \in {a, b} : Max({a, b}) >= y
  BY <1>1 DEF Max
<1> QED
  BY <1>2

\* std::min of two values.
LEMMA MinOfTwo ==
    ASSUME NEW a \in Int, NEW b \in Int
    PROVE  Min({a, b}) = IF a <= b THEN a ELSE b
<1>1. \E x \in {a, b} : \A y \in {a, b} : x <= y
  OBVIOUS
<1>2. Min({a, b}) \in {a, b} /\ \A y \in {a, b} : Min({a, b}) <= y
  BY <1>1 DEF Min
<1> QED
  BY <1>2

\* What is above or below times a factor.
LEMMA TimesMonotone ==
    ASSUME NEW a \in Int, NEW b \in Int, NEW n \in Nat, a <= b
    PROVE  a * n <= b * n
<1>1. PICK c \in Nat : b = a + c
  <2>1. b - a \in Nat /\ b = a + (b - a)
    OBVIOUS
  <2> QED
    BY <2>1
<1>2. c * n \in Nat
  OBVIOUS
<1>3. b * n = a * n + c * n
  BY <1>1
<1> QED
  BY <1>2, <1>3

\* A product bounds a factor.
LEMMA FactorBound ==
    ASSUME NEW a \in Int, NEW b \in Int, NEW n \in Nat \ {0}, a * n < b * n
    PROVE  a < b
<1> SUFFICES ASSUME b <= a PROVE FALSE
  OBVIOUS
<1>1. b * n <= a * n
  BY TimesMonotone
<1>2. a * n \in Int /\ b * n \in Int
  OBVIOUS
<1> QED
  BY <1>1, <1>2

\* A value on the way is between the two ends, on either side.
LEMMA LerpBetween ==
    ASSUME NEW from \in Int, NEW to \in Int, NEW duration \in Nat \ {0},
           NEW elapsed \in 0..duration, NEW lo \in Int, NEW hi \in Int,
           lo <= from, from <= hi, lo <= to, to <= hi
    PROVE  Lerp(from, to, elapsed, duration) \in lo..hi
<1> DEFINE d == to - from
           p == d * elapsed
           q == p \div duration
<1>1. d \in Int /\ p \in Int /\ q \in Int /\ elapsed \in Nat /\ elapsed <= duration
  OBVIOUS
<1>2. q * duration <= p /\ p < (q + 1) * duration
  <2> HIDE DEF p
  <2> QED
    BY <1>1
<1>3. CASE d >= 0
  <2>1. 0 * elapsed <= d * elapsed /\ elapsed * d <= duration * d
    <3> HIDE DEF d
    <3> QED
      BY <1>1, <1>3, TimesMonotone
  <2>2. 0 <= p /\ p <= d * duration
    BY <2>1, <1>1
  <2>3. 0 * duration < (q + 1) * duration /\ q * duration < (d + 1) * duration
    <3> HIDE DEF p, q, d
    <3>1. (d + 1) * duration = d * duration + duration
      BY <1>1
    <3> QED
      BY <3>1, <2>2, <1>1, <1>2
  <2>4. 0 < q + 1 /\ q < d + 1
    <3> HIDE DEF p, q, d
    <3> QED
      BY <2>3, <1>1, FactorBound
  <2>5. 0 <= q /\ q <= to - from
    <3> HIDE DEF q
    <3> QED
      BY <2>4, <1>1
  <2>6. Lerp(from, to, elapsed, duration) = from + q
    BY DEF Lerp
  <2> HIDE DEF q, d, p
  <2> QED
    BY <2>5, <2>6, <1>1
<1>4. CASE d < 0
  <2>1. d * elapsed <= 0 * elapsed /\ elapsed * (-d) <= duration * (-d)
    <3> HIDE DEF d
    <3> QED
      BY <1>1, <1>4, TimesMonotone
  <2>2. p <= 0 /\ d * duration <= p
    BY <2>1, <1>1
  <2>3. q * duration < 1 * duration /\ d * duration < (q + 1) * duration
    <3> HIDE DEF p, q, d
    <3> QED
      BY <2>2, <1>1, <1>2
  <2>4. q < 1 /\ d < q + 1
    <3> HIDE DEF p, q, d
    <3> QED
      BY <2>3, <1>1, FactorBound
  <2>5. q <= 0 /\ to - from <= q
    <3> HIDE DEF q
    <3> QED
      BY <2>4, <1>1
  <2>6. Lerp(from, to, elapsed, duration) = from + q
    BY DEF Lerp
  <2> HIDE DEF q, d, p
  <2> QED
    BY <2>5, <2>6, <1>1
<1> QED
  BY <1>1, <1>3, <1>4

-----------------------------------------------------------------------------
(* The scaling.                                                            *)

\* The limits are kept by what cuts a scaling.
LEMMA ThresholdInBounds ==
    ASSUME NEW sc \in Int
    PROVE  ThresholdScaling(sc) \in 1..MaxScale
<1>1. MaxScale \in Nat \ {0}
  BY CameraAssumption
<1>2. Max({1, sc}) = IF 1 >= sc THEN 1 ELSE sc
  BY MaxOfTwo
<1>3. Max({1, sc}) \in Nat \ {0}
  BY <1>2
<1>4. \A m \in Nat \ {0} : Min({MaxScale, m}) \in 1..MaxScale
  BY <1>1, MinOfTwo
<1> QED
  BY <1>3, <1>4 DEF ThresholdScaling

\* The scalings the wheel and NumAdd, NumSubtract go to.
LEMMA DirectionInBounds ==
    ASSUME ScaleInBounds, NEW direction \in Int
    PROVE  /\ ScalingFromDirection(direction) \in 1..MaxScale
           /\ \A sc \in {world.sc \div 2, world.sc * 2, 2 * MaxScale} :
                 ThresholdScaling(sc) \in 1..MaxScale
<1>1. world.sc \in Int /\ MaxScale \in Int
  BY CameraAssumption DEF ScaleInBounds
<1>2. world.sc \div 2 \in Int /\ world.sc * 2 \in Int /\ 2 * MaxScale \in Int
  BY <1>1
<1> QED
  BY <1>2, ThresholdInBounds DEF ScalingFromDirection

\* A zoom is started from where the camera is, to a scaling within the limits.
LEMMA ZoomToInv ==
    ASSUME ScaleInBounds, NEW v, NEW sc \in 1..MaxScale, ZoomTo(View(v, sc))
    PROVE  ZoomInv'
<1>1. /\ msh' = [playing |-> TRUE, elapsed |-> 0, from |-> View(0, world.sc),
                 to |-> View(v, sc), current |-> NoView]
      /\ UNCHANGED world
  BY DEF ZoomTo, UpdateAnimationAndPlay, keyboardVars
<1>2. Duration \in Nat /\ 0 \in 0..Duration
  BY CameraAssumption, AnimatorAssumption
<1>3. ZoomOK'
  BY <1>1, <1>2 DEF ZoomOK, View, ScaleInBounds
<1> QED
  BY <1>1, <1>3 DEF ZoomInv, ScaleInBounds

\* An animator that is stopped or left alone, while the camera moves.
LEMMA NoZoomInv ==
    ASSUME ZoomInv, msh' = msh \/ msh' = StopAnim(msh), world'.sc \in 1..MaxScale
    PROVE  ZoomInv'
<1>1. ZoomOK'
  <2>1. Duration \in Nat /\ 0 \in 0..Duration
    BY CameraAssumption, AnimatorAssumption
  <2>2. CASE msh' = msh
    BY <2>2 DEF ZoomInv, ZoomOK
  <2>3. CASE msh' = StopAnim(msh)
    <3>1. msh' = [playing |-> FALSE, elapsed |-> 0, from |-> msh.from, to |-> msh.to,
                  current |-> msh.current]
      BY <2>3 DEF ZoomInv, ZoomOK, StopAnim
    <3> QED
      BY <3>1, <2>1 DEF ZoomOK
  <2> QED
    BY <2>2, <2>3
<1> QED
  BY <1>1 DEF ZoomInv, ScaleInBounds

\* A frame: as long as the zoom plays, the scaling is between its two ends.
LEMMA DrawZoomInv ==
    ASSUME ZoomInv, NEW ticks \in FrameTimes, Draw(ticks)
    PROVE  ZoomInv'
<1> DEFINE between == LerpView(msh, Duration)
           msh1 == Advanced(msh, Duration, between)
<1>1. /\ Duration \in Nat \ {0} /\ MaxScale \in Nat \ {0}
      /\ ticks \in Nat
      /\ msh.elapsed \in 0..Duration
      /\ msh.playing \in BOOLEAN
      /\ msh = [playing |-> msh.playing, elapsed |-> msh.elapsed, from |-> msh.from,
                to |-> msh.to, current |-> msh.current]
  BY CameraAssumption, AnimatorAssumption DEF ZoomInv, ZoomOK
<1>2. msh.playing => between.sc \in 1..MaxScale
  <2>1. between.sc = Lerp(msh.from.sc, msh.to.sc, msh.elapsed, Duration)
    BY DEF LerpView, View
  <2> SUFFICES ASSUME msh.playing
               PROVE  Lerp(msh.from.sc, msh.to.sc, msh.elapsed, Duration) \in 1..MaxScale
    BY <2>1
  <2>2. msh.from.sc \in 1..MaxScale /\ msh.to.sc \in 1..MaxScale
    BY DEF ZoomInv, ZoomOK
  <2>3. PICK f, g, e : f = msh.from.sc /\ g = msh.to.sc /\ e = msh.elapsed
    OBVIOUS
  <2>4. f \in 1..MaxScale /\ g \in 1..MaxScale /\ e \in 0..Duration
    BY <2>2, <2>3, <1>1, Zenon
  <2>5. Lerp(f, g, e, Duration) \in 1..MaxScale
    <3>1. /\ f \in Int /\ g \in Int /\ 1 \in Int /\ MaxScale \in Int
          /\ 1 <= f /\ f <= MaxScale /\ 1 <= g /\ g <= MaxScale
          /\ Duration \in Nat \ {0}
      BY ONLY <2>4, <1>1, SMT
    <3> QED
      BY ONLY <3>1, <2>4, LerpBetween, Zenon
  <2> QED
    BY <2>3, <2>5, Zenon
<1> HIDE DEF between
<1>3. \/ /\ ~msh.playing /\ msh1 = msh
      \/ /\ msh.playing /\ msh.elapsed < Duration
         /\ msh1 = [playing |-> TRUE, elapsed |-> msh.elapsed, from |-> msh.from,
                    to |-> msh.to, current |-> between]
      \/ /\ msh.playing
         /\ msh1 = [playing |-> FALSE, elapsed |-> 0, from |-> msh.from,
                    to |-> msh.to, current |-> msh.to]
  BY <1>1 DEF Advanced
<1>4. /\ msh1 = [playing |-> msh1.playing, elapsed |-> msh1.elapsed, from |-> msh1.from,
                 to |-> msh1.to, current |-> msh1.current]
      /\ msh1.playing \in BOOLEAN
      /\ msh1.elapsed \in 0..Duration
      /\ msh1.playing => /\ msh1.from.sc \in 1..MaxScale
                         /\ msh1.to.sc \in 1..MaxScale
                         /\ msh1.current.sc \in 1..MaxScale
  <2> HIDE DEF msh1
  <2>1. msh.playing => msh.from.sc \in 1..MaxScale /\ msh.to.sc \in 1..MaxScale
    BY DEF ZoomInv, ZoomOK
  <2>2. CASE ~msh.playing /\ msh1 = msh
    BY ONLY <1>1, <2>2, Zenon
  <2>3. CASE /\ msh.playing
             /\ msh1 = [playing |-> TRUE, elapsed |-> msh.elapsed, from |-> msh.from,
                        to |-> msh.to, current |-> between]
    BY ONLY <1>1, <1>2, <2>1, <2>3
  <2>4. CASE msh1 = [playing |-> FALSE, elapsed |-> 0, from |-> msh.from,
                     to |-> msh.to, current |-> msh.to]
    BY ONLY <1>1, <2>4
  <2> QED
    BY ONLY <1>3, <2>2, <2>3, <2>4, Zenon
<1>5. /\ msh' = NextFrame(msh1, ticks, Duration)
      /\ \E view : /\ view.sc = world.sc
                   /\ world' = MovedByKeyboard(MovedByZoom(view, msh1, msh.current))
  <2>1. PICK mmh1 :
           /\ msh' = NextFrame(msh1, ticks, Duration)
           /\ world' = MovedByKeyboard(MovedByZoom(MovedByMouse(world, mmh1), msh1, msh.current))
    BY DEF Draw, between
  <2>2. MovedByMouse(world, mmh1).sc = world.sc
    BY DEF MovedByMouse, View
  <2> QED
    BY <2>1, <2>2
<1> HIDE DEF msh1
<1>6. PICK elapsed \in 0..Duration :
         msh' = [playing |-> msh1.playing, elapsed |-> elapsed, from |-> msh1.from,
                 to |-> msh1.to, current |-> msh1.current]
  <2> DEFINE e == IF ~msh1.playing THEN 0
                  ELSE IF msh1.elapsed + ticks > Duration THEN Duration
                  ELSE msh1.elapsed + ticks
  <2>1. e \in 0..Duration
    BY <1>1, <1>4
  <2>2. msh' = [msh1 EXCEPT !.elapsed = e]
    BY <1>5 DEF NextFrame
  <2> HIDE DEF e
  <2> QED
    BY <2>1, <2>2, <1>4
<1>7. ZoomOK'
  BY <1>4, <1>6 DEF ZoomOK
<1>8. ScaleInBounds'
  <2>1. PICK view : /\ view.sc = world.sc
                    /\ world' = MovedByKeyboard(MovedByZoom(view, msh1, msh.current))
    BY <1>5
  <2>2. \A w : MovedByKeyboard(w).sc = w.sc
    BY DEF MovedByKeyboard, View
  <2>3. MovedByZoom(view, msh1, msh.current).sc
          = IF msh1.playing THEN msh1.current.sc ELSE view.sc
    BY DEF MovedByZoom, Scaled, View, IsPlaying
  <2> QED
    BY <2>1, <2>2, <2>3, <1>4 DEF ScaleInBounds, ZoomInv
<1> QED
  BY <1>7, <1>8 DEF ZoomInv

\* Whatever moves the camera keeps its scaling within the limits.
LEMMA StepZoomInv == ZoomInv /\ [Next]_vars => ZoomInv'
<1> SUFFICES ASSUME ZoomInv, [Next]_vars PROVE ZoomInv'
  OBVIOUS
<1> USE DEF mouse, keyboardVars
<1>1. world.sc \in 1..MaxScale
  BY DEF ZoomInv, ScaleInBounds
<1>2. CASE PressLeft \/ ReleaseLeft
  BY <1>1, <1>2, NoZoomInv DEF PressLeft, ReleaseLeft
<1>3. CASE DragLeft
  BY <1>1, <1>3, NoZoomInv DEF DragLeft, View
<1>4. CASE snapshotZoom
  BY <1>4, DirectionInBounds, ZoomToInv DEF snapshotZoom, ZoomInv
<1>5. ASSUME NEW direction \in {-1, 1}, ScrollOnMap(direction) PROVE ZoomInv'
  <2>1. PICK v : ZoomTo(View(v, ScalingFromDirection(direction)))
    BY <1>5 DEF ScrollOnMap
  <2> QED
    BY <2>1, DirectionInBounds, ZoomToInv DEF ZoomInv
<1>6. ASSUME NEW direction \in {-1, 1}, InstantZoom(direction) PROVE ZoomInv'
  <2>1. world'.sc = ScalingFromDirection(direction) /\ msh' = StopAnim(msh)
    BY <1>6 DEF InstantZoom, Scaled, View
  <2> QED
    BY <2>1, DirectionInBounds, NoZoomInv DEF ZoomInv
<1>7. ASSUME NEW key \in Keys, PressKey(key) \/ ReleaseKey(key) PROVE ZoomInv'
  BY <1>1, <1>7, NoZoomInv DEF PressKey, ReleaseKey
<1>8. CASE resetWorldMatrix
  BY <1>8, NoZoomInv, CameraAssumption DEF resetWorldMatrix, Identity, View
<1>9. ASSUME NEW ticks \in FrameTimes, Draw(ticks) PROVE ZoomInv'
  BY <1>9, DrawZoomInv
<1>10. CASE UNCHANGED vars
  BY <1>1, <1>10, NoZoomInv DEF vars
<1> QED
  BY <1>2, <1>3, <1>4, <1>5, <1>6, <1>7, <1>8, <1>9, <1>10 DEF Next

\* The camera starts at the identity.
LEMMA InitZoomInv == Init => ZoomInv
<1> SUFFICES ASSUME Init PROVE ZoomInv
  OBVIOUS
<1>1. world.sc \in 1..MaxScale
  BY CameraAssumption DEF Init, Identity, View
<1>2. msh = [playing |-> FALSE, elapsed |-> 0, from |-> NoView, to |-> NoView,
             current |-> NoView]
  BY DEF Init, NewAnimator
<1>3. 0 \in 0..Duration
  BY CameraAssumption, AnimatorAssumption
<1> QED
  BY <1>1, <1>2, <1>3 DEF ZoomInv, ZoomOK, ScaleInBounds

\* The camera never leaves its scaling limits, however zooms follow or
\* interrupt each other.
THEOREM ScaleStaysInBounds == Spec => []ScaleInBounds
<1>1. ZoomInv => ScaleInBounds
  BY DEF ZoomInv
<1> QED
  BY <1>1, InitZoomInv, StepZoomInv, PTL DEF Spec
-----------------------------------------------------------------------------
(* The keyboard.                                                           *)

\* A key is its axis and its indirection.
LEMMA KeyFields ==
    ASSUME NEW key \in Keys
    PROVE  /\ key.axis \in Axes /\ key.indirection \in BOOLEAN
           /\ key = Key(key.axis, key.indirection)
<1>1. PICK a \in Axes, b \in BOOLEAN : key = [axis |-> a, indirection |-> b]
  BY DEF Keys
<1>2. key.axis = a /\ key.indirection = b
  BY <1>1
<1> QED
  BY <1>1, <1>2, Zenon DEF Key

\* An axis has two keys.
LEMMA OtherKey ==
    ASSUME NEW key \in Keys, NEW k \in Keys, k.axis = key.axis, k # key
    PROVE  k = Key(key.axis, ~key.indirection)
<1>1. /\ key = Key(key.axis, key.indirection) /\ k = Key(key.axis, k.indirection)
      /\ key.indirection \in BOOLEAN /\ k.indirection \in BOOLEAN
  BY KeyFields, Zenon
<1>2. k.indirection # key.indirection
  BY <1>1, Zenon
<1>3. k.indirection = ~key.indirection
  BY <1>1, <1>2, Zenon
<1> QED
  BY <1>1, <1>3, Zenon

\* What the mouse and the zooms leave alone.
LEMMA SameKeyboardInv ==
    ASSUME KeyboardInv, UNCHANGED <<held, km, momentum, order>>
    PROVE  KeyboardInv'
BY DEF KeyboardInv, KeyboardTypeOK, KeysAcknowledged, LatestWasLast,
       DirectionIsLatest, Acknowledged, Pressed

\* stopAnim() forgets every key.
LEMMA StopKeyboardInv ==
    ASSUME held \subseteq Keys, held' = held,
           km' = NoKeys, momentum' = [a \in Axes |-> AtRest], order' = {}
    PROVE  KeyboardInv'
<1>1. Acknowledged' = {} /\ km'.moving = {} /\ \A axis \in Axes : Pressed(km', axis) = {}
  BY DEF Acknowledged, NoKeys, Pressed
<1>2. \A axis \in Axes : momentum'[axis].currentDirection = 0
  BY DEF AtRest
<1>3. KeyboardTypeOK'
  <2>1. km' \in [moving : SUBSET Keys, latest : [Axes -> BOOLEAN]]
    BY DEF NoKeys
  <2>2. AtRest \in [timePassed : Nat, currentDirection : {-1, 0, 1},
                    momentumDirection : {-1, 0, 1}]
    BY DEF AtRest
  <2> QED
    BY <2>1, <2>2 DEF KeyboardTypeOK
<1> QED
  BY <1>1, <1>2, <1>3 DEF KeyboardInv, KeysAcknowledged, LatestWasLast, DirectionIsLatest

\* A frame changes how long the keys have moved the camera.
LEMMA AdvanceKeyboardInv ==
    ASSUME KeyboardInv, NEW fd \in Nat, AdvanceKeyboard(fd), UNCHANGED <<held, km, order>>
    PROVE  KeyboardInv'
<1> DEFINE Type == [timePassed : Nat, currentDirection : {-1, 0, 1},
                    momentumDirection : {-1, 0, 1}]
<1>1. ASSUME NEW axis \in Axes
      PROVE  momentum'[axis] \in Type
             /\ momentum'[axis].currentDirection = momentum[axis].currentDirection
  <2>1. momentum'[axis] = considerAxis(momentum[axis], fd) /\ momentum[axis] \in Type
    BY <1>1 DEF AdvanceKeyboard, KeyboardInv, KeyboardTypeOK
  <2>2. PICK m \in Type : m = momentum[axis]
    BY <2>1
  <2>3. Min({MaxSpeedTime, m.timePassed + fd}) \in Nat
    <3>1. MaxSpeedTime \in Int /\ m.timePassed + fd \in Int
          /\ MaxSpeedTime >= 0 /\ m.timePassed + fd >= 0
      BY KeyboardAssumption
    <3> QED
      BY ONLY <3>1, MinOfTwo
  <2>4. Max({0, m.timePassed - fd}) \in Nat
    <3>1. 0 \in Int /\ m.timePassed - fd \in Int
      OBVIOUS
    <3> QED
      BY ONLY <3>1, MaxOfTwo
  <2>5. considerAxis(m, fd) \in Type
        /\ considerAxis(m, fd).currentDirection = m.currentDirection
    BY <2>3, <2>4 DEF considerAxis
  <2> QED
    BY <2>1, <2>2, <2>5, Zenon
<1>2. momentum' = [a \in Axes |-> momentum'[a]]
  BY DEF AdvanceKeyboard
<1>3. momentum' \in [Axes -> Type]
  BY <1>1, <1>2, Zenon
<1>4. KeyboardTypeOK'
  BY <1>3 DEF KeyboardInv, KeyboardTypeOK
<1>5. KeysAcknowledged' /\ LatestWasLast'
  BY DEF KeyboardInv, KeysAcknowledged, LatestWasLast, Acknowledged, Pressed
<1>6. DirectionIsLatest'
  BY <1>1 DEF KeyboardInv, DirectionIsLatest, Pressed
<1> QED
  BY <1>4, <1>5, <1>6 DEF KeyboardInv

\* Whichever key is pressed or released, its axis follows the latest of those
\* that are left, and the other axis keeps its direction.
LEMMA KeyEventInv ==
    ASSUME KeyboardInv, NEW key \in Keys, NEW isPress \in BOOLEAN, keyEvent(key, isPress)
    PROVE  /\ DirectionIsLatest'
           /\ km' \in [moving : SUBSET Keys, latest : [Axes -> BOOLEAN]]
           /\ momentum' \in [Axes -> [timePassed : Nat, currentDirection : {-1, 0, 1},
                                      momentumDirection : {-1, 0, 1}]]
           /\ km'.moving = IF isPress THEN km.moving \cup {key} ELSE km.moving \ {key}
           /\ km'.latest[key.axis] = IF isPress THEN key.indirection ELSE ~key.indirection
           /\ \A axis \in Axes \ {key.axis} : /\ Pressed(km', axis) = Pressed(km, axis)
                                              /\ km'.latest[axis] = km.latest[axis]
<1> DEFINE Type == [timePassed : Nat, currentDirection : {-1, 0, 1},
                    momentumDirection : {-1, 0, 1}]
           latest == IF isPress THEN key.indirection ELSE ~key.indirection
           moving == IF isPress THEN km.moving \cup {key} ELSE km.moving \ {key}
<1>1. /\ key.axis \in Axes /\ key.indirection \in BOOLEAN
      /\ km.moving \subseteq Keys /\ km.latest \in [Axes -> BOOLEAN]
      /\ momentum \in [Axes -> Type]
  BY KeyFields DEF KeyboardInv, KeyboardTypeOK
<1>2. km' = [moving |-> moving, latest |-> [km.latest EXCEPT ![key.axis] = latest]]
  BY DEF keyEvent, ackMovement
<1>3. latest \in BOOLEAN
  BY <1>1, Zenon
<1>4. moving \subseteq Keys
  BY <1>1
<1> HIDE DEF latest, moving
<1>5. /\ km'.moving = moving
      /\ km'.latest = [km.latest EXCEPT ![key.axis] = latest]
  BY <1>2
<1>6. km'.latest \in [Axes -> BOOLEAN]
  BY <1>1, <1>3, <1>5, Zenon
<1>7. km'.latest[key.axis] = latest
  BY <1>1, <1>5, Zenon
<1>8. ASSUME NEW axis \in Axes \ {key.axis}
      PROVE  Pressed(km', axis) = Pressed(km, axis) /\ km'.latest[axis] = km.latest[axis]
  <2>1. Pressed(km', axis) = Pressed(km, axis)
    BY <1>5 DEF Pressed, moving
  <2> QED
    BY <1>1, <1>5, <2>1, Zenon
<1>9. \A b : Direction(b) \in {-1, 1}
  BY DEF Direction
<1>10. PICK m \in Type : /\ momentum' = [momentum EXCEPT ![key.axis] = m]
                         /\ m.currentDirection = IF Pressed(km', key.axis) = {} THEN 0
                                                 ELSE Direction(km'.latest[key.axis])
  <2>1. momentum[key.axis] \in Type
    BY <1>1
  <2>2. PICK d \in {-1, 1} : d = Direction(km'.latest[key.axis])
    BY <1>9
  <2>3. momentum' = [momentum EXCEPT ![key.axis] =
                        IF Pressed(km', key.axis) # {}
                        THEN [momentum[key.axis] EXCEPT !.currentDirection = d]
                        ELSE defineMomentum(momentum[key.axis])]
    BY <1>1, <2>2 DEF keyEvent, updateMomentum
  <2>4. PICK n \in Type : n = momentum[key.axis]
    BY <2>1
  <2>5. /\ [n EXCEPT !.currentDirection = d] \in Type
        /\ [n EXCEPT !.currentDirection = d].currentDirection = d
    OBVIOUS
  <2>6. defineMomentum(n) \in Type /\ defineMomentum(n).currentDirection = 0
    BY DEF defineMomentum
  <2> HIDE DEF Type
  <2>7. CASE Pressed(km', key.axis) = {}
    BY <2>3, <2>4, <2>6, <2>7, Zenon
  <2>8. CASE Pressed(km', key.axis) # {}
    BY <2>2, <2>3, <2>4, <2>5, <2>8, Zenon
  <2> QED
    BY <2>7, <2>8
<1>11. momentum' \in [Axes -> Type]
  BY <1>1, <1>10, Zenon
<1>12. DirectionIsLatest'
  <2> SUFFICES ASSUME NEW axis \in Axes
               PROVE  momentum'[axis].currentDirection =
                         IF Pressed(km', axis) = {} THEN 0 ELSE Direction(km'.latest[axis])
    BY DEF DirectionIsLatest, Pressed
  <2>1. CASE axis = key.axis
    <3>1. momentum'[axis] = m
      BY <1>1, <1>10, <2>1, Zenon
    <3> QED
      BY <1>10, <2>1, <3>1, Zenon
  <2>2. CASE axis # key.axis
    <3>1. momentum'[axis] = momentum[axis]
      BY <1>1, <1>10, <2>2, Zenon
    <3>2. Pressed(km', axis) = Pressed(km, axis) /\ km'.latest[axis] = km.latest[axis]
      BY <1>8, <2>2
    <3>3. momentum[axis].currentDirection =
             IF Pressed(km, axis) = {} THEN 0 ELSE Direction(km.latest[axis])
      BY DEF KeyboardInv, DirectionIsLatest
    <3> QED
      BY <3>1, <3>2, <3>3, Zenon
  <2> QED
    BY <2>1, <2>2
<1>13. km' \in [moving : SUBSET Keys, latest : [Axes -> BOOLEAN]]
  BY <1>2, <1>4, <1>5, <1>6
<1> QED
  BY <1>5, <1>7, <1>8, <1>11, <1>12, <1>13, Zenon DEF latest, moving

\* The key that is pressed is the last one of its axis.
LEMMA PressInv ==
    ASSUME KeyboardInv, NEW key \in Keys, keyPressEvent(key)
    PROVE  KeyboardInv'
<1> DEFINE new == {<<k, key>> : k \in Acknowledged \cup {key}}
<1>1. /\ key \notin held /\ held' = held \cup {key} /\ keyEvent(key, TRUE)
      /\ order' = order \cup new
  BY DEF keyPressEvent
<1>2. /\ held \subseteq Keys
      /\ km.moving = Acknowledged /\ Acknowledged \subseteq held
  BY DEF KeyboardInv, KeyboardTypeOK, KeysAcknowledged
<1>3. Acknowledged' = Acknowledged \cup {key}
  <2>1. ASSUME NEW k \in Keys PROVE <<k, k>> \in order' <=> k = key \/ <<k, k>> \in order
    BY <1>1
  <2> QED
    BY <2>1 DEF Acknowledged
<1>4. /\ km'.moving = Acknowledged'
      /\ km'.latest[key.axis] = key.indirection
      /\ DirectionIsLatest'
      /\ \A axis \in Axes \ {key.axis} : /\ Pressed(km', axis) = Pressed(km, axis)
                                         /\ km'.latest[axis] = km.latest[axis]
  BY <1>1, <1>2, <1>3, KeyEventInv, Zenon
<1>5. KeyboardTypeOK'
  BY <1>1, <1>2, KeyEventInv DEF KeyboardTypeOK
<1>6. KeysAcknowledged'
  BY <1>1, <1>2, <1>3, <1>4 DEF KeysAcknowledged
<1>7. ASSUME NEW axis \in Axes, Pressed(km', axis) # {}
      PROVE  /\ Key(axis, km'.latest[axis]) \in Acknowledged'
             /\ \A k \in Pressed(km', axis) : <<k, Key(axis, km'.latest[axis])>> \in order'
  <2>1. CASE axis = key.axis
    <3>1. Key(axis, km'.latest[axis]) = key
      BY <1>4, <2>1, KeyFields, Zenon
    <3>2. Pressed(km', axis) \subseteq Acknowledged \cup {key}
      BY <1>3, <1>4 DEF Pressed
    <3>3. \A k \in Pressed(km', axis) : <<k, key>> \in order'
      BY <1>1, <3>2, Zenon
    <3> QED
      BY <1>3, <3>1, <3>3, Zenon
  <2>2. CASE axis # key.axis
    <3>1. Pressed(km', axis) = Pressed(km, axis) /\ km'.latest[axis] = km.latest[axis]
      BY <1>4, <2>2
    <3>2. /\ Key(axis, km.latest[axis]) \in Acknowledged
          /\ \A k \in Pressed(km, axis) : <<k, Key(axis, km.latest[axis])>> \in order
      BY <1>7, <3>1, Zenon DEF KeyboardInv, LatestWasLast
    <3> QED
      BY <1>1, <1>3, <3>1, <3>2, Zenon
  <2> QED
    BY <2>1, <2>2
<1>8. LatestWasLast'
  BY <1>7, Zenon DEF LatestWasLast, Pressed
<1> QED
  BY <1>4, <1>5, <1>6, <1>8 DEF KeyboardInv

\* The key that is left of an axis is the last one of it, also when it was
\* pressed before the one that is released.
LEMMA ReleaseInv ==
    ASSUME KeyboardInv, NEW key \in Keys, keyReleaseEvent(key)
    PROVE  KeyboardInv'
<1>1. /\ held' = held \ {key} /\ keyEvent(key, FALSE)
      /\ order' = {p \in order : p[1] # key /\ p[2] # key}
  BY DEF keyReleaseEvent
<1>2. /\ held \subseteq Keys
      /\ km.moving = Acknowledged /\ Acknowledged \subseteq held
  BY DEF KeyboardInv, KeyboardTypeOK, KeysAcknowledged
<1>3. \A k, l : <<k, l>> \in order' <=> <<k, l>> \in order /\ k # key /\ l # key
  BY <1>1
<1>4. Acknowledged' = Acknowledged \ {key}
  BY <1>3 DEF Acknowledged
<1>5. /\ km'.moving = Acknowledged'
      /\ km'.latest[key.axis] = ~key.indirection
      /\ DirectionIsLatest'
      /\ \A axis \in Axes \ {key.axis} : /\ Pressed(km', axis) = Pressed(km, axis)
                                         /\ km'.latest[axis] = km.latest[axis]
  BY <1>1, <1>2, <1>4, KeyEventInv, Zenon
<1>6. KeyboardTypeOK'
  BY <1>1, <1>2, KeyEventInv DEF KeyboardTypeOK
<1>7. KeysAcknowledged'
  BY <1>1, <1>2, <1>4, <1>5 DEF KeysAcknowledged
<1>8. ASSUME NEW axis \in Axes, Pressed(km', axis) # {}
      PROVE  /\ Key(axis, km'.latest[axis]) \in Acknowledged'
             /\ \A k \in Pressed(km', axis) : <<k, Key(axis, km'.latest[axis])>> \in order'
  <2>1. CASE axis = key.axis
    <3>1. ASSUME NEW k \in Pressed(km', axis)
          PROVE  /\ k = Key(axis, km'.latest[axis])
                 /\ k \in Acknowledged'
                 /\ <<k, k>> \in order'
      <4>1. k \in Acknowledged' /\ k.axis = axis
        BY <1>5 DEF Pressed
      <4>2. k \in Keys /\ k # key /\ <<k, k>> \in order
        BY <1>4, <4>1 DEF Acknowledged
      <4>3. k = Key(axis, ~key.indirection)
        BY <2>1, <4>1, <4>2, OtherKey, Zenon
      <4> QED
        BY <1>3, <1>5, <2>1, <4>1, <4>2, <4>3, Zenon
    <3> QED
      BY <1>8, <3>1, Zenon
  <2>2. CASE axis # key.axis
    <3>1. Pressed(km', axis) = Pressed(km, axis) /\ km'.latest[axis] = km.latest[axis]
      BY <1>5, <2>2
    <3>2. /\ Key(axis, km.latest[axis]) \in Acknowledged
          /\ \A k \in Pressed(km, axis) : <<k, Key(axis, km.latest[axis])>> \in order
      BY <1>8, <3>1, Zenon DEF KeyboardInv, LatestWasLast
    <3>3. Key(axis, km.latest[axis]) # key /\ \A k \in Pressed(km, axis) : k # key
      BY <2>2 DEF Key, Pressed
    <3> QED
      BY <1>3, <1>4, <3>1, <3>2, <3>3, Zenon
  <2> QED
    BY <2>1, <2>2
<1>9. LatestWasLast'
  BY <1>8, Zenon DEF LatestWasLast, Pressed
<1> QED
  BY <1>5, <1>6, <1>7, <1>9 DEF KeyboardInv

\* Keys, frames, Esc and the mouse, in whatever order they come.
LEMMA StepKeyboardInv == KeyboardInv /\ frame \in Nat /\ [Next]_vars => KeyboardInv'
<1> SUFFICES ASSUME KeyboardInv, frame \in Nat, [Next]_vars PROVE KeyboardInv'
  OBVIOUS
<1>0. held \subseteq Keys
  BY DEF KeyboardInv, KeyboardTypeOK
<1>1. CASE PressLeft \/ ReleaseLeft
  <2>1. UNCHANGED <<km, momentum, order>> \/ StopKeyboard
    BY <1>1 DEF PressLeft, ReleaseLeft, UpdateFromMoveVectorAndPlay
  <2>2. held' = held
    BY <1>1 DEF PressLeft, ReleaseLeft
  <2> QED
    BY <1>0, <2>1, <2>2, SameKeyboardInv, StopKeyboardInv DEF StopKeyboard
<1>2. CASE \/ DragLeft \/ snapshotZoom
           \/ \E direction \in {-1, 1} : ScrollOnMap(direction) \/ InstantZoom(direction)
  <2>1. UNCHANGED keyboardVars
    BY <1>2 DEF DragLeft, snapshotZoom, ScrollOnMap, InstantZoom, ZoomTo
  <2> QED
    BY <2>1, SameKeyboardInv DEF keyboardVars
<1>3. ASSUME NEW key \in Keys, PressKey(key) \/ ReleaseKey(key) PROVE KeyboardInv'
  BY <1>3, PressInv, ReleaseInv DEF PressKey, ReleaseKey
<1>4. CASE resetWorldMatrix
  BY <1>0, <1>4, StopKeyboardInv DEF resetWorldMatrix, StopKeyboard
<1>5. ASSUME NEW ticks \in FrameTimes, Draw(ticks) PROVE KeyboardInv'
  BY <1>5, AdvanceKeyboardInv DEF Draw
<1>6. CASE UNCHANGED vars
  BY <1>6, SameKeyboardInv DEF vars, keyboardVars
<1> QED
  BY <1>1, <1>2, <1>3, <1>4, <1>5, <1>6 DEF Next

\* A frame lasts a number of ticks.
LEMMA StepFrame == frame \in Nat /\ [Next]_vars => frame' \in Nat
<1> SUFFICES ASSUME frame \in Nat, [Next]_vars PROVE frame' \in Nat
  OBVIOUS
<1>1. frame' = frame \/ frame' \in FrameTimes
  BY DEF Next, vars, PressLeft, DragLeft, ReleaseLeft, snapshotZoom, ScrollOnMap, InstantZoom,
         PressKey, ReleaseKey, resetWorldMatrix, Draw, Input, MouseInput
<1> QED
  BY <1>1, KeyboardAssumption, AnimatorAssumption

\* Nothing is pressed at first.
LEMMA InitKeyboardInv == Init => KeyboardInv /\ frame \in Nat
<1> SUFFICES ASSUME Init PROVE KeyboardInv
  BY DEF Init
<1>1. /\ held = {} /\ km = NoKeys /\ momentum = [a \in Axes |-> AtRest] /\ order = {}
  BY DEF Init, KeyboardInit
<1>2. Acknowledged = {} /\ km.moving = {} /\ \A axis \in Axes : Pressed(km, axis) = {}
  BY <1>1 DEF Acknowledged, NoKeys, Pressed
<1>3. \A axis \in Axes : momentum[axis].currentDirection = 0
  BY <1>1 DEF AtRest
<1>4. KeyboardTypeOK
  <2>1. km \in [moving : SUBSET Keys, latest : [Axes -> BOOLEAN]]
    BY <1>1 DEF NoKeys
  <2>2. AtRest \in [timePassed : Nat, currentDirection : {-1, 0, 1},
                    momentumDirection : {-1, 0, 1}]
    BY DEF AtRest
  <2> QED
    BY <1>1, <2>1, <2>2 DEF KeyboardTypeOK
<1> QED
  BY <1>2, <1>3, <1>4 DEF KeyboardInv, KeysAcknowledged, LatestWasLast, DirectionIsLatest

\* The direction of an axis is that of the acknowledged key pressed last.
LEMMA InvFollowsKeys == KeyboardInv => DirectionFollowsKeys
<1> SUFFICES ASSUME KeyboardInv, NEW axis \in Axes
             PROVE  LET mine == {k \in Acknowledged : k.axis = axis}
                    IN  IF mine = {} THEN momentum[axis].currentDirection = 0
                        ELSE \E latest \in mine :
                                /\ \A k \in mine : <<k, latest>> \in order
                                /\ momentum[axis].currentDirection = Direction(latest.indirection)
  BY DEF DirectionFollowsKeys
<1> DEFINE mine == {k \in Acknowledged : k.axis = axis}
           latest == Key(axis, km.latest[axis])
<1>1. Pressed(km, axis) = mine
  BY DEF KeyboardInv, KeysAcknowledged, Pressed
<1>2. momentum[axis].currentDirection = IF mine = {} THEN 0 ELSE Direction(km.latest[axis])
  BY <1>1, Zenon DEF KeyboardInv, DirectionIsLatest
<1>3. ASSUME mine # {} PROVE latest \in Acknowledged /\ \A k \in mine : <<k, latest>> \in order
  BY <1>1, <1>3, Zenon DEF KeyboardInv, LatestWasLast
<1>4. latest.axis = axis /\ latest.indirection = km.latest[axis]
  BY DEF Key
<1> HIDE DEF latest
<1> QED
  BY <1>2, <1>3, <1>4, Zenon

\* Whatever keys were pressed and released, and whatever the mouse and Esc did
\* between, the camera moves where the last key that is still acknowledged says.
THEOREM CameraFollowsKeys == Spec => []DirectionFollowsKeys
<1>1. Init => KeyboardInv /\ frame \in Nat
  BY InitKeyboardInv
<1>2. (KeyboardInv /\ frame \in Nat) /\ [Next]_vars => (KeyboardInv /\ frame \in Nat)'
  BY StepKeyboardInv, StepFrame
<1> QED
  BY <1>1, <1>2, InvFollowsKeys, PTL DEF Spec

-----------------------------------------------------------------------------
(* Esc.                                                                    *)

\* Assigning a member of an animator leaves it an animator.
LEMMA SetMember ==
    ASSUME NEW a, IsAnimator(a), NEW value
    PROVE  /\ IsAnimator([a EXCEPT !.playing = value])
           /\ [a EXCEPT !.playing = value].playing = value
           /\ IsAnimator([a EXCEPT !.elapsed = value])
           /\ [a EXCEPT !.elapsed = value].playing = a.playing
           /\ IsAnimator([a EXCEPT !.current = value])
<1>1. [a EXCEPT !.playing = value] = [playing |-> value, elapsed |-> a.elapsed, from |-> a.from,
                                      to |-> a.to, current |-> a.current]
  BY DEF IsAnimator
<1>2. [a EXCEPT !.elapsed = value] = [playing |-> a.playing, elapsed |-> value, from |-> a.from,
                                      to |-> a.to, current |-> a.current]
  BY DEF IsAnimator
<1>3. [a EXCEPT !.current = value] = [playing |-> a.playing, elapsed |-> a.elapsed,
                                      from |-> a.from, to |-> a.to, current |-> value]
  BY DEF IsAnimator
<1>4. IsAnimator([a EXCEPT !.playing = value]) /\ [a EXCEPT !.playing = value].playing = value
  BY <1>1 DEF IsAnimator
<1>5. IsAnimator([a EXCEPT !.elapsed = value]) /\ [a EXCEPT !.elapsed = value].playing = a.playing
  BY <1>2 DEF IsAnimator
<1>6. IsAnimator([a EXCEPT !.current = value])
  BY <1>3 DEF IsAnimator
<1> QED
  BY <1>4, <1>5, <1>6

\* A stopped animator does not play.
LEMMA Stopped ==
    ASSUME NEW a, IsAnimator(a)
    PROVE  IsAnimator(StopAnim(a)) /\ ~IsPlaying(StopAnim(a))
<1>1. StopAnim(a) = [[a EXCEPT !.playing = FALSE] EXCEPT !.elapsed = 0]
  BY DEF StopAnim
<1>2. PICK b : b = [a EXCEPT !.playing = FALSE]
  OBVIOUS
<1>3. IsAnimator(b) /\ b.playing = FALSE
  BY <1>2, SetMember, Zenon
<1>4. IsAnimator([b EXCEPT !.elapsed = 0]) /\ [b EXCEPT !.elapsed = 0].playing = b.playing
  BY <1>3, SetMember, Zenon
<1> QED
  BY <1>1, <1>2, <1>3, <1>4, Zenon DEF IsPlaying

\* One that does not play moves nothing in a frame, and is not started by it.
LEMMA NotPlaying ==
    ASSUME NEW a, IsAnimator(a), NEW ticks, NEW between
    PROVE  LET a1 == Advanced(a, Duration, between)
           IN  /\ IsAnimator(NextFrame(a1, ticks, Duration))
               /\ ~IsPlaying(a) => a1 = a /\ ~IsPlaying(NextFrame(a1, ticks, Duration))
<1>1. ASSUME NEW b, IsAnimator(b)
      PROVE  /\ IsAnimator(NextFrame(b, ticks, Duration))
             /\ ~IsPlaying(b) => ~IsPlaying(NextFrame(b, ticks, Duration))
  <2>1. PICK e : NextFrame(b, ticks, Duration) = [b EXCEPT !.elapsed = e]
    BY DEF NextFrame
  <2>2. IsAnimator([b EXCEPT !.elapsed = e]) /\ [b EXCEPT !.elapsed = e].playing = b.playing
    BY <1>1, SetMember, Zenon
  <2> QED
    BY <2>1, <2>2, Zenon DEF IsPlaying
<1>2. IsAnimator(Advanced(a, Duration, between))
  <2>1. [a EXCEPT !.playing = FALSE, !.elapsed = 0, !.current = a.to] =
           [[[a EXCEPT !.playing = FALSE] EXCEPT !.elapsed = 0] EXCEPT !.current = a.to]
    OBVIOUS
  <2>2. IsAnimator([a EXCEPT !.playing = FALSE, !.elapsed = 0, !.current = a.to])
    BY <2>1, SetMember, Zenon
  <2>3. IsAnimator([a EXCEPT !.current = between])
    BY SetMember
  <2> QED
    BY <2>2, <2>3, Zenon DEF Advanced
<1>3. ~IsPlaying(a) => Advanced(a, Duration, between) = a
  BY Zenon DEF Advanced, IsPlaying
<1> QED
  BY <1>1, <1>2, <1>3, Zenon

\* An axis at rest stays at rest and does not move the camera.
LEMMA RestIsKept ==
    ASSUME NEW fd \in Nat
    PROVE  considerAxis(AtRest, fd) = AtRest /\ Translation(AtRest, fd) = 0
<1>1. Max({0, 0 - fd}) = 0
  <2>1. 0 \in Int /\ 0 - fd \in Int /\ 0 >= 0 - fd
    OBVIOUS
  <2> QED
    BY ONLY <2>1, MaxOfTwo
<1>2. considerAxis(AtRest, fd) = AtRest
  BY <1>1 DEF considerAxis, AtRest
<1> QED
  BY <1>2 DEF Translation, AtRest

\* A frame after Esc leaves everything where it is.
LEMMA DrawStill ==
    ASSUME StillAfterReset, NEW ticks \in FrameTimes, Draw(ticks)
    PROVE  StillAfterReset'
<1> DEFINE mmh1 == Advanced(mmh, Duration, LerpInt(mmh, Duration))
           msh1 == Advanced(msh, Duration, LerpView(msh, Duration))
<1>1. /\ world' = MovedByKeyboard(MovedByZoom(MovedByMouse(world, mmh1), msh1, msh.current))
      /\ momentum' = [a \in Axes |-> considerAxis(momentum[a], frame)]
      /\ mmh' = NextFrame(mmh1, ticks, Duration)
      /\ msh' = NextFrame(msh1, ticks, Duration)
      /\ frame' = ticks /\ UNCHANGED <<km, last>>
  BY DEF Draw, AdvanceKeyboard
<1>2. /\ IsAnimator(mmh') /\ ~IsPlaying(mmh) => mmh1 = mmh /\ ~IsPlaying(mmh')
      /\ IsAnimator(msh') /\ ~IsPlaying(msh) => msh1 = msh /\ ~IsPlaying(msh')
  <2>1. IsAnimator(mmh) /\ IsAnimator(msh)
    BY DEF StillAfterReset
  <2> QED
    BY <1>1, <2>1, NotPlaying, Zenon
<1>3. IsAnimator(mmh') /\ IsAnimator(msh')
  <2>1. IsAnimator(mmh) /\ IsAnimator(msh)
    BY DEF StillAfterReset
  <2> QED
    BY <1>1, <2>1, NotPlaying, Zenon
<1> HIDE DEF mmh1, msh1
<1>4. frame \in Nat /\ frame' \in Nat
  BY <1>1, KeyboardAssumption, AnimatorAssumption DEF StillAfterReset
<1>5. ASSUME last \in {"none", "reset"}
      PROVE  /\ world' = Identity /\ ~IsPlaying(mmh') /\ ~IsPlaying(msh')
             /\ km'.moving = {} /\ momentum' = [a \in Axes |-> AtRest]
  <2>1. /\ world = Identity /\ ~IsPlaying(mmh) /\ ~IsPlaying(msh)
        /\ km.moving = {} /\ momentum = [a \in Axes |-> AtRest]
    BY <1>5 DEF StillAfterReset
  <2>2. mmh1 = mmh /\ msh1 = msh /\ ~IsPlaying(mmh') /\ ~IsPlaying(msh')
    BY <1>2, <1>3, <2>1, Zenon
  <2>3. \A a \in Axes : momentum[a] = AtRest
    BY <2>1
  <2>4. momentum' = [a \in Axes |-> AtRest]
    BY <1>1, <1>4, <2>3, RestIsKept
  <2>5. Shift("x") = 0 /\ Shift("y") = 0
    BY <1>4, <2>3, RestIsKept, Zenon DEF Shift
  <2>6. MovedByZoom(MovedByMouse(world, mmh1), msh1, msh.current) = Identity
    BY <2>1, <2>2, Zenon DEF MovedByZoom, MovedByMouse
  <2>7. MovedByKeyboard(Identity) = Identity
    BY <2>5 DEF MovedByKeyboard, Identity, View
  <2> QED
    BY <1>1, <2>1, <2>2, <2>4, <2>6, <2>7, Zenon
<1> QED
  BY <1>1, <1>3, <1>4, <1>5, Zenon DEF StillAfterReset, IsAnimator

\* Only a frame, a key that is released or Esc come after Esc without being an
\* input that moves the camera.
LEMMA StepStill ==
    KeyboardInv /\ StillAfterReset /\ [Next]_vars => StillAfterReset'
<1> SUFFICES ASSUME KeyboardInv, StillAfterReset, [Next]_vars PROVE StillAfterReset'
  OBVIOUS
<1>0. frame \in Nat /\ IsAnimator(mmh) /\ IsAnimator(msh)
  BY DEF StillAfterReset
<1>1. \A from, to, zero : IsAnimator(UpdateAnimationAndPlay(from, to, zero))
  BY DEF IsAnimator, UpdateAnimationAndPlay
<1>2. ASSUME frame' = frame, last' \notin {"none", "reset"}, IsAnimator(mmh'), IsAnimator(msh')
      PROVE  StillAfterReset'
  BY <1>0, <1>2 DEF StillAfterReset, IsAnimator
<1>3. CASE PressLeft \/ ReleaseLeft
  <2>1. frame' = frame /\ msh' = msh /\ last' \notin {"none", "reset"}
    BY <1>3 DEF PressLeft, ReleaseLeft, MouseInput, Input
  <2>2. IsAnimator(mmh')
    BY <1>0, <1>1, <1>3, Stopped DEF PressLeft, ReleaseLeft, UpdateFromMoveVectorAndPlay
  <2> QED
    BY <1>0, <1>2, <2>1, <2>2
<1>4. CASE DragLeft
  BY <1>0, <1>2, <1>4 DEF DragLeft, Input
<1>5. CASE \/ snapshotZoom
           \/ \E direction \in {-1, 1} : ScrollOnMap(direction) \/ InstantZoom(direction)
  <2>1. frame' = frame /\ mmh' = mmh /\ last' \notin {"none", "reset"}
    BY <1>5 DEF snapshotZoom, ScrollOnMap, InstantZoom, ZoomTo, Input
  <2>2. IsAnimator(msh')
    BY <1>0, <1>1, <1>5, Stopped DEF snapshotZoom, ScrollOnMap, InstantZoom, ZoomTo
  <2> QED
    BY <1>0, <1>2, <2>1, <2>2
<1>6. ASSUME NEW key \in Keys, PressKey(key) PROVE StillAfterReset'
  BY <1>0, <1>2, <1>6 DEF PressKey, Input, mouse
<1>7. ASSUME NEW key \in Keys, ReleaseKey(key) PROVE StillAfterReset'
  <2>1. /\ frame' = frame /\ last' = last
        /\ mmh' = mmh /\ msh' = msh /\ world' = world
        /\ km' = ackMovement(key, FALSE) /\ momentum' = updateMomentum(km', key.axis)
    BY <1>7 DEF ReleaseKey, Input, mouse, keyReleaseEvent, keyEvent
  <2>2. ASSUME km.moving = {}, momentum = [a \in Axes |-> AtRest]
        PROVE  km'.moving = {} /\ momentum' = [a \in Axes |-> AtRest]
    <3>1. km'.moving = {}
      BY <2>1, <2>2 DEF ackMovement
    <3>2. Pressed(km', key.axis) = {}
      BY <3>1 DEF Pressed
    <3>3. key.axis \in Axes
      BY KeyFields
    <3>4. momentum' = [momentum EXCEPT ![key.axis] = defineMomentum(momentum[key.axis])]
      BY <2>1, <3>2 DEF updateMomentum
    <3>5. defineMomentum(AtRest) = AtRest
      <4>1. AtRest.currentDirection = 0
        BY DEF AtRest
      <4>2. [AtRest EXCEPT !.momentumDirection = 0] = AtRest
        BY DEF AtRest
      <4>3. [AtRest EXCEPT !.currentDirection = 0] = AtRest
        BY DEF AtRest
      <4>4. defineMomentum(AtRest) =
               [[AtRest EXCEPT !.momentumDirection = 0] EXCEPT !.currentDirection = 0]
        BY <4>1 DEF defineMomentum
      <4> QED
        BY ONLY <4>2, <4>3, <4>4, Zenon
    <3>6. momentum[key.axis] = AtRest
      BY <2>2, <3>3
    <3>7. momentum' = [momentum EXCEPT ![key.axis] = AtRest]
      BY <3>4, <3>5, <3>6, Zenon
    <3>8. momentum' = [a \in Axes |-> AtRest]
      <4>1. DOMAIN momentum' = Axes /\ \A a \in Axes : momentum'[a] = AtRest
        BY ONLY <2>2, <3>7, SMT
      <4>2. momentum' = [a \in Axes |-> momentum'[a]]
        BY ONLY <2>2, <3>7, <4>1, SMT
      <4> QED
        BY ONLY <4>1, <4>2
    <3> QED
      BY <3>1, <3>8
  <2> QED
    BY <1>0, <2>1, <2>2, Zenon DEF StillAfterReset
<1>8. CASE resetWorldMatrix
  <2>1. /\ frame' = frame /\ mmh' = StopAnim(mmh) /\ msh' = StopAnim(msh)
        /\ km' = NoKeys /\ momentum' = [a \in Axes |-> AtRest] /\ world' = Identity
    BY <1>8 DEF resetWorldMatrix, Input, StopKeyboard
  <2>2. km'.moving = {}
    BY <2>1 DEF NoKeys
  <2>3. /\ IsAnimator(mmh') /\ IsAnimator(msh')
        /\ ~IsPlaying(mmh') /\ ~IsPlaying(msh')
    BY <1>0, <2>1, Stopped, Zenon
  <2>4. frame' \in Nat /\ (Identity)' = Identity
    BY <1>0, <2>1 DEF Identity, View
  <2> QED
    BY <2>1, <2>2, <2>3, <2>4, Zenon DEF StillAfterReset, IsAnimator, IsPlaying
<1>9. ASSUME NEW ticks \in FrameTimes, Draw(ticks) PROVE StillAfterReset'
  BY <1>9, DrawStill
<1>10. CASE UNCHANGED vars
  BY <1>10, Zenon DEF StillAfterReset, IsAnimator, IsPlaying, vars, mouse, keyboardVars
<1> QED
  BY <1>3, <1>4, <1>5, <1>6, <1>7, <1>8, <1>9, <1>10 DEF Next

\* The application starts still.
LEMMA InitStill == Init => StillAfterReset
BY DEF Init, KeyboardInit, StillAfterReset, NewAnimator, IsAnimator, IsPlaying, NoKeys

\* After Esc, whatever played or was held before and whichever keys are
\* released later, the camera stays where it was reset.
THEOREM CameraStaysReset == Spec => []ResetHolds
<1> DEFINE Inv == KeyboardInv /\ StillAfterReset
<1>1. Init => Inv
  BY InitKeyboardInv, InitStill
<1>2. Inv /\ [Next]_vars => Inv'
  <2>1. StillAfterReset => frame \in Nat
    BY DEF StillAfterReset
  <2> QED
    BY <2>1, StepKeyboardInv, StepStill
<1>3. Inv => ResetHolds
  BY DEF StillAfterReset, ResetHolds
<1> HIDE DEF Inv
<1> QED
  BY <1>1, <1>2, <1>3, PTL DEF Spec
=============================================================================
