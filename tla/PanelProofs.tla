----------------------------- MODULE PanelProofs ----------------------------
(***************************************************************************)
(* Proofs about what is animated: the scrollable panel, and the widgets    *)
(* that look different when hovered.                                       *)
(*                                                                         *)
(* Scrolling: the content moves towards where it was scrolled however      *)
(* wheel, handle and frames follow each other, for any sizes and times,    *)
(* the handle goes along with it, and the panel that slides ends at most a *)
(* frame away from where it was sent.                                      *)
(*                                                                         *)
(* Layout, for windows of all sizes: the space of the panel is divided     *)
(* without overlap, and its parts are hovered where they are drawn.        *)
(*                                                                         *)
(* HoverLooks: what is drawn of the hovered text and of the button does    *)
(* not jump, whatever interrupts an animation.                             *)
(***************************************************************************)
EXTENDS Scrolling, Layout, HoverLooks, TLAPS

\* An animator of numbers, whose time does not run beyond its duration.
IsAnimator(a) ==
    /\ a = [playing |-> a.playing, elapsed |-> a.elapsed, from |-> a.from, to |-> a.to,
            current |-> a.current]
    /\ a.playing \in BOOLEAN
    /\ a.elapsed \in 0..Duration
    /\ a.from \in Int /\ a.to \in Int /\ a.current \in Int

ScrollTypes ==
    /\ IsAnimator(content)
    /\ contentMatrix \in Int /\ translationFactor \in Int /\ before \in Int
    /\ scrolls \in Nat

\* Where the last frame showed the content is on the way of the animation that
\* goes on, and where an animation starts is where it was shown, or where one
\* that had ended was heading.
OnItsWay ==
    /\ content.playing => content.to = translationFactor
    /\ content.playing /\ scrolls = 0 =>
          /\ content.current = contentMatrix
          /\ \E e \in 0..content.elapsed :
                contentMatrix = Lerp(content.from, content.to, e, Duration)
    /\ content.playing /\ scrolls = 1 =>
          content.elapsed = 0 /\ content.from \in {contentMatrix, before}
    /\ ~content.playing =>
          \/ content.current = contentMatrix
          \/ scrolls = 0 /\ content.current = before /\ before = translationFactor

ScrollInv == ScrollTypes /\ OnItsWay

\* Where the panel is at the end of the animation to its state, and where it
\* was when that began.
End == IF toggled THEN 0 ELSE Thickness
Start == IF toggled THEN Thickness ELSE 0

\* While the panel slides, the last frame showed it where it was a frame ago.
Slides ==
    panel.playing =>
        /\ panel.from = Start /\ panel.to = End
        /\ panel.elapsed # 0 =>
              \E e \in 0..Duration, ticks \in FrameTimes :
                  /\ panel.elapsed <= e + ticks
                  /\ panelMatrix = Lerp(Start, End, e, Duration)

PanelInv ==
    /\ IsAnimator(panel)
    /\ toggled \in BOOLEAN
    /\ Slides
    /\ PanelEndsWithinAFrame

-----------------------------------------------------------------------------
(* Arithmetic.                                                             *)

\* Times a natural number is monotonic.
LEMMA TimesMonotone ==
    ASSUME NEW a \in Int, NEW b \in Int, NEW n \in Nat, a <= b
    PROVE  a * n <= b * n
<1>1. PICK c \in Nat : b = a + c
  <2>1. b - a \in Nat /\ b = a + (b - a)
    OBVIOUS
  <2> QED
    BY <2>1
<1>2. c * n \in Nat
  OBVIOUS
<1>3. b * n = a * n + c * n
  BY <1>1
<1> QED
  BY <1>2, <1>3

\* So is the division by a positive number.
LEMMA DivMonotone ==
    ASSUME NEW p \in Int, NEW q \in Int, NEW n \in Nat \ {0}, p <= q
    PROVE  p \div n \in Int /\ q \div n \in Int /\ p \div n <= q \div n
<1>1. PICK x \in Int, y \in Int : x = p \div n /\ y = q \div n
  OBVIOUS
<1>2. x * n <= p /\ q < (y + 1) * n
  BY <1>1
<1>3. x <= y
  <2> SUFFICES ASSUME y + 1 <= x PROVE FALSE
    OBVIOUS
  <2>1. (y + 1) * n <= x * n
    BY TimesMonotone
  <2>2. (y + 1) * n \in Int /\ x * n \in Int
    OBVIOUS
  <2> QED
    BY ONLY <1>2, <2>1, <2>2, p \in Int, q \in Int, p <= q
<1> QED
  BY <1>1, <1>3

\* An animation never turns back: of two moments of it the later one is between
\* the earlier one and the end.
LEMMA LerpOnTheWay ==
    ASSUME NEW from \in Int, NEW to \in Int, NEW duration \in Nat \ {0},
           NEW e \in Nat, NEW f \in Nat, e <= f, f <= duration
    PROVE  /\ Lerp(from, to, e, duration) \in Int
           /\ Lerp(from, to, f, duration) \in Int
           /\ from <= to => /\ Lerp(from, to, e, duration) <= Lerp(from, to, f, duration)
                            /\ Lerp(from, to, f, duration) <= to
           /\ to <= from => /\ Lerp(from, to, f, duration) <= Lerp(from, to, e, duration)
                            /\ to <= Lerp(from, to, f, duration)
<1>1. PICK d \in Int : d = to - from
  OBVIOUS
<1>2. PICK p \in Int, q \in Int, r \in Int : p = d * e /\ q = d * f /\ r = d * duration
  OBVIOUS
<1>3. /\ p \div duration \in Int /\ q \div duration \in Int
      /\ Lerp(from, to, e, duration) = from + p \div duration
      /\ Lerp(from, to, f, duration) = from + q \div duration
  BY <1>1, <1>2 DEF Lerp
<1>4. r \div duration = d
  BY <1>2
<1>5. CASE from <= to
  <2>1. d \in Nat
    BY <1>1, <1>5
  <2>2. e * d <= f * d /\ f * d <= duration * d
    BY <2>1, TimesMonotone
  <2>3. p <= q /\ q <= r
    BY <1>2, <2>2
  <2>4. p \div duration <= q \div duration /\ q \div duration <= d
    BY <1>4, <2>3, DivMonotone
  <2>5. d = 0 => q \div duration = 0 /\ p \div duration = 0
    BY <1>2
  <2> QED
    BY ONLY <1>1, <1>3, <1>5, <2>4, <2>5, from \in Int, to \in Int, d \in Int
<1>6. CASE to <= from
  <2>1. PICK c \in Nat : d = -c
    <3>1. -d \in Nat /\ d = -(-d)
      BY <1>1, <1>6
    <3> QED
      BY <3>1
  <2>2. e * c <= f * c /\ f * c <= duration * c
    BY TimesMonotone
  <2>3. p = -(e * c) /\ q = -(f * c) /\ r = -(duration * c)
    BY <1>2, <2>1
  <2>4. q <= p /\ r <= q
    BY <2>2, <2>3
  <2>5. q \div duration <= p \div duration /\ d <= q \div duration
    BY <1>4, <2>4, DivMonotone
  <2>6. d = 0 => q \div duration = 0 /\ p \div duration = 0
    BY <1>2
  <2> QED
    BY ONLY <1>1, <1>3, <1>6, <2>5, <2>6, from \in Int, to \in Int, d \in Int
<1> QED
  BY <1>5, <1>6

\* An animation starts where it starts from.
LEMMA LerpAtStart ==
    ASSUME NEW from \in Int, NEW to \in Int, NEW duration \in Nat \ {0}
    PROVE  Lerp(from, to, 0, duration) = from
<1>1. (to - from) * 0 = 0 /\ 0 \div duration = 0
  OBVIOUS
<1> QED
  BY <1>1 DEF Lerp

\* A number on one of the ways between four numbers.
LEMMA MinMaxOfFour ==
    ASSUME NEW a \in Int, NEW b \in Int, NEW c \in Int, NEW d \in Int,
           NEW S, S = {a, b, c, d}, NEW x \in Int, NEW y \in S, NEW z \in S, y <= x, x <= z
    PROVE  x \in Min(S)..Max(S)
<1>1. \E m \in S : \A n \in S : m <= n
  OBVIOUS
<1>2. \E m \in S : \A n \in S : m >= n
  OBVIOUS
<1>3. Min(S) \in S /\ \A n \in S : Min(S) <= n
  BY <1>1 DEF Min
<1>4. Max(S) \in S /\ \A n \in S : Max(S) >= n
  BY <1>2 DEF Max
<1>5. S \subseteq Int
  OBVIOUS
<1>6. Min(S) \in Int /\ Max(S) \in Int /\ Min(S) <= y /\ z <= Max(S) /\ y \in Int /\ z \in Int
  BY <1>3, <1>4, <1>5
<1> QED
  BY ONLY <1>6, x \in Int, y <= x, x <= z, SMT

-----------------------------------------------------------------------------
(* Animators.                                                              *)

\* What is made of a record of five members is one.
LEMMA MadeAnimator ==
    ASSUME NEW p \in BOOLEAN, NEW e \in 0..Duration, NEW f \in Int, NEW t \in Int, NEW c \in Int,
           NEW a, a = [playing |-> p, elapsed |-> e, from |-> f, to |-> t, current |-> c]
    PROVE  /\ IsAnimator(a)
           /\ a.playing = p /\ a.elapsed = e /\ a.from = f /\ a.to = t /\ a.current = c
<1>1. a.playing = p /\ a.elapsed = e /\ a.from = f /\ a.to = t /\ a.current = c
  OBVIOUS
<1> QED
  BY <1>1, Zenon DEF IsAnimator

\* The time of a frame passes.
LEMMA TimePasses ==
    ASSUME NEW a, IsAnimator(a), NEW ticks \in Nat \ {0}
    PROVE  LET b == NextFrame(a, ticks, Duration)
           IN  /\ IsAnimator(b)
               /\ b.playing = a.playing /\ b.from = a.from /\ b.to = a.to /\ b.current = a.current
               /\ a.playing => /\ a.elapsed <= b.elapsed /\ b.elapsed <= a.elapsed + ticks
                               /\ b.elapsed # 0
<1> DEFINE el == IF ~a.playing THEN 0
                 ELSE IF a.elapsed + ticks > Duration THEN Duration ELSE a.elapsed + ticks
<1>1. Duration \in Nat \ {0} /\ a.elapsed \in 0..Duration
  BY AnimatorAssumption DEF IsAnimator
<1>2. el \in 0..Duration
  BY <1>1
<1>3. a.playing => a.elapsed <= el /\ el <= a.elapsed + ticks /\ el # 0
  BY <1>1
<1>4. NextFrame(a, ticks, Duration) = [a EXCEPT !.elapsed = el]
  BY DEF NextFrame
<1> HIDE DEF el
<1>5. [a EXCEPT !.elapsed = el] = [playing |-> a.playing, elapsed |-> el, from |-> a.from,
                                   to |-> a.to, current |-> a.current]
  BY DEF IsAnimator
<1>6. /\ a.playing \in BOOLEAN /\ a.from \in Int /\ a.to \in Int /\ a.current \in Int
  BY DEF IsAnimator
<1>7. PICK b : b = [a EXCEPT !.elapsed = el]
  OBVIOUS
<1>8. /\ IsAnimator(b) /\ b.playing = a.playing /\ b.elapsed = el
      /\ b.from = a.from /\ b.to = a.to /\ b.current = a.current
  BY <1>2, <1>5, <1>6, <1>7, MadeAnimator
<1> QED
  BY <1>3, <1>4, <1>7, <1>8, Zenon

\* What player.advance() makes of an animator that does not play, of one on its
\* way and of one at its end.
LEMMA Advances ==
    ASSUME NEW a, IsAnimator(a)
    PROVE  LET between == Lerp(a.from, a.to, a.elapsed, Duration)
               b == Advanced(a, Duration, LerpInt(a, Duration))
           IN  /\ IsAnimator(b)
               /\ ~a.playing => b = a
               /\ a.playing /\ a.elapsed < Duration =>
                     /\ b.playing /\ b.current = between
                     /\ b.from = a.from /\ b.to = a.to /\ b.elapsed = a.elapsed
               /\ a.playing /\ a.elapsed = Duration => ~b.playing /\ b.current = a.to
<1>1. /\ Duration \in Nat \ {0} /\ a.elapsed \in 0..Duration
      /\ a.playing \in BOOLEAN /\ a.from \in Int /\ a.to \in Int /\ a.current \in Int
  BY AnimatorAssumption DEF IsAnimator
<1>2. PICK between \in Int : between = Lerp(a.from, a.to, a.elapsed, Duration)
  <2>1. PICK f \in Int, t \in Int, e \in Nat : f = a.from /\ t = a.to /\ e = a.elapsed /\ e <= Duration
    BY <1>1
  <2>2. PICK p \in Int : p = (t - f) * e
    OBVIOUS
  <2>3. f + p \div Duration \in Int
    BY <1>1
  <2>4. Lerp(f, t, e, Duration) \in Int
    BY <2>2, <2>3, Zenon DEF Lerp
  <2> QED
    BY <2>1, <2>4, Zenon
<1>3. LerpInt(a, Duration) = between
  BY <1>2 DEF LerpInt
<1>4. CASE ~a.playing
  BY <1>4, Zenon DEF Advanced
<1>5. CASE a.playing /\ a.elapsed < Duration
  <2>1. PICK b : b = [a EXCEPT !.current = between]
    OBVIOUS
  <2>2. b = [playing |-> a.playing, elapsed |-> a.elapsed, from |-> a.from, to |-> a.to,
             current |-> between]
    BY <2>1 DEF IsAnimator
  <2>3. /\ IsAnimator(b) /\ b.playing = a.playing /\ b.elapsed = a.elapsed
        /\ b.from = a.from /\ b.to = a.to /\ b.current = between
    BY <1>1, <2>2, MadeAnimator
  <2>4. Advanced(a, Duration, LerpInt(a, Duration)) = b
    BY <1>3, <1>5, <2>1, Zenon DEF Advanced
  <2>5. a.elapsed # Duration
    BY <1>1, <1>5
  <2> QED
    BY <1>2, <1>5, <2>3, <2>4, <2>5, Zenon
<1>6. CASE a.playing /\ a.elapsed = Duration
  <2>1. ~(a.elapsed < Duration)
    BY <1>1, <1>6
  <2>2. PICK no, b, c, d : /\ no = FALSE /\ b = [a EXCEPT !.playing = no]
                           /\ c = [b EXCEPT !.elapsed = 0] /\ d = [c EXCEPT !.current = a.to]
    OBVIOUS
  <2>3. [a EXCEPT !.playing = FALSE, !.elapsed = 0, !.current = a.to] =
           [[[a EXCEPT !.playing = FALSE] EXCEPT !.elapsed = 0] EXCEPT !.current = a.to]
    OBVIOUS
  <2>4. Advanced(a, Duration, LerpInt(a, Duration)) = d
    BY <1>6, <2>1, <2>2, <2>3, Zenon DEF Advanced
  <2>5. b = [playing |-> no, elapsed |-> a.elapsed, from |-> a.from, to |-> a.to,
             current |-> a.current]
    BY <2>2 DEF IsAnimator
  <2>6. /\ IsAnimator(b) /\ b.playing = FALSE /\ b.from = a.from /\ b.to = a.to
    <3>1. no \in BOOLEAN
      BY <2>2, Zenon
    <3>2. IsAnimator(b) /\ b.playing = no /\ b.from = a.from /\ b.to = a.to
      BY ONLY <1>1, <2>5, <3>1, MadeAnimator
    <3> QED
      BY <2>2, <3>2, Zenon
  <2>7. /\ b.playing \in BOOLEAN /\ b.from \in Int /\ b.to \in Int /\ b.current \in Int
    BY <2>6 DEF IsAnimator
  <2>8. c = [playing |-> b.playing, elapsed |-> 0, from |-> b.from, to |-> b.to,
             current |-> b.current]
    BY <2>2, <2>6 DEF IsAnimator
  <2>9. 0 \in 0..Duration
    BY <1>1
  <2>10. /\ IsAnimator(c) /\ c.playing = b.playing /\ c.from = b.from /\ c.to = b.to
    BY <2>7, <2>8, <2>9, MadeAnimator
  <2>11. /\ c.playing \in BOOLEAN /\ c.elapsed \in 0..Duration /\ c.from \in Int /\ c.to \in Int
    BY <2>10 DEF IsAnimator
  <2>12. d = [playing |-> c.playing, elapsed |-> c.elapsed, from |-> c.from, to |-> c.to,
              current |-> a.to]
    BY <2>2, <2>10 DEF IsAnimator
  <2>13. /\ IsAnimator(d) /\ d.playing = c.playing /\ d.current = a.to
    BY <1>1, <2>11, <2>12, MadeAnimator
  <2> QED
    BY <1>6, <2>1, <2>4, <2>6, <2>10, <2>13, Zenon
<1> QED
  BY <1>1, <1>4, <1>5, <1>6

-----------------------------------------------------------------------------
(* The content.                                                            *)

\* The content is scrolled to a place between its ends.
LEMMA ScrolledToItsEnds ==
    ASSUME translationFactor \in Int, NEW tick \in Int
    PROVE  ScrolledBy(tick) \in 0..maxTranslate
<1>1. PICK m \in Nat : m = maxTranslate
  BY ScrollingAssumption, AnimatorAssumption DEF maxTranslate
<1>2. PICK t \in Int : t = translationFactor + tick
  OBVIOUS
<1>3. Max({0, t}) = IF t >= 0 THEN t ELSE 0
  <2>1. \E x \in {0, t} : \A y \in {0, t} : x >= y
    OBVIOUS
  <2>2. Max({0, t}) \in {0, t} /\ \A y \in {0, t} : Max({0, t}) >= y
    BY <2>1 DEF Max
  <2> QED
    BY <2>2
<1>4. PICK u \in Nat : u = Max({0, t})
  BY <1>3
<1>5. Min({m, u}) = IF m <= u THEN m ELSE u
  <2>1. \E x \in {m, u} : \A y \in {m, u} : x <= y
    OBVIOUS
  <2>2. Min({m, u}) \in {m, u} /\ \A y \in {m, u} : Min({m, u}) <= y
    BY <2>1 DEF Min
  <2> QED
    BY <2>2
<1>6. ScrolledBy(tick) = Min({m, u})
  BY <1>1, <1>2, <1>4, Zenon DEF ScrolledBy
<1> QED
  BY <1>1, <1>5, <1>6

\* The wheel starts an animation from where the content is.
LEMMA WheelScrollInv ==
    ASSUME ScrollInv, NEW offset \in Int, handleScrollEvent(offset)
    PROVE  ScrollInv'
<1>1. PICK t \in Int : /\ translationFactor' = t
                       /\ content' = [playing |-> TRUE, elapsed |-> 0, from |-> content.current,
                                      to |-> t, current |-> 0]
  <2>1. StepOf(offset) \in Int
    BY ScrollingAssumption, AnimatorAssumption DEF StepOf
  <2>2. translationFactor' = ScrolledBy(StepOf(offset)) /\ translationFactor' \in Int
    <3>1. translationFactor \in Int
      BY DEF ScrollInv, ScrollTypes
    <3>2. maxTranslate \in Int
      BY ScrollingAssumption, AnimatorAssumption DEF maxTranslate
    <3>3. ScrolledBy(StepOf(offset)) \in Int
      BY <2>1, <3>1, <3>2, ScrolledToItsEnds
    <3> QED
      BY <3>3 DEF handleScrollEvent
  <2> QED
    BY <2>2 DEF handleScrollEvent, AnimateScrollByTr, UpdateAnimationAndPlay
<1>2. scrolls' = scrolls + 1 /\ UNCHANGED <<contentMatrix, before>>
  BY DEF handleScrollEvent
<1>3. /\ content.current \in Int /\ contentMatrix \in Int /\ before \in Int /\ scrolls \in Nat
      /\ Duration \in Nat /\ content.playing \in BOOLEAN
  BY AnimatorAssumption DEF ScrollInv, ScrollTypes, IsAnimator
<1>4. /\ IsAnimator(content') /\ content'.playing = TRUE /\ content'.elapsed = 0
      /\ content'.from = content.current /\ content'.to = t
  <2>1. 0 \in 0..Duration
    BY <1>3
  <2>2. PICK yes \in BOOLEAN, c \in Int : yes = TRUE /\ c = content.current
    BY <1>3, Zenon
  <2>3. PICK a : a = [playing |-> yes, elapsed |-> 0, from |-> c, to |-> t, current |-> 0]
    OBVIOUS
  <2>4. /\ IsAnimator(a) /\ a.playing = yes /\ a.elapsed = 0 /\ a.from = c /\ a.to = t
    BY ONLY <2>1, <2>3, yes \in BOOLEAN, c \in Int, t \in Int, MadeAnimator
  <2>5. content' = a
    BY <1>1, <2>2, <2>3, Zenon
  <2> QED
    BY <2>2, <2>4, <2>5, Zenon
<1>5. scrolls' # 0 /\ scrolls' \in Nat /\ (scrolls' = 1 => scrolls = 0)
  BY <1>2, <1>3
<1>6. scrolls = 0 => content.current \in {contentMatrix, before}
  BY <1>3, Zenon DEF ScrollInv, OnItsWay
<1>7. ScrollTypes'
  BY <1>1, <1>2, <1>3, <1>4, <1>5 DEF ScrollTypes, IsAnimator
<1>8. OnItsWay'
  BY <1>1, <1>2, <1>4, <1>5, <1>6, Zenon DEF OnItsWay
<1> QED
  BY <1>7, <1>8 DEF ScrollInv

\* The handle takes the content with it at once.
LEMMA DragScrollInv ==
    ASSUME ScrollInv, NEW tick \in Int, DragHandle(tick)
    PROVE  ScrollInv'
<1>1. translationFactor \in Int /\ before \in Int /\ scrolls \in Nat
  BY DEF ScrollInv, ScrollTypes
<1>2. PICK t \in Int : /\ translationFactor' = t /\ contentMatrix' = t
                       /\ content' = [playing |-> FALSE, elapsed |-> 0, from |-> t, to |-> t,
                                      current |-> t]
                       /\ UNCHANGED <<scrolls, before>>
  <2>1. maxTranslate \in Int
    BY ScrollingAssumption, AnimatorAssumption DEF maxTranslate
  <2>2. ScrolledBy(tick) \in Int
    BY <1>1, <2>1, ScrolledToItsEnds
  <2> QED
    BY <2>2 DEF DragHandle, SetAnimationKeyframe
<1>3. IsAnimator(content') /\ content'.playing = FALSE /\ content'.current = t
  <2>1. 0 \in 0..Duration
    BY AnimatorAssumption
  <2>2. PICK no \in BOOLEAN : no = FALSE
    BY Zenon
  <2>3. PICK a : a = [playing |-> no, elapsed |-> 0, from |-> t, to |-> t, current |-> t]
    OBVIOUS
  <2>4. IsAnimator(a) /\ a.playing = no /\ a.current = t
    BY ONLY <2>1, <2>3, no \in BOOLEAN, t \in Int, MadeAnimator
  <2>5. content' = a
    BY <1>2, <2>2, <2>3, Zenon
  <2> QED
    BY <2>2, <2>4, <2>5, Zenon
<1>4. ScrollTypes'
  BY <1>1, <1>2, <1>3 DEF ScrollTypes, IsAnimator
<1>5. OnItsWay'
  BY <1>2, <1>3, Zenon DEF OnItsWay
<1> QED
  BY <1>4, <1>5 DEF ScrollInv

\* A frame shows the content on its way, or leaves it where it was.
LEMMA DrawContent ==
    ASSUME ScrollInv, NEW ticks \in FrameTimes, Draw(ticks)
    PROVE  /\ ScrollInv'
           /\ \/ contentMatrix' = contentMatrix
              \/ /\ content.playing
                 /\ contentMatrix' = Lerp(content.from, content.to, content.elapsed, Duration)
<1> DEFINE content1 == Advanced(content, Duration, LerpInt(content, Duration))
           between == Lerp(content.from, content.to, content.elapsed, Duration)
<1>1. /\ contentMatrix' = Progress(contentMatrix, content1)
      /\ content' = NextFrame(content1, ticks, Duration)
      /\ scrolls' = 0 /\ before' = translationFactor /\ translationFactor' = translationFactor
  BY DEF Draw
<1>2. /\ IsAnimator(content) /\ contentMatrix \in Int /\ translationFactor \in Int
      /\ scrolls \in Nat /\ ticks \in Nat \ {0} /\ Duration \in Nat \ {0}
      /\ content.elapsed \in 0..Duration
  BY AnimatorAssumption DEF ScrollInv, ScrollTypes, IsAnimator
<1>3. /\ IsAnimator(content1)
      /\ ~content.playing => content1 = content
      /\ content.playing /\ content.elapsed < Duration =>
            /\ content1.playing /\ content1.current = between
            /\ content1.from = content.from /\ content1.to = content.to
            /\ content1.elapsed = content.elapsed
      /\ content.playing /\ content.elapsed = Duration =>
            ~content1.playing /\ content1.current = content.to
  BY <1>2, Advances, Zenon
<1> HIDE DEF content1, between
<1>4. /\ IsAnimator(content')
      /\ content'.playing = content1.playing /\ content'.from = content1.from
      /\ content'.to = content1.to /\ content'.current = content1.current
      /\ content1.playing => content1.elapsed <= content'.elapsed
  BY <1>1, <1>2, <1>3, TimePasses, Zenon
<1>5. contentMatrix' = IF content1.playing THEN content1.current ELSE contentMatrix
  BY <1>1, Zenon DEF Progress, IsPlaying
<1>6. contentMatrix' \in Int
  BY <1>2, <1>3, <1>5 DEF IsAnimator
<1>7. ScrollTypes'
  BY <1>1, <1>2, <1>4, <1>6 DEF ScrollTypes, IsAnimator
<1>8. CASE ~content.playing
  <2>1. ~content'.playing /\ content'.current = content.current /\ contentMatrix' = contentMatrix
    BY <1>3, <1>4, <1>5, <1>8, Zenon
  <2>2. content.current = contentMatrix \/ content.current = translationFactor
    BY <1>8, Zenon DEF ScrollInv, OnItsWay
  <2>3. OnItsWay'
    BY <1>1, <2>1, <2>2, Zenon DEF OnItsWay
  <2> QED
    BY <1>7, <2>1, <2>3 DEF ScrollInv
<1>9. CASE content.playing /\ content.elapsed < Duration
  <2>1. /\ content'.playing /\ content'.current = between /\ contentMatrix' = between
        /\ content'.from = content.from /\ content'.to = content.to
        /\ content.elapsed <= content'.elapsed
    BY <1>3, <1>4, <1>5, <1>9, Zenon
  <2>2. content.elapsed \in 0..content'.elapsed
    BY <1>2, <1>4, <2>1 DEF IsAnimator
  <2>3. contentMatrix' = Lerp(content'.from, content'.to, content.elapsed, Duration)
    BY <2>1, Zenon DEF between
  <2>4. content'.to = translationFactor'
    BY <1>1, <1>9, <2>1, Zenon DEF ScrollInv, OnItsWay
  <2>5. scrolls' # 1
    BY <1>1
  <2>6. OnItsWay'
    BY <1>1, <2>1, <2>2, <2>3, <2>4, <2>5, Zenon DEF OnItsWay
  <2> QED
    BY <1>7, <1>9, <2>1, <2>6 DEF ScrollInv, between
<1>10. CASE content.playing /\ content.elapsed = Duration
  <2>1. ~content'.playing /\ content'.current = content.to /\ contentMatrix' = contentMatrix
    BY <1>3, <1>4, <1>5, <1>10, Zenon
  <2>2. content.to = translationFactor
    BY <1>10, Zenon DEF ScrollInv, OnItsWay
  <2>3. OnItsWay'
    BY <1>1, <2>1, <2>2, Zenon DEF OnItsWay
  <2> QED
    BY <1>7, <2>1, <2>3 DEF ScrollInv
<1> QED
  BY <1>2, <1>8, <1>9, <1>10

\* What the invariant is about is kept by every step.
LEMMA StepScrollInv == ScrollInv /\ [Next]_vars => ScrollInv'
<1> SUFFICES ASSUME ScrollInv, [Next]_vars PROVE ScrollInv'
  OBVIOUS
<1>1. ASSUME UNCHANGED scrollVars PROVE ScrollInv'
  BY <1>1 DEF ScrollInv, ScrollTypes, OnItsWay, IsAnimator, scrollVars
<1>2. ASSUME NEW offset \in {-2, 0, 1}, handleScrollEvent(offset) PROVE ScrollInv'
  BY <1>2, WheelScrollInv
<1>3. ASSUME NEW ticks \in {-2, 1}, DragHandle(ticks * Tick) PROVE ScrollInv'
  <2>1. ticks * Tick \in Int
    BY ScrollingAssumption, AnimatorAssumption
  <2> QED
    BY <1>3, <2>1, DragScrollInv
<1>4. ASSUME NEW r \in Ratios, updateSize(r) PROVE ScrollInv'
  BY <1>1, <1>4 DEF updateSize
<1>5. CASE onToggled
  BY <1>1, <1>5 DEF onToggled
<1>6. ASSUME NEW ticks \in FrameTimes, Draw(ticks) PROVE ScrollInv'
  BY <1>6, DrawContent
<1>7. CASE UNCHANGED vars
  BY <1>1, <1>7 DEF vars
<1> QED
  BY <1>2, <1>3, <1>4, <1>5, <1>6, <1>7 DEF Next

\* An animator that never played.
LEMMA FirstAnimator ==
    ASSUME NEW a, a = NewAnimator(0)
    PROVE  IsAnimator(a) /\ ~a.playing /\ a.current = 0
<1>1. 0 \in 0..Duration
  BY AnimatorAssumption
<1>2. PICK no \in BOOLEAN : no = FALSE
  BY Zenon
<1>3. a = [playing |-> no, elapsed |-> 0, from |-> 0, to |-> 0, current |-> 0]
  BY <1>2, Zenon DEF NewAnimator
<1>4. IsAnimator(a) /\ a.playing = no /\ a.current = 0
  BY ONLY <1>1, <1>3, no \in BOOLEAN, MadeAnimator
<1> QED
  BY <1>2, <1>4, Zenon

\* Nothing is scrolled at first.
LEMMA InitScrollInv == Init => ScrollInv
<1> SUFFICES ASSUME Init PROVE ScrollInv
  OBVIOUS
<1>1. /\ translationFactor = 0 /\ contentMatrix = 0 /\ scrolls = 0 /\ before = 0
      /\ content = NewAnimator(0)
  BY DEF Init
<1>2. IsAnimator(content) /\ ~content.playing /\ content.current = 0
  BY <1>1, FirstAnimator
<1>3. 0 \in Int /\ 0 \in Nat
  OBVIOUS
<1> QED
  BY <1>1, <1>2, <1>3, Zenon DEF ScrollInv, ScrollTypes, OnItsWay

\* A frame shows the content on the way of its animation.
LEMMA FrameOnTheWay ==
    ASSUME ScrollInv, scrolls <= 1, content.playing, NEW x,
           x = Lerp(content.from, content.to, content.elapsed, Duration)
    PROVE  /\ x \in Int
           /\ \E y, z \in {contentMatrix, translationFactor}
                            \cup (IF scrolls = 1 THEN {before} ELSE {}) : y <= x /\ x <= z
<1>1. /\ scrolls \in Nat /\ contentMatrix \in Int /\ translationFactor \in Int /\ before \in Int
      /\ content.from \in Int /\ content.to = translationFactor
      /\ content.elapsed \in Nat /\ content.elapsed <= Duration /\ Duration \in Nat \ {0}
  BY AnimatorAssumption DEF ScrollInv, ScrollTypes, IsAnimator, OnItsWay
<1>2. PICK f \in Int, t \in Int, e \in Nat :
         f = content.from /\ t = translationFactor /\ e = content.elapsed /\ e <= Duration
  BY <1>1
<1>3. x = Lerp(f, t, e, Duration)
  BY <1>1, <1>2, Zenon
<1>4. scrolls = 0 \/ scrolls = 1
  BY <1>1
<1>5. CASE scrolls = 0
  <2>1. PICK d \in 0..content.elapsed : contentMatrix = Lerp(content.from, content.to, d, Duration)
    BY <1>5, Zenon DEF ScrollInv, OnItsWay
  <2>2. contentMatrix = Lerp(f, t, d, Duration) /\ d \in Nat /\ d <= e
    BY <1>1, <1>2, <2>1
  <2>3. PICK m \in Int : m = contentMatrix
    BY <1>1
  <2>4. m = Lerp(f, t, d, Duration)
    BY <2>2, <2>3, Zenon
  <2>5. /\ x \in Int
        /\ f <= t => m <= x /\ x <= t
        /\ t <= f => x <= m /\ t <= x
    BY ONLY <1>1, <1>2, <1>3, <2>2, <2>4, f \in Int, t \in Int, e \in Nat, LerpOnTheWay
  <2>6. x \in Int /\ ((m <= x /\ x <= t) \/ (t <= x /\ x <= m))
    <3>1. CASE f <= t
      BY <2>5, <3>1, Zenon
    <3>2. CASE t <= f
      BY <2>5, <3>2, Zenon
    <3> QED
      BY <3>1, <3>2
  <2> QED
    BY <1>2, <2>3, <2>6, Zenon
<1>6. CASE scrolls = 1
  <2>1. content.elapsed = 0 /\ content.from \in {contentMatrix, before}
    BY <1>6, Zenon DEF ScrollInv, OnItsWay
  <2>2. x = Lerp(f, t, 0, Duration)
    BY <1>2, <1>3, <2>1, Zenon
  <2>3. x = f
    BY <1>1, <2>2, LerpAtStart
  <2>4. x <= x
    BY <2>3
  <2>5. x \in {contentMatrix, translationFactor} \cup (IF scrolls = 1 THEN {before} ELSE {})
    BY <1>2, <1>6, <2>1, <2>3, Zenon
  <2> QED
    BY <2>3, <2>4, <2>5, Zenon
<1> QED
  BY <1>4, <1>5, <1>6

\* A step moves the content to a place between those it may be on the way from
\* and to.
LEMMA StepOnTheWay ==
    ASSUME ScrollInv, Next, contentMatrix' # contentMatrix, scrolls <= 1
    PROVE  LET way == {contentMatrix, translationFactor, translationFactor'}
                         \cup (IF scrolls = 1 THEN {before} ELSE {})
           IN  contentMatrix' \in Min(way)..Max(way)
<1> DEFINE way == {contentMatrix, translationFactor, translationFactor'}
                     \cup (IF scrolls = 1 THEN {before} ELSE {})
<1>1. ScrollInv'
  BY StepScrollInv
<1>2. /\ contentMatrix \in Int /\ translationFactor \in Int /\ translationFactor' \in Int
      /\ contentMatrix' \in Int /\ before \in Int
  BY <1>1 DEF ScrollInv, ScrollTypes
<1>3. \E y, z \in way : y <= contentMatrix' /\ contentMatrix' <= z
  <2>1. CASE contentMatrix' = translationFactor'
    <3>1. translationFactor' \in way /\ contentMatrix' <= contentMatrix'
      BY <1>2
    <3> QED
      BY <2>1, <3>1, Zenon
  <2>2. ASSUME NEW ticks \in FrameTimes, Draw(ticks)
        PROVE  \E y, z \in way : y <= contentMatrix' /\ contentMatrix' <= z
    <3>1. /\ content.playing
          /\ contentMatrix' = Lerp(content.from, content.to, content.elapsed, Duration)
      BY <2>2, DrawContent, Zenon
    <3>2. PICK y, z \in {contentMatrix, translationFactor}
                            \cup (IF scrolls = 1 THEN {before} ELSE {}) :
             y <= contentMatrix' /\ contentMatrix' <= z
      BY <3>1, FrameOnTheWay, Zenon
    <3>3. y \in way /\ z \in way
      OBVIOUS
    <3> QED
      BY <3>2, <3>3, Zenon
  <2>3. \/ contentMatrix' = translationFactor'
        \/ \E ticks \in FrameTimes : Draw(ticks)
    BY DEF Next, handleScrollEvent, DragHandle, updateSize, onToggled, scrollVars
  <2> QED
    BY <2>1, <2>2, <2>3
<1>4. PICK d \in Int : way = {contentMatrix, translationFactor, translationFactor', d}
  <2>1. CASE scrolls = 1
    BY <1>2, <2>1
  <2>2. CASE scrolls # 1
    BY <1>2, <2>2
  <2> QED
    BY <2>1, <2>2
<1>5. PICK a \in Int, b \in Int, c \in Int, x \in Int :
         a = contentMatrix /\ b = translationFactor /\ c = translationFactor' /\ x = contentMatrix'
  BY <1>2
<1>6. PICK W : W = way
  OBVIOUS
<1>7. W = {a, b, c, d} /\ \E y, z \in W : y <= x /\ x <= z
  BY <1>3, <1>4, <1>5, <1>6, Zenon
<1>8. x \in Min(W)..Max(W)
  BY ONLY <1>7, a \in Int, b \in Int, c \in Int, d \in Int, x \in Int, MinMaxOfFour
<1> QED
  BY <1>5, <1>6, <1>8, Zenon

\* ScrollsTowardsTarget for any sizes, steps of the wheel, durations and times
\* of frames: whatever animation is interrupted by the wheel or by the handle,
\* the content never moves away from where it was scrolled.
THEOREM ContentMovesTowardsTarget == Spec => ScrollsTowardsTarget
<1>1. Spec => []ScrollInv
  BY InitScrollInv, StepScrollInv, PTL DEF Spec
<1>2. ScrollInv /\ [Next]_vars =>
         [scrolls <= 1 =>
             LET way == {contentMatrix, translationFactor, translationFactor'}
                            \cup (IF scrolls = 1 THEN {before} ELSE {})
             IN  contentMatrix' \in Min(way)..Max(way)]_contentMatrix
  <2>1. UNCHANGED vars => contentMatrix' = contentMatrix
    BY DEF vars, scrollVars
  <2> QED
    BY <2>1, StepOnTheWay
<1> QED
  BY <1>1, <1>2, PTL DEF Spec, ScrollsTowardsTarget

-----------------------------------------------------------------------------
(* The panel that slides.                                                  *)

\* The quotient of a multiple.
LEMMA DivOfMultiple ==
    ASSUME NEW n \in Int, NEW d \in Nat \ {0}
    PROVE  (n * d) \div d = n
<1>1. PICK q \in Int, m \in Int : m = n * d /\ q = m \div d
  OBVIOUS
<1>2. q * d <= m /\ m < (q + 1) * d
  BY <1>1
<1>3. ~(q <= n - 1)
  <2> SUFFICES ASSUME q + 1 <= n PROVE FALSE
    OBVIOUS
  <2>1. (q + 1) * d <= n * d
    BY TimesMonotone
  <2> QED
    BY <1>1, <1>2, <2>1
<1>4. ~(n + 1 <= q)
  <2> SUFFICES ASSUME n + 1 <= q PROVE FALSE
    OBVIOUS
  <2>1. (n + 1) * d <= q * d
    BY TimesMonotone
  <2>2. (n + 1) * d = n * d + d
    OBVIOUS
  <2> QED
    BY <1>1, <1>2, <2>1, <2>2
<1>5. q = n
  BY <1>3, <1>4
<1> QED
  BY <1>1, <1>5, Zenon

\* Where the animation between 0 and a multiple of its duration is.
LEMMA ExactLerp ==
    ASSUME NEW k \in Nat, NEW d \in Nat \ {0}, NEW e \in 0..d
    PROVE  /\ Lerp(k * d, 0, e, d) = k * (d - e)
           /\ Lerp(0, k * d, e, d) = k * e
<1>1. PICK n \in Int : n = k * e
  OBVIOUS
<1>2. (n * d) \div d = n /\ (-n * d) \div d = -n
  BY DivOfMultiple
<1>3. (0 - k * d) * e = -n * d /\ (k * d - 0) * e = n * d
  BY <1>1
<1>4. Lerp(k * d, 0, e, d) = k * d + (-n * d) \div d
  BY <1>3, Zenon DEF Lerp
<1>5. Lerp(0, k * d, e, d) = 0 + (n * d) \div d
  BY <1>3, Zenon DEF Lerp
<1>6. k * d + -n = k * (d - e)
  BY <1>1
<1> QED
  BY <1>1, <1>2, <1>4, <1>5, <1>6

\* The longest frame.
LEMMA LongestIsMax ==
    ASSUME LongestFrame
    PROVE  Max(FrameTimes) \in Nat /\ \A ticks \in FrameTimes : ticks <= Max(FrameTimes)
<1>1. FrameTimes \subseteq Nat
  BY AnimatorAssumption
<1>2. \E x \in FrameTimes : \A y \in FrameTimes : x >= y
  BY <1>1 DEF LongestFrame
<1>3. Max(FrameTimes) \in FrameTimes /\ \A y \in FrameTimes : Max(FrameTimes) >= y
  BY <1>2 DEF Max
<1> QED
  BY <1>1, <1>3

\* A frame before the end of its animation, the panel is that much of its way
\* from it.
LEMMA FrameFromTheEnd ==
    ASSUME SlideIsExact, toggled \in BOOLEAN, NEW e \in 0..Duration, NEW ticks \in Nat,
           Duration <= e + ticks, NEW m, m = Lerp(Start, End, e, Duration)
    PROVE  /\ Distance(m, End) * Duration \in Int
           /\ Distance(m, End) * Duration <= Thickness * ticks
<1>1. PICK d \in Nat \ {0}, k \in Nat, h \in Nat :
         d = Duration /\ h = Thickness /\ h = k * d
  <2>1. PICK d \in Nat \ {0}, h \in Nat : d = Duration /\ h = Thickness
    BY ScrollingAssumption, AnimatorAssumption
  <2>2. h % d = 0
    BY <2>1 DEF SlideIsExact
  <2>3. h \div d \in Nat /\ h = (h \div d) * d
    BY <2>2
  <2> QED
    BY <2>1, <2>3
<1>2. e \in 0..d /\ d - e \in Nat /\ d - e <= ticks
  BY <1>1
<1>3. PICK r \in Nat : r = d - e
  BY <1>2
<1>4. Distance(m, End) = k * r
  <2>1. k * r \in Nat /\ k * e \in Nat /\ k * d \in Nat /\ k * e + k * r = k * d
    BY <1>2, <1>3
  <2>2. CASE toggled
    <3>1. m = Lerp(k * d, 0, e, d) /\ End = 0
      BY <1>1, <2>2, Zenon DEF Start, End
    <3>2. m = k * r
      BY <1>2, <1>3, <3>1, ExactLerp
    <3> QED
      BY <2>1, <3>1, <3>2 DEF Distance
  <2>3. CASE ~toggled
    <3>1. m = Lerp(0, k * d, e, d) /\ End = k * d
      BY <1>1, <2>3, Zenon DEF Start, End
    <3>2. m = k * e
      BY <1>2, <3>1, ExactLerp
    <3> QED
      BY <2>1, <3>1, <3>2 DEF Distance
  <2> QED
    BY <2>2, <2>3
<1>5. r * h <= ticks * h
  BY <1>2, <1>3, TimesMonotone
<1>6. (k * r) * d = r * h /\ ticks * h = h * ticks
  BY <1>1
<1> QED
  BY <1>1, <1>4, <1>5, <1>6

\* The panel starts collapsed, or is sent to one of its ends and drawn.
LEMMA StepPanelInv ==
    ASSUME SlideIsExact, LongestFrame, PanelInv, [Next]_vars
    PROVE  PanelInv'
<1>1. ASSUME UNCHANGED panelVars PROVE PanelInv'
  BY <1>1 DEF PanelInv, IsAnimator, Slides, Start, End, PanelEndsWithinAFrame, IsPlaying, panelVars
<1>2. CASE onToggled
  <2>1. PICK yes \in BOOLEAN, f \in Int, t \in Int :
           /\ yes = TRUE /\ f = Start' /\ t = End'
           /\ panel' = [playing |-> yes, elapsed |-> 0, from |-> f, to |-> t, current |-> 0]
    <3>1. Thickness \in Int /\ 0 \in Int
      BY ScrollingAssumption, AnimatorAssumption
    <3>2. Start' \in Int /\ End' \in Int
      BY <3>1, Zenon DEF Start, End
    <3>3. panel' = [playing |-> TRUE, elapsed |-> 0, from |-> Start', to |-> End', current |-> 0]
      BY <1>2, Zenon DEF onToggled, UpdateAnimationAndPlay, Start, End
    <3> QED
      BY <3>2, <3>3, Zenon
  <2>2. 0 \in 0..Duration /\ 0 \in Int
    BY AnimatorAssumption
  <2>3. PICK a : a = [playing |-> yes, elapsed |-> 0, from |-> f, to |-> t, current |-> 0]
    OBVIOUS
  <2>4. IsAnimator(a) /\ a.playing = yes /\ a.elapsed = 0 /\ a.from = f /\ a.to = t
    BY ONLY <2>2, <2>3, yes \in BOOLEAN, f \in Int, t \in Int, MadeAnimator
  <2>5. panel' = a
    BY <2>1, <2>3, Zenon
  <2>6. toggled' \in BOOLEAN
    BY <1>2, Zenon DEF onToggled
  <2>7. Slides' /\ PanelEndsWithinAFrame'
    BY <2>1, <2>4, <2>5, Zenon DEF Slides, PanelEndsWithinAFrame, IsPlaying
  <2>8. IsAnimator(panel')
    BY <2>4, <2>5, Zenon
  <2> QED
    BY <2>6, <2>7, <2>8 DEF PanelInv, IsAnimator
<1>3. ASSUME NEW ticks \in FrameTimes, Draw(ticks) PROVE PanelInv'
  <2> DEFINE panel1 == Advanced(panel, Duration, LerpInt(panel, Duration))
             between == Lerp(panel.from, panel.to, panel.elapsed, Duration)
  <2>1. /\ panelMatrix' = Progress(panelMatrix, panel1)
        /\ panel' = NextFrame(panel1, ticks, Duration)
        /\ toggled' = toggled
    BY <1>3 DEF Draw
  <2>2. /\ IsAnimator(panel) /\ toggled \in BOOLEAN /\ ticks \in Nat \ {0}
        /\ Duration \in Nat \ {0} /\ panel.elapsed \in 0..Duration
    BY AnimatorAssumption DEF PanelInv, IsAnimator
  <2>3. /\ IsAnimator(panel1)
        /\ ~panel.playing => panel1 = panel
        /\ panel.playing /\ panel.elapsed < Duration =>
              /\ panel1.playing /\ panel1.current = between
              /\ panel1.from = panel.from /\ panel1.to = panel.to
              /\ panel1.elapsed = panel.elapsed
        /\ panel.playing /\ panel.elapsed = Duration => ~panel1.playing
    BY <2>2, Advances, Zenon
  <2> HIDE DEF panel1, between
  <2>4. /\ IsAnimator(panel')
        /\ panel'.playing = panel1.playing /\ panel'.from = panel1.from /\ panel'.to = panel1.to
        /\ panel1.playing => panel'.elapsed <= panel1.elapsed + ticks
    BY <2>1, <2>2, <2>3, TimePasses, Zenon
  <2>5. panelMatrix' = IF panel1.playing THEN panel1.current ELSE panelMatrix
    BY <2>1, Zenon DEF Progress, IsPlaying
  <2>6. End' = End /\ Start' = Start
    BY <2>1, Zenon DEF Start, End
  <2>7. CASE ~panel.playing
    <3>1. ~panel'.playing /\ panelMatrix' = panelMatrix
      BY <2>3, <2>4, <2>5, <2>7, Zenon
    <3>2. PanelEndsWithinAFrame' /\ Slides'
      BY <2>1, <2>7, <3>1, Zenon DEF PanelInv, PanelEndsWithinAFrame, Slides, IsPlaying
    <3> QED
      BY <2>1, <2>2, <2>4, <3>2 DEF PanelInv, IsAnimator
  <2>8. CASE panel.playing /\ panel.elapsed < Duration
    <3>1. /\ panel'.playing /\ panelMatrix' = between
          /\ panel'.from = panel.from /\ panel'.to = panel.to
          /\ panel'.elapsed <= panel.elapsed + ticks
      BY <2>3, <2>4, <2>5, <2>8, Zenon
    <3>2. panel.from = Start /\ panel.to = End
      BY <2>8, Zenon DEF PanelInv, Slides
    <3>3. panelMatrix' = Lerp(Start', End', panel.elapsed, Duration)
      BY <2>6, <3>1, <3>2, Zenon DEF between
    <3>4. Slides' /\ PanelEndsWithinAFrame'
      BY <2>2, <2>6, <3>1, <3>2, <3>3, Zenon DEF Slides, PanelEndsWithinAFrame, IsPlaying
    <3> QED
      BY <2>1, <2>2, <2>4, <3>4 DEF PanelInv, IsAnimator
  <2>9. CASE panel.playing /\ panel.elapsed = Duration
    <3>1. ~panel'.playing /\ panelMatrix' = panelMatrix
      BY <2>3, <2>4, <2>5, <2>9, Zenon
    <3>2. PICK e \in 0..Duration, last \in FrameTimes :
             panel.elapsed <= e + last /\ panelMatrix = Lerp(Start, End, e, Duration)
      <4>1. panel.elapsed # 0
        BY <2>2, <2>9
      <4> QED
        BY <2>9, <4>1, Zenon DEF PanelInv, Slides
    <3>3. last \in Nat /\ Duration <= e + last
      BY <2>9, <3>2, AnimatorAssumption
    <3>4. /\ Distance(panelMatrix, End) * Duration \in Int
          /\ Distance(panelMatrix, End) * Duration <= Thickness * last
      BY <2>2, <3>2, <3>3, FrameFromTheEnd
    <3>5. PICK h \in Nat, n \in Nat, x \in Int :
             /\ h = Thickness /\ n = Max(FrameTimes) /\ last <= n
             /\ x = Distance(panelMatrix, End) * Duration
      BY <3>4, LongestIsMax, ScrollingAssumption, AnimatorAssumption
    <3>6. last * h <= n * h /\ last * h = h * last /\ n * h = h * n
      BY <3>3, <3>5, TimesMonotone
    <3>7. x <= h * n
      BY <3>3, <3>4, <3>5, <3>6
    <3>8. Distance(panelMatrix, End) * Duration <= Thickness * Max(FrameTimes)
      BY <3>5, <3>7, Zenon
    <3>9. PanelEndsWithinAFrame' /\ Slides'
      BY <2>1, <3>1, <3>8, Zenon DEF PanelEndsWithinAFrame, Slides, End
    <3> QED
      BY <2>1, <2>2, <2>4, <3>9 DEF PanelInv, IsAnimator
  <2> QED
    BY <2>2, <2>7, <2>8, <2>9
<1>4. ASSUME NEW offset \in {-2, 0, 1}, handleScrollEvent(offset) PROVE PanelInv'
  BY <1>1, <1>4 DEF handleScrollEvent
<1>5. ASSUME NEW x \in {-2, 1}, DragHandle(x * Tick) PROVE PanelInv'
  BY <1>1, <1>5 DEF DragHandle
<1>6. ASSUME NEW r \in Ratios, updateSize(r) PROVE PanelInv'
  BY <1>1, <1>6 DEF updateSize
<1>7. CASE UNCHANGED vars
  BY <1>1, <1>7 DEF vars
<1> QED
  BY <1>2, <1>3, <1>4, <1>5, <1>6, <1>7 DEF Next

\* It is collapsed at first, and nothing plays.
LEMMA InitPanelInv ==
    ASSUME LongestFrame, Init
    PROVE  PanelInv
<1>1. panel = NewAnimator(0) /\ panelMatrix = Thickness /\ toggled = FALSE
  BY DEF Init
<1>2. IsAnimator(panel) /\ ~panel.playing
  BY <1>1, FirstAnimator
<1>3. Distance(Thickness, Thickness) * Duration <= Thickness * Max(FrameTimes)
  <2>1. Distance(Thickness, Thickness) * Duration = 0
    BY ScrollingAssumption, AnimatorAssumption DEF Distance
  <2>2. PICK h \in Nat, n \in Nat : h = Thickness /\ n = Max(FrameTimes)
    BY ScrollingAssumption, AnimatorAssumption, LongestIsMax
  <2>3. 0 <= h * n
    OBVIOUS
  <2> QED
    BY <2>1, <2>2, <2>3
<1>4. PanelEndsWithinAFrame /\ Slides
  BY <1>1, <1>2, <1>3, Zenon DEF PanelEndsWithinAFrame, Slides
<1> QED
  BY <1>1, <1>2, <1>4, Zenon DEF PanelInv

\* PanelEndsWithinAFrame for any thickness, duration and times of frames, if the
\* unit of length divides the way into whole steps and some frame is the
\* longest: an animation that is turned around in its middle, or ends between
\* two frames, never leaves the panel further from its end than a frame moves it.
THEOREM PanelEndsNearItsState ==
    ASSUME SlideIsExact, LongestFrame
    PROVE  Spec => []PanelEndsWithinAFrame
<1>1. Init => PanelInv
  BY InitPanelInv
<1>2. PanelInv /\ [Next]_vars => PanelInv'
  BY StepPanelInv
<1>3. PanelInv => PanelEndsWithinAFrame
  BY DEF PanelInv
<1> QED
  BY <1>1, <1>2, <1>3, PTL DEF Spec

-----------------------------------------------------------------------------
(* The handle that goes along with the content.                            *)

IsMultiple(x, g) == \E k \in Int : x = k * g

\* Everything is a multiple of what may still be divided, once for every input
\* to come.
Grained(g) ==
    /\ IsMultiple(Tick, g) /\ IsMultiple(maxTranslate, g)
    /\ IsMultiple(translationFactor, g) /\ IsMultiple(content.current, g)
    /\ IsMultiple(content.from, Duration * g) /\ IsMultiple(content.to, Duration * g)

\* How far down the handle is when the content is at x.
Down(r, x) == -r * x

\* The way the handle is down when the content is at a moment between f and t.
BothInterpolate(r, f, t, e, d) == Lerp(Down(r, f), Down(r, t), e, d) = Down(r, Lerp(f, t, e, d))

\* An animator by its members.
Consists(a, p, e, f, t, c) ==
    a = [playing |-> p, elapsed |-> e, from |-> f, to |-> t, current |-> c]

\* h does what a does, in the handle's lengths.
GoesAlong(r, a, h) ==
    Consists(h, a.playing, a.elapsed, Down(r, a.from), Down(r, a.to), Down(r, a.current))

HandleInv(grain) ==
    /\ inputs \in 0..MaxInputs /\ ratio \in Ratios
    /\ Grained(grain[inputs])
    /\ ~resized => GoesAlong(ratio, content, handle) /\ HandleTracksContent

\* Sums, differences and multiples of multiples are multiples.
LEMMA Multiples ==
    ASSUME NEW g \in Nat \ {0}, NEW x, IsMultiple(x, g), NEW y, IsMultiple(y, g), NEW n \in Int
    PROVE  /\ x \in Int /\ y \in Int /\ IsMultiple(0, g)
           /\ IsMultiple(x + y, g) /\ IsMultiple(x - y, g) /\ IsMultiple(x * n, g)
<1>1. PICK i \in Int, j \in Int : x = i * g /\ y = j * g
  BY DEF IsMultiple
<1>2. x \in Int /\ y \in Int
  BY <1>1
<1>3. x + y = (i + j) * g /\ i + j \in Int
  BY <1>1
<1>4. x - y = (i - j) * g /\ i - j \in Int
  BY <1>1
<1>5. PICK p \in Int : p = i * n
  OBVIOUS
<1>6. x * n = p * g
  BY <1>1, <1>5
<1>7. 0 = 0 * g /\ 0 \in Int
  OBVIOUS
<1> QED
  BY <1>2, <1>3, <1>4, <1>5, <1>6, <1>7, Zenon DEF IsMultiple

\* A multiple of a multiple is one of each factor.
LEMMA CoarserMultiple ==
    ASSUME NEW g \in Nat \ {0}, NEW d \in Nat \ {0}, NEW x, IsMultiple(x, d * g)
    PROVE  IsMultiple(x, g)
<1>1. PICK k \in Int : x = k * (d * g)
  BY DEF IsMultiple
<1>2. PICK p \in Int : p = k * d
  OBVIOUS
<1>3. x = p * g
  BY <1>1, <1>2
<1> QED
  BY <1>3, Zenon DEF IsMultiple

\* Between two multiples of the duration an interpolation is exact: it is a
\* multiple again, and one of -r times the lengths is -r times as far.
LEMMA ExactInterpolation ==
    ASSUME NEW g \in Nat \ {0}, NEW d \in Nat \ {0}, NEW f, NEW t, NEW e \in Nat, NEW r \in Int,
           IsMultiple(f, d * g), IsMultiple(t, d * g)
    PROVE  /\ Lerp(f, t, e, d) \in Int
           /\ IsMultiple(Lerp(f, t, e, d), g)
           /\ BothInterpolate(r, f, t, e, d)
<1>1. PICK i \in Int, j \in Int : f = i * (d * g) /\ t = j * (d * g)
  BY DEF IsMultiple
<1>2. PICK w \in Int, v \in Int : w = (j - i) * e /\ v = w * g
  OBVIOUS
<1>3. f \in Int /\ t \in Int
  BY <1>1
<1>4. (t - f) * e = v * d
  <2>1. t - f = (j - i) * (d * g)
    BY <1>1
  <2> QED
    BY <1>2, <2>1
<1>5. (v * d) \div d = v
  BY DivOfMultiple
<1>6. Lerp(f, t, e, d) = f + v
  BY <1>4, <1>5, Zenon DEF Lerp
<1>7. IsMultiple(f + v, g)
  <2>1. IsMultiple(f, g)
    BY CoarserMultiple
  <2>2. IsMultiple(v, g)
    BY <1>2, Zenon DEF IsMultiple
  <2> QED
    BY <2>1, <2>2, Multiples
<1>8. PICK u \in Int : u = -r * v
  OBVIOUS
<1>9. (-r * t - -r * f) * e = u * d
  <2>1. PICK z \in Int : z = t - f
    BY <1>3
  <2>2. -r * t - -r * f = -r * z
    BY <1>3, <2>1
  <2>3. (-r * z) * e = -r * (z * e)
    OBVIOUS
  <2>4. -r * (v * d) = u * d
    BY <1>8
  <2> QED
    BY <1>4, <2>1, <2>2, <2>3, <2>4
<1>10. (u * d) \div d = u
  BY DivOfMultiple
<1>11. Lerp(-r * f, -r * t, e, d) = -r * f + u
  BY <1>9, <1>10, Zenon DEF Lerp
<1>12. -r * (f + v) = -r * f + u
  BY <1>3, <1>8
<1>13. f + v \in Int
  BY <1>3
<1> QED
  BY <1>6, <1>7, <1>11, <1>12, <1>13, Zenon DEF Down, BothInterpolate

\* Its members.
LEMMA Members ==
    ASSUME NEW a, NEW p, NEW e, NEW f, NEW t, NEW c, Consists(a, p, e, f, t, c)
    PROVE  a.playing = p /\ a.elapsed = e /\ a.from = f /\ a.to = t /\ a.current = c
  BY DEF Consists

\* One member is replaced.
LEMMA ChangedMember ==
    ASSUME NEW a, NEW p, NEW e, NEW f, NEW t, NEW c, Consists(a, p, e, f, t, c), NEW x
    PROVE  /\ Consists([a EXCEPT !.playing = x], x, e, f, t, c)
           /\ Consists([a EXCEPT !.elapsed = x], p, x, f, t, c)
           /\ Consists([a EXCEPT !.current = x], p, e, f, t, x)
  BY DEF Consists

\* What goes along plays, and shows, the same.
LEMMA MembersGoAlong ==
    ASSUME NEW r, NEW a, NEW h, GoesAlong(r, a, h)
    PROVE  h.playing = a.playing /\ h.current = Down(r, a.current)
<1>1. PICK p, e, f, t, c : /\ p = a.playing /\ e = a.elapsed /\ f = Down(r, a.from)
                           /\ t = Down(r, a.to) /\ c = Down(r, a.current)
  OBVIOUS
<1>2. Consists(h, p, e, f, t, c)
  BY <1>1, Zenon DEF GoesAlong
<1>3. h.playing = p /\ h.current = c
  BY ONLY <1>2, Members, Zenon
<1> QED
  BY <1>1, <1>3, Zenon

\* Both start over together, from where they are.
LEMMA BothStart ==
    ASSUME NEW r \in Int, NEW x \in Int, NEW t \in Int, NEW y, y = Down(r, x), NEW z, z = Down(r, t)
    PROVE  /\ GoesAlong(r, UpdateAnimationAndPlay(x, t, 0), UpdateAnimationAndPlay(y, z, 0))
           /\ GoesAlong(r, SetAnimationKeyframe(t), SetAnimationKeyframe(z))
           /\ GoesAlong(r, NewAnimator(0), NewAnimator(0))
<1>1. 0 = Down(r, 0)
  BY DEF Down
<1>2. ASSUME NEW p, NEW f \in Int, NEW g \in Int, NEW v \in Int, NEW F, NEW G, NEW V, NEW a, NEW h,
             F = Down(r, f), G = Down(r, g), V = Down(r, v),
             Consists(a, p, 0, f, g, v), Consists(h, p, 0, F, G, V)
      PROVE  GoesAlong(r, a, h)
  <2>1. a.playing = p /\ a.elapsed = 0 /\ a.from = f /\ a.to = g /\ a.current = v
    BY <1>2, Members, Zenon
  <2> QED
    BY <1>2, <2>1, Zenon DEF GoesAlong
<1>3. /\ Consists(UpdateAnimationAndPlay(x, t, 0), TRUE, 0, x, t, 0)
      /\ Consists(UpdateAnimationAndPlay(y, z, 0), TRUE, 0, y, z, 0)
      /\ Consists(SetAnimationKeyframe(t), FALSE, 0, t, t, t)
      /\ Consists(SetAnimationKeyframe(z), FALSE, 0, z, z, z)
      /\ Consists(NewAnimator(0), FALSE, 0, 0, 0, 0)
  BY Zenon DEF Consists, UpdateAnimationAndPlay, SetAnimationKeyframe, NewAnimator
<1>4. 0 \in Int
  OBVIOUS
<1> QED
  BY <1>1, <1>2, <1>3, <1>4, Zenon

\* player.advance() of any animator.
LEMMA AdvancedMembers ==
    ASSUME NEW p, NEW e, NEW f, NEW t, NEW c, NEW a, Consists(a, p, e, f, t, c), NEW d, NEW between
    PROVE  /\ ~p => Advanced(a, d, between) = a
           /\ p /\ e < d => Consists(Advanced(a, d, between), p, e, f, t, between)
           /\ p /\ ~(e < d) => Consists(Advanced(a, d, between), FALSE, 0, f, t, t)
<1>1. a.playing = p /\ a.elapsed = e /\ a.to = t
  BY Members, Zenon
<1>2. Consists([a EXCEPT !.current = between], p, e, f, t, between)
  BY ChangedMember, Zenon
<1>3. PICK a1, a2, a3, no, zero :
         /\ no = FALSE /\ zero = 0 /\ a1 = [a EXCEPT !.playing = no]
         /\ a2 = [a1 EXCEPT !.elapsed = zero] /\ a3 = [a2 EXCEPT !.current = t]
  OBVIOUS
<1>4. Consists(a1, no, e, f, t, c)
  BY <1>3, ChangedMember, Zenon
<1>5. Consists(a2, no, zero, f, t, c)
  BY <1>3, <1>4, ChangedMember, Zenon
<1>6. Consists(a3, no, zero, f, t, t)
  BY <1>3, <1>5, ChangedMember, Zenon
<1>7. [a EXCEPT !.playing = FALSE, !.elapsed = 0, !.current = t] =
         [[[a EXCEPT !.playing = FALSE] EXCEPT !.elapsed = 0] EXCEPT !.current = t]
  BY ONLY TRUE
<1>8. [a EXCEPT !.playing = FALSE, !.elapsed = 0, !.current = t] = a3
  BY <1>3, <1>7, Zenon
<1> QED
  BY <1>1, <1>2, <1>3, <1>6, <1>8, Zenon DEF Advanced

\* The time that has passed a frame later.
Later(p, e, ticks, d) == IF ~p THEN 0 ELSE IF e + ticks > d THEN d ELSE e + ticks

\* It passes for any animator.
LEMMA NextFrameMembers ==
    ASSUME NEW p, NEW e, NEW f, NEW t, NEW c, NEW a, Consists(a, p, e, f, t, c), NEW ticks, NEW d
    PROVE  Consists(NextFrame(a, ticks, d), p, Later(p, e, ticks, d), f, t, c)
<1>1. a.playing = p /\ a.elapsed = e
  BY Members, Zenon
<1>2. PICK el : el = Later(p, e, ticks, d)
  OBVIOUS
<1>3. Consists([a EXCEPT !.elapsed = el], p, el, f, t, c)
  BY ChangedMember, Zenon
<1>4. NextFrame(a, ticks, d) = [a EXCEPT !.elapsed = el]
  BY <1>1, <1>2, Zenon DEF NextFrame, Later
<1> QED
  BY <1>2, <1>3, <1>4, Zenon

\* Where the content's animator gets in a frame.
LEMMA GrainedFrame ==
    ASSUME NEW a, IsAnimator(a), NEW g \in Nat \ {0}, NEW ticks,
           IsMultiple(a.current, g), IsMultiple(a.from, Duration * g), IsMultiple(a.to, Duration * g),
           NEW a1, a1 = Advanced(a, Duration, LerpInt(a, Duration)),
           NEW b, b = NextFrame(a1, ticks, Duration)
    PROVE  /\ IsMultiple(b.current, g)
           /\ IsMultiple(b.from, Duration * g) /\ IsMultiple(b.to, Duration * g)
<1>1. PICK p, e, f, t, c : Consists(a, p, e, f, t, c)
  BY Zenon DEF IsAnimator, Consists
<1>2. a.playing = p /\ a.elapsed = e /\ a.from = f /\ a.to = t /\ a.current = c
  BY <1>1, Members, Zenon
<1>3. Duration \in Nat \ {0} /\ a.elapsed \in Nat
  BY AnimatorAssumption DEF IsAnimator
<1>4. IsMultiple(LerpInt(a, Duration), g)
  <2>1. IsMultiple(Lerp(a.from, a.to, a.elapsed, Duration), g)
    <3>1. PICK d \in Nat \ {0}, l \in Nat : d = Duration /\ l = a.elapsed
      BY <1>3, Zenon
    <3>2. 0 \in Int
      OBVIOUS
    <3>3. IsMultiple(a.from, d * g) /\ IsMultiple(a.to, d * g)
      BY <3>1, Zenon
    <3> QED
      BY <3>1, <3>2, <3>3, ExactInterpolation, Zenon
  <2> QED
    BY <2>1, Zenon DEF LerpInt
<1>5. IsMultiple(a.to, g)
  BY <1>3, CoarserMultiple, Zenon
<1>6. PICK x, y, z : /\ Consists(a1, x, y, f, t, z)
                     /\ IsMultiple(z, g)
  <2>1. PICK l : l = LerpInt(a, Duration)
    OBVIOUS
  <2>2. /\ ~p => a1 = a
        /\ p /\ e < Duration => Consists(a1, p, e, f, t, l)
        /\ p /\ ~(e < Duration) => Consists(a1, FALSE, 0, f, t, t)
    <3>1. LET k == Advanced(a, Duration, l)
          IN  /\ ~p => k = a
              /\ p /\ e < Duration => Consists(k, p, e, f, t, l)
              /\ p /\ ~(e < Duration) => Consists(k, FALSE, 0, f, t, t)
      BY <1>1, AdvancedMembers, Zenon
    <3> QED
      BY <2>1, <3>1, Zenon
  <2> QED
    BY <1>1, <1>2, <1>4, <1>5, <2>1, <2>2, Zenon
<1>7. PICK w : Consists(b, x, w, f, t, z)
  BY <1>6, NextFrameMembers, Zenon
<1>8. b.from = f /\ b.to = t /\ b.current = z
  BY <1>7, Members, Zenon
<1> QED
  BY <1>2, <1>6, <1>8, Zenon

\* In a frame the handle goes on along with the content.
LEMMA FrameGoesAlong ==
    ASSUME NEW a, IsAnimator(a), NEW g \in Nat \ {0}, NEW ticks, NEW r \in Int,
           IsMultiple(a.from, Duration * g), IsMultiple(a.to, Duration * g),
           NEW h, GoesAlong(r, a, h),
           NEW a1, a1 = Advanced(a, Duration, LerpInt(a, Duration)),
           NEW h1, h1 = Advanced(h, Duration, LerpInt(h, Duration))
    PROVE  /\ GoesAlong(r, a1, h1)
           /\ GoesAlong(r, NextFrame(a1, ticks, Duration), NextFrame(h1, ticks, Duration))
<1>1. PICK p, e, f, t, c : Consists(a, p, e, f, t, c)
  BY Zenon DEF IsAnimator, Consists
<1>2. a.playing = p /\ a.elapsed = e /\ a.from = f /\ a.to = t /\ a.current = c
  BY <1>1, Members, Zenon
<1>3. PICK F, T, C : F = Down(r, f) /\ T = Down(r, t) /\ C = Down(r, c)
  OBVIOUS
<1>4. Consists(h, p, e, F, T, C)
  BY <1>2, <1>3, Zenon DEF GoesAlong
<1>5. h.from = F /\ h.to = T /\ h.elapsed = e
  BY <1>4, Members, Zenon
<1>6. PICK l, L : l = LerpInt(a, Duration) /\ L = LerpInt(h, Duration)
  OBVIOUS
<1>7. L = Down(r, l)
  <2>1. PICK d \in Nat \ {0}, n \in Nat : d = Duration /\ n = e
    BY <1>2, AnimatorAssumption DEF IsAnimator
  <2>2. IsMultiple(f, d * g) /\ IsMultiple(t, d * g)
    BY <1>2, <2>1, Zenon
  <2>3. BothInterpolate(r, f, t, n, d)
    BY <2>1, <2>2, ExactInterpolation, Zenon
  <2> QED
    BY <1>2, <1>3, <1>5, <1>6, <2>1, <2>3, Zenon DEF LerpInt, BothInterpolate
<1>8. /\ ~p => a1 = a /\ h1 = h
      /\ p /\ e < Duration => /\ Consists(a1, p, e, f, t, l)
                              /\ Consists(h1, p, e, F, T, L)
      /\ p /\ ~(e < Duration) => /\ Consists(a1, FALSE, 0, f, t, t)
                                 /\ Consists(h1, FALSE, 0, F, T, T)
  <2>1. LET b == Advanced(a, Duration, l)
        IN  /\ ~p => b = a
            /\ p /\ e < Duration => Consists(b, p, e, f, t, l)
            /\ p /\ ~(e < Duration) => Consists(b, FALSE, 0, f, t, t)
    BY <1>1, AdvancedMembers, Zenon
  <2>2. LET k == Advanced(h, Duration, L)
        IN  /\ ~p => k = h
            /\ p /\ e < Duration => Consists(k, p, e, F, T, L)
            /\ p /\ ~(e < Duration) => Consists(k, FALSE, 0, F, T, T)
    BY <1>4, AdvancedMembers, Zenon
  <2> QED
    BY <1>6, <2>1, <2>2, Zenon
<1>9. PICK x, y, z, Z : /\ Consists(a1, x, y, f, t, z) /\ Consists(h1, x, y, F, T, Z)
                        /\ Z = Down(r, z)
  BY <1>1, <1>3, <1>4, <1>7, <1>8, Zenon
<1>10. GoesAlong(r, a1, h1)
  <2>1. a1.playing = x /\ a1.elapsed = y /\ a1.from = f /\ a1.to = t /\ a1.current = z
    BY <1>9, Members, Zenon
  <2> QED
    BY <1>3, <1>9, <2>1, Zenon DEF GoesAlong
<1>11. PICK w : /\ Consists(NextFrame(a1, ticks, Duration), x, w, f, t, z)
                /\ Consists(NextFrame(h1, ticks, Duration), x, w, F, T, Z)
  BY <1>9, NextFrameMembers, Zenon
<1>12. PICK b, k : b = NextFrame(a1, ticks, Duration) /\ k = NextFrame(h1, ticks, Duration)
  OBVIOUS
<1>13. GoesAlong(r, b, k)
  <2>1. Consists(b, x, w, f, t, z)
    BY <1>11, <1>12, Zenon
  <2>2. b.playing = x /\ b.elapsed = w /\ b.from = f /\ b.to = t /\ b.current = z
    BY <2>1, Members, Zenon
  <2> QED
    BY <1>3, <1>9, <1>11, <1>12, <2>2, Zenon DEF GoesAlong
<1> QED
  BY <1>10, <1>12, <1>13, Zenon

\* An input leaves lengths that can be divided once more.
LEMMA GrainOfInput ==
    ASSUME NEW CONSTANT grain, UnitIsFine(grain), inputs \in 0..MaxInputs, Input
    PROVE  /\ inputs' \in 0..MaxInputs
           /\ grain[inputs'] \in Nat \ {0} /\ grain[inputs] \in Nat \ {0}
           /\ grain[inputs] = Duration * grain[inputs']
<1>1. MaxInputs \in Nat
  BY DEF UnitIsFine
<1>2. inputs \in Int /\ 0 <= inputs /\ inputs < MaxInputs /\ inputs' = inputs + 1 /\ inputs <= MaxInputs
  BY DEF Input
<1>3. inputs' \in 0..MaxInputs /\ inputs' \in 1..MaxInputs /\ inputs' - 1 = inputs
  BY <1>1, <1>2
<1> QED
  BY <1>3 DEF UnitIsFine

\* What is a multiple before an input still is one, and can be divided.
LEMMA FinerMultiple ==
    ASSUME NEW g, NEW k \in Nat \ {0}, NEW d \in Nat \ {0}, g = d * k, NEW x, IsMultiple(x, g)
    PROVE  IsMultiple(x, k) /\ IsMultiple(x, d * k)
<1>1. IsMultiple(x, d * k)
  BY Zenon
<1> QED
  BY <1>1, CoarserMultiple, Zenon

\* An input that lets the animations alone.
LEMMA InputKeepsGrain ==
    ASSUME NEW CONSTANT grain, UnitIsFine(grain), HandleInv(grain), Input
    PROVE  /\ inputs' \in 0..MaxInputs /\ Grained(grain[inputs'])
           /\ \A x : IsMultiple(x, grain[inputs]) =>
                        /\ IsMultiple(x, grain[inputs'])
                        /\ IsMultiple(x, Duration * grain[inputs'])
<1>1. /\ inputs \in 0..MaxInputs /\ Grained(grain[inputs])
      /\ Duration \in Nat \ {0}
  BY AnimatorAssumption DEF HandleInv
<1>2. PICK g, k : g = grain[inputs] /\ k = grain[inputs']
  OBVIOUS
<1>3. /\ inputs' \in 0..MaxInputs /\ k \in Nat \ {0} /\ g \in Nat \ {0} /\ g = Duration * k
  BY <1>1, <1>2, GrainOfInput, Zenon
<1>4. ASSUME NEW x, IsMultiple(x, g) PROVE IsMultiple(x, k) /\ IsMultiple(x, Duration * k)
  BY <1>1, <1>3, <1>4, FinerMultiple, Zenon
<1>5. /\ IsMultiple(Tick, g) /\ IsMultiple(maxTranslate, g)
      /\ IsMultiple(translationFactor, g) /\ IsMultiple(content.current, g)
      /\ IsMultiple(content.from, g) /\ IsMultiple(content.to, g)
  BY <1>1, <1>2, <1>3, CoarserMultiple, Zenon DEF Grained
<1>6. Grained(k)
  BY <1>4, <1>5, Zenon DEF Grained
<1> QED
  BY <1>2, <1>3, <1>4, <1>6, Zenon

\* The content is scrolled by a multiple to a multiple.
LEMMA ScrolledToMultiple ==
    ASSUME NEW g \in Nat \ {0}, NEW n \in Int,
           IsMultiple(Tick, g), IsMultiple(maxTranslate, g), IsMultiple(translationFactor, g)
    PROVE  ScrolledBy(n * Tick) \in Int /\ IsMultiple(ScrolledBy(n * Tick), g)
<1>1. PICK m, t, u, v : m = maxTranslate /\ t = translationFactor /\ u = n * Tick /\ v = t + u
  OBVIOUS
<1>2. IsMultiple(m, g) /\ IsMultiple(t, g) /\ m \in Int /\ t \in Int
  BY <1>1, Multiples, Zenon
<1>3. IsMultiple(u, g) /\ u \in Int
  <2>1. IsMultiple(Tick * n, g) /\ Tick \in Int
    BY Multiples, Zenon
  <2>2. n * Tick = Tick * n
    BY <2>1
  <2>3. IsMultiple(u, g)
    BY <1>1, <2>1, <2>2, Zenon
  <2> QED
    BY <2>3, Multiples, Zenon
<1>4. IsMultiple(v, g) /\ v \in Int /\ IsMultiple(0, g)
  <2>1. IsMultiple(t + u, g) /\ IsMultiple(0, g)
    BY <1>2, <1>3, 0 \in Int, Multiples, Zenon
  <2>2. IsMultiple(v, g)
    BY <1>1, <2>1, Zenon
  <2> QED
    BY <2>1, <2>2, Multiples, Zenon
<1>5. PICK w \in Int : w = Max({0, v}) /\ w \in {0, v}
  <2>1. \E x \in {0, v} : \A y \in {0, v} : x >= y
    BY <1>4
  <2>2. Max({0, v}) \in {0, v}
    BY <2>1 DEF Max
  <2> QED
    BY <1>4, <2>2
<1>6. Min({m, w}) \in {m, w}
  <2>1. \E x \in {m, w} : \A y \in {m, w} : x <= y
    BY <1>2, <1>5
  <2> QED
    BY <2>1 DEF Min
<1>7. ScrolledBy(n * Tick) = Min({m, w})
  BY <1>1, <1>5, Zenon DEF ScrolledBy
<1>8. Min({m, w}) \in {m, 0, v}
  BY <1>5, <1>6, Zenon
<1> QED
  BY <1>2, <1>4, <1>7, <1>8, 0 \in Int, Zenon

\* Both are animated by the wheel.
LEMMA WheelHandleInv ==
    ASSUME NEW CONSTANT grain, UnitIsFine(grain), ScrollInv, HandleInv(grain),
           NEW offset \in {-2, 0, 1}, handleScrollEvent(offset)
    PROVE  HandleInv(grain)'
<1>1. /\ Input /\ translationFactor' = ScrolledBy(StepOf(offset))
      /\ content' = UpdateAnimationAndPlay(content.current, translationFactor', 0)
      /\ handle' = UpdateAnimationAndPlay(handle.current, -ratio * translationFactor', 0)
      /\ contentMatrix' = contentMatrix /\ handleMatrix' = handleMatrix /\ ratio' = ratio
      /\ resized' = resized
  BY Zenon DEF handleScrollEvent, AnimateScrollByTr
<1>2. /\ inputs \in 0..MaxInputs /\ ratio \in Ratios /\ ratio \in Int
      /\ Grained(grain[inputs])
      /\ ~resized => GoesAlong(ratio, content, handle) /\ HandleTracksContent
  BY ScrollingAssumption, AnimatorAssumption DEF HandleInv
<1>3. PICK g, k : g = grain[inputs] /\ k = grain[inputs']
  OBVIOUS
<1>4. /\ inputs' \in 0..MaxInputs /\ Grained(k)
      /\ \A x : IsMultiple(x, g) => IsMultiple(x, k) /\ IsMultiple(x, Duration * k)
  BY <1>1, <1>3, InputKeepsGrain, Zenon
<1>5. g \in Nat \ {0}
  BY <1>1, <1>2, <1>3, GrainOfInput, Zenon
<1>6. /\ IsMultiple(Tick, g) /\ IsMultiple(maxTranslate, g)
      /\ IsMultiple(translationFactor, g) /\ IsMultiple(content.current, g)
      /\ IsMultiple(Tick, k) /\ IsMultiple(maxTranslate, k)
  BY <1>2, <1>3, <1>4, Zenon DEF Grained
<1>7. translationFactor' \in Int /\ IsMultiple(translationFactor', g)
  <2>1. PICK n \in Int : n = -offset
    OBVIOUS
  <2>2. StepOf(offset) = n * Tick
    BY <2>1, ScrollingAssumption, AnimatorAssumption DEF StepOf
  <2> QED
    BY <1>1, <1>5, <1>6, <2>1, <2>2, ScrolledToMultiple, Zenon
<1>8. PICK c, t, z : /\ c = content.current /\ t = translationFactor' /\ z = -ratio * t
                     /\ c \in Int /\ t \in Int
  BY <1>7, Zenon DEF ScrollInv, ScrollTypes, IsAnimator
<1>9. z = Down(ratio, t)
  BY <1>8, Zenon DEF Down
<1>10. PICK a : a = content'
  OBVIOUS
<1>11. a.from = c /\ a.to = t /\ a.current = 0
  <2>1. Consists(a, TRUE, 0, c, t, 0)
    BY <1>1, <1>8, <1>10, Zenon DEF Consists, UpdateAnimationAndPlay
  <2> QED
    BY <2>1, Members, Zenon
<1>12. Grained(grain[inputs])'
  <2>1. IsMultiple(c, Duration * k) /\ IsMultiple(t, Duration * k) /\ IsMultiple(t, k)
    BY <1>4, <1>6, <1>7, <1>8, Zenon
  <2>2. IsMultiple(0, k)
    BY <1>4, <1>5, <1>6, 0 \in Int, Multiples, Zenon
  <2> QED
    BY <1>3, <1>6, <1>8, <1>10, <1>11, <2>1, <2>2, Zenon DEF Grained, maxTranslate, IsMultiple
<1>13. ASSUME ~resized PROVE GoesAlong(ratio, content, handle)' /\ HandleTracksContent'
  <2>1. GoesAlong(ratio, content, handle) /\ HandleTracksContent
    BY <1>2, <1>13, Zenon
  <2>2. handle.current = Down(ratio, c)
    BY <1>8, <2>1, MembersGoAlong, Zenon
  <2>3. GoesAlong(ratio, UpdateAnimationAndPlay(c, t, 0), UpdateAnimationAndPlay(handle.current, z, 0))
    BY <1>2, <1>8, <1>9, <2>2, BothStart, Zenon
  <2>4. GoesAlong(ratio, content', handle')
    BY <1>1, <1>8, <2>3, Zenon
  <2> QED
    BY <1>1, <2>1, <2>4, Zenon DEF GoesAlong, Consists, Down, HandleTracksContent
<1> QED
  BY <1>1, <1>2, <1>4, <1>12, <1>13, Zenon DEF HandleInv

\* Both are put where the handle is dragged.
LEMMA DragHandleInv ==
    ASSUME NEW CONSTANT grain, UnitIsFine(grain), HandleInv(grain),
           NEW n \in Int, DragHandle(n * Tick)
    PROVE  HandleInv(grain)'
<1>1. /\ Input /\ translationFactor' = ScrolledBy(n * Tick)
      /\ content' = SetAnimationKeyframe(translationFactor') /\ contentMatrix' = translationFactor'
      /\ handle' = SetAnimationKeyframe(-ratio * translationFactor')
      /\ handleMatrix' = -ratio * translationFactor' /\ ratio' = ratio
  BY Zenon DEF DragHandle, InPlace
<1>2. /\ inputs \in 0..MaxInputs /\ ratio \in Ratios /\ ratio \in Int /\ Grained(grain[inputs])
  BY ScrollingAssumption, AnimatorAssumption DEF HandleInv
<1>3. PICK g, k : g = grain[inputs] /\ k = grain[inputs']
  OBVIOUS
<1>4. /\ inputs' \in 0..MaxInputs /\ Grained(k)
      /\ \A x : IsMultiple(x, g) => IsMultiple(x, k) /\ IsMultiple(x, Duration * k)
  BY <1>1, <1>3, InputKeepsGrain, Zenon
<1>5. g \in Nat \ {0}
  BY <1>1, <1>2, <1>3, GrainOfInput, Zenon
<1>6. /\ IsMultiple(Tick, g) /\ IsMultiple(maxTranslate, g) /\ IsMultiple(translationFactor, g)
      /\ IsMultiple(Tick, k) /\ IsMultiple(maxTranslate, k)
  BY <1>2, <1>3, <1>4, Zenon DEF Grained
<1>7. translationFactor' \in Int /\ IsMultiple(translationFactor', g)
  BY <1>1, <1>5, <1>6, ScrolledToMultiple, Zenon
<1>8. PICK t, z : t = translationFactor' /\ z = -ratio * t /\ t \in Int
  BY <1>7, Zenon
<1>9. z = Down(ratio, t)
  BY <1>8, Zenon DEF Down
<1>10. PICK a : a = content'
  OBVIOUS
<1>11. a.from = t /\ a.to = t /\ a.current = t
  <2>1. Consists(a, FALSE, 0, t, t, t)
    BY <1>1, <1>8, <1>10, Zenon DEF Consists, SetAnimationKeyframe
  <2> QED
    BY <2>1, Members, Zenon
<1>12. Grained(grain[inputs])'
  <2>1. IsMultiple(t, Duration * k) /\ IsMultiple(t, k)
    BY <1>4, <1>7, <1>8, Zenon
  <2> QED
    BY <1>3, <1>6, <1>8, <1>10, <1>11, <2>1, Zenon DEF Grained, maxTranslate, IsMultiple
<1>13. GoesAlong(ratio, content, handle)'
  <2>1. GoesAlong(ratio, SetAnimationKeyframe(t), SetAnimationKeyframe(z))
    BY <1>2, <1>8, <1>9, BothStart, Zenon
  <2>2. GoesAlong(ratio, content', handle')
    BY <1>1, <1>8, <2>1, Zenon
  <2> QED
    BY <1>1, <2>2, Zenon DEF GoesAlong, Consists, Down
<1>14. HandleTracksContent'
  BY <1>1, Zenon DEF HandleTracksContent
<1> QED
  BY <1>1, <1>2, <1>4, <1>12, <1>13, <1>14, Zenon DEF HandleInv

\* Both are drawn in a frame.
LEMMA DrawHandleInv ==
    ASSUME NEW CONSTANT grain, UnitIsFine(grain), ScrollInv, HandleInv(grain),
           NEW ticks \in FrameTimes, Draw(ticks)
    PROVE  HandleInv(grain)'
<1>1. PICK a, h : /\ a = Advanced(content, Duration, LerpInt(content, Duration))
                  /\ h = Advanced(handle, Duration, LerpInt(handle, Duration))
  OBVIOUS
<1>2. /\ contentMatrix' = Progress(contentMatrix, a) /\ handleMatrix' = Progress(handleMatrix, h)
      /\ content' = NextFrame(a, ticks, Duration) /\ handle' = NextFrame(h, ticks, Duration)
      /\ translationFactor' = translationFactor /\ ratio' = ratio /\ resized' = resized
      /\ inputs' = inputs
  BY <1>1, Zenon DEF Draw
<1>3. /\ inputs \in 0..MaxInputs /\ ratio \in Ratios /\ ratio \in Int /\ Grained(grain[inputs])
      /\ ~resized => GoesAlong(ratio, content, handle) /\ HandleTracksContent
      /\ IsAnimator(content)
  BY ScrollingAssumption, AnimatorAssumption DEF HandleInv, ScrollInv, ScrollTypes
<1>4. PICK g \in Nat \ {0} : g = grain[inputs]
  BY <1>3 DEF UnitIsFine
<1>5. /\ IsMultiple(Tick, g) /\ IsMultiple(maxTranslate, g)
      /\ IsMultiple(translationFactor, g) /\ IsMultiple(content.current, g)
      /\ IsMultiple(content.from, Duration * g) /\ IsMultiple(content.to, Duration * g)
  BY <1>3, <1>4, Zenon DEF Grained
<1>6. PICK b : b = content'
  OBVIOUS
<1>7. /\ IsMultiple(b.current, g)
      /\ IsMultiple(b.from, Duration * g) /\ IsMultiple(b.to, Duration * g)
  <2>1. PICK c : c = content
    OBVIOUS
  <2>2. /\ IsAnimator(c) /\ IsMultiple(c.current, g)
        /\ IsMultiple(c.from, Duration * g) /\ IsMultiple(c.to, Duration * g)
        /\ a = Advanced(c, Duration, LerpInt(c, Duration)) /\ b = NextFrame(a, ticks, Duration)
    BY <1>1, <1>2, <1>3, <1>5, <1>6, <2>1, Zenon
  <2> QED
    BY ONLY <1>4, <2>2, GrainedFrame
<1>8. Grained(grain[inputs])'
  BY <1>2, <1>4, <1>5, <1>6, <1>7, Zenon DEF Grained, maxTranslate, IsMultiple
<1>9. ASSUME ~resized PROVE GoesAlong(ratio, content, handle)' /\ HandleTracksContent'
  <2>1. GoesAlong(ratio, content, handle) /\ handleMatrix = -ratio * contentMatrix
    BY <1>3, <1>9, Zenon DEF HandleTracksContent
  <2>2. /\ GoesAlong(ratio, a, h)
        /\ GoesAlong(ratio, NextFrame(a, ticks, Duration), NextFrame(h, ticks, Duration))
    <3>1. PICK c, k, r : c = content /\ k = handle /\ r = ratio
      OBVIOUS
    <3>2. /\ IsAnimator(c) /\ IsMultiple(c.from, Duration * g) /\ IsMultiple(c.to, Duration * g)
          /\ a = Advanced(c, Duration, LerpInt(c, Duration))
          /\ h = Advanced(k, Duration, LerpInt(k, Duration))
          /\ GoesAlong(r, c, k) /\ r \in Int
      BY <1>1, <1>3, <1>5, <2>1, <3>1, Zenon
    <3>3. /\ GoesAlong(r, a, h)
          /\ GoesAlong(r, NextFrame(a, ticks, Duration), NextFrame(h, ticks, Duration))
      BY ONLY <1>4, <3>2, FrameGoesAlong
    <3> QED
      BY <3>1, <3>3, Zenon
  <2>3. h.playing = a.playing /\ h.current = -ratio * a.current
    BY <2>2, MembersGoAlong, Zenon DEF Down
  <2>4. handleMatrix' = -ratio * contentMatrix'
    BY <1>2, <2>1, <2>3, Zenon DEF Progress, IsPlaying
  <2>5. GoesAlong(ratio, content', handle')
    BY <1>2, <2>2, Zenon
  <2> QED
    BY <1>2, <2>4, <2>5, Zenon DEF GoesAlong, Consists, Down, HandleTracksContent
<1> QED
  BY <1>2, <1>3, <1>8, <1>9, Zenon DEF HandleInv

\* A new ratio of sizes, or a panel that slides.
LEMMA OtherHandleInv ==
    ASSUME NEW CONSTANT grain, UnitIsFine(grain), HandleInv(grain), Input, UNCHANGED scrollVars,
           ratio' \in Ratios, resized' = (resized \/ ratio' # ratio)
    PROVE  HandleInv(grain)'
<1>1. inputs' \in 0..MaxInputs /\ Grained(grain[inputs'])
  BY InputKeepsGrain, Zenon
<1>2. /\ translationFactor' = translationFactor /\ content' = content /\ handle' = handle
      /\ contentMatrix' = contentMatrix /\ handleMatrix' = handleMatrix
  BY Zenon DEF scrollVars
<1>3. Grained(grain[inputs])'
  BY <1>1, <1>2, Zenon DEF Grained, maxTranslate, IsMultiple
<1>4. ~resized' => ~resized /\ ratio' = ratio
  BY Zenon
<1>5. ~resized => GoesAlong(ratio, content, handle) /\ handleMatrix = -ratio * contentMatrix
  BY Zenon DEF HandleInv, HandleTracksContent
<1>6. ASSUME ~resized' PROVE GoesAlong(ratio, content, handle)' /\ HandleTracksContent'
  <2>1. ~resized /\ ratio' = ratio
    BY <1>4, <1>6, Zenon
  <2> QED
    BY <1>2, <1>5, <2>1, Zenon DEF GoesAlong, Consists, Down, HandleTracksContent
<1> QED
  BY <1>1, <1>3, <1>6, Zenon DEF HandleInv

\* Every step keeps content and handle in step.
LEMMA StepHandleInv ==
    ASSUME NEW CONSTANT grain, UnitIsFine(grain), ScrollInv, HandleInv(grain), [Next]_vars
    PROVE  HandleInv(grain)'
<1>1. ASSUME NEW offset \in {-2, 0, 1}, handleScrollEvent(offset) PROVE HandleInv(grain)'
  BY <1>1, WheelHandleInv
<1>2. ASSUME NEW ticks \in {-2, 1}, DragHandle(ticks * Tick) PROVE HandleInv(grain)'
  <2>1. ticks \in Int
    OBVIOUS
  <2> QED
    BY <1>2, <2>1, DragHandleInv
<1>3. ASSUME NEW r \in Ratios, updateSize(r) PROVE HandleInv(grain)'
  <2>1. Input /\ UNCHANGED scrollVars /\ ratio' \in Ratios /\ resized' = (resized \/ ratio' # ratio)
    BY <1>3, Zenon DEF updateSize
  <2> QED
    BY <2>1, OtherHandleInv
<1>4. CASE onToggled
  <2>1. Input /\ UNCHANGED scrollVars /\ ratio' \in Ratios /\ ratio' = ratio /\ resized' = resized
    BY <1>4, Zenon DEF onToggled, HandleInv
  <2>2. HandleInv(grain)'
    <3>1. inputs' \in 0..MaxInputs /\ Grained(grain[inputs'])
      BY <2>1, InputKeepsGrain, Zenon
    <3> QED
      BY <2>1, <3>1, Zenon DEF HandleInv, scrollVars, Grained, maxTranslate, IsMultiple, GoesAlong,
         Consists, Down, HandleTracksContent
  <2> QED
    BY <2>2
<1>5. ASSUME NEW ticks \in FrameTimes, Draw(ticks) PROVE HandleInv(grain)'
  BY <1>5, DrawHandleInv
<1>6. CASE UNCHANGED vars
  BY <1>6, Zenon DEF vars, scrollVars, HandleInv, Grained, maxTranslate, IsMultiple, GoesAlong,
     Consists, Down, HandleTracksContent
<1> QED
  BY <1>1, <1>2, <1>3, <1>4, <1>5, <1>6 DEF Next

\* A multiple by what is left of a division.
LEMMA MultipleByRest ==
    ASSUME NEW x \in Nat, NEW g \in Nat \ {0}, x % g = 0
    PROVE  IsMultiple(x, g)
<1>1. x \div g \in Int /\ x = (x \div g) * g
  OBVIOUS
<1> QED
  BY <1>1, Zenon DEF IsMultiple

\* Nothing is scrolled at first.
LEMMA InitHandleInv ==
    ASSUME NEW CONSTANT grain, UnitIsFine(grain), Init
    PROVE  HandleInv(grain)
<1>1. /\ translationFactor = 0 /\ content = NewAnimator(0) /\ contentMatrix = 0
      /\ handle = NewAnimator(0) /\ handleMatrix = 0 /\ ratio \in Ratios /\ inputs = 0
  BY DEF Init
<1>2. 0 \in 0..MaxInputs /\ 0 \in Int /\ ratio \in Int /\ Duration \in Nat \ {0}
      /\ Tick \in Nat /\ maxTranslate \in Nat
  BY <1>1, ScrollingAssumption, AnimatorAssumption DEF UnitIsFine, maxTranslate
<1>3. PICK g \in Nat \ {0} : g = grain[0]
  BY <1>2 DEF UnitIsFine
<1>4. IsMultiple(Tick, g) /\ IsMultiple(maxTranslate, g)
  <2>1. Tick % g = 0 /\ maxTranslate % g = 0
    BY <1>3 DEF UnitIsFine
  <2> QED
    BY <1>2, <1>3, <2>1, MultipleByRest, Zenon
<1>5. IsMultiple(0, g) /\ IsMultiple(0, Duration * g)
  <2>1. 0 = 0 * g /\ 0 = 0 * (Duration * g)
    BY <1>2
  <2> QED
    BY <1>2, <2>1, Zenon DEF IsMultiple
<1>6. content.from = 0 /\ content.to = 0 /\ content.current = 0
  <2>1. Consists(content, FALSE, 0, 0, 0, 0)
    BY <1>1, Zenon DEF Consists, NewAnimator
  <2> QED
    BY <2>1, Members, Zenon
<1>7. Grained(grain[inputs])
  BY <1>1, <1>3, <1>4, <1>5, <1>6, Zenon DEF Grained
<1>8. GoesAlong(ratio, content, handle)
  <2>1. GoesAlong(ratio, NewAnimator(0), NewAnimator(0))
    BY <1>2, BothStart, Zenon
  <2> QED
    BY <1>1, <2>1, Zenon
<1>9. HandleTracksContent
  BY <1>1, <1>2 DEF HandleTracksContent
<1> QED
  BY <1>1, <1>2, <1>7, <1>8, <1>9, Zenon DEF HandleInv

\* HandleTracksContent for any sizes, steps of the wheel, ratios, durations and
\* times of frames, if the unit of length is fine enough for as many interrupted
\* animations as there are inputs: content and handle, which are animated each
\* by its own player and from where each of them is, never get out of step
\* unless the window is resized.
THEOREM HandleAlwaysTracksContent ==
    ASSUME NEW CONSTANT grain, UnitIsFine(grain)
    PROVE  Spec => []HandleTracksContent
<1>1. Init => ScrollInv /\ HandleInv(grain)
  BY InitScrollInv, InitHandleInv
<1>2. (ScrollInv /\ HandleInv(grain)) /\ [Next]_vars => (ScrollInv /\ HandleInv(grain))'
  BY StepScrollInv, StepHandleInv
<1>3. HandleInv(grain) => HandleTracksContent
  BY Zenon DEF HandleInv, HandleTracksContent
<1> QED
  BY <1>1, <1>2, <1>3, PTL DEF Spec

-----------------------------------------------------------------------------
(* The layout.                                                             *)

\* The panel has its thickness of the window, along one of its sides.
OnSide(side, r) ==
    \E a, b, c, d \in Int :
        /\ r = Rect(a, b, c, d)
        /\ -Unit <= a /\ c <= Unit /\ -Unit <= b /\ d <= Unit
        /\ side \in {"Left", "Right"} => b = -Unit /\ d = Unit /\ c = a + PanelThickness
        /\ side \notin {"Left", "Right"} => a = -Unit /\ c = Unit /\ d = b + PanelThickness

IsRect(r) == \E a, b, c, d \in Int : r = Rect(a, b, c, d)

\* Once the panel has moved, its scroller is drawn where it is.
MovedTogether ==
    propagated => /\ setupDone
                  /\ matrix["scroller"] = matrix["panel"]
                  /\ \E x, y \in Int : matrix["panel"] = <<x, y>>

LayoutInv ==
    /\ stickness \in StickTo
    /\ DOMAIN matrix = {"panel", "scroller", "handle"}
    /\ DOMAIN geometry = Widgets
    /\ setupDone => OnSide(stickness, shape["panel"]) /\ IsRect(shape["scroller"])
    /\ MovedTogether
    /\ SpaceIsDivided
    /\ HoveredWhereDrawn

\* The corners of a rectangle.
LEMMA Corners ==
    ASSUME NEW a, NEW b, NEW c, NEW d, NEW r, r = Rect(a, b, c, d)
    PROVE  /\ r.min = <<a, b>> /\ r.max = <<c, d>>
           /\ r.min[1] = a /\ r.min[2] = b /\ r.max[1] = c /\ r.max[2] = d
BY DEF Rect

\* One rectangle inside another one.
LEMMA InsideRect ==
    ASSUME NEW a, NEW b, NEW c, NEW d, NEW e, NEW f, NEW g, NEW h
    PROVE  Inside(Rect(a, b, c, d), Rect(e, f, g, h)) <=>
               /\ e <= a /\ a <= c /\ c <= g
               /\ f <= b /\ b <= d /\ d <= h
<1>1. PICK r, s : r = Rect(a, b, c, d) /\ s = Rect(e, f, g, h)
  OBVIOUS
<1>2. /\ r.min[1] = a /\ r.min[2] = b /\ r.max[1] = c /\ r.max[2] = d
      /\ s.min[1] = e /\ s.min[2] = f /\ s.max[1] = g /\ s.max[2] = h
  BY <1>1, Corners
<1>3. Inside(r, s) <=> /\ e <= a /\ a <= c /\ c <= g
                       /\ f <= b /\ b <= d /\ d <= h
  BY <1>2 DEF Inside
<1> QED
  BY <1>1, <1>3, Zenon

\* It stays there when both are moved alike.
LEMMA InsideMoved ==
    ASSUME NEW r, IsRect(r), NEW s, IsRect(s), NEW x \in Int, NEW y \in Int, NEW v, v = <<x, y>>,
           Inside(r, s)
    PROVE  Inside(Moved(r, v), Moved(s, v))
<1>1. PICK a \in Int, b \in Int, c \in Int, d \in Int : r = Rect(a, b, c, d)
  BY DEF IsRect
<1>2. PICK e \in Int, f \in Int, g \in Int, h \in Int : s = Rect(e, f, g, h)
  BY DEF IsRect
<1>3. Moved(r, v) = Rect(a + x, b + y, c + x, d + y)
  BY <1>1 DEF Moved, Rect, Plus
<1>4. Moved(s, v) = Rect(e + x, f + y, g + x, h + y)
  BY <1>2 DEF Moved, Rect, Plus
<1>5. /\ e <= a /\ a <= c /\ c <= g
      /\ f <= b /\ b <= d /\ d <= h
  <2>1. Inside(Rect(a, b, c, d), Rect(e, f, g, h))
    BY <1>1, <1>2, Zenon
  <2> QED
    BY ONLY <2>1, InsideRect
<1>6. /\ e + x <= a + x /\ a + x <= c + x /\ c + x <= g + x
      /\ f + y <= b + y /\ b + y <= d + y /\ d + y <= h + y
  BY <1>5
<1> QED
  BY <1>3, <1>4, <1>6, InsideRect, Zenon

\* The panel's first layout.
LEMMA PanelTakesItsSide ==
    ASSUME stickness \in StickTo
    PROVE  OnSide(stickness, panelShape(Window))
<1>1. PICK r : r = Window
  OBVIOUS
<1>2. PICK n \in Int, u \in Int, low \in Int, high \in Int :
         /\ n = -Unit /\ u = Unit /\ low = n + PanelThickness /\ high = u - PanelThickness
  BY LayoutAssumption
<1>3. r = Rect(n, n, u, u)
  BY <1>1, <1>2, Zenon DEF Window
<1>4. r.min[1] = n /\ r.min[2] = n /\ r.max[1] = u /\ r.max[2] = u
  BY <1>3, Corners
<1>5. /\ n <= n /\ n <= low /\ low <= u /\ n <= high /\ high <= u /\ u <= u /\ n <= u
      /\ u = high + PanelThickness
  BY <1>2, LayoutAssumption
<1>6. CASE stickness = "Left"
  <2>1. panelShape(r) = [r EXCEPT !.max[1] = low]
    BY <1>2, <1>4, <1>6, Zenon DEF panelShape
  <2>2. panelShape(r) = Rect(n, n, low, u)
    BY ONLY <1>3, <2>1 DEF Rect
  <2> QED
    BY <1>1, <1>2, <1>5, <1>6, <2>2, Zenon DEF OnSide
<1>7. CASE stickness = "Right"
  <2>1. panelShape(r) = [r EXCEPT !.min[1] = high]
    BY <1>2, <1>4, <1>7, Zenon DEF panelShape
  <2>2. panelShape(r) = Rect(high, n, u, u)
    BY ONLY <1>3, <2>1 DEF Rect
  <2> QED
    BY <1>1, <1>2, <1>5, <1>7, <2>2, Zenon DEF OnSide
<1>8. CASE stickness = "Top"
  <2>1. panelShape(r) = [r EXCEPT !.min[2] = high]
    BY <1>2, <1>4, <1>8, Zenon DEF panelShape
  <2>2. panelShape(r) = Rect(n, high, u, u)
    BY ONLY <1>3, <2>1 DEF Rect
  <2> QED
    BY <1>1, <1>2, <1>5, <1>8, <2>2, Zenon DEF OnSide
<1>9. CASE stickness = "Bottom"
  <2>1. panelShape(r) = [r EXCEPT !.max[2] = low]
    BY <1>2, <1>4, <1>9, Zenon DEF panelShape
  <2>2. panelShape(r) = Rect(n, n, u, low)
    BY ONLY <1>3, <2>1 DEF Rect
  <2> QED
    BY <1>1, <1>2, <1>5, <1>9, <2>2, Zenon DEF OnSide
<1> QED
  BY <1>6, <1>7, <1>8, <1>9 DEF StickTo

\* The scroller with its padding is thinner than the panel, in windows of all
\* sizes.
LEMMA PixelsFit ==
    ASSUME NEW n \in Widths \cup Heights
    PROVE  /\ Unit \div n \in Nat
           /\ (ScrollerPx + 2 * PaddingPx) * (Unit \div n) < PanelThickness
<1>1. PICK u \in Nat, t \in Nat, size \in Nat, m \in Nat \ {0} :
         /\ u = Unit /\ t = PanelThickness /\ size = ScrollerPx + 2 * PaddingPx /\ m = n
         /\ u * size < t * m
  BY LayoutAssumption
<1>2. PICK p \in Nat : p = u \div m
  OBVIOUS
<1>3. p * m <= u
  BY <1>2
<1>4. (p * m) * size <= u * size
  BY <1>3, TimesMonotone
<1>5. (size * p) * m = (p * m) * size
  OBVIOUS
<1>6. size * p < t
  <2> SUFFICES ASSUME t <= size * p PROVE FALSE
    OBVIOUS
  <2>1. t * m <= (size * p) * m
    BY TimesMonotone
  <2> QED
    BY <1>1, <1>4, <1>5, <2>1
<1> QED
  BY <1>1, <1>2, <1>6

\* A panel is a rectangle of the window.
LEMMA PanelIsInside ==
    ASSUME NEW r, OnSide(stickness, r)
    PROVE  IsRect(r) /\ Inside(r, Window)
<1>1. PICK a \in Int, b \in Int, c \in Int, d \in Int :
        /\ r = Rect(a, b, c, d)
        /\ -Unit <= a /\ c <= Unit /\ -Unit <= b /\ d <= Unit
        /\ stickness \in {"Left", "Right"} => b = -Unit /\ d = Unit /\ c = a + PanelThickness
        /\ stickness \notin {"Left", "Right"} => a = -Unit /\ c = Unit /\ d = b + PanelThickness
  BY DEF OnSide
<1>2. a <= c /\ b <= d
  BY <1>1, LayoutAssumption
<1>3. Inside(Rect(a, b, c, d), Rect(-Unit, -Unit, Unit, Unit))
  BY ONLY <1>1, <1>2, InsideRect
<1> QED
  BY <1>1, <1>3 DEF IsRect, Window

\* How a panel's space is divided, whatever the size of a pixel.
Divided(r, scroller, grid) ==
    LET across == 3 - growableAxis
    IN  /\ IsRect(scroller)
        /\ Inside(scroller, r)
        /\ r.min[across] <= grid.min[across]
        /\ grid.max[across] <= r.max[across]
        /\ Apart(grid, scroller)

LEMMA PanelIsDivided ==
    ASSUME NEW r, OnSide(stickness, r), NEW p \in Nat, NEW q \in Nat, NEW px, px = <<p, q>>,
           (ScrollerPx + 2 * PaddingPx) * p < PanelThickness,
           (ScrollerPx + 2 * PaddingPx) * q < PanelThickness
    PROVE  Divided(r, scrollerSpace(r, px).shape, gridShape(scrollerSpace(r, px).remaining))
<1>1. PICK a \in Int, b \in Int, c \in Int, d \in Int :
        /\ r = Rect(a, b, c, d)
        /\ -Unit <= a /\ c <= Unit /\ -Unit <= b /\ d <= Unit
        /\ stickness \in {"Left", "Right"} => b = -Unit /\ d = Unit /\ c = a + PanelThickness
        /\ stickness \notin {"Left", "Right"} => a = -Unit /\ c = Unit /\ d = b + PanelThickness
  BY DEF OnSide
<1>2. PICK pp \in Nat, pq \in Nat, sp \in Nat, sq \in Nat, t \in Nat, u \in Nat :
        /\ pp = PaddingPx * p /\ pq = PaddingPx * q
        /\ sp = (ScrollerPx + 2 * PaddingPx) * p /\ sq = (ScrollerPx + 2 * PaddingPx) * q
        /\ t = PanelThickness /\ u = Unit /\ t <= 2 * u /\ sp < t /\ sq < t
        /\ 2 * pp <= sp /\ 2 * pq <= sq
  <2>1. PICK x \in Nat, y \in Nat : x = ScrollerPx /\ y = PaddingPx
    BY LayoutAssumption
  <2>2. /\ (x + 2 * y) * p = x * p + 2 * (y * p) /\ x * p \in Nat /\ y * p \in Nat
        /\ (x + 2 * y) * q = x * q + 2 * (y * q) /\ x * q \in Nat /\ y * q \in Nat
    OBVIOUS
  <2>3. PanelThickness \in Nat /\ Unit \in Nat /\ PanelThickness <= 2 * Unit
    BY LayoutAssumption
  <2> QED
    BY <2>1, <2>2, <2>3
<1>3. px[1] = p /\ px[2] = q
  OBVIOUS
<1>4. -PaddingPx * p = -pp /\ -PaddingPx * q = -pq
  BY <1>2, LayoutAssumption
<1>5. ASSUME NEW e, NEW f, NEW g, NEW h
      PROVE  Padded(Rect(e, f, g, h), px) = Rect(e + pp, f + pq, g + -pp, h + -pq)
  <2>1. Padded(Rect(e, f, g, h), px) =
          [min |-> Plus(Rect(e, f, g, h).min, <<pp, pq>>),
           max |-> Plus(Rect(e, f, g, h).max, <<-pp, -pq>>)]
    BY <1>2, <1>3, <1>4, Zenon DEF Padded
  <2> QED
    BY <2>1 DEF Plus, Rect
<1>6. r.min[1] = a /\ r.min[2] = b /\ r.max[1] = c /\ r.max[2] = d
  BY <1>1, Corners
<1>7. CASE stickness \in {"Left", "Right"}
  <2>1. growableAxis = 2 /\ scrollerStickness = "Right"
    BY <1>7, Zenon DEF growableAxis, scrollerStickness
  <2>0. PICK cut \in Int : cut = c - sp
    OBVIOUS
  <2>2. PICK ph, rem : ph = [r EXCEPT !.min[1] = cut] /\ rem = [r EXCEPT !.max[1] = cut]
    OBVIOUS
  <2>3. ph = Rect(cut, b, c, d) /\ rem = Rect(a, b, cut, d)
    <3>1. ph = Rect(cut, b, c, d)
      BY ONLY <1>1, <2>2 DEF Rect
    <3>2. rem = Rect(a, b, cut, d)
      BY ONLY <1>1, <2>2 DEF Rect
    <3> QED
      BY <3>1, <3>2
  <2>4. ph.min[1] = cut
    BY <2>3, Corners
  <2>5. scrollerSpace(r, px) = [shape |-> Padded(ph, px), remaining |-> rem]
    BY <1>2, <1>3, <1>6, <2>0, <2>1, <2>2, <2>4, Zenon DEF scrollerSpace
  <2>6. /\ scrollerSpace(r, px).shape = Rect(cut + pp, b + pq, c + -pp, d + -pq)
        /\ scrollerSpace(r, px).remaining = rem
    BY <1>5, <2>3, <2>5
  <2>7. PICK k : gridShape(rem) = Rect(a, k, cut, d)
    <3>1. PICK k : k = (rem.min[2] * 15) \div 2
      OBVIOUS
    <3>2. gridShape(rem) = [rem EXCEPT !.min[2] = k]
      <4>1. growableAxis # 1
        BY <2>1
      <4> QED
        BY <3>1, <4>1, Zenon DEF gridShape
    <3>3. [rem EXCEPT !.min[2] = k] = Rect(a, k, cut, d)
      BY ONLY <2>3 DEF Rect
    <3> QED
      BY <3>2, <3>3, Zenon
  <2>8. PICK s, g : /\ s = Rect(cut + pp, b + pq, c + -pp, d + -pq)
                    /\ g = Rect(a, k, cut, d)
    OBVIOUS
  <2>9. /\ s.min[1] = cut + pp /\ g.min[1] = a /\ g.max[1] = cut
    BY <2>8, Corners
  <2>10. /\ a <= cut + pp /\ cut + pp <= c + -pp /\ c + -pp <= c
         /\ b <= b + pq /\ b + pq <= d + -pq /\ d + -pq <= d
    BY <1>1, <1>2, <1>7, <2>0
  <2>11. Inside(s, r)
    BY <1>1, <2>8, <2>10, InsideRect
  <2>12. IsRect(s)
    BY <2>8 DEF IsRect
  <2>13. Apart(g, s)
    <3>1. g.max[1] <= s.min[1]
      BY <2>9
    <3> QED
      BY <3>1, Zenon DEF Apart
  <2>14. 3 - growableAxis = 1
    BY <2>1
  <2>15. r.min[1] <= g.min[1] /\ g.max[1] <= r.max[1]
    BY <1>1, <1>2, <1>6, <2>0, <2>9
  <2>16. Divided(r, s, g)
    BY <2>11, <2>12, <2>13, <2>14, <2>15, Zenon DEF Divided
  <2> QED
    BY <2>6, <2>7, <2>8, <2>16, Zenon
<1>8. CASE stickness \notin {"Left", "Right"}
  <2>1. growableAxis = 1 /\ scrollerStickness = "Bottom"
    BY <1>8, Zenon DEF growableAxis, scrollerStickness
  <2>0. PICK cut \in Int : cut = b + sq
    OBVIOUS
  <2>2. PICK ph, rem : ph = [r EXCEPT !.max[2] = cut] /\ rem = [r EXCEPT !.min[2] = cut]
    OBVIOUS
  <2>3. ph = Rect(a, b, c, cut) /\ rem = Rect(a, cut, c, d)
    <3>1. ph = Rect(a, b, c, cut)
      BY ONLY <1>1, <2>2 DEF Rect
    <3>2. rem = Rect(a, cut, c, d)
      BY ONLY <1>1, <2>2 DEF Rect
    <3> QED
      BY <3>1, <3>2
  <2>4. ph.max[2] = cut
    BY <2>3, Corners
  <2>5. scrollerSpace(r, px) = [shape |-> Padded(ph, px), remaining |-> rem]
    BY <1>2, <1>3, <1>6, <2>0, <2>1, <2>2, <2>4, Zenon DEF scrollerSpace
  <2>6. /\ scrollerSpace(r, px).shape = Rect(a + pp, b + pq, c + -pp, cut + -pq)
        /\ scrollerSpace(r, px).remaining = rem
    BY <1>5, <2>3, <2>5
  <2>7. PICK k : gridShape(rem) = Rect(a, cut, k, d)
    <3>1. PICK k : k = (rem.max[1] * 15) \div 2
      OBVIOUS
    <3>2. gridShape(rem) = [rem EXCEPT !.max[1] = k]
      BY <2>1, <3>1, Zenon DEF gridShape
    <3>3. [rem EXCEPT !.max[1] = k] = Rect(a, cut, k, d)
      BY ONLY <2>3 DEF Rect
    <3> QED
      BY <3>2, <3>3, Zenon
  <2>8. PICK s, g : /\ s = Rect(a + pp, b + pq, c + -pp, cut + -pq)
                    /\ g = Rect(a, cut, k, d)
    OBVIOUS
  <2>9. /\ s.max[2] = cut + -pq /\ g.min[2] = cut /\ g.max[2] = d
    BY <2>8, Corners
  <2>10. /\ a <= a + pp /\ a + pp <= c + -pp /\ c + -pp <= c
         /\ b <= b + pq /\ b + pq <= cut + -pq /\ cut + -pq <= d
    BY <1>1, <1>2, <1>8, <2>0
  <2>11. Inside(s, r)
    BY <1>1, <2>8, <2>10, InsideRect
  <2>12. IsRect(s)
    BY <2>8 DEF IsRect
  <2>13. Apart(g, s)
    <3>1. s.max[2] <= g.min[2]
      BY <2>9
    <3> QED
      BY <3>1, Zenon DEF Apart
  <2>14. 3 - growableAxis = 2
    BY <2>1
  <2>15. r.min[2] <= g.min[2] /\ g.max[2] <= r.max[2]
    BY <1>1, <1>2, <1>6, <2>0, <2>9
  <2>16. Divided(r, s, g)
    BY <2>11, <2>12, <2>13, <2>14, <2>15, Zenon DEF Divided
  <2> QED
    BY <2>6, <2>7, <2>8, <2>16, Zenon
<1> QED
  BY <1>7, <1>8

\* The window is resized: the panel keeps its space, and divides it again.
LEMMA ResizeLayoutInv ==
    ASSUME LayoutInv, NEW w \in Widths, NEW h \in Heights, viewportEvent(pixelSizeOf(w, h))
    PROVE  LayoutInv'
<1> DEFINE px == pixelSizeOf(w, h)
           taken == IF setupDone THEN shape["panel"] ELSE panelShape(Window)
           scroller == scrollerSpace(taken, px)
           grid == gridShape(scroller.remaining)
<1>1. PICK knob, gm :
         /\ setupDone' = TRUE
         /\ shape' = [panel |-> taken, scroller |-> scroller.shape, handle |-> knob, grid |-> grid]
         /\ geometry' = [panel |-> Moved(taken, matrix["panel"]),
                         scroller |-> Moved(scroller.shape, matrix["scroller"]),
                         handle |-> Moved(knob, matrix["handle"]),
                         grid |-> gm]
         /\ UNCHANGED <<stickness, matrix, scrolled, propagated>>
  BY Zenon DEF viewportEvent
<1>2. PICK p \in Nat, q \in Nat :
         /\ px = <<p, q>>
         /\ (ScrollerPx + 2 * PaddingPx) * p < PanelThickness
         /\ (ScrollerPx + 2 * PaddingPx) * q < PanelThickness
  <2>1. w \in Widths \cup Heights /\ h \in Widths \cup Heights
    OBVIOUS
  <2> QED
    BY <2>1, PixelsFit, Zenon DEF pixelSizeOf
<1>3. OnSide(stickness, taken)
  BY PanelTakesItsSide, Zenon DEF LayoutInv
<1>4. Divided(taken, scroller.shape, grid)
  BY <1>2, <1>3, PanelIsDivided, Zenon
<1>5. IsRect(taken) /\ Inside(taken, Window)
  BY <1>3, PanelIsInside, Zenon
<1> HIDE DEF taken, scroller, grid, px
<1>6. /\ shape'["panel"] = taken /\ shape'["scroller"] = scroller.shape
      /\ shape'["handle"] = knob /\ shape'["grid"] = grid
      /\ geometry'["panel"] = Moved(taken, matrix["panel"])
      /\ geometry'["scroller"] = Moved(scroller.shape, matrix["scroller"])
      /\ geometry'["handle"] = Moved(knob, matrix["handle"])
      /\ DOMAIN geometry' = Widgets
  BY <1>1 DEF Widgets
<1>7. SpaceIsDivided'
  BY <1>1, <1>4, <1>5, <1>6, Zenon DEF SpaceIsDivided, Divided, growableAxis
<1>8. MovedTogether'
  BY <1>1, Zenon DEF LayoutInv, MovedTogether
<1>9. HoveredWhereDrawn'
  <2>1. \A v \in Widgets \ {"grid"} : geometry'[v] = Moved(shape'[v], matrix'[v])
    BY <1>1, <1>6, Zenon DEF Widgets
  <2>2. ASSUME propagated PROVE Inside(geometry'["scroller"], geometry'["panel"])
    <3>1. PICK x \in Int, y \in Int : matrix["panel"] = <<x, y>> /\ matrix["scroller"] = <<x, y>>
      BY <2>2 DEF LayoutInv, MovedTogether
    <3>2. IsRect(scroller.shape) /\ Inside(scroller.shape, taken)
      BY <1>4 DEF Divided
    <3>3. Inside(Moved(scroller.shape, <<x, y>>), Moved(taken, <<x, y>>))
      BY <1>5, <3>2, InsideMoved, Zenon
    <3> QED
      BY <1>6, <3>1, <3>3, Zenon
  <2>3. propagated => matrix["handle"] = Plus(matrix["panel"], scrolled["handle"])
    BY DEF LayoutInv, HoveredWhereDrawn
  <2> QED
    BY <1>1, <2>1, <2>2, <2>3, Zenon DEF HoveredWhereDrawn
<1>10. OnSide(stickness', shape'["panel"]) /\ IsRect(shape'["scroller"])
  <2>1. PICK r : r = taken
    OBVIOUS
  <2>2. shape'["panel"] = r /\ OnSide(stickness, r)
    BY <1>3, <1>6, <2>1, Zenon
  <2>3. OnSide(stickness', shape'["panel"])
    BY <1>1, <2>2, Zenon
  <2>4. IsRect(shape'["scroller"])
    BY <1>4, <1>6, Zenon DEF Divided
  <2> QED
    BY <2>3, <2>4
<1>11. stickness' \in StickTo /\ DOMAIN matrix' = {"panel", "scroller", "handle"}
  BY <1>1 DEF LayoutInv
<1> QED
  BY <1>6, <1>7, <1>8, <1>9, <1>10, <1>11, Zenon DEF LayoutInv

\* The places a panel may be moved to.
LEMMA PositionIsPair ==
    ASSUME stickness \in StickTo, NEW pos \in Positions
    PROVE  \E x, y \in Int : pos = <<x, y>>
<1>1. PICK t \in Int, n \in Int : t = PanelThickness /\ n = -PanelThickness
  BY LayoutAssumption
<1>2. PICK x \in Int, y \in Int : collapsedTransform = <<x, y>>
  <2>0. 0 \in Int
    OBVIOUS
  <2>1. CASE stickness = "Left"
    BY <1>1, <2>0, <2>1, Zenon DEF collapsedTransform
  <2>2. CASE stickness = "Right"
    BY <1>1, <2>0, <2>2, Zenon DEF collapsedTransform
  <2>3. CASE stickness = "Top"
    BY <1>1, <2>0, <2>3, Zenon DEF collapsedTransform
  <2>4. CASE stickness = "Bottom"
    BY <1>1, <2>0, <2>4, Zenon DEF collapsedTransform
  <2> QED
    BY <2>1, <2>2, <2>3, <2>4 DEF StickTo
<1>3. PICK c : c = collapsedTransform
  OBVIOUS
<1>4. c[1] = x /\ c[2] = y
  BY <1>2, <1>3
<1>5. pos \in {c, <<0, 0>>, <<c[1] \div 2, c[2] \div 2>>}
  BY <1>3, Zenon DEF Positions, Origin
<1>6. x \div 2 \in Int /\ y \div 2 \in Int /\ 0 \in Int
  OBVIOUS
<1> QED
  BY <1>2, <1>3, <1>4, <1>5, <1>6, Zenon

\* What is said of the shapes stays true if they do.
LEMMA SameSides ==
    ASSUME LayoutInv, UNCHANGED <<stickness, setupDone, shape>>
    PROVE  /\ SpaceIsDivided'
           /\ setupDone' => OnSide(stickness', shape'["panel"]) /\ IsRect(shape'["scroller"])
<1>1. SpaceIsDivided'
  BY DEF LayoutInv, SpaceIsDivided, growableAxis
<1>2. stickness' = stickness /\ setupDone' = setupDone /\ shape' = shape
  OBVIOUS
<1>3. setupDone => OnSide(stickness, shape["panel"]) /\ IsRect(shape["scroller"])
  BY Zenon DEF LayoutInv
<1>4. setupDone' => OnSide(stickness', shape'["panel"]) /\ IsRect(shape'["scroller"])
  BY ONLY <1>2, <1>3, Zenon
<1> QED
  BY <1>1, <1>4

\* The panel moves, and its inner widgets with it.
LEMMA SlideLayoutInv ==
    ASSUME LayoutInv, NEW pos \in Positions, onAnimationProgress(pos)
    PROVE  LayoutInv'
<1>1. PICK gm, hm :
         /\ hm = Plus(pos, scrolled["handle"])
         /\ setupDone
         /\ matrix' = [panel |-> pos, scroller |-> pos, handle |-> hm]
         /\ propagated' = TRUE
         /\ geometry' = [panel |-> Moved(shape["panel"], pos),
                         scroller |-> Moved(shape["scroller"], pos),
                         handle |-> Moved(shape["handle"], hm),
                         grid |-> gm]
         /\ UNCHANGED <<stickness, setupDone, shape, scrolled>>
  <2>1. PICK m1 : m1 = [panel |-> pos, scroller |-> pos, handle |-> handlePlace(pos, scrolled["handle"])]
    OBVIOUS
  <2>2. m1["handle"] = handlePlace(pos, scrolled["handle"])
    BY <2>1
  <2> QED
    BY <2>1, <2>2, Zenon DEF onAnimationProgress, handlePlace
<1>2. PICK x \in Int, y \in Int : pos = <<x, y>>
  BY PositionIsPair DEF LayoutInv
<1>3. /\ matrix'["panel"] = pos /\ matrix'["scroller"] = pos /\ matrix'["handle"] = hm
      /\ DOMAIN matrix' = {"panel", "scroller", "handle"}
      /\ geometry'["panel"] = Moved(shape["panel"], pos)
      /\ geometry'["scroller"] = Moved(shape["scroller"], pos)
      /\ geometry'["handle"] = Moved(shape["handle"], hm)
      /\ DOMAIN geometry' = Widgets
  BY <1>1 DEF Widgets
<1>4. MovedTogether'
  BY <1>1, <1>2, <1>3, Zenon DEF MovedTogether
<1>5. SpaceIsDivided'
  BY <1>1, SameSides
<1>6. HoveredWhereDrawn'
  <2>1. \A v \in Widgets \ {"grid"} : geometry'[v] = Moved(shape'[v], matrix'[v])
    BY <1>1, <1>3, Zenon DEF Widgets
  <2>2. Inside(geometry'["scroller"], geometry'["panel"])
    <3>1. /\ IsRect(shape["scroller"]) /\ IsRect(shape["panel"])
          /\ Inside(shape["scroller"], shape["panel"])
      BY <1>1, PanelIsInside, Zenon DEF LayoutInv, SpaceIsDivided
    <3>2. Inside(Moved(shape["scroller"], pos), Moved(shape["panel"], pos))
      BY <1>2, <3>1, InsideMoved, Zenon
    <3> QED
      BY <1>3, <3>2, Zenon
  <2> QED
    BY <1>1, <1>3, <2>1, <2>2, Zenon DEF HoveredWhereDrawn
<1>7. setupDone' => OnSide(stickness', shape'["panel"]) /\ IsRect(shape'["scroller"])
  BY <1>1, SameSides
<1> QED
  BY <1>1, <1>3, <1>4, <1>5, <1>6, <1>7, Zenon DEF LayoutInv

\* The handle is scrolled in its placeholder.
LEMMA HandleLayoutInv ==
    ASSUME LayoutInv, NEW k \in 0..2, Scroll(k)
    PROVE  LayoutInv'
<1>1. PICK tr, gs, hm :
         /\ hm = Plus(matrix["panel"], tr)
         /\ propagated
         /\ scrolled' = [handle |-> tr, grid |-> gs]
         /\ matrix' = [matrix EXCEPT !["handle"] = hm]
         /\ geometry' = [geometry EXCEPT !["handle"] = Moved(shape["handle"], matrix'["handle"])]
         /\ UNCHANGED <<stickness, setupDone, shape, propagated>>
  BY Zenon DEF Scroll, handlePlace
<1>2. DOMAIN matrix = {"panel", "scroller", "handle"} /\ DOMAIN geometry = Widgets
  BY DEF LayoutInv
<1>3. /\ matrix'["panel"] = matrix["panel"] /\ matrix'["scroller"] = matrix["scroller"]
      /\ matrix'["handle"] = hm /\ DOMAIN matrix' = {"panel", "scroller", "handle"}
      /\ scrolled'["handle"] = tr
  BY <1>1, <1>2
<1>4. /\ geometry'["panel"] = geometry["panel"] /\ geometry'["scroller"] = geometry["scroller"]
      /\ geometry'["handle"] = Moved(shape["handle"], hm) /\ DOMAIN geometry' = Widgets
  BY <1>1, <1>2, <1>3 DEF Widgets
<1>5. MovedTogether'
  BY <1>1, <1>3, Zenon DEF LayoutInv, MovedTogether
<1>6. SpaceIsDivided'
  BY <1>1, SameSides
<1>7. HoveredWhereDrawn'
  <2>1. setupDone => \A v \in Widgets \ {"grid"} : geometry'[v] = Moved(shape'[v], matrix'[v])
    <3>1. setupDone => /\ geometry["panel"] = Moved(shape["panel"], matrix["panel"])
                       /\ geometry["scroller"] = Moved(shape["scroller"], matrix["scroller"])
      BY DEF LayoutInv, HoveredWhereDrawn, Widgets
    <3> QED
      BY <1>1, <1>3, <1>4, <3>1, Zenon DEF Widgets
  <2>2. Inside(geometry'["scroller"], geometry'["panel"])
    BY <1>1, <1>4, Zenon DEF LayoutInv, HoveredWhereDrawn
  <2> QED
    BY <1>1, <1>3, <2>1, <2>2, Zenon DEF HoveredWhereDrawn
<1>8. setupDone' => OnSide(stickness', shape'["panel"]) /\ IsRect(shape'["scroller"])
  BY <1>1, SameSides
<1> QED
  BY <1>1, <1>3, <1>4, <1>5, <1>6, <1>7, <1>8, Zenon DEF LayoutInv

\* Nothing is laid out at first.
LEMMA InitLayoutInv == LayoutInit => LayoutInv
<1> SUFFICES ASSUME LayoutInit PROVE LayoutInv
  OBVIOUS
<1>1. stickness \in StickTo
  BY LayoutAssumption DEF LayoutInit
<1>2. DOMAIN matrix = {"panel", "scroller", "handle"} /\ DOMAIN geometry = Widgets
  BY DEF LayoutInit, Widgets
<1>3. setupDone = FALSE /\ propagated = FALSE
  BY DEF LayoutInit
<1> QED
  BY <1>1, <1>2, <1>3, Zenon DEF LayoutInv, MovedTogether, SpaceIsDivided, HoveredWhereDrawn

\* What the invariant is about is kept by every step.
LEMMA StepLayoutInv == LayoutInv /\ [LayoutNext]_layoutVars => LayoutInv'
<1> SUFFICES ASSUME LayoutInv, [LayoutNext]_layoutVars PROVE LayoutInv'
  OBVIOUS
<1>1. CASE UNCHANGED layoutVars
  <2>1. UNCHANGED <<stickness, setupDone, shape, geometry, matrix, scrolled, propagated>>
    BY <1>1 DEF layoutVars
  <2>2. MovedTogether' /\ HoveredWhereDrawn'
    BY <2>1 DEF LayoutInv, MovedTogether, HoveredWhereDrawn
  <2>3. SpaceIsDivided'
    BY <2>1, SameSides
  <2>4. setupDone' => OnSide(stickness', shape'["panel"]) /\ IsRect(shape'["scroller"])
    BY <2>1, SameSides
  <2> QED
    BY <2>1, <2>2, <2>3, <2>4, Zenon DEF LayoutInv
<1> QED
  BY <1>1, ResizeLayoutInv, SlideLayoutInv, HandleLayoutInv DEF LayoutNext

\* The layout's invariant: the panel keeps its side of the window, and scroller
\* and panel move together.
THEOREM LayoutInvariance == LayoutSpec => []LayoutInv
BY InitLayoutInv, StepLayoutInv, PTL DEF LayoutSpec

\* SpaceIsDivided for windows of any sizes, pixels and paddings that leave room
\* for a scroller, panels of any thickness on every side: no resize has the
\* scroller leave its panel or the content lie beneath it.
THEOREM SpaceIsAlwaysDivided == LayoutSpec => []SpaceIsDivided
<1>1. LayoutInv => SpaceIsDivided
  BY DEF LayoutInv
<1> QED
  BY <1>1, LayoutInvariance, PTL

\* HoveredWhereDrawn, likewise: whatever resized, moved or scrolled them last,
\* panel, scroller and handle react to the cursor where they are seen.
THEOREM AlwaysHoveredWhereDrawn == LayoutSpec => []HoveredWhereDrawn
<1>1. LayoutInv => HoveredWhereDrawn
  BY DEF LayoutInv
<1> QED
  BY <1>1, LayoutInvariance, PTL
-----------------------------------------------------------------------------
(* The looks of what is hovered.                                          *)

\* What was last drawn is a moment of the animation, not later than its present.
WasOnWay(a, m) == \E e \in 0..a.elapsed : m = Lerp(a.from, a.to, e, Duration)

\* The text's animation is known from what was shown while the cursor entered
\* or left at most once since the last frame.
TextInv ==
    /\ IsAnimator(text) /\ textMatrix \in Int /\ reached \in Int /\ turns \in Nat
    /\ turns = 0 => reached = text.current
    /\ text.playing /\ turns = 0 => WasOnWay(text, textMatrix)
    /\ text.playing /\ turns = 1 => text.elapsed = 0 /\ text.from = reached

ButtonInv ==
    /\ IsAnimator(button) /\ buttonMatrix \in Int
    /\ button.playing => WasOnWay(button, buttonMatrix)

LooksInv == TextInv /\ ButtonInv

\* An animation that starts has come nowhere yet.
LEMMA StartsOnWay ==
    ASSUME NEW m \in Int, NEW t \in Int, NEW a, a = UpdateAnimationAndPlay(m, t, 0)
    PROVE  /\ IsAnimator(a) /\ WasOnWay(a, m)
           /\ a.playing /\ a.elapsed = 0 /\ a.from = m /\ a.to = t
<1>1. Duration \in Nat \ {0} /\ 0 \in 0..Duration /\ 0 \in 0..0 /\ 0 \in Int
  BY AnimatorAssumption
<1>2. PICK yes \in BOOLEAN : yes = TRUE
  BY Zenon
<1>3. a = [playing |-> yes, elapsed |-> 0, from |-> m, to |-> t, current |-> 0]
  BY <1>2, Zenon DEF UpdateAnimationAndPlay
<1>4. IsAnimator(a) /\ a.playing = yes /\ a.elapsed = 0 /\ a.from = m /\ a.to = t
  BY ONLY <1>1, <1>3, yes \in BOOLEAN, m \in Int, t \in Int, MadeAnimator
<1>5. Lerp(m, t, 0, Duration) = m
  BY <1>1, LerpAtStart
<1>6. WasOnWay(a, m)
  BY <1>1, <1>4, <1>5, Zenon DEF WasOnWay
<1> QED
  BY <1>2, <1>4, <1>6, Zenon

\* A frame: what is drawn is where the animation is, or what was drawn before.
LEMMA FrameOfAnimator ==
    ASSUME NEW a, IsAnimator(a), NEW m \in Int, NEW ticks \in FrameTimes,
           NEW a1, a1 = Advanced(a, Duration, LerpInt(a, Duration)),
           NEW b, b = NextFrame(a1, ticks, Duration),
           NEW n, n = IF a1.playing THEN a1.current ELSE m
    PROVE  /\ IsAnimator(b) /\ n \in Int /\ a1.current \in Int
           /\ b.current = a1.current
           /\ b.playing => WasOnWay(b, n)
           /\ \/ n = m
              \/ a.playing /\ n = Lerp(a.from, a.to, a.elapsed, Duration)
<1> DEFINE between == Lerp(a.from, a.to, a.elapsed, Duration)
<1>1. ticks \in Nat \ {0} /\ a.elapsed \in Nat /\ a.elapsed <= Duration /\ a.playing \in BOOLEAN
      /\ Duration \in Nat \ {0}
  BY AnimatorAssumption DEF IsAnimator
<1>2. /\ IsAnimator(a1)
      /\ ~a.playing => a1 = a
      /\ a.playing /\ a.elapsed < Duration =>
            /\ a1.playing /\ a1.current = between
            /\ a1.from = a.from /\ a1.to = a.to /\ a1.elapsed = a.elapsed
      /\ a.playing /\ a.elapsed = Duration => ~a1.playing /\ a1.current = a.to
  BY Advances, Zenon
<1> HIDE DEF between
<1>3. /\ IsAnimator(b)
      /\ b.playing = a1.playing /\ b.from = a1.from /\ b.to = a1.to /\ b.current = a1.current
      /\ a1.playing => a1.elapsed <= b.elapsed
  BY ONLY <1>1, <1>2, b = NextFrame(a1, ticks, Duration), TimePasses, Zenon
<1>4. a1.current \in Int
  BY <1>2, Zenon DEF IsAnimator
<1>5. n \in Int
  BY <1>4, Zenon
<1>6. CASE a.playing /\ a.elapsed < Duration
  <2>1. n = between /\ b.from = a.from /\ b.to = a.to /\ a.elapsed <= b.elapsed
    BY <1>2, <1>3, <1>6, Zenon
  <2>2. b.elapsed \in Nat
    BY <1>3, <1>1 DEF IsAnimator
  <2>3. a.elapsed \in 0..b.elapsed
    BY <1>1, <2>1, <2>2
  <2>4. n = Lerp(b.from, b.to, a.elapsed, Duration)
    BY <2>1, Zenon DEF between
  <2>5. WasOnWay(b, n)
    BY <2>3, <2>4, Zenon DEF WasOnWay
  <2> QED
    BY <1>3, <1>4, <1>5, <1>6, <2>1, <2>5, Zenon DEF between
<1>7. CASE ~(a.playing /\ a.elapsed < Duration)
  <2>1. ~a.playing \/ a.elapsed = Duration
    BY <1>1, <1>7
  <2>2. ~a1.playing
    BY <1>2, <2>1, Zenon
  <2> QED
    BY <1>3, <1>4, <1>5, <2>2, Zenon
<1> QED
  BY <1>6, <1>7

\* From what was drawn an animation goes on towards its end.
LEMMA GoesOn ==
    ASSUME NEW a, IsAnimator(a), NEW m \in Int, WasOnWay(a, m),
           NEW x, x = Lerp(a.from, a.to, a.elapsed, Duration)
    PROVE  x \in Int /\ ((m <= x /\ x <= a.to) \/ (a.to <= x /\ x <= m))
<1>1. PICK d \in 0..a.elapsed : m = Lerp(a.from, a.to, d, Duration)
  BY Zenon DEF WasOnWay
<1>2. PICK f \in Int, t \in Int, e \in Nat :
         f = a.from /\ t = a.to /\ e = a.elapsed /\ e <= Duration
  BY AnimatorAssumption DEF IsAnimator
<1>3. m = Lerp(f, t, d, Duration) /\ x = Lerp(f, t, e, Duration)
  BY <1>1, <1>2, Zenon
<1>4. d \in Nat /\ d <= e /\ Duration \in Nat \ {0}
  BY <1>2, AnimatorAssumption
<1>5. /\ x \in Int
      /\ f <= t => m <= x /\ x <= t
      /\ t <= f => x <= m /\ t <= x
  BY ONLY <1>2, <1>3, <1>4, f \in Int, t \in Int, e \in Nat, LerpOnTheWay
<1>6. f <= t \/ t <= f
  OBVIOUS
<1> QED
  BY <1>2, <1>5, <1>6, Zenon

\* The cursor enters or leaves the text.
LEMMA HoverTextInv ==
    ASSUME LooksInv, HoverText
    PROVE  LooksInv' /\ textMatrix' = textMatrix /\ buttonMatrix' = buttonMatrix
<1>1. /\ text' = UpdateAnimationAndPlay(text.current, TextTarget(textHovered'), 0)
      /\ turns' = turns + 1 /\ textMatrix' = textMatrix /\ reached' = reached
      /\ button' = button /\ buttonMatrix' = buttonMatrix
  BY Zenon DEF HoverText, buttonVars
<1>2. /\ IsAnimator(text) /\ textMatrix \in Int /\ reached \in Int /\ turns \in Nat
      /\ turns = 0 => reached = text.current
      /\ text.current \in Int
  BY Zenon DEF LooksInv, TextInv, IsAnimator
<1>3. TextTarget(textHovered') \in Int
  BY HoverLooksAssumption DEF TextTarget
<1>4. PICK t \in Int : t = TextTarget(textHovered')
  BY <1>3, Zenon
<1>5. IsAnimator(text') /\ text'.elapsed = 0 /\ text'.from = text.current
  <2>1. PICK b, m : b = text' /\ m = text.current
    OBVIOUS
  <2>2. m \in Int
    BY <1>2, <2>1
  <2>3. text' = UpdateAnimationAndPlay(text.current, t, 0)
    BY <1>1, <1>4, Zenon
  <2>4. IsAnimator(b)
    BY <1>4, <2>1, <2>2, <2>3, StartsOnWay, Zenon
  <2>5. b.elapsed = 0 /\ b.from = m
    BY <2>1, <2>3, Zenon DEF UpdateAnimationAndPlay
  <2> QED
    BY <2>1, <2>4, <2>5, Zenon
<1>6. turns' \in Nat /\ turns' # 0 /\ (turns' = 1 => turns = 0)
  BY <1>1, <1>2
<1>7. TextInv'
  BY <1>1, <1>2, <1>5, <1>6, Zenon DEF TextInv, IsAnimator
<1>8. ButtonInv'
  BY <1>1, Zenon DEF LooksInv, ButtonInv, IsAnimator, WasOnWay
<1> QED
  BY <1>1, <1>7, <1>8, Zenon DEF LooksInv

\* An animation of the button starts where the button is drawn.
LEMMA ButtonStarts ==
    ASSUME LooksInv, NEW hov, NEW tog,
           \/ button' = button
           \/ button' = Animate(hov, tog),
           UNCHANGED <<buttonMatrix, textVars>>
    PROVE  LooksInv' /\ textMatrix' = textMatrix /\ buttonMatrix' = buttonMatrix
<1>1. /\ buttonMatrix' = buttonMatrix /\ textMatrix' = textMatrix /\ text' = text
      /\ turns' = turns /\ reached' = reached
  BY Zenon DEF textVars
<1>2. TextInv'
  BY <1>1, Zenon DEF LooksInv, TextInv, IsAnimator, WasOnWay
<1>3. IsAnimator(button) /\ buttonMatrix \in Int /\ (button.playing => WasOnWay(button, buttonMatrix))
  BY Zenon DEF LooksInv, ButtonInv
<1>4. CASE button' = button
  BY <1>1, <1>2, <1>3, <1>4, Zenon DEF LooksInv, ButtonInv, IsAnimator, WasOnWay
<1>5. CASE button' = Animate(hov, tog)
  <2>1. PICK t : t = updateAnimationYTarget(hov, tog)
    OBVIOUS
  <2>2. t \in Int
    BY <2>1, HoverLooksAssumption DEF updateAnimationYTarget
  <2>3. button' = UpdateAnimationAndPlay(buttonMatrix, t, 0)
    BY <1>5, <2>1, Zenon DEF Animate
  <2>4. PICK b, m : b = button' /\ m = buttonMatrix
    OBVIOUS
  <2>5. IsAnimator(b) /\ WasOnWay(b, m)
    BY <1>3, <2>2, <2>3, <2>4, StartsOnWay, Zenon
  <2>6. ButtonInv'
    BY <1>1, <1>3, <2>4, <2>5, Zenon DEF ButtonInv, IsAnimator, WasOnWay
  <2> QED
    BY <1>1, <1>2, <2>6, Zenon DEF LooksInv
<1> QED
  BY <1>4, <1>5

\* A frame draws both widgets.
LEMMA DrawLooksInv ==
    ASSUME LooksInv, NEW ticks \in FrameTimes, DrawLooks(ticks)
    PROVE  /\ LooksInv'
           /\ \/ textMatrix' = textMatrix
              \/ text.playing /\ textMatrix' = Lerp(text.from, text.to, text.elapsed, Duration)
           /\ \/ buttonMatrix' = buttonMatrix
              \/ button.playing /\ buttonMatrix' = Lerp(button.from, button.to, button.elapsed, Duration)
<1>1. PICK t1, b1 : /\ t1 = Advanced(text, Duration, LerpInt(text, Duration))
                    /\ b1 = Advanced(button, Duration, LerpInt(button, Duration))
  OBVIOUS
<1>2. /\ textMatrix' = LooksProgress(t1, textMatrix)
      /\ buttonMatrix' = LooksProgress(b1, buttonMatrix)
      /\ text' = NextFrame(t1, ticks, Duration) /\ button' = NextFrame(b1, ticks, Duration)
      /\ turns' = 0 /\ reached' = t1.current
  BY <1>1, Zenon DEF DrawLooks, LerpText
<1>3. /\ textMatrix' = IF t1.playing THEN t1.current ELSE textMatrix
      /\ buttonMatrix' = IF b1.playing THEN b1.current ELSE buttonMatrix
  BY <1>2, Zenon DEF LooksProgress, IsPlaying
<1>4. IsAnimator(text) /\ textMatrix \in Int /\ IsAnimator(button) /\ buttonMatrix \in Int
  BY Zenon DEF LooksInv, TextInv, ButtonInv
<1>5. PICK t, tm, b, bm : t = text' /\ tm = textMatrix' /\ b = button' /\ bm = buttonMatrix'
  OBVIOUS
<1>6. /\ IsAnimator(t) /\ tm \in Int /\ t1.current \in Int /\ t.current = t1.current
      /\ t.playing => WasOnWay(t, tm)
      /\ \/ tm = textMatrix
         \/ text.playing /\ tm = Lerp(text.from, text.to, text.elapsed, Duration)
  <2>1. PICK a, k : a = text /\ k = textMatrix
    OBVIOUS
  <2>2. /\ IsAnimator(a) /\ k \in Int
        /\ t1 = Advanced(a, Duration, LerpInt(a, Duration))
        /\ t = NextFrame(t1, ticks, Duration)
        /\ tm = IF t1.playing THEN t1.current ELSE k
    BY <1>1, <1>2, <1>3, <1>4, <1>5, <2>1, Zenon
  <2> QED
    BY <2>1, <2>2, FrameOfAnimator
<1>7. /\ IsAnimator(b) /\ bm \in Int
      /\ b.playing => WasOnWay(b, bm)
      /\ \/ bm = buttonMatrix
         \/ button.playing /\ bm = Lerp(button.from, button.to, button.elapsed, Duration)
  <2>1. PICK a, k : a = button /\ k = buttonMatrix
    OBVIOUS
  <2>2. /\ IsAnimator(a) /\ k \in Int
        /\ b1 = Advanced(a, Duration, LerpInt(a, Duration))
        /\ b = NextFrame(b1, ticks, Duration)
        /\ bm = IF b1.playing THEN b1.current ELSE k
    BY <1>1, <1>2, <1>3, <1>4, <1>5, <2>1, Zenon
  <2> QED
    BY <2>1, <2>2, FrameOfAnimator
<1>8. 0 \in Nat /\ 0 # 1
  OBVIOUS
<1>9. TextInv'
  BY <1>2, <1>5, <1>6, <1>8, Zenon DEF TextInv, IsAnimator, WasOnWay
<1>10. ButtonInv'
  BY <1>5, <1>7, Zenon DEF ButtonInv, IsAnimator, WasOnWay
<1> QED
  BY <1>5, <1>6, <1>7, <1>9, <1>10, Zenon DEF LooksInv

\* Every step, and what it may draw.
LEMMA StepLooks ==
    ASSUME LooksInv, [LooksNext]_looksVars
    PROVE  /\ LooksInv'
           /\ \/ textMatrix' = textMatrix
              \/ text.playing /\ textMatrix' = Lerp(text.from, text.to, text.elapsed, Duration)
           /\ \/ buttonMatrix' = buttonMatrix
              \/ button.playing /\ buttonMatrix' = Lerp(button.from, button.to, button.elapsed, Duration)
<1>1. CASE HoverText
  BY <1>1, HoverTextInv, Zenon
<1>2. CASE HoverButton
  <2>1. /\ button' = button \/ button' = Animate(isHovered', buttonToggled)
        /\ UNCHANGED <<buttonMatrix, textVars>>
    BY <1>2, Zenon DEF HoverButton
  <2> QED
    BY <2>1, ButtonStarts, Zenon
<1>3. CASE PressButton
  <2>1. button' = button /\ UNCHANGED <<buttonMatrix, textVars>>
    BY <1>3, Zenon DEF PressButton
  <2> QED
    BY <2>1, ButtonStarts, Zenon
<1>4. CASE ReleaseButton
  <2>1. /\ button' = Animate(isHovered, buttonToggled')
        /\ UNCHANGED <<buttonMatrix, textVars>>
    BY <1>4, Zenon DEF ReleaseButton
  <2> QED
    BY <2>1, ButtonStarts, Zenon
<1>5. ASSUME NEW ticks \in FrameTimes, DrawLooks(ticks)
      PROVE  /\ LooksInv'
             /\ \/ textMatrix' = textMatrix
                \/ text.playing /\ textMatrix' = Lerp(text.from, text.to, text.elapsed, Duration)
             /\ \/ buttonMatrix' = buttonMatrix
                \/ /\ button.playing
                   /\ buttonMatrix' = Lerp(button.from, button.to, button.elapsed, Duration)
  BY <1>5, DrawLooksInv, Zenon
<1>6. CASE UNCHANGED looksVars
  <2>1. button' = button /\ UNCHANGED <<buttonMatrix, textVars>>
    BY <1>6, Zenon DEF looksVars, buttonVars, textVars
  <2> QED
    BY <2>1, ButtonStarts, Zenon
<1> QED
  BY <1>1, <1>2, <1>3, <1>4, <1>5, <1>6, Zenon DEF LooksNext

\* Both widgets are at rest at first.
LEMMA InitLooks == LooksInit => LooksInv
<1> SUFFICES ASSUME LooksInit PROVE LooksInv
  OBVIOUS
<1>1. /\ text = NewAnimator(0) /\ textMatrix = 0 /\ button = NewAnimator(0) /\ buttonMatrix = 0
      /\ turns = 0 /\ reached = 0
  BY Zenon DEF LooksInit
<1>2. /\ IsAnimator(text) /\ ~text.playing /\ text.current = 0
      /\ IsAnimator(button) /\ ~button.playing
  BY <1>1, FirstAnimator
<1>3. 0 \in Int /\ 0 \in Nat
  OBVIOUS
<1> QED
  BY <1>1, <1>2, <1>3, Zenon DEF LooksInv, TextInv, ButtonInv

\* What is drawn next is on the way from what is drawn now.
LEMMA LooksOnTheWay ==
    ASSUME LooksInv, [LooksNext]_looksVars
    PROVE  LET textWay == {textMatrix, reached, text.to}
               buttonWay == {buttonMatrix, button.to}
           IN  /\ buttonMatrix' \in Min(buttonWay)..Max(buttonWay)
               /\ turns <= 1 => textMatrix' \in Min(textWay)..Max(textWay)
<1>1. /\ \/ textMatrix' = textMatrix
         \/ text.playing /\ textMatrix' = Lerp(text.from, text.to, text.elapsed, Duration)
      /\ \/ buttonMatrix' = buttonMatrix
         \/ button.playing /\ buttonMatrix' = Lerp(button.from, button.to, button.elapsed, Duration)
  BY StepLooks, Zenon
<1>2. PICK m \in Int, t \in Int, r \in Int, k \in Int, u \in Int :
         /\ m = textMatrix /\ t = text.to /\ r = reached /\ k = buttonMatrix /\ u = button.to
         /\ IsAnimator(text) /\ IsAnimator(button) /\ turns \in Nat
  BY Zenon DEF LooksInv, TextInv, ButtonInv, IsAnimator
<1>3. PICK x, y : x = textMatrix' /\ y = buttonMatrix'
  OBVIOUS
<1>4. y \in Int /\ ((k <= y /\ y <= u) \/ (u <= y /\ y <= k) \/ y = k)
  <2>1. CASE y = k
    BY <2>1, Zenon
  <2>2. CASE y # k
    <3>1. /\ WasOnWay(button, k)
          /\ y = Lerp(button.from, button.to, button.elapsed, Duration)
      BY <1>1, <1>2, <1>3, <2>2, Zenon DEF LooksInv, ButtonInv
    <3> QED
      BY <1>2, <3>1, GoesOn, Zenon
  <2> QED
    BY <2>1, <2>2
<1>5. y \in Min({k, u})..Max({k, u})
  <2>1. {k, u} = {k, u, k, u} /\ k \in {k, u} /\ u \in {k, u} /\ k <= k
    OBVIOUS
  <2>2. PICK S : S = {k, u}
    OBVIOUS
  <2>3. \E p, q \in S : p <= y /\ y <= q
    BY <1>4, <2>1, <2>2, Zenon
  <2>4. y \in Min(S)..Max(S)
    BY ONLY <1>4, <2>1, <2>2, <2>3, k \in Int, u \in Int, MinMaxOfFour
  <2> QED
    BY <2>2, <2>4, Zenon
<1>6. ASSUME turns <= 1
      PROVE  x \in Min({m, r, t})..Max({m, r, t})
  <2>1. {m, r, t} = {m, r, t, t} /\ m \in {m, r, t} /\ r \in {m, r, t} /\ t \in {m, r, t}
        /\ m <= m /\ r <= r
    OBVIOUS
  <2>2. PICK S : S = {m, r, t}
    OBVIOUS
  <2>3. x \in Int /\ \E p, q \in S : p <= x /\ x <= q
    <3>1. CASE x = m
      BY <2>1, <2>2, <3>1, Zenon
    <3>2. CASE x # m /\ turns = 0
      <4>1. WasOnWay(text, m) /\ x = Lerp(text.from, text.to, text.elapsed, Duration)
        BY <1>1, <1>2, <1>3, <3>2, Zenon DEF LooksInv, TextInv
      <4>2. x \in Int /\ ((m <= x /\ x <= t) \/ (t <= x /\ x <= m))
        BY <1>2, <4>1, GoesOn, Zenon
      <4> QED
        BY <2>1, <2>2, <4>2, Zenon
    <3>3. CASE x # m /\ turns = 1
      <4>1. text.elapsed = 0 /\ text.from = r /\ x = Lerp(text.from, text.to, text.elapsed, Duration)
        BY <1>1, <1>2, <1>3, <3>3, Zenon DEF LooksInv, TextInv
      <4>2. Duration \in Nat \ {0}
        BY AnimatorAssumption
      <4>3. Lerp(r, t, 0, Duration) = r
        BY <4>2, LerpAtStart
      <4>4. x = r
        BY <1>2, <4>1, <4>3, Zenon
      <4> QED
        BY <2>1, <2>2, <4>4, Zenon
    <3>4. turns = 0 \/ turns = 1
      BY <1>2, <1>6
    <3> QED
      BY <3>1, <3>2, <3>3, <3>4, Zenon
  <2>4. x \in Min(S)..Max(S)
    BY ONLY <2>1, <2>2, <2>3, m \in Int, r \in Int, t \in Int, MinMaxOfFour
  <2> QED
    BY <2>2, <2>4, Zenon
<1> QED
  BY <1>2, <1>3, <1>5, <1>6, Zenon

\* LooksNeverJump for any sizes, durations and times of frames: however hovering,
\* pressing and releasing interrupt the animations, the button goes on from where
\* it is drawn, and the text from where it or its animation was, if the cursor
\* crossed its edge once at most since the last frame.
THEOREM HoveredLooksNeverJump == LooksSpec => LooksNeverJump
<1>1. LooksInit => LooksInv
  BY InitLooks
<1>2. LooksInv /\ [LooksNext]_looksVars => LooksInv'
  BY StepLooks, Zenon
<1>3. LooksInv /\ [LooksNext]_looksVars =>
         [LET textWay == {textMatrix, reached, text.to}
              buttonWay == {buttonMatrix, button.to}
          IN  /\ buttonMatrix' \in Min(buttonWay)..Max(buttonWay)
              /\ turns <= 1 => textMatrix' \in Min(textWay)..Max(textWay)
         ]_<<textMatrix, buttonMatrix>>
  BY LooksOnTheWay, Zenon
<1> QED
  BY <1>1, <1>2, <1>3, PTL DEF LooksSpec, LooksNeverJump
=============================================================================
