------------------------------ MODULE Animator ------------------------------
(***************************************************************************)
(* PlayerMatrixAnimator (src/app/widgets/animation) and the Magnum player  *)
(* behind it: an animation goes from a value to another while frames are   *)
(* drawn.  Time is counted in ticks and the easings, which all lead from 0 *)
(* to 1, are linear.                                                       *)
(*                                                                         *)
(* An animator is drawn in three steps, the way drawEvent() does it:       *)
(* Advanced() is what player.advance() makes of it, the animated matrix is *)
(* updated only if it IsPlaying() after that, and NextFrame() lets the     *)
(* time of the frame pass.                                                 *)
(***************************************************************************)
EXTENDS Integers

CONSTANTS
    Duration,           \* of the animations, in ticks of the clock
    FrameTimes          \* how many of them a frame may take

ASSUME AnimatorAssumption == Duration \in Nat \ {0} /\ FrameTimes \subseteq Nat \ {0}

\* The animator of a helper or widget that never played; zero is AnimType().
NewAnimator(zero) ==
    [playing |-> FALSE, elapsed |-> 0, from |-> zero, to |-> zero, current |-> zero]

IsPlaying(anim) == anim.playing

\* Playing again what already plays starts it over.
UpdateAnimationAndPlay(from, to, zero) ==
    [playing |-> TRUE, elapsed |-> 0, from |-> from, to |-> to, current |-> zero]

StopAnim(anim) == [anim EXCEPT !.playing = FALSE, !.elapsed = 0]

SetAnimationKeyframe(to) ==
    [playing |-> FALSE, elapsed |-> 0, from |-> to, to |-> to, current |-> to]

Lerp(from, to, elapsed, duration) == from + ((to - from) * elapsed) \div duration

\* How far an animation of a number is.
LerpInt(anim, duration) == Lerp(anim.from, anim.to, anim.elapsed, duration)

\* The player stops when its time has come, in the same call: the callback
\* still gets the last value, the matrix does not.  Until then the value is
\* the one between the two ends.
Advanced(anim, duration, between) ==
    IF ~anim.playing THEN anim
    ELSE IF anim.elapsed < duration
    THEN [anim EXCEPT !.current = between]
    ELSE [anim EXCEPT !.playing = FALSE, !.elapsed = 0, !.current = anim.to]

\* Mutant of NextFrame: the player plays again and again.
NextFrameForever(anim, ticks, duration) ==
    [anim EXCEPT !.elapsed = IF anim.playing THEN (@ + ticks) % duration ELSE 0]

\* Ticks beyond the duration make no difference.
NextFrame(anim, ticks, duration) ==
    [anim EXCEPT !.elapsed =
        IF ~anim.playing THEN 0
        ELSE IF @ + ticks > duration THEN duration ELSE @ + ticks]
=============================================================================
