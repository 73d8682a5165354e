----------------------------- MODULE HoverLooks -----------------------------
(***************************************************************************)
(* The two widgets that are animated when the cursor enters or leaves      *)
(* them: the text of the shortcuts, which grows and fades in               *)
(* (src/app/widgets/text/ShortcutsText.hpp), and the button of the atom    *)
(* selector, which rises, higher when it is toggled                        *)
(* (src/app/widgets/atomSelector/AtomSelectorButton.hpp).                  *)
(*                                                                         *)
(* The text's scaling and its two opacities always are the same part of    *)
(* the way between their two values, so one number stands for all three.   *)
(* The geometries are computed from the matrices, and left out.            *)
(***************************************************************************)
EXTENDS Animator, FiniteSetsExt

CONSTANTS
    Way,                \* from a normal text to a hovered one
    Half,               \* half the button's height
    MaxHovers           \* bound: how many inputs there are

ASSUME HoverLooksAssumption ==
    {Way, Half} \subseteq Nat \ {0} /\ Half % 2 = 0

VARIABLES
    textHovered,        \* _isHovered of the text
    text,               \* the animator of the text, and its _moveAnim
    textMatrix,
    isHovered,          \* of the button, with _preToggling and _toggled
    preToggling,
    buttonToggled,
    button,             \* the animator of the button, and its _moveAnim
    buttonMatrix,
    turns,              \* history: hover changes of the text since the last frame
    reached,            \* history: where the text's animation was at the last frame
    hovers

textVars == <<textHovered, text, textMatrix, turns, reached>>
buttonVars == <<isHovered, preToggling, buttonToggled, button, buttonMatrix>>
looksVars == <<textVars, buttonVars, hovers>>

LooksInit ==
    /\ textHovered = FALSE /\ text = NewAnimator(0) /\ textMatrix = 0
    /\ isHovered = FALSE /\ preToggling = FALSE /\ buttonToggled = FALSE
    /\ button = NewAnimator(0) /\ buttonMatrix = 0
    /\ turns = 0 /\ reached = 0
    /\ hovers = 0

HoverInput ==
    /\ hovers < MaxHovers
    /\ hovers' = hovers + 1

(***************************************************************************)
(* ShortcutsText                                                           *)
(***************************************************************************)
\* The text's own _defaultAnimationCallback(): all three values go alike.
LerpText(anim, duration) == LerpInt(anim, duration)

TextTarget(hov) == IF hov THEN Way ELSE 0

\* _onHoverChanged(): from where the animation is.
HoverText ==
    /\ HoverInput
    /\ textHovered' = ~textHovered
    /\ text' = UpdateAnimationAndPlay(text.current, TextTarget(textHovered'), 0)
    /\ turns' = turns + 1
    /\ UNCHANGED <<textMatrix, reached, buttonVars>>

(***************************************************************************)
(* AtomSelectorButton                                                      *)
(***************************************************************************)
\* The target of _updateAnimationYTarget()
updateAnimationYTarget(hov, tog) == IF tog THEN 2 * Half ELSE IF hov THEN Half \div 2 ELSE 0

\* Mutant of Animate: the animation starts from where the last one would end.
AnimateFromTarget(hov, tog) == UpdateAnimationAndPlay(button.to, updateAnimationYTarget(hov, tog), 0)

\* The rest of it: from where the button is drawn.
Animate(hov, tog) == UpdateAnimationAndPlay(buttonMatrix, updateAnimationYTarget(hov, tog), 0)

\* _onHoverChanged() does nothing while the button is pressed.
HoverButton ==
    /\ HoverInput
    /\ isHovered' = ~isHovered
    /\ button' = IF preToggling THEN button ELSE Animate(isHovered', buttonToggled)
    /\ UNCHANGED <<preToggling, buttonToggled, buttonMatrix, textVars>>

PressButton ==
    /\ HoverInput
    /\ isHovered
    /\ preToggling' = TRUE
    /\ UNCHANGED <<isHovered, buttonToggled, button, buttonMatrix, textVars>>

\* handleLockReleaseEvent(), toggle() and _onToggled()
ReleaseButton ==
    /\ HoverInput
    /\ preToggling
    /\ preToggling' = FALSE
    /\ buttonToggled' = ~buttonToggled
    /\ button' = Animate(isHovered, buttonToggled')
    /\ UNCHANGED <<isHovered, buttonMatrix, textVars>>

(***************************************************************************)
(* Frames                                                                  *)
(***************************************************************************)
\* _onAnimationProgress(), where there is progress
LooksProgress(anim, matrix) == IF IsPlaying(anim) THEN anim.current ELSE matrix

DrawLooks(ticks) ==
    LET text1 == Advanced(text, Duration, LerpText(text, Duration))
        button1 == Advanced(button, Duration, LerpInt(button, Duration))
    IN  /\ textMatrix' = LooksProgress(text1, textMatrix)
        /\ buttonMatrix' = LooksProgress(button1, buttonMatrix)
        /\ text' = NextFrame(text1, ticks, Duration)
        /\ button' = NextFrame(button1, ticks, Duration)
        /\ turns' = 0 /\ reached' = text1.current
        /\ UNCHANGED <<textHovered, isHovered, preToggling, buttonToggled, hovers>>

LooksNext ==
    \/ HoverText
    \/ HoverButton \/ PressButton \/ ReleaseButton
    \/ \E ticks \in FrameTimes : DrawLooks(ticks)

LooksSpec == LooksInit /\ [][LooksNext]_looksVars

(***************************************************************************)
(* Properties                                                              *)
(***************************************************************************)
\* However often hovering and toggling interrupt each other, within one frame
\* too, the button moves on from where it is (AtomSelectorButton.hpp:130-141).
\* The text goes on from where it or its animation was, if the cursor entered or
\* left it once at most since the last frame: the second time it starts over
\* from a normal text (ShortcutsText.hpp:131, PlayerMatrixAnimator.hpp:83).
LooksNeverJump ==
    [][LET textWay == {textMatrix, reached, text.to}
           buttonWay == {buttonMatrix, button.to}
       IN  /\ buttonMatrix' \in Min(buttonWay)..Max(buttonWay)
           /\ turns <= 1 => textMatrix' \in Min(textWay)..Max(textWay)
      ]_<<textMatrix, buttonMatrix>>
=============================================================================
