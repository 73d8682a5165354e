----------------------------- MODULE Scrolling ------------------------------
(***************************************************************************)
(* The panel of the atom selector (src/app/widgets/scroll): it slides in   *)
(* and out, its content is scrolled by the wheel, with an animation, or by *)
(* dragging the handle of its scroller, at once.                           *)
(*                                                                         *)
(* Lengths are integers along the axis that scrolls.  The placeholder the  *)
(* handle moves in is a multiple of the content's size, so that the handle *)
(* moves by `ratio' when the content moves by 1; its sign is the opposite. *)
(* What the pixels' size has to do with the window is left out: a resize   *)
(* changes the ratio.                                                      *)
(***************************************************************************)
EXTENDS Animator, FiniteSetsExt

CONSTANTS
    ContentSize, CanvasSize,    \* _contentSize and _canvasSize
    Tick,                       \* _scrollTick()
    Ratios,                     \* of the placeholder to the content
    Thickness,                  \* of the panel: how far it is when collapsed
    MaxInputs                   \* bound: how many inputs there are

ASSUME ScrollingAssumption ==
    /\ {ContentSize, CanvasSize, Tick, Thickness} \subseteq Nat \ {0}
    /\ CanvasSize < ContentSize
    /\ Ratios \subseteq Nat \ {0}

VARIABLES
    translationFactor,  \* _translationFactor: how far the content is scrolled
    content,            \* the animator of the content, and its _scrllMatrix
    contentMatrix,
    ratio,              \* _translationGap / maxTranslate
    handle,             \* the animator of the handle, and its _scrllMatrix
    handleMatrix,
    toggled,            \* _toggled of the panel
    panel,              \* the animator of the panel, and its _matrix
    panelMatrix,
    scrolls,            \* history: wheel events since the last frame
    before,             \* history: translationFactor at the last frame
    resized,            \* history: since the handle was last dragged
    inputs

scrollVars == <<translationFactor, content, contentMatrix, handle, handleMatrix, scrolls, before>>
panelVars == <<toggled, panel, panelMatrix>>
vars == <<scrollVars, panelVars, ratio, resized, inputs>>

maxTranslate == ContentSize - CanvasSize

Init ==
    /\ translationFactor = 0
    /\ content = NewAnimator(0) /\ contentMatrix = 0
    /\ ratio \in Ratios
    /\ handle = NewAnimator(0) /\ handleMatrix = 0
    /\ toggled = FALSE
    /\ panel = NewAnimator(0) /\ panelMatrix = Thickness
    /\ scrolls = 0 /\ before = 0
    /\ resized = FALSE
    /\ inputs = 0

Input ==
    /\ inputs < MaxInputs
    /\ inputs' = inputs + 1

(***************************************************************************)
(* Scissorable and ScrollerHandle                                          *)
(***************************************************************************)
\* _scrollByContentSize() stops at both ends.
ScrolledBy(tick) == Min({maxTranslate, Max({0, translationFactor + tick})})

\* The step of _scrollByOffset()
StepOf(offset) == -offset * Tick

\* Mutant of AnimateScrollByTr: the animation starts from the top.
AnimateScrollByTrFromTop(anim, tr) == UpdateAnimationAndPlay(0, tr, 0)

\* _animateScrollByTr()
AnimateScrollByTr(anim, tr) == UpdateAnimationAndPlay(anim.current, tr, 0)

\* Mutant of handleScrollEvent: the handle starts over from where it began.
handleScrollEventHandleFromZero(offset) ==
    /\ Input
    /\ translationFactor' = ScrolledBy(StepOf(offset))
    /\ content' = AnimateScrollByTr(content, translationFactor')
    /\ handle' = UpdateAnimationAndPlay(0, -ratio * translationFactor', 0)
    /\ scrolls' = scrolls + 1
    /\ UNCHANGED <<panelVars, contentMatrix, handleMatrix, ratio, before, resized>>

\* handleScrollEvent() of the panel: content and handle are both animated.
handleScrollEvent(offset) ==
    /\ Input
    /\ translationFactor' = ScrolledBy(StepOf(offset))
    /\ content' = AnimateScrollByTr(content, translationFactor')
    /\ handle' = AnimateScrollByTr(handle, -ratio * translationFactor')
    /\ scrolls' = scrolls + 1
    /\ UNCHANGED <<panelVars, contentMatrix, handleMatrix, ratio, before, resized>>

\* inplaceByPercentage(): where the handle is when the content is at tr.
InPlace(tr) == -ratio * tr

\* handleLockMoveEvent() of the handle and scrollFromHandle(): the mouse moved
\* by ratio * tick, and a movement of 0 is skipped.
DragHandle(tick) ==
    /\ Input
    /\ tick # 0
    /\ translationFactor' = ScrolledBy(tick)
    /\ content' = SetAnimationKeyframe(translationFactor')
    /\ contentMatrix' = translationFactor'
    /\ handle' = SetAnimationKeyframe(InPlace(translationFactor'))
    /\ handleMatrix' = InPlace(translationFactor')
    /\ resized' = FALSE
    /\ UNCHANGED <<panelVars, ratio, scrolls, before>>

\* onContentRatioChanged() and updateSize(), by a resize of the window: the
\* handle gets a new gap, and stays where it is.
updateSize(r) ==
    /\ Input
    /\ ratio' = r
    /\ resized' = (resized \/ r # ratio)
    /\ UNCHANGED <<scrollVars, panelVars>>

(***************************************************************************)
(* ScrollablePanel                                                         *)
(***************************************************************************)
\* Mutant of onToggled: closing the panel opens it.
onToggledOpens ==
    /\ Input
    /\ toggled' = ~toggled
    /\ panel' = UpdateAnimationAndPlay(Thickness, 0, 0)
    /\ UNCHANGED <<scrollVars, panelMatrix, ratio, resized>>

\* toggle() and _onToggled(), by the callback of the button.
onToggled ==
    /\ Input
    /\ toggled' = ~toggled
    /\ panel' = IF toggled' THEN UpdateAnimationAndPlay(Thickness, 0, 0)
                            ELSE UpdateAnimationAndPlay(0, Thickness, 0)
    /\ UNCHANGED <<scrollVars, panelMatrix, ratio, resized>>

\* _onAnimationProgress(), where there is progress.
Progress(matrix, anim) == IF IsPlaying(anim) THEN anim.current ELSE matrix

Draw(ticks) ==
    LET content1 == Advanced(content, Duration, LerpInt(content, Duration))
        handle1 == Advanced(handle, Duration, LerpInt(handle, Duration))
        panel1 == Advanced(panel, Duration, LerpInt(panel, Duration))
    IN  /\ contentMatrix' = Progress(contentMatrix, content1)
        /\ handleMatrix' = Progress(handleMatrix, handle1)
        /\ panelMatrix' = Progress(panelMatrix, panel1)
        /\ content' = NextFrame(content1, ticks, Duration)
        /\ handle' = NextFrame(handle1, ticks, Duration)
        /\ panel' = NextFrame(panel1, ticks, Duration)
        /\ scrolls' = 0 /\ before' = translationFactor
        /\ UNCHANGED <<translationFactor, ratio, toggled, resized, inputs>>

Next ==
    \/ \E offset \in {-2, 0, 1} : handleScrollEvent(offset)
    \/ \E ticks \in {-2, 1} : DragHandle(ticks * Tick)
    \/ \E r \in Ratios : updateSize(r)
    \/ onToggled
    \/ \E ticks \in FrameTimes : Draw(ticks)

Spec == Init /\ [][Next]_vars

(***************************************************************************)
(* Properties                                                              *)
(***************************************************************************)
\* In every frame, in the middle of animations and after interrupted ones, the
\* handle is as far down its placeholder as the content is scrolled, unless the
\* window was resized and the handle not dragged since (ScrollerHandle.cpp:35-50).
HandleTracksContent == ~resized => handleMatrix = -ratio * contentMatrix

\* A frame shows the content on the way to where it was scrolled, from where
\* the last one showed it or from where it was heading then.  That is, if the
\* wheel turned once at most in between: a second event finds `current' reset
\* and has the content jump to its top (Scrollable.hpp:53-56).
ScrollsTowardsTarget ==
    [][scrolls <= 1 =>
        LET way == {contentMatrix, translationFactor, translationFactor'}
                       \cup (IF scrolls = 1 THEN {before} ELSE {})
        IN  contentMatrix' \in Min(way)..Max(way)]_contentMatrix

\* A unit of length in which every place of the sliding panel is a whole number,
\* and a longest frame: what PanelEndsWithinAFrame supposes.
SlideIsExact == Thickness % Duration = 0
LongestFrame == \E longest \in FrameTimes : \A ticks \in FrameTimes : ticks <= longest

\* A unit so fine that a length can be divided by the duration once for every
\* input, that is, by one interrupted animation after the other: grain[n] is
\* what lengths are multiples of after n inputs.
UnitIsFine(grain) ==
    /\ MaxInputs \in Nat /\ grain \in [0..MaxInputs -> Nat \ {0}]
    /\ \A n \in 1..MaxInputs : grain[n - 1] = Duration * grain[n]
    /\ Tick % grain[0] = 0 /\ maxTranslate % grain[0] = 0

Distance(a, b) == IF a < b THEN b - a ELSE a - b

\* When nothing moves any more, the panel is at most a frame away from being
\* open or collapsed, as it was toggled last (ScrollablePanel.cpp:92-97).
PanelEndsWithinAFrame ==
    ~IsPlaying(panel) =>
        Distance(panelMatrix, IF toggled THEN 0 ELSE Thickness) * Duration
            <= Thickness * Max(FrameTimes)
=============================================================================
