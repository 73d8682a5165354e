------------------------------- MODULE Layout -------------------------------
(***************************************************************************)
(* How a scrollable panel divides its space among its scroller, the handle *)
(* in it and its content, each time the window is resized, and how they    *)
(* all move with it (src/app/widgets/base/Container.hpp and                *)
(* src/app/widgets/scroll).  What a widget is drawn with is its matrix,    *)
(* what it is hovered by its geometry, which is kept beside it.            *)
(*                                                                         *)
(* The coordinates of the window, -1.0 to 1.0, are -Unit to Unit here, and *)
(* Unit is such that all divisions are exact.  A matrix only translates    *)
(* here, so it is a vector.                                                *)
(***************************************************************************)
EXTENDS Integers

CONSTANTS
    Unit,               \* 1.0
    Widths, Heights,    \* of the window, in pixels
    Sides,              \* the sides a panel may stick to
    PanelThickness,     \* of the panel
    ScrollerPx,         \* THICKNESS_PX
    PaddingPx           \* PADDING_PX

StickTo == {"Left", "Top", "Right", "Bottom"}

ASSUME LayoutAssumption ==
    /\ {Unit, PanelThickness, ScrollerPx, PaddingPx} \subseteq Nat \ {0}
    /\ Sides \subseteq StickTo
    /\ \A n \in Widths \cup Heights :
        /\ n \in Nat \ {0} /\ Unit % (17 * n) = 0
        /\ Unit * (ScrollerPx + 2 * PaddingPx) < PanelThickness * n
    /\ Unit % 2 = 0 /\ PanelThickness % 2 = 0 /\ PanelThickness <= 2 * Unit

VARIABLES
    stickness,          \* _stickness of the panel
    pixelSize,          \* constraints().pixelSize()
    setupDone,          \* _setupDone of the panel
    shape,              \* _shape of every widget
    geometry,           \* _geometry of every widget
    matrix,             \* what panel, scroller and handle are drawn with
    scrolled,           \* the scroll matrices of handle and content
    propagated,         \* handle and content know the panel's matrix
    sizes,              \* _canvasSize, _contentSize and _translationGap
    windowResized       \* history: since the handle was last scrolled

layoutVars == <<stickness, pixelSize, setupDone, shape, geometry, matrix, scrolled,
          propagated, sizes, windowResized>>

Widgets == {"panel", "scroller", "handle", "grid"}
Origin == <<0, 0>>
Rect(x0, y0, x1, y1) == [min |-> <<x0, y0>>, max |-> <<x1, y1>>]
Empty == Rect(0, 0, 0, 0)
Plus(v, w) == <<v[1] + w[1], v[2] + w[2]>>

\* transformPoint() of both corners
Moved(rect, v) == [min |-> Plus(rect.min, v), max |-> Plus(rect.max, v)]

Window == Rect(-Unit, -Unit, Unit, Unit)

(***************************************************************************)
(* What the side decides                                                   *)
(***************************************************************************)
\* _getGrowableAxis(), as an index of vectors: width or height
growableAxis == IF stickness \in {"Left", "Right"} THEN 2 ELSE 1

\* _getAxisFunction()
axisFn(length) == IF stickness \in {"Left", "Right"} THEN <<0, length>> ELSE <<length, 0>>

\* _extractScrollableSize()
extractScrollableSize(rect) == rect.max[growableAxis] - rect.min[growableAxis]

\* _collapsedTransform()
collapsedTransform ==
    CASE stickness = "Left"   -> <<-PanelThickness, 0>>
      [] stickness = "Top"    -> <<0, PanelThickness>>
      [] stickness = "Right"  -> <<PanelThickness, 0>>
      [] stickness = "Bottom" -> <<0, -PanelThickness>>

\* _stickynessFromPanel()
scrollerStickness == IF stickness \in {"Left", "Right"} THEN "Right" ELSE "Bottom"

(***************************************************************************)
(* _availableSpaceChanged() of every widget                                *)
(***************************************************************************)
\* The panel takes its thickness of the window, once.
panelShape(space) ==
    CASE stickness = "Left"   -> [space EXCEPT !.max[1] = space.min[1] + PanelThickness]
      [] stickness = "Top"    -> [space EXCEPT !.min[2] = space.max[2] - PanelThickness]
      [] stickness = "Right"  -> [space EXCEPT !.min[1] = space.max[1] - PanelThickness]
      [] stickness = "Bottom" -> [space EXCEPT !.max[2] = space.min[2] + PanelThickness]

Padded(rect, px) ==
    [min |-> Plus(rect.min, <<PaddingPx * px[1], PaddingPx * px[2]>>),
     max |-> Plus(rect.max, <<-PaddingPx * px[1], -PaddingPx * px[2]>>)]

\* Mutant of scrollerSpace: the space the scroller takes is not taken away.
scrollerSpaceShared(space, px) ==
    LET size == ScrollerPx + 2 * PaddingPx
        ph == IF scrollerStickness = "Right"
              THEN [space EXCEPT !.min[1] = space.max[1] - size * px[1]]
              ELSE [space EXCEPT !.max[2] = space.min[2] + size * px[2]]
    IN  [shape |-> Padded(ph, px), remaining |-> space]

\* The scroller's placeholder, and what it leaves of the space.
scrollerSpace(space, px) ==
    LET size == ScrollerPx + 2 * PaddingPx
        ph == IF scrollerStickness = "Right"
              THEN [space EXCEPT !.min[1] = space.max[1] - size * px[1]]
              ELSE [space EXCEPT !.max[2] = space.min[2] + size * px[2]]
    IN  [shape |-> Padded(ph, px),
         remaining |-> IF scrollerStickness = "Right"
                       THEN [space EXCEPT !.max[1] = ph.min[1]]
                       ELSE [space EXCEPT !.min[2] = ph.max[2]]]

\* The content is 7.5 times as long as there is space from the middle on.
gridShape(space) ==
    IF growableAxis = 1 THEN [space EXCEPT !.max[1] = (@ * 15) \div 2]
                        ELSE [space EXCEPT !.min[2] = (@ * 15) \div 2]

\* _scrollCanvasChanged(), _scrollContentChanged() and onContentRatioChanged():
\* the handle is to the placeholder what the canvas is to the content, which is
\* always the longer one (_contentBigEnough).
handleSize(ph, canvas, content) ==
    (extractScrollableSize(ph) * extractScrollableSize(canvas))
        \div extractScrollableSize(content)

\* The handle takes the whole placeholder first, and updateSize() then cuts it.
handleShape(ph, size) ==
    IF growableAxis = 2 THEN [ph EXCEPT !.min[2] = ph.max[2] - size]
                        ELSE [ph EXCEPT !.max[1] = ph.min[1] + size]

(***************************************************************************)
(* What is drawn and where it is hovered                                   *)
(***************************************************************************)
\* Where the content is drawn: _matrix() of AtomSelectorGrid
gridMatrix(panelM, gridS) == IF propagated THEN Plus(panelM, gridS) ELSE Origin

\* What the handle is drawn with once it knows the panel's matrix: its
\* _updateGeometry(), which its own scrolling and the panel's moves end in.
handlePlace(panelM, handleS) == Plus(panelM, handleS)

LayoutInit ==
    /\ stickness \in Sides
    /\ pixelSize = Origin
    /\ setupDone = FALSE
    /\ shape = [w \in Widgets |-> Empty]
    /\ geometry = [w \in Widgets |-> Empty]
    /\ matrix = [w \in Widgets \ {"grid"} |->
                    IF w = "panel" THEN collapsedTransform ELSE Origin]
    /\ scrolled = [w \in {"handle", "grid"} |-> Origin]
    /\ propagated = FALSE
    /\ sizes = [canvas |-> 0, content |-> 0, gap |-> 0]
    /\ windowResized = FALSE

\* viewportEvent(), and onViewportChange() from the application down: the space
\* is handed from one inner widget to the next, and each one takes its share.
viewportEvent(px) ==
    LET panel == IF setupDone THEN shape["panel"] ELSE panelShape(Window)
        scroller == scrollerSpace(panel, px)
        grid == gridShape(scroller.remaining)
        size == handleSize(scroller.shape, scroller.remaining, grid)
        handle == handleShape(scroller.shape, size)
    IN  /\ pixelSize' = px
        /\ setupDone' = TRUE
        /\ shape' = [panel |-> panel, scroller |-> scroller.shape,
                     handle |-> handle, grid |-> grid]
        /\ geometry' = [panel |-> Moved(panel, matrix["panel"]),
                        scroller |-> Moved(scroller.shape, matrix["scroller"]),
                        handle |-> Moved(handle, matrix["handle"]),
                        grid |-> Moved(grid, gridMatrix(matrix["panel"], scrolled["grid"]))]
        /\ sizes' = [canvas |-> extractScrollableSize(scroller.remaining),
                     content |-> extractScrollableSize(grid),
                     gap |-> extractScrollableSize(scroller.shape) - size]
        /\ windowResized' = (windowResized \/ (setupDone /\ px # pixelSize))
        /\ UNCHANGED <<stickness, matrix, scrolled, propagated>>

\* _onAnimationProgress() of the panel and _propagateMatrixChanges(): its inner
\* widgets are moved with it.  Before the first layout nothing can be toggled.
onAnimationProgress(pos) ==
    LET matrix1 == [panel |-> pos, scroller |-> pos, handle |-> handlePlace(pos, scrolled["handle"])]
    IN  /\ setupDone
        /\ matrix' = matrix1
        /\ propagated' = TRUE
        /\ geometry' = [panel |-> Moved(shape["panel"], pos),
                        scroller |-> Moved(shape["scroller"], pos),
                        handle |-> Moved(shape["handle"], matrix1["handle"]),
                        grid |-> Moved(shape["grid"], Plus(pos, scrolled["grid"]))]
        /\ UNCHANGED <<stickness, pixelSize, setupDone, shape, scrolled, sizes, windowResized>>

\* Mutant of Scroll: the handle is drawn elsewhere, and hovered where it was.
ScrollKeepsGeometry(k) ==
    LET tr == axisFn(-(sizes.gap * k) \div 2)
    IN  /\ propagated
        /\ scrolled' = [handle |-> tr,
                        grid |-> axisFn(((sizes.content - sizes.canvas) * k) \div 2)]
        /\ matrix' = [matrix EXCEPT !["handle"] = handlePlace(matrix["panel"], tr)]
        /\ windowResized' = FALSE
        /\ UNCHANGED <<stickness, pixelSize, setupDone, shape, geometry, propagated, sizes>>

\* inplaceByPercentage() with _onAnimationProgress() of the handle and
\* _scrollByPercentTick() of the content, by k halves of the way: the geometry
\* of the content is not brought up to date.  A panel that has never moved is
\* collapsed, and cannot be hovered to be scrolled.
Scroll(k) ==
    LET tr == axisFn(-(sizes.gap * k) \div 2)
    IN  /\ propagated
        /\ scrolled' = [handle |-> tr,
                        grid |-> axisFn(((sizes.content - sizes.canvas) * k) \div 2)]
        /\ matrix' = [matrix EXCEPT !["handle"] = handlePlace(matrix["panel"], tr)]
        /\ geometry' = [geometry EXCEPT !["handle"] = Moved(shape["handle"], matrix'["handle"])]
        /\ windowResized' = FALSE
        /\ UNCHANGED <<stickness, pixelSize, setupDone, shape, propagated, sizes>>

\* Constraints: the size of a pixel, as half a pixel in the window's coordinates
pixelSizeOf(w, h) == <<Unit \div w, Unit \div h>>

\* The panel on its way: collapsed, half open and open.
Positions == {collapsedTransform, Origin,
              <<collapsedTransform[1] \div 2, collapsedTransform[2] \div 2>>}

LayoutNext ==
    \/ \E w \in Widths, h \in Heights : viewportEvent(pixelSizeOf(w, h))
    \/ \E pos \in Positions : onAnimationProgress(pos)
    \/ \E k \in 0..2 : Scroll(k)

LayoutSpec == LayoutInit /\ [][LayoutNext]_layoutVars

(***************************************************************************)
(* Properties                                                              *)
(***************************************************************************)
Inside(r, s) == \A i \in {1, 2} : s.min[i] <= r.min[i] /\ r.min[i] <= r.max[i] /\ r.max[i] <= s.max[i]
Apart(r, s) == \E i \in {1, 2} : r.max[i] <= s.min[i] \/ s.max[i] <= r.min[i]

\* However often the window is resized, the scroller is inside its panel, the
\* content is across the panel no wider than it and does not lie beneath the
\* scroller (Container.hpp:40-45, Scroller.cpp:87-118).
SpaceIsDivided ==
    setupDone =>
        LET across == 3 - growableAxis
        IN  /\ Inside(shape["panel"], Window)
            /\ Inside(shape["scroller"], shape["panel"])
            /\ shape["panel"].min[across] <= shape["grid"].min[across]
            /\ shape["grid"].max[across] <= shape["panel"].max[across]
            /\ Apart(shape["grid"], shape["scroller"])

\* Panel, scroller and handle are hovered where they are drawn, whatever moved
\* or resized them last, and once the panel has moved, the scroller is inside
\* it and the handle where it was scrolled, wherever the panel is on its way
\* (Hoverable.hpp:61-66, Container.hpp:64-76, Scroller.cpp:133-137).  The
\* content is not: scrolling leaves its geometry alone.
HoveredWhereDrawn ==
    /\ setupDone => \A w \in Widgets \ {"grid"} : geometry[w] = Moved(shape[w], matrix[w])
    /\ propagated => /\ Inside(geometry["scroller"], geometry["panel"])
                     /\ matrix["handle"] = Plus(matrix["panel"], scrolled["handle"])
=============================================================================
