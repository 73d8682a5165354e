--------------------------- MODULE SelectionRect ----------------------------
(***************************************************************************)
(* SelectionRectState (src/app/shaders/selectRect): the rectangle drawn    *)
(* while the right button is held, and handed to the snapshot zoom.  It is *)
(* kept twice: as vertices, in coordinates around the centre of the        *)
(* window, which are filled, and in pixels, for the inner rectangle that   *)
(* the fragment shader keeps free of border.                               *)
(*                                                                         *)
(* Vertices are divided by the height of the framebuffer: they keep that   *)
(* height here, and the dimensions x and y are 1 and 2.                    *)
(***************************************************************************)
EXTENDS Integers, FiniteSetsExt

CONSTANT Sizes          \* sizes the framebuffer may have, <<width, height>>

ASSUME SizesAssumption == Sizes \subseteq (Nat \ {0}) \X (Nat \ {0})

VARIABLES
    framebuffer,        \* its size
    isSelecting,        \* _isSelecting
    vert,               \* _p1() and _p2(), the corners of asRectangle()
    px,                 \* _p1_px and _p2_px
    innerRect           \* setInnerRect(), in half pixels

selectionVars == <<framebuffer, isSelecting, vert, px, innerRect>>

BORDER_PX_WIDTH == 1

\* Where the mouse may be.
Positions == (0..framebuffer[1] - 1) \X (0..framebuffer[2] - 1)

\* Mutant of trFrag: the y axis is not turned around.
trFragDownwards(m) == m

trFrag(m) == <<m[1], framebuffer[2] - m[2]>>

trVert(m) == [at |-> <<m[1] - framebuffer[1] \div 2, framebuffer[2] \div 2 - m[2]>>,
              height |-> framebuffer[2]]

\* _getStandardizedRect(), in one dimension.
StandardizedRect(corners, d) ==
    [min |-> Min({c[d] : c \in corners}), max |-> Max({c[d] : c \in corners})]

\* _padded(), in one dimension and in half pixels: what would turn inside out
\* is reduced to its centre.
Padded(side) ==
    LET min == 2 * (side.min + BORDER_PX_WIDTH)
        max == 2 * (side.max - BORDER_PX_WIDTH)
        centre == side.min + side.max
    IN  IF min > max THEN [min |-> centre, max |-> centre] ELSE [min |-> min, max |-> max]

\* The other two vertices follow from these.
UpdateShaderData ==
    innerRect' = [d \in {1, 2} |-> Padded(StandardizedRect({px'[1], px'[2]}, d))]

SelectionInit ==
    /\ framebuffer \in Sizes
    /\ isSelecting = FALSE
    /\ vert = [c \in {1, 2} |-> [at |-> <<0, 0>>, height |-> framebuffer[2]]]
    /\ px = [c \in {1, 2} |-> <<0, 0>>]
    /\ innerRect = [d \in {1, 2} |-> [min |-> 0, max |-> 0]]

\* init(), by a press of the right button; another one starts over.
StartSelection(m) ==
    /\ vert' = [c \in {1, 2} |-> trVert(m)]
    /\ px' = [c \in {1, 2} |-> trFrag(m)]
    /\ UpdateShaderData
    /\ isSelecting' = TRUE
    /\ UNCHANGED framebuffer

updatefromPoint(m) ==
    /\ isSelecting
    /\ vert' = [vert EXCEPT ![2] = trVert(m)]
    /\ px' = [px EXCEPT ![2] = trFrag(m)]
    /\ UpdateShaderData
    /\ UNCHANGED framebuffer

\* update(), by a move of the mouse.
UpdateSelection(m) == updatefromPoint(m) /\ UNCHANGED isSelecting

\* end(), by the release.
EndSelection(m) == updatefromPoint(m) /\ isSelecting' = FALSE

\* The window is resized, and with it the selection is given up.
viewportEvent(size) ==
    /\ framebuffer' = size
    /\ isSelecting' = FALSE
    /\ UNCHANGED <<vert, px, innerRect>>

SelectionNext ==
    \/ \E m \in Positions : StartSelection(m) \/ UpdateSelection(m) \/ EndSelection(m)
    \/ \E size \in Sizes : viewportEvent(size)

SelectionSpec == SelectionInit /\ [][SelectionNext]_selectionVars

(***************************************************************************)
(* Properties                                                              *)
(***************************************************************************)
\* The rectangle that is filled, in half pixels of the window.
Filled(d) ==
    LET side == StandardizedRect({vert[1].at, vert[2].at}, d)
    IN  [min |-> 2 * side.min + framebuffer[d], max |-> 2 * side.max + framebuffer[d]]

\* While it is drawn, the part without border lies inside the filled one and
\* all of the filled one that is not inside is no wider than the border and
\* half a pixel, for windows of odd and even sizes, after resizing, and in
\* whichever direction the mouse goes (SelectionRectState.hpp:84-147).
BorderFits ==
    isSelecting => \A d \in {1, 2} :
        LET f == Filled(d)
            i == innerRect[d]
        IN  f.min < f.max =>
                /\ f.min <= i.min /\ i.max <= f.max
                /\ i.min - f.min <= 2 * BORDER_PX_WIDTH + 1
                /\ f.max - i.max <= 2 * BORDER_PX_WIDTH + 1
=============================================================================
