------------------------------ MODULE Hovering ------------------------------
(***************************************************************************)
(* The widget tree and how it finds the widget under the cursor            *)
(* (src/app/widgets/base: Hoverable, Container, AppContainer).  Each       *)
(* container remembers the child it found hovered last and asks it first.  *)
(*                                                                         *)
(* A geometry matters only by whether it contains the cursor: "over" is    *)
(* the set of the widgets whose geometry does.  It is any set, since       *)
(* siblings overlap and a child may stick out of its container, and it     *)
(* changes when the cursor moves and when a widget is animated; only the   *)
(* first makes the program look.                                           *)
(***************************************************************************)
EXTENDS Integers, Sequences, SequencesExt

Nobody == "nullptr"

\* The widgets of USApplication and what they contain, topmost first.
Inner ==
    [app      |-> <<"asButton", "asPanel", "stWidget">>,
     asPanel  |-> <<"scroller", "asGrid">>,
     scroller |-> <<"handle">>]

Containers == DOMAIN Inner
Widgets == {"app"} \cup UNION {ToSet(Inner[c]) : c \in Containers}

Parent(w) ==
    IF w \in {"app", Nobody} THEN Nobody
    ELSE CHOOSE c \in Containers : Contains(Inner[c], w)

\* The sets of widgets the cursor can be over.  The window's upper edge is not
\* part of the application's geometry; the content of the panel, scrolled,
\* reaches beyond it, nothing else does.
Overs == {o \in SUBSET Widgets : "app" \in o \/ o \subseteq {"asGrid"}}

VARIABLES
    over,       \* the widgets whose geometry() contains the cursor
    hover,      \* _isHovered of each widget, _latestHoveredShape of containers
    deepest,    \* _deepestHoveredShape
    settled     \* history: no widget was animated since the cursor moved

vars == <<over, hover, deepest, settled>>

Init ==
    /\ over = {}
    /\ hover = [isHovered |-> [w \in Widgets |-> FALSE],
                latest |-> [c \in Containers |-> Nobody]]
    /\ deepest = Nobody
    /\ settled = TRUE

(***************************************************************************)
(* _checkIfMouseOver(): what it makes of the hover state h when the cursor *)
(* is over the widgets in o, and what it returns.                          *)
(***************************************************************************)
Found(h, w) == [hover |-> h, deepest |-> w]

UpdateLatest(h, c, w) == [h EXCEPT !.latest[c] = w]

UpdateHovered(h, w, o) == [h EXCEPT !.isHovered[w] = w \in o]

RECURSIVE CheckIfMouseOver(_, _, _), CheckInner(_, _, _, _, _)

\* Mutant of CheckInner: the child found last wins over the ones above it.
CheckInnerLatestFirst(c, i, h, deepestLatest, o) ==
    LET latest == h.latest[c]
        inner == Inner[c][i]
        checked == CheckIfMouseOver(inner, h, o)
    IN  IF latest \notin {c, Nobody} /\ h.isHovered[latest] THEN
            Found(h, deepestLatest)
        ELSE IF i > Len(Inner[c]) THEN Found(UpdateLatest(h, c, c), c)
        ELSE IF checked.hover.isHovered[inner] THEN
            Found(UpdateLatest(checked.hover, c, inner), checked.deepest)
        ELSE CheckInner(c, i + 1, checked.hover, deepestLatest, o)

\* The loop over _innerShapes, from the i-th on.
CheckInner(c, i, h, deepestLatest, o) ==
    LET inner == Inner[c][i]
        checked == CheckIfMouseOver(inner, h, o)
    IN  IF i > Len(Inner[c]) THEN Found(UpdateLatest(h, c, c), c)
        ELSE IF inner = h.latest[c] /\ h.isHovered[inner] THEN
            Found(h, deepestLatest)
        ELSE IF checked.hover.isHovered[inner] THEN
            Found(UpdateLatest(checked.hover, c, inner), checked.deepest)
        ELSE CheckInner(c, i + 1, checked.hover, deepestLatest, o)

\* Container::_checkIfMouseOver(): the latest child first, then the container
\* itself, then its children.
CheckContainer(c, h, o) ==
    LET latest == h.latest[c]
        first == IF latest \in {c, Nobody} THEN Found(h, Nobody)
                 ELSE CheckIfMouseOver(latest, h, o)
        self == UpdateHovered(first.hover, c, o)
    IN  IF ~self.isHovered[c] THEN Found(UpdateLatest(self, c, Nobody), Nobody)
        ELSE CheckInner(c, 1, self, first.deepest, o)

\* Hoverable::_checkIfMouseOver() for the widgets without children.
CheckHoverable(w, h, o) ==
    Found(UpdateHovered(h, w, o), IF w \in o THEN w ELSE Nobody)

CheckIfMouseOver(w, h, o) ==
    IF w \in Containers THEN CheckContainer(w, h, o) ELSE CheckHoverable(w, h, o)

(***************************************************************************)
(* Who handles an event of the wheel: _propagateEvent() asks the deepest   *)
(* hovered widget, then what contains it, and so on.  It does not change   *)
(* what is hovered, so it is no action here.                               *)
(***************************************************************************)
ScrollHandlers == {"app", "asPanel"}    \* the Scroll_EH widgets

\* Mutant of PropagateEvent: a widget that does not scroll passes the event
\* to the application.
PropagateEventToApp(target) ==
    IF target \in ScrollHandlers \cup {Nobody} THEN target ELSE "app"

RECURSIVE PropagateEvent(_)
PropagateEvent(target) ==
    IF target \in ScrollHandlers \cup {Nobody} THEN target ELSE PropagateEvent(Parent(target))

(***************************************************************************)
(* Actions                                                                 *)
(***************************************************************************)
\* mouseMoveEvent() up to _traverseForHovered().
MouseMove ==
    \E o \in Overs :
        LET found == CheckIfMouseOver("app", hover, o)
        IN  /\ over' = o
            /\ hover' = found.hover
            /\ deepest' = found.deepest
            /\ settled' = TRUE

\* An animation changes a geometry: nobody checks.
GeometryChange ==
    /\ \E w \in Widgets \ {"app"} : over' = SymDiff(over, {w})
    /\ over' \in Overs
    /\ settled' = FALSE
    /\ UNCHANGED <<hover, deepest>>

Next == MouseMove \/ GeometryChange

Spec == Init /\ [][Next]_vars

(***************************************************************************)
(* Properties                                                              *)
(***************************************************************************)
\* w shows at the cursor: the cursor is over it and over all that contains
\* it, and over nothing that comes before any of these in its container.
Before(w) ==
    LET inner == Inner[Parent(w)]
    IN  {inner[i] : i \in {i \in DOMAIN inner : \E j \in DOMAIN inner : i < j /\ inner[j] = w}}

\* A widget and what contains it (the tree is four levels deep).
Path(w) ==
    {w, Parent(w), Parent(Parent(w)), Parent(Parent(Parent(w)))} \ {Nobody}

Shows(w) ==
    /\ Path(w) \subseteq over
    /\ \A v \in Path(w) \ {"app"} : Before(v) \cap over = {}

\* Whatever the containers remember, stale or not, the search ends at the
\* widget that shows at the cursor: the last of its path none of whose children
\* the cursor is over, children that come first ("order is important",
\* USApplication.cpp:145) having precedence (Container.hpp:79-113).
DeepestShows ==
    settled =>
        IF "app" \notin over THEN deepest = Nobody
        ELSE /\ deepest # Nobody
             /\ Shows(deepest)
             /\ deepest \in Containers => ToSet(Inner[deepest]) \cap over = {}

\* The wheel scrolls the panel while the cursor is over it, wherever in it and
\* whatever was hovered before, and zooms the map elsewhere in the window; the
\* selector's button covers the panel (AppContainer.hpp:49-51,123-139).
WheelFollowsCursor ==
    settled =>
        PropagateEvent(deepest) =
            IF "app" \notin over THEN Nobody
            ELSE IF "asPanel" \in over /\ "asButton" \notin over THEN "asPanel"
            ELSE "app"
=============================================================================
