# A verification project for UnderStory

TLA+ models of UnderStory's network layer, its update check, its asset store
and its user interface, the TLC configurations that check them on small
instances, and TLAPS proofs of the properties that matter most. Every
definition is translated from the code under `src/`; `PROJECT.json` maps each
one to its lines.

## 1. The system

UnderStory is a desktop application (Magnum/SDL) with a small client/server
layer (standalone asio, protobuf payloads), a local asset store and an update
check. Its parts, their state and how they interact:

| part | state | operations | talks to |
|---|---|---|---|
| `AtomicQueue` | a `std::queue`, an atomic "empty" flag, a mutex, a condition variable | `push`, `front`, `pop`, `popIntoQueue`, `empty`, `waitToBeFilled` | shared by the io thread and the processing thread |
| `IPayloadProcessor` | a local batch | `processPayloadQueue` | waits on the queue, calls back the application |
| `PayloadLogger` | a trace being built, committed traces, speed traces | `logNewPayload`, ..., `commitLog` | base of every sender and receiver |
| `IPayloadSender` | outgoing queue, one buffer, an offset, a flag | `_sendPayload`, three write handlers, an error handler | asio socket |
| `IPayloadReceiver` | incoming queue, one buffer, an offset, a flag | `_startReceiving`, three read handlers, an error handler | asio socket, pushes into the queue |
| `ClientSocket`, `IClientImpl` | the connection attempt, the heartbeat timer | constructor, connect handler, `_heartbeating`, `initiateHandshake`, `_asyncSendPayload` | posts to its io_context |
| `Server`, `SpawnedSocket` | acceptor, spawn counter, list of sockets, one shared queue | `_acceptConnections`, `start` | receivers push, one thread processes |
| `UpdateChecker` (core, app) | a `std::future`, a "resolved" flag; the task's two component maps | `start`, `poll`, `_isNewerVersionAvailable`, `tryToLaunchUpdater` | `DownloadHTTPFile` on another thread, polled by `drawEvent` |
| `Context` | a directory, and whether it is temporary | `normal`, `custom`, `random`, copies, the destructor | the file system |
| `AssetContext`, `AssetIntegrator`, `FileIntegrator` | the asset database in memory, asset files, `resources.json` | `integrateAsset`, `_saveState`, `fetchAsset`, the constructor's reload | the file system, a `Context` |
| widget tree (`Container`, `Hoverable`) | hovered flags, the child found last, shapes and geometries | `_checkIfMouseOver`, `onViewportChange`, `_propagateMatrixChanges` | called by `AppContainer` |
| event routing (`AppContainer`, `Toggleable`, `MouseState`) | the deepest hovered widget, the locked one, toggle flags | press, move, release, wheel | the widgets' handlers |
| navigation (`KeyboardMoveHelper`, `MouseMoveHelper`, `MapScaleHelper`, `MouseMovements`) | acknowledged keys, momentum, two animators, the samples of a drag | key, mouse and wheel events, frames | one matrix, that of the map |
| animation (`PlayerMatrixAnimator`, `TimelineBound`) | a player, the value it goes from and to, the current one | start, stop, keyframe, `advance` | `drawEvent` |
| scrolling (`ScrollablePanel`, `Scroller`, `ScrollerHandle`, `Scissorable`) | a translation, the matrices of content, handle and panel | wheel, drag of the handle, toggling, resizing | the animators, the widget tree |
| `SelectionRectState` | the corners as vertices and as pixels | `init`, `update`, `end`, `resetSelection` | the shader, the snapshot zoom |

What is hard here:

* **Threads.** A queue is filled by the thread of an io_context and drained by
  the thread that called `processPayloadQueue`; `push` notifies after it has
  unlocked, and the wait has no predicate.
* **Asynchronous handlers.** A payload is three or more `async_write`s or
  `async_read`s, each started by the handler before it, over one buffer that
  the operations point into. Anything posted to the io_context runs in between.
* **Failure.** Writes fail before the connection is made and after it is lost.
  The payload stays in the queue, the offset stays where it was, nothing
  retries. A receiver stops for good. A download may fail at every step. The
  program may be killed between writing an asset and writing the database.
* **Order.** A frame has no marker: a reader that loses the boundary reads
  content as sizes.
* **Remembered state.** Containers remember the child that was hovered,
  widgets their geometry, the scroller its handle's place, animators the value
  they are at; each can be out of date when the next event comes.
* **Interruptions.** Two animators, a drag, the keyboard and Esc write the same
  matrix; wheel, drag and resize the same scroll position; a second mouse
  button the same lock. Any of them may come in the middle of another.

`PROJECT.json` lists these hazards at their lines, with the properties that
would catch them going wrong.

## 2. The modules

Network:

| module | models | state and actions |
|---|---|---|
| `AtomicQueue` | `network/AtomicQueue` | operators on a record of the items and the flag; one operator per critical section |
| `PayloadProcessor` | `AtomicQueue::push`/`waitToBeFilled`, `IPayloadProcessor` | producers' `PushLocked`, `NotifyAll`; the processing thread's `Call`, `WaitToBeFilled`, `SpuriousWakeup`, `Drain`, `Process`, `ProcessAndBreak` |
| `Server` | `network/Server`, `SpawnedSocket`; extends `PayloadProcessor`, whose one producer is the io thread | one action per handler |
| `Framing` | the layout of a frame on the wire | pure operators |
| `PayloadLogger` | `network/PayloadLogger` | three variables, shared by sender and receiver; operators for its methods |
| `PayloadSender` | `network/IPayloadSender`, `IPayloadHandler` | `SendPayload`, `OnTypeWritten`, `OnSizeWritten`, `OnChunkWritten`, `OnContentWritten`, `OnPayloadSendError`; the socket's `Connected`, `Disconnected`, `Transmit`, `FailWrite` (external) |
| `ClientSocket` | `network/ClientSocket`, `IClientImpl`; extends `PayloadSender` | one action per handler |
| `PayloadReceiver` | `network/IPayloadReceiver` | `StartReceiving`, `OnTypeRead`, `OnSizeRead`, `OnChunkRead`, `OnContentRead`, `OnPayloadReceiveError`; the peer and the connection (external) |
| `PayloadChannel` | abstract: what a connection promises | `Submit`, `Deliver` |
| `Connection` | extends `PayloadSender`, with an instance of `PayloadReceiver` and the bytes between them | implements `PayloadChannel`, and the receiver's own specification with the real sender as its peer |

Update check and assets:

| module | models | state and actions |
|---|---|---|
| `UpdateChecker`, `MCUpdateChecker` | `core/UpdateChecker`, `app/utility/UpdateChecker`, `network/helpers/HTTPDownloader` | `Start`, the task's steps, `PollAnswer`, `PollException`; the manifests of the run |
| `Context` | `base/Context` | directories, files and live objects; construction, copy, destruction, the death of the program |
| `AssetStore`, `MCAssetStore` | `core/AssetIntegrator`, `FileIntegrator`, over `Context`; the hash is a constant | opening a store, `integrateAsset` in four writes, `fetchAsset`; the files of the run |
| `Fnv1a` | `core/hash_fnv1a`, the value `MCAssetStore` gives to that constant | a pure operator |

User interface:

| module | models | state and actions |
|---|---|---|
| `Animator` | `animation/PlayerMatrixAnimator`, and Magnum's player (external) | operators on an animator |
| `KeyboardMoveHelper` | `navigation/KeyboardMovements`, `KeyboardMoveHelper` | keys, momentum; press, release, stop, advance |
| `Camera`, `MCCamera` | the map's matrix with the three helpers that move it, `MouseMoveHelper`, `MapScaleHelper`, `KeyboardMoveHelper`, and `TimelineBound` | press, drag, release, wheel, snapshot zoom, keys, Esc, a frame |
| `AppEvents` | `base/AppContainer`, `Toggleable`, `MouseState`, the button and the handle, `USApplication`'s handlers | `Press`, `Release`, `Move`, `Viewport` |
| `SelectionRect` | `shaders/selectRect/SelectionRectState` | start, update, end, resize |
| `MouseMovements` | `navigation/MouseMovements` | a sample, a release, a stop |
| `Scrolling` | `scroll/*` along the axis that scrolls | wheel, drag, resize, toggle, a frame |
| `Layout` | `Container::onViewportChange` and the `_availableSpaceChanged` of panel, scroller, handle and grid | resize, slide, scroll |
| `Hovering` | `base/Container`, `Hoverable`, `AppContainer::_propagateEvent` | the search for the hovered widget, an animation under the cursor |
| `HoverLooks` | `text/ShortcutsText`, `atomSelector/AtomSelectorButton` | hover, press, release, a frame |
| `MCMouse`, `MCPanel`, `MCHover` | instances: `AppEvents` + `SelectionRect` + `MouseMovements`, `Scrolling` + `Layout`, `Hovering` + `HoverLooks` | an execution is one of a part, chosen at the start |

The last three are sums, not products: the parts of each share no variable, and
each includes as free choices whatever the other could do to it (a move may
find any widget, an animation may change any geometry, the cursor may enter or
leave at any time). Interleaving them would multiply the states and add no
state to any part.

Proofs: `ServerProofs` (`PayloadProcessor`, `Server`), `ConnectionProofs`
(`PayloadSender`, `PayloadReceiver`, `Connection`), `UpdateCheckerProofs`,
`AssetStoreProofs` (with `Context`), `CameraProofs` (with
`KeyboardMoveHelper`), `MouseProofs` (`AppEvents`, `SelectionRect`,
`MouseMovements`, and `MCMouse` where one mouse button at a time matters) and
`PanelProofs` (`Scrolling`, `Layout`, `HoverLooks`). `SumTheorems` holds what
`ConnectionProofs` and `MouseProofs` use about sums of sequences.

Abstractions, and why they are enough:

* *Payloads.* The n-th payload is the number n with a content size; its bytes
  are the pairs of n and a position. That is what tells a repeated, skipped or
  foreign byte from the right one. Protobuf is left out.
* *The wire.* Its units are the type, the size and single bytes of content.
  asio's composed reads and writes complete only when they have all of a type
  or a size, so where those are cut makes no difference.
* *The buffer.* The writes point into `_buf`. `Transmit` reads it when the
  socket takes the bytes; if it was assigned in between, what the memory holds
  is a nondeterministic choice.
* *Sizes.* Unsigned subtraction is modulo `SizeModulus`.
* *Manifests.* The sequence of Name and Version tags; versions are sequences of
  numbers, turned into text where the code compares text.
* *Handlers.* Everything on one io_context is one thread, so a handler is one
  action. `push` is split where it unlocks, because another thread sees it.
* *Files.* A write is opening (which empties the file) and writing; the program
  may be killed in between. A content is a short sequence of bytes, one of them
  a blank where the code stops at blanks. The hash is any function of a
  content; TLC's is the code's algorithm with `HashBits` bits. A file's format is part of it, so reading JSON as binary
  protobuf fails the way it does in the code.
* *Geometry.* Lengths and positions are integers in units that make the
  divisions exact, or are rounded the way integers are in the code. The map has
  one dimension, because the helpers treat both alike; the layout has two. A
  matrix that only translates is a vector.
* *Time.* A frame takes a number of ticks of a small set. Easings are linear:
  they are monotonic and lead from 0 to 1, and the properties ask for the two
  ends and for being in between.
* *Hovering.* A geometry matters by whether it contains the cursor, and "over"
  is any set of widgets.

`Overlap` (a constant of `PayloadSender`) says whether a payload may be
submitted while a write is outstanding. The code does nothing to prevent it:
`Overlap = TRUE` is what the program can do, and there its framing and its
assertions fail (below). `Overlap = FALSE` restricts the callers to payloads
that are far enough apart, as a handshake and heartbeats every ten seconds
usually are, and shows that the rest of the design holds.

Definitions named for a slip (`DrainCopying`, `CheckInnerLatestFirst`, ...) are
broken variants of the definition below them. They are not part of any
specification; each one is what some property is there to catch
(`PROJECT.json`, "mutants").

## 3. The runs

`cd tla && tlc -workers 2 -config <cfg> <module>`.

| run | what it asks | bounds |
|---|---|---|
| `server` | Is every payload in exactly one place, in push order (`InOrder`), and is what comes under a spawn identifier what one client sent, in its order (`ClientOrderKept`)? Who can miss a wake-up (`LaterPushWillNotify`), and does a notification rescue the rest (`NotifiedQueueDrains`)? Is every client accepted (`WaitingClientAccepted`)? | 2 clients, 2 payloads each, 1 accept error: a batch of more than one, a break with payloads left in the batch and in the queue, a push in flight meanwhile |
| `client_socket` | Does the wire hold frames, whatever fails (`WireHoldsFrames`)? When is a payload popped (`PoppedWasSent`)? Where can the offset point (`OffsetBelongsToHead`), do assertions hold (`NoAssertFailure`), do traces account for attempts (`OneTracePerAttempt`)? Do handshakes posted at any time reach the server (`HandshakesReachTheWire`)? | handshakes of 5 bytes and heartbeats of none with chunks of 2 (no content; two full chunks and a short one), 3 handshakes, 6 payloads, `SizeModulus` 16, `Overlap = FALSE` |
| `connection` | Do both ends together implement `PayloadChannel` (`ImplementsChannel`)? Is the sender the peer the receiver assumes (`SenderIsThePeer`)? Is a popped payload delivered (`PoppedIsDelivered`), and do the receiver's traces account for payloads and bytes (`TracesAccount`)? | sizes 0, 2, 5 with chunks of 2, 2 payloads; either end loses the connection after any unit |
| `update_checker` | Is the answer right for every pair of manifests, also cut ones (`AnswerIsRight`)? Is it acted on once (`LaunchedOnce`), and in the end (`CheckEnds`)? | every pair of manifests with up to two entries over two names and two versions, with stray tags, empty and repeated names; 2 endpoints |
| `asset_store` | Do records on disk have their files (`RecordsHaveFiles`)? Is what is fetched what was integrated (`FetchedIsIntegrated`)? Do temporary directories go (`NoTemporaryLeft`)? | 2 objects that may be copies of each other or share a folder, 3 source files (two of the same content), 2 integrations, one temporary and one custom folder, a program killed anywhere |
| `camera` | Does the scale stay in its limits (`ScaleInBounds`), does Esc hold (`ResetHolds`), does the camera follow the keys (`DirectionFollowsKeys`) and come to rest (`CameraComesToRest`)? | 4 inputs of any kind among frames of 1 or 2 ticks, animations of 3 ticks, the two keys of one axis (the axes are independent) |
| `mouse` | Do buttons look the way they are (`ButtonsLookRight`)? With one mouse button at a time, is nothing left over when it is released (`GesturesEnd`)? Do the two sets of coordinates of the selection agree (`BorderFits`)? Does the window of samples keep its sums and its length (`WindowKeepsItsLength`), and what does a release make of it (`ReleaseIsOfRecent`)? | up to 3 buttons at a time; windows of 4x3, 3x4 and 5x5 pixels; drags of 6 samples, 0 to 5 ms apart, threshold 3 ms |
| `panel` | Do content and handle stay in step (`HandleTracksContent`), does the content move towards where it was scrolled (`ScrollsTowardsTarget`), does the panel end where it was sent (`PanelEndsWithinAFrame`)? Is the space divided (`SpaceIsDivided`), are panel, scroller and handle hovered where they are drawn (`HoveredWhereDrawn`)? | 5 inputs among frames, 2 window sizes per dimension, panels on each side |
| `hover` | Is the widget that shows at the cursor found, whatever is remembered (`DeepestShows`)? Who gets the wheel (`WheelFollowsCursor`)? Do text and button go on from where they are (`LooksNeverJump`)? | the application's whole tree with every set of widgets under the cursor; 5 inputs among frames |

Bounds on inputs are such that each kind of input can interrupt each other one
and be interrupted again before its animation ends.

Deadlock is not checked in the runs of the network and the update check: those
models stop when their bounded payloads are used up, and the program may, too
(a receiver that failed, a check that is done). The others are checked: a frame
can always be drawn, a store always be opened or closed.

Runs that are expected to fail, each showing a disagreement between the code
and what the repository says of it:

| run | what it shows |
|---|---|
| `payload_processor_lost_wakeup` | `EveryPayloadProcessed` fails: a payload pushed before the wait stays in the queue until the next push. The network test relies on it being processed. |
| `client_overlap_frames` | `FramesDoNotMix` fails: `_isProcessing` is never set by the sender, so a payload posted during a write starts a second chain of writes. |
| `asset_store_reload` | `ReadsSavedState` fails: the database is saved as JSON and read as binary protobuf, so a store that is opened again is empty. |

### Observations

What the models also show, met while they were written, and stated by no run:

* *Versions* are compared as text: local 0.9 and remote 0.10 count as up to
  date (`UpdateChecker.hpp:123`). `AnswerIsRight` holds for numbers of one
  digit. The test (`tests/ci_tests/update_checker.cpp:11`) passes the remote
  version where the function takes the local one.
* *A download cut in the middle* is taken for the whole manifest, although the
  comment says "Read until EOF" (`HTTPDownloader.cpp:102`): the components that
  are missing from it announce an update. An exception of the download leaves
  `poll()` uncaught and ends the application (`PollException`).
* *Overlapping writes* pop the queue once per chain, so that the assertion in
  `AtomicQueue::pop()` fails (`NoAssertFailure` with `Overlap = TRUE`).
* *Fetching an asset* with `operator>>` stops at the first blank
  (`AssetIntegrator.hpp:67`); `FetchedIsIntegrated` says "up to its first
  blank" for that reason.
* *A covered widget* that was hovered before a sibling above it took over keeps
  `isHovered()` when the cursor leaves both at once (`Container.hpp:80`).
* *A key released late*, after Esc or the mouse cancelled its movement, wipes
  out the momentum another key left (`KeyboardMovements.hpp:45`), and the
  keyboard, which never calls `_startAnim()`, excludes nothing
  (`USApplication.cpp:83`).
* *The last frame* of an animation is computed and not applied
  (`PlayerMatrixAnimator.hpp:57`): movements end up to a frame short, which is
  what `PanelEndsWithinAFrame` bounds for the panel.
* *Two events in one frame*, of the wheel or of hovering the text, start the
  second animation from a value that the first one has reset
  (`Scrollable.hpp:54`); the properties about jumps say "once at most" for that
  reason.
* *A second mouse button*, released while the right one selects, clears the
  lock: the release of the right button then reaches nobody and the selection
  stays on the screen (`AppContainer.hpp:105`).
* *After a resize* the handle stays where the old window had it until it is
  dragged or scrolled (`ScrollerHandle.cpp:49`), and scrolling never updates
  the geometry of the content (`Scissorable.cpp:84`).

### Fairness

Only what a running scheduler gives: a thread that can take a step takes one
(`WF` on the processing thread's steps and on the notification after an
unlock), an io_context runs the handlers that are ready, an open connection
goes on taking and delivering bytes, the heartbeat timer expires, a connection
attempt ends one way or the other, and frames are drawn, because `drawEvent()`
ends in `redraw()`. Nothing is assumed of spurious wake-ups, of the user, of
the application's calls, of the callback's result, of the peer, of a connection
staying open, or of a download (it has no timeout). Liveness properties
therefore have an escape for a connection that is lost, and the one about the
camera is about users who leave the arrow keys alone.

## 4. The proofs

`tlapm <module>.tla` for each of the eight proof modules. Each result is for
every value of the constants that their assumptions admit; the invariants that
make the properties inductive are these.

**`ServerProofs`**. The processor: for any set of producers and any number of
payloads, `TypeOK`, `InOrder` and `LaterPushWillNotify` are invariants. They
are not inductive alone. `Drain` overwrites the local batch, which loses
payloads unless the batch is empty whenever the thread is not processing
(`BatchOnlyWhileProcessing`); and the push count at the start of a wait must
not lie in the future (`WaitedInThePast`). `IInv` adds these two. The steps rest
on three lemmas about sequences: appending at the end of the last place appends
to the concatenation, moving a head over a boundary leaves it unchanged, and
`1..n` in order extends to `1..n+1`.

The server: `ServerImplementsProcessor` shows that every behaviour of
the server, whatever its clients do, is one of `PayloadProcessor` with the io
thread as its one producer, so the results above hold for it.
`ServerKeepsClientOrder` is `ClientOrderKept` for any number of clients and
payloads. `ServerInv` joins the processor's `IInv` with `SocketInv`: spawn
identifiers are given once and not beyond the counter, a client that was not
accepted has no socket and sent nothing, every push has an origin, and what was
pushed under an identifier is what its client sent so far, in order. The order
of pushes then carries over to what is processed through `InOrder`.

**`ConnectionProofs`**. The sender: for any sizes, chunk size, width of
`size_t` that holds them and number of payloads, and for callers that wait
(`Overlap = FALSE`, a hypothesis of each theorem: without it `FramesDoNotMix`
is refuted), `TypeOK`, `OffsetBelongsToHead`, `NoAssertFailure` and
`OneTracePerAttempt` are invariants. The strengthening is `Outstanding`: there
is at most one chain of writes; while there is one, `_buf` is the head of the
queue, and what it writes or has written of the content stays inside the
content. From it follow that `pop()` finds a payload, that the offset a failed
attempt leaves belongs to the payload the next attempt takes up, and that the
unsigned subtraction does not wrap around. `WireInv` adds what is on the wire:
a stream of frames that ends where the outstanding write, or the attempt that
failed, has come to. It gives `WireHoldsFrames` and `PoppedWasSent`. Induction
over the stream is avoided by saying "a stream of frames" unit by unit
(`IsCutStream`: each unit follows from the one before it); that the frames
written one after the other are such a stream is an assumption TLC evaluates on
small streams (`CutStreamsAreFrames`), and no proof uses it. There is one lemma
per action.

The connection: `ConnectionInv` joins the sender's invariants with
`ReceiverInv`, for callers that wait (`CallersWait`, an assumption of
`Connection`). `ReceiverInv` says where the reads have come to (`ReadTo`): in
which frame, and how far in it, so that the read that is outstanding asks for
the unit that comes next (`ReadsInStep`). Beside that: what arrived is a
beginning of what the sender wrote (`Arrived`), the payloads pushed are the
first d submitted ones (`Pushed`), and their traces are complete
(`Accounted`). `ReceiverTracesAccount` is `TracesAccount`: the speeds reported
for a payload add up to its size. Both refinements follow step by step:
`SenderIsAlwaysThePeer` shows that the stream the sender makes is one the
receiver's own specification allows its peer, and `ConnectionImplementsChannel`
that every step is a `Submit`, a `Deliver` or nothing to the abstract channel.

**`SumTheorems`**: `FoldLeft` with `+` is a sum: that of the empty sequence is
0, and that of each beginning of a sequence is the one before it plus the next
element (`TotalOfParts`, `TotalAppend`). The library's induction theorems take
an operator as a parameter, which the provers cannot instantiate, so each
induction is by least counterexample: the set of the lengths at which a claim
fails has a least element (`LeastNat`), and the claim holds at the length
before it.

**`UpdateCheckerProofs`**: for any manifests, cut ones included, and any order
in which the loop compares, `AnswerIsRightInText` says the answer is the one
the texts of the versions give. With the hypothesis `TextOrderIsNumberOrder`,
which the code needs and does not ensure (see the observations),
`AnswerIsRightInNumbers` is `AnswerIsRight`. `UpdaterLaunchedOnce` is
`LaunchedOnce`. The loop's invariant (`LoopInv`) is that what it is done with is
found on the server and not newer there, and that exactly this is erased from
the remote components; the rest of `IInv` ties the future to the task.

**`AssetStoreProofs`**: for any number of objects, folders, source files and
integrations and a program killed at any point, `NoTemporaryLeft` and
`RecordsHaveFiles` are invariants, for every hash, and `FetchedIsIntegrated` is
one if no two contents collide (`NoCollision`: the code takes it for granted).
`ContextInv` says which kind of directory an object has and that persistent
ones stay. `StoreInv` says what `RecordsHaveFiles` needs between two writes: that
records in memory come from `integrateAsset`, that in a persistent folder they
have their files already, and that a saved database is never in the format it
would be read in. `FilesWhole` excepts only the file that is being written.

**`CameraProofs`**: for any duration, frame times, limits and vectors.
`ScaleStaysInBounds`: a zoom animation goes between two scalings inside the
limits, and interpolating never leaves them (`ZoomInv`). `CameraFollowsKeys`:
`KeyboardInv` relates the flags `_latestH` and `_latestV` to the order in which
the keys that are still acknowledged were pressed. `CameraStaysReset`:
`StillAfterReset` says that nothing plays and the keyboard is at rest, which a
late release of a key does not change.

**`MouseProofs`**: for any number of mouse buttons held together, pressed and
released in any order, `ButtonsLookRight`, `PanelFollowsButton` and
`LockedIsPressed` are invariants. Together with the types of the sets they are
about they are inductive. The lemma that carries the rest is `RefreshLooks`:
what a refresh does to the widgets it is about, and that it leaves the others
alone; a hover change that is ignored concerns only pressed buttons, which
`ButtonsLookRight` excepts, and the release that ends the exception refreshes.
`GesturesAlwaysEnd` is `GesturesEnd`: with one mouse button at a time there is
either nothing held and everything at rest, or one gesture, whose leftovers are
those its own release clears (`GestureInv`).

For windows of every size, `CornersComparable` and `BorderFits` are invariants.
`BorderFits` compares vertices with pixels, which are computed from the same
mouse position by different formulas, one with an integer division; the
strengthening says that, while there is a selection, each corner's vertex and
pixels are one point of the present window, and that the inner rectangle is the
padded one of the pixels. `MinMaxOfTwo` and `Standardized` give the least and
greatest of two coordinates, `PositionIsPoint` that the two formulas agree,
`FilledSide` that the filled side is the standardized one shifted by at most
half a pixel.

For any threshold and any drag, `WindowKeepsItsLength` and `ReleaseIsOfRecent`
of the mouse's samples are invariants. `MovementsInv` says that the buffer
holds the last movements of the drag, that its sums are those of its samples,
and that its time is what it was when the threshold was reached plus the
credits, which are less than its oldest sample. The loop that pays off samples
is said by what it ends with; `PaidIs` shows that there always is such an end:
some number of samples that the credits pay for, and not for one more.

**`PanelProofs`**: `ContentMovesTowardsTarget` is the action property
`ScrollsTowardsTarget` for any sizes, durations and frame times. Its invariant
(`OnItsWay`) is that the place last shown is a moment of the animation that
plays, not later than its present one, or, after one event of the wheel, that
the animation starts from there or from where an ended one was heading;
`LerpOnTheWay` shows that an interpolation, rounded down, does not turn back.
`PanelEndsNearItsState` is `PanelEndsWithinAFrame`: while the panel slides, the
last frame showed it where it was at most a frame ago (`Slides`), so that is
what is missing when the player stops. `HandleAlwaysTracksContent` is
`HandleTracksContent`: content and handle have a player each and start over
from where each of them is, and `HandleInv` says that the two animators are
equal member by member up to the ratio (`GoesAlong`). That an interpolation of
the one is one of the other needs lengths that the duration divides; an
interrupted animation starts from an interpolated length, so the lengths have
to be divisible once for every input to come. `UnitIsFine` says that the unit
is so fine, for any number of inputs (the code's lengths are floating point
numbers), and `Grained` how much of that is left after some of them.
`PanelEndsNearItsState` supposes a unit of length that makes
the way a multiple of the duration (`SlideIsExact`; the code's lengths are
floating point numbers, and a rounded one would need a unit more) and that
there is a longest frame (`LongestFrame`, without which the property has no
bound to speak of).

`SpaceIsDivided` and `HoveredWhereDrawn` of the layout are invariants for
windows of all sizes, panels on each side and any pixels and paddings for which
the scroller fits into the panel and the panel into the window
(`LayoutAssumption`). `LayoutInv` adds that the panel keeps the side of the
window it took first and that scroller and panel have the same matrix once the
panel has moved. `PanelIsDivided` computes the rectangles a resize makes, and
`InsideMoved` that moving two of them alike leaves one inside the other.

`HoveredLooksNeverJump` is `LooksNeverJump` for any sizes and times. `LooksInv`
says that what was drawn last is a moment of the animation not later than its
present one (`WasOnWay`); for the text, whose hovering starts from `current`,
which every start resets, it says so for one change since the last frame at
most.

Assumptions are those on the constants (`MaxPayloadsAssumption`,
`ServerAssumption`, `SenderAssumption`, `CallersWait`, `ContextAssumption`,
`MaxHeldAssumption`, `SizesAssumption`, `AnimatorAssumption`,
`ScrollingAssumption` and the others of that kind). TLC evaluates them in the runs, and so it does with the hypotheses
of single theorems: `OneDigitCompares`, `ContentsTellApart` and
`SlideAssumption` are these hypotheses for the constants of the runs.

Only model-checked:

* all liveness: `NotifiedQueueDrains`, `WaitingClientAccepted`,
  `HandshakesReachTheWire`, `PoppedIsDelivered`, `CheckEnds` and
  `CameraComesToRest`. Fairness is out of the prover's reach;
* `DeepestShows` and `WheelFollowsCursor`: the search through the tree is
  recursive, which the prover cannot follow. `Hovering` has no constants and no
  bounds, its tree is the application's, so TLC's search of all its states is
  complete.

## 5. Not modelled

Rendering, shaders, static text, translations, packaging, generated protobuf
code and logging set-up: no control that a property is about.
`time_t_timer.hpp` is a vendored asio sample. Of `USApplication`, the set-up of
fonts, shaders and buffers is left out. Timestamps, log output and the wording
of HTTP requests are left out of the modelled parts; `system_clock` is taken
not to step back during a drag. Unbounded growth (traces and speeds nobody
reads, heartbeats queued after the connection is lost, sockets of clients that
are gone) is there in the code and cut off by the bounds of the models.

## 6. Plan

1. **Done:** the network layer from the queue up to client and server with its
   abstract channel, the update check, contexts and the asset store, event
   routing, hovering, navigation, animation, scrolling, layout and selection;
   proofs about the hand-over, the server, both ends of a connection, the update
   check, the asset store, the camera, the mouse, the panel and what is hovered.
2. **Proofs:** done for every invariant, action property and refinement that
   the passing runs check, but for the two of `Hovering`. They are about the
   application's one tree of widgets; a proof for any tree would need the search
   as a recursive function, and the induction over the tree by least
   counterexample.
