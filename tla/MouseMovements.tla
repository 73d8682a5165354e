--------------------------- MODULE MouseMovements ---------------------------
(***************************************************************************)
(* MouseMovements (src/app/widgets/navigation): the movements of a drag    *)
(* are kept in a buffer, from which the release computes how far the       *)
(* camera goes on by itself.  Old movements leave the buffer, paid for by  *)
(* credits of time, once the drag has lasted for a while.                  *)
(*                                                                         *)
(* Vectors are integers.  The clock is told by the milliseconds that pass  *)
(* between two events; it does not step back.                              *)
(***************************************************************************)
EXTENDS Integers, Sequences, SequencesExt

CONSTANTS
    ACCELERATION_THRESHOLD_MS,
    Delays,             \* milliseconds between two events
    Vectors,            \* movements of the mouse
    MaxMoves            \* bound: how many movements a drag has

ASSUME MouseMovementsAssumption ==
    /\ ACCELERATION_THRESHOLD_MS \in Nat
    /\ Delays \subseteq Nat
    /\ Vectors \subseteq Int

VARIABLES
    mm,                 \* the fields of the object; buffer holds <<time, vector>>
    released,           \* what computeAccelerationBuffer() just returned
    base,               \* history: how long the drag lasted within the threshold
    moves               \* history: the vectors of the drag

movementsVars == <<mm, released, base, moves>>

\* _accelBuffer, _accelCumulator, _accelMs, _accelBufferCount,
\* _accelMsPassedTotal, _accelMsPassedLast and _timeCredits.
resetAccelerationBuffer ==
    [buffer |-> << >>, cumulator |-> 0, ms |-> 0, count |-> 0,
     total |-> 0, last |-> 0, credits |-> 0]

\* What a release computes its vector from: none, or the sum of the samples,
\* their number and their time.
NoTranslation == [cumulator |-> 0, samples |-> 0, ms |-> 0]

MovementsInit ==
    /\ mm = resetAccelerationBuffer
    /\ released = NoTranslation
    /\ base = 0
    /\ moves = << >>

\* The first sample of a drag is not compared with anything.
updateAccelerationTime(m, delay) ==
    IF m.count = 0 THEN m
    ELSE [m EXCEPT !.last = delay, !.total = @ + delay, !.ms = @ + delay]

Pushed(m, v) ==
    [m EXCEPT !.cumulator = @ + v, !.count = @ + 1, !.buffer = Append(@, <<m.last, v>>)]

SumOf(samples, i) ==
    FoldLeft(LAMBDA a, b : a + b, 0, [k \in DOMAIN samples |-> samples[k][i]])

\* How many samples the credits pay for, oldest first.
Paid(buffer, credits) ==
    CHOOSE n \in 0..Len(buffer) :
        /\ SumOf(SubSeq(buffer, 1, n), 1) <= credits
        /\ n < Len(buffer) => SumOf(SubSeq(buffer, 1, n + 1), 1) > credits

PopFront(m, n) ==
    LET gone == SubSeq(m.buffer, 1, n)
    IN  [m EXCEPT !.credits = @ - SumOf(gone, 1), !.ms = @ - SumOf(gone, 1),
                  !.cumulator = @ - SumOf(gone, 2), !.buffer = SubSeq(@, n + 1, Len(@))]

\* Mutant of mayReduce: the credits are not spent.
mayReduceUnspent(m) ==
    LET credits == m.credits + m.last
        n == Paid(m.buffer, credits)
    IN  IF m.total > ACCELERATION_THRESHOLD_MS
        THEN [PopFront(m, n) EXCEPT !.credits = credits] ELSE m

\* _mayReduceAccelerationBuffer()
mayReduce(m) ==
    LET credited == [m EXCEPT !.credits = @ + m.last]
    IN  IF m.total > ACCELERATION_THRESHOLD_MS
        THEN PopFront(credited, Paid(credited.buffer, credited.credits)) ELSE m

\* Mutant of getAccelerationTranslation: only an empty buffer is looked for.
getAccelerationTranslationOfNoTime(m) ==
    IF m.buffer = << >> THEN NoTranslation
    ELSE [cumulator |-> m.cumulator, samples |-> Len(m.buffer), ms |-> m.ms]

getAccelerationTranslation(m) ==
    IF m.buffer = << >> \/ m.ms = 0 THEN NoTranslation
    ELSE [cumulator |-> m.cumulator, samples |-> Len(m.buffer), ms |-> m.ms]

addToAccelerationBuffer(delay, v) ==
    LET timed == updateAccelerationTime(mm, delay)
    IN  /\ Len(moves) < MaxMoves
        /\ mm' = mayReduce(Pushed(timed, v))
        /\ base' = IF timed.total > ACCELERATION_THRESHOLD_MS THEN base ELSE timed.total
        /\ moves' = Append(moves, v)
        /\ released' = NoTranslation

computeAccelerationBuffer(delay) ==
    /\ released' = getAccelerationTranslation(mayReduce(updateAccelerationTime(mm, delay)))
    /\ mm' = resetAccelerationBuffer
    /\ base' = 0
    /\ moves' = << >>

\* stopAnim() of MouseMoveHelper, by Esc or by another press of the button:
\* a drag of no duration is not reset (isComputing()).
stopAnim ==
    /\ mm.total # 0
    /\ mm' = resetAccelerationBuffer
    /\ base' = 0
    /\ moves' = << >>
    /\ UNCHANGED released

MovementsNext ==
    \/ \E delay \in Delays, v \in Vectors : addToAccelerationBuffer(delay, v)
    \/ \E delay \in Delays : computeAccelerationBuffer(delay)
    \/ stopAnim

MovementsSpec == MovementsInit /\ [][MovementsNext]_movementsVars

(***************************************************************************)
(* Properties                                                              *)
(***************************************************************************)
\* The buffer is a window on the last movements of the drag, with the sums that
\* are kept by adding and subtracting.  It spans the time it did when the drag
\* came to its threshold, plus less than its oldest sample: it neither grows
\* nor dries up afterwards.  A mouse that first rests for longer than the
\* threshold leaves nothing to span (MouseMovements.hpp:48-59, 133-152).
WindowKeepsItsLength ==
    /\ mm.cumulator = SumOf(mm.buffer, 2)
    /\ mm.ms = SumOf(mm.buffer, 1)
    /\ IsSuffix([i \in DOMAIN mm.buffer |-> mm.buffer[i][2]], moves)
    /\ mm.total > ACCELERATION_THRESHOLD_MS =>
        /\ mm.ms = base + mm.credits
        /\ mm.buffer # << >> => mm.credits < Head(mm.buffer)[1]

\* The camera goes on from what was recent: without the oldest sample, those a
\* release takes into account are no older than the threshold, and their time,
\* which it divides by, is not 0 (MouseMovements.hpp:116-131).
ReleaseIsOfRecent ==
    /\ released.samples # 0 => released.ms > 0
    /\ mm.buffer # << >> => mm.ms - Head(mm.buffer)[1] <= ACCELERATION_THRESHOLD_MS
=============================================================================
