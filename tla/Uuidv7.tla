-------------------------------- MODULE Uuidv7 --------------------------------
(***************************************************************************)
(* generateUUIDv7: the millisecond and the counter that order the ids of a *)
(* process.  The widths of the counter and of its random seed are          *)
(* parameters.                                                             *)
(***************************************************************************)
EXTENDS Integers

CONSTANTS
  SeqMax,      \* 0xfff
  SeedMax,     \* 0x3ff, exclusive
  MaxCounter,  \* bound of the model: how far the counter runs past SeqMax
  Clock        \* values of Date.now(), which may go back

ASSUME UuidAssumption ==
  /\ SeqMax \in Nat \ {0} /\ SeedMax \in 1..SeqMax
  /\ MaxCounter \in Nat /\ Clock \subseteq Nat

VARIABLES
  lastMs, sequenceCounter,
  latest,      \* history: the latest id of a call without customTimestamp
  overwritten  \* history: a call with customTimestamp has replaced the counter since

idVars == <<lastMs, sequenceCounter, latest, overwritten>>

\* What orders an id among those of its process: the millisecond, then the bits
\* that are left of the counter.
Id(ms, n) == [ms |-> ms, bits |-> n % (SeqMax + 1)]

Above(x, y) == x.ms > y.ms \/ (x.ms = y.ms /\ x.bits > y.bits)

IdInit ==
  /\ lastMs = 0 /\ sequenceCounter = 0
  /\ latest = Id(0, 0) /\ overwritten = FALSE

\* Mutant: the counter starts again within the same millisecond.
RollOverInPlace(ms) == lastMs' = ms /\ sequenceCounter' = 0

\* The counter is full: the next millisecond is used early.
RollOver(ms) == lastMs' = ms + 1 /\ sequenceCounter' = 0

\* A call without customTimestamp, at time ms.
GenerateUUIDv7(ms) ==
  /\ \/ /\ ms > lastMs
        /\ lastMs' = ms
        /\ sequenceCounter' \in 0..SeedMax - 1
     \/ /\ ms = lastMs /\ sequenceCounter + 1 > SeqMax
        /\ RollOver(ms)
     \/ /\ ms = lastMs /\ sequenceCounter + 1 <= SeqMax
        /\ sequenceCounter' = sequenceCounter + 1
        /\ UNCHANGED lastMs
     \/ /\ ms < lastMs              \* the clock moved backwards
        /\ sequenceCounter < MaxCounter
        /\ sequenceCounter' = sequenceCounter + 1
        /\ UNCHANGED lastMs
  /\ latest' = Id(lastMs', sequenceCounter')
  /\ overwritten' = FALSE

\* A call with customTimestamp: that is the millisecond of its id, and the shared
\* counter is drawn anew.
GenerateCustom ==
  /\ sequenceCounter' \in 0..SeqMax - 1
  /\ overwritten' = TRUE
  /\ UNCHANGED <<lastMs, latest>>

IdNext == GenerateCustom \/ \E ms \in Clock : GenerateUUIDv7(ms)

\* The ids of a process increase, also across a full counter and with a clock that
\* stands still or goes back.  There are two exceptions.  The counter may run over
\* its bits while the clock is behind, where the code does not look for the
\* overflow.  And after a call with customTimestamp, whose own id stands outside
\* the order, the next one may fall below those of the same millisecond, not below
\* those of an earlier one.
IdsIncrease ==
  [][~overwritten' =>
       \/ Above(latest', latest)
       \/ sequenceCounter' # 0 /\ sequenceCounter' % (SeqMax + 1) = 0
       \/ overwritten /\ latest'.ms = latest.ms]_idVars
=============================================================================
