------------------------------- MODULE MineDelta -------------------------------
(***************************************************************************)
(* The incremental miner, memem/mine_delta.py, seen from ONE session: the  *)
(* transcript Claude Code appends to, the per-session state files          *)
(* (.offsets/<sid>, .empty_streak/<sid>, the session's line in             *)
(* .mined_sessions), the per-session flock and the detached mine_delta     *)
(* processes ("workers") that hooks/stop-mine.sh and the stale sweep of    *)
(* hooks/session-start.sh spawn.  Sessions share no file but the mined     *)
(* list, which holds one independent line for each.                        *)
(*                                                                         *)
(* Positions in the transcript are counted in half records: record r lies  *)
(* between positions 2(r-1) and 2r, and a position that is odd is in the   *)
(* middle of a line that is still being written.                           *)
(***************************************************************************)
EXTENDS Integers, FiniteSets, FiniteSetsExt

CONSTANTS
  Worker,          \* slots for concurrently running mine_delta processes
  NoWorker,        \* the flock is free
  Blank,           \* .offsets/<sid> exists and is empty (just truncated)
  MaxRecords,      \* bound: records the transcript grows to
  InitialRecords,  \* records written before the user opted in to the miner
  TornAppends,     \* may a reader see half of a line being appended?
  TextSizes,       \* amounts of text a record may hold
  MinDelta,        \* _MIN_DELTA_CHARS
  StreakThreshold, \* _EMPTY_STREAK_THRESHOLD
  StreakSkip,      \* _EMPTY_STREAK_SKIP
  MaxCrashes       \* bound: mine_delta processes killed

ASSUME WorkerAssumption == NoWorker \notin Worker
ASSUME BlankAssumption == Blank \notin Int
ASSUME SizesAssumption ==
  /\ MaxRecords \in Nat
  /\ InitialRecords \in 0..MaxRecords
  /\ TornAppends \in BOOLEAN
  /\ TextSizes \subseteq Nat
  /\ MinDelta \in Nat
ASSUME StreakAssumption == StreakThreshold \in Nat \ {0} /\ StreakSkip \in Nat
ASSUME BoundsAssumption == MaxCrashes \in Nat

Record == 1..MaxRecords

LockedSteps == {"backoff", "tallyFound", "tallyEmpty", "save"}
Steps == {"idle", "offset", "delta", "lock", "truncate", "put", "record"} \cup LockedSteps

VARIABLES
  size,       \* end of the transcript, in half records
  text,       \* text[r]: how much text record r holds
  inTurn,     \* records were appended and the turn's Stop is still to come
  quiet,      \* the transcript was not touched for ten minutes
  offset,     \* contents of .offsets/<sid>: a position, or Blank
  streak,     \* contents of .empty_streak/<sid>: [count, skip]
  recorded,   \* the session has a line in .mined_sessions
  lock,       \* holder of the flock on .mine.<sid>.lock
  pc,         \* pc[w]: the step of run() that worker w takes next
  from,       \* from[w]: the offset w read
  eof,        \* eof[w]: how far w has read the transcript
  turns,      \* turns[w]: the records w parsed
  settled,    \* history: records some process parsed and is done with
  torn,       \* history: records some process moved past without parsing them
  rested,     \* history: deltas skipped by the backoff since the last tally
  garbled,    \* history: two overlapping writes left a number nobody wrote
  crashes     \* history: mine_delta processes killed so far

transcript == <<size, text, inTurn, quiet>>
locals == <<from, eof, turns>>
history == <<settled, torn, rested, garbled>>
vars == <<size, text, inTurn, quiet, offset, streak, recorded, lock, pc, from, eof,
          turns, settled, torn, rested, garbled, crashes>>

(***************************************************************************)
(* What a reader of the transcript gets: a line is parsed only if it lies  *)
(* between where a read began and where it ended; a line that straddles    *)
(* either end is not JSON and is dropped, while the position still moves   *)
(* past it.                                                                *)
(***************************************************************************)
Parsed(a, b) == {r \in Record : a <= 2 * (r - 1) /\ 2 * r <= b}
Touched(a, b) == {r \in Record : a < 2 * r /\ 2 * (r - 1) < b}

IsTrivialDelta(D) == MapThenSumSet(LAMBDA r : text[r], D) < MinDelta

\* Mutant: the ValueError of int("") is not caught.
ReadOffsetUncaught == offset

ReadOffset == IF offset = Blank THEN 0 ELSE offset

(***************************************************************************)
(* write_text truncates the file when it opens it and writes the digits at *)
(* position 0 when it closes it.  When another process has written a       *)
(* longer number in between, the digits land on top of its first ones.     *)
(***************************************************************************)
PowerOfTen == <<10, 100, 1000, 10000, 100000, 1000000, 10000000, 100000000>>
Width(n) == 1 + Cardinality({k \in 1..8 : PowerOfTen[k] <= n})
Overlay(n, old) ==
  IF old = Blank \/ Width(old) <= Width(n)
  THEN n
  ELSE LET tail == PowerOfTen[Width(old) - Width(n)] IN (n * tail) + (old % tail)

\* Worker w is done with its delta: what it parsed, what it moved past unparsed.
Settle(w) ==
  /\ settled' = settled \cup turns[w]
  /\ torn' = torn \cup (Touched(from[w], eof[w]) \ turns[w])

Goto(w, step) == pc' = [pc EXCEPT ![w] = step]

\* The process ends: what it had read is gone.
Exit(w) ==
  /\ Goto(w, "idle")
  /\ from' = [from EXCEPT ![w] = 0]
  /\ eof' = [eof EXCEPT ![w] = 0]
  /\ turns' = [turns EXCEPT ![w] = {}]
--------------------------------------------------------------------------------
Init ==
  /\ size = 2 * InitialRecords
  /\ text \in [Record -> TextSizes]
  /\ inTurn = (size > 0)
  /\ quiet = FALSE
  /\ offset = 0
  /\ streak = [count |-> 0, skip |-> 0]
  /\ recorded = FALSE
  /\ lock = NoWorker
  /\ pc = [w \in Worker |-> "idle"]
  /\ from = [w \in Worker |-> 0]
  /\ eof = [w \in Worker |-> 0]
  /\ turns = [w \in Worker |-> {}]
  /\ settled = {}
  /\ torn = {}
  /\ rested = 0
  /\ garbled = FALSE
  /\ crashes = 0

(***************************************************************************)
(* The environment: Claude Code and the two hooks                          *)
(***************************************************************************)

\* Claude Code appends a record, or first the half of one that a reader can see.
AppendRecord ==
  /\ size < 2 * MaxRecords /\ size % 2 = 0
  /\ size' = size + (IF TornAppends THEN 1 ELSE 2)
  /\ inTurn' = TRUE
  /\ quiet' = FALSE
  /\ UNCHANGED <<text, offset, streak, recorded, lock, pc, locals, history, crashes>>

\* The rest of a line becomes visible.
CompleteRecord ==
  /\ size % 2 = 1
  /\ size' = size + 1
  /\ inTurn' = TRUE
  /\ quiet' = FALSE
  /\ UNCHANGED <<text, offset, streak, recorded, lock, pc, locals, history, crashes>>

\* Ten minutes pass without a write: find -mmin +10 lists the transcript.
FallQuiet ==
  /\ ~quiet
  /\ size > 0 /\ size % 2 = 0
  /\ quiet' = TRUE
  /\ UNCHANGED <<size, text, inTurn, offset, streak, recorded, lock, pc, locals, history, crashes>>

\* A new process in slot w.
Spawn(w) ==
  /\ pc[w] = "idle"
  /\ Goto(w, "offset")
  /\ UNCHANGED <<size, text, quiet, offset, streak, recorded, lock, locals,
                 history, crashes>>

\* An assistant turn ends and the Stop hook spawns a miner.
StopHook(w) ==
  /\ inTurn /\ size % 2 = 0
  /\ inTurn' = FALSE
  /\ Spawn(w)

\* Another session starts and the sweep finds this transcript old and unlisted.
StaleSweep(w) ==
  /\ quiet
  /\ ~recorded
  /\ UNCHANGED inTurn
  /\ Spawn(w)

(***************************************************************************)
(* run(), one action per step                                              *)
(***************************************************************************)

\* 1. The offset, read before any lock is taken.
ReadOffsetFile(w) ==
  /\ pc[w] = "offset"
  /\ from' = [from EXCEPT ![w] = ReadOffset]
  /\ eof' = [eof EXCEPT ![w] = ReadOffset]
  /\ Goto(w, "delta")
  /\ UNCHANGED <<transcript, offset, streak, recorded, lock, turns, history, crashes>>

\* 2. One pass of "for raw in fh": everything up to the present end of file.
ReadDelta(w) ==
  /\ pc[w] = "delta"
  /\ eof[w] < size
  /\ turns' = [turns EXCEPT ![w] = @ \cup Parsed(eof[w], size)]
  /\ eof' = [eof EXCEPT ![w] = size]
  /\ UNCHANGED <<transcript, offset, streak, recorded, lock, pc, from, history, crashes>>

\* 2-3. End of file: no turns and trivial deltas go straight to the offset.
CheckDelta(w) ==
  /\ pc[w] = "delta"
  /\ eof[w] >= size
  /\ IF turns[w] = {} \/ IsTrivialDelta(turns[w])
       THEN Settle(w) /\ Goto(w, "truncate")
       ELSE UNCHANGED <<settled, torn>> /\ Goto(w, "lock")
  /\ UNCHANGED <<transcript, offset, streak, recorded, lock, locals,
                 rested, garbled, crashes>>

\* 4. The non-blocking flock.
TakeLock(w) ==
  /\ pc[w] = "lock"
  /\ lock = NoWorker
  /\ lock' = w
  /\ Goto(w, "backoff")
  /\ UNCHANGED <<transcript, offset, streak, recorded, locals, history, crashes>>

\* 4. Another invocation holds it: exit at once, listing nothing.
LoseLock(w) ==
  /\ pc[w] = "lock"
  /\ lock # NoWorker
  /\ Exit(w)
  /\ UNCHANGED <<transcript, offset, streak, recorded, lock, history, crashes>>

\* 5. The empty-streak backoff skips the delta.
SkipDelta(w) ==
  /\ pc[w] = "backoff"
  /\ streak.count >= StreakThreshold /\ streak.skip > 0
  /\ streak' = [streak EXCEPT !.skip = @ - 1]
  /\ rested' = rested + 1
  /\ Settle(w)
  /\ Goto(w, "truncate")
  /\ UNCHANGED <<transcript, offset, recorded, lock, locals, garbled, crashes>>

\* 5-6. No backoff: one Haiku call on the delta.  It returns candidates, none,
\* or fails, which run() treats as none.
Extract(w) ==
  /\ pc[w] = "backoff"
  /\ ~(streak.count >= StreakThreshold /\ streak.skip > 0)
  /\ \/ Goto(w, "tallyFound") /\ UNCHANGED <<settled, torn>>
     \/ Goto(w, "tallyEmpty") /\ Settle(w)
  /\ UNCHANGED <<transcript, offset, streak, recorded, lock, locals,
                 rested, garbled, crashes>>

\* Mutant: > for >= at the threshold.
TallyLate(w) ==
  /\ pc[w] \in {"tallyFound", "tallyEmpty"}
  /\ rested' = 0
  /\ IF pc[w] = "tallyFound"
       THEN /\ streak' = [count |-> 0, skip |-> 0]
            /\ Goto(w, "save")
       ELSE /\ streak' = [count |-> streak.count + 1,
                          skip |-> IF streak.count + 1 > StreakThreshold
                                   THEN StreakSkip ELSE 0]
            /\ Goto(w, "truncate")
  /\ UNCHANGED <<transcript, offset, recorded, lock, locals,
                 settled, torn, garbled, crashes>>

\* 7. The streak file after an extraction.
Tally(w) ==
  /\ pc[w] \in {"tallyFound", "tallyEmpty"}
  /\ rested' = 0
  /\ IF pc[w] = "tallyFound"
       THEN /\ streak' = [count |-> 0, skip |-> 0]
            /\ Goto(w, "save")
       ELSE /\ streak' = [count |-> streak.count + 1,
                          skip |-> IF streak.count + 1 >= StreakThreshold
                                   THEN StreakSkip ELSE 0]
            /\ Goto(w, "truncate")
  /\ UNCHANGED <<transcript, offset, recorded, lock, locals,
                 settled, torn, garbled, crashes>>

\* 8. The candidates reach the vault, by reconciliation or by its fallback.
SaveCandidates(w) ==
  /\ pc[w] = "save"
  /\ Settle(w)
  /\ Goto(w, "truncate")
  /\ UNCHANGED <<transcript, offset, streak, recorded, lock, locals,
                 rested, garbled, crashes>>

\* 9. _write_offset, first half: open(..., "w") truncates the file.
TruncateOffset(w) ==
  /\ pc[w] = "truncate"
  /\ offset' = Blank
  /\ Goto(w, "put")
  /\ UNCHANGED <<transcript, streak, recorded, lock, locals, history, crashes>>

\* Mutant: the file's size is taken again when the offset is written.
PutPresentSize(w) ==
  /\ pc[w] = "put"
  /\ offset' = size
  /\ Goto(w, "record")
  /\ UNCHANGED <<transcript, streak, recorded, lock, locals, history, crashes>>

\* 9. _write_offset, second half: the digits are flushed at close.
PutOffset(w) ==
  /\ pc[w] = "put"
  /\ offset' = Overlay(eof[w], offset)
  /\ garbled' = (garbled \/ Overlay(eof[w], offset) # eof[w])
  /\ Goto(w, "record")
  /\ UNCHANGED <<transcript, streak, recorded, lock, locals,
                 settled, torn, rested, crashes>>

\* Mutant: an early return forgets to list the session.
RecordIfLocked(w) ==
  /\ pc[w] = "record"
  /\ recorded' = (recorded \/ lock = w)
  /\ lock' = IF lock = w THEN NoWorker ELSE lock
  /\ Exit(w)
  /\ UNCHANGED <<transcript, offset, streak, history, crashes>>

\* 10. The session is listed as mined, and the flock, if held, released.
RecordSession(w) ==
  /\ pc[w] = "record"
  /\ recorded' = TRUE
  /\ lock' = IF lock = w THEN NoWorker ELSE lock
  /\ Exit(w)
  /\ UNCHANGED <<transcript, offset, streak, history, crashes>>

\* The process is killed (or an unhandled exception ends it).  The kernel drops
\* its flock; a state file it was rewriting may be left truncated, which the
\* next reader of the streak takes for zero.
Crash(w) ==
  /\ pc[w] # "idle"
  /\ crashes < MaxCrashes
  /\ crashes' = crashes + 1
  /\ lock' = IF lock = w THEN NoWorker ELSE lock
  /\ \/ UNCHANGED streak
     \/ /\ \/ pc[w] \in {"tallyFound", "tallyEmpty"}
           \/ pc[w] = "backoff" /\ streak.count >= StreakThreshold /\ streak.skip > 0
        /\ streak' = [count |-> 0, skip |-> 0]
  /\ Exit(w)
  /\ UNCHANGED <<transcript, offset, recorded, history>>

Step(w) ==
  \/ ReadOffsetFile(w) \/ ReadDelta(w) \/ CheckDelta(w)
  \/ TakeLock(w) \/ LoseLock(w)
  \/ SkipDelta(w) \/ Extract(w) \/ Tally(w) \/ SaveCandidates(w)
  \/ TruncateOffset(w) \/ PutOffset(w) \/ RecordSession(w)

Environment ==
  \/ AppendRecord \/ CompleteRecord
  \/ FallQuiet
  \/ \E w \in Worker : StopHook(w) \/ StaleSweep(w) \/ Crash(w)

Next == Environment \/ \E w \in Worker : Step(w)

Spec == Init /\ [][Next]_vars

\* A running process is scheduled, a begun line is completed, a quiet transcript ages, and the user keeps
\* starting sessions, each of which sweeps.
Fairness ==
  /\ \A w \in Worker : WF_vars(Step(w))
  /\ WF_vars(CompleteRecord)
  /\ WF_vars(FallQuiet)
  /\ WF_vars(\E w \in Worker : StaleSweep(w))

FairSpec == Spec /\ Fairness

\* Besides, no Stop is lost: every turn ends with one.
StopSpec == FairSpec /\ WF_vars(\E w \in Worker : StopHook(w))
--------------------------------------------------------------------------------
(***************************************************************************)
(* Properties                                                              *)
(***************************************************************************)

\* The variables stay in their types; an idle slot holds no locals.
TypeOK ==
  /\ size \in Nat
  /\ text \in [Record -> Nat]
  /\ inTurn \in BOOLEAN
  /\ quiet \in BOOLEAN
  /\ offset \in Nat \cup {Blank}
  /\ streak \in [count : Nat, skip : Nat]
  /\ recorded \in BOOLEAN
  /\ lock \in Worker \cup {NoWorker}
  /\ pc \in [Worker -> Steps]
  /\ from \in [Worker -> Nat]
  /\ eof \in [Worker -> Nat]
  /\ turns \in [Worker -> SUBSET Record]
  /\ settled \subseteq Record
  /\ torn \subseteq Record
  /\ rested \in Nat
  /\ garbled \in BOOLEAN
  /\ crashes \in 0..MaxCrashes

\* At most one process is between the flock and its release, and it is the
\* holder: run() steps 5 to 10 of a substantive delta.
MutualExclusion ==
  \A v, w \in Worker :
    pc[v] \in LockedSteps /\ pc[w] \in LockedSteps => v = w /\ lock = w

\* The stored offset never runs ahead of the work: whatever processes race
\* on it, are killed in between or read half a line, every record that begins
\* before it was parsed and disposed of, or passed unparsed because a read ended
\* inside it.  (Overlapping writes of numbers of different lengths, which leave a
\* third number, are excepted.)
AllBefore(p, S) == \A r \in Record : 2 * (r - 1) < p => r \in S

PrefixSettled == ~garbled => AllBefore(ReadOffset, settled \cup torn)

\* The backoff rests for exactly StreakSkip deltas: Haiku is called on a streak
\* of empty results only when that many deltas were skipped since the last one.
BackoffHonoured ==
  [][\A w \in Worker :
       Extract(w) /\ streak.count >= StreakThreshold => rested = StreakSkip]_vars

\* Every transcript that exists ends up in .mined_sessions, although lock
\* losers and killed processes leave without listing it: the sweep comes back.
EventuallyRecorded == size > 0 ~> recorded
================================================================================
