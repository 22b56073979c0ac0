---------------------------- MODULE MineDeltaProofs ----------------------------
(***************************************************************************)
(* The safety of the miner for any number of processes, transcripts of any *)
(* length, torn or whole appends and any number of crashes.                *)
(***************************************************************************)
EXTENDS MineDelta, FiniteSetTheorems, TLAPS

USE WorkerAssumption, BlankAssumption, SizesAssumption, StreakAssumption,
    BoundsAssumption

(***************************************************************************)
(* Type correctness                                                        *)
(***************************************************************************)

\* A number below a thousand million has one to nine digits.
LEMMA WidthType ==
  ASSUME NEW n \in Nat
  PROVE  Width(n) \in 1..9
<1> DEFINE D == {k \in 1..8 : PowerOfTen[k] <= n}
<1>1. IsFiniteSet(1..8) /\ Cardinality(1..8) = 8
  <2>1. /\ IsFiniteSet(1..8)
        /\ Cardinality(1..8) = IF 1 > 8 THEN 0 ELSE 8 - 1 + 1
    <3>1. 1 \in Int /\ 8 \in Int
      OBVIOUS
    <3> HIDE DEF D
    <3> QED BY <3>1, FS_Interval, Zenon
  <2> QED BY <2>1
<1>2. IsFiniteSet(D) /\ Cardinality(D) <= 8
  BY <1>1, FS_Subset, D \subseteq 1..8
<1>3. Cardinality(D) \in Nat
  BY <1>2, FS_CardinalityType
<1> QED BY <1>2, <1>3 DEF Width

\* The digits a write leaves behind make a number.
LEMMA OverlayType ==
  ASSUME NEW n \in Nat, NEW old \in Nat \cup {Blank}
  PROVE  Overlay(n, old) \in Nat
<1>1. CASE old = Blank \/ Width(old) <= Width(n)
  BY <1>1 DEF Overlay
<1>2. CASE ~(old = Blank \/ Width(old) <= Width(n))
  <2> DEFINE d == Width(old) - Width(n)
  <2>1. old \in Nat
    BY <1>2
  <2>2. d \in 1..8
    BY <1>2, <2>1, WidthType
  <2>3. PowerOfTen[d] \in Nat \ {0}
    BY <2>2 DEF PowerOfTen
  <2>4. n * PowerOfTen[d] \in Nat
    BY <2>3
  <2>5. old % PowerOfTen[d] \in Nat
    BY <2>1, <2>3
  <2>6. Overlay(n, old) = (n * PowerOfTen[d]) + (old % PowerOfTen[d])
    BY <1>2 DEF Overlay
  <2> QED BY <2>4, <2>5, <2>6
<1> QED BY <1>1, <1>2

\* What a finished delta adds to the history are records.
LEMMA SettleType ==
  ASSUME TypeOK, NEW w \in Worker, Settle(w)
  PROVE  settled' \subseteq Record /\ torn' \subseteq Record
BY DEF TypeOK, Settle, Touched

\* Every variable keeps its type, whatever the processes do.
THEOREM TypeCorrect == Spec => []TypeOK
<1>1. Init => TypeOK
  <2> SUFFICES ASSUME Init PROVE TypeOK
    OBVIOUS
  <2>1. size \in Nat /\ inTurn \in BOOLEAN
    BY DEF Init
  <2>2. text \in [Record -> Nat]
    BY DEF Init
  <2>3. streak \in [count : Nat, skip : Nat]
    BY DEF Init
  <2>5. /\ pc \in [Worker -> Steps]
        /\ from \in [Worker -> Nat]
        /\ eof \in [Worker -> Nat]
        /\ turns \in [Worker -> SUBSET Record]
    BY DEF Init, Steps
  <2>6. /\ lock = NoWorker /\ offset = 0 /\ rested = 0
        /\ crashes = 0 /\ crashes \in 0..MaxCrashes
        /\ settled = {} /\ torn = {}
        /\ quiet = FALSE /\ recorded = FALSE /\ garbled = FALSE
    BY DEF Init
  <2> QED
    BY <2>1, <2>2, <2>3, <2>5, <2>6 DEF TypeOK
<1>2. TypeOK /\ [Next]_vars => TypeOK'
  <2> SUFFICES ASSUME TypeOK, [Next]_vars PROVE TypeOK'
    OBVIOUS
  <2> USE DEF TypeOK, Steps, LockedSteps, Goto, transcript, locals, history
  <2>1. CASE AppendRecord
    <3>1. size' \in Nat
      BY <2>1 DEF AppendRecord
    <3> QED BY <2>1, <3>1 DEF AppendRecord
  <2>2. CASE CompleteRecord
    <3>1. size' \in Nat
      BY <2>2 DEF CompleteRecord
    <3> QED BY <2>2, <3>1 DEF CompleteRecord
  <2>3. CASE FallQuiet
    BY <2>3 DEF FallQuiet
  <2>4. ASSUME NEW w \in Worker, StopHook(w) PROVE TypeOK'
    BY <2>4 DEF StopHook, Spawn
  <2>5. ASSUME NEW w \in Worker, StaleSweep(w) PROVE TypeOK'
    BY <2>5 DEF StaleSweep, Spawn
  <2>6. ASSUME NEW w \in Worker, Crash(w) PROVE TypeOK'
    BY <2>6 DEF Crash, Exit
  <2>7. ASSUME NEW w \in Worker, ReadOffsetFile(w) PROVE TypeOK'
    BY <2>7 DEF ReadOffsetFile, ReadOffset
  <2>8. ASSUME NEW w \in Worker, ReadDelta(w) PROVE TypeOK'
    BY <2>8 DEF ReadDelta, Parsed
  <2>9. ASSUME NEW w \in Worker, CheckDelta(w) PROVE TypeOK'
    BY <2>9, SettleType DEF CheckDelta
  <2>10. ASSUME NEW w \in Worker, TakeLock(w) PROVE TypeOK'
    BY <2>10 DEF TakeLock
  <2>11. ASSUME NEW w \in Worker, LoseLock(w) PROVE TypeOK'
    BY <2>11 DEF LoseLock, Exit
  <2>12. ASSUME NEW w \in Worker, SkipDelta(w) PROVE TypeOK'
    BY <2>12, SettleType DEF SkipDelta
  <2>13. ASSUME NEW w \in Worker, Extract(w) PROVE TypeOK'
    BY <2>13, SettleType DEF Extract
  <2>14. ASSUME NEW w \in Worker, Tally(w) PROVE TypeOK'
    BY <2>14 DEF Tally
  <2>15. ASSUME NEW w \in Worker, SaveCandidates(w) PROVE TypeOK'
    BY <2>15, SettleType DEF SaveCandidates
  <2>16. ASSUME NEW w \in Worker, TruncateOffset(w) PROVE TypeOK'
    BY <2>16 DEF TruncateOffset
  <2>17. ASSUME NEW w \in Worker, PutOffset(w) PROVE TypeOK'
    BY <2>17, OverlayType DEF PutOffset
  <2>18. ASSUME NEW w \in Worker, RecordSession(w) PROVE TypeOK'
    BY <2>18 DEF RecordSession, Exit
  <2>19. CASE UNCHANGED vars
    BY <2>19 DEF vars
  <2> QED
    BY <2>1, <2>2, <2>3, <2>4, <2>5, <2>6, <2>7, <2>8, <2>9, <2>10, <2>11, <2>12, <2>13, <2>14, <2>15, <2>16, <2>17, <2>18, <2>19 DEF Next, Environment, Step
<1> QED BY <1>1, <1>2, PTL DEF Spec

(***************************************************************************)
(* Mutual exclusion                                                        *)
(***************************************************************************)

\* Whoever is between the flock and the offset write holds the flock.
HolderInv == \A v \in Worker : pc[v] \in LockedSteps => lock = v

\* The flock admits one process at a time to the Haiku call and the vault.
THEOREM LockExcludes == Spec => []MutualExclusion
<1>1. Init => HolderInv
  BY DEF Init, HolderInv, LockedSteps
<1>2. TypeOK /\ HolderInv /\ [Next]_vars => HolderInv'
  <2> SUFFICES ASSUME TypeOK, HolderInv, [Next]_vars PROVE HolderInv'
    OBVIOUS
  <2> USE DEF TypeOK, HolderInv, LockedSteps, Goto
  <2>1. CASE AppendRecord
    BY <2>1 DEF AppendRecord
  <2>2. CASE CompleteRecord
    BY <2>2 DEF CompleteRecord
  <2>3. CASE FallQuiet
    BY <2>3 DEF FallQuiet
  <2>4. ASSUME NEW w \in Worker, StopHook(w) PROVE HolderInv'
    BY <2>4 DEF StopHook, Spawn
  <2>5. ASSUME NEW w \in Worker, StaleSweep(w) PROVE HolderInv'
    BY <2>5 DEF StaleSweep, Spawn
  <2>6. ASSUME NEW w \in Worker, Crash(w) PROVE HolderInv'
    BY <2>6 DEF Crash, Exit
  <2>7. ASSUME NEW w \in Worker, ReadOffsetFile(w) PROVE HolderInv'
    BY <2>7 DEF ReadOffsetFile
  <2>8. ASSUME NEW w \in Worker, ReadDelta(w) PROVE HolderInv'
    BY <2>8 DEF ReadDelta
  <2>9. ASSUME NEW w \in Worker, CheckDelta(w) PROVE HolderInv'
    BY <2>9 DEF CheckDelta, Settle
  <2>10. ASSUME NEW w \in Worker, TakeLock(w) PROVE HolderInv'
    BY <2>10 DEF TakeLock
  <2>11. ASSUME NEW w \in Worker, LoseLock(w) PROVE HolderInv'
    BY <2>11 DEF LoseLock, Exit
  <2>12. ASSUME NEW w \in Worker, SkipDelta(w) PROVE HolderInv'
    BY <2>12 DEF SkipDelta, Settle
  <2>13. ASSUME NEW w \in Worker, Extract(w) PROVE HolderInv'
    BY <2>13 DEF Extract, Settle
  <2>14. ASSUME NEW w \in Worker, Tally(w) PROVE HolderInv'
    BY <2>14 DEF Tally
  <2>15. ASSUME NEW w \in Worker, SaveCandidates(w) PROVE HolderInv'
    BY <2>15 DEF SaveCandidates, Settle
  <2>16. ASSUME NEW w \in Worker, TruncateOffset(w) PROVE HolderInv'
    BY <2>16 DEF TruncateOffset
  <2>17. ASSUME NEW w \in Worker, PutOffset(w) PROVE HolderInv'
    BY <2>17 DEF PutOffset
  <2>18. ASSUME NEW w \in Worker, RecordSession(w) PROVE HolderInv'
    BY <2>18 DEF RecordSession, Exit
  <2>19. CASE UNCHANGED vars
    BY <2>19 DEF vars
  <2> QED
    BY <2>1, <2>2, <2>3, <2>4, <2>5, <2>6, <2>7, <2>8, <2>9, <2>10, <2>11, <2>12, <2>13, <2>14, <2>15, <2>16, <2>17, <2>18, <2>19 DEF Next, Environment, Step
<1>3. HolderInv => MutualExclusion
  BY DEF HolderInv, MutualExclusion
<1> QED BY <1>1, <1>2, <1>3, TypeCorrect, PTL DEF Spec

(***************************************************************************)
(* The offset never runs ahead of the work.  Besides the stored offset the *)
(* invariant speaks of the positions in the processes' hands: where a      *)
(* process began to read is settled, and so is where it stopped reading    *)
(* once it is on its way to writing that position.                         *)
(***************************************************************************)
ReadingSteps == {"delta", "lock", "backoff", "tallyFound", "save"}
WritingSteps == {"tallyEmpty", "truncate", "put"}

PositionsSettled ==
  /\ AllBefore(ReadOffset, settled \cup torn)
  /\ \A v \in Worker :
       /\ pc[v] \in ReadingSteps => AllBefore(from[v], settled \cup torn)
       /\ pc[v] \in WritingSteps => AllBefore(eof[v], settled \cup torn)

SettledInv == ~garbled => PositionsSettled

\* More records settled: the same prefix is still settled.
LEMMA AllBeforeGrows ==
  ASSUME NEW S, NEW T, S \subseteq T, NEW p, AllBefore(p, S)
  PROVE  AllBefore(p, T)
BY DEF AllBefore

\* The empty prefix, where a blank or missing offset file makes a process begin.
LEMMA NothingBefore ==
  ASSUME NEW S
  PROVE  AllBefore(0, S)
BY DEF AllBefore, Record

\* A process that is done with a delta which began at a settled position has
\* settled everything up to where it stopped reading.
LEMMA SettleReaches ==
  ASSUME TypeOK, NEW w \in Worker, AllBefore(from[w], settled \cup torn), Settle(w)
  PROVE  AllBefore(eof[w], settled' \cup torn')
<1> SUFFICES ASSUME NEW r \in Record, 2 * (r - 1) < eof[w]
             PROVE  r \in settled' \cup torn'
  BY DEF AllBefore
<1>1. r \in Int /\ from[w] \in Nat /\ eof[w] \in Nat
  BY DEF Record, TypeOK
<1>2. CASE 2 * r <= from[w]
  BY <1>1, <1>2 DEF AllBefore, Settle
<1>3. CASE from[w] < 2 * r
  BY <1>1, <1>3 DEF Touched, Settle
<1> QED BY <1>1, <1>2, <1>3

\* Nothing is ever taken back: the sets grow, and a garbled offset is remembered.
LEMMA HistoryGrows ==
  ASSUME TypeOK, [Next]_vars
  PROVE  /\ settled \cup torn \subseteq settled' \cup torn'
         /\ garbled => garbled'
<1> USE DEF history, Settle
<1>1. CASE Environment
  BY <1>1 DEF Environment, AppendRecord, CompleteRecord, FallQuiet, StopHook,
     StaleSweep, Spawn, Crash
<1>2. ASSUME NEW w \in Worker, Step(w)
      PROVE  /\ settled \cup torn \subseteq settled' \cup torn'
             /\ garbled => garbled'
  <2>1. CASE PutOffset(w)
    <3>1. settled' = settled /\ torn' = torn
      BY <2>1 DEF PutOffset
    <3>2. garbled => garbled'
      BY <2>1, Zenon DEF PutOffset
    <3> QED BY <3>1, <3>2
  <2>2. CASE ReadOffsetFile(w) \/ ReadDelta(w) \/ TakeLock(w) \/ LoseLock(w)
             \/ TruncateOffset(w) \/ RecordSession(w)
    BY <2>2 DEF ReadOffsetFile, ReadDelta, TakeLock, LoseLock, TruncateOffset,
       RecordSession
  <2>3. CASE CheckDelta(w) \/ SkipDelta(w) \/ Extract(w) \/ Tally(w)
             \/ SaveCandidates(w)
    BY <2>3 DEF CheckDelta, SkipDelta, Extract, Tally, SaveCandidates
  <2> QED BY <1>2, <2>1, <2>2, <2>3 DEF Step
<1>3. CASE UNCHANGED vars
  BY <1>3 DEF vars
<1> QED BY <1>1, <1>2, <1>3 DEF Next

\* Whatever races, is killed or is read half: no record before the stored offset
\* was left out.
THEOREM OffsetSettled == Spec => []PrefixSettled
<1>1. Init => SettledInv
  BY NothingBefore DEF Init, SettledInv, PositionsSettled, ReadOffset,
     ReadingSteps, WritingSteps
<1>2. TypeOK /\ SettledInv /\ [Next]_vars => SettledInv'
  <2> SUFFICES ASSUME TypeOK, SettledInv, [Next]_vars, ~garbled'
               PROVE  PositionsSettled'
    BY DEF SettledInv
  <2> DEFINE Kept == settled' \cup torn'
  <2>0. /\ PositionsSettled
        /\ AllBefore(ReadOffset, Kept)
        /\ \A v \in Worker :
             /\ pc[v] \in ReadingSteps => AllBefore(from[v], Kept)
             /\ pc[v] \in WritingSteps => AllBefore(eof[v], Kept)
    <3>1. PositionsSettled /\ settled \cup torn \subseteq Kept
      BY HistoryGrows DEF SettledInv
    <3> QED BY <3>1, AllBeforeGrows DEF PositionsSettled
  <2>settle. ASSUME NEW w \in Worker, Settle(w), pc[w] \in ReadingSteps
        PROVE  AllBefore(eof[w], Kept)
    BY <2>settle, <2>0, SettleReaches DEF PositionsSettled
  <2> HIDE DEF Kept
  <2> SUFFICES /\ AllBefore(ReadOffset', Kept)
               /\ \A v \in Worker :
                    /\ pc'[v] \in ReadingSteps => AllBefore(from'[v], Kept)
                    /\ pc'[v] \in WritingSteps => AllBefore(eof'[v], Kept)
    BY DEF PositionsSettled, Kept
  <2> DEFINE Goal == /\ AllBefore(ReadOffset', Kept)
                     /\ \A v \in Worker :
                          /\ pc'[v] \in ReadingSteps => AllBefore(from'[v], Kept)
                          /\ pc'[v] \in WritingSteps => AllBefore(eof'[v], Kept)
  <2> USE DEF TypeOK, ReadOffset, ReadingSteps, WritingSteps, Goto, locals
  <2>1. CASE AppendRecord
    BY <2>1, <2>0 DEF AppendRecord
  <2>2. CASE CompleteRecord
    BY <2>2, <2>0 DEF CompleteRecord
  <2>3. CASE FallQuiet
    BY <2>3, <2>0 DEF FallQuiet
  <2>4. ASSUME NEW w \in Worker, StopHook(w) PROVE Goal
    BY <2>4, <2>0 DEF StopHook, Spawn
  <2>5. ASSUME NEW w \in Worker, StaleSweep(w) PROVE Goal
    BY <2>5, <2>0 DEF StaleSweep, Spawn
  <2>6. ASSUME NEW w \in Worker, Crash(w) PROVE Goal
    BY <2>6, <2>0 DEF Crash, Exit
  <2>7. ASSUME NEW w \in Worker, ReadOffsetFile(w) PROVE Goal
    BY <2>7, <2>0 DEF ReadOffsetFile
  <2>8. ASSUME NEW w \in Worker, ReadDelta(w) PROVE Goal
    BY <2>8, <2>0 DEF ReadDelta
  <2>9. ASSUME NEW w \in Worker, CheckDelta(w) PROVE Goal
    BY <2>9, <2>0, <2>settle DEF CheckDelta
  <2>10. ASSUME NEW w \in Worker, TakeLock(w) PROVE Goal
    BY <2>10, <2>0 DEF TakeLock
  <2>11. ASSUME NEW w \in Worker, LoseLock(w) PROVE Goal
    BY <2>11, <2>0 DEF LoseLock, Exit
  <2>12. ASSUME NEW w \in Worker, SkipDelta(w) PROVE Goal
    BY <2>12, <2>0, <2>settle DEF SkipDelta
  <2>13. ASSUME NEW w \in Worker, Extract(w) PROVE Goal
    BY <2>13, <2>0, <2>settle DEF Extract
  <2>14. ASSUME NEW w \in Worker, Tally(w) PROVE Goal
    BY <2>14, <2>0 DEF Tally
  <2>15. ASSUME NEW w \in Worker, SaveCandidates(w) PROVE Goal
    BY <2>15, <2>0, <2>settle DEF SaveCandidates
  <2>16. ASSUME NEW w \in Worker, TruncateOffset(w) PROVE Goal
    BY <2>16, <2>0, NothingBefore DEF TruncateOffset
  <2>17. ASSUME NEW w \in Worker, PutOffset(w) PROVE Goal
    <3>1. Overlay(eof[w], offset) = eof[w]
      BY <2>17 DEF PutOffset
    <3>2. offset' = eof[w] /\ eof[w] \in Nat
      BY <2>17, <3>1 DEF PutOffset
    <3>3. ReadOffset' = eof[w]
      BY <3>2
    <3>4. AllBefore(eof[w], Kept)
      BY <2>17, <2>0 DEF PutOffset
    <3> QED BY <2>17, <2>0, <3>3, <3>4 DEF PutOffset
  <2>18. ASSUME NEW w \in Worker, RecordSession(w) PROVE Goal
    BY <2>18, <2>0 DEF RecordSession, Exit
  <2>19. CASE UNCHANGED vars
    BY <2>19, <2>0 DEF vars
  <2> QED
    BY <2>1, <2>2, <2>3, <2>4, <2>5, <2>6, <2>7, <2>8, <2>9, <2>10, <2>11, <2>12, <2>13, <2>14, <2>15, <2>16, <2>17, <2>18, <2>19 DEF Next, Environment, Step
<1>3. SettledInv => PrefixSettled
  BY DEF SettledInv, PositionsSettled, PrefixSettled
<1> QED BY <1>1, <1>2, <1>3, TypeCorrect, PTL DEF Spec

(***************************************************************************)
(* The backoff                                                             *)
(***************************************************************************)

\* On an empty streak, what is still to be skipped and what was skipped since
\* the streak file was last set add up to the whole rest.
RestInv ==
  streak.count >= StreakThreshold => rested + streak.skip = StreakSkip

\* Haiku is called on an empty streak only after the whole rest, even when
\* processes are killed around the streak file.
THEOREM BackoffRests == Spec => BackoffHonoured
<1>1. Init => RestInv
  BY DEF Init, RestInv
<1>2. TypeOK /\ RestInv /\ [Next]_vars => RestInv'
  <2> SUFFICES ASSUME TypeOK, RestInv, [Next]_vars PROVE RestInv'
    OBVIOUS
  <2>0. streak \in [count : Nat, skip : Nat] /\ rested \in Nat
    BY DEF TypeOK
  <2>1. CASE AppendRecord \/ CompleteRecord \/ FallQuiet
    BY <2>1 DEF AppendRecord, CompleteRecord, FallQuiet, RestInv, history
  <2>2. ASSUME NEW w \in Worker, StopHook(w) \/ StaleSweep(w) PROVE RestInv'
    BY <2>2 DEF StopHook, StaleSweep, Spawn, RestInv, history
  <2>3. ASSUME NEW w \in Worker, Crash(w) PROVE RestInv'
    BY <2>3 DEF Crash, RestInv, history
  <2>4. ASSUME NEW w \in Worker, SkipDelta(w) PROVE RestInv'
    <3>1. /\ rested' = rested + 1
          /\ streak'.count = streak.count
          /\ streak'.skip = streak.skip - 1
      BY <2>0, <2>4 DEF SkipDelta
    <3> QED BY <2>0, <3>1 DEF RestInv
  <2>5. ASSUME NEW w \in Worker, Tally(w) PROVE RestInv'
    <3>1. rested' = 0
      BY <2>5 DEF Tally
    <3>2. streak'.count >= StreakThreshold => streak'.skip = StreakSkip
      BY <2>0, <2>5 DEF Tally
    <3> QED BY <3>1, <3>2 DEF RestInv
  <2>6. ASSUME NEW w \in Worker, Step(w), ~SkipDelta(w), ~Tally(w)
        PROVE  streak' = streak /\ rested' = rested
    BY <2>6 DEF Step, ReadOffsetFile, ReadDelta, CheckDelta, TakeLock, LoseLock,
       Extract, SaveCandidates, TruncateOffset, PutOffset, RecordSession, history
  <2>7. CASE UNCHANGED vars
    BY <2>7 DEF vars, RestInv
  <2> QED
    BY <2>1, <2>2, <2>3, <2>4, <2>5, <2>6, <2>7 DEF Next, Environment, RestInv
<1>3. TypeOK /\ RestInv =>
        \A w \in Worker :
          Extract(w) /\ streak.count >= StreakThreshold => rested = StreakSkip
  <2> SUFFICES ASSUME TypeOK, RestInv, NEW w \in Worker, Extract(w),
                      streak.count >= StreakThreshold
               PROVE  rested = StreakSkip
    OBVIOUS
  <2>1. streak.skip \in Nat /\ rested \in Nat
    BY DEF TypeOK
  <2>2. ~(streak.skip > 0)
    BY DEF Extract
  <2> QED BY <2>1, <2>2 DEF RestInv
<1>4. TypeOK /\ RestInv /\ [Next]_vars =>
        [\A w \in Worker :
           Extract(w) /\ streak.count >= StreakThreshold => rested = StreakSkip]_vars
  BY <1>3
<1> QED BY <1>1, <1>2, <1>4, TypeCorrect, PTL DEF Spec, BackoffHonoured
================================================================================
