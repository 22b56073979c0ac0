----------------------------- MODULE ProfilesProofs -----------------------------
(***************************************************************************)
(* The profiles for any writers, facts, cap and answers of Haiku: a fact   *)
(* goes only with a rewrite of the very text Haiku was given, the cap is   *)
(* kept, and append_fact implements a log of facts that is rewritten now   *)
(* and then.  The migration is one more writer, so that all this holds     *)
(* while it runs, and what it applies has been reported.                   *)
(***************************************************************************)
EXTENDS LayerMigration, TLAPS

USE NobodyAssumption, NoFactAssumption, CapAssumption, AnswersAssumption, BoundsAssumption
    DEF work, history

\* A text with one more fact is a text.
LEMMA WithType ==
  ASSUME NEW text \in Text, NEW f \in Fact
  PROVE  With(text, f) \in Text /\ With(text, f).facts = text.facts \cup {f}
BY DEF With, Text

\* The empty profile is a text.
LEMMA EmptyType == Empty \in Text
BY DEF Empty, Text

\* A call that returns leaves the types.
LEMMA ReturnType ==
  ASSUME TypeOK, NEW w \in Writer, Return(w)
  PROVE  /\ pc' \in [Writer -> Steps]
         /\ wanted' \in [Writer -> Fact \cup {NoFact}]
         /\ \A v \in Writer : pc'[v] = "idle" <=> wanted'[v] = NoFact
         /\ lock' \in Writer \cup {Nobody}
         /\ seen' \in [Writer -> Text]
         /\ snapshot' \in [Writer -> Text]
         /\ draft' \in [Writer -> Text]
BY EmptyType DEF TypeOK, Return, Goto, Steps

\* Every step keeps the types.
LEMMA TypeStep == TypeOK /\ [Next]_vars => TypeOK'
<1> SUFFICES ASSUME TypeOK, [Next]_vars PROVE TypeOK'
  OBVIOUS
<1>1. ASSUME NEW w \in Writer, AppendFact(w) PROVE TypeOK'
  <2>1. PICK f \in Fact : wanted' = [wanted EXCEPT ![w] = f]
    BY <1>1 DEF AppendFact, Ask
  <2>2. /\ wanted' \in [Writer -> Fact \cup {NoFact}]
        /\ \A v \in Writer : pc'[v] = "idle" <=> wanted'[v] = NoFact
    BY <1>1, <2>1 DEF AppendFact, Ask, Goto, TypeOK
  <2>3. pc' \in [Writer -> Steps]
    BY <1>1 DEF AppendFact, Ask, Goto, TypeOK, Steps
  <2>4. calls' \in 0..MaxCalls
    BY <1>1 DEF AppendFact, Ask, TypeOK
  <2> QED BY <1>1, <2>2, <2>3, <2>4 DEF AppendFact, Ask, TypeOK
<1>2. ASSUME NEW w \in Writer, Acquire(w) PROVE TypeOK'
  BY <1>2 DEF Acquire, Goto, TypeOK, Steps
<1>3. ASSUME NEW w \in Writer, Read(w) PROVE TypeOK'
  BY <1>3 DEF Read, Goto, TypeOK, Steps
<1>4. ASSUME NEW w \in Writer, Duplicate(w) PROVE TypeOK'
  <2>1. wanted[w] \in Fact
    BY <1>4 DEF Duplicate, Appending, TypeOK, Text
  <2> QED BY <1>4, <2>1, ReturnType DEF Duplicate, TypeOK
<1>5. ASSUME NEW w \in Writer, Append(w) PROVE TypeOK'
  <2>1. wanted[w] \in Fact /\ seen[w] \in Text
    BY <1>5 DEF Append, Appending, TypeOK
  <2>2. file' \in Text
    BY <1>5, <2>1, WithType DEF Append
  <2> QED BY <1>5, <2>2 DEF Append, Appending, Goto, TypeOK, Steps
<1>6. ASSUME NEW w \in Writer, Defer(w) PROVE TypeOK'
  BY <1>6 DEF Defer, Goto, TypeOK, Steps
<1>7. ASSUME NEW w \in Writer, Compact(w) PROVE TypeOK'
  <2>1. draft' \in [Writer -> Text]
    BY <1>7 DEF Compact, TypeOK
  <2> QED BY <1>7, <2>1 DEF Compact, Goto, TypeOK, Steps
<1>8. ASSUME NEW w \in Writer, Reread(w) PROVE TypeOK'
  BY <1>8 DEF Reread, Goto, TypeOK, Steps
<1>9. ASSUME NEW w \in Writer, Swap(w) PROVE TypeOK'
  BY <1>9 DEF Swap, Goto, TypeOK, Steps
<1>10. ASSUME NEW w \in Writer, Answer(w) PROVE TypeOK'
  <2>1. wanted[w] \in Fact
    BY <1>10 DEF Answer, TypeOK
  <2> QED BY <1>10, <2>1, ReturnType DEF Answer, TypeOK
<1>11. ASSUME NEW w \in Writer, Retry(w) PROVE TypeOK'
  BY <1>11 DEF Retry, Goto, TypeOK, Steps
<1>12. ASSUME NEW w \in Writer, CompactFails(w) \/ RefuseRetry(w) \/ AnswerCompacted(w)
       PROVE  TypeOK'
  BY <1>12, ReturnType DEF CompactFails, RefuseRetry, AnswerCompacted, TypeOK
<1>13. ASSUME NEW w \in Writer, Crash(w) PROVE TypeOK'
  BY <1>13, ReturnType DEF Crash, TypeOK
<1>14. CASE UNCHANGED vars
  BY <1>14 DEF vars, TypeOK
<1> QED
  BY <1>1, <1>2, <1>3, <1>4, <1>5, <1>6, <1>7, <1>8, <1>9, <1>10, <1>11, <1>12, <1>13, <1>14
  DEF Next, Step

\* So do the first states.
LEMMA TypeInit == Init => TypeOK
BY DEF Init, TypeOK, Text, Empty, Steps

\* The variables keep their types.
THEOREM TypeCorrect == Spec => []TypeOK
BY TypeInit, TypeStep, PTL DEF Spec

--------------------------------------------------------------------------------
(***************************************************************************)
(* The inductive invariant                                                 *)
(***************************************************************************)

\* The steps that a writer takes with the lock.
Critical == {"read", "append", "reread", "compare", "retry", "append again", "answer", "compacted"}

\* A writer at such a step has the lock, so what it has read is what the file says.
LockProtects ==
  \A w \in Writer :
    /\ pc[w] \in Critical => lock = w
    /\ pc[w] \in {"append", "append again", "compare"} => seen[w] = file

\* Haiku's rewrite fits.
Rewritten == \A w \in Writer : pc[w] \in {"relock", "reread", "compare"} => draft[w].size <= Cap

\* A fact about to be confirmed is in the file.
Confirmed == \A w \in Writer : pc[w] = "answer" => wanted[w] \in file.facts

Inv == TypeOK /\ LockProtects /\ Rewritten /\ Confirmed /\ WithinCap

\* A step inside the critical section, or one that leaves the file alone.
LEMMA InvInductive == Inv /\ TypeOK' /\ [Next]_vars => Inv'
<1> SUFFICES ASSUME Inv, TypeOK', [Next]_vars PROVE Inv'
  OBVIOUS
<1> USE DEF Inv, Critical
<1>1. ASSUME NEW w \in Writer, AppendFact(w) PROVE Inv'
  <2>1. PICK f \in Fact : Ask(w, f)
    BY <1>1 DEF AppendFact
  <2>2. pc'[w] = "lock" /\ \A v \in Writer \ {w} : pc'[v] = pc[v] /\ wanted'[v] = wanted[v]
    BY <2>1 DEF Ask, Goto, TypeOK
  <2>3. UNCHANGED <<file, lock, seen, snapshot, draft>>
    BY <2>1 DEF Ask
  <2>4. LockProtects' /\ WithinCap'
    BY <2>2, <2>3 DEF LockProtects, WithinCap
  <2>5. Rewritten' /\ Confirmed'
    BY <2>2, <2>3 DEF Rewritten, Confirmed
  <2> QED BY <2>4, <2>5
<1>2. ASSUME NEW w \in Writer, Acquire(w) PROVE Inv'
  BY <1>2 DEF Acquire, Goto, TypeOK, LockProtects, Rewritten, Confirmed, WithinCap
<1>3. ASSUME NEW w \in Writer, Read(w) PROVE Inv'
  BY <1>3 DEF Read, Goto, TypeOK, LockProtects, Rewritten, Confirmed, WithinCap
<1>4. ASSUME NEW w \in Writer, Append(w) PROVE Inv'
  <2>1. wanted[w] \in Fact /\ seen[w] \in Text /\ lock = w
    BY <1>4 DEF Append, Appending, TypeOK, LockProtects
  <2>2. file' = With(seen[w], wanted[w]) /\ file'.size <= Cap
    BY <1>4 DEF Append, Fits
  <2>3. wanted[w] \in file'.facts
    BY <2>1, <2>2, WithType
  <2>4. \A v \in Writer \ {w} : pc[v] \notin Critical
    BY <2>1 DEF LockProtects
  <2> QED BY <1>4, <2>1, <2>2, <2>3, <2>4
          DEF Append, Goto, TypeOK, LockProtects, Rewritten, Confirmed, WithinCap
<1>5. ASSUME NEW w \in Writer, Defer(w) PROVE Inv'
  BY <1>5 DEF Defer, Goto, TypeOK, LockProtects, Rewritten, Confirmed, WithinCap
<1>6. ASSUME NEW w \in Writer, Compact(w) PROVE Inv'
  <2>2. PICK answer \in Answers : answer.size <= Cap /\ draft' = [draft EXCEPT ![w] = answer]
    BY <1>6 DEF Compact
  <2>3. draft'[w].size <= Cap
    BY <2>2 DEF TypeOK
  <2>4. \A v \in Writer \ {w} : draft'[v] = draft[v]
    BY <2>2 DEF TypeOK
  <2>5. pc'[w] = "relock" /\ \A v \in Writer \ {w} : pc'[v] = pc[v]
    BY <1>6 DEF Compact, Goto, TypeOK
  <2>6. UNCHANGED <<file, lock, wanted, seen, snapshot>>
    BY <1>6 DEF Compact
  <2>7. LockProtects' /\ Confirmed' /\ WithinCap'
    BY <2>5, <2>6 DEF LockProtects, Confirmed, WithinCap
  <2>8. Rewritten'
    BY <2>3, <2>4, <2>5, <2>6 DEF Rewritten
  <2> QED BY <2>7, <2>8
<1>7. ASSUME NEW w \in Writer, Reread(w) PROVE Inv'
  BY <1>7 DEF Reread, Goto, TypeOK, LockProtects, Rewritten, Confirmed, WithinCap
<1>8. ASSUME NEW w \in Writer, Swap(w) PROVE Inv'
  <2>1. \A v \in Writer \ {w} : pc[v] \notin Critical
    BY <1>8 DEF Swap, LockProtects
  <2>2. pc'[w] = "compacted" /\ lock = w
    BY <1>8 DEF Swap, Goto, TypeOK, LockProtects
  <2>3. file' = draft[w] /\ draft[w].size <= Cap
    BY <1>8 DEF Swap, Rewritten, TypeOK
  <2>4. \A v \in Writer \ {w} : pc'[v] = pc[v]
    BY <1>8 DEF Swap, Goto, TypeOK
  <2>5. UNCHANGED <<lock, wanted, seen, snapshot, draft>>
    BY <1>8 DEF Swap
  <2>6. LockProtects' /\ WithinCap'
    BY <2>1, <2>2, <2>3, <2>4, <2>5 DEF LockProtects, WithinCap
  <2>7. Rewritten'
    BY <2>2, <2>4, <2>5 DEF Rewritten
  <2>8. Confirmed'
    BY <2>1, <2>2, <2>4, <2>5 DEF Confirmed
  <2> QED BY <2>6, <2>7, <2>8
<1>9. ASSUME NEW w \in Writer, Retry(w) PROVE Inv'
  BY <1>9 DEF Retry, Goto, TypeOK, LockProtects, Rewritten, Confirmed, WithinCap
<1>10. ASSUME NEW w \in Writer, Return(w), UNCHANGED file PROVE Inv'
  <2>1. \A v \in Writer \ {w} : /\ pc'[v] = pc[v] /\ wanted'[v] = wanted[v] /\ seen'[v] = seen[v]
                               /\ snapshot'[v] = snapshot[v] /\ draft'[v] = draft[v]
    BY <1>10 DEF Return, Goto, TypeOK
  <2>2. pc'[w] = "idle"
    BY <1>10 DEF Return, Goto, TypeOK
  <2>3. lock' = IF lock = w THEN Nobody ELSE lock
    BY <1>10 DEF Return
  <2> QED BY <1>10, <2>1, <2>2, <2>3 DEF LockProtects, Rewritten, Confirmed, WithinCap
<1>11. CASE UNCHANGED vars
  BY <1>11 DEF vars, LockProtects, Rewritten, Confirmed, WithinCap
<1> QED
  BY <1>1, <1>2, <1>3, <1>4, <1>5, <1>6, <1>7, <1>8, <1>9, <1>10, <1>11
  DEF Next, Step, Duplicate, RefuseRetry, CompactFails, Answer, AnswerCompacted, Crash

\* The invariant holds from the start.
LEMMA InvInvariant == Spec => []Inv
<1>1. Init => Inv
  BY DEF Init, Inv, TypeOK, Text, Empty, Steps, LockProtects, Critical, Rewritten,
                     Confirmed, WithinCap
<1> QED BY <1>1, InvInductive, TypeCorrect, PTL DEF Spec

\* The cap is never exceeded.
THEOREM CapKept == Spec => []WithinCap
<1>1. Inv => WithinCap
  BY DEF Inv
<1> QED BY <1>1, InvInvariant, PTL

--------------------------------------------------------------------------------
(***************************************************************************)
(* The log of facts                                                        *)
(***************************************************************************)

\* What a step leaves to each writer of what Haiku was given for it.
LEMMA ShownStep ==
  ASSUME TypeOK, NEW w \in Writer, Return(w)
  PROVE  [v \in Writer |-> snapshot'[v].facts] = [[v \in Writer |-> snapshot[v].facts] EXCEPT ![w] = {}]
BY DEF TypeOK, Return, Empty

\* Every step is one of the log, or changes nothing the log shows.
LEMMA StepSimulation == Inv /\ [Next]_vars => [Log!Next]_(Log!logVars)
<1> SUFFICES ASSUME Inv, [Next]_vars PROVE Log!Next \/ UNCHANGED Log!logVars
  OBVIOUS
<1> USE DEF Inv
<1>1. ASSUME NEW w \in Writer, AppendFact(w) PROVE Log!Ask(w)
  BY <1>1 DEF AppendFact, Ask, TypeOK, Log!Ask
<1>2. ASSUME NEW w \in Writer, Append(w) PROVE Log!Keep(w)
  <2>1. wanted[w] \in Fact /\ seen[w] = file /\ wanted[w] # NoFact
    BY <1>2 DEF Append, Appending, TypeOK, LockProtects
  <2>2. file'.facts = file.facts \cup {wanted[w]}
    BY <1>2, <2>1, WithType DEF Append, TypeOK
  <2> QED BY <1>2, <2>1, <2>2 DEF Append, Log!Keep
<1>3. ASSUME NEW w \in Writer, Defer(w) PROVE Log!Show(w)
  <2>1. wanted[w] # NoFact /\ seen[w] = file
    BY <1>3 DEF Defer, TypeOK, LockProtects
  <2>2. [v \in Writer |-> snapshot'[v].facts]
          = [[v \in Writer |-> snapshot[v].facts] EXCEPT ![w] = file.facts]
    BY <1>3, <2>1 DEF Defer, TypeOK
  <2> QED BY <1>3, <2>1, <2>2 DEF Defer, Log!Show
<1>4. ASSUME NEW w \in Writer, Swap(w) PROVE Log!Rewrite(w)
  <2>1. wanted[w] # NoFact /\ file = snapshot[w] /\ file' = draft[w] /\ draft[w] \in Text
    BY <1>4 DEF Swap, LockProtects, TypeOK
  <2>2. file'.facts \in SUBSET Fact
    BY <2>1 DEF Text
  <2> QED BY <1>4, <2>1, <2>2 DEF Swap, Log!Rewrite
<1>5. ASSUME NEW w \in Writer, Return(w) PROVE Log!Done(w)
  BY <1>5, ShownStep DEF Return, Log!Done
<1>6. ASSUME NEW w \in Writer, Duplicate(w) PROVE Log!Confirm(w)
  <2>1. wanted[w] \in file.facts
    BY <1>6 DEF Duplicate, Appending, LockProtects
  <2> QED BY <1>5, <1>6, <2>1 DEF Duplicate, Log!Confirm
<1>7. ASSUME NEW w \in Writer, Answer(w) PROVE Log!Confirm(w)
  <2>1. wanted[w] \in file.facts
    BY <1>7 DEF Answer, Confirmed
  <2> QED BY <1>5, <1>7, <2>1 DEF Answer, Log!Confirm
<1>8. ASSUME NEW w \in Writer,
             CompactFails(w) \/ RefuseRetry(w) \/ AnswerCompacted(w) \/ Crash(w)
      PROVE  Log!Leave(w)
  <2>1. Return(w) /\ UNCHANGED <<file, kept>> /\ pc[w] # "idle"
    BY <1>8 DEF CompactFails, RefuseRetry, AnswerCompacted, Crash
  <2> QED BY <1>5, <2>1 DEF TypeOK, Log!Leave
<1>9. ASSUME NEW w \in Writer, Acquire(w) \/ Read(w) \/ Compact(w) \/ Reread(w) \/ Retry(w)
      PROVE  UNCHANGED Log!logVars
  BY <1>9 DEF Acquire, Read, Compact, Reread, Retry, Log!logVars
<1>10. CASE UNCHANGED vars
  BY <1>10 DEF vars, Log!logVars
<1> QED
  BY <1>1, <1>2, <1>3, <1>4, <1>6, <1>7, <1>8, <1>9, <1>10 DEF Next, Step, Log!Next

\* append_fact implements the log of facts.
THEOREM LogImplemented == Spec => ImplementsLog
<1>1. Init => Log!Init
  BY DEF Init, Empty, Log!Init
<1> QED BY <1>1, StepSimulation, InvInvariant, PTL DEF Spec, ImplementsLog, Log!Spec

\* What was confirmed since the last rewrite is in the profile.
THEOREM ConfirmedFactsStay == Spec => []ConfirmedStay
<1>1. Init => ConfirmedStay
  BY DEF Init, Empty, ConfirmedStay
<1>2. ConfirmedStay /\ [Log!Next]_(Log!logVars) => ConfirmedStay'
  BY DEF ConfirmedStay, Log!Next, Log!logVars, Log!Ask, Log!Keep, Log!Show, Log!Rewrite, Log!Confirm,
         Log!Leave
<1>3. Inv /\ ConfirmedStay /\ [Next]_vars => ConfirmedStay'
  BY <1>2, StepSimulation
<1> QED BY <1>1, <1>3, InvInvariant, PTL DEF Spec

\* A fact goes only when Haiku's answer replaces the text that Haiku was given.
THEOREM FactsStay == Spec => NothingForgotten
<1>1. ASSUME Inv, Next PROVE
        \/ file.facts \subseteq file'.facts
        \/ \E w \in Writer : pc[w] = "compare" /\ snapshot[w] = file /\ file' = draft[w]
  <2> USE <1>1 DEF Inv
  <2>1. ASSUME NEW w \in Writer, Append(w) PROVE file.facts \subseteq file'.facts
    <3>1. wanted[w] \in Fact /\ seen[w] \in Text /\ seen[w] = file
      BY <2>1 DEF Append, Appending, LockProtects, TypeOK
    <3> QED BY <2>1, <3>1, WithType DEF Append
  <2>2. ASSUME NEW w \in Writer, Swap(w)
        PROVE  pc[w] = "compare" /\ snapshot[w] = file /\ file' = draft[w]
    BY <2>2 DEF Swap, LockProtects
  <2>3. ASSUME NEW w \in Writer, AppendFact(w) \/ Acquire(w) \/ Read(w) \/ Duplicate(w) \/ Defer(w)
                 \/ RefuseRetry(w) \/ Compact(w) \/ CompactFails(w) \/ Reread(w) \/ Retry(w)
                 \/ Answer(w) \/ AnswerCompacted(w) \/ Crash(w)
        PROVE  file' = file
    BY <2>3 DEF AppendFact, Ask, Acquire, Read, Duplicate, Defer, RefuseRetry, Compact, CompactFails,
                Reread, Retry, Answer, AnswerCompacted, Crash
  <2> QED BY <2>1, <2>2, <2>3 DEF Next, Step
<1>2. Inv /\ [Next]_vars =>
        [\/ file.facts \subseteq file'.facts
         \/ \E w \in Writer : pc[w] = "compare" /\ snapshot[w] = file /\ file' = draft[w]]_vars
  BY <1>1
<1> QED BY <1>2, InvInvariant, PTL DEF Spec, NothingForgotten
--------------------------------------------------------------------------------
(***************************************************************************)
(* The migration                                                           *)
(***************************************************************************)
USE MigratorAssumption, LineAssumption, FileAssumption, RunsAssumption DEF files

\* A run does nothing to the profile that a writer does not.
LEMMA MigrationStep == [MigrationNext]_allVars => [Next]_vars
<1> SUFFICES ASSUME [MigrationNext]_allVars PROVE Next \/ UNCHANGED vars
  OBVIOUS
<1>1. CASE Begin
  BY <1>1 DEF Begin, DryRun, ApplyNew, ApplyFile
<1>2. ASSUME NEW m \in Mem, Hand(m) PROVE Next
  <2>1. Line[m] \in Fact /\ Ask(Migrator, Line[m])
    BY <1>2 DEF Hand
  <2> QED BY <2>1 DEF Next, AppendFact
<1>3. ASSUME NEW m \in Mem, PassBy(m) PROVE UNCHANGED vars
  BY <1>3 DEF PassBy
<1>4. CASE Truncate \/ Fill \/ WriteReport \/ Finish
  BY <1>4 DEF Truncate, Fill, WriteReport, Finish
<1>5. CASE Kill
  BY <1>5 DEF Kill, Next
<1>6. ASSUME NEW w \in Writer, WriterStep(w) PROVE Next
  BY <1>6 DEF WriterStep, Next
<1>7. CASE UNCHANGED allVars
  BY <1>7 DEF allVars
<1> QED BY <1>1, <1>2, <1>3, <1>4, <1>5, <1>6, <1>7 DEF MigrationNext, Migrate

\* A writer that is not in a call takes no step of one, nor does the step of another put it in one.
LEMMA StepAwake ==
  ASSUME TypeOK, NEW w \in Writer, Step(w)
  PROVE  pc[w] # "idle" /\ \A v \in Writer \ {w} : pc'[v] = pc[v]
BY DEF TypeOK, Step, Acquire, Read, Duplicate, Append, Defer, RefuseRetry, Compact, CompactFails,
       Reread, Swap, Retry, Answer, AnswerCompacted, Appending, Return, Goto

\* Choices for any of the memories are proposals, and so is no choice at all.
LEMMA Drawn == ASSUME NEW S \in SUBSET Mem PROVE [S -> Choice] \subseteq Proposals
BY Zenon DEF Proposals

LEMMA NoPlanType == NoPlan \in Proposals /\ DOMAIN NoPlan = {}
<1>1. NoPlan \in [{} -> Choice]
  BY DEF NoPlan
<1>2. [{} -> Choice] \subseteq Proposals
  BY Drawn
<1> QED BY <1>1, <1>2

\* The migration and the writers together are writers of the profile.
THEOREM OneMoreWriter == MigrationSpec => Spec
<1>1. MigrationInit => Init
  BY DEF MigrationInit
<1> QED BY <1>1, MigrationStep, PTL DEF MigrationSpec, Spec

\* Whatever the migration does between the calls of the miners, the profile is a log of facts.
THEOREM LogImplementedMeanwhile == MigrationSpec => ImplementsLog
BY OneMoreWriter, LogImplemented, PTL

\* The variables keep their types.
THEOREM MigrationTypeCorrect == MigrationSpec => []MigrationTypeOK
<1>1. MigrationInit => MigrationTypeOK
  <2> SUFFICES ASSUME MigrationInit PROVE MigrationTypeOK
    OBVIOUS
  <2>1. TypeOK /\ pc[Migrator] = "idle"
    BY TypeInit DEF MigrationInit, Init
  <2>2. NoPlan \in Proposals /\ DOMAIN NoPlan = {}
    BY NoPlanType
  <2>3. plan \in Proposals /\ left \in SUBSET DOMAIN plan /\ left = {}
    BY <2>2 DEF MigrationInit
  <2>4. runs \in 0..MaxRuns
    BY DEF MigrationInit
  <2>6. stage = "idle" /\ applying \in BOOLEAN /\ apart \in BOOLEAN
    BY DEF MigrationInit
  <2>5. report = NoFile /\ proposals = NoFile
    BY DEF MigrationInit
  <2> QED BY <2>1, <2>3, <2>4, <2>5, <2>6 DEF MigrationTypeOK, Stages
<1>2. MigrationTypeOK /\ [MigrationNext]_allVars => MigrationTypeOK'
  <2> SUFFICES ASSUME MigrationTypeOK, [MigrationNext]_allVars PROVE MigrationTypeOK'
    OBVIOUS
  <2> USE DEF MigrationTypeOK, Stages
  <2>1. TypeOK'
    BY MigrationStep, TypeStep
  <2>2. NoPlan \in Proposals /\ DOMAIN NoPlan = {}
    BY NoPlanType
  <2>3. ASSUME NEW candidates \in Candidates,
               DryRun(candidates) \/ ApplyNew(candidates) \/ ApplyFile(candidates)
        PROVE  MigrationTypeOK'
    <3>1. Propose(candidates) \subseteq Proposals
      BY Drawn DEF Candidates, Propose
    <3>2. plan' \in Proposals /\ left' \in SUBSET DOMAIN plan'
      BY <2>3, <3>1 DEF DryRun, ApplyNew, ApplyFile, MayBeFresh, Idle, Start
    <3>3. runs < MaxRuns /\ runs' = runs + 1
      BY <2>3 DEF DryRun, ApplyNew, ApplyFile, Start
    <3>4. runs' \in 0..MaxRuns
      BY <3>3
    <3>5. stage' \in {"report", "json", "apply"} /\ applying' \in BOOLEAN /\ pc'[Migrator] = "idle"
      BY <2>3 DEF DryRun, ApplyNew, ApplyFile, Idle, Start, vars
    <3>6. stage' # "apply" => left' = {}
      BY <2>3 DEF DryRun, ApplyNew, ApplyFile, Idle, Start
    <3>7. UNCHANGED <<files, apart>>
      BY <2>3 DEF DryRun, ApplyNew, ApplyFile
    <3> QED BY <2>1, <3>2, <3>4, <3>5, <3>6, <3>7
  <2>4. ASSUME NEW m \in Mem, Hand(m) \/ PassBy(m) PROVE MigrationTypeOK'
    BY <2>1, <2>4 DEF Hand, PassBy, Turn
  <2>5. CASE Truncate \/ Fill \/ WriteReport \/ Finish
    <3>1. pc' = pc
      BY <2>5 DEF Truncate, Fill, WriteReport, Finish, vars
    <3>2. CASE Truncate
      BY <2>1, <3>1, <3>2 DEF Truncate
    <3>3. CASE Fill
      BY <2>1, <2>2, <3>1, <3>3 DEF Fill, End
    <3>4. CASE WriteReport
      BY <2>1, <3>1, <3>4 DEF WriteReport
    <3>5. CASE Finish
      BY <2>1, <2>2, <3>1, <3>5 DEF Finish, End
    <3> QED BY <2>5, <3>2, <3>3, <3>4, <3>5
  <2>6. CASE Kill
    <3>1. pc'[Migrator] = "idle"
      BY <2>6 DEF Kill, vars, Crash, Return, Goto, TypeOK
    <3>2. stage' = "idle" /\ applying' = FALSE /\ plan' = NoPlan /\ left' = {}
      BY <2>6 DEF Kill, End
    <3>3. apart' \in BOOLEAN /\ runs' = runs /\ report' = report /\ proposals' = proposals
      BY <2>6 DEF Kill
    <3> QED BY <2>1, <2>2, <3>1, <3>2, <3>3
  <2>7. ASSUME NEW w \in Writer, WriterStep(w) PROVE MigrationTypeOK'
    <3>1. ASSUME Step(w) PROVE pc'[Migrator] = "idle" \/ stage = "apply"
      BY <3>1, StepAwake
    <3>2. ASSUME w # Migrator, AppendFact(w) \/ Crash(w) PROVE pc'[Migrator] = pc[Migrator]
      BY <3>2 DEF AppendFact, Ask, Crash, Return, Goto, TypeOK
    <3>3. pc'[Migrator] = "idle" \/ stage = "apply"
      BY <2>7, <3>1, <3>2 DEF WriterStep
    <3> QED BY <2>1, <2>7, <3>3 DEF WriterStep, migration
  <2>8. CASE UNCHANGED allVars
    BY <2>1, <2>8 DEF allVars, migration, vars
  <2> QED BY <2>3, <2>4, <2>5, <2>6, <2>7, <2>8 DEF MigrationNext, Migrate, Begin
<1> QED BY <1>1, <1>2, PTL DEF MigrationSpec

--------------------------------------------------------------------------------
(***************************************************************************)
(* The report and the file                                                 *)
(***************************************************************************)

\* Where the report and the file stand at each stage of a run, whatever has happened before it.
Written ==
  /\ stage \in {"json", "fill"} /\ ~applying => report = plan
  /\ stage = "fill" => proposals = Broken
  /\ stage = "report" /\ applying => proposals = plan
  /\ stage = "apply" => proposals = plan

\* The two agree, but where a run is between them.
Agree ==
  ~apart =>
    /\ stage = "apply" => plan = report
    /\ \/ stage = "idle" \/ (stage = "report" /\ ~applying) \/ (stage = "json" /\ applying)
       => proposals \in {NoFile, Broken, report}

ReportInv == MigrationTypeOK /\ Written /\ Agree

LEMMA ReportInductive == ReportInv /\ [MigrationNext]_allVars => Written' /\ Agree'
<1> SUFFICES ASSUME ReportInv, [MigrationNext]_allVars PROVE Written' /\ Agree'
  OBVIOUS
<1> USE DEF ReportInv, Written, Agree
<1>1. ASSUME NEW candidates \in Candidates,
             DryRun(candidates) \/ ApplyNew(candidates) \/ ApplyFile(candidates)
      PROVE  Written' /\ Agree'
  BY <1>1 DEF DryRun, ApplyNew, ApplyFile, MayBeFresh, Idle, Start
<1>2. ASSUME NEW m \in Mem, Hand(m) \/ PassBy(m) PROVE Written' /\ Agree'
  BY <1>2 DEF Hand, PassBy, Turn
<1>3. CASE Truncate
  BY <1>3 DEF Truncate
<1>4. CASE Fill
  BY <1>4 DEF Fill, End, MigrationTypeOK
<1>5. CASE WriteReport
  BY <1>5 DEF WriteReport, MigrationTypeOK
<1>6. CASE Finish
  BY <1>6 DEF Finish, End
<1>7. CASE Kill
  BY <1>7 DEF Kill, End, MigrationTypeOK, Stages
<1>8. ASSUME NEW w \in Writer, WriterStep(w) PROVE Written' /\ Agree'
  BY <1>8 DEF WriterStep, migration
<1>9. CASE UNCHANGED allVars
  BY <1>9 DEF allVars, migration
<1> QED BY <1>1, <1>2, <1>3, <1>4, <1>5, <1>6, <1>7, <1>8, <1>9 DEF MigrationNext, Migrate, Begin

\* What is applied has been reported, and so has what the next run may apply.
THEOREM AppliedIsReported == MigrationSpec => []ReportTells
<1>1. MigrationInit => Written /\ Agree
  BY DEF MigrationInit, Written, Agree
<1>2. ReportInv => ReportTells
  BY DEF ReportInv, Agree, ReportTells
<1> QED BY <1>1, <1>2, ReportInductive, MigrationTypeCorrect, PTL DEF MigrationSpec, ReportInv
================================================================================
