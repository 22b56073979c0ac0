----------------------------- MODULE LayerMigration -----------------------------
(***************************************************************************)
(* memem/migrate_layers.py, which moves facts of old memories into the     *)
(* profiles: a dry run has Haiku decide about each memory on layer 0 or 1, *)
(* and writes a report for a person to read and a file of proposals;       *)
(* --apply hands the lines of that file to append_fact, or of a new one    *)
(* when it is missing, unreadable, old or of another length than the list  *)
(* of memories is by then.  Miners append to the same profile meanwhile.   *)
(*                                                                         *)
(* The profile is the user's.  A line for the profile of a project is      *)
(* appended to a file of its own and only named here.  The migration is    *)
(* started by hand, one run at a time, on the default paths.               *)
(***************************************************************************)
EXTENDS Profiles

CONSTANTS
  Migrator,  \* the writer that migrates
  Mem,       \* memories that may be on layer 0 or 1
  Line,      \* Line[m]: the line Haiku makes of m
  General,   \* memories of the project 'general'
  NoFile,    \* there is no such file
  Broken,    \* it is not JSON
  MaxRuns    \* bound: migrations begun

ASSUME MigratorAssumption == Migrator \in Writer
ASSUME LineAssumption == Line \in [Mem -> Fact]

\* KEEP, or PROFILE with the profile that Haiku names; PROFILE without a profile, a section or a
\* line is passed over like KEEP.
Choice == {"keep", "user", "project"}
Proposals == UNION {[S -> Choice] : S \in SUBSET Mem}

ASSUME FileAssumption == NoFile \notin Proposals /\ Broken \notin Proposals \cup {NoFile}
ASSUME RunsAssumption == IsFiniteSet(Mem) /\ MaxRuns \in Nat

VARIABLES
  report,     \* what migrate-layers-report.md shows
  proposals,  \* migrate-layers-proposals.json
  stage,      \* what the run does next
  applying,   \* the run was started with --apply
  plan,       \* the proposals the run has in hand
  left,       \* memories of the plan it has not come to
  apart,      \* history: a run ended between the report and the file
  runs        \* history: migrations begun

migration == <<report, proposals, stage, applying, plan, left, apart, runs>>
files == <<report, proposals>>
allVars == <<vars, migration>>

NoPlan == [m \in {} |-> "keep"]
--------------------------------------------------------------------------------
MigrationInit ==
  /\ Init
  /\ report = NoFile /\ proposals = NoFile
  /\ stage = "idle" /\ applying = FALSE
  /\ plan = NoPlan /\ left = {}
  /\ apart = FALSE
  /\ runs = 0

\* collect_candidates: memories come, go and change their layer between two runs, and the user
\* excludes some.
Candidates == SUBSET Mem

\* propose and _call_haiku_batch: each candidate gets a proposal, KEEP where Haiku fails, leaves it
\* out or names no section of the profile.
Propose(candidates) == [candidates -> Choice]

\* _proposals_json_is_fresh: the file is compared with the candidates by their number alone; after
\* seven days it is not fresh whatever it holds.
MayBeFresh(candidates) ==
  /\ proposals \notin {NoFile, Broken}
  /\ Cardinality(DOMAIN proposals) = Cardinality(candidates)

Idle == stage = "idle" /\ pc[Migrator] = "idle"

Start(apply, next) ==
  /\ Idle /\ runs < MaxRuns
  /\ runs' = runs + 1
  /\ applying' = apply
  /\ stage' = next

\* run_migration without --apply: with no candidates it leaves the files as they are.
DryRun(candidates) ==
  /\ candidates # {}
  /\ Start(FALSE, "report")
  /\ plan' \in Propose(candidates)
  /\ UNCHANGED <<vars, files, left, apart>>

\* Mutant: the new proposals are applied before they are written.
ApplyAtOnce(candidates) ==
  /\ Start(TRUE, "apply")
  /\ plan' \in Propose(candidates)
  /\ left' = DOMAIN plan'
  /\ UNCHANGED <<vars, files, apart>>

\* run_migration --apply, when there is no file to go by or it is too old: new proposals are made.
ApplyNew(candidates) ==
  /\ Start(TRUE, "json")
  /\ plan' \in Propose(candidates)
  /\ UNCHANGED <<vars, files, left, apart>>

\* run_migration --apply, with the file of an earlier run.
ApplyFile(candidates) ==
  /\ MayBeFresh(candidates)
  /\ Start(TRUE, "apply")
  /\ plan' = proposals
  /\ left' = DOMAIN proposals
  /\ UNCHANGED <<vars, files, apart>>

\* _write_proposals_json empties the file, ...
Truncate ==
  /\ stage = "json"
  /\ proposals' = Broken
  /\ stage' = "fill"
  /\ UNCHANGED <<vars, report, applying, plan, left, apart, runs>>

\* The run is over.
End(s) ==
  /\ stage' = s
  /\ IF s = "idle" THEN applying' = FALSE /\ plan' = NoPlan ELSE UNCHANGED <<applying, plan>>

\* ... and fills it: the last step of a dry run, and before the report of an --apply.
Fill ==
  /\ stage = "fill"
  /\ proposals' = plan
  /\ End(IF applying THEN "report" ELSE "idle")
  /\ apart' = (apart /\ applying)
  /\ UNCHANGED <<vars, report, left, runs>>

\* write_report
WriteReport ==
  /\ stage = "report"
  /\ report' = plan
  /\ stage' = IF applying THEN "apply" ELSE "json"
  /\ left' = IF applying THEN DOMAIN plan ELSE {}
  /\ apart' = (apart /\ ~applying)
  /\ UNCHANGED <<vars, proposals, applying, plan, runs>>

\* apply: what is for the project 'general' goes to the user's profile.
ForUser(m) == plan[m] = "user" \/ (plan[m] = "project" /\ m \in General)

Turn(m) ==
  /\ stage = "apply" /\ pc[Migrator] = "idle"
  /\ m \in left
  /\ left' = left \ {m}
  /\ UNCHANGED <<files, stage, applying, plan, apart, runs>>

Hand(m) == Turn(m) /\ ForUser(m) /\ Ask(Migrator, Line[m])
PassBy(m) == Turn(m) /\ ~ForUser(m) /\ UNCHANGED vars

\* Whatever append_fact answers, the next proposal follows; then the run returns.
Finish ==
  /\ stage = "apply" /\ left = {} /\ pc[Migrator] = "idle"
  /\ End("idle")
  /\ UNCHANGED <<vars, files, left, apart, runs>>

\* The run is killed, in a call of append_fact or between two, or a write raises.
Kill ==
  /\ stage # "idle"
  /\ IF pc[Migrator] = "idle" THEN UNCHANGED vars ELSE Crash(Migrator)
  /\ End("idle")
  /\ left' = {}
  /\ apart' = (apart \/ (stage = "json" /\ ~applying) \/ (stage = "report" /\ applying))
  /\ UNCHANGED <<files, runs>>

Begin ==
  \E candidates \in Candidates : DryRun(candidates) \/ ApplyNew(candidates) \/ ApplyFile(candidates)

Migrate ==
  \/ Truncate \/ Fill \/ WriteReport \/ Finish
  \/ \E m \in Mem : Hand(m) \/ PassBy(m)

\* What the writers do by themselves.
WriterStep(w) ==
  /\ Step(w) \/ (w # Migrator /\ (AppendFact(w) \/ Crash(w)))
  /\ UNCHANGED migration

MigrationNext ==
  \/ Begin \/ Migrate \/ Kill
  \/ \E w \in Writer : WriterStep(w)

MigrationSpec == MigrationInit /\ [][MigrationNext]_allVars

\* A call of append_fact goes on as it does in Profiles; a run that nobody stops goes on.
FairMigrationSpec ==
  /\ MigrationSpec
  /\ \A w \in Writer : WF_allVars(Step(w) /\ UNCHANGED migration)
--------------------------------------------------------------------------------
(***************************************************************************)
(* Properties                                                              *)
(***************************************************************************)

Stages == {"idle", "report", "json", "fill", "apply"}

\* The variables stay in their types; while a run writes its files it asks nothing of append_fact.
MigrationTypeOK ==
  /\ TypeOK
  /\ report \in Proposals \cup {NoFile}
  /\ proposals \in Proposals \cup {NoFile, Broken}
  /\ stage \in Stages
  /\ applying \in BOOLEAN
  /\ plan \in Proposals
  /\ left \in SUBSET DOMAIN plan
  /\ apart \in BOOLEAN
  /\ runs \in 0..MaxRuns
  /\ stage # "apply" => left = {} /\ pc[Migrator] = "idle"

\* The report is what a person reads before --apply (migrate_layers.py:529-531): what an --apply
\* hands to append_fact, and what the file holds for the next one, is what the report shows, unless
\* a run ended between the two.
ReportTells ==
  ~apart =>
    /\ stage = "apply" => plan = report
    /\ stage = "idle" /\ proposals \notin {NoFile, Broken} => proposals = report
================================================================================
