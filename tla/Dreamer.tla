--------------------------------- MODULE Dreamer ---------------------------------
(***************************************************************************)
(* The dream pass, memem/dreamer.py: a process that takes .dream.lock or   *)
(* gives up, lists the vault, has Haiku propose changes to what it listed, *)
(* applies the proposals one category after the other, and notes when it   *)
(* did so.  Miners go on saving episodes and merging news into memories    *)
(* while it works, which takes minutes.                                    *)
(*                                                                         *)
(* A memory says a set of facts; a text that Haiku writes says what its    *)
(* prompt asks it to keep.  The diff is a function of the listing and of   *)
(* Haiku's answers: each proposal is chosen when it is applied, from the   *)
(* listing alone.  A proposal that is not chosen is one Haiku did not make *)
(* or one that raised, which apply_diff logs and passes over.  Each write  *)
(* of one file is one step: its lock, its cache and what a write without   *)
(* the lock may undo are those of VaultStore.                              *)
(***************************************************************************)
EXTENDS Integers, FiniteSets

CONSTANTS
  Pass,         \* slots for dream processes
  Old,          \* mined memories, old enough for their tense to be expired
  Pinned,       \* those of them on layer L0 or decay_immune
  Contradicts,  \* Contradicts[i]: the references in i's contradicts field
  Episode,      \* episodes the miners save
  News,         \* facts the miners merge into memories
  Later,        \* what the later deltas of the sessions say
  Fresh,        \* uuid4 ids of what the passes save
  None,         \* no file; no id
  Nobody,       \* the lock is free
  Threshold,    \* REFLECTION_EPISODE_THRESHOLD
  ClusterMin,   \* CLUSTER_MIN_SIZE
  MergeMin,     \* CLUSTER_MERGE_MIN_SIZE
  MaxPasses,    \* bound: passes begun
  MaxManual,    \* bound: those of them that are begun by hand to change the vault
  MaxProposals, \* bound: proposals of one pass that are applied
  MaxFailures   \* bound: passes killed, writes that raise

Id == Old \cup Episode \cup Fresh
\* An episode's own fact is what the first delta of its session says.
Fact == Old \cup Episode \cup News \cup Later
Kind == {"mined", "episode", "pattern", "canonical", "insight"}
Memory == [says : SUBSET Fact, valid : BOOLEAN, by : Id \cup {None}, demoted : BOOLEAN,
           cluster : Id \cup {None}, kind : Kind, episodic : BOOLEAN, created : Nat]

\* A save notes the first eight characters of an id, a user may write all of them.
Reference == [id : Id, whole : BOOLEAN]

ASSUME IdsAssumption ==
  /\ Pinned \subseteq Old
  /\ Old \cap Episode = {} /\ Old \cap Fresh = {} /\ Episode \cap Fresh = {}
  /\ None \notin Id \cup Memory
ASSUME ContradictsAssumption == Contradicts \in [Old -> SUBSET Reference]
ASSUME NobodyAssumption == Nobody \notin Pass
ASSUME SizesAssumption == Threshold \in Nat /\ ClusterMin \in Nat \ {0} /\ MergeMin \in Nat
ASSUME BoundsAssumption == MaxPasses \in Nat /\ MaxManual \in Nat /\ MaxProposals \in Nat
                            /\ MaxFailures \in Nat

VARIABLES
  vault,      \* vault[i]: the memory with id i, or None
  clock,      \* the time
  last,       \* .last-dream-ts, 0 if there is none
  lock,       \* holder of the flock on .dream.lock
  pc,         \* pc[p]: what p does next
  mode,       \* mode[p]: how p was started
  listed,     \* listed[p]: the vault as p listed it
  since,      \* since[p]: .last-dream-ts as p read it
  dealt,      \* dealt[p]: memories and pairs p is done with in this category
  made,       \* made[p]: proposals p applied
  todo,       \* todo[p]: members of a cluster still to be changed
  aim,        \* aim[p]: the memory p made of a cluster, or is rewriting
  turn,       \* turn[p]: the number of p's pass
  passes,     \* history: passes begun
  manual,     \* history: those begun by hand to change the vault
  told,       \* history: news and later deltas that a memory took in
  dropped,    \* history: facts of an episode that the text of a later delta replaced
  reflected,  \* history: reflected[e]: the passes that saved an insight from e
  judged,     \* history: a contradiction was decided
  stale,      \* history: a text was replaced or retired that its writer had not read
  failures    \* history: passes killed, writes that raised

work == <<mode, listed, since, dealt, made, todo, aim, turn>>
history == <<passes, manual, told, dropped, reflected, judged, stale, failures>>
vars == <<vault, clock, last, lock, pc, mode, listed, since, dealt, made, todo, aim, turn,
          passes, manual, told, dropped, reflected, judged, stale, failures>>

Goto(p, step) == pc' = [pc EXCEPT ![p] = step]

New(facts, kind, time) ==
  [says |-> facts, valid |-> TRUE, by |-> None, demoted |-> FALSE, cluster |-> None,
   kind |-> kind, episodic |-> kind = "episode", created |-> time]

Empty == [i \in Id |-> None]
--------------------------------------------------------------------------------
Init ==
  /\ vault = [i \in Id |-> IF i \in Old THEN New({i}, "mined", 0) ELSE None]
  /\ clock = 0
  /\ last = 0
  /\ lock = Nobody
  /\ pc = [p \in Pass |-> "idle"]
  /\ mode = [p \in Pass |-> "dry"]
  /\ listed = [p \in Pass |-> Empty]
  /\ since = [p \in Pass |-> 0]
  /\ dealt = [p \in Pass |-> {}]
  /\ made = [p \in Pass |-> 0]
  /\ todo = [p \in Pass |-> {}]
  /\ aim = [p \in Pass |-> None]
  /\ turn = [p \in Pass |-> 0]
  /\ passes = 0
  /\ manual = 0
  /\ told = {}
  /\ dropped = {}
  /\ reflected = [e \in Episode |-> {}]
  /\ judged = FALSE
  /\ stale = FALSE
  /\ failures = 0

(***************************************************************************)
(* The miners                                                              *)
(***************************************************************************)

SaveEpisode(e) ==
  /\ vault[e] = None
  /\ vault' = [vault EXCEPT ![e] = New({e}, "episode", clock + 1)]
  /\ clock' = clock + 1
  /\ UNCHANGED <<last, lock, pc, work, history>>

\* More of its session is mined: Haiku summarises the turns of the new delta alone, and the
\* file is written anew with that text, with the same id and time and without what has become
\* of the memory since.
SaveEpisodeAgain(e, d) ==
  /\ vault[e] # None
  /\ vault' = [vault EXCEPT ![e] = New({d}, "episode", vault[e].created)]
  /\ told' = told \cup {d}
  /\ dropped' = (IF vault[e].valid THEN dropped \cup vault[e].says ELSE dropped) \ {d}
  /\ UNCHANGED <<clock, last, lock, pc, work, passes, manual, reflected, judged, stale, failures>>

\* The reconciler or memory_save merges a new fact into a memory.
MergeNews(f) ==
  /\ f \notin told
  /\ \E i \in Id \ Pinned :
       /\ vault[i] # None /\ vault[i].valid
       /\ vault' = [vault EXCEPT ![i].says = @ \cup {f}]
  /\ told' = told \cup {f}
  /\ UNCHANGED <<clock, last, lock, pc, work, passes, manual, dropped, reflected, judged, stale,
                 failures>>

(***************************************************************************)
(* run_dream_cycle, and the CLI's --consolidate                            *)
(***************************************************************************)

Modes == {"dry", "safe", "apply", "consolidate"}

Begin(p) ==
  /\ pc[p] = "idle" /\ passes < MaxPasses
  /\ passes' = passes + 1
  /\ turn' = [turn EXCEPT ![p] = passes + 1]
  /\ \E m \in Modes :
       /\ mode' = [mode EXCEPT ![p] = m]
       /\ manual' = IF m \in {"apply", "consolidate"} THEN manual + 1 ELSE manual
  /\ manual' <= MaxManual
  /\ Goto(p, "lock")
  /\ UNCHANGED <<vault, clock, last, lock, listed, since, dealt, made, todo, aim,
                 told, dropped, reflected, judged, stale, failures>>

\* Mutant: the lock is not given back.
ExitHolding(p) ==
  /\ UNCHANGED lock
  /\ Goto(p, "idle")
  /\ mode' = [mode EXCEPT ![p] = "dry"]
  /\ listed' = [listed EXCEPT ![p] = Empty]
  /\ since' = [since EXCEPT ![p] = 0]
  /\ dealt' = [dealt EXCEPT ![p] = {}]
  /\ made' = [made EXCEPT ![p] = 0]
  /\ todo' = [todo EXCEPT ![p] = {}]
  /\ aim' = [aim EXCEPT ![p] = None]
  /\ turn' = [turn EXCEPT ![p] = 0]

\* The process forgets everything, and the lock with it.
Exit(p) ==
  /\ lock' = IF lock = p THEN Nobody ELSE lock
  /\ Goto(p, "idle")
  /\ mode' = [mode EXCEPT ![p] = "dry"]
  /\ listed' = [listed EXCEPT ![p] = Empty]
  /\ since' = [since EXCEPT ![p] = 0]
  /\ dealt' = [dealt EXCEPT ![p] = {}]
  /\ made' = [made EXCEPT ![p] = 0]
  /\ todo' = [todo EXCEPT ![p] = {}]
  /\ aim' = [aim EXCEPT ![p] = None]
  /\ turn' = [turn EXCEPT ![p] = 0]

\* Mutant: a second pass goes on without the lock.
TakeLockAnyway(p) ==
  /\ pc[p] = "lock"
  /\ lock' = p
  /\ Goto(p, "list")
  /\ UNCHANGED <<vault, clock, last, work, history>>

TakeLock(p) ==
  /\ pc[p] = "lock" /\ lock = Nobody
  /\ lock' = p
  /\ Goto(p, "list")
  /\ UNCHANGED <<vault, clock, last, work, history>>

\* Another pass is running: skipped.
SkipPass(p) ==
  /\ pc[p] = "lock" /\ lock # Nobody
  /\ Exit(p)
  /\ UNCHANGED <<vault, clock, last, history>>

\* The first category that is applied and not only counted.
FirstCategory(m) ==
  CASE m = "dry" -> "release" [] m = "safe" -> "reflect"
    [] m = "apply" -> "demote" [] m = "consolidate" -> "merge"

\* build_diff and its Haiku calls, on the listing; the diff is logged.
BuildDiff(p) ==
  /\ pc[p] = "list"
  /\ listed' = [listed EXCEPT ![p] = vault]
  /\ since' = [since EXCEPT ![p] = last]
  /\ Goto(p, FirstCategory(mode[p]))
  /\ UNCHANGED <<vault, clock, last, lock, mode, dealt, made, todo, aim, turn, history>>

(***************************************************************************)
(* The categories, in the order of apply_diff                              *)
(***************************************************************************)

\* Memories the finders look at: _is_protected leaves the others out.
Listed(p) == {i \in Id \ Pinned : listed[p][i] # None}
Valid(p) == {i \in Listed(p) : listed[p][i].valid}

\* A proposal is about the memories of S, or about a pair.
Deal(p, S) ==
  /\ made[p] < MaxProposals
  /\ made' = [made EXCEPT ![p] = @ + 1]
  /\ dealt' = [dealt EXCEPT ![p] = @ \cup S]

\* Only what is old has lost its strength.
Demote(p) ==
  /\ pc[p] = "demote"
  /\ \E i \in (Listed(p) \cap Old) \ dealt[p] :
       /\ ~listed[p][i].demoted
       /\ vault' = [vault EXCEPT ![i].demoted = TRUE]
       /\ Deal(p, {i})
  /\ UNCHANGED <<clock, last, lock, pc, mode, listed, since, todo, aim, turn, history>>

\* Mutant: only the memory that contradicts is looked at for protection.
PairsOneSided(p) ==
  {pair \in Id \X Id :
     /\ pair[1] \in Valid(p) \cap Old
     /\ listed[p][pair[2]] # None /\ listed[p][pair[2]].valid
     /\ [id |-> pair[2], whole |-> TRUE] \in Contradicts[pair[1]]}

\* find_contradiction_pairs: the references are looked up among whole ids.
Pairs(p) ==
  {pair \in (Valid(p) \cap Old) \X Valid(p) :
     [id |-> pair[2], whole |-> TRUE] \in Contradicts[pair[1]]}

\* Haiku names a winner and a loser of the pair; they may be the same.
Judge(p) ==
  /\ pc[p] = "judge"
  /\ \E pair \in Pairs(p) \ dealt[p] :
       /\ \E loser, winner \in {pair[1], pair[2]} :
            vault' = [vault EXCEPT ![loser].valid = FALSE, ![loser].by = winner]
       /\ Deal(p, {pair})
  /\ judged' = TRUE
  /\ UNCHANGED <<clock, last, lock, pc, mode, listed, since, todo, aim, turn,
                 passes, manual, told, dropped, reflected, stale, failures>>

\* A cluster gets a pattern memory, ...
Summarize(p) ==
  /\ pc[p] = "summarize"
  /\ \E C \in SUBSET (Listed(p) \ dealt[p]), n \in Fresh :
       /\ Cardinality(C) >= ClusterMin
       /\ vault[n] = None
       /\ vault' = [vault EXCEPT ![n] = New({}, "pattern", clock)]
       /\ aim' = [aim EXCEPT ![p] = n]
       /\ todo' = [todo EXCEPT ![p] = C]
       /\ Deal(p, C)
  /\ Goto(p, "mark")
  /\ UNCHANGED <<clock, last, lock, mode, listed, since, turn, history>>

\* The next of a cluster's members, in the order of the listing.
Member(p) == CHOOSE i \in todo[p] : TRUE

\* One step is taken for a member; after the last the category goes on.
Done(p, loop, category) ==
  /\ todo' = [todo EXCEPT ![p] = @ \ {Member(p)}]
  /\ Goto(p, IF todo[p] = {Member(p)} THEN category ELSE loop)

\* ... and its members are marked with it.
Mark(p) ==
  /\ pc[p] = "mark" /\ todo[p] # {}
  /\ vault' = [vault EXCEPT ![Member(p)].cluster = aim[p]]
  /\ Done(p, "mark", "summarize")
  /\ UNCHANGED <<clock, last, lock, mode, listed, since, dealt, made, aim, turn, history>>

\* What may be merged: not what is itself a merge.
Mergeable(p) == {i \in Valid(p) : listed[p][i].kind # "canonical"}

\* Haiku's text for the cluster C, of which it says that it covers S; the tags are
\* those of all of C.
Canonical(p, C, S) ==
  [New(UNION {listed[p][i].says : i \in S}, "canonical", clock + 1)
     EXCEPT !.episodic = \E i \in C : listed[p][i].episodic]

\* Mutant: every member of the cluster is invalidated.
MergeClusterAll(p) ==
  /\ pc[p] = "merge"
  /\ \E C \in SUBSET (Mergeable(p) \ dealt[p]), n \in Fresh :
       /\ Cardinality(C) >= MergeMin
       /\ vault[n] = None
       /\ \E S \in SUBSET C : vault' = [vault EXCEPT ![n] = Canonical(p, C, S)]
       /\ todo' = [todo EXCEPT ![p] = C]
       /\ aim' = [aim EXCEPT ![p] = n]
       /\ Deal(p, C)
  /\ clock' = clock + 1
  /\ Goto(p, "retire")
  /\ UNCHANGED <<last, lock, mode, listed, since, turn, history>>

\* Mutant: a canonical memory that cannot be saved does not stop the rest.
MergeClusterUnsaved(p) ==
  /\ pc[p] = "merge"
  /\ \E C \in SUBSET (Mergeable(p) \ dealt[p]), n \in Fresh :
       /\ Cardinality(C) >= MergeMin
       /\ vault[n] = None
       /\ todo' = [todo EXCEPT ![p] = C]
       /\ aim' = [aim EXCEPT ![p] = n]
       /\ Deal(p, C)
  /\ clock' = clock + 1
  /\ Goto(p, "retire")
  /\ UNCHANGED <<vault, last, lock, mode, listed, since, turn, history>>

\* The canonical memory is saved first; without it no member is touched.
MergeCluster(p) ==
  /\ pc[p] = "merge"
  /\ \E C \in SUBSET (Mergeable(p) \ dealt[p]), n \in Fresh :
       /\ Cardinality(C) >= MergeMin
       /\ vault[n] = None
       /\ \E S \in SUBSET C :
            /\ vault' = [vault EXCEPT ![n] = Canonical(p, C, S)]
            /\ todo' = [todo EXCEPT ![p] = S]
            /\ Goto(p, IF S = {} THEN "merge" ELSE "retire")
       /\ aim' = [aim EXCEPT ![p] = n]
       /\ Deal(p, C)
  /\ clock' = clock + 1
  /\ UNCHANGED <<last, lock, mode, listed, since, turn, history>>

\* Then the members that it covers are invalidated, each under the vault's lock.
Retire(p) ==
  /\ pc[p] = "retire" /\ todo[p] # {}
  /\ vault' = [vault EXCEPT ![Member(p)].valid = FALSE, ![Member(p)].by = aim[p]]
  /\ stale' = (stale \/ vault[Member(p)].says # listed[p][Member(p)].says)
  /\ Done(p, "retire", "merge")
  /\ UNCHANGED <<clock, last, lock, mode, listed, since, dealt, made, aim, turn,
                 passes, manual, told, dropped, reflected, judged, failures>>

\* A member whose write raises is passed over.
PassOver(p) ==
  /\ pc[p] \in {"mark", "retire"} /\ todo[p] # {} /\ failures < MaxFailures
  /\ failures' = failures + 1
  /\ Done(p, pc[p], IF pc[p] = "mark" THEN "summarize" ELSE "merge")
  /\ UNCHANGED <<vault, clock, last, lock, mode, listed, since, dealt, made, aim, turn,
                 passes, manual, told, dropped, reflected, judged, stale>>

\* find_reflection_insights: what is tagged an episode and was saved since the last pass.
Recent(p) ==
  {e \in Listed(p) : listed[p][e].episodic /\ listed[p][e].created > since[p]}

\* Enough of them give an insight, or several.
Reflect(p) ==
  /\ pc[p] = "reflect"
  /\ Cardinality(Recent(p)) >= Threshold
  /\ \E n \in Fresh :
       vault[n] = None /\ vault' = [vault EXCEPT ![n] = New({}, "insight", clock)]
  /\ reflected' = [e \in Episode |->
                     IF e \in Recent(p) THEN reflected[e] \cup {turn[p]} ELSE reflected[e]]
  /\ UNCHANGED <<clock, last, lock, pc, work, passes, manual, told, dropped, judged, stale, failures>>

\* find_tense_rewrites: what is old and was mined.
Rewritable(p) == {i \in Valid(p) : listed[p][i].kind = "mined"}

\* A text that has changed since the listing is left alone.
CheckHash(p) ==
  /\ pc[p] = "rewrite"
  /\ \E i \in Rewritable(p) \ dealt[p] :
       /\ vault[i].says = listed[p][i].says
       /\ aim' = [aim EXCEPT ![p] = i]
       /\ Deal(p, {i})
  /\ Goto(p, "replace")
  /\ UNCHANGED <<vault, clock, last, lock, mode, listed, since, todo, turn, history>>

\* _update_memory then finds the memory again, and replaces its text.
RewriteTense(p) ==
  /\ pc[p] = "replace"
  /\ vault' = [vault EXCEPT ![aim[p]].says = listed[p][aim[p]].says]
  /\ stale' = (stale \/ vault[aim[p]].says # listed[p][aim[p]].says)
  /\ Goto(p, "rewrite")
  /\ UNCHANGED <<clock, last, lock, work, passes, manual, told, dropped, reflected, judged, failures>>

\* No proposal is left in this category.
NextCategory(p) ==
  CASE pc[p] = "demote" -> "judge"
    [] pc[p] = "judge" -> "summarize"
    [] pc[p] = "summarize" -> "merge"
    [] pc[p] = "merge" -> IF mode[p] = "consolidate" THEN "release" ELSE "reflect"
    [] pc[p] = "reflect" -> "rewrite"
    [] pc[p] = "rewrite" -> "stamp"

Advance(p) ==
  /\ pc[p] \in {"demote", "judge", "summarize", "merge", "reflect", "rewrite"}
  /\ Goto(p, NextCategory(p))
  /\ dealt' = [dealt EXCEPT ![p] = {}]
  /\ aim' = [aim EXCEPT ![p] = None]
  /\ UNCHANGED <<vault, clock, last, lock, mode, listed, since, made, todo, turn, history>>

\* The time is noted when everything has been applied.
WriteLastDreamTs(p) ==
  /\ pc[p] = "stamp"
  /\ last' = clock + 1
  /\ clock' = clock + 1
  /\ Goto(p, "release")
  /\ UNCHANGED <<vault, lock, work, passes, manual, told, dropped, reflected, judged, stale, failures>>

\* The timestamp cannot be written: a warning.
LoseLastDreamTs(p) ==
  /\ pc[p] = "stamp" /\ failures < MaxFailures
  /\ failures' = failures + 1
  /\ Goto(p, "release")
  /\ UNCHANGED <<vault, clock, last, lock, work, passes, manual, told, dropped, reflected, judged, stale>>

Release(p) ==
  /\ pc[p] = "release"
  /\ Exit(p)
  /\ UNCHANGED <<vault, clock, last, history>>

\* The pass is killed, or raises outside apply_diff's handlers.
Crash(p) ==
  /\ pc[p] # "idle" /\ failures < MaxFailures
  /\ failures' = failures + 1
  /\ Exit(p)
  /\ UNCHANGED <<vault, clock, last, passes, manual, told, dropped, reflected, judged, stale>>

Apply(p) ==
  \/ Demote(p) \/ Judge(p) \/ Summarize(p) \/ Mark(p) \/ MergeCluster(p) \/ Retire(p)
  \/ PassOver(p)
  \/ Reflect(p) \/ CheckHash(p) \/ RewriteTense(p) \/ Advance(p)

Dream(p) ==
  \/ Begin(p) \/ TakeLock(p) \/ SkipPass(p) \/ BuildDiff(p) \/ Apply(p)
  \/ WriteLastDreamTs(p) \/ LoseLastDreamTs(p) \/ Release(p)

Next ==
  \/ \E e \in Episode : SaveEpisode(e) \/ \E d \in Later : SaveEpisodeAgain(e, d)
  \/ \E f \in News : MergeNews(f)
  \/ \E p \in Pass : Dream(p) \/ Crash(p)

Spec == Init /\ [][Next]_vars
--------------------------------------------------------------------------------
(***************************************************************************)
(* Properties                                                              *)
(***************************************************************************)

Steps == {"idle", "lock", "list", "demote", "judge", "summarize", "mark", "merge", "retire",
          "reflect", "rewrite", "replace", "stamp", "release"}

\* The variables stay in their types; a pass past the lock holds it.
TypeOK ==
  /\ vault \in [Id -> Memory \cup {None}]
  /\ clock \in Nat
  /\ last \in Nat
  /\ lock \in Pass \cup {Nobody}
  /\ pc \in [Pass -> Steps]
  /\ mode \in [Pass -> Modes]
  /\ listed \in [Pass -> [Id -> Memory \cup {None}]]
  /\ since \in [Pass -> Nat]
  /\ dealt \in [Pass -> SUBSET (Id \cup (Id \X Id))]
  /\ made \in [Pass -> Nat]
  /\ todo \in [Pass -> SUBSET Id]
  /\ aim \in [Pass -> Id \cup {None}]
  /\ turn \in [Pass -> Nat]
  /\ passes \in Nat
  /\ manual \in Nat
  /\ told \in SUBSET (News \cup Later)
  /\ dropped \in SUBSET Fact
  /\ reflected \in [Episode -> SUBSET Nat]
  /\ judged \in BOOLEAN
  /\ stale \in BOOLEAN
  /\ failures \in Nat
  /\ \A p \in Pass : lock = p <=> pc[p] \notin {"idle", "lock"}

\* dreamer.py:8-10: no pass of any kind changes a protected memory, although most
\* categories look at the protection in the listing only.
PinnedKept == \A i \in Pinned : vault[i] = New({i}, "mined", 0)

\* Whenever a pass is killed, the successor an invalidated memory names has a file.
SuccessorSaved ==
  \A i \in Id : vault[i] # None /\ ~vault[i].valid => vault[i].by \in Id /\ vault[vault[i].by] # None

\* CHANGELOG.md:68: a pass that nobody reviews invalidates, demotes and marks nothing.
Undisturbed(i) ==
  vault[i] # None => vault'[i] = [vault[i] EXCEPT !.says = vault'[i].says]
SafeAutoAdds ==
  [][\A p \in Pass : mode[p] \in {"dry", "safe"} /\ Dream(p) => \A i \in Id : Undisturbed(i)]_vars

\* Merging loses nothing: as long as no contradiction is decided and no text is replaced or
\* retired that its writer had not read, each fact that was ever saved is said by a memory that is
\* valid, whatever clusters Haiku merges and where the pass is killed.  Only what an episode said
\* before a later delta of its session replaced its text may be gone: that loses the miner, which
\* summarises the delta alone, and no pass.
Saved == Old \cup {e \in Episode : vault[e] # None} \cup told
NothingLost ==
  ~judged /\ ~stale =>
    \A f \in Saved \ dropped : \E i \in Id : vault[i] # None /\ vault[i].valid /\ f \in vault[i].says

\* run_dream_cycle: insights are drawn from an episode by one pass, and by one more
\* for each pass that was killed or could not note its time.
ReflectedOnce == \A e \in Episode : Cardinality(reflected[e]) <= 1 + failures

\* find_contradiction_pairs: a contradiction that a save noted and that is unresolved
\* is proposed.
Surfaced ==
  \A p \in Pass : pc[p] = "judge" =>
    \A i \in Valid(p) \cap Old, j \in Valid(p) :
      (\E r \in Contradicts[i] : r.id = j) => <<i, j>> \in Pairs(p)
================================================================================
