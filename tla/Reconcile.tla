------------------------------- MODULE Reconcile -------------------------------
(***************************************************************************)
(* Reconcile-at-write: _reconcile_candidates and _fallback_add_all of      *)
(* memem/mine_delta.py.  A miner filters the candidates it extracted from  *)
(* its session, asks Haiku once for one operation each, and executes the   *)
(* operations on the vault and the profile.  A miner killed before its     *)
(* offset is written mines the same text again.                            *)
(*                                                                         *)
(* A memory says a set of facts; a candidate is one fact, and is the name  *)
(* of the memory that _stable_mined_memory_id gives it.  Haiku may answer  *)
(* any operation with any target.  Each write of one file is one step: its *)
(* lock and the caches it reads are those of VaultStore, the profile's     *)
(* those of Profiles.                                                      *)
(***************************************************************************)
EXTENDS Integers, Sequences, FiniteSets

CONSTANTS
  Miner,       \* one process per session at a time
  Candidate,   \* facts the sessions tell
  Owner,       \* Owner[c]: the miner whose session tells c
  Old,         \* memories there before
  Pinned,      \* those of them on layer L0 or decay_immune
  Fresh,       \* uuid4 ids
  None,        \* no file; no target
  UpdateCap,   \* _RECONCILE_UPDATE_SUPERSEDE_CAP
  ProfileCap,  \* _RECONCILE_PROFILE_CAP
  MaxBatch,    \* bound: candidates extracted at once
  MaxRuns,     \* bound: times a session is mined
  MaxFailures  \* bound: exceptions and kills

Id == Old \cup Candidate \cup Fresh
Fact == Old \cup Candidate
Memory == [says : SUBSET Fact, valid : BOOLEAN, by : Id \cup {None}]

ASSUME OwnerAssumption == Owner \in [Candidate -> Miner]
ASSUME IdsAssumption ==
  /\ Pinned \subseteq Old
  /\ Old \cap Candidate = {} /\ Old \cap Fresh = {} /\ Candidate \cap Fresh = {}
  /\ None \notin Id \cup Memory
ASSUME CapsAssumption == UpdateCap \in Nat /\ ProfileCap \in Nat
ASSUME BoundsAssumption == MaxBatch \in Nat /\ MaxRuns \in Nat /\ MaxFailures \in Nat

VARIABLES
  vault,     \* vault[i]: the memory with id i, or None
  profile,   \* facts in the profiles
  pc,        \* pc[m]: what m does next
  batch,     \* batch[m]: the candidates m extracted
  queue,     \* queue[m]: those not yet dealt with
  asked,     \* asked[m]: the vault as m showed it to Haiku
  hits,      \* hits[m]: update_supersede_count
  notes,     \* notes[m]: profile_op_count
  aim,       \* aim[m]: the memory m is superseding
  runs,      \* history: times a session was mined
  touched,   \* history: memories m's batch rewrote or invalidated
  raised,    \* history: a reconciliation raised, and everything was added
  failures   \* history: exceptions and kills

local == <<pc, batch, queue, asked, hits, notes, aim>>
history == <<runs, touched, raised, failures>>
vars == <<vault, profile, pc, batch, queue, asked, hits, notes, aim,
          runs, touched, raised, failures>>

Goto(m, step) == pc' = [pc EXCEPT ![m] = step]

New(c) == [says |-> {c}, valid |-> TRUE, by |-> None]

Members(s) == {s[i] : i \in DOMAIN s}

\* The next candidate is dealt with.
Pop(m) == queue' = [queue EXCEPT ![m] = Tail(@)]

\* What a session may yield: its candidates in any order, each once.
Batches(m) ==
  {s \in UNION {[1..n -> {c \in Candidate : Owner[c] = m}] : n \in 1..MaxBatch} :
     \A i, j \in DOMAIN s : s[i] = s[j] => i = j}
--------------------------------------------------------------------------------
Init ==
  /\ vault = [i \in Id |-> IF i \in Old THEN New(i) ELSE None]
  /\ profile = {}
  /\ pc = [m \in Miner |-> "idle"]
  /\ batch = [m \in Miner |-> <<>>]
  /\ queue = [m \in Miner |-> <<>>]
  /\ asked = [m \in Miner |-> [i \in Id |-> None]]
  /\ hits = [m \in Miner |-> 0]
  /\ notes = [m \in Miner |-> 0]
  /\ aim = [m \in Miner |-> None]
  /\ runs = 0
  /\ touched = [m \in Miner |-> {}]
  /\ raised = FALSE
  /\ failures = 0

(***************************************************************************)
(* Before Haiku                                                            *)
(***************************************************************************)

\* run() has extracted candidates from the delta.
Extract(m) ==
  /\ pc[m] = "idle" /\ runs < MaxRuns
  /\ \E s \in Batches(m) :
       /\ batch' = [batch EXCEPT ![m] = s]
       /\ queue' = [queue EXCEPT ![m] = s]
  /\ Goto(m, "filter")
  /\ runs' = runs + 1
  /\ UNCHANGED <<vault, profile, asked, hits, notes, aim, touched, raised, failures>>

\* A text that is a memory's, word for word, scores 1; one that Haiku merged into a
\* memory may.  Invalidated memories count.
Exact(c) == \E i \in Id : vault[i] # None /\ vault[i].says = {c}
Similar(c) == \E i \in Id : vault[i] # None /\ c \in vault[i].says

\* Mutant: no candidate is filtered.
FilterNothing(m) ==
  /\ pc[m] = "filter"
  /\ asked' = [asked EXCEPT ![m] = vault]
  /\ Goto(m, "ask")
  /\ UNCHANGED <<vault, profile, batch, queue, hits, notes, aim, history>>

\* s is b without the members of D, in the same order.
Remains(s, b, D) ==
  /\ Members(s) = Members(b) \ D
  /\ \A i, j \in DOMAIN s : i < j =>
       \E k, l \in DOMAIN b : k < l /\ b[k] = s[i] /\ b[l] = s[j]

\* Near-exact duplicates are dropped; the neighbours of the others are shown to Haiku.
Filter(m) ==
  /\ pc[m] = "filter"
  /\ \E D \in SUBSET {c \in Candidate : Similar(c)} :
       /\ {c \in Candidate : Exact(c)} \subseteq D
       /\ \E s \in Batches(m) \cup {<<>>} :
            /\ Remains(s, batch[m], D)
            /\ queue' = [queue EXCEPT ![m] = s]
  /\ asked' = [asked EXCEPT ![m] = vault]
  /\ Goto(m, IF queue'[m] = <<>> THEN "step" ELSE "ask")
  /\ UNCHANGED <<vault, profile, batch, hits, notes, aim, history>>

Answer(m) ==
  /\ pc[m] = "ask"
  /\ Goto(m, "step")
  /\ UNCHANGED <<vault, profile, batch, queue, asked, hits, notes, aim, history>>

(***************************************************************************)
(* The operations                                                          *)
(***************************************************************************)

\* m executes Haiku's operation for c.
Executes(m, c) == pc[m] = "step" /\ queue[m] # <<>> /\ c = Head(queue[m])

\* Mutant: the file is written whether or not the id is in the vault.
SavedAnyway(c) == [vault EXCEPT ![c] = New(c)]

\* The vault with a memory for c: an id that is there already is left alone.
Saved(c) == IF vault[c] = None THEN [vault EXCEPT ![c] = New(c)] ELSE vault

\* An operation that was degraded or raised may have been counted.
Upto(n, cap) == {k \in {n, n + 1} : k <= cap}

\* ADD, and every operation the rails degrade: an unknown operation, target, profile
\* or section, a protected target, a text too short, a full cap, a failed append.
Add(m) ==
  /\ \E c \in Candidate : Executes(m, c) /\ vault' = Saved(c)
  /\ \E n \in Upto(notes[m], ProfileCap) : notes' = [notes EXCEPT ![m] = n]
  /\ Pop(m)
  /\ UNCHANGED <<profile, pc, batch, asked, hits, aim, history>>

\* Mutant: no memory is protected.
UsableAny(m, t) == vault[t] # None /\ hits[m] < UpdateCap

\* The rails for a target: it is found, not protected, and the cap is not reached.
Usable(m, t) == vault[t] # None /\ t \notin Pinned /\ hits[m] < UpdateCap

\* Haiku's text for an update of t with c: t as Haiku saw it and c, or no text, which
\* stands for c alone, or garbage.
Merged(m, t, c) ==
  {IF asked[m][t] = None THEN {c} ELSE asked[m][t].says \cup {c}, {c}, {}}

\* Less than three tenths of what the target says now.
TooShort(text, t) == text = {} \/ 10 * Cardinality(text) < 3 * Cardinality(vault[t].says)

Update(m) ==
  /\ \E c \in Candidate, t \in Id :
       /\ Executes(m, c) /\ Usable(m, t)
       /\ \E text \in Merged(m, t, c) :
            /\ ~TooShort(text, t)
            /\ vault' = [vault EXCEPT ![t].says = text]
       /\ touched' = [touched EXCEPT ![m] = @ \cup {t}]
  /\ hits' = [hits EXCEPT ![m] = @ + 1]
  /\ Pop(m)
  /\ UNCHANGED <<profile, pc, batch, asked, notes, aim, runs, raised, failures>>

\* Mutant: the target is invalidated before the new memory is saved.
SupersedeInvalidFirst(m) ==
  /\ \E c \in Candidate, t \in Id :
       /\ Executes(m, c) /\ Usable(m, t)
       /\ vault' = [vault EXCEPT ![t].valid = FALSE, ![t].by = c]
       /\ aim' = [aim EXCEPT ![m] = t]
  /\ hits' = [hits EXCEPT ![m] = @ + 1]
  /\ Goto(m, "invalidate")
  /\ UNCHANGED <<profile, batch, queue, asked, notes, history>>

\* SUPERSEDE: the new memory is saved, ...
Supersede(m) ==
  /\ \E c \in Candidate, t \in Id :
       /\ Executes(m, c) /\ Usable(m, t)
       /\ vault' = Saved(c)
       /\ aim' = [aim EXCEPT ![m] = t]
  /\ hits' = [hits EXCEPT ![m] = @ + 1]
  /\ Goto(m, "invalidate")
  /\ UNCHANGED <<profile, batch, queue, asked, notes, history>>

\* ... and invalidate_memory marks the old one with its successor.
Invalidate(m) ==
  /\ pc[m] = "invalidate"
  /\ vault' = [vault EXCEPT ![aim[m]].valid = FALSE, ![aim[m]].by = Head(queue[m])]
  /\ touched' = [touched EXCEPT ![m] = @ \cup {aim[m]}]
  /\ aim' = [aim EXCEPT ![m] = None]
  /\ Pop(m)
  /\ Goto(m, "step")
  /\ UNCHANGED <<profile, batch, asked, hits, notes, runs, raised, failures>>

Noop(m) ==
  /\ \E c \in Candidate : Executes(m, c)
  /\ Pop(m)
  /\ UNCHANGED <<vault, profile, pc, batch, asked, hits, notes, aim, history>>

\* Mutant: the operations on profiles are not capped.
NoteUncapped(m) ==
  /\ \E c \in Candidate : Executes(m, c) /\ profile' = profile \cup {c}
  /\ notes' = [notes EXCEPT ![m] = @ + 1]
  /\ Pop(m)
  /\ UNCHANGED <<vault, pc, batch, asked, hits, aim, history>>

\* PROFILE: append_fact answers appended or duplicate, and no memory is saved.
Note(m) ==
  /\ notes[m] < ProfileCap
  /\ \E c \in Candidate : Executes(m, c) /\ profile' = profile \cup {c}
  /\ notes' = [notes EXCEPT ![m] = @ + 1]
  /\ Pop(m)
  /\ UNCHANGED <<vault, pc, batch, asked, hits, aim, history>>

\* An ADD, UPDATE or SUPERSEDE that raises is logged, and the loop goes on; so does
\* that of the fallback.
Swallow(m) ==
  /\ pc[m] \in {"step", "invalidate", "fallback"} /\ queue[m] # <<>> /\ failures < MaxFailures
  /\ failures' = failures + 1
  /\ \E h \in Upto(hits[m], UpdateCap), n \in Upto(notes[m], ProfileCap) :
       /\ pc[m] # "step" => h = hits[m] /\ n = notes[m]
       /\ hits' = [hits EXCEPT ![m] = h]
       /\ notes' = [notes EXCEPT ![m] = n]
  /\ aim' = [aim EXCEPT ![m] = None]
  /\ Pop(m)
  /\ Goto(m, IF pc[m] = "fallback" THEN "fallback" ELSE "step")
  /\ UNCHANGED <<vault, profile, batch, asked, runs, touched, raised>>

(***************************************************************************)
(* Failures and the end                                                    *)
(***************************************************************************)

\* Haiku fails or answers no JSON, or a field of an answer has the wrong type: the
\* caller adds every candidate, those already dealt with too.
Raise(m) ==
  /\ pc[m] \in {"ask", "step"} /\ queue[m] # <<>> /\ failures < MaxFailures
  /\ failures' = failures + 1
  /\ raised' = TRUE
  /\ queue' = [queue EXCEPT ![m] = batch[m]]
  /\ Goto(m, "fallback")
  /\ UNCHANGED <<vault, profile, batch, asked, hits, notes, aim, runs, touched>>

FallbackAdd(m) ==
  /\ pc[m] = "fallback" /\ queue[m] # <<>>
  /\ \E i \in Fresh : vault[i] = None /\ vault' = [vault EXCEPT ![i] = New(Head(queue[m]))]
  /\ Pop(m)
  /\ UNCHANGED <<profile, pc, batch, asked, hits, notes, aim, history>>

\* The miner forgets its batch.
Forget(m) ==
  /\ batch' = [batch EXCEPT ![m] = <<>>]
  /\ queue' = [queue EXCEPT ![m] = <<>>]
  /\ asked' = [asked EXCEPT ![m] = [i \in Id |-> None]]
  /\ aim' = [aim EXCEPT ![m] = None]
  /\ hits' = [hits EXCEPT ![m] = 0]
  /\ notes' = [notes EXCEPT ![m] = 0]
  /\ touched' = [touched EXCEPT ![m] = {}]
  /\ Goto(m, "idle")
  /\ UNCHANGED <<vault, profile>>

Finish(m) ==
  /\ pc[m] \in {"step", "fallback"} /\ queue[m] = <<>>
  /\ Forget(m)
  /\ UNCHANGED <<runs, raised, failures>>

\* The miner is killed; the offset it did not write makes the next one mine again.
Crash(m) ==
  /\ pc[m] # "idle" /\ failures < MaxFailures
  /\ failures' = failures + 1
  /\ Forget(m)
  /\ UNCHANGED <<runs, raised>>

Execute(m) == Add(m) \/ Update(m) \/ Supersede(m) \/ Noop(m) \/ Note(m)

Next ==
  \E m \in Miner :
    \/ Extract(m) \/ Filter(m) \/ Answer(m)
    \/ Execute(m) \/ Invalidate(m) \/ Swallow(m)
    \/ Raise(m) \/ FallbackAdd(m) \/ Finish(m) \/ Crash(m)

Spec == Init /\ [][Next]_vars
--------------------------------------------------------------------------------
(***************************************************************************)
(* Properties                                                              *)
(***************************************************************************)

Steps == {"idle", "filter", "ask", "step", "invalidate", "fallback"}

\* The variables stay in their types; a memory is superseded by the batch that aims
\* at it, in a vault where it still is.
TypeOK ==
  /\ vault \in [Id -> Memory \cup {None}]
  /\ profile \in SUBSET Candidate
  /\ pc \in [Miner -> Steps]
  /\ batch \in [Miner -> Seq(Candidate)]
  /\ queue \in [Miner -> Seq(Candidate)]
  /\ asked \in [Miner -> [Id -> Memory \cup {None}]]
  /\ hits \in [Miner -> 0..UpdateCap]
  /\ notes \in [Miner -> 0..ProfileCap]
  /\ aim \in [Miner -> Id \cup {None}]
  /\ runs \in Nat
  /\ touched \in [Miner -> SUBSET Id]
  /\ raised \in BOOLEAN
  /\ failures \in Nat
  /\ \A m \in Miner : pc[m] = "invalidate" =>
       queue[m] # <<>> /\ aim[m] \in Id /\ vault[aim[m]] # None

\* No answer of Haiku, of any miner, changes an L0 or decay_immune memory.
PinnedKept == \A i \in Pinned : vault[i] = New(i)

\* The successor an invalidated memory names has a file, whenever its miner is killed.
SuccessorSaved ==
  \A i \in Id : vault[i] # None /\ ~vault[i].valid => vault[i].by \in Id /\ vault[vault[i].by] # None

\* A batch rewrites or invalidates at most UpdateCap memories, whatever Haiku answers.
WithinCap == \A m \in Miner : Cardinality(touched[m]) <= UpdateCap

\* A session mined again after a kill leaves no second copy of a fact, as long as no
\* reconciliation raised.
Copies(c) == {i \in Id : vault[i] # None /\ vault[i].says = {c}}
NoTwins == ~raised => \A c \in Candidate : Cardinality(Copies(c)) <= 1

\* Mining again brings no superseded memory back.
NotRevived ==
  [][\A i \in Id : vault[i] # None /\ ~vault[i].valid => vault'[i] # None /\ ~vault'[i].valid]_vars
================================================================================
