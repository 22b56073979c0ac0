----------------------------- MODULE EmbeddingIndex -----------------------------
(***************************************************************************)
(* The vector index: memem/embedding_index.py, which writes the pair of    *)
(* files embedding_ids.json and embeddings.npy, and load_embeddings of     *)
(* memem/retrieve.py, which reads it.  A save appends a row to the pair, a *)
(* rebuild replaces it from the vault; both hold a lock across processes.  *)
(* Readers take no lock and keep what they have read as long as the        *)
(* modification time of embeddings.npy does not grow.                      *)
(*                                                                         *)
(* A row is the memory whose text it encodes: the pair is sound when the   *)
(* two files list the same memories in the same order.                     *)
(***************************************************************************)
EXTENDS Integers, Sequences, FiniteSets

CONSTANTS
  Memory,      \* memories that may be saved
  NoMemory,    \* nothing to save
  Process,     \* processes that save and rebuild
  Reader,      \* processes that retrieve
  Nobody,      \* the lock is free
  None,        \* nothing read yet
  MaxOperations, \* bound: saves and rebuilds begun
  MaxFailures  \* bound: persists that raise and processes killed

ASSUME NobodyAssumption == Nobody \notin Process
ASSUME NoMemoryAssumption == NoMemory \notin Memory
ASSUME MemoryAssumption == IsFiniteSet(Memory)
ASSUME BoundsAssumption == MaxOperations \in Nat /\ MaxFailures \in Nat

Pair == [ids : Seq(Memory), rows : Seq(Memory)]
Empty == [ids |-> <<>>, rows |-> <<>>]
Read == [ids : Seq(Memory), rows : Seq(Memory), time : Nat]

\* A memory and a reader's copy are told apart from nothing.
ASSUME NoneAssumption == None \notin Read

VARIABLES
  vault,    \* the memories that have a file
  disk,     \* the pair of files
  clock,    \* modification time of embeddings.npy, 0 before it exists
  lock,     \* holder of the flock on .embeddings.lock
  pc,       \* pc[p]: the step p takes next
  item,     \* item[p]: the memory p saves, or NoMemory when it rebuilds
  warm,     \* warm[p]: the memories p's rebuild has in its vault cache
  draft,    \* draft[p]: the pair p is about to write
  cache,    \* cache[r]: what r has read, or None
  look,     \* look[r]: what r has read so far of the pair it is loading, or None
  got,      \* got[r]: has r loaded the rows?
  done,     \* history: memories in the vault whose upsert returned True
  outdated, \* history: a rebuild took memories that are not those of the vault
  torn,     \* history: a persist ended between its two files
  begun,    \* history: saves and rebuilds begun
  failures  \* history: failed persists and killed processes

work == <<pc, item, warm, draft>>
reading == <<cache, look, got>>
history == <<done, outdated, torn, begun, failures>>
vars == <<vault, disk, clock, lock, pc, item, warm, draft, cache, look, got,
          done, outdated, torn, begun, failures>>

Goto(p, step) == pc' = [pc EXCEPT ![p] = step]

Members(s) == {s[i] : i \in DOMAIN s}

\* The orders in which the vault may be listed.
Listings(S) == {s \in [1..Cardinality(S) -> S] : Members(s) = S}

\* Mutant: a return that leaves the lock taken.
LeaveHolding(p) ==
  /\ Goto(p, "idle")
  /\ item' = [item EXCEPT ![p] = NoMemory]
  /\ draft' = [draft EXCEPT ![p] = Empty]
  /\ warm' = [warm EXCEPT ![p] = {}]
  /\ UNCHANGED lock

\* The operation returns.
Leave(p) ==
  /\ Goto(p, "idle")
  /\ item' = [item EXCEPT ![p] = NoMemory]
  /\ draft' = [draft EXCEPT ![p] = Empty]
  /\ warm' = [warm EXCEPT ![p] = {}]
  /\ lock' = IF lock = p THEN Nobody ELSE lock
--------------------------------------------------------------------------------
Init ==
  /\ vault = {}
  /\ disk = Empty
  /\ clock = 0
  /\ lock = Nobody
  /\ pc = [p \in Process |-> "idle"]
  /\ item = [p \in Process |-> NoMemory]
  /\ warm = [p \in Process |-> {}]
  /\ draft = [p \in Process |-> Empty]
  /\ cache = [r \in Reader |-> None]
  /\ look = [r \in Reader |-> None]
  /\ got = [r \in Reader |-> FALSE]
  /\ done = {}
  /\ outdated = FALSE
  /\ torn = FALSE
  /\ begun = 0
  /\ failures = 0

(***************************************************************************)
(* Writers                                                                 *)
(***************************************************************************)

\* _save_memory writes the memory's file; _upsert_embedding then encodes its text.
Save(p) ==
  /\ pc[p] = "idle" /\ begun < MaxOperations
  /\ begun' = begun + 1
  /\ \E m \in Memory \ vault :
       /\ item' = [item EXCEPT ![p] = m]
       /\ vault' = vault \cup {m}
       /\ done' = done \ {m}
  /\ Goto(p, "lock")
  /\ UNCHANGED <<disk, clock, lock, warm, draft, reading, outdated, torn, failures>>

\* The model is not installed or fails: the save goes on without a row.
EncodeFails(p) ==
  /\ pc[p] = "lock" /\ item[p] # NoMemory
  /\ Leave(p)
  /\ UNCHANGED <<vault, disk, clock, reading, history>>

\* memem --rebuild-search-index: a process of its own, whose first listing of the vault, for the
\* full-text table, reads every file.
Rebuild(p) ==
  /\ pc[p] = "idle" /\ begun < MaxOperations
  /\ begun' = begun + 1
  /\ warm' = [warm EXCEPT ![p] = vault]
  /\ Goto(p, "lock")
  /\ UNCHANGED <<vault, disk, clock, lock, item, draft, reading, done, outdated, torn, failures>>

\* Mutant: the lock is not taken.
TakeLockAnyway(p) ==
  /\ pc[p] = "lock"
  /\ lock' = p
  /\ Goto(p, "load")
  /\ UNCHANGED <<vault, disk, clock, item, warm, draft, reading, history>>

TakeLock(p) ==
  /\ pc[p] = "lock"
  /\ lock = Nobody
  /\ lock' = p
  /\ Goto(p, "load")
  /\ UNCHANGED <<vault, disk, clock, item, warm, draft, reading, history>>

\* Mutant: the row is appended to the ids only if it is new, to the rows always.
WithTwoRows(pair, m) ==
  [ids |-> IF m \in Members(pair.ids) THEN pair.ids ELSE Append(pair.ids, m),
   rows |-> Append(pair.rows, m)]

\* The pair with a row for m, replaced if it has one (no id is listed twice).
WithRow(pair, m) ==
  IF \E i \in DOMAIN pair.ids : pair.ids[i] = m
    THEN [pair EXCEPT !.rows[CHOOSE i \in DOMAIN pair.ids : pair.ids[i] = m] = m]
    ELSE [ids |-> Append(pair.ids, m), rows |-> Append(pair.rows, m)]

\* An upsert loads the pair under the lock; one whose lengths differ is dropped.
LoadPair(p) ==
  /\ pc[p] = "load" /\ item[p] # NoMemory
  /\ LET pair == IF Len(disk.ids) = Len(disk.rows) THEN disk ELSE Empty
     IN  draft' = [draft EXCEPT ![p] = WithRow(pair, item[p])]
  /\ Goto(p, "ids")
  /\ UNCHANGED <<vault, disk, clock, lock, item, warm, reading, history>>

\* A rebuild lists the vault again under the lock: from its cache, unless half a
\* minute has passed since the first listing.
ListVault(p) ==
  /\ pc[p] = "load" /\ item[p] = NoMemory
  /\ \E S \in {warm[p], vault} :
       /\ warm' = [warm EXCEPT ![p] = S]
       /\ outdated' = (outdated \/ S # vault)
       /\ \E s \in Listings(S) : draft' = [draft EXCEPT ![p] = [ids |-> s, rows |-> s]]
  /\ Goto(p, "ids")
  /\ UNCHANGED <<vault, disk, clock, lock, item, reading, done, torn, begun, failures>>

\* embedding_ids.json is replaced first, ...
WriteIds(p) ==
  /\ pc[p] = "ids"
  /\ disk' = [disk EXCEPT !.ids = draft[p].ids]
  /\ Goto(p, "rows")
  /\ UNCHANGED <<vault, clock, lock, item, warm, draft, reading, history>>

\* ... embeddings.npy second, and the lock is released.
WriteRows(p) ==
  /\ pc[p] = "rows"
  /\ disk' = [disk EXCEPT !.rows = draft[p].rows]
  /\ clock' = clock + 1
  /\ done' = IF item[p] \in vault THEN done \cup {item[p]} ELSE done
  /\ Leave(p)
  /\ UNCHANGED <<vault, reading, outdated, torn, begun, failures>>

\* A persist raises, or the process is killed, at any step.
Fail(p) ==
  /\ pc[p] # "idle" /\ failures < MaxFailures
  /\ failures' = failures + 1
  /\ torn' = (torn \/ pc[p] = "rows")
  /\ Leave(p)
  /\ UNCHANGED <<vault, disk, clock, reading, done, outdated, begun>>

\* A purge removes a memory's file and leaves its row.
Purge(m) ==
  /\ m \in vault
  /\ vault' = vault \ {m}
  /\ done' = done \ {m}
  /\ UNCHANGED <<disk, clock, lock, work, reading, outdated, torn, begun, failures>>

(***************************************************************************)
(* Readers                                                                 *)
(***************************************************************************)

\* load_embeddings: a copy as new as the file is used as it is.
Fresh(r) == cache[r] # None /\ cache[r].time >= clock

Look(r) ==
  /\ look[r] = None /\ clock > 0
  /\ ~Fresh(r)
  /\ look' = [look EXCEPT ![r] = [ids |-> <<>>, rows |-> <<>>, time |-> clock]]
  /\ UNCHANGED <<vault, disk, clock, lock, work, cache, got, history>>

LoadRows(r) ==
  /\ look[r] # None /\ ~got[r]
  /\ look' = [look EXCEPT ![r].rows = disk.rows]
  /\ got' = [got EXCEPT ![r] = TRUE]
  /\ UNCHANGED <<vault, disk, clock, lock, work, cache, history>>

\* Mutant: the modification time is read after the files.
LoadIdsThenTime(r) ==
  /\ look[r] # None /\ got[r]
  /\ cache' = [cache EXCEPT ![r] = [look[r] EXCEPT !.ids = disk.ids, !.time = clock]]
  /\ look' = [look EXCEPT ![r] = None]
  /\ got' = [got EXCEPT ![r] = FALSE]
  /\ UNCHANGED <<vault, disk, clock, lock, work, history>>

LoadIds(r) ==
  /\ look[r] # None /\ got[r]
  /\ cache' = [cache EXCEPT ![r] = [look[r] EXCEPT !.ids = disk.ids]]
  /\ look' = [look EXCEPT ![r] = None]
  /\ got' = [got EXCEPT ![r] = FALSE]
  /\ UNCHANGED <<vault, disk, clock, lock, work, history>>

Write(p) ==
  \/ EncodeFails(p) \/ TakeLock(p) \/ LoadPair(p) \/ ListVault(p)
  \/ WriteIds(p) \/ WriteRows(p)

Load(r) == Look(r) \/ LoadRows(r) \/ LoadIds(r)

Next ==
  \/ \E p \in Process : Save(p) \/ Rebuild(p) \/ Write(p) \/ Fail(p)
  \/ \E m \in Memory : Purge(m)
  \/ \E r \in Reader : Load(r)

Spec == Init /\ [][Next]_vars

\* A writer goes on to the end; a reader retrieves again and again.
FairSpec ==
  /\ Spec
  /\ \A p \in Process : WF_vars(Write(p))
  /\ \A r \in Reader : WF_vars(Load(r))
--------------------------------------------------------------------------------
(***************************************************************************)
(* Properties                                                              *)
(***************************************************************************)

Steps == {"idle", "lock", "load", "ids", "rows"}

\* The variables stay in their types, and the lock is held by a process that is
\* between taking it and returning: every return path gives it back.
TypeOK ==
  /\ vault \in SUBSET Memory
  /\ disk \in Pair
  /\ clock \in Nat
  /\ lock \in Process \cup {Nobody}
  /\ pc \in [Process -> Steps]
  /\ item \in [Process -> Memory \cup {NoMemory}]
  /\ warm \in [Process -> SUBSET Memory]
  /\ draft \in [Process -> Pair]
  /\ cache \in [Reader -> Read \cup {None}]
  /\ look \in [Reader -> Read \cup {None}]
  /\ got \in [Reader -> BOOLEAN]
  /\ done \in SUBSET Memory
  /\ outdated \in BOOLEAN
  /\ torn \in BOOLEAN
  /\ begun \in Nat
  /\ failures \in Nat
  /\ \A p \in Process : lock = p <=> pc[p] \in {"load", "ids", "rows"}

\* Row i is the vector of memory i, unless a persist was interrupted or one is
\* between its two files, with the lock: an upsert never shifts the rows.
Aligned == disk.ids = disk.rows
PairSound == torn \/ Aligned \/ \E p \in Process : lock = p /\ pc[p] = "rows"

\* A row whose upsert succeeded stays, whatever is saved and rebuilt at the same
\* time, as long as rebuilds list the vault as it is.
RowsKept == ~outdated /\ ~torn => done \subseteq Members(disk.rows)

\* Readers come to hold the pair that is on disk, if it is a sound one: the ids
\* are written before the file whose modification time readers look at.
ReadersCatchUp ==
  <>[](torn \/ clock = 0 \/
       \A r \in Reader : cache[r] # None /\ cache[r].ids = disk.ids /\ cache[r].rows = disk.rows)
================================================================================
