------------------------------- MODULE VaultStore -------------------------------
(***************************************************************************)
(* The vault store, memem/obsidian_store.py, seen from ONE memory: its     *)
(* markdown file, the vault write lock, and the processes that read and    *)
(* change it (the MCP server, detached miners, the dreamer, the CLI), each *)
(* with its own cache of parsed files, and the copy of such a cache that a *)
(* process writes to .vault-cache.msgpack for those that start later.      *)
(*                                                                         *)
(* What a mutation leaves in the file is abstracted to its mark.  The      *)
(* fields a mutation adds to (tags, keys, invalid_at, clustered_into) are  *)
(* the set "marks"; the text, which an update replaces by a merge that was *)
(* computed beforehand, is the set "essence" of the marks merged into it.  *)
(* A file is named after the title: a title with a [project] prefix loses  *)
(* it when the file is parsed, so the next write renames the file.         *)
(* index.md, the search tables and the graph, which are updated after the  *)
(* file, are not part of this module.                                      *)
(***************************************************************************)
EXTENDS Integers, FiniteSets

CONSTANTS
  Process,     \* processes that open the vault
  Stamper,     \* those that write without the lock: the dreamer's demotions and clusters
  Deleter,     \* those that delete: the CLI's purge
  NoProcess,   \* the lock is free
  Absent,      \* no such file, no such cache entry, no stat taken
  MaxOperations, \* bound: mutations begun
  Throttle,    \* is _VAULT_SWEEP_INTERVAL positive?
  MaxFailures  \* bound: processes killed or ended, and writes that raise

ASSUME ProcessAssumption == NoProcess \notin Process
ASSUME RolesAssumption == Stamper \subseteq Process /\ Deleter \subseteq Process
ASSUME ThrottleAssumption == Throttle \in BOOLEAN
ASSUME BoundsAssumption == MaxOperations \in Nat /\ MaxFailures \in Nat

Mark == 1..MaxOperations

\* The file's name before and after the title is cleaned.
Name == {"titled", "clean"}

File == [marks : SUBSET Mark, essence : SUBSET Mark, mtime : Nat]
Entry == [marks : SUBSET Mark, essence : SUBSET Mark, mtime : Nat, name : Name]
Draft == [marks : SUBSET Mark, essence : SUBSET Mark, old : Name, name : Name]
Stat == [name : Name, mtime : Nat]
Kind == {"none", "save", "merge", "invalidate", "stamp"}

\* No record has a field of this name alone, so no record is Absent.
ASSUME AbsentAssumption == Absent \notin File \cup Entry \cup Stat

VARIABLES
  disk,      \* disk[n]: the file of that name
  clock,     \* the last modification time given out
  lock,      \* holder of the flock on .vault-write.lock
  cache,     \* cache[p]: the memory's entry in p's _VAULT_CACHE and _VAULT_CACHE_FILES
  due,       \* due[p]: p has not swept its cache for the sweep interval
  stat,      \* stat[p]: what p's stat() returned, until it has parsed the file
  pc,        \* pc[p]: the step of the operation p takes next
  kind,      \* kind[p]: the operation p is in
  mark,      \* mark[p]: the mark it adds, or 0
  seen,      \* seen[p]: the essence its merge was computed from
  draft,     \* draft[p]: the memory as p is about to write it
  used,      \* the last mark given out
  done,      \* history: marks of the operations that returned successfully
  merged,    \* history: those of them that merged a text
  stale,     \* history: a find under the lock returned an outdated entry
  rogue,     \* history: a write or a delete outside the lock
  cut,       \* history: a rename ended between the unlink and the write
  cold,      \* cold[p]: p has not tried to load a cache (_VAULT_PKL_LOADED)
  saved,     \* the memory's entry in .vault-cache.msgpack
  dirty,     \* history: p's entry holds a change that is not in the file it was read from
  soiled,    \* history: so does the saved one
  failures   \* history: processes killed or ended, and writes that raised

store == <<disk, clock, lock>>
reading == <<cache, due, stat, dirty, cold>>
saving == <<saved, soiled>>
operation == <<kind, mark, seen, draft>>
history == <<done, merged, stale, rogue, cut, failures>>
vars == <<disk, clock, lock, cache, due, stat, pc, kind, mark, seen, draft, used,
          done, merged, stale, rogue, cut, cold, saved, dirty, soiled, failures>>

Present == \E n \in Name : disk[n] # Absent
LiveName == CHOOSE n \in Name : disk[n] # Absent

\* p's entry says what the file says.
UpToDate(p) ==
  /\ Present
  /\ cache[p].marks = disk[LiveName].marks
  /\ cache[p].essence = disk[LiveName].essence

Goto(p, step) == pc' = [pc EXCEPT ![p] = step]

NoDraft == [marks |-> {}, essence |-> {}, old |-> "clean", name |-> "clean"]

\* The operation ends, successfully or with an exception.
Forget(p) ==
  /\ Goto(p, "idle")
  /\ kind' = [kind EXCEPT ![p] = "none"]
  /\ mark' = [mark EXCEPT ![p] = 0]
  /\ seen' = [seen EXCEPT ![p] = {}]
  /\ draft' = [draft EXCEPT ![p] = NoDraft]

\* Besides, the lock is released.
Leave(p) ==
  /\ Forget(p)
  /\ lock' = IF lock = p THEN NoProcess ELSE lock

\* A memory that a process has just parsed, as its cache holds it.
Parsed(s) == [marks |-> disk[s.name].marks, essence |-> disk[s.name].essence,
              mtime |-> s.mtime, name |-> s.name]
--------------------------------------------------------------------------------
Init ==
  /\ disk = [n \in Name |-> Absent]
  /\ clock = 0
  /\ lock = NoProcess
  /\ cache = [p \in Process |-> Absent]
  /\ due = [p \in Process |-> TRUE]
  /\ stat = [p \in Process |-> Absent]
  /\ pc = [p \in Process |-> "idle"]
  /\ kind = [p \in Process |-> "none"]
  /\ mark = [p \in Process |-> 0]
  /\ seen = [p \in Process |-> {}]
  /\ draft = [p \in Process |-> NoDraft]
  /\ used = 0
  /\ done = {}
  /\ merged = {}
  /\ stale = FALSE
  /\ rogue = FALSE
  /\ cut = FALSE
  /\ cold = [p \in Process |-> TRUE]
  /\ saved = Absent
  /\ dirty = [p \in Process |-> FALSE]
  /\ soiled = FALSE
  /\ failures = 0

(***************************************************************************)
(* The cache                                                               *)
(***************************************************************************)

\* Half a minute passes, not while a find that has just swept returns its entry.
Age(p) ==
  /\ ~due[p] /\ pc[p] # "find"
  /\ due' = [due EXCEPT ![p] = TRUE]
  /\ UNCHANGED <<store, cache, stat, dirty, cold, saving, pc, operation, used, history>>

\* _load_vault_cache, before the first read of a process: what another one has
\* saved, unless it cannot be read, and then it is removed.
Load(p) ==
  /\ pc[p] = "idle" /\ due[p] /\ stat[p] = Absent
  /\ cold[p] /\ cache[p] = Absent
  /\ cold' = [cold EXCEPT ![p] = FALSE]
  /\ \/ /\ cache' = [cache EXCEPT ![p] = saved]
        /\ dirty' = [dirty EXCEPT ![p] = soiled]
        /\ UNCHANGED saving
     \/ /\ saved' = Absent /\ soiled' = FALSE
        /\ UNCHANGED <<cache, dirty>>
  /\ UNCHANGED <<store, due, stat, pc, operation, used, history>>

\* The end of a sweep, _flush_vault_cache: p's cache is saved if this memory's
\* entry or another's has changed, or been refreshed, since the last sweep, and
\* if it can be written.
Flush(p) ==
  \/ UNCHANGED saving
  \/ saved' = cache'[p] /\ soiled' = dirty'[p]

\* Mutant: sweep looks at the name only.
SweepNames(p) ==
  /\ due[p] /\ stat[p] = Absent
  /\ pc[p] \in {"idle", "find", "unlink"}
  /\ IF Present /\ (cache[p] = Absent \/ cache[p].name # LiveName)
       THEN /\ stat' = [stat EXCEPT ![p] = [name |-> LiveName, mtime |-> disk[LiveName].mtime]]
            /\ UNCHANGED due
       ELSE due' = [due EXCEPT ![p] = FALSE] /\ UNCHANGED stat
  /\ cold' = [cold EXCEPT ![p] = FALSE]
  /\ UNCHANGED <<store, cache, dirty, saving, pc, operation, used, history>>

\* _ensure_cache_warm, before a read: entries of files that are gone are evicted,
\* a file that is new or has another modification time is parsed next.
SweepStat(p) ==
  /\ due[p] /\ stat[p] = Absent
  /\ pc[p] \in {"idle", "find", "unlink"}
  /\ ~cold[p] \/ cache[p] # Absent
  /\ cold' = [cold EXCEPT ![p] = FALSE]
  /\ IF ~Present
       THEN /\ cache' = [cache EXCEPT ![p] = Absent]
            /\ dirty' = [dirty EXCEPT ![p] = FALSE]
            /\ due' = [due EXCEPT ![p] = FALSE]
            /\ Flush(p)
            /\ UNCHANGED stat
       ELSE LET now == [name |-> LiveName, mtime |-> disk[LiveName].mtime] IN
            IF cache[p] # Absent /\ now = [name |-> cache[p].name, mtime |-> cache[p].mtime]
              THEN /\ due' = [due EXCEPT ![p] = FALSE]
                   /\ UNCHANGED <<cache, dirty, stat>>
                   /\ Flush(p)
              ELSE /\ stat' = [stat EXCEPT ![p] = now]
                   /\ IF cache[p] # Absent /\ cache[p].name # LiveName
                        THEN /\ cache' = [cache EXCEPT ![p] = Absent]
                             /\ dirty' = [dirty EXCEPT ![p] = FALSE]
                        ELSE UNCHANGED <<cache, dirty>>
                   /\ UNCHANGED <<due, saving>>
  /\ UNCHANGED <<store, pc, operation, used, history>>

\* Mutant: an entry that exists takes the new modification time and keeps its fields.
RereadTime(p) ==
  /\ stat' = [stat EXCEPT ![p] = Absent]
  /\ IF disk[stat[p].name] # Absent
       THEN /\ cache' = [cache EXCEPT ![p] =
                           IF @ = Absent THEN Parsed(stat[p]) ELSE [@ EXCEPT !.mtime = stat[p].mtime]]
            /\ dirty' = [dirty EXCEPT ![p] = FALSE]
       ELSE UNCHANGED <<cache, dirty>>

\* Mutant: the None that the parse of a vanished file returns is cached.
RereadNone(p) ==
  /\ stat' = [stat EXCEPT ![p] = Absent]
  /\ cache' = [cache EXCEPT ![p] = IF disk[stat[p].name] # Absent THEN Parsed(stat[p]) ELSE <<>>]
  /\ dirty' = [dirty EXCEPT ![p] = FALSE]

\* The parse after the stat.  A file that has vanished in between leaves the
\* entry as it is.
Reread(p) ==
  /\ stat' = [stat EXCEPT ![p] = Absent]
  /\ IF disk[stat[p].name] # Absent
       THEN /\ cache' = [cache EXCEPT ![p] = Parsed(stat[p])]
            /\ dirty' = [dirty EXCEPT ![p] = FALSE]
       ELSE UNCHANGED <<cache, dirty>>

SweepParse(p) ==
  /\ stat[p] # Absent
  /\ pc[p] # "reparse"
  /\ Reread(p)
  /\ due' = [due EXCEPT ![p] = FALSE]
  /\ Flush(p)
  /\ UNCHANGED <<store, cold, pc, operation, used, history>>

(***************************************************************************)
(* The operations                                                          *)
(***************************************************************************)

\* Operation k of process p begins at a step.
Begin(p, k, step) ==
  /\ pc[p] = "idle" /\ stat[p] = Absent
  /\ used < MaxOperations
  /\ used' = used + 1
  /\ mark' = [mark EXCEPT ![p] = used + 1]
  /\ kind' = [kind EXCEPT ![p] = k]
  /\ Goto(p, step)

\* _save_memory of a memory that is new: no lock is needed for a fresh id.
Save(p) ==
  /\ used = 0
  /\ Begin(p, "save", "write")
  /\ \E n \in Name :
       draft' = [draft EXCEPT ![p] = [marks |-> {1}, essence |-> {1}, old |-> n, name |-> n]]
  /\ UNCHANGED <<store, reading, saving, seen, history>>

\* memory_save or the reconciler finds a near-duplicate in its cache and has
\* Haiku merge the new content into the essence it found there.
Merge(p) ==
  /\ cache[p] # Absent
  /\ Begin(p, "merge", "lock")
  /\ seen' = [seen EXCEPT ![p] = cache[p].essence]
  /\ UNCHANGED <<store, reading, saving, draft, history>>

\* invalidate_memory, for a reconciler's SUPERSEDE or a dreamer's decision.
Invalidate(p) ==
  /\ cache[p] # Absent
  /\ Begin(p, "invalidate", "lock")
  /\ UNCHANGED <<store, reading, saving, seen, draft, history>>

\* The dreamer changes the layer or clustered_into: find and write, no lock.
Stamp(p) ==
  /\ p \in Stamper
  /\ cache[p] # Absent
  /\ Begin(p, "stamp", "find")
  /\ due' = [due EXCEPT ![p] = @ \/ ~Throttle]
  /\ rogue' = TRUE
  /\ UNCHANGED <<store, cache, stat, dirty, cold, saving, seen, draft, done, merged, stale, cut, failures>>

\* Mutant: the lock is not waited for.
AcquireAnyway(p) ==
  /\ pc[p] = "lock"
  /\ lock' = p
  /\ due' = [due EXCEPT ![p] = @ \/ ~Throttle]
  /\ Goto(p, "find")
  /\ UNCHANGED <<disk, clock, cache, stat, dirty, cold, saving, operation, used, history>>

\* The blocking flock.
Acquire(p) ==
  /\ pc[p] = "lock"
  /\ lock = NoProcess
  /\ lock' = p
  /\ due' = [due EXCEPT ![p] = @ \/ ~Throttle]
  /\ Goto(p, "find")
  /\ UNCHANGED <<disk, clock, cache, stat, dirty, cold, saving, operation, used, history>>

\* _find_memory has no entry: the operation raises, or returns False.
FindNothing(p) ==
  /\ pc[p] = "find" /\ ~due[p] /\ stat[p] = Absent
  /\ cache[p] = Absent
  /\ Leave(p)
  /\ UNCHANGED <<disk, clock, reading, saving, used, history>>

\* The fields as process p's operation leaves them.
Changed(p) ==
  [marks |-> cache[p].marks \cup {mark[p]},
   essence |-> IF kind[p] = "merge" THEN seen[p] \cup {mark[p]} ELSE cache[p].essence]

\* _find_memory returns the cache's own dictionary, which is changed in place.
Find(p) ==
  /\ pc[p] = "find" /\ ~due[p] /\ stat[p] = Absent
  /\ cache[p] # Absent
  /\ draft' = [draft EXCEPT ![p] = [marks |-> Changed(p).marks, essence |-> Changed(p).essence,
                                    old |-> cache[p].name, name |-> "clean"]]
  /\ cache' = [cache EXCEPT ![p].marks = Changed(p).marks, ![p].essence = Changed(p).essence]
  /\ dirty' = [dirty EXCEPT ![p] = TRUE]
  /\ stale' = (stale \/ ~UpToDate(p))
  /\ Goto(p, "unlink")
  /\ UNCHANGED <<store, due, stat, cold, saving, kind, mark, seen, used, done, merged, rogue, cut, failures>>

\* Mutant: the file under the old name is left behind.
KeepOld(p) ==
  /\ pc[p] = "unlink" /\ stat[p] = Absent
  /\ Goto(p, "write")
  /\ UNCHANGED <<store, reading, saving, operation, used, history>>

\* _write_obsidian_memory, first half: a file of another name is unlinked.
Unlink(p) ==
  /\ pc[p] = "unlink" /\ stat[p] = Absent
  /\ disk' = IF draft[p].old # draft[p].name
             THEN [disk EXCEPT ![draft[p].old] = Absent] ELSE disk
  /\ Goto(p, "write")
  /\ UNCHANGED <<clock, lock, reading, saving, operation, used, history>>

\* Second half: the new file replaces what has its name.  A stamp ends here,
\* the other operations refresh the cache.
Write(p) ==
  /\ pc[p] = "write"
  /\ clock' = clock + 1
  /\ disk' = [disk EXCEPT ![draft[p].name] =
                [marks |-> draft[p].marks, essence |-> draft[p].essence, mtime |-> clock + 1]]
  /\ IF kind[p] = "stamp"
       THEN Forget(p) /\ done' = done \cup {mark[p]}
       ELSE Goto(p, "restat") /\ UNCHANGED <<operation, done>>
  /\ UNCHANGED <<lock, reading, saving, used, merged, stale, rogue, cut, failures>>

\* The operation returns: its caller counts on what it wrote.
Finish(p) ==
  /\ Leave(p)
  /\ done' = done \cup {mark[p]}
  /\ merged' = IF kind[p] = "merge" THEN merged \cup {mark[p]} ELSE merged
  /\ UNCHANGED <<disk, clock, due, cold, saving, used, stale, rogue, cut, failures>>

\* _cache_refresh_from_disk looks for the file under the name the cache knows,
\* and under any name only if it knows none.
Known(p) == IF cache[p] # Absent THEN disk[cache[p].name] # Absent ELSE Present
KnownName(p) == IF cache[p] # Absent THEN cache[p].name ELSE LiveName

\* The file was renamed by this very write: the refresh gives up.
RefreshNothing(p) ==
  /\ pc[p] = "restat"
  /\ ~Known(p)
  /\ Finish(p)
  /\ UNCHANGED <<cache, dirty, stat>>

RefreshStat(p) ==
  /\ pc[p] = "restat"
  /\ Known(p)
  /\ stat' = [stat EXCEPT ![p] = [name |-> KnownName(p), mtime |-> disk[KnownName(p)].mtime]]
  /\ Goto(p, "reparse")
  /\ UNCHANGED <<store, cache, due, dirty, cold, saving, operation, used, history>>

RefreshParse(p) ==
  /\ pc[p] = "reparse" /\ stat[p] # Absent
  /\ Reread(p)
  /\ Finish(p)

\* p has unlinked the file it renames, and has not written the new one.
Halfway(p) == pc[p] = "write" /\ draft[p].old # draft[p].name

\* _write_obsidian_memory raises: the changed dictionary stays in the cache.
FailWrite(p) ==
  /\ pc[p] \in {"unlink", "write"} /\ stat[p] = Absent
  /\ failures < MaxFailures
  /\ failures' = failures + 1
  /\ cut' = (cut \/ Halfway(p))
  /\ Leave(p)
  /\ UNCHANGED <<disk, clock, reading, saving, used, done, merged, stale, rogue>>

\* A process starts in p's place, with nothing in its cache.
Afresh(p) ==
  /\ cache' = [cache EXCEPT ![p] = Absent]
  /\ stat' = [stat EXCEPT ![p] = Absent]
  /\ due' = [due EXCEPT ![p] = TRUE]
  /\ dirty' = [dirty EXCEPT ![p] = FALSE]
  /\ cold' = [cold EXCEPT ![p] = TRUE]

\* The process is killed in an operation.  What it had unlinked is gone, as after a write that raises.
Crash(p) ==
  /\ pc[p] # "idle"
  /\ failures < MaxFailures
  /\ failures' = failures + 1
  /\ cut' = (cut \/ Halfway(p))
  /\ Leave(p)
  /\ Afresh(p)
  /\ UNCHANGED <<disk, clock, saving, used, done, merged, stale, rogue>>

\* The process ends, or is killed, between its operations.
Restart(p) ==
  /\ pc[p] = "idle"
  /\ failures < MaxFailures
  /\ failures' = failures + 1
  /\ Afresh(p)
  /\ UNCHANGED <<store, saving, pc, operation, used, done, merged, stale, rogue, cut>>

\* The CLI's purge: the file the cache names is unlinked, if it is there, and
\* the entry evicted.  No lock is taken.
Delete(p) ==
  /\ p \in Deleter
  /\ pc[p] = "idle" /\ stat[p] = Absent /\ ~due[p]
  /\ cache[p] # Absent
  /\ disk' = [disk EXCEPT ![cache[p].name] = Absent]
  /\ cache' = [cache EXCEPT ![p] = Absent]
  /\ dirty' = [dirty EXCEPT ![p] = FALSE]
  /\ rogue' = TRUE
  /\ UNCHANGED <<clock, lock, due, stat, cold, saving, pc, operation, used, done, merged, stale, cut, failures>>

Begins(p) == Save(p) \/ Merge(p) \/ Invalidate(p) \/ Stamp(p) \/ Delete(p)

Step(p) ==
  \/ Acquire(p) \/ FindNothing(p) \/ Find(p)
  \/ Unlink(p) \/ Write(p)
  \/ RefreshNothing(p) \/ RefreshStat(p) \/ RefreshParse(p)

Sweep(p) == Load(p) \/ SweepStat(p) \/ SweepParse(p)

Next ==
  \E p \in Process :
    \/ Begins(p) \/ Step(p) \/ Sweep(p) \/ Age(p)
    \/ FailWrite(p) \/ Crash(p) \/ Restart(p)

Spec == Init /\ [][Next]_vars

\* A process runs its operation to the end, and reads the vault again and again.
Fairness ==
  \A p \in Process : WF_vars(Step(p)) /\ WF_vars(Sweep(p)) /\ WF_vars(Age(p))

FairSpec == Spec /\ Fairness
--------------------------------------------------------------------------------
(***************************************************************************)
(* Properties                                                              *)
(***************************************************************************)

PcType == {"idle", "lock", "find", "unlink", "write", "restat", "reparse"}

\* The variables stay in their types; an operation has a mark as long as it runs.
TypeOK ==
  /\ disk \in [Name -> File \cup {Absent}]
  /\ clock \in Nat
  /\ lock \in Process \cup {NoProcess}
  /\ cache \in [Process -> Entry \cup {Absent}]
  /\ due \in [Process -> BOOLEAN]
  /\ stat \in [Process -> Stat \cup {Absent}]
  /\ pc \in [Process -> PcType]
  /\ kind \in [Process -> Kind]
  /\ mark \in [Process -> Mark \cup {0}]
  /\ \A p \in Process : pc[p] = "idle" <=> mark[p] = 0
  /\ seen \in [Process -> SUBSET Mark]
  /\ draft \in [Process -> Draft]
  /\ used \in 0..MaxOperations
  /\ done \in SUBSET Mark
  /\ merged \in SUBSET Mark
  /\ stale \in BOOLEAN
  /\ rogue \in BOOLEAN
  /\ cut \in BOOLEAN
  /\ cold \in [Process -> BOOLEAN]
  /\ saved \in Entry \cup {Absent}
  /\ dirty \in [Process -> BOOLEAN]
  /\ soiled \in BOOLEAN
  /\ failures \in Nat

\* A rename never leaves two files of one memory, whichever processes write it
\* from whatever they had cached: _write_obsidian_memory unlinks first.
OneFile == disk["titled"] = Absent \/ disk["clean"] = Absent

\* If the file is the one of the entry, by its name and time, the entry says what the file says.
Matches(e) ==
  LET f == disk[e.name] IN
  f # Absent /\ f.mtime = e.mtime => e.marks = f.marks /\ e.essence = f.essence

\* An entry whose modification time is the file's says what the file says, so
\* that a sweep may skip it: a stat comes before the parse it vouches for, and
\* what is saved for later processes is as honest as what it was copied from.
\* Only a change made in place and not yet written is excepted.
CacheHonest ==
  /\ \A p \in Process : cache[p] # Absent /\ ~dirty[p] => Matches(cache[p])
  /\ saved # Absent /\ ~soiled => Matches(saved)

\* What the write lock is for: as long as every find under it returned an
\* up-to-date entry and nothing changed the file without it, the tags, keys and
\* invalidations of every operation that returned are in the file, or in what
\* the process that is replacing the file is about to write.  A failure or a kill
\* takes none of them out of a file that is there; but one between the unlink and
\* the write of a rename takes the file, with everything in it, and nothing
\* brings it back.  Nothing else loses a memory in these conditions.
Replacing(p) == pc[p] = "write" /\ lock = p
Kept ==
  ~stale /\ ~rogue =>
    \/ Present /\ done \subseteq disk[LiveName].marks
    \/ ~Present /\ (done = {} \/ cut)
    \/ \E p \in Process : Replacing(p) /\ done \subseteq draft[p].marks

\* Every operation ends, whoever was killed or raised with the lock in hand, and
\* then every cache comes to hold what the vault holds, except for a change whose
\* write failed.
Synced(p) ==
  \/ dirty[p]
  \/ ~Present /\ cache[p] = Absent
  \/ Present /\ cache[p] # Absent /\ UpToDate(p)

CachesConverge == <>[](\A p \in Process : pc[p] = "idle" /\ Synced(p))

\* _acquire_vault_write_lock (1228-1237): without the lock the last writer
\* clobbers the other's merge; so with it, what is merged in stays.
EssenceKept == ~rogue /\ Present => merged \subseteq disk[LiveName].essence
================================================================================
