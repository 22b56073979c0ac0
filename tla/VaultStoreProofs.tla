---------------------------- MODULE VaultStoreProofs ----------------------------
(***************************************************************************)
(* The safety of the vault store for any number of processes and           *)
(* operations, any assignment of roles and any number of failures.         *)
(***************************************************************************)
EXTENDS VaultStore, TLAPS

USE ProcessAssumption, RolesAssumption, ThrottleAssumption, BoundsAssumption,
    AbsentAssumption

(***************************************************************************)
(* Type correctness                                                        *)
(***************************************************************************)

\* As soon as there is a file, there is a live one.
LEMMA LiveFile ==
  ASSUME TypeOK, Present
  PROVE  LiveName \in Name /\ disk[LiveName] # Absent /\ disk[LiveName] \in File
BY DEF TypeOK, Present, LiveName

\* What a parse makes of an existing file is a cache entry.
LEMMA ParsedType ==
  ASSUME TypeOK, NEW s \in Stat, disk[s.name] # Absent
  PROVE  Parsed(s) \in Entry
<1>1. s.name \in Name /\ s.mtime \in Nat
  BY DEF Stat
<1>2. disk[s.name] \in File
  BY <1>1 DEF TypeOK
<1> QED BY <1>1, <1>2 DEF Parsed, File, Entry

\* A reread leaves the cache and the stats well typed.
LEMMA RereadType ==
  ASSUME TypeOK, NEW p \in Process, stat[p] # Absent, Reread(p)
  PROVE  /\ cache' \in [Process -> Entry \cup {Absent}]
         /\ stat' \in [Process -> Stat \cup {Absent}]
         /\ dirty' \in [Process -> BOOLEAN]
<1>1. stat[p] \in Stat
  BY DEF TypeOK
<1>2. CASE disk[stat[p].name] # Absent
  <2>1. Parsed(stat[p]) \in Entry
    BY <1>1, <1>2, ParsedType
  <2>2. /\ cache' = [cache EXCEPT ![p] = Parsed(stat[p])]
        /\ stat' = [stat EXCEPT ![p] = Absent]
        /\ dirty' = [dirty EXCEPT ![p] = FALSE]
    BY <1>2 DEF Reread
  <2> QED BY <2>1, <2>2 DEF TypeOK
<1>3. CASE disk[stat[p].name] = Absent
  BY <1>3 DEF TypeOK, Reread
<1> QED BY <1>2, <1>3

\* What a flush saves is well typed if the cache is.
LEMMA FlushType ==
  ASSUME TypeOK, NEW p \in Process, Flush(p),
         cache' \in [Process -> Entry \cup {Absent}], dirty' \in [Process -> BOOLEAN]
  PROVE  saved' \in Entry \cup {Absent} /\ soiled' \in BOOLEAN
BY DEF TypeOK, Flush, saving

\* An operation that ends leaves its locals well typed.
LEMMA ForgetType ==
  ASSUME TypeOK, NEW p \in Process, Forget(p)
  PROVE  /\ pc' \in [Process -> PcType]
         /\ kind' \in [Process -> Kind]
         /\ mark' \in [Process -> Mark \cup {0}]
         /\ \A q \in Process : pc'[q] = "idle" <=> mark'[q] = 0
         /\ seen' \in [Process -> SUBSET Mark]
         /\ draft' \in [Process -> Draft]
BY DEF TypeOK, Forget, Goto, PcType, Kind, NoDraft, Draft, Name

\* So does one that begins.
LEMMA BeginType ==
  ASSUME TypeOK, NEW p \in Process, NEW k \in Kind, NEW step \in PcType \ {"idle"}, Begin(p, k, step)
  PROVE  /\ pc' \in [Process -> PcType]
         /\ kind' \in [Process -> Kind]
         /\ mark' \in [Process -> Mark \cup {0}]
         /\ \A q \in Process : pc'[q] = "idle" <=> mark'[q] = 0
         /\ used' \in 0..MaxOperations
BY DEF TypeOK, Begin, Goto, Mark

\* Every variable keeps its type, whatever the processes do.
THEOREM TypeCorrect == Spec => []TypeOK
<1>1. Init => TypeOK
  <2> SUFFICES ASSUME Init PROVE TypeOK
    OBVIOUS
  <2>1. NoDraft \in Draft
    BY DEF NoDraft, Draft, Name
  <2>2. /\ draft \in [Process -> Draft]
        /\ seen \in [Process -> SUBSET Mark]
    BY <2>1 DEF Init
  <2>3. /\ pc \in [Process -> PcType]
        /\ kind \in [Process -> Kind]
        /\ mark \in [Process -> Mark \cup {0}]
        /\ \A p \in Process : pc[p] = "idle" <=> mark[p] = 0
    BY DEF Init, PcType, Kind
  <2>4. /\ due \in [Process -> BOOLEAN]
        /\ dirty \in [Process -> BOOLEAN]
        /\ cold \in [Process -> BOOLEAN]
        /\ stale \in BOOLEAN /\ rogue \in BOOLEAN /\ cut \in BOOLEAN /\ soiled \in BOOLEAN
    BY DEF Init
  <2>5. /\ disk \in [Name -> File \cup {Absent}]
        /\ cache \in [Process -> Entry \cup {Absent}]
        /\ stat \in [Process -> Stat \cup {Absent}]
        /\ saved \in Entry \cup {Absent}
    BY DEF Init
  <2>6. /\ clock \in Nat /\ failures \in Nat
        /\ used \in 0..MaxOperations
        /\ lock \in Process \cup {NoProcess}
        /\ done \in SUBSET Mark /\ merged \in SUBSET Mark
    BY DEF Init
  <2> QED BY <2>2, <2>3, <2>4, <2>5, <2>6 DEF TypeOK
<1>2. TypeOK /\ [Next]_vars => TypeOK'
  <2> SUFFICES ASSUME TypeOK, [Next]_vars PROVE TypeOK'
    OBVIOUS
  <2> USE DEF store, reading, saving, operation, history
  <2>1. ASSUME NEW p \in Process, Save(p) PROVE TypeOK'
    <3>1. "save" \in Kind /\ "write" \in PcType \ {"idle"}
      BY DEF Kind, PcType
    <3>2. 1 \in Mark
      BY <2>1 DEF Save, Begin, Mark, TypeOK
    <3>3. \A n \in Name : [marks |-> {1}, essence |-> {1}, old |-> n, name |-> n] \in Draft
      BY <3>2 DEF Draft
    <3>4. draft' \in [Process -> Draft]
      BY <2>1, <3>3 DEF Save, TypeOK
    <3> QED BY <2>1, <3>1, <3>4, BeginType DEF Save, TypeOK
  <2>2. ASSUME NEW p \in Process, Merge(p) PROVE TypeOK'
    <3>1. "merge" \in Kind /\ "lock" \in PcType \ {"idle"}
      BY DEF Kind, PcType
    <3>2. cache[p].essence \in SUBSET Mark
      BY <2>2 DEF Merge, TypeOK, Entry
    <3> QED BY <2>2, <3>1, <3>2, BeginType DEF Merge, TypeOK
  <2>3. ASSUME NEW p \in Process, Invalidate(p) PROVE TypeOK'
    <3>1. "invalidate" \in Kind /\ "lock" \in PcType \ {"idle"}
      BY DEF Kind, PcType
    <3> QED BY <2>3, <3>1, BeginType DEF Invalidate, TypeOK
  <2>4. ASSUME NEW p \in Process, Stamp(p) PROVE TypeOK'
    <3>1. "stamp" \in Kind /\ "find" \in PcType \ {"idle"}
      BY DEF Kind, PcType
    <3> QED BY <2>4, <3>1, BeginType DEF Stamp, TypeOK
  <2>5. ASSUME NEW p \in Process, Delete(p) PROVE TypeOK'
    <3>1. cache[p].name \in Name
      BY <2>5 DEF Delete, TypeOK, Entry
    <3> QED BY <2>5, <3>1 DEF Delete, TypeOK
  <2>6. ASSUME NEW p \in Process, Acquire(p) PROVE TypeOK'
    BY <2>6 DEF Acquire, Goto, PcType, TypeOK
  <2>7. ASSUME NEW p \in Process, FindNothing(p) PROVE TypeOK'
    BY <2>7, ForgetType DEF FindNothing, Leave, TypeOK
  <2>8. ASSUME NEW p \in Process, Find(p) PROVE TypeOK'
    <3>1. cache[p] \in Entry
      BY <2>8 DEF Find, TypeOK
    <3>2. mark[p] \in Mark
      BY <2>8 DEF Find, TypeOK
    <3>3. /\ Changed(p).marks \in SUBSET Mark
          /\ Changed(p).essence \in SUBSET Mark
      BY <3>1, <3>2 DEF Changed, TypeOK, Entry
    <3>4. draft' \in [Process -> Draft]
      BY <2>8, <3>1, <3>3 DEF Find, TypeOK, Entry, Draft, Name
    <3>5. cache' \in [Process -> Entry \cup {Absent}]
      BY <2>8, <3>1, <3>3 DEF Find, TypeOK, Entry
    <3> QED BY <2>8, <3>4, <3>5 DEF Find, TypeOK, Goto, PcType
  <2>9. ASSUME NEW p \in Process, Unlink(p) PROVE TypeOK'
    BY <2>9 DEF Unlink, TypeOK, Goto, PcType
  <2>10. ASSUME NEW p \in Process, Write(p) PROVE TypeOK'
    <3>1. draft[p] \in Draft /\ mark[p] \in Mark
      BY <2>10 DEF Write, TypeOK
    <3>2. [marks |-> draft[p].marks, essence |-> draft[p].essence, mtime |-> clock + 1] \in File
      BY <3>1 DEF Draft, File, TypeOK
    <3>3. disk' \in [Name -> File \cup {Absent}] /\ clock' \in Nat
      <4> DEFINE f == [marks |-> draft[p].marks, essence |-> draft[p].essence, mtime |-> clock + 1]
      <4>1. disk' = [disk EXCEPT ![draft[p].name] = f] /\ clock' = clock + 1
        BY <2>10 DEF Write
      <4>2. f \in File
        BY <3>2
      <4> HIDE DEF f
      <4>3. disk \in [Name -> File \cup {Absent}] /\ clock \in Nat
        BY DEF TypeOK
      <4>4. clock' \in Nat
        BY <4>1, <4>3
      <4> QED BY <4>1, <4>2, <4>3, <4>4
    <3>4. CASE kind[p] = "stamp"
      BY <2>10, <3>1, <3>3, <3>4, ForgetType DEF Write, TypeOK
    <3>5. CASE kind[p] # "stamp"
      <4>1. /\ pc' = [pc EXCEPT ![p] = "restat"]
            /\ UNCHANGED <<lock, cache, due, stat, kind, mark, seen, draft, used,
                           done, merged, stale, rogue, cut, cold, saved, dirty, soiled, failures>>
        BY <2>10, <3>5 DEF Write, Goto
      <4>2. /\ pc' \in [Process -> PcType]
            /\ \A q \in Process : pc'[q] = "idle" <=> mark'[q] = 0
        BY <2>10, <4>1 DEF Write, TypeOK, PcType
      <4> QED BY <3>3, <4>1, <4>2 DEF TypeOK
    <3> QED BY <3>4, <3>5
  <2>11. ASSUME NEW p \in Process, RefreshNothing(p) PROVE TypeOK'
    <3>1. mark[p] \in Mark
      BY <2>11 DEF RefreshNothing, TypeOK
    <3> QED BY <2>11, <3>1, ForgetType DEF RefreshNothing, Finish, Leave, TypeOK
  <2>12. ASSUME NEW p \in Process, RefreshStat(p) PROVE TypeOK'
    <3>1. KnownName(p) \in Name /\ disk[KnownName(p)] \in File
      BY <2>12, LiveFile DEF RefreshStat, Known, KnownName, TypeOK, Entry
    <3>2. [name |-> KnownName(p), mtime |-> disk[KnownName(p)].mtime] \in Stat
      BY <3>1 DEF File, Stat
    <3> QED BY <2>12, <3>2 DEF RefreshStat, TypeOK, Goto, PcType
  <2>13. ASSUME NEW p \in Process, RefreshParse(p) PROVE TypeOK'
    <3>1. mark[p] \in Mark
      BY <2>13 DEF RefreshParse, TypeOK
    <3> QED BY <2>13, <3>1, RereadType, ForgetType DEF RefreshParse, Finish, Leave, TypeOK
  <2>14. ASSUME NEW p \in Process, SweepStat(p) PROVE TypeOK'
    <3>1. Present => [name |-> LiveName, mtime |-> disk[LiveName].mtime] \in Stat
      BY LiveFile DEF File, Stat
    <3>2. stat' \in [Process -> Stat \cup {Absent}]
      BY <2>14, <3>1 DEF SweepStat, TypeOK
    <3>3. /\ cache' \in [Process -> Entry \cup {Absent}]
          /\ dirty' \in [Process -> BOOLEAN]
      <4>1. \/ UNCHANGED <<cache, dirty>>
            \/ /\ cache' = [cache EXCEPT ![p] = Absent]
               /\ dirty' = [dirty EXCEPT ![p] = FALSE]
        BY <2>14 DEF SweepStat
      <4> QED BY <4>1 DEF TypeOK
    <3>4. Flush(p) \/ UNCHANGED saving
      BY <2>14 DEF SweepStat
    <3>5. saved' \in Entry \cup {Absent} /\ soiled' \in BOOLEAN
      BY <3>3, <3>4, FlushType DEF TypeOK
    <3>6. due' \in [Process -> BOOLEAN] /\ cold' \in [Process -> BOOLEAN]
      BY <2>14 DEF SweepStat, TypeOK
    <3>7. UNCHANGED <<disk, clock, lock, pc, kind, mark, seen, draft, used,
                      done, merged, stale, rogue, cut, failures>>
      BY <2>14 DEF SweepStat
    <3> QED BY <3>2, <3>3, <3>5, <3>6, <3>7 DEF TypeOK
  <2>15. ASSUME NEW p \in Process, SweepParse(p) PROVE TypeOK'
    <3>1. saved' \in Entry \cup {Absent} /\ soiled' \in BOOLEAN
      BY <2>15, RereadType, FlushType DEF SweepParse
    <3> QED BY <2>15, <3>1, RereadType DEF SweepParse, TypeOK
  <2>16. ASSUME NEW p \in Process, Age(p) PROVE TypeOK'
    BY <2>16 DEF Age, TypeOK
  <2>17. ASSUME NEW p \in Process, FailWrite(p) PROVE TypeOK'
    BY <2>17, ForgetType DEF FailWrite, Leave, Present, TypeOK
  <2>18. ASSUME NEW p \in Process, Crash(p) PROVE TypeOK'
    BY <2>18, ForgetType DEF Crash, Afresh, Leave, Present, TypeOK
  <2>19. ASSUME NEW p \in Process, Restart(p) PROVE TypeOK'
    BY <2>19 DEF Restart, Afresh, TypeOK
  <2>20. ASSUME NEW p \in Process, Load(p) PROVE TypeOK'
    <3>1. /\ cold' \in [Process -> BOOLEAN]
          /\ cache' \in [Process -> Entry \cup {Absent}]
          /\ dirty' \in [Process -> BOOLEAN]
          /\ saved' \in Entry \cup {Absent}
      BY <2>20 DEF Load, TypeOK
    <3>2. soiled' = soiled \/ soiled' = FALSE
      BY <2>20 DEF Load
    <3>3. UNCHANGED <<disk, clock, lock, due, stat, pc, kind, mark, seen, draft, used,
                      done, merged, stale, rogue, cut, failures>>
      BY <2>20 DEF Load
    <3> QED BY <3>1, <3>2, <3>3 DEF TypeOK
  <2>21. CASE UNCHANGED vars
    BY <2>21 DEF vars, TypeOK
  <2> QED
    BY <2>1, <2>2, <2>3, <2>4, <2>5, <2>6, <2>7, <2>8, <2>9, <2>10, <2>11, <2>12, <2>13, <2>14,
       <2>15, <2>16, <2>17, <2>18, <2>19, <2>20, <2>21 DEF Next, Begins, Step, Sweep
<1> QED BY <1>1, <1>2, PTL DEF Spec
--------------------------------------------------------------------------------
(***************************************************************************)
(* The cache                                                               *)
(***************************************************************************)

\* No modification time anyone remembers is later than the last one given out,
\* so that a write makes every cache entry and every stat of the file outdated.
Bounded ==
  /\ \A n \in Name : disk[n] # Absent => disk[n].mtime <= clock
  /\ \A p \in Process : cache[p] # Absent => cache[p].mtime <= clock
  /\ \A p \in Process : stat[p] # Absent => stat[p].mtime <= clock
  /\ saved # Absent => saved.mtime <= clock

HonestInv == TypeOK /\ Bounded /\ CacheHonest

\* The part of it that is about the files, the caches and the stats.
CachesHonest ==
  /\ \A n \in Name : disk[n] # Absent => disk[n].mtime <= clock
  /\ \A p \in Process : stat[p] # Absent => stat[p].mtime <= clock
  /\ \A p \in Process : cache[p] # Absent => cache[p].mtime <= clock
  /\ \A p \in Process : cache[p] # Absent /\ ~dirty[p] => Matches(cache[p])

\* What a flush saves is as honest as the caches.
LEMMA FlushHonest ==
  ASSUME HonestInv, NEW p \in Process, Flush(p) \/ UNCHANGED saving,
         UNCHANGED <<disk, clock>>, CachesHonest'
  PROVE  Bounded' /\ CacheHonest'
<1>1. CASE UNCHANGED saving
  BY <1>1 DEF HonestInv, Bounded, CacheHonest, CachesHonest, Matches, saving
<1>2. CASE saved' = cache'[p] /\ soiled' = dirty'[p]
  BY <1>2 DEF Bounded, CacheHonest, CachesHonest, Matches
<1> QED BY <1>1, <1>2 DEF Flush

\* What is parsed after a stat is never later than the clock, and says what the
\* file says if the file still is the one of the stat.
LEMMA RereadHonest ==
  ASSUME HonestInv, NEW p \in Process, stat[p] # Absent, Reread(p), UNCHANGED <<disk, clock>>
  PROVE  CachesHonest'
<1>1. stat[p] \in Stat /\ stat[p].mtime <= clock
  BY DEF HonestInv, TypeOK, Bounded
<1>2. CASE disk[stat[p].name] # Absent
  <2>1. /\ cache' = [cache EXCEPT ![p] = Parsed(stat[p])]
        /\ stat' = [stat EXCEPT ![p] = Absent]
        /\ dirty' = [dirty EXCEPT ![p] = FALSE]
    BY <1>2 DEF Reread
  <2>2. /\ Parsed(stat[p]).mtime = stat[p].mtime
        /\ Parsed(stat[p]).name = stat[p].name
        /\ Parsed(stat[p]).marks = disk[stat[p].name].marks
        /\ Parsed(stat[p]).essence = disk[stat[p].name].essence
    BY DEF Parsed
  <2>3. cache'[p] = Parsed(stat[p]) /\ \A q \in Process \ {p} : cache'[q] = cache[q]
    BY <2>1 DEF HonestInv, TypeOK
  <2>4. stat'[p] = Absent /\ \A q \in Process \ {p} : stat'[q] = stat[q]
    BY <2>1 DEF HonestInv, TypeOK
  <2>5. \A q \in Process \ {p} : dirty'[q] = dirty[q]
    BY <2>1 DEF HonestInv, TypeOK
  <2>6. \A q \in Process : cache'[q] # Absent => cache'[q].mtime <= clock
    BY <1>1, <2>2, <2>3 DEF HonestInv, Bounded
  <2>7. \A q \in Process : stat'[q] # Absent => stat'[q].mtime <= clock
    BY <2>4 DEF HonestInv, Bounded
  <2>8. \A q \in Process : cache'[q] # Absent /\ ~dirty'[q] => Matches(cache[q])'
    BY <2>2, <2>3, <2>5 DEF HonestInv, CacheHonest, Matches
  <2> QED BY <2>6, <2>7, <2>8 DEF HonestInv, Bounded, CachesHonest
<1>3. CASE disk[stat[p].name] = Absent
  BY <1>3 DEF HonestInv, TypeOK, Bounded, CacheHonest, CachesHonest, Matches, Reread
<1> QED BY <1>2, <1>3

\* A cache entry with the file's modification time has the file's content.
THEOREM HonestCaches == Spec => []CacheHonest
<1>1. Init => Bounded /\ CacheHonest
  BY DEF Init, Bounded, CacheHonest
<1>2. HonestInv /\ [Next]_vars => (Bounded /\ CacheHonest)'
  <2> SUFFICES ASSUME HonestInv, [Next]_vars PROVE Bounded' /\ CacheHonest'
    OBVIOUS
  <2> USE DEF store, reading, saving, operation, history
  <2>1. CASE UNCHANGED <<disk, clock, cache, stat, dirty, saved, soiled>>
    BY <2>1 DEF HonestInv, Bounded, CacheHonest, Matches
  <2>2. ASSUME NEW p \in Process, Delete(p) PROVE Bounded' /\ CacheHonest'
    <3>1. /\ \A n \in Name : disk'[n] = disk[n] \/ disk'[n] = Absent
          /\ \A q \in Process : cache'[q] = Absent \/ (cache'[q] = cache[q] /\ dirty'[q] = dirty[q])
          /\ UNCHANGED <<clock, stat, saved, soiled>>
      BY <2>2 DEF HonestInv, TypeOK, Delete
    <3>2. /\ \A q \in Process : cache[q] # Absent => cache[q].name \in Name
          /\ saved # Absent => saved.name \in Name
      BY DEF HonestInv, TypeOK, Entry
    <3> QED BY <3>1, <3>2 DEF HonestInv, Bounded, CacheHonest, Matches
  <2>3. ASSUME NEW p \in Process, Find(p) PROVE Bounded' /\ CacheHonest'
    <3>1. /\ \A q \in Process \ {p} : cache'[q] = cache[q] /\ dirty'[q] = dirty[q]
          /\ dirty'[p] /\ cache'[p].mtime = cache[p].mtime /\ cache[p] # Absent
          /\ UNCHANGED <<disk, clock, stat, saved, soiled>>
      BY <2>3 DEF HonestInv, TypeOK, Entry, Find
    <3> QED BY <3>1 DEF HonestInv, Bounded, CacheHonest, Matches
  <2>4. ASSUME NEW p \in Process, Unlink(p) PROVE Bounded' /\ CacheHonest'
    <3>1. /\ \A n \in Name : disk'[n] = disk[n] \/ disk'[n] = Absent
          /\ UNCHANGED <<clock, cache, stat, dirty, saved, soiled>>
      BY <2>4 DEF HonestInv, TypeOK, Unlink
    <3>2. /\ \A q \in Process : cache[q] # Absent => cache[q].name \in Name
          /\ saved # Absent => saved.name \in Name
      BY DEF HonestInv, TypeOK, Entry
    <3> QED BY <3>1, <3>2 DEF HonestInv, Bounded, CacheHonest, Matches
  <2>5. ASSUME NEW p \in Process, Write(p) PROVE Bounded' /\ CacheHonest'
    <3>1. \A n \in Name : disk'[n] = disk[n] \/ disk'[n].mtime = clock + 1
      BY <2>5 DEF HonestInv, TypeOK, Write
    <3>2. clock' = clock + 1 /\ UNCHANGED <<cache, stat, dirty, saved, soiled>>
      BY <2>5 DEF Write
    <3>3. clock \in Nat
      BY DEF HonestInv, TypeOK
    <3>4. \A n \in Name : disk[n] # Absent => disk[n].mtime \in Nat
      BY DEF HonestInv, TypeOK, File
    <3>5. /\ \A q \in Process : cache[q] # Absent => cache[q].name \in Name /\ cache[q].mtime \in Nat
          /\ saved # Absent => saved.name \in Name /\ saved.mtime \in Nat
      BY DEF HonestInv, TypeOK, Entry
    <3>6. \A q \in Process : stat[q] # Absent => stat[q].mtime \in Nat
      BY DEF HonestInv, TypeOK, Stat
    <3>7. Bounded'
      BY <3>1, <3>2, <3>3, <3>4, <3>5, <3>6 DEF HonestInv, Bounded
    <3>8. CacheHonest'
      BY <3>1, <3>2, <3>3, <3>4, <3>5 DEF HonestInv, Bounded, CacheHonest, Matches
    <3> QED BY <3>7, <3>8
  <2>6. ASSUME NEW p \in Process, RefreshStat(p) PROVE Bounded' /\ CacheHonest'
    <3>1. KnownName(p) \in Name /\ disk[KnownName(p)] # Absent
      BY <2>6, LiveFile DEF HonestInv, RefreshStat, Known, KnownName, TypeOK, Entry
    <3>2. /\ \A q \in Process \ {p} : stat'[q] = stat[q]
          /\ stat'[p].mtime = disk[KnownName(p)].mtime
          /\ UNCHANGED <<disk, clock, cache, dirty, saved, soiled>>
      BY <2>6 DEF HonestInv, TypeOK, RefreshStat
    <3> QED BY <3>1, <3>2 DEF HonestInv, Bounded, CacheHonest, Matches
  <2>7. ASSUME NEW p \in Process, RefreshParse(p) PROVE Bounded' /\ CacheHonest'
    <3>1. /\ stat[p] # Absent /\ Reread(p)
          /\ UNCHANGED <<disk, clock, saved, soiled>>
      BY <2>7 DEF RefreshParse, Finish
    <3> QED BY <3>1, RereadHonest, FlushHonest
  <2>8. ASSUME NEW p \in Process, SweepStat(p) PROVE Bounded' /\ CacheHonest'
    <3>1. \A q \in Process :
            stat'[q] = stat[q] \/ (Present /\ stat'[q].mtime = disk[LiveName].mtime)
      BY <2>8 DEF HonestInv, TypeOK, SweepStat
    <3>2. Present => LiveName \in Name /\ disk[LiveName] # Absent
      BY LiveFile DEF HonestInv
    <3>3. \A q \in Process : cache'[q] = Absent \/ (cache'[q] = cache[q] /\ dirty'[q] = dirty[q])
      BY <2>8 DEF HonestInv, TypeOK, SweepStat
    <3>4. UNCHANGED <<disk, clock>>
      BY <2>8 DEF SweepStat
    <3>5. CachesHonest'
      BY <3>1, <3>2, <3>3, <3>4 DEF HonestInv, Bounded, CacheHonest, CachesHonest, Matches
    <3>6. Flush(p) \/ UNCHANGED saving
      BY <2>8 DEF SweepStat
    <3> QED BY <3>4, <3>5, <3>6, FlushHonest
  <2>9. ASSUME NEW p \in Process, SweepParse(p) PROVE Bounded' /\ CacheHonest'
    <3>1. /\ stat[p] # Absent /\ Reread(p) /\ Flush(p)
          /\ UNCHANGED <<disk, clock>>
      BY <2>9 DEF SweepParse
    <3> QED BY <3>1, RereadHonest, FlushHonest
  <2>10. ASSUME NEW p \in Process, Crash(p) \/ Restart(p) PROVE Bounded' /\ CacheHonest'
    <3>1. /\ \A q \in Process : cache'[q] = Absent \/ (cache'[q] = cache[q] /\ dirty'[q] = dirty[q])
          /\ \A q \in Process : stat'[q] = Absent \/ stat'[q] = stat[q]
          /\ UNCHANGED <<disk, clock, saved, soiled>>
      BY <2>10 DEF HonestInv, TypeOK, Crash, Restart, Afresh
    <3> QED BY <3>1 DEF HonestInv, Bounded, CacheHonest, Matches
  <2>11. ASSUME NEW p \in Process,
                Save(p) \/ Merge(p) \/ Invalidate(p) \/ Stamp(p) \/ Acquire(p) \/ FindNothing(p)
                \/ RefreshNothing(p) \/ Age(p) \/ FailWrite(p)
         PROVE  UNCHANGED <<disk, clock, cache, stat, dirty, saved, soiled>>
    BY <2>11 DEF Save, Merge, Invalidate, Stamp, Acquire, FindNothing, RefreshNothing, Finish,
                 Age, FailWrite
  <2>12. ASSUME NEW p \in Process, Load(p) PROVE Bounded' /\ CacheHonest'
    <3>1. /\ \A q \in Process :
               \/ cache'[q] = cache[q] /\ dirty'[q] = dirty[q]
               \/ cache'[q] = saved /\ dirty'[q] = soiled
          /\ saved' = Absent \/ UNCHANGED saving
          /\ UNCHANGED <<disk, clock, stat>>
      BY <2>12 DEF HonestInv, TypeOK, Load
    <3> QED BY <3>1 DEF HonestInv, Bounded, CacheHonest, Matches
  <2>13. CASE UNCHANGED vars
    BY <2>1, <2>13 DEF vars
  <2> QED
    BY <2>1, <2>2, <2>3, <2>4, <2>5, <2>6, <2>7, <2>8, <2>9, <2>10, <2>11, <2>12, <2>13
    DEF Next, Begins, Step, Sweep
<1>3. TypeOK /\ Bounded /\ CacheHonest <=> HonestInv
  BY DEF HonestInv
<1> QED BY <1>1, <1>2, <1>3, TypeCorrect, PTL DEF Spec

--------------------------------------------------------------------------------
(***************************************************************************)
(* The file's names                                                        *)
(***************************************************************************)

\* Until the first write there is nothing to read and nothing to do but save.
Newborn ==
  clock = 0 =>
    /\ ~Present /\ done = {} /\ saved = Absent
    /\ \A p \in Process :
         /\ cache[p] = Absent /\ stat[p] = Absent
         /\ pc[p] \in {"idle", "write"}
         /\ pc[p] = "write" => kind[p] = "save"

\* The one save writes before anybody else does.
OneSave ==
  /\ used = 0 => clock = 0 /\ \A p \in Process : pc[p] = "idle"
  /\ \A p, q \in Process : kind[p] = "save" /\ kind[q] = "save" => p = q
  /\ \A p \in Process : kind[p] = "save" => pc[p] \in {"write", "restat", "reparse"}
  /\ \A p \in Process : kind[p] = "save" /\ pc[p] = "write" => clock = 0

\* The titled name, once it has been seen to be gone, is gone for ever.
TitledGone == disk["titled"] = Absent
Renamed ==
  /\ \A p \in Process : cache[p] # Absent /\ cache[p].name = "clean" => TitledGone
  /\ \A p \in Process : stat[p] # Absent /\ stat[p].name = "clean" => TitledGone
  /\ saved # Absent /\ saved.name = "clean" => TitledGone
  /\ \A p \in Process :
       pc[p] \in {"unlink", "write"} /\ kind[p] # "save" =>
         /\ draft[p].name = "clean"
         /\ draft[p].old = "clean" => TitledGone
         /\ pc[p] = "write" => TitledGone

NameInv == TypeOK /\ Newborn /\ OneSave /\ Renamed /\ OneFile

\* The strengthening is invariant.
LEMMA NamesInvariant == Spec => []NameInv
<1> DEFINE Inv == Newborn /\ OneSave /\ Renamed /\ OneFile
<1>1. Init => Inv
  BY DEF Init, Newborn, OneSave, Renamed, OneFile, Present, Name
<1>2. NameInv /\ TypeOK' /\ [Next]_vars => Inv'
  <2> SUFFICES ASSUME NameInv, TypeOK', [Next]_vars PROVE Inv'
    OBVIOUS
  <2> USE DEF store, reading, saving, operation, history, NameInv
  <2>1. ASSUME NEW p \in Process, Save(p) PROVE Inv'
    <3>1. UNCHANGED <<disk, clock, cache, stat, saved, done>>
      BY <2>1 DEF Save
    <3>2. clock = 0 /\ used' = 1 /\ \A q \in Process : pc[q] = "idle" /\ kind[q] # "save"
      BY <2>1 DEF Save, Begin, OneSave
    <3>3. /\ pc' = [pc EXCEPT ![p] = "write"]
          /\ kind' = [kind EXCEPT ![p] = "save"]
      BY <2>1 DEF Save, Begin, Goto
    <3>4. Newborn' /\ OneSave'
      BY <3>1, <3>2, <3>3 DEF TypeOK, Newborn, OneSave, Present
    <3>5. Renamed' /\ OneFile'
      BY <3>1, <3>2, <3>3 DEF TypeOK, Newborn, Renamed, OneFile, TitledGone
    <3> QED BY <3>4, <3>5
  <2>2. ASSUME NEW p \in Process, Merge(p) \/ Invalidate(p) \/ Stamp(p) PROVE Inv'
    <3>1. /\ UNCHANGED <<disk, clock, cache, stat, saved, draft>>
          /\ clock # 0 /\ used' = used + 1
          /\ pc[p] = "idle"
          /\ \E k \in {"merge", "invalidate", "stamp"} : kind' = [kind EXCEPT ![p] = k]
          /\ \E s \in {"lock", "find"} : pc' = [pc EXCEPT ![p] = s]
      BY <2>2 DEF Merge, Invalidate, Stamp, Begin, Goto, Newborn
    <3>2. Newborn' /\ OneSave'
      BY <3>1 DEF TypeOK, Newborn, OneSave
    <3>3. Renamed' /\ OneFile'
      BY <3>1 DEF TypeOK, Renamed, OneFile, TitledGone
    <3> QED BY <3>2, <3>3
  <2>3. ASSUME NEW p \in Process, Delete(p) PROVE Inv'
    <3>1. /\ \A n \in Name : disk'[n] = Absent \/ disk'[n] = disk[n]
          /\ \A q \in Process : cache'[q] = Absent \/ cache'[q] = cache[q]
          /\ UNCHANGED <<clock, stat, saved, pc, kind, draft, used>>
          /\ clock # 0
      BY <2>3 DEF Delete, TypeOK, Newborn
    <3> QED BY <3>1 DEF Newborn, OneSave, Renamed, OneFile, TitledGone, Name
  <2>4. ASSUME NEW p \in Process, Acquire(p) PROVE Inv'
    <3>1. /\ UNCHANGED <<disk, clock, cache, stat, saved, kind, draft, used, done>>
          /\ pc[p] = "lock" /\ pc' = [pc EXCEPT ![p] = "find"]
      BY <2>4 DEF Acquire, Goto
    <3> QED BY <3>1 DEF TypeOK, Newborn, OneSave, Renamed, OneFile, TitledGone, Present
  <2>5. ASSUME NEW p \in Process, Find(p) PROVE Inv'
    <3>1. /\ UNCHANGED <<disk, clock, stat, saved, kind, used, done>>
          /\ cache[p] # Absent /\ pc[p] = "find" /\ pc' = [pc EXCEPT ![p] = "unlink"]
          /\ \A q \in Process \ {p} : cache'[q] = cache[q] /\ draft'[q] = draft[q]
          /\ cache'[p].name = cache[p].name
          /\ draft'[p].name = "clean" /\ draft'[p].old = cache[p].name
      BY <2>5 DEF Find, Goto, TypeOK, Entry
    <3>2. clock # 0
      BY <3>1 DEF Newborn
    <3>3. Newborn' /\ OneSave'
      BY <3>1, <3>2 DEF TypeOK, Newborn, OneSave
    <3>4. Renamed' /\ OneFile'
      BY <3>1 DEF TypeOK, Renamed, OneFile, TitledGone
    <3> QED BY <3>3, <3>4
  <2>6. ASSUME NEW p \in Process, Unlink(p) PROVE Inv'
    <3>1. /\ UNCHANGED <<clock, cache, stat, saved, kind, draft, used, done>>
          /\ pc[p] = "unlink" /\ pc' = [pc EXCEPT ![p] = "write"]
          /\ \A n \in Name : disk'[n] = disk[n] \/ disk'[n] = Absent
          /\ draft[p].old # draft[p].name => disk'[draft[p].old] = Absent
      BY <2>6 DEF Unlink, Goto, TypeOK, Draft
    <3>2. clock # 0 /\ kind[p] # "save"
      BY <3>1 DEF Newborn, OneSave
    <3>3. draft[p].old \in Name
      BY DEF TypeOK, Draft
    <3>4. TitledGone'
      BY <3>1, <3>2, <3>3 DEF Renamed, TitledGone, Name
    <3>5. Newborn' /\ OneSave'
      BY <3>1, <3>2 DEF TypeOK, Newborn, OneSave
    <3>6. Renamed' /\ OneFile'
      BY <3>1, <3>4 DEF TypeOK, Renamed, OneFile, TitledGone
    <3> QED BY <3>5, <3>6
  <2>7. ASSUME NEW p \in Process, Write(p) PROVE Inv'
    <3>1. /\ UNCHANGED <<cache, stat, saved, used>>
          /\ clock' = clock + 1 /\ clock \in Nat /\ pc[p] = "write"
          /\ \A n \in Name \ {draft[p].name} : disk'[n] = disk[n]
          /\ \/ pc'[p] = "idle" /\ kind'[p] = "none"
             \/ pc'[p] = "restat" /\ kind'[p] = kind[p]
          /\ \A q \in Process \ {p} : pc'[q] = pc[q] /\ kind'[q] = kind[q] /\ draft'[q] = draft[q]
      BY <2>7 DEF Write, Forget, Goto, TypeOK
    <3>2. clock' # 0
      BY <3>1
    <3>3. Newborn' /\ OneSave'
      BY <3>1, <3>2 DEF Newborn, OneSave
    <3>4. CASE kind[p] = "save"
      <4>1. clock = 0
        BY <3>1, <3>4 DEF OneSave
      <4>2. \A q \in Process \ {p} : pc[q] = "idle"
        BY <3>4, <4>1 DEF Newborn, OneSave
      <4>3. draft[p].name \in Name /\ \A n \in Name : disk[n] = Absent
        BY <4>1 DEF Newborn, Present, TypeOK, Draft
      <4>4. Renamed'
        BY <3>1, <4>1, <4>2 DEF Newborn, Renamed
      <4>5. OneFile'
        BY <3>1, <4>3 DEF OneFile, Name
      <4> QED BY <3>3, <4>4, <4>5
    <3>5. CASE kind[p] # "save"
      <4>1. draft[p].name = "clean" /\ TitledGone
        BY <3>1, <3>5 DEF Renamed
      <4>2. TitledGone'
        BY <3>1, <4>1 DEF TitledGone, Name
      <4>3. Renamed' /\ OneFile'
        BY <3>1, <4>2 DEF Renamed, OneFile, TitledGone
      <4> QED BY <3>3, <4>3
    <3> QED BY <3>4, <3>5
  <2>8. ASSUME NEW p \in Process, RefreshStat(p) PROVE Inv'
    <3>1. KnownName(p) \in Name /\ disk[KnownName(p)] # Absent
      BY <2>8, LiveFile DEF RefreshStat, Known, KnownName, TypeOK, Entry
    <3>2. /\ UNCHANGED <<disk, clock, cache, saved, kind, draft, used, done>>
          /\ pc[p] = "restat" /\ pc' = [pc EXCEPT ![p] = "reparse"]
          /\ \A q \in Process \ {p} : stat'[q] = stat[q]
          /\ stat'[p].name = KnownName(p)
      BY <2>8 DEF RefreshStat, Goto, TypeOK
    <3>3. clock # 0
      BY <3>2 DEF Newborn
    <3>4. Newborn' /\ OneSave'
      BY <3>2, <3>3 DEF TypeOK, Newborn, OneSave
    <3>5. Renamed' /\ OneFile'
      BY <3>1, <3>2 DEF TypeOK, Renamed, OneFile, TitledGone
    <3> QED BY <3>4, <3>5
  <2>9. ASSUME NEW p \in Process, SweepStat(p) PROVE Inv'
    <3>1. \A q \in Process :
            stat'[q] = stat[q] \/ (Present /\ stat'[q].name = LiveName)
      BY <2>9 DEF TypeOK, SweepStat
    <3>2. Present => LiveName \in Name /\ disk[LiveName] # Absent
      BY LiveFile
    <3>3. /\ \A q \in Process : cache'[q] = Absent \/ cache'[q] = cache[q]
          /\ UNCHANGED <<disk, clock, pc, kind, draft, used, done>>
          /\ saved' = saved \/ saved' = cache'[p]
      BY <2>9 DEF TypeOK, SweepStat, Flush
    <3>4. Newborn' /\ OneSave'
      BY <3>1, <3>3 DEF Newborn, OneSave, Present
    <3>5. Renamed' /\ OneFile'
      BY <3>1, <3>2, <3>3 DEF Renamed, OneFile, TitledGone
    <3> QED BY <3>4, <3>5
  <2>10. ASSUME NEW p \in Process, RefreshParse(p) \/ SweepParse(p) PROVE Inv'
    <3>1. /\ \A q \in Process : stat'[q] = Absent \/ stat'[q] = stat[q]
          /\ \A q \in Process :
               cache'[q] = cache[q] \/ (stat[q] # Absent /\ cache'[q].name = stat[q].name)
          /\ UNCHANGED <<disk, clock, used>>
          /\ saved' = saved \/ saved' = cache'[p]
          /\ clock # 0
      BY <2>10 DEF RefreshParse, SweepParse, Finish, Reread, Parsed, TypeOK, Newborn, Flush
    <3>2. \A q \in Process :
            \/ pc'[q] = pc[q] /\ kind'[q] = kind[q] /\ draft'[q] = draft[q]
            \/ pc'[q] = "idle" /\ kind'[q] = "none"
      BY <2>10 DEF RefreshParse, SweepParse, Finish, Leave, Forget, Goto, TypeOK
    <3> QED BY <3>1, <3>2 DEF Newborn, OneSave, Renamed, OneFile, TitledGone
  <2>11. ASSUME NEW p \in Process,
                RefreshNothing(p) \/ FindNothing(p) \/ FailWrite(p) \/ Crash(p) \/ Restart(p)
         PROVE  Inv'
    <3>1. /\ UNCHANGED <<disk, clock, saved, used>>
          /\ clock = 0 => UNCHANGED done
      BY <2>11 DEF RefreshNothing, FindNothing, FailWrite, Crash, Restart, Finish, Newborn
    <3>2. \A q \in Process :
            /\ stat'[q] = Absent \/ stat'[q] = stat[q]
            /\ cache'[q] = Absent \/ cache'[q] = cache[q]
      BY <2>11 DEF RefreshNothing, FindNothing, FailWrite, Crash, Restart, Afresh, Finish, TypeOK
    <3>3. \A q \in Process :
            \/ pc'[q] = pc[q] /\ kind'[q] = kind[q] /\ draft'[q] = draft[q]
            \/ pc'[q] = "idle" /\ kind'[q] = "none"
      BY <2>11 DEF RefreshNothing, FindNothing, FailWrite, Crash, Restart, Finish, Leave, Forget,
                   Goto, TypeOK
    <3> QED BY <3>1, <3>2, <3>3 DEF Newborn, OneSave, Renamed, OneFile, TitledGone, Present
  <2>12. ASSUME NEW p \in Process, Age(p) PROVE Inv'
    <3>1. UNCHANGED <<disk, clock, cache, stat, saved, pc, kind, draft, used, done>>
      BY <2>12 DEF Age
    <3> QED BY <3>1 DEF Newborn, OneSave, Renamed, OneFile, TitledGone, Present
  <2>13. ASSUME NEW p \in Process, Load(p) PROVE Inv'
    <3>1. /\ UNCHANGED <<disk, clock, stat, pc, kind, draft, used, done>>
          /\ saved' = saved \/ saved' = Absent
          /\ \A q \in Process : cache'[q] = cache[q] \/ cache'[q] = saved
      BY <2>13 DEF Load, TypeOK
    <3>2. Newborn' /\ OneSave'
      BY <3>1 DEF Newborn, OneSave, Present
    <3>3. Renamed' /\ OneFile'
      BY <3>1 DEF Renamed, OneFile, TitledGone
    <3> QED BY <3>2, <3>3
  <2>14. CASE UNCHANGED vars
    <3>1. UNCHANGED <<disk, clock, cache, stat, saved, pc, kind, draft, used, done>>
      BY <2>14 DEF vars
    <3> QED BY <3>1 DEF Newborn, OneSave, Renamed, OneFile, TitledGone, Present
  <2> QED
    BY <2>1, <2>2, <2>3, <2>4, <2>5, <2>6, <2>7, <2>8, <2>9, <2>10, <2>11, <2>12,
       <2>13, <2>14
    DEF Next, Begins, Step, Sweep
<1>3. TypeOK /\ Inv <=> NameInv
  BY DEF NameInv
<1> QED BY <1>1, <1>2, <1>3, TypeCorrect, PTL DEF Spec

\* A rename leaves one file.
THEOREM OneFileOnly == Spec => []OneFile
<1>1. NameInv => OneFile
  BY DEF NameInv
<1> QED BY <1>1, NamesInvariant, PTL

--------------------------------------------------------------------------------
(***************************************************************************)
(* The lock                                                                *)
(***************************************************************************)

\* An update and an invalidation hold the lock from the find to the end; the
\* dreamer's write without it is what "rogue" records.
LockHeld ==
  \A p \in Process :
    /\ kind[p] \in {"merge", "invalidate"} /\ pc[p] # "lock" => lock = p
    /\ kind[p] = "stamp" => rogue
    /\ kind[p] = "none" <=> pc[p] = "idle"

\* S holds the marks of the operations that have returned and of those that are
\* past their write.
Carried(S) ==
  /\ done \subseteq S
  /\ \A p \in Process : pc[p] \in {"restat", "reparse"} => mark[p] \in S

\* The file carries them, and what the holder of the lock is about to write does.  A file that is
\* not there is being renamed by the holder, or was when it failed.
Carrying ==
  /\ \A p \in Process : pc[p] \in {"unlink", "write"} => mark[p] \in draft[p].marks
  /\ ~stale /\ ~rogue =>
       /\ Present => Carried(disk[LiveName].marks)
       /\ \A p \in Process :
            pc[p] \in {"unlink", "write"} /\ lock = p => Carried(draft[p].marks)
       /\ ~Present /\ clock # 0 => cut \/ \E p \in Process : lock = p /\ Halfway(p)

KeptInv == NameInv /\ LockHeld /\ Carrying

\* A step that leaves the file and the operations alone leaves the invariant alone.
LEMMA QuietStep ==
  ASSUME KeptInv,
         UNCHANGED <<disk, clock, lock, pc, kind, mark, draft, done, stale, rogue>>, cut => cut'
  PROVE  LockHeld' /\ Carrying'
<1>1. LockHeld'
  BY DEF KeptInv, LockHeld
<1>2. Present' = Present /\ LiveName' = LiveName
  BY DEF Present, LiveName
<1>3. Carrying'
  BY <1>2 DEF KeptInv, Carrying, Carried, Halfway
<1> QED BY <1>1, <1>3

\* An operation that ends keeps what it holds of the invariant, if it is not the
\* one that is replacing the file.
LEMMA LeaveStep ==
  ASSUME KeptInv, NEW p \in Process, Leave(p), pc[p] # "idle",
         UNCHANGED <<disk, clock, stale, rogue>>, cut => cut',
         done' = done \/ (done' = done \cup {mark[p]} /\ pc[p] \in {"restat", "reparse"}),
         ~Halfway(p) \/ cut'
  PROVE  LockHeld' /\ Carrying'
<1>1. /\ \A q \in Process \ {p} :
           /\ pc'[q] = pc[q] /\ kind'[q] = kind[q] /\ mark'[q] = mark[q] /\ draft'[q] = draft[q]
           /\ lock' = q <=> lock = q
      /\ pc'[p] = "idle" /\ kind'[p] = "none"
  BY DEF KeptInv, NameInv, TypeOK, Leave, Forget, Goto
<1>2. LockHeld'
  BY <1>1 DEF KeptInv, LockHeld
<1>3. Present' = Present /\ LiveName' = LiveName
  BY DEF Present, LiveName
<1>4. ASSUME NEW S, Carried(S) PROVE done' \subseteq S /\ \A q \in Process :
                                       pc'[q] \in {"restat", "reparse"} => mark'[q] \in S
  BY <1>1, <1>4 DEF Carried
<1>5. ASSUME ~stale', ~rogue' PROVE Present' => Carried(disk[LiveName].marks)'
  BY <1>3, <1>4, <1>5 DEF KeptInv, Carrying, Carried
<1>6. ASSUME ~stale', ~rogue', NEW q \in Process, pc'[q] \in {"unlink", "write"}, lock' = q
      PROVE  Carried(draft[q].marks)'
  <2>1. q # p /\ pc[q] = pc'[q] /\ lock = q /\ draft'[q] = draft[q]
    BY <1>1, <1>6
  <2>2. Carried(draft[q].marks)
    BY <2>1, <1>6 DEF KeptInv, Carrying
  <2> QED BY <2>1, <2>2, <1>4 DEF Carried
<1>7. ASSUME ~stale', ~rogue', ~Present', clock' # 0
      PROVE  cut' \/ \E q \in Process : lock' = q /\ Halfway(q)'
  BY <1>1, <1>3, <1>7 DEF KeptInv, Carrying, Halfway
<1>8. \A q \in Process : pc'[q] \in {"unlink", "write"} => mark'[q] \in draft'[q].marks
  BY <1>1 DEF KeptInv, Carrying
<1> QED BY <1>2, <1>5, <1>6, <1>7, <1>8 DEF Carrying

\* What the write lock is for.
THEOREM MutationsKept == Spec => []Kept
<1> DEFINE Inv == LockHeld /\ Carrying
<1>1. Init => Inv
  BY DEF Init, LockHeld, Carrying, Carried, Present, Name
<1>2. NameInv /\ Inv /\ NameInv' /\ [Next]_vars => Inv'
  <2> SUFFICES ASSUME KeptInv, NameInv', [Next]_vars PROVE Inv'
    BY DEF KeptInv
  <2> USE DEF store, reading, saving, operation, history, KeptInv, NameInv
  <2>1. ASSUME NEW p \in Process, Save(p) PROVE Inv'
    <3>1. UNCHANGED <<disk, clock, lock, done, stale, rogue, cut>>
      BY <2>1 DEF Save
    <3>2. clock = 0 /\ used = 0 /\ \A q \in Process : pc[q] = "idle"
      BY <2>1 DEF Save, OneSave
    <3>3. /\ pc' = [pc EXCEPT ![p] = "write"]
          /\ kind' = [kind EXCEPT ![p] = "save"]
          /\ mark'[p] = 1 /\ draft'[p].marks = {1}
      BY <2>1, <3>2 DEF Save, Begin, Goto, TypeOK
    <3>4. LockHeld'
      BY <3>1, <3>2, <3>3 DEF TypeOK, LockHeld
    <3>5. ~Present /\ ~Present' /\ done' = {}
      BY <3>1, <3>2 DEF Newborn, Present
    <3>6. Carrying'
      BY <3>1, <3>2, <3>3, <3>5 DEF TypeOK, Carrying, Carried
    <3> QED BY <3>4, <3>6
  <2>2. ASSUME NEW p \in Process, Merge(p) \/ Invalidate(p) PROVE Inv'
    <3>1. /\ UNCHANGED <<disk, clock, lock, draft, done, stale, rogue, cut>>
          /\ pc[p] = "idle" /\ pc' = [pc EXCEPT ![p] = "lock"]
          /\ kind'[p] \in {"merge", "invalidate"}
          /\ \A q \in Process \ {p} : kind'[q] = kind[q] /\ mark'[q] = mark[q]
      BY <2>2 DEF Merge, Invalidate, Begin, Goto, TypeOK
    <3>2. LockHeld'
      BY <3>1 DEF TypeOK, LockHeld
    <3>3. Present' = Present /\ LiveName' = LiveName
      BY <3>1 DEF Present, LiveName
    <3>4. Carrying'
      BY <3>1, <3>3 DEF TypeOK, Carrying, Carried, Halfway
    <3> QED BY <3>2, <3>4
  <2>3. ASSUME NEW p \in Process, Stamp(p) PROVE Inv'
    <3>1. /\ UNCHANGED <<lock, draft>> /\ rogue'
          /\ pc[p] = "idle" /\ pc' = [pc EXCEPT ![p] = "find"]
          /\ kind'[p] = "stamp"
          /\ \A q \in Process \ {p} : kind'[q] = kind[q] /\ mark'[q] = mark[q]
      BY <2>3 DEF Stamp, Begin, Goto, TypeOK
    <3> QED BY <3>1 DEF TypeOK, LockHeld, Carrying
  <2>4. ASSUME NEW p \in Process, Delete(p) PROVE Inv'
    <3>1. rogue' /\ UNCHANGED <<lock, draft, pc, kind, mark>>
      BY <2>4 DEF Delete
    <3> QED BY <3>1 DEF LockHeld, Carrying
  <2>5. ASSUME NEW p \in Process, Acquire(p) PROVE Inv'
    <3>1. /\ UNCHANGED <<disk, clock, kind, mark, draft, done, stale, rogue, cut>>
          /\ pc[p] = "lock" /\ pc' = [pc EXCEPT ![p] = "find"]
          /\ lock = NoProcess /\ lock' = p
      BY <2>5 DEF Acquire, Goto
    <3>2. \A q \in Process : lock # q
      BY <3>1
    <3>3. LockHeld'
      BY <3>1, <3>2 DEF TypeOK, LockHeld
    <3>4. Present' = Present /\ LiveName' = LiveName
      BY <3>1 DEF Present, LiveName
    <3>5. Carrying'
      BY <3>1, <3>2, <3>4 DEF TypeOK, Carrying, Carried, Halfway
    <3> QED BY <3>3, <3>5
  <2>6. ASSUME NEW p \in Process, Find(p) PROVE Inv'
    <3>1. /\ UNCHANGED <<disk, clock, lock, kind, mark, done, rogue, cut>>
          /\ pc[p] = "find" /\ pc' = [pc EXCEPT ![p] = "unlink"]
          /\ \A q \in Process \ {p} : draft'[q] = draft[q]
          /\ draft'[p].marks = cache[p].marks \cup {mark[p]}
          /\ stale => stale'
          /\ ~stale' => UpToDate(p)
      BY <2>6 DEF Find, Goto, TypeOK, Changed
    <3>2. LockHeld'
      BY <3>1 DEF TypeOK, LockHeld
    <3>3. Present' = Present /\ LiveName' = LiveName
      BY <3>1 DEF Present, LiveName
    <3>4. ~stale' /\ ~rogue' => Carried(draft'[p].marks)
      BY <3>1 DEF Carrying, Carried, UpToDate
    <3>5. Carrying'
      BY <3>1, <3>3, <3>4 DEF TypeOK, Carrying, Carried, Halfway
    <3> QED BY <3>2, <3>5
  <2>7. ASSUME NEW p \in Process, Unlink(p) PROVE Inv'
    <3>1. /\ UNCHANGED <<clock, lock, kind, mark, draft, done, stale, rogue, cut>>
          /\ pc[p] = "unlink" /\ pc' = [pc EXCEPT ![p] = "write"]
          /\ \A n \in Name : disk'[n] = disk[n] \/ disk'[n] = Absent
      BY <2>7 DEF Unlink, Goto, TypeOK
    <3>2. LockHeld'
      BY <3>1 DEF TypeOK, LockHeld
    <3>3. ~rogue => lock = p
      BY <3>1 DEF LockHeld, OneSave, TypeOK, Kind
    <3>4. ASSUME ~stale', ~rogue', ~Present', clock' # 0, ~cut'
          PROVE  lock' = p /\ Halfway(p)'
      <4>1. lock = p /\ \A q \in Process : lock = q => q = p
        BY <3>1, <3>3, <3>4
      <4>2. Present
        BY <3>1, <3>4, <4>1 DEF Carrying, Halfway
      <4>3. draft[p].old # draft[p].name
        BY <2>7, <3>4, <4>2 DEF Unlink, Present
      <4> QED BY <3>1, <4>1, <4>3 DEF Halfway, TypeOK
    <3>5. ASSUME Present'
          PROVE  Present /\ LiveName' = LiveName /\ disk'[LiveName'] = disk[LiveName]
      <4>1. LiveName' \in Name /\ disk'[LiveName'] # Absent
        BY <3>5 DEF Present, LiveName
      <4>2. Present /\ disk'[LiveName'] = disk[LiveName']
        BY <3>1, <4>1 DEF Present
      <4>3. LiveName \in Name /\ disk[LiveName] # Absent
        BY <4>2, LiveFile
      <4> QED BY <4>1, <4>2, <4>3 DEF OneFile, Name
    <3>6. Carrying'
      BY <3>1, <3>4, <3>5 DEF TypeOK, Carrying, Carried
    <3> QED BY <3>2, <3>6
  <2>8. ASSUME NEW p \in Process, Write(p) PROVE Inv'
    <3>1. /\ UNCHANGED <<lock, stale, rogue, cut>>
          /\ pc[p] = "write"
          /\ \/ pc'[p] = "idle" /\ kind'[p] = "none" /\ kind[p] = "stamp"
             \/ pc'[p] = "restat" /\ UNCHANGED <<kind, mark, draft, done>> /\ kind[p] # "stamp"
          /\ \A q \in Process \ {p} :
               pc'[q] = pc[q] /\ kind'[q] = kind[q] /\ mark'[q] = mark[q] /\ draft'[q] = draft[q]
      BY <2>8 DEF Write, Forget, Goto, TypeOK
    <3>2. LockHeld'
      BY <3>1 DEF TypeOK, LockHeld
    <3>3. CASE rogue
      BY <3>1, <3>2, <3>3 DEF Carrying
    <3>4. CASE ~rogue
      <4>1. kind[p] # "stamp" /\ pc'[p] = "restat" /\ UNCHANGED <<kind, mark, draft, done>>
        BY <3>1, <3>4 DEF LockHeld
      <4>2. draft[p].name \in Name /\ disk'[draft[p].name] # Absent
            /\ disk'[draft[p].name].marks = draft[p].marks
        <5> DEFINE f == [marks |-> draft[p].marks, essence |-> draft[p].essence, mtime |-> clock + 1]
        <5>1. disk' = [disk EXCEPT ![draft[p].name] = f]
          BY <2>8 DEF Write
        <5>2. f.marks = draft[p].marks /\ f \in File
          BY DEF TypeOK, Draft, File
        <5> HIDE DEF f
        <5>3. draft[p].name \in Name /\ disk \in [Name -> File \cup {Absent}]
          BY DEF TypeOK, Draft
        <5> QED BY <5>1, <5>2, <5>3
      <4>3. Present' /\ LiveName' = draft[p].name
        <5>1. Present' /\ LiveName' \in Name /\ disk'[LiveName'] # Absent
          BY <4>2 DEF Present, LiveName
        <5> QED BY <4>2, <5>1 DEF OneFile, Name
      <4>4. mark[p] \in draft[p].marks
        BY <3>1 DEF Carrying
      <4>5. CASE kind[p] = "save"
        <5>1. clock = 0
          BY <3>1, <4>5 DEF OneSave
        <5>2. done = {} /\ \A q \in Process \ {p} : pc[q] = "idle"
          BY <4>5, <5>1 DEF Newborn, OneSave
        <5>3. Carrying'
          BY <3>1, <4>1, <4>2, <4>3, <4>4, <5>2 DEF Carrying, Carried
        <5> QED BY <3>2, <5>3
      <4>6. CASE kind[p] # "save"
        <5>1. lock = p
          BY <3>1, <4>1, <4>6 DEF LockHeld, TypeOK, Kind
        <5>2. ~stale => Carried(draft[p].marks)
          BY <3>1, <3>4, <5>1 DEF Carrying
        <5>3. Carrying'
          BY <3>1, <4>1, <4>2, <4>3, <4>4, <5>1, <5>2 DEF Carrying, Carried
        <5> QED BY <3>2, <5>3
      <4> QED BY <4>5, <4>6
    <3> QED BY <3>3, <3>4
  <2>9. ASSUME NEW p \in Process, RefreshStat(p) PROVE Inv'
    <3>1. /\ UNCHANGED <<disk, clock, lock, kind, mark, draft, done, stale, rogue, cut>>
          /\ pc[p] = "restat" /\ pc' = [pc EXCEPT ![p] = "reparse"]
      BY <2>9 DEF RefreshStat, Goto
    <3>2. LockHeld'
      BY <3>1 DEF TypeOK, LockHeld
    <3>3. Present' = Present /\ LiveName' = LiveName
      BY <3>1 DEF Present, LiveName
    <3>4. Carrying'
      BY <3>1, <3>3 DEF TypeOK, Carrying, Carried, Halfway
    <3> QED BY <3>2, <3>4
  <2>10. ASSUME NEW p \in Process,
                RefreshNothing(p) \/ RefreshParse(p) \/ FindNothing(p) \/ FailWrite(p) \/ Crash(p)
         PROVE  Inv'
    <3>1. Leave(p) /\ pc[p] # "idle" /\ UNCHANGED <<disk, clock, stale, rogue>>
      BY <2>10 DEF RefreshNothing, RefreshParse, FindNothing, FailWrite, Crash, Finish
    <3>2. cut => cut'
      BY <2>10 DEF RefreshNothing, RefreshParse, FindNothing, FailWrite, Crash, Finish
    <3>3. done' = done \/ (done' = done \cup {mark[p]} /\ pc[p] \in {"restat", "reparse"})
      BY <2>10 DEF RefreshNothing, RefreshParse, FindNothing, FailWrite, Crash, Finish
    <3>4. ~Halfway(p) \/ cut'
      BY <2>10 DEF RefreshNothing, RefreshParse, FindNothing, FailWrite, Crash, Finish, Halfway
    <3> QED BY <3>1, <3>2, <3>3, <3>4, LeaveStep
  <2>11. ASSUME NEW p \in Process,
                Load(p) \/ SweepStat(p) \/ SweepParse(p) \/ Age(p) \/ Restart(p)
         PROVE  Inv'
    BY <2>11, QuietStep DEF Load, SweepStat, SweepParse, Age, Restart
  <2>12. CASE UNCHANGED vars
    BY <2>12, QuietStep DEF vars
  <2> QED
    BY <2>1, <2>2, <2>3, <2>4, <2>5, <2>6, <2>7, <2>8, <2>9, <2>10, <2>11, <2>12
    DEF Next, Begins, Step, Sweep
<1>3. NameInv /\ Inv => Kept
  BY DEF NameInv, Newborn, Carrying, Carried, Kept, Replacing, Halfway
<1> QED BY <1>1, <1>2, <1>3, NamesInvariant, PTL DEF Spec
================================================================================
