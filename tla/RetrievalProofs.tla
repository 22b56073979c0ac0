---------------------------- MODULE RetrievalProofs ----------------------------
(***************************************************************************)
(* For any files, orders, likenesses, weights of the memories and bounds:  *)
(* what a call ranks was live during the call or is hidden by a file that  *)
(* was put in place late, as the newest time and the number of the files   *)
(* are enough to tell that a copy of all others is out of date; an answer  *)
(* names nothing twice; and the arithmetic of the scores keeps the order   *)
(* that all channels agree on.                                             *)
(***************************************************************************)
EXTENDS Retrieval, FiniteSetTheorems, WellFoundedInduction, TLAPS

USE IdsAssumption, NoneAssumption, BoundsAssumption DEF Time, Keys

\* What the proof needs of the types: the orders, the scores and the answer have no part in it.
Times ==
  /\ vault \in [Id -> File \cup {None}] /\ writes \in Time /\ pending \subseteq Temporary
  /\ key \in Keys /\ named \subseteq Id /\ todo \subseteq Id /\ index \in [Id -> Time \cup {None}]
  /\ step \in {"idle", "stat", "read", "rank", "count", "answered"}
  /\ cache # None => cache \in [key : Keys, index : [Id -> Time \cup {None}]]
  /\ late \subseteq Id /\ missed \subseteq Id

\* x is true to the files F that were listed under key k, but for those in rest, which are not read
\* yet, and those in hid, which k hides: any other file of the vault v that is no news for k is one
\* of F, and x has it as it is; what is not of F is not in x.
Found(v, F, k, x, rest, hid) ==
  /\ Cardinality(F) = k[2] /\ rest \subseteq F
  /\ \A m \in Id \ hid : v[m] # None /\ v[m].at <= k[1] =>
       m \in F /\ (m \notin rest => x[m] = IF v[m].live THEN v[m].at ELSE None)
  /\ \A m \in Id \ F : x[m] = None

\* While a call asks for the times: each file it has listed has already shown that the copy is out of
\* date, or will when it is asked (or is gone, which ends the call), or was in the copy as it was then.
Watched(F) ==
  \A m \in named \ late :
    \/ key[1] > cache.key[1]
    \/ m \in todo /\ (vault[m] = None \/ vault[m].at > cache.key[1])
    \/ m \in F /\ (cache.index[m] # None => <<m, cache.index[m]>> \in seen)

CopyTrue ==
  \E F \in SUBSET Id : /\ Found(vault, F, cache.key, cache.index, {}, late)
                       /\ step = "stat" => Watched(F)

\* The files that have come since the listing are known to be missed by it.
ListingTrue ==
  key[2] = Cardinality(named) /\ todo \subseteq named /\ \A m \in Files \ missed : m \in named

ReadingTrue ==
  /\ Found(vault, named, key, index, todo, missed)
  /\ \A m \in Id : index[m] # None => <<m, index[m]>> \in seen

Honest ==
  /\ Times
  /\ cache # None => CopyTrue
  /\ step \in {"idle", "stat"} => index = NoIndex
  /\ step = "stat" => ListingTrue
  /\ step = "read" => ReadingTrue
  /\ step \in {"stat", "read"} => LiveNow \subseteq seen

\* Putting a file in place, or deleting one, leaves what is made of a listing as true as it was: what
\* it touches is news, or hidden, or not read yet, or gone.
LEMMA StaysTrue ==
  ASSUME NEW v \in [Id -> File \cup {None}], NEW m \in Id, NEW f \in File \cup {None},
         NEW F, NEW k \in Keys, NEW x, NEW rest, NEW hid, NEW hidden, hid \subseteq hidden,
         f # None => f.at > k[1] \/ m \in hidden \/ m \in rest,
         Found(v, F, k, x, rest, hid)
  PROVE  Found([v EXCEPT ![m] = f], F, k, x, rest, hidden)
<1> DEFINE w == [v EXCEPT ![m] = f]
<1>1. w[m] = f /\ \A n \in Id \ {m} : w[n] = v[n]
  OBVIOUS
<1>2. f # None => f.at \in Nat /\ k[1] \in Nat
  BY DEF File
<1> HIDE DEF w
<1>3. SUFFICES ASSUME NEW n \in Id \ hidden, w[n] # None, w[n].at <= k[1]
               PROVE  n \in F /\ (n \notin rest => x[n] = IF w[n].live THEN w[n].at ELSE None)
  BY DEF Found, w
<1>4. CASE n # m
  BY <1>1, <1>3, <1>4 DEF Found
<1>5. CASE n = m
  <2>1. m \in rest
    BY <1>1, <1>2, <1>3, <1>5
  <2> QED BY <1>5, <2>1 DEF Found
<1> QED BY <1>4, <1>5

\* The copy and the listing stay as true as they were when a file is put in place or deleted.
LEMMA Changed ==
  ASSUME Honest, NEW m \in Id, NEW f \in File \cup {None},
         vault' = [vault EXCEPT ![m] = f], writes' = writes, pending' \subseteq pending,
         UNCHANGED <<cache, step, key, named, todo, index>>, Seeing,
         late \subseteq late', late' \subseteq Id, missed \subseteq missed', missed' \subseteq Id,
         f # None /\ cache # None => f.at > cache.key[1] \/ m \in late',
         f # None /\ step = "stat" => m \in named \/ m \in missed',
         f # None /\ step = "read" => f.at > key[1] \/ m \in missed' \/ m \in todo
  PROVE  Honest'
<1>1. Times'
  BY DEF Honest, Times
<1>2. seen \subseteq seen' /\ (step \in {"stat", "read"} => LiveNow' \subseteq seen')
  BY DEF Seeing
<1>3. vault'[m] = f /\ \A n \in Id \ {m} : vault'[n] = vault[n]
  BY DEF Honest, Times
<1>4. ASSUME cache # None PROVE CopyTrue'
  <2>1. PICK F \in SUBSET Id : /\ Found(vault, F, cache.key, cache.index, {}, late)
                               /\ step = "stat" => Watched(F)
    BY <1>4 DEF Honest, CopyTrue
  <2>2. cache.key \in Keys /\ (f # None => f.at > cache.key[1] \/ m \in late' \/ m \in {})
    BY <1>4 DEF Honest, Times
  <2>3. vault \in [Id -> File \cup {None}]
    BY DEF Honest, Times
  <2>4. Found(vault', F, cache.key, cache.index, {}, late')
    BY <2>1, <2>2, <2>3, StaysTrue
  <2>5. ASSUME step = "stat" PROVE Watched(F)'
    <3>1. SUFFICES ASSUME NEW n \in named \ late'
                   PROVE  \/ key[1] > cache.key[1]
                          \/ n \in todo /\ (vault'[n] = None \/ vault'[n].at > cache.key[1])
                          \/ n \in F /\ (cache.index[n] # None => <<n, cache.index[n]>> \in seen')
      BY DEF Watched
    <3>2. \/ key[1] > cache.key[1]
          \/ n \in todo /\ (vault[n] = None \/ vault[n].at > cache.key[1])
          \/ n \in F /\ (cache.index[n] # None => <<n, cache.index[n]>> \in seen)
      BY <2>1, <2>5, <3>1 DEF Watched
    <3>3. n \in Id
      BY <3>1 DEF Honest, Times
    <3>4. CASE n = m
      BY <1>2, <1>3, <1>4, <3>1, <3>2, <3>4
    <3>5. CASE n # m
      BY <1>2, <1>3, <3>2, <3>3, <3>5
    <3> QED BY <3>4, <3>5
  <2> QED BY <2>4, <2>5 DEF CopyTrue
<1>5. ASSUME step = "stat" PROVE ListingTrue'
  <2>1. ListingTrue
    BY <1>5 DEF Honest
  <2>2. ASSUME NEW n \in Files' \ missed' PROVE n \in named
    <3>1. n \in Id /\ vault'[n] # None /\ n \notin missed
      BY <2>2 DEF Files
    <3>2. CASE n = m
      BY <1>3, <1>5, <2>2, <3>1, <3>2
    <3>3. CASE n # m
      BY <1>3, <2>1, <3>1, <3>3 DEF ListingTrue, Files
    <3> QED BY <3>2, <3>3
  <2> QED BY <2>1, <2>2 DEF ListingTrue
<1>6. ASSUME step = "read" PROVE ReadingTrue'
  <2>1. ReadingTrue
    BY <1>6 DEF Honest
  <2>2. vault \in [Id -> File \cup {None}] /\ key \in Keys
    BY DEF Honest, Times
  <2>3. Found(vault, named, key, index, todo, missed)
    BY <2>1 DEF ReadingTrue
  <2>4. f # None => f.at > key[1] \/ m \in missed' \/ m \in todo
    BY <1>6
  <2>5. Found(vault', named, key, index, todo, missed')
    BY <2>2, <2>3, <2>4, StaysTrue
  <2> QED BY <1>2, <2>1, <2>5 DEF ReadingTrue
<1> QED
  BY <1>1, <1>2, <1>4, <1>5, <1>6 DEF Honest

\* What the listing shows at first sight is true of the files.
LEMMA Listed ==
  ASSUME Honest, ListFiles
  PROVE  Honest'
<1>1. /\ step' = "stat" /\ key' = <<0, Cardinality(Files)>> /\ named' = Files /\ todo' = Files
      /\ seen' = LiveNow /\ missed' = {} /\ UNCHANGED <<vault, writes, pending, cache, index, late>>
  BY DEF ListFiles, files
<1>2. Files \subseteq Id /\ IsFiniteSet(Files) /\ Cardinality(Files) \in 0..Cardinality(Id)
  <2>1. Files \subseteq Id
    BY DEF Files
  <2> QED BY <2>1, FS_Subset, FS_CardinalityType
<1>3. Times'
  BY <1>1, <1>2 DEF Honest, Times
<1>4. LiveNow' = LiveNow /\ Files' = Files
  BY <1>1 DEF LiveNow, Live, Files
<1>5. ASSUME cache # None PROVE CopyTrue'
  <2>1. PICK F \in SUBSET Id : Found(vault, F, cache.key, cache.index, {}, late)
    BY <1>5 DEF Honest, CopyTrue
  <2>2. ASSUME NEW m \in Files \ late
        PROVE  \/ vault[m].at > cache.key[1]
               \/ m \in F /\ (cache.index[m] # None => <<m, cache.index[m]>> \in LiveNow)
    <3>1. m \in Id /\ vault[m] \in File /\ vault[m] # None
      BY <2>2 DEF Files, Honest, Times
    <3>2. vault[m].at \in Nat /\ cache.key[1] \in Nat
      BY <1>5, <3>1 DEF File, Honest, Times
    <3>3. ASSUME vault[m].at <= cache.key[1]
          PROVE  m \in F /\ (cache.index[m] # None => <<m, cache.index[m]>> \in LiveNow)
      <4>1. m \in F /\ cache.index[m] = IF vault[m].live THEN vault[m].at ELSE None
        BY <2>1, <2>2, <3>1, <3>3 DEF Found
      <4> QED BY <3>1, <4>1 DEF LiveNow, Live
    <3> QED BY <3>2, <3>3
  <2>3. Watched(F)'
    BY <1>1, <2>2 DEF Watched
  <2> QED BY <1>1, <2>1, <2>3 DEF CopyTrue
<1>6. ListingTrue'
  BY <1>1, <1>4 DEF ListingTrue
<1>7. index' = NoIndex
  BY <1>1 DEF Honest, ListFiles
<1> QED
  BY <1>1, <1>3, <1>4, <1>5, <1>6, <1>7 DEF Honest

\* A file that is asked for its time shows that the copy is out of date, if it is news for it.
LEMMA TimeAsked ==
  ASSUME Honest, StatFile
  PROVE  Honest'
<1>1. PICK m \in todo \cap Files :
        /\ key' = [key EXCEPT ![1] = IF vault[m].at > @ THEN vault[m].at ELSE @]
        /\ todo' = todo \ {m}
  BY DEF StatFile
<1>2. UNCHANGED <<vault, writes, pending, cache, step, named, index, seen, late, missed>>
  BY DEF StatFile, files, history
<1>3. m \in Id /\ vault[m].at \in Time /\ key[1] \in Time /\ key[2] \in 0..Cardinality(Id)
  BY DEF Files, Honest, Times, File
<1>4. /\ key' = <<IF vault[m].at > key[1] THEN vault[m].at ELSE key[1], key[2]>>
      /\ key'[2] = key[2] /\ key'[1] \in Time /\ key'[1] >= key[1] /\ key'[1] >= vault[m].at
  <2>1. key = <<key[1], key[2]>>
    BY DEF Honest, Times
  <2> QED BY <1>1, <1>3, <2>1
<1>5. Times'
  BY <1>1, <1>2, <1>3, <1>4 DEF Honest, Times
<1>6. LiveNow' = LiveNow /\ Files' = Files
  BY <1>2 DEF LiveNow, Live, Files
<1>7. step # "read"
  BY DEF StatFile
<1>8. ASSUME cache # None PROVE CopyTrue'
  <2>1. PICK F \in SUBSET Id : /\ Found(vault, F, cache.key, cache.index, {}, late)
                               /\ step = "stat" => Watched(F)
    BY <1>8 DEF Honest, CopyTrue
  <2>2. ASSUME step = "stat" PROVE Watched(F)'
    <3>1. SUFFICES ASSUME NEW n \in named \ late
                   PROVE  \/ key'[1] > cache.key[1]
                          \/ n \in todo' /\ (vault[n] = None \/ vault[n].at > cache.key[1])
                          \/ n \in F /\ (cache.index[n] # None => <<n, cache.index[n]>> \in seen)
      BY <1>2 DEF Watched
    <3>2. cache.key[1] \in Nat
      BY <1>8 DEF Honest, Times
    <3>3. \/ key[1] > cache.key[1]
          \/ n \in todo /\ (vault[n] = None \/ vault[n].at > cache.key[1])
          \/ n \in F /\ (cache.index[n] # None => <<n, cache.index[n]>> \in seen)
      BY <2>1, <2>2, <3>1 DEF Watched
    <3>4. CASE n = m
      <4>1. vault[m] # None
        BY DEF Files
      <4> QED BY <1>3, <1>4, <3>2, <3>3, <3>4, <4>1
    <3>5. CASE n # m
      BY <1>1, <1>3, <1>4, <3>2, <3>3, <3>5
    <3> QED BY <3>4, <3>5
  <2> QED BY <1>2, <2>1, <2>2 DEF CopyTrue
<1>9. step' = "stat" => ListingTrue'
  BY <1>1, <1>2, <1>4, <1>6 DEF Honest, ListingTrue
<1> QED
  BY <1>2, <1>5, <1>6, <1>7, <1>8, <1>9 DEF Honest

\* A copy that passes for fresh is the files as they were when they were listed, or is hidden.
LEMMA FreshWasLive ==
  ASSUME Honest, step = "stat", todo = {}, Fresh(cache, key), NEW m \in Indexed(cache.index)
  PROVE  <<m, cache.index[m]>> \in seen \/ Overlooked(m)
<1>1. cache # None /\ m \in Id /\ cache.index[m] # None
  BY DEF Fresh, Indexed
<1>2. PICK F \in SUBSET Id : Found(vault, F, cache.key, cache.index, {}, late) /\ Watched(F)
  BY <1>1 DEF Honest, CopyTrue
<1>3. cache.key[1] \in Nat /\ key[1] \in Nat
  BY <1>1 DEF Honest, Times
<1>4. \A n \in named \ late : n \in F /\ (cache.index[n] # None => <<n, cache.index[n]>> \in seen)
  BY <1>2, <1>3 DEF Watched, Fresh
<1>5. m \in F
  BY <1>1, <1>2 DEF Found
<1>6. CASE late = {}
  <2>1. named \subseteq F
    BY <1>4, <1>6
  <2>2. Cardinality(named) = Cardinality(F)
    BY <1>2 DEF Found, Fresh, Honest, ListingTrue
  <2>3. named = F
    <3>1. IsFiniteSet(F)
      BY FS_Subset
    <3> QED BY <2>1, <2>2, <3>1, FS_Subset
  <2> QED BY <1>1, <1>4, <1>5, <1>6, <2>3
<1>7. CASE late # {}
  BY <1>1, <1>4, <1>7 DEF Overlooked
<1> QED BY <1>6, <1>7

\* The copy is taken, or the files that are listed are all to be read.
LEMMA Looked ==
  ASSUME Honest, Look
  PROVE  Honest'
<1>1. /\ step = "stat" /\ todo = {}
      /\ UNCHANGED <<vault, writes, pending, cache, key, named, seen, late, missed>>
  BY DEF Look, files, history
<1>2. LiveNow' = LiveNow
  BY <1>1 DEF LiveNow, Live
<1>3. ASSUME cache # None, step' # "stat" PROVE CopyTrue'
  BY <1>1, <1>3 DEF Honest, CopyTrue
<1>4. CASE Fresh(cache, key)
  <2>1. index' = cache.index /\ step' \in {"rank", "answered"} /\ todo' = todo
    BY <1>4 DEF Look
  <2>2. Times'
    BY <1>1, <1>4, <2>1 DEF Honest, Times, Fresh
  <2> QED
    BY <1>1, <1>3, <2>1, <2>2 DEF Honest
<1>5. CASE ~Fresh(cache, key)
  <2>1. index' = index /\ step' = "read" /\ todo' = named
    BY <1>5 DEF Look
  <2>2. Times'
    BY <1>1, <2>1 DEF Honest, Times
  <2>3. index = NoIndex /\ ListingTrue
    BY <1>1 DEF Honest
  <2>4. Found(vault, named, key, index, named, missed)
    BY <2>3 DEF Found, ListingTrue, Files, NoIndex
  <2>5. ReadingTrue'
    BY <1>1, <2>1, <2>3, <2>4 DEF ReadingTrue, NoIndex
  <2> QED
    BY <1>1, <1>2, <1>3, <2>1, <2>2, <2>5 DEF Honest
<1> QED BY <1>4, <1>5

\* A file is read as it is now.
LEMMA FileRead ==
  ASSUME Honest, ReadFile
  PROVE  Honest'
<1>1. PICK m \in todo : /\ index' = [index EXCEPT ![m] = IF Live(m) THEN vault[m].at ELSE None]
                        /\ todo' = todo \ {m}
  BY DEF ReadFile
<1>2. /\ step = "read"
      /\ UNCHANGED <<vault, writes, pending, cache, step, key, named, seen, late, missed>>
  BY DEF ReadFile, files, history
<1>3. m \in Id /\ (Live(m) => vault[m].at \in Time)
  BY <1>1 DEF Honest, Times, Live, File
<1>4. Times'
  BY <1>1, <1>2, <1>3 DEF Honest, Times
<1>5. ReadingTrue /\ LiveNow \subseteq seen
  BY <1>2 DEF Honest
<1>6. \A n \in Id : index'[n] = IF n = m THEN IF Live(m) THEN vault[m].at ELSE None ELSE index[n]
  BY <1>1, <1>3 DEF Honest, Times
<1>7. Found(vault, named, key, index', todo', missed)
  BY <1>1, <1>3, <1>5, <1>6 DEF ReadingTrue, Found, Live
<1>8. \A n \in Id : index'[n] # None => <<n, index'[n]>> \in seen
  <2>1. Live(m) => <<m, vault[m].at>> \in LiveNow
    BY <1>3 DEF LiveNow
  <2> QED BY <1>5, <1>6, <2>1 DEF ReadingTrue
<1>9. LiveNow' = LiveNow
  BY <1>2 DEF LiveNow, Live
<1>10. ReadingTrue'
  BY <1>2, <1>7, <1>8 DEF ReadingTrue
<1>11. cache # None => CopyTrue'
  BY <1>2 DEF Honest, CopyTrue
<1> QED
  BY <1>2, <1>4, <1>5, <1>9, <1>10, <1>11 DEF Honest

\* A step that leaves the copy and the files alone, outside the listing and the reading.
LEMMA Elsewhere ==
  ASSUME Honest, UNCHANGED <<vault, writes, pending, cache, late>>, Times',
         step' \notin {"stat", "read"}, step' = "idle" => index' = NoIndex
  PROVE  Honest'
<1>1. cache # None => CopyTrue'
  BY DEF Honest, CopyTrue
<1> QED BY <1>1 DEF Honest

\* A call is over.
LEMMA IsOver ==
  ASSUME Honest, Over
  PROVE  Honest'
<1>1. /\ step' = "idle" /\ key' = <<0, 0>> /\ index' = NoIndex /\ named' = {} /\ todo' = {} /\ missed' = {}
      /\ UNCHANGED <<vault, writes, pending, cache, late>>
  BY DEF Over, files
<1>2. Times'
  BY <1>1, FS_CardinalityType DEF Honest, Times, NoIndex
<1> QED BY <1>1, <1>2, Elsewhere

\* The invariant holds at first.
LEMMA InitHonest == Init => Honest
<1>1. 0 \in Time /\ <<0, 0>> \in Keys
  BY FS_CardinalityType
<1>2. ASSUME Init PROVE Times
  <2> DEFINE new == [at |-> 0, live |-> TRUE]
  <2>1. new \in File
    BY <1>1 DEF File
  <2>2. vault \in [Id -> {None, new}]
    BY <1>2 DEF Init
  <2> HIDE DEF new
  <2>3. vault \in [Id -> File \cup {None}]
    BY <2>1, <2>2
  <2> QED
    BY <1>1, <1>2, <2>3 DEF Init, Times, NoIndex
<1> QED
  BY <1>2 DEF Init, Honest

\* Every step keeps the invariant.
LEMMA StepHonest == Honest /\ [Next]_vars => Honest'
<1> SUFFICES ASSUME Honest, [Next]_vars PROVE Honest'
  OBVIOUS
<1>1. ASSUME NEW m \in Id, DeleteFile(m) PROVE Honest'
  <2>1. /\ vault' = [vault EXCEPT ![m] = None]
        /\ UNCHANGED <<writes, pending, cache, step, key, named, todo, index, late, missed>> /\ Seeing
    BY <1>1 DEF DeleteFile, call
  <2>2. late \subseteq Id /\ missed \subseteq Id
    BY DEF Honest, Times
  <2> QED BY <2>1, <2>2, Changed
<1>2. ASSUME NEW w \in pending, Publish(w) PROVE Honest'
  <2>1. w \in Temporary
    BY DEF Honest, Times
  <2>2. w.id \in Id /\ w.file \in File /\ w.file.at \in Nat
    BY <2>1 DEF Temporary, File
  <2>3. /\ vault' = [vault EXCEPT ![w.id] = w.file]
        /\ UNCHANGED <<writes, cache, step, key, named, todo, index>> /\ Seeing
        /\ pending' \subseteq pending
        /\ late' = IF cache # None /\ w.file.at <= cache.key[1] THEN late \cup {w.id} ELSE late
        /\ missed' = IF Passed(w) THEN missed \cup {w.id} ELSE missed
    BY <1>2 DEF Publish, call
  <2>4. late \subseteq late' /\ late' \subseteq Id /\ missed \subseteq missed' /\ missed' \subseteq Id
    BY <2>2, <2>3 DEF Honest, Times
  <2>5. cache # None => w.file.at > cache.key[1] \/ w.id \in late'
    <3>1. cache # None => cache.key[1] \in Nat
      BY DEF Honest, Times
    <3> QED BY <2>2, <2>3, <3>1
  <2>6. /\ step = "stat" => w.id \in named \/ w.id \in missed'
        /\ step = "read" => w.file.at > key[1] \/ w.id \in missed' \/ w.id \in todo
    <3>1. key[1] \in Nat
      BY DEF Honest, Times
    <3> QED BY <2>2, <2>3, <3>1 DEF Passed
  <2> QED BY <2>2, <2>3, <2>4, <2>5, <2>6, Changed
<1>3. ASSUME NEW m \in Id, NEW live \in BOOLEAN, WriteTemporary(m, live) PROVE Honest'
  <2>1. /\ UNCHANGED <<vault, cache, step, key, named, todo, index, seen, late, missed>>
        /\ writes' = writes + 1 /\ writes < MaxWrites
        /\ pending' = pending \cup {[id |-> m, file |-> [at |-> writes', live |-> live]]}
    BY <1>3 DEF WriteTemporary, call, history
  <2>2. writes' \in Time
    BY <2>1 DEF Honest, Times
  <2>3. [id |-> m, file |-> [at |-> writes', live |-> live]] \in Temporary
    BY <2>2 DEF Temporary, File
  <2>4. Times'
    BY <2>1, <2>2, <2>3 DEF Honest, Times
  <2>5. LiveNow' = LiveNow /\ Files' = Files
    BY <2>1 DEF LiveNow, Live, Files
  <2>6. cache # None => CopyTrue'
    BY <2>1 DEF Honest, CopyTrue, Watched
  <2> QED BY <2>1, <2>4, <2>5, <2>6 DEF Honest, ListingTrue, ReadingTrue
<1>4. ASSUME ListFiles PROVE Honest'
  BY <1>4, Listed
<1>5. ASSUME StatFile PROVE Honest'
  BY <1>5, TimeAsked
<1>6. ASSUME StatGone \/ Return PROVE Honest'
  BY <1>6, IsOver DEF StatGone, Return
<1>7. ASSUME Look PROVE Honest'
  BY <1>7, Looked
<1>8. ASSUME ReadFile PROVE Honest'
  BY <1>8, FileRead
<1>9. ASSUME KeepIndex PROVE Honest'
  <2>1. /\ step = "read" /\ todo = {} /\ cache' = [key |-> key, index |-> index]
        /\ step' \in {"rank", "answered"} /\ late' = missed
        /\ UNCHANGED <<vault, writes, pending, key, named, todo, index, seen, missed>>
    BY <1>9 DEF KeepIndex, files
  <2>2. Times'
    BY <2>1 DEF Honest, Times
  <2>3. Found(vault, named, key, index, {}, missed) /\ named \in SUBSET Id
    BY <2>1 DEF Honest, ReadingTrue, Times
  <2>4. cache'.key = key /\ cache'.index = index
    BY <2>1
  <2>5. CopyTrue'
    BY <2>1, <2>3, <2>4 DEF CopyTrue
  <2> QED
    BY <2>1, <2>2, <2>5 DEF Honest
<1>10. ASSUME Recount PROVE Honest'
  <2>1. /\ step' = "count" /\ key' = <<0, Cardinality(Files)>> /\ todo' = Files
        /\ UNCHANGED <<vault, writes, pending, cache, named, index, late, missed>>
    BY <1>10 DEF Recount, files, history
  <2>2. Files \subseteq Id /\ Cardinality(Files) \in 0..Cardinality(Id)
    <3>1. Files \subseteq Id
      BY DEF Files
    <3> QED BY <3>1, FS_Subset, FS_CardinalityType
  <2>3. Times'
    BY <2>1, <2>2 DEF Honest, Times
  <2> QED BY <2>1, <2>3, Elsewhere
<1>11. ASSUME NEW o \in Order, NEW f \in Order, NEW w \in Whole, NEW modelled \in BOOLEAN, NEW ask \in Asked,
              Answer(o, w, f, modelled, ask)
       PROVE  Honest'
  <2>1. /\ step' = "answered"
        /\ UNCHANGED <<vault, writes, pending, cache, key, named, todo, index, late, missed>>
    BY <1>11 DEF Answer, files, history
  <2>2. Times'
    BY <2>1 DEF Honest, Times
  <2> QED BY <2>1, <2>2, Elsewhere
<1>12. ASSUME UNCHANGED vars PROVE Honest'
  <2>1. UNCHANGED <<vault, writes, pending, cache, step, key, named, todo, index, seen, late, missed>>
    BY <1>12 DEF vars, files, call, history
  <2>2. LiveNow' = LiveNow /\ Files' = Files /\ Times'
    BY <2>1 DEF LiveNow, Live, Files, Honest, Times
  <2>3. cache # None => CopyTrue'
    BY <2>1 DEF Honest, CopyTrue, Watched
  <2> QED BY <2>1, <2>2, <2>3 DEF Honest, ListingTrue, ReadingTrue
<1> QED
  BY <1>1, <1>2, <1>3, <1>4, <1>5, <1>6, <1>7, <1>8, <1>9, <1>10, <1>11, <1>12 DEF Next, Loading

\* Whatever a call has in its index as it begins to rank was live at some moment of the call, for any
\* number of memories, writers and calls: a copy whose newest time is no older than the listing's and
\* which has as many files is of the same files, unless a file that was put in place late hides it.
THEOREM RankedWasLive == Spec => IndexLive
<1> DEFINE Ranks == (step \in {"stat", "read"} /\ step' = "rank") =>
              \A m \in Indexed(index') :
                <<m, index'[m]>> \in seen' \/ (step = "stat" /\ Overlooked(m))
<1>1. ASSUME Honest, Next PROVE Ranks
  <2>1. SUFFICES ASSUME step \in {"stat", "read"}, step' = "rank", NEW m \in Indexed(index')
                 PROVE  <<m, index'[m]>> \in seen' \/ (step = "stat" /\ Overlooked(m))
    OBVIOUS
  <2>2. Look \/ KeepIndex
    BY <1>1, <2>1 DEF Next, Loading, DeleteFile, WriteTemporary, Publish, ListFiles, StatFile, StatGone, Over,
                      ReadFile, Recount, Return, Answer, call
  <2>3. CASE Look
    <3>1. /\ step = "stat" /\ todo = {} /\ Fresh(cache, key)
          /\ index' = cache.index /\ seen' = seen
      BY <2>1, <2>3 DEF Look, history
    <3> QED BY <1>1, <2>1, <3>1, FreshWasLive
  <2>4. CASE KeepIndex
    <3>1. step = "read" /\ index' = index /\ seen' = seen
      BY <2>4 DEF KeepIndex
    <3>2. ReadingTrue
      BY <1>1, <3>1 DEF Honest
    <3> QED BY <2>1, <3>1, <3>2 DEF ReadingTrue, Indexed
  <2> QED BY <2>2, <2>3, <2>4
<1>2. Honest /\ [Next]_vars => [Ranks]_vars
  BY <1>1
<1> QED
  BY InitHonest, StepHonest, <1>2, PTL DEF Spec, IndexLive
--------------------------------------------------------------------------------
(***************************************************************************)
(* Orders without repetition.                                              *)
(***************************************************************************)
List(s) == s \in Seq(Id) /\ IsInjective(s)

\* The orders of a set hold each of its members at one place.
LEMMA ListedOnce ==
  ASSUME NEW S \in SUBSET Id, NEW s \in SetToSeqs(S)
  PROVE  List(s) /\ Range(s) = S /\ Len(s) = Cardinality(S) /\ DOMAIN s = 1..Len(s)
<1> DEFINE n == Cardinality(S)
<1>1. IsFiniteSet(S) /\ n \in Nat
  BY FS_Subset, FS_CardinalityType
<1>2. s \in [1..n -> S] /\ \A i, j \in 1..n : i # j => s[i] # s[j]
  BY DEF SetToSeqs
<1>3. IsFiniteSet(1..n) /\ Cardinality(1..n) = n
  BY <1>1, FS_Interval
<1>4. s \in Injection(1..n, S)
  BY <1>2 DEF Injection, IsInjective
<1>5. s \in Surjection(1..n, S)
  BY <1>1, <1>3, <1>4, FS_Injection
<1>6. \A m \in S : \E i \in 1..n : s[i] = m
  BY <1>5 DEF Surjection
<1> HIDE DEF n
<1>7. s \in Seq(Id) /\ Len(s) = n /\ DOMAIN s = 1..n
  BY <1>1, <1>2
<1>8. Range(s) = S
  BY <1>2, <1>6, <1>7 DEF Range
<1> QED BY <1>2, <1>7, <1>8 DEF List, IsInjective, n

\* A member's rank is its place; what is not in the order comes after its end.
LEMMA RankIs ==
  ASSUME NEW s, List(s)
  PROVE  /\ \A i \in DOMAIN s : Rank(s, s[i]) = i
         /\ \A m \in Range(s) : Rank(s, m) \in 1..Len(s) /\ s[Rank(s, m)] = m
         /\ \A m : m \notin Range(s) => Rank(s, m) = Len(s) + 1
         /\ Len(s) \in Nat /\ DOMAIN s = 1..Len(s) /\ Range(s) \subseteq Id
<1>1. Len(s) \in Nat /\ DOMAIN s = 1..Len(s) /\ \A i \in DOMAIN s : s[i] \in Range(s) /\ s[i] \in Id
  BY DEF List, Range
<1>2. ASSUME NEW i \in DOMAIN s PROVE Rank(s, s[i]) = i
  <2>1. \A k \in DOMAIN s : s[k] = s[i] <=> k = i
    BY DEF List, IsInjective
  <2>2. (CHOOSE k \in DOMAIN s : s[k] = s[i]) = i
    BY <2>1
  <2> QED BY <1>1, <2>2 DEF Rank
<1>3. \A m \in Range(s) : \E i \in DOMAIN s : s[i] = m
  BY DEF Range
<1>4. \A m \in Range(s) : Rank(s, m) \in 1..Len(s) /\ s[Rank(s, m)] = m
  BY <1>1, <1>2, <1>3
<1>5. \A m : m \notin Range(s) => Rank(s, m) = Len(s) + 1
  BY DEF Rank
<1>6. Range(s) \subseteq Id
  BY <1>1 DEF Range
<1> QED BY <1>1, <1>2, <1>4, <1>5, <1>6

\* A list is no longer than there are memories.
LEMMA ListBound ==
  ASSUME NEW s, List(s)
  PROVE  Len(s) \in Nat /\ Len(s) <= Cardinality(Id) /\ Cardinality(Id) \in Nat
<1>1. Len(s) \in Nat /\ s \in Injection(1..Len(s), Id)
  BY DEF List, Injection, IsInjective
<1>2. IsFiniteSet(1..Len(s)) /\ Cardinality(1..Len(s)) = Len(s)
  BY <1>1, FS_Interval
<1>3. Cardinality(1..Len(s)) <= Cardinality(Id)
  BY <1>1, FS_Injection
<1> QED BY <1>1, <1>2, <1>3, FS_CardinalityType

\* The first of a list.
LEMMA TopKnown ==
  ASSUME NEW s, List(s), NEW n \in Nat
  PROVE  /\ List(Top(s, n)) /\ Len(Top(s, n)) <= n /\ Range(Top(s, n)) \subseteq Range(s)
         /\ DOMAIN Top(s, n) = {i \in DOMAIN s : i <= n} /\ \A i \in DOMAIN Top(s, n) : Top(s, n)[i] = s[i]
<1> DEFINE k == IF Len(s) < n THEN Len(s) ELSE n
           t == Top(s, n)
<1>1. Len(s) \in Nat /\ DOMAIN s = 1..Len(s) /\ s \in Seq(Id)
  BY DEF List
<1>2. k \in 0..Len(s) /\ k <= n
  BY <1>1
<1>3. t = SubSeq(s, 1, k)
  BY DEF Top
<1> HIDE DEF t
<1>4. t \in Seq(Id) /\ Len(t) = k /\ DOMAIN t = 1..k /\ \A i \in 1..k : t[i] = s[i]
  BY <1>1, <1>2, <1>3
<1>5. 1..k = {i \in DOMAIN s : i <= n}
  BY <1>1
<1>6. IsInjective(t)
  BY <1>1, <1>2, <1>4 DEF List, IsInjective
<1>7. Range(t) \subseteq Range(s)
  BY <1>1, <1>2, <1>4 DEF Range
<1> QED BY <1>2, <1>4, <1>5, <1>6, <1>7 DEF List, t

\* What is put in order of a score is the score's domain, each member once.
LEMMA SortedKnown ==
  ASSUME NEW score, DOMAIN score \subseteq Id, NEW s \in Sorted(score)
  PROVE  /\ List(s) /\ Range(s) = DOMAIN score
         /\ \A i, j \in DOMAIN s : i < j => score[s[i]] >= score[s[j]]
BY ListedOnce DEF Sorted
--------------------------------------------------------------------------------
(***************************************************************************)
(* An answer names no memory twice.                                        *)
(***************************************************************************)
QueryOK(q) == q \in Query /\ List(q.cosine) /\ List(q.words) /\ List(q.fts)

LEMMA WithinKnown ==
  ASSUME NEW o, List(o), NEW S, NEW s \in Within(o, S)
  PROVE  List(s)
<1>1. Range(o) \cap S \in SUBSET Id
  BY RankIs
<1> QED BY <1>1, ListedOnce DEF Within

LEMMA CandidatesKnown ==
  ASSUME NEW q, NEW x, NEW literal, NEW c \in Candidates(q, x, literal)
  PROVE  List(c) /\ Range(c) \subseteq Indexed(x) \ Range(literal)
<1> DEFINE ranked == Range(q.cosine) \cup Range(q.words) \cup Range(q.fts)
           new == ranked \cap (Indexed(x) \ Range(literal))
           score == [m \in new |-> Fused(q, m)]
<1>1. PICK s \in Sorted(score) : c = Top(s, PoolSize)
  BY DEF Candidates
<1>2. DOMAIN score = new /\ new \subseteq Id /\ new \subseteq Indexed(x) \ Range(literal)
  BY DEF Indexed
<1> HIDE DEF score
<1>3. List(s) /\ Range(s) = new
  BY <1>2, SortedKnown
<1> QED BY <1>1, <1>2, <1>3, TopKnown

LEMMA ReorderedKnown ==
  ASSUME NEW q, NEW c, List(c), NEW score, DOMAIN score = Range(c), NEW p \in Reordered(q, c, score)
  PROVE  List(p) /\ Range(p) = Range(c)
<1>1. Range(c) \subseteq Id
  BY RankIs
<1> QED BY <1>1, SortedKnown DEF Reordered

LEMMA ThinnedKnown ==
  ASSUME NEW q, NEW p, List(p), NEW score, NEW t \in Thinned(q, p, score)
  PROVE  List(t) /\ Range(t) \subseteq Range(p) /\ Len(t) = IF Len(p) <= K THEN Len(p) ELSE K
<1>1. CASE Len(p) <= K
  BY <1>1 DEF Thinned
<1>2. CASE ~(Len(p) <= K)
  <2>1. /\ t \in [1..K -> Range(p)]
        /\ \A n \in 1..K : t[n] \notin Range(SubSeq(t, 1, n - 1))
    BY <1>2 DEF Thinned
  <2>2. Range(p) \subseteq Id
    BY RankIs
  <2>3. t \in Seq(Id) /\ Len(t) = K /\ DOMAIN t = 1..K
    BY <2>1, <2>2
  <2>4. ASSUME NEW i \in 1..K, NEW n \in 1..K, i < n PROVE t[i] # t[n]
    <3> DEFINE taken == SubSeq(t, 1, n - 1)
    <3>1. i \in DOMAIN taken /\ taken[i] = t[i]
      BY <2>3, <2>4
    <3>2. t[i] \in Range(taken)
      BY <3>1 DEF Range
    <3> QED BY <2>1, <3>2
  <2>5. IsInjective(t)
    <3> SUFFICES ASSUME NEW i \in 1..K, NEW n \in 1..K, t[i] = t[n] PROVE i = n
      BY <2>3 DEF IsInjective
    <3>1. ~(i < n) /\ ~(n < i)
      BY <2>4
    <3> QED BY <3>1
  <2>6. Range(t) \subseteq Range(p)
    BY <2>1, <2>3 DEF Range
  <2> QED BY <1>2, <2>3, <2>5, <2>6 DEF List
<1> QED BY <1>1, <1>2

LEMMA LiteralsKnown ==
  ASSUME NEW q, NEW x, NEW l \in Literals(q, x)
  PROVE  List(l) /\ Range(l) \subseteq Indexed(x) /\ Len(l) <= LiteralMax
<1> DEFINE match == {m \in Literal \cap Indexed(x) : q.literal}
<1>1. PICK s \in SetToSeqs(match) : l = Top(s, LiteralMax)
  BY DEF Literals
<1>2. match \in SUBSET Id /\ match \subseteq Indexed(x)
  BY DEF Indexed
<1> HIDE DEF match
<1>3. List(s) /\ Range(s) = match
  BY <1>2, ListedOnce
<1> QED BY <1>1, <1>2, <1>3, TopKnown

\* The literal hits come first, and the others are none of them.
LEMMA RerankedOnce ==
  ASSUME NEW q, NEW l \in Literals(q, index), Rerank(q, l), index' = index
  PROVE  NoneTwice'
<1>1. PICK c \in Candidates(q, index, l) :
        \E p \in Reordered(q, c, Scores(q, c)) : \E t \in Thinned(q, p, Scores(q, c)) :
          /\ pool' = p
          /\ hits' = [n \in DOMAIN l |-> Hit(q, l[n], Unit, "fts", index)]
                      \o [n \in DOMAIN t |-> Hit(q, t[n], Scores(q, c)[t[n]], "cosine", index)]
  BY DEF Rerank
<1> DEFINE score == Scores(q, c)
<1>20. PICK p \in Reordered(q, c, score) : \E t \in Thinned(q, p, score) :
          /\ pool' = p
          /\ hits' = [n \in DOMAIN l |-> Hit(q, l[n], Unit, "fts", index)]
                      \o [n \in DOMAIN t |-> Hit(q, t[n], score[t[n]], "cosine", index)]
  BY <1>1
<1>2. PICK t \in Thinned(q, p, score) :
          /\ pool' = p
          /\ hits' = [n \in DOMAIN l |-> Hit(q, l[n], Unit, "fts", index)]
                      \o [n \in DOMAIN t |-> Hit(q, t[n], score[t[n]], "cosine", index)]
  BY <1>20
<1>3. List(c) /\ Range(c) \subseteq Indexed(index) \ Range(l)
  BY CandidatesKnown
<1>4. DOMAIN score = Range(c)
  BY DEF Scores
<1> HIDE DEF score
<1>5. List(p) /\ Range(p) = Range(c)
  BY <1>3, <1>4, ReorderedKnown
<1>6. List(t) /\ Range(t) \subseteq Range(p) /\ Len(t) = IF Len(p) <= K THEN Len(p) ELSE K
  BY <1>5, ThinnedKnown
<1>7. List(l) /\ Len(l) <= LiteralMax
  BY LiteralsKnown
<1> DEFINE a == Len(l)
           first == [n \in DOMAIN l |-> Hit(q, l[n], Unit, "fts", index)]
           rest == [n \in DOMAIN t |-> Hit(q, t[n], score[t[n]], "cosine", index)]
<1>8. a \in Nat /\ DOMAIN l = 1..a /\ Len(t) \in Nat /\ DOMAIN t = 1..Len(t) /\ Len(p) \in Nat
  BY <1>5, <1>6, <1>7, RankIs
<1>9. first \in Seq(Range(first)) /\ Len(first) = a /\ rest \in Seq(Range(rest)) /\ Len(rest) = Len(t)
  BY <1>8 DEF Range
<1>10. \A n \in 1..a : first[n].id = l[n] /\ first[n].at = index[l[n]] /\ first[n].source = "fts"
  BY <1>8 DEF Hit
<1>11. \A n \in 1..Len(t) : rest[n].id = t[n] /\ rest[n].at = index[t[n]] /\ rest[n].source = "cosine"
  BY <1>8 DEF Hit
<1>12. hits' = first \o rest
  BY <1>2
<1> HIDE DEF first, rest, a
<1>13. /\ DOMAIN hits' = 1..(a + Len(t)) /\ Len(hits') = a + Len(t)
       /\ \A n \in 1..a : hits'[n] = first[n]
       /\ \A n \in 1..(a + Len(t)) : n > a => hits'[n] = rest[n - a] /\ n - a \in 1..Len(t)
  BY <1>8, <1>9, <1>12
<1> DEFINE literal == {n \in DOMAIN hits' : hits'[n].source = "fts"}
           from(n) == IF n <= a THEN l[n] ELSE t[n - a]
<1>14. \A n \in DOMAIN hits' : /\ hits'[n].id = from(n) /\ hits'[n].at = index[from(n)]
                               /\ hits'[n].source = "fts" <=> n <= a
  BY <1>8, <1>10, <1>11, <1>13
<1>15. literal = 1..a
  BY <1>8, <1>13, <1>14
<1>16. \A i, j \in DOMAIN hits' : from(i) = from(j) => i = j
  <2>1. \A n \in 1..Len(t) : t[n] \notin Range(l)
    BY <1>3, <1>5, <1>6, <1>8 DEF Range
  <2>2. \A n \in 1..a : l[n] \in Range(l)
    BY <1>8 DEF Range
  <2> SUFFICES ASSUME NEW i \in DOMAIN hits', NEW j \in DOMAIN hits', from(i) = from(j) PROVE i = j
    OBVIOUS
  <2>3. CASE i <= a /\ j <= a
    BY <1>7, <1>8, <1>13, <2>3 DEF List, IsInjective
  <2>4. CASE i > a /\ j > a
    <3>1. i - a = j - a
      BY <1>6, <1>8, <1>13, <2>4 DEF List, IsInjective
    <3> QED BY <1>8, <1>13, <3>1
  <2>5. CASE (i <= a) # (j <= a)
    BY <1>8, <1>13, <2>1, <2>2, <2>5
  <2> QED BY <1>8, <1>13, <2>3, <2>4, <2>5
<1>17. Cardinality(literal) = a
  <2>1. Cardinality(1..a) = a
    BY <1>8, FS_Interval
  <2> QED BY <1>15, <2>1
<1>18. Len(t) = Min({K, Len(pool')})
  BY <1>2, <1>6, <1>8 DEF Min
<1> HIDE DEF literal, from
<1>19. \A i \in literal, j \in DOMAIN hits' \ literal : i < j
  BY <1>8, <1>13, <1>15
<1>21. \A n \in DOMAIN hits' : hits'[n].at = index'[hits'[n].id]
  BY <1>14
<1>22. \A i, j \in DOMAIN hits' : hits'[i].id = hits'[j].id => i = j
  BY <1>14, <1>16
<1>23. Cardinality(literal) <= LiteralMax /\ Len(hits') = Cardinality(literal) + Min({K, Len(pool')})
  BY <1>7, <1>13, <1>17, <1>18 DEF a
<1> QED BY <1>19, <1>21, <1>22, <1>23 DEF NoneTwice, literal
--------------------------------------------------------------------------------
(***************************************************************************)
(* Quotients.                                                              *)
(***************************************************************************)
LEMMA Quotient ==
  ASSUME NEW a \in Int, NEW d \in Nat \ {0}
  PROVE  a \div d \in Int /\ d * (a \div d) <= a /\ a < d * (a \div d) + d
OBVIOUS

LEMMA QuotientGrows ==
  ASSUME NEW a \in Int, NEW b \in Int, a <= b, NEW d \in Nat \ {0}
  PROVE  a \div d \in Int /\ b \div d \in Int /\ a \div d <= b \div d
<1>1. PICK x \in Int : x = a \div d /\ d * x <= a
  BY Quotient
<1>2. PICK y \in Int : y = b \div d /\ b < d * y + d
  BY Quotient
<1>3. d * x < d * (y + 1)
  BY <1>1, <1>2
<1>4. x < y + 1
  <2>1. ASSUME x >= y + 1 PROVE FALSE
    <3>1. d * x >= d * (y + 1)
      BY <2>1
    <3> QED BY <1>3, <3>1
  <2> QED BY <2>1
<1> QED BY <1>1, <1>2, <1>4

LEMMA Product ==
  ASSUME NEW a \in Nat, NEW b \in Nat, a <= b, NEW x \in Nat, NEW y \in Nat, x <= y
  PROVE  a * x \in Nat /\ b * y \in Nat /\ a * x <= b * y
<1>1. a * x <= b * x
  OBVIOUS
<1>2. b * x <= b * y
  OBVIOUS
<1>3. a * x \in Nat /\ b * x \in Nat /\ b * y \in Nat
  OBVIOUS
<1> QED BY <1>1, <1>2, <1>3

\* A better rank has a greater share, by the precision of the scale.
LEMMA SharesDiffer ==
  ASSUME NEW r \in Nat, NEW s \in Nat, r < s, s <= Cardinality(Id) + 1
  PROVE  Scale \div (60 + r) > Scale \div (60 + s)
<1> DEFINE N == 61 + Cardinality(Id)
           a == 60 + r
           b == 60 + s
<1>1. N \in Nat /\ a \in Nat \ {0} /\ b \in Nat \ {0} /\ a + 1 <= b /\ b <= N
  BY FS_CardinalityType
<1>2. Scale \in Nat /\ Scale >= N * N
  BY ScaleAssumption
<1> HIDE DEF N, a, b
<1>3. PICK x \in Int : x = Scale \div a /\ Scale < a * x + a
  BY <1>1, <1>2, Quotient
<1>4. PICK y \in Int : y = Scale \div b /\ b * y <= Scale /\ Scale < b * y + b
  BY <1>1, <1>2, Quotient
<1>5. b * b <= N * N
  BY <1>1, Product
<1>6. b * b < b * (y + 1)
  BY <1>1, <1>2, <1>4, <1>5
<1>7. y + 1 > b
  <2>1. ASSUME y + 1 <= b PROVE FALSE
    <3>1. b * (y + 1) <= b * b
      BY <1>1, <2>1
    <3> QED BY <1>1, <1>6, <3>1
  <2> QED BY <1>1, <2>1
<1>8. (a + 1) * y <= b * y
  BY <1>1, <1>7, Product
<1>9. a * y + a <= Scale
  BY <1>1, <1>2, <1>4, <1>7, <1>8
<1>10. a * (y + 1) < a * (x + 1)
  BY <1>1, <1>2, <1>3, <1>9
<1>11. y < x
  <2>1. ASSUME y >= x PROVE FALSE
    <3>1. a * (y + 1) >= a * (x + 1)
      BY <1>1, <2>1
    <3> QED BY <1>1, <1>10, <3>1
  <2> QED BY <2>1
<1> QED BY <1>3, <1>4, <1>11 DEF a, b
--------------------------------------------------------------------------------
(***************************************************************************)
(* The ends of a set of numbers.                                           *)
(***************************************************************************)
LEMMA LeastIs ==
  ASSUME NEW T \in SUBSET Nat, T # {}
  PROVE  Min(T) \in T /\ \A n \in T : Min(T) <= n
<1> DEFINE R == OpToRel(<, Nat)
<1>1. \A x, y \in Nat : y < x => <<y, x>> \in R
  BY DEF OpToRel
<1>2. IsWellFoundedOn(R, Nat)
  BY NatLessThanWellFounded
<1> HIDE DEF R
<1>3. PICK m \in T : \A k \in T : ~(<<k, m>> \in R)
  BY <1>2, WFMin
<1>4. \A k \in T : k \in Nat /\ m \in Nat /\ ~(k < m)
  BY <1>1, <1>3, Zenon
<1>5. \E k \in T : \A n \in T : k <= n
  BY <1>4
<1> QED BY <1>5 DEF Min

\* A set of numbers that has a bound has a greatest member: the bounds have a least one.
LEMMA GreatestIs ==
  ASSUME NEW T \in SUBSET Nat, T # {}, NEW bound \in Nat, \A n \in T : n <= bound
  PROVE  Max(T) \in T /\ \A n \in T : Max(T) >= n
<1> DEFINE above == {b \in Nat : \A n \in T : n <= b}
           b == Min(above)
<1>1. above \in SUBSET Nat /\ bound \in above
  OBVIOUS
<1>5. b \in above /\ \A k \in above : b <= k
  BY <1>1, LeastIs
<1>2. b \in Nat /\ (\A n \in T : n <= b) /\ \A k \in above : b <= k
  BY <1>5
<1> HIDE DEF b
<1>3. b \in T
  <2> SUFFICES ASSUME b \notin T PROVE FALSE
    OBVIOUS
  <2>1. \A n \in T : n \in Nat /\ n < b
    BY <1>2
  <2>5. PICK n \in T : TRUE
    OBVIOUS
  <2>6. b - 1 \in Nat
    BY <1>2, <2>1, <2>5
  <2>2. b - 1 \in Nat /\ \A k \in T : k <= b - 1
    BY <1>2, <2>1, <2>6
  <2>3. b - 1 \in above
    BY <2>2
  <2>4. b <= b - 1
    BY <1>2, <2>3
  <2> QED BY <1>2, <2>4
<1>4. \E k \in T : \A n \in T : k >= n
  BY <1>2, <1>3
<1> QED BY <1>4 DEF Max
--------------------------------------------------------------------------------
(***************************************************************************)
(* The better memory comes first.                                          *)
(***************************************************************************)
Share(o, m) == Scale \div (60 + Rank(o, m))

LEMMA ShareType ==
  ASSUME NEW o, List(o), NEW m
  PROVE  Rank(o, m) \in 1..(Cardinality(Id) + 1) /\ Share(o, m) \in 0..Scale
<1>1. Len(o) \in Nat /\ Len(o) <= Cardinality(Id) /\ Cardinality(Id) \in Nat
  BY ListBound
<1>2. Rank(o, m) \in 1..(Cardinality(Id) + 1)
  BY <1>1, RankIs
<1> DEFINE d == 60 + Rank(o, m)
<1>3. d \in Nat \ {0} /\ Scale \in Nat
  BY <1>1, <1>2, ScaleAssumption
<1> HIDE DEF d
<1>4. PICK x \in Int : x = Scale \div d /\ d * x <= Scale /\ Scale < d * x + d
  BY <1>3, Quotient
<1>5. x >= 0
  <2>1. ASSUME x <= -1 PROVE FALSE
    <3>1. d * (x + 1) <= 0
      BY <1>3, <2>1
    <3> QED BY <1>3, <1>4, <3>1
  <2> QED BY <2>1
<1>6. x <= Scale
  <2>1. 1 * x <= d * x
    BY <1>3, <1>5, Product
  <2> QED BY <1>3, <1>4, <2>1
<1> QED BY <1>2, <1>3, <1>4, <1>5, <1>6 DEF Share, d

\* A channel that prefers m gives it the greater share; one that knows neither tells no difference.
LEMMA ShareOrder ==
  ASSUME NEW o, List(o), NEW m, NEW n
  PROVE  /\ (\E i \in DOMAIN o : o[i] = m /\ n \notin Range(SubSeq(o, 1, i))) => Share(o, m) > Share(o, n)
         /\ {m, n} \cap Range(o) = {} => Share(o, m) = Share(o, n)
<1>1. ASSUME NEW i \in DOMAIN o, o[i] = m, n \notin Range(SubSeq(o, 1, i))
      PROVE  Share(o, m) > Share(o, n)
  <2>1. Len(o) \in Nat /\ DOMAIN o = 1..Len(o) /\ Rank(o, m) = i
    BY <1>1, RankIs
  <2>2. Rank(o, n) > i
    <3>1. CASE n \in Range(o)
      <4>1. Rank(o, n) \in 1..Len(o) /\ o[Rank(o, n)] = n
        BY <3>1, RankIs
      <4>2. \A k \in 1..i : o[k] \in Range(SubSeq(o, 1, i))
        <5>1. DOMAIN SubSeq(o, 1, i) = 1..i /\ \A k \in 1..i : SubSeq(o, 1, i)[k] = o[k]
          BY <1>1, <2>1 DEF List
        <5> QED BY <5>1 DEF Range
      <4> QED BY <1>1, <2>1, <4>1, <4>2
    <3>2. CASE n \notin Range(o)
      BY <1>1, <2>1, <3>2, RankIs
    <3> QED BY <3>1, <3>2
  <2>3. Rank(o, m) \in Nat /\ Rank(o, n) \in Nat /\ Rank(o, n) <= Cardinality(Id) + 1
    BY ShareType, FS_CardinalityType
  <2> QED BY <2>1, <2>2, <2>3, SharesDiffer DEF Share
<1>2. ASSUME {m, n} \cap Range(o) = {} PROVE Share(o, m) = Share(o, n)
  BY <1>2, RankIs DEF Share
<1> QED BY <1>1, <1>2

LEMMA FusedType ==
  ASSUME NEW q, QueryOK(q), NEW m
  PROVE  Fused(q, m) \in 0..(3 * Scale) /\ Scale \in Nat
<1>1. Share(q.cosine, m) \in 0..Scale /\ Share(q.words, m) \in 0..Scale /\ Share(q.fts, m) \in 0..Scale
  BY ShareType DEF QueryOK
<1>2. Fused(q, m) = Share(q.cosine, m) + Share(q.words, m) + (IF q.fts = <<>> THEN 0 ELSE Share(q.fts, m))
  BY DEF Fused, Share
<1> QED BY <1>1, <1>2, ScaleAssumption

\* Whom every channel that knows one of the two prefers, the fusion prefers.
LEMMA FusedOrder ==
  ASSUME NEW q, QueryOK(q), NEW m, NEW n, Ahead(q, m, n)
  PROVE  Fused(q, m) > Fused(q, n) /\ m \in Range(q.cosine) \cup Range(q.words) \cup Range(q.fts)
<1> DEFINE before(o) == \E i \in DOMAIN o : o[i] = m /\ n \notin Range(SubSeq(o, 1, i))
           known(o) == {m, n} \cap Range(o) # {}
<1>1. /\ \A o \in {q.cosine, q.words, q.fts} : known(o) => before(o)
      /\ \E o \in {q.cosine, q.words, q.fts} : known(o)
  BY DEF Ahead
<1>2. \A o \in {q.cosine, q.words, q.fts} :
        /\ Share(o, m) \in 0..Scale /\ Share(o, n) \in 0..Scale
        /\ known(o) => Share(o, m) > Share(o, n) /\ m \in Range(o)
        /\ ~known(o) => Share(o, m) = Share(o, n)
  <2> SUFFICES ASSUME NEW o \in {q.cosine, q.words, q.fts}
               PROVE  /\ Share(o, m) \in 0..Scale /\ Share(o, n) \in 0..Scale
                      /\ known(o) => Share(o, m) > Share(o, n) /\ m \in Range(o)
                      /\ ~known(o) => Share(o, m) = Share(o, n)
    OBVIOUS
  <2>1. List(o)
    BY DEF QueryOK
  <2>2. before(o) => m \in Range(o)
    BY DEF Range
  <2>3. (before(o) => Share(o, m) > Share(o, n)) /\ (~known(o) => Share(o, m) = Share(o, n))
    BY <2>1, ShareOrder
  <2>4. Share(o, m) \in 0..Scale /\ Share(o, n) \in 0..Scale
    BY <2>1, ShareType
  <2> HIDE DEF before, known
  <2> QED BY <1>1, <2>2, <2>3, <2>4
<1>3. q.fts = <<>> => ~known(q.fts)
  <2> SUFFICES ASSUME q.fts = <<>> PROVE ~known(q.fts)
    OBVIOUS
  <2>1. DOMAIN q.fts = {}
    OBVIOUS
  <2> QED BY <2>1 DEF Range
<1> HIDE DEF before, known
<1>4. \A k \in {m, n} : Fused(q, k) =
        Share(q.cosine, k) + Share(q.words, k) + (IF q.fts = <<>> THEN 0 ELSE Share(q.fts, k))
  BY DEF Fused, Share
<1>5. m \in Range(q.cosine) \cup Range(q.words) \cup Range(q.fts)
  BY <1>1, <1>2
<1>6. Fused(q, m) > Fused(q, n)
  BY <1>1, <1>2, <1>3, <1>4, ScaleAssumption
<1> QED BY <1>5, <1>6
\* The stretched scores are whole numbers and keep the order.
LEMMA NormalisedOrder ==
  ASSUME NEW S, NEW f \in [S -> 0..(3 * Scale)]
  PROVE  /\ Normalised(f) \in [S -> Nat]
         /\ \A m, n \in S : f[m] >= f[n] => Normalised(f)[m] >= Normalised(f)[n]
<1> DEFINE low == Min(Range(f))
           high == Max(Range(f))
           value(m) == IF high > low THEN ((f[m] - low) * One) \div (high - low) ELSE One
           g == [m \in S |-> value(m)]
<1>1. Normalised(f) = g
  BY DEF Normalised
<1>2. ASSUME NEW m \in S, NEW n \in S, f[m] >= f[n]
      PROVE  value(m) \in Nat /\ value(n) \in Nat /\ value(m) >= value(n)
  <2>1. Scale \in Nat /\ One \in Nat
    BY ScaleAssumption DEF One
  <2>9. PICK bound \in Nat : bound = 3 * Scale
    BY <2>1
  <2>2. Range(f) \in SUBSET Nat /\ Range(f) # {} /\ \A k \in Range(f) : k <= bound
    BY <1>2, <2>1, <2>9 DEF Range
  <2>3. low \in Range(f) /\ \A k \in Range(f) : low <= k
    BY <2>2, LeastIs
  <2>4. high \in Range(f) /\ \A k \in Range(f) : high >= k
    BY <2>2, GreatestIs
  <2>5. f[m] \in Range(f) /\ f[n] \in Range(f)
    BY <1>2 DEF Range
  <2>6. low \in Nat /\ high \in Nat /\ f[m] \in Nat /\ f[n] \in Nat /\ low <= f[n]
    BY <2>2, <2>3, <2>4, <2>5
  <2> HIDE DEF low, high
  <2>7. CASE high > low
    <3> DEFINE d == high - low
               x == f[n] - low
               y == f[m] - low
    <3>1. d \in Nat \ {0} /\ x \in Nat /\ y \in Nat /\ x <= y
      BY <1>2, <2>6, <2>7
    <3> HIDE DEF d, x, y
    <3>2. x * One \in Nat /\ y * One \in Nat /\ x * One <= y * One
      BY <2>1, <3>1, Product
    <3>3. 0 \div d = 0
      BY <3>1
    <3>4. /\ 0 \div d <= (x * One) \div d /\ (x * One) \div d \in Int
          /\ (x * One) \div d <= (y * One) \div d /\ (y * One) \div d \in Int
      BY <3>1, <3>2, QuotientGrows
    <3>5. value(m) = (y * One) \div d /\ value(n) = (x * One) \div d
      BY <2>7 DEF d, x, y
    <3> HIDE DEF value
    <3> QED BY <3>3, <3>4, <3>5
  <2>8. CASE ~(high > low)
    BY <2>1, <2>8
  <2> QED BY <2>7, <2>8
<1> HIDE DEF value
<1>3. g \in [S -> Nat]
  <2>1. \A m \in S : f[m] >= f[m]
    BY ScaleAssumption
  <2> QED BY <1>2, <2>1
<1> QED BY <1>1, <1>2, <1>3

\* What is known of a memory only adds to its score.
LEMMA BonusType ==
  ASSUME NEW q, NEW c, NEW m \in Id
  PROVE  Bonus(q, c, m) \in Nat
<1>1. Usage[m] \in 0..100 /\ Importance[m] \in 1..5
  BY MemoryAssumption
<1>2. (3 * Usage[m]) \div 2 \in Nat
  BY <1>1
<1> QED BY <1>1, <1>2 DEF Bonus

\* Against m nothing speaks that is known of n.
LEMMA BonusOrder ==
  ASSUME NEW q, NEW c, NEW m \in Id, NEW n \in Id,
         Usage[m] >= Usage[n], Importance[m] >= Importance[n],
         q.scope = Of[n] => q.scope = Of[m], Linked(c, n) => Linked(c, m)
  PROVE  Bonus(q, c, m) >= Bonus(q, c, n)
<1>1. /\ Usage[m] \in 0..100 /\ Importance[m] \in 1..5
      /\ Usage[n] \in 0..100 /\ Importance[n] \in 1..5
  BY MemoryAssumption
<1>2. PICK x \in Int : x = (3 * Usage[m]) \div 2
  BY <1>1
<1>3. PICK y \in Int : y = (3 * Usage[n]) \div 2
  BY <1>1
<1>4. x >= y
  BY <1>1, <1>2, <1>3
<1> DEFINE scope(k) == IF q.scope = Of[k] THEN 100 ELSE 0
           link(k) == IF Linked(c, k) THEN 100 ELSE 0
<1>5. scope(m) \in Nat /\ scope(n) \in Nat /\ scope(m) >= scope(n)
  OBVIOUS
<1>6. link(m) \in Nat /\ link(n) \in Nat /\ link(m) >= link(n)
  OBVIOUS
<1>7. /\ Bonus(q, c, m) = 1000 + x + scope(m) + link(m) + 20 * Importance[m]
      /\ Bonus(q, c, n) = 1000 + y + scope(n) + link(n) + 20 * Importance[n]
  BY <1>2, <1>3 DEF Bonus
<1> HIDE DEF scope, link
<1> QED BY <1>1, <1>4, <1>5, <1>6, <1>7

LEMMA ScoresType ==
  ASSUME NEW q, QueryOK(q), NEW c, List(c)
  PROVE  Scores(q, c) \in [Range(c) -> Nat]
<1> DEFINE f == [m \in Range(c) |-> Fused(q, m)]
<1>1. f \in [Range(c) -> 0..(3 * Scale)]
  BY FusedType
<1> HIDE DEF f
<1>2. Normalised(f) \in [Range(c) -> Nat]
  BY <1>1, NormalisedOrder
<1> DEFINE base == Normalised(f)
           value(m) == base[m] * Bonus(q, c, m) * (IF q.temporal /\ m \in InWindow THEN 24 ELSE 20)
<1>3. Scores(q, c) = [m \in Range(c) |-> value(m)]
  BY DEF Scores, f
<1>4. ASSUME NEW m \in Range(c) PROVE value(m) \in Nat
  <2>1. base[m] \in Nat /\ Bonus(q, c, m) \in Nat
    BY <1>2, BonusType, RankIs
  <2> HIDE DEF base
  <2>2. base[m] * Bonus(q, c, m) \in Nat
    BY <2>1, Product
  <2> QED BY <2>2
<1> HIDE DEF value
<1> QED BY <1>3, <1>4

LEMMA ScoresOrder ==
  ASSUME NEW q, QueryOK(q), NEW c, List(c), NEW m \in Range(c), NEW n \in Range(c),
         Fused(q, m) >= Fused(q, n),
         Usage[m] >= Usage[n], Importance[m] >= Importance[n],
         q.scope = Of[n] => q.scope = Of[m], Linked(c, n) => Linked(c, m),
         n \in InWindow => m \in InWindow
  PROVE  Scores(q, c)[m] >= Scores(q, c)[n]
<1> DEFINE f == [k \in Range(c) |-> Fused(q, k)]
           base == Normalised(f)
           window(k) == IF q.temporal /\ k \in InWindow THEN 24 ELSE 20
           value(k) == base[k] * Bonus(q, c, k) * window(k)
<1>1. f \in [Range(c) -> 0..(3 * Scale)] /\ f[m] >= f[n]
  BY FusedType
<1>2. Scores(q, c) = [k \in Range(c) |-> value(k)]
  BY DEF Scores
<1> HIDE DEF f
<1>3. base[m] \in Nat /\ base[n] \in Nat /\ base[n] <= base[m]
  BY <1>1, NormalisedOrder
<1> HIDE DEF base
<1>4. m \in Id /\ n \in Id
  BY RankIs
<1>5. Bonus(q, c, m) \in Nat /\ Bonus(q, c, n) \in Nat /\ Bonus(q, c, n) <= Bonus(q, c, m)
  BY <1>4, BonusType, BonusOrder
<1>6. window(m) \in Nat /\ window(n) \in Nat /\ window(n) <= window(m)
  OBVIOUS
<1> HIDE DEF window
<1>7. /\ base[m] * Bonus(q, c, m) \in Nat /\ base[n] * Bonus(q, c, n) \in Nat
      /\ base[n] * Bonus(q, c, n) <= base[m] * Bonus(q, c, m)
  BY <1>3, <1>5, Product
<1>8. value(m) \in Nat /\ value(n) \in Nat /\ value(n) <= value(m)
  BY <1>6, <1>7, Product
<1> HIDE DEF value
<1> QED BY <1>2, <1>8
\* Among the candidates and in the order the thinning gets them, m is before n when every channel
\* prefers it and no signal speaks against it.
LEMMA RerankedBetter ==
  ASSUME NEW q, QueryOK(q), NEW l \in Literals(q, index), Rerank(q, l),
         index' = index, query' = q, index \in Entry
  PROVE  BetterFirst'
<1>1. PICK c \in Candidates(q, index, l) :
        \E p \in Reordered(q, c, Scores(q, c)) : \E t \in Thinned(q, p, Scores(q, c)) :
          /\ pool' = p
          /\ hits' = [n \in DOMAIN l |-> Hit(q, l[n], Unit, "fts", index)]
                      \o [n \in DOMAIN t |-> Hit(q, t[n], Scores(q, c)[t[n]], "cosine", index)]
  BY DEF Rerank
<1> DEFINE score == Scores(q, c)
<1>2. PICK p \in Reordered(q, c, score) : \E t \in Thinned(q, p, score) :
          /\ pool' = p
          /\ hits' = [n \in DOMAIN l |-> Hit(q, l[n], Unit, "fts", index)]
                      \o [n \in DOMAIN t |-> Hit(q, t[n], score[t[n]], "cosine", index)]
  BY <1>1
<1>3. List(c) /\ Range(c) \subseteq Indexed(index) \ Range(l)
  BY CandidatesKnown
<1>4. score \in [Range(c) -> Nat]
  BY <1>3, ScoresType
<1>5. List(p) /\ Range(p) = Range(c) /\ pool' = p
  BY <1>2, <1>3, <1>4, ReorderedKnown
\* The literal hits are hits.
<1>6. \A m \in Range(l) : \E a \in DOMAIN hits' : hits'[a].source = "fts" /\ hits'[a].id = m
  <2>1. PICK t \in Thinned(q, p, score) :
          hits' = [n \in DOMAIN l |-> Hit(q, l[n], Unit, "fts", index)]
                      \o [n \in DOMAIN t |-> Hit(q, t[n], score[t[n]], "cosine", index)]
    BY <1>2
  <2> DEFINE first == [n \in DOMAIN l |-> Hit(q, l[n], Unit, "fts", index)]
             rest == [n \in DOMAIN t |-> Hit(q, t[n], score[t[n]], "cosine", index)]
  <2>2. List(l) /\ List(t)
    BY <1>5, LiteralsKnown, ThinnedKnown
  <2>3. DOMAIN l = 1..Len(l) /\ Len(l) \in Nat /\ DOMAIN t = 1..Len(t) /\ Len(t) \in Nat
    BY <2>2, RankIs
  <2>4. first \in Seq(Range(first)) /\ Len(first) = Len(l) /\ rest \in Seq(Range(rest)) /\ Len(rest) = Len(t)
    BY <2>3 DEF Range
  <2>5. \A n \in DOMAIN l : first[n].source = "fts" /\ first[n].id = l[n]
    BY DEF Hit
  <2> HIDE DEF first, rest
  <2>6. \A n \in DOMAIN l : n \in DOMAIN (first \o rest) /\ (first \o rest)[n] = first[n]
    BY <2>3, <2>4
  <2>7. hits' = first \o rest
    BY <2>1 DEF first, rest
  <2> QED BY <2>5, <2>6, <2>7 DEF Range
\* The candidates are the first of those ranked, in the fused order.
<1> DEFINE ranked == Range(q.cosine) \cup Range(q.words) \cup Range(q.fts)
           new == ranked \cap (Indexed(index) \ Range(l))
           fused == [m \in new |-> Fused(q, m)]
<1>7. PICK s \in Sorted(fused) : c = Top(s, PoolSize)
  BY DEF Candidates
<1>8. DOMAIN fused = new /\ new \subseteq Id /\ \A m \in new : fused[m] = Fused(q, m)
  BY DEF Indexed
<1> HIDE DEF fused
<1>9. List(s) /\ Range(s) = new /\ \A i, j \in DOMAIN s : i < j => fused[s[i]] >= fused[s[j]]
  BY <1>8, SortedKnown
<1>10. /\ DOMAIN c = {i \in DOMAIN s : i <= PoolSize} /\ \A i \in DOMAIN c : c[i] = s[i]
       /\ Range(c) \subseteq new
  <2>1. /\ Range(c) \subseteq Range(s) /\ DOMAIN c = {i \in DOMAIN s : i <= PoolSize}
        /\ \A i \in DOMAIN c : c[i] = s[i]
    <3> HIDE DEF new
    <3>1. List(s) /\ PoolSize \in Nat
      BY <1>9
    <3>2. /\ Range(Top(s, PoolSize)) \subseteq Range(s)
          /\ DOMAIN Top(s, PoolSize) = {i \in DOMAIN s : i <= PoolSize}
          /\ \A i \in DOMAIN Top(s, PoolSize) : Top(s, PoolSize)[i] = s[i]
      BY ONLY <3>1, TopKnown
    <3> QED BY <1>7, <3>2
  <2> QED BY <1>9, <2>1
<1> SUFFICES ASSUME NEW m \in Indexed(index), NEW n \in Range(p), Ahead(q, m, n),
                    \A a \in DOMAIN hits' : hits'[a].source = "fts" => hits'[a].id # m
             PROVE  /\ m \in Range(p)
                    /\ \/ ~q.temporal
                       \/ /\ Usage[m] >= Usage[n] /\ Importance[m] >= Importance[n]
                          /\ q.scope = Of[n] => q.scope = Of[m]
                          /\ n \in InWindow => m \in InWindow
                          /\ Links(n) \cap Range(p) \subseteq Links(m)
                       => Rank(p, m) < Rank(p, n)
  BY <1>5 DEF BetterFirst, Indexed
<1>11. Fused(q, m) > Fused(q, n) /\ Fused(q, m) \in Nat /\ Fused(q, n) \in Nat /\ m \in ranked
  <2>1. Fused(q, m) \in 0..(3 * Scale) /\ Fused(q, n) \in 0..(3 * Scale)
    BY FusedType
  <2> QED BY <2>1, FusedOrder
<1>12. m \in new
  BY <1>6, <1>11
<1>13. m \in Range(c) /\ Rank(c, m) < Rank(c, n) /\ n \in Range(c)
  <2>1. PICK i \in DOMAIN c : c[i] = n
    BY <1>5 DEF Range
  <2>2. PICK j \in DOMAIN s : s[j] = m
    BY <1>9, <1>12 DEF Range
  <2>3. DOMAIN s = 1..Len(s) /\ Len(s) \in Nat /\ i \in DOMAIN s /\ s[i] = n /\ i <= PoolSize
    BY <1>9, <1>10, <2>1, RankIs
  <2>4. fused[s[j]] > fused[s[i]] /\ fused[s[j]] \in Nat /\ fused[s[i]] \in Nat
    BY <1>5, <1>8, <1>10, <1>11, <1>12, <2>2, <2>3
  <2>5. j < i
    <3>1. ~(i < j)
      BY <1>9, <2>2, <2>3, <2>4
    <3>2. i # j
      BY <2>4
    <3> QED BY <2>2, <2>3, <3>1, <3>2
  <2>6. j \in DOMAIN c /\ c[j] = m
    BY <1>10, <2>2, <2>3, <2>5
  <2>7. Rank(c, m) = j /\ Rank(c, n) = i
    BY <1>3, <2>1, <2>6, RankIs
  <2> QED BY <1>5, <2>5, <2>6, <2>7 DEF Range
<1>14. m \in Range(p)
  BY <1>5, <1>13
<1>15. CASE ~q.temporal
  <2>1. p = c
    BY <1>2, <1>15 DEF Reordered
  <2> QED BY <1>13, <1>14, <2>1
<1>16. CASE q.temporal
  <2> SUFFICES ASSUME Usage[m] >= Usage[n], Importance[m] >= Importance[n],
                      q.scope = Of[n] => q.scope = Of[m], n \in InWindow => m \in InWindow,
                      Links(n) \cap Range(p) \subseteq Links(m)
               PROVE  Rank(p, m) < Rank(p, n)
    BY <1>14, <1>16
  <2>1. Linked(c, n) => Linked(c, m)
    BY <1>3, <1>5, TopKnown DEF Linked
  <2>2. score[m] >= score[n] /\ score[m] \in Nat /\ score[n] \in Nat
    BY <1>3, <1>4, <1>11, <1>13, <2>1, ScoresOrder
  <2> HIDE DEF score
  <2>3. p \in Sorted(score) /\ DOMAIN score = Range(c) /\ Range(c) \subseteq Id
    BY <1>2, <1>3, <1>4, <1>16, RankIs DEF Reordered
  <2>4. \A i, j \in DOMAIN p : i < j => score[p[i]] >= score[p[j]]
    BY <2>3, SortedKnown
  <2>5. \A i, j \in DOMAIN p : i < j /\ score[p[i]] = score[p[j]] => Rank(c, p[i]) < Rank(c, p[j])
    BY <1>2, <1>16 DEF Reordered
  <2> DEFINE a == Rank(p, m)
             b == Rank(p, n)
  <2>6. a \in DOMAIN p /\ b \in DOMAIN p /\ p[a] = m /\ p[b] = n /\ a \in Nat /\ b \in Nat
    BY <1>5, <1>14, RankIs
  <2> HIDE DEF a, b
  <2>7. a # b
    <3>1. m # n
      BY <1>11
    <3> QED BY <2>6, <3>1
  <2>8. Rank(c, m) \in Nat /\ Rank(c, n) \in Nat
    BY <1>3, <1>13, RankIs
  <2>9. ~(b < a)
    <3> SUFFICES ASSUME b < a PROVE FALSE
      OBVIOUS
    <3>1. score[m] = score[n]
      BY <2>2, <2>4, <2>6
    <3> QED BY <1>13, <2>5, <2>6, <2>8, <3>1
  <2>10. a < b
    BY <2>6, <2>7, <2>9
  <2> QED BY <2>10 DEF a, b
<1> QED BY <1>15, <1>16
--------------------------------------------------------------------------------
(***************************************************************************)
(* The answer, along the steps of a call.                                  *)
(***************************************************************************)
HitType == [id : Id, at : Time, score : Nat, source : {"fts", "cosine"}]

\* Before a call has answered there is no answer; what there is is well-typed.
Answering ==
  /\ Times
  /\ corpus = None \/ corpus \in [key : Keys, of : SUBSET Id]
  /\ query \in Query /\ pool \in Seq(Id) /\ hits \in Seq(HitType)
  /\ seen \subseteq Id \X Time
  /\ step # "answered" => hits = <<>> /\ pool = <<>>
  /\ NoneTwice /\ BetterFirst

\* What an answer holds is of the index, and scored.
LEMMA RerankedType ==
  ASSUME NEW q, QueryOK(q), NEW l \in Literals(q, index), Rerank(q, l), index \in Entry
  PROVE  pool' \in Seq(Id) /\ hits' \in Seq(HitType)
<1>1. PICK c \in Candidates(q, index, l) :
        \E p \in Reordered(q, c, Scores(q, c)) : \E t \in Thinned(q, p, Scores(q, c)) :
          /\ pool' = p
          /\ hits' = [n \in DOMAIN l |-> Hit(q, l[n], Unit, "fts", index)]
                      \o [n \in DOMAIN t |-> Hit(q, t[n], Scores(q, c)[t[n]], "cosine", index)]
  BY DEF Rerank
<1> DEFINE score == Scores(q, c)
<1>2. PICK p \in Reordered(q, c, score) : \E t \in Thinned(q, p, score) :
          /\ pool' = p
          /\ hits' = [n \in DOMAIN l |-> Hit(q, l[n], Unit, "fts", index)]
                      \o [n \in DOMAIN t |-> Hit(q, t[n], score[t[n]], "cosine", index)]
  BY <1>1
<1>3. PICK t \in Thinned(q, p, score) :
          hits' = [n \in DOMAIN l |-> Hit(q, l[n], Unit, "fts", index)]
                      \o [n \in DOMAIN t |-> Hit(q, t[n], score[t[n]], "cosine", index)]
  BY <1>2
<1>4. List(c) /\ Range(c) \subseteq Indexed(index) \ Range(l)
  BY CandidatesKnown
<1>5. score \in [Range(c) -> Nat]
  BY <1>4, ScoresType
<1> HIDE DEF score
<1>6. List(p) /\ Range(p) = Range(c) /\ pool' = p
  BY <1>2, <1>4, <1>5, ReorderedKnown
<1>7. List(t) /\ Range(t) \subseteq Range(c) /\ List(l) /\ Range(l) \subseteq Indexed(index)
  BY <1>6, ThinnedKnown, LiteralsKnown
<1>8. \A m \in Indexed(index), n \in Nat, source \in {"fts", "cosine"} : Hit(q, m, n, source, index) \in HitType
  <2> SUFFICES ASSUME NEW m \in Indexed(index), NEW n \in Nat, NEW source \in {"fts", "cosine"}
               PROVE  Hit(q, m, n, source, index) \in HitType
    OBVIOUS
  <2>1. m \in Id /\ index[m] \in Time
    BY DEF Indexed, Entry
  <2>2. Reported(q, m, n) \in Nat
    <3>1. n \div 20 \in Nat
      OBVIOUS
    <3> QED BY <3>1 DEF Reported
  <2> QED BY <2>1, <2>2 DEF Hit, HitType
<1> DEFINE first == [n \in DOMAIN l |-> Hit(q, l[n], Unit, "fts", index)]
           rest == [n \in DOMAIN t |-> Hit(q, t[n], score[t[n]], "cosine", index)]
<1>9. DOMAIN l = 1..Len(l) /\ Len(l) \in Nat /\ DOMAIN t = 1..Len(t) /\ Len(t) \in Nat
  BY <1>7, RankIs
<1>10. \A n \in DOMAIN l : Hit(q, l[n], Unit, "fts", index) \in HitType
  <2>1. Unit \in Nat
    BY DEF Unit, One
  <2>2. \A n \in DOMAIN l : l[n] \in Indexed(index)
    BY <1>7 DEF Range
  <2> QED BY <1>8, <2>1, <2>2
<1>11. \A n \in DOMAIN t : Hit(q, t[n], score[t[n]], "cosine", index) \in HitType
  <2>1. \A n \in DOMAIN t : t[n] \in Range(c) /\ t[n] \in Indexed(index) /\ score[t[n]] \in Nat
    BY <1>4, <1>5, <1>7 DEF Range
  <2> QED BY <1>8, <2>1
<1>12. first \in Seq(HitType) /\ rest \in Seq(HitType)
  BY <1>9, <1>10, <1>11
<1>13. hits' = first \o rest
  BY <1>3
<1> HIDE DEF first, rest
<1>14. hits' \in Seq(HitType)
  BY <1>12, <1>13
<1> QED BY <1>6, <1>14 DEF List

\* What a query is answered with are lists of memories.
LEMMA AskedKnown ==
  ASSUME Answering, NEW o \in Order, NEW w \in Whole, NEW f \in Order, NEW modelled \in BOOLEAN,
         NEW ask \in Asked, Answer(o, w, f, modelled, ask)
  PROVE  /\ QueryOK(query') /\ \E l \in Literals(query', index) : Rerank(query', l)
         /\ corpus' \in [key : Keys, of : SUBSET Id]
<1>2. PICK cosine \in IF modelled THEN Within(o, Indexed(index)) ELSE {<<>>},
           words \in Within(w, Keywords.of), fts \in Within(f, Indexed(index)) :
            LET q == [vectors |-> Range(o), cosine |-> cosine, words |-> words, fts |-> fts,
                      literal |-> ask.literal, temporal |-> ask.temporal,
                      scope |-> ask.scope, paths |-> ask.paths]
            IN  query' = q /\ \E l \in Literals(q, index) : Rerank(q, l)
  BY DEF Answer
<1>3. /\ query' = [vectors |-> Range(o), cosine |-> cosine, words |-> words, fts |-> fts,
                   literal |-> ask.literal, temporal |-> ask.temporal,
                   scope |-> ask.scope, paths |-> ask.paths]
      /\ \E l \in Literals(query', index) : Rerank(query', l)
  BY <1>2
<1>4. List(o) /\ List(f) /\ List(w) /\ Range(o) \subseteq Id
  <2>1. List(o) /\ List(f) /\ List(w)
    BY OrderAssumption DEF Whole, List
  <2> QED BY <2>1, RankIs
<1>5. List(<<>>)
  BY DEF List, IsInjective
<1>6. List(cosine) /\ List(words) /\ List(fts)
  BY <1>4, <1>5, WithinKnown
<1>7. ask \in [literal : BOOLEAN, temporal : BOOLEAN, scope : Project \cup {None}, paths : BOOLEAN]
  BY AskedAssumption
<1>8. QueryOK(query')
  <2>1. /\ query'.cosine = cosine /\ query'.words = words /\ query'.fts = fts
    BY <1>3
  <2>2. query' \in Query
    BY <1>3, <1>4, <1>6, <1>7 DEF Query, List
  <2> QED BY <1>6, <2>1, <2>2 DEF QueryOK
<1>9. corpus' \in [key : Keys, of : SUBSET Id]
  BY DEF Answer, Keywords, Answering, Times, Indexed
<1> QED BY <1>3, <1>8, <1>9

\* Where nothing is answered, nothing is answered twice or out of order.
LEMMA Nothing ==
  ASSUME hits' = <<>>, pool' = <<>>
  PROVE  NoneTwice' /\ BetterFirst'
<1>1. DOMAIN hits' = {} /\ Len(hits') = 0 /\ Len(pool') = 0
  OBVIOUS
<1>2. Range(pool') = {}
  BY DEF Range
<1>3. Cardinality({}) = 0
  BY FS_EmptySet
<1>4. Min({K, 0}) = 0
  <2>1. {K, 0} \in SUBSET Nat /\ {K, 0} # {}
    OBVIOUS
  <2>2. Min({K, 0}) \in {K, 0} /\ Min({K, 0}) <= 0
    BY <2>1, LeastIs
  <2> QED BY <2>2
<1>5. NoneTwice'
  <2> DEFINE literal == {n \in DOMAIN hits' : hits'[n].source = "fts"}
  <2>1. literal = {}
    BY <1>1
  <2> HIDE DEF literal
  <2>2. Cardinality(literal) = 0 /\ Len(hits') = Cardinality(literal) + Min({K, Len(pool')})
    BY <1>1, <1>3, <1>4, <2>1
  <2>3. Cardinality(literal) <= LiteralMax
    BY <2>2
  <2> QED BY <1>1, <2>1, <2>2, <2>3 DEF NoneTwice, literal
<1>6. BetterFirst'
  BY <1>2 DEF BetterFirst
<1> QED BY <1>5, <1>6
LEMMA InitAnswering == Init => Answering
<1> SUFFICES ASSUME Init PROVE Answering
  OBVIOUS
<1>1. Times
  BY InitHonest DEF Honest
<1>2. hits = <<>> /\ pool = <<>> /\ query = NoQuery /\ corpus = None /\ seen = {}
  BY DEF Init
<1>3. DOMAIN hits = {} /\ Len(hits) = 0 /\ Len(pool) = 0 /\ hits \in Seq(HitType) /\ pool \in Seq(Id)
  BY <1>2
<1>4. Range(pool) = {}
  BY <1>2 DEF Range
<1>5. NoQuery \in Query
  BY DEF NoQuery, Query
<1>6. NoneTwice
  <2> DEFINE literal == {n \in DOMAIN hits : hits[n].source = "fts"}
  <2>1. literal = {}
    BY <1>3
  <2> HIDE DEF literal
  <2>2. {K, 0} \in SUBSET Nat /\ {K, 0} # {}
    OBVIOUS
  <2>3. Min({K, 0}) \in {K, 0} /\ Min({K, 0}) <= 0
    BY <2>2, LeastIs
  <2>4. Cardinality(literal) = 0 /\ Len(hits) = Cardinality(literal) + Min({K, Len(pool)})
    BY <1>3, <2>1, <2>3, FS_EmptySet
  <2>5. Cardinality(literal) <= LiteralMax
    BY <2>4
  <2> QED BY <1>3, <2>1, <2>4, <2>5 DEF NoneTwice, literal
<1>7. BetterFirst
  BY <1>4 DEF BetterFirst
<1> QED BY <1>1, <1>2, <1>3, <1>5, <1>6, <1>7 DEF Answering

\* A step that leaves the answer and the index alone keeps what they are.
LEMMA AnswerStays ==
  ASSUME Answering, Times', UNCHANGED <<corpus, query, pool, hits, index>>,
         seen' \subseteq Id \X Time, step # "answered" \/ step' = "answered"
  PROVE  Answering'
<1>1. NoneTwice'
  BY DEF Answering, NoneTwice
<1>2. BetterFirst'
  BY DEF Answering, BetterFirst
<1> QED BY <1>1, <1>2 DEF Answering

LEMMA StepAnswering == Answering /\ Honest /\ [Next]_vars => Answering'
<1> SUFFICES ASSUME Answering, Honest, [Next]_vars PROVE Answering'
  OBVIOUS
<1>1. Times' /\ Times
  BY StepHonest DEF Honest
<1>2. LiveNow \subseteq Id \X Time /\ LiveNow' \subseteq Id \X Time
  BY <1>1 DEF Times, LiveNow, Live, File
<1>3. ASSUME UNCHANGED <<corpus, query, pool, hits, index>>, step # "answered",
             seen' \in {seen, LiveNow, seen \cup LiveNow'}
      PROVE  Answering'
  <2>1. seen' \subseteq Id \X Time
    BY <1>2, <1>3 DEF Answering
  <2> QED BY <1>1, <1>3, <2>1, AnswerStays
<1>4. ASSUME Look PROVE Answering'
  <2>1. UNCHANGED <<corpus, query, pool, hits, seen>> /\ hits = <<>> /\ pool = <<>>
    BY <1>4 DEF Look, answer, history, Answering
  <2>2. NoneTwice' /\ BetterFirst'
    BY <2>1, Nothing
  <2> QED BY <1>1, <2>1, <2>2 DEF Answering
<1>5. ASSUME ReadFile PROVE Answering'
  <2>1. UNCHANGED <<corpus, query, pool, hits, seen>> /\ hits = <<>> /\ pool = <<>>
    BY <1>5 DEF ReadFile, answer, history, Answering
  <2>2. NoneTwice' /\ BetterFirst'
    BY <2>1, Nothing
  <2> QED BY <1>1, <2>1, <2>2 DEF Answering
<1>6. ASSUME KeepIndex PROVE Answering'
  BY <1>3, <1>6 DEF KeepIndex, answer
<1>7. ASSUME NEW o \in Order, NEW f \in Order, NEW w \in Whole, NEW modelled \in BOOLEAN, NEW ask \in Asked,
             Answer(o, w, f, modelled, ask)
      PROVE  Answering'
  <2>1. /\ QueryOK(query') /\ \E l \in Literals(query', index) : Rerank(query', l)
        /\ corpus' \in [key : Keys, of : SUBSET Id]
    BY <1>7, AskedKnown
  <2>2. index' = index /\ index \in Entry /\ seen' = seen /\ step' = "answered"
    BY <1>1, <1>7 DEF Answer, Times, Entry, history
  <2>3. PICK l \in Literals(query', index) : Rerank(query', l)
    BY <2>1
  <2>4. NoneTwice'
    BY <2>2, <2>3, RerankedOnce
  <2>5. BetterFirst'
    BY <2>1, <2>2, <2>3, RerankedBetter
  <2>6. pool' \in Seq(Id) /\ hits' \in Seq(HitType)
    BY <2>1, <2>2, <2>3, RerankedType
  <2> QED BY <1>1, <2>1, <2>2, <2>4, <2>5, <2>6 DEF Answering, QueryOK
<1>8. ASSUME Over PROVE Answering'
  <2>1. UNCHANGED corpus /\ seen' = {} /\ query' = NoQuery /\ hits' = <<>> /\ pool' = <<>>
    BY <1>8 DEF Over
  <2>2. NoneTwice' /\ BetterFirst'
    BY <2>1, Nothing
  <2>3. NoQuery \in Query
    BY DEF NoQuery, Query
  <2> QED BY <1>1, <2>1, <2>2, <2>3 DEF Answering
<1>9. ASSUME UNCHANGED vars PROVE Answering'
  <2>1. UNCHANGED <<corpus, query, pool, hits, index, seen, step>>
    BY <1>9 DEF vars, call, answer, history
  <2>2. seen' \subseteq Id \X Time
    BY <2>1 DEF Answering
  <2> QED BY <1>1, <2>1, <2>2, AnswerStays
<1>10. ASSUME NEW m \in Id, DeleteFile(m) PROVE Answering'
  BY <1>3, <1>10 DEF DeleteFile, Seeing, call, answer
<1>11. ASSUME NEW w \in pending, Publish(w) PROVE Answering'
  BY <1>3, <1>11 DEF Publish, Seeing, call, answer
<1>12. ASSUME NEW m \in Id, NEW live \in BOOLEAN, WriteTemporary(m, live) PROVE Answering'
  <2>1. UNCHANGED <<corpus, query, pool, hits, index>> /\ step # "answered" /\ seen' = seen
    BY <1>12 DEF WriteTemporary, call, answer, history
  <2> QED BY <1>3, <2>1
<1>13. ASSUME ListFiles \/ StatFile \/ Recount PROVE Answering'
  <2>1. UNCHANGED <<corpus, query, pool, hits, index>>
    BY <1>13 DEF ListFiles, StatFile, Recount, answer
  <2>2. step # "answered" /\ seen' \in {seen, LiveNow}
    BY <1>13 DEF ListFiles, StatFile, Recount, history
  <2> QED BY <1>3, <2>1, <2>2
<1>14. ASSUME StatGone \/ Return PROVE Answering'
  BY <1>8, <1>14 DEF StatGone, Return
<1> QED
  BY <1>4, <1>5, <1>6, <1>7, <1>9, <1>10, <1>11, <1>12, <1>13, <1>14 DEF Next, Loading

\* Along every run what a call ranks was live, and what it answers is in order.
LEMMA AlwaysAnswering == Spec => [](Honest /\ Answering)
<1>1. Init => Honest /\ Answering
  BY InitHonest, InitAnswering
<1>2. (Honest /\ Answering) /\ [Next]_vars => (Honest /\ Answering)'
  BY StepHonest, StepAnswering
<1> QED BY <1>1, <1>2, PTL DEF Spec

\* Every variable has its type: a score is never negative, and what is answered has the time of a
\* file that was read.
THEOREM TypeCorrect == Spec => []TypeOK
<1>1. Honest /\ Answering => TypeOK
  BY DEF Honest, Answering, Times, TypeOK, Entry, HitType
<1> QED BY AlwaysAnswering, <1>1, PTL

\* An answer names no memory twice, is of the index, has the literal hits first and loses nothing
\* that a pool of at most K holds, for any number of results, literal hits and candidates, any
\* likeness of the memories and any index.
THEOREM AnswersOnce == Spec => []NoneTwice
<1>1. Answering => NoneTwice
  BY DEF Answering
<1> QED BY AlwaysAnswering, <1>1, PTL

\* The fusion, the normalisation, the weights and the sort for a time never put a memory that every
\* channel prefers, and that no signal speaks against, behind another nor leave it out for it: the
\* ranks of a channel are told apart at any number of memories, and rounding keeps their order.
THEOREM BetterLeads == Spec => []BetterFirst
<1>1. Answering => BetterFirst
  BY DEF Answering
<1> QED BY AlwaysAnswering, <1>1, PTL
================================================================================
