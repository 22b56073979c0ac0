------------------------------- MODULE Retrieval -------------------------------
(***************************************************************************)
(* The search of memem/retrieve.py: one process answers queries, other     *)
(* processes write and delete memory files meanwhile.  A call lists the    *)
(* files and asks for their times one by one, reads them when its copy is  *)
(* out of date, and ranks what it has: three orders are fused, the best    *)
(* are scored again by what is known of them and thinned out.  A file gets *)
(* its time before it is put in place, so files may be put in place in     *)
(* another order than their times say.                                     *)
(*                                                                         *)
(* The orders the model, the keywords and the full-text table give are     *)
(* chosen freely among Order.  A file's contents are the time of its write.*)
(* Scores are whole numbers, Unit for 1.0.                                 *)
(***************************************************************************)
EXTENDS Integers, SequencesExt, FiniteSetsExt

CONSTANTS
  Id, Project, None,
  Order,        \* the orders a channel may rank memories in: sequences without repetition
  Of,           \* Of[m]: the project of memory m
  Related,      \* Related[m]: the memories its note lists
  Importance,   \* Importance[m]: 1 to 5
  Usage,        \* Usage[m]: percent, from its telemetry
  Similarity,   \* Similarity[m][n]: percent, of their embeddings
  Literal,      \* memories that hold the version or date of a query that names one
  InWindow,     \* memories created in the time of a query that names one
  InUse,        \* memories whose path patterns match the files in use
  Asked,        \* what a query may name: a version or date, a time, its scope, the files in use
  K,            \* results asked for
  PoolSize,     \* 20
  LiteralMax,   \* 2
  Seeds,        \* 5: the candidates whose links count
  Scale,        \* what a share of 1 in a fused score counts
  MaxWrites     \* bound: writes

ASSUME IdsAssumption == IsFiniteSet(Id)
ASSUME OrderAssumption ==
  Order \subseteq Seq(Id) /\ \A o \in Order : IsInjective(o)
ASSUME MemoryAssumption ==
  /\ Of \in [Id -> Project] /\ Related \in [Id -> SUBSET Id]
  /\ Importance \in [Id -> 1..5] /\ Usage \in [Id -> 0..100]
  /\ Similarity \in [Id -> [Id -> 0..100]]
ASSUME AskedAssumption ==
  Asked \subseteq [literal : BOOLEAN, temporal : BOOLEAN, scope : Project \cup {None}, paths : BOOLEAN]
ASSUME NoneAssumption == None \notin Id /\ None \notin Project
\* Fine enough to tell any two ranks.
ASSUME ScaleAssumption ==
  Scale \in Nat /\ Scale >= (61 + Cardinality(Id)) * (61 + Cardinality(Id))
ASSUME BoundsAssumption ==
  K \in Nat /\ PoolSize \in Nat /\ LiteralMax \in Nat /\ Seeds \in Nat /\ MaxWrites \in Nat

Time == 0..MaxWrites
File == [at : Time, live : BOOLEAN]
Temporary == [id : Id, file : File]
Query == [vectors : SUBSET Id, cosine : Seq(Id), words : Seq(Id), fts : Seq(Id),
          literal : BOOLEAN, temporal : BOOLEAN, scope : Project \cup {None}, paths : BOOLEAN]
NoQuery == [vectors |-> {}, cosine |-> <<>>, words |-> <<>>, fts |-> <<>>,
            literal |-> FALSE, temporal |-> FALSE, scope |-> None, paths |-> FALSE]

VARIABLES
  vault,     \* the files: vault[m] is None or a File
  writes,    \* the clock: temporary files written so far
  pending,   \* temporary files that are not in place yet (or never will be)
  cache,     \* None, or the key and the index last built
  corpus,    \* None, or the key and the memories of the keyword index
  step,      \* "idle", "stat", "read", "rank", "count" or "answered"
  key,       \* what the call saw of the files: the newest time and their number
  named,     \* the files it has listed
  todo,      \* those whose time it has still to ask for, or that it has still to read
  index,     \* index[m]: the time of what it read of m, or None
  query,     \* what was asked, and in which orders the channels answered
  pool,      \* the candidates in the order the thinning gets them
  hits,      \* the answer
  seen,      \* history: <<memory, time>> of what was live at some moment of the call
  late,      \* history: memories put in place since the cached index was listed, that its key hides
  missed     \* history: the same for the index that is being made

files == <<vault, writes, pending>>
call == <<step, key, named, todo, index>>
answer == <<query, pool, hits>>
history == <<seen, late, missed>>
vars == <<files, cache, corpus, call, answer, history>>

(***************************************************************************)
(* The files and the index                                                 *)
(***************************************************************************)
Files == {m \in Id : vault[m] # None}
Live(m) == vault[m] # None /\ vault[m].live
LiveNow == {<<m, vault[m].at>> : m \in {n \in Id : Live(n)}}
Keys == Time \X (0..Cardinality(Id))

NoIndex == [m \in Id |-> None]
Indexed(x) == {m \in Id : x[m] # None}

\* Mutant: the cache is compared by the newest time alone.
FreshByTime(c, k) == c # None /\ c.key[1] >= k[1]

Fresh(c, k) == c # None /\ c.key[1] >= k[1] /\ c.key[2] = k[2]

(***************************************************************************)
(* Fusing the orders                                                       *)
(***************************************************************************)
One == 1000
Unit == One * 20000  \* a score of 1.0, before the bonus for paths

\* Mutant: what a channel does not know takes its first place.
RankAny(order, m) ==
  IF m \in Range(order) THEN CHOOSE n \in DOMAIN order : order[n] = m ELSE 1

Rank(order, m) ==
  IF m \in Range(order) THEN CHOOSE n \in DOMAIN order : order[n] = m ELSE Len(order) + 1

\* _rrf_fusion; an empty full-text order does not count.
Fused(q, m) ==
  LET share(order) == Scale \div (60 + Rank(order, m))
  IN  share(q.cosine) + share(q.words) + (IF q.fts = <<>> THEN 0 ELSE share(q.fts))

Whole == {o \in Order : Range(o) = Id}

\* What the order o has of S.
Within(o, S) ==
  {s \in SetToSeqs(Range(o) \cap S) : \A i, j \in DOMAIN s : i < j => Rank(o, s[i]) < Rank(o, s[j])}

\* The domain of score in decreasing score; equal ones come in any order.
Sorted(score) ==
  {s \in SetToSeqs(DOMAIN score) : \A i, j \in DOMAIN s : i < j => score[s[i]] >= score[s[j]]}

Top(s, n) == SubSeq(s, 1, IF Len(s) < n THEN Len(s) ELSE n)

\* The best that are in the index, without the literal hits.
Candidates(q, x, literal) ==
  LET ranked == Range(q.cosine) \cup Range(q.words) \cup Range(q.fts)
      new == ranked \cap (Indexed(x) \ Range(literal))
  IN  {Top(s, PoolSize) : s \in Sorted([m \in new |-> Fused(q, m)])}

(***************************************************************************)
(* Scoring the candidates                                                  *)
(***************************************************************************)
\* Mutant: the distance to the lowest is taken the wrong way round.
NormalisedBack(fused) ==
  LET low == Min(Range(fused))  high == Max(Range(fused))
  IN  [m \in DOMAIN fused |-> IF high > low THEN ((low - fused[m]) * One) \div (high - low) ELSE One]

\* The fused scores stretched over 0 to One.
Normalised(fused) ==
  LET low == Min(Range(fused))  high == Max(Range(fused))
  IN  [m \in DOMAIN fused |-> IF high > low THEN ((fused[m] - low) * One) \div (high - low) ELSE One]

\* The memories that list m or that m lists.
Links(m) == {s \in Id \ {m} : m \in Related[s] \/ s \in Related[m]}

\* m is listed by a seed, or lists one.
Linked(c, m) == Range(Top(c, Seeds)) \cap Links(m) # {}

\* _rerank_signals with its weights, in thousandths.
Bonus(q, c, m) ==
  1000 + (3 * Usage[m]) \div 2 + (IF q.scope = Of[m] THEN 100 ELSE 0)
       + (IF Linked(c, m) THEN 100 ELSE 0) + 20 * Importance[m]

Scores(q, c) ==
  LET base == Normalised([m \in Range(c) |-> Fused(q, m)])
  IN  [m \in Range(c) |-> base[m] * Bonus(q, c, m) * (IF q.temporal /\ m \in InWindow THEN 24 ELSE 20)]

\* A query that names a time sorts the candidates again, and keeps the order of equal ones.
Reordered(q, c, score) ==
  IF ~q.temporal THEN {c}
  ELSE {p \in Sorted(score) :
          \A i, j \in DOMAIN p : i < j /\ score[p[i]] = score[p[j]] => Rank(c, p[i]) < Rank(c, p[j])}

(***************************************************************************)
(* Thinning them out (_mmr_rerank): each time the first of the best, by    *)
(* the score less the likeness to what is taken already; a memory without  *)
(* an embedding is like nothing.  A pool of at most K is left as it is.    *)
(***************************************************************************)
Likeness(q, taken, m) ==
  LET with == Range(taken) \cap q.vectors
  IN  IF m \notin q.vectors \/ with = {} THEN 0 ELSE Max({Similarity[m][n] : n \in with})

Worth(q, score, taken, m) == 7 * score[m] - 3 * Likeness(q, taken, m) * (Unit \div 100)

\* m is the next of p to take among rest.
Best(q, p, score, taken, rest, m) ==
  \A n \in rest \ {m} :
    \/ Worth(q, score, taken, m) > Worth(q, score, taken, n)
    \/ Worth(q, score, taken, m) = Worth(q, score, taken, n) /\ Rank(p, m) < Rank(p, n)

\* Mutant: the winner stays among those that remain.
ThinnedAgain(q, p, score) ==
  IF Len(p) <= K THEN {p}
  ELSE {t \in [1..K -> Range(p)] :
          \A n \in 1..K : Best(q, p, score, SubSeq(t, 1, n - 1), Range(p), t[n])}

Thinned(q, p, score) ==
  IF Len(p) <= K THEN {p}
  ELSE {t \in [1..K -> Range(p)] : \A n \in 1..K :
          LET taken == SubSeq(t, 1, n - 1)
              rest == Range(p) \ Range(taken)
          IN  t[n] \in rest /\ Best(q, p, score, taken, rest, t[n])}

\* The memories with the query's version or date, in the order of the index, which is any.
Literals(q, x) ==
  LET match == {m \in Literal \cap Indexed(x) : q.literal}
  IN  {Top(s, LiteralMax) : s \in SetToSeqs(match)}

\* The files in use add a twentieth at the end, and change no place.
Reported(q, m, score) == IF q.paths /\ m \in InUse \cap Files THEN score + score \div 20 ELSE score

Hit(q, m, score, source, x) ==
  [id |-> m, at |-> x[m], score |-> Reported(q, m, score), source |-> source]

(***************************************************************************)
(* The other processes                                                     *)
(***************************************************************************)
Init ==
  /\ vault \in [Id -> {None, [at |-> 0, live |-> TRUE]}]
  /\ writes = 0 /\ pending = {}
  /\ cache = None /\ corpus = None
  /\ step = "idle" /\ key = <<0, 0>> /\ named = {} /\ todo = {} /\ index = NoIndex
  /\ query = NoQuery /\ pool = <<>> /\ hits = <<>>
  /\ seen = {} /\ late = {} /\ missed = {}

\* A save, an update, a deprecation or an invalidation writes a temporary file, which has its time
\* from now on.  Some hold the vault's lock and some do not: any number may be under way.
WriteTemporary(m, live) ==
  /\ writes < MaxWrites /\ step # "answered"
  /\ writes' = writes + 1
  /\ pending' = pending \cup {[id |-> m, file |-> [at |-> writes', live |-> live]]}
  /\ UNCHANGED <<vault, cache, corpus, call, answer, history>>

\* A call under way sees what becomes live.  (What changes at the moment of its return comes after.)
Seeing ==
  /\ step # "answered"
  /\ seen' = IF step # "idle" THEN seen \cup LiveNow' ELSE seen

\* The files of the index that is being made do not show w: it is put in place after they were
\* listed, or after w's memory was read and with a time that is no news.
Passed(w) ==
  \/ step = "stat" /\ w.id \notin named
  \/ step = "read" /\ w.id \notin todo /\ w.file.at <= key[1]

\* The temporary file takes its place, fsync or not, in the order the disk and the scheduler give.
Publish(w) ==
  /\ w \in pending
  /\ vault' = [vault EXCEPT ![w.id] = w.file]
  /\ pending' = pending \ {w}
  /\ late' = IF cache # None /\ w.file.at <= cache.key[1] THEN late \cup {w.id} ELSE late
  /\ missed' = IF Passed(w) THEN missed \cup {w.id} ELSE missed
  /\ Seeing
  /\ UNCHANGED <<writes, cache, corpus, call, answer>>

\* A purge, or the old file of a memory that is written under a new name.
DeleteFile(m) ==
  /\ vault[m] # None
  /\ vault' = [vault EXCEPT ![m] = None]
  /\ Seeing
  /\ UNCHANGED <<writes, pending, cache, corpus, call, answer, late, missed>>

(***************************************************************************)
(* A call                                                                  *)
(***************************************************************************)
\* load_vault_index lists the files.
ListFiles ==
  /\ step = "idle"
  /\ step' = "stat" /\ key' = <<0, Cardinality(Files)>> /\ named' = Files /\ todo' = Files
  /\ seen' = LiveNow /\ missed' = {}
  /\ UNCHANGED <<files, cache, corpus, index, answer, late>>

\* The time of a file that was listed, for the index or for the keywords.
StatFile ==
  /\ step \in {"stat", "count"}
  /\ \E m \in todo \cap Files :
       /\ key' = [key EXCEPT ![1] = IF vault[m].at > @ THEN vault[m].at ELSE @]
       /\ todo' = todo \ {m}
  /\ UNCHANGED <<files, cache, corpus, step, named, index, answer, history>>

Over ==
  /\ step' = "idle"
  /\ key' = <<0, 0>> /\ named' = {} /\ todo' = {} /\ index' = NoIndex
  /\ seen' = {} /\ missed' = {}
  /\ query' = NoQuery /\ pool' = <<>> /\ hits' = <<>>
  /\ UNCHANGED <<files, cache, corpus, late>>

\* It is gone since: the call raises FileNotFoundError, out of retrieve.
StatGone ==
  /\ step \in {"stat", "count"}
  /\ todo \ Files # {}
  /\ Over

\* Is the copy up to date?  An empty index is an empty answer.
Look ==
  /\ step = "stat" /\ todo = {}
  /\ IF Fresh(cache, key)
     THEN /\ index' = cache.index
          /\ step' = IF Indexed(cache.index) = {} THEN "answered" ELSE "rank"
          /\ UNCHANGED todo
     ELSE step' = "read" /\ todo' = named /\ UNCHANGED index
  /\ UNCHANGED <<files, cache, corpus, key, named, answer, history>>

\* A file that is gone, deprecated or invalid is passed over.
ReadFile ==
  /\ step = "read" /\ todo # {}
  /\ \E m \in todo :
       /\ index' = [index EXCEPT ![m] = IF Live(m) THEN vault[m].at ELSE None]
       /\ todo' = todo \ {m}
  /\ UNCHANGED <<files, cache, corpus, step, key, named, answer, history>>

KeepIndex ==
  /\ step = "read" /\ todo = {}
  /\ cache' = [key |-> key, index |-> index]
  /\ step' = IF Indexed(index) = {} THEN "answered" ELSE "rank"
  /\ late' = missed
  /\ UNCHANGED <<files, corpus, key, named, todo, index, answer, seen, missed>>

\* _build_bm25 lists the files again.
Recount ==
  /\ step = "rank"
  /\ step' = "count" /\ key' = <<0, Cardinality(Files)>> /\ todo' = Files
  /\ UNCHANGED <<files, cache, corpus, named, index, answer, history>>

\* It builds from the index the call has, unless the files look as they did when it last built.
Keywords ==
  IF corpus # None /\ corpus.key = key THEN corpus ELSE [key |-> key, of |-> Indexed(index)]

\* The literal hits l and the best of the others.
Rerank(q, l) ==
  \E c \in Candidates(q, index, l) :
    LET score == Scores(q, c)
    IN  \E p \in Reordered(q, c, score) : \E t \in Thinned(q, p, score) :
          /\ pool' = p
          /\ hits' = [n \in DOMAIN l |-> Hit(q, l[n], Unit, "fts", index)]
                      \o [n \in DOMAIN t |-> Hit(q, t[n], score[t[n]], "cosine", index)]

\* The rest of retrieve.  The model ranks those memories of o it has a vector of, if there is a
\* model; the keyword index every memory it has, as w does; the full-text table any, as f does.
Answer(o, w, f, modelled, ask) ==
  /\ step = "count" /\ todo = {}
  /\ corpus' = Keywords
  /\ \E cosine \in IF modelled THEN Within(o, Indexed(index)) ELSE {<<>>},
        words \in Within(w, Keywords.of), fts \in Within(f, Indexed(index)) :
       LET q == [vectors |-> Range(o), cosine |-> cosine, words |-> words, fts |-> fts,
                 literal |-> ask.literal, temporal |-> ask.temporal,
                 scope |-> ask.scope, paths |-> ask.paths]
       IN  query' = q /\ \E l \in Literals(q, index) : Rerank(q, l)
  /\ step' = "answered"
  /\ UNCHANGED <<files, cache, key, named, todo, index, history>>

Return == step = "answered" /\ Over
--------------------------------------------------------------------------------
Loading == ListFiles \/ StatFile \/ StatGone \/ Look \/ ReadFile \/ KeepIndex \/ Recount \/ Return

Next ==
  \/ \E m \in Id : DeleteFile(m) \/ \E live \in BOOLEAN : WriteTemporary(m, live)
  \/ \E w \in pending : Publish(w)
  \/ Loading
  \/ \E o, f \in Order, w \in Whole, modelled \in BOOLEAN, ask \in Asked : Answer(o, w, f, modelled, ask)

Spec == Init /\ [][Next]_vars

(***************************************************************************)
(* Properties                                                              *)
(***************************************************************************)
Entry == [Id -> Time \cup {None}]

\* Every variable has the type the code gives it.
TypeOK ==
  /\ vault \in [Id -> File \cup {None}] /\ writes \in Time /\ pending \subseteq Temporary
  /\ cache = None \/ cache \in [key : Keys, index : Entry]
  /\ corpus = None \/ corpus \in [key : Keys, of : SUBSET Id]
  /\ step \in {"idle", "stat", "read", "rank", "count", "answered"}
  /\ key \in Keys /\ named \subseteq Id /\ todo \subseteq Id /\ index \in Entry
  /\ query \in Query
  /\ pool \in Seq(Id)
  /\ hits \in Seq([id : Id, at : Time, score : Nat, source : {"fts", "cosine"}])
  /\ seen \subseteq Id \X Time /\ late \subseteq Id /\ missed \subseteq Id

\* The copy cannot tell what became of m: a file of m came late, after a newer one had been listed
\* or after the listing, or m is not there and another that came late makes up the number.
Overlooked(m) == m \in late \/ (m \notin named /\ late # {})

\* Whatever a call has in its index as it begins to rank was a live file at some moment of the call,
\* however files came and went meanwhile.  A call that reads the files has nothing else, and one that
\* takes the copy (Fresh: the newest time is no newer and the number the same, by the docstring of
\* load_vault_index right for additions, changes and deletions) is wrong at most about what files
\* that were put in place late hide from it.
IndexLive ==
  [][(step \in {"stat", "read"} /\ step' = "rank") =>
       \A m \in Indexed(index') :
         <<m, index'[m]>> \in seen' \/ (step = "stat" /\ Overlooked(m))]_vars

\* The answer is of the index, no memory is returned twice, the literal hits come first, and nothing
\* that a pool of at most K holds is lost: the answer is as long as the literal hits and K allow.
NoneTwice ==
  LET literal == {n \in DOMAIN hits : hits[n].source = "fts"}
  IN  /\ \A n \in DOMAIN hits : hits[n].at = index[hits[n].id]
      /\ \A a, b \in DOMAIN hits : hits[a].id = hits[b].id => a = b
      /\ \A a \in literal, b \in DOMAIN hits \ literal : a < b
      /\ Cardinality(literal) <= LiteralMax
      /\ Len(hits) = Cardinality(literal) + Min({K, Len(pool)})

\* Every channel that knows one of them has m before n.
Ahead(q, m, n) ==
  LET before(o) == \E i \in DOMAIN o : o[i] = m /\ n \notin Range(SubSeq(o, 1, i))
      known(o) == {m, n} \cap Range(o) # {}
      orders == {o \in {q.cosine, q.words, q.fts} : known(o)}
  IN  orders # {} /\ \A o \in orders : before(o)

\* A memory that every channel prefers, and that no signal speaks against, is never left out of
\* the pool for another nor put behind it, with channels that know only some of the memories or
\* none (the penalty rank of _rrf_fusion, the normalisation and the weights).
BetterFirst ==
  \A m \in Indexed(index), n \in Range(pool) :
    /\ Ahead(query, m, n)
    /\ \A a \in DOMAIN hits : hits[a].source = "fts" => hits[a].id # m
    => /\ m \in Range(pool)
       /\ \/ ~query.temporal
          \/ /\ Usage[m] >= Usage[n] /\ Importance[m] >= Importance[n]
             /\ query.scope = Of[n] => query.scope = Of[m]
             /\ n \in InWindow => m \in InWindow
             /\ Links(n) \cap Range(pool) \subseteq Links(m)
          => Rank(pool, m) < Rank(pool, n)
================================================================================
