------------------------------ MODULE GraphIndex ------------------------------
(***************************************************************************)
(* The scores and relations of memem/graph_index.py: which edges a memory  *)
(* gets towards the others of a listing of the vault, which of them are    *)
(* shown as related notes, and which memories a recall reaches over them.  *)
(*                                                                         *)
(* A score is a percentage, as is every feature it is computed from.  The  *)
(* features of a pair of texts and of a pair of memories are constants:    *)
(* only the text, related and contradicts of a memory change here.  An id  *)
(* stands for its first eight characters, by which edges are matched.      *)
(***************************************************************************)
EXTENDS Integers, Sequences, FiniteSets, SequencesExt

CONSTANTS
  Id, Text, None,
  Lexical,      \* Lexical[s][t]: words, bigrams and trigrams s and t share
  Overlap,      \* Overlap[s][t]: words they share
  Tie,          \* Tie[i][j]: what else relates memory i to j
  Needing,      \* texts that say "depends on", "requires", ...
  EdgeLimit,    \* limit: edges of one memory
  MinEdgeScore  \* _MIN_EDGE_SCORE

Percent == 0..100
Memory == [text : Text, valid : BOOLEAN, related : SUBSET Id, contradicts : SUBSET Id]

RelationType == {"same_topic", "supports", "depends_on", "supersedes", "contradicts",
                 "same_session", "same_project"}
Symmetric == {"same_topic", "same_session", "same_project"}
NormalRecall == {"same_topic", "supports", "depends_on", "same_session"}
Edge == [src : Id, dst : Id, type : RelationType, score : Percent]

ASSUME IdAssumption == IsFiniteSet(Id)
ASSUME PairAssumption ==
  /\ Lexical \in [Text -> [Text -> Percent]] /\ Overlap \in [Text -> [Text -> Percent]]
  /\ Tie \in [Id -> [Id -> [tag : Percent, project : BOOLEAN, session : BOOLEAN,
                            supersedes : BOOLEAN, structure : Percent]]]
  /\ Needing \subseteq Text
ASSUME LimitAssumption == EdgeLimit \in Nat /\ MinEdgeScore \in Percent
ASSUME NoneAssumption == None \notin Memory \cup Text \cup Id

Points(condition, n) == IF condition THEN n ELSE 0
AtLeast(a, b) == IF a > b THEN a ELSE b

\* The combined score of the edge i -> j, where memory i reads m and j reads o.
Score(i, m, j, o) ==
  (45 * Lexical[m.text][o.text] + 20 * Tie[i][j].tag
    + Points(Tie[i][j].project, 1500) + Points(Tie[i][j].session, 1000)
    + 5 * Tie[i][j].structure
    + Points(j \in m.related \cup m.contradicts, 500)) \div 100

\* The relation that src declares to dst, the first that applies.
Relation(i, m, j, o) ==
  LET lexical == Lexical[m.text][o.text]
  IN  CASE j \in m.contradicts -> "contradicts"
        [] j \notin m.contradicts /\ Tie[i][j].supersedes /\ lexical >= 12 -> "supersedes"
        [] OTHER ->
             IF m.text \in Needing /\ lexical >= 14 THEN "depends_on"
             ELSE IF lexical >= 25 THEN "same_topic"
             ELSE IF Tie[i][j].tag >= 25 /\ lexical >= 12 THEN "supports"
             ELSE IF Tie[i][j].session THEN "same_session" ELSE "same_project"

Present(listing) == {i \in Id : listing[i] # None}

\* The cheap prefilters before pairs are scored: of a refresh, and of a rebuild's inverted indexes.
PoolFor(i, m, listing) ==
  {j \in Present(listing) \ {i} :
     Points(j \in m.related \cup m.contradicts, 100) + Points(Tie[i][j].session, 70)
       + (40 * Tie[i][j].tag) \div 100 + Points(Tie[i][j].project, 15)
       + Overlap[m.text][listing[j].text] >= 8}

PoolFromIndex(i, m, listing) ==
  {j \in Present(listing) \ {i} :
     \/ j \in m.related \cup m.contradicts \/ Tie[i][j].session
     \/ Tie[i][j].tag > 0 \/ Overlap[m.text][listing[j].text] > 0}

\* Declared conflicts and successions always score 80; weak edges are not kept.
EdgeTo(i, m, j, o) ==
  LET type == Relation(i, m, j, o)
      score == Score(i, m, j, o)
  IN  [src |-> i, dst |-> j, type |-> type,
       score |-> IF type \in {"contradicts", "supersedes"} THEN AtLeast(score, 80) ELSE score]

Weak(e) ==
  /\ e.type \notin {"contradicts", "supersedes"}
  /\ e.score < MinEdgeScore \/ (e.type = "same_project" /\ e.score < 30)

\* Every edge memory i, which reads m, qualifies for towards a pool of the memories listed.
Qualifying(i, m, listing, pool) ==
  {e \in {EdgeTo(i, m, j, listing[j]) : j \in pool} : ~Weak(e)}

\* The best edges of a set, in decreasing score.
Ranked(S, limit) ==
  LET order == CHOOSE q \in SetToSeqs(S) : \A m, n \in DOMAIN q : m < n => q[m].score >= q[n].score
  IN  SubSeq(order, 1, IF Len(order) < limit THEN Len(order) ELSE limit)

EdgeCandidates(i, m, listing, pool) == Ranked(Qualifying(i, m, listing, pool), EdgeLimit)

\* The ids shown as related notes: three, of the types a reader wants.
SuggestRelated(i, m, listing) ==
  LET best == Ranked(Qualifying(i, m, listing, PoolFor(i, m, listing)), 9)
      readable == {n \in DOMAIN best : best[n].type \in NormalRecall}
  IN  {best[n].dst : n \in {k \in readable : Cardinality({l \in readable : l < k}) < 3}}

Reciprocal(e) == [e EXCEPT !.src = e.dst, !.dst = e.src]

\* The writes of one memory's refresh: every edge, each symmetric one followed by its reverse.
Upserts(edges) ==
  FlattenSeq([n \in DOMAIN edges |->
                IF edges[n].type \in Symmetric THEN <<edges[n], Reciprocal(edges[n])>> ELSE <<edges[n]>>])

Key(e) == <<e.src, e.dst, e.type>>

\* INSERT ... ON CONFLICT(src_id, dst_id, relation_type) DO UPDATE
Upsert(graph, e) == {d \in graph : Key(d) # Key(e)} \cup {e}

\* Several of them: of the edges with one key the last is left.
UpsertAll(graph, edges) ==
  LET after(m) == {Key(edges[n]) : n \in {k \in DOMAIN edges : k > m}}
  IN  {d \in graph : Key(d) \notin after(0)}
        \cup {edges[m] : m \in {k \in DOMAIN edges : Key(edges[k]) \notin after(k)}}

\* Mutant: only the memory's own edges are removed.
WithoutOwn(graph, i) == {e \in graph : e.src # i}

Without(graph, i) == {e \in graph : e.src # i /\ e.dst # i}

\* What one rebuild's transaction writes, memory after memory.
Rebuilt(graph, listing) ==
  LET order == SetToSeq(Present(listing))
      edges(i) == EdgeCandidates(i, listing[i], listing, PoolFromIndex(i, listing[i], listing))
  IN  UpsertAll(graph, FlattenSeq([n \in DOMAIN order |-> Upserts(edges(order[n]))]))

(***************************************************************************)
(* Recall over the graph: two hops over normal edges, the second over      *)
(* stronger ones only, to memories that still have a file; the notes'      *)
(* related lists when the graph adds nothing.                              *)
(***************************************************************************)
Near(graph, from, least) ==
  {e.dst : e \in {d \in graph : d.src \in from /\ d.type \in NormalRecall /\ d.score >= least}}

\* Mutant: an edge's end is returned without looking for its file.
ExpandAnywhere(graph, seeds, here) ==
  LET first == Near(graph, seeds, 18)
      second == Near(graph, first \ seeds, 30)
  IN  seeds \cup first \cup second

ExpandGraphIndex(graph, seeds, here) ==
  LET first == Near(graph, seeds, 18) \cap here
      second == Near(graph, first \ seeds, 30) \cap here
  IN  seeds \cup first \cup second

ExpandRelated(notes, seeds, here) ==
  LET next(from) == {j \in here : \E i \in from : j \in notes[i].related}
      first == next(seeds)
  IN  seeds \cup first \cup next(first \ seeds)

ExpandGraph(graph, notes, seeds) ==
  LET reached == ExpandGraphIndex(graph, seeds, Present(notes))
  IN  IF reached # seeds THEN reached ELSE ExpandRelated(notes, seeds, Present(notes))
================================================================================
