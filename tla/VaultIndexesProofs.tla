--------------------------- MODULE VaultIndexesProofs ---------------------------
(***************************************************************************)
(* The derived indexes for any memories, texts, processes and bounds: the  *)
(* full-text rows, the list of memories and the graph agree with the vault *)
(* wherever operations neither overlapped nor failed, and a recall returns *)
(* nothing that is gone.                                                   *)
(***************************************************************************)
EXTENDS VaultIndexes, FiniteSetTheorems, SequenceTheorems, WellFoundedInduction, TLAPS

(***************************************************************************)
(* Sequences made of a set, and of sequences.  What holds of every number  *)
(* is shown by the least one it would not hold of.                         *)
(***************************************************************************)
LEMMA Least ==
  ASSUME NEW T \in SUBSET Nat, T # {}
  PROVE  \E m \in T : \A k \in T : m <= k
<1> DEFINE R == OpToRel(<, Nat)
<1>1. \A x, y \in Nat : y < x => <<y, x>> \in R
  BY DEF OpToRel
<1>2. IsWellFoundedOn(R, Nat)
  BY NatLessThanWellFounded
<1> HIDE DEF R
<1>3. PICK m \in T : \A k \in T : ~(<<k, m>> \in R)
  BY <1>2, WFMin
<1>4. \A k \in T : k \in Nat /\ m \in Nat /\ ~(k < m)
  BY <1>1, <1>3, Zenon
<1> QED BY <1>4

\* What holds of 0, and of every number after one it holds of, holds of all.
LEMMA Counting ==
  ASSUME NEW T \in SUBSET Nat, 0 \in T, \A n \in T : n + 1 \in T
  PROVE  T = Nat
<1> SUFFICES ASSUME Nat \ T # {} PROVE FALSE
  OBVIOUS
<1>1. PICK m \in Nat \ T : \A k \in Nat \ T : m <= k
  BY Least
<1>2. m - 1 \in T /\ m = (m - 1) + 1
  BY <1>1
<1> QED BY <1>1, <1>2

Descending(q) == \A m, n \in DOMAIN q : m < n => q[m].score >= q[n].score

\* A finite set of scored edges can be put in order.
LEMMA Sortable ==
  ASSUME NEW S, IsFiniteSet(S), \A e \in S : e.score \in Nat
  PROVE  \E q \in SetToSeqs(S) : Descending(q)
<1> DEFINE Good(X) == \E q \in SetToSeqs(X) : Descending(q)
           T == {n \in Nat : \A X \in SUBSET S : Cardinality(X) = n => Good(X)}
<1>1. 0 \in T
  <2> SUFFICES ASSUME NEW X \in SUBSET S, Cardinality(X) = 0 PROVE Good(X)
    OBVIOUS
  <2>1. <<>> \in SetToSeqs(X) /\ Descending(<<>>)
    BY DEF SetToSeqs, Descending
  <2> QED BY <2>1
<1>2. ASSUME NEW n \in T PROVE n + 1 \in T
  <2> SUFFICES ASSUME NEW X \in SUBSET S, Cardinality(X) = n + 1 PROVE Good(X)
    OBVIOUS
  <2>1. IsFiniteSet(X) /\ X # {}
    BY FS_Subset, FS_EmptySet
  <2>2. PICK w \in X : \A e \in X : w.score <= e.score
    <3> DEFINE scores == {e.score : e \in X}
    <3>1. scores \in SUBSET Nat /\ scores # {}
      BY <2>1
    <3>2. PICK m \in scores : \A k \in scores : m <= k
      BY <3>1, Least
    <3> QED BY <3>2
  <2>3. Cardinality(X \ {w}) = n /\ X \ {w} \in SUBSET S
    <3>1. Cardinality(X \ {w}) = Cardinality(X) - 1
      BY <2>1, FS_RemoveElement, Zenon
    <3>2. n \in Nat
      OBVIOUS
    <3> QED BY <3>1, <3>2
  <2>4. PICK q \in SetToSeqs(X \ {w}) : Descending(q)
    BY <2>3
  <2> DEFINE r == [k \in 1..n+1 |-> IF k = n + 1 THEN w ELSE q[k]]
  <2>5. q \in [1..n -> X \ {w}] /\ \A i, j \in 1..n : i # j => q[i] # q[j]
    BY <2>3, <2>4 DEF SetToSeqs
  <2>6. r \in SetToSeqs(X)
    <3>1. r \in [1..n+1 -> X]
      BY <2>5
    <3>2. \A i, j \in 1..n+1 : i # j => r[i] # r[j]
      BY <2>5
    <3>3. n + 1 = Cardinality(X)
      OBVIOUS
    <3> HIDE DEF r
    <3> QED BY <3>1, <3>2, <3>3, Zenon DEF SetToSeqs
  <2>7. Descending(r)
    BY <2>5, <2>4, <2>2 DEF Descending
  <2> QED BY <2>6, <2>7
<1>3. T = Nat
  <2>1. T \in SUBSET Nat
    OBVIOUS
  <2> HIDE DEF T, Good
  <2> QED BY <1>1, <1>2, <2>1, Counting, Zenon
<1>4. Cardinality(S) \in T
  BY <1>3, FS_CardinalityType
<1> QED BY <1>4

\* The ranking is of the set's edges, and of all of them when the limit allows.
LEMMA RankedType ==
  ASSUME NEW S, IsFiniteSet(S), \A e \in S : e.score \in Nat, NEW limit \in Nat
  PROVE  /\ Ranked(S, limit) \in Seq(S)
         /\ Cardinality(S) <= limit => ToSet(Ranked(S, limit)) = S
<1> DEFINE order == CHOOSE q \in SetToSeqs(S) : Descending(q)
           least == IF Len(order) < limit THEN Len(order) ELSE limit
<1>1. order \in SetToSeqs(S)
  BY Sortable
<1>2. Ranked(S, limit) = SubSeq(order, 1, least)
  BY DEF Ranked, Descending
<1>3. Cardinality(S) \in Nat
  BY FS_CardinalityType
<1>4. order \in [1..Cardinality(S) -> S] /\ \A i, j \in 1..Cardinality(S) : i # j => order[i] # order[j]
  BY <1>1 DEF SetToSeqs
<1> HIDE DEF order
<1>5. Ranked(S, limit) = [k \in 1..least |-> order[k]] /\ least \in 0..Cardinality(S)
  BY <1>2, <1>3, <1>4
<1>6. Ranked(S, limit) \in Seq(S)
  <2>1. [k \in 1..least |-> order[k]] \in [1..least -> S] /\ least \in Nat
    BY <1>5, <1>4, <1>3
  <2> QED BY <2>1, <1>5
<1>7. ASSUME Cardinality(S) <= limit PROVE ToSet(Ranked(S, limit)) = S
  <2>1. Ranked(S, limit) = order
    BY <1>5, <1>4, <1>3, <1>7
  <2>2. order \in Injection(1..Cardinality(S), S)
    BY <1>4 DEF Injection, IsInjective
  <2>3. Cardinality(1..Cardinality(S)) = Cardinality(S) /\ IsFiniteSet(1..Cardinality(S))
    BY <1>3, FS_Interval
  <2>4. order \in Surjection(1..Cardinality(S), S)
    BY <2>2, <2>3, FS_Injection
  <2> QED BY <2>1, <2>4, <1>4 DEF ToSet, Surjection
<1> QED BY <1>6, <1>7

LEMMA Concatenated ==
  ASSUME NEW S, NEW s \in Seq(S), NEW t \in Seq(S)
  PROVE  s \o t \in Seq(S) /\ ToSet(s \o t) = ToSet(s) \cup ToSet(t)
<1>1. /\ s \o t \in Seq(S) /\ Len(s \o t) = Len(s) + Len(t)
      /\ \A n \in 1..Len(s) : (s \o t)[n] = s[n]
      /\ \A n \in 1..Len(t) : (s \o t)[Len(s) + n] = t[n]
  OBVIOUS
<1> DEFINE st == s \o t
<1>2. DOMAIN st = 1..(Len(s) + Len(t)) /\ DOMAIN s = 1..Len(s) /\ DOMAIN t = 1..Len(t)
  OBVIOUS
<1> HIDE DEF st
<1>3. Len(s) \in Nat /\ Len(t) \in Nat
  OBVIOUS
<1>4. ToSet(st) \subseteq ToSet(s) \cup ToSet(t)
  <2> SUFFICES ASSUME NEW n \in 1..(Len(s) + Len(t)) PROVE st[n] \in ToSet(s) \cup ToSet(t)
    BY <1>2 DEF ToSet
  <2>1. CASE n \in 1..Len(s)
    BY <2>1, <1>1, <1>2 DEF ToSet, st
  <2>2. CASE n \notin 1..Len(s)
    <3>1. n - Len(s) \in 1..Len(t) /\ n = Len(s) + (n - Len(s))
      BY <2>2, <1>3
    <3>2. st[n] = t[n - Len(s)]
      BY <3>1, <1>1 DEF st
    <3> QED BY <3>1, <3>2, <1>2 DEF ToSet
  <2> QED BY <2>1, <2>2
<1>5. ToSet(s) \subseteq ToSet(st)
  BY <1>1, <1>2, <1>3 DEF ToSet, st
<1>6. ToSet(t) \subseteq ToSet(st)
  <2> SUFFICES ASSUME NEW n \in 1..Len(t) PROVE t[n] \in ToSet(st)
    BY <1>2 DEF ToSet
  <2>1. Len(s) + n \in DOMAIN st /\ st[Len(s) + n] = t[n]
    BY <1>1, <1>2, <1>3 DEF st
  <2> QED BY <2>1 DEF ToSet
<1> QED BY <1>1, <1>4, <1>5, <1>6 DEF st

LEMMA TailKnown ==
  ASSUME NEW S, NEW s \in Seq(S), s # <<>>
  PROVE  /\ Head(s) \in S /\ Tail(s) \in Seq(S)
         /\ ToSet(s) = {Head(s)} \cup ToSet(Tail(s))
         /\ Tail(s) = <<>> <=> Len(s) = 1
<1>1. Len(s) \in Nat \ {0} /\ DOMAIN s = 1..Len(s) /\ Head(s) = s[1] /\ Head(s) \in S
  OBVIOUS
<1>2. Tail(s) \in Seq(S) /\ Len(Tail(s)) = Len(s) - 1 /\ \A n \in 1..(Len(s) - 1) : Tail(s)[n] = s[n+1]
  OBVIOUS
<1> DEFINE t == Tail(s)
<1>3. DOMAIN t = 1..(Len(s) - 1) /\ \A n \in 1..(Len(s) - 1) : t[n] = s[n+1]
  BY <1>2
<1>4. t = <<>> <=> Len(s) = 1
  <2>1. t = <<>> <=> Len(t) = 0
    BY <1>2, EmptySeq
  <2> QED BY <1>1, <1>2, <2>1
<1> HIDE DEF t
<1>5. ToSet(t) \subseteq ToSet(s) /\ Head(s) \in ToSet(s)
  BY <1>1, <1>3 DEF ToSet
<1>6. \A n \in 1..Len(s) : s[n] \in {Head(s)} \cup ToSet(t)
  <2> TAKE n \in 1..Len(s)
  <2>1. n # 1 => n - 1 \in DOMAIN t /\ t[n-1] = s[n]
    BY <1>1, <1>3
  <2> QED BY <2>1, <1>1 DEF ToSet
<1>7. ToSet(s) \subseteq {Head(s)} \cup ToSet(t)
  BY <1>1, <1>6 DEF ToSet
<1> QED BY <1>1, <1>2, <1>4, <1>5, <1>7 DEF t

\* What is made of several sequences holds what they hold.
LEMMA Flattened ==
  ASSUME NEW S, NEW seqs \in Seq(Seq(S))
  PROVE  /\ FlattenSeq(seqs) \in Seq(S)
         /\ ToSet(FlattenSeq(seqs)) = UNION {ToSet(seqs[n]) : n \in DOMAIN seqs}
<1>1. CASE Len(seqs) = 0
  <2>1. FlattenSeq(seqs) = <<>> /\ DOMAIN seqs = {}
    BY <1>1 DEF FlattenSeq
  <2> QED BY <2>1 DEF ToSet
<1>2. CASE Len(seqs) # 0
  <2> DEFINE N == Len(seqs)
             Flat(f, n) == \A i \in 1..n : f[i] = IF i = 1 THEN seqs[i] ELSE f[i-1] \o seqs[i]
             T == {n \in Nat : n <= N => \E f : Flat(f, n)}
             F == CHOOSE f : f = [i \in 1..N |-> IF i = 1 THEN seqs[i] ELSE f[i-1] \o seqs[i]]
  <2>1. N \in Nat \ {0} /\ DOMAIN seqs = 1..N /\ \A n \in 1..N : seqs[n] \in Seq(S)
    BY <1>2
  <2>2. FlattenSeq(seqs) = F[N]
    BY <1>2 DEF FlattenSeq
  <2> HIDE DEF N, F
  <2>3. 0 \in T
    OBVIOUS
  <2>4. ASSUME NEW n \in T PROVE n + 1 \in T
    <3> SUFFICES ASSUME n + 1 <= N PROVE \E f : Flat(f, n + 1)
      OBVIOUS
    <3>1. PICK f : Flat(f, n)
      BY <2>1
    <3> DEFINE g == [i \in 1..n+1 |-> IF i <= n THEN f[i]
                                      ELSE IF i = 1 THEN seqs[i] ELSE f[i-1] \o seqs[i]]
    <3>2. \A i \in 1..n+1 : g[i] = IF i = 1 THEN seqs[i] ELSE g[i-1] \o seqs[i]
      <4> TAKE i \in 1..n+1
      <4>1. i # 1 => g[i-1] = f[i-1]
        OBVIOUS
      <4>2. CASE i <= n
        BY <4>1, <4>2, <3>1
      <4>3. CASE ~(i <= n)
        BY <4>1, <4>3
      <4> QED BY <4>2, <4>3
    <3> HIDE DEF g
    <3> QED BY <3>2
  <2>5. T = Nat
    <3>1. T \in SUBSET Nat
      OBVIOUS
    <3> HIDE DEF T
    <3> QED BY <2>3, <2>4, <3>1, Counting, Zenon
  <2>6. PICK f : Flat(f, N)
    <3>1. N \in Nat /\ N <= N
      BY <2>1
    <3> HIDE DEF Flat
    <3> QED BY <2>5, <3>1
  <2>7. \A i \in 1..N : F[i] = IF i = 1 THEN seqs[i] ELSE F[i-1] \o seqs[i]
    <3> DEFINE h == [i \in 1..N |-> f[i]]
    <3>1. \A i \in 1..N : i # 1 => i - 1 \in 1..N
      BY <2>1
    <3>2. \A i \in 1..N : h[i] = IF i = 1 THEN seqs[i] ELSE h[i-1] \o seqs[i]
      BY <2>6, <3>1
    <3>3. h = [i \in 1..N |-> h[i]]
      OBVIOUS
    <3> HIDE DEF h
    <3>4. h = [i \in 1..N |-> IF i = 1 THEN seqs[i] ELSE h[i-1] \o seqs[i]]
      BY <3>2, <3>3
    <3>5. F = [i \in 1..N |-> IF i = 1 THEN seqs[i] ELSE F[i-1] \o seqs[i]]
      BY <3>4 DEF F
    <3> QED BY <3>5
  <2> DEFINE Whole(i) == F[i] \in Seq(S) /\ ToSet(F[i]) = UNION {ToSet(seqs[n]) : n \in 1..i}
             W == {i \in Nat : i \in 1..N => Whole(i)}
  <2>8. 0 \in W
    OBVIOUS
  <2>9. ASSUME NEW n \in W PROVE n + 1 \in W
    <3> SUFFICES ASSUME n + 1 \in 1..N PROVE Whole(n + 1)
      OBVIOUS
    <3>1. CASE n = 0
      BY <3>1, <2>7, <2>1
    <3>2. CASE n # 0
      <4>1. n \in 1..N /\ Whole(n)
        BY <3>2, <2>1
      <4>2. F[n+1] = F[n] \o seqs[n+1]
        <5>1. n + 1 # 1 /\ (n + 1) - 1 = n
          BY <3>2
        <5> QED BY <5>1, <2>7
      <4>3. Whole(n) /\ seqs[n+1] \in Seq(S)
        BY <4>1, <2>1
      <4>4. F[n+1] \in Seq(S) /\ ToSet(F[n+1]) = ToSet(F[n]) \cup ToSet(seqs[n+1])
        BY <4>2, <4>3, Concatenated
      <4>5. 1..n+1 = 1..n \cup {n+1}
        OBVIOUS
      <4> QED BY <4>3, <4>4, <4>5
    <3> QED BY <3>1, <3>2
  <2>10. W = Nat
    <3>1. W \in SUBSET Nat
      OBVIOUS
    <3> HIDE DEF W
    <3> QED BY <2>8, <2>9, <3>1, Counting, Zenon
  <2>11. Whole(N)
    <3>1. N \in Nat /\ N \in 1..N
      BY <2>1
    <3> HIDE DEF Whole
    <3> QED BY <3>1, <2>10
  <2> QED BY <2>11, <2>2, <2>1
<1> QED BY <1>1, <1>2

(***************************************************************************)
(* Edges.                                                                  *)
(***************************************************************************)
Listing == [Id -> Memory \cup {None}]

LEMMA Remembered ==
  ASSUME NEW listed \in Listing, NEW i \in Present(listed)
  PROVE  i \in Id /\ listed[i] \in Memory
BY DEF Listing, Present

Hundredth(n) == n \div 100
UpTo(n) == 0..n

LEMMA Hundredths ==
  ASSUME NEW n \in UpTo(10000)
  PROVE  Hundredth(n) \in Percent
BY DEF Hundredth, Percent, UpTo

\* A score is a percentage.
LEMMA ScoreType ==
  ASSUME NEW i \in Id, NEW j \in Id, NEW m \in Memory, NEW o \in Memory
  PROVE  Score(i, m, j, o) \in Percent
<1> DEFINE tie == Tie[i][j]
           tag == tie.tag
           structure == tie.structure
           lexical == Lexical[m.text][o.text]
           a == Points(tie.project, 1500)
           b == Points(tie.session, 1000)
           c == Points(j \in m.related \cup m.contradicts, 500)
<1>1. lexical \in 0..100
  BY PairAssumption DEF Memory, Percent
<1>2. tag \in 0..100 /\ structure \in 0..100
  BY PairAssumption DEF Percent
<1>3. a \in 0..1500 /\ b \in 0..1000 /\ c \in 0..500
  BY DEF Points
<1> DEFINE total == 45 * lexical + 20 * tag + a + b + 5 * structure + c
<1>4. Score(i, m, j, o) = Hundredth(total)
  BY DEF Score, Hundredth
<1> HIDE DEF tie, tag, structure, lexical, a, b, c
<1>5. total \in UpTo(10000)
  BY <1>1, <1>2, <1>3 DEF UpTo
<1> HIDE DEF total
<1> QED BY <1>4, <1>5, Hundredths

LEMMA EdgeToType ==
  ASSUME NEW i \in Id, NEW j \in Id, NEW m \in Memory, NEW o \in Memory
  PROVE  EdgeTo(i, m, j, o) \in Edge /\ EdgeTo(i, m, j, o).src = i /\ EdgeTo(i, m, j, o).dst = j
<1>1. Relation(i, m, j, o) \in RelationType
  BY DEF Relation, RelationType
<1>2. AtLeast(Score(i, m, j, o), 80) \in Percent
  BY ScoreType DEF AtLeast, Percent
<1> QED BY <1>1, <1>2, ScoreType DEF EdgeTo, Edge

\* The edges of one memory towards a pool: one for each of its members at most.
LEMMA QualifyingKnown ==
  ASSUME NEW i \in Id, NEW m \in Memory, NEW listed \in Listing,
         NEW pool \in SUBSET Present(listed)
  PROVE  /\ IsFiniteSet(Qualifying(i, m, listed, pool))
         /\ Cardinality(Qualifying(i, m, listed, pool)) <= Cardinality(Id)
         /\ Qualifying(i, m, listed, pool) \subseteq Edge
         /\ \A e \in Qualifying(i, m, listed, pool) :
              e.src = i /\ e.dst \in pool /\ e = EdgeTo(i, m, e.dst, listed[e.dst]) /\ ~Weak(e)
<1> DEFINE Q == Qualifying(i, m, listed, pool)
           all == {EdgeTo(i, m, j, listed[j]) : j \in pool}
           f == [j \in pool |-> EdgeTo(i, m, j, listed[j])]
<1>1. Q \subseteq all /\ \A e \in Q : ~Weak(e)
  BY DEF Qualifying
<1>2. \A j \in pool : j \in Id /\ listed[j] \in Memory
  BY Remembered
<1>3. \A j \in pool : /\ EdgeTo(i, m, j, listed[j]) \in Edge
                      /\ EdgeTo(i, m, j, listed[j]).src = i
                      /\ EdgeTo(i, m, j, listed[j]).dst = j
  BY <1>2, EdgeToType
<1>4. IsFiniteSet(pool) /\ Cardinality(pool) <= Cardinality(Id)
  <2>1. pool \in SUBSET Id
    BY <1>2
  <2> QED BY <2>1, IdAssumption, FS_Subset, Zenon
<1>5. IsFiniteSet(all) /\ Cardinality(all) <= Cardinality(pool)
  <2>1. f \in Surjection(pool, all)
    BY DEF Surjection
  <2> HIDE DEF f, all
  <2> QED BY <2>1, <1>4, FS_Surjection
<1>6. IsFiniteSet(Q) /\ Cardinality(Q) <= Cardinality(all)
  <2> HIDE DEF all, Q
  <2> QED BY <1>1, <1>5, FS_Subset
<1>7. Cardinality(Q) <= Cardinality(Id)
  <2>1. Cardinality(Q) \in Nat /\ Cardinality(all) \in Nat /\ Cardinality(pool) \in Nat /\ Cardinality(Id) \in Nat
    BY <1>4, <1>5, <1>6, IdAssumption, FS_CardinalityType
  <2> HIDE DEF Q, all
  <2> QED BY <2>1, <1>4, <1>5, <1>6
<1> QED BY <1>1, <1>3, <1>6, <1>7

\* The candidates kept, which are all of those that qualify when there are no more memories than
\* a memory may have edges.
LEMMA CandidatesKnown ==
  ASSUME NEW i \in Id, NEW m \in Memory, NEW listed \in Listing,
         NEW pool \in SUBSET Present(listed), NEW limit \in Nat
  PROVE  /\ Ranked(Qualifying(i, m, listed, pool), limit) \in Seq(Edge)
         /\ ToSet(Ranked(Qualifying(i, m, listed, pool), limit)) \subseteq Qualifying(i, m, listed, pool)
         /\ Cardinality(Id) <= limit =>
              ToSet(Ranked(Qualifying(i, m, listed, pool), limit)) = Qualifying(i, m, listed, pool)
<1> DEFINE Q == Qualifying(i, m, listed, pool)
<1>1. IsFiniteSet(Q) /\ Cardinality(Q) <= Cardinality(Id) /\ Q \subseteq Edge
  BY QualifyingKnown
<1>2. \A e \in Q : e.score \in Nat
  BY <1>1 DEF Edge, Percent
<1> HIDE DEF Q
<1>3. /\ Ranked(Q, limit) \in Seq(Q)
      /\ Cardinality(Q) <= limit => ToSet(Ranked(Q, limit)) = Q
  BY <1>1, <1>2, RankedType
<1>4. Ranked(Q, limit) \in Seq(Edge) /\ ToSet(Ranked(Q, limit)) \subseteq Q
  BY <1>3, <1>1 DEF ToSet
<1>5. Cardinality(Q) \in Nat /\ Cardinality(Id) \in Nat
  BY <1>1, IdAssumption, FS_CardinalityType
<1>6. Cardinality(Id) <= limit => ToSet(Ranked(Q, limit)) = Q
  BY <1>1, <1>3, <1>5
<1> QED BY <1>4, <1>6 DEF Q

LEMMA RelatedIds ==
  ASSUME NEW i \in Id, NEW m \in Memory, NEW listed \in Listing
  PROVE  SuggestRelated(i, m, listed) \in SUBSET Id
<1> DEFINE best == Ranked(Qualifying(i, m, listed, PoolFor(i, m, listed)), 9)
<1>1. PoolFor(i, m, listed) \in SUBSET Present(listed)
  BY DEF PoolFor
<1>2. best \in Seq(Edge)
  BY <1>1, CandidatesKnown
<1> HIDE DEF best
<1>3. \A n \in DOMAIN best : best[n].dst \in Id
  <2>1. \A n \in DOMAIN best : best[n] \in Edge
    BY <1>2
  <2> QED BY <2>1 DEF Edge
<1> QED BY <1>3 DEF SuggestRelated, best

LEMMA ReciprocalType ==
  ASSUME NEW e \in Edge
  PROVE  Reciprocal(e) \in Edge /\ Key(Reciprocal(e)) = <<e.dst, e.src, e.type>>
BY DEF Reciprocal, Edge, Key

\* A refresh writes its edges and the reverse of the symmetric ones.
LEMMA UpsertsKnown ==
  ASSUME NEW edges \in Seq(Edge)
  PROVE  /\ Upserts(edges) \in Seq(Edge)
         /\ ToSet(Upserts(edges)) =
              ToSet(edges) \cup {Reciprocal(e) : e \in {d \in ToSet(edges) : d.type \in Symmetric}}
<1> DEFINE pieces == [n \in DOMAIN edges |->
                        IF edges[n].type \in Symmetric THEN <<edges[n], Reciprocal(edges[n])>> ELSE <<edges[n]>>]
<1>1. \A n \in DOMAIN edges : edges[n] \in Edge /\ Reciprocal(edges[n]) \in Edge
  BY ReciprocalType
<1>2. \A n \in DOMAIN edges :
        /\ pieces[n] \in Seq(Edge)
        /\ ToSet(pieces[n]) = IF edges[n].type \in Symmetric THEN {edges[n], Reciprocal(edges[n])} ELSE {edges[n]}
  <2> TAKE n \in DOMAIN edges
  <2> DEFINE e == edges[n]
             d == Reciprocal(edges[n])
  <2>1. e \in Edge /\ d \in Edge
    BY <1>1
  <2>2. pieces[n] = IF e.type \in Symmetric THEN <<e, d>> ELSE <<e>>
    OBVIOUS
  <2> HIDE DEF e, d, pieces
  <2>3. <<e, d>> \in Seq(Edge) /\ <<e>> \in Seq(Edge)
    BY <2>1
  <2>4. ToSet(<<e, d>>) = {e, d} /\ ToSet(<<e>>) = {e}
    BY DEF ToSet
  <2>5. /\ pieces[n] \in Seq(Edge)
        /\ ToSet(pieces[n]) = IF e.type \in Symmetric THEN {e, d} ELSE {e}
    BY <2>2, <2>3, <2>4
  <2> QED BY <2>5 DEF e, d
<1>3. pieces \in Seq(Seq(Edge)) /\ DOMAIN pieces = DOMAIN edges
  <2>1. DOMAIN edges = 1..Len(edges) /\ Len(edges) \in Nat
    OBVIOUS
  <2>2. pieces \in [1..Len(edges) -> Seq(Edge)] /\ DOMAIN pieces = DOMAIN edges
    BY <1>2, <2>1
  <2> HIDE DEF pieces
  <2> QED BY <2>1, <2>2
<1>4. Upserts(edges) = FlattenSeq(pieces)
  BY DEF Upserts
<1> HIDE DEF pieces
<1>5. Upserts(edges) \in Seq(Edge) /\ ToSet(Upserts(edges)) = UNION {ToSet(pieces[n]) : n \in DOMAIN edges}
  BY <1>3, <1>4, Flattened
<1>6. \A n \in DOMAIN edges : edges[n] \in ToSet(edges)
  BY DEF ToSet
<1>7. \A e \in ToSet(edges) : \E n \in DOMAIN edges : e = edges[n]
  BY DEF ToSet
<1> DEFINE both == ToSet(edges) \cup {Reciprocal(e) : e \in {d \in ToSet(edges) : d.type \in Symmetric}}
<1>8. \A n \in DOMAIN edges : ToSet(pieces[n]) \subseteq both
  BY <1>2, <1>6
<1>9. \A e \in ToSet(edges) : \E n \in DOMAIN edges :
        e \in ToSet(pieces[n]) /\ (e.type \in Symmetric => Reciprocal(e) \in ToSet(pieces[n]))
  BY <1>2, <1>7
<1>10. both \subseteq UNION {ToSet(pieces[n]) : n \in DOMAIN edges}
  BY <1>9
<1> HIDE DEF both
<1>11. UNION {ToSet(pieces[n]) : n \in DOMAIN edges} \subseteq both
  BY <1>8
<1> QED BY <1>5, <1>10, <1>11 DEF both

Keys(edges) == {Key(e) : e \in edges}

\* An edge that is written replaces one with its key, so that a key once there remains.
LEMMA UpsertKnown ==
  ASSUME NEW edges \in SUBSET Edge, NEW e \in Edge
  PROVE  Upsert(edges, e) \in SUBSET Edge /\ Keys(Upsert(edges, e)) = Keys(edges) \cup {Key(e)}
BY DEF Upsert, Keys

LEMMA UpsertAllKnown ==
  ASSUME NEW edges \in SUBSET Edge, NEW writes \in Seq(Edge)
  PROVE  /\ UpsertAll(edges, writes) \in SUBSET Edge
         /\ Keys(UpsertAll(edges, writes)) = Keys(edges) \cup Keys(ToSet(writes))
<1> DEFINE after(m) == {Key(writes[n]) : n \in {k \in DOMAIN writes : k > m}}
           left == {d \in edges : Key(d) \notin after(0)}
           last == {writes[m] : m \in {k \in DOMAIN writes : Key(writes[k]) \notin after(k)}}
<1>1. UpsertAll(edges, writes) = left \cup last
  BY DEF UpsertAll
<1>2. DOMAIN writes = 1..Len(writes) /\ Len(writes) \in Nat /\ \A n \in DOMAIN writes : writes[n] \in Edge
  OBVIOUS
<1>3. last \subseteq ToSet(writes)
  BY DEF ToSet
<1>4. ToSet(writes) \subseteq Edge
  BY <1>2 DEF ToSet
<1>5. \A n \in DOMAIN writes : Key(writes[n]) \in Keys(last)
  <2> TAKE n \in DOMAIN writes
  <2> DEFINE Rest == {Len(writes) - k : k \in {l \in DOMAIN writes : Key(writes[l]) = Key(writes[n])}}
  <2>1. Rest \in SUBSET Nat /\ Rest # {}
    BY <1>2
  <2>2. PICK r \in Rest : \A s \in Rest : r <= s
    <3> HIDE DEF Rest
    <3> QED BY <2>1, Least
  <2>3. PICK k \in DOMAIN writes : r = Len(writes) - k /\ Key(writes[k]) = Key(writes[n])
    OBVIOUS
  <2>4. \A l \in DOMAIN writes : Key(writes[l]) = Key(writes[n]) => ~(l > k)
    <3> SUFFICES ASSUME NEW l \in DOMAIN writes, Key(writes[l]) = Key(writes[n]) PROVE ~(l > k)
      OBVIOUS
    <3>1. Len(writes) - l \in Rest
      OBVIOUS
    <3>2. r <= Len(writes) - l
      BY <3>1, <2>2
    <3>3. l \in Nat /\ k \in Nat /\ Len(writes) \in Nat
      BY <1>2
    <3> HIDE DEF Rest
    <3> QED BY <3>2, <3>3, <2>3
  <2>5. Key(writes[k]) \notin after(k)
    BY <2>4, <2>3
  <2>6. writes[k] \in last
    BY <2>5
  <2> HIDE DEF last
  <2> QED BY <2>3, <2>6 DEF Keys
<1>6. after(0) = Keys(ToSet(writes))
  BY <1>2 DEF Keys, ToSet
<1> HIDE DEF after, last
<1>7. Keys(ToSet(writes)) \subseteq Keys(last)
  BY <1>5 DEF Keys, ToSet
<1>8. Keys(left) \subseteq Keys(edges) /\ Keys(edges) \subseteq Keys(left) \cup after(0)
  BY DEF Keys
<1>9. Keys(last) \subseteq Keys(ToSet(writes)) /\ Keys(left \cup last) = Keys(left) \cup Keys(last)
  BY <1>3 DEF Keys
<1>10. left \cup last \subseteq Edge
  BY <1>3, <1>4
<1> HIDE DEF left
<1> QED BY <1>1, <1>6, <1>7, <1>8, <1>9, <1>10

\* What a rebuild writes of memory i.
Reindexed(i, listed) == EdgeCandidates(i, listed[i], listed, PoolFromIndex(i, listed[i], listed))

\* A rebuild leaves what was there and writes the edges of every memory listed.
LEMMA RebuiltKnown ==
  ASSUME NEW edges \in SUBSET Edge, NEW listed \in Listing
  PROVE  /\ Rebuilt(edges, listed) \in SUBSET Edge
         /\ Keys(Rebuilt(edges, listed)) =
              Keys(edges) \cup UNION {Keys(ToSet(Upserts(Reindexed(i, listed)))) : i \in Present(listed)}
<1> DEFINE here == Present(listed)
           order == SetToSeq(here)
           each == [n \in DOMAIN order |-> Upserts(Reindexed(order[n], listed))]
<1>1. \A i \in here : Upserts(Reindexed(i, listed)) \in Seq(Edge)
  <2> TAKE i \in here
  <2>1. PoolFromIndex(i, listed[i], listed) \in SUBSET here
    BY DEF PoolFromIndex
  <2>2. Reindexed(i, listed) \in Seq(Edge)
    BY <2>1, Remembered, CandidatesKnown, LimitAssumption DEF Reindexed, EdgeCandidates
  <2> QED BY <2>2, UpsertsKnown
<1>2. IsFiniteSet(here)
  <2>1. here \in SUBSET Id
    BY DEF Present
  <2> QED BY <2>1, IdAssumption, FS_Subset
<1>3. Cardinality(here) \in Nat
  BY <1>2, FS_CardinalityType
<1>4. order \in [1..Cardinality(here) -> here] /\ \A i \in here : \E n \in 1..Cardinality(here) : order[n] = i
  <2>1. order \in [1..Cardinality(here) -> here] /\ IsInjective(order)
    <3>1. \E f : f \in Bijection(1..Cardinality(here), here)
      BY <1>2, FS_NatBijection, <1>3, FS_CountingElements DEF ExistsBijection
    <3>2. \E f \in [1..Cardinality(here) -> here] : IsInjective(f)
      BY <3>1 DEF Bijection, Injection, IsInjective
    <3> QED BY <3>2 DEF SetToSeq
  <2>2. order \in Injection(1..Cardinality(here), here)
    BY <2>1 DEF Injection
  <2>3. IsFiniteSet(1..Cardinality(here)) /\ Cardinality(1..Cardinality(here)) = Cardinality(here)
    BY <1>3, FS_Interval
  <2>4. order \in Surjection(1..Cardinality(here), here)
    BY <2>2, <2>3, <1>2, FS_Injection
  <2> QED BY <2>1, <2>4 DEF Surjection
<1> HIDE DEF order, here
<1>5. each \in Seq(Seq(Edge)) /\ DOMAIN each = 1..Cardinality(here)
  <2>1. each \in [1..Cardinality(here) -> Seq(Edge)]
    BY <1>1, <1>4
  <2> HIDE DEF each
  <2> QED BY <2>1, <1>3
<1>6. Rebuilt(edges, listed) = UpsertAll(edges, FlattenSeq(each))
  BY DEF Rebuilt, Reindexed, order, here
<1>7. \A n \in 1..Cardinality(here) : each[n] = Upserts(Reindexed(order[n], listed))
  BY <1>4
<1> HIDE DEF each
<1>8. FlattenSeq(each) \in Seq(Edge) /\ ToSet(FlattenSeq(each)) = UNION {ToSet(each[n]) : n \in 1..Cardinality(here)}
  BY <1>5, Flattened
<1>9. /\ Rebuilt(edges, listed) \in SUBSET Edge
      /\ Keys(Rebuilt(edges, listed)) = Keys(edges) \cup Keys(ToSet(FlattenSeq(each)))
  BY <1>6, <1>8, UpsertAllKnown
<1>10. Keys(ToSet(FlattenSeq(each))) = UNION {Keys(ToSet(Upserts(Reindexed(i, listed)))) : i \in here}
  BY <1>4, <1>7, <1>8 DEF Keys
<1> QED BY <1>9, <1>10 DEF here

\* Edges from i to j are between memories that are there, the symmetric ones answered by j's.
Sound(notes, i, j, keys) ==
  \A t \in RelationType : <<i, j, t>> \in keys =>
    /\ notes[i] # None /\ notes[j] # None
    /\ t \in Symmetric => <<j, i, t>> \in keys

\* Refreshes and rebuilds both consider j for memory i, which reads m, and find it near enough.
Calls(i, m, j, o) ==
  /\ Points(j \in m.related \cup m.contradicts, 100) + Points(Tie[i][j].session, 70)
       + (40 * Tie[i][j].tag) \div 100 + Points(Tie[i][j].project, 15)
       + Overlap[m.text][o.text] >= 8
  /\ \/ j \in m.related \cup m.contradicts \/ Tie[i][j].session
     \/ Tie[i][j].tag > 0 \/ Overlap[m.text][o.text] > 0
  /\ ~Weak(EdgeTo(i, m, j, o))

Wants(notes, i, j) == notes[i] # None /\ notes[j] # None /\ Calls(i, notes[i], j, notes[j])

\* What the graph should say of i and j, as far as the keys of its edges tell, if they are not among
\* the pairs left apart.
Joined(notes, i, j, keys, apart) ==
  /\ Sound(notes, i, j, keys)
  /\ Sound(notes, j, i, keys)
  /\ {i, j} \notin apart /\ Cardinality(Id) <= EdgeLimit
       /\ Wants(notes, i, j) /\ Wants(notes, j, i) =>
       \E t \in RelationType : <<i, j, t>> \in keys \/ <<j, i, t>> \in keys

\* The writes for one memory are sound, about that memory, and reach all it wants.
LEMMA WritesSound ==
  ASSUME NEW listed \in Listing, NEW i \in Present(listed),
         NEW pool \in SUBSET (Present(listed) \ {i})
  PROVE  LET writes == Upserts(EdgeCandidates(i, listed[i], listed, pool)) IN
         /\ writes \in Seq(Edge)
         /\ \A e \in ToSet(writes) : i \in {e.src, e.dst}
         /\ \A a, b \in Id : Sound(listed, a, b, Keys(ToSet(writes)))
         /\ Cardinality(Id) <= EdgeLimit =>
              \A j \in pool : ~Weak(EdgeTo(i, listed[i], j, listed[j])) =>
                \E t \in RelationType : <<i, j, t>> \in Keys(ToSet(writes))
<1> DEFINE Q == Qualifying(i, listed[i], listed, pool)
           C == EdgeCandidates(i, listed[i], listed, pool)
           back == {Reciprocal(e) : e \in {d \in ToSet(C) : d.type \in Symmetric}}
<1>1. i \in Id /\ listed[i] \in Memory /\ pool \in SUBSET Present(listed) /\ EdgeLimit \in Nat
  BY Remembered, LimitAssumption
<1>2. /\ C \in Seq(Edge) /\ ToSet(C) \subseteq Q
      /\ Cardinality(Id) <= EdgeLimit => ToSet(C) = Q
  BY <1>1, CandidatesKnown DEF EdgeCandidates
<1>3. Q \subseteq Edge /\ \A e \in Q : e.src = i /\ e.dst \in pool
  BY <1>1, QualifyingKnown
<1>4. Upserts(C) \in Seq(Edge) /\ ToSet(Upserts(C)) = ToSet(C) \cup back
  BY <1>2, UpsertsKnown
<1>5. \A j \in pool : ~Weak(EdgeTo(i, listed[i], j, listed[j])) => EdgeTo(i, listed[i], j, listed[j]) \in Q
  BY DEF Qualifying
<1>6. \A j \in pool : j \in Id /\ listed[j] \in Memory
  BY Remembered
<1>7. \A j \in pool : /\ EdgeTo(i, listed[i], j, listed[j]).src = i
                      /\ EdgeTo(i, listed[i], j, listed[j]).dst = j
                      /\ EdgeTo(i, listed[i], j, listed[j]).type \in RelationType
  <2> TAKE j \in pool
  <2>1. EdgeTo(i, listed[i], j, listed[j]) \in Edge
    BY <1>1, <1>6, EdgeToType
  <2>2. EdgeTo(i, listed[i], j, listed[j]).type \in RelationType
    BY <2>1 DEF Edge
  <2> QED BY <2>2, <1>1, <1>6, EdgeToType
<1> HIDE DEF Q, C
<1>8. \A e \in ToSet(C) : e \in Edge /\ e.src = i /\ e.dst \in pool
  BY <1>2, <1>3
<1>9. \A e \in ToSet(C) : Key(Reciprocal(e)) = <<e.dst, e.src, e.type>> /\ Reciprocal(e).src = e.dst /\ Reciprocal(e).dst = e.src
  BY <1>8, ReciprocalType DEF Reciprocal, Edge
<1>10. \A e \in back : e.dst = i
  BY <1>8, <1>9
<1>11. \A a, b \in Id : Sound(listed, a, b, Keys(ToSet(Upserts(C))))
  <2> SUFFICES ASSUME NEW a \in Id, NEW b \in Id, NEW t \in RelationType, <<a, b, t>> \in Keys(ToSet(Upserts(C)))
               PROVE  /\ listed[a] # None /\ listed[b] # None
                      /\ t \in Symmetric => <<b, a, t>> \in Keys(ToSet(Upserts(C)))
    BY DEF Sound
  <2>1. listed[i] # None /\ \A j \in pool : listed[j] # None
    BY DEF Present
  <2>2. CASE \E e \in ToSet(C) : <<a, b, t>> = Key(e)
    <3>1. PICK e \in ToSet(C) : <<a, b, t>> = Key(e)
      BY <2>2
    <3>2. a = i /\ b = e.dst /\ t = e.type /\ b \in pool
      BY <3>1, <1>8 DEF Key
    <3>3. t \in Symmetric => Reciprocal(e) \in ToSet(Upserts(C)) /\ Key(Reciprocal(e)) = <<b, a, t>>
      BY <3>2, <1>4, <1>8, <1>9
    <3> QED BY <3>2, <3>3, <2>1 DEF Keys
  <2>3. CASE \E e \in ToSet(C) : e.type \in Symmetric /\ <<a, b, t>> = Key(Reciprocal(e))
    <3>1. PICK e \in ToSet(C) : <<a, b, t>> = Key(Reciprocal(e))
      BY <2>3
    <3>2. b = i /\ a = e.dst /\ t = e.type /\ a \in pool
      BY <3>1, <1>8, <1>9
    <3>3. Key(e) = <<b, a, t>> /\ e \in ToSet(Upserts(C))
      BY <3>2, <1>4, <1>8 DEF Key
    <3> QED BY <3>2, <3>3, <2>1 DEF Keys
  <2> QED BY <1>4, <2>2, <2>3 DEF Keys
<1>12. ASSUME Cardinality(Id) <= EdgeLimit, NEW j \in pool, ~Weak(EdgeTo(i, listed[i], j, listed[j]))
       PROVE  \E t \in RelationType : <<i, j, t>> \in Keys(ToSet(Upserts(C)))
  <2> DEFINE e == EdgeTo(i, listed[i], j, listed[j])
  <2>1. e \in ToSet(Upserts(C))
    BY <1>12, <1>2, <1>4, <1>5
  <2>2. Key(e) = <<i, j, e.type>> /\ e.type \in RelationType
    BY <1>7 DEF Key
  <2> HIDE DEF e
  <2> QED BY <2>1, <2>2 DEF Keys
<1>13. \A e \in ToSet(Upserts(C)) : i \in {e.src, e.dst}
  BY <1>4, <1>8, <1>10
<1> QED BY <1>4, <1>11, <1>12, <1>13 DEF C

\* A refresh of i from the vault as it is joins i to every other memory as it should be.
LEMMA RefreshJoins ==
  ASSUME NEW listed \in Listing, NEW i \in Present(listed), NEW j \in Id, i # j
  PROVE  Joined(listed, i, j, Keys(ToSet(Upserts(
           EdgeCandidates(i, listed[i], listed, PoolFor(i, listed[i], listed))))), {})
<1> DEFINE pool == PoolFor(i, listed[i], listed)
<1>1. pool \in SUBSET (Present(listed) \ {i}) /\ i \in Id
  BY DEF PoolFor, Present
<1>2. Wants(listed, i, j) => j \in pool /\ ~Weak(EdgeTo(i, listed[i], j, listed[j]))
  BY DEF Wants, Calls, PoolFor, Present
<1> HIDE DEF pool
<1> QED BY <1>1, <1>2, WritesSound DEF Joined, pool

\* A rebuild from a listing joins all that is listed, and leaves sound what is not.
LEMMA RebuildJoins ==
  ASSUME NEW listed \in Listing, NEW i \in Id, NEW j \in Id, i # j, NEW edges \in SUBSET Edge,
         NEW notes, listed[i] \in {None, notes[i]}, listed[j] \in {None, notes[j]},
         Sound(notes, i, j, Keys(edges)), Sound(notes, j, i, Keys(edges)),
         NEW apart, {i, j} \notin apart => listed[i] = notes[i] /\ listed[j] = notes[j]
  PROVE  Joined(notes, i, j, Keys(Rebuilt(edges, listed)), apart)
<1> DEFINE written(k) == Keys(ToSet(Upserts(Reindexed(k, listed))))
           K == Keys(Rebuilt(edges, listed))
<1>1. K = Keys(edges) \cup UNION {written(k) : k \in Present(listed)}
  BY RebuiltKnown
<1>2. ASSUME NEW k \in Present(listed)
      PROVE  /\ \A a, b \in Id : Sound(listed, a, b, written(k))
             /\ Cardinality(Id) <= EdgeLimit =>
                  \A l \in PoolFromIndex(k, listed[k], listed) : ~Weak(EdgeTo(k, listed[k], l, listed[l])) =>
                    \E t \in RelationType : <<k, l, t>> \in written(k)
  <2>1. PoolFromIndex(k, listed[k], listed) \in SUBSET (Present(listed) \ {k})
    BY DEF PoolFromIndex
  <2> QED BY <2>1, WritesSound DEF Reindexed
<1> HIDE DEF written, K
<1>3. Sound(notes, i, j, K) /\ Sound(notes, j, i, K)
  <2>1. \A k \in Present(listed) : Sound(listed, i, j, written(k)) /\ Sound(listed, j, i, written(k))
    BY <1>2
  <2>2. \A k \in Present(listed) : Sound(notes, i, j, written(k)) /\ Sound(notes, j, i, written(k))
    BY <2>1 DEF Sound
  <2> QED BY <1>1, <2>2 DEF Sound
<1>4. ASSUME Cardinality(Id) <= EdgeLimit, Wants(notes, i, j), {i, j} \notin apart
      PROVE  \E t \in RelationType : <<i, j, t>> \in K
  <2>1. listed[i] = notes[i] /\ listed[j] = notes[j]
    BY <1>4
  <2>2. i \in Present(listed) /\ j \in PoolFromIndex(i, listed[i], listed)
    BY <1>4, <2>1 DEF Wants, Calls, PoolFromIndex, Present
  <2>3. ~Weak(EdgeTo(i, listed[i], j, listed[j]))
    BY <1>4, <2>1 DEF Wants, Calls
  <2> QED BY <1>1, <1>2, <1>4, <2>2, <2>3
<1> QED BY <1>3, <1>4 DEF Joined, K

\* As to memories i and j, two sets of keys say the same.
SameOf(i, j, keys, others) ==
  \A t \in RelationType : /\ <<i, j, t>> \in keys <=> <<i, j, t>> \in others
                          /\ <<j, i, t>> \in keys <=> <<j, i, t>> \in others

\* Only the keys of edges between the two, and what they read, tell whether they are joined.
LEMMA JoinedAlike ==
  ASSUME NEW notes, NEW others, NEW i, NEW j, NEW keys, NEW others_keys, NEW apart, NEW others_apart,
         others[i] = notes[i], others[j] = notes[j],
         {i, j} \in apart => {i, j} \in others_apart,
         SameOf(i, j, keys, others_keys), Joined(notes, i, j, keys, apart)
  PROVE  Joined(others, i, j, others_keys, others_apart)
<1>1. Sound(others, i, j, others_keys) /\ Sound(others, j, i, others_keys)
  BY DEF Joined, Sound, SameOf
<1>2. Wants(others, i, j) <=> Wants(notes, i, j)
  BY DEF Wants
<1>3. Wants(others, j, i) <=> Wants(notes, j, i)
  BY DEF Wants
<1>4. ASSUME NEW t \in RelationType, <<i, j, t>> \in keys \/ <<j, i, t>> \in keys
      PROVE  <<i, j, t>> \in others_keys \/ <<j, i, t>> \in others_keys
  BY <1>4 DEF SameOf
<1> QED BY <1>1, <1>2, <1>3, <1>4 DEF Joined

(***************************************************************************)
(* Types.                                                                  *)
(***************************************************************************)
InHand == {"write", "bury", "line", "row", "relist", "drop", "link", "unsearch"}
Rebuilding == {"publish", "clear", "fill"}

\* What an operation has in hand at each of its steps.
HandsType ==
  \A p \in Process :
    /\ on[p] # None <=> step[p] \notin Rebuilding \cup {"idle"}
    /\ step[p] \in InHand => draft[p] \in Memory
    /\ step[p] \notin {"drop", "link"} => todo[p] = <<>>
    /\ step[p] = "link" => todo[p] # <<>>
    /\ \A e \in ToSet(todo[p]) : on[p] \in {e.src, e.dst}

LEMMA NoneApart == None \notin Id /\ None \notin Text /\ None \notin Memory
BY NoneAssumption

LEMMA ListingApart == None \notin Listing
BY ListingAssumption DEF Listing

LEMMA PairsType == \A i \in Id : Pairs(i) \subseteq AllPairs /\ \A j \in Id : {i, j} \in AllPairs
BY DEF Pairs, AllPairs

\* The parts of the state that the steps change together.
HandsOK ==
  /\ step \in [Process -> Step]
  /\ on \in [Process -> Id \cup {None}]
  /\ draft \in [Process -> Memory \cup {None}]
  /\ listing \in [Process -> Listing]
  /\ todo \in [Process -> Seq(Edge)]
  /\ met \in [Process -> SUBSET Id]
  /\ HandsType
LooseOK ==
  loose \in [rows : SUBSET Id, lines : SUBSET Id, pairs : SUBSET AllPairs, apart : SUBSET AllPairs]
RestOK ==
  /\ vault \in Listing /\ writer \in Process \cup {None}
  /\ current \in BOOLEAN
  /\ rows \in [Id -> Text \cup {None}] /\ lines \in [Id -> Text \cup {None}]
  /\ graph \in SUBSET Edge
  /\ cache \in [Process -> Listing \cup {None}] /\ known \in [Process -> SUBSET Id]
  /\ asker \in Process \cup {None}
  /\ seeds \subseteq Id /\ answer \subseteq Id /\ seen \subseteq Id /\ valid \subseteq Id
  /\ begun \in 0..MaxOperations /\ incidents \in 0..MaxIncidents

Typed == HandsOK /\ LooseOK /\ RestOK

\* Who is at work has read the vault.
Warm == \A p \in Process : step[p] # "idle" => cache[p] \in Listing

TypeInv == HandsOK /\ LooseOK /\ RestOK /\ Warm

LEMMA TextsType ==
  ASSUME NEW view \in Listing
  PROVE  Texts(view) \in [Id -> Text \cup {None}] /\ Empty \in Listing
BY DEF Listing, Texts, Empty, Memory

LEMMA ViewType ==
  ASSUME RestOK, NEW p \in Process, NEW view \in Views(p)
  PROVE  view \in Listing
BY DEF RestOK, Views

LEMMA ReadType ==
  ASSUME RestOK, NEW p \in Process, NEW view \in Listing, Read(p, view)
  PROVE  cache' \in [Process -> Listing \cup {None}] /\ known' \in [Process -> SUBSET Id]
<1>1. Present(vault) \in SUBSET Id
  BY DEF Present
<1> QED BY <1>1 DEF RestOK, Read

LEMMA OthersType ==
  ASSUME HandsOK, NEW p \in Process
  PROVE  Others(p) \in SUBSET Id
BY DEF HandsOK, Others

LEMMA ReturnHands ==
  ASSUME HandsOK, NEW p \in Process, Return(p), met' \in [Process -> SUBSET Id]
  PROVE  HandsOK'
<1>1. Empty \in Listing
  BY DEF Listing, Empty
<1>2. <<>> \in Seq(Edge) /\ ToSet(<<>>) = {}
  BY DEF ToSet
<1> QED BY <1>1, <1>2 DEF HandsOK, HandsType, Return, Goto, Step, Rebuilding, InHand

LEMMA LeaveHands ==
  ASSUME HandsOK, NEW p \in Process, Leave(p)
  PROVE  HandsOK'
<1>1. met' \in [Process -> SUBSET Id]
  BY DEF HandsOK, Leave
<1> QED BY <1>1, ReturnHands DEF Leave

LEMMA DisturbType ==
  ASSUME HandsOK, NEW p \in Process, NEW own \in SUBSET Id, Disturb(p, own)
  PROVE  met' \in [Process -> SUBSET Id]
BY DEF HandsOK, Disturb

LEMMA RenewType ==
  ASSUME HandsOK, LooseOK, NEW p \in Process, on[p] \in Id, NEW renewed, Renew(p, renewed)
  PROVE  LooseOK'
<1>1. Pairs(on[p]) \subseteq AllPairs /\ {{on[p], j} : j \in met[p]} \subseteq AllPairs
  BY PairsType DEF HandsOK
<1> QED BY <1>1 DEF LooseOK, Renew

LEMMA SpoilType ==
  ASSUME LooseOK, NEW is \in SUBSET Id, Spoil(is)
  PROVE  LooseOK'
<1>1. UNION {Pairs(i) : i \in is} \subseteq AllPairs
  BY PairsType
<1> QED BY <1>1 DEF LooseOK, Spoil

\* Operations begin empty-handed, but for the memory.
LEMMA BeginHands ==
  ASSUME HandsOK, RestOK, NEW p \in Process, NEW i \in Id \cup {None},
         NEW s \in Step \ {"idle", "drop", "link"}, s \in Rebuilding <=> i = None,
         NEW doubt \in SUBSET Id, Begin(p, i, s, doubt), s \in InHand => draft'[p] \in Memory,
         draft' \in [Process -> Memory \cup {None}], \A q \in Process \ {p} : draft'[q] = draft[q],
         listing' \in [Process -> Listing]
  PROVE  HandsOK' /\ begun' \in 0..MaxOperations
<1>1. Others(p) \in SUBSET Id
  BY OthersType
<1>2. met' \in [Process -> SUBSET Id]
  BY <1>1 DEF HandsOK, Begin, Met
<1>3. begun' \in 0..MaxOperations
  BY BoundsAssumption DEF RestOK, Begin
<1>4. todo' = todo /\ todo[p] = <<>> /\ step' = [step EXCEPT ![p] = s] /\ on' = [on EXCEPT ![p] = i]
  BY DEF Begin, Goto, HandsOK, HandsType
<1>5. ToSet(<<>>) = {}
  BY DEF ToSet
<1> QED BY <1>2, <1>3, <1>4, <1>5 DEF HandsOK, HandsType

LEMMA TypeInit ==
  ASSUME Init
  PROVE  TypeInv
<1>1. vault \in Listing
  BY DEF Init, Listing, Memory
<1>2. graph \in SUBSET Edge
  BY <1>1, RebuiltKnown DEF Init
<1>3. /\ rows \in [Id -> Text \cup {None}] /\ lines \in [Id -> Text \cup {None}]
      /\ Empty \in Listing
  BY <1>1, TextsType DEF Init, Empty, Listed
<1>4. <<>> \in Seq(Edge) /\ ToSet(<<>>) = {}
  BY DEF ToSet
<1>5. HandsOK
  BY <1>3, <1>4 DEF Init, HandsOK, HandsType, Step, Rebuilding, InHand
<1>6. LooseOK
  BY DEF Init, LooseOK, NothingLoose
<1>7. RestOK
  BY <1>1, <1>2, <1>3, BoundsAssumption DEF Init, RestOK
<1>8. Warm
  BY DEF Init, Warm
<1> QED BY <1>5, <1>6, <1>7, <1>8 DEF TypeInv

LEMMA ChangeTypes ==
  ASSUME TypeInv, NEW p \in Process, Change(p)
  PROVE  Typed'
<1>1. HandsOK /\ LooseOK /\ RestOK
  BY DEF TypeInv
<1>2. PICK i \in Id : \/ \E t \in Text : Save(p, i, t) \/ Update(p, i, t)
                      \/ Invalidate(p, i) \/ Delete(p, i) \/ Purge(p, i)
  BY DEF Change
<1>3. ASSUME NEW view \in Views(p)
      PROVE  /\ view \in Listing /\ (view[i] = None \/ view[i] \in Memory)
             /\ Read(p, view) => /\ cache' \in [Process -> Listing \cup {None}]
                                 /\ known' \in [Process -> SUBSET Id]
  BY <1>1, ViewType, ReadType DEF Listing
<1>4. ASSUME NEW s \in {"write", "bury"}, NEW doubt \in SUBSET Id, Begin(p, i, s, doubt),
             NEW m \in Memory, draft' = [draft EXCEPT ![p] = m], listing' = listing
      PROVE  HandsOK' /\ begun' \in 0..MaxOperations
  <2>1. /\ draft' \in [Process -> Memory \cup {None}] /\ draft'[p] \in Memory
        /\ \A q \in Process \ {p} : draft'[q] = draft[q]
    BY <1>1, <1>4 DEF HandsOK
  <2>2. i \in Id \cup {None} /\ s \in Step \ {"idle", "drop", "link"} /\ (s \in Rebuilding <=> i = None)
    BY NoneApart DEF Step, Rebuilding
  <2>3. listing' \in [Process -> Listing]
    BY <1>1, <1>4 DEF HandsOK
  <2> QED BY <1>1, <1>4, <2>1, <2>2, <2>3, BeginHands
<1>5. ASSUME NEW t \in Text, Save(p, i, t) PROVE Typed'
  <2>1. PICK view \in Views(p) :
          /\ Read(p, view)
          /\ LET mem == [text |-> t, valid |-> TRUE, related |-> {},
                         contradicts |-> Contradictions(t, view)]
             IN  draft' = [draft EXCEPT ![p] = [mem EXCEPT !.related = SuggestRelated(i, mem, view)]]
    BY <1>5 DEF Save
  <2> DEFINE mem == [text |-> t, valid |-> TRUE, related |-> {}, contradicts |-> Contradictions(t, view)]
             noted == [mem EXCEPT !.related = SuggestRelated(i, mem, view)]
  <2>2. mem \in Memory
    BY DEF Memory, Contradictions
  <2>3. SuggestRelated(i, mem, view) \in SUBSET Id
    BY <2>2, <1>3, RelatedIds
  <2>4. noted \in Memory
    BY <2>2, <2>3 DEF Memory
  <2>5. draft' = [draft EXCEPT ![p] = noted]
    BY <2>1
  <2> HIDE DEF noted
  <2>6. HandsOK' /\ begun' \in 0..MaxOperations
    <3>1. Begin(p, i, "write", {}) /\ listing' = listing
      BY <1>5 DEF Save
    <3>2. {} \in SUBSET Id /\ "write" \in {"write", "bury"}
      OBVIOUS
    <3> QED BY <1>4, <2>4, <2>5, <3>1, <3>2
  <2>7. cache' \in [Process -> Listing \cup {None}] /\ known' \in [Process -> SUBSET Id]
    BY <1>3, <2>1
  <2>8. LooseOK' /\ RestOK'
    BY <2>6, <2>7, <1>1, <1>5 DEF Save, Begin, LooseOK, RestOK, files, indexes, recall
  <2> QED BY <2>6, <2>8 DEF Typed
<1>6. ASSUME NEW t \in Text, Update(p, i, t) PROVE Typed'
  <2>1. PICK view \in Views(p) :
          /\ view[i] # None
          /\ Read(p, view)
          /\ LET mem == [view[i] EXCEPT !.text = t]
             IN  draft' = [draft EXCEPT ![p] = [mem EXCEPT !.related = SuggestRelated(i, mem, view)]]
    BY <1>6 DEF Update
  <2> DEFINE mem == [view[i] EXCEPT !.text = t]
             noted == [mem EXCEPT !.related = SuggestRelated(i, mem, view)]
  <2>2. mem \in Memory
    BY <1>3, <2>1 DEF Memory
  <2>3. SuggestRelated(i, mem, view) \in SUBSET Id
    BY <2>2, <1>3, RelatedIds
  <2>4. draft' = [draft EXCEPT ![p] = noted]
    BY <2>1
  <2> HIDE DEF mem
  <2>5. noted \in Memory
    BY <2>2, <2>3 DEF Memory
  <2> HIDE DEF noted
  <2>6. HandsOK' /\ begun' \in 0..MaxOperations
    <3>1. Begin(p, i, "write", {}) /\ listing' = listing
      BY <1>6 DEF Update
    <3>2. {} \in SUBSET Id /\ "write" \in {"write", "bury"}
      OBVIOUS
    <3> QED BY <1>4, <2>4, <2>5, <3>1, <3>2
  <2>7. cache' \in [Process -> Listing \cup {None}] /\ known' \in [Process -> SUBSET Id]
    BY <1>3, <2>1
  <2>8. LooseOK' /\ RestOK'
    BY <2>6, <2>7, <1>1, <1>6 DEF Update, Begin, LooseOK, RestOK, indexes, recall
  <2> QED BY <2>6, <2>8 DEF Typed
<1>7. ASSUME Invalidate(p, i) PROVE Typed'
  <2>1. PICK view \in Views(p) :
          /\ view[i] # None
          /\ Begin(p, i, "bury", Outdated(view) \cap {i})
          /\ Read(p, view)
          /\ draft' = [draft EXCEPT ![p] = [view[i] EXCEPT !.valid = FALSE]]
    BY <1>7 DEF Invalidate
  <2> DEFINE buried == [view[i] EXCEPT !.valid = FALSE]
  <2>2. buried \in Memory
    BY <1>3, <2>1 DEF Memory
  <2>3. draft' = [draft EXCEPT ![p] = buried]
    BY <2>1
  <2> HIDE DEF buried
  <2>4. HandsOK' /\ begun' \in 0..MaxOperations
    <3>1. Outdated(view) \cap {i} \in SUBSET Id /\ "bury" \in {"write", "bury"} /\ listing' = listing
      BY <1>7 DEF Invalidate
    <3> QED BY <1>4, <2>1, <2>2, <2>3, <3>1
  <2>5. cache' \in [Process -> Listing \cup {None}] /\ known' \in [Process -> SUBSET Id]
    BY <1>3, <2>1
  <2>6. LooseOK' /\ RestOK'
    BY <2>1, <2>4, <2>5, <1>1, <1>7 DEF Invalidate, Begin, LooseOK, RestOK, indexes, recall
  <2> QED BY <2>4, <2>6 DEF Typed
<1>8. ASSUME NEW s \in {"unline", "purge row"}, TakeAway(p, i, s) PROVE Typed'
  <2>1. HandsOK' /\ begun' \in 0..MaxOperations
    <3>1. /\ draft' \in [Process -> Memory \cup {None}] /\ listing' \in [Process -> Listing]
          /\ \A q \in Process \ {p} : draft'[q] = draft[q]
      BY <1>8, <1>1 DEF HandsOK, TakeAway
    <3>2. Begin(p, i, s, {})
      BY <1>8 DEF TakeAway
    <3>3. /\ i \in Id \cup {None} /\ s \in Step \ {"idle", "drop", "link"} /\ (s \in Rebuilding <=> i = None)
          /\ s \notin InHand /\ {} \in SUBSET Id
      BY NoneApart DEF Step, Rebuilding, InHand
    <3> QED BY <3>1, <3>2, <3>3, <1>1, BeginHands
  <2>2. vault' \in Listing
    BY <1>1, <1>8 DEF TakeAway, RestOK, Listing
  <2>3. cache' \in [Process -> Listing \cup {None}] /\ known' \in [Process -> SUBSET Id]
    <3>1. Present(vault) \in SUBSET Id
      BY DEF Present
    <3> QED BY <1>1, <1>8, <2>2, <3>1 DEF TakeAway, RestOK
  <2>4. LooseOK' /\ RestOK'
    BY <2>1, <2>2, <2>3, <1>1, <1>8 DEF TakeAway, Begin, LooseOK, RestOK, indexes, recall
  <2> QED BY <2>1, <2>4 DEF Typed
<1> QED BY <1>2, <1>5, <1>6, <1>7, <1>8 DEF Delete, Purge

LEMMA KeepHands ==
  ASSUME HandsOK, NEW p \in Process, on[p] # None, NEW s \in Step \ (Rebuilding \cup {"idle"}),
         Goto(p, s), UNCHANGED <<on, draft, listing, todo>>, met' \in [Process -> SUBSET Id],
         s \in InHand => step[p] \in InHand,
         s \notin {"drop", "link"} => todo[p] = <<>>, s = "link" => todo[p] # <<>>
  PROVE  HandsOK'
BY DEF HandsOK, HandsType, Goto

\* Who is at a step of an operation is at it about a memory.
LEMMA AtWork ==
  ASSUME HandsOK, NEW p \in Process, step[p] \notin Rebuilding \cup {"idle"}
  PROVE  on[p] \in Id /\ on[p] # None
BY DEF HandsOK, HandsType

LEMMA ProceedTypes ==
  ASSUME TypeInv, NEW p \in Process, Proceed(p)
  PROVE  Typed'
<1>1. HandsOK /\ LooseOK /\ RestOK
  BY DEF TypeInv
<1>2. met \in [Process -> SUBSET Id] /\ draft \in [Process -> Memory \cup {None}] /\ step \in [Process -> Step]
  BY <1>1 DEF HandsOK
<1>3. step[p] \in InHand => draft[p] \in Memory
  BY <1>1 DEF HandsOK, HandsType
<1>4. step[p] \notin {"drop", "link"} => todo[p] = <<>>
  BY <1>1 DEF HandsOK, HandsType
<1>5. ASSUME Write(p) PROVE Typed'
  <2>1. on[p] \in Id /\ on[p] # None /\ step[p] \in InHand
    BY <1>1, <1>5, AtWork DEF Write, Rebuilding, InHand
  <2>2. HandsOK'
    BY <1>1, <1>2, <1>4, <1>5, <2>1, KeepHands DEF Write, Keep, Step, Rebuilding, InHand
  <2>3. vault' \in Listing
    BY <1>1, <1>3, <1>5, <2>1 DEF Write, RestOK, Listing
  <2>4. known' \in [Process -> SUBSET Id] /\ valid' \subseteq Id
    <3>1. Present(vault') \in SUBSET Id /\ Valid(vault') \in SUBSET Id
      BY DEF Present, Valid
    <3> QED BY <1>1, <1>5, <3>1 DEF Write, Witness, RestOK
  <2>5. cache' \in [Process -> Listing \cup {None}]
    <3>1. cache[p] \in Listing
      BY <1>5 DEF TypeInv, Warm, Write
    <3>2. [cache[p] EXCEPT ![on[p]] = draft[p]] \in Listing
      BY <1>2, <2>1, <3>1 DEF Listing
    <3>3. cache' = [cache EXCEPT ![p] = [cache[p] EXCEPT ![on[p]] = draft[p]]]
      BY <1>5 DEF Write
    <3> QED BY <1>1, <3>2, <3>3 DEF RestOK
  <2>6. RestOK' /\ LooseOK'
    BY <1>1, <1>5, <2>3, <2>4, <2>5 DEF Write, RestOK, LooseOK, indexes, counts
  <2> QED BY <2>2, <2>6 DEF Typed
<1>6. ASSUME Line(p) PROVE Typed'
  <2>1. on[p] \in Id /\ on[p] # None /\ step[p] \in InHand
    BY <1>1, <1>6, AtWork DEF Line, Rebuilding, InHand
  <2>2. HandsOK'
    BY <1>1, <1>2, <1>4, <1>6, <2>1, KeepHands DEF Line, Keep, Step, Rebuilding, InHand
  <2>3. draft[p].text \in Text
    BY <1>3, <2>1 DEF Memory
  <2>4. RestOK' /\ LooseOK'
    BY <1>1, <1>6, <2>1, <2>3 DEF Line, RestOK, LooseOK, files, caches, recall, counts
  <2> QED BY <2>2, <2>4 DEF Typed
<1>7. ASSUME Unline(p) PROVE Typed'
  <2>1. on[p] \in Id /\ on[p] # None
    BY <1>1, <1>7, AtWork DEF Unline, Rebuilding
  <2>2. HandsOK' /\ LooseOK'
    <3>1. CASE step[p] = "unline"
      <4>1. Goto(p, "unrow") /\ Keep(p) /\ UNCHANGED loose
        BY <1>7, <3>1 DEF Unline
      <4> QED BY <1>1, <1>2, <1>4, <3>1, <4>1, <2>1, KeepHands DEF Keep, Step, Rebuilding, InHand, LooseOK
    <3>2. CASE step[p] # "unline"
      <4>1. Leave(p) /\ Renew(p, {"rows", "lines", "gone"})
        BY <1>7, <3>2 DEF Unline
      <4> QED BY <1>1, <2>1, <4>1, LeaveHands, RenewType
    <3> QED BY <3>1, <3>2
  <2>3. RestOK'
    BY <1>1, <1>7, <2>1 DEF Unline, RestOK, files, caches, recall, counts
  <2> QED BY <2>2, <2>3 DEF Typed
<1>8. ASSUME Migrate(p) PROVE Typed'
  <2>1. PICK view \in Views(p) : Read(p, view) /\ RebuildRows(view)
    BY <1>8 DEF Migrate
  <2>2. /\ Texts(view) \in [Id -> Text \cup {None}] /\ Outdated(view) \in SUBSET Id
        /\ cache' \in [Process -> Listing \cup {None}] /\ known' \in [Process -> SUBSET Id]
    BY <1>1, <2>1, ViewType, ReadType, TextsType DEF Outdated
  <2>3. RestOK' /\ LooseOK'
    BY <1>1, <1>8, <2>1, <2>2 DEF Migrate, RebuildRows, RestOK, LooseOK, files, recall, counts
  <2>4. HandsOK'
    BY <1>1, <1>8 DEF Migrate, hands, HandsOK, HandsType
  <2> QED BY <2>3, <2>4 DEF Typed
<1>9. ASSUME Row(p) PROVE Typed'
  <2>1. on[p] \in Id /\ on[p] # None /\ step[p] \in InHand
    BY <1>1, <1>9, AtWork DEF Row, Rebuilding, InHand
  <2>2. HandsOK'
    BY <1>1, <1>2, <1>4, <1>9, <2>1, KeepHands DEF Row, Keep, Step, Rebuilding, InHand
  <2>3. draft[p].text \in Text
    BY <1>3, <2>1 DEF Memory
  <2>4. RestOK' /\ LooseOK'
    BY <1>1, <1>9, <2>1, <2>3 DEF Row, RestOK, LooseOK, files, caches, recall, counts
  <2> QED BY <2>2, <2>4 DEF Typed
<1>10. ASSUME Unrow(p) PROVE Typed'
  <2>1. on[p] \in Id /\ on[p] # None
    BY <1>1, <1>10, AtWork DEF Unrow, AtRow, Rebuilding
  <2>2. HandsOK' /\ LooseOK'
    <3>1. CASE step[p] = "unsearch"
      <4>1. Leave(p) /\ Renew(p, {"rows"})
        BY <1>10, <3>1 DEF Unrow
      <4> QED BY <1>1, <2>1, <4>1, LeaveHands, RenewType
    <3>2. CASE step[p] # "unsearch"
      <4>1. Goto(p, IF step[p] = "unrow" THEN "unlink" ELSE "purge line") /\ Keep(p) /\ UNCHANGED loose
        BY <1>10, <3>2 DEF Unrow
      <4>2. step[p] \notin {"drop", "link"}
        BY <1>10 DEF Unrow, AtRow
      <4> QED BY <1>1, <1>2, <1>4, <4>1, <4>2, <2>1, KeepHands DEF Keep, Step, Rebuilding, InHand, LooseOK
    <3> QED BY <3>1, <3>2
  <2>3. RestOK'
    BY <1>1, <1>10, <2>1 DEF Unrow, RestOK, files, caches, recall, counts
  <2> QED BY <2>2, <2>3 DEF Typed
<1>11. ASSUME Relist(p) PROVE Typed'
  <2> DEFINE i == on[p]
  <2>1. i \in Id /\ i # None
    BY <1>1, <1>11, AtWork DEF Relist, Rebuilding
  <2>2. PICK view \in Views(p) :
          /\ Read(p, view)
          /\ IF view[i] = None
             THEN Leave(p) /\ Spoil({i})
             ELSE /\ todo' = [todo EXCEPT ![p] = Upserts(Refreshed(i, view))]
                  /\ met' = [met EXCEPT ![p] = @ \cup Outdated(view)]
                  /\ Goto(p, "drop")
                  /\ UNCHANGED <<on, draft, listing, loose>>
    BY <1>11 DEF Relist
  <2>3. /\ view \in Listing /\ Outdated(view) \in SUBSET Id
        /\ cache' \in [Process -> Listing \cup {None}] /\ known' \in [Process -> SUBSET Id]
    BY <1>1, <2>2, ViewType, ReadType DEF Outdated
  <2>4. HandsOK' /\ LooseOK'
    <3>1. CASE view[i] = None
      BY <1>1, <2>1, <2>2, <3>1, LeaveHands, SpoilType
    <3>2. CASE view[i] # None
      <4> DEFINE writes == Upserts(Refreshed(i, view))
      <4>1. i \in Present(view) /\ PoolFor(i, view[i], view) \in SUBSET (Present(view) \ {i})
        BY <2>1, <3>2 DEF Present, PoolFor
      <4>2. writes \in Seq(Edge) /\ \A e \in ToSet(writes) : i \in {e.src, e.dst}
        BY <2>3, <4>1, WritesSound DEF Refreshed
      <4>3. /\ todo' = [todo EXCEPT ![p] = writes] /\ Goto(p, "drop")
            /\ met' = [met EXCEPT ![p] = @ \cup Outdated(view)] /\ UNCHANGED <<on, draft, listing, loose>>
        BY <2>2, <3>2
      <4>4. step[p] = "relist"
        BY <1>11 DEF Relist
      <4>5. met' \in [Process -> SUBSET Id]
        BY <1>2, <2>3, <4>3
      <4> HIDE DEF writes
      <4> QED BY <1>1, <2>1, <4>2, <4>3, <4>4, <4>5 DEF HandsOK, HandsType, LooseOK, Goto, Step, Rebuilding, InHand
    <3> QED BY <3>1, <3>2
  <2>5. RestOK'
    BY <1>1, <1>11, <2>3 DEF Relist, RestOK, files, indexes, recall, counts
  <2> QED BY <2>4, <2>5 DEF Typed
<1>12. ASSUME Drop(p) PROVE Typed'
  <2>1. on[p] \in Id /\ on[p] # None
    BY <1>1, <1>12, AtWork DEF Drop, Rebuilding
  <2>2. HandsOK' /\ LooseOK'
    <3>1. CASE todo[p] = <<>>
      <4>1. Leave(p) /\ Renew(p, {"rows", "lines", "pairs"})
        BY <1>12, <3>1 DEF Drop
      <4> QED BY <1>1, <2>1, <4>1, LeaveHands, RenewType
    <3>2. CASE todo[p] # <<>>
      <4>1. Goto(p, "link") /\ Keep(p) /\ UNCHANGED loose /\ step[p] = "drop"
        BY <1>12, <3>2 DEF Drop
      <4> QED BY <1>1, <1>2, <3>2, <4>1, <2>1, KeepHands DEF Keep, Step, Rebuilding, InHand, LooseOK
    <3> QED BY <3>1, <3>2
  <2>3. RestOK'
    BY <1>1, <1>12 DEF Drop, Without, RestOK, files, caches, recall, counts
  <2> QED BY <2>2, <2>3 DEF Typed
<1>13. ASSUME Link(p) PROVE Typed'
  <2>1. on[p] \in Id /\ on[p] # None /\ todo[p] \in Seq(Edge) /\ todo[p] # <<>> /\ step[p] = "link"
    BY <1>1, <1>13, AtWork DEF Link, Rebuilding, HandsOK, HandsType
  <2>2. HandsOK' /\ LooseOK'
    <3>1. CASE Len(todo[p]) = 1
      <4>1. Leave(p) /\ Renew(p, {"rows", "lines", "pairs"})
        BY <1>13, <3>1 DEF Link
      <4> QED BY <1>1, <2>1, <4>1, LeaveHands, RenewType
    <3>2. CASE Len(todo[p]) # 1
      <4>1. todo' = [todo EXCEPT ![p] = Tail(todo[p])] /\ UNCHANGED <<step, on, draft, listing, met, loose>>
        BY <1>13, <3>2 DEF Link
      <4>2. Tail(todo[p]) \in Seq(Edge) /\ Tail(todo[p]) # <<>> /\ ToSet(Tail(todo[p])) \subseteq ToSet(todo[p])
        BY <2>1, <3>2, TailKnown
      <4> QED BY <1>1, <2>1, <4>1, <4>2 DEF HandsOK, HandsType, LooseOK
    <3> QED BY <3>1, <3>2
  <2>3. Head(todo[p]) \in Edge
    BY <2>1
  <2>4. graph' \in SUBSET Edge
    BY <1>1, <1>13, <2>3, UpsertKnown DEF Link, RestOK
  <2>5. RestOK'
    BY <1>1, <1>13, <2>4 DEF Link, RestOK, files, caches, recall, counts
  <2> QED BY <2>2, <2>5 DEF Typed
<1>14. ASSUME Unlink(p) PROVE Typed'
  <2>1. on[p] \in Id /\ on[p] # None
    BY <1>1, <1>14, AtWork DEF Unlink, Rebuilding
  <2>2. HandsOK' /\ LooseOK'
    BY <1>1, <1>14, <2>1, LeaveHands, RenewType DEF Unlink
  <2>3. RestOK'
    BY <1>1, <1>14 DEF Unlink, Without, RestOK, files, caches, recall, counts
  <2> QED BY <2>2, <2>3 DEF Typed
<1> QED BY <1>5, <1>6, <1>7, <1>8, <1>9, <1>10, <1>11, <1>12, <1>13, <1>14 DEF Proceed

LEMMA RenewalTypes ==
  ASSUME TypeInv, NEW p \in Process, Renewal(p)
  PROVE  Typed'
<1>1. HandsOK /\ LooseOK /\ RestOK
  BY DEF TypeInv
<1>2. met[p] \in SUBSET Id /\ {} \in SUBSET Id /\ listing[p] \in Listing
  BY <1>1 DEF HandsOK
<1>3. ASSUME NEW s \in {"publish", "clear"}, Begin(p, None, s, {}), Read(p, vault),
             NEW listed \in Listing, listing' = [listing EXCEPT ![p] = listed],
             UNCHANGED <<files, indexes, draft, loose>>
      PROVE  Typed'
  <2>1. draft' \in [Process -> Memory \cup {None}] /\ listing' \in [Process -> Listing]
    BY <1>1, <1>3 DEF HandsOK, RestOK
  <2>2. HandsOK' /\ begun' \in 0..MaxOperations
    <3>1. /\ None \in Id \cup {None} /\ s \in Step \ {"idle", "drop", "link"} /\ s \in Rebuilding
          /\ s \notin InHand /\ \A q \in Process \ {p} : draft'[q] = draft[q]
      BY <1>3 DEF Step, Rebuilding, InHand
    <3> QED BY <1>1, <1>3, <2>1, <3>1, BeginHands
  <2>3. RestOK' /\ LooseOK'
    <3>1. cache' \in [Process -> Listing \cup {None}] /\ known' \in [Process -> SUBSET Id]
      BY <1>1, <1>3, ReadType DEF RestOK
    <3> QED BY <1>1, <1>3, <2>2, <3>1 DEF Begin, RestOK, LooseOK, files, indexes, recall
  <2> QED BY <2>2, <2>3 DEF Typed
<1>4. ASSUME Publish(p) PROVE Typed'
  <2>1. HandsOK'
    BY <1>1, <1>2, <1>4, ReturnHands, DisturbType DEF Publish
  <2>2. lines' \in [Id -> Text \cup {None}]
    BY <1>2, <1>4 DEF Publish, Listing, Memory
  <2>3. RestOK' /\ LooseOK'
    BY <1>1, <1>2, <1>4, <2>2 DEF Publish, RestOK, LooseOK, files, caches, recall, counts
  <2> QED BY <2>1, <2>3 DEF Typed
<1>5. ASSUME Rebuild(p) PROVE Typed'
  <2>1. /\ Texts(vault) \in [Id -> Text \cup {None}] /\ Outdated(vault) \in SUBSET Id
        /\ cache' \in [Process -> Listing \cup {None}] /\ known' \in [Process -> SUBSET Id]
    BY <1>1, <1>5, ReadType, TextsType DEF RestOK, Outdated, Rebuild
  <2>2. begun' \in 0..MaxOperations
    BY <1>1, <1>5, BoundsAssumption DEF Rebuild, RestOK
  <2>3. RestOK' /\ LooseOK'
    BY <1>1, <1>5, <2>1, <2>2 DEF Rebuild, RebuildRows, RestOK, LooseOK, files, recall
  <2>4. HandsOK'
    BY <1>1, <1>5 DEF Rebuild, hands, HandsOK, HandsType
  <2> QED BY <2>3, <2>4 DEF Typed
<1>6. ASSUME Clear(p) PROVE Typed'
  <2>1. met' \in [Process -> SUBSET Id]
    BY <1>1, <1>2, <1>6, DisturbType DEF Clear
  <2>2. HandsOK'
    BY <1>1, <1>6, <2>1 DEF Clear, Goto, HandsOK, HandsType, Step, Rebuilding, InHand
  <2>3. RestOK' /\ LooseOK'
    BY <1>1, <1>6 DEF Clear, RestOK, LooseOK, files, caches, recall, counts
  <2> QED BY <2>2, <2>3 DEF Typed
<1>7. ASSUME Fill(p) PROVE Typed'
  <2>1. HandsOK'
    BY <1>1, <1>2, <1>7, ReturnHands, DisturbType DEF Fill
  <2>2. graph' \in SUBSET Edge
    BY <1>1, <1>2, <1>7, RebuiltKnown DEF Fill, RestOK
  <2>3. /\ UNION {Pairs(i) : i \in met[p]} \subseteq AllPairs
        /\ UNION {Pairs(i) : i \in Id \ Present(listing[p])} \subseteq AllPairs
    BY <1>2, PairsType
  <2>4. RestOK' /\ LooseOK'
    BY <1>1, <1>7, <2>2, <2>3 DEF Fill, RestOK, LooseOK, files, caches, recall, counts
  <2> QED BY <2>1, <2>4 DEF Typed
<1>8. ASSUME NEW scope \in Scopes, Regraph(p, scope) PROVE Typed'
  <2> DEFINE listed == [i \in Id |-> IF i \in scope THEN vault[i] ELSE None]
  <2>1. listed \in Listing
    BY <1>1 DEF RestOK, Listing
  <2>2. listing' = [listing EXCEPT ![p] = listed]
    BY <1>8 DEF Regraph
  <2> HIDE DEF listed
  <2> QED BY <1>3, <1>8, <2>1, <2>2 DEF Regraph
<1>9. ASSUME Generate(p) PROVE Typed'
  BY <1>1, <1>3, <1>9 DEF Generate, RestOK
<1> QED BY <1>4, <1>5, <1>6, <1>7, <1>8, <1>9 DEF Renewal

LEMMA FaultTypes ==
  ASSUME TypeInv, NEW p \in Process, Fault(p)
  PROVE  Typed'
<1>1. HandsOK /\ LooseOK /\ RestOK
  BY DEF TypeInv
<1>2. incidents < MaxIncidents /\ incidents' = incidents + 1 => incidents' \in 0..MaxIncidents
  BY <1>1, BoundsAssumption DEF RestOK
<1>3. met \in [Process -> SUBSET Id] /\ (step[p] \notin {"drop", "link"} => todo[p] = <<>>)
  BY <1>1 DEF HandsOK, HandsType
<1>4. ASSUME RowFails(p) PROVE Typed'
  <2>1. on[p] \in Id /\ on[p] # None
    BY <1>1, <1>4, AtWork DEF RowFails, AtRow, Rebuilding
  <2>2. HandsOK' /\ LooseOK'
    <3>1. CASE step[p] = "unsearch"
      <4>1. Leave(p) /\ Spoil({on[p]})
        BY <1>4, <3>1 DEF RowFails
      <4> QED BY <1>1, <2>1, <4>1, LeaveHands, SpoilType
    <3>2. CASE step[p] # "unsearch"
      <4>1. /\ met' = [met EXCEPT ![p] = @ \cup {on[p]}]
            /\ step[p] = "row" => Goto(p, "relist")
            /\ step[p] = "unrow" => Goto(p, "unlink")
            /\ step[p] = "purge row" => Goto(p, "purge line")
            /\ UNCHANGED <<on, draft, listing, todo, loose>>
            /\ step[p] \in {"row", "unrow", "purge row"}
        BY <1>4, <3>2 DEF RowFails, AtRow
      <4>2. met' \in [Process -> SUBSET Id] /\ todo[p] = <<>>
        BY <1>3, <2>1, <4>1
      <4>3. HandsOK'
        <5>1. CASE step[p] = "row"
          BY <1>1, <2>1, <4>1, <4>2, <5>1, KeepHands DEF Step, Rebuilding, InHand
        <5>2. CASE step[p] = "unrow"
          BY <1>1, <2>1, <4>1, <4>2, <5>2, KeepHands DEF Step, Rebuilding, InHand
        <5>3. CASE step[p] = "purge row"
          BY <1>1, <2>1, <4>1, <4>2, <5>3, KeepHands DEF Step, Rebuilding, InHand
        <5> QED BY <4>1, <5>1, <5>2, <5>3
      <4> QED BY <1>1, <4>1, <4>3 DEF LooseOK
    <3> QED BY <3>1, <3>2
  <2>3. RestOK'
    BY <1>1, <1>2, <1>4 DEF RowFails, RestOK, files, indexes, caches, recall
  <2> QED BY <2>2, <2>3 DEF Typed
<1>5. ASSUME GraphFails(p) PROVE Typed'
  <2>1. on[p] \in Id
    BY <1>1, <1>5, AtWork DEF GraphFails, Rebuilding
  <2>2. HandsOK' /\ LooseOK'
    BY <1>1, <1>5, <2>1, LeaveHands, SpoilType DEF GraphFails
  <2>3. RestOK'
    BY <1>1, <1>2, <1>5 DEF GraphFails, RestOK, files, indexes, caches, recall
  <2> QED BY <2>2, <2>3 DEF Typed
<1>6. ASSUME Kill(p) PROVE Typed'
  <2>1. HandsOK'
    BY <1>1, <1>6, LeaveHands DEF Kill
  <2>2. LooseOK'
    <3>1. CASE on[p] # None
      <4>1. on[p] \in Id /\ Spoil({on[p]})
        BY <1>1, <1>6, <3>1 DEF Kill, HandsOK
      <4> QED BY <1>1, <4>1, SpoilType
    <3>2. CASE on[p] = None
      BY <1>1, <1>6, <3>2 DEF Kill, LooseOK
    <3> QED BY <3>1, <3>2
  <2>3. RestOK'
    BY <1>1, <1>2, <1>6 DEF Kill, RestOK, indexes
  <2> QED BY <2>1, <2>2, <2>3 DEF Typed
<1> QED BY <1>4, <1>5, <1>6 DEF Fault

\* What a recall reaches over the graph is in the listing it goes by.
LEMMA ReachedHere ==
  ASSUME NEW view, NEW found \in SUBSET Present(view)
  PROVE  ExpandGraph(graph, view, found) \in SUBSET Present(view)
<1> DEFINE here == Present(view)
<1>1. ExpandGraphIndex(graph, found, here) \in SUBSET here
  BY DEF ExpandGraphIndex
<1>2. ExpandRelated(view, found, here) \in SUBSET here
  <2> DEFINE next(from) == {j \in here : \E i \in from : j \in view[i].related}
  <2>1. ExpandRelated(view, found, here) = found \cup next(found) \cup next(next(found) \ found)
    BY DEF ExpandRelated
  <2>2. \A from : next(from) \in SUBSET here
    OBVIOUS
  <2> HIDE DEF next
  <2> QED BY <2>1, <2>2
<1> QED BY <1>1, <1>2 DEF ExpandGraph

LEMMA Answered ==
  ASSUME NEW p \in Process, Answer(p)
  PROVE  \E view \in Views(p) : Read(p, view) /\ answer' \subseteq Present(view)
<1>1. PICK view \in Views(p) :
        LET found == seeds \cap Present(view)
            reached == ExpandGraph(graph, view, found)
        IN  /\ Read(p, view)
            /\ IF found = {} THEN answer' = {}
               ELSE answer' \in {S \in SUBSET reached : found \subseteq S /\
                                   (S = reached \/ Cardinality(S) = RecallLimit)}
  BY DEF Answer
<1>2. ExpandGraph(graph, view, seeds \cap Present(view)) \in SUBSET Present(view)
  BY ReachedHere
<1> QED BY <1>1, <1>2

LEMMA RecallTypes ==
  ASSUME TypeInv, NEW p \in Process, Ask(p) \/ Answer(p)
  PROVE  Typed'
<1>1. HandsOK /\ LooseOK /\ RestOK
  BY DEF TypeInv
<1>2. \A view : Present(view) \in SUBSET Id
  BY DEF Present
<1>3. HandsOK' /\ LooseOK'
  BY <1>1 DEF Ask, Answer, hands, HandsOK, HandsType, LooseOK
<1>4. CASE Ask(p)
  <2>1. begun' \in 0..MaxOperations
    BY <1>1, <1>4, BoundsAssumption DEF Ask, RestOK
  <2>2. Valid(vault) \in SUBSET Id
    BY <1>2 DEF Valid
  <2>3. RestOK'
    BY <1>1, <1>4, <2>1, <2>2 DEF Ask, RestOK, files, indexes, caches
  <2> QED BY <1>3, <2>3 DEF Typed
<1>5. CASE Answer(p)
  <2>1. PICK view \in Views(p) : Read(p, view) /\ answer' \subseteq Present(view)
    BY <1>5, Answered
  <2>2. /\ cache' \in [Process -> Listing \cup {None}] /\ known' \in [Process -> SUBSET Id]
        /\ answer' \subseteq Id
    BY <1>1, <1>2, <2>1, ViewType, ReadType
  <2>3. RestOK'
    BY <1>1, <1>5, <2>2 DEF Answer, RestOK, files, indexes, counts
  <2> QED BY <1>3, <2>3 DEF Typed
<1> QED BY <1>4, <1>5

StepOf(p) == Change(p) \/ Proceed(p) \/ Renewal(p) \/ Fault(p)

\* What a step does to the files and to what the processes know of them.
LEMMA FileSteps ==
  ASSUME NEW p \in Process, StepOf(p) \/ Ask(p) \/ Answer(p)
  PROVE  \/ UNCHANGED <<vault, caches>> /\ (step[p] = "idle" => step'[p] = "idle")
         \/ \E view \in Views(p) : Read(p, view) /\ UNCHANGED vault
         \/ \E i \in Id : \E next : TakeAway(p, i, next)
         \/ Write(p)
         \/ Kill(p)
<1> DEFINE Rest == UNCHANGED <<vault, caches>> /\ (step[p] = "idle" => step'[p] = "idle")
           Reads == \E view \in Views(p) : Read(p, view) /\ UNCHANGED vault
<1>1. vault \in Views(p)
  BY DEF Views
<1>2. CASE Change(p)
  <2>1. PICK i \in Id : \/ \E t \in Text : Save(p, i, t) \/ Update(p, i, t)
                        \/ Invalidate(p, i) \/ Delete(p, i) \/ Purge(p, i)
    BY <1>2 DEF Change
  <2>2. ASSUME NEW t, Save(p, i, t) PROVE Reads
    BY <2>2 DEF Save, files
  <2>3. ASSUME NEW t, Update(p, i, t) PROVE Reads
    BY <2>3 DEF Update
  <2>4. CASE Invalidate(p, i)
    BY <2>4 DEF Invalidate
  <2>5. CASE Delete(p, i) \/ Purge(p, i)
    <3>1. \E next : TakeAway(p, i, next)
      BY <2>5 DEF Delete, Purge
    <3> QED BY <3>1
  <2> QED BY <2>1, <2>2, <2>3, <2>4, <2>5
<1>3. CASE Proceed(p)
  <2>1. CASE Line(p) \/ Unline(p) \/ Row(p) \/ Unrow(p) \/ Drop(p) \/ Link(p) \/ Unlink(p)
    <3>1. UNCHANGED <<vault, caches>> /\ step[p] # "idle"
      BY <2>1 DEF Line, Unline, Row, Unrow, AtRow, Drop, Link, Unlink, files
    <3> QED BY <3>1
  <2>2. CASE Migrate(p)
    BY <2>2 DEF Migrate, files
  <2>3. CASE Relist(p)
    BY <2>3 DEF Relist, files
  <2> QED BY <1>3, <2>1, <2>2, <2>3 DEF Proceed
<1>4. CASE Renewal(p)
  <2>1. CASE Publish(p) \/ Clear(p) \/ Fill(p)
    <3>1. UNCHANGED <<vault, caches>> /\ step[p] # "idle"
      BY <2>1 DEF Publish, Clear, Fill, files
    <3> QED BY <3>1
  <2>2. CASE Generate(p) \/ Rebuild(p) \/ \E scope \in Scopes : Regraph(p, scope)
    <3>1. Read(p, vault) /\ UNCHANGED vault
      BY <2>2 DEF Generate, Rebuild, Regraph, files
    <3> QED BY <1>1, <3>1
  <2> QED BY <1>4, <2>1, <2>2 DEF Renewal
<1>5. CASE Fault(p)
  <2>1. CASE RowFails(p) \/ GraphFails(p)
    <3>1. UNCHANGED <<vault, caches>> /\ step[p] # "idle"
      BY <2>1 DEF RowFails, AtRow, GraphFails, files
    <3> QED BY <3>1
  <2> QED BY <1>5, <2>1 DEF Fault
<1>6. CASE Ask(p)
  BY <1>6 DEF Ask, files, hands
<1>7. CASE Answer(p)
  BY <1>7, Answered DEF Answer, files
<1> QED BY <1>2, <1>3, <1>4, <1>5, <1>6, <1>7 DEF StepOf

LEMMA WarmStep ==
  ASSUME TypeInv, NEW p \in Process, StepOf(p) \/ Ask(p) \/ Answer(p), Typed',
         \A q \in Process \ {p} : step'[q] = step[q]
  PROVE  Warm'
<1>1. /\ cache \in [Process -> Listing \cup {None}] /\ vault \in Listing
      /\ cache' \in [Process -> Listing \cup {None}] /\ vault' \in Listing
  BY DEF TypeInv, Typed, RestOK
<1>2. \A q \in Process : step[q] # "idle" => cache[q] \in Listing
  BY DEF TypeInv, Warm
<1>4. ASSUME \A q \in Process \ {p} : cache'[q] = cache[q], step'[p] # "idle" => cache'[p] \in Listing
      PROVE  Warm'
  BY <1>2, <1>4 DEF Warm
<1>5. CASE UNCHANGED <<vault, caches>> /\ (step[p] = "idle" => step'[p] = "idle")
  BY <1>2, <1>4, <1>5 DEF caches
<1>6. ASSUME NEW view \in Views(p), Read(p, view) PROVE Warm'
  <2>1. view \in Listing
    BY ViewType DEF TypeInv
  <2> QED BY <1>1, <1>4, <1>6, <2>1 DEF Read
<1>7. ASSUME NEW i, NEW next, TakeAway(p, i, next) PROVE Warm'
  BY <1>1, <1>4, <1>7 DEF TakeAway
<1>8. CASE Write(p)
  <2>1. cache[p] \in Listing /\ on[p] \in Id /\ draft[p] \in Memory
    BY <1>2, <1>8 DEF Write, TypeInv, HandsOK, HandsType, InHand, Rebuilding
  <2>2. cache' = [cache EXCEPT ![p][on[p]] = draft[p]]
    BY <1>8 DEF Write
  <2>3. cache'[p] \in Listing /\ \A q \in Process \ {p} : cache'[q] = cache[q]
    BY <1>1, <2>1, <2>2 DEF Listing
  <2> QED BY <1>4, <2>3
<1>9. CASE Kill(p)
  <2>1. step'[p] = "idle"
    BY <1>9 DEF Kill, Leave, Return, Goto, TypeInv, HandsOK
  <2>2. \A q \in Process \ {p} : cache'[q] = cache[q]
    BY <1>1, <1>9 DEF Kill
  <2> QED BY <1>4, <2>1, <2>2
<1> QED BY <1>5, <1>6, <1>7, <1>8, <1>9, FileSteps

\* A step leaves what others have in hand, and lets those at work only learn of more memories.
Frame(p) ==
  \A q \in Process \ {p} :
    /\ step'[q] = step[q] /\ on'[q] = on[q] /\ draft'[q] = draft[q]
    /\ listing'[q] = listing[q] /\ todo'[q] = todo[q]
    /\ step[q] # "idle" => met[q] \subseteq met'[q]

LEMMA ReturnFrame ==
  ASSUME HandsOK, NEW p \in Process, Return(p),
         \A q \in Process \ {p} : step[q] # "idle" => met[q] \subseteq met'[q]
  PROVE  Frame(p) /\ step'[p] = "idle" /\ on'[p] = None
BY DEF Return, Goto, Frame, HandsOK

LEMMA LeaveFrame ==
  ASSUME HandsOK, NEW p \in Process, Leave(p)
  PROVE  Frame(p) /\ step'[p] = "idle" /\ on'[p] = None
BY ReturnFrame DEF Leave, HandsOK

LEMMA KeepFrame ==
  ASSUME HandsOK, NEW p \in Process, NEW s, Goto(p, s), Keep(p)
  PROVE  Frame(p) /\ step'[p] = s /\ on'[p] = on[p] /\ met'[p] = met[p]
BY DEF Goto, Keep, Frame, HandsOK

LEMMA BeginFrame ==
  ASSUME HandsOK, NEW p \in Process, NEW i, NEW s, NEW doubt, Begin(p, i, s, doubt),
         \A q \in Process \ {p} : draft'[q] = draft[q] /\ listing'[q] = listing[q]
  PROVE  /\ Frame(p) /\ step'[p] = s /\ on'[p] = i /\ met'[p] = Others(p) \cup doubt
         /\ i # None => \A q \in Process \ {p} : step[q] # "idle" => i \in met'[q]
BY DEF Begin, Goto, Met, Frame, HandsOK

LEMMA DisturbFrame ==
  ASSUME HandsOK, NEW p \in Process, NEW own, Disturb(p, own)
  PROVE  /\ met'[p] = own
         /\ \A q \in Process \ {p} : step[q] # "idle" =>
              /\ met[q] \subseteq met'[q]
              /\ on[q] = None => met[p] \subseteq met'[q]
              /\ on[q] # None => on[q] \in met'[q]
BY DEF Disturb, HandsOK

\* An operation is begun about a memory of its own, or for a rebuild.
Begins(p) ==
  \E i \in Id \cup {None}, s \in Step \ {"idle"} :
    /\ step[p] = "idle" /\ step'[p] = s /\ on'[p] = i /\ Others(p) \subseteq met'[p]
    /\ i # None => \A q \in Process \ {p} : step[q] # "idle" => i \in met'[q]

\* It goes on, or ends.
Continues(p) ==
  \/ step'[p] = "idle" /\ on'[p] = None
  \/ step[p] # "idle" /\ on'[p] = on[p] /\ met[p] \subseteq met'[p]

LEMMA Steps ==
  ASSUME TypeInv, NEW p \in Process, StepOf(p)
  PROVE  Frame(p) /\ (Begins(p) \/ Continues(p))
<1>1. HandsOK
  BY DEF TypeInv
<1>2. ASSUME NEW i \in Id \cup {None}, NEW s \in Step \ {"idle"}, NEW doubt, Begin(p, i, s, doubt),
             \A q \in Process \ {p} : draft'[q] = draft[q] /\ listing'[q] = listing[q]
      PROVE  Frame(p) /\ Begins(p)
  <2>1. step[p] = "idle"
    BY <1>2 DEF Begin
  <2>2. /\ Frame(p) /\ step'[p] = s /\ on'[p] = i /\ Others(p) \subseteq met'[p]
        /\ i # None => \A q \in Process \ {p} : step[q] # "idle" => i \in met'[q]
    BY <1>1, <1>2, BeginFrame
  <2> QED BY <2>1, <2>2 DEF Begins
<1>3. CASE Change(p)
  <2>1. PICK i \in Id : \/ \E t \in Text : Save(p, i, t) \/ Update(p, i, t)
                        \/ Invalidate(p, i) \/ Delete(p, i) \/ Purge(p, i)
    BY <1>3 DEF Change
  <2>2. \E s \in {"write", "bury", "unline", "purge row"} : \E doubt : Begin(p, i, s, doubt)
    BY <2>1 DEF Save, Update, Invalidate, Delete, Purge, TakeAway
  <2>3. \A q \in Process \ {p} : draft'[q] = draft[q] /\ listing'[q] = listing[q]
    <3>1. listing' = listing
      BY <2>1 DEF Save, Update, Invalidate, Delete, Purge, TakeAway
    <3>2. draft' = draft \/ \E m : draft' = [draft EXCEPT ![p] = m]
      BY <2>1 DEF Save, Update, Invalidate, Delete, Purge, TakeAway
    <3> QED BY <1>1, <3>1, <3>2 DEF HandsOK
  <2> QED BY <1>2, <2>2, <2>3 DEF Step
<1>4. ASSUME NEW s, Goto(p, s), Keep(p), step[p] # "idle" PROVE Frame(p) /\ Continues(p)
  BY <1>1, <1>4, KeepFrame DEF Continues
<1>5. ASSUME Leave(p) PROVE Frame(p) /\ Continues(p)
  BY <1>1, <1>5, LeaveFrame DEF Continues
<1>6. ASSUME step[p] # "idle", on' = on, met' = met, draft' = draft, listing' = listing,
             \A q \in Process \ {p} : step'[q] = step[q] /\ todo'[q] = todo[q]
      PROVE  Frame(p) /\ Continues(p)
  BY <1>6 DEF Frame, Continues
<1>7. CASE Proceed(p)
  <2>1. CASE Write(p)
    BY <1>4, <2>1 DEF Write
  <2>2. CASE Line(p)
    BY <1>4, <2>2 DEF Line
  <2>3. CASE Unline(p)
    BY <1>4, <1>5, <2>3 DEF Unline
  <2>4. CASE Migrate(p)
    BY <1>6, <2>4 DEF Migrate, hands, AtRow
  <2>5. CASE Row(p)
    BY <1>4, <2>5 DEF Row
  <2>6. CASE Unrow(p)
    BY <1>4, <1>5, <2>6 DEF Unrow, AtRow
  <2>7. CASE Relist(p)
    <3>1. CASE Leave(p)
      BY <1>5, <3>1
    <3>2. ASSUME ~Leave(p) PROVE Frame(p) /\ Continues(p)
      <4>1. /\ step[p] # "idle" /\ Goto(p, "drop") /\ UNCHANGED <<on, draft, listing>>
            /\ \E view : met' = [met EXCEPT ![p] = @ \cup Outdated(view)]
            /\ \E writes : todo' = [todo EXCEPT ![p] = writes]
        BY <2>7, <3>2 DEF Relist
      <4> QED BY <1>1, <4>1 DEF Frame, Continues, Goto, HandsOK
    <3> QED BY <3>1, <3>2
  <2>8. CASE Drop(p)
    BY <1>4, <1>5, <2>8 DEF Drop
  <2>9. CASE Link(p)
    <3>1. CASE Len(todo[p]) = 1
      BY <1>5, <2>9, <3>1 DEF Link
    <3>2. CASE Len(todo[p]) # 1
      BY <1>1, <1>6, <2>9, <3>2 DEF Link, HandsOK
    <3> QED BY <3>1, <3>2
  <2>10. CASE Unlink(p)
    BY <1>5, <2>10 DEF Unlink
  <2> QED BY <1>7, <2>1, <2>2, <2>3, <2>4, <2>5, <2>6, <2>7, <2>8, <2>9, <2>10 DEF Proceed
<1>8. CASE Renewal(p)
  <2>1. ASSUME NEW s \in {"publish", "clear"}, Begin(p, None, s, {}), draft' = draft,
               NEW listed, listing' = [listing EXCEPT ![p] = listed]
        PROVE  Frame(p) /\ Begins(p)
    <3>1. \A q \in Process \ {p} : draft'[q] = draft[q] /\ listing'[q] = listing[q]
      BY <1>1, <2>1 DEF HandsOK
    <3>2. None \in Id \cup {None} /\ s \in Step \ {"idle"}
      BY DEF Step
    <3> QED BY <1>2, <2>1, <3>1, <3>2
  <2>2. ASSUME Return(p), Disturb(p, {}) PROVE Frame(p) /\ Continues(p)
    BY <1>1, <2>2, ReturnFrame, DisturbFrame DEF Continues
  <2>3. CASE Rebuild(p)
    BY <1>1, <2>3 DEF Rebuild, hands, Frame, Continues, HandsOK, HandsType
  <2>4. CASE Clear(p)
    <3>1. Disturb(p, met[p]) /\ Goto(p, "fill") /\ UNCHANGED <<on, draft, listing, todo>> /\ step[p] = "clear"
      BY <2>4 DEF Clear
    <3> QED BY <1>1, <3>1, DisturbFrame DEF Frame, Continues, Goto, HandsOK
  <2> QED BY <1>8, <2>1, <2>2, <2>3, <2>4 DEF Renewal, Generate, Publish, Regraph, Fill
<1>9. CASE Fault(p)
  <2>1. CASE RowFails(p)
    <3>1. CASE step[p] = "unsearch"
      BY <1>5, <2>1, <3>1 DEF RowFails
    <3>2. CASE step[p] # "unsearch"
      <4>1. /\ met' = [met EXCEPT ![p] = @ \cup {on[p]}]
            /\ \E s : Goto(p, s)
            /\ UNCHANGED <<on, draft, listing, todo>> /\ step[p] # "idle"
        BY <2>1, <3>2 DEF RowFails, AtRow
      <4> QED BY <1>1, <4>1 DEF Frame, Continues, Goto, HandsOK
    <3> QED BY <3>1, <3>2
  <2>2. CASE GraphFails(p)
    BY <1>5, <2>2 DEF GraphFails
  <2>3. CASE Kill(p)
    BY <1>5, <2>3 DEF Kill
  <2> QED BY <1>9, <2>1, <2>2, <2>3 DEF Fault
<1> QED BY <1>3, <1>7, <1>8, <1>9 DEF StepOf

LEMMA TypeStep == TypeInv /\ [Next]_vars => TypeInv'
<1> SUFFICES ASSUME TypeInv, [Next]_vars PROVE TypeInv'
  OBVIOUS
<1>1. CASE UNCHANGED vars
  BY <1>1 DEF TypeInv, HandsOK, HandsType, LooseOK, RestOK, Warm, vars, files, indexes, hands, caches,
              recall, counts
<1>2. ASSUME NEW p \in Process, StepOf(p) PROVE TypeInv'
  <2>1. Typed'
    BY <1>2, ChangeTypes, ProceedTypes, RenewalTypes, FaultTypes DEF StepOf
  <2>2. \A q \in Process \ {p} : step'[q] = step[q]
    BY <1>2, Steps DEF Frame
  <2>3. Warm'
    BY <1>2, <2>1, <2>2, WarmStep
  <2> QED BY <2>1, <2>3 DEF TypeInv, Typed
<1>3. ASSUME NEW p \in Process, Ask(p) \/ Answer(p) PROVE TypeInv'
  <2>1. Typed'
    BY <1>3, RecallTypes
  <2>2. \A q \in Process \ {p} : step'[q] = step[q]
    BY <1>3 DEF Ask, Answer, hands
  <2>3. Warm'
    BY <1>3, <2>1, <2>2, WarmStep
  <2> QED BY <2>1, <2>3 DEF TypeInv, Typed
<1> QED BY <1>1, <1>2, <1>3 DEF Next, StepOf

LEMMA TypeAlways == Spec => []TypeInv
BY TypeInit, TypeStep, PTL DEF Spec

\* Every variable keeps the type the code gives it (obsidian_store.py, search_index.py and
\* graph_index.py): a step that needs a memory in hand has one, and a score is a percentage.
THEOREM TypeCorrect == Spec => []TypeOK
<1>1. TypeInv => TypeOK
  BY DEF TypeInv, TypeOK, HandsOK, LooseOK, RestOK, Listing
<1> QED BY <1>1, TypeAlways, PTL

(***************************************************************************)
(* What the operations know of each other.                                 *)
(***************************************************************************)
LEMMA NextSteps ==
  ASSUME [Next]_vars
  PROVE  \/ \E p \in Process : StepOf(p)
         \/ /\ \E p \in Process : Ask(p) \/ Answer(p)
            /\ UNCHANGED <<files, indexes, hands, met, loose>>
         \/ UNCHANGED vars
BY DEF Next, StepOf, Ask, Answer

\* Every operation at work on a memory is known to all that were at work meanwhile.
Known ==
  \A p, q \in Process : p # q /\ on[p] # None /\ step[q] # "idle" => on[p] \in met[q]

LEMMA KnownStep == TypeInv /\ Known /\ [Next]_vars => Known'
<1> SUFFICES ASSUME TypeInv, Known, [Next]_vars PROVE Known'
  OBVIOUS
<1>1. \A p \in Process : on[p] # None => step[p] # "idle"
  BY DEF TypeInv, HandsOK, HandsType
<1>2. CASE UNCHANGED <<hands, met>>
  BY <1>2 DEF Known, hands
<1>3. ASSUME NEW r \in Process, StepOf(r) PROVE Known'
  <2>1. Frame(r)
    BY <1>3, Steps
  <2>2. CASE Begins(r)
    <3>1. \A p \in Process \ {r} : on[p] # None => on[p] \in Others(r)
      BY <1>1 DEF Others
    <3> QED BY <2>1, <2>2, <3>1 DEF Known, Frame, Begins
  <2>3. CASE Continues(r)
    BY <2>1, <2>3 DEF Known, Frame, Continues
  <2> QED BY <1>3, <2>2, <2>3, Steps
<1> QED BY <1>2, <1>3, NextSteps DEF vars

LEMMA TypeKnown == Spec => [](TypeInv /\ Known)
<1>1. Init => Known
  BY DEF Init, Known
<1> QED BY <1>1, TypeInit, TypeStep, KnownStep, PTL DEF Spec

(***************************************************************************)
(* Recall.                                                                 *)
(***************************************************************************)

\* What a process has in its cache and what is in the vault had a file since it last swept.
Witnessed ==
  \A p \in Process : cache[p] # None => Present(cache[p]) \subseteq known[p] /\ Present(vault) \subseteq known[p]

LEMMA WitnessedStep ==
  ASSUME TypeInv, Witnessed, NEW p \in Process, StepOf(p) \/ Ask(p) \/ Answer(p)
  PROVE  Witnessed'
<1>1. /\ cache \in [Process -> Listing \cup {None}] /\ vault \in Listing
      /\ known \in [Process -> SUBSET Id]
  BY DEF TypeInv, RestOK
<1>2. \A v : Present(v)' = Present(v')
  BY DEF Present
<1>3. CASE UNCHANGED <<vault, caches>>
  BY <1>3 DEF Witnessed, caches, Present
<1>4. ASSUME NEW view \in Views(p), Read(p, view), UNCHANGED vault PROVE Witnessed'
  <2>1. view # vault => view = cache[p] /\ cache[p] # None
    BY DEF Views
  <2>2. Present(view) \subseteq known'[p] /\ Present(vault) \subseteq known'[p]
    <3>1. CASE view = vault
      BY <1>1, <1>4, <3>1 DEF Read
    <3>2. CASE view # vault
      BY <1>1, <1>4, <2>1, <3>2 DEF Read, Witnessed
    <3> QED BY <3>1, <3>2
  <2>3. cache'[p] = view /\ \A q \in Process \ {p} : cache'[q] = cache[q] /\ known'[q] = known[q]
    BY <1>1, <1>4 DEF Read
  <2> QED BY <1>4, <2>2, <2>3 DEF Witnessed, Present
<1>5. ASSUME NEW i \in Id, NEW next, TakeAway(p, i, next) PROVE Witnessed'
  <2>1. vault' = [vault EXCEPT ![i] = None]
    BY <1>5 DEF TakeAway
  <2>2. Present(vault') \subseteq Present(vault)
    BY <1>1, <2>1 DEF Present, Listing
  <2>3. /\ cache'[p] = vault' /\ known'[p] = Present(vault)
        /\ \A q \in Process \ {p} : cache'[q] = cache[q] /\ known'[q] = known[q]
    BY <1>1, <1>5 DEF TakeAway
  <2> QED BY <1>2, <2>2, <2>3 DEF Witnessed, Present
<1>6. CASE Write(p)
  <2>1. /\ cache[p] \in Listing /\ on[p] \in Id
    BY <1>6 DEF Write, TypeInv, HandsOK, HandsType, InHand, Rebuilding, Warm
  <2>2. /\ vault' = [vault EXCEPT ![on[p]] = draft[p]]
        /\ cache' = [cache EXCEPT ![p][on[p]] = draft[p]]
        /\ known' = [q \in Process |-> IF cache[q] = None THEN known[q] ELSE known[q] \cup Present(vault')]
    BY <1>6 DEF Write, Witness
  <2>3. ASSUME NEW q \in Process, cache'[q] # None
        PROVE  Present(cache'[q]) \subseteq known'[q] /\ Present(vault') \subseteq known'[q]
    <3>1. cache[q] # None
      <4>1. CASE q = p
        BY <2>1, <4>1, ListingApart
      <4>2. CASE q # p
        BY <1>1, <2>2, <2>3, <4>2
      <4> QED BY <4>1, <4>2
    <3>2. known'[q] = known[q] \cup Present(vault') /\ Present(cache[q]) \subseteq known[q]
      BY <2>2, <3>1 DEF Witnessed
    <3>3. Present(cache'[q]) \subseteq Present(cache[q]) \cup Present(vault')
      <4>1. \A i \in Id \ {on[p]} : cache'[q][i] = cache[q][i]
        BY <1>1, <2>1, <2>2 DEF Listing
      <4>2. cache'[q][on[p]] = cache[q][on[p]] \/ cache'[q][on[p]] = vault'[on[p]]
        BY <1>1, <2>1, <2>2 DEF Listing
      <4> QED BY <4>1, <4>2 DEF Present
    <3> QED BY <3>2, <3>3
  <2> QED BY <1>2, <2>3 DEF Witnessed, Present
<1>7. CASE Kill(p)
  <2>1. /\ vault' = vault /\ cache'[p] = None
        /\ \A q \in Process \ {p} : cache'[q] = cache[q] /\ known'[q] = known[q]
    BY <1>1, <1>7 DEF Kill
  <2> QED BY <2>1 DEF Witnessed, Present
<1> QED BY <1>3, <1>4, <1>5, <1>6, <1>7, FileSteps

LEMMA RecallStep ==
  ASSUME TypeInv, GoneNotRecalled, Witnessed, [Next]_vars
  PROVE  GoneNotRecalled' /\ Witnessed'
<1>1. Witnessed'
  <2>1. CASE UNCHANGED vars
    BY <2>1 DEF Witnessed, vars, files, caches, Present
  <2>2. ASSUME NEW p \in Process, StepOf(p) \/ Ask(p) \/ Answer(p) PROVE Witnessed'
    BY <2>2, WitnessedStep
  <2> QED BY <2>1, <2>2 DEF Next, StepOf
<1>2. ASSUME UNCHANGED <<answer, seen>> PROVE GoneNotRecalled'
  BY <1>2 DEF GoneNotRecalled
<1>3. ASSUME NEW p \in Process, Ask(p) PROVE GoneNotRecalled'
  BY <1>3 DEF Ask, GoneNotRecalled
<1>4. ASSUME NEW p \in Process, Answer(p) PROVE GoneNotRecalled'
  <2>1. PICK view \in Views(p) : Read(p, view) /\ answer' \subseteq Present(view)
    BY <1>4, Answered
  <2>2. view \in Listing /\ cache'[p] = view
    BY <2>1, ViewType DEF Read, TypeInv, RestOK
  <2>3. view # None
    BY <2>2, ListingApart
  <2>4. Present(view) \subseteq known'[p] /\ seen' = known'[p]
    BY <1>1, <1>4, <2>2, <2>3 DEF Answer, Witnessed, Present
  <2> QED BY <2>1, <2>4 DEF GoneNotRecalled
<1>5. ASSUME NEW p \in Process, StepOf(p) PROVE UNCHANGED <<answer, seen>>
  <2>1. ASSUME NEW i, NEW s, NEW doubt, Begin(p, i, s, doubt) PROVE UNCHANGED <<answer, seen>>
    BY <2>1 DEF Begin, recall
  <2>2. CASE Change(p)
    BY <2>1, <2>2 DEF Change, Save, Update, Invalidate, Delete, Purge, TakeAway
  <2>3. CASE Proceed(p)
    BY <2>3 DEF Proceed, Write, Line, Unline, Migrate, Row, Unrow, Relist, Drop, Link, Unlink, recall
  <2>4. CASE Renewal(p)
    BY <2>1, <2>4 DEF Renewal, Generate, Publish, Rebuild, Regraph, Clear, Fill, recall
  <2>5. CASE Fault(p)
    BY <2>5 DEF Fault, RowFails, GraphFails, Kill, recall
  <2> QED BY <1>5, <2>2, <2>3, <2>4, <2>5 DEF StepOf
<1> QED BY <1>1, <1>2, <1>3, <1>4, <1>5, NextSteps DEF vars, recall

\* A recall returns no memory that was gone before the process that answers last swept the vault,
\* whatever rows, edges and related lists still name it (recall.py:221, 256, 319): what it reaches
\* is looked up in the process's cache, and a cache holds what had a file since its sweep.
THEOREM GoneStays == Spec => []GoneNotRecalled
<1>1. Init => GoneNotRecalled /\ Witnessed
  BY DEF Init, GoneNotRecalled, Witnessed
<1>2. TypeInv /\ GoneNotRecalled /\ Witnessed /\ [Next]_vars => GoneNotRecalled' /\ Witnessed'
  BY RecallStep
<1> QED BY <1>1, <1>2, TypeAlways, PTL DEF Spec

(***************************************************************************)
(* The vault, the list of memories and the full-text table.                *)
(***************************************************************************)

\* p is at work on a memory that no other operation has been about meanwhile.
Solo(p) == on[p] # None /\ on[p] \notin met[p]

\* What such an operation knows of its memory's file, line and row.
FileKnown(p) ==
  LET i == on[p] IN
    /\ step[p] \in {"line", "row", "relist", "drop", "link", "unsearch"} => vault[i] = draft[p]
    /\ step[p] = "bury" => vault[i] # None /\ draft[p] = [vault[i] EXCEPT !.valid = FALSE]
    /\ step[p] = "unsearch" => ~draft[p].valid
    /\ step[p] \in {"unline", "unrow", "unlink", "purge row", "purge line"} => vault[i] = None

LineKnown(p) ==
  LET i == on[p] IN
    /\ step[p] \in {"row", "relist", "drop", "link"} => lines[i] = draft[p].text
    /\ step[p] \in {"unrow", "unlink"} => lines[i] = None
    /\ step[p] \in {"bury", "unsearch"} /\ i \notin loose.lines => lines[i] = draft[p].text

RowKnown(p) ==
  LET i == on[p] IN
    /\ step[p] \in {"relist", "drop", "link"} => current /\ rows[i] = draft[p].text
    /\ step[p] \in {"unlink", "purge line"} => current /\ rows[i] = None

Hands == \A p \in Process : Solo(p) => FileKnown(p) /\ LineKnown(p) /\ RowKnown(p)

\* A rebuild's listing is still right of the memories nothing was about since; that of a project
\* lacks the others.
Listings ==
  \A p \in Process : \A i \in Id \ met[p] :
    /\ step[p] = "publish" => listing[p][i] = vault[i]
    /\ step[p] \in {"clear", "fill"} => listing[p][i] \in {None, vault[i]}

VaultInv == Listings /\ Hands /\ LinesFollow /\ RowsFollow

\* What another operation works on alone, a step is not about.
LEMMA Apart ==
  ASSUME TypeInv, Known, Known', NEW r \in Process, StepOf(r), NEW q \in Process, q # r, Solo(q)'
  PROVE  /\ Solo(q) /\ step'[q] = step[q] /\ on'[q] = on[q] /\ draft'[q] = draft[q]
         /\ on[q] \in Id /\ step[q] \notin Rebuilding \cup {"idle"} /\ met[q] \subseteq met'[q]
         /\ on[r] # on[q] /\ on'[r] # on[q]
<1>1. Frame(r)
  BY Steps
<1>2. on'[q] = on[q] /\ step'[q] = step[q] /\ draft'[q] = draft[q] /\ on[q] # None /\ on[q] \notin met'[q]
  BY <1>1 DEF Frame, Solo
<1>3. on[q] \in Id /\ step[q] \notin Rebuilding \cup {"idle"}
  BY <1>2 DEF TypeInv, HandsOK, HandsType
<1>4. met[q] \subseteq met'[q]
  BY <1>1, <1>3 DEF Frame
<1>5. on[r] # on[q]
  BY <1>2, <1>3, <1>4 DEF Known
<1>6. on'[r] # on[q]
  BY <1>2, <1>3 DEF Known
<1> QED BY <1>2, <1>3, <1>4, <1>5, <1>6 DEF Solo

\* A step of r is about the memory r is at work on, or begins to be, and about others only when it
\* replaces a whole index.
LEMMA Effects ==
  ASSUME TypeInv, NEW r \in Process, StepOf(r)
  PROVE  /\ \A j \in Id : vault'[j] = vault[j] \/ j = on[r] \/ j = on'[r]
         /\ (\A j \in Id : lines'[j] = lines[j] \/ j = on[r]) \/ Publish(r)
         /\ \/ current' = current /\ \A j \in Id : rows'[j] = rows[j] \/ j = on[r]
            \/ /\ \E view \in Listing : RebuildRows(view) /\ (view = vault \/ ~current)
               /\ UNCHANGED <<files, lines>>
         /\ (\A j \in loose.lines : j \in loose'.lines \/ j = on[r]) \/ Publish(r)
         /\ (\A j \in loose.rows : j \in loose'.rows \/ j = on[r])
            \/ \E view \in Listing : RebuildRows(view)
<1>1. /\ vault \in Listing /\ rows \in [Id -> Text \cup {None}] /\ lines \in [Id -> Text \cup {None}]
      /\ on \in [Process -> Id \cup {None}]
      /\ loose \in [rows : SUBSET Id, lines : SUBSET Id, pairs : SUBSET AllPairs,
                apart : SUBSET AllPairs]
  BY DEF TypeInv, RestOK, HandsOK, LooseOK
<1>2. ASSUME NEW renewed, Renew(r, renewed)
      PROVE  /\ \A j \in loose.lines : j \in loose'.lines \/ j = on[r]
             /\ \A j \in loose.rows : j \in loose'.rows \/ j = on[r]
  BY <1>1, <1>2 DEF Renew
<1>3. ASSUME NEW is, Spoil(is)
      PROVE  loose.lines \subseteq loose'.lines /\ loose.rows \subseteq loose'.rows
  BY <1>1, <1>3 DEF Spoil
<1>4. CASE Change(r)
  <2>1. PICK i \in Id : \/ \E t \in Text : Save(r, i, t) \/ Update(r, i, t)
                        \/ Invalidate(r, i) \/ Delete(r, i) \/ Purge(r, i)
    BY <1>4 DEF Change
  <2>2. UNCHANGED <<indexes, loose>> /\ \E s, doubt : Begin(r, i, s, doubt)
    BY <2>1 DEF Save, Update, Invalidate, Delete, Purge, TakeAway
  <2>3. on'[r] = i
    BY <1>1, <2>2 DEF Begin
  <2>4. vault' = vault \/ vault' = [vault EXCEPT ![i] = None]
    BY <2>1 DEF Save, Update, Invalidate, Delete, Purge, TakeAway, files
  <2> QED BY <1>1, <2>2, <2>3, <2>4 DEF indexes, Listing
<1>5. CASE Proceed(r)
  <2>1. CASE Write(r)
    BY <1>1, <2>1 DEF Write, indexes, Listing
  <2>2. CASE Line(r)
    BY <1>1, <2>2 DEF Line, files
  <2>3. CASE Unline(r)
    BY <1>1, <1>2, <2>3 DEF Unline, files
  <2>4. CASE Migrate(r)
    <3>1. PICK view \in Views(r) : Read(r, view) /\ RebuildRows(view)
      BY <2>4 DEF Migrate
    <3>2. view \in Listing
      BY ViewType DEF TypeInv
    <3>3. ~current /\ UNCHANGED <<files, lines>>
      BY <2>4 DEF Migrate
    <3>4. loose'.lines = loose.lines
      BY <1>1, <3>1 DEF RebuildRows
    <3> QED BY <3>1, <3>2, <3>3, <3>4 DEF files
  <2>5. CASE Row(r)
    BY <1>1, <2>5 DEF Row, files
  <2>6. CASE Unrow(r)
    BY <1>1, <1>2, <2>6 DEF Unrow, files
  <2>7. CASE Relist(r)
    BY <1>1, <1>3, <2>7 DEF Relist, files, indexes
  <2>8. CASE Drop(r)
    BY <1>1, <1>2, <2>8 DEF Drop, files
  <2>9. CASE Link(r)
    BY <1>1, <1>2, <2>9 DEF Link, files
  <2>10. CASE Unlink(r)
    BY <1>1, <1>2, <2>10 DEF Unlink, files
  <2> QED BY <1>5, <2>1, <2>2, <2>3, <2>4, <2>5, <2>6, <2>7, <2>8, <2>9, <2>10 DEF Proceed
<1>6. CASE Renewal(r)
  <2>1. CASE Generate(r) \/ \E scope \in Scopes : Regraph(r, scope)
    BY <2>1 DEF Generate, Regraph, files, indexes
  <2>2. CASE Publish(r)
    BY <2>2 DEF Publish, files
  <2>3. CASE Rebuild(r)
    <3>1. RebuildRows(vault) /\ UNCHANGED <<files, lines>>
      BY <2>3 DEF Rebuild
    <3>2. loose'.lines = loose.lines
      BY <1>1, <3>1 DEF RebuildRows
    <3> QED BY <1>1, <3>1, <3>2 DEF files
  <2>4. CASE Clear(r)
    BY <2>4 DEF Clear, files
  <2>5. CASE Fill(r)
    BY <1>1, <2>5 DEF Fill, files
  <2> QED BY <1>6, <2>1, <2>2, <2>3, <2>4, <2>5 DEF Renewal
<1>7. CASE Fault(r)
  <2>1. CASE RowFails(r)
    BY <1>3, <2>1 DEF RowFails, files, indexes
  <2>2. CASE GraphFails(r)
    BY <1>3, <2>2 DEF GraphFails, files, indexes
  <2>3. CASE Kill(r)
    BY <1>1, <1>3, <2>3 DEF Kill, indexes
  <2> QED BY <1>7, <2>1, <2>2, <2>3 DEF Fault
<1> QED BY <1>4, <1>5, <1>6, <1>7 DEF StepOf

LEMMA ListingsStep ==
  ASSUME TypeInv, Known, Known', Listings, NEW r \in Process, StepOf(r)
  PROVE  Listings'
<1>1. HandsOK
  BY DEF TypeInv
<1>2. \A j \in Id : vault'[j] = vault[j] \/ j = on[r] \/ j = on'[r]
  BY Effects
<1>3. ASSUME NEW q \in Process \ {r}, step'[q] \in Rebuilding, NEW i \in Id \ met'[q]
      PROVE  /\ step'[q] = "publish" => listing'[q][i] = vault'[i]
             /\ step'[q] \in {"clear", "fill"} => listing'[q][i] \in {None, vault'[i]}
  <2>1. step'[q] = step[q] /\ listing'[q] = listing[q] /\ met[q] \subseteq met'[q] /\ step[q] # "idle"
    BY <1>3, Steps DEF Frame, Rebuilding
  <2>2. i # on[r] /\ i # on'[r]
    BY <1>3, <2>1, NoneApart DEF Known
  <2> QED BY <1>2, <1>3, <2>1, <2>2 DEF Listings
<1>4. ASSUME step'[r] \in Rebuilding, NEW i \in Id \ met'[r]
      PROVE  /\ step'[r] = "publish" => listing'[r][i] = vault'[i]
             /\ step'[r] \in {"clear", "fill"} => listing'[r][i] \in {None, vault'[i]}
  <2>1. CASE Generate(r)
    BY <1>1, <2>1 DEF Generate, files, Begin, Goto, HandsOK
  <2>6. ASSUME NEW scope, Regraph(r, scope)
        PROVE  step'[r] = "clear" /\ listing'[r][i] \in {None, vault'[i]}
    BY <1>1, <2>6 DEF Regraph, files, Begin, Goto, HandsOK
  <2>2. CASE Clear(r)
    <3>1. met'[r] = met[r]
      BY <1>1, <2>2, DisturbFrame DEF Clear
    <3>2. step[r] = "clear" /\ step'[r] = "fill" /\ listing' = listing /\ vault' = vault
      BY <1>1, <2>2 DEF Clear, Goto, files, HandsOK
    <3> QED BY <1>4, <3>1, <3>2 DEF Listings
  <2>3. CASE Publish(r) \/ Fill(r)
    BY <1>1, <1>4, <2>3 DEF Publish, Fill, Return, Goto, HandsOK, Rebuilding
  <2>4. CASE Rebuild(r)
    BY <1>4, <2>4 DEF Rebuild, hands, Rebuilding
  <2>5. CASE Change(r) \/ Proceed(r) \/ Fault(r)
    <3>2. CASE Change(r)
      <4>1. \E s \in {"write", "bury", "unline", "purge row"}, k \in Id : \E doubt : Begin(r, k, s, doubt)
        BY <3>2 DEF Change, Save, Update, Invalidate, Delete, Purge, TakeAway
      <4> QED BY <1>1, <1>4, <4>1 DEF Begin, Goto, HandsOK, Rebuilding
    <3>3. CASE Proceed(r) \/ Fault(r)
      <4>1. step[r] # "idle"
        BY <3>3 DEF Proceed, Write, Line, Unline, Migrate, Row, Unrow, Relist, Drop, Link, Unlink, Fault, RowFails, GraphFails, Kill, AtRow
      <4>2. on'[r] = on[r] \/ step'[r] = "idle"
        BY <4>1, Steps DEF Begins, Continues
      <4>3. HandsOK'
        BY <2>5, ProceedTypes, FaultTypes, ChangeTypes DEF Typed
      <4>4. on'[r] = None /\ step[r] \in Rebuilding
        BY <1>1, <1>4, <4>1, <4>2, <4>3 DEF HandsOK, HandsType, Rebuilding
      <4>5. CASE Kill(r)
        BY <1>1, <1>4, <4>5 DEF Kill, Leave, Return, Goto, HandsOK, Rebuilding
      <4>6. CASE ~Kill(r)
        BY <3>3, <4>4, <4>6 DEF Proceed, Write, Line, Unline, Migrate, Row, Unrow, Relist, Drop, Link, Unlink, Fault, RowFails, GraphFails, AtRow, Rebuilding
      <4> QED BY <4>5, <4>6
    <3> QED BY <2>5, <3>2, <3>3
  <2> QED BY <2>1, <2>2, <2>3, <2>4, <2>5, <2>6 DEF StepOf, Renewal
<1> QED BY <1>3, <1>4 DEF Listings, Rebuilding

\* What another operation knows of its memory stays true.
LEMMA HandsOfOthers ==
  ASSUME TypeInv, Known, Known', Hands, NEW r \in Process, StepOf(r), NEW q \in Process, q # r, Solo(q)'
  PROVE  (FileKnown(q) /\ LineKnown(q) /\ RowKnown(q))'
<1> DEFINE i == on[q]
<1>1. /\ Solo(q) /\ step'[q] = step[q] /\ on'[q] = i /\ draft'[q] = draft[q]
      /\ i \in Id /\ step[q] \notin Rebuilding \cup {"idle"} /\ on[r] # i /\ on'[r] # i
  BY Apart
<1>2. FileKnown(q) /\ LineKnown(q) /\ RowKnown(q)
  BY <1>1 DEF Hands
<1>3. vault'[i] = vault[i]
  BY <1>1, Effects
<1>4. ~Publish(r)
  <2> SUFFICES ASSUME Publish(r) PROVE FALSE
    OBVIOUS
  <2>1. Disturb(r, {})
    BY DEF Publish
  <2>2. i \in met'[q]
    BY <1>1, <2>1, DisturbFrame, NoneApart DEF TypeInv
  <2> QED BY <1>1, <2>2 DEF Solo
<1>5. lines'[i] = lines[i] /\ (i \in loose.lines => i \in loose'.lines)
  BY <1>1, <1>4, Effects
<1>6. \/ current' = current /\ rows'[i] = rows[i]
      \/ ~current
      \/ current' /\ rows'[i] = IF vault[i] = None THEN None ELSE vault[i].text
  <2>1. ASSUME NEW view \in Listing, RebuildRows(view), view = vault
        PROVE  current' /\ rows'[i] = IF vault[i] = None THEN None ELSE vault[i].text
    BY <1>1, <2>1 DEF RebuildRows, Texts
  <2>2. \/ current' = current /\ rows'[i] = rows[i]
        \/ \E view \in Listing : RebuildRows(view) /\ (view = vault \/ ~current)
    BY <1>1, Effects
  <2> QED BY <2>1, <2>2
<1>7. FileKnown(q)' /\ LineKnown(q)'
  BY <1>1, <1>2, <1>3, <1>5 DEF FileKnown, LineKnown
<1>8. step[q] \in InHand => draft[q] # None
  BY NoneApart DEF TypeInv, HandsOK, HandsType
<1>9. RowKnown(q)'
  BY <1>1, <1>2, <1>6, <1>8 DEF RowKnown, FileKnown, InHand
<1> QED BY <1>7, <1>9

LEMMA BeginsMeeting ==
  ASSUME HandsOK, NEW p \in Process, NEW i, NEW s, NEW doubt, Begin(p, i, s, doubt)
  PROVE  on'[p] = i /\ step'[p] = s /\ step[p] = "idle" /\ met'[p] = Others(p) \cup doubt
BY DEF Begin, Goto, Met, HandsOK

\* Its own next step leaves an operation knowing what it did.
LEMMA HandsOfOwn ==
  ASSUME TypeInv, TypeInv', Known, VaultInv, NEW r \in Process, StepOf(r), Solo(r)'
  PROVE  (FileKnown(r) /\ LineKnown(r) /\ RowKnown(r))'
<1>1. /\ HandsOK /\ vault \in Listing
      /\ rows \in [Id -> Text \cup {None}] /\ lines \in [Id -> Text \cup {None}]
      /\ loose \in [rows : SUBSET Id, lines : SUBSET Id, pairs : SUBSET AllPairs,
                apart : SUBSET AllPairs]
  BY DEF TypeInv, RestOK, LooseOK
<1>2. HandsOK' /\ step'[r] \notin Rebuilding \cup {"idle"} /\ on'[r] \in Id
  BY DEF TypeInv, HandsOK, HandsType, Solo
<1>3. CASE Change(r)
  <2>1. PICK i \in Id : \/ \E t \in Text : Save(r, i, t) \/ Update(r, i, t)
                        \/ Invalidate(r, i) \/ Delete(r, i) \/ Purge(r, i)
    BY <1>3 DEF Change
  <2>2. PICK s \in {"write", "bury", "unline", "purge row"} : \E doubt : Begin(r, i, s, doubt)
    BY <2>1 DEF Save, Update, Invalidate, Delete, Purge, TakeAway
  <2>3. on'[r] = i /\ step'[r] = s /\ step[r] = "idle" /\ Others(r) \subseteq met'[r]
    BY <1>1, <2>2, BeginsMeeting
  <2>4. ~Busy(i)
    <3>1. i \notin Others(r)
      BY <2>3 DEF Solo
    <3> QED BY <2>3, <3>1, NoneApart DEF Busy, Others
  <2>5. CASE s = "write"
    BY <2>3, <2>5 DEF FileKnown, LineKnown, RowKnown
  <2>6. CASE s = "bury"
    <3>1. Invalidate(r, i)
      <4>1. ASSUME NEW n, NEW other, Begin(r, i, n, other) PROVE n = "bury"
        BY <1>1, <2>3, <2>6, <4>1, BeginsMeeting
      <4> QED BY <2>1, <4>1 DEF Save, Update, Delete, Purge, TakeAway
    <3>2. vault[i] # None /\ vault' = vault /\ lines' = lines /\ loose' = loose
          /\ draft'[r] = [vault[i] EXCEPT !.valid = FALSE]
      <4>1. PICK view \in Views(r) : /\ view[i] # None
                                     /\ Begin(r, i, "bury", Outdated(view) \cap {i})
                                     /\ draft' = [draft EXCEPT ![r] = [view[i] EXCEPT !.valid = FALSE]]
        BY <3>1 DEF Invalidate
      <4>2. Outdated(view) \cap {i} \subseteq met'[r]
        BY <1>1, <4>1 DEF Begin, Met, HandsOK
      <4>3. view[i] = vault[i]
        BY <2>3, <4>2 DEF Solo, Outdated
      <4> QED BY <1>1, <3>1, <4>1, <4>3 DEF Invalidate, indexes, HandsOK
    <3>3. i \notin loose.lines => lines[i] = vault[i].text
      BY <2>4, <3>2 DEF VaultInv, LinesFollow, Listed, Texts
    <3>4. draft'[r].text = vault[i].text
      <4>1. vault[i] \in Memory
        BY <1>1, <3>2 DEF Listing
      <4> QED BY <3>2, <4>1 DEF Memory
    <3> QED BY <2>3, <2>6, <3>2, <3>3, <3>4 DEF FileKnown, LineKnown, RowKnown
  <2>7. CASE s \in {"unline", "purge row"}
    <3>1. vault'[i] = None
      BY <1>1, <2>1, <2>3, <2>7 DEF Save, Update, Invalidate, Delete, Purge, TakeAway, Begin, Goto, HandsOK, Listing
    <3> QED BY <2>3, <2>7, <3>1 DEF FileKnown, LineKnown, RowKnown
  <2> QED BY <2>5, <2>6, <2>7
<1>4. CASE ~Change(r)
  <2> DEFINE i == on[r]
  <2>1. Proceed(r) \/ Fault(r)
    <3>1. ASSUME Renewal(r) PROVE FALSE
      <4>1. CASE Rebuild(r)
        BY <1>2, <4>1 DEF Rebuild, hands, Rebuilding
      <4>2. CASE Clear(r)
        BY <1>1, <1>2, <4>2 DEF Clear, Goto, HandsOK, Rebuilding
      <4>3. CASE Generate(r) \/ \E scope \in Scopes : Regraph(r, scope)
        BY <1>1, <1>2, <4>3 DEF Generate, Regraph, Begin, Goto, HandsOK, Rebuilding
      <4>4. CASE Publish(r) \/ Fill(r)
        BY <1>1, <1>2, <4>4 DEF Publish, Fill, Return, Goto, HandsOK, Rebuilding
      <4> QED BY <3>1, <4>1, <4>2, <4>3, <4>4 DEF Renewal
    <3> QED BY <1>4, <3>1 DEF StepOf
  <2>2. step[r] # "idle"
    BY <2>1 DEF Proceed, Write, Line, Unline, Migrate, Row, Unrow, Relist, Drop, Link, Unlink, Fault, RowFails, GraphFails, Kill, AtRow
  <2>3. on'[r] = i /\ Solo(r) /\ i \in Id
    <3>1. on'[r] = i /\ met[r] \subseteq met'[r]
      BY <1>2, <2>2, Steps DEF Continues, Begins, Rebuilding
    <3> QED BY <1>2, <3>1 DEF Solo
  <2>4. FileKnown(r) /\ LineKnown(r) /\ RowKnown(r)
    BY <2>3 DEF VaultInv, Hands
  <2>5. ~Leave(r)
    BY <1>1, <1>2 DEF Leave, Return, Goto, HandsOK
  <2>6. ~Fault(r)
    <3>1. CASE RowFails(r)
      <4>1. i \in met'[r]
        BY <1>1, <2>5, <3>1 DEF RowFails, HandsOK
      <4> QED BY <2>3, <4>1 DEF Solo
    <3> QED BY <2>5, <3>1 DEF Fault, GraphFails, Kill
  <2>7. step[r] \in InHand => draft[r] \in Memory
    BY <1>1 DEF HandsOK, HandsType
  <2>8. ASSUME NEW s, Goto(r, s), Keep(r) PROVE step'[r] = s /\ draft'[r] = draft[r]
    BY <1>1, <2>8 DEF Goto, Keep, HandsOK
  <2>9. CASE Write(r)
    <3>1. /\ vault'[i] = draft[r] /\ lines' = lines /\ loose' = loose /\ draft'[r] = draft[r]
          /\ \/ step[r] = "write" /\ step'[r] = "line"
             \/ step[r] = "bury" /\ step'[r] = "unsearch"
      BY <1>1, <2>3, <2>8, <2>9 DEF Write, indexes, Listing
    <3>2. step[r] = "bury" => ~draft[r].valid
      BY <1>1, <2>3, <2>4 DEF FileKnown, Listing, Memory
    <3> QED BY <2>3, <2>4, <3>1, <3>2 DEF FileKnown, LineKnown, RowKnown
  <2>10. CASE Line(r)
    <3>1. /\ step[r] = "line" /\ step'[r] = "row" /\ lines'[i] = draft[r].text
          /\ draft'[r] = draft[r] /\ vault' = vault
      BY <1>1, <2>3, <2>8, <2>10 DEF Line, files
    <3> QED BY <2>3, <2>4, <3>1 DEF FileKnown, LineKnown, RowKnown
  <2>11. CASE Unline(r)
    <3>1. /\ step[r] = "unline" /\ step'[r] = "unrow" /\ lines'[i] = None /\ vault' = vault
      BY <1>1, <2>3, <2>5, <2>8, <2>11 DEF Unline, files
    <3> QED BY <2>3, <2>4, <3>1 DEF FileKnown, LineKnown, RowKnown
  <2>12. CASE Migrate(r)
    <3>1. /\ AtRow(r) /\ vault' = vault /\ lines' = lines /\ step' = step /\ draft' = draft
          /\ loose'.lines = loose.lines
      <4>1. \E view : RebuildRows(view)
        BY <2>12 DEF Migrate
      <4> QED BY <1>1, <2>12, <4>1 DEF Migrate, RebuildRows, files, hands
    <3> QED BY <2>3, <2>4, <3>1 DEF FileKnown, LineKnown, RowKnown, AtRow
  <2>13. CASE Row(r)
    <3>1. /\ step[r] = "row" /\ step'[r] = "relist" /\ rows'[i] = draft[r].text /\ current'
          /\ draft'[r] = draft[r] /\ vault' = vault /\ lines' = lines
      BY <1>1, <2>3, <2>8, <2>13 DEF Row, files
    <3> QED BY <2>3, <2>4, <3>1 DEF FileKnown, LineKnown, RowKnown
  <2>14. CASE Unrow(r)
    <3>1. /\ \/ step[r] = "unrow" /\ step'[r] = "unlink"
             \/ step[r] = "purge row" /\ step'[r] = "purge line"
          /\ rows'[i] = None /\ current' /\ vault' = vault /\ lines' = lines
      BY <1>1, <2>3, <2>5, <2>8, <2>14 DEF Unrow, AtRow, files
    <3> QED BY <2>3, <2>4, <3>1 DEF FileKnown, LineKnown, RowKnown
  <2>15. CASE Relist(r)
    <3>1. step[r] = "relist" /\ step'[r] = "drop" /\ UNCHANGED <<draft, loose, vault, indexes>>
      BY <1>1, <2>5, <2>15 DEF Relist, Goto, HandsOK, files
    <3> QED BY <2>3, <2>4, <3>1 DEF FileKnown, LineKnown, RowKnown, indexes
  <2>16. CASE Drop(r)
    <3>1. /\ step[r] = "drop" /\ step'[r] = "link" /\ draft'[r] = draft[r]
          /\ UNCHANGED <<vault, current, rows, lines>>
      BY <2>5, <2>8, <2>16 DEF Drop, files
    <3> QED BY <2>3, <2>4, <3>1 DEF FileKnown, LineKnown, RowKnown
  <2>17. CASE Link(r)
    <3>1. step[r] = "link" /\ UNCHANGED <<step, draft, loose, vault, current, rows, lines>>
      BY <2>5, <2>17 DEF Link, files
    <3> QED BY <2>3, <2>4, <3>1 DEF FileKnown, LineKnown, RowKnown
  <2>18. ~Unlink(r)
    BY <2>5 DEF Unlink
  <2> QED BY <2>1, <2>6, <2>9, <2>10, <2>11, <2>12, <2>13, <2>14, <2>15, <2>16, <2>17, <2>18 DEF Proceed
<1> QED BY <1>3, <1>4

Right(mem) ==
  IF mem = None THEN {None} ELSE IF mem.valid THEN {mem.text} ELSE {None, mem.text}

\* Whoever is through with a memory has renewed its line and its row, or it is known as loose.
LEMMA Leaving ==
  ASSUME TypeInv, VaultInv, NEW r \in Process, StepOf(r), on[r] # None, step'[r] = "idle"
  PROVE  /\ on[r] \notin loose'.lines => lines'[on[r]] = Listed'[on[r]]
         /\ current' /\ on[r] \notin loose'.rows
              => rows'[on[r]] \in Right(vault'[on[r]])
<1> DEFINE i == on[r]
<1>1. /\ HandsOK /\ vault \in Listing
      /\ rows \in [Id -> Text \cup {None}] /\ lines \in [Id -> Text \cup {None}]
      /\ loose \in [rows : SUBSET Id, lines : SUBSET Id, pairs : SUBSET AllPairs,
                apart : SUBSET AllPairs]
  BY DEF TypeInv, RestOK, LooseOK
<1>2. i \in Id /\ step[r] \notin Rebuilding \cup {"idle"}
  BY <1>1 DEF HandsOK, HandsType
<1>3. ASSUME NEW renewed, Renew(r, renewed)
      PROVE  /\ i \in met[r] => i \in loose'.lines /\ i \in loose'.rows
             /\ i \in loose.lines /\ "lines" \notin renewed => i \in loose'.lines
  BY <1>1, <1>2, <1>3 DEF Renew
<1>4. ASSUME Spoil({i}) PROVE i \in loose'.lines /\ i \in loose'.rows
  BY <1>1, <1>2, <1>4 DEF Spoil
<1>5. i \notin met[r] => FileKnown(r) /\ LineKnown(r) /\ RowKnown(r)
  BY <1>2 DEF VaultInv, Hands, Solo
<1>6. step[r] \in InHand => draft[r] \in Memory /\ draft[r] # None
  BY <1>1, NoneApart DEF HandsOK, HandsType
<1>7. Listed'[i] = IF vault'[i] = None THEN None ELSE vault'[i].text
  BY <1>2 DEF Listed, Texts
<1>8. CASE Unline(r)
  <2>1. /\ step[r] = "purge line" /\ Renew(r, {"rows", "lines", "gone"})
        /\ lines'[i] = None /\ UNCHANGED <<vault, current, rows>>
    BY <1>1, <1>2, <1>8 DEF Unline, Goto, HandsOK, files
  <2>2. i \in met[r] => i \in loose'.lines /\ i \in loose'.rows
    BY <1>3, <2>1
  <2>3. i \notin met[r] => vault[i] = None /\ (current => rows[i] = None)
    BY <1>5, <2>1 DEF FileKnown, RowKnown
  <2>4. i \notin met[r] => vault'[i] = None /\ (current' => rows'[i] = None)
    BY <2>1, <2>3
  <2> QED BY <1>7, <2>1, <2>2, <2>4 DEF Right
<1>9. CASE Unrow(r)
  <2>1. /\ step[r] = "unsearch" /\ Renew(r, {"rows"})
        /\ rows'[i] = None /\ UNCHANGED <<vault, current, lines>>
    BY <1>1, <1>2, <1>9 DEF Unrow, AtRow, Goto, HandsOK, files
  <2>2. i \notin met[r] => vault[i] = draft[r] /\ ~draft[r].valid
    BY <1>5, <2>1 DEF FileKnown
  <2>3. i \notin met[r] /\ i \notin loose.lines => lines[i] = draft[r].text
    BY <1>5, <2>1 DEF LineKnown
  <2>4. /\ i \in met[r] => i \in loose'.lines /\ i \in loose'.rows
        /\ i \in loose.lines => i \in loose'.lines
    BY <1>3, <2>1
  <2>5. draft[r] # None
    BY <1>6, <2>1 DEF InHand
  <2>6. i \notin met[r] => vault'[i] = draft[r] /\ ~draft[r].valid
    BY <2>1, <2>2
  <2>7. i \notin met[r] /\ i \notin loose.lines => lines'[i] = draft[r].text
    BY <2>1, <2>3
  <2>8. i \notin met[r] => rows'[i] \in Right(vault'[i])
    BY <2>1, <2>5, <2>6 DEF Right
  <2>9. i \notin loose'.lines => lines'[i] = Listed'[i]
    BY <1>7, <2>4, <2>5, <2>6, <2>7
  <2> QED BY <2>4, <2>8, <2>9
<1>10. CASE Drop(r) \/ Link(r)
  <2>1. /\ step[r] \in {"drop", "link"} /\ Renew(r, {"rows", "lines", "pairs"})
        /\ UNCHANGED <<vault, current, rows, lines>>
    BY <1>1, <1>2, <1>10 DEF Drop, Link, Goto, HandsOK, files
  <2>2. i \notin met[r] => /\ vault[i] = draft[r] /\ lines[i] = draft[r].text
                           /\ current => rows[i] = draft[r].text
    BY <1>5, <2>1 DEF FileKnown, LineKnown, RowKnown
  <2>3. i \in met[r] => i \in loose'.lines /\ i \in loose'.rows
    BY <1>3, <2>1
  <2>4. draft[r] # None
    BY <1>6, <2>1 DEF InHand
  <2>5. i \notin met[r] => /\ vault'[i] = draft[r] /\ lines'[i] = draft[r].text
                           /\ current' => rows'[i] = draft[r].text
    BY <2>1, <2>2
  <2> QED BY <1>7, <2>3, <2>4, <2>5 DEF Right
<1>11. CASE Unlink(r)
  <2>1. /\ step[r] = "unlink" /\ Renew(r, {"rows", "lines", "pairs"})
        /\ UNCHANGED <<vault, current, rows, lines>>
    BY <1>11 DEF Unlink, files
  <2>2. i \notin met[r] => /\ vault[i] = None /\ lines[i] = None
                           /\ current => rows[i] = None
    BY <1>5, <2>1 DEF FileKnown, LineKnown, RowKnown
  <2>3. i \in met[r] => i \in loose'.lines /\ i \in loose'.rows
    BY <1>3, <2>1
  <2>4. i \notin met[r] => /\ vault'[i] = None /\ lines'[i] = None
                           /\ current' => rows'[i] = None
    BY <2>1, <2>2
  <2> QED BY <1>7, <2>3, <2>4 DEF Right
<1>12. CASE Fault(r)
  <2>1. Spoil({i})
    <3>1. CASE RowFails(r)
      <4>1. step'[r] # "idle" \/ step[r] = "unsearch"
        BY <1>1, <3>1 DEF RowFails, AtRow, Goto, HandsOK
      <4> QED BY <3>1, <4>1 DEF RowFails
    <3>2. CASE GraphFails(r) \/ Kill(r)
      BY <1>2, NoneApart, <3>2 DEF GraphFails, Kill
    <3> QED BY <1>12, <3>1, <3>2 DEF Fault
  <2> QED BY <1>4, <2>1
<1>13. CASE Relist(r)
  <2>1. Spoil({i})
    BY <1>1, <1>2, <1>13 DEF Relist, Goto, HandsOK
  <2> QED BY <1>4, <2>1
<1>14. ~(Write(r) \/ Line(r) \/ Migrate(r) \/ Row(r))
  BY <1>1, <1>2 DEF Write, Line, Migrate, Row, Goto, HandsOK, hands
<1>15. ~Change(r) /\ ~Renewal(r)
  BY <1>2 DEF Change, Save, Update, Invalidate, Delete, Purge, TakeAway, Begin, Rebuilding,
     Renewal, Generate, Publish, Rebuild, Regraph, Clear, Fill
<1> QED BY <1>8, <1>9, <1>10, <1>11, <1>12, <1>13, <1>14, <1>15 DEF StepOf, Proceed

\* A memory nothing is at work on after a step of r was at rest before, or r is through with it.
LEMMA Resting ==
  ASSUME TypeInv, TypeInv', NEW r \in Process, StepOf(r), NEW i \in Id, ~Busy(i)'
  PROVE  /\ on'[r] # i
         /\ \/ on[r] = i /\ step'[r] = "idle"
            \/ on[r] # i /\ ~Busy(i)
<1>1. Frame(r) /\ (Begins(r) \/ Continues(r))
  BY Steps
<1>2. on'[r] # i
  BY NoneApart DEF Busy, TypeInv, HandsOK, HandsType
<1>3. on[r] = i => step'[r] = "idle"
  BY <1>1, <1>2, NoneApart DEF Begins, Continues, TypeInv, HandsOK, HandsType
<1>4. on[r] # i => ~Busy(i)
  BY <1>1 DEF Busy, Frame
<1> QED BY <1>2, <1>3, <1>4

LEMMA FollowStep ==
  ASSUME TypeInv, TypeInv', Known, VaultInv, NEW r \in Process, StepOf(r)
  PROVE  LinesFollow' /\ RowsFollow'
<1>1. ASSUME NEW i \in Id, ~Busy(i)', i \notin loose'.lines
      PROVE  lines'[i] = Listed'[i]
  <2>1. CASE on[r] = i
    BY <1>1, <2>1, Resting, Leaving, NoneApart
  <2>2. CASE on[r] # i
    <3>1. ~Busy(i) /\ on'[r] # i
      BY <1>1, <2>2, Resting
    <3>2. vault'[i] = vault[i]
      BY <2>2, <3>1, Effects
    <3>3. CASE Publish(r)
      <4>1. /\ lines'[i] = IF listing[r][i] = None THEN None ELSE listing[r][i].text
            /\ loose'.lines = met[r] /\ step[r] = "publish"
        BY <3>3 DEF Publish, TypeInv, LooseOK
      <4>2. listing[r][i] = vault[i]
        BY <1>1, <4>1 DEF VaultInv, Listings
      <4> QED BY <3>2, <4>1, <4>2 DEF Listed, Texts
    <3>4. CASE ~Publish(r)
      <4>1. lines'[i] = lines[i] /\ i \notin loose.lines
        BY <1>1, <2>2, <3>4, Effects
      <4> QED BY <3>1, <3>2, <4>1 DEF VaultInv, LinesFollow, Listed, Texts
    <3> QED BY <3>3, <3>4
  <2> QED BY <2>1, <2>2
<1>2. ASSUME current', NEW i \in Id, ~Busy(i)', i \notin loose'.rows
      PROVE  rows'[i] \in Right(vault'[i])
  <2>1. CASE on[r] = i
    BY <1>2, <2>1, Resting, Leaving, NoneApart
  <2>2. CASE on[r] # i
    <3>1. ~Busy(i) /\ on'[r] # i
      BY <1>2, <2>2, Resting
    <3>2. vault'[i] = vault[i]
      BY <2>2, <3>1, Effects
    <3>3. ASSUME NEW view, RebuildRows(view) PROVE rows'[i] \in Right(vault'[i])
      <4>1. rows'[i] = IF view[i] = None THEN None ELSE view[i].text
        BY <3>3 DEF RebuildRows, Texts
      <4>2. view[i] = vault[i]
        BY <1>2, <3>3 DEF RebuildRows, Outdated, TypeInv, LooseOK
      <4> QED BY <3>2, <4>1, <4>2 DEF Right
    <3>4. CASE \A view : ~RebuildRows(view)
      <4>1. rows'[i] = rows[i] /\ current /\ i \notin loose.rows
        BY <1>2, <2>2, <3>4, Effects
      <4> QED BY <3>1, <3>2, <4>1 DEF VaultInv, RowsFollow, Right
    <3> QED BY <3>3, <3>4
  <2> QED BY <2>1, <2>2
<1>3. LinesFollow'
  BY <1>1 DEF LinesFollow
<1>4. RowsFollow'
  BY <1>2 DEF RowsFollow, Right
<1> QED BY <1>3, <1>4

LEMMA VaultStep == TypeInv /\ Known /\ VaultInv /\ [Next]_vars /\ TypeInv' /\ Known' => VaultInv'
<1> SUFFICES ASSUME TypeInv, Known, VaultInv, [Next]_vars, TypeInv', Known' PROVE VaultInv'
  OBVIOUS
<1>1. ASSUME UNCHANGED <<files, indexes, hands, met, loose>> PROVE VaultInv'
  BY <1>1 DEF VaultInv, Listings, Hands, Solo, FileKnown, LineKnown, RowKnown, LinesFollow, RowsFollow,
     Listed, Texts, Busy, files, indexes, hands
<1>2. ASSUME NEW r \in Process, StepOf(r) PROVE VaultInv'
  <2>1. Listings'
    BY <1>2, ListingsStep DEF VaultInv
  <2>2. LinesFollow' /\ RowsFollow'
    BY <1>2, FollowStep
  <2>3. \A q \in Process : Solo(q)' => (FileKnown(q) /\ LineKnown(q) /\ RowKnown(q))'
    <3> TAKE q \in Process
    <3>1. CASE q = r
      BY <1>2, <3>1, HandsOfOwn
    <3>2. CASE q # r
      BY <1>2, <3>2, HandsOfOthers DEF VaultInv
    <3> QED BY <3>1, <3>2
  <2> QED BY <2>1, <2>2, <2>3 DEF VaultInv, Hands
<1> QED BY <1>1, <1>2, NextSteps DEF vars

LEMMA VaultInit == Init => VaultInv
<1> SUFFICES ASSUME Init PROVE VaultInv
  OBVIOUS
<1>1. Listings /\ Hands
  BY DEF Init, Listings, Hands, Solo, Rebuilding
<1>2. LinesFollow
  BY DEF Init, LinesFollow
<1>3. RowsFollow
  BY DEF Init, RowsFollow, Listed, Texts
<1> QED BY <1>1, <1>2, <1>3 DEF VaultInv

LEMMA VaultAlways == Spec => [](TypeInv /\ Known /\ VaultInv)
<1>1. TypeInv /\ Known /\ VaultInv /\ [Next]_vars /\ TypeInv' /\ Known' => VaultInv'
  BY VaultStep
<1> QED BY <1>1, VaultInit, TypeKnown, PTL DEF Spec

\* The full-text table answers for the vault: a memory nothing is at work on has the row of its
\* text, or none when it is gone, wherever operations neither overlapped nor failed, and no migration
\* of the table went by an old cache (the order of the steps in obsidian_store.py, and the transactions of search_index.py).
THEOREM RowsAgree == Spec => []RowsFollow
<1>1. VaultInv => RowsFollow
  BY DEF VaultInv
<1> QED BY <1>1, VaultAlways, PTL

\* index.md lists the vault, but for what a regeneration without the lock passed over
\* (obsidian_store.py:1514).
THEOREM LinesAgree == Spec => []LinesFollow
<1>1. VaultInv => LinesFollow
  BY DEF VaultInv
<1> QED BY <1>1, VaultAlways, PTL

(***************************************************************************)
(* The graph.                                                              *)
(***************************************************************************)

\* A refresh under way alone has removed the memory's edges and holds those that are left to write.
Linking ==
  \A p \in Process : Solo(p) =>
    \A j \in Id \ (met[p] \cup {on[p]}) :
      /\ step[p] = "drop" => Joined(vault, on[p], j, Keys(ToSet(todo[p])), {})
      /\ step[p] = "link" => Joined(vault, on[p], j, Keys(graph \cup ToSet(todo[p])), {})

\* Until a rebuild writes, the edges of what it listed are those of refreshes since it cleared them.
Filling ==
  \A p \in Process : step[p] = "fill" =>
    \A i, j \in Id \ met[p] : i # j => Sound(vault, i, j, Keys(graph))

\* What is at work on memory i leaves its edges as they are, and has met neither i nor j.
Calm(i, j) ==
  \A p \in Process : on[p] = i =>
    step[p] \in {"bury", "unsearch"} /\ i \notin met[p] /\ j \notin met[p]

Settled ==
  (\A p \in Process : step[p] # "fill") =>
    \A i, j \in Id : i # j /\ {i, j} \notin loose.pairs /\ Calm(i, j) /\ Calm(j, i) =>
      Joined(vault, i, j, Keys(graph), loose.apart)

GraphInv == Linking /\ Filling /\ Settled

\* Edges do not depend on a memory's validity.
LEMMA ValidityLeaves ==
  ASSUME NEW notes \in Listing, NEW others \in Listing, NEW i \in Id, NEW j \in Id, i # j,
         notes[i] # None, others[i] = [notes[i] EXCEPT !.valid = FALSE], others[j] = notes[j],
         NEW keys, NEW apart, Joined(notes, i, j, keys, apart)
  PROVE  Joined(others, i, j, keys, apart)
<1>1. notes[i] \in Memory /\ others[i] \in Memory
  BY DEF Listing, Memory
<1>2. /\ others[i].text = notes[i].text /\ others[i].related = notes[i].related
      /\ others[i].contradicts = notes[i].contradicts /\ others[i] # None
  BY <1>1, NoneApart DEF Memory
<1>3. \A n : EdgeTo(i, others[i], j, n) = EdgeTo(i, notes[i], j, n)
  BY <1>2 DEF EdgeTo, Relation, Score
<1>4. \A m : EdgeTo(j, m, i, others[i]) = EdgeTo(j, m, i, notes[i])
  BY <1>2 DEF EdgeTo, Relation, Score
<1>5. Calls(i, others[i], j, others[j]) <=> Calls(i, notes[i], j, notes[j])
  BY <1>2, <1>3 DEF Calls
<1>6. Calls(j, others[j], i, others[i]) <=> Calls(j, notes[j], i, notes[i])
  BY <1>2, <1>4 DEF Calls
<1> QED BY <1>2, <1>5, <1>6 DEF Joined, Sound, Wants

LEMMA JoinedBoth ==
  ASSUME NEW notes, NEW i, NEW j, NEW keys, NEW apart
  PROVE  Joined(notes, i, j, keys, apart) <=> Joined(notes, j, i, keys, apart)
<1>1. {i, j} = {j, i}
  OBVIOUS
<1> QED BY <1>1 DEF Joined

LEMMA WithoutKnown ==
  ASSUME NEW edges \in SUBSET Edge, NEW k \in Id
  PROVE  /\ \A t \in RelationType, j \in Id :
              <<k, j, t>> \notin Keys(Without(edges, k)) /\ <<j, k, t>> \notin Keys(Without(edges, k))
         /\ \A i, j \in Id : i # k /\ j # k => SameOf(i, j, Keys(edges), Keys(Without(edges, k)))
BY DEF Keys, Key, Without, SameOf

\* But for a rebuild, a step of r leaves the edges of other memories.
LEMMA GraphEffects ==
  ASSUME TypeInv, NEW r \in Process, StepOf(r), ~Clear(r), ~Fill(r),
         NEW i \in Id, NEW j \in Id, i # on[r], j # on[r]
  PROVE  /\ SameOf(i, j, Keys(graph), Keys(graph'))
         /\ {i, j} \in loose.pairs => {i, j} \in loose'.pairs
         /\ {i, j} \in loose.apart => {i, j} \in loose'.apart
<1> DEFINE Kept == /\ {i, j} \in loose.pairs => {i, j} \in loose'.pairs
                   /\ {i, j} \in loose.apart => {i, j} \in loose'.apart
<1>1. /\ HandsOK /\ graph \in SUBSET Edge
      /\ loose \in [rows : SUBSET Id, lines : SUBSET Id, pairs : SUBSET AllPairs,
                apart : SUBSET AllPairs]
  BY DEF TypeInv, RestOK, LooseOK
<1>2. SameOf(i, j, Keys(graph), Keys(graph))
  BY DEF SameOf
<1>3. {i, j} \in AllPairs
  BY DEF AllPairs
<1>4. ASSUME NEW renewed, Renew(r, renewed) PROVE Kept
  <2>1. {i, j} \notin Pairs(on[r])
    BY DEF Pairs
  <2>2. \/ loose'.pairs = loose.pairs \cup Pairs(on[r])
        \/ loose'.pairs = (loose.pairs \ Pairs(on[r])) \cup {{on[r], k} : k \in met[r]}
        \/ loose'.pairs = (loose.pairs \ {}) \cup {{on[r], k} : k \in met[r]}
    BY <1>4 DEF Renew
  <2>3. \/ loose'.apart = loose.apart \ Pairs(on[r])
        \/ loose'.apart = loose.apart \ {}
    BY <1>4 DEF Renew
  <2> QED BY <2>1, <2>2, <2>3
<1>5. ASSUME NEW is, Spoil(is) PROVE Kept
  BY <1>1, <1>5 DEF Spoil
<1>6. ASSUME graph' = graph, loose' = loose
      PROVE  SameOf(i, j, Keys(graph), Keys(graph')) /\ Kept
  BY <1>2, <1>6
<1>7. ASSUME NEW view, RebuildRows(view) PROVE loose'.pairs = loose.pairs /\ loose'.apart = loose.apart
  BY <1>1, <1>7 DEF RebuildRows
<1>8. CASE Change(r)
  BY <1>6, <1>8 DEF Change, Save, Update, Invalidate, Delete, Purge, TakeAway, indexes
<1>9. CASE Proceed(r)
  <2>1. CASE Write(r) \/ Line(r) \/ Row(r)
    BY <1>6, <2>1 DEF Write, Line, Row, indexes
  <2>2. CASE Unline(r)
    BY <1>2, <1>4, <2>2 DEF Unline
  <2>3. CASE Migrate(r)
    BY <1>2, <1>7, <2>3 DEF Migrate
  <2>4. CASE Unrow(r)
    BY <1>2, <1>4, <2>4 DEF Unrow
  <2>5. CASE Relist(r)
    BY <1>2, <1>5, <2>5 DEF Relist, indexes
  <2>6. CASE Drop(r) \/ Unlink(r)
    <3>1. graph' = Without(graph, on[r]) /\ on[r] \in Id
      BY <1>1, <2>6 DEF Drop, Unlink, HandsOK, HandsType, Rebuilding
    <3>2. SameOf(i, j, Keys(graph), Keys(graph'))
      BY <1>1, <3>1, WithoutKnown
    <3> QED BY <1>4, <2>6, <3>2 DEF Drop, Unlink
  <2>7. CASE Link(r)
    <3>1. step[r] = "link" /\ graph' = Upsert(graph, Head(todo[r]))
      BY <2>7 DEF Link
    <3>2. /\ Head(todo[r]) \in Edge /\ Head(todo[r]) \in ToSet(todo[r])
      BY <1>1, <3>1, TailKnown DEF HandsOK, HandsType
    <3>3. on[r] \in {Head(todo[r]).src, Head(todo[r]).dst}
      BY <1>1, <3>2 DEF HandsOK, HandsType
    <3>4. Keys(graph') = Keys(graph) \cup {Key(Head(todo[r]))}
      BY <1>1, <3>1, <3>2, UpsertKnown
    <3>5. SameOf(i, j, Keys(graph), Keys(graph'))
      BY <3>3, <3>4 DEF SameOf, Key
    <3> QED BY <1>4, <2>7, <3>5 DEF Link
  <2> QED BY <1>9, <2>1, <2>2, <2>3, <2>4, <2>5, <2>6, <2>7 DEF Proceed
<1>10. CASE Renewal(r)
  <2>1. CASE Generate(r) \/ \E scope \in Scopes : Regraph(r, scope)
    BY <1>6, <2>1 DEF Generate, Regraph, indexes
  <2>2. CASE Publish(r)
    BY <1>1, <1>2, <2>2 DEF Publish
  <2>3. CASE Rebuild(r)
    BY <1>2, <1>7, <2>3 DEF Rebuild
  <2> QED BY <1>10, <2>1, <2>2, <2>3 DEF Renewal
<1>11. CASE Fault(r)
  <2>1. CASE RowFails(r)
    BY <1>2, <1>5, <2>1 DEF RowFails, indexes
  <2>2. CASE GraphFails(r)
    BY <1>2, <1>5, <2>2 DEF GraphFails, indexes
  <2>3. CASE Kill(r)
    <3>1. CASE on[r] # None
      BY <1>2, <1>5, <2>3, <3>1 DEF Kill, indexes
    <3>2. CASE on[r] = None
      BY <1>1, <1>2, <1>3, <2>3, <3>2 DEF Kill, indexes
    <3> QED BY <3>1, <3>2
  <2> QED BY <1>11, <2>1, <2>2, <2>3 DEF Fault
<1> QED BY <1>8, <1>9, <1>10, <1>11 DEF StepOf

\* Which steps lead to a refresh's two writes, and to a rebuild's.
LEMMA Whence ==
  ASSUME TypeInv, NEW r \in Process, StepOf(r)
  PROVE  /\ step'[r] = "fill" => Clear(r)
         /\ step'[r] = "drop" => Relist(r)
         /\ step'[r] = "link" => Drop(r) \/ Link(r)
<1>1. step \in [Process -> Step] /\ HandsOK
  BY DEF TypeInv, HandsOK
<1>2. ASSUME NEW i, NEW s, NEW doubt, Begin(r, i, s, doubt) PROVE step'[r] = s
  BY <1>1, <1>2 DEF Begin, Goto
<1>3. ASSUME NEW s, Goto(r, s) PROVE step'[r] = s
  BY <1>1, <1>3 DEF Goto
<1>4. ASSUME Leave(r) \/ Return(r) PROVE step'[r] = "idle"
  BY <1>1, <1>4 DEF Leave, Return, Goto
<1>5. CASE Change(r)
  <2>1. PICK i \in Id : \/ \E t \in Text : Save(r, i, t) \/ Update(r, i, t)
                        \/ Invalidate(r, i) \/ Delete(r, i) \/ Purge(r, i)
    BY <1>5 DEF Change
  <2>2. ASSUME NEW t, Save(r, i, t) \/ Update(r, i, t) PROVE step'[r] = "write"
    BY <1>2, <2>2 DEF Save, Update
  <2>3. Invalidate(r, i) => step'[r] = "bury"
    BY <1>2 DEF Invalidate
  <2>4. Delete(r, i) \/ Purge(r, i) => step'[r] \in {"unline", "purge row"}
    BY <1>2 DEF Delete, Purge, TakeAway
  <2> QED BY <2>1, <2>2, <2>3, <2>4
<1>6. CASE Proceed(r)
  <2>1. CASE Write(r) \/ Line(r) \/ Row(r)
    BY <1>3, <2>1 DEF Write, Line, Row
  <2>2. CASE Unline(r) \/ Unrow(r) \/ Unlink(r)
    BY <1>3, <1>4, <2>2 DEF Unline, Unrow, Unlink
  <2>3. CASE Migrate(r)
    BY <2>3 DEF Migrate, AtRow, hands
  <2>4. CASE Relist(r)
    BY <1>3, <1>4, <2>4 DEF Relist
  <2>5. CASE Drop(r)
    BY <1>3, <1>4, <2>5 DEF Drop
  <2>6. CASE Link(r)
    BY <1>4, <2>6 DEF Link
  <2> QED BY <1>6, <2>1, <2>2, <2>3, <2>4, <2>5, <2>6 DEF Proceed
<1>7. CASE Renewal(r)
  <2>1. CASE Generate(r) \/ \E scope \in Scopes : Regraph(r, scope)
    BY <1>2, <2>1 DEF Generate, Regraph
  <2>2. CASE Publish(r) \/ Fill(r)
    BY <1>4, <2>2 DEF Publish, Fill
  <2>3. CASE Rebuild(r)
    BY <2>3 DEF Rebuild, hands
  <2>4. CASE Clear(r)
    BY <1>3, <2>4 DEF Clear
  <2> QED BY <1>7, <2>1, <2>2, <2>3, <2>4 DEF Renewal
<1>8. CASE Fault(r)
  <2>1. CASE RowFails(r)
    BY <1>3, <1>4, <2>1 DEF RowFails, AtRow
  <2>2. CASE GraphFails(r) \/ Kill(r)
    BY <1>4, <2>2 DEF GraphFails, Kill
  <2> QED BY <1>8, <2>1, <2>2 DEF Fault
<1> QED BY <1>5, <1>6, <1>7, <1>8 DEF StepOf

\* Memories that p has met nothing of are not what another operation's step is about.
LEMMA Unmet ==
  ASSUME TypeInv, Known, Known', NEW r \in Process, StepOf(r), NEW q \in Process, q # r,
         step'[q] # "idle", NEW j \in Id \ met'[q]
  PROVE  j # on[r] /\ j # on'[r] /\ vault'[j] = vault[j] /\ j \notin met[q] /\ step[q] = step'[q]
<1>1. step'[q] = step[q] /\ met[q] \subseteq met'[q]
  BY Steps DEF Frame
<1>2. j # on[r] /\ j # on'[r]
  BY <1>1, NoneApart DEF Known
<1> QED BY <1>1, <1>2, Effects

LEMMA LinkingOfOthers ==
  ASSUME TypeInv, Known, Known', Linking, NEW r \in Process, StepOf(r),
         NEW q \in Process, q # r, Solo(q)', NEW j \in Id \ (met'[q] \cup {on'[q]})
  PROVE  /\ step'[q] = "drop" => Joined(vault', on'[q], j, Keys(ToSet(todo'[q])), {})
         /\ step'[q] = "link" => Joined(vault', on'[q], j, Keys(graph' \cup ToSet(todo'[q])), {})
<1> DEFINE i == on[q]
<1>1. /\ Solo(q) /\ step'[q] = step[q] /\ on'[q] = i /\ todo'[q] = todo[q]
      /\ i \in Id /\ step[q] \notin Rebuilding \cup {"idle"} /\ on[r] # i /\ on'[r] # i
  BY Apart, Steps DEF Frame
<1>2. vault'[i] = vault[i]
  BY <1>1, Effects
<1>3. j \in Id \ met'[q] /\ step'[q] # "idle"
  BY <1>1
<1>4. j # on[r] /\ vault'[j] = vault[j] /\ j \notin met[q]
  BY <1>3, Unmet
<1>5. j \in Id \ (met[q] \cup {i})
  BY <1>1, <1>4
<1>6. CASE step[q] = "drop"
  <2>1. Joined(vault, i, j, Keys(ToSet(todo[q])), {})
    BY <1>1, <1>5, <1>6 DEF Linking
  <2>2. Joined(vault', i, j, Keys(ToSet(todo[q])), {})
    BY <1>2, <1>4, <2>1 DEF Joined, Sound, Wants
  <2> QED BY <1>1, <1>6, <2>2
<1>7. CASE step[q] = "link"
  <2>1. Joined(vault, i, j, Keys(graph \cup ToSet(todo[q])), {})
    BY <1>1, <1>5, <1>7 DEF Linking
  <2>2. ASSUME NEW own, Disturb(r, own) PROVE FALSE
    <3>1. i \in met'[q]
      BY <1>1, <2>2, DisturbFrame, NoneApart DEF TypeInv
    <3> QED BY <1>1, <3>1 DEF Solo
  <2>3. ~Clear(r) /\ ~Fill(r)
    BY <2>2 DEF Clear, Fill
  <2>4. SameOf(i, j, Keys(graph), Keys(graph'))
    BY <1>1, <1>4, <2>3, GraphEffects
  <2>5. SameOf(i, j, Keys(graph \cup ToSet(todo[q])), Keys(graph' \cup ToSet(todo[q])))
    BY <2>4 DEF SameOf, Keys
  <2>6. Joined(vault', i, j, Keys(graph' \cup ToSet(todo[q])), {})
    <3> DEFINE keys == Keys(graph \cup ToSet(todo[q]))
               others == Keys(graph' \cup ToSet(todo[q]))
    <3>1. Joined(vault, i, j, keys, {}) /\ SameOf(i, j, keys, others)
      BY <2>1, <2>5
    <3> HIDE DEF keys, others
    <3>2. Joined(vault', i, j, others, {})
      BY <1>2, <1>4, <3>1, JoinedAlike
    <3> QED BY <3>2 DEF others
  <2> QED BY <1>1, <1>7, <2>6
<1> QED BY <1>1, <1>6, <1>7

LEMMA LinkingOfOwn ==
  ASSUME TypeInv, Linking, NEW r \in Process, StepOf(r),
         Solo(r)', NEW j \in Id \ (met'[r] \cup {on'[r]})
  PROVE  /\ step'[r] = "drop" => Joined(vault', on'[r], j, Keys(ToSet(todo'[r])), {})
         /\ step'[r] = "link" => Joined(vault', on'[r], j, Keys(graph' \cup ToSet(todo'[r])), {})
<1> DEFINE i == on[r]
<1>1. HandsOK /\ vault \in Listing /\ graph \in SUBSET Edge
  BY DEF TypeInv, RestOK
<1>2. CASE step'[r] = "drop"
  <2>1. Relist(r)
    BY <1>2, Whence
  <2>2. ~Leave(r)
    BY <1>1, <1>2 DEF Leave, Return, Goto, HandsOK
  <2>3. PICK view \in Views(r) :
          /\ view[i] # None
          /\ todo' = [todo EXCEPT ![r] = Upserts(Refreshed(i, view))]
          /\ met' = [met EXCEPT ![r] = @ \cup Outdated(view)]
    BY <2>1, <2>2 DEF Relist
  <2>4. step[r] = "relist" /\ on' = on /\ vault' = vault
    BY <2>1, <2>2 DEF Relist, files
  <2>5. view \in Listing
    BY <2>3, ViewType DEF TypeInv
  <2>6. i \in Id /\ i \in Present(view) /\ i # j /\ on'[r] = i
    BY <1>1, <2>3, <2>4 DEF HandsOK, HandsType, Rebuilding, Present
  <2>7. /\ todo'[r] = Upserts(Refreshed(i, view))
        /\ i \notin Outdated(view) /\ j \notin Outdated(view)
    BY <1>1, <2>3, <2>6 DEF HandsOK, Solo
  <2>8. Joined(view, i, j, Keys(ToSet(Upserts(Refreshed(i, view)))), {})
    BY <2>5, <2>6, RefreshJoins DEF Refreshed
  <2>9. view[i] = vault[i] /\ view[j] = vault[j]
    BY <2>6, <2>7 DEF Outdated
  <2>10. Joined(vault, i, j, Keys(ToSet(Upserts(Refreshed(i, view)))), {})
    BY <2>8, <2>9 DEF Joined, Sound, Wants
  <2> QED BY <1>2, <2>4, <2>6, <2>7, <2>10
<1>3. CASE step'[r] = "link"
  <2>1. /\ step[r] \in {"drop", "link"} /\ on'[r] = i /\ met'[r] = met[r] /\ vault' = vault
    <3>1. CASE Drop(r)
      <4>1. Goto(r, "link") /\ Keep(r)
        BY <1>1, <1>3, <3>1 DEF Drop, Leave, Return, Goto, HandsOK
      <4> QED BY <3>1, <4>1 DEF Drop, Keep, files
    <3>2. CASE Link(r)
      <4>1. UNCHANGED <<step, on, draft, listing, met>>
        BY <1>1, <1>3, <3>2 DEF Link, Leave, Return, Goto, HandsOK
      <4> QED BY <3>2, <4>1 DEF Link, files
    <3> QED BY <1>3, <3>1, <3>2, Whence
  <2>2. Solo(r) /\ j \in Id \ (met[r] \cup {i})
    BY <2>1 DEF Solo
  <2>3. i \in Id
    BY <1>1, <2>2 DEF Solo, HandsOK
  <2>4. CASE Drop(r)
    <3>1. /\ step[r] = "drop" /\ graph' = Without(graph, i) /\ todo' = todo
      BY <1>1, <1>3, <2>4 DEF Drop, Leave, Return, Goto, HandsOK, Keep
    <3>2. Joined(vault, i, j, Keys(ToSet(todo[r])), {})
      BY <2>2, <3>1 DEF Linking
    <3>3. \A t \in RelationType : <<i, j, t>> \notin Keys(graph') /\ <<j, i, t>> \notin Keys(graph')
      BY <1>1, <2>3, <3>1, WithoutKnown
    <3>4. SameOf(i, j, Keys(ToSet(todo[r])), Keys(graph' \cup ToSet(todo[r])))
      BY <3>3 DEF SameOf, Keys
    <3>5. Joined(vault, i, j, Keys(graph' \cup ToSet(todo[r])), {})
      BY <3>2, <3>4, JoinedAlike
    <3> QED BY <1>3, <2>1, <3>1, <3>5
  <2>5. CASE Link(r)
    <3>1. /\ step[r] = "link" /\ graph' = Upsert(graph, Head(todo[r])) /\ todo'[r] = Tail(todo[r])
      BY <1>1, <1>3, <2>5 DEF Link, Leave, Return, Goto, HandsOK
    <3>2. Joined(vault, i, j, Keys(graph \cup ToSet(todo[r])), {})
      BY <2>2, <3>1 DEF Linking
    <3>3. /\ ToSet(todo[r]) = {Head(todo[r])} \cup ToSet(Tail(todo[r])) /\ Head(todo[r]) \in Edge
      BY <1>1, <3>1, TailKnown DEF HandsOK, HandsType
    <3>4. Keys(graph') = Keys(graph) \cup {Key(Head(todo[r]))}
      BY <1>1, <3>1, <3>3, UpsertKnown
    <3>5. Keys(graph' \cup ToSet(todo'[r])) = Keys(graph \cup ToSet(todo[r]))
      <4>1. Keys(graph' \cup ToSet(Tail(todo[r]))) = Keys(graph') \cup Keys(ToSet(Tail(todo[r])))
        BY DEF Keys
      <4>2. Keys(graph \cup ToSet(todo[r])) = Keys(graph) \cup Keys(ToSet(todo[r]))
        BY DEF Keys
      <4>3. Keys(ToSet(todo[r])) = {Key(Head(todo[r]))} \cup Keys(ToSet(Tail(todo[r])))
        BY <3>3 DEF Keys
      <4> QED BY <3>1, <3>4, <4>1, <4>2, <4>3
    <3> QED BY <1>3, <2>1, <3>2, <3>5
  <2> QED BY <1>3, <2>4, <2>5, Whence
<1> QED BY <1>2, <1>3

LEMMA LinkingStep ==
  ASSUME TypeInv, Known, Known', Linking, NEW r \in Process, StepOf(r)
  PROVE  Linking'
<1> SUFFICES ASSUME NEW q \in Process, Solo(q)', NEW j \in Id \ (met'[q] \cup {on'[q]})
             PROVE  /\ step'[q] = "drop" => Joined(vault', on'[q], j, Keys(ToSet(todo'[q])), {})
                    /\ step'[q] = "link" => Joined(vault', on'[q], j, Keys(graph' \cup ToSet(todo'[q])), {})
  BY DEF Linking, Joined, Sound, Wants, Calls, Keys, ToSet
<1>1. CASE q = r
  BY <1>1, LinkingOfOwn
<1>2. CASE q # r
  BY <1>2, LinkingOfOthers
<1> QED BY <1>1, <1>2

LEMMA FillingStep ==
  ASSUME TypeInv, Known, Known', Listings, Filling, NEW r \in Process, StepOf(r)
  PROVE  Filling'
<1> SUFFICES ASSUME NEW q \in Process, step'[q] = "fill", NEW i \in Id \ met'[q], NEW j \in Id \ met'[q], i # j
             PROVE  Sound(vault', i, j, Keys(graph'))
  BY DEF Filling, Sound, Keys
<1>1. HandsOK /\ vault \in Listing /\ graph \in SUBSET Edge
  BY DEF TypeInv, RestOK
<1>2. CASE Clear(r)
  BY <1>2 DEF Clear, Sound, Keys
<1>3. CASE ~Clear(r)
  <2>1. q # r
    BY <1>3, Whence
  <2>2. /\ i # on[r] /\ vault'[i] = vault[i] /\ i \notin met[q] /\ step[q] = "fill"
        /\ j # on[r] /\ vault'[j] = vault[j] /\ j \notin met[q]
    BY <2>1, Unmet
  <2>3. Sound(vault, i, j, Keys(graph)) /\ Sound(vault, j, i, Keys(graph))
    BY <2>2 DEF Filling
  <2>4. CASE Fill(r)
    <3>1. /\ step[r] = "fill" /\ graph' = Rebuilt(graph, listing[r]) /\ Disturb(r, {}) /\ vault' = vault
      BY <2>4 DEF Fill, files
    <3>2. on[q] = None
      BY <1>1, <2>2 DEF HandsOK, HandsType, Rebuilding
    <3>3. met[r] \subseteq met'[q]
      BY <1>1, <2>1, <2>2, <3>1, <3>2, DisturbFrame
    <3>4. /\ listing[r][i] \in {None, vault[i]} /\ listing[r][j] \in {None, vault[j]}
          /\ listing[r] \in Listing
      BY <1>1, <3>1, <3>3 DEF Listings, HandsOK
    <3>5. ASSUME NEW apart, {i, j} \in apart
          PROVE  Joined(vault, i, j, Keys(Rebuilt(graph, listing[r])), apart)
      <4>1. i \in Id /\ j \in Id
        OBVIOUS
      <4> QED BY <1>1, <2>3, <3>4, <3>5, <4>1, RebuildJoins
    <3>6. Joined(vault, i, j, Keys(Rebuilt(graph, listing[r])), {{i, j}})
      BY <3>5
    <3> QED BY <3>1, <3>6 DEF Joined, Sound
  <2>5. CASE ~Fill(r)
    <3>1. SameOf(i, j, Keys(graph), Keys(graph'))
      BY <1>3, <2>2, <2>5, GraphEffects
    <3> QED BY <2>2, <2>3, <3>1 DEF Sound, SameOf
  <2> QED BY <2>4, <2>5
<1> QED BY <1>2, <1>3

\* A rebuild that ends has joined whatever it vouches for.
LEMMA SettledByFill ==
  ASSUME TypeInv, Listings, Filling, NEW r \in Process, Fill(r),
         NEW i \in Id, NEW j \in Id, i # j, {i, j} \notin loose'.pairs
  PROVE  Joined(vault', i, j, Keys(graph'), loose'.apart)
<1>1. /\ HandsOK /\ vault \in Listing /\ graph \in SUBSET Edge
      /\ loose \in [rows : SUBSET Id, lines : SUBSET Id, pairs : SUBSET AllPairs,
                apart : SUBSET AllPairs]
  BY DEF TypeInv, RestOK, LooseOK
<1>2. /\ step[r] = "fill" /\ graph' = Rebuilt(graph, listing[r]) /\ vault' = vault
      /\ loose'.pairs = UNION {Pairs(k) : k \in met[r]}
      /\ loose'.apart = UNION {Pairs(k) : k \in Id \ Present(listing[r])}
  BY <1>1 DEF Fill, files
<1>3. i \notin met[r] /\ j \notin met[r]
  <2>1. {i, j} \in Pairs(i) /\ {i, j} \in Pairs(j)
    BY DEF Pairs
  <2> QED BY <1>2, <2>1
<1>4. /\ listing[r][i] \in {None, vault[i]} /\ listing[r][j] \in {None, vault[j]}
      /\ listing[r] \in Listing
  BY <1>1, <1>2, <1>3 DEF Listings, HandsOK
<1>5. Sound(vault, i, j, Keys(graph)) /\ Sound(vault, j, i, Keys(graph))
  BY <1>2, <1>3 DEF Filling
<1>6. ASSUME {i, j} \notin loose'.apart PROVE listing[r][i] = vault[i] /\ listing[r][j] = vault[j]
  <2>1. {i, j} \in Pairs(i) /\ {i, j} \in Pairs(j)
    BY DEF Pairs
  <2>2. i \in Present(listing[r]) /\ j \in Present(listing[r])
    BY <1>2, <1>6, <2>1
  <2> QED BY <1>4, <2>2 DEF Present
<1>7. Joined(vault, i, j, Keys(Rebuilt(graph, listing[r])), loose'.apart)
  BY <1>1, <1>4, <1>5, <1>6, RebuildJoins
<1> QED BY <1>2, <1>7

\* What is at work on k is calm towards l before a step of another operation leaves it calm.
LEMMA CalmBefore ==
  ASSUME TypeInv, NEW r \in Process, StepOf(r), NEW k \in Id, NEW l \in Id, Calm(k, l)'
  PROVE  \A p \in Process \ {r} : on[p] = k =>
           step[p] \in {"bury", "unsearch"} /\ k \notin met[p] /\ l \notin met[p]
<1> SUFFICES ASSUME NEW p \in Process \ {r}, on[p] = k
             PROVE  step[p] \in {"bury", "unsearch"} /\ k \notin met[p] /\ l \notin met[p]
  OBVIOUS
<1>1. step[p] # "idle"
  BY NoneApart DEF TypeInv, HandsOK, HandsType
<1>2. on'[p] = k /\ step'[p] = step[p] /\ met[p] \subseteq met'[p]
  BY <1>1, Steps DEF Frame
<1> QED BY <1>2 DEF Calm

\* The changes begun on a memory that leave it calm leave its file as it is.
LEMMA CalmBegun ==
  ASSUME TypeInv, NEW r \in Process, StepOf(r), NEW k \in Id, NEW l \in Id, Calm(k, l)', on[r] # k
  PROVE  vault'[k] = vault[k]
<1>1. CASE on'[r] = k
  <2>1. step'[r] \in {"bury", "unsearch"}
    BY <1>1 DEF Calm
  <2>2. Begins(r)
    BY <1>1, Steps, NoneApart DEF Continues
  <2>3. step[r] = "idle" /\ on'[r] \in Id
    BY <1>1, <2>2 DEF Begins
  <2>4. ~Proceed(r) /\ ~Fault(r)
    BY <2>3 DEF Proceed, Write, Line, Unline, Migrate, Row, Unrow, Relist, Drop, Link, Unlink, Fault, RowFails, GraphFails, Kill, AtRow
  <2>5. CASE Change(r)
    <3>1. ASSUME NEW i \in Id, NEW s \in {"unline", "purge row"}, TakeAway(r, i, s) PROVE FALSE
      BY <2>1, <3>1 DEF TakeAway, Begin, Goto, TypeInv, HandsOK
    <3>2. vault' = vault
      BY <2>5, <3>1 DEF Change, Save, Update, Invalidate, Delete, Purge, files
    <3> QED BY <3>2
  <2>6. CASE Renewal(r)
    BY <2>6 DEF Renewal, Generate, Publish, Rebuild, Regraph, Clear, Fill, files
  <2> QED BY <2>4, <2>5, <2>6 DEF StepOf
<1>2. CASE on'[r] # k
  BY <1>2, Effects
<1> QED BY <1>1, <1>2

\* A step about neither of two memories leaves them joined.
LEMMA SettledApart ==
  ASSUME TypeInv, Settled, NEW r \in Process, StepOf(r), ~Fill(r),
         \A p \in Process : step'[p] # "fill",
         NEW i \in Id, NEW j \in Id, i # j, {i, j} \notin loose'.pairs, Calm(i, j)', Calm(j, i)',
         on[r] # i, on[r] # j
  PROVE  Joined(vault', i, j, Keys(graph'), loose'.apart)
<1>1. ~Clear(r)
  <2>1. Clear(r) => step'[r] = "fill"
    BY DEF Clear, Goto, TypeInv, HandsOK
  <2> QED BY <2>1
<1>2. \A p \in Process : step[p] # "fill"
  <2> SUFFICES ASSUME NEW p \in Process, step[p] = "fill" PROVE FALSE
    OBVIOUS
  <2>1. p = r
    BY Steps DEF Frame
  <2>2. on[r] = None
    BY <2>1 DEF TypeInv, HandsOK, HandsType, Rebuilding
  <2>3. ~Change(r) /\ ~Proceed(r)
    BY <2>1 DEF Change, Save, Update, Invalidate, Delete, Purge, TakeAway, Begin, Proceed, Write, Line,
       Unline, Migrate, Row, Unrow, Relist, Drop, Link, Unlink, AtRow
  <2>4. ~Renewal(r)
    BY <1>1, <2>1 DEF Renewal, Generate, Publish, Rebuild, Regraph, Begin
  <2>5. Kill(r)
    BY <2>1, <2>3, <2>4 DEF StepOf, Fault, RowFails, GraphFails, AtRow
  <2>6. loose'.pairs = AllPairs
    BY <2>1, <2>2, <2>5 DEF Kill, TypeInv, LooseOK
  <2> QED BY <2>6 DEF AllPairs
<1>3. vault'[i] = vault[i] /\ vault'[j] = vault[j]
  BY CalmBegun
<1>4. Calm(i, j)
  BY CalmBefore DEF Calm
<1>5. Calm(j, i)
  BY CalmBefore DEF Calm
<1>6. /\ {i, j} \notin loose.pairs /\ SameOf(i, j, Keys(graph), Keys(graph'))
      /\ {i, j} \in loose.apart => {i, j} \in loose'.apart
  BY <1>1, GraphEffects
<1>7. Joined(vault, i, j, Keys(graph), loose.apart)
  BY <1>2, <1>4, <1>5, <1>6 DEF Settled
<1> QED BY <1>3, <1>6, <1>7, JoinedAlike

\* A step about one of two memories leaves them joined if it leaves the pair settled.
LEMMA SettledOwn ==
  ASSUME TypeInv, Known, VaultInv, Linking, Settled, NEW r \in Process, StepOf(r),
         \A p \in Process : step'[p] # "fill",
         NEW i \in Id, NEW j \in Id, i # j, {i, j} \notin loose'.pairs, Calm(i, j)', Calm(j, i)',
         on[r] = i
  PROVE  Joined(vault', i, j, Keys(graph'), loose'.apart)
<1>1. /\ HandsOK /\ vault \in Listing /\ graph \in SUBSET Edge
      /\ loose \in [rows : SUBSET Id, lines : SUBSET Id, pairs : SUBSET AllPairs,
                apart : SUBSET AllPairs]
  BY DEF TypeInv, RestOK, LooseOK
<1>2. step[r] \notin Rebuilding \cup {"idle"} /\ on[r] # None
  BY <1>1, NoneApart DEF HandsOK, HandsType
<1>3. \A p \in Process : step[p] # "fill"
  BY <1>2, Steps DEF Frame, Rebuilding
<1>4. /\ {i, j} \in Pairs(i) /\ {i, j} \in Pairs(j)
  BY DEF Pairs
<1>5. ~Change(r) /\ ~Renewal(r)
  BY <1>2 DEF Change, Save, Update, Invalidate, Delete, Purge, TakeAway, Begin, Rebuilding,
     Renewal, Generate, Publish, Rebuild, Regraph, Clear, Fill
<1>6. ASSUME NEW renewed, Renew(r, renewed)
      PROVE  /\ i \notin met[r] /\ j \notin met[r] /\ "gone" \notin renewed
             /\ "pairs" \notin renewed => {i, j} \notin loose.pairs /\ loose'.apart = loose.apart
  <2>1. i \notin met[r] /\ "gone" \notin renewed
    BY <1>4, <1>6 DEF Renew
  <2>2. loose'.pairs = (loose.pairs \ IF "pairs" \in renewed THEN Pairs(i) ELSE {}) \cup {{i, k} : k \in met[r]}
    BY <1>6, <2>1 DEF Renew
  <2>3. loose'.apart = loose.apart \ IF "pairs" \in renewed THEN Pairs(i) ELSE {}
    BY <1>6 DEF Renew
  <2>4. "pairs" \notin renewed => {i, j} \notin loose.pairs
    BY <2>2
  <2>5. "pairs" \notin renewed => loose'.apart = loose.apart
    BY <2>3
  <2>6. j \notin met[r]
    BY <2>2
  <2> QED BY <2>1, <2>4, <2>5, <2>6
<1>7. ASSUME Spoil({i}) PROVE FALSE
  <2>1. loose'.pairs = loose.pairs \cup UNION {Pairs(k) : k \in {i}}
    BY <1>1, <1>7 DEF Spoil
  <2> QED BY <1>4, <2>1
<1>8. ASSUME i \notin met[r], j \notin met[r], step[r] \in {"bury", "unsearch"},
             {i, j} \notin loose.pairs
      PROVE  Joined(vault, i, j, Keys(graph), loose.apart)
  <2>1. \A p \in Process \ {r} : on[p] # i
    BY <1>2, <1>8, NoneApart DEF Known
  <2>2. Calm(i, j)
    BY <1>8, <2>1 DEF Calm
  <2>3. Calm(j, i)
    BY CalmBefore DEF Calm
  <2> QED BY <1>3, <1>8, <2>2, <2>3 DEF Settled
<1>9. i \notin met[r] => FileKnown(r)
  BY <1>2 DEF VaultInv, Hands, Solo
<1>10. on'[r] = i => /\ step'[r] \in {"bury", "unsearch"} /\ i \notin met'[r] /\ j \notin met'[r]
  BY DEF Calm
<1>11. ASSUME NEW s, Goto(r, s), Keep(r) PROVE s \in {"bury", "unsearch"} /\ i \notin met[r] /\ j \notin met[r]
  BY <1>1, <1>10, <1>11 DEF Goto, Keep, HandsOK
<1>12. CASE Write(r)
  <2>1. /\ step[r] = "bury" /\ i \notin met[r] /\ j \notin met[r]
        /\ vault' = [vault EXCEPT ![i] = draft[r]] /\ graph' = graph /\ loose' = loose
    BY <1>11, <1>12 DEF Write, indexes
  <2>2. vault[i] # None /\ draft[r] = [vault[i] EXCEPT !.valid = FALSE]
    BY <1>9, <2>1 DEF FileKnown
  <2>3. Joined(vault, i, j, Keys(graph), loose.apart)
    BY <1>8, <2>1
  <2>4. vault' \in Listing /\ vault'[i] = [vault[i] EXCEPT !.valid = FALSE] /\ vault'[j] = vault[j]
    <3>1. draft[r] \in Memory \cup {None}
      BY <1>1 DEF HandsOK
    <3> QED BY <1>1, <2>1, <2>2, <3>1 DEF Listing
  <2>5. Joined(vault', i, j, Keys(graph), loose.apart)
    BY <1>1, <2>2, <2>3, <2>4, ValidityLeaves
  <2> QED BY <2>1, <2>5
<1>13. CASE Migrate(r)
  <2>1. /\ step[r] \in {"bury", "unsearch"} /\ i \notin met[r] /\ j \notin met[r]
        /\ vault' = vault /\ graph' = graph /\ loose'.pairs = loose.pairs /\ loose'.apart = loose.apart
    <3>1. \E view : RebuildRows(view)
      BY <1>13 DEF Migrate
    <3> QED BY <1>1, <1>10, <1>13, <3>1 DEF Migrate, RebuildRows, hands, files
  <2> QED BY <1>8, <2>1
<1>14. CASE Unrow(r)
  <2>1. vault' = vault /\ graph' = graph
    BY <1>14 DEF Unrow, files
  <2>2. step[r] = "unsearch"
    <3> SUFFICES ASSUME step[r] # "unsearch" PROVE FALSE
      OBVIOUS
    <3>1. PICK s \in {"unlink", "purge line"} : Goto(r, s) /\ Keep(r)
      BY <1>14 DEF Unrow
    <3> QED BY <1>11, <3>1
  <2>3. Renew(r, {"rows"})
    BY <1>14, <2>2 DEF Unrow
  <2> QED BY <1>6, <1>8, <2>1, <2>2, <2>3
<1>15. CASE Drop(r)
  <2>1. /\ step[r] = "drop" /\ todo[r] = <<>> /\ Renew(r, {"rows", "lines", "pairs"})
        /\ graph' = Without(graph, i) /\ vault' = vault
    BY <1>11, <1>15 DEF Drop, files
  <2>2. i \notin met[r] /\ j \notin met[r]
    BY <1>6, <2>1
  <2>3. Joined(vault, i, j, Keys(ToSet(<<>>)), {})
    BY <1>2, <2>1, <2>2 DEF Linking, Solo
  <2>4. SameOf(i, j, Keys(ToSet(<<>>)), Keys(graph'))
    <3>1. Keys(ToSet(<<>>)) = {}
      BY DEF Keys, ToSet
    <3> QED BY <1>1, <2>1, <3>1, WithoutKnown DEF SameOf
  <2> QED BY <2>1, <2>3, <2>4, JoinedAlike
<1>16. CASE Link(r)
  <2>1. /\ step[r] = "link" /\ Len(todo[r]) = 1 /\ Renew(r, {"rows", "lines", "pairs"})
        /\ graph' = Upsert(graph, Head(todo[r])) /\ vault' = vault
    BY <1>10, <1>16 DEF Link, files
  <2>2. i \notin met[r] /\ j \notin met[r]
    BY <1>6, <2>1
  <2>3. Joined(vault, i, j, Keys(graph \cup ToSet(todo[r])), {})
    BY <1>2, <2>1, <2>2 DEF Linking, Solo
  <2>4. /\ ToSet(todo[r]) = {Head(todo[r])} \cup ToSet(Tail(todo[r])) /\ Head(todo[r]) \in Edge
        /\ Tail(todo[r]) = <<>>
    BY <1>1, <2>1, TailKnown DEF HandsOK, HandsType
  <2>5. ToSet(todo[r]) = {Head(todo[r])}
    <3>1. ToSet(<<>>) = {}
      BY DEF ToSet
    <3> QED BY <2>4, <3>1
  <2>6. Keys(graph') = Keys(graph \cup ToSet(todo[r]))
    <3>1. Keys(graph') = Keys(graph) \cup {Key(Head(todo[r]))}
      BY <1>1, <2>1, <2>4, UpsertKnown
    <3>2. Keys(graph \cup {Head(todo[r])}) = Keys(graph) \cup {Key(Head(todo[r]))}
      BY DEF Keys
    <3> QED BY <2>5, <3>1, <3>2
  <2> QED BY <2>1, <2>3, <2>6 DEF Joined
<1>17. CASE Unlink(r)
  <2>1. /\ step[r] = "unlink" /\ Renew(r, {"rows", "lines", "pairs"})
        /\ graph' = Without(graph, i) /\ vault' = vault
    BY <1>17 DEF Unlink, files
  <2>2. vault[i] = None
    BY <1>6, <1>9, <2>1 DEF FileKnown
  <2>3. \A t \in RelationType : <<i, j, t>> \notin Keys(graph') /\ <<j, i, t>> \notin Keys(graph')
    BY <1>1, <2>1, WithoutKnown
  <2> QED BY <2>1, <2>2, <2>3 DEF Joined, Sound, Wants
<1>18. ~(Line(r) \/ Unline(r) \/ Row(r) \/ Relist(r))
  <2>1. ~Line(r) /\ ~Row(r)
    BY <1>11 DEF Line, Row
  <2>2. ASSUME Unline(r) PROVE FALSE
    <3>1. CASE step[r] = "unline"
      <4>1. Goto(r, "unrow") /\ Keep(r)
        BY <2>2, <3>1 DEF Unline
      <4> QED BY <1>11, <4>1
    <3>2. CASE step[r] # "unline"
      BY <1>6, <2>2, <3>2 DEF Unline
    <3> QED BY <3>1, <3>2
  <2>3. ~Relist(r)
    BY <1>1, <1>7, <1>10 DEF Relist, Goto, HandsOK
  <2> QED BY <2>1, <2>2, <2>3
<1>19. ~Fault(r)
  <2>1. ASSUME RowFails(r) PROVE FALSE
    <3>1. CASE step[r] = "unsearch"
      BY <1>7, <2>1, <3>1 DEF RowFails
    <3>2. CASE step[r] # "unsearch"
      <4>1. on' = on /\ met' = [met EXCEPT ![r] = @ \cup {on[r]}]
        BY <2>1, <3>2 DEF RowFails
      <4> QED BY <1>1, <1>10, <4>1 DEF HandsOK
    <3> QED BY <3>1, <3>2
  <2>2. ~GraphFails(r) /\ ~Kill(r)
    BY <1>2, <1>7 DEF GraphFails, Kill
  <2> QED BY <2>1, <2>2 DEF Fault
<1> QED BY <1>5, <1>12, <1>13, <1>14, <1>15, <1>16, <1>17, <1>18, <1>19 DEF StepOf, Proceed

LEMMA SettledStep ==
  ASSUME TypeInv, Known, VaultInv, GraphInv, NEW r \in Process, StepOf(r)
  PROVE  Settled'
<1> SUFFICES ASSUME \A p \in Process : step'[p] # "fill", NEW i \in Id, NEW j \in Id, i # j,
                    {i, j} \notin loose'.pairs, Calm(i, j)', Calm(j, i)'
             PROVE  Joined(vault, i, j, Keys(graph), loose.apart)'
  BY DEF Settled
<1> SUFFICES Joined(vault', i, j, Keys(graph'), loose'.apart)
  BY DEF Joined, Sound, Wants, Calls, Keys
<1>1. CASE Fill(r)
  BY <1>1, SettledByFill DEF VaultInv, GraphInv
<1>2. CASE on[r] = i
  BY <1>2, SettledOwn DEF GraphInv
<1>3. CASE on[r] = j
  <2>1. {j, i} \notin loose'.pairs
    OBVIOUS
  <2>2. Joined(vault', j, i, Keys(graph'), loose'.apart)
    BY <1>3, <2>1, SettledOwn DEF GraphInv
  <2> QED BY <2>2, JoinedBoth
<1>4. CASE ~Fill(r) /\ on[r] # i /\ on[r] # j
  BY <1>4, SettledApart DEF GraphInv
<1> QED BY <1>1, <1>2, <1>3, <1>4

LEMMA GraphStep ==
  TypeInv /\ Known /\ VaultInv /\ GraphInv /\ [Next]_vars /\ TypeInv' /\ Known' => GraphInv'
<1> SUFFICES ASSUME TypeInv, Known, VaultInv, GraphInv, [Next]_vars, TypeInv', Known' PROVE GraphInv'
  OBVIOUS
<1>1. CASE UNCHANGED <<files, indexes, hands, met, loose>>
  BY <1>1 DEF GraphInv, Linking, Filling, Settled, Solo, Calm, files, indexes, hands
<1>2. ASSUME NEW r \in Process, StepOf(r) PROVE GraphInv'
  BY <1>2, LinkingStep, FillingStep, SettledStep DEF GraphInv, VaultInv
<1> QED BY <1>1, <1>2, NextSteps DEF vars

LEMMA GraphInit == Init => GraphInv
<1> SUFFICES ASSUME Init PROVE GraphInv
  OBVIOUS
<1>1. vault \in Listing /\ graph = Rebuilt({}, vault)
  BY TypeInit DEF TypeInv, RestOK, Init
<1>2. ASSUME NEW i \in Id, NEW j \in Id, i # j PROVE Joined(vault, i, j, Keys(graph), loose.apart)
  <2>1. {} \in SUBSET Edge
    OBVIOUS
  <2>2. ASSUME NEW edges \in SUBSET Edge, edges = {}, NEW notes, notes = vault, NEW apart
        PROVE  Joined(notes, i, j, Keys(Rebuilt(edges, vault)), apart)
    <3>1. Sound(notes, i, j, Keys(edges)) /\ Sound(notes, j, i, Keys(edges))
      BY <2>2 DEF Sound, Keys
    <3>2. vault[i] \in {None, notes[i]} /\ vault[j] \in {None, notes[j]}
      BY <2>2
    <3>3. {i, j} \notin apart => vault[i] = notes[i] /\ vault[j] = notes[j]
      BY <2>2
    <3>4. vault \in Listing /\ i # j
      BY <1>1, <1>2
    <3> QED BY <3>1, <3>2, <3>3, <3>4, RebuildJoins
  <2> QED BY <1>1, <2>1, <2>2
<1>3. Linking /\ Filling
  BY DEF Init, Linking, Filling, Solo
<1> QED BY <1>2, <1>3 DEF GraphInv, Settled

\* What a refresh of i joins it to, and a rebuild considers, is what i wants.
LEMMA WantedWants ==
  ASSUME TypeInv, NEW i \in Id, NEW j \in Id, vault[i] # None, vault[j] # None, j \in Wanted(i)
  PROVE  Wants(vault, i, j)
<1> DEFINE pool == PoolFor(i, vault[i], vault)
<1>1. vault \in Listing /\ vault[i] \in Memory /\ pool \in SUBSET Present(vault) /\ EdgeLimit \in Nat
  BY LimitAssumption DEF TypeInv, RestOK, Listing, PoolFor
<1>2. PICK e \in ToSet(Refreshed(i, vault)) : e.dst = j
  BY DEF Wanted
<1>3. e \in Qualifying(i, vault[i], vault, pool)
  <2>1. ToSet(Ranked(Qualifying(i, vault[i], vault, pool), EdgeLimit)) \subseteq Qualifying(i, vault[i], vault, pool)
    BY <1>1, CandidatesKnown
  <2> QED BY <2>1 DEF Refreshed, EdgeCandidates
<1>4. j \in pool /\ e = EdgeTo(i, vault[i], j, vault[j]) /\ ~Weak(e)
  <2> HIDE DEF pool
  <2> QED BY <1>1, <1>2, <1>3, QualifyingKnown
<1>5. j \in PoolFromIndex(i, vault[i], vault)
  BY DEF Wanted
<1> QED BY <1>4, <1>5 DEF Wants, Calls, PoolFor, PoolFromIndex

LEMMA SettledFollows == TypeInv /\ Settled => EdgesFollow
<1> SUFFICES ASSUME TypeInv, Settled, ~Regraphing, NEW i \in Id, NEW j \in Id, ~Busy(i), ~Busy(j),
                    {i, j} \notin loose.pairs, i # j
             PROVE  /\ \A e \in graph : e.src = i /\ e.dst = j =>
                         /\ vault[i] # None /\ vault[j] # None
                         /\ e.type \in Symmetric => \E d \in graph : d.src = j /\ d.dst = i /\ d.type = e.type
                    /\ vault[i] # None /\ vault[j] # None /\ Cardinality(Id) <= EdgeLimit
                         /\ j \in Wanted(i) /\ i \in Wanted(j) /\ {i, j} \notin loose.apart
                         => \E e \in graph : {e.src, e.dst} = {i, j}
  BY DEF EdgesFollow
<1>1. graph \in SUBSET Edge /\ \A p \in Process : on[p] # None => step[p] # "idle"
  BY DEF TypeInv, RestOK, HandsOK, HandsType
<1>2. Calm(i, j) /\ Calm(j, i)
  BY <1>1, NoneApart DEF Calm, Busy
<1>3. Joined(vault, i, j, Keys(graph), loose.apart)
  BY <1>2 DEF Settled, Regraphing
<1>4. \A a, b \in Id, t \in RelationType :
        <<a, b, t>> \in Keys(graph) <=> \E e \in graph : e.src = a /\ e.dst = b /\ e.type = t
  BY DEF Keys, Key
<1>5. \A e \in graph : e.type \in RelationType
  BY <1>1 DEF Edge
<1>6. vault[i] # None /\ vault[j] # None /\ j \in Wanted(i) /\ i \in Wanted(j)
        => Wants(vault, i, j) /\ Wants(vault, j, i)
  BY WantedWants
<1>7. ASSUME Cardinality(Id) <= EdgeLimit, Wants(vault, i, j), Wants(vault, j, i), {i, j} \notin loose.apart
      PROVE  \E e \in graph : {e.src, e.dst} = {i, j}
  <2>1. PICK t \in RelationType : <<i, j, t>> \in Keys(graph) \/ <<j, i, t>> \in Keys(graph)
    BY <1>3, <1>7 DEF Joined
  <2>2. \E e \in graph : (e.src = i /\ e.dst = j) \/ (e.src = j /\ e.dst = i)
    BY <1>4, <2>1
  <2> QED BY <2>2
<1>8. \A t \in RelationType : <<i, j, t>> \in Keys(graph) =>
        /\ vault[i] # None /\ vault[j] # None
        /\ t \in Symmetric => <<j, i, t>> \in Keys(graph)
  BY <1>3 DEF Joined, Sound
<1>9. ASSUME NEW e \in graph, e.src = i, e.dst = j
      PROVE  /\ vault[i] # None /\ vault[j] # None
             /\ e.type \in Symmetric => \E d \in graph : d.src = j /\ d.dst = i /\ d.type = e.type
  <2>1. <<i, j, e.type>> \in Keys(graph)
    BY <1>9 DEF Keys, Key
  <2>2. e.type \in RelationType
    BY <1>5
  <2>3. /\ vault[i] # None /\ vault[j] # None
        /\ e.type \in Symmetric => <<j, i, e.type>> \in Keys(graph)
    BY <1>8, <2>1, <2>2, Zenon
  <2>4. <<j, i, e.type>> \in Keys(graph) => \E d \in graph : d.src = j /\ d.dst = i /\ d.type = e.type
    BY DEF Keys, Key
  <2> QED BY <2>3, <2>4
<1> QED BY <1>6, <1>7, <1>9

\* The graph joins memories that are there, symmetric relations both ways, and every two memories
\* that want an edge towards each other, wherever operations neither overlapped nor failed, a
\* refresh read neither from an old cache, and the last rebuild listed both: a refresh that runs
\* alone removes a memory's edges and writes all it needs, and a rebuild writes those of what it
\* listed (graph_index.py:544, 565).
THEOREM EdgesAgree == Spec => []EdgesFollow
<1>1. TypeInv /\ Known /\ VaultInv /\ GraphInv /\ [Next]_vars /\ TypeInv' /\ Known' => GraphInv'
  BY GraphStep
<1>2. TypeInv /\ GraphInv => EdgesFollow
  BY SettledFollows DEF GraphInv
<1> QED BY <1>1, <1>2, GraphInit, VaultAlways, PTL DEF Spec
================================================================================
