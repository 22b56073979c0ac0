------------------------ MODULE EmbeddingTranscriptProofs ------------------------
(***************************************************************************)
(* The transcript index and the vector index, which share no state, for    *)
(* any sessions, memories and processes.  The transcripts first: the       *)
(* parser gives the exchanges of a transcript, the table holds those of    *)
(* one version of it, and a search misses none.                            *)
(***************************************************************************)
EXTENDS Transcripts, EmbeddingIndex, FiniteSetTheorems, SequenceTheorems, WellFoundedInduction, TLAPS

(***************************************************************************)
(* The parser.  What holds of every number is shown by the least one it    *)
(* would not hold of.                                                      *)
(***************************************************************************)
LEMMA Least ==
  ASSUME NEW T \in SUBSET Nat, T # {}
  PROVE  \E m \in T : \A k \in T : m <= k
<1> DEFINE R == OpToRel(<, Nat)
<1>1. \A x, y \in Nat : y < x => <<y, x>> \in R
  BY DEF OpToRel
<1>2. IsWellFoundedOn(R, Nat)
  BY NatLessThanWellFounded
<1> HIDE DEF R
<1>3. PICK m \in T : \A k \in T : ~(<<k, m>> \in R)
  BY <1>2, WFMin
<1>4. \A k \in T : k \in Nat /\ m \in Nat /\ ~(k < m)
  BY <1>1, <1>3, Zenon
<1> QED BY <1>4

\* What holds of 0, and of every number after one it holds of, holds of all.
LEMMA Counting ==
  ASSUME NEW T \in SUBSET Nat, 0 \in T, \A n \in T : n + 1 \in T
  PROVE  T = Nat
<1> SUFFICES ASSUME Nat \ T # {} PROVE FALSE
  OBVIOUS
<1>1. PICK m \in Nat \ T : \A k \in Nat \ T : m <= k
  BY Least
<1>2. m - 1 \in T /\ m = (m - 1) + 1
  BY <1>1
<1> QED BY <1>1, <1>2

Start == [pairs |-> {}, open |-> NoExchange]

\* The parser's state after each record exists, and is what the record makes of the one before.
LEMMA CollectedSteps ==
  ASSUME NEW roles \in Seq(Role)
  PROVE  /\ Collected(roles)[0] = Start
         /\ \A n \in 1..Len(roles) :
              Collected(roles)[n] = Collect(Collected(roles)[n - 1], roles[n], n)
<1> DEFINE N == Len(roles)
           By(f, n) == \A i \in 0..n : f[i] = IF i = 0 THEN Start ELSE Collect(f[i-1], roles[i], i)
           T == {n \in Nat : \E f : By(f, n)}
           F == CHOOSE f : f = [i \in 0..N |-> IF i = 0 THEN Start ELSE Collect(f[i-1], roles[i], i)]
<1>1. N \in Nat
  OBVIOUS
<1>2. Collected(roles) = F
  BY DEF Collected, Start
<1> HIDE DEF N, F
<1>3. 0 \in T
  <2>1. By([i \in 0..0 |-> Start], 0)
    OBVIOUS
  <2> QED BY <2>1
<1>4. ASSUME NEW n \in T PROVE n + 1 \in T
  <2>1. PICK f : By(f, n)
    OBVIOUS
  <2> DEFINE g == [i \in 0..n+1 |-> IF i <= n THEN f[i] ELSE Collect(f[i-1], roles[i], i)]
  <2>2. \A i \in 0..n+1 : g[i] = IF i = 0 THEN Start ELSE Collect(g[i-1], roles[i], i)
    <3> TAKE i \in 0..n+1
    <3>1. i # 0 => g[i-1] = f[i-1]
      OBVIOUS
    <3>2. CASE i <= n
      BY <3>1, <3>2, <2>1
    <3>3. CASE ~(i <= n)
      BY <3>1, <3>3
    <3> QED BY <3>2, <3>3
  <2> HIDE DEF g
  <2> QED BY <2>2
<1>5. T = Nat
  <2>1. T \in SUBSET Nat
    OBVIOUS
  <2> HIDE DEF T
  <2> QED BY <1>3, <1>4, <2>1, Counting, Zenon
<1>6. PICK f : By(f, N)
  <2> HIDE DEF By
  <2> QED BY <1>1, <1>5
<1>7. \A i \in 0..N : F[i] = IF i = 0 THEN Start ELSE Collect(F[i-1], roles[i], i)
  <2> DEFINE h == [i \in 0..N |-> f[i]]
  <2>1. \A i \in 0..N : i # 0 => i - 1 \in 0..N
    BY <1>1
  <2>2. \A i \in 0..N : h[i] = IF i = 0 THEN Start ELSE Collect(h[i-1], roles[i], i)
    BY <1>6, <2>1
  <2>3. h = [i \in 0..N |-> h[i]]
    OBVIOUS
  <2> HIDE DEF h
  <2>4. h = [i \in 0..N |-> IF i = 0 THEN Start ELSE Collect(h[i-1], roles[i], i)]
    BY <2>2, <2>3
  <2>5. F = [i \in 0..N |-> IF i = 0 THEN Start ELSE Collect(F[i-1], roles[i], i)]
    BY <2>4 DEF F
  <2> QED BY <2>5
<1> QED BY <1>1, <1>2, <1>7 DEF N
\* The records from an opening up to the next one, which is n, or to the end.
LEMMA BlockEnds ==
  ASSUME NEW roles \in Seq(Role), NEW l \in Opens(roles), l <= Len(roles), NEW n \in l..Len(roles),
         \A o \in Opens(roles) : ~(l < o /\ o <= n),
         n = Len(roles) \/ n + 1 \in Opens(roles)
  PROVE  Block(roles, l) = l..n
<1>1. Opens(roles) \subseteq Nat
  BY DEF Opens
<1>2. \A k \in l..n : \A o \in Opens(roles) : o > l => k < o
  BY <1>1
<1>3. \A k \in l..Len(roles) : (\A o \in Opens(roles) : o > l => k < o) => k \in l..n
  BY <1>1
<1> QED BY <1>1, <1>2, <1>3 DEF Block

\* After n records the parser has flushed the exchanges before the last opening l, and holds the
\* records from l on; it has no answer among them as long as the last one is the user's.
Kept(roles, n, l) ==
  /\ l \in Opens(roles) /\ l <= n
  /\ \A o \in Opens(roles) : ~(l < o /\ o <= n)
  /\ Collected(roles)[n].open = [r \in Role |-> {k \in l..n : roles[k] = r}]
  /\ Collected(roles)[n].pairs =
       {x \in {Sides(roles, o) : o \in {o \in Opens(roles) : o < l}} : Complete(x)}
  /\ roles[n] = "user" => \A k \in l..n : roles[k] = "user"

LEMMA KeptNext ==
  ASSUME NEW roles \in Seq(Role), NEW n \in Nat \ {0}, n + 1 <= Len(roles),
         NEW l \in Nat, Kept(roles, n, l)
  PROVE  \E m \in Nat : Kept(roles, n + 1, m)
<1> DEFINE b == Collected(roles)[n]
           turn == roles[n + 1] = "user" /\ b.open["assistant"] # {}
<1>1. Opens(roles) \subseteq Nat /\ l \in Opens(roles) /\ l \in 1..n /\ 1 \in Opens(roles)
  BY DEF Kept, Opens
<1>2. \A k \in 1..Len(roles) : roles[k] \in Role
  OBVIOUS
<1>3. b.open["assistant"] # {} <=> roles[n] = "assistant"
  <2>1. b.open["assistant"] = {k \in l..n : roles[k] = "assistant"}
    BY DEF Kept, Role
  <2>2. CASE roles[n] = "assistant"
    BY <1>1, <2>1, <2>2
  <2>3. CASE roles[n] = "user"
    BY <2>1, <2>3 DEF Kept
  <2> QED BY <1>2, <2>2, <2>3 DEF Role
<1>4. turn <=> n + 1 \in Opens(roles)
  BY <1>3 DEF Opens
<1>5. Collected(roles)[n + 1] = Collect(b, roles[n + 1], n + 1)
  BY CollectedSteps
<1>6. CASE turn
  <2>1. Collected(roles)[n + 1].open = [NoExchange EXCEPT ![roles[n + 1]] = @ \cup {n + 1}]
        /\ Collected(roles)[n + 1].pairs = Flush(b)
    BY <1>5, <1>6 DEF Collect
  <2>2. Collected(roles)[n + 1].open = [r \in Role |-> {k \in n+1..n+1 : roles[k] = r}]
    <3>1. \A r \in Role : [NoExchange EXCEPT ![roles[n + 1]] = @ \cup {n + 1}][r]
                          = {k \in n+1..n+1 : roles[k] = r}
      BY <1>2 DEF NoExchange
    <3>2. [NoExchange EXCEPT ![roles[n + 1]] = @ \cup {n + 1}]
          = [r \in Role |-> [NoExchange EXCEPT ![roles[n + 1]] = @ \cup {n + 1}][r]]
      BY DEF NoExchange
    <3> QED BY <2>1, <3>1, <3>2
  <2>3. Block(roles, l) = l..n
    <3>1. n \in l..Len(roles) /\ l <= Len(roles) /\ n + 1 \in Opens(roles)
      BY <1>1, <1>4, <1>6
    <3>2. \A o \in Opens(roles) : ~(l < o /\ o <= n)
      BY DEF Kept
    <3> QED BY <1>1, <3>1, <3>2, BlockEnds
  <2>4. Sides(roles, l) = b.open
    BY <2>3 DEF Sides, Kept
  <2>5. {o \in Opens(roles) : o < n + 1} = {o \in Opens(roles) : o < l} \cup {l}
    BY <1>1 DEF Kept
  <2>6. Flush(b) = {x \in {Sides(roles, o) : o \in {o \in Opens(roles) : o < n + 1}} : Complete(x)}
    <3>1. b.pairs = {x \in {Sides(roles, o) : o \in {o \in Opens(roles) : o < l}} : Complete(x)}
      BY DEF Kept
    <3> QED BY <2>4, <2>5, <3>1 DEF Flush
  <2>7. \A k \in n+1..n+1 : roles[k] = "user"
    BY <1>6
  <2>8. Kept(roles, n + 1, n + 1)
    <3>1. \A o \in Opens(roles) : ~(n + 1 < o /\ o <= n + 1)
      BY <1>1
    <3>2. n + 1 \in Opens(roles) /\ n + 1 <= n + 1
      BY <1>4, <1>6
    <3> QED BY <2>1, <2>2, <2>6, <2>7, <3>1, <3>2 DEF Kept
  <2> QED BY <2>8
<1>7. CASE ~turn
  <2>1. Collected(roles)[n + 1].open = [b.open EXCEPT ![roles[n + 1]] = @ \cup {n + 1}]
        /\ Collected(roles)[n + 1].pairs = b.pairs
    <3>1. ~(roles[n + 1] = "user" /\ b.open["assistant"] # {})
      BY <1>7
    <3>2. Collect(b, roles[n + 1], n + 1)
          = [pairs |-> b.pairs, open |-> [b.open EXCEPT ![roles[n + 1]] = @ \cup {n + 1}]]
      <4> HIDE DEF b, turn
      <4> QED BY <3>1, Zenon DEF Collect
    <3> DEFINE grown == [b.open EXCEPT ![roles[n + 1]] = @ \cup {n + 1}]
    <3>3. Collected(roles)[n + 1] = [pairs |-> b.pairs, open |-> grown]
      BY <1>5, <3>2
    <3> HIDE DEF grown
    <3>4. Collected(roles)[n + 1].open = grown /\ Collected(roles)[n + 1].pairs = b.pairs
      BY <3>3
    <3> QED BY <3>4 DEF grown
  <2>2. Collected(roles)[n + 1].open = [r \in Role |-> {k \in l..n+1 : roles[k] = r}]
    <3>1. b.open = [r \in Role |-> {k \in l..n : roles[k] = r}]
      BY DEF Kept
    <3>2. \A r \in Role : [b.open EXCEPT ![roles[n + 1]] = @ \cup {n + 1}][r]
                          = {k \in l..n+1 : roles[k] = r}
      <4> TAKE r \in Role
      <4>1. CASE r = roles[n + 1]
        BY <1>1, <3>1, <4>1
      <4>2. CASE r # roles[n + 1]
        BY <1>1, <3>1, <4>2
      <4> QED BY <4>1, <4>2
    <3>3. [b.open EXCEPT ![roles[n + 1]] = @ \cup {n + 1}]
          = [r \in Role |-> [b.open EXCEPT ![roles[n + 1]] = @ \cup {n + 1}][r]]
      BY <3>1
    <3> QED BY <2>1, <3>2, <3>3
  <2>3. \A o \in Opens(roles) : ~(l < o /\ o <= n + 1)
    <3>1. \A o \in Opens(roles) : ~(l < o /\ o <= n) /\ o # n + 1
      BY <1>4, <1>7 DEF Kept
    <3> QED BY <1>1, <3>1
  <2>4. roles[n + 1] = "user" => \A k \in l..n+1 : roles[k] = "user"
    <3> SUFFICES ASSUME roles[n + 1] = "user", NEW k \in l..n+1 PROVE roles[k] = "user"
      OBVIOUS
    <3>1. roles[n] = "user"
      BY <1>1, <1>2, <1>3, <1>7 DEF Role
    <3>2. k = n + 1 \/ k \in l..n
      BY <1>1
    <3> QED BY <3>1, <3>2 DEF Kept
  <2>5. Kept(roles, n + 1, l)
    BY <1>1, <2>1, <2>2, <2>3, <2>4 DEF Kept
  <2> QED BY <2>5
<1> QED BY <1>6, <1>7

LEMMA KeptAlways ==
  ASSUME NEW roles \in Seq(Role), Len(roles) # 0
  PROVE  \E l \in Nat : Kept(roles, Len(roles), l)
<1> DEFINE T == {n \in Nat : n + 1 <= Len(roles) => \E l \in Nat : Kept(roles, n + 1, l)}
<1>1. 0 \in T
  <2>1. Collected(roles)[1] = Collect(Start, roles[1], 1) /\ roles[1] \in Role
    BY CollectedSteps
  <2>2. Collect(Start, roles[1], 1).open = [NoExchange EXCEPT ![roles[1]] = @ \cup {1}]
        /\ Collect(Start, roles[1], 1).pairs = {}
    BY DEF Collect, Start, NoExchange, Role
  <2>3. \A r \in Role : [NoExchange EXCEPT ![roles[1]] = @ \cup {1}][r] = {k \in 1..1 : roles[k] = r}
    BY <2>1 DEF NoExchange
  <2>4. [NoExchange EXCEPT ![roles[1]] = @ \cup {1}]
        = [r \in Role |-> [NoExchange EXCEPT ![roles[1]] = @ \cup {1}][r]]
    BY DEF NoExchange
  <2>5. Collected(roles)[1].open = [r \in Role |-> {k \in 1..1 : roles[k] = r}]
    BY <2>1, <2>2, <2>3, <2>4
  <2>6. 1 \in Opens(roles) /\ {o \in Opens(roles) : o < 1} = {}
    BY DEF Opens
  <2>7. Kept(roles, 1, 1)
    <3>1. \A o \in Opens(roles) : ~(1 < o /\ o <= 1)
      BY DEF Opens
    <3>2. Collected(roles)[1].pairs =
            {x \in {Sides(roles, o) : o \in {o \in Opens(roles) : o < 1}} : Complete(x)}
      BY <2>1, <2>2, <2>6
    <3>3. roles[1] = "user" => \A k \in 1..1 : roles[k] = "user"
      OBVIOUS
    <3> QED BY <2>5, <2>6, <3>1, <3>2, <3>3 DEF Kept
  <2> QED BY <2>7
<1>2. ASSUME NEW n \in T PROVE n + 1 \in T
  <2> SUFFICES ASSUME n + 2 <= Len(roles) PROVE \E l \in Nat : Kept(roles, n + 2, l)
    OBVIOUS
  <2>1. PICK l \in Nat : Kept(roles, n + 1, l)
    OBVIOUS
  <2>2. n + 1 \in Nat \ {0} /\ (n + 1) + 1 = n + 2
    OBVIOUS
  <2> QED BY <2>1, <2>2, KeptNext
<1>3. T = Nat
  <2>1. T \in SUBSET Nat
    OBVIOUS
  <2> HIDE DEF T
  <2> QED BY <1>1, <1>2, <2>1, Counting, Zenon
<1>4. Len(roles) - 1 \in T /\ (Len(roles) - 1) + 1 = Len(roles)
  <2> HIDE DEF T
  <2> QED BY <1>3
<1> QED BY <1>4

\* What a transcript parses to, record by record, are the exchanges its roles show: the records
\* between two turns of the user that follow an answer, when both sides have spoken
\* (_parse_jsonl_session_pairs and its flushes).
THEOREM ParserRight ==
  ASSUME NEW roles \in Seq(Role)
  PROVE  Parse(roles) = Exchanges(roles)
<1>1. CASE Len(roles) = 0
  <2>1. Collected(roles)[0] = Start /\ Parse(roles) = Flush(Start)
    BY <1>1, CollectedSteps DEF Parse
  <2>2. "user" \in Role /\ Flush(Start) = {}
    BY DEF Flush, Start, Complete, NoExchange, Role
  <2>3. Opens(roles) = {1} /\ Block(roles, 1) = {}
    BY <1>1 DEF Opens, Block
  <2>4. ~Complete(Sides(roles, 1))
    BY <2>2, <2>3 DEF Complete, Sides
  <2> QED BY <2>1, <2>2, <2>3, <2>4 DEF Exchanges
<1>2. CASE Len(roles) # 0
  <2> DEFINE n == Len(roles)
             b == Collected(roles)[n]
  <2>1. PICK l \in Nat : Kept(roles, n, l)
    BY <1>2, KeptAlways
  <2>2. n \in Nat \ {0} /\ Opens(roles) \subseteq 1..n
    BY <1>2 DEF Opens
  <2>3. Block(roles, l) = l..n
    BY <2>1, <2>2, BlockEnds DEF Kept
  <2>4. Sides(roles, l) = b.open
    BY <2>1, <2>3 DEF Sides, Kept
  <2>5. Opens(roles) = {o \in Opens(roles) : o < l} \cup {l}
    BY <2>1, <2>2 DEF Kept
  <2>6. b.pairs = {x \in {Sides(roles, o) : o \in {o \in Opens(roles) : o < l}} : Complete(x)}
    BY <2>1 DEF Kept
  <2> HIDE DEF n, b
  <2>7. Flush(b) = Exchanges(roles)
    BY <2>4, <2>5, <2>6 DEF Flush, Exchanges
  <2> QED BY <2>7 DEF Parse, b, n
<1> QED BY <1>1, <1>2
(***************************************************************************)
(* The versions of a transcript.                                           *)
(***************************************************************************)
LEMMA ScriptSeq ==
  ASSUME NEW roles \in Script
  PROVE  roles \in Seq(Role) /\ Len(roles) \in 0..ScriptLength
<1>1. PICK n \in 0..ScriptLength : roles \in [1..n -> Role]
  BY DEF Script
<1>2. n \in Nat
  BY ScriptAssumption
<1>3. roles \in Seq(Role)
  BY <1>1, <1>2, SeqDef
<1>4. Len(roles) = n
  BY <1>1, <1>2, <1>3, LenProperties
<1> QED BY <1>3, <1>4

LEMMA Prefix ==
  ASSUME NEW roles \in Seq(Role), NEW n \in 0..Len(roles)
  PROVE  /\ SubSeq(roles, 1, n) \in Seq(Role) /\ Len(SubSeq(roles, 1, n)) = n
         /\ \A k \in 1..n : SubSeq(roles, 1, n)[k] = roles[k]
OBVIOUS

\* The exchanges of a version are made of its records, and an empty one has none.
LEMMA ExchangesType ==
  ASSUME NEW roles \in Script, NEW n \in 0..Len(roles)
  PROVE  /\ Exchanges(SubSeq(roles, 1, n)) \in SUBSET Exchange
         /\ n = 0 => Exchanges(SubSeq(roles, 1, n)) = {}
<1> DEFINE a == SubSeq(roles, 1, n)
<1>1. a \in Seq(Role) /\ Len(a) = n /\ n \in 0..ScriptLength
  BY ScriptSeq, Prefix, ScriptAssumption
<1> HIDE DEF a
<1>2. Opens(a) \subseteq Nat \ {0}
  BY <1>1 DEF Opens
<1>3. \A o \in Opens(a) : Block(a, o) \subseteq 1..n
  BY <1>1, <1>2 DEF Block
<1>4. \A o \in Opens(a) : Sides(a, o) \in Exchange
  <2> TAKE o \in Opens(a)
  <2>1. Block(a, o) \subseteq 1..ScriptLength
    BY <1>1, <1>3, ScriptAssumption
  <2> QED BY <2>1 DEF Sides, Exchange
<1>5. ASSUME n = 0, NEW o \in Opens(a) PROVE ~Complete(Sides(a, o))
  <2>1. Block(a, o) = {} /\ "user" \in Role
    BY <1>3, <1>5 DEF Role
  <2> QED BY <2>1 DEF Sides, Complete
<1> QED BY <1>4, <1>5 DEF Exchanges, a

\* An exchange of a version is part of one of any later version.
LEMMA ExchangesGrow ==
  ASSUME NEW roles \in Seq(Role), NEW n \in 0..Len(roles), NEW m \in 0..n,
         NEW x \in Exchanges(SubSeq(roles, 1, m))
  PROVE  \E y \in Exchanges(SubSeq(roles, 1, n)) : \A r \in Role : x[r] \subseteq y[r]
<1> DEFINE a == SubSeq(roles, 1, m)
           b == SubSeq(roles, 1, n)
<1>2. /\ a \in Seq(Role) /\ Len(a) = m /\ b \in Seq(Role) /\ Len(b) = n
      /\ \A k \in 1..m : a[k] = b[k]
  <2>1. m \in 0..Len(roles)
    OBVIOUS
  <2>2. \A k \in 1..m : a[k] = roles[k]
    BY <2>1, Prefix
  <2>3. \A k \in 1..n : b[k] = roles[k]
    BY Prefix
  <2>4. \A k \in 1..m : k \in 1..n
    OBVIOUS
  <2> QED BY <2>1, <2>2, <2>3, <2>4, Prefix
<1>3. PICK o \in Opens(a) : x = Sides(a, o) /\ Complete(x)
  BY DEF Exchanges
<1> HIDE DEF a, b
<1>4. \A p \in Nat : p <= m => (p \in Opens(a) <=> p \in Opens(b))
  BY <1>2 DEF Opens
<1>5. o \in Nat \ {0} /\ Opens(b) \subseteq Nat /\ o \in Opens(b)
  BY <1>2, <1>4 DEF Opens
<1>6. Block(a, o) \subseteq Block(b, o) /\ Block(a, o) \subseteq 1..m
  BY <1>2, <1>4, <1>5 DEF Block
<1>7. \A r \in Role : x[r] \subseteq Sides(b, o)[r]
  BY <1>2, <1>3, <1>6 DEF Sides
<1>8. Complete(Sides(b, o))
  BY <1>3, <1>7 DEF Complete
<1> QED BY <1>5, <1>7, <1>8 DEF Exchanges, b

\* ... so the words of the one are words of the other.
LEMMA WordsGrow ==
  ASSUME NEW s, NEW x, NEW y, \A r \in Role : x[r] \subseteq y[r]
  PROVE  Words(s, x) \subseteq Words(s, y)
BY DEF Words
(***************************************************************************)
(* Types                                                                   *)
(***************************************************************************)
Busy == {"open", "drop", "create", "store"}
Step == {"idle", "parse"} \cup Busy
Place == Session \cup {NoSession}

\* An indexer that is not idle is at a session.
Seated == \A p \in Indexer : step[p] = "idle" <=> at[p] = NoSession

\* A transcript only grows, up to its script; a search began at a length it had.
Growing == \A s \in Session : first[s] <= length[s] /\ length[s] <= Len(script[s])

Typed == TranscriptsTypeOK /\ Seated /\ Growing

\* An indexer that turns to a session, or to nothing, puts down what it had, and no other moves.
LEMMA Turned ==
  ASSUME Typed, NEW p \in Indexer, NEW s \in Place, Turn(p, s)
  PROVE  /\ step' \in [Indexer -> Step] /\ at' \in [Indexer -> Place]
         /\ parsed' \in [Indexer -> SUBSET Exchange] /\ read' \in [Indexer -> 0..ScriptLength]
         /\ crossed' \in SUBSET Session /\ crossed \subseteq crossed'
         /\ at'[p] = s /\ step'[p] \in {"idle", "parse"} /\ (step'[p] = "idle" <=> s = NoSession)
         /\ \A q \in Indexer \ {p} : /\ at'[q] = at[q] /\ step'[q] = step[q]
                                     /\ parsed'[q] = parsed[q] /\ read'[q] = read[q]
         /\ s \in Session \ crossed' => \A q \in Indexer \ {p} : at[q] # s
<1>1. /\ step \in [Indexer -> Step] /\ at \in [Indexer -> Place]
      /\ parsed \in [Indexer -> SUBSET Exchange] /\ read \in [Indexer -> 0..ScriptLength]
      /\ crossed \in SUBSET Session
  BY DEF Typed, TranscriptsTypeOK, Step, Busy, Place
<1>2. /\ at' = [at EXCEPT ![p] = s]
      /\ step' = [step EXCEPT ![p] = IF s = NoSession THEN "idle" ELSE "parse"]
      /\ parsed' = [parsed EXCEPT ![p] = {}] /\ read' = [read EXCEPT ![p] = 0]
  BY DEF Turn, StepTo
<1>3. step' \in [Indexer -> Step] /\ at' \in [Indexer -> Place]
  BY <1>1, <1>2 DEF Step
<1>4. parsed' \in [Indexer -> SUBSET Exchange]
  BY <1>1, <1>2
<1>5. read' \in [Indexer -> 0..ScriptLength]
  BY <1>1, <1>2, ScriptAssumption
<1>6. crossed' \in SUBSET Session /\ crossed \subseteq crossed'
  BY <1>1 DEF Turn, Place
<1>7. at'[p] = s /\ step'[p] \in {"idle", "parse"} /\ (step'[p] = "idle" <=> s = NoSession)
  BY <1>1, <1>2
<1>8. \A q \in Indexer \ {p} : /\ at'[q] = at[q] /\ step'[q] = step[q]
                               /\ parsed'[q] = parsed[q] /\ read'[q] = read[q]
  BY <1>1, <1>2
<1>9. s \in Session \ crossed' => \A q \in Indexer \ {p} : at[q] # s
  BY NoSessionAssumption DEF Turn, At
<1> QED BY <1>3, <1>4, <1>5, <1>6, <1>7, <1>8, <1>9

LEMMA Continued ==
  ASSUME Typed, NEW p \in Indexer, Continue(p)
  PROVE  todo' \in [Indexer -> SUBSET Session] /\ \E s \in Place : Turn(p, s)
BY DEF Typed, TranscriptsTypeOK, Continue, Place

\* What an indexer reads of a transcript are the exchanges of the version it finds.
LEMMA Parsed ==
  ASSUME Typed, NEW s \in Session
  PROVE  /\ Parse(Transcript(s)) = Exchanges(SubSeq(script[s], 1, length[s]))
         /\ Parse(Transcript(s)) \in SUBSET Exchange
         /\ Parse(Transcript(s)) # {} => length[s] # 0
<1>1. script[s] \in Script /\ length[s] \in Nat /\ length[s] <= Len(script[s])
  BY ScriptAssumption DEF Typed, TranscriptsTypeOK, Growing
<1>2. script[s] \in Seq(Role) /\ length[s] \in 0..Len(script[s])
  BY <1>1, ScriptSeq
<1>3. Transcript(s) = SubSeq(script[s], 1, length[s]) /\ Transcript(s) \in Seq(Role)
  BY <1>2, Prefix DEF Transcript
<1>4. Parse(Transcript(s)) = Exchanges(SubSeq(script[s], 1, length[s]))
  BY <1>3, ParserRight
<1> QED BY <1>1, <1>2, <1>4, ExchangesType

\* The steps in which an indexer is done with a session, and those in which it goes on.
Leaving(p) ==
  \/ \E s \in Session : Index(p, s)
  \/ RebuildAll(p) \/ Store(p) \/ StoreFails(p) \/ IndexFails(p) \/ Kill(p)
  \/ ReadFile(p) /\ Continue(p)

Staying(p) ==
  \/ ReadFile(p) /\ Parse(Transcript(at[p])) # {}
  \/ Open(p) \/ OpenFails(p) \/ Drop(p) \/ Create(p)

LEMMA Left ==
  ASSUME Typed, NEW p \in Indexer, Leaving(p)
  PROVE  /\ todo' \in [Indexer -> SUBSET Session] /\ \E s \in Place : Turn(p, s)
         /\ UNCHANGED <<sessions, searching, table>>
         /\ indexings' \in 0..MaxIndexings /\ incidents' \in 0..MaxIncidents
         /\ ~Store(p) => UNCHANGED <<rows, stored>>
<1>1. NoSession \in Place /\ Session \subseteq Place
  BY DEF Place
<1>2. todo \in [Indexer -> SUBSET Session] /\ indexings \in 0..MaxIndexings /\ incidents \in 0..MaxIncidents
  BY DEF Typed, TranscriptsTypeOK
<1>3. CASE \E s \in Session : Index(p, s)
  BY <1>1, <1>2, <1>3, IndexingsAssumption DEF Index, index
<1>4. CASE RebuildAll(p)
  <2>1. PICK s \in Session : Turn(p, s) /\ todo' = [todo EXCEPT ![p] = {t \in Session : length[t] >= ShortLength} \ {s}]
    BY <1>4 DEF RebuildAll
  <2> QED BY <1>1, <1>2, <1>4, <2>1, IndexingsAssumption DEF RebuildAll, index
<1>5. CASE Store(p)
  BY <1>2, <1>5, Continued DEF Store, counts
<1>6. CASE StoreFails(p)
  BY <1>2, <1>6, Continued DEF StoreFails, counts, index
<1>7. CASE IndexFails(p)
  BY <1>2, <1>7, Continued, IndexingsAssumption DEF IndexFails, index
<1>8. CASE Kill(p)
  BY <1>1, <1>2, <1>8, IndexingsAssumption DEF Kill, index
<1>9. CASE ReadFile(p) /\ Continue(p)
  BY <1>2, <1>9, Continued DEF ReadFile, counts, index
<1> QED BY <1>3, <1>4, <1>5, <1>6, <1>7, <1>8, <1>9 DEF Leaving

\* Every step of an indexer is one or the other.
LEMMA LeavesOrStays ==
  ASSUME NEW p \in Indexer, Indexing(p) \/ IndexFails(p) \/ OpenFails(p) \/ Kill(p)
  PROVE  Leaving(p) \/ Staying(p)
<1>1. ASSUME ReadFile(p), Parse(Transcript(at[p])) = {} PROVE Continue(p)
  BY <1>1, Zenon DEF ReadFile
<1> QED BY <1>1 DEF Indexing, Leaving, Staying
LEMMA TypedInit == TranscriptsInit => Typed
<1> SUFFICES ASSUME TranscriptsInit PROVE Typed
  OBVIOUS
<1>1. \A s \in Session : script[s] \in Script /\ Len(script[s]) \in Nat
  BY ScriptSeq, ScriptAssumption DEF TranscriptsInit
<1>2. Growing
  BY <1>1 DEF TranscriptsInit, Growing
<1>3. Seated
  BY DEF TranscriptsInit, Seated
<1>4. script \in [Session -> Script] /\ length \in [Session -> 0..ScriptLength]
      /\ first \in [Session -> 0..ScriptLength] /\ read \in [Indexer -> 0..ScriptLength]
      /\ stored \in [Session -> 0..ScriptLength]
  BY ScriptAssumption DEF TranscriptsInit
<1>5. TranscriptsTypeOK
  BY <1>4, IndexingsAssumption DEF TranscriptsInit, TranscriptsTypeOK
<1> QED BY <1>2, <1>3, <1>5 DEF Typed

\* What a search finds are exchanges of sessions.
LEMMA FoundType ==
  ASSUME Typed
  PROVE  SearchTable \/ SearchFiles =>
           found' \in SUBSET (Session \X Exchange) /\ skipped' \in SUBSET Session
<1>1. found \in SUBSET (Session \X Exchange) /\ skipped \in SUBSET Session
      /\ rows \in [Session -> SUBSET Exchange]
  BY DEF Typed, TranscriptsTypeOK
<1>2. ASSUME SearchTable PROVE found' \in SUBSET (Session \X Exchange) /\ skipped' = skipped
  <2>1. \A s \in Session : Matches(s) \in SUBSET (Session \X Exchange)
    BY <1>1 DEF Matches
  <2>2. found' = UNION {Matches(s) : s \in Session} \/ found' = found
    BY <1>2 DEF SearchTable
  <2>3. skipped' = skipped
    BY <1>2 DEF SearchTable
  <2> QED BY <1>1, <2>1, <2>2, <2>3
<1>3. ASSUME SearchFiles PROVE found' \in SUBSET (Session \X Exchange) /\ skipped' \in SUBSET Session
  <2> DEFINE fit == {s \in Session : length[s] >= ShortLength /\ length[s] <= LongLength}
             hits(s) == {<<s, x>> : x \in {y \in Parse(Transcript(s)) : Query \cap Words(s, y) # {}}}
  <2>1. PICK some \in SUBSET fit : found' = UNION {hits(s) : s \in some} /\ skipped' = fit \ some
    BY <1>3 DEF SearchFiles
  <2>2. \A s \in Session : Parse(Transcript(s)) \in SUBSET Exchange
    BY Parsed
  <2>3. \A s \in Session : hits(s) \in SUBSET (Session \X Exchange)
    BY <2>2
  <2> QED BY <2>1, <2>3
<1> QED BY <1>1, <1>2, <1>3

LEMMA TypedNext == Typed /\ [TranscriptsNext]_transcriptsVars => Typed'
<1> SUFFICES ASSUME Typed, [TranscriptsNext]_transcriptsVars PROVE Typed'
  OBVIOUS
<1>1. ASSUME NEW s \in Session, Speak(s) PROVE Typed'
  <2>1. length[s] < Len(script[s]) /\ script[s] \in Script /\ length \in [Session -> 0..ScriptLength]
    BY <1>1 DEF Speak, Typed, TranscriptsTypeOK
  <2>2. Len(script[s]) \in 0..ScriptLength /\ ScriptLength \in Nat
    BY <2>1, ScriptSeq, ScriptAssumption
  <2>3. length' = [length EXCEPT ![s] = @ + 1] /\ script' = script /\ first' = first
    BY <1>1 DEF Speak, searching
  <2>4. length' \in [Session -> 0..ScriptLength]
    BY <2>1, <2>2, <2>3
  <2>5. \A t \in Session : first[t] \in Nat /\ length[t] \in Nat
    BY <2>1, <2>2 DEF Typed, TranscriptsTypeOK
  <2>6. Growing'
    <3> SUFFICES ASSUME NEW t \in Session PROVE first[t] <= length'[t] /\ length'[t] <= Len(script[t])
      BY <2>3 DEF Growing
    <3>1. first[t] <= length[t] /\ length[t] <= Len(script[t])
      BY DEF Typed, Growing
    <3>2. CASE t = s
      BY <2>1, <2>2, <2>3, <2>5, <3>1, <3>2
    <3>3. CASE t # s
      BY <2>1, <2>3, <3>1, <3>3
    <3> QED BY <3>2, <3>3
  <2>7. Seated'
    BY <1>1 DEF Speak, hands, Typed, Seated
  <2>8. TranscriptsTypeOK'
    BY <1>1, <2>4 DEF Speak, hands, index, searching, past, counts, Typed, TranscriptsTypeOK
  <2> QED BY <2>6, <2>7, <2>8 DEF Typed
<1>2. ASSUME NEW p \in Indexer, Leaving(p) PROVE Typed'
  <2>1. PICK s \in Place : Turn(p, s)
    BY <1>2, Left
  <2>2. /\ todo' \in [Indexer -> SUBSET Session] /\ UNCHANGED <<sessions, searching, table>>
        /\ indexings' \in 0..MaxIndexings /\ incidents' \in 0..MaxIncidents
        /\ ~Store(p) => UNCHANGED <<rows, stored>>
    BY <1>2, Left
  <2>3. /\ step' \in [Indexer -> Step] /\ at' \in [Indexer -> Place]
        /\ parsed' \in [Indexer -> SUBSET Exchange] /\ read' \in [Indexer -> 0..ScriptLength]
        /\ crossed' \in SUBSET Session
    BY <2>1, Turned
  <2>4. rows' \in [Session -> SUBSET Exchange] /\ stored' \in [Session -> 0..ScriptLength]
    <3>1. /\ rows \in [Session -> SUBSET Exchange] /\ stored \in [Session -> 0..ScriptLength]
          /\ parsed[p] \in SUBSET Exchange /\ read[p] \in 0..ScriptLength
      BY DEF Typed, TranscriptsTypeOK
    <3>2. CASE Store(p)
      BY <3>1, <3>2 DEF Store
    <3> QED BY <2>2, <3>1, <3>2
  <2>5. Growing'
    BY <2>2 DEF sessions, searching, Typed, Growing
  <2>6. Seated'
    <3> SUFFICES ASSUME NEW q \in Indexer PROVE step'[q] = "idle" <=> at'[q] = NoSession
      BY DEF Seated
    <3>1. CASE q = p
      BY <2>1, <3>1, Turned
    <3>2. CASE q # p
      <4>1. at'[q] = at[q] /\ step'[q] = step[q]
        BY <2>1, <3>2, Turned
      <4> QED BY <4>1 DEF Typed, Seated
    <3> QED BY <3>1, <3>2
  <2>7. /\ script \in [Session -> Script] /\ length \in [Session -> 0..ScriptLength]
        /\ table \in {"none", "old", "new"} /\ search \in {"idle", "table", "files", "answered"}
        /\ found \subseteq Session \X Exchange /\ skipped \subseteq Session
        /\ first \in [Session -> 0..ScriptLength]
    BY DEF Typed, TranscriptsTypeOK
  <2>8. TranscriptsTypeOK'
    BY <2>2, <2>3, <2>4, <2>7 DEF sessions, searching, TranscriptsTypeOK, Step, Busy, Place
  <2> QED BY <2>5, <2>6, <2>8 DEF Typed
<1>3. ASSUME NEW p \in Indexer, Staying(p) PROVE Typed'
  <2>1. UNCHANGED <<sessions, searching, at, todo, indexings>>
    BY <1>3 DEF Staying, ReadFile, Open, OpenFails, Drop, Create, counts, past, Continue, StepTo
  <2>2. /\ at[p] \in Session
        /\ \E i \in Busy : step' = [step EXCEPT ![p] = i]
    <3>1. step[p] # "idle" /\ \E i \in Busy : step' = [step EXCEPT ![p] = i]
      BY <1>3 DEF Staying, ReadFile, Open, OpenFails, Drop, Create, StepTo, Busy
    <3>2. at[p] \in Session
      BY <3>1 DEF Typed, TranscriptsTypeOK, Seated
    <3> QED BY <3>1, <3>2
  <2>3. parsed' \in [Indexer -> SUBSET Exchange] /\ read' \in [Indexer -> 0..ScriptLength]
    <3>1. /\ parsed \in [Indexer -> SUBSET Exchange] /\ read \in [Indexer -> 0..ScriptLength]
          /\ length[at[p]] \in 0..ScriptLength
      BY <2>2 DEF Typed, TranscriptsTypeOK
    <3>2. CASE ReadFile(p) /\ Parse(Transcript(at[p])) # {}
      <4>1. parsed' = [parsed EXCEPT ![p] = Parse(Transcript(at[p]))]
            /\ read' = [read EXCEPT ![p] = length[at[p]]]
        BY <3>2 DEF ReadFile
      <4> QED BY <2>2, <3>1, <4>1, Parsed
    <3>3. CASE Open(p) \/ OpenFails(p) \/ Drop(p) \/ Create(p)
      BY <3>1, <3>3 DEF Open, OpenFails, Drop, Create
    <3> QED BY <1>3, <3>2, <3>3 DEF Staying
  <2>4. /\ rows' \in [Session -> SUBSET Exchange] /\ stored' \in [Session -> 0..ScriptLength]
        /\ crossed' \in SUBSET Session /\ incidents' \in 0..MaxIncidents
        /\ table' \in {"none", "old", "new"}
    <3>1. /\ rows \in [Session -> SUBSET Exchange] /\ stored \in [Session -> 0..ScriptLength]
          /\ crossed \in SUBSET Session /\ incidents \in 0..MaxIncidents
          /\ table \in {"none", "old", "new"}
      BY DEF Typed, TranscriptsTypeOK
    <3>2. CASE ReadFile(p) /\ Parse(Transcript(at[p])) # {}
      BY <3>1, <3>2 DEF ReadFile, index, counts
    <3>3. CASE Open(p)
      BY <3>1, <3>3 DEF Open, index, counts, past
    <3>4. CASE OpenFails(p)
      BY <3>1, <3>4, IndexingsAssumption DEF OpenFails, index, past
    <3>5. CASE Drop(p)
      BY <3>1, <3>5, ScriptAssumption DEF Drop, counts
    <3>6. CASE Create(p)
      BY <3>1, <3>6 DEF Create, counts, past
    <3> QED BY <1>3, <3>2, <3>3, <3>4, <3>5, <3>6 DEF Staying
  <2>5. Growing'
    BY <2>1 DEF sessions, searching, Typed, Growing
  <2>6. Seated'
    BY <2>1, <2>2, NoSessionAssumption DEF Typed, TranscriptsTypeOK, Seated, Busy
  <2>7. step' \in [Indexer -> Step]
    BY <2>2 DEF Typed, TranscriptsTypeOK, Step, Busy
  <2>8. TranscriptsTypeOK'
    BY <2>1, <2>3, <2>4, <2>7 DEF sessions, searching, Typed, TranscriptsTypeOK, Step, Busy
  <2> QED BY <2>5, <2>6, <2>8 DEF Typed
<1>4. ASSUME Ask PROVE Typed'
  <2>1. Growing'
    <3>1. \A s \in Session : length[s] \in Nat
      BY ScriptAssumption DEF Typed, TranscriptsTypeOK
    <3> QED BY <1>4, <3>1 DEF Ask, sessions, Typed, Growing
  <2>2. Seated'
    BY <1>4 DEF Ask, hands, Typed, Seated
  <2>3. TranscriptsTypeOK'
    BY <1>4, IndexingsAssumption DEF Ask, sessions, hands, index, past, Typed, TranscriptsTypeOK
  <2> QED BY <2>1, <2>2, <2>3 DEF Typed
<1>5. ASSUME SearchTable \/ SearchFiles PROVE Typed'
  <2>1. /\ UNCHANGED <<sessions, index, hands, first, past, counts>>
        /\ search' \in {"idle", "table", "files", "answered"}
    BY <1>5 DEF SearchTable, SearchFiles
  <2>2. found' \in SUBSET (Session \X Exchange) /\ skipped' \in SUBSET Session
    BY <1>5, FoundType
  <2>3. Growing' /\ Seated'
    BY <2>1 DEF sessions, hands, Typed, Growing, Seated
  <2>4. TranscriptsTypeOK'
    BY <2>1, <2>2 DEF sessions, hands, index, past, counts, Typed, TranscriptsTypeOK
  <2> QED BY <2>3, <2>4 DEF Typed
<1>6. ASSUME UNCHANGED transcriptsVars PROVE Typed'
  BY <1>6 DEF transcriptsVars, sessions, hands, index, searching, past, counts, Typed, TranscriptsTypeOK,
              Growing, Seated
<1> QED BY <1>1, <1>2, <1>3, <1>4, <1>5, <1>6, LeavesOrStays DEF TranscriptsNext

LEMMA TypedAlways == TranscriptsSpec => []Typed
BY TypedInit, TypedNext, PTL DEF TranscriptsSpec

\* The variables keep their types: among them, nobody is at a step with no code, whatever the
\* table was found to be (_open_fts_db and its callers).
THEOREM TranscriptsTypeCorrect == TranscriptsSpec => []TranscriptsTypeOK
<1>1. Typed => TranscriptsTypeOK
  BY DEF Typed
<1> QED BY <1>1, TypedAlways, PTL
(***************************************************************************)
(* Versions.  The rows of a session are the exchanges of the version they  *)
(* came from, and so is what an indexer holds.                             *)
(***************************************************************************)
Version(s, n) == SubSeq(script[s], 1, n)

RowsOfVersion(s) ==
  /\ stored[s] \in 0..length[s]
  /\ rows[s] = {} <=> stored[s] = 0
  /\ stored[s] # 0 => rows[s] = Exchanges(Version(s, stored[s]))

HoldsVersion(p) ==
  step[p] \in Busy =>
    /\ read[p] \in 1..length[at[p]]
    /\ parsed[p] # {} /\ parsed[p] = Exchanges(Version(at[p], read[p]))

Versions ==
  /\ Typed
  /\ \A s \in Session : RowsOfVersion(s)
  /\ \A p \in Indexer : HoldsVersion(p)

LEMMA VersionsInit == TranscriptsInit => Versions
<1> SUFFICES ASSUME TranscriptsInit PROVE Versions
  OBVIOUS
<1>1. \A s \in Session : RowsOfVersion(s)
  BY DEF TranscriptsInit, RowsOfVersion
<1>2. \A p \in Indexer : HoldsVersion(p)
  BY DEF TranscriptsInit, HoldsVersion, Busy
<1> QED BY <1>1, <1>2, TypedInit DEF Versions

\* What an indexer holds stays of a version while it moves from step to step, and while others move.
LEMMA HoldsOn ==
  ASSUME Versions, NEW p \in Indexer, UNCHANGED <<script, length>>,
         step'[p] \in Busy => /\ step[p] \in Busy /\ at'[p] = at[p]
                              /\ parsed'[p] = parsed[p] /\ read'[p] = read[p]
  PROVE  HoldsVersion(p)'
<1>1. HoldsVersion(p)
  BY DEF Versions
<1> QED BY <1>1 DEF HoldsVersion, Version

LEMMA VersionsNext == Versions /\ [TranscriptsNext]_transcriptsVars => Versions'
<1> SUFFICES ASSUME Versions, [TranscriptsNext]_transcriptsVars PROVE Versions'
  OBVIOUS
<1>0. Typed /\ Typed'
  BY TypedNext DEF Versions
<1>t. /\ step \in [Indexer -> Step] /\ at \in [Indexer -> Place] /\ length \in [Session -> 0..ScriptLength]
      /\ rows \in [Session -> SUBSET Exchange] /\ stored \in [Session -> 0..ScriptLength]
      /\ parsed \in [Indexer -> SUBSET Exchange] /\ read \in [Indexer -> 0..ScriptLength]
      /\ \A p \in Indexer : step[p] # "idle" => at[p] \in Session
  BY <1>0 DEF Typed, TranscriptsTypeOK, Seated, Step, Busy, Place
<1>1. ASSUME NEW s \in Session, Speak(s) PROVE Versions'
  <2>1. UNCHANGED <<script, index, hands, past>> /\ \A t \in Session : length[t] <= length'[t]
    <3>1. length' = [length EXCEPT ![s] = @ + 1] /\ \A t \in Session : length[t] \in Nat
      BY <1>1, <1>t, ScriptAssumption DEF Speak
    <3>2. \A t \in Session : length[t] <= length'[t]
      BY <1>t, <3>1
    <3> QED BY <1>1, <3>2 DEF Speak
  <2>2. \A t \in Session : length[t] \in Nat /\ length'[t] \in Nat
    BY <1>0, ScriptAssumption DEF Typed, TranscriptsTypeOK
  <2>3. ASSUME NEW t \in Session PROVE RowsOfVersion(t)'
    <3>1. RowsOfVersion(t) /\ length[t] <= length'[t] /\ length[t] \in Nat /\ length'[t] \in Nat
      BY <2>1, <2>2 DEF Versions
    <3>2. UNCHANGED <<script, stored, rows>>
      BY <2>1 DEF past, index
    <3> QED BY <3>1, <3>2 DEF RowsOfVersion, Version
  <2>4. ASSUME NEW p \in Indexer PROVE HoldsVersion(p)'
    <3>1. HoldsVersion(p) /\ UNCHANGED <<script, step, at, parsed, read>>
      BY <2>1 DEF Versions, hands
    <3>2. step[p] \in Busy => /\ length[at[p]] <= length'[at[p]]
                              /\ length[at[p]] \in Nat /\ length'[at[p]] \in Nat
      BY <1>t, <2>1, <2>2 DEF Busy
    <3> QED BY <3>1, <3>2 DEF HoldsVersion, Version
  <2> QED BY <1>0, <2>3, <2>4 DEF Versions
<1>2. ASSUME NEW p \in Indexer, Leaving(p) PROVE Versions'
  <2>1. UNCHANGED <<script, length>> /\ (~Store(p) => UNCHANGED <<rows, stored>>)
    BY <1>0, <1>2, Left DEF sessions
  <2>2. PICK s \in Place : Turn(p, s)
    BY <1>0, <1>2, Left
  <2>3. ASSUME NEW q \in Indexer PROVE HoldsVersion(q)'
    <3>1. CASE q = p
      BY <1>0, <2>1, <2>2, <3>1, Turned, HoldsOn DEF Busy
    <3>2. CASE q # p
      <4>1. at'[q] = at[q] /\ step'[q] = step[q] /\ parsed'[q] = parsed[q] /\ read'[q] = read[q]
        BY <1>0, <2>2, <3>2, Turned
      <4> QED BY <2>1, <4>1, HoldsOn
    <3> QED BY <3>1, <3>2
  <2>4. ASSUME NEW t \in Session PROVE RowsOfVersion(t)'
    <3>1. RowsOfVersion(t)
      BY DEF Versions
    <3>2. CASE Store(p) /\ t = at[p]
      <4>1. step[p] = "store" /\ rows' = [rows EXCEPT ![t] = parsed[p]] /\ stored' = [stored EXCEPT ![t] = read[p]]
        BY <3>2 DEF Store
      <4>2. rows'[t] = parsed[p] /\ stored'[t] = read[p]
        BY <1>t, <4>1
      <4>3. /\ read[p] \in 1..length[t] /\ parsed[p] # {}
            /\ parsed[p] = Exchanges(Version(t, read[p]))
        BY <3>2, <4>1 DEF Versions, HoldsVersion, Busy
      <4> QED BY <2>1, <4>2, <4>3 DEF RowsOfVersion, Version
    <3>3. CASE ~(Store(p) /\ t = at[p])
      <4>1. rows'[t] = rows[t] /\ stored'[t] = stored[t]
        BY <1>t, <2>1, <3>3 DEF Store
      <4> QED BY <2>1, <3>1, <4>1 DEF RowsOfVersion, Version
    <3> QED BY <3>2, <3>3
  <2> QED BY <1>0, <2>3, <2>4 DEF Versions
<1>3. ASSUME NEW p \in Indexer, ReadFile(p), Parse(Transcript(at[p])) # {} PROVE Versions'
  <2> DEFINE s == at[p]
  <2>1. /\ step[p] = "parse" /\ UNCHANGED <<sessions, index, stored, at>>
        /\ parsed' = [parsed EXCEPT ![p] = Parse(Transcript(s))]
        /\ read' = [read EXCEPT ![p] = length[s]]
        /\ step' = [step EXCEPT ![p] = "open"]
    BY <1>3 DEF ReadFile, StepTo
  <2>2. s \in Session /\ length[s] \in Nat
    BY <1>t, <2>1, ScriptAssumption
  <2>3. Parse(Transcript(s)) = Exchanges(Version(s, length[s])) /\ length[s] # 0
    BY <1>0, <1>3, <2>2, Parsed DEF Version
  <2>4. HoldsVersion(p)'
    <3>1. parsed'[p] = Parse(Transcript(s)) /\ read'[p] = length[s] /\ at'[p] = s
      BY <1>t, <2>1
    <3> QED BY <1>3, <2>1, <2>2, <2>3, <3>1 DEF HoldsVersion, Version, sessions
  <2>5. ASSUME NEW q \in Indexer PROVE HoldsVersion(q)'
    <3>1. CASE q # p
      BY <1>t, <2>1, <3>1, HoldsOn DEF sessions
    <3> QED BY <2>4, <3>1
  <2>6. ASSUME NEW t \in Session PROVE RowsOfVersion(t)'
    BY <2>1 DEF Versions, RowsOfVersion, Version, sessions, index
  <2> QED BY <1>0, <2>5, <2>6 DEF Versions
<1>4. ASSUME NEW p \in Indexer, Open(p) \/ OpenFails(p) \/ Create(p) PROVE Versions'
  <2>1. /\ step[p] \in Busy /\ UNCHANGED <<sessions, rows, stored, at, parsed, read>>
        /\ \E i \in Busy : step' = [step EXCEPT ![p] = i]
    BY <1>4 DEF Open, OpenFails, Create, StepTo, Busy, past, index
  <2>2. ASSUME NEW q \in Indexer PROVE HoldsVersion(q)'
    BY <1>t, <2>1, HoldsOn DEF sessions
  <2>3. ASSUME NEW t \in Session PROVE RowsOfVersion(t)'
    BY <2>1 DEF Versions, RowsOfVersion, Version, sessions
  <2> QED BY <1>0, <2>2, <2>3 DEF Versions
<1>5. ASSUME NEW p \in Indexer, Drop(p) PROVE Versions'
  <2>1. /\ step[p] \in Busy /\ UNCHANGED <<sessions, at, parsed, read>>
        /\ step' = [step EXCEPT ![p] = "create"]
        /\ rows' = [t \in Session |-> {}] /\ stored' = [t \in Session |-> 0]
    BY <1>5 DEF Drop, StepTo, Busy
  <2>2. ASSUME NEW q \in Indexer PROVE HoldsVersion(q)'
    BY <1>t, <2>1, HoldsOn DEF sessions
  <2>3. ASSUME NEW t \in Session PROVE RowsOfVersion(t)'
    <3>1. length'[t] = length[t] /\ length[t] \in Nat
      BY <1>t, <2>1, ScriptAssumption DEF sessions
    <3> QED BY <2>1, <3>1 DEF RowsOfVersion
  <2> QED BY <1>0, <2>2, <2>3 DEF Versions
<1>6. ASSUME UNCHANGED <<sessions, rows, hands, stored>> PROVE Versions'
  BY <1>0, <1>6 DEF sessions, hands, Versions, RowsOfVersion, HoldsVersion, Version
<1>7. Ask \/ SearchTable \/ SearchFiles \/ UNCHANGED transcriptsVars => UNCHANGED <<sessions, rows, hands, stored>>
  BY DEF Ask, SearchTable, SearchFiles, transcriptsVars, index, past
<1> QED BY <1>1, <1>2, <1>3, <1>4, <1>5, <1>6, <1>7, LeavesOrStays DEF TranscriptsNext, Staying

LEMMA VersionsAlways == TranscriptsSpec => []Versions
BY VersionsInit, VersionsNext, PTL DEF TranscriptsSpec

\* Whatever the indexers and the migrations do to the table, a reader finds the exchanges of one
\* version of a session's transcript, or none: neither half of them nor two versions mixed
\* (index_session's one transaction, and the flushes of the parser).
THEOREM RowsAreWhole == TranscriptsSpec => []RowsWhole
<1>1. Versions => RowsWhole
  <2> SUFFICES ASSUME Versions, NEW s \in Session, rows[s] # {}
               PROVE  \E n \in 1..length[s] : rows[s] = Exchanges(SubSeq(script[s], 1, n))
    BY DEF RowsWhole
  <2>1. RowsOfVersion(s) /\ length[s] \in Nat
    BY ScriptAssumption DEF Versions, Typed, TranscriptsTypeOK
  <2> QED BY <2>1 DEF RowsOfVersion, Version
<1> QED BY <1>1, VersionsAlways, PTL
(***************************************************************************)
(* The search                                                              *)
(***************************************************************************)

\* The scan reads later versions than the one the search began at, and these hold all the words.
LEMMA ScannedAll ==
  ASSUME Typed, SearchFiles, found' = {}, NEW s \in Session \ skipped',
         first[s] >= ShortLength, length[s] <= LongLength,
         NEW x \in Exchanges(Version(s, first[s]))
  PROVE  Query \cap Words(s, x) = {}
<1> DEFINE fit == {t \in Session : length[t] >= ShortLength /\ length[t] <= LongLength}
           hits(t) == {<<t, y>> : y \in {y \in Parse(Transcript(t)) : Query \cap Words(t, y) # {}}}
<1>1. PICK some \in SUBSET fit : found' = UNION {hits(t) : t \in some} /\ skipped' = fit \ some
  BY DEF SearchFiles
<1>2. /\ first[s] \in Nat /\ length[s] \in Nat /\ first[s] <= length[s] /\ length[s] <= Len(script[s])
      /\ script[s] \in Seq(Role) /\ Len(script[s]) \in Nat
  BY ScriptSeq, ScriptAssumption DEF Typed, TranscriptsTypeOK, Growing
<1>3. s \in fit
  BY <1>2, CapsAssumption
<1>4. s \in some
  BY <1>1, <1>3
<1>5. hits(s) = {}
  BY <1>1, <1>4
<1>6. \A y \in Parse(Transcript(s)) : Query \cap Words(s, y) = {}
  BY <1>5
<1>7. Parse(Transcript(s)) = Exchanges(Version(s, length[s]))
  BY Parsed DEF Version
<1>8. PICK y \in Exchanges(Version(s, length[s])) : \A r \in Role : x[r] \subseteq y[r]
  <2>1. length[s] \in 0..Len(script[s]) /\ first[s] \in 0..length[s]
    BY <1>2
  <2> QED BY <1>2, <2>1, ExchangesGrow DEF Version
<1>9. Words(s, x) \subseteq Words(s, y)
  BY <1>8, WordsGrow
<1> QED BY <1>6, <1>7, <1>8, <1>9

LEMMA NothingMissedNext ==
  Typed /\ NothingMissed /\ [TranscriptsNext]_transcriptsVars => NothingMissed'
<1> SUFFICES ASSUME Typed, NothingMissed, [TranscriptsNext]_transcriptsVars PROVE NothingMissed'
  OBVIOUS
<1>1. ASSUME UNCHANGED <<script, searching>>, \A s \in Session : length[s] <= length'[s]
      PROVE  NothingMissed'
  <2> SUFFICES ASSUME search = "answered", found = {}, NEW s \in Session \ skipped,
                      first[s] >= ShortLength, length'[s] <= LongLength,
                      NEW x \in Exchanges(SubSeq(script[s], 1, first[s]))
               PROVE  Query \cap Words(s, x) = {}
    BY <1>1 DEF NothingMissed, searching, Words
  <2>1. length[s] \in Nat /\ length'[s] \in Nat /\ length[s] <= length'[s]
    BY <1>1, ScriptAssumption, TypedNext DEF Typed, TranscriptsTypeOK
  <2>2. length[s] <= LongLength
    BY <2>1, CapsAssumption
  <2> QED BY <2>2 DEF NothingMissed
<1>2. \A s \in Session : length[s] \in Nat
  BY ScriptAssumption DEF Typed, TranscriptsTypeOK
<1>3. ASSUME NEW s \in Session, Speak(s) PROVE NothingMissed'
  <2>1. length' = [length EXCEPT ![s] = @ + 1] /\ length \in [Session -> 0..ScriptLength]
    BY <1>3 DEF Speak, Typed, TranscriptsTypeOK
  <2>2. \A t \in Session : length[t] <= length'[t]
    BY <1>2, <2>1
  <2> QED BY <1>1, <1>3, <2>2 DEF Speak
<1>4. ASSUME NEW p \in Indexer, Leaving(p) \/ Staying(p) PROVE NothingMissed'
  <2>1. UNCHANGED <<sessions, searching>>
    <3>1. Leaving(p) => UNCHANGED <<sessions, searching>>
      BY Left
    <3>2. Staying(p) => UNCHANGED <<sessions, searching>>
      BY DEF Staying, ReadFile, Open, OpenFails, Drop, Create
    <3> QED BY <1>4, <3>1, <3>2
  <2> QED BY <1>1, <1>2, <2>1 DEF sessions
<1>5. CASE Ask
  BY <1>5 DEF Ask, NothingMissed
<1>6. CASE SearchTable
  <2>1. search' = "answered" => found' # {}
    BY <1>6 DEF SearchTable
  <2> QED BY <2>1 DEF NothingMissed
<1>7. CASE SearchFiles
  <2>1. UNCHANGED <<sessions, first>>
    BY <1>7 DEF SearchFiles
  <2> SUFFICES ASSUME found' = {}, NEW s \in Session \ skipped',
                      first[s] >= ShortLength, length[s] <= LongLength,
                      NEW x \in Exchanges(SubSeq(script[s], 1, first[s]))
               PROVE  Query \cap Words(s, x) = {}
    BY <2>1 DEF NothingMissed, sessions, Words
  <2> QED BY <1>7, ScannedAll DEF Version
<1>8. CASE UNCHANGED transcriptsVars
  BY <1>1, <1>2, <1>8 DEF transcriptsVars, sessions
<1> QED BY <1>3, <1>4, <1>5, <1>6, <1>7, <1>8, LeavesOrStays DEF TranscriptsNext

\* A search that returns nothing has missed nothing: whatever state the table was in, whoever was
\* writing it, and however the transcripts grew meanwhile, no transcript within the size limits
\* held an exchange with a word of the query when it was asked, but those the scan left out
\* (transcript_search falls back to the files whenever the table gives no result).
THEOREM NothingIsMissed == TranscriptsSpec => []NothingMissed
<1>1. TranscriptsInit => NothingMissed
  BY DEF TranscriptsInit, NothingMissed
<1> QED BY <1>1, TypedAlways, NothingMissedNext, PTL DEF TranscriptsSpec

(***************************************************************************)
(* Going back                                                              *)
(***************************************************************************)

\* At a session that was not crossed there is one indexer at most, and what it holds is not older
\* than the rows.
Alone ==
  \A s \in Session \ crossed : \A p \in Indexer : at[p] = s =>
    /\ \A q \in Indexer : at[q] = s => p = q
    /\ step[p] \in Busy => stored[s] <= read[p]

LEMMA AloneNext ==
  Versions /\ Alone /\ [TranscriptsNext]_transcriptsVars =>
    Alone' /\ \A s \in Session : s \notin crossed' => stored'[s] >= stored[s]
<1> DEFINE Forward == \A s \in Session : s \notin crossed' => stored'[s] >= stored[s]
<1> SUFFICES ASSUME Versions, Alone, [TranscriptsNext]_transcriptsVars PROVE Alone' /\ Forward
  OBVIOUS
<1>0. Typed /\ Typed'
  BY TypedNext DEF Versions
<1>t. /\ step \in [Indexer -> Step] /\ at \in [Indexer -> Place]
      /\ length \in [Session -> 0..ScriptLength] /\ \A s \in Session : length[s] \in Nat
      /\ stored \in [Session -> 0..ScriptLength] /\ \A s \in Session : stored[s] \in Nat
      /\ read \in [Indexer -> 0..ScriptLength] /\ \A p \in Indexer : read[p] \in Nat
      /\ \A p \in Indexer : step[p] # "idle" => at[p] \in Session
  BY <1>0, ScriptAssumption DEF Typed, TranscriptsTypeOK, Seated, Step, Busy, Place
<1>1. ASSUME UNCHANGED <<hands, past>> PROVE Alone' /\ Forward
  BY <1>1, <1>t DEF hands, past, Alone
<1>2. ASSUME NEW p \in Indexer, Leaving(p) PROVE Alone' /\ Forward
  <2>1. PICK s \in Place : Turn(p, s)
    BY <1>0, <1>2, Left
  <2>2. /\ crossed \subseteq crossed' /\ at'[p] = s /\ step'[p] \notin Busy
        /\ \A q \in Indexer \ {p} : at'[q] = at[q] /\ step'[q] = step[q] /\ read'[q] = read[q]
        /\ s \in Session \ crossed' => \A q \in Indexer \ {p} : at[q] # s
    BY <1>0, <2>1, Turned DEF Busy
  <2>3. ~Store(p) => stored' = stored
    BY <1>0, <1>2, Left
  <2>4. ASSUME NEW t \in Session \ crossed' PROVE stored'[t] >= stored[t]
    <3>1. CASE Store(p) /\ t = at[p]
      <4>1. step[p] = "store" /\ stored'[t] = read[p]
        BY <1>t, <3>1 DEF Store
      <4>2. stored[t] <= read[p]
        BY <2>2, <3>1, <4>1 DEF Alone, Busy
      <4> QED BY <1>t, <4>1, <4>2
    <3>2. CASE ~(Store(p) /\ t = at[p])
      BY <1>t, <2>3, <3>2 DEF Store
    <3> QED BY <3>1, <3>2
  <2>5. ASSUME NEW t \in Session \ crossed', NEW q \in Indexer, at'[q] = t
        PROVE  /\ \A o \in Indexer : at'[o] = t => q = o
               /\ step'[q] \in Busy => stored'[t] <= read'[q]
    <3>1. CASE q = p
      BY <2>2, <2>5, <3>1
    <3>2. CASE q # p
      <4>1. at[q] = t /\ t \in Session \ crossed /\ s # t
        BY <2>2, <2>5, <3>2
      <4>2. \A o \in Indexer : at'[o] = t => q = o
        BY <2>2, <4>1 DEF Alone
      <4>3. stored'[t] = stored[t]
        <5>1. ~(Store(p) /\ t = at[p])
          BY <3>2, <4>1 DEF Alone
        <5> QED BY <1>t, <2>3, <5>1 DEF Store
      <4>4. step'[q] \in Busy => stored'[t] <= read'[q]
        BY <2>2, <3>2, <4>1, <4>3 DEF Alone
      <4> QED BY <4>2, <4>4
    <3> QED BY <3>1, <3>2
  <2> QED BY <2>4, <2>5 DEF Alone
<1>3. ASSUME NEW p \in Indexer, ReadFile(p), Parse(Transcript(at[p])) # {} PROVE Alone' /\ Forward
  <2>1. /\ step[p] = "parse" /\ UNCHANGED <<stored, at, crossed>>
        /\ read' = [read EXCEPT ![p] = length[at[p]]]
        /\ step' = [step EXCEPT ![p] = "open"]
    BY <1>3 DEF ReadFile, StepTo
  <2>2. at[p] \in Session /\ read'[p] = length[at[p]] /\ stored[at[p]] <= length[at[p]]
    <3>1. at[p] \in Session
      BY <1>t, <2>1
    <3> QED BY <1>t, <2>1, <3>1 DEF Versions, RowsOfVersion
  <2>3. Forward
    BY <1>t, <2>1
  <2>4. ASSUME NEW s \in Session \ crossed, NEW q \in Indexer, at[q] = s, step'[q] \in Busy
        PROVE  stored[s] <= read'[q]
    <3>1. CASE q = p
      BY <2>2, <2>4, <3>1
    <3>2. CASE q # p
      BY <1>t, <2>1, <2>4, <3>2 DEF Alone
    <3> QED BY <3>1, <3>2
  <2> QED BY <2>1, <2>3, <2>4 DEF Alone
<1>4. ASSUME NEW p \in Indexer, Open(p) \/ OpenFails(p) \/ Create(p) PROVE Alone' /\ Forward
  <2>1. /\ step[p] \in Busy /\ UNCHANGED <<stored, at, read, crossed>>
        /\ \E i \in Busy : step' = [step EXCEPT ![p] = i]
    BY <1>4 DEF Open, OpenFails, Create, StepTo, Busy, past
  <2>2. \A q \in Indexer : step'[q] \in Busy => step[q] \in Busy
    BY <1>t, <2>1
  <2> QED BY <1>t, <2>1, <2>2 DEF Alone
<1>5. ASSUME NEW p \in Indexer, Drop(p) PROVE Alone' /\ Forward
  <2>1. /\ step[p] \in Busy /\ UNCHANGED <<at, read>>
        /\ step' = [step EXCEPT ![p] = "create"] /\ stored' = [s \in Session |-> 0]
        /\ crossed' = crossed \cup {s \in Session : rows[s] # {}}
    BY <1>5 DEF Drop, StepTo, Busy
  <2>2. Forward
    BY <2>1 DEF Versions, RowsOfVersion
  <2> QED BY <1>t, <2>1, <2>2 DEF Alone
<1>6. ASSUME \/ \E s \in Session : Speak(s)
             \/ Ask \/ SearchTable \/ SearchFiles \/ UNCHANGED transcriptsVars
      PROVE  UNCHANGED <<hands, past>>
  BY <1>6 DEF Speak, Ask, SearchTable, SearchFiles, transcriptsVars
<1> QED BY <1>1, <1>2, <1>3, <1>4, <1>5, <1>6, LeavesOrStays DEF TranscriptsNext, Staying

\* The rows of a session never go back to an older parse, unless two indexers were at it at once
\* or a migration dropped them (a miner is alone at its session; a rebuild is not).
THEOREM NeverGoesBack == TranscriptsSpec => NeverBack
<1>1. TranscriptsInit => Alone
  BY NoSessionAssumption DEF TranscriptsInit, Alone, Busy
<1> QED BY <1>1, VersionsAlways, AloneNext, PTL DEF TranscriptsSpec, NeverBack

(***************************************************************************)
(* The vector index: the rows stay with their ids, and no saved row is     *)
(* lost to a concurrent save or rebuild.                                   *)
(***************************************************************************)
USE NobodyAssumption, NoMemoryAssumption, MemoryAssumption, NoneAssumption,
    BoundsAssumption DEF work, reading, history

\* A pair with a row for m is a pair, and keeps the rows it had if it was aligned.
LEMMA WithRowType ==
  ASSUME NEW pair \in Pair, NEW m \in Memory
  PROVE  WithRow(pair, m) \in Pair
<1>1. CASE \E i \in DOMAIN pair.ids : pair.ids[i] = m
  <2> DEFINE place == CHOOSE i \in DOMAIN pair.ids : pair.ids[i] = m
  <2>1. pair.ids \in Seq(Memory) /\ pair.rows \in Seq(Memory)
    BY DEF Pair
  <2>2. WithRow(pair, m) = [pair EXCEPT !.rows[place] = m]
    BY <1>1 DEF WithRow
  <2> HIDE DEF place
  <2>3. [pair.rows EXCEPT ![place] = m] \in Seq(Memory)
    <3>1. PICK n \in Nat : pair.rows \in [1..n -> Memory]
      BY <2>1
    <3>2. [pair.rows EXCEPT ![place] = m] \in [1..n -> Memory]
      BY <3>1
    <3> QED BY <3>2, SeqDef
  <2> QED BY <2>1, <2>2, <2>3 DEF Pair
<1>2. CASE ~ \E i \in DOMAIN pair.ids : pair.ids[i] = m
  <2>1. Append(pair.ids, m) \in Seq(Memory) /\ Append(pair.rows, m) \in Seq(Memory)
    BY DEF Pair
  <2> QED BY <1>2, <2>1 DEF WithRow, Pair
<1> QED BY <1>1, <1>2

\* The orders in which a set of memories is listed are sequences of its members.
LEMMA ListingsType ==
  ASSUME NEW S \in SUBSET Memory, NEW s \in Listings(S)
  PROVE  s \in Seq(Memory) /\ Members(s) = S
<1>1. IsFiniteSet(S) /\ Cardinality(S) \in Nat
  BY FS_Subset, FS_CardinalityType
<1>2. s \in [1..Cardinality(S) -> Memory]
  BY DEF Listings
<1> QED BY <1>1, <1>2 DEF Listings

\* The variables keep their types, and every return gives the lock back.
THEOREM TypeCorrect == Spec => []TypeOK
<1>1. Init => TypeOK
  <2>1. Empty \in Pair
    BY DEF Pair, Empty
  <2>2. Init => \A p \in Process : lock = p <=> pc[p] \in {"load", "ids", "rows"}
    BY DEF Init
  <2>7. Init => /\ vault \in SUBSET Memory /\ done \in SUBSET Memory
                /\ outdated \in BOOLEAN /\ torn \in BOOLEAN
    BY DEF Init
  <2>8. Init => /\ clock \in Nat /\ begun \in Nat /\ failures \in Nat
                /\ lock \in Process \cup {Nobody}
    BY DEF Init
  <2>3. Init => draft \in [Process -> Pair] /\ disk \in Pair
    BY <2>1 DEF Init
  <2>4. Init => cache \in [Reader -> Read \cup {None}] /\ look \in [Reader -> Read \cup {None}]
    BY DEF Init
  <2>5. Init => pc \in [Process -> Steps] /\ item \in [Process -> Memory \cup {NoMemory}]
    BY DEF Init, Steps
  <2>6. Init => warm \in [Process -> SUBSET Memory] /\ got \in [Reader -> BOOLEAN]
    BY DEF Init
  <2> QED BY <2>2, <2>3, <2>4, <2>5, <2>6, <2>7, <2>8 DEF TypeOK
<1>2. TypeOK /\ [Next]_vars => TypeOK'
  <2> SUFFICES ASSUME TypeOK, [Next]_vars PROVE TypeOK'
    OBVIOUS
  <2>0. Empty \in Pair
    BY DEF Pair, Empty
  <2>1. ASSUME NEW p \in Process, Save(p) PROVE TypeOK'
    BY <2>1 DEF Save, Goto, TypeOK, Steps
  <2>2. ASSUME NEW p \in Process, EncodeFails(p) PROVE TypeOK'
    BY <2>0, <2>2 DEF EncodeFails, Leave, Goto, TypeOK, Steps
  <2>3. ASSUME NEW p \in Process, Rebuild(p) PROVE TypeOK'
    BY <2>3 DEF Rebuild, Goto, TypeOK, Steps
  <2>4. ASSUME NEW p \in Process, TakeLock(p) PROVE TypeOK'
    BY <2>4 DEF TakeLock, Goto, TypeOK, Steps
  <2>5. ASSUME NEW p \in Process, LoadPair(p) PROVE TypeOK'
    <3>1. item[p] \in Memory
      BY <2>5 DEF LoadPair, TypeOK
    <3> DEFINE pair == IF Len(disk.ids) = Len(disk.rows) THEN disk ELSE Empty
    <3>2. pair \in Pair
      BY <2>0 DEF TypeOK
    <3>3. WithRow(pair, item[p]) \in Pair
      BY <3>1, <3>2, WithRowType
    <3>4. draft' = [draft EXCEPT ![p] = WithRow(pair, item[p])]
      BY <2>5 DEF LoadPair
    <3>5. draft' \in [Process -> Pair]
      BY <3>3, <3>4 DEF TypeOK
    <3> QED BY <2>5, <3>5 DEF LoadPair, Goto, TypeOK, Steps
  <2>6. ASSUME NEW p \in Process, ListVault(p) PROVE TypeOK'
    <3>1. PICK S \in {warm[p], vault} :
            /\ warm' = [warm EXCEPT ![p] = S]
            /\ outdated' = (outdated \/ S # vault)
            /\ \E s \in Listings(S) : draft' = [draft EXCEPT ![p] = [ids |-> s, rows |-> s]]
      BY <2>6 DEF ListVault
    <3>2. S \in SUBSET Memory
      BY DEF TypeOK
    <3>3. PICK s \in Listings(S) : draft' = [draft EXCEPT ![p] = [ids |-> s, rows |-> s]]
      BY <3>1
    <3>4. [ids |-> s, rows |-> s] \in Pair
      BY <3>2, <3>3, ListingsType DEF Pair
    <3>5. draft' \in [Process -> Pair] /\ warm' \in [Process -> SUBSET Memory] /\ outdated' \in BOOLEAN
      BY <3>1, <3>2, <3>3, <3>4 DEF TypeOK
    <3> QED BY <2>6, <3>5 DEF ListVault, Goto, TypeOK, Steps
  <2>7. ASSUME NEW p \in Process, WriteIds(p) PROVE TypeOK'
    <3>1. disk' \in Pair
      BY <2>7 DEF WriteIds, TypeOK, Pair
    <3> QED BY <2>7, <3>1 DEF WriteIds, Goto, TypeOK, Steps
  <2>8. ASSUME NEW p \in Process, WriteRows(p) PROVE TypeOK'
    <3>1. disk' \in Pair
      BY <2>8 DEF WriteRows, TypeOK, Pair
    <3> QED BY <2>0, <2>8, <3>1 DEF WriteRows, Leave, Goto, TypeOK, Steps
  <2>9. ASSUME NEW p \in Process, Fail(p) PROVE TypeOK'
    BY <2>0, <2>9 DEF Fail, Leave, Goto, TypeOK, Steps
  <2>10. ASSUME NEW m \in Memory, Purge(m) PROVE TypeOK'
    BY <2>10 DEF Purge, TypeOK
  <2>11. ASSUME NEW r \in Reader, Look(r) PROVE TypeOK'
    BY <2>11 DEF Look, TypeOK, Read
  <2>12. ASSUME NEW r \in Reader, LoadRows(r) PROVE TypeOK'
    <3>1. [look[r] EXCEPT !.rows = disk.rows] \in Read
      <4>1. look[r] \in Read
        BY <2>12 DEF LoadRows, TypeOK
      <4>2. disk \in Pair
        BY DEF TypeOK
      <4> QED BY <4>1, <4>2 DEF Read, Pair
    <3> QED BY <2>12, <3>1 DEF LoadRows, TypeOK
  <2>13. ASSUME NEW r \in Reader, LoadIds(r) PROVE TypeOK'
    <3>1. [look[r] EXCEPT !.ids = disk.ids] \in Read
      <4>1. look[r] \in Read
        BY <2>13 DEF LoadIds, TypeOK
      <4>2. disk \in Pair
        BY DEF TypeOK
      <4> QED BY <4>1, <4>2 DEF Read, Pair
    <3> QED BY <2>13, <3>1 DEF LoadIds, TypeOK
  <2>14. CASE UNCHANGED vars
    BY <2>14 DEF vars, TypeOK
  <2> QED
    BY <2>1, <2>2, <2>3, <2>4, <2>5, <2>6, <2>7, <2>8, <2>9, <2>10, <2>11, <2>12, <2>13, <2>14
    DEF Next, Write, Load
<1> QED BY <1>1, <1>2, PTL DEF Spec

--------------------------------------------------------------------------------
(***************************************************************************)
(* The strengthening: what the holder of the lock is about to write.       *)
(***************************************************************************)

\* The draft of a writer between the listing and the second file is aligned, its
\* ids are on disk once they are written, and it has the memory being saved.
Drafted ==
  \A p \in Process : pc[p] \in {"ids", "rows"} =>
    /\ draft[p].ids = draft[p].rows
    /\ pc[p] = "rows" => disk.ids = draft[p].ids
    /\ item[p] # NoMemory => item[p] \in Members(draft[p].rows)

\* What a writer is about to write has every saved row.
Carried ==
  \A p \in Process : pc[p] \in {"ids", "rows"} => done \subseteq Members(draft[p].rows)

Sound ==
  /\ ~torn => PairSound /\ Drafted
  /\ done \subseteq vault
  /\ ~torn /\ ~outdated => Carried /\ done \subseteq Members(disk.rows)

\* An aligned pair with a row for m is aligned, and keeps its rows.
LEMMA WithRowAligned ==
  ASSUME NEW pair \in Pair, NEW m \in Memory, pair.ids = pair.rows
  PROVE  /\ WithRow(pair, m).ids = WithRow(pair, m).rows
         /\ Members(WithRow(pair, m).rows) = Members(pair.rows) \cup {m}
<1>0. pair.ids \in Seq(Memory) /\ pair = [ids |-> pair.ids, rows |-> pair.rows]
  BY DEF Pair
<1>1. CASE \E i \in DOMAIN pair.ids : pair.ids[i] = m
  <2> DEFINE place == CHOOSE i \in DOMAIN pair.ids : pair.ids[i] = m
  <2>1. WithRow(pair, m) = [pair EXCEPT !.rows[place] = m]
    BY <1>1 DEF WithRow
  <2>3. place \in DOMAIN pair.ids /\ pair.ids[place] = m
    BY <1>1
  <2> HIDE DEF place
  <2>4. [pair.rows EXCEPT ![place] = m] = pair.rows
    BY <1>0, <2>3
  <2>5. WithRow(pair, m) = pair
    BY <1>0, <2>1, <2>4
  <2> QED BY <1>1, <2>5 DEF Members
<1>2. CASE ~ \E i \in DOMAIN pair.ids : pair.ids[i] = m
  <2>1. WithRow(pair, m) = [ids |-> Append(pair.ids, m), rows |-> Append(pair.rows, m)]
    BY <1>2 DEF WithRow
  <2> DEFINE longer == Append(pair.ids, m)
  <2>2. /\ longer \in Seq(Memory) /\ Len(longer) = Len(pair.ids) + 1
        /\ longer[Len(pair.ids) + 1] = m
        /\ \A i \in 1..Len(pair.ids) : longer[i] = pair.ids[i]
    BY <1>0
  <2>3. DOMAIN longer = 1..(Len(pair.ids) + 1) /\ DOMAIN pair.ids = 1..Len(pair.ids) /\ Len(pair.ids) \in Nat
    BY <1>0, <2>2
  <2> HIDE DEF longer
  <2>4. Members(longer) = Members(pair.ids) \cup {m}
    BY <2>2, <2>3 DEF Members
  <2> QED BY <2>1, <2>4 DEF longer
<1> QED BY <1>1, <1>2

\* Nothing that Sound reads has changed.
LEMMA SoundStays ==
  ASSUME Sound, UNCHANGED <<vault, disk, lock, done, outdated, torn>>,
         \A q \in Process :
           /\ pc'[q] \in {"ids", "rows"} => pc[q] = pc'[q]
           /\ pc[q] = "rows" => pc'[q] = "rows"
           /\ pc'[q] \in {"ids", "rows"} => draft'[q] = draft[q] /\ item'[q] = item[q]
  PROVE  Sound'
BY DEF Sound, PairSound, Aligned, Drafted, Carried, Members

\* The ids and the rows stay together, and saved rows stay.
THEOREM SoundKept == Spec => []Sound
<1>1. Init => Sound
  BY DEF Init, Sound, PairSound, Aligned, Drafted, Carried, Members, Empty
<1>2. TypeOK /\ Sound /\ [Next]_vars => Sound'
  <2> SUFFICES ASSUME TypeOK, Sound, [Next]_vars PROVE Sound'
    OBVIOUS
  <2>0. ASSUME NEW p \in Process, NEW q \in Process,
               pc[p] \in {"load", "ids", "rows"}, pc[q] \in {"load", "ids", "rows"}
        PROVE  p = q
    BY <2>0 DEF TypeOK
  <2>1. ASSUME NEW p \in Process, Save(p) PROVE Sound'
    <3>1. \A q \in Process : q # p => pc'[q] = pc[q] /\ item'[q] = item[q]
      BY <2>1 DEF Save, Goto, TypeOK
    <3>2. pc[p] = "idle" /\ pc'[p] = "lock"
      BY <2>1 DEF Save, Goto, TypeOK
    <3>3. done' \subseteq done /\ done' \subseteq vault' /\ UNCHANGED <<disk, lock, draft, outdated, torn>>
      BY <2>1 DEF Save, Sound
    <3> QED BY <3>1, <3>2, <3>3 DEF Sound, PairSound, Aligned, Drafted, Carried, Members
  <2>2. ASSUME NEW p \in Process, EncodeFails(p) PROVE Sound'
    <3>1. \A q \in Process : q # p => pc'[q] = pc[q] /\ item'[q] = item[q] /\ draft'[q] = draft[q]
      BY <2>2 DEF EncodeFails, Leave, Goto, TypeOK
    <3>2. pc[p] = "lock" /\ pc'[p] = "idle" /\ lock' = lock
      BY <2>2 DEF EncodeFails, Leave, Goto, TypeOK
    <3> QED BY <2>2, <3>1, <3>2, SoundStays DEF EncodeFails
  <2>3. ASSUME NEW p \in Process, Rebuild(p) PROVE Sound'
    <3>1. /\ \A q \in Process : q # p => pc'[q] = pc[q]
          /\ pc[p] = "idle" /\ pc'[p] = "lock"
      BY <2>3 DEF Rebuild, Goto, TypeOK
    <3> QED BY <2>3, <3>1, SoundStays DEF Rebuild
  <2>4. ASSUME NEW p \in Process, TakeLock(p) PROVE Sound'
    <3>1. /\ \A q \in Process : q # p => pc'[q] = pc[q]
          /\ pc[p] = "lock" /\ pc'[p] = "load" /\ lock = Nobody /\ lock' = p
      BY <2>4 DEF TakeLock, Goto, TypeOK
    <3>2. UNCHANGED <<vault, disk, item, draft, done, outdated, torn>>
      BY <2>4 DEF TakeLock
    <3>3. ~ \E q \in Process : lock = q
      BY <3>1
    <3> QED BY <3>1, <3>2, <3>3 DEF Sound, PairSound, Aligned, Drafted, Carried, Members
  <2>5. ASSUME NEW p \in Process, LoadPair(p) PROVE Sound'
    <3>1. /\ \A q \in Process : q # p => pc'[q] = pc[q] /\ draft'[q] = draft[q]
          /\ pc[p] = "load" /\ pc'[p] = "ids"
          /\ UNCHANGED <<vault, disk, lock, item, done, outdated, torn>>
      BY <2>5 DEF LoadPair, Goto, TypeOK
    <3>2. \A q \in Process : pc[q] # "rows" /\ (pc'[q] \in {"ids", "rows"} => q = p)
      BY <2>0, <3>1
    <3>3. ~torn => Aligned
      BY <3>2 DEF Sound, PairSound
    <3>4. item[p] \in Memory /\ disk \in Pair /\ disk.ids \in Seq(Memory)
      BY <2>5 DEF LoadPair, TypeOK, Pair
    <3>5. ~torn => draft'[p] = WithRow(disk, item[p])
      BY <2>5, <3>3, <3>4 DEF LoadPair, TypeOK, Aligned
    <3>6. ~torn => /\ draft'[p].ids = draft'[p].rows
                   /\ Members(draft'[p].rows) = Members(disk.rows) \cup {item[p]}
      BY <3>3, <3>4, <3>5, WithRowAligned DEF Aligned
    <3>7. ~torn => PairSound' /\ Drafted'
      BY <3>1, <3>2, <3>3, <3>6 DEF PairSound, Aligned, Drafted, Members
    <3>8. ~torn /\ ~outdated => Carried' /\ done' \subseteq Members(disk'.rows)
      BY <3>1, <3>2, <3>6 DEF Sound, Carried, Members
    <3> QED BY <3>1, <3>7, <3>8 DEF Sound, Members
  <2>6. ASSUME NEW p \in Process, ListVault(p) PROVE Sound'
    <3>1. PICK S \in {warm[p], vault} :
            /\ outdated' = (outdated \/ S # vault)
            /\ \E s \in Listings(S) : draft' = [draft EXCEPT ![p] = [ids |-> s, rows |-> s]]
      BY <2>6 DEF ListVault
    <3>2. S \in SUBSET Memory
      BY DEF TypeOK
    <3>3. PICK s \in Listings(S) : draft' = [draft EXCEPT ![p] = [ids |-> s, rows |-> s]]
      BY <3>1
    <3>4. Members(s) = S
      BY <3>2, <3>3, ListingsType
    <3>5. draft'[p] = [ids |-> s, rows |-> s] /\ \A q \in Process : q # p => draft'[q] = draft[q]
      BY <3>3 DEF TypeOK
    <3>6. /\ \A q \in Process : q # p => pc'[q] = pc[q]
          /\ pc[p] = "load" /\ pc'[p] = "ids" /\ item[p] = NoMemory
          /\ UNCHANGED <<vault, disk, lock, item, done, torn>>
      BY <2>6 DEF ListVault, Goto, TypeOK
    <3>7. \A q \in Process : pc[q] # "rows" /\ (pc'[q] \in {"ids", "rows"} => q = p)
      BY <2>0, <3>6
    <3>8. ~torn => PairSound' /\ Drafted'
      BY <3>5, <3>6, <3>7 DEF Sound, PairSound, Aligned, Drafted, Members
    <3>10. ~outdated' => S = vault /\ ~outdated
      BY <3>1
    <3>11. ~outdated' => done' \subseteq Members(draft'[p].rows)
      BY <3>4, <3>5, <3>6, <3>10 DEF Sound
    <3>12. ~outdated' => Carried'
      BY <3>7, <3>11 DEF Carried, Members
    <3>9. ~torn /\ ~outdated' => done' \subseteq Members(disk'.rows)
      BY <3>6, <3>10 DEF Sound, Members
    <3> QED BY <3>6, <3>8, <3>9, <3>12 DEF Sound, Members
  <2>7. ASSUME NEW p \in Process, WriteIds(p) PROVE Sound'
    <3>1. /\ \A q \in Process : q # p => pc'[q] = pc[q]
          /\ pc[p] = "ids" /\ pc'[p] = "rows" /\ lock = p
          /\ UNCHANGED <<vault, lock, item, draft, done, outdated, torn>>
      BY <2>7 DEF WriteIds, Goto, TypeOK
    <3>2. disk'.ids = draft[p].ids /\ disk'.rows = disk.rows
      BY <2>7 DEF WriteIds, TypeOK, Pair
    <3>3. \A q \in Process : pc'[q] \in {"ids", "rows"} => q = p
      BY <2>0, <3>1
    <3> QED BY <3>1, <3>2, <3>3 DEF Sound, PairSound, Drafted, Carried, Members
  <2>8. ASSUME NEW p \in Process, WriteRows(p) PROVE Sound'
    <3>1. /\ \A q \in Process : q # p => pc'[q] = pc[q]
          /\ pc[p] = "rows" /\ pc'[p] = "idle"
          /\ done' = IF item[p] \in vault THEN done \cup {item[p]} ELSE done
          /\ UNCHANGED <<vault, outdated, torn>>
      BY <2>8 DEF WriteRows, Leave, Goto, TypeOK
    <3>2. disk'.ids = disk.ids /\ disk'.rows = draft[p].rows
      BY <2>8 DEF WriteRows, TypeOK, Pair
    <3>3. \A q \in Process : pc'[q] \notin {"ids", "rows"}
      BY <2>0, <3>1
    <3>4. item[p] \in vault => item[p] # NoMemory
      BY DEF TypeOK
    <3>5. ~torn => PairSound' /\ Drafted'
      BY <3>1, <3>2, <3>3 DEF Sound, PairSound, Aligned, Drafted
    <3>6. ~torn /\ ~outdated => Carried' /\ done' \subseteq Members(disk'.rows)
      BY <3>1, <3>2, <3>3, <3>4 DEF Sound, Drafted, Carried, Members
    <3>7. done' \subseteq vault'
      BY <3>1 DEF Sound
    <3> QED BY <3>1, <3>5, <3>6, <3>7 DEF Sound, Members
  <2>9. ASSUME NEW p \in Process, Fail(p) PROVE Sound'
    <3>1. /\ \A q \in Process : q # p => pc'[q] = pc[q] /\ item'[q] = item[q] /\ draft'[q] = draft[q]
          /\ pc'[p] = "idle" /\ torn' = (torn \/ pc[p] = "rows")
          /\ UNCHANGED <<vault, disk, done, outdated>>
          /\ \A q \in Process : q # p => (lock' = q <=> lock = q)
      BY <2>9 DEF Fail, Leave, Goto, TypeOK
    <3>2. ~torn' => ~torn /\ pc[p] # "rows"
      BY <3>1
    <3>3. ~torn' => PairSound'
      BY <3>1, <3>2 DEF Sound, PairSound, Aligned
    <3>4. ~torn' => Drafted'
      BY <3>1, <3>2 DEF Sound, Drafted, Members
    <3>5. ~torn' /\ ~outdated' => Carried' /\ done' \subseteq Members(disk'.rows)
      BY <3>1, <3>2 DEF Sound, Carried, Members
    <3>6. done' \subseteq vault'
      BY <3>1 DEF Sound
    <3> QED BY <3>3, <3>4, <3>5, <3>6 DEF Sound, Members
  <2>10. ASSUME NEW m \in Memory, Purge(m) PROVE Sound'
    <3>1. /\ vault' = vault \ {m} /\ done' = done \ {m}
          /\ UNCHANGED <<disk, lock, pc, item, draft, outdated, torn>>
      BY <2>10 DEF Purge
    <3> QED BY <3>1 DEF Sound, PairSound, Aligned, Drafted, Carried, Members
  <2>11. ASSUME NEW r \in Reader, Load(r) PROVE Sound'
    BY <2>11, SoundStays DEF Load, Look, LoadRows, LoadIds
  <2>12. CASE UNCHANGED vars
    BY <2>12, SoundStays DEF vars
  <2> QED
    BY <2>1, <2>2, <2>3, <2>4, <2>5, <2>6, <2>7, <2>8, <2>9, <2>10, <2>11, <2>12
    DEF Next, Write
<1> QED BY <1>1, <1>2, TypeCorrect, PTL DEF Spec

\* A row is the vector of the memory its id names.
THEOREM PairsMatch == Spec => []PairSound
<1>1. Sound => PairSound
  BY DEF Sound, PairSound
<1> QED BY <1>1, SoundKept, PTL

\* Saves and rebuilds running at the same time lose no saved row.
THEOREM NoRowLost == Spec => []RowsKept
<1>1. Sound => RowsKept
  BY DEF Sound, RowsKept
<1> QED BY <1>1, SoundKept, PTL
================================================================================
