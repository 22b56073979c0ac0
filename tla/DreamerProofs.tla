----------------------------- MODULE DreamerProofs -----------------------------
(***************************************************************************)
(* The dream pass for any memories, miners, passes, answers of Haiku and   *)
(* kills: what is protected stays, successors have files, what nobody      *)
(* reviews only adds, merging loses nothing, and reflection repeats only   *)
(* what a failure made it forget.                                          *)
(***************************************************************************)
EXTENDS Dreamer, FiniteSetTheorems, TLAPS

USE IdsAssumption, ContradictsAssumption, NobodyAssumption, SizesAssumption, BoundsAssumption
    DEF work, history

\* Memories are not deleted, so what a pass listed is still there.
StillThere == \A p \in Pass, i \in Id : listed[p][i] # None => vault[i] # None

\* A pass works on memories it listed, and a cluster's memory has been saved.
Targets ==
  \A p \in Pass :
    /\ todo[p] \subseteq Listed(p)
    /\ pc[p] \in {"mark", "retire"} => /\ aim[p] \in Fresh /\ vault[aim[p]] # None
                                       /\ todo[p] # {}
    /\ pc[p] = "replace" => aim[p] \in Listed(p)

\* Without review no pass comes to the destructive categories.
Destructive == {"demote", "judge", "summarize", "mark", "merge", "retire"}
Harmless == \A p \in Pass : mode[p] \in {"dry", "safe"} => pc[p] \notin Destructive

Steady == TypeOK /\ StillThere /\ Targets /\ Harmless

\* A new memory is a memory, and it is valid.
LEMMA NewType ==
  ASSUME NEW S \in SUBSET Fact, NEW k \in Kind, NEW t \in Nat
  PROVE  /\ New(S, k, t) \in Memory /\ New(S, k, t) # None
         /\ New(S, k, t).valid /\ New(S, k, t).says = S /\ New(S, k, t).created = t
<1>1. New(S, k, t) \in Memory
  BY DEF New, Memory, Kind
<1>2. New(S, k, t).valid /\ New(S, k, t).says = S /\ New(S, k, t).created = t
  BY DEF New
<1> QED BY <1>1, <1>2

\* A canonical memory is a memory, says what its sources say, and is valid.
LEMMA CanonicalType ==
  ASSUME TypeOK, NEW p \in Pass, NEW C \in SUBSET Listed(p), NEW S \in SUBSET C
  PROVE  /\ Canonical(p, C, S) \in Memory /\ Canonical(p, C, S) # None
         /\ Canonical(p, C, S).valid
         /\ \A i \in S : listed[p][i].says \subseteq Canonical(p, C, S).says
<1> DEFINE facts == UNION {listed[p][i].says : i \in S}
<1>1. \A i \in S : i \in Id /\ listed[p][i] \in Memory
  BY DEF TypeOK, Listed
<1>2. \A i \in S : listed[p][i].says \subseteq Fact
  BY <1>1 DEF Memory
<1>3. facts \in SUBSET Fact
  BY <1>2
<1>4. clock + 1 \in Nat /\ "canonical" \in Kind
  BY DEF TypeOK, Kind
<1>5. (\E i \in C : listed[p][i].episodic) \in BOOLEAN
  OBVIOUS
<1>6. New(facts, "canonical", clock + 1) \in Memory
  BY <1>3, <1>4, NewType
<1>7. Canonical(p, C, S) = [New(facts, "canonical", clock + 1)
                              EXCEPT !.episodic = \E i \in C : listed[p][i].episodic]
  BY DEF Canonical
<1> HIDE DEF facts
<1>8. Canonical(p, C, S) \in Memory
  BY <1>6, <1>7 DEF Memory
<1>9. Canonical(p, C, S).valid /\ Canonical(p, C, S).says = facts
  BY <1>7 DEF New
<1>10. \A i \in S : listed[p][i].says \subseteq facts
  BY DEF facts
<1> QED BY <1>8, <1>9, <1>10

\* A proposal's cluster is a set of memories that were listed.
LEMMA ClusterListed ==
  ASSUME NEW p \in Pass
  PROVE  Valid(p) \subseteq Listed(p) /\ Mergeable(p) \subseteq Listed(p) /\ Rewritable(p) \subseteq Listed(p)
BY DEF Valid, Mergeable, Rewritable

\* The next member is one, and what is left is nothing only after the last.
LEMMA MemberIn ==
  ASSUME NEW p \in Pass, todo[p] # {}
  PROVE  Member(p) \in todo[p] /\ (todo[p] # {Member(p)} => todo[p] \ {Member(p)} # {})
BY DEF Member

\* A save gives an unused id a memory that is valid.
SavesNew ==
  \E n \in Episode \cup Fresh, m \in Memory :
    vault[n] = None /\ vault' = [vault EXCEPT ![n] = m] /\ m.valid

\* A change is made to a memory that is not protected; if it ends invalid, it was so
\* before or names a memory that there is.
Changes(i, m) ==
  /\ vault[i] # None /\ vault' = [vault EXCEPT ![i] = m]
  /\ \/ m.valid
     \/ m.by \in Id /\ vault[m.by] # None
     \/ ~vault[i].valid /\ m.by = vault[i].by

\* Where a pass changes a memory, it is one that it listed and that is not protected.
LEMMA ChangeStep ==
  ASSUME Steady, NEW p \in Pass, Demote(p) \/ Judge(p) \/ Mark(p) \/ Retire(p) \/ RewriteTense(p)
  PROVE  \E i \in Id \ Pinned, m \in Memory : Changes(i, m)
<1>0. TypeOK /\ StillThere /\ Targets
  BY DEF Steady
<1>1. \A i \in Id : vault[i] # None => vault[i] \in Memory
  BY <1>0 DEF TypeOK
<1>2. CASE Demote(p)
  <2>1. PICK i \in Listed(p) : vault' = [vault EXCEPT ![i].demoted = TRUE]
    BY <1>2 DEF Demote
  <2>2. i \in Id \ Pinned /\ vault[i] # None
    BY <1>0 DEF Listed, StillThere
  <2> DEFINE m == [vault[i] EXCEPT !.demoted = TRUE]
  <2>3. vault[i] \in Memory
    BY <1>1, <2>2
  <2>4. m \in Memory /\ m.valid = vault[i].valid /\ m.by = vault[i].by /\ vault[i].valid \in BOOLEAN
    BY <2>3 DEF Memory
  <2>5. vault' = [vault EXCEPT ![i] = m]
    BY <2>1
  <2> QED BY <2>2, <2>4, <2>5 DEF Changes
<1>3. CASE Judge(p)
  <2>1. PICK pair \in Pairs(p) : \E loser, winner \in {pair[1], pair[2]} :
           vault' = [vault EXCEPT ![loser].valid = FALSE, ![loser].by = winner]
    BY <1>3 DEF Judge
  <2>2. PICK loser \in {pair[1], pair[2]}, winner \in {pair[1], pair[2]} :
           vault' = [vault EXCEPT ![loser].valid = FALSE, ![loser].by = winner]
    BY <2>1
  <2>3. pair[1] \in Listed(p) /\ pair[2] \in Listed(p)
    BY <2>1 DEF Pairs, Valid
  <2>4. loser \in Id \ Pinned /\ vault[loser] # None /\ winner \in Id /\ vault[winner] # None
    BY <1>0, <2>2, <2>3 DEF Listed, StillThere
  <2> DEFINE m == [vault[loser] EXCEPT !.valid = FALSE, !.by = winner]
  <2>5. vault[loser] \in Memory
    BY <1>1, <2>4
  <2>6. m \in Memory /\ m.by = winner
    BY <2>4, <2>5 DEF Memory
  <2>7. vault' = [vault EXCEPT ![loser] = m]
    BY <1>0, <2>2, <2>4 DEF TypeOK
  <2> QED BY <2>4, <2>6, <2>7 DEF Changes
<1>4. CASE Mark(p)
  <2>1. Member(p) \in Listed(p)
    BY <1>0, <1>4, MemberIn DEF Mark, Targets
  <2>2. Member(p) \in Id \ Pinned /\ vault[Member(p)] # None /\ aim[p] \in Id
    BY <1>0, <1>4, <2>1 DEF Listed, StillThere, Targets, Mark, Id
  <2> DEFINE m == [vault[Member(p)] EXCEPT !.cluster = aim[p]]
  <2>3. vault[Member(p)] \in Memory
    BY <1>1, <2>2
  <2>4. m \in Memory /\ m.valid = vault[Member(p)].valid /\ m.by = vault[Member(p)].by
        /\ vault[Member(p)].valid \in BOOLEAN
    BY <2>2, <2>3 DEF Memory
  <2>5. vault' = [vault EXCEPT ![Member(p)] = m]
    BY <1>4 DEF Mark
  <2> QED BY <2>2, <2>4, <2>5 DEF Changes
<1>5. CASE Retire(p)
  <2>1. Member(p) \in Listed(p)
    BY <1>0, <1>5, MemberIn DEF Retire, Targets
  <2>2. Member(p) \in Id \ Pinned /\ vault[Member(p)] # None /\ aim[p] \in Id /\ vault[aim[p]] # None
    BY <1>0, <1>5, <2>1 DEF Listed, StillThere, Targets, Retire, Id
  <2> DEFINE m == [vault[Member(p)] EXCEPT !.valid = FALSE, !.by = aim[p]]
  <2>3. vault[Member(p)] \in Memory
    BY <1>1, <2>2
  <2>4. m \in Memory /\ m.by = aim[p]
    BY <2>2, <2>3 DEF Memory
  <2>5. vault' = [vault EXCEPT ![Member(p)] = m]
    BY <1>0, <1>5, <2>2 DEF Retire, TypeOK
  <2> QED BY <2>2, <2>4, <2>5 DEF Changes
<1>6. CASE RewriteTense(p)
  <2>1. aim[p] \in Listed(p)
    BY <1>0, <1>6 DEF RewriteTense, Targets
  <2>2. aim[p] \in Id \ Pinned /\ vault[aim[p]] # None /\ listed[p][aim[p]] \in Memory
    BY <1>0, <2>1 DEF Listed, StillThere, TypeOK
  <2> DEFINE m == [vault[aim[p]] EXCEPT !.says = listed[p][aim[p]].says]
  <2>3. vault[aim[p]] \in Memory /\ listed[p][aim[p]].says \in SUBSET Fact
    BY <1>1, <2>2 DEF Memory
  <2>4. m \in Memory /\ m.valid = vault[aim[p]].valid /\ m.by = vault[aim[p]].by
        /\ vault[aim[p]].valid \in BOOLEAN
    BY <2>3 DEF Memory
  <2>5. vault' = [vault EXCEPT ![aim[p]] = m]
    BY <1>6 DEF RewriteTense
  <2> QED BY <2>2, <2>4, <2>5 DEF Changes
<1> QED BY <1>2, <1>3, <1>4, <1>5, <1>6

\* An episode that is saved again is a valid memory with its old time.
LEMMA AgainChanges ==
  ASSUME TypeOK, NEW e \in Episode, NEW d \in Later, SaveEpisodeAgain(e, d)
  PROVE  /\ \E i \in Id \ Pinned, m \in Memory : Changes(i, m)
         /\ e \in Id /\ vault' = [vault EXCEPT ![e] = New({d}, "episode", vault[e].created)]
         /\ vault'[e] # None /\ vault'[e].valid /\ vault'[e].says = {d}
         /\ vault'[e].created = vault[e].created
<1>1. e \in Id \ Pinned /\ vault[e] # None /\ vault[e] \in Memory
  BY DEF SaveEpisodeAgain, TypeOK, Id
<1>2. {d} \in SUBSET Fact /\ "episode" \in Kind /\ vault[e].created \in Nat
  BY <1>1 DEF Fact, Kind, Memory
<1> DEFINE m == New({d}, "episode", vault[e].created)
<1>3. m \in Memory /\ m # None /\ m.valid /\ m.says = {d} /\ m.created = vault[e].created
  BY <1>2, NewType
<1>4. vault' = [vault EXCEPT ![e] = m]
  BY DEF SaveEpisodeAgain
<1> HIDE DEF m
<1>5. vault'[e] = m
  BY <1>1, <1>4 DEF TypeOK
<1>6. Changes(e, m)
  BY <1>1, <1>3, <1>4 DEF Changes
<1> QED BY <1>1, <1>3, <1>4, <1>5, <1>6 DEF m

\* Whatever the step, the vault stays, gains a memory, or one memory changes.
LEMMA VaultStep ==
  ASSUME Steady, [Next]_vars
  PROVE  UNCHANGED vault \/ SavesNew \/ \E i \in Id \ Pinned, m \in Memory : Changes(i, m)
<1>0. TypeOK /\ StillThere /\ Targets
  BY DEF Steady
<1>1. \A i \in Id : vault[i] # None => vault[i] \in Memory
  BY <1>0 DEF TypeOK
<1>2. ASSUME NEW e \in Episode, SaveEpisode(e) PROVE SavesNew
  <2>1. {e} \in SUBSET Fact /\ "episode" \in Kind /\ clock + 1 \in Nat
    BY <1>0 DEF Fact, Kind, TypeOK
  <2>2. New({e}, "episode", clock + 1) \in Memory /\ New({e}, "episode", clock + 1).valid
    BY <2>1, NewType
  <2> QED BY <1>2, <2>2 DEF SaveEpisode, SavesNew
<1>10. ASSUME NEW e \in Episode, NEW d \in Later, SaveEpisodeAgain(e, d)
       PROVE  \E i \in Id \ Pinned, m \in Memory : Changes(i, m)
  BY <1>0, <1>10, AgainChanges
<1>3. ASSUME NEW f \in News, MergeNews(f) PROVE \E i \in Id \ Pinned, m \in Memory : Changes(i, m)
  <2>1. PICK i \in Id \ Pinned : /\ vault[i] # None /\ vault[i].valid
                                /\ vault' = [vault EXCEPT ![i].says = @ \cup {f}]
    BY <1>3 DEF MergeNews
  <2>2. vault[i] \in Memory /\ f \in Fact
    BY <1>1, <2>1 DEF Fact
  <2> DEFINE m == [vault[i] EXCEPT !.says = @ \cup {f}]
  <2>3. m \in Memory /\ m.valid
    BY <2>1, <2>2 DEF Memory
  <2>4. vault' = [vault EXCEPT ![i] = m]
    BY <2>1
  <2> QED BY <2>1, <2>3, <2>4 DEF Changes
<1>4. ASSUME NEW p \in Pass, Summarize(p) PROVE SavesNew
  <2>1. PICK n \in Fresh : vault[n] = None /\ vault' = [vault EXCEPT ![n] = New({}, "pattern", clock)]
    BY <1>4 DEF Summarize
  <2>2. {} \in SUBSET Fact /\ "pattern" \in Kind /\ clock \in Nat
    BY <1>0 DEF Kind, TypeOK
  <2>3. New({}, "pattern", clock) \in Memory /\ New({}, "pattern", clock).valid
    BY <2>2, NewType
  <2> QED BY <2>1, <2>3 DEF SavesNew
<1>5. ASSUME NEW p \in Pass, MergeCluster(p) PROVE SavesNew
  <2>0. PICK C \in SUBSET Mergeable(p), n \in Fresh :
           /\ vault[n] = None
           /\ \E S \in SUBSET C : vault' = [vault EXCEPT ![n] = Canonical(p, C, S)]
    BY <1>5 DEF MergeCluster
  <2>1. PICK S \in SUBSET C : vault' = [vault EXCEPT ![n] = Canonical(p, C, S)]
    BY <2>0
  <2>2. C \in SUBSET Listed(p)
    BY <2>1, ClusterListed
  <2>3. Canonical(p, C, S) \in Memory /\ Canonical(p, C, S).valid
    BY <1>0, <2>2, CanonicalType
  <2> QED BY <2>0, <2>1, <2>3 DEF SavesNew
<1>6. ASSUME NEW p \in Pass, Reflect(p) PROVE SavesNew
  <2>1. PICK n \in Fresh : vault[n] = None /\ vault' = [vault EXCEPT ![n] = New({}, "insight", clock)]
    BY <1>6 DEF Reflect
  <2>2. {} \in SUBSET Fact /\ "insight" \in Kind /\ clock \in Nat
    BY <1>0 DEF Kind, TypeOK
  <2>3. New({}, "insight", clock) \in Memory /\ New({}, "insight", clock).valid
    BY <2>2, NewType
  <2> QED BY <2>1, <2>3 DEF SavesNew
<1>7. ASSUME NEW p \in Pass, \/ Begin(p) \/ TakeLock(p) \/ SkipPass(p) \/ BuildDiff(p)
                              \/ PassOver(p) \/ CheckHash(p) \/ Advance(p)
                              \/ WriteLastDreamTs(p) \/ LoseLastDreamTs(p) \/ Release(p) \/ Crash(p)
       PROVE  UNCHANGED vault
  BY <1>7 DEF Begin, TakeLock, SkipPass, BuildDiff, PassOver, CheckHash, Advance,
               WriteLastDreamTs, LoseLastDreamTs, Release, Crash
<1>8. CASE UNCHANGED vars
  BY <1>8 DEF vars
<1>9. ASSUME NEW p \in Pass, Demote(p) \/ Judge(p) \/ Mark(p) \/ Retire(p) \/ RewriteTense(p)
       PROVE  \E i \in Id \ Pinned, m \in Memory : Changes(i, m)
  BY <1>9, ChangeStep
<1> QED BY <1>2, <1>3, <1>4, <1>5, <1>6, <1>7, <1>8, <1>9, <1>10 DEF Next, Dream, Apply

\* So the vault keeps its type, its memories and the protected ones as they are.
LEMMA VaultGrows ==
  ASSUME Steady, [Next]_vars
  PROVE  /\ vault' \in [Id -> Memory \cup {None}]
         /\ \A i \in Id : vault[i] # None => vault'[i] # None
         /\ \A i \in Pinned : vault[i] # None => vault'[i] = vault[i]
<1>0. TypeOK
  BY DEF Steady
<1>1. CASE UNCHANGED vault
  BY <1>0, <1>1 DEF TypeOK
<1>2. CASE SavesNew
  <2>1. PICK n \in Episode \cup Fresh, m \in Memory : vault[n] = None /\ vault' = [vault EXCEPT ![n] = m]
    BY <1>2 DEF SavesNew
  <2>2. n \in Id
    BY DEF Id
  <2>3. vault' \in [Id -> Memory \cup {None}]
    BY <1>0, <2>1, <2>2 DEF TypeOK
  <2>4. \A i \in Id : vault[i] # None => vault'[i] = vault[i]
    BY <1>0, <2>1, <2>2 DEF TypeOK
  <2>5. Pinned \subseteq Id
    BY DEF Id
  <2> QED BY <2>3, <2>4, <2>5
<1>3. CASE \E i \in Id \ Pinned, m \in Memory : Changes(i, m)
  <2>1. PICK i \in Id \ Pinned, m \in Memory : vault' = [vault EXCEPT ![i] = m]
    BY <1>3 DEF Changes
  <2>2. vault' \in [Id -> Memory \cup {None}]
    BY <1>0, <2>1 DEF TypeOK
  <2>3. \A j \in Id : vault[j] # None => vault'[j] # None
    BY <1>0, <2>1 DEF TypeOK
  <2>4. \A j \in Pinned : j \in Id /\ j # i
    BY DEF Id
  <2>5. \A j \in Pinned : vault'[j] = vault[j]
    BY <1>0, <2>1, <2>4 DEF TypeOK
  <2> QED BY <2>2, <2>3, <2>5
<1> QED BY <1>1, <1>2, <1>3, VaultStep

\* A pass that ends forgets everything, and the rest of the state keeps its types.
LEMMA ExitSteady ==
  ASSUME Steady, [Next]_vars, NEW p \in Pass, Exit(p), UNCHANGED <<vault, clock, last>>,
         UNCHANGED <<passes, manual, told, dropped, reflected, judged, stale>>,
         failures' \in Nat
  PROVE  Steady'
<1>0. TypeOK /\ StillThere /\ Targets /\ Harmless
  BY DEF Steady
<1>1. /\ pc' = [pc EXCEPT ![p] = "idle"] /\ mode' = [mode EXCEPT ![p] = "dry"]
      /\ listed' = [listed EXCEPT ![p] = Empty] /\ since' = [since EXCEPT ![p] = 0]
      /\ dealt' = [dealt EXCEPT ![p] = {}] /\ made' = [made EXCEPT ![p] = 0]
      /\ todo' = [todo EXCEPT ![p] = {}] /\ aim' = [aim EXCEPT ![p] = None]
      /\ turn' = [turn EXCEPT ![p] = 0] /\ lock' = IF lock = p THEN Nobody ELSE lock
  BY DEF Exit, Goto
<1>2. Empty \in [Id -> Memory \cup {None}] /\ \A i \in Id : Empty[i] = None
  BY DEF Empty
<1>3. TypeOK'
  <2>1. /\ pc' \in [Pass -> Steps] /\ mode' \in [Pass -> Modes]
        /\ listed' \in [Pass -> [Id -> Memory \cup {None}]] /\ since' \in [Pass -> Nat]
    BY <1>0, <1>1, <1>2 DEF TypeOK, Steps, Modes
  <2>2. /\ dealt' \in [Pass -> SUBSET (Id \cup (Id \X Id))] /\ made' \in [Pass -> Nat]
        /\ todo' \in [Pass -> SUBSET Id] /\ aim' \in [Pass -> Id \cup {None}]
        /\ turn' \in [Pass -> Nat] /\ lock' \in Pass \cup {Nobody}
    BY <1>0, <1>1 DEF TypeOK
  <2>3. \A q \in Pass : lock' = q <=> pc'[q] \notin {"idle", "lock"}
    BY <1>0, <1>1 DEF TypeOK
  <2> QED BY <1>0, <2>1, <2>2, <2>3 DEF TypeOK
<1>4. /\ \A i \in Id : listed'[p][i] = None
      /\ \A q \in Pass : q # p => /\ listed'[q] = listed[q] /\ todo'[q] = todo[q] /\ aim'[q] = aim[q]
                                /\ pc'[q] = pc[q] /\ mode'[q] = mode[q]
      /\ todo'[p] = {} /\ pc'[p] = "idle"
  BY <1>0, <1>1, <1>2 DEF TypeOK
<1>5. StillThere'
  BY <1>0, <1>4 DEF StillThere
<1>6. Targets'
  BY <1>0, <1>4 DEF Targets, Listed
<1>7. Harmless'
  BY <1>0, <1>4 DEF Harmless, Destructive
<1> QED BY <1>3, <1>5, <1>6, <1>7 DEF Steady

\* A step that moves one pass to where it has no cluster, and lists nothing anew.
LEMMA MoveSteady ==
  ASSUME Steady, [Next]_vars, TypeOK', NEW p \in Pass, UNCHANGED <<listed, mode, todo>>,
         \A q \in Pass : q # p => pc'[q] = pc[q] /\ aim'[q] = aim[q],
         pc'[p] \notin {"mark", "retire", "replace"},
         mode[p] \in {"dry", "safe"} => pc'[p] \notin Destructive
  PROVE  Steady'
<1>0. TypeOK /\ StillThere /\ Targets /\ Harmless
  BY DEF Steady
<1>1. \A i \in Id : vault[i] # None => vault'[i] # None
  BY VaultGrows
<1>2. StillThere'
  BY <1>0, <1>1 DEF StillThere
<1>3. \A q \in Pass : pc[q] \in {"mark", "retire"} => vault'[aim[q]] # None
  BY <1>0, <1>1 DEF Targets, Id
<1>4. Targets'
  BY <1>0, <1>3 DEF Targets, Listed
<1>5. Harmless'
  BY <1>0 DEF Harmless
<1> QED BY <1>2, <1>4, <1>5 DEF Steady

\* A step that leaves every pass where it is.
LEMMA StaySteady ==
  ASSUME Steady, [Next]_vars, TypeOK', UNCHANGED <<listed, mode, todo, pc, aim>>
  PROVE  Steady'
<1>0. TypeOK /\ StillThere /\ Targets /\ Harmless
  BY DEF Steady
<1>1. \A i \in Id : vault[i] # None => vault'[i] # None
  BY VaultGrows
<1>2. StillThere'
  BY <1>0, <1>1 DEF StillThere
<1>3. \A q \in Pass : pc[q] \in {"mark", "retire"} => vault'[aim[q]] # None
  BY <1>0, <1>1 DEF Targets, Id
<1>4. Targets'
  BY <1>0, <1>3 DEF Targets, Listed
<1>5. Harmless'
  BY <1>0 DEF Harmless
<1> QED BY <1>2, <1>4, <1>5 DEF Steady

\* A proposal is counted, and what it is about is dealt with.
LEMMA DealType ==
  ASSUME TypeOK, NEW p \in Pass, NEW S \in SUBSET (Id \cup (Id \X Id)), Deal(p, S)
  PROVE  made' \in [Pass -> Nat] /\ dealt' \in [Pass -> SUBSET (Id \cup (Id \X Id))]
<1>1. made' = [made EXCEPT ![p] = made[p] + 1] /\ dealt' = [dealt EXCEPT ![p] = dealt[p] \cup S]
  BY DEF Deal
<1>2. made[p] + 1 \in Nat /\ dealt[p] \cup S \in SUBSET (Id \cup (Id \X Id))
  BY DEF TypeOK
<1> QED BY <1>1, <1>2 DEF TypeOK

\* A step for one member of a cluster, and on to the next or back to the category.
LEMMA DoneSteady ==
  ASSUME Steady, [Next]_vars, NEW p \in Pass, NEW category \in {"summarize", "merge"},
         pc[p] \in {"mark", "retire"}, todo[p] # {}, Done(p, pc[p], category),
         UNCHANGED <<clock, last, lock, mode, listed, since, dealt, made, aim, turn>>,
         UNCHANGED <<passes, manual, told, dropped, reflected, judged>>,
         stale' \in BOOLEAN, failures' \in Nat
  PROVE  Steady'
<1>0. TypeOK /\ StillThere /\ Targets /\ Harmless
  BY DEF Steady
<1>1. /\ todo' = [todo EXCEPT ![p] = todo[p] \ {Member(p)}]
      /\ pc' = [pc EXCEPT ![p] = IF todo[p] = {Member(p)} THEN category ELSE pc[p]]
  BY DEF Done, Goto
<1>2. /\ Member(p) \in todo[p]
      /\ todo[p] # {Member(p)} => todo[p] \ {Member(p)} # {}
  BY MemberIn
<1>3. /\ \A q \in Pass : q # p => pc'[q] = pc[q] /\ todo'[q] = todo[q]
      /\ todo'[p] = todo[p] \ {Member(p)}
      /\ pc'[p] = IF todo[p] = {Member(p)} THEN category ELSE pc[p]
  BY <1>0, <1>1 DEF TypeOK
<1>4. TypeOK'
  <2>1. pc' \in [Pass -> Steps] /\ todo' \in [Pass -> SUBSET Id]
    BY <1>0, <1>1 DEF TypeOK, Steps
  <2>2. \A q \in Pass : lock' = q <=> pc'[q] \notin {"idle", "lock"}
    BY <1>0, <1>3 DEF TypeOK
  <2>3. vault' \in [Id -> Memory \cup {None}]
    BY VaultGrows
  <2> QED BY <1>0, <2>1, <2>2, <2>3 DEF TypeOK
<1>5. \A i \in Id : vault[i] # None => vault'[i] # None
  BY VaultGrows
<1>6. StillThere'
  BY <1>0, <1>5 DEF StillThere
<1>7. \A q \in Pass : pc'[q] \in {"mark", "retire"} =>
         /\ pc[q] \in {"mark", "retire"}
         /\ todo'[q] # {}
  BY <1>0, <1>2, <1>3 DEF Targets
<1>8. \A q \in Pass : pc[q] \in {"mark", "retire"} => aim[q] \in Fresh /\ vault'[aim[q]] # None
  BY <1>0, <1>5 DEF Targets, Id
<1>9. \A q \in Pass : pc'[q] = "replace" => pc[q] = "replace"
  BY <1>0, <1>3
<1>10. \A q \in Pass : todo'[q] \subseteq todo[q]
  BY <1>3
<1>11. Targets'
  BY <1>0, <1>7, <1>8, <1>9, <1>10 DEF Targets, Listed
<1>12. Harmless'
  BY <1>0, <1>3 DEF Harmless, Destructive
<1> QED BY <1>4, <1>6, <1>11, <1>12 DEF Steady

\* A pass that takes a cluster has saved its memory.
LEMMA ClusterSteady ==
  ASSUME Steady, [Next]_vars, TypeOK', NEW p \in Pass, NEW n \in Fresh, vault'[n] # None,
         NEW S \in SUBSET Listed(p), todo' = [todo EXCEPT ![p] = S],
         aim' = [aim EXCEPT ![p] = n], UNCHANGED <<listed, mode>>, pc[p] \in Destructive,
         \A q \in Pass : q # p => pc'[q] = pc[q],
         pc'[p] # "replace", pc'[p] \in {"mark", "retire"} => S # {}
  PROVE  Steady'
<1>0. TypeOK /\ StillThere /\ Targets /\ Harmless
  BY DEF Steady
<1>1. \A i \in Id : vault[i] # None => vault'[i] # None
  BY VaultGrows
<1>2. StillThere'
  BY <1>0, <1>1 DEF StillThere
<1>3. /\ \A q \in Pass : q # p => todo'[q] = todo[q] /\ aim'[q] = aim[q]
      /\ todo'[p] = S /\ aim'[p] = n
  BY <1>0 DEF TypeOK
<1>4. \A q \in Pass : pc[q] \in {"mark", "retire"} => vault'[aim[q]] # None
  BY <1>0, <1>1 DEF Targets, Id
<1>5. Targets'
  <2>1. Listed(p)' = Listed(p)
    BY DEF Listed
  <2>2. \A q \in Pass : Listed(q)' = Listed(q)
    BY DEF Listed
  <2> QED BY <1>0, <1>3, <1>4, <2>1, <2>2 DEF Targets
<1>6. Harmless'
  BY <1>0 DEF Harmless
<1> QED BY <1>2, <1>5, <1>6 DEF Steady

\* One action disturbs few variables; the pass p is the one that moves.
THEOREM SteadyAlways == Spec => []Steady
<1>1. Init => Steady
  <2> SUFFICES ASSUME Init PROVE Steady
    OBVIOUS
  <2>1. vault \in [Id -> Memory \cup {None}]
    <3>1. \A i \in Old : {i} \in SUBSET Fact /\ "mined" \in Kind /\ 0 \in Nat
      BY DEF Fact, Kind
    <3>2. \A i \in Old : New({i}, "mined", 0) \in Memory
      BY <3>1, NewType
    <3> QED BY <3>2 DEF Init
  <2>2. listed \in [Pass -> [Id -> Memory \cup {None}]] /\ \A p \in Pass, i \in Id : listed[p][i] = None
    BY DEF Init, Empty
  <2>3. pc \in [Pass -> Steps] /\ mode \in [Pass -> Modes] /\ \A p \in Pass : pc[p] = "idle" /\ todo[p] = {}
    BY DEF Init, Steps, Modes
  <2>4. /\ dealt \in [Pass -> SUBSET (Id \cup (Id \X Id))] /\ todo \in [Pass -> SUBSET Id]
        /\ aim \in [Pass -> Id \cup {None}] /\ reflected \in [Episode -> SUBSET Nat]
    BY DEF Init
  <2>5. /\ since \in [Pass -> Nat] /\ made \in [Pass -> Nat] /\ turn \in [Pass -> Nat]
        /\ clock \in Nat /\ last \in Nat /\ passes \in Nat /\ manual \in Nat /\ failures \in Nat
    BY DEF Init
  <2>6. told \in SUBSET (News \cup Later) /\ dropped \in SUBSET Fact
    BY DEF Init
  <2>7. judged \in BOOLEAN /\ stale \in BOOLEAN
    BY Zenon DEF Init
  <2>8. lock \in Pass \cup {Nobody} /\ \A p \in Pass : lock = p <=> pc[p] \notin {"idle", "lock"}
    BY <2>3 DEF Init
  <2>9. TypeOK
    BY <2>1, <2>2, <2>3, <2>4, <2>5, <2>6, <2>7, <2>8 DEF TypeOK
  <2>10. StillThere /\ Targets /\ Harmless
    BY <2>2, <2>3 DEF StillThere, Targets, Harmless, Destructive
  <2> QED BY <2>9, <2>10 DEF Steady
<1>2. Steady /\ [Next]_vars => Steady'
  <2> SUFFICES ASSUME Steady, [Next]_vars PROVE Steady'
    OBVIOUS
  <2>0. TypeOK /\ StillThere /\ Targets /\ Harmless
    BY DEF Steady
  <2>1. vault' \in [Id -> Memory \cup {None}]
    BY VaultGrows
  <2>2. ASSUME NEW e \in Episode, SaveEpisode(e) PROVE Steady'
    <3>1. TypeOK'
      BY <2>0, <2>1, <2>2 DEF SaveEpisode, TypeOK
    <3> QED BY <2>2, <3>1, StaySteady DEF SaveEpisode
  <2>22. ASSUME NEW e \in Episode, NEW d \in Later, SaveEpisodeAgain(e, d) PROVE Steady'
    <3>0. told' \in SUBSET (News \cup Later)
      BY <2>0, <2>22 DEF SaveEpisodeAgain, TypeOK
    <3>2. dropped' \in SUBSET Fact
      <4>1. vault[e] \in Memory
        BY <2>0, <2>22 DEF SaveEpisodeAgain, TypeOK, Id
      <4>2. vault[e].says \in SUBSET Fact /\ dropped \in SUBSET Fact
        BY <2>0, <4>1 DEF Memory, TypeOK
      <4> QED BY <2>22, <4>2 DEF SaveEpisodeAgain
    <3>1. TypeOK'
      BY <2>0, <2>1, <2>22, <3>0, <3>2 DEF SaveEpisodeAgain, TypeOK
    <3> QED BY <2>22, <3>1, StaySteady DEF SaveEpisodeAgain
  <2>3. ASSUME NEW f \in News, MergeNews(f) PROVE Steady'
    <3>1. TypeOK'
      BY <2>0, <2>1, <2>3 DEF MergeNews, TypeOK
    <3> QED BY <2>3, <3>1, StaySteady DEF MergeNews
  <2>4. ASSUME NEW p \in Pass, Begin(p) PROVE Steady'
    <3>1. PICK m \in Modes : /\ mode' = [mode EXCEPT ![p] = m]
                            /\ manual' = IF m \in {"apply", "consolidate"} THEN manual + 1 ELSE manual
      BY <2>4 DEF Begin
    <3>2. /\ pc[p] = "idle" /\ pc' = [pc EXCEPT ![p] = "lock"]
          /\ turn' = [turn EXCEPT ![p] = passes + 1] /\ passes' = passes + 1
      BY <2>4 DEF Begin, Goto
    <3>3. /\ mode' \in [Pass -> Modes] /\ pc' \in [Pass -> Steps] /\ turn' \in [Pass -> Nat]
          /\ passes' \in Nat /\ manual' \in Nat
      BY <2>0, <3>1, <3>2 DEF TypeOK, Steps
    <3>4. \A q \in Pass : lock = q <=> pc'[q] \notin {"idle", "lock"}
      BY <2>0, <3>2 DEF TypeOK
    <3>5. TypeOK'
      BY <2>0, <2>1, <2>4, <3>3, <3>4 DEF Begin, TypeOK
    <3>6. UNCHANGED <<vault, listed, todo, aim>>
      BY <2>4 DEF Begin
    <3>7. \A q \in Pass : q # p => pc'[q] = pc[q] /\ mode'[q] = mode[q]
      BY <2>0, <3>1, <3>2 DEF TypeOK
    <3>8. pc'[p] = "lock"
      BY <2>0, <3>2 DEF TypeOK
    <3>9. StillThere' /\ Targets'
      BY <2>0, <3>6, <3>7, <3>8 DEF StillThere, Targets, Listed
    <3>10. Harmless'
      BY <2>0, <3>7, <3>8 DEF Harmless, Destructive
    <3> QED BY <3>5, <3>9, <3>10 DEF Steady
  <2>5. ASSUME NEW p \in Pass, TakeLock(p) PROVE Steady'
    <3>1. pc' = [pc EXCEPT ![p] = "list"] /\ lock = Nobody /\ lock' = p
      BY <2>5 DEF TakeLock, Goto
    <3>2. pc' \in [Pass -> Steps] /\ \A q \in Pass : lock' = q <=> pc'[q] \notin {"idle", "lock"}
      BY <2>0, <3>1 DEF TypeOK, Steps
    <3>3. TypeOK'
      BY <2>0, <2>1, <2>5, <3>1, <3>2 DEF TakeLock, TypeOK
    <3>4. pc'[p] = "list" /\ \A q \in Pass : q # p => pc'[q] = pc[q]
      BY <2>0, <3>1 DEF TypeOK
    <3> QED BY <2>5, <3>3, <3>4, MoveSteady DEF TakeLock, Destructive
  <2>6. ASSUME NEW p \in Pass, SkipPass(p) \/ Release(p) PROVE Steady'
    BY <2>0, <2>6, ExitSteady DEF SkipPass, Release, TypeOK
  <2>7. ASSUME NEW p \in Pass, Crash(p) PROVE Steady'
    <3>1. failures' \in Nat
      BY <2>0, <2>7 DEF Crash, TypeOK
    <3> QED BY <2>7, <3>1, ExitSteady DEF Crash
  <2>8. ASSUME NEW p \in Pass, BuildDiff(p) PROVE Steady'
    <3>1. /\ pc[p] = "list" /\ pc' = [pc EXCEPT ![p] = FirstCategory(mode[p])]
          /\ listed' = [listed EXCEPT ![p] = vault] /\ since' = [since EXCEPT ![p] = last]
          /\ UNCHANGED <<vault, mode, todo, aim, lock>>
      BY <2>8 DEF BuildDiff, Goto
    <3>2. /\ FirstCategory(mode[p]) \in {"release", "reflect", "demote", "merge"}
          /\ mode[p] \in {"dry", "safe"} => FirstCategory(mode[p]) \notin Destructive
      BY <2>0 DEF TypeOK, Modes, FirstCategory, Destructive
    <3>3. /\ pc' \in [Pass -> Steps] /\ listed' \in [Pass -> [Id -> Memory \cup {None}]]
          /\ since' \in [Pass -> Nat]
      BY <2>0, <3>1, <3>2 DEF TypeOK, Steps
    <3>4. /\ pc'[p] = FirstCategory(mode[p]) /\ listed'[p] = vault
          /\ \A q \in Pass : q # p => pc'[q] = pc[q] /\ listed'[q] = listed[q]
      BY <2>0, <3>1 DEF TypeOK
    <3>5. \A q \in Pass : lock' = q <=> pc'[q] \notin {"idle", "lock"}
      BY <2>0, <3>1, <3>2, <3>4 DEF TypeOK
    <3>6. TypeOK'
      BY <2>0, <2>1, <2>8, <3>3, <3>5 DEF BuildDiff, TypeOK
    <3>7. StillThere'
      BY <2>0, <3>1, <3>4 DEF StillThere
    <3>8. \A i \in Listed(p) : i \in Listed(p)'
      BY <2>0, <3>4 DEF StillThere, Listed
    <3>9. \A q \in Pass : q # p => Listed(q)' = Listed(q)
      BY <3>4 DEF Listed
    <3>10. Targets'
      BY <2>0, <3>1, <3>2, <3>4, <3>8, <3>9 DEF Targets
    <3>11. Harmless'
      BY <2>0, <3>1, <3>2, <3>4 DEF Harmless
    <3> QED BY <3>6, <3>7, <3>10, <3>11 DEF Steady
  <2>9. ASSUME NEW p \in Pass, Demote(p) PROVE Steady'
    <3>1. PICK i \in Id : Deal(p, {i})
      BY <2>9 DEF Demote, Listed
    <3>2. made' \in [Pass -> Nat] /\ dealt' \in [Pass -> SUBSET (Id \cup (Id \X Id))]
      BY <2>0, <3>1, DealType
    <3>3. TypeOK'
      BY <2>0, <2>1, <2>9, <3>2 DEF Demote, TypeOK
    <3> QED BY <2>9, <3>3, StaySteady DEF Demote
  <2>10. ASSUME NEW p \in Pass, Judge(p) PROVE Steady'
    <3>1. PICK pair \in Pairs(p) : Deal(p, {pair})
      BY <2>10 DEF Judge
    <3>2. pair \in Id \X Id
      BY <3>1 DEF Pairs, Valid, Listed
    <3>3. made' \in [Pass -> Nat] /\ dealt' \in [Pass -> SUBSET (Id \cup (Id \X Id))]
      <4>1. {pair} \in SUBSET (Id \cup (Id \X Id))
        BY <3>2, Zenon
      <4> QED BY <2>0, <3>1, <4>1, DealType, Zenon
    <3>4. judged' \in BOOLEAN
      BY <2>10, Zenon DEF Judge
    <3>5. TypeOK'
      BY <2>0, <2>1, <2>10, <3>3, <3>4 DEF Judge, TypeOK
    <3> QED BY <2>10, <3>5, StaySteady DEF Judge
  <2>11. ASSUME NEW p \in Pass, Summarize(p) PROVE Steady'
    <3>1. PICK C \in SUBSET (Listed(p) \ dealt[p]), n \in Fresh :
             /\ Cardinality(C) >= ClusterMin
             /\ vault' = [vault EXCEPT ![n] = New({}, "pattern", clock)]
             /\ aim' = [aim EXCEPT ![p] = n] /\ todo' = [todo EXCEPT ![p] = C] /\ Deal(p, C)
      BY <2>11 DEF Summarize
    <3>2. C \in SUBSET Listed(p) /\ C \in SUBSET Id /\ n \in Id
      BY <3>1 DEF Listed, Id
    <3>3. C # {}
      <4>1. Cardinality({}) = 0
        BY FS_EmptySet
      <4>2. Cardinality(C) # 0
        BY <3>1
      <4> QED BY <4>1, <4>2, Zenon
    <3>4. vault'[n] # None
      <4>1. {} \in SUBSET Fact /\ "pattern" \in Kind /\ clock \in Nat
        BY <2>0 DEF Kind, TypeOK
      <4>2. New({}, "pattern", clock) # None
        BY <4>1, NewType
      <4> QED BY <2>0, <3>1, <3>2, <4>2 DEF TypeOK
    <3>5. pc[p] = "summarize" /\ pc' = [pc EXCEPT ![p] = "mark"] /\ UNCHANGED <<lock, listed, mode>>
      BY <2>11 DEF Summarize, Goto
    <3>6. made' \in [Pass -> Nat] /\ dealt' \in [Pass -> SUBSET (Id \cup (Id \X Id))]
      BY <2>0, <3>1, <3>2, DealType
    <3>7. /\ pc' \in [Pass -> Steps] /\ todo' \in [Pass -> SUBSET Id] /\ aim' \in [Pass -> Id \cup {None}]
          /\ \A q \in Pass : lock' = q <=> pc'[q] \notin {"idle", "lock"}
      BY <2>0, <3>1, <3>2, <3>5 DEF TypeOK, Steps
    <3>8. TypeOK'
      BY <2>0, <2>1, <2>11, <3>6, <3>7 DEF Summarize, TypeOK
    <3>9. pc'[p] = "mark" /\ pc[p] \in Destructive /\ \A q \in Pass : q # p => pc'[q] = pc[q]
      BY <2>0, <3>5 DEF TypeOK, Destructive
    <3> QED BY <3>1, <3>2, <3>3, <3>4, <3>5, <3>8, <3>9, ClusterSteady
  <2>12. ASSUME NEW p \in Pass, Mark(p) PROVE Steady'
    <3>1. Done(p, pc[p], "summarize") /\ pc[p] = "mark" /\ todo[p] # {}
      BY <2>12 DEF Mark
    <3>2. stale' \in BOOLEAN /\ failures' \in Nat
      BY <2>0, <2>12 DEF Mark, TypeOK
    <3> QED BY <2>12, <3>1, <3>2, DoneSteady DEF Mark
  <2>13. ASSUME NEW p \in Pass, MergeCluster(p) PROVE Steady'
    <3>1. PICK C \in SUBSET (Mergeable(p) \ dealt[p]), n \in Fresh :
             /\ \E S \in SUBSET C : /\ vault' = [vault EXCEPT ![n] = Canonical(p, C, S)]
                                  /\ todo' = [todo EXCEPT ![p] = S]
                                  /\ Goto(p, IF S = {} THEN "merge" ELSE "retire")
             /\ aim' = [aim EXCEPT ![p] = n] /\ Deal(p, C)
      BY <2>13 DEF MergeCluster
    <3>2. PICK S \in SUBSET C : /\ vault' = [vault EXCEPT ![n] = Canonical(p, C, S)]
                               /\ todo' = [todo EXCEPT ![p] = S]
                               /\ pc' = [pc EXCEPT ![p] = IF S = {} THEN "merge" ELSE "retire"]
      BY <3>1 DEF Goto
    <3>3. C \in SUBSET Listed(p) /\ C \in SUBSET Id /\ S \in SUBSET Listed(p) /\ S \in SUBSET Id /\ n \in Id
      BY <3>1, <3>2, ClusterListed DEF Listed, Id
    <3>4. vault'[n] # None
      <4>1. Canonical(p, C, S) # None
        BY <2>0, <3>2, <3>3, CanonicalType
      <4> QED BY <2>0, <3>2, <3>3, <4>1 DEF TypeOK
    <3>5. pc[p] = "merge" /\ UNCHANGED <<lock, listed, mode>> /\ clock' \in Nat
      BY <2>0, <2>13 DEF MergeCluster, TypeOK
    <3>6. made' \in [Pass -> Nat] /\ dealt' \in [Pass -> SUBSET (Id \cup (Id \X Id))]
      BY <2>0, <3>1, <3>3, DealType
    <3>7. /\ pc' \in [Pass -> Steps] /\ todo' \in [Pass -> SUBSET Id] /\ aim' \in [Pass -> Id \cup {None}]
          /\ \A q \in Pass : lock' = q <=> pc'[q] \notin {"idle", "lock"}
      BY <2>0, <3>1, <3>2, <3>3, <3>5 DEF TypeOK, Steps
    <3>8. TypeOK'
      BY <2>0, <2>1, <2>13, <3>5, <3>6, <3>7 DEF MergeCluster, TypeOK
    <3>9. /\ pc'[p] = (IF S = {} THEN "merge" ELSE "retire") /\ pc[p] \in Destructive
          /\ \A q \in Pass : q # p => pc'[q] = pc[q]
      BY <2>0, <3>2, <3>5 DEF TypeOK, Destructive
    <3>10. todo' = [todo EXCEPT ![p] = S] /\ aim' = [aim EXCEPT ![p] = n]
      BY <3>1, <3>2
    <3>11. pc'[p] # "replace" /\ (pc'[p] \in {"mark", "retire"} => S # {})
      BY <3>9
    <3> QED BY <3>3, <3>4, <3>5, <3>8, <3>9, <3>10, <3>11, ClusterSteady
  <2>14. ASSUME NEW p \in Pass, Retire(p) PROVE Steady'
    <3>1. Done(p, pc[p], "merge") /\ pc[p] = "retire" /\ todo[p] # {}
      BY <2>14 DEF Retire
    <3>2. stale' \in BOOLEAN
      <4>1. stale' = (stale \/ vault[Member(p)].says # listed[p][Member(p)].says)
        BY <2>14 DEF Retire
      <4> QED BY <4>1, Zenon
    <3>3. failures' \in Nat
      BY <2>0, <2>14 DEF Retire, TypeOK
    <3> QED BY <2>14, <3>1, <3>2, <3>3, DoneSteady DEF Retire
  <2>15. ASSUME NEW p \in Pass, PassOver(p) PROVE Steady'
    <3>1. PICK category \in {"summarize", "merge"} : Done(p, pc[p], category)
      BY <2>15 DEF PassOver
    <3>2. pc[p] \in {"mark", "retire"} /\ todo[p] # {}
      BY <2>15 DEF PassOver
    <3>3. stale' \in BOOLEAN /\ failures' \in Nat
      BY <2>0, <2>15 DEF PassOver, TypeOK
    <3> QED BY <2>15, <3>1, <3>2, <3>3, DoneSteady DEF PassOver
  <2>16. ASSUME NEW p \in Pass, Reflect(p) PROVE Steady'
    <3>1. reflected' = [e \in Episode |-> IF e \in Recent(p) THEN reflected[e] \cup {turn[p]} ELSE reflected[e]]
      BY <2>16 DEF Reflect
    <3>2. reflected' \in [Episode -> SUBSET Nat]
      BY <2>0, <3>1 DEF TypeOK
    <3>3. TypeOK'
      BY <2>0, <2>1, <2>16, <3>2 DEF Reflect, TypeOK
    <3> QED BY <2>16, <3>3, StaySteady DEF Reflect
  <2>17. ASSUME NEW p \in Pass, CheckHash(p) PROVE Steady'
    <3>1. PICK i \in Rewritable(p) : aim' = [aim EXCEPT ![p] = i] /\ Deal(p, {i})
      BY <2>17 DEF CheckHash
    <3>2. i \in Listed(p) /\ i \in Id
      BY <3>1, ClusterListed DEF Listed
    <3>3. made' \in [Pass -> Nat] /\ dealt' \in [Pass -> SUBSET (Id \cup (Id \X Id))]
      BY <2>0, <3>1, <3>2, DealType
    <3>4. pc[p] = "rewrite" /\ pc' = [pc EXCEPT ![p] = "replace"] /\ UNCHANGED <<vault, lock, listed, mode, todo>>
      BY <2>17 DEF CheckHash, Goto
    <3>5. /\ pc' \in [Pass -> Steps] /\ aim' \in [Pass -> Id \cup {None}]
          /\ \A q \in Pass : lock' = q <=> pc'[q] \notin {"idle", "lock"}
      BY <2>0, <3>1, <3>2, <3>4 DEF TypeOK, Steps
    <3>6. TypeOK'
      BY <2>0, <2>1, <2>17, <3>3, <3>5 DEF CheckHash, TypeOK
    <3>7. /\ pc'[p] = "replace" /\ aim'[p] = i
          /\ \A q \in Pass : q # p => pc'[q] = pc[q] /\ aim'[q] = aim[q]
      BY <2>0, <3>1, <3>4 DEF TypeOK
    <3>8. StillThere' /\ Targets'
      BY <2>0, <3>2, <3>4, <3>7 DEF StillThere, Targets, Listed
    <3>9. Harmless'
      BY <2>0, <3>4, <3>7 DEF Harmless, Destructive
    <3> QED BY <3>6, <3>8, <3>9 DEF Steady
  <2>18. ASSUME NEW p \in Pass, RewriteTense(p) PROVE Steady'
    <3>1. pc[p] = "replace" /\ pc' = [pc EXCEPT ![p] = "rewrite"] /\ UNCHANGED <<lock, listed, mode, todo, aim>>
      BY <2>18 DEF RewriteTense, Goto
    <3>2. stale' \in BOOLEAN
      <4>1. stale' = (stale \/ vault[aim[p]].says # listed[p][aim[p]].says)
        BY <2>18 DEF RewriteTense
      <4> QED BY <4>1, Zenon
    <3>3. pc' \in [Pass -> Steps] /\ \A q \in Pass : lock' = q <=> pc'[q] \notin {"idle", "lock"}
      BY <2>0, <3>1 DEF TypeOK, Steps
    <3>4. TypeOK'
      BY <2>0, <2>1, <2>18, <3>2, <3>3 DEF RewriteTense, TypeOK
    <3>5. pc'[p] = "rewrite" /\ \A q \in Pass : q # p => pc'[q] = pc[q]
      BY <2>0, <3>1 DEF TypeOK
    <3> QED BY <3>1, <3>4, <3>5, MoveSteady DEF Destructive
  <2>19. ASSUME NEW p \in Pass, Advance(p) PROVE Steady'
    <3>1. /\ pc[p] \in {"demote", "judge", "summarize", "merge", "reflect", "rewrite"}
          /\ pc' = [pc EXCEPT ![p] = NextCategory(p)] /\ dealt' = [dealt EXCEPT ![p] = {}]
          /\ aim' = [aim EXCEPT ![p] = None] /\ UNCHANGED <<lock, listed, mode, todo>>
      BY <2>19 DEF Advance, Goto
    <3>2. /\ NextCategory(p) \in {"judge", "summarize", "merge", "release", "reflect", "rewrite", "stamp"}
          /\ mode[p] \in {"dry", "safe"} => NextCategory(p) \notin Destructive
      BY <2>0, <3>1 DEF NextCategory, Harmless, Destructive
    <3>3. /\ pc' \in [Pass -> Steps] /\ aim' \in [Pass -> Id \cup {None}]
          /\ dealt' \in [Pass -> SUBSET (Id \cup (Id \X Id))]
      BY <2>0, <3>1, <3>2 DEF TypeOK, Steps
    <3>4. /\ pc'[p] = NextCategory(p)
          /\ \A q \in Pass : q # p => pc'[q] = pc[q] /\ aim'[q] = aim[q]
      BY <2>0, <3>1 DEF TypeOK
    <3>5. \A q \in Pass : lock' = q <=> pc'[q] \notin {"idle", "lock"}
      BY <2>0, <3>1, <3>2, <3>4 DEF TypeOK
    <3>6. TypeOK'
      BY <2>0, <2>1, <2>19, <3>3, <3>5 DEF Advance, TypeOK
    <3> QED BY <3>1, <3>2, <3>4, <3>6, MoveSteady
  <2>20. ASSUME NEW p \in Pass, WriteLastDreamTs(p) \/ LoseLastDreamTs(p) PROVE Steady'
    <3>1. /\ pc[p] = "stamp" /\ pc' = [pc EXCEPT ![p] = "release"]
          /\ UNCHANGED <<lock, listed, mode, todo, aim>>
      BY <2>20 DEF WriteLastDreamTs, LoseLastDreamTs, Goto
    <3>2. last' \in Nat /\ clock' \in Nat /\ failures' \in Nat
      BY <2>0, <2>20 DEF WriteLastDreamTs, LoseLastDreamTs, TypeOK
    <3>3. pc' \in [Pass -> Steps] /\ \A q \in Pass : lock' = q <=> pc'[q] \notin {"idle", "lock"}
      BY <2>0, <3>1 DEF TypeOK, Steps
    <3>4. TypeOK'
      BY <2>0, <2>1, <2>20, <3>2, <3>3 DEF WriteLastDreamTs, LoseLastDreamTs, TypeOK
    <3>5. pc'[p] = "release" /\ \A q \in Pass : q # p => pc'[q] = pc[q]
      BY <2>0, <3>1 DEF TypeOK
    <3> QED BY <3>1, <3>4, <3>5, MoveSteady DEF Destructive
  <2>21. CASE UNCHANGED vars
    <3>1. TypeOK'
      BY <2>0, <2>21 DEF vars, TypeOK
    <3> QED BY <2>21, <3>1, StaySteady DEF vars
  <2> QED BY <2>2, <2>3, <2>4, <2>5, <2>6, <2>7, <2>8, <2>9, <2>10, <2>11, <2>12, <2>13, <2>14,
             <2>15, <2>16, <2>17, <2>18, <2>19, <2>20, <2>21, <2>22 DEF Next, Dream, Apply
<1> QED BY <1>1, <1>2, PTL DEF Spec

\* Type correctness.
THEOREM TypeCorrect == Spec => []TypeOK
BY SteadyAlways, PTL DEF Steady

\* No pass changes a protected memory.
THEOREM PinnedSafe == Spec => []PinnedKept
<1>1. Init => PinnedKept
  <2>1. Pinned \subseteq Id
    BY DEF Id
  <2> QED BY <2>1 DEF Init, PinnedKept
<1>2. Steady /\ PinnedKept /\ [Next]_vars => PinnedKept'
  <2> SUFFICES ASSUME Steady, PinnedKept, [Next]_vars, NEW i \in Pinned
               PROVE  vault'[i] = New({i}, "mined", 0)
    BY DEF PinnedKept, New
  <2>1. vault[i] = New({i}, "mined", 0)
    BY DEF PinnedKept
  <2>2. {i} \in SUBSET Fact /\ "mined" \in Kind /\ 0 \in Nat
    BY DEF Fact, Kind
  <2>3. vault[i] # None
    BY <2>1, <2>2, NewType
  <2> QED BY <2>1, <2>3, VaultGrows
<1> QED BY <1>1, <1>2, SteadyAlways, PTL DEF Spec

\* An invalidated memory names a memory that has a file.
THEOREM SuccessorHasFile == Spec => []SuccessorSaved
<1>1. Init => SuccessorSaved
  <2>1. \A i \in Id : New({i}, "mined", 0).valid
    BY DEF New
  <2> QED BY <2>1 DEF Init, SuccessorSaved
<1>2. Steady /\ SuccessorSaved /\ [Next]_vars => SuccessorSaved'
  <2> SUFFICES ASSUME Steady, SuccessorSaved, [Next]_vars, NEW i \in Id, vault'[i] # None, ~vault'[i].valid
               PROVE  vault'[i].by \in Id /\ vault'[vault'[i].by] # None
    BY DEF SuccessorSaved
  <2>0. TypeOK
    BY DEF Steady
  <2>1. \A j \in Id : vault[j] # None => vault'[j] # None
    BY VaultGrows
  <2>2. CASE UNCHANGED vault
    BY <2>2 DEF SuccessorSaved
  <2>3. CASE SavesNew
    <3>1. PICK n \in Episode \cup Fresh, m \in Memory :
             vault[n] = None /\ vault' = [vault EXCEPT ![n] = m] /\ m.valid
      BY <2>3 DEF SavesNew
    <3>2. n \in Id
      BY DEF Id
    <3>3. i # n /\ vault'[i] = vault[i]
      BY <2>0, <3>1, <3>2 DEF TypeOK
    <3> QED BY <2>1, <3>3 DEF SuccessorSaved
  <2>4. CASE \E k \in Id \ Pinned, m \in Memory : Changes(k, m)
    <3>1. PICK k \in Id \ Pinned, m \in Memory : Changes(k, m)
      BY <2>4
    <3>2. vault[k] # None /\ vault' = [vault EXCEPT ![k] = m]
      BY <3>1 DEF Changes
    <3>3. CASE i # k
      <4>1. vault'[i] = vault[i]
        BY <2>0, <3>2, <3>3 DEF TypeOK
      <4> QED BY <2>1, <4>1 DEF SuccessorSaved
    <3>4. CASE i = k
      <4>1. vault'[i] = m
        BY <2>0, <3>2, <3>4 DEF TypeOK
      <4>2. \/ m.by \in Id /\ vault[m.by] # None
            \/ ~vault[i].valid /\ m.by = vault[i].by
        BY <3>1, <3>4, <4>1 DEF Changes
      <4>3. m.by \in Id /\ vault[m.by] # None
        BY <3>2, <3>4, <4>2 DEF SuccessorSaved
      <4> QED BY <2>1, <4>1, <4>3
    <3> QED BY <3>3, <3>4
  <2> QED BY <2>2, <2>3, <2>4, VaultStep
<1> QED BY <1>1, <1>2, SteadyAlways, PTL DEF Spec

\* What nobody reviews only adds memories and rewords some.
THEOREM SafeAutoAdditive == Spec => SafeAutoAdds
<1>1. ASSUME Steady, NEW p \in Pass, mode[p] \in {"dry", "safe"}, Dream(p), NEW i \in Id
      PROVE  Undisturbed(i)
  <2>0. TypeOK /\ Harmless /\ pc[p] \notin Destructive
    BY <1>1 DEF Steady, Harmless
  <2>1. CASE Reflect(p)
    <3>1. PICK n \in Fresh : vault[n] = None /\ vault' = [vault EXCEPT ![n] = New({}, "insight", clock)]
      BY <2>1 DEF Reflect
    <3>2. vault[i] # None => vault'[i] = vault[i]
      BY <2>0, <3>1 DEF TypeOK
    <3>3. vault[i] # None => vault[i] \in Memory
      BY <2>0 DEF TypeOK
    <3> QED BY <3>2, <3>3 DEF Undisturbed, Memory
  <2>2. CASE RewriteTense(p)
    <3>1. vault' = [vault EXCEPT ![aim[p]].says = listed[p][aim[p]].says]
      BY <2>2 DEF RewriteTense
    <3>2. vault[i] # None => vault[i] \in Memory
      BY <2>0 DEF TypeOK
    <3>3. CASE i = aim[p]
      <4>1. vault'[i] = [vault[i] EXCEPT !.says = listed[p][aim[p]].says]
        BY <2>0, <3>1, <3>3 DEF TypeOK
      <4> QED BY <3>2, <4>1 DEF Undisturbed, Memory
    <3>4. CASE i # aim[p]
      <4>1. vault'[i] = vault[i]
        BY <2>0, <3>1, <3>4 DEF TypeOK
      <4> QED BY <3>2, <4>1 DEF Undisturbed, Memory
    <3> QED BY <3>3, <3>4
  <2>3. CASE ~Reflect(p) /\ ~RewriteTense(p)
    <3>1. UNCHANGED vault
      BY <1>1, <2>0, <2>3 DEF Dream, Apply, Begin, TakeLock, SkipPass, BuildDiff, Demote, Judge,
         Summarize, Mark, MergeCluster, Retire, PassOver, CheckHash, Advance, WriteLastDreamTs,
         LoseLastDreamTs, Release, Destructive
    <3>2. vault[i] # None => vault[i] \in Memory
      BY <2>0 DEF TypeOK
    <3> QED BY <3>1, <3>2 DEF Undisturbed, Memory
  <2> QED BY <2>1, <2>2, <2>3
<1>2. Steady /\ [Next]_vars =>
        [\A p \in Pass : mode[p] \in {"dry", "safe"} /\ Dream(p) => \A i \in Id : Undisturbed(i)]_vars
  BY <1>1
<1> QED BY <1>2, SteadyAlways, PTL DEF Spec, SafeAutoAdds

\* While a cluster is retired, its memory is valid and says what is still to go.
Covering ==
  \A p \in Pass : pc[p] = "retire" =>
    /\ vault[aim[p]].valid /\ aim[p] \notin todo[p]
    /\ \A i \in todo[p] : listed[p][i].says \subseteq vault[aim[p]].says

\* One pass at a time has listed the vault.
LEMMA HolderAlone ==
  ASSUME TypeOK, NEW p \in Pass, NEW q \in Pass,
         pc[p] \notin {"idle", "lock"}, pc[q] \notin {"idle", "lock"}
  PROVE  p = q
BY DEF TypeOK

LEMMA CoveringStep ==
  ASSUME Steady, Covering, [Next]_vars
  PROVE  Covering'
<1>0. TypeOK /\ StillThere /\ Targets
  BY DEF Steady
<1>1. \A q \in Pass : pc[q] = "retire" => aim[q] \in Fresh /\ aim[q] \in Id /\ vault[aim[q]] \in Memory
  BY <1>0 DEF Targets, TypeOK, Id
<1>2. ASSUME UNCHANGED vault,
             \A q \in Pass : pc'[q] = "retire" =>
               /\ pc[q] = "retire" /\ aim'[q] = aim[q] /\ listed'[q] = listed[q]
               /\ todo'[q] \subseteq todo[q]
      PROVE  Covering'
  BY <1>2 DEF Covering
<1>3. ASSUME NEW e \in Episode, SaveEpisode(e) PROVE Covering'
  <2>1. vault' = [vault EXCEPT ![e] = New({e}, "episode", clock + 1)] /\ UNCHANGED <<pc, aim, todo, listed>>
    BY <1>3 DEF SaveEpisode
  <2>2. \A q \in Pass : pc[q] = "retire" => vault'[aim[q]] = vault[aim[q]]
    BY <1>0, <1>1, <2>1 DEF TypeOK
  <2> QED BY <2>1, <2>2 DEF Covering
<1>13. ASSUME NEW e \in Episode, NEW d \in Later, SaveEpisodeAgain(e, d) PROVE Covering'
  <2>1. /\ vault' = [vault EXCEPT ![e] = New({d}, "episode", vault[e].created)]
        /\ UNCHANGED <<pc, aim, todo, listed>>
    BY <1>13 DEF SaveEpisodeAgain
  <2>2. \A q \in Pass : pc[q] = "retire" => vault'[aim[q]] = vault[aim[q]]
    BY <1>0, <1>1, <2>1 DEF TypeOK
  <2> QED BY <2>1, <2>2 DEF Covering
<1>4. ASSUME NEW f \in News, MergeNews(f) PROVE Covering'
  <2>1. UNCHANGED <<pc, aim, todo, listed>>
    BY <1>4 DEF MergeNews
  <2>2. PICK i \in Id : vault' = [vault EXCEPT ![i].says = @ \cup {f}]
    BY <1>4 DEF MergeNews
  <2>3. ASSUME NEW q \in Pass, pc[q] = "retire"
        PROVE  vault'[aim[q]].valid = vault[aim[q]].valid /\ vault[aim[q]].says \subseteq vault'[aim[q]].says
    <3>1. CASE aim[q] = i
      <4>1. vault'[aim[q]] = [vault[aim[q]] EXCEPT !.says = @ \cup {f}]
        BY <1>0, <2>2, <3>1 DEF TypeOK
      <4>2. vault[aim[q]] \in Memory
        BY <1>1, <2>3
      <4> QED BY <4>1, <4>2 DEF Memory
    <3>2. CASE aim[q] # i
      <4>1. vault'[aim[q]] = vault[aim[q]]
        BY <1>0, <1>1, <2>2, <2>3, <3>2 DEF TypeOK
      <4> QED BY <4>1
    <3> QED BY <3>1, <3>2
  <2> QED BY <2>1, <2>3 DEF Covering
<1>5. ASSUME NEW p \in Pass, \/ Begin(p) \/ TakeLock(p) \/ CheckHash(p) \/ Advance(p)
                             \/ WriteLastDreamTs(p) \/ LoseLastDreamTs(p)
      PROVE  Covering'
  <2>1. UNCHANGED <<vault, listed, todo>>
    BY <1>5 DEF Begin, TakeLock, CheckHash, Advance, WriteLastDreamTs, LoseLastDreamTs
  <2>2. \A q \in Pass : pc'[q] = "retire" => pc[q] = "retire" /\ q # p
    BY <1>0, <1>5 DEF Begin, TakeLock, CheckHash, Advance, NextCategory, WriteLastDreamTs,
                      LoseLastDreamTs, Goto, TypeOK
  <2>3. \A q \in Pass : q # p => aim'[q] = aim[q]
    BY <1>0, <1>5 DEF Begin, TakeLock, CheckHash, Advance, WriteLastDreamTs, LoseLastDreamTs, TypeOK
  <2> QED BY <1>2, <2>1, <2>2, <2>3
<1>6. ASSUME NEW p \in Pass, BuildDiff(p) PROVE Covering'
  <2>1. /\ UNCHANGED <<vault, todo, aim>> /\ listed' = [listed EXCEPT ![p] = vault]
        /\ pc' = [pc EXCEPT ![p] = FirstCategory(mode[p])] /\ FirstCategory(mode[p]) # "retire"
    BY <1>0, <1>6 DEF BuildDiff, Goto, FirstCategory, TypeOK, Modes
  <2>2. \A q \in Pass : pc'[q] = "retire" => pc[q] = "retire" /\ listed'[q] = listed[q]
    BY <1>0, <2>1 DEF TypeOK
  <2> QED BY <1>2, <2>1, <2>2
<1>7. ASSUME NEW p \in Pass, SkipPass(p) \/ Release(p) \/ Crash(p) PROVE Covering'
  <2>1. Exit(p) /\ UNCHANGED vault
    BY <1>7 DEF SkipPass, Release, Crash
  <2>2. pc'[p] = "idle"
    BY <1>0, <2>1 DEF Exit, Goto, TypeOK
  <2>3. \A q \in Pass : q # p => /\ pc'[q] = pc[q] /\ aim'[q] = aim[q] /\ listed'[q] = listed[q]
                              /\ todo'[q] = todo[q]
    BY <1>0, <2>1 DEF Exit, Goto, TypeOK
  <2> QED BY <1>2, <2>1, <2>2, <2>3
<1>8. ASSUME NEW p \in Pass, \/ Demote(p) \/ Judge(p) \/ Summarize(p) \/ Mark(p)
                             \/ Reflect(p) \/ RewriteTense(p)
      PROVE  Covering'
  <2>1. pc[p] \notin {"idle", "lock", "retire"}
    BY <1>8 DEF Demote, Judge, Summarize, Mark, Reflect, RewriteTense
  <2>2. \A q \in Pass : pc[q] # "retire"
    BY <1>0, <2>1, HolderAlone
  <2>3. \A q \in Pass : pc'[q] # "retire"
    BY <1>0, <1>8, <2>2 DEF Demote, Judge, Summarize, Mark, Done, Reflect, RewriteTense, Goto, TypeOK
  <2> QED BY <2>3 DEF Covering
<1>9. ASSUME NEW p \in Pass, MergeCluster(p) PROVE Covering'
  <2>1. PICK C \in SUBSET (Mergeable(p) \ dealt[p]), n \in Fresh :
           /\ vault[n] = None
           /\ \E S \in SUBSET C : /\ vault' = [vault EXCEPT ![n] = Canonical(p, C, S)]
                                /\ todo' = [todo EXCEPT ![p] = S]
           /\ aim' = [aim EXCEPT ![p] = n]
    BY <1>9 DEF MergeCluster
  <2>2. PICK S \in SUBSET C : /\ vault' = [vault EXCEPT ![n] = Canonical(p, C, S)]
                             /\ todo' = [todo EXCEPT ![p] = S]
    BY <2>1
  <2>3. C \in SUBSET Listed(p) /\ n \in Id
    BY <2>1, ClusterListed DEF Id
  <2>4. Canonical(p, C, S).valid /\ \A i \in S : listed[p][i].says \subseteq Canonical(p, C, S).says
    BY <1>0, <2>3, CanonicalType
  <2>5. vault'[n] = Canonical(p, C, S) /\ todo'[p] = S /\ aim'[p] = n
    BY <1>0, <2>1, <2>2, <2>3 DEF TypeOK
  <2>6. n \notin S
    BY <1>0, <2>1, <2>3 DEF StillThere, Listed
  <2>7. UNCHANGED listed /\ pc[p] = "merge"
    BY <1>9 DEF MergeCluster
  <2>8. \A q \in Pass : q # p => pc[q] # "retire" /\ pc'[q] = pc[q]
    <3>1. \A q \in Pass : q # p => pc'[q] = pc[q]
      BY <1>0, <1>9 DEF MergeCluster, Goto, TypeOK
    <3> QED BY <1>0, <2>7, <3>1, HolderAlone
  <2>9. \A q \in Pass : pc'[q] = "retire" => q = p
    BY <2>8
  <2> QED BY <2>4, <2>5, <2>6, <2>7, <2>9 DEF Covering
<1>10. ASSUME NEW p \in Pass, Retire(p) PROVE Covering'
  <2>1. /\ pc[p] = "retire" /\ todo[p] # {} /\ UNCHANGED <<listed, aim>>
        /\ vault' = [vault EXCEPT ![Member(p)].valid = FALSE, ![Member(p)].by = aim[p]]
        /\ todo' = [todo EXCEPT ![p] = todo[p] \ {Member(p)}]
    BY <1>10 DEF Retire, Done
  <2>2. Member(p) \in todo[p]
    BY <2>1, MemberIn
  <2>3. aim[p] # Member(p) /\ vault'[aim[p]] = vault[aim[p]]
    BY <1>0, <1>1, <2>1, <2>2 DEF Covering, TypeOK
  <2>4. todo'[p] \subseteq todo[p]
    BY <1>0, <2>1 DEF TypeOK
  <2>5. \A q \in Pass : pc'[q] = "retire" => q = p
    <3>1. \A q \in Pass : q # p => pc'[q] = pc[q]
      BY <1>0, <1>10 DEF Retire, Done, Goto, TypeOK
    <3> QED BY <1>0, <2>1, <3>1, HolderAlone
  <2> QED BY <2>1, <2>3, <2>4, <2>5 DEF Covering
<1>11. ASSUME NEW p \in Pass, PassOver(p) PROVE Covering'
  <2>1. UNCHANGED <<vault, listed, aim>> /\ todo' = [todo EXCEPT ![p] = todo[p] \ {Member(p)}]
    BY <1>11 DEF PassOver, Done
  <2>2. \A q \in Pass : todo'[q] \subseteq todo[q]
    BY <1>0, <2>1 DEF TypeOK
  <2>3. \A q \in Pass : pc'[q] = "retire" => pc[q] = "retire"
    BY <1>0, <1>11 DEF PassOver, Done, Goto, TypeOK
  <2> QED BY <1>2, <2>1, <2>2, <2>3
<1>12. CASE UNCHANGED vars
  BY <1>2, <1>12 DEF vars
<1> QED BY <1>3, <1>4, <1>5, <1>6, <1>7, <1>8, <1>9, <1>10, <1>11, <1>12, <1>13 DEF Next, Dream, Apply

\* A valid memory stays valid and goes on saying what it says.
Keeps ==
  \A i \in Id : vault[i] # None /\ vault[i].valid =>
    vault'[i] # None /\ vault'[i].valid /\ vault[i].says \subseteq vault'[i].says

\* To change one memory in nothing but by adding to it keeps every memory.
LEMMA ChangeKeeps ==
  ASSUME TypeOK, NEW i \in Id, NEW m \in Memory, vault' = [vault EXCEPT ![i] = m],
         vault[i] # None => (vault[i].valid => m.valid) /\ vault[i].says \subseteq m.says
  PROVE  Keeps
BY DEF Keeps, TypeOK

\* Every step keeps every memory, but those that decide a contradiction, retire a
\* member or replace a text.
LEMMA StepKeeps ==
  ASSUME Steady, [Next]_vars, \A p \in Pass : ~Judge(p) /\ ~Retire(p) /\ ~RewriteTense(p),
         \A e \in Episode, d \in Later : ~SaveEpisodeAgain(e, d)
  PROVE  Keeps
<1>0. TypeOK /\ StillThere /\ Targets
  BY DEF Steady
<1>1. \A i \in Id : vault[i] # None => vault[i] \in Memory
  BY <1>0 DEF TypeOK
<1>2. ASSUME SavesNew PROVE Keeps
  <2>1. PICK n \in Episode \cup Fresh, m \in Memory : vault[n] = None /\ vault' = [vault EXCEPT ![n] = m]
    BY <1>2 DEF SavesNew
  <2>2. n \in Id
    BY DEF Id
  <2> QED BY <1>0, <2>1, <2>2, ChangeKeeps
<1>3. ASSUME UNCHANGED vault PROVE Keeps
  BY <1>1, <1>3 DEF Keeps
<1>4. ASSUME NEW f \in News, MergeNews(f) PROVE Keeps
  <2>1. PICK i \in Id : vault[i] # None /\ vault' = [vault EXCEPT ![i].says = @ \cup {f}]
    BY <1>4 DEF MergeNews
  <2> DEFINE m == [vault[i] EXCEPT !.says = @ \cup {f}]
  <2>2. vault[i] \in Memory /\ f \in Fact
    BY <1>1, <2>1 DEF Fact
  <2>3. m \in Memory /\ m.valid = vault[i].valid /\ vault[i].says \subseteq m.says
    BY <2>2 DEF Memory
  <2>4. vault' = [vault EXCEPT ![i] = m]
    BY <2>1
  <2> HIDE DEF m
  <2> QED BY <1>0, <2>3, <2>4, ChangeKeeps
<1>5. ASSUME NEW p \in Pass, Demote(p) PROVE Keeps
  <2>1. PICK i \in Listed(p) : vault' = [vault EXCEPT ![i].demoted = TRUE]
    BY <1>5 DEF Demote
  <2> DEFINE m == [vault[i] EXCEPT !.demoted = TRUE]
  <2>2. i \in Id /\ vault[i] \in Memory
    BY <1>0, <1>1 DEF Listed, StillThere
  <2>3. m \in Memory /\ m.valid = vault[i].valid /\ vault[i].says \subseteq m.says
    BY <2>2 DEF Memory
  <2>4. vault' = [vault EXCEPT ![i] = m]
    BY <2>1
  <2> HIDE DEF m
  <2> QED BY <1>0, <2>2, <2>3, <2>4, ChangeKeeps
<1>6. ASSUME NEW p \in Pass, Mark(p) PROVE Keeps
  <2>1. pc[p] = "mark" /\ todo[p] # {} /\ vault' = [vault EXCEPT ![Member(p)].cluster = aim[p]]
    BY <1>6 DEF Mark
  <2> DEFINE m == [vault[Member(p)] EXCEPT !.cluster = aim[p]]
  <2>2. Member(p) \in Id /\ vault[Member(p)] \in Memory /\ aim[p] \in Id
    BY <1>0, <1>1, <2>1, MemberIn DEF Listed, StillThere, Targets, Id
  <2>3. m \in Memory /\ m.valid = vault[Member(p)].valid /\ vault[Member(p)].says \subseteq m.says
    BY <2>2 DEF Memory
  <2>4. vault' = [vault EXCEPT ![Member(p)] = m]
    BY <2>1
  <2> HIDE DEF m
  <2> QED BY <1>0, <2>2, <2>3, <2>4, ChangeKeeps
<1>7. ASSUME NEW e \in Episode, SaveEpisode(e) PROVE Keeps
  <2>1. vault[e] = None /\ vault' = [vault EXCEPT ![e] = New({e}, "episode", clock + 1)]
    BY <1>7 DEF SaveEpisode
  <2> QED BY <1>0, <1>1, <2>1 DEF Keeps, TypeOK
<1>8. ASSUME NEW p \in Pass, Summarize(p) \/ MergeCluster(p) \/ Reflect(p) PROVE Keeps
  <2>1. \E n \in Fresh : vault[n] = None /\ \A i \in Id : i # n => vault'[i] = vault[i]
    BY <1>0, <1>8 DEF Summarize, MergeCluster, Reflect, TypeOK
  <2> QED BY <1>1, <2>1 DEF Keeps
<1>9. ASSUME NEW p \in Pass, \/ Begin(p) \/ TakeLock(p) \/ SkipPass(p) \/ BuildDiff(p)
                             \/ PassOver(p) \/ CheckHash(p) \/ Advance(p)
                             \/ WriteLastDreamTs(p) \/ LoseLastDreamTs(p) \/ Release(p) \/ Crash(p)
      PROVE  Keeps
  BY <1>3, <1>9 DEF Begin, TakeLock, SkipPass, BuildDiff, PassOver, CheckHash, Advance,
               WriteLastDreamTs, LoseLastDreamTs, Release, Crash
<1>10. CASE UNCHANGED vars
  BY <1>3, <1>10 DEF vars
<1> QED BY <1>4, <1>5, <1>6, <1>7, <1>8, <1>9, <1>10 DEF Next, Dream, Apply

\* An episode has no file before it is saved.
LEMMA EpisodeSaved ==
  ASSUME Steady, [Next]_vars, NEW e \in Episode, vault[e] = None, ~SaveEpisode(e)
  PROVE  vault'[e] = None
<1>0. TypeOK
  BY DEF Steady
<1>1. e \in Id /\ e \notin Fresh
  BY DEF Id
<1>2. CASE \E p \in Pass : Summarize(p) \/ MergeCluster(p) \/ Reflect(p)
  <2>1. \E n \in Fresh : \A i \in Id : i # n => vault'[i] = vault[i]
    BY <1>0, <1>2 DEF Summarize, MergeCluster, Reflect, TypeOK
  <2> QED BY <1>1, <2>1
<1>3. CASE \E p \in Pass : Demote(p) \/ Judge(p) \/ Mark(p) \/ Retire(p) \/ RewriteTense(p)
  <2>1. \E i \in Id \ Pinned, m \in Memory : Changes(i, m)
    BY <1>3, ChangeStep
  <2> QED BY <1>0, <1>1, <2>1 DEF Changes, TypeOK
<1>4. CASE UNCHANGED vault
  BY <1>4
<1>5. ASSUME NEW p \in Pass, \/ Begin(p) \/ TakeLock(p) \/ SkipPass(p) \/ BuildDiff(p)
                             \/ PassOver(p) \/ CheckHash(p) \/ Advance(p)
                             \/ WriteLastDreamTs(p) \/ LoseLastDreamTs(p) \/ Release(p) \/ Crash(p)
      PROVE  UNCHANGED vault
  BY <1>5 DEF Begin, TakeLock, SkipPass, BuildDiff, PassOver, CheckHash, Advance,
              WriteLastDreamTs, LoseLastDreamTs, Release, Crash
<1>6. CASE UNCHANGED vars
  BY <1>4, <1>6 DEF vars
<1>7. ASSUME NEW d \in Episode, SaveEpisode(d) PROVE vault'[e] = None
  BY <1>0, <1>1, <1>7 DEF SaveEpisode, TypeOK
<1>9. ASSUME NEW x \in Episode, NEW d \in Later, SaveEpisodeAgain(x, d) PROVE vault'[e] = None
  BY <1>0, <1>1, <1>9 DEF SaveEpisodeAgain, TypeOK
<1>8. ASSUME NEW f \in News, MergeNews(f) PROVE vault'[e] = None
  <2>1. PICK i \in Id : vault[i] # None /\ vault' = [vault EXCEPT ![i].says = @ \cup {f}]
    BY <1>8 DEF MergeNews
  <2> QED BY <1>0, <1>1, <2>1 DEF TypeOK
<1> QED BY <1>2, <1>3, <1>4, <1>5, <1>6, <1>7, <1>8, <1>9 DEF Next, Dream, Apply

\* Only the miners save what is new, and replace what an episode said.
LEMMA SavedStep ==
  ASSUME Steady, [Next]_vars, \A e \in Episode : ~SaveEpisode(e), \A f \in News : ~MergeNews(f),
         \A e \in Episode, d \in Later : ~SaveEpisodeAgain(e, d)
  PROVE  Saved' \subseteq Saved /\ dropped' = dropped
<1>0. TypeOK
  BY DEF Steady
<1>1. UNCHANGED <<told, dropped>>
  <2>1. ASSUME NEW p \in Pass, Dream(p) \/ Crash(p) PROVE UNCHANGED <<told, dropped>>
    <3>1. CASE Begin(p) \/ TakeLock(p) \/ SkipPass(p) \/ BuildDiff(p)
      BY <3>1 DEF Begin, TakeLock, SkipPass, BuildDiff, history
    <3>2. CASE Demote(p) \/ Judge(p) \/ Summarize(p) \/ Mark(p)
      BY <3>2 DEF Demote, Judge, Summarize, Mark, history
    <3>3. CASE MergeCluster(p) \/ Retire(p) \/ PassOver(p) \/ Reflect(p)
      BY <3>3 DEF MergeCluster, Retire, PassOver, Reflect, history
    <3>4. CASE CheckHash(p) \/ RewriteTense(p) \/ Advance(p)
      BY <3>4 DEF CheckHash, RewriteTense, Advance, history
    <3>5. CASE WriteLastDreamTs(p) \/ LoseLastDreamTs(p) \/ Release(p) \/ Crash(p)
      BY <3>5 DEF WriteLastDreamTs, LoseLastDreamTs, Release, Crash, history
    <3> QED BY <2>1, <3>1, <3>2, <3>3, <3>4, <3>5 DEF Dream, Apply
  <2> QED BY <2>1 DEF Next, vars
<1>2. \A e \in Episode : vault[e] = None => vault'[e] = None
  BY EpisodeSaved
<1> QED BY <1>1, <1>2 DEF Saved

\* Merging loses no fact.
Said(f) == \E i \in Id : vault[i] # None /\ vault[i].valid /\ f \in vault[i].says

LEMMA KeepsSaid ==
  ASSUME Keeps, NEW f, Said(f)
  PROVE  Said(f)'
BY DEF Keeps, Said

\* A fact that was saved is said by a valid memory, but for those a later delta wrote out of its
\* episode, as long as no contradiction is decided and no unread text replaced.
THEOREM MergingLosesNothing == Spec => []NothingLost
<1> DEFINE Secure == Covering /\ NothingLost
<1>1. Init => Secure
  <2> SUFFICES ASSUME Init PROVE Secure
    OBVIOUS
  <2>1. Covering
    BY DEF Init, Covering
  <2>2. Saved = Old
    BY DEF Init, Saved, Id
  <2>3. \A f \in Old : vault[f] = New({f}, "mined", 0) /\ f \in Id
    BY DEF Init, Id
  <2>4. \A f \in Old : /\ New({f}, "mined", 0) # None /\ New({f}, "mined", 0).valid
                        /\ New({f}, "mined", 0).says = {f}
    <3>1. \A f \in Old : {f} \in SUBSET Fact /\ "mined" \in Kind /\ 0 \in Nat
      BY DEF Fact, Kind
    <3> QED BY <3>1, NewType
  <2>5. \A f \in Old : vault[f] # None /\ vault[f].valid /\ f \in vault[f].says
    BY <2>3, <2>4
  <2>6. ASSUME NEW f \in Saved \ dropped
        PROVE  \E i \in Id : vault[i] # None /\ vault[i].valid /\ f \in vault[i].says
    <3>1. f \in Old
      BY <2>2
    <3>2. f \in Id /\ vault[f] # None /\ vault[f].valid /\ f \in vault[f].says
      BY <2>3, <2>5, <3>1
    <3> QED BY <3>2
  <2>7. NothingLost
    BY <2>6 DEF NothingLost
  <2> QED BY <2>1, <2>7
<1>2. Steady /\ Secure /\ [Next]_vars => Secure'
  <2> SUFFICES ASSUME Steady, Covering, NothingLost, [Next]_vars, ~judged', ~stale',
                      NEW f \in Saved' \ dropped'
               PROVE  Said(f)'
    BY CoveringStep DEF NothingLost, Said
  <2>0. TypeOK /\ StillThere /\ Targets
    BY DEF Steady
  <2>1. ~judged /\ ~stale
    <3>1. ASSUME NEW p \in Pass, Judge(p) \/ Retire(p) \/ RewriteTense(p) PROVE ~judged /\ ~stale
      <4>1. judged' = TRUE \/ judged' = judged
        BY <3>1 DEF Judge, Retire, RewriteTense
      <4>2. \/ stale' = stale
            \/ stale' = (stale \/ vault[Member(p)].says # listed[p][Member(p)].says)
            \/ stale' = (stale \/ vault[aim[p]].says # listed[p][aim[p]].says)
        BY <3>1 DEF Judge, Retire, RewriteTense
      <4>3. ~judged
        BY <4>1
      <4>4. CASE stale' = stale
        BY <4>3, <4>4
      <4>5. ASSUME NEW X, stale' = (stale \/ X) PROVE ~stale
        BY <4>5, Zenon
      <4> QED BY <4>2, <4>3, <4>4, <4>5
    <3>2. CASE \E p \in Pass : \/ Begin(p) \/ TakeLock(p) \/ SkipPass(p) \/ BuildDiff(p)
                             \/ Demote(p) \/ Summarize(p) \/ Mark(p) \/ MergeCluster(p) \/ PassOver(p)
                             \/ Reflect(p) \/ CheckHash(p) \/ Advance(p)
                             \/ WriteLastDreamTs(p) \/ LoseLastDreamTs(p) \/ Release(p) \/ Crash(p)
      <4>1. judged' = judged /\ stale' = stale
        BY <3>2 DEF Begin, TakeLock, SkipPass, BuildDiff, Demote, Summarize, Mark, MergeCluster,
           PassOver, Reflect, CheckHash, Advance, WriteLastDreamTs, LoseLastDreamTs, Release, Crash
      <4> QED BY <4>1
    <3>3. CASE \/ \E e \in Episode : SaveEpisode(e)
               \/ \E g \in News : MergeNews(g)
               \/ UNCHANGED vars
      <4>1. judged' = judged /\ stale' = stale
        BY <3>3 DEF SaveEpisode, MergeNews, vars
      <4> QED BY <4>1
    <3>4. ASSUME NEW e \in Episode, NEW d \in Later, SaveEpisodeAgain(e, d) PROVE ~judged /\ ~stale
      <4>1. judged' = judged /\ stale' = stale
        BY <3>4 DEF SaveEpisodeAgain
      <4> QED BY <4>1
    <3> QED BY <3>1, <3>2, <3>3, <3>4 DEF Next, Dream, Apply
  <2>2. \A g \in Saved \ dropped : Said(g)
    BY <2>1 DEF NothingLost, Said
  <2>3. CASE f \in Saved \ dropped /\ Keeps
    BY <2>2, <2>3, KeepsSaid
  <2>4. ASSUME NEW e \in Episode, SaveEpisode(e) PROVE Said(f)'
    <3>1. Keeps
      <4>1. clock' = clock + 1 /\ clock \in Nat
        BY <2>0, <2>4 DEF SaveEpisode, TypeOK
      <4>2. /\ \A p \in Pass : Judge(p) \/ Retire(p) \/ RewriteTense(p) => clock' = clock
            /\ \A x \in Episode, d \in Later : SaveEpisodeAgain(x, d) => clock' = clock
        BY DEF Judge, Retire, RewriteTense, SaveEpisodeAgain
      <4>3. /\ \A p \in Pass : ~Judge(p) /\ ~Retire(p) /\ ~RewriteTense(p)
            /\ \A x \in Episode, d \in Later : ~SaveEpisodeAgain(x, d)
        BY <4>1, <4>2
      <4> QED BY <4>3, StepKeeps
    <3>2. CASE f = e
      <4>1. {e} \in SUBSET Fact /\ "episode" \in Kind /\ clock + 1 \in Nat
        BY <2>0 DEF Fact, Kind, TypeOK
      <4>2. vault'[e] = New({e}, "episode", clock + 1) /\ e \in Id
        BY <2>0, <2>4 DEF SaveEpisode, TypeOK, Id
      <4> QED BY <3>2, <4>1, <4>2, NewType DEF Said
    <3>3. CASE f # e
      <4>1. f \in Saved \ dropped
        BY <2>0, <2>4, <3>3 DEF SaveEpisode, Saved, TypeOK, history
      <4> QED BY <2>2, <3>1, <4>1, KeepsSaid
    <3> QED BY <3>2, <3>3
  <2>5. ASSUME NEW g \in News, MergeNews(g) PROVE Said(f)'
    <3>0. Keeps
      <4>4. \A i \in Id : vault[i] # None => vault[i] \in Memory
        BY <2>0 DEF TypeOK
      <4>5. PICK i \in Id : vault[i] # None /\ vault' = [vault EXCEPT ![i].says = @ \cup {g}]
        BY <2>5 DEF MergeNews
      <4> DEFINE m == [vault[i] EXCEPT !.says = @ \cup {g}]
      <4>6. vault[i] \in Memory /\ g \in Fact
        BY <4>4, <4>5 DEF Fact
      <4>7. m \in Memory /\ m.valid = vault[i].valid /\ vault[i].says \subseteq m.says
        BY <4>6 DEF Memory
      <4>8. vault' = [vault EXCEPT ![i] = m]
        BY <4>5
      <4> HIDE DEF m
      <4> QED BY <2>0, <4>7, <4>8, ChangeKeeps
    <3>1. PICK i \in Id : /\ vault[i] # None /\ vault[i].valid
                          /\ vault' = [vault EXCEPT ![i].says = @ \cup {g}]
      BY <2>5 DEF MergeNews
    <3>2. CASE f = g
      <4>1. vault[i] \in Memory
        BY <2>0, <3>1 DEF TypeOK
      <4>2. vault'[i] = [vault[i] EXCEPT !.says = @ \cup {g}]
        BY <2>0, <3>1 DEF TypeOK
      <4>3. g \in vault'[i].says
        BY <4>1, <4>2 DEF Memory
      <4> QED BY <3>0, <3>1, <3>2, <4>3 DEF Keeps, Said
    <3>3. CASE f # g
      <4>1. told' = told \cup {g} /\ dropped' = dropped
        BY <2>5 DEF MergeNews
      <4>2. \A e \in Episode : vault'[e] # None => vault[e] # None
        BY <2>0, <3>1 DEF TypeOK
      <4>3. f \in Saved \ dropped
        BY <3>3, <4>1, <4>2 DEF Saved
      <4> QED BY <2>2, <3>0, <4>3, KeepsSaid
    <3> QED BY <3>2, <3>3
  <2>6. CASE /\ \A e \in Episode : ~SaveEpisode(e)
             /\ \A g \in News : ~MergeNews(g)
             /\ \A e \in Episode, d \in Later : ~SaveEpisodeAgain(e, d)
    <3>1. f \in Saved \ dropped
      BY <2>6, SavedStep
    <3>2. ASSUME NEW p \in Pass, Judge(p) PROVE FALSE
      BY <3>2 DEF Judge
    <3>3. ASSUME NEW p \in Pass, Retire(p) PROVE Said(f)'
      <4>1. /\ pc[p] = "retire" /\ todo[p] # {}
            /\ vault' = [vault EXCEPT ![Member(p)].valid = FALSE, ![Member(p)].by = aim[p]]
            /\ vault[Member(p)].says = listed[p][Member(p)].says
        BY <3>3 DEF Retire
      <4>2. Member(p) \in todo[p]
        BY <4>1, MemberIn
      <4>3. /\ aim[p] \in Id /\ vault[aim[p]] # None /\ vault[aim[p]].valid /\ aim[p] # Member(p)
            /\ vault[Member(p)].says \subseteq vault[aim[p]].says
        BY <2>0, <4>1, <4>2 DEF Targets, Covering, Id
      <4>4. PICK i \in Id : vault[i] # None /\ vault[i].valid /\ f \in vault[i].says
        BY <2>2, <3>1 DEF Said
      <4>5. \E j \in Id : j # Member(p) /\ vault[j] # None /\ vault[j].valid /\ f \in vault[j].says
        BY <4>3, <4>4
      <4>6. \A j \in Id : j # Member(p) => vault'[j] = vault[j]
        BY <2>0, <4>1 DEF TypeOK
      <4> QED BY <4>5, <4>6 DEF Said
    <3>4. ASSUME NEW p \in Pass, RewriteTense(p) PROVE Said(f)'
      <4>1. /\ vault' = [vault EXCEPT ![aim[p]].says = listed[p][aim[p]].says]
            /\ vault[aim[p]].says = listed[p][aim[p]].says /\ pc[p] = "replace"
        BY <3>4 DEF RewriteTense
      <4>2. aim[p] \in Id /\ vault[aim[p]] \in Memory
        BY <2>0, <4>1 DEF Targets, Listed, StillThere, TypeOK
      <4> DEFINE m == [vault[aim[p]] EXCEPT !.says = listed[p][aim[p]].says]
      <4>3. m \in Memory /\ m.valid = vault[aim[p]].valid /\ m.says = vault[aim[p]].says
        BY <4>1, <4>2 DEF Memory
      <4>4. vault' = [vault EXCEPT ![aim[p]] = m]
        BY <4>1
      <4> HIDE DEF m
      <4>5. Keeps
        BY <2>0, <4>2, <4>3, <4>4, ChangeKeeps
      <4> QED BY <2>2, <3>1, <4>5, KeepsSaid
    <3>5. CASE \A p \in Pass : ~Judge(p) /\ ~Retire(p) /\ ~RewriteTense(p)
      BY <2>3, <2>6, <3>1, <3>5, StepKeeps
    <3> QED BY <3>2, <3>3, <3>4, <3>5
  <2>7. ASSUME NEW e \in Episode, NEW d \in Later, SaveEpisodeAgain(e, d) PROVE Said(f)'
    <3>1. /\ e \in Id /\ vault'[e] # None /\ vault'[e].valid /\ vault'[e].says = {d}
          /\ \A i \in Id : i # e => vault'[i] = vault[i]
      <4>1. /\ e \in Id /\ vault' = [vault EXCEPT ![e] = New({d}, "episode", vault[e].created)]
            /\ vault'[e] # None /\ vault'[e].valid /\ vault'[e].says = {d}
        BY <2>0, <2>7, AgainChanges
      <4> QED BY <2>0, <4>1 DEF TypeOK
    <3>2. CASE f = d
      BY <3>1, <3>2 DEF Said
    <3>3. CASE f # d
      <4>1. /\ told' = told \cup {d}
            /\ dropped' = (IF vault[e].valid THEN dropped \cup vault[e].says ELSE dropped) \ {d}
            /\ vault[e] # None
        BY <2>7 DEF SaveEpisodeAgain
      <4>2. f \notin dropped /\ (vault[e].valid => f \notin vault[e].says)
        BY <3>3, <4>1
      <4>3. \A x \in Episode : vault'[x] # None => vault[x] # None
        BY <3>1, <4>1 DEF Id
      <4>4. f \in Saved \ dropped
        BY <3>3, <4>1, <4>2, <4>3 DEF Saved
      <4>5. PICK i \in Id : vault[i] # None /\ vault[i].valid /\ f \in vault[i].says
        BY <2>2, <4>4 DEF Said
      <4>6. i # e
        BY <4>2, <4>5
      <4> QED BY <3>1, <4>5, <4>6 DEF Said
    <3> QED BY <3>2, <3>3
  <2> QED BY <2>4, <2>5, <2>6, <2>7
<1> QED BY <1>1, <1>2, SteadyAlways, PTL DEF Spec

\* Times are in the past, and the holder of the lock has read the noted one.
Reading == {"demote", "judge", "summarize", "mark", "merge", "retire", "reflect", "rewrite",
            "replace", "stamp"}
Times ==
  /\ last <= clock
  /\ \A e \in Episode : vault[e] # None => vault[e].created <= clock
  /\ \A p \in Pass, e \in Episode : listed[p][e] # None => listed[p][e].created = vault[e].created
  /\ \A p \in Pass : pc[p] \in Reading => since[p] = last
  /\ \A e \in Episode : vault[e] = None => reflected[e] = {}

\* An episode's file is made once, and the time in it does not change.
LEMMA CreatedStays ==
  ASSUME Steady, [Next]_vars, NEW e \in Episode, vault[e] # None
  PROVE  vault'[e] # None /\ vault'[e].created = vault[e].created
<1>0. TypeOK /\ StillThere /\ Targets
  BY DEF Steady
<1>1. e \in Id /\ e \notin Fresh /\ vault[e] \in Memory
  BY <1>0 DEF Id, TypeOK
<1>2. vault'[e] # None
  BY <1>1, VaultGrows
<1>4. ASSUME NEW d \in Episode, SaveEpisode(d) PROVE vault'[e].created = vault[e].created
  BY <1>0, <1>1, <1>4 DEF SaveEpisode, TypeOK
<1>3. ASSUME NEW x \in Episode, NEW d \in Later, SaveEpisodeAgain(x, d)
      PROVE  vault'[e].created = vault[e].created
  <2>1. CASE x = e
    <3>1. SaveEpisodeAgain(e, d)
      BY <1>3, <2>1
    <3> QED BY <1>0, <3>1, AgainChanges
  <2>2. CASE x # e
    BY <1>0, <1>1, <1>3, <2>2 DEF SaveEpisodeAgain, TypeOK
  <2> QED BY <2>1, <2>2
<1>5. ASSUME NEW f \in News, MergeNews(f) PROVE vault'[e].created = vault[e].created
  <2>1. PICK i \in Id : vault' = [vault EXCEPT ![i].says = @ \cup {f}]
    BY <1>5 DEF MergeNews
  <2>2. CASE i = e
    <3>1. vault'[e] = [vault[e] EXCEPT !.says = @ \cup {f}]
      BY <1>0, <1>1, <2>1, <2>2 DEF TypeOK
    <3> QED BY <1>1, <3>1 DEF Memory
  <2>3. CASE i # e
    BY <1>0, <1>1, <2>1, <2>3 DEF TypeOK
  <2> QED BY <2>2, <2>3
<1>6. ASSUME NEW p \in Pass, Demote(p) PROVE vault'[e].created = vault[e].created
  <2>1. PICK i \in Id : vault' = [vault EXCEPT ![i].demoted = TRUE]
    BY <1>6 DEF Demote, Listed
  <2>2. CASE i = e
    <3>1. vault'[e] = [vault[e] EXCEPT !.demoted = TRUE]
      BY <1>0, <1>1, <2>1, <2>2 DEF TypeOK
    <3> QED BY <1>1, <3>1 DEF Memory
  <2>3. CASE i # e
    BY <1>0, <1>1, <2>1, <2>3 DEF TypeOK
  <2> QED BY <2>2, <2>3
<1>7. ASSUME NEW p \in Pass, Judge(p) \/ Retire(p) PROVE vault'[e].created = vault[e].created
  <2>1. PICK i \in Id, b \in Id : vault' = [vault EXCEPT ![i].valid = FALSE, ![i].by = b]
    <3>1. CASE Judge(p)
      <4>1. PICK pair \in Pairs(p) : \E loser, winner \in {pair[1], pair[2]} :
               vault' = [vault EXCEPT ![loser].valid = FALSE, ![loser].by = winner]
        BY <3>1 DEF Judge
      <4>2. pair[1] \in Id /\ pair[2] \in Id
        BY <4>1 DEF Pairs, Valid, Listed
      <4> QED BY <4>1, <4>2
    <3>2. CASE Retire(p)
      <4>1. vault' = [vault EXCEPT ![Member(p)].valid = FALSE, ![Member(p)].by = aim[p]]
        BY <3>2 DEF Retire
      <4>2. Member(p) \in Id /\ aim[p] \in Id
        BY <1>0, <3>2, MemberIn DEF Retire, Targets, Listed, Id
      <4> QED BY <4>1, <4>2
    <3> QED BY <1>7, <3>1, <3>2
  <2>2. CASE i = e
    <3>1. vault'[e] = [vault[e] EXCEPT !.valid = FALSE, !.by = b]
      BY <1>0, <1>1, <2>1, <2>2 DEF TypeOK
    <3> QED BY <1>1, <3>1 DEF Memory
  <2>3. CASE i # e
    BY <1>0, <1>1, <2>1, <2>3 DEF TypeOK
  <2> QED BY <2>2, <2>3
<1>8. ASSUME NEW p \in Pass, Mark(p) PROVE vault'[e].created = vault[e].created
  <2>1. vault' = [vault EXCEPT ![Member(p)].cluster = aim[p]]
    BY <1>8 DEF Mark
  <2>2. CASE Member(p) = e
    <3>1. vault'[e] = [vault[e] EXCEPT !.cluster = aim[p]]
      BY <1>0, <1>1, <2>1, <2>2 DEF TypeOK
    <3> QED BY <1>1, <3>1 DEF Memory
  <2>3. CASE Member(p) # e
    BY <1>0, <1>1, <2>1, <2>3 DEF TypeOK
  <2> QED BY <2>2, <2>3
<1>9. ASSUME NEW p \in Pass, RewriteTense(p) PROVE vault'[e].created = vault[e].created
  <2>1. vault' = [vault EXCEPT ![aim[p]].says = listed[p][aim[p]].says]
    BY <1>9 DEF RewriteTense
  <2>2. CASE aim[p] = e
    <3>1. vault'[e] = [vault[e] EXCEPT !.says = listed[p][aim[p]].says]
      BY <1>0, <1>1, <2>1, <2>2 DEF TypeOK
    <3> QED BY <1>1, <3>1 DEF Memory
  <2>3. CASE aim[p] # e
    BY <1>0, <1>1, <2>1, <2>3 DEF TypeOK
  <2> QED BY <2>2, <2>3
<1>10. ASSUME NEW p \in Pass, Summarize(p) \/ MergeCluster(p) \/ Reflect(p)
       PROVE  vault'[e].created = vault[e].created
  BY <1>0, <1>1, <1>10 DEF Summarize, MergeCluster, Reflect, TypeOK
<1>11. ASSUME UNCHANGED vault PROVE vault'[e].created = vault[e].created
  BY <1>11
<1>12. ASSUME NEW p \in Pass, \/ Begin(p) \/ TakeLock(p) \/ SkipPass(p) \/ BuildDiff(p)
                              \/ PassOver(p) \/ CheckHash(p) \/ Advance(p)
                              \/ WriteLastDreamTs(p) \/ LoseLastDreamTs(p) \/ Release(p) \/ Crash(p)
       PROVE  UNCHANGED vault
  BY <1>12 DEF Begin, TakeLock, SkipPass, BuildDiff, PassOver, CheckHash, Advance,
               WriteLastDreamTs, LoseLastDreamTs, Release, Crash
<1>13. CASE UNCHANGED vars
  BY <1>13 DEF vars
<1>14. vault'[e].created = vault[e].created
  BY <1>3, <1>4, <1>5, <1>6, <1>7, <1>8, <1>9, <1>10, <1>11, <1>12, <1>13 DEF Next, Dream, Apply
<1> QED BY <1>2, <1>14

LEMMA TimesStep ==
  ASSUME Steady, Times, [Next]_vars
  PROVE  Times'
<1>0. TypeOK /\ StillThere /\ Targets
  BY DEF Steady
<1>1. /\ clock' = clock \/ clock' = clock + 1
      /\ last' = last \/ last' = clock'
  <2> DEFINE Ticks == /\ clock' = clock \/ clock' = clock + 1
                      /\ last' = last \/ last' = clock'
  <2>1. ASSUME NEW p \in Pass, Begin(p) \/ TakeLock(p) \/ SkipPass(p) \/ BuildDiff(p) PROVE Ticks
    BY <2>1 DEF Begin, TakeLock, SkipPass, BuildDiff
  <2>2. ASSUME NEW p \in Pass, Demote(p) \/ Judge(p) \/ Summarize(p) \/ Mark(p) PROVE Ticks
    BY <2>2 DEF Demote, Judge, Summarize, Mark
  <2>3. ASSUME NEW p \in Pass, MergeCluster(p) \/ Retire(p) \/ PassOver(p) \/ Reflect(p) PROVE Ticks
    BY <2>3 DEF MergeCluster, Retire, PassOver, Reflect
  <2>4. ASSUME NEW p \in Pass, CheckHash(p) \/ RewriteTense(p) \/ Advance(p) PROVE Ticks
    BY <2>4 DEF CheckHash, RewriteTense, Advance
  <2>5. ASSUME NEW p \in Pass, WriteLastDreamTs(p) \/ LoseLastDreamTs(p) \/ Release(p) \/ Crash(p)
        PROVE  Ticks
    BY <2>5 DEF WriteLastDreamTs, LoseLastDreamTs, Release, Crash
  <2>6. ASSUME NEW e \in Episode, SaveEpisode(e) \/ \E d \in Later : SaveEpisodeAgain(e, d) PROVE Ticks
    BY <2>6 DEF SaveEpisode, SaveEpisodeAgain
  <2>7. ASSUME NEW f \in News, MergeNews(f) PROVE Ticks
    BY <2>7 DEF MergeNews
  <2>8. ASSUME UNCHANGED vars PROVE Ticks
    BY <2>8 DEF vars
  <2> HIDE DEF Ticks
  <2>9. ASSUME NEW p \in Pass, Apply(p) PROVE Ticks
    BY <2>2, <2>3, <2>4, <2>9 DEF Apply
  <2>10. ASSUME NEW p \in Pass, Dream(p) PROVE Ticks
    BY <2>1, <2>5, <2>9, <2>10 DEF Dream
  <2>11. Ticks
    BY <2>5, <2>6, <2>7, <2>8, <2>10 DEF Next
  <2> QED BY <2>11 DEF Ticks
<1>2. clock \in Nat /\ last \in Nat /\ last <= clock
  BY <1>0 DEF TypeOK, Times
<1>3. last' <= clock' /\ clock <= clock'
  BY <1>1, <1>2
<1>4. ASSUME NEW e \in Episode, vault'[e] # None PROVE vault'[e].created <= clock'
  <2>1. e \in Id /\ (vault[e] # None => vault[e].created \in Nat)
    BY <1>0 DEF Id, TypeOK, Memory
  <2>2. CASE vault[e] # None
    <3>1. vault'[e].created = vault[e].created /\ vault[e].created <= clock
      BY <2>2, CreatedStays DEF Times
    <3> QED BY <1>1, <1>2, <2>1, <2>2, <3>1
  <2>3. CASE vault[e] = None
    <3>1. SaveEpisode(e)
      BY <1>4, <2>3, EpisodeSaved
    <3>2. vault'[e] = New({e}, "episode", clock + 1) /\ clock' = clock + 1
      BY <1>0, <2>1, <3>1 DEF SaveEpisode, TypeOK
    <3>3. vault'[e].created = clock + 1
      BY <3>2 DEF New
    <3> QED BY <1>2, <3>2, <3>3
  <2> QED BY <2>2, <2>3
<1>5. ASSUME NEW p \in Pass, NEW e \in Episode, listed'[p][e] # None
      PROVE  listed'[p][e].created = vault'[e].created
  <2>0. e \in Id
    BY DEF Id
  <2>1. CASE listed'[p] = listed[p]
    <3>1. vault[e] # None /\ listed[p][e].created = vault[e].created
      BY <1>0, <1>5, <2>0, <2>1 DEF StillThere, Times
    <3> QED BY <2>1, <3>1, CreatedStays
  <2>2. CASE listed'[p] = vault /\ UNCHANGED vault
    BY <2>2
  <2>3. CASE listed'[p] = Empty
    BY <1>5, <2>0, <2>3 DEF Empty
  <2>4. ASSUME NEW q \in Pass, Exit(q) PROVE listed'[p] = listed[p] \/ listed'[p] = Empty
    BY <1>0, <2>4 DEF Exit, TypeOK
  <2>5. ASSUME NEW q \in Pass, BuildDiff(q)
        PROVE  listed'[p] = listed[p] \/ (listed'[p] = vault /\ UNCHANGED vault)
    BY <1>0, <2>5 DEF BuildDiff, TypeOK
  <2>6. ASSUME \A q \in Pass : ~Exit(q) /\ ~BuildDiff(q) PROVE listed'[p] = listed[p]
    BY <2>6, ZenonT(60) DEF Next, Dream, Apply, Begin, TakeLock, SkipPass, Demote, Judge, Summarize, Mark,
         MergeCluster, Retire, PassOver, Reflect, CheckHash, RewriteTense, Advance, SaveEpisode, SaveEpisodeAgain,
         MergeNews, WriteLastDreamTs, LoseLastDreamTs, Release, Crash, vars
  <2> QED BY <2>1, <2>2, <2>3, <2>4, <2>5, <2>6
<1>6. ASSUME NEW p \in Pass, pc'[p] \in Reading PROVE since'[p] = last'
  <2>1. CASE pc[p] \in Reading /\ since'[p] = since[p] /\ last' = last
    BY <2>1 DEF Times
  <2>2. ASSUME NEW q \in Pass, \/ Begin(q) \/ TakeLock(q) \/ SkipPass(q) \/ Release(q) \/ Crash(q)
        PROVE  pc[p] \in Reading /\ since'[p] = since[p] /\ last' = last
    BY <1>0, <1>6, <2>2 DEF Begin, TakeLock, SkipPass, Release, Crash, Exit, Goto, Reading, TypeOK
  <2>3. ASSUME NEW q \in Pass, BuildDiff(q) PROVE since'[p] = last'
    <3>1. CASE q = p
      BY <1>0, <2>3, <3>1 DEF BuildDiff, TypeOK
    <3>2. CASE q # p
      BY <1>0, <1>6, <2>1, <2>3, <3>2 DEF BuildDiff, Goto, TypeOK
    <3> QED BY <3>1, <3>2
  <2>4. ASSUME NEW q \in Pass, Apply(q) \/ LoseLastDreamTs(q)
        PROVE  pc[p] \in Reading /\ since'[p] = since[p] /\ last' = last
    <3>1. pc[q] \in Reading
      BY <2>4 DEF Apply, Demote, Judge, Summarize, Mark, MergeCluster, Retire, PassOver, Reflect,
                  CheckHash, RewriteTense, Advance, LoseLastDreamTs, Reading
    <3>2. since' = since /\ last' = last
      BY <2>4 DEF Apply, Demote, Judge, Summarize, Mark, MergeCluster, Retire, PassOver, Reflect,
                  CheckHash, RewriteTense, Advance, LoseLastDreamTs
    <3>3. p # q => pc'[p] = pc[p]
      BY <1>0, <2>4 DEF Apply, Demote, Judge, Summarize, Mark, MergeCluster, Retire, PassOver, Done,
                  Reflect, CheckHash, RewriteTense, Advance, LoseLastDreamTs, Goto, TypeOK
    <3> QED BY <1>6, <3>1, <3>2, <3>3
  <2>5. ASSUME NEW q \in Pass, WriteLastDreamTs(q) PROVE FALSE
    <3>1. pc[q] = "stamp" /\ pc' = [pc EXCEPT ![q] = "release"]
      BY <2>5 DEF WriteLastDreamTs, Goto
    <3>2. pc[p] \in Reading /\ p # q
      BY <1>0, <1>6, <3>1 DEF Reading, TypeOK
    <3> QED BY <1>0, <3>1, <3>2, HolderAlone DEF Reading
  <2>6. ASSUME \/ \E e \in Episode : SaveEpisode(e) \/ \E d \in Later : SaveEpisodeAgain(e, d)
               \/ \E f \in News : MergeNews(f)
               \/ UNCHANGED vars
        PROVE  pc[p] \in Reading /\ since'[p] = since[p] /\ last' = last
    BY <1>6, <2>6 DEF SaveEpisode, SaveEpisodeAgain, MergeNews, vars
  <2> QED BY <2>1, <2>2, <2>3, <2>4, <2>5, <2>6 DEF Next, Dream
<1>7. ASSUME NEW e \in Episode, vault'[e] = None PROVE reflected'[e] = {}
  <2>1. e \in Id /\ vault[e] = None /\ reflected[e] = {}
    BY <1>7, VaultGrows DEF Id, Times
  <2>2. ASSUME NEW p \in Pass, Reflect(p) PROVE reflected'[e] = reflected[e]
    <3>1. e \notin Recent(p)
      BY <1>0, <2>1 DEF Recent, Listed, StillThere
    <3> QED BY <2>2, <3>1 DEF Reflect
  <2>3. ASSUME \A p \in Pass : ~Reflect(p) PROVE reflected' = reflected
    BY <2>3, ZenonT(60) DEF Next, Dream, Apply, Begin, TakeLock, SkipPass, BuildDiff, Demote, Judge, Summarize, Mark,
         MergeCluster, Retire, PassOver, CheckHash, RewriteTense, Advance, SaveEpisode, SaveEpisodeAgain,
         MergeNews, WriteLastDreamTs, LoseLastDreamTs, Release, Crash, vars
  <2> QED BY <2>1, <2>2, <2>3
<1> QED BY <1>3, <1>4, <1>5, <1>6, <1>7 DEF Times

\* An episode is spent when it is older than the noted time, or when the pass that
\* holds the lock has drawn an insight from it and is still to note its time.
Reflecting == {"reflect", "rewrite", "replace", "stamp"}
Spent(e) ==
  \/ vault[e] # None /\ vault[e].created <= last
  \/ \E p \in Pass : lock = p /\ pc[p] \in Reflecting /\ turn[p] \in reflected[e]

\* Each pass that reflected on an episode failed, but for the one that spent it.
Counted ==
  \A e \in Episode :
    /\ IsFiniteSet(reflected[e])
    /\ Cardinality(reflected[e]) <= failures + IF Spent(e) THEN 1 ELSE 0

LEMMA CountedStep ==
  ASSUME Steady, Times, Counted, [Next]_vars
  PROVE  Counted'
<1>0. TypeOK /\ StillThere /\ Targets
  BY DEF Steady
<1>1. failures \in Nat /\ \A e \in Episode : IsFiniteSet(reflected[e]) /\ Cardinality(reflected[e]) \in Nat
  BY <1>0, FS_CardinalityType DEF TypeOK, Counted
<1>2. ASSUME UNCHANGED reflected, failures' = failures + 1 PROVE Counted'
  BY <1>1, <1>2 DEF Counted
<1>3. ASSUME UNCHANGED <<reflected, failures>>, \A e \in Episode : Spent(e) => Spent(e)' PROVE Counted'
  BY <1>1, <1>3 DEF Counted
<1>4. ASSUME UNCHANGED <<reflected, last>>,
             \A q \in Pass : lock = q /\ pc[q] \in Reflecting =>
               lock' = q /\ pc'[q] \in Reflecting /\ turn'[q] = turn[q],
             NEW e \in Episode, Spent(e)
      PROVE  Spent(e)'
  BY <1>4, CreatedStays DEF Spent
<1>5. ASSUME NEW p \in Pass, PassOver(p) \/ LoseLastDreamTs(p) \/ Crash(p) PROVE Counted'
  BY <1>2, <1>5 DEF PassOver, LoseLastDreamTs, Crash
<1>6. ASSUME NEW p \in Pass, Reflect(p) PROVE Counted'
  <2>1. /\ pc[p] = "reflect" /\ UNCHANGED <<lock, pc, turn, last, failures>>
        /\ reflected' = [e \in Episode |-> IF e \in Recent(p) THEN reflected[e] \cup {turn[p]} ELSE reflected[e]]
    BY <1>6 DEF Reflect
  <2>2. lock = p
    BY <1>0, <2>1 DEF TypeOK
  <2> SUFFICES ASSUME NEW e \in Episode
               PROVE  /\ IsFiniteSet(reflected'[e])
                      /\ Cardinality(reflected'[e]) <= failures' + IF Spent(e)' THEN 1 ELSE 0
    BY DEF Counted
  <2>3. CASE reflected'[e] = reflected[e]
    <3>1. Spent(e) => Spent(e)'
      BY <2>1, <2>3, CreatedStays DEF Spent
    <3> QED BY <1>1, <2>1, <2>3, <3>1 DEF Counted
  <2>4. CASE e \in Recent(p) /\ turn[p] \notin reflected[e]
    <3>1. /\ reflected'[e] = reflected[e] \cup {turn[p]}
      BY <2>1, <2>4
    <3>2. Spent(e)'
      BY <2>1, <2>2, <3>1 DEF Spent, Reflecting
    <3>3. ~Spent(e)
      <4>1. e \in Id /\ listed[p][e] # None /\ listed[p][e].created > since[p] /\ since[p] = last
        BY <2>1, <2>4 DEF Recent, Listed, Times, Reading
      <4>2. vault[e].created > last /\ vault[e] \in Memory /\ last \in Nat
        BY <1>0, <4>1 DEF Times, StillThere, TypeOK
      <4>3. ~(vault[e].created <= last)
        BY <4>2 DEF Memory
      <4> QED BY <2>2, <2>4, <4>3 DEF Spent
    <3>4. IsFiniteSet(reflected'[e]) /\ Cardinality(reflected'[e]) = Cardinality(reflected[e]) + 1
      <4>1. IsFiniteSet(reflected[e])
        BY <1>1
      <4>2. /\ IsFiniteSet(reflected[e] \cup {turn[p]})
            /\ Cardinality(reflected[e] \cup {turn[p]})
                 = IF turn[p] \in reflected[e] THEN Cardinality(reflected[e]) ELSE Cardinality(reflected[e]) + 1
        BY <4>1, FS_AddElement, Zenon
      <4> QED BY <2>4, <3>1, <4>2
    <3>5. Cardinality(reflected[e]) <= failures
      BY <1>1, <3>3 DEF Counted
    <3> QED BY <1>1, <2>1, <3>2, <3>4, <3>5
  <2>5. CASE e \in Recent(p) /\ turn[p] \in reflected[e]
    <3>1. reflected'[e] = reflected[e]
      BY <2>1, <2>5
    <3> QED BY <2>3, <3>1
  <2>6. CASE e \notin Recent(p)
    <3>1. reflected'[e] = reflected[e]
      BY <2>1, <2>6
    <3> QED BY <2>3, <3>1
  <2> QED BY <2>4, <2>5, <2>6
<1>7. ASSUME NEW p \in Pass, WriteLastDreamTs(p) PROVE Counted'
  <2>1. UNCHANGED <<vault, reflected, failures>> /\ last' = clock + 1
    BY <1>7 DEF WriteLastDreamTs
  <2>2. ASSUME NEW e \in Episode, Spent(e) PROVE Spent(e)'
    <3>1. vault[e] # None
      BY <2>2 DEF Spent, Times
    <3>2. vault[e].created <= clock /\ vault[e] \in Memory /\ clock \in Nat
      BY <1>0, <3>1 DEF Times, TypeOK, Id
    <3>3. vault[e].created <= clock + 1
      BY <3>2 DEF Memory
    <3> QED BY <2>1, <3>1, <3>3 DEF Spent
  <2> QED BY <1>3, <2>1, <2>2
<1>8. ASSUME NEW p \in Pass, Begin(p) \/ TakeLock(p) \/ SkipPass(p) \/ Release(p) PROVE Counted'
  <2>1. UNCHANGED <<reflected, last, failures>>
    BY <1>8 DEF Begin, TakeLock, SkipPass, Release
  <2>2. pc[p] \notin Reflecting
    BY <1>8 DEF Begin, TakeLock, SkipPass, Release, Reflecting
  <2>3. \A q \in Pass : q # p /\ lock = q => lock' = q /\ pc'[q] = pc[q] /\ turn'[q] = turn[q]
    BY <1>0, <1>8 DEF Begin, TakeLock, SkipPass, Release, Exit, Goto, TypeOK
  <2> QED BY <1>3, <1>4, <2>1, <2>2, <2>3
<1>9. ASSUME NEW p \in Pass, \/ BuildDiff(p) \/ Demote(p) \/ Judge(p) \/ Summarize(p) \/ Mark(p)
                             \/ MergeCluster(p) \/ Retire(p) \/ CheckHash(p) \/ RewriteTense(p)
                             \/ Advance(p)
      PROVE  Counted'
  <2>1. UNCHANGED <<reflected, last, failures, lock, turn>>
    BY <1>9 DEF BuildDiff, Demote, Judge, Summarize, Mark, MergeCluster, Retire, CheckHash,
                RewriteTense, Advance
  <2>2. pc[p] \in Reflecting => pc'[p] \in Reflecting
    BY <1>0, <1>9 DEF BuildDiff, Demote, Judge, Summarize, Mark, MergeCluster, Retire, CheckHash,
                RewriteTense, Advance, NextCategory, Goto, TypeOK, Reflecting
  <2>3. \A q \in Pass : q # p => pc'[q] = pc[q]
    BY <1>0, <1>9 DEF BuildDiff, Demote, Judge, Summarize, Mark, MergeCluster, Retire, Done, CheckHash,
                RewriteTense, Advance, Goto, TypeOK
  <2> QED BY <1>3, <1>4, <2>1, <2>2, <2>3
<1>10. ASSUME \/ \E e \in Episode : SaveEpisode(e) \/ \E d \in Later : SaveEpisodeAgain(e, d)
              \/ \E f \in News : MergeNews(f)
              \/ UNCHANGED vars
       PROVE  Counted'
  <2>1. UNCHANGED <<reflected, last, failures, lock, turn, pc>>
    BY <1>10 DEF SaveEpisode, SaveEpisodeAgain, MergeNews, vars
  <2> QED BY <1>3, <1>4, <2>1
<1> QED BY <1>5, <1>6, <1>7, <1>8, <1>9, <1>10 DEF Next, Dream, Apply

\* Reflection draws on an episode once, and once more for each failure.
THEOREM ReflectionCounted == Spec => []ReflectedOnce
<1>1. Init => Times /\ Counted
  <2>1. IsFiniteSet({}) /\ Cardinality({}) = 0
    BY FS_EmptySet
  <2>2. Init => Counted
    BY <2>1 DEF Init, Counted
  <2>3. Init => Times
    BY DEF Init, Times, Reading, Empty, Id
  <2> QED BY <2>2, <2>3
<1>2. Steady /\ Times /\ Counted /\ [Next]_vars => Times' /\ Counted'
  BY TimesStep, CountedStep
<1>3. Steady /\ Counted => ReflectedOnce
  <2> SUFFICES ASSUME Steady, Counted, NEW e \in Episode PROVE Cardinality(reflected[e]) <= 1 + failures
    BY DEF ReflectedOnce
  <2>1. Cardinality(reflected[e]) \in Nat /\ failures \in Nat
    BY FS_CardinalityType DEF Counted, Steady, TypeOK
  <2> QED BY <2>1 DEF Counted
<1> QED BY <1>1, <1>2, <1>3, SteadyAlways, PTL DEF Spec
================================================================================
