---------------------------- MODULE ReconcileProofs ----------------------------
(***************************************************************************)
(* Reconcile-at-write for any sessions, memories, answers of Haiku and     *)
(* kills: protected memories stay, successors have files, caps are kept,   *)
(* and mining again copies nothing.                                        *)
(***************************************************************************)
EXTENDS Reconcile, FiniteSetTheorems, SequenceTheorems, TLAPS

USE OwnerAssumption, IdsAssumption, CapsAssumption, BoundsAssumption DEF local, history

\* A queue of m's: candidates of its session, each once.
Queue(m, s) ==
  /\ s \in Seq(Candidate)
  /\ \A i \in DOMAIN s : Owner[s[i]] = m
  /\ \A i, j \in DOMAIN s : s[i] = s[j] => i = j

Queues == \A m \in Miner : Queue(m, queue[m]) /\ Queue(m, batch[m])

\* What a session may yield is a queue of its own candidates.
LEMMA BatchesAreQueues ==
  ASSUME NEW m \in Miner, NEW s \in Batches(m) \cup {<<>>}
  PROVE  Queue(m, s)
<1>1. CASE s = <<>>
  BY <1>1 DEF Queue
<1>2. CASE s \in Batches(m)
  <2>1. PICK n \in 1..MaxBatch : s \in [1..n -> {c \in Candidate : Owner[c] = m}]
    BY <1>2 DEF Batches
  <2>2. n \in Nat /\ s \in [1..n -> Candidate]
    BY <2>1
  <2>3. s \in Seq(Candidate)
    BY <2>2, SeqDef
  <2> QED BY <1>2, <2>1, <2>2, <2>3 DEF Queue, Batches
<1> QED BY <1>1, <1>2

\* What is left when the first candidate is dealt with.
LEMMA TailQueue ==
  ASSUME NEW m \in Miner, NEW s, Queue(m, s), s # <<>>
  PROVE  /\ Head(s) \in Candidate /\ Owner[Head(s)] = m
         /\ Queue(m, Tail(s))
         /\ \A i \in DOMAIN Tail(s) : Tail(s)[i] = s[i + 1] /\ i + 1 \in DOMAIN s /\ Tail(s)[i] # Head(s)
<1>1. s \in Seq(Candidate) /\ Len(s) \in Nat /\ Len(s) > 0 /\ DOMAIN s = 1..Len(s)
  BY DEF Queue
<1>2. Head(s) = s[1] /\ 1 \in DOMAIN s
  BY <1>1
<1>3. /\ Tail(s) \in Seq(Candidate) /\ Len(Tail(s)) = Len(s) - 1
      /\ \A i \in 1..Len(Tail(s)) : Tail(s)[i] = s[i + 1]
  BY <1>1
<1>4. DOMAIN Tail(s) = 1..(Len(s) - 1)
  BY <1>3
<1>5. \A i \in DOMAIN Tail(s) : Tail(s)[i] = s[i + 1] /\ i + 1 \in DOMAIN s /\ i + 1 # 1
  BY <1>1, <1>3, <1>4
<1>6. \A i \in DOMAIN Tail(s) : Owner[Tail(s)[i]] = m /\ Tail(s)[i] # Head(s)
  BY <1>1, <1>2, <1>5 DEF Queue
<1>7. \A i, j \in DOMAIN Tail(s) : Tail(s)[i] = Tail(s)[j] => i = j
  <2> SUFFICES ASSUME NEW i \in DOMAIN Tail(s), NEW j \in DOMAIN Tail(s), Tail(s)[i] = Tail(s)[j]
               PROVE  i = j
    OBVIOUS
  <2>1. i + 1 = j + 1
    BY <1>5 DEF Queue
  <2> QED BY <1>4, <2>1
<1> QED BY <1>1, <1>2, <1>3, <1>5, <1>6, <1>7 DEF Queue

\* A memory told by one fact is a memory.
LEMMA NewType == \A i \in Fact : New(i) \in Memory /\ New(i) # None
<1> SUFFICES ASSUME NEW i \in Fact PROVE New(i) \in Memory /\ New(i) # None
  OBVIOUS
<1>1. New(i) \in Memory
  BY DEF New, Memory
<1> QED BY <1>1

\* A saved candidate has a memory; the other memories are left alone.
LEMMA SavedType ==
  ASSUME vault \in [Id -> Memory \cup {None}], NEW c \in Candidate
  PROVE  /\ Saved(c) \in [Id -> Memory \cup {None}]
         /\ Saved(c)[c] # None
         /\ \A i \in Id : vault[i] # None => Saved(c)[i] = vault[i]
         /\ \A i \in Id : i # c => Saved(c)[i] = vault[i]
         /\ vault[c] = None => Saved(c)[c] = New(c)
<1>1. c \in Id /\ c \in Fact
  BY DEF Id, Fact
<1>2. CASE vault[c] = None
  <2>1. Saved(c) = [vault EXCEPT ![c] = New(c)]
    BY <1>2 DEF Saved
  <2> QED BY <1>1, <1>2, <2>1, NewType
<1>3. CASE vault[c] # None
  BY <1>1, <1>3 DEF Saved
<1> QED BY <1>2, <1>3

Steady == TypeOK /\ Queues

\* The miner forgets its batch, and keeps the types.
LEMMA ForgetType ==
  ASSUME Steady, NEW m \in Miner, Forget(m), UNCHANGED <<raised>>, runs' \in Nat, failures' \in Nat
  PROVE  Steady'
<1>1. Queue(m, <<>>)
  BY DEF Queue
<1>2. /\ batch' \in [Miner -> Seq(Candidate)] /\ queue' \in [Miner -> Seq(Candidate)]
      /\ asked' \in [Miner -> [Id -> Memory \cup {None}]]
      /\ aim' \in [Miner -> Id \cup {None}]
      /\ hits' \in [Miner -> 0..UpdateCap] /\ notes' \in [Miner -> 0..ProfileCap]
      /\ touched' \in [Miner -> SUBSET Id] /\ pc' \in [Miner -> Steps]
  BY DEF Steady, TypeOK, Forget, Goto, Steps
<1>3. \A n \in Miner : pc'[n] = "invalidate" => n # m /\ pc[n] = "invalidate" /\ queue'[n] = queue[n] /\ aim'[n] = aim[n]
  BY DEF Steady, TypeOK, Forget, Goto
<1>4. Queues'
  BY <1>1 DEF Steady, TypeOK, Queues, Forget
<1> QED BY <1>2, <1>3, <1>4 DEF Steady, TypeOK, Forget

\* A counter that may have gone up is still within its cap.
LEMMA UptoType ==
  ASSUME NEW cap, NEW n \in 0..cap, cap \in Nat
  PROVE  Upto(n, cap) \subseteq 0..cap /\ \A k \in Upto(n, cap) : n <= k
BY DEF Upto

\* One action disturbs few variables; the miner m is the one that moves.
THEOREM SteadyAlways == Spec => []Steady
<1>1. Init => Steady
  <2>1. \A m \in Miner : Queue(m, <<>>)
    BY DEF Queue
  <2>2. Init => vault \in [Id -> Memory \cup {None}]
    BY NewType DEF Init, Id, Fact
  <2>3. Init => /\ asked \in [Miner -> [Id -> Memory \cup {None}]] /\ pc \in [Miner -> Steps]
                /\ batch \in [Miner -> Seq(Candidate)] /\ queue \in [Miner -> Seq(Candidate)]
    BY DEF Init, Steps
  <2>4. Init => /\ hits \in [Miner -> 0..UpdateCap] /\ notes \in [Miner -> 0..ProfileCap]
                /\ aim \in [Miner -> Id \cup {None}] /\ touched \in [Miner -> SUBSET Id]
    BY DEF Init
  <2>5. Init => \A m \in Miner : pc[m] # "invalidate"
    BY DEF Init
  <2>6. Init => Queues
    BY <2>1 DEF Init, Queues
  <2>7. Init => profile \in SUBSET Candidate /\ raised \in BOOLEAN
    BY Zenon DEF Init
  <2>8. Init => runs \in Nat /\ failures \in Nat
    BY DEF Init
  <2> QED BY <2>2, <2>3, <2>4, <2>5, <2>6, <2>7, <2>8 DEF Steady, TypeOK
<1>2. Steady /\ [Next]_vars => Steady'
  <2> SUFFICES ASSUME Steady, [Next]_vars PROVE Steady'
    OBVIOUS
  <2>0. TypeOK /\ Queues
    BY DEF Steady
  <2>1. ASSUME NEW m \in Miner, Extract(m) PROVE Steady'
    <3>1. PICK s \in Batches(m) : batch' = [batch EXCEPT ![m] = s] /\ queue' = [queue EXCEPT ![m] = s]
      BY <2>1 DEF Extract
    <3>2. Queue(m, s) /\ s \in Seq(Candidate)
      BY <3>1, BatchesAreQueues DEF Queue
    <3>3. batch' \in [Miner -> Seq(Candidate)] /\ queue' \in [Miner -> Seq(Candidate)] /\ Queues'
      BY <2>0, <3>1, <3>2 DEF TypeOK, Queues
    <3>4. pc' \in [Miner -> Steps] /\ \A n \in Miner : pc'[n] = "invalidate" => n # m /\ pc[n] = "invalidate"
      BY <2>0, <2>1 DEF Extract, Goto, TypeOK, Steps
    <3> QED BY <2>0, <2>1, <3>1, <3>3, <3>4 DEF Extract, Steady, TypeOK
  <2>2. ASSUME NEW m \in Miner, Filter(m) PROVE Steady'
    <3>1. PICK s \in Batches(m) \cup {<<>>} : queue' = [queue EXCEPT ![m] = s]
      BY <2>2 DEF Filter
    <3>2. Queue(m, s) /\ s \in Seq(Candidate)
      BY <3>1, BatchesAreQueues DEF Queue
    <3>3. queue' \in [Miner -> Seq(Candidate)] /\ Queues'
      BY <2>0, <2>2, <3>1, <3>2 DEF TypeOK, Queues, Filter
    <3>4. pc' \in [Miner -> Steps] /\ \A n \in Miner : pc'[n] = "invalidate" => n # m /\ pc[n] = "invalidate"
      BY <2>0, <2>2 DEF Filter, Goto, TypeOK, Steps
    <3>5. asked' \in [Miner -> [Id -> Memory \cup {None}]]
      BY <2>0, <2>2 DEF Filter, TypeOK
    <3> QED BY <2>0, <2>2, <3>1, <3>3, <3>4, <3>5 DEF Filter, Steady, TypeOK
  <2>3. ASSUME NEW m \in Miner, Answer(m) PROVE Steady'
    <3>1. pc' \in [Miner -> Steps] /\ \A n \in Miner : pc'[n] = "invalidate" => n # m /\ pc[n] = "invalidate"
      BY <2>0, <2>3 DEF Answer, Goto, TypeOK, Steps
    <3> QED BY <2>0, <2>3, <3>1 DEF Answer, Steady, TypeOK, Queues
  \* The steps that deal with a candidate.
  <2> DEFINE Popped(m) == /\ queue[m] # <<>> /\ Pop(m) /\ UNCHANGED batch
                          /\ pc' \in [Miner -> Steps]
                          /\ \A n \in Miner : pc'[n] = "invalidate" => n # m /\ pc[n] = "invalidate"
  <2>4. ASSUME NEW m \in Miner, Popped(m)
        PROVE  /\ queue' \in [Miner -> Seq(Candidate)] /\ batch' \in [Miner -> Seq(Candidate)] /\ Queues'
               /\ \A n \in Miner : pc'[n] = "invalidate" => n # m /\ pc[n] = "invalidate" /\ queue'[n] # <<>>
    <3>1. Queue(m, queue[m]) /\ queue[m] # <<>>
      BY <2>0, <2>4 DEF Queues
    <3>2. Queue(m, Tail(queue[m])) /\ Tail(queue[m]) \in Seq(Candidate)
      BY <3>1, TailQueue DEF Queue
    <3>3. queue' = [queue EXCEPT ![m] = Tail(queue[m])] /\ batch' = batch
      BY <2>4 DEF Pop
    <3> QED BY <2>0, <2>4, <3>2, <3>3 DEF TypeOK, Queues
  <2> DEFINE Kept == \A i \in Id : vault[i] # None => vault'[i] # None
  <2>5. ASSUME NEW m \in Miner, Add(m) PROVE Steady'
    <3>1. PICK c \in Candidate : Executes(m, c) /\ vault' = Saved(c)
      BY <2>5 DEF Add
    <3>2. vault' \in [Id -> Memory \cup {None}] /\ Kept
      BY <2>0, <3>1, SavedType DEF TypeOK
    <3>3. Popped(m)
      BY <2>0, <2>5, <3>1 DEF Add, Executes, TypeOK
    <3>4. notes' \in [Miner -> 0..ProfileCap]
      <4>1. PICK n \in Upto(notes[m], ProfileCap) : notes' = [notes EXCEPT ![m] = n]
        BY <2>5 DEF Add
      <4>2. n \in 0..ProfileCap
        BY <2>0, UptoType, CapsAssumption DEF TypeOK
      <4> QED BY <2>0, <4>1, <4>2 DEF TypeOK
    <3> QED BY <2>0, <2>4, <2>5, <3>2, <3>3, <3>4 DEF Add, Steady, TypeOK
  <2>6. ASSUME NEW m \in Miner, Update(m) PROVE Steady'
    <3>1. PICK c \in Candidate, t \in Id :
            /\ Executes(m, c) /\ Usable(m, t)
            /\ \E text \in Merged(m, t, c) : ~TooShort(text, t) /\ vault' = [vault EXCEPT ![t].says = text]
            /\ touched' = [touched EXCEPT ![m] = @ \cup {t}]
      BY <2>6 DEF Update
    <3>2. PICK text \in Merged(m, t, c) : vault' = [vault EXCEPT ![t].says = text]
      BY <3>1
    <3>3. vault[t] \in Memory /\ text \in SUBSET Fact
      BY <2>0, <3>1, <3>2 DEF TypeOK, Usable, Merged, Memory, Fact
    <3>4. vault' = [vault EXCEPT ![t] = [vault[t] EXCEPT !.says = text]]
      BY <3>2
    <3>5. [vault[t] EXCEPT !.says = text] \in Memory
      BY <3>3 DEF Memory
    <3>6. vault' \in [Id -> Memory \cup {None}] /\ Kept
      BY <2>0, <3>4, <3>5 DEF TypeOK
    <3>7. Popped(m)
      BY <2>0, <2>6, <3>1 DEF Update, Executes, TypeOK
    <3> HIDE DEF Popped, Kept
    <3>9. hits' = [hits EXCEPT ![m] = hits[m] + 1] /\ hits[m] + 1 \in 0..UpdateCap
      <4>1. hits' = [hits EXCEPT ![m] = hits[m] + 1]
        BY <2>6 DEF Update
      <4>2. hits[m] \in 0..UpdateCap /\ hits[m] < UpdateCap
        BY <2>0, <3>1 DEF Usable, TypeOK
      <4> QED BY <4>1, <4>2, CapsAssumption
    <3> USE DEF Popped, Kept
    <3>10. hits' \in [Miner -> 0..UpdateCap]
      BY <2>0, <3>9 DEF TypeOK
    <3>11. touched[m] \cup {t} \in SUBSET Id
      BY <2>0 DEF TypeOK
    <3>8. hits' \in [Miner -> 0..UpdateCap] /\ touched' \in [Miner -> SUBSET Id]
      BY <2>0, <3>1, <3>10, <3>11 DEF TypeOK
    <3> QED BY <2>0, <2>4, <2>6, <3>6, <3>7, <3>8 DEF Update, Steady, TypeOK
  <2>7. ASSUME NEW m \in Miner, Supersede(m) PROVE Steady'
    <3>1. PICK c \in Candidate, t \in Id :
            /\ Executes(m, c) /\ Usable(m, t) /\ vault' = Saved(c) /\ aim' = [aim EXCEPT ![m] = t]
      BY <2>7 DEF Supersede
    <3>2. vault' \in [Id -> Memory \cup {None}] /\ Kept
      BY <2>0, <3>1, SavedType DEF TypeOK
    <3>3. /\ hits' \in [Miner -> 0..UpdateCap] /\ aim' \in [Miner -> Id \cup {None}] /\ pc' \in [Miner -> Steps]
          /\ pc' = [pc EXCEPT ![m] = "invalidate"]
      <4>1. hits' = [hits EXCEPT ![m] = hits[m] + 1]
        BY <2>7 DEF Supersede
      <4>2. hits[m] \in 0..UpdateCap /\ hits[m] < UpdateCap
        BY <2>0, <3>1 DEF Usable, TypeOK
      <4>3. hits[m] + 1 \in 0..UpdateCap
        BY <4>2, CapsAssumption
      <4>4. hits' \in [Miner -> 0..UpdateCap]
        BY <2>0, <4>1, <4>3 DEF TypeOK
      <4>5. aim' \in [Miner -> Id \cup {None}]
        BY <2>0, <3>1 DEF TypeOK
      <4>6. pc' = [pc EXCEPT ![m] = "invalidate"]
        BY <2>7 DEF Supersede, Goto
      <4>7. pc' \in [Miner -> Steps]
        BY <2>0, <4>6 DEF TypeOK, Steps
      <4> QED BY <4>4, <4>5, <4>6, <4>7
    <3>4. aim'[m] = t /\ vault[t] # None /\ queue[m] # <<>>
      BY <2>0, <3>1 DEF Usable, Executes, TypeOK
    <3>5. ASSUME NEW n \in Miner, pc'[n] = "invalidate"
          PROVE  queue'[n] # <<>> /\ aim'[n] \in Id /\ vault'[aim'[n]] # None
      <4>1. queue' = queue
        BY <2>7 DEF Supersede
      <4>2. CASE n = m
        BY <3>2, <3>4, <4>1, <4>2
      <4>3. CASE n # m
        <5>1. pc[n] = "invalidate" /\ aim'[n] = aim[n]
          BY <2>0, <3>1, <3>3, <3>5, <4>3 DEF TypeOK
        <5>2. queue[n] # <<>> /\ aim[n] \in Id /\ vault[aim[n]] # None
          BY <2>0, <5>1 DEF TypeOK
        <5> QED BY <3>2, <4>1, <5>1, <5>2
      <4> QED BY <4>2, <4>3
    <3> QED BY <2>0, <2>7, <3>2, <3>3, <3>5 DEF Supersede, Steady, TypeOK, Queues
  <2>8. ASSUME NEW m \in Miner, Invalidate(m) PROVE Steady'
    <3>1. /\ queue[m] # <<>> /\ aim[m] \in Id /\ vault[aim[m]] # None
          /\ vault' = [vault EXCEPT ![aim[m]].valid = FALSE, ![aim[m]].by = Head(queue[m])]
      BY <2>0, <2>8 DEF Invalidate, TypeOK
    <3> DEFINE t == aim[m]
               old == [vault[t] EXCEPT !.valid = FALSE, !.by = Head(queue[m])]
    <3>2. Head(queue[m]) \in Id /\ vault[t] \in Memory
      <4>1. Queue(m, queue[m])
        BY <2>0 DEF Queues
      <4>2. Head(queue[m]) \in Id
        BY <3>1, <4>1, TailQueue DEF Id
      <4>3. vault[t] \in Memory
        BY <2>0, <3>1 DEF TypeOK
      <4> QED BY <4>2, <4>3
    <3>3. vault' = [vault EXCEPT ![t] = old]
      BY <2>0, <3>1 DEF TypeOK
    <3>4. old \in Memory
      BY <3>2 DEF Memory
    <3>11. t \in Id /\ vault[t] # None /\ old # None
      BY <3>1, <3>4
    <3> HIDE DEF old, t
    <3>5. vault' \in [Id -> Memory \cup {None}] /\ Kept
      BY <2>0, <3>3, <3>4, <3>11 DEF TypeOK
    <3>12. pc' = [pc EXCEPT ![m] = "step"]
      BY <2>8 DEF Invalidate, Goto
    <3>13. pc' \in [Miner -> Steps] /\ \A n \in Miner : pc'[n] = "invalidate" => n # m /\ pc[n] = "invalidate"
      BY <2>0, <3>12 DEF TypeOK, Steps
    <3>6. Popped(m)
      BY <2>8, <3>1, <3>13 DEF Invalidate
    <3>7. aim' \in [Miner -> Id \cup {None}] /\ touched' \in [Miner -> SUBSET Id]
      <4>1. aim' = [aim EXCEPT ![m] = None] /\ touched' = [touched EXCEPT ![m] = touched[m] \cup {aim[m]}]
        BY <2>8 DEF Invalidate
      <4>2. touched[m] \cup {aim[m]} \in SUBSET Id
        BY <2>0, <3>1 DEF TypeOK
      <4> QED BY <2>0, <4>1, <4>2 DEF TypeOK
    <3>8. \A n \in Miner : n # m => aim'[n] = aim[n]
      BY <2>0, <2>8 DEF Invalidate, TypeOK
    <3> HIDE DEF Popped, Kept
    <3>9. /\ queue' \in [Miner -> Seq(Candidate)] /\ batch' \in [Miner -> Seq(Candidate)] /\ Queues'
          /\ \A n \in Miner : pc'[n] = "invalidate" => n # m /\ pc[n] = "invalidate" /\ queue'[n] # <<>>
          /\ pc' \in [Miner -> Steps]
      BY <2>4, <3>6 DEF Popped
    <3>10. \A n \in Miner : pc'[n] = "invalidate" =>
            queue'[n] # <<>> /\ aim'[n] \in Id /\ vault'[aim'[n]] # None
      BY <2>0, <3>5, <3>8, <3>9 DEF TypeOK, Kept
    <3> QED BY <2>0, <2>8, <3>5, <3>7, <3>9, <3>10 DEF Invalidate, Steady, TypeOK
  <2>9. ASSUME NEW m \in Miner, Noop(m) PROVE Steady'
    <3>1. Popped(m)
      BY <2>0, <2>9 DEF Noop, Executes, TypeOK
    <3> QED BY <2>0, <2>4, <2>9, <3>1 DEF Noop, Steady, TypeOK
  <2>10. ASSUME NEW m \in Miner, Note(m) PROVE Steady'
    <3>1. Popped(m)
      BY <2>0, <2>10 DEF Note, Executes, TypeOK
    <3>2. profile' \in SUBSET Candidate /\ notes' \in [Miner -> 0..ProfileCap]
      BY <2>0, <2>10 DEF Note, TypeOK
    <3> QED BY <2>0, <2>4, <2>10, <3>1, <3>2 DEF Note, Steady, TypeOK
  <2>11. ASSUME NEW m \in Miner, Swallow(m) PROVE Steady'
    <3>1. Popped(m)
      BY <2>0, <2>11 DEF Swallow, Goto, TypeOK, Steps
    <3>2. /\ aim' \in [Miner -> Id \cup {None}] /\ failures' \in Nat
          /\ \A n \in Miner : n # m => aim'[n] = aim[n]
      BY <2>0, <2>11 DEF Swallow, TypeOK
    <3>3. hits' \in [Miner -> 0..UpdateCap] /\ notes' \in [Miner -> 0..ProfileCap]
      <4>1. PICK h \in Upto(hits[m], UpdateCap), n \in Upto(notes[m], ProfileCap) :
              /\ hits' = [hits EXCEPT ![m] = h]
              /\ notes' = [notes EXCEPT ![m] = n]
        BY <2>11 DEF Swallow
      <4>2. h \in 0..UpdateCap /\ n \in 0..ProfileCap
        BY <2>0, UptoType, CapsAssumption DEF TypeOK
      <4> QED BY <2>0, <4>1, <4>2 DEF TypeOK
    <3> QED BY <2>0, <2>4, <2>11, <3>1, <3>2, <3>3 DEF Swallow, Steady, TypeOK
  <2>12. ASSUME NEW m \in Miner, Raise(m) PROVE Steady'
    <3>1. /\ pc' \in [Miner -> Steps] /\ queue' \in [Miner -> Seq(Candidate)]
          /\ failures' \in Nat /\ raised' \in BOOLEAN
      BY <2>0, <2>12 DEF Raise, Goto, TypeOK, Steps
    <3>2. \A n \in Miner : pc'[n] = "invalidate" => n # m /\ pc[n] = "invalidate" /\ queue'[n] = queue[n]
      BY <2>0, <2>12 DEF Raise, Goto, TypeOK
    <3>3. Queues'
      BY <2>0, <2>12 DEF Raise, TypeOK, Queues
    <3> QED BY <2>0, <2>12, <3>1, <3>2, <3>3 DEF Raise, Steady, TypeOK
  <2>13. ASSUME NEW m \in Miner, FallbackAdd(m) PROVE Steady'
    <3>1. PICK i \in Fresh : vault[i] = None /\ vault' = [vault EXCEPT ![i] = New(Head(queue[m]))]
      BY <2>13 DEF FallbackAdd
    <3>2. Popped(m)
      BY <2>0, <2>13 DEF FallbackAdd, TypeOK
    <3>3. Head(queue[m]) \in Fact
      BY <2>0, <2>13, TailQueue DEF FallbackAdd, Queues, Fact
    <3>4. vault' \in [Id -> Memory \cup {None}] /\ Kept
      BY <2>0, <3>1, <3>3, NewType DEF TypeOK
    <3> QED BY <2>0, <2>4, <2>13, <3>2, <3>4 DEF FallbackAdd, Steady, TypeOK
  <2>14. ASSUME NEW m \in Miner, Finish(m) PROVE Steady'
    BY <2>0, <2>14, ForgetType DEF Finish, TypeOK
  <2>15. ASSUME NEW m \in Miner, Crash(m) PROVE Steady'
    BY <2>0, <2>15, ForgetType DEF Crash, TypeOK
  <2>16. CASE UNCHANGED vars
    BY <2>0, <2>16 DEF vars, Steady, TypeOK, Queues
  <2> QED
    BY <2>1, <2>2, <2>3, <2>5, <2>6, <2>7, <2>8, <2>9, <2>10, <2>11, <2>12, <2>13, <2>14, <2>15, <2>16
    DEF Next, Execute
<1> QED BY <1>1, <1>2, PTL DEF Spec

\* The variables keep their types, for any sessions and any answers.
THEOREM TypeCorrect == Spec => []TypeOK
<1>1. Steady => TypeOK
  BY DEF Steady
<1> QED BY <1>1, SteadyAlways, PTL
--------------------------------------------------------------------------------
(***************************************************************************)
(* What a step does to the vault.                                          *)
(***************************************************************************)

\* The memory i is as it was, or a batch of m has changed it: rewritten by an update
\* within the rails, or invalidated with a successor.
Rewritten(m, i) ==
  /\ i \notin Pinned /\ vault[i] # None /\ hits[m] < UpdateCap
  /\ \E text \in SUBSET Fact : vault'[i] = [vault[i] EXCEPT !.says = text]

Retired(m, i) ==
  /\ pc[m] = "invalidate" /\ i = aim[m]
  /\ vault'[i] = [vault[i] EXCEPT !.valid = FALSE, !.by = Head(queue[m])]

Born(i) == vault[i] = None /\ i \notin Old /\ \E c \in Candidate : vault'[i] = New(c)

\* A step leaves a memory as it is, brings it, or changes it in one of two ways.
LEMMA VaultStep ==
  ASSUME Steady, [Next]_vars, NEW i \in Id
  PROVE  vault'[i] = vault[i] \/ Born(i) \/ \E m \in Miner : Rewritten(m, i) \/ Retired(m, i)
<1>0. TypeOK /\ Queues
  BY DEF Steady
<1>1. ASSUME NEW m \in Miner, NEW c \in Candidate, vault' = Saved(c)
      PROVE  vault'[i] = vault[i] \/ Born(i)
  <2>1. CASE i = c
    <3>1. vault[c] = None => vault'[c] = New(c)
      BY <1>0, <1>1, SavedType DEF TypeOK
    <3>2. vault[c] # None => vault'[c] = vault[c]
      BY <1>1 DEF Saved
    <3> QED BY <2>1, <3>1, <3>2 DEF Born
  <2>2. CASE i # c
    BY <1>0, <1>1, <2>2, SavedType DEF TypeOK
  <2> QED BY <2>1, <2>2
<1>2. ASSUME NEW m \in Miner, Add(m) PROVE vault'[i] = vault[i] \/ Born(i)
  BY <1>1, <1>2 DEF Add
<1>3. ASSUME NEW m \in Miner, Supersede(m) PROVE vault'[i] = vault[i] \/ Born(i)
  BY <1>1, <1>3 DEF Supersede
<1>4. ASSUME NEW m \in Miner, Update(m) PROVE vault'[i] = vault[i] \/ Rewritten(m, i)
  <2>1. PICK c \in Candidate, t \in Id :
          /\ Usable(m, t)
          /\ \E text \in Merged(m, t, c) : ~TooShort(text, t) /\ vault' = [vault EXCEPT ![t].says = text]
    BY <1>4 DEF Update
  <2>2. PICK text \in Merged(m, t, c) : vault' = [vault EXCEPT ![t].says = text]
    BY <2>1
  <2>3. text \in SUBSET Fact
    BY <1>0, <2>2 DEF TypeOK, Merged, Memory, Fact
  <2>4. CASE i = t
    BY <1>0, <2>1, <2>2, <2>3, <2>4 DEF TypeOK, Usable, Rewritten
  <2>5. CASE i # t
    BY <1>0, <2>2, <2>5 DEF TypeOK
  <2> QED BY <2>4, <2>5
<1>5. ASSUME NEW m \in Miner, Invalidate(m) PROVE vault'[i] = vault[i] \/ Retired(m, i)
  <2>1. aim[m] \in Id /\ vault' = [vault EXCEPT ![aim[m]].valid = FALSE, ![aim[m]].by = Head(queue[m])]
    BY <1>0, <1>5 DEF TypeOK, Invalidate
  <2>2. CASE i = aim[m]
    BY <1>0, <1>5, <2>1, <2>2 DEF TypeOK, Retired, Invalidate
  <2>3. CASE i # aim[m]
    BY <1>0, <2>1, <2>3 DEF TypeOK
  <2> QED BY <2>2, <2>3
<1>6. ASSUME NEW m \in Miner, FallbackAdd(m) PROVE vault'[i] = vault[i] \/ Born(i)
  <2>1. PICK f \in Fresh : vault[f] = None /\ vault' = [vault EXCEPT ![f] = New(Head(queue[m]))]
    BY <1>6 DEF FallbackAdd
  <2>2. Head(queue[m]) \in Candidate
    BY <1>0, <1>6, TailQueue DEF FallbackAdd, Queues
  <2> QED BY <1>0, <2>1, <2>2 DEF TypeOK, Born
<1>7. ASSUME NEW m \in Miner,
             Extract(m) \/ Filter(m) \/ Answer(m) \/ Noop(m) \/ Note(m) \/ Swallow(m)
               \/ Raise(m) \/ Finish(m) \/ Crash(m)
      PROVE  vault' = vault
  BY <1>7 DEF Extract, Filter, Answer, Noop, Note, Swallow, Raise, Finish, Crash, Forget
<1>8. CASE UNCHANGED vars
  BY <1>8 DEF vars
<1> QED BY <1>2, <1>3, <1>4, <1>5, <1>6, <1>7, <1>8 DEF Next, Execute

\* A memory that is there stays, and an invalid one stays invalid.
LEMMA VaultGrows ==
  ASSUME Steady, [Next]_vars, NEW i \in Id, vault[i] # None
  PROVE  /\ vault'[i] # None
         /\ ~vault[i].valid => ~vault'[i].valid
<1>1. vault[i] \in Memory
  BY DEF Steady, TypeOK
<1>2. ASSUME NEW m \in Miner, Rewritten(m, i)
      PROVE  vault'[i] # None /\ (~vault[i].valid => ~vault'[i].valid)
  BY <1>1, <1>2 DEF Rewritten, Memory
<1>3. ASSUME NEW m \in Miner, Retired(m, i)
      PROVE  vault'[i] # None /\ (~vault[i].valid => ~vault'[i].valid)
  <2>1. Head(queue[m]) \in Id
    BY <1>3, TailQueue DEF Retired, Steady, TypeOK, Queues, Id
  <2>2. vault'[i] = [vault[i] EXCEPT !.valid = FALSE, !.by = Head(queue[m])]
    BY <1>3 DEF Retired
  <2>3. vault'[i] \in Memory /\ ~vault'[i].valid
    BY <1>1, <2>1, <2>2 DEF Memory
  <2>4. None \notin Memory
    BY IdsAssumption
  <2> QED BY <2>3, <2>4
<1> QED BY <1>1, <1>2, <1>3, VaultStep DEF Born

\* Mining again brings no superseded memory back.
THEOREM NeverRevived == Spec => NotRevived
<1>1. Steady /\ [Next]_vars =>
        [\A i \in Id : vault[i] # None /\ ~vault[i].valid => vault'[i] # None /\ ~vault'[i].valid]_vars
  BY VaultGrows
<1> QED BY <1>1, SteadyAlways, PTL DEF Spec, NotRevived
--------------------------------------------------------------------------------
(***************************************************************************)
(* Protected memories, successors and the cap.                             *)
(***************************************************************************)

\* No miner aims at a protected memory.
Spared == PinnedKept /\ \A m \in Miner : aim[m] \notin Pinned

\* No answer of Haiku changes a protected memory.
THEOREM PinnedSafe == Spec => []PinnedKept
<1>0. None \notin Pinned /\ Pinned \subseteq Id
  BY DEF Id
<1>1. Init => Spared
  BY <1>0 DEF Init, Spared, PinnedKept
<1>2. Steady /\ Spared /\ [Next]_vars => Spared'
  <2> SUFFICES ASSUME Steady, Spared, [Next]_vars PROVE Spared'
    OBVIOUS
  <2>0. TypeOK
    BY DEF Steady
  <2>1. PinnedKept'
    <3> SUFFICES ASSUME NEW i \in Pinned PROVE vault'[i] = New(i)
      BY DEF PinnedKept
    <3>1. vault[i] = New(i) /\ vault[i] # None
      BY NewType DEF Spared, PinnedKept, Fact
    <3>2. \A m \in Miner : ~Rewritten(m, i) /\ ~Retired(m, i)
      BY DEF Rewritten, Retired, Spared
    <3>3. i \in Id
      BY <1>0
    <3> QED BY <3>1, <3>2, <3>3, VaultStep DEF Born
  <2>2. ASSUME NEW n \in Miner, Supersede(n) PROVE \A m \in Miner : aim'[m] \notin Pinned
    BY <2>0, <2>2 DEF Supersede, Usable, Spared, TypeOK
  <2>3. ASSUME NEW n \in Miner, Invalidate(n) \/ Swallow(n) \/ Forget(n)
        PROVE  \A m \in Miner : aim'[m] \notin Pinned
    BY <1>0, <2>0, <2>3 DEF Invalidate, Swallow, Forget, Spared, TypeOK
  <2>4. ASSUME UNCHANGED aim PROVE \A m \in Miner : aim'[m] \notin Pinned
    BY <2>4 DEF Spared
  <2>5. \A m \in Miner : aim'[m] \notin Pinned
    BY <2>2, <2>3, <2>4
    DEF Next, Execute, Extract, Filter, Answer, Add, Update, Noop, Note, Raise, FallbackAdd,
        Finish, Crash, vars
  <2> QED BY <2>1, <2>5 DEF Spared
<1>3. Spared => PinnedKept
  BY DEF Spared
<1> QED BY <1>1, <1>2, <1>3, SteadyAlways, PTL DEF Spec

\* A miner about to invalidate has saved the successor.
Awaited == \A m \in Miner : pc[m] = "invalidate" => vault[Head(queue[m])] # None
Succeeded == SuccessorSaved /\ Awaited

\* What an invalidated memory names as its successor has a file.
THEOREM SuccessorHasFile == Spec => []SuccessorSaved
<1>1. Init => Succeeded
  <2> SUFFICES ASSUME Init PROVE Succeeded
    OBVIOUS
  <2>1. ASSUME NEW i \in Id, vault[i] # None PROVE vault[i].valid
    BY <2>1 DEF Init, New
  <2> QED BY <2>1 DEF Init, Succeeded, SuccessorSaved, Awaited
<1>2. Steady /\ Succeeded /\ [Next]_vars => Succeeded'
  <2> SUFFICES ASSUME Steady, Succeeded, [Next]_vars PROVE Succeeded'
    OBVIOUS
  <2>0. TypeOK /\ Queues
    BY DEF Steady
  <2>1. SuccessorSaved'
    <3> SUFFICES ASSUME NEW i \in Id, vault'[i] # None, ~vault'[i].valid
                 PROVE  vault'[i].by \in Id /\ vault'[vault'[i].by] # None
      BY DEF SuccessorSaved
    <3>1. ~Born(i)
      <4>1. \A c \in Candidate : New(c).valid = TRUE
        BY DEF New
      <4> QED BY <4>1, Zenon DEF Born
    <3>2. CASE vault'[i] = vault[i]
      <4>0. vault[i] # None /\ ~vault[i].valid
        BY <3>2
      <4>1. vault[i].by \in Id /\ vault[vault[i].by] # None
        BY <4>0 DEF Succeeded, SuccessorSaved
      <4> QED BY <3>2, <4>1, VaultGrows
    <3>3. ASSUME NEW m \in Miner, Rewritten(m, i)
          PROVE  vault'[i].by \in Id /\ vault'[vault'[i].by] # None
      <4>1. vault[i] \in Memory
        BY <2>0, <3>3 DEF Rewritten, TypeOK
      <4>2. vault'[i].by = vault[i].by /\ ~vault[i].valid /\ vault[i] # None
        BY <3>3, <4>1 DEF Rewritten, Memory
      <4>3. vault[i].by \in Id /\ vault[vault[i].by] # None
        BY <4>2 DEF Succeeded, SuccessorSaved
      <4> QED BY <4>2, <4>3, VaultGrows
    <3>4. ASSUME NEW m \in Miner, Retired(m, i)
          PROVE  vault'[i].by \in Id /\ vault'[vault'[i].by] # None
      <4>1. Head(queue[m]) \in Id /\ vault[Head(queue[m])] # None
        BY <2>0, <3>4, TailQueue DEF Retired, TypeOK, Queues, Id, Succeeded, Awaited
      <4>2. vault[i] \in Memory
        BY <2>0, <3>4 DEF Retired, TypeOK
      <4>3. vault'[i].by = Head(queue[m])
        BY <3>4, <4>2 DEF Retired, Memory
      <4> QED BY <4>1, <4>3, VaultGrows
    <3> QED BY <3>1, <3>2, <3>3, <3>4, VaultStep
  <2>2. ASSUME NEW n \in Miner, Supersede(n) PROVE Awaited'
    <3>1. PICK c \in Candidate : Executes(n, c) /\ vault' = Saved(c)
      BY <2>2 DEF Supersede
    <3>2. c = Head(queue[n]) /\ UNCHANGED queue /\ vault'[c] # None
      BY <2>0, <2>2, <3>1, SavedType DEF Supersede, Executes, TypeOK
    <3>3. ASSUME NEW m \in Miner, m # n, pc'[m] = "invalidate" PROVE vault'[Head(queue'[m])] # None
      <4>1. pc[m] = "invalidate" /\ Head(queue[m]) \in Id
        BY <2>0, <2>2, <3>3, TailQueue DEF Supersede, Goto, TypeOK, Queues, Id
      <4> QED BY <3>2, <4>1, VaultGrows DEF Succeeded, Awaited
    <3> QED BY <3>2, <3>3 DEF Awaited
  <2>3. ASSUME NEW n \in Miner, pc'[n] # "invalidate",
               \A m \in Miner : m # n => pc'[m] = pc[m] /\ queue'[m] = queue[m]
        PROVE  Awaited'
    <3> SUFFICES ASSUME NEW m \in Miner, pc'[m] = "invalidate" PROVE vault'[Head(queue'[m])] # None
      BY DEF Awaited
    <3>1. m # n /\ pc[m] = "invalidate" /\ queue'[m] = queue[m]
      BY <2>3
    <3>2. Head(queue[m]) \in Id /\ vault[Head(queue[m])] # None
      BY <2>0, <3>1, TailQueue DEF TypeOK, Queues, Id, Succeeded, Awaited
    <3> QED BY <3>1, <3>2, VaultGrows
  <2>4. ASSUME NEW n \in Miner, Extract(n) \/ Filter(n) \/ Answer(n) PROVE Awaited'
    BY <2>0, <2>3, <2>4 DEF Extract, Filter, Answer, Goto, TypeOK
  <2>5. ASSUME NEW n \in Miner, Add(n) \/ Update(n) \/ Noop(n) \/ Note(n) PROVE Awaited'
    BY <2>0, <2>3, <2>5 DEF Add, Update, Noop, Note, Executes, Pop, TypeOK
  <2>6. ASSUME NEW n \in Miner, Invalidate(n) \/ Swallow(n) \/ Raise(n) PROVE Awaited'
    BY <2>0, <2>3, <2>6 DEF Invalidate, Swallow, Raise, Goto, Pop, TypeOK
  <2>7. ASSUME NEW n \in Miner, FallbackAdd(n) \/ Finish(n) \/ Crash(n) PROVE Awaited'
    BY <2>0, <2>3, <2>7 DEF FallbackAdd, Finish, Crash, Forget, Goto, Pop, TypeOK
  <2>8. ASSUME UNCHANGED vars PROVE Awaited'
    <3>1. UNCHANGED <<vault, pc, queue>>
      BY <2>8 DEF vars
    <3> QED BY <3>1 DEF Succeeded, Awaited
  <2>9. Awaited'
    BY <2>2, <2>4, <2>5, <2>6, <2>7, <2>8 DEF Next, Execute
  <2> QED BY <2>1, <2>9 DEF Succeeded
<1>3. Succeeded => SuccessorSaved
  BY DEF Succeeded
<1> QED BY <1>1, <1>2, <1>3, SteadyAlways, PTL DEF Spec

\* hits counts the memories a batch has changed, and the one it is about to.
Counted ==
  \A m \in Miner :
    /\ IsFiniteSet(touched[m])
    /\ Cardinality(touched[m]) <= hits[m]
    /\ pc[m] = "invalidate" => Cardinality(touched[m]) + 1 <= hits[m]

\* One element more, or none, is at most one more.
LEMMA OneMore ==
  ASSUME NEW S, IsFiniteSet(S), NEW x
  PROVE  /\ IsFiniteSet(S \cup {x})
         /\ Cardinality(S) \in Nat
         /\ Cardinality(S \cup {x}) \in Nat
         /\ Cardinality(S \cup {x}) <= Cardinality(S) + 1
<1>1. /\ IsFiniteSet(S \cup {x})
      /\ Cardinality(S \cup {x}) = IF x \in S THEN Cardinality(S) ELSE Cardinality(S) + 1
  BY FS_AddElement, Zenon
<1>2. Cardinality(S) \in Nat
  BY FS_CardinalityType, Zenon
<1> QED BY <1>1, <1>2

\* A batch changes at most UpdateCap memories.
THEOREM CapHolds == Spec => []WithinCap
<1>1. Init => Counted
  <2>1. IsFiniteSet({}) /\ Cardinality({}) = 0
    BY FS_EmptySet
  <2> QED BY <2>1 DEF Init, Counted
<1>2. Steady /\ Counted /\ [Next]_vars => Counted'
  <2> SUFFICES ASSUME Steady, Counted, [Next]_vars PROVE Counted'
    OBVIOUS
  <2>0. TypeOK
    BY DEF Steady
  <2>1. ASSUME NEW n \in Miner,
               \A m \in Miner : m # n => pc'[m] = pc[m] /\ touched'[m] = touched[m] /\ hits'[m] = hits[m],
               IsFiniteSet(touched'[n]),
               Cardinality(touched'[n]) <= hits'[n],
               pc'[n] = "invalidate" => Cardinality(touched'[n]) + 1 <= hits'[n]
        PROVE  Counted'
    BY <2>1 DEF Counted
  <2>2. ASSUME NEW n \in Miner, UNCHANGED <<touched, hits>>, pc'[n] # "invalidate",
               \A m \in Miner : m # n => pc'[m] = pc[m]
        PROVE  Counted'
    BY <2>1, <2>2 DEF Counted
  <2>3. ASSUME NEW n \in Miner, Extract(n) \/ Filter(n) \/ Answer(n) PROVE Counted'
    BY <2>0, <2>2, <2>3 DEF Extract, Filter, Answer, Goto, TypeOK
  <2>4. ASSUME NEW n \in Miner, Add(n) \/ Noop(n) \/ Note(n) PROVE Counted'
    BY <2>0, <2>2, <2>4 DEF Add, Noop, Note, Executes, TypeOK
  <2>5. ASSUME NEW n \in Miner, Update(n) PROVE Counted'
    <3>1. PICK t \in Id : touched' = [touched EXCEPT ![n] = touched[n] \cup {t}]
      BY <2>5 DEF Update
    <3>2. pc[n] = "step" /\ pc' = pc /\ hits' = [hits EXCEPT ![n] = hits[n] + 1]
      BY <2>5 DEF Update, Executes
    <3>3. touched'[n] = touched[n] \cup {t} /\ hits'[n] = hits[n] + 1 /\ hits[n] \in Nat
      BY <2>0, <3>1, <3>2 DEF TypeOK
    <3>4. \A m \in Miner : m # n => pc'[m] = pc[m] /\ touched'[m] = touched[m] /\ hits'[m] = hits[m]
      BY <2>0, <3>1, <3>2 DEF TypeOK
    <3>5. IsFiniteSet(touched[n]) /\ Cardinality(touched[n]) <= hits[n]
      BY DEF Counted
    <3>6. /\ IsFiniteSet(touched'[n])
          /\ Cardinality(touched[n]) \in Nat
          /\ Cardinality(touched'[n]) \in Nat
          /\ Cardinality(touched'[n]) <= Cardinality(touched[n]) + 1
      <4>1. /\ IsFiniteSet(touched[n] \cup {t})
            /\ Cardinality(touched[n]) \in Nat
            /\ Cardinality(touched[n] \cup {t}) \in Nat
            /\ Cardinality(touched[n] \cup {t}) <= Cardinality(touched[n]) + 1
        BY <3>5, OneMore
      <4> QED BY <3>3, <4>1, Zenon
    <3>7. Cardinality(touched'[n]) <= hits'[n]
      BY <3>3, <3>5, <3>6
    <3>8. pc'[n] # "invalidate"
      BY <3>2
    <3> QED BY <2>1, <3>4, <3>6, <3>7, <3>8, Zenon
  <2>6. ASSUME NEW n \in Miner, Supersede(n) PROVE Counted'
    <3>1. UNCHANGED touched /\ hits' = [hits EXCEPT ![n] = hits[n] + 1]
      BY <2>6 DEF Supersede
    <3>2. pc' = [pc EXCEPT ![n] = "invalidate"]
      BY <2>6 DEF Supersede, Goto
    <3>3. touched'[n] = touched[n] /\ hits'[n] = hits[n] + 1 /\ hits[n] \in Nat
      BY <2>0, <3>1 DEF TypeOK
    <3>4. \A m \in Miner : m # n => pc'[m] = pc[m] /\ touched'[m] = touched[m] /\ hits'[m] = hits[m]
      BY <2>0, <3>1, <3>2 DEF TypeOK
    <3>5. IsFiniteSet(touched[n]) /\ Cardinality(touched[n]) <= hits[n]
      BY DEF Counted
    <3>6. Cardinality(touched[n]) \in Nat
      BY <3>5, FS_CardinalityType, Zenon
    <3>7. Cardinality(touched[n]) <= hits[n] + 1 /\ Cardinality(touched[n]) + 1 <= hits[n] + 1
      BY <3>3, <3>5, <3>6
    <3> QED BY <2>1, <3>3, <3>4, <3>5, <3>7, Zenon
  <2>7. ASSUME NEW n \in Miner, Invalidate(n) PROVE Counted'
    <3>1. /\ pc[n] = "invalidate" /\ UNCHANGED hits
          /\ touched' = [touched EXCEPT ![n] = touched[n] \cup {aim[n]}]
      BY <2>7 DEF Invalidate
    <3>2. pc' = [pc EXCEPT ![n] = "step"]
      BY <2>7 DEF Invalidate, Goto
    <3>3. /\ touched'[n] = touched[n] \cup {aim[n]} /\ hits'[n] = hits[n] /\ hits[n] \in Nat
          /\ pc'[n] = "step"
      BY <2>0, <3>1, <3>2 DEF TypeOK
    <3>4. \A m \in Miner : m # n => pc'[m] = pc[m] /\ touched'[m] = touched[m] /\ hits'[m] = hits[m]
      BY <2>0, <3>1, <3>2 DEF TypeOK
    <3>5. IsFiniteSet(touched[n]) /\ Cardinality(touched[n]) + 1 <= hits[n]
      BY <3>1 DEF Counted
    <3>6. /\ IsFiniteSet(touched'[n])
          /\ Cardinality(touched[n]) \in Nat
          /\ Cardinality(touched'[n]) \in Nat
          /\ Cardinality(touched'[n]) <= Cardinality(touched[n]) + 1
      <4>1. /\ IsFiniteSet(touched[n] \cup {aim[n]})
            /\ Cardinality(touched[n]) \in Nat
            /\ Cardinality(touched[n] \cup {aim[n]}) \in Nat
            /\ Cardinality(touched[n] \cup {aim[n]}) <= Cardinality(touched[n]) + 1
        BY <3>5, OneMore
      <4> QED BY <3>3, <4>1, Zenon
    <3>7. Cardinality(touched'[n]) <= hits'[n]
      BY <3>3, <3>5, <3>6
    <3>8. pc'[n] # "invalidate"
      BY <3>3
    <3> QED BY <2>1, <3>4, <3>6, <3>7, <3>8, Zenon
  <2>8. ASSUME NEW n \in Miner, Raise(n) \/ FallbackAdd(n) PROVE Counted'
    BY <2>0, <2>2, <2>8 DEF Raise, FallbackAdd, Goto, TypeOK
  <2>11. ASSUME NEW n \in Miner, Swallow(n) PROVE Counted'
    <3>1. PICK h \in Upto(hits[n], UpdateCap) : hits' = [hits EXCEPT ![n] = h]
      BY <2>11 DEF Swallow
    <3>2. UNCHANGED touched /\ pc' = [pc EXCEPT ![n] = IF pc[n] = "fallback" THEN "fallback" ELSE "step"]
      BY <2>11 DEF Swallow, Goto
    <3>3. hits'[n] = h /\ hits[n] <= h /\ hits[n] \in Nat /\ h \in Nat
      <4>1. hits'[n] = h /\ hits[n] \in 0..UpdateCap
        BY <2>0, <3>1 DEF TypeOK
      <4>2. h \in 0..UpdateCap /\ hits[n] <= h
        BY <3>1, <4>1, UptoType, CapsAssumption
      <4> QED BY <4>1, <4>2, CapsAssumption
    <3>4. \A m \in Miner : m # n => pc'[m] = pc[m] /\ touched'[m] = touched[m] /\ hits'[m] = hits[m]
      BY <2>0, <3>1, <3>2 DEF TypeOK
    <3>5. IsFiniteSet(touched[n]) /\ Cardinality(touched[n]) <= hits[n]
      BY DEF Counted
    <3>6. Cardinality(touched[n]) \in Nat
      BY <3>5, FS_CardinalityType, Zenon
    <3>7. Cardinality(touched[n]) <= hits'[n]
      BY <3>3, <3>5, <3>6
    <3>8. pc'[n] # "invalidate"
      BY <2>0, <3>2 DEF TypeOK
    <3> QED BY <2>1, <3>2, <3>4, <3>5, <3>7, <3>8, Zenon
  <2>9. ASSUME NEW n \in Miner, Forget(n) PROVE Counted'
    <3>1. IsFiniteSet({}) /\ Cardinality({}) = 0
      BY FS_EmptySet
    <3>2. touched'[n] = {} /\ hits'[n] = 0 /\ pc'[n] = "idle"
      BY <2>0, <2>9 DEF Forget, Goto, TypeOK
    <3>3. \A m \in Miner : m # n => pc'[m] = pc[m] /\ touched'[m] = touched[m] /\ hits'[m] = hits[m]
      BY <2>0, <2>9 DEF Forget, Goto, TypeOK
    <3>4. IsFiniteSet(touched'[n]) /\ Cardinality(touched'[n]) <= hits'[n] /\ pc'[n] # "invalidate"
      BY <3>1, <3>2
    <3> QED BY <2>1, <3>3, <3>4, Zenon
  <2>10. CASE UNCHANGED vars
    BY <2>10 DEF vars, Counted
  <2> QED BY <2>3, <2>4, <2>5, <2>6, <2>7, <2>8, <2>9, <2>10, <2>11 DEF Next, Execute, Finish, Crash
<1>3. Steady /\ Counted => WithinCap
  <2> SUFFICES ASSUME Steady, Counted, NEW m \in Miner PROVE Cardinality(touched[m]) <= UpdateCap
    BY DEF WithinCap
  <2>1. IsFiniteSet(touched[m]) /\ Cardinality(touched[m]) <= hits[m]
    BY DEF Counted
  <2>2. Cardinality(touched[m]) \in Nat
    BY <2>1, FS_CardinalityType, Zenon
  <2>3. hits[m] \in 0..UpdateCap
    BY DEF Steady, TypeOK
  <2> QED BY <2>1, <2>2, <2>3, CapsAssumption
<1> QED BY <1>1, <1>2, <1>3, SteadyAlways, PTL DEF Spec
--------------------------------------------------------------------------------
(***************************************************************************)
(* Mining again copies nothing.                                            *)
(***************************************************************************)

Says(v, i, c) == v[i] # None /\ v[i].says = {c}

\* The n-th candidate of m's queue is yet to be dealt with.
Awaits(m, n) == pc[m] \in {"ask", "step"} \/ (pc[m] = "invalidate" /\ n # 1)

\* No memory says just what a miner has filtered and not yet dealt with.
Unsaid ==
  \A m \in Miner : \A n \in DOMAIN queue[m] :
    Awaits(m, n) => \A i \in Id : ~Says(vault, i, queue[m][n])

Single == \A c \in Candidate : \A i, j \in Id : Says(vault, i, c) /\ Says(vault, j, c) => i = j

Twinless == ~raised => Unsaid /\ Single /\ \A m \in Miner : pc[m] # "fallback"

\* Nothing is said anew, and no candidate comes up.
LEMMA NothingSaid ==
  ASSUME Twinless, ~raised', raised' = raised, \A m \in Miner : pc'[m] # "fallback",
         \A i \in Id, c \in Candidate : Says(vault', i, c) => Says(vault, i, c),
         \A m \in Miner : queue'[m] \in Seq(Candidate),
         \A m \in Miner : \A n \in DOMAIN queue'[m] : Awaits(m, n)' =>
           \E l \in DOMAIN queue[m] : queue[m][l] = queue'[m][n] /\ Awaits(m, l)
  PROVE  Twinless'
<1>1. Unsaid /\ Single
  BY DEF Twinless
<1>2. Single'
  BY <1>1 DEF Single, Says
<1>3. ASSUME NEW m \in Miner, NEW n \in DOMAIN queue'[m], Awaits(m, n)', NEW i \in Id
      PROVE  ~Says(vault', i, queue'[m][n])
  <2>1. PICK l \in DOMAIN queue[m] : queue[m][l] = queue'[m][n] /\ Awaits(m, l)
    BY <1>3
  <2>2. ~Says(vault, i, queue[m][l])
    BY <1>1, <2>1 DEF Unsaid
  <2>3. queue'[m][n] \in Candidate
    BY <1>3
  <2>4. Says(vault', i, queue'[m][n]) => Says(vault, i, queue'[m][n])
    BY <2>3
  <2>5. Says(vault', i, queue[m][l]) <=> Says(vault', i, queue'[m][n])
    BY <2>1 DEF Says
  <2> QED BY <2>1, <2>2, <2>4, <2>5
<1>4. Unsaid'
  BY <1>3 DEF Unsaid, Says
<1> QED BY <1>2, <1>4 DEF Twinless

\* A candidate is dealt with, and one memory at most says it now.
LEMMA OneSaid ==
  ASSUME Steady, Twinless, ~raised, NEW m \in Miner, NEW c \in Candidate, Executes(m, c),
         NEW t \in Id,
         \A i \in Id, d \in Candidate : Says(vault', i, d) => Says(vault, i, d) \/ (i = t /\ d = c),
         raised' = raised,
         \/ Pop(m) /\ pc' = pc
         \/ queue' = queue /\ Goto(m, "invalidate")
  PROVE  Twinless'
<1>1. Unsaid /\ Single /\ \A n \in Miner : pc[n] # "fallback"
  BY DEF Twinless
<1>2. /\ pc \in [Miner -> Steps] /\ queue \in [Miner -> Seq(Candidate)]
      /\ \A n \in Miner : Queue(n, queue[n])
  BY DEF Steady, TypeOK, Queues
<1>3. pc[m] = "step" /\ queue[m] # <<>> /\ c = Head(queue[m]) /\ 1 \in DOMAIN queue[m] /\ c = queue[m][1]
  BY <1>2 DEF Executes, Queue
<1>4. \A i \in Id : ~Says(vault, i, c)
  BY <1>1, <1>3 DEF Unsaid, Awaits
<1>5. Single'
  BY <1>1, <1>4 DEF Single, Says
<1>6. \A n \in Miner : pc'[n] # "fallback"
  BY <1>1, <1>2 DEF Goto
<1>7. ASSUME NEW n \in Miner, NEW k \in DOMAIN queue'[n], Awaits(n, k)'
      PROVE  /\ queue'[n][k] \in Candidate \ {c}
             /\ \E l \in DOMAIN queue[n] : queue[n][l] = queue'[n][k] /\ Awaits(n, l)
  <2>1. CASE n # m
    <3>1. queue'[n] = queue[n] /\ pc'[n] = pc[n]
      BY <1>2, <2>1 DEF Pop, Goto
    <3>2. queue[n][k] \in Candidate /\ Owner[queue[n][k]] = n /\ k \in DOMAIN queue[n]
      BY <1>2, <1>7, <3>1 DEF Queue
    <3>3. Owner[c] = m
      BY <1>2, <1>3 DEF Queue
    <3> QED BY <1>7, <2>1, <3>1, <3>2, <3>3 DEF Awaits
  <2>2. CASE n = m /\ Pop(m) /\ pc' = pc
    <3>1. queue'[m] = Tail(queue[m])
      BY <1>2, <2>2 DEF Pop
    <3>2. /\ k \in DOMAIN Tail(queue[m]) /\ Tail(queue[m])[k] = queue[m][k + 1]
          /\ k + 1 \in DOMAIN queue[m] /\ Tail(queue[m])[k] # c
      BY <1>2, <1>3, <1>7, <2>2, <3>1, TailQueue
    <3>3. queue[m][k + 1] \in Candidate /\ Awaits(m, k + 1)
      BY <1>2, <1>3, <3>2 DEF Awaits
    <3> QED BY <2>2, <3>1, <3>2, <3>3
  <2>3. CASE n = m /\ queue' = queue /\ Goto(m, "invalidate")
    <3>1. pc'[m] = "invalidate" /\ k \in DOMAIN queue[m] /\ k # 1
      BY <1>2, <1>7, <2>3 DEF Goto, Awaits
    <3>2. queue[m][k] \in Candidate /\ queue[m][k] # c /\ Awaits(m, k)
      BY <1>2, <1>3, <3>1 DEF Queue, Awaits
    <3> QED BY <2>3, <3>1, <3>2
  <2> QED BY <2>1, <2>2, <2>3
<1>8. ASSUME NEW n \in Miner, NEW k \in DOMAIN queue'[n], Awaits(n, k)', NEW i \in Id
      PROVE  ~Says(vault', i, queue'[n][k])
  <2>1. queue'[n][k] \in Candidate \ {c}
    BY <1>7, <1>8
  <2>2. PICK l \in DOMAIN queue[n] : queue[n][l] = queue'[n][k] /\ Awaits(n, l)
    BY <1>7, <1>8
  <2>3. ~Says(vault, i, queue[n][l])
    BY <1>1, <2>2 DEF Unsaid
  <2>4. \A d \in Candidate : Says(vault', i, d) => Says(vault, i, d) \/ (i = t /\ d = c)
    OBVIOUS
  <2>5. queue[n][l] \in Candidate \ {c}
    BY <2>1, <2>2
  <2>6. ~Says(vault', i, queue[n][l])
    <3> DEFINE d == queue[n][l]
    <3>1. vault'[i] # None /\ vault'[i].says = {d} => vault[i] # None /\ vault[i].says = {d}
      BY <2>4, <2>5 DEF Says
    <3>2. ~(vault'[i] # None /\ vault'[i].says = {queue'[n][k]})
      BY <2>2, <2>3, <3>1 DEF Says
    <3> QED BY <2>2, <3>2 DEF Says
  <2> QED BY <2>2, <2>6 DEF Says
<1>9. Unsaid'
  BY <1>8 DEF Unsaid, Says
<1> QED BY <1>5, <1>6, <1>9 DEF Twinless
\* The candidates left when m has dealt with one were already in its queue.
LEMMA NoneComesUp ==
  ASSUME Steady, Twinless, ~raised, NEW m \in Miner, Pop(m), queue[m] # <<>>,
         pc[m] \in {"step", "invalidate"}, pc' = [pc EXCEPT ![m] = "step"]
  PROVE  /\ \A n \in Miner : pc'[n] # "fallback"
         /\ \A n \in Miner : queue'[n] \in Seq(Candidate)
         /\ \A n \in Miner : \A k \in DOMAIN queue'[n] : Awaits(n, k)' =>
              \E l \in DOMAIN queue[n] : queue[n][l] = queue'[n][k] /\ Awaits(n, l)
<1>1. /\ pc \in [Miner -> Steps] /\ queue \in [Miner -> Seq(Candidate)]
      /\ Queue(m, queue[m]) /\ \A n \in Miner : pc[n] # "fallback"
  BY DEF Steady, TypeOK, Queues, Twinless
<1>2. queue' = [queue EXCEPT ![m] = Tail(queue[m])]
  BY DEF Pop
<1>3. Tail(queue[m]) \in Seq(Candidate) /\ \A k \in DOMAIN Tail(queue[m]) :
        Tail(queue[m])[k] = queue[m][k + 1] /\ k + 1 \in DOMAIN queue[m] /\ k \in Nat /\ k + 1 # 1
  <2>1. Queue(m, Tail(queue[m]))
    BY <1>1, TailQueue
  <2>2. Tail(queue[m]) \in Seq(Candidate)
    BY <2>1 DEF Queue
  <2>3. \A k \in DOMAIN Tail(queue[m]) : k \in Nat /\ k + 1 # 1
    BY <2>2
  <2> QED BY <1>1, <2>2, <2>3, TailQueue
<1>4. ASSUME NEW n \in Miner, NEW k \in DOMAIN queue'[n], Awaits(n, k)'
      PROVE  \E l \in DOMAIN queue[n] : queue[n][l] = queue'[n][k] /\ Awaits(n, l)
  <2>1. CASE n # m
    <3>1. queue'[n] = queue[n] /\ pc'[n] = pc[n]
      BY <1>1, <1>2, <2>1
    <3> QED BY <1>4, <3>1 DEF Awaits
  <2>2. CASE n = m
    <3>1. queue'[m] = Tail(queue[m])
      BY <1>1, <1>2
    <3>2. k + 1 \in DOMAIN queue[m] /\ queue[m][k + 1] = queue'[m][k] /\ k + 1 # 1
      BY <1>3, <1>4, <2>2, <3>1
    <3>3. Awaits(m, k + 1)
      BY <3>2 DEF Awaits
    <3> QED BY <2>2, <3>2, <3>3
  <2> QED BY <2>1, <2>2
<1>5. \A n \in Miner : pc'[n] # "fallback" /\ queue'[n] \in Seq(Candidate)
  BY <1>1, <1>2, <1>3
<1> QED BY <1>4, <1>5

\* What is left after the filter is said by no memory.
LEMMA Filtered ==
  ASSUME Steady, Twinless, ~raised, NEW m \in Miner, Filter(m)
  PROVE  Twinless'
<1>1. /\ pc \in [Miner -> Steps] /\ queue \in [Miner -> Seq(Candidate)]
      /\ \A n \in Miner : pc[n] # "fallback"
      /\ Unsaid /\ Single /\ vault' = vault
  BY DEF Steady, TypeOK, Twinless, Filter
<1>2. PICK D \in SUBSET {c \in Candidate : Similar(c)}, s \in Batches(m) \cup {<<>>} :
        {c \in Candidate : Exact(c)} \subseteq D /\ Remains(s, batch[m], D) /\ queue' = [queue EXCEPT ![m] = s]
  BY DEF Filter
<1>3. s \in Seq(Candidate)
  BY BatchesAreQueues DEF Queue
<1>4. \A k \in DOMAIN s : s[k] \in Candidate /\ ~Exact(s[k])
  <2> SUFFICES ASSUME NEW k \in DOMAIN s PROVE s[k] \in Candidate /\ ~Exact(s[k])
    OBVIOUS
  <2>1. s[k] \in Members(s)
    BY DEF Members
  <2>2. s[k] \notin D
    BY <1>2, <2>1 DEF Remains
  <2> QED BY <1>2, <1>3, <2>2
<1>5. ASSUME NEW n \in Miner, NEW k \in DOMAIN queue'[n], Awaits(n, k)', NEW i \in Id
      PROVE  ~Says(vault', i, queue'[n][k])
  <2>1. CASE n # m
    <3>1. queue'[n] = queue[n] /\ pc'[n] = pc[n]
      BY <1>1, <1>2, <2>1 DEF Filter, Goto
    <3>2. k \in DOMAIN queue[n] /\ Awaits(n, k)
      BY <1>5, <3>1 DEF Awaits
    <3>3. ~Says(vault, i, queue[n][k])
      BY <1>1, <3>2 DEF Unsaid
    <3> QED BY <1>1, <3>1, <3>3 DEF Says
  <2>2. CASE n = m
    <3>1. queue'[n] = s
      BY <1>1, <1>2, <2>2
    <3>2. ~Exact(s[k])
      BY <1>4, <3>1
    <3> QED BY <1>1, <3>1, <3>2 DEF Exact, Says
  <2> QED BY <2>1, <2>2
<1>6. Unsaid'
  BY <1>5 DEF Unsaid, Says
<1>7. Single'
  BY <1>1 DEF Single, Says
<1>8. \A n \in Miner : pc'[n] # "fallback"
  <2>1. pc' = [pc EXCEPT ![m] = IF queue'[m] = <<>> THEN "step" ELSE "ask"]
    BY DEF Filter, Goto
  <2> QED BY <1>1, <2>1
<1> QED BY <1>6, <1>7, <1>8 DEF Twinless

\* A new memory for the candidate in hand, or none, leaves no twin.
LEMMA SavedOnce ==
  ASSUME Steady, NEW c \in Candidate, vault' = Saved(c)
  PROVE  c \in Id /\ \A i \in Id, d \in Candidate :
           Says(vault', i, d) => Says(vault, i, d) \/ (i = c /\ d = c)
<1>1. c \in Id
  BY DEF Id
<1>2. vault \in [Id -> Memory \cup {None}]
  BY DEF Steady, TypeOK
<1>3. /\ \A i \in Id : i # c => vault'[i] = vault[i]
      /\ vault[c] # None => vault'[c] = vault[c]
      /\ vault[c] = None => vault'[c] = New(c)
  BY <1>1, <1>2, SavedType
<1>4. New(c).says = {c}
  BY DEF New
<1> QED BY <1>1, <1>3, <1>4 DEF Says

\* An update makes its target say the candidate in hand, alone or with what was there.
LEMMA UpdatedOnce ==
  ASSUME Steady, NEW m \in Miner, NEW c \in Candidate, NEW t \in Id, vault[t] # None,
         NEW text \in Merged(m, t, c), ~TooShort(text, t), vault' = [vault EXCEPT ![t].says = text]
  PROVE  \A i \in Id, d \in Candidate : Says(vault', i, d) => Says(vault, i, d) \/ (i = t /\ d = c)
<1>1. vault \in [Id -> Memory \cup {None}] /\ vault[t] \in Memory
  BY DEF Steady, TypeOK
<1>2. vault'[t].says = text /\ \A i \in Id : i # t => vault'[i] = vault[i]
  BY <1>1 DEF Memory
<1>3. text # {} /\ c \in text
  BY DEF Merged, TooShort
<1>4. \A d \in Candidate : text = {d} => d = c
  BY <1>3
<1> QED BY <1>2, <1>4 DEF Says
\* A reconciliation that raises ends the promise; any other step keeps it.
LEMMA TwinlessKept ==
  ASSUME Steady, Steady', Twinless, Next
  PROVE  Twinless'
<1>1. CASE raised'
  BY <1>1 DEF Twinless
<1>2. CASE ~raised'
  <2>0. /\ pc \in [Miner -> Steps] /\ queue \in [Miner -> Seq(Candidate)]
        /\ \A m \in Miner : queue'[m] \in Seq(Candidate)
        /\ vault \in [Id -> Memory \cup {None}] /\ vault' \in [Id -> Memory \cup {None}]
        /\ raised \in BOOLEAN
    BY DEF Steady, TypeOK
  <2>1. ASSUME NEW m \in Miner, Extract(m) PROVE Twinless'
    <3>1. raised' = raised /\ vault' = vault /\ pc'[m] = "filter"
          /\ \A n \in Miner : n # m => pc'[n] = pc[n] /\ queue'[n] = queue[n]
      BY <2>0, <2>1 DEF Extract, Goto
    <3>2. ~raised /\ \A n \in Miner : pc[n] # "fallback"
      BY <1>2, <3>1 DEF Twinless
    <3>3. \A n \in Miner : pc'[n] # "fallback"
      BY <3>1, <3>2
    <3>4. \A n \in Miner : \A k \in DOMAIN queue'[n] : Awaits(n, k)' =>
            \E l \in DOMAIN queue[n] : queue[n][l] = queue'[n][k] /\ Awaits(n, l)
      BY <3>1 DEF Awaits
    <3> QED BY <1>2, <2>0, <3>1, <3>3, <3>4, NothingSaid
  <2>2. ASSUME NEW m \in Miner, Filter(m) PROVE Twinless'
    <3>1. ~raised
      BY <1>2, <2>2 DEF Filter
    <3> QED BY <2>2, <3>1, Filtered
  <2>3. ASSUME NEW m \in Miner, Answer(m) PROVE Twinless'
    <3>1. raised' = raised /\ vault' = vault /\ queue' = queue /\ pc[m] = "ask" /\ pc'[m] = "step"
          /\ \A n \in Miner : n # m => pc'[n] = pc[n]
      BY <2>0, <2>3 DEF Answer, Goto
    <3>2. ~raised /\ \A n \in Miner : pc[n] # "fallback"
      BY <1>2, <3>1 DEF Twinless
    <3>3. \A n \in Miner : pc'[n] # "fallback"
      BY <3>1, <3>2
    <3>4. \A n \in Miner : \A k \in DOMAIN queue'[n] : Awaits(n, k)' =>
            \E l \in DOMAIN queue[n] : queue[n][l] = queue'[n][k] /\ Awaits(n, l)
      BY <3>1 DEF Awaits
    <3> QED BY <1>2, <2>0, <3>1, <3>3, <3>4, NothingSaid
  <2>4. ASSUME NEW m \in Miner, Add(m) PROVE Twinless'
    <3>1. PICK c \in Candidate : Executes(m, c) /\ vault' = Saved(c)
      BY <2>4 DEF Add
    <3>2. raised' = raised /\ Pop(m) /\ pc' = pc
      BY <2>4 DEF Add
    <3>3. c \in Id /\ \A i \in Id, d \in Candidate :
            Says(vault', i, d) => Says(vault, i, d) \/ (i = c /\ d = c)
      BY <3>1, SavedOnce
    <3> QED BY <1>2, <3>1, <3>2, <3>3, OneSaid
  <2>5. ASSUME NEW m \in Miner, Update(m) PROVE Twinless'
    <3>1. PICK c \in Candidate, t \in Id : Executes(m, c) /\ vault[t] # None
            /\ \E text \in Merged(m, t, c) : ~TooShort(text, t) /\ vault' = [vault EXCEPT ![t].says = text]
      BY <2>5 DEF Update, Usable
    <3>2. raised' = raised /\ Pop(m) /\ pc' = pc
      BY <2>5 DEF Update
    <3>3. \A i \in Id, d \in Candidate : Says(vault', i, d) => Says(vault, i, d) \/ (i = t /\ d = c)
      BY <3>1, UpdatedOnce
    <3>4. Executes(m, c) /\ ~raised
      BY <1>2, <3>1, <3>2
    <3> QED BY <1>2, <3>2, <3>3, <3>4, OneSaid
  <2>6. ASSUME NEW m \in Miner, Supersede(m) PROVE Twinless'
    <3>1. PICK c \in Candidate : Executes(m, c) /\ vault' = Saved(c)
      BY <2>6 DEF Supersede
    <3>2. raised' = raised /\ queue' = queue /\ Goto(m, "invalidate")
      BY <2>6 DEF Supersede
    <3>3. c \in Id /\ \A i \in Id, d \in Candidate :
            Says(vault', i, d) => Says(vault, i, d) \/ (i = c /\ d = c)
      BY <3>1, SavedOnce
    <3> QED BY <1>2, <3>1, <3>2, <3>3, OneSaid
  <2>7. ASSUME NEW m \in Miner, raised' = raised, Pop(m), queue[m] # <<>>, pc[m] \in {"step", "invalidate"},
               pc' = [pc EXCEPT ![m] = "step"],
               \A i \in Id, c \in Candidate : Says(vault', i, c) => Says(vault, i, c)
        PROVE  Twinless'
    BY <1>2, <2>7, NoneComesUp, NothingSaid
  <2>8. ASSUME NEW m \in Miner, Noop(m) \/ Note(m) PROVE Twinless'
    <3>1. raised' = raised /\ vault' = vault /\ Pop(m) /\ pc[m] = "step" /\ pc' = pc /\ queue[m] # <<>>
      BY <2>8 DEF Noop, Note, Executes
    <3>2. pc' = [pc EXCEPT ![m] = "step"]
      BY <2>0, <3>1
    <3> QED BY <2>7, <3>1, <3>2
  <2>9. ASSUME NEW m \in Miner, Invalidate(m) PROVE Twinless'
    <3>1. raised' = raised /\ Pop(m) /\ pc[m] = "invalidate" /\ pc' = [pc EXCEPT ![m] = "step"]
      BY <2>9 DEF Invalidate, Goto
    <3>2. queue[m] # <<>> /\ aim[m] \in Id /\ vault[aim[m]] \in Memory
      BY <3>1 DEF Steady, TypeOK
    <3>3. \A i \in Id : i # aim[m] => vault'[i] = vault[i]
      BY <2>0, <2>9 DEF Invalidate
    <3>4. vault'[aim[m]].says = vault[aim[m]].says /\ vault[aim[m]] # None
      BY <2>0, <2>9, <3>2 DEF Invalidate, Memory
    <3>5. \A i \in Id, c \in Candidate : Says(vault', i, c) => Says(vault, i, c)
      BY <3>3, <3>4 DEF Says
    <3> QED BY <2>7, <3>1, <3>2, <3>5
  <2>10. ASSUME NEW m \in Miner, Swallow(m) PROVE Twinless'
    <3>1. raised' = raised /\ vault' = vault /\ Pop(m) /\ queue[m] # <<>>
          /\ pc[m] \in {"step", "invalidate", "fallback"}
          /\ pc' = [pc EXCEPT ![m] = IF pc[m] = "fallback" THEN "fallback" ELSE "step"]
      BY <2>10 DEF Swallow, Goto
    <3>2. pc[m] # "fallback"
      BY <1>2, <3>1 DEF Twinless
    <3> QED BY <2>7, <3>1, <3>2
  <2>11. ASSUME NEW m \in Miner, Raise(m) PROVE FALSE
    BY <1>2, <2>11 DEF Raise
  <2>12. ASSUME NEW m \in Miner, FallbackAdd(m) PROVE FALSE
    <3>1. ~raised /\ pc[m] = "fallback"
      BY <1>2, <2>12 DEF FallbackAdd
    <3> QED BY <3>1 DEF Twinless
  <2>13. ASSUME NEW m \in Miner, Finish(m) \/ Crash(m) PROVE Twinless'
    <3>1. raised' = raised /\ vault' = vault /\ queue'[m] = <<>> /\ pc'[m] = "idle"
          /\ \A n \in Miner : n # m => pc'[n] = pc[n] /\ queue'[n] = queue[n]
      BY <2>0, <2>13 DEF Finish, Crash, Forget, Goto
    <3>2. ~raised /\ \A n \in Miner : pc[n] # "fallback"
      BY <1>2, <3>1 DEF Twinless
    <3>3. \A n \in Miner : pc'[n] # "fallback"
      BY <3>1, <3>2
    <3>4. \A n \in Miner : \A k \in DOMAIN queue'[n] : Awaits(n, k)' =>
            \E l \in DOMAIN queue[n] : queue[n][l] = queue'[n][k] /\ Awaits(n, l)
      BY <3>1 DEF Awaits
    <3> QED BY <1>2, <2>0, <3>1, <3>3, <3>4, NothingSaid
  <2> QED BY <2>1, <2>2, <2>3, <2>4, <2>5, <2>6, <2>8, <2>9, <2>10, <2>11, <2>12, <2>13 DEF Next, Execute
<1> QED BY <1>1, <1>2

\* As long as no reconciliation raised, no fact has two memories, whatever Haiku
\* answers, and however often its session is killed and mined again.
THEOREM NeverTwice == Spec => []NoTwins
<1>1. Init => Twinless
  <2> SUFFICES ASSUME Init PROVE Twinless
    OBVIOUS
  <2>1. \A m \in Miner : queue[m] = <<>> /\ pc[m] = "idle"
    BY DEF Init
  <2>2. \A i \in Id, c \in Candidate : ~Says(vault, i, c)
    <3> SUFFICES ASSUME NEW i \in Id, NEW c \in Candidate PROVE ~Says(vault, i, c)
      OBVIOUS
    <3>1. vault[i] = IF i \in Old THEN New(i) ELSE None
      BY DEF Init
    <3>2. CASE i \in Old
      BY <3>1, <3>2 DEF Says, New
    <3> QED BY <3>1, <3>2 DEF Says
  <2> QED BY <2>1, <2>2 DEF Twinless, Unsaid, Single
<1>2. Steady /\ Steady' /\ Twinless /\ [Next]_vars => Twinless'
  <2> SUFFICES ASSUME Steady, Steady', Twinless, [Next]_vars PROVE Twinless'
    OBVIOUS
  <2>1. CASE UNCHANGED vars
    BY <2>1 DEF vars, Twinless, Unsaid, Single, Says, Awaits
  <2> QED BY <2>1, TwinlessKept
<1>3. Twinless => NoTwins
  <2> SUFFICES ASSUME Twinless, ~raised, NEW c \in Candidate PROVE Cardinality(Copies(c)) <= 1
    BY DEF NoTwins
  <2>1. \A i, j \in Copies(c) : i = j
    BY DEF Copies, Twinless, Single, Says
  <2>2. CASE Copies(c) = {}
    BY <2>2, FS_EmptySet
  <2>3. CASE Copies(c) # {}
    <3>1. PICK i \in Copies(c) : TRUE
      BY <2>3
    <3>2. Copies(c) = {i}
      BY <2>1, <3>1
    <3>3. Cardinality({i}) = 1
      BY FS_Singleton
    <3> QED BY <3>2, <3>3
  <2> QED BY <2>2, <2>3
<1> QED BY <1>1, <1>2, <1>3, SteadyAlways, PTL DEF Spec
================================================================================
