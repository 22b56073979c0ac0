-------------------------------- MODULE Profiles --------------------------------
(***************************************************************************)
(* append_fact of memem/profiles.py: miners and the layer migration append *)
(* facts to one profile file under a lock.  A profile that outgrows the    *)
(* cap is rewritten by Haiku while the lock is free, from a snapshot that  *)
(* is checked again before the rewritten text replaces the file.           *)
(*                                                                         *)
(* A fact is a line in its section, near-duplicates the same fact.  A text *)
(* has the facts of its items, which are all that an append parses and     *)
(* writes back, and other lines: nobody but Haiku writes such lines, and   *)
(* the next append drops them.  Sizes are in facts of the usual length,    *)
(* without title and headings; texts that agree in facts and sizes are     *)
(* taken for the same text.  Haiku answers with any text: the prompt asks  *)
(* for all facts, and nothing checks it.  Validation of the section and    *)
(* the line, which precedes everything and changes nothing, is left out; a *)
(* file that does not exist is the empty profile.                          *)
(***************************************************************************)
EXTENDS Integers, FiniteSets

CONSTANTS
  Writer,      \* processes that append
  Fact,        \* facts they may append
  NoFact,      \* no fact asked for
  Nobody,      \* the lock is free
  Cap,         \* _PROFILE_CHAR_CAP, in facts
  Answers,     \* texts that Haiku may answer with
  MaxCalls,    \* bound: calls of append_fact
  MaxCrashes   \* bound: processes killed

ASSUME NobodyAssumption == Nobody \notin Writer
ASSUME NoFactAssumption == NoFact \notin Fact
ASSUME CapAssumption == Cap \in Nat \ {0}
ASSUME BoundsAssumption == MaxCalls \in Nat /\ MaxCrashes \in Nat

\* The facts of the items, the size of the items, and the size of the whole.
Text == [facts : SUBSET Fact, items : Nat, size : Nat]
Empty == [facts |-> {}, items |-> 0, size |-> 0]

ASSUME AnswersAssumption == Answers \subseteq Text

VARIABLES
  file,      \* the profile
  lock,      \* holder of the flock on .profiles.lock
  pc,        \* pc[w]: the step w takes next
  wanted,    \* wanted[w]: the fact w is appending, or NoFact
  seen,      \* seen[w]: the text w has read under the lock
  snapshot,  \* snapshot[w]: the text that Haiku's rewrite started from
  draft,     \* draft[w]: Haiku's rewrite of the snapshot and the fact
  kept,      \* history: facts answered appended or duplicate since the last rewrite
  calls,     \* history: calls so far
  crashes    \* history: processes killed so far

work == <<wanted, seen, snapshot, draft>>
history == <<kept, calls, crashes>>
vars == <<file, lock, pc, wanted, seen, snapshot, draft, kept, calls, crashes>>

Goto(w, step) == pc' = [pc EXCEPT ![w] = step]

\* Mutant: the fact asked for is not forgotten.
ReturnAsking(w) ==
  /\ Goto(w, "idle")
  /\ lock' = IF lock = w THEN Nobody ELSE lock
  /\ seen' = [seen EXCEPT ![w] = Empty]
  /\ snapshot' = [snapshot EXCEPT ![w] = Empty]
  /\ draft' = [draft EXCEPT ![w] = Empty]
  /\ UNCHANGED wanted

\* The call returns, and frees the lock if it holds it.
Return(w) ==
  /\ Goto(w, "idle")
  /\ wanted' = [wanted EXCEPT ![w] = NoFact]
  /\ lock' = IF lock = w THEN Nobody ELSE lock
  /\ seen' = [seen EXCEPT ![w] = Empty]
  /\ snapshot' = [snapshot EXCEPT ![w] = Empty]
  /\ draft' = [draft EXCEPT ![w] = Empty]

\* _render_profile of what _parse_profile finds in a text, and one more item.
With(text, f) ==
  [facts |-> text.facts \cup {f}, items |-> text.items + 1, size |-> text.items + 1]
--------------------------------------------------------------------------------
Init ==
  /\ file = Empty
  /\ lock = Nobody
  /\ pc = [w \in Writer |-> "idle"]
  /\ wanted = [w \in Writer |-> NoFact]
  /\ seen = [w \in Writer |-> Empty]
  /\ snapshot = [w \in Writer |-> Empty]
  /\ draft = [w \in Writer |-> Empty]
  /\ kept = {}
  /\ calls = 0
  /\ crashes = 0

\* A call of append_fact for the fact f.
Ask(w, f) ==
  /\ pc[w] = "idle" /\ calls < MaxCalls
  /\ calls' = calls + 1
  /\ wanted' = [wanted EXCEPT ![w] = f]
  /\ Goto(w, "lock")
  /\ UNCHANGED <<file, lock, seen, snapshot, draft, kept, crashes>>

AppendFact(w) == \E f \in Fact : Ask(w, f)

\* Mutant: nobody waits for the lock.
AcquireAnyway(w) ==
  /\ pc[w] \in {"lock", "relock"}
  /\ lock' = w
  /\ Goto(w, IF pc[w] = "lock" THEN "read" ELSE "reread")
  /\ UNCHANGED <<file, work, history>>

\* _acquire_profiles_lock, the first time and after the compaction.
Acquire(w) ==
  /\ pc[w] \in {"lock", "relock"}
  /\ lock = Nobody
  /\ lock' = w
  /\ Goto(w, IF pc[w] = "lock" THEN "read" ELSE "reread")
  /\ UNCHANGED <<file, work, history>>

\* _append_fact_locked reads the profile.
Read(w) ==
  /\ pc[w] \in {"read", "retry"}
  /\ seen' = [seen EXCEPT ![w] = file]
  /\ Goto(w, IF pc[w] = "read" THEN "append" ELSE "append again")
  /\ UNCHANGED <<file, lock, wanted, snapshot, draft, history>>

Appending(w) == pc[w] \in {"append", "append again"}
Fits(w) == With(seen[w], wanted[w]).size <= Cap

Duplicate(w) ==
  /\ Appending(w)
  /\ wanted[w] \in seen[w].facts
  /\ kept' = kept \cup {wanted[w]}
  /\ Return(w)
  /\ UNCHANGED <<file, calls, crashes>>

\* The fact fits: the file is replaced.
Append(w) ==
  /\ Appending(w)
  /\ wanted[w] \notin seen[w].facts /\ Fits(w)
  /\ file' = With(seen[w], wanted[w])
  /\ Goto(w, "answer")
  /\ UNCHANGED <<lock, work, history>>

\* Mutant: Haiku is called with the lock held.
DeferHolding(w) ==
  /\ pc[w] = "append"
  /\ wanted[w] \notin seen[w].facts /\ ~Fits(w)
  /\ snapshot' = [snapshot EXCEPT ![w] = seen[w]]
  /\ Goto(w, "compact")
  /\ UNCHANGED <<file, lock, wanted, seen, draft, history>>

\* The cap is exceeded: the lock is freed while Haiku works on the snapshot.
Defer(w) ==
  /\ pc[w] = "append"
  /\ wanted[w] \notin seen[w].facts /\ ~Fits(w)
  /\ snapshot' = [snapshot EXCEPT ![w] = seen[w]]
  /\ lock' = Nobody
  /\ Goto(w, "compact")
  /\ UNCHANGED <<file, wanted, seen, draft, history>>

\* The cap is exceeded again, after the profile has changed under Haiku.
RefuseRetry(w) ==
  /\ pc[w] = "append again"
  /\ wanted[w] \notin seen[w].facts /\ ~Fits(w)
  /\ Return(w)
  /\ UNCHANGED <<file, history>>

\* Haiku answers with a text that fits, whatever it says of the facts.
Compact(w) ==
  /\ pc[w] = "compact"
  /\ \E answer \in Answers :
       /\ answer.size <= Cap
       /\ draft' = [draft EXCEPT ![w] = answer]
  /\ Goto(w, "relock")
  /\ UNCHANGED <<file, lock, wanted, seen, snapshot, history>>

\* Haiku fails, or answers with a text that does not fit.
CompactFails(w) ==
  /\ pc[w] = "compact"
  /\ Return(w)
  /\ UNCHANGED <<file, history>>

\* The profile is read again, to be compared with the snapshot.
Reread(w) ==
  /\ pc[w] = "reread"
  /\ seen' = [seen EXCEPT ![w] = file]
  /\ Goto(w, "compare")
  /\ UNCHANGED <<file, lock, wanted, snapshot, draft, history>>

\* The profile is still the snapshot: Haiku's answer replaces it.
Swap(w) ==
  /\ pc[w] = "compare" /\ seen[w] = snapshot[w]
  /\ file' = draft[w]
  /\ kept' = {}
  /\ Goto(w, "compacted")
  /\ UNCHANGED <<lock, work, calls, crashes>>

\* The caller is told compacted+appended, whether the answer has its fact or not.
AnswerCompacted(w) ==
  /\ pc[w] = "compacted"
  /\ Return(w)
  /\ UNCHANGED <<file, history>>

\* The file has the new item, the lock is freed, and the caller is told appended.
Answer(w) ==
  /\ pc[w] = "answer"
  /\ kept' = kept \cup {wanted[w]}
  /\ Return(w)
  /\ UNCHANGED <<file, calls, crashes>>

\* Another writer was faster: the plain append is tried once more.
Retry(w) ==
  /\ pc[w] = "compare" /\ seen[w] # snapshot[w]
  /\ Goto(w, "retry")
  /\ UNCHANGED <<file, lock, work, history>>

\* A process is killed; the kernel frees its lock.
Crash(w) ==
  /\ pc[w] # "idle" /\ crashes < MaxCrashes
  /\ crashes' = crashes + 1
  /\ Return(w)
  /\ UNCHANGED <<file, kept, calls>>

Step(w) ==
  \/ Acquire(w) \/ Read(w)
  \/ Duplicate(w) \/ Append(w) \/ Defer(w) \/ RefuseRetry(w)
  \/ Compact(w) \/ CompactFails(w)
  \/ Reread(w) \/ Swap(w) \/ Retry(w) \/ Answer(w) \/ AnswerCompacted(w)

Next == \E w \in Writer : AppendFact(w) \/ Step(w) \/ Crash(w)

Spec == Init /\ [][Next]_vars

\* A process goes on; Haiku answers or is timed out.
FairSpec == Spec /\ \A w \in Writer : WF_vars(Step(w))
--------------------------------------------------------------------------------
(***************************************************************************)
(* Properties                                                              *)
(***************************************************************************)

Steps == {"idle", "lock", "read", "append", "compact", "relock", "reread", "compare",
          "retry", "append again", "answer", "compacted"}

\* The variables stay in their types.
TypeOK ==
  /\ file \in Text
  /\ lock \in Writer \cup {Nobody}
  /\ pc \in [Writer -> Steps]
  /\ wanted \in [Writer -> Fact \cup {NoFact}]
  /\ \A w \in Writer : pc[w] = "idle" <=> wanted[w] = NoFact
  /\ seen \in [Writer -> Text]
  /\ snapshot \in [Writer -> Text]
  /\ draft \in [Writer -> Text]
  /\ kept \in SUBSET Fact
  /\ calls \in 0..MaxCalls
  /\ crashes \in 0..MaxCrashes

\* The file never exceeds the cap, whoever writes it after what detour.
WithinCap == file.size <= Cap

\* A fact leaves the profile only when Haiku's answer replaces the very text that Haiku was given:
\* no append, no retry and no crash takes one away, and no rewrite that began before it came.
NothingForgotten ==
  [][\/ file.facts \subseteq file'.facts
     \/ \E w \in Writer : pc[w] = "compare" /\ snapshot[w] = file /\ file' = draft[w]]_vars

\* Every fact that was answered appended or duplicate since the last rewrite is in the profile.
ConfirmedStay == kept \subseteq file.facts

\* Every call returns: no compaction holds the lock, no retry goes round for ever.
CallsReturn == \A w \in Writer : pc[w] # "idle" ~> pc[w] = "idle"

\* A profile is a log of facts that is rewritten when it is full: appended and duplicate are true
\* when they are given and until the next rewrite, a rewrite replaces exactly the facts that Haiku
\* was shown, and a refusal or a crash takes nothing away.  That a rewrite has the facts it was
\* shown, and the one it was asked for, is not promised.
Log == INSTANCE FactLog
  WITH known <- file.facts, shown <- [w \in Writer |-> snapshot[w].facts]
ImplementsLog == Log!Spec
================================================================================
