------------------------------ MODULE Transcripts ------------------------------
(***************************************************************************)
(* The full-text index of the session transcripts and the search over it:  *)
(* memem/transcripts.py.  A miner indexes its session after every delta,   *)
(* and the command line indexes them all.  An indexer parses the file      *)
(* before it opens the table and replaces the session's rows, and whoever  *)
(* finds no table of the current schema drops what is there.  A search     *)
(* that gets nothing from the table reads the files.                       *)
(*                                                                         *)
(* A transcript is a prefix of the session's script, the records that have *)
(* text.  A line written half is not there yet.                            *)
(***************************************************************************)
EXTENDS Integers, Sequences, FiniteSets

CONSTANTS
  Session, Indexer, Word, NoSession,
  ScriptLength,  \* bound: records of a whole session
  Says,          \* Says[s][n]: words of the n-th record of s
  Query,         \* the words searched for
  ShortLength,   \* 5000 bytes: files shorter than this are not scanned
  LongLength,    \* MAX_FALLBACK_FILE_BYTES
  FileCap,       \* MAX_FALLBACK_FILES
  MaxIndexings,  \* bound: indexings begun
  MaxIncidents   \* bound: kills, errors and searches

ASSUME ScriptAssumption ==
  /\ ScriptLength \in Nat
  /\ Says \in [Session -> [1..ScriptLength -> SUBSET Word]] /\ Query \subseteq Word
ASSUME CapsAssumption == ShortLength \in Nat /\ LongLength \in Nat /\ FileCap \in Nat
ASSUME NoSessionAssumption == NoSession \notin Session
ASSUME IndexingsAssumption == MaxIndexings \in Nat /\ MaxIncidents \in Nat

Role == {"user", "assistant"}
Script == UNION {[1..n -> Role] : n \in 0..ScriptLength}
\* The records of each side.
Exchange == [Role -> SUBSET (1..ScriptLength)]

VARIABLES
  script,    \* script[s]: the roles of the records of s, written or not
  length,    \* length[s]: records of s in its transcript
  table,     \* "none", "old", of an older schema, or "new"
  rows,      \* rows[s]: the exchanges of s in the table
  step,      \* step[p]: what indexer p does next
  at,        \* at[p]: the session it indexes
  parsed,    \* parsed[p]: the exchanges it parsed
  todo,      \* todo[p]: sessions a rebuild has still to index
  search,    \* "idle", "table", "files", or "answered"
  found,     \* what the search found; the caller gets the best of it
  skipped,   \* sessions a scan left out: it was cut short, or could not read them
  first,     \* history: length when the search began
  read,      \* history: read[p]: the length p parsed
  stored,    \* history: stored[s]: the length of the parse the rows came from
  crossed,   \* history: sessions two indexers were at, or whose rows a migration dropped
  indexings, incidents

sessions == <<script, length>>
index == <<table, rows>>
hands == <<step, at, parsed, todo, read>>
searching == <<search, found, skipped, first>>
past == <<stored, crossed>>
counts == <<indexings, incidents>>
transcriptsVars == <<sessions, index, hands, searching, past, counts>>

(***************************************************************************)
(* _parse_jsonl_session_pairs                                              *)
(***************************************************************************)
NoExchange == [r \in Role |-> {}]
Complete(x) == \A r \in Role : x[r] # {}

\* b: the pairs that have been flushed, and the one that is being collected.
Flush(b) == IF Complete(b.open) THEN b.pairs \cup {b.open} ELSE b.pairs

\* The n-th record; one of the user's that follows an answer opens the next pair.
Collect(b, role, n) ==
  LET turn == role = "user" /\ b.open["assistant"] # {}
      open == IF turn THEN NoExchange ELSE b.open
  IN  [pairs |-> IF turn THEN Flush(b) ELSE b.pairs, open |-> [open EXCEPT ![role] = @ \cup {n}]]

Collected(roles) ==
  LET after[n \in 0..Len(roles)] ==
        IF n = 0 THEN [pairs |-> {}, open |-> NoExchange] ELSE Collect(after[n - 1], roles[n], n)
  IN  after

Parse(roles) == Flush(Collected(roles)[Len(roles)])

Transcript(s) == SubSeq(script[s], 1, length[s])

\* What the pairs of a session should be: the records between two turns of the user that follow
\* an answer, when both sides have spoken.
Opens(roles) == {1} \cup {n \in 2..Len(roles) : roles[n] = "user" /\ roles[n - 1] = "assistant"}
Block(roles, n) == {k \in n..Len(roles) : \A o \in Opens(roles) : o > n => k < o}
Sides(roles, n) == [r \in Role |-> {k \in Block(roles, n) : roles[k] = r}]
Exchanges(roles) == {x \in {Sides(roles, n) : n \in Opens(roles)} : Complete(x)}

Words(s, x) == UNION {Says[s][n] : n \in UNION {x[r] : r \in Role}}

TranscriptsInit ==
  /\ script \in [Session -> Script]
  /\ length = [s \in Session |-> 0]
  /\ table \in {"none", "old"}
  /\ rows = [s \in Session |-> {}]
  /\ step = [p \in Indexer |-> "idle"]
  /\ at = [p \in Indexer |-> NoSession]
  /\ parsed = [p \in Indexer |-> {}]
  /\ todo = [p \in Indexer |-> {}]
  /\ search = "idle" /\ found = {} /\ skipped = {} /\ first = length
  /\ read = [p \in Indexer |-> 0]
  /\ stored = [s \in Session |-> 0]
  /\ crossed = {}
  /\ indexings = 0 /\ incidents = 0

\* A session goes on.
Speak(s) ==
  /\ length[s] < Len(script[s])
  /\ length' = [length EXCEPT ![s] = @ + 1]
  /\ UNCHANGED <<script, index, hands, searching, past, counts>>

(***************************************************************************)
(* Indexing                                                                *)
(***************************************************************************)
StepTo(p, s) == step' = [step EXCEPT ![p] = s]
At(s) == {p \in Indexer : at[p] = s}

\* p turns to session s, or to nothing; another indexer of s may be at work.
Turn(p, s) ==
  /\ at' = [at EXCEPT ![p] = s]
  /\ crossed' = IF s # NoSession /\ At(s) \ {p} # {} THEN crossed \cup {s} ELSE crossed
  /\ StepTo(p, IF s = NoSession THEN "idle" ELSE "parse")
  /\ parsed' = [parsed EXCEPT ![p] = {}]
  /\ read' = [read EXCEPT ![p] = 0]

\* The next session of a rebuild, or the end.
Continue(p) ==
  IF todo[p] = {} THEN Turn(p, NoSession) /\ UNCHANGED todo
  ELSE \E s \in todo[p] : Turn(p, s) /\ todo' = [todo EXCEPT ![p] = @ \ {s}]

\* A miner, at the end of a delta.
Index(p, s) ==
  /\ step[p] = "idle" /\ indexings < MaxIndexings
  /\ indexings' = indexings + 1
  /\ Turn(p, s)
  /\ UNCHANGED <<sessions, index, todo, searching, stored, incidents>>

\* rebuild_transcript_index: every transcript that is long enough.
RebuildAll(p) ==
  /\ step[p] = "idle" /\ indexings < MaxIndexings
  /\ indexings' = indexings + 1
  /\ LET long == {s \in Session : length[s] >= ShortLength}
     IN  \E s \in long : Turn(p, s) /\ todo' = [todo EXCEPT ![p] = long \ {s}]
  /\ UNCHANGED <<sessions, index, searching, stored, incidents>>

\* A file with no exchange leaves the rows as they are.
ReadFile(p) ==
  /\ step[p] = "parse"
  /\ LET pairs == Parse(Transcript(at[p]))
     IN  IF pairs = {} THEN Continue(p)
         ELSE /\ parsed' = [parsed EXCEPT ![p] = pairs]
              /\ read' = [read EXCEPT ![p] = length[at[p]]]
              /\ StepTo(p, "open")
              /\ UNCHANGED <<at, todo, crossed>>
  /\ UNCHANGED <<sessions, index, searching, stored, counts>>

\* Mutant: a table that cannot be read gives no connection, and the caller goes on with it.
OpenNothing(p) ==
  /\ step[p] = "open"
  /\ StepTo(p, IF table = "new" THEN "create" ELSE NoSession)
  /\ UNCHANGED <<sessions, index, at, parsed, todo, read, searching, past, counts>>

\* _open_fts_db looks for a column of the current schema; the table is created in any case.
Open(p) ==
  /\ step[p] = "open"
  /\ StepTo(p, IF table = "new" THEN "create" ELSE "drop")
  /\ UNCHANGED <<sessions, index, at, parsed, todo, read, searching, past, counts>>

\* Each statement of the migration commits by itself.
Drop(p) ==
  /\ step[p] = "drop"
  /\ table' = "none"
  /\ rows' = [s \in Session |-> {}]
  /\ crossed' = crossed \cup {s \in Session : rows[s] # {}}
  /\ stored' = [s \in Session |-> 0]
  /\ StepTo(p, "create")
  /\ UNCHANGED <<sessions, at, parsed, todo, read, searching, counts>>

Create(p) ==
  /\ step[p] = "create"
  /\ table' = IF table = "none" THEN "new" ELSE table
  /\ StepTo(p, "store")
  /\ UNCHANGED <<sessions, rows, at, parsed, todo, read, searching, past, counts>>

\* Mutant: the old rows stay.
StoreAppend(p) ==
  /\ step[p] = "store" /\ table = "new"
  /\ rows' = [rows EXCEPT ![at[p]] = @ \cup parsed[p]]
  /\ stored' = [stored EXCEPT ![at[p]] = read[p]]
  /\ Continue(p)
  /\ UNCHANGED <<sessions, table, searching, counts>>

\* One transaction replaces the session's rows.
Store(p) ==
  /\ step[p] = "store" /\ table = "new"
  /\ rows' = [rows EXCEPT ![at[p]] = parsed[p]]
  /\ stored' = [stored EXCEPT ![at[p]] = read[p]]
  /\ Continue(p)
  /\ UNCHANGED <<sessions, table, searching, counts>>

\* The table is gone again: index_session raises, and its caller logs it.
StoreFails(p) ==
  /\ step[p] = "store" /\ table # "new"
  /\ Continue(p)
  /\ UNCHANGED <<sessions, index, searching, stored, counts>>

\* Bytes that are not UTF-8 yet, or a database that stays locked.
IndexFails(p) ==
  /\ step[p] \in {"parse", "store"} /\ incidents < MaxIncidents
  /\ incidents' = incidents + 1
  /\ Continue(p)
  /\ UNCHANGED <<sessions, index, searching, stored, indexings>>

\* The check of the schema fails for another reason, and is taken for an old schema.
OpenFails(p) ==
  /\ step[p] = "open" /\ incidents < MaxIncidents
  /\ incidents' = incidents + 1
  /\ StepTo(p, "drop")
  /\ UNCHANGED <<sessions, index, at, parsed, todo, read, searching, past, indexings>>

\* Mutant: the deletion of the old rows is committed before the new ones are inserted.
KillHalf(p) ==
  /\ step[p] # "idle" /\ incidents < MaxIncidents
  /\ incidents' = incidents + 1
  /\ IF step[p] = "store"
     THEN rows' = [rows EXCEPT ![at[p]] = {}] /\ stored' = [stored EXCEPT ![at[p]] = 0]
     ELSE UNCHANGED <<rows, stored>>
  /\ Turn(p, NoSession)
  /\ todo' = [todo EXCEPT ![p] = {}]
  /\ UNCHANGED <<sessions, table, searching, indexings>>

Kill(p) ==
  /\ step[p] # "idle" /\ incidents < MaxIncidents
  /\ incidents' = incidents + 1
  /\ Turn(p, NoSession)
  /\ todo' = [todo EXCEPT ![p] = {}]
  /\ UNCHANGED <<sessions, index, searching, stored, indexings>>

(***************************************************************************)
(* Searching                                                               *)
(***************************************************************************)
Ask ==
  /\ search = "idle" /\ Query # {} /\ incidents < MaxIncidents
  /\ incidents' = incidents + 1
  /\ search' = "table"
  /\ first' = length
  /\ UNCHANGED <<sessions, index, hands, found, skipped, past, indexings>>

\* A MATCH of every word.
Matches(s) == {<<s, x>> : x \in {y \in rows[s] : Query \subseteq Words(s, y)}}

\* Mutant: a table with rows has the last word.
SearchTableOnly ==
  /\ search = "table"
  /\ IF table = "new" /\ \E s \in Session : rows[s] # {}
     THEN /\ found' = UNION {Matches(s) : s \in Session}
          /\ search' = "answered"
     ELSE search' = "files" /\ UNCHANGED found
  /\ UNCHANGED <<sessions, index, hands, skipped, first, past, counts>>

\* No table, an error, no row and no match are all the same to the caller.
SearchTable ==
  /\ search = "table"
  /\ LET hits == UNION {Matches(s) : s \in Session}
     IN  \/ table = "new" /\ hits # {} /\ found' = hits /\ search' = "answered"
         \/ search' = "files" /\ UNCHANGED found
  /\ UNCHANGED <<sessions, index, hands, skipped, first, past, counts>>

\* A scan of the files for any of the words, until there are too many or it takes too long; a
\* file that does not decode is passed over.
SearchFiles ==
  /\ search = "files"
  /\ LET fit == {s \in Session : length[s] >= ShortLength /\ length[s] <= LongLength}
         hits(s) == {<<s, x>> : x \in {y \in Parse(Transcript(s)) : Query \cap Words(s, y) # {}}}
     IN  \E some \in SUBSET fit :
           /\ Cardinality(some) <= FileCap
           /\ found' = UNION {hits(s) : s \in some}
           /\ skipped' = fit \ some
  /\ search' = "answered"
  /\ UNCHANGED <<sessions, index, hands, first, past, counts>>
--------------------------------------------------------------------------------
Indexing(p) ==
  \/ RebuildAll(p) \/ ReadFile(p) \/ Open(p) \/ Drop(p) \/ Create(p) \/ Store(p) \/ StoreFails(p)
  \/ \E s \in Session : Index(p, s)

TranscriptsNext ==
  \/ \E s \in Session : Speak(s)
  \/ \E p \in Indexer : Indexing(p) \/ IndexFails(p) \/ OpenFails(p) \/ Kill(p)
  \/ Ask \/ SearchTable \/ SearchFiles

TranscriptsSpec == TranscriptsInit /\ [][TranscriptsNext]_transcriptsVars

(***************************************************************************)
(* Properties                                                              *)
(***************************************************************************)

\* Every variable has the type the code gives it.
TranscriptsTypeOK ==
  /\ script \in [Session -> Script]
  /\ length \in [Session -> 0..ScriptLength]
  /\ table \in {"none", "old", "new"}
  /\ rows \in [Session -> SUBSET Exchange]
  /\ step \in [Indexer -> {"idle", "parse", "open", "drop", "create", "store"}]
  /\ at \in [Indexer -> Session \cup {NoSession}]
  /\ parsed \in [Indexer -> SUBSET Exchange]
  /\ todo \in [Indexer -> SUBSET Session]
  /\ search \in {"idle", "table", "files", "answered"}
  /\ found \subseteq Session \X Exchange /\ skipped \subseteq Session
  /\ first \in [Session -> 0..ScriptLength]
  /\ read \in [Indexer -> 0..ScriptLength]
  /\ stored \in [Session -> 0..ScriptLength]
  /\ crossed \subseteq Session
  /\ indexings \in 0..MaxIndexings /\ incidents \in 0..MaxIncidents

\* What a reader of the table sees of a session are the exchanges of one version of its
\* transcript, neither a half of them nor two versions mixed, however the indexers and the
\* migrations interleave (index_session's one transaction, and the flushes of the parser).
RowsWhole ==
  \A s \in Session :
    \/ rows[s] = {}
    \/ \E n \in 1..length[s] : rows[s] = Exchanges(SubSeq(script[s], 1, n))

\* The table never goes back to an older parse of a session, unless two indexers were at it at
\* once or a migration dropped its rows (a miner is alone at its session; a rebuild is not).
NeverBack ==
  [][\A s \in Session : s \notin crossed' => stored'[s] >= stored[s]]_transcriptsVars

\* A search that returns nothing has missed nothing: whatever state the table was in, no
\* transcript within the size limits held an exchange with a word of the query when it was asked,
\* but those the scan of the files left out (transcript_search falls back whenever the table gives
\* no result).
NothingMissed ==
  search = "answered" /\ found = {} =>
    \A s \in Session \ skipped :
      first[s] >= ShortLength /\ length[s] <= LongLength =>
        \A x \in Exchanges(SubSeq(script[s], 1, first[s])) : Query \cap Words(s, x) = {}
================================================================================
