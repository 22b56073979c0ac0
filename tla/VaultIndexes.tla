----------------------------- MODULE VaultIndexes -----------------------------
(***************************************************************************)
(* The indexes derived from the vault: the full-text table (search.db), the*)
(* list of memories (index.md) and the graph (graph.db), as the operations *)
(* of memem/obsidian_store.py, search_index.py and graph_index.py keep     *)
(* them.  An operation changes a memory's file first and then each index   *)
(* in a transaction of its own, so that operations of several processes,   *)
(* and the rebuilds the command line offers, interleave between them.      *)
(*                                                                         *)
(* A process reads the vault through a cache that a sweep of the files     *)
(* brings up to date when it is 30 seconds old.  A command of the command  *)
(* line is a process of its own, whose first listing sweeps.  What a write *)
(* does to names and locks is in VaultStore, the embeddings are those of   *)
(* EmbeddingIndex.                                                         *)
(***************************************************************************)
EXTENDS GraphIndex

CONSTANTS
  Process,
  Denies,         \* Denies[t]: _NEGATION_SIGNALS in t
  Matching,       \* Matching[t]: texts whose rows hold every word of t
  RecallLimit,    \* limit * 2 of a recall
  Scopes,         \* what a rebuild of the graph may list: all memories, those of a project
  MaxOperations,  \* bound: operations and recalls begun
  MaxIncidents    \* bound: kills and failed transactions

ASSUME TextAssumption ==
  /\ Matching \in [Text -> SUBSET Text]
  /\ DOMAIN Denies = Text
ASSUME ProcessAssumption == None \notin Process
ASSUME ListingAssumption == None \notin [Id -> Memory \cup {None}]
ASSUME ScopesAssumption == Scopes \subseteq SUBSET Id
ASSUME BoundsAssumption ==
  RecallLimit \in Nat /\ MaxOperations \in Nat /\ MaxIncidents \in Nat

VARIABLES
  vault,     \* vault[i]: the memory in the file of i, or None
  writer,    \* holder of .vault-write.lock
  current,   \* the full-text table has the current schema
  rows,      \* rows[i]: the text search finds i by, or None
  lines,     \* lines[i]: the text of the line of i in index.md, or None
  graph,     \* the edges
  step,      \* step[p]: what the operation of p does next
  on,        \* on[p]: the memory it is about, None for a rebuild
  draft,     \* draft[p]: that memory as p has it in hand
  listing,   \* listing[p]: the vault as p listed it
  todo,      \* todo[p]: edges p has still to write
  cache,     \* cache[p]: the vault as p last swept it and has changed it since, None at first
  asker,     \* the process whose recall is under way, or None
  seeds,     \* its hits
  answer,    \* what the last recall returned
  met,       \* history: met[p]: memories operations of others were about meanwhile
  loose,     \* history: memories whose row, line or edges an overlap, a failure or an old cache
             \* left, and pairs apart as the last rebuild did not list both
  known,     \* history: known[p]: memories that had a file since p last swept
  seen,      \* history: those of the process that answered the last recall
  valid,     \* history: memories that were valid at some time of the last recall
  begun, incidents

files == <<vault, writer>>
indexes == <<current, rows, lines, graph>>
hands == <<step, on, draft, listing, todo>>
caches == <<cache, known>>
recall == <<asker, seeds, answer, seen, valid>>
counts == <<begun, incidents>>
vars == <<files, indexes, hands, caches, recall, met, loose, counts>>

Empty == [i \in Id |-> None]
Texts(notes) == [i \in Id |-> IF notes[i] = None THEN None ELSE notes[i].text]
Listed == Texts(vault)
Busy(i) == \E p \in Process : step[p] # "idle" /\ on[p] = i

NothingLoose == [rows |-> {}, lines |-> {}, pairs |-> {}, apart |-> {}]
Pairs(i) == {{i, j} : j \in Id}
AllPairs == {{i, j} : i \in Id, j \in Id}

Goto(p, s) == step' = [step EXCEPT ![p] = s]
Keep(p) == UNCHANGED <<on, draft, listing, todo, met>>

Return(p) ==
  /\ Goto(p, "idle")
  /\ on' = [on EXCEPT ![p] = None]
  /\ draft' = [draft EXCEPT ![p] = None]
  /\ listing' = [listing EXCEPT ![p] = Empty]
  /\ todo' = [todo EXCEPT ![p] = <<>>]

\* The operation returns or is killed.
Leave(p) == Return(p) /\ met' = [met EXCEPT ![p] = {}]

\* p replaces a whole index: an operation under way can no longer vouch for its memory, nor another
\* replacement for those p missed.
Disturb(p, own) ==
  met' = [q \in Process |->
            IF q = p THEN own
            ELSE IF step[q] = "idle" THEN {}
            ELSE met[q] \cup IF on[q] = None THEN met[p] ELSE {on[q]}]

\* What p finds when it reads the vault: its cache as it is, or the files it sweeps.
Views(p) == {vault} \cup ({cache[p]} \ {None})

Valid(notes) == {i \in Present(notes) : notes[i].valid}

Read(p, view) ==
  /\ cache' = [cache EXCEPT ![p] = view]
  /\ known' = [known EXCEPT ![p] = IF view = vault THEN Present(vault) ELSE @]

\* Memories that other processes changed since.
Outdated(view) == {i \in Id : view[i] # vault[i]}

\* An operation on memory i that is through has renewed what some of the indexes say of i, unless
\* another one on i ran meanwhile; its edges are right towards those nothing else was about.
Renew(p, renewed) ==
  LET i == on[p]
      Left(index) == IF i \in met[p] THEN loose[index] \cup {i}
                     ELSE IF index \in renewed THEN loose[index] \ {i} ELSE loose[index]
  IN  loose' = [rows |-> Left("rows"), lines |-> Left("lines"),
                pairs |-> IF i \in met[p] \/ "gone" \in renewed THEN loose.pairs \cup Pairs(i)
                          ELSE (loose.pairs \ IF "pairs" \in renewed THEN Pairs(i) ELSE {})
                                 \cup {{i, j} : j \in met[p]},
                apart |-> loose.apart \ IF "pairs" \in renewed THEN Pairs(i) ELSE {}]

Spoil(is) ==
  loose' = [loose EXCEPT !.rows = @ \cup is, !.lines = @ \cup is,
                         !.pairs = @ \cup UNION {Pairs(i) : i \in is}]

\* Memories others are about now, and those that learn that p is about i.
Others(p) == {on[q] : q \in {r \in Process \ {p} : step[r] # "idle"}} \ {None}
Met(p, i, doubt) ==
  met' = [q \in Process |->
            IF q = p THEN Others(p) \cup doubt
            ELSE IF step[q] # "idle" /\ i # None THEN met[q] \cup {i} ELSE met[q]]

\* p begins an operation on i, or a rebuild; it cannot vouch for what it knows to be in doubt.
Begin(p, i, s, doubt) ==
  /\ step[p] = "idle" /\ begun < MaxOperations
  /\ begun' = begun + 1
  /\ Goto(p, s)
  /\ on' = [on EXCEPT ![p] = i]
  /\ Met(p, i, doubt)
  /\ UNCHANGED <<todo, incidents, recall>>
--------------------------------------------------------------------------------
Init ==
  /\ vault \in [Id -> {None} \cup [text : Text, valid : {TRUE}, related : {{}}, contradicts : {{}}]]
  /\ writer = None
  /\ current \in BOOLEAN
  /\ rows = IF current THEN Listed ELSE Empty
  /\ lines = Listed
  /\ graph = Rebuilt({}, vault)
  /\ step = [p \in Process |-> "idle"]
  /\ on = [p \in Process |-> None]
  /\ draft = [p \in Process |-> None]
  /\ listing = [p \in Process |-> Empty]
  /\ todo = [p \in Process |-> <<>>]
  /\ met = [p \in Process |-> {}]
  /\ loose = NothingLoose
  /\ cache = [p \in Process |-> None] /\ known = [p \in Process |-> {}]
  /\ asker = None /\ seeds = {} /\ answer = {} /\ seen = {} /\ valid = {}
  /\ begun = 0 /\ incidents = 0

(***************************************************************************)
(* The file                                                                *)
(***************************************************************************)

\* Memories whose row holds every word of t, that share enough of it and lack one of its denials.
Contradictions(t, notes) ==
  IF Denies[t] = {} THEN {}
  ELSE {i \in Id : /\ rows[i] \in Matching[t] /\ notes[i] # None
                   /\ Overlap[t][notes[i].text] >= 30
                   /\ Denies[t] \ Denies[notes[i].text] # {}}

\* _save_memory: contradictions and related notes come from what the table and the listing say.
Save(p, i, t) ==
  /\ vault[i] = None
  /\ Begin(p, i, "write", {})
  /\ \E view \in Views(p) :
       LET mem == [text |-> t, valid |-> TRUE, related |-> {},
                   contradicts |-> Contradictions(t, view)]
       IN  /\ view[i] = None
           /\ Read(p, view)
           /\ draft' = [draft EXCEPT ![p] = [mem EXCEPT !.related = SuggestRelated(i, mem, view)]]
  /\ UNCHANGED <<files, indexes, listing, loose>>

\* _update_memory, under the vault's lock.
Update(p, i, t) ==
  /\ writer = None
  /\ Begin(p, i, "write", {})
  /\ writer' = p
  /\ \E view \in Views(p) :
       LET mem == [view[i] EXCEPT !.text = t]
       IN  /\ view[i] # None
           /\ Read(p, view)
           /\ draft' = [draft EXCEPT ![p] = [mem EXCEPT !.related = SuggestRelated(i, mem, view)]]
  /\ UNCHANGED <<vault, indexes, listing, loose>>

\* invalidate_memory, under the vault's lock; an old cache brings an old text back.
Invalidate(p, i) ==
  /\ writer = None
  /\ writer' = p
  /\ \E view \in Views(p) :
       /\ view[i] # None
       /\ Begin(p, i, "bury", Outdated(view) \cap {i})
       /\ Read(p, view)
       /\ draft' = [draft EXCEPT ![p] = [view[i] EXCEPT !.valid = FALSE]]
  /\ UNCHANGED <<vault, indexes, listing, loose>>

\* _delete_memory and purge_mined_memories, of the command line, take a file away that they listed.
TakeAway(p, i, next) ==
  /\ vault[i] # None
  /\ Begin(p, i, next, {})
  /\ vault' = [vault EXCEPT ![i] = None]
  /\ cache' = [cache EXCEPT ![p] = vault']
  /\ known' = [known EXCEPT ![p] = Present(vault)]
  /\ UNCHANGED <<writer, indexes, draft, listing, loose>>

Delete(p, i) == TakeAway(p, i, "unline")
Purge(p, i) == TakeAway(p, i, "purge row")

\* The processes whose caches are filled, and the recall under way, meet what is there now.
Witness(v) ==
  /\ known' = [q \in Process |-> IF cache[q] = None THEN known[q] ELSE known[q] \cup Present(v)]
  /\ valid' = IF asker = None THEN valid ELSE valid \cup Valid(v)

\* Mutant: the file gets the text without its fields.
WriteBare(p) ==
  /\ step[p] \in {"write", "bury"}
  /\ vault' = [vault EXCEPT ![on[p]] = draft[p].text]
  /\ cache' = [cache EXCEPT ![p][on[p]] = draft[p]]
  /\ UNCHANGED <<known, valid>>
  /\ writer' = IF writer = p THEN None ELSE writer
  /\ Goto(p, IF step[p] = "write" THEN "line" ELSE "unsearch")
  /\ Keep(p)
  /\ UNCHANGED <<indexes, asker, seeds, answer, seen, loose, counts>>

\* The file is replaced and read into the cache; the lock, if it was taken, is freed.
Write(p) ==
  /\ step[p] \in {"write", "bury"}
  /\ vault' = [vault EXCEPT ![on[p]] = draft[p]]
  /\ cache' = [cache EXCEPT ![p][on[p]] = draft[p]]
  /\ Witness(vault')
  /\ writer' = IF writer = p THEN None ELSE writer
  /\ Goto(p, IF step[p] = "write" THEN "line" ELSE "unsearch")
  /\ Keep(p)
  /\ UNCHANGED <<indexes, asker, seeds, answer, seen, loose, counts>>

(***************************************************************************)
(* The list of memories                                                    *)
(***************************************************************************)

\* Mutant: a line that is there is left as it is.
LineOnce(p) ==
  /\ step[p] = "line"
  /\ lines' = IF lines[on[p]] = None THEN [lines EXCEPT ![on[p]] = draft[p].text] ELSE lines
  /\ Goto(p, "row")
  /\ Keep(p)
  /\ UNCHANGED <<files, current, rows, graph, caches, recall, loose, counts>>

\* _append_or_update_index_line, under the lock of index.md.
Line(p) ==
  /\ step[p] = "line"
  /\ lines' = [lines EXCEPT ![on[p]] = draft[p].text]
  /\ Goto(p, "row")
  /\ Keep(p)
  /\ UNCHANGED <<files, current, rows, graph, caches, recall, loose, counts>>

\* _remove_index_line
Unline(p) ==
  /\ step[p] \in {"unline", "purge line"}
  /\ lines' = [lines EXCEPT ![on[p]] = None]
  /\ IF step[p] = "unline"
     THEN Goto(p, "unrow") /\ Keep(p) /\ UNCHANGED loose
     ELSE Leave(p) /\ Renew(p, {"rows", "lines", "gone"})
  /\ UNCHANGED <<files, current, rows, graph, caches, recall, counts>>

\* _generate_index lists the vault and writes the file with no lock.
Generate(p) ==
  /\ Begin(p, None, "publish", {})
  /\ Read(p, vault)
  /\ listing' = [listing EXCEPT ![p] = vault]
  /\ UNCHANGED <<files, indexes, draft, loose>>

Publish(p) ==
  /\ step[p] = "publish"
  /\ lines' = [i \in Id |-> IF listing[p][i] = None THEN None ELSE listing[p][i].text]
  /\ loose' = [loose EXCEPT !.lines = met[p]]
  /\ Return(p) /\ Disturb(p, {})
  /\ UNCHANGED <<files, current, rows, graph, caches, recall, counts>>

(***************************************************************************)
(* The full-text table.  A transaction of SQLite is one step; whoever      *)
(* opens a table of an older schema first rebuilds it.                     *)
(***************************************************************************)
AtRow(p) == step[p] \in {"row", "unrow", "unsearch", "purge row"}

\* The rows of every memory listed, the invalidated ones among them.
RebuildRows(view) ==
  /\ rows' = Texts(view)
  /\ current' = TRUE
  /\ loose' = [loose EXCEPT !.rows = {i \in loose.rows : Busy(i)} \cup Outdated(view)]

\* _migrate_fts_schema
Migrate(p) ==
  /\ AtRow(p) /\ ~current
  /\ \E view \in Views(p) : Read(p, view) /\ RebuildRows(view)
  /\ UNCHANGED <<files, lines, graph, hands, recall, met, counts>>

\* _rebuild_search_index: its DELETE takes the database before the vault is listed.
Rebuild(p) ==
  /\ step[p] = "idle" /\ begun < MaxOperations
  /\ begun' = begun + 1
  /\ Read(p, vault) /\ RebuildRows(vault)
  /\ UNCHANGED <<files, lines, graph, hands, recall, met, incidents>>

\* Mutant: the row is inserted without deleting the one that is there.
RowOnce(p) ==
  /\ step[p] = "row" /\ current
  /\ rows' = IF rows[on[p]] = None THEN [rows EXCEPT ![on[p]] = draft[p].text] ELSE rows
  /\ Goto(p, "relist")
  /\ Keep(p)
  /\ UNCHANGED <<files, current, lines, graph, caches, recall, loose, counts>>

\* _index_memory
Row(p) ==
  /\ step[p] = "row" /\ current
  /\ rows' = [rows EXCEPT ![on[p]] = draft[p].text]
  /\ Goto(p, "relist")
  /\ Keep(p)
  /\ UNCHANGED <<files, current, lines, graph, caches, recall, loose, counts>>

\* _remove_from_index
Unrow(p) ==
  /\ AtRow(p) /\ step[p] # "row" /\ current
  /\ rows' = [rows EXCEPT ![on[p]] = None]
  /\ IF step[p] = "unsearch"
     THEN Leave(p) /\ Renew(p, {"rows"})
     ELSE /\ Goto(p, IF step[p] = "unrow" THEN "unlink" ELSE "purge line")
          /\ Keep(p) /\ UNCHANGED loose
  /\ UNCHANGED <<files, current, lines, graph, caches, recall, counts>>

\* The table stayed locked, or broke: the operation goes on without.
RowFails(p) ==
  /\ AtRow(p) /\ incidents < MaxIncidents
  /\ incidents' = incidents + 1
  /\ IF step[p] = "unsearch"
     THEN Leave(p) /\ Spoil({on[p]})
     ELSE /\ met' = [met EXCEPT ![p] = @ \cup {on[p]}]
          /\ Goto(p, CASE step[p] = "row" -> "relist"
                       [] step[p] = "unrow" -> "unlink"
                       [] step[p] = "purge row" -> "purge line")
          /\ UNCHANGED <<on, draft, listing, todo, loose>>
  /\ UNCHANGED <<files, indexes, caches, recall, begun>>

(***************************************************************************)
(* The graph                                                               *)
(***************************************************************************)

Refreshed(i, notes) == EdgeCandidates(i, notes[i], notes, PoolFor(i, notes[i], notes))

\* _refresh_edges_for_memory lists the vault; a memory deleted meanwhile keeps what edges it has.
Relist(p) ==
  /\ step[p] = "relist"
  /\ \E view \in Views(p) :
       /\ Read(p, view)
       /\ IF view[on[p]] = None
          THEN Leave(p) /\ Spoil({on[p]})
          ELSE /\ todo' = [todo EXCEPT ![p] = Upserts(Refreshed(on[p], view))]
               /\ met' = [met EXCEPT ![p] = @ \cup Outdated(view)]
               /\ Goto(p, "drop")
               /\ UNCHANGED <<on, draft, listing, loose>>
  /\ UNCHANGED <<files, indexes, recall, counts>>

\* It removes every edge that touches the memory, then writes the new ones one by one.
Drop(p) ==
  /\ step[p] = "drop"
  /\ graph' = Without(graph, on[p])
  /\ IF todo[p] = <<>>
     THEN Leave(p) /\ Renew(p, {"rows", "lines", "pairs"})
     ELSE Goto(p, "link") /\ Keep(p) /\ UNCHANGED loose
  /\ UNCHANGED <<files, current, rows, lines, caches, recall, counts>>

Link(p) ==
  /\ step[p] = "link"
  /\ graph' = Upsert(graph, Head(todo[p]))
  /\ IF Len(todo[p]) = 1
     THEN Leave(p) /\ Renew(p, {"rows", "lines", "pairs"})
     ELSE /\ todo' = [todo EXCEPT ![p] = Tail(@)]
          /\ UNCHANGED <<step, on, draft, listing, met, loose>>
  /\ UNCHANGED <<files, current, rows, lines, caches, recall, counts>>

\* _remove_edges_for_memory
Unlink(p) ==
  /\ step[p] = "unlink"
  /\ graph' = Without(graph, on[p])
  /\ Leave(p) /\ Renew(p, {"rows", "lines", "pairs"})
  /\ UNCHANGED <<files, current, rows, lines, caches, recall, counts>>

\* _rebuild_graph lists the vault or one project, clears the whole graph, and writes the edges in
\* one transaction.
Regraph(p, scope) ==
  /\ Begin(p, None, "clear", {})
  /\ Read(p, vault)
  /\ listing' = [listing EXCEPT ![p] = [i \in Id |-> IF i \in scope THEN vault[i] ELSE None]]
  /\ UNCHANGED <<files, indexes, draft, loose>>

Clear(p) ==
  /\ step[p] = "clear"
  /\ graph' = {}
  /\ Goto(p, "fill") /\ Disturb(p, met[p])
  /\ UNCHANGED <<on, draft, listing, todo>>
  /\ UNCHANGED <<files, current, rows, lines, caches, recall, loose, counts>>

Fill(p) ==
  /\ step[p] = "fill"
  /\ graph' = Rebuilt(graph, listing[p])
  /\ loose' = [loose EXCEPT !.pairs = UNION {Pairs(i) : i \in met[p]},
                            !.apart = UNION {Pairs(i) : i \in Id \ Present(listing[p])}]
  /\ Return(p) /\ Disturb(p, {})
  /\ UNCHANGED <<files, current, rows, lines, caches, recall, counts>>

\* graph.db stayed locked: the refresh is given up where it was.
GraphFails(p) ==
  /\ step[p] \in {"relist", "drop", "link", "unlink"} /\ incidents < MaxIncidents
  /\ incidents' = incidents + 1
  /\ Spoil({on[p]})
  /\ Leave(p)
  /\ UNCHANGED <<files, indexes, caches, recall, begun>>

\* The process is killed between two of its writes; the kernel frees its lock.
Kill(p) ==
  /\ step[p] # "idle" /\ incidents < MaxIncidents
  /\ incidents' = incidents + 1
  /\ writer' = IF writer = p THEN None ELSE writer
  /\ IF on[p] # None THEN Spoil({on[p]})
     ELSE loose' = [loose EXCEPT !.pairs = IF step[p] = "fill" THEN AllPairs ELSE @]
  /\ Leave(p)
  /\ cache' = [cache EXCEPT ![p] = None]
  /\ known' = [known EXCEPT ![p] = {}]
  /\ asker' = (IF asker = p THEN None ELSE asker) /\ seeds' = (IF asker = p THEN {} ELSE seeds)
  /\ UNCHANGED <<vault, indexes, answer, seen, valid, begun>>

(***************************************************************************)
(* Recall                                                                  *)
(***************************************************************************)

\* retrieve() ranks the memories that are there and not invalidated; these are its hits.
Ask(p) ==
  /\ asker = None /\ begun < MaxOperations
  /\ begun' = begun + 1
  /\ asker' = p
  /\ seeds' \in SUBSET Valid(vault) \ {{}}
  /\ answer' = {} /\ seen' = {} /\ valid' = Valid(vault)
  /\ UNCHANGED <<files, indexes, hands, caches, met, loose, incidents>>

\* _search_memories maps the hits to the memories that the process finds and expands them over the
\* graph, or over their related lists.
Answer(p) ==
  /\ asker = p
  /\ \E view \in Views(p) :
       LET found == seeds \cap Present(view)
           reached == ExpandGraph(graph, view, found)
       IN  /\ Read(p, view)
           /\ IF found = {} THEN answer' = {}
              ELSE answer' \in {S \in SUBSET reached : found \subseteq S /\
                                  (S = reached \/ Cardinality(S) = RecallLimit)}
  /\ asker' = None /\ seeds' = {} /\ seen' = known'[p]
  /\ UNCHANGED <<files, indexes, hands, met, loose, valid, counts>>
--------------------------------------------------------------------------------
Change(p) ==
  \E i \in Id : \/ \E t \in Text : Save(p, i, t) \/ Update(p, i, t)
                \/ Invalidate(p, i) \/ Delete(p, i) \/ Purge(p, i)

Proceed(p) ==
  \/ Write(p) \/ Line(p) \/ Unline(p) \/ Migrate(p) \/ Row(p) \/ Unrow(p)
  \/ Relist(p) \/ Drop(p) \/ Link(p) \/ Unlink(p)

Renewal(p) ==
  \/ Generate(p) \/ Publish(p) \/ Rebuild(p)
  \/ (\E scope \in Scopes : Regraph(p, scope)) \/ Clear(p) \/ Fill(p)

Fault(p) == RowFails(p) \/ GraphFails(p) \/ Kill(p)

Next ==
  \E p \in Process :
    Change(p) \/ Proceed(p) \/ Renewal(p) \/ Fault(p) \/ Ask(p) \/ Answer(p)

Spec == Init /\ [][Next]_vars

(***************************************************************************)
(* Properties                                                              *)
(***************************************************************************)
Step == {"idle", "write", "bury", "line", "row", "relist", "drop", "link", "unsearch", "unline",
         "unrow", "unlink", "purge row", "purge line", "publish", "clear", "fill"}

\* Every variable has the type the code gives it.
TypeOK ==
  /\ vault \in [Id -> Memory \cup {None}]
  /\ writer \in Process \cup {None}
  /\ current \in BOOLEAN
  /\ rows \in [Id -> Text \cup {None}] /\ lines \in [Id -> Text \cup {None}]
  /\ graph \subseteq Edge
  /\ step \in [Process -> Step]
  /\ on \in [Process -> Id \cup {None}]
  /\ draft \in [Process -> Memory \cup {None}]
  /\ listing \in [Process -> [Id -> Memory \cup {None}]]
  /\ todo \in [Process -> Seq(Edge)]
  /\ met \in [Process -> SUBSET Id]
  /\ loose \in [rows : SUBSET Id, lines : SUBSET Id,
                pairs : SUBSET AllPairs, apart : SUBSET AllPairs]
  /\ cache \in [Process -> [Id -> Memory \cup {None}] \cup {None}]
  /\ known \in [Process -> SUBSET Id]
  /\ asker \in Process \cup {None}
  /\ seeds \subseteq Id /\ answer \subseteq Id /\ seen \subseteq Id /\ valid \subseteq Id
  /\ begun \in 0..MaxOperations /\ incidents \in 0..MaxIncidents

\* The full-text table answers for the vault: a memory nothing is at work on has the row of its
\* text, or none when it is gone, unless operations on it overlapped, one of them failed or went by
\* an old cache since it was last renewed (search_index.py, and the order of the steps in
\* obsidian_store.py).  An invalidated memory may have its row back from a rebuild.
RowsFollow ==
  current =>
    \A i \in Id : ~Busy(i) /\ i \notin loose.rows =>
      rows[i] \in IF vault[i] = None THEN {None}
                  ELSE IF vault[i].valid THEN {vault[i].text} ELSE {None, vault[i].text}

\* index.md lists the vault, with the same exceptions and those a regeneration without the lock
\* adds (obsidian_store.py:1514); an invalidated memory keeps its line.
LinesFollow ==
  \A i \in Id : ~Busy(i) /\ i \notin loose.lines => lines[i] = Listed[i]

Regraphing == \E p \in Process : step[p] \in {"clear", "fill"}

\* The memories that a refresh and a rebuild, which score different pools, both join i to.
Wanted(i) ==
  {e.dst : e \in ToSet(Refreshed(i, vault))} \cap PoolFromIndex(i, vault[i], vault)

\* The graph joins memories that are there, symmetric relations both ways, and every two memories
\* that want an edge towards each other, unless operations on either overlapped or failed or a
\* refresh read one from an old cache since the pair was last renewed (graph_index.py:544, 565).
\* Memories that want each other are apart after a rebuild that did not list both: it has deleted
\* the edges of every project and written those of one.
EdgesFollow ==
  ~Regraphing =>
    \A i, j \in Id : ~Busy(i) /\ ~Busy(j) /\ {i, j} \notin loose.pairs /\ i # j =>
      /\ \A e \in graph : e.src = i /\ e.dst = j =>
           /\ vault[i] # None /\ vault[j] # None
           /\ e.type \in Symmetric => \E d \in graph : d.src = j /\ d.dst = i /\ d.type = e.type
      /\ vault[i] # None /\ vault[j] # None /\ Cardinality(Id) <= EdgeLimit
           /\ j \in Wanted(i) /\ i \in Wanted(j) /\ {i, j} \notin loose.apart
           => \E e \in graph : {e.src, e.dst} = {i, j}

\* A recall returns no memory whose file was gone before the process that answers last swept the
\* vault, whatever rows, edges and related lists still name it (recall.py:221, 256, 319).
GoneNotRecalled == answer \subseteq seen

\* invalidate_memory promises that an invalidated memory is excluded from future recall
\* (obsidian_store.py:1401-1403): a recall returns none that was invalid from its start to its end.
InvalidNotRecalled == answer \subseteq valid
================================================================================
