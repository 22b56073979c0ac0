# memem in TLA+

memem keeps an agent's long-term memory as Markdown files in an Obsidian vault.
Detached processes mine each conversation into the vault, an unattended "dream"
pass reorganises it, and every prompt retrieves from it.  There is no daemon:
what the parts agree on lies in files, a handful of `flock`s, and caches that
each process keeps for itself.  That is where tests hardly reach, and what the
modules in this directory are about.

The modules are translated from the code; `PROJECT.json` names for each
definition the lines it stands for, for each property a plausible bug of the
code that it catches, and for each hazard of the code the line where it bites.
To check: `tlc -config MCDreamer.cfg MCDreamer`, `tlapm DreamerProofs.tla`, and
so on for the other modules.

## 1. The system

| Part | State it keeps | Operations | Interacts through |
|------|----------------|------------|-------------------|
| Miner, `mine_delta.py` | `.offsets/<sid>`, `.empty_streak/<sid>`, `.mined_sessions`, `.mine.<sid>.lock`, `.dream-counter` | `run()`: read offset, read delta, flock, backoff, Haiku, save, offset, record | spawned by the Stop hook and the sweep of SessionStart; writes the vault; spawns the dreamer |
| Reconciliation, `_reconcile_candidates` | none of its own | ADD, UPDATE, SUPERSEDE, NOOP, PROFILE; the fallback | vault store, profiles, Haiku |
| Vault store, `obsidian_store.py` | `memories/*.md`, `.vault-write.lock`, a cache in each process | `_save_memory`, `_update_memory`, `invalidate_memory`, `_deprecate_memory`, `bump_access`, purge, `_find_memory` | everybody |
| Profiles, `profiles.py` | `profiles/profile_user.md`, `profile_<project>.md`, `.profiles.lock` | `append_fact`, compaction by Haiku | reconciliation, layer migration; read by SessionStart |
| Embedding index, `embedding_index.py` | `embedding_ids.json`, `embeddings.npy`, `.embeddings.lock` | upsert at each save, rebuild | read by `retrieve.load_embeddings` without the lock |
| Dreamer, `dreamer.py` | `.dream.lock`, `.last-dream-ts`, `dreams/*.json` | demote, judge contradictions, summarise, merge, reflect, rewrite tenses | vault store, Haiku; spawned by the miner or by hand |
| `index.md`, full-text index, graph | derived files and SQLite databases | updates after each write of the vault, rebuilds, schema migration | vault store; read by retrieval |
| Retrieval, `retrieve.py`, `recall.py`, `session_blocks.py` | caches | fusion of three rankings, signals, thinning, expansion over the graph, rendering | reads everything |
| Telemetry, feedback, recall log | `telemetry.json`, relevance scores, event logs | read-modify-write under flocks, appends | written by recall, read by decay and ranking |
| Transcript index, `transcripts.py` | a SQLite database | `index_session`, rebuild, migration of the table, search | miner, search tools; falls back to the transcripts |
| Layer migration, `migrate_layers.py` | a report and a file of proposals | dry run, `--apply` | vault, Haiku, `append_fact` |
| Session state, playbooks, lessons, quarantine, evaluation, CLI, hooks | files of their own | see `PROJECT.json` | |

What makes each part correct, and what is hard about it:

- *Miner.* No text is lost between two offsets, none is mined twice, an idle
  session stops costing Haiku calls, and every session is mined in the end.
  Hard: several processes on one session, reads before the flock, half-written
  lines, files that are truncated before they are written, kills.
- *Reconciliation.* Whatever Haiku answers: protected memories stay, the caps
  hold, nothing is superseded by what does not exist, and mining the same text
  again after a kill makes no second copies.
- *Vault store.* One file per memory, caches that know when they are outdated,
  and no lost update where the write lock is taken.  Hard: thirty seconds of
  cache, renames as unlink and write, writers without the lock, failing writes.
- *Profiles.* A log of facts under a size cap, which is rewritten now and then
  by a call of Haiku that takes seconds and during which the lock is free.
  Whatever Haiku answers is taken if it fits; the code can only see to it that
  it replaces what Haiku was shown.
- *Embedding index.* Row i belongs to memory i, no saved row gets lost, and
  readers that take no lock end up with a sound pair.
- *Dreamer.* It works for minutes on one listing of a vault that changes.  It
  must not touch what is protected, must lose no fact, must not do unattended
  what needs a review, and must reflect on each episode, once.
- *Derived stores.* Full-text rows, lines of `index.md` and edges say what the
  files say.  Hard: each is updated in a transaction of its own, after the
  write lock is free, from listings that come out of a cache up to thirty
  seconds old, among rebuilds that take no lock and may list one project only.
- *Retrieval.* What is returned was live while it was asked for, once, and the
  better memory first.  Hard: files that come and go between a listing, their
  times and the reads, files that have their time before they have their place,
  a cache that is trusted on a time and a count, channels that know only some of
  the memories.
- *Transcript index.* A session's rows are one version of its transcript, and
  a search that finds nothing has missed nothing.  Hard: a table that another
  process drops for its schema between two statements, kills between deletion
  and insertion.
- *Layer migration.* What is applied is what a person could read in the report.
  Hard: two files, written in turn by runs that may stop between them.

## 2. Modules

| Module | Models | Composes with |
|--------|--------|---------------|
| `MineDelta` | `run()` of the miner from its spawn to its end, for one session | - |
| `Reconcile` | what the miner does with the candidates of a delta | stands on `VaultStore` and `Profiles` for the steps it takes as one |
| `VaultStore` | file, name, caches, saved cache and lock for one memory | - |
| `FactLog` | what `append_fact` promises | abstract specification |
| `Profiles` | `append_fact` in detail | refines `FactLog` |
| `LayerMigration` | dry run and `--apply` | EXTENDS `Profiles`: migration and miners are writers of one profile; the composition refines `Profiles` and with it `FactLog` |
| `EmbeddingIndex` | the two files of vectors, writers and readers | - |
| `Dreamer` | dream passes and the miners that work meanwhile | stands on `VaultStore` for the write of one file |
| `GraphIndex` | scores, relations, candidate edges and expansion, as operators | - |
| `VaultIndexes` | full-text rows, `index.md` and graph behind the vault, and the recall over them | EXTENDS `GraphIndex` |
| `Transcripts` | parser, indexers, migrations and searches of the transcripts | - |
| `Retrieval` | `retrieve()` while other processes change the vault | - |
| `MC...` | an instance for TLC | |
| `...Proofs` | theorems and proofs; `EmbeddingTranscriptProofs` has those of two components that share no state, and extends both | |

Each module says at its head what its data stand for.  The main abstractions:

- A memory or text is the *set of facts* it says.  A merged memory says what the
  prompt asks Haiku to keep; the rewrite of a profile, which replaces all there
  is, is any text that fits.  What Haiku chooses (operation, target, winner,
  cluster, supporting members) is any choice that the code lets through. Answers
  that fail to parse are an empty answer, as in the code.
- A position in the transcript counts half records, so that a read can end in
  the middle of a line.  Numbers in files keep their decimal width: two
  overlapping `write_text`s leave digits of both (`Overlay`).
- Modification times are unique (a clock that counts).  Coarse file-system
  timestamps would break `CacheHonest`; the code has no defence against them.
- Each write of one file by `atomic_write_text` is one step, but for
  `Retrieval`, where the temporary file gets its time in one step and its place
  in another. `write_text`, and the rename as unlink and write, are two.  A
  transaction of SQLite is one step.

### MineDelta and the code

`StopHook` and `StaleSweep` are the spawns of `hooks/stop-mine.sh` and
`hooks/session-start.sh`.  `ReadOffsetFile`, `ReadDelta`, `CheckDelta`,
`TakeLock`/`LoseLock`, `SkipDelta`, `Extract`, `Tally`, `SaveCandidates`,
`TruncateOffset`, `PutOffset` and `RecordSession` are the steps of `run()` in
its order, early exits included.  Left out are the steps that feed other parts:
episode (8b, modelled in `Dreamer`), citations (8c), feedback (8d), transcript
index (8e, modelled in `Transcripts`) and the dream counter (9b); each is
wrapped in a `try` of its own.  The first delta of a session is its whole
transcript.  Sessions share no file but the mined list, in which each has a
line, so one session is enough.

### Reconcile and the code

One action per operation of Haiku's answer with its guards: protection, cap,
length guards (`TooShort`), text scan, and the degradation to ADD or NOOP.
SUPERSEDE is two steps, `Supersede` saves and `Invalidate` marks the old
memory.  `Swallow` is an operation that raises inside its handler, `Raise` one
that leaves it, after which `FallbackAdd` saves every candidate of the batch,
those already dealt with too, under new ids.  One project scope; protection
does not change; a profile takes a fact at once, or refuses it.

### VaultStore and the code

One memory, any number of processes with their caches.  `Sweep` is
`_sweep_vault_cache` (stat, then parse), which runs at most every thirty
seconds (`due`); `Find`, `Unlink`, `Write`, `RefreshStat`, `RefreshParse` are
the steps of a mutation.  `Stamp` is a writer without the lock (demotion,
cluster mark, `bump_access`), `Delete` the purge.  A write that raises leaves
its change in the cached dictionary (`dirty`).

A write under another name takes the old file away first
(`obsidian_store.py:504`) and puts the new one in place later (`:615`).  Whoever
raises (`FailWrite`) or is killed (`Crash`) in between, which `Halfway` says,
leaves no file at all, and what the memory held is lost.  The code does that and
the model with it: `cut` notes it, and `Kept` claims that there is no other way
for a memory to vanish while nobody deletes it
(a deletion takes no lock and counts as `rogue`).

A process that starts (`cold`) loads the cache that another one has saved, of
whatever age; an unreadable one, an old pickle and one of another version load
nothing.  When a process saves its cache is left to choice; the saved file is
written through one fixed `.tmp` name and replaced, which is one step here.  A
kill and a restart count as one of the failures.  The vault holds other
memories too, so that the saved cache is never refused for being empty.

`_deprecate_memory` and `_add_related_link` have no caller outside the tests.

### Profiles, FactLog and the code

A text has the facts of its items, and a size; a file may have other lines too,
which count in its size.  Only Haiku writes such lines.  `With` is what an
append makes of a text, `_parse_profile` followed by `_render_profile`: the
items and the new one, without the other lines.  `Defer` frees the lock for the
call of Haiku, and `Compact` accepts any of `Answers` that fits the cap, as
`profiles.py:283` does: with all of the facts, some or none.  `Reread` and
`Swap` or `Retry` are the comparison under the second lock.  The caller whose
call made the rewrite is told `compacted+appended`, which promises nothing of
its fact (`AnswerCompacted`); `appended` and `duplicate` do (`kept`).

`FactLog` says what is left of a promise: an answer is true when it is given
and until the next rewrite, a rewrite replaces exactly the facts its writer was
shown, and a refusal or a death changes nothing.

### EmbeddingIndex and the code

`Save` and `Rebuild` begin what `_upsert_embedding` and
`_rebuild_embedding_index` do; `WriteIds` and `WriteRows` are the two replaces.
A rebuild takes the memories from a cache filled earlier, as in the one CLI
process that runs it.  `Look`, `LoadRows`, `LoadIds` are `load_embeddings`.  No
id is listed twice; a vector is not told from another of the same memory.

### Dreamer and the code

`Begin` is `--dream` (dry run, `--safe-auto`, `--apply`) or `--consolidate`.
`BuildDiff` keeps the listing: since the diff depends on nothing else but
Haiku's answers, a proposal is chosen when it is applied, from the listing
alone.  Then come the categories in the order of `apply_diff`, one step per file
it writes, each of which may raise or be where the pass is killed.  The demotion
and the tense rewrite are proposed for old memories only; a merged memory keeps
the tag `type:episodic` of an episode among its sources, because
`find_cluster_merge_proposals` unions the tags.  Meanwhile miners save episodes,
write them anew when more of the session is mined, and merge news.
`SaveEpisodeAgain` has the facts of the new delta only, which is all that
`run()` passes to `_emit_session_episode` (`mine_delta.py:1456`): what the
episode said before is lost (`dropped`), as is what was merged into it, and a
retired episode becomes valid again.  The environment merges only into valid
memories that are not protected.  `--consolidate` notes no time.

### VaultIndexes, GraphIndex and the code

`Save`, `Update`, `Invalidate`, `Delete` and `Purge` begin an operation of
`obsidian_store.py` and `Write` is its file; then follow, each a step, the line
of `index.md` (`Line`, `Unline`), the full-text row (`Row`, `Unrow`), and the
edges: `Relist` lists the vault, `Drop` removes the memory's edges and `Link`
writes the new ones.  A purge leaves the edges, as the code does;
`_expand_graph` drops what it cannot find.  `Generate`/`Publish` is
`_generate_index`, `Rebuild` and `Migrate` the two rebuilds of the table.
`Regraph(p, scope)`, `Clear`, `Fill` are the rebuild of the graph: it lists the
vault or one project, and deletes the edges of all.  `RowFails` and `GraphFails`
are transactions that raise, which the callers log and leave.  `Ask` and
`Answer` are the two halves of `_search_memories`: the hits of `retrieve`, taken
as live and fresh, and their mapping and expansion over the graph by the process
that asked.

Each process has a `cache` of the vault.  What it finds when it reads (`Views`)
is its cache, of whatever age, or the vault, which the cache then is; its own
writes go into the cache at once.  So a save may miss what another process has
just written, a refresh may join a memory that another process has deleted, and
a recall may find one.  The commands that delete, purge, generate and rebuild
are processes of their own, which sweep first.  `known` has the memories that
had a file since a process last swept.

`GraphIndex` computes scores in percent from the features of two texts and two
memories, which are constants.  An id is its first eight characters, by which
edges are matched.  `index.md` is there from the start.

### Transcripts and the code

A transcript is a prefix of the session's script; `Speak` appends to it.
`Parse` is the parser: `Collect` takes one record, `Flush` is what it does when
the user speaks after an answer and at the end.  An exchange is, for either
side, the set of its records; `Exchanges` says without the parser what they
should be.  `Index` is `index_session` of a miner, `RebuildAll` is
`--rebuild-transcript-index` over all sessions;
`ReadFile` parses before `Open` looks at the table; `Drop` and `Create` are the
two statements of the migration, which commit apart, and `Store` the
transaction that replaces the rows.  The check of the schema may fail and be
taken for an old schema (`OpenFails`), the table may be gone again
(`StoreFails`), the file or the database unreadable (`IndexFails`), and a
process may be killed at any step.  `SearchTable`
and `SearchFiles` are `transcript_search` and its fallback, with the limits on
size and number of files.

### Retrieval and the code

`ListFiles` is the listing, `StatFile` the time of one file in it, `Look` the
check of the cache, `ReadFile` the parse of one file, `KeepIndex` the
publication in the cache; `Recount` lists the files again for the keywords.  A
file that is gone between a listing and its time raises `FileNotFoundError`,
which leaves `retrieve()` (`StatGone`).  The other processes write a temporary
file, which has its time from then on (`WriteTemporary`), and put it in place
whenever they come to it (`Publish`), so that files may appear in another order
than their times say; one that is killed in between never does.

`Answer` is the ranking: three orders (vectors, keywords, full text), chosen
freely, fused by reciprocal ranks with the penalty rank of a missing memory,
normalised, weighted with importance, usage, scope, window and links, then
thinned by likeness and led by the literal hits.  Scores are whole numbers,
`Unit` for 1.0, so that rounding breaks ties that floating point may break
otherwise; ties come in any order.  `Scale`, what a share of 1 counts in a fused
score, is fine enough to tell any two ranks (`ScaleAssumption`), as a double is
for any vault.  One call at a time; a query is not blank.

### LayerMigration and the code

`DryRun`, `ApplyNew`, `ApplyFile` and `ApplyAtOnce` are the ways through
`run_migration`; the list of memories is any set each time, and whether the
file of proposals has become too old is left to choice.  `Truncate` and `Fill`
are the `write_text` of the proposals, `WriteReport` the one of the report,
taken at once.  `Hand` calls `append_fact` of `Profiles` for a line of the
user's profile; the lines for a project's profile are passed by.  One run at a
time, on the default paths.

## 3. Runs

Times are for two workers.

| Run | Distinct states, time | Instance | Shows |
|-----|------|----------|-------|
| `miner` | 417 000, 26 s | 2 processes, 2 records with or without text, torn lines, threshold and skip 1, 1 kill | `PrefixSettled`, `BackoffHonoured`, `EventuallyRecorded` |
| `vault` | 1 155 000, 90 s | 2 processes, one of which also stamps and deletes; 3 mutations, 1 failure or restart, saved caches | `OneFile`, `CacheHonest`, `Kept`, `CachesConverge` |
| `profiles` | 737 000, 71 s | a miner and the migration, 4 facts, cap 2, answers of Haiku with all, some or none of them, 4 calls, 1 kill, 2 runs over 1 memory | `ReportTells`, `CallsReturn`, and that the composition implements `FactLog` |
| `embedding` | 64 000, 4 s | 2 memories, 2 writers, 1 reader, 3 operations, 1 failure | `PairSound`, `RowsKept`, `ReadersCatchUp` |
| `reconcile` | 838 000, 27 s | 2 miners, 3 candidates, an old and a protected memory, caps 1, batches of 2, 3 runs, 1 failure | `PinnedKept`, `SuccessorSaved`, `NoTwins`, `NotRevived` |
| `dream` | 5 327 000, 128 s | 2 passes, 3 old memories (one protected), 1 episode, 1 piece of news, 2 new ids, 2 proposals in a pass, 1 failure | `PinnedKept`, `SuccessorSaved`, `NothingLost`, `ReflectedOnce` |
| `indexes` | 4 192 000, 126 s | 2 memories of 2 texts, 2 processes with caches, 3 operations or recalls, rebuilds of both memories or one, 1 kill or failed transaction | `RowsFollow`, `LinesFollow`, `EdgesFollow`, `GoneNotRecalled` |
| `transcripts` | 3 812 000, 80 s | 2 sessions of up to 4 records, 2 indexers, 2 indexings, 1 kill or failure, limits that a session can miss either way | `RowsWhole`, `NothingMissed`, `NeverBack` |
| `retrieval` | 1 558 000, 70 s | 4 memories, pool of 3, answers of 2 and a literal hit, 4 orders in each channel, 2 writes put in place in any order, any deletions | `IndexLive`, `NoneTwice`, `BetterFirst` |

Each passing run also checks its module's type invariant, which holds the
relations between lock, step and local state.

Three runs end in a violation, each of one statement that a comment or document
of the repository makes; `PROJECT.json` quotes them.

| Run | Statement | What happens |
|-----|-----------|--------------|
| `vault_essence` | the write lock keeps merges from clobbering one another | the merged text is computed before the lock is taken, and written without comparing |
| `dream_unseen` | unresolved contradictions are proposed | a save notes eight characters of the id, the dreamer looks up whole ids |
| `recall_invalid` | an invalidated memory is excluded from recall | its edges stay, and the expansion of a recall drops only deprecated memories |

Seen while modelling, kept in the models as the code has it, without a run:
offset and delta are read before the flock, so a second process can mine a delta
again; when the process with the last delta finds the flock taken, the session
is listed as mined all the same; between the two replaces of a persist a reader
gets n rows and n+1 ids; the time of a dream pass is taken after its work, so an
episode saved meanwhile is never reflected on; the keyword index takes its key
after the index is read; literal hits come on top of the K others; `--exclude`
with an equal number of memories applies the proposals of the file, an excluded
memory's among them.

More of the kind, some against a sentence of the repository.  A history variable
notes each where a property has to except it:

- Haiku's rewrite of a profile may lack any fact, the one just asked for too,
  and is answered `compacted+appended` (`profiles.py:302`; the tests at
  `tests/test_profiles.py:249` assert it on such answers).
- An episode is said to be made of the "full turn list" (`mine_delta.py:505`),
  but is given the turns of the delta (`:1456`).
- "Atomic writes everywhere" (`README.md:99`) leaves out the rename, which is
  an unlink and a write.
- A rebuild of one project's graph deletes the edges of the others, which only
  come back with their next write or rebuild.
- An invalidation by a process with an old cache writes the old text back.
- The key of `load_vault_index` is the newest time and the number of files,
  which is said to notice every change; a file that appears with a time no newer
  than the key's, and no change in number, is not noticed.

Why these bounds: every race above is between two processes, a third only
repeats a role; each counter is bounded just above the value at which the code
changes its behaviour (threshold, cap, smallest cluster), and one failure or
kill is enough for each recovery path, since after it the state is one that the
proofs cover for any number.  In `VaultIndexes` two memories are both ends of an
edge, and three operations are two that overlap and one that repairs, or a
recall after them; the fourth record of a transcript closes the second exchange
after the first was stored; in `Retrieval` four memories are one more than the
pool, which is one more than the answer, and two writes are what it takes to put
a file in place after a newer one has been listed; once a file is written, where
it is the index that matters, one way to answer stands for all.  The theorems
cover any number of writes, with every answer.  The bounds are constants
(`Max...`) with the comment `bound:`; none is part of the code.  The instances
of `indexes`, `transcripts` and `retrieval` fix data that only add size: what
the memories say at first, two scripts out of all, a file that may be missing at
first.

`CHECK_DEADLOCK FALSE` throughout: when the bounds are used up and everything
has come to rest, the modelled system stops, as the real one does until the next
prompt.  Symmetry is used in runs of safety properties only, over ids and
processes that the constants treat alike (in `indexes`, processes only, since
the order of tied edges is a choice made once; in `transcripts`, both sessions
say the same words, so `MCSays` is one of the symmetric functions).

### Fairness

- `MineDelta`: weak fairness of each process's next step (the scheduler), of
  completing a line once begun, of a transcript falling quiet, and of the sweep
  as a whole: the user goes on to start sessions.  No fairness of the Stop hook
  and none of the flock: a process that finds it taken leaves at once.
- `VaultStore`: each process runs its operation on (blocking `flock`s are
  granted, since a holder runs on too) and goes on reading the vault, which
  sweeps its cache.
- `Profiles`, `LayerMigration`, `EmbeddingIndex`: a call goes on; Haiku answers
  or is timed out; a retriever retrieves again.  The migration itself is started
  by hand, and nothing is claimed of its end.
- `Reconcile`, `Dreamer`, `VaultIndexes`, `Transcripts`, `Retrieval`: no
  liveness is claimed, and no fairness assumed.

### History variables

Some properties hold up to an event that the code accepts or that another run
refutes; a history variable says whether it has happened: `garbled` (two
overlapping writes of an offset), `stale`, `rogue` and `cut` of `VaultStore` (a
cache answered out of date, a writer or a deletion without the lock, a rename
that ended between the unlink and the write), `dirty` and `soiled` (a cache holds a change
that never reached the file), `torn` and `outdated` of `EmbeddingIndex` (a
persist that ended between its files, a rebuild from an old listing), `raised`
of `Reconcile` (the fallback, whose docstring accepts duplicates), `judged`,
`stale` and `dropped` of `Dreamer` (a contradiction was decided, a text replaced
that its writer had not read, an episode's facts replaced by those of a later
delta), `met` and `loose` of `VaultIndexes` (operations on the same memory
overlapped, one failed, or one went by an old cache, since its row, line or pair
was last renewed; in `loose.apart` the pairs that the last rebuild of the graph
did not list), `late` and `missed` of `Retrieval` (memories put in place that
the key of the cached index, or of the one being made, does not show), `crossed`
of `Transcripts` (two indexers at one session, or a dropped table), `apart` of
`LayerMigration` (a run ended between its two files).  `seen`, `known`, `valid`,
`first`, `read`, `stored` note what was there at an earlier moment, for the
properties to compare with, and `kept` of `Profiles` what was confirmed since
the last rewrite.  None of them restricts a step.

## 4. Proofs

For every value of the constants, under the assumptions named in the modules
(ids are disjoint and, in the graph and for retrieval, finitely many, bounds are
numbers, a cluster has a member, `Scale` tells any two ranks):

| Module | Theorems | Inductive invariant, and why it is needed |
|--------|----------|------------------------------------------|
| `MineDeltaProofs` | `TypeCorrect`, `LockExcludes`, `OffsetSettled`, `BackoffRests` | `HolderInv`: who is in the locked steps holds the flock. `SettledInv`: not only the stored offset but each position a process carries, to begin at or to write, lies behind settled text only. `RestInv`: skips done and skips to come add up. |
| `VaultStoreProofs` | `TypeCorrect`, `HonestCaches`, `OneFileOnly`, `MutationsKept` | `Bounded`: no remembered time, in a cache or in the saved one, is later than the clock. `NameInv`: whoever has seen the clean name knows that the other is gone for ever. `Kept` needs what every process in the locked steps has in its draft (`Carrying`): while there is no file, the holder is about to write it, unless it was deleted or `cut`. |
| `ProfilesProofs` | `TypeCorrect`, `CapKept`, `LogImplemented`, `ConfirmedFactsStay`, `FactsStay`, `OneMoreWriter`, `LogImplementedMeanwhile`, `MigrationTypeCorrect`, `AppliedIsReported` | what is read under the lock is the file (`LockProtects`), a rewrite fits the cap (`Rewritten`), and who is about to be told `appended` has its fact in the file (`Confirmed`), since only the holder could have replaced it; the refinement is step simulation. Every step of the migration is a step of `Profiles` or leaves the profile alone, so the composition inherits the refinement; for the report, which of the two files is ahead in each stage |
| `EmbeddingTranscriptProofs`, vectors | `TypeCorrect`, `PairsMatch`, `NoRowLost` | the draft of the holder is aligned and has every saved row (`Drafted`, `Carried`) |
| `EmbeddingTranscriptProofs`, transcripts | `ParserRight`, `TranscriptsTypeCorrect`, `RowsAreWhole`, `NothingIsMissed`, `NeverGoesBack` | `Versions`: the rows of a session, and what an indexer holds from its parse to its transaction, are each the exchanges of one version, the rows are missing only when nothing is stored. `Alone`: at a session nobody crossed is one indexer at most, and what it holds is no older than the rows. `Growing`: a search began at a length the transcript has since kept |
| `ReconcileProofs` | `TypeCorrect`, `PinnedSafe`, `SuccessorHasFile`, `CapHolds`, `NeverTwice`, `NeverRevived` | queues hold a session's own candidates (`Queues`); targets are not protected (`Spared`); the cap counts before the file changes (`Counted`); what a miner has filtered and not yet dealt with is said by no memory, in whatever order the miners move (`Twinless`) |
| `DreamerProofs` | `TypeCorrect`, `PinnedSafe`, `SuccessorHasFile`, `SafeAutoAdditive`, `MergingLosesNothing`, `ReflectionCounted` | `Steady`: what is listed is still there, targets were listed, unreviewed passes never come to the destructive steps. `Covering`: the memory of a cluster is valid and says what is still to be retired; facts of an episode that a later delta replaced are in `dropped`, and nothing else is. `Times` and `Counted`: a pass that reflects on an episode fails, or leaves a time past it |
| `VaultIndexesProofs` | `TypeCorrect`, `RowsAgree`, `LinesAgree`, `EdgesAgree`, `GoneStays` | see below |
| `RetrievalProofs` | `TypeCorrect`, `RankedWasLive`, `AnswersOnce`, `BetterLeads` | `Honest`: the cached index is true to the files that were listed under its key (`Found`), but for those that `late` names: a file with a newer time is news, and a deletion alone leaves fewer files. While the times are asked for, each listed file has shown the copy to be old, has still to show it, or is in the copy as it was during the call (`Watched`); while the files are read, the new index is as true to the new key (`ReadingTrue`). `Answering`: there is no answer before the call has one, and the one it has is right by the lemmas on the ranking |

`LockExcludes`, `CapHolds`, `CapKept`, `ConfirmedFactsStay`, `FactsStay` and
`SafeAutoAdditive` state properties that no run checks: the proof covers them
for every instance.

The derived stores have the longest proof.  What a process will write next is a
promise about the stores, and the history variables say who may break it:

- `VaultInv`.  A process past its file has in hand the text and the validity the
  file has now (`Hands`), unless another operation met it on that memory, in
  which case the memory is loose; the listing that each rebuild works from
  agrees with the vault, or the project it lists, except for the memories it has
  met operations on (`Listings`).  What an operation read from an old cache it
  has met as well, and who is at work has read the vault (`Warm`).  `Known`: an
  operation at work on a memory is known (`met`) to all that are at work
  meanwhile.  With these, each step that writes a row or a line writes the right
  one, and `RowsFollow` and `LinesFollow` are conjuncts.
- `GraphInv`.  Edges are in order in three stages.  `Linking`: a refresh that is
  alone on its memory holds the edges that belong to it, and once it has removed
  the old ones, those in the graph and those left to write are together the ones
  that belong there.  `Filling`: until a rebuild writes, the edges of what it
  listed are those of refreshes since it cleared the table.  `Settled`: when no
  rebuild is between its two transactions, a pair that is not loose and that no
  unfinished operation is about (`Calm`) has its edges.  What a refresh adds to
  the graph is known only through lemmas: that the relations are ranked and cut
  off at a limit (`Ranked`), that a symmetric one comes with its reverse
  (`EdgeRows`), that a candidate both memories want is among the best when there
  are no more memories than edges allowed.
- `Witnessed`.  What a process has in its cache had a file at some time since
  its last sweep (`known`), so that whatever rows, edges and related lists lead
  a recall to, it finds nothing that was gone before that sweep:
  `GoneNotRecalled`.

Some steps are inductions over numbers: that a finite set can be listed in
order, that one of several positions is the least, that a parser has a state
after each record.  The theorem on natural induction takes an operator and is
out of reach; the proofs take the least counterexample under the well-founded
order of the numbers instead (`Least` and `Counting` here and in
`EmbeddingTranscriptProofs`, `LeastIs` and `GreatestIs` in `RetrievalProofs`).

The transcript index rests on one of them.  `ParserRight` says that the parser,
which knows only the record it reads and what it has collected, gives the
exchanges the whole transcript shows.  `CollectedSteps` shows that the function
defining its states exists; `Kept` is what holds after each record: what has
been flushed are the exchanges before the last opening, what is being collected
are the records since, and there is an answer among them exactly when the last
record is one, which is why testing for an answer is enough to know a turn.
From there on a transcript is only a prefix of its script: an exchange of one
version is part of an exchange of any later one (`ExchangesGrow`), so a scan of
what a file holds now finds all the words it held when the search began
(`ScannedAll`).  The limits on size and number of files may be any numbers.

The proofs changed the models.  `ExpandRelated` took the intersection with the
vault inside the union over the related lists instead of around it, so that the
expansion over them found nothing, which no property noticed.  The pool a
refresh scores (`_candidate_pool_for_memory`, `graph_index.py:384`) is not the
pool of a rebuild (`_candidate_pool_from_index`, `:451`): a common project
counts only in the first, and words are compared by their stems when they are
scored, raw when they are pooled.  `EdgesFollow` therefore speaks of the
memories that both join (`Wanted`).  Ties in a score may come in any order.

In `Retrieval`, `BetterFirst` used to ask that m be linked to the first of the
pool whenever n is.  That is not enough, although TLC's instance does not show
it: the code takes the seeds of the links before the sort for a time, so the
first of the pool need not be among them.  The property asks that m have the
links into the pool that n has.  Its proof is arithmetic: a channel that prefers
m gives it a share that is greater after rounding (`SharesDiffer`, from
`ScaleAssumption`), one that knows neither gives both the same, so the fused
score is strictly greater (`FusedOrder`); stretching, weighting and the boost
are monotone though no longer strictly (`NormalisedOrder`, `BonusOrder`,
`ScoresOrder`), and the sort for a time is stable, so what is strict in the
order of the candidates stays so in the pool (`RerankedBetter`).

Every invariant and every action property that a passing run checks is a
theorem. Only model-checked:

- the liveness properties (`EventuallyRecorded`, `CachesConverge`,
  `CallsReturn`, `ReadersCatchUp`), which need fairness and `ENABLED`.

The violations are runs by nature.

## 5. What is not modelled

`PROJECT.json` lists the components with the reason; in short:

- *Telemetry and feedback*: counts that only weigh in the order of an answer,
  each file changed under one flock.  `Retrieval` takes any usage.
- *Decay*: real arithmetic with exponentials.  Who is weak is a choice in
  `Dreamer`.
- *Session state*: nothing but its own migration writes the database.
- *Playbooks*: a file derived from the whole vault, replaced in one step; what
  Haiku makes of it is wording.
- *Parts of modelled components*: sections, headings and the budget of the
  session-start context (`profiles.py`, `assembly.py`, `session_blocks.py`),
  excerpts and rendering, statistics and audit of the graph, the optional
  cross-encoder, other vaults, the event logs, `_fts_temporal_search`, which
  nothing calls, and `migrate_bitemporal.py`, a script run once.
- *Pure input and output* (reports, hooks that print, evaluation, installation)
  and the quality of Haiku's answers.

What would add most next is the composition of `Reconcile` with the steps of
`VaultStore` in place of its one-step writes, and of the recalls of
`VaultIndexes` with the late files of `Retrieval`, where the hits are still
taken as live.
