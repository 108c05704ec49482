# Verification of C-Blitz in TLA+

C-Blitz is a VS Code extension that indexes C and C++ workspaces into SQLite and answers
Go to Definition (F12), Find References, a fuzzy symbol search (F10) and a "Code
Insight" tree. This directory holds TLA+ models of it: of its concurrent core, of what
the tables say of the files, of the view that shows them, and of the pure parts that
answer from them; the TLC configurations that check them on small instances; and TLAPS
proofs that hold for every size. Paths are relative to the extension's own `src/` (that
is `src/src/...` from the root of the repository) unless they start with `test/` or
`README.md`.

1. [The system](#1-the-system): parts, state, operations, interaction, hazards
2. [The modules](#2-the-modules) and how they correspond to the code
3. [The runs](#3-the-runs): what each checks, its bounds, the fairness assumed
4. [Where the code and its comments disagree](#4-where-the-code-and-its-comments-disagree)
5. [The proofs](#5-the-proofs)
6. [What is not modelled](#6-what-is-not-modelled)
7. [The plan](#7-the-plan)

## 1. The system

    user, file watcher, editor
          |  Rescan, Stop, saves, unsaved edits, F12, Shift+F12, F10
          v
    extension host (one thread) ---------------- reads --------------+
      SerialIndexRunner  one index run at a time                     |
      IndexGate          queries wait for indexing to settle         |
      extension.ts       doRunIndex, trackIncremental, liveReindex   |
          |  calls                                                   |
          v                                                          v
      WorkerPool ---- indexAll / reindex / cancel ---> parser 1..n   SQLite (WAL)
          |                                               |  apply   ^
          |                                               v          |
          +---- flush / dropIndexes / createIndexes ---> writer -----+
                resolveParents / remove

### Components

| Component | State | Operations |
|---|---|---|
| Writer thread (`indexer/worker.ts`, `store/db.ts`) | batch, batch timer, the tables, the name indexes | `apply`, timer, `flush`, `remove`, `resolveParents`, `dropIndexes`, `createIndexes` |
| Parser threads (`indexer/worker.ts`, `indexFile.ts`, `parser.ts`) | in-flight counter, `waitResolve`, `canceled`, loaded grammars, one suspended handler per request | `indexAll`, `reindex`, `reindexContent`, `cancel`, `ack` |
| Worker pool and clients (`workerPool.ts`, `workerClient.ts`) | spawned workers, round-robin counter, pending promises | `indexAll`, `reindex`, `reindexContent`, `remove`, `cancel`, `dispose` |
| Serial index runner (`core/serialIndexRunner.ts`) | generation, tail promise, running flag | `request` |
| Index gate (`core/indexGate.ts`) | active counter, waiters | `begin`, `end`, `track`, `whenIdle` |
| Host indexing (`extension.ts`, `core/host.ts`) | `forceAll`, `bulkActive`, `bulkDropsIndexes`, `stopRequested`, burst counters, status bar | `runIndex`, `doRunIndex`, `stopIndexing`, `trackIncremental`, `liveReindex`, `getDb` |
| Navigation (`features/definition*.ts`, `referenceProvider.ts`, `resolve.ts`, `nav.ts`) | none of its own | wait at the gate, query |
| F10 (`features/fuzzySearch.ts`) | the open quick pick and its connection | open, keystroke, close |
| Index plan (`core/indexPlan.ts`) | none (pure) | `computeIndexPlan` |
| Exclusion rules (`indexer/exclusionEngine.ts`) | ordered rules | `isExcluded` |
| Code Insight view (`features/relationsView.ts`) | current symbol, keyword, pin, five caches | `setCurrent`, `setKeyword`, `setPinned`, `setIndexing`, `refresh`, `getChildren` |
| Call graph, type chain (`features/callGraph.ts`, `typeChain.ts`) | none (recursion over the tables) | expand |
| Query language and ranking (`features/fuzzyQuery.ts`, `store/fuzzyMatch.ts`) | none (pure) | parse, match, rank |
| Tables (`store/db.ts`) | symbols, refs, files, their indexes | `replaceFile`, `removeFile`, point queries, parent resolution |
| Symbol resolution (`features/symbolResolve.ts`, `memberAccess.ts`, `core/objChain.ts`, `refRole.ts`) | none (pure over the tables) | narrow candidates |
| Summaries (`features/symbolInfo.ts`, `typeInfo.ts`, `typeTag.ts`, `refGroups.ts`) | none | format |
| Extraction (`indexer/extract.ts`, `macroWrappedVars.ts`) | none (traversal of a syntax tree) | `extract` |
| Lexical fallback (`grepScan.ts`, `regexScanner.ts`, `enclosingFunc.ts`) | none (scanners) | scan |

### What is hard

* **Two paths to the writer.** Rows travel on one `MessagePort` per parser, the
  host's requests on the writer's `parentPort`. Each is FIFO; nothing orders one
  against the other. `flush` and `createIndexes` may overtake the rows they
  are about.
* **Asynchronous handlers share a thread's variables.** A parser's message
  handler awaits the wasm runtime, a grammar and the in-flight window. Between
  two awaits another request of the same parser runs, and both use the one
  `inFlight`, the one `waitResolve` and the one `canceled`.
* **Flow control.** A parser may have 50 unacknowledged entries; the writer
  acknowledges when it commits a batch, that is at 50 entries, after 50 ms or
  when a request flushes. A lost wakeup or a stranded batch stops the run, and
  with it every later run.
* **Partial failure.** `Promise.all` rejects with the first failing parser, the
  others continue; the steps after it (`flush`, `createIndexes`) are skipped.
* **Flags read across awaits.** `stopRequested`, `bulkActive`,
  `bulkDropsIndexes`, `bulkIndexing`, the status bar and the burst counters are
  written by bulk runs, watcher operations and stops that interleave at every
  await of `doRunIndex`.
* **Two clocks.** The index plan compares mtimes, an unsaved buffer is stored with
  `Date.now()`, a parser reads the text before the mtime; the watcher, a scan, a
  change of the settings and live edits write the rows of one file.
* **Caches over a moving index.** Code Insight remembers answers in five maps and
  clears them when an operation is over; VS Code asks for any node at any time.
* **One name, many things.** C has name spaces, scopes, anonymous and nested
  structs and typedef chains; the indexer sees one file, queries see all tables,
  the grep fallback sees text, and their answers must fit together.
* **Supersession.** Requests pile up behind a run in progress; only the latest
  may run, the one in progress is cancelled, a failure must not break the chain.

### What makes each part correct

* Writer: an accepted entry is written (has a timer or fills the batch) and
  acknowledged once; a file's rows are those of its last entry.
* Parsers: at most *window* entries outstanding; a handler that sleeps does so on
  a full window and is woken; a cancelled run stops at the next file.
* Pool: a run that resolves has indexed every file of its plan; the name indexes
  exist again when reads are allowed; every run settles; no work of a settled
  run goes on.
* Runner: one run at a time, each the latest asked for; the latest does run.
* Gate: open exactly when nothing is in flight; nobody waits at an open gate.
* Host: no query on tables whose name indexes a run has dropped; what is shown is true;
  a stop or a newer request cuts the run it was meant for, and only that one.
* Rows: after a scan that ran to its end, those of exactly the included files, at
  the text on disk.
* Code Insight: it shows what the cursor is on, and at rest nothing older than what
  it was last refreshed for.
* Resolution and extraction: F12, References and the summaries answer what C says.
* The pure parts: what a set-theoretic or brute-force definition says.

The hazards, each at its line and with the properties that watch it, are the
`hazards` of `PROJECT.json`.

## 2. The modules

    Wires ----+---> Writer --------+
              +---> ParserThreads -+--> WorkerPool --> MCWorkerPool
                                              +------> WorkerPoolProofs
                                                           --> BulkRunProofs --> FlowProofs
    SerialIndexRunner --> LatestWins (INSTANCE: what it implements)
          |   +---------> SerialIndexRunnerProofs
    IndexGate |                   |
          v   v                   v
       IndexingHost -----> IndexingHostProofs
             +-----------> MCIndexingHost

    Exclusion --> IndexSync (with INSTANCE LatestWins) --> MCIndexSync, IndexSyncProofs
    CodeInsight --> MCCodeInsight, CodeInsightProofs

    Tables --> SymbolResolve --> Navigation --+
                     |  Exclusion, FuzzyMatch +--> Lookup --> LookupProofs
                     v          Lexical ------+      |
                 Extraction -------------------------+--> Queries --> MCQueries

### The pipeline: `Wires`, `Writer`, `ParserThreads`, `WorkerPool`

`Wires` declares what the actors share: the wires (host to parser, host to
writer, parser to writer, acknowledgements, results), the content of the files
on disk as version numbers, and the bounds. An *op* is one call of a method of
`WorkerPool`; the set its name is in (`BulkOps`, `ReindexOps`, `LiveOps`,
`RemoveOps`) is the method.

`Writer` is the role `'writer'` of `worker.ts`. Its handlers are synchronous, so
one message is one step: `ReceiveApply` (batch, timer, `flushBatch` when full),
`TimerFires`, and the requests `Flush`, `Remove`, `ResolveParents`,
`DropIndexes`, `CreateIndexes`. An exception of SQLite inside a request is
caught and answered `ok = false` (`FlushingRequestThrows`, `StatementThrows`);
outside one it ends the thread (`WriterDies`). The tables are `rows` (the version
of each file that they hold), `linked` (whose `parent_id`s are resolved) and
`nameIdx` (the seven indexes that a full build drops).

`ParserThreads` is the role `'parser'`. `at[p][o]` is the await at which parser
p's handler of op o is suspended. Microtasks (`Start`, `BeginFile`, `PostApply`,
`ParseThrows`, `Finish`) interleave in any order, and the thread takes a new
message (`ReceiveRequest`, `RuntimeReady`, `GrammarLoaded`, `ReceiveAck`) only
when none is runnable, as Node's event loop does. A cancel is seen at the head
of the loop over files, and an `indexAll` clears the flag when it starts.

`WorkerPool` adds the host's side: `CallIndexAll` (spawning, sharding
round-robin, `dropIndexes` first when the run rebuilds), `CallReindex`,
`CallReindexContent`, `CallRemove`, `Cancel`; the settling of promises
(`ParserResult`, `WriterResult`, `WriterError`), where `pc[o]` is the await of
the method; and the workspace, whose files change and send watcher events.

### The host: `SerialIndexRunner`, `LatestWins`, `IndexGate`, `IndexingHost`

`SerialIndexRunner` is the class of that name: `Request`, the turn each request
takes when the promise before it settles (`Turn`), and `TaskSettles`.
`LatestWins` is what a user of that class wants: at most one run, each the
latest one asked for when it starts, and the latest is started. The refinement
maps `latest` to the generation, `running` to the runs in progress and `ran` to
those that were started; skipped turns are stuttering.

`IndexGate` is the counter with its waiting readers. A reader whose time-out
fired stays in the code's `waiters` and is resolved again by the last `end`; the
second resolution has no effect, so the model forgets it.

`IndexingHost` puts them together. `phase[i]` is the await at which `doRunIndex` of
request i is suspended: `scan` (findFiles), `notify` (withProgress), `remove`, then
`drop`, `parse` and `rebuild` inside `pool.indexAll`. What the workspace holds is
abstracted to the shape of the plan: how many stale files it removes, whether it indexes
any, whether it drops the name indexes. `TrackIncremental` and `IncrementalEnds` are
watcher operations, `LiveEdit` and `LiveEditEnds` unsaved-buffer operations (which use
the gate only), `Navigate`, `NavigationTimesOut` and `NavigationQuery` the queries that
wait at the gate, `OpenSearch`, `SearchQuery` and `CloseSearch` the quick pick.
`unindexed` says that the tables lack the name indexes: a database starts without them
(the schema makes none), a from-scratch run drops them, and only such a run builds them
again. `indexAll` may resolve (`IndexAllResolves`) or not (`IndexAllFails`: a parser or
the flush rejects, and `createIndexes` is skipped; or `createIndexes` itself fails,
which is swallowed; a removal before it may reject, too); `doRunIndex` then clears its
flags in either case, and the tables stay as they are. `lost` says that no run is left
to build the indexes: the one that dropped them failed, or an earlier session left them
so. `scans` records who queried tables of a run that is still to build them.

### The data: `Exclusion`, `IndexSync`

`Exclusion` is the engine with its ordered rules (the excludes, then the includes,
negated; the last that matches any form of the path decides), `isExcluded` over
workspace folders. Which forms a glob matches is the constant `Matches`.

`IndexSync` is what the rows say of the files. A row carries the text it was made from,
the mtime stored with it and, for the properties, the mtime that the text had.
`doRunIndex` is cut at its awaits: `StartRun`, `FindFiles`, `MakePlan`
(`computeIndexPlan`, with rows that cannot be read and `verifyContentHash` chosen
freely), `RemoveNext`, `ParseNext`, `Parsed`, `EndRun`, and against it run `Change`,
`Delete`, `Notified` (the watcher), `Edit`, `EditElsewhere` and `LiveReindex` (the one
debounce; a document outside the workspace takes it, too), `SettingsChange`, `RunIndex`
and `StopIndexing`. What `findFiles` leaves out is VS Code's own matching of the exclude
glob (`FindMatches`) and its own settings (`Hidden`), both unrelated to `Matches`. A
request to the pool is a *job*: `ReadText`, `ReadMtime`, `Apply`; jobs end in any order,
because `WorkerPool` shows that they may, and a run is over when its rows are posted:
`flush` may overtake them, and they are applied at any time after it (`Parsed`).
`RunFails` is a rejection of `findFiles`, a removal, a parser or the flush: any of the
run's jobs may be lost, and the files that other parsers have left stay with them
(`orphans`, `OrphanNext`) and are parsed whatever runs next. The runner is taken by its
contract `LatestWins`, which `SerialIndexRunner` implements (checked and proved), so the
two models compose. `quiet` is the set of files that the run did not leave out (stopped,
superseded, failed, or hidden from `findFiles`) and that nobody else touched since
`findFiles`; a late row of an earlier or failed run touches its file like the watcher
does.

### The view: `CodeInsight`

`RelationsProvider`: the symbol or keyword, the pin, the flags of `setIndexing`,
the memos of scope, type and symbol, the cache of children, the lines of a file.
`AskRoot`, `AskCategory`, `AskCall`, `AskLines` are `getChildren` and `getTreeItem`
as VS Code calls them: the root after the view said it changed, any node it holds
at any time. `refreshView` (300 ms after a successful operation) is `refreshDue` and
`Refresh`. `OpBegins`, `BulkBegins`, `OpEnds` and `BulkEnds` are what `extension.ts` tells
the view; they are any sequence, which contains those of `IndexingHost`. Live edits
(`LiveEditBegins`, `LiveEditEnds`) are not told to the view. `Write` is a commit of the
writer: it may come at any time once the database exists, also when nothing is in flight,
for rows that `flush` overtook. It makes what is remembered *stale* while a refresh is
still to come, and *late* at rest, where none follows. A read of lines that is under way
when a refresh forgets the lines stores what it *crossed* the refresh with.

### The pure parts: `Tables` to `Queries`

`Tables` has the point queries of `db.ts` over sequences of rows, `SymbolResolve`
the narrowing by role, scope, owner and arity with the typedef and object chains,
`Extraction` the rows of a program given as a tree (a record for each construct of
C that C-Blitz resolves, and a group for what is under an `#if`, behind an include guard
or in a linkage block: `fileScope` says which kind of node is the parent, as
`extract.ts:883-886` asks it), `Navigation` F12, References, the Type and Symbol rows
and the call tree. `FuzzyMatch` is the score of F10. `Lexical` is what is read off
a text without a parser: code mask and comment stripper, the ranges of functions
by their braces, the grep fallback's functions, prototypes, calls and mentions, the
count of a call's arguments; a text is a sequence of tokens.

Two modules ask them: a behaviour is one question, its state the question and the
tables. `Lookup` has the questions whose truth is a function of what they are asked of,
tables, settings, a name or a text divided into lexemes: the callee of a call, the call
tree, exclusion, F10, comments and literals, the arguments of a call.
`Queries` extends it with those about a program, whose truth is written by hand in
`MCQueries`, next to the program.

`PROJECT.json` maps every definition to the lines it models, but for operators that
take an operator (`FirstOr`, `DedupeBy`, `Each`), which have none. Operators with a
suffix (`WindowFull_OffByOne`, `Superseded_Never`, ...) are plausible bugs: each
property is shown to fail when the definition in the suffix's stem is replaced
by one of them, so no property holds vacuously.

## 3. The runs

`tlc -config <run>.cfg <module>`; `pool_*` use `MCWorkerPool`, `host_*`
`MCIndexingHost`, `sync*` `MCIndexSync`, `insight*` `MCCodeInsight`, the others
`MCQueries`.

| Run | Instance | Shows |
|---|---|---|
| `pool_rescan` | 2 successive bulk runs, 3 files, 2 parsers, grammars to load, one cancel, window 1 | `BackpressureBound`: a parser has at most its window outstanding, and one entry for each re-index and live edit. `BulkComplete`: a run that was not cancelled loses no file that is as it was. `IndexesBehindReads`: the name indexes exist whenever reads are allowed, after cancelled runs too. `RunsNeverOverlap`. `BulkSettles` (liveness) |
| `pool_mixed` | one bulk run, a watcher re-index, a live edit and a removal of one file on one parser, window 2, one failure anywhere, two edits | `TypeOK`, `DriftBounded`: live edits, which are acknowledged and not counted, let the counter err by at most one each. `NoMissedWakeup`, `NoStrandedEntry`. `UpToDate`: at rest, the rows of a file that has no grammar to load are those of its content on disk |
| `host_runs` | three requests, one watcher operation, one live edit, one query, one quick pick, any number of stops | `HostTypeOK`, `GateExact`, `ShownIsTrue`, `NavigationAbstains`: no query on tables a run has dropped the indexes of and is still to build. `NoInheritedStop`, `SupersededIsTold`; `RunsLatestOnly` and `LatestRuns`: the runner implements `LatestWins`, safety and liveness |
| `sync` | one file under two settings, two texts, three time stamps, two runs, two jobs at once, a watcher that may lose notices, failed runs | `TypeOK` (with `rules = RulesOf(settings)`: the rules in force are those of the settings). `HealedByScan`: when a run is over, every quiet file has the rows of its text, or they are posted (`OnItsWay`), or it has none when it is left out, whatever was missed or misordered before; and so it stays for as long as nobody touches the file |
| `insight` | `void f() { f(); }` with the cursor on the call, a keyword, watcher operations, live edits and runs, each of which may fail | `TypeOK`. `FollowsCursor`: the root shows what the cursor was last on. `FreshAtRest`: at rest nothing remembered was made before an operation it was refreshed for; only late rows are missing, and only crossed lines are older |
| `queries` | 7,780 programs with several structs that have a field `head`, 336 programs with symbols `x` in four name spaces, 256 sets of overloads at 11 cursors, 1,024 call graphs, 441 settings, 11,715 searches, 3,166 lexed texts, 1,085 texts with functions, 798 argument lists | fields: `FindsOwnReferences`, `OnlyOwnReferences`, `DefinitionOfField`, `TypeRowOfObject`; names: `NameSpaces`, `TailKeepsScope`; calls: `CalleeKept`, `SymbolRowAgrees`, `CallTreeComplete`; `IncludesWin`; `BestScore`; texts: `LexesAsC`, `BodiesFound`, `CallersKnown`, `ArgumentsCounted` |
| `pool_lost_wakeup`, `host_lost_stop`, `sync_torn`, `insight_cache`, `refs_sibling`, `call_cycles` | the smallest instance with the behaviour | the disagreements of section 4 |

**Bounds.** *Pool.* The code's window and batch size are 50 and 50; with 1 or 2 and 2,
one to three files fill them, leave a partial batch for the timer, and make a parser
wait, which are all the cases there are: only whether a counter has reached the limit is
ever tested. Two parsers are enough for every race between parsers, one for those
between handlers of the same parser. `MaxFails = 1` lets one failure happen at any step;
`MaxEdits = 2` lets a file change twice, as a reordering needs. *Host.* `MaxRuns = 3`
gives a run in progress, a superseded one and its successor; each incremental operation
happens once, at any moment, also at once with a bulk run. *Sync.* Nothing in a scan
relates two files but the serialising of removals and the debounce, and the edit of a
second document that takes the debounce over is `EditElsewhere`; so one file is enough
for `HealedByScan`, and the theorem of section 5 is about any number; `MaxJobs = 2` puts
two jobs about it in flight at once; `MaxRuns = 2` lets the second heal what the first
left, and rows of the first arrive during it; `MaxClock = 3` is an original text and two
later stamps, of a save or of a buffer. The symmetry of the texts and `MCView` (job slots are
interchangeable; what no later step or invariant reads is left out) merge states only.
`TypeOK` bounds `clock`, `Change` and
`LiveReindex` stop at `MaxClock`. *Insight.* One call site is shared by the function
called and the node of its caller, so every cache is asked from two places; in `insight`
both are the recursive `f`, in `insight_cache` the caller is another function, `void g()
{ f(); }`. *Queries.* The structs have every way to be named (tag, alias, chain of
aliases, typedef only, anonymous member, member of anonymous type, no name at all), one
has a name that differs from another's in its suffix only, each use has one of seven
kinds of base, the types are in the file of the use or behind the include guard of a
header, the objects there or in another file, and a function that a prototype declares
is defined in a file that grep scanned, whose row has no return type; three functions
have every call graph; patterns up to three characters and names up to four have every
transition of the score's table. `HeaderSpan` is 2 for 40. `CHECK_DEADLOCK FALSE` where
users and workspaces may stop, and an instance with a bound does; `insight` checks
deadlock.

**Fairness.** `WorkerPool!Fairness` says that Node polls every port that has
messages, that an armed timer fires, that a pending load settles and that
microtasks run; `IndexingHost!Fairness` that promise callbacks and timers run
and that what `doRunIndex` awaits settles. Both are weak: nothing that is
disabled again and again has to happen. Nothing obliges users, files, cancels or
failures to occur. The host's assumption that the pool's calls settle is not
free: it is `BulkSettles` (checked without watcher operations in `pool_rescan`),
and the code breaks it when a watcher operation meets a full window
(`pool_lost_wakeup`). `IndexSync`, `CodeInsight` and `Queries` state safety only.

## 4. Where the code and its comments disagree

Each is a TLC counterexample, and a `finding` of `PROJECT.json` with the quoted
line.

* `pool_lost_wakeup`: all handlers of a parser share one `waitResolve`
  (`indexer/worker.ts:145-148`). A watcher re-index that fills the window
  overwrites the promise of the bulk run that already waits; it never resumes,
  and neither does any later run.
* `host_lost_stop`: a stop, or the cancel of a superseded run, that comes before
  the parsers start is cleared by their `indexAll`; the parse runs to its end.
* `sync_torn`: a parser reads the text, then the mtime (`indexer/worker.ts:135-136`).
  A save in between stores old rows with the new mtime, and scans skip the file.
* `insight_cache`: the cache of a category is keyed by position only
  (`relationsView.ts:399`). A caller's node is placed at its call of the function,
  so the function under the cursor at that call and the node of its caller have one
  key, and the second shows the callers of the first.
* `refs_sibling`: `typedef struct {..} A_t, A_p` or `typedef struct A_s A_t, A_p`:
  neither name is an alias of the other, so an owner known as one does not match
  the other (`symbolResolve.ts:428`), and References hides real references.
* `call_cycles`: a call node becomes a symbol whose categories start again without
  ancestors (`relationsView.ts:335`), so the tree of a recursive function is
  endless, though each level ends.

Known without a run of their own, from the models or the code:

* Pool: `flush` and `createIndexes` overtake rows still on a parser's port; two
  saves of a file go to two parsers, and the older may be written last, as it may be
  with one parser when both handlers load the grammar (`indexer/parser.ts:46-52`: they
  go on in either order); a re-index that fills an empty database before the first
  bulk run leaves rows without name indexes, which no re-index creates; when one
  parser fails, `indexAll` rejects while the others go on and the next run starts,
  and `createIndexes` is skipped; `remove` passes an apply of the same file.
  `reindex` resolves when its apply is posted; a call sent to a dead worker never
  settles; when the writer dies, parsers wait for ever.
* Host: the quick pick keeps the connection it opened with; `README.md` says that F10
  and Code Insight wait for an in-flight re-index (`deferQueriesMs`), but only
  navigation does; a from-scratch run of which a parser or the flush fails
  (`workerPool.ts:129,143`), or whose `createIndexes` fails and is swallowed
  (`workerPool.ts:147-149`), leaves the tables without name indexes while
  `extension.ts:598-603` clears the flags, as a session does that ends in the middle of
  one; F12, References and F10 then scan whole tables until the next Rescan succeeds
  (`lost`, which `NavigationAbstains` excepts); a burst that starts during a bulk run
  never sets `incStart`; a Rescan superseded by a change of the settings is not a full
  rescan any more; an unreadable database is taken for an empty one, so a scan removes
  nothing; a scan puts the saved text of a document with unsaved edits back into the
  index.
* Scans: a late row of a cancelled or failed run that lands after the next plan was made
  stays, on an excluded or deleted file too, until another scan (`quiet` leaves the file
  out); a file that VS Code's `files.exclude` hides, or whose glob VS Code reads otherwise
  than the engine, is not found and its rows are removed or never made, though
  `isExcluded` admits it and the watcher indexes it at each save.
* View: a run or operation that fails refreshes nothing (`FreshAtRest` says nothing
  until the next refresh: `failed`); rows that `flush` overtook come after the refresh
  of their operation, and the view shows the rows of before until the next one (`late`);
  `readLines` stores lines whose read began before a refresh (`crossed`); leaving a
  keyword for no symbol keeps the keyword (`FollowsCursor` says so).
* Extraction: a global variable, a prototype, an `extern` or a forward declaration of a
  struct whose parent is not the translation unit, a linkage block or a declaration list
  has no row (`extract.ts:883-886`): so everything that a header declares behind its
  include guard, unless a linkage block is around it inside, and what is under an `#if`.
  F12 does not find such a declaration (`NameSpaces` has the exact rule); the Type row of
  such an object is empty (`TypeRowOfObject`); a field used through it has no known
  owner, so F12 goes to every field of the name and References keeps its uses with
  those of any struct (`DefinitionOfField`, `OnlyOwnReferences`: `typed`). Functions,
  structs with a body, typedefs and macros are recorded there all the same.
  `typeChain.ts:12` speaks of `_t` names, but `suffixTags` takes any letter: `A_s`, `A_e`,
  `A_u` and `A` are one owner when References compares owners, so the uses of the fields
  of one such struct are listed with those of another (`SuffixKin`, which
  `OnlyOwnReferences` excepts); F12 tells them apart.
* Queries: in the tail of a function that the parser cut off, the owner of a field
  is decided before the tail has its function, so a global of the same file with a
  parameter's name decides it (`DefinitionOfField` with `ShadowFile = "a"`, which is
  why the runs have it in another file); block-scoped locals of one name share the
  first's type; of two targets of a typedef name the last wins at index time and
  the first at query time; F10 takes 2000 names before it ranks; parent ids dangle
  after a re-index (accepted in `db.ts:570`).
* Texts: a brace in a literal derails the grep scanner (`CallersKnown` excludes it);
  it counts a function's own header as a call; `stripComments` carries an unclosed
  quote over a line end while `maskLine` does not; `a->b[b].x` loses its root; a call
  whose arguments are all empty, `F(,)`, counts as one without arguments, which only a
  macro can have (`ArgumentsCounted` says so); a comment among the arguments is counted as
  if it were one, commas and quotes included (`LookupAssumption` excludes it), so F12 may
  prefer an overload with that many parameters; a line comment that a backslash continues
  ends at its first line for both scanners (`IsLineComment` leaves it out).

## 5. The proofs

`tlapm <Module>.tla` checks them; nothing is assumed but the `ASSUME`s of the
modules, which TLC also evaluates on every run: sizes are positive, the sets of ops
are disjoint and finite, bounds are naturals, plans are non-empty sequences of
files; settings are two sequences of patterns, and no file and no text is the value
that stands for none; every node has an entry in the call graph, and symbols,
keywords and what the view shows instead of them are different things. Of `Lookup`
(`LookupAssumption`): tables, settings, patterns and names are sequences; a row of
`refs` has the role of its token or none, and none if the grep scanner wrote it; a
call has a callee, and the tree starts at a function; the cursor of `CallSites` is on
no field, on no tag after `struct` and on no local, for these have questions of their
own in `Queries`; a text is divided into the lexemes of C (`Lexed`), and the text of a
call has no comment, which `countCallArgs` takes for arguments (section 4), and nothing
but blanks before its parenthesis.

**`SerialIndexRunnerProofs`.** `RunnerKeepsPromise`: `RunnerSpec => RunsLatestOnly`,
the safety half of the refinement, for any number of requests;
`SupersededAreTold`. "At most one run" is not inductive. `RunnerInv` adds that
requests are numbered without a gap and that when a request was *called* (is
running or settled) every earlier one is settled: the chain of promises. From it
two requests cannot run at once (`OneAtATime`), and a turn that does not skip is
a `Start` of `LatestWins`: whoever is called last has number `gen`, and no run
with that number was started before.

**`IndexingHostProofs`.** `HostRunsLatestOnly` lifts that theorem: every step of
the host is a step of the runner or leaves its variables alone
(`HostStepsRunner`). `NavigationAlwaysAbstains`, `ShownIsAlwaysTrue` and
`HostTypeCorrect` rest on `HostInv`: types, `RunnerInv`, and `BulkInv`, which
ties the shared flags to the one run in progress: a run has a phase exactly when
the runner runs it, `bulkActive` holds exactly when one is past its plan,
`bulkDropsIndexes` is that run's, `bulkIndexing` is their conjunction. The flags
have no owner in the code; that they never speak of the wrong run is exactly that
there is one run at a time, so `RunnerInv` is part of the induction.
`NavigationAlwaysAbstains` needs `DroppedInv` as well: tables that are unindexed and not
`lost` are those of a from-scratch run under way, which has passed `drop` and not yet
settled, so the flags are up; a run that fails with the indexes dropped makes them
`lost`, and the theorem says nothing of them until the next run drops and builds them.
`GateCountsExactly`: the gate's counter is the number of bulk runs
and incremental operations in flight. The proof counts both sets: each step of the
host adds one member, removes one, or moves a run within `Bulk`.
`StopsAreOwn`: a run cuts its plan short only for a stop of its own. `StopInv` says
that a stop on record while a run is in its bulk part came after that run cleared
`stopRequested`; with `HostInv` (one run at a time) nobody else can have left it.

**`WorkerPoolProofs`.**
`TypeCorrect`: `Spec => []TypeOK`. Alone it is not inductive: `PostApply` takes
the head of `todo[p][o]`. `TypeInv` adds `HasFile`: a handler that loads a
grammar or parses has a file left.
`EntriesNeverStranded`: while nothing has failed, an entry in the batch has a
timer armed and the batch is below its limit. The induction needs that the
handle kept is never a stale one unless a transaction was refused (`BatchTimed`).
`WakeupsNeverMissed`: the handler that `waitResolve` names is suspended and its
window is full, with failures, cancels and live edits included. It rests on
`SentOnce`: a request for an op reaches a parser at most once and is never in
its queue while a handler of that op exists, so no message resets the place of
a handler that sleeps. (That several may sleep, and only one is named, is the
finding `pool_lost_wakeup`: the theorem is about the one that is named.)

**`BulkRunProofs`**, about runs of `indexAll` while nothing has failed. Section 4 says
what failures break. `SettledRunsAreOver`: no parser has a handler of a run that has
settled, cancelled or not. The invariant is the conversation of each op (`TalkInv`): one
request at a time to the writer, which is what the op awaits, and one answer to it; and
a parser that has a request, a handler or a result of the op is one the op is *owed* an
answer by. The run settles when nobody owes it. `ReadsAreIndexed`: whenever the host may
query, the name indexes exist if there are rows to scan. While they are dropped, a
rebuilding run still has to ask for them or its request waits at the writer
(`IndexInv`). Two facts of `TalkInv` carry it: bulk runs do not overlap, so nobody drops
what another run has just built, and requests to the writer keep their order. The
hypothesis is about the database opened: it has its name indexes, or it is empty and no
re-index comes before the first bulk run, which in the code nothing guarantees (section
4). `RunsLoseNoFile`: when a run that was not cancelled resolves, each of its files that
is as it was has rows or an entry on its way to the tables. `CoverInv` says where such a
file is at each moment: in a share, on a handler's list, in a port, in the batch, in the
tables. The shares leave no file out (`RoundRobin`, arithmetic of the index), a handler
drops the head of its list only when it has posted it or the file is gone, and a removal
is about a file that was deleted or changed (`FitInv`).

**`FlowProofs`**, about the entries on their way, while nothing has failed.
`CountsDriftOnlyDown` and `WindowBoundsMemory` come from one invariant of each parser
(`Flow`): the counter is at most what is outstanding, and below it by at most the live
edits that have posted theirs; it is at most the window plus the re-indexes that have
posted theirs, and strictly below while no handler of a bulk run waits. The strict
bound is needed because the code tests the window after it posts
(`worker.ts:142-148`): only a handler that found it open may post again. What is
outstanding is a sum over port, batch and acknowledgements; each step moves an entry
from one to the next, and the induction counts it there.
`LastSaveWins`: with one parser, a file without a grammar to load ends with the rows of
its content or with none. `OrderInv` is about a file whose every change was heard: a
handler that parses it has read what is on disk now, and the last entry of the file
on its way (in the port, then in the batch, then in the tables) is current, unless
a re-index of the file has still to post. It also says which of two entries in one
place is the later, so the order of each wire is part of the induction.

**`IndexSyncProofs`.** `SyncTypeCorrect` and `ScansHeal`, for any number of files,
settings, texts and jobs. The invariant of the plan (`PlanInv`): from the plan of a run
to that of the next, a quiet file is still to be removed or parsed, or in a job of the
run, or in sync, or torn and not rescanned; never is a wanted file in a removal or an
unwanted one in a parse, and the job of one that was read holds the text on disk. When
the run is over, `RunInv` says that nothing is left of its plan and `PostedInv` that
every job it has of a quiet file is a parse that is posted, so what is not in sync is on
its way. The run no longer waits for its rows: jobs stay the run's after it until the
next one starts, when they become those of somebody else. What makes "in sync" follow
from equal mtimes is `StampInv`: mtimes are stamps of one clock, so rows made from the
text that had the stamp now on disk hold the text now on disk, and rows of a buffer have
a stamp that no text on disk has. Its exception is the torn read of section 4.
`FoundInv` says that what `findFiles` returned of a quiet file is still true; a file
that VS Code leaves out and `isExcluded` admits is not quiet.

**`CodeInsightProofs`.** `InsightTypeCorrect`, `ViewFollowsCursor`, `ViewIsFresh`, for
any symbols, keywords and call graph. A node of the tree is held only once the
database exists (`MemoInv`), so an answer given at rest, when reads are not
suspended, comes from the tables as they are; each kind of question keeps the memos
fresh (`ScopeKept` to `VisibleKept`), the end of an operation or live edit arms a refresh,
which is not rest, and a commit at rest makes an answer late, never stale. The lines are
part of the invariant with the read that is under way: one that crosses a refresh
stays crossed. `CursorInv` and `RootInv` relate the cursor, the provider and
the root last shown.

**`LookupProofs`**, for tables, settings, patterns and names of any length. The
installed provers cannot instantiate an induction theorem, which takes an operator, so
the induction here is on sets of numbers: a statement about n is the comprehension of
a set, and `NatMin`, `Induct` and `RangeInduct` say of any set what the
well-foundedness of < gives. `Recursion` is the same for definitions: a recursive
function is a `CHOOSE`, and is what its equation says once some function satisfies it.
`CallTreeAlwaysComplete`: the call tree ends within as many levels as there are
functions, and shows those that a chain of calls leads to and no other. The ancestors
of a node (`NodeOK`) are different functions that form a chain from the root, each but
the root the name of a node that was expanded one level above; so a node at depth d has
d of them, and no depth exceeds the number of functions (`TreeEnds`). Nothing is lost at
a node that is cut: the ancestor that cut it is expanded above, and what it calls is
shown there (`ShownClosed`); nor at the file scope, a leaf: in either direction it only
ends chains (`FileScopeEnds`).
`BestScoreAlwaysFound`: F10's dynamic programming over two rows of scores gives what the
best of all placements of the pattern in the name is worth, and finds a name exactly
when there is one. No placement is worth more than the entry of its last letter
(`WaysBelow`), every entry is what some placement is worth (`WaysReach`), and a pattern
longer than a name has none (`TooLong`).
`CalleeAlwaysKept` and `SymbolRowAlwaysAgrees`: F12 on a call loses no function or
macro that can take its arguments, and the Symbol row describes what F12 jumps to. Every
step of the narrowing (definitions before declarations, role, arity, the token's own row)
only drops what the call cannot mean, or keeps all when none would be left; the proof has
a lemma for each, on the set of what it returns.
`IncludesAlwaysWin`: for every list of patterns, the rules in their order, the last that
matches deciding, say what the settings promise (`LeftOut`): excluded when, in some
folder, an exclude matches some form of the path and no include does.
`AlwaysLexesAsC`: the code mask and the comment stripper read any text as C does. The
induction is on lexemes, inside each on its tokens: between two lexemes the scan is in
code with nothing taken (`LexemesScanned`). The delicate lexeme is the literal: the scan
takes every second backslash of a run, and C calls a quote escaped when an odd number of
them precedes it; that both agree at every token is `EscapedNext`, which rests on the
run of backslashes before a token being unique and one longer than that of the token
before (`RunUnique`, `Parity`).
`ArgumentsAlwaysCounted`: the count of a call's arguments, for any list. A lexeme of code
moves the counter's depth as it moves the number of open brackets (`CodeListed`,
`DepthNext`), a literal of any content moves nothing (`LiteralListed`); so until the call
closes the counter has the commas of depth 1 and knows whether anything else was there
(`CountedNext`), and from then on it keeps its answer (`CountKept`).

**Only model-checked.** Liveness (`BulkSettles`, `LatestRuns`), which TLAPS does not
prove, and two kinds of invariants of `queries`. Those about fields and names
(`FindsOwnReferences`, `OnlyOwnReferences`, `DefinitionOfField`, `TypeRowOfObject`,
`NameSpaces`, `TailKeepsScope`) compare an answer with a truth that is written by hand
next to each program: for any program it would need the semantics of C. Those about the
functions of a text (`BodiesFound`, `CallersKnown`) do so too: where a function begins
and ends, and whether its header is one that a regular expression finds, is written next
to each text. Every other invariant of a passing run is a theorem. Those of the pool
that say `fails = 0`, and the single parser of `UpToDate`, say so because the code needs
it (section 4), not the proof.

## 6. What is not modelled

* `WorkerPool.dispose`, `close`, the deactivation of the extension: the process
  ends with them.
* Progress messages, phases, wording, icons, the menu and the editors that commands
  open: they only inform.
* The syntax of globs and of `.gitignore`, the query language of F10
  (`fuzzyQuery.ts`), the regular expressions that read the object chain left of the
  cursor (`memberAccess.ts`) and that recognise macros, types, labels and headers in
  the grep fallback: functions of character strings without state. What they find
  is an input of the models.
* tree-sitter and the walk over its nodes: `Extraction` starts from constructs.
  Enums, unions (which are treated as structs), classes, namespaces, templates and
  macro-wrapped variables are left out.
* Row ids and parent ids; `Writer` records per file whether parents were resolved.
* The unsaved buffer as state: a live edit stores some text.
* The failures of the writer's transactions on the data: `WorkerPool` has them, `IndexSync`
  has failed runs only, so hazards H8 and H9 are not in what a scan heals.
* What tree-sitter makes of text it cannot parse (ERROR nodes), but for the tail of a
  function; such a parent is no file scope either.
* Number of processors, memory, SQLite's locking: the writer is the only one
  that writes, readers see committed data.
* `core/types.ts` and `indexer/defaults.ts`: declarations and constants.

## 7. The plan

Done: the pipeline, the runner, the gate, the host, the data, the view, the pure
parts; the proofs of section 5. Left, all of it proofs:

1. An order of the entries of one file for any number of parsers: `LastSaveWins` with
   the hypothesis that all requests about the file went to one parser.
2. Which of the pool's theorems survive a failure, and of what kind: a refused
   transaction, a file that cannot be parsed, a thread that ends.
3. `BodiesFound` for any text, from a grammar of headers and blocks.
