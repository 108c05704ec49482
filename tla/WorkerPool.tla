----------------------------- MODULE WorkerPool -----------------------------
(* The indexing pipeline: the host's WorkerPool and worker clients             *)
(* (src/indexer/workerPool.ts, workerClient.ts) composed with the parser and   *)
(* writer threads, over a workspace whose files change on disk.                *)
(*                                                                             *)
(* pc[o] is where the async method of op o stands: what it awaits.             *)
EXTENDS Writer, ParserThreads

CONSTANTS
    Plans,          \* the file lists a bulk index may be given
    MaxCancels      \* bound: calls of WorkerPool.cancel

ASSUME PlansAssumption == Plans \subseteq Seq(Files) /\ <<>> \notin Plans
ASSUME CancelsAssumption == MaxCancels \in Nat

VARIABLES
    pc,         \* "idle" until the call, then the awaited step, then its outcome
    files,      \* files[o]: the argument of the call
    rebuild,    \* rebuild[o]: indexAll's rebuildIndexes
    owed,       \* owed[o]: parsers whose result o awaits
    nw,         \* workers.length
    rr,         \* the round-robin counter of pick
    notice,     \* notice[f]: the watcher event about f not yet delivered
    cancels     \* calls of cancel so far, at most MaxCancels

poolVars == <<pc, files, rebuild, owed, nw, rr, notice, cancels>>
vars == <<wires, writerVars, parserVars, poolVars>>

AwaitsWriter == {"drop", "flush", "create", "resolve", "remove"}
Active == AwaitsWriter \cup {"parse"}
PCs == Active \cup {"idle", "done", "failed"}

PoolTypeOK ==
    /\ pc \in [Ops -> PCs]
    /\ files \in [Ops -> Seq(Files)]
    /\ rebuild \in [Ops -> BOOLEAN]
    /\ owed \in [Ops -> SUBSET Parsers]
    /\ nw \in 0..Size
    /\ rr \in Nat
    /\ notice \in [Files -> {"none", "change", "delete"}]
    /\ cancels \in 0..MaxCancels

TypeOK == WiresTypeOK /\ WriterTypeOK /\ ParsersTypeOK /\ PoolTypeOK

PoolInit ==
    /\ pc = [o \in Ops |-> "idle"]
    /\ files = [o \in Ops |-> <<>>]
    /\ rebuild = [o \in Ops |-> FALSE]
    /\ owed = [o \in Ops |-> {}]
    /\ nw = 0
    /\ rr = 0
    /\ notice = [f \in Files |-> "none"]
    /\ cancels = 0

Init == WiresInit /\ WriterInit /\ ParsersInit /\ PoolInit

----------------------------------------------------------------------------
(* Sending. A message to a dead thread is lost, and nothing answers it.       *)

ToWriter(kind, o, fs) ==
    IF writerUp THEN Append(toWriter, [kind |-> kind, op |-> o, files |-> fs]) ELSE toWriter

\* A worker beyond the first nw is one this very step spawns.
ToParser(p, m) ==
    IF parserUp[p] \/ p > nw THEN Append(toParser[p], m) ELSE toParser[p]

\* ensure: spawn workers until there are n.
Spawn(n) ==
    /\ nw' = n
    /\ parserUp' = [p \in Parsers |-> parserUp[p] \/ p \in nw + 1 .. n]

\* The mutant gives the items of an incomplete last round to nobody.
Shard_DropsRemainder(s, n, p) == [k \in 1 .. (Len(s) \div n) |-> s[p + (k - 1) * n]]

\* shardRoundRobin: worker p of n gets the items p, p + n, p + 2n, ...
Shard(s, n, p) == [k \in 1 .. ((Len(s) - p + n) \div n) |-> s[p + (k - 1) * n]]

ShardOwners_ZeroBased(s, n) == {p \in 0 .. n - 1 : Shard(s, n, p + 1) # <<>>}
ShardOwners(s, n) == {p \in 1..n : Shard(s, n, p) # <<>>}

\* The parallel indexAll requests of op o over n workers.
SendShards(o, s, n) ==
    /\ toParser' = [p \in Parsers |->
          IF p \in ShardOwners(s, n)
          THEN ToParser(p, [kind |-> "indexAll", op |-> o, files |-> Shard(s, n, p), ver |-> 0])
          ELSE toParser[p]]
    /\ owed' = [owed EXCEPT ![o] = ShardOwners(s, n)]

----------------------------------------------------------------------------
(* Calls of the pool's methods.                                               *)

BulkActive == \E o \in BulkOps : pc[o] \in Active

\* indexAll up to its first await. SerialIndexRunner starts no bulk run while
\* another is in flight, and a database without files is always rebuilt.
CallIndexAll(o, s, rb) ==
    /\ pc[o] = "idle"
    /\ ~BulkActive
    /\ (\A f \in Files : rows[f] = 0) => rb
    /\ files' = [files EXCEPT ![o] = s]
    /\ rebuild' = [rebuild EXCEPT ![o] = rb]
    /\ LET want == IF Len(s) < Size THEN Len(s) ELSE Size
           n == IF nw < want THEN want ELSE nw
       IN /\ Spawn(n)
          /\ IF rb
             THEN /\ pc' = [pc EXCEPT ![o] = "drop"]
                  /\ toWriter' = ToWriter("dropIndexes", o, <<>>)
                  /\ UNCHANGED <<toParser, owed>>
             ELSE /\ pc' = [pc EXCEPT ![o] = "parse"]
                  /\ SendShards(o, s, n)
                  /\ UNCHANGED toWriter
    /\ UNCHANGED <<disk, edits, applyPort, acks, fromParser, fromWriter, fails,
                   writerVars, threadVars, rr, notice, cancels>>

\* pick: the next worker in turn, spawning the first one if there is none.
Pick_ZeroBased == LET n == IF nw = 0 THEN 1 ELSE nw IN [n |-> n, p |-> rr % n]
Pick == LET n == IF nw = 0 THEN 1 ELSE nw IN [n |-> n, p |-> (rr % n) + 1]

\* reindex and reindexContent up to their first await.
CallParser(o, kind, f, v) ==
    /\ pc[o] = "idle"
    /\ pc' = [pc EXCEPT ![o] = "parse"]
    /\ files' = [files EXCEPT ![o] = <<f>>]
    /\ Spawn(Pick.n)
    /\ rr' = rr + 1
    /\ owed' = [owed EXCEPT ![o] = {Pick.p}]
    /\ toParser' = [toParser EXCEPT ![Pick.p] =
          ToParser(Pick.p, [kind |-> kind, op |-> o, files |-> <<f>>, ver |-> v])]
    /\ UNCHANGED <<disk, toWriter, applyPort, acks, fromParser, fromWriter, fails,
                   writerVars, threadVars, rebuild, cancels>>

\* The watcher reports that f was created or changed.
CallReindex(o, f) ==
    /\ notice[f] = "change"
    /\ notice' = [notice EXCEPT ![f] = "none"]
    /\ CallParser(o, "reindex", f, 0)
    /\ UNCHANGED edits

\* The live edit: the buffer of f holds text that is not on disk.
CallReindexContent(o, f) ==
    /\ edits < MaxEdits
    /\ edits' = edits + 1
    /\ CallParser(o, "reindexContent", f, edits + 2)
    /\ UNCHANGED notice

\* The watcher reports that f was deleted.
CallRemove(o, f) ==
    /\ pc[o] = "idle"
    /\ notice[f] = "delete"
    /\ notice' = [notice EXCEPT ![f] = "none"]
    /\ pc' = [pc EXCEPT ![o] = "remove"]
    /\ files' = [files EXCEPT ![o] = <<f>>]
    /\ toWriter' = ToWriter("remove", o, <<f>>)
    /\ UNCHANGED <<disk, edits, toParser, applyPort, acks, fromParser, fromWriter, fails,
                   writerVars, parserVars, rebuild, owed, nw, rr, cancels>>

\* cancel: a `cancel' to every worker.
Cancel ==
    /\ cancels < MaxCancels
    /\ cancels' = cancels + 1
    /\ nw > 0
    /\ toParser' = [p \in Parsers |->
          IF p <= nw THEN ToParser(p, CancelMsg) ELSE toParser[p]]
    /\ UNCHANGED <<disk, edits, toWriter, applyPort, acks, fromParser, fromWriter, fails,
                   writerVars, parserVars, pc, files, rebuild, owed, nw, rr, notice>>

----------------------------------------------------------------------------
(* Results. Each settles one promise and runs its async method to the next    *)
(* await.                                                                     *)

\* The parsing of o has ended; all its parsers answered.
ParsedNext(o) ==
    /\ pc' = [pc EXCEPT ![o] = "flush"]
    /\ toWriter' = ToWriter("flush", o, <<>>)

\* Promise.all: p's is the last result o awaits. The mutant takes the first.
AllAnswered_First(o, p) == TRUE
AllAnswered(o, p) == owed[o] = {p}

ParserResult(p) ==
    /\ fromParser[p] # <<>>
    /\ fromParser' = [fromParser EXCEPT ![p] = Tail(@)]
    /\ LET r == Head(fromParser[p])
           owing == {o \in Ops : p \in owed[o]}
       IN \/ /\ r.op = NoOp             \* 'error' or 'exit' rejects all pending
             /\ pc' = [o \in Ops |-> IF o \in owing THEN "failed" ELSE pc[o]]
             /\ owed' = [o \in Ops |-> IF o \in owing THEN {} ELSE owed[o]]
             /\ UNCHANGED toWriter
          \/ /\ r.op # NoOp
             /\ r.op \notin owing       \* its Promise.all has already rejected
             /\ UNCHANGED <<pc, owed, toWriter>>
          \/ /\ r.op \in owing /\ ~r.ok
             /\ pc' = [pc EXCEPT ![r.op] = "failed"]
             /\ owed' = [owed EXCEPT ![r.op] = {}]
             /\ UNCHANGED toWriter
          \/ /\ r.op \in owing /\ r.ok
             /\ owed' = [owed EXCEPT ![r.op] = @ \ {p}]
             /\ IF AllAnswered(r.op, p) THEN ParsedNext(r.op) ELSE UNCHANGED <<pc, toWriter>>
    /\ UNCHANGED <<disk, edits, toParser, applyPort, acks, fromWriter, fails,
                   writerVars, parserVars, files, rebuild, nw, rr, notice, cancels>>

\* The mutant rebuilds the name indexes only when no cancel interrupted the run.
NextPC_SkipsRebuild(o, ok) ==
    CASE pc[o] = "drop" -> "parse"
      [] pc[o] = "flush" /\ ok -> IF rebuild[o] /\ cancels = 0 THEN "create" ELSE "resolve"
      [] pc[o] = "create" -> "done"
      [] pc[o] \in {"resolve", "remove"} /\ ok -> "done"
      [] OTHER -> "failed"

\* The next step of o after the writer answered the one it awaits; indexAll
\* swallows a failure to drop or to create the name indexes.
NextPC(o, ok) ==
    CASE pc[o] = "drop" -> "parse"
      [] pc[o] = "flush" /\ ok -> IF rebuild[o] THEN "create" ELSE "resolve"
      [] pc[o] = "create" -> "done"
      [] pc[o] \in {"resolve", "remove"} /\ ok -> "done"
      [] OTHER -> "failed"

WriterResult ==
    /\ fromWriter # <<>>
    /\ Head(fromWriter).op # NoOp
    /\ fromWriter' = Tail(fromWriter)
    /\ LET o == Head(fromWriter).op
           next == NextPC(o, Head(fromWriter).ok)
       IN /\ pc' = [pc EXCEPT ![o] = next]
          /\ IF next = "parse" THEN SendShards(o, files[o], nw) ELSE UNCHANGED <<toParser, owed>>
          /\ toWriter' =
                CASE next = "create" -> ToWriter("createIndexes", o, <<>>)
                  [] next = "resolve" -> ToWriter("resolveParents", o, files[o])
                  [] OTHER -> toWriter
    /\ UNCHANGED <<disk, edits, applyPort, acks, fromParser, fails,
                   writerVars, parserVars, files, rebuild, nw, rr, notice, cancels>>

\* The writer's 'error' or 'exit' rejects every request it has not answered.
WriterError ==
    /\ fromWriter # <<>>
    /\ Head(fromWriter).op = NoOp
    /\ fromWriter' = Tail(fromWriter)
    /\ pc' = [o \in Ops |-> IF pc[o] \in AwaitsWriter THEN NextPC(o, FALSE) ELSE pc[o]]
    /\ IF \E o \in Ops : pc[o] = "drop"
       THEN LET o == CHOOSE x \in Ops : pc[x] = "drop" IN SendShards(o, files[o], nw)
       ELSE UNCHANGED <<toParser, owed>>
    /\ UNCHANGED <<disk, edits, toWriter, applyPort, acks, fromParser, fails,
                   writerVars, parserVars, files, rebuild, nw, rr, notice, cancels>>

----------------------------------------------------------------------------
(* The workspace.                                                             *)

\* f is written, or created again; the watcher will say so.
ChangeFile(f) ==
    /\ disk' = [disk EXCEPT ![f] = edits + 2]
    /\ notice' = [notice EXCEPT ![f] = "change"]

DeleteFile(f) ==
    /\ disk[f] # 0
    /\ disk' = [disk EXCEPT ![f] = 0]
    /\ notice' = [notice EXCEPT ![f] = "delete"]

Workspace(f) ==
    /\ edits < MaxEdits
    /\ edits' = edits + 1
    /\ ChangeFile(f) \/ DeleteFile(f)
    /\ UNCHANGED <<toParser, toWriter, applyPort, acks, fromParser, fromWriter, fails,
                   writerVars, parserVars, pc, files, rebuild, owed, nw, rr, cancels>>

Call ==
    \/ \E o \in BulkOps, s \in Plans, rb \in BOOLEAN : CallIndexAll(o, s, rb)
    \/ \E o \in ReindexOps, f \in Files : CallReindex(o, f)
    \/ \E o \in LiveOps, f \in Files : CallReindexContent(o, f)
    \/ \E o \in RemoveOps, f \in Files : CallRemove(o, f)
    \/ Cancel

HostResult ==
    \/ \E p \in Parsers : ParserResult(p)
    \/ WriterResult
    \/ WriterError

Next ==
    \/ Call
    \/ HostResult
    \/ WriterNext /\ UNCHANGED <<parserVars, poolVars>>
    \/ ParsersNext /\ UNCHANGED <<writerVars, poolVars>>
    \/ \E f \in Files : Workspace(f)

Spec == Init /\ [][Next]_vars

\* Node's event loops poll every source that has something for them, the timer
\* expires, and the microtask queue is run until it is empty. Nothing obliges
\* the user to call, a file to change, or anything to fail.
OfWriter(A) == A /\ UNCHANGED <<parserVars, poolVars>>
OfParser(A) == A /\ UNCHANGED <<writerVars, poolVars>>

Fairness ==
    /\ \A p \in Parsers :
        /\ WF_vars(OfWriter(ReceiveApply(p)))
        /\ WF_vars(OfParser(ReceiveRequest(p)))
        /\ WF_vars(OfParser(RuntimeReady(p)))
        /\ WF_vars(OfParser(ReceiveAck(p)))
        /\ \A o \in Ops : WF_vars(OfParser(GrammarLoaded(p, o) \/ HandlerStep(p, o)))
        /\ WF_vars(ParserResult(p))
    /\ WF_vars(OfWriter(TimerFires))
    /\ WF_vars(OfWriter(WriterRequest))
    /\ WF_vars(WriterResult \/ WriterError)

FairSpec == Spec /\ Fairness

----------------------------------------------------------------------------
(* Properties of the pipeline.                                                *)

Batched(p) == Cardinality({i \in DOMAIN batch : batch[i].port = p})
Outstanding(p) == Len(applyPort[p]) + Batched(p) + acks[p]

\* The window bounds memory: no parser has more entries outstanding than its window
\* and one for each re-index or live edit called, however many files a bulk run has,
\* how its handlers and theirs share the counter, and however slow the writer is
\* (worker.ts:141-148,195-202). A parser that fails ends the run for the host while
\* the others go on, and then the handlers of two runs may share a window.
BackpressureBound ==
    fails = 0 => \A p \in Parsers : Outstanding(p) <=
        Window + Cardinality({o \in ReindexOps \cup LiveOps : pc[o] # "idle"})

\* Flow control counts right: a parser's inFlight is the number of its entries that
\* are in its port, in the batch, or acknowledged and on the way back
\* (worker.ts:31-45,141-143,157-159); live edits, which are acknowledged and not
\* counted (:195-202), make it err by at most one entry each, and only downwards; until
\* SQLite refuses a transaction, whose entries nobody acknowledges.
DriftBounded ==
    fails = 0 => \A p \in Parsers :
        /\ inFlight[p] <= Outstanding(p)
        /\ Outstanding(p) - inFlight[p] <= Cardinality({o \in LiveOps : pc[o] # "idle"})

\* A parser never sleeps on a window with room: the handler waitResolve names
\* is suspended and its window is still full (worker.ts:145-148,157-163).
NoMissedWakeup ==
    \A p \in Parsers : waitResolve[p] # NoOp =>
        /\ at[p][waitResolve[p]] = "wait"
        /\ inFlight[p] >= Window

\* No entry is stranded: an entry that waits in the batch has a timer coming,
\* and the batch never reaches the size at which it should have been written
\* (worker.ts:31-45,53-55), as long as SQLite accepts every transaction.
NoStrandedEntry ==
    fails = 0 => Len(batch) < BatchMax /\ (batch # <<>> => timer = "armed")

\* The host may query whenever no rebuilding run is in flight, so the name
\* indexes must exist then if there are rows to scan (workerPool.ts:118-149,
\* extension.ts:195-205), cancelled runs included.
Rebuilding == \E o \in BulkOps : pc[o] \in Active /\ rebuild[o]
IndexesBehindReads == ~Rebuilding /\ (\E f \in Files : rows[f] # 0) => nameIdx

\* A run that was not cancelled loses no file: when indexAll resolves and nothing
\* failed, each of its files that is as it was (version 1) has rows or is on its way to
\* the writer, whatever was re-indexed and removed meanwhile (workerPool.ts:129-149).
OnItsWay(f) ==
    \/ f \in FilesOf(batch)
    \/ \E p \in Parsers : \E i \in DOMAIN applyPort[p] : applyPort[p][i].file = f
BulkComplete ==
    \A o \in BulkOps : pc[o] = "done" /\ cancels = 0 /\ fails = 0 =>
        \A i \in DOMAIN files[o] :
            LET f == files[o][i] IN disk[f] = 1 => rows[f] # 0 \/ OnItsWay(f)

Quiet ==
    /\ \A o \in Ops : pc[o] \notin Active
    /\ \A p \in Parsers :
        /\ toParser[p] = <<>> /\ applyPort[p] = <<>>
        /\ \A o \in Ops : at[p][o] = "none"
    /\ toWriter = <<>> /\ batch = <<>>
    /\ \A f \in Files : notice[f] = "none"

\* With one parser the last save of a file wins: when everything is at rest, every
\* watcher event was handled and nothing failed, the tables hold no other content of a
\* file on disk than what is there, whatever bulk run, re-index and removal passed each
\* other, if its buffer was not edited meanwhile (README: `saving is always indexed').
\* Two handlers that load one grammar may go on in either order (parser.ts:46-52), so
\* this is about the files whose parser is there: those that have no grammar to load.
Edited == {files[o][1] : o \in {l \in LiveOps : pc[l] # "idle"}}
UpToDate ==
    Quiet /\ fails = 0 /\ Size = 1 =>
        \A f \in Files \ Edited : disk[f] # 0 /\ LangOf[f] = NoLang => rows[f] \in {0, disk[f]}

\* The runner waits for the prior run `so two runs never write concurrently'
\* (serialIndexRunner.ts:5-7): no parser still works for a run that has settled.
RunsNeverOverlap ==
    \A o \in BulkOps : pc[o] \in {"done", "failed"} =>
        \A p \in Parsers : at[p][o] = "none"

\* Every bulk run ends (the runner's next run waits for it).
BulkSettles == \A o \in BulkOps : pc[o] \in Active ~> pc[o] \in {"done", "failed"}
=============================================================================
