------------------------------- MODULE Writer -------------------------------
(* The writer thread: src/indexer/worker.ts (role 'writer') over the tables of *)
(* src/store/db.ts. It collects the parsers' `apply' messages in a batch that  *)
(* it writes in one transaction when the batch is full, when its 50 ms timer   *)
(* fires, or when a request of the host flushes it; the parsers are            *)
(* acknowledged only then. Every handler is synchronous, so each is one step.  *)
EXTENDS Wires

CONSTANT BatchMax       \* entries that make a batch full (50 in the code)
ASSUME BatchAssumption == BatchMax \in Nat \ {0}

VARIABLES
    batch,      \* entries accepted and not yet written
    timer,      \* batchTimeout: "off" (null), "armed", or "stale" (a handle
                \* kept although its timer has fired)
    writerUp,   \* the thread is alive
    rows,       \* rows[f]: version of f the tables hold, 0 when they hold none
    linked,     \* files whose parent_ids were resolved since f was last written
    nameIdx     \* the seven name indexes of CREATE_INDEXES exist

writerVars == <<batch, timer, writerUp, rows, linked, nameIdx>>

Entry == [file : Files, ver : Version, port : Parsers]

WriterTypeOK ==
    /\ batch \in Seq(Entry)
    /\ timer \in {"off", "armed", "stale"}
    /\ writerUp \in BOOLEAN
    /\ rows \in [Files -> Version]
    /\ linked \in SUBSET Files
    /\ nameIdx \in BOOLEAN

\* A database that was never filled, or one an earlier session left complete.
\* SCHEMA creates no name index: only CREATE_INDEXES does.
WriterInit ==
    /\ batch = <<>>
    /\ timer = "off"
    /\ writerUp = TRUE
    /\ \/ rows = [f \in Files |-> 0] /\ linked = {} /\ nameIdx = FALSE
       \/ rows = disk /\ linked = Files /\ nameIdx = TRUE

FilesOf(b) == {b[i].file : i \in DOMAIN b}

\* The mutant keeps the first entry of a file.
LastVer_First(b, f) ==
    LET is == {i \in DOMAIN b : b[i].file = f}
    IN  b[CHOOSE i \in is : \A j \in is : i <= j].ver

\* createWriter.applyBatch: the entries in order, the last one of a file wins.
LastVer(b, f) ==
    LET is == {i \in DOMAIN b : b[i].file = f}
    IN  b[CHOOSE i \in is : \A j \in is : j <= i].ver
Written(b) == [f \in Files |-> IF f \in FilesOf(b) THEN LastVer(b, f) ELSE rows[f]]

\* One `ack' per entry, on the port it came from.
AcksFor_OnePerBatch(b, p) == IF \E i \in DOMAIN b : b[i].port = p THEN 1 ELSE 0
AcksFor(b, p) == Cardinality({i \in DOMAIN b : b[i].port = p})

\* An empty batch returns before the timer is cleared.
TimerAfter_Kept(b) == timer
TimerAfter(b) == IF b = <<>> THEN timer ELSE "off"

\* flushBatch on batch b, when SQLite accepts the transaction. Deleting and
\* inserting a file's rows gives its members null parent_ids.
FlushBatch(b) ==
    /\ batch' = <<>>
    /\ acks' = [p \in Parsers |-> acks[p] + AcksFor(b, p)]
    /\ timer' = TimerAfter(b)

\* flushBatch on b when the transaction throws: the batch was emptied first,
\* nobody is acknowledged, and the timer's handle is kept.
FlushThrows(b) ==
    /\ b # <<>>
    /\ OneFailure
    /\ batch' = <<>>
    /\ UNCHANGED <<acks, timer, rows>>

\* An exception outside a try block ends the thread; the host gets 'error'.
WriterDies ==
    /\ writerUp' = FALSE
    /\ batch' = <<>>
    /\ timer' = "off"
    /\ toWriter' = <<>>
    /\ fromWriter' = fromWriter \o DeathEvents

\* An `apply' of parser p: the port's message handler.
ReceiveApply(p) ==
    /\ writerUp
    /\ applyPort[p] # <<>>
    /\ applyPort' = [applyPort EXCEPT ![p] = Tail(@)]
    /\ LET e == Head(applyPort[p])
           b == Append(batch, [file |-> e.file, ver |-> e.ver, port |-> p])
       IN \/ /\ Len(b) < BatchMax
             /\ batch' = b
             /\ timer' = IF timer = "off" THEN "armed" ELSE timer
             /\ UNCHANGED <<acks, rows, linked, writerUp, toWriter, fromWriter, fails>>
          \/ /\ Len(b) >= BatchMax
             /\ FlushBatch(b)
             /\ rows' = Written(b)
             /\ linked' = linked \ FilesOf(b)
             /\ UNCHANGED <<writerUp, toWriter, fromWriter, fails>>
          \/ /\ Len(b) >= BatchMax
             /\ OneFailure
             /\ WriterDies
             /\ UNCHANGED <<acks, rows, linked>>
    /\ UNCHANGED <<disk, edits, toParser, fromParser, nameIdx>>

\* The 50 ms timer. An empty batch (a flush of it threw) returns before the
\* handle is reset.
TimerFires ==
    /\ writerUp
    /\ timer = "armed"
    /\ \/ /\ batch = <<>>
          /\ timer' = "stale"
          /\ UNCHANGED <<batch, acks, rows, linked, writerUp, toWriter, fromWriter, fails>>
       \/ /\ batch # <<>>
          /\ FlushBatch(batch)
          /\ rows' = Written(batch)
          /\ linked' = linked \ FilesOf(batch)
          /\ UNCHANGED <<writerUp, toWriter, fromWriter, fails>>
       \/ /\ batch # <<>>
          /\ OneFailure
          /\ WriterDies
          /\ UNCHANGED <<acks, rows, linked>>
    /\ UNCHANGED <<disk, edits, toParser, applyPort, fromParser, nameIdx>>

----------------------------------------------------------------------------
(* Requests on the parentPort.                                                *)

Request(kinds) == writerUp /\ toWriter # <<>> /\ Head(toWriter).kind \in kinds

Answer(ok) ==
    /\ toWriter' = Tail(toWriter)
    /\ fromWriter' = Append(fromWriter, [op |-> Head(toWriter).op, ok |-> ok])
    /\ UNCHANGED <<disk, edits, toParser, applyPort, fromParser, writerUp>>

RequestFiles == {Head(toWriter).files[i] : i \in DOMAIN Head(toWriter).files}

Flush ==
    /\ Request({"flush"})
    /\ FlushBatch(batch)
    /\ rows' = Written(batch)
    /\ linked' = linked \ FilesOf(batch)
    /\ Answer(TRUE)
    /\ UNCHANGED <<nameIdx, fails>>

Remove ==
    /\ Request({"remove"})
    /\ FlushBatch(batch)
    /\ rows' = [f \in Files |-> IF f \in RequestFiles THEN 0 ELSE Written(batch)[f]]
    /\ linked' = linked \ (FilesOf(batch) \cup RequestFiles)
    /\ Answer(TRUE)
    /\ UNCHANGED <<nameIdx, fails>>

\* resolveParents and resolveParentsMany: a file without rows has no members.
ResolveParents ==
    /\ Request({"resolveParents"})
    /\ FlushBatch(batch)
    /\ rows' = Written(batch)
    /\ linked' = (linked \ FilesOf(batch)) \cup {f \in RequestFiles : Written(batch)[f] # 0}
    /\ Answer(TRUE)
    /\ UNCHANGED <<nameIdx, fails>>

\* flushBatch throws inside a request: the try block answers ok = false.
FlushingRequestThrows ==
    /\ Request({"flush", "remove", "resolveParents"})
    /\ FlushThrows(batch)
    /\ Answer(FALSE)
    /\ UNCHANGED <<linked, nameIdx>>

\* flushBatch succeeds and the request's own statement throws.
StatementThrows ==
    /\ Request({"remove", "resolveParents"})
    /\ OneFailure
    /\ FlushBatch(batch)
    /\ rows' = Written(batch)
    /\ linked' = linked \ FilesOf(batch)
    /\ Answer(FALSE)
    /\ UNCHANGED nameIdx

DropIndexes ==
    /\ Request({"dropIndexes"})
    /\ \/ nameIdx' = FALSE /\ Answer(TRUE) /\ UNCHANGED fails
       \/ OneFailure /\ Answer(FALSE) /\ UNCHANGED nameIdx
    /\ UNCHANGED <<batch, timer, acks, rows, linked>>

\* createIndexes does not flush: entries still in the batch are written later.
CreateIndexes ==
    /\ Request({"createIndexes"})
    /\ \/ /\ nameIdx' = TRUE
          /\ linked' = {f \in Files : rows[f] # 0}
          /\ Answer(TRUE)
          /\ UNCHANGED fails
       \/ /\ OneFailure
          /\ nameIdx' \in {nameIdx, TRUE}   \* CREATE_INDEXES or resolveParentIds threw
          /\ Answer(FALSE)
          /\ UNCHANGED linked
    /\ UNCHANGED <<batch, timer, acks, rows>>

WriterRequest ==
    \/ Flush
    \/ Remove
    \/ ResolveParents
    \/ FlushingRequestThrows
    \/ StatementThrows
    \/ DropIndexes
    \/ CreateIndexes

WriterNext ==
    \/ \E p \in Parsers : ReceiveApply(p)
    \/ TimerFires
    \/ WriterRequest
=============================================================================
