------------------------------- MODULE Wires -------------------------------
(* What the three kinds of actor of the indexer share: the host's WorkerPool,  *)
(* the parser threads and the single writer thread (src/indexer/worker.ts,     *)
(* workerPool.ts, workerClient.ts).                                            *)
(*                                                                             *)
(* An operation ("op") is one call of a WorkerPool method. The kind of the     *)
(* call is the set its name belongs to. Messages travel on four kinds of wire; *)
(* each is FIFO, and there is no order between two wires: an `apply' a parser  *)
(* put on its MessagePort and a `flush' the host put on the writer's           *)
(* parentPort later may be handled in either order.                            *)
EXTENDS Integers, Sequences, FiniteSets

CONSTANTS
    Files,          \* the source files of the workspace
    Size,           \* WorkerPool.size: the most parser threads it spawns
    BulkOps,        \* calls of indexAll
    ReindexOps,     \* calls of reindex
    LiveOps,        \* calls of reindexContent
    RemoveOps,      \* calls of remove
    NoOp,           \* the absence of an op
    MaxFails,       \* bound: failures of SQLite or of the extractor
    MaxEdits        \* bound: changes of the workspace's files and buffers

Ops == BulkOps \cup ReindexOps \cup LiveOps \cup RemoveOps
Parsers == 1..Size

ASSUME SizeAssumption == Size \in Nat \ {0}
ASSUME OpsAssumption ==
    /\ NoOp \notin Ops
    /\ BulkOps \cap (ReindexOps \cup LiveOps \cup RemoveOps) = {}
    /\ ReindexOps \cap (LiveOps \cup RemoveOps) = {}
    /\ LiveOps \cap RemoveOps = {}
    /\ IsFiniteSet(Ops)
ASSUME BoundsAssumption == MaxFails \in Nat /\ MaxEdits \in Nat

VARIABLES
    disk,       \* disk[f]: version of f's content on disk, 0 when there is no f
    toParser,   \* toParser[p]: host -> parser p (worker.postMessage)
    toWriter,   \* host -> writer (its parentPort)
    applyPort,  \* applyPort[p]: parser p -> writer (the MessageChannel)
    acks,       \* acks[p]: `ack's on their way back from the writer to p
    fromParser, \* fromParser[p]: results of p on their way to the host
    fromWriter, \* results of the writer on their way to the host
    edits,      \* changes of the workspace so far, at most MaxEdits
    fails       \* failures so far, at most MaxFails

wires == <<disk, edits, toParser, toWriter, applyPort, acks, fromParser, fromWriter, fails>>

\* Every file starts at version 1; the n-th change of the workspace makes n + 1.
Version == 0 .. MaxEdits + 1

Calls == [kind : {"indexAll", "reindex", "reindexContent"},
          op : Ops, files : Seq(Files), ver : Version]
CancelMsg == [kind |-> "cancel", op |-> NoOp, files |-> <<>>, ver |-> 0]
ParserMsg == Calls \cup {CancelMsg}
WriterMsg == [kind : {"remove", "flush", "dropIndexes", "createIndexes", "resolveParents"},
              op : Ops, files : Seq(Files)]
ApplyMsg == [file : Files, ver : Version]

\* A `result' answers an op. A thread that dies sends the host 'error' and then
\* 'exit' with a code other than 0; neither names an op.
Result == [op : Ops \cup {NoOp}, ok : BOOLEAN]
DeathEvents == [i \in 1..2 |-> [op |-> NoOp, ok |-> FALSE]]

WiresTypeOK ==
    /\ disk \in [Files -> Version]
    /\ toParser \in [Parsers -> Seq(ParserMsg)]
    /\ toWriter \in Seq(WriterMsg)
    /\ applyPort \in [Parsers -> Seq(ApplyMsg)]
    /\ acks \in [Parsers -> Nat]
    /\ fromParser \in [Parsers -> Seq(Result)]
    /\ fromWriter \in Seq(Result)
    /\ edits \in 0..MaxEdits
    /\ fails \in 0..MaxFails

WiresInit ==
    /\ disk = [f \in Files |-> 1]
    /\ toParser = [p \in Parsers |-> <<>>]
    /\ toWriter = <<>>
    /\ applyPort = [p \in Parsers |-> <<>>]
    /\ acks = [p \in Parsers |-> 0]
    /\ fromParser = [p \in Parsers |-> <<>>]
    /\ fromWriter = <<>>
    /\ edits = 0
    /\ fails = 0

\* One more failure, while the bound allows it.
OneFailure == fails < MaxFails /\ fails' = fails + 1
=============================================================================
