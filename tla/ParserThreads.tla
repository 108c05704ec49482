--------------------------- MODULE ParserThreads ---------------------------
(* The parser threads: src/indexer/worker.ts (role 'parser').                  *)
(*                                                                             *)
(* A message handler is an async function, so several requests of one parser   *)
(* are in progress at once. at[p][o] is where the handler of op o stands:      *)
(*   "none"    no handler;                                                     *)
(*   "ready"   suspended at `await ready' (the wasm runtime loads once);       *)
(*   "start"   resumed from it, or past it;                                    *)
(*   "go"      at the head of the loop over its files;                         *)
(*   "load"    suspended in getParser, loading the grammar of a language;      *)
(*   "parse"   about to parse and post (or, parsed, between microtasks);       *)
(*   "wait"    suspended until an ack (in-flight window full).                 *)
(* "start", "go" and "parse" are microtasks: the thread takes its next message *)
(* (a request, a cancel, an ack) only when none is left, and runs them in an   *)
(* order that depends on how many awaits each went through, so in any order.   *)
EXTENDS Wires

CONSTANTS
    Window,     \* the in-flight window (50 in the code)
    LangOf,     \* LangOf[f]: the language of f's extension, or NoLang
    NoLang
ASSUME WindowAssumption == Window \in Nat \ {0}

VARIABLES
    parserUp,       \* parserUp[p]: the thread was spawned and is alive
    ready,          \* ready[p]: the wasm runtime is initialised
    loaded,         \* loaded[p]: languages whose parser is cached
    at,             \* see above
    todo,           \* todo[p][o]: files the handler has still to index
    text,           \* text[p][o]: version of the content it read
    inFlight,       \* applies posted and not acknowledged, as p counts them
    waitResolve,    \* the handler whose promise p resolves next, or NoOp
    canceled        \* the flag of the `cancel' message

threadVars == <<ready, loaded, at, todo, text, inFlight, waitResolve, canceled>>
parserVars == <<parserUp, threadVars>>

Runnable == {"start", "go", "parse"}
Places == Runnable \cup {"none", "ready", "load", "wait"}
Langs == {LangOf[f] : f \in Files} \ {NoLang}

ParsersTypeOK ==
    /\ parserUp \in [Parsers -> BOOLEAN]
    /\ ready \in [Parsers -> BOOLEAN]
    /\ loaded \in [Parsers -> SUBSET Langs]
    /\ at \in [Parsers -> [Ops -> Places]]
    /\ todo \in [Parsers -> [Ops -> Seq(Files)]]
    /\ text \in [Parsers -> [Ops -> Version]]
    /\ inFlight \in [Parsers -> Int]
    /\ waitResolve \in [Parsers -> Ops \cup {NoOp}]
    /\ canceled \in [Parsers -> BOOLEAN]

ParsersInit ==
    /\ parserUp = [p \in Parsers |-> FALSE]
    /\ ready = [p \in Parsers |-> FALSE]
    /\ loaded = [p \in Parsers |-> {}]
    /\ at = [p \in Parsers |-> [o \in Ops |-> "none"]]
    /\ todo = [p \in Parsers |-> [o \in Ops |-> <<>>]]
    /\ text = [p \in Parsers |-> [o \in Ops |-> 0]]
    /\ inFlight = [p \in Parsers |-> 0]
    /\ waitResolve = [p \in Parsers |-> NoOp]
    /\ canceled = [p \in Parsers |-> FALSE]

\* inFlight >= 50: indexOne awaits an ack.
WindowFull_OffByOne(n) == n > Window
WindowFull(n) == n >= Window

Drained(p) == \A o \in Ops : at[p][o] \notin Runnable

Move(p, o, place) == at' = [at EXCEPT ![p][o] = place]

\* The handler of o posts its result and returns.
Reply(p, o, ok) ==
    /\ fromParser' = [fromParser EXCEPT ![p] = Append(@, [op |-> o, ok |-> ok])]
    /\ Move(p, o, "none")
    /\ todo' = [todo EXCEPT ![p][o] = <<>>]
    /\ text' = [text EXCEPT ![p][o] = 0]

\* The parentPort's message handler, up to its first await.
ReceiveRequest(p) ==
    /\ parserUp[p]
    /\ Drained(p)
    /\ toParser[p] # <<>>
    /\ toParser' = [toParser EXCEPT ![p] = Tail(@)]
    /\ LET m == Head(toParser[p])
       IN \/ /\ m.kind = "cancel"
             /\ canceled' = [canceled EXCEPT ![p] = TRUE]
             /\ UNCHANGED <<at, todo, text>>
          \/ /\ m.kind # "cancel"
             /\ Move(p, m.op, IF ready[p] THEN "start" ELSE "ready")
             /\ todo' = [todo EXCEPT ![p][m.op] = m.files]
             /\ text' = [text EXCEPT ![p][m.op] = m.ver]
             /\ UNCHANGED canceled
    /\ UNCHANGED <<disk, edits, toWriter, applyPort, acks, fromParser, fromWriter, fails,
                   parserUp, ready, loaded, inFlight, waitResolve>>

\* initParser settles: every handler at `await ready' resumes.
RuntimeReady(p) ==
    /\ parserUp[p] /\ ~ready[p] /\ Drained(p)
    /\ ready' = [ready EXCEPT ![p] = TRUE]
    /\ at' = [at EXCEPT ![p] =
                 [o \in Ops |-> IF at[p][o] = "ready" THEN "start" ELSE at[p][o]]]
    /\ UNCHANGED <<wires, parserUp, loaded, todo, text, inFlight, waitResolve, canceled>>

\* Past `await ready': an indexAll clears a stale cancel.
Start(p, o) ==
    /\ at[p][o] = "start"
    /\ Move(p, o, "go")
    /\ canceled' = [canceled EXCEPT ![p] = @ /\ o \notin BulkOps]
    /\ UNCHANGED <<wires, parserUp, ready, loaded, todo, text, inFlight, waitResolve>>

HasParser(p, f) == LangOf[f] \in loaded[p] \cup {NoLang}

\* indexOne up to `await indexFile': the read, or the early return.
BeginFile(p, o) ==
    /\ at[p][o] = "go"
    /\ todo[p][o] # <<>>
    /\ o \in BulkOps => ~canceled[p]
    /\ LET f == Head(todo[p][o])
       IN \/ /\ disk[f] = 0 /\ o \notin LiveOps     \* unreadable: skipped
             /\ todo' = [todo EXCEPT ![p][o] = Tail(@)]
             /\ UNCHANGED <<at, text>>
          \/ /\ disk[f] # 0 \/ o \in LiveOps
             /\ Move(p, o, IF HasParser(p, f) THEN "parse" ELSE "load")
             /\ text' = [text EXCEPT ![p][o] = IF o \in LiveOps THEN @ ELSE disk[f]]
             /\ UNCHANGED todo
    /\ UNCHANGED <<wires, parserUp, ready, loaded, inFlight, waitResolve, canceled>>

\* Language.load settles; a grammar that does not load leaves grep.
GrammarLoaded(p, o) ==
    /\ parserUp[p] /\ Drained(p)
    /\ at[p][o] = "load"
    /\ \/ loaded' = [loaded EXCEPT ![p] = @ \cup {LangOf[Head(todo[p][o])]}]
       \/ UNCHANGED loaded
    /\ Move(p, o, "parse")
    /\ UNCHANGED <<wires, parserUp, ready, todo, text, inFlight, waitResolve, canceled>>

\* The rest of indexOne (or of reindexContent, which does not count its apply).
PostApply(p, o) ==
    /\ at[p][o] = "parse"
    /\ applyPort' = [applyPort EXCEPT ![p] =
                        Append(@, [file |-> Head(todo[p][o]), ver |-> text[p][o]])]
    /\ todo' = [todo EXCEPT ![p][o] = Tail(@)]
    /\ text' = [text EXCEPT ![p][o] = 0]
    /\ \/ /\ o \in LiveOps
          /\ Move(p, o, "go")
          /\ UNCHANGED <<inFlight, waitResolve>>
       \/ /\ o \notin LiveOps
          /\ inFlight' = [inFlight EXCEPT ![p] = @ + 1]
          /\ IF WindowFull(inFlight[p] + 1)
             THEN Move(p, o, "wait") /\ waitResolve' = [waitResolve EXCEPT ![p] = o]
             ELSE Move(p, o, "go") /\ UNCHANGED waitResolve
    /\ UNCHANGED <<disk, edits, toParser, toWriter, acks, fromParser, fromWriter, fails,
                   parserUp, ready, loaded, canceled>>

\* An exception of the scanner reaches the handler's catch.
ParseThrows(p, o) ==
    /\ at[p][o] = "parse"
    /\ OneFailure
    /\ Reply(p, o, FALSE)
    /\ UNCHANGED <<disk, edits, toParser, toWriter, applyPort, acks, fromWriter,
                   parserUp, ready, loaded, inFlight, waitResolve, canceled>>

\* The end of the handler: no file left, or an indexAll that sees `canceled'.
Finish(p, o) ==
    /\ at[p][o] = "go"
    /\ todo[p][o] = <<>> \/ (o \in BulkOps /\ canceled[p])
    /\ Reply(p, o, TRUE)
    /\ UNCHANGED <<disk, edits, toParser, toWriter, applyPort, acks, fromWriter, fails,
                   parserUp, ready, loaded, inFlight, waitResolve, canceled>>

\* The mutant compares the counter before it is decremented.
Wakes_Stale(p) == inFlight[p] < Window /\ waitResolve[p] # NoOp
Wakes(p) == inFlight[p] - 1 < Window /\ waitResolve[p] # NoOp

\* An `ack' on the port: it resolves the one promise waitResolve holds.
ReceiveAck(p) ==
    /\ parserUp[p]
    /\ Drained(p)
    /\ acks[p] > 0
    /\ acks' = [acks EXCEPT ![p] = @ - 1]
    /\ inFlight' = [inFlight EXCEPT ![p] = @ - 1]
    /\ IF Wakes(p)
       THEN /\ Move(p, waitResolve[p], "go")
            /\ waitResolve' = [waitResolve EXCEPT ![p] = NoOp]
       ELSE UNCHANGED <<at, waitResolve>>
    /\ UNCHANGED <<disk, edits, toParser, toWriter, applyPort, fromParser, fromWriter, fails,
                   parserUp, ready, loaded, todo, text, canceled>>

\* The thread dies (an abort in wasm, memory): 'error' and 'exit' go to the
\* host. What it posted before is still delivered.
ParserDies(p) ==
    /\ parserUp[p]
    /\ OneFailure
    /\ parserUp' = [parserUp EXCEPT ![p] = FALSE]
    /\ toParser' = [toParser EXCEPT ![p] = <<>>]
    /\ fromParser' = [fromParser EXCEPT ![p] = @ \o DeathEvents]
    /\ at' = [at EXCEPT ![p] = [o \in Ops |-> "none"]]
    /\ todo' = [todo EXCEPT ![p] = [o \in Ops |-> <<>>]]
    /\ text' = [text EXCEPT ![p] = [o \in Ops |-> 0]]
    /\ waitResolve' = [waitResolve EXCEPT ![p] = NoOp]
    /\ UNCHANGED <<disk, edits, toWriter, applyPort, acks, fromWriter, ready, loaded, inFlight, canceled>>

\* Microtasks of the handler of o.
HandlerStep(p, o) ==
    \/ Start(p, o)
    \/ BeginFile(p, o)
    \/ PostApply(p, o)
    \/ ParseThrows(p, o)
    \/ Finish(p, o)

\* One turn of the event loop of p.
LoopTurn(p) ==
    \/ ReceiveRequest(p)
    \/ RuntimeReady(p)
    \/ \E o \in Ops : GrammarLoaded(p, o)
    \/ ReceiveAck(p)

ParsersNext ==
    \E p \in Parsers :
        \/ LoopTurn(p)
        \/ \E o \in Ops : HandlerStep(p, o)
        \/ ParserDies(p)
=============================================================================
