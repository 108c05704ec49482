---------------------------- MODULE BulkRunProofs ----------------------------
(* Theorems about what a bulk run, indexAll of workerPool.ts, leaves behind     *)
(* when no thread died and SQLite refused nothing: no parser still works for it *)
(* when it settles, the name indexes exist again, and none of its files is      *)
(* lost. All three rest on the conversations of an op with the threads.        *)
EXTENDS WorkerPoolProofs

----------------------------------------------------------------------------
(* The conversations. An op asks the writer for one thing at a time and is     *)
(* answered once; a parser is owed for while a request of the op is queued, a   *)
(* handler of it is at work, or its result is on its way.                      *)

Good == [op : Ops, ok : {TRUE}]

Calm ==
    /\ writerUp
    /\ \A p \in 1..nw : parserUp[p]
    /\ fromWriter \in Seq(Good)
    /\ \A p \in Parsers : fromParser[p] \in Seq(Good)

\* m asks for what its op awaits.
Says(m) ==
    \/ m.kind = "dropIndexes" /\ pc[m.op] = "drop"
    \/ m.kind = "flush" /\ pc[m.op] = "flush"
    \/ m.kind = "createIndexes" /\ pc[m.op] = "create"
    \/ m.kind = "resolveParents" /\ pc[m.op] = "resolve"
    \/ m.kind = "remove" /\ pc[m.op] = "remove"

TalksToWriter(o) ==
    /\ \A i \in DOMAIN toWriter : toWriter[i].op = o => Says(toWriter[i])
    /\ Once(toWriter, o) /\ Once(fromWriter, o)
    /\ Asked(fromWriter, o) => pc[o] \in AwaitsWriter /\ ~Asked(toWriter, o)

TalksToParser(p, o) ==
    /\ Asked(toParser[p], o) \/ at[p][o] # "none" \/ Asked(fromParser[p], o) => p \in owed[o]
    /\ Asked(fromParser[p], o) => at[p][o] = "none" /\ ~Asked(toParser[p], o)
    /\ Once(fromParser[p], o)

Stages(o) ==
    /\ owed[o] # {} => pc[o] = "parse"
    /\ pc[o] \in {"drop", "create"} => rebuild[o]
    /\ rebuild[o] => o \in BulkOps
    /\ pc[o] = "remove" => o \in RemoveOps
    /\ o \in RemoveOps => pc[o] \in {"idle", "remove", "done", "failed"}

OneBulk == \A o, x \in BulkOps : pc[o] \in Active /\ pc[x] \in Active => o = x

Talks(o) == TalksToWriter(o) /\ Stages(o) /\ \A p \in Parsers : TalksToParser(p, o)

TalkInv == fails = 0 => Calm /\ OneBulk /\ \A o \in Ops : Talks(o)

\* What a list holds after one message was put at its end, or its first one taken.
LEMMA AppendCells ==
    ASSUME NEW S, NEW q \in Seq(S), NEW m \in S
    PROVE  /\ \A i \in DOMAIN Append(q, m) : (i \in DOMAIN q /\ Append(q, m)[i] = q[i]) \/ Append(q, m)[i] = m
           /\ \A i \in DOMAIN q : i \in DOMAIN Append(q, m) /\ Append(q, m)[i] = q[i]
           /\ \E i \in DOMAIN Append(q, m) : Append(q, m)[i] = m
<1>1. /\ DOMAIN Append(q, m) = 1 .. Len(q) + 1
      /\ DOMAIN q = 1 .. Len(q)
      /\ Len(q) \in Nat
    OBVIOUS
<1>2. \A i \in 1 .. Len(q) + 1 : Append(q, m)[i] = IF i <= Len(q) THEN q[i] ELSE m
    OBVIOUS
<1>3. Len(q) + 1 \in DOMAIN Append(q, m) /\ Append(q, m)[Len(q) + 1] = m
    BY <1>1, <1>2
<1>4. \A i \in DOMAIN Append(q, m) : (i \in DOMAIN q /\ Append(q, m)[i] = q[i]) \/ Append(q, m)[i] = m
    BY <1>1, <1>2
<1>5. \A i \in DOMAIN q : i \in DOMAIN Append(q, m) /\ Append(q, m)[i] = q[i]
    BY <1>1, <1>2
<1> QED BY <1>3, <1>4, <1>5

LEMMA TailCells ==
    ASSUME NEW S, NEW q \in Seq(S), q # <<>>
    PROVE  /\ \A i \in DOMAIN Tail(q) : i + 1 \in DOMAIN q /\ Tail(q)[i] = q[i + 1]
           /\ \A i \in DOMAIN q : q[i] = Head(q) \/ \E k \in DOMAIN Tail(q) : Tail(q)[k] = q[i]
           /\ 1 \in DOMAIN q /\ Head(q) = q[1]
<1>1. /\ DOMAIN Tail(q) = 1 .. Len(q) - 1
      /\ DOMAIN q = 1 .. Len(q)
      /\ Len(q) \in Nat \ {0}
      /\ Head(q) = q[1]
    OBVIOUS
<1>2. \A i \in 1 .. Len(q) - 1 : Tail(q)[i] = q[i + 1] /\ i + 1 \in 1 .. Len(q)
    OBVIOUS
<1>3. ASSUME NEW i \in DOMAIN q, i # 1
      PROVE  i - 1 \in DOMAIN Tail(q) /\ Tail(q)[i - 1] = q[i]
    <2>1. i - 1 \in 1 .. Len(q) - 1 /\ (i - 1) + 1 = i
        BY <1>1, <1>3
    <2> QED BY <1>1, <1>2, <2>1
<1>4. \A i \in DOMAIN q : q[i] = Head(q) \/ \E k \in DOMAIN Tail(q) : Tail(q)[k] = q[i]
    BY <1>1, <1>3
<1>5. \A i \in DOMAIN Tail(q) : i + 1 \in DOMAIN q /\ Tail(q)[i] = q[i + 1]
    BY <1>1, <1>2
<1>6. 1 \in DOMAIN q
    BY <1>1
<1> QED BY <1>1, <1>4, <1>5, <1>6

\* A step after which nothing has failed is no failure.
LEMMA NoFailure ==
    ASSUME TypeOK, [Next]_vars, fails' = 0
    PROVE  fails = 0 /\ ~OneFailure
<1>1. fails \in Nat
    BY DEF TypeOK, WiresTypeOK
<1>2. ~OneFailure
    BY <1>1 DEF OneFailure
<1>3. UNCHANGED fails \/ OneFailure
    <2>1. CASE Call \/ HostResult \/ \E f \in Files : Workspace(f)
        BY <2>1 DEF Call, CallIndexAll, CallReindex, CallReindexContent, CallParser, CallRemove,
                    Cancel, HostResult, ParserResult, WriterResult, WriterError, Workspace
    <2>2. CASE WriterNext
        BY <2>2 DEF WriterNext, ReceiveApply, TimerFires, WriterRequest, Flush, Remove, ResolveParents,
                    FlushingRequestThrows, FlushThrows, StatementThrows, DropIndexes, CreateIndexes
    <2>3. CASE ParsersNext
        <3>1. PICK p \in Parsers : LoopTurn(p) \/ (\E o \in Ops : HandlerStep(p, o)) \/ ParserDies(p)
            BY <2>3 DEF ParsersNext
        <3> QED BY <3>1 DEF LoopTurn, ReceiveRequest, RuntimeReady, GrammarLoaded, ReceiveAck, ParserDies,
                            HandlerStep, Start, BeginFile, PostApply, ParseThrows, Finish, wires
    <2>4. CASE UNCHANGED vars
        BY <2>4 DEF vars, wires
    <2> QED BY <2>1, <2>2, <2>3, <2>4 DEF Next
<1> QED BY <1>2, <1>3

\* An op that awaits nothing of the writer has nothing on the writer's wires.
LEMMA Silent ==
    ASSUME NEW o \in Ops, TalksToWriter(o), pc[o] \notin AwaitsWriter
    PROVE  ~Asked(toWriter, o) /\ ~Asked(fromWriter, o)
BY DEF TalksToWriter, Says, Asked, AwaitsWriter

\* A step of the host keeps the conversation of o with the writer when what it asks
\* for o is what o now awaits, and o moves only when its last request is answered.
LEMMA HostTalk ==
    ASSUME TypeOK, NEW o \in Ops, TalksToWriter(o),
           fromWriter' = fromWriter \/ (fromWriter # <<>> /\ fromWriter' = Tail(fromWriter)),
           \/ toWriter' = toWriter
           \/ \E m \in WriterMsg :
                /\ toWriter' = Append(toWriter, m)
                /\ m.op = o => ~Asked(toWriter, o) /\ ~Asked(fromWriter', o) /\ Says(m)',
           pc'[o] # pc[o] => ~Asked(toWriter, o) /\ ~Asked(fromWriter', o)
    PROVE  TalksToWriter(o)'
<1>1. toWriter \in Seq(WriterMsg) /\ fromWriter \in Seq(Result)
    BY DEF TypeOK, WiresTypeOK
<1>2. (Asked(fromWriter', o) => Asked(fromWriter, o)) /\ Once(fromWriter', o)
    BY <1>1, TailAsked DEF TalksToWriter
<1>3. \A i \in DOMAIN toWriter : toWriter[i].op = o => Says(toWriter[i]) /\ Asked(toWriter, o)
    BY DEF TalksToWriter, Asked
<1>4. \A i \in DOMAIN toWriter : toWriter[i].op = o /\ pc'[o] = pc[o] =>
         \/ toWriter[i].kind = "dropIndexes" /\ pc'[o] = "drop"
         \/ toWriter[i].kind = "flush" /\ pc'[o] = "flush"
         \/ toWriter[i].kind = "createIndexes" /\ pc'[o] = "create"
         \/ toWriter[i].kind = "resolveParents" /\ pc'[o] = "resolve"
         \/ toWriter[i].kind = "remove" /\ pc'[o] = "remove"
    BY <1>3 DEF Says
<1>5. CASE toWriter' = toWriter
    BY <1>2, <1>3, <1>4, <1>5 DEF TalksToWriter, Says
<1>6. ASSUME NEW m \in WriterMsg, toWriter' = Append(toWriter, m),
             m.op = o => ~Asked(toWriter, o) /\ ~Asked(fromWriter', o) /\ Says(m)'
      PROVE  TalksToWriter(o)'
    <2>1. (Asked(toWriter', o) <=> Asked(toWriter, o) \/ m.op = o) /\ Once(toWriter', o)
        BY <1>1, <1>6, AppendAsked DEF TalksToWriter
    <2>3. \A i \in DOMAIN toWriter' : (i \in DOMAIN toWriter /\ toWriter'[i] = toWriter[i]) \/ toWriter'[i] = m
        BY <1>1, <1>6, AppendCells
    <2>4. ASSUME NEW i \in DOMAIN toWriter', toWriter'[i].op = o PROVE Says(toWriter[i])'
        <3>1. CASE i \in DOMAIN toWriter /\ toWriter'[i] = toWriter[i]
            BY <1>3, <1>4, <2>4, <3>1 DEF Says
        <3>2. CASE toWriter'[i] = m
            BY <1>6, <2>4, <3>2 DEF Says
        <3> QED BY <2>3, <3>1, <3>2
    <2> QED BY <1>2, <1>6, <2>1, <2>4 DEF TalksToWriter
<1> QED BY <1>5, <1>6

\* The writer takes the oldest request and answers it.
LEMMA WriterTalk ==
    ASSUME TypeOK, NEW o \in Ops, TalksToWriter(o), UNCHANGED pc, toWriter # <<>>,
           toWriter' = Tail(toWriter),
           fromWriter' = Append(fromWriter, [op |-> Head(toWriter).op, ok |-> TRUE])
    PROVE  TalksToWriter(o)'
<1> DEFINE m == Head(toWriter)
<1>1. toWriter \in Seq(WriterMsg) /\ fromWriter \in Seq(Result) /\ m \in WriterMsg
    BY DEF TypeOK, WiresTypeOK
<1>2. [op |-> m.op, ok |-> TRUE] \in Result
    BY <1>1 DEF WriterMsg, Result
<1>3. /\ Asked(Tail(toWriter), o) => Asked(toWriter, o)
      /\ Once(Tail(toWriter), o)
      /\ m.op = o => ~Asked(Tail(toWriter), o) /\ Asked(toWriter, o)
    BY <1>1, TailAsked DEF TalksToWriter
<1>4. /\ Asked(fromWriter', o) <=> Asked(fromWriter, o) \/ m.op = o
      /\ Once(fromWriter', o)
    BY <1>1, <1>2, <1>3, AppendAsked DEF TalksToWriter
<1>5. \A i \in DOMAIN Tail(toWriter) : i + 1 \in DOMAIN toWriter /\ Tail(toWriter)[i] = toWriter[i + 1]
    BY <1>1
<1>6. \A i \in DOMAIN toWriter' : toWriter'[i].op = o => Says(toWriter[i])'
    BY <1>5 DEF TalksToWriter, Says
<1>7. m.op = o => pc[o] \in AwaitsWriter
    BY <1>3, Silent
<1> QED BY <1>3, <1>4, <1>6, <1>7 DEF TalksToWriter

\* A step of the host keeps the conversation of o with p when p stays owed for, and
\* is owed for what is sent, or when nothing of the conversation is left.
LEMMA HostTalkParser ==
    ASSUME TypeOK, NEW p \in Parsers, NEW o \in Ops, TalksToParser(p, o), UNCHANGED at,
           \/ fromParser'[p] = fromParser[p]
           \/ fromParser[p] # <<>> /\ fromParser'[p] = Tail(fromParser[p]),
           \/ toParser'[p] = toParser[p]
           \/ \E m \in ParserMsg :
                /\ toParser'[p] = Append(toParser[p], m)
                /\ m.op = o => p \in owed'[o] /\ ~Asked(fromParser'[p], o),
           p \in owed[o] =>
                \/ p \in owed'[o]
                \/ ~Asked(toParser'[p], o) /\ at[p][o] = "none" /\ ~Asked(fromParser'[p], o)
    PROVE  TalksToParser(p, o)'
<1>1. toParser[p] \in Seq(ParserMsg) /\ fromParser[p] \in Seq(Result)
    BY DEF TypeOK, WiresTypeOK
<1>2. (Asked(fromParser'[p], o) => Asked(fromParser[p], o)) /\ Once(fromParser'[p], o)
    BY <1>1, TailAsked DEF TalksToParser
<1>3. CASE toParser'[p] = toParser[p]
    BY <1>2, <1>3 DEF TalksToParser
<1>4. ASSUME NEW m \in ParserMsg, toParser'[p] = Append(toParser[p], m),
             m.op = o => p \in owed'[o] /\ ~Asked(fromParser'[p], o)
      PROVE  TalksToParser(p, o)'
    <2>1. Asked(toParser'[p], o) <=> Asked(toParser[p], o) \/ m.op = o
        BY <1>1, <1>4, AppendAsked
    <2> QED BY <1>2, <1>4, <2>1 DEF TalksToParser
<1> QED BY <1>3, <1>4

\* A step of p keeps it when a handler starts only for a queued request and ends with
\* one result.
LEMMA ParserTalk ==
    ASSUME TypeOK, NEW p \in Parsers, NEW o \in Ops, TalksToParser(p, o), UNCHANGED owed,
           Asked(toParser'[p], o) => Asked(toParser[p], o),
           at'[p][o] # "none" => at[p][o] # "none" \/ Asked(toParser[p], o),
           \/ fromParser'[p] = fromParser[p]
           \/ \E y \in Ops :
                /\ fromParser'[p] = Append(fromParser[p], [op |-> y, ok |-> TRUE])
                /\ y = o => at[p][o] # "none" /\ at'[p][o] = "none" /\ ~Asked(toParser'[p], o)
    PROVE  TalksToParser(p, o)'
<1>1. fromParser[p] \in Seq(Result)
    BY DEF TypeOK, WiresTypeOK
<1>2. CASE fromParser'[p] = fromParser[p]
    BY <1>2 DEF TalksToParser
<1>3. ASSUME NEW y \in Ops, fromParser'[p] = Append(fromParser[p], [op |-> y, ok |-> TRUE]),
             y = o => at[p][o] # "none" /\ at'[p][o] = "none" /\ ~Asked(toParser'[p], o)
      PROVE  TalksToParser(p, o)'
    <2>1. [op |-> y, ok |-> TRUE] \in Result
        BY DEF Result
    <2>2. y = o => ~Asked(fromParser[p], o)
        BY <1>3 DEF TalksToParser
    <2>3. /\ Asked(fromParser'[p], o) <=> Asked(fromParser[p], o) \/ y = o
          /\ Once(fromParser'[p], o)
        BY <1>1, <1>3, <2>1, <2>2, AppendAsked DEF TalksToParser
    <2> QED BY <1>3, <2>3 DEF TalksToParser
<1> QED BY <1>2, <1>3

----------------------------------------------------------------------------
(* The conversations over a step of the writer or of a parser.                *)

\* A step of the writer that is no failure answers its oldest request or none.
LEMMA WriterAnswers ==
    ASSUME WriterNext, ~OneFailure
    PROVE  /\ UNCHANGED <<writerUp, toParser, fromParser>>
           /\ \/ UNCHANGED <<toWriter, fromWriter>>
              \/ /\ toWriter # <<>>
                 /\ toWriter' = Tail(toWriter)
                 /\ fromWriter' = Append(fromWriter, [op |-> Head(toWriter).op, ok |-> TRUE])
BY DEF WriterNext, ReceiveApply, TimerFires, WriterRequest, Flush, Remove, ResolveParents, Request,
       Answer, FlushingRequestThrows, FlushThrows, StatementThrows, DropIndexes, CreateIndexes

LEMMA WriterKeepsTalks ==
    ASSUME TypeOK, Calm, OneBulk, \A o \in Ops : Talks(o), WriterNext, ~OneFailure,
           UNCHANGED <<parserVars, poolVars>>
    PROVE  Calm' /\ OneBulk' /\ \A o \in Ops : Talks(o)'
<1>1. UNCHANGED <<writerUp, toParser, fromParser, at, parserUp, pc, owed, rebuild, nw>>
    BY WriterAnswers DEF parserVars, threadVars, poolVars
<1>2. OneBulk'
    BY <1>1 DEF OneBulk
<1>3. CASE UNCHANGED <<toWriter, fromWriter>>
    <2>1. Calm'
        BY <1>1, <1>3 DEF Calm
    <2>2. \A o \in Ops : Talks(o)'
        BY <1>1, <1>3 DEF Talks, TalksToWriter, Says, Stages, TalksToParser
    <2> QED BY <1>2, <2>1, <2>2
<1>4. CASE /\ toWriter # <<>>
           /\ toWriter' = Tail(toWriter)
           /\ fromWriter' = Append(fromWriter, [op |-> Head(toWriter).op, ok |-> TRUE])
    <2>1. Head(toWriter) \in WriterMsg
        BY <1>4 DEF TypeOK, WiresTypeOK
    <2>2. [op |-> Head(toWriter).op, ok |-> TRUE] \in Good
        BY <2>1 DEF WriterMsg, Good
    <2>3. fromWriter' \in Seq(Good)
        BY <1>4, <2>2 DEF Calm
    <2>4. Calm'
        BY <1>1, <2>3 DEF Calm
    <2>5. \A o \in Ops : TalksToWriter(o)'
        BY <1>1, <1>4, WriterTalk DEF Talks
    <2>6. \A o \in Ops : Stages(o)' /\ \A p \in Parsers : TalksToParser(p, o)'
        BY <1>1 DEF Talks, Stages, TalksToParser
    <2> QED BY <1>2, <2>4, <2>5, <2>6 DEF Talks
<1> QED BY <1>3, <1>4, WriterAnswers

\* A handler of o answers when it is done; until then o owes p nothing else.
LEMMA HandlerKeepsTalks ==
    ASSUME TypeOK, SentOnce, Calm, OneBulk, \A x \in Ops : Talks(x), ~OneFailure,
           NEW p \in Parsers, NEW o \in Ops, HandlerStep(p, o), UNCHANGED <<writerVars, poolVars>>
    PROVE  Calm' /\ OneBulk' /\ \A x \in Ops : Talks(x)'
<1>1. UNCHANGED <<toWriter, fromWriter, toParser, parserUp, writerUp, pc, owed, rebuild, nw>>
    BY DEF HandlerStep, Start, BeginFile, PostApply, ParseThrows, Finish, wires, writerVars, poolVars
<1>2. at \in [Parsers -> [Ops -> Places]] /\ fromParser \in [Parsers -> Seq(Result)]
    BY DEF TypeOK, ParsersTypeOK, WiresTypeOK
<1>3. at[p][o] # "none"
    BY DEF HandlerStep, Start, BeginFile, PostApply, ParseThrows, Finish
<1>4. ~Asked(toParser[p], o)
    BY <1>3 DEF SentOnce, SentOnceTo
<1>5. \/ fromParser' = fromParser
      \/ /\ fromParser' = [fromParser EXCEPT ![p] = Append(@, [op |-> o, ok |-> TRUE])]
         /\ at' = [at EXCEPT ![p][o] = "none"]
    BY DEF HandlerStep, Start, BeginFile, PostApply, ParseThrows, Finish, Reply, Move, wires
<1>6. \A q \in Parsers, x \in Ops : q # p \/ x # o => at'[q][x] = at[q][x]
    BY <1>2 DEF HandlerStep, Start, BeginFile, PostApply, ParseThrows, Finish, Reply, Move
<1>7. Calm'
    <2>1. \A q \in Parsers : fromParser'[q] \in Seq(Good)
        <3>1. [op |-> o, ok |-> TRUE] \in Good
            BY DEF Good
        <3>2. CASE fromParser' = [fromParser EXCEPT ![p] = Append(@, [op |-> o, ok |-> TRUE])]
            <4>1. fromParser'[p] = Append(fromParser[p], [op |-> o, ok |-> TRUE])
                BY <1>2, <3>2
            <4>2. \A q \in Parsers : q # p => fromParser'[q] = fromParser[q]
                BY <1>2, <3>2
            <4>3. Append(fromParser[p], [op |-> o, ok |-> TRUE]) \in Seq(Good)
                BY <3>1 DEF Calm
            <4> QED BY <4>1, <4>2, <4>3 DEF Calm
        <3> QED BY <1>5, <3>2 DEF Calm
    <2> QED BY <1>1, <2>1 DEF Calm
<1>8. ASSUME NEW x \in Ops, NEW q \in Parsers PROVE TalksToParser(q, x)'
    <2>1. TalksToParser(q, x)
        BY DEF Talks
    <2>2. CASE q # p
        BY <1>1, <1>2, <1>5, <1>6, <2>1, <2>2 DEF TalksToParser
    <2>3. CASE q = p
        <3>1. at'[p][x] # "none" => at[p][x] # "none"
            BY <1>3, <1>6
        <3>2. \/ fromParser'[p] = fromParser[p]
              \/ /\ fromParser'[p] = Append(fromParser[p], [op |-> o, ok |-> TRUE])
                 /\ at'[p][o] = "none"
            BY <1>2, <1>5
        <3> QED BY <1>1, <1>3, <1>4, <2>1, <2>3, <3>1, <3>2, ParserTalk
    <2> QED BY <2>2, <2>3
<1>9. \A x \in Ops : TalksToWriter(x)' /\ Stages(x)'
    BY <1>1 DEF Talks, TalksToWriter, Says, Stages
<1>10. OneBulk'
    BY <1>1 DEF OneBulk
<1> QED BY <1>7, <1>8, <1>9, <1>10 DEF Talks

\* A turn of the loop starts a handler for a request, and none of itself.
LEMMA LoopKeepsTalks ==
    ASSUME TypeOK, SentOnce, NoMissedWakeup, Calm, OneBulk, \A x \in Ops : Talks(x),
           NEW p \in Parsers, LoopTurn(p), UNCHANGED <<writerVars, poolVars>>
    PROVE  Calm' /\ OneBulk' /\ \A x \in Ops : Talks(x)'
<1>1. UNCHANGED <<toWriter, fromWriter, fromParser, parserUp, writerUp, pc, owed, rebuild, nw>>
    BY DEF LoopTurn, ReceiveRequest, RuntimeReady, GrammarLoaded, ReceiveAck, wires, writerVars, poolVars
<1>2. at \in [Parsers -> [Ops -> Places]] /\ toParser \in [Parsers -> Seq(ParserMsg)]
    BY DEF TypeOK, ParsersTypeOK, WiresTypeOK
<1>3. ASSUME NEW x \in Ops, NEW q \in Parsers
      PROVE  /\ Asked(toParser'[q], x) => Asked(toParser[q], x)
             /\ at'[q][x] # "none" => at[q][x] # "none" \/ Asked(toParser[q], x)
    <2>1. CASE ReceiveRequest(p)
        <3> DEFINE m == Head(toParser[p])
        <3>1. toParser' = [toParser EXCEPT ![p] = Tail(@)] /\ toParser[p] # <<>>
            BY <2>1 DEF ReceiveRequest
        <3>2. /\ Asked(Tail(toParser[p]), x) => Asked(toParser[p], x)
              /\ Asked(toParser[p], m.op)
            BY <1>2, <3>1, TailAsked
        <3>3. at'[q][x] = at[q][x] \/ (q = p /\ x = m.op)
            BY <1>2, <2>1 DEF ReceiveRequest, Move
        <3>4. toParser'[q] = IF q = p THEN Tail(toParser[p]) ELSE toParser[q]
            BY <1>2, <3>1
        <3> QED BY <3>2, <3>3, <3>4
    <2>2. CASE RuntimeReady(p)
        BY <1>2, <2>2 DEF RuntimeReady, wires
    <2>3. ASSUME NEW o \in Ops, GrammarLoaded(p, o)
          PROVE  toParser' = toParser /\ (at'[q][x] # "none" => at[q][x] # "none")
        BY <1>2, <2>3 DEF GrammarLoaded, Move, wires
    <2>4. CASE ReceiveAck(p)
        <3>1. at' = at \/ (at' = [at EXCEPT ![p][waitResolve[p]] = "go"] /\ waitResolve[p] # NoOp)
            BY <2>4 DEF ReceiveAck, Wakes, Move
        <3>2. waitResolve[p] # NoOp => at[p][waitResolve[p]] = "wait"
            BY DEF NoMissedWakeup
        <3>3. toParser' = toParser
            BY <2>4 DEF ReceiveAck
        <3> QED BY <1>2, <3>1, <3>2, <3>3
    <2> QED BY <2>1, <2>2, <2>3, <2>4 DEF LoopTurn
<1>4. ASSUME NEW x \in Ops, NEW q \in Parsers PROVE TalksToParser(q, x)'
    BY <1>1, <1>3, ParserTalk DEF Talks
<1>5. \A x \in Ops : TalksToWriter(x)' /\ Stages(x)'
    BY <1>1 DEF Talks, TalksToWriter, Says, Stages
<1>6. Calm' /\ OneBulk'
    BY <1>1 DEF OneBulk, Calm
<1> QED BY <1>4, <1>5, <1>6 DEF Talks

----------------------------------------------------------------------------
(* The conversations over a step of the host.                                 *)

\* What is sent to a parser of the pool reaches it: each of the first n is up, or
\* spawned by this step.
LEMMA SpawnCalm ==
    ASSUME Calm, TypeOK, NEW n \in 0..Size, Spawn(n), n >= nw, UNCHANGED <<writerUp, fromWriter, fromParser>>
    PROVE  Calm'
<1>1. ASSUME NEW p \in 1..n PROVE parserUp'[p]
    <2>1. p \in Parsers /\ nw \in Nat
        BY SizeAssumption DEF Parsers, TypeOK, PoolTypeOK
    <2>2. parserUp[p] \/ p \in nw + 1 .. n
        BY <2>1 DEF Calm
    <2> QED BY <2>1, <2>2 DEF Spawn
<1> QED BY <1>1 DEF Calm, Spawn

\* No parser has anything of an op that is not parsing.
LEMMA Unasked ==
    ASSUME NEW o \in Ops, Talks(o), pc[o] # "parse", NEW p \in Parsers
    PROVE  /\ owed[o] = {} /\ at[p][o] = "none"
           /\ ~Asked(toParser[p], o) /\ ~Asked(fromParser[p], o)
BY DEF Talks, Stages, TalksToParser

\* What sending the shards of s means for one parser: a message of o reaches the
\* parsers o now awaits.
LEMMA ShardsAsked ==
    ASSUME TypeOK, NEW o \in Ops, NEW s \in Seq(Files), NEW n \in 0..Size, SendShards(o, s, n),
           NEW p \in Parsers
    PROVE  \/ toParser'[p] = toParser[p]
           \/ \E m \in ParserMsg : toParser'[p] = Append(toParser[p], m) /\ m.op = o /\ p \in owed'[o]
<1>1. p \notin ShardOwners(s, n) => toParser'[p] = toParser[p]
    BY DEF SendShards
<1>2. owed'[o] = ShardOwners(s, n)
    BY DEF SendShards, TypeOK, PoolTypeOK
<1>3. \/ toParser'[p] = toParser[p]
      \/ \E m \in ParserMsg : toParser'[p] = Append(toParser[p], m) /\ m.op = o
    BY ShardsSent
<1> QED BY <1>1, <1>2, <1>3

\* The first request of a call opens its conversations.
LEMMA CallOpens ==
    ASSUME TypeOK, \A x \in Ops : Talks(x), NEW o \in Ops, pc[o] = "idle",
           UNCHANGED <<at, fromWriter, fromParser>>,
           \A x \in Ops : x # o => pc'[x] = pc[x] /\ owed'[x] = owed[x] /\ rebuild'[x] = rebuild[x],
           \/ toWriter' = toWriter
           \/ \E m \in WriterMsg : toWriter' = Append(toWriter, m) /\ m.op = o /\ Says(m)',
           \A p \in Parsers :
              \/ toParser'[p] = toParser[p]
              \/ \E m \in ParserMsg : toParser'[p] = Append(toParser[p], m) /\ m.op = o /\ p \in owed'[o],
           Stages(o)'
    PROVE  \A x \in Ops : Talks(x)'
<1>1. ~Asked(toWriter, o) /\ ~Asked(fromWriter, o)
    BY Silent DEF Talks, AwaitsWriter
<1>2. \A p \in Parsers :
         owed[o] = {} /\ at[p][o] = "none" /\ ~Asked(toParser[p], o) /\ ~Asked(fromParser[p], o)
    BY Unasked
<1>3. ASSUME NEW x \in Ops PROVE Talks(x)'
    <2>1. TalksToWriter(x)'
        BY <1>1, HostTalk DEF Talks
    <2>2. Stages(x)'
        BY DEF Talks, Stages
    <2>3. ASSUME NEW p \in Parsers PROVE TalksToParser(p, x)'
        <3>1. p \in owed[x] => p \in owed'[x]
            BY <1>2
        <3>2. \/ toParser'[p] = toParser[p]
              \/ \E m \in ParserMsg :
                    /\ toParser'[p] = Append(toParser[p], m)
                    /\ m.op = x => p \in owed'[x] /\ ~Asked(fromParser'[p], x)
            BY <1>2
        <3> QED BY <3>1, <3>2, HostTalkParser DEF Talks
    <2> QED BY <2>1, <2>2, <2>3 DEF Talks
<1> QED BY <1>3

LEMMA IndexAllKeepsTalks ==
    ASSUME TypeOK, Calm, OneBulk, \A x \in Ops : Talks(x),
           NEW o \in BulkOps, NEW s \in Plans, NEW rb \in BOOLEAN, CallIndexAll(o, s, rb)
    PROVE  Calm' /\ OneBulk' /\ \A x \in Ops : Talks(x)'
<1> DEFINE want == IF Len(s) < Size THEN Len(s) ELSE Size
           n == IF nw < want THEN want ELSE nw
           m == [kind |-> "dropIndexes", op |-> o, files |-> <<>>]
<1>1. o \in Ops /\ s \in Seq(Files)
    BY PlansAssumption DEF Ops
<1>2. n \in 0..Size /\ n >= nw
    BY <1>1, SizeAssumption DEF TypeOK, PoolTypeOK
<1>3. Spawn(n) /\ UNCHANGED <<writerUp, fromWriter, fromParser, at>>
    BY DEF CallIndexAll, writerVars, threadVars
<1>4. Calm'
    BY <1>2, <1>3, SpawnCalm
<1>5. pc[o] = "idle" /\ ~BulkActive
    BY DEF CallIndexAll
<1>6. \A x \in Ops : x # o => pc'[x] = pc[x] /\ owed'[x] = owed[x] /\ rebuild'[x] = rebuild[x]
    BY DEF CallIndexAll, SendShards, TypeOK, PoolTypeOK
<1>7. OneBulk'
    BY <1>5, <1>6 DEF OneBulk, BulkActive, Ops
<1>8. o \notin RemoveOps
    BY OpsAssumption
<1>9. owed[o] = {}
    BY <1>1, <1>5 DEF Talks, Stages
<1>10. CASE rb
    <2>1. /\ pc'[o] = "drop" /\ toWriter' = Append(toWriter, m)
          /\ UNCHANGED <<toParser, owed>> /\ rebuild'[o] = TRUE
        BY <1>1, <1>10 DEF CallIndexAll, ToWriter, Calm, TypeOK, PoolTypeOK
    <2>2. m \in WriterMsg
        BY <1>1 DEF WriterMsg
    <2>3. m.op = o /\ Says(m)'
        BY <2>1 DEF Says
    <2>4. Stages(o)'
        BY <1>8, <1>9, <2>1 DEF Stages
    <2> HIDE DEF m
    <2> QED BY <1>1, <1>3, <1>4, <1>5, <1>6, <1>7, <2>1, <2>2, <2>3, <2>4, CallOpens
<1>11. CASE ~rb
    <2>1. /\ pc'[o] = "parse" /\ UNCHANGED toWriter
          /\ SendShards(o, s, n) /\ rebuild'[o] = FALSE
        BY <1>1, <1>11 DEF CallIndexAll, TypeOK, PoolTypeOK
    <2>2. \A p \in Parsers :
             \/ toParser'[p] = toParser[p]
             \/ \E i \in ParserMsg : toParser'[p] = Append(toParser[p], i) /\ i.op = o /\ p \in owed'[o]
        BY <1>1, <1>2, <2>1, ShardsAsked
    <2>3. Stages(o)'
        BY <1>8, <2>1 DEF Stages
    <2> QED BY <1>1, <1>3, <1>4, <1>5, <1>6, <1>7, <2>1, <2>2, <2>3, CallOpens
<1> QED BY <1>10, <1>11

LEMMA CallParserKeepsTalks ==
    ASSUME TypeOK, Calm, OneBulk, \A x \in Ops : Talks(x),
           NEW o \in ReindexOps \cup LiveOps, NEW f \in Files, NEW v \in Version,
           NEW kind \in {"reindex", "reindexContent"}, CallParser(o, kind, f, v)
    PROVE  Calm' /\ OneBulk' /\ \A x \in Ops : Talks(x)'
<1> DEFINE m == [kind |-> kind, op |-> o, files |-> <<f>>, ver |-> v]
<1>1. o \in Ops /\ o \notin BulkOps /\ o \notin RemoveOps
    BY OpsAssumption DEF Ops
<1>2. Pick.n \in 1..Size /\ Pick.p \in Parsers /\ Pick.n >= nw
    BY PickType, SizeAssumption DEF Parsers, Pick, TypeOK, PoolTypeOK
<1>3. Spawn(Pick.n) /\ UNCHANGED <<writerUp, fromWriter, fromParser, at, toWriter, rebuild>>
    BY DEF CallParser, writerVars, threadVars
<1>4. Calm'
    <2>1. Pick.n \in 0..Size
        BY <1>2
    <2> QED BY <1>2, <1>3, <2>1, SpawnCalm
<1>5. pc[o] = "idle" /\ pc'[o] = "parse" /\ owed'[o] = {Pick.p}
    BY <1>1 DEF CallParser, TypeOK, PoolTypeOK
<1>6. \A x \in Ops : x # o => pc'[x] = pc[x] /\ owed'[x] = owed[x]
    BY DEF CallParser, TypeOK, PoolTypeOK
<1>7. OneBulk'
    BY <1>1, <1>6 DEF OneBulk, Ops
<1>8. Stages(o)'
    BY <1>1, <1>3, <1>5 DEF Stages, Talks
<1>9. <<f>> \in Seq(Files)
    OBVIOUS
<1>10. m \in ParserMsg /\ m.op = o
    BY <1>1, <1>9, CallMsgType
<1>11. ASSUME NEW p \in Parsers
       PROVE  \/ toParser'[p] = toParser[p]
              \/ \E i \in ParserMsg : toParser'[p] = Append(toParser[p], i) /\ i.op = o /\ p \in owed'[o]
    <2>1. p # Pick.p => toParser'[p] = toParser[p]
        BY DEF CallParser, TypeOK, WiresTypeOK
    <2>2. p = Pick.p => toParser'[p] \in {toParser[p], Append(toParser[p], m)}
        BY DEF CallParser, ToParser, TypeOK, WiresTypeOK
    <2> HIDE DEF m
    <2> QED BY <1>5, <1>10, <2>1, <2>2
<1> HIDE DEF m
<1> QED BY <1>1, <1>3, <1>4, <1>5, <1>6, <1>7, <1>8, <1>11, CallOpens

LEMMA RemoveKeepsTalks ==
    ASSUME TypeOK, Calm, OneBulk, \A x \in Ops : Talks(x),
           NEW o \in RemoveOps, NEW f \in Files, CallRemove(o, f)
    PROVE  Calm' /\ OneBulk' /\ \A x \in Ops : Talks(x)'
<1> DEFINE m == [kind |-> "remove", op |-> o, files |-> <<f>>]
<1>1. o \in Ops /\ o \notin BulkOps /\ <<f>> \in Seq(Files)
    BY OpsAssumption DEF Ops
<1>2. /\ UNCHANGED <<writerUp, fromWriter, fromParser, at, toParser, rebuild, owed, parserUp, nw>>
      /\ pc[o] = "idle" /\ pc'[o] = "remove" /\ toWriter' = Append(toWriter, m)
    BY <1>1 DEF CallRemove, ToWriter, Calm, writerVars, parserVars, threadVars, TypeOK, PoolTypeOK
<1>3. m \in WriterMsg
    BY <1>1 DEF WriterMsg
<1>4. m.op = o /\ Says(m)'
    BY <1>2 DEF Says
<1>5. \A x \in Ops : x # o => pc'[x] = pc[x]
    BY DEF CallRemove, TypeOK, PoolTypeOK
<1>6. Calm' /\ OneBulk'
    BY <1>1, <1>2, <1>5 DEF Calm, OneBulk, Ops
<1>7. owed[o] = {} /\ ~rebuild[o]
    BY <1>1, <1>2 DEF Talks, Stages
<1>8. Stages(o)'
    BY <1>2, <1>7 DEF Stages
<1> HIDE DEF m
<1> QED BY <1>1, <1>2, <1>3, <1>4, <1>5, <1>6, <1>8, CallOpens

\* A cancel belongs to no op.
LEMMA CancelKeepsTalks ==
    ASSUME TypeOK, Calm, OneBulk, \A x \in Ops : Talks(x), Cancel
    PROVE  Calm' /\ OneBulk' /\ \A x \in Ops : Talks(x)'
<1>1. UNCHANGED <<writerUp, toWriter, fromWriter, fromParser, at, pc, rebuild, owed, parserUp, nw>>
    BY DEF Cancel, writerVars, parserVars, threadVars
<1>2. Calm' /\ OneBulk'
    BY <1>1 DEF Calm, OneBulk
<1>3. CancelMsg \in ParserMsg /\ CancelMsg.op \notin Ops
    BY OpsAssumption DEF ParserMsg, CancelMsg
<1>4. \A p \in Parsers : toParser'[p] \in {toParser[p], Append(toParser[p], CancelMsg)}
    BY DEF Cancel, ToParser
<1>5. ASSUME NEW x \in Ops, NEW p \in Parsers PROVE TalksToParser(p, x)'
    <2>1. \/ toParser'[p] = toParser[p]
          \/ \E m \in ParserMsg :
                /\ toParser'[p] = Append(toParser[p], m)
                /\ m.op = x => p \in owed'[x] /\ ~Asked(fromParser'[p], x)
        BY <1>3, <1>4
    <2> QED BY <1>1, <2>1, HostTalkParser DEF Talks
<1>6. \A x \in Ops : TalksToWriter(x)' /\ Stages(x)'
    BY <1>1 DEF Talks, TalksToWriter, Says, Stages
<1> QED BY <1>2, <1>5, <1>6 DEF Talks

\* The op whose answer ParserResult takes is owed for by one parser less; when it was the
\* last, the op asks for a flush.
ParserResultOf(p, o) ==
    /\ fromParser[p] # <<>> /\ fromParser'[p] = Tail(fromParser[p])
    /\ \A q \in Parsers : q # p => fromParser'[q] = fromParser[q]
    /\ pc[o] = "parse" /\ p \in owed[o] /\ at[p][o] = "none"
    /\ ~Asked(toParser[p], o) /\ ~Asked(fromParser'[p], o)
    /\ owed'[o] = owed[o] \ {p}
    /\ \A x \in Ops : x # o => owed'[x] = owed[x] /\ pc'[x] = pc[x]
    /\ \/ UNCHANGED <<pc, toWriter>>
       \/ /\ pc'[o] = "flush" /\ owed'[o] = {}
          /\ \E m \in WriterMsg : m.op = o /\ m.kind = "flush" /\ toWriter' = Append(toWriter, m)

LEMMA ParserResultEffect ==
    ASSUME TypeOK, Calm, \A x \in Ops : Talks(x), NEW p \in Parsers, ParserResult(p)
    PROVE  \E o \in Ops : ParserResultOf(p, o)
<1> DEFINE r == Head(fromParser[p])
<1>1. fromParser[p] \in Seq(Good) /\ fromParser[p] # <<>> /\ fromParser \in [Parsers -> Seq(Result)]
    BY DEF Calm, ParserResult, TypeOK, WiresTypeOK
<1>2. r \in Good
    BY <1>1
<1>3. PICK o \in Ops : o = r.op
    BY <1>2 DEF Good
<1> DEFINE m == [kind |-> "flush", op |-> o, files |-> <<>>]
<1>4. r.ok = TRUE /\ o # NoOp
    BY <1>2, OpsAssumption DEF Good
<1>5. Asked(fromParser[p], o) /\ (Once(fromParser[p], o) => ~Asked(Tail(fromParser[p]), o))
    BY <1>1, <1>3, TailAsked
<1>6. /\ fromParser'[p] = Tail(fromParser[p])
      /\ \A q \in Parsers : q # p => fromParser'[q] = fromParser[q]
    BY <1>1 DEF ParserResult
<1>7. /\ p \in owed[o] /\ at[p][o] = "none" /\ pc[o] = "parse"
      /\ ~Asked(toParser[p], o) /\ ~Asked(fromParser'[p], o)
    <2>1. TalksToParser(p, o) /\ Stages(o)
        BY DEF Talks
    <2> QED BY <1>5, <1>6, <2>1 DEF TalksToParser, Stages
<1>8. /\ owed' = [owed EXCEPT ![o] = @ \ {p}]
      /\ IF AllAnswered(o, p) THEN ParsedNext(o) ELSE UNCHANGED <<pc, toWriter>>
    <2>1. o \in {x \in Ops : p \in owed[x]}
        BY <1>7
    <2> QED BY <1>3, <1>4, <2>1 DEF ParserResult
<1>9. /\ owed'[o] = owed[o] \ {p}
      /\ \A x \in Ops : x # o => owed'[x] = owed[x] /\ pc'[x] = pc[x]
    BY <1>8 DEF ParsedNext, TypeOK, PoolTypeOK
<1>10. \/ UNCHANGED <<pc, toWriter>>
       \/ toWriter' = Append(toWriter, m) /\ pc'[o] = "flush" /\ owed'[o] = {}
    BY <1>8, <1>9 DEF AllAnswered, ParsedNext, ToWriter, Calm, TypeOK, PoolTypeOK
<1>11. m \in WriterMsg /\ m.op = o /\ m.kind = "flush"
    BY DEF WriterMsg
<1> HIDE DEF m, r
<1> QED BY <1>1, <1>6, <1>7, <1>9, <1>10, <1>11 DEF ParserResultOf

LEMMA ParserResultKeepsTalks ==
    ASSUME TypeOK, Calm, OneBulk, \A x \in Ops : Talks(x), NEW p \in Parsers, ParserResult(p)
    PROVE  Calm' /\ OneBulk' /\ \A x \in Ops : Talks(x)'
<1>1. PICK o \in Ops : ParserResultOf(p, o)
    BY ParserResultEffect
<1>2. UNCHANGED <<toParser, fromWriter, writerUp, parserUp, at, rebuild, nw>>
    BY DEF ParserResult, writerVars, parserVars, threadVars
<1>3. Calm'
    <2>1. \A q \in Parsers : fromParser'[q] \in Seq(Good)
        <3>1. fromParser[p] \in Seq(Good) /\ fromParser[p] # <<>>
            BY <1>1 DEF Calm, ParserResultOf
        <3>2. Tail(fromParser[p]) \in Seq(Good)
            BY <3>1
        <3> QED BY <1>1, <3>2 DEF Calm, ParserResultOf
    <2> QED BY <1>2, <2>1 DEF Calm
<1>4. OneBulk'
    BY <1>1 DEF OneBulk, Ops, Active, ParserResultOf
<1>5. ~Asked(toWriter, o) /\ ~Asked(fromWriter, o)
    BY <1>1, Silent DEF Talks, AwaitsWriter, ParserResultOf
<1>6. o \notin RemoveOps
    BY <1>1 DEF Talks, Stages, ParserResultOf
<1>7. ASSUME NEW x \in Ops PROVE TalksToWriter(x)'
    <2>1. \/ toWriter' = toWriter
          \/ \E m \in WriterMsg :
                /\ toWriter' = Append(toWriter, m)
                /\ m.op = x => ~Asked(toWriter, x) /\ ~Asked(fromWriter', x) /\ Says(m)'
        BY <1>1, <1>2, <1>5 DEF ParserResultOf, Says
    <2>2. pc'[x] # pc[x] => ~Asked(toWriter, x) /\ ~Asked(fromWriter', x)
        BY <1>1, <1>2, <1>5 DEF ParserResultOf
    <2> QED BY <1>2, <2>1, <2>2, HostTalk DEF Talks
<1>8. ASSUME NEW x \in Ops PROVE Stages(x)'
    <2>1. Stages(x)
        BY DEF Talks
    <2> QED BY <1>1, <1>2, <1>6, <2>1 DEF Stages, ParserResultOf
<1>9. ASSUME NEW x \in Ops, NEW q \in Parsers PROVE TalksToParser(q, x)'
    <2>1. q \in owed[x] => q \in owed'[x] \/ (q = p /\ x = o)
        BY <1>1 DEF ParserResultOf
    <2>2. q = p /\ x = o => ~Asked(toParser'[q], x) /\ at[q][x] = "none" /\ ~Asked(fromParser'[q], x)
        BY <1>1, <1>2 DEF ParserResultOf
    <2>3. \/ fromParser'[q] = fromParser[q]
          \/ fromParser[q] # <<>> /\ fromParser'[q] = Tail(fromParser[q])
        BY <1>1 DEF ParserResultOf
    <2> QED BY <1>2, <2>1, <2>2, <2>3, HostTalkParser DEF Talks
<1> QED BY <1>3, <1>4, <1>7, <1>8, <1>9 DEF Talks

\* The op whose answer WriterResult takes moves to its next step, and asks for it.
WriterResultOf(o) ==
    /\ fromWriter # <<>> /\ fromWriter' = Tail(fromWriter)
    /\ pc[o] \in AwaitsWriter /\ ~Asked(toWriter, o) /\ ~Asked(fromWriter', o)
    /\ \A x \in Ops : x # o => pc'[x] = pc[x]
    /\ \/ /\ pc[o] = "drop" /\ pc'[o] = "parse"
          /\ SendShards(o, files[o], nw) /\ UNCHANGED toWriter
       \/ /\ pc[o] = "flush" /\ pc'[o] \in {"create", "resolve"}
          /\ rebuild[o] <=> pc'[o] = "create"
          /\ \E m \in WriterMsg :
                /\ m.op = o /\ toWriter' = Append(toWriter, m)
                /\ m.kind = IF pc'[o] = "create" THEN "createIndexes" ELSE "resolveParents"
          /\ UNCHANGED <<toParser, owed>>
       \/ /\ pc[o] \in {"create", "resolve", "remove"} /\ pc'[o] = "done"
          /\ UNCHANGED <<toWriter, toParser, owed>>

LEMMA WriterResultEffect ==
    ASSUME TypeOK, Calm, \A x \in Ops : Talks(x), WriterResult
    PROVE  \E o \in Ops : WriterResultOf(o)
<1>1. fromWriter \in Seq(Good) /\ fromWriter # <<>> /\ fromWriter' = Tail(fromWriter)
    BY DEF Calm, WriterResult
<1>2. Head(fromWriter) \in Good
    BY <1>1
<1>3. PICK o \in Ops : o = Head(fromWriter).op
    BY <1>2 DEF Good
<1>4. Head(fromWriter).ok = TRUE
    BY <1>2 DEF Good
<1>5. TalksToWriter(o)
    BY DEF Talks
<1>6. /\ Asked(fromWriter, o)
      /\ Once(fromWriter, o) => ~Asked(Tail(fromWriter), o)
    BY <1>1, <1>3, TailAsked
<1>7. pc[o] \in AwaitsWriter /\ ~Asked(toWriter, o) /\ ~Asked(fromWriter', o)
    BY <1>1, <1>5, <1>6 DEF TalksToWriter
<1>8. files[o] \in Seq(Files) /\ <<>> \in Seq(Files) /\ pc \in [Ops -> PCs]
    BY DEF TypeOK, PoolTypeOK
<1>9. pc' = [pc EXCEPT ![o] = NextPC(o, TRUE)]
    BY <1>3, <1>4 DEF WriterResult
<1>10. pc'[o] = NextPC(o, TRUE) /\ \A x \in Ops : x # o => pc'[x] = pc[x]
    BY <1>8, <1>9
<1>11. IF pc'[o] = "parse" THEN SendShards(o, files[o], nw) ELSE UNCHANGED <<toParser, owed>>
    BY <1>3, <1>4, <1>10 DEF WriterResult
<1>12. toWriter' = CASE pc'[o] = "create" -> ToWriter("createIndexes", o, <<>>)
                     [] pc'[o] = "resolve" -> ToWriter("resolveParents", o, files[o])
                     [] OTHER -> toWriter
    BY <1>3, <1>4, <1>10 DEF WriterResult
<1>13. CASE pc[o] = "drop"
    <2>1. pc'[o] = "parse"
        BY <1>10, <1>13 DEF NextPC
    <2>2. toWriter' = toWriter
        BY <1>12, <2>1
    <2> QED BY <1>1, <1>7, <1>10, <1>11, <1>13, <2>1, <2>2 DEF WriterResultOf
<1>14. CASE pc[o] = "flush"
    <2> DEFINE kind == IF pc'[o] = "create" THEN "createIndexes" ELSE "resolveParents"
    <2>1. pc'[o] = IF rebuild[o] THEN "create" ELSE "resolve"
        BY <1>10, <1>14 DEF NextPC
    <2>2. PICK fs \in Seq(Files) : toWriter' = Append(toWriter, [kind |-> kind, op |-> o, files |-> fs])
        BY <1>8, <1>12, <2>1 DEF ToWriter, Calm
    <2>3. [kind |-> kind, op |-> o, files |-> fs] \in WriterMsg
        BY DEF WriterMsg
    <2>4. \E m \in WriterMsg : m.op = o /\ toWriter' = Append(toWriter, m) /\ m.kind = kind
        BY <2>2, <2>3
    <2> QED BY <1>1, <1>7, <1>10, <1>11, <1>14, <2>1, <2>4 DEF WriterResultOf
<1>15. CASE pc[o] \in {"create", "resolve", "remove"}
    <2>1. pc'[o] = "done"
        BY <1>10, <1>15 DEF NextPC
    <2>2. toWriter' = toWriter
        BY <1>12, <2>1
    <2> QED BY <1>1, <1>7, <1>10, <1>11, <1>15, <2>1, <2>2 DEF WriterResultOf
<1> QED BY <1>7, <1>13, <1>14, <1>15 DEF AwaitsWriter

LEMMA WriterResultKeepsTalks ==
    ASSUME TypeOK, Calm, OneBulk, \A x \in Ops : Talks(x), WriterResult
    PROVE  Calm' /\ OneBulk' /\ \A x \in Ops : Talks(x)'
<1>1. PICK o \in Ops : WriterResultOf(o)
    BY WriterResultEffect
<1>2. UNCHANGED <<fromParser, writerUp, parserUp, at, rebuild, nw>>
    BY DEF WriterResult, writerVars, parserVars, threadVars
<1>3. Calm'
    BY <1>1, <1>2 DEF Calm, WriterResultOf
<1>4. OneBulk'
    BY <1>1 DEF OneBulk, WriterResultOf, Ops, Active
<1>5. pc[o] # "parse"
    BY <1>1 DEF WriterResultOf, AwaitsWriter
<1>6. \A p \in Parsers :
         owed[o] = {} /\ at[p][o] = "none" /\ ~Asked(toParser[p], o) /\ ~Asked(fromParser[p], o)
    BY <1>5, Unasked
<1>7. owed[o] = {}
    BY <1>5 DEF Talks, Stages
<1>8. \A x \in Ops : x # o => owed'[x] = owed[x]
    BY <1>1 DEF WriterResultOf, SendShards, TypeOK, PoolTypeOK
<1>9. \A p \in Parsers :
         \/ toParser'[p] = toParser[p]
         \/ \E m \in ParserMsg : toParser'[p] = Append(toParser[p], m) /\ m.op = o /\ p \in owed'[o]
    <2>1. files[o] \in Seq(Files) /\ nw \in 0..Size
        BY DEF TypeOK, PoolTypeOK
    <2> QED BY <1>1, <2>1, ShardsAsked DEF WriterResultOf
<1>10. ASSUME NEW x \in Ops PROVE TalksToWriter(x)'
    <2>1. \/ toWriter' = toWriter
          \/ \E m \in WriterMsg :
                /\ toWriter' = Append(toWriter, m)
                /\ m.op = x => ~Asked(toWriter, x) /\ ~Asked(fromWriter', x) /\ Says(m)'
        BY <1>1 DEF WriterResultOf, Says
    <2>2. pc'[x] # pc[x] => ~Asked(toWriter, x) /\ ~Asked(fromWriter', x)
        BY <1>1 DEF WriterResultOf
    <2>3. fromWriter # <<>> /\ fromWriter' = Tail(fromWriter)
        BY <1>1 DEF WriterResultOf
    <2> QED BY <2>1, <2>2, <2>3, HostTalk DEF Talks
<1>11. ASSUME NEW x \in Ops PROVE Stages(x)'
    <2>1. Stages(x)
        BY DEF Talks
    <2>2. CASE x # o
        BY <1>1, <1>2, <1>8, <2>1, <2>2 DEF Stages, WriterResultOf
    <2>3. CASE x = o
        BY <1>1, <1>2, <1>7, <2>1, <2>3 DEF Stages, WriterResultOf
    <2> QED BY <2>2, <2>3
<1>12. ASSUME NEW x \in Ops, NEW p \in Parsers PROVE TalksToParser(p, x)'
    <2>1. p \in owed[x] => p \in owed'[x]
        BY <1>7, <1>8
    <2>2. \/ toParser'[p] = toParser[p]
          \/ \E m \in ParserMsg :
                /\ toParser'[p] = Append(toParser[p], m)
                /\ m.op = x => p \in owed'[x] /\ ~Asked(fromParser'[p], x)
        BY <1>2, <1>6, <1>9
    <2> QED BY <1>2, <2>1, <2>2, HostTalkParser DEF Talks
<1> QED BY <1>3, <1>4, <1>10, <1>11, <1>12 DEF Talks

\* Nobody reports a death while nothing has failed.
LEMMA NoWriterError == Calm => ~WriterError
<1> SUFFICES ASSUME Calm, WriterError PROVE FALSE
    OBVIOUS
<1>1. Head(fromWriter) \in Good
    BY DEF Calm, WriterError
<1> QED BY <1>1, OpsAssumption DEF WriterError, Good

LEMMA NextKeepsTalks ==
    ASSUME TypeOK, SendInv, Calm, OneBulk, \A x \in Ops : Talks(x), ~OneFailure, [Next]_vars
    PROVE  Calm' /\ OneBulk' /\ \A x \in Ops : Talks(x)'
<1>1. SentOnce /\ NoMissedWakeup
    BY DEF SendInv
<1>2. CASE Call
    <2>1. ASSUME NEW o \in ReindexOps, NEW f \in Files, CallReindex(o, f)
          PROVE  Calm' /\ OneBulk' /\ \A x \in Ops : Talks(x)'
        <3>1. 0 \in Version
            BY BoundsAssumption DEF Version
        <3> QED BY <2>1, <3>1, CallParserKeepsTalks DEF CallReindex
    <2>2. ASSUME NEW o \in LiveOps, NEW f \in Files, CallReindexContent(o, f)
          PROVE  Calm' /\ OneBulk' /\ \A x \in Ops : Talks(x)'
        <3>1. edits + 2 \in Version
            BY <2>2, BoundsAssumption DEF CallReindexContent, Version, TypeOK, WiresTypeOK
        <3> QED BY <2>2, <3>1, CallParserKeepsTalks DEF CallReindexContent
    <2> QED BY <1>2, <2>1, <2>2, IndexAllKeepsTalks, RemoveKeepsTalks, CancelKeepsTalks DEF Call
<1>3. CASE HostResult
    BY <1>3, ParserResultKeepsTalks, WriterResultKeepsTalks, NoWriterError DEF HostResult
<1>4. CASE WriterNext /\ UNCHANGED <<parserVars, poolVars>>
    BY <1>4, WriterKeepsTalks
<1>5. CASE ParsersNext /\ UNCHANGED <<writerVars, poolVars>>
    <2>1. PICK p \in Parsers : LoopTurn(p) \/ (\E o \in Ops : HandlerStep(p, o)) \/ ParserDies(p)
        BY <1>5 DEF ParsersNext
    <2>2. ~ParserDies(p)
        BY DEF ParserDies
    <2> QED BY <1>1, <1>5, <2>1, <2>2, HandlerKeepsTalks, LoopKeepsTalks
<1>6. ASSUME UNCHANGED <<toParser, toWriter, fromParser, fromWriter, writerUp, parserUp, at,
                         pc, owed, rebuild, nw>>
      PROVE  Calm' /\ OneBulk' /\ \A x \in Ops : Talks(x)'
    <2>1. Calm' /\ OneBulk'
        BY <1>6 DEF Calm, OneBulk
    <2>2. \A x \in Ops : Talks(x)'
        BY <1>6 DEF Talks, TalksToWriter, Says, Stages, TalksToParser
    <2> QED BY <2>1, <2>2
<1>7. CASE \E f \in Files : Workspace(f)
    BY <1>6, <1>7 DEF Workspace, writerVars, parserVars, threadVars
<1>8. CASE UNCHANGED vars
    BY <1>6, <1>8 DEF vars, wires, writerVars, parserVars, threadVars, poolVars
<1> QED BY <1>2, <1>3, <1>4, <1>5, <1>7, <1>8 DEF Next

LEMMA TalkInvariance == Spec => []TalkInv
<1>1. Init => TalkInv
    <2> SUFFICES ASSUME Init PROVE Calm /\ OneBulk /\ \A o \in Ops : Talks(o)
        BY DEF TalkInv
    <2>1. Calm
        BY DEF Init, WiresInit, WriterInit, PoolInit, Calm
    <2>2. OneBulk
        BY DEF Init, PoolInit, OneBulk, Ops, Active, AwaitsWriter
    <2>3. ASSUME NEW o \in Ops PROVE Talks(o)
        <3>1. TalksToWriter(o)
            BY DEF Init, WiresInit, TalksToWriter, Asked, Once
        <3>2. Stages(o)
            BY DEF Init, PoolInit, Stages
        <3>3. \A p \in Parsers : TalksToParser(p, o)
            BY DEF Init, WiresInit, ParsersInit, TalksToParser, Asked, Once
        <3> QED BY <3>1, <3>2, <3>3 DEF Talks
    <2> QED BY <2>1, <2>2, <2>3
<1>2. TypeOK /\ SendInv /\ TalkInv /\ [Next]_vars => TalkInv'
    <2> SUFFICES ASSUME TypeOK, SendInv, TalkInv, [Next]_vars, fails' = 0
                 PROVE  Calm' /\ OneBulk' /\ \A o \in Ops : Talks(o)'
        BY DEF TalkInv
    <2>1. fails = 0 /\ ~OneFailure
        BY NoFailure
    <2> QED BY <2>1, NextKeepsTalks DEF TalkInv
<1> QED BY <1>1, <1>2, TypeCorrect, SendInvariance, PTL DEF Spec

\* `so two runs never write concurrently' (serialIndexRunner.ts:5-7): when indexAll of
\* workerPool.ts has settled and nothing has failed, no parser has a handler of that run,
\* cancelled or not. (A parser that fails settles the run while the others go on.)
THEOREM SettledRunsAreOver == Spec => [](fails = 0 => RunsNeverOverlap)
<1>1. TalkInv => (fails = 0 => RunsNeverOverlap)
    <2> SUFFICES ASSUME TalkInv, fails = 0, NEW o \in BulkOps, pc[o] \in {"done", "failed"},
                        NEW p \in Parsers
                 PROVE  at[p][o] = "none"
        BY DEF RunsNeverOverlap
    <2>1. o \in Ops /\ Talks(o)
        BY DEF TalkInv, Ops
    <2> QED BY <2>1, Unasked
<1> QED BY <1>1, TalkInvariance, PTL

----------------------------------------------------------------------------
(* The name indexes. While they are dropped, a rebuilding run still has to ask *)
(* for them, or its request waits at the writer; a database that was never      *)
(* filled has none, and its first bulk run rebuilds them.                       *)

Due(o) ==
    /\ rebuild[o] /\ pc[o] \in {"drop", "parse", "flush", "create"}
    /\ pc[o] = "create" => Asked(toWriter, o)

Blank ==
    /\ ReindexOps \cup LiveOps = {}
    /\ \A o \in BulkOps : pc[o] = "idle"
    /\ \A f \in Files : rows[f] = 0
    /\ batch = <<>> /\ \A p \in Parsers : applyPort[p] = <<>>

IndexDue == nameIdx \/ (\E o \in BulkOps : Due(o)) \/ Blank
IndexInv == fails = 0 => IndexDue

\* A batch without entries writes nothing.
LEMMA NothingWritten == WriterTypeOK => FilesOf(<<>>) = {} /\ Written(<<>>) = rows
BY DEF FilesOf, Written, WriterTypeOK

LEMMA WriterKeepsIndex ==
    ASSUME TypeOK, \A x \in Ops : Talks(x), IndexDue, ~OneFailure,
           WriterNext, UNCHANGED <<parserVars, poolVars>>
    PROVE  IndexDue'
<1>1. UNCHANGED <<pc, rebuild>>
    BY DEF poolVars
<1>2. WriterTypeOK /\ toWriter \in Seq(WriterMsg)
    BY DEF TypeOK, WiresTypeOK
<1>3. CASE (\E p \in Parsers : ReceiveApply(p)) \/ TimerFires
    <2>1. UNCHANGED <<toWriter, nameIdx>>
        BY <1>3 DEF ReceiveApply, TimerFires
    <2>2. Blank => UNCHANGED <<rows, batch, applyPort>>
        BY <1>3 DEF Blank, ReceiveApply, TimerFires
    <2> QED BY <1>1, <2>1, <2>2 DEF IndexDue, Due, Blank
<1>4. CASE CreateIndexes
    BY <1>4 DEF CreateIndexes, IndexDue
<1>5. CASE DropIndexes
    <2> DEFINE m == Head(toWriter)
    <2>1. toWriter # <<>> /\ m.kind = "dropIndexes"
        BY <1>5 DEF DropIndexes, Request
    <2>2. m \in WriterMsg /\ 1 \in DOMAIN toWriter /\ m = toWriter[1]
        BY <1>2, <2>1, TailCells
    <2>3. PICK o \in Ops : o = m.op
        BY <2>2 DEF WriterMsg
    <2>4. Says(toWriter[1])
        BY <2>2, <2>3 DEF Talks, TalksToWriter
    <2>5. pc[o] = "drop"
        BY <2>1, <2>2, <2>3, <2>4 DEF Says
    <2>6. rebuild[o] /\ o \in BulkOps
        BY <2>5 DEF Talks, Stages
    <2>7. Due(o)'
        BY <1>1, <2>5, <2>6 DEF Due
    <2> QED BY <2>6, <2>7 DEF IndexDue
<1>6. CASE Flush \/ Remove \/ ResolveParents
    <2> DEFINE m == Head(toWriter)
    <2>1. /\ UNCHANGED nameIdx /\ toWriter # <<>> /\ toWriter' = Tail(toWriter)
          /\ m.kind # "createIndexes"
        BY <1>6 DEF Flush, Remove, ResolveParents, Request, Answer
    <2>2. ASSUME NEW o \in BulkOps, Due(o) PROVE Due(o)'
        <3>1. ASSUME pc[o] = "create" PROVE Asked(toWriter', o)
            <4>1. PICK i \in DOMAIN toWriter : toWriter[i].op = o
                BY <2>2, <3>1 DEF Due, Asked
            <4>2. Says(toWriter[i])
                BY <4>1 DEF Talks, TalksToWriter, Ops
            <4>3. toWriter[i].kind = "createIndexes"
                BY <3>1, <4>1, <4>2 DEF Says
            <4>4. PICK k \in DOMAIN Tail(toWriter) : Tail(toWriter)[k] = toWriter[i]
                BY <1>2, <2>1, <4>3, TailCells
            <4> QED BY <2>1, <4>1, <4>4 DEF Asked
        <3> QED BY <1>1, <2>2, <3>1 DEF Due
    <2>3. ASSUME Blank PROVE Blank'
        <3>1. batch' = <<>> /\ UNCHANGED applyPort
            BY <1>6 DEF Flush, Remove, ResolveParents, FlushBatch, Answer
        <3>2. Written(batch) = rows
            BY <1>2, <2>3, NothingWritten DEF Blank
        <3>3. \A f \in Files : rows'[f] = 0
            BY <1>6, <2>3, <3>2 DEF Flush, Remove, ResolveParents, Blank
        <3> QED BY <1>1, <2>3, <3>1, <3>3 DEF Blank
    <2> QED BY <2>1, <2>2, <2>3 DEF IndexDue
<1>7. ~FlushingRequestThrows /\ ~StatementThrows
    BY DEF FlushingRequestThrows, FlushThrows, StatementThrows
<1> QED BY <1>3, <1>4, <1>5, <1>6, <1>7 DEF WriterNext, WriterRequest

\* A call moves no op that was called before, and the wire to the writer only grows.
LEMMA CallFrame ==
    ASSUME TypeOK, Call
    PROVE  /\ \A x \in Ops : pc[x] # "idle" =>
                pc'[x] = pc[x] /\ rebuild'[x] = rebuild[x] /\ files'[x] = files[x] /\ owed'[x] = owed[x]
           /\ toWriter' = toWriter \/ \E m \in WriterMsg : toWriter' = Append(toWriter, m)
<1>1. <<>> \in Seq(Files) /\ \A f \in Files : <<f>> \in Seq(Files)
    OBVIOUS
<1>2. \A x \in Ops : pc[x] # "idle" =>
         pc'[x] = pc[x] /\ rebuild'[x] = rebuild[x] /\ files'[x] = files[x] /\ owed'[x] = owed[x]
    <2> SUFFICES ASSUME NEW x \in Ops, pc[x] # "idle"
                 PROVE  pc'[x] = pc[x] /\ rebuild'[x] = rebuild[x] /\ files'[x] = files[x] /\ owed'[x] = owed[x]
        OBVIOUS
    <2>1. ASSUME NEW o \in BulkOps, NEW s \in Plans, NEW rb \in BOOLEAN, CallIndexAll(o, s, rb)
          PROVE  pc'[x] = pc[x] /\ rebuild'[x] = rebuild[x] /\ files'[x] = files[x] /\ owed'[x] = owed[x]
        BY <2>1 DEF CallIndexAll, SendShards, TypeOK, PoolTypeOK
    <2>2. ASSUME NEW o \in Ops, NEW f, NEW v, NEW kind, CallParser(o, kind, f, v)
          PROVE  pc'[x] = pc[x] /\ rebuild'[x] = rebuild[x] /\ files'[x] = files[x] /\ owed'[x] = owed[x]
        BY <2>2 DEF CallParser, TypeOK, PoolTypeOK
    <2>3. ASSUME NEW o \in RemoveOps, NEW f \in Files, CallRemove(o, f)
          PROVE  pc'[x] = pc[x] /\ rebuild'[x] = rebuild[x] /\ files'[x] = files[x] /\ owed'[x] = owed[x]
        BY <2>3 DEF CallRemove, TypeOK, PoolTypeOK
    <2>4. Cancel => UNCHANGED <<pc, rebuild, files, owed>>
        BY DEF Cancel
    <2> QED BY <2>1, <2>2, <2>3, <2>4 DEF Call, CallReindex, CallReindexContent, Ops
<1>3. ASSUME NEW o \in Ops, NEW fs \in Seq(Files), NEW kind \in {"dropIndexes", "remove"},
             toWriter' = ToWriter(kind, o, fs)
      PROVE  toWriter' = toWriter \/ \E m \in WriterMsg : toWriter' = Append(toWriter, m)
    <2>1. [kind |-> kind, op |-> o, files |-> fs] \in WriterMsg
        BY DEF WriterMsg
    <2> QED BY <1>3, <2>1 DEF ToWriter
<1>4. \/ toWriter' = toWriter
      \/ \E o \in BulkOps : toWriter' = ToWriter("dropIndexes", o, <<>>)
      \/ \E o \in RemoveOps, f \in Files : toWriter' = ToWriter("remove", o, <<f>>)
    BY DEF Call, CallIndexAll, CallReindex, CallReindexContent, CallParser, CallRemove, Cancel
<1> QED BY <1>1, <1>2, <1>3, <1>4 DEF Ops

LEMMA HostKeepsIndex ==
    ASSUME TypeOK, Calm, \A x \in Ops : Talks(x), IndexDue, Call \/ HostResult
    PROVE  IndexDue'
<1>1. UNCHANGED <<nameIdx, rows, batch, applyPort>>
    BY DEF Call, CallIndexAll, CallReindex, CallReindexContent, CallParser, CallRemove, Cancel,
           HostResult, ParserResult, WriterResult, WriterError, writerVars
<1>2. toWriter \in Seq(WriterMsg)
    BY DEF TypeOK, WiresTypeOK
<1>3. ASSUME toWriter' = toWriter \/ \E m \in WriterMsg : toWriter' = Append(toWriter, m), NEW o
      PROVE  Asked(toWriter, o) => Asked(toWriter', o)
    BY <1>2, <1>3, AppendAsked
<1>4. CASE Call
    <2>1. ASSUME NEW o \in BulkOps, Due(o) PROVE Due(o)'
        <3>1. o \in Ops /\ pc[o] # "idle"
            BY <2>1 DEF Due, Ops
        <3> QED BY <1>3, <1>4, <2>1, <3>1, CallFrame DEF Due
    <2>2. ASSUME Blank PROVE IndexDue'
        <3>1. ASSUME NEW o \in BulkOps, NEW s \in Plans, NEW rb \in BOOLEAN, CallIndexAll(o, s, rb)
              PROVE  Due(o)'
            <4>1. rb = TRUE
                BY <2>2, <3>1 DEF CallIndexAll, Blank
            <4> QED BY <3>1, <4>1 DEF CallIndexAll, Due, TypeOK, PoolTypeOK, Ops
        <3>2. ASSUME NEW o \in RemoveOps, NEW f \in Files, CallRemove(o, f)
              PROVE  \A b \in BulkOps : pc'[b] = pc[b]
            BY <3>2, OpsAssumption DEF CallRemove, TypeOK, PoolTypeOK, Ops
        <3>3. Cancel => UNCHANGED pc
            BY DEF Cancel
        <3>4. (\E o \in BulkOps : Due(o)') \/ \A b \in BulkOps : pc'[b] = pc[b]
            BY <1>4, <2>2, <3>1, <3>2, <3>3 DEF Call, Blank
        <3>5. CASE \A b \in BulkOps : pc'[b] = pc[b]
            BY <1>1, <2>2, <3>5 DEF IndexDue, Blank
        <3> QED BY <3>4, <3>5 DEF IndexDue
    <2> QED BY <1>1, <2>1, <2>2 DEF IndexDue
<1>5. ASSUME NEW p \in Parsers, ParserResult(p) PROVE IndexDue'
    <2>1. PICK o \in Ops : ParserResultOf(p, o)
        BY <1>5, ParserResultEffect
    <2>2. UNCHANGED rebuild
        BY <1>5 DEF ParserResult
    <2>3. \A x \in BulkOps : Due(x) => Due(x)'
        BY <1>3, <2>1, <2>2 DEF Due, ParserResultOf, Ops
    <2>4. Blank => Blank'
        BY <1>1, <2>1 DEF Blank, ParserResultOf, Ops
    <2> QED BY <1>1, <2>3, <2>4 DEF IndexDue
<1>6. CASE WriterResult
    <2>1. PICK o \in Ops : WriterResultOf(o)
        BY <1>6, WriterResultEffect
    <2>2. UNCHANGED rebuild
        BY <1>6 DEF WriterResult
    <2>3. ASSUME NEW x \in BulkOps, Due(x) PROVE Due(x)'
        <3>1. CASE x # o
            BY <1>3, <2>1, <2>2, <2>3, <3>1 DEF Due, WriterResultOf, Ops
        <3>2. CASE x = o /\ pc[o] = "drop"
            BY <2>1, <2>2, <2>3, <3>2 DEF Due, WriterResultOf
        <3>3. CASE x = o /\ pc[o] = "flush"
            <4>1. PICK m \in WriterMsg : m.op = o /\ toWriter' = Append(toWriter, m)
                BY <2>1, <3>3 DEF WriterResultOf
            <4>2. Asked(toWriter', o)
                BY <1>2, <4>1, AppendAsked
            <4> QED BY <2>1, <2>2, <2>3, <3>3, <4>2 DEF Due, WriterResultOf
        <3>4. pc[o] # "parse" /\ ~Asked(toWriter, o)
            BY <2>1 DEF WriterResultOf, AwaitsWriter
        <3> QED BY <2>3, <3>1, <3>2, <3>3, <3>4 DEF Due
    <2>4. Blank => Blank'
        BY <1>1, <2>1 DEF Blank, WriterResultOf, Ops, AwaitsWriter
    <2> QED BY <1>1, <2>3, <2>4 DEF IndexDue
<1> QED BY <1>4, <1>5, <1>6, NoWriterError DEF HostResult

LEMMA ParsersKeepIndex ==
    ASSUME TypeOK, \A x \in Ops : Talks(x), IndexDue, ParsersNext, UNCHANGED <<writerVars, poolVars>>
    PROVE  IndexDue'
<1>1. PICK p \in Parsers : LoopTurn(p) \/ (\E o \in Ops : HandlerStep(p, o)) \/ ParserDies(p)
    BY DEF ParsersNext
<1>2. UNCHANGED <<nameIdx, rows, batch, pc, rebuild, toWriter>>
    BY <1>1 DEF writerVars, poolVars, LoopTurn, ReceiveRequest, RuntimeReady, GrammarLoaded, ReceiveAck,
        ParserDies, HandlerStep, Start, BeginFile, PostApply, ParseThrows, Finish, wires
<1>3. UNCHANGED applyPort \/ \E o \in Ops : PostApply(p, o)
    BY <1>1 DEF LoopTurn, ReceiveRequest, RuntimeReady, GrammarLoaded, ReceiveAck,
        ParserDies, HandlerStep, Start, BeginFile, ParseThrows, Finish, wires
<1>4. ASSUME Blank, NEW o \in Ops, PostApply(p, o) PROVE FALSE
    <2>1. at[p][o] = "parse"
        BY <1>4 DEF PostApply
    <2>2. pc[o] = "parse"
        BY <2>1, Unasked
    <2>3. o \notin RemoveOps
        BY <2>2 DEF Talks, Stages
    <2> QED BY <1>4, <2>2, <2>3 DEF Blank, Ops
<1>5. Blank => Blank'
    BY <1>2, <1>3, <1>4 DEF Blank
<1>6. \A o \in BulkOps : Due(o) => Due(o)'
    BY <1>2 DEF Due
<1> QED BY <1>2, <1>5, <1>6 DEF IndexDue

LEMMA IndexInvariance == Spec /\ (nameIdx \/ ReindexOps \cup LiveOps = {}) => []IndexInv
<1>1. Init /\ (nameIdx \/ ReindexOps \cup LiveOps = {}) => IndexInv
    <2> SUFFICES ASSUME Init, ~nameIdx, ReindexOps \cup LiveOps = {} PROVE Blank
        BY DEF IndexInv, IndexDue
    <2>1. \A f \in Files : rows[f] = 0
        BY DEF Init, WriterInit
    <2> QED BY <2>1 DEF Init, WiresInit, WriterInit, PoolInit, Blank, Ops
<1>2. TypeOK /\ TalkInv /\ IndexInv /\ [Next]_vars => IndexInv'
    <2> SUFFICES ASSUME TypeOK, TalkInv, IndexInv, [Next]_vars, fails' = 0 PROVE IndexDue'
        BY DEF IndexInv
    <2>1. fails = 0 /\ ~OneFailure
        BY NoFailure
    <2>2. Calm /\ (\A x \in Ops : Talks(x)) /\ IndexDue
        BY <2>1 DEF TalkInv, IndexInv
    <2>3. CASE UNCHANGED <<nameIdx, rows, batch, applyPort, pc, rebuild, toWriter>>
        BY <2>2, <2>3 DEF IndexDue, Due, Blank
    <2>4. CASE \E f \in Files : Workspace(f)
        BY <2>3, <2>4 DEF Workspace, writerVars
    <2>5. CASE UNCHANGED vars
        BY <2>3, <2>5 DEF vars, wires, writerVars, poolVars
    <2> QED BY <2>1, <2>2, <2>4, <2>5, WriterKeepsIndex, HostKeepsIndex, ParsersKeepIndex DEF Next
<1> QED BY <1>1, <1>2, TypeCorrect, TalkInvariance, PTL DEF Spec

\* The host may query whenever no rebuilding run is in flight (workerPool.ts:118-149,
\* extension.ts:195-205): while nothing has failed, the name indexes exist then if there
\* are rows to scan, whatever was cancelled, re-indexed or removed. It starts from a
\* database with its name indexes, or from an empty one that no re-index reaches before
\* the first bulk run: SCHEMA creates none, and a re-index does not either.
THEOREM ReadsAreIndexed ==
    Spec /\ (nameIdx \/ ReindexOps \cup LiveOps = {}) => [](fails = 0 => IndexesBehindReads)
<1>1. IndexInv => (fails = 0 => IndexesBehindReads)
    <2> SUFFICES ASSUME IndexInv, fails = 0, ~Rebuilding, NEW f \in Files, rows[f] # 0 PROVE nameIdx
        BY DEF IndexesBehindReads
    <2>1. \A o \in BulkOps : ~Due(o)
        BY DEF Rebuilding, Due, Active, AwaitsWriter
    <2> QED BY <2>1 DEF IndexInv, IndexDue, Blank
<1> QED BY <1>1, IndexInvariance, PTL

----------------------------------------------------------------------------
(* What travels on the wires and stands in the handlers. A re-index and a live  *)
(* edit have one file; an entry has content, which a version other than 0 is;  *)
(* a removal is about a file that was deleted or changed since the beginning.  *)

\* The op of a re-index or of a live edit.
Small == ReindexOps \cup LiveOps

Fit(m) ==
    /\ m.op \in Small => Len(m.files) = 1
    /\ m.op \in LiveOps => m.ver # 0
    /\ m.kind = "cancel" => cancels # 0

FitCell(p, o) ==
    /\ o \in Small => Len(todo[p][o]) <= 1
    /\ at[p][o] \in {"load", "parse"} \/ (o \in LiveOps /\ todo[p][o] # <<>>) => text[p][o] # 0

Stamped ==
    /\ \A i \in DOMAIN batch : batch[i].ver # 0
    /\ \A p \in Parsers : \A i \in DOMAIN applyPort[p] : applyPort[p][i].ver # 0

Touched(m) == m.kind = "remove" => \A k \in DOMAIN m.files : disk[m.files[k]] # 1

Fits ==
    /\ \A p \in Parsers : \A i \in DOMAIN toParser[p] : Fit(toParser[p][i])
    /\ \A p \in Parsers, o \in Ops : FitCell(p, o)
    /\ Stamped
    /\ \A f \in Files : notice[f] # "none" => disk[f] # 1
    /\ \A i \in DOMAIN toWriter : Touched(toWriter[i])
    /\ \A o \in BulkOps : pc[o] # "idle" => nw > 0
    /\ \A p \in Parsers : canceled[p] => cancels # 0

FitInv == fails = 0 => Fits

LEMMA BulkFits == ASSUME NEW m \in ParserMsg, m.op \in BulkOps PROVE Fit(m)'
<1>1. m.op \in Ops /\ m.op \notin Small /\ m.op \notin LiveOps
    BY OpsAssumption DEF Ops, Small
<1>2. m.kind # "cancel"
    BY <1>1, OpsAssumption DEF ParserMsg, Calls, CancelMsg
<1> QED BY <1>1, <1>2 DEF Fit

\* Every request the host sends fits.
LEMMA HostRequests ==
    ASSUME TypeOK, Calm, \A x \in Ops : Talks(x), Call \/ HostResult, NEW p \in Parsers
    PROVE  \/ toParser'[p] = toParser[p]
           \/ \E m \in ParserMsg : toParser'[p] = Append(toParser[p], m) /\ Fit(m)'
<1>1. ASSUME NEW o \in BulkOps, NEW s \in Seq(Files), NEW n \in 0..Size, SendShards(o, s, n)
      PROVE  \/ toParser'[p] = toParser[p]
             \/ \E m \in ParserMsg : toParser'[p] = Append(toParser[p], m) /\ Fit(m)'
    BY <1>1, ShardsSent, BulkFits DEF Ops
<1>2. ASSUME NEW o \in Small, NEW f \in Files, NEW v \in Version, o \in LiveOps => v # 0,
             NEW kind \in {"reindex", "reindexContent"}, CallParser(o, kind, f, v)
      PROVE  \/ toParser'[p] = toParser[p]
             \/ \E m \in ParserMsg : toParser'[p] = Append(toParser[p], m) /\ Fit(m)'
    <2> DEFINE m == [kind |-> kind, op |-> o, files |-> <<f>>, ver |-> v]
    <2>1. <<f>> \in Seq(Files) /\ Len(<<f>>) = 1 /\ o \in Ops
        BY DEF Small, Ops
    <2>2. m \in ParserMsg
        BY <2>1, CallMsgType
    <2>3. Fit(m)'
        BY <1>2, <2>1 DEF Fit
    <2>4. toParser'[p] \in {toParser[p], Append(toParser[p], m)}
        BY <1>2 DEF CallParser, ToParser, TypeOK, WiresTypeOK
    <2> HIDE DEF m
    <2> QED BY <2>2, <2>3, <2>4
<1>3. CASE Call
    <2>1. ASSUME NEW o \in BulkOps, NEW s \in Plans, NEW rb \in BOOLEAN, CallIndexAll(o, s, rb)
          PROVE  \/ toParser'[p] = toParser[p]
                 \/ \E m \in ParserMsg : toParser'[p] = Append(toParser[p], m) /\ Fit(m)'
        <3> DEFINE want == IF Len(s) < Size THEN Len(s) ELSE Size
                   n == IF nw < want THEN want ELSE nw
        <3>1. s \in Seq(Files) /\ n \in 0..Size
            BY PlansAssumption, SizeAssumption DEF TypeOK, PoolTypeOK
        <3>2. UNCHANGED toParser \/ SendShards(o, s, n)
            BY <2>1 DEF CallIndexAll
        <3> QED BY <1>1, <3>1, <3>2
    <2>2. ASSUME NEW o \in ReindexOps, NEW f \in Files, CallReindex(o, f)
          PROVE  \/ toParser'[p] = toParser[p]
                 \/ \E m \in ParserMsg : toParser'[p] = Append(toParser[p], m) /\ Fit(m)'
        <3>1. 0 \in Version /\ o \in Small /\ o \notin LiveOps
            BY BoundsAssumption, OpsAssumption DEF Version, Small
        <3> QED BY <1>2, <2>2, <3>1 DEF CallReindex
    <2>3. ASSUME NEW o \in LiveOps, NEW f \in Files, CallReindexContent(o, f)
          PROVE  \/ toParser'[p] = toParser[p]
                 \/ \E m \in ParserMsg : toParser'[p] = Append(toParser[p], m) /\ Fit(m)'
        <3>1. edits + 2 \in Version /\ edits + 2 # 0 /\ o \in Small
            BY <2>3, BoundsAssumption DEF CallReindexContent, Version, TypeOK, WiresTypeOK, Small
        <3> QED BY <1>2, <2>3, <3>1 DEF CallReindexContent
    <2>4. ASSUME NEW o \in RemoveOps, NEW f \in Files, CallRemove(o, f)
          PROVE  toParser'[p] = toParser[p]
        BY <2>4 DEF CallRemove
    <2>5. CASE Cancel
        <3>1. CancelMsg \in ParserMsg /\ CancelMsg.op \notin Small
            BY OpsAssumption DEF ParserMsg, CancelMsg, Small, Ops
        <3>2. cancels' # 0
            BY <2>5 DEF Cancel, TypeOK, PoolTypeOK
        <3>3. Fit(CancelMsg)'
            BY <3>1, <3>2 DEF Fit, Small, CancelMsg
        <3>4. toParser'[p] \in {toParser[p], Append(toParser[p], CancelMsg)}
            BY <2>5 DEF Cancel, ToParser
        <3> QED BY <3>1, <3>3, <3>4
    <2> QED BY <1>3, <2>1, <2>2, <2>3, <2>4, <2>5 DEF Call
<1>4. CASE \E q \in Parsers : ParserResult(q)
    BY <1>4 DEF ParserResult
<1>5. CASE WriterResult
    <2>1. PICK o \in Ops : WriterResultOf(o)
        BY <1>5, WriterResultEffect
    <2>2. pc[o] = "drop" => o \in BulkOps
        BY DEF Talks, Stages
    <2>3. files[o] \in Seq(Files) /\ nw \in 0..Size
        BY DEF TypeOK, PoolTypeOK
    <2> QED BY <1>1, <2>1, <2>2, <2>3 DEF WriterResultOf
<1> QED BY <1>3, <1>4, <1>5, NoWriterError DEF HostResult

LEMMA HostKeepsFits ==
    ASSUME TypeOK, Calm, \A x \in Ops : Talks(x), Fits, Call \/ HostResult
    PROVE  Fits'
<1>1. UNCHANGED <<disk, applyPort, batch, at, todo, text, canceled>>
    BY DEF Call, CallIndexAll, CallReindex, CallReindexContent, CallParser, CallRemove, Cancel,
           HostResult, ParserResult, WriterResult, WriterError, writerVars, parserVars, threadVars
<1>2. nw \in Nat /\ cancels \in Nat /\ pc \in [Ops -> PCs] /\ notice \in [Files -> {"none", "change", "delete"}]
      /\ toWriter \in Seq(WriterMsg) /\ \A p \in Parsers : toParser[p] \in Seq(ParserMsg)
    BY DEF TypeOK, PoolTypeOK, WiresTypeOK
<1>3. cancels # 0 => cancels' # 0
    <2>1. cancels' = cancels \/ cancels' = cancels + 1
        BY DEF Call, CallIndexAll, CallReindex, CallReindexContent, CallParser, CallRemove, Cancel,
               HostResult, ParserResult, WriterResult, WriterError
    <2> QED BY <1>2, <2>1
<1>4. ASSUME NEW p \in Parsers, NEW i \in DOMAIN toParser'[p] PROVE Fit(toParser[p][i])'
    <2>1. CASE toParser'[p] = toParser[p]
        BY <1>3, <1>4, <2>1 DEF Fits, Fit
    <2>2. ASSUME NEW m \in ParserMsg, toParser'[p] = Append(toParser[p], m), Fit(m)'
          PROVE  Fit(toParser[p][i])'
        <3>1. (i \in DOMAIN toParser[p] /\ toParser'[p][i] = toParser[p][i]) \/ toParser'[p][i] = m
            BY <1>2, <1>4, <2>2, AppendCells
        <3> QED BY <1>3, <2>2, <3>1 DEF Fits, Fit
    <2> QED BY <2>1, <2>2, HostRequests
<1>5. ASSUME NEW f \in Files, notice'[f] # "none" PROVE disk'[f] # 1
    <2>1. notice[f] # "none"
        BY <1>2, <1>5 DEF Call, CallIndexAll, CallReindex, CallReindexContent, CallParser, CallRemove,
           Cancel, HostResult, ParserResult, WriterResult, WriterError
    <2> QED BY <1>1, <2>1 DEF Fits
<1>6. \/ toWriter' = toWriter
      \/ \E m \in WriterMsg : toWriter' = Append(toWriter, m) /\ Touched(m)'
    <2>1. CASE Call
        <3>1. <<>> \in Seq(Files) /\ \A f \in Files : <<f>> \in Seq(Files)
            OBVIOUS
        <3>2. ASSUME NEW o \in BulkOps, toWriter' = ToWriter("dropIndexes", o, <<>>)
              PROVE  toWriter' = toWriter \/ \E m \in WriterMsg : toWriter' = Append(toWriter, m) /\ Touched(m)'
            <4> DEFINE m == [kind |-> "dropIndexes", op |-> o, files |-> <<>>]
            <4>1. m \in WriterMsg /\ Touched(m)'
                BY <3>1 DEF WriterMsg, Ops, Touched
            <4>2. toWriter' \in {toWriter, Append(toWriter, m)}
                BY <3>2 DEF ToWriter
            <4> HIDE DEF m
            <4> QED BY <4>1, <4>2
        <3>3. ASSUME NEW o \in RemoveOps, NEW f \in Files, CallRemove(o, f)
              PROVE  toWriter' = toWriter \/ \E m \in WriterMsg : toWriter' = Append(toWriter, m) /\ Touched(m)'
            <4> DEFINE m == [kind |-> "remove", op |-> o, files |-> <<f>>]
            <4>1. disk'[f] # 1
                BY <1>1, <3>3 DEF CallRemove, Fits
            <4>2. m \in WriterMsg
                BY <3>1 DEF WriterMsg, Ops
            <4>3. Touched(m)'
                BY <4>1 DEF Touched
            <4>4. toWriter' \in {toWriter, Append(toWriter, m)}
                BY <3>3 DEF CallRemove, ToWriter
            <4> HIDE DEF m
            <4> QED BY <4>2, <4>3, <4>4
        <3>4. toWriter' = toWriter \/ (\E o \in BulkOps : toWriter' = ToWriter("dropIndexes", o, <<>>))
              \/ \E o \in RemoveOps, f \in Files : CallRemove(o, f)
            BY <2>1 DEF Call, CallIndexAll, CallReindex, CallReindexContent, CallParser, Cancel
        <3> QED BY <3>2, <3>3, <3>4
    <2>2. ASSUME NEW p \in Parsers, ParserResult(p)
          PROVE  toWriter' = toWriter \/ \E m \in WriterMsg : toWriter' = Append(toWriter, m) /\ Touched(m)'
        BY <2>2, ParserResultEffect DEF ParserResultOf, Touched
    <2>3. WriterResult => toWriter' = toWriter \/ \E m \in WriterMsg : toWriter' = Append(toWriter, m) /\ Touched(m)'
        BY WriterResultEffect DEF WriterResultOf, Touched
    <2> QED BY <2>1, <2>2, <2>3, NoWriterError DEF HostResult
<1>7. ASSUME NEW i \in DOMAIN toWriter' PROVE Touched(toWriter[i])'
    <2>1. CASE toWriter' = toWriter
        BY <1>1, <1>7, <2>1 DEF Fits, Touched
    <2>2. ASSUME NEW m \in WriterMsg, toWriter' = Append(toWriter, m), Touched(m)'
          PROVE  Touched(toWriter[i])'
        <3>1. (i \in DOMAIN toWriter /\ toWriter'[i] = toWriter[i]) \/ toWriter'[i] = m
            BY <1>2, <1>7, <2>2, AppendCells
        <3> QED BY <1>1, <2>2, <3>1 DEF Fits, Touched
    <2> QED BY <1>6, <2>1, <2>2
<1>8. ASSUME NEW o \in BulkOps, pc'[o] # "idle" PROVE nw' > 0
    <2>1. ASSUME NEW x \in BulkOps, NEW s \in Plans, NEW rb \in BOOLEAN, CallIndexAll(x, s, rb)
          PROVE  nw' > 0
        <3>1. Len(s) \in Nat /\ Len(s) # 0 /\ Size \in Nat \ {0}
            BY PlansAssumption, SizeAssumption
        <3>2. nw' = LET want == IF Len(s) < Size THEN Len(s) ELSE Size
                    IN  IF nw < want THEN want ELSE nw
            BY <2>1 DEF CallIndexAll, Spawn
        <3> QED BY <1>2, <3>1, <3>2
    <2>2. ASSUME NEW x \in Ops, NEW f, NEW v, NEW kind, CallParser(x, kind, f, v) PROVE nw' > 0
        BY <2>2, PickType DEF CallParser, Spawn
    <2>3. ASSUME NEW x \in RemoveOps, NEW f \in Files, CallRemove(x, f) PROVE nw' > 0
        <3>1. pc'[o] = pc[o] /\ nw' = nw
            BY <1>2, <2>3, OpsAssumption DEF CallRemove, Ops
        <3> QED BY <1>8, <3>1 DEF Fits
    <2>4. ASSUME Cancel PROVE nw' > 0
        BY <1>8, <2>4 DEF Cancel, Fits
    <2>5. CASE HostResult
        <3>1. pc[o] # "idle"
            <4>1. ASSUME NEW p \in Parsers, ParserResult(p) PROVE pc[o] # "idle"
                BY <1>8, <4>1, ParserResultEffect DEF ParserResultOf, Ops
            <4>2. WriterResult => pc[o] # "idle"
                BY <1>8, WriterResultEffect DEF WriterResultOf, Ops, AwaitsWriter
            <4> QED BY <2>5, <4>1, <4>2, NoWriterError DEF HostResult
        <3>2. nw' = nw
            BY <2>5 DEF HostResult, ParserResult, WriterResult, WriterError
        <3> QED BY <3>1, <3>2 DEF Fits
    <2> QED BY <2>1, <2>2, <2>3, <2>4, <2>5 DEF Call, CallReindex, CallReindexContent, Ops
<1> QED BY <1>1, <1>3, <1>4, <1>5, <1>7, <1>8 DEF Fits, FitCell, Stamped

LEMMA WriterKeepsFits ==
    ASSUME TypeOK, Fits, WriterNext, ~OneFailure, UNCHANGED <<parserVars, poolVars>>
    PROVE  Fits'
<1>1. UNCHANGED <<disk, toParser, at, todo, text, canceled, notice, pc, nw, cancels>>
    <2>1. UNCHANGED <<disk, toParser>>
        BY DEF WriterNext, ReceiveApply, TimerFires, WriterRequest, Flush, Remove, ResolveParents,
               Answer, FlushingRequestThrows, StatementThrows, DropIndexes, CreateIndexes
    <2> QED BY <2>1 DEF parserVars, threadVars, poolVars
<1>2. /\ toWriter \in Seq(WriterMsg) /\ batch \in Seq(Entry)
      /\ applyPort \in [Parsers -> Seq(ApplyMsg)]
    BY DEF TypeOK, WiresTypeOK, WriterTypeOK
<1>3. \A i \in DOMAIN toWriter' : Touched(toWriter[i])'
    <2>1. CASE toWriter' = toWriter
        BY <1>1, <2>1 DEF Fits, Touched
    <2>2. CASE toWriter # <<>> /\ toWriter' = Tail(toWriter)
        <3>1. \A i \in DOMAIN Tail(toWriter) : i + 1 \in DOMAIN toWriter /\ Tail(toWriter)[i] = toWriter[i + 1]
            BY <1>2, <2>2, TailCells
        <3> QED BY <1>1, <2>2, <3>1 DEF Fits, Touched
    <2> QED BY <2>1, <2>2, WriterAnswers
<1>4. ASSUME NEW p \in Parsers, ReceiveApply(p) PROVE Stamped'
    <2> DEFINE e == Head(applyPort[p])
               b == [file |-> e.file, ver |-> e.ver, port |-> p]
    <2>1. applyPort[p] # <<>> /\ applyPort' = [applyPort EXCEPT ![p] = Tail(@)]
        BY <1>4 DEF ReceiveApply
    <2>2. applyPort[p] \in Seq(ApplyMsg)
        BY <1>2
    <2>3. /\ 1 \in DOMAIN applyPort[p] /\ e = applyPort[p][1]
          /\ \A i \in DOMAIN Tail(applyPort[p]) :
                i + 1 \in DOMAIN applyPort[p] /\ Tail(applyPort[p])[i] = applyPort[p][i + 1]
        BY <2>1, <2>2, TailCells
    <2>4. e.ver # 0 /\ e \in ApplyMsg
        BY <2>2, <2>3 DEF Fits, Stamped
    <2>5. \A q \in Parsers : \A i \in DOMAIN applyPort'[q] : applyPort'[q][i].ver # 0
        <3>1. applyPort'[p] = Tail(applyPort[p])
            BY <1>2, <2>1
        <3>2. \A q \in Parsers : q # p => applyPort'[q] = applyPort[q]
            BY <1>2, <2>1
        <3>3. \A i \in DOMAIN applyPort'[p] : applyPort'[p][i].ver # 0
            BY <2>3, <3>1 DEF Fits, Stamped
        <3> QED BY <3>2, <3>3 DEF Fits, Stamped
    <2>6. batch' = <<>> \/ batch' = Append(batch, b)
        BY <1>4 DEF ReceiveApply, FlushBatch
    <2>7. b \in Entry /\ b.ver # 0
        BY <2>4 DEF Entry, ApplyMsg
    <2>8. \A i \in DOMAIN Append(batch, b) : Append(batch, b)[i].ver # 0
        <3> HIDE DEF b
        <3>1. \A i \in DOMAIN Append(batch, b) :
                (i \in DOMAIN batch /\ Append(batch, b)[i] = batch[i]) \/ Append(batch, b)[i] = b
            BY <1>2, <2>7, AppendCells
        <3> QED BY <2>7, <3>1 DEF Fits, Stamped
    <2> QED BY <2>5, <2>6, <2>8 DEF Stamped
<1>5. ASSUME TimerFires \/ WriterRequest PROVE Stamped'
    <2>1. UNCHANGED applyPort /\ batch' \in {batch, <<>>}
        BY <1>5 DEF TimerFires, WriterRequest, Flush, Remove, ResolveParents, Answer, FlushBatch,
           FlushingRequestThrows, FlushThrows, StatementThrows, DropIndexes, CreateIndexes
    <2> QED BY <2>1 DEF Fits, Stamped
<1>6. Stamped'
    BY <1>4, <1>5 DEF WriterNext
<1>7. (\A p \in Parsers : \A i \in DOMAIN toParser'[p] : Fit(toParser[p][i])') /\ \A p \in Parsers, o \in Ops : FitCell(p, o)'
    BY <1>1 DEF Fits, Fit, FitCell
<1> QED BY <1>1, <1>3, <1>6, <1>7 DEF Fits

LEMMA HandlerKeepsFits ==
    ASSUME TypeOK, HasFile, Fits, ~OneFailure, NEW p \in Parsers, NEW o \in Ops, HandlerStep(p, o),
           UNCHANGED <<writerVars, poolVars>>
    PROVE  Fits'
<1>1. UNCHANGED <<disk, toParser, toWriter, batch, notice, pc, nw, cancels>>
    BY DEF HandlerStep, Start, BeginFile, PostApply, ParseThrows, Finish, wires, writerVars, poolVars
<1>2. /\ at \in [Parsers -> [Ops -> Places]] /\ todo \in [Parsers -> [Ops -> Seq(Files)]]
      /\ text \in [Parsers -> [Ops -> Version]] /\ applyPort \in [Parsers -> Seq(ApplyMsg)]
      /\ canceled \in [Parsers -> BOOLEAN]
    BY DEF TypeOK, ParsersTypeOK, WiresTypeOK
<1>3. \A q \in Parsers : canceled'[q] => canceled[q]
    BY <1>2 DEF HandlerStep, Start, BeginFile, PostApply, ParseThrows, Finish
<1>4. ASSUME NEW q \in Parsers, NEW x \in Ops, q # p \/ x # o PROVE FitCell(q, x)'
    <2>1. at'[q][x] = at[q][x] /\ todo'[q][x] = todo[q][x] /\ text'[q][x] = text[q][x]
        BY <1>2, <1>4 DEF HandlerStep, Start, BeginFile, PostApply, ParseThrows, Finish, Reply, Move
    <2> QED BY <2>1 DEF Fits, FitCell
<1>5. FitCell(p, o)
    BY DEF Fits
<1>6. FitCell(p, o)'
    <2>1. CASE Start(p, o)
        BY <1>2, <1>5, <2>1 DEF Start, Move, FitCell
    <2>2. CASE BeginFile(p, o)
        <3> DEFINE f == Head(todo[p][o])
        <3>1. todo[p][o] \in Seq(Files) /\ todo[p][o] # <<>>
            BY <1>2, <2>2 DEF BeginFile
        <3>2. CASE disk[f] = 0 /\ o \notin LiveOps /\ todo' = [todo EXCEPT ![p][o] = Tail(@)] /\ UNCHANGED <<at, text>>
            <4>1. todo'[p][o] = Tail(todo[p][o]) /\ Len(Tail(todo[p][o])) = Len(todo[p][o]) - 1 /\ Len(todo[p][o]) \in Nat
                BY <1>2, <3>1, <3>2
            <4> QED BY <1>5, <2>2, <3>2, <4>1 DEF FitCell, BeginFile
        <3>3. CASE /\ disk[f] # 0 \/ o \in LiveOps
                   /\ text' = [text EXCEPT ![p][o] = IF o \in LiveOps THEN @ ELSE disk[f]]
                   /\ UNCHANGED todo
            <4>1. text'[p][o] # 0
                BY <1>2, <1>5, <3>1, <3>3 DEF FitCell
            <4> QED BY <1>5, <3>3, <4>1 DEF FitCell
        <3> QED BY <2>2, <3>2, <3>3 DEF BeginFile
    <2>3. CASE PostApply(p, o)
        <3>1. todo[p][o] \in Seq(Files) /\ todo[p][o] # <<>>
            BY <1>2, <2>3 DEF PostApply, HasFile
        <3>2. at'[p][o] \in {"go", "wait"} /\ todo'[p][o] = Tail(todo[p][o])
            BY <1>2, <2>3 DEF PostApply, Move
        <3>3. Len(Tail(todo[p][o])) = Len(todo[p][o]) - 1 /\ Len(todo[p][o]) \in Nat
              /\ Tail(todo[p][o]) \in Seq(Files)
            BY <3>1
        <3>4. o \in Small => Tail(todo[p][o]) = <<>>
            <4> DEFINE t == Tail(todo[p][o])
            <4> SUFFICES ASSUME o \in Small PROVE t = <<>>
                OBVIOUS
            <4>1. t \in Seq(Files) /\ Len(t) \in Nat /\ Len(t) <= 0
                BY <1>5, <3>3 DEF FitCell
            <4> HIDE DEF t
            <4> QED BY <4>1, EmptySeq
        <3> QED BY <1>5, <3>2, <3>3, <3>4 DEF FitCell, Small
    <2>4. CASE Finish(p, o)
        BY <1>2, <2>4 DEF Finish, Reply, Move, FitCell
    <2>5. ~ParseThrows(p, o)
        BY DEF ParseThrows
    <2> QED BY <2>1, <2>2, <2>3, <2>4, <2>5 DEF HandlerStep
<1>7. \A q \in Parsers : \A i \in DOMAIN applyPort'[q] : applyPort'[q][i].ver # 0
    <2>1. CASE UNCHANGED applyPort
        BY <2>1 DEF Fits, Stamped
    <2>2. CASE PostApply(p, o)
        <3> DEFINE e == [file |-> Head(todo[p][o]), ver |-> text[p][o]]
        <3>1. todo[p][o] \in Seq(Files) /\ todo[p][o] # <<>> /\ text[p][o] \in Version /\ text[p][o] # 0
            BY <1>2, <1>5, <2>2 DEF PostApply, HasFile, FitCell
        <3>2. e \in ApplyMsg /\ e.ver # 0
            BY <3>1 DEF ApplyMsg
        <3>3. applyPort'[p] = Append(applyPort[p], e) /\ \A q \in Parsers : q # p => applyPort'[q] = applyPort[q]
            BY <1>2, <2>2 DEF PostApply
        <3> HIDE DEF e
        <3>4. \A i \in DOMAIN Append(applyPort[p], e) :
                (i \in DOMAIN applyPort[p] /\ Append(applyPort[p], e)[i] = applyPort[p][i])
                \/ Append(applyPort[p], e)[i] = e
            BY <1>2, <3>2, AppendCells
        <3> QED BY <3>2, <3>3, <3>4 DEF Fits, Stamped
    <2> QED BY <2>1, <2>2 DEF HandlerStep, Start, BeginFile, ParseThrows, Finish, wires
<1>8. Stamped'
    BY <1>1, <1>7 DEF Fits, Stamped
<1>9. \A q \in Parsers, x \in Ops : FitCell(q, x)'
    BY <1>4, <1>6
<1>10. \A q \in Parsers : \A i \in DOMAIN toParser'[q] : Fit(toParser[q][i])'
    BY <1>1 DEF Fits, Fit
<1>11. \A i \in DOMAIN toWriter' : Touched(toWriter[i])'
    BY <1>1 DEF Fits, Touched
<1>12. \A q \in Parsers : canceled'[q] => cancels' # 0
    BY <1>1, <1>3 DEF Fits
<1>13. (\A f \in Files : notice'[f] # "none" => disk'[f] # 1) /\ \A x \in BulkOps : pc'[x] # "idle" => nw' > 0
    BY <1>1 DEF Fits
<1> QED BY <1>8, <1>9, <1>10, <1>11, <1>12, <1>13 DEF Fits

LEMMA LoopKeepsFits ==
    ASSUME TypeOK, HasFile, NoMissedWakeup, Fits, NEW p \in Parsers, LoopTurn(p), UNCHANGED <<writerVars, poolVars>>
    PROVE  Fits'
<1>1. UNCHANGED <<disk, toWriter, batch, applyPort, notice, pc, nw, cancels>>
    BY DEF LoopTurn, ReceiveRequest, RuntimeReady, GrammarLoaded, ReceiveAck, wires, writerVars, poolVars
<1>2. /\ at \in [Parsers -> [Ops -> Places]] /\ todo \in [Parsers -> [Ops -> Seq(Files)]]
      /\ text \in [Parsers -> [Ops -> Version]] /\ toParser \in [Parsers -> Seq(ParserMsg)]
      /\ canceled \in [Parsers -> BOOLEAN]
    BY DEF TypeOK, ParsersTypeOK, WiresTypeOK
<1>3. CASE ReceiveRequest(p)
    <2> DEFINE m == Head(toParser[p])
    <2>1. toParser[p] # <<>> /\ toParser' = [toParser EXCEPT ![p] = Tail(@)]
        BY <1>3 DEF ReceiveRequest
    <2>2. /\ 1 \in DOMAIN toParser[p] /\ m = toParser[p][1]
          /\ \A i \in DOMAIN Tail(toParser[p]) :
                i + 1 \in DOMAIN toParser[p] /\ Tail(toParser[p])[i] = toParser[p][i + 1]
        BY <1>2, <2>1, TailCells
    <2>3. Fit(m) /\ m \in ParserMsg
        BY <1>2, <2>2 DEF Fits
    <2>4. ASSUME NEW q \in Parsers, NEW i \in DOMAIN toParser'[q] PROVE Fit(toParser[q][i])'
        <3>1. toParser'[p] = Tail(toParser[p]) /\ \A r \in Parsers : r # p => toParser'[r] = toParser[r]
            BY <1>2, <2>1
        <3>2. \E k \in DOMAIN toParser[q] : toParser'[q][i] = toParser[q][k]
            <4>1. CASE q = p
                <5>1. i \in DOMAIN Tail(toParser[p]) /\ toParser'[q][i] = Tail(toParser[p])[i]
                    BY <2>4, <3>1, <4>1
                <5> QED BY <2>2, <4>1, <5>1
            <4>2. CASE q # p
                BY <2>4, <3>1, <4>2
            <4> QED BY <4>1, <4>2
        <3> QED BY <1>1, <3>2 DEF Fits, Fit
    <2>5. ASSUME NEW q \in Parsers, canceled'[q] PROVE cancels' # 0
        <3>1. canceled[q] \/ (q = p /\ m.kind = "cancel")
            BY <1>2, <1>3, <2>5 DEF ReceiveRequest
        <3> QED BY <1>1, <2>3, <3>1 DEF Fits, Fit
    <2>6. ASSUME NEW q \in Parsers, NEW x \in Ops PROVE FitCell(q, x)'
        <3>1. CASE UNCHANGED <<at, todo, text>>
            BY <3>1 DEF Fits, FitCell
        <3>2. CASE /\ m.kind # "cancel" /\ Move(p, m.op, IF ready[p] THEN "start" ELSE "ready")
                   /\ todo' = [todo EXCEPT ![p][m.op] = m.files]
                   /\ text' = [text EXCEPT ![p][m.op] = m.ver]
            <4>1. PICK o \in Ops : o = m.op
                BY <2>3, <3>2 DEF ParserMsg, Calls, CancelMsg
            <4>2. CASE q = p /\ x = o
                <5>1. at'[p][o] \in {"start", "ready"} /\ todo'[p][o] = m.files /\ text'[p][o] = m.ver
                    BY <1>2, <3>2, <4>1 DEF Move
                <5>2. (o \in Small => Len(m.files) = 1) /\ (o \in LiveOps => m.ver # 0)
                    BY <2>3, <4>1 DEF Fit
                <5>3. (o \in Small => Len(todo'[p][o]) <= 1) /\ (o \in LiveOps => text'[p][o] # 0)
                    <6> DEFINE n == Len(todo'[p][o])
                    <6>1. o \in Small => n = 1
                        BY <5>1, <5>2
                    <6>2. o \in LiveOps => text'[p][o] # 0
                        BY <5>1, <5>2
                    <6> HIDE DEF n
                    <6>3. o \in Small => n <= 1
                        BY <6>1
                    <6> QED BY <6>2, <6>3 DEF n
                <5>4. at'[p][o] \notin {"load", "parse"}
                    BY <5>1
                <5> QED BY <4>2, <5>3, <5>4 DEF FitCell
            <4>3. CASE q # p \/ x # o
                <5>1. at'[q][x] = at[q][x] /\ todo'[q][x] = todo[q][x] /\ text'[q][x] = text[q][x]
                    BY <1>2, <3>2, <4>1, <4>3 DEF Move
                <5> QED BY <5>1 DEF Fits, FitCell
            <4> QED BY <4>2, <4>3
        <3> QED BY <1>3, <3>1, <3>2 DEF ReceiveRequest
    <2> QED BY <1>1, <2>4, <2>5, <2>6 DEF Fits, Stamped, Touched
<1>4. CASE RuntimeReady(p) \/ (\E o \in Ops : GrammarLoaded(p, o)) \/ ReceiveAck(p)
    <2>1. UNCHANGED <<toParser, todo, text, canceled>>
        BY <1>4 DEF RuntimeReady, GrammarLoaded, ReceiveAck, wires
    <2>2. ASSUME NEW q \in Parsers, NEW x \in Ops, at'[q][x] \in {"load", "parse"}
          PROVE  at[q][x] \in {"load", "parse"}
        <3>1. CASE RuntimeReady(p)
            BY <1>2, <2>2, <3>1 DEF RuntimeReady
        <3>2. ASSUME NEW o \in Ops, GrammarLoaded(p, o) PROVE at[q][x] \in {"load", "parse"}
            BY <1>2, <2>2, <3>2 DEF GrammarLoaded, Move
        <3>3. CASE ReceiveAck(p)
            <4>1. at' = at \/ (at' = [at EXCEPT ![p][waitResolve[p]] = "go"] /\ waitResolve[p] # NoOp)
                BY <3>3 DEF ReceiveAck, Wakes, Move
            <4>2. CASE at' = at
                BY <2>2, <4>2
            <4>3. CASE at' = [at EXCEPT ![p][waitResolve[p]] = "go"] /\ waitResolve[p] # NoOp
                <5>1. PICK w \in Ops : w = waitResolve[p]
                    BY <4>3 DEF TypeOK, ParsersTypeOK
                <5>2. at'[p][w] = "go" /\ (q # p \/ x # w => at'[q][x] = at[q][x])
                    BY <1>2, <4>3, <5>1
                <5> QED BY <2>2, <5>2
            <4> QED BY <4>1, <4>2, <4>3
        <3> QED BY <1>4, <3>1, <3>2, <3>3
    <2>3. \A q \in Parsers, x \in Ops : FitCell(q, x)'
        BY <2>1, <2>2 DEF Fits, FitCell
    <2> QED BY <1>1, <2>1, <2>3 DEF Fits, Stamped, Touched, Fit
<1> QED BY <1>3, <1>4 DEF LoopTurn

LEMMA WorkspaceKeepsFits ==
    ASSUME TypeOK, Fits, NEW g \in Files, Workspace(g)
    PROVE  Fits'
<1>1. UNCHANGED <<toParser, toWriter, applyPort, batch, at, todo, text, canceled, pc, nw, cancels>>
    BY DEF Workspace, writerVars, parserVars, threadVars
<1>2. /\ edits \in Nat /\ disk \in [Files -> Version] /\ toWriter \in Seq(WriterMsg)
      /\ notice \in [Files -> {"none", "change", "delete"}]
    BY DEF TypeOK, WiresTypeOK, PoolTypeOK
<1>3. disk'[g] # 1 /\ \A f \in Files : f # g => disk'[f] = disk[f] /\ notice'[f] = notice[f]
    BY <1>2 DEF Workspace, ChangeFile, DeleteFile
<1>4. \A f \in Files : notice'[f] # "none" => disk'[f] # 1
    BY <1>3 DEF Fits
<1>5. ASSUME NEW i \in DOMAIN toWriter' PROVE Touched(toWriter[i])'
    <2>1. toWriter[i] \in WriterMsg /\ Touched(toWriter[i])
        BY <1>1, <1>2, <1>5 DEF Fits
    <2>2. \A k \in DOMAIN toWriter[i].files : toWriter[i].files[k] \in Files
        BY <2>1 DEF WriterMsg
    <2> QED BY <1>1, <1>3, <2>1, <2>2 DEF Touched
<1> QED BY <1>1, <1>4, <1>5 DEF Fits, Fit, FitCell, Stamped

LEMMA FitInvariance == Spec => []FitInv
<1>1. Init => FitInv
    BY DEF Init, WiresInit, WriterInit, ParsersInit, PoolInit, FitInv, Fits, Fit, FitCell, Stamped, Touched, Ops
<1>2. TypeInv /\ SendInv /\ TalkInv /\ FitInv /\ [Next]_vars => FitInv'
    <2> SUFFICES ASSUME TypeInv, SendInv, TalkInv, FitInv, [Next]_vars, fails' = 0 PROVE Fits'
        BY DEF FitInv
    <2>1. TypeOK /\ HasFile /\ NoMissedWakeup
        BY DEF TypeInv, SendInv
    <2>2. fails = 0 /\ ~OneFailure
        BY <2>1, NoFailure
    <2>3. Calm /\ (\A x \in Ops : Talks(x)) /\ Fits
        BY <2>2 DEF TalkInv, FitInv
    <2>4. CASE ParsersNext /\ UNCHANGED <<writerVars, poolVars>>
        <3>1. PICK p \in Parsers : LoopTurn(p) \/ (\E o \in Ops : HandlerStep(p, o)) \/ ParserDies(p)
            BY <2>4 DEF ParsersNext
        <3>2. ~ParserDies(p)
            BY <2>2 DEF ParserDies
        <3> QED BY <2>1, <2>2, <2>3, <2>4, <3>1, <3>2, HandlerKeepsFits, LoopKeepsFits
    <2>5. CASE UNCHANGED vars
        BY <2>3, <2>5 DEF vars, wires, writerVars, parserVars, threadVars, poolVars,
                          Fits, Fit, FitCell, Stamped, Touched
    <2> QED BY <2>1, <2>2, <2>3, <2>4, <2>5, HostKeepsFits, WriterKeepsFits, WorkspaceKeepsFits DEF Next
<1> QED BY <1>1, <1>2, TypeInvariance, SendInvariance, TalkInvariance, PTL DEF Spec

----------------------------------------------------------------------------
(* No file of a run is lost. Each file indexAll was given is somewhere at every *)
(* moment: in a request to a parser, on a handler's list, in a port or the     *)
(* batch, or in the tables.                                                    *)

In(f, s) == \E k \in DOMAIN s : s[k] = f

\* f is to be read by p for o.
Pending(p, o, f) ==
    \/ \E i \in DOMAIN toParser[p] : toParser[p][i].op = o /\ In(f, toParser[p][i].files)
    \/ at[p][o] # "none" /\ In(f, todo[p][o])

Kept(f) == rows[f] # 0 \/ OnItsWay(f)

Covered(o, f) == disk[f] = 1 => Kept(f) \/ \E p \in Parsers : Pending(p, o, f)

Parsed == {"parse", "flush", "create", "resolve", "done"}

Cover == \A o \in BulkOps : pc[o] \in Parsed => \A i \in DOMAIN files[o] : Covered(o, files[o][i])

CoverInv == fails = 0 /\ cancels = 0 => Cover

\* Index i of a list of L items over n workers is the k-th item of worker p.
LEMMA RoundRobin ==
    ASSUME NEW n \in Nat \ {0}, NEW L \in Nat, NEW i \in 1..L
    PROVE  \E p \in 1..n : \E k \in 1 .. (L - p + n) \div n : p + (k - 1) * n = i
<1>1. PICK q \in Nat : q * n <= i - 1 /\ i - 1 < q * n + n
    <2>1. \A m \in Nat : m \div n \in Nat /\ (m \div n) * n <= m /\ m < (m \div n) * n + n
        BY SMT
    <2>2. PICK m \in Nat : m = i - 1
        OBVIOUS
    <2>3. \E q \in Nat : q * n <= m /\ m < q * n + n
        BY <2>1, Zenon
    <2> QED BY <2>2, <2>3
<1> DEFINE p == i - q * n
           k == q + 1
<1>2. q * n \in Nat /\ k * n = q * n + n /\ (k - 1) * n = q * n
    BY SMT
<1>3. p \in 1..n /\ p + (k - 1) * n = i
    BY <1>1, <1>2
<1>4. L - p + n \in Nat /\ k * n <= L - p + n
    BY <1>1, <1>2
<1>5. k \in 1 .. (L - p + n) \div n
    <2>1. \A m \in Nat, j \in Nat : j * n <= m => j <= m \div n
        BY SMT
    <2>2. \A m \in Nat : m \div n \in Nat
        BY SMT
    <2>3. k \in Nat \ {0}
        OBVIOUS
    <2> HIDE DEF p, k
    <2> QED BY <1>4, <2>1, <2>2, <2>3
<1> HIDE DEF p, k
<1> QED BY <1>3, <1>5

\* The round-robin shards of a list cover it.
LEMMA ShardsCover ==
    ASSUME NEW s \in Seq(Files), NEW n \in Nat \ {0}, NEW i \in DOMAIN s
    PROVE  \E p \in ShardOwners(s, n) : In(s[i], Shard(s, n, p))
<1>1. i \in 1 .. Len(s) /\ Len(s) \in Nat
    OBVIOUS
<1>2. PICK p \in 1..n : \E k \in 1 .. (Len(s) - p + n) \div n : p + (k - 1) * n = i
    BY <1>1, RoundRobin
<1>3. PICK k \in 1 .. (Len(s) - p + n) \div n : p + (k - 1) * n = i
    BY <1>2
<1>4. k \in DOMAIN Shard(s, n, p) /\ Shard(s, n, p)[k] = s[i]
    BY <1>3 DEF Shard
<1>5. Shard(s, n, p) # <<>>
    BY <1>4
<1> QED BY <1>4, <1>5 DEF ShardOwners, In

\* A transaction of entries with content leaves rows of each of their files, and no
\* other file loses its own.
LEMMA WrittenKept ==
    ASSUME NEW b \in Seq(Entry), \A i \in DOMAIN b : b[i].ver # 0, NEW f \in Files,
           f \in FilesOf(b) \/ rows[f] # 0
    PROVE  Written(b)[f] # 0
<1>1. CASE f \notin FilesOf(b)
    BY <1>1 DEF Written
<1>2. CASE f \in FilesOf(b)
    <2> DEFINE is == {i \in DOMAIN b : b[i].file = f}
    <2>1. is \in SUBSET (1..Len(b)) /\ is # {} /\ Len(b) \in Nat
        BY <1>2 DEF FilesOf
    <2>2. \E i \in is : \A j \in is : j <= i
        BY <2>1, LastIndex, Zenon
    <2>3. (CHOOSE i \in is : \A j \in is : j <= i) \in is
        BY <2>2, Zenon
    <2>4. LastVer(b, f) # 0
        BY <2>3 DEF LastVer
    <2> QED BY <1>2, <2>4 DEF Written
<1> QED BY <1>1, <1>2

\* The writer takes an entry from a port into its batch, and the batch into the tables;
\* it removes no file that is as it was.
LEMMA WriterKeepsKept ==
    ASSUME TypeOK, Fits, WriterNext, ~OneFailure, NEW f \in Files, disk[f] = 1, Kept(f)
    PROVE  Kept(f)'
<1>1. /\ batch \in Seq(Entry) /\ applyPort \in [Parsers -> Seq(ApplyMsg)]
      /\ toWriter \in Seq(WriterMsg)
    BY DEF TypeOK, WiresTypeOK, WriterTypeOK
<1>2. /\ \A i \in DOMAIN batch : batch[i].ver # 0
      /\ \A p \in Parsers : \A i \in DOMAIN applyPort[p] : applyPort[p][i].ver # 0
    BY DEF Fits, Stamped
<1>3. f \in FilesOf(batch) \/ rows[f] # 0 => Written(batch)[f] # 0
    BY <1>1, <1>2, WrittenKept
<1>4. ASSUME NEW p \in Parsers, ReceiveApply(p) PROVE Kept(f)'
    <2> DEFINE e == Head(applyPort[p])
               m == [file |-> e.file, ver |-> e.ver, port |-> p]
               b == Append(batch, m)
    <2>1. applyPort[p] # <<>> /\ applyPort' = [applyPort EXCEPT ![p] = Tail(@)]
        BY <1>4 DEF ReceiveApply
    <2>2. applyPort[p] \in Seq(ApplyMsg)
        BY <1>1
    <2>3. /\ 1 \in DOMAIN applyPort[p] /\ e = applyPort[p][1]
          /\ \A i \in DOMAIN applyPort[p] :
                applyPort[p][i] = e \/ \E k \in DOMAIN Tail(applyPort[p]) : Tail(applyPort[p])[k] = applyPort[p][i]
        BY <2>1, <2>2, TailCells
    <2>4. m \in Entry /\ m.ver # 0 /\ m.file = e.file
        <3>1. e \in ApplyMsg /\ e.ver # 0
            BY <1>2, <2>2, <2>3
        <3> QED BY <3>1 DEF ApplyMsg, Entry
    <2>5. /\ b \in Seq(Entry)
          /\ \A i \in DOMAIN b : b[i].ver # 0
          /\ m.file \in FilesOf(b) /\ FilesOf(batch) \subseteq FilesOf(b)
        <3> HIDE DEF m
        <3>1. /\ \A i \in DOMAIN b : (i \in DOMAIN batch /\ b[i] = batch[i]) \/ b[i] = m
              /\ \A i \in DOMAIN batch : i \in DOMAIN b /\ b[i] = batch[i]
              /\ \E i \in DOMAIN b : b[i] = m
            <4>1. batch \in Seq(Entry) /\ m \in Entry
                BY <1>1, <2>4
            <4> QED BY <4>1, AppendCells
        <3>2. b \in Seq(Entry)
            BY <1>1, <2>4
        <3> HIDE DEF b
        <3> QED BY <1>2, <2>4, <3>1, <3>2 DEF FilesOf
    <2> HIDE DEF m, b
    <2>6. f \in FilesOf(b) \/ rows[f] # 0 \/ \E q \in Parsers : \E i \in DOMAIN applyPort'[q] : applyPort'[q][i].file = f
        <3>1. applyPort'[p] = Tail(applyPort[p]) /\ \A q \in Parsers : q # p => applyPort'[q] = applyPort[q]
            BY <1>1, <2>1
        <3>2. ASSUME NEW q \in Parsers, NEW i \in DOMAIN applyPort[q], applyPort[q][i].file = f
              PROVE  f \in FilesOf(b) \/ \E r \in Parsers : \E k \in DOMAIN applyPort'[r] : applyPort'[r][k].file = f
            <4>1. CASE q # p
                BY <3>1, <3>2, <4>1
            <4>2. CASE q = p /\ applyPort[p][i] = e
                BY <2>4, <2>5, <3>2, <4>2
            <4>3. ASSUME q = p, NEW k \in DOMAIN Tail(applyPort[p]), Tail(applyPort[p])[k] = applyPort[p][i]
                  PROVE  \E r \in Parsers : \E j \in DOMAIN applyPort'[r] : applyPort'[r][j].file = f
                BY <3>1, <3>2, <4>3
            <4> QED BY <2>3, <4>1, <4>2, <4>3
        <3> QED BY <2>5, <3>2 DEF Kept, OnItsWay
    <2>7. CASE batch' = b /\ UNCHANGED rows
        BY <2>6, <2>7 DEF Kept, OnItsWay
    <2>8. CASE rows' = Written(b)
        <3>1. f \in FilesOf(b) \/ rows[f] # 0 => Written(b)[f] # 0
            BY <2>5, WrittenKept
        <3> QED BY <2>6, <2>8, <3>1 DEF Kept, OnItsWay
    <2> QED BY <1>4, <2>7, <2>8 DEF ReceiveApply, b, m
<1>5. CASE Remove
    <2>1. toWriter # <<>> /\ UNCHANGED <<applyPort>> /\ Head(toWriter).kind = "remove"
          /\ rows' = [g \in Files |-> IF g \in RequestFiles THEN 0 ELSE Written(batch)[g]]
        BY <1>5 DEF Remove, Request, Answer
    <2>2. 1 \in DOMAIN toWriter /\ Head(toWriter) = toWriter[1]
        BY <1>1, <2>1, TailCells
    <2>3. Touched(Head(toWriter))
        BY <2>2 DEF Fits
    <2>4. f \notin RequestFiles
        BY <2>1, <2>3 DEF Touched, RequestFiles
    <2> QED BY <1>3, <2>1, <2>4 DEF Kept, OnItsWay
<1>6. CASE UNCHANGED <<rows, batch, applyPort>> \/ (rows' = Written(batch) /\ UNCHANGED applyPort)
    BY <1>3, <1>6 DEF Kept, OnItsWay
<1>7. CASE TimerFires \/ WriterRequest
    BY <1>5, <1>6, <1>7 DEF TimerFires, WriterRequest, Flush, ResolveParents, Answer, FlushingRequestThrows,
       FlushThrows, StatementThrows, DropIndexes, CreateIndexes
<1> QED BY <1>4, <1>7 DEF WriterNext

LEMMA WriterKeepsCover ==
    ASSUME TypeOK, Fits, Cover, WriterNext, ~OneFailure, UNCHANGED <<parserVars, poolVars>>
    PROVE  Cover'
<1>1. UNCHANGED <<disk, toParser, at, todo, pc, files>>
    <2>1. UNCHANGED <<disk, toParser>>
        BY DEF WriterNext, ReceiveApply, TimerFires, WriterRequest, Flush, Remove, ResolveParents,
               Answer, FlushingRequestThrows, StatementThrows, DropIndexes, CreateIndexes
    <2> QED BY <2>1 DEF parserVars, threadVars, poolVars
<1>2. \A p \in Parsers, o \in Ops, f \in Files : Pending(p, o, f)' <=> Pending(p, o, f)
    BY <1>1 DEF Pending, In
<1>3. \A o \in BulkOps : \A i \in DOMAIN files[o] : files[o][i] \in Files /\ o \in Ops
    BY DEF TypeOK, PoolTypeOK, Ops
<1>4. ASSUME NEW o \in BulkOps, NEW f \in Files, Covered(o, f) PROVE Covered(o, f)'
    <2>1. o \in Ops
        BY DEF Ops
    <2> QED BY <1>1, <1>2, <1>4, <2>1, WriterKeepsKept DEF Covered
<1> QED BY <1>1, <1>3, <1>4 DEF Cover

LEMMA TailIn ==
    ASSUME NEW s \in Seq(Files), s # <<>>, NEW f, In(f, s), f # Head(s)
    PROVE  In(f, Tail(s))
BY TailCells DEF In

\* A handler posts an entry of the file it takes off its list, and skips only a file
\* that is not there; it returns with files left on its list only when canceled.
LEMMA HandlerKeepsPending ==
    ASSUME TypeOK, HasFile, Fits, cancels = 0, ~OneFailure, NEW p \in Parsers, NEW o \in Ops,
           HandlerStep(p, o), NEW q \in Parsers, NEW x \in BulkOps, NEW f \in Files,
           disk[f] = 1, Pending(q, x, f)
    PROVE  Pending(q, x, f)' \/ \E i \in DOMAIN applyPort'[p] : applyPort'[p][i].file = f
<1>1. UNCHANGED toParser
    BY DEF HandlerStep, Start, BeginFile, PostApply, ParseThrows, Finish, wires
<1>2. /\ at \in [Parsers -> [Ops -> Places]] /\ todo \in [Parsers -> [Ops -> Seq(Files)]]
      /\ text \in [Parsers -> [Ops -> Version]] /\ applyPort \in [Parsers -> Seq(ApplyMsg)]
      /\ x \in Ops
    BY DEF TypeOK, ParsersTypeOK, WiresTypeOK, Ops
<1>3. CASE q # p \/ x # o
    <2>1. at'[q][x] = at[q][x] /\ todo'[q][x] = todo[q][x]
        BY <1>2, <1>3 DEF HandlerStep, Start, BeginFile, PostApply, ParseThrows, Finish, Reply, Move
    <2> QED BY <1>1, <2>1 DEF Pending
<1>4. CASE q = p /\ x = o /\ at[p][o] # "none" /\ In(f, todo[p][o])
    <2>1. todo[p][o] \in Seq(Files) /\ todo[p][o] # <<>>
        BY <1>2, <1>4 DEF In
    <2>2. CASE Start(p, o)
        BY <1>2, <1>4, <2>2 DEF Start, Move, Pending
    <2>3. CASE BeginFile(p, o)
        <3>1. CASE disk[Head(todo[p][o])] = 0 /\ todo' = [todo EXCEPT ![p][o] = Tail(@)] /\ UNCHANGED at
            <4>1. In(f, Tail(todo[p][o]))
                BY <1>4, <2>1, <3>1, TailIn
            <4>2. todo'[p][o] = Tail(todo[p][o])
                BY <1>2, <3>1
            <4> QED BY <1>4, <3>1, <4>1, <4>2 DEF Pending
        <3>2. CASE UNCHANGED todo /\ Move(p, o, IF HasParser(p, Head(todo[p][o])) THEN "parse" ELSE "load")
            BY <1>2, <1>4, <3>2 DEF Move, Pending
        <3> QED BY <2>3, <3>1, <3>2 DEF BeginFile
    <2>4. CASE PostApply(p, o)
        <3> DEFINE e == [file |-> Head(todo[p][o]), ver |-> text[p][o]]
        <3>1. e \in ApplyMsg /\ e.file = Head(todo[p][o])
            BY <1>2, <2>1 DEF ApplyMsg
        <3>2. applyPort'[p] = Append(applyPort[p], e)
            BY <1>2, <2>4 DEF PostApply
        <3>3. at'[p][o] \in {"go", "wait"} /\ todo'[p][o] = Tail(todo[p][o])
            BY <1>2, <2>4 DEF PostApply, Move
        <3> HIDE DEF e
        <3>4. \E i \in DOMAIN applyPort'[p] : applyPort'[p][i] = e
            <4>1. applyPort[p] \in Seq(ApplyMsg)
                BY <1>2
            <4>2. \E i \in DOMAIN Append(applyPort[p], e) : Append(applyPort[p], e)[i] = e
                BY <3>1, <4>1, AppendCells
            <4> QED BY <3>2, <4>2
        <3>5. CASE f = Head(todo[p][o])
            BY <3>1, <3>4, <3>5
        <3>6. CASE f # Head(todo[p][o])
            <4>1. In(f, Tail(todo[p][o]))
                BY <1>4, <2>1, <3>6, TailIn
            <4> QED BY <1>4, <3>3, <4>1 DEF Pending
        <3> QED BY <3>5, <3>6
    <2>5. ~Finish(p, o)
        BY <2>1 DEF Finish, Fits
    <2>6. ~ParseThrows(p, o)
        BY DEF ParseThrows
    <2> QED BY <2>2, <2>3, <2>4, <2>5, <2>6 DEF HandlerStep
<1>5. CASE \E i \in DOMAIN toParser[q] : toParser[q][i].op = x /\ In(f, toParser[q][i].files)
    BY <1>1, <1>5 DEF Pending
<1> QED BY <1>3, <1>4, <1>5 DEF Pending

\* A thread that takes a request has its files on the handler's list; it had no
\* handler of that op.
LEMMA LoopKeepsPending ==
    ASSUME TypeOK, SentOnce, NEW p \in Parsers, LoopTurn(p), NEW q \in Parsers, NEW x \in Ops,
           NEW f \in Files, Pending(q, x, f)
    PROVE  Pending(q, x, f)'
<1>2. /\ at \in [Parsers -> [Ops -> Places]] /\ todo \in [Parsers -> [Ops -> Seq(Files)]]
      /\ text \in [Parsers -> [Ops -> Version]] /\ toParser \in [Parsers -> Seq(ParserMsg)]
      /\ waitResolve \in [Parsers -> Ops \cup {NoOp}]
    BY DEF TypeOK, ParsersTypeOK, WiresTypeOK
<1>3. CASE ReceiveRequest(p)
    <2> DEFINE m == Head(toParser[p])
    <2>1. toParser[p] # <<>> /\ toParser' = [toParser EXCEPT ![p] = Tail(@)]
        BY <1>3 DEF ReceiveRequest
    <2>2. /\ 1 \in DOMAIN toParser[p] /\ m = toParser[p][1]
          /\ \A i \in DOMAIN toParser[p] :
                toParser[p][i] = m \/ \E k \in DOMAIN Tail(toParser[p]) : Tail(toParser[p])[k] = toParser[p][i]
        BY <1>2, <2>1, TailCells
    <2>3. toParser'[p] = Tail(toParser[p]) /\ \A r \in Parsers : r # p => toParser'[r] = toParser[r]
        BY <1>2, <2>1
    <2>4. m \in ParserMsg
        BY <1>2, <2>2
    <2>5. ASSUME NEW i \in DOMAIN toParser[q]
          PROVE  \/ q = p /\ toParser[p][i] = m
                 \/ \E k \in DOMAIN toParser'[q] : toParser'[q][k] = toParser[q][i]
        <3>1. CASE q = p
            BY <2>2, <2>3, <2>5, <3>1
        <3>2. CASE q # p
            BY <2>3, <2>5, <3>2
        <3> QED BY <3>1, <3>2
    <2>6. CASE m.kind = "cancel"
        <3>1. UNCHANGED <<at, todo>>
            BY <1>3, <2>6 DEF ReceiveRequest
        <3>2. m.op # x
            BY <2>4, <2>6, OpsAssumption DEF ParserMsg, Calls, CancelMsg
        <3>3. ASSUME NEW i \in DOMAIN toParser[q], toParser[q][i].op = x, In(f, toParser[q][i].files)
              PROVE  \E k \in DOMAIN toParser'[q] : toParser'[q][k] = toParser[q][i]
            BY <2>5, <3>2, <3>3
        <3> QED BY <3>1, <3>3 DEF Pending
    <2>7. CASE m.kind # "cancel"
        <3>1. PICK o \in Ops : o = m.op
            BY <2>4, <2>7 DEF ParserMsg, Calls, CancelMsg
        <3>2. /\ Move(p, o, IF ready[p] THEN "start" ELSE "ready")
              /\ todo' = [todo EXCEPT ![p][o] = m.files]
            BY <1>3, <2>7, <3>1 DEF ReceiveRequest
        <3>3. at[p][o] = "none"
            BY <2>2, <3>1 DEF SentOnce, SentOnceTo, Asked
        <3>4. at'[p][o] # "none" /\ todo'[p][o] = m.files
            BY <1>2, <3>2 DEF Move
        <3>5. \A r \in Parsers, y \in Ops : r # p \/ y # o => at'[r][y] = at[r][y] /\ todo'[r][y] = todo[r][y]
            BY <1>2, <3>2 DEF Move
        <3>6. CASE at[q][x] # "none" /\ In(f, todo[q][x])
            BY <3>3, <3>5, <3>6 DEF Pending
        <3>7. ASSUME NEW i \in DOMAIN toParser[q], toParser[q][i].op = x, In(f, toParser[q][i].files)
              PROVE  Pending(q, x, f)'
            <4>1. CASE q = p /\ toParser[p][i] = m
                BY <3>1, <3>4, <3>7, <4>1 DEF Pending
            <4>2. CASE \E k \in DOMAIN toParser'[q] : toParser'[q][k] = toParser[q][i]
                BY <3>7, <4>2 DEF Pending
            <4> QED BY <2>5, <4>1, <4>2
        <3> QED BY <3>6, <3>7 DEF Pending
    <2> QED BY <2>6, <2>7
<1>4. CASE RuntimeReady(p) \/ (\E o \in Ops : GrammarLoaded(p, o)) \/ ReceiveAck(p)
    <2>1. UNCHANGED <<toParser, todo>>
        BY <1>4 DEF RuntimeReady, GrammarLoaded, ReceiveAck, wires
    <2>2. at[q][x] # "none" => at'[q][x] # "none"
        <3>1. CASE RuntimeReady(p)
            BY <1>2, <3>1 DEF RuntimeReady
        <3>2. ASSUME NEW o \in Ops, GrammarLoaded(p, o) PROVE at[q][x] # "none" => at'[q][x] # "none"
            BY <1>2, <3>2 DEF GrammarLoaded, Move
        <3>3. CASE ReceiveAck(p)
            <4>1. at' = at \/ at' = [at EXCEPT ![p][waitResolve[p]] = "go"]
                BY <3>3 DEF ReceiveAck, Move
            <4>2. CASE at' = at
                BY <4>2
            <4>3. CASE at' = [at EXCEPT ![p][waitResolve[p]] = "go"]
                <5>1. at'[p][x] = at[p][x] \/ at'[p][x] = "go"
                    BY <1>2, <4>3
                <5>2. q # p => at'[q] = at[q]
                    BY <1>2, <4>3
                <5> QED BY <5>1, <5>2
            <4> QED BY <4>1, <4>2, <4>3
        <3> QED BY <1>4, <3>1, <3>2, <3>3
    <2> QED BY <2>1, <2>2 DEF Pending
<1> QED BY <1>3, <1>4 DEF LoopTurn

\* Every file of the list goes to a worker that lives.
LEMMA ShardsPending ==
    ASSUME TypeOK, Calm, NEW o \in Ops, NEW s \in Seq(Files), NEW n \in 1..Size, SendShards(o, s, n),
           NEW f, In(f, s)
    PROVE  \E p \in Parsers : Pending(p, o, f)'
<1>1. n \in Nat \ {0} /\ 1..n \subseteq Parsers
    BY SizeAssumption DEF Parsers
<1>2. PICK p \in ShardOwners(s, n) : In(f, Shard(s, n, p))
    BY <1>1, ShardsCover DEF In
<1>3. p \in 1..n /\ p \in Parsers
    BY <1>1, <1>2 DEF ShardOwners
<1> DEFINE m == [kind |-> "indexAll", op |-> o, files |-> Shard(s, n, p), ver |-> 0]
<1>4. m \in ParserMsg /\ m.op = o /\ m.files = Shard(s, n, p)
    <2>1. 0 \in Version
        BY BoundsAssumption DEF Version
    <2> QED BY <1>1, <1>3, <2>1, ShardType, CallMsgType
<1>5. toParser'[p] = Append(toParser[p], m)
    <2>1. parserUp[p] \/ p > nw
        BY <1>3 DEF Calm, TypeOK, PoolTypeOK
    <2> QED BY <1>2, <1>3, <2>1 DEF SendShards, ToParser
<1> HIDE DEF m
<1>6. toParser[p] \in Seq(ParserMsg)
    BY <1>3 DEF TypeOK, WiresTypeOK
<1>7. \E k \in DOMAIN Append(toParser[p], m) : Append(toParser[p], m)[k] = m
    <2>1. m \in ParserMsg
        BY <1>4
    <2> QED BY <1>6, <2>1, AppendCells
<1>8. PICK k \in DOMAIN toParser'[p] : toParser'[p][k] = m
    BY <1>5, <1>7
<1> QED BY <1>2, <1>3, <1>4, <1>8 DEF Pending

\* The host only adds requests.
LEMMA HostKeepsPending ==
    ASSUME TypeOK, Calm, \A x \in Ops : Talks(x), Call \/ HostResult, NEW p \in Parsers, NEW o, NEW f,
           Pending(p, o, f)
    PROVE  Pending(p, o, f)'
<1>1. UNCHANGED <<at, todo>>
    BY DEF Call, CallIndexAll, CallReindex, CallReindexContent, CallParser, CallRemove, Cancel,
           HostResult, ParserResult, WriterResult, WriterError, parserVars, threadVars
<1>2. toParser[p] \in Seq(ParserMsg)
    BY DEF TypeOK, WiresTypeOK
<1>3. toParser'[p] = toParser[p] \/ \E m \in ParserMsg : toParser'[p] = Append(toParser[p], m)
    BY HostRequests
<1>4. \A i \in DOMAIN toParser[p] : i \in DOMAIN toParser'[p] /\ toParser'[p][i] = toParser[p][i]
    BY <1>2, <1>3, AppendCells
<1> QED BY <1>1, <1>4 DEF Pending

\* A run that comes to its parsing has sent its files; no other step of the host brings
\* one there, or changes the files of one that is there.
LEMMA HostParses ==
    ASSUME TypeOK, Calm, \A x \in Ops : Talks(x), Fits, Call \/ HostResult,
           NEW o \in BulkOps, pc'[o] \in Parsed
    PROVE  \/ pc[o] \in Parsed /\ files'[o] = files[o]
           \/ \A f : In(f, files'[o]) => \E p \in Parsers : Pending(p, o, f)'
<1>1. /\ o \in Ops /\ pc \in [Ops -> PCs] /\ files \in [Ops -> Seq(Files)] /\ nw \in 0..Size
      /\ Size \in Nat \ {0}
    BY SizeAssumption DEF Ops, TypeOK, PoolTypeOK
<1>2. ASSUME NEW s \in Plans, NEW rb \in BOOLEAN, CallIndexAll(o, s, rb)
      PROVE  \A f : In(f, files'[o]) => \E p \in Parsers : Pending(p, o, f)'
    <2> DEFINE want == IF Len(s) < Size THEN Len(s) ELSE Size
               n == IF nw < want THEN want ELSE nw
    <2>1. s \in Seq(Files) /\ s # <<>> /\ files'[o] = s
        BY <1>1, <1>2, PlansAssumption DEF CallIndexAll
    <2>2. n \in 1..Size
        <3>1. Len(s) \in Nat \ {0}
            BY <2>1
        <3> QED BY <1>1, <3>1
    <2>3. ~rb
        BY <1>1, <1>2 DEF CallIndexAll, Parsed
    <2>4. SendShards(o, s, n)
        BY <1>2, <2>3 DEF CallIndexAll
    <2> HIDE DEF n
    <2> QED BY <1>1, <2>1, <2>2, <2>4, ShardsPending
<1>3. CASE Call
    <2>1. CASE pc[o] # "idle"
        <3>1. pc'[o] = pc[o] /\ files'[o] = files[o]
            BY <1>1, <1>3, <2>1, CallFrame
        <3> QED BY <3>1
    <2>2. CASE pc[o] = "idle"
        <3>1. ASSUME NEW x \in BulkOps, x # o, NEW s, NEW rb, CallIndexAll(x, s, rb) PROVE pc'[o] = pc[o]
            BY <1>1, <3>1 DEF CallIndexAll
        <3>2. ASSUME NEW x \in Ops, x # o, NEW f, NEW v, NEW kind, CallParser(x, kind, f, v) PROVE pc'[o] = pc[o]
            BY <1>1, <3>2 DEF CallParser
        <3>3. ASSUME NEW x \in RemoveOps, NEW f, CallRemove(x, f) PROVE pc'[o] = pc[o]
            BY <1>1, <3>3, OpsAssumption DEF CallRemove
        <3>4. Cancel => pc'[o] = pc[o]
            BY DEF Cancel
        <3>5. \A x \in ReindexOps \cup LiveOps : x \in Ops /\ x # o
            BY OpsAssumption DEF Ops
        <3>6. pc'[o] = pc[o] \/ \E s \in Plans, rb \in BOOLEAN : CallIndexAll(o, s, rb)
            BY <1>3, <3>1, <3>2, <3>3, <3>4, <3>5 DEF Call, CallReindex, CallReindexContent
        <3> QED BY <1>2, <2>2, <3>6 DEF Parsed
    <2> QED BY <2>1, <2>2
<1>4. CASE HostResult
    <2>1. files' = files
        BY <1>4 DEF HostResult, ParserResult, WriterResult, WriterError
    <2>2. ASSUME NEW p \in Parsers, ParserResult(p) PROVE pc[o] \in Parsed
        <3>1. PICK x \in Ops : ParserResultOf(p, x)
            BY <2>2, ParserResultEffect
        <3> QED BY <1>1, <3>1 DEF ParserResultOf, Parsed
    <2>3. ASSUME WriterResult
          PROVE  pc[o] \in Parsed \/ \A f : In(f, files'[o]) => \E p \in Parsers : Pending(p, o, f)'
        <3>1. PICK x \in Ops : WriterResultOf(x)
            BY <2>3, WriterResultEffect
        <3>2. CASE x # o
            BY <1>1, <3>1, <3>2 DEF WriterResultOf
        <3>3. CASE x = o /\ pc[o] = "drop" /\ SendShards(o, files[o], nw)
            <4>1. nw \in 1..Size
                BY <1>1, <3>3 DEF Fits
            <4> QED BY <1>1, <2>1, <3>3, <4>1, ShardsPending
        <3>4. CASE x = o /\ pc[o] \in {"flush", "create", "resolve", "remove"}
            <4>1. pc[o] # "remove"
                BY <1>1, OpsAssumption DEF Talks, Stages
            <4> QED BY <3>4, <4>1 DEF Parsed
        <3> QED BY <3>1, <3>2, <3>3, <3>4 DEF WriterResultOf
    <2> QED BY <1>4, <2>1, <2>2, <2>3, NoWriterError DEF HostResult
<1> QED BY <1>3, <1>4

LEMMA HostKeepsCover ==
    ASSUME TypeOK, Calm, \A x \in Ops : Talks(x), Fits, Cover, Call \/ HostResult
    PROVE  Cover'
<1>1. UNCHANGED <<disk, rows, batch, applyPort>>
    BY DEF Call, CallIndexAll, CallReindex, CallReindexContent, CallParser, CallRemove, Cancel,
           HostResult, ParserResult, WriterResult, WriterError, writerVars
<1>2. ASSUME NEW o \in BulkOps, pc'[o] \in Parsed, NEW f, In(f, files'[o]) PROVE Covered(o, f)'
    <2>1. CASE pc[o] \in Parsed /\ files'[o] = files[o]
        <3>1. Covered(o, f)
            BY <1>2, <2>1 DEF Cover, In
        <3> QED BY <1>1, <3>1, HostKeepsPending DEF Covered, Kept, OnItsWay
    <2>2. CASE \E p \in Parsers : Pending(p, o, f)'
        BY <2>2 DEF Covered
    <2> QED BY <1>2, <2>1, <2>2, HostParses
<1> QED BY <1>2 DEF Cover, In

LEMMA ParsersKeepCover ==
    ASSUME TypeOK, HasFile, SentOnce, Fits, Cover, cancels = 0, ~OneFailure, NEW p \in Parsers,
           LoopTurn(p) \/ \E o \in Ops : HandlerStep(p, o), UNCHANGED <<writerVars, poolVars>>
    PROVE  Cover'
<1>1. UNCHANGED <<disk, rows, batch, pc, files>>
    BY DEF LoopTurn, ReceiveRequest, RuntimeReady, GrammarLoaded, ReceiveAck,
           HandlerStep, Start, BeginFile, PostApply, ParseThrows, Finish, wires, writerVars, poolVars
<1>2. applyPort \in [Parsers -> Seq(ApplyMsg)] /\ files \in [Ops -> Seq(Files)]
    BY DEF TypeOK, WiresTypeOK, PoolTypeOK
<1>3. ASSUME NEW f, Kept(f) PROVE Kept(f)'
    <2>1. CASE UNCHANGED applyPort
        BY <1>1, <1>3, <2>1 DEF Kept, OnItsWay
    <2>2. ASSUME NEW o \in Ops, PostApply(p, o) PROVE Kept(f)'
        <3> DEFINE e == [file |-> Head(todo[p][o]), ver |-> text[p][o]]
        <3>1. todo[p][o] \in Seq(Files) /\ todo[p][o] # <<>> /\ text[p][o] \in Version
            BY <2>2 DEF PostApply, HasFile, TypeOK, ParsersTypeOK
        <3>2. e \in ApplyMsg
            BY <3>1 DEF ApplyMsg
        <3>3. applyPort'[p] = Append(applyPort[p], e) /\ \A q \in Parsers : q # p => applyPort'[q] = applyPort[q]
            BY <1>2, <2>2 DEF PostApply
        <3> HIDE DEF e
        <3>4. \A i \in DOMAIN applyPort[p] :
                 i \in DOMAIN Append(applyPort[p], e) /\ Append(applyPort[p], e)[i] = applyPort[p][i]
            BY <1>2, <3>2, AppendCells
        <3>5. \A q \in Parsers : \A i \in DOMAIN applyPort[q] :
                 i \in DOMAIN applyPort'[q] /\ applyPort'[q][i] = applyPort[q][i]
            BY <3>3, <3>4
        <3> QED BY <1>1, <1>3, <3>5 DEF Kept, OnItsWay
    <2>3. UNCHANGED applyPort \/ \E o \in Ops : PostApply(p, o)
        BY DEF LoopTurn, ReceiveRequest, RuntimeReady, GrammarLoaded, ReceiveAck,
               HandlerStep, Start, BeginFile, ParseThrows, Finish, wires
    <2> QED BY <2>1, <2>2, <2>3
<1>4. ASSUME NEW o \in BulkOps, NEW f \in Files, Covered(o, f) PROVE Covered(o, f)'
    <2> SUFFICES ASSUME disk[f] = 1, ~Kept(f)' PROVE \E q \in Parsers : Pending(q, o, f)'
        BY <1>1 DEF Covered
    <2>1. PICK q \in Parsers : Pending(q, o, f)
        BY <1>3, <1>4 DEF Covered
    <2>2. \A i \in DOMAIN applyPort'[p] : applyPort'[p][i].file # f
        BY DEF Kept, OnItsWay
    <2>3. CASE LoopTurn(p)
        BY <2>1, <2>3, LoopKeepsPending DEF Ops
    <2>4. ASSUME NEW x \in Ops, HandlerStep(p, x) PROVE Pending(q, o, f)'
        BY <2>1, <2>2, <2>4, HandlerKeepsPending
    <2> QED BY <2>3, <2>4
<1> QED BY <1>1, <1>2, <1>4 DEF Cover, Ops

LEMMA CoverInvariance == Spec => []CoverInv
<1>1. Init => CoverInv
    BY DEF Init, PoolInit, CoverInv, Cover, Parsed, Ops
<1>2. TypeInv /\ SendInv /\ TalkInv /\ FitInv /\ CoverInv /\ [Next]_vars => CoverInv'
    <2> SUFFICES ASSUME TypeInv, SendInv, TalkInv, FitInv, CoverInv, [Next]_vars, fails' = 0, cancels' = 0
                 PROVE  Cover'
        BY DEF CoverInv
    <2>1. TypeOK /\ HasFile /\ SentOnce
        BY DEF TypeInv, SendInv
    <2>2. fails = 0 /\ ~OneFailure
        BY <2>1, NoFailure
    <2>3. cancels = 0
        <3>1. ASSUME Call \/ HostResult \/ \E f \in Files : Workspace(f)
              PROVE  cancels' = cancels \/ cancels' = cancels + 1
            BY <3>1 DEF Call, CallIndexAll, CallReindex, CallReindexContent, CallParser, CallRemove,
                        Cancel, HostResult, ParserResult, WriterResult, WriterError, Workspace
        <3>2. UNCHANGED poolVars => cancels' = cancels
            BY DEF poolVars
        <3>3. cancels' = cancels \/ cancels' = cancels + 1
            BY <3>1, <3>2 DEF Next, vars
        <3> QED BY <2>1, <3>3 DEF TypeOK, PoolTypeOK
    <2>4. Calm /\ (\A x \in Ops : Talks(x)) /\ Fits /\ Cover
        BY <2>2, <2>3 DEF TalkInv, FitInv, CoverInv
    <2>5. CASE ParsersNext /\ UNCHANGED <<writerVars, poolVars>>
        <3>1. PICK p \in Parsers : LoopTurn(p) \/ (\E o \in Ops : HandlerStep(p, o)) \/ ParserDies(p)
            BY <2>5 DEF ParsersNext
        <3>2. ~ParserDies(p)
            BY <2>2 DEF ParserDies
        <3> QED BY <2>1, <2>2, <2>3, <2>4, <2>5, <3>1, <3>2, ParsersKeepCover
    <2>6. CASE \E g \in Files : Workspace(g)
        <3>1. UNCHANGED <<rows, batch, applyPort, toParser, at, todo, pc, files>>
            BY <2>6 DEF Workspace, writerVars, parserVars, threadVars
        <3>2. \A f \in Files : disk'[f] = 1 => disk[f] = 1
            BY <2>1, <2>6 DEF Workspace, ChangeFile, DeleteFile, TypeOK, WiresTypeOK
        <3>3. \A o \in BulkOps : \A i \in DOMAIN files[o] : files[o][i] \in Files
            BY <2>1 DEF TypeOK, PoolTypeOK, Ops
        <3>4. ASSUME NEW o \in BulkOps, NEW f \in Files, Covered(o, f) PROVE Covered(o, f)'
            BY <3>1, <3>2, <3>4 DEF Covered, Kept, OnItsWay, Pending
        <3> QED BY <2>4, <3>1, <3>3, <3>4 DEF Cover
    <2>7. CASE UNCHANGED vars
        BY <2>4, <2>7 DEF vars, wires, writerVars, parserVars, threadVars, poolVars,
                          Cover, Covered, Kept, OnItsWay, Pending
    <2> QED BY <2>1, <2>2, <2>4, <2>5, <2>6, <2>7, HostKeepsCover, WriterKeepsCover DEF Next
<1> QED BY <1>1, <1>2, TypeInvariance, SendInvariance, TalkInvariance, FitInvariance, PTL DEF Spec

\* A run that was not cancelled loses no file (workerPool.ts:129-149): when indexAll
\* resolves and nothing has failed, each file of the run that is as it was has rows, or
\* an entry in a port or in the batch, whatever was re-indexed and removed meanwhile.
THEOREM RunsLoseNoFile == Spec => []BulkComplete
<1>1. TypeOK /\ TalkInv /\ CoverInv => BulkComplete
    <2> SUFFICES ASSUME TypeOK, TalkInv, CoverInv, NEW o \in BulkOps,
                        pc[o] = "done", cancels = 0, fails = 0,
                        NEW i \in DOMAIN files[o], disk[files[o][i]] = 1
                 PROVE  Kept(files[o][i])
        BY DEF BulkComplete, Kept
    <2>1. o \in Ops
        BY DEF Ops
    <2>2. \A p \in Parsers : at[p][o] = "none" /\ ~Asked(toParser[p], o)
        BY <2>1, Unasked DEF TalkInv
    <2>3. \A p \in Parsers, f \in Files : ~Pending(p, o, f)
        BY <2>2 DEF Pending, Asked
    <2>4. Covered(o, files[o][i])
        BY DEF CoverInv, Cover, Parsed
    <2>5. files[o][i] \in Files
        BY <2>1 DEF TypeOK, PoolTypeOK
    <2> QED BY <2>3, <2>4, <2>5 DEF Covered
<1> QED BY <1>1, TypeCorrect, TalkInvariance, CoverInvariance, PTL

=============================================================================
