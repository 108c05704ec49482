-------------------------- MODULE WorkerPoolProofs --------------------------
(* Theorems about the indexing pipeline for every number of files, parsers and *)
(* calls, every window, batch size and bound of the model.                     *)
EXTENDS WorkerPool, TLAPS, WellFoundedInduction, FiniteSetTheorems, SequenceTheorems

----------------------------------------------------------------------------
(* The operators the model is built from.                                     *)

\* A non-empty set of indices has a last one.
LEMMA LastIndex ==
    ASSUME NEW n \in Nat, NEW is \in SUBSET (1..n), is # {}
    PROVE  \E i \in is : \A j \in is : j <= i
<1> DEFINE T == {n - i : i \in is}
<1>1. T \subseteq Nat
    OBVIOUS
<1>6. PICK x \in is : TRUE
    OBVIOUS
<1>7. n - x \in T
    BY <1>6
<1>2. PICK m \in T : \A k \in T : <<k, m>> \notin OpToRel(<, Nat)
    BY <1>1, <1>7, WFMin, NatLessThanWellFounded, Zenon
<1>3. \A k \in T : ~(k < m)
    BY <1>1, <1>2, Zenon DEF OpToRel
<1>4. PICK i \in is : m = n - i
    OBVIOUS
<1>5. ASSUME NEW j \in is PROVE j <= i
    <2>1. n - j \in T
        OBVIOUS
    <2>2. ~(n - j < n - i)
        BY <1>3, <1>4, <2>1
    <2> QED BY <1>4, <2>2
<1> QED BY <1>4, <1>5

\* What a batch writes of a file it holds is a version.
LEMMA LastVerType ==
    ASSUME NEW b \in Seq(Entry), NEW f \in FilesOf(b)
    PROVE  LastVer(b, f) \in Version
<1> DEFINE is == {i \in DOMAIN b : b[i].file = f}
<1>1. is \in SUBSET (1..Len(b)) /\ is # {} /\ Len(b) \in Nat
    BY DEF FilesOf
<1>2. \E i \in is : \A j \in is : j <= i
    BY <1>1, LastIndex, Zenon
<1>3. (CHOOSE i \in is : \A j \in is : j <= i) \in is
    BY <1>2, Zenon
<1>5. \A i \in is : b[i] \in Entry
    OBVIOUS
<1>4. \A i \in is : b[i].ver \in Version
    BY <1>5 DEF Entry
<1> QED BY <1>3, <1>4 DEF LastVer

LEMMA WrittenType ==
    ASSUME WriterTypeOK, NEW b \in Seq(Entry)
    PROVE  /\ Written(b) \in [Files -> Version]
           /\ FilesOf(b) \subseteq Files
<1>1. \A f \in FilesOf(b) : LastVer(b, f) \in Version
    BY LastVerType
<1>3. \A i \in DOMAIN b : b[i] \in Entry
    OBVIOUS
<1>2. FilesOf(b) \subseteq Files
    BY <1>3 DEF FilesOf, Entry
<1> QED BY <1>1, <1>2 DEF Written, WriterTypeOK

\* The entries of a batch that came from one port are finitely many.
LEMMA AcksType ==
    ASSUME NEW b \in Seq(Entry), NEW p
    PROVE  AcksFor(b, p) \in Nat
<1>1. IsFiniteSet(1..Len(b))
    BY FS_Interval
<1>2. {i \in DOMAIN b : b[i].port = p} \subseteq 1..Len(b)
    OBVIOUS
<1> QED BY <1>1, <1>2, FS_Subset, FS_CardinalityType DEF AcksFor

\* Every shard is a list of files.
LEMMA ShardType ==
    ASSUME NEW s \in Seq(Files), NEW n \in Nat \ {0}, NEW p \in 1..n
    PROVE  Shard(s, n, p) \in Seq(Files)
<1> DEFINE q == (Len(s) - p + n) \div n
<1>1. Len(s) \in Nat /\ Len(s) - p + n \in Nat
    OBVIOUS
<1>2. q \in Nat /\ q * n <= Len(s) - p + n
    BY <1>1, SMT
<1>3. ASSUME NEW k \in 1..q
      PROVE  p + (k - 1) * n \in 1..Len(s)
    <2>1. (q - k) * n >= 0
        BY <1>2, <1>3, SMT
    <2>2. (k - 1) * n >= 0
        BY <1>2, <1>3, SMT
    <2>3. k * n <= q * n
        BY <1>2, <1>3, <2>1, SMT
    <2>4. p + (k - 1) * n = p + k * n - n
        BY <1>2, <1>3, SMT
    <2>5. p + (k - 1) * n \in Int
        BY <1>2, <1>3, SMT
    <2> QED BY <1>1, <1>2, <2>2, <2>3, <2>4, <2>5, SMT
<1>4. \A k \in 1..q : s[p + (k - 1) * n] \in Files
    BY <1>3
<1>5. Shard(s, n, p) \in [1..q -> Files]
    BY <1>4 DEF Shard
<1> QED BY <1>2, <1>5, SeqDef, Zenon

----------------------------------------------------------------------------
(* Type correctness, thread by thread.                                        *)

LEMMA InitType == Init => TypeOK
<1> SUFFICES ASSUME Init PROVE TypeOK
    OBVIOUS
<1> USE SizeAssumption, BoundsAssumption, CancelsAssumption
<1>1. WiresTypeOK
    BY DEF Init, WiresInit, WiresTypeOK, Version
<1>2. WriterTypeOK
    <2>1. 0 \in Version /\ disk \in [Files -> Version]
        BY <1>1 DEF WiresTypeOK, Version
    <2>2. rows \in [Files -> Version] /\ linked \in SUBSET Files
        BY <2>1 DEF Init, WriterInit
    <2>3. writerUp \in BOOLEAN /\ nameIdx \in BOOLEAN
        BY Zenon DEF Init, WriterInit
    <2>4. batch \in Seq(Entry) /\ timer \in {"off", "armed", "stale"}
        BY DEF Init, WriterInit
    <2> QED BY <2>2, <2>3, <2>4 DEF WriterTypeOK
<1>3. ParsersTypeOK
    BY DEF Init, ParsersInit, ParsersTypeOK, Version, Places
<1>4. PoolTypeOK
    BY DEF Init, PoolInit, PoolTypeOK, PCs
<1> QED BY <1>1, <1>2, <1>3, <1>4 DEF TypeOK

\* flushBatch keeps the types of what it writes.
LEMMA FlushType ==
    ASSUME WiresTypeOK, WriterTypeOK, NEW b \in Seq(Entry), FlushBatch(b)
    PROVE  batch' \in Seq(Entry) /\ acks' \in [Parsers -> Nat] /\ timer' \in {"off", "armed", "stale"}
<1>1. \A p \in Parsers : AcksFor(b, p) \in Nat
    BY AcksType
<1>2. acks' \in [Parsers -> Nat]
    BY <1>1 DEF FlushBatch, WiresTypeOK
<1> QED BY <1>2 DEF FlushBatch, TimerAfter, WriterTypeOK

LEMMA DeathEventsType == DeathEvents \in Seq(Result)
<1>1. DeathEvents \in [1..2 -> Result]
    BY DEF DeathEvents, Result
<1> QED BY <1>1, SeqDef, Zenon

LEMMA WriterDiesType ==
    ASSUME WiresTypeOK, WriterTypeOK, WriterDies
    PROVE  /\ writerUp' \in BOOLEAN
           /\ batch' \in Seq(Entry)
           /\ timer' \in {"off", "armed", "stale"}
           /\ toWriter' \in Seq(WriterMsg)
           /\ fromWriter' \in Seq(Result)
<1>1. DeathEvents \in Seq(Result)
    BY DeathEventsType
<1>2. fromWriter \o DeathEvents \in Seq(Result)
    BY <1>1, ConcatProperties DEF WiresTypeOK
<1>3. writerUp' \in BOOLEAN
    BY Zenon DEF WriterDies
<1>5. batch' \in Seq(Entry) /\ timer' \in {"off", "armed", "stale"}
    BY DEF WriterDies
<1>4. toWriter' \in Seq(WriterMsg) /\ fromWriter' \in Seq(Result)
    BY <1>2 DEF WriterDies
<1> QED BY <1>3, <1>4, <1>5

LEMMA ReceiveApplyType ==
    ASSUME WiresTypeOK, WriterTypeOK, NEW p \in Parsers, ReceiveApply(p)
    PROVE  WiresTypeOK' /\ WriterTypeOK'
<1> DEFINE e == Head(applyPort[p])
           b == Append(batch, [file |-> e.file, ver |-> e.ver, port |-> p])
<1>1. e \in ApplyMsg /\ applyPort' \in [Parsers -> Seq(ApplyMsg)]
    BY DEF ReceiveApply, WiresTypeOK
<1>2. b \in Seq(Entry)
    BY <1>1 DEF ApplyMsg, Entry, WriterTypeOK
<1>3. Written(b) \in [Files -> Version] /\ FilesOf(b) \subseteq Files
    BY <1>2, WrittenType
<1>4. CASE UNCHANGED <<acks, rows, linked, writerUp, toWriter, fromWriter, fails>>
           /\ batch' = b /\ timer' = (IF timer = "off" THEN "armed" ELSE timer)
    BY <1>1, <1>2, <1>4 DEF ReceiveApply, WiresTypeOK, WriterTypeOK
<1>5. CASE /\ FlushBatch(b) /\ rows' = Written(b) /\ linked' = linked \ FilesOf(b)
           /\ UNCHANGED <<writerUp, toWriter, fromWriter, fails>>
    BY <1>1, <1>2, <1>3, <1>5, FlushType DEF ReceiveApply, WiresTypeOK, WriterTypeOK
<1>6. CASE OneFailure /\ WriterDies /\ UNCHANGED <<acks, rows, linked>>
    BY <1>1, <1>6, WriterDiesType, BoundsAssumption
       DEF ReceiveApply, OneFailure, WiresTypeOK, WriterTypeOK
<1> QED BY <1>4, <1>5, <1>6 DEF ReceiveApply

LEMMA TimerFiresType ==
    ASSUME WiresTypeOK, WriterTypeOK, TimerFires
    PROVE  WiresTypeOK' /\ WriterTypeOK'
<1>1. batch \in Seq(Entry)
    BY DEF WriterTypeOK
<1>2. Written(batch) \in [Files -> Version]
    BY <1>1, WrittenType
<1>3. CASE batch = <<>>
    BY <1>3 DEF TimerFires, WiresTypeOK, WriterTypeOK
<1>4. CASE /\ FlushBatch(batch) /\ rows' = Written(batch) /\ linked' = linked \ FilesOf(batch)
           /\ UNCHANGED <<writerUp, toWriter, fromWriter, fails>>
    BY <1>1, <1>2, <1>4, FlushType DEF TimerFires, WiresTypeOK, WriterTypeOK
<1>5. CASE OneFailure /\ WriterDies /\ UNCHANGED <<acks, rows, linked>>
    BY <1>5, WriterDiesType, BoundsAssumption DEF TimerFires, OneFailure, WiresTypeOK, WriterTypeOK
<1> QED BY <1>3, <1>4, <1>5 DEF TimerFires

LEMMA AnswerType ==
    ASSUME WiresTypeOK, toWriter # <<>>, NEW ok \in BOOLEAN, Answer(ok)
    PROVE  toWriter' \in Seq(WriterMsg) /\ fromWriter' \in Seq(Result)
<1>1. Head(toWriter) \in WriterMsg /\ Tail(toWriter) \in Seq(WriterMsg)
    BY DEF WiresTypeOK
<1>2. [op |-> Head(toWriter).op, ok |-> ok] \in Result
    BY <1>1 DEF WriterMsg, Result
<1> QED BY <1>1, <1>2 DEF Answer, WiresTypeOK

LEMMA WriterRequestType ==
    ASSUME WiresTypeOK, WriterTypeOK, WriterRequest
    PROVE  WiresTypeOK' /\ WriterTypeOK'
<1>1. batch \in Seq(Entry)
    BY DEF WriterTypeOK
<1>2. Written(batch) \in [Files -> Version]
    BY <1>1, WrittenType
<1>3. toWriter # <<>>
    BY DEF WriterRequest, Flush, Remove, ResolveParents, FlushingRequestThrows,
           StatementThrows, DropIndexes, CreateIndexes, Request
<1>4. 0 \in Version
    BY BoundsAssumption DEF Version
<1>5. \A ok \in BOOLEAN : Answer(ok) =>
         toWriter' \in Seq(WriterMsg) /\ fromWriter' \in Seq(Result)
    BY <1>3, AnswerType
<1>6. OneFailure => fails' \in 0..MaxFails
    BY BoundsAssumption DEF OneFailure, WiresTypeOK
<1>7. CASE Flush
    BY <1>1, <1>2, <1>5, <1>7, FlushType DEF Flush, Answer, WiresTypeOK, WriterTypeOK
<1>8. CASE Remove
    BY <1>1, <1>2, <1>4, <1>5, <1>8, FlushType DEF Remove, Answer, WiresTypeOK, WriterTypeOK
<1>14. RequestFiles \subseteq Files
    <2>2. Head(toWriter) \in WriterMsg
        BY <1>3 DEF WiresTypeOK
    <2>1. Head(toWriter).files \in Seq(Files)
        BY <2>2 DEF WriterMsg
    <2> QED BY <2>1 DEF RequestFiles
<1>9. CASE ResolveParents
    BY <1>1, <1>2, <1>5, <1>9, <1>14, FlushType DEF ResolveParents, Answer, WiresTypeOK, WriterTypeOK
<1>10. CASE FlushingRequestThrows
    <2>1. fails' \in 0..MaxFails /\ batch' = <<>> /\ UNCHANGED <<acks, timer, rows, linked, nameIdx>>
        BY <1>6, <1>10 DEF FlushingRequestThrows, FlushThrows
    <2>2. Answer(FALSE)
        BY <1>10 DEF FlushingRequestThrows
    <2>3. WiresTypeOK'
        BY <1>5, <2>1, <2>2 DEF Answer, WiresTypeOK
    <2>4. WriterTypeOK'
        BY <2>1, <2>2 DEF Answer, WriterTypeOK
    <2> QED BY <2>3, <2>4
<1>11. CASE StatementThrows
    BY <1>1, <1>2, <1>5, <1>6, <1>11, FlushType
       DEF StatementThrows, Answer, WiresTypeOK, WriterTypeOK
<1>12. CASE DropIndexes
    BY <1>5, <1>6, <1>12 DEF DropIndexes, Answer, WiresTypeOK, WriterTypeOK
<1>13. CASE CreateIndexes
    BY <1>5, <1>6, <1>13 DEF CreateIndexes, Answer, WiresTypeOK, WriterTypeOK
<1> QED BY <1>7, <1>8, <1>9, <1>10, <1>11, <1>12, <1>13 DEF WriterRequest

----------------------------------------------------------------------------
(* The parser threads. A handler that loads a grammar or parses has a file,   *)
(* and a handler that loads one has a file with a grammar.                    *)

\* One cell of a table indexed by parser and op.
LEMMA CellType ==
    ASSUME NEW S, NEW g \in [Parsers -> [Ops -> S]],
           NEW p \in Parsers, NEW o \in Ops, NEW v \in S
    PROVE  [g EXCEPT ![p][o] = v] \in [Parsers -> [Ops -> S]]
OBVIOUS

LEMMA MoveType ==
    ASSUME ParsersTypeOK, NEW p \in Parsers, NEW o \in Ops, NEW place \in Places, Move(p, o, place)
    PROVE  at' \in [Parsers -> [Ops -> Places]]
BY CellType DEF Move, ParsersTypeOK

HasFile ==
    \A p \in Parsers, o \in Ops :
        /\ at[p][o] \in {"load", "parse"} => todo[p][o] # <<>>
        /\ at[p][o] = "load" => LangOf[Head(todo[p][o])] # NoLang

\* A result of a handler is one more message on p's wire to the host.
LEMMA ReplyType ==
    ASSUME WiresTypeOK, ParsersTypeOK, NEW p \in Parsers, NEW o \in Ops,
           NEW ok \in BOOLEAN, Reply(p, o, ok)
    PROVE  /\ fromParser' \in [Parsers -> Seq(Result)]
           /\ at' \in [Parsers -> [Ops -> Places]]
           /\ todo' \in [Parsers -> [Ops -> Seq(Files)]]
           /\ text' \in [Parsers -> [Ops -> Version]]
<1>1. [op |-> o, ok |-> ok] \in Result
    BY DEF Result
<1>2. fromParser' \in [Parsers -> Seq(Result)]
    BY <1>1 DEF Reply, WiresTypeOK
<1>3. 0 \in Version
    BY BoundsAssumption DEF Version
<1> QED BY <1>2, <1>3 DEF Reply, Move, ParsersTypeOK, Places

LEMMA ReceiveRequestType ==
    ASSUME WiresTypeOK, ParsersTypeOK, NEW p \in Parsers, ReceiveRequest(p)
    PROVE  WiresTypeOK' /\ ParsersTypeOK'
<1> DEFINE m == Head(toParser[p])
<1>1. m \in ParserMsg /\ toParser' \in [Parsers -> Seq(ParserMsg)]
    BY DEF ReceiveRequest, WiresTypeOK
<1>2. WiresTypeOK'
    BY <1>1 DEF ReceiveRequest, WiresTypeOK
<1>3. CASE m.kind = "cancel"
    <2>1. canceled' \in [Parsers -> BOOLEAN]
        BY <1>3, Zenon DEF ReceiveRequest, ParsersTypeOK
    <2> QED BY <1>2, <1>3, <2>1 DEF ReceiveRequest, ParsersTypeOK
<1>4. CASE m.kind # "cancel"
    <2>1. m.op \in Ops /\ m.files \in Seq(Files) /\ m.ver \in Version
        BY <1>1, <1>4 DEF ParserMsg, Calls, CancelMsg
    <2>2. at' \in [Parsers -> [Ops -> Places]]
        BY <1>4, <2>1, MoveType DEF ReceiveRequest, Places, Runnable
    <2>3. todo' \in [Parsers -> [Ops -> Seq(Files)]] /\ text' \in [Parsers -> [Ops -> Version]]
        <3>1. todo \in [Parsers -> [Ops -> Seq(Files)]] /\ text \in [Parsers -> [Ops -> Version]]
            BY DEF ParsersTypeOK
        <3>2. [todo EXCEPT ![p][m.op] = m.files] \in [Parsers -> [Ops -> Seq(Files)]]
            BY <2>1, <3>1, CellType
        <3>3. [text EXCEPT ![p][m.op] = m.ver] \in [Parsers -> [Ops -> Version]]
            BY <2>1, <3>1, CellType
        <3> QED BY <1>4, <3>2, <3>3 DEF ReceiveRequest
    <2> QED BY <1>2, <1>4, <2>2, <2>3 DEF ReceiveRequest, ParsersTypeOK
<1> QED BY <1>3, <1>4

LEMMA HandlerStepType ==
    ASSUME WiresTypeOK, ParsersTypeOK, HasFile,
           NEW p \in Parsers, NEW o \in Ops, HandlerStep(p, o)
    PROVE  WiresTypeOK' /\ ParsersTypeOK'
<1>1. {"go", "load", "parse", "wait"} \subseteq Places
    BY DEF Places, Runnable
<1>2. 0 \in Version
    BY BoundsAssumption DEF Version
<1>3. CASE Start(p, o)
    <2>1. canceled' \in [Parsers -> BOOLEAN]
        BY <1>3 DEF Start, ParsersTypeOK
    <2> QED BY <1>1, <1>3, <2>1 DEF Start, Move, wires, WiresTypeOK, ParsersTypeOK
<1>4. CASE BeginFile(p, o)
    <2>1. Head(todo[p][o]) \in Files /\ Tail(todo[p][o]) \in Seq(Files)
        BY <1>4 DEF BeginFile, ParsersTypeOK
    <2>2. disk[Head(todo[p][o])] \in Version
        BY <2>1 DEF WiresTypeOK
    <2>5. todo \in [Parsers -> [Ops -> Seq(Files)]] /\ text \in [Parsers -> [Ops -> Version]]
          /\ text[p][o] \in Version
        BY DEF ParsersTypeOK
    <2>3. todo' \in [Parsers -> [Ops -> Seq(Files)]] /\ text' \in [Parsers -> [Ops -> Version]]
        <3>1. [todo EXCEPT ![p][o] = Tail(todo[p][o])] \in [Parsers -> [Ops -> Seq(Files)]]
            BY <2>1, <2>5, CellType
        <3>2. \A v \in Version : [text EXCEPT ![p][o] = v] \in [Parsers -> [Ops -> Version]]
            BY <2>5, CellType
        <3>3. todo' \in {todo, [todo EXCEPT ![p][o] = Tail(todo[p][o])]}
            BY <1>4 DEF BeginFile
        <3>4. \/ text' = text
              \/ text' = [text EXCEPT ![p][o] = IF o \in LiveOps THEN text[p][o]
                                                               ELSE disk[Head(todo[p][o])]]
            BY <1>4 DEF BeginFile
        <3> QED BY <2>2, <2>5, <3>1, <3>2, <3>3, <3>4
    <2>4. at' \in [Parsers -> [Ops -> Places]]
        <3>1. at \in [Parsers -> [Ops -> Places]]
            BY DEF ParsersTypeOK
        <3> QED BY <1>1, <1>4, <3>1, MoveType DEF BeginFile
    <2> QED BY <1>4, <2>3, <2>4 DEF BeginFile, wires, WiresTypeOK, ParsersTypeOK
<1>5. CASE PostApply(p, o)
    <2>1. Head(todo[p][o]) \in Files /\ Tail(todo[p][o]) \in Seq(Files)
        BY <1>5 DEF PostApply, HasFile, ParsersTypeOK
    <2>2. [file |-> Head(todo[p][o]), ver |-> text[p][o]] \in ApplyMsg
        BY <2>1 DEF ApplyMsg, ParsersTypeOK
    <2>3. applyPort' \in [Parsers -> Seq(ApplyMsg)]
        BY <1>5, <2>2 DEF PostApply, WiresTypeOK
    <2>4. todo' \in [Parsers -> [Ops -> Seq(Files)]] /\ text' \in [Parsers -> [Ops -> Version]]
        BY <1>2, <1>5, <2>1 DEF PostApply, ParsersTypeOK
    <2>5. /\ at' \in [Parsers -> [Ops -> Places]]
          /\ inFlight' \in [Parsers -> Int]
          /\ waitResolve' \in [Parsers -> Ops \cup {NoOp}]
        <3>1. at' \in [Parsers -> [Ops -> Places]]
            <4>1. Move(p, o, "go") \/ Move(p, o, "wait")
                BY <1>5 DEF PostApply
            <4>2. "go" \in Places /\ "wait" \in Places
                BY <1>1
            <4>3. CASE Move(p, o, "go")
                BY <4>2, <4>3, MoveType
            <4>4. CASE Move(p, o, "wait")
                BY <4>2, <4>4, MoveType
            <4> QED BY <4>1, <4>3, <4>4
        <3>2. inFlight' = inFlight \/ inFlight' = [inFlight EXCEPT ![p] = @ + 1]
            BY <1>5 DEF PostApply
        <3>3. waitResolve' = waitResolve \/ waitResolve' = [waitResolve EXCEPT ![p] = o]
            BY <1>5 DEF PostApply
        <3>4. inFlight' \in [Parsers -> Int]
            BY <3>2 DEF ParsersTypeOK
        <3>5. waitResolve' \in [Parsers -> Ops \cup {NoOp}]
            BY <3>3 DEF ParsersTypeOK
        <3> QED BY <3>1, <3>4, <3>5
    <2> QED BY <1>5, <2>3, <2>4, <2>5 DEF PostApply, WiresTypeOK, ParsersTypeOK
<1>6. CASE ParseThrows(p, o)
    <2>1. fails' \in 0..MaxFails
        BY <1>6, BoundsAssumption DEF ParseThrows, OneFailure, WiresTypeOK
    <2> QED BY <1>6, <2>1, ReplyType DEF ParseThrows, WiresTypeOK, ParsersTypeOK
<1>7. CASE Finish(p, o)
    BY <1>7, ReplyType DEF Finish, WiresTypeOK, ParsersTypeOK
<1> QED BY <1>3, <1>4, <1>5, <1>6, <1>7 DEF HandlerStep

LEMMA LoopTurnType ==
    ASSUME WiresTypeOK, ParsersTypeOK, HasFile, NEW p \in Parsers, LoopTurn(p)
    PROVE  WiresTypeOK' /\ ParsersTypeOK'
<1>1. Runnable \cup {"ready", "load", "wait"} \subseteq Places
    BY DEF Places
<1>2. CASE RuntimeReady(p)
    <2>1. ready' \in [Parsers -> BOOLEAN]
        BY <1>2, Zenon DEF RuntimeReady, ParsersTypeOK
    <2>2. at' \in [Parsers -> [Ops -> Places]]
        BY <1>1, <1>2 DEF RuntimeReady, ParsersTypeOK, Runnable
    <2> QED BY <1>2, <2>1, <2>2 DEF RuntimeReady, wires, WiresTypeOK, ParsersTypeOK
<1>3. ASSUME NEW o \in Ops, GrammarLoaded(p, o)
      PROVE  WiresTypeOK' /\ ParsersTypeOK'
    <2>1. Head(todo[p][o]) \in Files
        BY <1>3 DEF GrammarLoaded, HasFile, ParsersTypeOK
    <2>2. LangOf[Head(todo[p][o])] \in Langs
        BY <1>3, <2>1 DEF GrammarLoaded, HasFile, Langs
    <2>3. loaded' \in [Parsers -> SUBSET Langs]
        <3>1. loaded[p] \cup {LangOf[Head(todo[p][o])]} \in SUBSET Langs
            BY <2>2 DEF ParsersTypeOK
        <3> QED BY <1>3, <3>1 DEF GrammarLoaded, ParsersTypeOK
    <2>4. at' \in [Parsers -> [Ops -> Places]]
        BY <1>1, <1>3, MoveType DEF GrammarLoaded, Runnable
    <2> QED BY <1>3, <2>3, <2>4 DEF GrammarLoaded, wires, WiresTypeOK, ParsersTypeOK
<1>4. CASE ReceiveAck(p)
    <2>1. acks' \in [Parsers -> Nat] /\ inFlight' \in [Parsers -> Int]
        BY <1>4 DEF ReceiveAck, WiresTypeOK, ParsersTypeOK
    <2>2. at' \in [Parsers -> [Ops -> Places]] /\ waitResolve' \in [Parsers -> Ops \cup {NoOp}]
        <3>1. CASE Wakes(p)
            <4>1. waitResolve[p] \in Ops
                BY <3>1 DEF Wakes, ParsersTypeOK
            <4>2. Move(p, waitResolve[p], "go") /\ waitResolve' = [waitResolve EXCEPT ![p] = NoOp]
                BY <1>4, <3>1 DEF ReceiveAck
            <4>3. at' \in [Parsers -> [Ops -> Places]]
                BY <1>1, <4>1, <4>2, MoveType DEF Runnable
            <4>4. waitResolve' \in [Parsers -> Ops \cup {NoOp}]
                BY <4>2 DEF ParsersTypeOK
            <4> QED BY <4>3, <4>4
        <3>2. CASE ~Wakes(p)
            BY <1>4, <3>2 DEF ReceiveAck, ParsersTypeOK
        <3> QED BY <3>1, <3>2
    <2> QED BY <1>4, <2>1, <2>2 DEF ReceiveAck, WiresTypeOK, ParsersTypeOK
<1> QED BY <1>2, <1>3, <1>4, ReceiveRequestType DEF LoopTurn

LEMMA ParserDiesType ==
    ASSUME WiresTypeOK, ParsersTypeOK, NEW p \in Parsers, ParserDies(p)
    PROVE  WiresTypeOK' /\ ParsersTypeOK'
<1>1. fails' \in 0..MaxFails
    BY BoundsAssumption DEF ParserDies, OneFailure, WiresTypeOK
<1>2. fromParser[p] \o DeathEvents \in Seq(Result)
    BY DeathEventsType, ConcatProperties DEF WiresTypeOK
<1>3. fromParser' \in [Parsers -> Seq(Result)] /\ toParser' \in [Parsers -> Seq(ParserMsg)]
    BY <1>2 DEF ParserDies, WiresTypeOK
<1>4. parserUp' \in [Parsers -> BOOLEAN]
    BY Zenon DEF ParserDies, ParsersTypeOK
<1>5. 0 \in Version
    BY BoundsAssumption DEF Version
<1> QED BY <1>1, <1>3, <1>4, <1>5 DEF ParserDies, WiresTypeOK, ParsersTypeOK, Places

----------------------------------------------------------------------------
(* HasFile is inductive: only the handler of o moves o's cells.               *)

LEMMA HasFileInit == Init => HasFile
BY DEF Init, ParsersInit, HasFile

LEMMA HandlerKeepsFile ==
    ASSUME ParsersTypeOK, HasFile, NEW p \in Parsers, NEW o \in Ops, HandlerStep(p, o)
    PROVE  HasFile'
<1> SUFFICES ASSUME NEW q \in Parsers, NEW x \in Ops
             PROVE  /\ at'[q][x] \in {"load", "parse"} => todo'[q][x] # <<>>
                    /\ at'[q][x] = "load" => LangOf[Head(todo'[q][x])] # NoLang
    BY DEF HasFile
<1>1. at \in [Parsers -> [Ops -> Places]] /\ todo \in [Parsers -> [Ops -> Seq(Files)]]
    BY DEF ParsersTypeOK
<1>2. /\ at[q][x] \in {"load", "parse"} => todo[q][x] # <<>>
      /\ at[q][x] = "load" => LangOf[Head(todo[q][x])] # NoLang
    BY DEF HasFile
<1>3. CASE Start(p, o)
    BY <1>1, <1>2, <1>3 DEF Start, Move
<1>4. CASE BeginFile(p, o)
    <2>1. CASE todo' = [todo EXCEPT ![p][o] = Tail(@)] /\ at' = at
        BY <1>1, <1>2, <1>4, <2>1 DEF BeginFile
    <2>2. CASE UNCHANGED todo /\ Move(p, o, IF HasParser(p, Head(todo[p][o])) THEN "parse" ELSE "load")
        BY <1>1, <1>2, <1>4, <2>2 DEF BeginFile, Move, HasParser
    <2> QED BY <1>4, <2>1, <2>2 DEF BeginFile
<1>5. CASE PostApply(p, o)
    <2>1. Move(p, o, "go") \/ Move(p, o, "wait")
        BY <1>5 DEF PostApply
    <2>2. todo' = [todo EXCEPT ![p][o] = Tail(@)]
        BY <1>5 DEF PostApply
    <2> QED BY <1>1, <1>2, <2>1, <2>2 DEF Move
<1>6. CASE ParseThrows(p, o) \/ Finish(p, o)
    <2>1. Move(p, o, "none") /\ todo' = [todo EXCEPT ![p][o] = <<>>]
        BY <1>6 DEF ParseThrows, Finish, Reply
    <2> QED BY <1>1, <1>2, <2>1 DEF Move
<1> QED BY <1>3, <1>4, <1>5, <1>6 DEF HandlerStep

LEMMA LoopKeepsFile ==
    ASSUME ParsersTypeOK, HasFile, NEW p \in Parsers, LoopTurn(p), WiresTypeOK
    PROVE  HasFile'
<1> SUFFICES ASSUME NEW q \in Parsers, NEW x \in Ops
             PROVE  /\ at'[q][x] \in {"load", "parse"} => todo'[q][x] # <<>>
                    /\ at'[q][x] = "load" => LangOf[Head(todo'[q][x])] # NoLang
    BY DEF HasFile
<1>1. at \in [Parsers -> [Ops -> Places]] /\ todo \in [Parsers -> [Ops -> Seq(Files)]]
    BY DEF ParsersTypeOK
<1>2. /\ at[q][x] \in {"load", "parse"} => todo[q][x] # <<>>
      /\ at[q][x] = "load" => LangOf[Head(todo[q][x])] # NoLang
    BY DEF HasFile
<1>3. CASE ReceiveRequest(p)
    <2> DEFINE m == Head(toParser[p])
    <2>1. CASE UNCHANGED <<at, todo>>
        BY <1>2, <2>1
    <2>2. CASE /\ Move(p, m.op, IF ready[p] THEN "start" ELSE "ready")
               /\ todo' = [todo EXCEPT ![p][m.op] = m.files]
        BY <1>1, <1>2, <2>2 DEF Move
    <2> QED BY <1>3, <2>1, <2>2 DEF ReceiveRequest
<1>4. CASE RuntimeReady(p)
    BY <1>1, <1>2, <1>4 DEF RuntimeReady
<1>5. ASSUME NEW o \in Ops, GrammarLoaded(p, o)
      PROVE  /\ at'[q][x] \in {"load", "parse"} => todo'[q][x] # <<>>
             /\ at'[q][x] = "load" => LangOf[Head(todo'[q][x])] # NoLang
    <2>1. todo[p][o] # <<>> /\ todo' = todo /\ Move(p, o, "parse")
        BY <1>5 DEF GrammarLoaded, HasFile
    <2> QED BY <1>1, <1>2, <2>1 DEF Move
<1>6. CASE ReceiveAck(p)
    <2>1. todo' = todo
        BY <1>6 DEF ReceiveAck
    <2>2. at' = at \/ at' = [at EXCEPT ![p][waitResolve[p]] = "go"]
        BY <1>6 DEF ReceiveAck, Move
    <2>3. at'[q][x] = at[q][x] \/ at'[q][x] = "go"
        BY <1>1, <2>2
    <2> QED BY <1>2, <2>1, <2>3
<1> QED BY <1>3, <1>4, <1>5, <1>6 DEF LoopTurn

LEMMA DeathKeepsFile ==
    ASSUME ParsersTypeOK, HasFile, NEW p \in Parsers, ParserDies(p)
    PROVE  HasFile'
<1> SUFFICES ASSUME NEW q \in Parsers, NEW x \in Ops
             PROVE  /\ at'[q][x] \in {"load", "parse"} => todo'[q][x] # <<>>
                    /\ at'[q][x] = "load" => LangOf[Head(todo'[q][x])] # NoLang
    BY DEF HasFile
<1> QED BY DEF ParserDies, ParsersTypeOK, HasFile

----------------------------------------------------------------------------
(* The host. It leaves both kinds of thread alone, except that it spawns       *)
(* parsers and sends them requests.                                           *)

LEMMA ToWriterType ==
    ASSUME WiresTypeOK, NEW o \in Ops, NEW fs \in Seq(Files),
           NEW kind \in {"remove", "flush", "dropIndexes", "createIndexes", "resolveParents"}
    PROVE  ToWriter(kind, o, fs) \in Seq(WriterMsg)
<1>1. [kind |-> kind, op |-> o, files |-> fs] \in WriterMsg
    BY DEF WriterMsg
<1> QED BY <1>1 DEF ToWriter, WiresTypeOK

LEMMA ToParserType ==
    ASSUME WiresTypeOK, NEW p \in Parsers, NEW m \in ParserMsg
    PROVE  ToParser(p, m) \in Seq(ParserMsg)
BY DEF ToParser, WiresTypeOK

LEMMA CallMsgType ==
    ASSUME NEW o \in Ops, NEW fs \in Seq(Files), NEW v \in Version,
           NEW kind \in {"indexAll", "reindex", "reindexContent"}
    PROVE  [kind |-> kind, op |-> o, files |-> fs, ver |-> v] \in ParserMsg
BY DEF ParserMsg, Calls

LEMMA SpawnType ==
    ASSUME TypeOK, NEW n \in 0..Size, Spawn(n)
    PROVE  nw' \in 0..Size /\ parserUp' \in [Parsers -> BOOLEAN]
<1>1. nw' \in 0..Size
    BY DEF Spawn
<1>2. parserUp' \in [Parsers -> BOOLEAN]
    BY Zenon DEF Spawn
<1> QED BY <1>1, <1>2

LEMMA SendShardsType ==
    ASSUME TypeOK, NEW o \in Ops, NEW s \in Seq(Files), NEW n \in 0..Size, SendShards(o, s, n)
    PROVE  toParser' \in [Parsers -> Seq(ParserMsg)] /\ owed' \in [Ops -> SUBSET Parsers]
<1>1. ShardOwners(s, n) \subseteq 1..n /\ 1..n \subseteq Parsers
    BY SizeAssumption DEF ShardOwners, Parsers
<1>2. 0 \in Version
    BY BoundsAssumption DEF Version
<1>3. ASSUME NEW p \in ShardOwners(s, n)
      PROVE  ToParser(p, [kind |-> "indexAll", op |-> o, files |-> Shard(s, n, p), ver |-> 0])
                 \in Seq(ParserMsg)
    <2>1. n \in Nat \ {0} /\ p \in 1..n /\ p \in Parsers
        BY <1>1
    <2>2. Shard(s, n, p) \in Seq(Files)
        BY <2>1, ShardType
    <2> QED BY <1>2, <2>1, <2>2, CallMsgType, ToParserType DEF TypeOK
<1>4. toParser' \in [Parsers -> Seq(ParserMsg)]
    BY <1>3 DEF SendShards, TypeOK, WiresTypeOK
<1>5. owed' \in [Ops -> SUBSET Parsers]
    BY <1>1 DEF SendShards, TypeOK, PoolTypeOK
<1> QED BY <1>4, <1>5

LEMMA CallIndexAllType ==
    ASSUME TypeOK, NEW o \in BulkOps, NEW s \in Plans, NEW rb \in BOOLEAN, CallIndexAll(o, s, rb)
    PROVE  TypeOK'
<1> DEFINE want == IF Len(s) < Size THEN Len(s) ELSE Size
           n == IF nw < want THEN want ELSE nw
<1>1. o \in Ops /\ s \in Seq(Files)
    BY PlansAssumption DEF Ops
<1>2. n \in 0..Size
    BY <1>1, SizeAssumption DEF TypeOK, PoolTypeOK
<1>3. Spawn(n)
    BY DEF CallIndexAll
<1>4. nw' \in 0..Size /\ parserUp' \in [Parsers -> BOOLEAN]
    BY <1>2, <1>3, SpawnType
<1>5. toWriter' \in Seq(WriterMsg)
    <2>1. toWriter' = toWriter \/ toWriter' = ToWriter("dropIndexes", o, <<>>)
        BY DEF CallIndexAll
    <2>2. <<>> \in Seq(Files)
        OBVIOUS
    <2>3. ToWriter("dropIndexes", o, <<>>) \in Seq(WriterMsg)
        BY <1>1, <2>2, ToWriterType DEF TypeOK
    <2> QED BY <2>1, <2>3 DEF TypeOK, WiresTypeOK
<1>6. toParser' \in [Parsers -> Seq(ParserMsg)] /\ owed' \in [Ops -> SUBSET Parsers]
    <2>1. UNCHANGED <<toParser, owed>> \/ SendShards(o, s, n)
        BY DEF CallIndexAll
    <2> QED BY <1>1, <1>2, <2>1, SendShardsType DEF TypeOK, WiresTypeOK, PoolTypeOK
<1>7. pc' \in [Ops -> PCs] /\ files' \in [Ops -> Seq(Files)]
    BY <1>1 DEF CallIndexAll, TypeOK, PoolTypeOK, PCs, Active, AwaitsWriter
<1>8. rebuild' \in [Ops -> BOOLEAN]
    BY <1>1, Zenon DEF CallIndexAll, TypeOK, PoolTypeOK
<1>9. WiresTypeOK'
    BY <1>5, <1>6 DEF CallIndexAll, TypeOK, WiresTypeOK
<1>10. WriterTypeOK' /\ ParsersTypeOK'
    BY <1>4 DEF CallIndexAll, TypeOK, WriterTypeOK, writerVars, ParsersTypeOK, threadVars
<1>11. PoolTypeOK'
    BY <1>4, <1>6, <1>7, <1>8 DEF CallIndexAll, TypeOK, PoolTypeOK
<1> QED BY <1>9, <1>10, <1>11 DEF TypeOK

LEMMA PickType == TypeOK => Pick.n \in 1..Size /\ Pick.p \in 1..Pick.n
<1> SUFFICES ASSUME TypeOK PROVE Pick.n \in 1..Size /\ Pick.p \in 1..Pick.n
    OBVIOUS
<1>1. nw \in 0..Size /\ rr \in Nat /\ Size \in Nat \ {0}
    BY SizeAssumption DEF TypeOK, PoolTypeOK
<1> DEFINE n == IF nw = 0 THEN 1 ELSE nw
<1>2. n \in 1..Size
    BY <1>1
<1>3. rr % n \in 0..n-1
    BY <1>1, <1>2
<1>4. Pick.n = n /\ Pick.p = (rr % n) + 1
    BY DEF Pick
<1> HIDE DEF n
<1> QED BY <1>1, <1>2, <1>3, <1>4

LEMMA CallParserType ==
    ASSUME TypeOK, NEW o \in Ops, NEW f \in Files, NEW v \in Version,
           NEW kind \in {"reindex", "reindexContent"}, CallParser(o, kind, f, v),
           edits' \in 0..MaxEdits, notice' \in [Files -> {"none", "change", "delete"}]
    PROVE  TypeOK'
<1> DEFINE m == [kind |-> kind, op |-> o, files |-> <<f>>, ver |-> v]
<1>1. Pick.n \in 0..Size /\ Pick.p \in Parsers
    BY PickType, SizeAssumption DEF Parsers
<1>2. nw' \in 0..Size /\ parserUp' \in [Parsers -> BOOLEAN]
    BY <1>1, SpawnType DEF CallParser
<1>3. <<f>> \in Seq(Files)
    OBVIOUS
<1>4. m \in ParserMsg
    BY <1>3, CallMsgType
<1>5. ToParser(Pick.p, m) \in Seq(ParserMsg)
    BY <1>1, <1>4, ToParserType DEF TypeOK
<1>6. toParser' \in [Parsers -> Seq(ParserMsg)]
    BY <1>5 DEF CallParser, TypeOK, WiresTypeOK
<1>7. pc' \in [Ops -> PCs] /\ files' \in [Ops -> Seq(Files)]
    BY <1>3 DEF CallParser, TypeOK, PoolTypeOK, PCs, Active, AwaitsWriter
<1>8. owed' \in [Ops -> SUBSET Parsers] /\ rr' \in Nat
    BY <1>1 DEF CallParser, TypeOK, PoolTypeOK
<1>9. WiresTypeOK'
    BY <1>6 DEF CallParser, TypeOK, WiresTypeOK
<1>10. WriterTypeOK' /\ ParsersTypeOK'
    BY <1>2 DEF CallParser, TypeOK, WriterTypeOK, writerVars, ParsersTypeOK, threadVars
<1>11. PoolTypeOK'
    BY <1>2, <1>7, <1>8 DEF CallParser, TypeOK, PoolTypeOK
<1> QED BY <1>9, <1>10, <1>11 DEF TypeOK

LEMMA CallType == ASSUME TypeOK, Call PROVE TypeOK'
<1>1. \A f \in Files : <<f>> \in Seq(Files)
    OBVIOUS
<1>2. ASSUME NEW o \in BulkOps, NEW s \in Plans, NEW rb \in BOOLEAN, CallIndexAll(o, s, rb)
      PROVE  TypeOK'
    BY <1>2, CallIndexAllType
<1>3. ASSUME NEW o \in ReindexOps, NEW f \in Files, CallReindex(o, f)
      PROVE  TypeOK'
    <2>1. notice' \in [Files -> {"none", "change", "delete"}]
        BY <1>3 DEF CallReindex, TypeOK, PoolTypeOK
    <2>2. 0 \in Version /\ edits' \in 0..MaxEdits /\ o \in Ops
        BY <1>3, BoundsAssumption DEF CallReindex, Version, TypeOK, WiresTypeOK, Ops
    <2> QED BY <1>3, <2>1, <2>2, CallParserType DEF CallReindex
<1>4. ASSUME NEW o \in LiveOps, NEW f \in Files, CallReindexContent(o, f)
      PROVE  TypeOK'
    <2>1. notice' \in [Files -> {"none", "change", "delete"}]
        BY <1>4 DEF CallReindexContent, TypeOK, PoolTypeOK
    <2>2. edits + 2 \in Version /\ edits' \in 0..MaxEdits /\ o \in Ops
        BY <1>4, BoundsAssumption DEF CallReindexContent, Version, TypeOK, WiresTypeOK, Ops
    <2> QED BY <1>4, <2>1, <2>2, CallParserType DEF CallReindexContent
<1>5. ASSUME NEW o \in RemoveOps, NEW f \in Files, CallRemove(o, f)
      PROVE  TypeOK'
    <2>1. o \in Ops /\ <<f>> \in Seq(Files)
        BY <1>1 DEF Ops
    <2>2. toWriter' \in Seq(WriterMsg)
        BY <1>5, <2>1, ToWriterType DEF CallRemove, TypeOK
    <2>3. WiresTypeOK'
        BY <1>5, <2>2 DEF CallRemove, TypeOK, WiresTypeOK
    <2>4. WriterTypeOK' /\ ParsersTypeOK'
        BY <1>5 DEF CallRemove, TypeOK, WriterTypeOK, writerVars, ParsersTypeOK, parserVars, threadVars
    <2>5. PoolTypeOK'
        BY <1>5, <2>1 DEF CallRemove, TypeOK, PoolTypeOK, PCs, Active, AwaitsWriter
    <2> QED BY <2>3, <2>4, <2>5 DEF TypeOK
<1>6. CASE Cancel
    <2>1. \A p \in Parsers : ToParser(p, CancelMsg) \in Seq(ParserMsg)
        BY ToParserType DEF TypeOK, ParserMsg
    <2>2. toParser' \in [Parsers -> Seq(ParserMsg)]
        BY <1>6, <2>1 DEF Cancel, TypeOK, WiresTypeOK
    <2>3. WiresTypeOK'
        BY <1>6, <2>2 DEF Cancel, TypeOK, WiresTypeOK
    <2>4. WriterTypeOK' /\ ParsersTypeOK'
        BY <1>6 DEF Cancel, TypeOK, WriterTypeOK, writerVars, ParsersTypeOK, parserVars, threadVars
    <2>5. PoolTypeOK'
        BY <1>6, CancelsAssumption DEF Cancel, TypeOK, PoolTypeOK
    <2> QED BY <2>3, <2>4, <2>5 DEF TypeOK
<1> QED BY <1>2, <1>3, <1>4, <1>5, <1>6 DEF Call

LEMMA ParserResultType ==
    ASSUME TypeOK, NEW p \in Parsers, ParserResult(p)
    PROVE  TypeOK'
<1> DEFINE r == Head(fromParser[p])
           owing == {o \in Ops : p \in owed[o]}
<1>1. r \in Result /\ fromParser' \in [Parsers -> Seq(Result)]
    BY DEF ParserResult, TypeOK, WiresTypeOK
<1>2. /\ pc' \in [Ops -> PCs]
      /\ owed' \in [Ops -> SUBSET Parsers]
      /\ toWriter' \in Seq(WriterMsg)
    <2>1. pc \in [Ops -> PCs] /\ owed \in [Ops -> SUBSET Parsers] /\ toWriter \in Seq(WriterMsg)
        BY DEF TypeOK, PoolTypeOK, WiresTypeOK
    <2>2. {"failed", "flush"} \subseteq PCs
        BY DEF PCs, Active, AwaitsWriter
    <2>3. \A o \in Ops : ToWriter("flush", o, <<>>) \in Seq(WriterMsg)
        <3>1. <<>> \in Seq(Files)
            OBVIOUS
        <3> QED BY <3>1, ToWriterType DEF TypeOK
    <2>4. CASE /\ pc' = [o \in Ops |-> IF o \in owing THEN "failed" ELSE pc[o]]
               /\ owed' = [o \in Ops |-> IF o \in owing THEN {} ELSE owed[o]]
               /\ UNCHANGED toWriter
        BY <2>1, <2>2, <2>4
    <2>5. CASE UNCHANGED <<pc, owed, toWriter>>
        BY <2>1, <2>5
    <2>6. CASE /\ r.op \in owing
               /\ pc' = [pc EXCEPT ![r.op] = "failed"]
               /\ owed' = [owed EXCEPT ![r.op] = {}]
               /\ UNCHANGED toWriter
        BY <2>1, <2>2, <2>6
    <2>7. CASE /\ r.op \in owing
               /\ owed' = [owed EXCEPT ![r.op] = @ \ {p}]
               /\ IF AllAnswered(r.op, p) THEN ParsedNext(r.op) ELSE UNCHANGED <<pc, toWriter>>
        <3>1. owed' \in [Ops -> SUBSET Parsers]
            BY <2>1, <2>7
        <3>2. CASE UNCHANGED <<pc, toWriter>>
            BY <2>1, <3>1, <3>2
        <3>3. CASE ParsedNext(r.op)
            BY <2>1, <2>2, <2>3, <2>7, <3>1, <3>3 DEF ParsedNext
        <3> QED BY <2>7, <3>2, <3>3
    <2> QED BY <2>4, <2>5, <2>6, <2>7 DEF ParserResult
<1>3. WiresTypeOK'
    BY <1>1, <1>2 DEF ParserResult, TypeOK, WiresTypeOK
<1>4. WriterTypeOK' /\ ParsersTypeOK'
    BY DEF ParserResult, TypeOK, WriterTypeOK, writerVars, ParsersTypeOK, parserVars, threadVars
<1>5. PoolTypeOK'
    BY <1>2 DEF ParserResult, TypeOK, PoolTypeOK
<1> QED BY <1>3, <1>4, <1>5 DEF TypeOK

LEMMA WriterResultType ==
    ASSUME TypeOK, WriterResult
    PROVE  TypeOK'
<1> DEFINE o == Head(fromWriter).op
           next == NextPC(o, Head(fromWriter).ok)
<1>1. Head(fromWriter) \in Result /\ fromWriter' \in Seq(Result)
    BY DEF WriterResult, TypeOK, WiresTypeOK
<1>2. o \in Ops
    BY <1>1 DEF WriterResult, Result
<1>3. next \in {"parse", "create", "resolve", "done", "failed"}
    BY DEF NextPC
<1>4. pc' \in [Ops -> PCs]
    BY <1>2, <1>3 DEF WriterResult, TypeOK, PoolTypeOK, PCs, Active, AwaitsWriter
<1>5. files[o] \in Seq(Files) /\ nw \in 0..Size /\ <<>> \in Seq(Files)
    BY <1>2 DEF TypeOK, PoolTypeOK
<1>6. toParser' \in [Parsers -> Seq(ParserMsg)] /\ owed' \in [Ops -> SUBSET Parsers]
    <2>1. UNCHANGED <<toParser, owed>> \/ SendShards(o, files[o], nw)
        BY DEF WriterResult
    <2> QED BY <1>2, <1>5, <2>1, SendShardsType DEF TypeOK, WiresTypeOK, PoolTypeOK
<1>7. toWriter' \in Seq(WriterMsg)
    <2>1. toWriter' \in {toWriter, ToWriter("createIndexes", o, <<>>),
                         ToWriter("resolveParents", o, files[o])}
        BY DEF WriterResult
    <2>2. ToWriter("createIndexes", o, <<>>) \in Seq(WriterMsg)
        BY <1>2, <1>5, ToWriterType DEF TypeOK
    <2>3. ToWriter("resolveParents", o, files[o]) \in Seq(WriterMsg)
        BY <1>2, <1>5, ToWriterType DEF TypeOK
    <2> QED BY <2>1, <2>2, <2>3 DEF TypeOK, WiresTypeOK
<1>8. WiresTypeOK'
    BY <1>1, <1>6, <1>7 DEF WriterResult, TypeOK, WiresTypeOK
<1>9. WriterTypeOK' /\ ParsersTypeOK'
    BY DEF WriterResult, TypeOK, WriterTypeOK, writerVars, ParsersTypeOK, parserVars, threadVars
<1>10. PoolTypeOK'
    BY <1>4, <1>6 DEF WriterResult, TypeOK, PoolTypeOK
<1> QED BY <1>8, <1>9, <1>10 DEF TypeOK

LEMMA WriterErrorType ==
    ASSUME TypeOK, WriterError
    PROVE  TypeOK'
<1>1. fromWriter' \in Seq(Result)
    BY DEF WriterError, TypeOK, WiresTypeOK
<1>2. \A o \in Ops : NextPC(o, FALSE) \in PCs
    BY DEF NextPC, PCs, Active, AwaitsWriter
<1>3. pc' \in [Ops -> PCs]
    BY <1>2 DEF WriterError, TypeOK, PoolTypeOK
<1>4. toParser' \in [Parsers -> Seq(ParserMsg)] /\ owed' \in [Ops -> SUBSET Parsers]
    <2>1. CASE UNCHANGED <<toParser, owed>>
        BY <2>1 DEF TypeOK, WiresTypeOK, PoolTypeOK
    <2>2. CASE \E o \in Ops : pc[o] = "drop"
        <3> DEFINE o == CHOOSE x \in Ops : pc[x] = "drop"
        <3>1. o \in Ops
            BY <2>2
        <3>2. SendShards(o, files[o], nw)
            BY <2>2 DEF WriterError
        <3>3. files[o] \in Seq(Files) /\ nw \in 0..Size
            BY <3>1 DEF TypeOK, PoolTypeOK
        <3> HIDE DEF o
        <3> QED BY <3>1, <3>2, <3>3, SendShardsType
    <2> QED BY <2>1, <2>2 DEF WriterError
<1>5. WiresTypeOK'
    BY <1>1, <1>4 DEF WriterError, TypeOK, WiresTypeOK
<1>6. WriterTypeOK' /\ ParsersTypeOK'
    BY DEF WriterError, TypeOK, WriterTypeOK, writerVars, ParsersTypeOK, parserVars, threadVars
<1>7. PoolTypeOK'
    BY <1>3, <1>4 DEF WriterError, TypeOK, PoolTypeOK
<1> QED BY <1>5, <1>6, <1>7 DEF TypeOK

LEMMA WorkspaceType ==
    ASSUME TypeOK, NEW f \in Files, Workspace(f)
    PROVE  TypeOK'
<1>1. edits' \in 0..MaxEdits /\ edits + 2 \in Version /\ 0 \in Version
    BY BoundsAssumption DEF Workspace, TypeOK, WiresTypeOK, Version
<1>2. disk' \in [Files -> Version] /\ notice' \in [Files -> {"none", "change", "delete"}]
    BY <1>1 DEF Workspace, ChangeFile, DeleteFile, TypeOK, WiresTypeOK, PoolTypeOK
<1>3. WiresTypeOK'
    BY <1>1, <1>2 DEF Workspace, TypeOK, WiresTypeOK
<1>4. WriterTypeOK' /\ ParsersTypeOK'
    BY DEF Workspace, TypeOK, WriterTypeOK, writerVars, ParsersTypeOK, parserVars, threadVars
<1>5. PoolTypeOK'
    BY <1>2 DEF Workspace, TypeOK, PoolTypeOK
<1> QED BY <1>3, <1>4, <1>5 DEF TypeOK

----------------------------------------------------------------------------
(* The inductive invariant of type correctness. TypeOK alone is not inductive: *)
(* a handler that parses takes the head of its files.                         *)

TypeInv == TypeOK /\ HasFile

\* The steps of the host and of the workspace.
LEMMA HostKeepsTypes ==
    ASSUME TypeInv, Call \/ HostResult \/ \E f \in Files : Workspace(f)
    PROVE  TypeInv'
<1>1. TypeOK'
    BY CallType, ParserResultType, WriterResultType, WriterErrorType, WorkspaceType
       DEF HostResult, TypeInv
<1>2. UNCHANGED threadVars
    BY DEF Call, CallIndexAll, CallReindex, CallReindexContent, CallParser, CallRemove, Cancel,
           HostResult, ParserResult, WriterResult, WriterError, Workspace, parserVars
<1>3. HasFile'
    BY <1>2 DEF TypeInv, HasFile, threadVars
<1> QED BY <1>1, <1>3 DEF TypeInv

LEMMA NextKeepsTypes == ASSUME TypeInv, [Next]_vars PROVE TypeInv'
<1>1. WiresTypeOK /\ WriterTypeOK /\ ParsersTypeOK /\ PoolTypeOK /\ HasFile
    BY DEF TypeInv, TypeOK
<1>2. CASE Call \/ HostResult \/ \E f \in Files : Workspace(f)
    BY <1>2, HostKeepsTypes
<1>3. CASE WriterNext /\ UNCHANGED <<parserVars, poolVars>>
    <2>1. WiresTypeOK' /\ WriterTypeOK'
        BY <1>1, <1>3, ReceiveApplyType, TimerFiresType, WriterRequestType DEF WriterNext
    <2>2. ParsersTypeOK' /\ HasFile'
        BY <1>1, <1>3 DEF parserVars, threadVars, ParsersTypeOK, HasFile
    <2>3. PoolTypeOK'
        BY <1>1, <1>3 DEF poolVars, PoolTypeOK
    <2> QED BY <2>1, <2>2, <2>3 DEF TypeInv, TypeOK
<1>4. CASE ParsersNext /\ UNCHANGED <<writerVars, poolVars>>
    <2>1. PICK p \in Parsers : LoopTurn(p) \/ (\E o \in Ops : HandlerStep(p, o)) \/ ParserDies(p)
        BY <1>4 DEF ParsersNext
    <2>2. WiresTypeOK' /\ ParsersTypeOK'
        BY <1>1, <2>1, HandlerStepType, LoopTurnType, ParserDiesType
    <2>3. HasFile'
        BY <1>1, <2>1, HandlerKeepsFile, LoopKeepsFile, DeathKeepsFile
    <2>4. WriterTypeOK'
        BY <1>1, <1>4 DEF writerVars, WriterTypeOK
    <2>5. PoolTypeOK'
        BY <1>1, <1>4 DEF poolVars, PoolTypeOK
    <2> QED BY <2>2, <2>3, <2>4, <2>5 DEF TypeInv, TypeOK
<1>5. CASE UNCHANGED vars
    <2>1. WiresTypeOK'
        BY <1>1, <1>5 DEF vars, wires, WiresTypeOK
    <2>2. WriterTypeOK'
        BY <1>1, <1>5 DEF vars, writerVars, WriterTypeOK
    <2>3. ParsersTypeOK' /\ HasFile'
        BY <1>1, <1>5 DEF vars, parserVars, threadVars, ParsersTypeOK, HasFile
    <2>4. PoolTypeOK'
        BY <1>1, <1>5 DEF vars, poolVars, PoolTypeOK
    <2> QED BY <2>1, <2>2, <2>3, <2>4 DEF TypeInv, TypeOK
<1> QED BY <1>2, <1>3, <1>4, <1>5 DEF Next

THEOREM TypeInvariance == Spec => []TypeInv
<1>1. Init => TypeInv
    BY InitType, HasFileInit DEF TypeInv
<1>2. TypeInv /\ [Next]_vars => TypeInv'
    BY NextKeepsTypes
<1> QED BY <1>1, <1>2, PTL DEF Spec

\* Type correctness (worker.ts, workerPool.ts): every message, counter and table
\* of the pipeline stays of its type, however many threads die or statements fail.
THEOREM TypeCorrect == Spec => []TypeOK
<1>1. TypeInv => TypeOK
    BY DEF TypeInv
<1> QED BY <1>1, TypeInvariance, PTL

----------------------------------------------------------------------------
(* No entry is stranded in the writer's batch. NoStrandedEntry alone is not    *)
(* inductive: an entry joins an empty batch whose timer must then be off, for  *)
(* only then is it armed.                                                     *)

BatchTimed ==
    fails = 0 => /\ Len(batch) < BatchMax
                 /\ timer = IF batch = <<>> THEN "off" ELSE "armed"

LEMMA BatchTimedInit == Init => BatchTimed
BY BatchAssumption DEF Init, WriterInit, BatchTimed

\* Without a failure no step of the writer leaves an entry without a timer.
LEMMA WriterKeepsTimed ==
    ASSUME TypeOK, BatchTimed, WriterNext
    PROVE  BatchTimed'
<1> SUFFICES ASSUME fails' = 0
             PROVE  /\ Len(batch') < BatchMax
                    /\ timer' = IF batch' = <<>> THEN "off" ELSE "armed"
    BY DEF BatchTimed
<1>1. fails \in Nat /\ batch \in Seq(Entry) /\ BatchMax \in Nat \ {0}
    BY BatchAssumption DEF TypeOK, WiresTypeOK, WriterTypeOK
<1>2. ~OneFailure
    BY <1>1 DEF OneFailure
<1>3. fails = 0
    BY <1>2 DEF WriterNext, ReceiveApply, TimerFires, WriterRequest, Flush, Remove, ResolveParents,
                FlushingRequestThrows, FlushThrows, StatementThrows, DropIndexes, CreateIndexes
<1>4. Len(batch) < BatchMax /\ timer = IF batch = <<>> THEN "off" ELSE "armed"
    BY <1>3 DEF BatchTimed
<1>5. ASSUME NEW b \in Seq(Entry), FlushBatch(b), b = <<>> => timer = "off"
      PROVE  /\ Len(batch') < BatchMax
             /\ timer' = IF batch' = <<>> THEN "off" ELSE "armed"
    BY <1>1, <1>5 DEF FlushBatch, TimerAfter
<1>6. ASSUME NEW p \in Parsers, ReceiveApply(p)
      PROVE  /\ Len(batch') < BatchMax
             /\ timer' = IF batch' = <<>> THEN "off" ELSE "armed"
    <2> DEFINE e == Head(applyPort[p])
               b == Append(batch, [file |-> e.file, ver |-> e.ver, port |-> p])
    <2>1. e \in ApplyMsg
        BY <1>6 DEF ReceiveApply, TypeOK, WiresTypeOK
    <2>2. b \in Seq(Entry) /\ b # <<>>
        BY <1>1, <2>1 DEF ApplyMsg, Entry
    <2>3. CASE Len(b) < BatchMax /\ batch' = b /\ timer' = IF timer = "off" THEN "armed" ELSE timer
        BY <1>4, <2>2, <2>3
    <2>4. CASE FlushBatch(b)
        BY <1>5, <2>2, <2>4
    <2> QED BY <1>2, <1>6, <2>3, <2>4 DEF ReceiveApply
<1>7. CASE TimerFires
    <2>1. batch # <<>>
        BY <1>4, <1>7 DEF TimerFires
    <2>2. FlushBatch(batch)
        BY <1>2, <1>7, <2>1 DEF TimerFires
    <2> QED BY <1>1, <1>5, <2>1, <2>2
<1>8. CASE WriterRequest
    <2>1. FlushBatch(batch) \/ UNCHANGED <<batch, timer>>
        BY <1>2, <1>8 DEF WriterRequest, Flush, Remove, ResolveParents, FlushingRequestThrows,
            FlushThrows, StatementThrows, DropIndexes, CreateIndexes
    <2> QED BY <1>1, <1>4, <1>5, <2>1
<1> QED BY <1>6, <1>7, <1>8 DEF WriterNext

\* While SQLite has accepted every statement and no thread died, an entry that
\* waits in the batch has a timer coming and the batch is not full (worker.ts:31-55).
THEOREM EntriesNeverStranded == Spec => []NoStrandedEntry
<1>1. Init => BatchTimed
    BY BatchTimedInit
<1>2. TypeOK /\ BatchTimed /\ [Next]_vars => BatchTimed'
    <2> SUFFICES ASSUME TypeOK, BatchTimed, [Next]_vars PROVE BatchTimed'
        OBVIOUS
    <2>1. CASE WriterNext
        BY <2>1, WriterKeepsTimed
    <2>2. CASE UNCHANGED <<batch, timer>> /\ (fails' = 0 => fails = 0)
        BY <2>2 DEF BatchTimed
    <2>3. fails \in Nat
        BY DEF TypeOK, WiresTypeOK
    <2>4. CASE ParsersNext /\ UNCHANGED <<writerVars, poolVars>>
        <3>1. UNCHANGED fails \/ OneFailure
            <4>1. PICK p \in Parsers :
                    LoopTurn(p) \/ (\E o \in Ops : HandlerStep(p, o)) \/ ParserDies(p)
                BY <2>4 DEF ParsersNext
            <4>2. CASE LoopTurn(p)
                BY <4>2 DEF LoopTurn, ReceiveRequest, RuntimeReady, GrammarLoaded, ReceiveAck, wires
            <4>3. ASSUME NEW o \in Ops, HandlerStep(p, o) PROVE UNCHANGED fails \/ OneFailure
                BY <4>3 DEF HandlerStep, Start, BeginFile, PostApply, ParseThrows, Finish, wires
            <4>4. CASE ParserDies(p)
                BY <4>4 DEF ParserDies
            <4> QED BY <4>1, <4>2, <4>3, <4>4
        <3> QED BY <2>2, <2>3, <2>4, <3>1 DEF OneFailure, writerVars
    <2>5. CASE Call \/ HostResult \/ \E f \in Files : Workspace(f)
        <3>1. UNCHANGED <<writerVars, fails>>
            BY <2>5 DEF Call, CallIndexAll, CallReindex, CallReindexContent, CallParser,
                CallRemove, Cancel, HostResult, ParserResult, WriterResult, WriterError, Workspace
        <3> QED BY <2>2, <3>1 DEF writerVars
    <2>6. CASE UNCHANGED vars
        BY <2>2, <2>6 DEF vars, wires, writerVars
    <2> QED BY <2>1, <2>4, <2>5, <2>6 DEF Next
<1>3. BatchTimed => NoStrandedEntry
    BY DEF BatchTimed, NoStrandedEntry
<1> QED BY <1>1, <1>2, <1>3, TypeCorrect, PTL DEF Spec

----------------------------------------------------------------------------
(* A parser never sleeps on a window with room. The handler waitResolve names  *)
(* stays suspended because no second request of its op can start it again:     *)
(* the host sends a parser at most one request per op.                        *)

Asked(q, o) == \E i \in DOMAIN q : q[i].op = o
Once(q, o) == \A i, j \in DOMAIN q : q[i].op = o /\ q[j].op = o => i = j

LEMMA AppendAsked ==
    ASSUME NEW S, NEW q \in Seq(S), NEW m \in S, NEW o
    PROVE  /\ Asked(Append(q, m), o) <=> Asked(q, o) \/ m.op = o
           /\ Once(q, o) /\ (m.op = o => ~Asked(q, o)) => Once(Append(q, m), o)
<1>1. /\ Append(q, m) \in Seq(S)
      /\ DOMAIN Append(q, m) = 1 .. Len(q) + 1
      /\ DOMAIN q = 1 .. Len(q)
      /\ Len(q) \in Nat
    OBVIOUS
<1>2. \A i \in 1 .. Len(q) + 1 : Append(q, m)[i] = IF i <= Len(q) THEN q[i] ELSE m
    OBVIOUS
<1>3. Asked(Append(q, m), o) <=> Asked(q, o) \/ m.op = o
    <2>1. Asked(Append(q, m), o) => Asked(q, o) \/ m.op = o
        BY <1>1, <1>2 DEF Asked
    <2>2. Asked(q, o) => Asked(Append(q, m), o)
        BY <1>1, <1>2 DEF Asked
    <2>3. m.op = o => Asked(Append(q, m), o)
        BY <1>1, <1>2 DEF Asked
    <2> QED BY <2>1, <2>2, <2>3
<1>4. ASSUME Once(q, o), m.op = o => ~Asked(q, o), NEW i \in 1 .. Len(q) + 1,
             NEW j \in 1 .. Len(q) + 1, Append(q, m)[i].op = o, Append(q, m)[j].op = o
      PROVE  i = j
    BY <1>1, <1>2, <1>4 DEF Once, Asked
<1> QED BY <1>1, <1>3, <1>4 DEF Once

LEMMA TailAsked ==
    ASSUME NEW S, NEW q \in Seq(S), q # <<>>, NEW o
    PROVE  /\ Asked(Tail(q), o) => Asked(q, o)
           /\ Once(q, o) => Once(Tail(q), o)
           /\ Once(q, o) /\ Head(q).op = o => ~Asked(Tail(q), o)
           /\ Asked(q, Head(q).op)
<1>1. /\ DOMAIN Tail(q) = 1 .. Len(q) - 1
      /\ DOMAIN q = 1 .. Len(q)
      /\ Len(q) \in Nat \ {0}
      /\ Head(q) = q[1]
    OBVIOUS
<1>2. \A i \in 1 .. Len(q) - 1 : Tail(q)[i] = q[i + 1] /\ i + 1 \in 1 .. Len(q)
    OBVIOUS
<1>3. ASSUME Asked(Tail(q), o) PROVE Asked(q, o)
    BY <1>1, <1>2, <1>3 DEF Asked
<1>4. ASSUME Once(q, o), NEW i \in DOMAIN Tail(q), NEW j \in DOMAIN Tail(q),
             Tail(q)[i].op = o, Tail(q)[j].op = o
      PROVE  i = j
    <2>1. i + 1 = j + 1
        BY <1>1, <1>2, <1>4 DEF Once
    <2> QED BY <1>1, <2>1
<1>5. ASSUME Once(q, o), Head(q).op = o, Asked(Tail(q), o) PROVE FALSE
    <2>1. PICK i \in 1 .. Len(q) - 1 : q[i + 1].op = o
        BY <1>1, <1>2, <1>5 DEF Asked
    <2>2. 1 \in DOMAIN q /\ i + 1 \in DOMAIN q /\ q[1].op = o
        BY <1>1, <1>2, <1>5
    <2>3. 1 = i + 1
        BY <1>5, <2>1, <2>2 DEF Once
    <2> QED BY <1>1, <2>3
<1>6. Asked(q, Head(q).op)
    BY <1>1 DEF Asked
<1> QED BY <1>3, <1>4, <1>5, <1>6 DEF Once

Unsent == {"idle", "drop"}

\* The request of o to p is sent at most once, and before it is received no
\* handler of o is at work.
SentOnceTo(p, o) ==
    /\ pc[o] \in Unsent => at[p][o] = "none" /\ ~Asked(toParser[p], o)
    /\ Asked(toParser[p], o) => at[p][o] = "none"
    /\ Once(toParser[p], o)
SentOnce == \A p \in Parsers, o \in Ops : SentOnceTo(p, o)

\* The host appends at most one request, of an op it has not sent yet.
HostSends(p, o) ==
    /\ pc'[o] \in Unsent => pc[o] \in Unsent
    /\ \/ toParser'[p] = toParser[p]
       \/ \E m \in ParserMsg :
            /\ toParser'[p] = Append(toParser[p], m)
            /\ m.op = o => pc[o] \in Unsent /\ pc'[o] \notin Unsent

LEMMA HostSendsOnce ==
    ASSUME TypeOK, NEW p \in Parsers, NEW o \in Ops, SentOnceTo(p, o), HostSends(p, o), at' = at
    PROVE  SentOnceTo(p, o)'
<1>1. CASE toParser'[p] = toParser[p]
    BY <1>1 DEF HostSends, SentOnceTo
<1>2. ASSUME NEW m \in ParserMsg, toParser'[p] = Append(toParser[p], m),
             m.op = o => pc[o] \in Unsent /\ pc'[o] \notin Unsent
      PROVE  SentOnceTo(p, o)'
    <2>1. toParser[p] \in Seq(ParserMsg)
        BY DEF TypeOK, WiresTypeOK
    <2>2. /\ Asked(toParser'[p], o) => Asked(toParser[p], o) \/ m.op = o
          /\ Once(toParser[p], o) /\ (m.op = o => ~Asked(toParser[p], o)) => Once(toParser'[p], o)
        BY <1>2, <2>1, AppendAsked
    <2> QED BY <1>2, <2>2 DEF SentOnceTo, HostSends
<1> QED BY <1>1, <1>2 DEF HostSends

\* What sending the shards of s does to the wire of one parser.
LEMMA ShardsSent ==
    ASSUME TypeOK, NEW o \in Ops, NEW s \in Seq(Files), NEW n \in 0..Size, SendShards(o, s, n),
           NEW p \in Parsers
    PROVE  \/ toParser'[p] = toParser[p]
           \/ \E m \in ParserMsg : toParser'[p] = Append(toParser[p], m) /\ m.op = o
<1> DEFINE m == [kind |-> "indexAll", op |-> o, files |-> Shard(s, n, p), ver |-> 0]
<1>1. CASE p \notin ShardOwners(s, n)
    BY <1>1 DEF SendShards
<1>2. CASE p \in ShardOwners(s, n)
    <2>1. n \in Nat \ {0} /\ p \in 1..n
        BY <1>2, SizeAssumption DEF ShardOwners
    <2>2. 0 \in Version
        BY BoundsAssumption DEF Version
    <2>3. m \in ParserMsg
        BY <2>1, <2>2, ShardType, CallMsgType
    <2>4. toParser'[p] \in {toParser[p], Append(toParser[p], m)}
        BY <1>2 DEF SendShards, ToParser
    <2> QED BY <2>3, <2>4
<1> QED BY <1>1, <1>2

LEMMA CallSends ==
    ASSUME TypeOK, Call, NEW p \in Parsers, NEW x \in Ops
    PROVE  HostSends(p, x)
<1>1. pc \in [Ops -> PCs] /\ toParser \in [Parsers -> Seq(ParserMsg)]
    BY DEF TypeOK, PoolTypeOK, WiresTypeOK
<1>2. ASSUME NEW o \in BulkOps, NEW s \in Plans, NEW rb \in BOOLEAN, CallIndexAll(o, s, rb)
      PROVE  HostSends(p, x)
    <2> DEFINE want == IF Len(s) < Size THEN Len(s) ELSE Size
               n == IF nw < want THEN want ELSE nw
    <2>1. o \in Ops /\ s \in Seq(Files) /\ n \in 0..Size
        BY PlansAssumption, SizeAssumption DEF Ops, TypeOK, PoolTypeOK
    <2>2. pc[o] = "idle"
        BY <1>2 DEF CallIndexAll
    <2>3. CASE pc' = [pc EXCEPT ![o] = "drop"] /\ UNCHANGED toParser
        BY <1>1, <2>1, <2>2, <2>3 DEF HostSends, Unsent
    <2>4. CASE pc' = [pc EXCEPT ![o] = "parse"] /\ SendShards(o, s, n)
        <3>1. pc'[o] = "parse" /\ (x # o => pc'[x] = pc[x])
            BY <1>1, <2>1, <2>4
        <3>2. \/ toParser'[p] = toParser[p]
              \/ \E m \in ParserMsg : toParser'[p] = Append(toParser[p], m) /\ m.op = o
            BY <2>1, <2>4, ShardsSent
        <3> QED BY <2>2, <3>1, <3>2 DEF HostSends, Unsent
    <2> QED BY <1>2, <2>3, <2>4 DEF CallIndexAll
<1>3. ASSUME NEW o \in Ops, NEW f \in Files, NEW v \in Version,
             NEW kind \in {"reindex", "reindexContent"}, CallParser(o, kind, f, v)
      PROVE  HostSends(p, x)
    <2> DEFINE m == [kind |-> kind, op |-> o, files |-> <<f>>, ver |-> v]
    <2>1. pc[o] = "idle" /\ pc'[o] = "parse" /\ (x # o => pc'[x] = pc[x])
        BY <1>1, <1>3 DEF CallParser
    <2>2. <<f>> \in Seq(Files)
        OBVIOUS
    <2>3. m \in ParserMsg /\ m.op = o
        BY <2>2, CallMsgType
    <2>4. toParser'[p] \in {toParser[p], ToParser(Pick.p, m), Append(toParser[p], m)}
          /\ (p # Pick.p => toParser'[p] = toParser[p])
        BY <1>1, <1>3 DEF CallParser
    <2>5. p = Pick.p => toParser'[p] \in {toParser[p], Append(toParser[p], m)}
        BY <1>1, <1>3 DEF CallParser, ToParser
    <2> HIDE DEF m
    <2> QED BY <2>1, <2>3, <2>4, <2>5 DEF HostSends, Unsent
<1>4. ASSUME NEW o \in ReindexOps, NEW f \in Files, CallReindex(o, f)
      PROVE  HostSends(p, x)
    <2>1. o \in Ops /\ 0 \in Version
        BY BoundsAssumption DEF Ops, Version
    <2> QED BY <1>3, <1>4, <2>1 DEF CallReindex
<1>5. ASSUME NEW o \in LiveOps, NEW f \in Files, CallReindexContent(o, f)
      PROVE  HostSends(p, x)
    <2>1. o \in Ops /\ edits + 2 \in Version
        BY <1>5, BoundsAssumption DEF CallReindexContent, Ops, Version, TypeOK, WiresTypeOK
    <2> QED BY <1>3, <1>5, <2>1 DEF CallReindexContent
<1>6. ASSUME NEW o \in RemoveOps, NEW f \in Files, CallRemove(o, f)
      PROVE  HostSends(p, x)
    <2>1. o \in Ops /\ pc' = [pc EXCEPT ![o] = "remove"] /\ toParser' = toParser
        BY <1>6 DEF CallRemove, Ops, parserVars
    <2> QED BY <1>1, <2>1 DEF HostSends, Unsent
<1>7. CASE Cancel
    <2>1. pc' = pc /\ toParser'[p] \in {toParser[p], Append(toParser[p], CancelMsg)}
        BY <1>7 DEF Cancel, ToParser
    <2>2. CancelMsg \in ParserMsg /\ CancelMsg.op # x
        BY OpsAssumption DEF ParserMsg, CancelMsg
    <2> HIDE DEF CancelMsg
    <2> QED BY <2>1, <2>2 DEF HostSends
<1> QED BY <1>2, <1>4, <1>5, <1>6, <1>7 DEF Call

LEMMA ResultSends ==
    ASSUME TypeOK, HostResult, NEW p \in Parsers, NEW x \in Ops
    PROVE  HostSends(p, x)
<1>1. pc \in [Ops -> PCs] /\ files \in [Ops -> Seq(Files)] /\ nw \in 0..Size
    BY DEF TypeOK, PoolTypeOK
<1>2. ASSUME NEW q \in Parsers, ParserResult(q)
      PROVE  HostSends(p, x)
    <2>1. toParser' = toParser
        BY <1>2 DEF ParserResult
    <2>2. pc'[x] \in {pc[x], "failed", "flush"}
        BY <1>1, <1>2 DEF ParserResult, ParsedNext
    <2> QED BY <2>1, <2>2 DEF HostSends, Unsent
<1>3. CASE WriterResult
    <2> DEFINE o == Head(fromWriter).op
               next == NextPC(o, Head(fromWriter).ok)
    <2>1. Head(fromWriter) \in Result
        BY <1>3 DEF WriterResult, TypeOK, WiresTypeOK
    <2>2. o \in Ops
        BY <1>3, <2>1 DEF WriterResult, Result
    <2>3. next \in {"parse", "create", "resolve", "done", "failed"} /\ (next = "parse" => pc[o] = "drop")
        BY DEF NextPC
    <2>4. pc'[o] = next /\ (x # o => pc'[x] = pc[x])
        BY <1>1, <1>3, <2>2 DEF WriterResult
    <2>5. CASE toParser' = toParser
        BY <2>3, <2>4, <2>5 DEF HostSends, Unsent
    <2>6. CASE next = "parse" /\ SendShards(o, files[o], nw)
        <3>1. \/ toParser'[p] = toParser[p]
              \/ \E m \in ParserMsg : toParser'[p] = Append(toParser[p], m) /\ m.op = o
            BY <1>1, <2>2, <2>6, ShardsSent
        <3> QED BY <2>3, <2>4, <2>6, <3>1 DEF HostSends, Unsent
    <2> QED BY <1>3, <2>5, <2>6 DEF WriterResult
<1>4. CASE WriterError
    <2>1. \A o \in Ops : NextPC(o, FALSE) \notin Unsent
        BY DEF NextPC, Unsent
    <2>2. /\ pc'[x] \in Unsent => pc[x] \in Unsent
          /\ pc[x] = "drop" => pc'[x] \notin Unsent
        BY <1>1, <1>4, <2>1 DEF WriterError, AwaitsWriter
    <2>3. CASE toParser' = toParser
        BY <2>2, <2>3 DEF HostSends
    <2>4. CASE \E o \in Ops : pc[o] = "drop"
        <3> DEFINE o == CHOOSE y \in Ops : pc[y] = "drop"
        <3>1. o \in Ops /\ pc[o] = "drop"
            BY <2>4
        <3>2. SendShards(o, files[o], nw)
            BY <1>4, <2>4 DEF WriterError
        <3> HIDE DEF o
        <3>3. \/ toParser'[p] = toParser[p]
              \/ \E m \in ParserMsg : toParser'[p] = Append(toParser[p], m) /\ m.op = o
            BY <1>1, <3>1, <3>2, ShardsSent
        <3> QED BY <2>2, <3>1, <3>3 DEF HostSends, Unsent
    <2> QED BY <1>4, <2>3, <2>4 DEF WriterError
<1> QED BY <1>2, <1>3, <1>4 DEF HostResult

\* A handler at work moves only its own cell, and no request of its op is queued.
LEMMA HandlerKeepsOnce ==
    ASSUME TypeOK, SentOnce, NEW p \in Parsers, NEW o \in Ops, HandlerStep(p, o), UNCHANGED poolVars
    PROVE  SentOnce'
<1> SUFFICES ASSUME NEW q \in Parsers, NEW x \in Ops PROVE SentOnceTo(q, x)'
    BY DEF SentOnce
<1>1. at \in [Parsers -> [Ops -> Places]]
    BY DEF TypeOK, ParsersTypeOK
<1>2. at[p][o] # "none"
    BY DEF HandlerStep, Start, BeginFile, PostApply, ParseThrows, Finish
<1>3. toParser' = toParser /\ pc' = pc
    BY DEF HandlerStep, Start, BeginFile, PostApply, ParseThrows, Finish, wires, poolVars
<1>4. q # p \/ x # o => at'[q][x] = at[q][x]
    BY <1>1 DEF HandlerStep, Start, BeginFile, PostApply, ParseThrows, Finish, Reply, Move
<1> QED BY <1>2, <1>3, <1>4 DEF SentOnce, SentOnceTo

LEMMA LoopKeepsOnce ==
    ASSUME TypeOK, SentOnce, NoMissedWakeup, NEW p \in Parsers, LoopTurn(p), UNCHANGED poolVars
    PROVE  SentOnce'
<1> SUFFICES ASSUME NEW q \in Parsers, NEW x \in Ops PROVE SentOnceTo(q, x)'
    BY DEF SentOnce
<1>1. at \in [Parsers -> [Ops -> Places]] /\ toParser \in [Parsers -> Seq(ParserMsg)]
    BY DEF TypeOK, ParsersTypeOK, WiresTypeOK
<1>2. pc' = pc
    BY DEF poolVars
<1>3. CASE ReceiveRequest(p)
    <2> DEFINE m == Head(toParser[p])
    <2>1. toParser' = [toParser EXCEPT ![p] = Tail(@)] /\ toParser[p] # <<>>
        BY <1>3 DEF ReceiveRequest
    <2>2. at'[q][x] = at[q][x] \/ (q = p /\ x = m.op)
        BY <1>1, <1>3 DEF ReceiveRequest, Move
    <2>3. CASE q # p
        BY <1>1, <1>2, <2>1, <2>2, <2>3 DEF SentOnce, SentOnceTo
    <2>4. CASE q = p
        <3>1. /\ Asked(Tail(toParser[p]), x) => Asked(toParser[p], x)
              /\ Once(toParser[p], x) => Once(Tail(toParser[p]), x)
              /\ Once(toParser[p], x) /\ m.op = x => ~Asked(Tail(toParser[p]), x)
              /\ Asked(toParser[p], m.op)
            BY <1>1, <2>1, TailAsked
        <3>2. toParser'[p] = Tail(toParser[p])
            BY <1>1, <2>1
        <3>3. SentOnceTo(p, x)
            BY DEF SentOnce
        <3> QED BY <1>2, <2>2, <2>4, <3>1, <3>2, <3>3 DEF SentOnceTo
    <2> QED BY <2>3, <2>4
<1>4. CASE RuntimeReady(p) \/ (\E o \in Ops : GrammarLoaded(p, o)) \/ ReceiveAck(p)
    <2>1. toParser' = toParser
        BY <1>4 DEF RuntimeReady, GrammarLoaded, ReceiveAck, wires
    <2>2. at[q][x] = "none" => at'[q][x] = "none"
        <3>1. CASE RuntimeReady(p)
            BY <1>1, <3>1 DEF RuntimeReady
        <3>2. ASSUME NEW o \in Ops, GrammarLoaded(p, o)
              PROVE  at[q][x] = "none" => at'[q][x] = "none"
            BY <1>1, <3>2 DEF GrammarLoaded, Move
        <3>3. CASE ReceiveAck(p)
            <4>1. at' = at \/ (at' = [at EXCEPT ![p][waitResolve[p]] = "go"] /\ waitResolve[p] # NoOp)
                BY <3>3 DEF ReceiveAck, Wakes, Move
            <4>2. waitResolve[p] # NoOp => at[p][waitResolve[p]] = "wait"
                BY DEF NoMissedWakeup
            <4> QED BY <1>1, <4>1, <4>2
        <3> QED BY <1>4, <3>1, <3>2, <3>3
    <2> QED BY <1>2, <2>1, <2>2 DEF SentOnce, SentOnceTo
<1> QED BY <1>3, <1>4 DEF LoopTurn

LEMMA DeathKeepsOnce ==
    ASSUME TypeOK, SentOnce, NEW p \in Parsers, ParserDies(p), UNCHANGED poolVars
    PROVE  SentOnce'
<1> SUFFICES ASSUME NEW q \in Parsers, NEW x \in Ops PROVE SentOnceTo(q, x)'
    BY DEF SentOnce
<1>1. at \in [Parsers -> [Ops -> Places]] /\ toParser \in [Parsers -> Seq(ParserMsg)]
    BY DEF TypeOK, ParsersTypeOK, WiresTypeOK
<1>2. SentOnceTo(q, x)
    BY DEF SentOnce
<1>3. CASE q = p
    <2>1. at'[q][x] = "none" /\ toParser'[q] = <<>>
        BY <1>1, <1>3 DEF ParserDies
    <2> QED BY <2>1 DEF SentOnceTo, Asked, Once
<1>4. CASE q # p
    <2>1. at'[q] = at[q] /\ toParser'[q] = toParser[q] /\ pc' = pc
        BY <1>1, <1>4 DEF ParserDies, poolVars
    <2> QED BY <1>2, <2>1 DEF SentOnceTo
<1> QED BY <1>3, <1>4

LEMMA HandlerKeepsWakeup ==
    ASSUME TypeOK, NoMissedWakeup, NEW p \in Parsers, NEW o \in Ops, HandlerStep(p, o)
    PROVE  NoMissedWakeup'
<1> SUFFICES ASSUME NEW q \in Parsers, waitResolve'[q] # NoOp
             PROVE  at'[q][waitResolve'[q]] = "wait" /\ inFlight'[q] >= Window
    BY DEF NoMissedWakeup
<1>1. /\ at \in [Parsers -> [Ops -> Places]]
      /\ inFlight \in [Parsers -> Int]
      /\ waitResolve \in [Parsers -> Ops \cup {NoOp}]
      /\ Window \in Int
    BY WindowAssumption DEF TypeOK, ParsersTypeOK
<1>2. waitResolve[q] # NoOp => at[q][waitResolve[q]] = "wait" /\ inFlight[q] >= Window
    BY DEF NoMissedWakeup
<1>3. at[p][o] \in Runnable
    BY DEF HandlerStep, Start, BeginFile, PostApply, ParseThrows, Finish, Runnable
<1>4. \A y \in Ops : q # p \/ y # o => at'[q][y] = at[q][y]
    BY <1>1 DEF HandlerStep, Start, BeginFile, PostApply, ParseThrows, Finish, Reply, Move
<1>5. CASE UNCHANGED <<inFlight, waitResolve>>
    BY <1>1, <1>2, <1>3, <1>4, <1>5 DEF Runnable
<1>6. CASE PostApply(p, o) /\ o \notin LiveOps
    <2>1. inFlight' = [inFlight EXCEPT ![p] = @ + 1]
        BY <1>6 DEF PostApply
    <2>2. CASE WindowFull(inFlight[p] + 1)
        <3>1. Move(p, o, "wait") /\ waitResolve' = [waitResolve EXCEPT ![p] = o]
            BY <1>6, <2>2 DEF PostApply
        <3>2. CASE q = p
            <4>1. at'[p][o] = "wait" /\ waitResolve'[p] = o
                BY <1>1, <3>1 DEF Move
            <4>2. inFlight'[p] >= Window
                BY <1>1, <2>1, <2>2 DEF WindowFull
            <4> QED BY <3>2, <4>1, <4>2
        <3>3. CASE q # p
            BY <1>1, <1>2, <1>4, <2>1, <3>1, <3>3
        <3> QED BY <3>2, <3>3
    <2>3. CASE ~WindowFull(inFlight[p] + 1)
        <3>1. UNCHANGED waitResolve
            BY <1>6, <2>3 DEF PostApply
        <3>2. waitResolve[q] # o \/ q # p
            BY <1>2, <1>3, <3>1 DEF Runnable
        <3>3. inFlight'[q] >= inFlight[q]
            BY <1>1, <2>1
        <3>4. waitResolve[q] \in Ops
            BY <1>1, <3>1
        <3>5. inFlight'[q] \in Int /\ inFlight[q] \in Int
            BY <1>1, <2>1
        <3> QED BY <1>1, <1>2, <1>4, <3>1, <3>2, <3>3, <3>4, <3>5
    <2> QED BY <2>2, <2>3
<1> QED BY <1>5, <1>6 DEF HandlerStep, Start, BeginFile, PostApply, ParseThrows, Finish

LEMMA LoopKeepsWakeup ==
    ASSUME TypeOK, SentOnce, NoMissedWakeup, NEW p \in Parsers, LoopTurn(p)
    PROVE  NoMissedWakeup'
<1> SUFFICES ASSUME NEW q \in Parsers, waitResolve'[q] # NoOp
             PROVE  at'[q][waitResolve'[q]] = "wait" /\ inFlight'[q] >= Window
    BY DEF NoMissedWakeup
<1>1. /\ at \in [Parsers -> [Ops -> Places]]
      /\ inFlight \in [Parsers -> Int]
      /\ waitResolve \in [Parsers -> Ops \cup {NoOp}]
      /\ toParser \in [Parsers -> Seq(ParserMsg)]
      /\ Window \in Int
    BY WindowAssumption DEF TypeOK, ParsersTypeOK, WiresTypeOK
<1>2. waitResolve[q] # NoOp => at[q][waitResolve[q]] = "wait" /\ inFlight[q] >= Window
    BY DEF NoMissedWakeup
<1>3. ASSUME UNCHANGED <<inFlight, waitResolve>>,
             at[q][waitResolve[q]] = "wait" => at'[q][waitResolve[q]] = "wait"
      PROVE  at'[q][waitResolve'[q]] = "wait" /\ inFlight'[q] >= Window
    BY <1>2, <1>3
<1>4. CASE ReceiveRequest(p)
    <2> DEFINE m == Head(toParser[p])
    <2>1. toParser[p] # <<>> /\ UNCHANGED <<inFlight, waitResolve>>
        BY <1>4 DEF ReceiveRequest
    <2>2. Asked(toParser[p], m.op)
        BY <1>1, <2>1, TailAsked
    <2>3. m.op \in Ops => at[p][m.op] = "none"
        BY <2>2 DEF SentOnce, SentOnceTo
    <2>4. at' = at \/ at' = [at EXCEPT ![p][m.op] = IF ready[p] THEN "start" ELSE "ready"]
        BY <1>4 DEF ReceiveRequest, Move
    <2>5. waitResolve[q] \in Ops
        BY <1>1, <2>1
    <2>6. at[q][waitResolve[q]] = "wait" => at'[q][waitResolve[q]] = "wait"
        <3>1. CASE at' = at
            BY <3>1
        <3>2. CASE at' = [at EXCEPT ![p][m.op] = IF ready[p] THEN "start" ELSE "ready"]
            <4>1. q = p /\ m.op = waitResolve[q] => at[q][waitResolve[q]] = "none"
                BY <2>3, <2>5
            <4>2. q # p \/ m.op # waitResolve[q] => at'[q][waitResolve[q]] = at[q][waitResolve[q]]
                BY <1>1, <2>5, <3>2
            <4> QED BY <4>1, <4>2
        <3> QED BY <2>4, <3>1, <3>2
    <2> QED BY <1>3, <2>1, <2>6
<1>5. CASE RuntimeReady(p)
    <2>1. UNCHANGED <<inFlight, waitResolve>>
        BY <1>5 DEF RuntimeReady
    <2>2. waitResolve[q] \in Ops
        BY <1>1, <2>1
    <2>3. at[q][waitResolve[q]] = "wait" => at'[q][waitResolve[q]] = "wait"
        BY <1>1, <1>5, <2>2 DEF RuntimeReady
    <2> QED BY <1>3, <2>1, <2>3
<1>6. ASSUME NEW o \in Ops, GrammarLoaded(p, o)
      PROVE  at'[q][waitResolve'[q]] = "wait" /\ inFlight'[q] >= Window
    <2>1. UNCHANGED <<inFlight, waitResolve>>
        BY <1>6 DEF GrammarLoaded
    <2>2. waitResolve[q] \in Ops
        BY <1>1, <2>1
    <2>3. at[p][o] = "load" /\ at' = [at EXCEPT ![p][o] = "parse"]
        BY <1>6 DEF GrammarLoaded, Move
    <2>4. at[q][waitResolve[q]] = "wait" => at'[q][waitResolve[q]] = "wait"
        BY <1>1, <2>2, <2>3
    <2> QED BY <1>3, <2>1, <2>4
<1>7. CASE ReceiveAck(p)
    <2>1. inFlight' = [inFlight EXCEPT ![p] = @ - 1]
        BY <1>7 DEF ReceiveAck
    <2>2. CASE Wakes(p)
        <3>1. waitResolve' = [waitResolve EXCEPT ![p] = NoOp] /\ Move(p, waitResolve[p], "go")
            BY <1>7, <2>2 DEF ReceiveAck
        <3>2. q # p
            BY <1>1, <3>1
        <3> QED BY <1>1, <1>2, <2>1, <3>1, <3>2 DEF Move
    <2>3. CASE ~Wakes(p)
        <3>1. UNCHANGED <<at, waitResolve>>
            BY <1>7, <2>3 DEF ReceiveAck
        <3>2. CASE q = p
            BY <1>1, <1>2, <2>1, <2>3, <3>1, <3>2 DEF Wakes
        <3>3. CASE q # p
            BY <1>1, <1>2, <2>1, <3>1, <3>3
        <3> QED BY <3>2, <3>3
    <2> QED BY <2>2, <2>3
<1> QED BY <1>4, <1>5, <1>6, <1>7 DEF LoopTurn

LEMMA DeathKeepsWakeup ==
    ASSUME TypeOK, NoMissedWakeup, NEW p \in Parsers, ParserDies(p)
    PROVE  NoMissedWakeup'
<1>1. at \in [Parsers -> [Ops -> Places]] /\ waitResolve \in [Parsers -> Ops \cup {NoOp}]
    BY DEF TypeOK, ParsersTypeOK
<1>2. waitResolve'[p] = NoOp /\ UNCHANGED inFlight
    BY <1>1 DEF ParserDies
<1>3. \A q \in Parsers : q # p => at'[q] = at[q] /\ waitResolve'[q] = waitResolve[q]
    BY <1>1 DEF ParserDies
<1> QED BY <1>2, <1>3 DEF NoMissedWakeup

SendInv == SentOnce /\ NoMissedWakeup

LEMMA SendInvariance == Spec => []SendInv
<1>1. Init => SendInv
    <2> SUFFICES ASSUME Init PROVE SendInv
        BY DEF SendInv
    <2>1. SentOnce
        BY DEF Init, WiresInit, ParsersInit, PoolInit, SentOnce, SentOnceTo, Asked, Once
    <2>2. NoMissedWakeup
        BY DEF Init, ParsersInit, NoMissedWakeup
    <2> QED BY <2>1, <2>2 DEF SendInv
<1>2. TypeOK /\ SendInv /\ [Next]_vars => SendInv'
    <2> SUFFICES ASSUME TypeOK, SentOnce, NoMissedWakeup, [Next]_vars PROVE SentOnce' /\ NoMissedWakeup'
        BY DEF SendInv
    <2>1. CASE UNCHANGED <<toParser, pc, parserVars>>
        BY <2>1 DEF SentOnce, SentOnceTo, NoMissedWakeup, parserVars, threadVars
    <2>2. CASE Call \/ HostResult
        <3>1. UNCHANGED threadVars
            BY <2>2 DEF Call, CallIndexAll, CallReindex, CallReindexContent, CallParser, CallRemove,
                        Cancel, HostResult, ParserResult, WriterResult, WriterError, parserVars
        <3>2. SentOnce'
            BY <2>2, <3>1, CallSends, ResultSends, HostSendsOnce DEF SentOnce, threadVars
        <3>3. NoMissedWakeup'
            BY <3>1 DEF NoMissedWakeup, threadVars
        <3> QED BY <3>2, <3>3
    <2>3. CASE \E f \in Files : Workspace(f)
        BY <2>1, <2>3 DEF Workspace
    <2>4. CASE WriterNext /\ UNCHANGED <<parserVars, poolVars>>
        <3>1. toParser' = toParser
            BY <2>4 DEF WriterNext, ReceiveApply, TimerFires, WriterRequest, Flush, Remove, Answer,
                        ResolveParents, FlushingRequestThrows, StatementThrows, DropIndexes, CreateIndexes
        <3> QED BY <2>1, <2>4, <3>1 DEF poolVars
    <2>5. CASE ParsersNext /\ UNCHANGED <<writerVars, poolVars>>
        <3>1. PICK p \in Parsers : LoopTurn(p) \/ (\E o \in Ops : HandlerStep(p, o)) \/ ParserDies(p)
            BY <2>5 DEF ParsersNext
        <3>2. SentOnce'
            BY <2>5, <3>1, HandlerKeepsOnce, LoopKeepsOnce, DeathKeepsOnce
        <3>3. NoMissedWakeup'
            BY <3>1, HandlerKeepsWakeup, LoopKeepsWakeup, DeathKeepsWakeup
        <3> QED BY <3>2, <3>3
    <2>6. CASE UNCHANGED vars
        BY <2>1, <2>6 DEF vars, wires, poolVars
    <2> QED BY <2>2, <2>3, <2>4, <2>5, <2>6 DEF Next
<1> QED BY <1>1, <1>2, TypeCorrect, PTL DEF Spec

\* No handler sleeps on a window with room (worker.ts:145-163): the handler that
\* waitResolve names is suspended and its window still full, whatever dies, is
\* cancelled or is edited meanwhile.
THEOREM WakeupsNeverMissed == Spec => []NoMissedWakeup
<1>1. SendInv => NoMissedWakeup
    BY DEF SendInv
<1> QED BY <1>1, SendInvariance, PTL

=============================================================================
