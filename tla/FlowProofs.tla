------------------------------ MODULE FlowProofs ------------------------------
(* Theorems about the entries on their way from the parsers to the writer       *)
(* (worker.ts:31-57,131-163,195-202): how far a parser's count of them can be   *)
(* off, how many it can have outstanding, and which one is the last.           *)
EXTENDS BulkRunProofs

----------------------------------------------------------------------------
(* A re-index or a live edit posts one entry at most. Those that have posted    *)
(* theirs, or never will, are what the counts can be off by.                   *)

\* o may still post an entry on p.
ToPost(p, o) == Asked(toParser[p], o) \/ (at[p][o] # "none" /\ todo[p][o] # <<>>)

Spent(p, S) == {o \in S : pc[o] # "idle" /\ ~ToPost(p, o)}

Paid(p, S) == Cardinality(Spent(p, S))

\* No handler of a bulk run waits for an ack on p.
Resting(p) == \A b \in BulkOps : at[p][b] # "wait"

Flow(p) ==
    /\ inFlight[p] <= Outstanding(p)
    /\ Outstanding(p) <= inFlight[p] + Paid(p, LiveOps)
    /\ inFlight[p] <= Window + Paid(p, ReindexOps)
    /\ Resting(p) => inFlight[p] < Window + Paid(p, ReindexOps)

FlowInv == fails = 0 => \A p \in Parsers : Flow(p)

LEMMA Fewer ==
    ASSUME NEW U \in SUBSET Ops, NEW T \in SUBSET U
    PROVE  Cardinality(T) \in Nat /\ Cardinality(U) \in Nat /\ Cardinality(T) <= Cardinality(U)
<1>1. IsFiniteSet(Ops)
    BY OpsAssumption
<1>2. IsFiniteSet(U)
    BY <1>1, FS_Subset
<1>3. IsFiniteSet(T) /\ Cardinality(T) <= Cardinality(U)
    BY <1>2, FS_Subset
<1> QED BY <1>2, <1>3, FS_CardinalityType

LEMMA OneMore ==
    ASSUME NEW U \in SUBSET Ops, NEW T \in SUBSET U, NEW x \in U, x \notin T
    PROVE  Cardinality(T) + 1 <= Cardinality(U)
<1>1. IsFiniteSet(T)
    BY OpsAssumption, FS_Subset
<1>2. Cardinality(T \cup {x}) = Cardinality(T) + 1
    BY <1>1, FS_AddElement
<1>3. T \cup {x} \in SUBSET U
    OBVIOUS
<1>4. Cardinality(T \cup {x}) <= Cardinality(U)
    BY <1>3, Fewer
<1> QED BY <1>2, <1>4

\* One more entry of p in the batch, or none.
LEMMA CountAppend ==
    ASSUME NEW b \in Seq(Entry), NEW e \in Entry, NEW p \in Parsers
    PROVE  AcksFor(Append(b, e), p) = AcksFor(b, p) + (IF e.port = p THEN 1 ELSE 0)
<1> DEFINE new == {i \in DOMAIN Append(b, e) : Append(b, e)[i].port = p}
           old == {i \in DOMAIN b : b[i].port = p}
<1>1. /\ DOMAIN Append(b, e) = 1 .. Len(b) + 1 /\ DOMAIN b = 1 .. Len(b) /\ Len(b) \in Nat
      /\ \A i \in 1 .. Len(b) : Append(b, e)[i] = b[i]
      /\ Append(b, e)[Len(b) + 1] = e
    OBVIOUS
<1>2. IsFiniteSet(old) /\ Len(b) + 1 \notin old
    <2>1. old \in SUBSET (1 .. Len(b))
        BY <1>1
    <2>2. IsFiniteSet(1 .. Len(b)) /\ Len(b) + 1 \notin 1 .. Len(b)
        BY <1>1, FS_Interval
    <2> HIDE DEF old
    <2> QED BY <2>1, <2>2, FS_Subset
<1>3. CASE e.port = p
    <2>1. new = old \cup {Len(b) + 1}
        BY <1>1, <1>3
    <2>2. Cardinality(old \cup {Len(b) + 1}) = Cardinality(old) + 1
        BY <1>2, FS_AddElement
    <2> QED BY <1>3, <2>1, <2>2 DEF AcksFor
<1>4. CASE e.port # p
    <2>1. new = old
        BY <1>1, <1>4
    <2>2. AcksFor(Append(b, e), p) = AcksFor(b, p)
        BY <2>1 DEF AcksFor
    <2> QED BY <1>4, <2>2, AcksType
<1> QED BY <1>3, <1>4

LEMMA BatchedIs == \A p : Batched(p) = AcksFor(batch, p)
BY DEF Batched, AcksFor

LEMMA FlowTypes ==
    ASSUME TypeOK, NEW p \in Parsers
    PROVE  /\ inFlight[p] \in Int /\ Batched(p) \in Nat /\ acks[p] \in Nat /\ Len(applyPort[p]) \in Nat
           /\ Paid(p, LiveOps) \in Nat /\ Paid(p, ReindexOps) \in Nat /\ Window \in Nat \ {0}
<1>1. batch \in Seq(Entry) /\ applyPort[p] \in Seq(ApplyMsg)
    BY DEF TypeOK, WriterTypeOK, WiresTypeOK
<1>2. Batched(p) \in Nat
    BY <1>1, AcksType, BatchedIs
<1>3. Spent(p, LiveOps) \in SUBSET Ops /\ Spent(p, ReindexOps) \in SUBSET Ops
    BY DEF Spent, Ops
<1>4. Paid(p, LiveOps) \in Nat /\ Paid(p, ReindexOps) \in Nat
    BY <1>3, Fewer DEF Paid
<1> QED BY <1>1, <1>2, <1>4, WindowAssumption DEF TypeOK, ParsersTypeOK, WiresTypeOK

\* The ops that are done posting on p stay so.
SpentStays(p) ==
    /\ Spent(p, LiveOps) \subseteq Spent(p, LiveOps)'
    /\ Spent(p, ReindexOps) \subseteq Spent(p, ReindexOps)'

LEMMA PaidGrows ==
    ASSUME TypeOK, NEW p \in Parsers, SpentStays(p)
    PROVE  /\ Paid(p, LiveOps) <= Paid(p, LiveOps)' /\ Paid(p, ReindexOps) <= Paid(p, ReindexOps)'
           /\ Paid(p, LiveOps)' \in Nat /\ Paid(p, ReindexOps)' \in Nat
<1>1. Spent(p, LiveOps)' \in SUBSET Ops /\ Spent(p, ReindexOps)' \in SUBSET Ops
    BY DEF Spent, Ops
<1> QED BY <1>1, Fewer DEF SpentStays, Paid

\* A step that moves no entry of p and ends no wait on p.
LEMMA SameFlow ==
    ASSUME TypeOK, NEW p \in Parsers, Flow(p), SpentStays(p), inFlight'[p] = inFlight[p],
           Outstanding(p)' = Outstanding(p), Resting(p)' => Resting(p)
    PROVE  Flow(p)'
<1>1. /\ inFlight[p] \in Int /\ Outstanding(p) \in Nat /\ Window \in Nat
      /\ Paid(p, LiveOps) \in Nat /\ Paid(p, ReindexOps) \in Nat
    BY FlowTypes DEF Outstanding
<1> QED BY <1>1, PaidGrows DEF Flow

----------------------------------------------------------------------------
(* The flow over every step.                                                  *)

\* The writer takes an entry from the port into the batch, and acknowledges each entry
\* of the batch it writes: nothing outstanding appears or vanishes.
LEMMA WriterKeepsOutstanding ==
    ASSUME TypeOK, WriterNext, ~OneFailure, NEW p \in Parsers
    PROVE  Outstanding(p)' = Outstanding(p)
<1>1. /\ batch \in Seq(Entry) /\ applyPort \in [Parsers -> Seq(ApplyMsg)]
      /\ acks \in [Parsers -> Nat]
    BY DEF TypeOK, WriterTypeOK, WiresTypeOK
<1>2. Batched(p) = AcksFor(batch, p) /\ Batched(p)' = AcksFor(batch', p)
    BY DEF Batched, AcksFor
<1>3. AcksFor(<<>>, p) = 0
    BY FS_EmptySet DEF AcksFor
<1>4. \A b \in Seq(Entry) : AcksFor(b, p) \in Nat
    BY AcksType
<1>5. ASSUME NEW b \in Seq(Entry), FlushBatch(b)
      PROVE  Batched(p)' = 0 /\ acks'[p] = acks[p] + AcksFor(b, p)
    BY <1>2, <1>3, <1>5 DEF FlushBatch
<1>6. CASE UNCHANGED <<batch, acks, applyPort>>
    BY <1>6 DEF Outstanding, Batched
<1>7. CASE FlushBatch(batch) /\ UNCHANGED applyPort
    BY <1>1, <1>2, <1>4, <1>5, <1>7 DEF Outstanding
<1>8. ASSUME NEW q \in Parsers, ReceiveApply(q) PROVE Outstanding(p)' = Outstanding(p)
    <2> DEFINE e == Head(applyPort[q])
               m == [file |-> e.file, ver |-> e.ver, port |-> q]
               b == Append(batch, m)
    <2>1. applyPort[q] # <<>> /\ applyPort' = [applyPort EXCEPT ![q] = Tail(@)]
        BY <1>8 DEF ReceiveApply
    <2>2. applyPort[q] \in Seq(ApplyMsg) /\ e \in ApplyMsg
        BY <1>1, <2>1
    <2>3. m \in Entry /\ m.port = q
        BY <2>2 DEF ApplyMsg, Entry
    <2>4. \/ batch' = b /\ UNCHANGED acks
          \/ FlushBatch(b)
        BY <1>8 DEF ReceiveApply
    <2> HIDE DEF m
    <2>5. b \in Seq(Entry) /\ AcksFor(b, p) = AcksFor(batch, p) + (IF q = p THEN 1 ELSE 0)
        BY <1>1, <2>3, CountAppend
    <2> HIDE DEF b
    <2>6. Batched(p)' + acks'[p] = Batched(p) + acks[p] + (IF q = p THEN 1 ELSE 0)
        <3>1. CASE batch' = b /\ UNCHANGED acks
            BY <1>1, <1>2, <1>4, <2>5, <3>1
        <3>2. CASE FlushBatch(b)
            BY <1>1, <1>2, <1>4, <1>5, <2>5, <3>2
        <3> QED BY <2>4, <3>1, <3>2
    <2>7. Len(applyPort[p]) \in Nat /\ Len(applyPort'[p]) = Len(applyPort[p]) - (IF q = p THEN 1 ELSE 0)
        <3>1. CASE q = p
            BY <1>1, <2>1, <2>2, <3>1
        <3>2. CASE q # p
            BY <1>1, <2>1, <3>2
        <3> QED BY <3>1, <3>2
    <2>8. Batched(p)' \in Nat /\ acks'[p] \in Nat
        <3>1. CASE batch' = b /\ UNCHANGED acks
            BY <1>1, <1>2, <1>4, <2>5, <3>1
        <3>2. CASE FlushBatch(b)
            <4>1. Batched(p)' = 0 /\ acks'[p] = acks[p] + AcksFor(b, p) /\ AcksFor(b, p) \in Nat
                BY <1>4, <1>5, <2>5, <3>2
            <4> QED BY <1>1, <4>1
        <3> QED BY <2>4, <3>1, <3>2
    <2>9. Batched(p) \in Nat /\ acks[p] \in Nat
        BY <1>1, <1>2, <1>4
    <2>10. Len(applyPort[p]) \in Nat /\ Len(applyPort'[p]) \in Nat
        BY <1>1, <2>1, <2>2
    <2>11. /\ Outstanding(p) = Len(applyPort[p]) + Batched(p) + acks[p]
           /\ Outstanding(p)' = Len(applyPort'[p]) + Batched(p)' + acks'[p]
        BY DEF Outstanding
    <2>12. PICK k, n, c \in Nat : k = Len(applyPort[p]) /\ n = Batched(p) /\ c = acks[p]
        BY <2>9, <2>10
    <2>13. PICK k1, n1, c1 \in Nat : k1 = Len(applyPort'[p]) /\ n1 = Batched(p)' /\ c1 = acks'[p]
        BY <2>8, <2>10
    <2>14. k1 + n1 + c1 = k + n + c
        <3>1. CASE q = p
            <4>1. n1 + c1 = n + c + 1 /\ k1 = k - 1
                BY <2>6, <2>7, <2>12, <2>13, <3>1
            <4> QED BY <4>1
        <3>2. CASE q # p
            <4>1. n1 + c1 = n + c /\ k1 = k
                BY <2>6, <2>7, <2>12, <2>13, <3>2
            <4> QED BY <4>1
        <3> QED BY <3>1, <3>2
    <2>15. Outstanding(p) = k + n + c /\ Outstanding(p)' = k1 + n1 + c1
        BY <2>11, <2>12, <2>13
    <2> QED BY <2>14, <2>15
<1>9. TimerFires \/ WriterRequest =>
         UNCHANGED <<batch, acks, applyPort>> \/ (FlushBatch(batch) /\ UNCHANGED applyPort)
    BY DEF TimerFires, WriterRequest, Flush, Remove, ResolveParents, Answer, FlushingRequestThrows,
           FlushThrows, StatementThrows, DropIndexes, CreateIndexes
<1> QED BY <1>6, <1>7, <1>8, <1>9 DEF WriterNext

LEMMA WriterKeepsFlow ==
    ASSUME TypeOK, \A p \in Parsers : Flow(p), WriterNext, ~OneFailure, UNCHANGED <<parserVars, poolVars>>
    PROVE  \A p \in Parsers : Flow(p)'
<1>1. UNCHANGED <<toParser, at, todo, pc, inFlight>>
    BY WriterAnswers DEF parserVars, threadVars, poolVars
<1>2. \A p \in Parsers : SpentStays(p) /\ (Resting(p)' => Resting(p))
    BY <1>1 DEF SpentStays, Spent, ToPost, Resting
<1> QED BY <1>1, <1>2, SameFlow, WriterKeepsOutstanding

\* The host sends an op of one file only once, when it is called.
LEMMA HostKeepsFlow ==
    ASSUME TypeOK, \A x \in Ops : Talks(x), \A p \in Parsers : Flow(p), Call \/ HostResult
    PROVE  \A p \in Parsers : Flow(p)'
<1>1. UNCHANGED <<applyPort, batch, acks, at, todo, inFlight>>
    BY DEF Call, CallIndexAll, CallReindex, CallReindexContent, CallParser, CallRemove, Cancel,
           HostResult, ParserResult, WriterResult, WriterError, writerVars, parserVars, threadVars
<1>2. ASSUME NEW p \in Parsers, NEW x \in Small, pc[x] # "idle", ~ToPost(p, x)
      PROVE  pc'[x] # "idle" /\ ~ToPost(p, x)'
    <2>1. x \in Ops /\ x \notin BulkOps
        BY OpsAssumption DEF Small, Ops
    <2>2. pc[x] \notin Unsent
        BY <1>2, <2>1 DEF Talks, Stages, Unsent
    <2>3. HostSends(p, x)
        BY <2>1, CallSends, ResultSends
    <2>4. ~Asked(toParser'[p], x)
        <3>1. toParser[p] \in Seq(ParserMsg) /\ ~Asked(toParser[p], x)
            BY <1>2 DEF TypeOK, WiresTypeOK, ToPost
        <3> QED BY <2>2, <2>3, <3>1, AppendAsked DEF HostSends
    <2> QED BY <1>1, <1>2, <2>2, <2>3, <2>4 DEF HostSends, Unsent, ToPost
<1>3. \A p \in Parsers : SpentStays(p)
    BY <1>2 DEF SpentStays, Spent, Small
<1>4. \A p \in Parsers : Outstanding(p)' = Outstanding(p) /\ (Resting(p)' => Resting(p))
    BY <1>1 DEF Outstanding, Batched, Resting
<1> QED BY <1>1, <1>3, <1>4, SameFlow

LEMMA HandlerSpends ==
    ASSUME TypeOK, HasFile, NEW p \in Parsers, NEW o \in Ops, HandlerStep(p, o), UNCHANGED poolVars,
           NEW q \in Parsers
    PROVE  SpentStays(q)
<1>1. UNCHANGED <<toParser, pc>>
    BY DEF HandlerStep, Start, BeginFile, PostApply, ParseThrows, Finish, wires, poolVars
<1>2. at \in [Parsers -> [Ops -> Places]] /\ todo \in [Parsers -> [Ops -> Seq(Files)]]
    BY DEF TypeOK, ParsersTypeOK
<1>3. ASSUME NEW x \in Ops, ~ToPost(q, x) PROVE ~ToPost(q, x)'
    <2>1. CASE q # p \/ x # o
        <3>1. at'[q][x] = at[q][x] /\ todo'[q][x] = todo[q][x]
            BY <1>2, <2>1 DEF HandlerStep, Start, BeginFile, PostApply, ParseThrows, Finish, Reply, Move
        <3> QED BY <1>1, <1>3, <3>1 DEF ToPost
    <2>2. CASE q = p /\ x = o
        <3>1. at[p][o] # "none"
            BY DEF HandlerStep, Start, BeginFile, PostApply, ParseThrows, Finish
        <3>2. todo[p][o] = <<>>
            BY <1>3, <2>2, <3>1 DEF ToPost
        <3>3. Start(p, o) \/ ParseThrows(p, o) \/ Finish(p, o)
            BY <3>2 DEF HandlerStep, BeginFile, PostApply, HasFile
        <3>4. todo'[p][o] = <<>>
            BY <1>2, <3>2, <3>3 DEF Start, ParseThrows, Finish, Reply
        <3> QED BY <1>1, <1>3, <2>2, <3>4 DEF ToPost
    <2> QED BY <2>1, <2>2
<1> QED BY <1>1, <1>3 DEF SpentStays, Spent, Ops

\* An op of one file that posts its entry is spent.
LEMMA PostSpends ==
    ASSUME TypeOK, HasFile, SentOnce, Fits, NEW p \in Parsers, NEW o \in Small, PostApply(p, o),
           UNCHANGED poolVars
    PROVE  pc[o] # "idle" /\ ToPost(p, o) /\ ~ToPost(p, o)'
<1>1. o \in Ops /\ at[p][o] = "parse"
    BY DEF Small, Ops, PostApply
<1>2. /\ at \in [Parsers -> [Ops -> Places]] /\ todo \in [Parsers -> [Ops -> Seq(Files)]]
      /\ todo[p][o] # <<>>
    BY <1>1 DEF TypeOK, ParsersTypeOK, HasFile
<1>3. pc[o] \notin Unsent /\ ~Asked(toParser[p], o)
    BY <1>1 DEF SentOnce, SentOnceTo
<1>4. Len(todo[p][o]) <= 1
    BY <1>1 DEF Fits, FitCell
<1>5. todo'[p][o] = Tail(todo[p][o])
    BY <1>1, <1>2 DEF PostApply
<1>6. Tail(todo[p][o]) = <<>>
    <2> DEFINE s == todo[p][o]
    <2>1. s \in Seq(Files) /\ s # <<>> /\ Len(s) <= 1
        BY <1>1, <1>2, <1>4
    <2> HIDE DEF s
    <2>2. Tail(s) \in Seq(Files) /\ Len(Tail(s)) = 0
        <3>1. Len(s) \in Nat \ {0} /\ Len(Tail(s)) = Len(s) - 1 /\ Tail(s) \in Seq(Files)
            BY <2>1
        <3> QED BY <2>1, <3>1
    <2>3. Tail(s) = <<>>
        BY <2>2, EmptySeq
    <2> QED BY <2>3 DEF s
<1>7. UNCHANGED toParser
    BY DEF PostApply
<1> QED BY <1>1, <1>2, <1>3, <1>5, <1>6, <1>7 DEF ToPost, Unsent

\* While a handler of a bulk run parses on p, none waits there: one run is in flight.
LEMMA OnlyRun ==
    ASSUME OneBulk, \A x \in Ops : Talks(x), NEW p \in Parsers, NEW o \in BulkOps, at[p][o] = "parse"
    PROVE  Resting(p)
<1>1. \A b \in BulkOps : at[p][b] # "none" => pc[b] = "parse"
    BY DEF Talks, TalksToParser, Stages, Ops
<1> QED BY <1>1 DEF Resting, OneBulk, Active

LEMMA HandlerKeepsFlow ==
    ASSUME TypeOK, HasFile, SentOnce, Fits, OneBulk, \A x \in Ops : Talks(x), \A q \in Parsers : Flow(q),
           NEW p \in Parsers, NEW o \in Ops, HandlerStep(p, o), UNCHANGED <<writerVars, poolVars>>
    PROVE  \A q \in Parsers : Flow(q)'
<1>1. UNCHANGED <<batch, acks, toParser>>
    BY DEF HandlerStep, Start, BeginFile, PostApply, ParseThrows, Finish, wires, writerVars
<1>2. /\ at \in [Parsers -> [Ops -> Places]] /\ applyPort \in [Parsers -> Seq(ApplyMsg)]
      /\ inFlight \in [Parsers -> Int]
    BY DEF TypeOK, ParsersTypeOK, WiresTypeOK
<1>3. \A q \in Parsers : SpentStays(q)
    BY HandlerSpends
<1>4. \A q \in Parsers, b \in BulkOps : at[q][b] = "wait" => at'[q][b] = "wait"
    <2>1. at[p][o] # "wait" /\ \A q \in Parsers, x \in Ops : q # p \/ x # o => at'[q][x] = at[q][x]
        BY <1>2 DEF HandlerStep, Start, BeginFile, PostApply, ParseThrows, Finish, Reply, Move
    <2> QED BY <2>1 DEF Ops
<1>5. \A q \in Parsers : Resting(q)' => Resting(q)
    BY <1>4 DEF Resting
<1>6. CASE UNCHANGED <<applyPort, inFlight>>
    BY <1>1, <1>3, <1>5, <1>6, SameFlow DEF Outstanding, Batched
<1>7. CASE PostApply(p, o)
    <2>1. \A q \in Parsers : q # p => applyPort'[q] = applyPort[q] /\ inFlight'[q] = inFlight[q]
        BY <1>2, <1>7 DEF PostApply
    <2>2. \A q \in Parsers : q # p => Flow(q)'
        BY <1>1, <1>3, <1>5, <2>1, SameFlow DEF Outstanding, Batched
    <2> SUFFICES Flow(p)'
        BY <2>2
    <2>3. Outstanding(p)' = Outstanding(p) + 1
        <3>1. Len(applyPort'[p]) = Len(applyPort[p]) + 1 /\ Len(applyPort[p]) \in Nat
            BY <1>2, <1>7 DEF PostApply
        <3>2. Batched(p)' = Batched(p) /\ acks'[p] = acks[p]
            BY <1>1 DEF Batched
        <3> QED BY <3>1, <3>2, FlowTypes DEF Outstanding
    <2>4. /\ inFlight[p] \in Int /\ Outstanding(p) \in Nat /\ Window \in Nat \ {0}
          /\ Paid(p, LiveOps) \in Nat /\ Paid(p, ReindexOps) \in Nat
        BY FlowTypes DEF Outstanding
    <2>5. /\ inFlight[p] <= Outstanding(p)
          /\ Outstanding(p) <= inFlight[p] + Paid(p, LiveOps)
          /\ inFlight[p] <= Window + Paid(p, ReindexOps)
          /\ Resting(p) => inFlight[p] < Window + Paid(p, ReindexOps)
        BY DEF Flow
    <2>6. /\ Paid(p, LiveOps) <= Paid(p, LiveOps)' /\ Paid(p, ReindexOps) <= Paid(p, ReindexOps)'
          /\ Paid(p, LiveOps)' \in Nat /\ Paid(p, ReindexOps)' \in Nat
        BY <1>3, PaidGrows
    <2>7. CASE o \in LiveOps
        <3>1. inFlight'[p] = inFlight[p]
            BY <1>2, <1>7, <2>7 DEF PostApply
        <3>2. Paid(p, LiveOps) + 1 <= Paid(p, LiveOps)'
            <4>1. o \in Spent(p, LiveOps)' /\ o \notin Spent(p, LiveOps)
                BY <1>7, <2>7, PostSpends DEF Small, Spent, poolVars
            <4>2. Spent(p, LiveOps)' \in SUBSET Ops /\ Spent(p, LiveOps) \in SUBSET (Spent(p, LiveOps)')
                BY <1>3 DEF SpentStays, Spent, Ops
            <4> QED BY <4>1, <4>2, OneMore DEF Paid
        <3>3. inFlight'[p] <= Outstanding(p)' /\ Outstanding(p)' <= inFlight'[p] + Paid(p, LiveOps)'
            BY <2>3, <2>4, <2>5, <2>6, <3>1, <3>2
        <3>4. inFlight'[p] <= Window + Paid(p, ReindexOps)'
            BY <2>4, <2>5, <2>6, <3>1
        <3>5. Resting(p)' => inFlight'[p] < Window + Paid(p, ReindexOps)'
            <4>1. Resting(p)' => Resting(p)
                BY <1>5
            <4> QED BY <2>4, <2>5, <2>6, <3>1, <4>1
        <3> QED BY <3>3, <3>4, <3>5 DEF Flow
    <2>8. CASE o \notin LiveOps
        <3>1. inFlight'[p] = inFlight[p] + 1
            BY <1>2, <1>7, <2>8 DEF PostApply
        <3>2. inFlight'[p] <= Outstanding(p)' /\ Outstanding(p)' <= inFlight'[p] + Paid(p, LiveOps)'
            BY <2>3, <2>4, <2>5, <2>6, <3>1
        <3>3. CASE o \in ReindexOps
            <4>1. Paid(p, ReindexOps) + 1 <= Paid(p, ReindexOps)'
                <5>1. o \in Spent(p, ReindexOps)' /\ o \notin Spent(p, ReindexOps)
                    BY <1>7, <3>3, PostSpends DEF Small, Spent, poolVars
                <5>2. Spent(p, ReindexOps)' \in SUBSET Ops /\ Spent(p, ReindexOps) \in SUBSET (Spent(p, ReindexOps)')
                    BY <1>3 DEF SpentStays, Spent, Ops
                <5> QED BY <5>1, <5>2, OneMore DEF Paid
            <4>2. inFlight'[p] <= Window + Paid(p, ReindexOps)'
                BY <2>4, <2>5, <2>6, <3>1, <4>1
            <4>3. Resting(p)' => inFlight'[p] < Window + Paid(p, ReindexOps)'
                <5>1. Resting(p)' => Resting(p)
                    BY <1>5
                <5> QED BY <2>4, <2>5, <2>6, <3>1, <4>1, <5>1
            <4> QED BY <3>2, <4>2, <4>3 DEF Flow
        <3>4. CASE o \in BulkOps
            <4>1. Resting(p)
                BY <1>7, <3>4, OnlyRun DEF PostApply
            <4>2. Resting(p)' => inFlight[p] + 1 < Window
                <5>1. WindowFull(inFlight[p] + 1) => at'[p][o] = "wait"
                    BY <1>2, <1>7, <2>8 DEF PostApply, Move
                <5> QED BY <2>4, <3>4, <5>1 DEF Resting, WindowFull
            <4>3. inFlight'[p] <= Window + Paid(p, ReindexOps)'
                BY <2>4, <2>5, <2>6, <3>1, <4>1
            <4>4. Resting(p)' => inFlight'[p] < Window + Paid(p, ReindexOps)'
                BY <2>4, <2>6, <3>1, <4>2
            <4> QED BY <3>2, <4>3, <4>4 DEF Flow
        <3>5. o \notin RemoveOps
            BY <1>7, OpsAssumption DEF PostApply, Talks, TalksToParser, Stages
        <3> QED BY <2>8, <3>3, <3>4, <3>5 DEF Ops
    <2> QED BY <2>7, <2>8
<1> QED BY <1>6, <1>7 DEF HandlerStep, Start, BeginFile, ParseThrows, Finish, wires

\* Only a message gives a handler a place.
LEMMA NoneStays ==
    ASSUME TypeOK, NoMissedWakeup, NEW p \in Parsers,
           RuntimeReady(p) \/ (\E o \in Ops : GrammarLoaded(p, o)) \/ ReceiveAck(p),
           NEW q \in Parsers, NEW x \in Ops, at[q][x] = "none"
    PROVE  at'[q][x] = "none"
<1>1. at \in [Parsers -> [Ops -> Places]] /\ waitResolve \in [Parsers -> Ops \cup {NoOp}]
    BY DEF TypeOK, ParsersTypeOK
<1>2. CASE RuntimeReady(p)
    BY <1>1, <1>2 DEF RuntimeReady
<1>3. ASSUME NEW o \in Ops, GrammarLoaded(p, o) PROVE at'[q][x] = "none"
    BY <1>1, <1>3 DEF GrammarLoaded, Move
<1>4. CASE ReceiveAck(p)
    <2>1. CASE at' = at
        BY <2>1
    <2>2. CASE waitResolve[p] # NoOp /\ Move(p, waitResolve[p], "go")
        <3>1. PICK w \in Ops : w = waitResolve[p]
            BY <1>1, <2>2
        <3>2. at[p][w] = "wait"
            BY <2>2, <3>1 DEF NoMissedWakeup
        <3>3. at' = [at EXCEPT ![p][w] = "go"]
            BY <2>2, <3>1 DEF Move
        <3> QED BY <1>1, <3>2, <3>3
    <2> QED BY <1>4, <2>1, <2>2 DEF ReceiveAck, Wakes
<1> QED BY <1>2, <1>3, <1>4

LEMMA LoopSpends ==
    ASSUME TypeOK, NoMissedWakeup, NEW p \in Parsers, LoopTurn(p), UNCHANGED poolVars, NEW q \in Parsers
    PROVE  SpentStays(q)
<1>1. /\ at \in [Parsers -> [Ops -> Places]] /\ todo \in [Parsers -> [Ops -> Seq(Files)]]
      /\ toParser \in [Parsers -> Seq(ParserMsg)]
      /\ waitResolve \in [Parsers -> Ops \cup {NoOp}]
    BY DEF TypeOK, ParsersTypeOK, WiresTypeOK
<1>2. UNCHANGED pc
    BY DEF poolVars
<1>3. ASSUME NEW x \in Ops, ~ToPost(q, x) PROVE ~ToPost(q, x)'
    <2>1. CASE ReceiveRequest(p)
        <3>1. toParser[p] # <<>> /\ toParser' = [toParser EXCEPT ![p] = Tail(@)]
            BY <2>1 DEF ReceiveRequest
        <3>2. ~Asked(toParser[q], x)
            BY <1>3 DEF ToPost
        <3>3. ~Asked(toParser'[q], x)
            <4>1. CASE q = p
                <5>1. toParser'[q] = Tail(toParser[q])
                    BY <1>1, <3>1, <4>1
                <5>2. toParser[q] \in Seq(ParserMsg) /\ toParser[q] # <<>>
                    BY <1>1, <3>1, <4>1
                <5> QED BY <3>2, <5>1, <5>2, TailAsked
            <4>2. CASE q # p
                BY <1>1, <3>1, <3>2, <4>2
            <4> QED BY <4>1, <4>2
        <3>4. at'[q][x] = at[q][x] /\ todo'[q][x] = todo[q][x]
            <4> DEFINE m == Head(toParser[p])
            <4>1. q = p => m.op # x
                <5>1. toParser[p] \in Seq(ParserMsg)
                    BY <1>1
                <5>2. Asked(toParser[p], m.op)
                    BY <3>1, <5>1, TailAsked
                <5> QED BY <3>2, <5>2
            <4>2. \/ UNCHANGED <<at, todo>>
                  \/ /\ todo' = [todo EXCEPT ![p][m.op] = m.files]
                     /\ Move(p, m.op, IF ready[p] THEN "start" ELSE "ready")
                BY <2>1 DEF ReceiveRequest
            <4> HIDE DEF m
            <4>3. CASE q = p
                BY <1>1, <4>1, <4>2, <4>3 DEF Move
            <4>4. CASE q # p
                BY <1>1, <4>2, <4>4 DEF Move
            <4> QED BY <4>3, <4>4
        <3> QED BY <1>3, <3>3, <3>4 DEF ToPost
    <2>2. CASE RuntimeReady(p) \/ (\E o \in Ops : GrammarLoaded(p, o)) \/ ReceiveAck(p)
        <3>1. UNCHANGED <<toParser, todo>>
            BY <2>2 DEF RuntimeReady, GrammarLoaded, ReceiveAck, wires
        <3>2. CASE at[q][x] # "none"
            BY <1>3, <3>1, <3>2 DEF ToPost
        <3>3. CASE at[q][x] = "none"
            BY <1>3, <2>2, <3>1, <3>3, NoneStays DEF ToPost
        <3> QED BY <3>2, <3>3
    <2> QED BY <2>1, <2>2 DEF LoopTurn
<1> QED BY <1>2, <1>3 DEF SpentStays, Spent, Ops


\* A turn of the loop of p: an acknowledgement is taken off both counts, and the handler
\* it wakes is the one that waits.
LEMMA LoopKeepsFlow ==
    ASSUME TypeOK, SentOnce, NoMissedWakeup, \A q \in Parsers : Flow(q), NEW p \in Parsers, LoopTurn(p),
           UNCHANGED <<writerVars, poolVars>>
    PROVE  \A q \in Parsers : Flow(q)'
<1>1. UNCHANGED <<batch, applyPort>>
    BY DEF LoopTurn, ReceiveRequest, RuntimeReady, GrammarLoaded, ReceiveAck, wires, writerVars
<1>2. /\ at \in [Parsers -> [Ops -> Places]] /\ acks \in [Parsers -> Nat]
      /\ inFlight \in [Parsers -> Int] /\ toParser \in [Parsers -> Seq(ParserMsg)]
    BY DEF TypeOK, ParsersTypeOK, WiresTypeOK
<1>3. \A q \in Parsers : SpentStays(q)
    BY LoopSpends
<1>4. CASE ~ReceiveAck(p)
    <2>1. UNCHANGED <<acks, inFlight>>
        BY <1>4 DEF LoopTurn, ReceiveRequest, RuntimeReady, GrammarLoaded, wires
    <2>2. ASSUME NEW q \in Parsers, NEW x \in Ops, at[q][x] = "wait" PROVE at'[q][x] = "wait"
        <3>1. CASE ReceiveRequest(p)
            <4> DEFINE m == Head(toParser[p])
            <4>1. q = p => m.op # x
                <5>1. toParser[p] \in Seq(ParserMsg) /\ toParser[p] # <<>>
                    BY <1>2, <3>1 DEF ReceiveRequest
                <5>2. Asked(toParser[p], m.op)
                    BY <5>1, TailAsked
                <5>3. ~Asked(toParser[q], x)
                    BY <2>2 DEF SentOnce, SentOnceTo
                <5> QED BY <5>2, <5>3
            <4>2. UNCHANGED at \/ Move(p, m.op, IF ready[p] THEN "start" ELSE "ready")
                BY <3>1 DEF ReceiveRequest
            <4> HIDE DEF m
            <4> QED BY <1>2, <2>2, <4>1, <4>2 DEF Move
        <3>2. CASE RuntimeReady(p)
            BY <1>2, <2>2, <3>2 DEF RuntimeReady
        <3>3. ASSUME NEW o \in Ops, GrammarLoaded(p, o) PROVE at'[q][x] = "wait"
            BY <1>2, <2>2, <3>3 DEF GrammarLoaded, Move
        <3> QED BY <1>4, <3>1, <3>2, <3>3 DEF LoopTurn
    <2>3. \A q \in Parsers : Resting(q)' => Resting(q)
        BY <2>2 DEF Resting, Ops
    <2> QED BY <1>1, <1>3, <2>1, <2>3, SameFlow DEF Outstanding, Batched
<1>5. CASE ReceiveAck(p)
    <2>1. ASSUME NEW q \in Parsers, q # p PROVE Flow(q)'
        <3>1. at'[q] = at[q] /\ acks'[q] = acks[q] /\ inFlight'[q] = inFlight[q]
            BY <1>2, <1>5, <2>1 DEF ReceiveAck, Move
        <3>2. Resting(q)' => Resting(q)
            BY <3>1 DEF Resting
        <3> QED BY <1>1, <1>3, <3>1, <3>2, SameFlow DEF Outstanding, Batched
    <2>2. /\ inFlight[p] \in Int /\ Batched(p) \in Nat /\ acks[p] \in Nat /\ Len(applyPort[p]) \in Nat
          /\ Paid(p, LiveOps) \in Nat /\ Paid(p, ReindexOps) \in Nat /\ Window \in Nat \ {0}
        BY FlowTypes
    <2>3. /\ inFlight[p] <= Outstanding(p)
          /\ Outstanding(p) <= inFlight[p] + Paid(p, LiveOps)
          /\ inFlight[p] <= Window + Paid(p, ReindexOps)
        BY DEF Flow
    <2>4. /\ Paid(p, LiveOps) <= Paid(p, LiveOps)' /\ Paid(p, ReindexOps) <= Paid(p, ReindexOps)'
          /\ Paid(p, LiveOps)' \in Nat /\ Paid(p, ReindexOps)' \in Nat
        BY <1>3, PaidGrows
    <2>5. acks'[p] = acks[p] - 1 /\ inFlight'[p] = inFlight[p] - 1
        BY <1>2, <1>5 DEF ReceiveAck
    <2>6. Len(applyPort'[p]) = Len(applyPort[p]) /\ Batched(p)' = Batched(p)
        BY <1>1 DEF Batched
    <2>7. Outstanding(p)' = Outstanding(p) - 1 /\ Outstanding(p) \in Nat
        <3>1. PICK k, n, c \in Nat : k = Len(applyPort[p]) /\ n = Batched(p) /\ c = acks[p]
            BY <2>2
        <3>2. Outstanding(p) = k + n + c
            BY <3>1 DEF Outstanding
        <3>3. Outstanding(p)' = k + n + (c - 1)
            BY <2>5, <2>6, <3>1 DEF Outstanding
        <3> QED BY <3>2, <3>3
    <2>8. /\ inFlight'[p] <= Outstanding(p)'
          /\ Outstanding(p)' <= inFlight'[p] + Paid(p, LiveOps)'
          /\ inFlight'[p] < Window + Paid(p, ReindexOps)'
        <3>1. PICK i \in Int, n, l, r, w, l1, r1 \in Nat :
                /\ i = inFlight[p] /\ n = Outstanding(p) /\ w = Window
                /\ l = Paid(p, LiveOps) /\ r = Paid(p, ReindexOps)
                /\ l1 = Paid(p, LiveOps)' /\ r1 = Paid(p, ReindexOps)'
            BY <2>2, <2>4, <2>7
        <3>2. i <= n /\ n <= i + l /\ i <= w + r /\ l <= l1 /\ r <= r1
            BY <2>3, <2>4, <3>1
        <3>3. inFlight'[p] = i - 1 /\ Outstanding(p)' = n - 1
            BY <2>5, <2>7, <3>1
        <3>4. i - 1 <= n - 1 /\ n - 1 <= (i - 1) + l1 /\ i - 1 < w + r1
            BY <3>2
        <3> QED BY <3>1, <3>3, <3>4
    <2>9. inFlight'[p] <= Window + Paid(p, ReindexOps)'
        BY <2>2, <2>4, <2>5, <2>8
    <2>10. Flow(p)'
        BY <2>8, <2>9 DEF Flow
    <2> QED BY <2>1, <2>10
<1> QED BY <1>4, <1>5


LEMMA FlowInvariance == Spec => []FlowInv
<1>1. Init => FlowInv
    <2> SUFFICES ASSUME Init, NEW p \in Parsers PROVE Flow(p)
        BY DEF FlowInv
    <2>1. inFlight[p] = 0 /\ applyPort[p] = <<>> /\ batch = <<>> /\ acks[p] = 0
        BY DEF Init, WiresInit, WriterInit, ParsersInit
    <2>2. Batched(p) = 0
        BY <2>1, FS_EmptySet DEF Batched
    <2>3. Spent(p, LiveOps) = {} /\ Spent(p, ReindexOps) = {}
        BY DEF Init, PoolInit, Spent, Ops
    <2>4. Outstanding(p) = 0 /\ Paid(p, LiveOps) = 0 /\ Paid(p, ReindexOps) = 0
        BY <2>1, <2>2, <2>3, FS_EmptySet DEF Outstanding, Paid
    <2> QED BY <2>1, <2>4, WindowAssumption DEF Flow
<1>2. TypeInv /\ SendInv /\ TalkInv /\ FitInv /\ FlowInv /\ [Next]_vars => FlowInv'
    <2> SUFFICES ASSUME TypeInv, SendInv, TalkInv, FitInv, FlowInv, [Next]_vars, fails' = 0
                 PROVE  \A p \in Parsers : Flow(p)'
        BY DEF FlowInv
    <2>1. TypeOK /\ HasFile /\ SentOnce /\ NoMissedWakeup
        BY DEF TypeInv, SendInv
    <2>2. fails = 0 /\ ~OneFailure
        BY <2>1, NoFailure
    <2>3. OneBulk /\ (\A x \in Ops : Talks(x)) /\ Fits /\ \A p \in Parsers : Flow(p)
        BY <2>2 DEF TalkInv, FitInv, FlowInv
    <2>4. CASE Call \/ HostResult
        BY <2>1, <2>3, <2>4, HostKeepsFlow
    <2>5. CASE WriterNext /\ UNCHANGED <<parserVars, poolVars>>
        BY <2>1, <2>2, <2>3, <2>5, WriterKeepsFlow
    <2>6. CASE ParsersNext /\ UNCHANGED <<writerVars, poolVars>>
        <3>1. PICK p \in Parsers : LoopTurn(p) \/ (\E o \in Ops : HandlerStep(p, o)) \/ ParserDies(p)
            BY <2>6 DEF ParsersNext
        <3>2. ~ParserDies(p)
            BY <2>2 DEF ParserDies
        <3>3. CASE LoopTurn(p)
            BY <2>1, <2>3, <2>6, <3>3, LoopKeepsFlow
        <3>4. ASSUME NEW o \in Ops, HandlerStep(p, o) PROVE \A q \in Parsers : Flow(q)'
            BY <2>1, <2>3, <2>6, <3>4, HandlerKeepsFlow
        <3> QED BY <3>1, <3>2, <3>3, <3>4
    <2>7. CASE (\E f \in Files : Workspace(f)) \/ UNCHANGED vars
        <3>1. UNCHANGED <<applyPort, batch, acks, toParser, at, todo, pc, inFlight>>
            BY <2>7 DEF Workspace, vars, wires, writerVars, parserVars, threadVars, poolVars
        <3> QED BY <2>3, <3>1 DEF Flow, Outstanding, Batched, Paid, Spent, ToPost, Resting
    <2> QED BY <2>4, <2>5, <2>6, <2>7 DEF Next
<1> QED BY <1>1, <1>2, TypeInvariance, SendInvariance, TalkInvariance, FitInvariance, PTL DEF Spec

----------------------------------------------------------------------------
(* What the counts and the window are for.                                    *)

\* The ops of S called so far.
Called(S) == {o \in S : pc[o] # "idle"}

LEMMA PaidIsCalled ==
    ASSUME NEW p \in Parsers, NEW S \in SUBSET Ops
    PROVE  Paid(p, S) \in Nat /\ Cardinality(Called(S)) \in Nat /\ Paid(p, S) <= Cardinality(Called(S))
<1>1. Called(S) \in SUBSET Ops /\ Spent(p, S) \in SUBSET Called(S)
    BY DEF Called, Spent
<1> QED BY <1>1, Fewer DEF Paid

\* Flow control counts right (worker.ts:31-45,141-143,157-159): as long as nothing fails,
\* a parser's inFlight is the number of its entries outstanding, except that live edits,
\* acknowledged and not counted (:195-202), lower it by one each at most.
THEOREM CountsDriftOnlyDown == Spec => []DriftBounded
<1>1. TypeOK /\ FlowInv => DriftBounded
    <2> SUFFICES ASSUME TypeOK, FlowInv, fails = 0, NEW p \in Parsers
                 PROVE  /\ inFlight[p] <= Outstanding(p)
                        /\ Outstanding(p) - inFlight[p] <= Cardinality(Called(LiveOps))
        BY DEF DriftBounded, Called
    <2>1. /\ inFlight[p] \in Int /\ Outstanding(p) \in Nat
          /\ Paid(p, LiveOps) \in Nat /\ Cardinality(Called(LiveOps)) \in Nat
          /\ Paid(p, LiveOps) <= Cardinality(Called(LiveOps))
        BY FlowTypes, PaidIsCalled DEF Outstanding, Ops
    <2>2. inFlight[p] <= Outstanding(p) /\ Outstanding(p) <= inFlight[p] + Paid(p, LiveOps)
        BY DEF FlowInv, Flow
    <2> QED BY <2>1, <2>2
<1> QED BY <1>1, TypeCorrect, FlowInvariance, PTL

\* The window bounds memory (worker.ts:141-148,195-202): as long as nothing fails, a
\* parser has no more entries outstanding than its window and one for each re-index and
\* live edit called, however many files its bulk run has and however slow the writer is.
THEOREM WindowBoundsMemory == Spec => []BackpressureBound
<1>1. TypeOK /\ FlowInv => BackpressureBound
    <2> SUFFICES ASSUME TypeOK, FlowInv, fails = 0, NEW p \in Parsers
                 PROVE  Outstanding(p) <= Window + Cardinality(Called(ReindexOps \cup LiveOps))
        BY DEF BackpressureBound, Called
    <2> DEFINE R == Called(ReindexOps)
               L == Called(LiveOps)
    <2>1. /\ inFlight[p] \in Int /\ Outstanding(p) \in Nat /\ Window \in Nat
          /\ Paid(p, LiveOps) \in Nat /\ Paid(p, LiveOps) <= Cardinality(L) /\ Cardinality(L) \in Nat
          /\ Paid(p, ReindexOps) \in Nat /\ Paid(p, ReindexOps) <= Cardinality(R) /\ Cardinality(R) \in Nat
        BY FlowTypes, PaidIsCalled DEF Outstanding, Ops
    <2>2. Cardinality(Called(ReindexOps \cup LiveOps)) = Cardinality(R) + Cardinality(L)
        <3>1. R \cap L = {} /\ Called(ReindexOps \cup LiveOps) = R \cup L
            BY OpsAssumption DEF Called
        <3>2. IsFiniteSet(R) /\ IsFiniteSet(L)
            <4>1. R \in SUBSET Ops /\ L \in SUBSET Ops
                BY DEF Called, Ops
            <4> QED BY <4>1, OpsAssumption, FS_Subset
        <3>3. Cardinality(R \cup L) = Cardinality(R) + Cardinality(L) - Cardinality(R \cap L)
            BY <3>2, FS_Union
        <3>4. Cardinality(R \cap L) = 0
            BY <3>1, FS_EmptySet
        <3>5. PICK r, l \in Nat : r = Cardinality(R) /\ l = Cardinality(L)
            BY <2>1
        <3>6. Cardinality(R \cup L) = r + l
            BY <3>3, <3>4, <3>5
        <3> QED BY <3>1, <3>5, <3>6
    <2>3. /\ Outstanding(p) <= inFlight[p] + Paid(p, LiveOps)
          /\ inFlight[p] <= Window + Paid(p, ReindexOps)
        BY DEF FlowInv, Flow
    <2> HIDE DEF R, L
    <2> QED BY <2>1, <2>2, <2>3
<1> QED BY <1>1, TypeCorrect, FlowInvariance, PTL


----------------------------------------------------------------------------
(* Which entry is the last. With one parser, the last entry of a file on its    *)
(* way to the tables is what the file holds, unless a re-index that has still   *)
(* to read it is under way, or the watcher has still to be heard.              *)

Absent(s, f) == \A i \in DOMAIN s : s[i].file # f

\* The last entry of f in s is of version v.
Last(s, f, v) ==
    \E i \in DOMAIN s :
        /\ s[i].file = f /\ s[i].ver = v
        /\ \A j \in DOMAIN s : j > i => s[j].file # f

\* What the tables will hold of f is what is on disk.
Current(f) ==
    \/ Last(applyPort[1], f, disk[f])
    \/ /\ Absent(applyPort[1], f)
       /\ Last(batch, f, disk[f]) \/ (Absent(batch, f) /\ rows[f] \in {0, disk[f]})

\* Every change of f was heard, and its re-index received.
Heard(f) ==
    /\ notice[f] = "none"
    /\ \A i \in DOMAIN toParser[1] :
          toParser[1][i].op \in ReindexOps => Head(toParser[1][i].files) # f

Holds(o, f) == at[1][o] # "none" /\ todo[1][o] # <<>> /\ Head(todo[1][o]) = f

\* A handler that parses f has read what is on disk.
ReadNow(f) == \A o \in Ops : at[1][o] = "parse" /\ Holds(o, f) => text[1][o] = disk[f]

Ordered(f) ==
    f \notin Edited /\ LangOf[f] = NoLang /\ disk[f] # 0 /\ Heard(f) =>
        ReadNow(f) /\ (Current(f) \/ \E o \in ReindexOps : Holds(o, f))

\* A live edit is about the file of its buffer, and a deleted file is not there.
Sorted ==
    /\ \A i \in DOMAIN toParser[1] :
          toParser[1][i].op \in LiveOps => Head(toParser[1][i].files) \in Edited
    /\ \A o \in LiveOps : at[1][o] # "none" /\ todo[1][o] # <<>> => Head(todo[1][o]) \in Edited
    /\ \A o \in Ops : at[1][o] = "load" => LangOf[Head(todo[1][o])] # NoLang
    /\ \A f \in Files : notice[f] = "delete" => disk[f] = 0

OrderInv == Size = 1 /\ fails = 0 => Sorted /\ \A f \in Files : Ordered(f)


LEMMA AppendLast ==
    ASSUME NEW S, NEW s \in Seq(S), NEW e \in S, NEW f, NEW v
    PROVE  /\ e.file = f => Last(Append(s, e), f, e.ver)
           /\ e.file # f /\ Last(s, f, v) => Last(Append(s, e), f, v)
           /\ e.file # f /\ Absent(s, f) => Absent(Append(s, e), f)
<1> DEFINE t == Append(s, e)
<1>1. /\ DOMAIN t = 1 .. Len(s) + 1 /\ DOMAIN s = 1 .. Len(s) /\ Len(s) \in Nat
      /\ t[Len(s) + 1] = e /\ \A i \in 1 .. Len(s) : t[i] = s[i]
    OBVIOUS
<1> HIDE DEF t
<1>2. e.file = f => Last(t, f, e.ver)
    BY <1>1 DEF Last
<1>3. e.file # f /\ Last(s, f, v) => Last(t, f, v)
    BY <1>1 DEF Last
<1>4. e.file # f /\ Absent(s, f) => Absent(t, f)
    BY <1>1 DEF Absent
<1> QED BY <1>2, <1>3, <1>4 DEF t

LEMMA TailLast ==
    ASSUME NEW S, NEW s \in Seq(S), s # <<>>, NEW f, NEW v
    PROVE  /\ Last(s, f, v) => \/ Last(Tail(s), f, v)
                               \/ Absent(Tail(s), f) /\ Head(s).file = f /\ Head(s).ver = v
           /\ Absent(s, f) => Absent(Tail(s), f) /\ Head(s).file # f
<1> DEFINE t == Tail(s)
<1>1. /\ Len(s) \in Nat \ {0} /\ DOMAIN s = 1 .. Len(s) /\ DOMAIN t = 1 .. Len(s) - 1
      /\ \A i \in 1 .. Len(s) - 1 : t[i] = s[i + 1]
      /\ Head(s) = s[1]
    OBVIOUS
<1> HIDE DEF t
<1>2. ASSUME Last(s, f, v)
      PROVE  Last(t, f, v) \/ (Absent(t, f) /\ Head(s).file = f /\ Head(s).ver = v)
    <2>1. PICK i \in DOMAIN s : s[i].file = f /\ s[i].ver = v /\ \A j \in DOMAIN s : j > i => s[j].file # f
        BY <1>2 DEF Last
    <2>2. CASE i = 1
        BY <1>1, <2>1, <2>2 DEF Absent
    <2>3. CASE i # 1
        <3>1. i - 1 \in DOMAIN t /\ t[i - 1] = s[i]
            BY <1>1, <2>1, <2>3
        <3>2. \A j \in DOMAIN t : j > i - 1 => t[j].file # f
            BY <1>1, <2>1
        <3> QED BY <2>1, <3>1, <3>2 DEF Last
    <2> QED BY <2>2, <2>3
<1>3. Absent(s, f) => Absent(t, f) /\ Head(s).file # f
    BY <1>1 DEF Absent
<1> QED BY <1>2, <1>3 DEF t

\* A transaction leaves a file at its last entry.
LEMMA WrittenLast ==
    ASSUME NEW b \in Seq(Entry), NEW f \in Files, NEW v
    PROVE  /\ Last(b, f, v) => Written(b)[f] = v
           /\ Absent(b, f) => Written(b)[f] = rows[f]
<1>1. ASSUME Last(b, f, v) PROVE Written(b)[f] = v
    <2> DEFINE is == {i \in DOMAIN b : b[i].file = f}
               k == CHOOSE i \in is : \A j \in is : j <= i
    <2>1. DOMAIN b = 1 .. Len(b) /\ Len(b) \in Nat
        OBVIOUS
    <2>2. PICK i \in DOMAIN b : b[i].file = f /\ b[i].ver = v /\ \A j \in DOMAIN b : j > i => b[j].file # f
        BY <1>1 DEF Last
    <2>3. i \in is /\ \A j \in is : j <= i
        BY <2>1, <2>2
    <2>4. k \in is /\ \A j \in is : j <= k
        BY <2>3, Zenon
    <2>5. k = i
        <3>1. i \in Nat /\ \A j \in is : j \in Nat
            BY <2>1, <2>2
        <3> HIDE DEF is, k
        <3> QED BY <2>3, <2>4, <3>1
    <2>6. LastVer(b, f) = v
        BY <2>2, <2>5 DEF LastVer
    <2>7. f \in FilesOf(b)
        BY <2>2 DEF FilesOf
    <2> QED BY <2>6, <2>7 DEF Written
<1>2. ASSUME Absent(b, f) PROVE Written(b)[f] = rows[f]
    <2>1. f \notin FilesOf(b)
        BY <1>2 DEF Absent, FilesOf
    <2> QED BY <2>1 DEF Written
<1> QED BY <1>1, <1>2

\* The writer takes the entries in their order, and what it removes has no rows.
LEMMA WriterKeepsCurrent ==
    ASSUME TypeOK, Size = 1, WriterNext, ~OneFailure, NEW f \in Files, Current(f)
    PROVE  Current(f)'
<1>1. /\ batch \in Seq(Entry) /\ applyPort \in [Parsers -> Seq(ApplyMsg)] /\ rows \in [Files -> Version]
      /\ 1 \in Parsers /\ \A p \in Parsers : p = 1
    BY DEF TypeOK, WiresTypeOK, WriterTypeOK, Parsers
<1>2. UNCHANGED disk
    BY DEF WriterNext, ReceiveApply, TimerFires, WriterRequest, Flush, Remove, ResolveParents,
           Answer, FlushingRequestThrows, StatementThrows, DropIndexes, CreateIndexes
<1>3. Last(batch, f, disk[f]) \/ (Absent(batch, f) /\ rows[f] \in {0, disk[f]}) => Written(batch)[f] \in {0, disk[f]}
    BY <1>1, WrittenLast
<1>4. Absent(<<>>, f)
    BY DEF Absent
<1>5. CASE UNCHANGED <<rows, batch, applyPort>>
    BY <1>2, <1>5 DEF Current, Last, Absent
<1>6. CASE /\ UNCHANGED applyPort /\ batch' = <<>>
           /\ rows'[f] = Written(batch)[f] \/ rows'[f] = 0
    BY <1>2, <1>3, <1>4, <1>6 DEF Current
<1>7. ASSUME NEW p \in Parsers, ReceiveApply(p) PROVE Current(f)'
    <2> DEFINE e == Head(applyPort[1])
               m == [file |-> e.file, ver |-> e.ver, port |-> p]
               b == Append(batch, m)
    <2>1. applyPort[1] # <<>> /\ applyPort'[1] = Tail(applyPort[1]) /\ applyPort[1] \in Seq(ApplyMsg)
        BY <1>1, <1>7 DEF ReceiveApply
    <2>2. e \in ApplyMsg
        BY <2>1
    <2>3. m \in Entry /\ m.file = e.file /\ m.ver = e.ver
        BY <2>2 DEF ApplyMsg, Entry
    <2>4. (batch' = b /\ UNCHANGED rows) \/ (batch' = <<>> /\ rows' = Written(b))
        BY <1>1, <1>7 DEF ReceiveApply, FlushBatch
    <2> HIDE DEF m
    <2>5. /\ b \in Seq(Entry)
          /\ m.file = f => Last(b, f, m.ver)
          /\ m.file # f /\ Last(batch, f, disk[f]) => Last(b, f, disk[f])
          /\ m.file # f /\ Absent(batch, f) => Absent(b, f)
        BY <1>1, <2>3, AppendLast
    <2>6. /\ Last(applyPort[1], f, disk[f]) =>
                \/ Last(Tail(applyPort[1]), f, disk[f])
                \/ Absent(Tail(applyPort[1]), f) /\ e.file = f /\ e.ver = disk[f]
          /\ Absent(applyPort[1], f) => Absent(Tail(applyPort[1]), f) /\ e.file # f
        BY <2>1, TailLast
    <2> HIDE DEF b, e
    <2>7. \/ Last(applyPort'[1], f, disk[f])
          \/ /\ Absent(applyPort'[1], f)
             /\ Last(b, f, disk[f]) \/ (Absent(b, f) /\ rows[f] \in {0, disk[f]})
        BY <2>1, <2>3, <2>5, <2>6 DEF Current
    <2>8. Last(b, f, disk[f]) \/ (Absent(b, f) /\ rows[f] \in {0, disk[f]}) => Written(b)[f] \in {0, disk[f]}
        BY <2>5, WrittenLast
    <2> QED BY <1>2, <1>4, <2>4, <2>7, <2>8 DEF Current
<1>8. CASE TimerFires \/ WriterRequest
    <2>1. CASE Remove
        <3>1. rows'[f] = Written(batch)[f] \/ rows'[f] = 0
            BY <2>1 DEF Remove
        <3> QED BY <1>6, <2>1, <3>1 DEF Remove, Answer, FlushBatch
    <2> QED BY <1>5, <1>6, <1>8, <2>1 DEF TimerFires, WriterRequest, Flush, ResolveParents, Answer, FlushBatch,
               FlushingRequestThrows, FlushThrows, StatementThrows, DropIndexes, CreateIndexes
<1> QED BY <1>7, <1>8 DEF WriterNext


LEMMA EditedGrows ==
    ASSUME TypeOK, \A x \in Ops : Talks(x), UNCHANGED <<pc, files>> \/ Call \/ HostResult
    PROVE  Edited \subseteq Edited'
<1>1. ASSUME NEW o \in LiveOps, pc[o] # "idle" PROVE pc'[o] # "idle" /\ files'[o] = files[o]
    <2>1. o \in Ops /\ o \notin BulkOps
        BY OpsAssumption DEF Ops
    <2>2. CASE Call
        BY <1>1, <2>1, <2>2, CallFrame
    <2>3. CASE HostResult
        <3>1. UNCHANGED files
            BY <2>3 DEF HostResult, ParserResult, WriterResult, WriterError
        <3>2. pc[o] \notin Unsent
            BY <1>1, <2>1 DEF Talks, Stages, Unsent
        <3>3. 1 \in Parsers
            BY SizeAssumption DEF Parsers
        <3>4. HostSends(1, o)
            BY <2>1, <2>3, <3>3, ResultSends
        <3> QED BY <3>1, <3>2, <3>4 DEF HostSends, Unsent
    <2> QED BY <1>1, <2>2, <2>3
<1> QED BY <1>1 DEF Edited

\* What the one parser is told: nothing or something about a bulk run, the file whose
\* notice is taken off, or a file with a live edit.
HostTells ==
    \/ /\ \/ toParser'[1] = toParser[1]
          \/ \E m \in ParserMsg : toParser'[1] = Append(toParser[1], m) /\ m.op \notin Small
       /\ \A f \in Files : notice'[f] = notice[f] \/ (notice[f] = "delete" /\ notice'[f] = "none")
    \/ \E f \in Files, m \in ParserMsg :
          /\ toParser'[1] = Append(toParser[1], m) /\ m.op \in ReindexOps /\ m.files = <<f>>
          /\ \A g \in Files : g # f => notice'[g] = notice[g]
          /\ notice'[f] = "none"
    \/ \E f \in Edited', m \in ParserMsg :
          /\ toParser'[1] \in {toParser[1], Append(toParser[1], m)}
          /\ m.op \in LiveOps /\ m.files = <<f>>
          /\ UNCHANGED notice

LEMMA HostTellsSo ==
    ASSUME TypeOK, Size = 1, Calm, \A x \in Ops : Talks(x), Call \/ HostResult
    PROVE  HostTells
<1>1. /\ 1 \in Parsers /\ nw \in 0..1 /\ toParser \in [Parsers -> Seq(ParserMsg)]
      /\ notice \in [Files -> {"none", "change", "delete"}]
      /\ pc \in [Ops -> PCs] /\ files \in [Ops -> Seq(Files)]
    BY DEF TypeOK, PoolTypeOK, WiresTypeOK, Parsers
<1>2. Pick.p = 1
    BY PickType DEF Parsers
<1>3. \A m : ToParser(1, m) = Append(toParser[1], m)
    BY <1>1 DEF Calm, ToParser
<1>4. ASSUME NEW o \in BulkOps, NEW s \in Plans, NEW rb \in BOOLEAN, CallIndexAll(o, s, rb)
      PROVE  HostTells
    <2> DEFINE want == IF Len(s) < Size THEN Len(s) ELSE Size
               n == IF nw < want THEN want ELSE nw
    <2>1. s \in Seq(Files) /\ n \in 0..Size /\ o \in Ops /\ o \notin Small
        BY <1>1, PlansAssumption, SizeAssumption, OpsAssumption DEF Ops, Small
    <2>2. UNCHANGED toParser \/ SendShards(o, s, n)
        BY <1>4 DEF CallIndexAll
    <2>3. UNCHANGED notice
        BY <1>4 DEF CallIndexAll
    <2> HIDE DEF n
    <2>4. \/ toParser'[1] = toParser[1]
          \/ \E m \in ParserMsg : toParser'[1] = Append(toParser[1], m) /\ m.op = o
        <3>1. CASE SendShards(o, s, n)
            BY <1>1, <2>1, <3>1, ShardsSent
        <3> QED BY <2>2, <3>1
    <2> QED BY <2>1, <2>3, <2>4 DEF HostTells
<1>5. ASSUME NEW o \in ReindexOps, NEW f \in Files, CallReindex(o, f) PROVE HostTells
    <2> DEFINE m == [kind |-> "reindex", op |-> o, files |-> <<f>>, ver |-> 0]
    <2>1. 0 \in Version /\ o \in Ops /\ <<f>> \in Seq(Files)
        BY BoundsAssumption DEF Version, Ops
    <2>2. m \in ParserMsg /\ m.op \in ReindexOps /\ m.files = <<f>>
        BY <2>1, CallMsgType
    <2>3. toParser'[1] = Append(toParser[1], m)
        BY <1>1, <1>2, <1>3, <1>5 DEF CallReindex, CallParser
    <2>4. notice'[f] = "none" /\ \A g \in Files : g # f => notice'[g] = notice[g]
        BY <1>1, <1>5 DEF CallReindex
    <2> HIDE DEF m
    <2> QED BY <2>2, <2>3, <2>4 DEF HostTells
<1>6. ASSUME NEW o \in LiveOps, NEW f \in Files, CallReindexContent(o, f) PROVE HostTells
    <2> DEFINE m == [kind |-> "reindexContent", op |-> o, files |-> <<f>>, ver |-> edits + 2]
    <2>1. edits + 2 \in Version /\ o \in Ops /\ <<f>> \in Seq(Files)
        BY <1>6, BoundsAssumption DEF CallReindexContent, Version, TypeOK, WiresTypeOK, Ops
    <2>2. m \in ParserMsg /\ m.op \in LiveOps /\ m.files = <<f>>
        BY <2>1, CallMsgType
    <2>3. toParser'[1] = Append(toParser[1], m)
        BY <1>1, <1>2, <1>3, <1>6 DEF CallReindexContent, CallParser
    <2>4. UNCHANGED notice
        BY <1>6 DEF CallReindexContent
    <2>5. f \in Edited'
        <3>1. pc'[o] # "idle" /\ files'[o][1] = f
            BY <1>1, <1>6, <2>1 DEF CallReindexContent, CallParser
        <3> QED BY <3>1 DEF Edited
    <2> HIDE DEF m
    <2> QED BY <2>2, <2>3, <2>4, <2>5 DEF HostTells
<1>7. ASSUME NEW o \in RemoveOps, NEW f \in Files, CallRemove(o, f) PROVE HostTells
    BY <1>1, <1>7 DEF CallRemove, HostTells
<1>8. CASE Cancel
    <2>1. toParser'[1] \in {toParser[1], Append(toParser[1], CancelMsg)} /\ UNCHANGED notice
        BY <1>1, <1>3, <1>8 DEF Cancel
    <2>2. CancelMsg \in ParserMsg /\ CancelMsg.op \notin Small
        BY OpsAssumption DEF ParserMsg, CancelMsg, Small, Ops
    <2> QED BY <2>1, <2>2 DEF HostTells
<1>9. CASE \E q \in Parsers : ParserResult(q)
    BY <1>9 DEF ParserResult, HostTells
<1>10. CASE WriterResult
    <2>1. UNCHANGED notice
        BY <1>10 DEF WriterResult
    <2>2. PICK o \in Ops : WriterResultOf(o)
        BY <1>10, WriterResultEffect
    <2>3. pc[o] = "drop" => o \in BulkOps /\ o \notin Small
        BY OpsAssumption DEF Talks, Stages, Small
    <2>4. UNCHANGED toParser \/ (pc[o] = "drop" /\ SendShards(o, files[o], nw))
        BY <2>2 DEF WriterResultOf
    <2>5. files[o] \in Seq(Files) /\ nw \in 0..Size
        BY <1>1
    <2>6. \/ toParser'[1] = toParser[1]
          \/ pc[o] = "drop" /\ \E m \in ParserMsg : toParser'[1] = Append(toParser[1], m) /\ m.op = o
        <3>1. SendShards(o, files[o], nw) =>
                 \/ toParser'[1] = toParser[1]
                 \/ \E m \in ParserMsg : toParser'[1] = Append(toParser[1], m) /\ m.op = o
            BY <1>1, <2>5, ShardsSent
        <3> QED BY <2>4, <3>1
    <2> QED BY <2>1, <2>3, <2>6 DEF HostTells
<1> QED BY <1>4, <1>5, <1>6, <1>7, <1>8, <1>9, <1>10, NoWriterError DEF Call, HostResult


LEMMA HostKeepsOrder ==
    ASSUME TypeOK, Size = 1, Calm, \A x \in Ops : Talks(x), Sorted, \A f \in Files : Ordered(f),
           Call \/ HostResult
    PROVE  Sorted' /\ \A f \in Files : Ordered(f)'
<1>1. UNCHANGED <<disk, applyPort, batch, rows, at, todo, text>>
    BY DEF Call, CallIndexAll, CallReindex, CallReindexContent, CallParser, CallRemove, Cancel,
           HostResult, ParserResult, WriterResult, WriterError, writerVars, parserVars, threadVars
<1>2. toParser[1] \in Seq(ParserMsg) /\ Edited \subseteq Edited'
    BY EditedGrows DEF TypeOK, WiresTypeOK, Parsers
<1>3. HostTells
    BY HostTellsSo
<1>4. \A i \in DOMAIN toParser[1] : \E k \in DOMAIN toParser'[1] : toParser'[1][k] = toParser[1][i]
    BY <1>2, <1>3, AppendCells DEF HostTells
<1>5. ASSUME NEW i \in DOMAIN toParser'[1], toParser'[1][i].op \in LiveOps
      PROVE  Head(toParser'[1][i].files) \in Edited'
    <2>1. CASE i \in DOMAIN toParser[1] /\ toParser'[1][i] = toParser[1][i]
        BY <1>2, <1>5, <2>1 DEF Sorted
    <2>2. ASSUME NEW m \in ParserMsg, toParser'[1] = Append(toParser[1], m), toParser'[1][i] = m
          PROVE  Head(toParser'[1][i].files) \in Edited'
        <3>1. m.op \in LiveOps /\ m.op \notin ReindexOps
            BY <1>5, <2>2, OpsAssumption
        <3>2. \E f \in Edited' : m.files = <<f>>
            BY <1>2, <1>3, <2>2, <3>1 DEF HostTells, Small
        <3> QED BY <2>2, <3>2
    <2> QED BY <1>2, <1>3, <1>5, <2>1, <2>2, AppendCells DEF HostTells
<1>6. Sorted'
    <2>1. \A f \in Files : notice'[f] = "delete" => notice[f] = "delete"
        BY <1>3 DEF HostTells
    <2> QED BY <1>1, <1>2, <1>5, <2>1 DEF Sorted
<1>7. ASSUME NEW f \in Files, Heard(f)', disk[f] # 0 PROVE Heard(f)
    <2>1. \A i \in DOMAIN toParser[1] : toParser[1][i].op \in ReindexOps => Head(toParser[1][i].files) # f
        BY <1>4, <1>7 DEF Heard
    <2>2. notice[f] = "none"
        <3>1. ASSUME NEW m \in ParserMsg, toParser'[1] = Append(toParser[1], m), m.op \in ReindexOps
              PROVE  m.files # <<f>>
            <4>1. \E k \in DOMAIN toParser'[1] : toParser'[1][k] = m
                BY <1>2, <3>1, AppendCells
            <4>2. Head(m.files) # f
                BY <1>7, <3>1, <4>1 DEF Heard
            <4> QED BY <4>2
        <3>2. notice[f] # "delete"
            BY <1>7 DEF Sorted
        <3> QED BY <1>3, <1>7, <3>1, <3>2 DEF HostTells, Heard
    <2> QED BY <2>1, <2>2 DEF Heard
<1>8. ASSUME NEW f \in Files PROVE Ordered(f)'
    <2> SUFFICES ASSUME f \notin Edited', LangOf[f] = NoLang, disk'[f] # 0, Heard(f)'
                 PROVE  ReadNow(f)' /\ (Current(f)' \/ \E o \in ReindexOps : Holds(o, f)')
        BY DEF Ordered
    <2>1. ReadNow(f) /\ (Current(f) \/ \E o \in ReindexOps : Holds(o, f))
        BY <1>1, <1>2, <1>7 DEF Ordered
    <2> QED BY <1>1, <2>1 DEF ReadNow, Current, Last, Absent, Holds
<1> QED BY <1>6, <1>8


LEMMA HandlerKeepsSorted ==
    ASSUME TypeOK, HasFile, SentOnce, Fits, Size = 1, Sorted, NEW o \in Ops, HandlerStep(1, o), ~OneFailure,
           UNCHANGED <<writerVars, poolVars>>
    PROVE  Sorted'
<1>1. /\ UNCHANGED <<disk, toParser, notice, pc, files>> /\ Edited' = Edited
    BY DEF HandlerStep, Start, BeginFile, PostApply, ParseThrows, Finish, wires, poolVars, Edited
<1>2. /\ at \in [Parsers -> [Ops -> Places]] /\ todo \in [Parsers -> [Ops -> Seq(Files)]] /\ 1 \in Parsers
    BY DEF TypeOK, ParsersTypeOK, Parsers
<1>3. \A x \in Ops : x # o => at'[1][x] = at[1][x] /\ todo'[1][x] = todo[1][x]
    BY <1>2 DEF HandlerStep, Start, BeginFile, PostApply, ParseThrows, Finish, Reply, Move
<1>4. CASE Start(1, o)
    BY <1>1, <1>2, <1>3, <1>4 DEF Start, Move, Sorted, Ops
<1>5. CASE BeginFile(1, o)
    <2>1. o \in LiveOps \/ at'[1][o] # "go" => todo'[1][o] = todo[1][o] /\ at[1][o] # "none"
        BY <1>2, <1>5 DEF BeginFile
    <2>2. at'[1][o] = "load" => LangOf[Head(todo'[1][o])] # NoLang
        BY <1>2, <1>5 DEF BeginFile, Move, HasParser
    <2> QED BY <1>1, <1>3, <2>1, <2>2 DEF Sorted, Ops
<1>6. CASE PostApply(1, o)
    <2>1. at'[1][o] \in {"go", "wait"}
        BY <1>2, <1>6 DEF PostApply, Move
    <2>2. o \in LiveOps => todo'[1][o] = <<>>
        BY <1>2, <1>6, <2>1, PostSpends DEF ToPost, Small
    <2> QED BY <1>1, <1>3, <2>1, <2>2 DEF Sorted, Ops
<1>7. CASE Finish(1, o)
    BY <1>1, <1>2, <1>3, <1>7 DEF Finish, Reply, Move, Sorted, Ops
<1> QED BY <1>4, <1>5, <1>6, <1>7 DEF HandlerStep, ParseThrows

\* A handler that read a file posts what it read, and one that skips it found no file.
LEMMA HandlerKeepsOrdered ==
    ASSUME TypeOK, HasFile, Size = 1, Sorted, NEW f \in Files, Ordered(f), NEW o \in Ops, HandlerStep(1, o),
           ~OneFailure, UNCHANGED <<writerVars, poolVars>>
    PROVE  Ordered(f)'
<1>1. /\ UNCHANGED <<disk, toParser, notice, batch, rows, pc, files>> /\ Edited' = Edited
    BY DEF HandlerStep, Start, BeginFile, PostApply, ParseThrows, Finish, wires, writerVars, poolVars, Edited
<1>2. /\ at \in [Parsers -> [Ops -> Places]] /\ todo \in [Parsers -> [Ops -> Seq(Files)]]
      /\ text \in [Parsers -> [Ops -> Version]] /\ applyPort \in [Parsers -> Seq(ApplyMsg)] /\ 1 \in Parsers
    BY DEF TypeOK, ParsersTypeOK, WiresTypeOK, Parsers
<1>3. \A x \in Ops : x # o =>
         at'[1][x] = at[1][x] /\ todo'[1][x] = todo[1][x] /\ text'[1][x] = text[1][x]
    BY <1>2 DEF HandlerStep, Start, BeginFile, PostApply, ParseThrows, Finish, Reply, Move
<1> SUFFICES ASSUME f \notin Edited, LangOf[f] = NoLang, disk[f] # 0, Heard(f)
             PROVE  ReadNow(f)' /\ (Current(f)' \/ \E r \in ReindexOps : Holds(r, f)')
    BY <1>1 DEF Ordered, Heard
<1>4. ReadNow(f) /\ (Current(f) \/ \E r \in ReindexOps : Holds(r, f))
    BY DEF Ordered
<1>5. ASSUME at'[1][o] = "parse", Holds(o, f)' PROVE text'[1][o] = disk[f]
    <2>1. BeginFile(1, o) /\ todo'[1][o] = todo[1][o] /\ Holds(o, f)
        BY <1>2, <1>5 DEF HandlerStep, Start, BeginFile, PostApply, ParseThrows, Finish, Reply, Move, Holds
    <2>2. o \notin LiveOps
        BY <2>1 DEF Sorted, Holds
    <2> QED BY <1>2, <1>5, <2>1, <2>2 DEF BeginFile, Holds
<1>6. ReadNow(f)'
    BY <1>1, <1>3, <1>4, <1>5 DEF ReadNow, Holds
<1>7. ASSUME Current(f), ~PostApply(1, o) PROVE Current(f)'
    <2>1. UNCHANGED applyPort
        BY <1>7 DEF HandlerStep, Start, BeginFile, ParseThrows, Finish, wires
    <2> QED BY <1>1, <1>7, <2>1 DEF Current, Last, Absent
<1>8. CASE PostApply(1, o)
    <2> DEFINE e == [file |-> Head(todo[1][o]), ver |-> text[1][o]]
    <2>1. at[1][o] = "parse" /\ todo[1][o] \in Seq(Files) /\ todo[1][o] # <<>> /\ text[1][o] \in Version
        BY <1>2, <1>8 DEF PostApply, HasFile
    <2>2. e \in ApplyMsg /\ applyPort[1] \in Seq(ApplyMsg) /\ applyPort'[1] = Append(applyPort[1], e)
        <3>1. Head(todo[1][o]) \in Files
            BY <2>1
        <3>2. e \in ApplyMsg
            BY <2>1, <3>1 DEF ApplyMsg
        <3>3. applyPort'[1] = Append(applyPort[1], e)
            BY <1>2, <1>8 DEF PostApply
        <3> QED BY <1>2, <3>2, <3>3
    <2>3. e.file = f => e.ver = disk[f]
        BY <1>4, <2>1 DEF ReadNow, Holds
    <2>4. e.file = Head(todo[1][o])
        OBVIOUS
    <2> HIDE DEF e
    <2>5. /\ e.file = f => Last(applyPort'[1], f, e.ver)
          /\ e.file # f /\ Last(applyPort[1], f, disk[f]) => Last(applyPort'[1], f, disk[f])
          /\ e.file # f /\ Absent(applyPort[1], f) => Absent(applyPort'[1], f)
        BY <2>2, AppendLast
    <2>6. Last(batch', f, disk'[f]) = Last(batch, f, disk[f]) /\ Absent(batch', f) = Absent(batch, f)
        BY <1>1
    <2>7. CASE e.file = f
        BY <1>1, <1>6, <2>3, <2>5, <2>7 DEF Current
    <2>8. CASE e.file # f
        <3>1. Current(f) => Current(f)'
            BY <1>1, <2>5, <2>6, <2>8 DEF Current
        <3>2. \A r \in ReindexOps : Holds(r, f) => Holds(r, f)'
            BY <1>3, <2>4, <2>8 DEF Holds, Ops
        <3> QED BY <1>4, <1>6, <3>1, <3>2
    <2> QED BY <2>7, <2>8
<1>9. ASSUME NEW r \in ReindexOps, Holds(r, f), ~PostApply(1, o) PROVE Holds(r, f)'
    <2>1. CASE r # o
        BY <1>3, <1>9, <2>1 DEF Holds, Ops
    <2>2. CASE r = o
        <3>1. o \notin BulkOps
            BY <2>2, OpsAssumption
        <3>2. Start(1, o) \/ BeginFile(1, o)
            BY <1>9, <2>2, <3>1 DEF HandlerStep, ParseThrows, Finish, Holds
        <3> QED BY <1>2, <1>9, <2>2, <3>2 DEF Start, BeginFile, Move, Holds
    <2> QED BY <2>1, <2>2
<1> QED BY <1>4, <1>6, <1>7, <1>8, <1>9


\* A message is taken when no handler is runnable: nothing was read and not yet posted.
LEMMA RequestKeepsOrder ==
    ASSUME TypeOK, SentOnce, Fits, Size = 1, Sorted, \A f \in Files : Ordered(f), ReceiveRequest(1),
           UNCHANGED <<writerVars, poolVars>>
    PROVE  Sorted' /\ \A f \in Files : Ordered(f)'
<1> DEFINE m == Head(toParser[1])
<1>1. /\ UNCHANGED <<disk, applyPort, notice, batch, rows, pc, files>> /\ Edited' = Edited
    BY DEF ReceiveRequest, writerVars, poolVars, Edited
<1>2. /\ at \in [Parsers -> [Ops -> Places]] /\ todo \in [Parsers -> [Ops -> Seq(Files)]] /\ 1 \in Parsers
      /\ toParser \in [Parsers -> Seq(ParserMsg)]
    BY DEF TypeOK, ParsersTypeOK, WiresTypeOK, Parsers
<1>3. toParser[1] # <<>> /\ toParser'[1] = Tail(toParser[1]) /\ toParser[1] \in Seq(ParserMsg)
    BY <1>2 DEF ReceiveRequest
<1>4. /\ m = toParser[1][1] /\ 1 \in DOMAIN toParser[1] /\ m \in ParserMsg
      /\ \A i \in DOMAIN toParser'[1] : i + 1 \in DOMAIN toParser[1] /\ toParser'[1][i] = toParser[1][i + 1]
      /\ \A i \in DOMAIN toParser[1] :
            toParser[1][i] = m \/ \E k \in DOMAIN toParser'[1] : toParser'[1][k] = toParser[1][i]
    BY <1>3, TailCells
<1>5. /\ m.op \in Ops => at[1][m.op] = "none"
      /\ m.op \in ReindexOps => m.kind # "cancel" /\ m.files # <<>>
    <2>1. Asked(toParser[1], m.op)
        BY <1>4 DEF Asked
    <2>2. m.op \in ReindexOps => m.kind # "cancel"
        BY <1>4, OpsAssumption DEF ParserMsg, Calls, CancelMsg, Ops
    <2>3. m.op \in ReindexOps => Len(m.files) = 1
        BY <1>2, <1>4 DEF Fits, Fit, Small
    <2>4. m.op \in Ops => at[1][m.op] = "none"
        BY <1>2, <2>1 DEF SentOnce, SentOnceTo
    <2>5. Len(<<>>) # 1
        OBVIOUS
    <2> HIDE DEF m
    <2> QED BY <2>2, <2>3, <2>4, <2>5
<1>6. \/ m.kind = "cancel" /\ UNCHANGED <<at, todo, text>>
      \/ /\ m.op \in Ops
         /\ at'[1][m.op] \in {"start", "ready"} /\ todo'[1][m.op] = m.files
         /\ \A x \in Ops : x # m.op => at'[1][x] = at[1][x] /\ todo'[1][x] = todo[1][x]
    <2>1. m.kind # "cancel" => m.op \in Ops
        BY <1>4 DEF ParserMsg, Calls, CancelMsg
    <2>2. \/ m.kind = "cancel" /\ UNCHANGED <<at, todo, text>>
          \/ /\ m.kind # "cancel"
             /\ Move(1, m.op, IF ready[1] THEN "start" ELSE "ready")
             /\ todo' = [todo EXCEPT ![1][m.op] = m.files]
        BY DEF ReceiveRequest
    <2> HIDE DEF m
    <2> QED BY <1>2, <2>1, <2>2 DEF Move
<1>7. \A x \in Ops : at[1][x] # "parse" /\ at'[1][x] # "parse"
    BY <1>6 DEF ReceiveRequest, Drained, Runnable
<1> HIDE DEF m
<1>8. Sorted'
    <2>1. \A i \in DOMAIN toParser'[1] : toParser'[1][i].op \in LiveOps => Head(toParser'[1][i].files) \in Edited
        BY <1>4 DEF Sorted
    <2>2. m.op \in LiveOps => Head(m.files) \in Edited
        BY <1>4 DEF Sorted
    <2>3. \A x \in LiveOps : at'[1][x] # "none" /\ todo'[1][x] # <<>> => Head(todo'[1][x]) \in Edited
        BY <1>6, <2>2 DEF Sorted, Ops
    <2>4. \A x \in Ops : at'[1][x] = "load" => LangOf[Head(todo'[1][x])] # NoLang
        BY <1>6 DEF Sorted
    <2> QED BY <1>1, <2>1, <2>3, <2>4 DEF Sorted
<1>9. ASSUME NEW f \in Files PROVE Ordered(f)'
    <2> SUFFICES ASSUME f \notin Edited, LangOf[f] = NoLang, disk[f] # 0, Heard(f)'
                 PROVE  ReadNow(f)' /\ (Current(f)' \/ \E r \in ReindexOps : Holds(r, f)')
        BY <1>1 DEF Ordered
    <2>1. ReadNow(f)'
        BY <1>7 DEF ReadNow
    <2>2. CASE m.op \in ReindexOps /\ Head(m.files) = f
        BY <1>5, <1>6, <2>1, <2>2 DEF Holds
    <2>3. CASE m.op \in ReindexOps => Head(m.files) # f
        <3>1. Heard(f)
            BY <1>1, <1>4, <2>3 DEF Heard
        <3>2. Current(f) \/ \E r \in ReindexOps : Holds(r, f)
            BY <3>1 DEF Ordered
        <3>3. Current(f) => Current(f)'
            BY <1>1 DEF Current, Last, Absent
        <3>4. \A r \in ReindexOps : Holds(r, f) => Holds(r, f)'
            BY <1>5, <1>6 DEF Holds, Ops
        <3> QED BY <2>1, <3>2, <3>3, <3>4
    <2> QED BY <2>2, <2>3
<1> QED BY <1>8, <1>9


LEMMA LoopKeepsOrder ==
    ASSUME TypeOK, SentOnce, NoMissedWakeup, Fits, Size = 1, Sorted, \A f \in Files : Ordered(f),
           LoopTurn(1), UNCHANGED <<writerVars, poolVars>>
    PROVE  Sorted' /\ \A f \in Files : Ordered(f)'
<1>1. CASE ReceiveRequest(1)
    BY <1>1, RequestKeepsOrder
<1>2. CASE RuntimeReady(1) \/ (\E o \in Ops : GrammarLoaded(1, o)) \/ ReceiveAck(1)
    <2>1. /\ UNCHANGED <<disk, toParser, applyPort, notice, batch, rows, pc, files, todo, text>>
          /\ Edited' = Edited
        BY <1>2 DEF RuntimeReady, GrammarLoaded, ReceiveAck, wires, writerVars, poolVars, Edited
    <2>2. at \in [Parsers -> [Ops -> Places]] /\ 1 \in Parsers /\ waitResolve \in [Parsers -> Ops \cup {NoOp}]
        BY DEF TypeOK, ParsersTypeOK, Parsers
    <2>3. ASSUME NEW x \in Ops
          PROVE  /\ at[1][x] = "none" => at'[1][x] = "none"
                 /\ at[1][x] # "none" => at'[1][x] # "none"
                 /\ at'[1][x] = "load" => at[1][x] = "load"
                 /\ at'[1][x] = "parse" => at[1][x] \in {"parse", "load"}
        <3>1. CASE RuntimeReady(1)
            BY <2>2, <3>1 DEF RuntimeReady
        <3>2. ASSUME NEW o \in Ops, GrammarLoaded(1, o)
              PROVE  at'[1][x] = at[1][x] \/ (at[1][x] = "load" /\ at'[1][x] = "parse")
            BY <2>2, <3>2 DEF GrammarLoaded, Move
        <3>3. CASE ReceiveAck(1)
            <4>1. UNCHANGED at \/ \E w \in Ops : at[1][w] = "wait" /\ at' = [at EXCEPT ![1][w] = "go"]
                BY <2>2, <3>3 DEF ReceiveAck, Wakes, Move, NoMissedWakeup
            <4> QED BY <2>2, <4>1
        <3> QED BY <1>2, <3>1, <3>2, <3>3
    <2>4. Sorted'
        BY <2>1, <2>3 DEF Sorted, Ops
    <2>5. ASSUME NEW f \in Files PROVE Ordered(f)'
        <3> SUFFICES ASSUME f \notin Edited, LangOf[f] = NoLang, disk[f] # 0, Heard(f)
                     PROVE  ReadNow(f)' /\ (Current(f)' \/ \E r \in ReindexOps : Holds(r, f)')
            BY <2>1 DEF Ordered, Heard
        <3>1. ReadNow(f) /\ (Current(f) \/ \E r \in ReindexOps : Holds(r, f))
            BY DEF Ordered
        <3>2. \A r \in Ops : Holds(r, f)' <=> Holds(r, f)
            BY <2>1, <2>3 DEF Holds
        <3>3. \A x \in Ops : Holds(x, f) => at[1][x] # "load"
            BY DEF Sorted, Holds
        <3>4. ReadNow(f)'
            BY <2>1, <2>3, <3>1, <3>2, <3>3 DEF ReadNow
        <3>5. Current(f) => Current(f)'
            BY <2>1 DEF Current, Last, Absent
        <3> QED BY <3>1, <3>2, <3>4, <3>5 DEF Ops
    <2> QED BY <2>4, <2>5
<1> QED BY <1>1, <1>2 DEF LoopTurn

LEMMA OrderInvariance == Spec => []OrderInv
<1>1. Init => OrderInv
    <2> SUFFICES ASSUME Init, Size = 1 PROVE Sorted /\ \A f \in Files : Ordered(f)
        BY DEF OrderInv
    <2>1. /\ toParser[1] = <<>> /\ applyPort[1] = <<>> /\ batch = <<>>
          /\ \A o \in Ops : at[1][o] = "none"
          /\ \A f \in Files : notice[f] = "none" /\ disk[f] = 1 /\ rows[f] \in {0, disk[f]}
        BY DEF Init, WiresInit, WriterInit, ParsersInit, PoolInit, Parsers
    <2>2. Sorted
        BY <2>1 DEF Sorted, Ops
    <2> QED BY <2>1, <2>2 DEF Ordered, ReadNow, Current, Absent
<1>2. TypeInv /\ SendInv /\ TalkInv /\ FitInv /\ OrderInv /\ [Next]_vars => OrderInv'
    <2> SUFFICES ASSUME TypeInv, SendInv, TalkInv, FitInv, OrderInv, [Next]_vars, Size = 1, fails' = 0
                 PROVE  Sorted' /\ \A f \in Files : Ordered(f)'
        BY DEF OrderInv
    <2>1. TypeOK /\ HasFile /\ SentOnce /\ NoMissedWakeup
        BY DEF TypeInv, SendInv
    <2>2. fails = 0 /\ ~OneFailure
        BY <2>1, NoFailure
    <2>3. Calm /\ (\A x \in Ops : Talks(x)) /\ Fits /\ Sorted /\ \A f \in Files : Ordered(f)
        BY <2>2 DEF TalkInv, FitInv, OrderInv
    <2>4. CASE Call \/ HostResult
        BY <2>1, <2>3, <2>4, HostKeepsOrder
    <2>5. CASE WriterNext /\ UNCHANGED <<parserVars, poolVars>>
        <3>1. /\ UNCHANGED <<disk, toParser, at, todo, text, notice, pc, files>> /\ Edited' = Edited
            <4>1. UNCHANGED <<disk, toParser>>
                BY <2>5 DEF WriterNext, ReceiveApply, TimerFires, WriterRequest, Flush, Remove, ResolveParents,
                   Answer, FlushingRequestThrows, StatementThrows, DropIndexes, CreateIndexes
            <4> QED BY <2>5, <4>1 DEF parserVars, threadVars, poolVars, Edited
        <3>2. \A f \in Files : Current(f) => Current(f)'
            BY <2>1, <2>2, <2>5, WriterKeepsCurrent
        <3> QED BY <2>3, <3>1, <3>2 DEF Sorted, Ordered, Heard, ReadNow, Holds
    <2>6. CASE ParsersNext /\ UNCHANGED <<writerVars, poolVars>>
        <3>1. LoopTurn(1) \/ (\E o \in Ops : HandlerStep(1, o)) \/ ParserDies(1)
            BY <2>6 DEF ParsersNext, Parsers
        <3>2. ~ParserDies(1)
            BY <2>2 DEF ParserDies
        <3>3. CASE LoopTurn(1)
            BY <2>1, <2>3, <2>6, <3>3, LoopKeepsOrder
        <3>4. ASSUME NEW o \in Ops, HandlerStep(1, o) PROVE Sorted' /\ \A f \in Files : Ordered(f)'
            BY <2>1, <2>2, <2>3, <2>6, <3>4, HandlerKeepsSorted, HandlerKeepsOrdered
        <3> QED BY <3>1, <3>2, <3>3, <3>4
    <2>7. CASE \E f \in Files : Workspace(f)
        <3>1. PICK g \in Files : Workspace(g)
            BY <2>7
        <3>2. /\ UNCHANGED <<toParser, applyPort, batch, rows, at, todo, text, pc, files>> /\ Edited' = Edited
            BY <3>1 DEF Workspace, writerVars, parserVars, threadVars, Edited
        <3>3. /\ \A f \in Files : f # g => disk'[f] = disk[f] /\ notice'[f] = notice[f]
              /\ notice'[g] = "change" \/ (notice'[g] = "delete" /\ disk'[g] = 0)
            BY <2>1, <3>1 DEF Workspace, ChangeFile, DeleteFile, TypeOK, WiresTypeOK, PoolTypeOK
        <3>4. Sorted'
            BY <2>3, <3>2, <3>3 DEF Sorted
        <3>5. ASSUME NEW f \in Files PROVE Ordered(f)'
            <4>1. CASE f = g
                BY <3>3, <4>1 DEF Ordered, Heard
            <4>2. CASE f # g
                BY <2>3, <3>2, <3>3, <4>2 DEF Ordered, Heard, ReadNow, Holds, Current, Last, Absent
            <4> QED BY <4>1, <4>2
        <3> QED BY <3>4, <3>5
    <2>8. CASE UNCHANGED vars
        <3>1. /\ UNCHANGED <<disk, notice, toParser, applyPort, batch, rows, at, todo, text>> /\ Edited' = Edited
            BY <2>8 DEF vars, wires, writerVars, parserVars, threadVars, poolVars, Edited
        <3> QED BY <2>3, <3>1 DEF Sorted, Ordered, Heard, ReadNow, Holds, Current, Last, Absent
    <2> QED BY <2>4, <2>5, <2>6, <2>7, <2>8 DEF Next
<1> QED BY <1>1, <1>2, TypeInvariance, SendInvariance, TalkInvariance, FitInvariance, PTL DEF Spec

\* With one parser the last save of a file wins (worker.ts:31-57,131-150): at rest, when
\* every watcher event was handled and nothing has failed, a file on disk has no rows or
\* those of its content, if it was not edited live and has no grammar to load.
THEOREM LastSaveWins == Spec => []UpToDate
<1>1. OrderInv => UpToDate
    <2> SUFFICES ASSUME OrderInv, Quiet, fails = 0, Size = 1, NEW f \in Files \ Edited,
                        disk[f] # 0, LangOf[f] = NoLang
                 PROVE  rows[f] \in {0, disk[f]}
        BY DEF UpToDate
    <2>1. /\ toParser[1] = <<>> /\ applyPort[1] = <<>> /\ batch = <<>> /\ notice[f] = "none"
          /\ \A o \in Ops : at[1][o] = "none"
        BY DEF Quiet, Parsers
    <2>2. Heard(f)
        BY <2>1 DEF Heard
    <2>3. Current(f)
        BY <2>1, <2>2 DEF OrderInv, Ordered, Holds, Ops
    <2> QED BY <2>1, <2>3 DEF Current, Last
<1> QED BY <1>1, OrderInvariance, PTL
=============================================================================
