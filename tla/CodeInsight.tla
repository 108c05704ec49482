----------------------------- MODULE CodeInsight -----------------------------
(* features/relationsView.ts, the Code Insight view: what it shows of the      *)
(* symbol under the cursor, what it remembers of its queries, and when it      *)
(* forgets. VS Code asks for the tree when it likes: for the root after the    *)
(* view said it changed, and for any node of the tree it holds at any time.    *)
(* An answer is known by the function it is about and by its age: "fresh" when *)
(* the tables were not written since, "stale" when they were and the view will *)
(* be refreshed for it, "late" when only rows came that nobody tells the view  *)
(* of, "no db" when there was no connection; lines are "crossed" when a        *)
(* refresh came between the start and the end of their read. Of the seven      *)
(* categories, Definition, Declaration, Calls and References are cached as     *)
(* "Called by" is, and left out.                                               *)
EXTENDS FiniteSets

CONSTANTS
    Symbols,        \* occurrences the cursor visits, [name, at]: at is file, line, col
    Keywords,
    Callers,        \* Callers[n]: the call sites of function n, as [name of the
                    \* caller, at]; callRelations gives a node for each
    Nothing,        \* no symbol, no keyword
    Paused, NotReady    \* the notices of the root

Names == DOMAIN Callers
Nodes == Symbols \cup UNION {Callers[n] : n \in Names}
Places == {s.at : s \in Nodes}
Categories == {"Symbol", "Type", "Called by"}

ASSUME InsightAssumption ==
    /\ \A s \in Nodes : s.name \in Names
    /\ Symbols \cap Keywords = {}
    /\ {Nothing, Paused, NotReady} \cap (Symbols \cup Keywords) = {}

VARIABLES
    created,        \* the database exists
    busy,           \* incremental operations of the watcher are in flight
    editing,        \* live edits are in flight: the view is not told
    bulk,           \* "none", "live", or "drop" while a run has dropped the indexes
    refreshDue,     \* the timer of refreshView runs
    current, keywordName, pinned, indexing, suspendReads,   \* RelationsProvider
    memo,           \* its scopeMemo, typeMemo, symbolInfoMemo and cache
    fileLines, reading,     \* the lines of the one file, and reads under way
    fired,          \* onDidChangeTreeData fired and VS Code has not asked yet
    root,           \* what the root shows
    held,           \* symbols whose categories are in the tree VS Code holds
    asked,          \* history: what the cursor was last on, while not pinned
    failed          \* history: indexing failed after the last refresh

index == <<created, busy, editing, bulk>>
provider == <<current, keywordName, pinned, indexing, suspendReads, memo, fileLines>>
tree == <<fired, root, held>>
vars == <<index, refreshDue, provider, reading, tree, asked, failed>>

Unknown == [name |-> Nothing, age |-> "unknown"]
Ages == {"unknown", "fresh", "stale", "late", "no db", "crossed"}
NoMemo == [scope |-> [s \in Nodes |-> Unknown],
           type |-> [p \in Places |-> Unknown],
           info |-> [p \in Places |-> Unknown],
           cache |-> [c \in Categories |-> [p \in Places |-> Unknown]]]
Answers == [name : Names \cup {Nothing}, age : Ages]

TypeOK ==
    /\ created \in BOOLEAN /\ busy \in BOOLEAN /\ editing \in BOOLEAN
    /\ bulk \in {"none", "live", "drop"}
    /\ refreshDue \in BOOLEAN
    /\ current \in Symbols \cup {Nothing} /\ keywordName \in Keywords \cup {Nothing}
    /\ current = Nothing \/ keywordName = Nothing
    /\ pinned \in BOOLEAN
    /\ indexing = (bulk # "none" \/ busy)
    /\ suspendReads \in BOOLEAN /\ suspendReads <=> bulk = "drop"
    /\ memo \in [scope : [Nodes -> Answers], type : [Places -> Answers],
                 info : [Places -> Answers], cache : [Categories -> [Places -> Answers]]]
    /\ fileLines \in Ages /\ reading \in Ages
    /\ fired \in BOOLEAN /\ held \subseteq Nodes
    /\ failed \in BOOLEAN

Init ==
    /\ created = FALSE /\ busy = FALSE /\ editing = FALSE /\ bulk = "none"
    /\ refreshDue = FALSE
    /\ current = Nothing /\ keywordName = Nothing /\ pinned = FALSE
    /\ indexing = FALSE /\ suspendReads = FALSE
    /\ memo = NoMemo /\ fileLines = "unknown" /\ reading = "unknown"
    /\ fired = TRUE /\ root = Nothing /\ held = {}
    /\ asked = Nothing /\ failed = FALSE

----------------------------------------------------------------------------
(* Queries and their memos.                                                   *)

\* host.getDb: no connection before the database exists or without its indexes.
Db == created /\ bulk # "drop"
Resolve(s) == [name |-> s.name, age |-> IF Db THEN "fresh" ELSE "no db"]

GetScope(m, s) ==
    IF m.scope[s] = Unknown THEN [m EXCEPT !.scope[s] = Resolve(s)] ELSE m
TypeInfoFor(m, s) ==
    IF m.type[s.at] = Unknown THEN [m EXCEPT !.type[s.at] = Resolve(s)] ELSE m
SymbolInfoFor(m, s) ==
    IF m.info[s.at] = Unknown THEN [m EXCEPT !.info[s.at] = Resolve(s)] ELSE m

\* computeChildren: the scope first; the rows of Symbol and Type are those of the
\* memo, the others are as old as the scope they were computed with.
ComputeChildren(m, c, s) ==
    IF ~Db THEN [m EXCEPT !.cache[c][s.at] = Resolve(s)]
    ELSE LET scoped == GetScope(m, s)
             m2 == CASE c = "Symbol" -> SymbolInfoFor(scoped, s)
                     [] c = "Type" -> TypeInfoFor(scoped, s)
                     [] OTHER -> scoped
         IN [m2 EXCEPT !.cache[c][s.at] =
               CASE c = "Symbol" -> m2.info[s.at]
                 [] c = "Type" -> m2.type[s.at]
                 [] OTHER -> m2.scope[s]]

\* childrenFor: the key of the cache is the category and the position.
ChildrenFor(m, c, s) ==
    IF m.cache[c][s.at] = Unknown THEN ComputeChildren(m, c, s) ELSE m

\* visibleCategories asks each category whether it is empty, but Symbol, if
\* hideEmptyCategories is set: either may be, whenever it is called.
VisibleCategories(m, s) == {m, ChildrenFor(TypeInfoFor(m, s), "Called by", s)}

----------------------------------------------------------------------------
(* What the view is told.                                                     *)

\* The five maps are cleared and the tree is asked for again; a read of lines that
\* is under way goes on. The mutant forgets scopeMemo.
Cleared_KeepsScopes == [NoMemo EXCEPT !.scope = memo.scope]
Cleared == NoMemo
Clear ==
    /\ memo' = Cleared /\ fileLines' = "unknown"
    /\ reading' = IF reading = "unknown" THEN "unknown" ELSE "crossed"
    /\ failed' = FALSE
    /\ fired' = TRUE

\* setCurrent, unless pinned or at the same symbol. The mutant leaves the keyword.
KeywordAfter_Kept == keywordName
KeywordAfter == Nothing
SetCurrent(s) ==
    /\ asked' = IF pinned THEN asked ELSE s
    /\ IF pinned \/ s = current
       THEN UNCHANGED <<current, keywordName, memo, fileLines, reading, failed, fired>>
       ELSE /\ current' = s
            /\ keywordName' = KeywordAfter
            /\ Clear
    /\ UNCHANGED <<index, refreshDue, pinned, indexing, suspendReads,
                   root, held>>

SetKeyword(k) ==
    /\ asked' = IF pinned THEN asked ELSE k
    /\ IF pinned \/ k = keywordName
       THEN UNCHANGED <<current, keywordName, memo, fileLines, reading, failed, fired>>
       ELSE /\ current' = Nothing
            /\ keywordName' = k
            /\ Clear
    /\ UNCHANGED <<index, refreshDue, pinned, indexing, suspendReads,
                   root, held>>

SetPinned ==
    /\ pinned' = ~pinned
    /\ UNCHANGED <<index, refreshDue, current, keywordName, indexing,
                   suspendReads, memo, fileLines, reading, tree, asked, failed>>

\* refresh: by command, by a change of the view's settings, or when refreshView
\* is due.
Refresh ==
    /\ Clear
    /\ refreshDue' \in {FALSE, refreshDue}
    /\ UNCHANGED <<index, current, keywordName, pinned, indexing, suspendReads,
                   root, held, asked>>

\* setIndexing, on the flags of this step: memos are kept. The mutant suspends reads
\* in every bulk run.
Unsafe_AnyBulk(b) == b # "none"
Unsafe(b) == b = "drop"
SetIndexing ==
    /\ indexing' = (bulk' # "none" \/ busy')
    /\ suspendReads' = Unsafe(bulk')

----------------------------------------------------------------------------
(* The index changes (extension.ts trackIncremental, doRunIndex).             *)

OpBegins ==
    /\ ~busy /\ busy' = TRUE /\ UNCHANGED bulk
    /\ SetIndexing
    /\ fired' = (fired \/ indexing' # indexing)
    /\ UNCHANGED <<created, editing, refreshDue, current, keywordName,
                   pinned, memo, fileLines, reading, root, held, asked, failed>>

BulkBegins(kind) ==
    /\ bulk = "none" /\ bulk' = kind /\ UNCHANGED busy
    /\ SetIndexing
    /\ fired' = (fired \/ indexing' # indexing \/ suspendReads' # suspendReads)
    /\ UNCHANGED <<created, editing, refreshDue, current, keywordName,
                   pinned, memo, fileLines, reading, root, held, asked, failed>>

\* liveReindex: through the gate, but not told to the view.
LiveEditBegins ==
    /\ ~editing /\ editing' = TRUE
    /\ UNCHANGED <<created, busy, bulk, refreshDue, provider, reading,
                   tree, asked, failed>>

\* Nothing is being indexed and no refresh is due.
AtRest == ~busy /\ ~editing /\ bulk = "none" /\ ~refreshDue

\* The writer commits: what was read before is old. Rows that flush overtook come
\* after their operation or run has settled, at any time; rows that come at rest
\* are followed by no refresh.
Older(a) ==
    IF a = "unknown" \/ a = "no db" \/ a = "crossed" THEN a
    ELSE IF ~AtRest THEN "stale"
    ELSE IF a = "fresh" THEN "late" ELSE a
OlderAnswer(a) == [a EXCEPT !.age = Older(a.age)]
Write ==
    /\ busy \/ editing \/ bulk # "none" \/ created
    /\ created' = TRUE
    /\ memo' = [scope |-> [s \in Nodes |-> OlderAnswer(memo.scope[s])],
                type |-> [p \in Places |-> OlderAnswer(memo.type[p])],
                info |-> [p \in Places |-> OlderAnswer(memo.info[p])],
                cache |-> [c \in Categories |-> [p \in Places |-> OlderAnswer(memo.cache[c][p])]]]
    /\ fileLines' = Older(fileLines) /\ reading' = Older(reading)
    /\ UNCHANGED <<busy, editing, bulk, refreshDue, current, keywordName, pinned,
                   indexing, suspendReads, tree, asked, failed>>

\* An operation settles, the last one or not, maybe before all its rows are
\* written; refreshView only follows one that succeeded.
Settles(ok) ==
    /\ refreshDue' = (refreshDue \/ ok)
    /\ failed' = (failed \/ ~ok)
    /\ UNCHANGED <<created, current, keywordName, pinned, memo, fileLines,
                   reading, root, held, asked>>
OpEnds(ok) ==
    /\ busy /\ busy' \in BOOLEAN /\ UNCHANGED <<editing, bulk>>
    /\ SetIndexing
    /\ fired' = (fired \/ indexing' # indexing)
    /\ Settles(ok)
LiveEditEnds(ok) ==
    /\ editing /\ editing' \in BOOLEAN
    /\ Settles(ok)
    /\ UNCHANGED <<busy, bulk, indexing, suspendReads, fired>>

\* doRunIndex ends, maybe before all its rows are written: relations.refresh
\* unless it failed, then the flags.
BulkEnds(ok) ==
    /\ bulk # "none" /\ bulk' = "none" /\ UNCHANGED <<busy, editing>>
    /\ SetIndexing
    /\ IF ok THEN Clear
       ELSE /\ failed' = TRUE
            /\ fired' = (fired \/ indexing' # indexing \/ suspendReads' # suspendReads)
            /\ UNCHANGED <<memo, fileLines, reading>>
    /\ UNCHANGED <<created, refreshDue, current, keywordName, pinned,
                   root, held, asked>>

----------------------------------------------------------------------------
(* VS Code asks.                                                              *)

\* getChildren(undefined).
AskRoot ==
    /\ fired
    /\ fired' = FALSE
    /\ root' = IF suspendReads THEN Paused
               ELSE IF keywordName # Nothing THEN keywordName
               ELSE IF current # Nothing /\ ~Db THEN NotReady ELSE current
    /\ IF root' \in Symbols
       THEN held' = {current} /\ memo' \in VisibleCategories(memo, current)
       ELSE held' = {} /\ UNCHANGED memo
    /\ UNCHANGED <<index, refreshDue, current, keywordName, pinned, indexing,
                   suspendReads, fileLines, reading, asked, failed>>

\* getTreeItem and getChildren of a category; its summary comes with Symbol and
\* Type. The nodes under "Called by" are in the tree from then on.
AskCategory(c, s) ==
    /\ s \in held
    /\ LET m == ChildrenFor(memo, c, s)
       IN memo' = CASE c = "Symbol" -> SymbolInfoFor(m, s)
                    [] c = "Type" -> TypeInfoFor(m, s)
                    [] OTHER -> m
    /\ UNCHANGED <<index, refreshDue, current, keywordName, pinned, indexing,
                   suspendReads, fileLines, reading, tree, asked, failed>>

\* getTreeItem and getChildren of a call node that the "Called by" of s shows.
Shown(s) == LET a == memo.cache["Called by"][s.at]
            IN IF a.name \in Names /\ a.age # "no db" THEN Callers[a.name] ELSE {}
AskCall(s, n) ==
    /\ s \in held /\ n \in Shown(s)
    /\ held' = held \cup {n}
    /\ memo' \in VisibleCategories(memo, n)
    /\ UNCHANGED <<index, refreshDue, current, keywordName, pinned, indexing,
                   suspendReads, fileLines, reading, fired, root, asked, failed>>

\* refFileChildren: readLines starts to read a file it has no lines of ...
AskLines ==
    /\ held # {} /\ fileLines = "unknown" /\ reading = "unknown"
    /\ reading' = "fresh"
    /\ UNCHANGED <<index, refreshDue, provider, tree, asked, failed>>

\* ... and stores them, whatever happened meanwhile.
LinesRead ==
    /\ reading # "unknown"
    /\ reading' = "unknown"
    /\ fileLines' = reading
    /\ UNCHANGED <<index, refreshDue, current, keywordName, pinned, indexing,
                   suspendReads, memo, tree, asked, failed>>

Next ==
    \/ \E s \in Symbols \cup {Nothing} : SetCurrent(s)
    \/ \E k \in Keywords : SetKeyword(k)
    \/ SetPinned \/ Refresh
    \/ OpBegins \/ LiveEditBegins \/ Write
    \/ \E kind \in {"live", "drop"} : BulkBegins(kind)
    \/ \E ok \in BOOLEAN : OpEnds(ok) \/ LiveEditEnds(ok) \/ BulkEnds(ok)
    \/ AskRoot
    \/ \E s \in held : \/ \E c \in Categories : AskCategory(c, s)
                       \/ \E n \in Nodes : AskCall(s, n)
    \/ AskLines \/ LinesRead

Spec == Init /\ [][Next]_vars

----------------------------------------------------------------------------
(* Properties.                                                                *)

\* Once VS Code has asked again and reads are not suspended, the root shows what
\* the cursor was last on while the view was not pinned; after a keyword, leaving
\* it for no symbol at all keeps the keyword (setCurrent, setKeyword, setPinned).
FollowsCursor ==
    ~fired /\ ~suspendReads =>
        \/ root = asked
        \/ root = NotReady
        \/ asked = Nothing /\ root \in Keywords

Remembered ==
    {memo.scope[s] : s \in Nodes} \cup {memo.type[p] : p \in Places} \cup
    {memo.info[p] : p \in Places} \cup {memo.cache[c][p] : c \in Categories, p \in Places}

\* Once indexing is over and the view was refreshed, whatever it remembers is of
\* the tables as the operations and runs it was refreshed for left them, live edits
\* included: only rows that came after their operation had settled are missing.
\* The lines it remembers were read since, or their read was under way when it
\* forgot the lines. A run or operation that failed is followed by no refresh, so
\* nothing is said until the next one.
FreshAtRest ==
    AtRest /\ ~failed =>
        /\ \A a \in Remembered : a.age \in {"unknown", "fresh", "late"}
        /\ fileLines \in {"unknown", "fresh", "late", "crossed"}

\* `Recursive caller tree: direct callers first, each expandable into its own
\* callers': what a node of the tree shows is about its own function.
OwnCallers ==
    \A s \in held : memo.cache["Called by"][s.at].name \in {s.name, Nothing}
=============================================================================
