-------------------------- MODULE CodeInsightProofs --------------------------
(* What the Code Insight view shows and remembers, for any symbols, keywords   *)
(* and call graph. A node of the tree is only held once the database exists,   *)
(* so at rest every query is answered from it; and the root is one of four     *)
(* things until VS Code is told to ask again.                                  *)
EXTENDS CodeInsight, TLAPS

\* No answer the view remembers was made before a write it is refreshed for.
KnownAges == {"unknown", "fresh", "late"}
Fresh(m) ==
    /\ \A s \in Nodes : m.scope[s].age \in KnownAges
    /\ \A p \in Places : m.type[p].age \in KnownAges
    /\ \A p \in Places : m.info[p].age \in KnownAges
    /\ \A c \in Categories, p \in Places : m.cache[c][p].age \in KnownAges

MemoInv ==
    /\ held # {} => created
    /\ AtRest /\ ~failed =>
        Fresh(memo) /\ {fileLines, reading} \subseteq KnownAges \cup {"crossed"}

\* The provider is where the cursor was last, while it was not pinned.
CursorInv ==
    /\ asked \in Symbols \cup Keywords \cup {Nothing}
    /\ asked \in Symbols => current = asked
    /\ asked \in Keywords => keywordName = asked
    /\ asked = Nothing => current = Nothing

\* What AskRoot made of the provider is still so.
RootInv == ~fired =>
    IF suspendReads THEN root = Paused
    ELSE \/ root = NotReady
         \/ root = IF keywordName # Nothing THEN keywordName ELSE current

----------------------------------------------------------------------------
(* Memos.                                                                     *)

MemoType == [scope : [Nodes -> Answers], type : [Places -> Answers],
             info : [Places -> Answers], cache : [Categories -> [Places -> Answers]]]

LEMMA NoMemoType == NoMemo \in MemoType /\ Fresh(NoMemo)
<1>1. Unknown \in Answers
  BY DEF Unknown, Answers, Ages
<1>2. NoMemo \in MemoType
  BY <1>1 DEF NoMemo, MemoType
<1>3. Unknown.age = "unknown"
  BY DEF Unknown
<1> QED BY <1>2, <1>3 DEF NoMemo, Fresh, KnownAges

LEMMA ResolveType ==
  ASSUME NEW s \in Nodes
  PROVE  Resolve(s) \in Answers /\ (Db => Resolve(s).age = "fresh") /\ s.at \in Places
  BY InsightAssumption DEF Resolve, Answers, Ages, Places

\* A query keeps what is remembered fresh as long as there is a connection.
Kept(m, after) == after \in MemoType /\ (Db /\ Fresh(m) => Fresh(after))

LEMMA ScopeKept ==
  ASSUME NEW m \in MemoType, NEW s \in Nodes
  PROVE  Kept(m, GetScope(m, s))
<1> DEFINE a == Resolve(s)
           after == [m EXCEPT !.scope[s] = a]
<1>1. a \in Answers /\ (Db => a.age = "fresh")
  BY ResolveType
<1> HIDE DEF a
<1>2. /\ after \in MemoType /\ after.scope = [m.scope EXCEPT ![s] = a]
      /\ after.type = m.type /\ after.info = m.info /\ after.cache = m.cache
  BY <1>1 DEF MemoType
<1>3. m.scope \in [Nodes -> Answers]
  BY DEF MemoType
<1>4. Db /\ Fresh(m) => Fresh(after)
  BY <1>1, <1>2, <1>3 DEF Fresh, KnownAges
<1> QED BY <1>2, <1>4 DEF Kept, GetScope, a

LEMMA TypeKept ==
  ASSUME NEW m \in MemoType, NEW s \in Nodes
  PROVE  Kept(m, TypeInfoFor(m, s))
<1> DEFINE a == Resolve(s)
           p == s.at
           after == [m EXCEPT !.type[p] = a]
<1>1. a \in Answers /\ (Db => a.age = "fresh") /\ p \in Places
  BY ResolveType
<1> HIDE DEF a, p
<1>2. /\ after \in MemoType /\ after.type = [m.type EXCEPT ![p] = a]
      /\ after.scope = m.scope /\ after.info = m.info /\ after.cache = m.cache
  BY <1>1 DEF MemoType
<1>3. m.type \in [Places -> Answers]
  BY DEF MemoType
<1>4. Db /\ Fresh(m) => Fresh(after)
  BY <1>1, <1>2, <1>3 DEF Fresh, KnownAges
<1> QED BY <1>2, <1>4 DEF Kept, TypeInfoFor, a, p

LEMMA InfoKept ==
  ASSUME NEW m \in MemoType, NEW s \in Nodes
  PROVE  Kept(m, SymbolInfoFor(m, s))
<1> DEFINE a == Resolve(s)
           p == s.at
           after == [m EXCEPT !.info[p] = a]
<1>1. a \in Answers /\ (Db => a.age = "fresh") /\ p \in Places
  BY ResolveType
<1> HIDE DEF a, p
<1>2. /\ after \in MemoType /\ after.info = [m.info EXCEPT ![p] = a]
      /\ after.scope = m.scope /\ after.type = m.type /\ after.cache = m.cache
  BY <1>1 DEF MemoType
<1>3. m.info \in [Places -> Answers]
  BY DEF MemoType
<1>4. Db /\ Fresh(m) => Fresh(after)
  BY <1>1, <1>2, <1>3 DEF Fresh, KnownAges
<1> QED BY <1>2, <1>4 DEF Kept, SymbolInfoFor, a, p

LEMMA CacheKept ==
  ASSUME NEW m \in MemoType, NEW c \in Categories, NEW p \in Places, NEW a \in Answers,
         Db /\ Fresh(m) => a.age \in KnownAges
  PROVE  Kept(m, [m EXCEPT !.cache[c][p] = a])
<1> DEFINE after == [m EXCEPT !.cache[c][p] = a]
<1>1. m.cache \in [Categories -> [Places -> Answers]]
  BY DEF MemoType
<1>2. /\ after \in MemoType /\ after.cache = [m.cache EXCEPT ![c][p] = a]
      /\ after.scope = m.scope /\ after.type = m.type /\ after.info = m.info
  BY <1>1 DEF MemoType
<1>3. \A d \in Categories, q \in Places :
        after.cache[d][q] = a \/ after.cache[d][q] = m.cache[d][q]
  BY <1>1, <1>2
<1>4. Db /\ Fresh(m) => Fresh(after)
  BY <1>2, <1>3 DEF Fresh
<1> QED BY <1>2, <1>4 DEF Kept

\* The row of a category is the memo of its scope, type or symbol.
LEMMA ComputeKept ==
  ASSUME NEW m \in MemoType, NEW c \in Categories, NEW s \in Nodes
  PROVE  Kept(m, ComputeChildren(m, c, s))
<1>1. s.at \in Places
  BY ResolveType
<1>2. CASE ~Db
  <2>1. Resolve(s) \in Answers
    BY ResolveType
  <2> QED BY <1>1, <1>2, <2>1, CacheKept DEF ComputeChildren
<1>3. CASE Db
  <2> DEFINE scoped == GetScope(m, s)
             m2 == CASE c = "Symbol" -> SymbolInfoFor(scoped, s)
                     [] c = "Type" -> TypeInfoFor(scoped, s)
                     [] OTHER -> scoped
             row == CASE c = "Symbol" -> m2.info[s.at]
                      [] c = "Type" -> m2.type[s.at]
                      [] OTHER -> m2.scope[s]
  <2>1. Kept(m, scoped)
    BY ScopeKept
  <2>2. scoped \in MemoType
    BY <2>1 DEF Kept
  <2>3. Kept(scoped, SymbolInfoFor(scoped, s)) /\ Kept(scoped, TypeInfoFor(scoped, s))
    <3> HIDE DEF scoped
    <3> QED BY <2>2, TypeKept, InfoKept
  <2>4. m2 \in MemoType /\ (Fresh(m) => Fresh(m2))
    <3> HIDE DEF scoped
    <3> QED BY <1>3, <2>1, <2>2, <2>3 DEF Kept
  <2> HIDE DEF m2
  <2>5. row \in Answers /\ (Fresh(m2) => row.age \in KnownAges)
    BY <1>1, <2>4 DEF MemoType, Fresh
  <2> HIDE DEF row
  <2>6. Kept(m2, [m2 EXCEPT !.cache[c][s.at] = row])
    BY <1>1, <2>4, <2>5, CacheKept
  <2>7. ComputeChildren(m, c, s) = [m2 EXCEPT !.cache[c][s.at] = row]
    BY <1>3 DEF ComputeChildren, m2, row
  <2> QED BY <2>4, <2>6, <2>7 DEF Kept
<1> QED BY <1>2, <1>3

LEMMA ChildrenKept ==
  ASSUME NEW m \in MemoType, NEW c \in Categories, NEW s \in Nodes
  PROVE  Kept(m, ChildrenFor(m, c, s))
<1>1. Kept(m, m)
  BY DEF Kept
<1> QED BY <1>1, ComputeKept DEF ChildrenFor

LEMMA VisibleKept ==
  ASSUME NEW m \in MemoType, NEW s \in Nodes
  PROVE  \A after \in VisibleCategories(m, s) : Kept(m, after)
<1> DEFINE typed == TypeInfoFor(m, s)
<1>1. Kept(m, m)
  BY DEF Kept
<1>2. Kept(m, typed)
  BY TypeKept
<1>3. typed \in MemoType
  BY <1>2 DEF Kept
<1>4. "Called by" \in Categories
  BY DEF Categories
<1> HIDE DEF typed
<1>5. Kept(typed, ChildrenFor(typed, "Called by", s))
  BY <1>3, <1>4, ChildrenKept
<1>6. Kept(m, ChildrenFor(typed, "Called by", s))
  BY <1>2, <1>5 DEF Kept
<1> QED BY <1>1, <1>6 DEF VisibleCategories, typed

----------------------------------------------------------------------------
(* Types.                                                                     *)

LEMMA TypeInit == Init => TypeOK
  BY NoMemoType DEF Init, TypeOK, MemoType, Ages

\* What AskRoot puts into the tree.
LEMMA RootType ==
  ASSUME TypeOK, AskRoot
  PROVE  /\ held' = {} /\ memo' = memo
         \/ /\ current \in Symbols /\ Db /\ held' = {current}
            /\ memo' \in VisibleCategories(memo, current)
<1>1. CASE root' \in Symbols
  <2>1. root' # Paused /\ root' # NotReady /\ root' \notin Keywords
    BY <1>1, InsightAssumption
  <2>2. root' = current /\ Db
    BY <1>1, <2>1, InsightAssumption DEF AskRoot, TypeOK
  <2> QED BY <1>1, <2>2 DEF AskRoot
<1>2. CASE root' \notin Symbols
  BY <1>2 DEF AskRoot
<1> QED BY <1>1, <1>2

LEMMA TypeStep == TypeOK /\ [Next]_vars => TypeOK'
<1> SUFFICES ASSUME TypeOK, [Next]_vars PROVE TypeOK'
  OBVIOUS
<1> USE DEF index, provider, tree
<1>m. memo \in MemoType
  BY DEF TypeOK, MemoType
<1>c. Clear => /\ memo' \in MemoType /\ fileLines' \in Ages /\ reading' \in Ages
              /\ failed' \in BOOLEAN /\ fired' \in BOOLEAN
  BY NoMemoType DEF Clear, Cleared, Ages
<1>1. ASSUME NEW s \in Symbols \cup {Nothing}, SetCurrent(s) PROVE TypeOK'
  BY <1>1, <1>c DEF SetCurrent, KeywordAfter, TypeOK, MemoType
<1>2. ASSUME NEW k \in Keywords, SetKeyword(k) PROVE TypeOK'
  BY <1>2, <1>c DEF SetKeyword, TypeOK, MemoType
<1>3. ASSUME SetPinned PROVE TypeOK'
  BY <1>3 DEF SetPinned, TypeOK
<1>4. ASSUME Refresh PROVE TypeOK'
  BY <1>4, <1>c DEF Refresh, TypeOK, MemoType
<1>5. ASSUME OpBegins PROVE TypeOK'
  BY <1>5 DEF OpBegins, SetIndexing, Unsafe, TypeOK
<1>6. ASSUME NEW kind \in {"live", "drop"}, BulkBegins(kind) PROVE TypeOK'
  BY <1>6 DEF BulkBegins, SetIndexing, Unsafe, TypeOK
<1>7. ASSUME Write PROVE TypeOK'
  <2>1. \A a \in Ages : Older(a) \in Ages
    BY DEF Older, Ages
  <2>2. \A a \in Answers : OlderAnswer(a) \in Answers
    BY <2>1 DEF OlderAnswer, Answers
  <2>3. memo' \in MemoType
    BY <1>7, <1>m, <2>2 DEF Write, MemoType
  <2> QED BY <1>7, <2>1, <2>3 DEF Write, TypeOK, MemoType
<1>8. ASSUME NEW ok \in BOOLEAN, OpEnds(ok) PROVE TypeOK'
  BY <1>8 DEF OpEnds, Settles, SetIndexing, Unsafe, TypeOK
<1>9. ASSUME NEW ok \in BOOLEAN, BulkEnds(ok) PROVE TypeOK'
  <2>1. /\ memo' \in MemoType /\ fileLines' \in Ages /\ reading' \in Ages
        /\ failed' \in BOOLEAN /\ fired' \in BOOLEAN
    BY <1>9, <1>c, <1>m DEF BulkEnds, TypeOK
  <2> QED BY <1>9, <2>1 DEF BulkEnds, SetIndexing, Unsafe, TypeOK, MemoType
<1>10. ASSUME AskRoot PROVE TypeOK'
  <2>1. memo' \in MemoType /\ held' \subseteq Nodes
    BY <1>10, <1>m, RootType, VisibleKept DEF Kept, Nodes
  <2> QED BY <1>10, <2>1 DEF AskRoot, TypeOK, MemoType
<1>11. ASSUME NEW s \in held, NEW c \in Categories, AskCategory(c, s) PROVE TypeOK'
  <2>1. s \in Nodes
    BY DEF TypeOK
  <2> DEFINE m == ChildrenFor(memo, c, s)
  <2>2. m \in MemoType
    BY <1>m, <2>1, ChildrenKept DEF Kept
  <2> HIDE DEF m
  <2>3. {m, SymbolInfoFor(m, s), TypeInfoFor(m, s)} \subseteq MemoType
    BY <2>1, <2>2, InfoKept, TypeKept DEF Kept
  <2>4. memo' \in {m, SymbolInfoFor(m, s), TypeInfoFor(m, s)}
    BY <1>11 DEF AskCategory, m
  <2> QED BY <1>11, <2>3, <2>4 DEF AskCategory, TypeOK, MemoType
<1>12. ASSUME NEW s \in held, NEW n \in Nodes, AskCall(s, n) PROVE TypeOK'
  <2>1. memo' \in MemoType
    BY <1>12, <1>m, VisibleKept DEF AskCall, Kept
  <2> QED BY <1>12, <2>1 DEF AskCall, TypeOK, MemoType
<1>13. ASSUME AskLines \/ LinesRead PROVE TypeOK'
  <2>1. fileLines' \in Ages /\ reading' \in Ages
    BY <1>13 DEF AskLines, LinesRead, TypeOK, Ages
  <2> QED BY <1>13, <2>1 DEF AskLines, LinesRead, TypeOK
<1>14. ASSUME LiveEditBegins \/ \E ok \in BOOLEAN : LiveEditEnds(ok) PROVE TypeOK'
  <2>1. CASE LiveEditBegins
    BY <2>1 DEF LiveEditBegins, TypeOK
  <2>2. ASSUME NEW ok \in BOOLEAN, LiveEditEnds(ok) PROVE TypeOK'
    BY <2>2 DEF LiveEditEnds, Settles, TypeOK
  <2> QED BY <1>14, <2>1, <2>2
<1>15. CASE UNCHANGED vars
  BY <1>15 DEF vars, TypeOK
<1> QED BY <1>1, <1>2, <1>3, <1>4, <1>5, <1>6, <1>7, <1>8, <1>9, <1>10, <1>11, <1>12, <1>13, <1>14,
          <1>15 DEF Next

----------------------------------------------------------------------------
(* What is remembered at rest.                                                *)

LEMMA MemoStep == TypeOK /\ MemoInv /\ [Next]_vars => MemoInv'
<1> SUFFICES ASSUME TypeOK, MemoInv, [Next]_vars PROVE MemoInv'
  OBVIOUS
<1> USE DEF index, provider, tree
<1>m. memo \in MemoType
  BY DEF TypeOK, MemoType
<1>d. held # {} /\ AtRest => Db
  BY DEF MemoInv, AtRest, Db
<1>k. ASSUME Clear, UNCHANGED <<created, held>> PROVE MemoInv'
  <2>1. memo' = NoMemo /\ fileLines' = "unknown" /\ reading' \in {"unknown", "crossed"}
    BY <1>k DEF Clear, Cleared
  <2>2. Fresh(memo)'
    BY <2>1, NoMemoType DEF Fresh
  <2> QED BY <1>k, <2>1, <2>2 DEF MemoInv, KnownAges
<1>u. ASSUME UNCHANGED <<index, refreshDue, memo, fileLines, failed, held, reading>> PROVE MemoInv'
  BY <1>u DEF MemoInv, AtRest, Fresh
<1>1. ASSUME NEW s \in Symbols \cup {Nothing}, SetCurrent(s) PROVE MemoInv'
  BY <1>1, <1>k, <1>u DEF SetCurrent
<1>2. ASSUME NEW k \in Keywords, SetKeyword(k) PROVE MemoInv'
  BY <1>2, <1>k, <1>u DEF SetKeyword
<1>3. ASSUME SetPinned PROVE MemoInv'
  BY <1>3 DEF SetPinned, MemoInv, AtRest, Fresh
<1>4. ASSUME Refresh PROVE MemoInv'
  BY <1>4, <1>k DEF Refresh
<1>5. ASSUME OpBegins PROVE MemoInv'
  BY <1>5 DEF OpBegins, MemoInv, AtRest
<1>6. ASSUME NEW kind \in {"live", "drop"}, BulkBegins(kind) PROVE MemoInv'
  BY <1>6 DEF BulkBegins, MemoInv, AtRest
<1>7. ASSUME Write PROVE MemoInv'
  <2>1. created' /\ (AtRest' <=> AtRest) /\ failed' = failed
    BY <1>7 DEF Write, AtRest
  <2>2. ASSUME AtRest, ~failed
        PROVE  Fresh(memo)' /\ {fileLines', reading'} \subseteq KnownAges \cup {"crossed"}
    <3>1. \A a \in KnownAges : Older(a) \in KnownAges
      BY <2>2 DEF Older, KnownAges
    <3>2. Older("crossed") = "crossed"
      BY DEF Older
    <3>3. \A a \in Answers : a.age \in KnownAges => OlderAnswer(a).age \in KnownAges
      BY <3>1 DEF OlderAnswer, Answers
    <3>4. Fresh(memo)'
      BY <1>7, <1>m, <2>2, <3>3 DEF Write, MemoInv, MemoType, Fresh
    <3>5. {fileLines, reading} \subseteq KnownAges \cup {"crossed"}
      BY <2>2 DEF MemoInv
    <3> QED BY <1>7, <3>1, <3>2, <3>4, <3>5 DEF Write
  <2> QED BY <2>1, <2>2 DEF MemoInv
<1>8. ASSUME NEW ok \in BOOLEAN, OpEnds(ok) PROVE MemoInv'
  BY <1>8 DEF OpEnds, Settles, MemoInv, AtRest
<1>9. ASSUME NEW ok \in BOOLEAN, BulkEnds(ok) PROVE MemoInv'
  <2>1. CASE ok
    BY <1>9, <1>k, <2>1 DEF BulkEnds
  <2>2. CASE ~ok
    BY <1>9, <2>2 DEF BulkEnds, MemoInv
  <2> QED BY <2>1, <2>2
<1>10. ASSUME AskRoot PROVE MemoInv'
  <2>1. CASE held' = {} /\ memo' = memo
    BY <1>10, <2>1 DEF AskRoot, MemoInv, AtRest, Fresh
  <2>2. CASE /\ current \in Symbols /\ Db /\ held' = {current}
             /\ memo' \in VisibleCategories(memo, current)
    <3>1. Kept(memo, memo')
      BY <1>m, <2>2, VisibleKept DEF Nodes
    <3> QED BY <1>10, <2>2, <3>1 DEF AskRoot, MemoInv, AtRest, Db, Kept, Fresh
  <2> QED BY <1>10, <2>1, <2>2, RootType
<1>11. ASSUME NEW s \in held, NEW c \in Categories, AskCategory(c, s) PROVE MemoInv'
  <2>1. s \in Nodes
    BY DEF TypeOK
  <2> DEFINE m == ChildrenFor(memo, c, s)
  <2>2. Kept(memo, m)
    BY <1>m, <2>1, ChildrenKept
  <2>3. m \in MemoType
    BY <2>2 DEF Kept
  <2> HIDE DEF m
  <2>4. Kept(m, m) /\ Kept(m, SymbolInfoFor(m, s)) /\ Kept(m, TypeInfoFor(m, s))
    BY <2>1, <2>3, InfoKept, TypeKept DEF Kept
  <2>5. memo' \in {m, SymbolInfoFor(m, s), TypeInfoFor(m, s)}
    BY <1>11 DEF AskCategory, m
  <2>6. Db /\ Fresh(memo) => Fresh(memo')
    BY <2>2, <2>4, <2>5 DEF Kept
  <2> QED BY <1>11, <1>d, <2>6 DEF AskCategory, MemoInv, AtRest, Fresh
<1>12. ASSUME NEW s \in held, NEW n \in Nodes, AskCall(s, n) PROVE MemoInv'
  <2>1. Kept(memo, memo')
    BY <1>12, <1>m, VisibleKept DEF AskCall
  <2>2. Db /\ Fresh(memo) => Fresh(memo')
    BY <2>1 DEF Kept
  <2> QED BY <1>12, <1>d, <2>2 DEF AskCall, MemoInv, AtRest, Fresh
<1>13. ASSUME AskLines \/ LinesRead \/ UNCHANGED vars PROVE MemoInv'
  BY <1>13 DEF AskLines, LinesRead, vars, MemoInv, AtRest, Fresh, KnownAges
<1>14. ASSUME LiveEditBegins \/ \E ok \in BOOLEAN : LiveEditEnds(ok) PROVE MemoInv'
  BY <1>14 DEF LiveEditBegins, LiveEditEnds, Settles, MemoInv, AtRest
<1> QED BY <1>1, <1>2, <1>3, <1>4, <1>5, <1>6, <1>7, <1>8, <1>9, <1>10, <1>11, <1>12, <1>13,
          <1>14 DEF Next

----------------------------------------------------------------------------
(* The cursor and the root.                                                   *)

LEMMA CursorStep == TypeOK /\ CursorInv /\ [Next]_vars => CursorInv'
<1> SUFFICES ASSUME TypeOK, CursorInv, [Next]_vars PROVE CursorInv'
  OBVIOUS
<1> USE DEF index, provider, tree
<1>u. ASSUME UNCHANGED <<asked, current, keywordName>> PROVE CursorInv'
  BY <1>u DEF CursorInv
<1>1. ASSUME NEW s \in Symbols \cup {Nothing}, SetCurrent(s) PROVE CursorInv'
  BY <1>1, InsightAssumption DEF SetCurrent, KeywordAfter, CursorInv
<1>2. ASSUME NEW k \in Keywords, SetKeyword(k) PROVE CursorInv'
  BY <1>2, InsightAssumption DEF SetKeyword, CursorInv
<1>3. CASE UNCHANGED <<asked, current, keywordName>>
  BY <1>3, <1>u
<1> QED BY <1>1, <1>2, <1>3
        DEF Next, vars, SetPinned, Refresh, OpBegins, BulkBegins, LiveEditBegins, Write, OpEnds,
            LiveEditEnds, Settles, BulkEnds, AskRoot, AskCategory, AskCall, AskLines, LinesRead

LEMMA RootStep == TypeOK /\ RootInv /\ [Next]_vars => RootInv'
<1> SUFFICES ASSUME TypeOK, RootInv, [Next]_vars, ~fired' PROVE RootInv'
  BY DEF RootInv
<1> USE DEF index, provider, tree
<1>u. ASSUME UNCHANGED <<current, keywordName, root>>, suspendReads' <=> suspendReads, ~fired
      PROVE  RootInv'
  BY <1>u DEF RootInv
<1>1. ASSUME NEW s \in Symbols \cup {Nothing}, SetCurrent(s) PROVE RootInv'
  BY <1>1, <1>u DEF SetCurrent, Clear
<1>2. ASSUME NEW k \in Keywords, SetKeyword(k) PROVE RootInv'
  BY <1>2, <1>u DEF SetKeyword, Clear
<1>3. ASSUME SetPinned \/ Refresh \/ Write PROVE RootInv'
  <2>1. CASE Refresh
    BY <2>1 DEF Refresh, Clear
  <2>2. CASE SetPinned
    BY <1>u, <2>2 DEF SetPinned
  <2>3. CASE Write
    BY <1>u, <2>3 DEF Write
  <2> QED BY <1>3, <2>1, <2>2, <2>3
<1>s. ASSUME SetIndexing, UNCHANGED bulk PROVE suspendReads' <=> suspendReads
  <2>1. suspendReads' <=> bulk = "drop"
    BY <1>s DEF SetIndexing, Unsafe
  <2> QED BY <2>1 DEF TypeOK
<1>4. ASSUME OpBegins PROVE RootInv'
  BY <1>4, <1>s, <1>u DEF OpBegins
<1>5. ASSUME NEW kind \in {"live", "drop"}, BulkBegins(kind) PROVE RootInv'
  <2>1. suspendReads' = suspendReads
    BY <1>5 DEF BulkBegins
  <2> QED BY <1>5, <1>u, <2>1 DEF BulkBegins
<1>6. ASSUME NEW ok \in BOOLEAN, OpEnds(ok) PROVE RootInv'
  BY <1>6, <1>s, <1>u DEF OpEnds, Settles
<1>7. ASSUME NEW ok \in BOOLEAN, BulkEnds(ok) PROVE RootInv'
  <2>1. ~ok /\ ~fired /\ suspendReads' = suspendReads
    BY <1>7 DEF BulkEnds, Clear
  <2> QED BY <1>7, <1>u, <2>1 DEF BulkEnds
<1>8. ASSUME AskRoot PROVE RootInv'
  BY <1>8 DEF AskRoot, RootInv
<1>9. CASE UNCHANGED <<provider, tree>> \/ \E s \in held, c \in Categories : AskCategory(c, s)
  BY <1>9, <1>u DEF AskCategory
<1>10. ASSUME NEW s \in held, NEW n \in Nodes, AskCall(s, n) PROVE RootInv'
  BY <1>10, <1>u DEF AskCall
<1>11. ASSUME LinesRead \/ AskLines PROVE RootInv'
  BY <1>11, <1>u DEF LinesRead, AskLines
<1>12. ASSUME LiveEditBegins \/ \E ok \in BOOLEAN : LiveEditEnds(ok) PROVE RootInv'
  BY <1>12, <1>u DEF LiveEditBegins, LiveEditEnds, Settles
<1> QED BY <1>1, <1>2, <1>3, <1>4, <1>5, <1>6, <1>7, <1>8, <1>9, <1>10, <1>11, <1>12
        DEF Next, vars

----------------------------------------------------------------------------
(* The theorems.                                                              *)

InsightInv == TypeOK /\ MemoInv /\ CursorInv /\ RootInv

LEMMA InsightInvariant == Spec => []InsightInv
<1>1. Init => InsightInv
  <2> SUFFICES ASSUME Init PROVE InsightInv
    OBVIOUS
  <2>1. TypeOK
    BY TypeInit
  <2>2. MemoInv
    BY NoMemoType DEF Init, MemoInv, KnownAges
  <2>3. CursorInv /\ RootInv
    BY InsightAssumption DEF Init, CursorInv, RootInv
  <2> QED BY <2>1, <2>2, <2>3 DEF InsightInv
<1>2. InsightInv /\ [Next]_vars => InsightInv'
  BY TypeStep, MemoStep, CursorStep, RootStep DEF InsightInv
<1> QED BY <1>1, <1>2, PTL DEF Spec

\* What RelationsProvider keeps has its type: never a symbol and a keyword at once,
\* and the flags setIndexing was given are those of the index.
THEOREM InsightTypeCorrect == Spec => []TypeOK
<1>1. InsightInv => TypeOK
  BY DEF InsightInv
<1> QED BY <1>1, InsightInvariant, PTL

\* When reads are not suspended and VS Code has asked again, the root shows what the
\* cursor was last on while the view was not pinned (setCurrent, setKeyword).
THEOREM ViewFollowsCursor == Spec => []FollowsCursor
<1>1. InsightInv => FollowsCursor
  <2> SUFFICES ASSUME InsightInv, ~fired, ~suspendReads
               PROVE  \/ root = asked
                      \/ root = NotReady
                      \/ asked = Nothing /\ root \in Keywords
    BY DEF FollowsCursor
  <2>1. (current = Nothing \/ keywordName = Nothing) /\ keywordName \in Keywords \cup {Nothing}
    BY DEF InsightInv, TypeOK
  <2>2. root = NotReady \/ root = IF keywordName # Nothing THEN keywordName ELSE current
    BY <2>1 DEF InsightInv, RootInv
  <2> QED BY <2>1, <2>2, InsightAssumption DEF InsightInv, CursorInv
<1> QED BY <1>1, InsightInvariant, PTL

\* When indexing is over and the view was refreshed, nothing it remembers was made
\* before what it was refreshed for, nor without a database; only rows that came
\* after their operation had settled may be missing. Its lines were read since, or
\* their read was under way when it forgot them (refresh, getDb, readLines).
THEOREM ViewIsFresh == Spec => []FreshAtRest
<1>1. InsightInv => FreshAtRest
  <2> SUFFICES ASSUME InsightInv, AtRest, ~failed
               PROVE  /\ \A a \in Remembered : a.age \in {"unknown", "fresh", "late"}
                      /\ fileLines \in {"unknown", "fresh", "late", "crossed"}
    BY DEF FreshAtRest
  <2>1. Fresh(memo) /\ fileLines \in KnownAges \cup {"crossed"}
    BY DEF InsightInv, MemoInv
  <2> QED BY <2>1 DEF Fresh, Remembered, KnownAges
<1> QED BY <1>1, InsightInvariant, PTL
=============================================================================
