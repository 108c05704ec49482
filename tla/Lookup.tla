------------------------------- MODULE Lookup -------------------------------
(* Questions to the parts of the program that are functions of the tables, the *)
(* settings, a name or a text: the callee of a call, the call tree, the        *)
(* exclusion rules, the F10 search, comments and literals. Each behaviour asks *)
(* one question; the properties compare the answer with what the code promises *)
(* or C says.                                                                  *)
EXTENDS Navigation, FuzzyMatch, Exclusion, Lexical

CONSTANTS
    Overloads,      \* tables of symbols
    CallSites,      \* cursors on a call or the name of one, [cursor, row: the rows of refs]
    CallLists,      \* tables of calls
    RootFunction,   \* the function whose callers or callees are shown
    Settings,       \* settings for the exclusion rules
    Searches, SearchedNames,    \* patterns and names for F10
    Texts,          \* texts as C reads them, [text, lexemes: each [first, last, part]]
    CallTexts       \* what follows the name of a call, with open: which lexeme opens it

\* A character of a literal that begins at a is escaped: before it stand an odd number of
\* backslashes.
Escaped(text, a, i) ==
    \E k \in (a + 1)..(i - 1) :
        /\ \A j \in k..(i - 1) : text[j] = "\\"
        /\ k = a + 1 \/ text[k - 1] # "\\"
        /\ \E n \in 0..(i - k) : i - k = n + n + 1

\* What C makes of the tokens a to b.
IsCode(text, a, b) ==
    /\ a = b /\ text[a] \notin Quotes
    /\ text[a] = "/" => Following(text, a) \notin {"/", "*"}
IsLiteral(text, a, b) ==
    /\ a < b /\ text[a] \in Quotes /\ text[b] = text[a]
    /\ \A i \in a..b : text[i] # NewLine
    /\ \A i \in (a + 1)..b : text[i] = text[a] => (i = b <=> ~Escaped(text, a, i))
IsLineComment(text, a, b) ==
    /\ a < b /\ text[a] = "/" /\ text[a + 1] = "/"
    /\ \A i \in a..b : text[i] = NewLine => i = b
    /\ (text[b] = NewLine /\ text[b - 1] # "\\") \/ b = Len(text)
IsBlockComment(text, a, b) ==
    /\ a + 3 <= b /\ text[a] = "/" /\ text[a + 1] = "*"
    /\ \A i \in (a + 2)..(b - 1) : text[i] = "*" /\ text[i + 1] = "/" <=> i = b - 1

\* The lexemes of a text follow one another and are what C makes of it. No comment goes
\* on after a backslash at the end of its line, which the program does not know.
IsLexeme(text, l) ==
    \/ l.part = "code" /\ IsCode(text, l.first, l.last)
    \/ l.part = "literal" /\ IsLiteral(text, l.first, l.last)
    \/ /\ l.part = "comment"
       /\ IsLineComment(text, l.first, l.last) \/ IsBlockComment(text, l.first, l.last)
Lexed(text, lexemes) ==
    \A n \in DOMAIN lexemes :
        /\ lexemes[n].first = IF n = 1 THEN 1 ELSE lexemes[n - 1].last + 1
        /\ lexemes[n].first <= lexemes[n].last /\ lexemes[n].last <= Len(text)
        /\ n = Len(lexemes) => lexemes[n].last = Len(text)
        /\ IsLexeme(text, lexemes[n])

\* What a lexeme is to a list of arguments.
ItemOf(t, n) == IF t.lexemes[n].part = "code" THEN t.text[t.lexemes[n].first] ELSE t.lexemes[n].part

\* A row of refs has the role of its token, or none; the cursor is on no field, the word
\* after `struct' is no call, and the name is that of no local. A row of the grep scanner
\* has no role. A call has a callee, and the tree starts at a function. The settings list
\* patterns. The arguments of a call hold no comment, which countCallArgs does not know,
\* and only blanks stand before its parenthesis.
ASSUME LookupAssumption ==
    /\ \A rows \in Overloads :
          rows \in Seq(ToSet(rows)) /\ \A i \in DOMAIN rows : rows[i].arity \in Int
    /\ \A site \in CallSites :
          /\ site.row \in Seq(ToSet(site.row))
          /\ ~site.cursor.isMemberAccess /\ site.cursor.tagKinds = {}
          /\ site.cursor.callArity \in Int
          /\ \A i \in DOMAIN site.row :
                /\ site.row[i].role = "" \/ (IsRefRole(site.row[i].role) /\ site.row[i].role # "field")
                /\ site.row[i].source = "grep" => site.row[i].role = ""
                /\ ~site.row[i].isLocal
    /\ \A calls \in CallLists :
          /\ calls \in Seq(ToSet(calls))
          /\ \A i \in DOMAIN calls : calls[i].callee # ""
    /\ RootFunction # ""
    /\ \A s \in Settings : s.include \in Seq(Patterns) /\ s.exclude \in Seq(Patterns)
    /\ \A p \in Searches : p \in Seq(ToSet(p))
    /\ \A text \in SearchedNames : text \in Seq(ToSet(text))
    /\ \A t \in Texts :
          /\ t.text \in Seq(ToSet(t.text)) /\ t.lexemes \in Seq([first : Nat, last : Nat, part : STRING])
          /\ Lexed(t.text, t.lexemes)
    /\ \A t \in CallTexts :
          /\ t.text \in Seq(ToSet(t.text)) /\ t.lexemes \in Seq([first : Nat, last : Nat, part : STRING])
          /\ Lexed(t.text, t.lexemes)
          /\ t.open \in DOMAIN t.lexemes /\ ItemOf(t, t.open) = "("
          /\ \A n \in 1..(t.open - 1) : ItemOf(t, n) = " "
          /\ \A n \in DOMAIN t.lexemes : t.lexemes[n].part # "comment"

VARIABLES
    question,       \* what is asked, with the truth about it
    db              \* the tables it is asked of

vars == <<question, db>>

Init == question = [ask |-> "nothing"] /\ db = NoRows

Unasked == question.ask = "nothing"
Ask(q, tables) == question' = q /\ db' = tables

AskOverloads == Unasked /\ \E rows \in Overloads : \E site \in CallSites :
    Ask([ask |-> "overloads", cursor |-> site.cursor],
        [NoRows EXCEPT !.symbols = rows, !.refs = site.row])
AskCalls == Unasked /\ \E calls \in CallLists : \E d \in {"callees", "callers"} :
    Ask([ask |-> "calls", direction |-> d], [NoRows EXCEPT !.calls = calls])
AskExcluded == Unasked /\ \E s \in Settings : \E p \in Paths :
    Ask([ask |-> "excluded", settings |-> s, path |-> p], NoRows)
AskSearch == Unasked /\ \E p \in Searches : \E w \in SearchedNames :
    Ask([ask |-> "search", pattern |-> p, text |-> w], NoRows)
AskText == Unasked /\ \E t \in Texts :
    Ask([ask |-> "text", text |-> t.text, lexemes |-> t.lexemes], NoRows)
AskArguments == Unasked /\ \E t \in CallTexts :
    Ask([ask |-> "arguments", text |-> t.text, lexemes |-> t.lexemes, open |-> t.open], NoRows)

LookupNext ==
    AskOverloads \/ AskCalls \/ AskExcluded \/ AskSearch \/ AskText \/ AskArguments
LookupSpec == Init /\ [][LookupNext]_vars

----------------------------------------------------------------------------
(* Calls.                                                                     *)

Accepts(s, n) ==
    \/ s.kind \notin FunctionKinds
    \/ NoArity \in {n, s.arity}
    \/ s.arity = n
    \/ s.variadic /\ s.arity < n

\* The symbols of the word that the token can be: its role decides, if it has one.
Candidates(c) ==
    {s \in ToSet(db.symbols) :
        /\ s.name = c.word
        /\ IsRefRole(At(db, c).role) => s.kind \in KindsForRole(At(db, c).role)}

\* F12 on a call never loses a function or macro that can take its arguments, among
\* the definitions, or among the declarations when nothing is defined.
CalleeKept ==
    question.ask = "overloads" =>
        LET c == question.cursor
            defs == {s \in Candidates(c) : s.isDefinition}
            hits == ToSet(ResolveDefinition(db, c).hits)
        IN \A s \in IF defs # {} THEN defs ELSE Candidates(c) :
              s.kind \notin MemberKinds /\ Accepts(s, c.callArity) =>
                 s \in hits \/ \A h \in hits : h.file = c.file /\ h.line = c.line

\* The Symbol row describes what F12 jumps to, or the declaration the cursor is on,
\* when the token has a role (symbolInfo.ts).
SymbolRowAgrees ==
    question.ask = "overloads" /\ At(db, question.cursor).role # "" =>
        LET row == ToSet(ResolveSymbolInfo(db, question.cursor))
        IN \/ ToSet(ResolveDefinition(db, question.cursor).hits) \subseteq row
           \/ row # {} /\ \A s \in row : s.line = question.cursor.line

----------------------------------------------------------------------------
(* The call tree.                                                             *)

\* Who calls whom, in the direction of the tree.
Edges == {<<IF question.direction = "callees" THEN c.caller ELSE c.callee,
            Edge(question.direction, c)>> : c \in ToSet(db.calls)}
Functions == {e[1] : e \in Edges} \cup {e[2] : e \in Edges}

\* The nodes of the tree by depth, each expanded with its own ancestors.
Roots == ToSet(CallRelations(db, question.direction, RootFunction, FALSE))
Levels(depth) ==
    LET level[d \in 1..depth] ==
          IF d = 1 THEN Roots
          ELSE UNION {ToSet(CallChildren(db, question.direction, n.name, n.ancestors)) :
                        n \in {n \in level[d - 1] : ~n.recursive}}
    IN level

\* The functions a chain of calls from the root leads to: those in every set that has the
\* ones it calls and, with a function, those that one calls.
Closed(names) ==
    \A e \in Edges : e[1] = RootFunction \/ e[1] \in names => e[2] \in names
Reached == {f \in Functions : \A names \in SUBSET Functions : Closed(names) => f \in names}

\* The call tree ends, no deeper than there are functions, and shows every function
\* a chain of calls leads to, and no other (callGraph.ts).
CallTreeComplete ==
    question.ask = "calls" =>
        LET depth == Cardinality(Functions)
            levels == Levels(depth + 1)
        IN /\ levels[depth + 1] = {}
           /\ {n.name : n \in UNION {levels[d] : d \in 1..depth}} = Reached

ViewLevel(depth) ==
    LET level[d \in 1..depth] ==
          IF d = 1 THEN Roots
          ELSE UNION {ToSet(NodeChildren(db, question.direction, n)) : n \in level[d - 1]}
    IN level[depth]

\* `Recursive caller tree: ... Cycles terminate (see callGraph)' (relationsView.ts): the
\* tree of the view is no deeper than there are functions.
CyclesTerminate == question.ask = "calls" => ViewLevel(Cardinality(Functions) + 1) = {}

----------------------------------------------------------------------------
(* Exclusion and search.                                                      *)

\* A file is left out when, in some folder it is in, an exclude matches it and no
\* include does, however the two write its path (exclusionEngine.ts).
IncludesWin ==
    question.ask = "excluded" =>
        IsExcluded(RulesOf(question.settings), question.path) =
            LeftOut(question.settings, question.path)

\* The ways to find the pattern in the name: the place of each of its characters.
Embeddings(pattern, text) ==
    {s \in [1..Len(pattern) -> 1..Len(text)] :
        /\ \A i \in DOMAIN s : text[s[i]].key = pattern[i]
        /\ \A i \in DOMAIN s : i > 1 => s[i - 1] < s[i]}
Worth(text, s) ==
    LET worth[i \in 1..Len(s)] ==
          IF i = 1 THEN FirstScore(text, s[1]) ELSE worth[i - 1] + Step(text, s[i - 1], s[i])
    IN worth[Len(s)]

\* The score is that of the best way to find the pattern in the name; and the names
\* SQLite selects are those that have one (fuzzyMatch.ts, searchSymbolNames).
BestScore ==
    question.ask = "search" =>
        LET ways == Embeddings(question.pattern, question.text)
            score == Score(question.pattern, question.text)
        IN /\ question.pattern # << >> =>
                score = IF ways = {} THEN NoScore
                        ELSE <<Max({Worth(question.text, s) : s \in ways})>>
           /\ (score # NoScore) = IsSubsequence(question.pattern, Keys(question.text))

----------------------------------------------------------------------------
(* Texts.                                                                     *)

\* Both scanners read comments and literals as C does, escaped quotes and comments of
\* several lines included: the mask keeps the code, the stripper all but comments
\* (grepScan.ts, regexScanner.ts).
LexesAsC ==
    question.ask = "text" =>
        LET code == CodeOf(question.text)
            stripped == StripComments(question.text)
        IN \A l \in ToSet(question.lexemes) : \A i \in l.first..l.last :
              question.text[i] # NewLine =>
                /\ i \in code <=> l.part = "code"
                /\ stripped[i] = IF l.part = "comment" THEN " " ELSE question.text[i]

Item(n) == ItemOf(question, n)
\* How many brackets are open after a lexeme.
Depth(n) == Cardinality({m \in question.open..n : Item(m) \in Brackets.open})
          - Cardinality({m \in question.open..n : Item(m) \in Brackets.close})

\* The arguments of a call are those its commas separate, whatever brackets and literals
\* they hold; none when only commas are there (which a macro may have), and unknown when
\* the call goes on in the next line (memberAccess.ts).
ArgumentsCounted ==
    question.ask = "arguments" =>
        LET ends == {n \in DOMAIN question.lexemes : n > question.open /\ Depth(n) = 0}
            inside == (question.open + 1)..(Min(ends) - 1)
            commas == {n \in inside : Item(n) = "," /\ Depth(n) = 1}
        IN CountCallArgs(question.text) =
             IF ends = {} THEN NotClosed
             ELSE IF \A n \in inside : Item(n) = " " \/ n \in commas THEN 0
             ELSE Cardinality(commas) + 1
=============================================================================
