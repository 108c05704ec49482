------------------------------ MODULE Lexical ------------------------------
(* What the program reads off a text without a parser: the code mask and the   *)
(* comment stripper (indexer/grepScan.ts, regexScanner.ts), the bodies of      *)
(* functions (enclosingFunc.ts), the grep fallback (scanWithRegex) and the     *)
(* arguments of a call (memberAccess.ts). A text is a sequence of tokens: a    *)
(* word, or any other character.                                               *)
EXTENDS Integers, SequencesExt

CONSTANTS
    Words,          \* identifiers and keywords
    HardWords,      \* KEYWORDS, those that name nothing
    HeaderSpan      \* MAX_HEADER_SPAN: lines from a name to the brace of its body

NewLine == "new line"
Quotes == {"'", "\""}

----------------------------------------------------------------------------
(* Code, comments and literals. A state is "code", or what opened the comment  *)
(* or the literal.                                                            *)

Opened(c, next) ==
    CASE c = "/" /\ next = "/" -> "//"
      [] c = "/" /\ next = "*" -> "/*"
      [] c \in Quotes -> c
      [] OTHER -> "code"

\* A backslash in a literal takes the next character with it. The mutant does not.
Escapes_Never(c) == FALSE
Escapes(c) == c = "\\"

\* The state after a character, and whether it takes the next one with it. In
\* stripComments a literal goes on at the end of its line, in maskLine it does not.
Read(state, c, next, acrossLines) ==
    CASE state = "code" -> [state |-> Opened(c, next), pair |-> Opened(c, next) \in {"//", "/*"}]
      [] state = "//" -> [state |-> IF c = NewLine THEN "code" ELSE "//", pair |-> FALSE]
      [] state = "/*" ->
            LET closes == c = "*" /\ next = "/"
            IN [state |-> IF closes THEN "code" ELSE "/*", pair |-> closes]
      [] state \in Quotes ->
            LET closes == c = state \/ (c = NewLine /\ ~acrossLines)
            IN [state |-> IF closes THEN "code" ELSE state,
                pair |-> Escapes(c) /\ (acrossLines \/ next # NewLine)]

\* A token goes to what it opens, or to what is open; one that was taken, to the same.
Classify(s, c, next, acrossLines) ==
    IF s.pair THEN [s EXCEPT !.pair = FALSE]
    ELSE LET r == Read(s.state, c, next, acrossLines)
         IN [state |-> r.state, pair |-> r.pair,
             part |-> IF s.state = "code" THEN r.state ELSE s.state]

Following(text, i) == IF i = Len(text) THEN NewLine ELSE text[i + 1]

\* For each token, what it is part of.
Classified(text, acrossLines) ==
    LET scan[i \in 0..Len(text)] ==
          IF i = 0 THEN [state |-> "code", pair |-> FALSE, part |-> "code"]
          ELSE Classify(scan[i - 1], text[i], Following(text, i), acrossLines)
    IN [i \in DOMAIN text |-> scan[i].part]

\* maskCodeLines: the positions of code.
CodeOf(text) ==
    LET parts == Classified(text, FALSE) IN {i \in DOMAIN text : parts[i] = "code"}

\* stripComments: comments become blanks, line by line; literals stay.
StripComments(text) ==
    LET parts == Classified(text, TRUE)
    IN [i \in DOMAIN text |->
          IF parts[i] \in {"//", "/*"} /\ text[i] # NewLine THEN " " ELSE text[i]]

----------------------------------------------------------------------------
(* Bodies of functions.                                                       *)

LineAt(text, i) == Cardinality({k \in 1..(i - 1) : text[k] = NewLine}) + 1

\* The brace of the body stands outside of the parameters. The mutant takes any.
OpensBody_AnyBrace(c, paren) == c = "{"
OpensBody(c, paren) == c = "{" /\ paren = 0

\* findBodyOpenBrace: 0 when a semicolon comes first, or none in HeaderSpan lines.
FindBodyOpenBrace(text, code, anchor) ==
    FoldLeftDomain(LAMBDA s, i :
        LET c == text[i]
        IN IF s.done \/ i < anchor THEN s
           ELSE IF c = NewLine THEN [s EXCEPT !.lines = @ + 1, !.done = (s.lines = HeaderSpan)]
           ELSE IF i \notin code THEN s
           ELSE IF OpensBody(c, s.paren) THEN [s EXCEPT !.done = TRUE, !.brace = i]
           ELSE IF c = ";" /\ s.paren = 0 THEN [s EXCEPT !.done = TRUE]
           ELSE [s EXCEPT !.paren = CASE c = "(" -> @ + 1 [] c = ")" -> Max({@ - 1, 0}) [] OTHER -> @],
        [paren |-> 0, lines |-> 0, done |-> FALSE, brace |-> 0], text).brace

\* matchCloseBrace: the first code position from open on where the braces balance.
MatchCloseBrace(text, code, open) ==
    LET Braces(c, i) == {k \in code : open <= k /\ k <= i /\ text[k] = c}
        balanced == {i \in code : /\ i >= open /\ text[i] = "}"
                                  /\ Cardinality(Braces("{", i)) = Cardinality(Braces("}", i))}
    IN IF balanced = {} THEN 0 ELSE Min(balanced)

\* anchors: the positions of the names of functions.
BuildFuncRanges(text, anchors) ==
    LET code == CodeOf(text)
        close == [a \in anchors |->
                    LET open == FindBodyOpenBrace(text, code, a)
                    IN IF open = 0 THEN 0 ELSE MatchCloseBrace(text, code, open)]
    IN {[name |-> text[a], first |-> LineAt(text, a), last |-> LineAt(text, close[a])] :
          a \in {a \in anchors : close[a] # 0}}

----------------------------------------------------------------------------
(* The grep fallback: functions, prototypes, calls and identifiers. #define,   *)
(* typedef, tags, labels and function pointers are matched line by line in the *)
(* same way and left out.                                                      *)

LinesOf(text) ==
    FoldLeft(LAMBDA ls, c : IF c = NewLine THEN Append(ls, << >>)
                            ELSE [ls EXCEPT ![Len(ls)] = Append(@, c)], << << >> >>, text)

\* RE_FUNC_DEF and RE_FUNC_PROTO: words and stars from the first column on, the name,
\* parentheses with none inside, and the last character of the line.
HeaderName(line, last) ==
    LET t == SelectSeq(line, LAMBDA c : c # " ")
        open == SelectInSeq(t, LAMBDA c : c = "(")
        close == SelectInSeq(t, LAMBDA c : c = ")")
        matches ==
            /\ line # << >> /\ line[1] \in Words
            /\ open > 2 /\ t[open - 1] \in Words
            /\ \A i \in 1..(open - 1) : t[i] \in Words \cup {"*"}
            /\ close > open /\ Len(t) = close + 1 /\ t[Len(t)] = last
            /\ \A i \in (open + 1)..(close - 1) : t[i] # "("
    IN IF matches /\ t[open - 1] \notin HardWords THEN t[open - 1] ELSE ""

\* The words of a line, with the tokens that stand before and after.
Mentions(line) ==
    LET t == SelectSeq(line, LAMBDA c : c # " ")
    IN {[name |-> t[i], before |-> IF i = 1 THEN " " ELSE t[i - 1],
         after |-> IF i = Len(t) THEN " " ELSE t[i + 1]] :
           i \in {i \in DOMAIN t : t[i] \in Words \ HardWords}}

\* At depth 0 the function ends. The mutant keeps it.
FuncAtBrace_Kept(depth, func) == func
FuncAtBrace(depth, func) == IF depth = 0 THEN "" ELSE func

AfterBraces(s, line) ==
    FoldLeft(LAMBDA b, c :
        CASE c = "{" -> [b EXCEPT !.depth = @ + 1]
          [] c = "}" -> LET depth == Max({b.depth - 1, 0})
                        IN [b EXCEPT !.depth = depth, !.func = FuncAtBrace(depth, b.func)]
          [] OTHER -> b, s, line)

\* scanWithRegex: a function that starts at depth 0 is the caller until its braces
\* close; its own header is a call like any other.
ScanWithRegex(text) ==
    LET lines == LinesOf(StripComments(text))
    IN FoldLeftDomain(LAMBDA s, n :
        LET line == lines[n]
            def == HeaderName(line, "{")
            proto == HeaderName(line, ";")
            func == IF def # "" /\ s.depth = 0 THEN def ELSE s.func
            symbols == IF def # "" THEN {[name |-> def, kind |-> "function", line |-> n]}
                       ELSE IF proto # "" THEN {[name |-> proto, kind |-> "prototype", line |-> n]}
                       ELSE {}
            refs == {[name |-> m.name, line |-> n, func |-> func,
                      role |-> IF m.before \in {"->", "."} THEN "field" ELSE ""] : m \in Mentions(line)}
            calls == {[caller |-> func, callee |-> m.name, line |-> n] :
                        m \in {m \in Mentions(line) : m.after = "("}}
        IN AfterBraces([s EXCEPT !.func = func, !.symbols = @ \cup symbols,
                                 !.refs = @ \cup refs, !.calls = @ \cup calls], line),
        [depth |-> 0, func |-> "", symbols |-> {}, refs |-> {}, calls |-> {}], lines)

----------------------------------------------------------------------------
(* The arguments of a call.                                                   *)

NotClosed == -1
Brackets == [open |-> {"(", "[", "{"}, close |-> {")", "]", "}"}]

\* A comma of the call's own parentheses. The mutant counts all.
Separates_Any(c, depth) == c = ","
Separates(c, depth) == c = "," /\ depth = 1

\* What a character adds: nothing once the call's own parenthesis is closed.
CountArg(s, c) ==
    CASE s.count # NotClosed -> s
      [] s.count = NotClosed /\ s.pair -> [s EXCEPT !.pair = FALSE]
      [] s.count = NotClosed /\ ~s.pair /\ s.literal # "" ->
            [s EXCEPT !.pair = Escapes(c), !.literal = IF c = @ THEN "" ELSE @]
      [] s.count = NotClosed /\ ~s.pair /\ s.literal = "" ->
            LET depth == CASE c \in Brackets.open -> s.depth + 1
                           [] c \in Brackets.close -> s.depth - 1 [] OTHER -> s.depth
                separates == Separates(c, s.depth)
            IN [s EXCEPT
                  !.depth = depth,
                  !.count = IF depth # 0 THEN @ ELSE IF s.sawArg THEN s.args + 1 ELSE 0,
                  !.args = IF separates THEN @ + 1 ELSE @,
                  !.sawArg = @ \/ (~separates /\ c # " "),
                  !.literal = IF c \in Quotes THEN c ELSE ""]

\* countCallArgs, on what follows the name.
CountCallArgs(text) ==
    LET shown == {i \in DOMAIN text : text[i] # " "}
        scan[i \in Min(shown)..Len(text)] ==
          IF i = Min(shown)
          THEN [depth |-> 1, sawArg |-> FALSE, args |-> 0, literal |-> "", pair |-> FALSE,
                count |-> NotClosed]
          ELSE CountArg(scan[i - 1], text[i])
    IN IF shown = {} \/ text[Min(shown)] # "(" THEN NotClosed ELSE scan[Len(text)].count
=============================================================================
