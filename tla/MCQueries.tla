------------------------------ MODULE MCQueries ------------------------------
(* Small programs for Queries, written as trees.                               *)
EXTENDS Queries

CONSTANTS
    ShadowFile,     \* the file with a global p, of type B_t, that locals p shadow
    UseKinds,       \* how a use of head names its object
    Pairs           \* FALSE: one use in a program; TRUE: two of them

MCSuffixTags(t) ==
    CASE t \in {"A_t", "A_p", "A_s", "A_u"} -> <<"A_s", "A_e", "A_u", "A">>
      [] t = "A2_t" -> <<"A2_s", "A2_e", "A2_u", "A2">>
      [] t = "B_t" -> <<"B_s", "B_e", "B_u", "B">>
      [] t = "C_s" -> <<"C_s", "C_e", "C_u", "C">>
      [] OTHER -> << >>
MCSites == {"@in", "@1", "@2", "@member"}

\* The elements of a set, in some order.
Listed(set) == FoldSet(LAMBDA e, s : Append(s, e), << >>, set)

\* Trees.
Named(n, l) == [spec |-> "named", name |-> n, line |-> l]
Body(n, alias, site, l, ms) ==
    [spec |-> "body", name |-> n, typedefName |-> alias, site |-> site, line |-> l, members |-> ms]
Var(n, t, l) == [item |-> "variable", name |-> n, type |-> t, line |-> l, extern |-> FALSE, init |-> << >>]
Fn(n, t, first, last, params, body, tail) ==
    [item |-> "function", name |-> n, type |-> t, line |-> first, last |-> last,
     isDefinition |-> TRUE, arity |-> Len(params), variadic |-> FALSE,
     params |-> params, body |-> body, tail |-> tail]
Proto(n, t, l) == [Fn(n, t, l, l, << >>, << >>, << >>) EXCEPT !.isDefinition = FALSE]
Typedef(ns, t, l) == [item |-> "typedef", names |-> ns, type |-> t, line |-> l]
Aggregate(t) == [item |-> "aggregate", type |-> t]
Group(fileScope, items) == <<[item |-> "group", fileScope |-> fileScope, items |-> items]>>
Statement(e) == [item |-> "statement", init |-> <<e>>]
Name(n, l) == [expr |-> "name", name |-> n, line |-> l]
Call(n, l) == [expr |-> "call", name |-> n, line |-> l]
Dot(base, n, l) == [expr |-> "field", base |-> base, name |-> n, line |-> l]
Member(n, t, l) == [name |-> n, type |-> t, line |-> l]
HeadField(l) == Member("head", Scalar, l)

Token(file, line, word) ==
    [file |-> file, line |-> line, col |-> 1, word |-> word, textChain |-> << >>,
     isMemberAccess |-> FALSE, isCall |-> FALSE, callArity |-> NoArity,
     tagKinds |-> {}, guard |-> FALSE]

----------------------------------------------------------------------------
(* Fields.                                                                    *)

\* A_s, its aliases, an anonymous struct with a name by typedef, and a struct with
\* an anonymous member and a member of anonymous type; A_u has no more to do with
\* A_s than its name.
Types(aliased) ==
    <<Aggregate(Body("A_s", "", "", 1, <<HeadField(2)>>))>>
    \o (IF aliased THEN <<Typedef(<<"A_t", "A_p">>, Named("A_s", 3), 3),
                          Typedef(<<"A2_t">>, Named("A_t", 4), 4)>> ELSE << >>)
    \o <<Typedef(<<"B_t">>, Body("", "B_t", "", 5, <<HeadField(6)>>), 5),
         Aggregate(Body("C_s", "", "", 7,
            <<Member("", Body("", "", "@member", 8, <<HeadField(8)>>), 8),
              Member("in", Body("", "", "@in", 9, <<HeadField(9)>>), 10)>>)),
         Aggregate(Body("A_u", "", "", 16, <<HeadField(17)>>))>>
DeclLine(t) ==
    CASE t = "B_t" -> 6 [] t = "C_s" -> 8 [] t = "C_s.in" -> 9 [] t = "A_u" -> 17 [] OTHER -> 2
StructLines(t) ==
    CASE t = "B_t" -> {5} [] t = "A_u" -> {16} [] t \in {"C_s", "C_s.in"} -> {7} [] t = "anon" -> {} [] OTHER -> {1}

\* Use i of a program is in function f_i of file a, at line 35 + 10 i.
AllTypes == {"A_s", "A_t", "A_p", "A2_t", "A_u", "B_t", "C_s", "C_s.in", "anon"}
Uses(aliased, kinds) ==
    {u \in [kind : kinds, type : AllTypes] :
        /\ ~aliased => u.type # "A2_t"
        /\ u.type = "anon" => u.kind \in {"local", "global", "init"}
        /\ u.kind = "grep" => u.type = "A_s"}

Fun(i) == <<"f1", "f2">>[i]
Glob(i) == <<"g1", "g2">>[i]
Get(i) == <<"get1", "get2">>[i]
At0(i) == 30 + 10 * i
UseLine(i) == At0(i) + 5
TypeOf(u, i, l) ==
    CASE u.type = "anon" -> Body("", "", <<"@1", "@2">>[i], 20 + i, <<HeadField(20 + i)>>)
      [] u.type = "C_s.in" -> Named("C_s", l)
      [] OTHER -> Named(u.type, l)
Access(u, i, base) ==
    Dot(IF u.type = "C_s.in" THEN Dot(base, "in", UseLine(i)) ELSE base, "head", UseLine(i))
\* `T q = {.in.head = 0}', or with a list for .in, in the second function.
Designator(u, i) ==
    LET top == [of |-> "type", type |-> TypeOf(u, i, At0(i) + 3)]
        D(list, before) == [expr |-> "designator", list |-> list, before |-> before,
                            name |-> "head", line |-> UseLine(i)]
    IN CASE u.type # "C_s.in" -> D(top, << >>)
         [] i = 1 -> D(top, <<"in">>)
         [] i = 2 -> D([of |-> "pair", outer |-> top, path |-> <<"in">>], << >>)
Function(u, i) ==
    LET Make(params, body, tail) ==
            Fn(Fun(i), Scalar, At0(i), At0(i) + 9, params, body, tail)
        param == <<Member("p", TypeOf(u, i, At0(i) + 1), At0(i) + 1)>>
        use(base) == Statement(Access(u, i, base))
    IN CASE u.kind = "local" ->
              IF i = 1 /\ u.type # "anon" THEN Make(param, <<use(Name("p", UseLine(i)))>>, << >>)
              ELSE Make(<< >>, <<Var("p", TypeOf(u, i, At0(i) + 1), At0(i) + 1),
                                 use([expr |-> "deref", base |-> Name("p", UseLine(i))])>>, << >>)
         [] u.kind = "tail" -> Make(param, << >>, <<use(Name("p", UseLine(i)))>>)
         [] u.kind = "global" -> Make(<< >>, <<use(Name(Glob(i), UseLine(i)))>>, << >>)
         [] u.kind = "cast" ->
              Make(<< >>, <<use([expr |-> "cast", type |-> TypeOf(u, i, UseLine(i))])>>, << >>)
         [] u.kind = "call" -> Make(<< >>, <<use(Call(Get(i), UseLine(i)))>>, << >>)
         [] u.kind = "init" ->
              Make(<< >>, <<[Var("q", TypeOf(u, i, At0(i) + 3), At0(i) + 3) EXCEPT
                                !.init = <<Designator(u, i)>>]>>, << >>)
         [] u.kind = "grep" -> Make(<< >>, << >>, << >>)
\* What the use needs at file scope: the global, or a prototype.
Shared(u, i) ==
    CASE u.kind = "global" -> <<Var(Glob(i), TypeOf(u, i, 10 + i), 10 + i)>>
      [] u.kind = "call" -> <<Proto(Get(i), TypeOf(u, i, 10 + i), 10 + i)>>
      [] OTHER -> << >>
GrepRow(i) ==
    [name |-> "head", file |-> "c", line |-> UseLine(i), col |-> 1, role |-> "field", func |-> "",
     isLocal |-> FALSE, owner |-> "", chain |-> << >>, walkedIn |-> "", source |-> "grep"]

\* The definition of get_i, in a file scanned by grep.
GrepGet(i) ==
    [name |-> Get(i), kind |-> "function", file |-> "c", line |-> UseLine(i), isDefinition |-> TRUE,
     scope |-> "", dataType |-> "", returnType |-> "", arity |-> NoArity, variadic |-> FALSE]

\* What is declared in h is behind an include guard: no row says its type.
HasRow(u, shared) == u.kind # "grep" /\ (u.kind \in {"global", "call"} => shared # "h")

UseOccurrence(u, i, shared) ==
    LET hop == IF u.type = "C_s.in" THEN <<Object("in")>> ELSE << >>
        root == CASE u.kind \in {"local", "tail"} -> <<Object("p")>>
                  [] u.kind = "global" -> <<Object(Glob(i))>>
                  [] OTHER -> << >>
        chain == IF root = << >> THEN << >> ELSE root \o hop
    IN [cursor |-> [Token(IF u.kind = "grep" THEN "c" ELSE "a", UseLine(i), "head") EXCEPT
                       !.textChain = chain, !.isMemberAccess = (u.kind # "init")],
        decl |-> IF u.type = "anon" THEN 20 + i ELSE DeclLine(u.type),
        type |-> CASE u.type = "anon" -> <<"@1", "@2">>[i] [] u.type = "C_s.in" -> "@in"
                   [] OTHER -> u.type,
        typed |-> HasRow(u, shared)]
\* The members of a nameless member are of the struct around it.
DeclOccurrence(file, l, tag) ==
    [cursor |-> Token(file, l, "head"), decl |-> l, type |-> tag, typed |-> TRUE]

MCFieldInputs ==
    UNION {{[first |-> u, second |-> v, types |-> types, shared |-> shared, aliased |-> aliased] :
              u \in Uses(aliased, UseKinds),
              v \in IF Pairs THEN Uses(aliased, {"local", "global"})
                    ELSE {[kind |-> "grep", type |-> "A_s"]},
              types \in {"h", "a"}, shared \in {"a", "b", "h"}} : aliased \in BOOLEAN}

MCFieldProgram(input) ==
    LET uses == <<input.first, input.second>>
        types == Types(input.aliased)
        shared == Shared(uses[1], 1) \o Shared(uses[2], 2)
        p == <<Var("p", Named("B_t", 15), 15)>>
        In(file) == (IF input.types = file THEN types ELSE << >>)
                    \o (IF input.shared = file THEN shared ELSE << >>)
                    \o (IF ShadowFile = file THEN p ELSE << >>)
        grep == {i \in 1..2 : uses[i].kind = "grep"}
        anon == {i \in 1..2 : uses[i].type = "anon"}
        objects ==
            {[cursor |-> Token("a", At0(i) + 1, "p"), struct |-> StructLines(uses[i].type)] :
                i \in {i \in 1..2 : uses[i].kind \in {"local", "tail"}}} \cup
            {[cursor |-> Token("a", UseLine(i), Glob(i)),
              struct |-> IF HasRow(uses[i], input.shared) THEN StructLines(uses[i].type) ELSE {}] :
                i \in {i \in 1..2 : uses[i].kind = "global"}}
    IN [files |-> <<[file |-> "h", items |-> Group(FALSE, In("h"))], [file |-> "b", items |-> In("b")],
                    [file |-> "a", items |-> In("a") \o <<Function(uses[1], 1), Function(uses[2], 2)>>]>>,
        grep |-> [NoRows EXCEPT
            !.symbols = Listed({GrepGet(i) : i \in {i \in 1..2 : uses[i].kind = "call"}}),
            !.refs = Listed({GrepRow(i) : i \in grep})],
        objects |-> objects,
        occurrences |->
            {UseOccurrence(uses[i], i, input.shared) : i \in 1..2} \cup
            {DeclOccurrence(input.types, 2, "A_s"), DeclOccurrence(input.types, 6, "B_t"),
             DeclOccurrence(input.types, 8, "C_s"), DeclOccurrence(input.types, 9, "@in"),
             DeclOccurrence(input.types, 17, "A_u")} \cup
            {DeclOccurrence(IF uses[i].kind = "global" THEN input.shared ELSE "a",
                            20 + i, <<"@1", "@2">>[i]) : i \in anon}]

----------------------------------------------------------------------------
(* Names. What a program may declare as x, and where: behind an include guard  *)
(* in the header, and in a linkage block in it, or under an #if in the source. *)

Values == {"nothing", "variable", "extern", "function", "prototype", "both"}
MCNameInputs ==
    [value : Values, tag : {"none", "forward", "body"}, field : BOOLEAN, label : BOOLEAN,
     local : BOOLEAN, header : {"plain", "guarded", "linkage"}, conditional : BOOLEAN]

ValueItems(v) ==
    (IF v \in {"variable", "extern"} THEN <<Var("x", Scalar, 1)>> ELSE << >>) \o
    (IF v \in {"function", "both"} THEN <<Fn("x", Scalar, 1, 1, << >>, << >>, << >>)>> ELSE << >>)
HeaderItems(v) ==
    (IF v = "extern" THEN <<[Var("x", Scalar, 2) EXCEPT !.extern = TRUE]>> ELSE << >>) \o
    (IF v \in {"prototype", "both"} THEN <<Proto("x", Scalar, 2)>> ELSE << >>)
InHeader(header, items) ==
    CASE header = "plain" -> items
      [] header = "guarded" -> Group(FALSE, items)
      [] header = "linkage" -> Group(FALSE, Group(TRUE, items))
InSource(conditional, items) == IF conditional THEN Group(FALSE, items) ELSE items
\* F12 of the value x at file scope: its definition, or else its declaration; no
\* variable and no declaration that is under an #if.
ValueDecls(n) ==
    CASE n.value \in {"function", "both"} -> {1}
      [] n.value \in {"variable", "extern"} /\ ~n.conditional -> {1}
      [] n.value \in {"extern", "prototype"} /\ n.header # "guarded" -> {2}
      [] OTHER -> {}
TagDecls(n) ==
    CASE n.tag = "body" -> {3} [] n.tag = "forward" /\ ~n.conditional -> {3} [] OTHER -> {}

Opt(condition, item) == IF condition THEN <<item>> ELSE << >>
FieldX(l) == Statement(Dot(Name("s", l), "x", l))
TagX(l) == Var("t", Named("x", l), l)
ValueX(l) == Statement(Name("x", l))

MCNameProgram(n) ==
    LET hasTag == n.tag # "none"
        f == Fn("f", Scalar, 10, 29, <<Member("s", Named("S", 10), 10)>>,
                Opt(n.local, Var("x", Scalar, 11)) \o <<ValueX(12)>> \o Opt(hasTag, TagX(13))
                \o Opt(n.field, FieldX(14)) \o Opt(n.label, [item |-> "label", name |-> "x", line |-> 15]),
                <<ValueX(16)>> \o Opt(hasTag, TagX(17)) \o Opt(n.field, FieldX(18)))
        h == Fn("h", Scalar, 30, 39, <<Member("s", Named("S", 30), 30)>>,
                <<Statement(Call("x", 31))>> \o Opt(hasTag, TagX(32)) \o Opt(n.field, FieldX(33)), << >>)
        Spot(line, space, entity, decls) ==
            [cursor |-> [Token("a", line, "x") EXCEPT
                            !.col = IF space = "type" THEN 0 ELSE 1,
                            !.textChain = IF line \in {14, 18, 33} THEN <<Object("s")>> ELSE << >>,
                            !.isMemberAccess = (line \in {14, 18, 33}),
                            !.tagKinds = IF space = "type" THEN {"struct"} ELSE {}],
             space |-> space, entity |-> entity, decls |-> decls, tail |-> line \in 16..18]
        global == [entity |-> "global", decls |-> ValueDecls(n)]
        inF == IF n.local THEN [entity |-> "local", decls |-> {11}] ELSE global
        Value(line, what) == Spot(line, "value", what.entity, what.decls)
    IN [files |-> <<[file |-> "h", items |-> InHeader(n.header, HeaderItems(n.value))],
                    [file |-> "a", items |->
                        InSource(n.conditional, ValueItems(n.value) \o Opt(hasTag, Aggregate(
                            IF n.tag = "forward" THEN Named("x", 3)
                            ELSE Body("x", "", "", 3, <<Member("m", Scalar, 3)>>))))
                        \o Opt(n.field, Aggregate(Body("S", "", "", 4, <<Member("x", Scalar, 5)>>)))
                        \o <<f, h>>]>>,
        grep |-> [NoRows EXCEPT
            !.refs = <<[GrepRow(1) EXCEPT !.name = "x", !.role = "", !.line = 40]>>],
        occurrences |->
            {Value(l, inF) : l \in {12, 16} \cup (IF n.local THEN {11} ELSE {})}
            \cup {Value(l, global) : l \in {31} \cup
                    (IF n.value \in {"nothing", "prototype"} THEN {} ELSE {1})}
            \cup {Spot(l, "type", "tag", TagDecls(n)) : l \in IF hasTag THEN {3, 13, 17, 32} ELSE {}}
            \cup {Spot(l, "field", "field", {5}) : l \in IF n.field THEN {5, 14, 18, 33} ELSE {}}
            \cup {Spot(l, "label", "label", {15}) : l \in IF n.label THEN {15} ELSE {}}
            \cup {[Spot(40, "unknown", "unknown", {}) EXCEPT !.cursor.file = "c"]}]

----------------------------------------------------------------------------
(* Functions named f, and calls.                                              *)

SymbolF(kind, line, isDefinition, arity, variadic) ==
    [name |-> "f", kind |-> kind, file |-> "a", line |-> line, isDefinition |-> isDefinition,
     scope |-> "", dataType |-> "", returnType |-> "", arity |-> arity, variadic |-> variadic]
MCOverloads == {Listed(rows) : rows \in
    SUBSET {SymbolF("function", 1, TRUE, 1, FALSE), SymbolF("function", 2, TRUE, 2, FALSE),
            SymbolF("function", 3, TRUE, 1, TRUE), SymbolF("function", 4, TRUE, NoArity, FALSE),
            SymbolF("prototype", 5, FALSE, 1, FALSE), SymbolF("prototype", 6, FALSE, 2, TRUE),
            SymbolF("macro", 7, TRUE, NoArity, FALSE), SymbolF("field", 8, TRUE, NoArity, FALSE)}}
RowF(file, line, source, role) ==
    [GrepRow(1) EXCEPT !.name = "f", !.file = file, !.line = line, !.source = source, !.role = role]
MCCallSites ==
    {[cursor |-> [Token("a", 10, "f") EXCEPT !.isCall = TRUE, !.callArity = n],
      row |-> <<RowF("a", 10, "ts", "value")>>] : n \in {NoArity} \cup 0..3} \cup
    {[cursor |-> Token("a", l, "f"), row |-> <<RowF("a", l, "ts", "value")>>] : l \in {1, 5, 7}} \cup
    {[cursor |-> [Token("c", 10, "f") EXCEPT !.isCall = call],
      row |-> <<RowF("c", 10, "grep", "")>>] : call \in BOOLEAN} \cup
    {[cursor |-> [Token("a", 20, "f") EXCEPT !.guard = TRUE], row |-> << >>]}

\* Graphs of three functions and the file scope; each call is there twice.
MCCallLists ==
    {LET calls == Listed({[caller |-> e[1], callee |-> e[2]] : e \in edges}) IN calls \o calls :
        edges \in SUBSET (({"f", "g", "h"} \X {"f", "g", "h"}) \cup {<<"", "f">>})}

----------------------------------------------------------------------------
(* Exclusion and search.                                                      *)

MCPaths == {"p"}
MCFormsIn == [p \in MCPaths |-> {<<"gen/x.c", "app/gen/x.c">>, <<"x.c", "lib/x.c">>}]
MCMatches ==
    [g \in {"gen/**", "app/**", "**/x.c", "lib/**"} |->
        CASE g = "gen/**" -> {"gen/x.c"} [] g = "app/**" -> {"app/gen/x.c"}
          [] g = "lib/**" -> {"lib/x.c"}
          [] OTHER -> {"gen/x.c", "app/gen/x.c", "x.c", "lib/x.c"}]
MCPatterns == DOMAIN MCMatches
UpTo(n, set) == UNION {[1..k -> set] : k \in 0..n}
MCSettings == [include : UpTo(2, MCPatterns), exclude : UpTo(2, MCPatterns)]

Character == [c \in {"a", "A", "b", "_", "1"} |->
    CASE c = "A" -> [key |-> "a", class |-> "upper"] [] c = "_" -> [key |-> "_", class |-> "other"]
      [] c = "1" -> [key |-> "1", class |-> "digit"] [] OTHER -> [key |-> c, class |-> "lower"]]
MCSearchedNames == {[i \in DOMAIN w |-> Character[w[i]]] : w \in UpTo(4, DOMAIN Character)}
MCSearches == UpTo(3, {"a", "b"})

----------------------------------------------------------------------------
(* Texts.                                                                     *)

Piece(part, tokens) == [part |-> part, tokens |-> tokens]
MCLexemes ==
    {Piece("code", <<"x">>), Piece("code", <<"*">>), Piece("code", <<NewLine>>),
     Piece("literal", <<"\"", "/", "/", "\"">>), Piece("literal", <<"\"", "/", "*", "\"">>),
     Piece("literal", <<"\"", "\\", "\"", "'", "\"">>), Piece("literal", <<"\"", "\\", "\\", "\"">>),
     Piece("literal", <<"'", "\"", "'">>),
     Piece("comment", <<"/", "*", "\"", "*", "/">>), Piece("comment", <<"/", "*", "*", "/">>),
     Piece("comment", <<"/", "*", "/", "x", "*", "/">>), Piece("comment", <<"/", "*", NewLine, "*", "/">>),
     Piece("comment", <<"/", "/", "'", NewLine>>), Piece("comment", <<"/", "/", "/", "*", NewLine>>)}
Tokens(pieces) == FlattenSeq([n \in DOMAIN pieces |-> pieces[n].tokens])
LexedText(pieces) ==
    LET End(n) == Len(Tokens(SubSeq(pieces, 1, n)))
    IN [text |-> Tokens(pieces),
        lexemes |-> [n \in DOMAIN pieces |->
                       [first |-> End(n - 1) + 1, last |-> End(n), part |-> pieces[n].part]]]
\* The last line of a text may have no end.
MCTexts ==
    {LexedText(p) : p \in UpTo(3, MCLexemes)} \cup
    {LexedText(Append(p, Piece("comment", <<"/", "/", "x">>))) : p \in UpTo(2, MCLexemes)}

Headers == {"plain", "commented", "below", "struct", "long"}
Header(h, name) ==
    <<"int", " ", name>> \o
    CASE h = "plain" -> <<"(", "x", ")", " ", "{">>
      [] h = "commented" -> <<"(", ")", "/", "*", "{", "*", "/", "{">>
      [] h = "below" -> <<"(", "x", ")", NewLine, "{">>
      [] h = "struct" -> <<"(", "{", "x", ";", "}", "x", ")", "{">>
      [] h = "long" -> <<NewLine, NewLine, NewLine, "(", "x", ")", "{">>
CallX == <<"x", "(", ")", ";", NewLine>>
QuotedBrace == <<"'", "{", "'", ";", NewLine>>
BodyPieces ==
    {<<"{", "x", "}", NewLine>>, QuotedBrace, <<"/", "*", "}", NewLine, "}", "*", "/", NewLine>>,
     <<"/", "/", "}", NewLine>>, <<"\"", "\\", "\"", "(", "\"", ";", NewLine>>}
FnText(h, name, body) == Header(h, name) \o <<NewLine>> \o FlattenSeq(body) \o CallX \o <<"}", NewLine>>

\* A function f, then nothing, a prototype or a function g, then a call at file scope.
MCSourceInputs == [header : Headers, body : UpTo(2, BodyPieces), then : Headers \cup {"", "prototype"}]
MCSourceText(s) ==
    LET f == FnText(s.header, "f", s.body)
        g == CASE s.then = "" -> << >>
               [] s.then = "prototype" -> <<"int", " ", "g", "(", "x", ")", ";", NewLine>>
               [] OTHER -> FnText(s.then, "g", <<CallX>>)
        LinesIn(tokens) == Len(SelectSeq(tokens, LAMBDA c : c = NewLine))
        FunctionAt(name, h, before, tokens) ==
            [name |-> name, first |-> LinesIn(before) + 1, last |-> LinesIn(before \o tokens),
             near |-> h # "long", plain |-> h \in {"plain", "commented"}]
    IN [text |-> f \o g \o CallX,
        anchors |-> {3} \cup IF s.then \in Headers THEN {Len(f) + 3} ELSE {},
        functions |-> {FunctionAt("f", s.header, << >>, f)} \cup
                      IF s.then \in Headers THEN {FunctionAt("g", s.then, f, g)} ELSE {},
        bracesQuoted |-> Contains(s.body, QuotedBrace)]

Tok(tokens) == [n \in DOMAIN tokens |-> Piece("code", <<tokens[n]>>)]
MCArguments ==
    {<< >>, Tok(<<"x">>), Tok(<<" ", "f", "(", "x", ",", "x", ")">>), Tok(<<"[", ",", "]">>),
     Tok(<<"{", "x", ",", "}">>), <<Piece("literal", <<"\"", ",", "\\", "\"", ")", "\"">>)>>,
     <<Piece("literal", <<"'", "(", "'">>)>>}
MCCallTexts ==
    {LET list == FlattenSeq([i \in DOMAIN a |-> IF i = 1 THEN a[i] ELSE Tok(<<",">>) \o a[i]])
         rest == IF closed THEN Tok(<<" ", ")", ",", "(", ")">>) ELSE << >>
         t == LexedText(Tok(<<" ", "(">>) \o list \o rest)
     IN [text |-> t.text, lexemes |-> t.lexemes, open |-> 2] :
        a \in UpTo(3, MCArguments), closed \in BOOLEAN}
=============================================================================
