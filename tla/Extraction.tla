----------------------------- MODULE Extraction -----------------------------
(* indexer/extract.ts: from the syntax tree of a C file to its rows. A tree is *)
(* abstracted to the items below; the column tells a type name (0) from the    *)
(* name declared or used on the same line (1).                                 *)
(*   item  [item: "variable", name, type, line, extern, init]  init: expressions *)
(*         [item: "function", name, type, line, last, isDefinition, arity,     *)
(*          variadic, params, body, tail]   tail: what the parser cut off      *)
(*         [item: "typedef", names, type, line], [item: "aggregate", type],    *)
(*         [item: "macro" or "label", name, line], [item: "statement", init]   *)
(*         [item: "group", fileScope, items]   items under an #if or an        *)
(*          include guard, or (fileScope) in a linkage block                   *)
(*   type  [spec: "scalar"], [spec: "named", name, line] (an identifier, or    *)
(*         `struct X'), [spec: "body", name, typedefName, site, line, members] *)
(*   expr  [expr: "name" or "call", name, line], [expr: "deref", base],        *)
(*         [expr: "field", base, name, line], [expr: "cast", type],            *)
(*         [expr: "this"], [expr: "designator", list, before, name, line]      *)
EXTENDS SymbolResolve

Join(parts) == FoldLeft(LAMBDA a, b :
    [symbols |-> a.symbols \o b.symbols, locals |-> a.locals \o b.locals,
     aliases |-> a.aliases \o b.aliases, calls |-> a.calls \o b.calls,
     refs |-> a.refs \o b.refs], NoRows, parts)
Each(seq, Visit(_)) == Join([i \in DOMAIN seq |-> Visit(seq[i])])

----------------------------------------------------------------------------
(* Names of types.                                                            *)

\* The tag, else the name of the typedef it is the type of, else its site.
AggOwnerTag(t) ==
    CASE t.name # "" -> t.name
      [] t.typedefName # "" -> t.typedefName
      [] OTHER -> t.site

\* aggregateTagFromType: "" for a scalar.
AggregateTag(t) ==
    CASE t.spec = "scalar" -> "" [] t.spec = "named" -> t.name [] OTHER -> AggOwnerTag(t)

\* typedefTargetName: a named type only.
TypedefTarget(t) ==
    IF t.spec = "named" \/ (t.spec = "body" /\ AggOwnerTag(t) \notin Sites)
    THEN AggregateTag(t) ELSE ""

\* The members of a nameless anonymous member belong to the aggregate around it.
\* The mutant gives them an owner of their own.
AggMemberOwnerTag_Own(t, ctx) == AggOwnerTag(t)
AggMemberOwnerTag(t, ctx) ==
    IF ctx.agg # "" /\ ctx.nameless /\ t.name = "" THEN ctx.agg ELSE AggOwnerTag(t)

----------------------------------------------------------------------------
(* Object chains.                                                             *)

Object(name) == [marker |-> "", name |-> name]
CastRoot(tag) == IF tag = "" THEN << >> ELSE <<[marker |-> "type", name |-> tag]>>

\* initListBaseChain and designatorObjectChain: a list initialises a declared or
\* cast type, or what the designators of an outer pair name; else it is positional.
RECURSIVE InitListBase(_)
InitListBase(list) ==
    CASE list.of = "type" -> CastRoot(AggregateTag(list.type))
      [] list.of = "pair" ->
            LET outer == InitListBase(list.outer)
            IN IF outer = << >> THEN << >>
               ELSE outer \o [i \in DOMAIN list.path |-> Object(list.path[i])]
      [] OTHER -> << >>

DesignatorObjectChain(e) ==
    LET base == InitListBase(e.list)
    IN IF base = << >> THEN << >> ELSE base \o [i \in DOMAIN e.before |-> Object(e.before[i])]

\* astObjectChain: << >> for a base that has no name and no type.
RECURSIVE ObjectChain(_, _)
ObjectChain(e, agg) ==
    CASE e.expr = "name" -> <<Object(e.name)>>
      [] e.expr = "this" -> CastRoot(agg)
      [] e.expr = "cast" -> CastRoot(AggregateTag(e.type))
      [] e.expr = "call" -> <<[marker |-> "call", name |-> e.name]>>
      [] e.expr = "deref" -> ObjectChain(e.base, agg)
      [] e.expr = "field" ->
            LET base == ObjectChain(e.base, agg)
            IN IF base = << >> THEN << >> ELSE Append(base, Object(e.name))

----------------------------------------------------------------------------
(* The walk.                                                                  *)

\* ctx: the file, the function and the aggregate around, whether the type that is
\* visited is that of a member without a name, and whether the parent of the node is
\* the translation unit, a linkage block or a declaration list.
RefRow(ctx, name, line, col, role, owner, chain) ==
    [NoRows EXCEPT !.refs = <<[name |-> name, file |-> ctx.file, line |-> line, col |-> col,
        role |-> role, func |-> ctx.func, isLocal |-> FALSE, owner |-> owner,
        chain |-> chain, walkedIn |-> ctx.func, source |-> "ts"]>>]

SymbolRow(ctx, name, kind, line, isDefinition, scope, type) ==
    [name |-> name, kind |-> kind, file |-> ctx.file, line |-> line,
     isDefinition |-> isDefinition, scope |-> scope, dataType |-> AggregateTag(type),
     returnType |-> "", arity |-> NoArity, variadic |-> FALSE]
MkSym(ctx, name, kind, line, isDefinition, scope, type) ==
    [NoRows EXCEPT !.symbols = <<SymbolRow(ctx, name, kind, line, isDefinition, scope, type)>>]
MkLocal(ctx, name, kind, line, type) ==
    [NoRows EXCEPT !.locals = <<[name |-> name, kind |-> kind, file |-> ctx.file, line |-> line,
                                 func |-> ctx.func, dataType |-> AggregateTag(type)]>>]
Scalar == [spec |-> "scalar"]
\* declaredTypeText.
TypeText(t) == IF t.spec = "scalar" THEN Primitive ELSE AggregateTag(t)

RECURSIVE VisitType(_, _), VisitField(_, _)
\* struct_specifier: a body owns the members in it.
VisitType(t, ctx) ==
    CASE t.spec = "scalar" -> NoRows
      [] t.spec = "named" -> RefRow(ctx, t.name, t.line, 0, "type", "", << >>)
      [] OTHER ->
            LET inner == [ctx EXCEPT !.agg = AggMemberOwnerTag(t, ctx)]
                tag == IF t.name = "" THEN NoRows
                       ELSE Join(<<MkSym(ctx, t.name, "struct", t.line, TRUE, "", Scalar),
                                   RefRow(ctx, t.name, t.line, 0, "type", "", << >>)>>)
            IN Join(<<tag, Each(t.members, LAMBDA m : VisitField(m, inner))>>)
\* field_declaration.
VisitField(m, ctx) ==
    LET type == VisitType(m.type, [ctx EXCEPT !.nameless = (m.name = "")])
    IN IF m.name = "" THEN type
       ELSE Join(<<MkSym(ctx, m.name, "field", m.line, TRUE, ctx.agg, m.type), type,
                   RefRow(ctx, m.name, m.line, 1, "field", ctx.agg, << >>)>>)

RECURSIVE VisitExpr(_, _)
VisitExpr(e, ctx) ==
    CASE e.expr = "name" -> RefRow(ctx, e.name, e.line, 1, "value", "", << >>)
      [] e.expr = "this" -> NoRows
      [] e.expr = "call" ->
            [RefRow(ctx, e.name, e.line, 1, "value", "", << >>) EXCEPT
                !.calls = <<[caller |-> ctx.func, callee |-> e.name, file |-> ctx.file,
                             line |-> e.line]>>]
      [] e.expr = "cast" -> VisitType(e.type, ctx)
      [] e.expr = "deref" -> VisitExpr(e.base, ctx)
      [] e.expr = "field" ->
            Join(<<VisitExpr(e.base, ctx),
                   RefRow(ctx, e.name, e.line, 1, "field", "", ObjectChain(e.base, ctx.agg))>>)
      [] e.expr = "designator" ->
            RefRow(ctx, e.name, e.line, 1, "field", "", DesignatorObjectChain(e))

\* handleDeclaration: a global at file scope, a local in a function, and neither
\* under an #if outside of functions.
VisitVariable(d, ctx) ==
    Join(<<CASE ctx.fileScope -> MkSym(ctx, d.name, "global_variable", d.line, ~d.extern, "", d.type)
             [] ~ctx.fileScope /\ ctx.func # "" -> MkLocal(ctx, d.name, "local_variable", d.line, d.type)
             [] OTHER -> NoRows,
           VisitType(d.type, ctx),
           RefRow(ctx, d.name, d.line, 1, "value", "", << >>),
           Each(d.init, LAMBDA e : VisitExpr(e, ctx))>>)

\* type_definition: an alias for each name that is not the type's own.
VisitTypedef(d, ctx) ==
    LET target == TypedefTarget(d.type)
        Alias(n) == Join(<<MkSym(ctx, n, "typedef", d.line, TRUE, "", Scalar),
                           RefRow(ctx, n, d.line, 1, "type", "", << >>),
                           IF target \in {"", n} THEN NoRows
                           ELSE [NoRows EXCEPT !.aliases = <<[name |-> n, target |-> target]>>]>>)
    IN Join(<<Each(d.names, Alias), VisitType(d.type, ctx)>>)

RECURSIVE VisitItem(_, _)
\* function_definition, anywhere, and prototypes, at file scope only. The tail is
\* parsed as top-level statements.
VisitFunction(d, ctx) ==
    LET inner == IF d.isDefinition THEN [ctx EXCEPT !.func = d.name, !.fileScope = FALSE] ELSE ctx
        row == [SymbolRow(ctx, d.name, IF d.isDefinition THEN "function" ELSE "prototype",
                          d.line, d.isDefinition, "", Scalar)
                EXCEPT !.returnType = TypeText(d.type), !.arity = d.arity, !.variadic = d.variadic]
        Param(p) == Join(<<IF inner.func = "" THEN NoRows
                           ELSE MkLocal(inner, p.name, "parameter", p.line, p.type),
                           VisitType(p.type, inner),
                           RefRow(inner, p.name, p.line, 1, "value", "", << >>)>>)
    IN Join(<<IF d.isDefinition \/ ctx.fileScope THEN [NoRows EXCEPT !.symbols = <<row>>] ELSE NoRows,
              VisitType(d.type, inner), RefRow(inner, d.name, d.line, 1, "value", "", << >>),
              Each(d.params, Param), Each(d.body, LAMBDA i : VisitItem(i, inner)),
              Each(d.tail, LAMBDA i : VisitItem(i, ctx))>>)

VisitItem(d, ctx) ==
    CASE d.item = "variable" -> VisitVariable(d, ctx)
      [] d.item = "function" -> VisitFunction(d, ctx)
      [] d.item = "typedef" -> VisitTypedef(d, ctx)
      [] d.item = "aggregate" ->
            IF d.type.spec = "body" \/ ~ctx.fileScope THEN VisitType(d.type, ctx)
            ELSE Join(<<MkSym(ctx, d.type.name, "struct", d.type.line, FALSE, "", Scalar),
                        VisitType(d.type, ctx)>>)
      [] d.item = "group" ->
            Each(d.items, LAMBDA i : VisitItem(i, [ctx EXCEPT !.fileScope = d.fileScope]))
      [] d.item = "label" -> Join(<<MkSym(ctx, d.name, "label", d.line, TRUE, "", Scalar),
                                    RefRow(ctx, d.name, d.line, 1, "label", "", << >>)>>)
      [] d.item = "macro" -> Join(<<MkSym(ctx, d.name, "macro", d.line, TRUE, "", Scalar),
                                    RefRow(ctx, d.name, d.line, 1, "value", "", << >>)>>)
      [] d.item = "statement" -> Each(d.init, LAMBDA e : VisitExpr(e, ctx))

----------------------------------------------------------------------------
(* After the walk.                                                            *)

\* enclosingFunc.ts: the function that starts last among those whose braces are
\* around the line.
EnclosingFuncAt(ranges, line) ==
    LET around == {r \in ranges : r.first <= line /\ line <= r.last}
    IN IF around = {} THEN ""
       ELSE (CHOOSE r \in around : \A s \in around : s.first <= r.first).name

\* Only rows the walk left at file scope. The mutant leaves them there.
Recovered_Never(rows, ranges) == rows
Recovered(rows, ranges) ==
    [rows EXCEPT
        !.calls = [i \in DOMAIN @ |-> IF @[i].caller # "" THEN @[i]
                     ELSE [@[i] EXCEPT !.caller = EnclosingFuncAt(ranges, rows.calls[i].line)]],
        !.refs = [i \in DOMAIN @ |-> IF @[i].func # "" THEN @[i]
                    ELSE [@[i] EXCEPT !.func = EnclosingFuncAt(ranges, rows.refs[i].line)]]]

\* Only a value can bind to a local. The mutant forgets the roles.
BindsToLocal_AnyRole(r, locals) ==
    \E i \in DOMAIN locals : locals[i].func = r.func /\ locals[i].name = r.name
BindsToLocal(r, locals) ==
    r.role = "value" /\ \E i \in DOMAIN locals : locals[i].func = r.func /\ locals[i].name = r.name

\* resolveFieldUseOwners: the chain walked with the rows of this file. Of two aliases
\* of one name the last counts; no suffixes; the function is that of the walk.
SameFileOwner(rows, r) ==
    LET TagsFor(t) == ToSet(Hops(Reverse(rows.aliases), t))
        FieldType(t, hop) == TypeOfFirst(Where(rows.symbols, LAMBDA s :
            s.kind = "field" /\ s.name = hop.name /\ s.scope \in TagsFor(t)))
        root == Head(r.chain)
        RootType ==
            CASE root.marker = "type" -> root.name
              [] root.marker = "call" ->
                    ReturnTag(Where(rows.symbols, LAMBDA s :
                        s.kind \in {"function", "prototype"} /\ s.name = root.name))
              [] OTHER ->
                    TypeOfFirst(Where(rows.locals, LAMBDA l :
                                    l.func = r.walkedIn /\ l.name = root.name) \o
                                Where(rows.symbols, LAMBDA s :
                                    s.kind = "global_variable" /\ s.name = root.name))
    IN FoldLeft(LAMBDA t, hop : IF t = "" THEN "" ELSE FieldType(t, hop), RootType, Tail(r.chain))

\* buildFuncRanges, for the functions of the file.
RECURSIVE FuncRanges(_)
FuncRanges(items) == UNION {LET d == items[i] IN
    CASE d.item = "group" -> FuncRanges(d.items)
      [] d.item = "function" /\ d.isDefinition ->
            {[name |-> d.name, first |-> d.line, last |-> d.last]}
      [] OTHER -> {} : i \in DOMAIN items}

\* extractFromTree.
Extract(file, items) ==
    LET ctx == [file |-> file, func |-> "", agg |-> "", nameless |-> FALSE, fileScope |-> TRUE]
        rows == Recovered(Each(items, LAMBDA i : VisitItem(i, ctx)), FuncRanges(items))
    IN [rows EXCEPT !.refs = [i \in DOMAIN rows.refs |->
           LET r == rows.refs[i]
           IN [r EXCEPT !.isLocal = BindsToLocal(r, rows.locals),
                        !.owner = IF r.chain = << >> THEN @ ELSE SameFileOwner(rows, r)]]]
=============================================================================
