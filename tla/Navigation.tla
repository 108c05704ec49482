----------------------------- MODULE Navigation -----------------------------
(* What F12, References and the rows of Code Insight answer at a position:     *)
(* features/resolve.ts, typeInfo.ts, symbolInfo.ts and callGraph.ts.           *)
(* A cursor is a record of the position and of what its line shows:            *)
(*   file, line, col, word      the identifier                                 *)
(*   textChain, isMemberAccess  the objects before it, root first              *)
(*   isCall, callArity          a call without a member access; arguments      *)
(*   tagKinds                   the kinds the keyword `struct' before it allows *)
(*   guard                      an ALL_CAPS word of a preprocessor line        *)
EXTENDS SymbolResolve

At(db, c) == RefAt(db, c.file, c.word, c.line, c.col)
MemberCtx(ref, c) ==
    [textChain |-> c.textChain, func |-> ref.func, owner |-> ref.owner, chain |-> ref.chain]

----------------------------------------------------------------------------
(* Go to Definition.                                                          *)

\* Definitions, and declarations only when there are none.
ResolveByRole(db, c, ref) ==
    LET member == MemberCtx(ref, c)
        defs == DefinitionsAt(db, c.word, ref.role, c.file, member, FALSE, c.callArity)
        decls == DeclarationsAt(db, c.word, ref.role, c.file, member, FALSE, c.callArity)
    IN PreferHere(OrElse(defs, decls), c.file, c.line)

\* narrowCallTarget: a call reaches no field, unless fields are all there is.
NarrowCallTarget(hits, isCall) ==
    IF isCall THEN OrElse(Where(hits, LAMBDA h : h.kind # "field"), hits) ELSE hits

ResolveByText(db, c) ==
    LET Either(kinds) == OrElse(FindDefinitions(db, c.word, kinds),
                                FindDeclarations(db, c.word, kinds))
        Narrow(hits) ==
            OrElse(Here(hits, c.file, c.line),
                   NarrowByMemberAccess(NarrowCallTarget(hits, c.isCall), c.isMemberAccess))
    IN IF c.tagKinds # {} THEN Either(c.tagKinds)
       ELSE OrElse(Narrow(Either({})), Narrow(FindDeclarations(db, c.word, {})))

\* A value bound to a local resolves to the local; a token with a role of its own by
\* structure; a row of the grep scanner, or none, by the text of the line.
HitsOf(db, c, ref) ==
    OrElse(IF ref.isLocal /\ ref.func # "" THEN FindLocal(db, c.word, c.file, ref.func) ELSE << >>,
           IF ref.source # "grep" /\ IsRefRole(ref.role)
           THEN ResolveByRole(db, c, ref) ELSE ResolveByText(db, c))
Answer(hits, guard) == [hits |-> hits, blocked |-> hits = << >> /\ guard]
ResolveDefinition(db, c) == Answer(HitsOf(db, c, At(db, c)), c.guard)

\* scopeAt and resolveReferences.
ReferencesOf(db, c, ref) ==
    ReferencesAt(db, c.word, ref.role, c.file, MemberCtx(ref, c), ref.isLocal, ref.func)
ResolveReferences(db, c) == ReferencesOf(db, c, At(db, c))

----------------------------------------------------------------------------
(* Code Insight.                                                              *)

AggregateKinds == {"struct", "union", "enum", "class"}

\* The aggregates of the first hop that has any, or else the typedefs on the way.
\* The mutant stops at the first hop.
ResolveTypeDefs_FirstHop(db, tag) ==
    FindDefinitions(db, tag, AggregateKinds \cup {"typedef"})
ResolveTypeDefs(db, tag) ==
    LET hops == CandidateTags(db, tag)
        Defs(t) == FindDefinitions(db, t, AggregateKinds \cup {"typedef"})
        Aggregates(t) == Where(Defs(t), LAMBDA d : d.kind \in AggregateKinds)
        found == Where(hops, LAMBDA t : Aggregates(t) # << >>)
    IN IF found # << >> THEN Aggregates(Head(found))
       ELSE FlattenSeq([i \in DOMAIN hops |-> Defs(hops[i])])

\* The type of the local, or of what F12 would answer; of any variable or field of
\* the name where no row was recorded. Only these have the text of a type.
TypedKinds == {"global_variable", "field", "parameter", "local_variable"}
ResolveTypeInfo(db, c) ==
    LET ref == At(db, c)
        defs == DefinitionsAt(db, c.word, ref.role, c.file, MemberCtx(ref, c),
                              c.isMemberAccess, c.callArity)
        rows == CASE ref.isLocal /\ ref.func # "" -> FindLocal(db, c.word, c.file, ref.func)
                  [] ref # NoRef /\ ~ref.isLocal -> PreferHere(defs, c.file, c.line)
                  [] OTHER -> FindSymbols(db, c.word)
        tag == FirstOr(rows, LAMBDA r : r.kind \in TypedKinds, NoType).dataType
    IN IF tag \in Sites \cup {""} THEN << >> ELSE ResolveTypeDefs(db, tag)

\* resolveSymbolInfo: the symbols its kinds, signature and locations are made of.
SymbolsOf(db, c, ref) ==
    IF ref.isLocal /\ ref.func # "" THEN FindLocal(db, c.word, c.file, ref.func)
    ELSE ResolvedSymbolsAt(db, c.word, ref.role, c.file, c.line, MemberCtx(ref, c),
                           c.isMemberAccess, c.callArity)
ResolveSymbolInfo(db, c) == SymbolsOf(db, c, At(db, c))

----------------------------------------------------------------------------
(* The call graph. "" is the caller at file scope.                            *)

Edge(direction, call) == IF direction = "callees" THEN call.callee ELSE call.caller
Neighbours(db, direction, name) ==
    DedupeBy(IF direction = "callees" THEN FindCallees(db, name) ELSE FindCallers(db, name),
             LAMBDA call : Edge(direction, call))

\* A node is a leaf when its name is among its ancestors, or at file scope. The mutant
\* compares with the parent only.
Recursive_Direct(name, ancestors) == name = "" \/ name = Last(ancestors)
Recursive(name, ancestors) == name = "" \/ Contains(ancestors, name)

CallChildren(db, direction, parent, parentAncestors) ==
    LET ancestors == Append(parentAncestors, parent)
        calls == Neighbours(db, direction, parent)
    IN [i \in DOMAIN calls |->
          LET name == Edge(direction, calls[i])
          IN [name |-> name, ancestors |-> ancestors, recursive |-> Recursive(name, ancestors)]]

\* A local has no calls, whatever functions have its name.
CallRelations(db, direction, name, isLocal) ==
    IF isLocal THEN << >> ELSE CallChildren(db, direction, name, << >>)

\* What Code Insight shows under a node of the tree: relationsView.ts makes a symbol
\* of the node and asks for its relations again.
NodeChildren(db, direction, node) == CallRelations(db, direction, node.name, FALSE)
=============================================================================
