---------------------------- MODULE SymbolResolve ----------------------------
(* features/symbolResolve.ts, typeChain.ts and core/refRole.ts: which symbols  *)
(* and which references the identifier under the cursor stands for. The        *)
(* operators are the functions of the code, on the tables as they are.         *)
(* A chain `a->b.head' is the sequence of the objects before the field; its    *)
(* root may be a marker, for a cast or for the result of a call.               *)
EXTENDS Tables

CONSTANTS
    SuffixTags(_),  \* suffixTags: x_ and one letter may stand for x_s, x_e, x_u or x
    Sites           \* synthetic tags `@anon:file:row:col', one for each anonymous body

RoleKinds ==
    [value     |-> {"function", "prototype", "global_variable", "enumerator", "method", "macro"},
     type      |-> {"struct", "union", "enum", "class", "typedef", "macro"},
     field     |-> {"field", "macro"},
     label     |-> {"label"},
     namespace |-> {"namespace", "class", "macro"}]
IsRefRole(role) == role \in DOMAIN RoleKinds
KindsForRole(role) == IF IsRefRole(role) THEN RoleKinds[role] ELSE {}

----------------------------------------------------------------------------
(* Typedef chains.                                                            *)

\* The name and each name it is an alias of, until one comes again.
Hops(aliases, name) ==
    LET After(hops) == IF hops = << >> THEN name ELSE FindTypedefTarget(aliases, Last(hops))
        walk[n \in 0..(Len(aliases) + 1)] ==
          IF n = 0 THEN << >>
          ELSE LET hops == walk[n - 1]
               IN IF After(hops) = "" \/ Contains(hops, After(hops)) THEN hops
                  ELSE Append(hops, After(hops))
    IN walk[Len(aliases) + 1]

WithSuffixTags(hops) ==
    DedupeBy(hops \o FlattenSeq([i \in DOMAIN hops |-> SuffixTags(hops[i])]), LAMBDA t : t)
CandidateTags(db, typeName) == WithSuffixTags(Hops(db.aliases, typeName))

----------------------------------------------------------------------------
(* Owners of fields.                                                          *)

\* The fields of the first candidate tag that has any; "" has no candidates.
FieldsOf(fields, tag) == Where(fields, LAMBDA f : tag # "" /\ f.scope = tag)
FieldsOfType(db, fields, typeName) ==
    FieldsOf(fields, FirstOr(CandidateTags(db, typeName),
                             LAMBDA t : \E i \in DOMAIN fields : fields[i].scope = t, ""))

NoType == [dataType |-> ""]
TypeOfFirst(rows) == FirstOr(rows, LAMBDA r : r.dataType # "", NoType).dataType

FieldTypeOf(db, fieldName, ownerType) ==
    TypeOfFirst(FieldsOfType(db, FindDefinitions(db, fieldName, {"field"}), ownerType))

\* A parameter or local of the function shadows a global.
ObjectTypeName(db, object, file, func) ==
    TypeOfFirst(FindLocal(db, object, file, func) \o
                FindDefinitions(db, object, {"global_variable"}))

\* The row of a function keeps the text of its return type, "" when grep found the
\* function; aggregateTagFromTypeText finds no tag in the text of a scalar type. The
\* first function that has a text decides.
Primitive == "int"
NoFunction == [returnType |-> Primitive]
ReturnTag(fns) ==
    LET text == FirstOr(fns, LAMBDA s : s.returnType # "", NoFunction).returnType
    IN IF text = Primitive THEN "" ELSE text
RootChainType(db, root, file, func) ==
    CASE root.marker = "type" -> root.name
      [] root.marker = "call" ->
            LET fns == {"function", "prototype"} IN
            ReturnTag(FindDefinitions(db, root.name, fns) \o FindDeclarations(db, root.name, fns))
      [] OTHER -> ObjectTypeName(db, root.name, file, func)

\* "" for no chain, or when a hop breaks.
ChainOwner(db, chain, file, func) ==
    IF chain = << >> THEN ""
    ELSE FoldLeft(LAMBDA t, hop : IF t = "" THEN "" ELSE FieldTypeOf(db, hop.name, t),
                  RootChainType(db, Head(chain), file, func), Tail(chain))

\* The chain of the ref row, or the one read off the text of the line.
NarrowFieldsByType(db, fields, member, file) ==
    LET textChain == IF member.func = "" THEN << >> ELSE member.textChain
        owner == ChainOwner(db, OrElse(member.chain, textChain), file, member.func)
    IN IF Len(fields) <= 1 THEN fields ELSE OrElse(FieldsOfType(db, fields, owner), fields)

MemberKinds == {"field", "member"}

\* narrowByMemberAccess: a member access reaches members and macros only; any
\* other use prefers the rest, but never hides the only kind.
NarrowByMemberAccess(hits, isMemberAccess) ==
    IF isMemberAccess THEN Where(hits, LAMBDA h : h.kind \in MemberKinds \cup {"macro"})
    ELSE OrElse(Where(hits, LAMBDA h : h.kind \notin MemberKinds), hits)

NarrowForMember(db, hits, role, member, file, isMemberAccess) ==
    IF role = "field"
    THEN OrElse(FieldsOfType(db, hits, member.owner), NarrowFieldsByType(db, hits, member, file))
    ELSE IF ~IsRefRole(role) /\ isMemberAccess THEN NarrowByMemberAccess(hits, TRUE)
    ELSE hits

----------------------------------------------------------------------------
(* Calls.                                                                     *)

FunctionKinds == {"function", "prototype", "method"}
NoArity == -1       \* unknown: of the call, or of the function

\* The mutant takes a variadic function for one with fixed parameters.
ArityMatches_NotVariadic(h, n) == h.arity = NoArity \/ n = h.arity
ArityMatches(h, n) ==
    h.arity = NoArity \/ IF h.variadic THEN n >= h.arity ELSE n = h.arity

\* Functions that cannot take the arguments are left out, unless none can.
NarrowByArity(hits, n) ==
    LET fns == Where(hits, LAMBDA h : h.kind \in FunctionKinds)
        matched == Where(fns, LAMBDA h : ArityMatches(h, n))
    IN IF n = NoArity \/ Len(fns) <= 1 \/ matched = << >> \/ matched = fns THEN hits
       ELSE matched \o Where(hits, LAMBDA h : h.kind \notin FunctionKinds)

----------------------------------------------------------------------------
(* Definitions, declarations and references.                                  *)

DefinitionsAt(db, name, role, file, member, isMemberAccess, n) ==
    NarrowByArity(NarrowForMember(db, FindDefinitions(db, name, KindsForRole(role)),
                                  role, member, file, isMemberAccess), n)
DeclarationsAt(db, name, role, file, member, isMemberAccess, n) ==
    NarrowByArity(NarrowForMember(db, FindDeclarations(db, name, KindsForRole(role)),
                                  role, member, file, isMemberAccess), n)

\* selfAt and the filters that follow it: the hits at the position itself.
Here(hits, file, line) == Where(hits, LAMBDA h : h.file = file /\ h.line = line)
PreferHere(hits, file, line) == OrElse(Here(hits, file, line), hits)

\* Definitions and declarations. The mutant drops the declarations.
ResolvedSymbolsAt_Definitions(db, name, role, file, line, member, isMemberAccess, n) ==
    PreferHere(DefinitionsAt(db, name, role, file, member, isMemberAccess, n), file, line)
ResolvedSymbolsAt(db, name, role, file, line, member, isMemberAccess, n) ==
    PreferHere(DefinitionsAt(db, name, role, file, member, isMemberAccess, n) \o
               DeclarationsAt(db, name, role, file, member, isMemberAccess, n), file, line)

\* The owner found by the indexer, or else the one its chain has in the full tables;
\* the memo of the code only saves work. The mutant trusts the indexer alone.
EffectiveRefOwner_Indexed(db, r) == r.owner
EffectiveRefOwner(db, r) ==
    IF r.owner # "" THEN r.owner ELSE ChainOwner(db, r.chain, r.file, r.func)

\* The owner known, or else the one scope that the definitions are in, if it is one.
OwnerOrScope(owner, scopes) ==
    IF owner # "" THEN owner
    ELSE IF \E s \in scopes : scopes = {s} THEN CHOOSE s \in scopes : TRUE ELSE ""
FieldOwnerTarget(db, name, file, member) ==
    OwnerOrScope(EffectiveRefOwner(db, [owner |-> member.owner, chain |-> member.chain,
                                        file |-> file, func |-> member.func]),
                 {d.scope : d \in ToSet(DefinitionsAt(db, name, "field", file, member,
                                                     TRUE, NoArity))} \ {""})

\* The mutant follows the typedefs of one side only.
OwnerMatches_OneWay(db, owner, target) == Contains(CandidateTags(db, owner), target)
OwnerMatches(db, owner, target) ==
    \/ owner = target
    \/ Contains(CandidateTags(db, owner), target)
    \/ Contains(CandidateTags(db, target), owner)

\* References at a position: of a local, its own; of a field, those whose owner is
\* unknown or bridged to that of the cursor.
MayBeOf(db, owner, target) == "" \in {owner, target} \/ OwnerMatches(db, owner, target)
OwnedRefs(db, refs, target) ==
    Where(refs, LAMBDA r : MayBeOf(db, EffectiveRefOwner(db, r), target))
ReferencesAt(db, name, role, file, member, isLocal, func) ==
    LET refs == FindReferences(db, name, IF IsRefRole(role) THEN role ELSE "")
    IN IF isLocal /\ func # "" THEN FindLocalReferences(db, name, file, func)
       ELSE IF role # "field" THEN refs
       ELSE OwnedRefs(db, refs, FieldOwnerTarget(db, name, file, member))
=============================================================================
