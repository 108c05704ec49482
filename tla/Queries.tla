------------------------------ MODULE Queries ------------------------------
(* Questions to the pure parts of the program: those of Lookup, navigation     *)
(* over the tables of small programs, and what is read off a text without a    *)
(* parser. The properties compare the answer of the code with what the program *)
(* says in C.                                                                  *)
EXTENDS Lookup, Extraction, Lexical

CONSTANTS
    FieldInputs, FieldProgram(_),   \* programs with several structs that have a field head
    NameInputs, NameProgram(_),     \* programs with several symbols of one name
    SourceInputs, SourceText(_)     \* texts with functions

\* A program is the trees of some files and the rows of files scanned by grep.
Database(program) ==
    Join([i \in DOMAIN program.files |->
            Extract(program.files[i].file, program.files[i].items)] \o <<program.grep>>)

AskFields == Unasked /\ \E i \in FieldInputs :
    LET p == FieldProgram(i)
    IN Ask([ask |-> "fields", occurrences |-> p.occurrences, objects |-> p.objects], Database(p))
AskNames == Unasked /\ \E i \in NameInputs :
    LET p == NameProgram(i) IN Ask([ask |-> "names", occurrences |-> p.occurrences], Database(p))

AskSource == Unasked /\ \E i \in SourceInputs :
    LET s == SourceText(i)
    IN Ask([ask |-> "source", text |-> s.text, anchors |-> s.anchors, functions |-> s.functions,
            bracesQuoted |-> s.bracesQuoted], NoRows)
Next == LookupNext \/ AskNames \/ AskSource \/ AskFields

Spec == Init /\ [][Next]_vars

----------------------------------------------------------------------------
(* Fields. An occurrence of head is [cursor, decl: the line it is declared at, *)
(* type: the name of the type of its object, or of the aggregate it is         *)
(* declared in, typed: whether some row says the type of the object: grep      *)
(* knows no object, and a global or a prototype under an #if or behind an      *)
(* include guard has no row (extract.ts:883-886)].                             *)

Lines(rows) == {rows[i].line : i \in DOMAIN rows}
References(c) == Lines(ResolveReferences(db, c))
Definitions(c) == Lines(ResolveDefinition(db, c).hits)

\* Two names of one struct, neither of which is an alias of the other.
Siblings(a, b) ==
    /\ a \notin ToSet(CandidateTags(db, b))
    /\ b \notin ToSet(CandidateTags(db, a))

\* suffixTags takes two names for one that differ in a suffix _s, _e, _u or _t only.
SuffixKin(a, b) ==
    LET Same(t, u) == \E hop \in ToSet(Hops(db.aliases, t)) : Contains(SuffixTags(hop), u)
    IN Same(a, b) \/ Same(b, a)

\* `Best-effort, never hides a real reference' (symbolResolve.ts): References keeps
\* every occurrence of the field under the cursor, wherever its object is declared
\* and whatever the indexer could tell from one file; two typedefs of one struct
\* that name each other nowhere are known to be missed.
FindsOwnReferences ==
    question.ask = "fields" => \A c \in question.occurrences :
        LET found == References(c.cursor) IN \A o \in question.occurrences :
            o.decl = c.decl => \/ o.cursor.line \in found
                               \/ Siblings(o.type, c.type)

\* The sentence as it stands.
NoReferenceHidden ==
    question.ask = "fields" => \A c \in question.occurrences :
        LET found == References(c.cursor) IN \A o \in question.occurrences :
            o.decl = c.decl => o.cursor.line \in found

\* `obj->head no longer lists every head field across the codebase': no reference to
\* the field of another struct, when rows say the types of both objects, but for
\* structs whose names differ in their suffix only.
OnlyOwnReferences ==
    question.ask = "fields" => \A c \in question.occurrences :
        LET found == References(c.cursor) IN \A o \in question.occurrences :
            c.typed /\ o.typed /\ o.cursor.line \in found =>
                o.decl = c.decl \/ SuffixKin(o.type, c.type)

\* F12 on a field goes to its declaration, and nowhere else when a row says the type
\* of the object: the owner found in one file and the one found in all tables agree with C.
DefinitionOfField ==
    question.ask = "fields" => \A c \in question.occurrences :
        LET found == Definitions(c.cursor)
        IN c.decl \in found /\ (c.typed => found = {c.decl})

\* The Type row of the object jumps to the struct that declares its fields, through
\* any chain of typedefs; to the typedef for an anonymous struct; nowhere for one
\* without any name, and for an object that has no row (typeInfo.ts).
TypeRowOfObject ==
    question.ask = "fields" => \A o \in question.objects :
        Lines(ResolveTypeInfo(db, o.cursor)) = o.struct

----------------------------------------------------------------------------
(* Names. An occurrence is [cursor, space: the name space its token is in,     *)
(* entity: what C binds it to, decls: where F12 has to go, tail].              *)

\* A token resolves in its own name space and scope (refRole.ts): F12 goes to what C
\* binds it to, or nowhere when that has no row because it is under an #if or behind
\* an include guard (extract.ts:883-886), and References lists exactly the occurrences bound to the
\* same thing, but for rows of the grep scanner, that know no role.
NameSpaces ==
    question.ask = "names" => \A c \in question.occurrences :
        LET found == References(c.cursor)
        IN c.space # "unknown" =>
             /\ Definitions(c.cursor) = c.decls
             /\ \A o \in question.occurrences : o.space # "unknown" =>
                   (o.cursor.line \in found <=> o.entity = c.entity)

\* The tail of a function the parser cut off is given back to it: F12 and References
\* answer there as in its body (enclosingFunc.ts).
TailKeepsScope ==
    question.ask = "names" => \A c, o \in question.occurrences :
        c.tail /\ ~o.tail /\ c.entity = o.entity =>
            /\ Definitions(c.cursor) = Definitions(o.cursor)
            /\ References(c.cursor) = References(o.cursor)

----------------------------------------------------------------------------
(* Texts. A function of a text is [name, first, last: its lines, near: its     *)
(* brace comes soon enough, plain: its header is one line that grep matches].  *)

\* The range of a function is that of its braces, whatever stands in its comments,
\* literals and parameters (enclosingFunc.ts).
BodiesFound ==
    question.ask = "source" =>
        BuildFuncRanges(question.text, question.anchors) =
            {[name |-> f.name, first |-> f.first, last |-> f.last] :
               f \in {f \in question.functions : f.near}}

\* In a file scanned by grep a call or a mention belongs to the function around it or
\* to none, and to the function when its header is on one line, unless a literal holds
\* a brace (scanWithRegex).
CallersKnown ==
    question.ask = "source" /\ ~question.bracesQuoted =>
        \A r \in ScanWithRegex(question.text).refs :
            LET around == {f \in question.functions : r.line \in f.first..f.last}
            IN /\ r.func \in {""} \cup {f.name : f \in around}
               /\ \A f \in around : f.plain => r.func = f.name

=============================================================================
