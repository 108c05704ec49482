------------------------------- MODULE Tables -------------------------------
(* store/db.ts: the point queries of navigation and Code Insight. A database   *)
(* is a record of tables, a table the sequence of its rows in the order of a   *)
(* scan. "" is the name that is not there: a NULL or an empty column.          *)
EXTENDS SequencesExt, Integers

NoRows == [symbols |-> << >>, locals |-> << >>, aliases |-> << >>, calls |-> << >>, refs |-> << >>]

\* The items at the positions, in their order. (SelectSeq and folds are left alone where
\* something is proved: the provers know nothing of what they return.)
Take(items, positions) ==
    LET taken[n \in 0..Len(items)] ==
          IF n = 0 THEN << >>
          ELSE IF n \in positions THEN Append(taken[n - 1], items[n]) ELSE taken[n - 1]
    IN taken[Len(items)]

\* WHERE: the rows that pass.
Where(rows, Test(_)) == Take(rows, {i \in DOMAIN rows : Test(rows[i])})

\* dedupeBy: the first of the items that have the same key.
DedupeBy(items, Key(_)) ==
    Take(items, {i \in DOMAIN items : \A j \in 1..(i - 1) : Key(items[j]) # Key(items[i])})

\* The first row that passes, or the default.
FirstOr(rows, Test(_), default) ==
    LET passing == {i \in DOMAIN rows : Test(rows[i])}
    IN IF passing = {} THEN default ELSE rows[Min(passing)]

\* The rows, or the others when there are none.
OrElse(rows, others) == IF rows # << >> THEN rows ELSE others

FindSymbols(db, name) == Where(db.symbols, LAMBDA s : s.name = name)

\* kindFilter: no kinds, no filter.
KindFilter(rows, kinds) ==
    IF kinds = {} THEN rows ELSE Where(rows, LAMBDA s : s.kind \in kinds)

FindDefinitions(db, name, kinds) ==
    KindFilter(Where(FindSymbols(db, name), LAMBDA s : s.isDefinition), kinds)
FindDeclarations(db, name, kinds) ==
    KindFilter(Where(FindSymbols(db, name), LAMBDA s : ~s.isDefinition), kinds)

\* References that bind to no local. A role keeps its own rows and, but for a field,
\* those of the grep scanner that have none.
FindReferences(db, name, role) ==
    Where(db.refs, LAMBDA r :
        /\ r.name = name /\ ~r.isLocal
        /\ role # "" => r.role = role \/ (role # "field" /\ r.role = ""))

FindLocalReferences(db, name, file, func) ==
    Where(db.refs, LAMBDA r :
        r.name = name /\ r.file = file /\ r.func = func /\ r.isLocal)

FindLocal(db, name, file, func) ==
    Where(db.locals, LAMBDA l : l.name = name /\ l.file = file /\ l.func = func)

FindCallers(db, name) == Where(db.calls, LAMBDA c : c.callee = name)
FindCallees(db, name) == Where(db.calls, LAMBDA c : c.caller = name)

NoRef == [name |-> "", file |-> "", line |-> 0, col |-> 0, role |-> "", func |-> "",
          isLocal |-> FALSE, owner |-> "", chain |-> << >>, source |-> ""]

\* The row of the identifier at a position, NoRef when none was recorded.
RefAt(db, file, name, line, col) ==
    FirstOr(db.refs, LAMBDA r : /\ r.file = file /\ r.name = name
                                /\ r.line = line /\ r.col = col, NoRef)

\* LIMIT 1: the first row of the name.
FindTypedefTarget(aliases, name) ==
    FirstOr(aliases, LAMBDA a : a.name = name, [name |-> "", target |-> ""]).target
=============================================================================
