------------------------------ MODULE Exclusion ------------------------------
(* indexer/exclusionEngine.ts and extension.ts isExcluded: which files of the  *)
(* workspace the index leaves out. A pattern is known by the path forms it     *)
(* matches; what a glob matches is not modelled.                               *)
EXTENDS Sequences, FiniteSets, Integers

CONSTANTS
    Paths,          \* files that may exist in the workspace
    Patterns,       \* glob patterns of the settings
    FormsIn,        \* FormsIn[p]: for each workspace folder that contains p, the
                    \* forms <<relative path, folder name / relative path>>
    Matches         \* Matches[g]: the forms that pattern g matches
ASSUME ExclusionAssumption ==
    /\ IsFiniteSet(Paths)
    /\ DOMAIN FormsIn = Paths
    /\ DOMAIN Matches = Patterns

NoSettings == [include |-> << >>, exclude |-> << >>]

\* setIncludeExclude: the excludes first, then the includes, negated.
RulesOf(s) ==
    [i \in 1..Len(s.exclude) |-> [pattern |-> s.exclude[i], negated |-> FALSE]] \o
    [i \in 1..Len(s.include) |-> [pattern |-> s.include[i], negated |-> TRUE]]

\* isExcludedForPathForms: a rule that matches any form decides, the last wins; so
\* an exclude matches, and no include after it.
Decides(rule, forms) == Matches[rule.pattern] \cap forms # {}
IsExcludedForPathForms(rules, forms) ==
    \E i \in DOMAIN rules :
        /\ Decides(rules[i], forms) /\ ~rules[i].negated
        /\ \A j \in DOMAIN rules : j > i /\ Decides(rules[j], forms) => ~rules[j].negated

\* isExcludedInFolder. The mutant asks about each form separately, the composition
\* the comment of isExcludedForPathForms warns of.
IsExcludedInFolder_PerForm(rules, forms) ==
    \E f \in {forms[1], forms[2]} : IsExcludedForPathForms(rules, {f})
IsExcludedInFolder(rules, forms) == IsExcludedForPathForms(rules, {forms[1], forms[2]})

\* extension.ts isExcluded: some folder that contains the file excludes it.
IsExcluded(rules, p) == \E forms \in FormsIn[p] : IsExcludedInFolder(rules, forms)

\* What the settings promise: a file is left out when, in some folder it is in, an
\* exclude matches it and no include does, however the two write its path.
LeftOut(s, p) ==
    \E forms \in FormsIn[p] :
        LET Hit(g) == \E form \in {forms[1], forms[2]} : form \in Matches[g]
        IN  /\ \E i \in DOMAIN s.exclude : Hit(s.exclude[i])
            /\ ~\E i \in DOMAIN s.include : Hit(s.include[i])
=============================================================================
