----------------------------- MODULE FuzzyMatch -----------------------------
(* store/fuzzyMatch.ts and searchSymbolNames: the F10 search. A name is a      *)
(* sequence of characters [key, class]; the key is the lower-case letter, on   *)
(* which patterns match, the class "lower", "upper", "digit" or "other".       *)
EXTENDS Integers, SequencesExt

ScoreMatch == 16
BonusBoundary == 8
BonusCamel == 7
BonusConsecutive == 6
NoScore == << >>        \* null; a score is the sequence of it alone

CharBonus(text, j) ==
    IF j = 1 \/ text[j - 1].class = "other" THEN BonusBoundary
    ELSE IF \/ text[j - 1].class = "lower" /\ text[j].class = "upper"
            \/ text[j - 1].class # "digit" /\ text[j].class = "digit"
         THEN BonusCamel ELSE 0

\* GAP_START, then GAP_EXTENSION for each further character.
GapPenalty(len) == IF len <= 0 THEN 0 ELSE -3 - (len - 1)

\* What it adds to match the character at j when the one before was matched at k.
Step(text, k, j) ==
    ScoreMatch + IF k = j - 1 THEN Max({CharBonus(text, j), BonusConsecutive})
                 ELSE GapPenalty(j - 1 - k) + CharBonus(text, j)

FirstScore(text, j) == ScoreMatch + 2 * CharBonus(text, j) + GapPenalty(j - 1)

\* Row i of the table: for each j where the i-th character of the pattern can be matched
\* after those before it, the best score; the others stay at -Infinity and are left out.
\* The mutant extends only the nearest earlier match.
Earlier(row, j) == {k \in DOMAIN row : k < j}
BestBefore_Nearest(row, text, j) ==
    row[Max(Earlier(row, j))] + Step(text, Max(Earlier(row, j)), j)
BestBefore(row, text, j) == Max({row[k] + Step(text, k, j) : k \in Earlier(row, j)})

Rows(pattern, text) ==
    LET row[i \in 1..Len(pattern)] ==
          IF i = 1
          THEN [j \in {j \in DOMAIN text : text[j].key = pattern[1]} |-> FirstScore(text, j)]
          ELSE [j \in {j \in DOMAIN text : text[j].key = pattern[i] /\ Earlier(row[i - 1], j) # {}} |->
                  BestBefore(row[i - 1], text, j)]
    IN row

\* fuzzyMatch.
Score(pattern, text) ==
    IF pattern = << >> THEN <<0>>
    ELSE IF Len(pattern) > Len(text) THEN NoScore
    ELSE LET row == Rows(pattern, text)[Len(pattern)]
         IN IF DOMAIN row = {} THEN NoScore ELSE <<Max({row[j] : j \in DOMAIN row})>>

Keys(text) == [i \in DOMAIN text |-> text[i].key]

\* The LIKE pattern %c1%c2%...%, which selects the names SQLite hands to the ranking: each
\* character has a place after some place of the one before.
IsSubsequence(pattern, keys) ==
    LET places[i \in 0..Len(pattern)] ==
          IF i = 0 THEN {0}
          ELSE {j \in DOMAIN keys : keys[j] = pattern[i] /\ \E k \in places[i - 1] : k < j}
    IN places[Len(pattern)] # {}
=============================================================================
