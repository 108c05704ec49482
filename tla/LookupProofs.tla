---------------------------- MODULE LookupProofs ----------------------------
(* What is proved of Lookup. Its answers are computed by recursive functions   *)
(* on sequences: the induction they need is on sets of numbers, from the fact  *)
(* that < is well-founded, with the statement in the comprehension of the set. *)
EXTENDS Lookup, FiniteSetTheorems, WellFoundedInduction, TLAPS

----------------------------------------------------------------------------
(* Numbers.                                                                   *)

\* A set of numbers has a least element.
LEMMA NatMin ==
  ASSUME NEW S \in SUBSET Nat, S # {}
  PROVE  \E n \in S : \A m \in S : n <= m
<1>1. IsWellFoundedOn(OpToRel(<, Nat), Nat)
  BY NatLessThanWellFounded
<1>2. PICK n \in S : \A m \in S : ~(<<m, n>> \in OpToRel(<, Nat))
  BY <1>1, WFMin
<1>3. \A m \in S : m < n <=> <<m, n>> \in OpToRel(<, Nat)
  BY DEF OpToRel
<1>4. \A m \in S : ~(m < n)
  BY <1>2, <1>3, Zenon
<1> QED BY <1>4

\* Induction: a set of numbers that has 0, and with each number the next, has all.
LEMMA Induct ==
  ASSUME NEW S \in SUBSET Nat, 0 \in S, \A n \in S : n + 1 \in S
  PROVE  S = Nat
<1> SUFFICES ASSUME S # Nat PROVE FALSE
  OBVIOUS
<1>1. Nat \ S \in SUBSET Nat /\ Nat \ S # {}
  OBVIOUS
<1>2. PICK n \in Nat \ S : \A m \in Nat \ S : n <= m
  BY <1>1, NatMin
<1>3. n # 0 /\ n - 1 \in Nat /\ ~(n <= n - 1)
  BY <1>2
<1>4. n - 1 \in S
  BY <1>2, <1>3
<1> QED BY <1>2, <1>3, <1>4

\* A bounded set of numbers has a greatest element.
LEMMA BoundedMax ==
  ASSUME NEW S \in SUBSET Int, S # {}, NEW b \in Int, \A m \in S : m <= b
  PROVE  \E n \in S : \A m \in S : m <= n
<1> DEFINE D == {b - m : m \in S}
<1>1. \A m \in S : m \in Int /\ b - m \in Nat /\ b - m \in D
  OBVIOUS
<1>2. D \in SUBSET Nat /\ D # {}
  BY <1>1
<1>3. PICK d \in D : \A e \in D : d <= e
  BY <1>2, NatMin
<1>4. PICK n \in S : d = b - n
  BY <1>3
<1> HIDE DEF D
<1>5. \A m \in S : b - n <= b - m
  BY <1>1, <1>3, <1>4
<1>6. \A m \in S : m <= n
  BY <1>1, <1>5
<1> QED BY <1>6

\* g is the function on a .. n that starts with x and goes from i - 1 to i by F[i].
Iterates(a, n, x, F, g) ==
    (a <= n => g[a] = x) /\ \A i \in (a + 1)..n : g[i] = F[i][g[i - 1]]

LEMMA Recursion ==
  ASSUME NEW a \in Int, NEW n \in Int, NEW T, NEW x \in T, NEW F \in [(a + 1)..n -> [T -> T]]
  PROVE  \E g \in [a..n -> T] : Iterates(a, n, x, F, g)
<1> DEFINE S == {m \in Nat : a + m <= n + 1 =>
                    \E g \in [a..(a + m - 1) -> T] : Iterates(a, a + m - 1, x, F, g)}
<1>1. 0 \in S
  <2> DEFINE e == [i \in a..(a - 1) |-> x]
  <2>1. e \in [a..(a + 0 - 1) -> T] /\ Iterates(a, a + 0 - 1, x, F, e)
    BY DEF Iterates
  <2> QED BY <2>1
<1>2. ASSUME NEW m \in S PROVE m + 1 \in S
  <2> SUFFICES ASSUME a + m + 1 <= n + 1
               PROVE  \E g \in [a..(a + m) -> T] : Iterates(a, a + m, x, F, g)
    OBVIOUS
  <2>1. PICK g \in [a..(a + m - 1) -> T] : Iterates(a, a + m - 1, x, F, g)
    OBVIOUS
  <2> DEFINE h == [i \in a..(a + m) |->
                     IF i < a + m THEN g[i] ELSE IF m = 0 THEN x ELSE F[a + m][g[a + m - 1]]]
  <2>2. m # 0 => F[a + m] \in [T -> T] /\ g[a + m - 1] \in T
    OBVIOUS
  <2>3. h \in [a..(a + m) -> T]
    BY <2>2
  <2>4. a <= a + m => h[a] = x
    BY <2>1 DEF Iterates
  <2>5. ASSUME NEW i \in (a + 1)..(a + m) PROVE h[i] = F[i][h[i - 1]]
    <3>1. CASE i = a + m
      <4>1. m # 0 /\ i - 1 = a + m - 1 /\ h[i - 1] = g[a + m - 1]
        BY <3>1
      <4>2. h[i] = F[a + m][g[a + m - 1]]
        BY <3>1, <4>1
      <4> HIDE DEF h
      <4> QED BY <3>1, <4>1, <4>2
    <3>2. CASE i < a + m
      BY <2>1, <3>2 DEF Iterates
    <3> QED BY <3>1, <3>2
  <2> HIDE DEF h
  <2>6. Iterates(a, a + m, x, F, h)
    BY <2>4, <2>5 DEF Iterates
  <2> QED BY <2>3, <2>6
<1>3. S = Nat
  BY <1>1, <1>2, Induct
<1>4. CASE a <= n + 1
  <2> DEFINE m == n + 1 - a
  <2>1. m \in Nat /\ a + m <= n + 1 /\ a + m - 1 = n
    BY <1>4
  <2>2. m \in S
    BY <1>3, <2>1
  <2> HIDE DEF m
  <2>3. \E g \in [a..(a + m - 1) -> T] : Iterates(a, a + m - 1, x, F, g)
    BY <2>1, <2>2
  <2> QED BY <2>1, <2>3
<1>5. CASE ~(a <= n + 1)
  <2> DEFINE e == [i \in a..n |-> x]
  <2>1. e \in [a..n -> T] /\ Iterates(a, n, x, F, e)
    BY <1>5 DEF Iterates
  <2> QED BY <2>1
<1> QED BY <1>4, <1>5

\* Induction on a range.
LEMMA RangeInduct ==
  ASSUME NEW a \in Int, NEW n \in Int, NEW S,
         a <= n => a \in S, \A i \in (a + 1)..n : i - 1 \in S => i \in S
  PROVE  a..n \subseteq S
<1> DEFINE R == {m \in Nat : a + m <= n => a + m \in S}
<1>1. 0 \in R
  OBVIOUS
<1>2. ASSUME NEW m \in R PROVE m + 1 \in R
  <2> SUFFICES ASSUME a + m + 1 <= n PROVE a + m + 1 \in S
    OBVIOUS
  <2>1. PICK i \in (a + 1)..n : i = a + m + 1 /\ i - 1 = a + m
    OBVIOUS
  <2> QED BY <2>1
<1>3. R = Nat
  BY <1>1, <1>2, Induct
<1>4. ASSUME NEW i \in a..n PROVE i \in S
  <2>1. i - a \in Nat /\ a + (i - a) = i /\ i <= n
    OBVIOUS
  <2>2. i - a \in R
    BY <1>3, <2>1
  <2> QED BY <2>1, <2>2
<1> QED BY <1>4

----------------------------------------------------------------------------
(* Sequences of rows.                                                         *)

LEMMA AppendSet ==
  ASSUME NEW T, NEW s \in Seq(T), NEW e \in T
  PROVE  Append(s, e) \in Seq(T) /\ ToSet(Append(s, e)) = ToSet(s) \cup {e}
<1>1. Append(s, e) \in Seq(T) /\ DOMAIN s = 1..Len(s) /\ Len(s) \in Nat
  OBVIOUS
<1>2. DOMAIN Append(s, e) = DOMAIN s \cup {Len(s) + 1}
  BY <1>1
<1>3. /\ \A i \in DOMAIN s : Append(s, e)[i] = s[i]
      /\ Append(s, e)[Len(s) + 1] = e
  BY <1>1
<1> QED BY <1>1, <1>2, <1>3 DEF ToSet

\* The function that Take builds from n items, and its steps.
Builds(items, I, n, g) ==
    g = [k \in 0..n |-> IF k = 0 THEN << >>
                        ELSE IF k \in I THEN Append(g[k - 1], items[k]) ELSE g[k - 1]]
Grows(items, I, n, g) ==
    /\ g[0] = << >>
    /\ \A k \in 1..n : /\ k \in I => g[k] = Append(g[k - 1], items[k])
                       /\ k \notin I => g[k] = g[k - 1]

LEMMA BuildsGrows ==
  ASSUME NEW n \in Nat, NEW T, NEW items, \A i \in 1..n : items[i] \in T, NEW I,
         NEW g, Builds(items, I, n, g)
  PROVE  g \in [0..n -> Seq(T)] /\ Grows(items, I, n, g)
<1> DEFINE App(k, s) == Append(s, items[k])
<1>1. << >> \in Seq(T) /\ \A k \in 1..n : \A s \in Seq(T) : App(k, s) \in Seq(T)
  OBVIOUS
<1>2. g = [k \in 0..n |-> IF k = 0 THEN << >>
                          ELSE IF k \in I THEN App(k, g[k - 1]) ELSE g[k - 1]]
  BY Zenon DEF Builds
<1> HIDE DEF App
<1>3. g[0] = << >> /\ \A k \in 1..n : /\ k \in I => g[k] = App(k, g[k - 1])
                                      /\ k \notin I => g[k] = g[k - 1]
  BY <1>2
<1> DEFINE S == {m \in Nat : m <= n => g[m] \in Seq(T)}
<1>4. 0 \in S
  BY <1>1, <1>3
<1>5. ASSUME NEW m \in S PROVE m + 1 \in S
  <2> SUFFICES ASSUME m + 1 <= n PROVE g[m + 1] \in Seq(T)
    OBVIOUS
  <2>1. m \in Nat /\ g[m] \in Seq(T) /\ m + 1 \in 1..n
    OBVIOUS
  <2>2. App(m + 1, g[m]) \in Seq(T)
    BY <1>1, <2>1
  <2> HIDE DEF S
  <2>3. PICK k \in 1..n : k = m + 1 /\ k - 1 = m
    BY <2>1
  <2>4. g[k] = App(k, g[k - 1]) \/ g[k] = g[k - 1]
    BY <1>3, Zenon
  <2> QED BY <2>1, <2>2, <2>3, <2>4
<1>6. S = Nat
  BY <1>4, <1>5, Induct
<1>7. \A k \in 0..n : g[k] \in Seq(T)
  BY <1>6
<1>8. g \in [0..n -> Seq(T)]
  BY <1>2, <1>7
<1>9. Grows(items, I, n, g)
  BY <1>3, Zenon DEF Grows, App
<1> QED BY <1>8, <1>9

LEMMA BuildsExists ==
  ASSUME NEW n \in Nat, NEW T, NEW items, \A i \in 1..n : items[i] \in T, NEW I
  PROVE  \E g : Builds(items, I, n, g)
<1> DEFINE App(k, s) == Append(s, items[k])
           F == [k \in (0 + 1)..n |-> [s \in Seq(T) |-> IF k \in I THEN App(k, s) ELSE s]]
<1>1. \A k \in 1..n : \A s \in Seq(T) : App(k, s) \in Seq(T)
  OBVIOUS
<1> HIDE DEF App
<1>2. 0 \in Int /\ n \in Int /\ << >> \in Seq(T) /\ F \in [(0 + 1)..n -> [Seq(T) -> Seq(T)]]
  BY <1>1
<1>3. \A k \in 1..n : \A s \in Seq(T) : F[k][s] = IF k \in I THEN App(k, s) ELSE s
  OBVIOUS
<1> HIDE DEF F
<1>4. PICK h \in [0..n -> Seq(T)] : Iterates(0, n, << >>, F, h)
  BY <1>2, Recursion
<1>5. h[0] = << >> /\ \A k \in 1..n : h[k] = F[k][h[k - 1]]
  BY <1>4 DEF Iterates
<1>6. ASSUME NEW k \in 1..n PROVE h[k] = IF k \in I THEN App(k, h[k - 1]) ELSE h[k - 1]
  <2>1. h[k - 1] \in Seq(T)
    BY <1>4
  <2> QED BY <1>3, <1>5, <2>1
<1>7. h = [k \in 0..n |-> IF k = 0 THEN << >>
                          ELSE IF k \in I THEN App(k, h[k - 1]) ELSE h[k - 1]]
  BY <1>4, <1>5, <1>6
<1>8. Builds(items, I, n, h)
  BY <1>7, Zenon DEF App, Builds
<1> QED BY <1>8

LEMMA TakeGrows ==
  ASSUME NEW T, NEW items \in Seq(T), NEW I
  PROVE  \E g \in [0..Len(items) -> Seq(T)] :
            Take(items, I) = g[Len(items)] /\ Grows(items, I, Len(items), g)
<1> DEFINE taken == CHOOSE g : Builds(items, I, Len(items), g)
<1>1. Take(items, I) = taken[Len(items)]
  BY DEF Take, Builds
<1>2. Len(items) \in Nat /\ \A i \in 1..Len(items) : items[i] \in T
  OBVIOUS
<1>3. \E g : Builds(items, I, Len(items), g)
  BY <1>2, BuildsExists
<1>4. Builds(items, I, Len(items), taken)
  BY <1>3, Zenon
<1> HIDE DEF taken
<1>5. taken \in [0..Len(items) -> Seq(T)] /\ Grows(items, I, Len(items), taken)
  BY <1>2, <1>4, BuildsGrows
<1> QED BY <1>1, <1>5

\* Take keeps the items at the positions and no others.
LEMMA Taken ==
  ASSUME NEW T, NEW items \in Seq(T), NEW I
  PROVE  /\ Take(items, I) \in Seq(T)
         /\ ToSet(Take(items, I)) = {items[i] : i \in I \cap DOMAIN items}
<1>1. PICK n \in Nat : n = Len(items) /\ DOMAIN items = 1..n /\ \A i \in 1..n : items[i] \in T
  OBVIOUS
<1>2. PICK g \in [0..n -> Seq(T)] : Take(items, I) = g[n] /\ Grows(items, I, n, g)
  BY <1>1, TakeGrows
<1> DEFINE Kept(m) == {items[i] : i \in I \cap 1..m}
           S == {m \in Nat : m <= n => ToSet(g[m]) = Kept(m)}
<1>3. 0 \in S
  <2>1. g[0] = << >>
    BY <1>2 DEF Grows
  <2> QED BY <2>1 DEF ToSet
<1>4. ASSUME NEW m \in S PROVE m + 1 \in S
  <2> SUFFICES ASSUME m + 1 <= n PROVE ToSet(g[m + 1]) = Kept(m + 1)
    OBVIOUS
  <2>1. ToSet(g[m]) = Kept(m)
    OBVIOUS
  <2>2. /\ m \in Nat /\ g[m] \in Seq(T) /\ m + 1 \in 1..n /\ items[m + 1] \in T /\ m + 1 - 1 = m
    BY <1>1
  <2>3. /\ m + 1 \in I => g[m + 1] = Append(g[m], items[m + 1])
        /\ m + 1 \notin I => g[m + 1] = g[m]
    <3>1. PICK k \in 1..n : k = m + 1 /\ k - 1 = m
      BY <2>2
    <3>2. /\ k \in I => g[k] = Append(g[k - 1], items[k])
          /\ k \notin I => g[k] = g[k - 1]
      BY <1>2, Zenon DEF Grows
    <3> QED BY <3>1, <3>2, Zenon
  <2> HIDE DEF S
  <2>4. CASE m + 1 \in I
    <3>1. ToSet(Append(g[m], items[m + 1])) = ToSet(g[m]) \cup {items[m + 1]}
      BY <2>2, AppendSet
    <3>2. ToSet(g[m + 1]) = ToSet(g[m]) \cup {items[m + 1]}
      BY <2>3, <2>4, <3>1, Zenon
    <3>3. I \cap 1..(m + 1) = (I \cap 1..m) \cup {m + 1}
      BY <2>2, <2>4
    <3>4. Kept(m + 1) = Kept(m) \cup {items[m + 1]}
      BY <3>3
    <3> QED BY <2>1, <3>2, <3>4
  <2>5. CASE m + 1 \notin I
    <3>1. I \cap 1..(m + 1) = I \cap 1..m
      BY <2>2, <2>5
    <3> QED BY <2>1, <2>3, <2>5, <3>1
  <2> QED BY <2>4, <2>5
<1>5. S = Nat
  BY <1>3, <1>4, Induct
<1>6. n \in S
  BY <1>5
<1>7. ToSet(g[n]) = Kept(n) /\ g[n] \in Seq(T)
  BY <1>6
<1> QED BY <1>1, <1>2, <1>7

\* A sequence is empty when its set is.
LEMMA EmptySet ==
  ASSUME NEW T, NEW s \in Seq(T)
  PROVE  s = << >> <=> ToSet(s) = {}
<1>1. s = << >> => DOMAIN s = {}
  OBVIOUS
<1>2. s # << >> => 1 \in DOMAIN s
  OBVIOUS
<1> QED BY <1>1, <1>2 DEF ToSet

LEMMA ConcatSet ==
  ASSUME NEW T, NEW s \in Seq(T), NEW t \in Seq(T)
  PROVE  s \o t \in Seq(T) /\ ToSet(s \o t) = ToSet(s) \cup ToSet(t)
<1>1. /\ s \o t \in Seq(T) /\ Len(s) \in Nat /\ Len(t) \in Nat
      /\ DOMAIN s = 1..Len(s) /\ DOMAIN t = 1..Len(t) /\ DOMAIN (s \o t) = 1..(Len(s) + Len(t))
  OBVIOUS
<1>2. /\ \A i \in 1..Len(s) : i \in DOMAIN (s \o t) /\ (s \o t)[i] = s[i]
      /\ \A i \in 1..Len(t) : i + Len(s) \in DOMAIN (s \o t) /\ (s \o t)[i + Len(s)] = t[i]
  BY <1>1
<1>3. \A i \in DOMAIN (s \o t) :
         (s \o t)[i] = IF i \in 1..Len(s) THEN s[i] ELSE t[i - Len(s)]
  BY <1>1
<1>4. ToSet(s \o t) \subseteq ToSet(s) \cup ToSet(t)
  BY <1>1, <1>3 DEF ToSet
<1>5. ToSet(s) \subseteq ToSet(s \o t) /\ ToSet(t) \subseteq ToSet(s \o t)
  BY <1>1, <1>2 DEF ToSet
<1> QED BY <1>1, <1>4, <1>5


----------------------------------------------------------------------------
(* Queries of the tables. A table is a sequence of rows.                      *)

IsTable(rows) == rows \in Seq(ToSet(rows))

LEMMA TakenTable ==
  ASSUME NEW rows, IsTable(rows), NEW I
  PROVE  /\ IsTable(Take(rows, I))
         /\ ToSet(Take(rows, I)) = {rows[i] : i \in I \cap DOMAIN rows}
<1>1. /\ Take(rows, I) \in Seq(ToSet(rows))
      /\ ToSet(Take(rows, I)) = {rows[i] : i \in I \cap DOMAIN rows}
  BY Taken DEF IsTable
<1> DEFINE t == Take(rows, I)
<1> HIDE DEF t
<1>2. t \in Seq(ToSet(rows)) => t \in Seq(ToSet(t))
  BY DEF ToSet
<1> QED BY <1>1, <1>2 DEF t, IsTable

\* A table is empty when it has no row.
LEMMA EmptyTable ==
  ASSUME NEW rows, IsTable(rows)
  PROVE  rows = << >> <=> ToSet(rows) = {}
BY EmptySet DEF IsTable

LEMMA TwoTables ==
  ASSUME NEW s, IsTable(s), NEW t, IsTable(t)
  PROVE  IsTable(s \o t) /\ ToSet(s \o t) = ToSet(s) \cup ToSet(t)
<1> DEFINE T == ToSet(s) \cup ToSet(t)
<1>1. s \in Seq(T) /\ t \in Seq(T)
  BY DEF IsTable
<1> HIDE DEF T
<1>2. s \o t \in Seq(T) /\ ToSet(s \o t) = ToSet(s) \cup ToSet(t)
  BY <1>1, ConcatSet
<1> QED BY <1>2 DEF T, IsTable


\* RefAt answers a row of the table, or NoRef.
LEMMA RefFound ==
  ASSUME NEW d, IsTable(d.refs), NEW file, NEW name, NEW line, NEW col
  PROVE  RefAt(d, file, name, line, col) \in ToSet(d.refs) \cup {NoRef}
<1> DEFINE P(r) == r.file = file /\ r.name = name /\ r.line = line /\ r.col = col
           passing == {i \in DOMAIN d.refs : P(d.refs[i])}
<1>1. RefAt(d, file, name, line, col) = IF passing = {} THEN NoRef ELSE d.refs[Min(passing)]
  BY DEF RefAt, FirstOr
<1>2. passing \in SUBSET Nat
  BY DEF IsTable
<1>3. ASSUME passing # {} PROVE Min(passing) \in passing
  <2>1. \E i \in passing : \A j \in passing : i <= j
    BY <1>2, <1>3, NatMin
  <2> HIDE DEF passing
  <2> QED BY <2>1 DEF Min
<1>4. \A i \in passing : d.refs[i] \in ToSet(d.refs)
  BY DEF ToSet
<1> HIDE DEF passing
<1> QED BY <1>1, <1>3, <1>4

\* The symbols of a name.
Named(d, name) == {s \in ToSet(d.symbols) : s.name = name}

LEMMA SymbolsFound ==
  ASSUME NEW d, IsTable(d.symbols), NEW name
  PROVE  IsTable(FindSymbols(d, name)) /\ ToSet(FindSymbols(d, name)) = Named(d, name)
<1> DEFINE I == {i \in DOMAIN d.symbols : d.symbols[i].name = name}
<1>1. FindSymbols(d, name) = Take(d.symbols, I)
  BY DEF FindSymbols, Where
<1>2. {d.symbols[i] : i \in I \cap DOMAIN d.symbols} = Named(d, name)
  BY DEF Named, ToSet
<1> HIDE DEF I
<1> QED BY <1>1, <1>2, TakenTable

LEMMA KindsFiltered ==
  ASSUME NEW rows, IsTable(rows), NEW kinds
  PROVE  /\ IsTable(KindFilter(rows, kinds))
         /\ ToSet(KindFilter(rows, kinds)) = {s \in ToSet(rows) : kinds # {} => s.kind \in kinds}
<1> DEFINE I == {i \in DOMAIN rows : rows[i].kind \in kinds}
<1>1. KindFilter(rows, kinds) = IF kinds = {} THEN rows ELSE Take(rows, I)
  BY DEF KindFilter, Where
<1>2. {rows[i] : i \in I \cap DOMAIN rows} = {s \in ToSet(rows) : s.kind \in kinds}
  BY DEF ToSet
<1> HIDE DEF I
<1>3. IsTable(Take(rows, I)) /\ ToSet(Take(rows, I)) = {s \in ToSet(rows) : s.kind \in kinds}
  BY <1>2, TakenTable
<1> QED BY <1>1, <1>3

\* FindDefinitions and FindDeclarations: the symbols of the name, by kind.
LEMMA DefinitionsFound ==
  ASSUME NEW d, IsTable(d.symbols), NEW name, NEW kinds
  PROVE  /\ IsTable(FindDefinitions(d, name, kinds))
         /\ ToSet(FindDefinitions(d, name, kinds)) =
               {s \in Named(d, name) : s.isDefinition /\ (kinds # {} => s.kind \in kinds)}
<1> DEFINE rows == FindSymbols(d, name)
           I == {i \in DOMAIN rows : rows[i].isDefinition}
<1>1. FindDefinitions(d, name, kinds) = KindFilter(Take(rows, I), kinds)
  BY DEF FindDefinitions, Where
<1>2. {rows[i] : i \in I \cap DOMAIN rows} = {s \in ToSet(rows) : s.isDefinition}
  BY DEF ToSet
<1>3. IsTable(rows) /\ ToSet(rows) = Named(d, name)
  BY SymbolsFound
<1> HIDE DEF I, rows
<1>4. IsTable(Take(rows, I)) /\ ToSet(Take(rows, I)) = {s \in Named(d, name) : s.isDefinition}
  BY <1>2, <1>3, TakenTable
<1>5. /\ IsTable(KindFilter(Take(rows, I), kinds))
      /\ ToSet(KindFilter(Take(rows, I), kinds)) =
            {s \in ToSet(Take(rows, I)) : kinds # {} => s.kind \in kinds}
  BY <1>4, KindsFiltered
<1> QED BY <1>1, <1>4, <1>5

LEMMA DeclarationsFound ==
  ASSUME NEW d, IsTable(d.symbols), NEW name, NEW kinds
  PROVE  /\ IsTable(FindDeclarations(d, name, kinds))
         /\ ToSet(FindDeclarations(d, name, kinds)) =
               {s \in Named(d, name) : ~s.isDefinition /\ (kinds # {} => s.kind \in kinds)}
<1> DEFINE rows == FindSymbols(d, name)
           I == {i \in DOMAIN rows : ~rows[i].isDefinition}
<1>1. FindDeclarations(d, name, kinds) = KindFilter(Take(rows, I), kinds)
  BY DEF FindDeclarations, Where
<1>2. {rows[i] : i \in I \cap DOMAIN rows} = {s \in ToSet(rows) : ~s.isDefinition}
  BY DEF ToSet
<1>3. IsTable(rows) /\ ToSet(rows) = Named(d, name)
  BY SymbolsFound
<1> HIDE DEF I, rows
<1>4. IsTable(Take(rows, I)) /\ ToSet(Take(rows, I)) = {s \in Named(d, name) : ~s.isDefinition}
  BY <1>2, <1>3, TakenTable
<1>5. /\ IsTable(KindFilter(Take(rows, I), kinds))
      /\ ToSet(KindFilter(Take(rows, I), kinds)) =
            {s \in ToSet(Take(rows, I)) : kinds # {} => s.kind \in kinds}
  BY <1>4, KindsFiltered
<1> QED BY <1>1, <1>4, <1>5

\* The hits on a line, and those preferred to the others.
OnLine(hits, file, line) == {h \in ToSet(hits) : h.file = file /\ h.line = line}

LEMMA HitsHere ==
  ASSUME NEW hits, IsTable(hits), NEW file, NEW line
  PROVE  /\ IsTable(Here(hits, file, line))
         /\ ToSet(Here(hits, file, line)) = OnLine(hits, file, line)
<1> DEFINE I == {i \in DOMAIN hits : hits[i].file = file /\ hits[i].line = line}
<1>1. Here(hits, file, line) = Take(hits, I)
  BY DEF Here, Where
<1>2. {hits[i] : i \in I \cap DOMAIN hits} = OnLine(hits, file, line)
  BY DEF ToSet, OnLine
<1> HIDE DEF I
<1> QED BY <1>1, <1>2, TakenTable

LEMMA OrElseTable ==
  ASSUME NEW rows, IsTable(rows), NEW others, IsTable(others)
  PROVE  /\ IsTable(OrElse(rows, others))
         /\ ToSet(OrElse(rows, others)) = IF ToSet(rows) = {} THEN ToSet(others) ELSE ToSet(rows)
BY EmptyTable DEF OrElse

LEMMA Preferred ==
  ASSUME NEW hits, IsTable(hits), NEW file, NEW line
  PROVE  /\ IsTable(PreferHere(hits, file, line))
         /\ ToSet(PreferHere(hits, file, line)) =
               IF OnLine(hits, file, line) = {} THEN ToSet(hits) ELSE OnLine(hits, file, line)
BY HitsHere, OrElseTable DEF PreferHere


----------------------------------------------------------------------------
(* The callee of a call.                                                      *)

\* narrowByArity drops functions only, and none that can take n arguments.
LEMMA ArityNarrows ==
  ASSUME NEW hits, IsTable(hits), \A h \in ToSet(hits) : h.arity \in Int, NEW n \in Int
  PROVE  /\ IsTable(NarrowByArity(hits, n))
         /\ ToSet(NarrowByArity(hits, n)) \subseteq ToSet(hits)
         /\ \A h \in ToSet(hits) : Accepts(h, n) => h \in ToSet(NarrowByArity(hits, n))
         /\ ToSet(hits) # {} => ToSet(NarrowByArity(hits, n)) # {}
<1> DEFINE I == {i \in DOMAIN hits : hits[i].kind \in FunctionKinds}
           fns == Take(hits, I)
           J == {i \in DOMAIN fns : ArityMatches(fns[i], n)}
           matched == Take(fns, J)
           K == {i \in DOMAIN hits : hits[i].kind \notin FunctionKinds}
           others == Take(hits, K)
<1>1. \/ NarrowByArity(hits, n) = hits
      \/ NarrowByArity(hits, n) = matched \o others /\ matched # << >> /\ n # NoArity
  BY DEF NarrowByArity, Where
<1>3. {hits[i] : i \in I \cap DOMAIN hits} = {h \in ToSet(hits) : h.kind \in FunctionKinds}
  BY DEF ToSet
<1>4. {hits[i] : i \in K \cap DOMAIN hits} = {h \in ToSet(hits) : h.kind \notin FunctionKinds}
  BY DEF ToSet
<1> HIDE DEF I, K
<1>5. IsTable(fns) /\ ToSet(fns) = {h \in ToSet(hits) : h.kind \in FunctionKinds}
  BY <1>3, TakenTable
<1>6. IsTable(others) /\ ToSet(others) = {h \in ToSet(hits) : h.kind \notin FunctionKinds}
  BY <1>4, TakenTable
<1> HIDE DEF fns, others
<1>7. {fns[i] : i \in J \cap DOMAIN fns} = {h \in ToSet(fns) : ArityMatches(h, n)}
  BY DEF ToSet
<1> HIDE DEF J
<1>8. IsTable(matched) /\ ToSet(matched) = {h \in ToSet(fns) : ArityMatches(h, n)}
  BY <1>5, <1>7, TakenTable
<1> HIDE DEF matched
<1>9. /\ IsTable(matched \o others)
      /\ ToSet(matched \o others) = ToSet(matched) \cup ToSet(others)
  BY <1>6, <1>8, TwoTables
<1>10. matched # << >> => ToSet(matched) # {}
  BY <1>8, EmptyTable
<1>11. ASSUME NEW h \in ToSet(hits), Accepts(h, n), h.kind \in FunctionKinds, n # NoArity
       PROVE  ArityMatches(h, n)
  <2>1. h.arity \in Int
    OBVIOUS
  <2> QED BY <1>11, <2>1 DEF Accepts, ArityMatches
<1> QED BY <1>1, <1>5, <1>6, <1>8, <1>9, <1>10, <1>11


\* The state after a question about a call: what LookupAssumption says of its tables.
CallAsked ==
    /\ IsTable(db.symbols) /\ IsTable(db.refs) /\ db.locals = << >>
    /\ \A s \in ToSet(db.symbols) : s.arity \in Int
    /\ \A r \in ToSet(db.refs) :
          /\ r.role = "" \/ (IsRefRole(r.role) /\ r.role # "field")
          /\ r.source = "grep" => r.role = ""
          /\ ~r.isLocal
    /\ ~question.cursor.isMemberAccess /\ question.cursor.tagKinds = {}
    /\ question.cursor.callArity \in Int
\* The row under the cursor, or NoRef, has a role that narrows by no member access.
LEMMA RoleAt ==
  ASSUME CallAsked, NEW ref, ref = At(db, question.cursor)
  PROVE  /\ ref.role = "" \/ (IsRefRole(ref.role) /\ ref.role # "field")
         /\ ref.source = "grep" => ref.role = ""
         /\ ~ref.isLocal
         /\ ~IsRefRole("")
<1>1. ref \in ToSet(db.refs) \cup {NoRef}
  BY RefFound DEF CallAsked, At
<1>2. NoRef.role = "" /\ NoRef.source # "grep" /\ ~NoRef.isLocal
  BY DEF NoRef
<1>3. ~IsRefRole("")
  BY DEF IsRefRole, RoleKinds
<1> QED BY <1>1, <1>2, <1>3 DEF CallAsked

\* The definitions and the declarations at a cursor with such a role.
ByKind(role) == IsRefRole(role) /\ role # "field"
OfRole(d, name, role) == {s \in Named(d, name) : s.kind \in KindsForRole(role)}

LEMMA AtRole ==
  ASSUME NEW d, IsTable(d.symbols), \A s \in ToSet(d.symbols) : s.arity \in Int,
         NEW name, NEW role, ByKind(role), NEW file, NEW member, NEW access, NEW n \in Int
  PROVE  LET defs == DefinitionsAt(d, name, role, file, member, access, n)
             decls == DeclarationsAt(d, name, role, file, member, access, n)
             all == OfRole(d, name, role)
         IN /\ IsTable(defs) /\ IsTable(decls)
            /\ \A s \in ToSet(defs) : s \in all /\ s.isDefinition
            /\ \A s \in ToSet(decls) : s \in all /\ ~s.isDefinition
            /\ \A s \in all : s.isDefinition /\ Accepts(s, n) => s \in ToSet(defs)
            /\ \A s \in all : ~s.isDefinition /\ Accepts(s, n) => s \in ToSet(decls)
            /\ (\E s \in all : s.isDefinition) => ToSet(defs) # {}
<1> DEFINE kinds == KindsForRole(role)
           defs == FindDefinitions(d, name, kinds)
           decls == FindDeclarations(d, name, kinds)
           all == {s \in Named(d, name) : s.kind \in kinds}
<1>1. kinds # {}
  BY DEF ByKind, KindsForRole, IsRefRole, RoleKinds
<1>2. /\ DefinitionsAt(d, name, role, file, member, access, n) = NarrowByArity(defs, n)
      /\ DeclarationsAt(d, name, role, file, member, access, n) = NarrowByArity(decls, n)
  BY DEF ByKind, DefinitionsAt, DeclarationsAt, NarrowForMember
<1> HIDE DEF kinds
<1>3. IsTable(defs) /\ ToSet(defs) = {s \in all : s.isDefinition}
  BY <1>1, DefinitionsFound
<1>4. IsTable(decls) /\ ToSet(decls) = {s \in all : ~s.isDefinition}
  BY <1>1, DeclarationsFound
<1>5. \A s \in all : s.arity \in Int
  BY DEF Named
<1> HIDE DEF defs, decls
<1>6. /\ IsTable(NarrowByArity(defs, n))
      /\ ToSet(NarrowByArity(defs, n)) \subseteq ToSet(defs)
      /\ \A h \in ToSet(defs) : Accepts(h, n) => h \in ToSet(NarrowByArity(defs, n))
      /\ ToSet(defs) # {} => ToSet(NarrowByArity(defs, n)) # {}
  BY <1>3, <1>5, ArityNarrows
<1>7. /\ IsTable(NarrowByArity(decls, n))
      /\ ToSet(NarrowByArity(decls, n)) \subseteq ToSet(decls)
      /\ \A h \in ToSet(decls) : Accepts(h, n) => h \in ToSet(NarrowByArity(decls, n))
  BY <1>4, <1>5, ArityNarrows
<1> QED BY <1>2, <1>3, <1>4, <1>6, <1>7 DEF kinds, OfRole


\* resolveByText prefers what is no member, and the hits on the line of the cursor.
LEMMA TextNarrows ==
  ASSUME NEW hits, IsTable(hits), NEW isCall, NEW access, ~access, NEW file, NEW line
  PROVE  LET narrowed == OrElse(Here(hits, file, line),
                                NarrowByMemberAccess(NarrowCallTarget(hits, isCall), access))
         IN
         /\ IsTable(narrowed)
         /\ ToSet(hits) # {} => ToSet(narrowed) # {}
         /\ \A s \in ToSet(hits) : s.kind \notin MemberKinds =>
               \/ s \in ToSet(narrowed)
               \/ \A h \in ToSet(narrowed) : h.file = file /\ h.line = line
<1> DEFINE I == {i \in DOMAIN hits : hits[i].kind # "field"}
           called == IF isCall THEN OrElse(Take(hits, I), hits) ELSE hits
           J == {i \in DOMAIN called : called[i].kind \notin MemberKinds}
           rest == OrElse(Take(called, J), called)
           here == Here(hits, file, line)
<1>1. NarrowByMemberAccess(NarrowCallTarget(hits, isCall), access) = rest
  BY DEF NarrowByMemberAccess, NarrowCallTarget, Where
<1>2. {hits[i] : i \in I \cap DOMAIN hits} = {h \in ToSet(hits) : h.kind # "field"}
  BY DEF ToSet
<1> HIDE DEF I
<1>3. IsTable(Take(hits, I)) /\ ToSet(Take(hits, I)) = {h \in ToSet(hits) : h.kind # "field"}
  BY <1>2, TakenTable
<1>4. /\ IsTable(OrElse(Take(hits, I), hits))
      /\ ToSet(OrElse(Take(hits, I), hits)) =
            IF ToSet(Take(hits, I)) = {} THEN ToSet(hits) ELSE ToSet(Take(hits, I))
  BY <1>3, OrElseTable
<1>5. /\ IsTable(called)
      /\ ToSet(hits) # {} => ToSet(called) # {}
      /\ \A h \in ToSet(hits) : h.kind \notin MemberKinds => h \in ToSet(called)
  BY <1>3, <1>4 DEF MemberKinds
<1> HIDE DEF called
<1>6. {called[i] : i \in J \cap DOMAIN called} = {h \in ToSet(called) : h.kind \notin MemberKinds}
  BY DEF ToSet
<1> HIDE DEF J
<1>7. /\ IsTable(Take(called, J))
      /\ ToSet(Take(called, J)) = {h \in ToSet(called) : h.kind \notin MemberKinds}
  BY <1>5, <1>6, TakenTable
<1>8. /\ IsTable(rest)
      /\ ToSet(rest) = IF ToSet(Take(called, J)) = {} THEN ToSet(called) ELSE ToSet(Take(called, J))
  BY <1>5, <1>7, OrElseTable
<1> HIDE DEF rest
<1>9. IsTable(here) /\ ToSet(here) = {h \in ToSet(hits) : h.file = file /\ h.line = line}
  BY HitsHere DEF OnLine
<1> HIDE DEF here
<1>10. /\ IsTable(OrElse(here, rest))
       /\ ToSet(OrElse(here, rest)) = IF ToSet(here) = {} THEN ToSet(rest) ELSE ToSet(here)
  BY <1>8, <1>9, OrElseTable
<1> QED BY <1>1, <1>5, <1>7, <1>8, <1>9, <1>10 DEF here

\* What F12 finds at the cursor of a call.
LEMMA TextFinds ==
  ASSUME CallAsked
  PROVE  LET c == question.cursor
             defs == {s \in Named(db, c.word) : s.isDefinition}
             hits == ToSet(ResolveByText(db, c))
         IN \A s \in IF defs # {} THEN defs ELSE Named(db, c.word) :
              s.kind \notin MemberKinds =>
                 s \in hits \/ \A h \in hits : h.file = c.file /\ h.line = c.line
<1> DEFINE c == question.cursor
           Narrow(rows) == OrElse(Here(rows, c.file, c.line),
                                  NarrowByMemberAccess(NarrowCallTarget(rows, c.isCall), c.isMemberAccess))
           defs == FindDefinitions(db, c.word, {})
           decls == FindDeclarations(db, c.word, {})
           either == OrElse(defs, decls)
<1>1. IsTable(db.symbols) /\ ~c.isMemberAccess /\ c.tagKinds = {}
  BY DEF CallAsked
<1>2. ResolveByText(db, c) = OrElse(Narrow(either), Narrow(decls))
  BY <1>1 DEF ResolveByText
<1>3. IsTable(defs) /\ ToSet(defs) = {s \in Named(db, c.word) : s.isDefinition}
  BY <1>1, DefinitionsFound
<1>4. IsTable(decls) /\ ToSet(decls) = {s \in Named(db, c.word) : ~s.isDefinition}
  BY <1>1, DeclarationsFound
<1> HIDE DEF defs, decls
<1>5. /\ IsTable(either)
      /\ ToSet(either) = IF ToSet(defs) = {} THEN ToSet(decls) ELSE ToSet(defs)
  BY <1>3, <1>4, OrElseTable
<1> HIDE DEF either
<1>6. /\ IsTable(Narrow(either))
      /\ ToSet(either) # {} => ToSet(Narrow(either)) # {}
      /\ \A s \in ToSet(either) : s.kind \notin MemberKinds =>
            \/ s \in ToSet(Narrow(either))
            \/ \A h \in ToSet(Narrow(either)) : h.file = c.file /\ h.line = c.line
  BY <1>1, <1>5, TextNarrows
<1>7. IsTable(Narrow(decls))
  BY <1>1, <1>4, TextNarrows
<1> HIDE DEF Narrow
<1>8. ToSet(either) # {} => ToSet(ResolveByText(db, c)) = ToSet(Narrow(either))
  BY <1>2, <1>6, <1>7, OrElseTable
<1> QED BY <1>3, <1>4, <1>5, <1>6, <1>8


\* F12 and the Symbol row at the cursor of a call.
LEMMA F12 ==
  ASSUME CallAsked, NEW c, c = question.cursor
  PROVE  LET ref == At(db, c)
             member == MemberCtx(ref, c)
             access == c.isMemberAccess
             defs == DefinitionsAt(db, c.word, ref.role, c.file, member, access, c.callArity)
             decls == DeclarationsAt(db, c.word, ref.role, c.file, member, access, c.callArity)
         IN /\ IsRefRole(ref.role) =>
                  /\ ResolveDefinition(db, c).hits = PreferHere(OrElse(defs, decls), c.file, c.line)
                  /\ ResolveSymbolInfo(db, c) = PreferHere(defs \o decls, c.file, c.line)
            /\ ~IsRefRole(ref.role) => ResolveDefinition(db, c).hits = ResolveByText(db, c)
<1> DEFINE ref == At(db, c)
           member == MemberCtx(ref, c)
           Defs(access) == DefinitionsAt(db, c.word, ref.role, c.file, member, access, c.callArity)
           Decls(access) == DeclarationsAt(db, c.word, ref.role, c.file, member, access, c.callArity)
<1>1. ~ref.isLocal /\ (IsRefRole(ref.role) => ref.role # "field" /\ ref.source # "grep")
  BY RoleAt
<1>2. IsRefRole(ref.role) => /\ Defs(FALSE) = Defs(c.isMemberAccess)
                             /\ Decls(FALSE) = Decls(c.isMemberAccess)
  BY <1>1 DEF DefinitionsAt, DeclarationsAt, NarrowForMember
<1>3. ResolveDefinition(db, c).hits =
         IF ref.source # "grep" /\ IsRefRole(ref.role)
         THEN PreferHere(OrElse(Defs(FALSE), Decls(FALSE)), c.file, c.line)
         ELSE ResolveByText(db, c)
  BY <1>1 DEF ResolveDefinition, Answer, HitsOf, ResolveByRole, OrElse
<1>4. ResolveSymbolInfo(db, c) = ResolvedSymbolsAt(db, c.word, ref.role, c.file, c.line, member,
                                                   c.isMemberAccess, c.callArity)
  BY <1>1 DEF ResolveSymbolInfo, SymbolsOf
<1>5. ResolveSymbolInfo(db, c) =
         PreferHere(Defs(c.isMemberAccess) \o Decls(c.isMemberAccess), c.file, c.line)
  BY <1>4 DEF ResolvedSymbolsAt
<1> HIDE DEF ref, member
<1> QED BY <1>1, <1>2, <1>3, <1>5 DEF ref, member

LEMMA KeepsCallee ==
  ASSUME question.ask = "overloads" => CallAsked
  PROVE  CalleeKept
<1> SUFFICES ASSUME CallAsked PROVE CalleeKept
  BY DEF CalleeKept
<1> DEFINE c == question.cursor
           ref == At(db, c)
           all == {s \in Named(db, c.word) : IsRefRole(ref.role) => s.kind \in KindsForRole(ref.role)}
           hits == ToSet(ResolveDefinition(db, c).hits)
           Base == IF \E s \in all : s.isDefinition THEN {s \in all : s.isDefinition} ELSE all
<1>1. SUFFICES \A s \in Base : s.kind \notin MemberKinds /\ Accepts(s, c.callArity) =>
                  s \in hits \/ \A h \in hits : h.file = c.file /\ h.line = c.line
  <2>1. Candidates(c) = all
    BY DEF Candidates, Named
  <2> QED BY <2>1 DEF CalleeKept
<1>2. CASE IsRefRole(ref.role)
  <2> DEFINE member == MemberCtx(ref, c)
             defs == DefinitionsAt(db, c.word, ref.role, c.file, member, c.isMemberAccess, c.callArity)
             decls == DeclarationsAt(db, c.word, ref.role, c.file, member, c.isMemberAccess, c.callArity)
             found == OrElse(defs, decls)
  <2>1. /\ ByKind(ref.role)
        /\ IsTable(db.symbols) /\ \A s \in ToSet(db.symbols) : s.arity \in Int
        /\ c.callArity \in Int
    BY <1>2, RoleAt DEF CallAsked, ByKind
  <2>2. hits = ToSet(PreferHere(found, c.file, c.line))
    BY <1>2, <2>1, F12
  <2> HIDE DEF all
  <2>3. /\ IsTable(defs) /\ IsTable(decls)
        /\ \A s \in ToSet(defs) : s \in all /\ s.isDefinition
        /\ \A s \in all : s.isDefinition /\ Accepts(s, c.callArity) => s \in ToSet(defs)
        /\ \A s \in all : ~s.isDefinition /\ Accepts(s, c.callArity) => s \in ToSet(decls)
        /\ (\E s \in all : s.isDefinition) => ToSet(defs) # {}
    <3>1. all = OfRole(db, c.word, ref.role)
      BY <1>2 DEF all, OfRole
    <3> QED BY <2>1, <3>1, AtRole
  <2> HIDE DEF defs, decls
  <2>4. IsTable(found) /\ ToSet(found) = IF ToSet(defs) = {} THEN ToSet(decls) ELSE ToSet(defs)
    BY <2>3, OrElseTable
  <2>5. \A s \in Base : Accepts(s, c.callArity) => s \in ToSet(found)
    BY <2>3, <2>4
  <2> HIDE DEF found, Base
  <2>6. hits = IF OnLine(found, c.file, c.line) = {} THEN ToSet(found)
               ELSE OnLine(found, c.file, c.line)
    BY <2>2, <2>4, Preferred
  <2> QED BY <2>5, <2>6 DEF OnLine
<1>3. CASE ~IsRefRole(ref.role)
  <2>1. hits = ToSet(ResolveByText(db, c))
    BY <1>3, F12
  <2>2. all = Named(db, c.word)
    BY <1>3 DEF Named
  <2> QED BY <2>1, <2>2, TextFinds
<1> QED BY <1>2, <1>3

LEMMA SymbolRowKept ==
  ASSUME question.ask = "overloads" => CallAsked
  PROVE  SymbolRowAgrees
<1> DEFINE c == question.cursor
           ref == At(db, c)
           hits == ToSet(ResolveDefinition(db, c).hits)
           row == ToSet(ResolveSymbolInfo(db, c))
<1> SUFFICES ASSUME CallAsked, ref.role # ""
             PROVE  hits \subseteq row \/ (row # {} /\ \A s \in row : s.line = c.line)
  BY DEF SymbolRowAgrees
<1> DEFINE member == MemberCtx(ref, c)
           defs == DefinitionsAt(db, c.word, ref.role, c.file, member, c.isMemberAccess, c.callArity)
           decls == DeclarationsAt(db, c.word, ref.role, c.file, member, c.isMemberAccess, c.callArity)
           Here2(rows) == OnLine(rows, c.file, c.line)
<1>1. /\ IsRefRole(ref.role) /\ ByKind(ref.role)
      /\ IsTable(db.symbols) /\ \A s \in ToSet(db.symbols) : s.arity \in Int
      /\ c.callArity \in Int
  BY RoleAt DEF CallAsked, ByKind
<1>2. hits = ToSet(PreferHere(OrElse(defs, decls), c.file, c.line))
  BY <1>1, F12
<1>3. IsTable(defs) /\ IsTable(decls)
  <2>1. \A role, m : ByKind(role) =>
           /\ IsTable(DefinitionsAt(db, c.word, role, c.file, m, c.isMemberAccess, c.callArity))
           /\ IsTable(DeclarationsAt(db, c.word, role, c.file, m, c.isMemberAccess, c.callArity))
    <3> SUFFICES ASSUME NEW role, NEW m, ByKind(role)
                 PROVE  /\ IsTable(DefinitionsAt(db, c.word, role, c.file, m, c.isMemberAccess, c.callArity))
                        /\ IsTable(DeclarationsAt(db, c.word, role, c.file, m, c.isMemberAccess, c.callArity))
      OBVIOUS
    <3> HIDE DEF c, ref
    <3> QED BY <1>1, AtRole
  <2> QED BY <1>1, <2>1, Zenon
<1>4. row = ToSet(PreferHere(defs \o decls, c.file, c.line))
  BY <1>1, F12
<1> HIDE DEF defs, decls
<1>5. /\ IsTable(OrElse(defs, decls))
      /\ ToSet(OrElse(defs, decls)) = IF ToSet(defs) = {} THEN ToSet(decls) ELSE ToSet(defs)
  BY <1>3, OrElseTable
<1>6. IsTable(defs \o decls) /\ ToSet(defs \o decls) = ToSet(defs) \cup ToSet(decls)
  BY <1>3, TwoTables
<1>7. hits = IF Here2(OrElse(defs, decls)) = {} THEN ToSet(OrElse(defs, decls))
             ELSE Here2(OrElse(defs, decls))
  BY <1>2, <1>5, Preferred
<1>8. row = IF Here2(defs \o decls) = {} THEN ToSet(defs \o decls) ELSE Here2(defs \o decls)
  BY <1>4, <1>6, Preferred
<1> HIDE DEF hits, row
<1> QED BY <1>5, <1>6, <1>7, <1>8 DEF OnLine


----------------------------------------------------------------------------
(* What is asked.                                                             *)

CallsAsked == IsTable(db.calls) /\ \A c \in ToSet(db.calls) : c.callee # ""
ExcludedAsked ==
    question.settings.include \in Seq(Patterns) /\ question.settings.exclude \in Seq(Patterns)
SearchAsked == IsTable(question.pattern) /\ IsTable(question.text)
TextAsked ==
    /\ IsTable(question.text)
    /\ question.lexemes \in Seq([first : Nat, last : Nat, part : STRING])
    /\ Lexed(question.text, question.lexemes)
ListAsked ==
    /\ TextAsked
    /\ question.open \in DOMAIN question.lexemes /\ Item(question.open) = "("
    /\ \A n \in 1..(question.open - 1) : Item(n) = " "
    /\ \A n \in DOMAIN question.lexemes : question.lexemes[n].part # "comment"
AskedInv ==
    /\ question.ask = "overloads" => CallAsked
    /\ question.ask = "calls" => CallsAsked
    /\ question.ask = "excluded" => ExcludedAsked
    /\ question.ask = "search" => SearchAsked
    /\ question.ask = "text" => TextAsked
    /\ question.ask = "arguments" => ListAsked

LEMMA AskedInit == ASSUME Init PROVE AskedInv
BY DEF Init, AskedInv

LEMMA AskedNext == ASSUME AskedInv, [LookupNext]_vars PROVE AskedInv'
<1>1. CASE AskOverloads
  <2>1. PICK rows \in Overloads, site \in CallSites :
           /\ question' = [ask |-> "overloads", cursor |-> site.cursor]
           /\ db' = [NoRows EXCEPT !.symbols = rows, !.refs = site.row]
    BY <1>1 DEF AskOverloads, Ask
  <2>2. db'.symbols = rows /\ db'.refs = site.row /\ db'.locals = << >>
    BY <2>1 DEF NoRows
  <2>3. /\ IsTable(rows) /\ IsTable(site.row)
        /\ \A s \in ToSet(rows) : s.arity \in Int
        /\ \A r \in ToSet(site.row) :
              /\ r.role = "" \/ (IsRefRole(r.role) /\ r.role # "field")
              /\ r.source = "grep" => r.role = ""
              /\ ~r.isLocal
        /\ ~site.cursor.isMemberAccess /\ site.cursor.tagKinds = {}
        /\ site.cursor.callArity \in Int
    BY LookupAssumption DEF ToSet, IsTable
  <2>4. CallAsked'
    BY <2>1, <2>2, <2>3 DEF CallAsked
  <2> QED BY <2>1, <2>4 DEF AskedInv
<1>2. CASE AskCalls
  <2>1. PICK calls \in CallLists, d \in {"callees", "callers"} :
           /\ question' = [ask |-> "calls", direction |-> d]
           /\ db' = [NoRows EXCEPT !.calls = calls]
    BY <1>2 DEF AskCalls, Ask
  <2>2. IsTable(calls) /\ \A c \in ToSet(calls) : c.callee # ""
    BY LookupAssumption DEF ToSet, IsTable
  <2>3. db'.calls = calls
    BY <2>1 DEF NoRows
  <2>4. CallsAsked'
    BY <2>2, <2>3 DEF CallsAsked
  <2> QED BY <2>1, <2>4 DEF AskedInv
<1>3. CASE AskExcluded
  <2>1. PICK s \in Settings, p \in Paths :
           question' = [ask |-> "excluded", settings |-> s, path |-> p]
    BY <1>3 DEF AskExcluded, Ask
  <2>2. s.include \in Seq(Patterns) /\ s.exclude \in Seq(Patterns)
    BY LookupAssumption
  <2>3. ExcludedAsked'
    BY <2>1, <2>2 DEF ExcludedAsked
  <2> QED BY <2>1, <2>3 DEF AskedInv
<1>4. CASE AskSearch
  <2>1. PICK p \in Searches, w \in SearchedNames :
           question' = [ask |-> "search", pattern |-> p, text |-> w]
    BY <1>4 DEF AskSearch, Ask
  <2>2. IsTable(p) /\ IsTable(w)
    BY LookupAssumption DEF IsTable
  <2>3. SearchAsked'
    BY <2>1, <2>2 DEF SearchAsked
  <2> QED BY <2>1, <2>3 DEF AskedInv
<1>5. CASE AskText
  <2>1. PICK t \in Texts : question' = [ask |-> "text", text |-> t.text, lexemes |-> t.lexemes]
    BY <1>5 DEF AskText, Ask
  <2>2. /\ IsTable(t.text) /\ t.lexemes \in Seq([first : Nat, last : Nat, part : STRING])
        /\ Lexed(t.text, t.lexemes)
    BY LookupAssumption DEF IsTable
  <2>3. TextAsked'
    BY <2>1, <2>2 DEF TextAsked
  <2> QED BY <2>1, <2>3 DEF AskedInv
<1>6. CASE AskArguments
  <2>1. PICK t \in CallTexts :
           question' = [ask |-> "arguments", text |-> t.text, lexemes |-> t.lexemes, open |-> t.open]
    BY <1>6 DEF AskArguments, Ask
  <2>2. /\ IsTable(t.text) /\ t.lexemes \in Seq([first : Nat, last : Nat, part : STRING])
        /\ Lexed(t.text, t.lexemes)
        /\ t.open \in DOMAIN t.lexemes /\ ItemOf(t, t.open) = "("
        /\ \A n \in 1..(t.open - 1) : ItemOf(t, n) = " "
        /\ \A n \in DOMAIN t.lexemes : t.lexemes[n].part # "comment"
    BY LookupAssumption DEF IsTable
  <2>3. TextAsked'
    BY <2>1, <2>2 DEF TextAsked
  <2>4. question'.lexemes = t.lexemes /\ question'.open = t.open /\ question'.text = t.text
    BY <2>1
  <2>5. \A n : ItemOf(question', n) = ItemOf(t, n)
    BY <2>4 DEF ItemOf
  <2>6. ListAsked'
    BY <2>2, <2>3, <2>4, <2>5 DEF ListAsked, Item
  <2> QED BY <2>1, <2>6 DEF AskedInv
<1>7. CASE UNCHANGED vars
  BY <1>7 DEF vars, AskedInv, CallAsked, CallsAsked, ExcludedAsked, SearchAsked, TextAsked,
              ListAsked, Item
<1> QED BY <1>1, <1>2, <1>3, <1>4, <1>5, <1>6, <1>7 DEF LookupNext

LEMMA AskedAlways == LookupSpec => []AskedInv
BY AskedInit, AskedNext, PTL DEF LookupSpec

\* F12 on a call loses no function that can take its arguments: narrowing by the line, by
\* members and by arity leaves out only what cannot be meant (symbolResolve.ts, resolve.ts).
THEOREM CalleeAlwaysKept == LookupSpec => []CalleeKept
<1>1. AskedInv => CalleeKept
  BY KeepsCallee DEF AskedInv
<1> QED BY <1>1, AskedAlways, PTL

\* The Symbol row and F12 agree on a token that has a role (symbolInfo.ts).
THEOREM SymbolRowAlwaysAgrees == LookupSpec => []SymbolRowAgrees
<1>1. AskedInv => SymbolRowAgrees
  BY SymbolRowKept DEF AskedInv
<1> QED BY <1>1, AskedAlways, PTL


----------------------------------------------------------------------------
(* Exclusion.                                                                 *)

LEMMA Joined ==
  ASSUME NEW S, NEW a \in Seq(S), NEW b \in Seq(S)
  PROVE  /\ DOMAIN (a \o b) = 1..(Len(a) + Len(b))
         /\ \A j \in 1..Len(a) : (a \o b)[j] = a[j]
         /\ \A j \in 1..Len(b) : (a \o b)[Len(a) + j] = b[j]
OBVIOUS

\* The rules say what the settings promise, for every list of patterns.
LEMMA IncludesDecide ==
  ASSUME NEW s, s.include \in Seq(Patterns), s.exclude \in Seq(Patterns), NEW p
  PROVE  IsExcluded(RulesOf(s), p) <=> LeftOut(s, p)
<1> SUFFICES ASSUME NEW forms \in FormsIn[p]
             PROVE  IsExcludedInFolder(RulesOf(s), forms) <=>
                      /\ \E i \in DOMAIN s.exclude :
                            Matches[s.exclude[i]] \cap {forms[1], forms[2]} # {}
                      /\ ~\E i \in DOMAIN s.include :
                            Matches[s.include[i]] \cap {forms[1], forms[2]} # {}
  BY DEF IsExcluded, LeftOut
<1> DEFINE Rule == [pattern : Patterns, negated : BOOLEAN]
           excludes == [i \in 1..Len(s.exclude) |-> [pattern |-> s.exclude[i], negated |-> FALSE]]
           includes == [i \in 1..Len(s.include) |-> [pattern |-> s.include[i], negated |-> TRUE]]
           m == Len(s.exclude)
           n == Len(s.include)
           list == RulesOf(s)
           Hit(g) == Matches[g] \cap {forms[1], forms[2]} # {}
<1>1. s.include \in Seq(Patterns) /\ s.exclude \in Seq(Patterns)
  OBVIOUS
<1>2. /\ m \in Nat /\ n \in Nat
      /\ DOMAIN s.exclude = 1..m /\ DOMAIN s.include = 1..n
  BY <1>1
<1>3. /\ excludes \in Seq(Rule) /\ Len(excludes) = m
      /\ includes \in Seq(Rule) /\ Len(includes) = n
  BY <1>1
<1>4. list = excludes \o includes
  BY DEF RulesOf
<1>5. /\ DOMAIN list = 1..(m + n)
      /\ \A j \in 1..m : list[j] = excludes[j]
      /\ \A j \in 1..n : list[m + j] = includes[j]
  <2> HIDE DEF excludes, includes, Rule, list, m, n
  <2> QED BY <1>3, <1>4, Joined
<1>6. \A j \in 1..m : list[j].pattern = s.exclude[j] /\ ~list[j].negated
  <2> DEFINE rule(g) == [pattern |-> g, negated |-> FALSE]
  <2>1. \A g : rule(g).pattern = g /\ ~rule(g).negated
    OBVIOUS
  <2>2. \A j \in 1..m : excludes[j] = rule(s.exclude[j])
    OBVIOUS
  <2> HIDE DEF rule, excludes, includes, list, m, n
  <2> QED BY <1>5, <2>1, <2>2
<1>7. \A j \in 1..n : list[m + j].pattern = s.include[j] /\ list[m + j].negated
  <2> DEFINE rule(g) == [pattern |-> g, negated |-> TRUE]
  <2>1. \A g : rule(g).pattern = g /\ rule(g).negated
    OBVIOUS
  <2>2. \A j \in 1..n : includes[j] = rule(s.include[j])
    OBVIOUS
  <2> HIDE DEF rule, excludes, includes, list, m, n
  <2> QED BY <1>5, <2>1, <2>2
<1> HIDE DEF excludes, includes, list, m, n, Hit
<1>8. \A j \in 1..m : Decides(list[j], {forms[1], forms[2]}) <=> Hit(s.exclude[j])
  BY <1>6 DEF Decides, Hit
<1>9. \A j \in 1..n : Decides(list[m + j], {forms[1], forms[2]}) <=> Hit(s.include[j])
  BY <1>7 DEF Decides, Hit
<1>10. ASSUME IsExcludedInFolder(list, forms)
       PROVE  /\ \E i \in 1..m : Hit(s.exclude[i])
              /\ ~\E i \in 1..n : Hit(s.include[i])
  <2>1. PICK i \in 1..(m + n) :
          /\ Decides(list[i], {forms[1], forms[2]}) /\ ~list[i].negated
          /\ \A j \in 1..(m + n) :
               j > i /\ Decides(list[j], {forms[1], forms[2]}) => ~list[j].negated
    BY <1>5, <1>10 DEF IsExcludedInFolder, IsExcludedForPathForms
  <2>2. i \in 1..m
    <3>1. CASE i > m
      <4>1. i - m \in 1..n /\ m + (i - m) = i
        BY <1>2, <2>1, <3>1
      <4> QED BY <1>7, <2>1, <4>1
    <3> QED BY <1>2, <2>1, <3>1
  <2>3. \A k \in 1..n : m + k \in 1..(m + n) /\ m + k > i
    BY <1>2, <2>2
  <2> QED BY <1>7, <1>8, <1>9, <2>1, <2>2, <2>3
<1>11. ASSUME NEW i \in 1..m, Hit(s.exclude[i]),
              ~\E k \in 1..n : Hit(s.include[k])
       PROVE  IsExcludedInFolder(list, forms)
  <2>1. i \in 1..(m + n) /\ Decides(list[i], {forms[1], forms[2]}) /\ ~list[i].negated
    <3>1. i \in 1..(m + n)
      BY <1>2
    <3> QED BY <1>6, <1>8, <1>11, <3>1
  <2>2. ASSUME NEW j \in 1..(m + n), Decides(list[j], {forms[1], forms[2]})
        PROVE  ~list[j].negated
    <3>1. CASE j > m
      <4>1. j - m \in 1..n /\ m + (j - m) = j
        BY <1>2, <3>1
      <4> QED BY <1>9, <1>11, <2>2, <4>1
    <3>2. CASE j <= m
      <4>1. j \in 1..m
        BY <1>2, <3>2
      <4> QED BY <1>6, <4>1
    <3> QED BY <1>2, <3>1, <3>2
  <2> QED BY <1>5, <2>1, <2>2 DEF IsExcludedInFolder, IsExcludedForPathForms
<1> QED BY <1>2, <1>10, <1>11 DEF list, Hit

\* A file is excluded when an exclude matches one of its forms in some folder and no include
\* matches any (exclusionEngine.ts setIncludeExclude, isExcludedForPathForms).
THEOREM IncludesAlwaysWin == LookupSpec => []IncludesWin
<1>1. \A s, p : IsExcluded(RulesOf(s), p) \in BOOLEAN /\ LeftOut(s, p) \in BOOLEAN
  BY DEF IsExcluded, LeftOut
<1>2. ASSUME AskedInv, question.ask = "excluded"
      PROVE  IsExcluded(RulesOf(question.settings), question.path) =
                LeftOut(question.settings, question.path)
  BY <1>1, <1>2, IncludesDecide DEF AskedInv, ExcludedAsked
<1>3. AskedInv => IncludesWin
  BY <1>2 DEF IncludesWin
<1> QED BY <1>3, AskedAlways, PTL

----------------------------------------------------------------------------
(* The call tree.                                                             *)

\* The functions a function calls, or is called by, and the node of one under a parent.
Targets(p) == {f \in Functions : <<p, f>> \in Edges}
Child(p, ancestors, f) ==
    [name |-> f, ancestors |-> Append(ancestors, p),
     recursive |-> Recursive(f, Append(ancestors, p))]

\* Deduplication loses no function.
Firsts(D, rows) ==
    {i \in DOMAIN rows : \A j \in 1..(i - 1) : Edge(D, rows[j]) # Edge(D, rows[i])}

LEMMA Deduped ==
  ASSUME NEW rows, IsTable(rows), NEW D, NEW c \in ToSet(rows)
  PROVE  \E b \in ToSet(Take(rows, Firsts(D, rows))) : Edge(D, b) = Edge(D, c)
<1>1. PICK n \in Nat : DOMAIN rows = 1..n
  BY DEF IsTable
<1> DEFINE same == {i \in 1..n : Edge(D, rows[i]) = Edge(D, c)}
<1>2. same \in SUBSET Nat /\ same # {}
  BY <1>1 DEF ToSet
<1>3. PICK i \in same : \A j \in same : i <= j
  BY <1>2, NatMin
<1>4. \A j \in 1..(i - 1) : j \in 1..n /\ ~(i <= j)
  OBVIOUS
<1>5. \A j \in 1..(i - 1) : Edge(D, rows[j]) # Edge(D, rows[i])
  BY <1>3, <1>4
<1>6. i \in Firsts(D, rows) \cap DOMAIN rows /\ Edge(D, rows[i]) = Edge(D, c)
  BY <1>1, <1>5 DEF Firsts
<1> QED BY <1>6, TakenTable

LEMMA NeighboursFound ==
  ASSUME IsTable(db.calls), NEW p
  PROVE  /\ IsTable(Neighbours(db, question.direction, p))
         /\ {Edge(question.direction, c) : c \in ToSet(Neighbours(db, question.direction, p))} =
               Targets(p)
<1> DEFINE D == question.direction
           J == {i \in DOMAIN db.calls : (IF D = "callees" THEN db.calls[i].caller
                                          ELSE db.calls[i].callee) = p}
           rows == Take(db.calls, J)
           I == Firsts(D, rows)
<1>1. (IF D = "callees" THEN FindCallees(db, p) ELSE FindCallers(db, p)) = rows
  BY DEF FindCallees, FindCallers, Where
<1>2. Neighbours(db, D, p) = Take(rows, I)
  BY <1>1 DEF Neighbours, DedupeBy, Firsts
<1>3. IsTable(rows) /\ ToSet(rows) = {db.calls[i] : i \in J \cap DOMAIN db.calls}
  BY TakenTable
<1>4. ToSet(rows) = {c \in ToSet(db.calls) : (IF D = "callees" THEN c.caller ELSE c.callee) = p}
  BY <1>3 DEF ToSet
<1> HIDE DEF rows, J
<1>5. /\ IsTable(Take(rows, I)) /\ ToSet(Take(rows, I)) \subseteq ToSet(rows)
      /\ \A c \in ToSet(rows) : \E b \in ToSet(Take(rows, I)) : Edge(D, b) = Edge(D, c)
  <2>1. \A c \in ToSet(rows) : \E b \in ToSet(Take(rows, I)) : Edge(D, b) = Edge(D, c)
    BY <1>3, Deduped
  <2>2. IsTable(Take(rows, I)) /\ ToSet(Take(rows, I)) = {rows[i] : i \in I \cap DOMAIN rows}
    BY <1>3, TakenTable
  <2> QED BY <2>1, <2>2 DEF ToSet
<1>6. Targets(p) = {Edge(D, c) : c \in ToSet(rows)}
  <2> DEFINE From(c) == IF D = "callees" THEN c.caller ELSE c.callee
  <2>1. Edges = {<<From(c), Edge(D, c)>> : c \in ToSet(db.calls)}
    BY DEF Edges
  <2>2. ToSet(rows) = {c \in ToSet(db.calls) : From(c) = p}
    BY <1>4
  <2> HIDE DEF From, D
  <2>3. \A f : <<p, f>> \in Edges <=> \E c \in ToSet(db.calls) : From(c) = p /\ Edge(D, c) = f
    BY <2>1
  <2>4. \A f : <<p, f>> \in Edges => f \in Functions
    BY DEF Functions
  <2> QED BY <2>2, <2>3, <2>4 DEF Targets
<1> HIDE DEF I
<1>7. {Edge(D, c) : c \in ToSet(Take(rows, I))} = Targets(p)
  BY <1>5, <1>6
<1> QED BY <1>2, <1>5, <1>7

LEMMA ChildrenFound ==
  ASSUME IsTable(db.calls), NEW p, NEW ancestors
  PROVE  ToSet(CallChildren(db, question.direction, p, ancestors)) =
            {Child(p, ancestors, f) : f \in Targets(p)}
<1> DEFINE D == question.direction
           calls == Neighbours(db, D, p)
           children == [i \in DOMAIN calls |-> Child(p, ancestors, Edge(D, calls[i]))]
<1>1. CallChildren(db, D, p, ancestors) = children
  BY DEF CallChildren, Child
<1>2. {Edge(D, c) : c \in ToSet(calls)} = Targets(p)
  BY NeighboursFound
<1> HIDE DEF calls
<1>3. ToSet(children) = {Child(p, ancestors, f) : f \in {Edge(D, c) : c \in ToSet(calls)}}
  BY DEF ToSet
<1> QED BY <1>1, <1>2, <1>3

\* The next level of the tree.
Expanded(nodes) ==
    UNION {ToSet(CallChildren(db, question.direction, n.name, n.ancestors)) :
             n \in {n \in nodes : ~n.recursive}}
Node == [name : Functions, ancestors : Seq(Functions), recursive : BOOLEAN]

LEMMA ExpandedIs ==
  ASSUME IsTable(db.calls), NEW nodes, NEW e
  PROVE  e \in Expanded(nodes) <=>
           \E n \in nodes : ~n.recursive /\ \E f \in Targets(n.name) : e = Child(n.name, n.ancestors, f)
<1>1. \A n : ToSet(CallChildren(db, question.direction, n.name, n.ancestors)) =
                {Child(n.name, n.ancestors, f) : f \in Targets(n.name)}
  BY ChildrenFound
<1> QED BY <1>1 DEF Expanded

LEMMA RootsAre ==
  ASSUME IsTable(db.calls)
  PROVE  Roots = {Child(RootFunction, << >>, f) : f \in Targets(RootFunction)}
BY ChildrenFound DEF Roots, CallRelations

LEMMA ChildNode ==
  ASSUME NEW p, NEW ancestors \in Seq(Functions), NEW f \in Targets(p)
  PROVE  Child(p, ancestors, f) \in Node
<1>1. f \in Functions /\ p \in Functions
  BY DEF Targets, Functions
<1>2. Append(ancestors, p) \in Seq(Functions)
  BY <1>1
<1>3. Recursive(f, Append(ancestors, p)) \in BOOLEAN
  BY DEF Recursive, Contains
<1> QED BY <1>1, <1>2, <1>3 DEF Child, Node

LEMMA LevelsGrow ==
  ASSUME IsTable(db.calls), NEW n \in Nat, n # 0
  PROVE  /\ Levels(n)[1] = Roots
         /\ \A d \in 2..n : Levels(n)[d] = Expanded(Levels(n)[d - 1])
<1> DEFINE Is(g) == g = [d \in 1..n |-> IF d = 1 THEN Roots ELSE Expanded(g[d - 1])]
           level == CHOOSE g : Is(g)
           T == SUBSET Node
           F == [d \in (1 + 1)..n |-> [S \in T |-> Expanded(S)]]
<1>1. Levels(n) = level
  BY DEF Levels, Expanded
<1>2. Roots \in T
  <2>1. << >> \in Seq(Functions)
    OBVIOUS
  <2>2. \A f \in Targets(RootFunction) : Child(RootFunction, << >>, f) \in Node
    BY <2>1, ChildNode
  <2>3. Roots = {Child(RootFunction, << >>, f) : f \in Targets(RootFunction)}
    BY RootsAre
  <2> QED BY <2>2, <2>3
<1>3. ASSUME NEW S \in T PROVE Expanded(S) \in T
  <2>1. \A m \in S : m.ancestors \in Seq(Functions)
    BY DEF Node
  <2> QED BY <2>1, ExpandedIs, ChildNode
<1> HIDE DEF T
<1>4. /\ 1 \in Int /\ n \in Int /\ F \in [(1 + 1)..n -> [T -> T]]
      /\ \A d \in 2..n : \A S \in T : F[d][S] = Expanded(S)
  BY <1>3
<1> HIDE DEF F
<1>5. PICK h \in [1..n -> T] : Iterates(1, n, Roots, F, h)
  BY <1>2, <1>4, Recursion
<1>6. h[1] = Roots /\ \A d \in 2..n : h[d] = F[d][h[d - 1]] /\ h[d - 1] \in T
  BY <1>5 DEF Iterates
<1>7. Is(h)
  BY <1>4, <1>5, <1>6
<1>8. Is(level)
  BY <1>7, Zenon
<1> HIDE DEF level
<1> QED BY <1>1, <1>8

\* A node at depth d: its name is reached, its ancestors are a chain from the root, all
\* different, and each but the root is the name of a node of the level it was expanded at.
NodeOK(level, d, x) ==
    /\ x \in Node
    /\ x.name \in Reached
    /\ <<x.ancestors[d], x.name>> \in Edges
    /\ Len(x.ancestors) = d
    /\ x.ancestors[1] = RootFunction
    /\ x.recursive = Recursive(x.name, x.ancestors)
    /\ \A i, j \in 1..d : x.ancestors[i] = x.ancestors[j] => i = j
    /\ \A i \in 2..d : \E m \in level[i - 1] : ~m.recursive /\ m.name = x.ancestors[i]

LEMMA ReachedGrows ==
  ASSUME NEW p, p = RootFunction \/ p \in Reached, NEW f \in Targets(p)
  PROVE  f \in Reached
BY DEF Reached, Closed, Targets

LEMMA RootOK ==
  ASSUME NEW level, NEW f \in Targets(RootFunction)
  PROVE  NodeOK(level, 1, Child(RootFunction, << >>, f))
<1> DEFINE x == Child(RootFunction, << >>, f)
<1>1. << >> \in Seq(Functions) /\ Append(<< >>, RootFunction) = <<RootFunction>>
  OBVIOUS
<1>2. x \in Node /\ f \in Reached /\ <<RootFunction, f>> \in Edges
  BY <1>1, ChildNode, ReachedGrows DEF Targets
<1>3. /\ x.name = f /\ x.ancestors = <<RootFunction>>
      /\ x.recursive = Recursive(x.name, x.ancestors)
  BY <1>1 DEF Child
<1> HIDE DEF x
<1>4. Len(x.ancestors) = 1 /\ x.ancestors[1] = RootFunction
  BY <1>3
<1>5. NodeOK(level, 1, x)
  BY <1>2, <1>3, <1>4 DEF NodeOK
<1> QED BY <1>5 DEF x

LEMMA ChildOK ==
  ASSUME NEW level, NEW d \in Nat, d # 0, NEW m \in level[d], NodeOK(level, d, m), ~m.recursive,
         NEW f \in Targets(m.name)
  PROVE  NodeOK(level, d + 1, Child(m.name, m.ancestors, f))
<1> DEFINE A == m.ancestors
           B == Append(A, m.name)
           x == Child(m.name, A, f)
<1>1. A \in Seq(Functions) /\ Len(A) = d /\ m.name \in Functions
  BY DEF NodeOK, Node
<1>2. /\ B \in Seq(Functions) /\ Len(B) = d + 1 /\ B[d + 1] = m.name
      /\ \A i \in 1..d : B[i] = A[i]
  BY <1>1
<1>3. x \in Node /\ f \in Reached /\ <<m.name, f>> \in Edges
  BY <1>1, ChildNode, ReachedGrows DEF Targets, NodeOK
<1>4. x.name = f /\ x.ancestors = B /\ x.recursive = Recursive(x.name, x.ancestors)
  BY DEF Child
<1>5. \A i \in 1..d : A[i] # m.name
  BY <1>1 DEF NodeOK, Recursive, Contains
<1>6. /\ A[1] = RootFunction
      /\ \A i, j \in 1..d : A[i] = A[j] => i = j
      /\ \A i \in 2..d : \E k \in level[i - 1] : ~k.recursive /\ k.name = A[i]
  BY DEF NodeOK
<1> HIDE DEF x, B, A
<1>7. B[1] = RootFunction
  BY <1>2, <1>6
<1>8. ASSUME NEW i \in 1..(d + 1), NEW j \in 1..(d + 1), B[i] = B[j] PROVE i = j
  <2>1. (i \in 1..d \/ i = d + 1) /\ (j \in 1..d \/ j = d + 1)
    OBVIOUS
  <2> QED BY <1>2, <1>5, <1>6, <1>8, <2>1
<1>9. ASSUME NEW i \in 2..(d + 1) PROVE \E k \in level[i - 1] : ~k.recursive /\ k.name = B[i]
  <2>1. CASE i = d + 1
    <3>1. i - 1 = d
      BY <2>1
    <3> QED BY <1>2, <2>1, <3>1
  <2>2. CASE i # d + 1
    <3>1. i \in 2..d /\ i \in 1..d
      BY <2>2
    <3> QED BY <1>2, <1>6, <3>1
  <2> QED BY <2>1, <2>2
<1>10. NodeOK(level, d + 1, x)
  BY <1>2, <1>3, <1>4, <1>7, <1>8, <1>9 DEF NodeOK
<1> QED BY <1>10 DEF x, A

\* The levels of the tree down to a depth.
Tree(n, level) ==
    level[1] = Roots /\ \A d \in 2..n : level[d] = Expanded(level[d - 1])

LEMMA LevelsOK ==
  ASSUME IsTable(db.calls), NEW n \in Nat, NEW level, Tree(n, level)
  PROVE  \A d \in 1..n : \A x \in level[d] : NodeOK(level, d, x)
<1> DEFINE S == {d \in Nat : \A x \in level[d] : NodeOK(level, d, x)}
<1>1. 1 \in S
  <2>1. Roots = {Child(RootFunction, << >>, f) : f \in Targets(RootFunction)}
    BY RootsAre
  <2>2. \A x \in level[1] : NodeOK(level, 1, x)
    BY <2>1, RootOK DEF Tree
  <2> QED BY <2>2
<1>2. ASSUME NEW d \in (1 + 1)..n, d - 1 \in S PROVE d \in S
  <2>1. PICK k \in Nat : k # 0 /\ k + 1 = d /\ k = d - 1 /\ k \in S
    BY <1>2
  <2>2. level[d] = Expanded(level[k])
    BY <2>1 DEF Tree
  <2>3. ASSUME NEW x \in level[d] PROVE NodeOK(level, d, x)
    <3>1. PICK m \in level[k] : ~m.recursive /\ \E f \in Targets(m.name) :
                                                   x = Child(m.name, m.ancestors, f)
      BY <2>2, <2>3, ExpandedIs
    <3>2. PICK f \in Targets(m.name) : x = Child(m.name, m.ancestors, f)
      BY <3>1
    <3>3. NodeOK(level, k, m)
      BY <2>1
    <3>4. NodeOK(level, k + 1, x)
      BY <2>1, <3>1, <3>2, <3>3, ChildOK
    <3> QED BY <2>1, <3>4
  <2> QED BY <2>1, <2>3
<1> HIDE DEF S
<1>3. 1 \in Int /\ n \in Int
  OBVIOUS
<1>4. 1..n \subseteq S
  BY <1>1, <1>2, <1>3, RangeInduct
<1> QED BY <1>4 DEF S

LEMMA FunctionsFinite ==
  ASSUME IsTable(db.calls)
  PROVE  IsFiniteSet(Functions)
<1>1. PICK n \in Nat : DOMAIN db.calls = 1..n
  BY DEF IsTable
<1> DEFINE D == question.direction
           From(c) == IF D = "callees" THEN c.caller ELSE c.callee
           from == [i \in 1..n |-> From(db.calls[i])]
           to == [i \in 1..n |-> Edge(D, db.calls[i])]
           F == {e[1] : e \in Edges}
           T == {e[2] : e \in Edges}
<1>2. Edges = {<<From(db.calls[i]), Edge(D, db.calls[i])>> : i \in 1..n}
  BY <1>1 DEF Edges, ToSet
<1> HIDE DEF From, D
<1>3. from \in Surjection(1..n, F) /\ to \in Surjection(1..n, T)
  <2> DEFINE pair(i) == <<From(db.calls[i]), Edge(D, db.calls[i])>>
  <2>1. \A i : pair(i)[1] = From(db.calls[i]) /\ pair(i)[2] = Edge(D, db.calls[i])
    OBVIOUS
  <2> HIDE DEF pair
  <2>2. /\ F = {From(db.calls[i]) : i \in 1..n}
        /\ T = {Edge(D, db.calls[i]) : i \in 1..n}
    <3>1. Edges = {pair(i) : i \in 1..n}
      BY <1>2, Zenon DEF pair
    <3> QED BY <2>1, <3>1
  <2> HIDE DEF F, T
  <2> QED BY <2>2 DEF Surjection
<1>4. IsFiniteSet(1..n)
  BY FS_Interval
<1> HIDE DEF from, to, F, T
<1>5. IsFiniteSet(F) /\ IsFiniteSet(T)
  BY <1>3, <1>4, FS_Surjection
<1>6. IsFiniteSet(F \cup T)
  BY <1>5, FS_Union
<1> QED BY <1>6 DEF F, T, Functions

\* The ancestors of a node are different functions: there is none deeper than there are
\* functions.
LEMMA TreeEnds ==
  ASSUME IsTable(db.calls), NEW n, n = Cardinality(Functions), NEW level, Tree(n + 1, level)
  PROVE  n \in Nat /\ level[n + 1] = {}
<1>1. IsFiniteSet(Functions) /\ n \in Nat
  BY FunctionsFinite, FS_CardinalityType
<1> SUFFICES ASSUME NEW x \in level[n + 1] PROVE FALSE
  BY <1>1
<1>2. NodeOK(level, n + 1, x)
  BY <1>1, LevelsOK
<1>3. IsFiniteSet(1..(n + 1)) /\ Cardinality(Functions) < Cardinality(1..(n + 1))
  BY <1>1, FS_Interval
<1> DEFINE f == [i \in 1..(n + 1) |-> x.ancestors[i]]
<1>4. f \in [1..(n + 1) -> Functions]
  <2>1. x.ancestors \in Seq(Functions) /\ Len(x.ancestors) = n + 1
    BY <1>2 DEF NodeOK, Node
  <2> QED BY <2>1
<1> HIDE DEF f
<1>5. \E i, j \in 1..(n + 1) : i # j /\ f[i] = f[j]
  BY <1>1, <1>3, <1>4, FS_PigeonHole
<1> QED BY <1>2, <1>5 DEF f, NodeOK

\* The node at file scope is a leaf, and rightly: it has no edge both to it and from it.
LEMMA FileScopeEnds ==
  ASSUME CallsAsked, NEW a, NEW f
  PROVE  ~(<<a, "">> \in Edges /\ <<"", f>> \in Edges)
BY DEF CallsAsked, Edges, Edge

LEMMA ExpandedHas ==
  ASSUME IsTable(db.calls), NEW n \in Nat, NEW level, Tree(n, level),
         NEW d \in Nat, d # 0, d + 1 <= n, NEW x \in level[d], ~x.recursive, NEW f \in Targets(x.name)
  PROVE  \E y \in level[d + 1] : y.name = f
<1>1. PICK k \in 2..n : k = d + 1 /\ k - 1 = d
  OBVIOUS
<1>2. level[k] = Expanded(level[d])
  BY <1>1 DEF Tree
<1>3. Child(x.name, x.ancestors, f) \in level[k]
  BY <1>2, ExpandedIs
<1> QED BY <1>1, <1>3 DEF Child

\* The names down to a depth.
Shown(n, level) == {x.name : x \in UNION {level[d] : d \in 1..n}}

LEMMA ShownIs ==
  ASSUME NEW n, NEW level, NEW f
  PROVE  f \in Shown(n, level) <=> \E d \in 1..n : \E x \in level[d] : x.name = f
BY DEF Shown

LEMMA ShownClosed ==
  ASSUME CallsAsked, NEW n \in Nat, n = Cardinality(Functions), NEW level,
         Tree(n + 1, level), level[n + 1] = {}
  PROVE  Closed(Shown(n, level))
<1> SUFFICES ASSUME NEW p, NEW f, <<p, f>> \in Edges, p = RootFunction \/ p \in Shown(n, level)
             PROVE  f \in Shown(n, level)
  BY DEF Closed, Edges
<1>1. f \in Targets(p) /\ IsTable(db.calls)
  <2>1. <<p, f>>[2] = f
    OBVIOUS
  <2>2. f \in Functions
    BY <2>1, Zenon DEF Functions
  <2> QED BY <2>2 DEF Targets, CallsAsked
<1>2. CASE p = RootFunction
  <2>1. Child(p, << >>, f) \in level[1]
    BY <1>1, <1>2, RootsAre DEF Tree
  <2>2. n # 0
    BY <1>1, FunctionsFinite, FS_EmptySet DEF Targets
  <2>3. 1 \in 1..n /\ Child(p, << >>, f).name = f
    BY <2>2 DEF Child
  <2> QED BY <2>1, <2>3, ShownIs
<1>3. CASE p # RootFunction
  <2>1. PICK d \in 1..n : \E x \in level[d] : x.name = p
    BY <1>3, ShownIs
  <2>2. PICK x \in level[d] : x.name = p
    BY <2>1
  <2>3. NodeOK(level, d, x)
    BY <1>1, LevelsOK
  <2>4. ASSUME NEW k \in 1..n, NEW y \in level[k], ~y.recursive, y.name = p
        PROVE  f \in Shown(n, level)
    <3>1. PICK z \in level[k + 1] : z.name = f
      BY <1>1, <2>4, ExpandedHas
    <3>2. k + 1 \in 1..n
      BY <3>1
    <3> QED BY <3>1, <3>2, ShownIs
  <2>5. CASE ~x.recursive
    BY <2>2, <2>4, <2>5
  <2>6. CASE x.recursive
    <3>1. p = "" \/ \E i \in 1..d : x.ancestors[i] = p
      BY <2>2, <2>3, <2>6 DEF NodeOK, Recursive, Contains
    <3>2. p # ""
      BY <2>2, <2>3, FileScopeEnds DEF NodeOK
    <3>3. PICK i \in 1..d : x.ancestors[i] = p
      BY <3>1, <3>2
    <3>4. i \in 2..d
      BY <1>3, <2>3, <3>3 DEF NodeOK
    <3>5. PICK m \in level[i - 1] : ~m.recursive /\ m.name = p
      BY <2>3, <3>3, <3>4 DEF NodeOK
    <3>6. i - 1 \in 1..n
      BY <3>4
    <3> QED BY <2>4, <3>5, <3>6
  <2> QED BY <2>5, <2>6
<1> QED BY <1>2, <1>3

LEMMA TreeKept ==
  ASSUME question.ask = "calls" => CallsAsked
  PROVE  CallTreeComplete
<1> SUFFICES ASSUME CallsAsked PROVE CallTreeComplete
  BY DEF CallTreeComplete
<1> DEFINE n == Cardinality(Functions)
           level == Levels(n + 1)
<1>1. IsTable(db.calls)
  BY DEF CallsAsked
<1>2. n \in Nat
  BY <1>1, FunctionsFinite, FS_CardinalityType
<1>3. Tree(n + 1, level)
  BY <1>1, <1>2, LevelsGrow DEF Tree
<1> HIDE DEF level
<1>4. level[n + 1] = {}
  BY <1>1, <1>3, TreeEnds
<1>5. Closed(Shown(n, level))
  BY <1>1, <1>2, <1>3, <1>4, ShownClosed
<1>6. Shown(n, level) \subseteq Reached
  <2>1. \A d \in 1..n : d \in 1..(n + 1)
    BY <1>2
  <2>2. \A d \in 1..n : \A x \in level[d] : NodeOK(level, d, x)
    BY <1>1, <1>2, <1>3, <2>1, LevelsOK
  <2>3. ASSUME NEW f \in Shown(n, level) PROVE f \in Reached
    <3>1. PICK d \in 1..n : \E x \in level[d] : x.name = f
      BY <2>3, ShownIs
    <3>2. PICK x \in level[d] : x.name = f
      BY <3>1
    <3>3. NodeOK(level, d, x)
      BY <2>2
    <3> QED BY <3>2, <3>3 DEF NodeOK
  <2> QED BY <2>3
<1>7. Reached \subseteq Shown(n, level)
  <2>1. Shown(n, level) \in SUBSET Functions
    BY <1>6 DEF Reached
  <2> QED BY <1>5, <2>1 DEF Reached
<1> QED BY <1>4, <1>6, <1>7 DEF CallTreeComplete, Shown, level

\* The call tree ends, and shows every function a chain of calls leads to (callGraph.ts).
THEOREM CallTreeAlwaysComplete == LookupSpec => []CallTreeComplete
<1>1. AskedInv => CallTreeComplete
  BY TreeKept DEF AskedInv
<1> QED BY <1>1, AskedAlways, PTL

----------------------------------------------------------------------------
(* The best score.                                                            *)

LEMMA MaxIs ==
  ASSUME NEW S \in SUBSET Int, NEW x \in S, \A y \in S : y <= x
  PROVE  Max(S) = x
<1> DEFINE c == CHOOSE z \in S : \A y \in S : z >= y
<1>1. c \in S /\ \A y \in S : c >= y
  OBVIOUS
<1> HIDE DEF c
<1>2. c >= x /\ c <= x /\ c \in Int /\ x \in Int
  BY <1>1
<1>3. c = x
  BY <1>2
<1> QED BY <1>3 DEF c, Max

\* Numbers that are as many as the numbers up to n are bounded.
LEMMA Bounded ==
  ASSUME NEW n \in Nat, NEW f \in [1..n -> Int]
  PROVE  \E b \in Int : \A i \in 1..n : f[i] <= b
<1> DEFINE S == {k \in 0..n : \E b \in Int : \A i \in 1..k : f[i] <= b}
<1>1. 0 \in S
  OBVIOUS
<1>2. ASSUME NEW k \in (0 + 1)..n, k - 1 \in S PROVE k \in S
  <2>1. PICK b \in Int : \A i \in 1..(k - 1) : f[i] <= b
    BY <1>2
  <2>2. f[k] \in Int
    OBVIOUS
  <2>3. PICK c \in Int : b <= c /\ f[k] <= c
    BY <2>2
  <2>4. \A i \in 1..k : f[i] <= c
    <3>1. \A i \in 1..k : f[i] \in Int /\ (i = k \/ i \in 1..(k - 1))
      OBVIOUS
    <3> QED BY <2>1, <2>2, <2>3, <3>1
  <2> QED BY <2>4
<1> HIDE DEF S
<1>3. 0 \in Int /\ n \in Int
  OBVIOUS
<1>4. 0..n \subseteq S
  BY <1>1, <1>2, <1>3, RangeInduct
<1>5. n \in S
  BY <1>4
<1> QED BY <1>5 DEF S

\* So they have a greatest one.
LEMMA MaxTaken ==
  ASSUME NEW n \in Nat, NEW K \in SUBSET (1..n), K # {}, NEW f, \A k \in K : f[k] \in Int
  PROVE  /\ \E k \in K : Max({f[i] : i \in K}) = f[k]
         /\ \A k \in K : f[k] <= Max({f[i] : i \in K})
<1> DEFINE h == [k \in 1..n |-> IF k \in K THEN f[k] ELSE 0]
           S == {f[i] : i \in K}
<1>1. h \in [1..n -> Int]
  OBVIOUS
<1>2. PICK b \in Int : \A i \in 1..n : h[i] <= b
  BY <1>1, Bounded
<1>3. \A k \in K : f[k] <= b
  BY <1>2
<1>4. S \in SUBSET Int /\ S # {} /\ \A y \in S : y <= b
  BY <1>3
<1>5. PICK x \in S : \A y \in S : y <= x
  BY <1>4, BoundedMax
<1>6. PICK k \in K : x = f[k]
  BY <1>5
<1> HIDE DEF S
<1>7. Max(S) = x
  BY <1>4, <1>5, MaxIs
<1> QED BY <1>5, <1>6, <1>7 DEF S

LEMMA StepInt ==
  ASSUME NEW text, NEW k \in Int, NEW j \in Int
  PROVE  Step(text, k, j) \in Int /\ FirstScore(text, j) \in Int
<1>1. CharBonus(text, j) \in Int
  BY DEF CharBonus, BonusBoundary, BonusCamel
<1>2. Max({CharBonus(text, j), BonusConsecutive}) \in Int
  <2> DEFINE S == {CharBonus(text, j), BonusConsecutive}
  <2>1. S \in SUBSET Int /\ \E x \in S : \A y \in S : y <= x
    BY <1>1 DEF BonusConsecutive
  <2> HIDE DEF S
  <2>2. Max(S) \in Int
    BY <2>1, MaxIs
  <2> QED BY <2>2 DEF S
<1>3. GapPenalty(j - 1 - k) \in Int /\ GapPenalty(j - 1) \in Int
  BY DEF GapPenalty
<1> QED BY <1>1, <1>2, <1>3 DEF Step, FirstScore, ScoreMatch

\* The rows of the table: partial functions from the places in the name to scores.
Scores(text) == UNION {[D -> Int] : D \in SUBSET DOMAIN text}
FirstRow(pattern, text) ==
    [j \in {j \in DOMAIN text : text[j].key = pattern[1]} |-> FirstScore(text, j)]
NextRow(pattern, text, i, row) ==
    [j \in {j \in DOMAIN text : text[j].key = pattern[i] /\ Earlier(row, j) # {}} |->
       BestBefore(row, text, j)]

\* The best continuation of a row is one of those it has.
LEMMA BestTaken ==
  ASSUME NEW text, IsTable(text), NEW row \in Scores(text), NEW j \in DOMAIN text,
         Earlier(row, j) # {}
  PROVE  /\ BestBefore(row, text, j) \in Int
         /\ \E k \in Earlier(row, j) : BestBefore(row, text, j) = row[k] + Step(text, k, j)
         /\ \A k \in Earlier(row, j) : row[k] + Step(text, k, j) <= BestBefore(row, text, j)
<1>1. PICK n \in Nat : DOMAIN text = 1..n
  BY DEF IsTable
<1> DEFINE K == Earlier(row, j)
           f == [k \in K |-> row[k] + Step(text, k, j)]
<1>2. K \in SUBSET (1..n) /\ \A k \in K : row[k] \in Int
  BY <1>1 DEF Earlier, Scores
<1>3. \A k \in K : f[k] = row[k] + Step(text, k, j) /\ f[k] \in Int
  <2>1. j \in Int /\ \A k \in K : k \in Int
    BY <1>1, <1>2
  <2>2. \A k \in K : Step(text, k, j) \in Int
    BY <2>1, StepInt
  <2> HIDE DEF K
  <2> QED BY <1>2, <2>2
<1>4. BestBefore(row, text, j) = Max({f[k] : k \in K})
  BY DEF BestBefore
<1> HIDE DEF f
<1>5. /\ \E k \in K : Max({f[i] : i \in K}) = f[k]
      /\ \A k \in K : f[k] <= Max({f[i] : i \in K})
  BY <1>2, <1>3, MaxTaken
<1> HIDE DEF K
<1> QED BY <1>3, <1>4, <1>5 DEF K

LEMMA RowTypes ==
  ASSUME NEW text, IsTable(text), NEW pattern, NEW i, NEW row \in Scores(text)
  PROVE  /\ FirstRow(pattern, text) \in Scores(text)
         /\ NextRow(pattern, text, i, row) \in Scores(text)
<1>1. PICK n \in Nat : DOMAIN text = 1..n
  BY DEF IsTable
<1>2. \A j \in DOMAIN text : FirstScore(text, j) \in Int
  <2>1. \A j \in DOMAIN text : j \in Int
    BY <1>1
  <2> QED BY <2>1, StepInt
<1>3. \A j \in DOMAIN text : Earlier(row, j) # {} => BestBefore(row, text, j) \in Int
  BY BestTaken
<1> DEFINE D1 == {j \in DOMAIN text : text[j].key = pattern[1]}
           D2 == {j \in DOMAIN text : text[j].key = pattern[i] /\ Earlier(row, j) # {}}
<1>4. FirstRow(pattern, text) \in [D1 -> Int] /\ D1 \in SUBSET DOMAIN text
  BY <1>2 DEF FirstRow
<1>5. NextRow(pattern, text, i, row) \in [D2 -> Int] /\ D2 \in SUBSET DOMAIN text
  BY <1>3 DEF NextRow
<1> HIDE DEF D1, D2
<1> QED BY <1>4, <1>5 DEF Scores

\* The rows of the table, one for each character of the pattern.
IsRows(pattern, text, n, row) ==
    /\ \A i \in 1..n : row[i] \in Scores(text)
    /\ row[1] = FirstRow(pattern, text)
    /\ \A i \in 2..n : row[i] = NextRow(pattern, text, i, row[i - 1])

LEMMA RowsGrow ==
  ASSUME NEW text, IsTable(text), NEW pattern, NEW n \in Nat, n = Len(pattern), n # 0
  PROVE  IsRows(pattern, text, n, Rows(pattern, text))
<1> DEFINE Is(g) == g = [i \in 1..n |-> IF i = 1 THEN FirstRow(pattern, text)
                                        ELSE NextRow(pattern, text, i, g[i - 1])]
           rows == CHOOSE g : Is(g)
           T == Scores(text)
           F == [i \in (1 + 1)..n |-> [r \in T |-> NextRow(pattern, text, i, r)]]
<1>1. Rows(pattern, text) = rows
  BY DEF Rows, FirstRow, NextRow
<1>2. /\ FirstRow(pattern, text) \in T
      /\ \A i : \A r \in T : NextRow(pattern, text, i, r) \in T
  <2>1. \A i : \A r \in T : /\ FirstRow(pattern, text) \in T
                            /\ NextRow(pattern, text, i, r) \in T
    BY RowTypes
  <2>2. [j \in {} |-> 0] \in T
    BY DEF Scores
  <2> HIDE DEF T
  <2> QED BY <2>1, <2>2
<1> HIDE DEF T
<1>3. /\ 1 \in Int /\ n \in Int /\ F \in [(1 + 1)..n -> [T -> T]]
      /\ \A i \in 2..n : \A r \in T : F[i][r] = NextRow(pattern, text, i, r)
  BY <1>2
<1> HIDE DEF F
<1>4. PICK h \in [1..n -> T] : Iterates(1, n, FirstRow(pattern, text), F, h)
  BY <1>2, <1>3, Recursion
<1>5. /\ h[1] = FirstRow(pattern, text)
      /\ \A i \in 2..n : h[i] = F[i][h[i - 1]] /\ h[i - 1] \in T
  BY <1>4 DEF Iterates
<1>6. Is(h)
  BY <1>3, <1>4, <1>5
<1>7. Is(rows)
  BY <1>6, Zenon
<1> HIDE DEF rows
<1>8. /\ rows[1] = FirstRow(pattern, text)
      /\ \A i \in 2..n : rows[i] = NextRow(pattern, text, i, rows[i - 1])
  BY <1>7
<1> DEFINE S == {i \in 1..n : rows[i] \in T}
<1>9. 1 \in S
  BY <1>2, <1>8
<1>10. ASSUME NEW i \in (1 + 1)..n, i - 1 \in S PROVE i \in S
  BY <1>2, <1>8, <1>10
<1> HIDE DEF S
<1>11. 1..n \subseteq S
  BY <1>3, <1>9, <1>10, RangeInduct
<1> QED BY <1>1, <1>8, <1>11 DEF S, T, IsRows

\* A way to find the first n characters of the pattern, with what it is worth at each.
Way(pattern, text, n, s, w) ==
    /\ s \in [1..n -> DOMAIN text]
    /\ \A i \in 1..n : text[s[i]].key = pattern[i]
    /\ \A i \in 2..n : s[i - 1] < s[i]
    /\ w[1] = FirstScore(text, s[1])
    /\ \A i \in 2..n : w[i] = w[i - 1] + Step(text, s[i - 1], s[i])

\* No way is worth more than the table says.
LEMMA WaysBelow ==
  ASSUME NEW text, IsTable(text), NEW pattern, NEW n \in Nat, n # 0,
         NEW row, IsRows(pattern, text, n, row), NEW s, NEW w, Way(pattern, text, n, s, w)
  PROVE  s[n] \in DOMAIN row[n] /\ w[n] \in Int /\ w[n] <= row[n][s[n]]
<1>1. PICK m \in Nat : DOMAIN text = 1..m
  BY DEF IsTable
<1> DEFINE S == {i \in 1..n : s[i] \in DOMAIN row[i] /\ w[i] \in Int /\ w[i] <= row[i][s[i]]}
<1>2. \A i \in 1..n : s[i] \in DOMAIN text /\ s[i] \in Int
  BY <1>1 DEF Way
<1>3. 1 \in S
  <2>1. /\ row[1] = FirstRow(pattern, text) /\ text[s[1]].key = pattern[1]
        /\ w[1] = FirstScore(text, s[1]) /\ s[1] \in DOMAIN text /\ s[1] \in Int
    BY <1>2 DEF Way, IsRows
  <2>2. w[1] \in Int
    BY <2>1, StepInt
  <2>3. s[1] \in DOMAIN row[1] /\ row[1][s[1]] = w[1]
    BY <2>1 DEF FirstRow
  <2> QED BY <2>2, <2>3
<1>4. ASSUME NEW i \in (1 + 1)..n, i - 1 \in S PROVE i \in S
  <2>1. PICK k \in 1..n : k = i - 1 /\ k \in S
    BY <1>4
  <2>2. /\ row[i] = NextRow(pattern, text, i, row[k]) /\ text[s[i]].key = pattern[i]
        /\ w[i] = w[k] + Step(text, s[k], s[i]) /\ s[i] \in DOMAIN text /\ s[k] < s[i]
        /\ row[k] \in Scores(text)
    <3>1. row[i] = NextRow(pattern, text, i, row[k]) /\ row[k] \in Scores(text)
      BY <2>1 DEF IsRows
    <3>2. /\ text[s[i]].key = pattern[i]
          /\ w[i] = w[k] + Step(text, s[k], s[i]) /\ s[k] < s[i]
      BY <2>1 DEF Way
    <3> QED BY <1>2, <3>1, <3>2
  <2>3. s[k] \in DOMAIN row[k] /\ w[k] \in Int /\ w[k] <= row[k][s[k]]
    BY <2>1
  <2>4. row[k][s[k]] \in Int
    BY <2>2, <2>3 DEF Scores
  <2>5. Step(text, s[k], s[i]) \in Int
    BY <1>2, StepInt
  <2>6. s[k] \in Earlier(row[k], s[i])
    BY <2>2, <2>3 DEF Earlier
  <2>7. s[i] \in DOMAIN row[i] /\ row[i][s[i]] = BestBefore(row[k], text, s[i])
    BY <2>2, <2>6 DEF NextRow
  <2>8. /\ BestBefore(row[k], text, s[i]) \in Int
        /\ row[k][s[k]] + Step(text, s[k], s[i]) <= BestBefore(row[k], text, s[i])
    BY <2>2, <2>6, BestTaken
  <2>9. w[i] \in Int /\ w[i] <= row[i][s[i]]
    BY <2>2, <2>3, <2>4, <2>5, <2>7, <2>8
  <2> QED BY <2>7, <2>9
<1> HIDE DEF S
<1>5. 1 \in Int /\ n \in Int
  OBVIOUS
<1>6. 1..n \subseteq S
  BY <1>3, <1>4, <1>5, RangeInduct
<1>7. n \in S
  BY <1>6
<1> QED BY <1>7 DEF S

\* And each of its entries is the worth of a way.
Reaches(pattern, text, n, row, k) ==
    \E s, w : Way(pattern, text, n, s, w) /\ s[n] = k /\ w[n] = row[n][k]

LEMMA WaysReach ==
  ASSUME NEW text, IsTable(text), NEW pattern, NEW n \in Nat, n # 0,
         NEW row, IsRows(pattern, text, n, row), NEW j \in DOMAIN row[n]
  PROVE  Reaches(pattern, text, n, row, j)
<1>1. PICK m \in Nat : DOMAIN text = 1..m
  BY DEF IsTable
<1> DEFINE S == {i \in 1..n : \A k \in DOMAIN row[i] : Reaches(pattern, text, i, row, k)}
<1>2. 1 \in S
  <2>1. row[1] = FirstRow(pattern, text)
    BY DEF IsRows
  <2>2. ASSUME NEW k \in DOMAIN row[1] PROVE Reaches(pattern, text, 1, row, k)
    <3>1. k \in DOMAIN text /\ text[k].key = pattern[1] /\ row[1][k] = FirstScore(text, k)
      BY <2>1, <2>2 DEF FirstRow
    <3> DEFINE s == [i \in 1..1 |-> k]
               w == [i \in 1..1 |-> FirstScore(text, k)]
    <3>2. s[1] = k /\ w[1] = FirstScore(text, k) /\ s \in [1..1 -> DOMAIN text]
      BY <3>1
    <3> HIDE DEF s, w
    <3>3. Way(pattern, text, 1, s, w)
      BY <3>1, <3>2 DEF Way
    <3> QED BY <3>1, <3>2, <3>3 DEF Reaches
  <2> QED BY <2>2
<1>3. ASSUME NEW i \in (1 + 1)..n, i - 1 \in S PROVE i \in S
  <2>1. PICK l \in 1..n : l = i - 1 /\ i = l + 1 /\ l \in S
    BY <1>3
  <2>2. row[i] = NextRow(pattern, text, i, row[l]) /\ row[l] \in Scores(text)
    BY <2>1 DEF IsRows
  <2>3. ASSUME NEW k \in DOMAIN row[i] PROVE Reaches(pattern, text, i, row, k)
    <3>1. /\ k \in DOMAIN text /\ text[k].key = pattern[i] /\ Earlier(row[l], k) # {}
          /\ row[i][k] = BestBefore(row[l], text, k)
      BY <2>2, <2>3 DEF NextRow
    <3>2. PICK e \in Earlier(row[l], k) : BestBefore(row[l], text, k) = row[l][e] + Step(text, e, k)
      BY <2>2, <3>1, BestTaken
    <3>3. e \in DOMAIN row[l] /\ e < k
      BY <3>2 DEF Earlier
    <3>4. PICK s, w : Way(pattern, text, l, s, w) /\ s[l] = e /\ w[l] = row[l][e]
      BY <2>1, <3>3 DEF Reaches
    <3> DEFINE t == [x \in 1..i |-> IF x = i THEN k ELSE s[x]]
               v == [x \in 1..i |-> IF x = i THEN row[i][k] ELSE w[x]]
    <3>5. /\ t[i] = k /\ v[i] = row[i][k]
          /\ \A x \in 1..l : x \in 1..i /\ t[x] = s[x] /\ v[x] = w[x]
      BY <2>1
    <3>6. s \in [1..l -> DOMAIN text] /\ \A x \in 1..l : text[s[x]].key = pattern[x]
      BY <3>4 DEF Way
    <3>7. t \in [1..i -> DOMAIN text] /\ \A x \in 1..i : text[t[x]].key = pattern[x]
      <4>1. \A x \in 1..i : x = i \/ x \in 1..l
        BY <2>1
      <4> QED BY <3>1, <3>6, <4>1
    <3> HIDE DEF t, v
    <3>8. v[1] = FirstScore(text, t[1])
      BY <2>1, <3>4, <3>5 DEF Way
    <3>9. ASSUME NEW x \in 2..i
          PROVE  t[x - 1] < t[x] /\ v[x] = v[x - 1] + Step(text, t[x - 1], t[x])
      <4>1. CASE x = i
        <5>1. t[x - 1] = e /\ v[x - 1] = row[l][e] /\ t[x] = k /\ v[x] = row[i][k]
          BY <2>1, <3>4, <3>5, <4>1
        <5> QED BY <3>1, <3>2, <3>3, <5>1
      <4>2. CASE x # i
        <5>1. x \in 2..l /\ x - 1 \in 1..l /\ x \in 1..l
          BY <2>1, <4>2
        <5>2. s[x - 1] < s[x] /\ w[x] = w[x - 1] + Step(text, s[x - 1], s[x])
          BY <3>4, <5>1 DEF Way
        <5> QED BY <3>5, <5>1, <5>2
      <4> QED BY <4>1, <4>2
    <3>10. Way(pattern, text, i, t, v)
      BY <3>7, <3>8, <3>9 DEF Way
    <3> QED BY <3>5, <3>10 DEF Reaches
  <2> QED BY <2>1, <2>3
<1> HIDE DEF S
<1>4. 1 \in Int /\ n \in Int
  OBVIOUS
<1>5. 1..n \subseteq S
  BY <1>2, <1>3, <1>4, RangeInduct
<1>6. n \in S
  BY <1>5
<1> QED BY <1>6 DEF S

\* The worth of an embedding is what it adds up to.
Adds(text, n, s, w) ==
    /\ w[1] = FirstScore(text, s[1])
    /\ \A i \in 2..n : w[i] = w[i - 1] + Step(text, s[i - 1], s[i])

LEMMA WorthIs ==
  ASSUME NEW text, IsTable(text), NEW n \in Nat, n # 0, NEW s \in [1..n -> DOMAIN text]
  PROVE  \E w : Worth(text, s) = w[n] /\ Adds(text, n, s, w)
<1>1. PICK m \in Nat : DOMAIN text = 1..m
  BY DEF IsTable
<1>2. Len(s) = n /\ \A i \in 1..n : s[i] \in Int
  BY <1>1
<1> DEFINE Is(g) == g = [i \in 1..n |-> IF i = 1 THEN FirstScore(text, s[1])
                                        ELSE g[i - 1] + Step(text, s[i - 1], s[i])]
           worth == CHOOSE g : Is(g)
           F == [i \in (1 + 1)..n |-> [v \in Int |-> v + Step(text, s[i - 1], s[i])]]
<1>3. Worth(text, s) = worth[n]
  BY <1>2 DEF Worth
<1>4. FirstScore(text, s[1]) \in Int /\ \A i \in 2..n : Step(text, s[i - 1], s[i]) \in Int
  <2>1. \A i \in 2..n : s[i - 1] \in Int /\ s[i] \in Int
    BY <1>2
  <2>2. s[1] \in Int
    BY <1>2
  <2> QED BY <2>1, <2>2, StepInt
<1>5. /\ 1 \in Int /\ n \in Int /\ F \in [(1 + 1)..n -> [Int -> Int]]
      /\ \A i \in 2..n : \A v \in Int : F[i][v] = v + Step(text, s[i - 1], s[i])
  BY <1>4
<1> HIDE DEF F
<1>6. PICK h \in [1..n -> Int] : Iterates(1, n, FirstScore(text, s[1]), F, h)
  BY <1>4, <1>5, Recursion
<1>7. /\ h[1] = FirstScore(text, s[1])
      /\ \A i \in 2..n : h[i] = F[i][h[i - 1]] /\ h[i - 1] \in Int
  BY <1>6 DEF Iterates
<1>8. Is(h)
  <2>1. \A i \in 2..n : h[i] = h[i - 1] + Step(text, s[i - 1], s[i])
    BY <1>5, <1>7
  <2> DEFINE A(i) == Step(text, s[i - 1], s[i])
  <2>2. \A i \in 1..n : i = 1 \/ i \in 2..n
    OBVIOUS
  <2>3. \A i \in 2..n : h[i] = h[i - 1] + A(i)
    BY <2>1
  <2> HIDE DEF A
  <2>4. h = [i \in 1..n |-> IF i = 1 THEN FirstScore(text, s[1]) ELSE h[i - 1] + A(i)]
    BY <1>6, <1>7, <2>2, <2>3
  <2> QED BY <2>4, Zenon DEF A
<1>9. Is(worth)
  BY <1>8, Zenon
<1> HIDE DEF worth
<1>10. Adds(text, n, s, worth)
  BY <1>9 DEF Adds
<1> QED BY <1>3, <1>10

LEMMA SameWorth ==
  ASSUME NEW text, NEW n \in Nat, n # 0, NEW s, NEW u, NEW v,
         Adds(text, n, s, u), Adds(text, n, s, v)
  PROVE  u[n] = v[n]
<1> DEFINE S == {i \in 1..n : u[i] = v[i]}
<1>1. 1 \in S
  BY DEF Adds
<1>2. ASSUME NEW i \in (1 + 1)..n, i - 1 \in S PROVE i \in S
  BY <1>2 DEF Adds
<1> HIDE DEF S
<1>3. 1 \in Int /\ n \in Int
  OBVIOUS
<1>4. 1..n \subseteq S
  BY <1>1, <1>2, <1>3, RangeInduct
<1>5. n \in S
  BY <1>4
<1> QED BY <1>5 DEF S

\* The ways are the embeddings, each with its worth.
LEMMA WaysEmbed ==
  ASSUME NEW text, IsTable(text), NEW pattern, NEW n \in Nat, n = Len(pattern), n # 0, NEW s
  PROVE  /\ s \in Embeddings(pattern, text) => \E w : Way(pattern, text, n, s, w)
         /\ \A w : Way(pattern, text, n, s, w) => /\ s \in Embeddings(pattern, text)
                                                  /\ Worth(text, s) = w[n]
<1>1. DOMAIN text = 1..Len(text)
  BY DEF IsTable
<1>2. ASSUME s \in Embeddings(pattern, text)
      PROVE  /\ s \in [1..n -> DOMAIN text]
             /\ \A i \in 1..n : text[s[i]].key = pattern[i]
             /\ \A i \in 2..n : s[i - 1] < s[i]
  BY <1>1, <1>2 DEF Embeddings
<1>3. ASSUME s \in Embeddings(pattern, text) PROVE \E w : Way(pattern, text, n, s, w)
  <2>1. PICK w : Adds(text, n, s, w)
    BY <1>2, <1>3, WorthIs
  <2>2. Way(pattern, text, n, s, w)
    BY <1>2, <1>3, <2>1 DEF Way, Adds
  <2> QED BY <2>2
<1>4. ASSUME NEW w, Way(pattern, text, n, s, w)
      PROVE  s \in Embeddings(pattern, text) /\ Worth(text, s) = w[n]
  <2>1. s \in [1..n -> DOMAIN text] /\ DOMAIN s = 1..n
    BY <1>4 DEF Way
  <2>2. s \in Embeddings(pattern, text)
    <3>1. \A i \in DOMAIN s : i > 1 => i \in 2..n
      BY <2>1
    <3> QED BY <1>1, <1>4, <2>1, <3>1 DEF Embeddings, Way
  <2>3. PICK u : Worth(text, s) = u[n] /\ Adds(text, n, s, u)
    BY <2>1, WorthIs
  <2>4. Adds(text, n, s, w)
    BY <1>4 DEF Way, Adds
  <2>5. u[n] = w[n]
    BY <2>3, <2>4, SameWorth
  <2> QED BY <2>2, <2>3, <2>5
<1> QED BY <1>3, <1>4

\* A pattern longer than the name is nowhere in it.
LEMMA TooLong ==
  ASSUME NEW text, IsTable(text), NEW pattern, NEW n \in Nat, n # 0, n > Len(text),
         NEW s, NEW w
  PROVE  ~Way(pattern, text, n, s, w)
<1> SUFFICES ASSUME Way(pattern, text, n, s, w) PROVE FALSE
  OBVIOUS
<1>1. PICK m \in Nat : DOMAIN text = 1..m /\ n > m
  BY DEF IsTable
<1>2. \A i \in 1..n : s[i] \in Int /\ 1 <= s[i] /\ s[i] <= m
  <2>1. s \in [1..n -> 1..m]
    BY <1>1 DEF Way
  <2> QED BY <2>1
<1> DEFINE S == {i \in 1..n : i <= s[i]}
<1>3. 1 \in S
  BY <1>2
<1>4. ASSUME NEW i \in (1 + 1)..n, i - 1 \in S PROVE i \in S
  <2>1. s[i - 1] < s[i] /\ i - 1 <= s[i - 1] /\ i - 1 \in 1..n /\ i \in 1..n
    BY <1>4 DEF Way
  <2>2. s[i] \in Int /\ s[i - 1] \in Int
    BY <1>2, <2>1
  <2> QED BY <2>1, <2>2
<1> HIDE DEF S
<1>5. 1 \in Int /\ n \in Int
  OBVIOUS
<1>6. 1..n \subseteq S
  BY <1>3, <1>4, <1>5, RangeInduct
<1>7. n \in 1..n /\ n \in S
  BY <1>6
<1>8. n <= s[n] /\ s[n] \in Int /\ s[n] <= m
  BY <1>2, <1>7 DEF S
<1> QED BY <1>1, <1>8

\* The last places of the LIKE pattern are those of the last row.
LEMMA PlacesAre ==
  ASSUME NEW text, IsTable(text), NEW pattern, NEW n \in Nat, n = Len(pattern), n # 0,
         NEW row, IsRows(pattern, text, n, row)
  PROVE  IsSubsequence(pattern, Keys(text)) <=> DOMAIN row[n] # {}
<1>1. PICK m \in Nat : DOMAIN text = 1..m
  BY DEF IsTable
<1>2. DOMAIN Keys(text) = DOMAIN text /\ \A j \in DOMAIN text : Keys(text)[j] = text[j].key
  BY DEF Keys
<1> DEFINE After(i, set) == {j \in DOMAIN Keys(text) : /\ Keys(text)[j] = pattern[i]
                                                       /\ \E k \in set : k < j}
           Is(g) == g = [i \in 0..n |-> IF i = 0 THEN {0} ELSE After(i, g[i - 1])]
           places == CHOOSE g : Is(g)
           T == SUBSET Int
           F == [i \in (0 + 1)..n |-> [set \in T |-> After(i, set)]]
<1>3. IsSubsequence(pattern, Keys(text)) <=> places[n] # {}
  BY DEF IsSubsequence
<1>4. {0} \in T /\ \A i : \A set \in T : After(i, set) \in T
  BY <1>1, <1>2
<1>5. \A i, j, set : j \in After(i, set) <=> /\ j \in DOMAIN text /\ text[j].key = pattern[i]
                                            /\ \E k \in set : k < j
  BY <1>2
<1> HIDE DEF T, After
<1>6. /\ 0 \in Int /\ n \in Int /\ F \in [(0 + 1)..n -> [T -> T]]
      /\ \A i \in 1..n : \A set \in T : F[i][set] = After(i, set)
  BY <1>4
<1> HIDE DEF F
<1>7. PICK h \in [0..n -> T] : Iterates(0, n, {0}, F, h)
  BY <1>4, <1>6, Recursion
<1>8. h[0] = {0} /\ \A i \in 1..n : h[i] = F[i][h[i - 1]] /\ h[i - 1] \in T
  BY <1>7 DEF Iterates
<1>9. \A i \in 1..n : h[i] = After(i, h[i - 1])
  BY <1>6, <1>8
<1>10. Is(h)
  BY <1>7, <1>8, <1>9
<1>11. Is(places)
  BY <1>10, Zenon
<1> HIDE DEF places
<1>12. places[0] = {0} /\ \A i \in 1..n : places[i] = After(i, places[i - 1])
  <2>1. 0 \in 0..n /\ \A i \in 1..n : i \in 0..n /\ i # 0
    OBVIOUS
  <2>2. \A i \in 0..n : places[i] = IF i = 0 THEN {0} ELSE After(i, places[i - 1])
    BY <1>11, Zenon
  <2> QED BY <2>1, <2>2, Zenon
<1> DEFINE S == {i \in 1..n : \A j : j \in places[i] <=> j \in DOMAIN row[i]}
<1>13. 1 \in S
  <2>1. \A j \in DOMAIN text : 0 < j
    BY <1>1
  <2>2. 1 \in 1..n /\ 1 - 1 = 0
    OBVIOUS
  <2>3. places[1] = After(1, {0})
    BY <1>12, <2>2
  <2>4. \A j : j \in DOMAIN row[1] <=> j \in DOMAIN text /\ text[j].key = pattern[1]
    BY DEF IsRows, FirstRow
  <2> QED BY <1>5, <2>1, <2>2, <2>3, <2>4
<1>14. ASSUME NEW i \in (1 + 1)..n, i - 1 \in S PROVE i \in S
  <2>1. PICK l \in 1..n : l = i - 1 /\ l \in S
    BY <1>14
  <2>2. row[i] = NextRow(pattern, text, i, row[l]) /\ places[i] = After(i, places[l]) /\ i \in 1..n
    BY <1>12, <2>1 DEF IsRows
  <2>3. \A j : j \in DOMAIN row[i] <=>
                 j \in DOMAIN text /\ text[j].key = pattern[i] /\ \E k \in DOMAIN row[l] : k < j
    BY <2>2 DEF NextRow, Earlier
  <2>4. \A j : j \in places[l] <=> j \in DOMAIN row[l]
    BY <2>1
  <2> QED BY <1>5, <2>2, <2>3, <2>4
<1> HIDE DEF S
<1>15. 1 \in Int /\ n \in Int
  OBVIOUS
<1>16. 1..n \subseteq S
  BY <1>13, <1>14, <1>15, RangeInduct
<1>17. n \in S
  BY <1>16
<1>18. \A j : j \in places[n] <=> j \in DOMAIN row[n]
  BY <1>17 DEF S
<1> QED BY <1>3, <1>18

\* The score of a pattern that has a character.
LEMMA ScoreIs ==
  ASSUME NEW text, IsTable(text), NEW pattern, IsTable(pattern), pattern # << >>
  PROVE  /\ Score(pattern, text) = IF Embeddings(pattern, text) = {} THEN NoScore
                                   ELSE <<Max({Worth(text, s) : s \in Embeddings(pattern, text)})>>
         /\ IsSubsequence(pattern, Keys(text)) <=> Embeddings(pattern, text) # {}
<1>1. PICK n \in Nat : n = Len(pattern) /\ n # 0
  BY DEF IsTable
<1> DEFINE row == Rows(pattern, text)
           ways == Embeddings(pattern, text)
           last == row[n]
<1>2. IsRows(pattern, text, n, row)
  BY <1>1, RowsGrow
<1> HIDE DEF row
<1>3. ASSUME NEW s \in ways
      PROVE  s[n] \in DOMAIN last /\ Worth(text, s) \in Int /\ Worth(text, s) <= last[s[n]]
  <2>1. PICK w : Way(pattern, text, n, s, w)
    BY <1>1, WaysEmbed
  <2>2. Worth(text, s) = w[n]
    BY <1>1, <2>1, WaysEmbed
  <2> QED BY <1>1, <1>2, <2>1, <2>2, WaysBelow
<1>4. ASSUME NEW j \in DOMAIN last PROVE \E s \in ways : Worth(text, s) = last[j]
  <2>1. Reaches(pattern, text, n, row, j)
    BY <1>1, <1>2, WaysReach
  <2>2. PICK s, w : Way(pattern, text, n, s, w) /\ w[n] = last[j]
    BY <2>1 DEF Reaches
  <2>3. s \in ways /\ Worth(text, s) = w[n]
    BY <1>1, <2>2, WaysEmbed
  <2> QED BY <2>2, <2>3
<1>5. ways = {} <=> DOMAIN last = {}
  BY <1>3, <1>4
<1>6. Len(pattern) > Len(text) => ways = {}
  BY <1>1, TooLong, WaysEmbed
<1>7. ASSUME ways # {}
      PROVE  Max({last[j] : j \in DOMAIN last}) = Max({Worth(text, s) : s \in ways})
  <2> DEFINE worths == {Worth(text, s) : s \in ways}
             K == DOMAIN last
  <2>1. PICK m \in Nat : DOMAIN text = 1..m
    BY DEF IsTable
  <2>2. last \in Scores(text)
    BY <1>1, <1>2 DEF IsRows
  <2>3. K \in SUBSET (1..m) /\ K # {} /\ \A k \in K : last[k] \in Int
    BY <1>5, <1>7, <2>1, <2>2 DEF Scores
  <2> HIDE DEF K, last, ways
  <2>4. PICK k \in K : /\ Max({last[j] : j \in K}) = last[k]
                       /\ \A j \in K : last[j] <= last[k]
    <3> DEFINE top == Max({last[i] : i \in K})
    <3>1. (\E k \in K : top = last[k]) /\ \A k \in K : last[k] <= top
      BY <2>1, <2>3, MaxTaken
    <3> HIDE DEF top
    <3>2. \E k \in K : top = last[k] /\ \A j \in K : last[j] <= last[k]
      BY <3>1
    <3> QED BY <3>2 DEF top
  <2>5. worths \in SUBSET Int /\ last[k] \in worths
    BY <1>3, <1>4 DEF K
  <2>6. \A y \in worths : y <= last[k]
    <3>1. ASSUME NEW s \in ways PROVE Worth(text, s) <= last[k]
      <4>1. s[n] \in K /\ Worth(text, s) \in Int /\ Worth(text, s) <= last[s[n]]
        BY <1>3 DEF K
      <4>2. last[s[n]] <= last[k] /\ last[s[n]] \in Int /\ last[k] \in Int
        BY <2>3, <2>4, <4>1
      <4> QED BY <4>1, <4>2
    <3> QED BY <3>1
  <2> HIDE DEF worths
  <2>7. Max(worths) = last[k]
    BY <2>5, <2>6, MaxIs
  <2> QED BY <2>4, <2>7 DEF worths, K
<1>8. Score(pattern, text) = IF Len(pattern) > Len(text) THEN NoScore
                             ELSE IF DOMAIN last = {} THEN NoScore
                             ELSE <<Max({last[j] : j \in DOMAIN last})>>
  BY <1>1 DEF Score, row
<1>9. IsSubsequence(pattern, Keys(text)) <=> DOMAIN last # {}
  BY <1>1, <1>2, PlacesAre
<1> HIDE DEF ways, last
<1>10. Score(pattern, text) = IF ways = {} THEN NoScore ELSE <<Max({Worth(text, s) : s \in ways})>>
  BY <1>5, <1>6, <1>7, <1>8, Zenon
<1> QED BY <1>5, <1>9, <1>10 DEF ways

LEMMA BestKept ==
  ASSUME question.ask = "search" => SearchAsked
  PROVE  BestScore
<1> SUFFICES ASSUME SearchAsked PROVE BestScore
  BY DEF BestScore
<1> DEFINE pattern == question.pattern
           text == question.text
           ways == Embeddings(pattern, text)
<1>1. IsTable(pattern) /\ IsTable(text)
  BY DEF SearchAsked
<1>2. \A x : <<x>> # << >>
  OBVIOUS
<1>3. IsSubsequence(pattern, Keys(text)) \in BOOLEAN
  BY DEF IsSubsequence
<1>4. CASE pattern = << >>
  <2>1. Score(pattern, text) # NoScore
    BY <1>2, <1>4 DEF Score, NoScore
  <2>2. IsSubsequence(pattern, Keys(text))
    <3> DEFINE Is(g) == g = [i \in 0..Len(pattern) |->
                               IF i = 0 THEN {0}
                               ELSE {j \in DOMAIN Keys(text) : /\ Keys(text)[j] = pattern[i]
                                                               /\ \E k \in g[i - 1] : k < j}]
               places == CHOOSE g : Is(g)
    <3>1. IsSubsequence(pattern, Keys(text)) <=> places[Len(pattern)] # {}
      BY DEF IsSubsequence
    <3>2. Len(pattern) = 0 /\ \A i \in 0..0 : i = 0
      BY <1>4
    <3>3. Is([i \in 0..0 |-> {0}])
      BY <3>2
    <3>4. Is(places)
      BY <3>3, Zenon
    <3> HIDE DEF places
    <3>5. places[0] = {0}
      BY <3>2, <3>4
    <3> QED BY <3>1, <3>2, <3>5
  <2> QED BY <1>3, <1>4, <2>1, <2>2 DEF BestScore
<1>5. CASE pattern # << >>
  <2>1. /\ Score(pattern, text) = IF ways = {} THEN NoScore
                                  ELSE <<Max({Worth(text, s) : s \in ways})>>
        /\ IsSubsequence(pattern, Keys(text)) <=> ways # {}
    BY <1>1, <1>5, ScoreIs
  <2>2. Score(pattern, text) # NoScore <=> ways # {}
    BY <1>2, <2>1 DEF NoScore
  <2> QED BY <1>3, <2>1, <2>2 DEF BestScore
<1> QED BY <1>4, <1>5

\* The score of a name is that of the best way to find the pattern in it, and the names SQLite
\* selects are those that have one (fuzzyMatch.ts, searchSymbolNames).
THEOREM BestScoreAlwaysFound == LookupSpec => []BestScore
<1>1. AskedInv => BestScore
  BY BestKept DEF AskedInv
<1> QED BY <1>1, AskedAlways, PTL


----------------------------------------------------------------------------
(* Comments and literals.                                                     *)

Parts == {"code", "//", "/*"} \cup Quotes
ScanState == [state : Parts, pair : BOOLEAN, part : Parts]
AtStart == [state |-> "code", pair |-> FALSE, part |-> "code"]
Scans(text, across, g) ==
    /\ g[0] = AtStart
    /\ \A i \in 1..Len(text) : g[i] = Classify(g[i - 1], text[i], Following(text, i), across)

LEMMA OpenedType == ASSUME NEW c, NEW next PROVE Opened(c, next) \in Parts
BY DEF Opened, Parts

LEMMA ClassifyType ==
  ASSUME NEW s \in ScanState, NEW c, NEW next, NEW across \in BOOLEAN
  PROVE  Classify(s, c, next, across) \in ScanState
<1>1. CASE s.pair
  BY <1>1 DEF Classify, ScanState
<1>2. CASE ~s.pair /\ s.state = "code"
  <2>1. PICK o \in Parts : o = Opened(c, next)
    BY OpenedType
  <2>2. Read(s.state, c, next, across) = [state |-> o, pair |-> o \in {"//", "/*"}]
    BY <1>2, <2>1 DEF Read, Quotes
  <2>3. Classify(s, c, next, across) = [state |-> o, pair |-> o \in {"//", "/*"}, part |-> o]
    BY <1>2, <2>2 DEF Classify
  <2> QED BY <2>3 DEF ScanState
<1>3. CASE ~s.pair /\ s.state = "//"
  BY <1>3 DEF Classify, Read, ScanState, Parts, Quotes
<1>4. CASE ~s.pair /\ s.state = "/*"
  BY <1>4 DEF Classify, Read, ScanState, Parts, Quotes
<1>5. CASE ~s.pair /\ s.state \in Quotes
  BY <1>5 DEF Classify, Read, ScanState, Parts, Quotes
<1> QED BY <1>1, <1>2, <1>3, <1>4, <1>5 DEF ScanState, Parts

\* The rules of the scan, one for each state.
LEMMA ScanRules ==
  ASSUME NEW s \in ScanState, NEW c, NEW next, NEW across \in BOOLEAN,
         NEW r, r = Classify(s, c, next, across)
  PROVE  /\ s.pair => r.state = s.state /\ r.part = s.part /\ ~r.pair
         /\ ~s.pair /\ s.state = "code" =>
               /\ r.state = Opened(c, next) /\ r.part = Opened(c, next)
               /\ r.pair <=> Opened(c, next) \in {"//", "/*"}
         /\ ~s.pair /\ s.state = "//" =>
               r.state = (IF c = NewLine THEN "code" ELSE "//") /\ r.part = "//" /\ ~r.pair
         /\ ~s.pair /\ s.state = "/*" =>
               /\ r.part = "/*"
               /\ r.state = IF c = "*" /\ next = "/" THEN "code" ELSE "/*"
               /\ r.pair <=> c = "*" /\ next = "/"
         /\ ~s.pair /\ s.state \in Quotes =>
               /\ r.part = s.state
               /\ c # NewLine => r.state = IF c = s.state THEN "code" ELSE s.state
               /\ r.pair => c = "\\"
               /\ next # NewLine => (r.pair <=> c = "\\")
<1>1. CASE s.pair
  BY <1>1 DEF Classify, ScanState
<1>2. CASE ~s.pair /\ s.state = "code"
  BY <1>2 DEF Classify, Read, ScanState, Parts, Quotes
<1>3. CASE ~s.pair /\ s.state = "//"
  BY <1>3 DEF Classify, Read, ScanState, Parts, Quotes
<1>4. CASE ~s.pair /\ s.state = "/*"
  BY <1>4 DEF Classify, Read, ScanState, Parts, Quotes
<1>5. CASE ~s.pair /\ s.state \in Quotes
  BY <1>5 DEF Classify, Read, ScanState, Parts, Quotes, Escapes
<1> QED BY <1>1, <1>2, <1>3, <1>4, <1>5 DEF ScanState, Parts


LEMMA Scanned ==
  ASSUME NEW text, IsTable(text), NEW across \in BOOLEAN
  PROVE  \E g : /\ Scans(text, across, g)
                /\ \A i \in 0..Len(text) : g[i] \in ScanState
                /\ Classified(text, across) = [i \in DOMAIN text |-> g[i].part]
<1> DEFINE n == Len(text)
           Is(g) == g = [i \in 0..n |->
                           IF i = 0 THEN [state |-> "code", pair |-> FALSE, part |-> "code"]
                           ELSE Classify(g[i - 1], text[i], Following(text, i), across)]
           scan == CHOOSE g : Is(g)
           T == ScanState
           F == [i \in (0 + 1)..n |-> [s \in T |-> Classify(s, text[i], Following(text, i), across)]]
<1>1. Classified(text, across) = [i \in DOMAIN text |-> scan[i].part]
  BY DEF Classified
<1>2. AtStart \in T
  BY DEF AtStart, ScanState, Parts
<1>3. \A i \in 1..n : \A s \in T : Classify(s, text[i], Following(text, i), across) \in T
  BY ClassifyType
<1>4. n \in Int /\ 0 \in Int
  BY DEF IsTable
<1>5. /\ F \in [(0 + 1)..n -> [T -> T]]
      /\ \A i \in 1..n : \A s \in T : F[i][s] = Classify(s, text[i], Following(text, i), across)
  BY <1>3
<1> HIDE DEF T, F, n
<1>6. PICK h \in [0..n -> T] : Iterates(0, n, AtStart, F, h)
  BY <1>2, <1>4, <1>5, Recursion
<1>7. n \in Nat
  BY DEF n, IsTable
<1>8. /\ h[0] = AtStart
      /\ \A i \in 1..n : h[i] = F[i][h[i - 1]] /\ h[i - 1] \in T
  BY <1>6, <1>7 DEF Iterates
<1>9. \A i \in 1..n : h[i] = Classify(h[i - 1], text[i], Following(text, i), across)
  BY <1>5, <1>8
<1>10. Is(h)
  BY <1>6, <1>7, <1>8, <1>9 DEF AtStart
<1>11. Is(scan)
  BY <1>10, Zenon
<1> HIDE DEF scan
<1>12. /\ scan[0] = AtStart
       /\ \A i \in 1..n : scan[i] = Classify(scan[i - 1], text[i], Following(text, i), across)
  <2> DEFINE Value(i) == IF i = 0 THEN AtStart
                         ELSE Classify(scan[i - 1], text[i], Following(text, i), across)
  <2>1. scan = [i \in 0..n |-> Value(i)]
    BY <1>11 DEF AtStart
  <2> HIDE DEF Value
  <2>2. \A i \in 0..n : scan[i] = Value(i)
    BY <2>1
  <2> QED BY <1>7, <2>2 DEF Value
<1>13. \A i \in 0..n : scan[i] \in T
  <2> DEFINE S == {i \in 0..n : scan[i] \in T}
  <2>1. 0 \in S
    BY <1>2, <1>7, <1>12
  <2>2. \A i \in (0 + 1)..n : i - 1 \in S => i \in S
    BY <1>3, <1>7, <1>12 DEF T, n
  <2> HIDE DEF S
  <2>3. 0..n \subseteq S
    BY <1>4, <2>1, <2>2, RangeInduct
  <2> QED BY <2>3 DEF S
<1>14. Scans(text, across, scan)
  BY <1>12 DEF Scans, n
<1> QED BY <1>1, <1>13, <1>14 DEF T, n


\* Between two lexemes the scan is in code and has taken nothing.
Clear(s) == s.state = "code" /\ ~s.pair

\* A scan that is clear before the token a, and what it is at the token i.
ClearFrom(text, across, g, a, b) ==
    /\ IsTable(text) /\ across \in BOOLEAN /\ Scans(text, across, g)
    /\ \A i \in 0..Len(text) : g[i] \in ScanState
    /\ a \in Nat /\ b \in Nat /\ 1 <= a /\ a <= b /\ b <= Len(text)
    /\ Clear(g[a - 1])

LEMMA ScanStep ==
  ASSUME NEW text, NEW across, NEW g, NEW a, NEW b, ClearFrom(text, across, g, a, b),
         NEW i \in a..b
  PROVE  /\ g[i - 1] \in ScanState /\ g[i] \in ScanState /\ across \in BOOLEAN
         /\ g[i] = Classify(g[i - 1], text[i], Following(text, i), across)
         /\ i < b => Following(text, i) = text[i + 1]
<1>1. Len(text) \in Nat
  BY DEF ClearFrom, IsTable
<1>2. i \in 1..Len(text) /\ i - 1 \in 0..Len(text) /\ i \in 0..Len(text)
  BY <1>1 DEF ClearFrom
<1> QED BY <1>1, <1>2 DEF ClearFrom, Scans, Following

LEMMA StepTaken ==
  ASSUME NEW text, NEW across, NEW g, NEW a, NEW b, ClearFrom(text, across, g, a, b),
         NEW i \in a..b, g[i - 1].pair
  PROVE  g[i].state = g[i - 1].state /\ g[i].part = g[i - 1].part /\ ~g[i].pair
<1>1. /\ g[i - 1] \in ScanState /\ across \in BOOLEAN
      /\ g[i] = Classify(g[i - 1], text[i], Following(text, i), across)
  BY ScanStep
<1> QED BY <1>1, ScanRules

LEMMA StepCode ==
  ASSUME NEW text, NEW across, NEW g, NEW a, NEW b, ClearFrom(text, across, g, a, b),
         NEW o, o = Opened(text[a], Following(text, a))
  PROVE  g[a].state = o /\ g[a].part = o /\ (g[a].pair <=> o \in {"//", "/*"})
<1>1. a \in a..b
  BY DEF ClearFrom
<1>2. /\ g[a - 1] \in ScanState /\ across \in BOOLEAN
      /\ g[a] = Classify(g[a - 1], text[a], Following(text, a), across)
  BY <1>1, ScanStep
<1> QED BY <1>2, ScanRules DEF ClearFrom, Clear

LEMMA StepLine ==
  ASSUME NEW text, NEW across, NEW g, NEW a, NEW b, ClearFrom(text, across, g, a, b),
         NEW i \in a..b, ~g[i - 1].pair, g[i - 1].state = "//"
  PROVE  g[i].state = (IF text[i] = NewLine THEN "code" ELSE "//") /\ g[i].part = "//" /\ ~g[i].pair
<1>1. /\ g[i - 1] \in ScanState /\ across \in BOOLEAN
      /\ g[i] = Classify(g[i - 1], text[i], Following(text, i), across)
  BY ScanStep
<1> QED BY <1>1, ScanRules

LEMMA StepBlock ==
  ASSUME NEW text, NEW across, NEW g, NEW a, NEW b, ClearFrom(text, across, g, a, b),
         NEW i \in a..b, i < b, ~g[i - 1].pair, g[i - 1].state = "/*"
  PROVE  /\ g[i].part = "/*"
         /\ text[i] = "*" /\ text[i + 1] = "/" => g[i].state = "code" /\ g[i].pair
         /\ ~(text[i] = "*" /\ text[i + 1] = "/") => g[i].state = "/*" /\ ~g[i].pair
<1>1. /\ g[i - 1] \in ScanState /\ across \in BOOLEAN /\ Following(text, i) = text[i + 1]
      /\ g[i] = Classify(g[i - 1], text[i], text[i + 1], across)
  BY ScanStep
<1> QED BY <1>1, ScanRules

LEMMA StepLiteral ==
  ASSUME NEW text, NEW across, NEW g, NEW a, NEW b, ClearFrom(text, across, g, a, b),
         NEW i \in a..b, ~g[i - 1].pair, NEW q \in Quotes, g[i - 1].state = q, text[i] # NewLine
  PROVE  /\ g[i].part = q
         /\ text[i] = q => g[i].state = "code"
         /\ text[i] # q => g[i].state = q
         /\ g[i].pair => text[i] = "\\"
         /\ i < b /\ text[i + 1] # NewLine => (g[i].pair <=> text[i] = "\\")
<1>1. /\ g[i - 1] \in ScanState /\ across \in BOOLEAN
      /\ g[i] = Classify(g[i - 1], text[i], Following(text, i), across)
      /\ i < b => Following(text, i) = text[i + 1]
  BY ScanStep
<1> QED BY <1>1, ScanRules

LEMMA CodeScanned ==
  ASSUME NEW text, NEW across, NEW g, NEW a, NEW b, ClearFrom(text, across, g, a, b),
         IsCode(text, a, b)
  PROVE  Clear(g[b]) /\ \A i \in a..b : g[i].part = "code"
<1>1. a \in Int /\ a = b
  BY DEF ClearFrom, IsCode
<1>2. Opened(text[a], Following(text, a)) = "code"
  BY DEF IsCode, Opened
<1>3. g[a].state = "code" /\ g[a].part = "code" /\ ~g[a].pair
  BY <1>2, StepCode
<1> QED BY <1>1, <1>3 DEF Clear

LEMMA BlockScanned ==
  ASSUME NEW text, NEW across, NEW g, NEW a, NEW b, ClearFrom(text, across, g, a, b),
         IsBlockComment(text, a, b)
  PROVE  Clear(g[b]) /\ \A i \in a..b : g[i].part = "/*"
<1> DEFINE In(i) == g[i].state = "/*" /\ g[i].part = "/*"
           S == {i \in (a + 1)..(b - 2) : In(i) /\ ~g[i].pair}
<1>1. /\ a \in Int /\ b \in Int /\ a + 3 <= b /\ text[a] = "/" /\ text[a + 1] = "*"
      /\ \A i \in (a + 2)..(b - 1) : (text[i] = "*" /\ text[i + 1] = "/") <=> i = b - 1
  BY DEF ClearFrom, IsBlockComment
<1>2. In(a) /\ g[a].pair
  <2>1. a \in a..b /\ a < b
    BY <1>1
  <2>2. Following(text, a) = "*"
    BY <1>1, <2>1, ScanStep
  <2>3. Opened(text[a], Following(text, a)) = "/*"
    BY <1>1, <2>2 DEF Opened, Quotes
  <2> QED BY <2>3, StepCode
<1>3. In(a + 1) /\ ~g[a + 1].pair
  <2>1. a + 1 \in a..b /\ (a + 1) - 1 = a
    BY <1>1
  <2>2. g[(a + 1) - 1].pair
    BY <1>2, <2>1
  <2>3. g[a + 1].state = g[a].state /\ g[a + 1].part = g[a].part /\ ~g[a + 1].pair
    BY <2>1, <2>2, StepTaken
  <2> QED BY <1>2, <2>3
<1>4. ASSUME NEW i \in (a + 2)..(b - 2), i - 1 \in S PROVE i \in S
  <2>1. i \in a..b /\ i < b /\ i # b - 1 /\ i \in (a + 2)..(b - 1) /\ i \in (a + 1)..(b - 2)
    BY <1>1
  <2>2. ~(text[i] = "*" /\ text[i + 1] = "/")
    BY <1>1, <2>1
  <2>3. g[i - 1].state = "/*" /\ ~g[i - 1].pair
    BY <1>4
  <2>4. In(i) /\ ~g[i].pair
    BY <2>1, <2>2, <2>3, StepBlock
  <2> QED BY <2>1, <2>4
<1>5. (a + 1)..(b - 2) \subseteq S
  <2>1. PICK m \in Int, l \in Int : m = a + 1 /\ l = b - 2 /\ m + 1 = a + 2 /\ m \in m..l
    BY <1>1
  <2>2. m \in S
    BY <1>3, <2>1
  <2>3. \A i \in (m + 1)..l : i - 1 \in S => i \in S
    BY <1>4, <2>1
  <2> HIDE DEF S
  <2>4. m..l \subseteq S
    BY <2>2, <2>3, RangeInduct
  <2> QED BY <2>1, <2>4
<1>6. g[b - 1].state = "code" /\ g[b - 1].part = "/*" /\ g[b - 1].pair
  <2>1. b - 1 \in a..b /\ b - 1 < b /\ b - 1 \in (a + 2)..(b - 1)
    BY <1>1
  <2>2. text[b - 1] = "*" /\ text[(b - 1) + 1] = "/"
    BY <1>1, <2>1
  <2>3. (b - 1) - 1 \in (a + 1)..(b - 2)
    BY <1>1
  <2>4. g[(b - 1) - 1].state = "/*" /\ ~g[(b - 1) - 1].pair
    BY <1>5, <2>3
  <2> QED BY <2>1, <2>2, <2>4, StepBlock
<1>7. g[b].state = "code" /\ g[b].part = "/*" /\ ~g[b].pair
  <2>1. b \in a..b
    BY <1>1
  <2> QED BY <1>6, <2>1, StepTaken
<1>8. \A i \in a..b : i = a \/ i \in (a + 1)..(b - 2) \/ i = b - 1 \/ i = b
  BY <1>1
<1> QED BY <1>2, <1>5, <1>6, <1>7, <1>8 DEF Clear


LEMMA LineScanned ==
  ASSUME NEW text, NEW across, NEW g, NEW a, NEW b, ClearFrom(text, across, g, a, b),
         IsLineComment(text, a, b)
  PROVE  /\ text[b] = NewLine => Clear(g[b])
         /\ \A i \in a..b : g[i].part = "//"
<1> DEFINE S == {i \in (a + 1)..b : /\ g[i].part = "//" /\ ~g[i].pair
                                    /\ g[i].state = IF text[i] = NewLine THEN "code" ELSE "//"}
<1>1. /\ a \in Int /\ b \in Int /\ a < b /\ text[a] = "/" /\ text[a + 1] = "/"
      /\ \A i \in a..b : text[i] = NewLine => i = b
  BY DEF ClearFrom, IsLineComment
<1>2. g[a].state = "//" /\ g[a].part = "//" /\ g[a].pair
  <2>1. a \in a..b
    BY <1>1
  <2>2. Following(text, a) = "/"
    BY <1>1, <2>1, ScanStep
  <2>3. Opened(text[a], Following(text, a)) = "//"
    BY <1>1, <2>2 DEF Opened, Quotes
  <2> QED BY <2>3, StepCode
<1>3. a + 1 \in S
  <2>1. a + 1 \in a..b /\ (a + 1) - 1 = a /\ a + 1 \in (a + 1)..b
    BY <1>1
  <2>2. g[(a + 1) - 1].pair
    BY <1>2, <2>1
  <2>3. g[a + 1].state = g[a].state /\ g[a + 1].part = g[a].part /\ ~g[a + 1].pair
    BY <2>1, <2>2, StepTaken
  <2>4. text[a + 1] # NewLine
    BY <1>1 DEF NewLine
  <2> QED BY <1>2, <2>1, <2>3, <2>4
<1>4. ASSUME NEW i \in (a + 2)..b, i - 1 \in S PROVE i \in S
  <2>1. i \in a..b /\ i - 1 \in a..b /\ i - 1 # b /\ i \in (a + 1)..b
    BY <1>1
  <2>2. g[i - 1].state = "//" /\ ~g[i - 1].pair
    BY <1>1, <1>4, <2>1
  <2> QED BY <2>1, <2>2, StepLine
<1>5. (a + 1)..b \subseteq S
  <2>1. PICK m \in Int : m = a + 1 /\ m + 1 = a + 2
    BY <1>1
  <2>2. m \in S
    BY <1>3, <2>1
  <2>3. \A i \in (m + 1)..b : i - 1 \in S => i \in S
    BY <1>4, <2>1
  <2> HIDE DEF S
  <2>4. m..b \subseteq S
    BY <1>1, <2>2, <2>3, RangeInduct
  <2> QED BY <2>1, <2>4
<1>6. \A i \in a..b : i = a \/ i \in (a + 1)..b
  BY <1>1
<1>7. b \in (a + 1)..b
  BY <1>1
<1> QED BY <1>2, <1>5, <1>6, <1>7 DEF Clear

\* A backslash that is not escaped itself escapes what follows it, and nothing else does.
RunFrom(text, a, i, k) ==
    /\ k \in (a + 1)..(i - 1)
    /\ \A j \in k..(i - 1) : text[j] = "\\"
    /\ k = a + 1 \/ text[k - 1] # "\\"
Odd(m) == \E n \in 0..m : m = n + n + 1

LEMMA EscapedIs ==
  ASSUME NEW text, NEW a, NEW i
  PROVE  Escaped(text, a, i) <=> \E k : RunFrom(text, a, i, k) /\ Odd(i - k)
BY DEF Escaped, RunFrom, Odd

LEMMA RunUnique ==
  ASSUME NEW text, NEW a \in Int, NEW i \in Int, NEW k, RunFrom(text, a, i, k),
         NEW l, RunFrom(text, a, i, l), k < l
  PROVE  FALSE
<1>1. l - 1 \in k..(i - 1) /\ l # a + 1
  BY DEF RunFrom
<1> QED BY <1>1 DEF RunFrom

LEMMA RunExists ==
  ASSUME NEW text, NEW a \in Int, NEW i \in Int, a + 1 < i, text[i - 1] = "\\"
  PROVE  \E k : RunFrom(text, a, i, k)
<1> DEFINE S == {m \in Nat : a + 1 + m < i /\ \A j \in (a + 1 + m)..(i - 1) : text[j] = "\\"}
<1>1. PICK d \in Nat : a + 1 + d = i - 1
  <2>1. (i - 1) - (a + 1) \in Nat
    OBVIOUS
  <2> QED BY <2>1
<1>2. d \in S
  <2>1. \A j \in (a + 1 + d)..(i - 1) : j = i - 1
    BY <1>1
  <2> QED BY <1>1, <2>1
<1>3. PICK m \in S : \A n \in S : m <= n
  BY <1>2, NatMin
<1>4. a + 1 + m = a + 1 \/ text[a + m] # "\\"
  <2> SUFFICES ASSUME m # 0, text[a + m] = "\\" PROVE FALSE
    BY <1>3
  <2>1. m - 1 \in Nat /\ a + 1 + (m - 1) < i
    BY <1>3
  <2>2. \A j \in (a + 1 + (m - 1))..(i - 1) : j = a + m \/ j \in (a + 1 + m)..(i - 1)
    BY <1>3
  <2>3. m - 1 \in S
    BY <1>3, <2>1, <2>2
  <2> QED BY <1>3, <2>3
<1>5. (a + 1 + m) - 1 = a + m /\ a + 1 + m \in (a + 1)..(i - 1)
  BY <1>3
<1>6. RunFrom(text, a, i, a + 1 + m)
  BY <1>3, <1>4, <1>5 DEF RunFrom
<1> QED BY <1>6

LEMMA Parity ==
  ASSUME NEW m \in Nat
  PROVE  (Odd(m) /\ Odd(m + 1) => FALSE) /\ (Odd(m) \/ Odd(m + 1))
<1> DEFINE S == {j \in Nat : Odd(j) \/ Odd(j + 1)}
<1>1. 0 \in S
  BY DEF Odd
<1>2. ASSUME NEW j \in S PROVE j + 1 \in S
  <2>1. CASE Odd(j + 1)
    BY <2>1
  <2>2. CASE Odd(j)
    <3>1. PICK n \in 0..j : j = n + n + 1
      BY <2>2 DEF Odd
    <3>2. n + 1 \in 0..((j + 1) + 1) /\ (j + 1) + 1 = (n + 1) + (n + 1) + 1
      BY <3>1
    <3> QED BY <3>2 DEF Odd
  <2> QED BY <1>2, <2>1, <2>2
<1> HIDE DEF S
<1>3. S = Nat
  <2>1. S \in SUBSET Nat
    BY DEF S
  <2> QED BY <1>1, <1>2, <2>1, Induct
<1>4. Odd(m) \/ Odd(m + 1)
  BY <1>3 DEF S
<1>5. Odd(m) /\ Odd(m + 1) => FALSE
  BY DEF Odd
<1> QED BY <1>4, <1>5

LEMMA EscapedNext ==
  ASSUME NEW text, NEW a \in Int, NEW i \in Int, a < i
  PROVE  Escaped(text, a, i + 1) <=> text[i] = "\\" /\ ~Escaped(text, a, i)
<1>1. ASSUME NEW k, RunFrom(text, a, i + 1, k)
      PROVE  /\ k \in Int /\ text[i] = "\\" /\ (i + 1) - k \in Nat
             /\ k = i \/ (RunFrom(text, a, i, k) /\ i - k \in Nat /\ (i + 1) - k = (i - k) + 1)
  BY <1>1 DEF RunFrom
<1>2. ASSUME NEW k, RunFrom(text, a, i, k), text[i] = "\\"
      PROVE  RunFrom(text, a, i + 1, k) /\ k \in Int /\ i - k \in Nat /\ (i + 1) - k = (i - k) + 1
  <2>1. \A j \in k..((i + 1) - 1) : j = i \/ j \in k..(i - 1)
    BY <1>2 DEF RunFrom
  <2> QED BY <1>2, <2>1 DEF RunFrom
<1>3. ASSUME Escaped(text, a, i + 1), Escaped(text, a, i) PROVE FALSE
  <2>1. PICK k : RunFrom(text, a, i + 1, k) /\ Odd((i + 1) - k)
    BY <1>3, EscapedIs
  <2>2. PICK l : RunFrom(text, a, i, l) /\ Odd(i - l)
    BY <1>3, EscapedIs
  <2>3. text[i] = "\\"
    BY <1>1, <2>1
  <2>4. RunFrom(text, a, i + 1, l) /\ l \in Int /\ i - l \in Nat /\ (i + 1) - l = (i - l) + 1
    BY <1>2, <2>2, <2>3
  <2>5. k \in Int
    BY <1>1, <2>1
  <2>6. i + 1 \in Int
    OBVIOUS
  <2>7. k = l
    BY <2>1, <2>4, <2>5, <2>6, RunUnique
  <2> QED BY <2>1, <2>2, <2>4, <2>7, Parity
<1>4. ASSUME Escaped(text, a, i + 1) PROVE text[i] = "\\"
  BY <1>1, <1>4, EscapedIs
<1>5. ASSUME text[i] = "\\", ~Escaped(text, a, i) PROVE Escaped(text, a, i + 1)
  <2>1. PICK k : RunFrom(text, a, i + 1, k)
    <3>1. i + 1 \in Int /\ a + 1 < i + 1 /\ (i + 1) - 1 = i
      OBVIOUS
    <3> QED BY <1>5, <3>1, RunExists
  <2>2. CASE k = i
    <3>1. (i + 1) - k = 1
      BY <2>2
    <3>2. Odd(1)
      BY DEF Odd
    <3> QED BY <2>1, <3>1, <3>2, EscapedIs
  <2>3. CASE k # i
    <3>1. RunFrom(text, a, i, k) /\ i - k \in Nat /\ (i + 1) - k = (i - k) + 1
      BY <1>1, <2>1, <2>3
    <3>2. ~Odd(i - k)
      BY <1>5, <3>1, EscapedIs
    <3>3. Odd((i + 1) - k)
      BY <3>1, <3>2, Parity
    <3> QED BY <2>1, <3>3, EscapedIs
  <2> QED BY <2>2, <2>3
<1> QED BY <1>3, <1>4, <1>5


LEMMA LiteralScanned ==
  ASSUME NEW text, NEW across, NEW g, NEW a, NEW b, ClearFrom(text, across, g, a, b),
         IsLiteral(text, a, b)
  PROVE  Clear(g[b]) /\ \A i \in a..b : g[i].part \in Quotes
<1> DEFINE Held(i) == /\ g[i].state = text[a] /\ g[i].part = text[a]
                      /\ g[i].pair <=> Escaped(text, a, i + 1)
           S == {i \in a..(b - 1) : Held(i)}
<1>1. /\ a \in Int /\ b \in Int /\ a < b
      /\ \A i \in a..b : text[i] # NewLine
      /\ \A i \in (a + 1)..b : text[i] = text[a] => (i = b <=> ~Escaped(text, a, i))
      /\ text[a] \in Quotes /\ text[b] = text[a]
  BY DEF ClearFrom, IsLiteral
<1>2. a \in S
  <2>1. Opened(text[a], Following(text, a)) = text[a]
    BY <1>1 DEF Opened, Quotes
  <2>2. g[a].state = text[a] /\ g[a].part = text[a] /\ ~g[a].pair
    <3>1. text[a] \notin {"//", "/*"}
      BY <1>1 DEF Quotes
    <3> QED BY <2>1, <3>1, StepCode
  <2>3. ~Escaped(text, a, a + 1)
    BY <1>1 DEF Escaped
  <2> QED BY <1>1, <2>2, <2>3
<1>3. ASSUME NEW i \in (a + 1)..(b - 1), i - 1 \in S PROVE i \in S
  <2>1. /\ i \in Int /\ i \in a..b /\ i \in (a + 1)..b /\ i # b /\ i \in a..(b - 1)
        /\ a < i /\ i < b /\ i + 1 \in a..b /\ (i - 1) + 1 = i
    BY <1>1
  <2>2. /\ g[i - 1].state = text[a] /\ g[i - 1].part = text[a]
        /\ g[i - 1].pair <=> Escaped(text, a, i)
    BY <1>3, <2>1
  <2>3. Escaped(text, a, i + 1) <=> text[i] = "\\" /\ ~Escaped(text, a, i)
    BY <1>1, <2>1, EscapedNext
  <2>4. CASE Escaped(text, a, i)
    <3>1. g[i].state = g[i - 1].state /\ g[i].part = g[i - 1].part /\ ~g[i].pair
      BY <2>1, <2>2, <2>4, StepTaken
    <3> QED BY <2>1, <2>2, <2>3, <2>4, <3>1
  <2>5. CASE ~Escaped(text, a, i)
    <3>1. text[i] # text[a] /\ text[i] # NewLine /\ text[i + 1] # NewLine
      BY <1>1, <2>1, <2>5
    <3>2. g[i].part = text[a] /\ g[i].state = text[a] /\ (g[i].pair <=> text[i] = "\\")
      BY <1>1, <2>1, <2>2, <2>5, <3>1, StepLiteral
    <3> QED BY <2>1, <2>3, <2>5, <3>2
  <2> QED BY <2>4, <2>5
<1>4. a..(b - 1) \subseteq S
  <2>1. PICK l \in Int : l = b - 1
    BY <1>1
  <2>2. \A i \in (a + 1)..l : i - 1 \in S => i \in S
    BY <1>3, <2>1
  <2> HIDE DEF S
  <2>3. a..l \subseteq S
    BY <1>1, <1>2, <2>2, RangeInduct
  <2> QED BY <2>1, <2>3
<1>5. g[b].state = "code" /\ g[b].part = text[a] /\ ~g[b].pair
  <2>1. b \in a..b /\ b \in (a + 1)..b /\ b - 1 \in a..(b - 1) /\ (b - 1) + 1 = b
    BY <1>1
  <2>2. Held(b - 1)
    BY <1>4, <2>1
  <2>3. g[b - 1].state = text[a] /\ ~g[b - 1].pair
    BY <1>1, <2>1, <2>2
  <2>4. text[b] # NewLine /\ text[b] # "\\"
    BY <1>1, <2>1 DEF Quotes
  <2> QED BY <1>1, <2>1, <2>3, <2>4, StepLiteral
<1>6. \A i \in a..b : i \in a..(b - 1) \/ i = b
  BY <1>1
<1> QED BY <1>1, <1>4, <1>5, <1>6 DEF Clear

LEMMA LexemeScanned ==
  ASSUME NEW text, NEW across, NEW g, NEW l, ClearFrom(text, across, g, l.first, l.last),
         IsLexeme(text, l)
  PROVE  /\ l.last < Len(text) => Clear(g[l.last])
         /\ \A i \in l.first..l.last :
               g[i].part \in IF l.part = "code" THEN {"code"}
                             ELSE IF l.part = "comment" THEN {"//", "/*"} ELSE Quotes
<1>1. CASE l.part = "code" /\ IsCode(text, l.first, l.last)
  BY <1>1, CodeScanned
<1>2. CASE l.part = "literal" /\ IsLiteral(text, l.first, l.last)
  BY <1>2, LiteralScanned
<1>3. CASE l.part = "comment" /\ IsLineComment(text, l.first, l.last)
  <2>1. l.last < Len(text) => text[l.last] = NewLine
    BY <1>3 DEF IsLineComment, ClearFrom, IsTable
  <2> QED BY <1>3, <2>1, LineScanned
<1>4. CASE l.part = "comment" /\ IsBlockComment(text, l.first, l.last)
  BY <1>4, BlockScanned
<1> QED BY <1>1, <1>2, <1>3, <1>4 DEF IsLexeme

LEMMA LexemesScanned ==
  ASSUME TextAsked, NEW across \in BOOLEAN, NEW l \in ToSet(question.lexemes), NEW i \in l.first..l.last
  PROVE  /\ i \in DOMAIN question.text
         /\ Classified(question.text, across)[i] \in
               IF l.part = "code" THEN {"code"}
               ELSE IF l.part = "comment" THEN {"//", "/*"} ELSE Quotes
<1> DEFINE text == question.text
           lexemes == question.lexemes
<1>1. PICK g : /\ Scans(text, across, g)
               /\ \A k \in 0..Len(text) : g[k] \in ScanState
               /\ Classified(text, across) = [k \in DOMAIN text |-> g[k].part]
  BY Scanned DEF TextAsked
<1>2. /\ Len(text) \in Nat /\ DOMAIN text = 1..Len(text) /\ IsTable(text)
      /\ Len(lexemes) \in Nat /\ DOMAIN lexemes = 1..Len(lexemes)
      /\ \A n \in 1..Len(lexemes) : lexemes[n].first \in Nat /\ lexemes[n].last \in Nat
  <2>1. /\ Len(lexemes) \in Nat /\ DOMAIN lexemes = 1..Len(lexemes)
        /\ \A n \in 1..Len(lexemes) : lexemes[n] \in [first : Nat, last : Nat, part : STRING]
    <3>1. \A T : \A s \in Seq(T) :
             Len(s) \in Nat /\ DOMAIN s = 1..Len(s) /\ \A n \in 1..Len(s) : s[n] \in T
      OBVIOUS
    <3>2. lexemes \in Seq([first : Nat, last : Nat, part : STRING])
      BY DEF TextAsked
    <3> HIDE DEF lexemes
    <3> QED BY <3>1, <3>2, Zenon
  <2>2. Len(text) \in Nat /\ DOMAIN text = 1..Len(text) /\ IsTable(text)
    BY DEF TextAsked, IsTable
  <2> QED BY <2>1, <2>2
<1> HIDE DEF lexemes
<1>3. \A n \in 1..Len(lexemes) :
        /\ lexemes[n].first = IF n = 1 THEN 1 ELSE lexemes[n - 1].last + 1
        /\ lexemes[n].first <= lexemes[n].last /\ lexemes[n].last <= Len(text)
        /\ IsLexeme(text, lexemes[n])
  BY <1>2 DEF TextAsked, Lexed, lexemes
<1> HIDE DEF text
<1> DEFINE ClearAt(n) == ClearFrom(text, across, g, lexemes[n].first, lexemes[n].last)
           S == {n \in 1..Len(lexemes) : ClearAt(n)}
<1>4. ASSUME NEW n \in 1..Len(lexemes), 1 <= lexemes[n].first, Clear(g[lexemes[n].first - 1])
      PROVE  n \in S
  BY <1>1, <1>2, <1>3, <1>4 DEF ClearFrom
<1>5. 1 <= Len(lexemes) => 1 \in S
  <2> SUFFICES ASSUME 1 <= Len(lexemes) PROVE 1 \in S
    OBVIOUS
  <2>1. 1 \in 1..Len(lexemes) /\ lexemes[1].first = 1 /\ 1 - 1 = 0
    BY <1>2, <1>3
  <2>2. Clear(g[0])
    BY <1>1 DEF Scans, AtStart, Clear
  <2> QED BY <1>4, <2>1, <2>2
<1>6. ASSUME NEW n \in 2..Len(lexemes), n - 1 \in S PROVE n \in S
  <2>1. n \in 1..Len(lexemes) /\ n - 1 \in 1..Len(lexemes) /\ n # 1
    BY <1>2
  <2>2. /\ lexemes[n].first = lexemes[n - 1].last + 1 /\ lexemes[n].first <= Len(text)
        /\ lexemes[n - 1].last < Len(text) /\ 1 <= lexemes[n].first
        /\ lexemes[n].first - 1 = lexemes[n - 1].last
    <3>1. /\ lexemes[n].first = lexemes[n - 1].last + 1
          /\ lexemes[n].first <= lexemes[n].last /\ lexemes[n].last <= Len(text)
      BY <1>3, <2>1
    <3>2. lexemes[n - 1].last \in Nat /\ lexemes[n].last \in Nat /\ lexemes[n].first \in Nat
      BY <1>2, <2>1
    <3> QED BY <1>2, <3>1, <3>2
  <2>3. Clear(g[lexemes[n - 1].last])
    <3>1. ClearAt(n - 1) /\ IsLexeme(text, lexemes[n - 1])
      BY <1>3, <1>6, <2>1
    <3> QED BY <2>2, <3>1, LexemeScanned
  <2> QED BY <1>4, <2>1, <2>2, <2>3
<1>7. 1..Len(lexemes) \subseteq S
  <2>1. 1 \in Int /\ Len(lexemes) \in Int /\ 1 + 1 = 2
    BY <1>2
  <2> HIDE DEF S
  <2> QED BY <1>5, <1>6, <2>1, RangeInduct
<1>8. PICK n \in 1..Len(lexemes) : l = lexemes[n]
  BY <1>2 DEF ToSet, lexemes
<1>9. ClearAt(n) /\ IsLexeme(text, l)
  BY <1>3, <1>7, <1>8
<1>10. i \in DOMAIN text /\ ClearFrom(text, across, g, l.first, l.last)
  <2>1. ClearFrom(text, across, g, l.first, l.last)
    BY <1>8, <1>9
  <2>2. 1 <= l.first /\ l.last <= Len(text) /\ l.first \in Nat /\ l.last \in Nat
    BY <2>1 DEF ClearFrom
  <2> QED BY <1>2, <2>1, <2>2
<1>11. g[i].part \in IF l.part = "code" THEN {"code"}
                     ELSE IF l.part = "comment" THEN {"//", "/*"} ELSE Quotes
  BY <1>9, <1>10, LexemeScanned
<1> QED BY <1>1, <1>10, <1>11 DEF text

LEMMA LexesLexemes ==
  ASSUME question.ask = "text" => TextAsked
  PROVE  LexesAsC
<1> SUFFICES ASSUME TextAsked, NEW l \in ToSet(question.lexemes), NEW i \in l.first..l.last,
                    question.text[i] # NewLine
             PROVE  /\ i \in CodeOf(question.text) <=> l.part = "code"
                    /\ StripComments(question.text)[i] =
                          IF l.part = "comment" THEN " " ELSE question.text[i]
  BY DEF LexesAsC
<1>1. i \in CodeOf(question.text) <=> l.part = "code"
  <2>1. i \in DOMAIN question.text /\ (Classified(question.text, FALSE)[i] = "code" <=> l.part = "code")
    BY LexemesScanned DEF Quotes
  <2> QED BY <2>1 DEF CodeOf
<1>2. StripComments(question.text)[i] = IF l.part = "comment" THEN " " ELSE question.text[i]
  <2>1. /\ i \in DOMAIN question.text
        /\ Classified(question.text, TRUE)[i] \in {"//", "/*"} <=> l.part = "comment"
    BY LexemesScanned DEF Quotes
  <2> QED BY <2>1 DEF StripComments
<1> QED BY <1>1, <1>2

\* The scanners read every text whose lexemes are those of C as C does, whatever stands in
\* its comments and literals (grepScan.ts, regexScanner.ts).
THEOREM AlwaysLexesAsC == LookupSpec => []LexesAsC
<1>1. AskedInv => LexesAsC
  BY LexesLexemes DEF AskedInv
<1> QED BY <1>1, AskedAlways, PTL


----------------------------------------------------------------------------
(* The arguments of a call.                                                   *)

Literals == {""} \cup Quotes
CountState == [depth : Int, sawArg : BOOLEAN, args : Int, literal : Literals,
               pair : BOOLEAN, count : Int]
CountStart == [depth |-> 1, sawArg |-> FALSE, args |-> 0, literal |-> "", pair |-> FALSE,
               count |-> NotClosed]
Counts(text, open, g) ==
    /\ g[open] = CountStart
    /\ \A i \in (open + 1)..Len(text) : g[i] = CountArg(g[i - 1], text[i])

LEMMA CountFields ==
  ASSUME NEW s \in CountState
  PROVE  /\ s.depth \in Int /\ s.args \in Int /\ s.literal \in Literals
         /\ s.pair \in BOOLEAN /\ s.sawArg \in BOOLEAN /\ s.count \in Int
BY DEF CountState

LEMMA CountType ==
  ASSUME NEW s \in CountState, NEW c
  PROVE  CountArg(s, c) \in CountState
<1>1. CASE s.count # NotClosed
  BY <1>1 DEF CountArg
<1>2. CASE s.count = NotClosed /\ s.pair
  BY <1>2 DEF CountArg, CountState
<1>3. CASE s.count = NotClosed /\ ~s.pair /\ s.literal # ""
  <2>1. (IF c = s.literal THEN "" ELSE s.literal) \in Literals
    BY CountFields DEF Literals
  <2>2. Escapes(c) \in BOOLEAN
    BY DEF Escapes
  <2>3. CountArg(s, c) = [s EXCEPT !.pair = Escapes(c), !.literal = IF c = s.literal THEN "" ELSE s.literal]
    BY <1>3 DEF CountArg
  <2> QED BY <2>1, <2>2, <2>3 DEF CountState
<1>4. CASE s.count = NotClosed /\ ~s.pair /\ s.literal = ""
  <2> DEFINE depth == CASE c \in Brackets.open -> s.depth + 1
                        [] c \in Brackets.close -> s.depth - 1 [] OTHER -> s.depth
             separates == Separates(c, s.depth)
             count == IF depth # 0 THEN s.count ELSE IF s.sawArg THEN s.args + 1 ELSE 0
             args == IF separates THEN s.args + 1 ELSE s.args
             saw == s.sawArg \/ (~separates /\ c # " ")
             literal == IF c \in Quotes THEN c ELSE ""
  <2>1. depth \in Int /\ count \in Int /\ args \in Int /\ literal \in Literals /\ saw \in BOOLEAN
    <3>1. s.depth \in Int /\ s.args \in Int /\ s.count \in Int
      BY CountFields
    <3>2. depth \in Int
      <4>1. \/ depth = s.depth + 1 /\ c \in Brackets.open
            \/ depth = s.depth - 1 /\ c \notin Brackets.open
            \/ depth = s.depth
        BY DEF Brackets
      <4> HIDE DEF depth
      <4> QED BY <3>1, <4>1
    <3>3. count \in Int /\ args \in Int
      BY <3>1
    <3>4. literal \in Literals
      BY DEF Literals
    <3> QED BY <3>2, <3>3, <3>4
  <2>2. CountArg(s, c) = [s EXCEPT !.depth = depth, !.count = count, !.args = args,
                                   !.sawArg = saw, !.literal = literal]
    BY <1>4 DEF CountArg
  <2> HIDE DEF depth, count, args, saw, literal
  <2> QED BY <2>1, <2>2 DEF CountState
<1> QED BY <1>1, <1>2, <1>3, <1>4

\* The rules of the count: when it is over, in a pair, in a literal, in code.
Plain(s) == s.count = NotClosed /\ ~s.pair /\ s.literal \notin Quotes
InLiteral(s, q) == s.count = NotClosed /\ ~s.pair /\ s.literal = q
KeptFields(s, r) ==
    r.depth = s.depth /\ r.args = s.args /\ (r.sawArg <=> s.sawArg) /\ r.count = NotClosed
LEMMA CountOver ==
  ASSUME NEW s \in CountState, NEW c, s.count # NotClosed
  PROVE  CountArg(s, c) = s
BY DEF CountArg

LEMMA CountPair ==
  ASSUME NEW s \in CountState, NEW c, s.count = NotClosed, s.pair
  PROVE  LET r == CountArg(s, c) IN KeptFields(s, r) /\ ~r.pair /\ r.literal = s.literal
BY DEF CountArg, CountState, KeptFields

ReadsLiteral(q, c, s, r) ==
    KeptFields(s, r) /\ (r.pair <=> c = "\\") /\ r.literal = IF c = q THEN "" ELSE q

LEMMA CountLiteral ==
  ASSUME NEW s \in CountState, NEW c, NEW q \in Quotes, InLiteral(s, q)
  PROVE  ReadsLiteral(q, c, s, CountArg(s, c))
<1> DEFINE r == CountArg(s, c)
<1>1. r = [s EXCEPT !.pair = Escapes(c), !.literal = IF c = s.literal THEN "" ELSE s.literal]
  BY DEF CountArg, Quotes, InLiteral
<1> QED BY <1>1 DEF CountState, Escapes, InLiteral, KeptFields, ReadsLiteral

Deeper(c, depth) == IF c \in Brackets.open THEN depth + 1
                    ELSE IF c \in Brackets.close THEN depth - 1 ELSE depth
ReadsCode(c, s, r) ==
    /\ r.depth = Deeper(c, s.depth) /\ ~r.pair
    /\ r.count = IF Deeper(c, s.depth) # 0 THEN NotClosed ELSE IF s.sawArg THEN s.args + 1 ELSE 0
    /\ r.args = IF Separates(c, s.depth) THEN s.args + 1 ELSE s.args
    /\ r.sawArg <=> s.sawArg \/ (~Separates(c, s.depth) /\ c # " ")
    /\ r.literal = IF c \in Quotes THEN c ELSE ""

LEMMA CountCode ==
  ASSUME NEW s \in CountState, NEW c, Plain(s)
  PROVE  ReadsCode(c, s, CountArg(s, c))
<1> DEFINE r == CountArg(s, c)
           d == Deeper(c, s.depth)
<1>1. (CASE c \in Brackets.open -> s.depth + 1
         [] c \in Brackets.close -> s.depth - 1 [] OTHER -> s.depth) = d
  BY DEF Deeper, Brackets
<1>2. s.literal = "" /\ s.count = NotClosed /\ ~s.pair
  BY CountFields DEF Literals, Plain
<1> DEFINE n == IF d # 0 THEN s.count ELSE IF s.sawArg THEN s.args + 1 ELSE 0
           separates == Separates(c, s.depth)
           args == IF separates THEN s.args + 1 ELSE s.args
           saw == s.sawArg \/ (~separates /\ c # " ")
           literal == IF c \in Quotes THEN c ELSE ""
<1> HIDE DEF d
<1>3. r = [s EXCEPT !.depth = d, !.count = n, !.args = args, !.sawArg = saw, !.literal = literal]
  BY <1>1, <1>2 DEF CountArg
<1>4. saw \in BOOLEAN
  OBVIOUS
<1> HIDE DEF n, args, saw, literal, r
<1>5. /\ r.depth = d /\ r.count = n /\ r.args = args /\ r.literal = literal /\ r.pair = s.pair
      /\ r.sawArg = saw
  BY <1>3 DEF CountState
<1> QED BY <1>2, <1>4, <1>5 DEF n, args, saw, literal, d, r, ReadsCode

Opens(text, open) == text[open] = "(" /\ \A i \in 1..(open - 1) : text[i] = " "

LEMMA Counted ==
  ASSUME NEW text, IsTable(text), NEW open \in DOMAIN text, Opens(text, open)
  PROVE  \E g : /\ Counts(text, open, g)
                /\ \A i \in open..Len(text) : g[i] \in CountState
                /\ CountCallArgs(text) = g[Len(text)].count
<1> DEFINE n == Len(text)
           shown == {i \in DOMAIN text : text[i] # " "}
           Is(g) == g = [i \in Min(shown)..n |->
                           IF i = Min(shown)
                           THEN [depth |-> 1, sawArg |-> FALSE, args |-> 0, literal |-> "",
                                 pair |-> FALSE, count |-> NotClosed]
                           ELSE CountArg(g[i - 1], text[i])]
           scan == CHOOSE g : Is(g)
           T == CountState
           F == [i \in (open + 1)..n |-> [s \in T |-> CountArg(s, text[i])]]
<1>1. n \in Nat /\ DOMAIN text = 1..n /\ open \in 1..n
  BY DEF IsTable
<1>2. open \in shown /\ \A i \in shown : i \in 1..n /\ open <= i
  <2>1. \A i \in 1..n : i \notin 1..(open - 1) => open <= i
    BY <1>1
  <2>2. open \in shown
    BY DEF Opens
  <2>3. \A i \in shown : i \in DOMAIN text /\ i \notin 1..(open - 1)
    BY DEF Opens
  <2> HIDE DEF shown, n
  <2> QED BY <1>1, <2>1, <2>2, <2>3
<1>3. Min(shown) = open
  <2> HIDE DEF shown, n
  <2>1. ASSUME NEW x \in shown, \A i \in shown : x <= i PROVE x = open
    BY <1>1, <1>2, <2>1
  <2> QED BY <1>2, <2>1 DEF Min
<1>4. CountCallArgs(text) = scan[n].count
  <2>1. CountCallArgs(text) = IF shown = {} \/ text[Min(shown)] # "(" THEN NotClosed ELSE scan[n].count
    BY DEF CountCallArgs
  <2> HIDE DEF scan, shown
  <2> QED BY <1>2, <1>3, <2>1 DEF Opens
<1>5. CountStart \in T
  BY DEF CountStart, CountState, Literals, NotClosed
<1>6. \A i \in (open + 1)..n : \A s \in T : CountArg(s, text[i]) \in T
  BY CountType
<1>7. /\ F \in [(open + 1)..n -> [T -> T]]
      /\ \A i \in (open + 1)..n : \A s \in T : F[i][s] = CountArg(s, text[i])
  BY <1>6
<1> HIDE DEF T, F, n, shown
<1>8. PICK h \in [open..n -> T] : Iterates(open, n, CountStart, F, h)
  <2>1. open \in Int /\ n \in Int
    BY <1>1
  <2> QED BY <1>5, <1>7, <2>1, Recursion
<1>9. /\ h[open] = CountStart
      /\ \A i \in (open + 1)..n : h[i] = F[i][h[i - 1]] /\ h[i - 1] \in T
  <2>1. \A i \in (open + 1)..n : i - 1 \in open..n
    BY <1>1
  <2> QED BY <1>1, <1>8, <2>1 DEF Iterates
<1> DEFINE Value(g, i) == IF i = open THEN CountStart ELSE CountArg(g[i - 1], text[i])
<1>10. \A g : Is(g) <=> g = [i \in open..n |-> Value(g, i)]
  BY <1>3 DEF CountStart
<1>11. h = [i \in open..n |-> Value(h, i)]
  <2>1. \A i \in open..n : i = open \/ i \in (open + 1)..n
    BY <1>1
  <2>2. \A i \in open..n : h[i] = Value(h, i)
    BY <1>7, <1>9, <2>1
  <2> HIDE DEF Value
  <2> QED BY <1>8, <2>2
<1>12. Is(h)
  BY <1>10, <1>11, Zenon
<1>13. Is(scan)
  BY <1>12, Zenon
<1>14. scan = [i \in open..n |-> Value(scan, i)]
  BY <1>10, <1>13, Zenon
<1> HIDE DEF scan
<1>15. /\ scan[open] = CountStart
       /\ \A i \in (open + 1)..n : scan[i] = CountArg(scan[i - 1], text[i])
  <2> HIDE DEF Value
  <2>1. \A i \in open..n : scan[i] = Value(scan, i)
    BY <1>14
  <2> QED BY <1>1, <2>1 DEF Value
<1>16. \A i \in open..n : scan[i] \in T
  <2> DEFINE S == {i \in open..n : scan[i] \in T}
  <2>1. open <= n => open \in S
    BY <1>1, <1>5, <1>15
  <2>2. \A i \in (open + 1)..n : i - 1 \in S => i \in S
    BY <1>1, <1>6, <1>15
  <2> HIDE DEF S
  <2>3. open \in Int /\ n \in Int
    BY <1>1
  <2>4. open..n \subseteq S
    BY <2>1, <2>2, <2>3, RangeInduct
  <2> QED BY <2>4 DEF S
<1>17. Counts(text, open, scan)
  BY <1>15 DEF Counts, n
<1> QED BY <1>4, <1>16, <1>17 DEF T, n


FirstOf(n) == question.lexemes[n].first
LastOf(n) == question.lexemes[n].last
Lexemes == 1..Len(question.lexemes)

LEMMA LexemesAre ==
  ASSUME TextAsked
  PROVE  /\ Len(question.text) \in Nat /\ DOMAIN question.text = 1..Len(question.text)
         /\ Len(question.lexemes) \in Nat /\ DOMAIN question.lexemes = Lexemes
         /\ \A n \in Lexemes :
               /\ FirstOf(n) \in Nat /\ LastOf(n) \in Nat
               /\ FirstOf(n) = IF n = 1 THEN 1 ELSE LastOf(n - 1) + 1
               /\ FirstOf(n) <= LastOf(n) /\ LastOf(n) <= Len(question.text)
               /\ n = Len(question.lexemes) => LastOf(n) = Len(question.text)
               /\ IsLexeme(question.text, question.lexemes[n])
<1> DEFINE R == [first : Nat, last : Nat, part : STRING]
<1>1. \A T : \A s \in Seq(T) :
         Len(s) \in Nat /\ DOMAIN s = 1..Len(s) /\ \A n \in 1..Len(s) : s[n] \in T
  OBVIOUS
<1>2. question.lexemes \in Seq(R)
  BY DEF TextAsked
<1>3. \A l \in R : l.first \in Nat /\ l.last \in Nat
  OBVIOUS
<1> HIDE DEF R
<1>4. /\ Len(question.lexemes) \in Nat /\ DOMAIN question.lexemes = 1..Len(question.lexemes)
      /\ \A n \in 1..Len(question.lexemes) : question.lexemes[n] \in R
  BY <1>1, <1>2, Zenon
<1>5. Len(question.text) \in Nat /\ DOMAIN question.text = 1..Len(question.text)
  BY DEF TextAsked, IsTable
<1>6. \A n \in Lexemes : FirstOf(n) \in Nat /\ LastOf(n) \in Nat
  BY <1>3, <1>4 DEF Lexemes, FirstOf, LastOf
<1>7. \A n \in Lexemes :
         /\ FirstOf(n) = IF n = 1 THEN 1 ELSE LastOf(n - 1) + 1
         /\ FirstOf(n) <= LastOf(n) /\ LastOf(n) <= Len(question.text)
         /\ n = Len(question.lexemes) => LastOf(n) = Len(question.text)
         /\ IsLexeme(question.text, question.lexemes[n])
  BY <1>4 DEF TextAsked, Lexed, Lexemes, FirstOf, LastOf
<1> QED BY <1>4, <1>5, <1>6, <1>7 DEF Lexemes

\* A lexeme of a list is one token of code, which it is listed as, or a literal.
LEMMA ItemIs ==
  ASSUME ListAsked, NEW n \in Lexemes
  PROVE  \/ /\ IsCode(question.text, FirstOf(n), LastOf(n))
            /\ Item(n) = question.text[FirstOf(n)]
         \/ IsLiteral(question.text, FirstOf(n), LastOf(n)) /\ Item(n) = "literal"
<1>1. IsLexeme(question.text, question.lexemes[n]) /\ question.lexemes[n].part # "comment"
  BY LexemesAre DEF ListAsked
<1> QED BY <1>1 DEF IsLexeme, FirstOf, LastOf, Item, ItemOf

LEMMA ListOpens ==
  ASSUME ListAsked
  PROVE  /\ question.open \in Lexemes /\ question.open \in DOMAIN question.text
         /\ Opens(question.text, question.open)
         /\ LastOf(question.open) = question.open
<1> DEFINE o == question.open
           S == {n \in 1..o : FirstOf(n) = n /\ LastOf(n) = n /\ question.text[n] = Item(n)}
<1>1. /\ TextAsked /\ o \in Lexemes /\ Len(question.lexemes) \in Nat /\ o \in Nat
      /\ \A n \in 1..o : n \in Lexemes
  <2>1. TextAsked /\ o \in DOMAIN question.lexemes
    BY DEF ListAsked
  <2> HIDE DEF o
  <2>2. o \in Lexemes /\ Len(question.lexemes) \in Nat
    BY <2>1, LexemesAre
  <2> QED BY <2>1, <2>2 DEF Lexemes
<1>2. \A n \in 1..o : Item(n) \in {" ", "("}
  <2>1. \A n \in 1..o : n = o \/ n \in 1..(o - 1)
    BY <1>1
  <2> QED BY <2>1 DEF ListAsked
<1>3. ASSUME NEW n \in 1..o, FirstOf(n) = n PROVE n \in S
  <2>1. Item(n) # "literal" /\ n \in Lexemes
    BY <1>1, <1>2
  <2>2. IsCode(question.text, FirstOf(n), LastOf(n)) /\ Item(n) = question.text[FirstOf(n)]
    BY <2>1, ItemIs
  <2> QED BY <1>3, <2>2 DEF IsCode
<1>4. ASSUME NEW n \in 2..o, n - 1 \in S PROVE n \in S
  <2>1. n \in 1..o /\ n \in Lexemes /\ n # 1 /\ n - 1 \in 1..o
    BY <1>1
  <2>2. FirstOf(n) = LastOf(n - 1) + 1
    BY <1>1, <2>1, LexemesAre
  <2>3. LastOf(n - 1) = n - 1
    BY <1>4
  <2> QED BY <1>3, <2>1, <2>2, <2>3
<1>5. 1..o \subseteq S
  <2>1. 1 <= o => 1 \in S
    <3>1. 1 <= o => 1 \in 1..o /\ 1 \in Lexemes
      BY <1>1
    <3>2. 1 \in Lexemes => FirstOf(1) = 1
      BY <1>1, LexemesAre
    <3> HIDE DEF S
    <3> QED BY <1>3, <3>1, <3>2
  <2>2. 1 \in Int /\ o \in Int /\ 1 + 1 = 2
    BY <1>1
  <2> HIDE DEF S, o
  <2> QED BY <1>4, <2>1, <2>2, RangeInduct
<1>6. o \in 1..o /\ \A n \in 1..(o - 1) : n \in 1..o
  BY <1>1 DEF Lexemes
<1>7. LastOf(o) = o /\ FirstOf(o) = o /\ question.text[o] = Item(o)
  BY <1>5, <1>6
<1>8. o \in DOMAIN question.text
  <2>1. LastOf(o) <= Len(question.text) /\ Len(question.text) \in Nat
        /\ DOMAIN question.text = 1..Len(question.text)
    BY <1>1, LexemesAre
  <2>2. 1 <= o
    BY <1>1 DEF Lexemes
  <2> HIDE DEF o
  <2> QED BY <1>1, <1>7, <2>1, <2>2
<1>9. Opens(question.text, o)
  BY <1>5, <1>6, <1>7 DEF Opens, ListAsked
<1> QED BY <1>1, <1>7, <1>8, <1>9

\* What a lexeme of a list does to the count.
Lists(c, s, r) ==
    /\ r.depth = Deeper(c, s.depth)
    /\ ~r.pair /\ r.literal \notin Quotes
    /\ r.count = IF r.depth # 0 THEN NotClosed ELSE IF s.sawArg THEN s.args + 1 ELSE 0
    /\ r.args = IF Separates(c, s.depth) THEN s.args + 1 ELSE s.args
    /\ r.sawArg <=> s.sawArg \/ (~Separates(c, s.depth) /\ c # " ")
CountedList(g) ==
    /\ ListAsked /\ Counts(question.text, question.open, g)
    /\ \A i \in question.open..Len(question.text) : g[i] \in CountState

LEMMA CountStep ==
  ASSUME NEW g, CountedList(g), NEW n \in Lexemes, question.open < n, NEW i \in FirstOf(n)..LastOf(n)
  PROVE  /\ g[i - 1] \in CountState /\ g[i] \in CountState
         /\ g[i] = CountArg(g[i - 1], question.text[i])
         /\ FirstOf(n) \in Int /\ LastOf(n) \in Int /\ FirstOf(n) <= LastOf(n) /\ question.open < FirstOf(n)
<1>1. TextAsked /\ ListAsked
  BY DEF CountedList, ListAsked
<1>2. /\ FirstOf(n) \in Int /\ LastOf(n) \in Int /\ FirstOf(n) <= LastOf(n) /\ LastOf(n) <= Len(question.text)
      /\ Len(question.text) \in Nat /\ n \in Int /\ question.open \in Int
  BY <1>1, LexemesAre, ListOpens DEF Lexemes
<1>3. question.open < FirstOf(n)
  <2> DEFINE S == {m \in (question.open + 1)..Len(question.lexemes) : question.open < FirstOf(m)}
  <2>1. /\ question.open \in Lexemes /\ question.open \in Int /\ 1 <= question.open
        /\ LastOf(question.open) = question.open /\ Len(question.lexemes) \in Int
    BY <1>1, LexemesAre, ListOpens DEF Lexemes
  <2>2. ASSUME NEW m \in (question.open + 1)..Len(question.lexemes),
               question.open <= LastOf(m - 1), LastOf(m - 1) \in Int
        PROVE  m \in S
    <3>1. m \in Lexemes /\ m # 1
      BY <2>1 DEF Lexemes
    <3>2. FirstOf(m) = LastOf(m - 1) + 1
      BY <1>1, <3>1, LexemesAre
    <3> QED BY <2>1, <2>2, <3>2
  <2>3. question.open + 1 <= Len(question.lexemes) => question.open + 1 \in S
    <3>1. (question.open + 1) - 1 = question.open
      BY <2>1
    <3>2. question.open + 1 <= Len(question.lexemes) =>
             question.open + 1 \in (question.open + 1)..Len(question.lexemes)
      BY <2>1
    <3> HIDE DEF S
    <3> QED BY <2>1, <2>2, <3>1, <3>2
  <2>4. ASSUME NEW m \in (question.open + 2)..Len(question.lexemes), m - 1 \in S PROVE m \in S
    <3>1. m \in (question.open + 1)..Len(question.lexemes) /\ m - 1 \in Lexemes
      BY <2>1 DEF Lexemes
    <3>2. FirstOf(m - 1) <= LastOf(m - 1) /\ FirstOf(m - 1) \in Int /\ LastOf(m - 1) \in Int
      BY <1>1, <3>1, LexemesAre
    <3>3. question.open <= LastOf(m - 1)
      BY <2>1, <2>4, <3>2
    <3> HIDE DEF S
    <3> QED BY <2>2, <3>1, <3>2, <3>3
  <2>5. PICK lo \in Int : lo = question.open + 1 /\ lo + 1 = question.open + 2
    BY <2>1
  <2> HIDE DEF S
  <2>6. lo..Len(question.lexemes) \subseteq S
    BY <2>1, <2>3, <2>4, <2>5, RangeInduct
  <2>7. n \in lo..Len(question.lexemes)
    BY <1>2, <2>5 DEF Lexemes
  <2> QED BY <2>6, <2>7 DEF S
<1>4. i \in (question.open + 1)..Len(question.text) /\ i - 1 \in question.open..Len(question.text)
      /\ i \in question.open..Len(question.text)
  BY <1>2, <1>3
<1> QED BY <1>2, <1>3, <1>4 DEF CountedList, Counts


LEMMA CodeListed ==
  ASSUME NEW g, CountedList(g), NEW n \in Lexemes, question.open < n,
         IsCode(question.text, FirstOf(n), LastOf(n)), Item(n) = question.text[FirstOf(n)],
         NEW s, s = g[FirstOf(n) - 1], Plain(s)
  PROVE  Lists(Item(n), s, g[LastOf(n)])
<1>1. FirstOf(n) = LastOf(n) /\ Item(n) \notin Quotes
  BY DEF IsCode
<1>2. FirstOf(n) \in FirstOf(n)..LastOf(n)
  <2>1. TextAsked
    BY DEF CountedList, ListAsked
  <2>2. FirstOf(n) \in Int
    BY <2>1, LexemesAre
  <2> QED BY <1>1, <2>2
<1>3. s \in CountState /\ g[FirstOf(n)] = CountArg(s, Item(n))
  BY <1>2, CountStep
<1>4. ReadsCode(Item(n), s, g[FirstOf(n)])
  BY <1>3, CountCode
<1>5. "" \notin Quotes
  BY DEF Quotes
<1> QED BY <1>1, <1>4, <1>5 DEF Lists, ReadsCode

LEMMA LiteralListed ==
  ASSUME NEW g, CountedList(g), NEW n \in Lexemes, question.open < n,
         IsLiteral(question.text, FirstOf(n), LastOf(n)),
         NEW s, s = g[FirstOf(n) - 1], Plain(s), s.depth # 0
  PROVE  LET r == g[LastOf(n)]
         IN /\ r.depth = s.depth /\ r.args = s.args /\ r.sawArg /\ r.count = NotClosed
            /\ ~r.pair /\ r.literal = ""
<1> DEFINE text == question.text
           a == FirstOf(n)
           b == LastOf(n)
           q == text[a]
           Kept(r) == r.depth = s.depth /\ r.args = s.args /\ r.sawArg /\ r.count = NotClosed
           Held(i) == Kept(g[i]) /\ g[i].literal = q /\ (g[i].pair <=> Escaped(text, a, i + 1))
           S == {i \in a..(b - 1) : Held(i)}
<1>1. /\ a \in Int /\ b \in Int /\ a < b
      /\ \A i \in a..b : text[i] # NewLine
      /\ \A i \in (a + 1)..b : text[i] = q => (i = b <=> ~Escaped(text, a, i))
      /\ q \in Quotes /\ text[b] = q
  <2>1. TextAsked
    BY DEF CountedList, ListAsked
  <2>2. a \in Int /\ b \in Int
    BY <2>1, LexemesAre
  <2> QED BY <2>2 DEF IsLiteral
<1>2. \A i \in a..b : g[i - 1] \in CountState /\ g[i] \in CountState /\ g[i] = CountArg(g[i - 1], text[i])
  BY CountStep
<1> HIDE DEF a, b, q, text
<1>3. a \in S
  <2>1. s \in CountState /\ g[a] = CountArg(s, q)
    <3>1. a \in a..b
      BY <1>1
    <3> QED BY <1>2, <3>1 DEF a, q, text
  <2>2. Deeper(q, s.depth) = s.depth /\ ~Separates(q, s.depth) /\ q # " "
    BY <1>1 DEF Deeper, Brackets, Separates, Quotes
  <2>3. /\ g[a].depth = s.depth /\ ~g[a].pair /\ g[a].count = NotClosed /\ g[a].args = s.args
        /\ g[a].sawArg /\ g[a].literal = q
    <3>1. ReadsCode(q, s, g[a])
      BY <2>1, CountCode
    <3> QED BY <1>1, <2>2, <3>1 DEF ReadsCode
  <2>4. ~Escaped(text, a, a + 1)
    BY <1>1 DEF Escaped
  <2> QED BY <1>1, <2>3, <2>4
<1>4. ASSUME NEW i \in (a + 1)..(b - 1), i - 1 \in S PROVE i \in S
  <2>1. /\ i \in Int /\ i \in a..b /\ i \in (a + 1)..b /\ i # b /\ i \in a..(b - 1)
        /\ a < i /\ i < b /\ i + 1 \in a..b /\ (i - 1) + 1 = i
    BY <1>1
  <2>2. /\ Kept(g[i - 1]) /\ g[i - 1].literal = q
        /\ g[i - 1].pair <=> Escaped(text, a, i)
    BY <1>4, <2>1
  <2>3. Escaped(text, a, i + 1) <=> text[i] = "\\" /\ ~Escaped(text, a, i)
    BY <1>1, <2>1, EscapedNext
  <2>4. g[i - 1] \in CountState /\ g[i] = CountArg(g[i - 1], text[i])
    BY <1>2, <2>1
  <2>5. CASE Escaped(text, a, i)
    <3>1. g[i - 1].count = NotClosed /\ g[i - 1].pair
      BY <2>2, <2>5
    <3>2. KeptFields(g[i - 1], g[i]) /\ ~g[i].pair /\ g[i].literal = g[i - 1].literal
      BY <2>4, <3>1, CountPair
    <3>3. Kept(g[i]) /\ ~g[i].pair /\ g[i].literal = q
      BY <2>2, <3>2 DEF KeptFields
    <3> QED BY <2>1, <2>3, <2>5, <3>3
  <2>6. CASE ~Escaped(text, a, i)
    <3>1. text[i] # q
      BY <1>1, <2>1, <2>6
    <3>2. InLiteral(g[i - 1], q)
      BY <2>2, <2>6 DEF InLiteral
    <3>3. ReadsLiteral(q, text[i], g[i - 1], g[i])
      BY <1>1, <2>4, <3>2, CountLiteral
    <3>4. Kept(g[i]) /\ g[i].literal = q /\ (g[i].pair <=> text[i] = "\\")
      BY <2>2, <3>1, <3>3 DEF KeptFields, ReadsLiteral
    <3> QED BY <2>1, <2>3, <2>6, <3>4
  <2> QED BY <2>5, <2>6
<1>5. a..(b - 1) \subseteq S
  <2>1. PICK l \in Int : l = b - 1
    BY <1>1
  <2>2. \A i \in (a + 1)..l : i - 1 \in S => i \in S
    BY <1>4, <2>1
  <2> HIDE DEF S
  <2>3. a..l \subseteq S
    BY <1>1, <1>3, <2>2, RangeInduct
  <2> QED BY <2>1, <2>3
<1>6. Kept(g[b]) /\ ~g[b].pair /\ g[b].literal = ""
  <2>1. b \in a..b /\ b \in (a + 1)..b /\ b - 1 \in a..(b - 1) /\ (b - 1) + 1 = b
    BY <1>1
  <2>2. Held(b - 1)
    BY <1>5, <2>1
  <2>3. Kept(g[b - 1]) /\ g[b - 1].literal = q /\ ~g[b - 1].pair
    BY <1>1, <2>1, <2>2
  <2>4. g[b - 1] \in CountState /\ g[b] = CountArg(g[b - 1], text[b])
    BY <1>2, <2>1
  <2>5. text[b] # "\\"
    BY <1>1 DEF Quotes
  <2>6. InLiteral(g[b - 1], q)
    BY <2>3 DEF InLiteral
  <2>7. ReadsLiteral(q, text[b], g[b - 1], g[b])
    BY <1>1, <2>4, <2>6, CountLiteral
  <2> QED BY <1>1, <2>3, <2>5, <2>7 DEF KeptFields, ReadsLiteral
<1> QED BY <1>6 DEF b

LEMMA ItemListed ==
  ASSUME NEW g, CountedList(g), NEW n \in Lexemes, question.open < n,
         NEW s, s = g[FirstOf(n) - 1], Plain(s), s.depth # 0
  PROVE  Lists(Item(n), s, g[LastOf(n)])
<1>1. CASE IsCode(question.text, FirstOf(n), LastOf(n)) /\ Item(n) = question.text[FirstOf(n)]
  BY <1>1, CodeListed
<1>2. CASE IsLiteral(question.text, FirstOf(n), LastOf(n)) /\ Item(n) = "literal"
  <2>1. LET r == g[LastOf(n)]
        IN /\ r.depth = s.depth /\ r.args = s.args /\ r.sawArg /\ r.count = NotClosed
           /\ ~r.pair /\ r.literal = ""
    BY <1>2, LiteralListed
  <2>2. /\ Deeper("literal", s.depth) = s.depth /\ ~Separates("literal", s.depth)
        /\ "literal" # " " /\ "" \notin Quotes
    BY DEF Deeper, Brackets, Separates, Quotes
  <2> QED BY <1>2, <2>1, <2>2 DEF Lists
<1>3. ListAsked
  BY DEF CountedList
<1> QED BY <1>1, <1>2, <1>3, ItemIs


\* How many members of a set there are from one number to another.
Marked(S, lo, n) == {m \in lo..n : m \in S}

LEMMA MarkedNext ==
  ASSUME NEW S, NEW lo \in Int, NEW n \in Int
  PROVE  /\ Cardinality(Marked(S, lo, n)) \in Nat
         /\ n < lo => Cardinality(Marked(S, lo, n)) = 0
         /\ lo <= n => Cardinality(Marked(S, lo, n)) =
               IF n \in S THEN Cardinality(Marked(S, lo, n - 1)) + 1 ELSE Cardinality(Marked(S, lo, n - 1))
<1>1. \A m \in Int : IsFiniteSet(Marked(S, lo, m))
  <2> TAKE m \in Int
  <2>1. Marked(S, lo, m) \in SUBSET (lo..m) /\ IsFiniteSet(lo..m)
    BY FS_Interval DEF Marked
  <2> QED BY <2>1, FS_Subset
<1>2. Cardinality(Marked(S, lo, n)) \in Nat
  BY <1>1, FS_CardinalityType
<1>3. n < lo => Cardinality(Marked(S, lo, n)) = 0
  <2>1. n < lo => Marked(S, lo, n) = {}
    BY DEF Marked
  <2> QED BY <2>1, FS_EmptySet
<1>4. ASSUME lo <= n, n \in S
      PROVE  Cardinality(Marked(S, lo, n)) = Cardinality(Marked(S, lo, n - 1)) + 1
  <2>1. Marked(S, lo, n) = Marked(S, lo, n - 1) \cup {n} /\ n \notin Marked(S, lo, n - 1)
    BY <1>4 DEF Marked
  <2>2. IsFiniteSet(Marked(S, lo, n - 1))
    BY <1>1
  <2> QED BY <2>1, <2>2, FS_AddElement
<1>5. ASSUME lo <= n, n \notin S
      PROVE  Cardinality(Marked(S, lo, n)) = Cardinality(Marked(S, lo, n - 1))
  <2>1. Marked(S, lo, n) = Marked(S, lo, n - 1)
    BY <1>5 DEF Marked
  <2> QED BY <2>1
<1> QED BY <1>2, <1>3, <1>4, <1>5

LEMMA DepthNext ==
  ASSUME question.open \in Int, NEW n \in Int
  PROVE  /\ Depth(n) \in Int
         /\ n < question.open => Depth(n) = 0
         /\ question.open <= n => Depth(n) = Deeper(Item(n), Depth(n - 1))
<1> DEFINE O == {m \in Int : Item(m) \in Brackets.open}
           C == {m \in Int : Item(m) \in Brackets.close}
           Ups(m) == Cardinality(Marked(O, question.open, m))
           Downs(m) == Cardinality(Marked(C, question.open, m))
<1>1. \A m \in Int : Depth(m) = Ups(m) - Downs(m)
  <2> TAKE m \in Int
  <2>1. /\ {k \in question.open..m : Item(k) \in Brackets.open} = Marked(O, question.open, m)
        /\ {k \in question.open..m : Item(k) \in Brackets.close} = Marked(C, question.open, m)
    BY DEF Marked
  <2> QED BY <2>1 DEF Depth
<1>2. n \in O <=> Item(n) \in Brackets.open
  OBVIOUS
<1>3. n \in C <=> Item(n) \in Brackets.close
  OBVIOUS
<1>4. ~(n \in O /\ n \in C)
  BY DEF Brackets
<1> HIDE DEF O, C
<1>5. /\ Ups(n) \in Nat /\ Downs(n) \in Nat /\ Ups(n - 1) \in Nat /\ Downs(n - 1) \in Nat
      /\ n < question.open => Ups(n) = 0 /\ Downs(n) = 0
      /\ question.open <= n =>
            /\ Ups(n) = IF n \in O THEN Ups(n - 1) + 1 ELSE Ups(n - 1)
            /\ Downs(n) = IF n \in C THEN Downs(n - 1) + 1 ELSE Downs(n - 1)
  BY MarkedNext
<1>6. n - 1 \in Int
  OBVIOUS
<1> HIDE DEF Ups, Downs
<1>7. Depth(n) = Ups(n) - Downs(n) /\ Depth(n - 1) = Ups(n - 1) - Downs(n - 1)
  BY <1>1, <1>6
<1>8. Deeper(Item(n), Depth(n - 1)) =
         IF n \in O THEN Depth(n - 1) + 1 ELSE IF n \in C THEN Depth(n - 1) - 1 ELSE Depth(n - 1)
  BY <1>2, <1>3 DEF Deeper
<1> QED BY <1>4, <1>5, <1>7, <1>8

\* The commas of the call and what else there is, up to a lexeme.
CommaAt(m) == Item(m) = "," /\ Depth(m) = 1
Commas(n) == {m \in (question.open + 1)..n : CommaAt(m)}
FilledAt(m) == Item(m) # " " /\ ~CommaAt(m)
Filled(n) == \E m \in (question.open + 1)..n : FilledAt(m)
CountedTo(g, n) ==
    LET s == g[LastOf(n)]
    IN /\ Plain(s) /\ s.depth = Depth(n)
       /\ s.args = Cardinality(Commas(n)) /\ (s.sawArg <=> Filled(n))

LEMMA CommasNext ==
  ASSUME question.open \in Int, NEW n \in Int, question.open <= n
  PROVE  /\ Cardinality(Commas(n)) \in Nat
         /\ n = question.open => Cardinality(Commas(n)) = 0 /\ ~Filled(n)
         /\ question.open < n =>
               /\ Cardinality(Commas(n)) =
                     IF CommaAt(n) THEN Cardinality(Commas(n - 1)) + 1 ELSE Cardinality(Commas(n - 1))
               /\ Filled(n) <=> Filled(n - 1) \/ FilledAt(n)
<1> DEFINE S == {m \in Int : CommaAt(m)}
           lo == question.open + 1
<1>1. \A m \in Int : Commas(m) = Marked(S, lo, m)
  BY DEF Commas, Marked
<1>2. n \in S <=> CommaAt(n)
  OBVIOUS
<1>3. n - 1 \in Int /\ lo \in Int /\ (n = question.open => n < lo) /\ (question.open < n => lo <= n)
  OBVIOUS
<1>4. n = question.open => ~Filled(n)
  BY DEF Filled
<1>5. question.open < n => (Filled(n) <=> Filled(n - 1) \/ FilledAt(n))
  <2>1. question.open < n => \A m \in lo..n : m = n \/ m \in lo..(n - 1)
    OBVIOUS
  <2>2. question.open < n => n \in lo..n
    OBVIOUS
  <2>3. \A m \in lo..(n - 1) : m \in lo..n
    OBVIOUS
  <2> QED BY <2>1, <2>2, <2>3 DEF Filled
<1> HIDE DEF S, lo
<1>6. /\ Cardinality(Marked(S, lo, n)) \in Nat
      /\ n < lo => Cardinality(Marked(S, lo, n)) = 0
      /\ lo <= n => Cardinality(Marked(S, lo, n)) =
            IF n \in S THEN Cardinality(Marked(S, lo, n - 1)) + 1 ELSE Cardinality(Marked(S, lo, n - 1))
  BY <1>3, MarkedNext
<1>7. Commas(n) = Marked(S, lo, n) /\ Commas(n - 1) = Marked(S, lo, n - 1)
  BY <1>1, <1>3
<1> QED BY <1>2, <1>3, <1>4, <1>5, <1>6, <1>7

\* A comma of the call is one that separates.
LEMMA SeparatesIs ==
  ASSUME question.open \in Int, NEW n \in Int, question.open < n
  PROVE  Separates(Item(n), Depth(n - 1)) <=> CommaAt(n)
<1>1. Depth(n) = Deeper(Item(n), Depth(n - 1))
  BY DepthNext
<1>2. Item(n) = "," => Deeper(Item(n), Depth(n - 1)) = Depth(n - 1)
  BY DEF Deeper, Brackets
<1> QED BY <1>1, <1>2 DEF Separates, CommaAt


\* What the count is as long as the call is not closed, and when it closes.
LEMMA CountedNext ==
  ASSUME NEW g, CountedList(g), NEW n \in Lexemes, question.open < n,
         CountedTo(g, n - 1), Depth(n - 1) # 0
  PROVE  /\ Depth(n) # 0 => CountedTo(g, n)
         /\ Depth(n) = 0 => g[LastOf(n)].count = IF Filled(n - 1) THEN Cardinality(Commas(n - 1)) + 1 ELSE 0
<1> DEFINE s == g[LastOf(n - 1)]
           r == g[LastOf(n)]
<1>1. TextAsked /\ ListAsked
  BY DEF CountedList, ListAsked
<1>2. /\ question.open \in Int /\ question.open \in Lexemes /\ n \in Int /\ n # 1
      /\ question.open <= n - 1 /\ question.open <= n
      /\ n - 1 \in Int /\ n - 1 \in Lexemes
  BY <1>1, ListOpens, LexemesAre DEF Lexemes
<1>3. FirstOf(n) - 1 = LastOf(n - 1)
  <2>1. FirstOf(n) = LastOf(n - 1) + 1 /\ LastOf(n - 1) \in Nat
    BY <1>1, <1>2, LexemesAre
  <2> QED BY <2>1
<1>4. /\ Plain(s) /\ s.depth = Depth(n - 1)
      /\ s.args = Cardinality(Commas(n - 1)) /\ (s.sawArg <=> Filled(n - 1))
  BY DEF CountedTo
<1>5. Lists(Item(n), s, r)
  <2>1. s = g[FirstOf(n) - 1] /\ Plain(s) /\ s.depth # 0
    BY <1>3, <1>4
  <2> HIDE DEF s
  <2> QED BY <2>1, ItemListed
<1> HIDE DEF s, r
<1>6. Depth(n) = Deeper(Item(n), Depth(n - 1))
  BY <1>2, DepthNext
<1>7. Separates(Item(n), Depth(n - 1)) <=> CommaAt(n)
  BY <1>2, SeparatesIs
<1>8. /\ Cardinality(Commas(n)) =
            IF CommaAt(n) THEN Cardinality(Commas(n - 1)) + 1 ELSE Cardinality(Commas(n - 1))
      /\ Filled(n) <=> Filled(n - 1) \/ FilledAt(n)
  BY <1>2, CommasNext
<1>9. r.depth = Depth(n)
  BY <1>4, <1>5, <1>6 DEF Lists
<1>10. r.args = Cardinality(Commas(n))
  BY <1>4, <1>5, <1>7, <1>8 DEF Lists
<1>11. r.sawArg <=> Filled(n)
  <2>1. r.sawArg <=> s.sawArg \/ (~Separates(Item(n), s.depth) /\ Item(n) # " ")
    BY <1>5 DEF Lists
  <2>2. r.sawArg <=> Filled(n - 1) \/ (~CommaAt(n) /\ Item(n) # " ")
    BY <1>4, <1>7, <2>1
  <2>3. r.sawArg <=> Filled(n - 1) \/ FilledAt(n)
    BY <2>2 DEF FilledAt
  <2> QED BY <1>8, <2>3
<1>12. Depth(n) # 0 => Plain(r)
  BY <1>5, <1>9 DEF Lists, Plain
<1>13. Depth(n) = 0 => r.count = IF Filled(n - 1) THEN Cardinality(Commas(n - 1)) + 1 ELSE 0
  BY <1>4, <1>5, <1>9 DEF Lists
<1> QED BY <1>9, <1>10, <1>11, <1>12, <1>13 DEF CountedTo, r

LEMMA CountedStart ==
  ASSUME NEW g, CountedList(g)
  PROVE  CountedTo(g, question.open) /\ Depth(question.open) # 0
<1> DEFINE o == question.open
<1>1. ListAsked /\ TextAsked /\ Item(o) = "("
  BY DEF CountedList, ListAsked
<1>2. o \in Int /\ LastOf(o) = o
  BY <1>1, ListOpens, LexemesAre DEF Lexemes
<1>3. g[o] = CountStart
  BY DEF CountedList, Counts
<1>4. Depth(o) = 1
  <2>1. o - 1 \in Int /\ o - 1 < o /\ o <= o
    BY <1>2
  <2>2. Depth(o - 1) = 0 /\ Depth(o) = Deeper(Item(o), Depth(o - 1))
    BY <1>2, <2>1, DepthNext
  <2>3. Deeper("(", 0) = 1
    BY DEF Deeper, Brackets
  <2> QED BY <1>1, <2>2, <2>3
<1>5. Cardinality(Commas(o)) = 0 /\ ~Filled(o)
  BY <1>2, CommasNext
<1>6. Plain(CountStart)
  BY DEF Plain, CountStart, Quotes
<1>7. CountStart.depth = 1 /\ CountStart.args = 0 /\ ~CountStart.sawArg
  BY DEF CountStart
<1> QED BY <1>2, <1>3, <1>4, <1>5, <1>6, <1>7 DEF CountedTo

LEMMA CountedOpen ==
  ASSUME NEW g, CountedList(g), NEW e \in Lexemes, question.open <= e,
         \A n \in (question.open + 1)..e : Depth(n) # 0
  PROVE  CountedTo(g, e) /\ Depth(e) # 0
<1> DEFINE S == {n \in question.open..e : CountedTo(g, n) /\ Depth(n) # 0}
<1>1. TextAsked /\ ListAsked
  BY DEF CountedList, ListAsked
<1>2. question.open \in Int /\ 1 <= question.open /\ e \in Int /\ Len(question.lexemes) \in Int /\ e <= Len(question.lexemes)
  BY <1>1, ListOpens, LexemesAre DEF Lexemes
<1>3. question.open \in S
  BY <1>2, CountedStart
<1>4. ASSUME NEW n \in (question.open + 1)..e, n - 1 \in S PROVE n \in S
  <2>1. n \in Lexemes /\ question.open < n /\ n \in question.open..e
    BY <1>2 DEF Lexemes
  <2>2. CountedTo(g, n - 1) /\ Depth(n - 1) # 0 /\ Depth(n) # 0
    BY <1>4
  <2>3. CountedTo(g, n)
    BY <2>1, <2>2, CountedNext
  <2> QED BY <2>1, <2>2, <2>3
<1>5. e \in question.open..e
  BY <1>2
<1>6. question.open..e \subseteq S
  <2> HIDE DEF S
  <2> QED BY <1>2, <1>3, <1>4, RangeInduct
<1> QED BY <1>5, <1>6

\* Once the call is closed, the count is what it is.
LEMMA CountKept ==
  ASSUME NEW g, CountedList(g), NEW e \in Lexemes, question.open < e, g[LastOf(e)].count # NotClosed
  PROVE  g[Len(question.text)] = g[LastOf(e)]
<1> DEFINE b == LastOf(e)
           len == Len(question.text)
           S == {i \in b..len : g[i] = g[b]}
<1>1. TextAsked /\ ListAsked
  BY DEF CountedList, ListAsked
<1>2. b \in Int /\ len \in Int /\ b <= len /\ question.open \in Int
  BY <1>1, ListOpens, LexemesAre DEF Lexemes
<1>3. question.open < b
  <2>1. FirstOf(e) \in Int /\ FirstOf(e) <= LastOf(e) /\ LastOf(e) \in Int
    BY <1>1, LexemesAre
  <2>2. FirstOf(e) \in FirstOf(e)..LastOf(e)
    BY <2>1
  <2>3. question.open < FirstOf(e)
    BY <2>2, CountStep
  <2> QED BY <1>2, <2>1, <2>3
<1> HIDE DEF b, len
<1>4. \A i \in (question.open + 1)..len : g[i] = CountArg(g[i - 1], question.text[i])
  BY DEF CountedList, Counts, len
<1>5. \A i \in question.open..len : g[i] \in CountState
  BY DEF CountedList, len
<1>6. ASSUME NEW i \in (b + 1)..len, i - 1 \in S PROVE i \in S
  <2>1. i \in (question.open + 1)..len /\ i - 1 \in question.open..len /\ i \in b..len
    BY <1>2, <1>3
  <2>2. g[i] = CountArg(g[i - 1], question.text[i]) /\ g[i - 1] \in CountState
    BY <1>4, <1>5, <2>1
  <2>3. g[i - 1] = g[b] /\ g[i - 1].count # NotClosed
    BY <1>6 DEF b
  <2>4. CountArg(g[i - 1], question.text[i]) = g[i - 1]
    BY <2>2, <2>3, CountOver
  <2> QED BY <2>1, <2>2, <2>3, <2>4
<1>7. b \in S /\ len \in b..len
  BY <1>2
<1>8. b..len \subseteq S
  <2> HIDE DEF S
  <2> QED BY <1>2, <1>6, <1>7, RangeInduct
<1>9. g[len] = g[b]
  BY <1>7, <1>8
<1> QED BY <1>9 DEF b, len

LEMMA ListCounted ==
  ASSUME ListAsked
  PROVE  LET ends == {n \in DOMAIN question.lexemes : n > question.open /\ Depth(n) = 0}
         IN CountCallArgs(question.text) =
              IF ends = {} THEN NotClosed
              ELSE IF Filled(Min(ends) - 1) THEN Cardinality(Commas(Min(ends) - 1)) + 1 ELSE 0
<1> DEFINE ends == {n \in DOMAIN question.lexemes : n > question.open /\ Depth(n) = 0}
           last == Len(question.lexemes)
<1>1. TextAsked
  BY DEF ListAsked
<1>2. /\ DOMAIN question.lexemes = Lexemes /\ last \in Nat
      /\ question.open \in Lexemes /\ question.open \in Int /\ 1 <= question.open /\ question.open <= last
      /\ Opens(question.text, question.open) /\ question.open \in DOMAIN question.text
  BY <1>1, ListOpens, LexemesAre DEF Lexemes
<1>3. IsTable(question.text)
  BY <1>1 DEF TextAsked
<1>4. PICK g : /\ Counts(question.text, question.open, g)
               /\ \A i \in question.open..Len(question.text) : g[i] \in CountState
               /\ CountCallArgs(question.text) = g[Len(question.text)].count
  BY <1>2, <1>3, Counted
<1>5. CountedList(g)
  BY <1>4 DEF CountedList
<1>6. ASSUME ends = {} PROVE CountCallArgs(question.text) = NotClosed
  <2>1. \A n \in (question.open + 1)..last : n \in DOMAIN question.lexemes /\ n > question.open
    BY <1>2 DEF Lexemes
  <2>2. \A n \in (question.open + 1)..last : Depth(n) # 0
    BY <1>6, <2>1
  <2>3. last \in Lexemes /\ last \in Int
    BY <1>2 DEF Lexemes
  <2>4. CountedTo(g, last)
    <3> HIDE DEF last
    <3> QED BY <1>2, <1>5, <2>2, <2>3, CountedOpen
  <2>5. LastOf(last) = Len(question.text)
    BY <1>1, <2>3, LexemesAre
  <2> QED BY <1>4, <2>4, <2>5 DEF CountedTo, Plain
<1>7. ASSUME ends # {}
      PROVE  CountCallArgs(question.text) =
               IF Filled(Min(ends) - 1) THEN Cardinality(Commas(Min(ends) - 1)) + 1 ELSE 0
  <2>1. ends \in SUBSET Nat
    BY <1>2 DEF Lexemes
  <2>2. PICK e \in ends : \A n \in ends : e <= n
    <3> HIDE DEF ends
    <3> QED BY <1>7, <2>1, NatMin
  <2>3. e \in Nat /\ e \in Lexemes /\ question.open < e /\ Depth(e) = 0
    BY <1>2, <2>1
  <2>4. Min(ends) = e
    <3> HIDE DEF ends
    <3>1. \A x \in ends : (\A y \in ends : x <= y) => x = e
      BY <2>1, <2>2
    <3> QED BY <2>2, <3>1 DEF Min
  <2>5. \A n \in (question.open + 1)..(e - 1) : Depth(n) # 0
    <3>1. \A n \in (question.open + 1)..(e - 1) : n \in Lexemes /\ n > question.open /\ ~(e <= n)
      BY <1>2, <2>3 DEF Lexemes
    <3>2. \A n \in Lexemes : n > question.open /\ Depth(n) = 0 => e <= n
      BY <1>2, <2>2
    <3> QED BY <3>1, <3>2
  <2>6. e - 1 \in Lexemes /\ question.open <= e - 1
    BY <1>2, <2>3 DEF Lexemes
  <2>7. PICK d \in Lexemes : d = e - 1
    BY <2>6
  <2>8. CountedTo(g, d) /\ Depth(d) # 0
    BY <1>5, <2>5, <2>6, <2>7, CountedOpen
  <2>9. g[LastOf(e)].count = IF Filled(e - 1) THEN Cardinality(Commas(e - 1)) + 1 ELSE 0
    BY <1>5, <2>3, <2>7, <2>8, CountedNext
  <2>10. g[LastOf(e)].count # NotClosed
    <3>1. Cardinality(Commas(d)) \in Nat
      BY <1>2, <2>3, <2>6, <2>7, CommasNext
    <3> QED BY <2>7, <2>9, <3>1 DEF NotClosed
  <2>11. g[Len(question.text)] = g[LastOf(e)]
    BY <1>5, <2>3, <2>10, CountKept
  <2> QED BY <1>4, <2>4, <2>9, <2>11
<1> QED BY <1>6, <1>7

LEMMA ListsCounted ==
  ASSUME question.ask = "arguments" => ListAsked
  PROVE  ArgumentsCounted
<1> SUFFICES ASSUME ListAsked
             PROVE  LET ends == {n \in DOMAIN question.lexemes : n > question.open /\ Depth(n) = 0}
                        inside == (question.open + 1)..(Min(ends) - 1)
                        commas == {n \in inside : Item(n) = "," /\ Depth(n) = 1}
                    IN CountCallArgs(question.text) =
                         IF ends = {} THEN NotClosed
                         ELSE IF \A n \in inside : Item(n) = " " \/ n \in commas THEN 0
                         ELSE Cardinality(commas) + 1
  BY DEF ArgumentsCounted
<1> DEFINE ends == {n \in DOMAIN question.lexemes : n > question.open /\ Depth(n) = 0}
           inside == (question.open + 1)..(Min(ends) - 1)
           commas == {n \in inside : Item(n) = "," /\ Depth(n) = 1}
<1>1. commas = Commas(Min(ends) - 1)
  BY DEF Commas, CommaAt
<1>2. (\A n \in inside : Item(n) = " " \/ n \in commas) <=> ~Filled(Min(ends) - 1)
  <2>1. \A n \in inside : n \in commas <=> CommaAt(n)
    BY DEF CommaAt
  <2> HIDE DEF commas, ends
  <2> QED BY <2>1 DEF Filled, FilledAt
<1>3. CountCallArgs(question.text) =
        IF ends = {} THEN NotClosed
        ELSE IF Filled(Min(ends) - 1) THEN Cardinality(Commas(Min(ends) - 1)) + 1 ELSE 0
  BY ListCounted
<1> HIDE DEF ends, inside, commas
<1>4. CountCallArgs(question.text) =
        IF ends = {} THEN NotClosed
        ELSE IF \A n \in inside : Item(n) = " " \/ n \in commas THEN 0
        ELSE Cardinality(commas) + 1
  BY <1>1, <1>2, <1>3
<1> QED BY <1>4 DEF ends, inside, commas

\* The arguments of a call are those its commas separate, whatever brackets and literals
\* they hold, for every list of any length (memberAccess.ts).
THEOREM ArgumentsAlwaysCounted == LookupSpec => []ArgumentsCounted
<1>1. AskedInv => ArgumentsCounted
  BY ListsCounted DEF AskedInv
<1> QED BY <1>1, AskedAlways, PTL
=============================================================================
