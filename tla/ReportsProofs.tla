---------------------------- MODULE ReportsProofs ----------------------------
(***************************************************************************)
(* Proofs about Reports, for any requests and queries, any tables and any  *)
(* batches committed while the reports are read.                           *)
(***************************************************************************)
EXTENDS Reports, FiniteSetTheorems, FunctionTheorems, SequenceTheorems, TLAPS

-----------------------------------------------------------------------------
(***************************************************************************)
(* The calendar.                                                           *)
(***************************************************************************)
LEMMA DivMod ==
  ASSUME NEW n \in Nat, NEW d \in Nat \ {0}
  PROVE  /\ n \div d \in Nat /\ n % d \in 0 .. (d - 1)
         /\ n = d * (n \div d) + (n % d)
  OBVIOUS

LEMMA Times ==
  ASSUME NEW d \in Nat \ {0}, NEW a \in Int, NEW b \in Int, a < b
  PROVE  d * a + d <= d * b
<1>1. a + 1 <= b
  OBVIOUS
<1>2. d * (a + 1) <= d * b
  BY <1>1
<1> QED
  BY <1>2

LEMMA DivUnique ==
  ASSUME NEW d \in Nat \ {0}, NEW q \in Nat, NEW r \in 0 .. (d - 1),
         NEW n \in Nat, n = d * q + r
  PROVE  n \div d = q /\ n % d = r
<1> DEFINE a == n \div d
           b == n % d
<1>1. a \in Nat /\ b \in 0 .. (d - 1) /\ n = d * a + b
  BY DivMod
<1> HIDE DEF a, b
<1>2. ~(a < q)
  <2> SUFFICES ASSUME a < q PROVE FALSE
    OBVIOUS
  <2>1. d * a + d <= d * q
    BY <1>1, Times
  <2>2. d * a \in Int /\ d * q \in Int
    BY <1>1
  <2> QED
    BY <1>1, <2>1, <2>2
<1>3. ~(q < a)
  <2> SUFFICES ASSUME q < a PROVE FALSE
    OBVIOUS
  <2>1. d * q + d <= d * a
    BY <1>1, Times
  <2>2. d * a \in Int /\ d * q \in Int
    BY <1>1
  <2> QED
    BY <1>1, <2>1, <2>2
<1>4. a = q
  BY <1>1, <1>2, <1>3
<1>5. b = r
  BY <1>1, <1>4
<1> QED
  BY <1>4, <1>5 DEF a, b

LEMMA DivDiv ==
  ASSUME NEW n \in Nat, NEW d \in Nat \ {0}, NEW m \in Nat \ {0}
  PROVE  d * m \in Nat \ {0} /\ n \div (d * m) = (n \div d) \div m
<1> DEFINE k == n \div d
           r == n % d
           q == k \div m
           s == k % m
<1>1. k \in Nat /\ r \in 0 .. (d - 1) /\ n = d * k + r
  BY DivMod
<1> HIDE DEF k, r
<1>2. q \in Nat /\ s \in 0 .. (m - 1) /\ k = m * q + s
  BY <1>1, DivMod
<1> HIDE DEF q, s
<1>3. d * s + d <= d * m
  BY <1>2, Times
<1>4. d * s \in Nat /\ d * m \in Nat
  BY <1>2
<1>5. d * s + r \in 0 .. (d * m - 1)
  BY <1>1, <1>3, <1>4
<1>6. n = (d * m) * q + (d * s + r)
  BY <1>1, <1>2
<1>7. d * m \in Nat \ {0}
  BY <1>1, <1>4, <1>5
<1>8. n \div (d * m) = q
  BY <1>2, <1>5, <1>6, <1>7, DivUnique
<1> QED
  BY <1>7, <1>8 DEF q, k

\* The months of the years, one after the other.
Moon(n) == n \div DaysInMonth

LEMMA Dated ==
  ASSUME NEW n \in Nat
  PROVE  /\ Moon(n) \in Nat /\ Year(n) = Moon(n) \div MonthsInYear /\ Year(n) \in Nat
         /\ Month(n) = (Moon(n) % MonthsInYear) + 1 /\ Month(n) \in 1 .. MonthsInYear
         /\ FirstOf(Year(n), Month(n)) = DaysInMonth * Moon(n)
         /\ n \in (DaysInMonth * Moon(n)) .. (DaysInMonth * Moon(n) + DaysInMonth - 1)
<1>1. DaysInMonth \in Nat \ {0} /\ MonthsInYear \in Nat \ {0}
  BY ReportsAssumption
<1>2. Moon(n) \in Nat /\ n % DaysInMonth \in 0 .. (DaysInMonth - 1)
      /\ n = DaysInMonth * Moon(n) + (n % DaysInMonth)
  BY <1>1, DivMod DEF Moon
<1>3. Year(n) = Moon(n) \div MonthsInYear /\ Month(n) = (Moon(n) % MonthsInYear) + 1
  BY <1>1, DivDiv DEF Year, Month, Moon
<1>4. /\ Moon(n) \div MonthsInYear \in Nat /\ Moon(n) % MonthsInYear \in 0 .. (MonthsInYear - 1)
      /\ Moon(n) = MonthsInYear * (Moon(n) \div MonthsInYear) + (Moon(n) % MonthsInYear)
  BY <1>1, <1>2, DivMod
<1>5. Year(n) \in Nat /\ Month(n) \in 1 .. MonthsInYear
      /\ Moon(n) = MonthsInYear * Year(n) + (Month(n) - 1)
  BY <1>1, <1>3, <1>4
<1>6. Year(n) * MonthsInYear + Month(n) - 1 = Moon(n)
  BY <1>1, <1>5
<1>7. FirstOf(Year(n), Month(n)) = DaysInMonth * Moon(n)
  BY <1>1, <1>2, <1>6 DEF FirstOf
<1>8. n \in (DaysInMonth * Moon(n)) .. (DaysInMonth * Moon(n) + DaysInMonth - 1)
  <2>1. DaysInMonth * Moon(n) \in Int
    BY <1>1, <1>2
  <2>2. ASSUME NEW x \in Int, NEW y \in 0 .. (DaysInMonth - 1), n = x + y
        PROVE  n \in x .. (x + DaysInMonth - 1)
    BY <1>1, <2>2
  <2> QED
    BY <1>2, <2>1, <2>2
<1> QED
  BY <1>2, <1>3, <1>5, <1>7, <1>8

\* Days are of one month if their years and months have the same numbers, and
\* a month is its first day and those up to its end.
First(p) == FirstOf(Year(p), Month(p))

LEMMA SameMonth ==
  ASSUME NEW p \in Nat
  PROVE  /\ First(p) \in Nat /\ EndOfMonth(p) = First(p) + DaysInMonth - 1
         /\ First(p) <= p /\ p <= EndOfMonth(p)
         /\ \A n \in Nat : Year(n) = Year(p) /\ Month(n) = Month(p)
                              <=> First(p) <= n /\ n <= EndOfMonth(p)
<1>1. DaysInMonth \in Nat \ {0} /\ MonthsInYear \in Nat \ {0}
  BY ReportsAssumption
<1>2. First(p) = DaysInMonth * Moon(p) /\ Moon(p) \in Nat
  BY Dated DEF First
<1>3. First(p) \in Nat
  BY <1>1, <1>2
<1>4. EndOfMonth(p) = First(p) + DaysInMonth - 1
  BY DEF EndOfMonth, First
<1>5. p \in First(p) .. (First(p) + DaysInMonth - 1)
  BY <1>2, Dated
<1>6. ASSUME NEW n \in Nat
      PROVE  Year(n) = Year(p) /\ Month(n) = Month(p)
                <=> First(p) <= n /\ n <= EndOfMonth(p)
  <2>1. ASSUME Year(n) = Year(p), Month(n) = Month(p)
        PROVE  First(p) <= n /\ n <= EndOfMonth(p)
    <3>1. DaysInMonth * Moon(n) = First(p)
      BY <2>1, Dated DEF First
    <3>2. n \in (DaysInMonth * Moon(n)) .. (DaysInMonth * Moon(n) + DaysInMonth - 1)
      BY Dated
    <3> QED
      BY <1>1, <1>3, <1>4, <3>1, <3>2
  <2>2. ASSUME First(p) <= n, n <= EndOfMonth(p)
        PROVE  Year(n) = Year(p) /\ Month(n) = Month(p)
    <3>1. PICK day \in 0 .. (DaysInMonth - 1) : n = First(p) + day
      <4>1. n - First(p) \in 0 .. (DaysInMonth - 1)
        BY <1>1, <1>3, <1>4, <2>2
      <4>2. n = First(p) + (n - First(p))
        BY <1>3
      <4> QED
        BY <4>1, <4>2
    <3>2. n = DaysInMonth * Moon(p) + day
      BY <1>2, <3>1
    <3>3. n \div DaysInMonth = Moon(p)
      BY <1>1, <1>2, <3>1, <3>2, DivUnique
    <3> QED
      BY <3>3, Dated DEF Moon
  <2> QED
    BY <2>1, <2>2
<1> QED
  BY <1>1, <1>3, <1>4, <1>5, <1>6

-----------------------------------------------------------------------------
(***************************************************************************)
(* Sums of rows.  The sum over a set of rows with amounts in Nat is the    *)
(* number of coins it is paid in, which solves the recursion the fold      *)
(* stands for and has the laws of finite sets.                             *)
(***************************************************************************)
Coins(S) == {x \in S \X Nat : 1 <= x[2] /\ x[2] <= x[1].amount}

Pick(s) == CHOOSE x \in s : TRUE

Folds(g, S) == g = [s \in SUBSET S |-> IF s = {} THEN 0
                                     ELSE Pick(s).amount + g[s \ {Pick(s)}]]

LEMMA AmountsFold == \A S : Amounts(S) = (CHOOSE g : Folds(g, S))[S]
  BY DEF Amounts, MapThenSumSet, MapThenFoldSet, Folds, Pick

LEMMA CoinsOfOne ==
  ASSUME NEW x, x.amount \in Nat
  PROVE  IsFiniteSet(Coins({x})) /\ Cardinality(Coins({x})) = x.amount
<1> DEFINE f == [k \in 1 .. x.amount |-> <<x, k>>]
<1>1. f \in [1 .. x.amount -> Coins({x})]
  BY DEF Coins
<1>2. \A a, b \in 1 .. x.amount : f[a] = f[b] => a = b
  OBVIOUS
<1>3. \A y \in Coins({x}) : \E k \in 1 .. x.amount : f[k] = y
  BY DEF Coins
<1> HIDE DEF f
<1>4. f \in Bijection(1 .. x.amount, Coins({x}))
  BY <1>1, <1>2, <1>3, Fun_IsBij
<1>5. ExistsBijection(1 .. x.amount, Coins({x}))
  BY <1>4 DEF ExistsBijection
<1>6. IsFiniteSet(1 .. x.amount) /\ Cardinality(1 .. x.amount) = x.amount
  BY FS_Interval
<1> QED
  BY <1>5, <1>6, FS_Bijection

LEMMA CoinsFinite ==
  ASSUME NEW S, IsFiniteSet(S), \A x \in S : x.amount \in Nat
  PROVE  IsFiniteSet(Coins(S)) /\ Cardinality(Coins(S)) \in Nat
<1> DEFINE f == [x \in S |-> Coins({x})]
           T == {Coins({x}) : x \in S}
<1>1. f \in Surjection(S, T)
  <2>1. f \in [S -> T] /\ \A t \in T : \E x \in S : f[x] = t
    OBVIOUS
  <2> QED
    BY <2>1, Fun_IsSurj
<1>2. IsFiniteSet(T)
  BY <1>1, FS_Surjection
<1>3. \A t \in T : IsFiniteSet(t)
  BY CoinsOfOne
<1>4. Coins(S) = UNION T
  BY DEF Coins
<1> QED
  BY <1>2, <1>3, <1>4, FS_UNION, FS_CardinalityType

LEMMA CoinsAdd ==
  ASSUME NEW S, IsFiniteSet(S), \A x \in S : x.amount \in Nat, NEW x \in S
  PROVE  Cardinality(Coins(S)) = x.amount + Cardinality(Coins(S \ {x}))
<1>1. IsFiniteSet(S \ {x})
  BY FS_RemoveElement
<1>2. IsFiniteSet(Coins(S \ {x})) /\ Cardinality(Coins(S \ {x})) \in Nat
  BY <1>1, CoinsFinite
<1>3. IsFiniteSet(Coins({x})) /\ Cardinality(Coins({x})) = x.amount
  BY CoinsOfOne
<1>4. Coins(S) = Coins(S \ {x}) \cup Coins({x}) /\ Coins(S \ {x}) \cap Coins({x}) = {}
  BY DEF Coins
<1>5. Cardinality(Coins(S)) = Cardinality(Coins(S \ {x})) + Cardinality(Coins({x}))
                                 - Cardinality({})
  <2>1. Cardinality(Coins(S \ {x}) \cup Coins({x}))
           = Cardinality(Coins(S \ {x})) + Cardinality(Coins({x}))
                - Cardinality(Coins(S \ {x}) \cap Coins({x}))
    BY <1>2, <1>3, FS_Union
  <2> QED
    BY <1>4, <2>1, Zenon
<1> QED
  BY <1>2, <1>3, <1>5, FS_EmptySet

LEMMA CoinsNone == Coins({}) = {} /\ Cardinality({}) = 0
  BY FS_EmptySet DEF Coins

\* A recursion over the subsets of a finite set has one solution.
LEMMA FoldsToCoins ==
  ASSUME NEW S, IsFiniteSet(S), \A x \in S : x.amount \in Nat, NEW g, Folds(g, S)
  PROVE  \A s \in SUBSET S : g[s] = Cardinality(Coins(s))
<1> DEFINE wrong == {s \in SUBSET S : g[s] # Cardinality(Coins(s))}
<1> SUFFICES ASSUME wrong # {} PROVE FALSE
  OBVIOUS
<1>1. IsWellFoundedOn(StrictSubsetOrdering(S), SUBSET S)
  BY FS_StrictSubsetOrderingWellFounded, FS_FiniteSubsetsOfFinite
<1>2. wrong \subseteq SUBSET S
  OBVIOUS
<1> HIDE DEF wrong
<1>3. PICK s \in wrong : \A t \in wrong : ~ (<<t, s>> \in StrictSubsetOrdering(S))
  BY <1>1, <1>2, WFMin
<1>4. s \in SUBSET S /\ g[s] # Cardinality(Coins(s))
  BY DEF wrong
<1>5. g[s] = IF s = {} THEN 0 ELSE Pick(s).amount + g[s \ {Pick(s)}]
  BY <1>4 DEF Folds
<1>6. s # {}
  BY <1>4, <1>5, CoinsNone
<1>7. Pick(s) \in s
  BY <1>6 DEF Pick
<1>8. g[s \ {Pick(s)}] = Cardinality(Coins(s \ {Pick(s)}))
  <2>1. s \ {Pick(s)} \in SUBSET S /\ s \ {Pick(s)} # s
    BY <1>4, <1>7
  <2>2. <<s \ {Pick(s)}, s>> \in StrictSubsetOrdering(S)
    BY <1>4, <2>1 DEF StrictSubsetOrdering
  <2>3. s \ {Pick(s)} \notin wrong
    BY <1>3, <2>2
  <2> QED
    BY <2>1, <2>3 DEF wrong
<1>9. IsFiniteSet(s) /\ \A x \in s : x.amount \in Nat
  BY <1>4, FS_Subset
<1>10. Cardinality(Coins(s)) = Pick(s).amount + Cardinality(Coins(s \ {Pick(s)}))
  BY <1>7, <1>9, CoinsAdd
<1> QED
  BY <1>4, <1>5, <1>6, <1>8, <1>10

LEMMA AmountsAreCoins ==
  ASSUME NEW S, IsFiniteSet(S), \A x \in S : x.amount \in Nat
  PROVE  Amounts(S) = Cardinality(Coins(S)) /\ Amounts(S) \in Nat
<1> DEFINE h == [s \in SUBSET S |-> Cardinality(Coins(s))]
<1>1. Folds(h, S)
  <2>1. ASSUME NEW s \in SUBSET S
        PROVE  Cardinality(Coins(s)) = IF s = {} THEN 0
                                       ELSE Pick(s).amount + h[s \ {Pick(s)}]
    <3>1. CASE s = {}
      BY <3>1, CoinsNone
    <3>2. CASE s # {}
      <4>1. Pick(s) \in s /\ IsFiniteSet(s) /\ \A x \in s : x.amount \in Nat
        BY <3>2, FS_Subset DEF Pick
      <4>2. Cardinality(Coins(s)) = Pick(s).amount + Cardinality(Coins(s \ {Pick(s)}))
        BY <4>1, CoinsAdd
      <4>3. s \ {Pick(s)} \in SUBSET S
        OBVIOUS
      <4> QED
        BY <3>2, <4>2, <4>3
    <3> QED
      BY <3>1, <3>2
  <2> QED
    BY <2>1 DEF Folds
<1> HIDE DEF h
<1>2. Folds(CHOOSE g : Folds(g, S), S)
  BY <1>1
<1>3. (CHOOSE g : Folds(g, S))[S] = Cardinality(Coins(S))
  BY <1>2, FoldsToCoins
<1> QED
  BY <1>3, AmountsFold, CoinsFinite

\* Less is paid for fewer rows, and nothing for none.
LEMMA AmountsMonotone ==
  ASSUME NEW S, IsFiniteSet(S), \A x \in S : x.amount \in Nat, NEW T \in SUBSET S
  PROVE  Amounts(T) <= Amounts(S)
<1>1. IsFiniteSet(T) /\ \A x \in T : x.amount \in Nat
  BY FS_Subset
<1>2. IsFiniteSet(Coins(S)) /\ Coins(T) \subseteq Coins(S)
  BY CoinsFinite DEF Coins
<1>3. Cardinality(Coins(T)) <= Cardinality(Coins(S))
  BY <1>2, FS_Subset
<1> QED
  BY <1>1, <1>3, AmountsAreCoins

LEMMA AmountsOfNone == Amounts({}) = 0
<1>1. IsFiniteSet({}) /\ \A x \in {} : x.amount \in Nat
  BY FS_EmptySet
<1> QED
  BY <1>1, AmountsAreCoins, CoinsNone

\* The plans of a month and a category are one: it is their sum.
SumsUp(g, S) == g = [s \in SUBSET S |-> IF s = {} THEN 0
                                      ELSE Pick(s).sum + g[s \ {Pick(s)}]]

LEMMA SumsFold == \A S : Sums(S) = (CHOOSE g : SumsUp(g, S))[S]
  BY DEF Sums, MapThenSumSet, MapThenFoldSet, SumsUp, Pick

LEMMA SumsOfOne ==
  ASSUME NEW p, p.sum \in Int
  PROVE  Sums({p}) = p.sum
<1> DEFINE h == [s \in SUBSET {p} |-> IF s = {} THEN 0 ELSE p.sum]
<1>1. \A s \in SUBSET {p} : s = {} \/ (s = {p} /\ Pick(s) = p /\ s \ {Pick(s)} = {})
  <2>1. Pick({p}) = p
    BY DEF Pick
  <2> QED
    BY <2>1
<1>2. SumsUp(h, {p})
  <2>1. \A s \in SUBSET {p} : (IF s = {} THEN 0 ELSE p.sum)
                                 = IF s = {} THEN 0 ELSE Pick(s).sum + h[s \ {Pick(s)}]
    BY <1>1
  <2> QED
    BY <2>1 DEF SumsUp
<1> HIDE DEF h
<1>3. SumsUp(CHOOSE g : SumsUp(g, {p}), {p})
  BY <1>2
<1>4. \A g : SumsUp(g, {p}) => g[{p}] = p.sum
  <2> SUFFICES ASSUME NEW g, SumsUp(g, {p}) PROVE g[{p}] = p.sum
    OBVIOUS
  <2>1. g[{}] = 0
    BY DEF SumsUp
  <2>2. g[{p}] = Pick({p}).sum + g[{p} \ {Pick({p})}]
    BY DEF SumsUp
  <2>3. Pick({p}) = p
    BY DEF Pick
  <2>4. g[{p}] = p.sum + g[{}]
    <3>1. {p} \ {p} = {}
      OBVIOUS
    <3> QED
      BY <2>2, <2>3, <3>1, Zenon
  <2> QED
    BY <2>1, <2>4
<1> QED
  BY <1>3, <1>4, SumsFold

-----------------------------------------------------------------------------
(***************************************************************************)
(* The tables.  Rows are added in batches, and what a batch refers to and  *)
(* repeats is told by the tables it comes upon with at most one other.     *)
(***************************************************************************)
\* Tables that some batches have made of the first ones.
Recorded(t) ==
    /\ DOMAIN t = Tables
    /\ \E done \in SUBSET Batches : \A x \in Tables :
          t[x] = Initial[x] \cup UNION {b[x] : b \in done}

LEMMA Fields ==
  ASSUME NEW t, NEW b
  PROVE  /\ With(t, b).users = t.users \cup b.users
         /\ With(t, b).dictionary = t.dictionary \cup b.dictionary
         /\ With(t, b).plans = t.plans \cup b.plans
         /\ With(t, b).credits = t.credits \cup b.credits
         /\ With(t, b).payments = t.payments \cup b.payments
         /\ \A x \in Tables : With(t, b)[x] = t[x] \cup b[x]
  BY DEF With, Tables

LEMMA FirstTables == Recorded(Initial)
<1>1. DOMAIN Initial = Tables
  BY ReportsAssumption DEF TypedTables
<1>2. \A x \in Tables : Initial[x] = Initial[x] \cup UNION {b[x] : b \in {}}
  OBVIOUS
<1> QED
  BY <1>1, <1>2 DEF Recorded

LEMMA NextTables ==
  ASSUME NEW t, Recorded(t), NEW b \in Batches
  PROVE  Recorded(With(t, b))
<1>1. PICK done \in SUBSET Batches : \A x \in Tables :
         t[x] = Initial[x] \cup UNION {c[x] : c \in done}
  BY DEF Recorded
<1>2. done \cup {b} \in SUBSET Batches /\ DOMAIN With(t, b) = Tables
  BY DEF With
<1>3. ASSUME NEW x \in Tables
      PROVE  With(t, b)[x] = Initial[x] \cup UNION {c[x] : c \in done \cup {b}}
  <2>1. With(t, b)[x] = t[x] \cup b[x] /\ t[x] = Initial[x] \cup UNION {c[x] : c \in done}
    BY <1>1, Fields
  <2>2. UNION {c[x] : c \in done \cup {b}} = (UNION {c[x] : c \in done}) \cup b[x]
    OBVIOUS
  <2> QED
    BY <2>1, <2>2
<1> QED
  BY <1>2, <1>3 DEF Recorded

\* Two rows of a table have come by sound tables they are both in, and what
\* one refers to came with it or before.
LEMMA Together ==
  ASSUME NEW t, Recorded(t), NEW x \in Tables, NEW y \in t[x], NEW z \in t[x]
  PROVE  \E u : SoundTables(u) /\ y \in u[x] /\ z \in u[x]
<1>1. PICK done \in SUBSET Batches : \A w \in Tables :
         t[w] = Initial[w] \cup UNION {b[w] : b \in done}
  BY DEF Recorded
<1>2. SoundTables(Initial) /\ \A b, c \in Batches : SoundTables(With(With(Initial, b), c))
  BY ReportsAssumption
<1>3. \A b, c \in Batches : With(With(Initial, b), c)[x] = Initial[x] \cup b[x] \cup c[x]
  BY Fields
<1>4. y \in Initial[x] \/ \E b \in Batches : y \in b[x]
  BY <1>1
<1>5. z \in Initial[x] \/ \E b \in Batches : z \in b[x]
  BY <1>1
<1>6. CASE y \in Initial[x] /\ z \in Initial[x]
  BY <1>2, <1>6
<1>7. CASE \E b \in Batches : y \in b[x] /\ (z \in Initial[x] \/ z \in b[x])
  BY <1>2, <1>3, <1>7
<1>8. CASE \E b \in Batches : z \in b[x] /\ (y \in Initial[x] \/ y \in b[x])
  BY <1>2, <1>3, <1>8
<1>9. CASE \E b, c \in Batches : y \in b[x] /\ z \in c[x]
  BY <1>2, <1>3, <1>9
<1> QED
  BY <1>4, <1>5, <1>6, <1>7, <1>8, <1>9

LEMMA Origin ==
  ASSUME NEW t, Recorded(t), NEW x \in Tables, NEW y \in t[x]
  PROVE  \E u : /\ SoundTables(u) /\ y \in u[x]
                /\ \A w \in Tables : u[w] \subseteq t[w]
<1>1. PICK done \in SUBSET Batches : \A w \in Tables :
         t[w] = Initial[w] \cup UNION {b[w] : b \in done}
  BY DEF Recorded
<1>2. SoundTables(Initial) /\ \A b \in Batches : SoundTables(With(Initial, b))
  BY ReportsAssumption
<1>3. CASE y \in Initial[x]
  BY <1>1, <1>2, <1>3
<1>4. CASE \E b \in done : y \in b[x]
  <2>1. PICK b \in done : y \in b[x]
    BY <1>4
  <2>2. y \in With(Initial, b)[x] /\ \A w \in Tables : With(Initial, b)[w] \subseteq t[w]
    BY <1>1, <2>1, Fields
  <2> QED
    BY <1>2, <2>2
<1> QED
  BY <1>1, <1>3, <1>4

LEMMA RecordedSound ==
  ASSUME NEW t, Recorded(t)
  PROVE  SoundTables(t)
<1>1. \A e, f \in t.dictionary : e.id = f.id \/ e.name = f.name => e = f
  <2> SUFFICES ASSUME NEW e \in t.dictionary, NEW f \in t.dictionary,
                      e.id = f.id \/ e.name = f.name
               PROVE  e = f
    OBVIOUS
  <2>1. PICK u : SoundTables(u) /\ e \in u.dictionary /\ f \in u.dictionary
    BY Together DEF Tables
  <2> QED
    BY <2>1 DEF SoundTables
<1>2. \A p \in t.plans : \E e \in t.dictionary : e.id = p.category_id
  <2> TAKE p \in t.plans
  <2>1. PICK u : SoundTables(u) /\ p \in u.plans /\ u.dictionary \subseteq t.dictionary
    BY Origin DEF Tables
  <2> QED
    BY <2>1 DEF SoundTables
<1>3. \A p, q \in t.plans : p.period = q.period /\ p.category_id = q.category_id => p = q
  <2> SUFFICES ASSUME NEW p \in t.plans, NEW q \in t.plans, p.period = q.period,
                      p.category_id = q.category_id
               PROVE  p = q
    OBVIOUS
  <2>1. PICK u : SoundTables(u) /\ p \in u.plans /\ q \in u.plans
    BY Together DEF Tables
  <2> QED
    BY <2>1 DEF SoundTables
<1>4. \A c \in t.credits : c.user_id \in t.users
  <2> TAKE c \in t.credits
  <2>1. PICK u : SoundTables(u) /\ c \in u.credits /\ u.users \subseteq t.users
    BY Origin DEF Tables
  <2> QED
    BY <2>1 DEF SoundTables
<1>5. \A p \in t.payments : /\ \E c \in t.credits : c.id = p.credit_id
                            /\ \E e \in t.dictionary : e.id = p.type_id
  <2> TAKE p \in t.payments
  <2>1. PICK u : /\ SoundTables(u) /\ p \in u.payments
                 /\ u.credits \subseteq t.credits /\ u.dictionary \subseteq t.dictionary
    BY Origin DEF Tables
  <2> QED
    BY <2>1 DEF SoundTables
<1> QED
  BY <1>1, <1>2, <1>3, <1>4, <1>5 DEF SoundTables

LEMMA RecordedTyped ==
  ASSUME NEW t, Recorded(t)
  PROVE  TypedTables(t)
<1>1. PICK done \in SUBSET Batches : \A w \in Tables :
         t[w] = Initial[w] \cup UNION {b[w] : b \in done}
  BY DEF Recorded
<1>2. /\ TypedTables(Initial) /\ \A b \in Batches : TypedTables(b)
      /\ IsFiniteSet(Batches)
  BY ReportsAssumption
<1>3. ASSUME NEW x \in Tables PROVE IsFiniteSet(t[x])
  <2> DEFINE f == [b \in done |-> b[x]]
             T == {b[x] : b \in done}
  <2>1. f \in Surjection(done, T)
    <3>1. f \in [done -> T] /\ \A y \in T : \E b \in done : f[b] = y
      OBVIOUS
    <3> QED
      BY <3>1, Fun_IsSurj
  <2>2. IsFiniteSet(done)
    BY <1>2, FS_Subset
  <2>3. IsFiniteSet(T)
    BY <2>1, <2>2, FS_Surjection
  <2>4. \A y \in T : IsFiniteSet(y)
    BY <1>2 DEF TypedTables
  <2>5. IsFiniteSet(UNION T)
    BY <2>3, <2>4, FS_UNION
  <2>6. IsFiniteSet(Initial[x])
    BY <1>2 DEF TypedTables
  <2>7. IsFiniteSet(Initial[x] \cup UNION T)
    <3> HIDE DEF T
    <3> QED
      BY <2>5, <2>6, FS_Union
  <2>8. t[x] = Initial[x] \cup UNION T
    BY <1>1
  <2> QED
    BY <2>7, <2>8, Zenon
<1>4. \A x \in Tables : \A y \in t[x] : y \in Initial[x] \/ \E b \in Batches : y \in b[x]
  BY <1>1
<1>5. /\ \A y \in t.plans : y \in Initial.plans \/ \E b \in Batches : y \in b.plans
      /\ \A y \in t.credits : y \in Initial.credits \/ \E b \in Batches : y \in b.credits
      /\ \A y \in t.payments : y \in Initial.payments \/ \E b \in Batches : y \in b.payments
  BY <1>4 DEF Tables
<1> QED
  BY <1>2, <1>3, <1>5 DEF TypedTables, Recorded

-----------------------------------------------------------------------------
(***************************************************************************)
(* What the reports say of the tables they have seen.                      *)
(***************************************************************************)
Counted == {"issuance", "collection"}

NamesIn(t, id) == {e.name : e \in {f \in t.dictionary : f.id = id}}

\* plans_performance: one item for each plan due whose category is counted.
Due(q, t) == {p \in t.plans : p.period <= q.day}

PlanItem(q, t, p, name) ==
    LET end == IF q.day < EndOfMonth(p.period) THEN q.day ELSE EndOfMonth(p.period)
        rows == IF name = "issuance" THEN Issued(t) ELSE Paid(t)
        actual == SumBetween(rows, p.period, end)
    IN  [period |-> p.period, category |-> name, plan |-> p.sum,
         actual |-> actual, percent |-> Percent(actual, p.sum)]

NamedIn(t, S) == {x \in S \X Counted : x[2] \in NamesIn(t, x[1].category_id)}

PlanItems(q, t, S) == {PlanItem(q, t, x[1], x[2]) : x \in NamedIn(t, S)}

PlansTold(q, t, S, items) ==
    /\ items \in Seq(PlanItems(q, t, S))
    /\ Range(items) = PlanItems(q, t, S)
    /\ \A i, j \in DOMAIN items : i # j => items[i].period # items[j].period
                                        \/ items[i].category # items[j].category

\* year_performance: one item for each month with something to tell.
OfYear(q, t) == {p \in t.plans : Year(p.period) = q.year}

PlannedIn(q, t, name, month) ==
    {p \in OfYear(q, t) : Month(p.period) = month /\ name \in NamesIn(t, p.category_id)}

EntryIn(q, t, month, name, stats) ==
    LET stat == StatOf(stats, month)
        plan == Sums(PlannedIn(q, t, name, month))
    IN  [count |-> stat.count, plan |-> plan, actual |-> stat.total,
         percent |-> Percent(stat.total, plan),
         share |-> Percent(stat.total, YearTotal(stats))]

CreditStatsIn(q, t) == MonthlyStats(Issued(t), q.year)
PaymentStatsIn(q, t) == MonthlyStats(Paid(t), q.year)

MonthsIn(q, t) ==
    {m \in 1 .. MonthsInYear : \E n \in {"issuance", "collection"} :
                                  PlannedIn(q, t, n, m) # {}}
       \cup DOMAIN CreditStatsIn(q, t) \cup DOMAIN PaymentStatsIn(q, t)

MonthIn(q, t, m) ==
    [period |-> FirstOf(q.year, m),
     issuance |-> EntryIn(q, t, m, "issuance", CreditStatsIn(q, t)),
     collection |-> EntryIn(q, t, m, "collection", PaymentStatsIn(q, t))]

YearTold(q, t, items) ==
    \E months \in InOrder(MonthsIn(q, t)) :
       items = [i \in DOMAIN months |-> MonthIn(q, t, months[i])]

\* user_credits: one item for each credit of the user, by days of issue.
Own(q, t) == {c \in t.credits : c.user_id = q.user}

PaidFor(t, c) == {p \in t.payments : p.credit_id = c.id}

CreditItem(q, t, c) ==
    LET ofType(name) == {p \in PaidFor(t, c) : name \in NamesIn(t, p.type_id)}
    IN  IF c.closed
          THEN [closed |-> TRUE, issuance_date |-> c.issuance_date, body |-> c.body,
                total |-> Sums(PaidFor(t, c))]
          ELSE [closed |-> FALSE, issuance_date |-> c.issuance_date, body |-> c.body,
                overdue |-> IF q.day > c.return_date THEN q.day - c.return_date ELSE 0,
                body_payments |-> Sums(ofType("body")),
                interest_payments |-> Sums(ofType("interest"))]

UserTold(q, t, items) ==
    \E list \in ByDate(Own(q, t)) :
       items = [i \in DOMAIN list |-> CreditItem(q, t, list[i])]

\* A request has failed, its user is unknown, or its report is that of the
\* tables t, which were the committed ones at some instant.
Told(q, t, a) ==
    \/ a = [status |-> "500"]
    \/ /\ Recorded(t) /\ q.kind = "user" /\ q.user \notin t.users
       /\ a = [status |-> "404"]
    \/ /\ Recorded(t) /\ a = [status |-> "200", items |-> a.items]
       /\ \/ q.kind = "plans" /\ PlansTold(q, t, Due(q, t), a.items)
          \/ q.kind = "year" /\ YearTold(q, t, a.items)
          \/ q.kind = "user" /\ q.user \in t.users /\ UserTold(q, t, a.items)

-----------------------------------------------------------------------------
(***************************************************************************)
(* The invariant: what a request at stage p holds.                         *)
(***************************************************************************)
Empty == [status |-> "200", items |-> <<>>]

Asked(q, kind) == q \in Queries /\ q.kind = kind

Distinct(s) == \A i, j \in DOMAIN s : i # j => s[i] # s[j]

Standing(p, q, t, names, list, stats, told, response) ==
    \/ p = "idle" /\ q = Nothing /\ told = Empty /\ response = Nothing
    \/ /\ p \in {"plans", "year", "user"} /\ Asked(q, p)
       /\ told = Empty /\ response = Nothing
    \/ /\ p \in {"names", "evaluate"} /\ Asked(q, "plans") /\ Recorded(t)
       /\ list \in Seq(Due(q, t)) /\ Distinct(list)
       /\ p = "evaluate" => names = t.dictionary
       /\ told = [status |-> "200", items |-> told.items]
       /\ PlansTold(q, t, Due(q, t) \ Range(list), told.items)
       /\ response = Nothing
    \/ /\ p \in {"year_plans", "credit_stats", "payment_stats"} /\ Asked(q, "year")
       /\ Recorded(t) /\ names = t.dictionary
       /\ p # "year_plans" => Range(list) = OfYear(q, t)
       /\ p = "payment_stats" => stats = CreditStatsIn(q, t)
       /\ told = Empty /\ response = Nothing
    \/ /\ p \in {"user_credits", "types", "payments"} /\ Asked(q, "user")
       /\ Recorded(t) /\ q.user \in t.users
       /\ p # "user_credits" => stats \in ByDate(Own(q, t))
       /\ p = "payments" => names = t.dictionary
       /\ told = Empty /\ response = Nothing
    \/ p = "respond" /\ q \in Queries /\ Told(q, t, told) /\ response = Nothing
    \/ p = "done" /\ q \in Queries /\ Told(q, t, told) /\ response = told

Stands(r) == Standing(pc[r], query[r], view[r], dictionary[r], plans[r], credits[r],
                      result[r], answer[r])

Shape ==
    /\ DOMAIN pc = Request /\ DOMAIN query = Request /\ DOMAIN view = Request
    /\ DOMAIN dictionary = Request /\ DOMAIN plans = Request
    /\ DOMAIN credits = Request /\ DOMAIN result = Request /\ DOMAIN answer = Request

ReportsInv ==
    /\ Shape
    /\ Recorded(db)
    /\ \A r \in Request : Stands(r)

-----------------------------------------------------------------------------
(***************************************************************************)
(* Lists.                                                                  *)
(***************************************************************************)
\* ORDER BY and sorted() lose nothing and repeat nothing.
LEMMA ListOf ==
  ASSUME NEW S, IsFiniteSet(S), NEW s \in SetToSeqs(S)
  PROVE  /\ s \in Seq(S) /\ Range(s) = S /\ Distinct(s)
         /\ s \in [1 .. Cardinality(S) -> S] /\ Cardinality(S) \in Nat
<1> DEFINE n == Cardinality(S)
<1>1. n \in Nat /\ IsFiniteSet(1 .. n) /\ Cardinality(1 .. n) = n
  <2>1. n \in Nat
    BY FS_CardinalityType
  <2> QED
    BY <2>1, FS_Interval
<1>2. s \in [1 .. n -> S] /\ \A i, j \in 1 .. n : i # j => s[i] # s[j]
  BY DEF SetToSeqs
<1>3. s \in Injection(1 .. n, S)
  BY <1>2, Fun_IsInj
<1>4. s \in Surjection(1 .. n, S)
  BY <1>1, <1>3, FS_Injection
<1>5. Range(s) = S
  BY <1>4, Fun_SurjectionProperties
<1>6. s \in Seq(S)
  BY <1>1, <1>2
<1> QED
  BY <1>1, <1>2, <1>5, <1>6 DEF Distinct

LEMMA HeadGone ==
  ASSUME NEW S, NEW s \in Seq(S), s # <<>>, Distinct(s)
  PROVE  /\ Head(s) \in S /\ Tail(s) \in Seq(S) /\ Distinct(Tail(s))
         /\ Range(s) = {Head(s)} \cup Range(Tail(s)) /\ Head(s) \notin Range(Tail(s))
         /\ Len(s) = 1 => Range(Tail(s)) = {}
         /\ Range(s) \subseteq S
<1>1. /\ Len(s) \in Nat \ {0} /\ DOMAIN s = 1 .. Len(s)
      /\ \A i \in 1 .. Len(s) : s[i] \in S
  BY EmptySeq, LenProperties, ElementOfSeq
<1>2. /\ Head(s) \in S /\ Tail(s) \in Seq(S) /\ Len(Tail(s)) = Len(s) - 1
      /\ \A i \in 1 .. Len(Tail(s)) : Tail(s)[i] = s[i + 1]
  BY HeadTailProperties
<1>3. DOMAIN Tail(s) = 1 .. (Len(s) - 1) /\ Head(s) = s[1]
  BY <1>2, LenProperties
<1>4. \A i \in 1 .. (Len(s) - 1) : /\ i + 1 \in 1 .. Len(s) /\ i + 1 # 1
                                   /\ Tail(s)[i] = s[i + 1]
  BY <1>1, <1>2
<1>5. Distinct(Tail(s))
  BY <1>1, <1>3, <1>4 DEF Distinct
<1>6. Head(s) \notin Range(Tail(s))
  BY <1>1, <1>3, <1>4 DEF Distinct, Range
<1>7. Range(s) = {Head(s)} \cup Range(Tail(s))
  <2>1. \A i \in 1 .. Len(s) : i = 1 \/ (i - 1 \in 1 .. (Len(s) - 1) /\ (i - 1) + 1 = i)
    BY <1>1
  <2>2. \A i \in 1 .. Len(s) : s[i] = Head(s) \/ s[i] \in Range(Tail(s))
    BY <1>3, <1>4, <2>1 DEF Range
  <2>3. 1 \in 1 .. Len(s)
    BY <1>1
  <2> QED
    BY <1>1, <1>3, <1>4, <2>2, <2>3 DEF Range
<1>8. Len(s) = 1 => Range(Tail(s)) = {}
  BY <1>3 DEF Range
<1> QED
  BY <1>1, <1>2, <1>5, <1>6, <1>7, <1>8 DEF Range

-----------------------------------------------------------------------------
(***************************************************************************)
(* The items of plans_performance.                                         *)
(***************************************************************************)
\* Ids have one name, and names one id.
LEMMA OneName ==
  ASSUME NEW t, Recorded(t)
  PROVE  /\ \A id : \A m, n \in NamesIn(t, id) : m = n
         /\ \A id, jd : NamesIn(t, id) \cap NamesIn(t, jd) # {} => id = jd
         /\ \A p \in t.plans : NamesIn(t, p.category_id) # {}
  BY RecordedSound DEF SoundTables, NamesIn

LEMMA NoneTold == \A q, t : PlansTold(q, t, {}, <<>>)
<1>1. \A q, t : PlanItems(q, t, {}) = {}
  BY DEF PlanItems, NamedIn
<1>2. DOMAIN <<>> = {} /\ Range(<<>>) = {} /\ \A S : <<>> \in Seq(S)
  BY DEF Range
<1> QED
  BY <1>1, <1>2 DEF PlansTold

LEMMA OneMoreTold ==
  ASSUME NEW q, NEW t, Recorded(t), NEW S \in SUBSET t.plans, NEW p \in t.plans, p \notin S,
         NEW name, NamesIn(t, p.category_id) = {name}, NEW items, PlansTold(q, t, S, items)
  PROVE  /\ name \in Counted =>
               PlansTold(q, t, S \cup {p}, items \o <<PlanItem(q, t, p, name)>>)
         /\ name \notin Counted => PlansTold(q, t, S \cup {p}, items)
<1> DEFINE e == PlanItem(q, t, p, name)
           all == PlanItems(q, t, S \cup {p})
<1>1. name \notin Counted => all = PlanItems(q, t, S)
  <2>1. name \notin Counted => NamedIn(t, S \cup {p}) = NamedIn(t, S)
    BY DEF NamedIn
  <2> QED
    BY <2>1 DEF PlanItems
<1>2. ASSUME name \in Counted PROVE all = PlanItems(q, t, S) \cup {e}
  <2>1. NamedIn(t, S \cup {p}) = NamedIn(t, S) \cup {<<p, name>>}
    BY <1>2 DEF NamedIn
  <2>2. <<p, name>>[1] = p /\ <<p, name>>[2] = name
    OBVIOUS
  <2> DEFINE N == NamedIn(t, S)
             P(x) == PlanItem(q, t, x[1], x[2])
  <2>3. {P(x) : x \in N \cup {<<p, name>>}} = {P(x) : x \in N} \cup {P(<<p, name>>)}
    <3> HIDE DEF N, P
    <3> QED
      OBVIOUS
  <2>4. P(<<p, name>>) = e
    BY <2>2, Zenon
  <2> HIDE DEF N, P, e
  <2>5. all = {P(x) : x \in N \cup {<<p, name>>}} /\ PlanItems(q, t, S) = {P(x) : x \in N}
    BY <2>1, Zenon DEF PlanItems, N, P
  <2> QED
    BY <2>3, <2>4, <2>5, Zenon
<1>3. e.period = p.period /\ e.category = name
  BY DEF PlanItem
<1>4. \A x \in PlanItems(q, t, S) : x.period # e.period \/ x.category # e.category
  <2> SUFFICES ASSUME NEW y \in NamedIn(t, S), y[1].period = p.period, y[2] = name
               PROVE  FALSE
    BY <1>3 DEF PlanItems, PlanItem
  <2>1. y[1] \in S /\ name \in NamesIn(t, y[1].category_id)
    BY DEF NamedIn
  <2>2. y[1].category_id = p.category_id
    BY <2>1, OneName
  <2>3. y[1] = p
    BY <2>1, <2>2, RecordedSound DEF SoundTables
  <2> QED
    BY <2>1, <2>3
<1>5. /\ items \in Seq(PlanItems(q, t, S)) /\ Range(items) = PlanItems(q, t, S)
      /\ Len(items) \in Nat /\ DOMAIN items = 1 .. Len(items)
      /\ \A i, j \in DOMAIN items : i # j => items[i].period # items[j].period
                                          \/ items[i].category # items[j].category
  BY LenProperties DEF PlansTold
<1>6. CASE name \notin Counted
  BY <1>1, <1>6 DEF PlansTold
<1>7. CASE name \in Counted
  <2> HIDE DEF e, all
  <2> DEFINE more == items \o <<e>>
  <2>1. items \in Seq(all) /\ e \in all
    BY <1>2, <1>5, <1>7, SeqMonotonic
  <2>2. more = Append(items, e)
    BY <2>1, AppendIsConcat
  <2>3. /\ more \in Seq(all) /\ Len(more) = Len(items) + 1
        /\ \A i \in 1 .. Len(items) : more[i] = items[i]
        /\ more[Len(items) + 1] = e
    BY <2>1, <2>2, AppendProperties
  <2> HIDE DEF more
  <2>4. DOMAIN more = 1 .. (Len(items) + 1)
    BY <2>3, LenProperties
  <2>5. \A i \in 1 .. (Len(items) + 1) : i \in 1 .. Len(items) \/ i = Len(items) + 1
    BY <1>5
  <2>6. Range(more) = all
    <3>1. Range(more) = Range(items) \cup {e}
      <4>1. Range(more) \subseteq Range(items) \cup {e}
        BY <1>5, <2>3, <2>4, <2>5 DEF Range
      <4>2. \A i \in 1 .. Len(items) : i \in 1 .. (Len(items) + 1) /\ items[i] = more[i]
        BY <1>5, <2>3
      <4>3. Len(items) + 1 \in 1 .. (Len(items) + 1)
        BY <1>5
      <4> QED
        BY <1>5, <2>3, <2>4, <4>1, <4>2, <4>3 DEF Range
    <3> QED
      BY <1>2, <1>5, <1>7, <3>1
  <2>7. \A i \in 1 .. Len(items) : items[i].period # e.period \/ items[i].category # e.category
    BY <1>4, <1>5 DEF Range
  <2>8. ASSUME NEW i \in DOMAIN more, NEW j \in DOMAIN more, i # j
        PROVE  more[i].period # more[j].period \/ more[i].category # more[j].category
    BY <1>5, <2>3, <2>4, <2>5, <2>7, <2>8
  <2>9. PlansTold(q, t, S \cup {p}, more)
    BY <2>3, <2>6, <2>8 DEF PlansTold, all
  <2> QED
    BY <1>7, <2>9 DEF more, e
<1> QED
  BY <1>6, <1>7

-----------------------------------------------------------------------------
(***************************************************************************)
(* The steps.                                                              *)
(***************************************************************************)
\* A step of r is nobody else's, and leaves the tables as they are.
Only(r) ==
    /\ Shape'
    /\ db' = db
    /\ \A s \in Request \ {r} :
          /\ pc'[s] = pc[s] /\ query'[s] = query[s] /\ view'[s] = view[s]
          /\ dictionary'[s] = dictionary[s] /\ plans'[s] = plans[s]
          /\ credits'[s] = credits[s] /\ result'[s] = result[s] /\ answer'[s] = answer[s]

LEMMA Alone ==
  ASSUME ReportsInv, NEW r \in Request, Only(r), Stands(r)'
  PROVE  ReportsInv'
<1>1. Shape' /\ Recorded(db)'
  BY DEF Only, ReportsInv, Recorded
<1>2. ASSUME NEW s \in Request PROVE Stands(s)'
  <2>1. CASE s = r
    BY <2>1
  <2>2. CASE s # r
    <3>1. Stands(s)
      BY DEF ReportsInv
    <3> QED
      BY <2>2, <3>1, Zenon DEF Only, Stands
  <2> QED
    BY <2>1, <2>2
<1> QED
  BY <1>1, <1>2 DEF ReportsInv

LEMMA InitReports == Init => ReportsInv
<1> SUFFICES ASSUME Init PROVE ReportsInv
  OBVIOUS
<1>1. Shape /\ Recorded(db)
  BY FirstTables DEF Init, Shape
<1>2. \A r \in Request : pc[r] = "idle" /\ query[r] = Nothing /\ result[r] = Empty
                         /\ answer[r] = Nothing
  BY DEF Init, Empty
<1>3. \A r \in Request : Stands(r)
  BY <1>2 DEF Stands, Standing
<1> QED
  BY <1>1, <1>3 DEF ReportsInv

LEMMA ReceiveStep ==
  ASSUME ReportsInv, NEW r \in Request, Receive(r)
  PROVE  ReportsInv'
<1>1. Stands(r) /\ Shape
  BY DEF ReportsInv
<1>2. Only(r)
  BY <1>1 DEF Receive, Only, Shape
<1>3. pc[r] = "idle"
  BY DEF Receive
<1>4. result[r] = Empty /\ answer[r] = Nothing
  BY <1>1, <1>3 DEF Stands, Standing
<1>5. /\ query'[r] \in Queries /\ pc'[r] = query'[r].kind
      /\ result'[r] = result[r] /\ answer'[r] = answer[r]
  BY <1>1 DEF Receive, Shape
<1>6. query'[r].kind \in {"plans", "year", "user"}
  BY <1>5, ReportsAssumption
<1>7. Stands(r)'
  BY <1>4, <1>5, <1>6 DEF Stands, Standing, Asked
<1> QED
  BY <1>2, <1>7, Alone

\* plans_performance.
LEMMA ListUpToStep ==
  ASSUME ReportsInv, NEW r \in Request, ListUpTo(r)
  PROVE  ReportsInv'
<1> DEFINE q == query[r]
           due == Due(q, db)
<1>1. Stands(r) /\ Shape /\ Recorded(db) /\ pc[r] = "plans"
  BY DEF ReportsInv, ListUpTo, Goto
<1>2. Only(r)
  BY <1>1 DEF ListUpTo, Goto, OpenView, Only, Shape
<1>3. Asked(q, "plans") /\ result[r] = Empty /\ answer[r] = Nothing
  BY <1>1 DEF Stands, Standing
<1>4. /\ pc'[r] = IF due = {} THEN "respond" ELSE "names"
      /\ view'[r] = db /\ query'[r] = q /\ result'[r] = Empty /\ answer'[r] = Nothing
      /\ plans'[r] \in SetToSeqs(due)
  BY <1>1, <1>3 DEF ListUpTo, Goto, OpenView, ByPeriod, Due, Shape
<1>5. IsFiniteSet(due)
  <2>1. IsFiniteSet(db.plans) /\ due \subseteq db.plans
    BY <1>1, RecordedTyped DEF TypedTables, Tables, Due
  <2> QED
    BY <2>1, FS_Subset
<1>6. plans'[r] \in Seq(due) /\ Range(plans'[r]) = due /\ Distinct(plans'[r])
  BY <1>4, <1>5, ListOf
<1>7. PlansTold(q, db, {}, <<>>)
  BY NoneTold
<1> HIDE DEF due
<1>8. CASE due = {}
  <2>1. Told(q, db, Empty)
    BY <1>1, <1>3, <1>7, <1>8 DEF Told, Asked, Empty, due
  <2> QED
    BY <1>2, <1>3, <1>4, <1>8, <2>1, Alone DEF Stands, Standing, Asked
<1>9. CASE due # {}
  <2>1. Due(q, db) \ Range(plans'[r]) = {}
    BY <1>6 DEF due
  <2>2. /\ Empty.items = <<>> /\ Empty = [status |-> "200", items |-> Empty.items]
        /\ plans'[r] \in Seq(Due(q, db))
    BY <1>6 DEF Empty, due
  <2>3. Standing("names", q, db, dictionary'[r], plans'[r], credits'[r], Empty, Nothing)
    BY <1>1, <1>3, <1>6, <1>7, <2>1, <2>2 DEF Standing
  <2>4. Stands(r)'
    BY <1>4, <1>9, <2>3 DEF Stands
  <2> QED
    BY <1>2, <2>4, Alone
<1> QED
  BY <1>8, <1>9

LEMMA ListNamesStep ==
  ASSUME ReportsInv, NEW r \in Request, ListNames(r)
  PROVE  ReportsInv'
<1>1. Stands(r) /\ Shape /\ pc[r] = "names"
  BY DEF ReportsInv, ListNames, Goto
<1>2. Only(r)
  BY <1>1 DEF ListNames, Goto, Only, Shape
<1>3. /\ pc'[r] = "evaluate" /\ dictionary'[r] = view[r].dictionary
      /\ query'[r] = query[r] /\ view'[r] = view[r] /\ plans'[r] = plans[r]
      /\ result'[r] = result[r] /\ answer'[r] = answer[r]
  BY <1>1 DEF ListNames, Goto, Visible, Shape
<1>4. Stands(r)'
  BY <1>1, <1>3 DEF Stands, Standing
<1> QED
  BY <1>2, <1>4, Alone

\* One round of the loop: the plan's category has a name, and the item of it
\* is appended if the category is counted.
LEMMA EvaluateStep ==
  ASSUME ReportsInv, NEW r \in Request, EvaluatePlan(r)
  PROVE  ReportsInv'
<1> DEFINE q == query[r]
           t == view[r]
           list == plans[r]
           p == Head(list)
           names == NamesOf(r, p.category_id)
           more == IF "issuance" \in names THEN <<Evaluated(r, "issuance")>>
                   ELSE IF "collection" \in names THEN <<Evaluated(r, "collection")>>
                   ELSE <<>>
           done == Due(q, t) \ Range(list)
           items == result[r].items
<1>1. Stands(r) /\ Shape /\ pc[r] = "evaluate" /\ list # <<>>
  BY DEF ReportsInv, EvaluatePlan, Goto, Return
<1>2. Only(r)
  BY <1>1 DEF EvaluatePlan, Goto, Return, Only, Shape
<1>3. /\ Asked(q, "plans") /\ Recorded(t) /\ dictionary[r] = t.dictionary
      /\ list \in Seq(Due(q, t)) /\ Distinct(list) /\ PlansTold(q, t, done, items)
      /\ result[r] = [status |-> "200", items |-> items] /\ answer[r] = Nothing
  BY <1>1, Zenon DEF Stands, Standing
<1>4. /\ p \in Due(q, t) /\ Tail(list) \in Seq(Due(q, t)) /\ Distinct(Tail(list))
      /\ Range(list) = {p} \cup Range(Tail(list)) /\ p \notin Range(Tail(list))
      /\ Len(list) = 1 => Range(Tail(list)) = {}
      /\ Range(list) \subseteq Due(q, t)
  BY <1>1, <1>3, HeadGone
<1>5. names = NamesIn(t, p.category_id) /\ p \in t.plans
  BY <1>3, <1>4 DEF NamesOf, NamesIn, Due
<1>6. PICK name : names = {name}
  <2>1. /\ NamesIn(t, p.category_id) # {}
        /\ \A m, n \in NamesIn(t, p.category_id) : m = n
    BY <1>3, <1>5, OneName
  <2>2. \A S : S # {} /\ (\A m, n \in S : m = n) => \E n : S = {n}
    OBVIOUS
  <2> QED
    BY <1>5, <2>1, <2>2, Zenon
<1>7. \A n : Evaluated(r, n) = PlanItem(q, t, p, n)
  BY DEF Evaluated, PlanItem, Plan, PeriodEnd, Visible
<1>8. /\ pc'[r] = IF Len(list) = 1 THEN "respond" ELSE "evaluate"
      /\ result'[r] = [status |-> "200", items |-> items \o more]
      /\ plans'[r] = Tail(list)
      /\ query'[r] = q /\ view'[r] = t /\ dictionary'[r] = dictionary[r] /\ answer'[r] = Nothing
  <2>1. names # {}
    BY <1>6
  <2>2. /\ Goto(r, "evaluate", IF Len(list) = 1 THEN "respond" ELSE "evaluate")
        /\ result' = [result EXCEPT ![r] = [status |-> "200", items |-> @.items \o more]]
        /\ plans' = [plans EXCEPT ![r] = Tail(@)]
        /\ UNCHANGED <<db, query, view, dictionary, credits, answer>>
    BY <2>1 DEF EvaluatePlan, Plan
  <2> HIDE DEF more, names
  <2>3. result'[r] = [status |-> "200", items |-> items \o more]
    BY <1>1, <2>2 DEF Shape
  <2> QED
    BY <1>1, <1>3, <2>2, <2>3 DEF Goto, Shape
<1>9. done \in SUBSET t.plans /\ p \notin done
      /\ Due(q, t) \ Range(Tail(list)) = done \cup {p}
  BY <1>4 DEF Due
<1>10. PlansTold(q, t, done \cup {p}, items \o more)
  <2>1. names = {name} /\ NamesIn(t, p.category_id) = {name}
    BY <1>5, <1>6
  <2> HIDE DEF names, done, items, p, q, t
  <2>2. CASE name \in Counted
    <3>1. more = <<PlanItem(q, t, p, name)>>
      BY <1>7, <2>1, <2>2 DEF Counted
    <3>2. PlansTold(q, t, done \cup {p}, items \o <<PlanItem(q, t, p, name)>>)
      BY <1>3, <1>5, <1>9, <2>1, <2>2, OneMoreTold
    <3> QED
      BY <3>1, <3>2
  <2>3. CASE name \notin Counted
    <3>1. more = <<>>
      BY <2>1, <2>3 DEF Counted
    <3>2. items \in Seq(PlanItems(q, t, done))
      BY <1>3 DEF PlansTold
    <3>3. items \o more = items
      BY <3>1, <3>2, ConcatEmptySeq
    <3>4. PlansTold(q, t, done \cup {p}, items)
      BY <1>3, <1>5, <1>9, <2>1, <2>3, OneMoreTold
    <3> QED
      BY <3>3, <3>4, Zenon
  <2> QED
    BY <2>2, <2>3
<1> HIDE DEF q, t, list, p, names, more, done, items
<1> DEFINE reply == [status |-> "200", items |-> items \o more]
<1>11. reply.items = items \o more /\ reply = [status |-> "200", items |-> reply.items]
  OBVIOUS
<1> HIDE DEF reply
<1>12. PlansTold(q, t, Due(q, t) \ Range(Tail(list)), reply.items)
  BY <1>9, <1>10, <1>11, Zenon
<1>13. result'[r] = reply
  BY <1>8 DEF reply
<1>14. Stands(r)'
  <2>1. CASE Len(list) = 1
    <3>1. Due(q, t) \ Range(Tail(list)) = Due(q, t)
      BY <1>4, <2>1
    <3>2. Told(q, t, reply)
      BY <1>3, <1>11, <1>12, <3>1 DEF Told, Asked
    <3> QED
      BY <1>3, <1>8, <1>13, <2>1, <3>2 DEF Stands, Standing, Asked
  <2>2. CASE Len(list) # 1
    <3>1. Standing("evaluate", q, t, dictionary[r], Tail(list), credits'[r], reply, Nothing)
      BY <1>3, <1>4, <1>11, <1>12 DEF Standing
    <3> QED
      BY <1>8, <1>13, <2>2, <3>1 DEF Stands
  <2> QED
    BY <2>1, <2>2
<1> QED
  BY <1>2, <1>14, Alone

\* year_performance.
LEMMA YearStep ==
  ASSUME ReportsInv, NEW r \in Request, ListDictionary(r) \/ ListForYear(r) \/ CreditStats(r)
  PROVE  ReportsInv'
<1> DEFINE q == query[r]
           t == view[r]
<1>1. Stands(r) /\ Shape /\ Recorded(db)
  BY DEF ReportsInv
<1>2. CASE ListDictionary(r)
  <2>1. Only(r)
    BY <1>1, <1>2 DEF ListDictionary, Goto, OpenView, Only, Shape
  <2>2. pc[r] = "year"
    BY <1>2 DEF ListDictionary, Goto
  <2>3. Asked(q, "year") /\ result[r] = Empty /\ answer[r] = Nothing
    BY <1>1, <2>2 DEF Stands, Standing
  <2>4. /\ pc'[r] = "year_plans" /\ view'[r] = db /\ dictionary'[r] = db.dictionary
        /\ query'[r] = q /\ result'[r] = Empty /\ answer'[r] = Nothing
    BY <1>1, <1>2, <2>3 DEF ListDictionary, Goto, OpenView, Shape
  <2>5. Stands(r)'
    BY <1>1, <2>3, <2>4 DEF Stands, Standing
  <2> QED
    BY <2>1, <2>5, Alone
<1>3. CASE ListForYear(r)
  <2>1. Only(r)
    BY <1>1, <1>3 DEF ListForYear, Goto, Only, Shape
  <2>2. pc[r] = "year_plans"
    BY <1>3 DEF ListForYear, Goto
  <2>3. /\ Asked(q, "year") /\ Recorded(t) /\ dictionary[r] = t.dictionary
        /\ result[r] = Empty /\ answer[r] = Nothing
    BY <1>1, <2>2, Zenon DEF Stands, Standing
  <2>4. /\ pc'[r] = "credit_stats" /\ plans'[r] \in SetToSeqs(OfYear(q, t))
        /\ query'[r] = q /\ view'[r] = t /\ dictionary'[r] = dictionary[r]
        /\ result'[r] = Empty /\ answer'[r] = Nothing
    BY <1>1, <1>3, <2>3 DEF ListForYear, Goto, Visible, ByPeriod, OfYear, Shape
  <2>5. IsFiniteSet(OfYear(q, t))
    <3>1. IsFiniteSet(t.plans) /\ OfYear(q, t) \subseteq t.plans
      BY <2>3, RecordedTyped DEF TypedTables, Tables, OfYear
    <3> QED
      BY <3>1, FS_Subset
  <2>6. Range(plans'[r]) = OfYear(q, t)
    BY <2>4, <2>5, ListOf
  <2>7. Standing("credit_stats", q, t, dictionary[r], plans'[r], credits'[r], Empty, Nothing)
    BY <2>3, <2>6 DEF Standing
  <2>8. Stands(r)'
    BY <2>4, <2>7 DEF Stands
  <2> QED
    BY <2>1, <2>8, Alone
<1>4. CASE CreditStats(r)
  <2>1. Only(r)
    BY <1>1, <1>4 DEF CreditStats, Goto, Only, Shape
  <2>2. pc[r] = "credit_stats"
    BY <1>4 DEF CreditStats, Goto
  <2>3. /\ Asked(q, "year") /\ Recorded(t) /\ dictionary[r] = t.dictionary
        /\ Range(plans[r]) = OfYear(q, t) /\ result[r] = Empty /\ answer[r] = Nothing
    BY <1>1, <2>2, Zenon DEF Stands, Standing
  <2>4. /\ pc'[r] = "payment_stats" /\ credits'[r] = CreditStatsIn(q, t)
        /\ query'[r] = q /\ view'[r] = t /\ dictionary'[r] = dictionary[r]
        /\ plans'[r] = plans[r] /\ result'[r] = Empty /\ answer'[r] = Nothing
    BY <1>1, <1>4, <2>3 DEF CreditStats, Goto, Visible, CreditStatsIn, Shape
  <2>5. Standing("payment_stats", q, t, dictionary[r], plans[r], CreditStatsIn(q, t), Empty,
                 Nothing)
    BY <2>3 DEF Standing
  <2>6. Stands(r)'
    BY <2>4, <2>5 DEF Stands
  <2> QED
    BY <2>1, <2>6, Alone
<1> QED
  BY <1>2, <1>3, <1>4

LEMMA PaymentStatsStep ==
  ASSUME ReportsInv, NEW r \in Request, PaymentStats(r)
  PROVE  ReportsInv'
<1> DEFINE q == query[r]
           t == view[r]
           payments == MonthlyStats(Paid(Visible(r)), query[r].year)
           planned == {m \in 1 .. MonthsInYear : \E n \in {"issuance", "collection"} :
                                                    PlannedFor(r, n, m) # {}}
<1>1. Stands(r) /\ Shape /\ pc[r] = "payment_stats"
  BY DEF ReportsInv, PaymentStats, Goto
<1>2. Only(r)
  BY <1>1 DEF PaymentStats, Goto, Only, Shape
<1>3. /\ Asked(q, "year") /\ Recorded(t) /\ dictionary[r] = t.dictionary
      /\ Range(plans[r]) = OfYear(q, t) /\ credits[r] = CreditStatsIn(q, t)
      /\ answer[r] = Nothing
  BY <1>1, Zenon DEF Stands, Standing
<1>4. PICK months \in InOrder(planned \cup DOMAIN credits[r] \cup DOMAIN payments) :
         result' = [result EXCEPT ![r] = [status |-> "200",
            items |-> [i \in DOMAIN months |-> MonthItem(r, months[i], payments)]]]
  BY Zenon DEF PaymentStats
<1>5. payments = PaymentStatsIn(q, t)
  BY DEF PaymentStatsIn, Visible
<1>6. \A n, m : PlannedFor(r, n, m) = PlannedIn(q, t, n, m)
  BY <1>3 DEF PlannedFor, PlannedIn, NamesOf, NamesIn
<1>7. planned \cup DOMAIN credits[r] \cup DOMAIN payments = MonthsIn(q, t)
  BY <1>3, <1>5, <1>6 DEF MonthsIn
<1>8. \A m : MonthItem(r, m, payments) = MonthIn(q, t, m)
  <2>1. \A m, n, stats : YearEntry(r, m, n, stats) = EntryIn(q, t, m, n, stats)
    BY <1>6 DEF YearEntry, EntryIn
  <2> QED
    BY <1>3, <1>5, <2>1 DEF MonthItem, MonthIn
<1> DEFINE items == [i \in DOMAIN months |-> MonthIn(q, t, months[i])]
           reply == [status |-> "200", items |-> items]
<1>9. /\ pc'[r] = "respond" /\ result'[r] = reply
      /\ query'[r] = q /\ view'[r] = t /\ answer'[r] = Nothing
  <2>1. [i \in DOMAIN months |-> MonthItem(r, months[i], payments)] = items
    BY <1>8
  <2> HIDE DEF payments, items
  <2> QED
    BY <1>1, <1>3, <1>4, <2>1 DEF PaymentStats, Goto, Shape
<1>10. YearTold(q, t, items)
  BY <1>4, <1>7 DEF YearTold
<1>11. Told(q, t, reply)
  <2>1. reply.items = items
    OBVIOUS
  <2> HIDE DEF items
  <2> QED
    BY <1>3, <1>10, <2>1 DEF Told, Asked
<1> HIDE DEF reply
<1>12. Stands(r)'
  BY <1>3, <1>9, <1>11 DEF Stands, Standing, Asked
<1> QED
  BY <1>2, <1>12, Alone

\* user_credits.
LEMMA UserStep ==
  ASSUME ReportsInv, NEW r \in Request, UserExists(r) \/ ListByUser(r) \/ ListTypes(r)
  PROVE  ReportsInv'
<1> DEFINE q == query[r]
           t == view[r]
<1>1. Stands(r) /\ Shape /\ Recorded(db)
  BY DEF ReportsInv
<1>2. CASE UserExists(r)
  <2>1. Only(r)
    BY <1>1, <1>2 DEF UserExists, Goto, Return, OpenView, Only, Shape
  <2>2. pc[r] = "user"
    BY <1>2 DEF UserExists, Goto, Return
  <2>3. Asked(q, "user") /\ result[r] = Empty /\ answer[r] = Nothing
    BY <1>1, <2>2 DEF Stands, Standing
  <2>4. view'[r] = db /\ query'[r] = q /\ answer'[r] = Nothing
    BY <1>1, <1>2, <2>3 DEF UserExists, OpenView, Shape
  <2>5. CASE q.user \in db.users
    <3>1. pc'[r] = "user_credits" /\ result'[r] = Empty
      BY <1>1, <1>2, <2>3, <2>5 DEF UserExists, Goto, Shape
    <3> QED
      BY <1>1, <2>1, <2>3, <2>4, <2>5, <3>1, Alone DEF Stands, Standing
  <2>6. CASE q.user \notin db.users
    <3>1. pc'[r] = "respond" /\ result'[r] = [status |-> "404"]
      BY <1>1, <1>2, <2>6 DEF UserExists, Goto, Return, Shape
    <3>2. Told(q, db, [status |-> "404"])
      BY <1>1, <2>3, <2>6 DEF Told, Asked
    <3> QED
      BY <1>1, <2>1, <2>3, <2>4, <3>1, <3>2, Alone DEF Stands, Standing, Asked
  <2> QED
    BY <2>5, <2>6
<1>3. CASE ListByUser(r)
  <2>1. Only(r)
    BY <1>1, <1>3 DEF ListByUser, Goto, Only, Shape
  <2>2. pc[r] = "user_credits"
    BY <1>3 DEF ListByUser, Goto
  <2>3. /\ Asked(q, "user") /\ Recorded(t) /\ q.user \in t.users
        /\ result[r] = Empty /\ answer[r] = Nothing
    BY <1>1, <2>2, Zenon DEF Stands, Standing
  <2>4. /\ pc'[r] = IF Own(q, t) = {} THEN "respond" ELSE "types"
        /\ credits'[r] \in ByDate(Own(q, t)) /\ query'[r] = q /\ view'[r] = t
        /\ result'[r] = Empty /\ answer'[r] = Nothing
    BY <1>1, <1>3, <2>3 DEF ListByUser, Goto, Visible, Own, Shape
  <2>5. CASE Own(q, t) = {}
    <3>1. credits'[r] \in SetToSeqs({})
      BY <2>4, <2>5 DEF ByDate
    <3>2. DOMAIN credits'[r] = {}
      BY <3>1, FS_EmptySet DEF SetToSeqs
    <3>3. <<>> = [i \in DOMAIN credits'[r] |-> CreditItem(q, t, credits'[r][i])]
      BY <3>2
    <3>4. UserTold(q, t, <<>>)
      BY <2>4, <3>3 DEF UserTold
    <3>5. Told(q, t, Empty)
      BY <2>3, <3>4 DEF Told, Asked, Empty
    <3> QED
      BY <2>1, <2>3, <2>4, <2>5, <3>5, Alone DEF Stands, Standing, Asked
  <2>6. CASE Own(q, t) # {}
    <3>1. Standing("types", q, t, dictionary'[r], plans'[r], credits'[r], Empty, Nothing)
      BY <2>3, <2>4 DEF Standing
    <3> QED
      BY <2>1, <2>4, <2>6, <3>1, Alone DEF Stands
  <2> QED
    BY <2>5, <2>6
<1>4. CASE ListTypes(r)
  <2>1. Only(r)
    BY <1>1, <1>4 DEF ListTypes, Goto, Only, Shape
  <2>2. pc[r] = "types"
    BY <1>4 DEF ListTypes, Goto
  <2>3. /\ Asked(q, "user") /\ Recorded(t) /\ q.user \in t.users
        /\ credits[r] \in ByDate(Own(q, t)) /\ result[r] = Empty /\ answer[r] = Nothing
    BY <1>1, <2>2, Zenon DEF Stands, Standing
  <2>4. /\ pc'[r] = "payments" /\ dictionary'[r] = t.dictionary
        /\ query'[r] = q /\ view'[r] = t /\ credits'[r] = credits[r]
        /\ result'[r] = Empty /\ answer'[r] = Nothing
    BY <1>1, <1>4, <2>3 DEF ListTypes, Goto, Visible, Shape
  <2>5. Standing("payments", q, t, t.dictionary, plans'[r], credits[r], Empty, Nothing)
    BY <2>3 DEF Standing
  <2> QED
    BY <2>1, <2>4, <2>5, Alone DEF Stands
<1> QED
  BY <1>2, <1>3, <1>4

LEMMA ListByCreditsStep ==
  ASSUME ReportsInv, NEW r \in Request, ListByCredits(r)
  PROVE  ReportsInv'
<1> DEFINE q == query[r]
           t == view[r]
           list == credits[r]
           item(c) == IF c.closed THEN ClosedCredit(r, c) ELSE OpenCredit(r, c)
           items == [i \in DOMAIN list |-> CreditItem(q, t, list[i])]
           reply == [status |-> "200", items |-> items]
<1>1. Stands(r) /\ Shape /\ pc[r] = "payments"
  BY DEF ReportsInv, ListByCredits, Goto
<1>2. Only(r)
  BY <1>1 DEF ListByCredits, Goto, Only, Shape
<1>3. /\ Asked(q, "user") /\ Recorded(t) /\ q.user \in t.users /\ list \in ByDate(Own(q, t))
      /\ dictionary[r] = t.dictionary /\ answer[r] = Nothing
  BY <1>1, Zenon DEF Stands, Standing
<1>4. \A c : item(c) = CreditItem(q, t, c)
  <2>1. \A c : PaymentsOf(r, c) = PaidFor(t, c)
    BY DEF PaymentsOf, PaidFor, Visible
  <2>2. \A id : NamesOf(r, id) = NamesIn(t, id)
    BY <1>3 DEF NamesOf, NamesIn
  <2>3. \A c : ClosedCredit(r, c) = [closed |-> TRUE, issuance_date |-> c.issuance_date,
                                     body |-> c.body, total |-> Sums(PaidFor(t, c))]
    BY <2>1 DEF ClosedCredit
  <2>4. ASSUME NEW c
        PROVE  OpenCredit(r, c) =
           LET ofType(name) == {p \in PaidFor(t, c) : name \in NamesIn(t, p.type_id)}
           IN  [closed |-> FALSE, issuance_date |-> c.issuance_date, body |-> c.body,
                overdue |-> IF q.day > c.return_date THEN q.day - c.return_date ELSE 0,
                body_payments |-> Sums(ofType("body")),
                interest_payments |-> Sums(ofType("interest"))]
    <3> DEFINE own(name) == {p \in PaymentsOf(r, c) : name \in NamesOf(r, p.type_id)}
               paid(name) == {p \in PaidFor(t, c) : name \in NamesIn(t, p.type_id)}
    <3>1. own("body") = paid("body") /\ own("interest") = paid("interest")
      BY <2>1, <2>2
    <3>2. OpenCredit(r, c) =
            [closed |-> FALSE, issuance_date |-> c.issuance_date, body |-> c.body,
             overdue |-> IF q.day > c.return_date THEN q.day - c.return_date ELSE 0,
             body_payments |-> Sums(own("body")), interest_payments |-> Sums(own("interest"))]
      BY Zenon DEF OpenCredit, Overdue
    <3> HIDE DEF own, paid
    <3>3. OpenCredit(r, c) =
            [closed |-> FALSE, issuance_date |-> c.issuance_date, body |-> c.body,
             overdue |-> IF q.day > c.return_date THEN q.day - c.return_date ELSE 0,
             body_payments |-> Sums(paid("body")), interest_payments |-> Sums(paid("interest"))]
      BY <3>1, <3>2
    <3> QED
      BY <3>3, Zenon DEF paid
  <2> QED
    BY <2>3, <2>4 DEF CreditItem
<1>5. /\ pc'[r] = "respond" /\ result'[r] = reply
      /\ query'[r] = q /\ view'[r] = t /\ answer'[r] = Nothing
  <2>1. [i \in DOMAIN list |-> item(list[i])] = items
    BY <1>4
  <2>2. result' = [result EXCEPT ![r] = [status |-> "200",
                      items |-> [i \in DOMAIN list |-> item(list[i])]]]
    BY DEF ListByCredits
  <2> HIDE DEF items, item
  <2> QED
    BY <1>1, <1>3, <2>1, <2>2 DEF ListByCredits, Goto, Shape
<1>6. Told(q, t, reply)
  <2>1. UserTold(q, t, items)
    BY <1>3 DEF UserTold
  <2>2. reply.items = items
    OBVIOUS
  <2> HIDE DEF items
  <2> QED
    BY <1>3, <2>1, <2>2 DEF Told, Asked
<1> HIDE DEF reply
<1>7. Stands(r)'
  BY <1>3, <1>5, <1>6 DEF Stands, Standing, Asked
<1> QED
  BY <1>2, <1>7, Alone

\* Failure, and the end.
LEMMA LostStep ==
  ASSUME ReportsInv, NEW r \in Request, ConnectionLost(r)
  PROVE  ReportsInv'
<1>1. Stands(r) /\ Shape /\ pc[r] \notin {"idle", "respond", "done"}
  BY DEF ReportsInv, ConnectionLost
<1>2. Only(r)
  BY <1>1 DEF ConnectionLost, Return, Goto, Only, Shape
<1>3. query[r] \in Queries /\ answer[r] = Nothing
  BY <1>1 DEF Stands, Standing, Asked
<1>4. /\ pc'[r] = "respond" /\ result'[r] = [status |-> "500"]
      /\ query'[r] = query[r] /\ view'[r] = view[r] /\ answer'[r] = Nothing
  BY <1>1, <1>3 DEF ConnectionLost, Return, Goto, Shape
<1>5. Told(query[r], view[r], [status |-> "500"])
  BY DEF Told
<1>6. Stands(r)'
  BY <1>3, <1>4, <1>5 DEF Stands, Standing
<1> QED
  BY <1>2, <1>6, Alone

LEMMA RespondStep ==
  ASSUME ReportsInv, NEW r \in Request, Respond(r)
  PROVE  ReportsInv'
<1>1. Stands(r) /\ Shape /\ pc[r] = "respond"
  BY DEF ReportsInv, Respond, Goto
<1>2. Only(r)
  BY <1>1 DEF Respond, Goto, Only, Shape
<1>3. query[r] \in Queries /\ Told(query[r], view[r], result[r])
  BY <1>1 DEF Stands, Standing
<1>4. /\ pc'[r] = "done" /\ answer'[r] = result[r]
      /\ query'[r] = query[r] /\ view'[r] = view[r] /\ result'[r] = result[r]
  BY <1>1 DEF Respond, Goto, Shape
<1>5. Stands(r)'
  BY <1>3, <1>4 DEF Stands, Standing
<1> QED
  BY <1>2, <1>5, Alone

LEMMA RecordStep ==
  ASSUME ReportsInv, NEW b \in Batches, Record(b)
  PROVE  ReportsInv'
<1>1. Recorded(db)'
  BY NextTables DEF ReportsInv, Record, Recorded
<1>2. UNCHANGED <<pc, query, view, dictionary, plans, credits, result, answer>>
  BY DEF Record
<1>3. Shape'
  BY <1>2 DEF ReportsInv, Shape
<1>4. ASSUME NEW r \in Request PROVE Stands(r)'
  <2>1. Stands(r)
    BY DEF ReportsInv
  <2> QED
    BY <1>2, <2>1 DEF Stands
<1> QED
  BY <1>1, <1>3, <1>4 DEF ReportsInv

\* One step per action.
LEMMA NextReports == ReportsInv /\ [Next]_vars => ReportsInv'
<1>1. ASSUME ReportsInv, UNCHANGED vars PROVE ReportsInv'
  <2>1. Shape' /\ Recorded(db)'
    BY <1>1 DEF ReportsInv, Shape, Recorded, vars
  <2>2. ASSUME NEW r \in Request PROVE Stands(r)'
    BY <1>1 DEF ReportsInv, Stands, vars
  <2> QED
    BY <2>1, <2>2 DEF ReportsInv
<1>2. ASSUME ReportsInv, NEW r \in Request, Step(r) PROVE ReportsInv'
  BY <1>2, ListUpToStep, ListNamesStep, EvaluateStep, YearStep, PaymentStatsStep, UserStep,
     ListByCreditsStep, LostStep, RespondStep DEF Step
<1> QED
  BY <1>1, <1>2, ReceiveStep, RecordStep DEF Next, Rest

-----------------------------------------------------------------------------
(***************************************************************************)
(* The theorems.                                                           *)
(***************************************************************************)
\* At every step, what a request has read is what its view of the tables says,
\* and the view is of tables that were committed.
THEOREM ReportsInvariance == Spec => []ReportsInv
  BY InitReports, NextReports, PTL DEF Spec

\* Answered reports: a failure says so, a user is unknown to the tables seen,
\* or the report has the items those tables call for, every one of them once,
\* and no other, whatever was committed meanwhile.  That a plan has a category
\* nobody knows (the DomainError of PlansPerformanceUseCase.execute) never
\* happens.
OfOneMoment ==
    \A r \in Request : answer[r] # Nothing => Told(query[r], view[r], answer[r])

THEOREM ReportsAreOfOneMoment == Spec => []OfOneMoment
<1>1. ReportsInv => OfOneMoment
  <2> SUFFICES ASSUME ReportsInv, NEW r \in Request, answer[r] # Nothing
               PROVE  Told(query[r], view[r], answer[r])
    BY DEF OfOneMoment
  <2>1. Stands(r)
    BY DEF ReportsInv
  <2> QED
    BY <2>1 DEF Stands, Standing
<1> QED
  BY <1>1, ReportsInvariance, PTL

\* No item of user_credits has been overdue for less than no days.
LEMMA OverdueInNat ==
  ASSUME NEW q \in Queries, q.kind = "user", NEW t, Recorded(t), NEW items,
         UserTold(q, t, items), NEW i \in DOMAIN items, ~items[i].closed
  PROVE  items[i].overdue \in Nat
<1>1. PICK list \in ByDate(Own(q, t)) :
         items = [n \in DOMAIN list |-> CreditItem(q, t, list[n])]
  BY DEF UserTold
<1>2. IsFiniteSet(Own(q, t)) /\ Own(q, t) \subseteq t.credits
  <2>1. IsFiniteSet(t.credits) /\ Own(q, t) \subseteq t.credits
    BY RecordedTyped DEF TypedTables, Tables, Own
  <2> QED
    BY <2>1, FS_Subset
<1>3. Range(list) = Own(q, t)
  BY <1>2, ListOf DEF ByDate
<1>4. i \in DOMAIN list /\ items[i] = CreditItem(q, t, list[i])
  BY <1>1
<1>5. list[i] \in t.credits
  BY <1>2, <1>3, <1>4 DEF Range
<1>6. list[i].return_date \in Nat /\ q.day \in Nat
  BY <1>5, RecordedTyped, ReportsAssumption DEF TypedTables
<1>7. CASE list[i].closed
  BY <1>4, <1>7 DEF CreditItem
<1>8. CASE ~list[i].closed
  <2>1. items[i].overdue = IF q.day > list[i].return_date
                             THEN q.day - list[i].return_date ELSE 0
    BY <1>4, <1>8 DEF CreditItem
  <2> QED
    BY <1>6, <2>1
<1> QED
  BY <1>7, <1>8

\* Types are kept, answers are given at the end and have a status of the API,
\* overdue days are no less than none, and the tables stay sound.
THEOREM TypeCorrect == Spec => []TypeOK
<1>1. ReportsInv => TypeOK
  <2> SUFFICES ASSUME ReportsInv PROVE TypeOK
    OBVIOUS
  <2>1. SoundTables(db)
    BY RecordedSound DEF ReportsInv
  <2>2. ASSUME NEW r \in Request
        PROVE  /\ query[r] \in Queries \cup {Nothing}
               /\ answer[r].status \in {"none", "200", "400", "404", "500"}
               /\ pc[r] = "done" <=> answer[r] # Nothing
               /\ (answer[r].status = "200" /\ query[r].kind = "user")
                     => \A i \in DOMAIN answer[r].items :
                           ~answer[r].items[i].closed => answer[r].items[i].overdue \in Nat
    <3>1. Stands(r)
      BY DEF ReportsInv
    <3>2. CASE pc[r] = "done"
      <4>1. query[r] \in Queries /\ Told(query[r], view[r], answer[r])
        BY <3>1, <3>2 DEF Stands, Standing
      <4>2. answer[r].status \in {"200", "404", "500"}
        <5>1. /\ [status |-> "500"].status = "500" /\ [status |-> "404"].status = "404"
              /\ \A x : [status |-> "200", items |-> x].status = "200"
          OBVIOUS
        <5> QED
          BY <4>1, <5>1, Zenon DEF Told
      <4>3. answer[r] # Nothing
        BY <4>2 DEF Nothing
      <4>4. ASSUME answer[r].status = "200", query[r].kind = "user"
            PROVE  Recorded(view[r]) /\ UserTold(query[r], view[r], answer[r].items)
        BY <4>1, <4>4 DEF Told
      <4> QED
        BY <3>2, <4>1, <4>2, <4>3, <4>4, OverdueInNat
    <3>3. CASE pc[r] # "done"
      <4>1. answer[r] = Nothing
        BY <3>1, <3>3 DEF Stands, Standing
      <4>2. query[r] \in Queries \cup {Nothing}
        BY <3>1, <3>3 DEF Stands, Standing, Asked
      <4>3. answer[r].status = "none"
        BY <4>1 DEF Nothing
      <4> QED
        BY <3>3, <4>1, <4>2, <4>3
    <3> QED
      BY <3>2, <3>3
  <2> QED
    BY <2>1, <2>2 DEF TypeOK
<1> QED
  BY <1>1, ReportsInvariance, PTL

-----------------------------------------------------------------------------
(***************************************************************************)
(* Two reports of the same tables.                                         *)
(***************************************************************************)
LEMMA FlowsTyped ==
  ASSUME NEW t, Recorded(t), NEW S \in {Issued(t), Paid(t)}
  PROVE  IsFiniteSet(S) /\ \A x \in S : x.date \in Nat /\ x.amount \in Int
<1>1. /\ IsFiniteSet(t.credits) /\ IsFiniteSet(t.payments)
      /\ \A c \in t.credits : c.issuance_date \in Nat /\ c.body \in Int
      /\ \A p \in t.payments : p.payment_date \in Nat /\ p.sum \in Int
  BY RecordedTyped DEF TypedTables, Tables
<1>2. IsFiniteSet(Issued(t))
  <2> DEFINE f == [c \in t.credits |->
                     [id |-> c.id, date |-> c.issuance_date, amount |-> c.body]]
  <2>1. f \in [t.credits -> Issued(t)] /\ \A x \in Issued(t) : \E c \in t.credits : f[c] = x
    BY DEF Issued
  <2>2. f \in Surjection(t.credits, Issued(t))
    BY <2>1, Fun_IsSurj
  <2> QED
    BY <1>1, <2>2, FS_Surjection
<1>3. IsFiniteSet(Paid(t))
  <2> DEFINE f == [p \in t.payments |->
                     [id |-> p.id, date |-> p.payment_date, amount |-> p.sum]]
  <2>1. f \in [t.payments -> Paid(t)] /\ \A x \in Paid(t) : \E p \in t.payments : f[p] = x
    BY DEF Paid
  <2>2. f \in Surjection(t.payments, Paid(t))
    BY <2>1, Fun_IsSurj
  <2> QED
    BY <1>1, <2>2, FS_Surjection
<1>4. /\ \A x \in Issued(t) : x.date \in Nat /\ x.amount \in Int
      /\ \A x \in Paid(t) : x.date \in Nat /\ x.amount \in Int
  BY <1>1 DEF Issued, Paid
<1> QED
  BY <1>2, <1>3, <1>4

\* GROUP BY month has of a month what its days have.
LEMMA StatOfAMonth ==
  ASSUME NEW p \in Nat, NEW S, \A x \in S : x.date \in Nat
  PROVE  /\ StatOf(MonthlyStats(S, Year(p)), Month(p)).total
               = SumBetween(S, First(p), EndOfMonth(p))
         /\ DOMAIN MonthlyStats(S, Year(p)) \subseteq 1 .. MonthsInYear
<1> DEFINE ofYear == {x \in S : Year(x.date) = Year(p)}
           ofMonth(m) == {x \in ofYear : Month(x.date) = m}
           T == {x \in S : First(p) <= x.date /\ x.date <= EndOfMonth(p)}
           M == Month(p)
           months == {Month(x.date) : x \in ofYear}
           stats == [m \in months |-> [count |-> Cardinality(ofMonth(m)),
                                       total |-> Amounts(ofMonth(m))]]
<1>1. ofMonth(M) = T
  BY SameMonth
<1>2. MonthlyStats(S, Year(p)) = stats
  BY Zenon DEF MonthlyStats
<1>3. months \subseteq 1 .. MonthsInYear
  BY Dated
<1>4. M \in months \/ ofMonth(M) = {}
  OBVIOUS
<1>5. SumBetween(S, First(p), EndOfMonth(p)) = Amounts(T)
  BY DEF SumBetween
<1> HIDE DEF ofMonth, T, M, months
<1>6. DOMAIN stats = months
  OBVIOUS
<1>7. CASE M \in months
  <2>1. StatOf(stats, M).total = Amounts(ofMonth(M))
    BY <1>6, <1>7 DEF StatOf
  <2> HIDE DEF stats
  <2> QED
    BY <1>1, <1>2, <1>3, <1>5, <1>6, <2>1 DEF M
<1>8. CASE M \notin months
  <2>1. StatOf(stats, M).total = 0
    BY <1>6, <1>8 DEF StatOf
  <2> HIDE DEF stats
  <2> QED
    BY <1>1, <1>2, <1>3, <1>4, <1>5, <1>6, <1>8, <2>1, AmountsOfNone DEF M
<1> QED
  BY <1>7, <1>8

\* What two reports have of a plan p of a counted category.
LEMMA SameOfAPlan ==
  ASSUME NEW q, NEW z, NEW t, Recorded(t), q.day \in Nat, NEW p \in Due(q, t),
         NEW name \in Counted, name \in NamesIn(t, p.category_id),
         z.year = Year(p.period)
  PROVE  LET item == PlanItem(q, t, p, name)
             m == MonthIn(z, t, Month(p.period))
             y == m[name]
         IN  /\ Month(p.period) \in MonthsIn(z, t)
             /\ m.period = First(p.period)
             /\ (\A x \in Issued(t) \cup Paid(t) : x.amount >= 0) => y.actual >= item.actual
             /\ p.period = First(p.period) /\ q.day >= EndOfMonth(p.period)
                   => y.actual = item.actual
             /\ OneStart(t, p.period, name) => y.plan = item.plan
             /\ /\ p.period = First(p.period) /\ q.day >= EndOfMonth(p.period)
                /\ OneStart(t, p.period, name)
                => y.percent = item.percent
<1> DEFINE M == Month(p.period)
           S == IF name = "issuance" THEN Issued(t) ELSE Paid(t)
           stats == MonthlyStats(S, Year(p.period))
           item == PlanItem(q, t, p, name)
           y == MonthIn(z, t, M)[name]
           all == SumBetween(S, First(p.period), EndOfMonth(p.period))
           end == IF q.day < EndOfMonth(p.period) THEN q.day ELSE EndOfMonth(p.period)
<1>1. /\ p \in t.plans /\ p.period \in Nat /\ p.sum \in Int
      /\ p.period <= q.day
  BY RecordedTyped DEF TypedTables, Due
<1>2. IsFiniteSet(S) /\ \A x \in S : x.date \in Nat /\ x.amount \in Int
  BY FlowsTyped
<1>3. /\ p \in PlannedIn(z, t, name, M)
      /\ OneStart(t, p.period, name) => PlannedIn(z, t, name, M) = {p}
  <2>1. p \in PlannedIn(z, t, name, M)
    BY <1>1 DEF PlannedIn, OfYear
  <2>2. ASSUME OneStart(t, p.period, name), NEW o \in PlannedIn(z, t, name, M)
        PROVE  o = p
    <3>1. /\ o \in t.plans /\ Year(o.period) = Year(p.period) /\ Month(o.period) = M
          /\ name \in NamesIn(t, o.category_id)
      BY <2>2 DEF PlannedIn, OfYear
    <3>2. PICK e \in t.dictionary : o.category_id = e.id /\ e.name = name
      BY <3>1 DEF NamesIn
    <3>3. o.period = p.period
      BY <2>2, <3>1, <3>2 DEF OneStart
    <3>4. o.category_id = p.category_id
      BY <3>1, OneName
    <3> QED
      BY <1>1, <3>1, <3>3, <3>4, RecordedSound DEF SoundTables
  <2> QED
    BY <2>1, <2>2
<1>4. M \in MonthsIn(z, t)
  <2>1. M \in 1 .. MonthsInYear
    BY <1>1, Dated
  <2> QED
    BY <1>3, <2>1 DEF MonthsIn, Counted
<1>5. MonthIn(z, t, M).period = First(p.period)
  BY DEF MonthIn, First
<1>6. y = EntryIn(z, t, M, name, stats)
  <2>1. CASE name = "issuance"
    BY <2>1 DEF MonthIn, CreditStatsIn
  <2>2. CASE name = "collection"
    BY <2>2 DEF MonthIn, PaymentStatsIn
  <2> QED
    BY <2>1, <2>2 DEF Counted
<1>7. StatOf(stats, M).total = all
  BY <1>1, <1>2, StatOfAMonth
<1>8. OneStart(t, p.period, name) => Sums(PlannedIn(z, t, name, M)) = p.sum
  BY <1>1, <1>3, SumsOfOne
<1> HIDE DEF S, stats, M, all
<1>9. /\ y.actual = all
      /\ OneStart(t, p.period, name) => y.plan = p.sum /\ y.percent = Percent(all, p.sum)
  <2> HIDE DEF y
  <2> QED
    BY <1>6, <1>7, <1>8 DEF EntryIn
<1>10. /\ item.plan = p.sum /\ item.actual = SumBetween(S, p.period, end)
       /\ item.percent = Percent(SumBetween(S, p.period, end), p.sum)
  BY DEF PlanItem, S
<1>11. /\ First(p.period) \in Nat /\ EndOfMonth(p.period) \in Int
       /\ First(p.period) <= p.period
  BY <1>1, SameMonth, ReportsAssumption
<1> HIDE DEF item, y
<1>12. ASSUME p.period = First(p.period), q.day >= EndOfMonth(p.period)
       PROVE  /\ y.actual = item.actual
              /\ OneStart(t, p.period, name) => y.percent = item.percent
  <2>1. end = EndOfMonth(p.period)
    BY <1>11, <1>12
  <2>2. all = SumBetween(S, p.period, end)
    BY <1>12, <2>1 DEF all
  <2> QED
    BY <1>9, <1>10, <2>2
<1>13. ASSUME \A x \in Issued(t) \cup Paid(t) : x.amount >= 0
       PROVE  y.actual >= item.actual
  <2> DEFINE month == {x \in S : First(p.period) <= x.date /\ x.date <= EndOfMonth(p.period)}
             some == {x \in S : p.period <= x.date /\ x.date <= end}
  <2>1. end <= EndOfMonth(p.period) /\ end \in Int /\ EndOfMonth(p.period) \in Int
    BY <1>1, <1>11
  <2>2. some \in SUBSET month
    BY <1>1, <1>2, <1>11, <2>1
  <2>3. IsFiniteSet(month) /\ \A x \in month : x.amount \in Nat
    <3>1. \A x \in S : x.amount \in Nat
      BY <1>2, <1>13 DEF S
    <3> QED
      BY <1>2, <3>1, FS_Subset
  <2>4. y.actual = Amounts(month) /\ item.actual = Amounts(some)
    BY <1>9, <1>10 DEF SumBetween, all
  <2> HIDE DEF month, some
  <2>5. Amounts(some) <= Amounts(month)
    BY <2>2, <2>3, AmountsMonotone
  <2>6. Amounts(some) \in Nat /\ Amounts(month) \in Nat
    <3>1. IsFiniteSet(some) /\ \A x \in some : x.amount \in Nat
      BY <2>2, <2>3, FS_Subset
    <3> QED
      BY <2>3, <3>1, AmountsAreCoins
  <2> QED
    BY <2>4, <2>5, <2>6
<1> QED
  BY <1>4, <1>5, <1>9, <1>10, <1>12, <1>13 DEF item, y, M

\* plans_performance and year_performance, told of the same tables, do not
\* contradict each other: the report of the year has the month of every plan,
\* with no less done in it unless amounts are below zero, with as much if the
\* plan starts the month and the month is over, and with the plan and the
\* percentage of its category unless that has a plan of another day there.
THEOREM ReportsDoNotContradict == Spec => []ReportsAgree
<1>1. ReportsInv /\ OfOneMoment => ReportsAgree
  <2> SUFFICES ASSUME OfOneMoment, NEW r \in Request, NEW s \in Request,
                      Answered(r, "plans"), Answered(s, "year"), view[r] = view[s],
                      query[r] \in Queries,
                      NEW i \in DOMAIN answer[r].items,
                      Year(answer[r].items[i].period) = query[s].year
               PROVE  \E j \in DOMAIN answer[s].items :
                         LET p == answer[r].items[i]
                             m == answer[s].items[j]
                             y == m[p.category]
                             whole == /\ p.period = First(p.period)
                                      /\ query[r].day >= EndOfMonth(p.period)
                             alone == OneStart(view[r], p.period, p.category)
                         IN  /\ m.period = First(p.period)
                             /\ (\A x \in Issued(view[r]) \cup Paid(view[r]) : x.amount >= 0)
                                   => y.actual >= p.actual
                             /\ whole => y.actual = p.actual
                             /\ alone => y.plan = p.plan
                             /\ whole /\ alone => y.percent = p.percent
    <3>1. ASSUME ReportsInv, NEW r \in Request, Answered(r, "plans")
          PROVE  query[r] \in Queries
      <4>1. Stands(r)
        BY <3>1 DEF ReportsInv
      <4>2. answer[r].status = "200" /\ Nothing.status = "none"
        BY <3>1 DEF Answered, Nothing
      <4>3. answer[r] # Nothing
        BY <4>2
      <4> QED
        BY <4>1, <4>3 DEF Stands, Standing, Asked
    <3> QED
      BY <3>1 DEF ReportsAgree, First
  <2> DEFINE q == query[r]
             z == query[s]
             t == view[r]
  <2>1. Told(q, t, answer[r]) /\ Told(z, t, answer[s])
    <3>1. answer[r] # Nothing /\ answer[s] # Nothing
      BY DEF Answered, Nothing
    <3> QED
      BY <3>1 DEF OfOneMoment
  <2>2. Recorded(t) /\ PlansTold(q, t, Due(q, t), answer[r].items)
    BY <2>1 DEF Told, Answered
  <2>3. YearTold(z, t, answer[s].items)
    BY <2>1 DEF Told, Answered
  <2>4. q.day \in Nat
    BY ReportsAssumption DEF Answered
  <2>5. PICK x \in NamedIn(t, Due(q, t)) : answer[r].items[i] = PlanItem(q, t, x[1], x[2])
    <3>1. answer[r].items[i] \in PlanItems(q, t, Due(q, t))
      BY <2>2 DEF PlansTold, Range
    <3> QED
      BY <3>1 DEF PlanItems
  <2> DEFINE p == x[1]
             name == x[2]
  <2>6. p \in Due(q, t) /\ name \in Counted /\ name \in NamesIn(t, p.category_id)
    BY DEF NamedIn
  <2> HIDE DEF p, name
  <2>7. answer[r].items[i] = PlanItem(q, t, p, name)
    BY <2>5 DEF p, name
  <2>8. PlanItem(q, t, p, name).period = p.period /\ PlanItem(q, t, p, name).category = name
    BY DEF PlanItem
  <2>9. z.year = Year(p.period)
    BY <2>7, <2>8
  <2>10. PICK months \in InOrder(MonthsIn(z, t)) :
            answer[s].items = [j \in DOMAIN months |-> MonthIn(z, t, months[j])]
    BY <2>3 DEF YearTold
  <2>11. Range(months) = MonthsIn(z, t)
    <3>1. p.period \in Nat
      BY <2>2, <2>6, RecordedTyped DEF TypedTables, Due
    <3>2. /\ DOMAIN CreditStatsIn(z, t) \subseteq 1 .. MonthsInYear
          /\ DOMAIN PaymentStatsIn(z, t) \subseteq 1 .. MonthsInYear
      BY <2>2, <2>9, <3>1, FlowsTyped, StatOfAMonth DEF CreditStatsIn, PaymentStatsIn
    <3>3. MonthsIn(z, t) \subseteq 1 .. MonthsInYear
      BY <3>2 DEF MonthsIn
    <3>4. IsFiniteSet(MonthsIn(z, t))
      <4>1. IsFiniteSet(1 .. MonthsInYear)
        BY ReportsAssumption, FS_Interval
      <4> QED
        BY <3>3, <4>1, FS_Subset
    <3> QED
      BY <2>10, <3>4, ListOf DEF InOrder
  <2>12. Month(p.period) \in MonthsIn(z, t)
    BY <2>2, <2>4, <2>6, <2>9, SameOfAPlan
  <2>13. PICK j \in DOMAIN months : months[j] = Month(p.period)
    BY <2>11, <2>12 DEF Range
  <2>14. j \in DOMAIN answer[s].items /\ answer[s].items[j] = MonthIn(z, t, Month(p.period))
    BY <2>10, <2>13
  <2> QED
    BY <2>2, <2>4, <2>6, <2>7, <2>8, <2>9, <2>14, SameOfAPlan
<1> QED
  BY <1>1, ReportsInvariance, ReportsAreOfOneMoment, PTL
=============================================================================
