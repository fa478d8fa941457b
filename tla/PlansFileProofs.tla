--------------------------- MODULE PlansFileProofs ---------------------------
(***************************************************************************)
(* Proofs about PlansFile and its parser, for any files, any sorts of      *)
(* cells, any dictionary and any plans stored.                             *)
(*                                                                         *)
(* The invariant of the parser says that the issues are, in reading order, *)
(* the bad cells of the rows with data read so far, and that without any   *)
(* the n-th of these rows is the n-th parsed.  The one of the loop says    *)
(* that the rows decided so far are reported or taken, each by its place.  *)
(***************************************************************************)
EXTENDS PlansFile, FiniteSetTheorems, SequenceTheorems, TLAPS

-----------------------------------------------------------------------------
(***************************************************************************)
(* What a file says, as constants.                                         *)
(***************************************************************************)
Triple == {"period", "category", "sum"}

Index(f, c) == CHOOSE i \in DOMAIN f.header :
                  /\ f.header[i] = c
                  /\ \A j \in 1 .. (i - 1) : f.header[j] # c

At(f, r, c) == IF Index(f, c) \in DOMAIN f.rows[r - 1] THEN f.rows[r - 1][Index(f, c)]
                                                     ELSE "none"

Data(f) == {r \in 2 .. (Len(f.rows) + 1) :
               \E i \in DOMAIN f.rows[r - 1] : f.rows[r - 1][i] # "none"}

\* The rows with data above row n, the place of one, and what is bad in them.
Above(f, n) == {q \in Data(f) : q < n}
Nth(f, r) == Cardinality({q \in Data(f) : q <= r})
Bad(f, n) == {x \in Above(f, n) \X Triple : At(f, x[1], x[2]) \notin Valid(x[2])}

DTO(f, r) == [period |-> At(f, r, "period"), category_name |-> At(f, r, "category"),
              sum |-> At(f, r, "sum")]

HeaderFits(f) == \A c \in Triple : \E i \in DOMAIN f.header : f.header[i] = c

\* These are the operators of the parser.
LEMMA SameOperators ==
  /\ DataRows = Data(file)
  /\ \A r, c : CellOf(r, c) = At(file, r, c)
  /\ \A r : PlanRowDTO(r) = DTO(file, r)
  /\ \A r : Place(r) = Nth(file, r)
<1>1. \A c : IndexOf(c) = Index(file, c)
  BY Zenon DEF IndexOf, Index
<1>2. DataRows = Data(file)
  BY DEF DataRows, Data, RawRow
<1>3. \A r, c : CellOf(r, c) = At(file, r, c)
  BY <1>1, Zenon DEF CellOf, At, RawRow
<1>4. \A r : PlanRowDTO(r) = DTO(file, r)
  BY <1>3 DEF PlanRowDTO, DTO
<1>5. \A r : Place(r) = Nth(file, r)
  BY <1>2 DEF Place, Nth
<1> QED
  BY <1>2, <1>3, <1>4, <1>5

-----------------------------------------------------------------------------
(***************************************************************************)
(* Places of rows.                                                         *)
(***************************************************************************)
LEMMA DataFinite ==
  ASSUME NEW f, Len(f.rows) \in Nat
  PROVE  /\ IsFiniteSet(Data(f)) /\ Data(f) \subseteq 2 .. (Len(f.rows) + 1)
         /\ \A n : IsFiniteSet(Above(f, n)) /\ Cardinality(Above(f, n)) \in Nat
<1>1. IsFiniteSet(2 .. (Len(f.rows) + 1))
  BY FS_Interval
<1>2. Data(f) \subseteq 2 .. (Len(f.rows) + 1)
  BY DEF Data
<1>3. IsFiniteSet(Data(f))
  BY <1>1, <1>2, FS_Subset
<1>4. \A n : Above(f, n) \subseteq Data(f)
  BY DEF Above
<1> QED
  BY <1>2, <1>3, <1>4, FS_Subset, FS_CardinalityType

\* A row comes after those above it.
LEMMA NextRow ==
  ASSUME NEW f, Len(f.rows) \in Nat, NEW r \in Data(f)
  PROVE  /\ Above(f, r + 1) = Above(f, r) \cup {r} /\ r \notin Above(f, r)
         /\ Nth(f, r) = Cardinality(Above(f, r)) + 1
         /\ Cardinality(Above(f, r + 1)) = Cardinality(Above(f, r)) + 1
<1>1. Data(f) \subseteq Int /\ IsFiniteSet(Above(f, r))
  BY DataFinite
<1>2. Above(f, r + 1) = Above(f, r) \cup {r} /\ r \notin Above(f, r)
  BY <1>1 DEF Above
<1>3. {q \in Data(f) : q <= r} = Above(f, r) \cup {r}
  BY <1>1 DEF Above
<1>4. Cardinality(Above(f, r) \cup {r}) = Cardinality(Above(f, r)) + 1
  BY <1>1, <1>2, FS_AddElement
<1> QED
  BY <1>2, <1>3, <1>4 DEF Nth

\* A blank row is nowhere.
LEMMA BlankRow ==
  ASSUME NEW f, Len(f.rows) \in Nat, NEW r \in Int, r \notin Data(f)
  PROVE  Above(f, r + 1) = Above(f, r)
<1>1. Data(f) \subseteq Int
  BY DataFinite
<1> QED
  BY <1>1 DEF Above

\* Places go up with the rows.
LEMMA PlacesRise ==
  ASSUME NEW f, Len(f.rows) \in Nat, NEW q \in Data(f), NEW n \in Int, q < n
  PROVE  Nth(f, q) \in Nat \ {0} /\ Nth(f, q) <= Cardinality(Above(f, n))
<1>1. q \in Int /\ IsFiniteSet(Above(f, n)) /\ Data(f) \subseteq Int
  BY DataFinite
<1>2. Above(f, q + 1) \subseteq Above(f, n)
  BY <1>1 DEF Above
<1>3. Cardinality(Above(f, q + 1)) <= Cardinality(Above(f, n))
  BY <1>1, <1>2, FS_Subset
<1> QED
  BY <1>3, NextRow, DataFinite

LEMMA PlacesInOrder ==
  ASSUME NEW f, Len(f.rows) \in Nat, NEW q \in Data(f), NEW r \in Data(f)
  PROVE  q < r <=> Nth(f, q) < Nth(f, r)
<1>1. /\ q \in Int /\ r \in Int
      /\ Nth(f, r) = Cardinality(Above(f, r)) + 1 /\ Cardinality(Above(f, r)) \in Nat
      /\ Nth(f, q) = Cardinality(Above(f, q)) + 1 /\ Cardinality(Above(f, q)) \in Nat
  BY DataFinite, NextRow
<1>2. q < r => Nth(f, q) <= Cardinality(Above(f, r))
  BY <1>1, PlacesRise
<1>3. r < q => Nth(f, r) <= Cardinality(Above(f, q))
  BY <1>1, PlacesRise
<1> QED
  BY <1>1, <1>2, <1>3

-----------------------------------------------------------------------------
(***************************************************************************)
(* Issues in reading order.                                                *)
(***************************************************************************)
Issue == [row : Nat, column : Column,
          fault : {"missing", "required", "not_first", "unparsable", "negative"}]

Cells(s) == {<<s[i].row, s[i].column>> : i \in DOMAIN s}

Precedes(x, y) == x[1] < y[1] \/ (x[1] = y[1] /\ Rank(x[2]) < Rank(y[2]))

Ordered(s) == \A i, j \in DOMAIN s :
                 i < j => Precedes(<<s[i].row, s[i].column>>, <<s[j].row, s[j].column>>)

\* Issues after those of earlier cells.
LEMMA Appended ==
  ASSUME NEW s \in Seq(Issue), NEW t \in Seq(Issue), Ordered(s), Ordered(t),
         \A x \in Cells(s), y \in Cells(t) : Precedes(x, y)
  PROVE  /\ s \o t \in Seq(Issue) /\ Ordered(s \o t)
         /\ Cells(s \o t) = Cells(s) \cup Cells(t)
         /\ s \o t = <<>> <=> s = <<>> /\ t = <<>>
<1>1. /\ Len(s) \in Nat /\ Len(t) \in Nat
      /\ DOMAIN s = 1 .. Len(s) /\ DOMAIN t = 1 .. Len(t)
  BY LenProperties
<1>2. /\ s \o t \in Seq(Issue) /\ Len(s \o t) = Len(s) + Len(t)
      /\ \A i \in 1 .. Len(s) + Len(t) :
            (s \o t)[i] = IF i <= Len(s) THEN s[i] ELSE t[i - Len(s)]
  BY ConcatProperties
<1>3. DOMAIN (s \o t) = 1 .. Len(s) + Len(t)
  BY <1>1, <1>2, LenProperties
<1>4. \A i \in 1 .. Len(s) : /\ i \in 1 .. Len(s) + Len(t)
                             /\ (s \o t)[i] = s[i]
                             /\ <<s[i].row, s[i].column>> \in Cells(s)
  BY <1>1, <1>2 DEF Cells
<1>5. \A i \in 1 .. Len(t) : /\ i + Len(s) \in 1 .. Len(s) + Len(t)
                             /\ (s \o t)[i + Len(s)] = t[i]
                             /\ <<t[i].row, t[i].column>> \in Cells(t)
  BY <1>1, <1>2 DEF Cells
<1>6. \A i \in 1 .. Len(s) + Len(t) : i > Len(s) =>
         i - Len(s) \in 1 .. Len(t) /\ (s \o t)[i] = t[i - Len(s)]
  BY <1>1, <1>2
<1>7. Cells(s \o t) = Cells(s) \cup Cells(t)
  <2>1. Cells(s \o t) \subseteq Cells(s) \cup Cells(t)
    <3> SUFFICES ASSUME NEW i \in 1 .. Len(s) + Len(t)
                 PROVE  <<(s \o t)[i].row, (s \o t)[i].column>> \in Cells(s) \cup Cells(t)
      BY <1>3 DEF Cells
    <3>1. CASE i <= Len(s)
      BY <1>1, <1>4, <3>1
    <3>2. CASE i > Len(s)
      BY <1>1, <1>5, <1>6, <3>2
    <3>3. i <= Len(s) \/ i > Len(s)
      BY <1>1
    <3> QED
      BY <3>1, <3>2, <3>3
  <2>2. Cells(s) \subseteq Cells(s \o t)
    BY <1>1, <1>3, <1>4 DEF Cells
  <2>3. Cells(t) \subseteq Cells(s \o t)
    BY <1>1, <1>3, <1>5 DEF Cells
  <2> QED
    BY <2>1, <2>2, <2>3
<1>8. Ordered(s \o t)
  <2> SUFFICES ASSUME NEW i \in 1 .. Len(s) + Len(t), NEW j \in 1 .. Len(s) + Len(t),
                      i < j
               PROVE  Precedes(<<(s \o t)[i].row, (s \o t)[i].column>>,
                               <<(s \o t)[j].row, (s \o t)[j].column>>)
    BY <1>3 DEF Ordered
  <2>1. CASE j <= Len(s)
    <3>1. i \in 1 .. Len(s) /\ j \in 1 .. Len(s)
      BY <1>1, <2>1
    <3> QED
      BY <1>1, <1>4, <3>1 DEF Ordered
  <2>2. CASE i <= Len(s) /\ j > Len(s)
    <3>1. i \in 1 .. Len(s) /\ j - Len(s) \in 1 .. Len(t)
      BY <1>1, <2>2
    <3>2. (s \o t)[i] = s[i] /\ (s \o t)[j] = t[j - Len(s)]
      BY <1>4, <1>6, <2>2, <3>1
    <3> QED
      BY <1>4, <1>5, <3>1, <3>2
  <2>3. CASE i > Len(s)
    <3>1. /\ i - Len(s) \in 1 .. Len(t) /\ j - Len(s) \in 1 .. Len(t)
          /\ i - Len(s) < j - Len(s) /\ j > Len(s)
      BY <1>1, <2>3
    <3>2. (s \o t)[i] = t[i - Len(s)] /\ (s \o t)[j] = t[j - Len(s)]
      BY <1>6, <2>3, <3>1
    <3> QED
      BY <1>1, <3>1, <3>2 DEF Ordered
  <2>4. j <= Len(s) \/ (i <= Len(s) /\ j > Len(s)) \/ i > Len(s)
    BY <1>1
  <2> QED
    BY <2>1, <2>2, <2>3, <2>4
<1>9. s \o t = <<>> <=> s = <<>> /\ t = <<>>
  BY <1>1, <1>2, EmptySeq
<1> QED
  BY <1>2, <1>7, <1>8, <1>9

\* None, and one.
LEMMA NoIssue == <<>> \in Seq(Issue) /\ Ordered(<<>>) /\ Cells(<<>>) = {}
<1>1. DOMAIN <<>> = {} /\ <<>> \in Seq(Issue)
  OBVIOUS
<1> QED
  BY <1>1 DEF Ordered, Cells

LEMMA OneIssue ==
  ASSUME NEW x \in Issue
  PROVE  /\ <<x>> \in Seq(Issue) /\ Ordered(<<x>>) /\ <<x>> # <<>>
         /\ Cells(<<x>>) = {<<x.row, x.column>>}
<1>1. DOMAIN <<x>> = {1} /\ <<x>>[1] = x /\ <<x>> \in Seq(Issue) /\ <<x>> # <<>>
  OBVIOUS
<1> QED
  BY <1>1 DEF Ordered, Cells

LEMMA Ranks == Rank("period") = 1 /\ Rank("category") = 2 /\ Rank("sum") = 3
<1>1. \A i \in 1 .. 3 : i = 1 \/ i = 2 \/ i = 3
  OBVIOUS
<1>2. Required[1] = "period" /\ Required[2] = "category" /\ Required[3] = "sum"
  BY DEF Required
<1>3. \A i \in 1 .. 3 : Required[i] = "period" <=> i = 1
  BY <1>1, <1>2
<1>4. \A i \in 1 .. 3 : Required[i] = "category" <=> i = 2
  BY <1>1, <1>2
<1>5. \A i \in 1 .. 3 : Required[i] = "sum" <=> i = 3
  BY <1>1, <1>2
<1> QED
  BY <1>3, <1>4, <1>5 DEF Rank

-----------------------------------------------------------------------------
(***************************************************************************)
(* One row.                                                                *)
(***************************************************************************)
\* Rows and cells of a sheet are what a sheet may hold.
LEMMA SheetShape ==
  ASSUME file \in Files
  PROVE  /\ Len(file.rows) \in Nat /\ DOMAIN file.rows = 1 .. Len(file.rows)
         /\ \A r \in 2 .. (Len(file.rows) + 1) : \A c : At(file, r, c) \in Cell
<1>1. file \in Sheet \/ file \in Unusable
  BY ParserAssumption
<1>2. file.rows \in Seq(Seq(Cell))
  <2>1. <<>> \in Seq(Seq(Cell))
    OBVIOUS
  <2> QED
    BY <1>1, <2>1 DEF Sheet, Unusable
<1>3. Len(file.rows) \in Nat /\ DOMAIN file.rows = 1 .. Len(file.rows)
  BY <1>2, LenProperties
<1>4. \A r \in 2 .. (Len(file.rows) + 1) : file.rows[r - 1] \in Seq(Cell)
  <2> TAKE r \in 2 .. (Len(file.rows) + 1)
  <2>1. r - 1 \in 1 .. Len(file.rows)
    BY <1>3
  <2> QED
    BY <1>2, <2>1, ElementOfSeq
<1>5. "none" \in Cell
  BY DEF Cell, Blank
<1>6. ASSUME NEW r \in 2 .. (Len(file.rows) + 1), NEW c PROVE At(file, r, c) \in Cell
  <2>1. file.rows[r - 1] \in Seq(Cell)
    BY <1>4
  <2>2. DOMAIN file.rows[r - 1] = 1 .. Len(file.rows[r - 1])
    BY <2>1, LenProperties
  <2>3. \A i \in 1 .. Len(file.rows[r - 1]) : file.rows[r - 1][i] \in Cell
    BY <2>1, ElementOfSeq
  <2> QED
    BY <1>5, <2>2, <2>3 DEF At
<1> QED
  BY <1>3, <1>6

\* A cell parser finds fault with what its column may not hold.
LEMMA FaultIff ==
  ASSUME NEW x \in Cell
  PROVE  /\ PeriodFault(x) = "fine" <=> x \in Valid("period")
         /\ CategoryFault(x) = "fine" <=> x \in Valid("category")
         /\ SumFault(x) = "fine" <=> x \in Valid("sum")
         /\ {PeriodFault(x), CategoryFault(x), SumFault(x)} \subseteq
               {"fine", "required", "not_first", "unparsable", "negative"}
<1>1. /\ Valid("period") = Months /\ Valid("category") = Cell \ Blank
      /\ Valid("sum") = Sums
  BY DEF Valid
<1>2. /\ Blank \cap (Months \cup MidDays \cup Sums \cup {Negative}) = {}
      /\ Months \cap MidDays = {} /\ Negative \notin Sums
  BY ParserAssumption
<1>3. /\ PeriodFault(x) = "fine" <=> x \in Months
      /\ PeriodFault(x) \in {"fine", "required", "not_first", "unparsable"}
  BY <1>2 DEF PeriodFault
<1>4. /\ CategoryFault(x) = "fine" <=> x \in Cell \ Blank
      /\ CategoryFault(x) \in {"fine", "required"}
  BY DEF CategoryFault
<1>5. /\ SumFault(x) = "fine" <=> x \in Sums
      /\ SumFault(x) \in {"fine", "required", "unparsable", "negative"}
  BY <1>2 DEF SumFault
<1> QED
  BY <1>1, <1>3, <1>4, <1>5

LEMMA CellIssuesShape ==
  ASSUME file \in Files, NEW r \in 2 .. (Len(file.rows) + 1), NEW c \in Triple
  PROVE  /\ CellIssues(r, c) \in Seq(Issue) /\ Ordered(CellIssues(r, c))
         /\ Cells(CellIssues(r, c)) = IF At(file, r, c) \in Valid(c) THEN {}
                                      ELSE {<<r, c>>}
         /\ CellIssues(r, c) = <<>> <=> At(file, r, c) \in Valid(c)
<1>1. At(file, r, c) \in Cell /\ r \in Nat
  BY SheetShape
<1>2. /\ FaultOf(r, c) = "fine" <=> At(file, r, c) \in Valid(c)
      /\ FaultOf(r, c) \in {"fine", "required", "not_first", "unparsable", "negative"}
  <2>1. CASE c = "period"
    <3>1. FaultOf(r, c) = PeriodFault(At(file, r, c))
      BY <2>1, SameOperators DEF FaultOf
    <3> QED
      BY <1>1, <2>1, <3>1, FaultIff
  <2>2. CASE c = "category"
    <3>1. FaultOf(r, c) = CategoryFault(At(file, r, c))
      BY <2>2, SameOperators DEF FaultOf
    <3> QED
      BY <1>1, <2>2, <3>1, FaultIff
  <2>3. CASE c = "sum"
    <3>1. FaultOf(r, c) = SumFault(At(file, r, c))
      BY <2>3, SameOperators DEF FaultOf
    <3> QED
      BY <1>1, <2>3, <3>1, FaultIff
  <2> QED
    BY <2>1, <2>2, <2>3 DEF Triple
<1>3. CASE FaultOf(r, c) = "fine"
  BY <1>2, <1>3, NoIssue DEF CellIssues
<1>4. CASE FaultOf(r, c) # "fine"
  <2> DEFINE x == [row |-> r, column |-> c, fault |-> FaultOf(r, c)]
  <2>1. x \in Issue
    BY <1>1, <1>2, <1>4 DEF Issue, Triple, Column
  <2>2. CellIssues(r, c) = <<x>> /\ x.row = r /\ x.column = c
    BY <1>4 DEF CellIssues
  <2> HIDE DEF x
  <2> QED
    BY <1>2, <1>4, <2>1, <2>2, OneIssue
<1> QED
  BY <1>3, <1>4

\* The issues of a row are its bad cells.
LEMMA RowIssuesShape ==
  ASSUME file \in Files, NEW r \in 2 .. (Len(file.rows) + 1)
  PROVE  /\ RowIssues(r) \in Seq(Issue) /\ Ordered(RowIssues(r))
         /\ Cells(RowIssues(r)) = {x \in {r} \X Triple : At(file, r, x[2]) \notin Valid(x[2])}
         /\ RowIssues(r) = <<>> <=> \A c \in Triple : At(file, r, c) \in Valid(c)
         /\ CellIssues(r, "period") \o CellIssues(r, "category") \in Seq(Issue)
<1> DEFINE p == CellIssues(r, "period")
           k == CellIssues(r, "category")
           s == CellIssues(r, "sum")
           B(c) == IF At(file, r, c) \in Valid(c) THEN {} ELSE {<<r, c>>}
<1>1. /\ p \in Seq(Issue) /\ Ordered(p) /\ Cells(p) = B("period")
      /\ p = <<>> <=> At(file, r, "period") \in Valid("period")
  BY CellIssuesShape DEF Triple
<1>2. /\ k \in Seq(Issue) /\ Ordered(k) /\ Cells(k) = B("category")
      /\ k = <<>> <=> At(file, r, "category") \in Valid("category")
  BY CellIssuesShape DEF Triple
<1>3. /\ s \in Seq(Issue) /\ Ordered(s) /\ Cells(s) = B("sum")
      /\ s = <<>> <=> At(file, r, "sum") \in Valid("sum")
  BY CellIssuesShape DEF Triple
<1>4. RowIssues(r) = (p \o k) \o s
  BY DEF RowIssues
<1> HIDE DEF p, k, s
<1>5. /\ p \o k \in Seq(Issue) /\ Ordered(p \o k)
      /\ Cells(p \o k) = B("period") \cup B("category")
      /\ p \o k = <<>> <=> p = <<>> /\ k = <<>>
  <2>1. \A x \in Cells(p), y \in Cells(k) : Precedes(x, y)
    BY <1>1, <1>2, Ranks DEF Precedes
  <2> QED
    BY <1>1, <1>2, <2>1, Appended
<1>6. /\ (p \o k) \o s \in Seq(Issue) /\ Ordered((p \o k) \o s)
      /\ Cells((p \o k) \o s) = B("period") \cup B("category") \cup B("sum")
      /\ (p \o k) \o s = <<>> <=> p \o k = <<>> /\ s = <<>>
  <2>1. \A x \in Cells(p \o k), y \in Cells(s) : Precedes(x, y)
    BY <1>3, <1>5, Ranks DEF Precedes
  <2>2. /\ (p \o k) \o s \in Seq(Issue) /\ Ordered((p \o k) \o s)
        /\ Cells((p \o k) \o s) = Cells(p \o k) \cup Cells(s)
        /\ (p \o k) \o s = <<>> <=> p \o k = <<>> /\ s = <<>>
    BY <1>3, <1>5, <2>1, Appended, Zenon
  <2> QED
    BY <1>3, <1>5, <2>2, Zenon
<1>7. B("period") \cup B("category") \cup B("sum")
         = {x \in {r} \X Triple : At(file, r, x[2]) \notin Valid(x[2])}
  BY DEF Triple
<1> QED
  BY <1>1, <1>2, <1>3, <1>4, <1>5, <1>6, <1>7 DEF Triple, p, k

-----------------------------------------------------------------------------
(***************************************************************************)
(* The parser's invariant.                                                 *)
(***************************************************************************)
\* Parsed rows stand in the places of the rows they are, those above row n.
Lined(f, p, n) ==
    /\ Len(p) = Cardinality(Above(f, n))
    /\ \A r \in Above(f, n) : p[Nth(f, r)] = DTO(f, r)
    /\ \A k \in 1 .. Len(p) : \E r \in Above(f, n) : Nth(f, r) = k

Collected ==
    /\ Cells(issues) = Bad(file, row) /\ Ordered(issues)
    /\ issues = <<>> => Lined(file, parsed, row)

ParserInv ==
    /\ ParserTypeOK
    /\ stage = "open" => row = 2 /\ parsed = <<>> /\ issues = <<>>
    /\ stage \in {"rows", "parsed"} => file.kind = "sheet" /\ HeaderFits(file)
    /\ stage \in {"rows", "parsed", "rejected"} /\ file.kind = "sheet" /\ HeaderFits(file)
          => Collected
    /\ stage \in {"parsed", "rejected"} /\ file.kind = "sheet" /\ HeaderFits(file)
          => row = Len(file.rows) + 2
    /\ stage = "parsed" => issues = <<>>
    /\ stage = "rejected" /\ file.kind = "sheet" /\ HeaderFits(file) /\ issues = <<>>
          => parsed = <<>>

DTOs == [period : Months, category_name : Cell \ Blank, sum : Sums]

\* What the header lacks.
LEMMA MissingShape ==
  /\ MissingColumns \in Seq(Issue)
  /\ MissingColumns = <<>> <=> HeaderFits(file)
<1> DEFINE missing(c) == IF HasColumn(c) THEN <<>>
                         ELSE <<[row |-> 1, column |-> c, fault |-> "missing"]>>
<1>1. \A c \in Triple : /\ missing(c) \in Seq(Issue)
                        /\ missing(c) = <<>> <=> HasColumn(c)
  <2> TAKE c \in Triple
  <2> DEFINE x == [row |-> 1, column |-> c, fault |-> "missing"]
  <2>1. x \in Issue
    BY DEF Issue, Triple, Column
  <2> HIDE DEF x
  <2>2. <<x>> \in Seq(Issue) /\ <<x>> # <<>>
    BY <2>1, OneIssue
  <2> QED
    BY <2>2, NoIssue DEF x
<1>2. MissingColumns = missing("period") \o missing("category") \o missing("sum")
  BY DEF MissingColumns
<1> HIDE DEF missing
<1>3. \A s, t \in Seq(Issue) : /\ s \o t \in Seq(Issue)
                              /\ s \o t = <<>> <=> s = <<>> /\ t = <<>>
  BY ConcatProperties, EmptySeq, LenProperties
<1>4. HeaderFits(file) <=> \A c \in Triple : HasColumn(c)
  BY DEF HeaderFits, HasColumn
<1> QED
  BY <1>1, <1>2, <1>3, <1>4 DEF Triple

LEMMA TopOfFile ==
  ASSUME NEW f, Len(f.rows) \in Nat
  PROVE  Above(f, 2) = {} /\ Bad(f, 2) = {} /\ Lined(f, <<>>, 2)
<1>1. Above(f, 2) = {}
  BY DEF Above, Data
<1>2. Cardinality({}) = 0 /\ Len(<<>>) = 0
  BY FS_EmptySet, EmptySeq
<1>3. Bad(f, 2) = {}
  BY <1>1 DEF Bad
<1>4. Lined(f, <<>>, 2)
  <2>1. Len(<<>>) = Cardinality(Above(f, 2)) /\ ~(\E k \in 1 .. Len(<<>>) : TRUE)
    BY <1>1, <1>2
  <2> QED
    BY <1>1, <2>1, Zenon DEF Lined
<1> QED
  BY <1>1, <1>3, <1>4

LEMMA ParserInitInv == ParserInit => ParserInv
<1> SUFFICES ASSUME ParserInit PROVE ParserInv
  OBVIOUS
<1>1. <<>> \in Seq(DTOs) /\ <<>> \in Seq(Issue)
  OBVIOUS
<1>2. Len(file.rows) \in Nat
  BY SheetShape DEF ParserInit
<1> QED
  BY <1>1, <1>2 DEF ParserInit, ParserInv, ParserTypeOK, Stage, DTOs, Issue

\* A row with data whose cells are valid takes the next place.
LEMMA LinedFurther ==
  ASSUME NEW f, Len(f.rows) \in Nat, NEW p \in Seq(DTOs), NEW n \in Data(f),
         Lined(f, p, n), DTO(f, n) \in DTOs
  PROVE  Lined(f, Append(p, DTO(f, n)), n + 1)
<1>1. /\ n \in Int /\ IsFiniteSet(Above(f, n)) /\ Len(p) \in Nat
      /\ Len(p) = Cardinality(Above(f, n))
  BY DataFinite, LenProperties DEF Lined
<1>2. /\ Len(Append(p, DTO(f, n))) = Len(p) + 1
      /\ Append(p, DTO(f, n))[Len(p) + 1] = DTO(f, n)
      /\ \A i \in 1 .. Len(p) : Append(p, DTO(f, n))[i] = p[i]
  BY AppendProperties
<1>3. /\ Above(f, n + 1) = Above(f, n) \cup {n}
      /\ Nth(f, n) = Len(p) + 1
      /\ Cardinality(Above(f, n + 1)) = Len(p) + 1
  BY <1>1, NextRow
<1>4. \A r \in Above(f, n) : Nth(f, r) \in 1 .. Len(p)
  BY <1>1, PlacesRise DEF Above
<1>5. \A r \in Above(f, n + 1) : Append(p, DTO(f, n))[Nth(f, r)] = DTO(f, r)
  BY <1>2, <1>3, <1>4 DEF Lined
<1>6. \A k \in 1 .. Len(p) + 1 : \E r \in Above(f, n + 1) : Nth(f, r) = k
  <2> TAKE k \in 1 .. Len(p) + 1
  <2>1. CASE k \in 1 .. Len(p)
    BY <1>3, <2>1 DEF Lined
  <2>2. CASE k = Len(p) + 1
    BY <1>3, <2>2
  <2> QED
    BY <1>1, <2>1, <2>2
<1> QED
  BY <1>2, <1>3, <1>5, <1>6 DEF Lined

LEMMA LinedOn ==
  ASSUME NEW f, Len(f.rows) \in Nat, NEW p, NEW n \in Int, n \notin Data(f)
  PROVE  /\ Lined(f, p, n) => Lined(f, p, n + 1)
         /\ Bad(f, n + 1) = Bad(f, n)
  BY BlankRow DEF Lined, Bad

\* The header is judged.
LEMMA HeaderStep ==
  ASSUME ParserInv, RejectUnusable \/ RejectHeader \/ AcceptHeader
  PROVE  ParserInv'
<1>1. /\ stage = "open" /\ row = 2 /\ parsed = <<>> /\ issues = <<>>
      /\ file' = file /\ row' = row /\ parsed' = parsed /\ ParserTypeOK
      /\ Len(file.rows) \in Nat
  BY SheetShape DEF RejectUnusable, RejectHeader, AcceptHeader, ParserInv, ParserTypeOK
<1>2. CASE RejectUnusable
  BY <1>1, <1>2 DEF RejectUnusable, ParserInv, ParserTypeOK, Stage
<1>3. CASE RejectHeader
  <2>1. issues' \in Seq(Issue) /\ ~HeaderFits(file) /\ stage' = "rejected"
    BY <1>3, MissingShape DEF RejectHeader
  <2> QED
    BY <1>1, <2>1 DEF ParserInv, ParserTypeOK, Stage, Issue
<1>4. CASE AcceptHeader
  <2>1. /\ stage' = "rows" /\ issues' = issues /\ file.kind = "sheet" /\ HeaderFits(file)
    BY <1>4, MissingShape DEF AcceptHeader
  <2>2. Cells(issues) = Bad(file, row) /\ Ordered(issues) /\ Lined(file, parsed, row)
    BY <1>1, TopOfFile, NoIssue
  <2>3. Collected'
    BY <1>1, <2>1, <2>2 DEF Collected
  <2> QED
    BY <1>1, <2>1, <2>3 DEF ParserInv, ParserTypeOK, Stage
<1> QED
  BY <1>2, <1>3, <1>4

\* A row of the sheet is read.
LEMMA RowStep ==
  ASSUME ParserInv, SkipBlankRow \/ ParseRow
  PROVE  ParserInv'
<1>1. /\ stage = "rows" /\ stage' = stage /\ file' = file /\ row' = row + 1
      /\ ParserTypeOK /\ file.kind = "sheet" /\ HeaderFits(file) /\ Collected
  BY DEF SkipBlankRow, ParseRow, ParserInv
<1>2. /\ file \in Files /\ Len(file.rows) \in Nat
      /\ row \in 2 .. (Len(file.rows) + 1) /\ row' \in 2 .. (Len(file.rows) + 2)
  <2>1. row - 1 \in DOMAIN file.rows /\ file \in Files /\ row \in 2 .. (Len(file.rows) + 2)
    BY <1>1 DEF SkipBlankRow, ParseRow, RowsRemain, ParserTypeOK
  <2> QED
    BY <1>1, <2>1, SheetShape
<1>3. IsBlankRow(row) <=> row \notin Data(file)
  BY <1>2 DEF IsBlankRow, RawRow, Data
<1>4. ASSUME parsed' \in Seq(DTOs), issues' \in Seq(Issue), Collected'
      PROVE  ParserInv'
  BY <1>1, <1>2, <1>4 DEF ParserInv, ParserTypeOK, DTOs, Issue
<1>5. parsed \in Seq(DTOs) /\ issues \in Seq(Issue)
  BY <1>1 DEF ParserTypeOK, DTOs, Issue
<1>6. CASE SkipBlankRow
  <2>1. UNCHANGED <<parsed, issues>> /\ row \notin Data(file)
    BY <1>3, <1>6 DEF SkipBlankRow
  <2>2. Collected'
    <3>1. /\ Lined(file, parsed, row) => Lined(file, parsed, row + 1)
          /\ Bad(file, row + 1) = Bad(file, row)
      BY <1>2, <2>1, LinedOn
    <3> QED
      BY <1>1, <2>1, <3>1 DEF Collected
  <2> QED
    BY <1>4, <1>5, <2>1, <2>2
<1>7. CASE ParseRow
  <2>1. /\ row \in Data(file) /\ issues' = issues \o RowIssues(row)
        /\ parsed' = IF RowIssues(row) = <<>> THEN Append(parsed, DTO(file, row))
                     ELSE parsed
    BY <1>3, <1>7, SameOperators DEF ParseRow
  <2>2. /\ RowIssues(row) \in Seq(Issue) /\ Ordered(RowIssues(row))
        /\ Cells(RowIssues(row)) = {x \in {row} \X Triple :
                                       At(file, row, x[2]) \notin Valid(x[2])}
        /\ RowIssues(row) = <<>> <=> \A c \in Triple : At(file, row, c) \in Valid(c)
    BY <1>2, RowIssuesShape
  <2>3. Above(file, row + 1) = Above(file, row) \cup {row}
    BY <1>2, <2>1, NextRow
  <2>4. Bad(file, row + 1) = Cells(issues) \cup Cells(RowIssues(row))
    <3>1. Cells(issues) = Bad(file, row)
      BY <1>1 DEF Collected
    <3> QED
      BY <2>2, <2>3, <3>1 DEF Bad
  <2>5. \A x \in Cells(issues), y \in Cells(RowIssues(row)) : Precedes(x, y)
    <3>1. \A x \in Cells(issues) : x[1] < row
      BY <1>1 DEF Collected, Bad, Above
    <3> QED
      BY <2>2, <3>1 DEF Precedes
  <2>6. /\ issues' \in Seq(Issue) /\ Ordered(issues')
        /\ Cells(issues') = Bad(file, row + 1)
        /\ issues' = <<>> => issues = <<>> /\ RowIssues(row) = <<>>
    <3>1. Ordered(issues)
      BY <1>1 DEF Collected
    <3> QED
      BY <1>5, <2>1, <2>2, <2>4, <2>5, <3>1, Appended
  <2>7. RowIssues(row) = <<>> => DTO(file, row) \in DTOs
    BY <2>2 DEF DTO, DTOs, Valid, Triple
  <2>8. parsed' \in Seq(DTOs)
    BY <1>5, <2>1, <2>7, AppendProperties
  <2>9. issues' = <<>> => Lined(file, parsed', row + 1)
    BY <1>1, <1>2, <1>5, <2>1, <2>6, <2>7, LinedFurther DEF Collected
  <2>10. Collected'
    BY <1>1, <2>6, <2>9 DEF Collected
  <2> QED
    BY <1>4, <2>6, <2>8, <2>10
<1> QED
  BY <1>6, <1>7

\* The rows end, or a NaN ends it all.
LEMMA EndStep ==
  ASSUME ParserInv, CrashOnNaN \/ Finish
  PROVE  ParserInv'
<1>1. /\ stage = "rows" /\ UNCHANGED <<file, row, parsed>>
      /\ ParserTypeOK /\ file.kind = "sheet" /\ HeaderFits(file) /\ Collected
  BY DEF CrashOnNaN, Finish, ParserInv
<1>2. /\ file \in Files /\ Len(file.rows) \in Nat /\ DOMAIN file.rows = 1 .. Len(file.rows)
      /\ row \in 2 .. (Len(file.rows) + 2)
  BY <1>1, SheetShape DEF ParserTypeOK
<1>3. CASE CrashOnNaN
  <2>1. row \in 2 .. (Len(file.rows) + 1)
    BY <1>2, <1>3 DEF CrashOnNaN, RowsRemain
  <2>2. issues' \in Seq(Issue)
    <3>1. /\ CellIssues(row, "period") \in Seq(Issue)
          /\ CellIssues(row, "category") \in Seq(Issue) /\ issues \in Seq(Issue)
      BY <1>1, <1>2, <2>1, CellIssuesShape DEF Triple, ParserTypeOK, Issue
    <3> QED
      BY <1>3, <3>1, ConcatProperties DEF CrashOnNaN
  <2>3. stage' = "crashed"
    BY <1>3 DEF CrashOnNaN
  <2> QED
    BY <1>1, <2>2, <2>3 DEF ParserInv, ParserTypeOK, Stage, Issue
<1>4. CASE Finish
  <2>1. /\ row = Len(file.rows) + 2 /\ issues' = issues
        /\ stage' = IF issues # <<>> \/ parsed = <<>> THEN "rejected" ELSE "parsed"
    BY <1>2, <1>4 DEF Finish, RowsRemain
  <2>2. Collected'
    BY <1>1, <2>1 DEF Collected
  <2> QED
    BY <1>1, <2>1, <2>2 DEF ParserInv, ParserTypeOK, Stage
<1> QED
  BY <1>3, <1>4

LEMMA ParserStep ==
  ASSUME ParserInv, ParserNext
  PROVE  ParserInv'
  BY HeaderStep, RowStep, EndStep DEF ParserNext

-----------------------------------------------------------------------------
(***************************************************************************)
(* The loop's invariant.                                                   *)
(***************************************************************************)
Key(p) == <<p.period, p.category_name>>

\* The k-th of the rows p may not be stored beside TakenKeys and those before.
Fails(p, k) == \/ p[k].category_name \notin KnownCategories
               \/ \E j \in 1 .. (k - 1) : Key(p[j]) = Key(p[k])
               \/ Key(p[k]) \in TakenKeys

Finding == [row : Nat, fault : {"unknown", "repeated", "exists"}]

Reported(s) == {s[i].row : i \in DOMAIN s}

\* The first n of the rows p are decided: reported by their place or taken.
Judged(p, n, s, t) ==
    /\ Reported(s) = {k + 1 : k \in {j \in 1 .. n : Fails(p, j)}}
    /\ \A i \in DOMAIN t : \E k \in DOMAIN p : t[i] = p[k]
    /\ (\A k \in 1 .. n : ~Fails(p, k)) =>
          Len(t) = n /\ \A k \in 1 .. n : t[k] = p[k]

LoopInv ==
    /\ index \in 1 .. (Len(parsed) + 1)
    /\ found \in Seq(Finding) /\ toInsert \in Seq(DTOs)
    /\ stage # "parsed" => index = 1 /\ found = <<>> /\ toInsert = <<>>
    /\ Judged(parsed, index - 1, found, toInsert)

PlansFileInv == ParserInv /\ LoopInv

LEMMA LoopFaultIff ==
  \A k : /\ LoopFault(k) = "fine" <=> ~Fails(parsed, k)
         /\ LoopFault(k) \in {"fine", "unknown", "repeated", "exists"}
  BY DEF LoopFault, Fails, KeyOf, Key

LEMMA NoneJudged == \A p : Judged(p, 0, <<>>, <<>>)
<1>1. DOMAIN <<>> = {} /\ Len(<<>>) = 0
  BY EmptySeq, LenProperties
<1>2. Reported(<<>>) = {}
  BY <1>1 DEF Reported
<1> QED
  BY <1>1, <1>2 DEF Judged

LEMMA InitPlansFile == Init => PlansFileInv
<1> SUFFICES ASSUME Init PROVE PlansFileInv
  OBVIOUS
<1>1. ParserInv
  BY ParserInitInv DEF Init
<1>2. /\ index = 1 /\ found = <<>> /\ toInsert = <<>> /\ parsed = <<>>
      /\ stage = "open" /\ Len(<<>>) = 0
      /\ <<>> \in Seq(Finding) /\ <<>> \in Seq(DTOs)
  BY EmptySeq DEF Init, ParserInit
<1>3. Judged(parsed, index - 1, found, toInsert)
  BY <1>2, NoneJudged
<1> QED
  BY <1>1, <1>2, <1>3 DEF PlansFileInv, LoopInv

\* While the parser is at work the loop has not begun.
LEMMA ParseStep ==
  ASSUME PlansFileInv, Parse
  PROVE  PlansFileInv'
<1>1. ParserInv' /\ UNCHANGED <<index, found, toInsert>>
  BY ParserStep DEF PlansFileInv, Parse, loopVars
<1>2. stage # "parsed"
  BY DEF Parse, ParserNext, RejectUnusable, RejectHeader, AcceptHeader, SkipBlankRow,
         ParseRow, CrashOnNaN, Finish
<1>3. index = 1 /\ found = <<>> /\ toInsert = <<>>
  BY <1>2 DEF PlansFileInv, LoopInv
<1>4. Len(parsed') \in Nat
  BY <1>1, LenProperties DEF ParserInv, ParserTypeOK
<1>5. <<>> \in Seq(Finding) /\ <<>> \in Seq(DTOs)
  OBVIOUS
<1>6. Judged(parsed', index' - 1, found', toInsert')
  BY <1>1, <1>3, NoneJudged
<1> QED
  BY <1>1, <1>3, <1>4, <1>5, <1>6 DEF PlansFileInv, LoopInv

LEMMA ParserRests ==
  ASSUME ParserInv, UNCHANGED parserVars
  PROVE  ParserInv'
  BY DEF ParserInv, ParserTypeOK, Collected, parserVars

\* One more row is decided.
LEMMA LoopStep ==
  ASSUME PlansFileInv, ReportRow \/ AcceptRow
  PROVE  PlansFileInv'
<1>1. /\ UNCHANGED parserVars /\ index' = index + 1 /\ stage = "parsed"
      /\ index \in 1 .. Len(parsed) /\ parsed \in Seq(DTOs) /\ Len(parsed) \in Nat
      /\ DOMAIN parsed = 1 .. Len(parsed)
  <2>1. parsed \in Seq(DTOs)
    BY DEF PlansFileInv, ParserInv, ParserTypeOK, DTOs
  <2>2. Len(parsed) \in Nat /\ DOMAIN parsed = 1 .. Len(parsed)
    BY <2>1, LenProperties
  <2> QED
    BY <2>1, <2>2 DEF PlansFileInv, LoopInv, ReportRow, AcceptRow
<1>2. ParserInv' /\ UNCHANGED <<parsed, stage>>
  BY <1>1, ParserRests DEF PlansFileInv, parserVars
<1>3. /\ found \in Seq(Finding) /\ toInsert \in Seq(DTOs)
      /\ Judged(parsed, index - 1, found, toInsert)
      /\ Len(found) \in Nat /\ DOMAIN found = 1 .. Len(found)
      /\ Len(toInsert) \in Nat /\ DOMAIN toInsert = 1 .. Len(toInsert)
  BY LenProperties DEF PlansFileInv, LoopInv
<1>4. ASSUME found' \in Seq(Finding), toInsert' \in Seq(DTOs),
             Judged(parsed, index, found', toInsert')
      PROVE  PlansFileInv'
  <2>1. index' - 1 = index /\ index' \in 1 .. (Len(parsed') + 1)
    BY <1>1, <1>2
  <2> QED
    BY <1>1, <1>2, <1>4, <2>1 DEF PlansFileInv, LoopInv
<1>5. CASE ReportRow
  <2> DEFINE x == [row |-> index + 1, fault |-> LoopFault(index)]
  <2>1. /\ Fails(parsed, index) /\ found' = Append(found, x) /\ toInsert' = toInsert
        /\ x \in Finding /\ x.row = index + 1
    BY <1>1, <1>5, LoopFaultIff DEF ReportRow, Finding
  <2> HIDE DEF x
  <2>2. /\ found' \in Seq(Finding) /\ Len(found') = Len(found) + 1
        /\ found'[Len(found) + 1] = x
        /\ \A i \in 1 .. Len(found) : found'[i] = found[i]
    BY <1>3, <2>1, AppendProperties
  <2>3. DOMAIN found' = 1 .. Len(found) + 1
    BY <2>2, LenProperties
  <2>4. Reported(found') = Reported(found) \cup {index + 1}
    BY <1>3, <2>1, <2>2, <2>3 DEF Reported
  <2>5. {j \in 1 .. index : Fails(parsed, j)}
           = {j \in 1 .. (index - 1) : Fails(parsed, j)} \cup {index}
    BY <1>1, <2>1
  <2>6. Reported(found') = {k + 1 : k \in {j \in 1 .. index : Fails(parsed, j)}}
    BY <1>3, <2>4, <2>5 DEF Judged
  <2>7. ~(\A k \in 1 .. index : ~Fails(parsed, k))
    BY <1>1, <2>1
  <2>8. Judged(parsed, index, found', toInsert')
    BY <1>3, <2>1, <2>6, <2>7 DEF Judged
  <2> QED
    BY <1>3, <1>4, <2>1, <2>2, <2>8
<1>6. CASE AcceptRow
  <2>1. /\ ~Fails(parsed, index) /\ found' = found
        /\ toInsert' = Append(toInsert, parsed[index]) /\ parsed[index] \in DTOs
    BY <1>1, <1>6, LoopFaultIff, ElementOfSeq DEF AcceptRow
  <2>2. /\ toInsert' \in Seq(DTOs) /\ Len(toInsert') = Len(toInsert) + 1
        /\ toInsert'[Len(toInsert) + 1] = parsed[index]
        /\ \A i \in 1 .. Len(toInsert) : toInsert'[i] = toInsert[i]
    BY <1>3, <2>1, AppendProperties
  <2>3. DOMAIN toInsert' = 1 .. Len(toInsert) + 1
    BY <2>2, LenProperties
  <2>4. {j \in 1 .. index : Fails(parsed, j)} = {j \in 1 .. (index - 1) : Fails(parsed, j)}
    BY <1>1, <2>1
  <2>5. Reported(found') = {k + 1 : k \in {j \in 1 .. index : Fails(parsed, j)}}
    BY <1>3, <2>1, <2>4 DEF Judged
  <2>6. \A i \in DOMAIN toInsert' : \E k \in DOMAIN parsed : toInsert'[i] = parsed[k]
    BY <1>1, <1>3, <2>2, <2>3 DEF Judged
  <2>7. ASSUME \A k \in 1 .. index : ~Fails(parsed, k)
        PROVE  Len(toInsert') = index /\ \A k \in 1 .. index : toInsert'[k] = parsed[k]
    <3>1. /\ Len(toInsert) = index - 1
          /\ \A k \in 1 .. (index - 1) : toInsert[k] = parsed[k]
      BY <1>1, <1>3, <2>7 DEF Judged
    <3> QED
      BY <1>1, <2>2, <3>1
  <2>8. Judged(parsed, index, found', toInsert')
    BY <2>5, <2>6, <2>7 DEF Judged
  <2> QED
    BY <1>3, <1>4, <2>1, <2>2, <2>8
<1> QED
  BY <1>5, <1>6

\* One step per action.
LEMMA NextPlansFile == PlansFileInv /\ [Next]_vars => PlansFileInv'
<1>1. ASSUME PlansFileInv, UNCHANGED vars PROVE PlansFileInv'
  BY <1>1, ParserRests DEF PlansFileInv, LoopInv, vars, loopVars, parserVars
<1> QED
  BY <1>1, ParseStep, LoopStep DEF Next, Rest

-----------------------------------------------------------------------------
(***************************************************************************)
(* The theorems.                                                           *)
(***************************************************************************)
\* Issues are bad cells in reading order, parsed rows the rows with data, and
\* the loop's decisions those of the rows' places, at every step.
THEOREM PlansFileInvariance == Spec => []PlansFileInv
  BY InitPlansFile, NextPlansFile, PTL DEF Spec

\* Every variable keeps to its range: what the parser passes on has a month, a
\* category and a sum of zero or more, and what the loop takes was passed on.
THEOREM TypeCorrect == Spec => []TypeOK
<1>1. PlansFileInv => TypeOK
  BY DEF PlansFileInv, ParserInv, LoopInv, Judged, Finding, TypeOK
<1> QED
  BY <1>1, PlansFileInvariance, PTL

\* At the end of the rows all rows are above.
LEMMA EndOfFile ==
  ASSUME ParserInv, row = Len(file.rows) + 2
  PROVE  Above(file, row) = Data(file) /\ Len(file.rows) \in Nat
<1>1. Len(file.rows) \in Nat
  BY SheetShape DEF ParserInv, ParserTypeOK
<1> QED
  BY <1>1, DataFinite DEF Above

\* A file turned down for its rows comes back with all of its bad cells, each
\* once and in reading order (the three cell parsers and the loop of
\* PlansExcelParser.parse).
THEOREM IssuesAreExact == Spec => []IssuesExact
<1>1. PlansFileInv => IssuesExact
  <2> SUFFICES ASSUME ParserInv, stage = "rejected", file.kind = "sheet",
                      HeaderFits(file)
               PROVE  /\ Cells(issues) = {x \in DataRows \X Triple :
                                             CellOf(x[1], x[2]) \notin Valid(x[2])}
                      /\ Ordered(issues)
                      /\ issues = <<>> => DataRows = {}
    BY MissingShape DEF PlansFileInv, IssuesExact, Cells, Ordered, Precedes, Triple
  <2>1. Collected /\ Above(file, row) = Data(file) /\ Len(file.rows) \in Nat
    BY EndOfFile DEF ParserInv
  <2>2. Cells(issues) = Bad(file, row) /\ Ordered(issues)
    BY <2>1 DEF Collected
  <2>3. Bad(file, row) = {x \in DataRows \X Triple : CellOf(x[1], x[2]) \notin Valid(x[2])}
    BY <2>1, SameOperators DEF Bad
  <2>4. issues = <<>> => DataRows = {}
    <3>1. issues = <<>> => Cardinality(Data(file)) = 0
      BY <2>1, EmptySeq DEF ParserInv, Collected, Lined
    <3> QED
      BY <2>1, <3>1, DataFinite, FS_EmptySet, SameOperators
  <2> QED
    BY <2>2, <2>3, <2>4
<1> QED
  BY <1>1, PlansFileInvariance, PTL

\* What parses is what the sheet has, row by row: none is lost, doubled or
\* moved (the two lists of PlansExcelParser.parse).
THEOREM RowsAreKept == Spec => []RowsKept
<1>1. PlansFileInv => RowsKept
  <2> SUFFICES ASSUME ParserInv, stage = "parsed"
               PROVE  /\ Len(parsed) = Cardinality(DataRows)
                      /\ \A r \in DataRows : parsed[Place(r)] = PlanRowDTO(r)
    BY DEF PlansFileInv, RowsKept
  <2>1. Lined(file, parsed, row) /\ Above(file, row) = Data(file)
    BY EndOfFile DEF ParserInv, Collected
  <2> QED
    BY <2>1, SameOperators DEF Lined
<1> QED
  BY <1>1, PlansFileInvariance, PTL

\* A row parsed fails in the loop as the row of the sheet it stands for.
LEMMA FailsIff ==
  ASSUME PlansFileInv, stage = "parsed"
  PROVE  /\ \A r \in DataRows : /\ Place(r) \in 1 .. Len(parsed)
                                /\ Fails(parsed, Place(r)) <=> ~Insertable(r)
         /\ \A k \in 1 .. Len(parsed) : \E r \in DataRows : Place(r) = k
<1>1. /\ Lined(file, parsed, row) /\ Above(file, row) = Data(file)
      /\ Len(file.rows) \in Nat /\ row = Len(file.rows) + 2
  BY EndOfFile DEF PlansFileInv, ParserInv, Collected
<1>2. DataRows = Data(file)
  BY SameOperators
<1>3. \A k \in 1 .. Len(parsed) : \E r \in DataRows : Place(r) = k
  BY <1>1, <1>2, SameOperators DEF Lined
<1>4. \A r \in DataRows : Place(r) \in 1 .. Len(parsed) /\ parsed[Place(r)] = PlanRowDTO(r)
  <2> TAKE r \in DataRows
  <2>1. r \in Data(file) /\ r < row /\ row \in Int
    BY <1>1, <1>2, DataFinite
  <2>2. Nth(file, r) \in Nat \ {0} /\ Nth(file, r) <= Cardinality(Above(file, row))
    BY <1>1, <2>1, PlacesRise
  <2>3. Cardinality(Above(file, row)) = Len(parsed) /\ Len(parsed) \in Nat
    BY <1>1, DataFinite DEF Lined
  <2> QED
    BY <1>1, <2>1, <2>2, <2>3, SameOperators DEF Lined
<1>5. \A q, r \in DataRows : q < r <=> Place(q) < Place(r)
  BY <1>1, <1>2, PlacesInOrder, SameOperators
<1>6. ASSUME NEW r \in DataRows PROVE Fails(parsed, Place(r)) <=> ~Insertable(r)
  <2>0. \A q : /\ PlanRowDTO(q).period = CellOf(q, "period")
               /\ PlanRowDTO(q).category_name = CellOf(q, "category")
    BY DEF PlanRowDTO
  <2>1. \A q \in DataRows : Key(parsed[Place(q)]) = <<CellOf(q, "period"), CellOf(q, "category")>>
    BY <1>4, <2>0, Zenon DEF Key
  <2>2. parsed[Place(r)].category_name = CellOf(r, "category")
    BY <1>4, <2>0, Zenon
  <2>3. (\E j \in 1 .. (Place(r) - 1) : Key(parsed[j]) = Key(parsed[Place(r)]))
        <=> \E q \in DataRows : q < r /\ Key(parsed[Place(q)]) = Key(parsed[Place(r)])
    <3>1. \A j \in 1 .. (Place(r) - 1) : \E q \in DataRows : q < r /\ Place(q) = j
      <4> TAKE j \in 1 .. (Place(r) - 1)
      <4>1. j \in 1 .. Len(parsed) /\ j < Place(r)
        BY <1>1, <1>4, LenProperties
      <4> QED
        BY <1>3, <1>5, <4>1
    <3>2. \A q \in DataRows : q < r => Place(q) \in 1 .. (Place(r) - 1)
      BY <1>4, <1>5
    <3> QED
      BY <3>1, <3>2
  <2> QED
    BY <2>1, <2>2, <2>3 DEF Fails, Insertable
<1> QED
  BY <1>3, <1>4, <1>6

\* A file goes to the database as a whole and only if each of its rows with
\* data may be stored; else each row at fault is reported and no other (the
\* loop of InsertPlansUseCase.execute).
THEOREM FilesDecidedRowByRow == Spec => []DecidedRowByRow
<1> DEFINE bad == {r \in DataRows : ~Insertable(r)}
           failing == {j \in 1 .. Len(parsed) : Fails(parsed, j)}
<1>1. ASSUME PlansFileInv, stage = "parsed", index > Len(parsed)
      PROVE  /\ bad = {} <=> found = <<>>
             /\ bad = {} => toInsert = parsed
             /\ {found[i].row : i \in DOMAIN found} = {Place(r) + 1 : r \in bad}
  <2>1. /\ parsed \in Seq(DTOs) /\ toInsert \in Seq(DTOs) /\ found \in Seq(Finding)
        /\ Len(parsed) \in Nat /\ Len(found) \in Nat /\ DOMAIN found = 1 .. Len(found)
    BY <1>1, LenProperties DEF PlansFileInv, ParserInv, ParserTypeOK, LoopInv, DTOs
  <2>2. Judged(parsed, Len(parsed), found, toInsert)
    <3>1. index - 1 = Len(parsed)
      BY <1>1, <2>1 DEF PlansFileInv, LoopInv
    <3> QED
      BY <1>1, <3>1 DEF PlansFileInv, LoopInv
  <2>3. \A r \in DataRows : Place(r) \in 1 .. Len(parsed) /\ (Fails(parsed, Place(r)) <=> ~Insertable(r))
    BY <1>1, FailsIff
  <2>4. \A k \in 1 .. Len(parsed) : \E r \in DataRows : Place(r) = k
    BY <1>1, FailsIff
  <2>5. failing = {Place(r) : r \in bad}
    BY <2>3, <2>4, Zenon
  <2>6. {found[i].row : i \in DOMAIN found} = {k + 1 : k \in failing}
    BY <2>2 DEF Judged, Reported
  <2>7. {k + 1 : k \in failing} = {Place(r) + 1 : r \in bad}
    <3> HIDE DEF failing, bad
    <3> QED
      BY <2>5
  <2>8. bad = {} <=> found = <<>>
    <3>1. found = <<>> <=> DOMAIN found = {}
      <4>1. found = <<>> <=> Len(found) = 0
        BY <2>1, EmptySeq
      <4>2. \A n \in Nat : n = 0 <=> 1 .. n = {}
        OBVIOUS
      <4> QED
        BY <2>1, <4>1, <4>2, Zenon
    <3> HIDE DEF failing, bad
    <3> QED
      BY <2>6, <2>7, <3>1
  <2>9. bad = {} => toInsert = parsed
    <3>1. bad = {} => \A k \in 1 .. Len(parsed) : ~Fails(parsed, k)
      BY <2>3, <2>4
    <3>2. bad = {} => /\ Len(toInsert) = Len(parsed)
                      /\ \A k \in 1 .. Len(parsed) : toInsert[k] = parsed[k]
      BY <2>2, <3>1, Zenon DEF Judged
    <3> HIDE DEF bad
    <3> QED
      BY <2>1, <3>2, SeqEqual
  <2> QED
    BY <2>6, <2>7, <2>8, <2>9
<1>2. PlansFileInv => DecidedRowByRow
  BY <1>1 DEF DecidedRowByRow
<1> QED
  BY <1>2, PlansFileInvariance, PTL

\* Row r of a sheet with data stands as many rows below its number in the
\* message as blank rows stand above it.
LEMMA PlaceAndGaps ==
  ASSUME NEW f, Len(f.rows) \in Nat, NEW r \in Data(f)
  PROVE  r = Nth(f, r) + 1 + Cardinality({q \in 2 .. (r - 1) : q \notin Data(f)})
<1> DEFINE gaps == {q \in 2 .. (r - 1) : q \notin Data(f)}
<1>1. /\ Data(f) \subseteq 2 .. (Len(f.rows) + 1) /\ r \in Int /\ r >= 2
      /\ IsFiniteSet(Above(f, r)) /\ Cardinality(Above(f, r)) \in Nat
  BY DataFinite
<1>2. IsFiniteSet(2 .. (r - 1)) /\ Cardinality(2 .. (r - 1)) = r - 2
  BY <1>1, FS_Interval
<1>3. IsFiniteSet(gaps) /\ Cardinality(gaps) \in Nat
  <2>1. gaps \subseteq 2 .. (r - 1)
    OBVIOUS
  <2> QED
    BY <1>2, <2>1, FS_Subset, FS_CardinalityType
<1>4. Above(f, r) \cup gaps = 2 .. (r - 1) /\ Above(f, r) \cap gaps = {}
  BY <1>1 DEF Above
<1>5. Cardinality(Above(f, r) \cup gaps)
         = Cardinality(Above(f, r)) + Cardinality(gaps) - Cardinality(Above(f, r) \cap gaps)
  <2> HIDE DEF gaps
  <2> QED
    BY <1>1, <1>3, FS_Union
<1>6. Cardinality({}) = 0
  BY FS_EmptySet
<1>7. Nth(f, r) = Cardinality(Above(f, r)) + 1
  BY NextRow
<1> HIDE DEF gaps
<1>8. r = Nth(f, r) + 1 + Cardinality(gaps)
  <2>1. r - 2 = Cardinality(Above(f, r)) + Cardinality(gaps) - 0
    BY <1>2, <1>4, <1>5, <1>6, Zenon
  <2> QED
    BY <1>1, <1>3, <1>7, <2>1
<1> QED
  BY <1>8 DEF gaps

\* The row number of an issue is too low by the number of blank rows above it
\* (the use case counts rows parsed, the parser rows of the sheet).
THEOREM LocationsAreShifted == Spec => []LocationsShift
<1>1. ASSUME PlansFileInv, NEW i \in DOMAIN found
      PROVE  \E r \in DataRows :
                /\ ~Insertable(r)
                /\ r = found[i].row + Cardinality({q \in 2 .. (r - 1) : q \notin DataRows})
  <2>1. stage = "parsed"
    BY <1>1, EmptySeq DEF PlansFileInv, LoopInv
  <2>2. /\ found[i].row \in Reported(found) /\ Len(parsed) \in Nat
        /\ index \in 1 .. (Len(parsed) + 1)
        /\ Judged(parsed, index - 1, found, toInsert)
    BY <1>1, LenProperties DEF PlansFileInv, LoopInv, ParserInv, ParserTypeOK, Reported
  <2>3. PICK k \in 1 .. (index - 1) : Fails(parsed, k) /\ found[i].row = k + 1
    BY <2>2 DEF Judged
  <2>4. k \in 1 .. Len(parsed)
    BY <2>2, <2>3
  <2>5. PICK r \in DataRows : Place(r) = k
    BY <1>1, <2>1, <2>4, FailsIff
  <2>6. ~Insertable(r)
    BY <1>1, <2>1, <2>3, <2>5, FailsIff
  <2>7. r \in Data(file) /\ DataRows = Data(file) /\ Nth(file, r) = k
        /\ Len(file.rows) \in Nat
    BY <1>1, <2>5, SameOperators, SheetShape DEF PlansFileInv, ParserInv, ParserTypeOK
  <2>8. r = found[i].row + Cardinality({q \in 2 .. (r - 1) : q \notin DataRows})
    BY <2>3, <2>7, PlaceAndGaps
  <2> QED
    BY <2>6, <2>8
<1>2. PlansFileInv => LocationsShift
  BY <1>1 DEF LocationsShift
<1> QED
  BY <1>2, PlansFileInvariance, PTL
=============================================================================
