-------------------------- MODULE PlansExcelParser --------------------------
(***************************************************************************)
(* PlansExcelParser.parse on one uploaded file.                            *)
(*                                                                         *)
(* A cell is identified with what the three cell parsers make of it: which *)
(* month it is the first day of, which category it names, which sum it is. *)
(* Any cell may stand in any column.                                       *)
(***************************************************************************)
EXTENDS Naturals, Sequences, FiniteSets

CONSTANTS Files,    \* the files clients send
          Months,   \* cells read as the first day of a month
          MidDays,  \* cells read as any other day
          Words,    \* non-blank text that is neither a date nor a number
          Sums      \* cells read as a sum of zero or more

VARIABLES file,    \* the file under way
          stage,   \* how far its parsing has come
          row,     \* excel_row_number of the row read next
          parsed,  \* the PlanRowDTOs made
          issues   \* the ValidationIssues found, in order

parserVars == <<file, stage, row, parsed, issues>>

Required == <<"period", "category", "sum">>

Blank == {"none", "space"}        \* no value; a string of white space
Negative == "negative"            \* a number below zero
NaN == "NaN"                      \* text that Decimal takes and "<" does not

Cell == Months \cup MidDays \cup Words \cup Sums \cup Blank \cup {Negative, NaN}

Column == {"period", "category", "sum", "other"}

\* A worksheet is a header and rows; a row may be narrower than the header.
Sheet == [kind : {"sheet"}, header : Seq(Column), rows : Seq(Seq(Cell))]

\* What cannot be opened, holds no active sheet, or holds no row at all.
Unusable == [kind : {"unreadable", "no_sheet", "no_rows"}, header : {<<>>},
             rows : {<<>>}]

ASSUME ParserAssumption ==
    /\ Files \subseteq Sheet \cup Unusable
    /\ Blank \cap (Months \cup MidDays \cup Sums \cup {Negative}) = {}
    /\ Months \cap MidDays = {} /\ Negative \notin Sums

Stage == {"open", "rows", "parsed", "rejected", "crashed"}

(***************************************************************************)
(* Cells.                                                                  *)
(***************************************************************************)
HasColumn(c) == \E i \in DOMAIN file.header : file.header[i] = c

\* header.index: of columns with one name the first counts.
IndexOf(c) == CHOOSE i \in DOMAIN file.header :
                 /\ file.header[i] = c
                 /\ \A j \in 1 .. (i - 1) : file.header[j] # c

\* The sheet's row r, counted as Excel does: the header is row 1.
RawRow(r) == file.rows[r - 1]

CellOf(r, c) == IF IndexOf(c) \in DOMAIN RawRow(r) THEN RawRow(r)[IndexOf(c)]
                                                   ELSE "none"

HasBlankCell(r) ==  \* mutant: any in place of all
    \E i \in DOMAIN RawRow(r) : RawRow(r)[i] = "none"

IsBlankRow(r) == \A i \in DOMAIN RawRow(r) : RawRow(r)[i] = "none"

PeriodFault(c) == CASE c \in Blank   -> "required"
                    [] c \in Months  -> "fine"
                    [] c \in MidDays -> "not_first"
                    [] OTHER         -> "unparsable"

CategoryFault(c) == IF c \in Blank THEN "required" ELSE "fine"

SumFaultLenient(c) ==  \* mutant: the sign is not looked at
    CASE c \in Blank              -> "required"
      [] c \in Sums \/ c = Negative -> "fine"
      [] OTHER                     -> "unparsable"

SumFault(c) == CASE c \in Blank  -> "required"
                 [] c \in Sums   -> "fine"
                 [] c = Negative -> "negative"
                 [] OTHER        -> "unparsable"

FaultOf(r, c) == CASE c = "period"   -> PeriodFault(CellOf(r, c))
                   [] c = "category" -> CategoryFault(CellOf(r, c))
                   [] c = "sum"      -> SumFault(CellOf(r, c))

\* A cell parser appends the issue of its cell, if it finds one.
CellIssues(r, c) ==
    IF FaultOf(r, c) = "fine" THEN <<>>
    ELSE <<[row |-> r, column |-> c, fault |-> FaultOf(r, c)]>>

RowIssues(r) ==
    CellIssues(r, "period") \o CellIssues(r, "category") \o CellIssues(r, "sum")

PlanRowDTO(r) == [period |-> CellOf(r, "period"),
                  category_name |-> CellOf(r, "category"),
                  sum |-> CellOf(r, "sum")]

-----------------------------------------------------------------------------
ParserInit ==
    /\ file \in Files
    /\ stage = "open"
    /\ row = 2
    /\ parsed = <<>>
    /\ issues = <<>>

\* load_workbook fails, the workbook has no active sheet or no header row.
RejectUnusable ==
    /\ stage = "open"
    /\ file.kind # "sheet"
    /\ stage' = "rejected"
    /\ UNCHANGED <<file, row, parsed, issues>>

MissingColumns ==
    LET missing(c) == IF HasColumn(c) THEN <<>>
                      ELSE <<[row |-> 1, column |-> c, fault |-> "missing"]>>
    IN  missing("period") \o missing("category") \o missing("sum")

RejectHeader ==
    /\ stage = "open"
    /\ file.kind = "sheet"
    /\ MissingColumns # <<>>
    /\ issues' = MissingColumns
    /\ stage' = "rejected"
    /\ UNCHANGED <<file, row, parsed>>

AcceptHeader ==
    /\ stage = "open"
    /\ file.kind = "sheet"
    /\ MissingColumns = <<>>
    /\ stage' = "rows"
    /\ UNCHANGED <<file, row, parsed, issues>>

RowsRemain == row - 1 \in DOMAIN file.rows

\* A row of None cells is passed over, yet counted.
SkipBlankRow ==
    /\ stage = "rows" /\ RowsRemain
    /\ IsBlankRow(row)
    /\ row' = row + 1
    /\ UNCHANGED <<file, stage, parsed, issues>>

ParseRowFirstIssue ==  \* mutant: a row's first issue hides the others
    /\ stage = "rows" /\ RowsRemain
    /\ ~IsBlankRow(row)
    /\ CellOf(row, "sum") # NaN
    /\ issues' = IF RowIssues(row) = <<>> THEN issues
                                       ELSE Append(issues, RowIssues(row)[1])
    /\ parsed' = IF RowIssues(row) = <<>> THEN Append(parsed, PlanRowDTO(row))
                                          ELSE parsed
    /\ row' = row + 1
    /\ UNCHANGED <<file, stage>>

ParseRow ==
    /\ stage = "rows" /\ RowsRemain
    /\ ~IsBlankRow(row)
    /\ CellOf(row, "sum") # NaN
    /\ issues' = issues \o RowIssues(row)
    /\ parsed' = IF RowIssues(row) = <<>> THEN Append(parsed, PlanRowDTO(row))
                                          ELSE parsed
    /\ row' = row + 1
    /\ UNCHANGED <<file, stage>>

\* Decimal("NaN") is made, but comparing it with 0 raises InvalidOperation
\* outside the try: nobody catches it, and the issues found so far are gone.
CrashOnNaN ==
    /\ stage = "rows" /\ RowsRemain
    /\ ~IsBlankRow(row)
    /\ CellOf(row, "sum") = NaN
    /\ issues' = issues \o CellIssues(row, "period") \o CellIssues(row, "category")
    /\ stage' = "crashed"
    /\ UNCHANGED <<file, row, parsed>>

Finish ==
    /\ stage = "rows" /\ ~RowsRemain
    /\ stage' = IF issues # <<>> \/ parsed = <<>> THEN "rejected" ELSE "parsed"
    /\ UNCHANGED <<file, row, parsed, issues>>

ParserNext ==
    \/ RejectUnusable \/ RejectHeader \/ AcceptHeader
    \/ SkipBlankRow \/ ParseRow \/ CrashOnNaN \/ Finish
-----------------------------------------------------------------------------
(***************************************************************************)
(* Properties.                                                             *)
(***************************************************************************)
\* Every variable keeps to its range.
ParserTypeOK ==
    /\ file \in Files
    /\ stage \in Stage
    /\ row \in 2 .. (Len(file.rows) + 2)
    /\ parsed \in Seq([period : Months, category_name : Cell \ Blank,
                      sum : Sums])
    /\ issues \in Seq([row : Nat, column : Column,
                      fault : {"missing", "required", "not_first",
                               "unparsable", "negative"}])

DataRows == {r \in 2 .. (Len(file.rows) + 1) : \E i \in DOMAIN RawRow(r) :
                                                RawRow(r)[i] # "none"}

\* What a column of a plans file may hold.
Valid(c) == CASE c = "period"   -> Months
              [] c = "category" -> Cell \ Blank
              [] c = "sum"      -> Sums

Rank(c) == CHOOSE i \in 1 .. 3 : Required[i] = c

\* A file turned down for its rows comes back with the full list of its bad
\* cells, each one once and in reading order, whatever rows and columns stand
\* in between; a file with no bad cell is turned down only when it is empty.
IssuesExact ==
    stage = "rejected" /\ file.kind = "sheet" /\ MissingColumns = <<>> =>
       /\ {<<issues[i].row, issues[i].column>> : i \in DOMAIN issues}
             = {x \in DataRows \X {"period", "category", "sum"} :
                   CellOf(x[1], x[2]) \notin Valid(x[2])}
       /\ \A i, j \in DOMAIN issues : i < j =>
             \/ issues[i].row < issues[j].row
             \/ /\ issues[i].row = issues[j].row
                /\ Rank(issues[i].column) < Rank(issues[j].column)
       /\ issues = <<>> => DataRows = {}

Place(r) == Cardinality({q \in DataRows : q <= r})

\* A file that parses has lost none of its rows and mixed up none: its n-th
\* row with data is the n-th row the use case sees.
RowsKept ==
    stage = "parsed" =>
       /\ Len(parsed) = Cardinality(DataRows)
       /\ \A r \in DataRows : parsed[Place(r)] = PlanRowDTO(r)

\* All the issues of a file are collected before it is turned down, as the
\* parser's test has it: none is found and then dropped.
AllIssuesCollected == stage = "crashed" => issues = <<>>
=============================================================================
