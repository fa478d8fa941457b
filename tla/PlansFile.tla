----------------------------- MODULE PlansFile -----------------------------
(***************************************************************************)
(* One file from its first cell to its last plan: PlansExcelParser.parse,  *)
(* then the loop of InsertPlansUseCase.execute over the rows it returns,   *)
(* with nobody else at work.  PlansInsert has the same loop among other    *)
(* uploads and takes rows as parsed already; here they come from cells,    *)
(* and it matters how each stage counts them.                              *)
(***************************************************************************)
EXTENDS PlansExcelParser

CONSTANTS KnownCategories,  \* names in table dictionary
          TakenKeys         \* keys of the plans stored

VARIABLES index,     \* enumerate(rows, start=1) of the loop
          found,     \* ValidationIssues of the loop, in order
          toInsert   \* rows that passed

loopVars == <<index, found, toInsert>>
vars == <<parserVars, loopVars>>

Init ==
    /\ ParserInit
    /\ index = 1
    /\ found = <<>>
    /\ toInsert = <<>>

Parse == ParserNext /\ UNCHANGED loopVars

KeyOf(p) == <<p.period, p.category_name>>

LoopFaultOfNeighbours(k) ==  \* mutant: only the row before is compared
    IF parsed[k].category_name \notin KnownCategories THEN "unknown"
    ELSE IF k > 1 /\ KeyOf(parsed[k - 1]) = KeyOf(parsed[k]) THEN "repeated"
    ELSE IF KeyOf(parsed[k]) \in TakenKeys THEN "exists" ELSE "fine"

LoopFault(k) ==
    IF parsed[k].category_name \notin KnownCategories THEN "unknown"
    ELSE IF \E j \in 1 .. (k - 1) : KeyOf(parsed[j]) = KeyOf(parsed[k]) THEN "repeated"
    ELSE IF KeyOf(parsed[k]) \in TakenKeys THEN "exists" ELSE "fine"

\* The loop reports row index + 1, index being the place among the rows parsed.
ReportIndex ==  \* mutant: the header is not counted
    /\ stage = "parsed" /\ index <= Len(parsed)
    /\ LoopFault(index) # "fine"
    /\ found' = Append(found, [row |-> index, fault |-> LoopFault(index)])
    /\ index' = index + 1
    /\ UNCHANGED <<parserVars, toInsert>>

ReportRow ==
    /\ stage = "parsed" /\ index <= Len(parsed)
    /\ LoopFault(index) # "fine"
    /\ found' = Append(found, [row |-> index + 1, fault |-> LoopFault(index)])
    /\ index' = index + 1
    /\ UNCHANGED <<parserVars, toInsert>>

AcceptRow ==
    /\ stage = "parsed" /\ index <= Len(parsed)
    /\ LoopFault(index) = "fine"
    /\ toInsert' = Append(toInsert, parsed[index])
    /\ index' = index + 1
    /\ UNCHANGED <<parserVars, found>>

Decided == \/ stage \in {"rejected", "crashed"}
           \/ stage = "parsed" /\ index > Len(parsed)

Rest == Decided /\ UNCHANGED vars

Next == Parse \/ ReportRow \/ AcceptRow \/ Rest

Spec == Init /\ [][Next]_vars
-----------------------------------------------------------------------------
(***************************************************************************)
(* Properties.                                                             *)
(***************************************************************************)
\* Every variable keeps to its range.
TypeOK ==
    /\ ParserTypeOK
    /\ index \in 1 .. (Len(parsed) + 1)
    /\ found \in Seq([row : Nat, fault : {"unknown", "repeated", "exists"}])
    /\ \A i \in DOMAIN toInsert : \E k \in DOMAIN parsed : toInsert[i] = parsed[k]

\* The plan a row of the sheet stands for may be stored beside TakenKeys and
\* the rows above it.
Insertable(r) ==
    LET key(q) == <<CellOf(q, "period"), CellOf(q, "category")>>
    IN  /\ CellOf(r, "category") \in KnownCategories
        /\ key(r) \notin TakenKeys
        /\ \A q \in DataRows : q < r => key(q) # key(r)

\* A file goes to the database as a whole and only if each of its rows with
\* data may be stored; else every row at fault is reported, and no other.
DecidedRowByRow ==
    stage = "parsed" /\ index > Len(parsed) =>
       LET bad == {r \in DataRows : ~Insertable(r)}
       IN  /\ bad = {} <=> found = <<>>
           /\ bad = {} => toInsert = parsed
           /\ {found[i].row : i \in DOMAIN found} = {Place(r) + 1 : r \in bad}

\* The row number of an issue is that of the sheet unless blank rows stand
\* above it, and then it is too low by their number.
LocationsShift ==
    \A i \in DOMAIN found : \E r \in DataRows :
       /\ ~Insertable(r)
       /\ r = found[i].row
             + Cardinality({q \in 2 .. (r - 1) : q \notin DataRows})

\* The location of an issue is the row of the sheet to mend, as in the
\* README's example of an error.
LocationsAreSheetRows ==
    \A i \in DOMAIN found :
       found[i].row \in DataRows /\ ~Insertable(found[i].row)
=============================================================================
