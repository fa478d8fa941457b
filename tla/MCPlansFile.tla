---------------------------- MODULE MCPlansFile ----------------------------
(***************************************************************************)
(* Small files for PlansFile.                                              *)
(***************************************************************************)
EXTENDS PlansFile

MCMonths == {"jan", "feb"}
MCMidDays == {"mid_jan"}
MCWords == {"issuance", "bonus"}
MCSums == {"100"}

MCKnownCategories == {"issuance", "jan"}
MCTakenKeys == {<<"feb", "issuance">>}

\* Rows for the header period, category, sum: fit ones, one of a key taken,
\* one of an unknown category, one narrower than the header, blank ones, and
\* cells that are missing, of another column's kind, or out of range.
Rows == {<<"jan", "issuance", "100">>, <<"feb", "issuance", "100">>,
         <<"jan", "bonus", "100">>, <<"feb", "jan", "100">>,
         <<"jan", "issuance">>, <<>>, <<"none", "none", "none">>,
         <<"space", "none", "none">>, <<"mid_jan", "space", "negative">>,
         <<"100", "issuance", "feb">>, <<"feb", "none", "100">>,
         <<"jan", "issuance", "negative">>, <<"jan", "bonus", "NaN">>}

UpTo(n) == UNION {[1 .. m -> Rows] : m \in 0 .. n}

SheetOf(h, rs) == [kind |-> "sheet", header |-> h, rows |-> rs]

Headers == {<<"category", "other", "period", "sum">>,
            <<"period", "category", "sum", "period">>,
            <<"other", "sum">>, <<>>}

MCFiles ==
    {SheetOf(Required, rs) : rs \in UpTo(3)}
       \cup {SheetOf(h, rs) : h \in Headers, rs \in UpTo(1)}
       \cup Unusable
=============================================================================
