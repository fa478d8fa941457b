----------------------------- MODULE MCReports -----------------------------
(***************************************************************************)
(* A small instance of Reports: months of two days, years of two months.   *)
(* Days 0 and 1 are the first month of year 0, days 2 and 3 its second,    *)
(* days 4 to 7 year 1.                                                     *)
(***************************************************************************)
EXTENDS Reports

Entry(i, name) == [id |-> i, name |-> name]
Planned(i, period, category, sum) ==
    [id |-> i, period |-> period, category_id |-> category, sum |-> sum]
Credit(i, user, issued, due, closed, body) ==
    [id |-> i, user_id |-> user, issuance_date |-> issued, return_date |-> due,
     closed |-> closed, body |-> body]
Payment(i, credit, type, date, sum) ==
    [id |-> i, credit_id |-> credit, type_id |-> type, payment_date |-> date,
     sum |-> sum]

\* Sums of 1 and 3 over 32 fall half way between two hundredths of a percent.
MCInitial ==
    [users |-> {1, 2},
     dictionary |-> {Entry(1, "body"), Entry(2, "interest"),
                     Entry(3, "issuance"), Entry(4, "collection")},
     plans |-> {Planned(1, 0, 3, 32), Planned(2, 0, 4, 0)},
     credits |-> {Credit(1, 1, 1, 3, FALSE, 3)},
     payments |-> {Payment(1, 1, 1, 2, 1)}]

\* An upload of a plan of the second month.
MCUploaded ==
    [users |-> {}, dictionary |-> {}, credits |-> {}, payments |-> {},
     plans |-> {Planned(3, 2, 4, 32)}]

\* A seeding run: a category no report counts and its plan, a plan that starts
\* in the middle of a month which already has one, a user, and rows
\* on the first and the last day of a month and of the year, two of them
\* credits of one user and one day.
MCSeeded ==
    [users |-> {3},
     dictionary |-> {Entry(5, "bonus")},
     plans |-> {Planned(4, 0, 5, 7), Planned(5, 1, 3, 16)},
     credits |-> {Credit(2, 1, 3, 6, TRUE, 2), Credit(3, 2, 4, 5, FALSE, 8),
                  Credit(4, 1, 3, 4, FALSE, 1)},
     payments |-> {Payment(2, 1, 2, 3, 2), Payment(3, 2, 1, 1, 4),
                   Payment(4, 2, 5, 7, 6)}]

MCBatches == {MCUploaded, MCSeeded}

MCQueries ==
    {[kind |-> "plans", day |-> d] : d \in {0, 1, 2, 7}} \cup
    {[kind |-> "year", year |-> y] : y \in {0, 1}} \cup
    {[kind |-> "user", user |-> 1, day |-> 2], [kind |-> "user", user |-> 1, day |-> 5],
     [kind |-> "user", user |-> 2, day |-> 5], [kind |-> "user", user |-> 3, day |-> 5]}
=============================================================================
