----------------------------- MODULE MCStartup -----------------------------
(***************************************************************************)
(* Small instances of Startup.                                             *)
(***************************************************************************)
EXTENDS Startup

Row(t, i, k, refs) == [table |-> t, id |-> i, key |-> k, refs |-> refs]

Dictionary(i) == <<"dictionary", i>>

\* The first release of the data directory: one plan of one category.
MCStored == {Row("dictionary", 1, "issuance", {}),
             Row("plans", 1, "march", {Dictionary(1)})}

\* The next one adds a category, two plans, and a user who pays a credit.
MCCsvRow == MCStored \cup
    {Row("dictionary", 2, "collection", {}),
     Row("plans", 2, "april", {Dictionary(2)}),
     Row("plans", 3, "may", {Dictionary(1)}),
     Row("users", 1, "devotedclinic", {}),
     Row("credits", 1, NoKey, {<<"users", 1>>}),
     Row("payments", 1, NoKey, {<<"credits", 1>>, Dictionary(1)})}

NoFault == [r \in MCCsvRow |-> "none"]

\* A row that was loaded before has been spoilt since.
SpoiltLater == [NoFault EXCEPT
                  ![Row("plans", 1, "march", {Dictionary(1)})] = "bad cell"]

\* A plan that cannot be parsed, until an upload has taken its id.
BadPlan == [NoFault EXCEPT
              ![Row("plans", 2, "april", {Dictionary(2)})] = "bad cell"]

\* A user without a date.
Undated == [NoFault EXCEPT ![Row("users", 1, "devotedclinic", {})] = "no date"]

MCFaults == {SpoiltLater, BadPlan, Undated}
NoFaults == {NoFault}

MCUploadRefs == {Dictionary(1)}
\* One key of the files, and one that takes the id of a row of theirs.
MCUploadKeys == {"april", "june"}
=============================================================================
