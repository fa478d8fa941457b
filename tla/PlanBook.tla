------------------------------ MODULE PlanBook ------------------------------
(***************************************************************************)
(* What POST /api/v1/plans_insert promises, free of any step the server or *)
(* the database takes on the way.                                          *)
(*                                                                         *)
(* A client hands in one sheet of plan rows.  At one instant the book      *)
(* either takes every row of the sheet or settles that it takes none, and  *)
(* some time later the client is told.  "201" is said of a stored sheet    *)
(* only and "422" of a refused one only; "500", and no answer at all,      *)
(* commit the server to nothing.                                           *)
(***************************************************************************)
EXTENDS Naturals, Sequences

CONSTANTS Upload,            \* the uploads, one per POST received
          Period,            \* first days of months
          Category,          \* names a dictionary row may carry
          Sheets,            \* the sheets the client of each may hand in
          SeededKeys,        \* keys of the plans present at the start
          SeededCategories,  \* categories present at the start
          Seeder             \* who wrote the plans present at the start

VARIABLES plans,       \* the plans taken, with the upload they came from
          dictionary,  \* the category names known
          sheet,       \* the sheet each upload handed in
          verdict,     \* what became of each sheet
          answer       \* what each client was told

bookVars == <<plans, dictionary, sheet, verdict, answer>>

Key == Period \X Category

Owner == Upload \cup {Seeder}

PlanRow == [key : Key, by : Owner]

\* The rows of a sheet, as the book keeps them.
RowsOf(u) == {[key |-> sheet[u][i], by |-> u] : i \in DOMAIN sheet[u]}

\* A sheet the book may take: every category known, no key twice, none taken.
Acceptable(s) ==
    /\ s # <<>>
    /\ \A i \in DOMAIN s : s[i][2] \in dictionary
    /\ \A i, j \in DOMAIN s : s[i] = s[j] => i = j
    /\ \A i \in DOMAIN s : \A p \in plans : p.key # s[i]

BookInit ==
    /\ plans = {[key |-> k, by |-> Seeder] : k \in SeededKeys}
    /\ dictionary = SeededCategories
    /\ sheet = [u \in Upload |-> <<>>]
    /\ verdict = [u \in Upload |-> "none"]
    /\ answer = [u \in Upload |-> "none"]

HandIn(u, s) ==
    /\ verdict[u] = "none"
    /\ sheet' = [sheet EXCEPT ![u] = s]
    /\ verdict' = [verdict EXCEPT ![u] = "pending"]
    /\ UNCHANGED <<plans, dictionary, answer>>

Store(u) ==
    /\ verdict[u] = "pending"
    /\ Acceptable(sheet[u])
    /\ plans' = plans \cup RowsOf(u)
    /\ verdict' = [verdict EXCEPT ![u] = "stored"]
    /\ UNCHANGED <<dictionary, sheet, answer>>

Refuse(u) ==
    /\ verdict[u] = "pending"
    /\ verdict' = [verdict EXCEPT ![u] = "refused"]
    /\ UNCHANGED <<plans, dictionary, sheet, answer>>

\* The client learns the verdict, or only that something went wrong.
Tell(u) ==
    /\ answer[u] = "none"
    /\ \/ verdict[u] = "stored" /\ answer' = [answer EXCEPT ![u] = "201"]
       \/ verdict[u] = "refused" /\ answer' = [answer EXCEPT ![u] = "422"]
       \/ verdict[u] \in {"stored", "refused"}
          /\ answer' = [answer EXCEPT ![u] = "500"]
    /\ UNCHANGED <<plans, dictionary, sheet, verdict>>

\* The server dies: the clients of U hear nothing, pending sheets are void.
Vanish(U) ==
    /\ \A u \in U : verdict[u] # "none" /\ answer[u] = "none"
    /\ verdict' = [u \in Upload |->
                     IF u \in U /\ verdict[u] = "pending" THEN "refused"
                                                          ELSE verdict[u]]
    /\ answer' = [u \in Upload |-> IF u \in U THEN "lost" ELSE answer[u]]
    /\ UNCHANGED <<plans, dictionary, sheet>>

LearnCategory(c) ==
    /\ dictionary' = dictionary \cup {c}
    /\ UNCHANGED <<plans, sheet, verdict, answer>>

BookNext ==
    \/ \E u \in Upload :
          \/ \E s \in Sheets[u] : HandIn(u, s)
          \/ Store(u)
          \/ Refuse(u)
          \/ Tell(u)
    \/ \E U \in SUBSET Upload : Vanish(U)
    \/ \E c \in Category : LearnCategory(c)

BookSpec == BookInit /\ [][BookNext]_bookVars
=============================================================================
