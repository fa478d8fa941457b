----------------------------- MODULE ReportDesk -----------------------------
(***************************************************************************)
(* What the three reports promise: somebody asks, at one instant the       *)
(* tables are looked at, and the report of the tables as they were then,   *)
(* or word of a failure, is the answer.                                    *)
(*                                                                         *)
(* Days are numbered; months have DaysInMonth of them and years            *)
(* MonthsInYear months.  Percentages are counted in hundredths.            *)
(***************************************************************************)
EXTENDS Naturals, Sequences, SequencesExt

CONSTANTS Request,       \* the reports asked for
          Queries,       \* what may be asked
          Batches,       \* what other transactions commit
          Initial,       \* the tables at the start
          DaysInMonth,
          MonthsInYear

VARIABLES db,      \* the committed tables
          query,   \* what each request asks
          seen,    \* the tables as they were when it looked
          answer   \* what was answered

deskVars == <<db, query, seen, answer>>

Nothing == [status |-> "none"]
Failed == [status |-> "500"]

(***************************************************************************)
(* The reports, as a reader of the tables would define them.               *)
(***************************************************************************)
MonthOf(day) == day \div DaysInMonth
YearOf(day) == MonthOf(day) \div MonthsInYear
DaysOf(month) == {day \in (month * DaysInMonth) .. ((month + 1) * DaysInMonth) :
                     MonthOf(day) = month}

\* The number nearest to n / d; of two as near, the even one.
Nearest(n, d) ==
    LET off(x) == IF x * d < n THEN n - x * d ELSE x * d - n
        near == {n \div d, n \div d + 1}
    IN  CHOOSE x \in near : \A y \in near \ {x} :
           off(x) < off(y) \/ (off(x) = off(y) /\ x % 2 = 0)

PerCent(n, d) == IF d = 0 THEN 0 ELSE Nearest(10000 * n, d)

\* What was lent ("issuance") or paid back ("collection"), day by day.
Flow(name, t) ==
    IF name = "issuance"
      THEN {[id |-> c.id, day |-> c.issuance_date, sum |-> c.body] : c \in t.credits}
      ELSE {[id |-> p.id, day |-> p.payment_date, sum |-> p.sum] : p \in t.payments}

Over(days, flow) == {f \in flow : f.day \in days}

Amount(flow) == MapThenSumSet(LAMBDA f : f.sum, flow)

NameOf(id, t) == (CHOOSE e \in t.dictionary : e.id = id).name

PlansPerformance(day, t) ==
    LET evaluated == {p \in t.plans : /\ p.period <= day
                                      /\ NameOf(p.category_id, t)
                                            \in {"issuance", "collection"}}
        inOrder == SetToSortSeq(evaluated,
                      LAMBDA p, q : \/ p.period < q.period
                                    \/ /\ p.period = q.period
                                       /\ p.category_id < q.category_id)
        \* a plan's time is what its month has left on the day it starts
        actual(p) == Amount(Over({d \in DaysOf(MonthOf(p.period)) :
                                     p.period <= d /\ d <= day},
                                 Flow(NameOf(p.category_id, t), t)))
    IN  [i \in DOMAIN inOrder |->
           LET p == inOrder[i]
           IN  [period |-> p.period, category |-> NameOf(p.category_id, t),
                plan |-> p.sum, actual |-> actual(p),
                percent |-> PerCent(actual(p), p.sum)]]

YearPerformance(year, t) ==
    LET months == (year * MonthsInYear) .. ((year + 1) * MonthsInYear - 1)
        planned(m, name) == {p \in t.plans : /\ MonthOf(p.period) = m
                                             /\ NameOf(p.category_id, t) = name}
        moved(m, name) == Over(DaysOf(m), Flow(name, t))
        ofYear(name) == Amount({f \in Flow(name, t) : YearOf(f.day) = year})
        \* months with something to say of either category
        told == {m \in months : \E n \in {"issuance", "collection"} :
                                   planned(m, n) # {} \/ moved(m, n) # {}}
        inOrder == SetToSortSeq(told, <)
        entry(m, name) ==
            LET plan == Amount(planned(m, name))
                actual == Amount(moved(m, name))
            IN  [count |-> Cardinality(moved(m, name)), plan |-> plan,
                 actual |-> actual, percent |-> PerCent(actual, plan),
                 share |-> PerCent(actual, ofYear(name))]
    IN  [i \in DOMAIN inOrder |->
           [period |-> inOrder[i] * DaysInMonth,
            issuance |-> entry(inOrder[i], "issuance"),
            collection |-> entry(inOrder[i], "collection")]]

\* Credits of one day may stand in any order.
UserCredits(user, today, t) ==
    LET orders == {o \in SetToSeqs({c \in t.credits : c.user_id = user}) :
                      \A i, j \in DOMAIN o :
                         o[i].issuance_date < o[j].issuance_date => i < j}
        paid(c, types) == Amount({p \in t.payments :
                             /\ p.credit_id = c.id
                             /\ NameOf(p.type_id, t) \in types})
        all == {e.name : e \in t.dictionary}
        entry(c) ==
           IF c.closed
             THEN [closed |-> TRUE, issuance_date |-> c.issuance_date,
                   body |-> c.body, total |-> paid(c, all)]
             ELSE [closed |-> FALSE, issuance_date |-> c.issuance_date,
                   body |-> c.body,
                   overdue |-> IF today > c.return_date
                                 THEN today - c.return_date ELSE 0,
                   body_payments |-> paid(c, {"body"}),
                   interest_payments |-> paid(c, {"interest"})]
    IN  {[i \in DOMAIN o |-> entry(o[i])] : o \in orders}

\* The reports a question may be answered with.
Reports(q, t) ==
    LET told(S) == {[status |-> "200", items |-> items] : items \in S}
    IN  CASE q.kind = "plans" -> told({PlansPerformance(q.day, t)})
          [] q.kind = "year"  -> told({YearPerformance(q.year, t)})
          [] q.kind = "user" /\ q.user \in t.users
                              -> told(UserCredits(q.user, q.day, t))
          [] OTHER            -> {[status |-> "404"]}

-----------------------------------------------------------------------------
DeskInit ==
    /\ db = Initial
    /\ query = [r \in Request |-> Nothing]
    /\ seen = [r \in Request |-> Nothing]
    /\ answer = [r \in Request |-> Nothing]

Ask(r, q) ==
    /\ query[r] = Nothing
    /\ query' = [query EXCEPT ![r] = q]
    /\ UNCHANGED <<db, seen, answer>>

Look(r) ==
    /\ query[r] # Nothing
    /\ seen[r] = Nothing
    /\ seen' = [seen EXCEPT ![r] = db]
    /\ UNCHANGED <<db, query, answer>>

Tell(r) ==
    /\ query[r] # Nothing
    /\ answer[r] = Nothing
    /\ answer'[r] # Nothing
    /\ answer' = [answer EXCEPT ![r] = answer'[r]]
    /\ \/ answer'[r] = Failed
       \/ seen[r] # Nothing /\ answer'[r] \in Reports(query[r], seen[r])
    /\ UNCHANGED <<db, query, seen>>

Record(b) ==
    /\ db' = [t \in DOMAIN db |-> db[t] \cup b[t]]
    /\ UNCHANGED <<query, seen, answer>>

DeskNext ==
    \/ \E r \in Request : (\E q \in Queries : Ask(r, q)) \/ Look(r) \/ Tell(r)
    \/ \E b \in Batches : Record(b)

DeskSpec == DeskInit /\ [][DeskNext]_deskVars
=============================================================================
