------------------------------ MODULE Reports ------------------------------
(***************************************************************************)
(* The three GETs that report: plans_performance, year_performance and     *)
(* user_credits.  Each runs its SELECTs one after the other in the one     *)
(* transaction of its unit of work, and between any two of them uploads    *)
(* and seeding runs commit rows.  Nothing is ever deleted.                 *)
(*                                                                         *)
(* Dates are numbered days of months of equal length, sums are whole, and  *)
(* percentages are counted in hundredths.  A row keeps the columns a       *)
(* report computes with.                                                   *)
(***************************************************************************)
EXTENDS Integers, Sequences, SequencesExt

CONSTANTS Request,       \* the GETs received
          Queries,       \* what they may ask
          Batches,       \* rows other transactions commit, each at once
          Initial,       \* the tables at the start
          DaysInMonth, MonthsInYear

VARIABLES db,          \* committed tables
          pc,          \* where each request stands
          query,       \* what it asks
          view,        \* read view of its transaction
          dictionary,  \* rows it has read: of dictionary,
          plans,       \* of plans, those still to be evaluated,
          credits,     \* of credits, or their statistics
          result,      \* what it has to answer so far
          answer       \* the response

vars == <<db, pc, query, view, dictionary, plans, credits, result, answer>>

Tables == {"users", "dictionary", "plans", "credits", "payments"}

Nothing == [status |-> "none"]

\* Every reference leads somewhere and (period, category) is unique.  A plan
\* may have any day for its period: it is the spreadsheet's parser that asks for
\* the first of a month, not the table or the loader of the CSV files.
SoundTables(t) ==
    /\ \A e, f \in t.dictionary : e.id = f.id \/ e.name = f.name => e = f
    /\ \A p \in t.plans : \E e \in t.dictionary : e.id = p.category_id
    /\ \A p, q \in t.plans : p.period = q.period /\ p.category_id = q.category_id
                                => p = q
    /\ \A c \in t.credits : c.user_id \in t.users
    /\ \A p \in t.payments : /\ \E c \in t.credits : c.id = p.credit_id
                             /\ \E e \in t.dictionary : e.id = p.type_id

\* Tables hold so many rows, with days and sums in their columns.
TypedTables(t) ==
    /\ DOMAIN t = Tables /\ \A x \in Tables : IsFiniteSet(t[x])
    /\ \A p \in t.plans : p.period \in Nat /\ p.sum \in Int
    /\ \A c \in t.credits : /\ c.issuance_date \in Nat /\ c.return_date \in Nat
                            /\ c.body \in Int
    /\ \A p \in t.payments : p.payment_date \in Nat /\ p.sum \in Int

With(t, b) == [x \in Tables |-> t[x] \cup b[x]]

ASSUME ReportsAssumption ==
    /\ DaysInMonth \in Nat \ {0} /\ MonthsInYear \in Nat \ {0}
    /\ \A q \in Queries : \/ q.kind \in {"plans", "user"} /\ q.day \in Nat
                          \/ q.kind = "year" /\ q.year \in Nat
    /\ IsFiniteSet(Batches) /\ \A t \in Batches \cup {Initial} : TypedTables(t)
    /\ SoundTables(Initial)
    /\ \A b, c \in Batches : SoundTables(With(Initial, b))
                             /\ SoundTables(With(With(Initial, b), c))

(***************************************************************************)
(* Dates and figures.                                                      *)
(***************************************************************************)
Year(date) == date \div (DaysInMonth * MonthsInYear)
Month(date) == ((date \div DaysInMonth) % MonthsInYear) + 1
FirstOf(year, month) == (year * MonthsInYear + month - 1) * DaysInMonth

EndOfMonthLate(period) ==  \* mutant: the first day of the next month
    FirstOf(Year(period), Month(period)) + DaysInMonth

EndOfMonth(period) == FirstOf(Year(period), Month(period)) + DaysInMonth - 1

\* quantize rounds halves to the even neighbour.
Quantize(n, d) ==
    LET q == n \div d
        r == n % d
    IN  IF 2 * r > d \/ (2 * r = d /\ q % 2 = 1) THEN q + 1 ELSE q

Percent(n, d) == IF d <= 0 THEN 0 ELSE Quantize(10000 * n, d)

\* What the statistics of a table look at: bodies of credits by the day they
\* were issued, sums of payments by the day they were made.
Issued(t) == {[id |-> c.id, date |-> c.issuance_date, amount |-> c.body] :
                 c \in t.credits}
Paid(t) == {[id |-> p.id, date |-> p.payment_date, amount |-> p.sum] :
               p \in t.payments}

Amounts(S) == MapThenSumSet(LAMBDA x : x.amount, S)
Sums(S) == MapThenSumSet(LAMBDA x : x.sum, S)

SumBetween(S, start, end) == Amounts({x \in S : start <= x.date /\ x.date <= end})

\* SELECT month, COUNT(id), SUM(..) WHERE year = .. GROUP BY month.
MonthlyStats(S, year) ==
    LET ofYear == {x \in S : Year(x.date) = year}
        ofMonth(m) == {x \in ofYear : Month(x.date) = m}
    IN  [m \in {Month(x.date) : x \in ofYear} |->
           [count |-> Cardinality(ofMonth(m)), total |-> Amounts(ofMonth(m))]]

StatOf(stats, m) == IF m \in DOMAIN stats THEN stats[m]
                                          ELSE [count |-> 0, total |-> 0]

YearTotal(stats) == MapThenSumSet(LAMBDA m : stats[m].total, DOMAIN stats)

-----------------------------------------------------------------------------
Init ==
    /\ db = Initial
    /\ pc = [r \in Request |-> "idle"]
    /\ query = [r \in Request |-> Nothing]
    /\ view = [r \in Request |-> Nothing]
    /\ dictionary = [r \in Request |-> {}]
    /\ plans = [r \in Request |-> <<>>]
    /\ credits = [r \in Request |-> <<>>]
    /\ result = [r \in Request |-> [status |-> "200", items |-> <<>>]]
    /\ answer = [r \in Request |-> Nothing]

Goto(r, from, to) ==
    /\ pc[r] = from
    /\ pc' = [pc EXCEPT ![r] = to]

\* The use case returns, or raises.
Return(r, from, response) ==
    /\ Goto(r, from, "respond")
    /\ result' = [result EXCEPT ![r] = response]

Receive(r) ==
    /\ pc[r] = "idle"
    /\ \E q \in Queries : /\ query' = [query EXCEPT ![r] = q]
                          /\ pc' = [pc EXCEPT ![r] = q.kind]
    /\ UNCHANGED <<db, view, dictionary, plans, credits, result, answer>>

\* The first SELECT of a transaction fixes the view all of them read.
OpenView(r) == view' = [view EXCEPT ![r] = db]

VisibleCommitted(r) == db  \* mutant: each statement reads what is committed

Visible(r) == view[r]

(***************************************************************************)
(* plans_performance                                                       *)
(***************************************************************************)
\* ORDER BY period, category_id.
ByPeriod(S) ==
    {s \in SetToSeqs(S) : \A i, j \in DOMAIN s : i < j =>
        \/ s[i].period < s[j].period
        \/ s[i].period = s[j].period /\ s[i].category_id <= s[j].category_id}

ListUpTo(r) ==
    LET due == {p \in db.plans : p.period <= query[r].day}
    IN  /\ Goto(r, "plans", IF due = {} THEN "respond" ELSE "names")
        /\ OpenView(r)
        /\ \E list \in ByPeriod(due) : plans' = [plans EXCEPT ![r] = list]
        /\ UNCHANGED <<db, query, dictionary, credits, result, answer>>

ListNames(r) ==
    /\ Goto(r, "names", "evaluate")
    /\ dictionary' = [dictionary EXCEPT ![r] = Visible(r).dictionary]
    /\ UNCHANGED <<db, query, view, plans, credits, result, answer>>

NamesOf(r, id) == {e.name : e \in {f \in dictionary[r] : f.id = id}}

Plan(r) == Head(plans[r])

PeriodEnd(r) == LET end == EndOfMonth(Plan(r).period)
                IN  IF query[r].day < end THEN query[r].day ELSE end

Evaluated(r, name) ==
    LET rows == IF name = "issuance" THEN Issued(Visible(r)) ELSE Paid(Visible(r))
        actual == SumBetween(rows, Plan(r).period, PeriodEnd(r))
    IN  [period |-> Plan(r).period, category |-> name, plan |-> Plan(r).sum,
         actual |-> actual, percent |-> Percent(actual, Plan(r).sum)]

\* One round of the loop, with the SELECT its category calls for.
EvaluatePlan(r) ==
    /\ plans[r] # <<>>
    /\ LET names == NamesOf(r, Plan(r).category_id)
           more == IF "issuance" \in names THEN <<Evaluated(r, "issuance")>>
                   ELSE IF "collection" \in names THEN <<Evaluated(r, "collection")>>
                   ELSE <<>>
       IN  IF names = {}
             THEN /\ Return(r, "evaluate", [status |-> "400"])
                  /\ UNCHANGED plans
             ELSE /\ Goto(r, "evaluate", IF Len(plans[r]) = 1 THEN "respond"
                                                             ELSE "evaluate")
                  /\ result' = [result EXCEPT ![r] = [status |-> "200",
                                                     items |-> @.items \o more]]
                  /\ plans' = [plans EXCEPT ![r] = Tail(@)]
    /\ UNCHANGED <<db, query, view, dictionary, credits, answer>>

(***************************************************************************)
(* year_performance                                                        *)
(***************************************************************************)
ListDictionary(r) ==
    /\ Goto(r, "year", "year_plans")
    /\ OpenView(r)
    /\ dictionary' = [dictionary EXCEPT ![r] = db.dictionary]
    /\ UNCHANGED <<db, query, plans, credits, result, answer>>

ListForYear(r) ==
    /\ Goto(r, "year_plans", "credit_stats")
    /\ \E list \in ByPeriod({p \in Visible(r).plans :
                              Year(p.period) = query[r].year}) :
          plans' = [plans EXCEPT ![r] = list]
    /\ UNCHANGED <<db, query, view, dictionary, credits, result, answer>>

CreditStats(r) ==
    /\ Goto(r, "credit_stats", "payment_stats")
    /\ credits' = [credits EXCEPT ![r] = MonthlyStats(Issued(Visible(r)),
                                                      query[r].year)]
    /\ UNCHANGED <<db, query, view, dictionary, plans, result, answer>>

PlannedFor(r, name, month) ==
    {p \in Range(plans[r]) : /\ Month(p.period) = month
                             /\ name \in NamesOf(r, p.category_id)}

YearEntry(r, month, name, stats) ==
    LET stat == StatOf(stats, month)
        plan == Sums(PlannedFor(r, name, month))
    IN  [count |-> stat.count, plan |-> plan, actual |-> stat.total,
         percent |-> Percent(stat.total, plan),
         share |-> Percent(stat.total, YearTotal(stats))]

MonthItem(r, m, payments) ==
    [period |-> FirstOf(query[r].year, m),
     issuance |-> YearEntry(r, m, "issuance", credits[r]),
     collection |-> YearEntry(r, m, "collection", payments)]

\* sorted(..)
InOrder(S) ==
    {s \in SetToSeqs(S) : \A i, j \in DOMAIN s : i < j => s[i] <= s[j]}

PaymentStats(r) ==
    LET payments == MonthlyStats(Paid(Visible(r)), query[r].year)
        planned == {m \in 1 .. MonthsInYear : \E n \in {"issuance", "collection"} :
                                                 PlannedFor(r, n, m) # {}}
    IN  /\ Goto(r, "payment_stats", "respond")
        /\ \E months \in InOrder(planned \cup DOMAIN credits[r] \cup DOMAIN payments) :
              result' = [result EXCEPT ![r] = [status |-> "200",
                 items |-> [i \in DOMAIN months |-> MonthItem(r, months[i], payments)]]]
        /\ UNCHANGED <<db, query, view, dictionary, plans, credits, answer>>

(***************************************************************************)
(* user_credits                                                            *)
(***************************************************************************)
UserExists(r) ==
    /\ \/ /\ Goto(r, "user", "user_credits")
          /\ query[r].user \in db.users
          /\ UNCHANGED result
       \/ /\ Return(r, "user", [status |-> "404"])
          /\ query[r].user \notin db.users
    /\ OpenView(r)
    /\ UNCHANGED <<db, query, dictionary, plans, credits, answer>>

\* ORDER BY issuance_date: credits of one day come in any order.
ByDate(S) ==
    {s \in SetToSeqs(S) :
        \A i, j \in DOMAIN s : i < j => s[i].issuance_date <= s[j].issuance_date}

ListByUser(r) ==
    LET own == {c \in Visible(r).credits : c.user_id = query[r].user}
    IN  /\ Goto(r, "user_credits", IF own = {} THEN "respond" ELSE "types")
        /\ \E list \in ByDate(own) : credits' = [credits EXCEPT ![r] = list]
        /\ UNCHANGED <<db, query, view, dictionary, plans, result, answer>>

ListTypes(r) ==
    /\ Goto(r, "types", "payments")
    /\ dictionary' = [dictionary EXCEPT ![r] = Visible(r).dictionary]
    /\ UNCHANGED <<db, query, view, plans, credits, result, answer>>

OverdueRaw(r, c) == query[r].day - c.return_date  \* mutant: max(0, ..) forgotten

Overdue(r, c) == IF query[r].day > c.return_date THEN query[r].day - c.return_date
                                                 ELSE 0

PaymentsOf(r, c) == {p \in Visible(r).payments : p.credit_id = c.id}

ClosedCredit(r, c) ==
    [closed |-> TRUE, issuance_date |-> c.issuance_date, body |-> c.body,
     total |-> Sums(PaymentsOf(r, c))]

\* Payments of a type that is neither are in the total only.
OpenCredit(r, c) ==
    LET ofType(name) == {p \in PaymentsOf(r, c) : name \in NamesOf(r, p.type_id)}
    IN  [closed |-> FALSE, issuance_date |-> c.issuance_date, body |-> c.body,
         overdue |-> Overdue(r, c), body_payments |-> Sums(ofType("body")),
         interest_payments |-> Sums(ofType("interest"))]

ListByCredits(r) ==
    LET item(c) == IF c.closed THEN ClosedCredit(r, c) ELSE OpenCredit(r, c)
    IN  /\ Goto(r, "payments", "respond")
        /\ result' = [result EXCEPT ![r] = [status |-> "200",
              items |-> [i \in DOMAIN credits[r] |-> item(credits[r][i])]]]
        /\ UNCHANGED <<db, query, view, dictionary, plans, credits, answer>>

(***************************************************************************)
(* Around them.                                                            *)
(***************************************************************************)
\* Any SELECT may lose its connection.
ConnectionLost(r) ==
    /\ pc[r] \notin {"idle", "respond", "done"}
    /\ Return(r, pc[r], [status |-> "500"])
    /\ UNCHANGED <<db, query, view, dictionary, plans, credits, answer>>

\* The session is closed and the client told.
Respond(r) ==
    /\ Goto(r, "respond", "done")
    /\ answer' = [answer EXCEPT ![r] = result[r]]
    /\ UNCHANGED <<db, query, view, dictionary, plans, credits, result>>

\* An upload or a seeding run commits: all of its rows at one instant.
Record(b) ==
    /\ \E x \in Tables : ~(b[x] \subseteq db[x])
    /\ db' = With(db, b)
    /\ UNCHANGED <<pc, query, view, dictionary, plans, credits, result, answer>>

Rest ==
    /\ \A r \in Request : pc[r] = "done"
    /\ UNCHANGED vars

Step(r) ==
    \/ ListUpTo(r) \/ ListNames(r) \/ EvaluatePlan(r)
    \/ ListDictionary(r) \/ ListForYear(r) \/ CreditStats(r) \/ PaymentStats(r)
    \/ UserExists(r) \/ ListByUser(r) \/ ListTypes(r) \/ ListByCredits(r)
    \/ ConnectionLost(r) \/ Respond(r)

Next ==
    \/ \E r \in Request : Receive(r) \/ Step(r)
    \/ \E b \in Batches : Record(b)
    \/ Rest

Spec == Init /\ [][Next]_vars
-----------------------------------------------------------------------------
(***************************************************************************)
(* Properties.                                                             *)
(***************************************************************************)
\* Every variable keeps to its range; overdue days and sums are no less than
\* nothing.
TypeOK ==
    /\ \A r \in Request :
          /\ query[r] \in Queries \cup {Nothing}
          /\ answer[r].status \in {"none", "200", "400", "404", "500"}
          /\ pc[r] = "done" <=> answer[r] # Nothing
          /\ (answer[r].status = "200" /\ query[r].kind = "user")
                => \A i \in DOMAIN answer[r].items :
                      LET item == answer[r].items[i]
                      IN  ~item.closed => item.overdue \in Nat
    /\ SoundTables(db)

Answered(r, kind) == answer[r].status = "200" /\ query[r].kind = kind

\* The plans of a category in a month of the tables t start on one day.
OneStart(t, period, name) ==
    \A o \in t.plans, e \in t.dictionary :
       /\ o.category_id = e.id /\ e.name = name
       /\ Year(o.period) = Year(period) /\ Month(o.period) = Month(period)
       => o.period = period

\* Two reports of one moment do not contradict each other.  Whatever
\* plans_performance has of a plan, year_performance has its month, and no less
\* done in it, unless amounts are below zero; as much exactly, if the plan starts
\* with the month and the month is over.  The plan itself is the same, and the
\* percentage with it, unless the category has a plan of another day of that
\* month, which the year adds to it.
ReportsAgree ==
    \A r, s \in Request :
       Answered(r, "plans") /\ Answered(s, "year") /\ view[r] = view[s] =>
          \A i \in DOMAIN answer[r].items :
             LET p == answer[r].items[i]
                 first == FirstOf(Year(p.period), Month(p.period))
                 whole == p.period = first /\ query[r].day >= EndOfMonth(p.period)
                 alone == OneStart(view[r], p.period, p.category)
             IN  Year(p.period) = query[s].year =>
                 \E j \in DOMAIN answer[s].items :
                    LET m == answer[s].items[j]
                        y == m[p.category]
                    IN  /\ m.period = first
                        /\ (\A x \in Issued(view[r]) \cup Paid(view[r]) : x.amount >= 0)
                              => y.actual >= p.actual
                        /\ whole => y.actual = p.actual
                        /\ alone => y.plan = p.plan
                        /\ whole /\ alone => y.percent = p.percent

Desk == INSTANCE ReportDesk WITH seen <- view

\* Every report is exact and of one moment, whatever is committed between its
\* statements: it is what the tables said at some instant between request and
\* answer, or it failed and says so.
KeepsTheDesk == Desk!DeskSpec
=============================================================================
