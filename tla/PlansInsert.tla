---------------------------- MODULE PlansInsert ----------------------------
(***************************************************************************)
(* POST /api/v1/plans_insert, many at once.                                *)
(*                                                                         *)
(* Each upload runs InsertPlansUseCase.execute inside the unit of work     *)
(* that get_uow opens: parse the sheet, read the dictionary, look every    *)
(* row up, flush the rows one INSERT at a time, commit, close the session, *)
(* answer.  Every await is a point where the other uploads run, so every   *)
(* round trip to the database is an action of its own.                     *)
(*                                                                         *)
(* The database is the MySQL 8 of docker-compose.yml at its default        *)
(* isolation: a transaction reads the view taken by its first read, an     *)
(* INSERT is checked against committed rows and waits for the locks of     *)
(* uncommitted ones, and a cycle of waits costs one transaction its life.  *)
(*                                                                         *)
(* A row is identified with its (period, category) key; its sum is data no *)
(* property tells apart.  dictionary.id and dictionary.name are both       *)
(* unique, so a category id and its name are one value here.               *)
(***************************************************************************)
EXTENDS Naturals, Sequences, FiniteSets

CONSTANTS Upload,            \* the uploads, one per POST received
          Period,            \* first days of months
          Category,          \* names a dictionary row may carry
          Sheets,            \* what the client of each may send; <<>> is a file
                             \* that the endpoint or the parser turns down
          SeededKeys,        \* keys of the plans present at the start
          SeededCategories,  \* categories present at the start
          Seeder             \* who wrote the plans present at the start

VARIABLES plans,       \* committed rows of table plans (by: auxiliary)
          dictionary,  \* committed names of table dictionary
          pc,          \* where each upload stands
          sheet,       \* rows the upload's file holds
          view,        \* read view of the upload's transaction
          next,        \* row the loop, then the flush, has come to
          toInsert,    \* rows that passed every check
          issues,      \* ValidationIssues found so far
          written,     \* keys inserted, not committed, hence locked
          outcome      \* how the use case ended

database == <<plans, dictionary>>
vars == <<plans, dictionary, pc, sheet, view, next, toInsert, issues,
          written, outcome>>

Key == Period \X Category

Owner == Upload \cup {Seeder}

PlanRow == [key : Key, by : Owner]

ASSUME PlansInsertAssumption ==
    /\ Seeder \notin Upload
    /\ \A u \in Upload : Sheets[u] \subseteq Seq(Key)
    /\ SeededCategories \subseteq Category
    /\ SeededKeys \subseteq Period \X SeededCategories

(***************************************************************************)
(* Tables, views and locks.                                                *)
(***************************************************************************)
StoredKeys == {p.key : p \in plans}

StoredBy(u) == {p \in plans : p.by = u}

RowsOf(u) == {[key |-> k, by |-> u] : k \in written[u]}

\* The row whose INSERT is the upload's next statement.
Current(u) == toInsert[u][next[u]]

Holders(k) == {v \in Upload : k \in written[v]}

\* Waiters for a row nobody holds any more share a lock on the gap it left.
Sharers(k) == {v \in Upload : pc[v] = "blocked" /\ Current(v) = k}

Blockers(u) ==
    (IF Holders(Current(u)) # {} THEN Holders(Current(u))
                                 ELSE Sharers(Current(u))) \ {u}

\* The uploads u waits for; none unless an INSERT of u is waiting.
WaitsFor(u) == IF pc[u] = "blocked" THEN Blockers(u) ELSE {}

\* u is on a cycle of waits: whatever set is closed under waiting and holds
\* the uploads u waits for holds u too.
OnCycle(u) ==
    /\ pc[u] = "blocked"
    /\ \A S \in SUBSET Upload :
          (WaitsFor(u) \subseteq S /\ \A v \in S : WaitsFor(v) \subseteq S)
             => u \in S

(***************************************************************************)
(* Answers.                                                                *)
(***************************************************************************)
Outcome == {"none", "created", "invalid", "unreadable", "duplicate",
            "out_of_range", "deadlock", "timeout", "disconnect"}

\* InvalidPlansFileError is a ValidationError; what the driver raises is no
\* DomainError and falls to the handler of last resort.
Status(o) == CASE o = "created" -> "201"
               [] o = "invalid" -> "422"
               [] OTHER         -> "500"

Answer(u) == CASE pc[u] = "done" -> Status(outcome[u])
               [] pc[u] = "lost" -> "lost"
               [] OTHER          -> "none"

PC == {"idle", "parse", "begin", "check", "flush", "blocked", "commit",
       "raise", "respond", "done", "lost"}

InFlight(u) == pc[u] \notin {"idle", "done", "lost"}

-----------------------------------------------------------------------------
Init ==
    /\ plans = {[key |-> k, by |-> Seeder] : k \in SeededKeys}
    /\ dictionary = SeededCategories
    /\ pc = [u \in Upload |-> "idle"]
    /\ sheet = [u \in Upload |-> <<>>]
    /\ view = [u \in Upload |-> [keys |-> {}, names |-> {}]]
    /\ next = [u \in Upload |-> 1]
    /\ toInsert = [u \in Upload |-> <<>>]
    /\ issues = [u \in Upload |-> {}]
    /\ written = [u \in Upload |-> {}]
    /\ outcome = [u \in Upload |-> "none"]

Goto(u, from, to) ==
    /\ pc[u] \in from
    /\ pc' = [pc EXCEPT ![u] = to]

\* An exception leaves the use case with outcome o.
Raise(u, from, o) ==
    /\ Goto(u, from, "raise")
    /\ outcome' = [outcome EXCEPT ![u] = o]

(***************************************************************************)
(* Request and parse.                                                      *)
(***************************************************************************)
Receive(u) ==
    /\ Goto(u, {"idle"}, "parse")
    /\ \E s \in Sheets[u] : sheet' = [sheet EXCEPT ![u] = s]
    /\ UNCHANGED <<database, view, next, toInsert, issues, written, outcome>>

\* An empty or oversized body, or a sheet the parser rejects.
RejectFile(u) ==
    /\ sheet[u] = <<>>
    /\ Raise(u, {"parse"}, "invalid")
    /\ UNCHANGED <<database, sheet, view, next, toInsert, issues, written>>

\* A cell the parser does not survive, such as a sum of NaN.
ParserFails(u) ==
    /\ sheet[u] = <<>>
    /\ Raise(u, {"parse"}, "unreadable")
    /\ UNCHANGED <<database, sheet, view, next, toInsert, issues, written>>

Parse(u) ==
    /\ sheet[u] # <<>>
    /\ Goto(u, {"parse"}, "begin")
    /\ UNCHANGED <<database, sheet, view, next, toInsert, issues, written,
                   outcome>>

(***************************************************************************)
(* Checks.                                                                 *)
(***************************************************************************)
\* dictionary.list_all is the session's first statement: it takes a
\* connection, opens the transaction and fixes what later reads see.
ReadUncommitted(u) ==  \* mutant: dirty reads
    /\ Goto(u, {"begin"}, "check")
    /\ view' = [view EXCEPT ![u] =
                   [keys |-> StoredKeys \cup UNION {written[v] : v \in Upload},
                    names |-> dictionary]]
    /\ UNCHANGED <<database, sheet, next, toInsert, issues, written, outcome>>

ReadDictionary(u) ==
    /\ Goto(u, {"begin"}, "check")
    /\ view' = [view EXCEPT ![u] = [keys |-> StoredKeys, names |-> dictionary]]
    /\ UNCHANGED <<database, sheet, next, toInsert, issues, written, outcome>>

Row(u) == sheet[u][next[u]]

\* Rows of an unknown category leave the loop before they count as seen, but
\* a row of the same key is then of the same unknown category.
Seen(u) == {sheet[u][i] : i \in 1 .. (next[u] - 1)}

RowFaultUnseen(u) ==  \* mutant: seen_keys is never consulted
    IF Row(u)[2] \notin view[u].names THEN "unknown"
    ELSE IF Row(u) \in view[u].keys THEN "exists" ELSE "none"

\* The first check that a row fails counts.
RowFault(u) ==
    IF Row(u)[2] \notin view[u].names THEN "unknown"
    ELSE IF Row(u) \in Seen(u) THEN "repeated"
    ELSE IF Row(u) \in view[u].keys THEN "exists" ELSE "none"

RowsLeft(u) == next[u] <= Len(sheet[u])

ReportRow(u) ==
    /\ pc[u] = "check" /\ RowsLeft(u)
    /\ RowFault(u) # "none"
    /\ issues' = [issues EXCEPT ![u] =
                     @ \cup {[row |-> next[u] + 1, fault |-> RowFault(u)]}]
    /\ next' = [next EXCEPT ![u] = @ + 1]
    /\ UNCHANGED <<database, pc, sheet, view, toInsert, written, outcome>>

AcceptRow(u) ==
    /\ pc[u] = "check" /\ RowsLeft(u)
    /\ RowFault(u) = "none"
    /\ toInsert' = [toInsert EXCEPT ![u] = Append(@, Row(u))]
    /\ next' = [next EXCEPT ![u] = @ + 1]
    /\ UNCHANGED <<database, pc, sheet, view, issues, written, outcome>>

RejectRows(u) ==
    /\ ~RowsLeft(u)
    /\ issues[u] # {}
    /\ Raise(u, {"check"}, "invalid")
    /\ UNCHANGED <<database, sheet, view, next, toInsert, issues, written>>

SkipFlush(u) ==  \* mutant: the rows never reach the session
    /\ ~RowsLeft(u)
    /\ issues[u] = {}
    /\ Goto(u, {"check"}, "commit")
    /\ UNCHANGED <<database, sheet, view, next, toInsert, issues, written,
                   outcome>>

FlushFromZero(u) ==  \* mutant: rows are counted from 1, then from 0
    /\ ~RowsLeft(u)
    /\ issues[u] = {}
    /\ Goto(u, {"check"}, "flush")
    /\ next' = [next EXCEPT ![u] = 0]
    /\ UNCHANGED <<database, sheet, view, toInsert, issues, written, outcome>>

BeginFlush(u) ==
    /\ ~RowsLeft(u)
    /\ issues[u] = {}
    /\ Goto(u, {"check"}, "flush")
    /\ next' = [next EXCEPT ![u] = 1]
    /\ UNCHANGED <<database, sheet, view, toInsert, issues, written, outcome>>

(***************************************************************************)
(* Flush: one INSERT per row, in the order of the sheet.                   *)
(***************************************************************************)
TakenInFlush(u) == Current(u) \in written[u]  \* mutant: no constraint

\* uq_plans_period_category refuses the row.
Taken(u) == Current(u) \in StoredKeys \cup written[u]

InsertCommitting(u) ==  \* mutant: every row is committed by itself
    /\ pc[u] \in {"flush", "blocked"}
    /\ ~Taken(u)
    /\ Blockers(u) = {}
    /\ plans' = plans \cup {[key |-> Current(u), by |-> u]}
    /\ next' = [next EXCEPT ![u] = @ + 1]
    /\ pc' = [pc EXCEPT ![u] = IF next[u] = Len(toInsert[u]) THEN "commit"
                                                            ELSE "flush"]
    /\ UNCHANGED <<dictionary, sheet, view, toInsert, issues, written, outcome>>

Insert(u) ==
    /\ pc[u] \in {"flush", "blocked"}
    /\ ~Taken(u)
    /\ Blockers(u) = {}
    /\ written' = [written EXCEPT ![u] = @ \cup {Current(u)}]
    /\ next' = [next EXCEPT ![u] = @ + 1]
    /\ pc' = [pc EXCEPT ![u] = IF next[u] = Len(toInsert[u]) THEN "commit"
                                                            ELSE "flush"]
    /\ UNCHANGED <<database, sheet, view, toInsert, issues, outcome>>

WaitForLock(u) ==
    /\ Goto(u, {"flush"}, "blocked")
    /\ ~Taken(u)
    /\ Blockers(u) # {}
    /\ UNCHANGED <<database, sheet, view, next, toInsert, issues, written,
                   outcome>>

\* IntegrityError: the statement fails, the locks stay until the rollback.
DuplicateKey(u) ==
    /\ Raise(u, {"flush", "blocked"}, "duplicate")
    /\ Taken(u)
    /\ UNCHANGED <<database, sheet, view, next, toInsert, issues, written>>

\* The engine breaks a cycle of waits by rolling back one of its members.
DeadlockVictim(u) ==
    /\ OnCycle(u)
    /\ Raise(u, {"blocked"}, "deadlock")
    /\ written' = [written EXCEPT ![u] = {}]
    /\ UNCHANGED <<database, sheet, view, next, toInsert, issues>>

\* The parser bounds no sum from above, column plans.sum does.
SumOutOfRange(u) ==
    /\ Raise(u, {"flush"}, "out_of_range")
    /\ UNCHANGED <<database, sheet, view, next, toInsert, issues, written>>

LockWaitTimeout(u) ==
    /\ Raise(u, {"blocked"}, "timeout")
    /\ UNCHANGED <<database, sheet, view, next, toInsert, issues, written>>

(***************************************************************************)
(* The end of the unit of work.                                            *)
(***************************************************************************)
Commit(u) ==
    /\ Goto(u, {"commit"}, "respond")
    /\ plans' = plans \cup RowsOf(u)
    /\ written' = [written EXCEPT ![u] = {}]
    /\ outcome' = [outcome EXCEPT ![u] = "created"]
    /\ UNCHANGED <<dictionary, sheet, view, next, toInsert, issues>>

ExitWithoutRollback(u) ==  \* mutant: the transaction stays open
    /\ Goto(u, {"raise"}, "respond")
    /\ UNCHANGED <<database, sheet, view, next, toInsert, issues, written,
                   outcome>>

CommitOnError(u) ==  \* mutant: __aexit__ commits what was flushed
    /\ Goto(u, {"raise"}, "respond")
    /\ plans' = plans \cup RowsOf(u)
    /\ written' = [written EXCEPT ![u] = {}]
    /\ UNCHANGED <<dictionary, sheet, view, next, toInsert, issues, outcome>>

\* __aexit__ with an exception: roll back, close, pass the exception on.
Rollback(u) ==
    /\ Goto(u, {"raise"}, "respond")
    /\ written' = [written EXCEPT ![u] = {}]
    /\ UNCHANGED <<database, sheet, view, next, toInsert, issues, outcome>>

\* The session is closed before the response is sent.
Respond(u) ==
    /\ Goto(u, {"respond"}, "done")
    /\ UNCHANGED <<database, sheet, view, next, toInsert, issues, written,
                   outcome>>

(***************************************************************************)
(* Failures.                                                               *)
(***************************************************************************)
\* A row of an unknown category, or seen before, is settled in memory.
UsesDatabase(u) ==
    \/ pc[u] \in {"begin", "flush", "blocked", "commit"}
    \/ pc[u] = "check" /\ RowsLeft(u) /\ RowFault(u) \in {"exists", "none"}

\* The statement fails with its connection; the server drops the transaction.
ConnectionLost(u) ==
    /\ UsesDatabase(u)
    /\ Raise(u, PC, "disconnect")
    /\ written' = [written EXCEPT ![u] = {}]
    /\ UNCHANGED <<database, sheet, view, next, toInsert, issues>>

\* COMMIT is carried out but the connection is gone before it says so.
CommitUnacknowledged(u) ==
    /\ Raise(u, {"commit"}, "disconnect")
    /\ plans' = plans \cup RowsOf(u)
    /\ written' = [written EXCEPT ![u] = {}]
    /\ UNCHANGED <<dictionary, sheet, view, next, toInsert, issues>>

CrashKeepingLocks ==  \* mutant: the database notices no death
    /\ \E u \in Upload : InFlight(u)
    /\ pc' = [u \in Upload |-> IF InFlight(u) THEN "lost" ELSE pc[u]]
    /\ UNCHANGED <<database, sheet, view, next, toInsert, issues, written,
                   outcome>>

\* The API process dies and docker restarts it: every request in flight goes
\* unanswered and the database drops their transactions.
Crash ==
    /\ \E u \in Upload : InFlight(u)
    /\ pc' = [u \in Upload |-> IF InFlight(u) THEN "lost" ELSE pc[u]]
    /\ written' = [u \in Upload |-> {}]
    /\ UNCHANGED <<database, sheet, view, next, toInsert, issues, outcome>>

\* A seeding run from a data directory whose only new rows are dictionary
\* names commits one of them.
SeedCategory(c) ==
    /\ c \notin dictionary
    /\ dictionary' = dictionary \cup {c}
    /\ UNCHANGED <<plans, pc, sheet, view, next, toInsert, issues, written,
                   outcome>>

\* Nothing is left to do once every upload has its answer or lost it.
Rest ==
    /\ \A u \in Upload : pc[u] \in {"done", "lost"}
    /\ UNCHANGED vars

ServerStep(u) ==
    \/ RejectFile(u) \/ ParserFails(u) \/ Parse(u) \/ ReadDictionary(u)
    \/ ReportRow(u) \/ AcceptRow(u) \/ RejectRows(u) \/ BeginFlush(u)
    \/ Insert(u) \/ WaitForLock(u) \/ DuplicateKey(u)
    \/ Commit(u) \/ Rollback(u) \/ Respond(u)

Failure(u) ==
    \/ SumOutOfRange(u) \/ DeadlockVictim(u) \/ LockWaitTimeout(u)
    \/ ConnectionLost(u) \/ CommitUnacknowledged(u)

Next ==
    \/ \E u \in Upload : Receive(u) \/ ServerStep(u) \/ Failure(u)
    \/ Crash
    \/ \E c \in Category : SeedCategory(c)
    \/ Rest

Spec == Init /\ [][Next]_vars

\* The event loop and the database serve every request and the engine looks
\* for cycles; clients, time-outs and failures owe nobody a step.
Fairness ==
    /\ \A u \in Upload : WF_vars(ServerStep(u))
    /\ WF_vars(\E u \in Upload : DeadlockVictim(u))

FairSpec == Spec /\ Fairness
-----------------------------------------------------------------------------
(***************************************************************************)
(* Properties.                                                             *)
(***************************************************************************)
Fault == {"unknown", "repeated", "exists"}

\* Every variable keeps to its range.
TypeOK ==
    /\ plans \subseteq PlanRow
    /\ dictionary \subseteq Category
    /\ pc \in [Upload -> PC]
    /\ sheet \in [Upload -> Seq(Key)]
    /\ view \in [Upload -> [keys : SUBSET Key, names : SUBSET Category]]
    /\ next \in [Upload -> Nat \ {0}]
    /\ toInsert \in [Upload -> Seq(Key)]
    /\ issues \in [Upload -> SUBSET [row : Nat, fault : Fault]]
    /\ written \in [Upload -> SUBSET Key]
    /\ outcome \in [Upload -> Outcome]

SheetKeys(u) == {sheet[u][i] : i \in DOMAIN sheet[u]}

KeysStoredBy(u) == {p.key : p \in StoredBy(u)}

\* Two plans never share a period and a category, whichever uploads looked
\* the key up before either had written it.
UniquePeriodCategory == \A p, q \in plans : p.key = q.key => p = q

\* A sheet is stored whole or not at all, wherever a duplicate, a deadlock, a
\* lost connection or a crash cuts the flush short.
AllOrNothing == \A u \in Upload : KeysStoredBy(u) \in {{}, SheetKeys(u)}

\* A client told 201 has every row of its sheet stored, each one once; a
\* client told 422 has none, and may send the corrected sheet.
AnswerTruth ==
    \A u \in Upload :
       /\ Answer(u) = "201" => /\ KeysStoredBy(u) = SheetKeys(u)
                               /\ sheet[u] # <<>>
                               /\ Cardinality(StoredBy(u)) = Len(sheet[u])
       /\ Answer(u) = "422" => StoredBy(u) = {}

\* What is reported of the first n rows is so, and they have no other fault.
Settled(u, n) ==
    \A i \in 1 .. n :
       /\ [row |-> i + 1, fault |-> "exists"] \in issues[u]
             => sheet[u][i] \in StoredKeys
       /\ [row |-> i + 1, fault |-> "repeated"] \in issues[u]
             => \E j \in 1 .. (i - 1) : sheet[u][j] = sheet[u][i]
       /\ (\A x \in issues[u] : x.row # i + 1)
             => /\ sheet[u][i] \notin view[u].keys
                /\ sheet[u][i][2] \in dictionary
                /\ \A j \in 1 .. (i - 1) : sheet[u][j] # sheet[u][i]

Refusal(u) ==
    outcome[u] = "invalid" /\ sheet[u] # <<>> =>
       issues[u] # {} /\ Settled(u, Len(sheet[u]))

\* A 422 is deserved and tells the whole story: a row reported as existing
\* is stored (nobody's uncommitted row counts), one reported as repeated has
\* an earlier twin, and a row left unreported was fit to be stored when the
\* sheet was read.
RefusalJustified == \A u \in Upload : Refusal(u)

LostRace(u) ==
    outcome[u] = "duplicate" =>
       \E p \in plans : /\ p.by \notin {u, Seeder}
                        /\ p.key \in SheetKeys(u) \ view[u].keys

\* The unique constraint fails an upload only where the checks could not
\* have warned it: another upload took one of its rows after its view.
LostRaceJustified == \A u \in Upload : LostRace(u)

\* Once received, an upload is answered or its process dies: no lock is left
\* behind that others would wait for without end, and no cycle of waits stays.
UploadAnswered ==
    \A u \in Upload : pc[u] = "parse" ~> pc[u] \in {"done", "lost"}

\* A row that is stored already costs the sheet a 422, as the test of
\* the endpoint has it, whether the look-up or the constraint finds it out.
DuplicateIsClientError ==
    \A u \in Upload :
       pc[u] = "done" /\ outcome[u] = "duplicate" => Answer(u) = "422"

(***************************************************************************)
(* The inductive invariant behind them.                                    *)
(***************************************************************************)
\* The first n rows of the sheet are to be inserted, and fit to be.
Accepted(u, n) ==
    /\ Len(toInsert[u]) = n
    /\ \A i \in 1 .. n :
          /\ toInsert[u][i] = sheet[u][i]
          /\ sheet[u][i] \notin view[u].keys
          /\ sheet[u][i][2] \in view[u].names
          /\ \A j \in 1 .. (i - 1) : sheet[u][j] # sheet[u][i]

LoopInv(u) ==
    /\ pc[u] \in {"idle", "parse", "begin"}
          => next[u] = 1 /\ toInsert[u] = <<>> /\ issues[u] = {}
    /\ pc[u] = "check" => /\ next[u] \in 1 .. (Len(sheet[u]) + 1)
                          /\ \A x \in issues[u] : x.row <= next[u]
                          /\ Settled(u, next[u] - 1)
                          /\ issues[u] = {} => Accepted(u, next[u] - 1)

FlushInv(u) ==
    /\ pc[u] \in {"begin", "check", "flush", "blocked", "commit"}
          => sheet[u] # <<>>
    /\ pc[u] \in {"flush", "blocked", "commit"}
          => /\ Accepted(u, Len(sheet[u]))
             /\ written[u] = {sheet[u][i] : i \in 1 .. (next[u] - 1)}
    /\ pc[u] \in {"flush", "blocked"} => next[u] <= Len(sheet[u])
    /\ pc[u] = "commit" => next[u] = Len(sheet[u]) + 1

OutcomeInv(u) ==
    /\ pc[u] \in {"idle", "parse", "begin", "check", "flush", "blocked",
                  "commit"} => outcome[u] = "none"
    /\ pc[u] = "raise" => outcome[u] \notin {"none", "created"}
    /\ pc[u] \in {"respond", "done"} => outcome[u] # "none"
    /\ outcome[u] = "created" => StoredBy(u) # {}

StoredInv(u) ==
    StoredBy(u) # {} =>
       /\ pc[u] \in {"raise", "respond", "done", "lost"}
       /\ outcome[u] \in {"created", "disconnect"}
       /\ sheet[u] # <<>>
       /\ StoredBy(u) = {[key |-> sheet[u][i], by |-> u] :
                             i \in DOMAIN sheet[u]}
       /\ \A i, j \in DOMAIN sheet[u] : sheet[u][i] = sheet[u][j] => i = j

ViewInv(u) ==
    /\ view[u].keys \subseteq StoredKeys
    /\ view[u].names \subseteq dictionary
    /\ pc[u] \in {"check", "flush", "blocked", "commit"}
          => SeededKeys \subseteq view[u].keys

LockInv ==
    /\ \A u \in Upload :
          /\ written[u] # {} => pc[u] \in {"flush", "blocked", "commit",
                                           "raise"}
          /\ written[u] \cap StoredKeys = {}
    /\ \A u, v \in Upload : u # v => written[u] \cap written[v] = {}

SeedInv ==
    /\ SeededKeys \subseteq StoredKeys
    /\ \A p \in plans : p.by = Seeder => p.key \in SeededKeys

UploadInv(u) == /\ LoopInv(u)
                /\ FlushInv(u)
                /\ OutcomeInv(u)
                /\ StoredInv(u)
                /\ ViewInv(u)
                /\ Refusal(u)
                /\ LostRace(u)

\* Rows are exclusively locked from their INSERT to the end of their
\* transaction, a flush holds what it has passed of a sheet checked from end
\* to end, and only a commit stores.
IInv ==
    /\ TypeOK
    /\ \A u \in Upload : UploadInv(u)
    /\ LockInv
    /\ SeedInv
    /\ UniquePeriodCategory

(***************************************************************************)
(* The promise kept.  A sheet is decided when its rows are committed or the *)
(* use case fails, and not at the moment the client hears of it.           *)
(***************************************************************************)
Verdict(u) == CASE StoredBy(u) # {}                         -> "stored"
                [] StoredBy(u) = {} /\ pc[u] = "idle"       -> "none"
                [] StoredBy(u) = {} /\ (outcome[u] # "none" \/ pc[u] = "lost")
                                                            -> "refused"
                [] OTHER                                    -> "pending"

Book == INSTANCE PlanBook WITH
            verdict <- [u \in Upload |-> Verdict(u)],
            answer  <- [u \in Upload |-> Answer(u)]

\* Seen from its clients, the server keeps the plan book of PlanBook.
KeepsTheBook == Book!BookSpec
=============================================================================
