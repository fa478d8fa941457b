------------------------------ MODULE Startup ------------------------------
(***************************************************************************)
(* Start-up of the API: lifespan creates the bootstrap administrator,      *)
(* loads the CSV files if SEED_ON_STARTUP says so, and only then serves.   *)
(* Replicas start side by side, the seeding script may run beside them,    *)
(* replicas that serve already take plans in, and docker restarts what     *)
(* fails.                                                                  *)
(*                                                                         *)
(* A row has a table, an id, possibly a unique key and the rows it refers  *)
(* to.  A transaction reads the view its first SELECT took; rows it has    *)
(* inserted are locked until it ends.  The INSERTs of one table go to the  *)
(* database as one executemany and are one step here.                      *)
(***************************************************************************)
EXTENDS Naturals, FiniteSets

CONSTANTS Server,         \* API replicas, under "restart: unless-stopped"
          Script,         \* runs of scripts.seed_from_csv
          Seeding,        \* the replicas with SEED_ON_STARTUP=true
          CsvRow,         \* rows of the CSV files in the data directory
          Faults,         \* what may be wrong with them: for each row "none",
                          \* "bad id", "bad cell" (no date or number) or
                          \* "no date" (an empty one)
          Stored,         \* rows present at the start
          UploadKeys,     \* keys of the plans clients send in meanwhile
          UploadRefs,     \* the dictionary rows those plans refer to
          NoKey,          \* the key of rows of tables without a unique key
          Login,          \* BOOTSTRAP_ADMIN_LOGIN
          MaxCrashes      \* bound on the crashes of one behaviour

VARIABLES rows,     \* committed rows of all tables
          pc,       \* where each process stands
          job,      \* what its transaction is for: "admin" or "seed"
          pending,  \* rows its session is to insert
          written,  \* rows it has inserted and not committed
          nextId,   \* AUTO_INCREMENT of table plans
          crashes,  \* crashes so far
          fault     \* what is wrong with each row of the CSV files

vars == <<rows, pc, job, pending, written, nextId, crashes, fault>>

Process == Server \cup Script

\* The unit of work sorts its INSERTs by the relationships of the models, and
\* models no relationship orders by class name.
FlushOrder == <<"auth_users", "dictionary", "plans", "users", "credits",
                "payments">>

Tables == {FlushOrder[i] : i \in DOMAIN FlushOrder}

AdminRow(p) == [table |-> "auth_users", id |-> p, key |-> Login, refs |-> {}]

Identity(r) == <<r.table, r.id>>

Identities(S) == {Identity(r) : r \in S}

\* What the primary key and the unique constraints refuse.
ClashesById(r, S) ==  \* mutant: no unique constraint but the primary key
    \E q \in S : q.table = r.table /\ q.id = r.id

Clashes(r, S) == \E q \in S : /\ q.table = r.table
                              /\ q.id = r.id \/ (q.key = r.key /\ r.key # NoKey)

\* No id and no key twice in a table, no reference to a row not there.
Sound(S) ==
    /\ \A q, r \in S :
          q.table = r.table /\ (q.id = r.id \/ (q.key = r.key /\ q.key # NoKey))
             => q = r
    /\ \A r \in S : r.refs \subseteq Identities(S)

Columns == {"table", "id", "key", "refs"}

\* The counter moves past any id given to a plan, and never back.
IdAfter(n, S) ==
    LET used == {n - 1} \cup {r.id : r \in {q \in S : q.table = "plans"}}
    IN  1 + (CHOOSE m \in used : \A i \in used : i <= m)

ASSUME StartupAssumption ==
    /\ Server \cap Script = {}
    /\ Seeding \subseteq Server
    /\ MaxCrashes \in Nat
    /\ Login # NoKey
    /\ IsFiniteSet(CsvRow) /\ IsFiniteSet(Stored)
    /\ \A r \in CsvRow \cup Stored :
          DOMAIN r = Columns /\ r.table \in Tables /\ (r.table = "plans" => r.id \in Nat)
    /\ \A r \in CsvRow : r.table # "auth_users"
    /\ Sound(Stored)
    /\ Faults \subseteq [CsvRow -> {"none", "bad id", "bad cell", "no date"}]

-----------------------------------------------------------------------------
Init ==
    /\ rows = Stored
    /\ pc = [p \in Process |-> IF p \in Server THEN "down" ELSE "idle"]
    /\ job = [p \in Process |-> "none"]
    /\ pending = [p \in Process |-> {}]
    /\ written = [p \in Process |-> {}]
    /\ nextId = IdAfter(1, Stored)
    /\ crashes = 0
    /\ fault \in Faults

Goto(p, from, to) ==
    /\ pc[p] = from
    /\ pc' = [pc EXCEPT ![p] = to]

(***************************************************************************)
(* The administrator.                                                      *)
(***************************************************************************)
Boot(p) ==
    /\ Goto(p, "down", "bootstrap")
    /\ UNCHANGED <<rows, job, pending, written, nextId, crashes, fault>>

AdminExists == \E r \in rows : r.table = "auth_users" /\ r.key = Login

AfterBootstrap(p) == IF p \in Seeding THEN "seed" ELSE "serving"

FindAdmin(p) ==
    /\ AdminExists
    /\ Goto(p, "bootstrap", AfterBootstrap(p))
    /\ UNCHANGED <<rows, job, pending, written, nextId, crashes, fault>>

\* No administrator: the password is hashed in a thread before the INSERT.
MissAdmin(p) ==
    /\ ~AdminExists
    /\ Goto(p, "bootstrap", "hash")
    /\ UNCHANGED <<rows, job, pending, written, nextId, crashes, fault>>

CreateAdmin(p) ==
    /\ Goto(p, "hash", "flush")
    /\ job' = [job EXCEPT ![p] = "admin"]
    /\ pending' = [pending EXCEPT ![p] = {AdminRow(p)}]
    /\ UNCHANGED <<rows, written, nextId, crashes, fault>>

(***************************************************************************)
(* The CSV files.                                                          *)
(***************************************************************************)
StartScript(p) ==
    /\ Goto(p, "idle", "seed")
    /\ UNCHANGED <<rows, job, pending, written, nextId, crashes, fault>>

MissingReread == CsvRow  \* mutant: rows that are loaded are parsed as well

Missing == {r \in CsvRow : Identity(r) \notin Identities(rows)}

\* Every id is parsed, the other cells of missing rows only.
Unreadable ==
    {r \in CsvRow : fault[r] = "bad id"} \cup {r \in Missing : fault[r] = "bad cell"}

\* load_all reads the ids of every table in one view and adds to the session
\* the rows of the files whose id is not among them.
ReadTables(p) ==
    /\ Unreadable = {}
    /\ Goto(p, "seed", "flush")
    /\ job' = [job EXCEPT ![p] = "seed"]
    /\ pending' = [pending EXCEPT ![p] = Missing]
    /\ UNCHANGED <<rows, written, nextId, crashes, fault>>

(***************************************************************************)
(* The flush and the commit of either transaction.                         *)
(***************************************************************************)
\* The rows of the next statement.
Batch(p) ==
    LET unsent(i) == {r \in pending[p] : r.table = FlushOrder[i]}
        first(i) == unsent(i) # {} /\ \A j \in 1 .. (i - 1) : unsent(j) = {}
    IN  UNION {unsent(i) : i \in {j \in DOMAIN FlushOrder : first(j)}}

OthersWritten(p) == UNION {written[q] : q \in Process \ {p}}

\* A row of the batch, or one it refers to, is another's and uncommitted.
Waits(p) ==
    \E r \in Batch(p) :
       \/ Clashes(r, OthersWritten(p))
       \/ \E f \in r.refs : /\ f \notin Identities(rows \cup written[p])
                            /\ f \in Identities(OthersWritten(p))

\* The database refuses what clashes with a stored row or one of the same
\* transaction: files are not searched for ids or keys they repeat.  An empty
\* date becomes NULL; an empty sum is 0 and an empty return
\* date of a credit is allowed.
Refused(p) ==
    \E r \in Batch(p) :
       \/ Clashes(r, rows \cup written[p] \cup (Batch(p) \ {r}))
       \/ r \in CsvRow /\ fault[r] = "no date"
       \/ ~(r.refs \subseteq Identities(rows \cup written[p] \cup Batch(p)
                                             \cup OthersWritten(p)))

InsertCommitting(p) ==  \* mutant: each statement is committed by itself
    /\ pc[p] = "flush" /\ pending[p] # {}
    /\ ~Waits(p) /\ ~Refused(p)
    /\ rows' = rows \cup Batch(p)
    /\ pending' = [pending EXCEPT ![p] = @ \ Batch(p)]
    /\ nextId' = IdAfter(nextId, Batch(p))
    /\ UNCHANGED <<pc, job, written, crashes, fault>>

Insert(p) ==
    /\ pc[p] = "flush" /\ pending[p] # {}
    /\ ~Waits(p) /\ ~Refused(p)
    /\ written' = [written EXCEPT ![p] = @ \cup Batch(p)]
    /\ pending' = [pending EXCEPT ![p] = @ \ Batch(p)]
    /\ nextId' = IdAfter(nextId, Batch(p))
    /\ UNCHANGED <<rows, pc, job, crashes, fault>>

AfterCommit(p) == IF job[p] = "admin" THEN AfterBootstrap(p)
                  ELSE IF p \in Server THEN "serving" ELSE "finished"

Commit(p) ==
    /\ pending[p] = {}
    /\ Goto(p, "flush", AfterCommit(p))
    /\ rows' = rows \cup written[p]
    /\ written' = [written EXCEPT ![p] = {}]
    /\ UNCHANGED <<job, pending, nextId, crashes, fault>>

(***************************************************************************)
(* Failures.  The session is rolled back; a server's process ends with the *)
(* exception and docker starts it again, a script's ends for good.         *)
(***************************************************************************)
AbortKeepingRows(p) ==  \* mutant: the session is left as it is
    /\ pc' = [pc EXCEPT ![p] = IF p \in Server THEN "down" ELSE "failed"]
    /\ UNCHANGED <<rows, job, pending, written, nextId, fault>>

AbortAndGoOn(p) ==  \* mutant: the error is swallowed and the server serves
    /\ pc' = [pc EXCEPT ![p] = IF p \in Server THEN "serving" ELSE "failed"]
    /\ pending' = [pending EXCEPT ![p] = {}]
    /\ written' = [written EXCEPT ![p] = {}]
    /\ UNCHANGED <<rows, job, nextId, fault>>

Abort(p) ==
    /\ pc' = [pc EXCEPT ![p] = IF p \in Server THEN "down" ELSE "failed"]
    /\ pending' = [pending EXCEPT ![p] = {}]
    /\ written' = [written EXCEPT ![p] = {}]
    /\ UNCHANGED <<rows, job, nextId, fault>>

ParseError(p) ==
    /\ pc[p] = "seed"
    /\ Unreadable # {}
    /\ Abort(p)
    /\ UNCHANGED crashes

IntegrityError(p) ==
    /\ pc[p] = "flush"
    /\ Refused(p)
    /\ Abort(p)
    /\ UNCHANGED crashes

\* A waiter times out, or is the victim of a cycle of waits.
LockError(p) ==
    /\ pc[p] = "flush"
    /\ Waits(p)
    /\ Abort(p)
    /\ UNCHANGED crashes

Crash(p) ==
    /\ pc[p] \notin {"down", "idle", "finished", "failed"}
    /\ crashes < MaxCrashes
    /\ crashes' = crashes + 1
    /\ Abort(p)

(***************************************************************************)
(* A client's upload to a replica that serves, as one step: PlansInsert    *)
(* shows that it takes effect at one instant.                              *)
(***************************************************************************)
Upload(k) ==
    /\ \E p \in Server : pc[p] = "serving"
    /\ LET plan == [table |-> "plans", id |-> nextId, key |-> k,
                    refs |-> UploadRefs]
       IN  /\ UploadRefs \subseteq Identities(rows)
           /\ ~Clashes(plan, rows \cup UNION {written[p] : p \in Process})
           /\ rows' = rows \cup {plan}
    /\ nextId' = nextId + 1
    /\ UNCHANGED <<pc, job, pending, written, crashes, fault>>

Rest ==
    /\ \A p \in Process : pc[p] \in {"serving", "finished", "failed"}
    /\ UNCHANGED vars

Step(p) ==
    \/ Boot(p) \/ FindAdmin(p) \/ MissAdmin(p) \/ CreateAdmin(p)
    \/ ReadTables(p) \/ Insert(p) \/ Commit(p)
    \/ ParseError(p) \/ IntegrityError(p)

Next ==
    \/ \E p \in Process : Step(p) \/ LockError(p) \/ Crash(p)
    \/ \E p \in Script : StartScript(p)
    \/ \E k \in UploadKeys : Upload(k)
    \/ Rest

Spec == Init /\ [][Next]_vars

\* Processes run and docker restarts; crashes, time-outs, operators and
\* clients owe nobody a step.
Fairness == \A p \in Process : WF_vars(Step(p))

FairSpec == Spec /\ Fairness
-----------------------------------------------------------------------------
(***************************************************************************)
(* Properties.                                                             *)
(***************************************************************************)
PC == {"down", "bootstrap", "hash", "seed", "flush", "serving", "idle",
       "finished", "failed"}

\* Every variable keeps to its range, and rows are held by an open session
\* only: one in the middle of its transaction.
TypeOK ==
    /\ \A r \in rows : DOMAIN r = Columns /\ r.table \in Tables
    /\ pc \in [Process -> PC]
    /\ job \in [Process -> {"none", "admin", "seed"}]
    /\ {pending, written} \subseteq
          [Process -> SUBSET (CsvRow \cup {AdminRow(p) : p \in Process})]
    /\ \A p \in Process :
          /\ pending[p] \cup written[p] \subseteq CsvRow \cup {AdminRow(p)}
          /\ pc[p] # "flush" => pending[p] \cup written[p] = {}
    /\ nextId \in Nat \ {0}
    /\ crashes \in 0 .. MaxCrashes
    /\ fault \in Faults

\* However many replicas find no administrator and however many seeders find
\* the same rows missing, one of them gets to store each: one administrator,
\* no id and no key twice in a table, no reference to a row not there.
TablesSound == Sound(rows)

\* What only a seeding run can have stored or have still to store: clients send
\* in no plan of that key, and no other row has taken the id.
Seedable == {r \in CsvRow \ Stored : /\ r.key \notin UploadKeys
                                     /\ Identity(r) \notin Identities(rows \ {r})}

\* Of the rows only seeding brings the database shows none or all, at whatever
\* row a seeding run is cut short, and whatever ids uploads take meanwhile.
SeedAllOrNothing == Seedable \cap rows \in {{}, Seedable}

\* A replica that serves has its administrator and, if told to seed, a row
\* for every id of the CSV files: no failure on the way was passed over.
ServingIsReady ==
    \A p \in Server : pc[p] = "serving" =>
       /\ AdminExists
       /\ p \in Seeding => Identities(CsvRow) \subseteq Identities(rows)

\* A missing row that no start will ever store.
Hopeless(r) ==
    /\ fault[r] = "bad id" \/ Identity(r) \notin Identities(rows)
    /\ \/ fault[r] # "none"
       \/ Clashes(r, rows \cup (Missing \ {r}))
       \/ ~(r.refs \subseteq Identities(rows \cup CsvRow))

\* The losers of a start-up race fail, come back and find the work done: in the
\* end a replica serves for good, unless it is told to seed and for good a row
\* of its files is missing that is malformed, refers to nothing, or has the key
\* of an uploaded plan or the id or key of another row missing.  Nothing else,
\* no crash, no race and no row loaded before, keeps it restarting.
ServesUnlessHopeless ==
    \A p \in Server :
       \/ <>[](pc[p] = "serving")
       \/ p \in Seeding /\ <>[](\E r \in CsvRow : Hopeless(r))

\* A replica told to load the CSV files at start-up has loaded them when it
\* serves, as README has it of SEED_ON_STARTUP: also when another replica, of
\* an earlier deployment, took plans in before.
CsvLoaded == \A p \in Seeding : pc[p] = "serving" => CsvRow \subseteq rows
=============================================================================
