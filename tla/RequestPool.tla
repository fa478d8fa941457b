----------------------------- MODULE RequestPool -----------------------------
(***************************************************************************)
(* The life of the requests of one replica: the body, the credential, the  *)
(* session, the validation of the parameters, the work in a thread, the    *)
(* connection from the pool, the statements, the close and the answer.     *)
(*                                                                         *)
(* Requests share two bounded resources: the connections of the engine's   *)
(* pool (pool_size + max_overflow) and the threads of asyncio.to_thread.   *)
(* A session takes a connection with its first statement; a token request  *)
(* keeps it while its password waits for a thread.  The database may go    *)
(* away and come back; connections of an earlier epoch are dead.           *)
(*                                                                         *)
(* All uploads carry a plan of one and the same month and category.        *)
(***************************************************************************)
EXTENDS ErrorMapping, FiniteSets

CONSTANTS Request,
          Scenarios,     \* what the requests may ask together, each one a
                         \* record [route, credential, input]
          PoolSize,      \* database_pool_size
          MaxOverflow,   \* database_max_overflow
          Threads,       \* workers of the default executor
          MaxOutages,    \* bound on the outages of one behaviour
          None

VARIABLES pc,        \* where each request stands
          ask,       \* what it asks
          job,       \* its work for a thread: "none", "queued" or "running"
          conn,      \* epoch of the connection it holds, or None
          idle,      \* epochs of the pool's idle connections, in order
          open,      \* connections the pool counts as taken into use
          writer,    \* the request that has inserted and not committed
          stored,    \* the request whose plan is stored
          up,        \* the database answers
          epoch,     \* starts of the database
          result,    \* how the endpoint ended: "Success" or an exception
          answer,    \* the status sent
          calm       \* the database has been up since the request came in

pool == <<idle, open>>
db == <<writer, stored, up, epoch>>
vars == <<pc, ask, job, conn, pool, db, result, answer, calm>>

Cap == PoolSize + MaxOverflow

Routes == {"token", "report", "upload"}
Credentials == {"good", "bad", "missing"}
Inputs == {"valid", "malformed", "invalid", "bad file", "NaN", "big sum",
           "unknown user", "NUL password"}

\* A token request always brings a login and a password (without them it is
\* invalid); only these and uploads have a body, files come with uploads and
\* users with reports.  A file may have NaN for a sum, or one too big for the
\* column.  A password with a NUL in it is nobody's.
Asking == {a \in [route : Routes, credential : Credentials, input : Inputs] :
              /\ a.route = "token" => a.credential # "missing"
              /\ a.input = "malformed" => a.route # "report"
              /\ a.input \in {"bad file", "NaN", "big sum"} => a.route = "upload"
              /\ a.input = "unknown user" => a.route = "report"
              /\ a.input = "NUL password" => a.route = "token" /\ a.credential = "bad"}

ASSUME RequestPoolAssumption ==
    /\ PoolSize \in Nat \ {0} /\ MaxOverflow \in Nat
    /\ Threads \in Nat \ {0} /\ MaxOutages \in Nat
    /\ Scenarios \subseteq [Request -> Asking]
    /\ None \notin Nat \cup Request

Protected(r) == ask[r].route # "token"

Init ==
    /\ pc = [r \in Request |-> "idle"]
    /\ ask \in Scenarios
    /\ job = [r \in Request |-> "none"]
    /\ conn = [r \in Request |-> None]
    /\ idle = <<>> /\ open = 0
    /\ writer = None /\ stored = None
    /\ up = TRUE /\ epoch = 0
    /\ result = [r \in Request |-> "none"]
    /\ answer = [r \in Request |-> 0]
    /\ calm = [r \in Request |-> FALSE]

Goto(r, from, to) ==
    /\ pc[r] \in from
    /\ pc' = [pc EXCEPT ![r] = to]

\* The endpoint, or what runs before it, ends.
Ends(r, from, e) ==
    /\ Goto(r, from, "leave")
    /\ result' = [result EXCEPT ![r] = e]

(***************************************************************************)
(* Before the endpoint.  FastAPI reads the body first: a form or a text it *)
(* cannot make out is refused there and then.  require_principal is a      *)
(* dependency of the router and is resolved next, before the session and   *)
(* the parameters of the endpoint.                                         *)
(***************************************************************************)
Malformed(r) ==
    /\ ask[r].input = "malformed"
    /\ Ends(r, {"idle"}, "HTTPException")

ReceiveUnchecked(r) ==  \* mutant: the router forgets require_principal
    /\ \/ Malformed(r)
       \/ /\ ask[r].input # "malformed" /\ Goto(r, {"idle"}, "enter")
          /\ UNCHANGED result
    /\ calm' = [calm EXCEPT ![r] = up]
    /\ UNCHANGED <<ask, job, conn, pool, db, answer>>

Receive(r) ==
    /\ \/ Malformed(r)
       \/ /\ ask[r].input # "malformed"
          /\ Goto(r, {"idle"}, IF Protected(r) THEN "auth" ELSE "enter")
          /\ UNCHANGED result
    /\ calm' = [calm EXCEPT ![r] = up]
    /\ UNCHANGED <<ask, job, conn, pool, db, answer>>

Submit(r, from, to) ==
    /\ Goto(r, from, to)
    /\ job' = [job EXCEPT ![r] = "queued"]

Authenticate(r) ==
    /\ \/ /\ ask[r].credential = "missing"
          /\ Ends(r, {"auth"}, "InvalidCredentialsError")
          /\ UNCHANGED job
       \/ /\ ask[r].credential # "missing"
          /\ Submit(r, {"auth"}, "decode")
          /\ UNCHANGED result
    /\ UNCHANGED <<ask, conn, pool, db, answer, calm>>

\* The parameters; an upload then goes to the parser, the others begin with
\* a SELECT.
Enter(r) ==
    /\ \/ /\ ask[r].input = "invalid"
          /\ Ends(r, {"enter"}, "RequestValidationError")
          /\ UNCHANGED job
       \/ /\ ask[r].input # "invalid" /\ ask[r].route = "upload"
          /\ Submit(r, {"enter"}, "parse")
          /\ UNCHANGED result
       \/ /\ ask[r].input # "invalid" /\ ask[r].route # "upload"
          /\ Goto(r, {"enter"}, "checkout")
          /\ UNCHANGED <<job, result>>
    /\ UNCHANGED <<ask, conn, pool, db, answer, calm>>

(***************************************************************************)
(* The executor: decoding a token, parsing a sheet, verifying a password.  *)
(***************************************************************************)
StartJob(r) ==
    /\ job[r] = "queued"
    /\ Cardinality({q \in Request : job[q] = "running"}) < Threads
    /\ job' = [job EXCEPT ![r] = "running"]
    /\ UNCHANGED <<pc, ask, conn, pool, db, result, answer, calm>>

FinishJob(r) ==
    /\ job[r] = "running"
    /\ job' = [job EXCEPT ![r] = "none"]
    /\ \/ /\ pc[r] \in {"decode", "verify"} /\ ask[r].credential = "bad"
          /\ Ends(r, {"decode", "verify"}, "InvalidCredentialsError")
       \/ /\ ask[r].input = "NUL password"  \* of a login there is
          /\ Ends(r, {"verify"}, "PasswordValueError")
       \/ /\ ask[r].credential = "good" /\ Goto(r, {"decode"}, "enter")
          /\ UNCHANGED result
       \/ /\ ask[r].credential = "good" /\ Ends(r, {"verify"}, "Success")
       \/ /\ ask[r].input = "bad file"
          /\ Ends(r, {"parse"}, "InvalidPlansFileError")
       \/ /\ ask[r].input = "NaN"  \* Decimal("NaN") < 0 is no question to ask
          /\ Ends(r, {"parse"}, "InvalidOperation")
       \/ /\ ask[r].input \notin {"bad file", "NaN"} /\ Goto(r, {"parse"}, "checkout")
          /\ UNCHANGED result
    /\ UNCHANGED <<ask, conn, pool, db, answer, calm>>

(***************************************************************************)
(* The pool (SQLAlchemy's AsyncAdaptedQueuePool): an idle connection if    *)
(* there is one, a new one up to the cap, else wait.  A request that comes *)
(* in may take what a waiter was woken for.                                *)
(***************************************************************************)
Unpinged(e) == e  \* mutant: no pool_pre_ping

\* pool_pre_ping: a connection found dead is replaced on its way out.
Pinged(e) == epoch

TakeIdle(r) ==
    /\ Goto(r, {"checkout", "waiting"}, "query")
    /\ idle # <<>> /\ up
    /\ conn' = [conn EXCEPT ![r] = Pinged(Head(idle))]
    /\ idle' = Tail(idle)
    /\ UNCHANGED <<ask, job, open, db, result, answer, calm>>

\* The ping and the reconnect fail, and the entry goes back to the pool.
Unreachable(r) ==
    /\ Ends(r, {"checkout", "waiting"}, "OperationalError")
    /\ idle # <<>> /\ ~up
    /\ idle' = Append(Tail(idle), Head(idle))
    /\ UNCHANGED <<ask, job, conn, open, db, answer, calm>>

BeginCreateUncapped(r) ==  \* mutant: max_overflow is not looked at
    /\ Goto(r, {"checkout"}, "connecting")
    /\ idle = <<>>
    /\ open' = open + 1
    /\ UNCHANGED <<ask, job, conn, idle, db, result, answer, calm>>

BeginCreate(r) ==
    /\ Goto(r, {"checkout"}, "connecting")
    /\ idle = <<>> /\ open < Cap
    /\ open' = open + 1
    /\ UNCHANGED <<ask, job, conn, idle, db, result, answer, calm>>

Created(r) ==
    /\ Goto(r, {"connecting"}, "query")
    /\ up
    /\ conn' = [conn EXCEPT ![r] = epoch]
    /\ UNCHANGED <<ask, job, pool, db, result, answer, calm>>

CreateFailsRetried(r) ==  \* mutant: a connect that fails is tried again
    /\ Goto(r, {"connecting"}, "checkout")
    /\ ~up
    /\ open' = open - 1
    /\ UNCHANGED <<ask, job, conn, idle, db, result, answer, calm>>

\* Nobody who waits is told that there is room again.
CreateFails(r) ==
    /\ Ends(r, {"connecting"}, "OperationalError")
    /\ ~up
    /\ open' = open - 1
    /\ UNCHANGED <<ask, job, conn, idle, db, answer, calm>>

WaitForConnection(r) ==
    /\ Goto(r, {"checkout"}, "waiting")
    /\ idle = <<>> /\ open = Cap
    /\ UNCHANGED <<ask, job, conn, pool, db, result, answer, calm>>

\* pool_timeout has passed: a last look at the cap, then give up.
PoolTimeout(r) ==
    /\ pc[r] = "waiting" /\ idle = <<>>
    /\ \/ /\ open = Cap /\ Ends(r, {"waiting"}, "TimeoutError")
          /\ UNCHANGED open
       \/ /\ open < Cap /\ Goto(r, {"waiting"}, "connecting")
          /\ open' = open + 1
          /\ UNCHANGED result
    /\ UNCHANGED <<ask, job, conn, idle, db, answer, calm>>

ReleaseUncounted(r) ==  \* mutant: overflow is closed and still counted
    /\ conn' = [conn EXCEPT ![r] = None]
    /\ idle' = IF Len(idle) < PoolSize THEN Append(idle, conn[r]) ELSE idle
    /\ UNCHANGED open

\* Back to the pool, or closed when the pool has its size already.
Release(r) ==
    /\ conn' = [conn EXCEPT ![r] = None]
    /\ \/ /\ Len(idle) < PoolSize
          /\ idle' = Append(idle, conn[r]) /\ UNCHANGED open
       \/ /\ Len(idle) >= PoolSize
          /\ open' = open - 1 /\ UNCHANGED idle

(***************************************************************************)
(* The statements.                                                         *)
(***************************************************************************)
Alive(r) == up /\ conn[r] = epoch

\* The SELECTs.  A password, or none for an unknown login, goes to a thread
\* with the connection still held; an upload whose plan is there is refused.
Query(r) ==
    /\ Alive(r)
    /\ \/ /\ ask[r].route = "token" /\ Submit(r, {"query"}, "verify")
          /\ UNCHANGED result
       \/ /\ ask[r].route = "report" /\ UNCHANGED job
          /\ Ends(r, {"query"}, IF ask[r].input = "unknown user"
                                  THEN "UserNotFoundError" ELSE "Success")
       \/ /\ ask[r].route = "upload" /\ stored # None /\ UNCHANGED job
          /\ Ends(r, {"query"}, "InvalidPlansFileError")
       \/ /\ ask[r].route = "upload" /\ stored = None
          /\ Goto(r, {"query"}, "insert") /\ UNCHANGED <<job, result>>
    /\ UNCHANGED <<ask, conn, pool, db, answer, calm>>

\* The parser bounds no sum from above, column plans.sum does: such a row is
\* refused before any index is looked at.  Infinity is to MySQL no number but the
\* name of a column it does not know, an OperationalError.
SumOutOfRange(r) ==
    /\ \E e \in {"DataError", "OperationalError"} : Ends(r, {"insert"}, e)
    /\ Alive(r) /\ ask[r].input = "big sum"
    /\ UNCHANGED <<ask, job, conn, pool, db, answer, calm>>

Indexes(r) == Alive(r) /\ ask[r].input # "big sum"

Insert(r) ==
    /\ Goto(r, {"insert"}, "commit")
    /\ Indexes(r) /\ writer = None /\ stored = None
    /\ writer' = r
    /\ UNCHANGED <<ask, job, conn, pool, stored, up, epoch, result, answer, calm>>

Duplicate(r) ==
    /\ Ends(r, {"insert"}, "IntegrityError")
    /\ Indexes(r) /\ stored # None
    /\ UNCHANGED <<ask, job, conn, pool, db, answer, calm>>

\* innodb_lock_wait_timeout
LockTimeout(r) ==
    /\ Ends(r, {"insert"}, "OperationalError")
    /\ Indexes(r) /\ writer # None
    /\ UNCHANGED <<ask, job, conn, pool, db, answer, calm>>

\* A commit gives the connection back before the session is closed.
Commit(r) ==
    /\ Ends(r, {"commit"}, "Success")
    /\ Alive(r)
    /\ stored' = r /\ writer' = None
    /\ Release(r)
    /\ UNCHANGED <<ask, job, up, epoch, answer, calm>>

\* A statement on a connection the database has closed.
Broken(r) ==
    /\ Ends(r, {"query", "insert", "commit"}, "OperationalError")
    /\ ~Alive(r)
    /\ UNCHANGED <<ask, job, conn, pool, db, answer, calm>>

(***************************************************************************)
(* The end.  The unit of work is left, with a rollback after an exception, *)
(* before the answer is sent.                                              *)
(***************************************************************************)
\* To roll back on a connection the database has closed is an error of its own,
\* which takes the place of what the endpoint had to say.  A failed flush has
\* rolled back already, and a lost connection is known to be.
LeftWith(r) ==
    IF \/ conn[r] = None \/ Alive(r)
       \/ result[r] \in {"IntegrityError", "DataError", "OperationalError"}
      THEN result[r]
      ELSE "OperationalError"

LeaveOnSuccess(r) ==  \* mutant: the session is not closed after an exception
    /\ Goto(r, {"leave"}, "respond")
    /\ writer' = IF writer = r THEN None ELSE writer
    /\ result' = [result EXCEPT ![r] = LeftWith(r)]
    /\ IF conn[r] # None /\ result[r] = "Success" THEN Release(r)
       ELSE UNCHANGED <<conn, pool>>
    /\ UNCHANGED <<ask, job, stored, up, epoch, answer, calm>>

Leave(r) ==
    /\ Goto(r, {"leave"}, "respond")
    /\ writer' = IF writer = r THEN None ELSE writer
    /\ result' = [result EXCEPT ![r] = LeftWith(r)]
    /\ \/ conn[r] # None /\ Release(r)
       \/ conn[r] = None /\ UNCHANGED <<conn, pool>>
    /\ UNCHANGED <<ask, job, stored, up, epoch, answer, calm>>

SuccessStatus(r) == IF ask[r].route = "upload" THEN 201 ELSE 200

Respond(r) ==
    /\ Goto(r, {"respond"}, "done")
    /\ answer' = [answer EXCEPT ![r] = IF result[r] = "Success"
                    THEN SuccessStatus(r) ELSE StatusOf(result[r])]
    /\ UNCHANGED <<ask, job, conn, pool, db, result, calm>>

(***************************************************************************)
(* The database goes away, with every open transaction, and comes back.    *)
(***************************************************************************)
DbStops ==
    /\ up /\ epoch < MaxOutages
    /\ up' = FALSE
    /\ writer' = None
    /\ calm' = [r \in Request |-> FALSE]
    /\ UNCHANGED <<pc, ask, job, conn, pool, stored, epoch, result, answer>>

DbStarts ==
    /\ ~up
    /\ up' = TRUE /\ epoch' = epoch + 1
    /\ UNCHANGED <<pc, ask, job, conn, pool, writer, stored, result, answer, calm>>

Rest ==
    /\ \A r \in Request : pc[r] = "done"
    /\ UNCHANGED vars

Step(r) ==
    \/ Authenticate(r) \/ Enter(r) \/ StartJob(r) \/ FinishJob(r)
    \/ TakeIdle(r) \/ Unreachable(r) \/ BeginCreate(r) \/ Created(r)
    \/ CreateFails(r) \/ WaitForConnection(r) \/ Query(r) \/ SumOutOfRange(r)
    \/ Insert(r) \/ Duplicate(r) \/ Commit(r) \/ Broken(r) \/ Leave(r) \/ Respond(r)

Next ==
    \/ \E r \in Request : Receive(r) \/ Step(r) \/ PoolTimeout(r) \/ LockTimeout(r)
    \/ DbStops \/ DbStarts \/ Rest

Spec == Init /\ [][Next]_vars

\* The event loop runs what can run.  No time-out is needed for progress, and
\* neither clients nor the database owe a step.
FairSpec == Spec /\ \A r \in Request : WF_vars(Step(r))
-----------------------------------------------------------------------------
PC == {"idle", "auth", "decode", "enter", "parse", "checkout", "waiting",
       "connecting", "query", "verify", "insert", "commit", "leave", "respond",
       "done"}

\* Every variable keeps to its range, and only the three kinds of work for a
\* thread are ever queued or run.
TypeOK ==
    /\ pc \in [Request -> PC]
    /\ ask \in Scenarios
    /\ job \in [Request -> {"none", "queued", "running"}]
    /\ \A r \in Request : job[r] # "none" <=> pc[r] \in {"decode", "parse", "verify"}
    /\ conn \in [Request -> Nat \cup {None}]
    /\ idle \in Seq(Nat) /\ Len(idle) <= PoolSize
    /\ open \in 0 .. Cap
    /\ {writer, stored} \subseteq Request \cup {None}
    /\ up \in BOOLEAN /\ epoch \in 0 .. MaxOutages
    /\ result \in [Request -> Exceptions \cup {"none", "Success"}]
    /\ answer \in [Request -> Nat]
    /\ calm \in [Request -> BOOLEAN]

\* The pool's count is right through time-outs, failed connects and outages:
\* what it counts is idle, held by a request that runs, or being connected.
\* An answered request holds nothing, so no sequence of requests uses it up.
PoolAccounted ==
    /\ open = Len(idle) + Cardinality({r \in Request : conn[r] # None})
                        + Cardinality({r \in Request : pc[r] = "connecting"})
    /\ \A r \in Request : pc[r] \in {"respond", "done"} => conn[r] = None /\ writer # r

\* A request without a good credential costs a protected route no connection
\* and no place among the waiters, and it is told 401, the database being down
\* or its parameters wrong included.  Only of a body that cannot be read at all
\* it is told first, with 400.
StrangersTakeNothing ==
    \A r \in Request : Protected(r) /\ ask[r].credential # "good" =>
       /\ pc[r] \notin {"checkout", "waiting", "connecting", "parse"}
       /\ conn[r] = None
       /\ pc[r] = "done" => answer[r] = IF ask[r].input = "malformed" THEN 400 ELSE 401

Another(r) == \E q \in Request \ {r} : ask[q].route = "upload"

\* A request that comes in after a restart of the database does not fail for
\* the connections the restart left dead in the pool: an operational error is
\* an outage of its own time, a wait for another upload's row or a sum that is
\* none.
OutagesEndWithTheDatabase ==
    \A r \in Request : result[r] = "OperationalError" /\ calm[r] =>
       ask[r].input = "big sum" \/ (ask[r].route = "upload" /\ Another(r))

\* The status of an answer follows from what was asked: README and the tests
\* promise it, but for a file with NaN, which is answered 500 and not 422, and
\* never says that a plan of an upload is stored when it is not.  While the
\* database is up, 500 is left for a time-out, for an upload that runs into
\* another one, for a sum the column cannot hold and for a password bcrypt cannot
\* hash.
Deserved(r) ==
    IF ask[r].input = "malformed" THEN {400}
    ELSE IF Protected(r) /\ ask[r].credential # "good" THEN {401}
    ELSE IF ask[r].input \in {"invalid", "bad file"} THEN {422}
    ELSE IF ask[r].input = "NaN" THEN {500}
    ELSE IF ask[r].input = "unknown user" THEN {404, 500}
    ELSE IF ask[r].route = "token" /\ ask[r].credential # "good" THEN {401, 500}
    ELSE IF ask[r].route = "upload" THEN IF stored = r THEN {201} ELSE {422, 500}
    ELSE {200, 500}

StatusTruth ==
    \A r \in Request : pc[r] = "done" =>
       /\ answer[r] \in Deserved(r)
       /\ answer[r] = 500 /\ calm[r] =>
             \/ result[r] = "TimeoutError"
             \/ ask[r].input \in {"NaN", "big sum", "NUL password"}
             \/ /\ ask[r].route = "upload" /\ Another(r)
                /\ result[r] \in {"IntegrityError", "OperationalError"}

\* There is room for a connection and nobody tells the one who waits.
LeftBehind(r) == pc[r] = "waiting" /\ idle = <<>> /\ open < Cap /\ ~calm[r]

\* Connections held over a wait for a thread, threads, row locks and waits for
\* a connection never block each other for good, no time-out needed: who is
\* not answered waits since an outage, behind a connect that failed in it.
AnsweredOrLeftBehind ==
    \A r \in Request :
       pc[r] # "idle" ~> (pc[r] = "done" \/ []LeftBehind(r))

\* With pool_timeout kept that one is answered as well.
EveryRequestAnswered ==
    (\A r \in Request : WF_vars(PoolTimeout(r)))
       => \A r \in Request : pc[r] # "idle" ~> pc[r] = "done"
=============================================================================
