------------------------------ MODULE Migration ------------------------------
(***************************************************************************)
(* Alembic against MySQL: each run reads the version, carries the          *)
(* statements of the migration out one by one and stamps the version last. *)
(* DDL is not transactional there: every statement is committed by itself, *)
(* and a run that fails or dies leaves what it has done.  The API of a     *)
(* deployment starts when its migrate run has completed successfully.      *)
(***************************************************************************)
EXTENDS Naturals, Sequences, SequencesExt

CONSTANTS Deployment,   \* "alembic upgrade head", then the API
          Undo,         \* runs of "alembic downgrade base"
          MaxCrashes    \* bound on the runs that die

VARIABLES objects,   \* the tables and indexes there
          version,   \* the revision stamped, "base" for none
          pc,        \* where each run stands; "serving" is its API
          todo,      \* the statements it has still to carry out
          crashes    \* runs that died so far

vars == <<objects, version, pc, todo, crashes>>

Run == Deployment \cup Undo

ASSUME MigrationAssumption ==
    Deployment \cap Undo = {} /\ MaxCrashes \in Nat

\* What upgrade() creates, in its order; for a table the tables its foreign
\* keys refer to, for an index its table.
CreatedCreditsFirst ==  \* mutant: credits before users
    << <<"credits", {"users"}>>, <<"users", {}>>, <<"dictionary", {}>>,
       <<"auth_users", {}>>, <<"ix_credits_user_id", {"credits"}>>,
       <<"ix_credits_issuance_date", {"credits"}>>,
       <<"payments", {"credits", "dictionary"}>>,
       <<"ix_payments_credit_id", {"payments"}>>,
       <<"ix_payments_payment_date", {"payments"}>>,
       <<"plans", {"dictionary"}>>, <<"ix_plans_period", {"plans"}>> >>

Created ==
    << <<"users", {}>>, <<"dictionary", {}>>, <<"auth_users", {}>>,
       <<"credits", {"users"}>>,
       <<"ix_credits_user_id", {"credits"}>>,
       <<"ix_credits_issuance_date", {"credits"}>>,
       <<"payments", {"credits", "dictionary"}>>,
       <<"ix_payments_credit_id", {"payments"}>>,
       <<"ix_payments_payment_date", {"payments"}>>,
       <<"plans", {"dictionary"}>>, <<"ix_plans_period", {"plans"}>> >>

Named(op) == [i \in DOMAIN Created |->
                [op |-> op, name |-> Created[i][1], on |-> Created[i][2]]]

Stamp == <<[op |-> "stamp", name |-> "alembic_version", on |-> {}]>>
VersionTable == <<[op |-> "create", name |-> "alembic_version", on |-> {}]>>

UpgradeStampedFirst == Stamp \o Named("create")  \* mutant: the version goes first

\* The version goes last; downgrade() undoes the same in reverse.
Upgrade == Named("create") \o Stamp
Downgrade == Reverse(Named("drop")) \o Stamp

Schema == {Created[i][1] : i \in DOMAIN Created}
Whole == Schema \subseteq objects

\* The indexes InnoDB needs for a foreign key: when they are created it drops
\* the one it had made for the key itself.
ForeignKeyIndexes == {"ix_credits_user_id", "ix_payments_credit_id"}

Tables == {"users", "dictionary", "auth_users", "credits", "payments", "plans"}

Referenced(name) ==
    \E i \in DOMAIN Created : Created[i][1] \in objects \cap Tables /\ name \in Created[i][2]

Target(r) == IF r \in Deployment THEN "head" ELSE "base"

\* What MySQL refuses.
Refused(r, s) ==
    CASE s.op = "create" -> s.name \in objects \/ ~(s.on \subseteq objects)
      [] s.op = "drop"   -> \/ s.name \notin objects \/ Referenced(s.name)
                            \/ s.name \in ForeignKeyIndexes
      [] s.op = "stamp"  -> version = Target(r)

-----------------------------------------------------------------------------
Init ==
    /\ objects = {}
    /\ version = "base"
    /\ pc = [r \in Run |-> "ready"]
    /\ todo = [r \in Run |-> <<>>]
    /\ crashes = 0

Goto(r, from, to) ==
    /\ pc[r] \in from
    /\ pc' = [pc EXCEPT ![r] = to]

\* The heads are read once; with none the version table is made if missing.
Read(r) ==
    /\ Goto(r, {"ready"}, "running")
    /\ todo' = [todo EXCEPT ![r] =
          (IF "alembic_version" \in objects THEN <<>> ELSE VersionTable) \o
          IF version = Target(r) THEN <<>>
          ELSE IF version = "base" THEN Upgrade ELSE Downgrade]
    /\ UNCHANGED <<objects, version, crashes>>

Execute(r) ==
    /\ pc[r] = "running" /\ todo[r] # <<>>
    /\ ~Refused(r, Head(todo[r]))
    /\ LET s == Head(todo[r])
       IN  /\ objects' = CASE s.op = "create" -> objects \cup {s.name}
                           [] s.op = "drop"   -> objects \ {s.name}
                           [] s.op = "stamp"  -> objects
           /\ version' = IF s.op = "stamp" THEN Target(r) ELSE version
    /\ todo' = [todo EXCEPT ![r] = Tail(@)]
    /\ UNCHANGED <<pc, crashes>>

FailUnfinished(r) ==  \* mutant: what is left is kept for another time
    /\ todo[r] # <<>> /\ Refused(r, Head(todo[r]))
    /\ Goto(r, {"running"}, "failed")
    /\ UNCHANGED <<objects, version, todo, crashes>>

Fail(r) ==
    /\ todo[r] # <<>> /\ Refused(r, Head(todo[r]))
    /\ Goto(r, {"running"}, "failed")
    /\ todo' = [todo EXCEPT ![r] = <<>>]
    /\ UNCHANGED <<objects, version, crashes>>

Crash(r) ==
    /\ crashes < MaxCrashes
    /\ crashes' = crashes + 1
    /\ Goto(r, {"running"}, "failed")
    /\ todo' = [todo EXCEPT ![r] = <<>>]
    /\ UNCHANGED <<objects, version>>

Complete(r) ==
    /\ todo[r] = <<>>
    /\ Goto(r, {"running"}, "done")
    /\ UNCHANGED <<objects, version, todo, crashes>>

\* The operator brings a failed deployment up again.
Retry(r) ==
    /\ r \in Deployment
    /\ Goto(r, {"failed"}, "ready")
    /\ UNCHANGED <<objects, version, todo, crashes>>

StartAnyway(r) ==  \* mutant: depends_on without its condition
    /\ r \in Deployment
    /\ Goto(r, {"done", "failed"}, "serving")
    /\ UNCHANGED <<objects, version, todo, crashes>>

Start(r) ==
    /\ r \in Deployment
    /\ Goto(r, {"done"}, "serving")
    /\ UNCHANGED <<objects, version, todo, crashes>>

Rest ==
    /\ \A r \in Run : IF r \in Deployment THEN pc[r] = "serving"
                     ELSE pc[r] \in {"done", "failed"}
    /\ UNCHANGED vars

Step(r) == Execute(r) \/ Fail(r) \/ Complete(r) \/ Retry(r) \/ Start(r)

Next ==
    \/ \E r \in Run : Read(r) \/ Step(r) \/ Crash(r)
    \/ Rest

Spec == Init /\ [][Next]_vars

\* Runs run, and operators retry until the API is up.
FairSpec == Spec /\ \A r \in Deployment : WF_vars(Read(r)) /\ WF_vars(Step(r))
-----------------------------------------------------------------------------
\* Every variable keeps to its range, and a run holds statements only while
\* it runs.
TypeOK ==
    /\ objects \subseteq Schema \cup {"alembic_version"}
    /\ version \in {"base", "head"}
    /\ pc \in [Run -> {"ready", "running", "failed", "done", "serving"}]
    /\ \A r \in Run : todo[r] # <<>> => pc[r] = "running"
    /\ crashes \in 0 .. MaxCrashes

Undoing == \E r \in Undo : pc[r] # "ready"

\* The version never claims what is not there: as long as nobody downgrades,
\* head means every table and index, through runs side by side and runs that
\* die between two statements.
HeadIsWhole == version = "head" /\ ~Undoing => Whole

\* An upgrade fails only for a reason: a run beside it, a run that died and
\* left its tables, or a downgrade.  Alone on an empty database it never does.
FailuresHaveCause ==
    \A r \in Deployment : pc[r] = "failed" =>
       crashes > 0 \/ \E q \in Run \ {r} : pc[q] # "ready"

\* "starts only after migrate completes successfully": as long as nobody
\* downgrades, an API that starts finds every table and index.
ApiFindsSchema ==
    [][\A r \in Deployment :
          pc[r] # "serving" /\ pc'[r] = "serving" /\ ~Undoing => Whole]_vars

\* Deployments that race for an empty database all come up: the losers fail,
\* and find the work done when they are tried again.  Only a run that dies
\* with its tables half made, or a downgrade, can keep one down.
EventuallyUp ==
    \A r \in Deployment : <>[](pc[r] = "serving" \/ crashes > 0 \/ Undoing)
=============================================================================
