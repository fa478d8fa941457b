---------------------------- MODULE StartupProofs ----------------------------
(***************************************************************************)
(* Proofs about Startup, for any replicas, scripts, CSV files, faults in   *)
(* them, uploads and crashes.                                              *)
(*                                                                         *)
(* The invariant says of the rows that open transactions hold what the     *)
(* tables have to satisfy once they are committed, and of a seeding        *)
(* transaction that it holds, or is still to insert, every row missing.    *)
(***************************************************************************)
EXTENDS Startup, FiniteSetTheorems, FunctionTheorems, TLAPS

-----------------------------------------------------------------------------
(***************************************************************************)
(* The inductive invariant.                                                *)
(***************************************************************************)
\* Rows of open transactions.
Held == UNION {written[p] : p \in Process}

\* No two of the rows share an id or a key.
Unique(S) ==
    \A q, r \in S :
       q.table = r.table /\ (q.id = r.id \/ (q.key = r.key /\ q.key # NoKey))
          => q = r

\* Rows refer to rows stored or of the same transaction.
Anchored == \A p \in Process : \A r \in written[p] :
               r.refs \subseteq Identities(rows \cup written[p])

\* The transaction that creates the administrator has this one row.
Bootstraps(p) == /\ job[p] = "admin"
                 /\ pending[p] \cup written[p] = {AdminRow(p)}

\* A seeding transaction has every row that is missing, were it missing when
\* it looked or not any more.
Seeds(p) == /\ job[p] = "seed"
            /\ pending[p] \cup written[p] \subseteq CsvRow
            /\ Missing \subseteq pending[p] \cup written[p]
            /\ p \in Server => AdminExists

ProcessInv(p) ==
    /\ pc[p] = "flush" => Bootstraps(p) \/ Seeds(p)
    /\ p \in Server /\ pc[p] = "seed" => AdminExists

StartupInv ==
    /\ TypeOK
    /\ Unique(rows \cup Held)
    /\ \A r \in rows : r.refs \subseteq Identities(rows)
    /\ Anchored
    /\ \A p \in Process : ProcessInv(p)
    /\ SeedAllOrNothing
    /\ ServingIsReady

-----------------------------------------------------------------------------
(***************************************************************************)
(* Lemmas about the operators.                                             *)
(***************************************************************************)
\* A finite set of numbers has a largest: one with least above it, for the
\* subsets of a finite set are well ordered.
LEMMA Maximum ==
  ASSUME NEW S \in SUBSET Nat, IsFiniteSet(S), S # {}
  PROVE  \E m \in S : \A i \in S : i <= m
<1> DEFINE Above(x) == {y \in S : y > x}
           above == {Above(x) : x \in S}
<1>1. above \subseteq FiniteSubsetsOf(S) /\ above # {}
  <2>1. \A x \in S : Above(x) \in SUBSET S /\ IsFiniteSet(Above(x))
    BY FS_Subset
  <2> QED
    BY <2>1 DEF FiniteSubsetsOf
<1>2. \E U \in above : \A V \in above : <<V, U>> \notin StrictSubsetOrdering(S)
  <2> HIDE DEF above
  <2> QED
    BY <1>1, FS_StrictSubsetOrderingWellFounded, WFMin, Zenon
<1>3. PICK m \in S : \A V \in above : <<V, Above(m)>> \notin StrictSubsetOrdering(S)
  BY <1>2
<1>4. ASSUME NEW i \in S, i > m
      PROVE  FALSE
  <2>1. Above(i) \subseteq Above(m)
    <3>1. \A y \in S : y > i => y > m
      BY <1>4
    <3> QED
      BY <3>1
  <2>2. i \in Above(m) /\ i \notin Above(i)
    BY <1>4
  <2>3. <<Above(i), Above(m)>> \in StrictSubsetOrdering(S)
    BY <2>1, <2>2 DEF StrictSubsetOrdering
  <2> QED
    BY <1>3, <2>3
<1> QED
  BY <1>4

\* AUTO_INCREMENT stays a positive number.
LEMMA CounterGrows ==
  ASSUME NEW n \in Nat \ {0}, NEW S, IsFiniteSet(S),
         \A r \in S : r.table = "plans" => r.id \in Nat
  PROVE  IdAfter(n, S) \in Nat \ {0}
<1> DEFINE ofPlans == {q \in S : q.table = "plans"}
           ids == {r.id : r \in ofPlans}
           used == {n - 1} \cup ids
           idOf == [r \in ofPlans |-> r.id]
<1>1. IsFiniteSet(ofPlans)
  BY FS_Subset
<1>2. idOf \in Surjection(ofPlans, ids)
  BY Fun_IsSurj
<1>3. IsFiniteSet(ids)
  BY <1>1, <1>2, FS_Surjection
<1>4. IsFiniteSet(used)
  BY <1>3, FS_Singleton, FS_Union
<1>5. used \in SUBSET Nat /\ used # {}
  OBVIOUS
<1>6. \E m \in used : \A i \in used : i <= m
  BY <1>4, <1>5, Maximum
<1>7. IdAfter(n, S) = 1 + (CHOOSE m \in used : \A i \in used : i <= m)
  BY DEF IdAfter
<1> HIDE DEF used
<1>8. (CHOOSE m \in used : \A i \in used : i <= m) \in Nat
  BY <1>5, <1>6
<1> QED
  BY <1>7, <1>8

\* A statement inserts rows its session has pending.
LEMMA BatchIsPending ==
  ASSUME NEW p \in Process
  PROVE  Batch(p) \subseteq pending[p]
  BY DEF Batch

\* The database only grows, and what is found there once is found again.
LEMMA RowsGrow ==
  ASSUME rows \subseteq rows'
  PROVE  /\ Identities(rows) \subseteq Identities(rows')
         /\ Missing' \subseteq Missing
         /\ AdminExists => AdminExists'
         /\ Seedable' \subseteq Seedable
<1>1. \A S, T : S \subseteq T => Identities(S) \subseteq Identities(T)
  BY DEF Identities
<1>2. \A r : Identities(rows \ {r}) \subseteq Identities(rows' \ {r})
  BY <1>1
<1> QED
  BY <1>1, <1>2 DEF Missing, AdminExists, Seedable

\* What is assumed of the rows, of the files and of the start.
LEMMA RowsAssumed ==
  /\ IsFiniteSet(CsvRow) /\ IsFiniteSet(Stored) /\ MaxCrashes \in Nat
  /\ \A r \in CsvRow \cup Stored : DOMAIN r = Columns
  /\ \A r \in CsvRow \cup Stored : r.table \in Tables
  /\ \A r \in CsvRow \cup Stored : r.table = "plans" => r.id \in Nat
  /\ \A r \in CsvRow : r.table # "auth_users"
  BY StartupAssumption, Zenon

\* Any row there may be: one of the files, or an administrator.
AnyRow == CsvRow \cup {AdminRow(p) : p \in Process}

LEMMA RowShape ==
  ASSUME NEW r \in AnyRow
  PROVE  /\ DOMAIN r = Columns /\ r.table \in Tables
         /\ r.table = "plans" => r.id \in Nat
<1>1. "auth_users" \in Tables /\ "auth_users" # "plans"
  BY DEF Tables, FlushOrder
<1>2. \A p \in Process : AdminRow(p).table = "auth_users" /\ DOMAIN AdminRow(p) = Columns
  BY DEF AdminRow, Columns
<1> QED
  BY <1>1, <1>2, RowsAssumed DEF AnyRow

-----------------------------------------------------------------------------
(***************************************************************************)
(* Type correctness.                                                       *)
(***************************************************************************)
LEMMA InitType == Init => TypeOK
<1> SUFFICES ASSUME Init PROVE TypeOK
  OBVIOUS
<1>1. nextId \in Nat \ {0}
  BY RowsAssumed, CounterGrows DEF Init
<1>2. \A r \in rows : DOMAIN r = Columns /\ r.table \in Tables
  BY RowsAssumed DEF Init
<1> QED
  BY <1>1, <1>2, RowsAssumed DEF Init, TypeOK, PC

\* What a session may hold, and what it holds outside its transaction.
LEMMA SessionType ==
  ASSUME TypeOK, NEW p \in Process
  PROVE  /\ pending[p] \cup written[p] \subseteq AnyRow
         /\ pc[p] # "flush" => pending[p] = {} /\ written[p] = {}
  BY DEF TypeOK, AnyRow

LEMMA AbortType ==
  ASSUME TypeOK, NEW p \in Process, Abort(p), crashes' \in 0 .. MaxCrashes
  PROVE  TypeOK'
  BY DEF TypeOK, Abort, PC

LEMMA NextType == TypeOK /\ [Next]_vars => TypeOK'
<1> SUFFICES ASSUME TypeOK, [Next]_vars PROVE TypeOK'
  OBVIOUS
<1>1. ASSUME NEW p \in Process, Boot(p) \/ FindAdmin(p) \/ MissAdmin(p)
      PROVE  TypeOK'
  <2>1. AfterBootstrap(p) \in {"seed", "serving"}
    BY DEF AfterBootstrap
  <2> QED
    BY <1>1, <2>1 DEF TypeOK, Boot, FindAdmin, MissAdmin, Goto, PC
<1>2. ASSUME NEW p \in Process, CreateAdmin(p)
      PROVE  TypeOK'
  BY <1>2 DEF TypeOK, CreateAdmin, Goto, PC
<1>3. ASSUME NEW p \in Process, ReadTables(p)
      PROVE  TypeOK'
  BY <1>3 DEF TypeOK, ReadTables, Goto, PC, Missing
<1>4. ASSUME NEW p \in Process, Insert(p)
      PROVE  TypeOK'
  <2>1. Batch(p) \subseteq pending[p] /\ Batch(p) \subseteq AnyRow
    BY BatchIsPending, SessionType
  <2>2. IsFiniteSet(Batch(p))
    <3>1. Batch(p) \subseteq CsvRow \cup {AdminRow(p)}
      BY <2>1 DEF TypeOK
    <3> QED
      BY <3>1, RowsAssumed, FS_AddElement, FS_Subset
  <2>3. nextId' \in Nat \ {0}
    BY <1>4, <2>1, <2>2, RowShape, CounterGrows DEF TypeOK, Insert
  <2> QED
    BY <1>4, <2>1, <2>3 DEF TypeOK, Insert, AnyRow
<1>5. ASSUME NEW p \in Process, Commit(p)
      PROVE  TypeOK'
  <2>1. AfterCommit(p) \in {"seed", "serving", "finished"}
    BY DEF AfterCommit, AfterBootstrap
  <2>2. \A r \in rows' : DOMAIN r = Columns /\ r.table \in Tables
    BY <1>5, SessionType, RowShape DEF Commit, TypeOK
  <2> QED
    BY <1>5, <2>1, <2>2 DEF TypeOK, Commit, Goto, PC
<1>6. ASSUME NEW p \in Process, ParseError(p) \/ IntegrityError(p) \/ LockError(p)
      PROVE  TypeOK'
  BY <1>6, AbortType DEF ParseError, IntegrityError, LockError, TypeOK
<1>7. ASSUME NEW p \in Process, Crash(p)
      PROVE  TypeOK'
  BY <1>7, AbortType, RowsAssumed DEF Crash, TypeOK
<1>8. ASSUME NEW p \in Script, StartScript(p)
      PROVE  TypeOK'
  BY <1>8 DEF TypeOK, StartScript, Goto, PC, Process
<1>9. ASSUME NEW k \in UploadKeys, Upload(k)
      PROVE  TypeOK'
  <2> DEFINE plan == [table |-> "plans", id |-> nextId, key |-> k, refs |-> UploadRefs]
  <2>1. rows' = rows \cup {plan}
    BY <1>9 DEF Upload
  <2>2. DOMAIN plan = Columns /\ plan.table \in Tables
    BY DEF Columns, Tables, FlushOrder
  <2>3. \A r \in rows' : DOMAIN r = Columns /\ r.table \in Tables
    BY <2>1, <2>2 DEF TypeOK
  <2> QED
    BY <1>9, <2>3 DEF TypeOK, Upload
<1>10. CASE UNCHANGED vars
  BY <1>10 DEF TypeOK, vars
<1> QED
  BY <1>1, <1>2, <1>3, <1>4, <1>5, <1>6, <1>7, <1>8, <1>9, <1>10 DEF Next, Step, Rest

\* Every variable keeps to its range, and only a session in the middle of its
\* transaction holds rows.
THEOREM TypeCorrect == Spec => []TypeOK
  BY InitType, NextType, PTL DEF Spec

-----------------------------------------------------------------------------
(***************************************************************************)
(* The invariant, step by step.                                            *)
(***************************************************************************)
LEMMA InitInv == Init => StartupInv
<1> SUFFICES ASSUME Init PROVE StartupInv
  OBVIOUS
<1>1. TypeOK
  BY InitType
<1>2. Held = {}
  BY DEF Init, Held
<1>3. Sound(Stored)
  BY StartupAssumption, Zenon
<1>4. Unique(rows \cup Held) /\ \A r \in rows : r.refs \subseteq Identities(rows)
  BY <1>2, <1>3 DEF Init, Sound, Unique
<1>5. Anchored /\ \A p \in Process : ProcessInv(p)
  BY DEF Init, Anchored, ProcessInv
<1>6. SeedAllOrNothing /\ ServingIsReady
  BY DEF Init, SeedAllOrNothing, Seedable, ServingIsReady, Process
<1> QED
  BY <1>1, <1>4, <1>5, <1>6 DEF StartupInv

\* What is said of a process stays true while it rests and the tables grow.
LEMMA Bystander ==
  ASSUME NEW q \in Process, ProcessInv(q), rows \subseteq rows',
         pc'[q] = pc[q], job'[q] = job[q],
         pending'[q] = pending[q], written'[q] = written[q]
  PROVE  ProcessInv(q)'
<1>1. Missing' \subseteq Missing /\ (AdminExists => AdminExists')
  BY RowsGrow
<1>2. Bootstraps(q) => Bootstraps(q)'
  BY DEF Bootstraps
<1>3. Seeds(q) => Seeds(q)'
  BY <1>1 DEF Seeds
<1> QED
  BY <1>1, <1>2, <1>3 DEF ProcessInv

\* What is stored between two states is all that is to be seeded, or none of it.
LEMMA SeedKept ==
  ASSUME SeedAllOrNothing, rows \subseteq rows',
         Seedable' \subseteq rows' \/ (rows' \ rows) \cap Seedable' = {}
  PROVE  SeedAllOrNothing'
<1>1. Seedable' \subseteq Seedable
  BY RowsGrow
<1> QED
  BY <1>1 DEF SeedAllOrNothing

LEMMA ReadyKept ==
  ASSUME rows \subseteq rows', NEW p \in Server,
         AdminExists /\ (p \in Seeding => Identities(CsvRow) \subseteq Identities(rows))
  PROVE  (AdminExists /\ (p \in Seeding => Identities(CsvRow) \subseteq Identities(rows)))'
  BY RowsGrow

\* A step of one process that stores nothing and gives its rows up or keeps
\* them has only its own part of the invariant to see to.
LEMMA QuietStep ==
  ASSUME StartupInv, TypeOK', NEW p \in Process, UNCHANGED rows,
         \A q \in Process \ {p} : /\ pc'[q] = pc[q] /\ job'[q] = job[q]
                                 /\ pending'[q] = pending[q]
                                 /\ written'[q] = written[q],
         written'[p] \in {written[p], {}},
         ProcessInv(p)',
         p \in Server /\ pc'[p] = "serving" =>
            AdminExists /\ (p \in Seeding => Identities(CsvRow) \subseteq Identities(rows))
  PROVE  StartupInv'
<1>1. \A q \in Process : written'[q] \subseteq written[q]
  OBVIOUS
<1>2. Held' \subseteq Held
  BY <1>1 DEF Held
<1>3. Unique(rows \cup Held)'
  BY <1>2 DEF StartupInv, Unique
<1>4. \A r \in rows' : r.refs \subseteq Identities(rows)'
  BY DEF StartupInv, Identities
<1>5. Anchored'
  <2>1. \A q \in Process : written'[q] = written[q] \/ written'[q] = {}
    OBVIOUS
  <2> QED
    BY <2>1 DEF StartupInv, Anchored, Identities
<1>6. \A q \in Process : ProcessInv(q)'
  BY Bystander DEF StartupInv
<1>7. SeedAllOrNothing'
  BY DEF StartupInv, SeedAllOrNothing, Seedable, Identities
<1>8. ServingIsReady'
  BY DEF StartupInv, ServingIsReady, AdminExists, Identities, Process
<1> QED
  BY <1>3, <1>4, <1>5, <1>6, <1>7, <1>8 DEF StartupInv

\* The administrator, the look at the tables and every failure.
LEMMA OwnSteps ==
  ASSUME StartupInv, TypeOK', NEW p \in Process,
         \/ Boot(p) \/ FindAdmin(p) \/ MissAdmin(p) \/ CreateAdmin(p)
         \/ ReadTables(p) \/ (p \in Script /\ StartScript(p)) \/ Abort(p)
  PROVE  StartupInv'
<1> USE DEF Goto
<1>1. TypeOK /\ ProcessInv(p)
  BY DEF StartupInv
<1>2. /\ pc \in [Process -> PC] /\ job \in [Process -> {"none", "admin", "seed"}]
      /\ DOMAIN pending = Process /\ DOMAIN written = Process
      /\ pending = [q \in Process |-> pending[q]] /\ written = [q \in Process |-> written[q]]
      /\ pc[p] # "flush" => pending[p] = {} /\ written[p] = {}
  BY <1>1 DEF TypeOK
<1>3. CASE Boot(p) \/ MissAdmin(p)
  <2>1. ProcessInv(p)'
    BY <1>2, <1>3 DEF Boot, MissAdmin, ProcessInv
  <2> QED
    BY <1>2, <1>3, <2>1, QuietStep DEF Boot, MissAdmin
<1>4. CASE FindAdmin(p)
  <2>1. pc'[p] = AfterBootstrap(p) /\ AdminExists /\ UNCHANGED rows
    BY <1>2, <1>4 DEF FindAdmin
  <2>2. ProcessInv(p)'
    BY <2>1 DEF ProcessInv, AfterBootstrap, AdminExists
  <2> QED
    BY <1>2, <1>4, <2>1, <2>2, QuietStep DEF FindAdmin, AfterBootstrap
<1>5. CASE CreateAdmin(p)
  <2>1. Bootstraps(p)'
    BY <1>2, <1>5 DEF CreateAdmin, Bootstraps
  <2>2. ProcessInv(p)'
    BY <1>2, <1>5, <2>1 DEF CreateAdmin, ProcessInv
  <2> QED
    BY <1>2, <1>5, <2>2, QuietStep DEF CreateAdmin
<1>6. CASE ReadTables(p)
  <2>1. Missing' = Missing /\ Missing \subseteq CsvRow /\ (AdminExists => AdminExists')
    BY <1>6 DEF ReadTables, Missing, AdminExists
  <2>2. Seeds(p)'
    BY <1>1, <1>2, <1>6, <2>1 DEF ReadTables, ProcessInv, Seeds
  <2>3. ProcessInv(p)'
    BY <1>2, <1>6, <2>2 DEF ReadTables, ProcessInv
  <2> QED
    BY <1>2, <1>6, <2>3, QuietStep DEF ReadTables
<1>7. CASE p \in Script /\ StartScript(p)
  <2>1. p \notin Server
    BY <1>7, StartupAssumption, Zenon
  <2>2. ProcessInv(p)'
    BY <1>2, <1>7, <2>1 DEF StartScript, ProcessInv
  <2> QED
    BY <1>2, <1>7, <2>1, <2>2, QuietStep DEF StartScript
<1>8. CASE Abort(p)
  <2>1. pc'[p] \in {"down", "failed"}
    BY <1>2, <1>8 DEF Abort
  <2>2. ProcessInv(p)'
    BY <2>1 DEF ProcessInv
  <2> QED
    BY <1>2, <1>8, <2>1, <2>2, QuietStep DEF Abort
<1> QED
  BY <1>3, <1>4, <1>5, <1>6, <1>7, <1>8

LEMMA IdentitiesOfUnion ==
  ASSUME NEW S, NEW T
  PROVE  Identities(S \cup T) = Identities(S) \cup Identities(T)
  BY DEF Identities

\* Rows that clash with nothing else keep keys and ids unique.
LEMMA UniqueWith ==
  ASSUME NEW S, NEW B, Unique(S),
         \A r \in B : ~Clashes(r, S) /\ ~Clashes(r, B \ {r})
  PROVE  Unique(S \cup B)
  BY DEF Unique, Clashes

\* A statement adds to an open transaction what clashes with no row stored or
\* held, and what refers to rows stored or of the same transaction.
LEMMA InsertStep ==
  ASSUME StartupInv, TypeOK', NEW p \in Process, Insert(p)
  PROVE  StartupInv'
<1> DEFINE B == Batch(p)
<1>1. /\ UNCHANGED <<rows, pc, job>> /\ ~Waits(p) /\ ~Refused(p)
      /\ written' = [written EXCEPT ![p] = @ \cup B]
      /\ pending' = [pending EXCEPT ![p] = @ \ B]
  BY DEF Insert
<1>2. DOMAIN pending = Process /\ DOMAIN written = Process
  BY DEF StartupInv, TypeOK
<1>3. B \subseteq pending[p]
  BY BatchIsPending
<1> HIDE DEF B
<1>4. Held = OthersWritten(p) \cup written[p] /\ Held' = Held \cup B
  BY <1>1, <1>2 DEF Held, OthersWritten
<1>5. Unique(rows \cup Held)'
  <2>1. ASSUME NEW r \in B
        PROVE  ~Clashes(r, rows \cup Held) /\ ~Clashes(r, B \ {r})
    <3>1. /\ ~Clashes(r, OthersWritten(p))
          /\ ~Clashes(r, rows \cup written[p] \cup (B \ {r}))
      BY <1>1 DEF Waits, Refused, B
    <3> QED
      BY <1>4, <3>1 DEF Clashes
  <2>2. Unique((rows \cup Held) \cup B)
    BY <2>1, UniqueWith DEF StartupInv
  <2>3. (rows \cup Held)' = (rows \cup Held) \cup B
    BY <1>1, <1>4
  <2> QED
    BY <2>2, <2>3 DEF Unique
<1>6. Anchored'
  <2>1. ASSUME NEW r \in B
        PROVE  r.refs \subseteq Identities(rows \cup (written[p] \cup B))
    <3>1. /\ r.refs \subseteq Identities(rows \cup written[p] \cup B \cup OthersWritten(p))
          /\ \A f \in r.refs : \/ f \in Identities(rows \cup written[p])
                               \/ f \notin Identities(OthersWritten(p))
      BY <1>1 DEF Waits, Refused, B
    <3> QED
      BY <3>1, IdentitiesOfUnion
  <2>2. \A r \in written[p] : r.refs \subseteq Identities(rows \cup (written[p] \cup B))
    <3>1. Identities(rows \cup written[p]) \subseteq Identities(rows \cup (written[p] \cup B))
      BY DEF Identities
    <3> QED
      BY <3>1 DEF StartupInv, Anchored
  <2>3. \A q \in Process \ {p} : written'[q] = written[q]
    BY <1>1, <1>2
  <2>4. written'[p] = written[p] \cup B /\ rows' = rows
    BY <1>1, <1>2
  <2> QED
    BY <2>1, <2>2, <2>3, <2>4 DEF StartupInv, Anchored, Identities
<1>7. \A q \in Process : ProcessInv(q)'
  <2>1. pending'[p] \cup written'[p] = pending[p] \cup written[p]
    BY <1>1, <1>2, <1>3
  <2>2. ProcessInv(p)'
    BY <1>1, <2>1
    DEF StartupInv, ProcessInv, Bootstraps, Seeds, Missing, AdminExists, AdminRow
  <2>3. \A q \in Process \ {p} : ProcessInv(q)'
    BY <1>1, <1>2, Bystander DEF StartupInv
  <2> QED
    BY <2>2, <2>3
<1>8. SeedAllOrNothing' /\ ServingIsReady'
  BY <1>1 DEF StartupInv, SeedAllOrNothing, Seedable, ServingIsReady, AdminExists, Identities
<1>9. \A r \in rows' : r.refs \subseteq Identities(rows)'
  BY <1>1 DEF StartupInv, Identities
<1> QED
  BY <1>5, <1>6, <1>7, <1>8, <1>9 DEF StartupInv

\* A commit stores what was held: the administrator, or all that was missing.
LEMMA CommitStep ==
  ASSUME StartupInv, TypeOK', NEW p \in Process, Commit(p)
  PROVE  StartupInv'
<1>1. /\ pending[p] = {} /\ pc[p] = "flush" /\ UNCHANGED <<job, pending>>
      /\ pc' = [pc EXCEPT ![p] = AfterCommit(p)]
      /\ rows' = rows \cup written[p]
      /\ written' = [written EXCEPT ![p] = {}]
  BY DEF Commit, Goto
<1>2. pc \in [Process -> PC] /\ DOMAIN written = Process
  BY DEF StartupInv, TypeOK
<1>3. rows \subseteq rows' /\ pc'[p] = AfterCommit(p) /\ written'[p] = {}
  BY <1>1, <1>2
<1>4. Unique(rows \cup Held)'
  <2>1. (rows \cup Held)' \subseteq rows \cup Held
    BY <1>1, <1>2 DEF Held
  <2> QED
    BY <2>1 DEF StartupInv, Unique
<1>5. \A r \in rows' : r.refs \subseteq Identities(rows)'
  BY <1>1, IdentitiesOfUnion DEF StartupInv, Anchored, Identities
<1>6. Anchored'
  <2>1. \A q \in Process : written'[q] = written[q] \/ written'[q] = {}
    BY <1>1, <1>2
  <2> QED
    BY <1>1, <2>1 DEF StartupInv, Anchored, Identities
<1>7. /\ Identities(rows) \subseteq Identities(rows')
      /\ Missing' \subseteq Missing
      /\ AdminExists => AdminExists'
      /\ Seedable' \subseteq Seedable
  BY <1>3, RowsGrow
<1>8. Bootstraps(p) \/ Seeds(p)
  BY <1>1 DEF StartupInv, ProcessInv
<1>9. Bootstraps(p) => AdminExists'
  <2>1. Bootstraps(p) => AdminRow(p) \in rows'
    BY <1>1 DEF Bootstraps
  <2>2. AdminRow(p).table = "auth_users" /\ AdminRow(p).key = Login
    BY DEF AdminRow
  <2> QED
    BY <2>1, <2>2 DEF AdminExists
<1>10. Seeds(p) => Identities(CsvRow) \subseteq Identities(rows')
  <2>1. ASSUME Seeds(p), NEW r \in CsvRow
        PROVE  Identity(r) \in Identities(rows')
    <3>1. r \in written[p] \/ Identity(r) \in Identities(rows)
      BY <1>1, <2>1 DEF Seeds, Missing
    <3> QED
      BY <1>1, <1>7, <3>1 DEF Identities
  <2> QED
    BY <2>1 DEF Identities
<1>11. p \in Server => AdminExists'
  BY <1>7, <1>8, <1>9 DEF Seeds
<1>12. \A q \in Process : ProcessInv(q)'
  <2>1. ProcessInv(p)'
    BY <1>3, <1>11 DEF ProcessInv, AfterCommit, AfterBootstrap
  <2>2. \A q \in Process \ {p} : ProcessInv(q)'
    BY <1>1, <1>2, <1>3, Bystander DEF StartupInv
  <2> QED
    BY <2>1, <2>2
<1>13. SeedAllOrNothing'
  <2>1. CASE Bootstraps(p)
    <3>1. rows' \ rows \subseteq {AdminRow(p)}
      BY <1>1, <2>1 DEF Bootstraps
    <3>2. AdminRow(p) \notin CsvRow
      BY RowsAssumed DEF AdminRow
    <3>3. (rows' \ rows) \cap Seedable' = {}
      BY <3>1, <3>2 DEF Seedable
    <3> QED
      BY <1>3, <3>3, SeedKept DEF StartupInv
  <2>2. CASE Seeds(p)
    <3>1. ASSUME NEW r \in Seedable'
          PROVE  r \in rows'
      <4>1. r \in CsvRow /\ Identity(r) \notin Identities(rows' \ {r})
        BY DEF Seedable
      <4>2. Identity(r) \in Identities(rows')
        BY <1>10, <2>2, <4>1 DEF Identities
      <4> QED
        BY <4>1, <4>2 DEF Identities
    <3> QED
      BY <1>3, <3>1, SeedKept DEF StartupInv
  <2> QED
    BY <1>8, <2>1, <2>2
<1>14. ServingIsReady'
  <2> SUFFICES ASSUME NEW q \in Server, pc'[q] = "serving"
               PROVE  (/\ AdminExists
                       /\ q \in Seeding => Identities(CsvRow) \subseteq Identities(rows))'
    BY DEF ServingIsReady
  <2>1. CASE q = p
    <3>1. Bootstraps(p) \/ Identities(CsvRow) \subseteq Identities(rows')
      BY <1>8, <1>10
    <3>2. Bootstraps(p) => q \notin Seeding
      <4>1. job[p] = "admin" => AfterCommit(p) = AfterBootstrap(p)
        BY DEF AfterCommit
      <4>2. pc'[p] = "serving"
        BY <2>1
      <4> QED
        BY <1>3, <2>1, <4>1, <4>2 DEF Bootstraps, AfterBootstrap
    <3> QED
      BY <1>11, <2>1, <3>1, <3>2 DEF Identities
  <2>2. CASE q # p
    <3>1. pc[q] = "serving"
      BY <1>1, <1>2, <2>2
    <3>2. AdminExists /\ (q \in Seeding => Identities(CsvRow) \subseteq Identities(rows))
      BY <3>1 DEF StartupInv, ServingIsReady
    <3> QED
      BY <1>3, <3>2, ReadyKept
  <2> QED
    BY <2>1, <2>2
<1> QED
  BY <1>4, <1>5, <1>6, <1>12, <1>13, <1>14 DEF StartupInv

\* An uploaded plan clashes with nothing stored or held, refers to rows that
\* are stored, and is no row of the files that seeding alone can bring.
LEMMA UploadStep ==
  ASSUME StartupInv, TypeOK', NEW k \in UploadKeys, Upload(k)
  PROVE  StartupInv'
<1> DEFINE plan == [table |-> "plans", id |-> nextId, key |-> k, refs |-> UploadRefs]
<1>1. /\ UNCHANGED <<pc, job, pending, written>> /\ rows' = rows \cup {plan}
      /\ UploadRefs \subseteq Identities(rows)
      /\ ~Clashes(plan, rows \cup Held)
  BY DEF Upload, Held
<1>2. plan.key = k /\ plan.refs = UploadRefs
  OBVIOUS
<1> HIDE DEF plan
<1>3. rows \subseteq rows' /\ Held' = Held
  BY <1>1 DEF Held
<1>4. Unique(rows \cup Held)'
  <2>1. Unique((rows \cup Held) \cup {plan})
    <3>1. ~Clashes(plan, {plan} \ {plan})
      BY DEF Clashes
    <3> QED
      BY <1>1, <3>1, UniqueWith DEF StartupInv
  <2>2. (rows \cup Held)' = (rows \cup Held) \cup {plan}
    BY <1>1, <1>3
  <2> QED
    BY <2>1, <2>2 DEF Unique
<1>5. \A r \in rows' : r.refs \subseteq Identities(rows)'
  BY <1>1, <1>2, IdentitiesOfUnion DEF StartupInv, Identities
<1>6. Anchored'
  BY <1>1 DEF StartupInv, Anchored, Identities
<1>7. \A q \in Process : ProcessInv(q)'
  BY <1>1, <1>3, Bystander DEF StartupInv
<1>8. SeedAllOrNothing'
  <2>1. (rows' \ rows) \cap Seedable' = {}
    BY <1>1, <1>2 DEF Seedable
  <2> QED
    BY <1>3, <2>1, SeedKept DEF StartupInv
<1>9. ServingIsReady'
  BY <1>1, <1>3, ReadyKept DEF StartupInv, ServingIsReady
<1> QED
  BY <1>4, <1>5, <1>6, <1>7, <1>8, <1>9 DEF StartupInv

\* One step per action.
LEMMA NextInv == StartupInv /\ [Next]_vars => StartupInv'
<1> SUFFICES ASSUME StartupInv, [Next]_vars PROVE StartupInv'
  OBVIOUS
<1>1. TypeOK'
  BY NextType DEF StartupInv
<1>2. ASSUME NEW p \in Process,
             Boot(p) \/ FindAdmin(p) \/ MissAdmin(p) \/ CreateAdmin(p) \/ ReadTables(p)
      PROVE  StartupInv'
  BY <1>1, <1>2, OwnSteps
<1>3. ASSUME NEW p \in Process, Insert(p) PROVE StartupInv'
  BY <1>1, <1>3, InsertStep
<1>4. ASSUME NEW p \in Process, Commit(p) PROVE StartupInv'
  BY <1>1, <1>4, CommitStep
<1>5. ASSUME NEW p \in Process,
             ParseError(p) \/ IntegrityError(p) \/ LockError(p) \/ Crash(p)
      PROVE  StartupInv'
  BY <1>1, <1>5, OwnSteps DEF ParseError, IntegrityError, LockError, Crash
<1>6. ASSUME NEW p \in Script, StartScript(p) PROVE StartupInv'
  BY <1>1, <1>6, OwnSteps DEF Process
<1>7. ASSUME NEW k \in UploadKeys, Upload(k) PROVE StartupInv'
  BY <1>1, <1>7, UploadStep
<1>8. CASE UNCHANGED vars
  <2>1. UNCHANGED <<rows, pc, job, pending, written>>
    BY <1>8 DEF vars
  <2> QED
    BY <1>1, <2>1
    DEF StartupInv, Held, Unique, Anchored, Identities, ProcessInv, Bootstraps,
        Seeds, Missing, AdminExists, SeedAllOrNothing, Seedable, ServingIsReady
<1> QED
  BY <1>2, <1>3, <1>4, <1>5, <1>6, <1>7, <1>8 DEF Next, Step, Rest

-----------------------------------------------------------------------------
(***************************************************************************)
(* The theorems.                                                           *)
(***************************************************************************)
\* What open transactions hold fits what is stored, and a seeding transaction
\* has all that is missing, whatever replicas, scripts and uploads race.
THEOREM StartupInvariance == Spec => []StartupInv
  BY InitInv, NextInv, PTL DEF Spec

\* One administrator, no id and no key twice in a table and no reference to a
\* row not there, however starts, seeders and uploads race and die
\* (bootstrap_admin, CsvSeeder.load_all, the constraints of the schema).
THEOREM TablesStaySound == Spec => []TablesSound
<1>1. StartupInv => TablesSound
  BY DEF StartupInv, TablesSound, Sound, Unique
<1> QED
  BY <1>1, StartupInvariance, PTL

\* Of the rows only seeding brings the database shows none or all, at whatever
\* row a run is cut short (load_all is one unit of work).
THEOREM SeedingIsWhole == Spec => []SeedAllOrNothing
<1>1. StartupInv => SeedAllOrNothing
  BY DEF StartupInv
<1> QED
  BY <1>1, StartupInvariance, PTL

\* A replica that serves has its administrator and, if told to seed, a row for
\* every id of its files (lifespan serves only after both).
THEOREM ServingMeansReady == Spec => []ServingIsReady
<1>1. StartupInv => ServingIsReady
  BY DEF StartupInv
<1> QED
  BY <1>1, StartupInvariance, PTL
=============================================================================
