------------------------- MODULE PlansInsertProofs -------------------------
(***************************************************************************)
(* Proofs about PlansInsert for every number of uploads, every set of      *)
(* periods, categories and sheets; the last part shows that it implements  *)
(* PlanBook.                                                               *)
(***************************************************************************)
EXTENDS PlansInsert, SequenceTheorems, FiniteSetTheorems, TLAPS

-----------------------------------------------------------------------------
(***************************************************************************)
(* Type correctness.                                                       *)
(***************************************************************************)
\* The initial tables and the records of idle uploads have their types.
LEMMA InitType == Init => TypeOK
  BY PlansInsertAssumption
  DEF Init, TypeOK, PlanRow, Key, Owner, PC, Outcome, Fault

\* A row the loop has come to is a key, and so is a row the flush has come to.
LEMMA RowType ==
  ASSUME TypeOK, NEW u \in Upload
  PROVE  /\ RowsLeft(u) => Row(u) \in Key
         /\ next[u] <= Len(toInsert[u]) => Current(u) \in Key
         /\ RowsOf(u) \subseteq PlanRow
  BY DEF TypeOK, RowsLeft, Row, Current, RowsOf, PlanRow, Owner

\* Every step keeps every variable in its range; that a flushed row is a key
\* needs the flush not to run past the sheet.
LEMMA NextType ==
  ASSUME TypeOK, [Next]_vars,
         \A u \in Upload : pc[u] \in {"flush", "blocked"}
                              => next[u] <= Len(toInsert[u])
  PROVE  TypeOK'
<1> USE DEF TypeOK, database
<1>1. ASSUME NEW u \in Upload, Receive(u)
      PROVE  TypeOK'
  BY <1>1, PlansInsertAssumption DEF Receive, Goto, PC
<1>2. ASSUME NEW u \in Upload, RejectFile(u) \/ ParserFails(u) \/ RejectRows(u)
                               \/ DuplicateKey(u) \/ SumOutOfRange(u)
                               \/ LockWaitTimeout(u)
      PROVE  TypeOK'
  BY <1>2 DEF RejectFile, ParserFails, RejectRows, DuplicateKey, SumOutOfRange,
              LockWaitTimeout, Raise, Goto, PC, Outcome
<1>3. ASSUME NEW u \in Upload, Parse(u) \/ BeginFlush(u) \/ WaitForLock(u)
                               \/ Respond(u)
      PROVE  TypeOK'
  <2>1. CASE Parse(u)       BY <2>1 DEF Parse, Goto, PC
  <2>2. CASE BeginFlush(u)  BY <2>2 DEF BeginFlush, Goto, PC
  <2>3. CASE WaitForLock(u) BY <2>3 DEF WaitForLock, Goto, PC
  <2>4. CASE Respond(u)     BY <2>4 DEF Respond, Goto, PC
  <2> QED  BY <1>3, <2>1, <2>2, <2>3, <2>4
<1>4. ASSUME NEW u \in Upload, ReadDictionary(u)
      PROVE  TypeOK'
  BY <1>4 DEF ReadDictionary, Goto, PC, StoredKeys, PlanRow
<1>5. ASSUME NEW u \in Upload, ReportRow(u)
      PROVE  TypeOK'
  BY <1>5 DEF ReportRow, RowFault, Fault
<1>6. ASSUME NEW u \in Upload, AcceptRow(u)
      PROVE  TypeOK'
  BY <1>6, RowType DEF AcceptRow
<1>7. ASSUME NEW u \in Upload, Insert(u)
      PROVE  TypeOK'
  BY <1>7, RowType DEF Insert, PC
<1>8. ASSUME NEW u \in Upload, DeadlockVictim(u) \/ Rollback(u)
                               \/ ConnectionLost(u)
      PROVE  TypeOK'
  BY <1>8 DEF DeadlockVictim, Rollback, ConnectionLost, Raise, Goto, PC, Outcome
<1>9. ASSUME NEW u \in Upload, Commit(u) \/ CommitUnacknowledged(u)
      PROVE  TypeOK'
  BY <1>9, RowType DEF Commit, CommitUnacknowledged, Raise, Goto, PC, Outcome
<1>10. CASE Crash
  BY <1>10 DEF Crash, PC
<1>11. ASSUME NEW c \in Category, SeedCategory(c)
       PROVE  TypeOK'
  BY <1>11 DEF SeedCategory
<1>12. CASE UNCHANGED vars
  BY <1>12 DEF vars
<1> QED
  BY <1>1, <1>2, <1>3, <1>4, <1>5, <1>6, <1>7, <1>8, <1>9, <1>10, <1>11, <1>12
  DEF Next, ServerStep, Failure, Rest

-----------------------------------------------------------------------------
(***************************************************************************)
(* The inductive invariant.                                                *)
(***************************************************************************)
\* It holds of the seeded tables and of uploads that have not begun.
LEMMA InitIInv == Init => IInv
<1> SUFFICES ASSUME Init PROVE IInv
  OBVIOUS
<1>1. TypeOK
  BY InitType
<1>2. \A u \in Upload : StoredBy(u) = {}
  BY PlansInsertAssumption DEF Init, StoredBy
<1>3. StoredKeys = SeededKeys
  <2>1. ASSUME NEW k \in SeededKeys
        PROVE  k \in StoredKeys
    <3>1. [key |-> k, by |-> Seeder] \in plans
      BY DEF Init
    <3> QED  BY <3>1 DEF StoredKeys
  <2>2. StoredKeys \subseteq SeededKeys
    BY DEF Init, StoredKeys
  <2> QED  BY <2>1, <2>2
<1>4. SeedInv /\ UniquePeriodCategory /\ LockInv
  <2>1. SeedInv
    <3>1. \A p \in plans : \E k \in SeededKeys : p = [key |-> k, by |-> Seeder]
      BY DEF Init
    <3> QED  BY <1>3, <3>1 DEF SeedInv
  <2>2. UniquePeriodCategory
    BY DEF Init, UniquePeriodCategory
  <2>3. LockInv
    BY DEF Init, LockInv
  <2> QED  BY <2>1, <2>2, <2>3
<1>5. \A u \in Upload : UploadInv(u)
  BY <1>2 DEF Init, UploadInv, LoopInv, FlushInv, OutcomeInv, StoredInv,
              ViewInv, Refusal, LostRace
<1> QED
  BY <1>1, <1>4, <1>5 DEF IInv

\* What an upload's part of the invariant says stays so while the upload does
\* nothing, whatever the others add to the tables.
LEMMA Bystander ==
  ASSUME IInv, NEW v \in Upload,
         pc'[v] = pc[v], sheet'[v] = sheet[v], view'[v] = view[v],
         next'[v] = next[v], toInsert'[v] = toInsert[v],
         issues'[v] = issues[v], written'[v] = written[v],
         outcome'[v] = outcome[v],
         plans \subseteq plans', dictionary \subseteq dictionary',
         StoredBy(v)' = StoredBy(v)
  PROVE  UploadInv(v)'
<1> USE DEF IInv, UploadInv
<1>1. StoredKeys \subseteq StoredKeys'
  BY DEF StoredKeys
<1>2. \A n : Settled(v, n) => Settled(v, n)'
  BY <1>1 DEF Settled
<1>3. \A n : Accepted(v, n) => Accepted(v, n)'
  BY DEF Accepted
<1>4. LoopInv(v)'
  BY <1>2, <1>3 DEF LoopInv
<1>5. FlushInv(v)'
  BY <1>3 DEF FlushInv
<1>6. OutcomeInv(v)'
  BY DEF OutcomeInv
<1>7. StoredInv(v)'
  BY DEF StoredInv
<1>8. ViewInv(v)'
  BY <1>1 DEF ViewInv
<1>9. Refusal(v)'
  BY <1>2 DEF Refusal
<1>10. LostRace(v)'
  <2>1. SheetKeys(v)' = SheetKeys(v)
    BY DEF SheetKeys
  <2> QED  BY <2>1 DEF LostRace
<1> QED
  BY <1>4, <1>5, <1>6, <1>7, <1>8, <1>9, <1>10

\* A step of one upload that leaves the tables alone keeps the invariant if it
\* keeps the upload's own part and locks nothing stored or locked by others.
LEMMA QuietStep ==
  ASSUME IInv, TypeOK', UNCHANGED database, NEW u \in Upload,
         \A v \in Upload \ {u} :
            /\ pc'[v] = pc[v] /\ sheet'[v] = sheet[v] /\ view'[v] = view[v]
            /\ next'[v] = next[v] /\ toInsert'[v] = toInsert[v]
            /\ issues'[v] = issues[v] /\ written'[v] = written[v]
            /\ outcome'[v] = outcome[v],
         written'[u] # {} => pc'[u] \in {"flush", "blocked", "commit", "raise"},
         \A k \in written'[u] :
            /\ k \notin StoredKeys
            /\ \A v \in Upload \ {u} : k \notin written[v],
         UploadInv(u)'
  PROVE  IInv'
<1>1. /\ StoredKeys' = StoredKeys
      /\ \A v \in Upload : StoredBy(v)' = StoredBy(v)
  BY DEF StoredKeys, StoredBy, database
<1>2. ASSUME NEW v \in Upload \ {u}
      PROVE  UploadInv(v)'
  BY <1>1, Bystander DEF database
<1>3. LockInv'
  BY <1>1 DEF IInv, LockInv
<1>4. SeedInv' /\ UniquePeriodCategory'
  BY <1>1 DEF IInv, SeedInv, UniquePeriodCategory, database
<1> QED
  BY <1>2, <1>3, <1>4 DEF IInv

\* What an upload holds may be held on to.
LEMMA OwnLocks ==
  ASSUME IInv, NEW u \in Upload, NEW k \in written[u]
  PROVE  k \notin StoredKeys /\ \A v \in Upload \ {u} : k \notin written[v]
  BY DEF IInv, LockInv

\* An upload that leaves the use case by an exception keeps its part of the
\* invariant, given that its refusal is deserved.
LEMMA RaiseStep ==
  ASSUME IInv, TypeOK', UNCHANGED database, NEW u \in Upload,
         pc[u] \notin {"raise", "respond", "done", "lost"}, pc'[u] = "raise",
         outcome'[u] \notin {"none", "created"},
         view'[u] = view[u], Refusal(u)', LostRace(u)'
  PROVE  UploadInv(u)'
<1> USE DEF IInv, UploadInv, database
<1>1. StoredBy(u) = {} /\ StoredBy(u)' = {}
  BY DEF StoredInv, StoredBy
<1>2. LoopInv(u)' /\ FlushInv(u)'
  BY DEF LoopInv, FlushInv
<1>3. OutcomeInv(u)' /\ StoredInv(u)'
  BY <1>1 DEF OutcomeInv, StoredInv
<1>4. ViewInv(u)'
  BY DEF ViewInv, StoredKeys
<1> QED
  BY <1>2, <1>3, <1>4

-----------------------------------------------------------------------------
(***************************************************************************)
(* One lemma per group of actions.                                         *)
(***************************************************************************)
\* Up to the dictionary an upload holds nothing and has found nothing.
LEMMA EarlySteps ==
  ASSUME IInv, TypeOK', NEW u \in Upload,
         \/ Receive(u) \/ Parse(u) \/ RejectFile(u) \/ ParserFails(u)
         \/ ReadDictionary(u)
  PROVE  IInv'
<1> USE DEF TypeOK
<1>1. TypeOK /\ UploadInv(u) /\ StoredBy(u) = {} /\ written[u] = {}
  BY DEF IInv, LockInv, UploadInv, StoredInv, Receive, Parse, RejectFile,
         ParserFails, ReadDictionary, Raise, Goto
<1>2. CASE Receive(u)
  <2>1. UploadInv(u)'
    BY <1>1, <1>2 DEF UploadInv, LoopInv, FlushInv, OutcomeInv, StoredInv,
       ViewInv, Refusal, LostRace, Receive, Goto, database, StoredBy, StoredKeys
  <2> QED
    BY <1>1, <1>2, <2>1, QuietStep DEF Receive, Goto
<1>3. CASE Parse(u)
  <2>1. UploadInv(u)'
    BY <1>1, <1>3 DEF UploadInv, LoopInv, FlushInv, OutcomeInv, StoredInv,
       ViewInv, Refusal, LostRace, Parse, Goto, database, StoredBy, StoredKeys
  <2> QED
    BY <1>1, <1>3, <2>1, QuietStep DEF Parse, Goto
<1>4. CASE RejectFile(u) \/ ParserFails(u)
  <2> USE DEF RejectFile, ParserFails, Raise, Goto
  <2>1. Refusal(u)' /\ LostRace(u)'
    BY <1>4 DEF Refusal, LostRace
  <2>2. UploadInv(u)'
    BY <1>4, <2>1, RaiseStep
  <2> QED
    BY <1>1, <1>4, <2>2, QuietStep
<1>5. CASE ReadDictionary(u)
  <2>1. UploadInv(u)'
    BY <1>1, <1>5 DEF IInv, SeedInv, UploadInv, LoopInv, FlushInv, OutcomeInv,
       StoredInv, ViewInv, Refusal, LostRace, ReadDictionary, Goto, database,
       StoredBy, StoredKeys, Settled, Accepted
  <2> QED
    BY <1>1, <1>5, <2>1, QuietStep DEF ReadDictionary, Goto
<1> QED
  BY <1>2, <1>3, <1>4, <1>5

\* Each turn of the loop settles one row more.
LEMMA LoopSteps ==
  ASSUME IInv, TypeOK', NEW u \in Upload, NEW n, n = next[u],
         ReportRow(u) \/ AcceptRow(u) \/ RejectRows(u) \/ BeginFlush(u)
  PROVE  IInv'
<1> USE DEF TypeOK
<1>1. /\ TypeOK /\ UploadInv(u) /\ StoredBy(u) = {} /\ written[u] = {}
      /\ pc[u] = "check" /\ n \in 1 .. (Len(sheet[u]) + 1)
      /\ \A x \in issues[u] : x.row <= n
      /\ Settled(u, n - 1)
      /\ issues[u] = {} => Accepted(u, n - 1)
      /\ view[u].keys \subseteq StoredKeys /\ view[u].names \subseteq dictionary
  BY DEF IInv, LockInv, UploadInv, StoredInv, LoopInv, ViewInv, ReportRow,
         AcceptRow, RejectRows, BeginFlush, Raise, Goto
<1>2. CASE ReportRow(u)
  <2>1. n <= Len(sheet[u]) /\ sheet[u][n] = Row(u) /\ n \in Nat
    BY <1>1, <1>2 DEF ReportRow, RowsLeft, Row
  <2> DEFINE new == [row |-> n + 1, fault |-> RowFault(u)]
  <2>0. issues'[u] = issues[u] \cup {new}
    BY <1>2 DEF ReportRow
  <2>2. \A x \in issues'[u] : x.row <= next'[u]
    BY <1>1, <1>2 DEF ReportRow
  <2>3. Settled(u, n)'
    <3>1. ASSUME NEW i \in 1 .. n,
                 [row |-> i + 1, fault |-> "exists"] \in issues'[u]
          PROVE  sheet[u][i] \in StoredKeys
      <4>1. CASE i = n
        BY <1>1, <1>2, <2>1, <3>1, <4>1 DEF ReportRow, RowFault
      <4>2. CASE i \in 1 .. (n - 1)
        <5>1. [row |-> i + 1, fault |-> "exists"] \in issues[u]
          BY <2>0, <2>1, <3>1, <4>2
        <5> QED  BY <1>1, <4>2, <5>1 DEF Settled
      <4> QED  BY <2>1, <4>1, <4>2
    <3>2. ASSUME NEW i \in 1 .. n,
                 [row |-> i + 1, fault |-> "repeated"] \in issues'[u]
          PROVE  \E j \in 1 .. (i - 1) : sheet[u][j] = sheet[u][i]
      <4>1. CASE i = n
        BY <1>1, <1>2, <2>1, <3>2, <4>1 DEF ReportRow, RowFault, Seen
      <4>2. CASE i \in 1 .. (n - 1)
        <5>1. [row |-> i + 1, fault |-> "repeated"] \in issues[u]
          BY <2>0, <2>1, <3>2, <4>2
        <5> QED  BY <1>1, <4>2, <5>1 DEF Settled
      <4> QED  BY <2>1, <4>1, <4>2
    <3>3. ASSUME NEW i \in 1 .. n, \A x \in issues'[u] : x.row # i + 1
          PROVE  /\ sheet[u][i] \notin view[u].keys
                 /\ sheet[u][i][2] \in dictionary
                 /\ \A j \in 1 .. (i - 1) : sheet[u][j] # sheet[u][i]
      <4>1. new.row # i + 1 /\ \A x \in issues[u] : x.row # i + 1
        BY <2>0, <3>3
      <4>2. i \in 1 .. (n - 1)
        BY <2>1, <4>1
      <4> QED  BY <1>1, <4>1, <4>2 DEF Settled
    <3> QED
      BY <1>1, <1>2, <3>1, <3>2, <3>3 DEF ReportRow, Settled, database, StoredKeys
  <2>4. issues'[u] # {} /\ next'[u] = n + 1
    BY <1>1, <1>2 DEF ReportRow
  <2>5. LoopInv(u)'
    BY <1>1, <1>2, <2>1, <2>2, <2>3, <2>4 DEF ReportRow, LoopInv
  <2>6. UploadInv(u)'
    BY <1>1, <1>2, <2>5 DEF UploadInv, FlushInv, OutcomeInv, StoredInv,
       ViewInv, Refusal, LostRace, ReportRow, database, StoredBy, StoredKeys
  <2> QED
    BY <1>1, <1>2, <2>6, QuietStep DEF ReportRow
<1>3. CASE AcceptRow(u)
  <2>1. n <= Len(sheet[u]) /\ sheet[u][n] = Row(u) /\ next'[u] = n + 1
    BY <1>1, <1>3 DEF AcceptRow, RowsLeft, Row
  <2>2. /\ Row(u)[2] \in view[u].names
        /\ Row(u) \notin view[u].keys
        /\ \A j \in 1 .. (n - 1) : sheet[u][j] # Row(u)
    BY <1>3 DEF AcceptRow, RowFault, Seen
  <2>3. Settled(u, n)'
    <3>1. /\ issues' = issues /\ sheet' = sheet /\ view' = view
          /\ dictionary' = dictionary /\ StoredKeys' = StoredKeys
      BY <1>3 DEF AcceptRow, database, StoredKeys
    <3>2. \A x \in issues[u] : x.row \in Nat /\ x.row # n + 1
      BY <1>1
    <3>3. \A i \in 1 .. n : i \in 1 .. (n - 1) \/ i = n
      BY <1>1
    <3>4. /\ [row |-> n + 1, fault |-> "exists"] \notin issues[u]
          /\ [row |-> n + 1, fault |-> "repeated"] \notin issues[u]
      BY <3>2
    <3>5. sheet[u][n][2] \in dictionary
      BY <1>1, <2>1, <2>2
    <3> DEFINE Fit(i) ==
          /\ [row |-> i + 1, fault |-> "exists"] \in issues[u]
                => sheet[u][i] \in StoredKeys
          /\ [row |-> i + 1, fault |-> "repeated"] \in issues[u]
                => \E j \in 1 .. (i - 1) : sheet[u][j] = sheet[u][i]
          /\ (\A x \in issues[u] : x.row # i + 1)
                => /\ sheet[u][i] \notin view[u].keys
                   /\ sheet[u][i][2] \in dictionary
                   /\ \A j \in 1 .. (i - 1) : sheet[u][j] # sheet[u][i]
    <3>6. Fit(n)
      BY <2>1, <2>2, <3>4, <3>5
    <3>7. \A i \in 1 .. (n - 1) : Fit(i)
      BY <1>1 DEF Settled
    <3>8. \A i \in 1 .. n : Fit(i)
      BY <3>3, <3>6, <3>7
    <3> QED
      BY <3>1, <3>8 DEF Settled
  <2>4. issues'[u] = {} => Accepted(u, n)'
    <3> SUFFICES ASSUME issues'[u] = {}
                 PROVE  Accepted(u, n)'
      OBVIOUS
    <3>1. /\ issues' = issues /\ sheet' = sheet /\ view' = view
          /\ toInsert'[u] = Append(toInsert[u], Row(u))
      BY <1>1, <1>3 DEF AcceptRow
    <3>2. Accepted(u, n - 1) /\ toInsert[u] \in Seq(Key) /\ Row(u) \in Key
      BY <1>1, <2>1, <3>1
    <3>3. /\ Len(toInsert'[u]) = n
          /\ toInsert'[u][n] = sheet[u][n]
          /\ \A i \in 1 .. (n - 1) : toInsert'[u][i] = toInsert[u][i]
      BY <1>1, <2>1, <3>1, <3>2 DEF Accepted
    <3>4. \A i \in 1 .. n : i \in 1 .. (n - 1) \/ i = n
      BY <1>1
    <3> DEFINE Fit(i) == /\ toInsert'[u][i] = sheet[u][i]
                         /\ sheet[u][i] \notin view[u].keys
                         /\ sheet[u][i][2] \in view[u].names
                         /\ \A j \in 1 .. (i - 1) : sheet[u][j] # sheet[u][i]
    <3>5. Fit(n)
      BY <2>1, <2>2, <3>3
    <3>6. \A i \in 1 .. (n - 1) : Fit(i)
      BY <3>2, <3>3 DEF Accepted
    <3>7. \A i \in 1 .. n : Fit(i)
      BY <3>4, <3>5, <3>6
    <3> QED
      BY <3>1, <3>3, <3>7 DEF Accepted
  <2>5. LoopInv(u)'
    BY <1>1, <1>3, <2>1, <2>3, <2>4 DEF AcceptRow, LoopInv
  <2>6. UploadInv(u)'
    BY <1>1, <1>3, <2>5 DEF UploadInv, FlushInv, OutcomeInv, StoredInv,
       ViewInv, Refusal, LostRace, AcceptRow, database, StoredBy, StoredKeys
  <2> QED
    BY <1>1, <1>3, <2>6, QuietStep DEF AcceptRow
<1>4. CASE RejectRows(u)
  <2>1. n = Len(sheet[u]) + 1
    BY <1>1, <1>4 DEF RejectRows, RowsLeft
  <2>2. Refusal(u)' /\ LostRace(u)'
    BY <1>1, <1>4, <2>1 DEF RejectRows, Raise, Goto, Refusal, LostRace,
       Settled, database, StoredKeys
  <2>3. UploadInv(u)'
    BY <1>4, <2>2, RaiseStep DEF RejectRows, Raise, Goto
  <2> QED
    BY <1>1, <1>4, <2>3, QuietStep DEF RejectRows, Raise, Goto
<1>5. CASE BeginFlush(u)
  <2>1. n = Len(sheet[u]) + 1 /\ Accepted(u, Len(sheet[u]))
    BY <1>1, <1>5 DEF BeginFlush, RowsLeft
  <2>2. FlushInv(u)'
    BY <1>1, <1>5, <2>1 DEF BeginFlush, Goto, UploadInv, FlushInv, Accepted
  <2>3. UploadInv(u)'
    BY <1>1, <1>5, <2>2 DEF UploadInv, LoopInv, OutcomeInv, StoredInv,
       ViewInv, Refusal, LostRace, BeginFlush, Goto, database, StoredBy, StoredKeys
  <2> QED
    BY <1>1, <1>5, <2>3, QuietStep DEF BeginFlush, Goto
<1> QED
  BY <1>2, <1>3, <1>4, <1>5

\* A flush locks one row more, waits, or fails on a row another upload took.
LEMMA FlushSteps ==
  ASSUME IInv, TypeOK', NEW u \in Upload, NEW n, n = next[u],
         Insert(u) \/ WaitForLock(u) \/ DuplicateKey(u)
  PROVE  IInv'
<1> USE DEF TypeOK
<1>1. /\ TypeOK /\ UploadInv(u) /\ StoredBy(u) = {}
      /\ pc[u] \in {"flush", "blocked"}
      /\ n \in 1 .. Len(sheet[u]) /\ Len(sheet[u]) \in Nat
      /\ Len(toInsert[u]) = Len(sheet[u])
      /\ Current(u) = sheet[u][n] /\ Current(u) \notin view[u].keys
      /\ \A j \in 1 .. (n - 1) : sheet[u][j] # Current(u)
      /\ written[u] = {sheet[u][i] : i \in 1 .. (n - 1)}
      /\ Current(u) \notin written[u]
  <2>1. TypeOK /\ UploadInv(u) /\ pc[u] \in {"flush", "blocked"}
    BY DEF IInv, Insert, WaitForLock, DuplicateKey, Raise, Goto
  <2>2. /\ StoredBy(u) = {}
        /\ next[u] <= Len(sheet[u]) /\ Accepted(u, Len(sheet[u]))
        /\ written[u] = {sheet[u][i] : i \in 1 .. (next[u] - 1)}
    BY <2>1 DEF UploadInv, StoredInv, FlushInv
  <2>3. n \in 1 .. Len(sheet[u]) /\ Len(sheet[u]) \in Nat
    BY <2>1, <2>2
  <2>4. /\ Current(u) = sheet[u][n] /\ Current(u) \notin view[u].keys
        /\ \A j \in 1 .. (n - 1) : sheet[u][j] # Current(u)
        /\ Len(toInsert[u]) = Len(sheet[u])
    BY <2>2, <2>3 DEF Accepted, Current
  <2> QED
    BY <2>1, <2>2, <2>3, <2>4
<1>2. CASE Insert(u)
  <2>1. \A v \in Upload \ {u} : Current(u) \notin written[v]
    BY <1>2 DEF Insert, Blockers, Holders
  <2>2. \A k \in written'[u] : /\ k \notin StoredKeys
                              /\ \A v \in Upload \ {u} : k \notin written[v]
    BY <1>1, <1>2, <2>1, OwnLocks DEF Insert, Taken
  <2>3. written'[u] = {sheet[u][i] : i \in 1 .. n}
    <3>1. 1 .. n = 1 .. (n - 1) \cup {n}
      BY <1>1
    <3>2. written'[u] = written[u] \cup {sheet[u][n]}
      BY <1>1, <1>2 DEF Insert
    <3>3. \A k : k \in written'[u] <=> \E i \in 1 .. n : k = sheet[u][i]
      BY <1>1, <3>1, <3>2
    <3> QED  BY <3>3
  <2>4. next'[u] = n + 1 /\ pc'[u] \in {"flush", "commit"}
        /\ (pc'[u] = "commit" <=> n = Len(sheet[u]))
    BY <1>1, <1>2 DEF Insert
  <2>5. Accepted(u, Len(sheet[u]))'
    BY <1>1, <1>2 DEF Insert, UploadInv, FlushInv, Accepted
  <2>6. FlushInv(u)'
    BY <1>1, <1>2, <2>3, <2>4, <2>5 DEF Insert, UploadInv, FlushInv
  <2>7. UploadInv(u)'
    BY <1>1, <1>2, <2>4, <2>6 DEF Insert, UploadInv, LoopInv, OutcomeInv,
       StoredInv, ViewInv, Refusal, LostRace, database, StoredBy, StoredKeys
  <2> QED
    BY <1>2, <2>2, <2>4, <2>7, QuietStep DEF Insert
<1>3. CASE WaitForLock(u)
  <2>1. FlushInv(u)'
    BY <1>1, <1>3 DEF WaitForLock, Goto, UploadInv, FlushInv, Accepted
  <2>2. UploadInv(u)'
    BY <1>1, <1>3, <2>1 DEF WaitForLock, Goto, UploadInv, LoopInv, OutcomeInv,
       StoredInv, ViewInv, Refusal, LostRace, database, StoredBy, StoredKeys
  <2> QED
    BY <1>1, <1>3, <2>2, OwnLocks, QuietStep DEF WaitForLock, Goto
<1>4. CASE DuplicateKey(u)
  <2>1. PICK p \in plans : p.key = Current(u)
    BY <1>1, <1>4 DEF DuplicateKey, Taken, StoredKeys
  <2>2. p.by # u
    BY <1>1, <2>1 DEF StoredBy
  <2>3. p.by # Seeder
    BY <1>1, <2>1 DEF IInv, SeedInv, UploadInv, ViewInv
  <2>4. Current(u) \in SheetKeys(u)
    BY <1>1 DEF SheetKeys
  <2>5. Refusal(u)' /\ LostRace(u)'
    BY <1>1, <1>4, <2>1, <2>2, <2>3, <2>4
    DEF DuplicateKey, Raise, Goto, Refusal, LostRace, SheetKeys, database
  <2>6. UploadInv(u)'
    BY <1>1, <1>4, <2>5, RaiseStep DEF DuplicateKey, Raise, Goto
  <2> QED
    BY <1>1, <1>4, <2>6, OwnLocks, QuietStep DEF DuplicateKey, Raise, Goto
<1> QED
  BY <1>2, <1>3, <1>4

\* Failures that store nothing, and the rollback they lead to.
LEMMA FailSteps ==
  ASSUME IInv, TypeOK', NEW u \in Upload,
         \/ SumOutOfRange(u) \/ DeadlockVictim(u) \/ LockWaitTimeout(u)
         \/ ConnectionLost(u) \/ Rollback(u) \/ Respond(u)
  PROVE  IInv'
<1> USE DEF TypeOK
<1>1. TypeOK /\ UploadInv(u)
  BY DEF IInv
<1>2. CASE \/ SumOutOfRange(u) \/ DeadlockVictim(u) \/ LockWaitTimeout(u)
           \/ ConnectionLost(u)
  <2>1. /\ pc[u] \notin {"raise", "respond", "done", "lost"}
        /\ pc'[u] = "raise" /\ outcome'[u] \in {"out_of_range", "deadlock",
                                              "timeout", "disconnect"}
        /\ written'[u] \subseteq written[u]
        /\ UNCHANGED <<database, sheet, view, next, toInsert, issues>>
        /\ \A v \in Upload \ {u} : /\ pc'[v] = pc[v] /\ written'[v] = written[v]
                                    /\ outcome'[v] = outcome[v]
    BY <1>1, <1>2 DEF SumOutOfRange, DeadlockVictim, LockWaitTimeout,
                      ConnectionLost, UsesDatabase, Raise, Goto
  <2>2. Refusal(u)' /\ LostRace(u)'
    BY <2>1 DEF Refusal, LostRace
  <2>3. UploadInv(u)'
    BY <2>1, <2>2, RaiseStep
  <2> QED
    BY <2>1, <2>3, OwnLocks, QuietStep
<1>3. CASE Rollback(u)
  <2>1. UploadInv(u)'
    BY <1>1, <1>3 DEF Rollback, Goto, UploadInv, LoopInv, FlushInv, OutcomeInv,
       StoredInv, ViewInv, Refusal, LostRace, SheetKeys, Settled, database,
       StoredBy, StoredKeys
  <2> QED
    BY <1>1, <1>3, <2>1, QuietStep DEF Rollback, Goto
<1>4. CASE Respond(u)
  <2>1. written[u] = {}
    BY <1>4 DEF Respond, Goto, IInv, LockInv
  <2>2. UploadInv(u)'
    BY <1>1, <1>4 DEF Respond, Goto, UploadInv, LoopInv, FlushInv, OutcomeInv,
       StoredInv, ViewInv, Refusal, LostRace, SheetKeys, Settled, database,
       StoredBy, StoredKeys
  <2> QED
    BY <1>1, <1>4, <2>1, <2>2, QuietStep DEF Respond, Goto
<1> QED
  BY <1>2, <1>3, <1>4

\* A commit stores the whole sheet, under keys nobody else has stored or locked.
LEMMA CommitSteps ==
  ASSUME IInv, TypeOK', NEW u \in Upload,
         Commit(u) \/ CommitUnacknowledged(u)
  PROVE  IInv'
<1> USE DEF TypeOK
<1>1. /\ TypeOK /\ UploadInv(u) /\ StoredBy(u) = {} /\ pc[u] = "commit"
      /\ sheet[u] # <<>> /\ Accepted(u, Len(sheet[u]))
      /\ written[u] = {sheet[u][i] : i \in 1 .. Len(sheet[u])}
  <2>1. TypeOK /\ UploadInv(u) /\ pc[u] = "commit"
    BY DEF IInv, Commit, CommitUnacknowledged, Raise, Goto
  <2>2. /\ sheet[u] # <<>> /\ Accepted(u, Len(sheet[u])) /\ StoredBy(u) = {}
        /\ written[u] = {sheet[u][i] : i \in 1 .. (next[u] - 1)}
        /\ next[u] = Len(sheet[u]) + 1
    BY <2>1 DEF UploadInv, StoredInv, FlushInv
  <2>3. next[u] - 1 = Len(sheet[u])
    BY <2>1, <2>2
  <2> QED  BY <2>1, <2>2, <2>3
<1>2. /\ plans' = plans \cup RowsOf(u)
      /\ written'[u] = {}
      /\ pc'[u] \in {"respond", "raise"}
      /\ pc'[u] = "raise" => outcome'[u] = "disconnect"
      /\ outcome'[u] \in {"created", "disconnect"}
      /\ UNCHANGED <<dictionary, sheet, view, next, toInsert, issues>>
      /\ \A v \in Upload \ {u} : /\ pc'[v] = pc[v] /\ written'[v] = written[v]
                                  /\ outcome'[v] = outcome[v]
  BY <1>1 DEF Commit, CommitUnacknowledged, Raise, Goto
<1>3. /\ RowsOf(u) = {[key |-> sheet[u][i], by |-> u] : i \in DOMAIN sheet[u]}
      /\ RowsOf(u) # {}
  <2>1. DOMAIN sheet[u] = 1 .. Len(sheet[u]) /\ 1 \in DOMAIN sheet[u]
    BY <1>1, EmptySeq, LenProperties
  <2>2. \A k : k \in written[u] <=> \E i \in DOMAIN sheet[u] : k = sheet[u][i]
    BY <1>1, <2>1
  <2>3. \A r : r \in RowsOf(u) <=> \E i \in DOMAIN sheet[u] :
                                     r = [key |-> sheet[u][i], by |-> u]
    BY <2>2 DEF RowsOf
  <2> QED  BY <2>1, <2>3
<1>4. StoredKeys' = StoredKeys \cup written[u]
  <2>1. ASSUME NEW k
        PROVE  k \in StoredKeys' <=> k \in StoredKeys \cup written[u]
    <3>1. k \in written[u] => [key |-> k, by |-> u] \in plans'
      BY <1>2 DEF RowsOf
    <3>2. k \in written[u] => k \in StoredKeys'
      BY <3>1 DEF StoredKeys
    <3> QED
      BY <1>2, <3>2 DEF StoredKeys, RowsOf
  <2> QED  BY <2>1
<1>5. StoredBy(u)' = RowsOf(u)
  BY <1>1, <1>2 DEF StoredBy, RowsOf
<1>6. \A v \in Upload \ {u} : StoredBy(v)' = StoredBy(v)
  BY <1>2 DEF StoredBy, RowsOf
<1>7. ASSUME NEW v \in Upload \ {u}
      PROVE  UploadInv(v)'
  BY <1>2, <1>6, Bystander
<1>8. UploadInv(u)'
  <2>1. LoopInv(u)' /\ FlushInv(u)' /\ Refusal(u)' /\ LostRace(u)'
    BY <1>2 DEF LoopInv, FlushInv, Refusal, LostRace
  <2>2. OutcomeInv(u)'
    BY <1>2, <1>3, <1>5 DEF OutcomeInv
  <2>3. \A i, j \in DOMAIN sheet[u] : sheet[u][i] = sheet[u][j] => i = j
    <3>1. \A i, j \in DOMAIN sheet[u] : j < i => sheet[u][j] # sheet[u][i]
      BY <1>1 DEF Accepted
    <3> QED  BY <1>1, <3>1
  <2>4. StoredInv(u)'
    BY <1>1, <1>2, <1>3, <1>5, <2>3 DEF StoredInv
  <2>5. ViewInv(u)'
    BY <1>1, <1>2, <1>4 DEF UploadInv, ViewInv
  <2> QED
    BY <2>1, <2>2, <2>4, <2>5 DEF UploadInv
<1>9. LockInv'
  BY <1>2, <1>4 DEF IInv, LockInv
<1>10. SeedInv'
  BY <1>2, <1>4, PlansInsertAssumption DEF IInv, SeedInv, RowsOf
<1>11. UniquePeriodCategory'
  <2>1. \A p \in RowsOf(u) : p.key \in written[u]
    BY DEF RowsOf
  <2>2. \A p \in plans : p.key \notin written[u]
    BY DEF IInv, LockInv, StoredKeys
  <2>3. \A p, q \in RowsOf(u) : p.key = q.key => p = q
    BY DEF RowsOf
  <2> QED
    BY <1>2, <2>1, <2>2, <2>3 DEF IInv, UniquePeriodCategory
<1> QED
  BY <1>7, <1>8, <1>9, <1>10, <1>11 DEF IInv

\* A crash stores nothing and leaves no lock.
LEMMA CrashStep ==
  ASSUME IInv, TypeOK', Crash
  PROVE  IInv'
<1> USE DEF TypeOK
<1>1. /\ StoredKeys' = StoredKeys
      /\ \A u \in Upload : StoredBy(u)' = StoredBy(u)
  BY DEF Crash, database, StoredKeys, StoredBy
<1>2. ASSUME NEW u \in Upload
      PROVE  UploadInv(u)'
  <2>1. CASE InFlight(u)
    <3>1. pc'[u] = "lost" /\ UploadInv(u)
      BY <2>1 DEF Crash, IInv
    <3>2. LoopInv(u)' /\ FlushInv(u)' /\ OutcomeInv(u)' /\ StoredInv(u)'
      BY <1>1, <3>1 DEF Crash, UploadInv, LoopInv, FlushInv, OutcomeInv, StoredInv
    <3>3. ViewInv(u)' /\ Refusal(u)'
      BY <1>1, <3>1 DEF Crash, UploadInv, ViewInv, Refusal, Settled, database
    <3>4. LostRace(u)'
      <4>1. SheetKeys(u)' = SheetKeys(u)
        BY DEF SheetKeys, Crash
      <4> QED  BY <3>1, <4>1 DEF Crash, UploadInv, LostRace, database
    <3> QED  BY <3>2, <3>3, <3>4 DEF UploadInv
  <2>2. CASE ~InFlight(u)
    <3>1. written[u] = {} /\ written'[u] = {} /\ pc'[u] = pc[u]
      BY <2>2 DEF Crash, InFlight, IInv, LockInv
    <3> QED  BY <1>1, <3>1, Bystander DEF Crash, database
  <2> QED  BY <2>1, <2>2
<1>3. LockInv' /\ SeedInv' /\ UniquePeriodCategory'
  BY <1>1 DEF Crash, database, IInv, LockInv, SeedInv, UniquePeriodCategory
<1> QED
  BY <1>2, <1>3 DEF IInv

\* No upload minds a category more.
LEMMA SeedStep ==
  ASSUME IInv, TypeOK', NEW c \in Category, SeedCategory(c)
  PROVE  IInv'
<1>1. /\ StoredKeys' = StoredKeys
      /\ \A u \in Upload : StoredBy(u)' = StoredBy(u)
  BY DEF SeedCategory, StoredKeys, StoredBy
<1>2. ASSUME NEW u \in Upload
      PROVE  UploadInv(u)'
  BY <1>1, Bystander DEF SeedCategory
<1>3. LockInv' /\ SeedInv' /\ UniquePeriodCategory'
  BY <1>1 DEF SeedCategory, IInv, LockInv, SeedInv, UniquePeriodCategory
<1> QED
  BY <1>2, <1>3 DEF IInv

\* Every step keeps the inductive invariant.
LEMMA NextIInv == IInv /\ [Next]_vars => IInv'
<1> SUFFICES ASSUME IInv, [Next]_vars PROVE IInv'
  OBVIOUS
<1>1. TypeOK'
  <2>1. \A u \in Upload : pc[u] \in {"flush", "blocked"}
                             => next[u] <= Len(toInsert[u])
    BY DEF IInv, UploadInv, FlushInv, Accepted
  <2> QED  BY <2>1, NextType DEF IInv
<1>2. ASSUME NEW u \in Upload, Receive(u) \/ ServerStep(u) \/ Failure(u)
      PROVE  IInv'
  BY <1>1, <1>2, EarlySteps, LoopSteps, FlushSteps, FailSteps, CommitSteps
  DEF ServerStep, Failure
<1>3. CASE Crash
  BY <1>1, <1>3, CrashStep
<1>4. ASSUME NEW c \in Category, SeedCategory(c)
      PROVE  IInv'
  BY <1>1, <1>4, SeedStep
<1>5. CASE UNCHANGED vars
  <2>1. /\ StoredKeys' = StoredKeys
        /\ \A u \in Upload : StoredBy(u)' = StoredBy(u)
    BY <1>5 DEF vars, database, StoredKeys, StoredBy
  <2>2. ASSUME NEW u \in Upload
        PROVE  UploadInv(u)'
    BY <1>5, <2>1, Bystander DEF vars, database
  <2>3. LockInv' /\ SeedInv' /\ UniquePeriodCategory'
    BY <1>5, <2>1 DEF vars, database, IInv, LockInv, SeedInv, UniquePeriodCategory
  <2> QED  BY <1>1, <2>2, <2>3 DEF IInv
<1> QED
  BY <1>2, <1>3, <1>4, <1>5 DEF Next, Rest

-----------------------------------------------------------------------------
(***************************************************************************)
(* What follows for every execution.                                       *)
(***************************************************************************)
\* The inductive invariant holds throughout every execution.
THEOREM Invariance == Spec => []IInv
  BY InitIInv, NextIInv, PTL DEF Spec

\* Every variable keeps to its range.
THEOREM TypeCorrect == Spec => []TypeOK
<1>1. IInv => TypeOK
  BY DEF IInv
<1> QED  BY <1>1, Invariance, PTL

\* No two plans ever share a period and a category, however many uploads race.
THEOREM NoDuplicatePlans == Spec => []UniquePeriodCategory
<1>1. IInv => UniquePeriodCategory
  BY DEF IInv
<1> QED  BY <1>1, Invariance, PTL

\* The rows stored for an upload are those of its sheet, all of them.
LEMMA IInvAtomic == IInv => AllOrNothing
<1> SUFFICES ASSUME IInv, NEW u \in Upload
             PROVE  KeysStoredBy(u) \in {{}, SheetKeys(u)}
  BY DEF AllOrNothing
<1>1. CASE StoredBy(u) = {}
  BY <1>1 DEF KeysStoredBy
<1>2. CASE StoredBy(u) # {}
  <2>1. StoredBy(u) = {[key |-> sheet[u][i], by |-> u] : i \in DOMAIN sheet[u]}
    BY <1>2 DEF IInv, UploadInv, StoredInv
  <2>2. \A k : k \in KeysStoredBy(u) <=> k \in SheetKeys(u)
    <3>1. ASSUME NEW i \in DOMAIN sheet[u]
          PROVE  sheet[u][i] \in KeysStoredBy(u)
      <4>1. [key |-> sheet[u][i], by |-> u] \in StoredBy(u)
        BY <2>1
      <4> QED  BY <4>1 DEF KeysStoredBy
    <3> QED  BY <2>1, <3>1 DEF KeysStoredBy, SheetKeys
  <2> QED  BY <2>2
<1> QED  BY <1>1, <1>2

\* Whatever cuts an upload short, its sheet is stored whole or not at all.
THEOREM SheetsAreAtomic == Spec => []AllOrNothing
  BY IInvAtomic, Invariance, PTL

\* Every 422 on a readable sheet is deserved, row by row.
THEOREM RefusalsAreJustified == Spec => []RefusalJustified
<1>1. IInv => RefusalJustified
  BY DEF IInv, UploadInv, RefusalJustified
<1> QED  BY <1>1, Invariance, PTL

\* The unique constraint speaks up only for a rival's row stored meanwhile.
THEOREM LostRacesAreJustified == Spec => []LostRaceJustified
<1>1. IInv => LostRaceJustified
  BY DEF IInv, UploadInv, LostRaceJustified
<1> QED  BY <1>1, Invariance, PTL

\* A sheet stored without two equal rows makes as many plans as it has rows.
LEMMA StoredCount ==
  ASSUME IInv, NEW u \in Upload, StoredBy(u) # {}
  PROVE  Cardinality(StoredBy(u)) = Len(sheet[u])
<1> DEFINE n == Len(sheet[u])
           f == [i \in 1 .. n |-> [key |-> sheet[u][i], by |-> u]]
<1>1. /\ n \in Nat /\ DOMAIN sheet[u] = 1 .. n
      /\ StoredBy(u) = {[key |-> sheet[u][i], by |-> u] : i \in 1 .. n}
      /\ \A i, j \in 1 .. n : sheet[u][i] = sheet[u][j] => i = j
  <2>1. n \in Nat /\ DOMAIN sheet[u] = 1 .. n
    BY LenProperties DEF IInv, TypeOK
  <2>2. StoredInv(u)
    BY DEF IInv, UploadInv
  <2> QED  BY <2>1, <2>2 DEF StoredInv
<1> HIDE DEF n
<1>2. f \in Bijection(1 .. n, StoredBy(u))
  BY <1>1 DEF Bijection, Injection, Surjection, IsInjective
<1> QED
  BY <1>1, <1>2, FS_CountingElements DEF ExistsBijection, n

\* A 201 means that all of the sheet is stored, a 422 that none of it is.
THEOREM AnswersAreTrue == Spec => []AnswerTruth
<1>1. IInv => AnswerTruth
  <2> SUFFICES ASSUME IInv, NEW u \in Upload
               PROVE  /\ Answer(u) = "201" =>
                            /\ KeysStoredBy(u) = SheetKeys(u)
                            /\ sheet[u] # <<>>
                            /\ Cardinality(StoredBy(u)) = Len(sheet[u])
                      /\ Answer(u) = "422" => StoredBy(u) = {}
    BY DEF AnswerTruth
  <2>1. ASSUME Answer(u) = "201"
        PROVE  /\ KeysStoredBy(u) = SheetKeys(u)
               /\ sheet[u] # <<>>
               /\ Cardinality(StoredBy(u)) = Len(sheet[u])
    <3>1. outcome[u] = "created"
      BY <2>1 DEF Answer, Status
    <3>2. StoredBy(u) # {} /\ sheet[u] # <<>>
      BY <3>1 DEF IInv, UploadInv, OutcomeInv, StoredInv
    <3>3. KeysStoredBy(u) # {}
      BY <3>2 DEF KeysStoredBy
    <3> QED  BY <3>2, <3>3, IInvAtomic, StoredCount DEF AllOrNothing
  <2>2. ASSUME Answer(u) = "422"
        PROVE  StoredBy(u) = {}
    <3>1. outcome[u] = "invalid"
      BY <2>2 DEF Answer, Status
    <3> QED  BY <3>1 DEF IInv, UploadInv, StoredInv
  <2> QED  BY <2>1, <2>2
<1> QED  BY <1>1, Invariance, PTL

-----------------------------------------------------------------------------
(***************************************************************************)
(* PlansInsert implements PlanBook: each step of the server or of the      *)
(* database is one step of the plan book or none.                          *)
(***************************************************************************)
\* What an upload's clients could see hangs on these three alone.
LEMMA SameStanding ==
  ASSUME NEW v \in Upload, pc'[v] = pc[v], outcome'[v] = outcome[v],
         StoredBy(v)' = StoredBy(v)
  PROVE  Verdict(v)' = Verdict(v) /\ Answer(v)' = Answer(v)
  BY DEF Verdict, Answer

\* The server starts with an open book and nothing handed in.
LEMMA BookInitially == Init => Book!BookInit
<1> SUFFICES ASSUME Init PROVE Book!BookInit
  OBVIOUS
<1>1. \A u \in Upload : StoredBy(u) = {}
  BY PlansInsertAssumption DEF Init, StoredBy
<1>2. \A u \in Upload : Verdict(u) = "none" /\ Answer(u) = "none"
  BY <1>1 DEF Init, Verdict, Answer
<1> QED
  BY <1>2 DEF Init, Book!BookInit

\* A step of u that changes no more than u's standing leaves the others' alone.
LEMMA OneVerdict ==
  ASSUME NEW u \in Upload, NEW w, NEW a,
         Verdict(u)' = w, Answer(u)' = a,
         \A v \in Upload \ {u} : Verdict(v)' = Verdict(v) /\ Answer(v)' = Answer(v)
  PROVE  /\ [v \in Upload |-> Verdict(v)]'
               = [[v \in Upload |-> Verdict(v)] EXCEPT ![u] = w]
         /\ [v \in Upload |-> Answer(v)]'
               = [[v \in Upload |-> Answer(v)] EXCEPT ![u] = a]
         /\ w = Verdict(u) => [v \in Upload |-> Verdict(v)]'
                                 = [v \in Upload |-> Verdict(v)]
         /\ a = Answer(u) => [v \in Upload |-> Answer(v)]'
                                = [v \in Upload |-> Answer(v)]
  OBVIOUS

\* While a sheet is read and checked the book does not move.
LEMMA SilentSteps ==
  ASSUME IInv, NEW u \in Upload,
         \/ Parse(u) \/ ReadDictionary(u) \/ ReportRow(u) \/ AcceptRow(u)
         \/ BeginFlush(u) \/ Insert(u) \/ WaitForLock(u) \/ Rollback(u)
  PROVE  UNCHANGED Book!bookVars
<1>1. /\ UNCHANGED <<plans, dictionary, sheet, outcome>>
      /\ \A v \in Upload \ {u} : pc'[v] = pc[v]
      /\ \/ /\ pc[u] \in {"parse", "begin", "check", "flush", "blocked"}
            /\ pc'[u] \in {"begin", "check", "flush", "blocked", "commit"}
         \/ pc[u] = "raise" /\ pc'[u] = "respond" /\ outcome[u] # "none"
  <2> USE DEF TypeOK, database, Goto
  <2>0. TypeOK
    BY DEF IInv
  <2>1. CASE Parse(u)           BY <2>0, <2>1 DEF Parse
  <2>2. CASE ReadDictionary(u)  BY <2>0, <2>2 DEF ReadDictionary
  <2>3. CASE ReportRow(u)       BY <2>0, <2>3 DEF ReportRow
  <2>4. CASE AcceptRow(u)       BY <2>0, <2>4 DEF AcceptRow
  <2>5. CASE BeginFlush(u)      BY <2>0, <2>5 DEF BeginFlush
  <2>6. CASE Insert(u)          BY <2>0, <2>6 DEF Insert
  <2>7. CASE WaitForLock(u)     BY <2>0, <2>7 DEF WaitForLock
  <2>8. CASE Rollback(u)
    BY <2>0, <2>8 DEF Rollback, IInv, UploadInv, OutcomeInv
  <2> QED  BY <2>1, <2>2, <2>3, <2>4, <2>5, <2>6, <2>7, <2>8
<1>2. \A v \in Upload : StoredBy(v)' = StoredBy(v)
  BY <1>1 DEF StoredBy
<1>3. \A v \in Upload \ {u} : Verdict(v)' = Verdict(v) /\ Answer(v)' = Answer(v)
  BY <1>1, <1>2, SameStanding
<1>4. Verdict(u)' = Verdict(u) /\ Answer(u)' = Answer(u)
  BY <1>1, <1>2 DEF Verdict, Answer
<1> QED
  BY <1>1, <1>3, <1>4, OneVerdict DEF Book!bookVars

\* An upload that fails is refused, if it was not stored already.
LEMMA RefusingSteps ==
  ASSUME IInv, NEW u \in Upload,
         \/ RejectFile(u) \/ ParserFails(u) \/ RejectRows(u) \/ DuplicateKey(u)
         \/ SumOutOfRange(u) \/ DeadlockVictim(u) \/ LockWaitTimeout(u) \/ ConnectionLost(u)
  PROVE  Book!Refuse(u)
<1>1. /\ UNCHANGED <<plans, dictionary, sheet>>
      /\ \A v \in Upload \ {u} : pc'[v] = pc[v] /\ outcome'[v] = outcome[v]
      /\ pc[u] \in {"parse", "begin", "check", "flush", "blocked", "commit"}
      /\ pc'[u] = "raise" /\ outcome'[u] # "none"
  BY DEF IInv, TypeOK, database, RejectFile, ParserFails, RejectRows, DuplicateKey,
         SumOutOfRange, DeadlockVictim, LockWaitTimeout, ConnectionLost, UsesDatabase, Raise, Goto
<1>2. \A v \in Upload : StoredBy(v)' = StoredBy(v)
  BY <1>1 DEF StoredBy
<1>3. \A v \in Upload \ {u} : Verdict(v)' = Verdict(v) /\ Answer(v)' = Answer(v)
  BY <1>1, <1>2, SameStanding
<1>4. StoredBy(u) = {} /\ outcome[u] = "none"
  BY <1>1 DEF IInv, UploadInv, StoredInv, OutcomeInv
<1>5. /\ Verdict(u) = "pending" /\ Verdict(u)' = "refused"
      /\ Answer(u)' = Answer(u)
  BY <1>1, <1>2, <1>4 DEF Verdict, Answer
<1> QED
  BY <1>1, <1>3, <1>5, OneVerdict DEF Book!Refuse

\* A commit, acknowledged or not, is the instant the book takes the sheet.
LEMMA StoringSteps ==
  ASSUME IInv, NEW u \in Upload, Commit(u) \/ CommitUnacknowledged(u)
  PROVE  Book!Store(u)
<1> DEFINE rows == {[key |-> sheet[u][i], by |-> u] : i \in DOMAIN sheet[u]}
<1>1. /\ UNCHANGED <<dictionary, sheet>>
      /\ plans' = plans \cup RowsOf(u)
      /\ \A v \in Upload \ {u} : pc'[v] = pc[v] /\ outcome'[v] = outcome[v]
      /\ pc[u] = "commit" /\ pc'[u] \in {"raise", "respond"}
  BY DEF IInv, TypeOK, database, Commit, CommitUnacknowledged, Raise, Goto
<1>2. /\ StoredBy(u) = {} /\ outcome[u] = "none"
      /\ sheet[u] # <<>> /\ Accepted(u, Len(sheet[u]))
      /\ Len(sheet[u]) \in Nat /\ DOMAIN sheet[u] = 1 .. Len(sheet[u])
      /\ 1 \in DOMAIN sheet[u]
      /\ written[u] = {sheet[u][i] : i \in DOMAIN sheet[u]}
      /\ view[u].names \subseteq dictionary
      /\ written[u] \cap StoredKeys = {}
  <2>1. TypeOK /\ UploadInv(u) /\ LockInv
    BY DEF IInv
  <2>2. /\ Len(sheet[u]) \in Nat /\ DOMAIN sheet[u] = 1 .. Len(sheet[u])
        /\ sheet[u] # <<>> => 1 \in DOMAIN sheet[u]
    BY <2>1, EmptySeq, LenProperties DEF TypeOK
  <2>3. /\ StoredBy(u) = {} /\ outcome[u] = "none"
        /\ sheet[u] # <<>> /\ Accepted(u, Len(sheet[u]))
        /\ view[u].names \subseteq dictionary
        /\ written[u] \cap StoredKeys = {}
    BY <1>1, <2>1 DEF UploadInv, StoredInv, OutcomeInv, FlushInv, ViewInv, LockInv
  <2>4. written[u] = {sheet[u][i] : i \in 1 .. (next[u] - 1)}
        /\ next[u] - 1 = Len(sheet[u])
    BY <1>1, <2>1, <2>2 DEF UploadInv, FlushInv
  <2> QED  BY <2>2, <2>3, <2>4
<1>3. RowsOf(u) = rows
  <2>1. \A r : r \in RowsOf(u) <=> r \in rows
    BY <1>2 DEF RowsOf
  <2> QED  BY <2>1
<1>4. Book!Acceptable(sheet[u])
  <2>1. \A i \in DOMAIN sheet[u] : sheet[u][i][2] \in dictionary
    BY <1>2 DEF Accepted
  <2>2. \A i, j \in DOMAIN sheet[u] : sheet[u][i] = sheet[u][j] => i = j
    <3>1. \A i, j \in DOMAIN sheet[u] : j < i => sheet[u][j] # sheet[u][i]
      BY <1>2 DEF Accepted
    <3> QED  BY <1>2, <3>1
  <2>3. \A i \in DOMAIN sheet[u] : \A p \in plans : p.key # sheet[u][i]
    BY <1>2 DEF StoredKeys
  <2> QED  BY <1>2, <2>1, <2>2, <2>3 DEF Book!Acceptable
<1>5. \A v \in Upload \ {u} : StoredBy(v)' = StoredBy(v)
  BY <1>1 DEF StoredBy, RowsOf
<1>6. \A v \in Upload \ {u} : Verdict(v)' = Verdict(v) /\ Answer(v)' = Answer(v)
  BY <1>1, <1>5, SameStanding
<1>7. StoredBy(u)' # {}
  <2>1. [key |-> sheet[u][1], by |-> u] \in RowsOf(u)
    BY <1>2, <1>3
  <2> QED  BY <1>1, <2>1 DEF StoredBy
<1>8. /\ Verdict(u) = "pending" /\ Verdict(u)' = "stored"
      /\ Answer(u)' = Answer(u)
  BY <1>1, <1>2, <1>7 DEF Verdict, Answer
<1> QED
  BY <1>1, <1>3, <1>4, <1>6, <1>8, OneVerdict DEF Book!Store, Book!RowsOf

\* Receiving a request hands its sheet in.
LEMMA ReceivingStep ==
  ASSUME IInv, NEW u \in Upload, Receive(u)
  PROVE  \E s \in Sheets[u] : Book!HandIn(u, s)
<1>1. PICK s \in Sheets[u] : sheet' = [sheet EXCEPT ![u] = s]
  BY DEF Receive
<1>2. /\ UNCHANGED <<plans, dictionary, outcome>>
      /\ \A v \in Upload \ {u} : pc'[v] = pc[v]
      /\ pc[u] = "idle" /\ pc'[u] = "parse"
  BY DEF IInv, TypeOK, database, Receive, Goto
<1>3. \A v \in Upload : StoredBy(v)' = StoredBy(v)
  BY <1>2 DEF StoredBy
<1>4. \A v \in Upload \ {u} : Verdict(v)' = Verdict(v) /\ Answer(v)' = Answer(v)
  BY <1>2, <1>3, SameStanding
<1>5. StoredBy(u) = {} /\ outcome[u] = "none"
  BY <1>2 DEF IInv, UploadInv, StoredInv, OutcomeInv
<1>6. /\ Verdict(u) = "none" /\ Verdict(u)' = "pending"
      /\ Answer(u)' = Answer(u)
  BY <1>2, <1>3, <1>5 DEF Verdict, Answer
<1> QED
  BY <1>1, <1>2, <1>4, <1>6, OneVerdict DEF Book!HandIn

\* Responding tells the client what became of its sheet.
LEMMA RespondingStep ==
  ASSUME IInv, NEW u \in Upload, Respond(u)
  PROVE  Book!Tell(u)
<1>1. /\ UNCHANGED <<plans, dictionary, sheet, outcome>>
      /\ \A v \in Upload \ {u} : pc'[v] = pc[v]
      /\ pc[u] = "respond" /\ pc'[u] = "done"
  BY DEF IInv, TypeOK, database, Respond, Goto
<1>2. \A v \in Upload : StoredBy(v)' = StoredBy(v)
  BY <1>1 DEF StoredBy
<1>3. \A v \in Upload \ {u} : Verdict(v)' = Verdict(v) /\ Answer(v)' = Answer(v)
  BY <1>1, <1>2, SameStanding
<1>4. /\ outcome[u] # "none"
      /\ outcome[u] = "created" => StoredBy(u) # {}
      /\ outcome[u] = "invalid" => StoredBy(u) = {}
  BY <1>1 DEF IInv, UploadInv, StoredInv, OutcomeInv
<1>5. /\ Verdict(u)' = Verdict(u) /\ Answer(u) = "none"
      /\ \/ Verdict(u) = "stored" /\ Answer(u)' = "201"
         \/ Verdict(u) = "refused" /\ Answer(u)' = "422"
         \/ Verdict(u) \in {"stored", "refused"} /\ Answer(u)' = "500"
  BY <1>1, <1>2, <1>4 DEF Verdict, Answer, Status
<1> QED
  BY <1>1, <1>3, <1>5, OneVerdict DEF Book!Tell

\* A crash makes the uploads in flight vanish.
LEMMA CrashingStep ==
  ASSUME IInv, Crash
  PROVE  \E U \in SUBSET Upload : Book!Vanish(U)
<1> DEFINE U == {u \in Upload : InFlight(u)}
<1>1. /\ UNCHANGED <<plans, dictionary, sheet, outcome>>
      /\ \A v \in Upload : pc'[v] = IF v \in U THEN "lost" ELSE pc[v]
      /\ \A v \in U : pc[v] \notin {"idle", "done", "lost"}
  BY DEF database, Crash, InFlight
<1>2. \A v \in Upload : StoredBy(v)' = StoredBy(v)
  BY <1>1 DEF StoredBy
<1>3. ASSUME NEW v \in Upload
      PROVE  /\ Verdict(v)' = IF v \in U /\ Verdict(v) = "pending"
                                THEN "refused" ELSE Verdict(v)
             /\ Answer(v)' = IF v \in U THEN "lost" ELSE Answer(v)
  <2>1. CASE v \in U
    BY <1>1, <1>2, <2>1 DEF Verdict, Answer
  <2>2. CASE v \notin U
    BY <1>1, <1>2, <2>2, SameStanding
  <2> QED  BY <2>1, <2>2
<1>4. \A v \in U : Verdict(v) # "none" /\ Answer(v) = "none"
  BY <1>1 DEF Verdict, Answer
<1>5. /\ [v \in Upload |-> Verdict(v)]'
            = [v \in Upload |-> IF v \in U /\ Verdict(v) = "pending"
                                   THEN "refused" ELSE Verdict(v)]
      /\ [v \in Upload |-> Answer(v)]'
            = [v \in Upload |-> IF v \in U THEN "lost" ELSE Answer(v)]
  BY <1>3
<1>6. Book!Vanish(U)
  <2> HIDE DEF U
  <2>1. \A v \in Upload : [w \in Upload |-> Verdict(w)][v] = Verdict(v)
    OBVIOUS
  <2>2. U \subseteq Upload
    BY DEF U
  <2> QED
    BY <1>1, <1>4, <1>5, <2>1, <2>2 DEF Book!Vanish
<1> QED
  BY <1>6

\* Steps that change nothing a client could see leave the book as it is.
LEMMA IdleStep ==
  ASSUME UNCHANGED <<plans, pc, outcome>>
  PROVE  \A v \in Upload : Verdict(v)' = Verdict(v) /\ Answer(v)' = Answer(v)
<1>1. \A v \in Upload : StoredBy(v)' = StoredBy(v)
  BY DEF StoredBy
<1> QED
  BY <1>1, SameStanding

\* Each step of the server is a step of the book or none.
LEMMA BookStep == IInv /\ [Next]_vars => [Book!BookNext]_(Book!bookVars)
<1> SUFFICES ASSUME IInv, [Next]_vars
             PROVE  Book!BookNext \/ UNCHANGED Book!bookVars
  OBVIOUS
<1>1. ASSUME NEW u \in Upload, Receive(u) \/ ServerStep(u) \/ Failure(u)
      PROVE  Book!BookNext \/ UNCHANGED Book!bookVars
  BY <1>1, ReceivingStep, SilentSteps, RefusingSteps, StoringSteps, RespondingStep
  DEF ServerStep, Failure, Book!BookNext
<1>2. CASE Crash
  BY <1>2, CrashingStep DEF Book!BookNext
<1>3. ASSUME NEW c \in Category, SeedCategory(c)
      PROVE  Book!LearnCategory(c)
  BY <1>3, IdleStep DEF SeedCategory, Book!LearnCategory
<1>4. CASE UNCHANGED vars
  BY <1>4, IdleStep DEF vars, database, Book!bookVars
<1> QED
  BY <1>1, <1>2, <1>3, <1>4 DEF Next, Rest, Book!BookNext

\* Seen from its clients, the server keeps the plan book: sheets are taken at
\* one instant and whole, only if fit, and clients are told the truth of it.
THEOREM ImplementsPlanBook == Spec => KeepsTheBook
<1>1. Spec => Book!BookInit
  BY BookInitially DEF Spec
<1>2. Spec => [][Book!BookNext]_(Book!bookVars)
  BY Invariance, BookStep, PTL DEF Spec
<1> QED
  BY <1>1, <1>2, PTL DEF KeepsTheBook, Book!BookSpec

=============================================================================
