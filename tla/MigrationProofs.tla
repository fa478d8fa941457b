--------------------------- MODULE MigrationProofs ---------------------------
(***************************************************************************)
(* Proofs about Migration, for any deployments, downgrades and crashes.    *)
(*                                                                         *)
(* The invariant says of a deployment's run that what it has to do and     *)
(* what is there make the whole schema, the version last, or that the      *)
(* version is head already.  A second one, for when no run has died and    *)
(* nobody downgrades, names a run that leads: what is there is what it has *)
(* done, nothing will refuse it, and every other run has fallen behind.    *)
(***************************************************************************)
EXTENDS Migration, SequenceTheorems, TLAPS

Statement == [op   : {"create", "drop", "stamp"},
              name : Schema \cup {"alembic_version"},
              on   : {Created[i][2] : i \in DOMAIN Created} \cup {{}}]

\* What a sequence of statements is going to create.
Owed(s) == {s[i].name : i \in {j \in DOMAIN s : s[j].op = "create"}}

\* What an upgrade still has to do: creations, and the version last of all.
Climbs(s) == /\ s # <<>>
             /\ \A i \in 1 .. Len(s) :
                   s[i].op = (IF i = Len(s) THEN "stamp" ELSE "create")

Creates(s) == \A i \in 1 .. Len(s) : s[i].op = "create"

-----------------------------------------------------------------------------
\* Facts about sequences.
LEMMA FunctionIsSeq ==
  ASSUME NEW S, NEW n \in Nat, NEW f \in [1 .. n -> S]
  PROVE  f \in Seq(S) /\ Len(f) = n
  OBVIOUS

LEMMA NotEmpty ==
  ASSUME NEW s, Len(s) # 0
  PROVE  s # <<>>
<1>1. Len(<<>>) = 0
  OBVIOUS
<1> QED
  BY <1>1, Zenon

LEMMA SingleIsSeq ==
  ASSUME NEW S, NEW x \in S
  PROVE  <<x>> \in Seq(S) /\ Len(<<x>>) = 1 /\ <<x>>[1] = x
  OBVIOUS

\* The statements of an upgrade and of a downgrade.
LEMMA CreatedShape ==
  /\ DOMAIN Created = 1 .. 11
  /\ "alembic_version" \notin Schema
<1>1. DOMAIN Created = 1 .. 11
  BY DEF Created
<1>2. \A i \in 1 .. 11 : Created[i][1] # "alembic_version"
  BY SMTT(60) DEF Created
<1> QED
  BY <1>1, <1>2 DEF Schema

LEMMA NamedShape ==
  ASSUME NEW op \in {"create", "drop"}
  PROVE  /\ Named(op) \in Seq(Statement) /\ Len(Named(op)) = 11
         /\ \A i \in 1 .. 11 : Named(op)[i].op = op /\ Named(op)[i].name = Created[i][1]
<1>1. Named(op) \in [1 .. 11 -> Statement]
  BY CreatedShape DEF Named, Statement, Schema
<1>2. \A i \in 1 .. 11 : Named(op)[i].op = op /\ Named(op)[i].name = Created[i][1]
  BY CreatedShape DEF Named
<1>3. 11 \in Nat
  OBVIOUS
<1>4. Named(op) \in Seq(Statement) /\ Len(Named(op)) = 11
  BY <1>1, <1>3, FunctionIsSeq, Zenon
<1> QED
  BY <1>2, <1>4

LEMMA OneStatement ==
  /\ Stamp \in Seq(Statement) /\ Len(Stamp) = 1 /\ Stamp[1].op = "stamp"
  /\ VersionTable \in Seq(Statement) /\ Len(VersionTable) = 1
  /\ VersionTable[1].op = "create"
<1>1. \A o \in {"create", "drop", "stamp"} :
         [op |-> o, name |-> "alembic_version", on |-> {}] \in Statement
  BY DEF Statement
<1> QED
  BY <1>1, SingleIsSeq DEF Stamp, VersionTable

\* Creations before a climb make a climb that owes what either owes.
LEMMA ClimbFurther ==
  ASSUME NEW s \in Seq(Statement), NEW t \in Seq(Statement), Creates(s), Climbs(t)
  PROVE  /\ s \o t \in Seq(Statement) /\ Climbs(s \o t)
         /\ Owed(s) \cup Owed(t) \subseteq Owed(s \o t)
<1>1. /\ Len(s) \in Nat /\ Len(t) \in Nat \ {0}
      /\ DOMAIN s = 1 .. Len(s) /\ DOMAIN t = 1 .. Len(t)
  BY LenProperties, EmptySeq DEF Climbs
<1>2. /\ s \o t \in Seq(Statement) /\ Len(s \o t) = Len(s) + Len(t)
      /\ \A i \in 1 .. Len(s) + Len(t) :
            (s \o t)[i] = IF i <= Len(s) THEN s[i] ELSE t[i - Len(s)]
  BY ConcatProperties
<1>3. DOMAIN (s \o t) = 1 .. Len(s) + Len(t) /\ s \o t # <<>>
  BY <1>1, <1>2, LenProperties, EmptySeq
<1>4. \A i \in 1 .. Len(s) + Len(t) :
         (s \o t)[i].op = IF i = Len(s) + Len(t) THEN "stamp" ELSE "create"
  <2> TAKE i \in 1 .. Len(s) + Len(t)
  <2>1. CASE i <= Len(s)
    BY <1>1, <1>2, <2>1 DEF Creates
  <2>2. CASE ~(i <= Len(s))
    <3>1. i - Len(s) \in 1 .. Len(t) /\ (i - Len(s) = Len(t) <=> i = Len(s) + Len(t))
      BY <1>1, <2>2
    <3> QED
      BY <1>2, <2>2, <3>1 DEF Climbs
  <2> QED
    BY <2>1, <2>2
<1>5. Owed(s) \subseteq Owed(s \o t)
  <2>1. \A i \in 1 .. Len(s) : i \in 1 .. Len(s) + Len(t) /\ (s \o t)[i] = s[i]
    BY <1>1, <1>2
  <2> QED
    BY <1>1, <1>3, <2>1 DEF Owed
<1>6. Owed(t) \subseteq Owed(s \o t)
  <2>1. \A i \in 1 .. Len(t) : /\ i + Len(s) \in 1 .. Len(s) + Len(t)
                               /\ (s \o t)[i + Len(s)] = t[i]
    BY <1>1, <1>2
  <2> QED
    BY <1>1, <1>3, <2>1 DEF Owed
<1> QED
  BY <1>2, <1>3, <1>4, <1>5, <1>6 DEF Climbs

LEMMA StampClimbs == Climbs(Stamp)
<1>1. Stamp # <<>>
  BY OneStatement, EmptySeq
<1> QED
  BY <1>1, OneStatement DEF Climbs

\* An upgrade creates the whole schema and stamps the version last.
LEMMA UpgradeShape ==
  Upgrade \in Seq(Statement) /\ Climbs(Upgrade) /\ Schema \subseteq Owed(Upgrade)
<1>1. /\ Named("create") \in Seq(Statement) /\ Len(Named("create")) = 11
      /\ \A i \in 1 .. 11 : /\ Named("create")[i].op = "create"
                            /\ Named("create")[i].name = Created[i][1]
  BY NamedShape
<1>2. Creates(Named("create"))
  BY <1>1 DEF Creates
<1>3. Schema \subseteq Owed(Named("create"))
  <2>1. DOMAIN Named("create") = 1 .. 11
    BY CreatedShape DEF Named
  <2> QED
    BY <1>1, <2>1, CreatedShape DEF Schema, Owed
<1> QED
  BY <1>1, <1>2, <1>3, StampClimbs, OneStatement, ClimbFurther DEF Upgrade

LEMMA DowngradeShape == Downgrade \in Seq(Statement)
<1>1. Named("drop") \in Seq(Statement)
  BY NamedShape
<1>2. Reverse(Named("drop")) \in Seq(Statement)
  <2>1. Len(Named("drop")) = 11
    BY NamedShape
  <2>2. \A i \in 1 .. 11 : Named("drop")[11 - i + 1] \in Statement
    BY <1>1, <2>1, ElementOfSeq
  <2>3. Reverse(Named("drop")) \in [1 .. 11 -> Statement]
    BY <2>1, <2>2 DEF Reverse
  <2>4. 11 \in Nat
    OBVIOUS
  <2> QED
    BY <2>3, <2>4, FunctionIsSeq, Zenon
<1> QED
  BY <1>2, OneStatement, ConcatProperties DEF Downgrade

-----------------------------------------------------------------------------
Typing ==
    /\ objects \subseteq Schema \cup {"alembic_version"}
    /\ version \in {"base", "head"}
    /\ pc \in [Run -> {"ready", "running", "failed", "done", "serving"}]
    /\ todo \in [Run -> Seq(Statement)]

\* A deployment's run never drops anything.
Builds(r) == \A i \in 1 .. Len(todo[r]) : todo[r][i].op # "drop"

\* Between what is there and what a run has to do, nothing is missing.
OnItsWay(r) == /\ Climbs(todo[r])
               /\ Schema \subseteq objects \cup Owed(todo[r])

DeploymentInv(r) ==
    /\ Builds(r)
    /\ ~Undoing => /\ pc[r] = "running" => version = "head" \/ OnItsWay(r)
                   /\ pc[r] \in {"done", "serving"} => version = "head"

MInv == /\ Typing
        /\ \A r \in Deployment : DeploymentInv(r)
        /\ HeadIsWhole

LEMMA InitMInv == Init => MInv
<1> SUFFICES ASSUME Init PROVE MInv
  OBVIOUS
<1>1. <<>> \in Seq(Statement) /\ Len(<<>>) = 0
  BY EmptySeq
<1>2. Typing
  BY <1>1 DEF Init, Typing, Run
<1>3. \A r \in Deployment : DeploymentInv(r)
  BY <1>1 DEF Init, DeploymentInv, Builds, Run
<1> QED
  BY <1>2, <1>3 DEF MInv, Init, HeadIsWhole

\* A run begins with nothing to do or with a whole upgrade or downgrade.
LEMMA ReadStep ==
  ASSUME MInv, NEW r \in Run, Read(r)
  PROVE  MInv'
<1> DEFINE table == IF "alembic_version" \in objects THEN <<>> ELSE VersionTable
           work == IF version = Target(r) THEN <<>>
                   ELSE IF version = "base" THEN Upgrade ELSE Downgrade
<1>1. /\ UNCHANGED <<objects, version>> /\ pc[r] = "ready"
      /\ pc' = [pc EXCEPT ![r] = "running"]
      /\ todo' = [todo EXCEPT ![r] = table \o work]
  BY DEF Read, Goto
<1>2. table \in Seq(Statement) /\ Creates(table)
  BY OneStatement, EmptySeq DEF Creates
<1>3. work \in Seq(Statement)
  BY UpgradeShape, DowngradeShape, EmptySeq
<1>4. r \in Deployment /\ version # "head" =>
         work = Upgrade /\ Climbs(work) /\ Schema \subseteq Owed(work)
  BY UpgradeShape DEF Target, MInv, Typing
<1>5. r \in Deployment /\ version = "head" => work = <<>>
  BY DEF Target
<1> HIDE DEF table, work
<1>6. table \o work \in Seq(Statement)
  BY <1>2, <1>3, ConcatProperties
<1>7. Typing'
  BY <1>1, <1>6 DEF MInv, Typing
<1>8. Undoing => Undoing'
  BY <1>1 DEF Undoing, MInv, Typing, Run
<1>9. ASSUME NEW q \in Deployment PROVE DeploymentInv(q)'
  <2>1. CASE q # r
    <3>1. pc'[q] = pc[q] /\ todo'[q] = todo[q]
      BY <1>1, <2>1 DEF MInv, Typing, Run
    <3> QED
      BY <1>1, <1>8, <3>1 DEF MInv, DeploymentInv, Builds, OnItsWay
  <2>2. CASE q = r
    <3>1. pc'[q] = "running" /\ todo'[q] = table \o work
      BY <1>1, <2>2 DEF MInv, Typing, Run
    <3>2. CASE version = "head"
      <4>1. table \o work = table
        BY <1>2, <1>5, <2>2, <3>2, ConcatEmptySeq
      <4> QED
        BY <1>1, <1>2, <3>1, <3>2, <4>1 DEF DeploymentInv, Builds, Creates
    <3>3. CASE version # "head"
      <4>1. Climbs(table \o work) /\ Schema \subseteq Owed(table \o work)
        BY <1>2, <1>3, <1>4, <2>2, <3>3, ClimbFurther
      <4> QED
        BY <1>1, <3>1, <4>1 DEF DeploymentInv, Builds, OnItsWay, Climbs
    <3> QED
      BY <3>2, <3>3
  <2> QED
    BY <2>1, <2>2
<1> QED
  BY <1>1, <1>7, <1>8, <1>9 DEF MInv, HeadIsWhole, Whole

\* What taking the first statement off leaves.
TakesOff(s) ==
    /\ Tail(s) \in Seq(Statement) /\ Len(Tail(s)) = Len(s) - 1
    /\ Len(s) \in Nat \ {0} /\ Head(s) = s[1] /\ s[1] \in Statement
    /\ \A i \in 1 .. Len(s) - 1 : Tail(s)[i] = s[i + 1]
    /\ Owed(s) \subseteq Owed(Tail(s)) \cup {s[1].name}
    /\ s[1].op # "create" => Owed(s) \subseteq Owed(Tail(s))

LEMMA HeadTail ==
  ASSUME NEW s \in Seq(Statement), s # <<>>
  PROVE  TakesOff(s)
<1>1. Len(s) \in Nat \ {0} /\ DOMAIN s = 1 .. Len(s)
  BY EmptySeq, LenProperties
<1>2. /\ Tail(s) \in Seq(Statement) /\ Len(Tail(s)) = Len(s) - 1
      /\ \A i \in 1 .. Len(s) - 1 : Tail(s)[i] = s[i + 1]
  BY HeadTailProperties
<1>3. DOMAIN Tail(s) = 1 .. Len(s) - 1
  BY <1>2, LenProperties
<1>4. s[1] \in Statement /\ Head(s) = s[1]
  BY <1>1, ElementOfSeq, HeadTailProperties
<1>5. ASSUME NEW i \in 1 .. Len(s), i # 1, s[i].op = "create"
      PROVE  s[i].name \in Owed(Tail(s))
  <2>1. i - 1 \in 1 .. Len(s) - 1 /\ (i - 1) + 1 = i
    BY <1>1, <1>5
  <2>2. Tail(s)[i - 1] = s[i]
    BY <1>2, <2>1
  <2> QED
    BY <1>3, <1>5, <2>1, <2>2 DEF Owed
<1>6. /\ Owed(s) \subseteq Owed(Tail(s)) \cup {s[1].name}
      /\ s[1].op # "create" => Owed(s) \subseteq Owed(Tail(s))
  BY <1>1, <1>5 DEF Owed
<1> QED
  BY <1>1, <1>2, <1>4, <1>6 DEF TakesOff

\* One statement of an upgrade brings one of the things owed; the stamp comes
\* when nothing else is owed.
LEMMA ExecuteStep ==
  ASSUME MInv, NEW r \in Run, Execute(r)
  PROVE  MInv'
<1> DEFINE s == todo[r]
<1>1. /\ pc[r] = "running" /\ s # <<>> /\ ~Refused(r, Head(s))
      /\ UNCHANGED pc /\ todo' = [todo EXCEPT ![r] = Tail(@)]
      /\ objects' = CASE Head(s).op = "create" -> objects \cup {Head(s).name}
                      [] Head(s).op = "drop"   -> objects \ {Head(s).name}
                      [] Head(s).op = "stamp"  -> objects
      /\ version' = IF Head(s).op = "stamp" THEN Target(r) ELSE version
  BY DEF Execute
<1>2. s \in Seq(Statement) /\ s # <<>>
  BY <1>1 DEF MInv, Typing
<1>3. /\ Tail(s) \in Seq(Statement) /\ Len(Tail(s)) = Len(s) - 1
      /\ Len(s) \in Nat \ {0} /\ Head(s) = s[1] /\ s[1] \in Statement
      /\ \A i \in 1 .. Len(s) - 1 : Tail(s)[i] = s[i + 1]
      /\ Owed(s) \subseteq Owed(Tail(s)) \cup {s[1].name}
      /\ s[1].op # "create" => Owed(s) \subseteq Owed(Tail(s))
  <2>1. TakesOff(s)
    BY <1>2, HeadTail, Zenon
  <2> QED
    BY <2>1 DEF TakesOff
<1>4. /\ s[1].op \in {"create", "drop", "stamp"}
      /\ s[1].name \in Schema \cup {"alembic_version"}
  BY <1>3 DEF Statement
<1>5. Typing'
  BY <1>1, <1>3, <1>4 DEF MInv, Typing, Target
<1>6. Undoing' <=> Undoing
  BY <1>1 DEF Undoing
<1>7. r \in Undo => Undoing
  BY <1>1 DEF Undoing
<1>8. \A q \in Deployment : Builds(q)'
  <2> TAKE q \in Deployment
  <2>1. CASE q # r
    BY <1>1, <2>1 DEF MInv, DeploymentInv, Builds, Typing, Run
  <2>2. CASE q = r
    <3>1. todo'[q] = Tail(s)
      BY <1>1, <2>2 DEF MInv, Typing
    <3>2. \A i \in 1 .. Len(s) - 1 : s[i + 1].op # "drop"
      BY <1>3, <2>2 DEF MInv, DeploymentInv, Builds
    <3> QED
      BY <1>3, <3>1, <3>2 DEF Builds
  <2> QED
    BY <2>1, <2>2
<1>9. CASE Undoing
  BY <1>5, <1>6, <1>8, <1>9 DEF MInv, DeploymentInv, HeadIsWhole
<1>10. CASE ~Undoing
  <2>1. r \in Deployment /\ DeploymentInv(r)
    BY <1>7, <1>10 DEF Run, MInv
  <2>2. s[1].op # "drop"
    BY <1>3, <2>1 DEF DeploymentInv, Builds
  <2>3. objects \subseteq objects'
    BY <1>1, <1>3, <1>4, <2>2
  <2>4. version = "head" => version' = "head"
    BY <1>1, <2>1 DEF Target
  <2>5. CASE version = "head"
    BY <1>1, <1>5, <1>8, <2>3, <2>4, <2>5, <1>10
    DEF MInv, DeploymentInv, HeadIsWhole, Whole, Undoing
  <2>6. CASE version # "head" /\ s[1].op = "stamp"
    <3>1. OnItsWay(r)
      BY <1>1, <1>10, <2>1, <2>6 DEF DeploymentInv
    <3>2. Len(s) = 1
      <4>1. 1 \in 1 .. Len(s)
        BY <1>3
      <4> QED
        BY <2>6, <3>1, <4>1 DEF OnItsWay, Climbs
    <3>3. Owed(Tail(s)) = {}
      BY <1>3, <3>2, LenProperties DEF Owed
    <3>4. Schema \subseteq objects
      BY <1>3, <3>1, <3>3, <2>6 DEF OnItsWay
    <3> QED
      BY <1>1, <1>5, <1>8, <2>1, <2>6, <3>4
    DEF MInv, DeploymentInv, HeadIsWhole, Whole, Target
  <2>7. CASE version # "head" /\ s[1].op = "create"
    <3>1. version' = version /\ objects' = objects \cup {s[1].name}
      BY <1>1, <1>3, <2>7
    <3>2. OnItsWay(r)
      BY <1>1, <1>10, <2>1, <2>7 DEF DeploymentInv
    <3>3. \A q \in Deployment : pc[q] \notin {"done", "serving"}
      BY <1>10, <2>7 DEF MInv, DeploymentInv
    <3>4. ASSUME NEW q \in Deployment, pc[q] = "running" PROVE OnItsWay(q)'
      <4>1. CASE q # r
        <5>1. OnItsWay(q)
          BY <1>10, <2>7, <3>4 DEF MInv, DeploymentInv
        <5>2. todo'[q] = todo[q]
          BY <1>1, <4>1 DEF MInv, Typing, Run
        <5> QED
          BY <3>1, <5>1, <5>2 DEF OnItsWay
      <4>2. CASE q = r
        <5>1. todo'[q] = Tail(s)
          BY <1>1, <4>2 DEF MInv, Typing
        <5>2. Len(s) # 1
          BY <1>3, <2>7, <3>2 DEF OnItsWay, Climbs
        <5>3. Climbs(Tail(s))
          <6>1. Tail(s) # <<>>
            <7>1. Len(Tail(s)) # 0
              BY <1>3, <5>2
            <7> QED
              BY <7>1, NotEmpty
          <6>2. \A i \in 1 .. Len(s) - 1 :
                   Tail(s)[i].op = IF i = Len(s) - 1 THEN "stamp" ELSE "create"
            <7> TAKE i \in 1 .. Len(s) - 1
            <7>1. /\ i + 1 \in 1 .. Len(s) /\ Tail(s)[i] = s[i + 1]
                  /\ i = Len(s) - 1 <=> i + 1 = Len(s)
              BY <1>3
            <7> QED
              BY <3>2, <7>1 DEF OnItsWay, Climbs
          <6> QED
            BY <1>3, <6>1, <6>2 DEF Climbs
        <5>4. Schema \subseteq objects' \cup Owed(Tail(s))
          BY <1>3, <3>1, <3>2 DEF OnItsWay
        <5> QED
          BY <5>1, <5>3, <5>4 DEF OnItsWay
      <4> QED
        BY <4>1, <4>2
    <3> QED
      BY <1>1, <1>5, <1>8, <2>7, <3>1, <3>3, <3>4
      DEF MInv, DeploymentInv, HeadIsWhole
  <2> QED
    BY <1>4, <2>2, <2>5, <2>6, <2>7
<1> QED
  BY <1>9, <1>10

\* A step that carries nothing out moves one run to p, with nothing or as much
\* to do as before.
LEMMA QuietStep ==
  ASSUME MInv, NEW r \in Run, NEW p \in {"failed", "done", "serving", "ready"},
         UNCHANGED <<objects, version>>, pc' = [pc EXCEPT ![r] = p],
         todo' = todo \/ todo' = [todo EXCEPT ![r] = <<>>],
         r \in Undo => pc[r] # "ready" /\ p # "ready",
         r \in Deployment /\ p \in {"done", "serving"} /\ ~Undoing => version = "head"
  PROVE  MInv'
<1>1. <<>> \in Seq(Statement) /\ Len(<<>>) = 0
  BY EmptySeq
<1>2. Typing'
  BY <1>1 DEF MInv, Typing
<1>3. Undoing => Undoing'
  BY DEF Undoing, MInv, Typing, Run
<1>4. ASSUME NEW q \in Deployment PROVE DeploymentInv(q)'
  <2>1. Builds(q)'
    <3>1. todo'[q] = todo[q] \/ todo'[q] = <<>>
      BY DEF MInv, Typing, Run
    <3> QED
      BY <1>1, <3>1 DEF MInv, DeploymentInv, Builds
  <2>2. CASE q # r
    <3>1. pc'[q] = pc[q] /\ todo'[q] = todo[q]
      BY <2>2 DEF MInv, Typing, Run
    <3> QED
      BY <1>3, <2>1, <3>1 DEF MInv, DeploymentInv, OnItsWay
  <2>3. CASE q = r
    <3>1. pc'[q] = p
      BY <2>3 DEF MInv, Typing
    <3> QED
      BY <1>3, <2>1, <2>3, <3>1 DEF DeploymentInv
  <2> QED
    BY <2>2, <2>3
<1> QED
  BY <1>2, <1>3, <1>4 DEF MInv, HeadIsWhole, Whole

\* One step per action of a run.
LEMMA NextMInv == MInv /\ [Next]_vars => MInv'
<1> SUFFICES ASSUME MInv, [Next]_vars PROVE MInv'
  OBVIOUS
<1>1. ASSUME NEW r \in Run, Read(r) PROVE MInv'
  BY <1>1, ReadStep
<1>2. ASSUME NEW r \in Run, Execute(r) PROVE MInv'
  BY <1>2, ExecuteStep
<1>3. ASSUME NEW r \in Run, Fail(r) \/ Crash(r) PROVE MInv'
  BY <1>3, QuietStep DEF Fail, Crash, Goto
<1>4. ASSUME NEW r \in Run, Complete(r) PROVE MInv'
  <2>1. r \in Deployment /\ ~Undoing => version = "head"
    BY <1>4 DEF Complete, Goto, MInv, DeploymentInv, OnItsWay, Climbs
  <2> QED
    BY <1>4, <2>1, QuietStep DEF Complete, Goto
<1>5. ASSUME NEW r \in Run, Retry(r) PROVE MInv'
  BY <1>5, QuietStep, MigrationAssumption DEF Retry, Goto
<1>6. ASSUME NEW r \in Run, Start(r) PROVE MInv'
  <2>1. ~Undoing => version = "head"
    BY <1>6 DEF Start, Goto, MInv, DeploymentInv
  <2> QED
    BY <1>6, <2>1, QuietStep, MigrationAssumption DEF Start, Goto
<1>7. CASE UNCHANGED vars
  BY <1>7 DEF vars, MInv, Typing, DeploymentInv, Builds, OnItsWay, HeadIsWhole,
              Whole, Undoing
<1> QED
  BY <1>1, <1>2, <1>3, <1>4, <1>5, <1>6, <1>7 DEF Next, Step, Rest

\* What a run has to do and what is there make the whole schema, whatever runs
\* race, fail or die.
THEOREM MigrationInvariance == Spec => []MInv
<1> QED
  BY InitMInv, NextMInv, PTL DEF Spec

\* However many deployments race and die half-way, the version is stamped on a
\* schema that is whole (upgrade of 0001_initial_schema.py, stamped last).
THEOREM HeadMeansWhole == Spec => []HeadIsWhole
<1>1. MInv => HeadIsWhole
  BY DEF MInv
<1> QED
  BY <1>1, MigrationInvariance, PTL

\* No API starts before its tables are there (depends_on of docker-compose.yml).
THEOREM SchemaBeforeApi == Spec => ApiFindsSchema
<1>1. MInv /\ [Next]_vars =>
        \A r \in Deployment :
           pc[r] # "serving" /\ pc'[r] = "serving" /\ ~Undoing => Whole
  <2> SUFFICES ASSUME MInv, [Next]_vars, NEW r \in Deployment,
                      pc[r] # "serving", pc'[r] = "serving", ~Undoing
               PROVE  Whole
    OBVIOUS
  <2>1. r \in Run
    BY DEF Run
  <2>2. pc[r] \in {"done", "serving"}
    <3>1. ASSUME NEW q \in Run, Read(q) \/ Step(q) \/ Crash(q)
          PROVE  pc[r] \in {"done", "serving"}
      BY <2>1, <3>1 DEF Read, Step, Execute, Fail, Complete, Retry, Start, Crash,
                        Goto, MInv, Typing
    <3>2. CASE UNCHANGED vars
      BY <3>2 DEF vars
    <3> QED
      BY <3>1, <3>2 DEF Next, Rest
  <2> QED
    BY <2>2 DEF MInv, DeploymentInv, HeadIsWhole
<1> QED
  BY <1>1, MigrationInvariance, PTL DEF Spec, ApiFindsSchema

-----------------------------------------------------------------------------
(***************************************************************************)
(* Every variable in its range.                                            *)
(***************************************************************************)
LEMMA TypeStep == MInv /\ TypeOK /\ [Next]_vars => TypeOK'
<1> SUFFICES ASSUME MInv, TypeOK, MInv', [Next]_vars PROVE TypeOK'
  BY NextMInv
<1>1. /\ objects' \subseteq Schema \cup {"alembic_version"} /\ version' \in {"base", "head"}
      /\ pc' \in [Run -> {"ready", "running", "failed", "done", "serving"}]
  BY DEF MInv, Typing
<1>2. crashes' \in 0 .. MaxCrashes /\ \A q \in Run : todo'[q] # <<>> => pc'[q] = "running"
  <2>1. ASSUME NEW r \in Run, Read(r) \/ Execute(r)
        PROVE  crashes' = crashes /\ \A q \in Run : todo'[q] # <<>> => pc'[q] = "running"
    BY <2>1 DEF Read, Execute, Goto, MInv, Typing, TypeOK
  <2>2. ASSUME NEW r \in Run, Fail(r) \/ Complete(r) \/ Retry(r) \/ Start(r)
        PROVE  crashes' = crashes /\ \A q \in Run : todo'[q] # <<>> => pc'[q] = "running"
    BY <2>2 DEF Fail, Complete, Retry, Start, Goto, MInv, Typing, TypeOK
  <2>3. ASSUME NEW r \in Run, Crash(r)
        PROVE  /\ crashes' \in 0 .. MaxCrashes
               /\ \A q \in Run : todo'[q] # <<>> => pc'[q] = "running"
    BY <2>3, MigrationAssumption DEF Crash, Goto, MInv, Typing, TypeOK
  <2>4. CASE UNCHANGED vars
    BY <2>4 DEF vars, TypeOK
  <2> QED
    BY <2>1, <2>2, <2>3, <2>4 DEF Next, Step, Rest, TypeOK
<1> QED
  BY <1>1, <1>2 DEF TypeOK

\* Every variable keeps to its range, and a run holds statements only while it
\* runs: one that failed begins again from the version it reads.
THEOREM TypeCorrect == Spec => []TypeOK
<1>1. Init => TypeOK
  BY MigrationAssumption DEF Init, TypeOK
<1> QED
  BY <1>1, InitMInv, TypeStep, NextMInv, PTL DEF Spec

-----------------------------------------------------------------------------
(***************************************************************************)
(* Who leads.                                                              *)
(***************************************************************************)
\* All a deployment may have to do, what its first n statements make, and what
\* they leave to do.
Script == VersionTable \o Upgrade
Made(n) == {Script[i].name : i \in {j \in 1 .. 12 : j <= n}}
Left(s, n) == Len(s) = 13 - n /\ \A i \in 1 .. 13 - n : s[i] = Script[n + i]

\* A run that is behind will fail with its next statement, has nothing to do,
\* or has done nothing yet.
Behind(q, n) ==
    pc[q] = "running" => \/ Left(todo[q], 0)
                         \/ n >= 1 /\ Left(todo[q], 1)
                         \/ n = 13 /\ todo[q] = <<>>

Leads(r, n) == \/ pc[r] = "running" /\ Left(todo[r], n)
               \/ pc[r] \in {"done", "serving"} /\ n = 13

Led(n) ==
    /\ objects = Made(n)
    /\ version = IF n = 13 THEN "head" ELSE "base"
    /\ n = 0 => \A q \in Deployment : pc[q] \in {"ready", "running"} /\ Behind(q, 0)
    /\ n > 0 => \E r \in Deployment :
                   Leads(r, n) /\ \A q \in Deployment \ {r} : Behind(q, n)

LeaderInv == crashes = 0 /\ ~Undoing => \E n \in 0 .. 13 : Led(n)

LEMMA Joined ==
  ASSUME NEW s \in Seq(Statement), NEW t \in Seq(Statement)
  PROVE  /\ s \o t \in Seq(Statement) /\ Len(s \o t) = Len(s) + Len(t)
         /\ \A i \in 1 .. Len(s) + Len(t) :
               (s \o t)[i] = IF i <= Len(s) THEN s[i] ELSE t[i - Len(s)]
  BY ConcatProperties

\* The script, statement by statement.
LEMMA ScriptShape ==
  /\ Len(Upgrade) = 12 /\ Upgrade \in Seq(Statement)
  /\ \A i \in 1 .. 12 : Upgrade[i] = Script[i + 1]
  /\ Len(Script) = 13 /\ Script \in Seq(Statement)
  /\ Script[1] = VersionTable[1]
  /\ \A i \in 1 .. 11 : Script[i + 1] = Named("create")[i]
  /\ Script[13].op = "stamp"
<1>1. /\ Named("create") \in Seq(Statement) /\ Len(Named("create")) = 11
      /\ Stamp \in Seq(Statement) /\ Len(Stamp) = 1 /\ Stamp[1].op = "stamp"
      /\ VersionTable \in Seq(Statement) /\ Len(VersionTable) = 1
  BY NamedShape, OneStatement
<1>2. /\ Upgrade \in Seq(Statement) /\ Len(Upgrade) = 12
      /\ \A i \in 1 .. 12 :
            Upgrade[i] = IF i <= 11 THEN Named("create")[i] ELSE Stamp[i - 11]
  <2>1. Upgrade = Named("create") \o Stamp
    BY DEF Upgrade
  <2>2. /\ Upgrade \in Seq(Statement) /\ Len(Upgrade) = Len(Named("create")) + Len(Stamp)
        /\ \A i \in 1 .. Len(Named("create")) + Len(Stamp) :
              Upgrade[i] = IF i <= Len(Named("create")) THEN Named("create")[i]
                           ELSE Stamp[i - Len(Named("create"))]
    BY <1>1, <2>1, Joined, Zenon
  <2>3. /\ Upgrade \in Seq(Statement) /\ Len(Upgrade) = 11 + 1
        /\ \A i \in 1 .. 11 + 1 :
              Upgrade[i] = IF i <= 11 THEN Named("create")[i] ELSE Stamp[i - 11]
    BY <1>1, <2>2, Zenon
  <2> QED
    BY <2>3
<1>3. /\ Script \in Seq(Statement) /\ Len(Script) = 13
      /\ \A i \in 1 .. 13 :
            Script[i] = IF i <= 1 THEN VersionTable[i] ELSE Upgrade[i - 1]
  <2>1. Script = VersionTable \o Upgrade
    BY DEF Script
  <2>2. /\ Script \in Seq(Statement) /\ Len(Script) = Len(VersionTable) + Len(Upgrade)
        /\ \A i \in 1 .. Len(VersionTable) + Len(Upgrade) :
              Script[i] = IF i <= Len(VersionTable) THEN VersionTable[i]
                          ELSE Upgrade[i - Len(VersionTable)]
    BY <1>1, <1>2, <2>1, Joined, Zenon
  <2> QED
    BY <1>1, <1>2, <2>2
<1>4. \A i \in 1 .. 12 : Upgrade[i] = Script[i + 1]
  BY <1>3
<1>5. Script[1] = VersionTable[1] /\ Script[13] = Stamp[1]
  BY <1>2, <1>3
<1>6. \A i \in 1 .. 11 : Script[i + 1] = Named("create")[i]
  BY <1>2, <1>4
<1> QED
  BY <1>1, <1>2, <1>3, <1>4, <1>5, <1>6

\* What each creation makes, and what has to be there for it.
LEMMA Names ==
  /\ Script[1].name = "alembic_version" /\ Script[2].name = "users"
  /\ Script[3].name = "dictionary" /\ Script[4].name = "auth_users"
  /\ Script[5].name = "credits" /\ Script[6].name = "ix_credits_user_id"
  /\ Script[7].name = "ix_credits_issuance_date" /\ Script[8].name = "payments"
  /\ Script[9].name = "ix_payments_credit_id"
  /\ Script[10].name = "ix_payments_payment_date"
  /\ Script[11].name = "plans" /\ Script[12].name = "ix_plans_period"
<1>1. \A i \in 1 .. 11 : Script[i + 1].name = Created[i][1]
  BY ScriptShape, CreatedShape DEF Named
<1>2. Script[1].name = "alembic_version"
  BY ScriptShape DEF VersionTable
<1> QED
  BY <1>1, <1>2 DEF Created

LEMMA Needs ==
  /\ \A i \in {1, 2, 3, 4} : Script[i].on = {}
  /\ Script[5].on = {"users"}
  /\ \A i \in {6, 7} : Script[i].on = {"credits"}
  /\ Script[8].on = {"credits", "dictionary"}
  /\ \A i \in {9, 10} : Script[i].on = {"payments"}
  /\ Script[11].on = {"dictionary"} /\ Script[12].on = {"plans"}
<1>1. \A i \in 1 .. 11 : Script[i + 1].on = Created[i][2]
  BY ScriptShape, CreatedShape DEF Named
<1>2. Script[1].on = {}
  BY ScriptShape DEF VersionTable
<1> QED
  BY <1>1, <1>2 DEF Created

\* Every statement finds what it needs and makes what is not there.
LEMMA InOrder ==
  ASSUME NEW n \in 0 .. 11
  PROVE  /\ Script[n + 1].op = "create"
         /\ Script[n + 1].name \notin Made(n) /\ Script[n + 1].on \subseteq Made(n)
         /\ Made(n + 1) = Made(n) \cup {Script[n + 1].name}
<1>1. Script[n + 1].op = "create"
  <2>1. Script[1].op = "create"
    BY ScriptShape, OneStatement
  <2>2. \A i \in 1 .. 11 : Script[i + 1].op = "create"
    BY ScriptShape, NamedShape
  <2> QED
    BY <2>1, <2>2
<1>2. Script[n + 1].name \notin Made(n)
  <2>1. \A i, j \in 1 .. 12 : Script[i].name = Script[j].name => i = j
    BY Names, SMTT(60)
  <2> QED
    BY <2>1 DEF Made
<1>3. Script[n + 1].on \subseteq Made(n)
  <2>1. \A i \in 1 .. 12 : i <= n => Script[i].name \in Made(n)
    BY DEF Made
  <2> QED
    BY <2>1, Names, Needs, SMTT(60)
<1>4. Made(n + 1) = Made(n) \cup {Script[n + 1].name}
  BY DEF Made
<1> QED
  BY <1>1, <1>2, <1>3, <1>4

\* What the first of the statements left is, and what taking it off leaves.
LEMMA LeftShorter ==
  ASSUME NEW s \in Seq(Statement), NEW n \in 0 .. 12, Left(s, n)
  PROVE  s # <<>> /\ Head(s) = Script[n + 1] /\ Left(Tail(s), n + 1)
<1>1. Len(s) = 13 - n /\ \A i \in 1 .. 13 - n : s[i] = Script[n + i]
  BY DEF Left
<1>2. s # <<>>
  BY <1>1, NotEmpty
<1>3. /\ Head(s) = s[1] /\ Len(Tail(s)) = Len(s) - 1
      /\ \A i \in 1 .. Len(s) - 1 : Tail(s)[i] = s[i + 1]
  BY <1>2, HeadTail DEF TakesOff
<1>4. Head(s) = Script[n + 1]
  BY <1>1, <1>3
<1>5. \A i \in 1 .. 13 - (n + 1) : Tail(s)[i] = Script[(n + 1) + i]
  <2> TAKE i \in 1 .. 13 - (n + 1)
  <2>1. i \in 1 .. Len(s) - 1 /\ i + 1 \in 1 .. 13 - n /\ n + (i + 1) = (n + 1) + i
    BY <1>1
  <2> QED
    BY <1>1, <1>3, <2>1
<1> QED
  BY <1>1, <1>2, <1>3, <1>4, <1>5 DEF Left

\* The one whose statements are next carries the next one out and leads, the
\* others being behind.
LEMMA LeadStep ==
  ASSUME MInv, NEW n \in 0 .. 12, NEW r \in Deployment, Execute(r),
         Left(todo[r], n), objects = Made(n),
         version = "base", \A q \in Deployment \ {r} : Behind(q, n + 1)
  PROVE  Led(n + 1)'
<1>1. r \in Run /\ todo[r] \in Seq(Statement) /\ pc \in [Run -> {"ready", "running", "failed", "done", "serving"}]
  BY DEF MInv, Typing, Run
<1>2. Head(todo[r]) = Script[n + 1] /\ Left(Tail(todo[r]), n + 1)
  BY <1>1, LeftShorter
<1>3. /\ pc[r] = "running" /\ UNCHANGED pc /\ todo' = [todo EXCEPT ![r] = Tail(@)]
      /\ objects' = CASE Script[n + 1].op = "create" -> objects \cup {Script[n + 1].name}
                      [] Script[n + 1].op = "drop"   -> objects \ {Script[n + 1].name}
                      [] Script[n + 1].op = "stamp"  -> objects
      /\ version' = IF Script[n + 1].op = "stamp" THEN Target(r) ELSE version
  BY <1>2 DEF Execute
<1>4. /\ todo'[r] = Tail(todo[r])
      /\ \A q \in Deployment \ {r} : todo'[q] = todo[q] /\ pc'[q] = pc[q]
  BY <1>3 DEF MInv, Typing, Run
<1>5. Leads(r, n + 1)'
  BY <1>2, <1>3, <1>4 DEF Leads
<1>6. \A q \in Deployment \ {r} : Behind(q, n + 1)'
  BY <1>4 DEF Behind
<1>7. objects' = Made(n + 1) /\ version' = IF n + 1 = 13 THEN "head" ELSE "base"
  <2>1. CASE n \in 0 .. 11
    <3>1. /\ Script[n + 1].op = "create"
          /\ Made(n + 1) = Made(n) \cup {Script[n + 1].name}
      BY <2>1, InOrder
    <3>2. version' = version /\ objects' = objects \cup {Script[n + 1].name}
      BY <1>3, <3>1
    <3> QED
      BY <2>1, <3>1, <3>2
  <2>2. CASE n = 12
    <3>1. Made(12) = Made(13)
      BY DEF Made
    <3> QED
      BY <1>3, <2>2, <3>1, ScriptShape DEF Target
  <2> QED
    BY <2>1, <2>2
<1>8. n + 1 \in Nat /\ n + 1 > 0
  OBVIOUS
<1> QED
  BY <1>5, <1>6, <1>7, <1>8 DEF Led

\* What the one in the lead comes to, nobody refuses.
LEMMA NeverRefused ==
  ASSUME NEW r \in Deployment, NEW n \in 0 .. 12, objects = Made(n), version = "base"
  PROVE  ~Refused(r, Script[n + 1])
<1>1. CASE n \in 0 .. 11
  BY <1>1, InOrder DEF Refused
<1>2. CASE n = 12
  <2>1. Script[n + 1].op = "stamp"
    BY <1>2, ScriptShape
  <2> QED
    BY <2>1 DEF Refused, Target
<1> QED
  BY <1>1, <1>2

\* Who begins again, or with what another has done, is refused.
LEMMA LateRefused ==
  ASSUME NEW r \in Deployment, NEW n \in 1 .. 13, objects = Made(n)
  PROVE  /\ Refused(r, Script[1])
         /\ n >= 2 => Refused(r, Script[2])
<1>1. Script[1].op = "create" /\ Script[2].op = "create"
  <2>1. Script[0 + 1].op = "create" /\ Script[1 + 1].op = "create"
    BY InOrder
  <2> QED
    BY <2>1
<1>2. Script[1].name \in Made(n) /\ (n >= 2 => Script[2].name \in Made(n))
  BY DEF Made
<1> QED
  BY <1>1, <1>2 DEF Refused

\* A step that carries nothing out, of a run that is or gets behind or keeps
\* the lead.
LEMMA LeadKept ==
  ASSUME NEW n \in 0 .. 13, Led(n), NEW r \in Deployment, UNCHANGED <<objects, version>>,
         \A q \in Deployment \ {r} : pc'[q] = pc[q] /\ todo'[q] = todo[q],
         n = 0 => pc'[r] \in {"ready", "running"},
         Behind(r, n)', n > 0 /\ Leads(r, n) => Leads(r, n)'
  PROVE  Led(n)'
<1>1. \A q \in Deployment \ {r} : /\ Behind(q, n) => Behind(q, n)'
                                 /\ Leads(q, n) => Leads(q, n)'
  BY DEF Behind, Leads
<1>2. objects' = Made(n) /\ version' = IF n = 13 THEN "head" ELSE "base"
  BY DEF Led
<1>3. CASE n = 0
  <2>1. \A q \in Deployment : pc'[q] \in {"ready", "running"} /\ Behind(q, 0)'
    <3>1. \A q \in Deployment : pc[q] \in {"ready", "running"} /\ Behind(q, 0)
      BY <1>3 DEF Led
    <3>2. ASSUME NEW q \in Deployment \ {r}
          PROVE  pc'[q] \in {"ready", "running"} /\ Behind(q, 0)'
      BY <3>1 DEF Behind
    <3>3. pc'[r] \in {"ready", "running"} /\ Behind(r, 0)'
      BY <1>3 DEF Behind
    <3> QED
      BY <3>2, <3>3 DEF Behind
  <2> QED
    BY <1>2, <1>3, <2>1 DEF Led
<1>4. CASE n > 0
  <2>1. PICK l \in Deployment : Leads(l, n) /\ \A q \in Deployment \ {l} : Behind(q, n)
    BY <1>4 DEF Led
  <2>2. Leads(l, n)' /\ \A q \in Deployment \ {l} : Behind(q, n)'
    <3>1. CASE l = r
      BY <1>1, <1>4, <2>1, <3>1 DEF Leads, Behind
    <3>2. CASE l # r
      <4>1. Leads(l, n)'
        BY <2>1, <3>2 DEF Leads
      <4>2. \A q \in Deployment \ {l} : Behind(q, n)'
        BY <1>1, <2>1 DEF Behind
      <4> QED
        BY <4>1, <4>2
    <3> QED
      BY <3>1, <3>2
  <2> QED
    BY <1>2, <1>4, <2>2 DEF Led
<1> QED
  BY <1>3, <1>4

\* A statement is the leader's, or of one who takes the lead: when there is
\* nothing, or only the table of the version.
LEMMA LedExecute ==
  ASSUME MInv, NEW n \in 0 .. 13, Led(n), NEW r \in Deployment, Execute(r)
  PROVE  \E m \in 0 .. 13 : Led(m)'
<1>1. /\ todo[r] # <<>> /\ ~Refused(r, Head(todo[r])) /\ pc[r] = "running"
      /\ todo[r] \in Seq(Statement)
  BY DEF Execute, MInv, Typing, Run
<1>2. objects = Made(n) /\ version = IF n = 13 THEN "head" ELSE "base"
  BY DEF Led
<1>3. CASE n = 0
  <2>1. Left(todo[r], 0) /\ \A q \in Deployment \ {r} : Behind(q, 1)
    BY <1>1, <1>3 DEF Led, Behind
  <2>2. Led(0 + 1)'
    BY <1>2, <1>3, <2>1, LeadStep
  <2> QED
    BY <2>2
<1>4. CASE n > 0
  <2>1. PICK l \in Deployment : Leads(l, n) /\ \A q \in Deployment \ {l} : Behind(q, n)
    BY <1>4 DEF Led
  <2>2. CASE l = r
    <3>1. Left(todo[r], n)
      BY <1>1, <2>1, <2>2 DEF Leads
    <3>2. n # 13
      <4>1. n = 13 => Len(todo[r]) = 0
        BY <3>1 DEF Left
      <4> QED
        BY <1>1, <4>1, EmptySeq
    <3>3. \A q \in Deployment \ {r} : Behind(q, n + 1)
      BY <1>4, <2>1, <2>2, <3>2 DEF Behind
    <3>4. Led(n + 1)'
      BY <1>2, <3>1, <3>2, <3>3, LeadStep
    <3> QED
      BY <3>2, <3>4
  <2>3. CASE l # r
    <3>1. Left(todo[r], 0) \/ Left(todo[r], 1)
      BY <1>1, <2>1, <2>3 DEF Behind
    <3>2. ~Left(todo[r], 0)
      <4>1. Left(todo[r], 0) => Head(todo[r]) = Script[0 + 1]
        BY <1>1, LeftShorter
      <4> QED
        BY <1>1, <1>2, <1>4, <4>1, LateRefused
    <3>3. n = 1
      <4>1. Left(todo[r], 1) => Head(todo[r]) = Script[1 + 1]
        BY <1>1, LeftShorter
      <4> QED
        BY <1>1, <1>2, <1>4, <3>1, <3>2, <4>1, LateRefused
    <3>4. \A q \in Deployment \ {r} : Behind(q, 1 + 1)
      BY <2>1, <2>3, <3>3 DEF Behind, Leads
    <3>5. Led(1 + 1)'
      BY <1>2, <3>1, <3>2, <3>3, <3>4, LeadStep
    <3> QED
      BY <3>5
  <2> QED
    BY <2>2, <2>3
<1> QED
  BY <1>3, <1>4

\* A run that begins is behind: it has a script, whole or without its first
\* statement, or nothing to do.
LEMMA LedRead ==
  ASSUME MInv, NEW n \in 0 .. 13, Led(n), NEW r \in Deployment, Read(r)
  PROVE  Led(n)'
<1>1. /\ pc[r] = "ready" /\ pc'[r] = "running" /\ UNCHANGED <<objects, version>>
      /\ todo'[r] = (IF "alembic_version" \in objects THEN <<>> ELSE VersionTable) \o
            IF version = "head" THEN <<>> ELSE Upgrade
      /\ \A q \in Deployment \ {r} : pc'[q] = pc[q] /\ todo'[q] = todo[q]
  BY DEF Read, Goto, MInv, Typing, Run, Target
<1>2. objects = Made(n) /\ version = IF n = 13 THEN "head" ELSE "base"
  BY DEF Led
<1>3. "alembic_version" \in objects <=> n > 0
  <2>1. n > 0 => Script[1].name \in Made(n)
    BY DEF Made
  <2>2. Made(0) = {}
    BY DEF Made
  <2> QED
    BY <1>2, <2>1, <2>2, Names
<1>4. Behind(r, n)'
  <2>1. CASE n = 0
    <3>1. todo'[r] = Script
      BY <1>1, <1>2, <1>3, <2>1 DEF Script
    <3>2. Left(Script, 0)
      BY ScriptShape DEF Left
    <3> QED
      BY <3>1, <3>2 DEF Behind
  <2>2. CASE n \in 1 .. 12
    <3>1. todo'[r] = Upgrade
      <4>1. todo'[r] = <<>> \o Upgrade
        <5>1. "alembic_version" \in objects /\ version # "head"
          BY <1>2, <1>3, <2>2
        <5> QED
          BY <1>1, <5>1, Zenon
      <4>2. <<>> \o Upgrade = Upgrade
        BY ScriptShape, ConcatEmptySeq
      <4> QED
        BY <4>1, <4>2
    <3>2. Left(Upgrade, 1)
      BY ScriptShape DEF Left
    <3> QED
      BY <2>2, <3>1, <3>2 DEF Behind
  <2>3. CASE n = 13
    <3>1. todo'[r] = <<>> \o <<>>
      BY <1>1, <1>2, <1>3, <2>3
    <3>2. <<>> \o <<>> = <<>>
      BY EmptySeq, ConcatEmptySeq
    <3> QED
      BY <2>3, <3>1, <3>2 DEF Behind
  <2> QED
    BY <2>1, <2>2, <2>3
<1>5. ~Leads(r, n)
  BY <1>1 DEF Leads
<1> QED
  BY <1>1, <1>4, <1>5, LeadKept

\* Who fails is not the leader, and who completes its run is, or is behind one
\* that has done so.
LEMMA LedRest ==
  ASSUME MInv, NEW n \in 0 .. 13, Led(n), NEW r \in Deployment,
         Fail(r) \/ Complete(r) \/ Retry(r) \/ Start(r)
  PROVE  Led(n)'
<1>1. /\ UNCHANGED <<objects, version>> /\ pc'[r] # "running"
      /\ todo[r] \in Seq(Statement)
      /\ \A q \in Deployment \ {r} : pc'[q] = pc[q] /\ todo'[q] = todo[q]
  BY DEF Fail, Complete, Retry, Start, Goto, MInv, Typing, Run
<1>2. objects = Made(n) /\ version = IF n = 13 THEN "head" ELSE "base"
  BY DEF Led
<1>3. ASSUME pc[r] = "running", Left(todo[r], n) PROVE n = 13 /\ Complete(r)
  <2>1. CASE n \in 0 .. 12
    <3>1. todo[r] # <<>> /\ Head(todo[r]) = Script[n + 1]
      BY <1>1, <1>3, <2>1, LeftShorter
    <3>2. ~Refused(r, Script[n + 1])
      BY <1>2, <2>1, NeverRefused
    <3> QED
      BY <1>3, <3>1, <3>2 DEF Fail, Complete, Retry, Start, Goto
  <2>2. CASE n = 13
    <3>1. todo[r] = <<>>
      BY <1>1, <1>3, <2>2, EmptySeq DEF Left
    <3> QED
      BY <1>3, <2>2, <3>1 DEF Fail, Retry, Start, Goto
  <2> QED
    BY <2>1, <2>2
<1>4. n # 0
  <2>1. n = 0 => pc[r] \in {"ready", "running"} /\ Behind(r, 0)
    BY DEF Led
  <2>2. n = 0 => pc[r] = "running"
    BY <2>1 DEF Fail, Complete, Retry, Start, Goto
  <2> QED
    BY <1>3, <2>1, <2>2 DEF Behind
<1>5. Behind(r, n)'
  BY <1>1 DEF Behind
<1>6. Leads(r, n) => Leads(r, n)'
  <2>1. pc[r] = "running" /\ Left(todo[r], n) => n = 13 /\ pc'[r] = "done"
    BY <1>3 DEF Complete, Goto, MInv, Typing, Run
  <2>2. pc[r] \in {"done", "serving"} => pc'[r] = "serving"
    BY DEF Fail, Complete, Retry, Start, Goto, MInv, Typing, Run
  <2> QED
    BY <2>1, <2>2 DEF Leads
<1> QED
  BY <1>1, <1>4, <1>5, <1>6, LeadKept

\* One step per action of a run.
LEMMA LeaderStep == MInv /\ TypeOK /\ LeaderInv /\ [Next]_vars => LeaderInv'
<1> SUFFICES ASSUME MInv, TypeOK, LeaderInv, [Next]_vars, crashes' = 0, ~Undoing'
             PROVE  \E n \in 0 .. 13 : Led(n)'
  BY DEF LeaderInv
<1>1. ASSUME NEW r \in Run, Read(r) \/ Step(r) \/ Crash(r)
      PROVE  ~Undoing /\ crashes = 0 /\ r \in Deployment /\ ~Crash(r)
  <2>1. ASSUME NEW q \in Undo, pc[q] # "ready" \/ q = r
        PROVE  pc'[q] # "ready"
    BY <1>1, <2>1, MigrationAssumption
    DEF Read, Step, Execute, Fail, Complete, Retry, Start, Crash, Goto, MInv, Typing, Run
  <2>2. crashes = 0 /\ ~Crash(r)
    <3>1. crashes \in Nat
      BY MigrationAssumption DEF TypeOK
    <3>2. Crash(r) => crashes' = crashes + 1
      BY DEF Crash
    <3>3. ~Crash(r) => crashes' = crashes
      BY <1>1 DEF Read, Step, Execute, Fail, Complete, Retry, Start
    <3> QED
      BY <3>1, <3>2, <3>3
  <2> QED
    BY <2>1, <2>2 DEF Undoing, Run
<1>2. ASSUME UNCHANGED vars PROVE \E n \in 0 .. 13 : Led(n)'
  BY <1>2 DEF vars, LeaderInv, Undoing, Led, Leads, Behind
<1>3. ASSUME NEW r \in Run, Read(r) \/ Step(r) \/ Crash(r)
      PROVE  \E n \in 0 .. 13 : Led(n)'
  <2>1. PICK n \in 0 .. 13 : Led(n)
    BY <1>1, <1>3 DEF LeaderInv
  <2>2. r \in Deployment /\ ~Crash(r)
    BY <1>1, <1>3
  <2>3. CASE Read(r)
    BY <2>1, <2>2, <2>3, LedRead
  <2>4. CASE Execute(r)
    BY <2>1, <2>2, <2>4, LedExecute
  <2>5. CASE Fail(r) \/ Complete(r) \/ Retry(r) \/ Start(r)
    BY <2>1, <2>2, <2>5, LedRest
  <2> QED
    BY <1>3, <2>2, <2>3, <2>4, <2>5 DEF Step
<1> QED
  BY <1>2, <1>3 DEF Next, Rest

\* While no run has died and nobody downgrades, a run leads that nothing will
\* refuse.
THEOREM SomeoneLeads == Spec => []LeaderInv
<1>1. Init => LeaderInv
  <2> SUFFICES ASSUME Init PROVE Led(0)
    BY DEF LeaderInv
  <2>1. Made(0) = {}
    BY DEF Made
  <2> QED
    BY <2>1 DEF Init, Led, Behind, Run
<1> QED
  BY <1>1, InitMInv, NextMInv, TypeCorrect, LeaderStep, PTL DEF Spec

\* A deployment whose migration fails had a cause in another: a run beside it
\* which leads, one that died, or a downgrade (CREATE TABLE of
\* 0001_initial_schema.py refused for a table that is there).
THEOREM FailuresExplained == Spec => []FailuresHaveCause
<1>1. MInv /\ TypeOK /\ LeaderInv => FailuresHaveCause
  <2> SUFFICES ASSUME MInv, TypeOK, LeaderInv, NEW r \in Deployment, pc[r] = "failed",
                      crashes = 0, \A q \in Run \ {r} : pc[q] = "ready"
               PROVE  FALSE
    BY DEF FailuresHaveCause, TypeOK
  <2>1. ~Undoing
    BY MigrationAssumption DEF Undoing, Run
  <2>2. PICK n \in 0 .. 13 : Led(n)
    BY <2>1 DEF LeaderInv
  <2>3. n > 0
    BY <2>2 DEF Led
  <2>4. PICK l \in Deployment : Leads(l, n)
    BY <2>2, <2>3 DEF Led
  <2> QED
    BY <2>4 DEF Leads, Run
<1> QED
  BY <1>1, MigrationInvariance, TypeCorrect, SomeoneLeads, PTL
=============================================================================
