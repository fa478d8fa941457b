-------------------------- MODULE RequestPoolProofs --------------------------
(***************************************************************************)
(* Proofs about RequestPool, for any requests, any pool and number of      *)
(* threads, and any outages.                                               *)
(*                                                                         *)
(* The invariant counts the pool's connections, says who may hold one or a *)
(* row lock, and follows what a request asks through the stages: what is   *)
(* past a check has passed it, and an end fits what was asked.             *)
(***************************************************************************)
EXTENDS RequestPool, ErrorMappingProofs, FiniteSetTheorems, SequenceTheorems, TLAPS

-----------------------------------------------------------------------------
(***************************************************************************)
(* The inductive invariant.                                                *)
(***************************************************************************)
Holding == {r \in Request : conn[r] # None}
Connecting == {r \in Request : pc[r] = "connecting"}

PoolInv ==
    /\ IsFiniteSet(Holding) /\ IsFiniteSet(Connecting)
    /\ open = Len(idle) + Cardinality(Holding) + Cardinality(Connecting)

Querying == {"query", "insert", "commit"}
Ended == {"leave", "respond", "done"}
\* What is refused before there is a connection.
Unfit == {"malformed", "invalid", "bad file", "NaN"}

Working == {"checkout", "waiting", "connecting", "verify"} \cup Querying

\* A connection is held over the statements and the check of a password; a
\* request that came in since the database was up holds one that lives.
ConnectionInv(r) ==
    /\ conn[r] # None => pc[r] \in Querying \cup {"verify", "leave"}
    /\ pc[r] \in Querying \cup {"verify"} => conn[r] # None
    /\ conn[r] # None => conn[r] \in 0 .. epoch
    /\ calm[r] => up /\ (conn[r] # None => conn[r] = epoch)
    /\ conn[r] # None /\ Protected(r) => ask[r].credential = "good"
    /\ conn[r] # None => ask[r].input \notin Unfit

\* Who commits on a living connection has the row's lock, and then no plan
\* is stored; a plan is stored for the one upload that is told so.
WriterInv(r) ==
    /\ writer = r => /\ pc[r] \in {"commit", "leave"} /\ ask[r].route = "upload"
                     /\ stored = None
    /\ pc[r] = "commit" /\ Alive(r) => writer = r
    /\ stored = r <=> ask[r].route = "upload" /\ result[r] = "Success"
    /\ stored = r => conn[r] = None

\* What a request is past, it has passed.
StageInv(r) ==
    /\ pc[r] \in {"auth", "decode"} => Protected(r)
    /\ pc[r] = "decode" => ask[r].credential # "missing"
    /\ pc[r] \in {"enter", "parse"} \cup Working /\ Protected(r) => ask[r].credential = "good"
    /\ pc[r] \in {"auth", "decode", "enter"} => ask[r].input # "malformed"
    /\ pc[r] = "parse" => ask[r].input \notin {"malformed", "invalid"}
    /\ pc[r] \in Working => ask[r].input \notin Unfit
    /\ pc[r] = "commit" => ask[r].input # "big sum"
    /\ pc[r] \in {"parse", "insert", "commit"} => ask[r].route = "upload"
    /\ pc[r] = "verify" => ask[r].route = "token"

NotServed == {"OperationalError", "TimeoutError"}

\* The ends that fit what is asked.
Fits(a) ==
    IF a.input = "malformed" THEN {"HTTPException"}
    ELSE IF a.route # "token" /\ a.credential # "good" THEN {"InvalidCredentialsError"}
    ELSE IF a.input = "invalid" THEN {"RequestValidationError"}
    ELSE IF a.input = "bad file" THEN {"InvalidPlansFileError"}
    ELSE IF a.input = "NaN" THEN {"InvalidOperation"}
    ELSE NotServed \cup
         (IF a.input = "unknown user" THEN {"UserNotFoundError"}
          ELSE IF a.route = "token" /\ a.credential # "good"
            THEN {"InvalidCredentialsError"}
                 \cup (IF a.input = "NUL password" THEN {"PasswordValueError"} ELSE {})
          ELSE IF a.input = "big sum" THEN {"InvalidPlansFileError", "DataError"}
          ELSE IF a.route = "upload"
            THEN {"Success", "InvalidPlansFileError", "IntegrityError"}
          ELSE {"Success"})

EndInv(r) ==
    /\ pc[r] \notin Ended => result[r] = "none"
    /\ pc[r] \in Ended => result[r] \in Fits(ask[r])
    /\ result[r] \in {"OperationalError", "IntegrityError"} /\ calm[r] =>
          ask[r].input = "big sum" \/ (ask[r].route = "upload" /\ Another(r))
    /\ answer[r] = (IF pc[r] # "done" THEN 0
                    ELSE IF result[r] = "Success" THEN SuccessStatus(r)
                    ELSE StatusOf(result[r]))

RequestInv(r) == ConnectionInv(r) /\ WriterInv(r) /\ StageInv(r) /\ EndInv(r)

RequestPoolInv ==
    /\ TypeOK
    /\ PoolInv
    /\ \A r \in Request : RequestInv(r)
    /\ ~up => epoch < MaxOutages

-----------------------------------------------------------------------------
(***************************************************************************)
(* What is assumed, and counting.                                          *)
(***************************************************************************)
LEMMA Assumed ==
  /\ PoolSize \in Nat \ {0} /\ Cap \in Nat /\ PoolSize <= Cap /\ MaxOutages \in Nat
  /\ \A a \in Scenarios : a \in [Request -> Asking]
  /\ None \notin Nat /\ None \notin Request
  BY RequestPoolAssumption DEF Cap

\* What a request asks.
LEMMA Asked ==
  ASSUME TypeOK, NEW r \in Request
  PROVE  /\ ask[r].route \in Routes /\ ask[r].credential \in Credentials
         /\ ask[r].input \in Inputs
         /\ ask[r].route = "token" => ask[r].credential # "missing"
         /\ ask[r].input \in {"bad file", "NaN", "big sum"} => ask[r].route = "upload"
         /\ ask[r].input = "unknown user" => ask[r].route = "report"
         /\ ask[r].input = "NUL password" =>
               ask[r].route = "token" /\ ask[r].credential = "bad"
<1>1. ask[r] \in Asking
  BY Assumed DEF TypeOK
<1> QED
  BY <1>1 DEF Asking

LEMMA OneMore ==
  ASSUME NEW S, IsFiniteSet(S), NEW x, x \notin S
  PROVE  IsFiniteSet(S \cup {x}) /\ Cardinality(S \cup {x}) = Cardinality(S) + 1
  BY FS_AddElement

LEMMA OneLess ==
  ASSUME NEW S, IsFiniteSet(S), NEW x \in S
  PROVE  /\ IsFiniteSet(S \ {x}) /\ Cardinality(S \ {x}) = Cardinality(S) - 1
         /\ Cardinality(S) >= 1
<1>1. IsFiniteSet(S \ {x}) /\ Cardinality(S \ {x}) = Cardinality(S) - 1
  BY FS_RemoveElement
<1>2. Cardinality(S) \in Nat /\ Cardinality(S \ {x}) \in Nat
  BY <1>1, FS_CardinalityType
<1> QED
  BY <1>1, <1>2

-----------------------------------------------------------------------------
(***************************************************************************)
(* The pool.                                                               *)
(***************************************************************************)
\* What the pool's part of a state means for one step.
LEMMA PoolFacts ==
  ASSUME RequestPoolInv
  PROVE  /\ Len(idle) \in Nat /\ open \in Nat
         /\ IsFiniteSet(Holding) /\ IsFiniteSet(Connecting)
         /\ Cardinality(Holding) \in Nat /\ Cardinality(Connecting) \in Nat
         /\ open = Len(idle) + Cardinality(Holding) + Cardinality(Connecting)
  BY FS_CardinalityType, LenProperties, Assumed DEF RequestPoolInv, PoolInv, TypeOK

\* A step that leaves the pool alone, and starts and ends no connecting.
LEMMA PoolRests ==
  ASSUME RequestPoolInv, UNCHANGED <<conn, pool>>,
         \A r \in Request : pc'[r] = "connecting" <=> pc[r] = "connecting"
  PROVE  PoolInv'
<1>1. Holding' = Holding /\ Connecting' = Connecting
  BY DEF Holding, Connecting
<1> QED
  BY <1>1 DEF RequestPoolInv, PoolInv, pool

\* A released connection goes to the idle ones or is no longer counted.
LEMMA ReleaseCounts ==
  ASSUME RequestPoolInv, NEW r \in Request, conn[r] # None, Release(r),
         \A q \in Request : pc'[q] = "connecting" <=> pc[q] = "connecting"
  PROVE  /\ PoolInv'
         /\ idle' \in Seq(Nat) /\ Len(idle') <= PoolSize
         /\ open' \in 0 .. Cap
         /\ conn' = [conn EXCEPT ![r] = None]
<1>1. conn' = [conn EXCEPT ![r] = None] /\ r \in Holding
  BY DEF Release, Holding
<1>2. Holding' = Holding \ {r} /\ Connecting' = Connecting
  BY <1>1 DEF Holding, Connecting, RequestPoolInv, TypeOK
<1>3. /\ IsFiniteSet(Holding') /\ Cardinality(Holding') = Cardinality(Holding) - 1
      /\ Cardinality(Holding) >= 1
  BY <1>1, <1>2, OneLess, PoolFacts
<1>4. conn[r] \in Nat /\ idle \in Seq(Nat) /\ Len(idle) <= PoolSize /\ open \in 0 .. Cap
  BY DEF RequestPoolInv, TypeOK
<1>5. CASE Len(idle) < PoolSize /\ idle' = Append(idle, conn[r]) /\ open' = open
  <2>1. idle' \in Seq(Nat) /\ Len(idle') = Len(idle) + 1
    BY <1>4, <1>5, AppendProperties
  <2> QED
    BY <1>1, <1>2, <1>3, <1>4, <1>5, <2>1, PoolFacts, Assumed DEF PoolInv
<1>6. CASE Len(idle) >= PoolSize /\ open' = open - 1 /\ idle' = idle
  BY <1>1, <1>2, <1>3, <1>4, <1>6, PoolFacts, Assumed DEF PoolInv
<1> QED
  BY <1>5, <1>6 DEF Release

-----------------------------------------------------------------------------
(***************************************************************************)
(* One request moves, the others rest.                                     *)
(***************************************************************************)
Rests(q) ==
    /\ pc'[q] = pc[q] /\ conn'[q] = conn[q] /\ result'[q] = result[q]
    /\ answer'[q] = answer[q] /\ calm'[q] = calm[q] /\ job'[q] = job[q]
    /\ writer' = q <=> writer = q
    /\ stored' = q <=> stored = q
    /\ writer = q => stored' = stored

LEMMA Bystander ==
  ASSUME NEW q \in Request, RequestInv(q), UNCHANGED <<ask, up, epoch>>, Rests(q)
  PROVE  RequestInv(q)'
<1>1. ConnectionInv(q)'
  BY DEF RequestInv, ConnectionInv, Rests, Protected
<1>2. WriterInv(q)'
  BY DEF RequestInv, WriterInv, Rests, Alive
<1>3. StageInv(q)'
  BY DEF RequestInv, StageInv, Rests, Protected
<1>4. EndInv(q)'
  BY DEF RequestInv, EndInv, Rests, Another, SuccessStatus
<1> QED
  BY <1>1, <1>2, <1>3, <1>4 DEF RequestInv

LEMMA OneMoves ==
  ASSUME RequestPoolInv, NEW r \in Request, UNCHANGED <<ask, up, epoch>>,
         \A q \in Request \ {r} : Rests(q),
         TypeOK', PoolInv', RequestInv(r)'
  PROVE  RequestPoolInv'
  BY Bystander DEF RequestPoolInv

-----------------------------------------------------------------------------
(***************************************************************************)
(* The actions that neither take nor give back a connection.               *)
(***************************************************************************)
\* Request r goes to p, with its work, end, answer and calm as told.
Moves(r, p, j, e, n, b) ==
    /\ UNCHANGED <<ask, up, epoch>>
    /\ pc' = [pc EXCEPT ![r] = p] /\ job' = [job EXCEPT ![r] = j]
    /\ result' = [result EXCEPT ![r] = e]
    /\ answer' = [answer EXCEPT ![r] = n] /\ calm' = [calm EXCEPT ![r] = b]

\* Such a step, of values there are, is judged by r's part of the invariant.
Proper(p, j, e, n, b) ==
    /\ p \in PC /\ j \in {"none", "queued", "running"}
    /\ j # "none" <=> p \in {"decode", "parse", "verify"}
    /\ e \in Exceptions \cup {"none", "Success"} /\ n \in Nat /\ b \in BOOLEAN

\* What is not written stays as it is.
LEMMA Unwritten ==
  ASSUME TypeOK, NEW r \in Request
  PROVE  /\ pc = [pc EXCEPT ![r] = pc[r]] /\ job = [job EXCEPT ![r] = job[r]]
         /\ result = [result EXCEPT ![r] = result[r]]
         /\ answer = [answer EXCEPT ![r] = answer[r]]
         /\ calm = [calm EXCEPT ![r] = calm[r]]
  BY DEF TypeOK

LEMMA MoveStep ==
  ASSUME RequestPoolInv, NEW r \in Request, NEW p, NEW j, NEW e, NEW n, NEW b,
         Moves(r, p, j, e, n, b), Proper(p, j, e, n, b)
  PROVE  /\ pc' \in [Request -> PC] /\ job' \in [Request -> {"none", "queued", "running"}]
         /\ \A q \in Request : job'[q] # "none" <=> pc'[q] \in {"decode", "parse", "verify"}
         /\ result' \in [Request -> Exceptions \cup {"none", "Success"}]
         /\ answer' \in [Request -> Nat] /\ calm' \in [Request -> BOOLEAN]
         /\ ask' \in Scenarios /\ up' \in BOOLEAN /\ epoch' \in 0 .. MaxOutages
         /\ pc'[r] = p /\ job'[r] = j /\ result'[r] = e /\ answer'[r] = n /\ calm'[r] = b
         /\ \A q \in Request \ {r} :
               /\ pc'[q] = pc[q] /\ job'[q] = job[q] /\ result'[q] = result[q]
               /\ answer'[q] = answer[q] /\ calm'[q] = calm[q]
<1>1. TypeOK
  BY DEF RequestPoolInv
<1> QED
  BY <1>1 DEF TypeOK, Moves, Proper

LEMMA PlainStep ==
  ASSUME RequestPoolInv, NEW r \in Request, NEW p, NEW j, NEW e, NEW n, NEW b,
         Moves(r, p, j, e, n, b), Proper(p, j, e, n, b),
         UNCHANGED <<conn, pool, stored>>,
         pc[r] # "connecting", p # "connecting",
         writer' = writer \/ (writer = None /\ writer' = r),
         RequestInv(r)'
  PROVE  RequestPoolInv'
<1>1. UNCHANGED <<ask, up, epoch>>
  BY DEF Moves
<1>2. \A q \in Request \ {r} : Rests(q)
  BY MoveStep, Assumed DEF Rests
<1>3. TypeOK'
  <2>1. /\ conn' \in [Request -> Nat \cup {None}] /\ idle' \in Seq(Nat)
        /\ Len(idle') <= PoolSize /\ open' \in 0 .. Cap
        /\ {writer', stored'} \subseteq Request \cup {None}
    BY DEF RequestPoolInv, TypeOK, pool
  <2> QED
    BY <2>1, MoveStep DEF TypeOK
<1>4. PoolInv'
  BY MoveStep, PoolRests
<1> QED
  BY <1>1, <1>2, <1>3, <1>4, OneMoves

\* The common case: nothing changes but r's place, its work and its end.
NowAt(r, p, e) ==
    /\ pc'[r] = p /\ result'[r] = e
    /\ UNCHANGED <<ask, conn, stored, writer, up, epoch>>
    /\ answer'[r] = answer[r] /\ calm'[r] = calm[r]

LEMMA ShiftStep ==
  ASSUME RequestPoolInv, NEW r \in Request, NEW p, NEW j, NEW e,
         Moves(r, p, j, e, answer[r], calm[r]),
         UNCHANGED <<conn, pool, stored, writer>>,
         pc[r] # "connecting", p \in PC \ {"connecting"}, j \in {"none", "queued", "running"},
         j # "none" <=> p \in {"decode", "parse", "verify"},
         e \in Exceptions \cup {"none", "Success"},
         NowAt(r, p, e) => RequestInv(r)'
  PROVE  RequestPoolInv'
<1>1. Proper(p, j, e, answer[r], calm[r])
  BY DEF RequestPoolInv, TypeOK, Proper
<1>2. RequestInv(r)'
  <2>1. pc'[r] = p /\ result'[r] = e /\ answer'[r] = answer[r] /\ calm'[r] = calm[r]
    BY <1>1, MoveStep
  <2>2. UNCHANGED <<ask, conn, stored, writer, up, epoch>>
    BY DEF Moves
  <2> QED
    BY <2>1, <2>2 DEF NowAt
<1> QED
  BY <1>1, <1>2, PlainStep

\* A request ends in a way that fits it, with its connection still to be given
\* back.
LEMMA EndStep ==
  ASSUME RequestPoolInv, NEW r \in Request, NEW e,
         Moves(r, "leave", "none", e, answer[r], calm[r]),
         UNCHANGED <<conn, pool, stored, writer>>,
         pc[r] \notin Ended \cup {"connecting"},
         e \in Exceptions \cup {"Success"}, e \in Fits(ask[r]),
         e = "Success" => ask[r].route # "upload",
         e \in {"OperationalError", "IntegrityError"} /\ calm[r] =>
            ask[r].input = "big sum" \/ (ask[r].route = "upload" /\ Another(r))
  PROVE  RequestPoolInv'
<1>1. RequestInv(r)
  BY DEF RequestPoolInv
<1>2. ASSUME NowAt(r, "leave", e) PROVE RequestInv(r)'
  <2>1. /\ pc'[r] = "leave" /\ result'[r] = e /\ answer'[r] = answer[r]
        /\ calm'[r] = calm[r] /\ UNCHANGED <<ask, conn, stored, writer, up, epoch>>
    BY <1>2 DEF NowAt
  <2>2. ConnectionInv(r)'
    BY <1>1, <2>1 DEF RequestInv, ConnectionInv, Querying, Protected
  <2>3. WriterInv(r)'
    BY <1>1, <2>1 DEF RequestInv, WriterInv, EndInv
  <2>4. StageInv(r)'
    BY <2>1 DEF StageInv, Working, Querying
  <2>5. EndInv(r)'
    BY <1>1, <2>1 DEF RequestInv, EndInv, Another, Ended
  <2> QED
    BY <2>2, <2>3, <2>4, <2>5 DEF RequestInv
<1>3. "leave" \in PC \ {"connecting"}
  BY DEF PC
<1> QED
  BY <1>2, <1>3, ShiftStep DEF Ended

-----------------------------------------------------------------------------
\* A request comes in, brings its credential and its parameters.
LEMMA ReceiveStep ==
  ASSUME RequestPoolInv, NEW r \in Request, Receive(r)
  PROVE  RequestPoolInv'
<1> DEFINE p == IF ask[r].input = "malformed" THEN "leave"
                ELSE IF Protected(r) THEN "auth" ELSE "enter"
           e == IF ask[r].input = "malformed" THEN "HTTPException" ELSE result[r]
<1>1. TypeOK /\ RequestInv(r)
  BY DEF RequestPoolInv
<1>2. UNCHANGED <<conn, pool, stored, writer, ask, job, up, epoch, answer>> /\ pc[r] = "idle"
  BY DEF Receive, Malformed, Ends, Goto, db
<1>3. Moves(r, p, job[r], e, answer[r], up)
  BY <1>1, <1>2, Unwritten DEF Receive, Malformed, Ends, Goto, Moves
<1>4. result[r] = "none" /\ job[r] = "none"
  BY <1>1, <1>2 DEF RequestInv, EndInv, Ended, TypeOK
<1>5. Proper(p, job[r], e, answer[r], up)
  <2>1. e \in Exceptions \cup {"none", "Success"}
    BY <1>4, Parents
  <2> HIDE DEF e
  <2> QED
    BY <1>1, <1>4, <2>1 DEF Proper, PC, TypeOK
<1>6. e = "HTTPException" => e \in Fits(ask[r])
  BY <1>4 DEF Fits
<1>7. RequestInv(r)'
  <2>1. /\ pc'[r] = p /\ result'[r] = e /\ answer'[r] = answer[r]
        /\ calm'[r] = up /\ UNCHANGED <<ask, conn, writer, stored, up, epoch>>
        /\ pc[r] = "idle"
        /\ \/ p = "leave" /\ e = "HTTPException"
           \/ /\ p \in {"auth", "enter"} /\ e = result[r] /\ (p = "auth" <=> Protected(r))
              /\ ask[r].input # "malformed"
    BY <1>2, <1>3, <1>5, MoveStep DEF Moves
  <2> HIDE DEF p, e
  <2>2. ConnectionInv(r)'
    BY <1>1, <2>1 DEF RequestInv, ConnectionInv, Querying, Protected
  <2>3. WriterInv(r)'
    BY <1>1, <1>4, <2>1 DEF RequestInv, WriterInv
  <2>4. StageInv(r)'
    BY <2>1 DEF StageInv, Working, Querying, Protected
  <2>5. EndInv(r)'
    BY <1>1, <1>4, <1>6, <2>1 DEF RequestInv, EndInv, Ended
  <2> QED
    BY <2>2, <2>3, <2>4, <2>5 DEF RequestInv
<1>8. p # "connecting"
  OBVIOUS
<1> QED
  BY <1>2, <1>3, <1>5, <1>7, <1>8, PlainStep

\* Which ends fit a request that has passed the checks before its work.
LEMMA FitsServed ==
  ASSUME TypeOK, NEW r \in Request, Protected(r) => ask[r].credential = "good",
         ask[r].input \notin Unfit
  PROVE  /\ "OperationalError" \in Fits(ask[r]) /\ "TimeoutError" \in Fits(ask[r])
         /\ ask[r].input = "unknown user" => "UserNotFoundError" \in Fits(ask[r])
         /\ ask[r].route = "token" /\ ask[r].credential # "good" =>
               "InvalidCredentialsError" \in Fits(ask[r])
         /\ ask[r].route = "upload" => "InvalidPlansFileError" \in Fits(ask[r])
         /\ ask[r].route = "upload" /\ ask[r].input # "big sum" =>
               {"Success", "IntegrityError"} \subseteq Fits(ask[r])
         /\ ask[r].input = "big sum" => "DataError" \in Fits(ask[r])
         /\ ask[r].input = "NUL password" => "PasswordValueError" \in Fits(ask[r])
         /\ /\ ask[r].credential = "good" /\ ask[r].input # "unknown user"
            /\ ask[r].route # "upload"
            => "Success" \in Fits(ask[r])
<1>1. /\ ~(ask[r].route # "token" /\ ask[r].credential # "good")
      /\ ask[r].input = "unknown user" => ask[r].route = "report"
      /\ ask[r].input = "big sum" => ask[r].route = "upload"
      /\ ask[r].input = "NUL password" =>
            ask[r].route = "token" /\ ask[r].credential # "good"
  BY Asked DEF Protected
<1> QED
  BY <1>1 DEF Fits, NotServed, Unfit

LEMMA AuthenticateStep ==
  ASSUME RequestPoolInv, NEW r \in Request, Authenticate(r)
  PROVE  RequestPoolInv'
<1>1. TypeOK /\ RequestInv(r)
  BY DEF RequestPoolInv
<1>2. pc[r] = "auth" /\ UNCHANGED <<ask, conn, pool, stored, writer, up, epoch, answer, calm>>
  BY DEF Authenticate, Ends, Submit, Goto, db
<1> USE DEF RequestInv, ConnectionInv, WriterInv, StageInv, EndInv, Querying, Working,
            Ended, Alive, Protected, NowAt
<1>3. CASE ask[r].credential = "missing"
  <2>1. Moves(r, "leave", "none", "InvalidCredentialsError", answer[r], calm[r])
    BY <1>1, <1>2, <1>3 DEF Authenticate, Ends, Goto, Moves, TypeOK
  <2>2. "InvalidCredentialsError" \in Exceptions
    BY Parents
  <2>3. "InvalidCredentialsError" \in Fits(ask[r])
    BY <1>1, <1>2, <1>3 DEF Fits
  <2> QED
    BY <1>2, <2>1, <2>2, <2>3, EndStep
<1>4. CASE ask[r].credential # "missing"
  <2>1. Moves(r, "decode", "queued", result[r], answer[r], calm[r])
    BY <1>1, <1>2, <1>4 DEF Authenticate, Submit, Goto, Moves, TypeOK
  <2>2. result[r] = "none"
    BY <1>1, <1>2
  <2> QED
    BY <1>1, <1>2, <1>4, <2>1, <2>2, ShiftStep DEF PC
<1> QED
  BY <1>3, <1>4

LEMMA EnterStep ==
  ASSUME RequestPoolInv, NEW r \in Request, Enter(r)
  PROVE  RequestPoolInv'
<1>1. TypeOK /\ RequestInv(r)
  BY DEF RequestPoolInv
<1>2. pc[r] = "enter" /\ UNCHANGED <<ask, conn, pool, stored, writer, up, epoch, answer, calm>>
  BY DEF Enter, Ends, Submit, Goto, db
<1> USE DEF RequestInv, ConnectionInv, WriterInv, StageInv, EndInv, Querying, Working,
            Ended, Alive, Protected, NowAt
<1>3. result[r] = "none" /\ job[r] = "none"
  BY <1>1, <1>2 DEF TypeOK
<1>4. CASE ask[r].input = "invalid"
  <2>1. Moves(r, "leave", "none", "RequestValidationError", answer[r], calm[r])
    BY <1>1, <1>2, <1>3, <1>4 DEF Enter, Ends, Goto, Moves, TypeOK
  <2>2. "RequestValidationError" \in Exceptions
    BY Parents
  <2>3. "RequestValidationError" \in Fits(ask[r])
    BY <1>1, <1>2, <1>4 DEF Fits
  <2> QED
    BY <1>2, <2>1, <2>2, <2>3, EndStep
<1>5. CASE ask[r].input # "invalid" /\ ask[r].route = "upload"
  <2>1. Moves(r, "parse", "queued", result[r], answer[r], calm[r])
    BY <1>1, <1>2, <1>5 DEF Enter, Submit, Goto, Moves, TypeOK
  <2> QED
    BY <1>1, <1>2, <1>3, <1>5, <2>1, ShiftStep DEF PC
<1>6. CASE ask[r].input # "invalid" /\ ask[r].route # "upload"
  <2>1. Moves(r, "checkout", job[r], result[r], answer[r], calm[r])
    BY <1>1, <1>2, <1>6 DEF Enter, Goto, Moves, TypeOK
  <2>2. ask[r].input \notin Unfit
    BY <1>1, <1>2, <1>6, Asked DEF Unfit
  <2> QED
    BY <1>1, <1>2, <1>3, <1>6, <2>1, <2>2, ShiftStep DEF PC
<1> QED
  BY <1>4, <1>5, <1>6

\* The work in a thread.
LEMMA StartJobStep ==
  ASSUME RequestPoolInv, NEW r \in Request, StartJob(r)
  PROVE  RequestPoolInv'
<1>1. TypeOK /\ RequestInv(r)
  BY DEF RequestPoolInv
<1>2. /\ UNCHANGED <<ask, conn, pool, stored, writer, up, epoch, answer, calm>>
      /\ job[r] = "queued"
  BY DEF StartJob, db
<1>3. pc[r] \in {"decode", "parse", "verify"}
  BY <1>1, <1>2 DEF TypeOK
<1>4. Moves(r, pc[r], "running", result[r], answer[r], calm[r])
  BY <1>1, <1>2 DEF StartJob, Moves, TypeOK, db
<1>5. result[r] \in Exceptions \cup {"none", "Success"}
  BY <1>1 DEF TypeOK
<1> QED
  BY <1>1, <1>2, <1>3, <1>4, <1>5, ShiftStep
  DEF RequestInv, ConnectionInv, WriterInv, StageInv, EndInv, Querying, Working, Ended,
      Alive, Protected, NowAt, PC

LEMMA FinishJobStep ==
  ASSUME RequestPoolInv, NEW r \in Request, FinishJob(r)
  PROVE  RequestPoolInv'
<1>1. TypeOK /\ RequestInv(r)
  BY DEF RequestPoolInv
<1>2. /\ UNCHANGED <<ask, conn, pool, stored, writer, up, epoch, answer, calm>>
      /\ pc[r] \in {"decode", "parse", "verify"}
  BY <1>1 DEF FinishJob, db, TypeOK
<1> USE DEF RequestInv, ConnectionInv, WriterInv, StageInv, EndInv, Querying, Working,
            Ended, Alive, Protected, NowAt
<1>3. result[r] = "none" /\ "leave" \in PC
  BY <1>1, <1>2 DEF PC
<1>4. CASE /\ pc[r] \in {"decode", "verify"} /\ ask[r].credential = "bad"
           /\ ~(pc[r] = "verify" /\ result'[r] = "PasswordValueError")
  <2>1. Moves(r, "leave", "none", "InvalidCredentialsError", answer[r], calm[r])
    BY <1>1, <1>2, <1>4 DEF FinishJob, Ends, Goto, Moves, TypeOK
  <2>2. "InvalidCredentialsError" \in Exceptions
    BY Parents
  <2>3. "InvalidCredentialsError" \in Fits(ask[r])
    <3>1. CASE pc[r] = "decode"
      BY <1>1, <1>4, <3>1 DEF Fits
    <3>2. CASE pc[r] = "verify"
      BY <1>1, <1>4, <3>2, FitsServed
    <3> QED
      BY <1>4, <3>1, <3>2
  <2> QED
    BY <1>2, <2>1, <2>2, <2>3, EndStep
<1>5. CASE pc[r] = "decode" /\ ask[r].credential = "good"
  <2>1. Moves(r, "enter", "none", result[r], answer[r], calm[r])
    BY <1>1, <1>2, <1>5 DEF FinishJob, Ends, Goto, Moves, TypeOK
  <2> QED
    BY <1>1, <1>2, <1>3, <1>5, <2>1, ShiftStep DEF PC
<1>6. CASE pc[r] = "verify" /\ ask[r].credential = "good"
  <2>1. Moves(r, "leave", "none", "Success", answer[r], calm[r])
    BY <1>1, <1>2, <1>6, Asked DEF FinishJob, Ends, Goto, Moves, TypeOK
  <2>2. "Success" \in Fits(ask[r])
    BY <1>1, <1>6, FitsServed, Asked
  <2> QED
    BY <1>1, <1>2, <1>6, <2>1, <2>2, EndStep
<1>7. CASE pc[r] = "parse" /\ ask[r].input = "bad file"
  <2>1. Moves(r, "leave", "none", "InvalidPlansFileError", answer[r], calm[r])
    BY <1>1, <1>2, <1>7 DEF FinishJob, Ends, Goto, Moves, TypeOK
  <2>2. "InvalidPlansFileError" \in Exceptions
    BY Parents
  <2>3. "InvalidPlansFileError" \in Fits(ask[r])
    BY <1>1, <1>7 DEF Fits
  <2> QED
    BY <1>2, <2>1, <2>2, <2>3, EndStep
<1>8. CASE pc[r] = "parse" /\ ask[r].input = "NaN"
  <2>1. Moves(r, "leave", "none", "InvalidOperation", answer[r], calm[r])
    BY <1>1, <1>2, <1>8 DEF FinishJob, Ends, Goto, Moves, TypeOK
  <2>2. "InvalidOperation" \in Exceptions
    BY Parents
  <2>3. "InvalidOperation" \in Fits(ask[r])
    BY <1>1, <1>8 DEF Fits
  <2> QED
    BY <1>2, <2>1, <2>2, <2>3, EndStep
<1>9. CASE pc[r] = "parse" /\ ask[r].input \notin {"bad file", "NaN"}
  <2>1. Moves(r, "checkout", "none", result[r], answer[r], calm[r])
    BY <1>1, <1>2, <1>9 DEF FinishJob, Ends, Goto, Moves, TypeOK
  <2>2. ask[r].input \notin Unfit
    BY <1>1, <1>9 DEF Unfit
  <2> QED
    BY <1>1, <1>2, <1>3, <1>9, <2>1, <2>2, ShiftStep DEF PC
<1>11. CASE /\ pc[r] = "verify" /\ ask[r].credential = "bad"
            /\ result'[r] = "PasswordValueError"
  <2>1. /\ Moves(r, "leave", "none", "PasswordValueError", answer[r], calm[r])
        /\ ask[r].input = "NUL password"
    BY <1>1, <1>2, <1>11 DEF FinishJob, Ends, Goto, Moves, TypeOK
  <2>2. "PasswordValueError" \in Exceptions
    BY Parents
  <2>3. "PasswordValueError" \in Fits(ask[r])
    BY <1>1, <1>11, <2>1, FitsServed
  <2> QED
    BY <1>2, <2>1, <2>2, <2>3, EndStep
<1>10. CASE ask[r].credential = "missing" /\ pc[r] # "parse"
  BY <1>1, <1>2, <1>10, Asked
<1> QED
  BY <1>1, <1>2, <1>4, <1>5, <1>6, <1>7, <1>8, <1>9, <1>10, <1>11, Asked DEF Credentials

-----------------------------------------------------------------------------
\* The statements.  Who runs one has passed all checks and has no work for a
\* thread.
LEMMA AtStatement ==
  ASSUME RequestPoolInv, NEW r \in Request, pc[r] \in Querying
  PROVE  /\ result[r] = "none" /\ job[r] = "none" /\ conn[r] \in 0 .. epoch
         /\ Protected(r) => ask[r].credential = "good"
         /\ ask[r].input \notin Unfit
         /\ calm[r] => Alive(r)
         /\ pc[r] # "query" => ask[r].route = "upload" /\ Protected(r)
         /\ pc[r] = "commit" => ask[r].input # "big sum"
         /\ stored # r
<1>1. TypeOK /\ RequestInv(r)
  BY DEF RequestPoolInv
<1>2. result[r] = "none" /\ job[r] = "none"
  BY <1>1 DEF TypeOK, RequestInv, EndInv, Ended, Querying
<1>3. conn[r] \in 0 .. epoch /\ (calm[r] => Alive(r))
  BY <1>1 DEF RequestInv, ConnectionInv, Alive
<1>4. /\ Protected(r) => ask[r].credential = "good"
      /\ ask[r].input \notin Unfit
      /\ pc[r] # "query" => ask[r].route = "upload" /\ Protected(r)
      /\ pc[r] = "commit" => ask[r].input # "big sum"
  BY <1>1 DEF RequestInv, StageInv, Working, Querying, Protected
<1>5. stored # r
  BY <1>1, <1>2 DEF RequestInv, WriterInv
<1> QED
  BY <1>2, <1>3, <1>4, <1>5

LEMMA QueryStep ==
  ASSUME RequestPoolInv, NEW r \in Request, Query(r)
  PROVE  RequestPoolInv'
<1>1. TypeOK /\ RequestInv(r)
  BY DEF RequestPoolInv
<1>2. /\ UNCHANGED <<ask, conn, pool, stored, writer, up, epoch, answer, calm>>
      /\ pc[r] = "query" /\ pc[r] \notin Ended \cup {"connecting"}
  BY <1>1 DEF Query, Ends, Submit, Goto, db, Ended
<1>3. /\ result[r] = "none" /\ job[r] = "none"
      /\ Protected(r) => ask[r].credential = "good"
      /\ ask[r].input \notin Unfit
  BY <1>2, AtStatement DEF Querying
<1>4. CASE ask[r].route = "token"
  <2>1. Moves(r, "verify", "queued", result[r], answer[r], calm[r])
    BY <1>1, <1>2, <1>4 DEF Query, Submit, Goto, Moves, TypeOK
  <2> QED
    BY <1>1, <1>2, <1>3, <1>4, <2>1, ShiftStep
    DEF RequestInv, ConnectionInv, WriterInv, StageInv, EndInv, Querying, Working, Ended,
        Alive, Protected, NowAt, PC
<1>5. CASE ask[r].route = "report"
  <2> DEFINE e == IF ask[r].input = "unknown user" THEN "UserNotFoundError" ELSE "Success"
  <2>1. Moves(r, "leave", "none", e, answer[r], calm[r])
    BY <1>1, <1>2, <1>3, <1>5, Unwritten DEF Query, Ends, Goto, Moves
  <2>2. e \in Exceptions \cup {"Success"} /\ e \notin {"OperationalError", "IntegrityError"}
    BY Parents
  <2>3. e \in Fits(ask[r])
    BY <1>1, <1>3, <1>5, FitsServed DEF Protected
  <2> HIDE DEF e
  <2> QED
    BY <1>2, <1>5, <2>1, <2>2, <2>3, EndStep
<1>6. CASE ask[r].route = "upload" /\ stored # None
  <2>1. Moves(r, "leave", "none", "InvalidPlansFileError", answer[r], calm[r])
    BY <1>1, <1>2, <1>3, <1>6, Unwritten DEF Query, Ends, Goto, Moves
  <2>2. "InvalidPlansFileError" \in Exceptions
    BY Parents
  <2>3. "InvalidPlansFileError" \in Fits(ask[r])
    BY <1>1, <1>3, <1>6, FitsServed
  <2> QED
    BY <1>2, <2>1, <2>2, <2>3, EndStep
<1>7. CASE ask[r].route = "upload" /\ stored = None
  <2>1. Moves(r, "insert", job[r], result[r], answer[r], calm[r])
    BY <1>1, <1>2, <1>7 DEF Query, Goto, Moves, TypeOK
  <2> QED
    BY <1>1, <1>2, <1>3, <1>7, <2>1, ShiftStep
    DEF RequestInv, ConnectionInv, WriterInv, StageInv, EndInv, Querying, Working, Ended,
        Alive, Protected, NowAt, PC
<1> QED
  BY <1>4, <1>5, <1>6, <1>7 DEF Query

\* A sum the column cannot hold, a duplicate, a wait for a row lock that took
\* too long and a dead connection.
LEMMA FailedStatement ==
  ASSUME RequestPoolInv, NEW r \in Request,
         SumOutOfRange(r) \/ Duplicate(r) \/ LockTimeout(r) \/ Broken(r)
  PROVE  RequestPoolInv'
<1> DEFINE e == IF SumOutOfRange(r) THEN result'[r]
                ELSE IF Duplicate(r) THEN "IntegrityError" ELSE "OperationalError"
<1>1. TypeOK /\ RequestInv(r)
  BY DEF RequestPoolInv
<1>2. /\ UNCHANGED <<ask, conn, pool, stored, writer, up, epoch, answer, calm>>
      /\ pc[r] \in Querying /\ pc[r] \notin Ended \cup {"connecting"}
  BY <1>1 DEF SumOutOfRange, Duplicate, LockTimeout, Broken, Ends, Goto, db, Querying, Ended
<1>3. /\ job[r] = "none" /\ ask[r].input \notin Unfit
      /\ Protected(r) => ask[r].credential = "good"
      /\ calm[r] => Alive(r)
      /\ pc[r] # "query" => ask[r].route = "upload" /\ Protected(r)
      /\ stored # r
  BY <1>2, AtStatement
<1>4. e \in Exceptions /\ (SumOutOfRange(r) => e \in {"DataError", "OperationalError"})
  <2>1. SumOutOfRange(r) => result'[r] \in {"DataError", "OperationalError"}
    BY <1>1 DEF SumOutOfRange, Ends, TypeOK
  <2> QED
    BY <2>1, Parents
<1>5. e \in Fits(ask[r])
  <2>1. CASE SumOutOfRange(r)
    <3>1. ask[r].input = "big sum"
      BY <2>1 DEF SumOutOfRange
    <3> QED
      BY <1>1, <1>3, <1>4, <2>1, <3>1, FitsServed
  <2>2. CASE ~SumOutOfRange(r) /\ Duplicate(r)
    <3>1. pc[r] = "insert" /\ ask[r].input # "big sum"
      BY <2>2 DEF Duplicate, Indexes, Ends, Goto
    <3> QED
      BY <1>1, <1>3, <2>2, <3>1, FitsServed
  <2>3. CASE ~SumOutOfRange(r) /\ ~Duplicate(r)
    BY <1>1, <1>3, <2>3, FitsServed
  <2> QED
    BY <2>1, <2>2, <2>3
<1>6. e \in {"OperationalError", "IntegrityError"} /\ calm[r] =>
         ask[r].input = "big sum" \/ (ask[r].route = "upload" /\ Another(r))
  <2>0. SumOutOfRange(r) => ask[r].input = "big sum"
    BY DEF SumOutOfRange
  <2> SUFFICES ASSUME ~SumOutOfRange(r), calm[r]
               PROVE  ask[r].route = "upload" /\ Another(r)
    BY <2>0
  <2>1. \/ LockTimeout(r) /\ pc[r] = "insert" /\ writer # None
        \/ Duplicate(r) /\ pc[r] = "insert" /\ stored # None
    BY <1>3 DEF Broken, LockTimeout, Duplicate, Ends, Goto
  <2>2. \/ writer \in Request /\ writer # r
        \/ stored \in Request /\ stored # r
    BY <1>1, <1>3, <2>1 DEF TypeOK, RequestInv, WriterInv
  <2>3. \A q \in Request : q = writer \/ q = stored => ask[q].route = "upload"
    BY DEF RequestPoolInv, RequestInv, WriterInv
  <2> QED
    BY <1>3, <2>1, <2>2, <2>3 DEF Another
<1>7. Moves(r, "leave", "none", e, answer[r], calm[r])
  <2>1. SumOutOfRange(r) => ~Duplicate(r)
    BY DEF SumOutOfRange, Duplicate, Indexes
  <2> QED
    BY <1>1, <1>2, <1>3, <2>1, Unwritten
    DEF SumOutOfRange, Duplicate, LockTimeout, Broken, Ends, Goto, Moves
<1> HIDE DEF e
<1>8. e # "Success"
  BY <1>4, Parents
<1> QED
  BY <1>2, <1>4, <1>5, <1>6, <1>7, <1>8, EndStep

LEMMA InsertStep ==
  ASSUME RequestPoolInv, NEW r \in Request, Insert(r)
  PROVE  RequestPoolInv'
<1>1. TypeOK /\ RequestInv(r)
  BY DEF RequestPoolInv
<1>2. /\ UNCHANGED <<ask, conn, pool, stored, up, epoch, result, answer, calm>>
      /\ pc[r] = "insert" /\ writer = None /\ stored = None /\ writer' = r
      /\ ask[r].input # "big sum"
  BY DEF Insert, Indexes, Goto, db
<1>3. result[r] = "none" /\ job[r] = "none" /\ ask[r].route = "upload"
  BY <1>2, AtStatement DEF Querying
<1>4. Moves(r, "commit", job[r], result[r], answer[r], calm[r])
  BY <1>1, <1>2 DEF Insert, Goto, Moves, TypeOK
<1>5. Proper("commit", job[r], result[r], answer[r], calm[r])
  BY <1>1, <1>3 DEF Proper, PC, TypeOK
<1>6. RequestInv(r)'
  <2>1. pc'[r] = "commit"
    BY <1>1, <1>4, <1>5, MoveStep
  <2>2. writer # r /\ stored # r
    BY <1>2, Assumed
  <2> QED
    BY <1>1, <1>2, <1>3, <2>1, <2>2
    DEF RequestInv, ConnectionInv, WriterInv, StageInv, EndInv, Querying, Working, Ended,
        Alive, Protected
<1> QED
  BY <1>2, <1>4, <1>5, <1>6, PlainStep

\* The answer.
LEMMA RespondStep ==
  ASSUME RequestPoolInv, NEW r \in Request, Respond(r)
  PROVE  RequestPoolInv'
<1> DEFINE n == IF result[r] = "Success" THEN SuccessStatus(r) ELSE StatusOf(result[r])
<1>1. TypeOK /\ RequestInv(r)
  BY DEF RequestPoolInv
<1>2. /\ UNCHANGED <<ask, conn, pool, stored, writer, up, epoch, result, calm>>
      /\ pc[r] = "respond"
  BY DEF Respond, Goto, db
<1>3. Moves(r, "done", job[r], result[r], n, calm[r])
  BY <1>1, <1>2 DEF Respond, Goto, Moves, TypeOK, db
<1>4. n \in Nat
  <2>1. result[r] \in Fits(ask[r])
    BY <1>1, <1>2 DEF RequestInv, EndInv, Ended
  <2>2. result[r] \in {"Success", "InvalidCredentialsError", "UserNotFoundError",
                       "InvalidPlansFileError", "RequestValidationError",
                       "HTTPException", "InvalidOperation", "PasswordValueError",
                       "DataError", "TimeoutError", "IntegrityError", "OperationalError"}
    BY <2>1 DEF Fits, NotServed
  <2>3. result[r] # "Success" => StatusOf(result[r]) \in {400, 401, 404, 422, 500}
    BY <2>2, StatusTable
  <2> QED
    BY <2>3 DEF SuccessStatus
<1>5. Proper("done", job[r], result[r], n, calm[r])
  BY <1>1, <1>2, <1>4 DEF Proper, PC, TypeOK
<1>6. RequestInv(r)'
  <2>1. pc'[r] = "done" /\ answer'[r] = n
    BY <1>3, <1>5, MoveStep
  <2> QED
    BY <1>1, <1>2, <2>1
    DEF RequestInv, ConnectionInv, WriterInv, StageInv, EndInv, Querying, Working, Ended,
        Alive, Protected, Another, SuccessStatus
<1> QED
  BY <1>2, <1>3, <1>5, <1>6, PlainStep

-----------------------------------------------------------------------------
(***************************************************************************)
(* The actions on the pool.                                                *)
(***************************************************************************)
LEMMA ConnWritten ==
  ASSUME TypeOK, NEW r \in Request, NEW c \in Nat \cup {None}, conn' = [conn EXCEPT ![r] = c]
  PROVE  /\ conn' \in [Request -> Nat \cup {None}] /\ conn'[r] = c
         /\ \A q \in Request \ {r} : conn'[q] = conn[q]
  BY DEF TypeOK

LEMMA EpochType == TypeOK => epoch \in Nat
  BY DEF TypeOK

\* Request r moves, and its connection and the pool change.
LEMMA PoolStep ==
  ASSUME RequestPoolInv, NEW r \in Request, NEW p, NEW j, NEW e,
         Moves(r, p, j, e, answer[r], calm[r]), Proper(p, j, e, answer[r], calm[r]),
         NEW c \in Nat \cup {None}, conn' = [conn EXCEPT ![r] = c],
         idle' \in Seq(Nat), Len(idle') <= PoolSize, open' \in 0 .. Cap,
         {writer', stored'} \subseteq Request \cup {None},
         \A q \in Request \ {r} : /\ writer' = q <=> writer = q
                                  /\ stored' = q <=> stored = q
                                  /\ writer = q => stored' = stored,
         PoolInv', RequestInv(r)'
  PROVE  RequestPoolInv'
<1>1. UNCHANGED <<ask, up, epoch>>
  BY DEF Moves
<1>2. conn' \in [Request -> Nat \cup {None}] /\ \A q \in Request \ {r} : conn'[q] = conn[q]
  BY ConnWritten DEF RequestPoolInv
<1>3. ASSUME NEW q \in Request \ {r} PROVE Rests(q)
  <2>1. /\ pc'[q] = pc[q] /\ job'[q] = job[q] /\ result'[q] = result[q]
        /\ answer'[q] = answer[q] /\ calm'[q] = calm[q]
    BY MoveStep
  <2> QED
    BY <1>2, <2>1 DEF Rests
<1>4. TypeOK'
  BY <1>2, MoveStep DEF TypeOK
<1> QED
  BY <1>1, <1>3, <1>4, OneMoves

\* Who asks the pool for a connection has passed all checks and has none.
LEMMA AtPool ==
  ASSUME RequestPoolInv, NEW r \in Request, pc[r] \in {"checkout", "waiting", "connecting"}
  PROVE  /\ TypeOK /\ RequestInv(r)
         /\ result[r] = "none" /\ job[r] = "none" /\ conn[r] = None /\ r \notin Holding
         /\ Protected(r) => ask[r].credential = "good"
         /\ ask[r].input \notin Unfit
         /\ calm[r] => up
         /\ writer # r /\ stored # r
         /\ "OperationalError" \in Fits(ask[r]) /\ "TimeoutError" \in Fits(ask[r])
<1>1. TypeOK /\ RequestInv(r)
  BY DEF RequestPoolInv
<1>2. result[r] = "none" /\ job[r] = "none"
  BY <1>1 DEF TypeOK, RequestInv, EndInv, Ended
<1>3. conn[r] = None /\ (calm[r] => up)
  BY <1>1 DEF RequestInv, ConnectionInv, Querying, Protected
<1>4. /\ Protected(r) => ask[r].credential = "good"
      /\ ask[r].input \notin Unfit
  BY <1>1 DEF RequestInv, StageInv, Working
<1>5. writer # r /\ stored # r
  BY <1>1, <1>2 DEF RequestInv, WriterInv
<1> QED
  BY <1>1, <1>2, <1>3, <1>4, <1>5, FitsServed DEF Holding

\* It goes on to p, with the connection c or none yet, or it ends.
LEMMA PoolMoves ==
  ASSUME RequestPoolInv, NEW r \in Request,
         pc[r] \in {"checkout", "waiting", "connecting"},
         NEW p, NEW e, NEW c \in Nat \cup {None},
         Moves(r, p, "none", e, answer[r], calm[r]), UNCHANGED <<writer, stored>>,
         conn' = [conn EXCEPT ![r] = c],
         \/ p \in {"waiting", "connecting"} /\ e = "none" /\ c = None
         \/ p = "query" /\ e = "none" /\ up /\ c = epoch
         \/ p = "leave" /\ c = None /\ e \in NotServed
            /\ (e = "OperationalError" => ~up),
         idle' \in Seq(Nat), Len(idle') <= PoolSize, open' \in 0 .. Cap, PoolInv'
  PROVE  RequestPoolInv'
<1>1. /\ TypeOK /\ RequestInv(r) /\ result[r] = "none"
      /\ Protected(r) => ask[r].credential = "good"
      /\ ask[r].input \notin Unfit
      /\ calm[r] => up
      /\ writer # r /\ stored # r
      /\ "OperationalError" \in Fits(ask[r]) /\ "TimeoutError" \in Fits(ask[r])
  BY AtPool
<1>2. {"OperationalError", "TimeoutError"} \subseteq Exceptions
  BY Parents
<1>3. Proper(p, "none", e, answer[r], calm[r])
  BY <1>1, <1>2 DEF Proper, PC, NotServed, TypeOK
<1>4. /\ pc'[r] = p /\ result'[r] = e /\ answer'[r] = answer[r] /\ calm'[r] = calm[r]
      /\ conn'[r] = c
  <2>1. pc'[r] = p /\ result'[r] = e /\ answer'[r] = answer[r] /\ calm'[r] = calm[r]
    BY <1>3, MoveStep
  <2> QED
    BY <1>1, <2>1, ConnWritten
<1>5. UNCHANGED <<ask, up, epoch, writer, stored>> /\ epoch \in Nat
  BY <1>1, EpochType DEF Moves
<1>6. RequestInv(r)'
  <2>1. ConnectionInv(r)'
    <3>1. CASE p = "query"
      <4>1. /\ pc'[r] = "query" /\ up' /\ conn'[r] = epoch' /\ epoch' # None
            /\ epoch' \in 0 .. epoch'
        BY <1>4, <1>5, <3>1, Assumed
      <4>2. /\ Protected(r)' => ask'[r].credential = "good"
            /\ ask'[r].input \notin Unfit
        BY <1>1, <1>5 DEF Protected
      <4> QED
        BY <4>1, <4>2 DEF ConnectionInv, Querying
    <3>2. CASE p # "query"
      <4>1. c = None /\ p \in {"waiting", "connecting", "leave"}
        BY <3>2
      <4> QED
        BY <1>1, <1>4, <1>5, <4>1 DEF ConnectionInv, Querying, Protected
    <3> QED
      BY <3>1, <3>2
  <2>2. WriterInv(r)'
    BY <1>1, <1>4, <1>5 DEF WriterInv, NotServed
  <2>3. StageInv(r)'
    BY <1>1, <1>4, <1>5 DEF StageInv, Working, Querying, Protected
  <2>4. EndInv(r)'
    <3>1. answer[r] = 0
      BY <1>1 DEF RequestInv, EndInv
    <3>2. e \in NotServed => e \in {"OperationalError", "TimeoutError"}
      BY DEF NotServed
    <3> QED
      BY <1>1, <1>4, <1>5, <3>1, <3>2 DEF EndInv, Ended
  <2> QED
    BY <2>1, <2>2, <2>3, <2>4 DEF RequestInv
<1>7. {writer', stored'} \subseteq Request \cup {None}
  BY <1>1, <1>5 DEF TypeOK
<1> QED
  BY <1>3, <1>5, <1>6, <1>7, PoolStep

\* The pool's variables, and r's parts in its count.
LEMMA AtPoolCount ==
  ASSUME RequestPoolInv, NEW r \in Request, pc[r] \in {"checkout", "waiting", "connecting"}
  PROVE  /\ idle \in Seq(Nat) /\ Len(idle) <= PoolSize /\ open \in 0 .. Cap
         /\ conn = [conn EXCEPT ![r] = None] /\ job = [job EXCEPT ![r] = "none"]
         /\ result = [result EXCEPT ![r] = "none"]
         /\ answer = [answer EXCEPT ![r] = answer[r]] /\ calm = [calm EXCEPT ![r] = calm[r]]
<1>1. TypeOK /\ job[r] = "none" /\ conn[r] = None /\ result[r] = "none"
  BY AtPool
<1>2. conn = [conn EXCEPT ![r] = conn[r]]
  BY <1>1 DEF TypeOK
<1>3. idle \in Seq(Nat) /\ Len(idle) <= PoolSize /\ open \in 0 .. Cap
  BY <1>1 DEF TypeOK
<1> QED
  BY <1>1, <1>2, <1>3, Unwritten

\* Who connects, when r is not one of them and does not come to be.
LEMMA NotThere ==
  ASSUME TypeOK, NEW r \in Request, NEW p, p # "connecting", pc[r] # "connecting",
         pc' = [pc EXCEPT ![r] = p]
  PROVE  Connecting' = Connecting
<1>1. pc'[r] = p /\ \A q \in Request \ {r} : pc'[q] = pc[q]
  BY DEF TypeOK
<1> QED
  BY <1>1 DEF Connecting

LEMMA TakeIdleStep ==
  ASSUME RequestPoolInv, NEW r \in Request, TakeIdle(r)
  PROVE  RequestPoolInv'
<1>1. /\ pc[r] \in {"checkout", "waiting"} /\ idle # <<>> /\ up
      /\ UNCHANGED <<job, open, writer, stored, result>>
      /\ conn' = [conn EXCEPT ![r] = epoch] /\ idle' = Tail(idle)
      /\ pc' = [pc EXCEPT ![r] = "query"]
  BY DEF TakeIdle, Pinged, Goto, db
<1>2. /\ idle \in Seq(Nat) /\ Len(idle) <= PoolSize /\ open \in 0 .. Cap
      /\ TypeOK /\ conn[r] = None /\ r \notin Holding
  BY <1>1, AtPool, AtPoolCount
<1>3. Moves(r, "query", "none", "none", answer[r], calm[r])
  BY <1>1, AtPoolCount DEF TakeIdle, Goto, db, Moves
<1>4. idle' \in Seq(Nat) /\ Len(idle') = Len(idle) - 1
  BY <1>1, <1>2, HeadTailProperties
<1>5. epoch \in Nat /\ epoch # None
  BY <1>2, EpochType, Assumed
<1>6. PoolInv'
  <2>1. Holding' = Holding \cup {r}
    BY <1>1, <1>2, <1>5 DEF Holding, TypeOK
  <2>2. Connecting' = Connecting
    BY <1>1, <1>2, NotThere
  <2>3. /\ IsFiniteSet(Holding') /\ Cardinality(Holding') = Cardinality(Holding) + 1
    BY <1>2, <2>1, OneMore, PoolFacts
  <2> QED
    BY <1>1, <1>4, <2>2, <2>3, PoolFacts DEF PoolInv
<1>7. Len(idle') <= PoolSize /\ open' \in 0 .. Cap
  BY <1>1, <1>2, <1>4, PoolFacts, Assumed
<1> QED
  BY <1>1, <1>3, <1>4, <1>5, <1>6, <1>7, PoolMoves

LEMMA UnreachableStep ==
  ASSUME RequestPoolInv, NEW r \in Request, Unreachable(r)
  PROVE  RequestPoolInv'
<1>1. /\ pc[r] \in {"checkout", "waiting"} /\ idle # <<>> /\ ~up
      /\ UNCHANGED <<conn, open, writer, stored>>
      /\ idle' = Append(Tail(idle), Head(idle))
      /\ pc' = [pc EXCEPT ![r] = "leave"]
  BY DEF Unreachable, Ends, Goto, db
<1>2. /\ idle \in Seq(Nat) /\ Len(idle) <= PoolSize /\ open \in 0 .. Cap /\ TypeOK
  BY <1>1, AtPool, AtPoolCount
<1>3. Moves(r, "leave", "none", "OperationalError", answer[r], calm[r])
  BY <1>1, AtPoolCount DEF Unreachable, Ends, Goto, db, Moves
<1>4. idle' \in Seq(Nat) /\ Len(idle') = Len(idle)
  <2>1. /\ Tail(idle) \in Seq(Nat) /\ Len(Tail(idle)) = Len(idle) - 1
        /\ Head(idle) \in Nat
    BY <1>1, <1>2, HeadTailProperties
  <2>2. idle' \in Seq(Nat) /\ Len(idle') = Len(Tail(idle)) + 1
    BY <1>1, <2>1, AppendProperties
  <2> QED
    BY <2>1, <2>2, PoolFacts
<1>5. PoolInv'
  <2>1. Holding' = Holding /\ Connecting' = Connecting
    BY <1>1, <1>2, NotThere DEF Holding
  <2> QED
    BY <1>1, <1>4, <2>1, PoolFacts DEF PoolInv
<1>6. conn' = [conn EXCEPT ![r] = None]
  BY <1>1, AtPoolCount
<1> QED
  BY <1>1, <1>2, <1>3, <1>4, <1>5, <1>6, PoolMoves DEF NotServed

\* A new connection is begun at once, or when the wait has been too long.
LEMMA BeginStep ==
  ASSUME RequestPoolInv, NEW r \in Request, pc[r] \in {"checkout", "waiting"},
         Moves(r, "connecting", "none", "none", answer[r], calm[r]),
         UNCHANGED <<conn, idle, writer, stored>>, open < Cap, open' = open + 1
  PROVE  RequestPoolInv'
<1>1. /\ idle \in Seq(Nat) /\ Len(idle) <= PoolSize /\ open \in 0 .. Cap /\ TypeOK
  BY AtPool, AtPoolCount
<1>2. PoolInv'
  <2>1. Holding' = Holding
    BY DEF Holding
  <2>2. Connecting' = Connecting \cup {r} /\ r \notin Connecting
    BY <1>1 DEF Moves, TypeOK, Connecting
  <2> QED
    BY <1>1, <2>1, <2>2, OneMore, PoolFacts DEF PoolInv
<1>3. open' \in 0 .. Cap
  BY <1>1, Assumed
<1>4. conn' = [conn EXCEPT ![r] = None]
  BY AtPoolCount
<1> QED
  BY <1>1, <1>2, <1>3, <1>4, PoolMoves

LEMMA CreatedStep ==
  ASSUME RequestPoolInv, NEW r \in Request, Created(r)
  PROVE  RequestPoolInv'
<1>1. /\ pc[r] = "connecting" /\ up
      /\ UNCHANGED <<idle, open, writer, stored>>
      /\ conn' = [conn EXCEPT ![r] = epoch]
      /\ pc' = [pc EXCEPT ![r] = "query"]
  BY DEF Created, Goto, db, pool
<1>2. /\ idle \in Seq(Nat) /\ Len(idle) <= PoolSize /\ open \in 0 .. Cap
      /\ TypeOK /\ conn[r] = None /\ r \notin Holding
  BY <1>1, AtPool, AtPoolCount
<1>3. Moves(r, "query", "none", "none", answer[r], calm[r])
  BY <1>1, AtPoolCount DEF Created, Goto, db, Moves
<1>4. epoch \in Nat /\ epoch # None
  BY <1>2, EpochType, Assumed
<1>5. PoolInv'
  <2>1. Holding' = Holding \cup {r}
    BY <1>1, <1>2, <1>4 DEF Holding, TypeOK
  <2>2. Connecting' = Connecting \ {r} /\ r \in Connecting
    BY <1>1, <1>2 DEF TypeOK, Connecting
  <2>3. IsFiniteSet(Holding') /\ Cardinality(Holding') = Cardinality(Holding) + 1
    BY <1>2, <2>1, OneMore, PoolFacts
  <2>4. /\ IsFiniteSet(Connecting')
        /\ Cardinality(Connecting') = Cardinality(Connecting) - 1
    BY <2>2, OneLess, PoolFacts
  <2> QED
    BY <1>1, <2>3, <2>4, PoolFacts DEF PoolInv
<1> QED
  BY <1>1, <1>2, <1>3, <1>4, <1>5, PoolMoves

LEMMA CreateFailsStep ==
  ASSUME RequestPoolInv, NEW r \in Request, CreateFails(r)
  PROVE  RequestPoolInv'
<1>1. /\ pc[r] = "connecting" /\ ~up
      /\ UNCHANGED <<conn, idle, writer, stored>> /\ open' = open - 1
      /\ pc' = [pc EXCEPT ![r] = "leave"]
  BY DEF CreateFails, Ends, Goto, db
<1>2. idle \in Seq(Nat) /\ Len(idle) <= PoolSize /\ open \in 0 .. Cap /\ TypeOK
  BY <1>1, AtPool, AtPoolCount
<1>3. Moves(r, "leave", "none", "OperationalError", answer[r], calm[r])
  BY <1>1, AtPoolCount DEF CreateFails, Ends, Goto, db, Moves
<1>4. Holding' = Holding /\ Connecting' = Connecting \ {r} /\ r \in Connecting
  BY <1>1, <1>2 DEF TypeOK, Holding, Connecting
<1>5. /\ IsFiniteSet(Connecting') /\ Cardinality(Connecting') = Cardinality(Connecting) - 1
      /\ Cardinality(Connecting) >= 1
  BY <1>4, OneLess, PoolFacts
<1>6. PoolInv' /\ open' \in 0 .. Cap
  BY <1>1, <1>2, <1>4, <1>5, PoolFacts, Assumed DEF PoolInv
<1>7. conn' = [conn EXCEPT ![r] = None]
  BY <1>1, AtPoolCount
<1> QED
  BY <1>1, <1>2, <1>3, <1>6, <1>7, PoolMoves DEF NotServed

\* A request waits, begins to connect, or gives up waiting.
LEMMA PoolFullStep ==
  ASSUME RequestPoolInv, NEW r \in Request,
         BeginCreate(r) \/ WaitForConnection(r) \/ PoolTimeout(r)
  PROVE  RequestPoolInv'
<1>1. /\ pc[r] \in {"checkout", "waiting"}
      /\ UNCHANGED <<conn, idle, writer, stored>>
  BY DEF BeginCreate, WaitForConnection, PoolTimeout, Goto, db, pool
<1>2. /\ idle \in Seq(Nat) /\ Len(idle) <= PoolSize /\ open \in 0 .. Cap /\ TypeOK
      /\ conn' = [conn EXCEPT ![r] = None]
  BY <1>1, AtPool, AtPoolCount
<1>3. CASE BeginCreate(r) \/ (PoolTimeout(r) /\ open < Cap)
  <2>1. /\ Moves(r, "connecting", "none", "none", answer[r], calm[r])
        /\ open < Cap /\ open' = open + 1
    BY <1>1, <1>2, <1>3, AtPoolCount
    DEF BeginCreate, PoolTimeout, Ends, Goto, db, Moves
  <2> QED
    BY <1>1, <2>1, BeginStep
<1>4. CASE WaitForConnection(r)
  <2>1. Moves(r, "waiting", "none", "none", answer[r], calm[r]) /\ open' = open
    BY <1>1, <1>4, AtPoolCount DEF WaitForConnection, Goto, db, pool, Moves
  <2>2. PoolInv'
    <3>1. Connecting' = Connecting
      BY <1>1, <1>2, <2>1, NotThere DEF Moves
    <3> QED
      BY <1>1, <2>1, <3>1 DEF RequestPoolInv, PoolInv, Holding
  <2> QED
    BY <1>1, <1>2, <2>1, <2>2, PoolMoves
<1>5. CASE PoolTimeout(r) /\ open = Cap
  <2>1. Moves(r, "leave", "none", "TimeoutError", answer[r], calm[r]) /\ open' = open
    BY <1>1, <1>5, AtPoolCount DEF PoolTimeout, Ends, Goto, db, Moves
  <2>2. PoolInv'
    <3>1. Connecting' = Connecting
      BY <1>1, <1>2, <2>1, NotThere DEF Moves
    <3> QED
      BY <1>1, <2>1, <3>1 DEF RequestPoolInv, PoolInv, Holding
  <2> QED
    BY <1>1, <1>2, <2>1, <2>2, PoolMoves DEF NotServed
<1> QED
  BY <1>3, <1>4, <1>5 DEF PoolTimeout

\* The commit: the writer's plan is stored and its connection given back.
LEMMA CommitStep ==
  ASSUME RequestPoolInv, NEW r \in Request, Commit(r)
  PROVE  RequestPoolInv'
<1>1. /\ pc[r] = "commit" /\ Alive(r) /\ stored' = r /\ writer' = None /\ Release(r)
      /\ UNCHANGED <<ask, up, epoch, answer, calm>>
      /\ pc' = [pc EXCEPT ![r] = "leave"]
  BY DEF Commit, Ends, Goto
<1>2. TypeOK /\ RequestInv(r)
  BY DEF RequestPoolInv
<1>3. writer = r /\ stored = None /\ ask[r].route = "upload" /\ conn[r] # None
  BY <1>1, <1>2 DEF RequestInv, WriterInv, ConnectionInv, Querying
<1>4. /\ job[r] = "none" /\ answer[r] = 0
      /\ ask[r].input \notin Unfit \cup {"big sum"}
      /\ Protected(r) => ask[r].credential = "good"
  BY <1>1, <1>2, AtStatement DEF Querying, RequestInv, EndInv
<1>5. Moves(r, "leave", "none", "Success", answer[r], calm[r])
  BY <1>1, <1>2, <1>4, Unwritten DEF Commit, Ends, Goto, Moves
<1>6. Proper("leave", "none", "Success", answer[r], calm[r])
  BY <1>2 DEF Proper, PC, TypeOK
<1>7. \A q \in Request : pc'[q] = "connecting" <=> pc[q] = "connecting"
  BY <1>1, <1>2 DEF TypeOK
<1>8. /\ PoolInv' /\ idle' \in Seq(Nat) /\ Len(idle') <= PoolSize /\ open' \in 0 .. Cap
      /\ conn' = [conn EXCEPT ![r] = None]
  BY <1>1, <1>3, <1>7, ReleaseCounts
<1>9. RequestInv(r)'
  <2>1. pc'[r] = "leave" /\ result'[r] = "Success" /\ answer'[r] = 0 /\ calm'[r] = calm[r]
    <3>1. /\ pc'[r] = "leave" /\ result'[r] = "Success" /\ answer'[r] = answer[r]
          /\ calm'[r] = calm[r]
      BY <1>5, <1>6, MoveStep
    <3> QED
      BY <1>4, <3>1
  <2>2. conn'[r] = None
    BY <1>2, <1>8, ConnWritten
  <2>3. ConnectionInv(r)'
    BY <1>1, <1>2, <2>1, <2>2 DEF ConnectionInv, RequestInv, Querying, Protected
  <2>4. WriterInv(r)'
    BY <1>1, <1>3, <2>1, <2>2, Assumed DEF WriterInv
  <2>5. StageInv(r)'
    BY <2>1 DEF StageInv, Working, Querying
  <2>6. "Success" \in Fits(ask[r])
    BY <1>2, <1>3, <1>4, FitsServed
  <2>7. EndInv(r)'
    BY <1>1, <2>1, <2>6 DEF EndInv, Ended
  <2> QED
    BY <2>3, <2>4, <2>5, <2>7 DEF RequestInv
<1>10. \A q \in Request \ {r} : /\ writer' = q <=> writer = q
                                /\ stored' = q <=> stored = q
                                /\ writer = q => stored' = stored
  BY <1>1, <1>3, Assumed
<1> QED
  BY <1>1, <1>5, <1>6, <1>8, <1>9, <1>10, PoolStep

\* A rollback that fails is told instead of the end, which it fits as well.
LEMMA LeftWithAnEnd ==
  ASSUME RequestPoolInv, NEW r \in Request, pc[r] = "leave"
  PROVE  /\ LeftWith(r) \in Exceptions \cup {"none", "Success"}
         /\ LeftWith(r) \in Fits(ask[r])
         /\ calm[r] => LeftWith(r) = result[r]
         /\ stored = r <=> ask[r].route = "upload" /\ LeftWith(r) = "Success"
<1>1. TypeOK /\ RequestInv(r)
  BY DEF RequestPoolInv
<1>2. calm[r] => LeftWith(r) = result[r]
  BY <1>1 DEF LeftWith, RequestInv, ConnectionInv, Alive
<1>3. CASE LeftWith(r) = result[r]
  BY <1>1, <1>3 DEF TypeOK, RequestInv, WriterInv, EndInv, Ended
<1>4. CASE LeftWith(r) # result[r]
  <2>1. LeftWith(r) = "OperationalError" /\ conn[r] # None
    BY <1>4 DEF LeftWith
  <2>2. "OperationalError" \in Exceptions
    BY Parents
  <2>3. "OperationalError" \in Fits(ask[r])
    BY <1>1, <2>1, FitsServed DEF RequestInv, ConnectionInv
  <2>4. stored # r
    BY <1>1, <2>1 DEF RequestInv, WriterInv
  <2> QED
    BY <1>2, <2>1, <2>2, <2>3, <2>4
<1> QED
  BY <1>3, <1>4

\* The unit of work is left with nothing in hand.
LEMMA LeaveStep ==
  ASSUME RequestPoolInv, NEW r \in Request, Leave(r)
  PROVE  RequestPoolInv'
<1> DEFINE e == LeftWith(r)
<1>1. /\ pc[r] = "leave" /\ pc' = [pc EXCEPT ![r] = "respond"]
      /\ writer' = (IF writer = r THEN None ELSE writer)
      /\ result' = [result EXCEPT ![r] = e]
      /\ UNCHANGED <<ask, stored, up, epoch, answer, calm, job>>
      /\ \/ conn[r] # None /\ Release(r)
         \/ conn[r] = None /\ UNCHANGED <<conn, pool>>
  BY DEF Leave, Goto
<1>2. TypeOK /\ RequestInv(r)
  BY DEF RequestPoolInv
<1>3. /\ e \in Exceptions \cup {"none", "Success"} /\ e \in Fits(ask[r])
      /\ calm[r] => e = result[r]
      /\ stored = r <=> ask[r].route = "upload" /\ e = "Success"
  BY <1>1, LeftWithAnEnd
<1> HIDE DEF e
<1>4. /\ Moves(r, "respond", job[r], e, answer[r], calm[r])
      /\ Proper("respond", job[r], e, answer[r], calm[r])
  <2>1. Moves(r, "respond", job[r], e, answer[r], calm[r])
    BY <1>1, <1>2, Unwritten DEF Moves
  <2>2. Proper("respond", job[r], e, answer[r], calm[r])
    BY <1>1, <1>2, <1>3 DEF Proper, PC, TypeOK
  <2> QED
    BY <2>1, <2>2
<1>5. \A q \in Request : pc'[q] = "connecting" <=> pc[q] = "connecting"
  BY <1>1, <1>2 DEF TypeOK
<1>6. /\ PoolInv' /\ idle' \in Seq(Nat) /\ Len(idle') <= PoolSize /\ open' \in 0 .. Cap
      /\ conn' = [conn EXCEPT ![r] = None]
  <2>1. CASE conn[r] # None /\ Release(r)
    BY <1>5, <2>1, ReleaseCounts
  <2>2. CASE conn[r] = None /\ UNCHANGED <<conn, pool>>
    BY <1>2, <1>5, <2>2, PoolRests DEF pool, TypeOK
  <2> QED
    BY <1>1, <2>1, <2>2
<1>7. RequestInv(r)'
  <2>1. /\ pc'[r] = "respond" /\ result'[r] = e /\ answer'[r] = answer[r]
        /\ calm'[r] = calm[r]
    BY <1>4, MoveStep
  <2>2. conn'[r] = None
    BY <1>2, <1>6, ConnWritten
  <2>3. ConnectionInv(r)'
    BY <1>1, <1>2, <2>1, <2>2 DEF ConnectionInv, RequestInv, Querying, Protected
  <2>4. WriterInv(r)'
    BY <1>1, <1>2, <1>3, <2>1, <2>2, Assumed DEF WriterInv, RequestInv
  <2>5. StageInv(r)'
    BY <2>1 DEF StageInv, Working, Querying
  <2>6. EndInv(r)'
    BY <1>1, <1>2, <1>3, <2>1 DEF EndInv, Ended, RequestInv, Another
  <2> QED
    BY <2>3, <2>4, <2>5, <2>6 DEF RequestInv
<1>8. \A q \in Request \ {r} : /\ writer' = q <=> writer = q
                               /\ stored' = q <=> stored = q
                               /\ writer = q => stored' = stored
  BY <1>1, Assumed
<1>9. {writer', stored'} \subseteq Request \cup {None}
  BY <1>1, <1>2 DEF TypeOK
<1> QED
  BY <1>4, <1>6, <1>7, <1>8, <1>9, PoolStep

-----------------------------------------------------------------------------
(***************************************************************************)
(* The database, and the whole.                                            *)
(***************************************************************************)
LEMMA InitInv == Init => RequestPoolInv
<1> SUFFICES ASSUME Init PROVE RequestPoolInv
  OBVIOUS
<1>1. <<>> \in Seq(Nat) /\ Len(<<>>) = 0
  BY EmptySeq
<1>2. TypeOK
  BY <1>1, Assumed DEF Init, TypeOK, PC
<1>3. PoolInv
  <2>1. Holding = {} /\ Connecting = {}
    BY DEF Init, Holding, Connecting
  <2> QED
    BY <1>1, <2>1, FS_EmptySet DEF Init, PoolInv
<1>4. ASSUME NEW r \in Request PROVE RequestInv(r)
  BY Assumed
  DEF Init, RequestInv, ConnectionInv, WriterInv, StageInv, EndInv, Querying, Working,
      Ended, Alive
<1> QED
  BY <1>2, <1>3, <1>4 DEF RequestPoolInv, Init

\* An outage ends transactions and calm; the next epoch is none that a
\* connection is of.
LEMMA OutageStep ==
  ASSUME RequestPoolInv, DbStops \/ DbStarts
  PROVE  RequestPoolInv'
<1>1. TypeOK /\ epoch \in 0 .. MaxOutages /\ MaxOutages \in Nat
  BY Assumed DEF RequestPoolInv, TypeOK
<1>2. UNCHANGED <<pc, ask, job, conn, pool, stored, result, answer>>
  BY DEF DbStops, DbStarts
<1>3. ~up => \A r \in Request : ~calm[r]
  BY DEF RequestPoolInv, RequestInv, ConnectionInv
<1>4. PoolInv'
  BY <1>2, PoolRests
<1>5. CASE DbStops
  <2>1. TypeOK'
    BY <1>1, <1>2, <1>5 DEF TypeOK, DbStops, pool
  <2>2. ASSUME NEW r \in Request PROVE RequestInv(r)'
    <3>1. ~calm'[r] /\ ~up' /\ writer' = None /\ writer' # r /\ epoch' = epoch
      BY <1>5, Assumed DEF DbStops
    <3> QED
      BY <1>2, <3>1
      DEF RequestPoolInv, RequestInv, ConnectionInv, WriterInv, StageInv, EndInv, Alive,
          Protected, SuccessStatus
  <2> QED
    BY <1>2, <1>4, <1>5, <2>1, <2>2 DEF RequestPoolInv, DbStops
<1>6. CASE DbStarts
  <2>1. TypeOK'
    <3>1. up' \in BOOLEAN /\ epoch' \in 0 .. MaxOutages /\ UNCHANGED <<writer, calm>>
      BY <1>1, <1>6 DEF RequestPoolInv, DbStarts
    <3> QED
      BY <1>1, <1>2, <3>1 DEF TypeOK, pool
  <2>2. ASSUME NEW r \in Request PROVE RequestInv(r)'
    <3>1. /\ ~calm'[r] /\ writer' = writer /\ epoch' = epoch + 1 /\ epoch \in Nat
      BY <1>1, <1>3, <1>6 DEF DbStarts
    <3>2. RequestInv(r)
      BY DEF RequestPoolInv
    <3>3. ConnectionInv(r)'
      BY <1>2, <3>1, <3>2 DEF RequestInv, ConnectionInv, Protected
    <3>4. pc[r] = "commit" => conn[r] # epoch'
      BY <3>1, <3>2 DEF RequestInv, ConnectionInv, Querying, Protected
    <3>5. WriterInv(r)'
      BY <1>2, <3>1, <3>2, <3>4 DEF RequestInv, WriterInv, Alive
    <3>6. StageInv(r)' /\ EndInv(r)'
      BY <1>2, <3>1, <3>2 DEF RequestInv, StageInv, EndInv, Protected, SuccessStatus
    <3> QED
      BY <3>3, <3>5, <3>6 DEF RequestInv
  <2> QED
    BY <1>4, <1>6, <2>1, <2>2 DEF RequestPoolInv, DbStarts
<1> QED
  BY <1>5, <1>6

\* One step per action.
LEMMA NextInv == RequestPoolInv /\ [Next]_vars => RequestPoolInv'
<1> SUFFICES ASSUME RequestPoolInv, [Next]_vars PROVE RequestPoolInv'
  OBVIOUS
<1>1. ASSUME NEW r \in Request,
             Receive(r) \/ Authenticate(r) \/ Enter(r) \/ StartJob(r) \/ FinishJob(r)
      PROVE  RequestPoolInv'
  BY <1>1, ReceiveStep, AuthenticateStep, EnterStep, StartJobStep, FinishJobStep
<1>2. ASSUME NEW r \in Request,
             \/ TakeIdle(r) \/ Unreachable(r) \/ BeginCreate(r) \/ Created(r)
             \/ CreateFails(r) \/ WaitForConnection(r) \/ PoolTimeout(r)
      PROVE  RequestPoolInv'
  BY <1>2, TakeIdleStep, UnreachableStep, CreatedStep, CreateFailsStep, PoolFullStep
<1>3. ASSUME NEW r \in Request,
             \/ Query(r) \/ SumOutOfRange(r) \/ Insert(r) \/ Duplicate(r) \/ LockTimeout(r)
             \/ Commit(r) \/ Broken(r) \/ Leave(r) \/ Respond(r)
      PROVE  RequestPoolInv'
  BY <1>3, QueryStep, InsertStep, FailedStatement, CommitStep, LeaveStep, RespondStep
<1>4. CASE DbStops \/ DbStarts
  BY <1>4, OutageStep
<1>5. CASE UNCHANGED vars
  <2>1. UNCHANGED <<pc, ask, job, conn, pool, writer, stored, up, epoch, result, answer, calm>>
    BY <1>5 DEF vars, db
  <2>2. TypeOK'
    BY <2>1 DEF RequestPoolInv, TypeOK, pool
  <2>3. PoolInv'
    BY <2>1, PoolRests
  <2>4. \A r \in Request : RequestInv(r)'
    BY <2>1, Bystander DEF RequestPoolInv, Rests
  <2> QED
    BY <2>1, <2>2, <2>3, <2>4 DEF RequestPoolInv
<1> QED
  BY <1>1, <1>2, <1>3, <1>4, <1>5 DEF Next, Step, Rest

-----------------------------------------------------------------------------
(***************************************************************************)
(* The theorems.                                                           *)
(***************************************************************************)
\* The pool's count, who holds what, what is past which check and which ends
\* fit what is asked, through any time-outs, failures and outages.
THEOREM RequestPoolInvariance == Spec => []RequestPoolInv
  BY InitInv, NextInv, PTL DEF Spec

\* Every variable keeps to its range, and only the three kinds of work for a
\* thread are ever queued or run.
THEOREM TypeCorrect == Spec => []TypeOK
<1>1. RequestPoolInv => TypeOK
  BY DEF RequestPoolInv
<1> QED
  BY <1>1, RequestPoolInvariance, PTL

\* The pool never loses a connection: what it counts is idle, held or being
\* connected, and an answered request holds nothing (QueuePool behind
\* SqlAlchemyUnitOfWork, whose __aexit__ closes the session on every path).
THEOREM PoolIsAccounted == Spec => []PoolAccounted
<1>1. RequestPoolInv => PoolAccounted
  <2> SUFFICES ASSUME RequestPoolInv PROVE PoolAccounted
    OBVIOUS
  <2>1. ASSUME NEW r \in Request, pc[r] \in {"respond", "done"}
        PROVE  conn[r] = None /\ writer # r
    BY <2>1 DEF RequestPoolInv, RequestInv, ConnectionInv, WriterInv, Querying
  <2> QED
    BY <2>1 DEF RequestPoolInv, PoolInv, Holding, Connecting, PoolAccounted
<1> QED
  BY <1>1, RequestPoolInvariance, PTL

\* The status a request is answered with is the one of its end.
LEMMA AnswerOfEnd ==
  ASSUME RequestPoolInv, NEW r \in Request, pc[r] = "done"
  PROVE  /\ result[r] \in Fits(ask[r])
         /\ result[r] = "Success" => answer[r] = SuccessStatus(r)
         /\ result[r] = "HTTPException" => answer[r] = 400
         /\ result[r] = "InvalidCredentialsError" => answer[r] = 401
         /\ result[r] = "UserNotFoundError" => answer[r] = 404
         /\ result[r] \in {"InvalidPlansFileError", "RequestValidationError"}
               => answer[r] = 422
         /\ result[r] \in {"InvalidOperation", "PasswordValueError", "DataError",
                          "IntegrityError", "OperationalError", "TimeoutError"}
               => answer[r] = 500
<1>1. /\ result[r] \in Fits(ask[r])
      /\ answer[r] = IF result[r] = "Success" THEN SuccessStatus(r)
                     ELSE StatusOf(result[r])
  BY DEF RequestPoolInv, RequestInv, EndInv, Ended
<1> QED
  BY <1>1, StatusTable

\* A request without a good credential costs a protected route no connection
\* and is told 401, unless its body cannot be read, which FastAPI answers with
\* 400 before it resolves require_principal.
THEOREM StrangersKeptOut == Spec => []StrangersTakeNothing
<1>1. RequestPoolInv => StrangersTakeNothing
  <2> SUFFICES ASSUME RequestPoolInv, NEW r \in Request,
                      Protected(r), ask[r].credential # "good"
               PROVE  /\ pc[r] \notin {"checkout", "waiting", "connecting", "parse"}
                      /\ conn[r] = None
                      /\ pc[r] = "done" =>
                            answer[r] = IF ask[r].input = "malformed" THEN 400 ELSE 401
    BY DEF StrangersTakeNothing
  <2>1. pc[r] \notin {"checkout", "waiting", "connecting", "parse"} /\ conn[r] = None
    BY DEF RequestPoolInv, RequestInv, ConnectionInv, StageInv, Working
  <2>2. CASE ask[r].input = "malformed"
    <3>1. Fits(ask[r]) = {"HTTPException"}
      BY <2>2 DEF Fits
    <3> QED
      BY <2>1, <2>2, <3>1, AnswerOfEnd
  <2>3. CASE ask[r].input # "malformed"
    <3>1. Fits(ask[r]) = {"InvalidCredentialsError"}
      BY <2>3 DEF Fits, Protected
    <3> QED
      BY <2>1, <2>3, <3>1, AnswerOfEnd
  <2> QED
    BY <2>2, <2>3
<1> QED
  BY <1>1, RequestPoolInvariance, PTL

\* A request that comes in after a restart of the database does not fail for
\* the dead connections it left in the pool (pool_pre_ping).
THEOREM NoLateOutage == Spec => []OutagesEndWithTheDatabase
<1>1. RequestPoolInv => OutagesEndWithTheDatabase
  BY DEF RequestPoolInv, RequestInv, EndInv, Another, OutagesEndWithTheDatabase
<1> QED
  BY <1>1, RequestPoolInvariance, PTL

\* Every answer has the status that what was asked deserves, 201 is told
\* exactly to the upload whose plan is stored, and while the database is up 500
\* has one of the reasons named (_DOMAIN_STATUS_MAP, the handlers and the order
\* of the checks; PlansExcelParser and column plans.sum).
THEOREM StatusesTrue == Spec => []StatusTruth
<1>1. RequestPoolInv => StatusTruth
  <2> SUFFICES ASSUME RequestPoolInv, NEW r \in Request, pc[r] = "done"
               PROVE  /\ answer[r] \in Deserved(r)
                      /\ answer[r] = 500 /\ calm[r] =>
                            \/ result[r] = "TimeoutError"
                            \/ ask[r].input \in {"NaN", "big sum", "NUL password"}
                            \/ /\ ask[r].route = "upload" /\ Another(r)
                               /\ result[r] \in {"IntegrityError", "OperationalError"}
    BY DEF StatusTruth
  <2>1. TypeOK /\ RequestInv(r)
    BY DEF RequestPoolInv
  <2>2. stored = r <=> ask[r].route = "upload" /\ result[r] = "Success"
    BY <2>1 DEF RequestInv, WriterInv
  <2>3. result[r] \in {"OperationalError", "IntegrityError"} /\ calm[r] =>
           ask[r].input = "big sum" \/ (ask[r].route = "upload" /\ Another(r))
    BY <2>1 DEF RequestInv, EndInv
  <2> DEFINE stranger == Protected(r) /\ ask[r].credential # "good"
  <2>4. answer[r] \in Deserved(r)
    <3>1. CASE stranger \/ ask[r].input \in Unfit
      <4>1. CASE ask[r].input = "malformed"
        <5>1. result[r] = "HTTPException"
          BY <4>1, AnswerOfEnd DEF Fits
        <5>2. 400 \in Deserved(r)
          BY <4>1 DEF Deserved
        <5> QED
          BY <5>1, <5>2, AnswerOfEnd
      <4>2. CASE stranger /\ ask[r].input # "malformed"
        <5>1. result[r] = "InvalidCredentialsError"
          BY <4>2, AnswerOfEnd DEF Fits, Protected
        <5>2. 401 \in Deserved(r)
          BY <4>2 DEF Deserved, Protected
        <5> QED
          BY <5>1, <5>2, AnswerOfEnd
      <4>3. CASE ~stranger /\ ask[r].input \in Unfit \ {"malformed"}
        <5>1. CASE ask[r].input = "invalid"
          <6>1. result[r] = "RequestValidationError"
            BY <4>3, <5>1, AnswerOfEnd DEF Fits, Protected
          <6> QED
            BY <4>3, <5>1, <6>1, AnswerOfEnd DEF Deserved
        <5>2. CASE ask[r].input = "bad file"
          <6>1. result[r] = "InvalidPlansFileError"
            BY <4>3, <5>2, AnswerOfEnd DEF Fits, Protected
          <6> QED
            BY <4>3, <5>2, <6>1, AnswerOfEnd DEF Deserved
        <5>3. CASE ask[r].input = "NaN"
          <6>1. result[r] = "InvalidOperation"
            BY <4>3, <5>3, AnswerOfEnd DEF Fits, Protected
          <6> QED
            BY <4>3, <5>3, <6>1, AnswerOfEnd DEF Deserved
        <5> QED
          BY <4>3, <5>1, <5>2, <5>3 DEF Unfit
      <4> QED
        BY <3>1, <4>1, <4>2, <4>3
    <3>2. CASE ~stranger /\ ask[r].input \notin Unfit
      <4>1. CASE ask[r].input = "unknown user"
        BY <3>2, <4>1, AnswerOfEnd DEF Fits, Deserved, Protected, NotServed, Unfit
      <4>2. CASE ask[r].input # "unknown user" /\ ask[r].route = "upload"
        <5>1. result[r] \in NotServed \cup {"Success", "InvalidPlansFileError",
                                           "IntegrityError", "DataError"}
          BY <3>2, <4>2, AnswerOfEnd DEF Fits, Protected, Unfit
        <5>2. Deserved(r) = IF stored = r THEN {201} ELSE {422, 500}
          BY <3>2, <4>2 DEF Deserved, Protected, Unfit
        <5>3. result[r] = "Success" => answer[r] = 201
          BY <4>2, AnswerOfEnd DEF SuccessStatus
        <5>4. result[r] # "Success" => answer[r] \in {422, 500}
          BY <5>1, AnswerOfEnd DEF NotServed
        <5> QED
          BY <2>2, <4>2, <5>2, <5>3, <5>4
      <4>3. CASE ask[r].input # "unknown user" /\ ask[r].route # "upload"
        <5>1. ask[r].input # "big sum"
          BY <2>1, <4>3, Asked
        <5>2. result[r] = "Success" => answer[r] = 200
          BY <4>3, AnswerOfEnd DEF SuccessStatus
        <5>3. result[r] \in NotServed => answer[r] = 500
          BY AnswerOfEnd DEF NotServed
        <5>4. CASE ask[r].route = "token" /\ ask[r].credential # "good"
          <6>1. result[r] \in NotServed \cup {"InvalidCredentialsError",
                                             "PasswordValueError"}
            BY <3>2, <4>3, <5>4, AnswerOfEnd DEF Fits, Protected, Unfit
          <6>2. Deserved(r) = {401, 500}
            BY <3>2, <4>3, <5>4 DEF Deserved, Protected, Unfit
          <6> QED
            BY <5>3, <6>1, <6>2, AnswerOfEnd
        <5>5. CASE ~(ask[r].route = "token" /\ ask[r].credential # "good")
          <6>1. result[r] \in NotServed \cup {"Success"}
            BY <3>2, <4>3, <5>1, <5>5, AnswerOfEnd DEF Fits, Protected, Unfit
          <6>2. Deserved(r) = {200, 500}
            BY <3>2, <4>3, <5>5 DEF Deserved, Protected, Unfit
          <6> QED
            BY <5>2, <5>3, <6>1, <6>2
        <5> QED
          BY <5>4, <5>5
      <4> QED
        BY <4>1, <4>2, <4>3
    <3> QED
      BY <3>1, <3>2
  <2>5. ASSUME answer[r] = 500
        PROVE  \/ result[r] \in {"TimeoutError", "OperationalError", "IntegrityError"}
               \/ ask[r].input \in {"NaN", "big sum", "NUL password"}
    <3>1. result[r] \in NotServed \cup {"IntegrityError", "InvalidOperation", "DataError",
                                       "PasswordValueError",
                                       "HTTPException", "InvalidPlansFileError",
                                       "RequestValidationError", "UserNotFoundError",
                                       "InvalidCredentialsError", "Success"}
      BY AnswerOfEnd DEF Fits
    <3>2. SuccessStatus(r) \in {200, 201}
      BY DEF SuccessStatus
    <3>3. result[r] \in NotServed \cup {"IntegrityError", "InvalidOperation", "DataError",
                                       "PasswordValueError"}
      BY <2>5, <3>1, <3>2, AnswerOfEnd
    <3>4. /\ result[r] = "InvalidOperation" => ask[r].input = "NaN"
          /\ result[r] = "DataError" => ask[r].input = "big sum"
          /\ result[r] = "PasswordValueError" => ask[r].input = "NUL password"
      <4>1. result[r] \in Fits(ask[r])
        BY AnswerOfEnd
      <4>2. "InvalidOperation" \in Fits(ask[r]) => ask[r].input = "NaN"
        BY DEF Fits, NotServed
      <4>3. "DataError" \in Fits(ask[r]) => ask[r].input = "big sum"
        BY DEF Fits, NotServed
      <4>4. "PasswordValueError" \in Fits(ask[r]) => ask[r].input = "NUL password"
        BY DEF Fits, NotServed
      <4> QED
        BY <4>1, <4>2, <4>3, <4>4
    <3> QED
      BY <2>1, <3>3, <3>4, Asked DEF NotServed
  <2> QED
    BY <2>3, <2>4, <2>5
<1> QED
  BY <1>1, RequestPoolInvariance, PTL
=============================================================================
