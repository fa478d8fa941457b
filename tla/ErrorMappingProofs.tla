------------------------- MODULE ErrorMappingProofs -------------------------
(***************************************************************************)
(* What ErrorMapping makes of each exception.  The classes an exception    *)
(* descends from are defined by recursion over the parents; a function     *)
(* that satisfies the recursion is exhibited first.                        *)
(***************************************************************************)
EXTENDS ErrorMapping, TLAPS

Classes == Exceptions \cup {"Exception"}

\* The classes up to n levels above c.
Above0(c) == {c}
Above1(c) == IF c = "Exception" THEN {c} ELSE {c} \cup Above0(Parent[c])
Above2(c) == IF c = "Exception" THEN {c} ELSE {c} \cup Above1(Parent[c])
Above3(c) == IF c = "Exception" THEN {c} ELSE {c} \cup Above2(Parent[c])

\* Nothing is further than three levels from the root.
LEMMA Parents ==
  /\ Exceptions = {"DomainError", "NotFoundError", "UserNotFoundError",
                   "InvalidCredentialsError", "AuthorizationError", "ConflictError",
                   "PlanAlreadyExistsError", "ValidationError",
                   "InvalidPlansFileError", "RequestValidationError",
                   "HTTPException", "InvalidOperation", "PasswordValueError",
                   "DataError", "TimeoutError", "IntegrityError", "OperationalError"}
  /\ \A c \in {"DomainError", "RequestValidationError", "HTTPException",
               "InvalidOperation", "PasswordValueError", "DataError", "TimeoutError",
               "IntegrityError", "OperationalError"} : Parent[c] = "Exception"
  /\ \A c \in {"NotFoundError", "InvalidCredentialsError", "AuthorizationError",
               "ConflictError", "ValidationError"} : Parent[c] = "DomainError"
  /\ Parent["UserNotFoundError"] = "NotFoundError"
  /\ Parent["PlanAlreadyExistsError"] = "ConflictError"
  /\ Parent["InvalidPlansFileError"] = "ValidationError"
  BY SMTT(60) DEF Exceptions, Parent

LEMMA ThreeLevels ==
  ASSUME NEW c \in Classes
  PROVE  Above3(c) = IF c = "Exception" THEN {c} ELSE {c} \cup Above3(Parent[c])
<1> USE DEF Above0, Above1, Above2, Above3
<1>1. CASE c = "Exception"
  BY <1>1
<1>2. CASE c \in {"DomainError", "RequestValidationError", "HTTPException",
                  "InvalidOperation", "PasswordValueError", "DataError", "TimeoutError",
                  "IntegrityError", "OperationalError"}
  BY <1>2, Parents
<1>3. CASE c \in {"NotFoundError", "InvalidCredentialsError", "AuthorizationError",
                  "ConflictError", "ValidationError"}
  BY <1>3, Parents
<1>4. CASE c \in {"UserNotFoundError", "PlanAlreadyExistsError", "InvalidPlansFileError"}
  BY <1>4, Parents
<1> QED
  BY <1>1, <1>2, <1>3, <1>4, Parents DEF Classes

\* The classes an exception descends from, itself included.
LEMMA BasesUnfold ==
  ASSUME NEW c \in Classes
  PROVE  Bases[c] = IF c = "Exception" THEN {c} ELSE {c} \cup Bases[Parent[c]]
<1> DEFINE F(f) == [d \in Classes |-> IF d = "Exception" THEN {d}
                                      ELSE {d} \cup f[Parent[d]]]
           table == [d \in Classes |-> Above3(d)]
<1>1. Bases = CHOOSE f : f = F(f)
  BY DEF Bases, Classes
<1>2. table = F(table)
  <2>1. \A d \in Classes : d = "Exception" \/ Parent[d] \in Classes
    BY Parents DEF Classes
  <2> QED
    BY <2>1, ThreeLevels
<1>3. Bases = F(Bases)
  <2> HIDE DEF table, F
  <2> QED
    BY <1>1, <1>2
<1> QED
  BY <1>3

LEMMA BasesOf ==
  /\ \A c \in {"RequestValidationError", "HTTPException", "InvalidOperation",
               "PasswordValueError", "DataError", "TimeoutError", "IntegrityError",
               "OperationalError"} : Bases[c] = {c, "Exception"}
  /\ \A c \in {"InvalidCredentialsError", "NotFoundError", "ValidationError"} :
        Bases[c] = {c, "DomainError", "Exception"}
  /\ Bases["UserNotFoundError"] =
        {"UserNotFoundError", "NotFoundError", "DomainError", "Exception"}
  /\ Bases["InvalidPlansFileError"] =
        {"InvalidPlansFileError", "ValidationError", "DomainError", "Exception"}
<1>1. Bases["Exception"] = {"Exception"}
  BY BasesUnfold DEF Classes
<1>2. \A c \in Exceptions : c # "Exception" /\ Bases[c] = {c} \cup Bases[Parent[c]]
  BY BasesUnfold, Parents DEF Classes
<1>3. Bases["DomainError"] = {"DomainError", "Exception"}
  BY <1>1, <1>2, Parents
<1>4. \A c \in {"InvalidCredentialsError", "NotFoundError", "ValidationError"} :
         Bases[c] = {c, "DomainError", "Exception"}
  BY <1>2, <1>3, Parents
<1> QED
  BY <1>1, <1>2, <1>4, Parents

\* The first entry of the table that names a base class, when only one does.
LEMMA TheOneEntry ==
  ASSUME NEW e, NEW i \in 1 .. 5, DomainStatusMap[i][1] \in Bases[e],
         \A j \in 1 .. 5 : DomainStatusMap[j][1] \in Bases[e] => j = i
  PROVE  StatusFor(e) = DomainStatusMap[i][2]
<1>1. DOMAIN DomainStatusMap = 1 .. 5
  BY DEF DomainStatusMap
<1>2. {j \in DOMAIN DomainStatusMap : DomainStatusMap[j][1] \in Bases[e]} = {i}
  BY <1>1
<1>3. (CHOOSE j \in {i} : \A k \in {i} : j <= k) = i
  OBVIOUS
<1> QED
  BY <1>2, <1>3 DEF StatusFor

\* The table, entry by entry.
LEMMA Entries ==
  /\ DomainStatusMap[1] = <<"NotFoundError", 404>>
  /\ DomainStatusMap[2] = <<"InvalidCredentialsError", 401>>
  /\ DomainStatusMap[3] = <<"AuthorizationError", 403>>
  /\ DomainStatusMap[4] = <<"ConflictError", 409>>
  /\ DomainStatusMap[5] = <<"ValidationError", 422>>
  BY DEF DomainStatusMap

\* The statuses of the exceptions a request ends with.
LEMMA StatusTable ==
  /\ StatusOf("InvalidCredentialsError") = 401
  /\ StatusOf("UserNotFoundError") = 404
  /\ StatusOf("InvalidPlansFileError") = 422
  /\ StatusOf("RequestValidationError") = 422
  /\ StatusOf("HTTPException") = 400
  /\ \A e \in {"InvalidOperation", "PasswordValueError", "DataError", "TimeoutError",
               "IntegrityError", "OperationalError"} : StatusOf(e) = 500
<1>1. \A i \in 1 .. 5 : i = 1 \/ i = 2 \/ i = 3 \/ i = 4 \/ i = 5
  OBVIOUS
<1>2. StatusFor("InvalidCredentialsError") = 401
  BY <1>1, TheOneEntry, Entries, BasesOf
<1>3. StatusFor("UserNotFoundError") = 404
  BY <1>1, TheOneEntry, Entries, BasesOf
<1>4. StatusFor("InvalidPlansFileError") = 422
  BY <1>1, TheOneEntry, Entries, BasesOf
<1> QED
  BY <1>2, <1>3, <1>4, BasesOf DEF StatusOf
=============================================================================
