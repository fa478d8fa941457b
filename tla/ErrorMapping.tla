---------------------------- MODULE ErrorMapping ----------------------------
(***************************************************************************)
(* How an exception becomes the status of an answer: the handler of the    *)
(* nearest base class that has one, and for the errors of the domain the   *)
(* first entry of _DOMAIN_STATUS_MAP the exception is an instance of.      *)
(***************************************************************************)
EXTENDS Naturals, Sequences

\* The base class of each exception a request can end with: of the domain's
\* own, and of FastAPI, Starlette, decimal, passlib, SQLAlchemy and the driver.
Parent == [DomainError             |-> "Exception",
           NotFoundError           |-> "DomainError",
           UserNotFoundError       |-> "NotFoundError",
           InvalidCredentialsError |-> "DomainError",
           AuthorizationError      |-> "DomainError",
           ConflictError           |-> "DomainError",
           PlanAlreadyExistsError  |-> "ConflictError",
           ValidationError         |-> "DomainError",
           InvalidPlansFileError   |-> "ValidationError",
           RequestValidationError  |-> "Exception",
           HTTPException           |-> "Exception",
           InvalidOperation        |-> "Exception",
           PasswordValueError      |-> "Exception",
           TimeoutError            |-> "Exception",
           IntegrityError          |-> "Exception",
           DataError               |-> "Exception",
           OperationalError        |-> "Exception"]

Exceptions == DOMAIN Parent

Bases[c \in Exceptions \cup {"Exception"}] ==
    IF c = "Exception" THEN {c} ELSE {c} \cup Bases[Parent[c]]

DomainStatusMap == << <<"NotFoundError", 404>>,
                      <<"InvalidCredentialsError", 401>>,
                      <<"AuthorizationError", 403>>,
                      <<"ConflictError", 409>>,
                      <<"ValidationError", 422>> >>

StatusForExact(e) ==  \* mutant: looked up by the class itself
    LET hits == {i \in DOMAIN DomainStatusMap : DomainStatusMap[i][1] = e}
    IN  IF hits = {} THEN 400
        ELSE DomainStatusMap[CHOOSE i \in hits : \A j \in hits : i <= j][2]

StatusFor(e) ==
    LET hits == {i \in DOMAIN DomainStatusMap : DomainStatusMap[i][1] \in Bases[e]}
    IN  IF hits = {} THEN 400
        ELSE DomainStatusMap[CHOOSE i \in hits : \A j \in hits : i <= j][2]

\* The status of an HTTPException is its own: 400 for a body that cannot be read.
StatusOf(e) == CASE "DomainError" \in Bases[e]            -> StatusFor(e)
                 [] "RequestValidationError" \in Bases[e] -> 422
                 [] "HTTPException" \in Bases[e]          -> 400
                 [] OTHER                                 -> 500
=============================================================================
