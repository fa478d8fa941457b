---------------------------- MODULE MCRequestPool ----------------------------
(***************************************************************************)
(* A small instance of RequestPool: three requests on two connections and  *)
(* one thread.                                                             *)
(***************************************************************************)
EXTENDS RequestPool, TLC

CONSTANTS r1, r2, r3

Asked(route, credential, input) ==
    [route |-> route, credential |-> credential, input |-> input]

Token == Asked("token", "good", "valid")
Report == Asked("report", "good", "valid")
Upload == Asked("upload", "good", "valid")

Together(a, b, c) == (r1 :> a) @@ (r2 :> b) @@ (r3 :> c)

\* What takes threads, connections and locks, with one that is refused with a
\* connection in its hands; then uploads that race for a row, and every other
\* way to fail, beside requests that take resources.
MCScenarios ==
    {Together(Token, Asked("token", "bad", "valid"), Upload),
     Together(Upload, Upload, Asked("report", "missing", "valid")),
     Together(Upload, Asked("upload", "good", "big sum"),
              Asked("upload", "missing", "malformed")),
     Together(Asked("upload", "good", "NaN"), Asked("upload", "good", "bad file"),
              Asked("report", "bad", "unknown user")),
     Together(Report, Asked("report", "good", "unknown user"),
              Asked("upload", "bad", "invalid")),
     Together(Report, Asked("token", "bad", "NUL password"),
              Asked("token", "good", "invalid"))}
=============================================================================
