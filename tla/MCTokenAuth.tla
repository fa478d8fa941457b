----------------------------- MODULE MCTokenAuth -----------------------------
(***************************************************************************)
(* A small instance of TokenAuth: two hosts up to a second and a half      *)
(* apart, tokens of two seconds, and deployments that change everything.   *)
(***************************************************************************)
EXTENDS TokenAuth, TLC

CONSTANTS c1, c2

Deployment(mode, secret, key, password) ==
    [mode |-> mode, secret |-> secret, key |-> key, password |-> password]

MCSettings == {Deployment("jwt", "s1", "k1", "p1"),
               Deployment("jwt", "s2", "k1", "p2"),
               Deployment("api_key", "s1", "k2", "p1")}

MCPassword == (c1 :> "p1") @@ (c2 :> "p2")
MCKey == (c1 :> None) @@ (c2 :> "k2")
MCSkews == {0, 1, 3}
=============================================================================
