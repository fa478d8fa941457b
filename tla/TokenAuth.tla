------------------------------ MODULE TokenAuth ------------------------------
(***************************************************************************)
(* Tokens and keys across the replicas of a deployment: each reads the     *)
(* clock of its own host and the settings of its own start, and a token    *)
(* carries its expiry in whole seconds of the issuer's clock.              *)
(*                                                                         *)
(* Nothing of a token is stored.  Whatever a check or a log-in reads but   *)
(* the row of the user, which the program never changes, it reads in one   *)
(* thread, so each is one step; time passes between steps.                 *)
(***************************************************************************)
EXTENDS ErrorMapping, FiniteSets

CONSTANTS Replica, Client,
          Settings,    \* [mode, secret, key, password] an operator deploys
          Password,    \* the password each client types
          Key,         \* the API key it sends, or None
          Second,      \* ticks of the clocks in a second
          Ttl,         \* jwt_access_token_ttl_minutes, in ticks
          Skews,       \* how far the hosts' clocks may be ahead
          MaxTime, MaxDeploys,   \* bounds of one behaviour
          None

VARIABLES now,        \* true time, in ticks
          skew,       \* of each host
          deployed,   \* the settings each replica runs with, or None
          hashed,     \* the password of the bootstrap user, or None
          token,      \* the last token each client was given, or None
          answer,     \* the status each client got last
          deploys     \* deployments so far

vars == <<now, skew, deployed, hashed, token, answer, deploys>>

ASSUME TokenAuthAssumption ==
    /\ Second \in Nat \ {0} /\ Skews \subseteq Nat
    /\ Ttl \in Nat /\ Ttl % Second = 0
    /\ MaxTime \in Nat /\ MaxDeploys \in Nat
    /\ \A s \in Settings : /\ s.mode \in {"jwt", "api_key"}
                           /\ None \notin {s.key, s.password}
    /\ None \notin Settings

Clock(r) == now + skew[r]
Seconds(t) == t \div Second

Init ==
    /\ now = 0
    /\ skew \in [Replica -> Skews]
    /\ deployed = [r \in Replica |-> None]
    /\ hashed = None
    /\ token = [c \in Client |-> None]
    /\ answer = [c \in Client |-> 0]
    /\ deploys = 0

Tick ==
    /\ now < MaxTime
    /\ now' = now + 1
    /\ UNCHANGED <<skew, deployed, hashed, token, answer, deploys>>

DeployUnbooted(r, s) ==  \* mutant: the replica serves before the bootstrap
    /\ deploys < MaxDeploys
    /\ deployed' = [deployed EXCEPT ![r] = s]
    /\ deploys' = deploys + 1
    /\ UNCHANGED <<now, skew, hashed, token, answer>>

\* A process starts with new settings; the first one to start creates the
\* bootstrap user, later ones find it and leave it as it is.
Deploy(r, s) ==
    /\ deploys < MaxDeploys
    /\ deployed' = [deployed EXCEPT ![r] = s]
    /\ hashed' = IF hashed = None THEN s.password ELSE hashed
    /\ deploys' = deploys + 1
    /\ UNCHANGED <<now, skew, token, answer>>

\* The client is told the expiry to the fraction; the claim is cut to seconds.
\* "issued", the true time, and "by" are there for the properties only.
IssueRoundingUp(r) ==  \* mutant: the claim is rounded up
    [exp |-> Seconds(Clock(r) + Ttl + Second - 1), told |-> Clock(r) + Ttl,
     secret |-> deployed[r].secret, issued |-> now, by |-> r]

Issue(r) == [exp |-> Seconds(Clock(r) + Ttl), told |-> Clock(r) + Ttl,
             secret |-> deployed[r].secret, issued |-> now, by |-> r]

Verified(c) == Password[c] = hashed

\* The token endpoint answers in either mode.
LogIn(c, r) ==
    /\ deployed[r] # None
    /\ \/ /\ Verified(c)
          /\ token' = [token EXCEPT ![c] = Issue(r)]
          /\ answer' = [answer EXCEPT ![c] = 200]
       \/ /\ ~Verified(c)
          /\ answer' = [answer EXCEPT ![c] = StatusOf("InvalidCredentialsError")]
          /\ UNCHANGED token
    /\ UNCHANGED <<now, skew, deployed, hashed, deploys>>

ExpiredEarly(t, r) == t.exp <= Seconds(Clock(r))  \* mutant: off by one

\* jose lets a token live through the second of its expiry.
Expired(t, r) == t.exp < Seconds(Clock(r))

Decodes(t, r) == t.secret = deployed[r].secret /\ ~Expired(t, r)

AuthenticatesEither(c, r) ==  \* mutant: either credential in either mode
    \/ token[c] # None /\ Decodes(token[c], r)
    \/ Key[c] = deployed[r].key

Authenticates(c, r) ==
    IF deployed[r].mode = "jwt" THEN token[c] # None /\ Decodes(token[c], r)
    ELSE Key[c] = deployed[r].key

\* A request for a protected route, to its check.
Call(c, r) ==
    /\ deployed[r] # None
    /\ answer' = [answer EXCEPT ![c] = IF Authenticates(c, r) THEN 200
                     ELSE StatusOf("InvalidCredentialsError")]
    /\ UNCHANGED <<now, skew, deployed, hashed, token, deploys>>

Next ==
    \/ Tick
    \/ \E r \in Replica, s \in Settings : Deploy(r, s)
    \/ \E c \in Client, r \in Replica : LogIn(c, r) \/ Call(c, r)

Spec == Init /\ [][Next]_vars
-----------------------------------------------------------------------------
Tokens == [exp : Nat, told : Nat, secret : {s.secret : s \in Settings},
           issued : Nat, by : Replica]

\* Every variable keeps to its range, and a replica runs only on a database
\* that has the bootstrap user.
TypeOK ==
    /\ now \in 0 .. MaxTime /\ deploys \in 0 .. MaxDeploys
    /\ skew \in [Replica -> Skews]
    /\ deployed \in [Replica -> Settings \cup {None}]
    /\ hashed \in {s.password : s \in Settings} \cup {None}
    /\ (\E r \in Replica : deployed[r] # None) => hashed # None
    /\ token \in [Client -> Tokens \cup {None}]
    /\ answer \in [Client -> {0, 200, 401}]

\* A replica is one the client may take its token to.
Takes(r) == deployed[r] # None /\ deployed[r].mode = "jwt"

\* Until the moment it was told, by the clock of whichever replica it asks, a
\* client is not sent away for an expired token: cutting the claim to seconds
\* takes nothing from it.  What does send it away is a deployment that
\* replaced the secret, and a log-in anew at that replica mends it.
HonouredWhileTold ==
    \A c \in Client, r \in Replica :
       Takes(r) /\ token[c] # None /\ Clock(r) <= token[c].told =>
          \/ Authenticates(c, r)
          \/ token[c].secret # deployed[r].secret

Apart(q, r) == IF skew[q] > skew[r] THEN skew[q] - skew[r] ELSE skew[r] - skew[q]

\* In true time: a token is taken for less than its life and a second more,
\* and refused by a replica with its secret only after its life, up to how far
\* the clocks of two hosts are apart.
ExpiryBounded ==
    \A c \in Client, r \in Replica : Takes(r) /\ token[c] # None =>
       LET age == now - token[c].issued
           apart == Apart(token[c].by, r)
       IN  IF Authenticates(c, r) THEN age < Ttl + Second + apart
           ELSE token[c].secret = deployed[r].secret => age + apart > Ttl

\* Whatever mix of modes and secrets a rolling deployment leaves, a client is
\* let in by a replica in mode jwt only if it typed the user's password, and
\* by one in mode api_key only with that replica's key, tokens or not.
ServedIsEntitled ==
    \A c \in Client, r \in Replica :
       deployed[r] # None /\ Authenticates(c, r) =>
          IF deployed[r].mode = "jwt" THEN Password[c] = hashed
          ELSE Key[c] = deployed[r].key
=============================================================================
