--------------------------- MODULE TokenAuthProofs ---------------------------
(***************************************************************************)
(* Proofs about TokenAuth, for any replicas, clocks, settings and bounds.  *)
(*                                                                         *)
(* TokenInv says what a token is: its claim is the expiry its client was   *)
(* told cut to a second, the expiry its issue plus the issuer's skew plus  *)
(* its life, and its client knows the password.  The properties follow     *)
(* from it by what \div does to an order.                                  *)
(***************************************************************************)
EXTENDS TokenAuth, ErrorMappingProofs, TLAPS

Typing ==
    /\ now \in Nat
    /\ skew \in [Replica -> Skews]
    /\ deployed \in [Replica -> Settings \cup {None}]
    /\ token \in [Client -> Tokens \cup {None}]

\* The bootstrap user is there from the first deployment on.
Booted == (\E r \in Replica : deployed[r] # None) => hashed # None

Genuine(c) ==
    /\ token[c].exp = Seconds(token[c].told)
    /\ token[c].told = token[c].issued + skew[token[c].by] + Ttl
    /\ token[c].issued <= now
    /\ hashed # None /\ Verified(c)

TokenInv == /\ Typing
            /\ Booted
            /\ \A c \in Client : token[c] # None => Genuine(c)

-----------------------------------------------------------------------------
\* What cutting to whole seconds does to an order.
LEMMA DivBounds ==
  ASSUME NEW a \in Nat, NEW s \in Nat \ {0}
  PROVE  a \div s \in Nat /\ s * (a \div s) <= a /\ a < s * (a \div s) + s
  BY SMTT(30)

\* A second does not begin before an earlier one.
LEMMA DivMonotone ==
  ASSUME NEW a \in Nat, NEW b \in Nat, NEW s \in Nat \ {0}, a <= b
  PROVE  a \div s <= b \div s
<1>1. SUFFICES ASSUME b \div s < a \div s PROVE FALSE
  BY DivBounds
<1>2. s * (b \div s) + s <= s * (a \div s)
  BY <1>1, DivBounds
<1> QED
  BY <1>2, DivBounds

\* An instant whose second is not later is earlier by less than a second more.
LEMMA SecondsOrder ==
  ASSUME NEW a \in Nat, NEW b \in Nat
  PROVE  /\ Seconds(a) \in Nat
         /\ a <= b => Seconds(a) <= Seconds(b)
         /\ Seconds(a) <= Seconds(b) => a < b + Second
<1>1. Second \in Nat \ {0}
  BY TokenAuthAssumption
<1>2. Seconds(a) \in Nat /\ Seconds(b) \in Nat
  BY <1>1, DivBounds DEF Seconds
<1>3. a <= b => Seconds(a) <= Seconds(b)
  BY <1>1, DivMonotone DEF Seconds
<1>4. ASSUME Seconds(a) <= Seconds(b) PROVE a < b + Second
  <2>1. Second * (a \div Second) <= Second * (b \div Second)
    BY <1>1, <1>2, <1>4 DEF Seconds
  <2>2. Second * (a \div Second) \in Nat /\ Second * (b \div Second) \in Nat
    BY <1>1, <1>2 DEF Seconds
  <2>3. a < Second * (a \div Second) + Second /\ Second * (b \div Second) <= b
    BY <1>1, DivBounds
  <2> QED
    BY <1>1, <2>1, <2>2, <2>3
<1> QED
  BY <1>2, <1>3, <1>4

LEMMA ClockNat ==
  ASSUME Typing, NEW r \in Replica
  PROVE  skew[r] \in Nat /\ Clock(r) \in Nat
<1>1. Skews \subseteq Nat
  BY TokenAuthAssumption
<1>2. skew[r] \in Nat /\ now \in Nat
  BY <1>1 DEF Typing
<1> QED
  BY <1>2 DEF Clock

-----------------------------------------------------------------------------
LEMMA InitToken == Init => TokenInv
  BY TokenAuthAssumption DEF Init, TokenInv, Typing, Booted

\* A step that leaves tokens, clocks' skews and the user alone keeps them
\* genuine: time only passes.
LEMMA QuietStep ==
  ASSUME TokenInv, UNCHANGED <<skew, token>>, Typing', Booted',
         now <= now', hashed = None \/ hashed' = hashed
  PROVE  TokenInv'
<1>1. ASSUME NEW c \in Client, token[c] # None PROVE Genuine(c)'
  <2>1. Genuine(c)
    BY <1>1 DEF TokenInv
  <2>2. token[c].issued \in Nat
    BY <1>1 DEF TokenInv, Typing, Tokens
  <2> QED
    BY <2>1, <2>2 DEF Genuine, Verified, TokenInv, Typing, Seconds
<1> QED
  BY <1>1 DEF TokenInv

\* The first deployment makes the user, and no later one changes it.
LEMMA DeployStep ==
  ASSUME TokenInv, NEW r \in Replica, NEW s \in Settings, Deploy(r, s)
  PROVE  TokenInv'
<1>1. Typing'
  BY DEF TokenInv, Typing, Deploy
<1>2. hashed' # None /\ (hashed = None \/ hashed' = hashed)
  BY TokenAuthAssumption DEF Deploy
<1> QED
  BY <1>1, <1>2, QuietStep DEF Deploy, Booted, TokenInv, Typing

LEMMA IssuedIsGenuine ==
  ASSUME TokenInv, NEW r \in Replica, deployed[r] # None
  PROVE  /\ Issue(r) \in Tokens
         /\ Issue(r).exp = Seconds(Issue(r).told)
         /\ Issue(r).told = Issue(r).issued + skew[Issue(r).by] + Ttl
         /\ Issue(r).issued = now
<1>1. Clock(r) + Ttl \in Nat /\ Clock(r) = now + skew[r] /\ Ttl \in Nat
  BY ClockNat, TokenAuthAssumption DEF TokenInv, Clock
<1>2. Seconds(Clock(r) + Ttl) \in Nat
  BY <1>1, SecondsOrder
<1>3. deployed[r] \in Settings /\ now \in Nat
  BY DEF TokenInv, Typing
<1> QED
  BY <1>1, <1>2, <1>3 DEF Issue, Tokens

\* A log-in makes a genuine token and leaves those of other clients alone.
LEMMA LogInStep ==
  ASSUME TokenInv, NEW c \in Client, NEW r \in Replica, LogIn(c, r)
  PROVE  TokenInv'
<1>1. UNCHANGED <<now, skew, deployed, hashed>> /\ deployed[r] # None
  BY DEF LogIn
<1>2. CASE Verified(c) /\ token' = [token EXCEPT ![c] = Issue(r)]
  <2>1. Typing' /\ Booted'
    BY <1>1, <1>2, IssuedIsGenuine DEF TokenInv, Typing, Booted, Tokens
  <2>2. hashed # None /\ now \in Nat
    BY <1>1 DEF TokenInv, Typing, Booted
  <2>3. ASSUME NEW d \in Client, token'[d] # None PROVE Genuine(d)'
    <3>1. CASE d = c
      <4>1. token'[d] = Issue(r)
        BY <1>2, <3>1 DEF TokenInv, Typing
      <4> QED
        BY <1>1, <1>2, <2>2, <3>1, <4>1, IssuedIsGenuine
        DEF Genuine, Verified, Seconds
    <3>2. CASE d # c
      <4>1. token'[d] = token[d] /\ Genuine(d)
        BY <1>2, <2>3, <3>2 DEF TokenInv, Typing
      <4> QED
        BY <1>1, <4>1 DEF Genuine, Verified, Seconds
    <3> QED
      BY <3>1, <3>2
  <2> QED
    BY <2>1, <2>3 DEF TokenInv
<1>3. CASE UNCHANGED token
  <2>1. Typing' /\ Booted' /\ now <= now'
    BY <1>1, <1>3 DEF TokenInv, Typing, Booted
  <2> QED
    BY <1>1, <1>3, <2>1, QuietStep
<1> QED
  BY <1>2, <1>3 DEF LogIn

\* One step per action.
LEMMA TokenStep == TokenInv /\ [Next]_vars => TokenInv'
<1> SUFFICES ASSUME TokenInv, [Next]_vars PROVE TokenInv'
  OBVIOUS
<1>1. CASE Tick
  BY <1>1, QuietStep DEF Tick, TokenInv, Typing, Booted
<1>2. ASSUME NEW r \in Replica, NEW s \in Settings, Deploy(r, s)
      PROVE  TokenInv'
  BY <1>2, DeployStep
<1>3. ASSUME NEW c \in Client, NEW r \in Replica, LogIn(c, r)
      PROVE  TokenInv'
  BY <1>3, LogInStep
<1>4. ASSUME NEW c \in Client, NEW r \in Replica, Call(c, r)
      PROVE  TokenInv'
  BY <1>4, QuietStep DEF Call, TokenInv, Typing, Booted
<1>5. CASE UNCHANGED vars
  BY <1>5, QuietStep DEF vars, TokenInv, Typing, Booted
<1> QED
  BY <1>1, <1>2, <1>3, <1>4, <1>5 DEF Next

\* Every token a client holds is what a log-in made it.
THEOREM TokensAreGenuine == Spec => []TokenInv
<1> QED
  BY InitToken, TokenStep, PTL DEF Spec

-----------------------------------------------------------------------------
\* No client is sent away for expiry before the moment it was told, whichever
\* replica it asks (TokenIssuer.issue cuts the claim, decode lets the second
\* of the expiry pass).
THEOREM TokensAreHonoured == Spec => []HonouredWhileTold
<1>1. TokenInv => HonouredWhileTold
  <2> SUFFICES ASSUME TokenInv, NEW c \in Client, NEW r \in Replica, Takes(r),
                      token[c] # None, Clock(r) <= token[c].told,
                      token[c].secret = deployed[r].secret
               PROVE  Authenticates(c, r)
    BY DEF HonouredWhileTold
  <2>1. token[c].told \in Nat /\ Clock(r) \in Nat /\ Genuine(c)
    BY ClockNat DEF TokenInv, Typing, Tokens
  <2>2. Seconds(Clock(r)) <= token[c].exp
    BY <2>1, SecondsOrder DEF Genuine
  <2>3. Seconds(Clock(r)) \in Nat /\ token[c].exp \in Nat
    BY <2>1, SecondsOrder DEF TokenInv, Typing, Tokens
  <2> QED
    BY <2>2, <2>3 DEF Authenticates, Decodes, Expired, Takes
<1> QED
  BY <1>1, TokensAreGenuine, PTL

\* In true time a token lives its life, up to a second and what the clocks of
\* two hosts are apart.
THEOREM LivesAreBounded == Spec => []ExpiryBounded
<1>1. TokenInv => ExpiryBounded
  <2> SUFFICES ASSUME TokenInv, NEW c \in Client, NEW r \in Replica, Takes(r),
                      token[c] # None
      PROVE  LET age == now - token[c].issued
                 apart == Apart(token[c].by, r)
             IN  IF Authenticates(c, r) THEN age < Ttl + Second + apart
                 ELSE token[c].secret = deployed[r].secret => age + apart > Ttl
    BY DEF ExpiryBounded
  <2> DEFINE t == token[c]
  <2>1. /\ t.told \in Nat /\ t.exp \in Nat /\ t.issued \in Nat /\ t.by \in Replica
        /\ now \in Nat /\ Genuine(c)
    BY DEF TokenInv, Typing, Tokens
  <2>2. /\ Clock(r) \in Nat /\ Clock(r) = now + skew[r]
        /\ skew[r] \in Nat /\ skew[t.by] \in Nat
        /\ Ttl \in Nat /\ Second \in Nat
    BY <2>1, ClockNat, TokenAuthAssumption DEF TokenInv, Clock
  <2>3. /\ Apart(t.by, r) \in Nat
        /\ skew[t.by] - skew[r] <= Apart(t.by, r)
        /\ skew[r] - skew[t.by] <= Apart(t.by, r)
    BY <2>2 DEF Apart
  <2>4. CASE Authenticates(c, r)
    <3>1. Seconds(Clock(r)) <= t.exp
      <4>1. ~(t.exp < Seconds(Clock(r)))
        BY <2>4 DEF Authenticates, Decodes, Expired, Takes
      <4> QED
        BY <2>1, <2>2, <4>1, SecondsOrder
    <3>2. Clock(r) < t.told + Second
      BY <2>1, <2>2, <3>1, SecondsOrder DEF Genuine
    <3>3. now + skew[r] < t.issued + skew[t.by] + Ttl + Second
      BY <2>1, <2>2, <3>2 DEF Genuine
    <3> QED
      BY <2>1, <2>2, <2>3, <2>4, <3>3
  <2>5. CASE ~Authenticates(c, r) /\ t.secret = deployed[r].secret
    <3>1. t.exp < Seconds(Clock(r))
      BY <2>5 DEF Authenticates, Decodes, Expired, Takes
    <3>2. ~(Clock(r) <= t.told)
      BY <2>1, <2>2, <3>1, SecondsOrder DEF Genuine
    <3>3. t.issued + skew[t.by] + Ttl < now + skew[r]
      BY <2>1, <2>2, <3>2 DEF Genuine
    <3> QED
      BY <2>1, <2>2, <2>3, <2>5, <3>3
  <2> QED
    BY <2>4, <2>5
<1> QED
  BY <1>1, TokensAreGenuine, PTL

\* Whoever a replica in mode jwt lets in typed the user's password once.
THEOREM ServiceIsEarned == Spec => []ServedIsEntitled
<1>1. TokenInv => ServedIsEntitled
  BY DEF TokenInv, Genuine, Verified, ServedIsEntitled, Authenticates
<1> QED
  BY <1>1, TokensAreGenuine, PTL

-----------------------------------------------------------------------------
\* One step per action.
LEMMA TypeStep == TokenInv /\ TypeOK /\ [Next]_vars => TypeOK'
<1> SUFFICES ASSUME TokenInv, TypeOK, [Next]_vars PROVE TypeOK'
  OBVIOUS
<1>1. CASE Tick
  BY <1>1, TokenAuthAssumption DEF Tick, TypeOK
<1>2. ASSUME NEW r \in Replica, NEW s \in Settings, Deploy(r, s)
      PROVE  TypeOK'
  <2>1. deploys' \in 0 .. MaxDeploys /\ s.password # None
    BY <1>2, TokenAuthAssumption DEF Deploy, TypeOK
  <2>2. hashed' \in {x.password : x \in Settings} \cup {None} /\ hashed' # None
    BY <1>2, <2>1 DEF Deploy, TypeOK
  <2>3. deployed' \in [Replica -> Settings \cup {None}]
    BY <1>2 DEF Deploy, TypeOK
  <2> QED
    BY <1>2, <2>1, <2>2, <2>3 DEF Deploy, TypeOK
<1>3. ASSUME NEW c \in Client, NEW r \in Replica, LogIn(c, r)
      PROVE  TypeOK'
  <2>1. token' \in [Client -> Tokens \cup {None}] /\ answer' \in [Client -> {0, 200, 401}]
    BY <1>3, IssuedIsGenuine, StatusTable DEF LogIn, TypeOK
  <2> QED
    BY <1>3, <2>1 DEF LogIn, TypeOK
<1>4. ASSUME NEW c \in Client, NEW r \in Replica, Call(c, r)
      PROVE  TypeOK'
  <2>1. answer' \in [Client -> {0, 200, 401}]
    BY <1>4, StatusTable DEF Call, TypeOK
  <2> QED
    BY <1>4, <2>1 DEF Call, TypeOK
<1>5. CASE UNCHANGED vars
  BY <1>5 DEF vars, TypeOK, Tokens
<1> QED
  BY <1>1, <1>2, <1>3, <1>4, <1>5 DEF Next

\* Every variable keeps to its range, and a replica runs only on a database
\* that has the bootstrap user (ensure_bootstrap_user, awaited before a
\* process serves); a client is told 200 or 401 and nothing else.
THEOREM TypeCorrect == Spec => []TypeOK
<1>1. Init => TypeOK
  BY TokenAuthAssumption DEF Init, TypeOK
<1> QED
  BY <1>1, TypeStep, TokensAreGenuine, PTL DEF Spec
=============================================================================
