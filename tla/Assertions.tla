----------------------------- MODULE Assertions -----------------------------
(***************************************************************************)
(* The single use of signed assertions: authenticateJwtAssertion and       *)
(* authenticateDeveloperGrant of the oauth-token policy, on every gateway, *)
(* with the replay markers they share in Redis (SET NX EX).                *)
(*                                                                         *)
(* A gateway verifies an assertion by its own clock, which may be ahead of *)
(* Redis's, works out how long to remember it, and later asks Redis to     *)
(* remember it.  Clients may deliver an assertion any number of times, to  *)
(* any gateway, as after a timeout.  Times are in seconds.                 *)
(***************************************************************************)
EXTENDS Integers

CONSTANTS
    JTIs,        \* the assertions, by jti
    Gateways,
    MaxSpan,     \* longest exp - iat: 120 s for a client's, 30 s for a developer's
    Tolerance,   \* clockTolerance: 5 s and 3 s
    MaxSkew,     \* bound on how much a gateway's clock is ahead
    MaxClock,     \* bound on the clock
    MaxTokens    \* bound on the tokens counted for an assertion

ASSUME AssertionAssumption ==
    /\ MaxSpan \in Nat \ {0} /\ Tolerance \in Nat /\ MaxSkew \in Nat
    /\ MaxClock \in Nat /\ MaxTokens \in Nat

VARIABLES
    signed,   \* [JTIs -> the iat and exp it was signed with]
    marker,   \* [JTIs -> when its key in Redis expires, 0 for no key]
    check,    \* [Gateways -> the verified assertion and its ttl, or none]
    exchanged,    \* [JTIs -> the tokens issued for it]
    clock

assertionVars == <<signed, marker, check, exchanged, clock>>

NoCheck == [jti |-> "none", ttl |-> 1]

AssertionTypeOK ==
    /\ signed \in [JTIs -> [iat : Int, exp : Int]]
    /\ marker \in [JTIs -> Int]
    /\ \A g \in Gateways : check[g] = NoCheck \/ check[g] \in [jti : JTIs, ttl : Nat \ {0}]
    /\ exchanged \in [JTIs -> 0 .. MaxTokens]
    /\ clock \in 0 .. MaxClock

\* Whatever the client signed.
AssertionInit ==
    /\ signed \in [JTIs -> [iat : 0 .. MaxSpan + 1, exp : 0 .. MaxSpan + 1]]
    /\ marker = [j \in JTIs |-> 0]
    /\ check = [g \in Gateways |-> NoCheck]
    /\ exchanged = [j \in JTIs |-> 0]
    /\ clock = 0

\* jwtVerify and the checks after it, at the gateway's time t.
Verifies(j, t) ==
    /\ t < signed[j].exp + Tolerance
    /\ signed[j].iat <= t + Tolerance
    /\ signed[j].exp > signed[j].iat
    /\ signed[j].exp - signed[j].iat <= MaxSpan

\* Until it expires, and a second at least.
replayTtl(j, t) == IF signed[j].exp - t > 1 THEN signed[j].exp - t ELSE 1

\* A gateway whose clock reads t verifies an assertion a client delivers.
authenticateJwtAssertion(g, j, t) ==
    /\ check[g] = NoCheck
    /\ Verifies(j, t)
    /\ check' = [check EXCEPT ![g] = [jti |-> j, ttl |-> replayTtl(j, t)]]
    /\ UNCHANGED <<signed, marker, exchanged, clock>>

\* Redis holds the key.
Remembered(j) == marker[j] > clock

\* Mutant: the key is read before, and set by another command.
consumeUnconditionally(g) ==
    /\ check[g] # NoCheck
    /\ exchanged[check[g].jti] < MaxTokens
    /\ marker' = [marker EXCEPT ![check[g].jti] = clock + check[g].ttl]
    /\ exchanged' = [exchanged EXCEPT ![check[g].jti] = @ + 1]
    /\ check' = [check EXCEPT ![g] = NoCheck]
    /\ UNCHANGED <<signed, clock>>

\* SET NX EX answers OK: a token is issued.
consumeAssertion(g) ==
    /\ check[g] # NoCheck
    /\ ~Remembered(check[g].jti)
    /\ exchanged[check[g].jti] < MaxTokens
    /\ marker' = [marker EXCEPT ![check[g].jti] = clock + check[g].ttl]
    /\ exchanged' = [exchanged EXCEPT ![check[g].jti] = @ + 1]
    /\ check' = [check EXCEPT ![g] = NoCheck]
    /\ UNCHANGED <<signed, clock>>

\* SET NX EX answers nil: AssertionReplayError.
RefuseReplay(g) ==
    /\ check[g] # NoCheck
    /\ Remembered(check[g].jti)
    /\ check' = [check EXCEPT ![g] = NoCheck]
    /\ UNCHANGED <<signed, marker, exchanged, clock>>

\* The reply is lost after the key was set: the client of Redis repeats the
\* command, or fails; the call is refused either way.
LoseReply(g) ==
    /\ check[g] # NoCheck
    /\ marker' = [marker EXCEPT ![check[g].jti] =
                     IF Remembered(check[g].jti) THEN @ ELSE clock + check[g].ttl]
    /\ check' = [check EXCEPT ![g] = NoCheck]
    /\ UNCHANGED <<signed, exchanged, clock>>

AssertionTick ==
    /\ clock < MaxClock
    /\ clock' = clock + 1
    /\ UNCHANGED <<signed, marker, check, exchanged>>

AssertionNext ==
    \/ \E g \in Gateways :
          \/ \E j \in JTIs, ahead \in 0 .. MaxSkew :
                authenticateJwtAssertion(g, j, clock + ahead)
          \/ consumeAssertion(g) \/ RefuseReplay(g) \/ LoseReply(g)
    \/ AssertionTick

AssertionSpec == AssertionInit /\ [][AssertionNext]_assertionVars

-----------------------------------------------------------------------------
\* While an assertion has not expired, for any gateway's clock, it is never
\* exchanged a second time: not by two gateways at once, not after a slow
\* call, not after a lost reply.  (In the seconds of tolerance after it
\* expires it may be: its marker is gone.)
SingleUseUntilExpiry ==
    [][\A j \in JTIs : exchanged[j] >= 1 /\ clock + MaxSkew < signed[j].exp => exchanged'[j] = exchanged[j]]_assertionVars
=============================================================================
