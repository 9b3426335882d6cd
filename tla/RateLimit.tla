------------------------------- MODULE RateLimit -------------------------------
(***************************************************************************)
(* The rate-limit policy of gateway-core for one client of one proxy in    *)
(* one environment, as several gateways run it over one Redis.             *)
(*                                                                         *)
(* A gateway computes the bucket from its own clock and sends the script;  *)
(* Redis counts and expires the key by its own.  Between the two a command *)
(* waits: the connection is made on first use, and a command whose reply   *)
(* was lost is sent once more (maxRetriesPerRequest), though it may have   *)
(* been executed.                                                          *)
(***************************************************************************)
EXTENDS Naturals

CONSTANTS
    Limiters,     \* the gateways
    Attempts,     \* the requests that may be in the policy at once
    Limit, Window,
    Ahead,        \* [Limiters -> how far the gateway's clock is ahead of Redis's]
    MaxAhead, MaxDelay,  \* bounds on Ahead and on the time a command takes
    LastTick,            \* bound on the clock
    MaxCount             \* bound on the value of a key

ASSUME RateAssumption ==
    /\ Limit \in Nat \ {0} /\ Window \in Nat \ {0}
    /\ MaxAhead \in Nat /\ MaxDelay \in Nat /\ LastTick \in Nat /\ MaxCount \in Nat
    /\ Ahead \in [Limiters -> 0 .. MaxAhead]

Buckets == 0 .. (LastTick + MaxAhead) \div Window

VARIABLES
    tick,      \* Redis's clock
    counter,     \* [Buckets -> the value of the key, 0 when there is none]
    started,   \* [Buckets -> when the key was last set to expire a window later]
    attempt,   \* [Attempts -> the command under way]
    admitted,  \* history: [Buckets -> how many requests the script let through]
    lives      \* history: [Buckets -> how often the key has been created]

rateVars == <<tick, counter, started, attempt, admitted, lives>>

NoAttempt == [bucket |-> 0, since |-> 0, left |-> 0]

RateTypeOK ==
    /\ tick \in Nat
    /\ counter \in [Buckets -> Nat]
    /\ started \in [Buckets -> Nat]
    /\ attempt \in [Attempts -> [bucket : Buckets, since : Nat, left : 0 .. 2]]
    /\ admitted \in [Buckets -> Nat]
    /\ lives \in [Buckets -> Nat]

RateInit ==
    /\ tick = 0
    /\ counter = [b \in Buckets |-> 0]
    /\ started = [b \in Buckets |-> 0]
    /\ attempt = [a \in Attempts |-> NoAttempt]
    /\ admitted = [b \in Buckets |-> 0]
    /\ lives = [b \in Buckets |-> 0]

-----------------------------------------------------------------------------
Waiting(a) == attempt[a].left > 0

\* floor(Date.now() / 1000 / windowSeconds) on gateway g.
windowBucket(g) == (tick + Ahead[g]) \div Window

\* A request reaches the policy on gateway g, and the script is sent.
Send(a, g) ==
    /\ ~Waiting(a)
    /\ attempt' = [attempt EXCEPT ![a] =
          [bucket |-> windowBucket(g), since |-> tick, left |-> 2]]
    /\ UNCHANGED <<tick, counter, started, admitted, lives>>

\* What the script leaves in Redis for bucket b: INCR, and EXPIRE when the key
\* is new.
Counts(b) ==
    /\ counter[b] < MaxCount
    /\ counter' = [counter EXCEPT ![b] = @ + 1]
    /\ started' = IF counter[b] = 0 THEN [started EXCEPT ![b] = tick] ELSE started
    /\ lives' = IF counter[b] = 0 THEN [lives EXCEPT ![b] = @ + 1] ELSE lives

\* Mutant: the counter before the increment is compared.
isLimitedLate(b) == counter[b] > Limit

\* The counter after the increment is beyond the limit.
isLimited(b) == counter[b] + 1 > Limit

\* The script runs; the reply lets the request through or halts it with 429.
Eval(a) ==
    /\ Waiting(a)
    /\ Counts(attempt[a].bucket)
    /\ admitted' = IF isLimited(attempt[a].bucket) THEN admitted
                   ELSE [admitted EXCEPT ![attempt[a].bucket] = @ + 1]
    /\ attempt' = [attempt EXCEPT ![a] = NoAttempt]
    /\ UNCHANGED tick

\* The connection is lost after the script ran, its reply with it: the client
\* sends the command once more, and then gives up.
LoseEvalReply(a) ==
    /\ Waiting(a)
    /\ Counts(attempt[a].bucket)
    /\ attempt' = [attempt EXCEPT ![a] =
                      IF attempt[a].left = 2 THEN [@ EXCEPT !.left = 1] ELSE NoAttempt]
    /\ UNCHANGED <<tick, admitted>>

\* Redis cannot be reached: 503 with failure mode "closed"; with "open" the
\* request goes on, degraded and not counted.
Unavailable(a) ==
    /\ Waiting(a)
    /\ attempt' = [attempt EXCEPT ![a] = NoAttempt]
    /\ UNCHANGED <<tick, counter, started, admitted, lives>>

\* Time passes: Redis drops the key a window after its creation.  A command
\* that takes longer than MaxDelay has failed.
RateTick ==
    /\ tick < LastTick
    /\ \A a \in Attempts : Waiting(a) => tick + 1 <= attempt[a].since + MaxDelay
    /\ tick' = tick + 1
    /\ counter' = [b \in Buckets |-> IF tick + 1 >= started[b] + Window THEN 0 ELSE counter[b]]
    /\ UNCHANGED <<started, attempt, admitted, lives>>

RateNext ==
    \/ \E a \in Attempts :
          \/ \E g \in Limiters : Send(a, g)
          \/ Eval(a) \/ LoseEvalReply(a) \/ Unavailable(a)
    \/ RateTick

RateSpec == RateInit /\ [][RateNext]_rateVars

-----------------------------------------------------------------------------
\* How often a key can be created while commands for its bucket arrive.
LivesOfAKey == IF MaxAhead + MaxDelay = 0 THEN 1 ELSE 2

\* Every gateway counts one client together: a window admits at most Limit
\* requests when clocks agree and Redis answers at once, and at most twice as
\* many when skew and delay together are within a window, however the gateways'
\* commands interleave and are repeated.  Requests admitted degraded are not
\* counted.
AdmittedWithinLimit ==
    MaxAhead + MaxDelay <= Window =>
        \A b \in Buckets : admitted[b] <= LivesOfAKey * Limit
=============================================================================
