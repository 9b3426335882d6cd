------------------------ MODULE GatewayPolicyProofs -------------------------
(***************************************************************************)
(* Proofs about what a gateway does to a request, for every value of the   *)
(* constants: the policies and the forwarding (RequestHandling), the rate  *)
(* limit (RateLimit) and the assertions exchanged for tokens (Assertions). *)
(* Each has an inductive invariant of its own.                             *)
(***************************************************************************)
EXTENDS Assertions, RateLimit, RequestHandling, FiniteSetTheorems, TLAPS

-----------------------------------------------------------------------------
(***************************************************************************)
(* Assertions: Redis remembers one as long as any clock takes it for valid.*)
(***************************************************************************)

\* A gateway that has verified an assertion will have it remembered until it
\* expires by the fastest clock, however late Redis hears of it.
ChecksOutlast ==
    \A g \in Gateways :
        check[g] # NoCheck =>
            /\ check[g].jti \in JTIs /\ check[g].ttl \in Nat
            /\ clock + check[g].ttl + MaxSkew >= signed[check[g].jti].exp

\* What was exchanged is remembered that long.
MarkersOutlast ==
    \A j \in JTIs : exchanged[j] >= 1 => marker[j] + MaxSkew >= signed[j].exp

AssertionInv == AssertionTypeOK /\ ChecksOutlast /\ MarkersOutlast

-----------------------------------------------------------------------------
LEMMA AssertionInitially == AssertionInit => AssertionInv
<1> SUFFICES ASSUME AssertionInit PROVE AssertionInv
  OBVIOUS
<1> USE AssertionAssumption DEF AssertionInit
<1>1. AssertionTypeOK
  BY DEF AssertionTypeOK
<1>2. ChecksOutlast /\ MarkersOutlast
  BY DEF ChecksOutlast, MarkersOutlast
<1> QED
  BY <1>1, <1>2 DEF AssertionInv

\* The time to live counts from the verifying gateway's clock, which is not
\* further ahead than MaxSkew.
LEMMA TtlReachesExpiry ==
  ASSUME AssertionTypeOK, NEW j \in JTIs, NEW ahead \in 0 .. MaxSkew
  PROVE  /\ replayTtl(j, clock + ahead) \in Nat \ {0}
         /\ clock + replayTtl(j, clock + ahead) + MaxSkew >= signed[j].exp
<1>1. signed[j].exp \in Int /\ clock \in Int /\ ahead \in Int /\ MaxSkew \in Int /\ ahead <= MaxSkew
  BY AssertionAssumption DEF AssertionTypeOK
<1> QED
  BY <1>1 DEF replayTtl

LEMMA VerificationKeeps ==
  ASSUME AssertionInv, NEW g \in Gateways, NEW j \in JTIs, NEW ahead \in 0 .. MaxSkew,
         authenticateJwtAssertion(g, j, clock + ahead)
  PROVE  AssertionInv'
<1> DEFINE ttl == replayTtl(j, clock + ahead)
<1>1. ttl \in Nat \ {0} /\ clock + ttl + MaxSkew >= signed[j].exp
  BY TtlReachesExpiry DEF AssertionInv
<1>2. /\ check' = [check EXCEPT ![g] = [jti |-> j, ttl |-> ttl]]
      /\ UNCHANGED <<signed, marker, exchanged, clock>>
  BY DEF authenticateJwtAssertion
<1> HIDE DEF ttl
<1>3. \A h \in Gateways : check'[h] = check[h] \/ check'[h] = [jti |-> j, ttl |-> ttl]
  BY <1>2
<1>4. AssertionTypeOK'
  BY <1>1, <1>2, <1>3 DEF AssertionInv, AssertionTypeOK
<1>5. ChecksOutlast'
  BY <1>1, <1>2, <1>3 DEF AssertionInv, ChecksOutlast
<1>6. MarkersOutlast'
  BY <1>2 DEF AssertionInv, MarkersOutlast
<1> QED
  BY <1>4, <1>5, <1>6 DEF AssertionInv

\* The answer of Redis ends a check; the marker, if it changes, is set anew
\* for as long as the check asked.
LEMMA AnswerKeeps ==
  ASSUME AssertionInv, NEW g \in Gateways,
         consumeAssertion(g) \/ RefuseReplay(g) \/ LoseReply(g)
  PROVE  AssertionInv'
<1> DEFINE j == check[g].jti
<1>1. /\ check[g] # NoCheck /\ j \in JTIs /\ check[g].ttl \in Nat
      /\ clock + check[g].ttl + MaxSkew >= signed[j].exp
  BY DEF AssertionInv, ChecksOutlast, consumeAssertion, RefuseReplay, LoseReply
<1>2. /\ check' = [check EXCEPT ![g] = NoCheck]
      /\ UNCHANGED <<signed, clock>>
  BY DEF consumeAssertion, RefuseReplay, LoseReply
<1>3. \/ UNCHANGED marker /\ UNCHANGED exchanged
      \/ /\ marker' = [marker EXCEPT ![j] = clock + check[g].ttl]
         /\ exchanged' = exchanged \/ exchanged' = [exchanged EXCEPT ![j] = @ + 1]
         /\ exchanged[j] < MaxTokens \/ exchanged' = exchanged
  <2>1. CASE consumeAssertion(g)
    BY <2>1 DEF consumeAssertion
  <2>2. CASE RefuseReplay(g)
    BY <2>2 DEF RefuseReplay
  <2>3. CASE LoseReply(g)
    <3>1. CASE Remembered(j)
      BY <2>3, <3>1 DEF LoseReply, AssertionInv, AssertionTypeOK
    <3>2. CASE ~Remembered(j)
      BY <2>3, <3>2 DEF LoseReply
    <3> QED
      BY <3>1, <3>2
  <2> QED
    BY <2>1, <2>2, <2>3
<1>4. clock + check[g].ttl \in Int
  BY <1>1 DEF AssertionInv, AssertionTypeOK
<1> HIDE DEF j
<1>5. marker' \in [JTIs -> Int] /\ exchanged' \in [JTIs -> 0 .. MaxTokens]
  BY <1>1, <1>3, <1>4, AssertionAssumption DEF AssertionInv, AssertionTypeOK
<1>6. \A h \in Gateways : check'[h] = check[h] \/ check'[h] = NoCheck
  BY <1>2
<1>7. AssertionTypeOK'
  BY <1>2, <1>5, <1>6 DEF AssertionInv, AssertionTypeOK
<1>8. ChecksOutlast'
  BY <1>2, <1>6 DEF AssertionInv, ChecksOutlast
<1>9. MarkersOutlast'
  <2> SUFFICES ASSUME NEW k \in JTIs, exchanged'[k] >= 1
               PROVE  marker'[k] + MaxSkew >= signed'[k].exp
    BY DEF MarkersOutlast
  <2>1. CASE k = j /\ marker'[j] = clock + check[g].ttl
    BY <1>1, <1>2, <2>1
  <2>2. CASE marker'[k] = marker[k] /\ exchanged'[k] = exchanged[k]
    BY <1>2, <2>2 DEF AssertionInv, MarkersOutlast
  <2>3. \/ k = j /\ marker'[j] = clock + check[g].ttl
        \/ marker'[k] = marker[k] /\ exchanged'[k] = exchanged[k]
    BY <1>1, <1>3 DEF AssertionInv, AssertionTypeOK
  <2> QED
    BY <2>1, <2>2, <2>3
<1> QED
  BY <1>7, <1>8, <1>9 DEF AssertionInv

LEMMA ClockKeeps == ASSUME AssertionInv, AssertionTick PROVE AssertionInv'
<1>1. clock' = clock + 1 /\ UNCHANGED <<signed, marker, check, exchanged>>
  BY DEF AssertionTick
<1>2. AssertionTypeOK'
  BY <1>1, AssertionAssumption DEF AssertionTick, AssertionInv, AssertionTypeOK
<1>3. ChecksOutlast'
  <2> SUFFICES ASSUME NEW g \in Gateways, check[g] # NoCheck
               PROVE  /\ check[g].jti \in JTIs /\ check[g].ttl \in Nat
                      /\ clock + 1 + check[g].ttl + MaxSkew >= signed[check[g].jti].exp
    BY <1>1 DEF ChecksOutlast
  <2>1. /\ check[g].jti \in JTIs /\ check[g].ttl \in Nat
        /\ clock + check[g].ttl + MaxSkew >= signed[check[g].jti].exp
    BY DEF AssertionInv, ChecksOutlast
  <2>2. signed[check[g].jti].exp \in Int /\ clock \in Int /\ MaxSkew \in Int
    BY <2>1, AssertionAssumption DEF AssertionInv, AssertionTypeOK
  <2> QED
    BY <2>1, <2>2
<1>4. MarkersOutlast'
  BY <1>1 DEF AssertionInv, MarkersOutlast
<1> QED
  BY <1>2, <1>3, <1>4 DEF AssertionInv

LEMMA AssertionStep == ASSUME AssertionInv, [AssertionNext]_assertionVars PROVE AssertionInv'
<1>1. CASE AssertionNext
  BY <1>1, VerificationKeeps, AnswerKeeps, ClockKeeps DEF AssertionNext
<1>2. CASE UNCHANGED assertionVars
  BY <1>2 DEF assertionVars, AssertionInv, AssertionTypeOK, ChecksOutlast, MarkersOutlast
<1> QED
  BY <1>1, <1>2

-----------------------------------------------------------------------------
(* An assertion that has not expired by any gateway's clock is exchanged   *)
(* once: the only step that exchanges it needs its marker gone, and the    *)
(* marker outlasts it.  oauth-token.policy.ts.                             *)
THEOREM AssertionsSingleUse == AssertionSpec => SingleUseUntilExpiry
<1> DEFINE Once == \A j \in JTIs : exchanged[j] >= 1 /\ clock + MaxSkew < signed[j].exp
                                       => exchanged'[j] = exchanged[j]
<1>1. ASSUME AssertionInv, [AssertionNext]_assertionVars PROVE [Once]_assertionVars
  <2> SUFFICES ASSUME AssertionNext,
                      NEW j \in JTIs, exchanged[j] >= 1, clock + MaxSkew < signed[j].exp
               PROVE  exchanged'[j] = exchanged[j]
    BY <1>1
  <2>1. marker[j] > clock
    <3>1. marker[j] + MaxSkew >= signed[j].exp
      BY <1>1 DEF AssertionInv, MarkersOutlast
    <3>2. marker[j] \in Int /\ clock \in Int /\ MaxSkew \in Int /\ signed[j].exp \in Int
      BY <1>1, AssertionAssumption DEF AssertionInv, AssertionTypeOK
    <3> QED
      BY <3>1, <3>2
  <2>2. ASSUME NEW g \in Gateways, consumeAssertion(g) PROVE exchanged'[j] = exchanged[j]
    <3>1. check[g].jti # j
      BY <2>1, <2>2 DEF consumeAssertion, Remembered
    <3> QED
      BY <2>2, <3>1, <1>1 DEF consumeAssertion, AssertionInv, AssertionTypeOK
  <2>3. CASE UNCHANGED exchanged
    BY <2>3
  <2>4. UNCHANGED exchanged \/ \E g \in Gateways : consumeAssertion(g)
    BY DEF AssertionNext, authenticateJwtAssertion, RefuseReplay, LoseReply, AssertionTick
  <2> QED
    BY <2>2, <2>3, <2>4
<1> QED
  BY AssertionInitially, AssertionStep, <1>1, PTL DEF AssertionSpec, SingleUseUntilExpiry

-----------------------------------------------------------------------------
(***************************************************************************)
(* The rate limit.  A key lives for a window.  The commands of a bucket    *)
(* reach Redis within a window, MaxAhead before and MaxDelay after it, so  *)
(* when skew and delay together are within a window there is room for two  *)
(* lives, and each admits at most Limit requests.                          *)
(***************************************************************************)

\* A command in the air was sent at a time at which a clock showed its bucket.
AttemptOK(a) ==
    Waiting(a) =>
        /\ attempt[a].since <= tick /\ tick <= attempt[a].since + MaxDelay
        /\ attempt[a].bucket * Window <= attempt[a].since + MaxAhead
        /\ attempt[a].since < (attempt[a].bucket + 1) * Window

\* The key of b exists for a window, and without it that window is over.
KeyLives(b) ==
    /\ counter[b] > 0 => lives[b] > 0 /\ tick < started[b] + Window
    /\ counter[b] = 0 /\ lives[b] > 0 => started[b] + Window <= tick

\* Each life begins a window after the one before, and while commands arrive.
LivesSpread(b) ==
    lives[b] > 0 =>
        /\ (b + lives[b]) * Window <= started[b] + MaxAhead + Window
        /\ started[b] < (b + 1) * Window + MaxDelay

\* Each life admits Limit requests, the present one at most what it counted.
LivesAdmit(b) ==
    /\ admitted[b] <= lives[b] * Limit
    /\ counter[b] > 0 => admitted[b] + Limit <= lives[b] * Limit + counter[b]

BucketOK(b) == KeyLives(b) /\ LivesSpread(b) /\ LivesAdmit(b)

RateInv ==
    /\ RateTypeOK
    /\ \A a \in Attempts : AttemptOK(a)
    /\ \A b \in Buckets : BucketOK(b)

-----------------------------------------------------------------------------
(* Division by Window *)

LEMMA Division ==
    ASSUME NEW n \in Nat, NEW w \in Nat \ {0}
    PROVE  /\ n \div w \in Nat
           /\ (n \div w) * w <= n
           /\ n < ((n \div w) + 1) * w
BY Z3

LEMMA DivisionMonotone ==
    ASSUME NEW m \in Nat, NEW n \in Nat, NEW w \in Nat \ {0}, m <= n
    PROVE  m \div w <= n \div w
<1> DEFINE i == m \div w
           j == n \div w
<1>1. /\ i \in Nat /\ j \in Nat /\ i * w <= m /\ n < (j + 1) * w
  BY Division
<1> HIDE DEF i, j
<1>2. i * w < (j + 1) * w
  BY <1>1
<1>3. ~(j + 1 <= i)
  BY <1>1, <1>2, SMT
<1> QED
  BY <1>1, <1>3 DEF i, j

LEMMA BucketsNat == Buckets \subseteq Nat
BY DEF Buckets

\* The bucket of a request sent now, by the clock of its gateway.
LEMMA BucketNow ==
    ASSUME NEW g \in Limiters, tick \in Nat, tick <= LastTick
    PROVE  /\ windowBucket(g) \in Buckets
           /\ windowBucket(g) * Window <= tick + MaxAhead
           /\ tick < (windowBucket(g) + 1) * Window
<1> USE RateAssumption
<1>1. Ahead[g] \in Nat /\ Ahead[g] <= MaxAhead
  OBVIOUS
<1>2. tick + Ahead[g] \in Nat /\ LastTick + MaxAhead \in Nat /\ tick + Ahead[g] <= LastTick + MaxAhead
  BY <1>1
<1>3. /\ windowBucket(g) \in Nat
      /\ windowBucket(g) <= (LastTick + MaxAhead) \div Window
      /\ (LastTick + MaxAhead) \div Window \in Nat
  BY <1>2, Division, DivisionMonotone DEF windowBucket
<1>4. /\ windowBucket(g) * Window <= tick + Ahead[g]
      /\ tick + Ahead[g] < (windowBucket(g) + 1) * Window
  BY <1>2, Division DEF windowBucket
<1>5. windowBucket(g) * Window \in Nat /\ (windowBucket(g) + 1) * Window \in Nat
  BY <1>3
<1> QED
  BY <1>1, <1>3, <1>4, <1>5 DEF Buckets

-----------------------------------------------------------------------------
LEMMA RateInitially == RateInit => RateInv
<1> SUFFICES ASSUME RateInit PROVE RateInv
  OBVIOUS
<1>1. 0 \in Buckets
  BY RateAssumption, Division DEF Buckets
<1>2. RateTypeOK
  BY <1>1 DEF RateInit, RateTypeOK, NoAttempt
<1>3. \A a \in Attempts : AttemptOK(a)
  BY DEF RateInit, AttemptOK, Waiting, NoAttempt
<1>4. \A b \in Buckets : BucketOK(b)
  BY RateAssumption DEF RateInit, BucketOK, KeyLives, LivesSpread, LivesAdmit
<1> QED
  BY <1>2, <1>3, <1>4 DEF RateInv

LEMMA SendKeeps ==
    ASSUME RateInv, tick <= LastTick, NEW a \in Attempts, NEW g \in Limiters, Send(a, g)
    PROVE  RateInv'
<1> DEFINE sent == [bucket |-> windowBucket(g), since |-> tick, left |-> 2]
<1>1. /\ attempt' = [attempt EXCEPT ![a] = sent]
      /\ UNCHANGED <<tick, counter, started, admitted, lives>>
  BY DEF Send
<1>2. tick \in Nat
  BY DEF RateInv, RateTypeOK
<1>3. /\ windowBucket(g) \in Buckets
      /\ windowBucket(g) * Window <= tick + MaxAhead
      /\ tick < (windowBucket(g) + 1) * Window
  BY <1>2, BucketNow
<1>4. sent \in [bucket : Buckets, since : Nat, left : 0 .. 2]
  BY <1>2, <1>3
<1>5. RateTypeOK'
  BY <1>1, <1>4 DEF RateInv, RateTypeOK
<1>6. attempt'[a] = sent /\ \A o \in Attempts \ {a} : attempt'[o] = attempt[o]
  BY <1>1 DEF RateInv, RateTypeOK
<1>7. AttemptOK(a)'
  BY <1>1, <1>2, <1>3, <1>6, RateAssumption DEF AttemptOK
<1>8. \A o \in Attempts \ {a} : AttemptOK(o)'
  BY <1>1, <1>6 DEF RateInv, AttemptOK, Waiting
<1>9. \A b \in Buckets : BucketOK(b)'
  BY <1>1 DEF RateInv, BucketOK, KeyLives, LivesSpread, LivesAdmit
<1> QED
  BY <1>5, <1>7, <1>8, <1>9 DEF RateInv

\* A command that is over, or goes once more, leaves the others as they are.
LEMMA AttemptsKeep ==
    ASSUME RateInv, NEW a \in Attempts, UNCHANGED tick,
           \/ attempt' = [attempt EXCEPT ![a] = NoAttempt]
           \/ Waiting(a) /\ attempt' = [attempt EXCEPT ![a] = [@ EXCEPT !.left = 1]]
    PROVE  /\ attempt' \in [Attempts -> [bucket : Buckets, since : Nat, left : 0 .. 2]]
           /\ \A o \in Attempts : AttemptOK(o)'
<1> DEFINE Shape == [bucket : Buckets, since : Nat, left : 0 .. 2]
<1>1. attempt \in [Attempts -> Shape] /\ \A o \in Attempts : AttemptOK(o)
  BY DEF RateInv, RateTypeOK
<1>2. 0 \in Buckets
  BY RateAssumption, Division DEF Buckets
<1>3. CASE attempt' = [attempt EXCEPT ![a] = NoAttempt]
  BY <1>1, <1>2, <1>3 DEF NoAttempt, AttemptOK, Waiting
<1>4. CASE Waiting(a) /\ attempt' = [attempt EXCEPT ![a] = [@ EXCEPT !.left = 1]]
  <2>1. attempt' \in [Attempts -> Shape]
    BY <1>1, <1>4
  <2>2. /\ attempt'[a].bucket = attempt[a].bucket /\ attempt'[a].since = attempt[a].since
        /\ \A o \in Attempts \ {a} : attempt'[o] = attempt[o]
    BY <1>1, <1>4
  <2>3. AttemptOK(a)'
    BY <1>1, <1>4, <2>2 DEF AttemptOK
  <2>4. \A o \in Attempts \ {a} : AttemptOK(o)'
    BY <1>1, <2>2 DEF AttemptOK, Waiting
  <2> QED
    BY <2>1, <2>3, <2>4
<1> QED
  BY <1>3, <1>4

\* A new life of the key of b: the one before began a window ago.
LEMMA CountKeepsSpread ==
    ASSUME RateInv, NEW a \in Attempts, Waiting(a), NEW b \in Buckets, b = attempt[a].bucket,
           Counts(b), UNCHANGED tick
    PROVE  KeyLives(b)' /\ LivesSpread(b)'
<1> USE RateAssumption
<1>1. /\ b \in Nat /\ tick \in Nat /\ counter[b] \in Nat /\ started[b] \in Nat /\ lives[b] \in Nat
  BY BucketsNat DEF RateInv, RateTypeOK
<1>2. /\ tick <= attempt[a].since + MaxDelay /\ attempt[a].since <= tick
      /\ b * Window <= attempt[a].since + MaxAhead /\ attempt[a].since < (b + 1) * Window
      /\ attempt[a].since \in Nat
  BY DEF RateInv, AttemptOK, RateTypeOK
<1>3. KeyLives(b) /\ LivesSpread(b)
  BY DEF RateInv, BucketOK
<1>4. counter'[b] = counter[b] + 1
  BY DEF Counts, RateInv, RateTypeOK
<1>5. CASE counter[b] > 0
  <2>1. started'[b] = started[b] /\ lives'[b] = lives[b]
    BY <1>1, <1>5 DEF Counts
  <2> QED
    BY <1>1, <1>3, <1>4, <1>5, <2>1 DEF KeyLives, LivesSpread
<1>6. CASE counter[b] = 0
  <2>1. started'[b] = tick /\ lives'[b] = lives[b] + 1
    BY <1>6 DEF Counts, RateInv, RateTypeOK
  <2>2. KeyLives(b)'
    BY <1>1, <1>4, <2>1 DEF KeyLives
  <2>3. b * Window \in Nat /\ (b + 1) * Window \in Nat /\ (b + lives[b]) * Window \in Nat
    BY <1>1
  <2>4. (b + lives[b]) * Window <= tick + MaxAhead
    <3>1. CASE lives[b] = 0
      <4>1. b + lives[b] = b
        BY <1>1, <3>1
      <4> QED
        BY <1>1, <1>2, <2>3, <4>1
    <3>2. CASE lives[b] > 0
      <4>1. /\ started[b] + Window <= tick
            /\ (b + lives[b]) * Window <= started[b] + MaxAhead + Window
        BY <1>3, <1>6, <3>2 DEF KeyLives, LivesSpread
      <4> QED
        BY <1>1, <2>3, <4>1
    <3> QED
      BY <1>1, <3>1, <3>2
  <2>5. (b + (lives[b] + 1)) * Window = (b + lives[b]) * Window + Window
    BY <1>1
  <2>6. tick < (b + 1) * Window + MaxDelay
    BY <1>1, <1>2, <2>3
  <2> QED
    BY <1>1, <2>1, <2>2, <2>3, <2>4, <2>5, <2>6 DEF LivesSpread
<1> QED
  BY <1>1, <1>5, <1>6

\* Counting admits no more than what is counted, up to the limit.
LEMMA CountKeepsAdmitted ==
    ASSUME RateInv, NEW b \in Buckets, Counts(b),
           admitted' \in [Buckets -> Nat],
           \/ admitted'[b] = admitted[b]
           \/ ~isLimited(b) /\ admitted'[b] = admitted[b] + 1
    PROVE  LivesAdmit(b)'
<1> USE RateAssumption
<1>1. /\ counter[b] \in Nat /\ lives[b] \in Nat /\ admitted[b] \in Nat
      /\ counter'[b] = counter[b] + 1
  BY DEF RateInv, RateTypeOK, Counts
<1>2. lives[b] * Limit \in Nat /\ (lives[b] + 1) * Limit = lives[b] * Limit + Limit
  BY <1>1
<1>3. LivesAdmit(b) /\ KeyLives(b)
  BY DEF RateInv, BucketOK
<1>4. CASE counter[b] > 0
  <2>1. lives'[b] = lives[b]
    BY <1>1, <1>4 DEF Counts
  <2> QED
    BY <1>1, <1>2, <1>3, <1>4, <2>1 DEF LivesAdmit, isLimited
<1>5. CASE counter[b] = 0
  <2>1. lives'[b] = lives[b] + 1
    BY <1>5 DEF Counts, RateInv, RateTypeOK
  <2>2. admitted[b] <= lives[b] * Limit
    BY <1>3 DEF LivesAdmit
  <2>3. admitted'[b] <= lives[b] * Limit + 1
    BY <1>1, <1>2, <2>2
  <2> QED
    BY <1>1, <1>2, <1>5, <2>1, <2>3 DEF LivesAdmit
<1> QED
  BY <1>1, <1>4, <1>5

\* The script ran for a command: its reply counted, or was lost.
LEMMA CountKeeps ==
    ASSUME RateInv, NEW a \in Attempts, Eval(a) \/ LoseEvalReply(a)
    PROVE  RateInv'
<1>0. PICK b \in Buckets : b = attempt[a].bucket
  BY DEF RateInv, RateTypeOK
<1>1. /\ Waiting(a) /\ Counts(b) /\ UNCHANGED tick
  BY <1>0 DEF Eval, LoseEvalReply
<1>3. \/ attempt' = [attempt EXCEPT ![a] = NoAttempt]
      \/ attempt' = [attempt EXCEPT ![a] = [@ EXCEPT !.left = 1]]
  BY DEF Eval, LoseEvalReply
<1>4. /\ attempt' \in [Attempts -> [bucket : Buckets, since : Nat, left : 0 .. 2]]
      /\ \A o \in Attempts : AttemptOK(o)'
  BY <1>1, <1>3, AttemptsKeep
<1>5. \/ admitted' = admitted
      \/ ~isLimited(b) /\ admitted' = [admitted EXCEPT ![b] = @ + 1]
  BY <1>0 DEF Eval, LoseEvalReply
<1>6. admitted' \in [Buckets -> Nat]
  BY <1>5 DEF RateInv, RateTypeOK
<1>7. /\ counter' \in [Buckets -> Nat] /\ started' \in [Buckets -> Nat] /\ lives' \in [Buckets -> Nat]
      /\ tick' \in Nat
  BY <1>1 DEF Counts, RateInv, RateTypeOK
<1>8. BucketOK(b)'
  <2>1. \/ admitted'[b] = admitted[b]
        \/ ~isLimited(b) /\ admitted'[b] = admitted[b] + 1
    BY <1>5 DEF RateInv, RateTypeOK
  <2> QED
    BY <1>0, <1>1, <1>6, <2>1, CountKeepsSpread, CountKeepsAdmitted DEF BucketOK
<1>9. ASSUME NEW o \in Buckets \ {b} PROVE BucketOK(o)'
  <2>1. /\ counter'[o] = counter[o] /\ started'[o] = started[o] /\ lives'[o] = lives[o]
        /\ admitted'[o] = admitted[o]
    BY <1>1, <1>5, <1>9 DEF Counts, RateInv, RateTypeOK
  <2> QED
    BY <1>1, <1>9, <2>1 DEF RateInv, BucketOK, KeyLives, LivesSpread, LivesAdmit
<1> QED
  BY <1>4, <1>6, <1>7, <1>8, <1>9 DEF RateInv, RateTypeOK

LEMMA UnavailableKeeps ==
    ASSUME RateInv, NEW a \in Attempts, Unavailable(a)
    PROVE  RateInv'
<1>1. /\ attempt' = [attempt EXCEPT ![a] = NoAttempt]
      /\ UNCHANGED <<tick, counter, started, admitted, lives>>
  BY DEF Unavailable
<1>2. /\ attempt' \in [Attempts -> [bucket : Buckets, since : Nat, left : 0 .. 2]]
      /\ \A o \in Attempts : AttemptOK(o)'
  BY <1>1, AttemptsKeep
<1>3. \A b \in Buckets : BucketOK(b)'
  BY <1>1 DEF RateInv, BucketOK, KeyLives, LivesSpread, LivesAdmit
<1> QED
  BY <1>1, <1>2, <1>3 DEF RateInv, RateTypeOK

\* Time drops the keys whose window is over.
LEMMA TickKeeps == ASSUME RateInv, RateTick PROVE RateInv'
<1> USE RateAssumption
<1>1. /\ tick' = tick + 1 /\ UNCHANGED <<started, attempt, admitted, lives>>
      /\ counter' = [b \in Buckets |-> IF tick + 1 >= started[b] + Window THEN 0 ELSE counter[b]]
      /\ \A a \in Attempts : Waiting(a) => tick + 1 <= attempt[a].since + MaxDelay
  BY DEF RateTick
<1>2. tick \in Nat
  BY DEF RateInv, RateTypeOK
<1>3. RateTypeOK'
  BY <1>1, <1>2 DEF RateInv, RateTypeOK
<1>4. ASSUME NEW a \in Attempts PROVE AttemptOK(a)'
  <2>1. attempt[a].since \in Nat
    BY DEF RateInv, RateTypeOK
  <2> QED
    BY <1>1, <1>2, <2>1 DEF RateInv, AttemptOK, Waiting
<1>5. ASSUME NEW b \in Buckets PROVE BucketOK(b)'
  <2>1. /\ counter[b] \in Nat /\ started[b] \in Nat /\ lives[b] \in Nat
    BY DEF RateInv, RateTypeOK
  <2>2. counter'[b] = IF tick + 1 >= started[b] + Window THEN 0 ELSE counter[b]
    BY <1>1
  <2>3. KeyLives(b) /\ LivesSpread(b) /\ LivesAdmit(b)
    BY DEF RateInv, BucketOK
  <2>4. KeyLives(b)'
    BY <1>1, <1>2, <2>1, <2>2, <2>3 DEF KeyLives
  <2>5. LivesSpread(b)'
    BY <1>1, <2>3 DEF LivesSpread
  <2>6. LivesAdmit(b)'
    BY <1>1, <2>2, <2>3 DEF LivesAdmit
  <2> QED
    BY <2>4, <2>5, <2>6 DEF BucketOK
<1> QED
  BY <1>3, <1>4, <1>5 DEF RateInv

-----------------------------------------------------------------------------
\* The clock stays below its bound.
Bounded == tick <= LastTick

LEMMA BoundedAlways == RateInv /\ Bounded /\ [RateNext]_rateVars => Bounded'
<1> SUFFICES ASSUME RateInv, Bounded, [RateNext]_rateVars PROVE Bounded'
  OBVIOUS
<1>1. tick \in Nat /\ LastTick \in Nat
  BY RateAssumption DEF RateInv, RateTypeOK
<1>2. tick' = tick \/ (tick < LastTick /\ tick' = tick + 1)
  BY DEF RateNext, rateVars, Send, Eval, LoseEvalReply, Unavailable, RateTick
<1> QED
  BY <1>1, <1>2 DEF Bounded

LEMMA RateNextKeeps == RateInv /\ Bounded /\ [RateNext]_rateVars => RateInv'
<1> SUFFICES ASSUME RateInv, Bounded, [RateNext]_rateVars PROVE RateInv'
  OBVIOUS
<1>1. CASE UNCHANGED rateVars
  BY <1>1 DEF rateVars, RateInv, RateTypeOK, AttemptOK, Waiting, BucketOK, KeyLives, LivesSpread, LivesAdmit
<1>2. ASSUME NEW a \in Attempts, NEW g \in Limiters, Send(a, g) PROVE RateInv'
  BY <1>2, SendKeeps DEF Bounded
<1>3. ASSUME NEW a \in Attempts, Eval(a) \/ LoseEvalReply(a) \/ Unavailable(a) PROVE RateInv'
  BY <1>3, CountKeeps, UnavailableKeeps
<1> QED
  BY <1>1, <1>2, <1>3, TickKeeps DEF RateNext

\* Two lives fit where skew and delay are within a window, one where both are 0.
LEMMA LivesBounded ==
    ASSUME RateInv, NEW b \in Buckets, MaxAhead + MaxDelay <= Window
    PROVE  lives[b] <= LivesOfAKey
<1> USE RateAssumption
<1>1. b \in Nat /\ lives[b] \in Nat /\ started[b] \in Nat
  BY BucketsNat DEF RateInv, RateTypeOK
<1>2. LivesOfAKey \in 1 .. 2
  BY DEF LivesOfAKey
<1>3. CASE lives[b] = 0
  BY <1>2, <1>3
<1>4. CASE lives[b] > 0
  <2>1. /\ (b + lives[b]) * Window <= started[b] + MaxAhead + Window
        /\ started[b] < (b + 1) * Window + MaxDelay
    BY <1>4 DEF RateInv, BucketOK, LivesSpread
  <2>2. (b + lives[b]) * Window < (b + 2) * Window + (MaxAhead + MaxDelay)
    <3>1. /\ (b + 2) * Window = (b + 1) * Window + Window
          /\ (b + 1) * Window \in Nat /\ (b + lives[b]) * Window \in Nat
      BY <1>1
    <3> QED
      BY <1>1, <2>1, <3>1
  <2>3. CASE MaxAhead + MaxDelay = 0
    <3>1. (b + lives[b]) * Window < (b + 2) * Window
      BY <1>1, <2>2, <2>3
    <3>2. b + lives[b] < b + 2
      BY <1>1, <3>1
    <3> QED
      BY <1>1, <2>3, <3>2 DEF LivesOfAKey
  <2>4. CASE MaxAhead + MaxDelay # 0
    <3>1. (b + 2) * Window + Window = (b + 3) * Window
      BY <1>1
    <3>2. (b + lives[b]) * Window < (b + 3) * Window
      BY <1>1, <2>2, <3>1
    <3>3. b + lives[b] < b + 3
      BY <1>1, <3>2
    <3> QED
      BY <1>1, <2>4, <3>3 DEF LivesOfAKey
  <2> QED
    BY <2>3, <2>4
<1> QED
  BY <1>1, <1>3, <1>4

(* A window admits at most Limit requests with clocks that agree and no    *)
(* delay, and at most twice as many with skew and delay within a window,   *)
(* however many gateways count and commands are repeated.                  *)
(* rate-limit.policy.ts:34.                                                *)
THEOREM RateStaysWithinLimit == RateSpec => []AdmittedWithinLimit
<1>1. RateInit => Bounded
  BY RateAssumption DEF RateInit, Bounded
<1>2. RateInv => AdmittedWithinLimit
  <2> SUFFICES ASSUME RateInv, MaxAhead + MaxDelay <= Window, NEW b \in Buckets
               PROVE  admitted[b] <= LivesOfAKey * Limit
    BY DEF AdmittedWithinLimit
  <2>1. lives[b] \in Nat /\ admitted[b] \in Nat /\ Limit \in Nat /\ LivesOfAKey \in Nat
    BY RateAssumption DEF RateInv, RateTypeOK, LivesOfAKey
  <2>2. admitted[b] <= lives[b] * Limit /\ lives[b] <= LivesOfAKey
    BY LivesBounded DEF RateInv, BucketOK, LivesAdmit
  <2>3. lives[b] * Limit <= LivesOfAKey * Limit
    BY <2>1, <2>2
  <2> QED
    BY <2>1, <2>2, <2>3
<1> QED
  BY <1>1, <1>2, RateInitially, RateNextKeeps, BoundedAlways, PTL DEF RateSpec

-----------------------------------------------------------------------------
(***************************************************************************)
(* The policies: what has run is a beginning of the enabled ones in their order.*)
(***************************************************************************)

Policies == Seq([type : STRING, order : Nat, enabled : BOOLEAN, failureMode : {"open", "closed"}])

AuthenticationsOf(e) == {i \in Enabled(e) : e.policies[i].type \in AuthenticationTypes}

\* What validateProxyConfiguration promises of an endpoint.
IsAccepted(e) ==
    /\ e.mode \in {"forward", "local"} /\ e.policies \in Policies
    /\ \A i, j \in AuthenticationsOf(e) : i = j
    /\ e.mode = "local" => \E i \in Enabled(e) : e.policies[i].type \in TerminalTypes
    /\ e.mode = "forward" =>
          e.target /\ \A i \in Enabled(e) : e.policies[i].type \notin TerminalTypes

RegistryOK ==
    \A proxy \in registry : \A i \in DOMAIN proxy.endpoints : IsAccepted(proxy.endpoints[i])

IsHandler(h) ==
    h \in [phase : {h.phase}, endpoint : {h.endpoint}, ran : {h.ran}, failed : {h.failed},
           client : {h.client}, counted : {h.counted}, status : {h.status},
           replies : {h.replies}]

OrderOf(h, i) == h.endpoint.policies[i].order

\* What has run is a beginning of the enabled policies in their order, and
\* did what UpstreamIsGuarded says.
HasRun(h) ==
    /\ h.ran \subseteq Enabled(h.endpoint) /\ h.failed \subseteq h.ran
    /\ \A i \in h.ran : h.endpoint.policies[i].type \notin TerminalTypes
    /\ \A i \in h.ran : \A j \in Enabled(h.endpoint) :
          OrderOf(h, j) < OrderOf(h, i) => j \in h.ran

HasKept(h) ==
    /\ \A i \in h.failed : ~IsClosed(h, i)
    /\ h.client \in h.ran \cup {0}
    /\ Authenticators(h) \cap h.ran = IF h.client = 0 THEN {} ELSE {h.client}

HasCounted(h) ==
    \A pair \in h.counted :
        /\ pair[1] \in h.ran
        /\ \A i \in Authenticators(h) :
              /\ OrderOf(h, i) < OrderOf(h, pair[1]) => pair[2] = i
              /\ OrderOf(h, i) > OrderOf(h, pair[1]) => pair[2] = 0

Follows(h) == IsAccepted(h.endpoint) /\ HasRun(h) /\ HasKept(h) /\ HasCounted(h)

IsThrough(h) == Follows(h) /\ Enabled(h.endpoint) \subseteq h.ran

HandlerOK(h) ==
    /\ IsHandler(h)
    /\ h.ran \subseteq DOMAIN h.endpoint.policies /\ h.failed \subseteq h.ran
    /\ h.client \in h.ran \cup {0}
    /\ \/ h.phase = "policies" /\ Follows(h) /\ h.status = "none" /\ h.replies = 0
       \/ h.phase = "forwarding" /\ IsThrough(h) /\ h.status = "none" /\ h.replies = 0
       \/ h.phase = "streaming" /\ IsThrough(h) /\ h.status = "upstream" /\ h.replies = 1
       \/ /\ h.phase = "answered" /\ h.replies = 1 /\ h.status # "500"
          /\ h.status \in {"upstream", "502"} => IsThrough(h)

\* The handler after policy i has run.
HasRunTo(h, i, n) ==
    /\ IsHandler(n) /\ n.endpoint = h.endpoint /\ n.ran = h.ran \cup {i}
    /\ n.phase = h.phase /\ n.status = h.status /\ n.replies = h.replies

RequestInv ==
    /\ registry \in Configurations \cup {{}}
    /\ RegistryOK
    /\ request = [r \in HTTPRequests |-> request[r]]
    /\ \A r \in HTTPRequests : request[r] = NoRequest \/ HandlerOK(request[r])

-----------------------------------------------------------------------------
LEMMA LeastNatural ==
    ASSUME NEW T \in SUBSET Nat, T # {}
    PROVE  \E n \in T : \A m \in T : n <= m
<1> DEFINE Upto == {0 .. n : n \in T}
<1>1. Upto \subseteq FiniteSubsetsOf(Nat) /\ Upto # {}
  <2>1. ASSUME NEW n \in T PROVE 0 .. n \in FiniteSubsetsOf(Nat)
    <3>1. n \in Int /\ 0 \in Int /\ 0 .. n \subseteq Nat
      OBVIOUS
    <3>2. IsFiniteSet(0 .. n)
      BY <3>1, FS_Interval
    <3> QED
      BY <3>1, <3>2 DEF FiniteSubsetsOf
  <2> QED
    BY <2>1
<1>2. PICK least \in Upto : \A s \in Upto : <<s, least>> \notin StrictSubsetOrdering(Nat)
  <2> HIDE DEF Upto
  <2> QED
    BY <1>1, WFMin, FS_StrictSubsetOrderingWellFounded
<1>3. PICK n \in T : least = 0 .. n
  OBVIOUS
<1>4. ASSUME NEW m \in T PROVE n <= m
  <2>1. n \in Nat /\ m \in Nat
    OBVIOUS
  <2>2. SUFFICES ASSUME m < n PROVE FALSE
    BY <2>1
  <2>3. 0 .. m \subseteq 0 .. n /\ 0 .. m # 0 .. n /\ 0 .. n \subseteq Nat
    BY <2>1, <2>2
  <2>4. <<0 .. m, 0 .. n>> \in StrictSubsetOrdering(Nat)
    BY <2>3 DEF StrictSubsetOrdering
  <2> QED
    BY <1>2, <1>3, <2>4
<1> QED
  BY <1>4

\* Policies are listed from 1, and have an order.
LEMMA PolicyOrders ==
    ASSUME NEW ps \in Policies
    PROVE  /\ DOMAIN ps \subseteq Nat \ {0}
           /\ \A i \in DOMAIN ps : ps[i].order \in Nat
<1> DEFINE Policy == [type : STRING, order : Nat, enabled : BOOLEAN,
                      failureMode : {"open", "closed"}]
<1>1. ps \in Seq(Policy)
  BY DEF Policies
<1> HIDE DEF Policy
<1>2. Len(ps) \in Nat /\ DOMAIN ps = 1 .. Len(ps) /\ \A i \in DOMAIN ps : ps[i] \in Policy
  BY <1>1
<1> QED
  BY <1>2 DEF Policy

\* As long as an enabled policy has not run there is one to run next.
LEMMA NextExists ==
    ASSUME NEW h, h.endpoint.policies \in Policies, ~(Enabled(h.endpoint) \subseteq h.ran)
    PROVE  nextPolicy(h) # {}
<1> DEFINE rest == Enabled(h.endpoint) \ h.ran
           ps == h.endpoint.policies
           orders == {ps[i].order : i \in rest}
<1>1. rest \subseteq Nat /\ rest # {} /\ \A i \in rest : ps[i].order \in Nat
  <2>1. DOMAIN ps \subseteq Nat /\ \A i \in DOMAIN ps : ps[i].order \in Nat
    BY PolicyOrders
  <2>2. rest \subseteq DOMAIN ps /\ rest # {}
    BY DEF Enabled
  <2> QED
    BY <2>1, <2>2
<1>2. orders \subseteq Nat /\ orders # {}
  BY <1>1
<1>3. PICK o \in orders : \A p \in orders : o <= p
  <2> HIDE DEF orders
  <2> QED
    BY <1>2, LeastNatural
<1> DEFINE first == {i \in rest : ps[i].order = o}
<1>4. first \subseteq Nat /\ first # {}
  BY <1>1
<1>5. PICK i \in first : \A j \in first : i <= j
  <2> HIDE DEF first
  <2> QED
    BY <1>4, LeastNatural
<1>6. ASSUME NEW j \in rest \ {i}
      PROVE  ps[i].order < ps[j].order \/ (ps[i].order = ps[j].order /\ i < j)
  <2>1. o <= ps[j].order /\ ps[i].order = o /\ i \in Nat /\ j \in Nat
    BY <1>1, <1>3, <1>5
  <2>2. CASE ps[j].order = o
    BY <1>5, <2>1, <2>2
  <2>3. CASE ps[j].order # o
    BY <1>1, <2>1, <2>3
  <2> QED
    BY <2>2, <2>3
<1>7. i \in nextPolicy(h)
  BY <1>6 DEF nextPolicy
<1> QED
  BY <1>7

-----------------------------------------------------------------------------
LEMMA AtMostOne ==
    ASSUME NEW S, IsFiniteSet(S), Cardinality(S) <= 1, NEW i \in S, NEW j \in S
    PROVE  i = j
<1> SUFFICES ASSUME i # j PROVE FALSE
  OBVIOUS
<1>1. IsFiniteSet({i}) /\ Cardinality({i}) = 1
  BY FS_Singleton
<1>2. Cardinality({i} \cup {j}) = 2
  <2>1. j \notin {i}
    OBVIOUS
  <2>2. Cardinality({i} \cup {j}) = Cardinality({i}) + 1
    BY <1>1, <2>1, FS_AddElement
  <2> QED
    BY <1>1, <2>2
<1>3. {i} \cup {j} \in SUBSET S
  OBVIOUS
<1>4. Cardinality({i} \cup {j}) <= Cardinality(S) /\ Cardinality(S) \in Nat
  BY <1>3, FS_Subset, FS_CardinalityType
<1> QED
  BY <1>2, <1>4

\* What the loader returns and the validator lets through is accepted.
LEMMA ValidatedIsAccepted ==
    ASSUME NEW c \in Configurations, validateProxyConfiguration(c),
           NEW proxy \in c, NEW i \in DOMAIN proxy.endpoints
    PROVE  IsAccepted(proxy.endpoints[i])
<1> DEFINE e == proxy.endpoints[i]
<1>1. e.mode \in {"forward", "local"} /\ e.policies \in Policies
  BY ConfigurationAssumption DEF Policies
<1>2. e \in EndpointsOf(proxy)
  BY DEF EndpointsOf
<1> HIDE DEF e
<1>3. /\ Cardinality(AuthenticationsOf(e)) <= 1
      /\ e.mode = "local" => TypesOf(e) \cap TerminalTypes # {}
      /\ e.mode = "forward" => e.target /\ TypesOf(e) \cap TerminalTypes = {}
  BY <1>2 DEF validateProxyConfiguration, AuthenticationsOf
<1>4. IsFiniteSet(AuthenticationsOf(e))
  <2>1. Len(e.policies) \in Nat /\ DOMAIN e.policies = 1 .. Len(e.policies)
    BY <1>1 DEF Policies
  <2>2. IsFiniteSet(1 .. Len(e.policies))
    BY <2>1, FS_Interval
  <2>3. AuthenticationsOf(e) \in SUBSET (1 .. Len(e.policies))
    BY <2>1 DEF AuthenticationsOf, Enabled
  <2> QED
    BY <2>2, <2>3, FS_Subset
<1>5. \A a, b \in AuthenticationsOf(e) : a = b
  BY <1>3, <1>4, AtMostOne
<1>6. IsAccepted(e)
  BY <1>1, <1>3, <1>5 DEF IsAccepted, TypesOf
<1> QED
  BY <1>6 DEF e

-----------------------------------------------------------------------------
LEMMA ReplyIs ==
    ASSUME NEW h, IsHandler(h), NEW status, h.replies = 0
    PROVE  LET n == Answered(h, status) IN
           /\ IsHandler(n) /\ n.phase = "answered" /\ n.endpoint = h.endpoint /\ n.ran = h.ran
           /\ n.failed = h.failed /\ n.client = h.client /\ n.counted = h.counted
           /\ n.status = status /\ n.replies = 1
<1> DEFINE n == [h EXCEPT !.phase = "answered", !.status = status, !.replies = 0 + 1]
<1>1. Answered(h, status) = n
  BY DEF Answered
<1>2. n = [h EXCEPT !.phase = "answered", !.status = status, !.replies = 1]
  OBVIOUS
<1> HIDE DEF n
<1> QED
  BY <1>1, <1>2 DEF IsHandler

LEMMA AnsweredOK ==
    ASSUME NEW h, IsHandler(h), NEW status, status \notin {"500", "upstream", "502"},
           h.replies = 0, h.ran \subseteq DOMAIN h.endpoint.policies,
           h.failed \subseteq h.ran, h.client \in h.ran \cup {0}
    PROVE  HandlerOK(Answered(h, status))
BY ReplyIs DEF HandlerOK

\* After a policy that was passed the handler goes on to the next one, or to
\* the upstream: an accepted endpoint is never left without an answer.
LEMMA GoOnOK ==
    ASSUME NEW h, IsHandler(h), Follows(h), h.phase = "policies", h.status = "none",
           h.replies = 0
    PROVE  HandlerOK(GoOn(h))
<1>1. /\ h.ran \subseteq DOMAIN h.endpoint.policies /\ h.failed \subseteq h.ran
      /\ h.client \in h.ran \cup {0}
  BY DEF Follows, HasRun, HasKept, Enabled
<1>2. CASE nextPolicy(h) # {}
  BY <1>1, <1>2 DEF GoOn, HandlerOK
<1>3. CASE nextPolicy(h) = {}
  <2>1. Enabled(h.endpoint) \subseteq h.ran
    BY <1>3, NextExists DEF Follows, IsAccepted
  <2>2. h.endpoint.mode = "forward" /\ h.endpoint.target
    BY <2>1 DEF Follows, IsAccepted, HasRun
  <2> DEFINE n == [h EXCEPT !.phase = "forwarding"]
  <2>3. GoOn(h) = n
    BY <1>3, <2>2 DEF GoOn
  <2>4. /\ IsHandler(n) /\ n.endpoint = h.endpoint /\ n.ran = h.ran /\ n.failed = h.failed
        /\ n.client = h.client /\ n.counted = h.counted /\ n.status = h.status
        /\ n.replies = h.replies /\ n.phase = "forwarding"
    BY DEF IsHandler
  <2> HIDE DEF n
  <2>5. Follows(n)
    BY <2>4 DEF Follows, HasRun, HasKept, HasCounted, Authenticators, IsClosed, OrderOf
  <2> QED
    BY <1>1, <2>1, <2>3, <2>4, <2>5 DEF HandlerOK, IsThrough
<1> QED
  BY <1>2, <1>3

\* Everything ordered before the next policy has run, nothing after it.
LEMMA NextIsNext ==
    ASSUME NEW h, Follows(h), NEW i \in nextPolicy(h)
    PROVE  /\ i \in Enabled(h.endpoint) \ h.ran /\ i # 0
           /\ \A j \in Enabled(h.endpoint) : OrderOf(h, j) < OrderOf(h, i) => j \in h.ran
           /\ \A j \in h.ran : OrderOf(h, j) <= OrderOf(h, i)
<1>1. i \in Enabled(h.endpoint) \ h.ran
  BY DEF nextPolicy
<1>2. DOMAIN h.endpoint.policies \subseteq Nat \ {0}
      /\ \A j \in Enabled(h.endpoint) : OrderOf(h, j) \in Nat
  BY PolicyOrders DEF Follows, IsAccepted, OrderOf, Enabled
<1>3. ASSUME NEW j \in Enabled(h.endpoint), OrderOf(h, j) < OrderOf(h, i) PROVE j \in h.ran
  BY <1>1, <1>2, <1>3 DEF nextPolicy, OrderOf
<1>4. ASSUME NEW j \in h.ran PROVE OrderOf(h, j) <= OrderOf(h, i)
  <2>1. j \in Enabled(h.endpoint) /\ (OrderOf(h, i) < OrderOf(h, j) => i \in h.ran)
    BY <1>1 DEF Follows, HasRun
  <2> QED
    BY <1>1, <1>2, <2>1
<1> QED
  BY <1>1, <1>2, <1>3, <1>4 DEF Enabled

\* A policy that runs is added to those that have run, and is not a terminal one.
LEMMA RunningKeepsOrder ==
    ASSUME NEW h, Follows(h), NEW i \in nextPolicy(h), NEW n,
           n.endpoint = h.endpoint, n.ran = h.ran \cup {i}, n.failed \subseteq n.ran,
           h.endpoint.policies[i].type \notin TerminalTypes
    PROVE  HasRun(n)
<1>1. HasRun(h) /\ i \in Enabled(h.endpoint)
      /\ \A j \in Enabled(h.endpoint) : OrderOf(h, j) < OrderOf(h, i) => j \in h.ran
  BY NextIsNext DEF Follows
<1> QED
  BY <1>1 DEF HasRun, OrderOf

LEMMA PassesOK ==
    ASSUME NEW h, IsHandler(h), Follows(h), h.phase = "policies", h.status = "none",
           h.replies = 0, NEW i \in nextPolicy(h),
           NEW n, HasRunTo(h, i, n), n.failed = h.failed, n.client = i,
           n.counted = h.counted,
           h.endpoint.policies[i].type \in AuthenticationTypes
    PROVE  HandlerOK(GoOn(n))
<1>1. /\ IsHandler(n) /\ n.phase = h.phase /\ n.endpoint = h.endpoint /\ n.failed = h.failed
      /\ n.ran = h.ran \cup {i} /\ n.client = i /\ n.counted = h.counted
      /\ n.status = h.status /\ n.replies = h.replies
  BY DEF HasRunTo
<1>2. /\ i \in Enabled(h.endpoint) \ h.ran /\ i # 0
      /\ \A j \in h.ran : OrderOf(h, j) <= OrderOf(h, i)
      /\ HasRun(h) /\ HasKept(h) /\ HasCounted(h) /\ IsAccepted(h.endpoint)
  BY NextIsNext DEF Follows
<1>3. i \in AuthenticationsOf(h.endpoint) /\ AuthenticationsOf(h.endpoint) = {i}
  BY <1>2 DEF AuthenticationsOf, IsAccepted
<1>4. Authenticators(n) = {i} /\ Authenticators(h) = {i}
  BY <1>1, <1>2, <1>3 DEF Authenticators, AuthenticationsOf, HasRun
<1>5. HasRun(n)
  <2>1. h.endpoint.policies[i].type \notin TerminalTypes
    BY DEF AuthenticationTypes, TerminalTypes
  <2>2. n.failed \subseteq n.ran
    BY <1>1, <1>2 DEF HasRun
  <2> QED
    BY <1>1, <2>1, <2>2, RunningKeepsOrder
<1>6. HasKept(n)
  BY <1>1, <1>2, <1>4 DEF HasKept, IsClosed
<1>7. HasCounted(n)
  <2> SUFFICES ASSUME NEW pair \in n.counted
               PROVE  /\ pair[1] \in n.ran
                      /\ OrderOf(n, i) < OrderOf(n, pair[1]) => pair[2] = i
                      /\ OrderOf(n, i) > OrderOf(n, pair[1]) => pair[2] = 0
    BY <1>4 DEF HasCounted
  <2>1. /\ pair[1] \in h.ran /\ OrderOf(h, pair[1]) <= OrderOf(h, i)
        /\ OrderOf(h, i) > OrderOf(h, pair[1]) => pair[2] = 0
    BY <1>1, <1>2, <1>4 DEF HasCounted
  <2>2. OrderOf(h, i) \in Nat /\ OrderOf(h, pair[1]) \in Nat
    BY <1>2, <2>1, PolicyOrders DEF HasRun, IsAccepted, OrderOf, Enabled
  <2>3. OrderOf(n, i) = OrderOf(h, i) /\ OrderOf(n, pair[1]) = OrderOf(h, pair[1])
    BY <1>1 DEF OrderOf
  <2> QED
    BY <1>1, <2>1, <2>2, <2>3
<1>8. Follows(n)
  BY <1>1, <1>2, <1>5, <1>6, <1>7 DEF Follows
<1> QED
  BY <1>1, <1>8, GoOnOK

LEMMA CountsOK ==
    ASSUME NEW h, IsHandler(h), Follows(h), h.phase = "policies", h.status = "none",
           h.replies = 0, NEW i \in nextPolicy(h),
           NEW n, HasRunTo(h, i, n), n.failed = h.failed, n.client = h.client,
           n.counted = h.counted \cup {<<i, h.client>>},
           h.endpoint.policies[i].type = "rate-limit"
    PROVE  HandlerOK(GoOn(n))
<1>1. /\ IsHandler(n) /\ n.phase = h.phase /\ n.endpoint = h.endpoint /\ n.failed = h.failed
      /\ n.ran = h.ran \cup {i} /\ n.client = h.client
      /\ n.counted = h.counted \cup {<<i, h.client>>}
      /\ n.status = h.status /\ n.replies = h.replies
  BY DEF HasRunTo
<1>2. /\ i \in Enabled(h.endpoint) \ h.ran /\ i # 0
      /\ \A j \in Enabled(h.endpoint) : OrderOf(h, j) < OrderOf(h, i) => j \in h.ran
      /\ \A j \in h.ran : OrderOf(h, j) <= OrderOf(h, i)
      /\ HasRun(h) /\ HasKept(h) /\ HasCounted(h) /\ IsAccepted(h.endpoint)
  BY NextIsNext DEF Follows
<1>3. i \notin AuthenticationsOf(h.endpoint) /\ h.endpoint.policies[i].type \notin TerminalTypes
  BY DEF AuthenticationsOf, AuthenticationTypes, TerminalTypes
<1>4. Authenticators(n) = Authenticators(h) /\ i \notin Authenticators(h)
  BY <1>1, <1>3 DEF Authenticators, AuthenticationsOf
<1>5. HasRun(n)
  <2>1. n.failed \subseteq n.ran
    BY <1>1, <1>2 DEF HasRun
  <2> QED
    BY <1>1, <1>3, <2>1, RunningKeepsOrder
<1>6. HasKept(n)
  BY <1>1, <1>2, <1>4 DEF HasKept, IsClosed
<1>7. HasCounted(n)
  <2> SUFFICES ASSUME NEW pair \in n.counted
               PROVE  /\ pair[1] \in n.ran
                      /\ \A j \in Authenticators(h) :
                            /\ OrderOf(h, j) < OrderOf(h, pair[1]) => pair[2] = j
                            /\ OrderOf(h, j) > OrderOf(h, pair[1]) => pair[2] = 0
    BY <1>1, <1>4 DEF HasCounted, OrderOf
  <2>1. CASE pair \in h.counted
    BY <1>1, <1>2, <2>1 DEF HasCounted
  <2>2. CASE pair = <<i, h.client>>
    <3>1. ASSUME NEW j \in Authenticators(h), OrderOf(h, j) < OrderOf(h, i)
          PROVE  h.client = j
      <4>1. j \in h.ran
        BY <1>2, <3>1 DEF Authenticators
      <4> QED
        BY <1>2, <4>1 DEF HasKept
    <3>2. ASSUME NEW j \in Authenticators(h), OrderOf(h, j) > OrderOf(h, i)
          PROVE  h.client = 0
      <4>1. j \notin h.ran
        <5>1. j \in h.ran => OrderOf(h, j) <= OrderOf(h, i)
          BY <1>2
        <5>2. OrderOf(h, j) \in Nat /\ OrderOf(h, i) \in Nat
          BY <1>2, PolicyOrders DEF Authenticators, IsAccepted, OrderOf, Enabled
        <5> QED
          BY <3>2, <5>1, <5>2
      <4>2. ASSUME h.client # 0 PROVE FALSE
        <5>1. h.client \in Authenticators(h) /\ h.client \in h.ran
          BY <1>2, <4>2 DEF HasKept
        <5>2. h.client = j
          BY <1>2, <5>1 DEF Authenticators, AuthenticationsOf, IsAccepted
        <5> QED
          BY <4>1, <5>1, <5>2
      <4> QED
        BY <4>2
    <3> QED
      BY <1>1, <2>2, <3>1, <3>2
  <2> QED
    BY <1>1, <2>1, <2>2
<1>8. Follows(n)
  BY <1>1, <1>2, <1>5, <1>6, <1>7 DEF Follows
<1> QED
  BY <1>1, <1>8, GoOnOK

LEMMA FailsOpenOK ==
    ASSUME NEW h, IsHandler(h), Follows(h), h.phase = "policies", h.status = "none",
           h.replies = 0, NEW i \in nextPolicy(h),
           NEW n, HasRunTo(h, i, n), n.failed = h.failed \cup {i},
           n.client = h.client, n.counted = h.counted,
           h.endpoint.policies[i].type \notin TerminalTypes,
           h.endpoint.policies[i].failureMode = "open"
    PROVE  HandlerOK(GoOn(n))
<1>1. /\ IsHandler(n) /\ n.phase = h.phase /\ n.endpoint = h.endpoint
      /\ n.failed = h.failed \cup {i} /\ n.ran = h.ran \cup {i} /\ n.client = h.client
      /\ n.counted = h.counted /\ n.status = h.status /\ n.replies = h.replies
  BY DEF HasRunTo
<1>2. /\ i \in Enabled(h.endpoint) \ h.ran
      /\ HasRun(h) /\ HasKept(h) /\ HasCounted(h) /\ IsAccepted(h.endpoint)
  BY NextIsNext DEF Follows
<1>3. Authenticators(n) = Authenticators(h) \ {i}
  BY <1>1 DEF Authenticators
<1>4. HasRun(n)
  <2>1. n.failed \subseteq n.ran
    BY <1>1, <1>2 DEF HasRun
  <2> QED
    BY <1>1, <2>1, RunningKeepsOrder
<1>5. HasKept(n)
  <2>1. \A j \in n.failed : ~IsClosed(n, j)
    BY <1>1, <1>2 DEF HasKept, IsClosed
  <2>2. Authenticators(n) \cap n.ran = Authenticators(h) \cap h.ran
    BY <1>1, <1>2, <1>3
  <2> QED
    BY <1>1, <1>2, <2>1, <2>2 DEF HasKept
<1>6. HasCounted(n)
  BY <1>1, <1>2, <1>3 DEF HasCounted, OrderOf
<1>7. Follows(n)
  BY <1>1, <1>2, <1>4, <1>5, <1>6 DEF Follows
<1> QED
  BY <1>1, <1>7, GoOnOK

-----------------------------------------------------------------------------
LEMMA RequestInitially == RequestInit => RequestInv
BY DEF RequestInit, RequestInv, RegistryOK

\* What an action that changes only the handler of r has to show.
LEMMA OneHandler ==
    ASSUME RequestInv, NEW r \in HTTPRequests, NEW h, Becomes(r, h),
           h = NoRequest \/ HandlerOK(h)
    PROVE  RequestInv'
<1>1. request' = [q \in HTTPRequests |-> IF q = r THEN h ELSE request[q]]
      /\ registry' = registry
  BY DEF Becomes, RequestInv
<1>2. RegistryOK'
  BY <1>1 DEF RequestInv, RegistryOK
<1>3. \A q \in HTTPRequests : request'[q] = NoRequest \/ HandlerOK(request'[q])
  BY <1>1 DEF RequestInv
<1>4. request' = [q \in HTTPRequests |-> request'[q]]
  BY <1>1
<1> QED
  BY <1>1, <1>2, <1>3, <1>4 DEF RequestInv

LEMMA SnapshotKeeps ==
    ASSUME RequestInv, NEW c \in Configurations, applySnapshot(c)
    PROVE  RequestInv'
<1>1. CASE validateProxyConfiguration(c) /\ Loads(c)
  <2>1. registry' = c /\ request' = request
    BY <1>1 DEF applySnapshot
  <2>2. RegistryOK'
    BY <1>1, <2>1, ValidatedIsAccepted DEF RegistryOK
  <2> QED
    BY <2>1, <2>2 DEF RequestInv
<1>2. CASE ~(validateProxyConfiguration(c) /\ Loads(c))
  BY <1>2 DEF applySnapshot, RequestInv, RegistryOK
<1> QED
  BY <1>1, <1>2

LEMMA NewHandler ==
    ASSUME NEW e
    PROVE  LET h == Handling(e) IN
           /\ IsHandler(h) /\ h.phase = "policies" /\ h.status = "none" /\ h.replies = 0
           /\ h.endpoint = e /\ h.ran = {} /\ h.failed = {} /\ h.client = 0 /\ h.counted = {}
BY DEF Handling, IsHandler

LEMMA ArriveKeeps ==
    ASSUME RequestInv, NEW r \in HTTPRequests, NEW host, NEW path, NEW method,
           Arrive(r, host, path, method)
    PROVE  RequestInv'
<1>1. \A status \in {"421", "404", "405"} : HandlerOK(Answered(Handling(Unresolved), status))
  BY NewHandler, AnsweredOK
<1>2. ASSUME NEW status \in {"421", "404", "405"},
             Becomes(r, Answered(Handling(Unresolved), status))
      PROVE  RequestInv'
  BY <1>1, <1>2, OneHandler
<1>3. ASSUME NEW p \in resolveProxy(host, path),
             NEW i \in resolveEndpoint(p, path, method),
             Becomes(r, GoOn(Handling(p.endpoints[i])))
      PROVE  RequestInv'
  <2>1. p \in registry /\ i \in DOMAIN p.endpoints
    BY DEF resolveProxy, resolveEndpoint, Matching
  <2> DEFINE e == p.endpoints[i]
             h == Handling(e)
  <2>2. IsAccepted(e)
    BY <2>1 DEF RequestInv, RegistryOK
  <2> HIDE DEF e
  <2>3. /\ IsHandler(h) /\ h.phase = "policies" /\ h.status = "none" /\ h.replies = 0
        /\ h.endpoint = e /\ h.ran = {} /\ h.failed = {} /\ h.client = 0 /\ h.counted = {}
    BY NewHandler
  <2> HIDE DEF h
  <2>4. Follows(h)
    BY <2>2, <2>3 DEF Follows, HasRun, HasKept, HasCounted
  <2>5. HandlerOK(GoOn(h))
    BY <2>3, <2>4, GoOnOK
  <2>6. Becomes(r, GoOn(h))
    BY <1>3 DEF h, e
  <2> QED
    BY <2>5, <2>6, OneHandler
<1> QED
  BY <1>2, <1>3 DEF Arrive

\* A handler at which a policy is at work.
LEMMA AtWork ==
    ASSUME RequestInv, NEW r \in HTTPRequests, request[r] # NoRequest, NEW i, Runs(r, i)
    PROVE  LET h == request[r] IN
           /\ IsHandler(h) /\ Follows(h) /\ h.phase = "policies" /\ h.status = "none"
           /\ h.replies = 0 /\ i \in nextPolicy(h)
BY DEF RequestInv, Runs, HandlerOK

\* The answer of a policy ends the request.
LEMMA PolicyAnswers ==
    ASSUME NEW h, IsHandler(h), Follows(h), h.phase = "policies", h.replies = 0,
           NEW i \in nextPolicy(h), NEW n, HasRunTo(h, i, n),
           n.failed \subseteq h.failed \cup {i}, n.client = h.client,
           NEW status \in {"200", "4xx", "503"}
    PROVE  HandlerOK(Answered(n, status))
<1>1. /\ IsHandler(n) /\ n.endpoint = h.endpoint
      /\ n.ran = h.ran \cup {i} /\ n.replies = h.replies
  BY DEF HasRunTo
<1>2. n.ran \subseteq DOMAIN n.endpoint.policies /\ n.failed \subseteq n.ran
      /\ n.client \in n.ran \cup {0}
  BY <1>1, NextIsNext DEF Follows, HasRun, HasKept, Enabled
<1> QED
  BY <1>1, <1>2, AnsweredOK

LEMMA PassesKeeps ==
    ASSUME RequestInv, NEW r \in HTTPRequests, request[r] # NoRequest, NEW i, Passes(r, i)
    PROVE  RequestInv'
<1> DEFINE h == request[r]
           n == [h EXCEPT !.ran = @ \cup {i}]
<1>1. /\ IsHandler(h) /\ Follows(h) /\ h.phase = "policies" /\ h.status = "none"
      /\ h.replies = 0 /\ i \in nextPolicy(h)
  BY AtWork DEF Passes
<1>2. n.endpoint = h.endpoint /\ n.client = h.client /\ n.counted = h.counted
  BY <1>1 DEF IsHandler
<1>3. CASE /\ h.endpoint.policies[i].type \in AuthenticationTypes
           /\ Becomes(r, GoOn([n EXCEPT !.client = i]))
  <2> DEFINE m == [n EXCEPT !.client = i]
  <2>1. HasRunTo(h, i, m) /\ m.failed = h.failed /\ m.client = i /\ m.counted = h.counted
    BY <1>1 DEF IsHandler, HasRunTo
  <2>2. h.endpoint.policies[i].type \in AuthenticationTypes /\ Becomes(r, GoOn(m))
    BY <1>3
  <2> HIDE DEF m, h
  <2>3. HandlerOK(GoOn(m))
    BY <1>1, <2>1, <2>2, PassesOK
  <2> QED
    BY <2>2, <2>3, OneHandler
<1>4. CASE /\ h.endpoint.policies[i].type = "rate-limit"
           /\ Becomes(r, GoOn([n EXCEPT !.counted = @ \cup {<<i, n.client>>}]))
  <2> DEFINE m == [n EXCEPT !.counted = @ \cup {<<i, n.client>>}]
  <2>1. /\ HasRunTo(h, i, m) /\ m.failed = h.failed /\ m.client = h.client
        /\ m.counted = h.counted \cup {<<i, h.client>>}
    BY <1>1 DEF IsHandler, HasRunTo
  <2>2. h.endpoint.policies[i].type = "rate-limit" /\ Becomes(r, GoOn(m))
    BY <1>4
  <2> HIDE DEF m, h
  <2>3. HandlerOK(GoOn(m))
    BY <1>1, <2>1, <2>2, CountsOK
  <2> QED
    BY <2>2, <2>3, OneHandler
<1> QED
  BY <1>2, <1>3, <1>4 DEF Passes

LEMMA HaltsKeeps ==
    ASSUME RequestInv, NEW r \in HTTPRequests, request[r] # NoRequest, NEW i, Halts(r, i)
    PROVE  RequestInv'
<1> DEFINE h == request[r]
           n == [h EXCEPT !.ran = @ \cup {i}]
<1>1. /\ IsHandler(h) /\ Follows(h) /\ h.phase = "policies" /\ h.replies = 0
      /\ i \in nextPolicy(h)
  BY AtWork DEF Halts
<1>2. HasRunTo(h, i, n) /\ n.failed = h.failed /\ n.client = h.client
  BY <1>1 DEF IsHandler, HasRunTo
<1>3. HandlerOK(Answered(n, "200")) /\ HandlerOK(Answered(n, "4xx"))
  <2> HIDE DEF h, n
  <2> QED
    BY <1>1, <1>2, PolicyAnswers
<1>4. Becomes(r, Answered(n, "200")) \/ Becomes(r, Answered(n, "4xx"))
  BY DEF Halts
<1> HIDE DEF h, n
<1> QED
  BY <1>3, <1>4, OneHandler

LEMMA FailsKeeps ==
    ASSUME RequestInv, NEW r \in HTTPRequests, request[r] # NoRequest, NEW i, Fails(r, i)
    PROVE  RequestInv'
<1> DEFINE h == request[r]
           n == [h EXCEPT !.ran = @ \cup {i}, !.failed = @ \cup {i}]
<1>1. /\ IsHandler(h) /\ Follows(h) /\ h.phase = "policies" /\ h.status = "none"
      /\ h.replies = 0 /\ i \in nextPolicy(h)
  BY AtWork DEF Fails
<1>2. n.endpoint = h.endpoint
  BY <1>1 DEF IsHandler
<1>5. /\ HasRunTo(h, i, n) /\ n.failed = h.failed \cup {i} /\ n.client = h.client
      /\ n.counted = h.counted
  BY <1>1 DEF IsHandler, HasRunTo
<1>3. CASE /\ h.endpoint.policies[i].failureMode = "open"
           /\ h.endpoint.policies[i].type \notin TerminalTypes
           /\ Becomes(r, GoOn(n))
  <2>1. HandlerOK(GoOn(n))
    <3>1. h.endpoint.policies[i].failureMode = "open"
          /\ h.endpoint.policies[i].type \notin TerminalTypes
      BY <1>3
    <3> HIDE DEF h, n
    <3> QED
      BY <1>1, <1>5, <3>1, FailsOpenOK
  <2> QED
    BY <1>3, <2>1, OneHandler
<1>4. CASE Becomes(r, Answered(n, "503"))
  <2>1. HandlerOK(Answered(n, "503"))
    <3> HIDE DEF h, n
    <3> QED
      BY <1>1, <1>5, PolicyAnswers
  <2> HIDE DEF h, n
  <2> QED
    BY <1>4, <2>1, OneHandler
<1> QED
  BY <1>2, <1>3, <1>4 DEF Fails, TerminalTypes

LEMMA UpstreamKeeps ==
    ASSUME RequestInv, NEW r \in HTTPRequests, request[r] # NoRequest,
           UpstreamAnswers(r) \/ UpstreamFails(r)
    PROVE  RequestInv'
<1> DEFINE h == request[r]
           a == [h EXCEPT !.phase = "streaming", !.status = "upstream", !.replies = @ + 1]
           b == Answered(h, "502")
<1>1. /\ IsHandler(h) /\ IsThrough(h) /\ h.status = "none" /\ h.replies = 0
      /\ h.ran \subseteq DOMAIN h.endpoint.policies /\ h.failed \subseteq h.ran
      /\ h.client \in h.ran \cup {0}
  BY DEF RequestInv, HandlerOK, UpstreamAnswers, UpstreamFails
<1>2. Becomes(r, a) \/ Becomes(r, b)
  BY DEF UpstreamAnswers, UpstreamFails
<1>3. /\ \A n \in {a, b} : /\ IsHandler(n) /\ n.endpoint = h.endpoint /\ n.ran = h.ran
                           /\ n.failed = h.failed /\ n.client = h.client
                           /\ n.counted = h.counted /\ n.replies = 1
      /\ a.phase = "streaming" /\ a.status = "upstream"
      /\ b.phase = "answered" /\ b.status = "502"
  <2> HIDE DEF h
  <2>1. a = [h EXCEPT !.phase = "streaming", !.status = "upstream", !.replies = 1]
    BY <1>1
  <2>2. /\ IsHandler(a) /\ a.phase = "streaming" /\ a.endpoint = h.endpoint /\ a.ran = h.ran
        /\ a.failed = h.failed /\ a.client = h.client /\ a.counted = h.counted
        /\ a.status = "upstream" /\ a.replies = 1
    <3> HIDE DEF a
    <3> QED
      BY <1>1, <2>1 DEF IsHandler
  <2> HIDE DEF a
  <2> QED
    BY <1>1, <2>2, ReplyIs
<1> HIDE DEF h, a, b
<1>4. ASSUME NEW n \in {a, b} PROVE IsThrough(n)
  <2>1. n.endpoint = h.endpoint /\ n.ran = h.ran /\ n.failed = h.failed
        /\ n.client = h.client /\ n.counted = h.counted
    BY <1>3
  <2> QED
    BY <1>1, <2>1 DEF IsThrough, Follows, HasRun, HasKept, HasCounted, Authenticators,
                      IsClosed, OrderOf
<1>5. HandlerOK(a) /\ HandlerOK(b)
  BY <1>1, <1>3, <1>4 DEF HandlerOK
<1> QED
  BY <1>2, <1>5, OneHandler

LEMMA StreamEndsKeeps ==
    ASSUME RequestInv, NEW r \in HTTPRequests, request[r] # NoRequest, StreamEnds(r)
    PROVE  RequestInv'
<1> DEFINE h == request[r]
           n == [h EXCEPT !.phase = "answered"]
<1>1. /\ IsHandler(h) /\ IsThrough(h) /\ h.status = "upstream" /\ h.replies = 1
      /\ h.ran \subseteq DOMAIN h.endpoint.policies /\ h.failed \subseteq h.ran
      /\ h.client \in h.ran \cup {0}
  BY DEF RequestInv, HandlerOK, StreamEnds
<1>2. Becomes(r, n)
  BY DEF StreamEnds
<1>3. /\ IsHandler(n) /\ n.phase = "answered" /\ n.endpoint = h.endpoint /\ n.ran = h.ran
      /\ n.failed = h.failed /\ n.client = h.client /\ n.counted = h.counted
      /\ n.status = h.status /\ n.replies = h.replies
  BY <1>1 DEF IsHandler
<1> HIDE DEF h, n
<1>4. IsThrough(n)
  <2>1. n.endpoint = h.endpoint /\ n.ran = h.ran /\ n.failed = h.failed
        /\ n.client = h.client /\ n.counted = h.counted
    BY <1>3
  <2> QED
    BY <1>1, <2>1 DEF IsThrough, Follows, HasRun, HasKept, HasCounted, Authenticators,
                      IsClosed, OrderOf
<1>5. HandlerOK(n)
  BY <1>1, <1>3, <1>4 DEF HandlerOK
<1> QED
  BY <1>2, <1>5, OneHandler

LEMMA RequestInductive == RequestInv /\ [RequestNext]_requestVars => RequestInv'
<1> SUFFICES ASSUME RequestInv, [RequestNext]_requestVars PROVE RequestInv'
  OBVIOUS
<1>1. ASSUME NEW c \in Configurations, applySnapshot(c) PROVE RequestInv'
  BY <1>1, SnapshotKeeps
<1>2. ASSUME NEW r \in HTTPRequests, NEW host, NEW path, NEW method,
             Arrive(r, host, path, method)
      PROVE  RequestInv'
  BY <1>2, ArriveKeeps
<1>3. ASSUME NEW r \in HTTPRequests, request[r] # NoRequest, NEW i,
             Passes(r, i) \/ Halts(r, i) \/ Fails(r, i)
      PROVE  RequestInv'
  BY <1>3, PassesKeeps, HaltsKeeps, FailsKeeps
<1>4. ASSUME NEW r \in HTTPRequests, request[r] # NoRequest,
             UpstreamAnswers(r) \/ UpstreamFails(r) \/ StreamEnds(r)
      PROVE  RequestInv'
  BY <1>4, UpstreamKeeps, StreamEndsKeeps
<1>5. ASSUME NEW r \in HTTPRequests, Close(r) PROVE RequestInv'
  BY <1>5, OneHandler DEF Close
<1>6. CASE UNCHANGED requestVars
  BY <1>6 DEF requestVars, RequestInv, RegistryOK
<1> QED
  BY <1>1, <1>2, <1>3, <1>4, <1>5, <1>6 DEF RequestNext

LEMMA RequestInvariant == RequestSpec => []RequestInv
BY RequestInitially, RequestInductive, PTL DEF RequestSpec

-----------------------------------------------------------------------------
\* The registry and the handlers are well formed.
\* resolver.ts, pipeline.ts.
THEOREM RequestTypeCorrect == RequestSpec => []RequestTypeOK
<1>1. RequestInv => RequestTypeOK
  <2> SUFFICES ASSUME RequestInv, NEW r \in HTTPRequests, request[r] # NoRequest
               PROVE  /\ request[r].phase \in HandlerPhases
                      /\ request[r].ran \subseteq DOMAIN request[r].endpoint.policies
                      /\ request[r].failed \subseteq request[r].ran
                      /\ request[r].client \in request[r].ran \cup {0}
                      /\ request[r].replies \in 0 .. 2
    BY DEF RequestTypeOK, RequestInv
  <2>1. HandlerOK(request[r])
    BY DEF RequestInv
  <2> QED
    BY <2>1 DEF HandlerOK, HandlerPhases
<1> QED
  BY <1>1, RequestInvariant, PTL

\* Whatever configurations the loader returns, and however snapshots, policies
\* and failures interleave, no request reaches an upstream around a policy.
\* pipeline.ts and the policies.
THEOREM UpstreamGuarded == RequestSpec => []UpstreamIsGuarded
<1>1. RequestInv => UpstreamIsGuarded
  <2> SUFFICES ASSUME RequestInv, NEW r \in HTTPRequests, Forwarded(request[r])
               PROVE  LET h == request[r]
                          order(i) == h.endpoint.policies[i].order
                      IN /\ Enabled(h.endpoint) \subseteq h.ran
                         /\ \A i \in h.failed : ~IsClosed(h, i)
                         /\ Authenticators(h) = IF h.client = 0 THEN {} ELSE {h.client}
                         /\ \A pair \in h.counted : \A i \in Authenticators(h) :
                               /\ order(i) < order(pair[1]) => pair[2] = i
                               /\ order(i) > order(pair[1]) => pair[2] = 0
    BY DEF UpstreamIsGuarded
  <2> DEFINE h == request[r]
  <2>1. IsThrough(h)
    BY DEF Forwarded, RequestInv, HandlerOK
  <2> HIDE DEF h
  <2>2. Authenticators(h) \subseteq h.ran
    BY <2>1 DEF IsThrough, Authenticators
  <2>3. /\ Enabled(h.endpoint) \subseteq h.ran
        /\ \A i \in h.failed : ~IsClosed(h, i)
        /\ Authenticators(h) = IF h.client = 0 THEN {} ELSE {h.client}
        /\ \A pair \in h.counted : \A i \in Authenticators(h) :
              /\ OrderOf(h, i) < OrderOf(h, pair[1]) => pair[2] = i
              /\ OrderOf(h, i) > OrderOf(h, pair[1]) => pair[2] = 0
    BY <2>1, <2>2 DEF IsThrough, Follows, HasKept, HasCounted
  <2> QED
    BY <2>3 DEF h, OrderOf
<1> QED
  BY <1>1, RequestInvariant, PTL

\* An accepted configuration never makes the gateway fail of itself, and every
\* request is answered exactly once.
\* config-validator.ts, server.ts and pipeline.ts.
THEOREM AcceptedServed == RequestSpec => []AcceptedIsServed
<1>1. RequestInv => AcceptedIsServed
  BY DEF RequestInv, AcceptedIsServed, HandlerOK
<1> QED
  BY <1>1, RequestInvariant, PTL
=============================================================================
