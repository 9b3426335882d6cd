----------------------------- MODULE LocalAgent -----------------------------
(***************************************************************************)
(* The loopback agent of gatewayctl (packages/gateway-cli): browsers pair  *)
(* with it by a terminal code, renew sessions by signing challenges, and   *)
(* call its operations, while the command line revokes browsers.           *)
(*                                                                         *)
(* The agent is one Node process: what a handler does between two awaits   *)
(* is one step, and handlers interleave at their awaits, which are the     *)
(* reads and the writes of trusted-clients.json.  The command line is      *)
(* another process that reads and writes the same file; only the mutations *)
(* of one process are queued.                                              *)
(*                                                                         *)
(* Pairings, challenges and session tokens are numbered in the order they  *)
(* are made.  An entry of the file is named by the pairing that made it;   *)
(* `lapsed' holds the pairings whose trust has run out.  A proof is the    *)
(* signature of a browser over an identifier and an agent instance.  Every *)
(* handler begins with cleanup, which drops what has run out, so what runs *)
(* out is dropped here when it does.                                       *)
(***************************************************************************)
EXTENDS Integers, FiniteSets

CONSTANTS Browsers,         \* browser clients, each with its own key
          Handlers,         \* requests the agent handles at once
          Nobody,
          MAX_PAIRINGS, MAX_CODE_ATTEMPTS,
          MaxIds, MaxEvents       \* bounds: ids made, and expiries, revocations, restarts

ASSUME AgentAssumption ==
    /\ Nobody \notin Browsers \cup Handlers
    /\ MaxIds \in Nat /\ MAX_CODE_ATTEMPTS \in Nat

VARIABLES pairings, challenges, tokens,    \* the agent's memory
          tasks, mutating,        \* handlers in progress, the holder of the queue
          trusted,                \* trusted-clients.json
          lapsed,                 \* trust whose expiry has passed
          revoker,                \* `agent clients revoke' in progress
          \* History: proofs verified, registrations and revocations written,
          \* and whether a revocation ever overlapped a write of the agent.
          proved, registered, revocations, overlapped,
          warm,                   \* calls whose browser was trusted since they arrived
          lastId, events          \* what the bounds count

memory == <<pairings, challenges, tokens, lastId>>
history == <<proved, registered, revocations, overlapped>>
agentVars == <<memory, tasks, mutating, trusted, lapsed, revoker, history, warm, events>>

Ids == 1..MaxIds
Stranger == [pairing |-> 0, revoked |-> FALSE]
IdleTask == [op |-> "none", step |-> "none", browser |-> Nobody, id |-> 0,
             proof |-> FALSE, seen |-> [b \in Browsers |-> Stranger]]
IdleRevoker == [browser |-> Nobody, seen |-> [b \in Browsers |-> Stranger]]

Without(f, S) == [x \in DOMAIN f \ S |-> f[x]]
With(f, x, v) == [y \in DOMAIN f \cup {x} |-> IF y = x THEN v ELSE f[y]]

\* An entry authorises its browser: known, not revoked and not expired.
Valid(entry, over) == entry.pairing # 0 /\ ~entry.revoked /\ entry.pairing \notin over
Active(entry) == Valid(entry, lapsed)

NextId == lastId + 1

-----------------------------------------------------------------------------
(* Tasks *)

Arrived(h, op, step, b, id, proof) ==
    tasks' = [tasks EXCEPT ![h] = [IdleTask EXCEPT !.op = op, !.step = step, !.browser = b,
                                                   !.id = id, !.proof = proof]]
To(h, step) == tasks' = [tasks EXCEPT ![h].step = step, ![h].seen = IdleTask.seen]
Replied(h) == tasks' = [tasks EXCEPT ![h] = IdleTask]
Is(h, op, step) == tasks[h].op = op /\ tasks[h].step = step

\* The entry of the handler's browser as the handler read it.
Entry(h) == tasks[h].seen[tasks[h].browser]

\* findActive reads the file; the handler goes on with what it read.
LookUpTrust(h) ==
    /\ tasks[h].step = "lookup"
    /\ tasks' = [tasks EXCEPT ![h].step = "found", ![h].seen = trusted]
    /\ UNCHANGED <<memory, mutating, trusted, lapsed, revoker, history>>

-----------------------------------------------------------------------------
(* POST /v1/pairings *)

RequestPairing(h, b) ==
    /\ tasks[h].op = "none"
    /\ Arrived(h, "pair", "lookup", b, 0, FALSE)
    /\ UNCHANGED <<memory, mutating, trusted, lapsed, revoker, history>>

\* The pairings of the browser, but for one asked for long enough ago.
Pending(b) == {p \in DOMAIN pairings : pairings[p].browser = b}
RefusePairing(b) ==
    \/ \E p \in Pending(b) : pairings[p].age = "new"
    \/ Cardinality(DOMAIN pairings \ Pending(b)) >= MAX_PAIRINGS

CreatePairing(h) ==
    /\ Is(h, "pair", "found")
    /\ Replied(h)
    /\ LET b == tasks[h].browser IN
         IF Active(Entry(h))
           THEN UNCHANGED <<pairings, lastId>>
         ELSE IF RefusePairing(b)
           THEN /\ pairings' = IF \E p \in Pending(b) : pairings[p].age = "new"
                                 THEN pairings ELSE Without(pairings, Pending(b))
                /\ UNCHANGED lastId
           ELSE /\ lastId < MaxIds
                /\ lastId' = NextId
                /\ pairings' = With(Without(pairings, Pending(b)), NextId,
                                    [browser |-> b, attempts |-> 0, age |-> "new"])
    /\ UNCHANGED <<challenges, tokens, mutating, trusted, lapsed, revoker, history>>

-----------------------------------------------------------------------------
(* POST /v1/pairings/:id/complete *)

\* Everything up to the registration is one step: the pairing is counted,
\* checked and taken out before the handler waits for the file.  (Attempts
\* are counted up to the limit they are compared with.)
CompletePairing(h, p, code, proof) ==
    /\ tasks[h].op = "none"
    /\ LET tried == [pairings EXCEPT ![p].attempts = IF @ < MAX_CODE_ATTEMPTS THEN @ + 1 ELSE @] IN
         \/ /\ code /\ proof
            /\ pairings' = Without(tried, {p})
            /\ Arrived(h, "approve", "read", pairings[p].browser, p, TRUE)
            /\ proved' = proved \cup {p}
         \/ /\ code /\ ~proof
            /\ pairings' = tried
            /\ UNCHANGED <<tasks, proved>>
         \/ /\ ~code
            /\ pairings' = IF tried[p].attempts >= MAX_CODE_ATTEMPTS
                             THEN Without(tried, {p}) ELSE tried
            /\ UNCHANGED <<tasks, proved>>
    /\ UNCHANGED <<challenges, tokens, lastId, mutating, trusted, lapsed, revoker,
                   registered, revocations, overlapped>>

-----------------------------------------------------------------------------
(* POST /v1/sessions/challenges and POST /v1/sessions *)

RequestChallenge(h, b) ==
    /\ tasks[h].op = "none"
    /\ Arrived(h, "challenge", "lookup", b, 0, FALSE)
    /\ UNCHANGED <<memory, mutating, trusted, lapsed, revoker, history>>

CreateChallenge(h) ==
    /\ Is(h, "challenge", "found")
    /\ Replied(h)
    /\ IF Active(Entry(h))
         THEN /\ lastId < MaxIds
              /\ lastId' = NextId
              /\ challenges' = With(challenges, NextId, tasks[h].browser)
         ELSE UNCHANGED <<challenges, lastId>>
    /\ UNCHANGED <<pairings, tokens, mutating, trusted, lapsed, revoker, history>>

\* completeSession takes the challenge out before it looks the browser up.
OpenChallenge(h, c, proof) ==
    /\ tasks[h].op = "none"
    /\ challenges' = Without(challenges, {c})
    /\ Arrived(h, "session", "lookup", challenges[c], c, proof)
    /\ UNCHANGED <<pairings, tokens, lastId, mutating, trusted, lapsed, revoker, history>>

CheckSession(h) ==
    /\ Is(h, "session", "found")
    /\ IF Active(Entry(h)) /\ tasks[h].proof
         THEN /\ To(h, "read")
              /\ proved' = proved \cup {tasks[h].id}
         ELSE /\ Replied(h)
              /\ UNCHANGED proved
    /\ UNCHANGED <<memory, mutating, trusted, lapsed, revoker, registered, revocations, overlapped>>

IssueSession(h) ==
    /\ tasks[h].step = "issue"
    /\ lastId < MaxIds
    /\ lastId' = NextId
    /\ tokens' = With(tokens, NextId, [browser |-> tasks[h].browser, ticket |-> tasks[h].id])
    /\ Replied(h)
    /\ UNCHANGED <<pairings, challenges, mutating, trusted, lapsed, revoker, history>>

-----------------------------------------------------------------------------
(* POST /v1/rpc *)

ReceiveCall(h, t) ==
    /\ tasks[h].op = "none"
    /\ Arrived(h, "rpc", "lookup", tokens[t].browser, t, FALSE)
    /\ UNCHANGED <<memory, mutating, trusted, lapsed, revoker, history>>

Authorize(h) ==
    /\ Is(h, "rpc", "found")
    /\ IF Active(Entry(h))
         THEN To(h, "body") /\ UNCHANGED tokens
         ELSE Replied(h) /\ tokens' = Without(tokens, {tasks[h].id})
    /\ UNCHANGED <<pairings, challenges, lastId, mutating, trusted, lapsed, revoker,
                   history>>

\* The body is read after the call is authorised, then the operation runs.
Execute(h) ==
    /\ Is(h, "rpc", "body")
    /\ Replied(h)
    /\ UNCHANGED <<memory, mutating, trusted, lapsed, revoker, history>>

-----------------------------------------------------------------------------
(* The mutations of TrustedClientStore: register and touch *)

ReadForMutation(h) ==
    /\ tasks[h].step = "read"
    /\ mutating = Nobody
    /\ mutating' = h
    /\ tasks' = [tasks EXCEPT ![h].step = "write", ![h].seen = trusted]
    /\ overlapped' = (overlapped \/ revoker.browser # Nobody)
    /\ UNCHANGED <<memory, trusted, lapsed, revoker, proved, registered, revocations>>

\* touch changes at most lastSeenAt, and writes all it read in any case.
Touch(h) ==
    /\ Is(h, "session", "write")
    /\ mutating' = Nobody
    /\ trusted' = tasks[h].seen
    /\ To(h, "issue")
    /\ UNCHANGED <<memory, lapsed, revoker, history>>

Register(h) ==
    /\ Is(h, "approve", "write")
    /\ mutating' = Nobody
    /\ LET b == tasks[h].browser IN
         IF Active(Entry(h))
           THEN /\ Replied(h)
                /\ UNCHANGED <<trusted, registered>>
           ELSE /\ trusted' = [tasks[h].seen EXCEPT
                                 ![b] = [pairing |-> tasks[h].id, revoked |-> FALSE]]
                /\ registered' = [registered EXCEPT ![b] = tasks[h].id]
                /\ To(h, "issue")
    /\ UNCHANGED <<memory, lapsed, revoker, proved, revocations, overlapped>>

-----------------------------------------------------------------------------
(* gatewayctl agent clients revoke --id, a process of its own *)

ReadForRevocation(b) ==
    /\ revoker.browser = Nobody
    /\ trusted[b].pairing # 0
    /\ revoker' = [browser |-> b, seen |-> trusted]
    /\ overlapped' = (overlapped \/ mutating # Nobody)
    /\ UNCHANGED <<memory, tasks, mutating, trusted, lapsed, proved, registered, revocations>>

WriteRevocation ==
    /\ revoker.browser # Nobody
    /\ trusted' = [revoker.seen EXCEPT ![revoker.browser].revoked = TRUE]
    /\ revocations' = revocations \cup {revoker.seen[revoker.browser].pairing}
    /\ revoker' = IdleRevoker
    /\ UNCHANGED <<memory, tasks, mutating, lapsed, proved, registered, overlapped>>

-----------------------------------------------------------------------------
(* Time, and the end of the agent's process *)

\* PAIRING_COOLDOWN_MS, then PAIRING_TTL_MS.
AgePairing(p) ==
    /\ pairings' = IF pairings[p].age = "new" THEN [pairings EXCEPT ![p].age = "cool"]
                   ELSE Without(pairings, {p})
    /\ UNCHANGED <<challenges, tokens, lastId, tasks, mutating, trusted, lapsed, revoker, history>>

ExpireChallenge(c) ==
    /\ challenges' = Without(challenges, {c})
    /\ UNCHANGED <<pairings, tokens, lastId, tasks, mutating, trusted, lapsed, revoker, history>>

ExpireToken(t) ==
    /\ tokens' = Without(tokens, {t})
    /\ UNCHANGED <<pairings, challenges, lastId, tasks, mutating, trusted, lapsed, revoker, history>>

\* trustedClientDays after the registration.
LapseTrust(b) ==
    /\ trusted[b].pairing \notin lapsed \cup {0}
    /\ lapsed' = lapsed \cup {trusted[b].pairing}
    /\ UNCHANGED <<memory, tasks, mutating, trusted, revoker, history>>

\* The process ends, at any moment, and is started again.
Restart ==
    /\ pairings' = [p \in {} |-> 0] /\ challenges' = [c \in {} |-> 0] /\ tokens' = [t \in {} |-> 0]
    /\ tasks' = [h \in Handlers |-> IdleTask]
    /\ mutating' = Nobody
    /\ UNCHANGED <<lastId, trusted, lapsed, revoker, history>>

-----------------------------------------------------------------------------
AgentInit ==
    /\ pairings = [p \in {} |-> 0] /\ challenges = [c \in {} |-> 0] /\ tokens = [t \in {} |-> 0]
    /\ lastId = 0 /\ events = 0
    /\ tasks = [h \in Handlers |-> IdleTask] /\ mutating = Nobody
    /\ trusted = [b \in Browsers |-> Stranger] /\ lapsed = {}
    /\ revoker = IdleRevoker
    /\ proved = {} /\ registered = [b \in Browsers |-> 0] /\ revocations = {}
    /\ overlapped = FALSE /\ warm = {}

HandlerStep(h) ==
    \/ \E b \in Browsers : RequestPairing(h, b) \/ RequestChallenge(h, b)
    \/ \E p \in DOMAIN pairings, code, proof \in BOOLEAN : CompletePairing(h, p, code, proof)
    \/ \E c \in DOMAIN challenges, proof \in BOOLEAN : OpenChallenge(h, c, proof)
    \/ \E t \in DOMAIN tokens : ReceiveCall(h, t)
    \/ LookUpTrust(h) \/ CreatePairing(h) \/ CreateChallenge(h) \/ CheckSession(h)
    \/ Authorize(h) \/ Execute(h)
    \/ ReadForMutation(h) \/ Touch(h) \/ Register(h) \/ IssueSession(h)

\* A call is warm when its browser was trusted at some moment since it came.
Warmth ==
    warm' = {h \in Handlers :
               /\ tasks'[h].op = "rpc"
               /\ LET b == tasks'[h].browser IN
                    h \in warm \/ Active(trusted[b]) \/ Valid(trusted'[b], lapsed')}

\* Time runs, trust is revoked, the process stops.
Event ==
    \/ \E b \in Browsers : ReadForRevocation(b) \/ LapseTrust(b)
    \/ \E p \in DOMAIN pairings : AgePairing(p)
    \/ \E c \in DOMAIN challenges : ExpireChallenge(c)
    \/ \E t \in DOMAIN tokens : ExpireToken(t)
    \/ Restart

AgentNext ==
    /\ \/ /\ events < MaxEvents /\ Event
          /\ events' = events + 1
       \/ /\ WriteRevocation \/ \E h \in Handlers : HandlerStep(h)
          /\ UNCHANGED events
    /\ Warmth

AgentSpec == AgentInit /\ [][AgentNext]_agentVars

-----------------------------------------------------------------------------
(* Types *)

Files == [Browsers -> [pairing : 0..MaxIds, revoked : BOOLEAN]]

\* The state's types.
AgentTypeOK ==
    /\ \A f \in {pairings, challenges, tokens} : DOMAIN f \subseteq 1..lastId
    /\ \A p \in DOMAIN pairings :
         pairings[p] \in [browser : Browsers, attempts : 0..MAX_CODE_ATTEMPTS, age : {"new", "cool"}]
    /\ \A c \in DOMAIN challenges : challenges[c] \in Browsers
    /\ \A t \in DOMAIN tokens : tokens[t] \in [browser : Browsers, ticket : Ids]
    /\ tasks \in [Handlers -> [op : {"none", "pair", "approve", "challenge", "session", "rpc"},
                               step : {"none", "lookup", "found", "read", "write", "issue", "body"},
                               browser : Browsers \cup {Nobody}, id : 0..MaxIds,
                               proof : BOOLEAN, seen : Files]]
    /\ mutating \in Handlers \cup {Nobody}
    /\ trusted \in Files
    /\ lapsed \subseteq Ids
    /\ revoker \in [browser : Browsers \cup {Nobody}, seen : Files]
    /\ lastId \in 0..MaxIds

-----------------------------------------------------------------------------
(* Properties *)

\* A session is the answer to one pairing or challenge, whose proof by the
\* browser's key was verified, and no two sessions answer the same one.
SessionsWereProved ==
    /\ \A t \in DOMAIN tokens : tokens[t].ticket \in proved
    /\ \A t, u \in DOMAIN tokens : tokens[t].ticket = tokens[u].ticket => t = u

\* What the file trusts was approved: by the right code, with the proof.
TrustWasApproved == \A b \in Browsers : trusted[b].pairing \in proved \cup {0}

\* Every session stems from a proof of the browser's key, used once, and
\* every browser in the file from an approved pairing (browser-auth.ts:121,
\* :176): concurrent completions of one pairing or challenge, whatever the
\* file holds by then, give one session.
SessionsAreEarned == SessionsWereProved /\ TrustWasApproved

\* A call whose operation is about to run came with a live session, and its
\* browser was trusted at some moment since the call arrived
\* (browser-auth.ts:195): a session outlives a revocation in memory, never in
\* its effect.
CallsWereTrusted == \A h \in Handlers : Is(h, "rpc", "body") => h \in warm

\* What the agent's operations run on: an earned session of a browser that is
\* still trusted when the call arrives.
CallsAreEarned == SessionsAreEarned /\ CallsWereTrusted

\* A revocation, once written, and a registration, once written, stay in
\* trusted-clients.json.
RevocationsStick ==
    \A b \in Browsers : trusted[b].pairing \in revocations => trusted[b].revoked
RegistrationsStick == \A b \in Browsers : trusted[b].pairing = registered[b]

\* As long as no `agent clients revoke' has overlapped a write of the agent,
\* nothing either process wrote is lost, however the agent's own requests
\* overlap (trusted-client-store.ts:115).
OverlapAloneLoses == overlapped \/ (RevocationsStick /\ RegistrationsStick)
=============================================================================
