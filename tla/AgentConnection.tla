--------------------------- MODULE AgentConnection ---------------------------
(***************************************************************************)
(* A tab of the Admin Panel and the local agent (lib/local-agent.ts,       *)
(* lib/use-local-agent.ts): the tab probes for the agent, opens sessions   *)
(* by signing challenges, renews them when they are about to end or are    *)
(* refused, and calls operations.  The agent stops, starts again with a    *)
(* new instance, and forgets the browser when it is revoked; what it       *)
(* answers is LocalAgent seen from outside.                                *)
(*                                                                         *)
(* A dial is the series of requests that ends in a session: of a probe, of *)
(* a press of Connect, and of the renewal of a LocalAgentClient, which the *)
(* calls of that client share.  Clients are numbered as they are made.     *)
(***************************************************************************)
EXTENDS Integers

CONSTANTS MaxClients, MaxInstances, MaxTurns    \* bounds

ASSUME ConnectionAssumption ==
    MaxClients \in Nat /\ MaxInstances \in Nat \ {0} /\ MaxTurns \in Nat

VARIABLES up, inst, trust,      \* the agent: running, its instance, knows the browser
          shown,                \* state.status
          paired,               \* the instance that holds the pairing shown, or 0
          current,              \* clientRef, or 0
          session,              \* the session of each client made
          dial,                 \* dials in progress
          call,                 \* calls in progress: the user's, and the lists dials end with
          turns                 \* stops, expiries and revocations, which MaxTurns bounds

connectionVars == <<up, inst, trust, shown, paired, current, session, dial, call, turns>>
agentSide == <<up, inst, trust, turns>>

Clients == 1..MaxClients
\* A probe and a press of Connect, each a dial and the caller of its list.
probe == -1
connect == 0
Dials == {probe, connect} \cup Clients
\* Callers: those, and the user.
user == 1
Callers == {probe, connect, user}
Unmade == [inst |-> 0, age |-> "over"]
Rest == [step |-> "none", inst |-> 0, from |-> 0]
Silent == [step |-> "none", client |-> 0, again |-> FALSE, ran |-> 0]

\* The agent accepts the session: its own, not over, of a browser it trusts.
Accepted(c) ==
    up /\ trust /\ session[c].inst = inst /\ session[c].age # "over"

At(d, step) == dial[d].step = step
Failures == {"unavailable", "unregistered", "refused"}

-----------------------------------------------------------------------------
(* Calls: rpc, ensureSession *)

\* Waiting for the renewal of its client.
Waits(k, c) == call[k].client = c /\ call[k].step = "renew"

\* A call, with the renewal it starts if none is running.
Renewing(c) ==
    dial' = IF At(c, "none") THEN [dial EXCEPT ![c] = [Rest EXCEPT !.step = "discover"]] ELSE dial

StartCall(k, c) ==
    IF session[c].age = "fresh"
      THEN /\ call' = [call EXCEPT ![k] = [Silent EXCEPT !.step = "send", !.client = c]]
           /\ UNCHANGED dial
      ELSE /\ call' = [call EXCEPT ![k] = [Silent EXCEPT !.step = "renew", !.client = c]]
           /\ Renewing(c)

UserCall ==
    /\ current # 0
    /\ call[user].step = "none"
    /\ StartCall(user, current)
    /\ UNCHANGED <<agentSide, shown, paired, current, session>>

\* The agent answers: it refuses the session before it runs anything.
SendCall(k) ==
    /\ call[k].step = "send"
    /\ LET c == call[k].client IN
         IF Accepted(c)
           THEN /\ call' = [call EXCEPT ![k].step = "answer", ![k].ran = @ + 1]
                /\ UNCHANGED dial
         ELSE IF up /\ ~call[k].again
           THEN /\ call' = [call EXCEPT ![k].step = "renew", ![k].again = TRUE]
                /\ Renewing(c)
           ELSE /\ call' = [call EXCEPT ![k].step = "failed"]
                /\ UNCHANGED dial
    /\ UNCHANGED <<agentSide, shown, paired, current, session>>

\* Mutant: a call that was not answered is sent again.
answerRetried(k) ==
    /\ call[k].step = "answer"
    /\ \/ call' = [call EXCEPT ![k].step = "done"]
       \/ call' = [call EXCEPT ![k].step = IF call[k].again THEN "failed" ELSE "send",
                               ![k].again = TRUE]
    /\ UNCHANGED <<agentSide, shown, paired, current, session, dial>>

\* The answer arrives, or does not in time.
AnswerCall(k) ==
    /\ call[k].step = "answer"
    /\ \E outcome \in {"done", "failed"} : call' = [call EXCEPT ![k].step = outcome]
    /\ UNCHANGED <<agentSide, shown, paired, current, session, dial>>

UserReads ==
    /\ call[user].step \in {"done", "failed"}
    /\ call' = [call EXCEPT ![user] = Silent]
    /\ UNCHANGED <<agentSide, shown, paired, current, session, dial>>

-----------------------------------------------------------------------------
(* Dials: discover, then createTrustedSession *)

Discover(d) ==
    /\ At(d, "discover") /\ up
    /\ dial' = [dial EXCEPT ![d].step = "challenge", ![d].inst = inst]
    /\ UNCHANGED <<agentSide, shown, paired, current, session, call>>

Challenge(d) ==
    /\ At(d, "challenge") /\ up /\ trust
    /\ dial' = [dial EXCEPT ![d].step = "session", ![d].from = inst]
    /\ UNCHANGED <<agentSide, shown, paired, current, session, call>>

\* The proof names the instance discovered, the challenge is in the memory of
\* the instance that made it.
Proves(d) == up /\ trust /\ dial[d].inst = inst /\ dial[d].from = inst

\* How a dial can fail now: no agent, or no answer in time; an unknown
\* browser; a proof or a challenge of another instance.
FailsWith(d, why) ==
    /\ dial[d].step \in {"discover", "challenge", "session"}
    /\ \/ why = "unavailable"
       \/ /\ why = "unregistered"
          /\ up /\ ~trust /\ dial[d].step # "discover"
          /\ At(d, "session") => dial[d].from = inst
       \/ /\ why = "refused"
          /\ up /\ At(d, "session")
          /\ dial[d].from # inst \/ (trust /\ dial[d].inst # inst)

\* The client applyConnected stores, and the list of identities it asks for.
Connected(d) ==
    /\ \E c \in Clients :
         /\ session[c] = Unmade
         /\ \A b \in Clients : b < c => session[b] # Unmade
         /\ session' = [session EXCEPT ![c] = [inst |-> inst, age |-> "fresh"]]
         /\ current' = c
         /\ call' = [call EXCEPT ![d] = [Silent EXCEPT !.step = "send", !.client = c]]
    /\ shown' = "connected"
    /\ dial' = [dial EXCEPT ![d] = [Rest EXCEPT !.step = "list"]]

Opens(d) ==
    /\ d \notin Clients
    /\ At(d, "session") /\ Proves(d)
    /\ Connected(d)
    /\ UNCHANGED <<agentSide, paired>>

\* The status an error is shown as.
Shows(why) == IF why = "unavailable" THEN "unavailable" ELSE "error"

(* Renewals *)

Renewed(c) ==
    /\ At(c, "session") /\ Proves(c)
    /\ session' = [session EXCEPT ![c] = [inst |-> inst, age |-> "fresh"]]
    /\ dial' = [dial EXCEPT ![c] = Rest]
    /\ call' = [k \in Callers |-> IF Waits(k, c) THEN [call[k] EXCEPT !.step = "send"] ELSE call[k]]
    /\ UNCHANGED <<agentSide, shown, paired, current>>

RenewalFails(c) ==
    /\ \E why \in Failures : FailsWith(c, why)
    /\ dial' = [dial EXCEPT ![c] = Rest]
    /\ call' = [k \in Callers |-> IF Waits(k, c) THEN [call[k] EXCEPT !.step = "failed"] ELSE call[k]]
    /\ UNCHANGED <<agentSide, shown, paired, current, session>>

(* Probes: of the timers, of focus, of coming online, of another tab *)

Probe ==
    /\ At(probe, "none")
    /\ shown' = IF shown = "connected" THEN shown ELSE "checking"
    /\ dial' = [dial EXCEPT ![probe] = [Rest EXCEPT !.step = "discover"]]
    /\ UNCHANGED <<agentSide, paired, current, session, call>>

ProbeFails(why) ==
    /\ FailsWith(probe, why)
    /\ current' = 0
    /\ shown' = IF why = "unregistered" THEN "approvalRequired" ELSE Shows(why)
    /\ dial' = [dial EXCEPT ![probe] = Rest]
    /\ UNCHANGED <<agentSide, paired, session, call>>

ProbeLists(why) ==
    /\ At(probe, "list") /\ call[probe].step \in {"done", "failed"}
    /\ IF call[probe].step = "done" THEN UNCHANGED <<current, shown>>
                                      ELSE current' = 0 /\ shown' = Shows(why)
    /\ dial' = [dial EXCEPT ![probe] = Rest]
    /\ call' = [call EXCEPT ![probe] = Silent]
    /\ UNCHANGED <<agentSide, paired, session>>

(* Connect, and the pairing of an unknown browser *)

Connect ==
    /\ At(connect, "none")
    /\ dial' = [dial EXCEPT ![connect] = [Rest EXCEPT !.step = "discover"]]
    /\ UNCHANGED <<agentSide, shown, paired, current, session, call>>

\* Unlike a probe it leaves the client it had.
ConnectFails(why) ==
    /\ FailsWith(connect, why)
    /\ dial' = [dial EXCEPT ![connect] = [Rest EXCEPT !.step =
                  IF why = "unregistered" THEN "pair" ELSE "none"]]
    /\ shown' = IF why = "unregistered" THEN shown ELSE Shows(why)
    /\ UNCHANGED <<agentSide, paired, current, session, call>>

\* requestPairing may be refused: pending, too many, trusted meanwhile.
Pair ==
    /\ At(connect, "pair")
    /\ \/ /\ up /\ ~trust
          /\ shown' = "pairing" /\ paired' = inst
       \/ /\ \E why \in {"unavailable", "refused"} : shown' = Shows(why)
          /\ UNCHANGED paired
    /\ dial' = [dial EXCEPT ![connect] = Rest]
    /\ UNCHANGED <<agentSide, current, session, call>>

\* approvePairing with the terminal's code, while the instance still has the
\* pairing.
Approve ==
    /\ shown = "pairing" /\ At(connect, "none")
    /\ up /\ ~trust /\ paired = inst
    /\ trust' = TRUE /\ paired' = 0
    /\ Connected(connect)
    /\ UNCHANGED <<up, inst, turns>>

\* A failed list shows the pairing again if one was being approved.
ConnectLists(why) ==
    /\ At(connect, "list") /\ call[connect].step \in {"done", "failed"}
    /\ shown' = IF call[connect].step = "done" THEN shown
                ELSE IF why = "approval" THEN "pairing" ELSE Shows(why)
    /\ dial' = [dial EXCEPT ![connect] = Rest]
    /\ call' = [call EXCEPT ![connect] = Silent]
    /\ UNCHANGED <<agentSide, paired, current, session>>

-----------------------------------------------------------------------------
(* The agent *)

Stop ==
    /\ up /\ turns < MaxTurns
    /\ up' = FALSE /\ turns' = turns + 1
    /\ UNCHANGED <<inst, trust, shown, paired, current, session, dial, call>>

Start ==
    /\ ~up /\ inst < MaxInstances
    /\ up' = TRUE /\ inst' = inst + 1
    /\ UNCHANGED <<trust, turns, shown, paired, current, session, dial, call>>

Revoke ==
    /\ trust /\ turns < MaxTurns
    /\ trust' = FALSE /\ turns' = turns + 1
    /\ UNCHANGED <<up, inst, shown, paired, current, session, dial, call>>

\* A session comes within a minute of its end, and ends.
Wane(c) ==
    /\ session[c].age # "over" /\ turns < MaxTurns
    /\ session' = [session EXCEPT ![c].age = IF @ = "fresh" THEN "ending" ELSE "over"]
    /\ turns' = turns + 1
    /\ UNCHANGED <<up, inst, trust, shown, paired, current, dial, call>>

-----------------------------------------------------------------------------
ConnectionInit ==
    /\ up \in BOOLEAN /\ inst = 1 /\ trust \in BOOLEAN
    /\ shown = "checking" /\ paired = 0 /\ current = 0
    /\ session = [c \in Clients |-> Unmade]
    /\ dial = [d \in Dials |-> Rest]
    /\ call = [k \in Callers |-> Silent]
    /\ turns = 0

ConnectionNext ==
    \/ UserCall \/ UserReads \/ Probe \/ Connect \/ Pair \/ Approve
    \/ \E k \in Callers : SendCall(k) \/ AnswerCall(k)
    \/ \E d \in Dials : Discover(d) \/ Challenge(d) \/ Opens(d)
    \/ \E c \in Clients : Renewed(c) \/ RenewalFails(c) \/ Wane(c)
    \/ \E why \in Failures : ProbeFails(why) \/ ConnectFails(why)
    \/ \E why \in {"unavailable", "refused"} : ProbeLists(why)
    \/ \E why \in {"unavailable", "refused", "approval"} : ConnectLists(why)
    \/ Stop \/ Start \/ Revoke

ConnectionSpec == ConnectionInit /\ [][ConnectionNext]_connectionVars

Statuses == {"checking", "unavailable", "approvalRequired", "pairing", "connected", "error"}

\* The state's types.
ConnectionTypeOK ==
    /\ up \in BOOLEAN /\ trust \in BOOLEAN /\ inst \in 1..MaxInstances
    /\ shown \in Statuses /\ paired \in 0..MaxInstances /\ current \in 0..MaxClients
    /\ session \in [Clients -> [inst : 0..MaxInstances, age : {"fresh", "ending", "over"}]]
    /\ dial \in [Dials -> [step : {"none", "discover", "challenge", "session", "list", "pair"},
                           inst : 0..MaxInstances, from : 0..MaxInstances]]
    /\ \A k \in Callers : call[k].step \in {"none", "send", "renew", "answer", "done", "failed"}

\* An operation asked for once runs at most once in the agent, whichever
\* session it is sent with and however often that session is renewed, and has
\* run when it is reported done (local-agent.ts:206): the agent refuses a
\* session before it runs anything, and that is the only answer a call is
\* repeated after.
CallsRunOnce ==
    \A k \in Callers :
        /\ call[k].ran <= 1
        /\ call[k].step = "done" => call[k].ran = 1
=============================================================================
