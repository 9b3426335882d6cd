---------------------------- MODULE AgentProofs -----------------------------
(***************************************************************************)
(* Proofs about gatewayctl's local agent, for every value of the constants:*)
(* the panel's connection to the agent (AgentConnection), the agent's      *)
(* requests and files (LocalAgent) and the identity store                  *)
(* (LocalIdentities).  Each has an inductive invariant of its own.         *)
(***************************************************************************)
EXTENDS LocalAgent, LocalIdentities, AgentConnection, TLAPS

-----------------------------------------------------------------------------
(***************************************************************************)
(* The panel's connection: a call runs at most once, and what is answered ran.*)
(***************************************************************************)

CallSteps == {"none", "send", "renew", "answer", "done", "failed"}
CallRecords == [step : CallSteps, client : Int, again : BOOLEAN, ran : 0..1]

\* What is sent, or waits for a session to be sent with, has not run; what is
\* answered has run once; a failed call may have run or not.
RanBy(k) ==
    /\ call[k].step \in {"none", "send", "renew"} => call[k].ran = 0
    /\ call[k].step \in {"answer", "done"} => call[k].ran = 1

CallInv ==
    /\ call \in [Callers -> CallRecords]
    /\ current \in Int
    /\ \A k \in Callers : RanBy(k)

\* A call that is to be sent, or waits for a renewal, as it is made.
LEMMA NewCall ==
    ASSUME NEW s \in {"send", "renew"}, NEW c \in Int,
           NEW made, made = [Silent EXCEPT !.step = s, !.client = c]
    PROVE  made \in CallRecords /\ made.step = s /\ made.ran = 0
<1>1. [step |-> "none", client |-> 0, again |-> FALSE, ran |-> 0] \in CallRecords
  BY DEF CallRecords, CallSteps
<1>2. /\ Silent \in CallRecords /\ Silent.ran = 0
  BY <1>1 DEF Silent
<1>3. [Silent EXCEPT !.step = s, !.client = c] \in CallRecords
  BY <1>2 DEF CallRecords, CallSteps
<1>4. [Silent EXCEPT !.step = s, !.client = c].ran = 0
      /\ [Silent EXCEPT !.step = s, !.client = c].step = s
  BY <1>2 DEF CallRecords
<1> QED
  BY <1>3, <1>4

LEMMA SilentHolds == Silent \in CallRecords /\ Silent.step = "none" /\ Silent.ran = 0
BY DEF Silent, CallRecords, CallSteps

LEMMA CallersListed == /\ user \in Callers /\ probe \in Callers /\ connect \in Callers
                       /\ \A d \in Dials \ Clients : d \in Callers
BY DEF Callers, Dials

-----------------------------------------------------------------------------
LEMMA ConnectionInitially == ConnectionInit => CallInv
BY SilentHolds DEF ConnectionInit, CallInv, RanBy

\* A step that touches no call and leaves the client, or gives it up.
LEMMA CallsUntouched ==
    ASSUME CallInv, UNCHANGED call, current' = current \/ current' = 0
    PROVE  CallInv'
BY DEF CallInv, RanBy

\* A new call has run nowhere.
LEMMA StartKeeps ==
    ASSUME CallInv, NEW k \in Callers, NEW c \in Int, StartCall(k, c), current' \in Int
    PROVE  CallInv'
<1>1. PICK s \in {"send", "renew"} :
          call' = [call EXCEPT ![k] = [Silent EXCEPT !.step = s, !.client = c]]
  BY DEF StartCall
<1> DEFINE made == [Silent EXCEPT !.step = s, !.client = c]
<1>2. made \in CallRecords /\ made.step \in {"send", "renew"} /\ made.ran = 0
  BY NewCall
<1> HIDE DEF made
<1>3. call' = [call EXCEPT ![k] = made]
  BY <1>1 DEF made
<1> QED
  BY <1>2, <1>3 DEF CallInv, RanBy

\* Only a call in step "send", not run yet, runs; refused, it has not.
LEMMA CallSendKeeps == ASSUME CallInv, NEW k \in Callers, SendCall(k) PROVE CallInv'
<1>1. call[k].step = "send" /\ call[k].ran = 0
  BY DEF SendCall, CallInv, RanBy
<1>2. current' = current
  BY DEF SendCall
<1>3. CASE call' = [call EXCEPT ![k].step = "answer", ![k].ran = @ + 1]
  BY <1>1, <1>2, <1>3 DEF CallInv, RanBy, CallRecords, CallSteps
<1>4. CASE call' = [call EXCEPT ![k].step = "renew", ![k].again = TRUE]
  <2>1. [call[k] EXCEPT !.step = "renew", !.again = TRUE] \in CallRecords
    BY DEF CallInv, CallRecords, CallSteps
  <2>2. call' = [call EXCEPT ![k] = [call[k] EXCEPT !.step = "renew", !.again = TRUE]]
    BY <1>4 DEF CallInv
  <2>3. call'[k].step = "renew" /\ call'[k].ran = 0
    BY <1>1, <2>2 DEF CallInv, CallRecords
  <2> QED
    BY <1>2, <2>1, <2>2, <2>3 DEF CallInv, RanBy
<1>5. CASE call' = [call EXCEPT ![k].step = "failed"]
  BY <1>1, <1>2, <1>5 DEF CallInv, RanBy, CallRecords, CallSteps
<1> QED
  BY <1>3, <1>4, <1>5 DEF SendCall

\* An answer, or its loss, changes nothing about what has run.
LEMMA CallAnswerKeeps == ASSUME CallInv, NEW k \in Callers, AnswerCall(k) PROVE CallInv'
<1>1. PICK s \in {"done", "failed"} : call' = [call EXCEPT ![k].step = s]
  BY DEF AnswerCall
<1>2. call[k].step = "answer" /\ call[k].ran = 1 /\ current' = current
  BY DEF AnswerCall, CallInv, RanBy
<1> QED
  BY <1>1, <1>2 DEF CallInv, RanBy, CallRecords, CallSteps

\* A call whose result was taken is forgotten.
LEMMA ForgottenKeeps ==
    ASSUME CallInv, NEW k \in Callers, call' = [call EXCEPT ![k] = Silent],
           current' = current \/ current' = 0
    PROVE  CallInv'
BY SilentHolds DEF CallInv, RanBy

\* The list a dial ends with is a new call.
LEMMA ConnectedKeeps ==
    ASSUME CallInv, NEW d \in Callers, Connected(d)
    PROVE  CallInv'
<1>1. PICK c \in Clients : /\ current' = c
                           /\ call' = [call EXCEPT ![d] = [Silent EXCEPT !.step = "send", !.client = c]]
  BY DEF Connected
<1>2. c \in Int
  BY DEF Clients
<1> DEFINE made == [Silent EXCEPT !.step = "send", !.client = c]
<1>3. made \in CallRecords /\ made.step = "send" /\ made.ran = 0
  BY <1>2, NewCall
<1> HIDE DEF made
<1>4. call' = [call EXCEPT ![d] = made]
  BY <1>1 DEF made
<1> QED
  BY <1>1, <1>2, <1>3, <1>4 DEF CallInv, RanBy

\* The calls that wait for a renewal are sent, or fail, without having run.
LEMMA RenewalKeeps ==
    ASSUME CallInv, NEW c \in Clients, Renewed(c) \/ RenewalFails(c)
    PROVE  CallInv'
<1>1. PICK s \in {"send", "failed"} :
          call' = [k \in Callers |-> IF Waits(k, c) THEN [call[k] EXCEPT !.step = s] ELSE call[k]]
  BY DEF Renewed, RenewalFails
<1>2. current' = current
  BY DEF Renewed, RenewalFails
<1> QED
  BY <1>1, <1>2 DEF CallInv, RanBy, CallRecords, CallSteps, Waits

-----------------------------------------------------------------------------
LEMMA ConnectionNextKeeps == CallInv /\ [ConnectionNext]_connectionVars => CallInv'
<1> SUFFICES ASSUME CallInv, [ConnectionNext]_connectionVars PROVE CallInv'
  OBVIOUS
<1>1. CASE UserCall
  <2>1. current \in Int /\ current' = current
    BY <1>1 DEF CallInv, UserCall
  <2>2. StartCall(user, current)
    BY <1>1 DEF UserCall
  <2> QED
    BY <2>1, <2>2, StartKeeps, CallersListed
<1>2. CASE UserReads
  <2>1. call' = [call EXCEPT ![user] = Silent] /\ current' = current
    BY <1>2 DEF UserReads
  <2> QED
    BY <2>1, ForgottenKeeps, CallersListed
<1>3. CASE Probe \/ Connect \/ Pair \/ Stop \/ Start \/ Revoke \/ UNCHANGED connectionVars
  <2>1. UNCHANGED <<call, current>>
    BY <1>3 DEF Probe, Connect, Pair, Stop, Start, Revoke, connectionVars
  <2> QED
    BY <2>1, CallsUntouched
<1>4. CASE Approve
  <2>1. Connected(connect)
    BY <1>4 DEF Approve
  <2> QED
    BY <2>1, ConnectedKeeps, CallersListed
<1>5. ASSUME NEW k \in Callers, SendCall(k) \/ AnswerCall(k) PROVE CallInv'
  BY <1>5, CallSendKeeps, CallAnswerKeeps
<1>6. ASSUME NEW d \in Dials, Discover(d) \/ Challenge(d) \/ Opens(d) PROVE CallInv'
  <2>1. CASE Opens(d)
    <3>1. d \in Callers /\ Connected(d)
      BY <2>1, CallersListed DEF Opens
    <3> QED
      BY <3>1, ConnectedKeeps
  <2>2. CASE Discover(d) \/ Challenge(d)
    <3>1. UNCHANGED <<call, current>>
      BY <2>2 DEF Discover, Challenge
    <3> QED
      BY <3>1, CallsUntouched
  <2> QED
    BY <1>6, <2>1, <2>2
<1>7. ASSUME NEW c \in Clients, Renewed(c) \/ RenewalFails(c) \/ Wane(c) PROVE CallInv'
  <2>1. CASE Wane(c)
    <3>1. UNCHANGED <<call, current>>
      BY <2>1 DEF Wane
    <3> QED
      BY <3>1, CallsUntouched
  <2> QED
    BY <1>7, <2>1, RenewalKeeps
<1>8. ASSUME NEW why, ProbeFails(why) \/ ConnectFails(why) PROVE CallInv'
  <2>1. UNCHANGED call /\ (current' = current \/ current' = 0)
    BY <1>8 DEF ProbeFails, ConnectFails
  <2> QED
    BY <2>1, CallsUntouched
<1>9. ASSUME NEW why, ProbeLists(why) \/ ConnectLists(why) PROVE CallInv'
  <2>1. PICK k \in {probe, connect} : call' = [call EXCEPT ![k] = Silent]
    BY <1>9 DEF ProbeLists, ConnectLists
  <2>2. current' = current \/ current' = 0
    BY <1>9 DEF ProbeLists, ConnectLists
  <2> QED
    BY <2>1, <2>2, ForgottenKeeps, CallersListed
<1> QED
  BY <1>1, <1>2, <1>3, <1>4, <1>5, <1>6, <1>7, <1>8, <1>9 DEF ConnectionNext

(* An operation asked for once runs at most once in the agent, and has run *)
(* when it is reported done, whatever sessions, renewals, restarts and     *)
(* revocations come in between.  local-agent.ts:206.                       *)
THEOREM ConnectionRunsOnce == ConnectionSpec => []CallsRunOnce
<1>1. CallInv => CallsRunOnce
  BY DEF CallInv, RanBy, CallRecords, CallSteps, CallsRunOnce
<1> QED
  BY <1>1, ConnectionInitially, ConnectionNextKeeps, PTL DEF ConnectionSpec

\* The types of what the tab shows, of its sessions and of its dials.
DialRecords == [step : {"none", "discover", "challenge", "session", "list", "pair"},
                inst : 0 .. MaxInstances, from : 0 .. MaxInstances]
SessionRecords == [inst : 0 .. MaxInstances, age : {"fresh", "ending", "over"}]

AgentSideOK == up \in BOOLEAN /\ trust \in BOOLEAN /\ inst \in 1 .. MaxInstances
PageOK == shown \in Statuses /\ paired \in 0 .. MaxInstances /\ current \in 0 .. MaxClients
SessionsOK == session \in [Clients -> SessionRecords]
DialsOK == dial \in [Dials -> DialRecords]
LinkOK == AgentSideOK /\ PageOK /\ SessionsOK /\ DialsOK

LEMMA InstanceOfADial == LinkOK => inst \in 0 .. MaxInstances
BY ConnectionAssumption DEF LinkOK, AgentSideOK

LEMMA RestIsADial ==
    /\ Rest \in DialRecords
    /\ \A s \in {"none", "discover", "challenge", "session", "list", "pair"} :
          [Rest EXCEPT !.step = s] \in DialRecords
BY ConnectionAssumption DEF Rest, DialRecords

LEMMA DialSet ==
    ASSUME DialsOK, NEW d, NEW r \in DialRecords PROVE [dial EXCEPT ![d] = r] \in [Dials -> DialRecords]
BY DEF DialsOK

LEMMA RenewingKeeps == ASSUME DialsOK, NEW c, Renewing(c) PROVE DialsOK'
BY RestIsADial, DialSet DEF Renewing, DialsOK

LEMMA ConnectedTyped ==
    ASSUME LinkOK, NEW d, Connected(d) PROVE DialsOK' /\ SessionsOK' /\ shown' \in Statuses /\ current' \in 0 .. MaxClients
<1>1. PICK c \in Clients : session' = [session EXCEPT ![c] = [inst |-> inst, age |-> "fresh"]] /\ current' = c
  BY DEF Connected
<1>2. SessionsOK'
  <2>1. [inst |-> inst, age |-> "fresh"] \in SessionRecords
    BY InstanceOfADial DEF SessionRecords
  <2> QED
    BY <1>1, <2>1 DEF SessionsOK, LinkOK
<1>3. DialsOK'
  <2>1. dial' = [dial EXCEPT ![d] = [Rest EXCEPT !.step = "list"]]
    BY DEF Connected
  <2>2. [Rest EXCEPT !.step = "list"] \in DialRecords
    BY RestIsADial
  <2> QED
    BY <2>1, <2>2, DialSet DEF DialsOK, LinkOK
<1>4. current' \in 0 .. MaxClients
  BY <1>1, ConnectionAssumption DEF Clients
<1> QED
  BY <1>2, <1>3, <1>4 DEF Connected, Statuses

LEMMA LinkInitially == ConnectionInit => LinkOK
<1> SUFFICES ASSUME ConnectionInit PROVE LinkOK
  OBVIOUS
<1>1. Unmade \in SessionRecords
  BY ConnectionAssumption DEF Unmade, SessionRecords
<1> QED
  BY <1>1, RestIsADial, ConnectionAssumption
     DEF ConnectionInit, LinkOK, AgentSideOK, PageOK, SessionsOK, DialsOK, Statuses

LEMMA LinkKeeps == LinkOK /\ [ConnectionNext]_connectionVars => LinkOK'
<1> SUFFICES ASSUME LinkOK, [ConnectionNext]_connectionVars PROVE LinkOK'
  OBVIOUS
<1> USE DEF LinkOK
<1>a. UNCHANGED <<up, inst, trust>> => AgentSideOK'
  BY DEF AgentSideOK
<1>b. UNCHANGED <<shown, paired, current>> => PageOK'
  BY DEF PageOK
<1>c. UNCHANGED session => SessionsOK'
  BY DEF SessionsOK
<1>d. UNCHANGED dial => DialsOK'
  BY DEF DialsOK
<1>e. ASSUME NEW d, NEW r \in DialRecords, dial' = [dial EXCEPT ![d] = r] PROVE DialsOK'
  BY <1>e, DialSet DEF DialsOK
<1>1. CASE UserCall
  <2>1. DialsOK'
    BY <1>1, <1>d, RenewingKeeps DEF UserCall, StartCall
  <2> QED
    BY <1>1, <2>1, <1>a, <1>b, <1>c DEF UserCall, agentSide
<1>2. CASE UserReads \/ UNCHANGED connectionVars
  BY <1>2, <1>a, <1>b, <1>c, <1>d DEF UserReads, agentSide, connectionVars
<1>3. CASE Probe \/ Connect
  <2>1. DialsOK'
    BY <1>3, <1>e, RestIsADial DEF Probe, Connect
  <2>2. PageOK'
    BY <1>3 DEF Probe, Connect, PageOK, Statuses
  <2> QED
    BY <1>3, <2>1, <2>2, <1>a, <1>c DEF Probe, Connect, agentSide
<1>4. CASE Pair
  <2>1. DialsOK'
    BY <1>4, <1>e, RestIsADial DEF Pair
  <2>2. PageOK'
    BY <1>4, InstanceOfADial DEF Pair, PageOK, Statuses, Shows
  <2> QED
    BY <1>4, <2>1, <2>2, <1>a, <1>c DEF Pair, agentSide
<1>5. CASE Approve
  <2>1. Connected(connect) /\ paired' = 0 /\ trust' = TRUE /\ UNCHANGED <<up, inst>>
    BY <1>5 DEF Approve
  <2> QED
    BY <2>1, ConnectedTyped, ConnectionAssumption DEF AgentSideOK, PageOK
<1>6. ASSUME NEW k \in Callers, SendCall(k) \/ AnswerCall(k) PROVE LinkOK'
  <2>1. DialsOK'
    BY <1>6, <1>d, RenewingKeeps DEF SendCall, AnswerCall
  <2> QED
    BY <1>6, <2>1, <1>a, <1>b, <1>c DEF SendCall, AnswerCall, agentSide
<1>7. ASSUME NEW d \in Dials, Discover(d) \/ Challenge(d) PROVE LinkOK'
  <2>1. dial[d] \in DialRecords
    BY DEF DialsOK
  <2>2. /\ [dial[d] EXCEPT !.step = "challenge", !.inst = inst] \in DialRecords
        /\ [dial[d] EXCEPT !.step = "session", !.from = inst] \in DialRecords
    BY <2>1, InstanceOfADial DEF DialRecords
  <2>3. \/ dial' = [dial EXCEPT ![d] = [dial[d] EXCEPT !.step = "challenge", !.inst = inst]]
        \/ dial' = [dial EXCEPT ![d] = [dial[d] EXCEPT !.step = "session", !.from = inst]]
    BY <1>7 DEF Discover, Challenge, DialsOK
  <2>4. DialsOK'
    BY <2>2, <2>3, <1>e
  <2> QED
    BY <1>7, <2>4, <1>a, <1>b, <1>c DEF Discover, Challenge, agentSide
<1>8. ASSUME NEW d \in Dials, Opens(d) PROVE LinkOK'
  BY <1>8, ConnectedTyped, <1>a DEF Opens, PageOK, agentSide
<1>9. ASSUME NEW c \in Clients, Renewed(c) PROVE LinkOK'
  <2>1. [inst |-> inst, age |-> "fresh"] \in SessionRecords
    BY InstanceOfADial DEF SessionRecords
  <2>2. SessionsOK'
    BY <1>9, <2>1 DEF Renewed, SessionsOK
  <2>3. DialsOK'
    BY <1>9, <1>e, RestIsADial DEF Renewed
  <2> QED
    BY <1>9, <2>2, <2>3, <1>a, <1>b DEF Renewed, agentSide
<1>10. ASSUME NEW c \in Clients, RenewalFails(c) PROVE LinkOK'
  <2>1. DialsOK'
    BY <1>10, <1>e, RestIsADial DEF RenewalFails
  <2> QED
    BY <1>10, <2>1, <1>a, <1>b, <1>c DEF RenewalFails, agentSide
<1>11. ASSUME NEW c \in Clients, Wane(c) PROVE LinkOK'
  <2>1. session[c] \in SessionRecords
    BY DEF SessionsOK
  <2>2. \E age \in {"ending", "over"} : session' = [session EXCEPT ![c] = [session[c] EXCEPT !.age = age]]
    BY <1>11 DEF Wane, SessionsOK
  <2>3. \A age \in {"ending", "over"} : [session[c] EXCEPT !.age = age] \in SessionRecords
    BY <2>1 DEF SessionRecords
  <2>4. SessionsOK'
    BY <2>2, <2>3 DEF SessionsOK
  <2> QED
    BY <1>11, <2>4, <1>a, <1>b, <1>d DEF Wane
<1>12. ASSUME NEW why, ProbeFails(why) \/ ConnectFails(why) PROVE LinkOK'
  <2>1. DialsOK'
    BY <1>12, <1>e, RestIsADial DEF ProbeFails, ConnectFails
  <2>2. PageOK'
    BY <1>12, ConnectionAssumption DEF ProbeFails, ConnectFails, PageOK, Statuses, Shows
  <2> QED
    BY <1>12, <2>1, <2>2, <1>a, <1>c DEF ProbeFails, ConnectFails, agentSide
<1>13. ASSUME NEW why, ProbeLists(why) \/ ConnectLists(why) PROVE LinkOK'
  <2>1. DialsOK'
    BY <1>13, <1>e, RestIsADial DEF ProbeLists, ConnectLists
  <2>2. PageOK'
    BY <1>13, ConnectionAssumption DEF ProbeLists, ConnectLists, PageOK, Statuses, Shows
  <2> QED
    BY <1>13, <2>1, <2>2, <1>a, <1>c DEF ProbeLists, ConnectLists, agentSide
<1>14. CASE Stop \/ Start \/ Revoke
  <2>1. up' \in BOOLEAN /\ trust' \in BOOLEAN
    BY <1>14, Zenon DEF Stop, Start, Revoke, AgentSideOK
  <2>2. inst' = inst \/ (inst < MaxInstances /\ inst' = inst + 1)
    BY <1>14 DEF Stop, Start, Revoke
  <2>3. inst' \in 1 .. MaxInstances
    BY <2>2, ConnectionAssumption DEF AgentSideOK
  <2>4. AgentSideOK'
    BY <2>1, <2>3 DEF AgentSideOK
  <2> QED
    BY <1>14, <2>4, <1>b, <1>c, <1>d DEF Stop, Start, Revoke
<1> QED
  BY <1>1, <1>2, <1>3, <1>4, <1>5, <1>6, <1>7, <1>8, <1>9, <1>10, <1>11, <1>12, <1>13, <1>14
     DEF ConnectionNext

LEMMA ConnectionIsTyped == ConnectionSpec => []ConnectionTypeOK
<1>1. CallInv /\ LinkOK => ConnectionTypeOK
  BY DEF CallInv, CallRecords, CallSteps, LinkOK, AgentSideOK, PageOK, SessionsOK, DialsOK,
         SessionRecords, DialRecords, ConnectionTypeOK
<1> QED
  BY <1>1, ConnectionInitially, ConnectionNextKeeps, LinkInitially, LinkKeeps, PTL
     DEF ConnectionSpec

-----------------------------------------------------------------------------
(***************************************************************************)
(* The agent: AgentInv says where every identifier, proof, approval and write*)
(* in flight is.                                                           *)
(***************************************************************************)

TaskOps == {"none", "pair", "approve", "challenge", "session", "rpc"}
TaskSteps == {"none", "lookup", "found", "read", "write", "issue", "body"}
TaskRecords == [op : TaskOps, step : TaskSteps, browser : Browsers \cup {Nobody},
                id : 0 .. MaxIds, proof : BOOLEAN, seen : Files]

\* The steps of each request; the one that is writing holds the queue.
TasksOK ==
    \A h \in Handlers :
        /\ tasks[h].op = "none" => tasks[h].step = "none"
        /\ tasks[h].op \in {"pair", "challenge"} => tasks[h].step \in {"lookup", "found"}
        /\ tasks[h].op = "approve" => tasks[h].step \in {"read", "write", "issue"}
        /\ tasks[h].op = "session" => tasks[h].step \in {"lookup", "found", "read", "write", "issue"}
        /\ tasks[h].op = "rpc" => tasks[h].step \in {"lookup", "found", "body"}
        /\ tasks[h].op # "none" => tasks[h].browser \in Browsers
        /\ tasks[h].step = "write" <=> mutating = h

\* A request that took a pairing or a challenge out holds its identifier.
Holds(h) == tasks[h].op \in {"approve", "session"}
Open == DOMAIN pairings \cup DOMAIN challenges

\* An identifier is in one place: an open pairing or challenge, the request
\* that took it out, or the session that answers it.
TicketsOK ==
    /\ DOMAIN pairings \cap DOMAIN challenges = {}
    /\ \A h \in Handlers : Holds(h) => tasks[h].id \in (1 .. lastId) \ Open
    /\ \A g, h \in Handlers : Holds(g) /\ Holds(h) /\ tasks[g].id = tasks[h].id => g = h
    /\ \A t \in DOMAIN tokens :
          /\ tokens[t].ticket \in (1 .. lastId) \ Open
          /\ \A h \in Handlers : Holds(h) => tasks[h].id # tokens[t].ticket
    /\ \A t, u \in DOMAIN tokens : tokens[t].ticket = tokens[u].ticket => t = u

\* What a session, and a request that will have one, answers was proved.
IsProved(h) ==
    \/ tasks[h].op = "approve"
    \/ tasks[h].op = "session" /\ tasks[h].step \in {"read", "write", "issue"}
ProofsOK ==
    /\ \A t \in DOMAIN tokens : tokens[t].ticket \in proved
    /\ \A h \in Handlers : IsProved(h) => tasks[h].id \in proved

\* The file, and what was read from it, lists approved pairings.
Approved(file) == \A b \in Browsers : file[b].pairing \in proved \cup {0}
FilesOK == Approved(trusted) /\ Approved(revoker.seen) /\ \A h \in Handlers : Approved(tasks[h].seen)

\* A call that found its browser trusted, or is past that, is warm.
WarmOK ==
    \A h \in Handlers :
        /\ Is(h, "rpc", "found") /\ Active(Entry(h)) => h \in warm
        /\ Is(h, "rpc", "body") => h \in warm

\* A pairing nothing was registered or revoked for.
Unwritten(p) == p \notin revocations /\ \A b \in Browsers : registered[b] # p

\* Until a revocation overlaps a write: what a writer read is what the file
\* holds, and a registration is of a pairing that was never written.
KeptInOrder ==
    /\ RevocationsStick /\ RegistrationsStick
    /\ mutating = Nobody \/ revoker.browser = Nobody
    /\ \A h \in Handlers : tasks[h].step = "write" => tasks[h].seen = trusted
    /\ revoker.browser # Nobody =>
          revoker.seen = trusted /\ trusted[revoker.browser].pairing # 0
    /\ revocations \subseteq 1 .. lastId /\ \A b \in Browsers : registered[b] \in 0 .. lastId
    /\ registered = [b \in Browsers |-> registered[b]]
    /\ \A p \in DOMAIN pairings : Unwritten(p)
    /\ \A h \in Handlers :
          tasks[h].op = "approve" /\ tasks[h].step \in {"read", "write"} => Unwritten(tasks[h].id)
    /\ \A b, c \in Browsers : registered[b] = registered[c] /\ registered[b] # 0 => b = c

KeptOK == overlapped \/ KeptInOrder

AgentCore == AgentTypeOK /\ TasksOK /\ TicketsOK /\ ProofsOK /\ FilesOK /\ KeptOK

AgentInv == AgentCore /\ WarmOK

-----------------------------------------------------------------------------
(* Functions and records *)

LEMMA WithoutIs ==
    ASSUME NEW f, NEW S
    PROVE  /\ DOMAIN Without(f, S) = DOMAIN f \ S
           /\ \A x \in DOMAIN f \ S : Without(f, S)[x] = f[x]
BY DEF Without

LEMMA WithIs ==
    ASSUME NEW f, NEW x, NEW v
    PROVE  /\ DOMAIN With(f, x, v) = DOMAIN f \cup {x}
           /\ With(f, x, v)[x] = v
           /\ \A y \in DOMAIN f \ {x} : With(f, x, v)[y] = f[y]
BY DEF With

LEMMA TasksTyped == AgentTypeOK => tasks \in [Handlers -> TaskRecords]
BY DEF AgentTypeOK, TaskRecords, TaskOps, TaskSteps

LEMMA NoFile == [b \in Browsers |-> Stranger] \in Files
BY AgentAssumption DEF Files, Stranger

LEMMA IdleIs ==
    /\ IdleTask \in TaskRecords
    /\ IdleTask.op = "none" /\ IdleTask.step = "none" /\ IdleTask.browser = Nobody
    /\ IdleTask.seen = [b \in Browsers |-> Stranger]
BY NoFile, AgentAssumption DEF IdleTask, TaskRecords, TaskOps, TaskSteps

\* The other requests stay as they are.
OnlyTask(h) ==
    /\ tasks' \in [Handlers -> TaskRecords]
    /\ \A g \in Handlers : g # h => tasks'[g] = tasks[g]

LEMMA TaskArrives ==
    ASSUME AgentTypeOK, NEW h \in Handlers, NEW op \in TaskOps, NEW step \in TaskSteps,
           NEW b \in Browsers, NEW id \in 0 .. MaxIds, NEW proof \in BOOLEAN,
           Arrived(h, op, step, b, id, proof)
    PROVE  /\ OnlyTask(h)
           /\ tasks'[h].op = op /\ tasks'[h].step = step /\ tasks'[h].browser = b
           /\ tasks'[h].id = id /\ tasks'[h].proof = proof
           /\ tasks'[h].seen = [c \in Browsers |-> Stranger]
<1> DEFINE new == [IdleTask EXCEPT !.op = op, !.step = step, !.browser = b,
                                   !.id = id, !.proof = proof]
<1>1. /\ new \in TaskRecords /\ new.op = op /\ new.step = step /\ new.browser = b
      /\ new.id = id /\ new.proof = proof /\ new.seen = [c \in Browsers |-> Stranger]
  BY IdleIs DEF TaskRecords
<1> HIDE DEF new
<1>2. tasks' = [tasks EXCEPT ![h] = new]
  BY DEF Arrived, new
<1> QED
  BY <1>1, <1>2, TasksTyped DEF OnlyTask

LEMMA TaskMoves ==
    ASSUME AgentTypeOK, NEW h \in Handlers, NEW step \in TaskSteps, NEW seen \in Files,
           tasks' = [tasks EXCEPT ![h].step = step, ![h].seen = seen]
    PROVE  /\ OnlyTask(h)
           /\ tasks'[h].op = tasks[h].op /\ tasks'[h].step = step
           /\ tasks'[h].browser = tasks[h].browser /\ tasks'[h].id = tasks[h].id
           /\ tasks'[h].proof = tasks[h].proof /\ tasks'[h].seen = seen
<1> DEFINE new == [tasks[h] EXCEPT !.step = step, !.seen = seen]
<1>1. tasks[h] \in TaskRecords
  BY TasksTyped
<1>2. /\ new \in TaskRecords /\ new.op = tasks[h].op /\ new.step = step
      /\ new.browser = tasks[h].browser /\ new.id = tasks[h].id
      /\ new.proof = tasks[h].proof /\ new.seen = seen
  BY <1>1 DEF TaskRecords
<1>3. tasks' = [tasks EXCEPT ![h] = new]
  BY TasksTyped
<1> HIDE DEF new
<1> QED
  BY <1>2, <1>3, TasksTyped DEF OnlyTask

LEMMA TaskEnds ==
    ASSUME AgentTypeOK, NEW h \in Handlers, Replied(h)
    PROVE  /\ OnlyTask(h)
           /\ tasks'[h].op = "none" /\ tasks'[h].step = "none"
           /\ tasks'[h].seen = [c \in Browsers |-> Stranger]
BY IdleIs, TasksTyped DEF Replied, OnlyTask

-----------------------------------------------------------------------------
(* What steps of a kind have to show *)

\* Nothing new is open, held or answered.
LEMMA TicketsShrink ==
    ASSUME TicketsOK, lastId \in Nat, lastId' \in Nat, lastId <= lastId',
           DOMAIN pairings' \subseteq DOMAIN pairings,
           DOMAIN challenges' \subseteq DOMAIN challenges,
           \A t \in DOMAIN tokens' : t \in DOMAIN tokens /\ tokens'[t] = tokens[t],
           \A h \in Handlers : Holds(h)' => Holds(h) /\ tasks'[h].id = tasks[h].id
    PROVE  TicketsOK'
BY DEF TicketsOK, Open

\* Nothing is read, written or registered.
LEMMA KeptFrame ==
    ASSUME AgentCore, UNCHANGED <<trusted, registered, revocations, revoker, overlapped>>,
           mutating' \in {mutating, Nobody}, lastId' \in Nat, lastId <= lastId',
           \A p \in DOMAIN pairings' : p \in DOMAIN pairings \/ p = lastId + 1,
           \A h \in Handlers : tasks'[h].step = "write" => tasks'[h] = tasks[h],
           \A h \in Handlers : tasks'[h].op = "approve" /\ tasks'[h].step \in {"read", "write"} =>
              \/ tasks'[h] = tasks[h]
              \/ tasks'[h].id \in DOMAIN pairings
    PROVE  KeptOK'
<1> SUFFICES ASSUME ~overlapped' PROVE KeptInOrder'
  BY DEF KeptOK
<1>1. KeptInOrder /\ lastId \in Nat
  BY DEF AgentCore, KeptOK, AgentTypeOK
<1>2. RevocationsStick' /\ RegistrationsStick'
  BY <1>1 DEF KeptInOrder, RevocationsStick, RegistrationsStick
<1>4. Unwritten(lastId + 1)
  <2>1. lastId + 1 \notin revocations
    BY <1>1 DEF KeptInOrder
  <2>2. \A b \in Browsers : registered[b] # lastId + 1
    BY <1>1 DEF KeptInOrder
  <2> QED
    BY <2>1, <2>2 DEF Unwritten
<1>5. \A p \in DOMAIN pairings' :
         p \notin revocations' /\ \A b \in Browsers : registered'[b] # p
  BY <1>1, <1>4 DEF KeptInOrder, Unwritten
<1>6. ASSUME NEW h \in Handlers, tasks'[h].op = "approve", tasks'[h].step \in {"read", "write"}
      PROVE  tasks'[h].id \notin revocations' /\ \A b \in Browsers : registered'[b] # tasks'[h].id
  <2>1. Unwritten(tasks'[h].id)
    BY <1>1, <1>6 DEF KeptInOrder
  <2> QED
    BY <2>1 DEF Unwritten
<1>7. revocations' \subseteq 1 .. lastId' /\ \A b \in Browsers : registered'[b] \in 0 .. lastId'
  BY <1>1 DEF KeptInOrder
<1>8. mutating' = Nobody \/ revoker'.browser = Nobody
  BY <1>1 DEF KeptInOrder
<1>9. \A h \in Handlers : tasks'[h].step = "write" => tasks'[h].seen = trusted'
  BY <1>1 DEF KeptInOrder
<1> QED
  BY <1>1, <1>2, <1>5, <1>6, <1>7, <1>8, <1>9 DEF KeptInOrder, Unwritten

\* What steps do to calls, and to trust that has run out.
CallMoves(g) ==
    tasks'[g].op = "rpc" =>
        \/ tasks'[g] = tasks[g]
        \/ tasks'[g].step = "lookup"
        \/ /\ tasks[g].op = "rpc" /\ tasks'[g].browser = tasks[g].browser
           /\ tasks'[g].step = "found" /\ tasks'[g].seen = trusted
        \/ Is(g, "rpc", "found") /\ Active(Entry(g)) /\ tasks'[g].step = "body"
CallsStep == lapsed \subseteq lapsed' /\ \A g \in Handlers : CallMoves(g)

LEMMA WarmKeeps ==
    ASSUME AgentCore, WarmOK, CallsStep, Warmth
    PROVE  WarmOK'
<1> SUFFICES ASSUME NEW h \in Handlers
             PROVE  /\ Is(h, "rpc", "found")' /\ Active(Entry(h))' => h \in warm'
                    /\ Is(h, "rpc", "body")' => h \in warm'
  BY DEF WarmOK
<1>1. ASSUME tasks'[h].op = "rpc", h \in warm \/ Active(trusted[tasks'[h].browser])
      PROVE  h \in warm'
  BY <1>1 DEF Warmth
<1>2. ASSUME NEW e, Valid(e, lapsed') PROVE Active(e)
  BY <1>2 DEF CallsStep, Active, Valid
<1>3. ASSUME Is(h, "rpc", "found")', Active(Entry(h))' PROVE h \in warm'
  <2>1. tasks'[h].op = "rpc" /\ tasks'[h].step = "found"
    BY <1>3 DEF Is
  <2>2. Valid(tasks'[h].seen[tasks'[h].browser], lapsed')
    BY <1>3 DEF Active, Entry
  <2>3. Active(tasks'[h].seen[tasks'[h].browser])
    BY <1>2, <2>2
  <2>4. CASE tasks'[h] = tasks[h]
    BY <1>1, <2>1, <2>3, <2>4 DEF WarmOK, Is, Entry
  <2>5. CASE tasks'[h].seen = trusted
    BY <1>1, <2>1, <2>3, <2>5
  <2> QED
    BY <2>1, <2>4, <2>5 DEF CallsStep, CallMoves
<1>4. ASSUME Is(h, "rpc", "body")' PROVE h \in warm'
  <2>1. tasks'[h].op = "rpc" /\ tasks'[h].step = "body"
    BY <1>4 DEF Is
  <2>2. h \in warm
    BY <2>1 DEF CallsStep, CallMoves, WarmOK, Is
  <2> QED
    BY <1>1, <2>1, <2>2
<1> QED
  BY <1>3, <1>4

-----------------------------------------------------------------------------
(* Requests that arrive, and those that end without a change of the file *)

\* The new step of a request that is not to write, nor holds a new ticket.
LEMMA TasksFrame ==
    ASSUME AgentCore, NEW h \in Handlers, OnlyTask(h), UNCHANGED mutating,
           tasks[h].step # "write", tasks'[h].step # "write",
           tasks'[h].op = "none" => tasks'[h].step = "none",
           tasks'[h].op \in {"pair", "challenge"} => tasks'[h].step \in {"lookup", "found"},
           tasks'[h].op = "approve" => tasks'[h].step \in {"read", "issue"},
           tasks'[h].op = "session" => tasks'[h].step \in {"lookup", "found", "read", "issue"},
           tasks'[h].op = "rpc" => tasks'[h].step \in {"lookup", "found", "body"},
           tasks'[h].op # "none" => tasks'[h].browser \in Browsers
    PROVE  TasksOK'
BY DEF AgentCore, TasksOK, OnlyTask

LEMMA FilesFrame ==
    ASSUME AgentCore, NEW h \in Handlers, OnlyTask(h), UNCHANGED <<trusted, revoker>>,
           proved \subseteq proved',
           \/ tasks'[h].seen = tasks[h].seen
           \/ tasks'[h].seen = [c \in Browsers |-> Stranger]
           \/ tasks'[h].seen = trusted
    PROVE  FilesOK'
<1>1. \A f : Approved(f) => \A b \in Browsers : f[b].pairing \in proved' \cup {0}
  BY DEF Approved
<1>2. Approved([c \in Browsers |-> Stranger])
  BY DEF Approved, Stranger
<1>3. \A g \in Handlers : Approved(tasks'[g].seen)
  BY <1>2 DEF AgentCore, FilesOK, OnlyTask
<1>4. Approved(trusted') /\ Approved(revoker'.seen)
  BY DEF AgentCore, FilesOK
<1> QED
  BY <1>1, <1>3, <1>4 DEF FilesOK, Approved

LEMMA AgentAskKeeps ==
    ASSUME AgentCore, NEW h \in Handlers, NEW b \in Browsers,
           RequestPairing(h, b) \/ RequestChallenge(h, b)
    PROVE  AgentCore' /\ CallsStep
<1>1. PICK op \in {"pair", "challenge"}, proof \in BOOLEAN : Arrived(h, op, "lookup", b, 0, proof)
  BY DEF RequestPairing, RequestChallenge
<1>2. /\ tasks[h].op = "none"
      /\ UNCHANGED <<memory, mutating, trusted, lapsed, revoker, history>>
  BY DEF RequestPairing, RequestChallenge
<1>3. AgentTypeOK /\ tasks[h].step = "none"
  BY <1>2 DEF AgentCore, TasksOK
<1>4. /\ OnlyTask(h) /\ tasks'[h].op = op /\ tasks'[h].step = "lookup"
      /\ tasks'[h].browser = b /\ tasks'[h].seen = [c \in Browsers |-> Stranger]
  <2>1. op \in TaskOps /\ "lookup" \in TaskSteps /\ 0 \in 0 .. MaxIds
    BY AgentAssumption DEF TaskOps, TaskSteps
  <2> QED
    BY <1>1, <1>3, <2>1, TaskArrives
<1>5. AgentTypeOK'
  BY <1>2, <1>3, <1>4 DEF AgentTypeOK, OnlyTask, TaskRecords, TaskOps, TaskSteps, memory
<1>6. TasksOK'
  BY <1>2, <1>3, <1>4, TasksFrame
<1>7. TicketsOK'
  BY <1>2, <1>3, <1>4, TicketsShrink DEF AgentCore, Holds, OnlyTask, memory, AgentTypeOK
<1>8. ProofsOK'
  BY <1>2, <1>4 DEF AgentCore, ProofsOK, IsProved, OnlyTask, memory, history
<1>9. FilesOK'
  BY <1>2, <1>4, FilesFrame DEF history
<1>10. KeptOK'
  BY <1>2, <1>3, <1>4, KeptFrame DEF OnlyTask, memory, history, AgentTypeOK
<1>11. CallsStep
  BY <1>2, <1>4 DEF CallsStep, CallMoves, OnlyTask
<1> QED
  BY <1>5, <1>6, <1>7, <1>8, <1>9, <1>10, <1>11 DEF AgentCore

LEMMA ReceiveKeeps ==
    ASSUME AgentCore, NEW h \in Handlers, NEW t \in DOMAIN tokens, ReceiveCall(h, t)
    PROVE  AgentCore' /\ CallsStep
<1>1. /\ tasks[h].op = "none" /\ Arrived(h, "rpc", "lookup", tokens[t].browser, t, FALSE)
      /\ UNCHANGED <<memory, mutating, trusted, lapsed, revoker, history>>
  BY DEF ReceiveCall
<1>2. AgentTypeOK /\ tasks[h].step = "none" /\ tokens[t].browser \in Browsers
  BY <1>1 DEF AgentCore, TasksOK, AgentTypeOK
<1> PICK proof \in BOOLEAN : Arrived(h, "rpc", "lookup", tokens[t].browser, t, proof)
  BY <1>1
<1>3. /\ OnlyTask(h) /\ tasks'[h].op = "rpc" /\ tasks'[h].step = "lookup"
      /\ tasks'[h].browser \in Browsers /\ tasks'[h].seen = [c \in Browsers |-> Stranger]
  <2>1. "rpc" \in TaskOps /\ "lookup" \in TaskSteps /\ t \in 0 .. MaxIds
    BY <1>2, AgentAssumption DEF TaskOps, TaskSteps, AgentTypeOK
  <2> QED
    BY <1>1, <1>2, <2>1, TaskArrives
<1>4. AgentTypeOK'
  BY <1>1, <1>2, <1>3 DEF AgentTypeOK, OnlyTask, TaskRecords, TaskOps, TaskSteps, memory
<1>5. TasksOK'
  BY <1>1, <1>2, <1>3, TasksFrame
<1>6. TicketsOK'
  BY <1>1, <1>2, <1>3, TicketsShrink DEF AgentCore, Holds, OnlyTask, memory, AgentTypeOK
<1>7. ProofsOK'
  BY <1>1, <1>3 DEF AgentCore, ProofsOK, IsProved, OnlyTask, memory, history
<1>8. FilesOK'
  BY <1>1, <1>3, FilesFrame DEF history
<1>9. KeptOK'
  BY <1>1, <1>2, <1>3, KeptFrame DEF OnlyTask, memory, history, AgentTypeOK
<1>10. CallsStep
  BY <1>1, <1>3 DEF CallsStep, CallMoves, OnlyTask
<1> QED
  BY <1>4, <1>5, <1>6, <1>7, <1>8, <1>9, <1>10 DEF AgentCore

\* A challenge that is answered is taken out first.
LEMMA OpenKeeps ==
    ASSUME AgentCore, NEW h \in Handlers, NEW c \in DOMAIN challenges, NEW proof \in BOOLEAN,
           OpenChallenge(h, c, proof)
    PROVE  AgentCore' /\ CallsStep
<1>1. /\ tasks[h].op = "none" /\ Arrived(h, "session", "lookup", challenges[c], c, proof)
      /\ challenges' = Without(challenges, {c})
      /\ UNCHANGED <<pairings, tokens, lastId, mutating, trusted, lapsed, revoker, history>>
  BY DEF OpenChallenge
<1>2. AgentTypeOK /\ tasks[h].step = "none" /\ challenges[c] \in Browsers /\ c \in 1 .. lastId
  BY <1>1 DEF AgentCore, TasksOK, AgentTypeOK
<1>3. /\ OnlyTask(h) /\ tasks'[h].op = "session" /\ tasks'[h].step = "lookup"
      /\ tasks'[h].browser \in Browsers /\ tasks'[h].seen = [d \in Browsers |-> Stranger]
      /\ tasks'[h].id = c
  <2>1. "session" \in TaskOps /\ "lookup" \in TaskSteps /\ c \in 0 .. MaxIds
    BY <1>2, AgentAssumption DEF TaskOps, TaskSteps, AgentTypeOK
  <2> QED
    BY <1>1, <1>2, <2>1, TaskArrives
<1>4. /\ DOMAIN challenges' = DOMAIN challenges \ {c}
      /\ \A d \in DOMAIN challenges' : challenges'[d] = challenges[d]
  BY <1>1 DEF Without
<1>5. AgentTypeOK'
  BY <1>1, <1>2, <1>3, <1>4 DEF AgentTypeOK, OnlyTask, TaskRecords, TaskOps, TaskSteps
<1>6. TasksOK'
  BY <1>1, <1>2, <1>3, TasksFrame
<1>7. TicketsOK'
  <2>1. /\ UNCHANGED <<pairings, tokens, lastId>> /\ ~Holds(h) /\ TicketsOK
        /\ \A g \in Handlers : g # h => tasks'[g] = tasks[g]
    BY <1>1, <1>3 DEF Holds, OnlyTask, AgentCore
  <2>2. Open' = Open \ {c} /\ c \in Open
    BY <1>4, <2>1 DEF Open, TicketsOK
  <2>3. DOMAIN pairings' \cap DOMAIN challenges' = {}
    BY <1>4, <2>1 DEF TicketsOK
  <2> QED
    BY <1>2, <1>3, <2>1, <2>2, <2>3 DEF TicketsOK, Holds
<1>8. ProofsOK'
  BY <1>1, <1>3 DEF AgentCore, ProofsOK, IsProved, OnlyTask, history
<1>9. FilesOK'
  BY <1>1, <1>3, FilesFrame DEF history
<1>10. KeptOK'
  BY <1>1, <1>2, <1>3, KeptFrame DEF OnlyTask, history, AgentTypeOK
<1>11. CallsStep
  BY <1>1, <1>3 DEF CallsStep, CallMoves, OnlyTask
<1> QED
  BY <1>5, <1>6, <1>7, <1>8, <1>9, <1>10, <1>11 DEF AgentCore

\* The pairings once an attempt at p is counted.
Tried(p) ==
    [pairings EXCEPT ![p].attempts = IF @ < MAX_CODE_ATTEMPTS THEN @ + 1 ELSE @]

PairingRecords ==
    [browser : Browsers, attempts : 0 .. MAX_CODE_ATTEMPTS, age : {"new", "cool"}]

LEMMA TriedIs ==
    ASSUME AgentTypeOK, NEW p \in DOMAIN pairings
    PROVE  /\ DOMAIN Tried(p) = DOMAIN pairings
           /\ \A q \in DOMAIN pairings : Tried(p)[q] \in PairingRecords
<1>1. \A q \in DOMAIN pairings : pairings[q] \in PairingRecords
  BY DEF AgentTypeOK, PairingRecords
<1> DEFINE count == IF pairings[p].attempts < MAX_CODE_ATTEMPTS
                      THEN pairings[p].attempts + 1 ELSE pairings[p].attempts
           new == [pairings[p] EXCEPT !.attempts = count]
<1>2. count \in 0 .. MAX_CODE_ATTEMPTS
  BY <1>1, AgentAssumption DEF PairingRecords
<1>3. new \in PairingRecords
  BY <1>1, <1>2 DEF PairingRecords
<1>4. Tried(p) = [pairings EXCEPT ![p] = new]
  BY DEF Tried
<1> HIDE DEF new
<1> QED
  BY <1>1, <1>3, <1>4

\* What a step that changes the open pairings only has to show.
LEMMA PairingsShrink ==
    ASSUME AgentCore, DOMAIN pairings' \subseteq DOMAIN pairings,
           \A p \in DOMAIN pairings' : pairings'[p] \in PairingRecords,
           UNCHANGED <<challenges, tokens, lastId, tasks, mutating, trusted, lapsed, revoker,
                       history>>
    PROVE  AgentCore' /\ CallsStep
<1>1. AgentTypeOK /\ UNCHANGED <<proved, registered, revocations, overlapped>>
  BY DEF AgentCore, history
<1>2. AgentTypeOK'
  BY <1>1 DEF AgentTypeOK, PairingRecords
<1>3. TasksOK' /\ ProofsOK' /\ FilesOK'
  BY <1>1 DEF AgentCore, TasksOK, ProofsOK, IsProved, FilesOK, Approved
<1>4. TicketsOK'
  BY <1>1, TicketsShrink DEF AgentCore, Holds, AgentTypeOK
<1>5. KeptOK'
  BY <1>1, KeptFrame DEF AgentTypeOK
<1>6. CallsStep
  BY DEF CallsStep, CallMoves
<1> QED
  BY <1>2, <1>3, <1>4, <1>5, <1>6 DEF AgentCore

LEMMA CompleteKeeps ==
    ASSUME AgentCore, NEW h \in Handlers, NEW p \in DOMAIN pairings, NEW code \in BOOLEAN,
           NEW proof \in BOOLEAN, CompletePairing(h, p, code, proof)
    PROVE  AgentCore' /\ CallsStep
<1>1. /\ tasks[h].op = "none" /\ AgentTypeOK /\ tasks[h].step = "none"
      /\ UNCHANGED <<challenges, tokens, lastId, mutating, trusted, lapsed, revoker,
                     registered, revocations, overlapped>>
  BY DEF CompletePairing, AgentCore, TasksOK
<1>2. /\ DOMAIN Tried(p) = DOMAIN pairings
      /\ \A q \in DOMAIN pairings : Tried(p)[q] \in PairingRecords
      /\ pairings[p].browser \in Browsers /\ p \in 1 .. lastId
  BY <1>1, TriedIs DEF AgentTypeOK
<1>3. \/ /\ pairings' = Without(Tried(p), {p})
         /\ Arrived(h, "approve", "read", pairings[p].browser, p, TRUE)
         /\ proved' = proved \cup {p}
      \/ /\ pairings' \in {Tried(p), Without(Tried(p), {p})}
         /\ UNCHANGED <<tasks, proved>>
  BY DEF CompletePairing, Tried
<1>4. CASE /\ pairings' \in {Tried(p), Without(Tried(p), {p})}
           /\ UNCHANGED <<tasks, proved>>
  <2>1. DOMAIN pairings' \subseteq DOMAIN pairings
        /\ \A q \in DOMAIN pairings' : pairings'[q] \in PairingRecords
    BY <1>2, <1>4 DEF Without
  <2> QED
    BY <1>1, <1>4, <2>1, PairingsShrink DEF history
<1>5. CASE /\ pairings' = Without(Tried(p), {p})
           /\ Arrived(h, "approve", "read", pairings[p].browser, p, TRUE)
           /\ proved' = proved \cup {p}
  <2> PICK yes \in BOOLEAN : Arrived(h, "approve", "read", pairings[p].browser, p, yes)
    BY <1>5
  <2>1. /\ OnlyTask(h) /\ tasks'[h].op = "approve" /\ tasks'[h].step = "read"
        /\ tasks'[h].browser \in Browsers /\ tasks'[h].seen = [d \in Browsers |-> Stranger]
        /\ tasks'[h].id = p
    <3>1. "approve" \in TaskOps /\ "read" \in TaskSteps /\ p \in 0 .. MaxIds
      BY <1>1, <1>2, AgentAssumption DEF TaskOps, TaskSteps, AgentTypeOK
    <3> QED
      BY <1>1, <1>2, <1>5, <3>1, TaskArrives
  <2>2. DOMAIN pairings' = DOMAIN pairings \ {p}
        /\ \A q \in DOMAIN pairings' : pairings'[q] \in PairingRecords
    BY <1>2, <1>5 DEF Without
  <2>3. AgentTypeOK'
    BY <1>1, <2>1, <2>2 DEF AgentTypeOK, OnlyTask, TaskRecords, TaskOps, TaskSteps, PairingRecords
  <2>4. TasksOK'
    BY <1>1, <2>1, TasksFrame
  <2>5. TicketsOK'
    BY <1>1, <1>2, <2>1, <2>2 DEF AgentCore, TicketsOK, Holds, Open, OnlyTask
  <2>6. ProofsOK'
    BY <1>1, <1>5, <2>1 DEF AgentCore, ProofsOK, IsProved, OnlyTask
  <2>7. FilesOK'
    BY <1>1, <1>5, <2>1, FilesFrame
  <2>8. KeptOK'
    BY <1>1, <2>1, <2>2, KeptFrame DEF OnlyTask, AgentTypeOK
  <2>9. CallsStep
    BY <1>1, <2>1 DEF CallsStep, CallMoves, OnlyTask
  <2> QED
    BY <2>3, <2>4, <2>5, <2>6, <2>7, <2>8, <2>9 DEF AgentCore
<1> QED
  BY <1>3, <1>4, <1>5

\* A request that ends, with nothing new open.
LEMMA EndsKeeps ==
    ASSUME AgentCore, NEW h \in Handlers, Replied(h), tasks[h].step # "write",
           \A f \in {pairings', challenges', tokens'} : DOMAIN f \subseteq 1 .. lastId',
           lastId' \in Nat, lastId <= lastId', lastId' \in 0 .. MaxIds,
           DOMAIN pairings' \subseteq DOMAIN pairings,
           \A p \in DOMAIN pairings' : pairings'[p] = pairings[p],
           DOMAIN tokens' \subseteq DOMAIN tokens,
           \A t \in DOMAIN tokens' : tokens'[t] = tokens[t],
           UNCHANGED <<challenges, mutating, trusted, lapsed, revoker, history>>
    PROVE  AgentCore' /\ CallsStep
<1>1. AgentTypeOK
  BY DEF AgentCore
<1>2. /\ OnlyTask(h) /\ tasks'[h].op = "none" /\ tasks'[h].step = "none"
      /\ tasks'[h].seen = [c \in Browsers |-> Stranger]
  BY <1>1, TaskEnds
<1>3. AgentTypeOK'
  BY <1>1, <1>2 DEF AgentTypeOK, OnlyTask, TaskRecords, TaskOps, TaskSteps
<1>4. TasksOK'
  BY <1>2, TasksFrame
<1>5. TicketsOK'
  <2>1. \A g \in Handlers : Holds(g)' => Holds(g) /\ tasks'[g].id = tasks[g].id
    BY <1>2 DEF Holds, OnlyTask
  <2> QED
    BY <1>1, <2>1, TicketsShrink DEF AgentCore, AgentTypeOK
<1>6. ProofsOK'
  BY <1>2 DEF AgentCore, ProofsOK, IsProved, OnlyTask, history
<1>7. FilesOK'
  BY <1>2, FilesFrame DEF history
<1>8. KeptOK'
  BY <1>2, KeptFrame DEF OnlyTask, history
<1>9. CallsStep
  BY <1>2 DEF CallsStep, CallMoves, OnlyTask
<1> QED
  BY <1>3, <1>4, <1>5, <1>6, <1>7, <1>8, <1>9 DEF AgentCore

LEMMA ExecuteKeeps ==
    ASSUME AgentCore, NEW h \in Handlers, Execute(h)
    PROVE  AgentCore' /\ CallsStep
<1>1. /\ Replied(h) /\ tasks[h].step # "write"
      /\ UNCHANGED <<pairings, challenges, tokens, lastId, mutating, trusted, lapsed, revoker,
                     history>>
  BY DEF Execute, Is, memory
<1>2. AgentTypeOK
  BY DEF AgentCore
<1> QED
  BY <1>1, <1>2, EndsKeeps DEF AgentTypeOK

\* A new pairing has an identifier nothing else has.
LEMMA PairKeeps ==
    ASSUME AgentCore, NEW h \in Handlers, CreatePairing(h)
    PROVE  AgentCore' /\ CallsStep
<1> DEFINE b == tasks[h].browser
           kept == Without(pairings, Pending(b))
           new == [browser |-> b, attempts |-> 0, age |-> "new"]
<1>1. /\ Replied(h) /\ tasks[h].op = "pair" /\ tasks[h].step = "found"
      /\ UNCHANGED <<challenges, tokens, mutating, trusted, lapsed, revoker, history>>
  BY DEF CreatePairing, Is
<1>2. AgentTypeOK /\ b \in Browsers
  BY <1>1 DEF AgentCore, TasksOK
<1>3. \/ pairings' \in {pairings, kept} /\ lastId' = lastId
      \/ lastId < MaxIds /\ lastId' = NextId /\ pairings' = With(kept, NextId, new)
  BY DEF CreatePairing
<1>4. DOMAIN kept \subseteq DOMAIN pairings /\ \A p \in DOMAIN kept : kept[p] = pairings[p]
  BY DEF Without
<1>5. CASE pairings' \in {pairings, kept} /\ lastId' = lastId
  <2>1. DOMAIN pairings' \subseteq DOMAIN pairings
        /\ \A p \in DOMAIN pairings' : pairings'[p] = pairings[p]
    BY <1>4, <1>5
  <2> QED
    BY <1>1, <1>2, <1>5, <2>1, EndsKeeps DEF AgentTypeOK
<1>6. CASE lastId < MaxIds /\ lastId' = NextId /\ pairings' = With(kept, NextId, new)
  <2> HIDE DEF kept
  <2>1. /\ DOMAIN pairings' = DOMAIN kept \cup {lastId + 1}
        /\ \A p \in DOMAIN pairings' : pairings'[p] = IF p = lastId + 1 THEN new ELSE kept[p]
    BY <1>6 DEF With, NextId
  <2>2. new \in PairingRecords
    BY <1>2, AgentAssumption DEF PairingRecords
  <2>3. lastId \in 0 .. MaxIds /\ lastId' = lastId + 1 /\ lastId' \in 0 .. MaxIds
    BY <1>2, <1>6, AgentAssumption DEF AgentTypeOK, NextId
  <2>4. /\ OnlyTask(h) /\ tasks'[h].op = "none" /\ tasks'[h].step = "none"
        /\ tasks'[h].seen = [c \in Browsers |-> Stranger]
    BY <1>1, <1>2, TaskEnds
  <2> HIDE DEF new
  <2>5. AgentTypeOK'
    <3>1. \A f \in {pairings', challenges', tokens'} : DOMAIN f \subseteq 1 .. lastId'
      BY <1>1, <1>2, <1>4, <2>1, <2>3 DEF AgentTypeOK
    <3>2. \A p \in DOMAIN pairings' : pairings'[p] \in PairingRecords
      BY <1>2, <1>4, <2>1, <2>2 DEF AgentTypeOK, PairingRecords
    <3> QED
      BY <1>1, <1>2, <2>3, <2>4, <3>1, <3>2
      DEF AgentTypeOK, OnlyTask, TaskRecords, TaskOps, TaskSteps, PairingRecords
  <2>6. TasksOK'
    BY <1>1, <2>4, TasksFrame
  <2>7. TicketsOK'
    <3>1. UNCHANGED <<challenges, tokens>> /\ TicketsOK /\ lastId \in Nat /\ lastId' = lastId + 1
          /\ \A g \in Handlers : Holds(g)' => Holds(g) /\ tasks'[g].id = tasks[g].id
      BY <1>1, <2>3, <2>4 DEF Holds, OnlyTask, AgentCore
    <3>2. lastId + 1 \notin 1 .. lastId /\ DOMAIN challenges \subseteq 1 .. lastId
      BY <1>2, <2>3 DEF AgentTypeOK
    <3>3. DOMAIN pairings' \subseteq DOMAIN pairings \cup {lastId + 1}
      BY <1>4, <2>1
    <3> QED
      BY <3>1, <3>2, <3>3 DEF TicketsOK, Open
  <2>8. ProofsOK'
    BY <1>1, <2>4 DEF AgentCore, ProofsOK, IsProved, OnlyTask, history
  <2>9. FilesOK'
    BY <1>1, <2>4, FilesFrame DEF history
  <2>10. KeptOK'
    BY <1>1, <1>4, <2>1, <2>3, <2>4, KeptFrame DEF OnlyTask, history
  <2>11. CallsStep
    BY <1>1, <2>4 DEF CallsStep, CallMoves, OnlyTask
  <2> QED
    BY <2>5, <2>6, <2>7, <2>8, <2>9, <2>10, <2>11 DEF AgentCore
<1> QED
  BY <1>3, <1>5, <1>6

LEMMA ChallengeKeeps ==
    ASSUME AgentCore, NEW h \in Handlers, CreateChallenge(h)
    PROVE  AgentCore' /\ CallsStep
<1> DEFINE b == tasks[h].browser
<1>1. /\ Replied(h) /\ tasks[h].op = "challenge" /\ tasks[h].step = "found"
      /\ UNCHANGED <<pairings, tokens, mutating, trusted, lapsed, revoker, history>>
  BY DEF CreateChallenge, Is
<1>2. AgentTypeOK /\ b \in Browsers
  BY <1>1 DEF AgentCore, TasksOK
<1>3. CASE UNCHANGED <<challenges, lastId>>
  BY <1>1, <1>2, <1>3, EndsKeeps DEF AgentTypeOK
<1>4. CASE lastId < MaxIds /\ lastId' = NextId /\ challenges' = With(challenges, NextId, b)
  <2>1. /\ DOMAIN challenges' = DOMAIN challenges \cup {lastId + 1}
        /\ \A c \in DOMAIN challenges' : challenges'[c] = IF c = lastId + 1 THEN b ELSE challenges[c]
    BY <1>4 DEF With, NextId
  <2>2. lastId \in 0 .. MaxIds /\ lastId' = lastId + 1 /\ lastId' \in 0 .. MaxIds
    BY <1>2, <1>4, AgentAssumption DEF AgentTypeOK, NextId
  <2>3. /\ OnlyTask(h) /\ tasks'[h].op = "none" /\ tasks'[h].step = "none"
        /\ tasks'[h].seen = [c \in Browsers |-> Stranger]
    BY <1>1, <1>2, TaskEnds
  <2>4. AgentTypeOK'
    <3>1. \A f \in {pairings', challenges', tokens'} : DOMAIN f \subseteq 1 .. lastId'
      BY <1>1, <1>2, <2>1, <2>2 DEF AgentTypeOK
    <3>2. \A c \in DOMAIN challenges' : challenges'[c] \in Browsers
      BY <1>2, <2>1 DEF AgentTypeOK
    <3> QED
      BY <1>1, <1>2, <2>2, <2>3, <3>1, <3>2
      DEF AgentTypeOK, OnlyTask, TaskRecords, TaskOps, TaskSteps
  <2>5. TasksOK'
    BY <1>1, <2>3, TasksFrame
  <2>6. TicketsOK'
    <3>1. UNCHANGED <<pairings, tokens>> /\ TicketsOK /\ lastId \in Nat /\ lastId' = lastId + 1
          /\ \A g \in Handlers : Holds(g)' => Holds(g) /\ tasks'[g].id = tasks[g].id
      BY <1>1, <2>2, <2>3 DEF Holds, OnlyTask, AgentCore
    <3>2. lastId + 1 \notin 1 .. lastId /\ DOMAIN pairings \subseteq 1 .. lastId
      BY <1>2, <2>2 DEF AgentTypeOK
    <3> QED
      BY <2>1, <3>1, <3>2 DEF TicketsOK, Open
  <2>7. ProofsOK'
    BY <1>1, <2>3 DEF AgentCore, ProofsOK, IsProved, OnlyTask, history
  <2>8. FilesOK'
    BY <1>1, <2>3, FilesFrame DEF history
  <2>9. KeptOK'
    BY <1>1, <2>2, <2>3, KeptFrame DEF OnlyTask, history
  <2>10. CallsStep
    BY <1>1, <2>3 DEF CallsStep, CallMoves, OnlyTask
  <2> QED
    BY <2>4, <2>5, <2>6, <2>7, <2>8, <2>9, <2>10 DEF AgentCore
<1> QED
  BY <1>3, <1>4 DEF CreateChallenge

LEMMA LookUpKeeps ==
    ASSUME AgentCore, NEW h \in Handlers, LookUpTrust(h)
    PROVE  AgentCore' /\ CallsStep
<1>1. /\ tasks[h].step = "lookup"
      /\ UNCHANGED <<memory, mutating, trusted, lapsed, revoker, history>>
  BY DEF LookUpTrust
<1>2. AgentTypeOK /\ trusted \in Files /\ "found" \in TaskSteps
  BY DEF AgentCore, AgentTypeOK, TaskSteps
<1>3. /\ OnlyTask(h)
      /\ tasks'[h].op = tasks[h].op /\ tasks'[h].step = "found"
      /\ tasks'[h].browser = tasks[h].browser /\ tasks'[h].id = tasks[h].id
      /\ tasks'[h].seen = trusted
  BY <1>2, TaskMoves DEF LookUpTrust
<1>4. AgentTypeOK'
  BY <1>1, <1>2, <1>3 DEF AgentTypeOK, OnlyTask, TaskRecords, TaskOps, TaskSteps, memory
<1>5. TasksOK'
  BY <1>1, <1>3, TasksFrame DEF AgentCore, TasksOK
<1>6. TicketsOK'
  <2>1. \A g \in Handlers : Holds(g)' => Holds(g) /\ tasks'[g].id = tasks[g].id
    BY <1>3 DEF Holds, OnlyTask
  <2> QED
    BY <1>1, <1>2, <2>1, TicketsShrink DEF AgentCore, AgentTypeOK, memory
<1>7. ProofsOK'
  BY <1>1, <1>3 DEF AgentCore, ProofsOK, IsProved, OnlyTask, history, memory
<1>8. FilesOK'
  BY <1>1, <1>3, FilesFrame DEF history
<1>9. KeptOK'
  BY <1>1, <1>2, <1>3, KeptFrame DEF OnlyTask, history, memory, AgentTypeOK
<1>10. CallsStep
  BY <1>1, <1>3 DEF CallsStep, CallMoves, OnlyTask
<1> QED
  BY <1>4, <1>5, <1>6, <1>7, <1>8, <1>9, <1>10 DEF AgentCore

\* A request that goes on, having read what it needs.
LEMMA ToIs ==
    ASSUME AgentTypeOK, NEW h \in Handlers, NEW step \in TaskSteps, To(h, step)
    PROVE  /\ OnlyTask(h)
           /\ tasks'[h].op = tasks[h].op /\ tasks'[h].step = step
           /\ tasks'[h].browser = tasks[h].browser /\ tasks'[h].id = tasks[h].id
           /\ tasks'[h].proof = tasks[h].proof
           /\ tasks'[h].seen = [c \in Browsers |-> Stranger]
<1> DEFINE none == IdleTask.seen
<1>1. none \in Files /\ none = [c \in Browsers |-> Stranger]
  BY IdleIs, NoFile
<1>2. tasks' = [tasks EXCEPT ![h].step = step, ![h].seen = none]
  BY DEF To
<1> HIDE DEF none
<1>3. none \in Files
  BY <1>1
<1>4. /\ OnlyTask(h)
      /\ tasks'[h].op = tasks[h].op /\ tasks'[h].step = step
      /\ tasks'[h].browser = tasks[h].browser /\ tasks'[h].id = tasks[h].id
      /\ tasks'[h].proof = tasks[h].proof /\ tasks'[h].seen = none
  BY <1>2, <1>3, TaskMoves
<1> QED
  BY <1>1, <1>4

LEMMA CheckKeeps ==
    ASSUME AgentCore, NEW h \in Handlers, CheckSession(h)
    PROVE  AgentCore' /\ CallsStep
<1>1. /\ tasks[h].op = "session" /\ tasks[h].step = "found"
      /\ UNCHANGED <<memory, mutating, trusted, lapsed, revoker, registered, revocations,
                     overlapped>>
  BY DEF CheckSession, Is
<1>2. AgentTypeOK /\ "read" \in TaskSteps
  BY DEF AgentCore, TaskSteps
<1>3. CASE Replied(h) /\ UNCHANGED proved
  BY <1>1, <1>2, <1>3, EndsKeeps DEF AgentTypeOK, memory, history
<1>4. CASE To(h, "read") /\ proved' = proved \cup {tasks[h].id}
  <2>1. /\ OnlyTask(h)
        /\ tasks'[h].op = "session" /\ tasks'[h].step = "read"
        /\ tasks'[h].browser = tasks[h].browser /\ tasks'[h].id = tasks[h].id
        /\ tasks'[h].seen = [c \in Browsers |-> Stranger]
    BY <1>1, <1>2, <1>4, ToIs
  <2>2. AgentTypeOK'
    BY <1>1, <1>2, <2>1 DEF AgentTypeOK, OnlyTask, TaskRecords, TaskOps, TaskSteps, memory
  <2>3. TasksOK'
    BY <1>1, <2>1, TasksFrame DEF AgentCore, TasksOK
  <2>4. TicketsOK'
    <3>1. \A g \in Handlers : Holds(g)' => Holds(g) /\ tasks'[g].id = tasks[g].id
      BY <1>1, <2>1 DEF Holds, OnlyTask
    <3> QED
      BY <1>1, <1>2, <3>1, TicketsShrink DEF AgentCore, AgentTypeOK, memory
  <2>5. ProofsOK'
    BY <1>1, <1>4, <2>1 DEF AgentCore, ProofsOK, IsProved, OnlyTask, memory
  <2>6. FilesOK'
    BY <1>1, <1>4, <2>1, FilesFrame
  <2>7. KeptOK'
    BY <1>1, <1>2, <2>1, KeptFrame DEF OnlyTask, memory, AgentTypeOK
  <2>8. CallsStep
    BY <1>1, <2>1 DEF CallsStep, CallMoves, OnlyTask
  <2> QED
    BY <2>2, <2>3, <2>4, <2>5, <2>6, <2>7, <2>8 DEF AgentCore
<1> QED
  BY <1>3, <1>4 DEF CheckSession

LEMMA AuthorizeKeeps ==
    ASSUME AgentCore, NEW h \in Handlers, Authorize(h)
    PROVE  AgentCore' /\ CallsStep
<1>1. /\ tasks[h].op = "rpc" /\ tasks[h].step = "found"
      /\ UNCHANGED <<pairings, challenges, lastId, mutating, trusted, lapsed, revoker, history>>
  BY DEF Authorize, Is
<1>2. AgentTypeOK /\ "body" \in TaskSteps
  BY DEF AgentCore, TaskSteps
<1>3. CASE Replied(h) /\ tokens' = Without(tokens, {tasks[h].id})
  <2>1. DOMAIN tokens' \subseteq DOMAIN tokens /\ \A t \in DOMAIN tokens' : tokens'[t] = tokens[t]
    BY <1>3 DEF Without
  <2>2. \A f \in {pairings', challenges', tokens'} : DOMAIN f \subseteq 1 .. lastId'
    BY <1>1, <1>2, <2>1 DEF AgentTypeOK
  <2>3. lastId' \in Nat /\ lastId <= lastId' /\ lastId' \in 0 .. MaxIds
    BY <1>1, <1>2 DEF AgentTypeOK
  <2> QED
    BY <1>1, <1>3, <2>1, <2>2, <2>3, EndsKeeps
<1>4. CASE Active(Entry(h)) /\ To(h, "body") /\ UNCHANGED tokens
  <2>1. /\ OnlyTask(h)
        /\ tasks'[h].op = "rpc" /\ tasks'[h].step = "body"
        /\ tasks'[h].browser = tasks[h].browser
        /\ tasks'[h].seen = [c \in Browsers |-> Stranger]
    BY <1>1, <1>2, <1>4, ToIs
  <2>2. AgentTypeOK'
    BY <1>1, <1>2, <1>4, <2>1 DEF AgentTypeOK, OnlyTask, TaskRecords, TaskOps, TaskSteps
  <2>3. TasksOK'
    BY <1>1, <2>1, TasksFrame DEF AgentCore, TasksOK
  <2>4. TicketsOK'
    <3>1. \A g \in Handlers : Holds(g)' => Holds(g) /\ tasks'[g].id = tasks[g].id
      BY <1>1, <2>1 DEF Holds, OnlyTask
    <3> QED
      BY <1>1, <1>2, <1>4, <3>1, TicketsShrink DEF AgentCore, AgentTypeOK
  <2>5. ProofsOK'
    BY <1>1, <1>4, <2>1 DEF AgentCore, ProofsOK, IsProved, OnlyTask, history
  <2>6. FilesOK'
    BY <1>1, <2>1, FilesFrame DEF history
  <2>7. KeptOK'
    BY <1>1, <1>2, <2>1, KeptFrame DEF OnlyTask, history, AgentTypeOK
  <2>8. CallsStep
    BY <1>1, <1>4, <2>1 DEF CallsStep, CallMoves, OnlyTask, Is
  <2> QED
    BY <2>2, <2>3, <2>4, <2>5, <2>6, <2>7, <2>8 DEF AgentCore
<1> QED
  BY <1>3, <1>4 DEF Authorize

\* The session is the answer to what its request held.
LEMMA IssueKeeps ==
    ASSUME AgentCore, NEW h \in Handlers, IssueSession(h)
    PROVE  AgentCore' /\ CallsStep
<1> DEFINE new == [browser |-> tasks[h].browser, ticket |-> tasks[h].id]
<1>1. /\ tasks[h].step = "issue" /\ lastId < MaxIds /\ lastId' = NextId /\ Replied(h)
      /\ tokens' = With(tokens, NextId, new)
      /\ UNCHANGED <<pairings, challenges, mutating, trusted, lapsed, revoker, history>>
  BY DEF IssueSession
<1>2. AgentTypeOK /\ Holds(h) /\ IsProved(h) /\ tasks[h].browser \in Browsers
  <2>1. tasks[h] \in TaskRecords
    BY TasksTyped DEF AgentCore
  <2> QED
    BY <1>1, <2>1 DEF AgentCore, TasksOK, Holds, IsProved, TaskRecords, TaskOps
<1>3. lastId \in 0 .. MaxIds /\ lastId' = lastId + 1 /\ lastId' \in 0 .. MaxIds
  BY <1>1, <1>2, AgentAssumption DEF AgentTypeOK, NextId
<1>4. tasks[h].id \in 1 .. lastId /\ tasks[h].id \in Ids /\ tasks[h].id \in proved
  BY <1>2, <1>3, AgentAssumption DEF AgentCore, TicketsOK, ProofsOK, Ids
<1>5. new \in [browser : Browsers, ticket : Ids] /\ new.ticket = tasks[h].id
  BY <1>2, <1>4
<1> HIDE DEF new
<1>6. /\ DOMAIN tokens' = DOMAIN tokens \cup {lastId + 1}
      /\ \A t \in DOMAIN tokens' : tokens'[t] = IF t = lastId + 1 THEN new ELSE tokens[t]
  BY <1>1 DEF With, NextId
<1>7. /\ OnlyTask(h) /\ tasks'[h].op = "none" /\ tasks'[h].step = "none"
      /\ tasks'[h].seen = [c \in Browsers |-> Stranger]
  BY <1>1, <1>2, TaskEnds
<1>8. AgentTypeOK'
  <2>1. \A f \in {pairings', challenges', tokens'} : DOMAIN f \subseteq 1 .. lastId'
    BY <1>1, <1>2, <1>3, <1>6 DEF AgentTypeOK
  <2>2. \A t \in DOMAIN tokens' : tokens'[t] \in [browser : Browsers, ticket : Ids]
    BY <1>2, <1>5, <1>6 DEF AgentTypeOK
  <2> QED
    BY <1>1, <1>2, <1>3, <1>7, <2>1, <2>2
    DEF AgentTypeOK, OnlyTask, TaskRecords, TaskOps, TaskSteps
<1>9. TasksOK'
  BY <1>1, <1>7, TasksFrame
<1>10. TicketsOK'
  <2>1. UNCHANGED <<pairings, challenges>> /\ TicketsOK /\ Open' = Open
    BY <1>1 DEF AgentCore, Open
  <2>2. \A g \in Handlers : Holds(g)' => g # h /\ Holds(g) /\ tasks'[g].id = tasks[g].id
    BY <1>7 DEF Holds, OnlyTask
  <2>3. lastId + 1 \notin DOMAIN tokens
    BY <1>2, <1>3 DEF AgentTypeOK
  <2>4. tasks[h].id \notin Open /\ \A t \in DOMAIN tokens : tokens[t].ticket # tasks[h].id
    BY <1>2, <2>1 DEF TicketsOK
  <2>5. \A g \in Handlers : Holds(g)' => tasks'[g].id # tasks[h].id
    BY <1>2, <2>1, <2>2 DEF TicketsOK
  <2>6. \A g \in Handlers : Holds(g)' => tasks'[g].id \in (1 .. lastId') \ Open'
    BY <1>3, <2>1, <2>2 DEF TicketsOK
  <2>7. ASSUME NEW t \in DOMAIN tokens'
        PROVE  /\ tokens'[t].ticket \in (1 .. lastId') \ Open'
               /\ \A g \in Handlers : Holds(g)' => tasks'[g].id # tokens'[t].ticket
    <3>1. CASE t = lastId + 1
      BY <1>3, <1>4, <1>5, <1>6, <2>1, <2>4, <2>5, <3>1
    <3>2. CASE t # lastId + 1
      BY <1>3, <1>6, <2>1, <2>2, <3>2 DEF TicketsOK
    <3> QED
      BY <3>1, <3>2
  <2>8. \A t, u \in DOMAIN tokens' : tokens'[t].ticket = tokens'[u].ticket => t = u
    BY <1>5, <1>6, <2>1, <2>4 DEF TicketsOK
  <2>9. \A g, k \in Handlers : Holds(g)' /\ Holds(k)' /\ tasks'[g].id = tasks'[k].id => g = k
    BY <2>1, <2>2 DEF TicketsOK
  <2> QED
    BY <2>1, <2>6, <2>7, <2>8, <2>9 DEF TicketsOK
<1>11. ProofsOK'
  <2>1. ProofsOK /\ UNCHANGED proved
    BY <1>1 DEF AgentCore, history
  <2>2. \A t \in DOMAIN tokens' : tokens'[t].ticket \in proved
    BY <1>4, <1>5, <1>6, <2>1 DEF ProofsOK
  <2> QED
    BY <1>7, <2>1, <2>2 DEF ProofsOK, IsProved, OnlyTask
<1>12. FilesOK'
  BY <1>1, <1>7, FilesFrame DEF history
<1>13. KeptOK'
  BY <1>1, <1>3, <1>7, KeptFrame DEF OnlyTask, history
<1>14. CallsStep
  BY <1>1, <1>7 DEF CallsStep, CallMoves, OnlyTask
<1> QED
  BY <1>8, <1>9, <1>10, <1>11, <1>12, <1>13, <1>14 DEF AgentCore

-----------------------------------------------------------------------------
(* The file is read and written *)

LEMMA AgentReadKeeps ==
    ASSUME AgentCore, NEW h \in Handlers, ReadForMutation(h)
    PROVE  AgentCore' /\ CallsStep
<1>1. /\ tasks[h].step = "read" /\ mutating = Nobody /\ mutating' = h
      /\ overlapped' = (overlapped \/ revoker.browser # Nobody)
      /\ UNCHANGED <<memory, trusted, lapsed, revoker, proved, registered, revocations>>
  BY DEF ReadForMutation
<1>2. AgentTypeOK /\ trusted \in Files /\ "write" \in TaskSteps
  BY DEF AgentCore, AgentTypeOK, TaskSteps
<1>3. /\ OnlyTask(h)
      /\ tasks'[h].op = tasks[h].op /\ tasks'[h].step = "write"
      /\ tasks'[h].browser = tasks[h].browser /\ tasks'[h].id = tasks[h].id
      /\ tasks'[h].seen = trusted
  BY <1>2, TaskMoves DEF ReadForMutation
<1>4. tasks[h].op \in {"approve", "session"}
  <2>1. tasks[h] \in TaskRecords
    BY <1>2, TasksTyped
  <2> QED
    BY <1>1, <2>1 DEF AgentCore, TasksOK, TaskRecords, TaskOps
<1>5. AgentTypeOK'
  BY <1>1, <1>2, <1>3 DEF AgentTypeOK, OnlyTask, TaskRecords, TaskOps, TaskSteps, memory
<1>6. TasksOK'
  BY <1>1, <1>3, <1>4, AgentAssumption DEF AgentCore, TasksOK, OnlyTask
<1>7. TicketsOK'
  <2>1. \A g \in Handlers : Holds(g)' => Holds(g) /\ tasks'[g].id = tasks[g].id
    BY <1>3 DEF Holds, OnlyTask
  <2> QED
    BY <1>1, <1>2, <2>1, TicketsShrink DEF AgentCore, AgentTypeOK, memory
<1>8. ProofsOK'
  BY <1>1, <1>3 DEF AgentCore, ProofsOK, IsProved, OnlyTask, memory
<1>9. FilesOK'
  BY <1>1, <1>3, FilesFrame
<1>10. KeptOK'
  <2> SUFFICES ASSUME ~overlapped' PROVE KeptInOrder'
    BY DEF KeptOK
  <2>1. KeptInOrder /\ revoker.browser = Nobody
    BY <1>1 DEF AgentCore, KeptOK
  <2>2. UNCHANGED <<trusted, registered, revocations, revoker, pairings, lastId>>
    BY <1>1 DEF memory
  <2>3. \A g \in Handlers : tasks'[g].step = "write" => tasks'[g].seen = trusted'
    BY <1>1, <1>3, <2>1 DEF OnlyTask, KeptInOrder
  <2>4. \A g \in Handlers : tasks'[g].op = "approve" /\ tasks'[g].step \in {"read", "write"} =>
            tasks[g].op = "approve" /\ tasks[g].step \in {"read", "write"}
            /\ tasks'[g].id = tasks[g].id
    BY <1>1, <1>3 DEF OnlyTask
  <2> QED
    BY <2>1, <2>2, <2>3, <2>4 DEF KeptInOrder, Unwritten, RevocationsStick, RegistrationsStick
<1>11. CallsStep
  BY <1>1, <1>3, <1>4 DEF CallsStep, CallMoves, OnlyTask
<1> QED
  BY <1>5, <1>6, <1>7, <1>8, <1>9, <1>10, <1>11 DEF AgentCore

\* What a mutation shows whatever it writes.
LEMMA WriteKeeps ==
    ASSUME AgentCore, NEW h \in Handlers, tasks[h].step = "write", mutating' = Nobody,
           \/ Replied(h)
           \/ To(h, "issue"),
           UNCHANGED <<memory, lapsed, revoker, proved, revocations, overlapped>>,
           trusted' \in Files, Approved(trusted')
    PROVE  /\ AgentTypeOK' /\ TasksOK' /\ TicketsOK' /\ ProofsOK' /\ FilesOK' /\ CallsStep
           /\ OnlyTask(h) /\ tasks'[h].step \in {"none", "issue"} /\ mutating = h
<1>1. AgentTypeOK /\ "issue" \in TaskSteps /\ mutating = h
  BY DEF AgentCore, TaskSteps, TasksOK
<1>2. tasks[h].op \in {"approve", "session"}
  <2>1. tasks[h] \in TaskRecords
    BY <1>1, TasksTyped
  <2> QED
    BY <1>1, <2>1 DEF AgentCore, TasksOK, TaskRecords, TaskOps
<1>3. /\ OnlyTask(h)
      /\ \/ tasks'[h].op = "none" /\ tasks'[h].step = "none"
         \/ /\ tasks'[h].op = tasks[h].op /\ tasks'[h].step = "issue"
            /\ tasks'[h].browser = tasks[h].browser /\ tasks'[h].id = tasks[h].id
      /\ tasks'[h].seen = [c \in Browsers |-> Stranger]
  <2>1. CASE Replied(h)
    BY <1>1, <2>1, TaskEnds
  <2>2. CASE To(h, "issue")
    BY <1>1, <2>2, ToIs
  <2> QED
    BY <2>1, <2>2
<1>4. AgentTypeOK'
  BY <1>1, <1>3 DEF AgentTypeOK, OnlyTask, TaskRecords, TaskOps, TaskSteps, memory
<1>5. TasksOK'
  BY <1>1, <1>2, <1>3, AgentAssumption DEF AgentCore, TasksOK, OnlyTask
<1>6. TicketsOK'
  <2>1. \A g \in Handlers : Holds(g)' => Holds(g) /\ tasks'[g].id = tasks[g].id
    BY <1>3 DEF Holds, OnlyTask
  <2> QED
    BY <1>1, <2>1, TicketsShrink DEF AgentCore, AgentTypeOK, memory
<1>7. ProofsOK'
  BY <1>2, <1>3 DEF AgentCore, ProofsOK, IsProved, OnlyTask, memory
<1>8. FilesOK'
  <2>1. Approved([c \in Browsers |-> Stranger])
    BY DEF Approved, Stranger
  <2>2. \A g \in Handlers : Approved(tasks'[g].seen)
    BY <1>3, <2>1 DEF AgentCore, FilesOK, OnlyTask
  <2>3. Approved(trusted') /\ Approved(revoker'.seen)
    BY DEF AgentCore, FilesOK
  <2> QED
    BY <2>2, <2>3 DEF FilesOK, Approved
<1>9. CallsStep
  BY <1>2, <1>3 DEF CallsStep, CallMoves, OnlyTask
<1> QED
  BY <1>1, <1>3, <1>4, <1>5, <1>6, <1>7, <1>8, <1>9

LEMMA TouchKeeps ==
    ASSUME AgentCore, NEW h \in Handlers, Touch(h)
    PROVE  AgentCore' /\ CallsStep
<1>1. /\ tasks[h].step = "write" /\ tasks[h].op = "session" /\ mutating' = Nobody
      /\ trusted' = tasks[h].seen /\ To(h, "issue")
      /\ UNCHANGED <<memory, lapsed, revoker, proved, registered, revocations, overlapped>>
  BY DEF Touch, Is, history
<1>2. trusted' \in Files /\ Approved(trusted')
  <2>1. tasks[h] \in TaskRecords /\ Approved(tasks[h].seen)
    BY TasksTyped DEF AgentCore, FilesOK
  <2> QED
    BY <1>1, <2>1 DEF TaskRecords
<1>3. /\ AgentTypeOK' /\ TasksOK' /\ TicketsOK' /\ ProofsOK' /\ FilesOK' /\ CallsStep
      /\ OnlyTask(h) /\ tasks'[h].step \in {"none", "issue"} /\ mutating = h
  BY <1>1, <1>2, WriteKeeps
<1>4. KeptOK'
  <2> SUFFICES ASSUME ~overlapped' PROVE KeptOK'
    BY DEF KeptOK
  <2>1. UNCHANGED trusted
    BY <1>1 DEF AgentCore, KeptOK, KeptInOrder
  <2> QED
    BY <1>1, <1>3, <2>1, KeptFrame DEF OnlyTask, memory, AgentTypeOK, AgentCore
<1> QED
  BY <1>3, <1>4 DEF AgentCore

LEMMA RegisterKeeps ==
    ASSUME AgentCore, NEW h \in Handlers, Register(h)
    PROVE  AgentCore' /\ CallsStep
<1> DEFINE b == tasks[h].browser
           p == tasks[h].id
           new == [pairing |-> p, revoked |-> FALSE]
<1>1. /\ tasks[h].step = "write" /\ tasks[h].op = "approve" /\ mutating' = Nobody
      /\ UNCHANGED <<memory, lapsed, revoker, proved, revocations, overlapped>>
  BY DEF Register, Is
<1>2. /\ tasks[h] \in TaskRecords /\ AgentTypeOK /\ b \in Browsers
      /\ Approved(tasks[h].seen) /\ Approved(trusted) /\ p \in proved
      /\ p \in (1 .. lastId) \ Open
  BY <1>1, TasksTyped DEF AgentCore, FilesOK, TasksOK, ProofsOK, IsProved, TicketsOK, Holds
<1>3. CASE Replied(h) /\ UNCHANGED <<trusted, registered>>
  <2>1. /\ AgentTypeOK' /\ TasksOK' /\ TicketsOK' /\ ProofsOK' /\ FilesOK' /\ CallsStep
        /\ OnlyTask(h) /\ tasks'[h].step \in {"none", "issue"} /\ mutating = h
    <3>1. trusted' \in Files /\ Approved(trusted')
      BY <1>1, <1>2, <1>3 DEF AgentTypeOK, Approved
    <3> QED
      BY <1>1, <1>3, <3>1, WriteKeeps
  <2>2. KeptOK'
    BY <1>1, <1>2, <1>3, <2>1, KeptFrame DEF OnlyTask, memory, AgentTypeOK, AgentCore
  <2> QED
    BY <2>1, <2>2 DEF AgentCore
<1>4. CASE /\ trusted' = [tasks[h].seen EXCEPT ![b] = new]
           /\ registered' = [registered EXCEPT ![b] = p]
           /\ To(h, "issue")
  <2>1. new \in [pairing : 0 .. MaxIds, revoked : BOOLEAN] /\ new.pairing = p
    BY <1>2 DEF TaskRecords
  <2> HIDE DEF new
  <2>2. trusted' \in Files
    BY <1>2, <1>4, <2>1 DEF TaskRecords, Files
  <2>3. Approved(trusted')
    BY <1>2, <1>4, <2>1 DEF TaskRecords, Files, Approved
  <2>4. /\ AgentTypeOK' /\ TasksOK' /\ TicketsOK' /\ ProofsOK' /\ FilesOK' /\ CallsStep
        /\ OnlyTask(h) /\ tasks'[h].step \in {"none", "issue"} /\ mutating = h
    BY <1>1, <1>4, <2>2, <2>3, WriteKeeps
  <2>5. KeptOK'
    <3> SUFFICES ASSUME ~overlapped' PROVE KeptInOrder'
      BY DEF KeptOK
    <3>1. /\ KeptInOrder /\ tasks[h].seen = trusted /\ revoker.browser = Nobody /\ Unwritten(p)
          /\ trusted \in Files
      BY <1>1, <1>2, <2>4, AgentAssumption DEF AgentCore, KeptOK, KeptInOrder, AgentTypeOK
    <3>2. /\ UNCHANGED <<revocations, revoker, pairings, lastId>>
          /\ trusted' = [trusted EXCEPT ![b] = new]
      BY <1>1, <1>4, <3>1 DEF memory
    <3>3. \A c \in Browsers : registered'[c] = IF c = b THEN p ELSE registered[c]
      BY <1>4, <3>1 DEF KeptInOrder
    <3>4. \A c \in Browsers : trusted'[c] = IF c = b THEN new ELSE trusted[c]
      BY <3>1, <3>2 DEF Files
    <3>5. RevocationsStick'
      BY <2>1, <3>1, <3>2, <3>4 DEF KeptInOrder, RevocationsStick, Unwritten
    <3>6. RegistrationsStick'
      BY <2>1, <3>1, <3>3, <3>4 DEF KeptInOrder, RegistrationsStick
    <3>7. \A g \in Handlers : tasks'[g].step # "write"
      BY <1>1, <2>4, AgentAssumption DEF TasksOK
    <3>8. /\ \A c \in Browsers : registered'[c] \in 0 .. lastId
          /\ registered' = [c \in Browsers |-> registered'[c]]
      BY <1>2, <1>4, <3>1, <3>3 DEF KeptInOrder
    <3>9. ASSUME NEW q, Unwritten(q), q # p
          PROVE  q \notin revocations' /\ \A c \in Browsers : registered'[c] # q
      BY <3>2, <3>3, <3>9 DEF Unwritten
    <3>10. ASSUME NEW q \in DOMAIN pairings'
           PROVE  q \notin revocations' /\ \A c \in Browsers : registered'[c] # q
      BY <1>2, <3>1, <3>2, <3>9 DEF KeptInOrder, Open
    <3>11. ASSUME NEW g \in Handlers, tasks'[g].op = "approve", tasks'[g].step \in {"read", "write"}
           PROVE  /\ tasks'[g].id \notin revocations'
                  /\ \A c \in Browsers : registered'[c] # tasks'[g].id
      <4>1. g # h /\ tasks'[g] = tasks[g]
        BY <2>4, <3>11 DEF OnlyTask
      <4>2. Unwritten(tasks[g].id) /\ tasks[g].id # p
        BY <1>1, <3>1, <3>11, <4>1 DEF KeptInOrder, AgentCore, TicketsOK, Holds
      <4> QED
        BY <3>9, <4>1, <4>2
    <3>12. \A c, d \in Browsers : registered'[c] = registered'[d] /\ registered'[c] # 0 => c = d
      BY <3>1, <3>3 DEF KeptInOrder, Unwritten
    <3> QED
      BY <1>1, <3>1, <3>2, <3>5, <3>6, <3>7, <3>8, <3>10, <3>11, <3>12 DEF KeptInOrder, Unwritten
  <2> QED
    BY <2>4, <2>5 DEF AgentCore
<1> QED
  BY <1>3, <1>4 DEF Register

-----------------------------------------------------------------------------
(* The command line revokes *)

LEMMA RevocationReadKeeps ==
    ASSUME AgentCore, NEW b \in Browsers, ReadForRevocation(b)
    PROVE  AgentCore' /\ CallsStep
<1>1. /\ revoker.browser = Nobody /\ trusted[b].pairing # 0
      /\ revoker' = [browser |-> b, seen |-> trusted]
      /\ overlapped' = (overlapped \/ mutating # Nobody)
      /\ UNCHANGED <<pairings, challenges, tokens, lastId, tasks, mutating, trusted, lapsed,
                     proved, registered, revocations>>
  BY DEF ReadForRevocation, memory
<1>2. AgentTypeOK'
  BY <1>1 DEF AgentCore, AgentTypeOK
<1>3. TasksOK' /\ TicketsOK' /\ ProofsOK'
  BY <1>1 DEF AgentCore, TasksOK, TicketsOK, ProofsOK, IsProved, Holds, Open
<1>4. FilesOK'
  <2>1. revoker'.seen = trusted
    BY <1>1
  <2> QED
    BY <1>1, <2>1 DEF AgentCore, FilesOK, Approved
<1>5. KeptOK'
  <2> SUFFICES ASSUME ~overlapped' PROVE KeptInOrder'
    BY DEF KeptOK
  <2>1. KeptInOrder /\ mutating = Nobody /\ revoker'.browser = b /\ revoker'.seen = trusted
    BY <1>1 DEF AgentCore, KeptOK
  <2> QED
    BY <1>1, <2>1 DEF KeptInOrder, Unwritten, RevocationsStick, RegistrationsStick
<1>6. CallsStep
  BY <1>1 DEF CallsStep, CallMoves
<1> QED
  BY <1>2, <1>3, <1>4, <1>5, <1>6 DEF AgentCore

LEMMA RevocationWriteKeeps ==
    ASSUME AgentCore, WriteRevocation
    PROVE  AgentCore' /\ CallsStep
<1> DEFINE b == revoker.browser
           old == revoker.seen[b]
           new == [old EXCEPT !.revoked = TRUE]
<1>1. /\ b # Nobody /\ revoker' = IdleRevoker
      /\ trusted' = [revoker.seen EXCEPT ![b].revoked = TRUE]
      /\ revocations' = revocations \cup {old.pairing}
      /\ UNCHANGED <<pairings, challenges, tokens, lastId, tasks, mutating, lapsed,
                     proved, registered, overlapped>>
  BY DEF WriteRevocation, memory
<1>2. /\ b \in Browsers /\ revoker.seen \in Files /\ AgentTypeOK
      /\ old \in [pairing : 0 .. MaxIds, revoked : BOOLEAN]
  BY <1>1 DEF AgentCore, AgentTypeOK, Files
<1>3. /\ new \in [pairing : 0 .. MaxIds, revoked : BOOLEAN]
      /\ new.pairing = old.pairing /\ new.revoked = TRUE
  <2> HIDE DEF old
  <2> QED
    BY <1>2
<1>4. trusted' = [revoker.seen EXCEPT ![b] = new]
  BY <1>1
<1> HIDE DEF new
<1>5. trusted' \in Files /\ \A c \in Browsers : trusted'[c] = IF c = b THEN new ELSE revoker.seen[c]
  BY <1>2, <1>3, <1>4 DEF Files
<1>6. /\ revoker' \in [browser : Browsers \cup {Nobody}, seen : Files]
      /\ revoker'.browser = Nobody /\ revoker'.seen = [c \in Browsers |-> Stranger]
  BY <1>1, NoFile DEF IdleRevoker
<1>7. AgentTypeOK'
  BY <1>1, <1>2, <1>5, <1>6 DEF AgentTypeOK
<1>8. TasksOK' /\ TicketsOK' /\ ProofsOK'
  BY <1>1 DEF AgentCore, TasksOK, TicketsOK, ProofsOK, IsProved, Holds, Open
<1>9. FilesOK'
  <2>1. Approved(revoker.seen) /\ \A h \in Handlers : Approved(tasks[h].seen)
    BY DEF AgentCore, FilesOK
  <2>2. Approved(trusted')
    BY <1>2, <1>3, <1>5, <2>1 DEF Approved
  <2>3. Approved(revoker'.seen)
    BY <1>6 DEF Approved, Stranger
  <2> QED
    BY <1>1, <2>1, <2>2, <2>3 DEF FilesOK, Approved
<1>10. KeptOK'
  <2> SUFFICES ASSUME ~overlapped' PROVE KeptInOrder'
    BY DEF KeptOK
  <2>1. /\ KeptInOrder /\ mutating = Nobody /\ revoker.seen = trusted /\ trusted[b].pairing # 0
        /\ old.pairing = registered[b] /\ registered[b] \in 1 .. lastId
    <3>1. KeptInOrder /\ lastId \in Nat
      BY <1>1, <1>2 DEF AgentCore, KeptOK, AgentTypeOK
    <3>2. registered[b] \in 0 .. lastId /\ registered[b] = trusted[b].pairing
      BY <1>2, <3>1 DEF KeptInOrder, RegistrationsStick
    <3> QED
      BY <1>1, <3>1, <3>2 DEF KeptInOrder
  <2>2. \A c \in Browsers : trusted'[c] = IF c = b THEN new ELSE trusted[c]
    BY <1>5, <2>1
  <2>3. RegistrationsStick'
    BY <1>1, <1>3, <2>1, <2>2 DEF KeptInOrder, RegistrationsStick
  <2>4. RevocationsStick'
    <3> SUFFICES ASSUME NEW c \in Browsers, trusted'[c].pairing \in revocations'
                 PROVE  trusted'[c].revoked
      BY DEF RevocationsStick
    <3>1. CASE c = b
      BY <1>3, <2>2, <3>1
    <3>2. CASE c # b
      <4>1. trusted'[c] = trusted[c] /\ trusted[c].pairing = registered[c]
        BY <2>1, <2>2, <3>2 DEF KeptInOrder, RegistrationsStick
      <4>2. trusted[c].pairing # old.pairing
        BY <1>2, <2>1, <3>2, <4>1 DEF KeptInOrder
      <4> HIDE DEF old
      <4>3. trusted[c].pairing \in revocations
        <5>1. revocations' = revocations \cup {old.pairing}
          BY <1>1
        <5> QED
          BY <4>1, <4>2, <5>1
      <4> QED
        BY <2>1, <4>1, <4>3 DEF KeptInOrder, RevocationsStick
    <3> QED
      BY <3>1, <3>2
  <2>5. \A p : Unwritten(p) => p \notin revocations' /\ \A c \in Browsers : registered'[c] # p
    BY <1>1, <1>2, <2>1 DEF Unwritten
  <2>6. \A h \in Handlers : tasks[h].step # "write"
    BY <2>1, AgentAssumption DEF AgentCore, TasksOK
  <2>7. revocations' \subseteq 1 .. lastId
    BY <1>1, <2>1 DEF KeptInOrder
  <2>8. \A p \in DOMAIN pairings : p \notin revocations' /\ \A c \in Browsers : registered'[c] # p
    BY <2>1, <2>5 DEF KeptInOrder
  <2>9. \A h \in Handlers : tasks[h].op = "approve" /\ tasks[h].step \in {"read", "write"} =>
            /\ tasks[h].id \notin revocations'
            /\ \A c \in Browsers : registered'[c] # tasks[h].id
    BY <2>1, <2>5 DEF KeptInOrder
  <2> QED
    BY <1>1, <1>6, <2>1, <2>3, <2>4, <2>6, <2>7, <2>8, <2>9 DEF KeptInOrder, Unwritten
<1>11. CallsStep
  BY <1>1 DEF CallsStep, CallMoves
<1> QED
  BY <1>7, <1>8, <1>9, <1>10, <1>11 DEF AgentCore

-----------------------------------------------------------------------------
(* Time, and the end of the process *)

LEMMA AgeKeeps ==
    ASSUME AgentCore, NEW p \in DOMAIN pairings, AgePairing(p)
    PROVE  AgentCore' /\ CallsStep
<1>1. \A q \in DOMAIN pairings : pairings[q] \in PairingRecords
  BY DEF AgentCore, AgentTypeOK, PairingRecords
<1> DEFINE new == [pairings[p] EXCEPT !.age = "cool"]
<1>2. new \in PairingRecords
  BY <1>1 DEF PairingRecords
<1>3. pairings' = [pairings EXCEPT ![p] = new] \/ pairings' = Without(pairings, {p})
  BY DEF AgePairing
<1> HIDE DEF new
<1>4. DOMAIN pairings' \subseteq DOMAIN pairings
      /\ \A q \in DOMAIN pairings' : pairings'[q] \in PairingRecords
  BY <1>1, <1>2, <1>3 DEF Without
<1> QED
  BY <1>4, PairingsShrink DEF AgePairing

LEMMA ExpireKeeps ==
    ASSUME AgentCore,
           \/ \E c \in DOMAIN challenges : ExpireChallenge(c)
           \/ \E t \in DOMAIN tokens : ExpireToken(t)
    PROVE  AgentCore' /\ CallsStep
<1>1. /\ DOMAIN challenges' \subseteq DOMAIN challenges
      /\ \A c \in DOMAIN challenges' : challenges'[c] = challenges[c]
      /\ DOMAIN tokens' \subseteq DOMAIN tokens
      /\ \A t \in DOMAIN tokens' : tokens'[t] = tokens[t]
      /\ UNCHANGED <<pairings, lastId, tasks, mutating, trusted, lapsed, revoker, history>>
  BY DEF ExpireChallenge, ExpireToken, Without
<1>2. AgentTypeOK /\ UNCHANGED <<proved, registered, revocations, overlapped>>
  BY <1>1 DEF AgentCore, history
<1>3. AgentTypeOK'
  BY <1>1, <1>2 DEF AgentTypeOK
<1>4. TasksOK' /\ ProofsOK' /\ FilesOK'
  BY <1>1, <1>2 DEF AgentCore, TasksOK, ProofsOK, IsProved, FilesOK, Approved
<1>5. TicketsOK'
  BY <1>1, <1>2, TicketsShrink DEF AgentCore, Holds, AgentTypeOK
<1>6. KeptOK'
  BY <1>1, <1>2, KeptFrame DEF AgentTypeOK
<1>7. CallsStep
  BY <1>1 DEF CallsStep, CallMoves
<1> QED
  BY <1>3, <1>4, <1>5, <1>6, <1>7 DEF AgentCore

LEMMA LapseKeeps ==
    ASSUME AgentCore, NEW b \in Browsers, LapseTrust(b)
    PROVE  AgentCore' /\ CallsStep
<1>1. /\ lapsed' = lapsed \cup {trusted[b].pairing} /\ trusted[b].pairing # 0
      /\ UNCHANGED <<pairings, challenges, tokens, lastId, tasks, mutating, trusted, revoker,
                     proved, registered, revocations, overlapped>>
  BY DEF LapseTrust, memory, history
<1>2. AgentTypeOK'
  <2>1. AgentTypeOK /\ trusted[b].pairing \in 0 .. MaxIds /\ lapsed \subseteq Ids
    BY DEF AgentCore, AgentTypeOK, Files
  <2>2. trusted[b].pairing \in Ids
    BY <1>1, <2>1, AgentAssumption DEF Ids
  <2>3. lapsed' \subseteq Ids
    BY <1>1, <2>1, <2>2
  <2> QED
    BY <1>1, <2>1, <2>3 DEF AgentTypeOK
<1>3. TasksOK' /\ TicketsOK' /\ ProofsOK' /\ FilesOK'
  BY <1>1 DEF AgentCore, TasksOK, TicketsOK, ProofsOK, IsProved, Holds, Open, FilesOK, Approved
<1>4. KeptOK'
  BY <1>1 DEF AgentCore, KeptOK, KeptInOrder, Unwritten, RevocationsStick, RegistrationsStick
<1>5. CallsStep
  BY <1>1 DEF CallsStep, CallMoves
<1> QED
  BY <1>2, <1>3, <1>4, <1>5 DEF AgentCore

LEMMA RestartKeeps == ASSUME AgentCore, Restart PROVE AgentCore' /\ CallsStep
<1>1. /\ DOMAIN pairings' = {} /\ DOMAIN challenges' = {} /\ DOMAIN tokens' = {}
      /\ tasks' = [h \in Handlers |-> IdleTask] /\ mutating' = Nobody
      /\ UNCHANGED <<lastId, trusted, lapsed, revoker, proved, registered, revocations, overlapped>>
  BY DEF Restart, history
<1>2. /\ AgentTypeOK /\ tasks' \in [Handlers -> TaskRecords]
      /\ \A h \in Handlers : /\ tasks'[h].op = "none" /\ tasks'[h].step = "none"
                             /\ tasks'[h].seen = [c \in Browsers |-> Stranger]
  BY <1>1, IdleIs DEF AgentCore
<1>3. AgentTypeOK'
  BY <1>1, <1>2 DEF AgentTypeOK, TaskRecords, TaskOps, TaskSteps
<1>4. TasksOK' /\ TicketsOK' /\ ProofsOK'
  BY <1>1, <1>2, AgentAssumption DEF TasksOK, TicketsOK, ProofsOK, IsProved, Holds, Open
<1>5. FilesOK'
  BY <1>1, <1>2 DEF AgentCore, FilesOK, Approved, Stranger
<1>6. KeptOK'
  BY <1>1, <1>2, KeptFrame DEF AgentTypeOK
<1>7. CallsStep
  BY <1>1, <1>2 DEF CallsStep, CallMoves
<1> QED
  BY <1>3, <1>4, <1>5, <1>6, <1>7 DEF AgentCore

-----------------------------------------------------------------------------
LEMMA AgentInitially == AgentInit => AgentInv
<1> SUFFICES ASSUME AgentInit PROVE AgentInv
  OBVIOUS
<1>1. /\ DOMAIN pairings = {} /\ DOMAIN challenges = {} /\ DOMAIN tokens = {} /\ lastId = 0
      /\ tasks \in [Handlers -> TaskRecords] /\ mutating = Nobody /\ lapsed = {}
      /\ trusted = [b \in Browsers |-> Stranger] /\ trusted \in Files
      /\ revoker \in [browser : Browsers \cup {Nobody}, seen : Files]
      /\ revoker.browser = Nobody /\ revoker.seen = trusted
      /\ proved = {} /\ registered = [b \in Browsers |-> 0] /\ revocations = {}
      /\ \A h \in Handlers : /\ tasks[h].op = "none" /\ tasks[h].step = "none"
                             /\ tasks[h].seen = trusted
  BY IdleIs, NoFile DEF AgentInit, IdleRevoker
<1>2. AgentTypeOK
  BY <1>1, AgentAssumption DEF AgentTypeOK, TaskRecords, TaskOps, TaskSteps
<1>3. TasksOK /\ TicketsOK /\ ProofsOK /\ WarmOK
  BY <1>1, AgentAssumption DEF TasksOK, TicketsOK, ProofsOK, IsProved, Holds, Open, WarmOK, Is
<1>4. FilesOK
  BY <1>1 DEF FilesOK, Approved, Stranger
<1>5. KeptOK
  BY <1>1 DEF KeptOK, KeptInOrder, RevocationsStick, RegistrationsStick, Stranger
<1> QED
  BY <1>2, <1>3, <1>4, <1>5 DEF AgentInv, AgentCore

LEMMA HandlerKeeps ==
    ASSUME AgentCore, NEW h \in Handlers, HandlerStep(h)
    PROVE  AgentCore' /\ CallsStep
<1>1. ASSUME NEW b \in Browsers, RequestPairing(h, b) \/ RequestChallenge(h, b)
      PROVE  AgentCore' /\ CallsStep
  BY <1>1, AgentAskKeeps
<1>2. ASSUME NEW p \in DOMAIN pairings, NEW code \in BOOLEAN, NEW proof \in BOOLEAN,
             CompletePairing(h, p, code, proof)
      PROVE  AgentCore' /\ CallsStep
  BY <1>2, CompleteKeeps
<1>3. ASSUME NEW c \in DOMAIN challenges, NEW proof \in BOOLEAN, OpenChallenge(h, c, proof)
      PROVE  AgentCore' /\ CallsStep
  BY <1>3, OpenKeeps
<1>4. ASSUME NEW t \in DOMAIN tokens, ReceiveCall(h, t) PROVE AgentCore' /\ CallsStep
  BY <1>4, ReceiveKeeps
<1>5. CASE LookUpTrust(h) \/ CreatePairing(h) \/ CreateChallenge(h) \/ CheckSession(h)
  BY <1>5, LookUpKeeps, PairKeeps, ChallengeKeeps, CheckKeeps
<1>6. CASE Authorize(h) \/ Execute(h) \/ IssueSession(h)
  BY <1>6, AuthorizeKeeps, ExecuteKeeps, IssueKeeps
<1>7. CASE ReadForMutation(h) \/ Touch(h) \/ Register(h)
  BY <1>7, AgentReadKeeps, TouchKeeps, RegisterKeeps
<1> QED
  BY <1>1, <1>2, <1>3, <1>4, <1>5, <1>6, <1>7 DEF HandlerStep

LEMMA AgentInductive == AgentInv /\ [AgentNext]_agentVars => AgentInv'
<1> SUFFICES ASSUME AgentInv, [AgentNext]_agentVars PROVE AgentInv'
  OBVIOUS
<1> USE DEF AgentInv
<1>1. ASSUME AgentNext PROVE AgentInv'
  <2>1. Warmth
    BY <1>1 DEF AgentNext
  <2>2. ASSUME Event PROVE AgentCore' /\ CallsStep
    BY <2>2, RevocationReadKeeps, AgeKeeps, ExpireKeeps, LapseKeeps, RestartKeeps DEF Event
  <2>3. AgentCore' /\ CallsStep
    BY <1>1, <2>2, RevocationWriteKeeps, HandlerKeeps DEF AgentNext
  <2> QED
    BY <2>1, <2>3, WarmKeeps
<1>2. CASE UNCHANGED agentVars
  <2>1. UNCHANGED <<pairings, challenges, tokens, lastId, tasks, mutating, trusted, lapsed,
                    revoker, proved, registered, revocations, overlapped, warm>>
    BY <1>2 DEF agentVars, memory, history
  <2>2. AgentTypeOK' /\ TasksOK' /\ TicketsOK' /\ ProofsOK'
    BY <2>1 DEF AgentCore, AgentTypeOK, TasksOK, TicketsOK, ProofsOK, IsProved, Holds, Open
  <2>3. FilesOK' /\ WarmOK'
    BY <2>1 DEF AgentCore, FilesOK, Approved, WarmOK, Is, Active, Valid, Entry
  <2>4. KeptOK'
    BY <2>1 DEF AgentCore, KeptOK, KeptInOrder, Unwritten, RevocationsStick, RegistrationsStick
  <2> QED
    BY <2>2, <2>3, <2>4 DEF AgentCore
<1> QED
  BY <1>1, <1>2

LEMMA AgentInvariant == AgentSpec => []AgentInv
BY AgentInitially, AgentInductive, PTL DEF AgentSpec

(* The agent's memory, its requests and its file are well formed.          *)
(* agent.ts, browser-auth.ts and trusted-client-store.ts.                  *)
THEOREM AgentTypeCorrect == AgentSpec => []AgentTypeOK
<1>1. AgentInv => AgentTypeOK
  BY DEF AgentInv, AgentCore
<1> QED
  BY <1>1, AgentInvariant, PTL

(* However completions, renewals, calls, revocations, expiries and         *)
(* restarts interleave, a session answers one proof, the file lists        *)
(* approved browsers only, and no operation runs for a browser that was    *)
(* not trusted since its call arrived.  browser-auth.ts:121, :176, :195.   *)
THEOREM AgentCallsAreEarned == AgentSpec => []CallsAreEarned
<1>1. AgentInv => CallsAreEarned
  BY DEF AgentInv, AgentCore, CallsAreEarned, SessionsAreEarned, SessionsWereProved,
         TrustWasApproved, CallsWereTrusted, TicketsOK, ProofsOK, FilesOK, Approved, WarmOK
<1> QED
  BY <1>1, AgentInvariant, PTL

(* The agent alone never loses what it or the command line wrote: it takes *)
(* a revocation that overlaps a write.  trusted-client-store.ts:115.       *)
THEOREM AgentOverlapAloneLoses == AgentSpec => []OverlapAloneLoses
<1>1. AgentInv => OverlapAloneLoses
  BY DEF AgentInv, AgentCore, OverlapAloneLoses, KeptOK, KeptInOrder
<1> QED
  BY <1>1, AgentInvariant, PTL

-----------------------------------------------------------------------------
(***************************************************************************)
(* The identity store: IdentityInv says what each operation has read, and, *)
(* as long as no two changes overlapped, which files there are.            *)
(***************************************************************************)

OpKinds == {"none", "generate", "import", "remove", "install", "use"}
OpSteps == {"none", "read", "change", "delete", "deleteCertificate", "certificate", "record", "files"}

IsOp(r) == r \in [kind : OpKinds, step : OpSteps, id : {r.id}, owner : {r.owner}, read : {r.read}]

IsManifest(f) == DOMAIN f \subseteq minted /\ \A i \in DOMAIN f : f[i] \in Entries

\* An operation is idle, or about an identity that was made, and goes through
\* the steps of its kind.
OpOK(o) ==
    /\ IsOp(ops[o]) /\ IsManifest(ops[o].read)
    /\ ops[o].kind = "none" => ops[o].step = "none" /\ ops[o].id = NoIdentity
    /\ ops[o].kind # "none" => ops[o].id \in minted
    /\ ops[o].kind = "generate" => ops[o].step \in {"read", "change"}
    /\ ops[o].kind = "import" => ops[o].step = "change"
    /\ ops[o].kind = "remove" => ops[o].step \in {"change", "delete", "deleteCertificate"}
    /\ ops[o].kind = "install" =>
          /\ ops[o].step \in {"change", "certificate", "record"}
          /\ ops[o].owner \in Identities
          /\ ops[o].step # "change" => ops[o].owner = ops[o].id
    /\ ops[o].kind \in {"remove", "install"} => ops[o].id \in DOMAIN ops[o].read
    /\ ops[o].kind = "use" => ops[o].step = "files"

\* The identity an operation makes is its own until it is listed.
FreshOK(o) ==
    ops[o].kind \in {"generate", "import"} =>
        /\ ops[o].id \notin DOMAIN manifest
        /\ \A p \in Operations : ops[o].id \notin DOMAIN ops[p].read
        /\ \A p \in Operations : ops[p].id = ops[o].id => p = o

\* Until two changes overlap the holder has read what the manifest holds, and
\* files are there before they are listed, and go after they are not.
OrderlyOp(o) ==
    /\ o \in Holding => ops[o].read = manifest
    /\ ops[o].kind = "generate" => ops[o].id \in keyFiles
    /\ ops[o].step \in {"delete", "deleteCertificate"} => ops[o].id \notin DOMAIN manifest
    /\ ops[o].step = "record" => ops[o].id \in DOMAIN certificates
Orderly ==
    /\ \A o, p \in Holding : o = p
    /\ \A o \in Operations : OrderlyOp(o)
    /\ NamesAreUnique /\ failed = {} /\ \A i \in DOMAIN manifest : Ready(i)

IdentityInv ==
    /\ ops = [o \in Operations |-> ops[o]]
    /\ IsManifest(manifest) /\ keyFiles \subseteq minted /\ minted \subseteq Identities
    /\ \A i \in DOMAIN certificates : i \in minted /\ certificates[i] = i
    /\ \A o \in Operations : OpOK(o) /\ FreshOK(o)
    /\ crossed \/ Orderly

-----------------------------------------------------------------------------
(* What the steps do to their operation *)

LEMMA IdleIsOp ==
    /\ IsOp(IdleOp) /\ IdleOp.kind = "none" /\ IdleOp.step = "none" /\ IdleOp.id = NoIdentity
    /\ IdleOp.read = NoEntries /\ DOMAIN NoEntries = {}
BY DEF IdleOp, IsOp, OpKinds, OpSteps, NoEntries

OnlyOp(o) ==
    /\ ops' = [p \in Operations |-> ops'[p]]
    /\ \A p \in Operations : p # o => ops'[p] = ops[p]

LEMMA OpFinishes ==
    ASSUME IdentityInv, NEW o \in Operations, Finish(o)
    PROVE  OnlyOp(o) /\ ops'[o] = IdleOp
BY DEF Finish, OnlyOp, IdentityInv

LEMMA OpBegins ==
    ASSUME IdentityInv, NEW o \in Operations, NEW kind \in OpKinds, NEW step \in OpSteps, NEW i,
           Begin(o, kind, step, i)
    PROVE  /\ OnlyOp(o) /\ ops[o].kind = "none" /\ IsOp(ops'[o]) /\ ops'[o].kind = kind
           /\ ops'[o].step = step /\ ops'[o].id = i /\ ops'[o].read = NoEntries
<1> DEFINE new == [IdleOp EXCEPT !.kind = kind, !.step = step, !.id = i]
<1>1. /\ IsOp(new) /\ new.kind = kind /\ new.step = step /\ new.id = i /\ new.read = NoEntries
  BY DEF IdleOp, IsOp, OpKinds, OpSteps
<1> HIDE DEF new
<1>2. ops' = [ops EXCEPT ![o] = new] /\ ops[o].kind = "none"
  BY DEF Begin, new
<1> QED
  BY <1>1, <1>2 DEF IdentityInv, OnlyOp

LEMMA OpContinues ==
    ASSUME IdentityInv, NEW o \in Operations, NEW step \in OpSteps, Continue(o, step)
    PROVE  /\ OnlyOp(o) /\ IsOp(ops'[o]) /\ ops'[o].kind = ops[o].kind
           /\ ops'[o].step = step /\ ops'[o].id = ops[o].id /\ ops'[o].owner = ops[o].owner
           /\ ops'[o].read = ops[o].read
<1> DEFINE old == ops[o]
           new == [old EXCEPT !.step = step]
<1>1. IsOp(old)
  BY DEF IdentityInv, OpOK
<1>2. ops' = [ops EXCEPT ![o] = new]
  BY DEF Continue, IdentityInv
<1>3. /\ IsOp(new) /\ new.kind = old.kind /\ new.step = step /\ new.id = old.id
      /\ new.owner = old.owner /\ new.read = old.read
  <2> HIDE DEF old
  <2> QED
    BY <1>1 DEF IsOp
<1> HIDE DEF new
<1> QED
  BY <1>2, <1>3 DEF IdentityInv, OnlyOp

\* The operation that reads the manifest holds what it reads.
LEMMA OpReads ==
    ASSUME IdentityInv, NEW o \in Operations, NEW kind \in OpKinds, NEW i, NEW owner,
           ReadToChange(o, kind, i, owner)
    PROVE  /\ OnlyOp(o) /\ IsOp(ops'[o]) /\ ops'[o].kind = kind /\ ops'[o].step = "change"
           /\ ops'[o].id = i /\ ops'[o].owner = owner /\ ops'[o].read = manifest
           /\ ~crossed' => ~crossed /\ Holding = {}
<1> DEFINE new == [kind |-> kind, step |-> "change", id |-> i, owner |-> owner, read |-> manifest]
<1>1. /\ IsOp(new) /\ new.kind = kind /\ new.step = "change" /\ new.id = i
      /\ new.owner = owner /\ new.read = manifest
  BY DEF IsOp, OpKinds, OpSteps
<1> HIDE DEF new
<1>2. ops' = [ops EXCEPT ![o] = new] /\ crossed' = (crossed \/ Holding # {})
  BY DEF ReadToChange, new
<1> QED
  BY <1>1, <1>2 DEF IdentityInv, OnlyOp

LEMMA DropIs ==
    ASSUME NEW f, NEW x
    PROVE  /\ DOMAIN Drop(f, x) = DOMAIN f \ {x}
           /\ \A y \in DOMAIN f \ {x} : Drop(f, x)[y] = f[y]
BY DEF Drop

LEMMA PutIs ==
    ASSUME NEW f, NEW x, NEW v
    PROVE  /\ DOMAIN Put(f, x, v) = DOMAIN f \cup {x} /\ Put(f, x, v)[x] = v
           /\ \A y \in DOMAIN f \ {x} : Put(f, x, v)[y] = f[y]
BY DEF Put

-----------------------------------------------------------------------------
(* What a step of o leaves alone *)

LEMMA OtherOpsKeep ==
    ASSUME IdentityInv, NEW o \in Operations, OnlyOp(o),
           minted \subseteq minted', minted' \subseteq Identities,
           \A i \in DOMAIN manifest' :
              \/ i \in DOMAIN manifest \cup DOMAIN ops[o].read
              \/ i = ops[o].id /\ ops[o].kind \in {"generate", "import"},
           DOMAIN ops'[o].read \subseteq DOMAIN manifest \cup DOMAIN ops[o].read,
           \/ ops'[o].id \in {NoIdentity, ops[o].id} \cup DOMAIN manifest
           \/ ops'[o].id \notin minted
    PROVE  \A p \in Operations : p # o => OpOK(p)' /\ FreshOK(p)'
<1> SUFFICES ASSUME NEW p \in Operations, p # o PROVE OpOK(p)' /\ FreshOK(p)'
  OBVIOUS
<1>1. ops'[p] = ops[p] /\ OpOK(p) /\ FreshOK(p)
  BY DEF OnlyOp, IdentityInv
<1>2. OpOK(p)'
  BY <1>1 DEF OpOK, IsManifest
<1>3. FreshOK(p)'
  <2> SUFFICES ASSUME ops[p].kind \in {"generate", "import"}
               PROVE  /\ ops[p].id \notin DOMAIN manifest'
                      /\ \A q \in Operations : ops[p].id \notin DOMAIN ops'[q].read
                      /\ \A q \in Operations : ops'[q].id = ops[p].id => q = p
    BY <1>1 DEF FreshOK
  <2>1. /\ ops[p].id \in minted /\ ops[p].id # NoIdentity /\ ops[p].id \notin DOMAIN manifest
        /\ \A q \in Operations : ops[p].id \notin DOMAIN ops[q].read
        /\ \A q \in Operations : ops[q].id = ops[p].id => q = p
    BY <1>1, IdentityAssumption DEF OpOK, FreshOK, IdentityInv
  <2>2. ops[p].id \notin DOMAIN manifest'
    BY <2>1
  <2>3. \A q \in Operations : ops[p].id \notin DOMAIN ops'[q].read
    BY <2>1 DEF OnlyOp
  <2>4. \A q \in Operations : ops'[q].id = ops[p].id => q = p
    BY <2>1 DEF OnlyOp
  <2> QED
    BY <2>2, <2>3, <2>4
<1> QED
  BY <1>2, <1>3

\* As long as o does not write the manifest, and what it deletes is not listed.
LEMMA OrderlyFrame ==
    ASSUME IdentityInv, Orderly, NEW o \in Operations, OnlyOp(o), UNCHANGED <<manifest, failed>>,
           \A i \in keyFiles : i \in keyFiles' \/ i = ops[o].id,
           \A i \in DOMAIN certificates :
              \/ i \in DOMAIN certificates' /\ certificates'[i] = certificates[i]
              \/ i = ops[o].id,
           \/ keyFiles \subseteq keyFiles' /\ DOMAIN certificates \subseteq DOMAIN certificates'
           \/ ops[o].id \notin DOMAIN manifest /\ ops[o].kind = "remove",
           \A i \in DOMAIN certificates' : certificates'[i] = i,
           o \in Holding' => Holding = {} \/ o \in Holding,
           OrderlyOp(o)'
    PROVE  Orderly'
<1>1. \A p \in Operations : p # o => (p \in Holding' <=> p \in Holding)
  BY DEF Holding, OnlyOp
<1>2. \A p, q \in Holding' : p = q
  BY <1>1 DEF Orderly, Holding
<1>3. \A i \in DOMAIN manifest' : Ready(i)'
  BY DEF Orderly, Ready
<1>4. ASSUME NEW p \in Operations, p # o PROVE OrderlyOp(p)'
  <2>1. ops'[p] = ops[p] /\ OrderlyOp(p) /\ OpOK(p) /\ FreshOK(p)
    BY <1>4 DEF OnlyOp, Orderly, IdentityInv
  <2>2. ops[p].kind = "generate" => ops[p].id \in keyFiles'
    BY <1>4, <2>1 DEF OrderlyOp, FreshOK
  <2>3. ops[p].step = "record" => ops[p].id \in DOMAIN certificates'
    <3> SUFFICES ASSUME ops[p].step = "record" PROVE ops[p].id \in DOMAIN certificates'
      OBVIOUS
    <3>1. p \in Holding /\ ops[p].id \in DOMAIN certificates
      BY <2>1 DEF Holding, OrderlyOp
    <3>2. ops[p].kind = "install"
      BY <2>1 DEF OpOK, IsOp, OpKinds
    <3>3. ops[p].id \in DOMAIN manifest
      BY <2>1, <3>1, <3>2 DEF OrderlyOp, OpOK
    <3> QED
      BY <3>1, <3>3
  <2> QED
    BY <1>1, <1>4, <2>1, <2>2, <2>3 DEF OrderlyOp
<1>5. NamesAreUnique' /\ failed' = {}
  BY DEF Orderly, NamesAreUnique
<1> QED
  BY <1>2, <1>3, <1>4, <1>5 DEF Orderly

\* What is to show of a step of o.
LEMMA StepKeeps ==
    ASSUME IdentityInv, NEW o \in Operations, OnlyOp(o),
           minted \subseteq minted', minted' \subseteq Identities,
           IsManifest(manifest)', keyFiles' \subseteq minted',
           \A i \in DOMAIN certificates' : i \in minted' /\ certificates'[i] = i,
           \A i \in DOMAIN manifest' :
              \/ i \in DOMAIN manifest \cup DOMAIN ops[o].read
              \/ i = ops[o].id /\ ops[o].kind \in {"generate", "import"},
           DOMAIN ops'[o].read \subseteq DOMAIN manifest \cup DOMAIN ops[o].read,
           \/ ops'[o].id \in {NoIdentity, ops[o].id} \cup DOMAIN manifest
           \/ ops'[o].id \notin minted,
           OpOK(o)', FreshOK(o)', crossed' \/ Orderly'
    PROVE  IdentityInv'
<1>1. \A p \in Operations : OpOK(p)' /\ FreshOK(p)'
  BY OtherOpsKeep
<1> QED
  BY <1>1 DEF IdentityInv, OnlyOp

\* An operation that ends, or whose process ends.
LEMMA FinishKeeps ==
    ASSUME IdentityInv, NEW o \in Operations, Finish(o),
           UNCHANGED <<manifest, keyFiles, certificates, minted, crossed, failed>>
    PROVE  IdentityInv'
<1>1. OnlyOp(o) /\ ops'[o] = IdleOp
  BY OpFinishes
<1>2. OpOK(o)' /\ FreshOK(o)' /\ OrderlyOp(o)' /\ o \notin Holding'
  BY <1>1, IdleIsOp DEF OpOK, FreshOK, OrderlyOp, Holding, IsManifest
<1>3. crossed' \/ Orderly'
  BY <1>1, <1>2, OrderlyFrame DEF IdentityInv
<1>4. IsManifest(manifest)'
  BY DEF IdentityInv, IsManifest
<1> QED
  BY <1>1, <1>2, <1>3, <1>4, IdleIsOp, StepKeeps DEF IdentityInv

-----------------------------------------------------------------------------
(* Making an identity *)

LEMMA WriteKeyKeeps ==
    ASSUME IdentityInv, NEW o \in Operations, NEW i \in Identities, WriteKey(o, i)
    PROVE  IdentityInv'
<1>1. /\ i \notin minted /\ minted' = minted \cup {i} /\ keyFiles' = keyFiles \cup {i}
      /\ Begin(o, "generate", "read", i)
      /\ UNCHANGED <<manifest, certificates, crossed, failed>>
  BY DEF WriteKey
<1>2. /\ OnlyOp(o) /\ ops[o].kind = "none" /\ IsOp(ops'[o]) /\ ops'[o].kind = "generate"
      /\ ops'[o].step = "read" /\ ops'[o].id = i /\ ops'[o].read = NoEntries
  <2>1. "generate" \in OpKinds /\ "read" \in OpSteps
    BY DEF OpKinds, OpSteps
  <2> QED
    BY <1>1, <2>1, OpBegins
<1>3. OpOK(o)'
  BY <1>1, <1>2, IdleIsOp DEF OpOK, IsManifest
<1>4. FreshOK(o)'
  <2>1. i \notin DOMAIN manifest
    BY <1>1 DEF IdentityInv, IsManifest
  <2>2. ASSUME NEW p \in Operations, p # o
        PROVE  i \notin DOMAIN ops'[p].read /\ ops'[p].id # i
    <3>1. OpOK(p) /\ ops'[p] = ops[p]
      BY <1>2, <2>2 DEF IdentityInv, OnlyOp
    <3>2. ops[p].id # i
      <4>1. CASE ops[p].kind = "none"
        BY <3>1, <4>1, IdentityAssumption DEF OpOK
      <4>2. CASE ops[p].kind # "none"
        BY <1>1, <3>1, <4>2 DEF OpOK
      <4> QED
        BY <4>1, <4>2
    <3> QED
      BY <1>1, <3>1, <3>2 DEF OpOK, IsManifest
  <2> QED
    BY <1>1, <1>2, <2>1, <2>2, IdleIsOp DEF FreshOK
<1>5. crossed' \/ Orderly'
  <2>1. OrderlyOp(o)' /\ o \notin Holding'
    BY <1>1, <1>2 DEF OrderlyOp, Holding
  <2> QED
    BY <1>1, <1>2, <2>1, OrderlyFrame DEF IdentityInv
<1>6. IsManifest(manifest)' /\ minted \subseteq minted' /\ minted' \subseteq Identities
      /\ keyFiles' \subseteq minted' /\ \A j \in DOMAIN certificates' : j \in minted' /\ certificates'[j] = j
  BY <1>1 DEF IdentityInv, IsManifest
<1> QED
  BY <1>1, <1>2, <1>3, <1>4, <1>5, <1>6, IdleIsOp, StepKeeps

\* Whoever reads the manifest to change it holds it, unless another does.
LEMMA ReadKeepsOrder ==
    ASSUME IdentityInv, NEW o \in Operations, OnlyOp(o), ops'[o].step = "change",
           ops'[o].read = manifest, UNCHANGED <<manifest, certificates, failed>>,
           keyFiles' = keyFiles, ~crossed' => ~crossed /\ Holding = {},
           ops'[o].kind = "generate" => ops'[o].id \in keyFiles \/ crossed
    PROVE  crossed' \/ Orderly'
<1> SUFFICES ASSUME ~crossed' PROVE Orderly'
  OBVIOUS
<1>1. OrderlyOp(o)' /\ Orderly
  BY DEF OrderlyOp, IdentityInv
<1> QED
  BY <1>1, OrderlyFrame DEF IdentityInv

LEMMA ReadForEntryKeeps ==
    ASSUME IdentityInv, NEW o \in Operations, ReadForEntry(o)
    PROVE  IdentityInv'
<1> DEFINE i == ops[o].id
<1>1. /\ ops[o].kind = "generate" /\ ReadToChange(o, "generate", i, NoIdentity)
      /\ UNCHANGED <<manifest, keyFiles, certificates, minted, failed>>
      /\ OpOK(o) /\ FreshOK(o) /\ "generate" \in OpKinds
  BY DEF ReadForEntry, IdentityInv, OpKinds
<1>2. /\ OnlyOp(o) /\ IsOp(ops'[o]) /\ ops'[o].kind = "generate" /\ ops'[o].step = "change"
      /\ ops'[o].id = i /\ ops'[o].read = manifest
      /\ ~crossed' => ~crossed /\ Holding = {}
  BY <1>1, OpReads
<1>3. OpOK(o)' /\ FreshOK(o)' /\ IsManifest(manifest)'
  BY <1>1, <1>2 DEF OpOK, FreshOK, OnlyOp, IdentityInv, IsManifest
<1>4. crossed \/ i \in keyFiles
  BY <1>1 DEF IdentityInv, Orderly, OrderlyOp
<1>5. crossed' \/ Orderly'
  BY <1>1, <1>2, <1>4, ReadKeepsOrder
<1> QED
  BY <1>1, <1>2, <1>3, <1>5, StepKeeps DEF IdentityInv

LEMMA ImportKeeps ==
    ASSUME IdentityInv, NEW o \in Operations, NEW i \in Identities, Import(o, i)
    PROVE  IdentityInv'
<1>1. /\ i \notin minted /\ minted' = minted \cup {i} /\ ops[o].kind = "none"
      /\ ReadToChange(o, "import", i, NoIdentity)
      /\ UNCHANGED <<manifest, keyFiles, certificates, failed>> /\ "import" \in OpKinds
  BY DEF Import, OpKinds
<1>2. /\ OnlyOp(o) /\ IsOp(ops'[o]) /\ ops'[o].kind = "import" /\ ops'[o].step = "change"
      /\ ops'[o].id = i /\ ops'[o].read = manifest
      /\ ~crossed' => ~crossed /\ Holding = {}
  BY <1>1, OpReads
<1>3. OpOK(o)'
  BY <1>1, <1>2 DEF OpOK, IsManifest, IdentityInv
<1>4. FreshOK(o)'
  <2>1. i \notin DOMAIN manifest
    BY <1>1 DEF IdentityInv, IsManifest
  <2>2. ASSUME NEW p \in Operations, p # o
        PROVE  i \notin DOMAIN ops'[p].read /\ ops'[p].id # i
    <3>1. OpOK(p) /\ ops'[p] = ops[p]
      BY <1>2, <2>2 DEF IdentityInv, OnlyOp
    <3>2. ops[p].id # i
      <4>1. CASE ops[p].kind = "none"
        BY <3>1, <4>1, IdentityAssumption DEF OpOK
      <4>2. CASE ops[p].kind # "none"
        BY <1>1, <3>1, <4>2 DEF OpOK
      <4> QED
        BY <4>1, <4>2
    <3> QED
      BY <1>1, <3>1, <3>2 DEF OpOK, IsManifest
  <2> QED
    BY <1>1, <1>2, <2>1, <2>2 DEF FreshOK
<1>5. crossed' \/ Orderly'
  BY <1>1, <1>2, ReadKeepsOrder
<1>6. IsManifest(manifest)' /\ minted \subseteq minted' /\ minted' \subseteq Identities
      /\ keyFiles' \subseteq minted' /\ \A j \in DOMAIN certificates' : j \in minted' /\ certificates'[j] = j
  BY <1>1 DEF IdentityInv, IsManifest
<1> QED
  BY <1>1, <1>2, <1>3, <1>4, <1>5, <1>6, StepKeeps

\* The holder writes the manifest and holds it no more.
LEMMA WriteKeepsOrder ==
    ASSUME IdentityInv, Orderly, NEW o \in Operations, OnlyOp(o), o \in Holding, o \notin Holding',
           ops'[o].kind # "generate", UNCHANGED <<failed, keyFiles, certificates>>,
           \A i \in DOMAIN manifest' :
              \/ i \in DOMAIN manifest
              \/ i = ops[o].id /\ ops[o].kind \in {"generate", "import"},
           NamesAreUnique', \A i \in DOMAIN manifest' : Ready(i)',
           ops'[o].step # "record",
           ops'[o].step \in {"delete", "deleteCertificate"} => ops'[o].id \notin DOMAIN manifest'
    PROVE  Orderly'
<1>1. \A p \in Operations : p \notin Holding'
  BY DEF Orderly, Holding, OnlyOp
<1>2. ASSUME NEW p \in Operations, p # o PROVE OrderlyOp(p)'
  <2>1. ops'[p] = ops[p] /\ OrderlyOp(p) /\ FreshOK(o)
    BY <1>2 DEF OnlyOp, Orderly, IdentityInv
  <2>2. ops[p].step \in {"delete", "deleteCertificate"} => ops[p].id \notin DOMAIN manifest'
    BY <1>2, <2>1 DEF OrderlyOp, FreshOK
  <2> QED
    BY <1>1, <2>1, <2>2 DEF OrderlyOp
<1>3. OrderlyOp(o)'
  BY DEF OrderlyOp
<1> QED
  BY <1>1, <1>2, <1>3 DEF Orderly, Holding

LEMMA AddIdentityKeeps ==
    ASSUME IdentityInv, NEW o \in Operations, NEW name \in Names, NEW type \in {"jwt", "mtls"},
           AddIdentity(o, name, type)
    PROVE  IdentityInv'
<1> DEFINE read == ops[o].read
           i == ops[o].id
           entry == [name |-> name, type |-> type, certified |-> FALSE,
                     generated |-> ops[o].kind = "generate"]
<1>1. /\ ops[o].kind \in {"generate", "import"} /\ ops[o].step = "change" /\ Finish(o)
      /\ UNCHANGED <<keyFiles, certificates, minted, crossed, failed>>
      /\ OpOK(o) /\ FreshOK(o)
      /\ \/ UNCHANGED manifest
         \/ (\A j \in DOMAIN read : read[j].name # name) /\ manifest' = Put(read, i, entry)
  BY DEF AddIdentity, IdentityInv
<1>2. CASE UNCHANGED manifest
  BY <1>1, <1>2, FinishKeeps
<1>3. CASE (\A j \in DOMAIN read : read[j].name # name) /\ manifest' = Put(read, i, entry)
  <2>1. OnlyOp(o) /\ ops'[o] = IdleOp
    BY <1>1, OpFinishes
  <2>2. /\ entry \in Entries /\ entry.name = name /\ ~entry.certified
        /\ entry.generated <=> ops[o].kind = "generate"
    BY DEF Entries
  <2> HIDE DEF entry
  <2>3. /\ DOMAIN manifest' = DOMAIN read \cup {i} /\ manifest'[i] = entry
        /\ \A j \in DOMAIN read \ {i} : manifest'[j] = read[j]
    BY <1>3 DEF Put
  <2>4. i \in minted /\ IsManifest(read) /\ i \notin DOMAIN read
    BY <1>1 DEF OpOK, FreshOK
  <2>5. IsManifest(manifest)'
    BY <1>1, <2>2, <2>3, <2>4 DEF IsManifest
  <2>6. OpOK(o)' /\ FreshOK(o)' /\ o \notin Holding'
    BY <2>1, IdleIsOp DEF OpOK, FreshOK, Holding, IsManifest
  <2>7. ASSUME ~crossed PROVE Orderly'
    <3>1. Orderly /\ o \in Holding /\ read = manifest
      BY <1>1, <2>7 DEF IdentityInv, Orderly, OrderlyOp, Holding
    <3>2. \A j \in DOMAIN read : /\ manifest'[j] = manifest[j] /\ Ready(j)
                                 /\ manifest'[j].name # name
      BY <1>3, <2>3, <2>4, <3>1 DEF Orderly
    <3>3. NamesAreUnique'
      BY <2>2, <2>3, <3>1, <3>2 DEF NamesAreUnique, Orderly
    <3>4. ops[o].kind = "generate" => i \in keyFiles
      BY <3>1 DEF Orderly, OrderlyOp
    <3>5. \A j \in DOMAIN manifest' : Ready(j)'
      BY <1>1, <2>2, <2>3, <3>2, <3>4 DEF Ready
    <3> QED
      BY <1>1, <2>1, <2>3, <2>6, <3>1, <3>3, <3>5, IdleIsOp, WriteKeepsOrder
  <2> QED
    BY <1>1, <2>1, <2>3, <2>5, <2>6, <2>7, IdleIsOp, StepKeeps DEF IdentityInv
<1> QED
  BY <1>1, <1>2, <1>3

-----------------------------------------------------------------------------
(* Removing an identity *)

\* An identity that is listed is no one's to add.
LEMMA ListedOpOK ==
    ASSUME IdentityInv, NEW o \in Operations, NEW kind \in {"remove", "install"},
           NEW i \in DOMAIN manifest, NEW owner, owner \in Identities \/ kind = "remove",
           ReadToChange(o, kind, i, owner),
           UNCHANGED <<manifest, keyFiles, certificates, minted, failed>>
    PROVE  IdentityInv'
<1>1. kind \in OpKinds
  BY DEF OpKinds
<1>2. /\ OnlyOp(o) /\ IsOp(ops'[o]) /\ ops'[o].kind = kind /\ ops'[o].step = "change"
      /\ ops'[o].id = i /\ ops'[o].owner = owner /\ ops'[o].read = manifest
      /\ ~crossed' => ~crossed /\ Holding = {}
  BY <1>1, OpReads
<1>3. OpOK(o)' /\ FreshOK(o)' /\ IsManifest(manifest)'
  BY <1>2 DEF OpOK, FreshOK, IdentityInv, IsManifest
<1>4. crossed' \/ Orderly'
  BY <1>2, ReadKeepsOrder
<1> QED
  BY <1>2, <1>3, <1>4, StepKeeps DEF IdentityInv

LEMMA UnlistKeeps ==
    ASSUME IdentityInv, NEW o \in Operations, Unlist(o)
    PROVE  IdentityInv'
<1> DEFINE read == ops[o].read
           i == ops[o].id
<1>1. /\ ops[o].kind = "remove" /\ ops[o].step = "change" /\ Continue(o, "delete")
      /\ manifest' = Drop(read, i)
      /\ UNCHANGED <<keyFiles, certificates, minted, crossed, failed>>
      /\ OpOK(o) /\ "delete" \in OpSteps
  BY DEF Unlist, IdentityInv, OpSteps
<1>2. /\ OnlyOp(o) /\ IsOp(ops'[o]) /\ ops'[o].kind = "remove" /\ ops'[o].step = "delete"
      /\ ops'[o].id = i /\ ops'[o].read = read
  BY <1>1, OpContinues
<1>3. DOMAIN manifest' = DOMAIN read \ {i} /\ \A j \in DOMAIN read \ {i} : manifest'[j] = read[j]
  BY <1>1 DEF Drop
<1>4. IsManifest(manifest)' /\ OpOK(o)' /\ FreshOK(o)' /\ o \notin Holding'
  BY <1>1, <1>2, <1>3 DEF OpOK, FreshOK, IsManifest, Holding
<1>5. ASSUME ~crossed PROVE Orderly'
  <2>1. Orderly /\ o \in Holding /\ read = manifest
    BY <1>1, <1>5 DEF IdentityInv, Orderly, OrderlyOp, Holding
  <2>2. \A j \in DOMAIN manifest' : /\ j \in DOMAIN manifest /\ manifest'[j] = manifest[j]
                                    /\ Ready(j)
    BY <1>3, <2>1 DEF Orderly
  <2>3. NamesAreUnique'
    BY <2>1, <2>2 DEF NamesAreUnique, Orderly
  <2>4. \A j \in DOMAIN manifest' : Ready(j)'
    BY <1>1, <2>2 DEF Ready
  <2>5. ops'[o].id \notin DOMAIN manifest' /\ ops'[o].kind # "generate" /\ ops'[o].step # "record"
    BY <1>2, <1>3
  <2>6. UNCHANGED <<failed, keyFiles, certificates>>
    BY <1>1
  <2> QED
    BY <1>2, <1>4, <2>1, <2>2, <2>3, <2>4, <2>5, <2>6, WriteKeepsOrder
<1> QED
  BY <1>1, <1>2, <1>3, <1>4, <1>5, StepKeeps DEF IdentityInv

\* An operation that has unlisted its identity deletes the files.
LEMMA DeleteKeyKeeps ==
    ASSUME IdentityInv, NEW o \in Operations, DeleteKey(o)
    PROVE  IdentityInv'
<1> DEFINE i == ops[o].id
<1>1. /\ ops[o].kind = "remove" /\ ops[o].step = "delete" /\ Continue(o, "deleteCertificate")
      /\ keyFiles' \in {keyFiles \ {i}, keyFiles}
      /\ UNCHANGED <<manifest, certificates, minted, crossed, failed>>
      /\ OpOK(o) /\ "deleteCertificate" \in OpSteps
  BY DEF DeleteKey, IdentityInv, OpSteps
<1>2. /\ OnlyOp(o) /\ IsOp(ops'[o]) /\ ops'[o].kind = "remove"
      /\ ops'[o].step = "deleteCertificate" /\ ops'[o].id = i /\ ops'[o].read = ops[o].read
  BY <1>1, OpContinues
<1>3. IsManifest(manifest)' /\ OpOK(o)' /\ FreshOK(o)' /\ o \notin Holding'
  BY <1>1, <1>2 DEF OpOK, FreshOK, IsManifest, Holding, IdentityInv
<1>4. ASSUME ~crossed PROVE Orderly'
  <2>1. Orderly /\ OrderlyOp(o)' /\ i \notin DOMAIN manifest
    BY <1>1, <1>2, <1>3, <1>4 DEF IdentityInv, Orderly, OrderlyOp
  <2>2. \A j \in DOMAIN certificates : j \in DOMAIN certificates' /\ certificates'[j] = certificates[j]
    BY <1>1
  <2> QED
    BY <1>1, <1>2, <1>3, <2>1, <2>2, OrderlyFrame DEF IdentityInv
<1>5. keyFiles' \subseteq minted'
  BY <1>1 DEF IdentityInv
<1> QED
  BY <1>1, <1>2, <1>3, <1>4, <1>5, StepKeeps DEF IdentityInv

LEMMA DeleteCertificateKeeps ==
    ASSUME IdentityInv, NEW o \in Operations, DeleteCertificate(o)
    PROVE  IdentityInv'
<1> DEFINE i == ops[o].id
<1>1. /\ ops[o].kind = "remove" /\ ops[o].step = "deleteCertificate" /\ Finish(o)
      /\ certificates' = Drop(certificates, i)
      /\ UNCHANGED <<manifest, keyFiles, minted, crossed, failed>> /\ OpOK(o)
  BY DEF DeleteCertificate, IdentityInv
<1>2. OnlyOp(o) /\ ops'[o] = IdleOp
  BY <1>1, OpFinishes
<1>3. /\ DOMAIN certificates' = DOMAIN certificates \ {i}
      /\ \A j \in DOMAIN certificates' : certificates'[j] = certificates[j]
  BY <1>1 DEF Drop
<1>4. IsManifest(manifest)' /\ OpOK(o)' /\ FreshOK(o)' /\ o \notin Holding'
  BY <1>1, <1>2, IdleIsOp DEF OpOK, FreshOK, IsManifest, Holding, IdentityInv
<1>5. \A j \in DOMAIN certificates' : j \in minted' /\ certificates'[j] = j
  BY <1>1, <1>3 DEF IdentityInv
<1>6. ASSUME ~crossed PROVE Orderly'
  <2>1. Orderly /\ OrderlyOp(o)' /\ i \notin DOMAIN manifest
    BY <1>1, <1>2, <1>4, <1>6, IdleIsOp DEF IdentityInv, Orderly, OrderlyOp
  <2> QED
    BY <1>1, <1>2, <1>3, <1>4, <1>5, <2>1, OrderlyFrame
<1> QED
  BY <1>1, <1>2, <1>4, <1>5, <1>6, IdleIsOp, StepKeeps DEF IdentityInv

-----------------------------------------------------------------------------
(* Installing a certificate *)

LEMMA CheckCertificateKeeps ==
    ASSUME IdentityInv, NEW o \in Operations, CheckCertificate(o)
    PROVE  IdentityInv'
<1> DEFINE i == ops[o].id
<1>1. /\ ops[o].kind = "install" /\ ops[o].step = "change"
      /\ UNCHANGED <<manifest, keyFiles, certificates, minted, crossed, failed>>
      /\ OpOK(o) /\ FreshOK(o) /\ "certificate" \in OpSteps
      /\ \/ Finish(o)
         \/ ops[o].owner = i /\ Continue(o, "certificate")
  BY DEF CheckCertificate, IdentityInv, OpSteps
<1>2. CASE Finish(o)
  BY <1>1, <1>2, FinishKeeps
<1>3. CASE ops[o].owner = i /\ Continue(o, "certificate")
  <2>1. /\ OnlyOp(o) /\ IsOp(ops'[o]) /\ ops'[o].kind = "install"
        /\ ops'[o].step = "certificate" /\ ops'[o].id = i /\ ops'[o].owner = ops[o].owner
        /\ ops'[o].read = ops[o].read
    BY <1>1, <1>3, OpContinues
  <2>2. IsManifest(manifest)' /\ OpOK(o)' /\ FreshOK(o)' /\ o \in Holding
    BY <1>1, <1>3, <2>1 DEF OpOK, FreshOK, IsManifest, Holding, IdentityInv
  <2>3. ASSUME ~crossed PROVE Orderly'
    <3>1. Orderly /\ OrderlyOp(o)'
      BY <1>1, <2>1, <2>2, <2>3 DEF IdentityInv, Orderly, OrderlyOp
    <3> QED
      BY <1>1, <2>1, <2>2, <3>1, OrderlyFrame DEF IdentityInv
  <2> QED
    BY <1>1, <2>1, <2>2, <2>3, StepKeeps DEF IdentityInv
<1> QED
  BY <1>1, <1>2, <1>3

LEMMA WriteCertificateKeeps ==
    ASSUME IdentityInv, NEW o \in Operations, WriteCertificate(o)
    PROVE  IdentityInv'
<1> DEFINE i == ops[o].id
<1>1. /\ ops[o].kind = "install" /\ ops[o].step = "certificate" /\ Continue(o, "record")
      /\ certificates' = Put(certificates, i, i)
      /\ UNCHANGED <<manifest, keyFiles, minted, crossed, failed>>
      /\ OpOK(o) /\ FreshOK(o) /\ "record" \in OpSteps
  BY DEF WriteCertificate, OpOK, IdentityInv, OpSteps
<1>2. /\ OnlyOp(o) /\ IsOp(ops'[o]) /\ ops'[o].kind = "install"
      /\ ops'[o].step = "record" /\ ops'[o].id = i /\ ops'[o].owner = ops[o].owner
      /\ ops'[o].read = ops[o].read
  BY <1>1, OpContinues
<1>3. /\ DOMAIN certificates' = DOMAIN certificates \cup {i} /\ certificates'[i] = i
      /\ \A j \in DOMAIN certificates \ {i} : certificates'[j] = certificates[j]
  BY <1>1 DEF Put
<1>4. \A j \in DOMAIN certificates' : j \in minted' /\ certificates'[j] = j
  BY <1>1, <1>3 DEF IdentityInv, OpOK
<1>5. \A j \in DOMAIN certificates : j \in DOMAIN certificates' /\ certificates'[j] = certificates[j]
  BY <1>3, <1>4 DEF IdentityInv
<1>6. IsManifest(manifest)' /\ OpOK(o)' /\ FreshOK(o)' /\ o \in Holding
  BY <1>1, <1>2 DEF OpOK, FreshOK, IsManifest, Holding, IdentityInv
<1>7. ASSUME ~crossed PROVE Orderly'
  <2>1. Orderly /\ OrderlyOp(o)'
    BY <1>1, <1>2, <1>3, <1>6, <1>7 DEF IdentityInv, Orderly, OrderlyOp
  <2> QED
    BY <1>1, <1>2, <1>4, <1>5, <1>6, <2>1, OrderlyFrame
<1> QED
  BY <1>1, <1>2, <1>4, <1>6, <1>7, StepKeeps DEF IdentityInv

LEMMA RecordCertificateKeeps ==
    ASSUME IdentityInv, NEW o \in Operations, RecordCertificate(o)
    PROVE  IdentityInv'
<1> DEFINE read == ops[o].read
           i == ops[o].id
           old == read[i]
           entry == [old EXCEPT !.certified = TRUE]
<1>1. /\ ops[o].kind = "install" /\ ops[o].step = "record" /\ Finish(o)
      /\ manifest' = [read EXCEPT ![i].certified = TRUE]
      /\ UNCHANGED <<keyFiles, certificates, minted, crossed, failed>>
      /\ OpOK(o) /\ FreshOK(o)
  BY DEF RecordCertificate, IdentityInv
<1>2. OnlyOp(o) /\ ops'[o] = IdleOp
  BY <1>1, OpFinishes
<1>3. i \in DOMAIN read /\ IsManifest(read) /\ old \in Entries
  BY <1>1 DEF OpOK, IsManifest
<1>4. /\ DOMAIN manifest' = DOMAIN read /\ manifest'[i] = entry
      /\ \A j \in DOMAIN read \ {i} : manifest'[j] = read[j]
  BY <1>1, <1>3
<1>5. /\ entry \in Entries /\ entry.certified /\ entry.name = old.name
      /\ entry.generated = old.generated
  <2> HIDE DEF old
  <2> QED
    BY <1>3 DEF Entries
<1> HIDE DEF entry
<1>6. IsManifest(manifest)' /\ OpOK(o)' /\ FreshOK(o)' /\ o \notin Holding'
  BY <1>1, <1>2, <1>3, <1>4, <1>5, IdleIsOp DEF OpOK, FreshOK, IsManifest, Holding
<1>7. ASSUME ~crossed PROVE Orderly'
  <2>1. Orderly /\ o \in Holding /\ read = manifest /\ i \in DOMAIN certificates
    BY <1>1, <1>7 DEF IdentityInv, Orderly, OrderlyOp, Holding
  <2>2. \A j \in DOMAIN read : manifest'[j].name = manifest[j].name
    BY <1>4, <1>5, <2>1
  <2>3. NamesAreUnique'
    BY <1>4, <2>1, <2>2 DEF NamesAreUnique, Orderly
  <2>4. \A j \in DOMAIN manifest' : Ready(j)'
    <3> SUFFICES ASSUME NEW j \in DOMAIN manifest' PROVE Ready(j)'
      OBVIOUS
    <3>1. j \in DOMAIN manifest /\ Ready(j) /\ UNCHANGED <<keyFiles, certificates>>
      BY <1>1, <1>4, <2>1 DEF Orderly
    <3>2. CASE j # i
      BY <1>4, <2>1, <3>1, <3>2 DEF Ready
    <3>3. CASE j = i
      <4>1. manifest'[j].generated = manifest[j].generated
        BY <1>4, <1>5, <2>1, <3>3
      <4>2. j \in DOMAIN certificates' /\ certificates'[j] = j
        BY <2>1, <3>1, <3>3 DEF IdentityInv
      <4> QED
        BY <3>1, <4>1, <4>2 DEF Ready
    <3> QED
      BY <3>2, <3>3
  <2>5. UNCHANGED <<failed, keyFiles, certificates>> /\ \A j \in DOMAIN manifest' : j \in DOMAIN manifest
    BY <1>1, <1>4, <2>1
  <2>6. ops'[o].kind # "generate" /\ ops'[o].step \notin {"record", "delete", "deleteCertificate"}
    BY <1>2, IdleIsOp
  <2> QED
    BY <1>2, <1>6, <2>1, <2>3, <2>4, <2>5, <2>6, WriteKeepsOrder
<1> QED
  BY <1>1, <1>2, <1>4, <1>6, <1>7, IdleIsOp, StepKeeps DEF IdentityInv

-----------------------------------------------------------------------------
(* Using an identity *)

LEMMA UseKeeps ==
    ASSUME IdentityInv, NEW o \in Operations, NEW i \in DOMAIN manifest, Use(o, i)
    PROVE  IdentityInv'
<1>1. /\ Begin(o, "use", "files", i) /\ "use" \in OpKinds /\ "files" \in OpSteps
      /\ UNCHANGED <<manifest, keyFiles, certificates, minted, crossed, failed>>
  BY DEF Use, OpKinds, OpSteps
<1>2. /\ OnlyOp(o) /\ IsOp(ops'[o]) /\ ops'[o].kind = "use" /\ ops'[o].step = "files"
      /\ ops'[o].id = i /\ ops'[o].read = NoEntries
  BY <1>1, OpBegins
<1>3. IsManifest(manifest)' /\ OpOK(o)' /\ FreshOK(o)' /\ OrderlyOp(o)' /\ o \notin Holding'
  BY <1>1, <1>2, IdleIsOp DEF OpOK, FreshOK, IsManifest, Holding, OrderlyOp, IdentityInv
<1>4. crossed' \/ Orderly'
  BY <1>1, <1>2, <1>3, OrderlyFrame DEF IdentityInv
<1> QED
  BY <1>1, <1>2, <1>3, <1>4, IdleIsOp, StepKeeps DEF IdentityInv

LEMMA ReadFilesKeeps ==
    ASSUME IdentityInv, NEW o \in Operations, ReadFiles(o)
    PROVE  IdentityInv'
<1>1. /\ Finish(o) /\ UNCHANGED <<manifest, keyFiles, certificates, minted, crossed>>
      /\ \/ UNCHANGED failed
         \/ \E i \in DOMAIN manifest : ~Ready(i)
  BY DEF ReadFiles
<1>2. CASE UNCHANGED failed
  BY <1>1, <1>2, FinishKeeps
<1>3. CASE \E i \in DOMAIN manifest : ~Ready(i)
  <2>1. crossed
    BY <1>3 DEF IdentityInv, Orderly
  <2>2. OnlyOp(o) /\ ops'[o] = IdleOp
    BY <1>1, OpFinishes
  <2>3. IsManifest(manifest)' /\ OpOK(o)' /\ FreshOK(o)'
    BY <1>1, <2>2, IdleIsOp DEF OpOK, FreshOK, IsManifest, IdentityInv
  <2> QED
    BY <1>1, <2>1, <2>2, <2>3, IdleIsOp, StepKeeps DEF IdentityInv
<1> QED
  BY <1>1, <1>2, <1>3

-----------------------------------------------------------------------------
(* The invariant *)

LEMMA IdentityInitially == IdentityInit => IdentityInv
<1> SUFFICES ASSUME IdentityInit PROVE IdentityInv
  OBVIOUS
<1>1. \A o \in Operations : ops[o] = IdleOp
  BY DEF IdentityInit
<1>2. \A o \in Operations : OpOK(o) /\ FreshOK(o) /\ OrderlyOp(o) /\ o \notin Holding
  BY <1>1, IdleIsOp DEF OpOK, FreshOK, OrderlyOp, Holding, IsManifest
<1>3. DOMAIN manifest = {} /\ DOMAIN certificates = {} /\ failed = {}
  BY IdleIsOp DEF IdentityInit
<1>4. Orderly
  BY <1>2, <1>3 DEF Orderly, NamesAreUnique, Holding
<1> QED
  BY <1>2, <1>3, <1>4 DEF IdentityInit, IdentityInv, IsManifest

LEMMA IdentityInductive == IdentityInv /\ [IdentityNext]_identityVars => IdentityInv'
<1> SUFFICES ASSUME IdentityInv, [IdentityNext]_identityVars PROVE IdentityInv'
  OBVIOUS
<1>1. CASE IdentityNext
  <2>1. PICK o \in Operations :
        \/ \E i \in Identities : WriteKey(o, i) \/ Import(o, i)
        \/ ReadForEntry(o)
        \/ \E name \in Names, type \in {"jwt", "mtls"} : AddIdentity(o, name, type)
        \/ \E i \in DOMAIN manifest : ReadForRemoval(o, i) \/ Use(o, i)
        \/ Unlist(o) \/ DeleteKey(o) \/ DeleteCertificate(o)
        \/ \E i \in DOMAIN manifest, owner \in minted : ReadForCertificate(o, i, owner)
        \/ CheckCertificate(o) \/ WriteCertificate(o) \/ RecordCertificate(o)
        \/ ReadFiles(o) \/ Die(o)
    BY <1>1 DEF IdentityNext
  <2>2. CASE \E i \in Identities : WriteKey(o, i) \/ Import(o, i)
    BY <2>2, WriteKeyKeeps, ImportKeeps
  <2>3. CASE ReadForEntry(o)
    BY <2>3, ReadForEntryKeeps
  <2>4. CASE \E name \in Names, type \in {"jwt", "mtls"} : AddIdentity(o, name, type)
    BY <2>4, AddIdentityKeeps
  <2>5. CASE \E i \in DOMAIN manifest : ReadForRemoval(o, i)
    BY <2>5, ListedOpOK DEF ReadForRemoval
  <2>6. CASE \E i \in DOMAIN manifest : Use(o, i)
    BY <2>6, UseKeeps
  <2>7. CASE Unlist(o) \/ DeleteKey(o) \/ DeleteCertificate(o)
    BY <2>7, UnlistKeeps, DeleteKeyKeeps, DeleteCertificateKeeps
  <2>8. CASE \E i \in DOMAIN manifest, owner \in minted : ReadForCertificate(o, i, owner)
    <3>1. PICK i \in DOMAIN manifest, owner \in minted : ReadForCertificate(o, i, owner)
      BY <2>8
    <3>2. owner \in Identities
      BY DEF IdentityInv
    <3> QED
      BY <3>1, <3>2, ListedOpOK DEF ReadForCertificate
  <2>9. CASE CheckCertificate(o) \/ WriteCertificate(o) \/ RecordCertificate(o)
    BY <2>9, CheckCertificateKeeps, WriteCertificateKeeps, RecordCertificateKeeps
  <2>10. CASE ReadFiles(o)
    BY <2>10, ReadFilesKeeps
  <2>11. CASE Die(o)
    BY <2>11, FinishKeeps DEF Die
  <2> QED
    BY <2>1, <2>2, <2>3, <2>4, <2>5, <2>6, <2>7, <2>8, <2>9, <2>10, <2>11
<1>2. CASE UNCHANGED identityVars
  BY <1>2 DEF identityVars, IdentityInv, IsManifest, OpOK, FreshOK, Orderly, OrderlyOp,
              NamesAreUnique, Ready, Holding
<1> QED
  BY <1>1, <1>2

LEMMA IdentityInvariant == IdentitySpec => []IdentityInv
<1>1. IdentityInit => IdentityInv
  BY IdentityInitially
<1>2. IdentityInv /\ [IdentityNext]_identityVars => IdentityInv'
  BY IdentityInductive
<1> QED
  BY <1>1, <1>2, PTL DEF IdentitySpec

\* The identity store keeps its types.
THEOREM IdentityTypeCorrect == IdentitySpec => []IdentityTypeOK
<1>1. IdentityInv => IdentityTypeOK
  BY DEF IdentityInv, IdentityTypeOK, IsManifest, OpOK
<1> QED
  BY <1>1, IdentityInvariant, PTL

\* As long as no two changes of identities.json overlap, whatever process
\* ends between two file accesses, every identity the manifest lists has its
\* key, a certificate of that key once it says so, and a name of its own, and
\* using a listed one misses no file: identity-store.ts writes what an entry
\* names before the entry (:176, :220) and deletes it after (:264).
THEOREM ListedIdentitiesHaveFiles == IdentitySpec => []ListedIdentitiesWork
<1>1. IdentityInv => ListedIdentitiesWork
  BY DEF IdentityInv, ListedIdentitiesWork, Orderly
<1> QED
  BY <1>1, IdentityInvariant, PTL
=============================================================================
