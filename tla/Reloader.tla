------------------------------ MODULE Reloader ------------------------------
(***************************************************************************)
(* GatewayConfigReloader and GatewayRuntimeSync of gateway-core, and the   *)
(* part of the server's startup that feeds them.  One JavaScript event     *)
(* loop per instance: an action is the code between two awaits.            *)
(*                                                                         *)
(* A registry is the set of changes whose effect it shows.  A snapshot is  *)
(* read by several SQL statements outside a transaction, so it shows every *)
(* change committed before the first statement and any of those committed  *)
(* while it runs.                                                          *)
(*                                                                         *)
(* Every reportStatus takes seen, whether its write reaches Redis: a lost  *)
(* write also stands for one that is late, since the next one replaces it. *)
(***************************************************************************)
EXTENDS Outbox

CONSTANTS
    Gateways,   \* the gateway instances (GATEWAY_INSTANCE_ID)
    MaxPolls    \* bound on the reconciliations an instance has under way

ASSUME ReloaderAssumption == MaxPolls \in Nat \ {0}

VARIABLES
    phase,      \* what the running drainReloads (or the startup) awaits
    applied,    \* appliedVersion
    requested,  \* requestedVersion
    target,     \* targetVersion of the turn of drainReloads under way
    base,       \* changes committed when the running loadSnapshot began
    registry,   \* changes shown by the resolver's registry
    state,      \* the state the instance reports
    polls,      \* reconcile() calls under way
    inbox,      \* notifications on their way to the subscriber
    status      \* the instance's status key in Redis

reloaderVars ==
    <<phase, applied, requested, target, base, registry, state, polls, inbox, status>>

Phases == {"down", "booting", "bootloading",
           "idle", "reporting", "loading", "reported", "exited"}
States == {"applied", "loading", "error"}
NoStatus == [state |-> "none", applied |-> 0]
Polls == [version : Versions \cup {0}, at : {"read", "waiting", "resumed"}]

Up(g) == phase[g] \notin {"down", "booting", "bootloading"}

ReloaderInit ==
    /\ phase = [g \in Gateways |-> "down"]
    /\ applied = [g \in Gateways |-> 0]
    /\ requested = [g \in Gateways |-> 0]
    /\ target = [g \in Gateways |-> 0]
    /\ base = [g \in Gateways |-> {}]
    /\ registry = [g \in Gateways |-> {}]
    /\ state = [g \in Gateways |-> "applied"]
    /\ polls = [g \in Gateways |-> {}]
    /\ inbox = [g \in Gateways |-> {}]
    /\ status = [g \in Gateways |-> NoStatus]

-----------------------------------------------------------------------------

\* publishStatus writes the status key, or fails and is only logged.
reportStatus(g, seen, s, v) ==
    status' = IF seen THEN [status EXCEPT ![g] = [state |-> s, applied |-> v]]
              ELSE status

\* One turn of the loop of drainReloads up to its first await, for the
\* requested version v: the target is fixed before the snapshot is read.
BeginTurn(g, v, seen) ==
    /\ target' = [target EXCEPT ![g] = v]
    /\ state' = [state EXCEPT ![g] = "loading"]
    /\ phase' = [phase EXCEPT ![g] = "reporting"]
    /\ reportStatus(g, seen, "loading", applied[g])

\* Mutants: the comparison admits the applied version; it is made with the
\* requested version.
NewerOrApplied(g, v) == v >= applied[g]
NewerThanRequested(g, v) == v > requested[g]

\* Whether requestReload(v) has to do more than report.
Newer(g, v) == v > applied[g]

\* requestReload(v) up to the promise it returns.
requestReload(g, v, seen) ==
    IF ~Newer(g, v)
    THEN /\ reportStatus(g, seen, state[g], applied[g])
         /\ UNCHANGED <<requested, target, state, phase>>
    ELSE LET r == IF requested[g] > v THEN requested[g] ELSE v IN
         /\ requested' = [requested EXCEPT ![g] = r]
         /\ IF phase[g] = "idle" THEN BeginTurn(g, r, seen)
            ELSE UNCHANGED <<target, state, phase, status>>

\* A notification reaches the subscriber's message handler.
ReceiveMessage(g, v, seen) ==
    /\ Up(g)
    /\ v \in inbox[g]
    /\ inbox' = [inbox EXCEPT ![g] = @ \ {v}]
    /\ requestReload(g, v, seen)
    /\ UNCHANGED <<applied, base, registry, polls>>

\* reconcile() runs its query: the interval and the subscriber's "ready"
\* event start one whether or not an earlier one is still under way.
ReconcileRead(g) ==
    /\ Up(g)
    /\ Cardinality(polls[g]) < MaxPolls
    /\ \E v \in committed \cup {0} :
          /\ IsLatest(v)
          /\ polls' = [polls EXCEPT ![g] = @ \cup {[version |-> v, at |-> "read"]}]
    /\ UNCHANGED <<phase, applied, requested, target, base, registry, state, inbox, status>>

\* reconcile() goes on with the version it read.
ReconcileRequest(g, q, seen) ==
    /\ Up(g)
    /\ q \in polls[g]
    /\ q.at = "read"
    /\ requestReload(g, q.version, seen)
    /\ polls' = [polls EXCEPT ![g] = (@ \ {q}) \cup
          {[q EXCEPT !.at = IF Newer(g, q.version) THEN "waiting" ELSE "resumed"]}]
    /\ UNCHANGED <<applied, base, registry, inbox>>

\* reconcile() after the reload it awaited: report when up to date.
ReconcileEnd(g, q, seen) ==
    /\ Up(g)
    /\ q \in polls[g]
    /\ q.at = "resumed"
    /\ polls' = [polls EXCEPT ![g] = @ \ {q}]
    /\ IF Newer(g, q.version) THEN UNCHANGED status
       ELSE reportStatus(g, seen, state[g], applied[g])
    /\ UNCHANGED <<phase, applied, requested, target, base, registry, state, inbox>>

\* The query of reconcile() fails.
ReconcileFails(g, seen) ==
    /\ Up(g)
    /\ state' = [state EXCEPT ![g] = "error"]
    /\ reportStatus(g, seen, "error", applied[g])
    /\ UNCHANGED <<phase, applied, requested, target, base, registry, polls, inbox>>

-----------------------------------------------------------------------------
\* loadSnapshot() sends its first query.
BeginLoad(g) ==
    /\ phase[g] \in {"reporting", "booting"}
    /\ phase' = [phase EXCEPT ![g] = IF @ = "booting" THEN "bootloading" ELSE "loading"]
    /\ base' = [base EXCEPT ![g] = committed]
    /\ UNCHANGED <<applied, requested, target, registry, state, polls, inbox, status>>

\* The snapshots loadSnapshot() may return now.
Snapshots(g) == {S \in SUBSET committed : base[g] \subseteq S}

\* Mutant: the snapshot is labelled with the version requested by now.
ApplySnapshotAsRequested(g, seen) ==
    /\ phase[g] = "loading"
    /\ \E S \in Snapshots(g) : registry' = [registry EXCEPT ![g] = S]
    /\ applied' = [applied EXCEPT ![g] = requested[g]]
    /\ state' = [state EXCEPT ![g] = "applied"]
    /\ phase' = [phase EXCEPT ![g] = "reported"]
    /\ base' = [base EXCEPT ![g] = {}]
    /\ reportStatus(g, seen, "applied", requested[g])
    /\ UNCHANGED <<requested, target, polls, inbox>>

\* The snapshot is valid and replaces the registry.
ApplySnapshot(g, seen) ==
    /\ phase[g] = "loading"
    /\ \E S \in Snapshots(g) : registry' = [registry EXCEPT ![g] = S]
    /\ applied' = [applied EXCEPT ![g] = target[g]]
    /\ state' = [state EXCEPT ![g] = "applied"]
    /\ phase' = [phase EXCEPT ![g] = "reported"]
    /\ base' = [base EXCEPT ![g] = {}]
    /\ reportStatus(g, seen, "applied", target[g])
    /\ UNCHANGED <<requested, target, polls, inbox>>

\* Mutant: the registry was cleared before the snapshot was found invalid.
LoadFailsAfterClear(g, seen) ==
    /\ phase[g] = "loading"
    /\ registry' = [registry EXCEPT ![g] = {}]
    /\ requested' = [requested EXCEPT ![g] = applied[g]]
    /\ state' = [state EXCEPT ![g] = "error"]
    /\ phase' = [phase EXCEPT ![g] = "reported"]
    /\ base' = [base EXCEPT ![g] = {}]
    /\ reportStatus(g, seen, "error", applied[g])
    /\ UNCHANGED <<applied, target, polls, inbox>>

\* The load fails or the snapshot is rejected: the registry stays, and
\* every version requested so far is forgotten.
LoadFails(g, seen) ==
    /\ phase[g] = "loading"
    /\ requested' = [requested EXCEPT ![g] = applied[g]]
    /\ state' = [state EXCEPT ![g] = "error"]
    /\ phase' = [phase EXCEPT ![g] = "reported"]
    /\ base' = [base EXCEPT ![g] = {}]
    /\ reportStatus(g, seen, "error", applied[g])
    /\ UNCHANGED <<applied, target, registry, polls, inbox>>

\* The loop condition of drainReloads after a turn.
NextTurn(g, seen) ==
    /\ phase[g] = "reported"
    /\ IF requested[g] > applied[g]
       THEN BeginTurn(g, requested[g], seen)
       ELSE /\ phase' = [phase EXCEPT ![g] = "exited"]
            /\ UNCHANGED <<target, state, status>>
    /\ UNCHANGED <<applied, requested, base, registry, polls, inbox>>

\* The finally callback clears activeReload, in a later microtask than the
\* end of the loop, and whoever awaited the reload resumes.
Settle(g) ==
    /\ phase[g] = "exited"
    /\ phase' = [phase EXCEPT ![g] = "idle"]
    /\ polls' = [polls EXCEPT ![g] =
          {IF q.at = "waiting" THEN [q EXCEPT !.at = "resumed"] ELSE q : q \in @}]
    /\ UNCHANGED <<applied, requested, target, base, registry, state, inbox, status>>

-----------------------------------------------------------------------------
\* Mutant: startup loads the snapshot without reading the version.
BootUnversioned(g) ==
    /\ phase[g] = "down"
    /\ target' = [target EXCEPT ![g] = 0]
    /\ phase' = [phase EXCEPT ![g] = "booting"]
    /\ UNCHANGED <<applied, requested, base, registry, state, polls, inbox, status>>

\* Startup reads the version before it loads the snapshot.
Boot(g) ==
    /\ phase[g] = "down"
    /\ \E v \in committed \cup {0} :
          /\ IsLatest(v)
          /\ target' = [target EXCEPT ![g] = v]
    /\ phase' = [phase EXCEPT ![g] = "booting"]
    /\ UNCHANGED <<applied, requested, base, registry, state, polls, inbox, status>>

\* Startup installs the snapshot, creates the reloader and reports.
BootFinish(g, seen) ==
    /\ phase[g] = "bootloading"
    /\ \E S \in Snapshots(g) : registry' = [registry EXCEPT ![g] = S]
    /\ applied' = [applied EXCEPT ![g] = target[g]]
    /\ requested' = [requested EXCEPT ![g] = target[g]]
    /\ state' = [state EXCEPT ![g] = "applied"]
    /\ phase' = [phase EXCEPT ![g] = "idle"]
    /\ base' = [base EXCEPT ![g] = {}]
    /\ reportStatus(g, seen, "applied", target[g])
    /\ UNCHANGED <<target, polls, inbox>>

\* The process dies, or its startup fails; only the status key remains.
Crash(g) ==
    /\ phase[g] # "down"
    /\ phase' = [phase EXCEPT ![g] = "down"]
    /\ applied' = [applied EXCEPT ![g] = 0]
    /\ requested' = [requested EXCEPT ![g] = 0]
    /\ target' = [target EXCEPT ![g] = 0]
    /\ base' = [base EXCEPT ![g] = {}]
    /\ registry' = [registry EXCEPT ![g] = {}]
    /\ state' = [state EXCEPT ![g] = "applied"]
    /\ polls' = [polls EXCEPT ![g] = {}]
    /\ inbox' = [inbox EXCEPT ![g] = {}]
    /\ UNCHANGED status

\* Redis hands version v to the subscribers in G that are connected.
Deliver(v, G) ==
    /\ inbox' = [g \in Gateways |->
          IF g \in G /\ Up(g) THEN inbox[g] \cup {v} ELSE inbox[g]]
    /\ UNCHANGED <<phase, applied, requested, target, base, registry, state, polls, status>>

\* The status key reaches its time to live.
StatusExpires(g) ==
    /\ status[g] # NoStatus
    /\ status' = [status EXCEPT ![g] = NoStatus]
    /\ UNCHANGED <<phase, applied, requested, target, base, registry, state, polls, inbox>>

ReloaderTypeOK ==
    /\ phase \in [Gateways -> Phases]
    /\ applied \in [Gateways -> committed \cup {0}]
    /\ requested \in [Gateways -> committed \cup {0}]
    /\ target \in [Gateways -> committed \cup {0}]
    /\ base \in [Gateways -> SUBSET committed]
    /\ registry \in [Gateways -> SUBSET committed]
    /\ state \in [Gateways -> States]
    /\ polls \in [Gateways -> SUBSET {q \in Polls : q.version \in committed \cup {0}}]
    /\ inbox \in [Gateways -> SUBSET committed]
    /\ status \in [Gateways -> [state : States \cup {"none"}, applied : committed \cup {0}]]
=============================================================================
