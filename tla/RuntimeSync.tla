----------------------------- MODULE RuntimeSync -----------------------------
(***************************************************************************)
(* Hot reload of the routing configuration, end to end: control-plane      *)
(* transactions fill the outbox, management-api announces its rows through *)
(* Redis, every gateway reloads on a notification or on its periodic       *)
(* reconciliation, and the runtime-sync endpoint reports who is up to      *)
(* date.                                                                   *)
(*                                                                         *)
(* Everything that goes wrong (an error of PostgreSQL or of Redis, a lost  *)
(* notification or status write, a crash) is charged to the budget         *)
(* MaxFaults, so that a behaviour has finitely many faults at any point.   *)
(***************************************************************************)
EXTENDS Publisher, RuntimeStatus

CONSTANT MaxFaults   \* bound on the faults of a behaviour

ASSUME FaultAssumption == MaxFaults \in Nat

VARIABLE faults

vars == <<nextVersion, inflight, committed, overtaken, published,
          batch, stage, announced,
          phase, applied, requested, target, base, registry, state, polls, inbox, status,
          asked, faults>>

TypeOK ==
    /\ OutboxTypeOK
    /\ PublisherTypeOK
    /\ ReloaderTypeOK
    /\ StatusTypeOK
    /\ faults \in 0 .. MaxFaults

Init ==
    /\ OutboxInit
    /\ PublisherInit
    /\ ReloaderInit
    /\ StatusInit
    /\ faults = 0

Charge(n) == faults + n <= MaxFaults /\ faults' = faults + n
Lost(seen) == IF seen THEN 0 ELSE 1

-----------------------------------------------------------------------------
(* Control-plane transactions *)
Record == recordGatewayConfigChange /\ UNCHANGED <<publisherVars, reloaderVars, asked, faults>>
CommitChange(v) == Commit(v) /\ UNCHANGED <<publisherVars, reloaderVars, asked, faults>>
RollbackChange(v) == Rollback(v) /\ UNCHANGED <<publisherVars, reloaderVars, asked, faults>>

Transactions ==
    \/ Record
    \/ \E v \in Versions : CommitChange(v) \/ RollbackChange(v)

(* The publisher *)
StartDispatch(p) == Dispatch(p) /\ UNCHANGED <<outboxVars, reloaderVars, asked, faults>>

\* Redis hands the message to every connected subscriber.
Announce(p, v) ==
    /\ Publish(p, v)
    /\ Deliver(v, Gateways)
    /\ UNCHANGED <<outboxVars, asked, faults>>

\* Redis Pub/Sub forgets a message for a subscriber it cannot reach.
AnnounceLossy(p, v, G) ==
    /\ Publish(p, v)
    /\ Deliver(v, G)
    /\ Charge(1)
    /\ UNCHANGED <<outboxVars, asked>>

AnnounceFails(p, v, accepted) ==
    /\ PublishFails(p, v, accepted)
    /\ IF accepted THEN Deliver(v, Gateways) ELSE UNCHANGED reloaderVars
    /\ Charge(1)
    /\ UNCHANGED <<outboxVars, asked>>

Mark(p, v) == MarkPublished(p, v) /\ UNCHANGED <<reloaderVars, asked, faults>>

\* markPublished fails, or the process dies at any point of a dispatch.
DispatchDies(p) ==
    /\ AbandonDispatch(p)
    /\ Charge(1)
    /\ UNCHANGED <<announced, outboxVars, reloaderVars, asked>>

PublisherStep(p) ==
    \/ StartDispatch(p)
    \/ \E v \in Versions :
          \/ Announce(p, v)
          \/ Mark(p, v)
          \/ \E G \in SUBSET Gateways : AnnounceLossy(p, v, G)
          \/ \E accepted \in BOOLEAN : AnnounceFails(p, v, accepted)
    \/ DispatchDies(p)

(* The gateways *)
Receive(g, v, seen) ==
    /\ ReceiveMessage(g, v, seen)
    /\ Charge(Lost(seen))
    /\ UNCHANGED <<outboxVars, publisherVars, asked>>

PollReads(g) == ReconcileRead(g) /\ UNCHANGED <<outboxVars, publisherVars, asked, faults>>

PollRequests(g, q, seen) ==
    /\ ReconcileRequest(g, q, seen)
    /\ Charge(Lost(seen))
    /\ UNCHANGED <<outboxVars, publisherVars, asked>>

PollEnds(g, q, seen) ==
    /\ ReconcileEnd(g, q, seen)
    /\ Charge(Lost(seen))
    /\ UNCHANGED <<outboxVars, publisherVars, asked>>

PollFails(g, seen) ==
    /\ ReconcileFails(g, seen)
    /\ Charge(1 + Lost(seen))
    /\ UNCHANGED <<outboxVars, publisherVars, asked>>

LoadBegins(g) == BeginLoad(g) /\ UNCHANGED <<outboxVars, publisherVars, asked, faults>>

LoadApplies(g, seen) ==
    /\ ApplySnapshot(g, seen)
    /\ Charge(Lost(seen))
    /\ UNCHANGED <<outboxVars, publisherVars, asked>>

LoadBreaks(g, seen) ==
    /\ LoadFails(g, seen)
    /\ Charge(1 + Lost(seen))
    /\ UNCHANGED <<outboxVars, publisherVars, asked>>

TurnEnds(g, seen) ==
    /\ NextTurn(g, seen)
    /\ Charge(Lost(seen))
    /\ UNCHANGED <<outboxVars, publisherVars, asked>>

Settles(g) == Settle(g) /\ UNCHANGED <<outboxVars, publisherVars, asked, faults>>

BootBegins(g) == Boot(g) /\ UNCHANGED <<outboxVars, publisherVars, asked, faults>>

BootEnds(g, seen) ==
    /\ BootFinish(g, seen)
    /\ Charge(Lost(seen))
    /\ UNCHANGED <<outboxVars, publisherVars, asked>>

GatewayDies(g) ==
    /\ Crash(g)
    /\ Charge(1)
    /\ UNCHANGED <<outboxVars, publisherVars, asked>>

\* A running instance refreshes its key well within its time to live, so a
\* key only expires under it after lost writes.
KeyExpires(g) ==
    /\ StatusExpires(g)
    /\ Charge(IF Up(g) THEN 1 ELSE 0)
    /\ UNCHANGED <<outboxVars, publisherVars, asked>>

GatewayStep(g) ==
    \/ PollReads(g) \/ LoadBegins(g) \/ Settles(g)
    \/ BootBegins(g) \/ GatewayDies(g) \/ KeyExpires(g)
    \/ \E seen \in BOOLEAN :
          \/ PollFails(g, seen)
          \/ LoadApplies(g, seen)
          \/ LoadBreaks(g, seen)
          \/ TurnEnds(g, seen)
          \/ BootEnds(g, seen)
          \/ \E v \in Versions : Receive(g, v, seen)
          \/ \E q \in Polls : PollRequests(g, q, seen) \/ PollEnds(g, q, seen)

Query == GetStatus /\ UNCHANGED <<outboxVars, publisherVars, reloaderVars, faults>>

Next ==
    \/ Transactions
    \/ \E p \in Publishers : PublisherStep(p)
    \/ \E g \in Gateways : GatewayStep(g)
    \/ Query

Spec == Init /\ [][Next]_vars

\* The timers and the promise continuations of running processes do run.
\* Nothing is assumed of the control plane's users, of faults, of restarts.
Fairness ==
    /\ \A p \in Publishers :
          /\ WF_vars(StartDispatch(p))
          /\ WF_vars(\E v \in Versions : Announce(p, v))
          /\ WF_vars(\E v \in Versions : Mark(p, v))
    /\ \A g \in Gateways :
          /\ WF_vars(PollReads(g))
          /\ WF_vars(\E q \in Polls : PollRequests(g, q, TRUE))
          /\ WF_vars(\E q \in Polls : PollEnds(g, q, TRUE))
          /\ WF_vars(LoadBegins(g))
          /\ WF_vars(LoadApplies(g, TRUE))
          /\ WF_vars(TurnEnds(g, TRUE))
          /\ WF_vars(Settles(g))

FairSpec == Spec /\ Fairness

-----------------------------------------------------------------------------
\* What a registry labelled with version v has to show: every committed
\* change up to v that did not commit after a higher version.
Due(v) == {w \in committed \ overtaken : w <= v}

\* A running gateway that says it applied version v routes by every change
\* up to v, whatever notifications, reloads, failed loads and restarts led
\* there (targetVersion is fixed before loadSnapshot; startup reads the
\* version before the snapshot).
AppliedMeansShown ==
    \A g \in Gateways : Up(g) => Due(applied[g]) \subseteq registry[g]

\* When GET /v1/runtime-sync calls a running instance synchronized, the
\* instance routes by every change the call found in PostgreSQL, although
\* the call reads PostgreSQL and Redis at different moments and the key may
\* have been written by an earlier incarnation of the instance.
SynchronizedIsTrue ==
    \A g \in Gateways : Up(g) /\ Synchronized(g) => Due(asked) \subseteq registry[g]

\* At-least-once: a row is marked published only after Redis accepted it.
PublishedWasAnnounced == published \subseteq announced

\* A reload in progress always aims above what is applied: a duplicate or
\* old notification never makes a gateway reload what it has.
ReloadsOnlyNewer ==
    \A g \in Gateways : phase[g] \in {"reporting", "loading"} => target[g] > applied[g]

\* Seen from outside, hot reload is ConfigViews: a gateway's registry and
\* applied version move together, honestly and only forward while it runs.
Views == INSTANCE ConfigViews WITH
    changes <- committed, late <- overtaken, up <- {g \in Gateways : Up(g)},
    view <- registry, claim <- applied
ImplementsConfigViews == Views!Spec

\* The version an instance shows in Redis never goes back while its key
\* lives, not even across a restart of the instance.
ReportedNeverRegresses ==
    [][\A g \in Gateways : status'[g] # NoStatus => status[g].applied <= status'[g].applied]_vars

\* Every committed change that was not overtaken reaches the registry of
\* every gateway that keeps running, though notifications and wake-ups are
\* lost, and the gateway comes to show in Redis a version at least as high.
ChangesReachGateways ==
    /\ \A g \in Gateways, v \in Versions :
          (v \in committed \ overtaken /\ Up(g)) ~> (v \in registry[g] \/ ~Up(g))
    /\ \A g \in Gateways, v \in Versions :
          (v \in committed /\ Up(g)) ~> (status[g].applied >= v \/ ~Up(g))

\* Every committed row is eventually marked published.
OutboxDrains == \A v \in Versions : v \in committed ~> v \in published

\* The documentation's claim without the exception for overtaken versions:
\* every committed change reaches every gateway that keeps running.  A
\* transaction that commits after one with a higher version escapes it,
\* since requestReload and reconcile only compare version numbers.
EveryChangeReachesGateways ==
    \A g \in Gateways, v \in Versions :
        (v \in committed /\ Up(g)) ~> (v \in registry[g] \/ ~Up(g))

\* The runbook's claim: once trouble is over, an instance that keeps running
\* goes back to state "applied".  One failed reconciliation query leaves the
\* state at "error" until the next change.
ErrorStateClears ==
    \A g \in Gateways : (Up(g) /\ state[g] = "error") ~> (state[g] = "applied" \/ ~Up(g))
=============================================================================
