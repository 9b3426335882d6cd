-------------------------- MODULE RuntimeSyncProofs --------------------------
(***************************************************************************)
(* Proofs about RuntimeSync, for every number of changes, gateways,        *)
(* publishers, overlapping reconciliations and faults.                     *)
(***************************************************************************)
EXTENDS RuntimeSync, TLAPS

\* While a snapshot is being read, it is bound to show everything due at the
\* version it will be applied as, and everything the registry shows now.
LoadCovers ==
    \A g \in Gateways :
        /\ phase[g] \in {"loading", "bootloading"} => Due(target[g]) \subseteq base[g]
        /\ phase[g] = "loading" => registry[g] \subseteq base[g]

\* The status key never runs ahead of the instance, nor of the version that
\* a starting instance has read.
StatusBehind ==
    \A g \in Gateways :
        /\ Up(g) => status[g].applied <= applied[g]
        /\ phase[g] \in {"booting", "bootloading"} => status[g].applied <= target[g]

\* The row a publisher is about to mark has been announced.
MarksAnnounced ==
    \A p \in Publishers, v \in Versions :
        stage[p] = "mark" /\ IsCurrent(p, v) => v \in announced

IndInv ==
    /\ TypeOK
    /\ AppliedMeansShown
    /\ LoadCovers
    /\ ReloadsOnlyNewer
    /\ StatusBehind
    /\ PublishedWasAnnounced
    /\ MarksAnnounced

-----------------------------------------------------------------------------
(* Init *)

LEMMA InitInd == Init => IndInv
<1> SUFFICES ASSUME Init PROVE IndInv
  OBVIOUS
<1> USE DEF Init, OutboxInit, PublisherInit, ReloaderInit, StatusInit
<1>1. OutboxTypeOK
  BY OutboxAssumption DEF OutboxTypeOK, Versions
<1>2. PublisherTypeOK
  BY DEF PublisherTypeOK, Stages
<1>3. ReloaderTypeOK
  BY DEF ReloaderTypeOK, Phases, States, NoStatus
<1>4. StatusTypeOK /\ faults \in 0 .. MaxFaults
  BY FaultAssumption DEF StatusTypeOK
<1>5. AppliedMeansShown /\ LoadCovers /\ ReloadsOnlyNewer /\ StatusBehind
  BY DEF AppliedMeansShown, LoadCovers, ReloadsOnlyNewer, StatusBehind, Up
<1>6. PublishedWasAnnounced /\ MarksAnnounced
  BY DEF PublishedWasAnnounced, MarksAnnounced
<1> QED
  BY <1>1, <1>2, <1>3, <1>4, <1>5, <1>6 DEF IndInv, TypeOK

-----------------------------------------------------------------------------
(* Control-plane transactions *)

\* A commit makes nothing more due at a version that was already there: the
\* new change is either above every committed version or overtaken.
LEMMA CommitKeepsDue ==
  ASSUME OutboxTypeOK, NEW v, Commit(v), NEW u \in committed \cup {0}
  PROVE  {w \in committed' \ overtaken' : w <= u} \subseteq Due(u)
BY OutboxAssumption DEF OutboxTypeOK, Commit, Due, Versions

LEMMA TransactionsInd == IndInv /\ Transactions => IndInv'
<1> SUFFICES ASSUME IndInv, Transactions PROVE IndInv'
  OBVIOUS
<1> USE DEF IndInv, TypeOK
<1>1. ASSUME Record PROVE IndInv'
  <2>1. OutboxTypeOK'
    BY <1>1, OutboxAssumption DEF Record, recordGatewayConfigChange, OutboxTypeOK, Versions
  <2>2. UNCHANGED <<committed, overtaken, published, publisherVars, reloaderVars, asked, faults>>
    BY <1>1 DEF Record, recordGatewayConfigChange
  <2>3. (PublisherTypeOK /\ ReloaderTypeOK /\ StatusTypeOK /\ faults \in 0 .. MaxFaults)'
    BY <2>2 DEF PublisherTypeOK, ReloaderTypeOK, StatusTypeOK, publisherVars, reloaderVars
  <2>4. (AppliedMeansShown /\ LoadCovers /\ ReloadsOnlyNewer /\ StatusBehind)'
    BY <2>2 DEF AppliedMeansShown, LoadCovers, ReloadsOnlyNewer, StatusBehind, Due, Up, reloaderVars
  <2>5. (PublishedWasAnnounced /\ MarksAnnounced)'
    BY <2>2 DEF PublishedWasAnnounced, MarksAnnounced, IsCurrent, publisherVars
  <2> QED
    BY <2>1, <2>3, <2>4, <2>5
<1>2. ASSUME NEW v \in Versions, RollbackChange(v) PROVE IndInv'
  <2>1. OutboxTypeOK'
    BY <1>2 DEF RollbackChange, Rollback, OutboxTypeOK
  <2>2. UNCHANGED <<committed, overtaken, published, publisherVars, reloaderVars, asked, faults>>
    BY <1>2 DEF RollbackChange, Rollback
  <2>3. (PublisherTypeOK /\ ReloaderTypeOK /\ StatusTypeOK /\ faults \in 0 .. MaxFaults)'
    BY <2>2 DEF PublisherTypeOK, ReloaderTypeOK, StatusTypeOK, publisherVars, reloaderVars
  <2>4. (AppliedMeansShown /\ LoadCovers /\ ReloadsOnlyNewer /\ StatusBehind)'
    BY <2>2 DEF AppliedMeansShown, LoadCovers, ReloadsOnlyNewer, StatusBehind, Due, Up, reloaderVars
  <2>5. (PublishedWasAnnounced /\ MarksAnnounced)'
    BY <2>2 DEF PublishedWasAnnounced, MarksAnnounced, IsCurrent, publisherVars
  <2> QED
    BY <2>1, <2>3, <2>4, <2>5
<1>3. ASSUME NEW v \in Versions, CommitChange(v) PROVE IndInv'
  <2>1. Commit(v) /\ UNCHANGED <<publisherVars, reloaderVars, asked, faults>>
    BY <1>3 DEF CommitChange
  <2>2. OutboxTypeOK' /\ committed \subseteq committed' /\ UNCHANGED published
    BY <2>1 DEF Commit, OutboxTypeOK
  <2>3. PublisherTypeOK'
    BY <2>1, <2>2 DEF PublisherTypeOK, publisherVars
  <2>4. ReloaderTypeOK'
    BY <2>1, <2>2 DEF ReloaderTypeOK, reloaderVars
  <2>5. (StatusTypeOK /\ faults \in 0 .. MaxFaults)'
    BY <2>1, <2>2 DEF StatusTypeOK
  <2>6. \A u \in committed \cup {0} : {w \in committed' \ overtaken' : w <= u} \subseteq Due(u)
    BY <2>1, CommitKeepsDue
  <2>7. AppliedMeansShown' /\ LoadCovers'
    BY <2>1, <2>6 DEF AppliedMeansShown, LoadCovers, Due, Up, reloaderVars, ReloaderTypeOK
  <2>8. ReloadsOnlyNewer' /\ StatusBehind'
    BY <2>1 DEF ReloadsOnlyNewer, StatusBehind, Up, reloaderVars
  <2>9. (PublishedWasAnnounced /\ MarksAnnounced)'
    BY <2>1, <2>2 DEF PublishedWasAnnounced, MarksAnnounced, IsCurrent, publisherVars
  <2> QED
    BY <2>2, <2>3, <2>4, <2>5, <2>7, <2>8, <2>9
<1> QED
  BY <1>1, <1>2, <1>3 DEF Transactions

-----------------------------------------------------------------------------
(* The publisher *)

LEMMA ChargeType ==
  ASSUME faults \in 0 .. MaxFaults, NEW n \in Nat, Charge(n)
  PROVE  faults' \in 0 .. MaxFaults
BY FaultAssumption DEF Charge

\* Delivering a committed version to subscribers only fills inboxes.
LEMMA DeliverInd ==
  ASSUME IndInv, UNCHANGED <<outboxVars, asked>>, NEW v \in committed, NEW G, Deliver(v, G)
  PROVE  (ReloaderTypeOK /\ StatusTypeOK /\ AppliedMeansShown /\ LoadCovers
            /\ ReloadsOnlyNewer /\ StatusBehind)'
<1> USE DEF IndInv, TypeOK, Deliver, outboxVars
<1>1. ReloaderTypeOK' /\ StatusTypeOK'
  BY DEF ReloaderTypeOK, StatusTypeOK
<1>2. (AppliedMeansShown /\ LoadCovers /\ ReloadsOnlyNewer /\ StatusBehind)'
  BY DEF AppliedMeansShown, LoadCovers, ReloadsOnlyNewer, StatusBehind, Due, Up
<1> QED
  BY <1>1, <1>2

\* Leaving outbox, gateways and status query alone keeps what is said of them.
LEMMA ReloaderFrame ==
  ASSUME IndInv, UNCHANGED <<outboxVars, reloaderVars, asked>>
  PROVE  (OutboxTypeOK /\ ReloaderTypeOK /\ StatusTypeOK /\ AppliedMeansShown
            /\ LoadCovers /\ ReloadsOnlyNewer /\ StatusBehind)'
<1> USE DEF IndInv, TypeOK, outboxVars, reloaderVars
<1>1. (OutboxTypeOK /\ ReloaderTypeOK /\ StatusTypeOK)'
  BY DEF OutboxTypeOK, ReloaderTypeOK, StatusTypeOK
<1>2. (AppliedMeansShown /\ LoadCovers /\ ReloadsOnlyNewer /\ StatusBehind)'
  BY DEF AppliedMeansShown, LoadCovers, ReloadsOnlyNewer, StatusBehind, Due, Up
<1> QED
  BY <1>1, <1>2

\* Only the lowest version of a batch is current.
LEMMA CurrentUnique ==
  ASSUME IndInv, NEW p \in Publishers, NEW v, NEW w, IsCurrent(p, v), IsCurrent(p, w)
  PROVE  v = w /\ v \in committed /\ v \in Versions
BY OutboxAssumption
   DEF IndInv, TypeOK, PublisherTypeOK, OutboxTypeOK, IsCurrent, Versions

LEMMA PublisherInd ==
  ASSUME IndInv, NEW p \in Publishers, PublisherStep(p)
  PROVE  IndInv'
<1> USE DEF IndInv, TypeOK
<1>1. ASSUME StartDispatch(p) PROVE IndInv'
  <2>1. Dispatch(p) /\ UNCHANGED <<outboxVars, reloaderVars, asked, faults>>
    BY <1>1 DEF StartDispatch
  <2>2. PublisherTypeOK'
    BY <2>1 DEF Dispatch, PublisherTypeOK, Stages, outboxVars
  <2>3. PublishedWasAnnounced'
    BY <2>1 DEF Dispatch, PublishedWasAnnounced, outboxVars
  <2>4. MarksAnnounced'
    BY <2>1 DEF Dispatch, MarksAnnounced, IsCurrent, PublisherTypeOK, outboxVars
  <2> QED
    BY <2>1, <2>2, <2>3, <2>4, ReloaderFrame
<1>2. ASSUME NEW v \in Versions, NEW G, Publish(p, v), Deliver(v, G),
             faults' \in 0 .. MaxFaults, UNCHANGED <<outboxVars, asked>>
      PROVE IndInv'
  <2>1. v \in committed /\ \A w : IsCurrent(p, w) => w = v
    BY <1>2, CurrentUnique DEF Publish
  <2>2. PublisherTypeOK' /\ PublishedWasAnnounced'
    BY <1>2, <2>1 DEF Publish, PublisherTypeOK, PublishedWasAnnounced, Stages, outboxVars
  <2>3. MarksAnnounced'
    BY <1>2, <2>1 DEF Publish, MarksAnnounced, IsCurrent, PublisherTypeOK
  <2>4. OutboxTypeOK'
    BY <1>2 DEF OutboxTypeOK, outboxVars
  <2> QED
    BY <1>2, <2>1, <2>2, <2>3, <2>4, DeliverInd
<1>3. ASSUME AbandonDispatch(p), announced \subseteq announced', announced' \subseteq committed,
             faults' \in 0 .. MaxFaults, UNCHANGED outboxVars,
             (ReloaderTypeOK /\ StatusTypeOK /\ AppliedMeansShown /\ LoadCovers
                /\ ReloadsOnlyNewer /\ StatusBehind)'
      PROVE IndInv'
  <2>1. OutboxTypeOK' /\ PublisherTypeOK' /\ PublishedWasAnnounced'
    BY <1>3 DEF AbandonDispatch, OutboxTypeOK, PublisherTypeOK, PublishedWasAnnounced,
                Stages, outboxVars
  <2>2. MarksAnnounced'
    BY <1>3 DEF AbandonDispatch, MarksAnnounced, IsCurrent, PublisherTypeOK
  <2> QED
    BY <1>3, <2>1, <2>2
<1>4. ASSUME NEW v \in Versions, Announce(p, v) PROVE IndInv'
  BY <1>2, <1>4 DEF Announce
<1>5. ASSUME NEW v \in Versions, NEW G \in SUBSET Gateways, AnnounceLossy(p, v, G) PROVE IndInv'
  BY <1>2, <1>5, ChargeType DEF AnnounceLossy
<1>6. ASSUME NEW v \in Versions, NEW accepted \in BOOLEAN, AnnounceFails(p, v, accepted)
      PROVE IndInv'
  <2>1. v \in committed /\ faults' \in 0 .. MaxFaults
    BY <1>6, CurrentUnique, ChargeType DEF AnnounceFails, PublishFails
  <2>2. announced \subseteq announced' /\ announced' \subseteq committed
    BY <1>6, <2>1 DEF AnnounceFails, PublishFails, PublisherTypeOK
  <2>3. (ReloaderTypeOK /\ StatusTypeOK /\ AppliedMeansShown /\ LoadCovers
           /\ ReloadsOnlyNewer /\ StatusBehind)'
    BY <1>6, <2>1, DeliverInd, ReloaderFrame DEF AnnounceFails
  <2> QED
    BY <1>3, <1>6, <2>1, <2>2, <2>3 DEF AnnounceFails, PublishFails
<1>7. ASSUME DispatchDies(p) PROVE IndInv'
  BY <1>3, <1>7, ChargeType, ReloaderFrame DEF DispatchDies, PublisherTypeOK
<1>8. ASSUME NEW v \in Versions, Mark(p, v) PROVE IndInv'
  <2>1. MarkPublished(p, v) /\ UNCHANGED <<reloaderVars, asked, faults>>
    BY <1>8 DEF Mark
  <2>2. v \in committed /\ v \in announced
    BY <2>1, CurrentUnique DEF MarkPublished, MarksAnnounced
  <2>3. /\ UNCHANGED <<nextVersion, inflight, committed, overtaken>>
        /\ published' = published \cup {v}
    BY <2>1 DEF MarkPublished, markGatewayConfigChangePublished
  <2>4. OutboxTypeOK' /\ PublisherTypeOK' /\ PublishedWasAnnounced'
    BY <2>1, <2>2, <2>3 DEF MarkPublished, OutboxTypeOK, PublisherTypeOK,
                            PublishedWasAnnounced, Stages
  <2>5. MarksAnnounced'
    BY <2>1 DEF MarkPublished, MarksAnnounced, IsCurrent, PublisherTypeOK
  <2>6. ReloaderTypeOK' /\ StatusTypeOK'
    BY <2>1, <2>3 DEF ReloaderTypeOK, StatusTypeOK, reloaderVars
  <2>7. (AppliedMeansShown /\ LoadCovers /\ ReloadsOnlyNewer /\ StatusBehind)'
    BY <2>1, <2>3 DEF AppliedMeansShown, LoadCovers, ReloadsOnlyNewer, StatusBehind, Due, Up,
                      reloaderVars
  <2> QED
    BY <2>1, <2>4, <2>5, <2>6, <2>7
<1> QED
  BY <1>1, <1>4, <1>5, <1>6, <1>7, <1>8 DEF PublisherStep

-----------------------------------------------------------------------------
(* The gateways *)

\* What a gateway step has to preserve; the rest does not concern it.
ReloaderInv == ReloaderTypeOK /\ AppliedMeansShown /\ LoadCovers /\ ReloadsOnlyNewer /\ StatusBehind

LEMMA GatewayFrame ==
  ASSUME IndInv, UNCHANGED <<outboxVars, publisherVars, asked>>,
         faults' \in 0 .. MaxFaults, ReloaderInv'
  PROVE  IndInv'
<1> USE DEF IndInv, TypeOK, outboxVars, publisherVars
<1>1. (OutboxTypeOK /\ PublisherTypeOK /\ StatusTypeOK)'
  BY DEF OutboxTypeOK, PublisherTypeOK, StatusTypeOK
<1>2. (PublishedWasAnnounced /\ MarksAnnounced)'
  BY DEF PublishedWasAnnounced, MarksAnnounced, IsCurrent
<1> QED
  BY <1>1, <1>2 DEF ReloaderInv

LEMMA VersionsAreNumbers ==
  ASSUME OutboxTypeOK, ReloaderTypeOK, NEW g \in Gateways
  PROVE  /\ applied[g] \in Nat
         /\ requested[g] \in Nat
         /\ target[g] \in Nat
         /\ status[g].applied \in Nat
<1>1. committed \cup {0} \subseteq Nat
  BY OutboxAssumption DEF OutboxTypeOK, Versions
<1>2. status[g].applied \in committed \cup {0}
  BY DEF ReloaderTypeOK
<1> QED
  BY <1>1, <1>2 DEF ReloaderTypeOK

\* Reporting the applied version, or failing to, keeps the status key behind.
LEMMA ReportKeepsBehind ==
  ASSUME OutboxTypeOK, ReloaderTypeOK, StatusBehind, NEW g \in Gateways, NEW s,
         \/ UNCHANGED status
         \/ status' = [status EXCEPT ![g] = [state |-> s, applied |-> applied[g]]],
         NEW h \in Gateways, Up(h)
  PROVE  status'[h].applied <= applied[h]
<1>1. CASE UNCHANGED status
  BY <1>1 DEF StatusBehind
<1>2. CASE status' = [status EXCEPT ![g] = [state |-> s, applied |-> applied[g]]]
  <2>1. CASE h = g
    <3>1. status'[h] = [state |-> s, applied |-> applied[g]]
      BY <1>2, <2>1 DEF ReloaderTypeOK
    <3> QED
      BY <2>1, <3>1, VersionsAreNumbers
  <2>2. CASE h # g
    BY <1>2, <2>2 DEF ReloaderTypeOK, StatusBehind
  <2> QED
    BY <2>1, <2>2
<1> QED
  BY <1>1, <1>2

\* requestReload with a version read from PostgreSQL or from Redis.
LEMMA RequestReloadInd ==
  ASSUME OutboxTypeOK, ReloaderInv, UNCHANGED <<committed, overtaken, applied, base, registry>>,
         NEW g \in Gateways, Up(g), NEW v \in committed \cup {0}, NEW seen \in BOOLEAN,
         requestReload(g, v, seen),
         polls' \in [Gateways -> SUBSET {q \in Polls : q.version \in committed \cup {0}}],
         inbox' \in [Gateways -> SUBSET committed]
  PROVE  ReloaderInv'
<1> USE DEF ReloaderInv
<1>1. CASE ~Newer(g, v)
  <2>1. /\ UNCHANGED <<requested, target, state, phase>>
        /\ \/ UNCHANGED status
           \/ status' = [status EXCEPT ![g] = [state |-> state[g], applied |-> applied[g]]]
    BY <1>1 DEF requestReload, reportStatus
  <2>2. ReloaderTypeOK'
    BY <2>1 DEF ReloaderTypeOK
  <2>3. AppliedMeansShown' /\ LoadCovers' /\ ReloadsOnlyNewer'
    BY <2>1 DEF AppliedMeansShown, LoadCovers, ReloadsOnlyNewer, Due, Up
  <2>4. StatusBehind'
    <3>1. \A h \in Gateways : Up(h) => status'[h].applied <= applied[h]
      BY <2>1, ReportKeepsBehind
    <3>2. \A h \in Gateways : h # g => status'[h] = status[h]
      BY <2>1 DEF ReloaderTypeOK
    <3> QED
      BY <2>1, <3>1, <3>2 DEF StatusBehind, Up
  <2> QED
    BY <2>2, <2>3, <2>4
<1>2. CASE Newer(g, v)
  <2> DEFINE r == IF requested[g] > v THEN requested[g] ELSE v
  <2>1. r \in committed \cup {0} /\ r > applied[g] /\ requested' = [requested EXCEPT ![g] = r]
    <3>1. committed \cup {0} \subseteq Nat
      BY OutboxAssumption DEF OutboxTypeOK, Versions
    <3>2. requested[g] \in committed \cup {0} /\ applied[g] \in Nat
      BY VersionsAreNumbers DEF ReloaderTypeOK
    <3>3. v > applied[g]
      BY <1>2 DEF Newer
    <3>4. requested' = [requested EXCEPT ![g] = r]
      BY <1>2 DEF requestReload
    <3> QED
      BY <3>1, <3>2, <3>3, <3>4
  <2>2. CASE phase[g] = "idle"
    <3> HIDE DEF r
    <3>1. BeginTurn(g, r, seen)
      BY <1>2, <2>2 DEF requestReload, r
    <3>2. /\ target' = [target EXCEPT ![g] = r]
          /\ state' = [state EXCEPT ![g] = "loading"]
          /\ phase' = [phase EXCEPT ![g] = "reporting"]
          /\ \/ UNCHANGED status
             \/ status' = [status EXCEPT ![g] = [state |-> "loading", applied |-> applied[g]]]
      BY <3>1 DEF BeginTurn, reportStatus
    <3>3. ReloaderTypeOK'
      BY <2>1, <3>2 DEF ReloaderTypeOK, Phases, States
    <3>4. AppliedMeansShown' /\ LoadCovers' /\ ReloadsOnlyNewer'
      BY <2>1, <3>2 DEF ReloaderTypeOK, AppliedMeansShown, LoadCovers, ReloadsOnlyNewer, Due, Up
    <3>5. StatusBehind'
      <4>1. \A h \in Gateways : Up(h) => status'[h].applied <= applied[h]
        BY <3>2, ReportKeepsBehind
      <4>2. \A h \in Gateways : h # g => status'[h] = status[h] /\ phase'[h] = phase[h]
                                          /\ target'[h] = target[h]
        BY <3>2 DEF ReloaderTypeOK
      <4>3. phase'[g] = "reporting"
        BY <3>2 DEF ReloaderTypeOK
      <4> QED
        BY <4>1, <4>2, <4>3 DEF StatusBehind, Up
    <3> QED
      BY <3>3, <3>4, <3>5
  <2>3. CASE phase[g] # "idle"
    <3> HIDE DEF r
    <3>1. UNCHANGED <<target, state, phase, status>>
      BY <1>2, <2>3 DEF requestReload
    <3>2. ReloaderTypeOK'
      BY <2>1, <3>1 DEF ReloaderTypeOK
    <3>3. AppliedMeansShown' /\ LoadCovers' /\ ReloadsOnlyNewer' /\ StatusBehind'
      BY <3>1 DEF AppliedMeansShown, LoadCovers, ReloadsOnlyNewer, StatusBehind, Due, Up
    <3> QED
      BY <3>2, <3>3
  <2> QED
    BY <2>2, <2>3
<1> QED
  BY <1>1, <1>2

LEMMA GatewayInd ==
  ASSUME IndInv, NEW g \in Gateways, GatewayStep(g)
  PROVE  IndInv'
<1> USE DEF IndInv, TypeOK
<1>0. ReloaderInv /\ OutboxTypeOK
  BY DEF ReloaderInv
<1>1. ASSUME PollReads(g) PROVE IndInv'
  <2>1. /\ UNCHANGED <<outboxVars, publisherVars, asked, faults>>
        /\ UNCHANGED <<phase, applied, requested, target, base, registry, state, inbox, status>>
        /\ UNCHANGED <<committed, overtaken>>
    BY <1>1 DEF PollReads, ReconcileRead, outboxVars
  <2>2. PICK v \in committed \cup {0} :
           polls' = [polls EXCEPT ![g] = @ \cup {[version |-> v, at |-> "read"]}]
    BY <1>1 DEF PollReads, ReconcileRead
  <2>3. [version |-> v, at |-> "read"] \in {q \in Polls : q.version \in committed \cup {0}}
    BY DEF Polls, OutboxTypeOK
  <2>4. ReloaderTypeOK'
    BY <2>1, <2>2, <2>3 DEF ReloaderTypeOK
  <2>5. (AppliedMeansShown /\ LoadCovers /\ ReloadsOnlyNewer /\ StatusBehind)'
    BY <2>1 DEF AppliedMeansShown, LoadCovers, ReloadsOnlyNewer, StatusBehind, Due, Up
  <2> QED
    BY <2>1, <2>4, <2>5, GatewayFrame DEF ReloaderInv
<1>2. ASSUME NEW v \in Versions, NEW seen \in BOOLEAN, Receive(g, v, seen) PROVE IndInv'
  <2>1. /\ ReceiveMessage(g, v, seen)
        /\ UNCHANGED <<outboxVars, publisherVars, asked, committed, overtaken>>
        /\ faults' \in 0 .. MaxFaults
    BY <1>2, ChargeType DEF Receive, Lost, outboxVars
  <2>2. inbox' \in [Gateways -> SUBSET committed] /\ v \in committed
    BY <2>1 DEF ReceiveMessage, ReloaderTypeOK
  <2>3. ReloaderInv'
    BY <1>0, <2>1, <2>2, RequestReloadInd DEF ReceiveMessage, ReloaderTypeOK
  <2> QED
    BY <2>1, <2>3, GatewayFrame
<1>3. ASSUME NEW q \in Polls, NEW seen \in BOOLEAN, PollRequests(g, q, seen) PROVE IndInv'
  <2>1. /\ ReconcileRequest(g, q, seen)
        /\ UNCHANGED <<outboxVars, publisherVars, asked, committed, overtaken>>
        /\ faults' \in 0 .. MaxFaults
    BY <1>3, ChargeType DEF PollRequests, Lost, outboxVars
  <2>2. q.version \in committed \cup {0}
    BY <2>1 DEF ReconcileRequest, ReloaderTypeOK
  <2>3. PICK at \in {"waiting", "resumed"} :
           polls' = [polls EXCEPT ![g] = (@ \ {q}) \cup {[q EXCEPT !.at = at]}]
    BY <2>1 DEF ReconcileRequest
  <2>4. polls' \in [Gateways -> SUBSET {r \in Polls : r.version \in committed \cup {0}}]
    <3>1. [q EXCEPT !.at = at] \in {r \in Polls : r.version \in committed \cup {0}}
      BY <2>2 DEF Polls
    <3> QED
      BY <2>3, <3>1 DEF ReloaderTypeOK
  <2>5. /\ Up(g) /\ requestReload(g, q.version, seen)
        /\ UNCHANGED <<applied, base, registry>>
        /\ inbox' \in [Gateways -> SUBSET committed]
    BY <2>1 DEF ReconcileRequest, ReloaderTypeOK
  <2>6. ReloaderInv'
    BY <1>0, <2>1, <2>2, <2>4, <2>5, RequestReloadInd
  <2> QED
    BY <2>1, <2>6, GatewayFrame
<1>4. ASSUME NEW q \in Polls, NEW seen \in BOOLEAN, PollEnds(g, q, seen) PROVE IndInv'
  <2>1. /\ UNCHANGED <<outboxVars, publisherVars, asked, committed, overtaken>>
        /\ UNCHANGED <<phase, applied, requested, target, base, registry, state, inbox>>
        /\ Up(g) /\ polls' = [polls EXCEPT ![g] = @ \ {q}]
        /\ \/ UNCHANGED status
           \/ status' = [status EXCEPT ![g] = [state |-> state[g], applied |-> applied[g]]]
        /\ faults' \in 0 .. MaxFaults
    BY <1>4, ChargeType DEF PollEnds, ReconcileEnd, reportStatus, Lost, outboxVars
  <2>2. ReloaderTypeOK'
    BY <2>1 DEF ReloaderTypeOK
  <2>3. (AppliedMeansShown /\ LoadCovers /\ ReloadsOnlyNewer)'
    BY <2>1 DEF AppliedMeansShown, LoadCovers, ReloadsOnlyNewer, Due, Up
  <2>4. StatusBehind'
    <3>1. \A h \in Gateways : Up(h) => status'[h].applied <= applied[h]
      BY <1>0, <2>1, ReportKeepsBehind DEF ReloaderInv
    <3>2. \A h \in Gateways : h # g => status'[h] = status[h]
      BY <2>1 DEF ReloaderTypeOK
    <3> QED
      BY <2>1, <3>1, <3>2 DEF StatusBehind, Up
  <2> QED
    BY <2>1, <2>2, <2>3, <2>4, GatewayFrame DEF ReloaderInv
<1>5. ASSUME NEW seen \in BOOLEAN, PollFails(g, seen) PROVE IndInv'
  <2>1. /\ UNCHANGED <<outboxVars, publisherVars, asked, committed, overtaken>>
        /\ UNCHANGED <<phase, applied, requested, target, base, registry, polls, inbox>>
        /\ Up(g) /\ state' = [state EXCEPT ![g] = "error"]
        /\ \/ UNCHANGED status
           \/ status' = [status EXCEPT ![g] = [state |-> "error", applied |-> applied[g]]]
        /\ faults' \in 0 .. MaxFaults
    BY <1>5, ChargeType DEF PollFails, ReconcileFails, reportStatus, Lost, outboxVars
  <2>2. ReloaderTypeOK'
    BY <2>1 DEF ReloaderTypeOK, States
  <2>3. (AppliedMeansShown /\ LoadCovers /\ ReloadsOnlyNewer)'
    BY <2>1 DEF AppliedMeansShown, LoadCovers, ReloadsOnlyNewer, Due, Up
  <2>4. StatusBehind'
    <3>1. \A h \in Gateways : Up(h) => status'[h].applied <= applied[h]
      BY <1>0, <2>1, ReportKeepsBehind DEF ReloaderInv
    <3>2. \A h \in Gateways : h # g => status'[h] = status[h]
      BY <2>1 DEF ReloaderTypeOK
    <3> QED
      BY <2>1, <3>1, <3>2 DEF StatusBehind, Up
  <2> QED
    BY <2>1, <2>2, <2>3, <2>4, GatewayFrame DEF ReloaderInv
<1>6. ASSUME LoadBegins(g) PROVE IndInv'
  <2>1. /\ UNCHANGED <<outboxVars, publisherVars, asked, committed, overtaken, faults>>
        /\ UNCHANGED <<applied, requested, target, registry, state, polls, inbox, status>>
        /\ base' = [base EXCEPT ![g] = committed]
    BY <1>6 DEF LoadBegins, BeginLoad, outboxVars
  <2>2. \/ phase[g] = "booting" /\ phase' = [phase EXCEPT ![g] = "bootloading"]
        \/ phase[g] = "reporting" /\ phase' = [phase EXCEPT ![g] = "loading"]
    BY <1>6 DEF LoadBegins, BeginLoad
  <2>3. ReloaderTypeOK'
    BY <2>1, <2>2 DEF ReloaderTypeOK, Phases
  <2>4. AppliedMeansShown' /\ LoadCovers'
    BY <2>1, <2>2 DEF ReloaderTypeOK, AppliedMeansShown, LoadCovers, Due, Up
  <2>5. ReloadsOnlyNewer' /\ StatusBehind'
    BY <2>1, <2>2 DEF ReloaderTypeOK, ReloadsOnlyNewer, StatusBehind, Up
  <2> QED
    BY <2>1, <2>3, <2>4, <2>5, GatewayFrame DEF ReloaderInv
<1>7. ASSUME NEW seen \in BOOLEAN, LoadApplies(g, seen) PROVE IndInv'
  <2>1. /\ UNCHANGED <<outboxVars, publisherVars, asked, committed, overtaken>>
        /\ UNCHANGED <<requested, target, polls, inbox>>
        /\ phase[g] = "loading" /\ phase' = [phase EXCEPT ![g] = "reported"]
        /\ applied' = [applied EXCEPT ![g] = target[g]]
        /\ state' = [state EXCEPT ![g] = "applied"]
        /\ base' = [base EXCEPT ![g] = {}]
        /\ faults' \in 0 .. MaxFaults
    BY <1>7, ChargeType DEF LoadApplies, ApplySnapshot, Lost, outboxVars
  <2>2. \/ UNCHANGED status
        \/ status' = [status EXCEPT ![g] = [state |-> "applied", applied |-> target[g]]]
    BY <1>7 DEF LoadApplies, ApplySnapshot, reportStatus
  <2>3. PICK S \in SUBSET committed :
           base[g] \subseteq S /\ registry' = [registry EXCEPT ![g] = S]
    BY <1>7 DEF LoadApplies, ApplySnapshot, Snapshots
  <2>4. ReloaderTypeOK'
    BY <2>1, <2>2, <2>3 DEF ReloaderTypeOK, Phases, States
  <2>5. AppliedMeansShown' /\ LoadCovers'
    BY <2>1, <2>3 DEF ReloaderTypeOK, AppliedMeansShown, LoadCovers, Due, Up
  <2>6. ReloadsOnlyNewer'
    BY <2>1 DEF ReloaderTypeOK, ReloadsOnlyNewer
  <2>7. StatusBehind'
    <3>1. \A h \in Gateways : h # g => /\ status'[h] = status[h] /\ phase'[h] = phase[h]
                                        /\ applied'[h] = applied[h] /\ target'[h] = target[h]
      BY <2>1, <2>2 DEF ReloaderTypeOK
    <3>2. applied[g] < target[g] /\ Up(g)
      BY <2>1 DEF ReloadsOnlyNewer, Up
    <3>3. status'[g].applied \in {status[g].applied, target[g]} /\ status[g].applied <= applied[g]
      BY <2>2, <3>2 DEF ReloaderTypeOK, StatusBehind
    <3>4. status'[g].applied <= target[g]
      BY <1>0, <3>2, <3>3, VersionsAreNumbers DEF ReloaderInv
    <3>5. applied'[g] = target[g] /\ phase'[g] = "reported"
      BY <2>1 DEF ReloaderTypeOK
    <3> QED
      BY <3>1, <3>4, <3>5 DEF StatusBehind, Up
  <2> QED
    BY <2>1, <2>4, <2>5, <2>6, <2>7, GatewayFrame DEF ReloaderInv
<1>8. ASSUME NEW seen \in BOOLEAN, LoadBreaks(g, seen) PROVE IndInv'
  <2>1. /\ UNCHANGED <<outboxVars, publisherVars, asked, committed, overtaken>>
        /\ UNCHANGED <<applied, target, registry, polls, inbox>>
        /\ phase[g] = "loading" /\ phase' = [phase EXCEPT ![g] = "reported"]
        /\ requested' = [requested EXCEPT ![g] = applied[g]]
        /\ state' = [state EXCEPT ![g] = "error"]
        /\ base' = [base EXCEPT ![g] = {}]
        /\ \/ UNCHANGED status
           \/ status' = [status EXCEPT ![g] = [state |-> "error", applied |-> applied[g]]]
        /\ faults' \in 0 .. MaxFaults
    BY <1>8, ChargeType DEF LoadBreaks, LoadFails, reportStatus, Lost, outboxVars
  <2>2. ReloaderTypeOK'
    BY <2>1 DEF ReloaderTypeOK, Phases, States
  <2>3. AppliedMeansShown' /\ LoadCovers' /\ ReloadsOnlyNewer'
    BY <2>1 DEF ReloaderTypeOK, AppliedMeansShown, LoadCovers, ReloadsOnlyNewer, Due, Up
  <2>4. StatusBehind'
    <3>1. \A h \in Gateways : Up(h) => status'[h].applied <= applied[h]
      BY <1>0, <2>1, ReportKeepsBehind DEF ReloaderInv
    <3>2. \A h \in Gateways : h # g => status'[h] = status[h] /\ phase'[h] = phase[h]
      BY <2>1 DEF ReloaderTypeOK
    <3>3. Up(g) /\ phase'[g] = "reported"
      BY <2>1 DEF ReloaderTypeOK, Up
    <3> QED
      BY <2>1, <3>1, <3>2, <3>3 DEF StatusBehind, Up
  <2> QED
    BY <2>1, <2>2, <2>3, <2>4, GatewayFrame DEF ReloaderInv
<1>9. ASSUME NEW seen \in BOOLEAN, TurnEnds(g, seen) PROVE IndInv'
  <2>1. /\ UNCHANGED <<outboxVars, publisherVars, asked, committed, overtaken>>
        /\ UNCHANGED <<applied, requested, base, registry, polls, inbox>>
        /\ phase[g] = "reported"
        /\ faults' \in 0 .. MaxFaults
    BY <1>9, ChargeType DEF TurnEnds, NextTurn, Lost, outboxVars
  <2>2. CASE requested[g] > applied[g]
    <3>1. /\ target' = [target EXCEPT ![g] = requested[g]]
          /\ state' = [state EXCEPT ![g] = "loading"]
          /\ phase' = [phase EXCEPT ![g] = "reporting"]
          /\ \/ UNCHANGED status
             \/ status' = [status EXCEPT ![g] = [state |-> "loading", applied |-> applied[g]]]
      BY <1>9, <2>2 DEF TurnEnds, NextTurn, BeginTurn, reportStatus
    <3>2. ReloaderTypeOK'
      <4>1. /\ phase' \in [Gateways -> Phases]
            /\ target' \in [Gateways -> committed \cup {0}]
            /\ state' \in [Gateways -> States]
        BY <3>1 DEF ReloaderTypeOK, Phases, States
      <4>2. status' \in [Gateways -> [state : States \cup {"none"}, applied : committed \cup {0}]]
        BY <3>1 DEF ReloaderTypeOK, States
      <4> QED
        BY <2>1, <4>1, <4>2 DEF ReloaderTypeOK
    <3>3. AppliedMeansShown' /\ LoadCovers' /\ ReloadsOnlyNewer'
      BY <2>1, <2>2, <3>1 DEF ReloaderTypeOK, AppliedMeansShown, LoadCovers, ReloadsOnlyNewer, Due, Up
    <3>4. StatusBehind'
      <4>1. \A h \in Gateways : Up(h) => status'[h].applied <= applied[h]
        BY <1>0, <3>1, ReportKeepsBehind DEF ReloaderInv
      <4>2. \A h \in Gateways : h # g => status'[h] = status[h] /\ phase'[h] = phase[h]
                                          /\ target'[h] = target[h]
        BY <3>1 DEF ReloaderTypeOK
      <4>3. Up(g) /\ phase'[g] = "reporting"
        BY <2>1, <3>1 DEF ReloaderTypeOK, Up
      <4> QED
        BY <2>1, <4>1, <4>2, <4>3 DEF StatusBehind, Up
    <3> QED
      BY <2>1, <3>2, <3>3, <3>4, GatewayFrame DEF ReloaderInv
  <2>3. CASE ~(requested[g] > applied[g])
    <3>1. phase' = [phase EXCEPT ![g] = "exited"] /\ UNCHANGED <<target, state, status>>
      BY <1>9, <2>3 DEF TurnEnds, NextTurn
    <3>2. ReloaderTypeOK'
      BY <2>1, <3>1 DEF ReloaderTypeOK, Phases
    <3>3. (AppliedMeansShown /\ LoadCovers /\ ReloadsOnlyNewer /\ StatusBehind)'
      BY <2>1, <3>1 DEF ReloaderTypeOK, AppliedMeansShown, LoadCovers, ReloadsOnlyNewer,
                        StatusBehind, Due, Up
    <3> QED
      BY <2>1, <3>2, <3>3, GatewayFrame DEF ReloaderInv
  <2> QED
    BY <2>2, <2>3
<1>10. ASSUME Settles(g) PROVE IndInv'
  <2>1. /\ UNCHANGED <<outboxVars, publisherVars, asked, committed, overtaken, faults>>
        /\ UNCHANGED <<applied, requested, target, base, registry, state, inbox, status>>
        /\ phase[g] = "exited" /\ phase' = [phase EXCEPT ![g] = "idle"]
    BY <1>10 DEF Settles, Settle, outboxVars
  <2>2. polls' = [polls EXCEPT ![g] =
           {IF q.at = "waiting" THEN [q EXCEPT !.at = "resumed"] ELSE q : q \in polls[g]}]
    BY <1>10 DEF Settles, Settle
  <2>3. ASSUME NEW q \in polls[g]
        PROVE  (IF q.at = "waiting" THEN [q EXCEPT !.at = "resumed"] ELSE q)
                  \in {r \in Polls : r.version \in committed \cup {0}}
    BY <2>3 DEF ReloaderTypeOK, Polls
  <2>4. polls' \in [Gateways -> SUBSET {r \in Polls : r.version \in committed \cup {0}}]
    BY <2>2, <2>3 DEF ReloaderTypeOK
  <2>5. ReloaderTypeOK'
    BY <2>1, <2>4 DEF ReloaderTypeOK, Phases
  <2>6. (AppliedMeansShown /\ LoadCovers /\ ReloadsOnlyNewer /\ StatusBehind)'
    BY <2>1 DEF ReloaderTypeOK, AppliedMeansShown, LoadCovers, ReloadsOnlyNewer,
                StatusBehind, Due, Up
  <2> QED
    BY <2>1, <2>5, <2>6, GatewayFrame DEF ReloaderInv
<1>11. ASSUME BootBegins(g) PROVE IndInv'
  <2>1. /\ UNCHANGED <<outboxVars, publisherVars, asked, committed, overtaken, faults>>
        /\ UNCHANGED <<applied, requested, base, registry, state, polls, inbox, status>>
        /\ phase[g] = "down" /\ phase' = [phase EXCEPT ![g] = "booting"]
    BY <1>11 DEF BootBegins, Boot, outboxVars
  <2>2. PICK v \in committed \cup {0} : IsLatest(v) /\ target' = [target EXCEPT ![g] = v]
    BY <1>11 DEF BootBegins, Boot
  <2>3. ReloaderTypeOK'
    BY <2>1, <2>2 DEF ReloaderTypeOK, Phases
  <2>4. (AppliedMeansShown /\ LoadCovers /\ ReloadsOnlyNewer)'
    BY <2>1, <2>2 DEF ReloaderTypeOK, AppliedMeansShown, LoadCovers, ReloadsOnlyNewer, Due, Up
  <2>5. StatusBehind'
    <3>1. status[g].applied \in committed \cup {0}
      BY DEF ReloaderTypeOK
    <3>2. status[g].applied <= v
      <4>1. committed \cup {0} \subseteq Nat
        BY OutboxAssumption DEF OutboxTypeOK, Versions
      <4>2. v >= 0 /\ \A w \in committed : w <= v
        BY <2>2, <4>1 DEF IsLatest
      <4> QED
        BY <3>1, <4>2
    <3>3. \A h \in Gateways : h # g => phase'[h] = phase[h] /\ target'[h] = target[h]
      BY <2>1, <2>2 DEF ReloaderTypeOK
    <3>4. target'[g] = v /\ phase'[g] = "booting"
      BY <2>1, <2>2 DEF ReloaderTypeOK
    <3> QED
      BY <2>1, <3>2, <3>3, <3>4 DEF StatusBehind, Up
  <2> QED
    BY <2>1, <2>3, <2>4, <2>5, GatewayFrame DEF ReloaderInv
<1>12. ASSUME NEW seen \in BOOLEAN, BootEnds(g, seen) PROVE IndInv'
  <2>1. /\ UNCHANGED <<outboxVars, publisherVars, asked, committed, overtaken>>
        /\ UNCHANGED <<target, polls, inbox>>
        /\ phase[g] = "bootloading" /\ phase' = [phase EXCEPT ![g] = "idle"]
        /\ applied' = [applied EXCEPT ![g] = target[g]]
        /\ requested' = [requested EXCEPT ![g] = target[g]]
        /\ state' = [state EXCEPT ![g] = "applied"]
        /\ base' = [base EXCEPT ![g] = {}]
        /\ faults' \in 0 .. MaxFaults
    BY <1>12, ChargeType DEF BootEnds, BootFinish, Lost, outboxVars
  <2>2. \/ UNCHANGED status
        \/ status' = [status EXCEPT ![g] = [state |-> "applied", applied |-> target[g]]]
    BY <1>12 DEF BootEnds, BootFinish, reportStatus
  <2>3. PICK S \in SUBSET committed :
           base[g] \subseteq S /\ registry' = [registry EXCEPT ![g] = S]
    BY <1>12 DEF BootEnds, BootFinish, Snapshots
  <2>4. ReloaderTypeOK'
    <3>1. status' \in [Gateways -> [state : States \cup {"none"}, applied : committed \cup {0}]]
      BY <2>2 DEF ReloaderTypeOK, States
    <3> QED
      BY <2>1, <2>3, <3>1 DEF ReloaderTypeOK, Phases, States
  <2>5. AppliedMeansShown' /\ LoadCovers'
    BY <2>1, <2>3 DEF ReloaderTypeOK, AppliedMeansShown, LoadCovers, Due, Up
  <2>6. ReloadsOnlyNewer'
    BY <2>1 DEF ReloaderTypeOK, ReloadsOnlyNewer
  <2>7. StatusBehind'
    <3>1. \A h \in Gateways : h # g => /\ status'[h] = status[h] /\ phase'[h] = phase[h]
                                        /\ applied'[h] = applied[h] /\ target'[h] = target[h]
      BY <2>1, <2>2 DEF ReloaderTypeOK
    <3>2. status'[g].applied \in {status[g].applied, target[g]} /\ status[g].applied <= target[g]
      BY <2>1, <2>2 DEF ReloaderTypeOK, StatusBehind
    <3>3. status'[g].applied <= target[g]
      BY <1>0, <3>2, VersionsAreNumbers DEF ReloaderInv
    <3>4. applied'[g] = target[g] /\ phase'[g] = "idle"
      BY <2>1 DEF ReloaderTypeOK
    <3> QED
      BY <3>1, <3>3, <3>4 DEF StatusBehind, Up
  <2> QED
    BY <2>1, <2>4, <2>5, <2>6, <2>7, GatewayFrame DEF ReloaderInv
<1>13. ASSUME GatewayDies(g) PROVE IndInv'
  <2>1. /\ Crash(g) /\ UNCHANGED <<outboxVars, publisherVars, asked, committed, overtaken>>
        /\ faults' \in 0 .. MaxFaults
    BY <1>13, ChargeType DEF GatewayDies, outboxVars
  <2>2. ReloaderTypeOK'
    BY <2>1 DEF Crash, ReloaderTypeOK, Phases, States
  <2>3. (AppliedMeansShown /\ LoadCovers /\ ReloadsOnlyNewer)'
    BY <2>1 DEF Crash, ReloaderTypeOK, AppliedMeansShown, LoadCovers, ReloadsOnlyNewer, Due, Up
  <2>4. StatusBehind'
    BY <2>1 DEF Crash, ReloaderTypeOK, StatusBehind, Up
  <2> QED
    BY <2>1, <2>2, <2>3, <2>4, GatewayFrame DEF ReloaderInv
<1>14. ASSUME KeyExpires(g) PROVE IndInv'
  <2>1. /\ UNCHANGED <<outboxVars, publisherVars, asked, committed, overtaken>>
        /\ UNCHANGED <<phase, applied, requested, target, base, registry, state, polls, inbox>>
        /\ status' = [status EXCEPT ![g] = NoStatus]
        /\ faults' \in 0 .. MaxFaults
    BY <1>14, ChargeType DEF KeyExpires, StatusExpires, outboxVars
  <2>2. ReloaderTypeOK'
    BY <2>1 DEF ReloaderTypeOK, NoStatus
  <2>3. (AppliedMeansShown /\ LoadCovers /\ ReloadsOnlyNewer)'
    BY <2>1 DEF AppliedMeansShown, LoadCovers, ReloadsOnlyNewer, Due, Up
  <2>4. StatusBehind'
    <3>1. status'[g].applied = 0 /\ \A h \in Gateways : h # g => status'[h] = status[h]
      BY <2>1 DEF ReloaderTypeOK, NoStatus
    <3>2. applied[g] >= 0 /\ target[g] >= 0
      BY <1>0, VersionsAreNumbers DEF ReloaderInv
    <3> QED
      BY <2>1, <3>1, <3>2 DEF StatusBehind, Up
  <2> QED
    BY <2>1, <2>2, <2>3, <2>4, GatewayFrame DEF ReloaderInv
<1> QED
  BY <1>1, <1>2, <1>3, <1>4, <1>5, <1>6, <1>7, <1>8, <1>9, <1>10, <1>11, <1>12, <1>13, <1>14
     DEF GatewayStep

-----------------------------------------------------------------------------
(* The invariant holds *)

LEMMA NextInd == IndInv /\ [Next]_vars => IndInv'
<1> SUFFICES ASSUME IndInv, [Next]_vars PROVE IndInv'
  OBVIOUS
<1>1. ASSUME Query PROVE IndInv'
  <2>1. UNCHANGED <<outboxVars, publisherVars, reloaderVars, faults>> /\ asked' \in committed \cup {0}
    BY <1>1 DEF Query, GetStatus
  <2>2. (OutboxTypeOK /\ PublisherTypeOK /\ ReloaderTypeOK /\ StatusTypeOK
           /\ faults \in 0 .. MaxFaults)'
    BY <2>1 DEF IndInv, TypeOK, OutboxTypeOK, PublisherTypeOK, ReloaderTypeOK, StatusTypeOK,
                outboxVars, publisherVars, reloaderVars
  <2>3. (AppliedMeansShown /\ LoadCovers /\ ReloadsOnlyNewer /\ StatusBehind)'
    BY <2>1 DEF IndInv, AppliedMeansShown, LoadCovers, ReloadsOnlyNewer, StatusBehind, Due, Up,
                outboxVars, reloaderVars
  <2>4. (PublishedWasAnnounced /\ MarksAnnounced)'
    BY <2>1 DEF IndInv, PublishedWasAnnounced, MarksAnnounced, IsCurrent, outboxVars, publisherVars
  <2> QED
    BY <2>2, <2>3, <2>4 DEF IndInv, TypeOK
<1>2. ASSUME UNCHANGED vars PROVE IndInv'
  <2>1. UNCHANGED <<outboxVars, reloaderVars, publisherVars, asked, faults>>
    BY <1>2 DEF vars, outboxVars, reloaderVars, publisherVars
  <2>2. (PublisherTypeOK /\ faults \in 0 .. MaxFaults)'
    BY <2>1 DEF IndInv, TypeOK, PublisherTypeOK, outboxVars, publisherVars
  <2>3. (PublishedWasAnnounced /\ MarksAnnounced)'
    BY <2>1 DEF IndInv, PublishedWasAnnounced, MarksAnnounced, IsCurrent, outboxVars, publisherVars
  <2> QED
    BY <2>1, <2>2, <2>3, ReloaderFrame DEF IndInv, TypeOK
<1> QED
  BY <1>1, <1>2, TransactionsInd, PublisherInd, GatewayInd DEF Next

LEMMA Invariance == Spec => []IndInv
<1> QED
  BY InitInd, NextInd, PTL DEF Spec

\* Type correctness: in particular every version a gateway requests, aims at,
\* applies, polls or reports is that of a committed change, or 0.
THEOREM TypeCorrect == Spec => []TypeOK
<1>1. IndInv => TypeOK
  BY DEF IndInv
<1> QED
  BY <1>1, Invariance, PTL

\* A running gateway that says it applied version v routes by every change
\* up to v that was not overtaken, for any number of gateways and faults.
THEOREM AppliedIsShown == Spec => []AppliedMeansShown
<1>1. IndInv => AppliedMeansShown
  BY DEF IndInv
<1> QED
  BY <1>1, Invariance, PTL

\* A positive answer of GET /v1/runtime-sync about a running instance is true
\* of the changes the call found in PostgreSQL.
THEOREM SynchronizedAnswerIsTrue == Spec => []SynchronizedIsTrue
<1>1. IndInv => SynchronizedIsTrue
  <2> SUFFICES ASSUME IndInv, NEW g \in Gateways, Up(g), Synchronized(g),
                      NEW w \in Due(asked)
               PROVE  w \in registry[g]
    BY DEF SynchronizedIsTrue
  <2>1. /\ asked <= status[g].applied /\ status[g].applied <= applied[g]
        /\ w \in committed \ overtaken /\ w <= asked
    BY DEF IndInv, StatusBehind, Synchronized, Due
  <2>2. w \in Nat /\ asked \in Nat /\ status[g].applied \in Nat /\ applied[g] \in Nat
    <3>1. committed \cup {0} \subseteq Nat
      BY OutboxAssumption DEF IndInv, TypeOK, OutboxTypeOK, Versions
    <3>2. status[g].applied \in Nat /\ applied[g] \in Nat
      BY VersionsAreNumbers DEF IndInv, TypeOK
    <3> QED
      BY <2>1, <3>1, <3>2 DEF IndInv, TypeOK, StatusTypeOK
  <2>3. w \in Due(applied[g])
    BY <2>1, <2>2 DEF Due
  <2> QED
    BY <2>3 DEF IndInv, AppliedMeansShown
<1> QED
  BY <1>1, Invariance, PTL

\* The outbox delivers at least once: no row is marked before Redis took it.
THEOREM AtLeastOnce == Spec => []PublishedWasAnnounced
<1>1. IndInv => PublishedWasAnnounced
  BY DEF IndInv
<1> QED
  BY <1>1, Invariance, PTL

\* No notification, however old or often repeated, makes a gateway reload
\* a version it already has.
THEOREM NoRedundantReload == Spec => []ReloadsOnlyNewer
<1>1. IndInv => ReloadsOnlyNewer
  BY DEF IndInv
<1> QED
  BY <1>1, Invariance, PTL

-----------------------------------------------------------------------------
(* The version in Redis *)

\* The version an instance shows in Redis never goes back while its key
\* lives, even when the instance restarts.
THEOREM ReportedIsMonotonic == Spec => ReportedNeverRegresses
<1> DEFINE Step == \A g \in Gateways :
                      status'[g] # NoStatus => status[g].applied <= status'[g].applied
<1>1. IndInv /\ IndInv' /\ [Next]_vars => [Step]_vars
  <2> SUFFICES ASSUME IndInv, Next, NEW h \in Gateways, status'[h] # NoStatus
               PROVE  status[h].applied <= status'[h].applied
    BY DEF Step
  <2>0. OutboxTypeOK /\ ReloaderTypeOK /\ status[h].applied \in Nat
        /\ applied[h] \in Nat /\ target[h] \in Nat
    BY VersionsAreNumbers DEF IndInv, TypeOK
  <2>1. CASE status'[h] = status[h]
    BY <2>0, <2>1
  <2>2. ASSUME NEW s, Up(h), status'[h] = [state |-> s, applied |-> applied[h]]
        PROVE  status[h].applied <= status'[h].applied
    BY <2>0, <2>2 DEF IndInv, StatusBehind
  <2>3. ASSUME phase[h] \in {"loading", "bootloading"},
               status'[h] = [state |-> "applied", applied |-> target[h]]
        PROVE  status[h].applied <= status'[h].applied
    BY <2>0, <2>3 DEF IndInv, StatusBehind, ReloadsOnlyNewer, Up
  <2>4. ASSUME Transactions \/ Query \/ \E p \in Publishers : PublisherStep(p)
        PROVE  status' = status
    BY <2>4 DEF Transactions, Record, CommitChange, RollbackChange, Query, PublisherStep,
                StartDispatch, Announce, AnnounceLossy, AnnounceFails, Mark, DispatchDies,
                Deliver, reloaderVars
  <2>5. ASSUME NEW g \in Gateways, GatewayStep(g), g # h PROVE status'[h] = status[h]
    <3>1. \/ status' = status
          \/ \E r : status' = [status EXCEPT ![g] = r]
      BY <2>5 DEF GatewayStep, PollReads, ReconcileRead, LoadBegins, BeginLoad, Settles, Settle,
           BootBegins, Boot, GatewayDies, Crash, KeyExpires, StatusExpires, PollFails,
           ReconcileFails, LoadApplies, ApplySnapshot, LoadBreaks, LoadFails, TurnEnds, NextTurn,
           BootEnds, BootFinish, Receive, ReceiveMessage, PollRequests, ReconcileRequest,
           PollEnds, ReconcileEnd, requestReload, BeginTurn, reportStatus
    <3> QED
      BY <2>0, <2>5, <3>1 DEF ReloaderTypeOK
  <2>6. ASSUME GatewayStep(h)
        PROVE  \/ status' = status
               \/ status' = [status EXCEPT ![h] = NoStatus]
               \/ Up(h) /\ \E s : status' = [status EXCEPT ![h] = [state |-> s, applied |-> applied[h]]]
               \/ /\ phase[h] \in {"loading", "bootloading"}
                  /\ status' = [status EXCEPT ![h] = [state |-> "applied", applied |-> target[h]]]
    BY <2>6 DEF GatewayStep, PollReads, ReconcileRead, LoadBegins, BeginLoad, Settles, Settle,
         BootBegins, Boot, GatewayDies, Crash, KeyExpires, StatusExpires, PollFails,
         ReconcileFails, LoadApplies, ApplySnapshot, LoadBreaks, LoadFails, TurnEnds, NextTurn,
         BootEnds, BootFinish, Receive, ReceiveMessage, PollRequests, ReconcileRequest,
         PollEnds, ReconcileEnd, requestReload, BeginTurn, reportStatus, Up
  <2>7. ASSUME GatewayStep(h)
        PROVE  \/ status'[h] = status[h]
               \/ Up(h) /\ \E s : status'[h] = [state |-> s, applied |-> applied[h]]
               \/ /\ phase[h] \in {"loading", "bootloading"}
                  /\ status'[h] = [state |-> "applied", applied |-> target[h]]
    BY <2>0, <2>6, <2>7 DEF ReloaderTypeOK
  <2> QED
    BY <2>1, <2>2, <2>3, <2>4, <2>5, <2>7 DEF Next
<1> QED
  BY <1>1, Invariance, PTL DEF Spec, ReportedNeverRegresses

-----------------------------------------------------------------------------
(* Hot reload implements ConfigViews *)

UpSet == {g \in Gateways : Up(g)}

\* Whatever leaves commits, registries, applied versions and liveness alone
\* is invisible to ConfigViews.
LEMMA Stutter ==
  ASSUME UNCHANGED <<committed, overtaken, registry, applied>>, UpSet' = UpSet
  PROVE  UNCHANGED Views!views
BY DEF Views!views, UpSet

\* A snapshot that covers what is due at its version, replacing the registry
\* of a gateway, is an installed view.
LEMMA InstallStep ==
  ASSUME OutboxTypeOK, NEW g \in Gateways, NEW S \in SUBSET committed,
         NEW v \in committed \cup {0}, Due(v) \subseteq S,
         Up(g) => registry[g] \subseteq S /\ applied[g] <= v,
         UNCHANGED <<committed, overtaken>>, UpSet' = UpSet \cup {g},
         registry' = [registry EXCEPT ![g] = S], applied' = [applied EXCEPT ![g] = v]
  PROVE  Views!Next
<1>1. Views!Honest(S, v)
  BY DEF Views!Honest, Due
<1>2. Views!Install(g, S, v)
  BY <1>1 DEF Views!Install, UpSet
<1> QED
  BY <1>2 DEF Views!Next, OutboxTypeOK

LEMMA GatewayImplements ==
  ASSUME IndInv, NEW g \in Gateways, GatewayStep(g)
  PROVE  [Views!Next]_(Views!views)
<1> USE DEF IndInv, TypeOK
<1>1. ASSUME \/ PollReads(g) \/ KeyExpires(g)
             \/ \E seen \in BOOLEAN : PollFails(g, seen) \/ \E q \in Polls : PollEnds(g, q, seen)
      PROVE  UNCHANGED Views!views
  <2>1. UNCHANGED <<committed, overtaken, registry, applied, phase>>
    BY <1>1 DEF PollReads, ReconcileRead, KeyExpires, StatusExpires, PollFails, ReconcileFails,
                PollEnds, ReconcileEnd, outboxVars
  <2>2. UpSet' = UpSet
    BY <2>1 DEF UpSet, Up
  <2> QED
    BY <2>1, <2>2, Stutter
<1>2. ASSUME UNCHANGED <<committed, overtaken, registry, applied>>,
             NEW ph, phase' = [phase EXCEPT ![g] = ph],
             Up(g) <=> ph \notin {"down", "booting", "bootloading"}
      PROVE  UNCHANGED Views!views
  <2>1. UpSet' = UpSet
    BY <1>2 DEF UpSet, Up, ReloaderTypeOK
  <2> QED
    BY <1>2, <2>1, Stutter
<1>3. ASSUME \/ LoadBegins(g) \/ Settles(g) \/ BootBegins(g)
             \/ \E seen \in BOOLEAN : LoadBreaks(g, seen) \/ TurnEnds(g, seen)
      PROVE  UNCHANGED Views!views
  <2>1. UNCHANGED <<committed, overtaken, registry, applied>>
    BY <1>3 DEF LoadBegins, BeginLoad, Settles, Settle, BootBegins, Boot, LoadBreaks, LoadFails,
                TurnEnds, NextTurn, outboxVars
  <2>2. PICK ph : /\ phase' = [phase EXCEPT ![g] = ph]
                  /\ Up(g) <=> ph \notin {"down", "booting", "bootloading"}
    BY <1>3 DEF LoadBegins, BeginLoad, Settles, Settle, BootBegins, Boot, LoadBreaks, LoadFails,
                TurnEnds, NextTurn, BeginTurn, Up
  <2> QED
    BY <1>2, <2>1, <2>2
<1>4. ASSUME NEW seen \in BOOLEAN,
             \/ \E v \in Versions : Receive(g, v, seen)
             \/ \E q \in Polls : PollRequests(g, q, seen)
      PROVE  UNCHANGED Views!views
  <2>1. UNCHANGED <<committed, overtaken, registry, applied>>
    BY <1>4 DEF Receive, ReceiveMessage, PollRequests, ReconcileRequest, outboxVars
  <2>2. \/ UNCHANGED phase
        \/ phase[g] = "idle" /\ phase' = [phase EXCEPT ![g] = "reporting"]
    BY <1>4 DEF Receive, ReceiveMessage, PollRequests, ReconcileRequest, requestReload, BeginTurn
  <2>3. CASE UNCHANGED phase
    BY <2>1, <2>3, Stutter DEF UpSet, Up
  <2>4. CASE phase[g] = "idle" /\ phase' = [phase EXCEPT ![g] = "reporting"]
    BY <1>2, <2>1, <2>4 DEF Up
  <2> QED
    BY <2>2, <2>3, <2>4
<1>5. ASSUME NEW seen \in BOOLEAN, LoadApplies(g, seen) \/ BootEnds(g, seen)
      PROVE  Views!Next
  <2>1. PICK S \in SUBSET committed :
           base[g] \subseteq S /\ registry' = [registry EXCEPT ![g] = S]
    BY <1>5 DEF LoadApplies, ApplySnapshot, BootEnds, BootFinish, Snapshots
  <2>2. /\ UNCHANGED <<committed, overtaken>>
        /\ applied' = [applied EXCEPT ![g] = target[g]]
        /\ \/ phase[g] = "loading" /\ phase' = [phase EXCEPT ![g] = "reported"]
           \/ phase[g] = "bootloading" /\ phase' = [phase EXCEPT ![g] = "idle"]
    BY <1>5 DEF LoadApplies, ApplySnapshot, BootEnds, BootFinish, outboxVars
  <2>3. Due(target[g]) \subseteq S /\ target[g] \in committed \cup {0}
    BY <2>1, <2>2 DEF LoadCovers, ReloaderTypeOK
  <2>4. Up(g) => registry[g] \subseteq S /\ applied[g] <= target[g]
    <3>1. ASSUME Up(g) PROVE phase[g] = "loading"
      BY <2>2, <3>1 DEF Up
    <3>2. applied[g] \in Nat /\ target[g] \in Nat
      BY VersionsAreNumbers
    <3> QED
      BY <2>1, <3>1, <3>2 DEF LoadCovers, ReloadsOnlyNewer
  <2>5. UpSet' = UpSet \cup {g}
    BY <2>2 DEF UpSet, Up, ReloaderTypeOK
  <2> QED
    BY <2>1, <2>2, <2>3, <2>4, <2>5, InstallStep
<1>6. ASSUME GatewayDies(g) PROVE Views!Next
  <2>1. /\ UNCHANGED <<committed, overtaken>>
        /\ phase' = [phase EXCEPT ![g] = "down"]
        /\ applied' = [applied EXCEPT ![g] = 0]
        /\ registry' = [registry EXCEPT ![g] = {}]
    BY <1>6 DEF GatewayDies, Crash, outboxVars
  <2>2. UpSet' = UpSet \ {g}
    BY <2>1 DEF UpSet, Up, ReloaderTypeOK
  <2>3. Views!Stop(g)
    BY <2>1, <2>2 DEF Views!Stop, UpSet
  <2> QED
    BY <2>3 DEF Views!Next
<1> QED
  BY <1>1, <1>3, <1>4, <1>5, <1>6 DEF GatewayStep

\* Hot reload implements its abstract specification: to an observer of the
\* registries, each gateway holds an honest view that only moves forward.
THEOREM Implementation == Spec => ImplementsConfigViews
<1>1. Init => Views!Init
  BY DEF Init, OutboxInit, ReloaderInit, Views!Init, Up
<1>2. IndInv /\ [Next]_vars => [Views!Next]_(Views!views)
  <2> SUFFICES ASSUME IndInv, [Next]_vars PROVE [Views!Next]_(Views!views)
    OBVIOUS
  <2>1. ASSUME NEW v \in Versions, CommitChange(v) PROVE Views!Next
    <3>1. UpSet' = UpSet
      BY <2>1 DEF CommitChange, reloaderVars, UpSet, Up
    <3>2. Views!Change(v)
      BY <2>1, <3>1 DEF CommitChange, Commit, reloaderVars, Views!Change, UpSet
    <3> QED
      BY <3>2 DEF Views!Next
  <2>2. ASSUME \/ Record \/ Query \/ UNCHANGED vars
               \/ \E v \in Versions : RollbackChange(v)
               \/ \E p \in Publishers : PublisherStep(p)
        PROVE  UNCHANGED Views!views
    <3>1. UNCHANGED <<committed, overtaken, registry, applied, phase>>
      BY <2>2 DEF Record, recordGatewayConfigChange, RollbackChange, Rollback, Query,
           PublisherStep, StartDispatch, Announce, AnnounceLossy, AnnounceFails, Mark,
           MarkPublished, markGatewayConfigChangePublished, DispatchDies, Deliver,
           reloaderVars, outboxVars, vars
    <3> QED
      BY <3>1, Stutter DEF UpSet, Up
  <2> QED
    BY <2>1, <2>2, GatewayImplements DEF Next, Transactions
<1> QED
  BY <1>1, <1>2, Invariance, PTL DEF Spec, ImplementsConfigViews, Views!Spec

=============================================================================
