------------------------------ MODULE Publisher ------------------------------
(***************************************************************************)
(* GatewayConfigPublisher of management-api: reads a batch of unpublished  *)
(* outbox rows, announces each through Redis Pub/Sub and marks it, in      *)
(* version order, stopping at the first error.  notify() starts a dispatch *)
(* only when none is running; the one-second interval calls it for ever,   *)
(* so a dispatch may start whenever the publisher is idle.                 *)
(***************************************************************************)
EXTENDS Outbox

CONSTANT Publishers   \* the management-api processes

VARIABLES
    batch,      \* [Publishers -> versions of the running dispatch still to do]
    stage,      \* [Publishers -> what the running dispatch awaits]
    announced   \* history: versions that Redis has accepted at least once

publisherVars == <<batch, stage, announced>>

Stages == {"idle", "publish", "mark"}

PublisherInit ==
    /\ batch = [p \in Publishers |-> {}]
    /\ stage = [p \in Publishers |-> "idle"]
    /\ announced = {}

\* The change the loop of dispatchPending is at.
IsCurrent(p, v) == v \in batch[p] /\ \A w \in batch[p] : v <= w

\* notify() finds no dispatch running and dispatchPending lists the rows.
Dispatch(p) ==
    /\ stage[p] = "idle"
    /\ \E B \in SUBSET committed :
          /\ B # {}
          /\ IsPendingBatch(B)
          /\ batch' = [batch EXCEPT ![p] = B]
    /\ stage' = [stage EXCEPT ![p] = "publish"]
    /\ UNCHANGED announced

\* Redis accepts the message for version v.
Publish(p, v) ==
    /\ stage[p] = "publish"
    /\ IsCurrent(p, v)
    /\ announced' = announced \cup {v}
    /\ stage' = [stage EXCEPT ![p] = "mark"]
    /\ UNCHANGED batch

\* The dispatch ends before its list does: an error of publish or of
\* markPublished breaks the loop, and a crash of the process ends it too.
AbandonDispatch(p) ==
    /\ stage[p] # "idle"
    /\ batch' = [batch EXCEPT ![p] = {}]
    /\ stage' = [stage EXCEPT ![p] = "idle"]

\* Mutant: the error of publish is only logged and the loop goes on to mark.
PublishFailsSilently(p, v, accepted) ==
    /\ stage[p] = "publish"
    /\ IsCurrent(p, v)
    /\ announced' = IF accepted THEN announced \cup {v} ELSE announced
    /\ stage' = [stage EXCEPT ![p] = "mark"]
    /\ UNCHANGED batch

\* Redis may have accepted a message whose reply was lost.
PublishFails(p, v, accepted) ==
    /\ stage[p] = "publish"
    /\ IsCurrent(p, v)
    /\ announced' = IF accepted THEN announced \cup {v} ELSE announced
    /\ AbandonDispatch(p)

\* The row of version v is marked and the loop moves on or ends.
MarkPublished(p, v) ==
    /\ stage[p] = "mark"
    /\ IsCurrent(p, v)
    /\ markGatewayConfigChangePublished(v)
    /\ batch' = [batch EXCEPT ![p] = @ \ {v}]
    /\ stage' = [stage EXCEPT ![p] = IF batch[p] = {v} THEN "idle" ELSE "publish"]
    /\ UNCHANGED announced

PublisherTypeOK ==
    /\ batch \in [Publishers -> SUBSET committed]
    /\ stage \in [Publishers -> Stages]
    /\ announced \subseteq committed
=============================================================================
