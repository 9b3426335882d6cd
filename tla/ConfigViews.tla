----------------------------- MODULE ConfigViews -----------------------------
(***************************************************************************)
(* What hot reload promises to those who change the routing configuration: *)
(* every running gateway holds a view of the committed changes and claims  *)
(* a version; the claim is honest, and view and claim only move forward    *)
(* for as long as the gateway runs.  No outbox, no notifications, no       *)
(* reload in progress.                                                     *)
(***************************************************************************)
EXTENDS Naturals

CONSTANTS Gateways, Versions

VARIABLES
    changes,  \* the committed changes
    late,     \* those that committed after a change with a higher version
    up,       \* the gateways that serve requests
    view,     \* [Gateways -> the changes it routes by]
    claim     \* [Gateways -> the version it claims]

views == <<changes, late, up, view, claim>>

Init ==
    /\ changes = {}
    /\ late = {}
    /\ up = {}
    /\ view = [g \in Gateways |-> {}]
    /\ claim = [g \in Gateways |-> 0]

\* A control-plane transaction commits a change.
Change(v) ==
    /\ changes' = changes \cup {v}
    /\ late' = IF \E w \in changes : w > v THEN late \cup {v} ELSE late
    /\ UNCHANGED <<up, view, claim>>

Honest(S, v) == \A w \in changes \ late : w <= v => w \in S

\* A gateway starts with, or moves on to, the view S under the claim v.
Install(g, S, v) ==
    /\ S \subseteq changes
    /\ Honest(S, v)
    /\ g \in up => view[g] \subseteq S /\ claim[g] <= v
    /\ up' = up \cup {g}
    /\ view' = [view EXCEPT ![g] = S]
    /\ claim' = [claim EXCEPT ![g] = v]
    /\ UNCHANGED <<changes, late>>

\* A gateway stops.
Stop(g) ==
    /\ up' = up \ {g}
    /\ view' = [view EXCEPT ![g] = {}]
    /\ claim' = [claim EXCEPT ![g] = 0]
    /\ UNCHANGED <<changes, late>>

Next ==
    \/ \E v \in Versions : Change(v)
    \/ \E g \in Gateways, S \in SUBSET Versions, v \in Versions \cup {0} : Install(g, S, v)
    \/ \E g \in Gateways : Stop(g)

Spec == Init /\ [][Next]_views
=============================================================================
