---------------------------- MODULE RoutingConfig ----------------------------
(***************************************************************************)
(* The deployments in PostgreSQL together with the gateways that route by  *)
(* them.  A recorded change makes every gateway reload sooner or later     *)
(* (RuntimeSync shows how); here a gateway reloads only when one has been  *)
(* recorded since its last load began, or when that load was rejected.     *)
(***************************************************************************)
EXTENDS GatewayRegistry

VARIABLES
    stale,     \* gateways with a newer version to load than they have
    loading,   \* gateways with a loadSnapshot under way
    rows,      \* [Gateways -> the rows that loadSnapshot selected]
    registry,  \* [Gateways -> the configurations the resolver holds]
    silent     \* history: gateways whose rows changed unrecorded since the last load began

gatewayVars == <<stale, loading, rows, registry, silent>>
vars == <<deploymentVars, gatewayVars>>

TypeOK ==
    /\ DeploymentTypeOK
    /\ stale \subseteq Gateways
    /\ loading \subseteq Gateways
    /\ rows \in [Gateways -> SUBSET Rows]
    /\ registry \in [Gateways -> SUBSET Configs]
    /\ silent \subseteq Gateways

\* A gateway that has not started is one that still has to load everything.
Init ==
    /\ DeploymentInit
    /\ stale = Gateways
    /\ loading = {}
    /\ rows = [g \in Gateways |-> {}]
    /\ registry = [g \in Gateways |-> {}]
    /\ silent = {}

\* A step of the control plane; a recorded change is one to load everywhere.
ControlPlane ==
    /\ DeploymentNext
    /\ stale' = IF recorded' THEN Gateways ELSE stale
    /\ silent' = IF recorded' THEN silent
                 ELSE silent \cup {g \in Gateways : SelectedRows(g)' # SelectedRows(g)}
    /\ UNCHANGED <<loading, rows, registry>>

\* drainReloads fixes its target version and the loader selects the rows.
LoadBegins(g) ==
    /\ g \in stale \ loading
    /\ stale' = stale \ {g}
    /\ loading' = loading \cup {g}
    /\ rows' = [rows EXCEPT ![g] = SelectedRows(g)]
    /\ silent' = silent \ {g}
    /\ UNCHANGED <<registry, deploymentVars>>

\* Mutant: whatever was requested by the end of a load counts as loaded.
LoadEndsAsRequested(g) ==
    LET C == ConfigsOf(rows[g]) IN
    /\ g \in loading
    /\ loading' = loading \ {g}
    /\ IF Loadable(C)
       THEN registry' = [registry EXCEPT ![g] = C] /\ stale' = stale \ {g}
       ELSE stale' = stale \cup {g} /\ UNCHANGED registry
    /\ UNCHANGED <<rows, silent, deploymentVars>>

\* The loader returns and loadProxies accepts the list or throws; after an
\* error the version is still newer than what was applied.
LoadEnds(g) ==
    LET C == ConfigsOf(rows[g]) IN
    /\ g \in loading
    /\ loading' = loading \ {g}
    /\ IF Loadable(C)
       THEN registry' = [registry EXCEPT ![g] = C] /\ UNCHANGED stale
       ELSE stale' = stale \cup {g} /\ UNCHANGED registry
    /\ UNCHANGED <<rows, silent, deploymentVars>>

Next ==
    \/ ControlPlane
    \/ \E g \in Gateways : LoadBegins(g) \/ LoadEnds(g)

Spec == Init /\ [][Next]_vars

-----------------------------------------------------------------------------
\* A gateway with nothing left to load routes exactly by the database, unless
\* a change went unrecorded: deploying, retiring, enabling, the end of a
\* workspace and loads that overlap them never leave a route behind.
SettledGatewayIsCurrent ==
    \A g \in Gateways \ (stale \cup loading \cup silent) :
        registry[g] = ConfigsOf(SelectedRows(g))

\* Only time, or an updateApiProxy that read a stale flag, changes what a
\* gateway would load without recording it.
SilentOnlyByTimeOrStaleRead ==
    [][\A g \in Gateways : SelectedRows(g)' # SelectedRows(g) =>
          \/ recorded'
          \/ past' # past
          \/ \E x \in Editors : edit'[x] # edit[x] /\ edit[x].active # enabled[edit[x].proxy]]_vars

\* The documentation's claim: a workspace conflicts only inside its own scope
\* and can only make itself unavailable, so what a gateway loads is accepted.
\* A workspace's proxy may claim the base path of the OAuth proxy, which the
\* loader copies into the workspace's registry.
SnapshotsAreAccepted == \A g \in Gateways : Loadable(ConfigsOf(SelectedRows(g)))
=============================================================================
