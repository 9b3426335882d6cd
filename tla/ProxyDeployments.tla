-------------------------- MODULE ProxyDeployments --------------------------
(***************************************************************************)
(* Proxies, their immutable revisions and their deployments, as kept in    *)
(* PostgreSQL by packages/database: importProxyRevision,                   *)
(* deployProxyRevision, retireProxyDeployment, updateApiProxy, and the     *)
(* part of lab-workspaces.ts that takes routes away.                       *)
(*                                                                         *)
(* Deploying, retiring and the workspace operations are Serializable       *)
(* transactions, so each is one step.  updateApiProxy runs under Read      *)
(* Committed and is two: what it read may be stale when it writes.         *)
(*                                                                         *)
(* A proxy belongs to one organization, hence to the shared platform or to *)
(* one lab workspace, and the management API deploys it there only.  The   *)
(* unique index on the active deployments of a proxy and environment then  *)
(* makes the active deployments a function.                                *)
(***************************************************************************)
EXTENDS Naturals, Sequences

CONSTANTS
    Proxies,       \* the logical proxies
    OAuthProxy,    \* the one with systemManaged, deployed by the seed
    BasePaths,     \* the public paths revisions may claim
    Environments,
    Stage,         \* [Environments -> {"qual", "pprod", "prod"}]
    Region,        \* [Environments -> regions]
    Workspaces,    \* the lab workspaces
    Standard,      \* the scope of everything outside the lab
    Scope,         \* [Proxies -> Workspaces \cup {Standard}]
    MaxRevisions,  \* bound on the revisions of a proxy
    Editors        \* the updateApiProxy requests that may run at once

Stages == {"qual", "pprod", "prod"}

ASSUME DeploymentAssumption ==
    /\ OAuthProxy \in Proxies
    /\ Stage \in [Environments -> Stages]
    /\ Standard \notin Workspaces
    /\ Scope \in [Proxies -> Workspaces \cup {Standard}]
    /\ Scope[OAuthProxy] = Standard
    /\ MaxRevisions \in Nat \ {0}

VARIABLES
    revisions,  \* [Proxies -> the base path of each revision, by number]
    enabled,    \* [Proxies -> ApiProxy.active]
    running,    \* the revision active for a proxy in an environment, 0 for none
    deployed,   \* <<proxy, revision, environment>> of the standard rows, active or retired
    workspace,  \* [Workspaces -> status; "absent" before its creation]
    past,       \* workspaces whose expiresAt has passed
    edit,       \* what each updateApiProxy under way has read
    recorded    \* whether the last step inserted a GatewayConfigChange

deploymentVars ==
    <<revisions, enabled, running, deployed, workspace, past, edit, recorded>>

Statuses == {"absent", "active", "expired", "revoked"}
NoEdit == [proxy |-> OAuthProxy, active |-> FALSE]

DeploymentTypeOK ==
    /\ revisions \in [Proxies -> Seq(BasePaths)]
    /\ enabled \in [Proxies -> BOOLEAN]
    /\ running \in [Proxies -> [Environments -> Nat]]
    /\ \A p \in Proxies, e \in Environments : running[p][e] <= Len(revisions[p])
    /\ deployed \subseteq Proxies \X (Nat \ {0}) \X Environments
    /\ workspace \in [Workspaces -> Statuses]
    /\ past \subseteq Workspaces
    /\ edit \in [Editors -> [proxy : Proxies, active : BOOLEAN]]
    /\ recorded \in BOOLEAN

\* The seed has deployed the OAuth proxy to every environment.
DeploymentInit ==
    /\ \E b \in BasePaths :
          revisions = [p \in Proxies |-> IF p = OAuthProxy THEN <<b>> ELSE <<>>]
    /\ enabled = [p \in Proxies |-> TRUE]
    /\ running = [p \in Proxies |-> [e \in Environments |-> IF p = OAuthProxy THEN 1 ELSE 0]]
    /\ deployed = {OAuthProxy} \X {1} \X Environments
    /\ workspace = [w \in Workspaces |-> "absent"]
    /\ past = {}
    /\ edit = [x \in Editors |-> NoEdit]
    /\ recorded = TRUE

-----------------------------------------------------------------------------
\* A lab user's requests need a workspace; they may outlive it.
Reachable(p) == Scope[p] # Standard => workspace[Scope[p]] # "absent"

\* importProxyRevision adds the next revision; no active route changes.
importProxyRevision(p, b) ==
    /\ p # OAuthProxy
    /\ Reachable(p)
    /\ Len(revisions[p]) < MaxRevisions
    /\ revisions' = [revisions EXCEPT ![p] = Append(@, b)]
    /\ recorded' = FALSE
    /\ UNCHANGED <<enabled, running, deployed, workspace, past, edit>>

previousStage == [pprod |-> "qual", prod |-> "pprod"]

\* Mutant: only the expiry time of the workspace is compared.
LabAllowsUntilPast(w, e) == w # Standard => w \notin past /\ Stage[e] = "qual"

\* A lab deployment needs its workspace alive and a qual environment.
LabAllows(w, e) ==
    w # Standard => workspace[w] = "active" /\ w \notin past /\ Stage[e] = "qual"

\* Mutant: the previous stage of any region will do.
PromotedAnywhere(p, r, e) ==
    Scope[p] = Standard /\ Stage[e] # "qual" =>
        \E f \in Environments :
            /\ Stage[f] = previousStage[Stage[e]]
            /\ <<p, r, f>> \in deployed

\* A standard deployment needs one of the same revision, active or retired,
\* in the previous stage of the region.
Promoted(p, r, e) ==
    Scope[p] = Standard /\ Stage[e] # "qual" =>
        \E f \in Environments :
            /\ Region[f] = Region[e]
            /\ Stage[f] = previousStage[Stage[e]]
            /\ <<p, r, f>> \in deployed

\* Mutant: disabled proxies do not count, as they serve nothing.
RouteTakenByEnabled(p, b, e) ==
    \E q \in Proxies \ {p} :
        /\ Scope[q] = Scope[p]
        /\ enabled[q]
        /\ running[q][e] # 0
        /\ revisions[q][running[q][e]] = b

\* Another proxy of the scope is active in e under base path b, whether or
\* not that proxy is enabled.
RouteTaken(p, b, e) ==
    \E q \in Proxies \ {p} :
        /\ Scope[q] = Scope[p]
        /\ running[q][e] # 0
        /\ revisions[q][running[q][e]] = b

\* Mutant: neither the revision nor its base path is looked at.
deployAnyRevision(p, r, e) ==
    /\ p # OAuthProxy
    /\ LabAllows(Scope[p], e)
    /\ Promoted(p, r, e)
    /\ running' = [running EXCEPT ![p][e] = r]
    /\ deployed' = IF Scope[p] = Standard THEN deployed \cup {<<p, r, e>>} ELSE deployed
    /\ recorded' = TRUE
    /\ UNCHANGED <<revisions, enabled, workspace, past, edit>>

\* The active deployment of p in e, if any, is retired and replaced.
deployProxyRevision(p, r, e) ==
    /\ p # OAuthProxy
    /\ r \in 1 .. Len(revisions[p])
    /\ LabAllows(Scope[p], e)
    /\ Promoted(p, r, e)
    /\ ~RouteTaken(p, revisions[p][r], e)
    /\ running' = [running EXCEPT ![p][e] = r]
    /\ deployed' = IF Scope[p] = Standard THEN deployed \cup {<<p, r, e>>} ELSE deployed
    /\ recorded' = TRUE
    /\ UNCHANGED <<revisions, enabled, workspace, past, edit>>

\* Mutant: a retirement is not announced.
retireQuietly(p, e) ==
    /\ p # OAuthProxy
    /\ running[p][e] # 0
    /\ running' = [running EXCEPT ![p][e] = 0]
    /\ recorded' = FALSE
    /\ UNCHANGED <<revisions, enabled, deployed, workspace, past, edit>>

retireProxyDeployment(p, e) ==
    /\ p # OAuthProxy
    /\ running[p][e] # 0
    /\ running' = [running EXCEPT ![p][e] = 0]
    /\ recorded' = TRUE
    /\ UNCHANGED <<revisions, enabled, deployed, workspace, past, edit>>

\* updateApiProxy up to its first query's answer.
UpdateReads(x, p) ==
    /\ edit[x] = NoEdit
    /\ p # OAuthProxy
    /\ Reachable(p)
    /\ edit' = [edit EXCEPT ![x] = [proxy |-> p, active |-> enabled[p]]]
    /\ recorded' = FALSE
    /\ UNCHANGED <<revisions, enabled, running, deployed, workspace, past>>

\* updateApiProxy writes and commits: whether it records a change depends on
\* the value it read.
UpdateWrites(x, new) ==
    /\ edit[x] # NoEdit
    /\ enabled' = [enabled EXCEPT ![edit[x].proxy] = new]
    /\ recorded' = (new # edit[x].active)
    /\ edit' = [edit EXCEPT ![x] = NoEdit]
    /\ UNCHANGED <<revisions, running, deployed, workspace, past>>

-----------------------------------------------------------------------------
\* The routing part of createPersonalLabWorkspace, for a new owner.
OpenWorkspace(w) ==
    /\ workspace[w] = "absent"
    /\ workspace' = [workspace EXCEPT ![w] = "active"]
    /\ recorded' = FALSE
    /\ UNCHANGED <<revisions, enabled, running, deployed, past, edit>>

\* expiresAt passes; nobody is told.
TimePasses(w) ==
    /\ workspace[w] = "active"
    /\ w \notin past
    /\ past' = past \cup {w}
    /\ recorded' = FALSE
    /\ UNCHANGED <<revisions, enabled, running, deployed, workspace, edit>>

\* disableWorkspaceResources retires the deployments of w, disables the
\* proxies of its organization and records a change per deployment.
disableWorkspaceResources(w) ==
    /\ running' = [p \in Proxies |-> [e \in Environments |->
          IF Scope[p] = w THEN 0 ELSE running[p][e]]]
    /\ enabled' = [p \in Proxies |-> Scope[p] # w /\ enabled[p]]
    /\ recorded' = (\E p \in Proxies, e \in Environments : Scope[p] = w /\ running[p][e] # 0)
    /\ UNCHANGED <<revisions, deployed, edit>>

\* resetPersonalLabWorkspace; on an expired workspace it throws and its
\* transaction is rolled back.
ResetWorkspace(w) ==
    /\ workspace[w] = "active"
    /\ w \notin past
    /\ disableWorkspaceResources(w)
    /\ UNCHANGED <<workspace, past>>

\* revokePersonalLabWorkspace, or the expiry of a workspace that is past its time.
EndWorkspace(w, status) ==
    /\ workspace[w] = "active"
    /\ status = "expired" => w \in past
    /\ disableWorkspaceResources(w)
    /\ workspace' = [workspace EXCEPT ![w] = status]
    /\ UNCHANGED past

\* createPersonalLabWorkspace for an owner whose workspace is past its time:
\* the old one ends in the transaction that creates the new one.
ReplaceWorkspace(old, w) ==
    /\ workspace[old] = "active"
    /\ old \in past
    /\ workspace[w] = "absent"
    /\ disableWorkspaceResources(old)
    /\ workspace' = [workspace EXCEPT ![old] = "expired", ![w] = "active"]
    /\ UNCHANGED past

DeploymentNext ==
    \/ \E p \in Proxies, b \in BasePaths : importProxyRevision(p, b)
    \/ \E p \in Proxies, r \in 1 .. MaxRevisions, e \in Environments :
          deployProxyRevision(p, r, e)
    \/ \E p \in Proxies, e \in Environments : retireProxyDeployment(p, e)
    \/ \E x \in Editors, p \in Proxies : UpdateReads(x, p)
    \/ \E x \in Editors, new \in BOOLEAN : UpdateWrites(x, new)
    \/ \E w \in Workspaces :
          \/ OpenWorkspace(w) \/ TimePasses(w) \/ ResetWorkspace(w)
          \/ \E status \in {"expired", "revoked"} : EndWorkspace(w, status)
          \/ \E old \in Workspaces : ReplaceWorkspace(old, w)

DeploymentSpec == DeploymentInit /\ [][DeploymentNext]_deploymentVars

-----------------------------------------------------------------------------
\* Two active deployments of one scope and environment never claim the same
\* base path, not even while one of the proxies is disabled and so absent
\* from every gateway (updateApiProxy may enable it again unchecked).
NoRouteConflict ==
    \A p, q \in Proxies, e \in Environments :
        p # q /\ Scope[p] = Scope[q] /\ running[p][e] # 0 /\ running[q][e] # 0
            => revisions[p][running[p][e]] # revisions[q][running[q][e]]

\* What serves production went through qual and pprod of the region first,
\* with the same revision, whatever was rolled back or retired since.
PromotedThroughStages ==
    \A p \in Proxies \ {OAuthProxy}, e \in Environments :
        Scope[p] = Standard /\ running[p][e] # 0 /\ Stage[e] = "prod" =>
            \A s \in {"qual", "pprod"} : \E f \in Environments :
                Region[f] = Region[e] /\ Stage[f] = s /\ <<p, running[p][e], f>> \in deployed

\* A workspace that has ended has no active deployment left, although lab
\* deployments and the end of the workspace are requested concurrently.
EndedWorkspacesAreIdle ==
    \A p \in Proxies, e \in Environments :
        Scope[p] # Standard /\ running[p][e] # 0 => workspace[Scope[p]] = "active"
=============================================================================
