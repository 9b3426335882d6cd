------------------------- MODULE RoutingConfigProofs -------------------------
(***************************************************************************)
(* Proofs about RoutingConfig, for any proxies, environments, workspaces,  *)
(* editors and gateways.                                                   *)
(***************************************************************************)
EXTENDS RoutingConfig, SequenceTheorems, TLAPS

\* A standard revision in an environment went through the stages before it.
DeployedWasPromoted ==
    \A p \in Proxies \ {OAuthProxy}, r \in Nat, e \in Environments :
        <<p, r, e>> \in deployed => Promoted(p, r, e)

\* What is active in the standard scope has its row.
RunningHasRow ==
    \A p \in Proxies, e \in Environments :
        Scope[p] = Standard /\ running[p][e] # 0 => <<p, running[p][e], e>> \in deployed

DeploymentInv ==
    /\ DeploymentTypeOK
    /\ NoRouteConflict
    /\ DeployedWasPromoted
    /\ RunningHasRow
    /\ EndedWorkspacesAreIdle

-----------------------------------------------------------------------------
(* The database *)

LEMMA RevisionsTyped ==
  ASSUME revisions \in [Proxies -> Seq(BasePaths)]
  PROVE  \A p \in Proxies :
            /\ Len(revisions[p]) \in Nat
            /\ \A r \in 1 .. Len(revisions[p]) : revisions[p][r] \in BasePaths
<1> SUFFICES ASSUME NEW p \in Proxies
             PROVE  /\ Len(revisions[p]) \in Nat
                    /\ \A r \in 1 .. Len(revisions[p]) : revisions[p][r] \in BasePaths
  OBVIOUS
<1>1. revisions[p] \in Seq(BasePaths)
  OBVIOUS
<1>2. Len(revisions[p]) \in Nat /\ revisions[p] \in [1 .. Len(revisions[p]) -> BasePaths]
  BY <1>1, LenProperties
<1> QED
  BY <1>2

LEMMA DeploymentInitInv == DeploymentInit => DeploymentInv
<1> SUFFICES ASSUME DeploymentInit PROVE DeploymentInv
  OBVIOUS
<1> USE DeploymentAssumption DEF DeploymentInit
<1>0. PICK b \in BasePaths : revisions = [p \in Proxies |-> IF p = OAuthProxy THEN <<b>> ELSE <<>>]
  OBVIOUS
<1>1. revisions \in [Proxies -> Seq(BasePaths)]
  BY <1>0
<1>2. \A p \in Proxies, e \in Environments : running[p][e] = IF p = OAuthProxy THEN 1 ELSE 0
  OBVIOUS
<1>3. DeploymentTypeOK
  <2>1. \A p \in Proxies, e \in Environments : running[p][e] <= Len(revisions[p])
    <3> SUFFICES ASSUME NEW p \in Proxies, NEW e \in Environments
                 PROVE  running[p][e] <= Len(revisions[p])
      OBVIOUS
    <3>1. CASE p = OAuthProxy
      <4>1. revisions[p] = <<b>>
        BY <1>0, <3>1
      <4>2. Len(<<b>>) = 1
        OBVIOUS
      <4> QED
        BY <1>2, <3>1, <4>1, <4>2
    <3>2. CASE p # OAuthProxy
      <4>1. running[p][e] = 0 /\ Len(revisions[p]) \in Nat
        BY <1>1, <1>2, <3>2, RevisionsTyped
      <4> QED
        BY <4>1
    <3> QED
      BY <3>1, <3>2
  <2>2. edit \in [Editors -> [proxy : Proxies, active : BOOLEAN]]
    BY DEF NoEdit
  <2> QED
    BY <1>1, <2>1, <2>2 DEF DeploymentTypeOK, Statuses
<1>4. NoRouteConflict
  BY <1>2 DEF NoRouteConflict
<1>5. DeployedWasPromoted
  BY DEF DeployedWasPromoted
<1>6. RunningHasRow
  BY <1>2 DEF RunningHasRow
<1>7. EndedWorkspacesAreIdle
  BY <1>2 DEF EndedWorkspacesAreIdle
<1> QED
  BY <1>3, <1>4, <1>5, <1>6, <1>7 DEF DeploymentInv

\* No step of the control plane changes a revision that exists.
LEMMA RevisionsAreImmutable ==
  ASSUME DeploymentTypeOK, [DeploymentNext]_deploymentVars
  PROVE  /\ revisions' \in [Proxies -> Seq(BasePaths)]
         /\ \A p \in Proxies :
              /\ Len(revisions[p]) <= Len(revisions'[p])
              /\ \A r \in 1 .. Len(revisions[p]) : revisions'[p][r] = revisions[p][r]
<1> USE DEF DeploymentTypeOK
<1>0. \A p \in Proxies : Len(revisions[p]) \in Nat
  BY RevisionsTyped
<1>1. CASE revisions' = revisions
  BY <1>0, <1>1
<1>2. ASSUME NEW p \in Proxies, NEW b \in BasePaths, importProxyRevision(p, b)
      PROVE  /\ revisions' \in [Proxies -> Seq(BasePaths)]
             /\ \A q \in Proxies :
                  /\ Len(revisions[q]) <= Len(revisions'[q])
                  /\ \A r \in 1 .. Len(revisions[q]) : revisions'[q][r] = revisions[q][r]
  <2>1. revisions[p] \in Seq(BasePaths)
    OBVIOUS
  <2>2. revisions' = [revisions EXCEPT ![p] = Append(revisions[p], b)]
    BY <1>2 DEF importProxyRevision
  <2>3. /\ Append(revisions[p], b) \in Seq(BasePaths)
        /\ Len(Append(revisions[p], b)) = Len(revisions[p]) + 1
        /\ \A r \in 1 .. Len(revisions[p]) : Append(revisions[p], b)[r] = revisions[p][r]
    BY <2>1, AppendProperties
  <2> QED
    BY <1>0, <2>2, <2>3
<1>3. revisions' = revisions \/ \E p \in Proxies, b \in BasePaths : importProxyRevision(p, b)
  BY DEF DeploymentNext, deploymentVars, deployProxyRevision, retireProxyDeployment, UpdateReads,
         UpdateWrites, OpenWorkspace, TimePasses, ResetWorkspace, EndWorkspace, ReplaceWorkspace,
         disableWorkspaceResources
<1> QED
  BY <1>1, <1>2, <1>3

\* The parts of the invariant that depend on nothing but what is deployed.
LEMMA SameDeployments ==
  ASSUME DeploymentInv, UNCHANGED <<revisions, running, deployed>>
  PROVE  NoRouteConflict' /\ DeployedWasPromoted' /\ RunningHasRow'
  BY DEF DeploymentInv, NoRouteConflict, DeployedWasPromoted, RunningHasRow, Promoted

LEMMA ImportInv ==
  ASSUME DeploymentInv, NEW p \in Proxies, NEW b \in BasePaths, importProxyRevision(p, b)
  PROVE  DeploymentInv'
<1> USE DEF DeploymentInv, importProxyRevision
<1>1. DeploymentTypeOK /\ [DeploymentNext]_deploymentVars
  BY DEF DeploymentNext
<1>2. /\ revisions' \in [Proxies -> Seq(BasePaths)]
      /\ \A q \in Proxies :
           /\ Len(revisions[q]) <= Len(revisions'[q])
           /\ \A r \in 1 .. Len(revisions[q]) : revisions'[q][r] = revisions[q][r]
  BY <1>1, RevisionsAreImmutable
<1>3. \A q \in Proxies : Len(revisions[q]) \in Nat /\ Len(revisions'[q]) \in Nat
  <2>1. \A q \in Proxies : Len(revisions[q]) \in Nat
    BY <1>1, RevisionsTyped DEF DeploymentTypeOK
  <2>2. \A q \in Proxies : Len(revisions'[q]) \in Nat
    <3> SUFFICES ASSUME NEW q \in Proxies PROVE Len(revisions'[q]) \in Nat
      OBVIOUS
    <3>1. revisions'[q] \in Seq(BasePaths)
      BY <1>2
    <3> QED
      BY <3>1, LenProperties
  <2> QED
    BY <2>1, <2>2
<1>4. DeploymentTypeOK'
  <2>1. \A q \in Proxies, e \in Environments : running'[q][e] <= Len(revisions'[q])
    BY <1>2, <1>3 DEF DeploymentTypeOK
  <2> QED
    BY <1>2, <2>1 DEF DeploymentTypeOK
<1>5. \A q \in Proxies, e \in Environments :
        running[q][e] # 0 => revisions'[q][running[q][e]] = revisions[q][running[q][e]]
  BY <1>2, <1>3 DEF DeploymentTypeOK
<1>6. NoRouteConflict'
  <2> SUFFICES ASSUME NEW q \in Proxies, NEW s \in Proxies, NEW e \in Environments,
                      q # s, Scope[q] = Scope[s], running'[q][e] # 0, running'[s][e] # 0
               PROVE  revisions'[q][running'[q][e]] # revisions'[s][running'[s][e]]
    BY Zenon DEF NoRouteConflict
  <2>0. running' = running
    OBVIOUS
  <2>1. revisions[q][running[q][e]] # revisions[s][running[s][e]]
    BY <2>0 DEF NoRouteConflict
  <2>2. /\ revisions'[q][running[q][e]] = revisions[q][running[q][e]]
        /\ revisions'[s][running[s][e]] = revisions[s][running[s][e]]
    BY <1>5, <2>0
  <2> QED
    BY <2>0, <2>1, <2>2, Zenon
<1>7. DeployedWasPromoted' /\ RunningHasRow' /\ EndedWorkspacesAreIdle'
  BY DEF DeployedWasPromoted, Promoted, RunningHasRow, EndedWorkspacesAreIdle
<1> QED
  BY <1>4, <1>6, <1>7

LEMMA DeployInv ==
  ASSUME DeploymentInv, NEW p \in Proxies, NEW r \in 1 .. MaxRevisions, NEW e \in Environments,
         deployProxyRevision(p, r, e)
  PROVE  DeploymentInv'
<1> USE DeploymentAssumption DEF DeploymentInv, deployProxyRevision
<1>1. /\ r \in Nat \ {0}
      /\ r <= Len(revisions[p])
  <2>1. Len(revisions[p]) \in Nat
    BY RevisionsTyped DEF DeploymentTypeOK
  <2> QED
    BY <2>1
<1>2. \A q \in Proxies, f \in Environments :
        running'[q][f] = IF q = p /\ f = e THEN r ELSE running[q][f]
  BY DEF DeploymentTypeOK
<1>3. DeploymentTypeOK'
  <2>1. \A q \in Proxies, f \in Environments : running'[q][f] <= Len(revisions'[q])
    BY <1>1, <1>2 DEF DeploymentTypeOK
  <2>2. running' \in [Proxies -> [Environments -> Nat]]
    BY <1>1 DEF DeploymentTypeOK
  <2>3. deployed' \subseteq Proxies \X (Nat \ {0}) \X Environments
    BY <1>1 DEF DeploymentTypeOK
  <2> QED
    BY <2>1, <2>2, <2>3 DEF DeploymentTypeOK
<1>4. NoRouteConflict'
  <2> SUFFICES ASSUME NEW q \in Proxies, NEW s \in Proxies, NEW f \in Environments,
                      q # s, Scope[q] = Scope[s], running'[q][f] # 0, running'[s][f] # 0
               PROVE  revisions'[q][running'[q][f]] # revisions'[s][running'[s][f]]
    BY DEF NoRouteConflict
  <2>1. CASE q = p /\ f = e
    BY <1>1, <1>2, <2>1 DEF RouteTaken
  <2>2. CASE s = p /\ f = e
    BY <1>1, <1>2, <2>2 DEF RouteTaken
  <2>3. CASE ~(q = p /\ f = e) /\ ~(s = p /\ f = e)
    BY <1>2, <2>3 DEF NoRouteConflict
  <2> QED
    BY <2>1, <2>2, <2>3
<1>5. DeployedWasPromoted'
  <2> SUFFICES ASSUME NEW q \in Proxies \ {OAuthProxy}, NEW n \in Nat, NEW f \in Environments,
                      <<q, n, f>> \in deployed'
               PROVE  Promoted(q, n, f)'
    BY DEF DeployedWasPromoted
  <2>1. deployed \subseteq deployed'
    OBVIOUS
  <2>2. Promoted(q, n, f)
    <3>1. CASE <<q, n, f>> \in deployed
      BY <3>1 DEF DeployedWasPromoted
    <3>2. CASE <<q, n, f>> \notin deployed
      <4>1. <<q, n, f>> = <<p, r, e>>
        BY <3>2
      <4>2. q = p /\ n = r /\ f = e
        BY <4>1
      <4> QED
        BY <4>2
    <3> QED
      BY <3>1, <3>2
  <2> QED
    BY <2>1, <2>2 DEF Promoted
<1>6. RunningHasRow'
  BY <1>2 DEF RunningHasRow
<1>7. EndedWorkspacesAreIdle'
  BY <1>2 DEF EndedWorkspacesAreIdle, LabAllows
<1> QED
  BY <1>3, <1>4, <1>5, <1>6, <1>7

LEMMA RetireInv ==
  ASSUME DeploymentInv, NEW p \in Proxies, NEW e \in Environments, retireProxyDeployment(p, e)
  PROVE  DeploymentInv'
<1> USE DEF DeploymentInv, retireProxyDeployment
<1>1. \A q \in Proxies, f \in Environments :
        running'[q][f] = IF q = p /\ f = e THEN 0 ELSE running[q][f]
  BY DEF DeploymentTypeOK
<1>2. DeploymentTypeOK'
  <2>1. \A q \in Proxies : Len(revisions[q]) \in Nat
    BY RevisionsTyped DEF DeploymentTypeOK
  <2>2. \A q \in Proxies, f \in Environments : running'[q][f] <= Len(revisions'[q])
    BY <1>1, <2>1 DEF DeploymentTypeOK
  <2> QED
    BY <2>2 DEF DeploymentTypeOK
<1>3. NoRouteConflict' /\ RunningHasRow' /\ EndedWorkspacesAreIdle'
  BY <1>1 DEF NoRouteConflict, RunningHasRow, EndedWorkspacesAreIdle
<1>4. DeployedWasPromoted'
  BY DEF DeployedWasPromoted, Promoted
<1> QED
  BY <1>2, <1>3, <1>4

LEMMA DisableInv ==
  ASSUME DeploymentInv, NEW w \in Workspaces, disableWorkspaceResources(w),
         UNCHANGED past,
         workspace' \in [Workspaces -> Statuses],
         \A v \in Workspaces \ {w} : workspace[v] = "active" => workspace'[v] = "active"
  PROVE  DeploymentInv'
<1> USE DeploymentAssumption DEF DeploymentInv, disableWorkspaceResources
<1>1. \A q \in Proxies, f \in Environments :
        running'[q][f] = IF Scope[q] = w THEN 0 ELSE running[q][f]
  OBVIOUS
<1>2. DeploymentTypeOK'
  <2>1. \A q \in Proxies : Len(revisions[q]) \in Nat
    BY RevisionsTyped DEF DeploymentTypeOK
  <2>2. \A q \in Proxies, f \in Environments : running'[q][f] <= Len(revisions'[q])
    BY <1>1, <2>1 DEF DeploymentTypeOK
  <2>3. running' \in [Proxies -> [Environments -> Nat]]
    BY DEF DeploymentTypeOK
  <2>4. enabled' \in [Proxies -> BOOLEAN] /\ recorded' \in BOOLEAN
    BY DEF DeploymentTypeOK
  <2> QED
    BY <2>2, <2>3, <2>4 DEF DeploymentTypeOK
<1>3. NoRouteConflict' /\ RunningHasRow'
  BY <1>1 DEF NoRouteConflict, RunningHasRow
<1>4. EndedWorkspacesAreIdle'
  BY <1>1 DEF EndedWorkspacesAreIdle
<1>5. DeployedWasPromoted'
  BY DEF DeployedWasPromoted, Promoted
<1> QED
  BY <1>2, <1>3, <1>4, <1>5

LEMMA DeploymentStepInv ==
  ASSUME DeploymentInv, [DeploymentNext]_deploymentVars
  PROVE  DeploymentInv'
<1> USE DEF DeploymentInv
<1>1. ASSUME NEW x \in Editors, NEW p \in Proxies, UpdateReads(x, p)
      PROVE  DeploymentInv'
  <2>1. DeploymentTypeOK' /\ EndedWorkspacesAreIdle'
    BY <1>1 DEF UpdateReads, DeploymentTypeOK, EndedWorkspacesAreIdle
  <2> QED
    BY <1>1, <2>1, SameDeployments DEF UpdateReads
<1>2. ASSUME NEW x \in Editors, NEW new \in BOOLEAN, UpdateWrites(x, new)
      PROVE  DeploymentInv'
  <2>1. DeploymentTypeOK'
    <3>1. edit' \in [Editors -> [proxy : Proxies, active : BOOLEAN]]
      BY <1>2, DeploymentAssumption DEF UpdateWrites, DeploymentTypeOK, NoEdit
    <3>2. enabled' \in [Proxies -> BOOLEAN] /\ recorded' \in BOOLEAN
      BY <1>2 DEF UpdateWrites, DeploymentTypeOK
    <3> QED
      BY <1>2, <3>1, <3>2 DEF UpdateWrites, DeploymentTypeOK
  <2>2. EndedWorkspacesAreIdle'
    BY <1>2 DEF UpdateWrites, EndedWorkspacesAreIdle
  <2> QED
    BY <1>2, <2>1, <2>2, SameDeployments DEF UpdateWrites
<1>3. ASSUME NEW w \in Workspaces, OpenWorkspace(w)
      PROVE  DeploymentInv'
  <2>1. DeploymentTypeOK' /\ EndedWorkspacesAreIdle'
    BY <1>3, DeploymentAssumption
    DEF OpenWorkspace, DeploymentTypeOK, EndedWorkspacesAreIdle, Statuses
  <2> QED
    BY <1>3, <2>1, SameDeployments DEF OpenWorkspace
<1>4. ASSUME NEW w \in Workspaces, TimePasses(w)
      PROVE  DeploymentInv'
  <2>1. DeploymentTypeOK' /\ EndedWorkspacesAreIdle'
    BY <1>4 DEF TimePasses, DeploymentTypeOK, EndedWorkspacesAreIdle
  <2> QED
    BY <1>4, <2>1, SameDeployments DEF TimePasses
<1>5. ASSUME NEW w \in Workspaces, ResetWorkspace(w)
      PROVE  DeploymentInv'
  BY <1>5, DisableInv DEF ResetWorkspace, DeploymentTypeOK
<1>6. ASSUME NEW w \in Workspaces, NEW status \in {"expired", "revoked"}, EndWorkspace(w, status)
      PROVE  DeploymentInv'
  <2>1. /\ workspace' \in [Workspaces -> Statuses]
        /\ \A v \in Workspaces \ {w} : workspace'[v] = workspace[v]
    BY <1>6 DEF EndWorkspace, DeploymentTypeOK, Statuses
  <2> QED
    BY <1>6, <2>1, DisableInv DEF EndWorkspace
<1>7. ASSUME NEW old \in Workspaces, NEW w \in Workspaces, ReplaceWorkspace(old, w)
      PROVE  DeploymentInv'
  <2>1. /\ workspace' \in [Workspaces -> Statuses]
        /\ \A v \in Workspaces \ {old} : workspace[v] = "active" => workspace'[v] = "active"
    BY <1>7 DEF ReplaceWorkspace, DeploymentTypeOK, Statuses
  <2> QED
    BY <1>7, <2>1, DisableInv DEF ReplaceWorkspace
<1>8. CASE UNCHANGED deploymentVars
  <2>1. DeploymentTypeOK' /\ EndedWorkspacesAreIdle'
    BY <1>8 DEF deploymentVars, DeploymentTypeOK, EndedWorkspacesAreIdle
  <2> QED
    BY <1>8, <2>1, SameDeployments DEF deploymentVars
<1> QED
  BY <1>1, <1>2, <1>3, <1>4, <1>5, <1>6, <1>7, <1>8, ImportInv, DeployInv, RetireInv DEF DeploymentNext

-----------------------------------------------------------------------------
(* What a gateway makes of it *)

\* The rows a gateway has selected are rows of revisions that exist.
RowsExist ==
    \A g \in Gateways : \A row \in rows[g] :
        row \in Rows /\ row[2] <= Len(revisions[row[1]])

\* A load under way with nothing newer to load has what it would select now.
LoadingIsCurrent ==
    \A g \in loading \ (stale \cup silent) : rows[g] = SelectedRows(g)

IndInv ==
    /\ DeploymentInv
    /\ TypeOK
    /\ RowsExist
    /\ SettledGatewayIsCurrent
    /\ LoadingIsCurrent

LEMMA SelectedRow ==
  ASSUME DeploymentInv, NEW g \in Gateways, NEW row \in SelectedRows(g)
  PROVE  \E p \in Proxies, e \in Environments :
            /\ row = <<p, running[p][e], e>>
            /\ running[p][e] \in 1 .. Len(revisions[p])
            /\ enabled[p]
            /\ Alive(Scope[p])
<1>1. PICK d \in Proxies \X Allowlist[g] :
        /\ row = <<d[1], running[d[1]][d[2]], d[2]>>
        /\ running[d[1]][d[2]] # 0
        /\ enabled[d[1]]
        /\ Alive(Scope[d[1]])
  BY DEF SelectedRows
<1>2. d[1] \in Proxies /\ d[2] \in Environments
  BY RegistryAssumption
<1>3. /\ running[d[1]][d[2]] \in Nat
      /\ Len(revisions[d[1]]) \in Nat
      /\ running[d[1]][d[2]] <= Len(revisions[d[1]])
  BY <1>2, RevisionsTyped DEF DeploymentInv, DeploymentTypeOK
<1> QED
  BY <1>1, <1>2, <1>3

\* Configurations depend on the rows, their revisions and whether their
\* proxies are enabled, and on nothing else.
LEMMA SameConfigs ==
  ASSUME NEW S,
         \A row \in S : /\ enabled'[row[1]] = enabled[row[1]]
                        /\ revisions'[row[1]][row[2]] = revisions[row[1]][row[2]]
  PROVE  ConfigsOf(S)' = ConfigsOf(S)
<1> DEFINE Own(T) == {ConfigOf(row, Scope[row[1]]) : row \in {r \in T : enabled[r[1]]}}
           OAuth(T) == {r \in T : r[1] = OAuthProxy /\ enabled[OAuthProxy]}
           Pairs(T) == {q \in OAuth(T) \X T : q[1][3] = q[2][3] /\ Scope[q[2][1]] # Standard}
           Copies(T) == {ConfigOf(pair[1], Scope[pair[2][1]]) : pair \in Pairs(T)}
<1>1. \A w : \A row \in S : ConfigOf(row, w)' = ConfigOf(row, w)
  BY DEF ConfigOf
<1>2. Own(S)' = Own(S)
  BY <1>1
<1>3. OAuth(S)' = OAuth(S)
  OBVIOUS
<1>4. Pairs(S)' = Pairs(S)
  BY <1>3
<1>5. \A pair \in Pairs(S) : pair[1] \in S
  OBVIOUS
<1>6. Copies(S)' = Copies(S)
  BY <1>1, <1>4, <1>5
<1> QED
  BY <1>2, <1>6 DEF ConfigsOf

LEMMA ConfigsTyped ==
  ASSUME DeploymentInv, NEW S,
         \A row \in S : row \in Rows /\ row[2] <= Len(revisions[row[1]])
  PROVE  ConfigsOf(S) \subseteq Configs
<1>1. \A row \in S, w \in Workspaces \cup {Standard} : ConfigOf(row, w) \in Configs
  <2> SUFFICES ASSUME NEW row \in S, NEW w \in Workspaces \cup {Standard}
               PROVE  ConfigOf(row, w) \in Configs
    OBVIOUS
  <2>1. row[1] \in Proxies /\ row[2] \in Nat \ {0} /\ row[3] \in Environments
    BY DEF Rows
  <2>2. Len(revisions[row[1]]) \in Nat /\ row[2] \in 1 .. Len(revisions[row[1]])
    BY <2>1, RevisionsTyped DEF DeploymentInv, DeploymentTypeOK
  <2>3. revisions[row[1]][row[2]] \in BasePaths
    BY <2>1, <2>2, RevisionsTyped DEF DeploymentInv, DeploymentTypeOK
  <2> QED
    BY <2>1, <2>3 DEF ConfigOf, Configs
<1>2. \A row \in S : Scope[row[1]] \in Workspaces \cup {Standard}
  BY DeploymentAssumption DEF Rows
<1> QED
  BY <1>1, <1>2 DEF ConfigsOf

LEMMA IndInit == Init => IndInv
<1> SUFFICES ASSUME Init PROVE IndInv
  OBVIOUS
<1>1. DeploymentInv
  BY DeploymentInitInv DEF Init
<1>2. TypeOK /\ RowsExist /\ SettledGatewayIsCurrent /\ LoadingIsCurrent
  BY <1>1 DEF Init, TypeOK, DeploymentInv, RowsExist, SettledGatewayIsCurrent, LoadingIsCurrent
<1> QED
  BY <1>1, <1>2 DEF IndInv

LEMMA ControlPlaneInv ==
  ASSUME IndInv, ControlPlane
  PROVE  IndInv'
<1> USE DEF IndInv, ControlPlane
<1>1. DeploymentInv'
  BY DeploymentStepInv
<1>2. TypeOK'
  BY <1>1 DEF TypeOK, DeploymentInv
<1>3. RowsExist'
  <2>1. \A p \in Proxies : /\ Len(revisions[p]) \in Nat
                           /\ Len(revisions'[p]) \in Nat
                           /\ Len(revisions[p]) <= Len(revisions'[p])
    <3>1. /\ revisions' \in [Proxies -> Seq(BasePaths)]
          /\ \A p \in Proxies : Len(revisions[p]) <= Len(revisions'[p])
      BY RevisionsAreImmutable DEF DeploymentInv
    <3>2. \A p \in Proxies : Len(revisions[p]) \in Nat
      BY RevisionsTyped DEF DeploymentInv, DeploymentTypeOK
    <3>3. ASSUME NEW p \in Proxies PROVE Len(revisions'[p]) \in Nat
      <4>1. revisions'[p] \in Seq(BasePaths)
        BY <3>1
      <4> QED
        BY <4>1, LenProperties
    <3> QED
      BY <3>1, <3>2, <3>3
  <2> SUFFICES ASSUME NEW g \in Gateways, NEW row \in rows[g]
               PROVE  row \in Rows /\ row[2] <= Len(revisions'[row[1]])
    BY DEF RowsExist
  <2>2. row \in Rows /\ row[2] <= Len(revisions[row[1]])
    BY DEF RowsExist
  <2>3. row[1] \in Proxies /\ row[2] \in Nat
    BY <2>2 DEF Rows
  <2> QED
    BY <2>1, <2>2, <2>3
<1>4. \A g \in Gateways \ (stale' \cup silent') :
        g \notin stale \cup silent /\ SelectedRows(g)' = SelectedRows(g)
  OBVIOUS
<1>5. SettledGatewayIsCurrent'
  <2> SUFFICES ASSUME NEW g \in Gateways, g \notin stale', g \notin loading', g \notin silent'
               PROVE  registry'[g] = ConfigsOf(SelectedRows(g))'
    BY DEF SettledGatewayIsCurrent
  <2>1. registry[g] = ConfigsOf(SelectedRows(g)) /\ SelectedRows(g)' = SelectedRows(g)
    BY <1>4 DEF SettledGatewayIsCurrent
  <2>2. PICK S : S = SelectedRows(g)
    OBVIOUS
  <2>3. \A row \in S : /\ enabled'[row[1]] = enabled[row[1]]
                       /\ revisions'[row[1]][row[2]] = revisions[row[1]][row[2]]
    <3> SUFFICES ASSUME NEW row \in S
                 PROVE  /\ enabled'[row[1]] = enabled[row[1]]
                        /\ revisions'[row[1]][row[2]] = revisions[row[1]][row[2]]
      OBVIOUS
    <3>1. PICK p \in Proxies, e \in Environments :
            /\ row = <<p, running[p][e], e>>
            /\ running[p][e] \in 1 .. Len(revisions[p])
            /\ enabled[p]
      BY <2>2, SelectedRow
    <3>2. enabled'[row[1]]
      BY <2>1, <2>2 DEF SelectedRows
    <3>3. enabled \in [Proxies -> BOOLEAN] /\ enabled' \in [Proxies -> BOOLEAN]
      BY <1>1 DEF DeploymentInv, DeploymentTypeOK
    <3>4. enabled'[row[1]] = enabled[row[1]]
      BY <3>1, <3>2, <3>3
    <3>5. revisions'[p][running[p][e]] = revisions[p][running[p][e]]
      BY <3>1, RevisionsAreImmutable DEF DeploymentInv
    <3> QED
      BY <3>1, <3>4, <3>5
  <2>4. ConfigsOf(S)' = ConfigsOf(S)
    BY <2>3, SameConfigs
  <2>5. ConfigsOf(SelectedRows(g)) = ConfigsOf(S)
    BY <2>2
  <2>6. ConfigsOf(SelectedRows(g))' = ConfigsOf(S)'
    BY <2>1, <2>2 DEF ConfigsOf, ConfigOf
  <2> QED
    BY <2>1, <2>4, <2>5, <2>6
<1>6. LoadingIsCurrent'
  <2> SUFFICES ASSUME NEW g \in loading', g \notin stale', g \notin silent'
               PROVE  rows'[g] = SelectedRows(g)'
    BY DEF LoadingIsCurrent
  <2> QED
    BY <1>4 DEF LoadingIsCurrent, TypeOK
<1> QED
  BY <1>1, <1>2, <1>3, <1>5, <1>6

LEMMA LoadBeginsInv ==
  ASSUME IndInv, NEW g \in Gateways, LoadBegins(g)
  PROVE  IndInv'
<1> USE DEF IndInv, LoadBegins
<1>1. DeploymentInv'
  BY DeploymentStepInv
<1>2. \A h \in Gateways : SelectedRows(h)' = SelectedRows(h)
  BY DEF deploymentVars, SelectedRows, Alive
<1>3. \A h \in Gateways : rows'[h] = IF h = g THEN SelectedRows(g) ELSE rows[h]
  BY DEF TypeOK
<1>4. \A row \in SelectedRows(g) : row \in Rows /\ row[2] <= Len(revisions[row[1]])
  <2> SUFFICES ASSUME NEW row \in SelectedRows(g)
               PROVE  row \in Rows /\ row[2] <= Len(revisions[row[1]])
    OBVIOUS
  <2>1. PICK p \in Proxies, e \in Environments :
          row = <<p, running[p][e], e>> /\ running[p][e] \in 1 .. Len(revisions[p])
    BY SelectedRow
  <2>2. Len(revisions[p]) \in Nat
    BY RevisionsTyped DEF DeploymentInv, DeploymentTypeOK
  <2> QED
    BY <2>1, <2>2 DEF Rows
<1>5. TypeOK'
  <2>1. SelectedRows(g) \in SUBSET Rows
    BY <1>4
  <2>2. rows' \in [Gateways -> SUBSET Rows]
    BY <2>1 DEF TypeOK
  <2> QED
    BY <1>1, <2>2 DEF TypeOK, DeploymentInv
<1>6. RowsExist'
  BY <1>3, <1>4 DEF RowsExist, deploymentVars
<1>7. SettledGatewayIsCurrent'
  <2> SUFFICES ASSUME NEW h \in Gateways, h \notin stale', h \notin loading', h \notin silent'
               PROVE  registry'[h] = ConfigsOf(SelectedRows(h))'
    BY DEF SettledGatewayIsCurrent
  <2>1. h # g /\ registry[h] = ConfigsOf(SelectedRows(h))
    BY DEF SettledGatewayIsCurrent
  <2>2. ConfigsOf(SelectedRows(h))' = ConfigsOf(SelectedRows(h))
    BY <1>2 DEF deploymentVars, ConfigsOf, ConfigOf
  <2> QED
    BY <2>1, <2>2
<1>8. LoadingIsCurrent'
  <2> SUFFICES ASSUME NEW h \in loading', h \notin stale', h \notin silent'
               PROVE  rows'[h] = SelectedRows(h)'
    BY DEF LoadingIsCurrent
  <2> QED
    BY <1>2, <1>3 DEF LoadingIsCurrent, TypeOK
<1> QED
  BY <1>1, <1>5, <1>6, <1>7, <1>8

LEMMA LoadEndsInv ==
  ASSUME IndInv, NEW g \in Gateways, LoadEnds(g)
  PROVE  IndInv'
<1> DEFINE C == ConfigsOf(rows[g])
<1> USE DEF IndInv, LoadEnds
<1>1. DeploymentInv'
  BY DeploymentStepInv
<1>2. C \subseteq Configs
  BY ConfigsTyped DEF RowsExist
<1>3. TypeOK'
  BY <1>1, <1>2 DEF TypeOK, DeploymentInv
<1>4. RowsExist'
  BY DEF RowsExist, deploymentVars
<1>5. \A h \in Gateways : /\ SelectedRows(h)' = SelectedRows(h)
                          /\ ConfigsOf(SelectedRows(h))' = ConfigsOf(SelectedRows(h))
  BY DEF deploymentVars, SelectedRows, Alive, ConfigsOf, ConfigOf
<1>6. SettledGatewayIsCurrent'
  <2> SUFFICES ASSUME NEW h \in Gateways, h \notin stale', h \notin loading', h \notin silent'
               PROVE  registry'[h] = ConfigsOf(SelectedRows(h))
    BY <1>5 DEF SettledGatewayIsCurrent
  <2>1. CASE h = g
    <3>1. Loadable(C) /\ registry'[g] = C
      BY <2>1 DEF TypeOK
    <3>2. rows[g] = SelectedRows(g)
      BY <2>1, <3>1 DEF LoadingIsCurrent
    <3> QED
      BY <2>1, <3>1, <3>2
  <2>2. CASE h # g
    BY <2>2 DEF SettledGatewayIsCurrent, TypeOK
  <2> QED
    BY <2>1, <2>2
<1>7. LoadingIsCurrent'
  BY <1>5 DEF LoadingIsCurrent, TypeOK
<1> QED
  BY <1>1, <1>3, <1>4, <1>6, <1>7

LEMMA StutterInv ==
  ASSUME IndInv, UNCHANGED vars
  PROVE  IndInv'
<1> USE DEF IndInv, vars, gatewayVars
<1>1. DeploymentInv'
  BY DeploymentStepInv
<1>2. TypeOK' /\ RowsExist'
  BY <1>1 DEF TypeOK, RowsExist, deploymentVars, DeploymentInv
<1>3. SettledGatewayIsCurrent' /\ LoadingIsCurrent'
  BY DEF SettledGatewayIsCurrent, LoadingIsCurrent, deploymentVars,
         SelectedRows, Alive, ConfigsOf, ConfigOf
<1> QED
  BY <1>1, <1>2, <1>3

\* The strengthened invariant holds in every reachable state.
THEOREM Invariance == Spec => []IndInv
<1>1. IndInv /\ [Next]_vars => IndInv'
  BY ControlPlaneInv, LoadBeginsInv, LoadEndsInv, StutterInv DEF Next
<1> QED
  BY IndInit, <1>1, PTL DEF Spec

-----------------------------------------------------------------------------
(* The properties *)

\* Every variable of the database and of the gateways keeps its type.
THEOREM TypeCorrect == Spec => []TypeOK
<1>1. IndInv => TypeOK
  BY DEF IndInv
<1> QED
  BY Invariance, <1>1, PTL

\* However deployments, retirements, rollbacks and activation changes
\* interleave, two active deployments of one scope never share a base path.
THEOREM RoutesNeverConflict == Spec => []NoRouteConflict
<1>1. IndInv => NoRouteConflict
  BY DEF IndInv, DeploymentInv
<1> QED
  BY Invariance, <1>1, PTL

\* deployProxyRevision looks one stage back, and that is enough: what runs in
\* prod has been deployed to qual and to pprod of the region.
THEOREM ProductionWasPromoted == Spec => []PromotedThroughStages
<1>1. IndInv => PromotedThroughStages
  <2> SUFFICES ASSUME IndInv,
                      NEW p \in Proxies \ {OAuthProxy}, NEW e \in Environments,
                      Scope[p] = Standard, running[p][e] # 0, Stage[e] = "prod"
               PROVE  \A s \in {"qual", "pprod"} : \E f \in Environments :
                        /\ Region[f] = Region[e] /\ Stage[f] = s
                        /\ <<p, running[p][e], f>> \in deployed
    BY DEF PromotedThroughStages
  <2> USE DEF IndInv, DeploymentInv
  <2> DEFINE r == running[p][e]
  <2>1. r \in Nat /\ <<p, r, e>> \in deployed
    BY DEF DeploymentTypeOK, RunningHasRow
  <2>2. Promoted(p, r, e)
    BY <2>1 DEF DeployedWasPromoted
  <2>3. PICK f \in Environments :
          Region[f] = Region[e] /\ Stage[f] = "pprod" /\ <<p, r, f>> \in deployed
    BY <2>2 DEF Promoted, previousStage
  <2>4. Promoted(p, r, f)
    BY <2>1, <2>3 DEF DeployedWasPromoted
  <2>5. PICK q \in Environments :
          Region[q] = Region[f] /\ Stage[q] = "qual" /\ <<p, r, q>> \in deployed
    BY <2>3, <2>4 DEF Promoted, previousStage
  <2> QED
    BY <2>3, <2>5
<1> QED
  BY Invariance, <1>1, PTL

\* The end of a workspace leaves none of its deployments active, and none
\* becomes active afterwards.
THEOREM NothingRunsAfterTheEnd == Spec => []EndedWorkspacesAreIdle
<1>1. IndInv => EndedWorkspacesAreIdle
  BY DEF IndInv, DeploymentInv
<1> QED
  BY Invariance, <1>1, PTL

\* Whatever the order of commits, loads and rejected loads, a gateway that
\* has nothing left to load routes by the database as it is now.
THEOREM SettledIsCurrent == Spec => []SettledGatewayIsCurrent
<1>1. IndInv => SettledGatewayIsCurrent
  BY DEF IndInv
<1> QED
  BY Invariance, <1>1, PTL

LEMMA SameRows ==
  ASSUME NEW g \in Gateways, UNCHANGED <<running, enabled, workspace, past>>
  PROVE  SelectedRows(g)' = SelectedRows(g)
  BY DEF SelectedRows, Alive

\* Where nothing of a workspace is active its end, its reset and its creation
\* change nothing that a gateway selects.
LEMMA IdleWorkspace ==
  ASSUME NEW g \in Gateways, NEW w \in Workspaces,
         \A p \in Proxies, e \in Environments : Scope[p] = w => running[p][e] = 0,
         \A p \in Proxies, e \in Environments : running'[p][e] = running[p][e],
         \A p \in Proxies : Scope[p] # w => enabled'[p] = enabled[p],
         \A v \in Workspaces \ {w} : workspace[v] = "active" => workspace'[v] = "active",
         EndedWorkspacesAreIdle,
         UNCHANGED past
  PROVE  SelectedRows(g)' = SelectedRows(g)
<1> USE DeploymentAssumption, RegistryAssumption
<1>1. \A d \in Proxies \X Allowlist[g] :
        /\ d[1] \in Proxies
        /\ d[2] \in Environments
        /\ running'[d[1]][d[2]] = running[d[1]][d[2]]
        /\ Scope[d[1]] \in Workspaces \cup {Standard}
  OBVIOUS
<1>2. \A d \in Proxies \X Allowlist[g] : running[d[1]][d[2]] # 0 =>
        /\ enabled'[d[1]] = enabled[d[1]]
        /\ Alive(Scope[d[1]])' <=> Alive(Scope[d[1]])
  BY <1>1 DEF Alive, EndedWorkspacesAreIdle
<1>3. {d \in Proxies \X Allowlist[g] :
          running[d[1]][d[2]] # 0 /\ enabled[d[1]] /\ Alive(Scope[d[1]])}'
      = {d \in Proxies \X Allowlist[g] :
          running[d[1]][d[2]] # 0 /\ enabled[d[1]] /\ Alive(Scope[d[1]])}
  BY <1>1, <1>2
<1> QED
  BY <1>1, <1>3 DEF SelectedRows

LEMMA DisableIsRecorded ==
  ASSUME NEW g \in Gateways, NEW w \in Workspaces,
         disableWorkspaceResources(w),
         DeploymentTypeOK,
         EndedWorkspacesAreIdle,
         ~recorded',
         UNCHANGED past,
         \A v \in Workspaces \ {w} : workspace[v] = "active" => workspace'[v] = "active"
  PROVE  SelectedRows(g)' = SelectedRows(g)
<1> USE DEF disableWorkspaceResources, DeploymentTypeOK
<1>1. \A p \in Proxies, e \in Environments : Scope[p] = w => running[p][e] = 0
  OBVIOUS
<1>2. \A p \in Proxies, e \in Environments : running'[p][e] = running[p][e]
  BY <1>1
<1>3. \A p \in Proxies : Scope[p] # w => enabled'[p] = enabled[p]
  OBVIOUS
<1> QED
  BY <1>1, <1>2, <1>3, IdleWorkspace

\* A change of what a gateway would load goes unrecorded only where a
\* workspace runs out of time or an updateApiProxy read a flag that another
\* one changed before it wrote.
THEOREM SilenceIsExplained == Spec => SilentOnlyByTimeOrStaleRead
<1> DEFINE Explained == \A g \in Gateways : SelectedRows(g)' # SelectedRows(g) =>
             \/ recorded'
             \/ past' # past
             \/ \E x \in Editors : edit'[x] # edit[x] /\ edit[x].active # enabled[edit[x].proxy]
<1>1. IndInv /\ [Next]_vars => Explained
  <2> SUFFICES ASSUME IndInv, [Next]_vars, NEW g \in Gateways, ~recorded', past' = past,
                      SelectedRows(g)' # SelectedRows(g)
               PROVE  \E x \in Editors :
                        edit'[x] # edit[x] /\ edit[x].active # enabled[edit[x].proxy]
    OBVIOUS
  <2> USE DEF IndInv, DeploymentInv
  <2>1. PICK x \in Editors, new \in BOOLEAN : UpdateWrites(x, new)
    <3>1. DeploymentNext
      <4>1. ~UNCHANGED deploymentVars
        BY SameRows DEF deploymentVars
      <4> QED
        BY <4>1 DEF Next, ControlPlane, LoadBegins, LoadEnds, vars
    <3>2. ASSUME NEW p \in Proxies, NEW b \in BasePaths, importProxyRevision(p, b) PROVE FALSE
      BY <3>2, SameRows DEF importProxyRevision
    <3>3. ASSUME NEW p \in Proxies, NEW r \in 1 .. MaxRevisions, NEW e \in Environments,
                 deployProxyRevision(p, r, e)
          PROVE  FALSE
      BY <3>3 DEF deployProxyRevision
    <3>4. ASSUME NEW p \in Proxies, NEW e \in Environments, retireProxyDeployment(p, e)
          PROVE  FALSE
      BY <3>4 DEF retireProxyDeployment
    <3>5. ASSUME NEW x \in Editors, NEW p \in Proxies, UpdateReads(x, p) PROVE FALSE
      BY <3>5, SameRows DEF UpdateReads
    <3>6. ASSUME NEW w \in Workspaces, OpenWorkspace(w) PROVE FALSE
      <4>1. \A p \in Proxies, e \in Environments : Scope[p] = w => running[p][e] = 0
        BY <3>6, DeploymentAssumption DEF OpenWorkspace, EndedWorkspacesAreIdle
      <4>2. /\ UNCHANGED <<running, enabled, past>>
            /\ \A v \in Workspaces \ {w} : workspace'[v] = workspace[v]
        BY <3>6 DEF OpenWorkspace, DeploymentTypeOK
      <4> QED
        BY <4>1, <4>2, IdleWorkspace
    <3>7. ASSUME NEW w \in Workspaces, TimePasses(w) PROVE FALSE
      BY <3>7 DEF TimePasses
    <3>8. ASSUME NEW w \in Workspaces, ResetWorkspace(w) PROVE FALSE
      BY <3>8, DisableIsRecorded DEF ResetWorkspace
    <3>9. ASSUME NEW w \in Workspaces, NEW status \in {"expired", "revoked"}, EndWorkspace(w, status)
          PROVE  FALSE
      <4>1. \A v \in Workspaces \ {w} : workspace'[v] = workspace[v]
        BY <3>9 DEF EndWorkspace, DeploymentTypeOK
      <4> QED
        BY <3>9, <4>1, DisableIsRecorded DEF EndWorkspace
    <3>10. ASSUME NEW old \in Workspaces, NEW w \in Workspaces, ReplaceWorkspace(old, w) PROVE FALSE
      <4>1. \A v \in Workspaces \ {old} : workspace[v] = "active" => workspace'[v] = "active"
        BY <3>10 DEF ReplaceWorkspace, DeploymentTypeOK
      <4> QED
        BY <3>10, <4>1, DisableIsRecorded DEF ReplaceWorkspace
    <3> QED
      BY <3>1, <3>2, <3>3, <3>4, <3>5, <3>6, <3>7, <3>8, <3>9, <3>10 DEF DeploymentNext
  <2> DEFINE p == edit[x].proxy
  <2>2. /\ edit \in [Editors -> [proxy : Proxies, active : BOOLEAN]]
        /\ enabled \in [Proxies -> BOOLEAN]
        /\ p \in Proxies
    BY DEF DeploymentTypeOK
  <2>3. edit'[x] # edit[x] /\ new = edit[x].active
    BY <2>1, <2>2 DEF UpdateWrites
  <2>4. enabled' = [enabled EXCEPT ![p] = new]
    BY <2>1 DEF UpdateWrites
  <2>5. CASE enabled[p] = new
    <3>1. enabled' = enabled
      BY <2>2, <2>4, <2>5
    <3> QED
      BY <2>1, <3>1, SameRows DEF UpdateWrites
  <2> QED
    BY <2>3, <2>5
<1> QED
  BY Invariance, <1>1, PTL DEF Spec, SilentOnlyByTimeOrStaleRead
=============================================================================
