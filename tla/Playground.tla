----------------------------- MODULE Playground -----------------------------
(***************************************************************************)
(* The panel's proxy playground: a page that shows a proxy, one of its     *)
(* deployments, that deployment's revision and one of its operations, each *)
(* loaded by its own request, and the server behind it, which reads the    *)
(* catalog again and sends the request to a gateway.                       *)
(*                                                                         *)
(* The page keeps the deployments and the revision of the previous choice  *)
(* until those of the new one arrive, and while a load is out or has       *)
(* failed it may send the mix.  Meanwhile deployments are replaced and     *)
(* retired, and proxies disabled and enabled again.  An operation that     *)
(* asks for a client certificate is sent by the local agent instead, to    *)
(* the address on the page, and nothing is read again.                     *)
(***************************************************************************)
EXTENDS Naturals, Sequences, FiniteSets

CONSTANTS
    TrialApis,          \* proxies of the catalog
    Managed,            \* those the platform manages: the OAuth proxy
    Stages,             \* environments, as their stage order 0, 1, 2
    Contents,           \* [<<proxy, revision number>> -> its operations, in order]
    FirstRows,          \* the deployments at first: [api, stage, rev]
    NothingShown,       \* no revision, no load
    MaxCatalogChanges,  \* bound: deployments that end, proxies switched
    MaxTrials           \* bound: requests sent, and the page's life

ASSUME PlaygroundAssumption ==
    /\ Managed \subseteq TrialApis
    /\ Stages \subseteq Nat
    /\ DOMAIN Contents \subseteq TrialApis \X Nat
    /\ \A key \in DOMAIN Contents :
          /\ Len(Contents[key]) > 0
          /\ \A i, j \in DOMAIN Contents[key] :  \* unique in the database
                Contents[key][i].id = Contents[key][j].id => i = j
    /\ FirstRows \in Seq([api : TrialApis, stage : Stages, rev : Nat])
    /\ \A r \in DOMAIN FirstRows : <<FirstRows[r].api, FirstRows[r].rev>> \in DOMAIN Contents
    /\ NothingShown \notin DOMAIN Contents

VARIABLES
    catalog,   \* rows, those active, the proxies enabled, and how many changes
    view,       \* the page
    trial,      \* the request being served
    tried       \* requests sent to gateways

playgroundVars == <<catalog, view, trial, tried>>

NoTrial == [stage |-> "none"]
NoDeployment == 0
Typed == "typed"    \* an address that is not the operation's, at any origin
Rows == catalog.rows
DeploymentsOf(api) == {r \in DOMAIN Rows : Rows[r].api = api}

OperationsOf(key) ==
    IF key \in DOMAIN Contents THEN {Contents[key][i] : i \in DOMAIN Contents[key]} ELSE {}

-----------------------------------------------------------------------------
(* What an operation asks for, and what satisfies it.                      *)

authenticationRequirement(operation) ==
    LET enabled == SelectSeq(operation.policies, LAMBDA p : p.enabled)
        guards == SelectSeq(enabled, LAMBDA p :
                     p.type \in {"api-key-auth", "oauth-access-token", "mtls-auth"})
        Has(type) == \E i \in DOMAIN enabled : enabled[i].type = type
    IN CASE Has("oauth-token") -> "oauthToken"
         [] ~Has("oauth-token") /\ Has("jwks-endpoint") -> "jwks"
         [] OTHER -> IF guards = <<>> THEN "none"
                     ELSE CASE guards[1].type = "api-key-auth" -> "apiKey"
                            [] guards[1].type = "oauth-access-token" -> "oauth"
                            [] OTHER -> "mtls"

Grants == {"clientCredentials", "jwtBearer"}
AuthenticationsSent == Grants \cup {"none", "apiKey", "bearerToken"}

\* What the page fills in for the operation it shows.
authentication(requirement) ==
    CASE requirement = "apiKey" -> {"apiKey"}
      [] requirement \in {"oauth", "oauthToken"} -> Grants \cup {"bearerToken"}
      [] OTHER -> {"none"}

Compatible(requirement) ==
    CASE requirement = "apiKey" -> {"apiKey"}
      [] requirement = "oauth" -> Grants \cup {"bearerToken"}
      [] requirement = "oauthToken" -> Grants
      [] requirement = "mtls" -> {}
      [] OTHER -> {"none"}

-----------------------------------------------------------------------------
(* The catalog changes.                                                    *)

CatalogMoves ==
    /\ catalog.changes < MaxCatalogChanges
    /\ view.trials < MaxTrials \/ trial # NoTrial

Redeploy(r, rev) ==
    /\ r \in catalog.live /\ CatalogMoves
    /\ <<Rows[r].api, rev>> \in DOMAIN Contents /\ rev # Rows[r].rev
    /\ catalog' = [catalog EXCEPT !.rows = Append(@, [Rows[r] EXCEPT !.rev = rev]),
                                    !.live = (@ \ {r}) \cup {Len(Rows) + 1},
                                    !.changes = @ + 1]
    /\ UNCHANGED <<view, trial, tried>>

Retire(r) ==
    /\ r \in catalog.live /\ CatalogMoves
    /\ catalog' = [catalog EXCEPT !.live = @ \ {r}, !.changes = @ + 1]
    /\ UNCHANGED <<view, trial, tried>>

\* Switches the proxy off or on; the platform's own cannot be changed.  The
\* request being served keeps whether its proxy was ever on since the click.
updateApiProxy(api) ==
    /\ api \in TrialApis \ Managed /\ CatalogMoves
    /\ LET on == (catalog.enabled \ {api}) \cup ({api} \ catalog.enabled) IN
       /\ catalog' = [catalog EXCEPT !.enabled = on, !.changes = @ + 1]
       /\ trial' = IF trial = NoTrial THEN NoTrial
                   ELSE [trial EXCEPT !.wasOn = @ \/ trial.proxy \in on]
    /\ UNCHANGED <<view, tried>>

-----------------------------------------------------------------------------
(* The page.  A load that is replaced is aborted, and its end clears the   *)
(* indicator of the one that replaced it.                                  *)

RevisionOf(api, r) == IF r = NoDeployment THEN NothingShown ELSE <<api, Rows[r].rev>>
Out(load) == load # NothingShown

PickProxy(api) ==
    /\ ~view.loading /\ api # view.proxy
    /\ view' = [view EXCEPT
                  !.proxy = api, !.proxyLoad = api,
                  !.revisionLoad = RevisionOf(api, view.deployment),
                  !.loading = ~Out(view.proxyLoad) /\ ~Out(view.revisionLoad)]
    /\ UNCHANGED <<catalog, trial, tried>>

Earliest(active) ==
    IF active = {} THEN NoDeployment
    ELSE CHOOSE r \in active : \A s \in active : Rows[r].stage <= Rows[s].stage

\* Mutant: what was selected stays selected.
SelectedStays(active) ==
    IF view.deployment = NoDeployment THEN Earliest(active) ELSE view.deployment

\* The first of the active deployments, by stage.
Selected(active) == Earliest(active)

ProxyLoaded ==
    /\ Out(view.proxyLoad)
    /\ LET active == DeploymentsOf(view.proxyLoad) \cap catalog.live
           first == Selected(active)
       IN view' = [view EXCEPT
                     !.proxyLoad = NothingShown, !.listed = active, !.deployment = first,
                     !.revision = IF first = NoDeployment THEN NothingShown ELSE @,
                     !.revisionLoad = RevisionOf(view.proxy, first),
                     !.loading = first # NoDeployment /\ ~Out(view.revisionLoad)]
    /\ UNCHANGED <<catalog, trial, tried>>

PickDeployment(r) ==
    /\ ~view.loading /\ r \in view.listed \ {view.deployment}
    /\ view' = [view EXCEPT !.deployment = r,
                            !.revisionLoad = RevisionOf(view.proxy, r),
                            !.loading = ~Out(view.revisionLoad)]
    /\ UNCHANGED <<catalog, trial, tried>>

\* A revision number that the proxy does not have is not found.
RevisionLoaded ==
    /\ view.revisionLoad \in DOMAIN Contents
    /\ view' = [view EXCEPT !.revision = view.revisionLoad, !.revisionLoad = NothingShown,
                            !.operation = Contents[view.revisionLoad][1].id, !.loading = FALSE]
    /\ UNCHANGED <<catalog, trial, tried>>

LoadFails ==
    /\ \/ Out(view.proxyLoad) /\ view' = [view EXCEPT !.proxyLoad = NothingShown, !.loading = FALSE]
       \/ Out(view.revisionLoad)
          /\ view' = [view EXCEPT !.revisionLoad = NothingShown, !.loading = FALSE]
    /\ UNCHANGED <<catalog, trial, tried>>

PickOperation(operation) ==
    /\ ~view.loading /\ operation \in OperationsOf(view.revision)
    /\ operation.id # view.operation
    /\ view' = [view EXCEPT !.operation = operation.id]
    /\ UNCHANGED <<catalog, trial, tried>>

\* Enabled by canExecute and by no request being executed, while
\* loads may be out.  The last four fields are kept for the properties.
runRequest(operation, auth) ==
    /\ trial = NoTrial /\ view.trials < MaxTrials
    /\ view.deployment # NoDeployment
    /\ operation \in OperationsOf(view.revision) /\ operation.id = view.operation
    /\ authenticationRequirement(operation) # "mtls"
    /\ auth \in authentication(authenticationRequirement(operation))
    /\ view' = [view EXCEPT !.trials = @ + 1]
    /\ trial' = [stage |-> "reading", reads |-> {}, active |-> FALSE, listed |-> {},
                 proxy |-> view.proxy, deployment |-> view.deployment,
                 operation |-> view.operation, path |-> operation.path,
                 origin |-> Rows[view.deployment].stage, auth |-> auth,
                 shown |-> operation.method,
                 mixed |-> view.revision # RevisionOf(view.proxy, view.deployment),
                 ended |-> view.deployment \notin catalog.live,
                 wasOn |-> view.proxy \in catalog.enabled]
    /\ UNCHANGED <<catalog, tried>>

\* Sent by the agent with a certificate the page takes for valid, even while
\* another request is being executed.  An address typed in that is not one
\* of the operation's is marked as wrong and sent all the same.
runLocalMtlsRequest(operation, path) ==
    /\ view.trials < MaxTrials
    /\ view.deployment # NoDeployment
    /\ operation \in OperationsOf(view.revision) /\ operation.id = view.operation
    /\ authenticationRequirement(operation) = "mtls"
    /\ path \in {operation.path, Typed}
    /\ view' = [view EXCEPT !.trials = @ + 1]
    /\ tried' = tried \cup
          {[direct |-> TRUE, proxy |-> view.proxy, deployment |-> view.deployment,
            origin |-> Rows[view.deployment].stage,
            operation |-> view.operation, method |-> operation.method, path |-> path,
            auth |-> "certificate", shown |-> operation.method,
            mixed |-> view.revision # <<Rows[view.deployment].api, Rows[view.deployment].rev>>,
            ended |-> view.deployment \notin catalog.live,
            wasOn |-> view.proxy \in catalog.enabled]}
    /\ UNCHANGED <<catalog, trial>>

-----------------------------------------------------------------------------
(* executePlaygroundRequest: the proxy and its deployments are read at     *)
(* once, in either order, then the revision, which never changes.          *)

ReadProxy ==
    /\ trial.stage = "reading" /\ "proxy" \notin trial.reads
    /\ trial' = [trial EXCEPT !.reads = @ \cup {"proxy"},
                              !.active = trial.proxy \in catalog.enabled]
    /\ UNCHANGED <<catalog, view, tried>>

ReadDeployments ==
    /\ trial.stage = "reading" /\ "deployments" \notin trial.reads
    /\ trial' = [trial EXCEPT !.reads = @ \cup {"deployments"},
                              !.listed = DeploymentsOf(trial.proxy) \cap catalog.live]
    /\ UNCHANGED <<catalog, view, tried>>

\* The operation of the deployment's own revision that the request is for.
Requested ==
    {o \in OperationsOf(RevisionOf(trial.proxy, trial.deployment)) : o.id = trial.operation}

\* Same origin as the deployment and the path of the operation.
validatePlaygroundTarget(operation) ==
    trial.origin = Rows[trial.deployment].stage /\ trial.path = operation.path

\* Mutant: the deployment's status is trusted to the page.
ExecutableAsShown ==
    /\ trial.active
    /\ \E operation \in Requested :
          /\ trial.auth \in Compatible(authenticationRequirement(operation))
          /\ validatePlaygroundTarget(operation)

Executable ==
    /\ trial.active
    /\ trial.deployment \in trial.listed
    /\ \E operation \in Requested :
          LET requirement == authenticationRequirement(operation) IN
          /\ trial.proxy \in Managed =>
                operation.mode = "local" /\ requirement \in {"oauthToken", "jwks"}
          /\ trial.auth \in Compatible(requirement)
          /\ validatePlaygroundTarget(operation)

\* A refusal is answered to the page, which shows it.
ReadRevision ==
    /\ trial.stage = "reading" /\ trial.reads = {"proxy", "deployments"}
    /\ trial' = IF ~Executable THEN NoTrial
                ELSE [trial EXCEPT !.stage =
                        IF trial.auth \in Grants
                           /\ \E o \in Requested : authenticationRequirement(o) = "oauth"
                        THEN "exchange" ELSE "sending"]
    /\ UNCHANGED <<catalog, view, tried>>

GatewayRequest(method, path) ==
    [direct |-> FALSE, proxy |-> trial.proxy, deployment |-> trial.deployment,
     origin |-> trial.origin, operation |-> trial.operation, method |-> method, path |-> path,
     auth |-> trial.auth, shown |-> trial.shown, mixed |-> trial.mixed,
     ended |-> trial.ended, wasOn |-> trial.wasOn]

\* The token endpoint of the deployment's origin; it may refuse.
exchangeAccessToken ==
    /\ trial.stage = "exchange"
    /\ tried' = tried \cup {GatewayRequest("POST", "token")}
    /\ \/ trial' = [trial EXCEPT !.stage = "sending"]
       \/ trial' = NoTrial
    /\ UNCHANGED <<catalog, view>>

\* The request itself; its answer, or its failure, goes back to the page.
SendToGateway ==
    /\ trial.stage = "sending"
    /\ \E operation \in Requested :
          LET method == IF authenticationRequirement(operation) = "oauthToken" THEN "POST"
                        ELSE operation.method
          IN tried' = tried \cup {GatewayRequest(method, trial.path)}
    /\ trial' = NoTrial
    /\ UNCHANGED <<catalog, view>>

-----------------------------------------------------------------------------
\* The page has listed the proxies and loads the one it selected.
PlaygroundInit ==
    /\ \E off \in SUBSET (TrialApis \ Managed) :
          catalog = [rows |-> FirstRows, live |-> DOMAIN FirstRows,
                     enabled |-> TrialApis \ off, changes |-> 0]
    /\ \E api \in TrialApis :
          view = [proxy |-> api, listed |-> {}, deployment |-> NoDeployment,
                  revision |-> NothingShown, operation |-> "none", proxyLoad |-> api,
                  revisionLoad |-> NothingShown, loading |-> TRUE, trials |-> 0]
    /\ trial = NoTrial /\ tried = {}

PlaygroundNext ==
    \/ \E r \in DOMAIN Rows : Retire(r) \/ \E key \in DOMAIN Contents : Redeploy(r, key[2])
    \/ \E api \in TrialApis : updateApiProxy(api)
    \/ /\ view.trials < MaxTrials
       /\ \/ \E api \in TrialApis : PickProxy(api)
          \/ \E r \in DOMAIN Rows : PickDeployment(r)
          \/ ProxyLoaded \/ RevisionLoaded \/ LoadFails
          \/ \E operation \in OperationsOf(view.revision) :
                \/ PickOperation(operation)
                \/ \E auth \in AuthenticationsSent : runRequest(operation, auth)
                \/ \E path \in {operation.path, Typed} : runLocalMtlsRequest(operation, path)
    \/ ReadProxy \/ ReadDeployments \/ ReadRevision
    \/ exchangeAccessToken \/ SendToGateway

PlaygroundTypeOK ==
    /\ catalog.live \subseteq DOMAIN Rows
    /\ {<<Rows[r].api, Rows[r].rev>> : r \in DOMAIN Rows} \subseteq DOMAIN Contents
    /\ catalog.enabled \subseteq TrialApis
    /\ view.proxy \in TrialApis
    /\ view.listed \subseteq DOMAIN Rows
    /\ view.deployment = NoDeployment \/ view.deployment \in view.listed
    /\ view.revision = NothingShown \/ view.revision \in DOMAIN Contents
    /\ view.loading \in BOOLEAN
    /\ trial.stage \in {"none", "reading", "exchange", "sending"}

-----------------------------------------------------------------------------
\* What the agent sent: of the revision shown, the deployment's unless mixed.
IsAsShown(request) ==
    LET row == Rows[request.deployment] IN
    /\ request.origin = row.stage
    /\ ~request.mixed =>
          \E operation \in OperationsOf(<<row.api, row.rev>>) :
             /\ operation.id = request.operation
             /\ authenticationRequirement(operation) = "mtls"
             /\ request.method = operation.method
             /\ request.path # Typed => request.path = operation.path

\* What the server sent.
IsOfDeployment(request) ==
    LET row == Rows[request.deployment] IN
    /\ row.api = request.proxy /\ row.stage = request.origin
    /\ ~request.ended /\ request.wasOn
    /\ request.path # "token" =>
          \E operation \in OperationsOf(<<row.api, row.rev>>) :
             /\ operation.id = request.operation /\ operation.path = request.path
             /\ request.auth \in Compatible(authenticationRequirement(operation))
             /\ request.method =
                   IF authenticationRequirement(operation) = "oauthToken" THEN "POST"
                   ELSE operation.method
             /\ request.shown = operation.method \/ request.mixed

(* What the server sends for the page is for a deployment of the proxy that *)
(* was picked, one that had not ended at the click, at its own origin, and  *)
(* the proxy was enabled at some moment since; the request itself is for an *)
(* operation of that deployment's revision, on its path, with an           *)
(* authentication it accepts and its method, POST for a token; and that    *)
(* method is the operation's as shown, unless the page was showing another *)
(* revision than the deployment's.  What the agent sends may be for what   *)
(* has ended; unless the page showed another revision, it is an operation  *)
(* of the deployment's revision that asks for a certificate.               *)
(* playground-service.ts and playground-workspace.tsx.                     *)
RequestsAreDeployed ==
    \A request \in tried :
       IF request.direct THEN IsAsShown(request) ELSE IsOfDeployment(request)
=============================================================================
