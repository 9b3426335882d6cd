-------------------------- MODULE MCComponents -----------------------------
(***************************************************************************)
(* Small instances, for TLC, of the components that stand on their own.    *)
(* They share no state, so one run checks them side by side: the initial   *)
(* state chooses the machine that moves, the others stay as they began.    *)
(***************************************************************************)
EXTENDS Assertions, DeveloperTokens, RateLimit, RequestHandling, LocalAgent,
        LocalIdentities, AgentConnection, LabEgress, MCProxyCreation, Playground,
        LabCertificates, ManagementAccess, TLC

CONSTANTS p1, p2, x1, l1, l2, u1, o1, o2

VARIABLE focus

AheadMap == (l1 :> 0) @@ (l2 :> 1)

Policy(type, order, mode) ==
    [type |-> type, order |-> order, enabled |-> TRUE, failureMode |-> mode]
Disabled(policy) == [policy EXCEPT !.enabled = FALSE]
Endpoint(method, path, mode, target, policies) ==
    [method |-> method, path |-> path, mode |-> mode, target |-> target, policies |-> policies]
ProxyAt(base, endpoints) ==
    [key |-> "environment", authority |-> "gateway", basePath |-> base, endpoints |-> endpoints]

LimitBefore == Policy("rate-limit", 1, "open")
LimitAfter == Policy("rate-limit", 3, "closed")
ApiKey(mode) == Policy("api-key-auth", 2, mode)
Mtls == Policy("mtls-auth", 2, "open")

\* Policies of forward endpoints, listed out of order, one with two
\* authentications and one with a type the gateway has no factory for.
Guards ==
    {<<ApiKey("closed"), LimitBefore>>,
     <<LimitAfter, ApiKey("open")>>,
     <<Policy("oauth-access-token", 2, "closed"), LimitAfter, Mtls>>,
     <<LimitAfter, LimitBefore, Mtls>>,
     <<Policy("audit-log", 1, "closed"), Disabled(Mtls)>>}

\* Policies of local endpoints, and the same with the terminal one disabled.
Terminals ==
    {<<Policy("oauth-token", 1, "closed")>>,
     <<Policy("jwks-endpoint", 2, "closed"), Policy("cors", 1, "open")>>,
     <<Disabled(Policy("oauth-token", 1, "closed"))>>,
     <<Disabled(Policy("jwks-endpoint", 2, "closed")), Policy("cors", 1, "open")>>}

Revisions ==
    {<<Endpoint("GET", <<"x">>, "forward", TRUE, ps),
       Endpoint("POST", <<"{id}">>, "forward", TRUE, <<>>)>> : ps \in Guards}
    \cup {<<Endpoint("GET", <<"{id}">>, "local", FALSE, ps)>> : ps \in Terminals}
    \cup {<<Endpoint("GET", <<"x">>, "forward", FALSE, <<>>)>>}

Inner == ProxyAt(<<"api", "x">>, <<Endpoint("GET", <<>>, "forward", TRUE, <<LimitAfter>>)>>)
Double == ProxyAt(<<"api">>, <<Endpoint("GET", <<>>, "forward", TRUE, <<>>)>>)

\* Alone, with a proxy below it, and with another of the same base path.
Snapshots ==
    UNION {{ {ProxyAt(<<"api">>, es)},
             {ProxyAt(<<"api">>, es), Inner},
             {ProxyAt(<<"api">>, es), Double} } : es \in Revisions}

PathsAsked == {<<"api">>, <<"api", "x">>, <<"api", "y">>, <<"other">>}
Widths == [s \in {"x", "y", "{id}"} |-> IF s = "{id}" THEN 4 ELSE 1]

\* What the playground finds: a proxy of two revisions, whose operation
\* "list" changes its method, one with another operation of
\* the same name and path, and the platform's OAuth proxy.
Offered(id, method, path, mode, types) ==
    [id |-> id, method |-> method, path |-> path, mode |-> mode,
     policies |-> [i \in DOMAIN types |-> [type |-> types[i], enabled |-> TRUE]]]
ContentsOffered ==
    <<"x1", 1>> :> <<Offered("list", "GET", "items", "forward", <<"api-key-auth">>),
                     Offered("edit", "PUT", "items", "forward", <<"oauth-access-token">>)>>
    @@ <<"x1", 2>> :> <<Offered("list", "POST", "items", "forward", <<"api-key-auth">>)>>
    @@ <<"x2", 1>> :> <<Offered("list", "GET", "items", "forward", <<"mtls-auth">>),
                        Offered("show", "GET", "items", "forward", <<"api-key-auth">>)>>
    @@ <<"oauth", 1>> :> <<Offered("token", "POST", "oauth", "local", <<"oauth-token">>),
                           Offered("keys", "GET", "jwks", "local", <<"jwks-endpoint">>),
                           Offered("other", "POST", "x", "local", <<>>)>>
RowsAtFirst ==
    <<[api |-> "x1", stage |-> 0, rev |-> 1], [api |-> "x1", stage |-> 2, rev |-> 2],
      [api |-> "x2", stage |-> 0, rev |-> 1], [api |-> "oauth", stage |-> 0, rev |-> 1]>>

\* One caller, who may be in two organizations and has workspaces in turn.
Membership(role, o) == [who |-> u1, role |-> role, organization |-> o]
AppointmentsMade ==
    {Membership("platformAdmin", Nowhere), Membership("organizationAdmin", o1),
     Membership("viewer", o1), Membership("viewer", o2)}
OwnerMap == [o \in Labs |-> u1]

-----------------------------------------------------------------------------
componentVars ==
    <<assertionVars, developerVars, rateVars, requestVars, agentVars, identityVars,
      connectionVars, egressVars, creationVars, playgroundVars, labCertificateVars,
      managementVars, focus>>

Init ==
    /\ focus \in {"assertions", "developer", "rate", "request", "agent", "identities",
                  "connection", "egress", "creation", "playground", "certificates",
                  "management"}
    /\ AssertionInit /\ (focus # "assertions" => signed = [j \in JTIs |-> [iat |-> 0, exp |-> 1]])
    /\ DeveloperInit /\ p2 \in available
    /\ focus # "developer" =>
          /\ active = Products /\ available = Products /\ deployed = Proxies
          /\ exposes = [p \in Products |-> Proxies]
    /\ RateInit /\ RequestInit /\ AgentInit /\ IdentityInit
    /\ ConnectionInit /\ (focus # "connection" => up /\ trust)
    /\ EgressInit /\ CreationInit
    /\ PlaygroundInit /\ TrialApis \ catalog.enabled \subseteq {"x1"}
    /\ view.proxy = "x1" /\ (focus # "playground" => catalog.enabled = TrialApis)
    /\ LabCertificatesInit
    /\ ManagementInit /\ (focus # "management" => organizations = {} /\ memberships = {})

Moving(name) == focus = name /\ UNCHANGED focus

\* Memberships move while a request is served, which is served once; one of
\* the management interface has to do with workspaces only in that they exist.
TenantsInFocus ==
    \E q \in Calls :
       /\ serving[q].step # "answered"
       /\ changes' # changes => serving[q].step # "idle"
       /\ (serving'[q].step = "ready" /\ serving'[q].actor.context = "management") =>
             \A o \in Labs : workspaces'[o] \in {"none", "live"}

Next ==
    \/ /\ Moving("assertions") /\ AssertionNext
       /\ UNCHANGED <<developerVars, rateVars, requestVars, agentVars,
                      identityVars, connectionVars, egressVars, creationVars,
                      playgroundVars, labCertificateVars, managementVars>>
    \/ /\ Moving("developer") /\ DeveloperNext
       /\ p2 \in available'
       /\ (\A q \in Requests : selection[q].phase # "reading") =>
             <<active, exposes, deployed>>' = <<active, exposes, deployed>>
       /\ UNCHANGED <<assertionVars, rateVars, requestVars, agentVars,
                      identityVars, connectionVars, egressVars, creationVars,
                      playgroundVars, labCertificateVars, managementVars>>
    \/ /\ Moving("rate") /\ RateNext
       /\ UNCHANGED <<assertionVars, developerVars, requestVars, agentVars,
                      identityVars, connectionVars, egressVars, creationVars,
                      playgroundVars, labCertificateVars, managementVars>>
    \/ /\ Moving("request") /\ RequestNext
       /\ UNCHANGED <<assertionVars, developerVars, rateVars, agentVars,
                      identityVars, connectionVars, egressVars, creationVars,
                      playgroundVars, labCertificateVars, managementVars>>
    \/ /\ Moving("agent") /\ AgentNext
       /\ UNCHANGED <<assertionVars, developerVars, rateVars, requestVars,
                      identityVars, connectionVars, egressVars, creationVars,
                      playgroundVars, labCertificateVars, managementVars>>
    \/ /\ Moving("identities") /\ IdentityNext
       /\ UNCHANGED <<assertionVars, developerVars, rateVars, requestVars,
                      agentVars, connectionVars, egressVars, creationVars,
                      playgroundVars, labCertificateVars, managementVars>>
    \/ /\ Moving("connection") /\ ConnectionNext
       /\ UNCHANGED <<assertionVars, developerVars, rateVars, requestVars,
                      agentVars, identityVars, egressVars, creationVars,
                      playgroundVars, labCertificateVars, managementVars>>
    \/ /\ Moving("egress") /\ EgressNext
       /\ UNCHANGED <<assertionVars, developerVars, rateVars, requestVars,
                      agentVars, identityVars, connectionVars, creationVars,
                      playgroundVars, labCertificateVars, managementVars>>
    \/ /\ Moving("creation") /\ CreationNext
       /\ UNCHANGED <<assertionVars, developerVars, rateVars, requestVars,
                      agentVars, identityVars, connectionVars, egressVars,
                      playgroundVars, labCertificateVars, managementVars>>
    \/ /\ Moving("playground") /\ PlaygroundNext
       /\ UNCHANGED <<assertionVars, developerVars, rateVars, requestVars,
                      agentVars, identityVars, connectionVars, egressVars,
                      creationVars, labCertificateVars, managementVars>>
    \/ /\ Moving("certificates") /\ LabCertificatesNext
       /\ UNCHANGED <<assertionVars, developerVars, rateVars, requestVars,
                      agentVars, identityVars, connectionVars, egressVars,
                      creationVars, playgroundVars, managementVars>>
    \/ /\ Moving("management") /\ ManagementNext /\ TenantsInFocus
       /\ UNCHANGED <<assertionVars, developerVars, rateVars, requestVars,
                      agentVars, identityVars, connectionVars, egressVars,
                      creationVars, playgroundVars, labCertificateVars>>

Spec == Init /\ [][Next]_componentVars

ComponentsTypeOK ==
    /\ AssertionTypeOK /\ DeveloperTypeOK /\ RateTypeOK /\ RequestTypeOK /\ AgentTypeOK
    /\ IdentityTypeOK /\ ConnectionTypeOK /\ EgressTypeOK /\ CreationTypeOK
    /\ PlaygroundTypeOK /\ LabCertificatesTypeOK /\ ManagementTypeOK

(* The local agent's files keep what was written to them, however the      *)
(* browser, the command line and restarts overlap.                         *)
(* trusted-client-store.ts and identity-store.ts.                          *)
FilesAreKept == OverlapAloneLoses /\ ListedIdentitiesWork

(* A call is served only to who has earned it: at the local agent by       *)
(* pairing, approval and a fresh request of the session, at the Management *)
(* API by the memberships, or the workspace, it was authenticated with.    *)
(* browser-auth.ts and agent.ts; middleware.ts, authorization.ts and the   *)
(* services behind them.                                                   *)
AccessIsEarned == CallsAreEarned /\ TenantsStaySeparate

(* The panel's playgrounds act on pages that are out of date without doing *)
(* what the platform would not: requests reach live deployments only, and  *)
(* renewals keep identities working.                                       *)
(* playground-service.ts and lab-quick-playground.tsx.                     *)
PlaygroundsAreSafe == RequestsAreDeployed /\ ReplacementKeepsWorking
=============================================================================
