-------------------------- MODULE ManagementAccess --------------------------
(***************************************************************************)
(* Who reaches what through the Management API.  A management request      *)
(* (/v1) carries the memberships its caller had when it was authenticated; *)
(* a lab request (/lab/v1) acts as administrator of the organization of    *)
(* the workspace its caller had when it was resolved.  Every operation     *)
(* then decides by that actor alone, while memberships are given and       *)
(* withdrawn and workspaces end.                                           *)
(*                                                                         *)
(* What an operation works on is named by the organization it belongs to;  *)
(* the work itself is that of the modules of the resource.                 *)
(***************************************************************************)
EXTENDS Naturals

CONSTANTS
    Persons,        \* identities the identity provider vouches for
    Impostor,       \* the bearer of a token it does not vouch for
    Standards,      \* organizations of kind standard
    Labs,           \* organizations of lab workspaces
    Nowhere,        \* no organization: that of a platform administrator
    Owner,          \* Owner[o]: who the lab organization o was made for
    Appointments,   \* memberships that may be given
    Calls,
    MaxChanges      \* bound: memberships given and withdrawn

Organizations == Standards \cup Labs

ASSUME ManagementAssumption ==
    /\ Impostor \notin Persons /\ Nowhere \notin Organizations
    /\ Standards \cap Labs = {}
    /\ Owner \in [Labs -> Persons] /\ MaxChanges \in Nat
    /\ \A m \in Appointments :
          /\ m.who \in Persons
          /\ IF m.role = "platformAdmin" THEN m.organization = Nowhere
             ELSE m.role \in {"organizationAdmin", "viewer"} /\ m.organization \in Standards

VARIABLES
    memberships,    \* the active ones
    organizations,  \* standard organizations that exist
    workspaces,     \* the workspace of each lab organization
    serving,        \* the requests being served
    changes         \* memberships given or withdrawn, for their bound

managementVars == <<memberships, organizations, workspaces, serving, changes>>

Unserved == [step |-> "idle"]

Exists(o) == o \in organizations \/ (o \in Labs /\ workspaces[o] # "none")

-----------------------------------------------------------------------------
(* What an actor may do.                                                   *)

isPlatformAdmin(actor) ==
    \E m \in actor.memberships : m.role = "platformAdmin"

canReadOrganization(actor, o) ==
    isPlatformAdmin(actor) \/ \E m \in actor.memberships : m.organization = o

canManageOrganization(actor, o) ==
    \/ isPlatformAdmin(actor)
    \/ \E m \in actor.memberships : m.organization = o /\ m.role = "organizationAdmin"

expectedOrganizationKind(actor) == IF actor.context = "lab" THEN Labs ELSE Standards

Belongs(actor, o) == Exists(o) /\ o \in expectedOrganizationKind(actor)

\* Mutant: the kind of the proxy's organization is not compared.
proxyOfAnyKind(actor, o) == Exists(o)

requireOrganizationContext(actor, o) == Belongs(actor, o)
proxyOrganization(actor, o) == Belongs(actor, o)
deploymentOrganization(actor, o) == Belongs(actor, o)
requireApplicationOrganization(actor, o) == Belongs(actor, o)
requireCertificateOrganization(actor, o) == Belongs(actor, o)

readableOrganizationIds(actor) ==
    {o \in Organizations : canReadOrganization(actor, o)}

\* The role an audit event records: one set per service, of what it may say.
\* Certificates record the first membership, whatever its organization, and
\* memberships are read in no particular order.
actorRole(actor) == {IF isPlatformAdmin(actor) THEN "platformAdmin" ELSE "organizationAdmin"}
principalRole(actor) ==
    IF isPlatformAdmin(actor) THEN {"platformAdmin"} ELSE {m.role : m \in actor.memberships}

-----------------------------------------------------------------------------
(* Answers: what was shown, or what was changed and by which role.         *)

Refused == [kind |-> "refused", on |-> {}, roles |-> {}]
Shown(os) == [kind |-> "shown", on |-> os, roles |-> {}]
ShownIf(allowed, o) == IF allowed THEN Shown({o}) ELSE Refused
ChangedIf(allowed, o, roles) ==
    IF allowed THEN [kind |-> "changed", on |-> {o}, roles |-> roles] ELSE Refused

(* OrganizationService.                                                    *)
listOrganizations(actor) ==
    Shown({o \in Standards : Exists(o) /\ canReadOrganization(actor, o)})
getOrganization(actor, o) ==
    ShownIf(canReadOrganization(actor, o) /\ Exists(o) /\ o \in Standards, o)
createOrganization(actor, o) ==
    ChangedIf(isPlatformAdmin(actor) /\ o \in Standards /\ ~Exists(o), o, {"platformAdmin"})
updateOrganization(actor, o) ==
    ChangedIf(isPlatformAdmin(actor) /\ Exists(o) /\ o \in Standards, o, {"platformAdmin"})

(* GatewayCatalogService and AuditService.                                 *)
listProxies(actor) ==
    Shown({o \in readableOrganizationIds(actor) : Belongs(actor, o)})
getProxy(actor, o) == ShownIf(Belongs(actor, o) /\ canReadOrganization(actor, o), o)
listDeployments(actor, o) == ShownIf(Belongs(actor, o) /\ canReadOrganization(actor, o), o)

\* Asked for one organization, or for all that the actor may read.
listAuditEvents(actor, o) ==
    IF o = Nowhere THEN Shown({i \in readableOrganizationIds(actor) : Belongs(actor, i)})
    ELSE IF canReadOrganization(actor, o) THEN Shown({i \in {o} : Belongs(actor, i)})
    ELSE Refused

(* ProxyRevisionService.                                                   *)
createProxy(actor, o) ==
    ChangedIf(canManageOrganization(actor, o) /\ requireOrganizationContext(actor, o),
              o, actorRole(actor))
validateConfiguration(actor, o) ==
    ShownIf(canManageOrganization(actor, o) /\ requireOrganizationContext(actor, o), o)
createConfiguredProxy(actor, o) == createProxy(actor, o)
updateProxy(actor, o) ==
    ChangedIf(proxyOrganization(actor, o) /\ canManageOrganization(actor, o), o, actorRole(actor))
importRevision(actor, o) ==
    ChangedIf(proxyOrganization(actor, o) /\ canManageOrganization(actor, o), o, actorRole(actor))
listRevisions(actor, o) == ShownIf(proxyOrganization(actor, o) /\ canReadOrganization(actor, o), o)
getRevision(actor, o) == ShownIf(proxyOrganization(actor, o) /\ canReadOrganization(actor, o), o)
getRevisionSource(actor, o) ==
    ShownIf(proxyOrganization(actor, o) /\ canReadOrganization(actor, o), o)
deployRevision(actor, o) ==
    ChangedIf(proxyOrganization(actor, o) /\ canManageOrganization(actor, o), o, actorRole(actor))
retireDeployment(actor, o) ==
    ChangedIf(deploymentOrganization(actor, o) /\ canManageOrganization(actor, o),
              o, actorRole(actor))

(* ProductService and ApplicationService.                                  *)
listProducts(actor, o) == ShownIf(canReadOrganization(actor, o) /\ Belongs(actor, o), o)
getProduct(actor, o) == ShownIf(Belongs(actor, o) /\ canReadOrganization(actor, o), o)
changeProducts(actor, o) ==
    ChangedIf(canManageOrganization(actor, o) /\ Belongs(actor, o), o, actorRole(actor))
listApplications(actor, o) ==
    ShownIf(canReadOrganization(actor, o) /\ requireApplicationOrganization(actor, o), o)
getApplication(actor, o) ==
    ShownIf(requireApplicationOrganization(actor, o) /\ canReadOrganization(actor, o), o)
getCredential(actor, o) ==
    ShownIf(requireApplicationOrganization(actor, o) /\ canReadOrganization(actor, o), o)
listPublicKeys(actor, o) ==
    ShownIf(requireApplicationOrganization(actor, o) /\ canReadOrganization(actor, o), o)
changeApplications(actor, o) ==
    ChangedIf(requireApplicationOrganization(actor, o) /\ canManageOrganization(actor, o),
              o, actorRole(actor))

(* CertificateService and CertificateAuthorityService.                     *)
listCertificates(actor, o) ==
    IF canReadOrganization(actor, o) THEN Shown({i \in {o} : Belongs(actor, i)}) ELSE Refused
listCredential(actor, o) ==
    ShownIf(requireCertificateOrganization(actor, o) /\ canReadOrganization(actor, o), o)
download(actor, o) ==
    ShownIf(requireCertificateOrganization(actor, o) /\ canReadOrganization(actor, o), o)
changeCertificates(actor, o) ==
    ChangedIf(requireCertificateOrganization(actor, o) /\ canManageOrganization(actor, o),
              o, principalRole(actor))
pkiStatus(actor) ==
    Shown({o \in expectedOrganizationKind(actor) : Exists(o) /\ canReadOrganization(actor, o)})
listAuthorities(actor, o) ==
    IF canReadOrganization(actor, o) THEN Shown({i \in {o} : Belongs(actor, i)}) ELSE Refused
changeAuthorities(actor, o) ==
    ChangedIf(isPlatformAdmin(actor) /\ Belongs(actor, o), o, {"platformAdmin"})

PlatformOperations == {"organization.create", "organization.update", "authority.change"}

\* Both interfaces have these; those of ByOrganization name an organization,
\* the others something in it.
ByOrganization ==
    {"proxy.create", "proxy.validate", "proxy.configure", "product.list", "application.list",
     "certificate.list", "audit.list"}
Shared ==
    ByOrganization \cup
    {"proxy.list", "proxy.get", "proxy.update", "deployment.list", "deployment.retire",
     "revision.import", "revision.list", "revision.get", "revision.deploy", "product.get",
     "product.change", "application.get", "application.change", "credential.get", "key.list",
     "certificate.get", "certificate.change"}
ManagementOnly ==
    PlatformOperations \cup
    {"organization.list", "organization.get", "revision.source", "credential.certificates",
     "pki.status", "authority.list"}

Answer(op, actor, o) ==
    CASE op = "organization.list" -> listOrganizations(actor)
      [] op = "organization.get" -> getOrganization(actor, o)
      [] op = "organization.create" -> createOrganization(actor, o)
      [] op = "organization.update" -> updateOrganization(actor, o)
      [] op = "proxy.list" -> listProxies(actor)
      [] op = "proxy.get" -> getProxy(actor, o)
      [] op = "proxy.create" -> createProxy(actor, o)
      [] op = "proxy.validate" -> validateConfiguration(actor, o)
      [] op = "proxy.configure" -> createConfiguredProxy(actor, o)
      [] op = "proxy.update" -> updateProxy(actor, o)
      [] op = "deployment.list" -> listDeployments(actor, o)
      [] op = "deployment.retire" -> retireDeployment(actor, o)
      [] op = "revision.import" -> importRevision(actor, o)
      [] op = "revision.list" -> listRevisions(actor, o)
      [] op = "revision.get" -> getRevision(actor, o)
      [] op = "revision.source" -> getRevisionSource(actor, o)
      [] op = "revision.deploy" -> deployRevision(actor, o)
      [] op = "product.list" -> listProducts(actor, o)
      [] op = "product.get" -> getProduct(actor, o)
      [] op = "product.change" -> changeProducts(actor, o)
      [] op = "application.list" -> listApplications(actor, o)
      [] op = "application.get" -> getApplication(actor, o)
      [] op = "application.change" -> changeApplications(actor, o)
      [] op = "credential.get" -> getCredential(actor, o)
      [] op = "key.list" -> listPublicKeys(actor, o)
      [] op = "certificate.list" -> listCertificates(actor, o)
      [] op = "credential.certificates" -> listCredential(actor, o)
      [] op = "certificate.get" -> download(actor, o)
      [] op = "certificate.change" -> changeCertificates(actor, o)
      [] op = "pki.status" -> pkiStatus(actor)
      [] op = "authority.list" -> listAuthorities(actor, o)
      [] op = "authority.change" -> changeAuthorities(actor, o)
      [] op = "audit.list" -> listAuditEvents(actor, o)

-----------------------------------------------------------------------------
ManagementInit ==
    /\ memberships \in {ms \in SUBSET Appointments :
            \A m, n \in ms : (m.who = n.who /\ m.organization = n.organization) => m = n}
    /\ organizations \in SUBSET Standards
    /\ \A m \in memberships : m.organization \in organizations \cup {Nowhere}
    /\ workspaces = [o \in Labs |-> "none"]
    /\ serving = [c \in Calls |-> Unserved]
    /\ changes = 0

\* Nothing in the Management API gives or withdraws a membership: operators do.
Appoint(m) ==
    /\ changes < MaxChanges /\ m.organization \in organizations \cup {Nowhere}
    /\ ~\E n \in memberships : n.who = m.who /\ n.organization = m.organization
    /\ memberships' = memberships \cup {m}
    /\ changes' = changes + 1
    /\ UNCHANGED <<organizations, workspaces, serving>>

Withdraw(m) ==
    /\ changes < MaxChanges /\ m \in memberships
    /\ memberships' = memberships \ {m}
    /\ changes' = changes + 1
    /\ UNCHANGED <<organizations, workspaces, serving>>

\* One live workspace per owner, each with an organization of its own.
OpenWorkspace(o) ==
    /\ workspaces[o] = "none"
    /\ \A i \in Labs : Owner[i] = Owner[o] => workspaces[i] \in {"none", "ended"}
    /\ workspaces' = [workspaces EXCEPT ![o] = "live"]
    /\ UNCHANGED <<memberships, organizations, serving, changes>>

EndWorkspace(o) ==
    /\ workspaces[o] \in {"live", "due"}
    /\ workspaces' = [workspaces EXCEPT ![o] = "ended"]
    /\ UNCHANGED <<memberships, organizations, serving, changes>>

WorkspaceFallsDue(o) ==
    /\ workspaces[o] = "live"
    /\ workspaces' = [workspaces EXCEPT ![o] = "due"]
    /\ UNCHANGED <<memberships, organizations, serving, changes>>

-----------------------------------------------------------------------------
(* A request.                                                              *)

verify(who) == who \in Persons

findActive(who) == {m \in memberships : m.who = who}

\* "held": what the caller had at this moment, kept for the properties.
authenticate(c, who) ==
    /\ serving[c].step = "idle"
    /\ serving' = [serving EXCEPT ![c] =
           IF verify(who) /\ findActive(who) # {}
           THEN [step |-> "ready", who |-> who,
                 held |-> {m \in memberships : m.who = who},
                 actor |-> [context |-> "management", memberships |-> findActive(who)]]
           ELSE Unserved]
    /\ UNCHANGED <<memberships, organizations, workspaces, changes>>

\* The token alone: the workspace is looked up by the operation.
authenticateLab(c, who) ==
    /\ serving[c].step = "idle" /\ verify(who)
    /\ serving' = [serving EXCEPT ![c] = [step |-> "authenticated", who |-> who]]
    /\ UNCHANGED <<memberships, organizations, workspaces, changes>>

Current(who) == {o \in Labs : Owner[o] = who /\ workspaces[o] \in {"live", "due"}}

\* A workspace found past its time is ended there and then, and the request
\* is refused, as it is without a workspace.
resolveLabRequestContext(c) ==
    /\ serving[c].step = "authenticated"
    /\ LET current == Current(serving[c].who)
           late == {o \in current : workspaces[o] = "due"}
           actsOn == {[who |-> serving[c].who, role |-> "organizationAdmin", organization |-> o] :
                         o \in current}
       IN  /\ workspaces' = [o \in Labs |-> IF o \in late THEN "ended" ELSE workspaces[o]]
           /\ serving' = [serving EXCEPT ![c] =
                  IF current = {} \/ late # {} THEN Unserved
                  ELSE [step |-> "ready", who |-> @.who,
                        held |-> {o \in Labs : Owner[o] = @.who /\ workspaces[o] = "live"},
                        actor |-> [context |-> "lab", memberships |-> actsOn]]]
    /\ UNCHANGED <<memberships, organizations, changes>>

\* The operation, on any organization a caller may name; a lab request that
\* takes an organization is given that of its workspace.
Serve(c, op, o) ==
    /\ serving[c].step = "ready"
    /\ LET actor == serving[c].actor
           answer == Answer(op, actor, o)
       IN  /\ IF actor.context = "management" THEN op \in Shared \cup ManagementOnly
              ELSE /\ op \in Shared
                   /\ op \in ByOrganization => o \in {m.organization : m \in actor.memberships}
           /\ serving' = [serving EXCEPT ![c] =
                  [step |-> "answered", who |-> @.who, held |-> @.held, actor |-> actor,
                   op |-> op, answer |-> answer]]
           /\ organizations' = IF op = "organization.create" THEN organizations \cup answer.on
                               ELSE organizations
    /\ UNCHANGED <<memberships, workspaces, changes>>

ManagementNext ==
    \/ \E m \in Appointments : Appoint(m) \/ Withdraw(m)
    \/ \E o \in Labs : OpenWorkspace(o) \/ EndWorkspace(o) \/ WorkspaceFallsDue(o)
    \/ \E c \in Calls :
          \/ \E who \in Persons \cup {Impostor} : authenticate(c, who) \/ authenticateLab(c, who)
          \/ resolveLabRequestContext(c)
          \/ \E op \in Shared \cup ManagementOnly, o \in Organizations \cup {Nowhere} : Serve(c, op, o)

ManagementSpec == ManagementInit /\ [][ManagementNext]_managementVars

-----------------------------------------------------------------------------
ManagementTypeOK ==
    /\ memberships \subseteq Appointments
    /\ organizations \subseteq Standards
    /\ workspaces \in [Labs -> {"none", "live", "due", "ended"}]
    /\ \A c \in Calls : serving[c].step \in {"idle", "authenticated", "ready", "answered"}
    /\ changes \in 0..MaxChanges

Entitles(m, o, kind) ==
    \/ m.role = "platformAdmin"
    \/ m.organization = o /\ (kind = "changed" => m.role = "organizationAdmin")

(* Whatever happened to memberships and workspaces meanwhile, a management *)
(* request shows and changes standard organizations only, each under a     *)
(* membership its caller had when it was authenticated, and what is the    *)
(* platform administrators' under theirs; the audit event names a role     *)
(* that entitled the caller, except for certificates, where it may be one  *)
(* the caller had elsewhere.  A lab request reaches the organization of    *)
(* the workspace that was its caller's, and live, when it was resolved.    *)
(* auth/authorization.ts, auth/middleware.ts and the services' checks.     *)
TenantsStaySeparate ==
    \A c \in Calls : serving[c].step = "answered" =>
        LET answer == serving[c].answer
            held == serving[c].held
        IN  IF serving[c].actor.context = "lab"
            THEN /\ answer.on \subseteq held
                 /\ \A o \in held : o \in Labs /\ Owner[o] = serving[c].who
            ELSE /\ \A o \in answer.on :
                       o \in Standards /\ \E m \in held : Entitles(m, o, answer.kind)
                 /\ (answer.kind = "changed" /\ serving[c].op \in PlatformOperations) =>
                       \E m \in held : m.role = "platformAdmin"
                 /\ \A role \in answer.roles, o \in answer.on :
                       \E m \in held :
                          /\ m.role = role
                          /\ serving[c].op # "certificate.change" => Entitles(m, o, "changed")
=============================================================================
