---------------------------- MODULE ProxyCreation ----------------------------
(***************************************************************************)
(* The panel's four-step creation of a proxy (packages/admin-panel:        *)
(* lib/proxy-creation.ts, components/proxy-creation) against the           *)
(* management API's validation and configured creation.                    *)
(*                                                                         *)
(* A draft is edited in the browser; Continue and Create send a request    *)
(* and the answer comes later.  Only those two buttons are disabled while  *)
(* a request is out: fields and the step navigation are not.  The handler  *)
(* of the answer still sees the draft of the moment it was sent.           *)
(*                                                                         *)
(* Name and organization are taken as given; of a form only what it makes  *)
(* of the configuration is kept.                                           *)
(***************************************************************************)
EXTENDS ProxyBundle

CONSTANTS Documents,   \* OpenAPI sources the user may provide
          Imports,     \* gateway configurations the user may import
          Bases, Pipelines, Targets,  \* what the routing step's fields may hold
          MaxEdits, MaxCreated        \* bounds on edits and on proxies created

VARIABLES draft,       \* the ProxyCreationDraft
          step, highest,
          pending,     \* the gateway import not yet applied: none or one
          validated,   \* the sources of the shown validation: none or one
          sent,        \* the request that is out: none or one
          created,     \* in the database: the sources of each proxy created
          imported,    \* history: the import the draft still is: none or one
          edits        \* history: edits so far

creationVars == <<draft, step, highest, pending, validated, sent, created, imported, edits>>

NoDocument == [valid |-> FALSE, operations |-> <<>>]

\* What the constants stand for: the texts are values of these shapes, a list
\* that is absent is empty, and the empty path does not start with a slash.
IsPolicies(value) ==
    /\ value.given \in BOOLEAN /\ (value.given \/ value.list = <<>>)
    /\ Len(value.list) \in Nat /\ DOMAIN value.list = 1 .. Len(value.list)
    /\ \A i \in DOMAIN value.list :
          /\ value.list[i].failureMode \in {Missing, "open", "closed"}
          /\ value.list[i].fields \in {Missing, "set", "bad"}

ASSUME CreationAssumption ==
    /\ MaxEdits \in Nat /\ MaxCreated \in Nat /\ EmptyPath \in Unrooted
    /\ \A d \in Documents : \A i \in DOMAIN d.operations : d.operations[i].path # Missing
    /\ \A g \in Imports :
          IsPolicies(g.defaults) /\ \A id \in DOMAIN g.operations : IsPolicies(g.operations[id].policies)

-----------------------------------------------------------------------------
(* lib/proxy-creation.ts *)

\* createEditablePolicy: an API key has its header, a rate limit its numbers,
\* an OAuth policy no audience yet.
createEditablePolicy(type) ==
    [type |-> type, enabled |-> TRUE, failureMode |-> "closed",
     fields |-> IF type = "oauth-access-token" THEN Missing ELSE "default"]

editablePolicyFromUnknown(p) ==
    [type |-> p.type, enabled |-> p.enabled # "false",
     failureMode |-> IF p.failureMode = "open" THEN "open" ELSE "closed",
     fields |-> IF p.fields = "set" THEN "set" ELSE createEditablePolicy(p.type).fields]

\* The j-th of a set of positions.
Nth(positions, j) == CHOOSE i \in positions : Cardinality({k \in positions : k <= i}) = j

\* Policies the panel does not know are left out.
policiesFromUnknown(list) ==
    LET known == {i \in DOMAIN list : list[i].type \in BusinessTypes}
    IN [j \in 1 .. Cardinality(known) |-> editablePolicyFromUnknown(list[Nth(known, j)])]

serializePolicy(p) ==
    [type |-> p.type, enabled |-> IF p.enabled THEN "true" ELSE "false",
     failureMode |-> p.failureMode,
     fields |-> IF p.fields = "default" THEN (IF p.type = "rate-limit" THEN "set" ELSE Missing)
                ELSE p.fields]

Serialized(policies) == [given |-> TRUE, list |-> [i \in DOMAIN policies |-> serializePolicy(policies[i])]]

\* The operations of the document, with what the draft has for their ids.
applyOpenApiInspection(d, document) ==
    LET kept(id) == {d.operations[i] : i \in {i \in DOMAIN d.operations : d.operations[i].id = id}}
        drafted(o) ==
            [id |-> o.id, path |-> o.path,
             target |-> IF kept(o.id) = {} THEN o.path ELSE (CHOOSE k \in kept(o.id) : TRUE).target,
             inherit |-> kept(o.id) = {} \/ \E k \in kept(o.id) : k.inherit,
             policies |-> IF kept(o.id) = {} THEN <<>> ELSE (CHOOSE k \in kept(o.id) : TRUE).policies]
    IN [d EXCEPT !.operations =
            [i \in DOMAIN document.operations |-> drafted(document.operations[i])]]

hydrateGatewaySource(d, gateway) ==
    LET hydrated(o) ==
            LET override == OverrideOf(gateway, o.id) IN
            [o EXCEPT !.target = IF override.target = Missing THEN o.path ELSE override.target,
                      !.inherit = ~override.policies.given,
                      !.policies = policiesFromUnknown(override.policies.list)]
    IN [d EXCEPT !.base = gateway.base,
                 !.defaults = policiesFromUnknown(gateway.defaults.list),
                 !.operations = [i \in DOMAIN d.operations |-> hydrated(d.operations[i])]]

gatewayDocument(d) ==
    LET OfId(id) == CHOOSE o \in {d.operations[i] : i \in DOMAIN d.operations} : o.id = id
        ids == {d.operations[i].id : i \in DOMAIN d.operations}
    IN [base |-> d.base, defaults |-> Serialized(d.defaults),
        operations |-> [id \in ids |->
            [mode |-> Missing, target |-> OfId(id).target,
             policies |-> IF OfId(id).inherit THEN Absent ELSE Serialized(OfId(id).policies)]]]

validatePolicies(policies) ==
    /\ Cardinality(Authentications(policies)) = 1
    /\ \A i \in DOMAIN policies : policies[i].fields \notin {Missing, "bad"}

validateRoutingDraft(d) ==
    /\ d.base.rooted /\ ~d.base.marked
    /\ validatePolicies(d.defaults)
    /\ \A i \in DOMAIN d.operations :
          /\ validateTargetPath(d.operations[i].path, d.operations[i].target)
          /\ d.operations[i].inherit \/ validatePolicies(d.operations[i].policies)

-----------------------------------------------------------------------------
(* The user *)

\* updateDraft: an edit takes back the validation and the later steps.
Edit(next) ==
    /\ edits < MaxEdits /\ edits' = edits + 1
    /\ draft' = next
    /\ highest' = IF step < highest THEN step ELSE highest
    /\ validated' = {} /\ imported' = {}
    /\ UNCHANGED <<step, pending, sent, created>>

SetDocument(document) ==
    step = 1 /\ Edit([draft EXCEPT !.document = document, !.operations = <<>>])

SetBase(base) == step = 2 /\ Edit([draft EXCEPT !.base = base])
SetDefaults(policies) == step = 2 /\ Edit([draft EXCEPT !.defaults = policies])

SetOperation(i, target, inherit, policies) ==
    /\ step = 2 /\ i \in DOMAIN draft.operations
    /\ Edit([draft EXCEPT !.operations[i].target = target, !.operations[i].inherit = inherit,
                          !.operations[i].policies = policies])

ImportGateway(gateway) ==
    /\ step = 1
    /\ edits < MaxEdits /\ edits' = edits + 1
    /\ pending' = {gateway}
    /\ highest' = IF highest > 1 THEN 1 ELSE highest
    /\ validated' = {}
    /\ UNCHANGED <<draft, step, sent, created, imported>>

goToStep(n) ==
    /\ n <= highest /\ n # step
    /\ step' = n
    /\ UNCHANGED <<draft, highest, pending, validated, sent, created, imported, edits>>

advance(n) == step' = n /\ highest' = IF n > highest THEN n ELSE highest

\* Continue on the first step; on the second and third a request goes out.
ContinueIdentity ==
    /\ step = 0 /\ sent = {} /\ advance(1)
    /\ UNCHANGED <<draft, pending, validated, sent, created, imported, edits>>

Request(kind, gateways) ==
    [kind |-> kind, draft |-> draft, gateways |-> gateways, shown |-> validated]

SendRequest(request) ==
    /\ sent = {} /\ sent' = {request}
    /\ UNCHANGED <<draft, step, highest, pending, validated, created, imported, edits>>

ContinueDefinition ==
    /\ step = 1 /\ draft.document # NoDocument
    /\ SendRequest(Request("inspect", pending))

ContinueRouting ==
    /\ step = 2 /\ validateRoutingDraft(draft)
    /\ SendRequest(Request("compile", {gatewayDocument(draft)}))

\* Mutant: Create asks for a validation only.
createUncompared ==
    /\ step = 3 /\ validated # {}
    /\ SendRequest(Request("create", {gatewayDocument(draft)}))

\* finishCreation: the configuration is still the validated one.
FinishCreation ==
    /\ step = 3
    /\ \E v \in validated : v.gateway = gatewayDocument(draft)
    /\ SendRequest(Request("create", {gatewayDocument(draft)}))

-----------------------------------------------------------------------------
(* The answers *)

\* What the management API says of the sources in the request.
Verdict(request) ==
    IF request.gateways = {}
    THEN IF Inspects(request.draft.document) THEN "compiled" ELSE "invalid_openapi"
    ELSE LET gateway == CHOOSE g \in request.gateways : TRUE
         IN compileProxyBundle(request.draft.document, gateway, FALSE).code

\* handleFailure: a refusal with a step of its own leads there.
HandleFailure(request) ==
    /\ \/ /\ Verdict(request) = "invalid_openapi"
          /\ step' = 1 /\ highest' = 1 /\ validated' = {}
       \/ /\ Verdict(request) = "invalid_gateway_config"
          /\ step' = 2 /\ highest' = 2 /\ validated' = {}
       \/ UNCHANGED <<step, highest, validated>>  \* no answer, or no code
    /\ UNCHANGED <<draft, pending, imported, created>>

\* The draft becomes the one that was sent, with what the document holds.
Inspected(request) ==
    /\ Verdict(request) = "compiled"
    /\ LET next == applyOpenApiInspection(request.draft, request.draft.document) IN
         IF request.gateways = {}
           THEN draft' = next /\ imported' = {} /\ UNCHANGED pending
           ELSE /\ \E g \in request.gateways : draft' = hydrateGatewaySource(next, g)
                /\ imported' = request.gateways
                /\ pending' = {}
    /\ advance(2)
    /\ UNCHANGED <<validated, created>>

CompiledAnswer(request) ==
    /\ Verdict(request) = "compiled"
    /\ \E g \in request.gateways : validated' = {[document |-> request.draft.document, gateway |-> g]}
    /\ advance(3)
    /\ UNCHANGED <<draft, pending, created, imported>>

Written(request) ==
    {[document |-> request.draft.document, gateway |-> g, shown |-> request.shown] :
        g \in request.gateways}

\* createConfiguredApiProxy: proxy and revision in one transaction; the panel
\* leaves the page, or does not get the answer and stays.
CreatedAnswer(request) ==
    /\ Verdict(request) = "compiled"
    /\ Cardinality(created) < MaxCreated
    /\ created' = created \cup Written(request)
    /\ step' \in {4, step}
    /\ UNCHANGED <<draft, highest, pending, validated, imported>>

TakeAnswer ==
    /\ \E request \in sent :
          \/ HandleFailure(request)
          \/ request.kind = "inspect" /\ Inspected(request)
          \/ request.kind = "compile" /\ CompiledAnswer(request)
          \/ request.kind = "create" /\ CreatedAnswer(request)
    /\ sent' = {}
    /\ UNCHANGED edits

-----------------------------------------------------------------------------
CreationInit ==
    /\ draft = [document |-> NoDocument,
                base |-> [rooted |-> FALSE, marked |-> FALSE, segments |-> <<>>, trailing |-> 0],
                defaults |-> <<createEditablePolicy("api-key-auth")>>, operations |-> <<>>]
    /\ step = 0 /\ highest = 0
    /\ pending = {} /\ validated = {} /\ sent = {} /\ created = {} /\ imported = {}
    /\ edits = 0

UserStep ==
    \/ \E d \in Documents : SetDocument(d)
    \/ \E b \in Bases : SetBase(b)
    \/ \E ps \in Pipelines : SetDefaults(ps)
    \/ \E i \in DOMAIN draft.operations, t \in Targets, inherit \in BOOLEAN, ps \in Pipelines :
            SetOperation(i, t, inherit, ps)
    \/ \E g \in Imports : ImportGateway(g)
    \/ \E n \in 0 .. 3 : goToStep(n)
    \/ ContinueIdentity \/ ContinueDefinition \/ ContinueRouting \/ FinishCreation

CreationNext == step < 4 /\ (UserStep \/ TakeAnswer)

CreationSpec == CreationInit /\ [][CreationNext]_creationVars

-----------------------------------------------------------------------------
(* Properties *)

\* However edits, navigation and late answers interleave, a proxy's
\* configuration is the one whose validation was on the screen when Create
\* was pressed, and compiles; only its document may be another.
ConfigurationWasShown ==
    \A c \in created :
        /\ \E v \in c.shown : v.gateway = c.gateway
        /\ compileProxyBundle(c.document, c.gateway, FALSE).code = "compiled"

\* A draft compiles to what a configuration compiles to, or is refused.
BehavesAs(d, g) ==
    LET direct == compileProxyBundle(d.document, g, FALSE)
        guided == compileProxyBundle(d.document, gatewayDocument(d), FALSE)
    IN \/ /\ guided.code = "compiled" /\ validateRoutingDraft(d)
          /\ guided.basePath = direct.basePath
          /\ guided.operations = direct.operations
       \/ /\ ~validateRoutingDraft(d)
          /\ \/ ~g.defaults.given
             \/ \E i \in DOMAIN direct.operations : direct.operations[i].target = EmptyPath

\* An imported configuration, brought into the draft and serialized again,
\* compiles to the operations it compiled to itself, unless the panel then
\* refuses the draft for an empty target or for defaults that list no policy.
ImportsKeepBehaviour == \A g \in imported : BehavesAs(draft, g)

\* What the server accepts authenticates once and loads, but for the cases
\* AuthenticatesOnce and LoadsUnless name; system bundles load as well.
BundlesAreServable ==
    \A request \in sent : \A g \in request.gateways :
        /\ AuthenticatesOnce(g, compileProxyBundle(request.draft.document, g, FALSE))
        /\ \A system \in BOOLEAN :
              LoadsUnless(compileProxyBundle(request.draft.document, g, system))

\* The three above: from the form to the gateway a configuration keeps its meaning.
CreationIsSound == ConfigurationWasShown /\ ImportsKeepBehaviour /\ BundlesAreServable

\* A proxy is created from the very sources whose validation was on the screen
\* when Create was pressed, as the panel's "The configuration changed after
\* validation" promises.
CreatedWasReviewed ==
    \A c \in created :
        \E v \in c.shown : contentHash(c.document, compileProxyBundle(c.document, c.gateway, FALSE))
                          = contentHash(v.document, compileProxyBundle(v.document, v.gateway, FALSE))

\* The shape of the panel's state.
CreationTypeOK ==
    /\ step \in 0 .. 4 /\ highest \in 0 .. 3
    /\ draft.document = NoDocument \/ draft.document \in Documents
    /\ pending \subseteq Imports /\ imported \subseteq Imports
    /\ Cardinality(pending) <= 1 /\ Cardinality(validated) <= 1 /\ Cardinality(sent) <= 1
    /\ edits \in 0 .. MaxEdits
=============================================================================
