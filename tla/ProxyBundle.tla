----------------------------- MODULE ProxyBundle -----------------------------
(***************************************************************************)
(* compileProxyBundle (packages/database/src/proxy-bundle.ts): the check   *)
(* of an OpenAPI document and a gateway configuration that makes them a    *)
(* revision; and what the gateway's loader asks of each stored operation.  *)
(*                                                                         *)
(* A document is [valid, operations], operations a sequence of [id,        *)
(* method, path]: parsing, version, references and schema are its `valid'. *)
(* A configuration is [base, defaults, operations], operations a function  *)
(* from ids to [mode, target, policies].  A list of policies may be absent *)
(* and is [given, list], each policy [type, enabled, failureMode, fields]. *)
(***************************************************************************)
EXTENDS Naturals, Sequences, FiniteSets, PolicyTypes

CONSTANTS Declares,   \* [paths -> the parameters in them]
          Unrooted    \* the paths that do not start with a slash, "" one of them

Missing == "missing"
EmptyPath == ""
Absent == [given |-> FALSE, list |-> <<>>]
NoOverride == [mode |-> Missing, target |-> Missing, policies |-> Absent]

-----------------------------------------------------------------------------
(* Policies *)

BusinessTypes == AuthenticationTypes \cup {"rate-limit"}
AllowedTypes(system) == IF system THEN BusinessTypes \cup TerminalTypes ELSE BusinessTypes

\* The schema of a type: a rate limit needs its numbers, the OAuth policies
\* an audience; a header and the failure mode have defaults.
ConfigParses(p) ==
    /\ p.fields # "bad"
    /\ p.type \in {"rate-limit", "oauth-access-token", "oauth-token"} => p.fields = "set"

Compiled(p, index) ==
    [type |-> p.type, order |-> index, enabled |-> p.enabled # "false",
     failureMode |-> IF p.failureMode = Missing THEN "closed" ELSE p.failureMode,
     fields |-> IF p.fields = Missing THEN "default" ELSE p.fields]

\* What compilePolicies returns.
compilePolicies(value) == [i \in DOMAIN value.list |-> Compiled(value.list[i], i)]

Authentications(policies) ==
    {i \in DOMAIN policies : policies[i].enabled /\ policies[i].type \in AuthenticationTypes}

\* compilePolicies does not throw.  A list that is absent is empty, and the
\* authentication policies of an empty one are not counted then.
PoliciesCompile(value, system) ==
    value.given =>
        /\ \A i \in DOMAIN value.list :
              value.list[i].type \in AllowedTypes(system) /\ ConfigParses(value.list[i])
        /\ LET count == Cardinality(Authentications(compilePolicies(value)))
           IN IF system THEN count <= 1 ELSE count = 1

-----------------------------------------------------------------------------
(* Operations *)

\* inspectOpenApiDocument does not throw.
Inspects(document) ==
    /\ document.valid
    /\ document.operations # <<>>
    /\ \A i, j \in DOMAIN document.operations :
          document.operations[i].id = document.operations[j].id => i = j

IdsOf(document) == {document.operations[i].id : i \in DOMAIN document.operations}

validateTargetPath(path, target) ==
    target \notin Unrooted /\ Declares[target] \subseteq Declares[path]

OverrideOf(gateway, id) ==
    IF id \in DOMAIN gateway.operations THEN gateway.operations[id] ELSE NoOverride

ModeOf(override, system) == IF system /\ override.mode = "local" THEN "local" ELSE "forward"

PoliciesOf(gateway, override) ==
    compilePolicies(IF override.policies.given THEN override.policies ELSE gateway.defaults)

EnabledTypes(policies) == {policies[i].type : i \in {i \in DOMAIN policies : policies[i].enabled}}

CompiledOperation(operation, gateway, system) ==
    LET override == OverrideOf(gateway, operation.id)
        mode == ModeOf(override, system)
    IN [id |-> operation.id, method |-> operation.method, path |-> operation.path, mode |-> mode,
        target |-> IF mode = "local" THEN Missing
                   ELSE IF override.target = Missing THEN operation.path ELSE override.target,
        policies |-> PoliciesOf(gateway, override)]

\* The operation is not refused.  An empty target is not looked at.
OperationCompiles(operation, gateway, system) ==
    LET override == OverrideOf(gateway, operation.id)
        compiled == CompiledOperation(operation, gateway, system)
    IN /\ override.mode \in (IF system THEN {Missing, "forward", "local"} ELSE {Missing})
       /\ compiled.target \notin {Missing, EmptyPath} => validateTargetPath(operation.path, compiled.target)
       /\ PoliciesCompile(override.policies, system)
       /\ compiled.mode = "local" => EnabledTypes(compiled.policies) \cap TerminalTypes # {}

-----------------------------------------------------------------------------
(* The bundle *)

\* A base path is [rooted, marked, segments, trailing]: whether it starts
\* with a slash, holds one of ? # { }, its segments, the slashes at its end.
\* A single slash stays, any more are dropped, all of them if there is nothing
\* else: <<"">> is the text "/", <<>> the empty one.
normalizeBasePath(base) ==
    IF base.segments = <<>> /\ base.trailing = 0 THEN <<"">> ELSE base.segments

GatewayCompiles(document, gateway, system) ==
    /\ gateway.base.rooted /\ ~gateway.base.marked
    /\ PoliciesCompile(gateway.defaults, system)
    /\ \A i \in DOMAIN document.operations :
          OperationCompiles(document.operations[i], gateway, system)
    /\ DOMAIN gateway.operations \subseteq IdsOf(document)

RefusedBundle(code) == [code |-> code, basePath |-> <<>>, defaults |-> <<>>, operations |-> <<>>]

compileProxyBundle(document, gateway, system) ==
    IF ~Inspects(document) THEN RefusedBundle("invalid_openapi")
    ELSE IF ~GatewayCompiles(document, gateway, system) THEN RefusedBundle("invalid_gateway_config")
    ELSE [code |-> "compiled",
          basePath |-> normalizeBasePath(gateway.base),
          defaults |-> compilePolicies(gateway.defaults),
          operations |-> [i \in DOMAIN document.operations |->
              CompiledOperation(document.operations[i], gateway, system)]]

\* The digest of the document and of the configuration in its stable form:
\* it stands for both.
contentHash(document, bundle) == <<document, bundle>>

-----------------------------------------------------------------------------
(* The loader *)

\* getAllProxiesFromDB does not throw for a stored operation whose deployment
\* has an upstream.
OperationLoads(operation) ==
    LET types == EnabledTypes(operation.policies) IN
    /\ Cardinality(Authentications(operation.policies)) <= 1
    /\ IF operation.mode = "local" THEN types \cap TerminalTypes # {}
       ELSE operation.target # EmptyPath /\ types \cap TerminalTypes = {}

RevisionLoads(bundle) ==
    \A i \in DOMAIN bundle.operations : OperationLoads(bundle.operations[i])

-----------------------------------------------------------------------------
(* Properties of a bundle that compiled *)

\* A business operation has exactly one enabled authentication policy, unless
\* it inherits the defaults of a configuration that lists none at all.
AuthenticatesOnce(gateway, bundle) ==
    bundle.code = "compiled" =>
        \A i \in DOMAIN bundle.operations :
            \/ Cardinality(Authentications(bundle.operations[i].policies)) = 1
            \/ /\ ~gateway.defaults.given
               /\ ~OverrideOf(gateway, bundle.operations[i].id).policies.given

\* The revision loads, unless a forward operation names an empty target or,
\* in a system bundle, keeps a terminal policy.
LoadsUnless(bundle) ==
    bundle.code = "compiled" =>
        \/ RevisionLoads(bundle)
        \/ \E i \in DOMAIN bundle.operations :
              /\ bundle.operations[i].mode = "forward"
              /\ \/ bundle.operations[i].target = EmptyPath
                 \/ EnabledTypes(bundle.operations[i].policies) \cap TerminalTypes # {}
=============================================================================
