---------------------------- MODULE RequestHandling ----------------------------
(***************************************************************************)
(* A gateway's catch-all route: the resolver finds the proxy and endpoint  *)
(* of a request, the pipeline runs the endpoint's policies one after the   *)
(* other, and the forwarder calls the upstream.  Every policy and the      *)
(* upstream are awaited: between two awaits other requests run, and the    *)
(* reloader replaces the registry.                                         *)
(*                                                                         *)
(* A path is a sequence of segments, and a parameter stands for one whole  *)
(* segment.  Header and body transformations are left out.                 *)
(***************************************************************************)
EXTENDS Naturals, Sequences, FiniteSets, PolicyTypes

CONSTANTS
    HTTPRequests,    \* the requests that may be in the gateway at once
    Hosts, Methods,
    Paths,           \* the paths asked for: sequences of segments
    Parameters,      \* the segments of endpoint paths that are parameters
    Width,           \* [segments of endpoint paths -> their length as text]
    Configurations   \* the snapshots the loader may return: sets of proxies

\* A proxy: [key, authority, basePath, endpoints], where endpoints is a
\* sequence of [method, path, mode, target, policies], and policies a sequence
\* of [type, order, enabled, failureMode].
ASSUME ConfigurationAssumption ==
    \A c \in Configurations : \A proxy \in c : \A i \in DOMAIN proxy.endpoints :
        /\ proxy.endpoints[i].mode \in {"forward", "local"}
        /\ proxy.endpoints[i].policies \in
              Seq([type : STRING, order : Nat, enabled : BOOLEAN,
                   failureMode : {"open", "closed"}])

VARIABLES
    registry,  \* the proxies in use
    request    \* [HTTPRequests -> where its handler stands]

requestVars == <<registry, request>>

NoRequest == [phase |-> "idle"]
HandlerPhases == {"policies", "forwarding", "streaming", "answered"}

RequestTypeOK ==
    /\ registry = {} \/ registry \in Configurations
    /\ \A r \in HTTPRequests :
          \/ request[r] = NoRequest
          \/ /\ request[r].phase \in HandlerPhases
             /\ request[r].ran \subseteq DOMAIN request[r].endpoint.policies
             /\ request[r].failed \subseteq request[r].ran
             /\ request[r].client \in request[r].ran \cup {0}
             /\ request[r].replies \in 0 .. 2

RequestInit ==
    /\ registry = {}
    /\ request = [r \in HTTPRequests |-> NoRequest]

-----------------------------------------------------------------------------
\* Loading a snapshot.

Enabled(endpoint) == {i \in DOMAIN endpoint.policies : endpoint.policies[i].enabled}
TypesOf(endpoint) == {endpoint.policies[i].type : i \in Enabled(endpoint)}
EndpointsOf(proxy) == {proxy.endpoints[i] : i \in DOMAIN proxy.endpoints}

\* Mutant: a disabled policy counts.
validateAnyPolicy(c) ==
    \A proxy \in c : \A e \in EndpointsOf(proxy) :
        LET types == {e.policies[i].type : i \in DOMAIN e.policies}
        IN /\ Cardinality(types \cap AuthenticationTypes) <= 1
           /\ e.mode = "local" => types \cap TerminalTypes # {}
           /\ e.mode = "forward" => e.target /\ types \cap TerminalTypes = {}

\* validateProxyConfiguration does not throw.
validateProxyConfiguration(c) ==
    \A proxy \in c : \A e \in EndpointsOf(proxy) :
        /\ Cardinality({i \in Enabled(e) : e.policies[i].type \in AuthenticationTypes}) <= 1
        /\ e.mode = "local" => TypesOf(e) \cap TerminalTypes # {}
        /\ e.mode = "forward" => e.target /\ TypesOf(e) \cap TerminalTypes = {}

\* loadProxies does not throw: an authority has one registry, and a registry
\* one proxy for a base path.
Loads(c) ==
    \A p, q \in c :
        /\ p.authority = q.authority => p.key = q.key
        /\ p.key = q.key /\ p.basePath = q.basePath => p = q

\* The reloader applies a snapshot; one that is refused leaves the registry.
applySnapshot(c) ==
    /\ registry' = IF validateProxyConfiguration(c) /\ Loads(c) THEN c ELSE registry
    /\ UNCHANGED request

-----------------------------------------------------------------------------
\* Finding the endpoint.

IsUnder(path, base) ==
    Len(base) <= Len(path) /\ SubSeq(path, 1, Len(base)) = base

\* The proxies of the host's registry whose base path is the longest that
\* the path starts with: one or none.
resolveProxy(host, path) ==
    LET keys == {p.key : p \in {p \in registry : p.authority = host}}
        matching == {p \in registry : p.key \in keys /\ IsUnder(path, p.basePath)}
    IN {p \in matching : \A q \in matching : Len(q.basePath) <= Len(p.basePath)}

PathMatches(endpoint, suffix) ==
    /\ Len(endpoint.path) = Len(suffix)
    /\ \A i \in DOMAIN suffix :
          endpoint.path[i] \in Parameters \/ endpoint.path[i] = suffix[i]

IsDynamic(endpoint) == \E i \in DOMAIN endpoint.path : endpoint.path[i] \in Parameters

TextLength(path) ==
    LET length[i \in 0 .. Len(path)] == IF i = 0 THEN 0 ELSE length[i - 1] + 1 + Width[path[i]]
    IN length[Len(path)]

\* loadProxies sorts endpoint i of the proxy before endpoint j: static ones
\* first, then the longer text, then as they were.
SortedBefore(proxy, i, j) ==
    LET a == proxy.endpoints[i]
        b == proxy.endpoints[j]
    IN \/ ~IsDynamic(a) /\ IsDynamic(b)
       \/ /\ IsDynamic(a) = IsDynamic(b)
          /\ \/ TextLength(a.path) > TextLength(b.path)
             \/ (TextLength(a.path) = TextLength(b.path) /\ i < j)

Matching(proxy, path) ==
    {i \in DOMAIN proxy.endpoints :
        PathMatches(proxy.endpoints[i], SubSeq(path, Len(proxy.basePath) + 1, Len(path)))}

\* The first endpoint for the path that has the method: one or none.
resolveEndpoint(proxy, path, method) ==
    LET found == {i \in Matching(proxy, path) : proxy.endpoints[i].method = method}
    IN {i \in found : \A j \in found \ {i} : SortedBefore(proxy, i, j)}

-----------------------------------------------------------------------------
\* The handler.

Unresolved == [method |-> "", path |-> <<>>, mode |-> "", target |-> FALSE, policies |-> <<>>]

\* A request for the endpoint, before any policy.
Handling(endpoint) ==
    [phase |-> "policies", endpoint |-> endpoint, ran |-> {}, failed |-> {},
     client |-> 0, counted |-> {}, status |-> "none", replies |-> 0]

\* One reply with this status.
Answered(h, status) ==
    [h EXCEPT !.phase = "answered", !.status = status, !.replies = @ + 1]

\* Mutant: policies run in the order they are listed.
nextPolicyAsListed(h) ==
    {i \in Enabled(h.endpoint) \ h.ran : \A j \in Enabled(h.endpoint) \ h.ran : i <= j}

\* The enabled policy executePipeline runs next: one or none.
nextPolicy(h) ==
    LET rest == Enabled(h.endpoint) \ h.ran
        order(i) == h.endpoint.policies[i].order
    IN {i \in rest : \A j \in rest \ {i} :
            order(i) < order(j) \/ (order(i) = order(j) /\ i < j)}

\* After the last policy: forwardRequest, whose URL needs a target, or the
\* error of a local endpoint nothing answered.
GoOn(h) ==
    IF nextPolicy(h) # {} THEN h
    ELSE IF h.endpoint.mode = "local" \/ ~h.endpoint.target THEN Answered(h, "500")
    ELSE [h EXCEPT !.phase = "forwarding"]

Becomes(r, h) == request' = [request EXCEPT ![r] = h] /\ UNCHANGED registry

\* The handler up to its first await.
Arrive(r, host, path, method) ==
    /\ request[r] = NoRequest
    /\ \/ /\ ~\E p \in registry : p.authority = host
          /\ Becomes(r, Answered(Handling(Unresolved), "421"))
       \/ /\ \E p \in registry : p.authority = host
          /\ resolveProxy(host, path) = {}
          /\ Becomes(r, Answered(Handling(Unresolved), "404"))
       \/ \E p \in resolveProxy(host, path) :
             /\ resolveEndpoint(p, path, method) = {}
             /\ Becomes(r, Answered(Handling(Unresolved),
                                    IF Matching(p, path) = {} THEN "404" ELSE "405"))
       \/ \E p \in resolveProxy(host, path) : \E i \in resolveEndpoint(p, path, method) :
             Becomes(r, GoOn(Handling(p.endpoints[i])))

\* A policy is at work for r.
Runs(r, i) == request[r].phase = "policies" /\ i \in nextPolicy(request[r])

\* Policy i returns CONTINUE: authentication makes the client known, the rate
\* limit has counted the client if it is known, the address if not.
Passes(r, i) ==
    /\ Runs(r, i)
    /\ LET h == [request[r] EXCEPT !.ran = @ \cup {i}]
           type == h.endpoint.policies[i].type
       IN \/ /\ type \in AuthenticationTypes
             /\ Becomes(r, GoOn([h EXCEPT !.client = i]))
          \/ /\ type = "rate-limit"
             /\ Becomes(r, GoOn([h EXCEPT !.counted = @ \cup {<<i, h.client>>}]))

\* Policy i refuses the request (401, 403, 429, 400), or answers it.
Halts(r, i) ==
    /\ Runs(r, i)
    /\ request[r].endpoint.policies[i].type \in Registered
    /\ Becomes(r, Answered([request[r] EXCEPT !.ran = @ \cup {i}],
                  IF request[r].endpoint.policies[i].type \in TerminalTypes
                  THEN "200" ELSE "4xx"))

\* What policy i depends on fails, or no policy of its type is registered.
\* The api-key, mtls and rate-limit policies, and the pipeline for what was
\* thrown, go on if the failure mode is open; oauth-token answers 503.
Fails(r, i) ==
    /\ Runs(r, i)
    /\ LET h == [request[r] EXCEPT !.ran = @ \cup {i}, !.failed = @ \cup {i}]
           policy == h.endpoint.policies[i]
       IN /\ policy.type \notin {"oauth-access-token", "jwks-endpoint"}
          /\ Becomes(r, IF policy.failureMode = "open" /\ policy.type # "oauth-token"
                        THEN GoOn(h) ELSE Answered(h, "503"))

\* The upstream's status and headers arrive and the reply is sent.
UpstreamAnswers(r) ==
    /\ request[r].phase = "forwarding"
    /\ Becomes(r, [request[r] EXCEPT !.phase = "streaming", !.status = "upstream",
                                     !.replies = @ + 1])

\* The upstream cannot be reached, or times out after 30 s.
UpstreamFails(r) ==
    /\ request[r].phase = "forwarding"
    /\ Becomes(r, Answered(request[r], "502"))

\* The body ends, or breaks off: then the reply is already sent.
StreamEnds(r) ==
    /\ request[r].phase = "streaming"
    /\ Becomes(r, [request[r] EXCEPT !.phase = "answered"])

Close(r) ==
    /\ request[r].phase = "answered"
    /\ Becomes(r, NoRequest)

RequestNext ==
    \/ \E c \in Configurations : applySnapshot(c)
    \/ \E r \in HTTPRequests :
          \/ \E host \in Hosts, path \in Paths, method \in Methods :
                Arrive(r, host, path, method)
          \/ request[r] # NoRequest /\
                \/ \E i \in DOMAIN request[r].endpoint.policies :
                      Passes(r, i) \/ Halts(r, i) \/ Fails(r, i)
                \/ UpstreamAnswers(r) \/ UpstreamFails(r) \/ StreamEnds(r)
                \/ Close(r)

RequestSpec == RequestInit /\ [][RequestNext]_requestVars

-----------------------------------------------------------------------------
\* A handler that has called the upstream.
Forwarded(h) ==
    h # NoRequest /\ (h.phase \in {"forwarding", "streaming"} \/ h.status \in {"upstream", "502"})

\* The authentication policies that were enabled and did not fail.
Authenticators(h) ==
    {i \in Enabled(h.endpoint) \ h.failed : h.endpoint.policies[i].type \in AuthenticationTypes}

\* Mode "closed" for policy i, or a policy that has no mode.
IsClosed(h, i) ==
    h.endpoint.policies[i].failureMode = "closed" \/ h.endpoint.policies[i].type \in TerminalTypes

\* A request reaches the upstream only past every enabled policy of its
\* endpoint, failed ones only if their failure mode is open; its client is
\* the one its only authentication policy established; and each rate limit
\* that was not skipped counted that client if it is ordered after the
\* authentication, and the address if before.
UpstreamIsGuarded ==
    \A r \in HTTPRequests : Forwarded(request[r]) =>
        LET h == request[r]
            order(i) == h.endpoint.policies[i].order
        IN /\ Enabled(h.endpoint) \subseteq h.ran
           /\ \A i \in h.failed : ~IsClosed(h, i)
           /\ Authenticators(h) = IF h.client = 0 THEN {} ELSE {h.client}
           /\ \A pair \in h.counted : \A i \in Authenticators(h) :
                 /\ order(i) < order(pair[1]) => pair[2] = i
                 /\ order(i) > order(pair[1]) => pair[2] = 0

\* With a configuration that was accepted the gateway never fails of itself,
\* whatever the policies' failures: no request ends as an internal error, in a
\* local endpoint without an answer or a forward without a target, and each is
\* answered exactly once.
AcceptedIsServed ==
    \A r \in HTTPRequests : request[r] # NoRequest /\ request[r].phase = "answered" =>
        request[r].replies = 1 /\ request[r].status # "500"
=============================================================================
