--------------------------- MODULE MCProxyCreation ---------------------------
(* Sources and fields of a small proxy creation, for TLC. *)
EXTENDS ProxyCreation, TLC

DeclaresMap ==
    [path \in {"", "/x", "/x/{id}", "/t/{id}"} |-> IF path \in {"", "/x"} THEN {} ELSE {"id"}]

Op(id, method, path) == [id |-> id, method |-> method, path |-> path]
Document(ops) == [valid |-> TRUE, operations |-> ops]

\* Two documents that differ in a method only, and one that repeats an id.
DocumentsGiven ==
    {Document(<<Op("a", "GET", "/x/{id}")>>),
     Document(<<Op("a", "POST", "/x/{id}")>>),
     Document(<<Op("a", "GET", "/x"), Op("a", "POST", "/x")>>)}

Base(trailing) == [rooted |-> TRUE, marked |-> FALSE, segments |-> <<"b">>, trailing |-> trailing]
BasesTyped == {Base(0), [Base(0) EXCEPT !.rooted = FALSE]}
TargetsTyped == {"", "/t/{id}"}

AsPolicy(type, enabled, mode, fields) ==
    [type |-> type, enabled |-> enabled, failureMode |-> mode, fields |-> fields]
PipelinesBuilt ==
    {<<AsPolicy("rate-limit", FALSE, "open", "default"),
       AsPolicy("oauth-access-token", TRUE, "closed", "set")>>,
     <<AsPolicy("oauth-access-token", TRUE, "closed", Missing)>>}

Key == AsPolicy("api-key-auth", Missing, Missing, Missing)
Rate == AsPolicy("rate-limit", "false", "open", "set")
Certificate == AsPolicy("mtls-auth", "true", "open", Missing)
Token == AsPolicy("oauth-token", Missing, Missing, "set")
Listed(policies) == [given |-> TRUE, list |-> policies]
Gateway(defaults, operations) ==
    [base |-> Base(1), defaults |-> defaults, operations |-> operations]
OfA(mode, target, policies) == "a" :> [mode |-> mode, target |-> target, policies |-> policies]
NoOverrides == [id \in {} |-> NoOverride]

\* Accepted: with defaults only, without a list of them, with an empty target,
\* with an override.  Refused: two authentications, an unknown operation, and
\* for a business proxy what only a system proxy may have.
ConfigurationsImported ==
    {Gateway(Listed(<<Key, Rate>>), NoOverrides),
     Gateway(Absent, NoOverrides),
     Gateway(Listed(<<Key>>), OfA(Missing, "", Absent)),
     Gateway(Listed(<<Key>>), OfA(Missing, "/x", Listed(<<Rate, Certificate>>))),
     Gateway(Listed(<<Key, Certificate>>), NoOverrides),
     Gateway(Listed(<<Key>>), "z" :> NoOverride),
     Gateway(Absent, OfA("local", Missing, Listed(<<Token>>))),
     Gateway(Absent, OfA(Missing, Missing, Listed(<<Token, Key>>)))}
=============================================================================
