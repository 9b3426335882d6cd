---------------------------- MODULE GatewayAccess ----------------------------
(***************************************************************************)
(* How the gateway turns the rows of Applications into access:             *)
(* gateway-core's auth/authorization.ts, the api-key-auth, oauth-token and *)
(* oauth-access-token policies.                                            *)
(*                                                                         *)
(* A call looks its credential up by consumer key.  The query is no        *)
(* transaction: the credential, its application, the workspace, the        *)
(* grants, their products, the products' proxies and their environments    *)
(* are read one after the other while administrators change them, and only *)
(* then is anything decided, from what was read.  An access token carries  *)
(* what was read until it expires, and is verified without any row.        *)
(*                                                                         *)
(* The single use of assertions is modelled in Assertions, what a policy   *)
(* that fails does to a request in RequestHandling.                        *)
(***************************************************************************)
EXTENDS Applications, Integers, FiniteSets

CONSTANTS
    Calls,       \* the calls to the gateway that may run at once
    Standard,    \* the hosts outside any lab workspace
    HostOf,      \* [Organizations -> its workspace, or Standard]
    Needs,       \* [Proxies -> the scopes its operations require]
    TTL,         \* lifetime of an access token
    MaxLatency,  \* bound on the time a call takes
    MaxTokens,   \* bound on the tokens alive
    AdminOps, AdminFields  \* bounds on what administrators change: ops, credentials' fields

Hosts == {HostOf[o] : o \in Organizations} \cup {Standard}

ASSUME AccessAssumption ==
    /\ TTL \in Nat \ {0} /\ MaxLatency \in Nat /\ MaxTokens \in Nat
    /\ HostOf \in [Organizations -> Hosts]
    /\ Needs \in [Proxies -> SUBSET Scopes]

VARIABLES
    call,       \* [Calls -> the call and what it has read so far]
    tokens,     \* the access tokens that were issued
    ended,      \* the lab workspaces that are no longer active
    seen,       \* history: [Calls -> what was true at some moment of the call]
    lastGood,   \* history: [Credentials -> the last time it was good, -1 for never]
    lastApproved, \* history: [Credentials -> the last time its application was approved]
    lastOpen    \* history: [Credentials -> the last time its workspace was active]

accessVars == <<applicationVars, call, tokens, ended, seen, lastGood, lastApproved, lastOpen>>

NoCall == [phase |-> "idle"]
Kinds == {"apiKey", "secret", "assertion"}

\* A call for proxy x in environment e of host h, with what it will have read
\* of the credential, its rows and those of the products.
NewCall(kind, key, proof, x, e, h) ==
    [phase |-> "asked", kind |-> kind, key |-> key, proof |-> proof,
     proxy |-> x, environment |-> e, host |-> h, since |-> now,
     c |-> NoApp, row |-> NoCredential, status |-> "absent", open |-> FALSE,
     granted |-> [p \in Products |-> NoGrant],
     active |-> {}, declared |-> [p \in Products |-> {}],
     proxies |-> [p \in Products |-> {}], environments |-> [p \in Products |-> {}],
     signer |-> "absent"]

-----------------------------------------------------------------------------
\* Mutant: a credential that was revoked is good until it expires.
isCredentialUnexpired(row, status) ==
    status = "approved" /\ row.expires > now

\* The credential and its application are approved, and it has not expired.
isCredentialValid(row, status) ==
    row.status = "approved" /\ status = "approved" /\ row.expires > now

\* The credential's organization is that of the workspace asked, which is
\* active; outside the lab it is of no workspace.
credentialMatchesWorkspace(row, open, h) ==
    HostOf[OrgOf[row.app]] = h /\ (h # Standard => open)

\* Mutant: grants that were revoked count.
productsOfAnyGrant(k) ==
    {p \in Products :
        /\ k.granted[p].status # "absent"
        /\ p \in k.active
        /\ k.environments[p] = {} \/ k.environment \in k.environments[p]}

\* The products of approved grants that are active, of the organization, and
\* for the environment or all of them.
authorizedProducts(k) ==
    {p \in Products :
        /\ k.granted[p].status = "approved"
        /\ p \in k.active
        /\ OrgOf[p] = OrgOf[k.row.app]
        /\ k.environments[p] = {} \/ k.environment \in k.environments[p]}

\* A scope counts if the grant has it and the product still declares it.
EffectiveScopes(k) ==
    UNION {k.granted[p].scopes \cap k.declared[p] : p \in authorizedProducts(k)}

-----------------------------------------------------------------------------
\* Credential c is approved and has not expired.
IsGood(c) == Exists(c) /\ credential[c].status = "approved" /\ credential[c].expires > now

\* Its application is approved; the workspace of its organization is active.
IsApproved(c) == Exists(c) /\ appStatus[credential[c].app] = "approved"
IsOpen(c) == Exists(c) /\ HostOf[OrgOf[credential[c].app]] \notin ended

\* What is true now of product p, for history: each fact by itself.
ProductFacts(p) ==
    (IF product[p].active THEN {<<"active", p>>} ELSE {})
    \cup {<<"declares", p, x>> : x \in product[p].scopes}
    \cup {<<"bundles", p, x>> : x \in product[p].proxies}
    \cup {<<"for", p, e>> : e \in {e \in Environments :
             product[p].environments = {} \/ e \in product[p].environments}}

\* And of credential c and the products.
FactsNow(c) ==
    (IF IsGood(c)
     THEN {<<"credential", c, credential[c].key>>, <<"secret", c, credential[c].secret>>} ELSE {})
    \cup (IF IsApproved(c) THEN {<<"app", c>>} ELSE {})
    \cup (IF IsOpen(c) THEN {<<"open", c>>} ELSE {})
    \cup {<<"key", c, k>> : k \in {k \in Kids : keyStatus[c][k] = "approved"}}
    \cup {<<"grant", c, p>> : p \in {p \in Products : grant[c][p].status = "approved"}}
    \cup (UNION {{<<"scope", c, p, x>> : x \in grant[c][p].scopes} : p \in Products})
    \cup (UNION {ProductFacts(p) : p \in Products})

\* The facts gave c, with this key, product p in environment e.
EarnedProduct(facts, c, p, e) ==
    {<<"grant", c, p>>, <<"active", p>>, <<"for", p, e>>} \subseteq facts

\* And, through products, access to these proxies with these scopes.
Earned(facts, c, key, e, xs, scopes) ==
    /\ {<<"credential", c, key>>, <<"app", c>>, <<"open", c>>} \subseteq facts
    /\ \A x \in xs : \E p \in Products :
          EarnedProduct(facts, c, p, e) /\ <<"bundles", p, x>> \in facts
    /\ \A x \in scopes : \E p \in Products :
          /\ EarnedProduct(facts, c, p, e)
          /\ {<<"scope", c, p, x>>, <<"declares", p, x>>} \subseteq facts

AccessInit ==
    /\ ApplicationInit
    /\ call = [g \in Calls |-> NoCall]
    /\ tokens = {}
    /\ ended = {}
    /\ seen = [g \in Calls |-> {}]
    /\ lastGood = [c \in Credentials |-> -1]
    /\ lastApproved = [c \in Credentials |-> -1]
    /\ lastOpen = [c \in Credentials |-> -1]

-----------------------------------------------------------------------------
rest == <<tokens, ended>>
access == <<call, tokens, ended>>

\* A client calls a proxy with its consumer key, or asks a host's token
\* endpoint for a token with its secret or an assertion signed by a key.
Ask(g, kind, key, proof, x, e, h) ==
    /\ call[g] = NoCall
    /\ kind = "apiKey" => h = HostOf[OrgOf[x]]
    /\ call' = [call EXCEPT ![g] = NewCall(kind, key, proof, x, e, h)]
    /\ UNCHANGED <<applicationVars, rest>>

\* The call goes on with what it has read, and nothing else changes.
Reads(g, k) ==
    /\ call' = [call EXCEPT ![g] = k]
    /\ UNCHANGED <<applicationVars, rest>>

\* findCredential: first the row with the consumer key.
ReadRow(g) ==
    /\ call[g].phase = "asked"
    /\ \E c \in Credentials :
          /\ Exists(c) /\ credential[c].key = call[g].key
          /\ Reads(g, [call[g] EXCEPT !.phase = "row", !.c = c, !.row = credential[c]])

\* No such key: 401.
UnknownKey(g) ==
    /\ call[g].phase = "asked"
    /\ \A c \in Credentials : Exists(c) => credential[c].key # call[g].key
    /\ Reads(g, NoCall)

\* Then its application with the organization, which does not change.
ReadApp(g) ==
    /\ call[g].phase = "row"
    /\ Reads(g, [call[g] EXCEPT !.phase = "app", !.status = appStatus[call[g].row.app]])

\* Then the workspace of the organization.
ReadWorkspace(g) ==
    /\ call[g].phase = "app"
    /\ Reads(g, [call[g] EXCEPT !.phase = "workspace",
                                !.open = HostOf[OrgOf[call[g].row.app]] \notin ended])

\* Then the grants.
ReadGrants(g) ==
    /\ call[g].phase = "workspace"
    /\ Reads(g, [call[g] EXCEPT !.phase = "grants", !.granted = grant[call[g].c]])

\* Then the rows of their products.
ReadProducts(g) ==
    /\ call[g].phase = "grants"
    /\ Reads(g, [call[g] EXCEPT !.phase = "products",
                                !.active = {p \in Products : product[p].active},
                                !.declared = [p \in Products |-> product[p].scopes]])

\* Then the proxies of the products, from the table that joins them.
ReadProxies(g) ==
    /\ call[g].phase = "products"
    /\ Reads(g, [call[g] EXCEPT !.phase = "proxies",
                                !.proxies = [p \in Products |-> product[p].proxies]])

\* Then their environments, from another.
ReadEnvironments(g) ==
    /\ call[g].phase = "proxies"
    /\ Reads(g, [call[g] EXCEPT !.phase = "read",
                                !.environments = [p \in Products |-> product[p].environments]])

\* What has been read authenticates the call.
Authentic(k) ==
    /\ isCredentialValid(k.row, k.status)
    /\ credentialMatchesWorkspace(k.row, k.open, k.host)

\* The api-key-auth policy: authentic, and a product contains the proxy.
Admits(k) ==
    /\ Authentic(k)
    /\ \E p \in authorizedProducts(k) : k.proxy \in k.proxies[p]

\* Answers a call by API key from what was read.
AdmitApiKey(g) ==
    /\ call[g].phase = "read"
    /\ call[g].kind = "apiKey"
    /\ Admits(call[g])
    /\ Reads(g, NoCall)

\* The oauth-token policy for a valid credential: the secret is right, or the
\* public key of the assertion is read.
CheckClient(g) ==
    LET k == call[g] IN
    /\ k.phase = "read"
    /\ k.kind # "apiKey"
    /\ isCredentialValid(k.row, k.status)
    /\ k.kind = "secret" => k.proof = k.row.secret
    /\ Reads(g, [k EXCEPT !.phase = "checked",
                          !.signer = IF k.kind = "assertion" THEN keyStatus[k.c][k.proof] ELSE @])

\* Mutant: a public key that was revoked still signs.
issuesWithAnyKey(k) ==
    /\ k.kind = "assertion" => k.signer # "absent"
    /\ credentialMatchesWorkspace(k.row, k.open, k.host)
    /\ authorizedProducts(k) # {}

\* The key is approved, the workspace that of the host, and there is a product.
Issues(k) ==
    /\ k.kind = "assertion" => k.signer = "approved"
    /\ credentialMatchesWorkspace(k.row, k.open, k.host)
    /\ authorizedProducts(k) # {}

\* Signs a token for every proxy of the products; earned is history.
IssueToken(g) ==
    LET k == call[g]
        xs == UNION {k.proxies[p] : p \in authorizedProducts(k)}
        scopes == EffectiveScopes(k)
    IN
    /\ k.phase = "checked"
    /\ Issues(k)
    /\ Cardinality(tokens) < MaxTokens
    /\ tokens' = tokens \cup
          {[credential |-> k.c, host |-> k.host, environment |-> k.environment,
            proxies |-> xs, scopes |-> scopes, expires |-> now + TTL,
            earned |-> /\ Earned(seen[g], k.c, k.row.key, k.environment, xs, scopes)
                       /\ k.kind = "secret" => <<"secret", k.c, k.proof>> \in seen[g]
                       /\ k.kind = "assertion" => <<"key", k.c, k.proof>> \in seen[g]]}
    /\ call' = [call EXCEPT ![g] = NoCall]
    /\ UNCHANGED <<applicationVars, ended>>

\* 401 or 403.
Refuse(g) ==
    LET k == call[g] IN
    /\ \/ k.phase = "read" /\ k.kind = "apiKey" /\ ~Admits(k)
       \/ k.phase = "read" /\ k.kind # "apiKey" /\ ~isCredentialValid(k.row, k.status)
       \/ k.phase = "read" /\ k.kind = "secret" /\ k.proof # k.row.secret
       \/ k.phase = "checked" /\ ~Issues(k)
    /\ Reads(g, NoCall)

\* The oauth-access-token policy: signature, expiry and claims only.
Honours(t, h, e, x) ==
    /\ now < t.expires
    /\ t.host = h
    /\ t.environment = e
    /\ x \in t.proxies
    /\ Needs[x] \subseteq t.scopes

\* A workspace is revoked or expires.
EndWorkspace(h) ==
    /\ h # Standard
    /\ ended' = ended \cup {h}
    /\ UNCHANGED <<applicationVars, call, tokens>>

\* Expired tokens may be forgotten: nothing distinguishes them.
ForgetTokens ==
    /\ \E t \in tokens : t.expires <= now
    /\ tokens' = {t \in tokens : t.expires > now}
    /\ UNCHANGED <<applicationVars, call, ended>>

\* The clock does not leave a call behind by more than MaxLatency.
Administer ==
    /\ ApplicationNext
    /\ \A s \in Sessions :
          /\ tx'[s].op \in AdminOps \cup {"idle", "insert"}
          /\ tx'[s].op = "credential" => tx'[s].fields \in AdminFields
    /\ \A g \in Calls : call[g] # NoCall => now' - call[g].since <= MaxLatency
    /\ UNCHANGED access

Remember ==
    /\ seen' = [g \in Calls |->
          IF call'[g] = NoCall THEN {}
          ELSE (UNION {FactsNow(c)' : c \in Credentials})
               \cup (IF call[g] = NoCall THEN {} ELSE seen[g])]
    /\ lastGood' = [c \in Credentials |-> IF IsGood(c)' THEN now' ELSE lastGood[c]]
    /\ lastApproved' = [c \in Credentials |-> IF IsApproved(c)' THEN now' ELSE lastApproved[c]]
    /\ lastOpen' = [c \in Credentials |-> IF IsOpen(c)' THEN now' ELSE lastOpen[c]]

AccessNext ==
    /\ \/ Administer
       \/ \E g \in Calls :
             \/ \E kind \in Kinds, key \in Keys, x \in Proxies, e \in Environments, h \in Hosts :
                   \E proof \in CASE kind = "secret" -> 0 .. MaxSecrets
                                  [] kind = "assertion" -> Kids
                                  [] OTHER -> {0} :
                      Ask(g, kind, key, proof, x, e, h)
             \/ ReadRow(g) \/ UnknownKey(g) \/ ReadApp(g) \/ ReadWorkspace(g) \/ ReadGrants(g)
             \/ ReadProducts(g) \/ ReadProxies(g) \/ ReadEnvironments(g)
             \/ AdmitApiKey(g) \/ CheckClient(g) \/ IssueToken(g) \/ Refuse(g)
       \/ \E h \in Hosts : EndWorkspace(h)
       \/ ForgetTokens
    /\ Remember

AccessSpec == AccessInit /\ [][AccessNext]_accessVars

-----------------------------------------------------------------------------
\* A call by API key is admitted only if everything that admits it was true
\* at some moment since the call began: the key named the credential, which
\* was approved and alive, its application was approved and its workspace
\* open, and one product was granted, active, for the environment and
\* contained the proxy.  What was revoked, replaced, withdrawn or expired
\* before has no effect left.  The moments may differ: an administrator who
\* replaces a product's proxies and environments together may be overtaken.
AdmissionIsFresh ==
    [][\A g \in Calls : AdmitApiKey(g) =>
          LET k == call[g] IN
          Earned(seen[g], k.c, k.row.key, k.environment, {k.proxy}, {})]_accessVars

\* The lifetime of a token bounds revocation: one that is still honoured
\* belongs to a credential that was approved and alive less than that long ago,
\* and so were its application and its workspace, but for the time the call
\* took.  They need not have been so at one moment: the call reads them in turn.
RevocationBitesWithinTtl ==
    \A t \in tokens, h \in Hosts, e \in Environments, x \in Proxies :
        Honours(t, h, e, x) =>
            /\ now < lastGood[t.credential] + TTL + MaxLatency
            /\ now < lastApproved[t.credential] + TTL + MaxLatency
            /\ now < lastOpen[t.credential] + TTL + MaxLatency

\* A token carries only proxies and scopes its credential had, in the token's
\* environment, at moments of the call that issued it, by a secret or key that
\* was good then; and a workspace's host accepts only tokens of that
\* workspace's organization, every other host none of them.
TokensAreEarned ==
    /\ \A t \in tokens : t.earned
    /\ \A t \in tokens, h \in Hosts, e \in Environments, x \in Proxies :
          Honours(t, h, e, x) => h = HostOf[OrgOf[x]]
=============================================================================
