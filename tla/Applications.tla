---------------------------- MODULE Applications ----------------------------
(***************************************************************************)
(* Developer applications, their credentials, public keys and product      *)
(* grants, and API products, as administered through the management API:   *)
(* services/applications.ts and services/products.ts over                  *)
(* database/application-management.ts and database/credentials.ts.         *)
(*                                                                         *)
(* Every mutation is a transaction under Read Committed: it reads what it  *)
(* validates, and later writes blindly by id.  A request of a session is   *)
(* therefore two steps: the function of the source that reads and          *)
(* validates, and the Commit that writes what it decided, with anything    *)
(* committed by others in between.  The locks a transaction takes as it    *)
(* writes are held until it commits, so its writes are one step.           *)
(*                                                                         *)
(* A generated consumer key is named after its credential.  Omitted scopes *)
(* stand for all those of the product, which is one of the choices of the  *)
(* input.  The status pending is never created and is left out, as are     *)
(* names and audit events.                                                 *)
(***************************************************************************)
EXTENDS Naturals

CONSTANTS
    Organizations,
    Apps, Credentials, Products, Scopes, Kids,
    Proxies, Environments,  \* what products are bundled of
    NoApp,          \* the app of a credential that does not exist
    OrgOf,          \* [Apps \cup Products \cup Proxies -> Organizations]
    Sessions,       \* the requests that may run at once
    Manages,        \* [Sessions -> the organizations its principal manages]
    CustomKeys,     \* consumer keys a PATCH may choose
    Purposes,       \* the purposes requested
    Expiries,       \* the expiry times requested, Never for null
    PlaygroundLife, \* one hour
    ProductUpdates, \* bound: the sets of fields an update of a product names
    MaxTime, MaxSecrets  \* bounds on the clock and on the rotations

Never == MaxTime + 1
Keys == CustomKeys \cup Credentials
ProductFields == {"active", "scopes", "proxies", "environments"}

ASSUME ApplicationAssumption ==
    /\ MaxTime \in Nat /\ MaxSecrets \in Nat /\ PlaygroundLife \in Nat
    /\ NoApp \notin Apps
    /\ OrgOf \in [Apps \cup Products \cup Proxies -> Organizations]
    /\ Manages \in [Sessions -> SUBSET Organizations]
    /\ Expiries \subseteq 0 .. Never
    /\ CustomKeys \cap Credentials = {}
    /\ ProductUpdates \subseteq SUBSET ProductFields

VARIABLES
    appStatus,   \* [Apps -> "absent", "approved" or "revoked"]
    credential,  \* [Credentials -> its row]
    grant,       \* [Credentials -> [Products -> the row of CredentialProductGrant]]
    keyStatus,   \* [Credentials -> [Kids -> status of the public key]]
    product,     \* [Products -> its row]
    tx,          \* [Sessions -> what the transaction under way has decided]
    now,
    clean        \* history: no rows have changed beside a transaction under way

rows == <<appStatus, credential, grant, keyStatus, product>>
applicationVars == <<rows, tx, now, clean>>

Statuses == {"approved", "revoked"}
Grants == [status : Statuses \cup {"absent"}, scopes : SUBSET Scopes]
NoGrant == [status |-> "absent", scopes |-> {}]
NoCredential == [app |-> NoApp, status |-> "revoked", purpose |-> "standard",
                 expires |-> 0, key |-> NoApp, secret |-> 0]
Exists(c) == credential[c].app # NoApp

\* No environments stands for all of them (schema.prisma:230).
NoProduct == [exists |-> FALSE, active |-> FALSE, scopes |-> {},
              proxies |-> {}, environments |-> {}]

Idle == [op |-> "idle"]
Requests ==
    {Idle}
    \cup [op : {"insert"}, app : Apps, new : BOOLEAN, credential : Credentials,
          purpose : Purposes \cup {"standard"}, expires : 0 .. Never, grants : [Products -> Grants]]
    \cup [op : {"app"}, app : Apps, to : Statuses]
    \cup [op : {"credential"}, credential : Credentials,
          fields : SUBSET {"status", "expires", "key"},
          to : Statuses, expires : 0 .. Never, key : Keys]
    \cup [op : {"secret"}, credential : Credentials]
    \cup [op : {"grants"}, credential : Credentials,
          grants : [Products -> Grants], revoke : SUBSET Products]
    \cup [op : {"key"}, credential : Credentials, kid : Kids]
    \cup [op : {"product"}, product : Products, fields : SUBSET ProductFields,
          active : BOOLEAN, scopes : SUBSET Scopes,
          proxies : SUBSET Proxies, environments : SUBSET Environments,
          trimmed : SUBSET Credentials, left : [Credentials -> SUBSET Scopes]]

ApplicationTypeOK ==
    /\ appStatus \in [Apps -> Statuses \cup {"absent"}]
    /\ credential \in [Credentials ->
          {NoCredential} \cup
          [app : Apps, status : Statuses, purpose : Purposes \cup {"standard"},
           expires : 0 .. Never, key : Keys, secret : 0 .. MaxSecrets]]
    /\ grant \in [Credentials -> [Products -> Grants]]
    /\ keyStatus \in [Credentials -> [Kids -> Statuses \cup {"absent"}]]
    /\ product \in [Products -> [exists : BOOLEAN, active : BOOLEAN, scopes : SUBSET Scopes,
                                 proxies : SUBSET Proxies, environments : SUBSET Environments]]
    /\ tx \in [Sessions -> Requests]
    /\ now \in 0 .. MaxTime
    /\ clean \in BOOLEAN

ApplicationInit ==
    /\ appStatus = [a \in Apps |-> "absent"]
    /\ credential = [c \in Credentials |-> NoCredential]
    /\ grant = [c \in Credentials |-> [p \in Products |-> NoGrant]]
    /\ keyStatus = [c \in Credentials |-> [k \in Kids |-> "absent"]]
    /\ product = [p \in Products |-> NoProduct]
    /\ tx = [s \in Sessions |-> Idle]
    /\ now = 0
    /\ clean = TRUE

-----------------------------------------------------------------------------
\* Mutant: only unknown statuses are refused.
anyTransition(from, to) == from \in Statuses

validateStatusTransition(from, to) == from = to \/ <<from, to>> = <<"approved", "revoked">>

\* A session starts a request: r is what its transaction decides to write.
Begin(s, r) ==
    /\ tx' = [tx EXCEPT ![s] = r]
    /\ UNCHANGED <<rows, now>>

\* canManageOrganization for an organization of the expected kind.
MayManage(s, o) == o \in Manages[s]

\* Ids are generated: no row and no other transaction has them.
FreshCredential(c) ==
    /\ ~Exists(c)
    /\ \A s \in Sessions : tx[s].op = "insert" => tx[s].credential # c
FreshApp(a) ==
    /\ appStatus[a] = "absent"
    /\ \A s \in Sessions : tx[s].op = "insert" => tx[s].app # a

\* What a request may ask for: scopes for each of some products.
Requested == UNION {[P -> SUBSET Scopes] : P \in SUBSET Products}

\* The products exist, are active, are of the organization and declare the scopes.
Grantable(R, o) ==
    \A p \in DOMAIN R :
        /\ product[p].exists
        /\ product[p].active
        /\ OrgOf[p] = o
        /\ R[p] \subseteq product[p].scopes

Approved(R) == [p \in Products |->
    IF p \in DOMAIN R THEN [status |-> "approved", scopes |-> R[p]] ELSE NoGrant]

Insert(s, a, new, c, purpose, expires, grants) ==
    /\ FreshCredential(c)
    /\ Begin(s, [op |-> "insert", app |-> a, new |-> new, credential |-> c,
                 purpose |-> purpose, expires |-> expires, grants |-> grants])

registerDeveloperApplication(s, a, c, R, purpose) ==
    /\ DOMAIN R # {}
    /\ Grantable(R, OrgOf[a])
    /\ FreshApp(a)
    /\ Insert(s, a, TRUE, c, purpose, Never, Approved(R))

createManagedCredential(s, a, c, R, purpose, expires) ==
    /\ DOMAIN R # {}
    /\ appStatus[a] = "approved"
    /\ Grantable(R, OrgOf[a])
    /\ Insert(s, a, FALSE, c, purpose, expires, Approved(R))

\* The expiry of a clone: for the playground, within an hour and no later than
\* the source's; otherwise the source's, a choice being refused.
resolveCloneExpiration(purpose, sourceExpires) ==
    IF purpose = "playground"
    THEN {t \in Expiries \cup {sourceExpires, now + PlaygroundLife} :
              now < t /\ t <= now + PlaygroundLife /\ t <= sourceExpires}
    ELSE {sourceExpires}

cloneManagedCredential(s, source, c, purpose) ==
    LET granted == {p \in Products : grant[source][p].status = "approved"} IN
    /\ Exists(source)
    /\ credential[source].status = "approved"
    /\ appStatus[credential[source].app] = "approved"
    /\ credential[source].expires > now
    /\ granted # {}
    /\ \E t \in resolveCloneExpiration(purpose, credential[source].expires) :
          Insert(s, credential[source].app, FALSE, c, purpose, t,
                 [p \in Products |-> IF p \in granted THEN grant[source][p] ELSE NoGrant])

updateDeveloperApplication(s, a, to) ==
    /\ appStatus[a] # "absent"
    /\ validateStatusTransition(appStatus[a], to)
    /\ Begin(s, [op |-> "app", app |-> a, to |-> to])

\* The fields of the body; those left out do not matter and have a fixed value.
updateManagedCredential(s, c, fields, to, expires, key) ==
    /\ Exists(c)
    /\ fields # {}
    /\ "status" \in fields => validateStatusTransition(credential[c].status, to)
    /\ "status" \notin fields => to = "approved"
    /\ "expires" \notin fields => expires = Never
    /\ "key" \notin fields => key = c
    /\ Begin(s, [op |-> "credential", credential |-> c, fields |-> fields,
                 to |-> to, expires |-> expires, key |-> key])

\* Neither the credential nor its app is revoked.
NotRevoked(c) ==
    Exists(c) /\ credential[c].status = "approved" /\ appStatus[credential[c].app] = "approved"

rotateManagedConsumerSecret(s, c) ==
    /\ NotRevoked(c)
    /\ credential[c].secret < MaxSecrets
    /\ Begin(s, [op |-> "secret", credential |-> c])

\* Mutant: a revoked credential may be given grants.
replaceGrantsOfAny(s, c, R) ==
    /\ Exists(c)
    /\ Grantable(R, OrgOf[credential[c].app])
    /\ Begin(s, [op |-> "grants", credential |-> c, grants |-> Approved(R),
                 revoke |-> {p \in Products \ DOMAIN R : grant[c][p].status = "approved"}])

\* Mutant: the grants that were left out stay as they are.
replaceWithoutRevoking(s, c, R) ==
    /\ NotRevoked(c)
    /\ Grantable(R, OrgOf[credential[c].app])
    /\ Begin(s, [op |-> "grants", credential |-> c, grants |-> Approved(R), revoke |-> {}])

\* The grants to revoke are chosen among those read here.
replaceManagedCredentialGrants(s, c, R) ==
    /\ NotRevoked(c)
    /\ Grantable(R, OrgOf[credential[c].app])
    /\ Begin(s, [op |-> "grants", credential |-> c, grants |-> Approved(R),
                 revoke |-> {p \in Products \ DOMAIN R : grant[c][p].status = "approved"}])

registerManagedPublicKey(s, c, k) ==
    /\ NotRevoked(c)
    /\ Begin(s, [op |-> "key", credential |-> c, kid |-> k])

\* The update is by id and says revoked, whatever was read.
revokeManagedPublicKey(c, k) ==
    /\ keyStatus[c][k] # "absent"
    /\ keyStatus' = [keyStatus EXCEPT ![c][k] = "revoked"]
    /\ UNCHANGED <<appStatus, credential, grant, product, tx, now>>

-----------------------------------------------------------------------------
\* ApplicationService: who may ask for it, then the transaction.
register(s, a, c, R, purpose) ==
    MayManage(s, OrgOf[a]) /\ registerDeveloperApplication(s, a, c, R, purpose)

update(s, a, to) ==
    MayManage(s, OrgOf[a]) /\ updateDeveloperApplication(s, a, to)

\* Only a clone may be for the playground.
createCredential(s, a) ==
    /\ MayManage(s, OrgOf[a])
    /\ \E c \in Credentials, purpose \in Purposes :
          \/ \E source \in Credentials :
                /\ credential[source].app = a
                /\ cloneManagedCredential(s, source, c, purpose)
          \/ \E R \in Requested, expires \in Expiries :
                /\ purpose # "playground"
                /\ createManagedCredential(s, a, c, R, purpose, expires)

\* The organization of an existing credential is one the session manages.
MayManageCredential(s, c) == Exists(c) /\ MayManage(s, OrgOf[credential[c].app])

updateCredential(s, c) ==
    /\ MayManageCredential(s, c)
    /\ \E fields \in SUBSET {"status", "expires", "key"}, to \in Statuses,
          expires \in Expiries \cup {Never},
          key \in CustomKeys \cup {d \in Credentials : d = c \/ Exists(d)} :
             updateManagedCredential(s, c, fields, to, expires, key)

rotateCredential(s, c) ==
    MayManageCredential(s, c) /\ rotateManagedConsumerSecret(s, c)

replaceCredentialGrants(s, c, R) ==
    MayManageCredential(s, c) /\ replaceManagedCredentialGrants(s, c, R)

registerPublicKey(s, c, k) ==
    MayManageCredential(s, c) /\ registerManagedPublicKey(s, c, k)

revokePublicKey(s, c, k) ==
    /\ MayManageCredential(s, c)
    /\ revokeManagedPublicKey(c, k)

-----------------------------------------------------------------------------
\* Mutant: the proxies only have to be of an organization of the same kind.
validateKind(p, proxies) == proxies \subseteq Proxies

\* The proxies of a product are of its organization.
validateRelations(p, proxies) == \A x \in proxies : OrgOf[x] = OrgOf[p]

createProduct(s, p, active, scopes, proxies, environments) ==
    /\ ~product[p].exists
    /\ MayManage(s, OrgOf[p])
    /\ validateRelations(p, proxies)
    /\ product' = [product EXCEPT ![p] =
          [exists |-> TRUE, active |-> active, scopes |-> scopes,
           proxies |-> proxies, environments |-> environments]]
    /\ UNCHANGED <<appStatus, credential, grant, keyStatus, tx, now>>

\* Mutant: grants keep the scopes the product loses.
updateWithoutTrimming(s, p, fields, active, scopes, proxies, environments) ==
    /\ product[p].exists
    /\ MayManage(s, OrgOf[p])
    /\ fields # {}
    /\ "proxies" \in fields => validateRelations(p, proxies)
    /\ Begin(s, [op |-> "product", product |-> p, fields |-> fields, active |-> active,
                 scopes |-> scopes, proxies |-> proxies, environments |-> environments, trimmed |-> {},
                 left |-> [c \in Credentials |-> {}]])

\* The scopes each grant keeps are computed from the grants read here.
updateProduct(s, p, fields, active, scopes, proxies, environments) ==
    /\ product[p].exists
    /\ MayManage(s, OrgOf[p])
    /\ fields # {}
    /\ "active" \notin fields => active
    /\ "scopes" \notin fields => scopes = {}
    /\ "proxies" \notin fields => proxies = {}
    /\ "environments" \notin fields => environments = {}
    /\ "proxies" \in fields => validateRelations(p, proxies)
    /\ LET trimmed == {c \in Credentials :
               "scopes" \in fields /\ grant[c][p].status # "absent"
                   /\ ~(grant[c][p].scopes \subseteq scopes)}
       IN Begin(s, [op |-> "product", product |-> p, fields |-> fields, active |-> active,
                    scopes |-> scopes, proxies |-> proxies, environments |-> environments,
                    trimmed |-> trimmed,
                    left |-> [c \in Credentials |->
                        IF c \in trimmed THEN grant[c][p].scopes \cap scopes ELSE {}]])

-----------------------------------------------------------------------------
Done(s) == tx' = [tx EXCEPT ![s] = Idle] /\ UNCHANGED now

\* The rows of a new credential, and of a new app for register.
CommitCredential(s) ==
    LET r == tx[s] IN
    /\ r.op = "insert"
    /\ appStatus' = IF r.new THEN [appStatus EXCEPT ![r.app] = "approved"] ELSE appStatus
    /\ credential' = [credential EXCEPT ![r.credential] =
          [app |-> r.app, status |-> "approved", purpose |-> r.purpose,
           expires |-> r.expires, key |-> r.credential, secret |-> 0]]
    /\ grant' = [grant EXCEPT ![r.credential] = r.grants]
    /\ Done(s)
    /\ UNCHANGED <<keyStatus, product>>

CommitApp(s) ==
    /\ tx[s].op = "app"
    /\ appStatus' = [appStatus EXCEPT ![tx[s].app] = tx[s].to]
    /\ Done(s)
    /\ UNCHANGED <<credential, grant, keyStatus, product>>

\* The unique index on consumer keys refuses one in use.
CommitUpdate(s) ==
    LET r == tx[s] IN
    /\ r.op = "credential"
    /\ "key" \in r.fields =>
          \A c \in Credentials \ {r.credential} : Exists(c) => credential[c].key # r.key
    /\ credential' = [credential EXCEPT ![r.credential] =
          [credential[r.credential] EXCEPT
              !.status = IF "status" \in r.fields THEN r.to ELSE @,
              !.expires = IF "expires" \in r.fields THEN r.expires ELSE @,
              !.key = IF "key" \in r.fields THEN r.key ELSE @]]
    /\ Done(s)
    /\ UNCHANGED <<appStatus, grant, keyStatus, product>>

CommitSecret(s) ==
    /\ tx[s].op = "secret"
    /\ credential[tx[s].credential].secret < MaxSecrets
    /\ credential' = [credential EXCEPT ![tx[s].credential].secret = @ + 1]
    /\ Done(s)
    /\ UNCHANGED <<appStatus, grant, keyStatus, product>>

CommitGrants(s) ==
    LET r == tx[s] IN
    /\ r.op = "grants"
    /\ grant' = [grant EXCEPT ![r.credential] = [p \in Products |->
          IF r.grants[p].status = "approved" THEN r.grants[p]
          ELSE IF p \in r.revoke THEN [@[p] EXCEPT !.status = "revoked"]
          ELSE @[p]]]
    /\ Done(s)
    /\ UNCHANGED <<appStatus, credential, keyStatus, product>>

\* The unique index on kids refuses one the credential already has.
CommitKey(s) ==
    LET r == tx[s] IN
    /\ r.op = "key"
    /\ keyStatus[r.credential][r.kid] = "absent"
    /\ keyStatus' = [keyStatus EXCEPT ![r.credential][r.kid] = "approved"]
    /\ Done(s)
    /\ UNCHANGED <<appStatus, credential, grant, product>>

\* Trimmed grants get the scopes computed when they were read.
CommitProduct(s) ==
    LET r == tx[s] IN
    /\ r.op = "product"
    /\ grant' = [c \in Credentials |-> IF c \in r.trimmed
          THEN [grant[c] EXCEPT ![r.product].scopes = r.left[c]] ELSE grant[c]]
    /\ product' = [product EXCEPT ![r.product] =
          [product[r.product] EXCEPT
              !.active = IF "active" \in r.fields THEN r.active ELSE @,
              !.scopes = IF "scopes" \in r.fields THEN r.scopes ELSE @,
              !.proxies = IF "proxies" \in r.fields THEN r.proxies ELSE @,
              !.environments = IF "environments" \in r.fields THEN r.environments ELSE @]]
    /\ Done(s)
    /\ UNCHANGED <<appStatus, credential, keyStatus>>

\* The transaction is rolled back: a conflict, a deadlock, a lost connection.
Abandon(s) ==
    /\ tx[s] # Idle
    /\ Done(s)
    /\ UNCHANGED rows

Tick ==
    /\ now < MaxTime
    /\ now' = now + 1
    /\ UNCHANGED <<rows, tx>>

Commits(s) ==
    \/ CommitCredential(s) \/ CommitApp(s) \/ CommitUpdate(s) \/ CommitSecret(s)
    \/ CommitGrants(s) \/ CommitKey(s) \/ CommitProduct(s)

ApplicationRequests(s) ==
    /\ tx[s] = Idle
    /\ \/ \E a \in Apps, c \in Credentials, R \in Requested, purpose \in Purposes \ {"playground"} :
             register(s, a, c, R, purpose)
       \/ \E a \in Apps, to \in Statuses : update(s, a, to)
       \/ \E a \in Apps : createCredential(s, a)
       \/ \E c \in Credentials : updateCredential(s, c)
       \/ \E c \in Credentials : rotateCredential(s, c)
       \/ \E c \in Credentials, R \in Requested : replaceCredentialGrants(s, c, R)
       \/ \E c \in Credentials, k \in Kids : registerPublicKey(s, c, k)
       \/ \E c \in Credentials, k \in Kids : revokePublicKey(s, c, k)
       \/ \E p \in Products, active \in BOOLEAN, scopes \in SUBSET Scopes,
             proxies \in SUBSET Proxies, environments \in SUBSET Environments :
             \/ createProduct(s, p, active, scopes, proxies, environments)
             \/ \E fields \in ProductUpdates :
                   updateProduct(s, p, fields, active, scopes, proxies, environments)

\* No other session has a transaction under way.
Alone(s) == \A u \in Sessions \ {s} : tx[u] = Idle

ApplicationNext ==
    \/ \E s \in Sessions :
          /\ ApplicationRequests(s) \/ Commits(s) \/ Abandon(s)
          /\ clean' = (clean /\ (UNCHANGED rows \/ Alone(s)))
    \/ Tick /\ UNCHANGED clean

ApplicationSpec == ApplicationInit /\ [][ApplicationNext]_applicationVars

-----------------------------------------------------------------------------
\* Grants join credentials and products of one organization, and products
\* bundle proxies of their own, whatever requests of other organizations run
\* beside: the gateway trusts these rows for authorization.
OrganizationsStaySeparate ==
    /\ \A c \in Credentials, p \in Products :
          grant[c][p].status # "absent" => Exists(c) /\ OrgOf[credential[c].app] = OrgOf[p]
    /\ \A p \in Products : \A x \in product[p].proxies : OrgOf[x] = OrgOf[p]

\* A revoked application no request is about to approve.
SettledApp(a) ==
    /\ appStatus[a] = "revoked"
    /\ \A s \in Sessions : tx[s].op = "app" /\ tx[s].app = a => tx[s].to = "revoked"

\* A revoked application is final as soon as no approval that overlapped the
\* revocation is left: the check of a status read earlier does not reopen it.
RevocationSettles ==
    [][\A a \in Apps : SettledApp(a) => SettledApp(a)']_applicationVars

\* A revoked credential with no request on it under way.
SettledCredential(c) ==
    /\ Exists(c)
    /\ credential[c].status = "revoked"
    /\ \A s \in Sessions : tx[s].op \in {"credential", "secret", "grants", "key"} /\ tx[s].credential = c
          => tx[s].op = "credential" /\ ("status" \in tx[s].fields => tx[s].to = "revoked")

\* Once its last overlapping request is over, a revoked credential stays
\* revoked and is given no secret, key, grant or scope.  One exception: a
\* product update that overlapped may still write the scopes it left to a grant
\* when it read it, though the grant has lost them since (products.ts:263).
RevokedIsInert ==
    [][\A c \in Credentials : SettledCredential(c) =>
          /\ SettledCredential(c)'
          /\ credential'[c].secret = credential[c].secret
          /\ \A k \in Kids : keyStatus'[c][k] = "approved" => keyStatus[c][k] = "approved"
          /\ \A p \in Products :
                /\ grant'[c][p].status = grant[c][p].status
                /\ \/ grant'[c][p].scopes \subseteq grant[c][p].scopes
                   \/ \E s \in Sessions :
                        tx[s].op = "product" /\ tx[s].product = p /\ c \in tx[s].trimmed]_applicationVars

\* Removing scopes from a product trims its grants: none holds a scope the
\* product does not declare, to come back when the product declares it again.
\* That is so until rows change beside a transaction that read them.  The rows
\* have their types throughout.
GrantScopesDeclared ==
    /\ ApplicationTypeOK
    /\ clean => \A c \in Credentials, p \in Products :
                   grant[c][p].scopes \subseteq product[p].scopes

\* When a replacement of grants that overlapped nothing has succeeded, exactly
\* the products it asked for are approved: included grants become approved,
\* omitted ones revoked.
ReplacementIsExact ==
    [][\A s \in Sessions : CommitGrants(s) /\ clean' =>
          LET r == tx[s] IN
          {p \in Products : grant'[r.credential][p].status = "approved"}
              = {p \in Products : r.grants[p].status = "approved"}]_applicationVars
=============================================================================
