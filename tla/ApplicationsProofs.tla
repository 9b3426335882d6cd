-------------------------- MODULE ApplicationsProofs --------------------------
(***************************************************************************)
(* Proofs about Applications, for every set of organizations, rows and     *)
(* sessions.                                                               *)
(*                                                                         *)
(* A transaction writes what it decided on rows read earlier.  What it     *)
(* decided is therefore kept in two parts: what stays true of it whatever  *)
(* others commit (Decided), because rows are never removed and never       *)
(* change hands, and what is true only until the rows change beside it     *)
(* (DecidedNow).                                                           *)
(***************************************************************************)
EXTENDS Applications, TLAPS

InsertRequests ==
    [op : {"insert"}, app : Apps, new : BOOLEAN, credential : Credentials,
     purpose : Purposes \cup {"standard"}, expires : 0 .. Never, grants : [Products -> Grants]]
AppRequests == [op : {"app"}, app : Apps, to : Statuses]
CredentialRequests ==
    [op : {"credential"}, credential : Credentials,
     fields : SUBSET {"status", "expires", "key"},
     to : Statuses, expires : 0 .. Never, key : Keys]
SecretRequests == [op : {"secret"}, credential : Credentials]
GrantsRequests ==
    [op : {"grants"}, credential : Credentials,
     grants : [Products -> Grants], revoke : SUBSET Products]
KeyRequests == [op : {"key"}, credential : Credentials, kid : Kids]
ProductRequests ==
    [op : {"product"}, product : Products, fields : SUBSET ProductFields,
     active : BOOLEAN, scopes : SUBSET Scopes,
     proxies : SUBSET Proxies, environments : SUBSET Environments,
     trimmed : SUBSET Credentials, left : [Credentials -> SUBSET Scopes]]

CredentialRows ==
    [app : Apps, status : Statuses, purpose : Purposes \cup {"standard"},
     expires : 0 .. Never, key : Keys, secret : 0 .. MaxSecrets]
ProductRows ==
    [exists : BOOLEAN, active : BOOLEAN, scopes : SUBSET Scopes,
     proxies : SUBSET Proxies, environments : SUBSET Environments]

LEMMA RequestKinds ==
    Requests = {Idle} \cup InsertRequests \cup AppRequests \cup CredentialRequests
               \cup SecretRequests \cup GrantsRequests \cup KeyRequests \cup ProductRequests
BY DEF Requests, InsertRequests, AppRequests, CredentialRequests, SecretRequests,
       GrantsRequests, KeyRequests, ProductRequests

\* The operation of a request says of which kind it is.
LEMMA KindByOp ==
    ASSUME NEW r \in Requests
    PROVE  /\ r.op = "insert" => r \in InsertRequests
           /\ r.op = "app" => r \in AppRequests
           /\ r.op = "credential" => r \in CredentialRequests
           /\ r.op = "secret" => r \in SecretRequests
           /\ r.op = "grants" => r \in GrantsRequests
           /\ r.op = "key" => r \in KeyRequests
           /\ r.op = "product" => r \in ProductRequests
<1>1. r = Idle => r.op = "idle"
  BY DEF Idle
<1>2. /\ r \in InsertRequests => r.op = "insert"
      /\ r \in AppRequests => r.op = "app"
      /\ r \in CredentialRequests => r.op = "credential"
      /\ r \in SecretRequests => r.op = "secret"
      /\ r \in GrantsRequests => r.op = "grants"
      /\ r \in KeyRequests => r.op = "key"
      /\ r \in ProductRequests => r.op = "product"
  BY DEF InsertRequests, AppRequests, CredentialRequests, SecretRequests,
         GrantsRequests, KeyRequests, ProductRequests
<1> QED
  BY <1>1, <1>2, RequestKinds

LEMMA RowTypes ==
    ApplicationTypeOK <=>
        /\ appStatus \in [Apps -> Statuses \cup {"absent"}]
        /\ credential \in [Credentials -> {NoCredential} \cup CredentialRows]
        /\ grant \in [Credentials -> [Products -> Grants]]
        /\ keyStatus \in [Credentials -> [Kids -> Statuses \cup {"absent"}]]
        /\ product \in [Products -> ProductRows]
        /\ tx \in [Sessions -> Requests]
        /\ now \in 0 .. MaxTime
        /\ clean \in BOOLEAN
BY DEF ApplicationTypeOK, CredentialRows, ProductRows

\* A row that exists is a row; a row has an app.
LEMMA ExistingRows ==
    ASSUME ApplicationTypeOK, NEW c \in Credentials
    PROVE  /\ Exists(c) => credential[c] \in CredentialRows
           /\ credential[c] \in CredentialRows => Exists(c) /\ credential[c].app \in Apps
<1>1. credential[c] \in {NoCredential} \cup CredentialRows
  BY RowTypes
<1>2. credential[c] = NoCredential => ~Exists(c)
  BY DEF Exists, NoCredential
<1>3. credential[c] \in CredentialRows => Exists(c) /\ credential[c].app \in Apps
  BY ApplicationAssumption DEF Exists, CredentialRows
<1> QED
  BY <1>1, <1>2, <1>3

-----------------------------------------------------------------------------
(* The inductive invariant *)

\* Rows that were never granted hold no scopes, nor do products not created.
NothingBefore ==
    /\ \A c \in Credentials, p \in Products : grant[c][p].status = "absent" => grant[c][p].scopes = {}
    /\ \A p \in Products : ~product[p].exists => product[p].scopes = {}

\* What a transaction has decided, whatever happens to the rows beside it.
Decided(r) ==
    /\ r.op = "insert" =>
          /\ ~Exists(r.credential)
          /\ IF r.new THEN appStatus[r.app] = "absent" ELSE appStatus[r.app] # "absent"
          /\ \A p \in Products : IF r.grants[p].status = "absent" THEN r.grants[p].scopes = {}
                                 ELSE OrgOf[r.app] = OrgOf[p]
    /\ r.op = "app" => appStatus[r.app] # "absent"
    /\ r.op \in {"credential", "secret", "grants", "key"} => Exists(r.credential)
    /\ r.op = "grants" =>
          \A p \in Products : r.grants[p].status = "approved" \/ p \in r.revoke =>
                                  OrgOf[credential[r.credential].app] = OrgOf[p]
    /\ r.op = "product" =>
          /\ product[r.product].exists
          /\ "proxies" \in r.fields => \A x \in r.proxies : OrgOf[x] = OrgOf[r.product]
          /\ \A c \in r.trimmed : "scopes" \in r.fields /\ grant[c][r.product].status # "absent"
                                      /\ r.left[c] \subseteq r.scopes

\* What it has decided holds of the rows as they are.
DecidedNow(r) ==
    /\ r.op \in {"insert", "grants"} =>
          \A p \in Products : r.grants[p].scopes \subseteq product[p].scopes
    /\ r.op = "grants" =>
          \A p \in Products : grant[r.credential][p].status = "approved" =>
                                  r.grants[p].status = "approved" \/ p \in r.revoke
    /\ r.op = "product" /\ "scopes" \in r.fields =>
          \A c \in Credentials \ r.trimmed : grant[c][r.product].scopes \subseteq r.scopes

\* Ids are generated once.
Distinct ==
    \A s, u \in Sessions : s # u /\ tx[s].op = "insert" /\ tx[u].op = "insert" =>
        /\ tx[s].credential # tx[u].credential
        /\ tx[s].new /\ tx[u].new => tx[s].app # tx[u].app

ScopesDeclared ==
    \A c \in Credentials, p \in Products : grant[c][p].scopes \subseteq product[p].scopes

ApplicationInv ==
    /\ ApplicationTypeOK
    /\ OrganizationsStaySeparate
    /\ NothingBefore
    /\ Distinct
    /\ \A s \in Sessions : Decided(tx[s])
    /\ clean => ScopesDeclared /\ \A s \in Sessions : DecidedNow(tx[s])

LEMMA ApplicationInitially == ApplicationInit => ApplicationInv
<1> SUFFICES ASSUME ApplicationInit PROVE ApplicationInv
  OBVIOUS
<1> USE DEF ApplicationInit
<1>1. Idle \in Requests /\ Idle.op = "idle"
  BY DEF Requests, Idle
<1>2. NoGrant \in Grants /\ NoGrant.status = "absent" /\ NoGrant.scopes = {}
  BY DEF NoGrant, Grants, Statuses
<1>3. NoProduct \in ProductRows /\ NoProduct.scopes = {} /\ NoProduct.proxies = {}
  BY DEF NoProduct, ProductRows
<1>4. 0 \in 0 .. MaxTime
  BY ApplicationAssumption
<1>5. ApplicationTypeOK
  BY <1>1, <1>2, <1>3, <1>4, RowTypes
<1>6. OrganizationsStaySeparate /\ NothingBefore /\ ScopesDeclared
  BY <1>2, <1>3 DEF OrganizationsStaySeparate, NothingBefore, ScopesDeclared
<1>7. Distinct /\ \A s \in Sessions : Decided(tx[s]) /\ DecidedNow(tx[s])
  BY <1>1 DEF Distinct, Decided, DecidedNow
<1> QED
  BY <1>5, <1>6, <1>7 DEF ApplicationInv

-----------------------------------------------------------------------------
(* Requests that begin *)

\* What a request has checked of the statuses as they are.
Validated(r) ==
    /\ r.op = "app" => validateStatusTransition(appStatus[r.app], r.to)
    /\ r.op = "credential" /\ "status" \in r.fields =>
          validateStatusTransition(credential[r.credential].status, r.to)
    /\ r.op \in {"secret", "grants", "key"} => NotRevoked(r.credential)

\* A request may begin if it is one, is decided, validated, and takes new ids.
Beginnable(s, r) ==
    /\ r \in Requests /\ Decided(r) /\ Validated(r)
    /\ clean => DecidedNow(r)
    /\ r.op = "insert" => \A u \in Sessions : tx[u].op = "insert" =>
          /\ tx[u].credential # r.credential
          /\ r.new => tx[u].app # r.app
          /\ tx[u].new => tx[u].app # r.app

LEMMA BeginKeeps ==
    ASSUME ApplicationInv, NEW s \in Sessions, NEW r, Beginnable(s, r), Begin(s, r),
           clean' = clean
    PROVE  ApplicationInv'
<1>1. /\ tx' = [tx EXCEPT ![s] = r] /\ UNCHANGED <<rows, now, clean>>
  BY DEF Begin
<1>2. tx \in [Sessions -> Requests] /\ r \in Requests
  BY RowTypes DEF ApplicationInv, Beginnable
<1>3. /\ tx' \in [Sessions -> Requests] /\ tx'[s] = r
      /\ \A u \in Sessions \ {s} : tx'[u] = tx[u]
  BY <1>1, <1>2
<1>4. ApplicationTypeOK'
  BY <1>1, <1>3, RowTypes DEF ApplicationInv, ApplicationTypeOK, rows
<1>5. (OrganizationsStaySeparate /\ NothingBefore)' /\ ScopesDeclared' = ScopesDeclared
  BY <1>1 DEF ApplicationInv, OrganizationsStaySeparate, NothingBefore, ScopesDeclared, Exists, rows
<1>6. ASSUME NEW u \in Sessions PROVE Decided(tx[u])' /\ (clean => DecidedNow(tx[u])')
  <2>1. CASE u = s
    <3>1. Decided(r) /\ (clean => DecidedNow(r)) /\ tx'[u] = r
      BY <1>3, <2>1 DEF Beginnable
    <3>2. Decided(tx[u])'
      BY <1>1, <3>1 DEF Decided, Exists, rows
    <3>3. clean => DecidedNow(tx[u])'
      BY <1>1, <3>1 DEF DecidedNow, rows
    <3> QED
      BY <3>2, <3>3
  <2>2. CASE u # s
    <3>1. Decided(tx[u]) /\ (clean => DecidedNow(tx[u])) /\ tx'[u] = tx[u]
      BY <1>3, <2>2 DEF ApplicationInv
    <3>2. Decided(tx[u])'
      BY <1>1, <3>1 DEF Decided, Exists, rows
    <3>3. clean => DecidedNow(tx[u])'
      BY <1>1, <3>1 DEF DecidedNow, rows
    <3> QED
      BY <3>2, <3>3
  <2> QED
    BY <2>1, <2>2
<1>7. Distinct'
  BY <1>3 DEF ApplicationInv, Distinct, Beginnable
<1> QED
  BY <1>1, <1>4, <1>5, <1>6, <1>7 DEF ApplicationInv

-----------------------------------------------------------------------------
(* Each request is beginnable *)

LEMMA NeverNat == Never \in Nat /\ \A t \in 0 .. Never : t \in Nat /\ t <= Never
BY ApplicationAssumption DEF Never

\* What is requested, as grants.
LEMMA RequestedGrants ==
    ASSUME NEW R \in Requested
    PROVE  /\ DOMAIN R \subseteq Products
           /\ Approved(R) \in [Products -> Grants]
           /\ \A p \in Products :
                 /\ p \in DOMAIN R => Approved(R)[p].status = "approved" /\ Approved(R)[p].scopes = R[p]
                 /\ p \notin DOMAIN R => Approved(R)[p] = NoGrant
<1>1. PICK P \in SUBSET Products : R \in [P -> SUBSET Scopes]
  BY DEF Requested
<1>2. NoGrant \in Grants
  BY DEF NoGrant, Grants, Statuses
<1>3. \A p \in DOMAIN R : R[p] \in SUBSET Scopes
  BY <1>1
<1> QED
  BY <1>1, <1>2, <1>3 DEF Approved, Grants, Statuses

LEMMA GrantableGrants ==
    ASSUME NEW R \in Requested, NEW o, Grantable(R, o), NothingBefore
    PROVE  \A p \in Products :
              /\ Approved(R)[p].scopes \subseteq product[p].scopes
              /\ Approved(R)[p].status = "absent" => Approved(R)[p].scopes = {}
              /\ Approved(R)[p].status # "absent" => OrgOf[p] = o
              /\ Approved(R)[p].status = "approved" <=> p \in DOMAIN R
<1>1. NoGrant.scopes = {} /\ NoGrant.status = "absent"
  BY DEF NoGrant
<1> QED
  BY <1>1, RequestedGrants DEF Grantable

\* A credential that is made, with new ids and granted as it may be.
LEMMA InsertBeginnable ==
    ASSUME ApplicationInv, NEW s \in Sessions, NEW a \in Apps, NEW new \in BOOLEAN,
           NEW c \in Credentials, NEW purpose \in Purposes \cup {"standard"},
           NEW expires \in 0 .. Never, NEW grants \in [Products -> Grants],
           Insert(s, a, new, c, purpose, expires, grants),
           IF new THEN FreshApp(a) ELSE appStatus[a] # "absent",
           \A p \in Products :
              /\ IF grants[p].status = "absent" THEN grants[p].scopes = {} ELSE OrgOf[a] = OrgOf[p]
              /\ clean => grants[p].scopes \subseteq product[p].scopes
    PROVE  \E r : Beginnable(s, r) /\ Begin(s, r)
<1> DEFINE r == [op |-> "insert", app |-> a, new |-> new, credential |-> c,
                 purpose |-> purpose, expires |-> expires, grants |-> grants]
<1>1. r \in Requests
  BY RequestKinds DEF InsertRequests
<1>2. Decided(r) /\ Validated(r)
  BY DEF Insert, FreshCredential, FreshApp, Decided, Validated
<1>3. clean => DecidedNow(r)
  BY DEF DecidedNow
<1>4. ASSUME NEW u \in Sessions, tx[u].op = "insert"
      PROVE  /\ tx[u].credential # c
             /\ new => tx[u].app # a
             /\ tx[u].new => tx[u].app # a
  <2>1. tx[u].credential # c /\ (new => tx[u].app # a)
    BY <1>4 DEF Insert, FreshCredential, FreshApp
  <2>2. tx[u].new => appStatus[tx[u].app] = "absent"
    BY <1>4 DEF ApplicationInv, Decided
  <2> QED
    BY <2>1, <2>2
<1> QED
  BY <1>1, <1>2, <1>3, <1>4 DEF Beginnable, Insert

LEMMA RegisterBegins ==
    ASSUME ApplicationInv, NEW s \in Sessions, NEW a \in Apps, NEW c \in Credentials,
           NEW R \in Requested, NEW purpose \in Purposes, register(s, a, c, R, purpose)
    PROVE  \E r : Beginnable(s, r) /\ Begin(s, r)
<1>1. /\ Grantable(R, OrgOf[a]) /\ FreshApp(a)
      /\ Insert(s, a, TRUE, c, purpose, Never, Approved(R))
  BY DEF register, registerDeveloperApplication
<1>2. Never \in 0 .. Never /\ Approved(R) \in [Products -> Grants]
  BY NeverNat, RequestedGrants
<1>3. \A p \in Products :
          /\ IF Approved(R)[p].status = "absent" THEN Approved(R)[p].scopes = {}
             ELSE OrgOf[a] = OrgOf[p]
          /\ clean => Approved(R)[p].scopes \subseteq product[p].scopes
  BY <1>1, GrantableGrants DEF ApplicationInv
<1> QED
  BY <1>1, <1>2, <1>3, InsertBeginnable

LEMMA CreateBegins ==
    ASSUME ApplicationInv, NEW s \in Sessions, NEW a \in Apps, NEW c \in Credentials,
           NEW R \in Requested, NEW purpose \in Purposes, NEW expires \in Expiries,
           createManagedCredential(s, a, c, R, purpose, expires)
    PROVE  \E r : Beginnable(s, r) /\ Begin(s, r)
<1>1. /\ Grantable(R, OrgOf[a]) /\ appStatus[a] # "absent"
      /\ Insert(s, a, FALSE, c, purpose, expires, Approved(R))
  BY DEF createManagedCredential
<1>2. expires \in 0 .. Never /\ Approved(R) \in [Products -> Grants]
  BY ApplicationAssumption, RequestedGrants
<1>3. \A p \in Products :
          /\ IF Approved(R)[p].status = "absent" THEN Approved(R)[p].scopes = {}
             ELSE OrgOf[a] = OrgOf[p]
          /\ clean => Approved(R)[p].scopes \subseteq product[p].scopes
  BY <1>1, GrantableGrants DEF ApplicationInv
<1> QED
  BY <1>1, <1>2, <1>3, InsertBeginnable

\* A clone keeps the app of its source and the grants approved there.
LEMMA CloneBegins ==
    ASSUME ApplicationInv, NEW s \in Sessions, NEW source \in Credentials,
           NEW c \in Credentials, NEW purpose \in Purposes,
           cloneManagedCredential(s, source, c, purpose)
    PROVE  \E r : Beginnable(s, r) /\ Begin(s, r)
<1> DEFINE a == credential[source].app
<1> DEFINE kept == [p \in Products |->
             IF p \in {q \in Products : grant[source][q].status = "approved"}
             THEN grant[source][p] ELSE NoGrant]
<1>1. Exists(source) /\ appStatus[a] = "approved"
  BY DEF cloneManagedCredential
<1>2. credential[source] \in CredentialRows /\ a \in Apps
  BY <1>1, ExistingRows DEF ApplicationInv
<1>3. credential[source].expires \in 0 .. Never
  BY <1>2 DEF CredentialRows
<1>4. PICK t \in resolveCloneExpiration(purpose, credential[source].expires) :
          Insert(s, a, FALSE, c, purpose, t, kept)
  BY DEF cloneManagedCredential
<1>5. t \in 0 .. Never
  <2>1. CASE purpose = "playground"
    <3>1. \A x \in Expiries : x \in 0 .. Never
      BY ApplicationAssumption
    <3>2. now \in Nat /\ now + PlaygroundLife \in Nat
      BY ApplicationAssumption, RowTypes DEF ApplicationInv
    <3>3. t \in Nat /\ t <= credential[source].expires
      BY <1>3, <1>4, <2>1, <3>1, <3>2 DEF resolveCloneExpiration
    <3> QED
      BY <1>3, <3>3, NeverNat
  <2>2. CASE purpose # "playground"
    BY <1>3, <1>4, <2>2 DEF resolveCloneExpiration
  <2> QED
    BY <2>1, <2>2
<1>6. NoGrant \in Grants /\ NoGrant.status = "absent" /\ NoGrant.scopes = {}
  BY DEF NoGrant, Grants, Statuses
<1>7. grant[source] \in [Products -> Grants]
  BY RowTypes DEF ApplicationInv
<1>8. kept \in [Products -> Grants]
  BY <1>6, <1>7
<1>9. ASSUME NEW p \in Products
      PROVE  /\ IF kept[p].status = "absent" THEN kept[p].scopes = {} ELSE OrgOf[a] = OrgOf[p]
             /\ clean => kept[p].scopes \subseteq product[p].scopes
  <2>1. CASE grant[source][p].status = "approved"
    <3>1. kept[p] = grant[source][p]
      BY <2>1
    <3>2. OrgOf[a] = OrgOf[p]
      BY <2>1 DEF ApplicationInv, OrganizationsStaySeparate
    <3>3. clean => grant[source][p].scopes \subseteq product[p].scopes
      BY DEF ApplicationInv, ScopesDeclared
    <3> QED
      BY <2>1, <3>1, <3>2, <3>3
  <2>2. CASE grant[source][p].status # "approved"
    BY <1>6, <2>2
  <2> QED
    BY <2>1, <2>2
<1> HIDE DEF a, kept
<1> QED
  BY <1>1, <1>2, <1>4, <1>5, <1>8, <1>9, InsertBeginnable

LEMMA CreateCredentialBegins ==
    ASSUME ApplicationInv, NEW s \in Sessions, NEW a \in Apps, createCredential(s, a)
    PROVE  \E r : Beginnable(s, r) /\ Begin(s, r)
BY CreateBegins, CloneBegins DEF createCredential

\* A request of another kind than insert takes no ids.
LEMMA UpdateBegins ==
    ASSUME ApplicationInv, NEW s \in Sessions, NEW a \in Apps, NEW to \in Statuses,
           update(s, a, to)
    PROVE  \E r : Beginnable(s, r) /\ Begin(s, r)
<1> DEFINE r == [op |-> "app", app |-> a, to |-> to]
<1>1. /\ appStatus[a] # "absent" /\ Begin(s, r)
      /\ validateStatusTransition(appStatus[a], to)
  BY DEF update, updateDeveloperApplication
<1>2. r \in Requests
  BY RequestKinds DEF AppRequests
<1>3. Decided(r) /\ Validated(r) /\ DecidedNow(r)
  BY <1>1 DEF Decided, Validated, DecidedNow
<1> QED
  BY <1>1, <1>2, <1>3 DEF Beginnable

LEMMA UpdateCredentialBegins ==
    ASSUME ApplicationInv, NEW s \in Sessions, NEW c \in Credentials, updateCredential(s, c)
    PROVE  \E r : Beginnable(s, r) /\ Begin(s, r)
<1>1. PICK fields \in SUBSET {"status", "expires", "key"}, to \in Statuses,
           expires \in Expiries \cup {Never},
           key \in CustomKeys \cup {d \in Credentials : d = c \/ Exists(d)} :
             updateManagedCredential(s, c, fields, to, expires, key)
  BY DEF updateCredential
<1> DEFINE r == [op |-> "credential", credential |-> c, fields |-> fields,
                 to |-> to, expires |-> expires, key |-> key]
<1>2. /\ Exists(c) /\ Begin(s, r)
      /\ "status" \in fields => validateStatusTransition(credential[c].status, to)
  BY <1>1 DEF updateManagedCredential
<1>3. expires \in 0 .. Never /\ key \in Keys
  BY ApplicationAssumption, NeverNat DEF Keys
<1>4. r \in Requests
  BY <1>3, RequestKinds DEF CredentialRequests
<1>5. Decided(r) /\ Validated(r) /\ DecidedNow(r)
  BY <1>2 DEF Decided, Validated, DecidedNow
<1> QED
  BY <1>2, <1>4, <1>5 DEF Beginnable

LEMMA RotateBegins ==
    ASSUME ApplicationInv, NEW s \in Sessions, NEW c \in Credentials, rotateCredential(s, c)
    PROVE  \E r : Beginnable(s, r) /\ Begin(s, r)
<1> DEFINE r == [op |-> "secret", credential |-> c]
<1>1. Exists(c) /\ NotRevoked(c) /\ Begin(s, r)
  BY DEF rotateCredential, rotateManagedConsumerSecret, NotRevoked
<1>2. r \in Requests
  BY RequestKinds DEF SecretRequests
<1>3. Decided(r) /\ Validated(r) /\ DecidedNow(r)
  BY <1>1 DEF Decided, Validated, DecidedNow
<1> QED
  BY <1>1, <1>2, <1>3 DEF Beginnable

LEMMA RegisterKeyBegins ==
    ASSUME ApplicationInv, NEW s \in Sessions, NEW c \in Credentials, NEW k \in Kids,
           registerPublicKey(s, c, k)
    PROVE  \E r : Beginnable(s, r) /\ Begin(s, r)
<1> DEFINE r == [op |-> "key", credential |-> c, kid |-> k]
<1>1. Exists(c) /\ NotRevoked(c) /\ Begin(s, r)
  BY DEF registerPublicKey, registerManagedPublicKey, NotRevoked
<1>2. r \in Requests
  BY RequestKinds DEF KeyRequests
<1>3. Decided(r) /\ Validated(r) /\ DecidedNow(r)
  BY <1>1 DEF Decided, Validated, DecidedNow
<1> QED
  BY <1>1, <1>2, <1>3 DEF Beginnable

LEMMA ReplaceBegins ==
    ASSUME ApplicationInv, NEW s \in Sessions, NEW c \in Credentials, NEW R \in Requested,
           replaceCredentialGrants(s, c, R)
    PROVE  \E r : Beginnable(s, r) /\ Begin(s, r)
<1> DEFINE revoke == {p \in Products \ DOMAIN R : grant[c][p].status = "approved"}
           r == [op |-> "grants", credential |-> c, grants |-> Approved(R), revoke |-> revoke]
<1>1. Exists(c) /\ NotRevoked(c) /\ Grantable(R, OrgOf[credential[c].app]) /\ Begin(s, r)
  BY DEF replaceCredentialGrants, replaceManagedCredentialGrants, NotRevoked
<1>2. Approved(R) \in [Products -> Grants]
  BY RequestedGrants
<1>3. r \in Requests
  BY <1>2, RequestKinds DEF GrantsRequests
<1>4. \A p \in Products :
         /\ Approved(R)[p].scopes \subseteq product[p].scopes
         /\ Approved(R)[p].status = "approved" <=> p \in DOMAIN R
         /\ Approved(R)[p].status = "approved" => OrgOf[p] = OrgOf[credential[c].app]
  BY <1>1, GrantableGrants DEF ApplicationInv
<1>5. \A p \in revoke : OrgOf[credential[c].app] = OrgOf[p]
  BY DEF ApplicationInv, OrganizationsStaySeparate
<1>6. Decided(r) /\ Validated(r)
  BY <1>1, <1>4, <1>5 DEF Decided, Validated
<1>7. DecidedNow(r)
  BY <1>4 DEF DecidedNow
<1> QED
  BY <1>1, <1>3, <1>6, <1>7 DEF Beginnable

LEMMA UpdateProductBegins ==
    ASSUME ApplicationInv, NEW s \in Sessions, NEW p \in Products, NEW active \in BOOLEAN,
           NEW scopes \in SUBSET Scopes,
           NEW proxies \in SUBSET Proxies, NEW environments \in SUBSET Environments,
           NEW fields \in SUBSET ProductFields,
           updateProduct(s, p, fields, active, scopes, proxies, environments)
    PROVE  \E r : Beginnable(s, r) /\ Begin(s, r)
<1> DEFINE trimmed == {c \in Credentials :
               "scopes" \in fields /\ grant[c][p].status # "absent"
                   /\ ~(grant[c][p].scopes \subseteq scopes)}
           left == [c \in Credentials |->
                        IF c \in trimmed THEN grant[c][p].scopes \cap scopes ELSE {}]
           r == [op |-> "product", product |-> p, fields |-> fields, active |-> active,
                 scopes |-> scopes, proxies |-> proxies, environments |-> environments,
                 trimmed |-> trimmed, left |-> left]
<1>1. product[p].exists /\ ("proxies" \in fields => validateRelations(p, proxies)) /\ Begin(s, r)
  BY DEF updateProduct
<1>2. left \in [Credentials -> SUBSET Scopes]
  OBVIOUS
<1>3. r \in Requests
  BY <1>2, RequestKinds DEF ProductRequests
<1>4. \A c \in trimmed : "scopes" \in fields /\ grant[c][p].status # "absent" /\ left[c] \subseteq scopes
  OBVIOUS
<1>5. ASSUME "scopes" \in fields, NEW c \in Credentials \ trimmed
      PROVE  grant[c][p].scopes \subseteq scopes
  BY <1>5 DEF ApplicationInv, NothingBefore
<1>6. Decided(r)
  BY <1>1, <1>4 DEF Decided, validateRelations
<1>7. Validated(r)
  BY DEF Validated
<1>8. DecidedNow(r)
  BY <1>5 DEF DecidedNow
<1> QED
  BY <1>1, <1>3, <1>6, <1>7, <1>8 DEF Beginnable

-----------------------------------------------------------------------------
(* Rows as they grow *)

\* Rows are not removed, and a credential keeps its application.
RowsGrow ==
    /\ \A a \in Apps : appStatus[a] # "absent" => appStatus'[a] # "absent"
    /\ \A c \in Credentials : Exists(c) => credential'[c].app = credential[c].app
    /\ \A c \in Credentials, p \in Products :
          grant[c][p].status # "absent" => grant'[c][p].status # "absent"
    /\ \A p \in Products : product[p].exists => product'[p].exists

\* The ids that a request has generated are still its own.
IdsOpen(u) ==
    tx[u].op = "insert" =>
        /\ credential'[tx[u].credential].app = NoApp
        /\ tx[u].new => appStatus'[tx[u].app] = "absent"

LEMMA DecidedStays ==
    ASSUME ApplicationInv, NEW u \in Sessions, tx'[u] = tx[u], RowsGrow, IdsOpen(u)
    PROVE  Decided(tx[u])'
<1> DEFINE r == tx[u]
<1>1. r \in Requests /\ Decided(r)
  BY RowTypes DEF ApplicationInv
<1>2. ASSUME r.op = "insert"
      PROVE  /\ credential'[r.credential].app = NoApp
             /\ IF r.new THEN appStatus'[r.app] = "absent" ELSE appStatus'[r.app] # "absent"
  <2>1. r \in InsertRequests
    BY <1>1, <1>2, KindByOp
  <2>2. r.app \in Apps
    BY <2>1 DEF InsertRequests
  <2> QED
    BY <1>1, <1>2, <2>2 DEF IdsOpen, RowsGrow, Decided
<1>3. r.op = "app" => appStatus'[r.app] # "absent"
  <2>1. r.op = "app" => r.app \in Apps
    BY <1>1, KindByOp DEF AppRequests
  <2> QED
    BY <1>1, <2>1 DEF RowsGrow, Decided
<1>4. r.op \in {"credential", "secret", "grants", "key"} =>
         credential'[r.credential].app = credential[r.credential].app /\ Exists(r.credential)
  <2>1. r.op \in {"credential", "secret", "grants", "key"} => r.credential \in Credentials
    BY <1>1, KindByOp DEF CredentialRequests, SecretRequests, GrantsRequests, KeyRequests
  <2> QED
    BY <1>1, <2>1 DEF RowsGrow, Decided
<1>5. r.op = "product" =>
         /\ product'[r.product].exists
         /\ \A c \in r.trimmed : grant'[c][r.product].status # "absent"
  <2>1. r.op = "product" => r.product \in Products /\ r.trimmed \subseteq Credentials
    BY <1>1, KindByOp DEF ProductRequests
  <2> QED
    BY <1>1, <2>1 DEF RowsGrow, Decided
<1>6. tx'[u] = r
  OBVIOUS
<1> HIDE DEF r
<1>7. /\ r.op = "insert" =>
            \A p \in Products : IF r.grants[p].status = "absent" THEN r.grants[p].scopes = {}
                                ELSE OrgOf[r.app] = OrgOf[p]
      /\ r.op = "grants" =>
            \A p \in Products : r.grants[p].status = "approved" \/ p \in r.revoke =>
                                    OrgOf[credential'[r.credential].app] = OrgOf[p]
      /\ r.op = "product" =>
            /\ "proxies" \in r.fields => \A x \in r.proxies : OrgOf[x] = OrgOf[r.product]
            /\ \A c \in r.trimmed : "scopes" \in r.fields /\ r.left[c] \subseteq r.scopes
  BY <1>1, <1>4 DEF Decided
<1>8. (r.op \in {"credential", "secret", "grants", "key"}) =>
         credential'[r.credential].app # NoApp
  BY <1>4 DEF Exists
<1> QED
  BY <1>2, <1>3, <1>5, <1>6, <1>7, <1>8 DEF Decided, Exists

\* A step that ends what session s was doing, and what it has to respect.
LEMMA EndKeeps ==
    ASSUME ApplicationInv, NEW s \in Sessions,
           tx'[s] = Idle, \A u \in Sessions \ {s} : tx'[u] = tx[u] /\ IdsOpen(u),
           ApplicationTypeOK', RowsGrow, OrganizationsStaySeparate', NothingBefore',
           clean' = (clean /\ (UNCHANGED rows \/ Alone(s))),
           clean => ScopesDeclared'
    PROVE  ApplicationInv'
<1>1. Idle.op = "idle"
  BY DEF Idle
<1>2. Distinct'
  BY <1>1 DEF ApplicationInv, Distinct
<1>3. ASSUME NEW u \in Sessions PROVE Decided(tx[u])'
  <2>1. CASE u = s
    BY <1>1, <2>1 DEF Decided
  <2>2. CASE u # s
    BY <2>2, DecidedStays
  <2> QED
    BY <2>1, <2>2
<1>4. ASSUME clean', NEW u \in Sessions PROVE DecidedNow(tx[u])'
  <2>1. CASE tx'[u] = Idle
    BY <1>1, <2>1 DEF DecidedNow
  <2>2. CASE tx'[u] # Idle
    <3>1. u # s /\ tx'[u] = tx[u]
      BY <2>2
    <3>2. ~Alone(s)
      BY <2>2, <3>1 DEF Alone
    <3>3. clean /\ UNCHANGED rows
      BY <1>4, <3>2
    <3>4. DecidedNow(tx[u])
      BY <3>3 DEF ApplicationInv
    <3>5. UNCHANGED <<grant, product>>
      BY <3>3 DEF rows
    <3> QED
      BY <3>1, <3>4, <3>5 DEF DecidedNow
  <2> QED
    BY <2>1, <2>2
<1> QED
  BY <1>2, <1>3, <1>4 DEF ApplicationInv

\* Only time passes, or nothing does.
LEMMA SameRowsKeep ==
    ASSUME ApplicationInv, UNCHANGED <<rows, tx, clean>>, now' \in 0 .. MaxTime
    PROVE  ApplicationInv'
<1>1. ApplicationTypeOK'
  BY RowTypes DEF ApplicationInv, ApplicationTypeOK, rows
<1>2. (OrganizationsStaySeparate /\ NothingBefore /\ Distinct)' /\ ScopesDeclared' = ScopesDeclared
  BY DEF ApplicationInv, OrganizationsStaySeparate, NothingBefore, Distinct, ScopesDeclared,
         Exists, rows
<1>3. ASSUME NEW u \in Sessions PROVE Decided(tx[u])' /\ (clean => DecidedNow(tx[u])')
  <2>1. Decided(tx[u]) /\ (clean => DecidedNow(tx[u]))
    BY DEF ApplicationInv
  <2>2. Decided(tx[u])'
    BY <2>1 DEF Decided, Exists, rows
  <2>3. clean => DecidedNow(tx[u])'
    BY <2>1 DEF DecidedNow, rows
  <2> QED
    BY <2>2, <2>3
<1> QED
  BY <1>1, <1>2, <1>3 DEF ApplicationInv

-----------------------------------------------------------------------------
(* Each commit keeps the invariant *)

LEMMA DoneEnds ==
    ASSUME ApplicationInv, NEW s \in Sessions, Done(s)
    PROVE  /\ tx' \in [Sessions -> Requests] /\ tx'[s] = Idle
           /\ \A u \in Sessions \ {s} : tx'[u] = tx[u]
           /\ now' \in 0 .. MaxTime
<1>1. Idle \in Requests
  BY DEF Requests
<1> QED
  BY <1>1, RowTypes DEF ApplicationInv, Done

LEMMA IdsStayOpen ==
    ASSUME ApplicationInv, NEW u \in Sessions,
           \A c \in Credentials : ~Exists(c) => credential'[c].app = NoApp,
           \A a \in Apps : appStatus[a] = "absent" => appStatus'[a] = "absent"
    PROVE  IdsOpen(u)
<1>1. tx[u] \in Requests /\ Decided(tx[u])
  BY RowTypes DEF ApplicationInv
<1>2. tx[u].op = "insert" => tx[u].credential \in Credentials /\ tx[u].app \in Apps
  BY <1>1, KindByOp DEF InsertRequests
<1> QED
  BY <1>1, <1>2 DEF Decided, IdsOpen

\* The history says of a step whether it changed rows beside another request.
CleanStep(s) == clean' = (clean /\ (UNCHANGED rows \/ Alone(s)))

LEMMA InsertKeeps ==
    ASSUME ApplicationInv, NEW s \in Sessions, CommitCredential(s), CleanStep(s)
    PROVE  ApplicationInv'
<1> DEFINE r == tx[s]
           row == [app |-> r.app, status |-> "approved", purpose |-> r.purpose,
                   expires |-> r.expires, key |-> r.credential, secret |-> 0]
<1>1. /\ r.op = "insert" /\ Done(s) /\ UNCHANGED <<keyStatus, product>>
      /\ appStatus' = IF r.new THEN [appStatus EXCEPT ![r.app] = "approved"] ELSE appStatus
      /\ credential' = [credential EXCEPT ![r.credential] = row]
      /\ grant' = [grant EXCEPT ![r.credential] = r.grants]
  BY DEF CommitCredential
<1>2. r \in InsertRequests /\ Decided(r)
  BY <1>1, KindByOp, RowTypes DEF ApplicationInv
<1>3. /\ r.app \in Apps /\ r.credential \in Credentials /\ r.grants \in [Products -> Grants]
      /\ r.purpose \in Purposes \cup {"standard"} /\ r.expires \in 0 .. Never
  BY <1>2 DEF InsertRequests
<1>4. r.app # NoApp
  BY <1>3, ApplicationAssumption
<1>5. 0 \in 0 .. MaxSecrets /\ r.credential \in Keys /\ "approved" \in Statuses
  BY <1>3, ApplicationAssumption DEF Keys, Statuses
<1>6. row \in CredentialRows
  BY <1>3, <1>5 DEF CredentialRows
<1>7. row.app = r.app
  OBVIOUS
<1> HIDE DEF row
<1>8. /\ appStatus \in [Apps -> Statuses \cup {"absent"}]
      /\ credential \in [Credentials -> {NoCredential} \cup CredentialRows]
      /\ grant \in [Credentials -> [Products -> Grants]]
  BY RowTypes DEF ApplicationInv
<1>9. /\ credential'[r.credential] = row /\ grant'[r.credential] = r.grants
      /\ \A c \in Credentials \ {r.credential} : credential'[c] = credential[c] /\ grant'[c] = grant[c]
      /\ \A a \in Apps : appStatus'[a] = appStatus[a] \/ (r.new /\ a = r.app /\ appStatus'[a] = "approved")
  <2>1. \A a \in Apps : appStatus'[a] = appStatus[a] \/ (r.new /\ a = r.app /\ appStatus'[a] = "approved")
    <3>1. CASE r.new
      <4>1. appStatus' = [appStatus EXCEPT ![r.app] = "approved"]
        BY <1>1, <3>1
      <4> QED
        BY <1>3, <1>8, <3>1, <4>1
    <3>2. CASE ~r.new
      BY <1>1, <3>2
    <3> QED
      BY <3>1, <3>2
  <2>2. credential'[r.credential] = row
        /\ \A c \in Credentials \ {r.credential} : credential'[c] = credential[c]
    BY <1>1, <1>3, <1>8
  <2>3. grant'[r.credential] = r.grants
        /\ \A c \in Credentials \ {r.credential} : grant'[c] = grant[c]
    BY <1>1, <1>3, <1>8
  <2> QED
    BY <2>1, <2>2, <2>3
<1>10. /\ appStatus' \in [Apps -> Statuses \cup {"absent"}]
       /\ credential' \in [Credentials -> {NoCredential} \cup CredentialRows]
       /\ grant' \in [Credentials -> [Products -> Grants]]
  BY <1>1, <1>3, <1>5, <1>6, <1>8
<1>11. /\ tx' \in [Sessions -> Requests] /\ tx'[s] = Idle /\ now' \in 0 .. MaxTime
       /\ \A u \in Sessions \ {s} : tx'[u] = tx[u]
  BY <1>1, DoneEnds
<1>12. clean' \in BOOLEAN
  BY DEF CleanStep
<1>13. ApplicationTypeOK'
  BY <1>1, <1>10, <1>11, <1>12, RowTypes
       DEF ApplicationInv, ApplicationTypeOK, CredentialRows
<1>14. /\ ~Exists(r.credential)
       /\ \A p \in Products : IF r.grants[p].status = "absent" THEN r.grants[p].scopes = {}
                              ELSE OrgOf[r.app] = OrgOf[p]
  BY <1>1, <1>2 DEF Decided
<1>15. ASSUME NEW u \in Sessions \ {s} PROVE IdsOpen(u)
  <2>1. tx[u] \in Requests /\ Decided(tx[u])
    BY RowTypes DEF ApplicationInv
  <2>2. tx[u].op = "insert" => tx[u].credential \in Credentials /\ tx[u].app \in Apps
    BY <2>1, KindByOp DEF InsertRequests
  <2>3. tx[u].op = "insert" => tx[u].credential # r.credential
                               /\ (tx[u].new /\ r.new => tx[u].app # r.app)
    BY <1>1 DEF ApplicationInv, Distinct
  <2> QED
    BY <1>9, <2>1, <2>2, <2>3 DEF IdsOpen, Decided, Exists
<1>16. \A p \in Products : grant[r.credential][p].status = "absent"
  BY <1>3, <1>14 DEF ApplicationInv, OrganizationsStaySeparate
<1>17. RowsGrow
  BY <1>1, <1>3, <1>9, <1>14, <1>16 DEF RowsGrow
<1>18. OrganizationsStaySeparate'
  <2>1. ASSUME NEW c \in Credentials, NEW p \in Products, grant'[c][p].status # "absent"
        PROVE  credential'[c].app # NoApp /\ OrgOf[credential'[c].app] = OrgOf[p]
    <3>1. CASE c = r.credential
      BY <1>4, <1>7, <1>9, <1>14, <2>1, <3>1
    <3>2. CASE c # r.credential
      BY <1>9, <2>1, <3>2 DEF ApplicationInv, OrganizationsStaySeparate, Exists
    <3> QED
      BY <3>1, <3>2
  <2> QED
    BY <1>1, <2>1 DEF ApplicationInv, OrganizationsStaySeparate, Exists
<1>19. NothingBefore'
  BY <1>1, <1>9, <1>14 DEF ApplicationInv, NothingBefore
<1>20. ASSUME clean PROVE ScopesDeclared'
  <2>1. ScopesDeclared /\ DecidedNow(r)
    BY <1>20 DEF ApplicationInv
  <2> QED
    BY <1>1, <1>9, <2>1 DEF ScopesDeclared, DecidedNow
<1> QED
  BY <1>11, <1>13, <1>15, <1>17, <1>18, <1>19, <1>20, EndKeeps DEF CleanStep

\* A commit that changes no credential's application, no grant and no product.
LEMMA PlainKeeps ==
    ASSUME ApplicationInv, NEW s \in Sessions, Done(s), CleanStep(s),
           appStatus' \in [Apps -> Statuses \cup {"absent"}],
           \A a \in Apps : appStatus'[a] = "absent" <=> appStatus[a] = "absent",
           credential' \in [Credentials -> {NoCredential} \cup CredentialRows],
           \A c \in Credentials : credential'[c].app = credential[c].app,
           keyStatus' \in [Credentials -> [Kids -> Statuses \cup {"absent"}]],
           UNCHANGED <<grant, product>>
    PROVE  ApplicationInv'
<1>1. /\ tx' \in [Sessions -> Requests] /\ tx'[s] = Idle /\ now' \in 0 .. MaxTime
      /\ \A u \in Sessions \ {s} : tx'[u] = tx[u]
  BY DoneEnds
<1>2. clean' \in BOOLEAN
  BY DEF CleanStep
<1>3. grant' \in [Credentials -> [Products -> Grants]] /\ product' \in [Products -> ProductRows]
  BY RowTypes DEF ApplicationInv
<1>4. ApplicationTypeOK'
  BY <1>1, <1>2, <1>3 DEF ApplicationTypeOK, CredentialRows, ProductRows
<1>5. \A u \in Sessions \ {s} : IdsOpen(u)
  BY IdsStayOpen DEF Exists
<1>6. RowsGrow
  BY DEF RowsGrow
<1>7. (OrganizationsStaySeparate /\ NothingBefore)' /\ (clean => ScopesDeclared')
  BY DEF ApplicationInv, OrganizationsStaySeparate, NothingBefore, ScopesDeclared, Exists
<1> QED
  BY <1>1, <1>4, <1>5, <1>6, <1>7, EndKeeps DEF CleanStep

LEMMA AppKeeps ==
    ASSUME ApplicationInv, NEW s \in Sessions, CommitApp(s), CleanStep(s)
    PROVE  ApplicationInv'
<1>1. /\ tx[s].op = "app" /\ Done(s) /\ UNCHANGED <<credential, grant, keyStatus, product>>
      /\ appStatus' = [appStatus EXCEPT ![tx[s].app] = tx[s].to]
  BY DEF CommitApp
<1>2. tx[s] \in AppRequests /\ Decided(tx[s])
  BY <1>1, KindByOp, RowTypes DEF ApplicationInv
<1>3. tx[s].app \in Apps /\ tx[s].to \in Statuses /\ appStatus[tx[s].app] # "absent"
  BY <1>1, <1>2 DEF AppRequests, Decided
<1>4. appStatus \in [Apps -> Statuses \cup {"absent"}] /\ "absent" \notin Statuses
  BY RowTypes DEF ApplicationInv, Statuses
<1>5. /\ appStatus' \in [Apps -> Statuses \cup {"absent"}]
      /\ \A a \in Apps : appStatus'[a] = "absent" <=> appStatus[a] = "absent"
  BY <1>1, <1>3, <1>4
<1>6. /\ credential' \in [Credentials -> {NoCredential} \cup CredentialRows]
      /\ keyStatus' \in [Credentials -> [Kids -> Statuses \cup {"absent"}]]
      /\ \A c \in Credentials : credential'[c].app = credential[c].app
      /\ UNCHANGED <<grant, product>>
  BY <1>1, RowTypes DEF ApplicationInv
<1> QED
  BY <1>1, <1>5, <1>6, PlainKeeps

\* What an update of a credential makes of the credentials.
LEMMA UpdatedCredential ==
    ASSUME ApplicationInv, NEW s \in Sessions, CommitUpdate(s)
    PROVE  LET r == tx[s] IN
           /\ r.op = "credential" /\ r \in CredentialRequests
           /\ credential' \in [Credentials -> {NoCredential} \cup CredentialRows]
           /\ \A c \in Credentials \ {r.credential} : credential'[c] = credential[c]
           /\ credential'[r.credential].app = credential[r.credential].app
           /\ credential'[r.credential].secret = credential[r.credential].secret
           /\ credential'[r.credential].status =
                 IF "status" \in r.fields THEN r.to ELSE credential[r.credential].status
<1> DEFINE r == tx[s]
<1>1. r.op = "credential"
  BY DEF CommitUpdate
<1>2. r \in CredentialRequests /\ Exists(r.credential)
  BY <1>1, KindByOp, RowTypes DEF ApplicationInv, Decided
<1>3. /\ r.credential \in Credentials /\ r.to \in Statuses
      /\ r.expires \in 0 .. Never /\ r.key \in Keys
  BY <1>2 DEF CredentialRequests
<1>4. PICK row : row = [credential[r.credential] EXCEPT
             !.status = IF "status" \in r.fields THEN r.to ELSE @,
             !.expires = IF "expires" \in r.fields THEN r.expires ELSE @,
             !.key = IF "key" \in r.fields THEN r.key ELSE @]
  OBVIOUS
<1>5. credential[r.credential] \in CredentialRows
  BY <1>2, <1>3, ExistingRows DEF ApplicationInv
<1>6. /\ row \in CredentialRows /\ row.app = credential[r.credential].app
      /\ row.secret = credential[r.credential].secret
      /\ row.status = IF "status" \in r.fields THEN r.to ELSE credential[r.credential].status
  BY <1>3, <1>4, <1>5 DEF CredentialRows
<1>7. credential \in [Credentials -> {NoCredential} \cup CredentialRows]
  BY RowTypes DEF ApplicationInv
<1>8. credential' = [credential EXCEPT ![r.credential] = row]
  BY <1>4 DEF CommitUpdate
<1>9. /\ credential' \in [Credentials -> {NoCredential} \cup CredentialRows]
      /\ credential'[r.credential] = row
      /\ \A c \in Credentials \ {r.credential} : credential'[c] = credential[c]
  BY <1>3, <1>6, <1>7, <1>8
<1> QED
  BY <1>1, <1>2, <1>6, <1>9

LEMMA CredentialKeeps ==
    ASSUME ApplicationInv, NEW s \in Sessions, CommitUpdate(s), CleanStep(s)
    PROVE  ApplicationInv'
<1>1. Done(s) /\ UNCHANGED <<appStatus, grant, keyStatus, product>>
  BY DEF CommitUpdate
<1>2. /\ credential' \in [Credentials -> {NoCredential} \cup CredentialRows]
      /\ \A c \in Credentials : credential'[c].app = credential[c].app
  BY UpdatedCredential
<1>3. /\ appStatus' \in [Apps -> Statuses \cup {"absent"}]
      /\ \A a \in Apps : appStatus'[a] = "absent" <=> appStatus[a] = "absent"
      /\ keyStatus' \in [Credentials -> [Kids -> Statuses \cup {"absent"}]]
      /\ UNCHANGED <<grant, product>>
  BY <1>1, RowTypes DEF ApplicationInv
<1> QED
  BY <1>1, <1>2, <1>3, PlainKeeps

LEMMA SecretKeeps ==
    ASSUME ApplicationInv, NEW s \in Sessions, CommitSecret(s), CleanStep(s)
    PROVE  ApplicationInv'
<1> DEFINE r == tx[s]
<1>1. /\ r.op = "secret" /\ Done(s) /\ UNCHANGED <<appStatus, grant, keyStatus, product>>
      /\ credential[r.credential].secret < MaxSecrets
  BY DEF CommitSecret
<1>2. r \in SecretRequests /\ Exists(r.credential)
  BY <1>1, KindByOp, RowTypes DEF ApplicationInv, Decided
<1>3. r.credential \in Credentials
  BY <1>2 DEF SecretRequests
<1>4. PICK row : row = [credential[r.credential] EXCEPT !.secret = @ + 1]
  OBVIOUS
<1>5. credential[r.credential] \in CredentialRows
  BY <1>2, <1>3, ExistingRows DEF ApplicationInv
<1>6. credential[r.credential].secret + 1 \in 0 .. MaxSecrets
  BY <1>1, <1>5, ApplicationAssumption DEF CredentialRows
<1>7. row \in CredentialRows /\ row.app = credential[r.credential].app
  BY <1>4, <1>5, <1>6 DEF CredentialRows
<1>8. credential \in [Credentials -> {NoCredential} \cup CredentialRows]
  BY RowTypes DEF ApplicationInv
<1>9. credential' = [credential EXCEPT ![r.credential] = row]
  BY <1>4 DEF CommitSecret
<1>10. /\ credential' \in [Credentials -> {NoCredential} \cup CredentialRows]
       /\ \A c \in Credentials : credential'[c].app = credential[c].app
  BY <1>3, <1>7, <1>8, <1>9
<1>11. /\ appStatus' \in [Apps -> Statuses \cup {"absent"}]
       /\ \A a \in Apps : appStatus'[a] = "absent" <=> appStatus[a] = "absent"
       /\ keyStatus' \in [Credentials -> [Kids -> Statuses \cup {"absent"}]]
       /\ UNCHANGED <<grant, product>>
  BY <1>1, RowTypes DEF ApplicationInv
<1> QED
  BY <1>1, <1>10, <1>11, PlainKeeps

LEMMA KeyKeeps ==
    ASSUME ApplicationInv, NEW s \in Sessions, CleanStep(s),
           NEW c \in Credentials, NEW k \in Kids, NEW to \in Statuses, Done(s),
           keyStatus' = [keyStatus EXCEPT ![c][k] = to],
           UNCHANGED <<appStatus, credential, grant, product>>
    PROVE  ApplicationInv'
<1>1. keyStatus \in [Credentials -> [Kids -> Statuses \cup {"absent"}]]
  BY RowTypes DEF ApplicationInv
<1>2. keyStatus' \in [Credentials -> [Kids -> Statuses \cup {"absent"}]]
  BY <1>1
<1>3. /\ appStatus' \in [Apps -> Statuses \cup {"absent"}]
      /\ \A a \in Apps : appStatus'[a] = "absent" <=> appStatus[a] = "absent"
      /\ credential' \in [Credentials -> {NoCredential} \cup CredentialRows]
      /\ \A d \in Credentials : credential'[d].app = credential[d].app
  BY RowTypes DEF ApplicationInv
<1> QED
  BY <1>2, <1>3, PlainKeeps

\* A commit that changes no app, credential or key, only grants and products.
LEMMA GrantsOrProductsKeep ==
    ASSUME ApplicationInv, NEW s \in Sessions, Done(s), CleanStep(s),
           UNCHANGED <<appStatus, credential, keyStatus>>,
           grant' \in [Credentials -> [Products -> Grants]],
           product' \in [Products -> ProductRows],
           RowsGrow, OrganizationsStaySeparate', NothingBefore', clean => ScopesDeclared'
    PROVE  ApplicationInv'
<1>1. /\ tx' \in [Sessions -> Requests] /\ tx'[s] = Idle /\ now' \in 0 .. MaxTime
      /\ \A u \in Sessions \ {s} : tx'[u] = tx[u]
  BY DoneEnds
<1>2. clean' \in BOOLEAN
  BY DEF CleanStep
<1>3. /\ appStatus' \in [Apps -> Statuses \cup {"absent"}]
      /\ credential' \in [Credentials -> {NoCredential} \cup CredentialRows]
      /\ keyStatus' \in [Credentials -> [Kids -> Statuses \cup {"absent"}]]
  BY RowTypes DEF ApplicationInv
<1>4. ApplicationTypeOK'
  BY <1>1, <1>2, <1>3 DEF ApplicationTypeOK, CredentialRows, ProductRows
<1>5. \A u \in Sessions \ {s} : IdsOpen(u)
  BY IdsStayOpen DEF Exists
<1> QED
  BY <1>1, <1>4, <1>5, EndKeeps DEF CleanStep

\* What a replacement of grants makes of each grant.
LEMMA ReplacedGrants ==
    ASSUME ApplicationInv, NEW s \in Sessions, CommitGrants(s)
    PROVE  /\ tx[s].credential \in Credentials /\ Exists(tx[s].credential)
           /\ tx[s].grants \in [Products -> Grants]
           /\ grant' \in [Credentials -> [Products -> Grants]]
           /\ \A c \in Credentials \ {tx[s].credential} : grant'[c] = grant[c]
           /\ \A p \in Products :
                 LET old == grant[tx[s].credential][p]
                     new == grant'[tx[s].credential][p]
                     asked == tx[s].grants[p]
                 IN  \/ asked.status = "approved" /\ new = asked
                     \/ /\ asked.status # "approved" /\ p \in tx[s].revoke
                        /\ new.status = "revoked" /\ new.scopes = old.scopes
                     \/ asked.status # "approved" /\ p \notin tx[s].revoke /\ new = old
<1> DEFINE r == tx[s]
<1>1. r \in GrantsRequests /\ Exists(r.credential)
  BY KindByOp, RowTypes DEF ApplicationInv, Decided, CommitGrants
<1>2. r.credential \in Credentials /\ r.grants \in [Products -> Grants]
  BY <1>1 DEF GrantsRequests
<1>3. grant \in [Credentials -> [Products -> Grants]]
  BY RowTypes DEF ApplicationInv
<1>4. PICK row : row = [p \in Products |->
          IF r.grants[p].status = "approved" THEN r.grants[p]
          ELSE IF p \in r.revoke THEN [grant[r.credential][p] EXCEPT !.status = "revoked"]
          ELSE grant[r.credential][p]]
  OBVIOUS
<1>5. grant' = [grant EXCEPT ![r.credential] = row]
  BY <1>4 DEF CommitGrants
<1>6. ASSUME NEW g \in Grants
      PROVE  /\ [g EXCEPT !.status = "revoked"] \in Grants
             /\ [g EXCEPT !.status = "revoked"].status = "revoked"
             /\ [g EXCEPT !.status = "revoked"].scopes = g.scopes
  BY DEF Grants, Statuses
<1>7. /\ row \in [Products -> Grants]
      /\ \A p \in Products :
            \/ r.grants[p].status = "approved" /\ row[p] = r.grants[p]
            \/ /\ r.grants[p].status # "approved" /\ p \in r.revoke
               /\ row[p].status = "revoked" /\ row[p].scopes = grant[r.credential][p].scopes
            \/ /\ r.grants[p].status # "approved" /\ p \notin r.revoke
               /\ row[p] = grant[r.credential][p]
  BY <1>2, <1>3, <1>4, <1>6
<1>8. /\ grant' \in [Credentials -> [Products -> Grants]] /\ grant'[r.credential] = row
      /\ \A c \in Credentials \ {r.credential} : grant'[c] = grant[c]
  BY <1>2, <1>3, <1>5, <1>7
<1> QED
  BY <1>1, <1>2, <1>7, <1>8

LEMMA GrantsKeep ==
    ASSUME ApplicationInv, NEW s \in Sessions, CommitGrants(s), CleanStep(s)
    PROVE  ApplicationInv'
<1> DEFINE r == tx[s]
           c == r.credential
<1>1. r.op = "grants" /\ Done(s) /\ UNCHANGED <<appStatus, credential, keyStatus, product>>
  BY DEF CommitGrants
<1>2. Decided(r)
  BY DEF ApplicationInv
<1>3. /\ c \in Credentials /\ Exists(c) /\ grant' \in [Credentials -> [Products -> Grants]]
      /\ \A d \in Credentials \ {c} : grant'[d] = grant[d]
  BY ReplacedGrants
<1>4. \A p \in Products :
         \/ r.grants[p].status = "approved" /\ grant'[c][p] = r.grants[p]
         \/ /\ r.grants[p].status # "approved" /\ p \in r.revoke
            /\ grant'[c][p].status = "revoked" /\ grant'[c][p].scopes = grant[c][p].scopes
         \/ /\ r.grants[p].status # "approved" /\ p \notin r.revoke
            /\ grant'[c][p] = grant[c][p]
  BY ReplacedGrants
<1>5. \A p \in Products : r.grants[p].status = "approved" \/ p \in r.revoke =>
                              OrgOf[credential[c].app] = OrgOf[p]
  BY <1>1, <1>2 DEF Decided
<1>6. clean => \A p \in Products : r.grants[p].scopes \subseteq product[p].scopes
  BY <1>1 DEF ApplicationInv, DecidedNow
<1> HIDE DEF r, c
<1>7. RowsGrow
  BY <1>1, <1>3, <1>4 DEF RowsGrow
<1>8. OrganizationsStaySeparate'
  BY <1>1, <1>3, <1>4, <1>5 DEF ApplicationInv, OrganizationsStaySeparate, Exists
<1>9. NothingBefore'
  BY <1>1, <1>3, <1>4 DEF ApplicationInv, NothingBefore
<1>10. clean => ScopesDeclared'
  BY <1>1, <1>3, <1>4, <1>6 DEF ApplicationInv, ScopesDeclared
<1>11. product' \in [Products -> ProductRows]
  BY <1>1, RowTypes DEF ApplicationInv
<1> QED
  BY <1>1, <1>3, <1>7, <1>8, <1>9, <1>10, <1>11, GrantsOrProductsKeep

\* What an update of a product makes of the product and of each grant.
LEMMA UpdatedProduct ==
    ASSUME ApplicationInv, NEW s \in Sessions, CommitProduct(s)
    PROVE  LET r == tx[s] IN
           /\ r \in ProductRequests
           /\ grant' \in [Credentials -> [Products -> Grants]]
           /\ \A c \in Credentials, p \in Products :
                 /\ grant'[c][p].status = grant[c][p].status
                 /\ IF c \in r.trimmed /\ p = r.product THEN grant'[c][p].scopes = r.left[c]
                    ELSE grant'[c][p] = grant[c][p]
           /\ product' \in [Products -> ProductRows]
           /\ \A p \in Products \ {r.product} : product'[p] = product[p]
           /\ product'[r.product].exists = product[r.product].exists
           /\ product'[r.product].scopes =
                 IF "scopes" \in r.fields THEN r.scopes ELSE product[r.product].scopes
           /\ product'[r.product].proxies =
                 IF "proxies" \in r.fields THEN r.proxies ELSE product[r.product].proxies
<1> DEFINE r == tx[s]
<1>1. r \in ProductRequests
  BY KindByOp, RowTypes DEF ApplicationInv, CommitProduct
<1>2. /\ r.product \in Products /\ r.active \in BOOLEAN /\ r.scopes \in SUBSET Scopes
      /\ r.proxies \in SUBSET Proxies /\ r.environments \in SUBSET Environments
      /\ r.trimmed \in SUBSET Credentials
      /\ r.left \in [Credentials -> SUBSET Scopes]
  BY <1>1 DEF ProductRequests
<1>3. grant \in [Credentials -> [Products -> Grants]] /\ product \in [Products -> ProductRows]
  BY RowTypes DEF ApplicationInv
<1>4. ASSUME NEW c \in Credentials, NEW p \in Products
      PROVE  /\ grant'[c] \in [Products -> Grants]
             /\ grant'[c][p].status = grant[c][p].status
             /\ IF c \in r.trimmed /\ p = r.product THEN grant'[c][p].scopes = r.left[c]
                ELSE grant'[c][p] = grant[c][p]
  <2>1. grant'[c] = IF c \in r.trimmed
                    THEN [grant[c] EXCEPT ![r.product].scopes = r.left[c]] ELSE grant[c]
    BY DEF CommitProduct
  <2>2. grant[c] \in [Products -> Grants] /\ r.left[c] \in SUBSET Scopes
    BY <1>2, <1>3
  <2>3. ASSUME NEW g \in Grants, NEW x \in SUBSET Scopes
        PROVE  /\ [g EXCEPT !.scopes = x] \in Grants
               /\ [g EXCEPT !.scopes = x].status = g.status /\ [g EXCEPT !.scopes = x].scopes = x
    BY DEF Grants
  <2>4. CASE c \in r.trimmed
    <3>1. grant'[c] = [grant[c] EXCEPT ![r.product] = [grant[c][r.product] EXCEPT !.scopes = r.left[c]]]
      BY <2>1, <2>4
    <3>2. grant[c][r.product] \in Grants
      BY <1>2, <2>2
    <3>3. PICK g : g = [grant[c][r.product] EXCEPT !.scopes = r.left[c]]
      OBVIOUS
    <3>4. g \in Grants /\ g.status = grant[c][r.product].status /\ g.scopes = r.left[c]
      BY <2>2, <2>3, <3>2, <3>3
    <3>5. grant'[c] = [grant[c] EXCEPT ![r.product] = g]
      BY <3>1, <3>3
    <3> QED
      BY <1>2, <2>2, <2>4, <3>4, <3>5
  <2>5. CASE c \notin r.trimmed
    BY <2>1, <2>2, <2>5
  <2> QED
    BY <2>4, <2>5
<1>5. grant' \in [Credentials -> [Products -> Grants]]
  <2>1. grant' = [c \in Credentials |-> grant'[c]]
    BY DEF CommitProduct
  <2>2. ASSUME NEW c \in Credentials PROVE grant'[c] \in [Products -> Grants]
    BY <1>2, <1>4
  <2> QED
    BY <2>1, <2>2
<1>6. PICK row : row = [product[r.product] EXCEPT
              !.active = IF "active" \in r.fields THEN r.active ELSE @,
              !.scopes = IF "scopes" \in r.fields THEN r.scopes ELSE @,
              !.proxies = IF "proxies" \in r.fields THEN r.proxies ELSE @,
              !.environments = IF "environments" \in r.fields THEN r.environments ELSE @]
  OBVIOUS
<1>7. product[r.product] \in ProductRows
  BY <1>2, <1>3
<1>8. /\ row \in ProductRows /\ row.exists = product[r.product].exists
      /\ row.scopes = IF "scopes" \in r.fields THEN r.scopes ELSE product[r.product].scopes
      /\ row.proxies = IF "proxies" \in r.fields THEN r.proxies ELSE product[r.product].proxies
  BY <1>2, <1>6, <1>7 DEF ProductRows
<1>9. product' = [product EXCEPT ![r.product] = row]
  BY <1>6 DEF CommitProduct
<1>10. /\ product' \in [Products -> ProductRows] /\ product'[r.product] = row
       /\ \A p \in Products \ {r.product} : product'[p] = product[p]
  BY <1>2, <1>3, <1>8, <1>9
<1> QED
  BY <1>1, <1>4, <1>5, <1>8, <1>10

LEMMA ProductKeeps ==
    ASSUME ApplicationInv, NEW s \in Sessions, CommitProduct(s), CleanStep(s)
    PROVE  ApplicationInv'
<1> DEFINE r == tx[s]
<1>1. r.op = "product" /\ Done(s) /\ UNCHANGED <<appStatus, credential, keyStatus>>
  BY DEF CommitProduct
<1>2. /\ r \in ProductRequests
      /\ grant' \in [Credentials -> [Products -> Grants]]
      /\ \A c \in Credentials, p \in Products :
            /\ grant'[c][p].status = grant[c][p].status
            /\ IF c \in r.trimmed /\ p = r.product THEN grant'[c][p].scopes = r.left[c]
               ELSE grant'[c][p] = grant[c][p]
      /\ product' \in [Products -> ProductRows]
      /\ \A p \in Products \ {r.product} : product'[p] = product[p]
      /\ product'[r.product].exists = product[r.product].exists
      /\ product'[r.product].scopes =
            IF "scopes" \in r.fields THEN r.scopes ELSE product[r.product].scopes
      /\ product'[r.product].proxies =
            IF "proxies" \in r.fields THEN r.proxies ELSE product[r.product].proxies
  BY UpdatedProduct
<1>3. r.product \in Products /\ r.trimmed \subseteq Credentials
  BY <1>2 DEF ProductRequests
<1>4. Decided(r)
  BY DEF ApplicationInv
<1>5. /\ product[r.product].exists
      /\ "proxies" \in r.fields => \A x \in r.proxies : OrgOf[x] = OrgOf[r.product]
      /\ \A c \in r.trimmed : "scopes" \in r.fields /\ grant[c][r.product].status # "absent"
                                  /\ r.left[c] \subseteq r.scopes
  BY <1>1, <1>4 DEF Decided
<1>6. clean /\ "scopes" \in r.fields =>
         \A c \in Credentials \ r.trimmed : grant[c][r.product].scopes \subseteq r.scopes
  BY <1>1 DEF ApplicationInv, DecidedNow
<1> HIDE DEF r
<1>7. RowsGrow
  BY <1>1, <1>2, <1>5 DEF RowsGrow
<1>8. OrganizationsStaySeparate'
  <2>1. \A c \in Credentials, p \in Products :
           grant'[c][p].status # "absent" => Exists(c)' /\ OrgOf[credential'[c].app] = OrgOf[p]
    BY <1>1, <1>2 DEF ApplicationInv, OrganizationsStaySeparate, Exists
  <2>2. ASSUME NEW p \in Products, NEW x \in product'[p].proxies PROVE OrgOf[x] = OrgOf[p]
    BY <1>2, <1>5, <2>2 DEF ApplicationInv, OrganizationsStaySeparate
  <2> QED
    BY <2>1, <2>2 DEF OrganizationsStaySeparate
<1>9. NothingBefore'
  <2>1. ASSUME NEW c \in Credentials, NEW p \in Products, grant'[c][p].status = "absent"
        PROVE  grant'[c][p].scopes = {}
    <3>1. grant[c][p].status = "absent" /\ grant[c][p].scopes = {}
      BY <1>2, <2>1 DEF ApplicationInv, NothingBefore
    <3>2. ~(c \in r.trimmed /\ p = r.product)
      BY <1>5, <3>1
    <3> QED
      BY <1>2, <3>1, <3>2
  <2>2. \A p \in Products : ~product'[p].exists => product'[p].scopes = {}
    BY <1>2, <1>5 DEF ApplicationInv, NothingBefore
  <2> QED
    BY <2>1, <2>2 DEF NothingBefore
<1>10. ASSUME clean, NEW c \in Credentials, NEW p \in Products
       PROVE  grant'[c][p].scopes \subseteq product'[p].scopes
  <2>1. grant[c][p].scopes \subseteq product[p].scopes
    BY <1>10 DEF ApplicationInv, ScopesDeclared
  <2>2. CASE p = r.product /\ "scopes" \in r.fields
    BY <1>2, <1>5, <1>6, <1>10, <2>2
  <2>3. CASE p = r.product /\ "scopes" \notin r.fields
    BY <1>2, <1>5, <2>1, <2>3
  <2>4. CASE p # r.product
    BY <1>2, <2>1, <2>4
  <2> QED
    BY <2>2, <2>3, <2>4
<1>11. clean => ScopesDeclared'
  BY <1>10 DEF ScopesDeclared
<1> QED
  BY <1>1, <1>2, <1>7, <1>8, <1>9, <1>11, GrantsOrProductsKeep

\* A product is created at once; its id is new.
LEMMA CreateProductKeeps ==
    ASSUME ApplicationInv, NEW s \in Sessions, tx[s] = Idle, CleanStep(s),
           NEW p \in Products, NEW active \in BOOLEAN, NEW scopes \in SUBSET Scopes,
           NEW proxies \in SUBSET Proxies, NEW environments \in SUBSET Environments,
           createProduct(s, p, active, scopes, proxies, environments)
    PROVE  ApplicationInv'
<1>1. PICK row : row = [exists |-> TRUE, active |-> active, scopes |-> scopes,
                      proxies |-> proxies, environments |-> environments]
  OBVIOUS
<1>2. row \in ProductRows /\ row.exists /\ row.scopes = scopes /\ row.proxies = proxies
  BY <1>1 DEF ProductRows
<1>3. /\ ~product[p].exists /\ (\A x \in proxies : OrgOf[x] = OrgOf[p])
      /\ product' = [product EXCEPT ![p] = row]
      /\ UNCHANGED <<appStatus, credential, grant, keyStatus, tx, now>>
  BY <1>1 DEF createProduct, validateRelations
<1>4. product \in [Products -> ProductRows] /\ tx \in [Sessions -> Requests]
  BY RowTypes DEF ApplicationInv
<1>5. /\ product' \in [Products -> ProductRows] /\ product'[p] = row
      /\ \A q \in Products \ {p} : product'[q] = product[q]
  BY <1>2, <1>3, <1>4
<1>6. Done(s)
  BY <1>3, <1>4 DEF Done
<1>7. grant' \in [Credentials -> [Products -> Grants]]
  BY <1>3, RowTypes DEF ApplicationInv
<1>8. RowsGrow
  BY <1>2, <1>3, <1>5 DEF RowsGrow
<1>9. OrganizationsStaySeparate'
  BY <1>2, <1>3, <1>5 DEF ApplicationInv, OrganizationsStaySeparate, Exists
<1>10. NothingBefore'
  BY <1>2, <1>3, <1>5 DEF ApplicationInv, NothingBefore
<1>11. clean => ScopesDeclared'
  <2>1. clean => \A c \in Credentials : grant[c][p].scopes \subseteq {}
    BY <1>3 DEF ApplicationInv, ScopesDeclared, NothingBefore
  <2> QED
    BY <1>3, <1>5, <2>1 DEF ApplicationInv, ScopesDeclared
<1> QED
  BY <1>3, <1>5, <1>6, <1>7, <1>8, <1>9, <1>10, <1>11, GrantsOrProductsKeep

-----------------------------------------------------------------------------
(* Every step keeps it *)

\* What a request of a session does: begin, or change rows at once.
LEMMA RequestOutcomes ==
    ASSUME ApplicationInv, NEW s \in Sessions, ApplicationRequests(s)
    PROVE  /\ tx[s] = Idle
           /\ \/ \E r : Beginnable(s, r) /\ Begin(s, r)
              \/ \E c \in Credentials, k \in Kids : revokeManagedPublicKey(c, k)
              \/ \E p \in Products, active \in BOOLEAN, scopes \in SUBSET Scopes,
                    proxies \in SUBSET Proxies, environments \in SUBSET Environments :
                       createProduct(s, p, active, scopes, proxies, environments)
<1>1. CASE \E a \in Apps, c \in Credentials, R \in Requested, purpose \in Purposes \ {"playground"} :
              register(s, a, c, R, purpose)
  BY <1>1, RegisterBegins DEF ApplicationRequests
<1>2. CASE \E a \in Apps, to \in Statuses : update(s, a, to)
  BY <1>2, UpdateBegins DEF ApplicationRequests
<1>3. CASE \E a \in Apps : createCredential(s, a)
  BY <1>3, CreateCredentialBegins DEF ApplicationRequests
<1>4. CASE \E c \in Credentials : updateCredential(s, c)
  BY <1>4, UpdateCredentialBegins DEF ApplicationRequests
<1>5. CASE \E c \in Credentials : rotateCredential(s, c)
  BY <1>5, RotateBegins DEF ApplicationRequests
<1>6. CASE \E c \in Credentials, R \in Requested : replaceCredentialGrants(s, c, R)
  BY <1>6, ReplaceBegins DEF ApplicationRequests
<1>7. CASE \E c \in Credentials, k \in Kids : registerPublicKey(s, c, k)
  BY <1>7, RegisterKeyBegins DEF ApplicationRequests
<1>8. CASE \E c \in Credentials, k \in Kids : revokePublicKey(s, c, k)
  BY <1>8 DEF ApplicationRequests, revokePublicKey
<1>9. CASE \E p \in Products, active \in BOOLEAN, scopes \in SUBSET Scopes,
              proxies \in SUBSET Proxies, environments \in SUBSET Environments :
              \/ createProduct(s, p, active, scopes, proxies, environments)
              \/ \E fields \in ProductUpdates :
                    updateProduct(s, p, fields, active, scopes, proxies, environments)
  BY <1>9, UpdateProductBegins, ApplicationAssumption DEF ApplicationRequests
<1> QED
  BY <1>1, <1>2, <1>3, <1>4, <1>5, <1>6, <1>7, <1>8, <1>9 DEF ApplicationRequests

LEMMA RequestsKeep ==
    ASSUME ApplicationInv, NEW s \in Sessions, ApplicationRequests(s), CleanStep(s)
    PROVE  ApplicationInv'
<1>1. tx[s] = Idle
  BY RequestOutcomes
<1>2. CASE \E r : Beginnable(s, r) /\ Begin(s, r)
  <2>1. PICK r : Beginnable(s, r) /\ Begin(s, r)
    BY <1>2
  <2>2. UNCHANGED rows
    BY <2>1 DEF Begin
  <2>3. clean' = clean
    BY <2>2, RowTypes DEF CleanStep, ApplicationInv
  <2> QED
    BY <2>1, <2>3, BeginKeeps
<1>3. CASE \E c \in Credentials, k \in Kids : revokeManagedPublicKey(c, k)
  <2>1. PICK c \in Credentials, k \in Kids : revokeManagedPublicKey(c, k)
    BY <1>3
  <2>2. Done(s)
    BY <1>1, <2>1, RowTypes DEF revokeManagedPublicKey, Done, ApplicationInv
  <2>3. "revoked" \in Statuses
    BY DEF Statuses
  <2> QED
    BY <2>1, <2>2, <2>3, KeyKeeps DEF revokeManagedPublicKey
<1>4. CASE \E p \in Products, active \in BOOLEAN, scopes \in SUBSET Scopes,
              proxies \in SUBSET Proxies, environments \in SUBSET Environments :
                 createProduct(s, p, active, scopes, proxies, environments)
  BY <1>1, <1>4, CreateProductKeeps
<1> QED
  BY <1>2, <1>3, <1>4, RequestOutcomes

LEMMA CommitsKeep ==
    ASSUME ApplicationInv, NEW s \in Sessions, Commits(s), CleanStep(s)
    PROVE  ApplicationInv'
<1>1. CASE CommitKey(s)
  <2>1. tx[s] \in KeyRequests
    BY <1>1, KindByOp, RowTypes DEF ApplicationInv, CommitKey
  <2>2. tx[s].credential \in Credentials /\ tx[s].kid \in Kids /\ "approved" \in Statuses
    BY <2>1 DEF KeyRequests, Statuses
  <2> QED
    BY <1>1, <2>2, KeyKeeps DEF CommitKey
<1> QED
  BY <1>1, InsertKeeps, AppKeeps, CredentialKeeps, SecretKeeps, GrantsKeep, ProductKeeps DEF Commits

LEMMA AbandonKeeps ==
    ASSUME ApplicationInv, NEW s \in Sessions, Abandon(s), CleanStep(s)
    PROVE  ApplicationInv'
<1>1. Done(s) /\ UNCHANGED <<appStatus, credential, grant, keyStatus, product>>
  BY DEF Abandon, rows
<1>2. /\ grant' \in [Credentials -> [Products -> Grants]] /\ product' \in [Products -> ProductRows]
  BY <1>1, RowTypes DEF ApplicationInv
<1>3. RowsGrow
  BY <1>1 DEF RowsGrow
<1>4. (OrganizationsStaySeparate /\ NothingBefore)' /\ (clean => ScopesDeclared')
  BY <1>1 DEF ApplicationInv, OrganizationsStaySeparate, NothingBefore, ScopesDeclared, Exists
<1> QED
  BY <1>1, <1>2, <1>3, <1>4, GrantsOrProductsKeep

LEMMA ApplicationStep == ApplicationInv /\ [ApplicationNext]_applicationVars => ApplicationInv'
<1> SUFFICES ASSUME ApplicationInv, [ApplicationNext]_applicationVars PROVE ApplicationInv'
  OBVIOUS
<1>1. ASSUME NEW s \in Sessions, ApplicationRequests(s) \/ Commits(s) \/ Abandon(s),
             clean' = (clean /\ (UNCHANGED rows \/ Alone(s)))
      PROVE  ApplicationInv'
  BY <1>1, RequestsKeep, CommitsKeep, AbandonKeeps DEF CleanStep
<1>2. CASE Tick /\ UNCHANGED clean
  <2>1. now' \in 0 .. MaxTime
    BY <1>2, RowTypes, ApplicationAssumption DEF Tick, ApplicationInv
  <2> QED
    BY <1>2, <2>1, SameRowsKeep DEF Tick
<1>3. CASE UNCHANGED applicationVars
  <2>1. UNCHANGED <<rows, tx, clean>> /\ now' \in 0 .. MaxTime
    BY <1>3, RowTypes DEF applicationVars, ApplicationInv
  <2> QED
    BY <2>1, SameRowsKeep
<1> QED
  BY <1>1, <1>2, <1>3 DEF ApplicationNext

LEMMA ApplicationInvariant == ApplicationSpec => []ApplicationInv
  BY ApplicationInitially, ApplicationStep, PTL DEF ApplicationSpec

\* Whatever requests overlap, no grant joins a credential and a product of two
\* organizations and no product bundles a proxy of another: a transaction
\* keeps what it validated, because no row changes organization.
THEOREM ApplicationsStaySeparate == ApplicationSpec => []OrganizationsStaySeparate
<1>1. ApplicationInv => OrganizationsStaySeparate
  BY DEF ApplicationInv
<1> QED
  BY <1>1, ApplicationInvariant, PTL

\* The rows keep their types, and grants hold only scopes their product
\* declares as long as no rows changed beside a transaction that read them.
THEOREM ApplicationScopesDeclared == ApplicationSpec => []GrantScopesDeclared
<1>1. ApplicationInv => GrantScopesDeclared
  BY DEF ApplicationInv, GrantScopesDeclared, ScopesDeclared
<1> QED
  BY <1>1, ApplicationInvariant, PTL

-----------------------------------------------------------------------------
(* What a step may never do *)

\* When a replacement commits in an undisturbed history, what it decided still
\* holds: every grant approved now is asked for or on the list to revoke.
THEOREM ApplicationReplacementIsExact == ApplicationSpec => ReplacementIsExact
<1>1. ASSUME ApplicationInv, NEW s \in Sessions, CommitGrants(s), clean',
             ApplicationInv', [ApplicationNext]_applicationVars
      PROVE  LET r == tx[s] IN
             {p \in Products : grant'[r.credential][p].status = "approved"}
                 = {p \in Products : r.grants[p].status = "approved"}
  <2> DEFINE r == tx[s]
  <2>1. clean
    BY <1>1 DEF ApplicationNext, applicationVars
  <2>2. DecidedNow(r) /\ r.op = "grants"
    BY <1>1, <2>1 DEF ApplicationInv, CommitGrants
  <2>3. \A p \in Products :
           \/ r.grants[p].status = "approved" /\ grant'[r.credential][p] = r.grants[p]
           \/ /\ r.grants[p].status # "approved" /\ p \in r.revoke
              /\ grant'[r.credential][p].status = "revoked"
           \/ /\ r.grants[p].status # "approved" /\ p \notin r.revoke
              /\ grant'[r.credential][p] = grant[r.credential][p]
    BY <1>1, ReplacedGrants
  <2> QED
    BY <2>2, <2>3 DEF DecidedNow
<1>2. ApplicationInv /\ ApplicationInv' /\ [ApplicationNext]_applicationVars =>
        [\A s \in Sessions : CommitGrants(s) /\ clean' =>
           LET r == tx[s] IN
           {p \in Products : grant'[r.credential][p].status = "approved"}
               = {p \in Products : r.grants[p].status = "approved"}]_applicationVars
  BY <1>1
<1> QED
  BY <1>2, ApplicationInvariant, PTL DEF ApplicationSpec, ReplacementIsExact

\* Which commits write which rows.
LEMMA CommitWrites ==
    ASSUME NEW s \in Sessions, Commits(s) \/ Abandon(s)
    PROVE  /\ Done(s)
           /\ CommitCredential(s) \/ CommitApp(s) \/ UNCHANGED appStatus
           /\ CommitCredential(s) \/ CommitUpdate(s) \/ CommitSecret(s) \/ UNCHANGED credential
           /\ CommitCredential(s) \/ CommitGrants(s) \/ CommitProduct(s) \/ UNCHANGED grant
           /\ CommitKey(s) \/ UNCHANGED keyStatus
<1>1. CASE CommitCredential(s)
  BY <1>1 DEF CommitCredential
<1>2. CASE CommitApp(s)
  BY <1>2 DEF CommitApp
<1>3. CASE CommitUpdate(s)
  BY <1>3 DEF CommitUpdate
<1>4. CASE CommitSecret(s)
  BY <1>4 DEF CommitSecret
<1>5. CASE CommitGrants(s)
  BY <1>5 DEF CommitGrants
<1>6. CASE CommitKey(s)
  BY <1>6 DEF CommitKey
<1>7. CASE CommitProduct(s)
  BY <1>7 DEF CommitProduct
<1>8. CASE Abandon(s)
  BY <1>8 DEF Abandon, rows
<1> QED
  BY <1>1, <1>2, <1>3, <1>4, <1>5, <1>6, <1>7, <1>8 DEF Commits

\* A settled application stays settled when a request begins or ends.
LEMMA SettledAppStays ==
    ASSUME ApplicationInv, NEW a \in Apps, SettledApp(a), appStatus'[a] = "revoked",
           NEW s \in Sessions, \A u \in Sessions \ {s} : tx'[u] = tx[u],
           \/ tx'[s] = Idle
           \/ \E r : Beginnable(s, r) /\ tx'[s] = r
    PROVE  SettledApp(a)'
<1>1. Idle.op # "app"
  BY DEF Idle
<1>2. ASSUME NEW r, Beginnable(s, r), r.op = "app", r.app = a
      PROVE  r.to = "revoked"
  BY <1>2 DEF Beginnable, Validated, validateStatusTransition, SettledApp
<1> QED
  BY <1>1, <1>2 DEF SettledApp

\* No step reopens a settled application: the approvals that overlapped its
\* revocation are over, and one that begins reads that it is revoked.
THEOREM ApplicationRevocationSettles == ApplicationSpec => RevocationSettles
<1>1. ASSUME ApplicationInv, [ApplicationNext]_applicationVars, NEW a \in Apps, SettledApp(a)
      PROVE  SettledApp(a)'
  <2>1. CASE UNCHANGED <<appStatus, tx>>
    BY <1>1, <2>1 DEF SettledApp
  <2>2. ASSUME NEW s \in Sessions, ApplicationRequests(s) PROVE SettledApp(a)'
    <3>1. CASE \E r : Beginnable(s, r) /\ Begin(s, r)
      <4>1. PICK r : Beginnable(s, r) /\ Begin(s, r)
        BY <3>1
      <4>2. tx' = [tx EXCEPT ![s] = r] /\ UNCHANGED appStatus
        BY <4>1 DEF Begin, rows
      <4>3. tx'[s] = r /\ \A u \in Sessions \ {s} : tx'[u] = tx[u]
        BY <1>1, <4>2, RowTypes DEF ApplicationInv
      <4> QED
        BY <1>1, <4>1, <4>2, <4>3, SettledAppStays DEF SettledApp
    <3>2. CASE \E c \in Credentials, k \in Kids : revokeManagedPublicKey(c, k)
      BY <2>1, <3>2 DEF revokeManagedPublicKey
    <3>3. CASE \E p \in Products, active \in BOOLEAN, scopes \in SUBSET Scopes,
                  proxies \in SUBSET Proxies, environments \in SUBSET Environments :
                     createProduct(s, p, active, scopes, proxies, environments)
      BY <2>1, <3>3 DEF createProduct
    <3> QED
      BY <1>1, <2>2, <3>1, <3>2, <3>3, RequestOutcomes
  <2>3. ASSUME NEW s \in Sessions, Commits(s) \/ Abandon(s) PROVE SettledApp(a)'
    <3>1. Done(s)
      BY <2>3, CommitWrites
    <3>2. tx'[s] = Idle /\ \A u \in Sessions \ {s} : tx'[u] = tx[u]
      BY <1>1, <3>1, DoneEnds
    <3>3. appStatus'[a] = "revoked"
      <4>1. appStatus[a] = "revoked" /\ appStatus \in [Apps -> Statuses \cup {"absent"}]
        BY <1>1, RowTypes DEF SettledApp, ApplicationInv
      <4>2. CASE CommitCredential(s)
        <5>1. tx[s].op = "insert"
              /\ appStatus' = IF tx[s].new THEN [appStatus EXCEPT ![tx[s].app] = "approved"]
                              ELSE appStatus
          BY <4>2 DEF CommitCredential
        <5>2. tx[s].new => tx[s].app # a
          BY <1>1, <4>1, <5>1 DEF ApplicationInv, Decided
        <5> QED
          BY <4>1, <5>1, <5>2
      <4>3. CASE CommitApp(s)
        <5>1. tx[s].op = "app" /\ appStatus' = [appStatus EXCEPT ![tx[s].app] = tx[s].to]
          BY <4>3 DEF CommitApp
        <5>2. tx[s].app = a => tx[s].to = "revoked"
          BY <1>1, <5>1 DEF SettledApp
        <5> QED
          BY <4>1, <5>1, <5>2
      <4> QED
        BY <2>3, <4>1, <4>2, <4>3, CommitWrites
    <3> QED
      BY <1>1, <3>2, <3>3, SettledAppStays
  <2> QED
    BY <1>1, <2>1, <2>2, <2>3 DEF ApplicationNext, Tick, applicationVars, rows
<1>2. ApplicationInv /\ [ApplicationNext]_applicationVars =>
        [\A a \in Apps : SettledApp(a) => SettledApp(a)']_applicationVars
  BY <1>1
<1> QED
  BY <1>2, ApplicationInvariant, PTL DEF ApplicationSpec, RevocationSettles

\* A settled credential stays settled when a request begins or ends.
LEMMA SettledCredentialStays ==
    ASSUME ApplicationInv, NEW c \in Credentials, SettledCredential(c),
           credential'[c].app = credential[c].app, credential'[c].status = "revoked",
           NEW s \in Sessions, \A u \in Sessions \ {s} : tx'[u] = tx[u],
           \/ tx'[s] = Idle
           \/ \E r : Beginnable(s, r) /\ tx'[s] = r
    PROVE  SettledCredential(c)'
<1>1. Idle.op = "idle"
  BY DEF Idle
<1>2. ASSUME NEW r, Beginnable(s, r), r.op \in {"credential", "secret", "grants", "key"},
             r.credential = c
      PROVE  r.op = "credential" /\ ("status" \in r.fields => r.to = "revoked")
  <2>1. credential[c].status = "revoked"
    BY DEF SettledCredential
  <2>2. r.op \notin {"secret", "grants", "key"}
    BY <1>2, <2>1 DEF Beginnable, Validated, NotRevoked
  <2>3. "status" \in r.fields /\ r.op = "credential" => r.to = "revoked"
    BY <1>2, <2>1 DEF Beginnable, Validated, validateStatusTransition
  <2> QED
    BY <1>2, <2>2, <2>3
<1>3. ASSUME NEW u \in Sessions, tx'[u].op \in {"credential", "secret", "grants", "key"},
             tx'[u].credential = c
      PROVE  tx'[u].op = "credential" /\ ("status" \in tx'[u].fields => tx'[u].to = "revoked")
  <2>1. CASE u = s
    BY <1>1, <1>2, <1>3, <2>1
  <2>2. CASE u # s
    BY <1>3, <2>2 DEF SettledCredential
  <2> QED
    BY <2>1, <2>2
<1> QED
  BY <1>3 DEF SettledCredential, Exists

\* What RevokedIsInert says of one credential: rows that are unchanged say it.
Inert(c) ==
    /\ SettledCredential(c)'
    /\ credential'[c].secret = credential[c].secret
    /\ \A k \in Kids : keyStatus'[c][k] = "approved" => keyStatus[c][k] = "approved"
    /\ \A p \in Products :
          /\ grant'[c][p].status = grant[c][p].status
          /\ \/ grant'[c][p].scopes \subseteq grant[c][p].scopes
             \/ \E s \in Sessions :
                  tx[s].op = "product" /\ tx[s].product = p /\ c \in tx[s].trimmed

\* A commit leaves a settled credential, its keys and grants as they are, but
\* for the scopes a product update has trimmed.
LEMMA CommitsAreInert ==
    ASSUME ApplicationInv, NEW c \in Credentials, SettledCredential(c),
           NEW s \in Sessions, Commits(s) \/ Abandon(s)
    PROVE  Inert(c)
<1>1. Done(s)
  BY CommitWrites
<1>2. tx'[s] = Idle /\ \A u \in Sessions \ {s} : tx'[u] = tx[u]
  BY <1>1, DoneEnds
<1>3. /\ Exists(c) /\ credential[c].status = "revoked" /\ tx[s] \in Requests
      /\ tx[s].op \in {"credential", "secret", "grants", "key"} /\ tx[s].credential = c =>
            tx[s].op = "credential" /\ ("status" \in tx[s].fields => tx[s].to = "revoked")
  BY RowTypes DEF SettledCredential, ApplicationInv
<1>4. tx[s].op = "insert" => tx[s].credential # c
  BY <1>3 DEF ApplicationInv, Decided
<1>5. /\ credential'[c].app = credential[c].app /\ credential'[c].status = "revoked"
      /\ credential'[c].secret = credential[c].secret
  <2>1. CASE CommitCredential(s)
    <3>1. tx[s].credential # c
      BY <1>4, <2>1 DEF CommitCredential
    <3>2. credential \in [Credentials -> {NoCredential} \cup CredentialRows]
      BY RowTypes DEF ApplicationInv
    <3>3. credential'[c] = credential[c]
      BY <2>1, <3>1, <3>2 DEF CommitCredential
    <3> QED
      BY <1>3, <3>3
  <2>2. CASE CommitUpdate(s)
    BY <1>3, <2>2, UpdatedCredential
  <2>3. CASE CommitSecret(s)
    <3>1. tx[s].credential # c
      BY <1>3, <2>3 DEF CommitSecret
    <3>2. credential \in [Credentials -> {NoCredential} \cup CredentialRows]
      BY RowTypes DEF ApplicationInv
    <3>3. credential'[c] = credential[c]
      BY <2>3, <3>1, <3>2 DEF CommitSecret
    <3> QED
      BY <1>3, <3>3
  <2> QED
    BY <1>3, <2>1, <2>2, <2>3, CommitWrites
<1>6. SettledCredential(c)'
  BY <1>2, <1>5, SettledCredentialStays
<1>7. keyStatus'[c] = keyStatus[c]
  <2>1. CASE CommitKey(s)
    <3>1. tx[s].credential # c
      BY <1>3, <2>1 DEF CommitKey
    <3>2. keyStatus \in [Credentials -> [Kids -> Statuses \cup {"absent"}]]
      BY RowTypes DEF ApplicationInv
    <3> QED
      BY <2>1, <3>1, <3>2 DEF CommitKey
  <2> QED
    BY <2>1, CommitWrites
<1>8. ASSUME NEW p \in Products
      PROVE  /\ grant'[c][p].status = grant[c][p].status
             /\ \/ grant'[c][p].scopes \subseteq grant[c][p].scopes
                \/ tx[s].op = "product" /\ tx[s].product = p /\ c \in tx[s].trimmed
  <2>1. CASE CommitCredential(s)
    <3>1. tx[s].credential # c
      BY <1>4, <2>1 DEF CommitCredential
    <3>2. grant \in [Credentials -> [Products -> Grants]]
      BY RowTypes DEF ApplicationInv
    <3>3. grant'[c] = grant[c]
      BY <2>1, <3>1, <3>2 DEF CommitCredential
    <3> QED
      BY <3>3
  <2>2. CASE CommitGrants(s)
    <3>1. tx[s].credential # c
      BY <1>3, <2>2 DEF CommitGrants
    <3>2. grant'[c] = grant[c]
      BY <2>2, <3>1, ReplacedGrants
    <3> QED
      BY <3>2
  <2>3. CASE CommitProduct(s)
    <3>1. tx[s].op = "product"
      BY <2>3 DEF CommitProduct
    <3>2. /\ grant'[c][p].status = grant[c][p].status
          /\ ~(c \in tx[s].trimmed /\ p = tx[s].product) => grant'[c][p] = grant[c][p]
      BY <2>3, UpdatedProduct
    <3> QED
      BY <3>1, <3>2
  <2> QED
    BY <2>1, <2>2, <2>3, CommitWrites
<1> QED
  BY <1>5, <1>6, <1>7, <1>8 DEF Inert

LEMMA RequestsAreInert ==
    ASSUME ApplicationInv, NEW c \in Credentials, SettledCredential(c),
           NEW s \in Sessions, ApplicationRequests(s)
    PROVE  Inert(c)
<1>1. Exists(c) /\ credential[c].status = "revoked"
  BY DEF SettledCredential
<1>2. CASE \E r : Beginnable(s, r) /\ Begin(s, r)
  <2>1. PICK r : Beginnable(s, r) /\ Begin(s, r)
    BY <1>2
  <2>2. tx' = [tx EXCEPT ![s] = r] /\ UNCHANGED <<credential, grant, keyStatus>>
    BY <2>1 DEF Begin, rows
  <2>3. tx'[s] = r /\ \A u \in Sessions \ {s} : tx'[u] = tx[u]
    BY <2>2, RowTypes DEF ApplicationInv
  <2>4. SettledCredential(c)'
    BY <1>1, <2>1, <2>2, <2>3, SettledCredentialStays
  <2> QED
    BY <2>2, <2>4 DEF Inert
<1>3. CASE \E d \in Credentials, k \in Kids : revokeManagedPublicKey(d, k)
  <2>1. PICK d \in Credentials, k \in Kids : revokeManagedPublicKey(d, k)
    BY <1>3
  <2>2. UNCHANGED <<credential, grant, tx>> /\ keyStatus' = [keyStatus EXCEPT ![d][k] = "revoked"]
    BY <2>1 DEF revokeManagedPublicKey
  <2>3. keyStatus \in [Credentials -> [Kids -> Statuses \cup {"absent"}]]
    BY RowTypes DEF ApplicationInv
  <2>4. \A j \in Kids : keyStatus'[c][j] = "approved" => keyStatus[c][j] = "approved"
    BY <2>2, <2>3
  <2>5. SettledCredential(c)'
    BY <2>2 DEF SettledCredential, Exists
  <2> QED
    BY <2>2, <2>4, <2>5 DEF Inert
<1>4. CASE \E p \in Products, active \in BOOLEAN, scopes \in SUBSET Scopes,
              proxies \in SUBSET Proxies, environments \in SUBSET Environments :
                 createProduct(s, p, active, scopes, proxies, environments)
  <2>1. UNCHANGED <<credential, grant, keyStatus, tx>>
    BY <1>4 DEF createProduct
  <2> QED
    BY <2>1 DEF Inert, SettledCredential, Exists
<1> QED
  BY <1>2, <1>3, <1>4, RequestOutcomes

\* No step gives a settled credential a secret, key, grant or scope, but for
\* the scopes of a product update that read the grant before.
THEOREM ApplicationRevokedIsInert == ApplicationSpec => RevokedIsInert
<1>1. ASSUME ApplicationInv, [ApplicationNext]_applicationVars,
             NEW c \in Credentials, SettledCredential(c)
      PROVE  Inert(c)
  <2>1. CASE UNCHANGED <<credential, grant, keyStatus, tx>>
    BY <1>1, <2>1 DEF Inert, SettledCredential, Exists
  <2> QED
    BY <1>1, <2>1, CommitsAreInert, RequestsAreInert
       DEF ApplicationNext, Tick, applicationVars, rows
<1>2. ApplicationInv /\ [ApplicationNext]_applicationVars =>
        [\A c \in Credentials : SettledCredential(c) =>
          /\ SettledCredential(c)'
          /\ credential'[c].secret = credential[c].secret
          /\ \A k \in Kids : keyStatus'[c][k] = "approved" => keyStatus[c][k] = "approved"
          /\ \A p \in Products :
                /\ grant'[c][p].status = grant[c][p].status
                /\ \/ grant'[c][p].scopes \subseteq grant[c][p].scopes
                   \/ \E s \in Sessions :
                        tx[s].op = "product" /\ tx[s].product = p /\ c \in tx[s].trimmed]_applicationVars
  BY <1>1 DEF Inert
<1> QED
  BY <1>2, ApplicationInvariant, PTL DEF ApplicationSpec, RevokedIsInert
=============================================================================
