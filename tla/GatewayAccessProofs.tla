-------------------------- MODULE GatewayAccessProofs --------------------------
(***************************************************************************)
(* Proofs about GatewayAccess, for every number of calls and sessions and  *)
(* every product catalogue.                                                *)
(*                                                                         *)
(* A call reads its rows one after the other.  What it has read so far is  *)
(* tied to what was true at some moment since it began (ReadSoFar): each   *)
(* row is true when it is read, and what was true is remembered for as     *)
(* long as the call runs (StaysRead).  That rows are not removed and       *)
(* credentials keep their application comes from the invariant of          *)
(* Applications.                                                           *)
(***************************************************************************)
EXTENDS GatewayAccess, ApplicationsProofs

\* A credential keeps its application whatever administrators do.
LEMMA CredentialsStay ==
    ASSUME ApplicationInv, [ApplicationNext]_applicationVars,
           NEW c \in Credentials, Exists(c)
    PROVE  credential'[c].app = credential[c].app
<1>1. CASE UNCHANGED credential
  BY <1>1
<1>2. ASSUME NEW s \in Sessions, ApplicationRequests(s)
      PROVE  UNCHANGED credential
  BY <1>2, RequestOutcomes DEF Begin, rows, revokeManagedPublicKey, createProduct
<1>3. ASSUME NEW s \in Sessions, Commits(s) \/ Abandon(s)
      PROVE  credential'[c].app = credential[c].app
  <2>1. credential \in [Credentials -> {NoCredential} \cup CredentialRows]
    BY RowTypes DEF ApplicationInv
  <2>2. CASE CommitCredential(s)
    <3>1. tx[s].credential # c
      BY <2>2 DEF CommitCredential, ApplicationInv, Decided
    <3> QED
      BY <2>1, <2>2, <3>1 DEF CommitCredential
  <2>3. CASE CommitUpdate(s)
    BY <2>3, UpdatedCredential
  <2>4. CASE CommitSecret(s)
    <3>1. PICK row : row = [credential[tx[s].credential] EXCEPT !.secret = @ + 1]
      OBVIOUS
    <3>2. credential' = [credential EXCEPT ![tx[s].credential] = row]
      BY <2>4, <3>1 DEF CommitSecret
    <3>3. tx[s].credential = c => row.app = credential[c].app
      BY <2>1, <3>1, ExistingRows DEF ApplicationInv, CredentialRows
    <3> QED
      BY <2>1, <3>2, <3>3
  <2> QED
    BY <1>1, <1>3, <2>2, <2>3, <2>4, CommitWrites
<1> QED
  BY <1>1, <1>2, <1>3 DEF ApplicationNext, Tick, applicationVars, rows

LEMMA TimePasses ==
    ASSUME ApplicationInv, [ApplicationNext]_applicationVars
    PROVE  now' \in Nat /\ now \in Nat /\ now <= now'
<1>1. now \in Nat
  BY RowTypes, ApplicationAssumption DEF ApplicationInv
<1>2. ASSUME NEW s \in Sessions, ApplicationRequests(s) \/ Commits(s) \/ Abandon(s)
      PROVE  UNCHANGED now
  <2>1. CASE ApplicationRequests(s)
    BY <2>1, RequestOutcomes DEF Begin, revokeManagedPublicKey, createProduct
  <2>2. CASE Commits(s) \/ Abandon(s)
    BY <2>2, CommitWrites DEF Done
  <2> QED
    BY <1>2, <2>1, <2>2
<1> QED
  BY <1>1, <1>2 DEF ApplicationNext, Tick, applicationVars

-----------------------------------------------------------------------------
(* The inductive invariant *)

\* What history remembers: everything that is true while a call runs, and
\* when each credential was last good, its application approved, its
\* workspace open.
Remembered ==
    /\ \A g \in Calls : call[g] # NoCall => \A c \in Credentials : FactsNow(c) \subseteq seen[g]
    /\ \A c \in Credentials :
          /\ lastGood[c] \in Int /\ lastGood[c] <= now
          /\ lastApproved[c] \in Int /\ lastApproved[c] <= now
          /\ lastOpen[c] \in Int /\ lastOpen[c] <= now
          /\ IsGood(c) => lastGood[c] = now
          /\ IsApproved(c) => lastApproved[c] = now
          /\ IsOpen(c) => lastOpen[c] = now

CallFields ==
    {"phase", "kind", "key", "proof", "proxy", "environment", "host", "since",
     "c", "row", "status", "open", "granted", "active", "declared",
     "proxies", "environments", "signer"}

\* A call k is as old as it may be.
IsCall(k) ==
    /\ DOMAIN k = CallFields
    /\ k.phase \in {"asked", "row", "app", "workspace", "grants", "products", "proxies",
                    "read", "checked"}
    /\ k.environment \in Environments
    /\ k.kind = "assertion" => k.proof \in Kids
    /\ k.since \in Nat /\ k.since <= now /\ now - k.since <= MaxLatency

\* The row k has of its credential is one it had since the call began.
RowWasRead(k, g) ==
    k.phase # "asked" =>
        /\ k.c \in Credentials /\ Exists(k.c)
        /\ k.row \in CredentialRows /\ k.row.app = credential[k.c].app
        /\ k.row.status = "approved" /\ k.row.expires > now =>
              /\ <<"credential", k.c, k.row.key>> \in seen[g]
              /\ <<"secret", k.c, k.row.secret>> \in seen[g]
              /\ k.since <= lastGood[k.c]

\* So are the status of its application and the state of its workspace.
AppWasRead(k, g) ==
    k.status = "approved" =>
        k.phase # "asked" /\ <<"app", k.c>> \in seen[g] /\ k.since <= lastApproved[k.c]

WorkspaceWasRead(k, g) ==
    /\ k.open => k.phase # "asked" /\ <<"open", k.c>> \in seen[g] /\ k.since <= lastOpen[k.c]
    /\ k.phase \notin {"asked", "row", "app"} /\ HostOf[OrgOf[k.row.app]] = Standard => k.open

\* And its grants.
GrantsWereRead(k, g) ==
    \A p \in Products :
        /\ k.granted[p].status = "approved" =>
              k.phase # "asked" /\ <<"grant", k.c, p>> \in seen[g]
        /\ \A x \in k.granted[p].scopes :
              k.phase # "asked" /\ <<"scope", k.c, p, x>> \in seen[g]

\* And the products' rows, proxies and environments.
ProductsWereRead(k, g) ==
    \A p \in Products :
        /\ p \in k.active => <<"active", p>> \in seen[g]
        /\ \A x \in k.declared[p] : <<"declares", p, x>> \in seen[g]

ProxiesWereRead(k, g) ==
    \A p \in Products : \A x \in k.proxies[p] :
        OrgOf[x] = OrgOf[p] /\ <<"bundles", p, x>> \in seen[g]

EnvironmentsWereRead(k, g) ==
    k.phase \in {"read", "checked"} =>
        \A p \in Products, e \in Environments :
            k.environments[p] = {} \/ e \in k.environments[p] => <<"for", p, e>> \in seen[g]

\* A client that was checked was good when it was, and so was its proof.
ClientWasChecked(k, g) ==
    k.phase = "checked" =>
        /\ <<"credential", k.c, k.row.key>> \in seen[g] /\ k.status = "approved"
        /\ k.since <= lastGood[k.c]
        /\ k.kind = "secret" => <<"secret", k.c, k.proof>> \in seen[g]
        /\ k.kind = "assertion" /\ k.signer = "approved" => <<"key", k.c, k.proof>> \in seen[g]

ReadSoFar(k, g) ==
    /\ IsCall(k)
    /\ RowWasRead(k, g)
    /\ AppWasRead(k, g)
    /\ WorkspaceWasRead(k, g)
    /\ GrantsWereRead(k, g)
    /\ ProductsWereRead(k, g)
    /\ ProxiesWereRead(k, g)
    /\ EnvironmentsWereRead(k, g)
    /\ ClientWasChecked(k, g)

\* A token is earned, outlives neither its credential nor its application or
\* workspace by more than its lifetime and a call, and names its own host's
\* proxies.
TokenIsSound(t) ==
    /\ t.earned = TRUE
    /\ t.credential \in Credentials /\ t.expires \in Int
    /\ t.expires <= lastGood[t.credential] + TTL + MaxLatency
    /\ t.expires <= lastApproved[t.credential] + TTL + MaxLatency
    /\ t.expires <= lastOpen[t.credential] + TTL + MaxLatency
    /\ \A x \in t.proxies : t.host = HostOf[OrgOf[x]]

AccessInv ==
    /\ ApplicationInv
    /\ DOMAIN call = Calls /\ call = [g \in Calls |-> call[g]]
    /\ Standard \notin ended
    /\ Remembered
    /\ \A g \in Calls : call[g] # NoCall => ReadSoFar(call[g], g)
    /\ \A t \in tokens : TokenIsSound(t)

LEMMA AccessInitially == AccessInit => AccessInv
<1> SUFFICES ASSUME AccessInit PROVE AccessInv
  OBVIOUS
<1>1. ApplicationInit /\ ApplicationInv
  BY ApplicationInitially DEF AccessInit
<1>2. \A c \in Credentials : ~Exists(c)
  BY <1>1 DEF ApplicationInit, Exists, NoCredential
<1>3. now = 0
  BY <1>1 DEF ApplicationInit
<1>4. Remembered
  BY <1>2, <1>3 DEF AccessInit, Remembered, IsGood, IsApproved, IsOpen
<1> QED
  BY <1>1, <1>4 DEF AccessInit, AccessInv

-----------------------------------------------------------------------------
(* What history remembers *)

\* The facts, one by one: those of credential c,
LEMMA Facts ==
    ASSUME NEW c \in Credentials
    PROVE  /\ IsGood(c) => /\ <<"credential", c, credential[c].key>> \in FactsNow(c)
                           /\ <<"secret", c, credential[c].secret>> \in FactsNow(c)
           /\ IsApproved(c) => <<"app", c>> \in FactsNow(c)
           /\ IsOpen(c) => <<"open", c>> \in FactsNow(c)
           /\ \A k \in Kids : keyStatus[c][k] = "approved" => <<"key", c, k>> \in FactsNow(c)
           /\ \A p \in Products : grant[c][p].status = "approved" => <<"grant", c, p>> \in FactsNow(c)
           /\ \A p \in Products : \A x \in grant[c][p].scopes : <<"scope", c, p, x>> \in FactsNow(c)
<1>1. IsGood(c) => /\ <<"credential", c, credential[c].key>> \in FactsNow(c)
                   /\ <<"secret", c, credential[c].secret>> \in FactsNow(c)
  BY DEF FactsNow
<1>2. /\ IsApproved(c) => <<"app", c>> \in FactsNow(c)
      /\ IsOpen(c) => <<"open", c>> \in FactsNow(c)
  BY DEF FactsNow
<1>3. \A k \in Kids : keyStatus[c][k] = "approved" => <<"key", c, k>> \in FactsNow(c)
  BY DEF FactsNow
<1>4. \A p \in Products : grant[c][p].status = "approved" => <<"grant", c, p>> \in FactsNow(c)
  BY DEF FactsNow
<1>5. \A p \in Products : \A x \in grant[c][p].scopes : <<"scope", c, p, x>> \in FactsNow(c)
  BY DEF FactsNow
<1> QED
  BY <1>1, <1>2, <1>3, <1>4, <1>5

\* and those of product p.
LEMMA FactsOfProducts ==
    ASSUME NEW c \in Credentials, NEW p \in Products
    PROVE  /\ product[p].active => <<"active", p>> \in FactsNow(c)
           /\ \A x \in product[p].scopes : <<"declares", p, x>> \in FactsNow(c)
           /\ \A x \in product[p].proxies : <<"bundles", p, x>> \in FactsNow(c)
           /\ \A e \in Environments :
                 product[p].environments = {} \/ e \in product[p].environments =>
                     <<"for", p, e>> \in FactsNow(c)
<1>1. ProductFacts(p) \subseteq FactsNow(c)
  BY DEF FactsNow
<1>2. product[p].active => <<"active", p>> \in ProductFacts(p)
  BY DEF ProductFacts
<1>3. \A x \in product[p].scopes : <<"declares", p, x>> \in ProductFacts(p)
  BY DEF ProductFacts
<1>4. \A x \in product[p].proxies : <<"bundles", p, x>> \in ProductFacts(p)
  BY DEF ProductFacts
<1>5. \A e \in Environments :
         product[p].environments = {} \/ e \in product[p].environments =>
             <<"for", p, e>> \in ProductFacts(p)
  BY DEF ProductFacts
<1> QED
  BY <1>1, <1>2, <1>3, <1>4, <1>5

\* A step remembers what is true after it and forgets nothing of a call.
LEMMA StepRemembers ==
    ASSUME AccessInv, Remember, now' \in Nat, now <= now'
    PROVE  /\ Remembered'
           /\ \A g \in Calls : call[g] # NoCall /\ call'[g] # NoCall => seen[g] \subseteq seen'[g]
           /\ \A c \in Credentials :
                 /\ lastGood[c] <= lastGood'[c] /\ lastGood[c] \in Int /\ lastGood'[c] \in Int
                 /\ lastApproved[c] <= lastApproved'[c]
                 /\ lastApproved[c] \in Int /\ lastApproved'[c] \in Int
                 /\ lastOpen[c] <= lastOpen'[c] /\ lastOpen[c] \in Int /\ lastOpen'[c] \in Int
<1>1. ASSUME NEW g \in Calls, call'[g] # NoCall
      PROVE  /\ \A c \in Credentials : FactsNow(c)' \subseteq seen'[g]
             /\ call[g] # NoCall => seen[g] \subseteq seen'[g]
  <2>1. seen'[g] = (UNION {FactsNow(c)' : c \in Credentials})
                       \cup (IF call[g] = NoCall THEN {} ELSE seen[g])
    BY <1>1 DEF Remember
  <2> QED
    BY <2>1
<1>2. now \in Nat
  BY RowTypes, ApplicationAssumption DEF AccessInv, ApplicationInv
<1>3. ASSUME NEW c \in Credentials
      PROVE  /\ lastGood'[c] \in Int /\ lastGood'[c] <= now' /\ lastGood[c] <= lastGood'[c]
             /\ IsGood(c)' => lastGood'[c] = now'
  <2>1. lastGood[c] \in Int /\ lastGood[c] <= now
    BY DEF AccessInv, Remembered
  <2>2. lastGood'[c] = IF IsGood(c)' THEN now' ELSE lastGood[c]
    BY DEF Remember
  <2> QED
    BY <1>2, <2>1, <2>2
<1>4. ASSUME NEW c \in Credentials
      PROVE  /\ lastApproved'[c] \in Int /\ lastApproved'[c] <= now'
             /\ lastApproved[c] <= lastApproved'[c]
             /\ IsApproved(c)' => lastApproved'[c] = now'
  <2>1. lastApproved[c] \in Int /\ lastApproved[c] <= now
    BY DEF AccessInv, Remembered
  <2>2. lastApproved'[c] = IF IsApproved(c)' THEN now' ELSE lastApproved[c]
    BY DEF Remember
  <2> QED
    BY <1>2, <2>1, <2>2
<1>5. ASSUME NEW c \in Credentials
      PROVE  /\ lastOpen'[c] \in Int /\ lastOpen'[c] <= now' /\ lastOpen[c] <= lastOpen'[c]
             /\ IsOpen(c)' => lastOpen'[c] = now'
  <2>1. lastOpen[c] \in Int /\ lastOpen[c] <= now
    BY DEF AccessInv, Remembered
  <2>2. lastOpen'[c] = IF IsOpen(c)' THEN now' ELSE lastOpen[c]
    BY DEF Remember
  <2> QED
    BY <1>2, <2>1, <2>2
<1>6. \A c \in Credentials : lastGood[c] \in Int /\ lastApproved[c] \in Int /\ lastOpen[c] \in Int
  BY DEF AccessInv, Remembered
<1> QED
  BY <1>1, <1>3, <1>4, <1>5, <1>6 DEF Remembered

-----------------------------------------------------------------------------
(* What a step leaves alone *)

\* What was read of a call stays tied to its history, whatever changes.
LEMMA StaysRead ==
    ASSUME AccessInv, Remember, now' \in Nat, now <= now',
           \A c \in Credentials : Exists(c) => credential'[c].app = credential[c].app,
           NEW g \in Calls, call[g] # NoCall, call'[g] # NoCall,
           NEW k, ReadSoFar(k, g), now' - k.since <= MaxLatency
    PROVE  ReadSoFar(k, g)'
<1>1. now \in Nat
  BY RowTypes, ApplicationAssumption DEF AccessInv, ApplicationInv
<1>2. seen[g] \subseteq seen'[g]
  BY StepRemembers
<1>3. k.since \in Nat /\ k.since <= now
  BY DEF ReadSoFar, IsCall
<1>4. ASSUME k.c \in Credentials
      PROVE  /\ k.since <= lastGood[k.c] => k.since <= lastGood'[k.c]
             /\ k.since <= lastApproved[k.c] => k.since <= lastApproved'[k.c]
             /\ k.since <= lastOpen[k.c] => k.since <= lastOpen'[k.c]
  BY <1>3, <1>4, StepRemembers
<1>5. IsCall(k)'
  BY <1>1, <1>3 DEF ReadSoFar, IsCall
<1>6. RowWasRead(k, g)'
  <2>1. SUFFICES ASSUME k.phase # "asked"
                 PROVE  /\ k.c \in Credentials /\ credential'[k.c].app # NoApp
                        /\ k.row \in CredentialRows /\ k.row.app = credential'[k.c].app
                        /\ k.row.status = "approved" /\ k.row.expires > now' =>
                              /\ <<"credential", k.c, k.row.key>> \in seen'[g]
                              /\ <<"secret", k.c, k.row.secret>> \in seen'[g]
                              /\ k.since <= lastGood'[k.c]
    BY DEF RowWasRead, Exists
  <2>2. /\ k.c \in Credentials /\ Exists(k.c)
        /\ k.row \in CredentialRows /\ k.row.app = credential[k.c].app
        /\ k.row.status = "approved" /\ k.row.expires > now =>
              /\ <<"credential", k.c, k.row.key>> \in seen[g]
              /\ <<"secret", k.c, k.row.secret>> \in seen[g]
              /\ k.since <= lastGood[k.c]
    BY <2>1 DEF ReadSoFar, RowWasRead
  <2>3. credential'[k.c].app = k.row.app /\ credential'[k.c].app # NoApp
    BY <2>2 DEF Exists
  <2>4. k.row.expires \in Nat
    BY <2>2, NeverNat DEF CredentialRows
  <2>5. k.row.expires > now' => k.row.expires > now
    BY <1>1, <2>4
  <2> QED
    BY <1>2, <1>4, <2>2, <2>3, <2>5
<1>7. k.phase # "asked" => k.c \in Credentials
  BY DEF ReadSoFar, RowWasRead
<1>8. AppWasRead(k, g)'
  BY <1>2, <1>4, <1>7 DEF ReadSoFar, AppWasRead
<1>9. WorkspaceWasRead(k, g)'
  BY <1>2, <1>4, <1>7 DEF ReadSoFar, WorkspaceWasRead
<1>10. GrantsWereRead(k, g)' /\ ProductsWereRead(k, g)'
  BY <1>2 DEF ReadSoFar, GrantsWereRead, ProductsWereRead
<1>11. ProxiesWereRead(k, g)' /\ EnvironmentsWereRead(k, g)'
  BY <1>2 DEF ReadSoFar, ProxiesWereRead, EnvironmentsWereRead
<1>12. ClientWasChecked(k, g)'
  BY <1>2, <1>4, <1>7 DEF ReadSoFar, ClientWasChecked
<1> QED
  BY <1>5, <1>6, <1>8, <1>9, <1>10, <1>11, <1>12 DEF ReadSoFar

\* Tokens stay sound.
LEMMA TokensStay ==
    ASSUME AccessInv, Remember, now' \in Nat, now <= now', NEW t \in tokens
    PROVE  TokenIsSound(t)'
<1>1. TokenIsSound(t)
  BY DEF AccessInv
<1>2. /\ lastGood[t.credential] \in Int /\ lastGood'[t.credential] \in Int
      /\ lastApproved[t.credential] \in Int /\ lastApproved'[t.credential] \in Int
      /\ lastOpen[t.credential] \in Int /\ lastOpen'[t.credential] \in Int
      /\ lastGood[t.credential] <= lastGood'[t.credential]
      /\ lastApproved[t.credential] <= lastApproved'[t.credential]
      /\ lastOpen[t.credential] <= lastOpen'[t.credential]
  BY <1>1, StepRemembers DEF TokenIsSound
<1> QED
  BY <1>1, <1>2, AccessAssumption DEF TokenIsSound

\* A step that moves one call, if any, and keeps the tokens.
LEMMA CallKeeps ==
    ASSUME AccessInv, Remember, UNCHANGED <<applicationVars, ended>>,
           NEW g \in Calls, NEW k, call' = [call EXCEPT ![g] = k],
           k # NoCall => ReadSoFar(k, g)',
           \A t \in tokens' \ tokens : TokenIsSound(t)'
    PROVE  AccessInv'
<1>1. now \in Nat /\ now' = now /\ now <= now'
  BY RowTypes, ApplicationAssumption DEF AccessInv, ApplicationInv, applicationVars
<1>2. ApplicationInv'
  <2>1. [ApplicationNext]_applicationVars
    BY DEF applicationVars
  <2> QED
    BY <2>1, ApplicationStep DEF AccessInv
<1>3. /\ DOMAIN call' = Calls /\ call' = [h \in Calls |-> call'[h]]
      /\ call'[g] = k /\ \A h \in Calls \ {g} : call'[h] = call[h]
  BY DEF AccessInv
<1>4. ASSUME NEW h \in Calls, call'[h] # NoCall PROVE ReadSoFar(call[h], h)'
  <2>1. CASE h = g
    BY <1>3, <1>4, <2>1
  <2>2. CASE h # g
    <3>1. PICK old : old = call[h]
      OBVIOUS
    <3>2. call'[h] = old /\ call[h] # NoCall
      BY <1>3, <1>4, <2>2, <3>1
    <3>3. ReadSoFar(old, h)
      BY <3>1, <3>2 DEF AccessInv
    <3>4. now' - old.since <= MaxLatency
      BY <1>1, <3>3 DEF ReadSoFar, IsCall
    <3>5. UNCHANGED credential
      BY DEF applicationVars, rows
    <3>6. ReadSoFar(old, h)'
      BY <1>1, <1>4, <3>2, <3>3, <3>4, <3>5, StaysRead
    <3> QED
      BY <3>2, <3>6
  <2> QED
    BY <2>1, <2>2
<1>5. \A t \in tokens' : TokenIsSound(t)'
  BY <1>1, TokensStay
<1>6. Remembered'
  BY <1>1, StepRemembers
<1> QED
  BY <1>2, <1>3, <1>4, <1>5, <1>6 DEF AccessInv

-----------------------------------------------------------------------------
(* The steps of a call *)

LEMMA CallFunction ==
    ASSUME AccessInv, NEW g \in Calls, NEW k
    PROVE  [call EXCEPT ![g] = k][g] = k
BY DEF AccessInv

\* A new call has read nothing.
LEMMA AskKeeps ==
    ASSUME AccessInv, Remember, NEW g \in Calls, NEW kind \in Kinds, NEW key \in Keys,
           NEW x \in Proxies, NEW e \in Environments, NEW h \in Hosts, NEW proof,
           kind = "assertion" => proof \in Kids,
           Ask(g, kind, key, proof, x, e, h)
    PROVE  AccessInv'
<1>1. PICK k : k = NewCall(kind, key, proof, x, e, h)
  OBVIOUS
<1>2. call' = [call EXCEPT ![g] = k] /\ UNCHANGED <<applicationVars, tokens, ended>>
  BY <1>1 DEF Ask, rest
<1>3. now \in Nat /\ now' = now
  BY <1>2, RowTypes, ApplicationAssumption DEF AccessInv, ApplicationInv, applicationVars
<1>4. /\ DOMAIN k = CallFields /\ k.phase = "asked" /\ k.kind = kind /\ k.proof = proof
      /\ k.environment = e /\ k.since = now
  BY <1>1 DEF NewCall, CallFields
<1>5. /\ k.status = "absent" /\ k.open = FALSE /\ k.active = {}
      /\ k.granted = [p \in Products |-> NoGrant] /\ k.declared = [p \in Products |-> {}]
      /\ k.proxies = [p \in Products |-> {}]
  BY <1>1 DEF NewCall
<1>6. IsCall(k)'
  BY <1>3, <1>4, AccessAssumption DEF IsCall
<1>7. RowWasRead(k, g)' /\ AppWasRead(k, g)' /\ WorkspaceWasRead(k, g)'
  BY <1>4, <1>5 DEF RowWasRead, AppWasRead, WorkspaceWasRead
<1>8. GrantsWereRead(k, g)' /\ ProductsWereRead(k, g)' /\ ProxiesWereRead(k, g)'
  BY <1>5 DEF GrantsWereRead, ProductsWereRead, ProxiesWereRead, NoGrant
<1>9. EnvironmentsWereRead(k, g)' /\ ClientWasChecked(k, g)'
  BY <1>4 DEF EnvironmentsWereRead, ClientWasChecked
<1>10. ReadSoFar(k, g)'
  BY <1>6, <1>7, <1>8, <1>9 DEF ReadSoFar
<1> QED
  BY <1>2, <1>10, CallKeeps

\* A call is over.
LEMMA EndKeepsAccess ==
    ASSUME AccessInv, Remember, NEW g \in Calls, Reads(g, NoCall)
    PROVE  AccessInv'
BY CallKeeps DEF Reads, rest

\* What reading steps share: the call goes on from k, and what is true is seen.
LEMMA Reading ==
    ASSUME AccessInv, Remember, NEW g \in Calls, NEW old, old = call[g],
           old.phase # "idle", NEW k, k # NoCall, Reads(g, k)
    PROVE  /\ call' = [call EXCEPT ![g] = k]
           /\ UNCHANGED <<applicationVars, tokens, ended, credential, grant, keyStatus, product>>
           /\ now \in Nat /\ now' = now
           /\ ReadSoFar(old, g) /\ ReadSoFar(old, g)'
           /\ \A c \in Credentials : FactsNow(c) \subseteq seen'[g]
           /\ \A c \in Credentials :
                 /\ IsGood(c) => old.since <= lastGood'[c]
                 /\ IsApproved(c) => old.since <= lastApproved'[c]
                 /\ IsOpen(c) => old.since <= lastOpen'[c]
<1>1. /\ call' = [call EXCEPT ![g] = k] /\ UNCHANGED <<applicationVars, tokens, ended>>
  BY DEF Reads, rest
<1>2. UNCHANGED <<credential, grant, keyStatus, product>>
  BY <1>1 DEF applicationVars, rows
<1>3. call[g] # NoCall /\ call'[g] # NoCall
  BY <1>1, CallFunction DEF NoCall
<1>4. now \in Nat /\ now' = now /\ now <= now'
  BY <1>1, RowTypes, ApplicationAssumption DEF AccessInv, ApplicationInv, applicationVars
<1>5. ReadSoFar(old, g)
  BY <1>3 DEF AccessInv
<1>6. old.since \in Nat /\ old.since <= now /\ now' - old.since <= MaxLatency
  BY <1>4, <1>5 DEF ReadSoFar, IsCall
<1>7. ReadSoFar(old, g)'
  BY <1>2, <1>3, <1>4, <1>5, <1>6, StaysRead
<1>8. ASSUME NEW c \in Credentials
      PROVE  /\ IsGood(c) => old.since <= lastGood'[c]
             /\ IsApproved(c) => old.since <= lastApproved'[c]
             /\ IsOpen(c) => old.since <= lastOpen'[c]
  <2>1. /\ IsGood(c) => lastGood[c] = now
        /\ IsApproved(c) => lastApproved[c] = now
        /\ IsOpen(c) => lastOpen[c] = now
    BY DEF AccessInv, Remembered
  <2>2. /\ lastGood[c] <= lastGood'[c] /\ lastGood[c] \in Int /\ lastGood'[c] \in Int
        /\ lastApproved[c] <= lastApproved'[c]
        /\ lastApproved[c] \in Int /\ lastApproved'[c] \in Int
        /\ lastOpen[c] <= lastOpen'[c] /\ lastOpen[c] \in Int /\ lastOpen'[c] \in Int
    BY <1>4, StepRemembers
  <2> QED
    BY <1>4, <1>6, <2>1, <2>2
<1>9. \A c \in Credentials : FactsNow(c) \subseteq seen'[g]
  BY <1>3, <1>4, StepRemembers DEF AccessInv, Remembered
<1> QED
  BY <1>1, <1>2, <1>4, <1>5, <1>7, <1>8, <1>9

\* Two calls differ in these fields only.
Same(k, old, F) == DOMAIN k = CallFields /\ \A f \in CallFields \ F : k[f] = old[f]

LEMMA ReadRowKeeps ==
    ASSUME AccessInv, Remember, NEW g \in Calls, ReadRow(g)
    PROVE  AccessInv'
<1>1. PICK old : old = call[g]
  OBVIOUS
<1>2. PICK c \in Credentials :
         /\ Exists(c)
         /\ Reads(g, [old EXCEPT !.phase = "row", !.c = c, !.row = credential[c]])
  BY <1>1 DEF ReadRow
<1>3. PICK k : k = [old EXCEPT !.phase = "row", !.c = c, !.row = credential[c]]
  OBVIOUS
<1>4. Reads(g, k) /\ old.phase = "asked" /\ old # NoCall
  BY <1>1, <1>2, <1>3 DEF ReadRow, NoCall
<1>5. ReadSoFar(old, g)
  BY <1>1, <1>4 DEF AccessInv
<1>6. Same(k, old, {"phase", "c", "row"}) /\ k.phase = "row" /\ k.c = c /\ k.row = credential[c]
  BY <1>3, <1>5 DEF Same, CallFields, ReadSoFar, IsCall
<1>7. k # NoCall
  BY <1>6 DEF NoCall
<1>8. /\ call' = [call EXCEPT ![g] = k]
      /\ UNCHANGED <<applicationVars, tokens, ended, credential>>
      /\ now \in Nat /\ now' = now /\ ReadSoFar(old, g)'
      /\ FactsNow(c) \subseteq seen'[g] /\ (IsGood(c) => old.since <= lastGood'[c])
  BY <1>1, <1>4, <1>7, Reading
<1>9. /\ k.kind = old.kind /\ k.proof = old.proof /\ k.since = old.since
      /\ k.environment = old.environment /\ k.status = old.status /\ k.open = old.open
      /\ k.granted = old.granted /\ k.active = old.active /\ k.declared = old.declared
      /\ k.proxies = old.proxies
  BY <1>6 DEF Same, CallFields
<1>10. IsCall(k)'
  BY <1>6, <1>8, <1>9 DEF Same, ReadSoFar, IsCall
<1>11. RowWasRead(k, g)'
  <2>1. credential[c] \in CredentialRows
    BY <1>2, ExistingRows DEF AccessInv, ApplicationInv
  <2>2. credential[c].status = "approved" /\ credential[c].expires > now' =>
           /\ <<"credential", c, credential[c].key>> \in seen'[g]
           /\ <<"secret", c, credential[c].secret>> \in seen'[g]
           /\ old.since <= lastGood'[c]
    BY <1>2, <1>8, Facts DEF IsGood
  <2> QED
    BY <1>2, <1>6, <1>8, <1>9, <2>1, <2>2 DEF RowWasRead, Exists
<1>12. AppWasRead(k, g)' /\ WorkspaceWasRead(k, g)'
  BY <1>4, <1>6, <1>8, <1>9 DEF ReadSoFar, AppWasRead, WorkspaceWasRead
<1>13. GrantsWereRead(k, g)'
  BY <1>4, <1>8, <1>9 DEF ReadSoFar, GrantsWereRead
<1>14. ProductsWereRead(k, g)' /\ ProxiesWereRead(k, g)'
  BY <1>8, <1>9 DEF ReadSoFar, ProductsWereRead, ProxiesWereRead
<1>15. EnvironmentsWereRead(k, g)' /\ ClientWasChecked(k, g)'
  BY <1>6 DEF EnvironmentsWereRead, ClientWasChecked
<1>16. ReadSoFar(k, g)'
  BY <1>10, <1>11, <1>12, <1>13, <1>14, <1>15 DEF ReadSoFar
<1> QED
  BY <1>8, <1>16, CallKeeps

\* What later reading leaves alone, and the phases it leads through.
RowFields == {"kind", "proof", "since", "environment", "c", "row"}
LaterPhases == {"app", "workspace", "grants", "products", "proxies", "read", "checked"}

\* What a call k that goes on from old keeps and sees.
GoesOn(old, k, g) ==
    /\ call' = [call EXCEPT ![g] = k] /\ UNCHANGED <<applicationVars, tokens, ended>>
    /\ k.kind = old.kind /\ k.proof = old.proof /\ k.since = old.since
    /\ k.environment = old.environment /\ k.c = old.c /\ k.row = old.row
    /\ k.c \in Credentials /\ Exists(k.c) /\ k.row.app = credential[k.c].app
    /\ ReadSoFar(old, g) /\ ReadSoFar(old, g)'
    /\ FactsNow(k.c) \subseteq seen'[g]
    /\ IsApproved(k.c) => k.since <= lastApproved'[k.c]
    /\ IsOpen(k.c) => k.since <= lastOpen'[k.c]
    /\ IsCall(k)' /\ RowWasRead(k, g)'

LEMMA ReadingOn ==
    ASSUME AccessInv, Remember, NEW g \in Calls, NEW old, old = call[g],
           old.phase \notin {"idle", "asked"},
           NEW k, NEW F, Same(k, old, F), Reads(g, k),
           F \cap RowFields = {}, k.phase \in LaterPhases
    PROVE  GoesOn(old, k, g)
<1>1. k # NoCall
  BY DEF NoCall, LaterPhases
<1>2. /\ call' = [call EXCEPT ![g] = k] /\ UNCHANGED <<applicationVars, tokens, ended>>
      /\ now \in Nat /\ now' = now
      /\ ReadSoFar(old, g) /\ ReadSoFar(old, g)'
      /\ \A c \in Credentials : FactsNow(c) \subseteq seen'[g]
      /\ \A c \in Credentials :
            /\ IsApproved(c) => old.since <= lastApproved'[c]
            /\ IsOpen(c) => old.since <= lastOpen'[c]
  BY <1>1, Reading
<1>3. /\ k.kind = old.kind /\ k.proof = old.proof /\ k.since = old.since
      /\ k.environment = old.environment /\ k.c = old.c /\ k.row = old.row
  BY DEF Same, CallFields, RowFields
<1>4. k.c \in Credentials /\ Exists(k.c) /\ k.row.app = credential[k.c].app
  BY <1>2, <1>3 DEF ReadSoFar, RowWasRead
<1>5. IsCall(k)'
  BY <1>2, <1>3 DEF Same, ReadSoFar, IsCall, LaterPhases
<1>6. RowWasRead(k, g)'
  BY <1>2, <1>3 DEF ReadSoFar, RowWasRead, LaterPhases
<1> QED
  BY <1>2, <1>3, <1>4, <1>5, <1>6 DEF GoesOn

LEMMA ReadAppKeeps ==
    ASSUME AccessInv, Remember, NEW g \in Calls, ReadApp(g)
    PROVE  AccessInv'
<1>1. PICK old : old = call[g]
  OBVIOUS
<1>2. PICK k : k = [old EXCEPT !.phase = "app", !.status = appStatus[old.row.app]]
  OBVIOUS
<1>3. Reads(g, k) /\ old.phase = "row" /\ old # NoCall
  BY <1>1, <1>2 DEF ReadApp, NoCall
<1>4. ReadSoFar(old, g)
  BY <1>1, <1>3 DEF AccessInv
<1>5. PICK F : F = {"phase", "status"}
  OBVIOUS
<1>6. Same(k, old, F) /\ k.phase = "app" /\ k.status = appStatus[old.row.app]
  BY <1>2, <1>4, <1>5 DEF Same, CallFields, ReadSoFar, IsCall
<1>7. /\ call' = [call EXCEPT ![g] = k] /\ UNCHANGED <<applicationVars, tokens, ended>>
      /\ k.since = old.since /\ k.c = old.c /\ k.row = old.row
      /\ k.c \in Credentials /\ Exists(k.c) /\ k.row.app = credential[k.c].app
      /\ ReadSoFar(old, g)' /\ FactsNow(k.c) \subseteq seen'[g]
      /\ IsApproved(k.c) => k.since <= lastApproved'[k.c]
      /\ IsCall(k)' /\ RowWasRead(k, g)'
  <2>1. GoesOn(old, k, g)
    <3>1. old.phase \notin {"idle", "asked"} /\ k.phase \in LaterPhases
      BY <1>3, <1>6 DEF LaterPhases
    <3>2. F \cap RowFields = {}
      BY <1>5 DEF RowFields
    <3>3. old = call[g] /\ Same(k, old, F) /\ Reads(g, k)
      BY <1>1, <1>3, <1>6
    <3> QED
      BY <3>1, <3>2, <3>3, ReadingOn
  <2> QED
    BY <2>1 DEF GoesOn
<1>8. /\ k.open = old.open /\ k.granted = old.granted /\ k.active = old.active
      /\ k.declared = old.declared /\ k.proxies = old.proxies
  BY <1>5, <1>6 DEF Same, CallFields
<1>9. AppWasRead(k, g)'
  BY <1>6, <1>7, Facts DEF AppWasRead, IsApproved
<1>10. WorkspaceWasRead(k, g)' /\ GrantsWereRead(k, g)'
  BY <1>3, <1>6, <1>7, <1>8 DEF ReadSoFar, WorkspaceWasRead, GrantsWereRead
<1>11. ProductsWereRead(k, g)' /\ ProxiesWereRead(k, g)'
  BY <1>7, <1>8 DEF ReadSoFar, ProductsWereRead, ProxiesWereRead
<1>12. EnvironmentsWereRead(k, g)' /\ ClientWasChecked(k, g)'
  BY <1>6 DEF EnvironmentsWereRead, ClientWasChecked
<1>13. ReadSoFar(k, g)'
  BY <1>7, <1>9, <1>10, <1>11, <1>12 DEF ReadSoFar
<1> QED
  BY <1>7, <1>13, CallKeeps

LEMMA ReadWorkspaceKeeps ==
    ASSUME AccessInv, Remember, NEW g \in Calls, ReadWorkspace(g)
    PROVE  AccessInv'
<1>1. PICK old : old = call[g]
  OBVIOUS
<1>2. PICK open : open = (HostOf[OrgOf[old.row.app]] \notin ended)
  OBVIOUS
<1>3. PICK k : k = [old EXCEPT !.phase = "workspace", !.open = open]
  OBVIOUS
<1>4. Reads(g, k) /\ old.phase = "app" /\ old # NoCall
  BY <1>1, <1>2, <1>3 DEF ReadWorkspace, NoCall
<1>5. ReadSoFar(old, g)
  BY <1>1, <1>4 DEF AccessInv
<1>6. PICK F : F = {"phase", "open"}
  OBVIOUS
<1>7. Same(k, old, F) /\ k.phase = "workspace" /\ k.open = open
  BY <1>3, <1>5, <1>6 DEF Same, CallFields, ReadSoFar, IsCall
<1>8. /\ call' = [call EXCEPT ![g] = k] /\ UNCHANGED <<applicationVars, tokens, ended>>
      /\ k.since = old.since /\ k.c = old.c /\ k.row = old.row
      /\ k.c \in Credentials /\ Exists(k.c) /\ k.row.app = credential[k.c].app
      /\ ReadSoFar(old, g)' /\ FactsNow(k.c) \subseteq seen'[g]
      /\ IsOpen(k.c) => k.since <= lastOpen'[k.c]
      /\ IsCall(k)' /\ RowWasRead(k, g)'
  <2>1. GoesOn(old, k, g)
    <3>1. old.phase \notin {"idle", "asked"} /\ k.phase \in LaterPhases
      BY <1>4, <1>7 DEF LaterPhases
    <3>2. F \cap RowFields = {}
      BY <1>6 DEF RowFields
    <3>3. old = call[g] /\ Same(k, old, F) /\ Reads(g, k)
      BY <1>1, <1>4, <1>7
    <3> QED
      BY <3>1, <3>2, <3>3, ReadingOn
  <2> QED
    BY <2>1 DEF GoesOn
<1>9. /\ k.status = old.status /\ k.granted = old.granted /\ k.active = old.active
      /\ k.declared = old.declared /\ k.proxies = old.proxies
  BY <1>6, <1>7 DEF Same, CallFields
<1>10. AppWasRead(k, g)' /\ GrantsWereRead(k, g)'
  BY <1>4, <1>7, <1>8, <1>9 DEF ReadSoFar, AppWasRead, GrantsWereRead
<1>11. WorkspaceWasRead(k, g)'
  <2>1. open => IsOpen(k.c)
    BY <1>2, <1>8 DEF IsOpen
  <2>2. HostOf[OrgOf[k.row.app]] = Standard => open
    BY <1>2, <1>8 DEF AccessInv
  <2> QED
    BY <1>7, <1>8, <2>1, <2>2, Facts DEF WorkspaceWasRead
<1>12. ProductsWereRead(k, g)' /\ ProxiesWereRead(k, g)'
  BY <1>8, <1>9 DEF ReadSoFar, ProductsWereRead, ProxiesWereRead
<1>13. EnvironmentsWereRead(k, g)' /\ ClientWasChecked(k, g)'
  BY <1>7 DEF EnvironmentsWereRead, ClientWasChecked
<1>14. ReadSoFar(k, g)'
  BY <1>8, <1>10, <1>11, <1>12, <1>13 DEF ReadSoFar
<1> QED
  BY <1>8, <1>14, CallKeeps

LEMMA ReadGrantsKeeps ==
    ASSUME AccessInv, Remember, NEW g \in Calls, ReadGrants(g)
    PROVE  AccessInv'
<1>1. PICK old : old = call[g]
  OBVIOUS
<1>2. PICK k : k = [old EXCEPT !.phase = "grants", !.granted = grant[old.c]]
  OBVIOUS
<1>3. Reads(g, k) /\ old.phase = "workspace" /\ old # NoCall
  BY <1>1, <1>2 DEF ReadGrants, NoCall
<1>4. ReadSoFar(old, g)
  BY <1>1, <1>3 DEF AccessInv
<1>5. PICK F : F = {"phase", "granted"}
  OBVIOUS
<1>6. Same(k, old, F) /\ k.phase = "grants" /\ k.granted = grant[old.c]
  BY <1>2, <1>4, <1>5 DEF Same, CallFields, ReadSoFar, IsCall
<1>7. /\ call' = [call EXCEPT ![g] = k] /\ UNCHANGED <<applicationVars, tokens, ended>>
      /\ k.since = old.since /\ k.c = old.c /\ k.row = old.row /\ k.c \in Credentials
      /\ ReadSoFar(old, g)' /\ FactsNow(k.c) \subseteq seen'[g]
      /\ IsCall(k)' /\ RowWasRead(k, g)'
  <2>1. GoesOn(old, k, g)
    <3>1. old.phase \notin {"idle", "asked"} /\ k.phase \in LaterPhases
      BY <1>3, <1>6 DEF LaterPhases
    <3>2. F \cap RowFields = {}
      BY <1>5 DEF RowFields
    <3>3. old = call[g] /\ Same(k, old, F) /\ Reads(g, k)
      BY <1>1, <1>3, <1>6
    <3> QED
      BY <3>1, <3>2, <3>3, ReadingOn
  <2> QED
    BY <2>1 DEF GoesOn
<1>8. /\ k.status = old.status /\ k.open = old.open /\ k.active = old.active
      /\ k.declared = old.declared /\ k.proxies = old.proxies
  BY <1>5, <1>6 DEF Same, CallFields
<1>9. AppWasRead(k, g)' /\ WorkspaceWasRead(k, g)'
  BY <1>3, <1>6, <1>7, <1>8 DEF ReadSoFar, AppWasRead, WorkspaceWasRead
<1>10. GrantsWereRead(k, g)'
  BY <1>6, <1>7, Facts DEF GrantsWereRead
<1>11. ProductsWereRead(k, g)' /\ ProxiesWereRead(k, g)'
  BY <1>7, <1>8 DEF ReadSoFar, ProductsWereRead, ProxiesWereRead
<1>12. EnvironmentsWereRead(k, g)' /\ ClientWasChecked(k, g)'
  BY <1>6 DEF EnvironmentsWereRead, ClientWasChecked
<1>13. ReadSoFar(k, g)'
  BY <1>7, <1>9, <1>10, <1>11, <1>12 DEF ReadSoFar
<1> QED
  BY <1>7, <1>13, CallKeeps

LEMMA ReadProductsKeeps ==
    ASSUME AccessInv, Remember, NEW g \in Calls, ReadProducts(g)
    PROVE  AccessInv'
<1>1. PICK old : old = call[g]
  OBVIOUS
<1>2. PICK active : active = {p \in Products : product[p].active}
  OBVIOUS
<1>3. PICK declared : declared = [p \in Products |-> product[p].scopes]
  OBVIOUS
<1>4. PICK k : k = [old EXCEPT !.phase = "products", !.active = active, !.declared = declared]
  OBVIOUS
<1>5. Reads(g, k) /\ old.phase = "grants" /\ old # NoCall
  BY <1>1, <1>2, <1>3, <1>4 DEF ReadProducts, NoCall
<1>6. ReadSoFar(old, g)
  BY <1>1, <1>5 DEF AccessInv
<1>7. PICK F : F = {"phase", "active", "declared"}
  OBVIOUS
<1>8. Same(k, old, F) /\ k.phase = "products" /\ k.active = active /\ k.declared = declared
  BY <1>4, <1>6, <1>7 DEF Same, CallFields, ReadSoFar, IsCall
<1>9. /\ call' = [call EXCEPT ![g] = k] /\ UNCHANGED <<applicationVars, tokens, ended>>
      /\ k.since = old.since /\ k.c = old.c /\ k.row = old.row /\ k.c \in Credentials
      /\ ReadSoFar(old, g)' /\ FactsNow(k.c) \subseteq seen'[g]
      /\ IsCall(k)' /\ RowWasRead(k, g)'
  <2>1. GoesOn(old, k, g)
    <3>1. old.phase \notin {"idle", "asked"} /\ k.phase \in LaterPhases
      BY <1>5, <1>8 DEF LaterPhases
    <3>2. F \cap RowFields = {}
      BY <1>7 DEF RowFields
    <3>3. old = call[g] /\ Same(k, old, F) /\ Reads(g, k)
      BY <1>1, <1>5, <1>8
    <3> QED
      BY <3>1, <3>2, <3>3, ReadingOn
  <2> QED
    BY <2>1 DEF GoesOn
<1>10. /\ k.status = old.status /\ k.open = old.open /\ k.granted = old.granted
       /\ k.proxies = old.proxies
  BY <1>7, <1>8 DEF Same, CallFields
<1>11. AppWasRead(k, g)' /\ WorkspaceWasRead(k, g)' /\ GrantsWereRead(k, g)'
  BY <1>5, <1>8, <1>9, <1>10 DEF ReadSoFar, AppWasRead, WorkspaceWasRead, GrantsWereRead
<1>12. ProductsWereRead(k, g)'
  BY <1>2, <1>3, <1>8, <1>9, FactsOfProducts DEF ProductsWereRead
<1>13. ProxiesWereRead(k, g)'
  BY <1>9, <1>10 DEF ReadSoFar, ProxiesWereRead
<1>14. EnvironmentsWereRead(k, g)' /\ ClientWasChecked(k, g)'
  BY <1>8 DEF EnvironmentsWereRead, ClientWasChecked
<1>15. ReadSoFar(k, g)'
  BY <1>9, <1>11, <1>12, <1>13, <1>14 DEF ReadSoFar
<1> QED
  BY <1>9, <1>15, CallKeeps

LEMMA ReadProxiesKeeps ==
    ASSUME AccessInv, Remember, NEW g \in Calls, ReadProxies(g)
    PROVE  AccessInv'
<1>1. PICK old : old = call[g]
  OBVIOUS
<1>2. PICK proxies : proxies = [p \in Products |-> product[p].proxies]
  OBVIOUS
<1>3. PICK k : k = [old EXCEPT !.phase = "proxies", !.proxies = proxies]
  OBVIOUS
<1>4. Reads(g, k) /\ old.phase = "products" /\ old # NoCall
  BY <1>1, <1>2, <1>3 DEF ReadProxies, NoCall
<1>5. ReadSoFar(old, g)
  BY <1>1, <1>4 DEF AccessInv
<1>6. PICK F : F = {"phase", "proxies"}
  OBVIOUS
<1>7. Same(k, old, F) /\ k.phase = "proxies" /\ k.proxies = proxies
  BY <1>3, <1>5, <1>6 DEF Same, CallFields, ReadSoFar, IsCall
<1>8. /\ call' = [call EXCEPT ![g] = k] /\ UNCHANGED <<applicationVars, tokens, ended>>
      /\ k.since = old.since /\ k.c = old.c /\ k.row = old.row /\ k.c \in Credentials
      /\ ReadSoFar(old, g)' /\ FactsNow(k.c) \subseteq seen'[g]
      /\ IsCall(k)' /\ RowWasRead(k, g)'
  <2>1. GoesOn(old, k, g)
    <3>1. old.phase \notin {"idle", "asked"} /\ k.phase \in LaterPhases
      BY <1>4, <1>7 DEF LaterPhases
    <3>2. F \cap RowFields = {}
      BY <1>6 DEF RowFields
    <3>3. old = call[g] /\ Same(k, old, F) /\ Reads(g, k)
      BY <1>1, <1>4, <1>7
    <3> QED
      BY <3>1, <3>2, <3>3, ReadingOn
  <2> QED
    BY <2>1 DEF GoesOn
<1>9. /\ k.status = old.status /\ k.open = old.open /\ k.granted = old.granted
      /\ k.active = old.active /\ k.declared = old.declared
  BY <1>6, <1>7 DEF Same, CallFields
<1>10. AppWasRead(k, g)' /\ WorkspaceWasRead(k, g)' /\ GrantsWereRead(k, g)'
  BY <1>4, <1>7, <1>8, <1>9 DEF ReadSoFar, AppWasRead, WorkspaceWasRead, GrantsWereRead
<1>11. ProductsWereRead(k, g)'
  BY <1>8, <1>9 DEF ReadSoFar, ProductsWereRead
<1>12. ProxiesWereRead(k, g)'
  <2>1. \A p \in Products : \A x \in product[p].proxies : OrgOf[x] = OrgOf[p]
    BY DEF AccessInv, ApplicationInv, OrganizationsStaySeparate
  <2> QED
    BY <1>2, <1>7, <1>8, <2>1, FactsOfProducts DEF ProxiesWereRead
<1>13. EnvironmentsWereRead(k, g)' /\ ClientWasChecked(k, g)'
  BY <1>7 DEF EnvironmentsWereRead, ClientWasChecked
<1>14. ReadSoFar(k, g)'
  BY <1>8, <1>10, <1>11, <1>12, <1>13 DEF ReadSoFar
<1> QED
  BY <1>8, <1>14, CallKeeps

LEMMA ReadEnvironmentsKeeps ==
    ASSUME AccessInv, Remember, NEW g \in Calls, ReadEnvironments(g)
    PROVE  AccessInv'
<1>1. PICK old : old = call[g]
  OBVIOUS
<1>2. PICK environments : environments = [p \in Products |-> product[p].environments]
  OBVIOUS
<1>3. PICK k : k = [old EXCEPT !.phase = "read", !.environments = environments]
  OBVIOUS
<1>4. Reads(g, k) /\ old.phase = "proxies" /\ old # NoCall
  BY <1>1, <1>2, <1>3 DEF ReadEnvironments, NoCall
<1>5. ReadSoFar(old, g)
  BY <1>1, <1>4 DEF AccessInv
<1>6. PICK F : F = {"phase", "environments"}
  OBVIOUS
<1>7. Same(k, old, F) /\ k.phase = "read" /\ k.environments = environments
  BY <1>3, <1>5, <1>6 DEF Same, CallFields, ReadSoFar, IsCall
<1>8. /\ call' = [call EXCEPT ![g] = k] /\ UNCHANGED <<applicationVars, tokens, ended>>
      /\ k.since = old.since /\ k.c = old.c /\ k.row = old.row /\ k.c \in Credentials
      /\ ReadSoFar(old, g)' /\ FactsNow(k.c) \subseteq seen'[g]
      /\ IsCall(k)' /\ RowWasRead(k, g)'
  <2>1. GoesOn(old, k, g)
    <3>1. old.phase \notin {"idle", "asked"} /\ k.phase \in LaterPhases
      BY <1>4, <1>7 DEF LaterPhases
    <3>2. F \cap RowFields = {}
      BY <1>6 DEF RowFields
    <3>3. old = call[g] /\ Same(k, old, F) /\ Reads(g, k)
      BY <1>1, <1>4, <1>7
    <3> QED
      BY <3>1, <3>2, <3>3, ReadingOn
  <2> QED
    BY <2>1 DEF GoesOn
<1>9. /\ k.status = old.status /\ k.open = old.open /\ k.granted = old.granted
      /\ k.active = old.active /\ k.declared = old.declared /\ k.proxies = old.proxies
  BY <1>6, <1>7 DEF Same, CallFields
<1>10. AppWasRead(k, g)' /\ WorkspaceWasRead(k, g)' /\ GrantsWereRead(k, g)'
  BY <1>4, <1>7, <1>8, <1>9 DEF ReadSoFar, AppWasRead, WorkspaceWasRead, GrantsWereRead
<1>11. ProductsWereRead(k, g)' /\ ProxiesWereRead(k, g)'
  BY <1>8, <1>9 DEF ReadSoFar, ProductsWereRead, ProxiesWereRead
<1>12. EnvironmentsWereRead(k, g)'
  BY <1>2, <1>7, <1>8, FactsOfProducts DEF EnvironmentsWereRead
<1>13. ClientWasChecked(k, g)'
  BY <1>7 DEF ClientWasChecked
<1>14. ReadSoFar(k, g)'
  BY <1>8, <1>10, <1>11, <1>12, <1>13 DEF ReadSoFar
<1> QED
  BY <1>8, <1>14, CallKeeps

LEMMA CheckClientKeeps ==
    ASSUME AccessInv, Remember, NEW g \in Calls, CheckClient(g)
    PROVE  AccessInv'
<1>1. PICK old : old = call[g]
  OBVIOUS
<1>2. PICK signer : signer = IF old.kind = "assertion" THEN keyStatus[old.c][old.proof]
                             ELSE old.signer
  OBVIOUS
<1>3. PICK k : k = [old EXCEPT !.phase = "checked", !.signer = signer]
  OBVIOUS
<1>4. /\ Reads(g, k) /\ old.phase = "read" /\ old # NoCall
      /\ isCredentialValid(old.row, old.status)
      /\ old.kind = "secret" => old.proof = old.row.secret
  BY <1>1, <1>2, <1>3 DEF CheckClient, NoCall
<1>5. ReadSoFar(old, g)
  BY <1>1, <1>4 DEF AccessInv
<1>6. PICK F : F = {"phase", "signer"}
  OBVIOUS
<1>7. Same(k, old, F) /\ k.phase = "checked" /\ k.signer = signer
  BY <1>3, <1>5, <1>6 DEF Same, CallFields, ReadSoFar, IsCall
<1>8. /\ call' = [call EXCEPT ![g] = k] /\ UNCHANGED <<applicationVars, tokens, ended>>
      /\ k.kind = old.kind /\ k.proof = old.proof
      /\ k.since = old.since /\ k.c = old.c /\ k.row = old.row /\ k.c \in Credentials
      /\ ReadSoFar(old, g)' /\ FactsNow(k.c) \subseteq seen'[g]
      /\ IsCall(k)' /\ RowWasRead(k, g)'
  <2>1. GoesOn(old, k, g)
    <3>1. old.phase \notin {"idle", "asked"} /\ k.phase \in LaterPhases
      BY <1>4, <1>7 DEF LaterPhases
    <3>2. F \cap RowFields = {}
      BY <1>6 DEF RowFields
    <3>3. old = call[g] /\ Same(k, old, F) /\ Reads(g, k)
      BY <1>1, <1>4, <1>7
    <3> QED
      BY <3>1, <3>2, <3>3, ReadingOn
  <2> QED
    BY <2>1 DEF GoesOn
<1>9. /\ k.status = old.status /\ k.open = old.open /\ k.granted = old.granted
      /\ k.active = old.active /\ k.declared = old.declared /\ k.proxies = old.proxies
      /\ k.environments = old.environments
  BY <1>6, <1>7 DEF Same, CallFields
<1>10. AppWasRead(k, g)' /\ WorkspaceWasRead(k, g)' /\ GrantsWereRead(k, g)'
  BY <1>4, <1>7, <1>8, <1>9 DEF ReadSoFar, AppWasRead, WorkspaceWasRead, GrantsWereRead
<1>11. ProductsWereRead(k, g)' /\ ProxiesWereRead(k, g)'
  BY <1>8, <1>9 DEF ReadSoFar, ProductsWereRead, ProxiesWereRead
<1>12. EnvironmentsWereRead(k, g)'
  BY <1>4, <1>7, <1>8, <1>9 DEF ReadSoFar, EnvironmentsWereRead
<1>13. ClientWasChecked(k, g)'
  <2>1. now' = now
    BY <1>8 DEF applicationVars
  <2>2. old.row.status = "approved" /\ old.status = "approved" /\ old.row.expires > now'
    BY <1>4, <2>1 DEF isCredentialValid
  <2>3. /\ <<"credential", k.c, k.row.key>> \in seen'[g]
        /\ <<"secret", k.c, k.row.secret>> \in seen'[g]
        /\ k.since <= lastGood'[k.c]
    BY <1>7, <1>8, <2>2 DEF RowWasRead
  <2>4. k.kind = "assertion" /\ k.signer = "approved" => <<"key", k.c, k.proof>> \in seen'[g]
    BY <1>2, <1>5, <1>7, <1>8, Facts DEF ReadSoFar, IsCall
  <2> QED
    BY <1>4, <1>8, <1>9, <2>2, <2>3, <2>4 DEF ClientWasChecked
<1>14. ReadSoFar(k, g)'
  BY <1>8, <1>10, <1>11, <1>12, <1>13 DEF ReadSoFar
<1> QED
  BY <1>8, <1>14, CallKeeps

-----------------------------------------------------------------------------
(* What a call has earned *)

\* What a call k must have seen for the products it read to be earned.
SawCredential(k, g) ==
    /\ ReadSoFar(k, g)
    /\ k.phase \in {"read", "checked"}
    /\ {<<"credential", k.c, k.row.key>>, <<"app", k.c>>, <<"open", k.c>>} \subseteq seen[g]
    /\ k.c \in Credentials /\ k.row.app = credential[k.c].app
    /\ k.since <= lastApproved[k.c] /\ k.since <= lastOpen[k.c]
    /\ k.host = HostOf[OrgOf[k.row.app]]

\* A workspace that matched was open when it was read.
LEMMA MatchedWasOpen ==
    ASSUME NEW g \in Calls, NEW k, ReadSoFar(k, g), k.phase \in {"read", "checked"},
           credentialMatchesWorkspace(k.row, k.open, k.host)
    PROVE  /\ <<"open", k.c>> \in seen[g] /\ k.since <= lastOpen[k.c]
           /\ k.host = HostOf[OrgOf[k.row.app]]
<1>1. /\ k.host = HostOf[OrgOf[k.row.app]]
      /\ k.host # Standard => k.open
  BY DEF credentialMatchesWorkspace
<1>2. k.host = Standard => k.open
  BY <1>1 DEF ReadSoFar, WorkspaceWasRead
<1> QED
  BY <1>1, <1>2 DEF ReadSoFar, WorkspaceWasRead

\* A call that has read everything and is authentic has seen it be true.
LEMMA AuthenticWasTrue ==
    ASSUME AccessInv, NEW g \in Calls, NEW k, k = call[g], k.phase = "read", Authentic(k)
    PROVE  SawCredential(k, g)
<1>1. call[g] # NoCall
  BY DEF NoCall
<1>2. ReadSoFar(k, g)
  BY <1>1 DEF AccessInv
<1>3. /\ k.row.status = "approved" /\ k.status = "approved" /\ k.row.expires > now
      /\ credentialMatchesWorkspace(k.row, k.open, k.host)
  BY DEF Authentic, isCredentialValid
<1>4. /\ <<"open", k.c>> \in seen[g] /\ k.since <= lastOpen[k.c]
      /\ k.host = HostOf[OrgOf[k.row.app]]
  BY <1>2, <1>3, MatchedWasOpen
<1>5. /\ <<"credential", k.c, k.row.key>> \in seen[g]
      /\ k.c \in Credentials /\ k.row.app = credential[k.c].app
  BY <1>2, <1>3 DEF ReadSoFar, RowWasRead
<1>6. <<"app", k.c>> \in seen[g] /\ k.since <= lastApproved[k.c]
  BY <1>2, <1>3 DEF ReadSoFar, AppWasRead
<1> QED
  BY <1>2, <1>4, <1>5, <1>6 DEF SawCredential

\* So has a client that was checked and whose workspace matches.
LEMMA ClientWasTrue ==
    ASSUME AccessInv, NEW g \in Calls, NEW k, k = call[g], k.phase = "checked", Issues(k)
    PROVE  /\ SawCredential(k, g) /\ k.since <= lastGood[k.c]
           /\ k.kind = "secret" => <<"secret", k.c, k.proof>> \in seen[g]
           /\ k.kind = "assertion" => <<"key", k.c, k.proof>> \in seen[g]
<1>1. call[g] # NoCall
  BY DEF NoCall
<1>2. ReadSoFar(k, g)
  BY <1>1 DEF AccessInv
<1>3. /\ k.kind = "assertion" => k.signer = "approved"
      /\ credentialMatchesWorkspace(k.row, k.open, k.host)
  BY DEF Issues
<1>4. /\ <<"credential", k.c, k.row.key>> \in seen[g] /\ k.status = "approved"
      /\ k.since <= lastGood[k.c]
      /\ k.kind = "secret" => <<"secret", k.c, k.proof>> \in seen[g]
      /\ k.kind = "assertion" => <<"key", k.c, k.proof>> \in seen[g]
  BY <1>2, <1>3 DEF ReadSoFar, ClientWasChecked
<1>5. /\ <<"open", k.c>> \in seen[g] /\ k.since <= lastOpen[k.c]
      /\ k.host = HostOf[OrgOf[k.row.app]]
  BY <1>2, <1>3, MatchedWasOpen
<1>6. k.c \in Credentials /\ k.row.app = credential[k.c].app
  BY <1>2 DEF ReadSoFar, RowWasRead
<1>7. <<"app", k.c>> \in seen[g] /\ k.since <= lastApproved[k.c]
  BY <1>2, <1>4 DEF ReadSoFar, AppWasRead
<1> QED
  BY <1>2, <1>4, <1>5, <1>6, <1>7 DEF SawCredential

\* The proxies and scopes of its authorized products are earned.
LEMMA ProductsAreEarned ==
    ASSUME NEW g \in Calls, NEW k, SawCredential(k, g), NEW xs, NEW scopes,
           \A x \in xs : \E p \in authorizedProducts(k) : x \in k.proxies[p],
           scopes \subseteq EffectiveScopes(k)
    PROVE  Earned(seen[g], k.c, k.row.key, k.environment, xs, scopes)
<1>1. /\ IsCall(k) /\ GrantsWereRead(k, g) /\ ProductsWereRead(k, g)
      /\ ProxiesWereRead(k, g) /\ EnvironmentsWereRead(k, g)
      /\ k.phase \in {"read", "checked"}
      /\ {<<"credential", k.c, k.row.key>>, <<"app", k.c>>, <<"open", k.c>>} \subseteq seen[g]
  BY DEF SawCredential, ReadSoFar
<1>2. k.environment \in Environments
  BY <1>1 DEF IsCall
<1>3. ASSUME NEW p \in authorizedProducts(k)
      PROVE  p \in Products /\ EarnedProduct(seen[g], k.c, p, k.environment)
  <2>1. /\ p \in Products /\ k.granted[p].status = "approved" /\ p \in k.active
        /\ k.environments[p] = {} \/ k.environment \in k.environments[p]
    BY DEF authorizedProducts
  <2>2. <<"grant", k.c, p>> \in seen[g]
    BY <1>1, <2>1 DEF GrantsWereRead
  <2>3. <<"active", p>> \in seen[g]
    BY <1>1, <2>1 DEF ProductsWereRead
  <2>4. <<"for", p, k.environment>> \in seen[g]
    BY <1>1, <1>2, <2>1 DEF EnvironmentsWereRead
  <2> QED
    BY <2>1, <2>2, <2>3, <2>4 DEF EarnedProduct
<1>4. ASSUME NEW x \in xs
      PROVE  \E p \in Products :
                EarnedProduct(seen[g], k.c, p, k.environment) /\ <<"bundles", p, x>> \in seen[g]
  <2>1. PICK p \in authorizedProducts(k) : x \in k.proxies[p]
    BY <1>4
  <2>2. <<"bundles", p, x>> \in seen[g]
    BY <1>1, <1>3, <2>1 DEF ProxiesWereRead
  <2> QED
    BY <1>3, <2>2
<1>5. ASSUME NEW x \in scopes
      PROVE  \E p \in Products :
                /\ EarnedProduct(seen[g], k.c, p, k.environment)
                /\ {<<"scope", k.c, p, x>>, <<"declares", p, x>>} \subseteq seen[g]
  <2>1. PICK p \in authorizedProducts(k) : x \in k.granted[p].scopes \cap k.declared[p]
    BY <1>5 DEF EffectiveScopes
  <2>2. <<"scope", k.c, p, x>> \in seen[g]
    BY <1>1, <1>3, <2>1 DEF GrantsWereRead
  <2>3. <<"declares", p, x>> \in seen[g]
    BY <1>1, <1>3, <2>1 DEF ProductsWereRead
  <2> QED
    BY <1>3, <2>2, <2>3
<1> QED
  BY <1>1, <1>4, <1>5 DEF Earned

LEMMA IssueKeeps ==
    ASSUME AccessInv, Remember, NEW g \in Calls, IssueToken(g)
    PROVE  AccessInv'
<1>1. PICK k : k = call[g]
  OBVIOUS
<1>2. PICK xs : xs = UNION {k.proxies[p] : p \in authorizedProducts(k)}
  OBVIOUS
<1>3. PICK scopes : scopes = EffectiveScopes(k)
  OBVIOUS
<1>4. PICK earned : earned = /\ Earned(seen[g], k.c, k.row.key, k.environment, xs, scopes)
                             /\ k.kind = "secret" => <<"secret", k.c, k.proof>> \in seen[g]
                             /\ k.kind = "assertion" => <<"key", k.c, k.proof>> \in seen[g]
  OBVIOUS
<1>5. /\ k.phase = "checked" /\ Issues(k)
      /\ call' = [call EXCEPT ![g] = NoCall] /\ UNCHANGED <<applicationVars, ended>>
      /\ tokens' = tokens \cup
            {[credential |-> k.c, host |-> k.host, environment |-> k.environment,
              proxies |-> xs, scopes |-> scopes, expires |-> now + TTL, earned |-> earned]}
  BY <1>1, <1>2, <1>3, <1>4 DEF IssueToken
<1>6. /\ SawCredential(k, g) /\ k.since <= lastGood[k.c]
      /\ k.kind = "secret" => <<"secret", k.c, k.proof>> \in seen[g]
      /\ k.kind = "assertion" => <<"key", k.c, k.proof>> \in seen[g]
  BY <1>1, <1>5, ClientWasTrue
<1>7. earned = TRUE
  <2>1. \A x \in xs : \E p \in authorizedProducts(k) : x \in k.proxies[p]
    BY <1>2
  <2>2. Earned(seen[g], k.c, k.row.key, k.environment, xs, scopes)
    BY <1>3, <1>6, <2>1, ProductsAreEarned
  <2> QED
    BY <1>4, <1>6, <2>2
<1>8. \A x \in xs : k.host = HostOf[OrgOf[x]]
  <2>1. ASSUME NEW p \in authorizedProducts(k), NEW x \in k.proxies[p]
        PROVE  OrgOf[x] = OrgOf[k.row.app]
    <3>1. p \in Products /\ OrgOf[p] = OrgOf[k.row.app]
      BY DEF authorizedProducts
    <3> QED
      BY <1>6, <3>1 DEF SawCredential, ReadSoFar, ProxiesWereRead
  <2> QED
    BY <1>2, <1>6, <2>1 DEF SawCredential
<1>9. /\ now \in Nat /\ now' = now /\ now <= now'
  BY <1>5, RowTypes, ApplicationAssumption DEF AccessInv, ApplicationInv, applicationVars
<1>10. /\ now + TTL \in Int
       /\ now + TTL <= lastGood'[k.c] + TTL + MaxLatency
       /\ now + TTL <= lastApproved'[k.c] + TTL + MaxLatency
       /\ now + TTL <= lastOpen'[k.c] + TTL + MaxLatency
  <2>1. k.c \in Credentials /\ k.since <= lastApproved[k.c] /\ k.since <= lastOpen[k.c]
    BY <1>6 DEF SawCredential
  <2>2. /\ lastGood[k.c] <= lastGood'[k.c] /\ lastGood[k.c] \in Int /\ lastGood'[k.c] \in Int
        /\ lastApproved[k.c] <= lastApproved'[k.c]
        /\ lastApproved[k.c] \in Int /\ lastApproved'[k.c] \in Int
        /\ lastOpen[k.c] <= lastOpen'[k.c]
        /\ lastOpen[k.c] \in Int /\ lastOpen'[k.c] \in Int
    BY <1>9, <2>1, StepRemembers
  <2>3. k.since \in Nat /\ now - k.since <= MaxLatency
    BY <1>6 DEF SawCredential, ReadSoFar, IsCall
  <2> QED
    BY <1>6, <1>9, <2>1, <2>2, <2>3, AccessAssumption
<1>11. ASSUME NEW t \in tokens' \ tokens PROVE TokenIsSound(t)'
  <2>1. t = [credential |-> k.c, host |-> k.host, environment |-> k.environment,
             proxies |-> xs, scopes |-> scopes, expires |-> now + TTL, earned |-> earned]
    BY <1>5
  <2>2. /\ t.credential = k.c /\ t.host = k.host /\ t.proxies = xs /\ t.expires = now + TTL
        /\ t.earned = earned
    BY <2>1
  <2>3. /\ t.credential \in Credentials /\ t.expires \in Int
        /\ t.expires <= lastGood'[t.credential] + TTL + MaxLatency
        /\ t.expires <= lastApproved'[t.credential] + TTL + MaxLatency
        /\ t.expires <= lastOpen'[t.credential] + TTL + MaxLatency
    BY <1>6, <1>10, <2>2 DEF SawCredential
  <2>4. \A x \in t.proxies : t.host = HostOf[OrgOf[x]]
    BY <1>8, <2>2
  <2>5. t.earned = TRUE
    BY <1>7, <2>2
  <2> QED
    BY <2>3, <2>4, <2>5 DEF TokenIsSound
<1> QED
  BY <1>5, <1>11, CallKeeps

-----------------------------------------------------------------------------
(* Every step keeps the invariant *)

\* A step that moves no call.
LEMMA NoCallMoves ==
    ASSUME AccessInv, Remember, [ApplicationNext]_applicationVars, UNCHANGED call,
           tokens' \subseteq tokens, Standard \notin ended',
           \A g \in Calls : call[g] # NoCall => now' - call[g].since <= MaxLatency
    PROVE  AccessInv'
<1>1. now' \in Nat /\ now <= now'
  BY TimePasses DEF AccessInv
<1>2. ApplicationInv'
  BY ApplicationStep DEF AccessInv
<1>3. \A c \in Credentials : Exists(c) => credential'[c].app = credential[c].app
  BY CredentialsStay DEF AccessInv
<1>4. ASSUME NEW g \in Calls, call'[g] # NoCall PROVE ReadSoFar(call[g], g)'
  <2>1. PICK k : k = call[g]
    OBVIOUS
  <2>2. call'[g] = k /\ call[g] # NoCall /\ now' - k.since <= MaxLatency
    BY <1>4, <2>1
  <2>3. ReadSoFar(k, g)
    BY <2>1, <2>2 DEF AccessInv
  <2>4. ReadSoFar(k, g)'
    BY <1>1, <1>3, <1>4, <2>2, <2>3, StaysRead
  <2> QED
    BY <2>2, <2>4
<1>5. \A t \in tokens' : TokenIsSound(t)'
  BY <1>1, TokensStay
<1>6. Remembered'
  BY <1>1, StepRemembers
<1> QED
  BY <1>2, <1>4, <1>5, <1>6 DEF AccessInv

LEMMA SinceStays ==
    ASSUME AccessInv, UNCHANGED now
    PROVE  \A g \in Calls : call[g] # NoCall => now' - call[g].since <= MaxLatency
BY DEF AccessInv, ReadSoFar, IsCall

\* Nothing changes at all.
LEMMA NothingMoves == AccessInv /\ UNCHANGED accessVars => AccessInv'
<1> SUFFICES ASSUME AccessInv, UNCHANGED accessVars PROVE AccessInv'
  OBVIOUS
<1>1. /\ UNCHANGED <<appStatus, credential, grant, keyStatus, product, tx, now, clean>>
      /\ UNCHANGED <<call, tokens, ended, seen, lastGood, lastApproved, lastOpen>>
  BY DEF accessVars, applicationVars, rows
<1>2. ApplicationInv'
  <2>1. [ApplicationNext]_applicationVars
    BY <1>1 DEF applicationVars, rows
  <2> QED
    BY <2>1, ApplicationStep DEF AccessInv
<1>3. Remembered'
  BY <1>1 DEF AccessInv, Remembered, FactsNow, ProductFacts, IsGood, IsApproved, IsOpen, Exists
<1>4. ASSUME NEW g \in Calls, call'[g] # NoCall PROVE ReadSoFar(call[g], g)'
  <2>1. PICK k : k = call[g]
    OBVIOUS
  <2>2. ReadSoFar(k, g) /\ call'[g] = k
    BY <1>1, <1>4, <2>1 DEF AccessInv
  <2>3. ReadSoFar(k, g)'
    BY <1>1, <2>2 DEF ReadSoFar, IsCall, RowWasRead, AppWasRead, WorkspaceWasRead,
       GrantsWereRead, ProductsWereRead, ProxiesWereRead, EnvironmentsWereRead,
       ClientWasChecked, Exists
  <2> QED
    BY <2>2, <2>3
<1>5. \A t \in tokens' : TokenIsSound(t)'
  BY <1>1 DEF AccessInv, TokenIsSound
<1> QED
  BY <1>1, <1>2, <1>3, <1>4, <1>5 DEF AccessInv

LEMMA AccessStep == AccessInv /\ [AccessNext]_accessVars => AccessInv'
<1> SUFFICES ASSUME AccessInv, AccessNext PROVE AccessInv'
  BY NothingMoves
<1>1. Remember
  BY DEF AccessNext
<1>2. CASE Administer
  <2>1. /\ [ApplicationNext]_applicationVars /\ UNCHANGED <<call, tokens, ended>>
        /\ \A g \in Calls : call[g] # NoCall => now' - call[g].since <= MaxLatency
    BY <1>2 DEF Administer, access
  <2> QED
    BY <1>1, <2>1, NoCallMoves DEF AccessInv
<1>3. ASSUME NEW g \in Calls, NEW kind \in Kinds, NEW key \in Keys, NEW x \in Proxies,
             NEW e \in Environments, NEW h \in Hosts,
             NEW proof \in CASE kind = "secret" -> 0 .. MaxSecrets
                             [] kind = "assertion" -> Kids
                             [] OTHER -> {0},
             Ask(g, kind, key, proof, x, e, h)
      PROVE  AccessInv'
  <2>1. kind = "assertion" => proof \in Kids
    OBVIOUS
  <2> QED
    BY <1>1, <1>3, <2>1, AskKeeps
<1>4. ASSUME NEW g \in Calls, UnknownKey(g) \/ AdmitApiKey(g) \/ Refuse(g)
      PROVE  AccessInv'
  <2>1. Reads(g, NoCall)
    BY <1>4 DEF UnknownKey, AdmitApiKey, Refuse
  <2> QED
    BY <1>1, <2>1, EndKeepsAccess
<1>5. CASE \E h \in Hosts : EndWorkspace(h)
  <2>1. /\ UNCHANGED <<applicationVars, call, tokens>> /\ Standard \notin ended'
    BY <1>5 DEF EndWorkspace, AccessInv
  <2>2. [ApplicationNext]_applicationVars /\ UNCHANGED now
    BY <2>1 DEF applicationVars
  <2> QED
    BY <1>1, <2>1, <2>2, SinceStays, NoCallMoves
<1>6. CASE ForgetTokens
  <2>1. UNCHANGED <<applicationVars, call, ended>> /\ tokens' \subseteq tokens
    BY <1>6 DEF ForgetTokens
  <2>2. [ApplicationNext]_applicationVars /\ UNCHANGED now /\ Standard \notin ended'
    BY <2>1 DEF applicationVars, AccessInv
  <2> QED
    BY <1>1, <2>1, <2>2, SinceStays, NoCallMoves
<1> QED
  BY <1>1, <1>2, <1>3, <1>4, <1>5, <1>6, ReadRowKeeps, ReadAppKeeps, ReadWorkspaceKeeps,
     ReadGrantsKeeps, ReadProductsKeeps, ReadProxiesKeeps, ReadEnvironmentsKeeps,
     CheckClientKeeps, IssueKeeps
     DEF AccessNext

LEMMA AccessInvariant == AccessSpec => []AccessInv
  BY AccessInitially, AccessStep, PTL DEF AccessSpec

\* Every token that was issued was earned while its call ran, and a host
\* honours none but its own organizations' tokens.
THEOREM AccessTokensAreEarned == AccessSpec => []TokensAreEarned
<1>1. AccessInv => TokensAreEarned
  BY DEF AccessInv, TokenIsSound, TokensAreEarned, Honours
<1> QED
  BY <1>1, AccessInvariant, PTL

\* A token is honoured no longer than its lifetime and the call that issued
\* it after its credential was last good, and after its application was last
\* approved and its workspace last active.
THEOREM AccessRevocationBites == AccessSpec => []RevocationBitesWithinTtl
<1>1. ASSUME AccessInv PROVE RevocationBitesWithinTtl
  <2>1. ASSUME NEW t \in tokens, now < t.expires
        PROVE  /\ now < lastGood[t.credential] + TTL + MaxLatency
               /\ now < lastApproved[t.credential] + TTL + MaxLatency
               /\ now < lastOpen[t.credential] + TTL + MaxLatency
    <3>1. TokenIsSound(t) /\ now \in Nat
      BY <1>1, RowTypes, ApplicationAssumption DEF AccessInv, ApplicationInv
    <3>2. /\ lastGood[t.credential] \in Int /\ lastApproved[t.credential] \in Int
          /\ lastOpen[t.credential] \in Int
      BY <1>1, <3>1 DEF AccessInv, Remembered, TokenIsSound
    <3> QED
      BY <2>1, <3>1, <3>2, AccessAssumption DEF TokenIsSound
  <2> QED
    BY <2>1 DEF RevocationBitesWithinTtl, Honours
<1> QED
  BY <1>1, AccessInvariant, PTL

\* A call by API key is admitted on nothing that was revoked, replaced or
\* expired before it began: each fact that admits it was true since.
THEOREM AccessAdmissionIsFresh == AccessSpec => AdmissionIsFresh
<1>1. ASSUME AccessInv, NEW g \in Calls, AdmitApiKey(g)
      PROVE  Earned(seen[g], call[g].c, call[g].row.key, call[g].environment,
                    {call[g].proxy}, {})
  <2>1. PICK k : k = call[g]
    OBVIOUS
  <2>2. /\ k.phase = "read" /\ Authentic(k)
        /\ \E p \in authorizedProducts(k) : k.proxy \in k.proxies[p]
    BY <1>1, <2>1 DEF AdmitApiKey, Admits
  <2>3. SawCredential(k, g)
    BY <1>1, <2>1, <2>2, AuthenticWasTrue
  <2>4. \A x \in {k.proxy} : \E p \in authorizedProducts(k) : x \in k.proxies[p]
    BY <2>2
  <2>5. Earned(seen[g], k.c, k.row.key, k.environment, {k.proxy}, {})
    BY <2>3, <2>4, ProductsAreEarned
  <2> QED
    BY <2>1, <2>5
<1>2. AccessInv =>
        [\A g \in Calls : AdmitApiKey(g) =>
           Earned(seen[g], call[g].c, call[g].row.key, call[g].environment,
                  {call[g].proxy}, {})]_accessVars
  BY <1>1
<1> QED
  BY <1>2, AccessInvariant, PTL DEF AdmissionIsFresh
=============================================================================
