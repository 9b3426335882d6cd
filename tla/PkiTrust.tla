------------------------------- MODULE PkiTrust -------------------------------
(***************************************************************************)
(* Certificate authorities, client certificates and the trust that the     *)
(* management API publishes for Envoy: CertificateAuthorityService and     *)
(* CertificateService.                                                     *)
(*                                                                         *)
(* An operation is a sequence of transactions, file writes and signatures, *)
(* with those of other operations in between, and any of them may fail.  A *)
(* job holds what an operation has still to do.  Publication reads the     *)
(* authorities, writes two files at once and then the trigger on which     *)
(* Envoy loads both; no lock orders publications.                          *)
(*                                                                         *)
(* A certificate revocation list is the set of certificates it revokes.    *)
(* Audit events, downloads and listings are left out, and so is a          *)
(* transaction that commits although its client sees it fail.              *)
(***************************************************************************)
EXTENDS Naturals, Sequences, FiniteSets

CONSTANTS
    Jobs,          \* the operations that may be under way at once
    Authorities,
    External,      \* those imported: their keys are elsewhere
    HomeOf,        \* [Authorities -> the organization of each]
    Certificates,
    Nobody,        \* no authority
    MaxFailures    \* bound on the steps that fail

ASSUME PkiAssumption ==
    /\ External \subseteq Authorities
    /\ Nobody \notin Authorities
    /\ MaxFailures \in Nat

VARIABLES
    status,       \* [Authorities -> status of the row, "none" before]
    issuer,       \* the authorities with isDefaultIssuer
    keys,         \* the authorities whose key is in the keystore
    crl,          \* [Authorities -> the stored list]
    lapsed,       \* the authorities whose certificate has expired
    overdue,      \* the authorities whose list has passed its nextUpdate
    certificate,  \* [Certificates -> status and authority]
    issuance,     \* [Certificates -> the CertificateIssuance record]
    files,        \* the bundles on disk
    loaded,       \* the bundles Envoy trusts
    job,          \* [Jobs -> what is left of its operation]
    failures

rowVars == <<status, issuer, crl, certificate, issuance>>
ageVars == <<lapsed, overdue>>
trustVars == <<files, loaded>>
pkiVars == <<rowVars, keys, ageVars, trustVars, job, failures>>

AuthorityStatuses == {"none", "draft", "active", "retiring", "revoked"}
NoCrl == [known |-> FALSE, revoked |-> {}]
Empty == [ca |-> {}, crl |-> {}]
Bundles == [ca : SUBSET Authorities, crl : SUBSET (Authorities \X SUBSET Certificates)]

\* A step of an operation and the authority, or workspace, it is about.
Step(do, at) == [do |-> do, at |-> at]
Publication == <<Step("read", Nobody), Step("write", Nobody), Step("trigger", Nobody)>>

Free == [op |-> "none", todo |-> <<>>, about |-> Nobody, cert |-> Nobody, seen |-> {}, bundle |-> Empty,
         left |-> {}, home |-> Nobody, clean |-> TRUE]
IsFree(j) == job[j].todo = <<>> /\ job[j].left = {}

\* A job that has done everything is forgotten.
Settled(r) == IF r.todo = <<>> /\ r.left = {} THEN Free ELSE r

PkiTypeOK ==
    /\ status \in [Authorities -> AuthorityStatuses]
    /\ issuer \subseteq Authorities /\ keys \subseteq Authorities
    /\ crl \in [Authorities -> [known : BOOLEAN, revoked : SUBSET Certificates]]
    /\ lapsed \subseteq Authorities /\ overdue \subseteq Authorities
    /\ certificate \in [Certificates ->
          [status : {"none", "approved", "revoked"}, by : Authorities \cup {Nobody}]]
    /\ issuance \in [Certificates -> {"none", "open", "completed", "failed"}]
    /\ files \in Bundles /\ loaded \in Bundles
    /\ \A j \in Jobs :
          /\ job[j].bundle \in Bundles
          /\ job[j].left \subseteq {"ca", "crl"}
          /\ job[j].left # {} => job[j].op # "none"
    /\ failures \in 0 .. MaxFailures

PkiInit ==
    /\ status = [a \in Authorities |-> "none"]
    /\ issuer = {} /\ keys = {}
    /\ crl = [a \in Authorities |-> NoCrl]
    /\ lapsed = {} /\ overdue = {}
    /\ certificate = [c \in Certificates |-> [status |-> "none", by |-> Nobody]]
    /\ issuance = [c \in Certificates |-> "none"]
    /\ files = Empty /\ loaded = Empty
    /\ job = [j \in Jobs |-> Free]
    /\ failures = 0

-----------------------------------------------------------------------------
\* Starting an operation, about an authority.  clean: no other has been under
\* way beside it.

Start(j, op, todo, about, cert) ==
    /\ IsFree(j)
    /\ \A k \in Jobs : job[k].op = "boot" => IsFree(k)
    /\ job' = [k \in Jobs |->
          IF k = j THEN [Free EXCEPT !.op = op, !.todo = todo, !.about = about, !.cert = cert,
                                     !.clean = \A i \in Jobs \ {j} : IsFree(i)]
          ELSE IF IsFree(k) THEN Free
          ELSE [job[k] EXCEPT !.clean = FALSE]]
    /\ UNCHANGED <<rowVars, keys, ageVars, trustVars, failures>>

\* An id nobody has used: ids are generated.
Unused(a) ==
    /\ status[a] = "none"
    /\ \A j \in Jobs : \A i \in DOMAIN job[j].todo : job[j].todo[i].at # a

\* Mutant: the row comes first.
createdRowFirst(a) == <<Step("insert", a), Step("put", a)>>

Created(a) == <<Step("put", a), Step("insert", a)>>
SetTo(a, to) ==
    IF to = "active" THEN <<Step("clear", a), Step("active", a)>> \o Publication
    ELSE <<Step(to, a)>> \o Publication
Refreshed(a) == <<Step("list", a), Step("save", a)>>

createManaged(j, a) ==
    /\ a \notin External /\ Unused(a)
    /\ Start(j, "createManaged", Created(a), a, Nobody)

importExternal(j, a) ==
    /\ a \in External /\ Unused(a)
    /\ Start(j, "importExternal", <<Step("insert", a)>>, a, Nobody)

setStatus(j, a, to) ==
    /\ status[a] # "none"
    /\ to = "active" => a \notin lapsed
    /\ Start(j, to, SetTo(a, to), a, Nobody)

rotate(j, a, b) ==
    /\ status[a] # "none" /\ a \notin External
    /\ b \notin External /\ Unused(b) /\ HomeOf[b] = HomeOf[a]
    /\ Start(j, "rotate", Created(b) \o SetTo(b, "active") \o SetTo(a, "retiring"), a, Nobody)

refreshCrl(j, a) ==
    status[a] # "none" /\ Start(j, "refreshCrl", Refreshed(a), a, Nobody)

\* The uploaded list names no certificate of ours, and is not expired.
uploadCrl(j, a) ==
    /\ status[a] # "none" /\ a \in External
    /\ Start(j, "uploadCrl", <<Step("save", a)>>, a, Nobody)

\* A certificate nobody has issued or registered.
New(c) ==
    /\ certificate[c].status = "none" /\ issuance[c] = "none"
    /\ \A k \in Jobs : job[k].cert # c

\* The authority read here is the one that signs, whatever becomes of it.
issue(j, c, a) ==
    /\ status[a] = "active" /\ a \notin External
    /\ New(c)
    /\ Start(j, "issue", <<Step("request", a), Step("sign", a), Step("record", a)>>, a, c)

registerExternal(j, c, a) ==
    /\ status[a] \in {"active", "retiring"}
    /\ c \notin crl[a].revoked
    /\ New(c)
    /\ Start(j, "registerExternal", <<Step("record", a)>>, a, c)

\* Mutant: the certificates to list are read before the revocation.
revokeListedFirst(j, c) ==
    /\ certificate[c].status # "none"
    /\ LET a == certificate[c].by
       IN Start(j, "revokeCertificate",
                <<Step("list", a), Step("unapprove", a), Step("save", a)>>, a, c)

revoke(j, c) ==
    /\ certificate[c].status # "none"
    /\ LET a == certificate[c].by
       IN Start(j, "revokeCertificate", <<Step("unapprove", a)>> \o Refreshed(a), a, c)

-----------------------------------------------------------------------------
\* The steps.

Pending(j, do) == job[j].todo # <<>> /\ Head(job[j].todo).do = do
At(j) == Head(job[j].todo).at
Advanced(r) == Settled([r EXCEPT !.todo = Tail(@)])
Advance(j) == job' = [job EXCEPT ![j] = Advanced(@)]

PutKey(j) ==
    /\ Pending(j, "put")
    /\ keys' = keys \cup {At(j)}
    /\ Advance(j)
    /\ UNCHANGED <<rowVars, ageVars, trustVars, failures>>

InsertAuthority(j) ==
    /\ Pending(j, "insert")
    /\ status' = [status EXCEPT ![At(j)] = "draft"]
    /\ crl' = [crl EXCEPT ![At(j)].known = At(j) \notin External]
    /\ Advance(j)
    /\ UNCHANGED <<issuer, certificate, issuance, keys, ageVars, trustVars, failures>>

DropKey(j) ==
    /\ Pending(j, "drop")
    /\ keys' = keys \ {At(j)}
    /\ Advance(j)
    /\ UNCHANGED <<rowVars, ageVars, trustVars, failures>>

\* The transaction of an activation begins: the default issuers it sees are
\* those it clears, for a managed authority.
ClearDefaults(j) ==
    /\ Pending(j, "clear")
    /\ job' = [job EXCEPT ![j].todo = Tail(@),
          ![j].seen = IF At(j) \in External THEN {}
                      ELSE {a \in issuer : HomeOf[a] = HomeOf[At(j)]}]
    /\ UNCHANGED <<rowVars, keys, ageVars, trustVars, failures>>

\* The update that sets a status commits.  Every status but "active" of a
\* managed authority also resets isDefaultIssuer.
CommitStatus(j) ==
    /\ \E to \in {"active", "retiring", "revoked"} :
          /\ Pending(j, to)
          /\ status' = [status EXCEPT ![At(j)] = to]
          /\ issuer' = IF to = "active"
                       THEN (issuer \ job[j].seen) \cup ({At(j)} \ External)
                       ELSE issuer \ {At(j)}
    /\ job' = [job EXCEPT ![j] = Advanced([@ EXCEPT !.seen = {}])]
    /\ UNCHANGED <<crl, certificate, issuance, keys, ageVars, trustVars, failures>>

Unapprove(j) ==
    /\ Pending(j, "unapprove")
    /\ certificate' = [certificate EXCEPT ![job[j].cert].status = "revoked"]
    /\ Advance(j)
    /\ UNCHANGED <<status, issuer, crl, issuance, keys, ageVars, trustVars, failures>>

\* The certificates to list are read, and the list is signed.
ListRevoked(j) ==
    /\ Pending(j, "list")
    /\ At(j) \in keys \cup External
    /\ job' = [job EXCEPT ![j].todo = Tail(@),
          ![j].seen = IF At(j) \in External THEN {}
                      ELSE {c \in Certificates : certificate[c].status = "revoked"
                                                  /\ certificate[c].by = At(j)}]
    /\ UNCHANGED <<rowVars, keys, ageVars, trustVars, failures>>

\* The list is stored, and published if the authority is trusted.
SaveCrl(j) ==
    /\ Pending(j, "save")
    /\ crl' = [crl EXCEPT ![At(j)] = [known |-> TRUE, revoked |-> job[j].seen]]
    /\ overdue' = overdue \ {At(j)}
    /\ job' = [job EXCEPT ![j] = Settled([job[j] EXCEPT !.seen = {},
          !.todo = IF status[At(j)] \in {"active", "retiring"} THEN Publication ELSE <<>>])]
    /\ UNCHANGED <<status, issuer, certificate, issuance, keys, lapsed, trustVars, failures>>

RequestIssuance(j) ==
    /\ Pending(j, "request")
    /\ issuance' = [issuance EXCEPT ![job[j].cert] = "open"]
    /\ Advance(j)
    /\ UNCHANGED <<status, issuer, crl, certificate, keys, ageVars, trustVars, failures>>

SignCertificate(j) ==
    /\ Pending(j, "sign")
    /\ At(j) \in keys
    /\ Advance(j)
    /\ UNCHANGED <<rowVars, keys, ageVars, trustVars, failures>>

RecordCertificate(j) ==
    /\ Pending(j, "record")
    /\ certificate' = [certificate EXCEPT ![job[j].cert] = [status |-> "approved", by |-> At(j)]]
    /\ issuance' = [issuance EXCEPT ![job[j].cert] = IF @ = "open" THEN "completed" ELSE @]
    /\ Advance(j)
    /\ UNCHANGED <<status, issuer, crl, keys, ageVars, trustVars, failures>>

\* The catch of issue: errorCode ISSUANCE_FAILED.
RecordFailure(j) ==
    /\ Pending(j, "failed")
    /\ issuance' = [issuance EXCEPT ![job[j].cert] = "failed"]
    /\ Advance(j)
    /\ UNCHANGED <<status, issuer, crl, certificate, keys, ageVars, trustVars, failures>>

-----------------------------------------------------------------------------
\* Publication.

Trusted == {a \in Authorities : status[a] \in {"active", "retiring"}}
ListOf(a) == IF crl[a].known THEN {<<a, crl[a].revoked>>} ELSE {}

buildTrustBundle == [ca |-> Trusted, crl |-> UNION {ListOf(a) : a \in Trusted}]

\* It throws if any of them has expired, or has an expired list.
Buildable ==
    Trusted \cap (lapsed \cup {a \in overdue : crl[a].known}) = {}

ReadTrust(j) ==
    /\ Pending(j, "read")
    /\ Buildable
    /\ job[j].left = {}
    /\ job' = [job EXCEPT ![j].todo = Tail(@), ![j].bundle = buildTrustBundle,
                          ![j].left = {"ca", "crl"}]
    /\ UNCHANGED <<rowVars, keys, ageVars, trustVars, failures>>

Written(r, file) ==
    LET left == r.left \ {file}
        isLast == r.todo # <<>> /\ Head(r.todo).do = "write" /\ left = {}
    IN Settled([r EXCEPT !.left = left, !.todo = IF isLast THEN Tail(@) ELSE @])

\* atomicWrite of one of the two files; a write goes on when the other failed.
WriteBundle(j, file) ==
    /\ file \in job[j].left
    /\ files' = [files EXCEPT ![file] = job[j].bundle[file]]
    /\ job' = [job EXCEPT ![j] = Written(@, file)]
    /\ UNCHANGED <<rowVars, keys, ageVars, loaded, failures>>

Trigger(j) ==
    /\ Pending(j, "trigger")
    /\ loaded' = files
    /\ Advance(j)
    /\ UNCHANGED <<rowVars, keys, ageVars, files, failures>>

-----------------------------------------------------------------------------
\* What an operation does when step do has failed: undo is what its caller does.
Recovery(j, undo) ==
    CASE job[j].op = "boot" -> Publication
      [] Pending(j, "insert") -> (IF At(j) \in External THEN <<>> ELSE <<Step("drop", At(j))>>) \o undo
      [] Pending(j, "sign") -> <<Step("failed", At(j))>>
      [] OTHER -> undo

\* A process that cannot publish as it starts is started again.
Outcome(j) == IF job[j].op = "boot" THEN "boot" ELSE "failed"

\* The step at hand fails: the database, the disk, OpenSSL or a download.
FailStep(j, undo) ==
    /\ job[j].todo # <<>>
    /\ failures < MaxFailures
    /\ failures' = failures + 1
    /\ \E lost \in SUBSET job[j].left :
          /\ Pending(j, "write") => lost # {}
          /\ job' = [job EXCEPT ![j].todo = Recovery(j, undo), ![j].op = Outcome(j),
                                ![j].left = @ \ lost, ![j].seen = {}]
    /\ UNCHANGED <<rowVars, keys, ageVars, trustVars>>

\* The bundle cannot be built, or the key is missing.
RefuseStep(j, undo) ==
    /\ \/ Pending(j, "read") /\ ~Buildable
       \/ Pending(j, "sign") /\ At(j) \notin keys
       \/ Pending(j, "list") /\ At(j) \notin keys \cup External
    /\ job' = [job EXCEPT ![j].todo = Recovery(j, undo), ![j].op = Outcome(j), ![j].seen = {}]
    /\ UNCHANGED <<rowVars, keys, ageVars, trustVars, failures>>

\* The process stops, whatever is under way, and starts: it publishes first.
Restart(j) ==
    /\ failures < MaxFailures
    /\ failures' = failures + 1
    /\ job' = [k \in Jobs |->
          IF k = j THEN [Free EXCEPT !.op = "boot", !.todo = Publication] ELSE Free]
    /\ UNCHANGED <<rowVars, keys, ageVars, trustVars>>

\* An authority's certificate expires: a lab one lives for two days.
AuthorityLapses(a) ==
    /\ status[a] # "none"
    /\ lapsed' = lapsed \cup {a}
    /\ UNCHANGED <<rowVars, keys, overdue, trustVars, job, failures>>

\* A list passes its nextUpdate, a week after it was signed.
CrlLapses(a) ==
    /\ crl[a].known
    /\ overdue' = overdue \cup {a}
    /\ UNCHANGED <<rowVars, keys, lapsed, trustVars, job, failures>>

\* Requests about the authorities in A.
AuthorityRequests(j, A) ==
    \E a \in A :
       \/ createManaged(j, a) \/ importExternal(j, a)
       \/ \E to \in {"active", "retiring", "revoked"} : setStatus(j, a, to)
       \/ \E b \in A : rotate(j, a, b)
       \/ refreshCrl(j, a) \/ uploadCrl(j, a)

CertificateRequests(j) ==
    \E c \in Certificates :
       \/ \E a \in Authorities : issue(j, c, a) \/ registerExternal(j, c, a)
       \/ revoke(j, c)

PkiRequests(j) == AuthorityRequests(j, Authorities) \/ CertificateRequests(j)

PkiSteps(j) ==
    \/ PutKey(j) \/ InsertAuthority(j) \/ DropKey(j)
    \/ ClearDefaults(j) \/ CommitStatus(j)
    \/ Unapprove(j) \/ ListRevoked(j) \/ SaveCrl(j)
    \/ RequestIssuance(j) \/ SignCertificate(j) \/ RecordCertificate(j) \/ RecordFailure(j)
    \/ ReadTrust(j) \/ Trigger(j)
    \/ \E file \in {"ca", "crl"} : WriteBundle(j, file)

Aging == \E a \in Authorities : AuthorityLapses(a) \/ CrlLapses(a)

PkiNext ==
    \/ \E j \in Jobs : PkiRequests(j) \/ PkiSteps(j) \/ FailStep(j, <<>>) \/ RefuseStep(j, <<>>)
                      \/ Restart(j)
    \/ Aging

PkiSpec == PkiInit /\ [][PkiNext]_pkiVars

-----------------------------------------------------------------------------
\* An authority that may sign has its key: the key is written before the row,
\* deleted only for a row that was never inserted, whatever fails between.  A
\* completed issuance has its certificate, and a failed one never gets it.
\* The rows and files have their types throughout.
IssuersHaveKeys ==
    /\ PkiTypeOK
    /\ \A a \in Authorities \ External : status[a] # "none" => a \in keys
    /\ \A c \in Certificates :
          /\ issuance[c] = "completed" => certificate[c].status # "none"
          /\ issuance[c] = "failed" => certificate[c].status = "none"

\* The default issuers of the organization of a.
IssuersBeside(a, issuers) == {b \in issuers : HomeOf[b] = HomeOf[a]}

\* An operation that nothing overlapped and that succeeded has taken effect:
\* Envoy trusts exactly the active and retiring authorities with their stored
\* lists; an activated authority is its organization's only default issuer, and
\* so is the replacement after a rotation; a revoked certificate is on the list
\* of its authority.  So it is whatever earlier operations, overlapping, failed
\* or cut short, left behind.
OperationsTakeEffect ==
    [][\A j \in Jobs :
          LET r == job[j]
              a == r.about
          IN r.clean /\ r # Free /\ job'[j] = Free /\ failures' = failures =>
             /\ r.op \in {"active", "retiring", "revoked", "rotate", "boot"} =>
                   loaded' = buildTrustBundle
             /\ r.op \in {"active", "retiring", "revoked"} => status'[a] = r.op
             /\ r.op = "active" /\ a \notin External => IssuersBeside(a, issuer') = {a}
             /\ r.op = "rotate" =>
                   /\ status'[a] = "retiring"
                   /\ \E b \in Trusted \ {a} : IssuersBeside(a, issuer') = {b}
             /\ r.op = "revokeCertificate" /\ a \notin External =>
                   /\ r.cert \in crl'[a].revoked
                   /\ a \in Trusted => <<a, crl'[a].revoked>> \in loaded'.crl]_pkiVars
=============================================================================
