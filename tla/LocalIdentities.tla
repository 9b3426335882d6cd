--------------------------- MODULE LocalIdentities ---------------------------
(***************************************************************************)
(* The identity store of gatewayctl (identity-store.ts) and the operations *)
(* that use it (operations.ts): identities.json lists the identities, and  *)
(* the private keys, requests and certificates are files beside it.        *)
(*                                                                         *)
(* An operation is a series of file accesses with awaits in between.  The  *)
(* agent serves many at once and the command line is a process of its own; *)
(* nothing orders them, and any process may end between two accesses.      *)
(* Every file is replaced by a rename, so an access sees all of it.        *)
(***************************************************************************)
EXTENDS Integers, FiniteSets

CONSTANTS Operations,       \* operations in progress at once
          Identities,       \* randomUUID: identities in the order they are made
          Names,
          NoIdentity

ASSUME IdentityAssumption == NoIdentity \notin Identities

VARIABLES manifest,         \* identities.json: identity -> its entry
          keyFiles,         \* identities whose encrypted private key is on disk
          certificates,     \* identity -> whose key its certificate file certifies
          minted,           \* identities made
          ops,              \* operation -> what it does and has read
          crossed,          \* history: two read-modify-writes overlapped
          failed            \* history: identities listed whose files a use did not find

identityVars == <<manifest, keyFiles, certificates, minted, ops, crossed, failed>>

Entries == [name : Names, type : {"jwt", "mtls"}, generated : BOOLEAN, certified : BOOLEAN]
NoEntries == [i \in {} |-> 0]
IdleOp == [kind |-> "none", step |-> "none", id |-> NoIdentity, owner |-> NoIdentity,
           read |-> NoEntries]

Put(f, x, v) == [y \in DOMAIN f \cup {x} |-> IF y = x THEN v ELSE f[y]]
Drop(f, x) == [y \in DOMAIN f \ {x} |-> f[y]]

\* Operations that have read the manifest and have yet to write it.
Holding == {o \in Operations : ops[o].step \in {"change", "check", "certificate", "record"}}

Begin(o, kind, step, i) ==
    /\ ops[o].kind = "none"
    /\ ops' = [ops EXCEPT ![o] = [IdleOp EXCEPT !.kind = kind, !.step = step, !.id = i]]
Continue(o, step) == ops' = [ops EXCEPT ![o].step = step]
Finish(o) == ops' = [ops EXCEPT ![o] = IdleOp]

\* readManifest, by an operation that will write it back.
ReadToChange(o, kind, i, owner) ==
    /\ crossed' = (crossed \/ Holding # {})
    /\ ops' = [ops EXCEPT ![o] = [kind |-> kind, step |-> "change", id |-> i, owner |-> owner,
                                  read |-> manifest]]

\* The files the entry of i names are there, and are of one key.
Ready(i) ==
    /\ manifest[i].generated => i \in keyFiles
    /\ manifest[i].certified => i \in DOMAIN certificates /\ certificates[i] = i

-----------------------------------------------------------------------------
(* generateJwt and generateMtls; addFileIdentity *)

\* persistGeneratedIdentity writes the key, encrypted by the keychain's
\* master key, and for mTLS the request, before the manifest is read.
WriteKey(o, i) ==
    /\ ops[o].kind = "none"
    /\ i \notin minted
    /\ minted' = minted \cup {i}
    /\ keyFiles' = keyFiles \cup {i}
    /\ Begin(o, "generate", "read", i)
    /\ UNCHANGED <<manifest, certificates, crossed, failed>>

ReadForEntry(o) ==
    /\ ops[o].kind = "generate" /\ ops[o].step = "read"
    /\ ReadToChange(o, "generate", ops[o].id, NoIdentity)
    /\ UNCHANGED <<manifest, keyFiles, certificates, minted, failed>>

\* An imported key stays in its own file, checked before.
Import(o, i) ==
    /\ ops[o].kind = "none"
    /\ i \notin minted
    /\ minted' = minted \cup {i}
    /\ ReadToChange(o, "import", i, NoIdentity)
    /\ UNCHANGED <<manifest, keyFiles, certificates, failed>>

\* addIdentity: the key of a refused name stays behind.
AddIdentity(o, name, type) ==
    /\ ops[o].kind \in {"generate", "import"} /\ ops[o].step = "change"
    /\ Finish(o)
    /\ LET read == ops[o].read IN
         IF \E i \in DOMAIN read : read[i].name = name
           THEN UNCHANGED manifest
           ELSE manifest' = Put(read, ops[o].id,
                                [name |-> name, type |-> type, certified |-> FALSE,
                                 generated |-> ops[o].kind = "generate"])
    /\ UNCHANGED <<keyFiles, certificates, minted, crossed, failed>>

-----------------------------------------------------------------------------
(* remove *)

ReadForRemoval(o, i) ==
    /\ ops[o].kind = "none"
    /\ i \in DOMAIN manifest
    /\ ReadToChange(o, "remove", i, NoIdentity)
    /\ UNCHANGED <<manifest, keyFiles, certificates, minted, failed>>

\* Mutant: the key is deleted before the manifest forgets the identity.
deleteKeyFirst(o) ==
    /\ ops[o].kind = "remove" /\ ops[o].step = "change"
    /\ Continue(o, "delete")
    /\ keyFiles' = keyFiles \ {ops[o].id}
    /\ UNCHANGED <<manifest, certificates, minted, crossed, failed>>

Unlist(o) ==
    /\ ops[o].kind = "remove" /\ ops[o].step = "change"
    /\ manifest' = Drop(ops[o].read, ops[o].id)
    /\ Continue(o, "delete")
    /\ UNCHANGED <<keyFiles, certificates, minted, crossed, failed>>

DeleteKey(o) ==
    /\ ops[o].kind = "remove" /\ ops[o].step = "delete"
    /\ keyFiles' = IF ops[o].read[ops[o].id].generated THEN keyFiles \ {ops[o].id} ELSE keyFiles
    /\ Continue(o, "deleteCertificate")
    /\ UNCHANGED <<manifest, certificates, minted, crossed, failed>>

DeleteCertificate(o) ==
    /\ ops[o].kind = "remove" /\ ops[o].step = "deleteCertificate"
    /\ certificates' = Drop(certificates, ops[o].id)
    /\ Finish(o)
    /\ UNCHANGED <<manifest, keyFiles, minted, crossed, failed>>

-----------------------------------------------------------------------------
(* installCertificate *)

\* `owner' is the identity whose key the submitted certificate certifies.
ReadForCertificate(o, i, owner) ==
    /\ ops[o].kind = "none"
    /\ i \in DOMAIN manifest
    /\ manifest[i].type = "mtls"
    /\ ReadToChange(o, "install", i, owner)
    /\ UNCHANGED <<manifest, keyFiles, certificates, minted, failed>>

\* assertCertificateMatchesKey reads the private key, which may be gone.
CheckCertificate(o) ==
    /\ ops[o].kind = "install" /\ ops[o].step = "change"
    /\ LET i == ops[o].id IN
         IF ops[o].owner = i /\ (ops[o].read[i].generated => i \in keyFiles)
           THEN Continue(o, "certificate")
           ELSE Finish(o)
    /\ UNCHANGED <<manifest, keyFiles, certificates, minted, crossed, failed>>

WriteCertificate(o) ==
    /\ ops[o].kind = "install" /\ ops[o].step = "certificate"
    /\ certificates' = Put(certificates, ops[o].id, ops[o].owner)
    /\ Continue(o, "record")
    /\ UNCHANGED <<manifest, keyFiles, minted, crossed, failed>>

RecordCertificate(o) ==
    /\ ops[o].kind = "install" /\ ops[o].step = "record"
    /\ manifest' = [ops[o].read EXCEPT ![ops[o].id].certified = TRUE]
    /\ Finish(o)
    /\ UNCHANGED <<keyFiles, certificates, minted, crossed, failed>>

-----------------------------------------------------------------------------
(* jwt.signAssertion and mtls.executeRequest *)

\* A jwt identity signs; an mtls identity makes requests once it has a
\* certificate.
Use(o, i) ==
    /\ i \in DOMAIN manifest
    /\ manifest[i].type = "mtls" => manifest[i].certified
    /\ Begin(o, "use", "files", i)
    /\ UNCHANGED <<manifest, keyFiles, certificates, minted, crossed, failed>>

\* What the identity needs is read from its files, which may be gone.
ReadFiles(o) ==
    /\ ops[o].kind = "use" /\ ops[o].step = "files"
    /\ LET i == ops[o].id IN
         failed' = IF i \in DOMAIN manifest /\ ~Ready(i) THEN failed \cup {i} ELSE failed
    /\ Finish(o)
    /\ UNCHANGED <<manifest, keyFiles, certificates, minted, crossed>>

\* The process of an operation ends.
Die(o) ==
    /\ ops[o].kind # "none"
    /\ Finish(o)
    /\ UNCHANGED <<manifest, keyFiles, certificates, minted, crossed, failed>>

-----------------------------------------------------------------------------
IdentityInit ==
    /\ manifest = NoEntries /\ keyFiles = {} /\ certificates = [i \in {} |-> NoIdentity]
    /\ minted = {}
    /\ ops = [o \in Operations |-> IdleOp]
    /\ crossed = FALSE /\ failed = {}

IdentityNext ==
    \E o \in Operations :
        \/ \E i \in Identities : WriteKey(o, i) \/ Import(o, i)
        \/ ReadForEntry(o)
        \/ \E name \in Names, type \in {"jwt", "mtls"} : AddIdentity(o, name, type)
        \/ \E i \in DOMAIN manifest : ReadForRemoval(o, i) \/ Use(o, i)
        \/ Unlist(o) \/ DeleteKey(o) \/ DeleteCertificate(o)
        \/ \E i \in DOMAIN manifest, owner \in minted : ReadForCertificate(o, i, owner)
        \/ CheckCertificate(o) \/ WriteCertificate(o) \/ RecordCertificate(o)
        \/ ReadFiles(o) \/ Die(o)

IdentitySpec == IdentityInit /\ [][IdentityNext]_identityVars

\* The state's types.
IdentityTypeOK ==
    /\ DOMAIN manifest \subseteq minted
    /\ \A i \in DOMAIN manifest : manifest[i] \in Entries
    /\ keyFiles \subseteq minted /\ minted \subseteq Identities
    /\ \A i \in DOMAIN certificates : certificates[i] \in Identities
    /\ \A o \in Operations : ops[o].id \in Identities \cup {NoIdentity}

-----------------------------------------------------------------------------
(* Properties *)

NamesAreUnique == \A i, j \in DOMAIN manifest : manifest[i].name = manifest[j].name => i = j

\* As long as no two changes of identities.json have overlapped, and whenever
\* a process ends, every identity the manifest lists has its private key, a
\* certificate of that key once it says so, and a name of its own, and using
\* one that is listed never misses a file (identity-store.ts:176, :220, :264:
\* what an entry names is written before it and deleted after it).
ListedIdentitiesWork ==
    \/ crossed
    \/ NamesAreUnique /\ failed = {} /\ \A i \in DOMAIN manifest : Ready(i)
=============================================================================
