-------------------------- MODULE LabCertificates ---------------------------
(***************************************************************************)
(* The mTLS identities of the lab's quick playground: the page generates a *)
(* key at the local agent, has the platform issue a certificate for it,    *)
(* installs the certificate at the agent and, when it replaces another,    *)
(* revokes that one.  Two tabs may do this with the same identities, each  *)
(* step may fail, and each tab acts on what it read last.                  *)
(***************************************************************************)
EXTENDS Naturals, Sequences

CONSTANTS
    LabTabs,        \* tabs with the page open
    LocalKeys,      \* identities the agent may generate
    NoKey,
    MaxIssued,      \* bound: certificates issued
    MaxOperations   \* bound: operations started

ASSUME LabCertificatesAssumption ==
    /\ NoKey \notin LocalKeys
    /\ MaxIssued \in Nat

VARIABLES
    installed,       \* at the agent: identities and their certificate, if any
    issued,     \* at the platform: certificates, in the order issued
    tab,        \* what each tab has read and is doing
    generated,  \* the identities ever generated: none comes back
    askedFor,   \* certificates that a user revoked in so many words
    operations  \* operations started, for their bound

labCertificateVars == <<installed, issued, tab, generated, askedFor, operations>>

NoCertificate == 0
Quiet == [step |-> "none"]

Revoked(cs, c) == [cs EXCEPT ![c].status = "revoked"]
Removed(identities, key) == [k \in DOMAIN identities \ {key} |-> identities[k]]
Installed(identities, key, c) ==
    [k \in DOMAIN identities \cup {key} |-> IF k = key THEN c ELSE identities[k]]

-----------------------------------------------------------------------------
(* What a tab shows.                                                       *)

selectedMtlsIdentity(t) == tab[t].key \in DOMAIN tab[t].identities
CertificateShown(t) == tab[t].identities[tab[t].key]

\* The certificates are listed at other moments than the identities: the one
\* an identity carries may be unknown to the tab.
selectedCertificate(t) ==
    IF selectedMtlsIdentity(t) /\ CertificateShown(t) \in DOMAIN tab[t].certificates
    THEN CertificateShown(t) ELSE NoCertificate

\* Expiry is left out: nothing here follows from it.
certificateState(t) ==
    IF selectedCertificate(t) = NoCertificate THEN "missing"
    ELSE IF tab[t].certificates[selectedCertificate(t)].status = "revoked" THEN "revoked" ELSE "active"

Running(t) == tab[t].task # Quiet
Go(t, task) == tab' = [tab EXCEPT ![t].task = task] /\ UNCHANGED operations
Undertake(t, task) ==
    /\ ~Running(t) /\ operations < MaxOperations
    /\ operations' = operations + 1
    /\ tab' = [tab EXCEPT ![t].task = task]
Desist(t) == tab' = [tab EXCEPT ![t].task = Quiet]

\* The selection falls back on the first identity when its own is gone.
RefreshedBy(t, key) ==
    [tab[t] EXCEPT !.identities = installed,
                   !.key = IF key \in DOMAIN installed THEN key
                           ELSE IF DOMAIN installed = {} THEN NoKey
                           ELSE CHOOSE k \in DOMAIN installed : TRUE]

-----------------------------------------------------------------------------
(* The operations of a tab, one at a time; a failure ends the operation.   *)

generateMtlsIdentity(t, key) ==
    /\ key \notin generated
    /\ generated' = generated \cup {key}
    /\ installed' = Installed(installed, key, NoCertificate)
    /\ Undertake(t, [step |-> "refresh", key |-> key])
    /\ UNCHANGED <<issued, askedFor>>

Refreshed(t) ==
    /\ tab[t].task.step = "refresh"
    /\ tab' = [tab EXCEPT ![t] = [RefreshedBy(t, tab[t].task.key) EXCEPT !.task = Quiet]]
    /\ UNCHANGED <<installed, issued, generated, askedFor, operations>>

\* The agent must still have the key.  An identity that carries a certificate
\* is renewed: the certificate to replace is the one shown at the click.
issueMtlsCertificate(t) ==
    /\ selectedMtlsIdentity(t) /\ tab[t].key \in DOMAIN installed
    /\ Undertake(t, [step |-> "issue", key |-> tab[t].key,
                 previous |-> selectedCertificate(t),
                 revoking |-> certificateState(t) = "active"])
    /\ UNCHANGED <<installed, issued, generated, askedFor>>

CertificateIssued(t) ==
    LET task == tab[t].task IN
    /\ task.step = "issue" /\ Len(issued) < MaxIssued
    /\ issued' = Append(issued, [key |-> task.key, status |-> "approved"])
    /\ Go(t, [step |-> "install", key |-> task.key, previous |-> task.previous,
              revoking |-> task.revoking, certificate |-> Len(issued) + 1])
    /\ UNCHANGED <<installed, generated, askedFor>>

\* The agent takes a certificate for a key it has.
CertificateInstalled(t) ==
    /\ tab[t].task.step = "install" /\ tab[t].task.key \in DOMAIN installed
    /\ installed' = Installed(installed, tab[t].task.key, tab[t].task.certificate)
    /\ Go(t, [tab[t].task EXCEPT !.step = "reread"])
    /\ UNCHANGED <<issued, generated, askedFor>>

IdentitiesReread(t) ==
    /\ tab[t].task.step = "reread"
    /\ tab' = [tab EXCEPT ![t] = [RefreshedBy(t, tab[t].key) EXCEPT
                  !.task.step = IF tab[t].task.revoking THEN "revoke" ELSE "list"]]
    /\ UNCHANGED <<installed, issued, generated, askedFor, operations>>

\* Whatever becomes of the revocation, the certificates are listed.
PreviousRevoked(t) ==
    /\ tab[t].task.step = "revoke"
    /\ \/ issued' = Revoked(issued, tab[t].task.previous)
       \/ issued' = issued
    /\ Go(t, [tab[t].task EXCEPT !.step = "list"])
    /\ UNCHANGED <<installed, generated, askedFor>>

loadCertificates(t) ==
    /\ tab[t].task.step = "list" \/ ~Running(t)
    /\ tab' = [tab EXCEPT ![t].certificates = issued, ![t].task = Quiet]
    /\ UNCHANGED <<installed, issued, generated, askedFor, operations>>

StepFails(t) ==
    /\ tab[t].task.step \in {"refresh", "issue", "install", "reread", "list"}
    /\ Desist(t)
    /\ UNCHANGED <<installed, issued, generated, askedFor, operations>>

revokeMtlsCertificate(t) ==
    /\ certificateState(t) = "active"
    /\ issued' = Revoked(issued, selectedCertificate(t))
    /\ askedFor' = askedFor \cup {selectedCertificate(t)}
    /\ Undertake(t, [step |-> "list"])
    /\ UNCHANGED <<installed, generated>>

removeMtlsIdentity(t) ==
    /\ selectedMtlsIdentity(t)
    /\ installed' = Removed(installed, tab[t].key)
    /\ Undertake(t, [step |-> "refresh", key |-> NoKey])
    /\ UNCHANGED <<issued, generated, askedFor>>

\* Connecting to the agent lists its identities.
ListedAgain(t) ==
    /\ ~Running(t) /\ tab[t].identities # installed
    /\ tab' = [tab EXCEPT ![t] = RefreshedBy(t, tab[t].key)]
    /\ UNCHANGED <<installed, issued, generated, askedFor, operations>>

SelectIdentity(t, key) ==
    /\ key \in DOMAIN tab[t].identities \ {tab[t].key}
    /\ tab' = [tab EXCEPT ![t].key = key]
    /\ UNCHANGED <<installed, issued, generated, askedFor, operations>>

-----------------------------------------------------------------------------
LabCertificatesInit ==
    /\ installed = [k \in {} |-> NoCertificate] /\ issued = <<>> /\ generated = {}
    /\ askedFor = {} /\ operations = 0
    /\ tab = [t \in LabTabs |-> [identities |-> [k \in {} |-> NoCertificate], key |-> NoKey,
                                 certificates |-> <<>>, task |-> Quiet]]

LabCertificatesNext ==
    \/ \E t \in LabTabs :
          \/ \E key \in LocalKeys : generateMtlsIdentity(t, key) \/ SelectIdentity(t, key)
          \/ issueMtlsCertificate(t) \/ CertificateIssued(t) \/ CertificateInstalled(t)
          \/ IdentitiesReread(t) \/ PreviousRevoked(t) \/ loadCertificates(t)
          \/ Refreshed(t) \/ ListedAgain(t) \/ StepFails(t)
          \/ revokeMtlsCertificate(t) \/ removeMtlsIdentity(t)

LabCertificatesTypeOK ==
    /\ generated \subseteq LocalKeys /\ DOMAIN installed \subseteq generated
    /\ \A k \in DOMAIN installed : installed[k] \in DOMAIN issued \cup {NoCertificate}
    /\ askedFor \subseteq DOMAIN issued
    /\ \A t \in LabTabs : Len(tab[t].certificates) <= Len(issued)

-----------------------------------------------------------------------------
(* Replacing a certificate never leaves an identity with a revoked one: a  *)
(* certificate that the agent presents is for the identity's own key and,  *)
(* unless a user revoked it by name, still approved - whichever step of a  *)
(* renewal failed, and though another tab renews the same identity.        *)
(* lab-quick-playground.tsx, issueMtlsCertificate.                         *)
ReplacementKeepsWorking ==
    \A key \in DOMAIN installed : installed[key] # NoCertificate =>
       /\ issued[installed[key]].key = key
       /\ issued[installed[key]].status = "approved" \/ installed[key] \in askedFor
=============================================================================
