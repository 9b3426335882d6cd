----------------------------- MODULE LabWorkspaces -----------------------------
(***************************************************************************)
(* The personal lab workspaces of one user: LabWorkspaceService, the       *)
(* transactions of lab-workspaces.ts, the example they are provisioned     *)
(* with and the worker that expires them.                                  *)
(*                                                                         *)
(* Creating a workspace is a dozen transactions: the workspace, its        *)
(* certificate authority with its publications (PkiTrust), then the parts  *)
(* of a sample.  Each part first looks up which workspace the user has at  *)
(* that moment.  What fails after the first transaction is compensated:    *)
(* the workspace the user then has is revoked.                             *)
(*                                                                         *)
(* The transactions of the workspace itself are Serializable and take a    *)
(* lock of the user, so each is one step.                                  *)
(***************************************************************************)
EXTENDS PkiTrust

CONSTANTS
    Workspaces,
    CaOf,     \* [Workspaces -> the authority it is created with]
    Sweeper   \* the job of the expiry worker

ASSUME LabAssumption ==
    /\ IsFiniteSet(Workspaces) /\ Nobody \notin Workspaces
    /\ CaOf \in [Workspaces -> Authorities \ External]
    /\ \A v, w \in Workspaces : CaOf[v] = CaOf[w] => v = w
    /\ \A w \in Workspaces : HomeOf[CaOf[w]] = w
    /\ Sweeper \in Jobs

VARIABLES
    workspace,  \* [Workspaces -> status; "none" before its creation]
    due,        \* the workspaces whose expiresAt has passed
    live,       \* [Workspaces -> the parts of samples that are in force]
    made        \* [Jobs -> the workspaces where its sample's parts are]

labOnly == <<workspace, due, live, made>>
labVars == <<pkiVars, labOnly>>

Parts == {"upstream", "proxy", "deployment", "product", "application"}
NoSample == [upstream |-> Nobody, proxy |-> Nobody, product |-> Nobody, start |-> Nobody]

LabInit ==
    /\ PkiInit
    /\ workspace = [w \in Workspaces |-> "none"]
    /\ due = {}
    /\ live = [w \in Workspaces |-> {}]
    /\ made = [j \in Jobs |-> NoSample]

-----------------------------------------------------------------------------
\* What the operations consist of.

PartSteps(part) == <<Step("resolve", Nobody), Step(part, Nobody)>>
Sample == PartSteps("upstream") \o PartSteps("proxy")
          \o <<Step("resolve", Nobody), Step("target", Nobody), Step("deployment", Nobody)>>
          \o PartSteps("product") \o PartSteps("application")
Compensation == <<Step("abandon", Nobody)>> \o Publication

create(j) == Start(j, "create", <<Step("reserve", Nobody)>>, Nobody, Nobody)
reset(j) == Start(j, "reset", <<Step("reset", Nobody)>>, Nobody, Nobody)
revokeWorkspace(j) == Start(j, "end", <<Step("end", Nobody)>> \o Publication, Nobody, Nobody)

\* Any other request of the lab API looks the workspace up first.
labRequest(j) == Start(j, "lab", <<Step("resolve", Nobody)>>, Nobody, Nobody)

\* The workspaces due, in the order the database returns them.
Orders(S) == {s \in [1 .. Cardinality(S) -> S] : \A i, k \in DOMAIN s : s[i] = s[k] => i = k}
DueNow == {w \in due : workspace[w] = "active"}
Expiries(s) == [i \in DOMAIN s |-> Step("expire", s[i])]

\* Mutant: the timer looks for workspaces that still have something in force.
sweepLivingOnly(j) ==
    /\ j = Sweeper
    /\ {w \in DueNow : live[w] # {}} # {}
    /\ \E s \in Orders({w \in DueNow : live[w] # {}}) :
          Start(j, "sweep", Expiries(s) \o Publication, Nobody, Nobody)

\* The timer finds workspaces due; it does nothing if there are none.
expireDueLabWorkspaces(j) ==
    /\ j = Sweeper
    /\ DueNow # {}
    /\ \E s \in Orders(DueNow) :
          Start(j, "sweep", Expiries(s) \o Publication, Nobody, Nobody)

\* Mutant: only a creation is undone.
undoCreation(j) ==
    CASE job[j].op = "create" /\ made[j].start # Nobody -> Compensation
      [] job[j].op = "failed" /\ \E do \in {"drop", "expire", "abandon"} : Pending(j, do) ->
            Tail(job[j].todo)
      [] OTHER -> <<>>

\* What remains to be done when a step of job j fails.  What already undoes a
\* failure goes on, but for a publication.
Undo(j) ==
    CASE job[j].op \in {"create", "reset"} /\ made[j].start # Nobody -> Compensation
      [] job[j].op = "failed" /\ \E do \in {"drop", "expire", "abandon"} : Pending(j, do) ->
            Tail(job[j].todo)
      [] OTHER -> <<>>

LabRequests(j) ==
    \/ create(j) \/ reset(j) \/ revokeWorkspace(j) \/ labRequest(j)
    \/ expireDueLabWorkspaces(j)

-----------------------------------------------------------------------------
\* The transactions on a workspace.

Current == {w \in Workspaces : workspace[w] = "active"}

\* disableWorkspaceResources of workspaces W: no part stays in force, and no
\* certificate of their organizations stays approved.
Disabled(W) ==
    /\ live' = [w \in Workspaces |-> IF w \in W THEN {} ELSE live[w]]
    /\ certificate' = [c \in Certificates |->
          IF certificate[c].status = "approved" /\ HomeOf[certificate[c].by] \in W
          THEN [certificate[c] EXCEPT !.status = "revoked"] ELSE certificate[c]]

\* deactivateWorkspaceResources: their authorities are revoked as well.
Deactivated(W) ==
    /\ Disabled(W)
    /\ status' = [a \in Authorities |->
          IF HomeOf[a] \in W /\ status[a] # "none" THEN "revoked" ELSE status[a]]
    /\ issuer' = {a \in issuer : HomeOf[a] \notin W}

\* The upstreams in W that samples under way rely on are inactive.
WithoutUpstreams(W) ==
    [k \in Jobs |-> IF made[k].upstream \in W THEN [made[k] EXCEPT !.upstream = Nobody] ELSE made[k]]

\* A job that only fails: what it still does is to undo.
Failing(j, undo) == [job[j] EXCEPT !.todo = undo, !.op = "failed", !.seen = {}]

\* createPersonalLabWorkspace returns the workspace there is, or creates one,
\* ending first the one that is due.
Reuse(j) ==
    /\ Pending(j, "reserve")
    /\ Current \ due # {}
    /\ job' = [job EXCEPT ![j] = Free]
    /\ UNCHANGED <<rowVars, keys, ageVars, trustVars, failures, labOnly>>

Reserve(j, w) ==
    /\ Pending(j, "reserve")
    /\ Current \ due = {}
    /\ workspace[w] = "none"
    /\ Deactivated(Current)
    /\ workspace' = [v \in Workspaces |->
          IF v = w THEN "active" ELSE IF v \in Current THEN "expired" ELSE workspace[v]]
    /\ made' = [WithoutUpstreams(Current) EXCEPT ![j].start = w]
    /\ job' = [job EXCEPT ![j].todo =
          Created(CaOf[w]) \o SetTo(CaOf[w], "active") \o Sample]
    /\ UNCHANGED <<crl, issuance, keys, ageVars, trustVars, failures, due>>

\* resetPersonalLabWorkspace; for a workspace that is due its transaction is
\* rolled back, and so fails as it does without a workspace.
Reset(j) ==
    /\ Pending(j, "reset")
    /\ \E w \in Current \ due :
          /\ Disabled({w})
          /\ made' = [WithoutUpstreams({w}) EXCEPT ![j].start = w]
    /\ job' = [job EXCEPT ![j].todo = Sample]
    /\ UNCHANGED <<status, issuer, crl, issuance, keys, ageVars, trustVars, failures,
                   workspace, due>>

\* revokePersonalLabWorkspace, asked for or to compensate.
End(j) ==
    /\ Pending(j, "end") \/ Pending(j, "abandon")
    /\ \E w \in Current :
          /\ Deactivated({w})
          /\ workspace' = [workspace EXCEPT ![w] = "revoked"]
          /\ made' = WithoutUpstreams({w})
    /\ job' = [job EXCEPT ![j].todo = Tail(@)]
    /\ UNCHANGED <<crl, issuance, keys, ageVars, trustVars, failures, due>>

\* Without a workspace they fail; the compensation goes on to publish.
NoWorkspace(j) ==
    /\ \/ Pending(j, "reset") /\ Current \ due = {}
       \/ (Pending(j, "end") \/ Pending(j, "abandon")) /\ Current = {}
       \/ Pending(j, "resolve") /\ Current = {}
    /\ job' = [job EXCEPT ![j] = Failing(j, Undo(j))]
    /\ UNCHANGED <<rowVars, keys, ageVars, trustVars, failures, labOnly>>

\* expirePersonalLabWorkspace, unless it is not active any more.
Expire(j) ==
    /\ Pending(j, "expire")
    /\ LET W == {At(j)} \cap Current IN
       /\ Deactivated(W)
       /\ workspace' = [w \in Workspaces |-> IF w \in W THEN "expired" ELSE workspace[w]]
       /\ made' = WithoutUpstreams(W)
    /\ Advance(j)
    /\ UNCHANGED <<crl, issuance, keys, ageVars, trustVars, failures, due>>

\* getPersonalLabWorkspace: the workspace a request is about is read here.
Resolve(j) ==
    /\ Pending(j, "resolve")
    /\ \E w \in Current \ due :
          job' = [job EXCEPT ![j] = Advanced([@ EXCEPT !.home = w])]
    /\ UNCHANGED <<rowVars, keys, ageVars, trustVars, failures, labOnly>>

\* One that is due is expired, and the request fails.
ResolveDue(j) ==
    /\ Pending(j, "resolve")
    /\ \E w \in Current \cap due :
          job' = [job EXCEPT ![j] = Failing(j, <<Step("expire", w)>> \o Undo(j))]
    /\ UNCHANGED <<rowVars, keys, ageVars, trustVars, failures, labOnly>>

-----------------------------------------------------------------------------
\* The parts of a sample, in the workspace just read.

\* What a part needs of the parts before it.  The authorization of the actor
\* is for one organization.  A deployment needs its workspace as it is now,
\* and the route to itself.
PartFits(j, part) ==
    LET w == job[j].home IN
    CASE part \in {"upstream", "proxy"} -> TRUE
      [] part = "deployment" ->
            /\ made[j].proxy = w
            /\ w \in Current \ due
            /\ "deployment" \notin live[w]
      [] part = "product" -> made[j].proxy = w
      [] part = "application" -> made[j].product = w

\* resolveLabUpstreamInternalUrl: the upstream is active, in this workspace.
FindTarget(j) ==
    /\ Pending(j, "target")
    /\ made[j].upstream = job[j].home
    /\ Advance(j)
    /\ UNCHANGED <<rowVars, keys, ageVars, trustVars, failures, labOnly>>

MakePart(j, part) ==
    /\ Pending(j, part)
    /\ PartFits(j, part)
    /\ live' = [live EXCEPT ![job[j].home] = @ \cup {part}]
    /\ made' = [made EXCEPT ![j] =
          IF part = "application" THEN NoSample
          ELSE IF part = "deployment" THEN made[j]
          ELSE [made[j] EXCEPT ![part] = job[j].home]]
    /\ Advance(j)
    /\ UNCHANGED <<rowVars, keys, ageVars, trustVars, failures, workspace, due>>

Refused(j) ==
    /\ \/ Pending(j, "target") /\ made[j].upstream # job[j].home
       \/ \E part \in Parts : Pending(j, part) /\ ~PartFits(j, part)
    /\ job' = [job EXCEPT ![j] = Failing(j, Undo(j))]
    /\ UNCHANGED <<rowVars, keys, ageVars, trustVars, failures, labOnly>>

LabSteps(j) ==
    \/ Reuse(j) \/ Reset(j) \/ End(j) \/ NoWorkspace(j) \/ Expire(j) \/ Resolve(j) \/ ResolveDue(j)
    \/ FindTarget(j) \/ Refused(j)
    \/ \E w \in Workspaces : Reserve(j, w)
    \/ \E part \in Parts : MakePart(j, part)

\* A workspace has lived for 24 hours.
TimePasses(w) ==
    /\ workspace[w] = "active"
    /\ w \notin due
    /\ due' = due \cup {w}
    /\ UNCHANGED <<pkiVars, workspace, live, made>>

\* What a step of PkiTrust leaves of the labs: a sample whose job is over is
\* forgotten.
AndLabs ==
    /\ made' = [k \in Jobs |-> IF IsFree(k)' THEN NoSample ELSE made[k]]
    /\ UNCHANGED <<workspace, due, live>>

\* What the process does by itself of what it has begun.
Progress(j) ==
    \/ LabSteps(j)
    \/ PkiSteps(j) /\ AndLabs
    \/ RefuseStep(j, Undo(j)) /\ AndLabs

Sweep(j) == expireDueLabWorkspaces(j) /\ UNCHANGED labOnly

\* The administrators have authorities of their own; those of the labs come and
\* go with their workspaces, but anyone may have certificates.
OfPlatform == Authorities \ {CaOf[w] : w \in Workspaces}

LabNext ==
    \/ \E j \in Jobs :
          \/ /\ AuthorityRequests(j, OfPlatform) \/ CertificateRequests(j) \/ LabRequests(j)
             /\ UNCHANGED labOnly
          \/ Progress(j)
          \/ (FailStep(j, Undo(j)) \/ Restart(j)) /\ AndLabs
    \/ Aging /\ UNCHANGED labOnly
    \/ \E w \in Workspaces : TimePasses(w)

\* Node runs on whatever it has begun, and the timer fires every minute.
LabFairness ==
    /\ \A j \in Jobs : WF_labVars(Progress(j))
    /\ WF_labVars(Sweep(Sweeper))

LabSpec == LabInit /\ [][LabNext]_labVars /\ LabFairness

-----------------------------------------------------------------------------
\* Creating or resetting a workspace that nothing overlapped, and that
\* succeeded, leaves it with every part of the sample; a new one has its
\* authority as issuer, trusted by Envoy.  If it failed, by one failure, no
\* half made workspace is left active, unless its time has passed too; the
\* compensation's own failure counts where the bundle could not be built.
SampleIsRunnable ==
    [][\A j \in Jobs :
          LET r == job[j]
              w == made[j].start
          IN r.clean /\ w # Nobody /\ IsFree(j)' /\ (job'[j].op = "failed" \/ failures' = failures) =>
             /\ r.op \in {"create", "reset"} =>
                   /\ workspace'[w] = "active"
                   /\ live'[w] = Parts
             /\ r.op = "create" => CaOf[w] \in issuer' \cap loaded'.ca
             /\ /\ r.op = "failed" /\ w \notin due
                /\ failures' = 0 \/ (failures' = 1 /\ Buildable)
                => workspace'[w] # "active"]_labVars

\* A workspace whose time has passed is ended, asked for or not.
DueWorkspacesExpire ==
    \A w \in Workspaces : w \in due /\ workspace[w] = "active" ~> workspace[w] # "active"
=============================================================================
