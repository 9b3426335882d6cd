---------------------------- MODULE MCControlPlane ----------------------------
(* Instances of LabWorkspaces, with PkiTrust, for TLC.  A behaviour has one    *)
(* focus, which bounds the operations in it and what may overlap.              *)
EXTENDS LabWorkspaces

CONSTANTS s1, s2, x1, l1, l2, w1, w2, std,
          First,    \* the job taken first: jobs are alike but for the sweeper
          Focuses

VARIABLE focus

mcVars == <<labVars, focus>>

Homes == [a \in Authorities |-> CASE a = l1 -> w1 [] a = l2 -> w2 [] OTHER -> std]
LabAuthorities == [w \in Workspaces |-> IF w = w1 THEN l1 ELSE l2]

\* One operation at a time: the life of two managed authorities, and that of
\* the certificates of a managed and an external one.
Alone == {"authorities", "clients"}

\* The sweeper runs and workspaces grow old.
Timed == {"sample", "stopped"}

\* "activations", "lists": two operations on authorities overlap; "sample": one
\* user request and the sweeper; "samples": two user requests; "stopped": as
\* "sample", with an authority outliving its workspace.
FailuresIn ==
    [authorities |-> 1, clients |-> 1, activations |-> 0, lists |-> 0,
     sample |-> 1, samples |-> 0, stopped |-> 1]

MayStart(j) ==
    /\ j # Sweeper
    /\ j # First => focus \notin Alone \cup Timed /\ ~IsFree(First)

Requests(j) ==
    \/ /\ focus = "authorities"
       /\ \E a \in {s1, s2} :
             \/ createManaged(j, a)
             \/ \E to \in {"active", "retiring", "revoked"} : setStatus(j, a, to)
             \/ \E b \in {s1, s2} : rotate(j, a, b)
             \/ refreshCrl(j, a)
    \/ /\ focus = "clients"
       /\ \E a \in {s1, x1} :
             \/ createManaged(j, a) \/ importExternal(j, a)
             \/ setStatus(j, a, "active")
             \/ refreshCrl(j, a) \/ uploadCrl(j, a)
             \/ \E c \in Certificates :
                   issue(j, c, a) \/ registerExternal(j, c, a) \/ revoke(j, c)
    \/ /\ focus = "activations"
       /\ \E a \in {s1, s2} : createManaged(j, a) \/ setStatus(j, a, "active")
    \/ /\ focus = "lists"
       /\ \/ createManaged(j, s1) \/ setStatus(j, s1, "active") \/ refreshCrl(j, s1)
          \/ \E c \in Certificates : issue(j, c, s1) \/ revoke(j, c)
    \/ /\ focus \in Timed
       /\ create(j) \/ reset(j) \/ revokeWorkspace(j) \/ labRequest(j)
    \/ /\ focus = "samples"
       /\ IF j = First THEN create(j) \/ reset(j) ELSE revokeWorkspace(j)

\* A lab authority is good for two days, its workspace for one; one authority
\* or list is bound to expire otherwise.
Age ==
    \/ focus \in Alone /\ lapsed \cup overdue = {} /\ Aging
    \/ /\ focus = "stopped"
       /\ \A j \in Jobs : IsFree(j)
       /\ \E w \in due : AuthorityLapses(CaOf[w])

MCInit == LabInit /\ focus \in Focuses

MCNext ==
    /\ \/ \E j \in Jobs :
             \/ MayStart(j) /\ Requests(j) /\ UNCHANGED labOnly
             \/ focus \in Timed /\ Sweep(j)
             \/ Progress(j)
             \/ /\ failures < FailuresIn[focus]
                /\ \/ FailStep(j, Undo(j))
                   \/ j = First /\ Restart(j)
                /\ AndLabs
       \/ Age /\ UNCHANGED labOnly
       \/ \E w \in Workspaces : focus \in Timed /\ TimePasses(w)
    /\ focus \in Timed => \A w \in Workspaces \ {w1} : workspace'[w] = "none"
    /\ UNCHANGED focus

\* LabFairness, where a workspace may be due: elsewhere nothing is assumed.
MCFairness ==
    /\ \A j \in Jobs : WF_labVars(focus \in Timed /\ Progress(j))
    /\ WF_labVars(focus \in Timed /\ Sweep(Sweeper))

MCSpec == MCInit /\ [][MCNext]_mcVars /\ MCFairness
=============================================================================
