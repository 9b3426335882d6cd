--------------------------- MODULE MCGatewayAccess ---------------------------
(***************************************************************************)
(* Instances of GatewayAccess for TLC.  The initial state chooses between  *)
(* two: calls beside changes of their credential, its application, grants, *)
(* key and workspace, while time passes; and calls beside changes of the   *)
(* product, in every one of its fields, and of the grant.                  *)
(***************************************************************************)
EXTENDS GatewayAccess

CONSTANTS o1, a1, c1, p1, r1, e1, e2, x1, k1, s1, g1, w1, std

VARIABLE focus

Org == [i \in Apps \cup Products \cup Proxies |-> o1]
Managed == [s \in Sessions |-> {o1}]

\* The organization is that of a lab workspace.
LabHost == [o \in Organizations |-> w1]

OneNeed == [r \in Proxies |-> {x1}]
NeverOnly == {Never}

Offered == [exists |-> TRUE, active |-> TRUE, scopes |-> {x1},
            proxies |-> {r1}, environments |-> {}]

\* Grants are of the whole product.
WholeGrants(s) ==
    tx[s].op \in {"insert", "grants"} /\ tx[s].grants[p1].status = "approved" =>
        tx[s].grants[p1].scopes = {x1}

\* The part of the state space the focus explores.  Calls are for e1; what is
\* not for e1 is for e2.
InFocus ==
    /\ \A g \in Calls : call[g] # NoCall => call[g].environment = e1
    /\ \A s \in Sessions : WholeGrants(s)
    /\ CASE focus = "credential" ->
               /\ product[p1] \in {NoProduct, Offered}
               /\ \A s \in Sessions : tx[s].op # "product"
               /\ \A g \in Calls : call[g] # NoCall =>
                     /\ Exists(c1)
                     /\ call[g].host = std => call[g].kind = "secret"
                     /\ (call[g].kind = "assertion") = (keyStatus[c1][k1] # "absent")
         [] focus = "product" ->
               /\ now = 0 /\ ended = {}
               /\ ~Exists(c1) => product[p1] \in {NoProduct, Offered}
               /\ product[p1].environments \in {{}, {e2}}
               /\ \A s \in Sessions :
                     /\ tx[s].op \in {"idle", "insert", "product"}
                     /\ tx[s].op = "product" => Exists(c1)
               /\ \A g \in Calls :
                     call[g] # NoCall => call[g].host = w1 /\ call[g].kind # "assertion"
               /\ tokens # {} => \A s \in Sessions, g \in Calls : tx[s] = Idle /\ call[g] = NoCall

Init == AccessInit /\ focus \in {"credential", "product"}
Next == AccessNext /\ UNCHANGED focus /\ InFocus'
Spec == Init /\ [][Next]_<<accessVars, focus>>
=============================================================================
