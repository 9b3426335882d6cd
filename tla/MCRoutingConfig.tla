--------------------------- MODULE MCRoutingConfig ---------------------------
(* Instances of RoutingConfig for TLC. *)
EXTENDS RoutingConfig, TLC

CONSTANTS oauth, p1, p2, l1, w1, w2, es, pp, pr, us, g1, a, b, x1, x2

\* l1 is a proxy of the workspace w1; w2 has none.
LabScope == [p \in Proxies |-> IF p = l1 THEN w1 ELSE Standard]

StageMap == [e \in Environments |->
    CASE e \in {es, us} -> "qual" [] e = pp -> "pprod" [] e = pr -> "prod"]
RegionMap == [e \in Environments |-> IF e = us THEN "us" ELSE "es"]

Everywhere == [g \in Gateways |-> Environments]
NonProduction == [g \in Gateways |-> {es, pp}]

\* Nothing tells the paths, or the two standard proxies, from each other.
Interchangeable == Permutations({a, b}) \cup Permutations({p1, p2})

-----------------------------------------------------------------------------
(* The passing run explores the union of three corners of one instance.    *)

\* The proxies an administrator or a lab user has worked on, and where they run.
Used == {p \in Proxies :
    \/ revisions[p] # <<>> /\ p # OAuthProxy
    \/ ~enabled[p]
    \/ \E x \in Editors : edit[x] # NoEdit /\ edit[x].proxy = p}
Where ==
    {e \in Environments : \E p \in Proxies \ {OAuthProxy} : running[p][e] # 0}
        \cup {d[3] : d \in {c \in deployed : c[1] # OAuthProxy}}
Revised(n) == \A p \in Proxies : Len(revisions[p]) <= n

\* Two standard proxies that may want one path, in two stages of a region.
StandardCorner == Used \subseteq {p1, p2} /\ Where \subseteq {es, pp} /\ Revised(1)

\* One proxy with two revisions on its way to production; no gateway loads.
PromotionCorner ==
    /\ \E p \in {p1, p2} : Used \subseteq {p}
    /\ loading = {} /\ stale = Gateways

\* A workspace's proxy, deployed and retired while workspaces come and go.
LabCorner == Used \subseteq {l1} /\ Where \subseteq {es} /\ Revised(1)

Corners ==
    \/ /\ StandardCorner \/ PromotionCorner
       /\ \A w \in Workspaces : workspace[w] = "absent"
    \/ LabCorner
=============================================================================
