--------------------------- MODULE GatewayRegistry ---------------------------
(***************************************************************************)
(* What gateway-core makes of the deployments: loadProxiesFromDatabase     *)
(* selects rows and turns them into proxy configurations, loadProxies      *)
(* checks the whole list and swaps the resolver's registry.                *)
(*                                                                         *)
(* The rows are selected by one SQL statement; the proxies' active flags   *)
(* are read by a later one.  Everything else the loader reads (revisions,  *)
(* environments, host names) never changes once it exists.                 *)
(***************************************************************************)
EXTENDS ProxyDeployments

CONSTANTS
    Gateways,
    Allowlist   \* [Gateways -> the environments of GATEWAY_ENVIRONMENT_ALLOWLIST]

ASSUME RegistryAssumption == Allowlist \in [Gateways -> SUBSET Environments]

Rows == Proxies \X (Nat \ {0}) \X Environments
Configs == [proxy : Proxies, path : BasePaths, environment : Environments,
            workspace : Workspaces \cup {Standard}]

\* A workspace whose deployments are served: active and not past its time.
Alive(w) == w # Standard => workspace[w] = "active" /\ w \notin past

\* The rows the loader's first statement selects for gateway g.
SelectedRows(g) ==
    {<<d[1], running[d[1]][d[2]], d[2]>> : d \in
        {d \in Proxies \X Allowlist[g] :
            running[d[1]][d[2]] # 0 /\ enabled[d[1]] /\ Alive(Scope[d[1]])}}

\* The configuration of a row under the scope w.
ConfigOf(row, w) ==
    [proxy |-> row[1], path |-> revisions[row[1]][row[2]],
     environment |-> row[3], workspace |-> w]

\* The configurations loadProxies registers: those of the rows whose proxy
\* is (still) active, and a copy of the environment's OAuth proxy for every
\* workspace that has a row there.
ConfigsOf(rows) ==
    LET own == {ConfigOf(row, Scope[row[1]]) : row \in {r \in rows : enabled[r[1]]}}
        tokens == {r \in rows : r[1] = OAuthProxy /\ enabled[OAuthProxy]}
        copies == {ConfigOf(pair[1], Scope[pair[2][1]]) : pair \in
                      {q \in tokens \X rows :
                          q[1][3] = q[2][3] /\ Scope[q[2][1]] # Standard}}
    IN own \cup copies

\* The registry a configuration goes to: the host name of a standard
\* environment or of a workspace selects it.
RegistryKey(c) ==
    IF c.workspace = Standard THEN <<"environment", c.environment>>
    ELSE <<"workspace", c.workspace>>

\* loadProxies throws when a registry would hold a base path twice.  (Also for
\* a revision that cannot be loaded whatever else is: see ProxyBundle.)
Loadable(C) ==
    \A c, d \in C : c # d /\ RegistryKey(c) = RegistryKey(d) => c.path # d.path
=============================================================================
