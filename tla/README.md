# Formal models of the API gateway platform

TLA+ specifications of the parts of this repository whose correctness depends on
order: who commits, reads, reloads, publishes, retries or fails first. Every
definition is translated from the TypeScript sources (`PROJECT.json`, key `map`,
names the lines). TLC checks the specifications on small instances; TLAPS proves
the main safety properties for every value of the constants.

    tlc -config RuntimeSync.cfg RuntimeSync.tla
    tlc -config MCRouting.cfg MCRoutingConfig.tla
    tlc -config MCApplications.cfg MCApplications.tla        # and so on, section 3
    tlapm ControlPlaneProofs.tla                             # and the other *Proofs

## 1. The system

| Component | State it keeps | Operations | What is hard |
| --- | --- | --- | --- |
| `database`: proxies, revisions, deployments | rows `ApiProxy`, `ApiProxyRevision`, `ProxyDeployment` | import, deploy, roll back, retire, enable, disable | transactions of different isolation levels interleave; a check reads what another transaction writes |
| `database`: outbox | `GatewayConfigChange` rows, numbered by a sequence | record, list pending, mark published | numbers are drawn before the commit, so commits may be out of order |
| `management-api`: publisher | the running dispatch | notify, flush, dispatch | at-least-once, several processes, crashes, batch limit |
| `gateway-core`: reloader, loader, resolver | applied and requested version, the registry | request a reload, drain, reconcile, start, resolve a request | lost notifications, wake-ups during a reload, restarts, all-or-nothing swap |
| `management-api`: runtime status | none | `getStatus` | two reads at different times |
| applications, credentials, products | their rows, grants and keys | register, approve, revoke, replace, grant, clone, rotate | read-then-write under Read Committed |
| `gateway-core`: authentication | replay markers and counters in Redis | API key, token issue by secret or assertion, token verification, rate limit | several reads per check, skewed clocks, lost replies |
| `gateway-core`: policy pipeline, forwarding | one record per request | match, run policies, forward, answer | failure modes, a registry swapped meanwhile |
| certificate authorities, certificates, trust | rows, key files, CA and CRL bundles | create, activate, retire, revoke, rotate, issue, refresh lists, publish | sequences of transactions and file writes without a lock |
| lab workspaces | `LabWorkspace` and all it owns | create, reset, revoke, expire | compensation of long sequences, a sweep next to requests |
| lab upstreams, `lab-egress` | `LabUpstream` rows | update; resolve, check, connect, follow redirects | what was checked is not what is used |
| developer tokens | audit log | select, sign, exchange, record | issued before it is recorded |
| Management API authentication | memberships, workspace per call | authenticate, resolve the lab, check, act | read once, used later |
| `gateway-cli` local agent | pairings, challenges, sessions; two files | pair, prove, call; trust and identity commands | two processes rewrite the same files |
| admin panel | forms, tabs, answers on their way | create a proxy, playgrounds, connect to the agent, lab certificates | answers arrive after the selection has changed |
| OpenAPI bundle compilation | none | `compileProxyBundle` | four sets of checks that should agree |
| scripts, infrastructure | none | | not modelled |

How they interact. The Management API writes rows in transactions; those that change
routing also insert a row of the outbox. The publisher announces the rows over Redis, and
each gateway loads the whole configuration anew and reports what it has applied, which the
status endpoint compares with the outbox. Requests go through Envoy, which trusts the
bundles the Management API publishes, to a gateway, which reads credentials from PostgreSQL
and markers and counters from Redis. Workspaces of the lab own proxies, applications,
authorities and upstreams; their requests leave through `lab-egress`. The panel talks to the
Management API and to an agent on the developer's machine.

What makes each part correct:

* outbox and publisher: every committed row is announced at least once and marked
  eventually; none is marked unannounced;
* reloader: what a gateway says it applied it shows, it never goes back, it ends up with
  every change, a failed load leaves the old registry; "synchronized" is never a lie;
* deployments: no two routes of a scope on one path, no stage skipped, nothing active in an
  ended workspace, every change of what gateways load is recorded;
* applications: organizations stay separate, revocation settles and is inert;
* authentication: tokens and admissions rest on what the rows said during the call, and
  revocation bites within the lifetime of a token; an assertion is exchanged once; a window
  admits no more than its limit, or twice that with skewed clocks;
* requests: no request reaches an upstream around a policy, every one is answered once;
* trust: an operation that succeeded undisturbed has taken effect, whatever was left behind;
  who may sign has its key; an issuance and its certificate agree;
* workspaces: a sample is complete or its workspace is gone, unless the process died while
  making it or its compensation failed as well; due workspaces end;
* agent: no operation runs for a browser that was not approved, or twice; files keep what
  was written; egress: no connection goes to a private address;
* panel: what is created was reviewed, what is sent was on the page.

## 2. Modules

| Part | Modules | Models |
| --- | --- | --- |
| Hot reload | `Outbox`, `Publisher`, `Reloader`, `RuntimeStatus` | `gateway-config-changes.ts`, `publisher.ts`, `reloader.ts` and the start in `server.ts`, `services/runtime-sync.ts` |
| | `RuntimeSync` | the composition, with the faults charged to a budget |
| | `ConfigViews` | the abstract specification: views and claims of gateways that are honest and only move forward |
| Routing | `ProxyDeployments` | revisions, activation, deployments, and the routing part of the workspaces |
| | `GatewayRegistry` | from rows to configurations, and the conflict check of `loadProxies` |
| | `RoutingConfig` | the database together with gateways that load from it |
| Access | `Applications` | every operation on applications, credentials, keys, grants and products |
| | `GatewayAccess` | over `Applications`: credential lookup, API keys, tokens issued and verified |
| | `Assertions`, `RateLimit` | replay markers, the shared fixed-window counter |
| | `RequestHandling`, `PolicyTypes` | validation of configurations, resolution, pipeline, forwarding and answer |
| Control plane | `PkiTrust` | authorities, certificates, lists, the bundles Envoy trusts |
| | `LabWorkspaces` | over `PkiTrust`: workspaces, samples, compensation, expiry |
| Tokens and tenants | `DeveloperTokens`, `ManagementAccess` | `developer-tokens.ts`; `middleware.ts`, `authorization.ts` and the checks of the services |
| Lab network | `LabEgress` | `lab-upstreams.ts`, `lab-egress` |
| Agent | `LocalAgent`, `LocalIdentities` | pairing, challenges, sessions, `trusted-clients.json`; `identities.json` with its key and certificate files |
| | `AgentConnection` | a tab that dials, proves, renews and calls |
| Panel | `ProxyBundle`, `ProxyCreation` | `compileProxyBundle` against the loader; the four-step form |
| | `Playground`, `LabCertificates` | both playgrounds; certificates of the lab issued, installed and revoked by two tabs |
| Instances | `MCRoutingConfig`, `MCApplications`, `MCGatewayAccess`, `MCControlPlane`, `MCProxyCreation`, `MCComponents` | constants for TLC; where an instance has several corners, `focus` or `Corners` chooses what moves |
| Proofs | `RuntimeSyncProofs`, `RoutingConfigProofs`, `ApplicationsProofs`, `GatewayAccessProofs`, `GatewayPolicyProofs`, `AgentProofs`, `ControlPlaneProofs`, `ComponentsProofs` | section 5 |

### How state and actions correspond to the code

An action is what the code does between two awaits, or one transaction where the isolation
level makes it one.

Hot reload. `Reloader.phase` is where the single `drainReloads` (or the start) of an
instance stands: `reporting`, `loading` and `reported` are its three awaits, `exited` the
moment between the end of its loop and the `finally` that clears `activeReload`. A
notification can interrupt every phase, which for `exited` allows more than the event
loop does (only a promise continuation can get in there). Each reconciliation under way
is an element of `polls`. A registry is the set of outbox versions whose effect it shows;
since a snapshot is read by several statements, it holds what was committed when it began
(`base`) and any part of what committed since. `overtaken` and `announced` are history
variables for the properties. `AbandonDispatch` stands for an error of `markPublished` and
for the death of the process alike: both leave the rest of the batch pending.

Routing. `running[p][e]` is the revision number of the active deployment of proxy `p` in
environment `e`: the unique index of migration 0001 and the check by organization make it
a function. `deployed` remembers the standard rows of either status, which promotion looks
at. The operations that run under Serializable isolation are single actions, and so is
`importProxyRevision`, which holds an advisory lock and changes no route; `updateApiProxy`
runs under Read Committed and is two actions, its read and its write. `past` says whose
`expiresAt` lies behind. An action that the code rolls back is no step. `recorded` tells
whether the last step inserted a `GatewayConfigChange`; `RoutingConfig` turns that into
"every gateway has something to load", which is what `RuntimeSync` shows hot reload to
achieve for changes that are not overtaken.

Applications and gateways. A request under Read Committed is two steps: it reads and
decides, which leaves in `session` the writes it intends, and `Commit` writes them blindly;
whatever another session committed between is overwritten, merged or left, as the SQL says.
`clean` tells whether anyone else committed meanwhile. In `GatewayAccess` a credential
lookup is the separate SELECTs of `findCredential`: the credential, its application, the
workspace, the grants, the products' rows, their proxies and their environments, each a step.
Only the comparison with the workspace's `expiresAt`, which the code makes at the end, is
made when the row is read: the model refuses no more than the code. A token carries the scopes available to its
credential, of which the code takes those requested. The histories `seen`, `lastGood`,
`lastApproved` and `lastOpen` say when what was read was so.

Redis. `Assertions` has each gateway's clock, up to `MaxSkew` apart from the others, `SET NX` with the
marker's own lifetime, calls that take time and replies that get lost. In `RateLimit` a
bucket is chosen by a gateway's clock and lives by Redis's; commands are delayed and repeated.

Requests. `RequestHandling` has one step per await; the registry may be replaced between
any two. A path is a sequence of segments, a configuration what the validator saw.

Control plane. A job is what an operation has still to do (`todo`): a sequence of
transactions, file writes and signatures. A publication is a reading of the authorities, two writes in
either order, and the trigger. A failed step puts its compensation in the job; a restart of
the process empties them all and publishes first. `clean` says that no other job was under
way beside it, `lapsed` and `overdue` that certificates and lists have aged. The
workspaces' transactions are Serializable, hence one step; each part of a sample looks its
workspace up anew, as the services do.

Agent. Requests of `LocalAgent` run between awaits, which are the reads and writes of
`trusted-clients.json`; the command line is a process of its own. `LocalIdentities` goes
file access by file access, and the process may die between any two. `AgentConnection` has
the agent's instances, the tab's dials and sessions, and calls that are sent again once.

The rest. `DeveloperTokens` answers the queries of a selection in any order, and a product's row
before its proxies and environments; both may be rewritten, and deployments switched,
between any two. `LabEgress`
splits the update of an upstream into read and write and each hop into resolution, check and connection.
`ManagementAccess` reads memberships at authentication and the workspace at resolution, and changes
both afterwards. `ProxyCreation` and `Playground` are forms to which answers arrive later. While
one is open the proxies of the catalogue are disabled and enabled, and deployments added and ended. An
operation sent through the agent is sent as it stands on the page: `runLocalMtlsRequest` reads
nothing again and sends a typed address that is marked wrong as well.
`ProxyBundle` writes the checks of compiler, form and loader as predicates over small documents.

## 3. Runs

| Run | Module, configuration | Question |
| --- | --- | --- |
| `hot_reload` | `RuntimeSync`, `RuntimeSync.cfg` | can faults and interleavings make a gateway, its key or the endpoint claim what is not so? Do changes arrive and rows get marked? Is it a `ConfigViews`? |
| `routing` | `MCRoutingConfig`, `MCRouting.cfg` | conflicts, stale gateways, skipped stages, what ended workspaces leave behind |
| `applications` | `MCApplications` | what can overlapping requests do to each other, and does one alone do what it says? |
| `gateway_access` | `MCGatewayAccess` | what may a gateway admit while rows change between its reads? |
| `control_plane` | `MCControlPlane` | do operations on authorities, certificates and workspaces take effect, with failures and restarts? Do due workspaces end? |
| `components` | `MCComponents` | the twelve machines that share no state with the others, each from its own initial states |
| `overtaken_change`, `sticky_error` | `RuntimeSync`, `RuntimeSyncOvertaken.cfg`, `RuntimeSyncStickyError.cfg` | violations 1 and 2 of section 4 |
| `lab_oauth_path` | `MCRoutingConfig`, `MCRoutingLabOAuth.cfg` | violation 3 |
| `boot_before_sweep` | `MCControlPlane`, `MCControlPlaneStopped.cfg` | violation 4 |
| `revocation_lost` | `LocalAgent`, `LocalAgentRevocation.cfg` | violation 5 |
| `unreviewed_creation` | `MCProxyCreation` | violation 6 |

The first six pass. They reach all of their actions, and each of their properties has a
mutant in `PROJECT.json`: a plausible bug in one definition (under a comment that begins
with "Mutant") that makes TLC report that property. Deadlock is checked where something always
goes on; `applications`, `gateway_access`, `control_plane`, `components` and the violations
that name it stop when their bounds are used up.

### Bounds

* `hot_reload`: 1 gateway, 1 publisher, 2 versions, batches of 1, one reconciliation under
  way, 1 fault. Two changes are what an order, an overtaking or a second batch takes;
  gateways share nothing but the outbox, and the proofs lift every bound.
* `routing`: OAuth, two standard and one lab proxy, 2 base paths, the stages of one region
  and a qual environment of another, 2 workspaces, 2 revisions, 1 update under way, 1
  gateway. `Corners` restricts each behaviour to the corner of this product where one kind of
  hazard happens; `Interchangeable` exchanges proxies and paths that are alike.
* `applications`: 2 organizations, 2 sessions, 1 application, 2 credentials, 1 product,
  1 scope, 1 tick, 1 secret; a behaviour is either of overlapping sessions or of one alone.
* `gateway_access`: 1 session next to 1 call, 1 credential and product, 1 scope, 2 environments
  of which the call asks for one. `focus` lets either the credential, its application, grants, key and
  workspace change, or every field of the product (`AdminOps`, `AdminFields`, `ProductUpdates`).
* `control_plane`: 5 authorities (two of the platform, one external, two of labs), 2
  workspaces, 1 certificate, 3 jobs of which one is the sweep, 1 failure or restart; `focus`
  selects authorities, clients, activations, lists, one sample or overlapping samples.
* `components`: what each hazard takes and no more: 2 gateways whose clocks differ by 1, 2
  attempts at a limit of 1, 2 browsers and 2 handlers with 1 pairing, 2 identity operations,
  2 target hosts, 1 update and 1 fetch with 1 redirect, 3 edits of a form, 1 catalogue
  change, 2 tabs and 2 keys, 1 person in 2 standard and 2 lab organizations. `focus` chooses
  the machine that moves, whose initial states alone vary.

Message sets instead of queues lose no behaviour: a version that arrives twice is only
reported, and answers are matched to their requests.

### Fairness

`hot_reload` and its two violations assume weak fairness of the steps an event loop takes by
itself: the publisher's interval, the reconciliation interval, and the continuation of
awaited calls, each in its successful form. Successful forms stay enabled while failures are
chosen; failures are finite. Users, restarts, commits of open transactions and the expiry of keys
are not assumed to happen. `control_plane` and `boot_before_sweep` assume that a job that was
begun goes on (Node continues what it awaits) and that the sweep's timer fires (`setInterval`,
one minute), `control_plane` only in the instances where time passes, which are those liveness is about.

## 4. Disagreements with the documentation

1. `overtaken_change`. Versions come from a sequence, so a transaction may commit after one
   with a higher version. A gateway that has applied the higher one compares numbers and
   never loads the lower one until the next change. The documents promise convergence.
2. `sticky_error`. A failed reconciliation query leaves the state at `error`; with nothing
   new to load, no later reconciliation resets it, and `synchronized` stays false. The
   runbook says to wait one interval.
3. `lab_oauth_path`. The loader copies the OAuth proxy into every workspace's registry; a
   lab proxy on the same base path makes `loadProxies` throw, for all routes of the gateway.
   The runbook says that only the affected workspace is unavailable.
4. `boot_before_sweep`. `index.ts` publishes trust before it starts the sweep, and a
   publication refuses an expired authority. A process that was down until the authority of a due
   workspace expired never starts, so nothing ends the workspace.
5. `revocation_lost`. The agent and `gatewayctl agent clients revoke` are two processes that
   rewrite `trusted-clients.json` from what they read: a revocation can be written over.
6. `unreviewed_creation`. A document replaced while its predecessor is being validated is
   committed under the predecessor's validation.

Properties state what does hold, and name their exceptions. The exceptions that are not
runs of their own, because no text of the repository denies them:

* `updateApiProxy` compares with a flag it read earlier: two overlapping toggles can leave a
  change unrecorded (`SilentOnlyByTimeOrStaleRead`). Two qual regions share one registry per workspace.
* A product update may give a grant back scopes that were taken meanwhile (`products.ts:263`,
  `RevokedIsInert`). A credential and its application need not have been good at one and the
  same moment to earn a token (`RevocationBitesWithinTtl` states each). An assertion may be
  used again in the seconds of tolerance after its expiry; a limit admits twice as many
  requests when clocks differ; an issued developer token whose answer is lost is not audited.
* Overlapping publications may leave bundles of different readings; overlapping activations
  leave two default issuers; `refreshCrl` may store a list older than a revocation. Hence
  `OperationsTakeEffect` speaks of operations that nothing overlapped. Compensation ends
  whichever workspace the user then has, and two overlapping resets may spoil each other.
* An empty `targetPath` compiles and makes the loader reject the gateway; a business
  configuration without default policies compiles unauthenticated (`CreationIsSound`). Hence
  `NoRouteConflict` is not all that a load takes: `GatewayRegistry.Loadable` supposes
  revisions that load by themselves. A base path of slashes only compiles to the empty one.
* A playground call made while another revision is displayed may use another method than
  the one shown (`PlaygroundsAreSafe` exempts that window); a temporary credential that arrives late
  is kept for the wrong selection. What is sent through the agent may go to a proxy disabled, or a
  deployment ended, since the page read it.
* A publication refused because its bundle cannot be built, followed by a compensation that fails for
  the same reason, leaves a half-made workspace active (`SampleIsRunnable` exempts it, and the
  death of the process).
* `identities.json` is rewritten without a queue (`FilesAreKept` exempts crossed writes). A
  name-only update of an upstream that overlaps a change of kind reverts it.

## 5. Proofs

The proofs assume only the named `ASSUME`s of the modules: types of constants, and what the
code fixes (the OAuth proxy is a standard one, the home of a workspace's authority is that
workspace). No theorem bounds an instance: `MaxVersion` and its like are arbitrary numbers. `PROJECT.json`, key `theorems`, lists the results; the arguments:

**Hot reload** (`RuntimeSyncProofs`). `AppliedMeansShown` is not inductive: a reload under way must
cover, already now, what its target will claim (`LoadCovers`), targets must exceed
what is applied (`ReloadsOnlyNewer`), and a key may not run ahead of the instance that owns
it (`StatusBehind`). `MarksAnnounced` says that a dispatch about to mark has announced. The
conjunction `IndInv` gives all five invariants, `ReportedNeverRegresses` as a step property,
and with the step-by-step refinement `Spec => Views!Spec`.

**Routing** (`RoutingConfigProofs`). `NoRouteConflict` and `EndedWorkspacesAreIdle` are inductive with
the types. Promotion needs `DeployedWasPromoted` (each standard row satisfied its check; rows are never
removed) and `RunningHasRow`; two uses of the first reach from prod to qual.
`SettledGatewayIsCurrent` needs `LoadingIsCurrent` (a load with nothing newer to come has
selected what it would select now) and `RowsExist`; `ControlPlaneInv` shows that a recorded
change invalidates every gateway and that an unrecorded one that alters the selection enters
`silent`. `RevisionsAreImmutable` lets configurations be compared across steps.

**Applications** (`ApplicationsProofs`). The invariant speaks of the writes each session still intends:
they are about rows of its own organization, and about scopes that were declared when read. What
a request may write is characterized once per operation; `Commit` then keeps the separation
of the rows whatever the others committed. `RevocationSettles`, `RevokedIsInert` and
`ReplacementIsExact` are step properties under that invariant.

**Gateway access** (`GatewayAccessProofs`). What a call has read so far was so at some moment since it
arrived, kept by history, for each SELECT on its own: a product's row, its proxies and its environments need
never have stood together as the call saw them. What a token carries was read by the call
that issued it, and its age is bounded by the clock that verifies it.

**Redis and requests** (`GatewayPolicyProofs`). Assertions: a marker outlasts every check that could
find it missing (`ChecksOutlast`, `MarkersOutlast`). Rate limit: with skew and delay together
within a window a key lives at most twice for one window, and in each life its count bounds
the admissions; with neither, once. Requests: what has run is a beginning of the enabled
policies in their order (`RequestInv`), which survives the replacement of the registry
since a request keeps the endpoint it matched.

**Control plane** (`ControlPlaneProofs`, for `LabSpec`: administrators act on the platform's
authorities, workspaces on their own). The invariant `ControlInv` reads the future of every
job: what it has still to do is `Sound` (the key before the row, the row before its status, a
signature after its request, a list stored after its reading), nobody else creates the same
authority or certifies the same certificate, and a workspace not created yet has an authority
without a row. `Sound` is closed under taking steps off the front and under every
compensation, so failures and restarts at any point keep it; `IssuersHaveKeys` follows.
`OperationsTakeEffect` needs `EffectInv`: an operation that nothing has overlapped is
at one of the stages of its sequence, with what earlier stages have established: while a
bundle is being written it is the one the rows ask for, before an activation commits `seen`
holds all default issuers beside it, a revoked certificate is in the list being stored. A
step either leads to the next stage or ends the operation with the promise fulfilled;
another's step cannot come, as that would be an overlap; a failure renames the operation; a
restart begins at the first stage of a publication from any state.

**Agent** (`AgentProofs`). `CallsRunOnce` from `RanBy`: an operation has run only in an
instance that knew the session it was sent with. `AgentInv` (tickets, proofs, file entries and
what requests keep across their awaits come from approvals) gives that sessions answer one
proof, that operations run only for browsers trusted since their call arrived, and that the file loses
an entry only if the command line writes during a write of the agent. `IdentityInv`: unless
two changes cross, listed identities have their key, a certificate of that key and a name of
their own, at every file access.

**Panel** (`ComponentsProofs`). `PlaygroundInv`: deployments are added and end, never change; what
had ended at the click is never read as live, a proxy read as enabled has been enabled since, and
what is about to be sent was found `Executable` then. `LabCertificatesInv`: a certificate about to be installed is not
yet shown by any tab, and one revoked as replaced is carried by no identity. `CreationInv`: ids
are unique, so overrides come back to their operations; a list of policies the server
accepts comes back from the form compiling to the same (`PoliciesComeBack`); hence importing
and serializing keeps what compiles (`ImportBehaves`), except for empty targets and absent
defaults. A request keeps the sources it was sent with, so what is created was shown.

**The components together** (`ComponentsProofs`). Each machine takes only its own steps and leaves
the others' variables alone, so what is proved of a machine holds in the composition:
`AccessIsEarned` (agent and Management API: a call is answered for the person, role and workspace that
were read for it), `FilesAreKept`, `PlaygroundsAreSafe` and the types of all twelve
(`ComponentsTypeOK`). Of single machines it has `EgressIsContained` (no hop connects to a private address),
`TokensAreAccounted` (a token held is audited, and was signed for a deployment and a product
that were what they should be when they were read) and `CreationIsSound`.

Only model-checked: the liveness properties (`ChangesReachGateways`, `OutboxDrains`,
`DueWorkspacesExpire`; the prover has no rules for fairness and ENABLED), the six violations
and `SampleIsRunnable`.

## 6. Not modelled

* Scripts and infrastructure: one-shot programs, drivers, configuration of other programs.
* Cryptography (OpenSSL, JWT, hashes) and what libraries do: JSON schema dereferencing, TLS,
  the browser. They appear as outcomes.
* Of the agent: `agent.json`, process start and stop, the key chain, argument parsing. `agent start`
  removes `agent.json` without looking whose it is, and `agent stop` kills the pid it read
  from it; signals and pids belong to the operating system.
* Of the panel: pages that render what one request returned. Of the schemas: field formats.
* Everywhere: headers, CORS, response shapes, time stamps, log messages; audit rows except
  those of developer tokens; `publishAttempts` and `lastError`; host names, which are distinct.
* A transaction that commits although its client sees it fail is not a step of `PkiTrust`.
* The limit of three sample creations, whose refusal is a failed first step here; a sweep of workspaces
  that starts while the previous one still runs.

## 7. Plan

Next: `SampleIsRunnable` as a theorem, with the stages of a sample as in `EffectInv`; then a
refinement from `RoutingConfig` to a view of the database, as `ConfigViews` is for hot reload.
