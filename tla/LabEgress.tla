------------------------------ MODULE LabEgress ------------------------------
(***************************************************************************)
(* Lab upstreams (packages/database/src/lab-upstreams.ts and the routes    *)
(* over it) and lab-egress, the process through which the traffic of lab   *)
(* proxies leaves.  One upstream of one workspace, whose owner updates it  *)
(* while requests are under way and while names resolve to other           *)
(* addresses.                                                              *)
(*                                                                         *)
(* updateLabUpstream is a transaction under Read Committed: it reads the   *)
(* kind, and later writes the row.  A request reads the row once; every    *)
(* hop of it looks its host up and connects to the address it checked.     *)
(***************************************************************************)
EXTENDS Integers

CONSTANTS TargetHosts,            \* host names of targets and of redirects
          LocalTargets,       \* those a stored target may not name
          Updates, Fetches, \* updates and requests in progress at once
          MAX_REDIRECTS, RATE_LIMIT, MaxWindows

ASSUME EgressAssumption ==
    /\ LocalTargets \subseteq TargetHosts
    /\ MAX_REDIRECTS \in Nat /\ RATE_LIMIT \in Nat /\ MaxWindows \in Nat

VARIABLES row,              \* the LabUpstream
          open,             \* its workspace is active and not expired
          update,           \* updates in progress
          names,            \* what each host resolves to now
          quota, window,    \* the workspace's counter; minutes begun
          fetch,            \* requests in progress
          reached           \* history: addresses connected to, and hops made

egressVars == <<row, open, update, names, quota, window, fetch, reached>>

Kinds == {"mock", "publicHttps"}
None == "none"
\* A name that does not resolve ends a request as a private address does.
Answers == {{"public"}, {"public", "private"}}
Idle == [step |-> "none", to |-> None, https |-> TRUE, method |-> "GET", body |-> FALSE,
            hops |-> 0, address |-> "none"]
NoUpdate == [step |-> "none", kind |-> None]

-----------------------------------------------------------------------------
(* The upstream *)

\* normalizeLabPublicHttpsUrl accepts https on port 443 to a name or address
\* that is not local; normalizeLabMockRoutes a list of distinct routes.
Acceptable(host) == host \notin LocalTargets

Create(kind, host) ==
    /\ row.kind = None /\ open
    /\ kind = "publicHttps" => Acceptable(host)
    /\ row' = [kind |-> kind, target |-> IF kind = "publicHttps" THEN host ELSE None,
               routes |-> kind = "mock", active |-> TRUE]
    /\ UNCHANGED <<open, update, names, quota, window, fetch, reached>>

\* The kind asked for, or the one the row has.
ReadKind(u, kind) ==
    /\ update[u].step = "none" /\ row.kind # None /\ open
    /\ update' = [update EXCEPT ![u] = [step |-> "write",
                                        kind |-> IF kind = None THEN row.kind ELSE kind]]
    /\ UNCHANGED <<row, open, names, quota, window, fetch, reached>>

\* A target is refused for a mock and routes for a public upstream; what is
\* not given stays, and what belongs to the other kind goes.
Write(u, host, routes, active) ==
    /\ update[u].step = "write"
    /\ host # None => update[u].kind = "publicHttps" /\ Acceptable(host)
    /\ routes => update[u].kind = "mock"
    /\ row' = [row EXCEPT !.kind = update[u].kind,
                          !.target = IF update[u].kind = "mock" THEN None
                                     ELSE IF host = None THEN @ ELSE host,
                          !.routes = update[u].kind = "mock" /\ (@ \/ routes),
                          !.active = active]
    /\ update' = [update EXCEPT ![u] = NoUpdate]
    /\ UNCHANGED <<open, names, quota, window, fetch, reached>>

\* A refused update is rolled back.
Refuse(u) ==
    /\ update[u].step = "write"
    /\ update' = [update EXCEPT ![u] = NoUpdate]
    /\ UNCHANGED <<row, open, names, quota, window, fetch, reached>>

-----------------------------------------------------------------------------
(* lab-egress *)

\* consumeQuota: the first request of a minute opens a window of its own.
Admitted == quota < RATE_LIMIT
Counted == quota' = IF Admitted THEN quota + 1 ELSE quota

\* The row is read, the quota taken, and the request is a mock's, whose
\* routes answer it, or goes out.
Fetch(f, method, body) ==
    /\ fetch[f].step = "none"
    /\ row.active /\ open
    /\ Counted
    /\ IF Admitted /\ row.kind = "publicHttps" /\ row.target # None
         THEN fetch' = [fetch EXCEPT ![f] =
                [Idle EXCEPT !.step = "lookup", !.to = row.target, !.method = method,
                                !.body = body /\ method # "GET"]]
         ELSE UNCHANGED fetch
    /\ UNCHANGED <<row, open, update, names, window, reached>>

Over(f) == fetch' = [fetch EXCEPT ![f] = Idle]

\* publicDispatcher: one address that is not public blocks the host, and the
\* first is the one connected to.
LookUp(f) ==
    /\ fetch[f].step = "lookup"
    /\ LET found == names[fetch[f].to] IN
         IF fetch[f].https /\ found = {"public"}
           THEN \E address \in found :
                    fetch' = [fetch EXCEPT ![f].step = "connect", ![f].address = address]
           ELSE Over(f)
    /\ UNCHANGED <<row, open, update, names, quota, window, reached>>

\* Mutant: the connection looks the host up again.
ReachNamed(f) ==
    /\ fetch[f].step = "connect"
    /\ \E address \in names[fetch[f].to] : reached' = reached \union {address}
    /\ fetch' = [fetch EXCEPT ![f].step = "answer"]
    /\ UNCHANGED <<row, open, update, names, quota, window>>

\* The connection goes to the address that was checked, whatever the name
\* resolves to by now.
ReachChecked(f) ==
    /\ fetch[f].step = "connect"
    /\ reached' = reached \union {fetch[f].address}
    /\ fetch' = [fetch EXCEPT ![f].step = "answer"]
    /\ UNCHANGED <<row, open, update, names, quota, window>>

\* 303, and 301 or 302 to a POST, make the request a GET without a body;
\* 301 acts as 302 does, 308 as 307.
BecomesGet(f, status) ==
    status = 303 \/ (status = 302 /\ fetch[f].method = "POST")

\* The answer names another place, whose protocol and port the next turn of
\* the loop looks at; after MAX_REDIRECTS of them the request is blocked.
Redirect(f, to, https, status) ==
    /\ fetch[f].step = "answer"
    /\ IF fetch[f].hops = MAX_REDIRECTS
         THEN Over(f)
         ELSE fetch' = [fetch EXCEPT ![f] =
                [Idle EXCEPT !.step = "lookup", !.to = to, !.https = https,
                             !.hops = fetch[f].hops + 1,
                             !.method = IF BecomesGet(f, status) THEN "GET" ELSE fetch[f].method,
                             !.body = fetch[f].body /\ ~BecomesGet(f, status)]]
    /\ UNCHANGED <<row, open, update, names, quota, window, reached>>

\* An answer of at most one MiB is passed on; a longer one, a refusal or a
\* timeout ends the request as well.
Conclude(f) ==
    /\ fetch[f].step = "answer"
    /\ Over(f)
    /\ UNCHANGED <<row, open, update, names, quota, window, reached>>

-----------------------------------------------------------------------------
(* What goes on around *)

Rename(host, answers) ==
    /\ names' = [names EXCEPT ![host] = answers]
    /\ UNCHANGED <<row, open, update, quota, window, fetch, reached>>

\* The workspace expires, or is replaced.
WorkspaceEnds ==
    /\ open /\ open' = FALSE
    /\ UNCHANGED <<row, update, names, quota, window, fetch, reached>>

\* A minute after its window began the count starts over.
Lapse ==
    /\ window < MaxWindows /\ window' = window + 1
    /\ quota' = 0
    /\ UNCHANGED <<row, open, update, names, fetch, reached>>

EgressInit ==
    /\ row = [kind |-> None, target |-> None, routes |-> FALSE, active |-> FALSE]
    /\ open = TRUE
    /\ update = [u \in Updates |-> NoUpdate]
    /\ names = [h \in TargetHosts |-> {"public"}]
    /\ quota = 0 /\ window = 0
    /\ fetch = [f \in Fetches |-> Idle]
    /\ reached = {}

OwnerStep ==
    \/ \E kind \in Kinds, host \in TargetHosts : Create(kind, host)
    \/ \E u \in Updates, kind \in Kinds \union {None} : ReadKind(u, kind)
    \/ \E u \in Updates, host \in TargetHosts \union {None}, routes, active \in BOOLEAN :
            Write(u, host, routes, active)
    \/ \E u \in Updates : Refuse(u)

FetchStep(f) ==
    \/ \E method \in {"GET", "POST", "PUT"}, body \in BOOLEAN : Fetch(f, method, body)
    \/ LookUp(f) \/ ReachChecked(f) \/ Conclude(f)
    \/ \E to \in TargetHosts, https \in BOOLEAN, status \in {302, 303, 307} :
            Redirect(f, to, https, status)

EgressNext ==
    \/ OwnerStep
    \/ \E f \in Fetches : FetchStep(f)
    \/ \E host \in TargetHosts, answers \in Answers : Rename(host, answers)
    \/ WorkspaceEnds \/ Lapse

EgressSpec == EgressInit /\ [][EgressNext]_egressVars

-----------------------------------------------------------------------------
(* Properties *)

\* The shape of the upstream and of the requests in progress.
EgressTypeOK ==
    /\ row \in [kind : Kinds \union {None}, target : TargetHosts \union {None},
                routes : BOOLEAN, active : BOOLEAN]
    /\ update \in [Updates -> [step : {"none", "write"}, kind : Kinds \union {None}]]
    /\ names \in [TargetHosts -> Answers] /\ open \in BOOLEAN
    /\ quota \in 0..RATE_LIMIT /\ window \in 0..MaxWindows
    /\ fetch \in [Fetches -> [step : {"none", "lookup", "connect", "answer"},
                              to : TargetHosts \union {None}, https : BOOLEAN,
                              method : {"GET", "POST", "PUT"}, body : BOOLEAN,
                              hops : 0..MAX_REDIRECTS, address : {"none", "public", "private"}]]
    /\ reached \subseteq {"public", "private"}

\* However often the name behind a target or a redirect changes while a
\* request is under way, no connection goes to an address that is not public;
\* a request makes at most MAX_REDIRECTS further hops.
HopsArePublic ==
    /\ "private" \notin reached
    /\ \A f \in Fetches : fetch[f].hops <= MAX_REDIRECTS

\* Once a redirect has made the request a GET its body is gone for every
\* further hop, a 307 after a 303 included.
NoBodyOnGet == \A f \in Fetches : fetch[f].method = "GET" => ~fetch[f].body

\* A mock keeps no target and a public upstream no routes, however the
\* updates overlap: the write clears what belongs to the kind it writes.
KindsAreExclusive == row.kind = "mock" => row.target = None
KindsKeepTheirOwn == row.kind = "publicHttps" => ~row.routes

\* The above together: what lab-egress promises of the traffic and the rows.
EgressIsContained == HopsArePublic /\ NoBodyOnGet /\ KindsAreExclusive /\ KindsKeepTheirOwn
=============================================================================
