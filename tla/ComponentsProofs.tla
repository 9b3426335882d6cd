-------------------------- MODULE ComponentsProofs --------------------------
(***************************************************************************)
(* Proofs about the components that stand on their own and have no proof   *)
(* module of theirs, for every value of the constants: the lab's egress    *)
(* (LabEgress), developer tokens (DeveloperTokens), the Management API's   *)
(* access control (ManagementAccess), the panel's playground (Playground), *)
(* its lab certificates (LabCertificates) and its studio (ProxyCreation);  *)
(* and, last, about all components together (MCComponents), each of which  *)
(* takes its own steps only.                                               *)
(***************************************************************************)
EXTENDS MCComponents, GatewayPolicyProofs, AgentProofs

-----------------------------------------------------------------------------
(***************************************************************************)
(* The lab's egress: a request about to connect holds an address found public.*)
(***************************************************************************)

\* A request about to connect holds an address it found public.  The name it
\* was found under may resolve to another by now: nothing is said of names.
ChecksHold == \A f \in Fetches : fetch[f].step = "connect" => fetch[f].address = "public"

EgressInv == EgressTypeOK /\ EgressIsContained /\ ChecksHold

\* The requests in progress, whatever happens around them.
FetchesOK ==
    /\ fetch \in [Fetches -> [step : {"none", "lookup", "connect", "answer"},
                              to : TargetHosts \union {None}, https : BOOLEAN,
                              method : {"GET", "POST", "PUT"}, body : BOOLEAN,
                              hops : 0..MAX_REDIRECTS, address : {"none", "public", "private"}]]
    /\ \A f \in Fetches : fetch[f].hops <= MAX_REDIRECTS
    /\ NoBodyOnGet /\ ChecksHold

\* The upstream and the updates of it.
RowOK ==
    /\ row \in [kind : Kinds \union {None}, target : TargetHosts \union {None},
                routes : BOOLEAN, active : BOOLEAN]
    /\ update \in [Updates -> [step : {"none", "write"}, kind : Kinds \union {None}]]
    /\ KindsAreExclusive /\ KindsKeepTheirOwn

AroundOK ==
    /\ names \in [TargetHosts -> Answers] /\ open \in BOOLEAN
    /\ quota \in 0..RATE_LIMIT /\ window \in 0..MaxWindows
    /\ reached \subseteq {"public"}

LEMMA InvParts == EgressInv <=> FetchesOK /\ RowOK /\ AroundOK
BY DEF EgressInv, EgressTypeOK, EgressIsContained, HopsArePublic, FetchesOK, RowOK, AroundOK

LEMMA InvPartsNext == FetchesOK' /\ RowOK' /\ AroundOK' => EgressInv'
BY DEF EgressInv, EgressTypeOK, EgressIsContained, HopsArePublic, FetchesOK, RowOK, AroundOK

-----------------------------------------------------------------------------
LEMMA EgressInitially == EgressInit => EgressInv
<1> SUFFICES ASSUME EgressInit PROVE FetchesOK /\ RowOK /\ AroundOK
  BY InvParts
<1> USE EgressAssumption DEF EgressInit
<1>1. FetchesOK
  BY DEF FetchesOK, Idle, None, NoBodyOnGet, ChecksHold
<1>2. RowOK
  BY DEF RowOK, NoUpdate, None, Kinds, KindsAreExclusive, KindsKeepTheirOwn
<1>3. AroundOK
  BY DEF AroundOK, Answers
<1> QED
  BY <1>1, <1>2, <1>3

\* The owner's steps change the row and the updates alone.
LEMMA OwnerKeeps == ASSUME EgressInv, OwnerStep PROVE EgressInv'
<1> SUFFICES RowOK'
  <2>1. UNCHANGED <<open, names, quota, window, fetch, reached>>
    BY DEF OwnerStep, Create, ReadKind, Write, Refuse
  <2>2. FetchesOK' /\ AroundOK'
    BY <2>1, InvParts DEF FetchesOK, AroundOK, NoBodyOnGet, ChecksHold
  <2> QED
    BY <2>2, InvParts, InvPartsNext
<1>0. RowOK
  BY InvParts
<1>1. ASSUME NEW kind \in Kinds, NEW host \in TargetHosts, Create(kind, host)
      PROVE  RowOK'
  BY <1>0, <1>1 DEF RowOK, Create, Kinds, None, KindsAreExclusive, KindsKeepTheirOwn
<1>2. ASSUME NEW u \in Updates, NEW kind \in Kinds \union {None}, ReadKind(u, kind)
      PROVE  RowOK'
  BY <1>0, <1>2 DEF RowOK, ReadKind, Kinds, None, KindsAreExclusive, KindsKeepTheirOwn
<1>3. ASSUME NEW u \in Updates, NEW host \in TargetHosts \union {None},
             NEW routes \in BOOLEAN, NEW isOn \in BOOLEAN, Write(u, host, routes, isOn)
      PROVE  RowOK'
  <2>1. update' \in [Updates -> [step : {"none", "write"}, kind : Kinds \union {None}]]
    BY <1>0, <1>3 DEF RowOK, Write, NoUpdate
  <2>2. row' \in [kind : Kinds \union {None}, target : TargetHosts \union {None},
                  routes : BOOLEAN, active : BOOLEAN]
    BY <1>0, <1>3 DEF RowOK, Write, None
  <2>3. row'.kind = update[u].kind
    BY <1>0, <1>3 DEF RowOK, Write
  <2>4. update[u].kind = "mock" => row'.target = None
    BY <1>0, <1>3 DEF RowOK, Write
  <2>5. row'.routes => update[u].kind = "mock"
    BY <1>0, <1>3 DEF RowOK, Write
  <2> QED
    BY <2>1, <2>2, <2>3, <2>4, <2>5 DEF RowOK, KindsAreExclusive, KindsKeepTheirOwn
<1>4. ASSUME NEW u \in Updates, Refuse(u) PROVE RowOK'
  BY <1>0, <1>4 DEF RowOK, Refuse, NoUpdate, None, KindsAreExclusive, KindsKeepTheirOwn
<1> QED
  BY <1>1, <1>2, <1>3, <1>4 DEF OwnerStep

\* A step of one request replaces its record and no other.
LEMMA OneFetch ==
  ASSUME FetchesOK, NEW f \in Fetches,
         NEW r \in [step : {"none", "lookup", "connect", "answer"},
                    to : TargetHosts \union {None}, https : BOOLEAN,
                    method : {"GET", "POST", "PUT"}, body : BOOLEAN,
                    hops : 0..MAX_REDIRECTS, address : {"none", "public", "private"}],
         fetch' = [fetch EXCEPT ![f] = r],
         r.method = "GET" => ~r.body,
         r.step = "connect" => r.address = "public"
  PROVE  FetchesOK'
<1>1. r.hops <= MAX_REDIRECTS
  BY EgressAssumption
<1>2. \A g \in Fetches : fetch'[g] = IF g = f THEN r ELSE fetch[g]
  BY DEF FetchesOK
<1> QED
  BY <1>1, <1>2 DEF FetchesOK, NoBodyOnGet, ChecksHold

LEMMA FetchKeeps == ASSUME EgressInv, NEW f \in Fetches, FetchStep(f) PROVE EgressInv'
<1>0. FetchesOK /\ RowOK /\ AroundOK
  BY InvParts
<1>a. fetch[f] \in [step : {"none", "lookup", "connect", "answer"},
                    to : TargetHosts \union {None}, https : BOOLEAN,
                    method : {"GET", "POST", "PUT"}, body : BOOLEAN,
                    hops : 0..MAX_REDIRECTS, address : {"none", "public", "private"}]
  BY <1>0 DEF FetchesOK
<1>1. RowOK'
  <2>1. UNCHANGED <<row, update>>
    BY DEF FetchStep, Fetch, LookUp, ReachChecked, Conclude, Redirect
  <2> QED
    BY <1>0, <2>1 DEF RowOK, KindsAreExclusive, KindsKeepTheirOwn
<1>b. /\ Idle \in [step : {"none", "lookup", "connect", "answer"},
                   to : TargetHosts \union {None}, https : BOOLEAN,
                   method : {"GET", "POST", "PUT"}, body : BOOLEAN,
                   hops : 0..MAX_REDIRECTS, address : {"none", "public", "private"}]
      /\ ~Idle.body /\ Idle.step = "none"
  BY EgressAssumption DEF Idle, None
<1>2. ASSUME Over(f) PROVE FetchesOK'
  BY <1>0, <1>b, <1>2, OneFetch DEF Over
<1>3. ASSUME UNCHANGED fetch PROVE FetchesOK'
  BY <1>0, <1>3 DEF FetchesOK, NoBodyOnGet, ChecksHold
<1>4. ASSUME NEW method \in {"GET", "POST", "PUT"}, NEW body \in BOOLEAN, Fetch(f, method, body)
      PROVE  FetchesOK' /\ AroundOK'
  <2>1. AroundOK'
    BY <1>0, <1>4, EgressAssumption DEF AroundOK, Fetch, Counted, Admitted
  <2>2. CASE UNCHANGED fetch
    BY <2>1, <2>2, <1>3
  <2>3. CASE fetch # fetch'
    <3> DEFINE kept == body /\ method # "GET"
               r == [Idle EXCEPT !.step = "lookup", !.to = row.target, !.method = method,
                                 !.body = kept]
    <3>1. fetch' = [fetch EXCEPT ![f] = r]
      BY <1>4, <2>3 DEF Fetch
    <3>2. kept \in BOOLEAN /\ (method = "GET" => ~kept) /\ row.target \in TargetHosts \union {None}
      BY <1>0 DEF RowOK
    <3> HIDE DEF kept
    <3>3. /\ r \in [step : {"none", "lookup", "connect", "answer"},
                    to : TargetHosts \union {None}, https : BOOLEAN,
                    method : {"GET", "POST", "PUT"}, body : BOOLEAN,
                    hops : 0..MAX_REDIRECTS, address : {"none", "public", "private"}]
          /\ r.step = "lookup" /\ r.method = method /\ r.body = kept
      BY <1>b, <3>2
    <3> HIDE DEF r
    <3> QED
      BY <1>0, <2>1, <3>1, <3>2, <3>3, OneFetch
  <2> QED
    BY <2>2, <2>3
<1>5. ASSUME LookUp(f) PROVE FetchesOK' /\ AroundOK'
  <2>1. AroundOK'
    BY <1>0, <1>5 DEF AroundOK, LookUp
  <2>2. CASE Over(f)
    BY <2>1, <2>2, <1>2
  <2>3. CASE ~Over(f)
    <3> DEFINE r == [fetch[f] EXCEPT !.step = "connect", !.address = "public"]
    <3>1. fetch' = [fetch EXCEPT ![f] = r]
      BY <1>5, <2>3 DEF LookUp
    <3>2. /\ r \in [step : {"none", "lookup", "connect", "answer"},
                    to : TargetHosts \union {None}, https : BOOLEAN,
                    method : {"GET", "POST", "PUT"}, body : BOOLEAN,
                    hops : 0..MAX_REDIRECTS, address : {"none", "public", "private"}]
          /\ r.address = "public" /\ r.method = fetch[f].method /\ r.body = fetch[f].body
      BY <1>a
    <3>3. fetch[f].method = "GET" => ~fetch[f].body
      BY <1>0 DEF FetchesOK, NoBodyOnGet
    <3> HIDE DEF r
    <3> QED
      BY <1>0, <2>1, <3>1, <3>2, <3>3, OneFetch
  <2> QED
    BY <2>2, <2>3
<1>6. ASSUME ReachChecked(f) PROVE FetchesOK' /\ AroundOK'
  <2>1. fetch[f].address = "public"
    BY <1>0, <1>6 DEF ReachChecked, FetchesOK, ChecksHold
  <2>2. AroundOK'
    BY <1>0, <1>6, <2>1 DEF AroundOK, ReachChecked
  <2> DEFINE r == [fetch[f] EXCEPT !.step = "answer"]
  <2>3. fetch' = [fetch EXCEPT ![f] = r]
    BY <1>6 DEF ReachChecked
  <2>4. /\ r \in [step : {"none", "lookup", "connect", "answer"},
                  to : TargetHosts \union {None}, https : BOOLEAN,
                  method : {"GET", "POST", "PUT"}, body : BOOLEAN,
                  hops : 0..MAX_REDIRECTS, address : {"none", "public", "private"}]
        /\ r.step = "answer" /\ r.method = fetch[f].method /\ r.body = fetch[f].body
    BY <1>a
  <2>5. fetch[f].method = "GET" => ~fetch[f].body
    BY <1>0 DEF FetchesOK, NoBodyOnGet
  <2> HIDE DEF r
  <2> QED
    BY <1>0, <2>2, <2>3, <2>4, <2>5, OneFetch
<1>7. ASSUME Conclude(f) PROVE FetchesOK' /\ AroundOK'
  BY <1>0, <1>2, <1>7 DEF Conclude, AroundOK
<1>8. ASSUME NEW to \in TargetHosts, NEW https \in BOOLEAN, NEW status \in {302, 303, 307},
             Redirect(f, to, https, status)
      PROVE  FetchesOK' /\ AroundOK'
  <2>1. AroundOK'
    BY <1>0, <1>8 DEF AroundOK, Redirect
  <2>2. CASE Over(f)
    BY <2>1, <2>2, <1>2
  <2>3. CASE ~Over(f)
    <3> DEFINE get == BecomesGet(f, status)
               verb == IF get THEN "GET" ELSE fetch[f].method
               kept == fetch[f].body /\ ~get
               r == [Idle EXCEPT !.step = "lookup", !.to = to, !.https = https,
                                 !.hops = fetch[f].hops + 1, !.method = verb, !.body = kept]
    <3>1. fetch' = [fetch EXCEPT ![f] = r] /\ fetch[f].hops # MAX_REDIRECTS
      BY <1>8, <2>3 DEF Redirect
    <3>2. fetch[f].hops + 1 \in 0..MAX_REDIRECTS
      BY <1>a, <3>1, EgressAssumption
    <3>3. get \in BOOLEAN
      BY DEF BecomesGet
    <3>4. fetch[f].method = "GET" => ~fetch[f].body
      BY <1>0 DEF FetchesOK, NoBodyOnGet
    <3>5. verb \in {"GET", "POST", "PUT"} /\ kept \in BOOLEAN /\ (verb = "GET" => ~kept)
      BY <1>a, <3>3, <3>4
    <3> HIDE DEF get, verb, kept
    <3>6. /\ r \in [step : {"none", "lookup", "connect", "answer"},
                    to : TargetHosts \union {None}, https : BOOLEAN,
                    method : {"GET", "POST", "PUT"}, body : BOOLEAN,
                    hops : 0..MAX_REDIRECTS, address : {"none", "public", "private"}]
          /\ r.step = "lookup" /\ r.method = verb /\ r.body = kept
      BY <3>2, <3>5 DEF Idle
    <3> HIDE DEF r
    <3> QED
      BY <1>0, <2>1, <3>1, <3>5, <3>6, OneFetch
  <2> QED
    BY <2>2, <2>3
<1>9. FetchesOK' /\ AroundOK'
  BY <1>4, <1>5, <1>6, <1>7, <1>8 DEF FetchStep
<1> QED
  BY <1>1, <1>9, InvPartsNext

LEMMA AroundKeeps ==
  ASSUME EgressInv,
         \/ \E host \in TargetHosts, answers \in Answers : Rename(host, answers)
         \/ WorkspaceEnds \/ Lapse
  PROVE  EgressInv'
<1>0. FetchesOK /\ RowOK /\ AroundOK
  BY InvParts
<1>1. UNCHANGED <<row, update, fetch, reached>>
  BY DEF Rename, WorkspaceEnds, Lapse
<1>2. FetchesOK' /\ RowOK'
  BY <1>0, <1>1 DEF FetchesOK, RowOK, NoBodyOnGet, ChecksHold, KindsAreExclusive, KindsKeepTheirOwn
<1>3. AroundOK'
  <2>1. ASSUME NEW host \in TargetHosts, NEW answers \in Answers, Rename(host, answers)
        PROVE  AroundOK'
    BY <1>0, <2>1 DEF AroundOK, Rename
  <2>2. ASSUME WorkspaceEnds PROVE AroundOK'
    BY <1>0, <2>2 DEF AroundOK, WorkspaceEnds
  <2>3. ASSUME Lapse PROVE AroundOK'
    BY <1>0, <2>3, EgressAssumption DEF AroundOK, Lapse
  <2> QED
    BY <2>1, <2>2, <2>3
<1> QED
  BY <1>2, <1>3, InvPartsNext

-----------------------------------------------------------------------------
LEMMA EgressInductive == EgressInv /\ [EgressNext]_egressVars => EgressInv'
<1> SUFFICES ASSUME EgressInv, [EgressNext]_egressVars PROVE EgressInv'
  OBVIOUS
<1>1. CASE EgressNext
  BY <1>1, OwnerKeeps, FetchKeeps, AroundKeeps DEF EgressNext
<1>2. CASE UNCHANGED egressVars
  BY <1>2, InvParts, InvPartsNext DEF egressVars, FetchesOK, RowOK, AroundOK, NoBodyOnGet, ChecksHold,
     KindsAreExclusive, KindsKeepTheirOwn
<1> QED
  BY <1>1, <1>2

LEMMA EgressInvariant == EgressSpec => []EgressInv
<1> QED
  BY EgressInitially, EgressInductive, PTL DEF EgressSpec

(* No connection of a lab request goes to an address that is not public,   *)
(* no request makes more hops than it may, no GET carries a body, and a    *)
(* row holds only what belongs to its kind, however updates, renamings,    *)
(* redirects and requests overlap.  lab-egress and lab-upstreams.ts.       *)
THEOREM EgressContained == EgressSpec => []EgressIsContained
<1>1. EgressInv => EgressIsContained
  BY DEF EgressInv
<1> QED
  BY EgressInvariant, <1>1, PTL

-----------------------------------------------------------------------------
(***************************************************************************)
(* Developer tokens: DeveloperInv says what each request has seen and recorded.*)
(***************************************************************************)

\* What a request has been asked and has read.
IsSelection(s) ==
    /\ DOMAIN s = {"phase", "products", "proxies", "read", "facts"}
    /\ s.phase \in SelectionPhases
    /\ s.products \subseteq Products /\ s.proxies \subseteq Proxies
    /\ s.read \subseteq Queries

\* These facts give the products and proxies asked for.
Gives(facts, ps, xs) ==
    /\ \A p \in ps : {<<"active", p>>, <<"available", p>>} \subseteq facts
    /\ \A x \in xs : /\ <<"deployed", x>> \in facts
                     /\ \E p \in ps : <<"exposes", p, x>> \in facts

\* A request has been told only what was so meanwhile; one that has come to
\* its exchange was told enough, and one that has come to its record has a
\* token, as good.
RequestOK(q) ==
    /\ selection[q].phase = "idle" => token[q] = {}
    /\ selection[q].phase # "idle" => selection[q].proxies # {} /\ selection[q].facts \subseteq been[q]
    /\ selection[q].phase \in {"signed", "issued"} =>
          Gives(selection[q].facts, selection[q].products, selection[q].proxies)
    /\ selection[q].phase = "issued" => token[q] # {}
    /\ token[q] # {} => Gives(been[q], selection[q].products, token[q])

RecordsOK == held \subseteq audited /\ \A q \in audited : token[q] # {}

DeveloperInv ==
    /\ DOMAIN selection = Requests /\ selection = [q \in Requests |-> selection[q]]
    /\ \A q \in Requests : IsSelection(selection[q])
    /\ token \in [Requests -> SUBSET Proxies]
    /\ RecordsOK
    /\ \A q \in Requests : RequestOK(q)

LEMMA DeveloperInitially == DeveloperInit => DeveloperInv
<1> SUFFICES ASSUME DeveloperInit PROVE DeveloperInv
  OBVIOUS
<1>1. IsSelection(Fresh)
  BY DEF Fresh, IsSelection, SelectionPhases
<1>2. /\ DOMAIN selection = Requests /\ selection = [q \in Requests |-> selection[q]]
      /\ \A q \in Requests : selection[q] = Fresh
      /\ token \in [Requests -> SUBSET Proxies] /\ RecordsOK
  BY DEF DeveloperInit, RecordsOK
<1>3. ASSUME NEW q \in Requests PROVE RequestOK(q)
  BY <1>2 DEF DeveloperInit, RequestOK, Fresh
<1> QED
  BY <1>1, <1>2, <1>3 DEF DeveloperInv

-----------------------------------------------------------------------------
\* What was so stays remembered for as long as the request exists, and what is
\* so now is, until it is done.
LEMMA Remembers ==
    ASSUME Remember, NEW q \in Requests, selection'[q].phase # "idle"
    PROVE  /\ been[q] \subseteq been'[q]
           /\ selection'[q].phase # "done" => Known(q)' \subseteq been'[q]
BY DEF Remember

\* More facts give as much.
LEMMA MoreGives ==
    ASSUME NEW facts, NEW more, facts \subseteq more, NEW ps, NEW xs, Gives(facts, ps, xs)
    PROVE  Gives(more, ps, xs)
BY DEF Gives

\* A step that changes one request, if any.
LEMMA RequestChanges ==
    ASSUME DeveloperInv, Remember, NEW q \in Requests, NEW s,
           selection' = [selection EXCEPT ![q] = s], IsSelection(s), RequestOK(q)',
           token' \in [Requests -> SUBSET Proxies],
           \A r \in Requests \ {q} : token'[r] = token[r], RecordsOK'
    PROVE  DeveloperInv'
<1>1. /\ DOMAIN selection' = Requests /\ selection' = [r \in Requests |-> selection'[r]]
      /\ selection'[q] = s /\ \A r \in Requests \ {q} : selection'[r] = selection[r]
  BY DEF DeveloperInv
<1>2. ASSUME NEW r \in Requests \ {q} PROVE RequestOK(r)'
  <2>1. RequestOK(r) /\ selection'[r] = selection[r] /\ token'[r] = token[r]
    BY <1>1 DEF DeveloperInv
  <2>2. CASE selection[r].phase = "idle"
    BY <2>1, <2>2 DEF RequestOK
  <2>3. CASE selection[r].phase # "idle"
    <3>1. been[r] \subseteq been'[r]
      BY <2>1, <2>3, Remembers
    <3>2. Gives(been[r], selection[r].products, token[r])
             => Gives(been'[r], selection[r].products, token[r])
      BY <3>1, MoreGives
    <3> QED
      BY <2>1, <2>3, <3>1, <3>2 DEF RequestOK
  <2> QED
    BY <2>2, <2>3
<1> QED
  BY <1>1, <1>2 DEF DeveloperInv

\* Rows change around the requests.
LEMMA RowsKeep ==
    ASSUME DeveloperInv, Remember, UNCHANGED <<selection, outcome>>
    PROVE  DeveloperInv'
<1>1. ASSUME NEW q \in Requests PROVE RequestOK(q)'
  <2>1. RequestOK(q) /\ selection'[q] = selection[q] /\ token'[q] = token[q]
    BY DEF DeveloperInv, outcome
  <2>2. CASE selection[q].phase = "idle"
    BY <2>1, <2>2 DEF RequestOK
  <2>3. CASE selection[q].phase # "idle"
    <3>1. been[q] \subseteq been'[q]
      BY <2>1, <2>3, Remembers
    <3>2. Gives(been[q], selection[q].products, token[q])
             => Gives(been'[q], selection[q].products, token[q])
      BY <3>1, MoreGives
    <3> QED
      BY <2>1, <2>3, <3>1, <3>2 DEF RequestOK
  <2> QED
    BY <2>2, <2>3
<1>2. RecordsOK'
  BY DEF DeveloperInv, RecordsOK, outcome
<1> QED
  BY <1>1, <1>2 DEF DeveloperInv, outcome

LEMMA DeveloperAskKeeps ==
    ASSUME DeveloperInv, Remember, NEW q \in Requests,
           NEW ps \in SUBSET Products, NEW xs \in SUBSET Proxies, Ask(q, ps, xs)
    PROVE  DeveloperInv'
<1>1. PICK s : s = [phase |-> "reading", products |-> ps, proxies |-> xs, read |-> {}, facts |-> {}]
  OBVIOUS
<1>2. /\ selection[q].phase = "idle" /\ xs # {}
      /\ selection' = [selection EXCEPT ![q] = s] /\ UNCHANGED outcome
  BY <1>1 DEF Ask
<1>3. IsSelection(s) /\ s.phase = "reading" /\ s.proxies = xs /\ s.facts = {}
  BY <1>1 DEF IsSelection, SelectionPhases
<1>4. selection'[q] = s
  BY <1>2 DEF DeveloperInv
<1>5. token'[q] = {}
  BY <1>2 DEF DeveloperInv, RequestOK, outcome
<1>6. RequestOK(q)'
  BY <1>2, <1>3, <1>4, <1>5 DEF RequestOK
<1>7. RecordsOK' /\ token' \in [Requests -> SUBSET Proxies]
  BY <1>2 DEF DeveloperInv, RecordsOK, outcome
<1> QED
  BY <1>2, <1>3, <1>6, <1>7, RequestChanges DEF outcome

\* A request moves on with what it has read, and its token stays.
LEMMA MoveKeeps ==
    ASSUME DeveloperInv, Remember, NEW q \in Requests, NEW phase \in {"signed", "done"},
           Moves(q, phase), UNCHANGED token, RecordsOK',
           selection[q].phase # "idle",
           phase = "signed" =>
               Gives(selection[q].facts, selection[q].products, selection[q].proxies)
    PROVE  DeveloperInv'
<1>1. PICK old : old = selection[q]
  OBVIOUS
<1>2. PICK s : s = [old EXCEPT !.phase = phase]
  OBVIOUS
<1>3. IsSelection(old) /\ RequestOK(q)
  BY <1>1 DEF DeveloperInv
<1>4. /\ IsSelection(s) /\ s.phase = phase /\ s.products = old.products
      /\ s.proxies = old.proxies /\ s.facts = old.facts
  BY <1>2, <1>3 DEF IsSelection, SelectionPhases
<1>5. selection' = [selection EXCEPT ![q] = s]
  BY <1>1, <1>2 DEF Moves
<1>6. selection'[q] = s
  BY <1>5 DEF DeveloperInv
<1>7. been[q] \subseteq been'[q]
  BY <1>4, <1>6, Remembers
<1>8. Gives(been[q], s.products, token[q]) => Gives(been'[q], s.products, token[q])
  BY <1>7, MoreGives
<1>9. RequestOK(q)'
  BY <1>1, <1>3, <1>4, <1>6, <1>7, <1>8 DEF RequestOK
<1> QED
  BY <1>4, <1>5, <1>9, RequestChanges DEF DeveloperInv

\* What a query finds of some of a request's products is so.
LEMMA FoundIsKnown ==
    ASSUME NEW q \in Requests, NEW what \in Queries, NEW ps, ps \subseteq selection[q].products
    PROVE  Found(what, ps, selection[q].proxies) \subseteq Known(q)
<1>1. Found(what, selection[q].products, selection[q].proxies) \subseteq Known(q)
  BY DEF Known
<1>2. Found(what, ps, selection[q].proxies)
         \subseteq Found(what, selection[q].products, selection[q].proxies)
  BY DEF Found, Queries
<1> QED
  BY <1>1, <1>2

\* An answer adds what it found, which is so at that moment.
LEMMA DeveloperReadKeeps ==
    ASSUME DeveloperInv, Remember, NEW q \in Requests, NEW what \in Queries,
           loadSelection(q, what)
    PROVE  DeveloperInv'
<1>1. PICK old : old = selection[q]
  OBVIOUS
<1>2. PICK ps : ps = IF what = "products" THEN old.products
                     ELSE {p \in old.products : <<"active", p>> \in old.facts}
  OBVIOUS
<1>3. PICK new : new = Found(what, ps, old.proxies)
  OBVIOUS
<1>4. PICK s : s = [old EXCEPT !.read = @ \cup {what}, !.facts = @ \cup new]
  OBVIOUS
<1>5. /\ old.phase = "reading" /\ selection' = [selection EXCEPT ![q] = s]
      /\ UNCHANGED <<rows, outcome>>
  BY <1>1, <1>2, <1>3, <1>4 DEF loadSelection
<1>6. IsSelection(old) /\ RequestOK(q)
  BY <1>1 DEF DeveloperInv
<1>7. /\ IsSelection(s) /\ s.phase = "reading" /\ s.products = old.products
      /\ s.proxies = old.proxies /\ s.facts = old.facts \cup new
  BY <1>4, <1>5, <1>6 DEF IsSelection, SelectionPhases
<1>8. selection'[q] = s
  BY <1>5 DEF DeveloperInv
<1>9. been[q] \subseteq been'[q] /\ Known(q)' \subseteq been'[q]
  BY <1>7, <1>8, Remembers
<1>10. new \subseteq Known(q)'
  <2>1. new \subseteq Known(q)
    BY <1>1, <1>2, <1>3, FoundIsKnown
  <2>2. active' = active /\ exposes' = exposes /\ available' = available /\ deployed' = deployed
    BY <1>5 DEF rows
  <2>3. selection'[q].products = old.products /\ selection'[q].proxies = old.proxies
    BY <1>7, <1>8
  <2>4. \A w \in Queries : Found(w, old.products, old.proxies)' = Found(w, old.products, old.proxies)
    BY <2>2 DEF Found
  <2>5. Known(q) = UNION {Found(w, old.products, old.proxies) : w \in Queries}
    BY <1>1 DEF Known
  <2>6. Known(q)' = UNION {Found(w, old.products, old.proxies)' : w \in Queries}
    BY <2>3 DEF Known
  <2>7. Known(q)' = Known(q)
    BY <2>4, <2>5, <2>6
  <2> QED
    BY <2>1, <2>7
<1>11. Gives(been[q], s.products, token[q]) => Gives(been'[q], s.products, token[q])
  BY <1>9, MoreGives
<1>12. RequestOK(q)'
  <2>1. token'[q] = token[q]
    BY <1>5 DEF outcome
  <2>2. /\ old.proxies # {} /\ s.facts \subseteq been'[q]
        /\ token[q] # {} => Gives(been[q], s.products, token[q])
    BY <1>1, <1>5, <1>6, <1>7, <1>9, <1>10 DEF RequestOK
  <2> QED
    BY <1>7, <1>8, <1>11, <2>1, <2>2 DEF RequestOK
<1>13. RecordsOK' /\ token' \in [Requests -> SUBSET Proxies]
  BY <1>5 DEF DeveloperInv, RecordsOK, outcome
<1> QED
  BY <1>5, <1>7, <1>12, <1>13, RequestChanges DEF outcome

\* The gateway makes a token of the proxies that were read.
LEMMA ExchangeKeeps ==
    ASSUME DeveloperInv, Remember, NEW q \in Requests, NEW answered \in BOOLEAN,
           ExchangeAtGateway(q, answered)
    PROVE  DeveloperInv'
<1>1. PICK old : old = selection[q]
  OBVIOUS
<1>2. PICK phase : phase = IF answered THEN "issued" ELSE "done"
  OBVIOUS
<1>3. PICK s : s = [old EXCEPT !.phase = phase]
  OBVIOUS
<1>4. /\ old.phase = "signed" /\ selection' = [selection EXCEPT ![q] = s]
      /\ token' = [token EXCEPT ![q] = old.proxies] /\ UNCHANGED <<audited, held>>
  BY <1>1, <1>2, <1>3 DEF ExchangeAtGateway, Moves
<1>5. IsSelection(old) /\ RequestOK(q)
  BY <1>1 DEF DeveloperInv
<1>6. /\ IsSelection(s) /\ s.phase = phase /\ s.products = old.products
      /\ s.proxies = old.proxies /\ s.facts = old.facts
  BY <1>2, <1>3, <1>5 DEF IsSelection, SelectionPhases
<1>7. /\ token' \in [Requests -> SUBSET Proxies] /\ token'[q] = old.proxies
      /\ \A r \in Requests \ {q} : token'[r] = token[r]
  BY <1>4, <1>5 DEF DeveloperInv, IsSelection
<1>8. selection'[q] = s
  BY <1>4 DEF DeveloperInv
<1>9. /\ old.proxies # {} /\ old.facts \subseteq been[q]
      /\ Gives(old.facts, old.products, old.proxies)
  BY <1>1, <1>4, <1>5 DEF RequestOK
<1>10. been[q] \subseteq been'[q]
  BY <1>2, <1>6, <1>8, Remembers
<1>11. old.facts \subseteq been'[q] /\ Gives(been'[q], old.products, old.proxies)
  BY <1>9, <1>10, MoreGives
<1>12. phase # "idle"
  BY <1>2
<1>13. RequestOK(q)'
  BY <1>6, <1>7, <1>8, <1>9, <1>11, <1>12 DEF RequestOK
<1>14. RecordsOK'
  BY <1>4, <1>7, <1>9 DEF DeveloperInv, RecordsOK
<1> QED
  BY <1>4, <1>6, <1>7, <1>13, <1>14, RequestChanges

-----------------------------------------------------------------------------
LEMMA RequestStepKeeps ==
    ASSUME DeveloperInv, Remember, NEW q \in Requests,
           \/ Fail(q) \/ SignAssertion(q) \/ recordIssue(q)
    PROVE  DeveloperInv'
<1>1. CASE Fail(q)
  <2>1. /\ selection[q].phase # "idle" /\ Moves(q, "done") /\ UNCHANGED token /\ RecordsOK'
    BY <1>1 DEF Fail, DeveloperInv, RecordsOK, outcome
  <2> QED
    BY <2>1, MoveKeeps
<1>2. CASE SignAssertion(q)
  <2>1. /\ selection[q].phase # "idle" /\ Moves(q, "signed") /\ UNCHANGED token /\ RecordsOK'
    BY <1>2 DEF SignAssertion, DeveloperInv, RecordsOK, outcome
  <2>2. Gives(selection[q].facts, selection[q].products, selection[q].proxies)
    BY <1>2 DEF SignAssertion, Gives
  <2> QED
    BY <2>1, <2>2, MoveKeeps
<1>3. CASE recordIssue(q)
  <2>1. /\ selection[q].phase # "idle" /\ Moves(q, "done") /\ UNCHANGED token /\ RecordsOK'
    BY <1>3 DEF recordIssue, DeveloperInv, RecordsOK, RequestOK
  <2> QED
    BY <2>1, MoveKeeps
<1> QED
  BY <1>1, <1>2, <1>3

LEMMA DeveloperNextKeeps == DeveloperInv /\ [DeveloperNext]_developerVars => DeveloperInv'
<1> SUFFICES ASSUME DeveloperInv, [DeveloperNext]_developerVars PROVE DeveloperInv'
  OBVIOUS
<1>1. CASE UNCHANGED developerVars
  BY <1>1 DEF developerVars, DeveloperInv, RecordsOK, RequestOK
<1>2. CASE DeveloperNext
  <2>1. Remember
    BY <1>2 DEF DeveloperNext
  <2>2. ASSUME NEW q \in Requests, NEW ps \in SUBSET Products, NEW xs \in SUBSET Proxies,
               Ask(q, ps, xs)
        PROVE  DeveloperInv'
    BY <2>1, <2>2, DeveloperAskKeeps
  <2>3. ASSUME NEW q \in Requests, Fail(q) \/ SignAssertion(q) \/ recordIssue(q)
        PROVE  DeveloperInv'
    BY <2>1, <2>3, RequestStepKeeps
  <2>4. ASSUME NEW q \in Requests, NEW what \in Queries, loadSelection(q, what)
        PROVE  DeveloperInv'
    BY <2>1, <2>4, DeveloperReadKeeps
  <2>5. ASSUME NEW q \in Requests, NEW answered \in BOOLEAN, ExchangeAtGateway(q, answered)
        PROVE  DeveloperInv'
    BY <2>1, <2>5, ExchangeKeeps
  <2>6. ASSUME NEW p, NEW on, NEW xs, NEW here,
               RewriteProduct(p, on, xs, here) \/ SwitchDeployment(p)
        PROVE  DeveloperInv'
    BY <2>1, <2>6, RowsKeep DEF RewriteProduct, SwitchDeployment
  <2> QED
    BY <1>2, <2>2, <2>3, <2>4, <2>5, <2>6 DEF DeveloperNext
<1> QED
  BY <1>1, <1>2

(* A developer only holds tokens whose issue is in the audit log; each      *)
(* product of a token was active and for the environment, and each of its  *)
(* proxies deployed and in one of the products, at some moment of its      *)
(* request, however products are rewritten between the queries.            *)
(* developer-tokens.ts:76-111 and 198-274, products.ts:277.                *)
THEOREM DeveloperTokensAccounted == DeveloperSpec => []TokensAreAccounted
<1>1. DeveloperInv => TokensAreAccounted
  BY DEF DeveloperInv, RecordsOK, RequestOK, Gives, TokensAreAccounted
<1> QED
  BY <1>1, DeveloperInitially, DeveloperNextKeeps, PTL DEF DeveloperSpec

\* What DeveloperInv does not say of the rows and of the records.
RowsOK ==
    /\ active \subseteq Products /\ available \subseteq Products
    /\ exposes \in [Products -> SUBSET Proxies] /\ deployed \subseteq Proxies
    /\ audited \subseteq Requests /\ held \subseteq Requests

LEMMA RowsStay == RowsOK /\ [DeveloperNext]_developerVars => RowsOK'
<1> SUFFICES ASSUME RowsOK, [DeveloperNext]_developerVars PROVE RowsOK'
  OBVIOUS
<1>1. CASE UNCHANGED <<rows, audited, held>>
  BY <1>1 DEF RowsOK, rows
<1>2. ASSUME NEW q \in Requests, recordIssue(q) PROVE RowsOK'
  BY <1>2 DEF RowsOK, recordIssue, rows
<1>3. ASSUME NEW p \in Products, NEW on, NEW xs \in SUBSET Proxies, NEW here,
             RewriteProduct(p, on, xs, here)
      PROVE  RowsOK'
  BY <1>3 DEF RowsOK, RewriteProduct, outcome
<1>4. ASSUME NEW x \in Proxies, SwitchDeployment(x) PROVE RowsOK'
  BY <1>4 DEF RowsOK, SwitchDeployment, outcome
<1>5. ASSUME NEW q \in Requests, NEW ps, NEW xs, NEW what, NEW answered,
             \/ Ask(q, ps, xs) \/ Fail(q) \/ loadSelection(q, what) \/ SignAssertion(q)
             \/ ExchangeAtGateway(q, answered)
      PROVE  RowsOK'
  BY <1>1, <1>5 DEF Ask, Fail, loadSelection, SignAssertion, ExchangeAtGateway, rows, outcome
<1> QED
  BY <1>1, <1>2, <1>3, <1>4, <1>5 DEF DeveloperNext, developerVars, rows

LEMMA DeveloperIsTyped == DeveloperSpec => []DeveloperTypeOK
<1>1. DeveloperInit => RowsOK
  BY DEF DeveloperInit, RowsOK
<1>2. ASSUME DeveloperInv, RowsOK PROVE DeveloperTypeOK
  <2>1. ASSUME NEW q \in Requests PROVE IsSelection(selection[q])
    BY <1>2 DEF DeveloperInv
  <2> QED
    BY <1>2, <2>1 DEF DeveloperInv, RowsOK, DeveloperTypeOK, IsSelection
<1> QED
  BY <1>1, <1>2, RowsStay, DeveloperInitially, DeveloperNextKeeps, PTL DEF DeveloperSpec

-----------------------------------------------------------------------------
(***************************************************************************)
(* The Management API: an operation allows its actor what the actor's      *)
(* memberships entitle it to, and the actor has those its caller held.     *)
(***************************************************************************)

Mine(actor, o) == actor.context = "management" => o \in Standards

\* What an answer may contain: organizations of the caller's kind that the
\* actor may read, or manage if it changed them, and a role it has.
IsAllowed(op, actor, answer) ==
    /\ \A o \in answer.on : canReadOrganization(actor, o) /\ Mine(actor, o)
    /\ answer.kind = "changed" => \A o \in answer.on : canManageOrganization(actor, o)
    /\ answer.kind = "changed" \/ answer.roles = {}
    /\ (answer.kind = "changed" /\ op \in PlatformOperations) => isPlatformAdmin(actor)
    /\ answer.on # {} => answer.roles \subseteq
          IF op = "certificate.change" THEN principalRole(actor) ELSE actorRole(actor)

IsShown(actor, answer) ==
    /\ answer.kind # "changed" /\ answer.roles = {}
    /\ \A o \in answer.on : canReadOrganization(actor, o) /\ Mine(actor, o)

-----------------------------------------------------------------------------
(* The checks of the services *)

LEMMA BelongsIsMine ==
    ASSUME NEW actor, NEW o, Belongs(actor, o) PROVE Mine(actor, o)
BY DEF Belongs, expectedOrganizationKind, Mine

LEMMA ManagersRead ==
    ASSUME NEW actor, NEW o, canManageOrganization(actor, o) \/ isPlatformAdmin(actor)
    PROVE  canReadOrganization(actor, o)
BY DEF canManageOrganization, canReadOrganization

LEMMA ShownIsAllowed ==
    ASSUME NEW op, NEW actor, NEW answer, IsShown(actor, answer)
    PROVE  IsAllowed(op, actor, answer)
BY DEF IsShown, IsAllowed

LEMMA ShownIfIsShown ==
    ASSUME NEW actor, NEW o, NEW allowed,
           allowed => canReadOrganization(actor, o) /\ Mine(actor, o)
    PROVE  IsShown(actor, ShownIf(allowed, o))
BY DEF IsShown, ShownIf, Shown, Refused

LEMMA ChangedIfIsAllowed ==
    ASSUME NEW op, NEW actor, NEW o, NEW allowed, NEW roles,
           allowed => canManageOrganization(actor, o) /\ Mine(actor, o),
           op \in PlatformOperations /\ allowed => isPlatformAdmin(actor),
           allowed => roles \subseteq
              IF op = "certificate.change" THEN principalRole(actor) ELSE actorRole(actor)
    PROVE  IsAllowed(op, actor, ChangedIf(allowed, o, roles))
<1>1. CASE allowed
  BY <1>1, ManagersRead DEF IsAllowed, ChangedIf
<1>2. CASE ~allowed
  BY <1>2 DEF IsAllowed, ChangedIf, Refused
<1> QED
  BY <1>1, <1>2

-----------------------------------------------------------------------------
(* The operations *)

LEMMA ListsAreAllowed ==
    ASSUME NEW op \in {"organization.list", "proxy.list", "certificate.list", "pki.status",
                       "authority.list", "audit.list"}, NEW actor, NEW o
    PROVE  IsShown(actor, Answer(op, actor, o))
<1> USE DEF IsShown, Shown, Refused
<1>1. CASE op = "organization.list"
  <2>1. Answer(op, actor, o) = listOrganizations(actor)
    BY <1>1 DEF Answer
  <2> QED
    BY <2>1 DEF listOrganizations, Mine
<1>2. CASE op = "proxy.list"
  <2>1. Answer(op, actor, o) = listProxies(actor)
    BY <1>2 DEF Answer
  <2> QED
    BY <2>1, BelongsIsMine DEF listProxies, readableOrganizationIds
<1>3. CASE op = "certificate.list"
  <2>1. Answer(op, actor, o) = listCertificates(actor, o)
    BY <1>3 DEF Answer
  <2> QED
    BY <2>1, BelongsIsMine DEF listCertificates
<1>4. CASE op = "pki.status"
  <2>1. Answer(op, actor, o) = pkiStatus(actor)
    BY <1>4 DEF Answer
  <2> QED
    BY <2>1 DEF pkiStatus, Mine, expectedOrganizationKind
<1>5. CASE op = "authority.list"
  <2>1. Answer(op, actor, o) = listAuthorities(actor, o)
    BY <1>5 DEF Answer
  <2> QED
    BY <2>1, BelongsIsMine DEF listAuthorities
<1>6. CASE op = "audit.list"
  <2>1. Answer(op, actor, o) = listAuditEvents(actor, o)
    BY <1>6 DEF Answer
  <2> QED
    BY <2>1, BelongsIsMine DEF listAuditEvents, readableOrganizationIds
<1> QED
  BY <1>1, <1>2, <1>3, <1>4, <1>5, <1>6

Reads == {"organization.get", "proxy.get", "deployment.list", "proxy.validate", "revision.list",
          "revision.get", "revision.source", "product.list", "product.get", "application.list",
          "application.get", "credential.get", "key.list", "credential.certificates",
          "certificate.get"}

LEMMA ReadsAreAllowed ==
    ASSUME NEW op \in Reads, NEW actor, NEW o
    PROVE  IsShown(actor, Answer(op, actor, o))
<1>1. PICK allowed : /\ Answer(op, actor, o) = ShownIf(allowed, o)
                     /\ allowed => canReadOrganization(actor, o) /\ Mine(actor, o)
  <2>1. CASE op = "organization.get"
    BY <2>1 DEF Answer, getOrganization, Mine
  <2>2. CASE op \in {"proxy.get", "deployment.list", "product.list", "product.get"}
    BY <2>2, BelongsIsMine DEF Answer, getProxy, listDeployments, listProducts, getProduct
  <2>3. CASE op = "proxy.validate"
    BY <2>3, BelongsIsMine, ManagersRead DEF Answer, validateConfiguration, requireOrganizationContext
  <2>4. CASE op \in {"revision.list", "revision.get", "revision.source"}
    BY <2>4, BelongsIsMine DEF Answer, listRevisions, getRevision, getRevisionSource, proxyOrganization
  <2>5. CASE op \in {"application.list", "application.get", "credential.get", "key.list"}
    BY <2>5, BelongsIsMine DEF Answer, listApplications, getApplication, getCredential,
                               listPublicKeys, requireApplicationOrganization
  <2>6. CASE op \in {"credential.certificates", "certificate.get"}
    BY <2>6, BelongsIsMine DEF Answer, listCredential, download, requireCertificateOrganization
  <2> QED
    BY <2>1, <2>2, <2>3, <2>4, <2>5, <2>6 DEF Reads
<1> QED
  BY <1>1, ShownIfIsShown

Changes == {"organization.create", "organization.update", "proxy.create", "proxy.configure",
            "proxy.update", "revision.import", "revision.deploy", "deployment.retire",
            "product.change", "application.change", "certificate.change", "authority.change"}

LEMMA ChangesAreAllowed ==
    ASSUME NEW op \in Changes, NEW actor, NEW o
    PROVE  IsAllowed(op, actor, Answer(op, actor, o))
<1>1. PICK allowed, roles :
         /\ Answer(op, actor, o) = ChangedIf(allowed, o, roles)
         /\ allowed => canManageOrganization(actor, o) /\ Mine(actor, o)
         /\ (op \in PlatformOperations /\ allowed) => isPlatformAdmin(actor)
         /\ allowed => roles \subseteq
               IF op = "certificate.change" THEN principalRole(actor) ELSE actorRole(actor)
  <2>1. CASE op = "organization.create"
    <3>1. Answer(op, actor, o) = createOrganization(actor, o)
      BY <2>1 DEF Answer
    <3> QED
      BY <2>1, <3>1 DEF createOrganization, Mine, canManageOrganization, actorRole
  <2>2. CASE op = "organization.update"
    <3>1. Answer(op, actor, o) = updateOrganization(actor, o)
      BY <2>2 DEF Answer
    <3> QED
      BY <2>2, <3>1 DEF updateOrganization, Mine, canManageOrganization, actorRole
  <2>3. CASE op = "authority.change"
    <3>1. Answer(op, actor, o) = changeAuthorities(actor, o)
      BY <2>3 DEF Answer
    <3> QED
      BY <2>3, <3>1, BelongsIsMine DEF changeAuthorities, canManageOrganization, actorRole
  <2>4. CASE op = "certificate.change"
    <3>1. Answer(op, actor, o) = changeCertificates(actor, o)
      BY <2>4 DEF Answer
    <3> QED
      BY <2>4, <3>1, BelongsIsMine
         DEF changeCertificates, requireCertificateOrganization, PlatformOperations
  <2>5. CASE op \in {"proxy.create", "proxy.configure"}
    <3>1. Answer(op, actor, o) = createProxy(actor, o)
      BY <2>5 DEF Answer, createConfiguredProxy
    <3> QED
      BY <2>5, <3>1, BelongsIsMine DEF createProxy, requireOrganizationContext, PlatformOperations
  <2>6. CASE op \in {"proxy.update", "revision.import", "revision.deploy"}
    <3>1. Answer(op, actor, o) = updateProxy(actor, o)
      BY <2>6 DEF Answer, updateProxy, importRevision, deployRevision
    <3> QED
      BY <2>6, <3>1, BelongsIsMine DEF updateProxy, proxyOrganization, PlatformOperations
  <2>7. CASE op = "deployment.retire"
    <3>1. Answer(op, actor, o) = retireDeployment(actor, o)
      BY <2>7 DEF Answer
    <3> QED
      BY <2>7, <3>1, BelongsIsMine DEF retireDeployment, deploymentOrganization, PlatformOperations
  <2>8. CASE op = "product.change"
    <3>1. Answer(op, actor, o) = changeProducts(actor, o)
      BY <2>8 DEF Answer
    <3> QED
      BY <2>8, <3>1, BelongsIsMine DEF changeProducts, PlatformOperations
  <2>9. CASE op = "application.change"
    <3>1. Answer(op, actor, o) = changeApplications(actor, o)
      BY <2>9 DEF Answer
    <3> QED
      BY <2>9, <3>1, BelongsIsMine
         DEF changeApplications, requireApplicationOrganization, PlatformOperations
  <2> QED
    BY <2>1, <2>2, <2>3, <2>4, <2>5, <2>6, <2>7, <2>8, <2>9 DEF Changes
<1> QED
  BY <1>1, ChangedIfIsAllowed

LEMMA AnswersAreAllowed ==
    ASSUME NEW op \in Shared \cup ManagementOnly, NEW actor, NEW o
    PROVE  IsAllowed(op, actor, Answer(op, actor, o))
<1>1. CASE op \in Changes
  BY <1>1, ChangesAreAllowed
<1>2. CASE op \notin Changes
  <2>1. \/ op \in Reads
        \/ op \in {"organization.list", "proxy.list", "certificate.list", "pki.status",
                   "authority.list", "audit.list"}
    BY <1>2 DEF Reads, Changes, Shared, ManagementOnly, ByOrganization, PlatformOperations
  <2>2. IsShown(actor, Answer(op, actor, o))
    BY <2>1, ReadsAreAllowed, ListsAreAllowed
  <2> QED
    BY <2>2, ShownIsAllowed
<1> QED
  BY <1>1, <1>2

-----------------------------------------------------------------------------
(* The requests being served *)

\* A management request acts under the memberships its caller held, a lab
\* request as administrator of the caller's own workspace organizations.
ActorOK(r) ==
    \/ /\ r.actor.context = "management"
       /\ r.actor.memberships = r.held /\ r.held \subseteq Appointments
    \/ /\ r.actor.context = "lab"
       /\ r.held \subseteq {o \in Labs : Owner[o] = r.who}
       /\ r.actor.memberships =
             {[who |-> r.who, role |-> "organizationAdmin", organization |-> o] : o \in r.held}

ServedOK(r) ==
    /\ r.step \in {"idle", "authenticated", "ready", "answered"}
    /\ r.step \in {"ready", "answered"} => ActorOK(r)
    /\ r.step = "answered" => IsAllowed(r.op, r.actor, r.answer)

ManagementInv ==
    /\ ManagementTypeOK
    /\ serving = [c \in Calls |-> serving[c]]
    /\ \A c \in Calls : ServedOK(serving[c])

LEMMA UnservedIsOK == ServedOK(Unserved)
BY DEF ServedOK, Unserved

\* A step of one request.
LEMMA ServingKeeps ==
    ASSUME ManagementInv, NEW c \in Calls, NEW r, ServedOK(r),
           serving' = [serving EXCEPT ![c] = r],
           memberships' \subseteq Appointments, organizations' \subseteq Standards,
           workspaces' \in [Labs -> {"none", "live", "due", "ended"}], changes' = changes
    PROVE  ManagementInv'
<1>1. \A d \in Calls : serving'[d] = IF d = c THEN r ELSE serving[d]
  BY DEF ManagementInv
<1> QED
  BY <1>1 DEF ManagementInv, ManagementTypeOK, ServedOK

LEMMA AuthenticateKeeps ==
    ASSUME ManagementInv, NEW c \in Calls, NEW who, authenticate(c, who)
    PROVE  ManagementInv'
<1> DEFINE own == {m \in memberships : m.who = who}
           r == [step |-> "ready", who |-> who, held |-> own,
                 actor |-> [context |-> "management", memberships |-> own]]
<1>1. own \subseteq Appointments
  BY DEF ManagementInv, ManagementTypeOK
<1>2. ServedOK(r)
  <2> HIDE DEF own
  <2> QED
    BY <1>1 DEF ServedOK, ActorOK
<1>3. PICK s \in {r, Unserved} : serving' = [serving EXCEPT ![c] = s]
  <2>1. CASE verify(who) /\ findActive(who) # {}
    BY <2>1 DEF authenticate, findActive
  <2>2. CASE ~(verify(who) /\ findActive(who) # {})
    BY <2>2 DEF authenticate
  <2> QED
    BY <2>1, <2>2
<1>4. ServedOK(s)
  BY <1>2, UnservedIsOK
<1> QED
  BY <1>3, <1>4, ServingKeeps DEF authenticate, ManagementInv, ManagementTypeOK

LEMMA AuthenticateLabKeeps ==
    ASSUME ManagementInv, NEW c \in Calls, NEW who, authenticateLab(c, who)
    PROVE  ManagementInv'
<1> DEFINE r == [step |-> "authenticated", who |-> who]
<1>1. ServedOK(r)
  BY DEF ServedOK
<1>2. serving' = [serving EXCEPT ![c] = r]
  BY DEF authenticateLab
<1> HIDE DEF r
<1> QED
  BY <1>1, <1>2, ServingKeeps DEF authenticateLab, ManagementInv, ManagementTypeOK

LEMMA ResolveKeeps ==
    ASSUME ManagementInv, NEW c \in Calls, resolveLabRequestContext(c)
    PROVE  ManagementInv'
<1> DEFINE who == serving[c].who
           own == Current(who)
           late == {o \in own : workspaces[o] = "due"}
           live == {o \in Labs : Owner[o] = who /\ workspaces[o] = "live"}
           Acts(os) == {[who |-> who, role |-> "organizationAdmin", organization |-> o] : o \in os}
           r == [step |-> "ready", who |-> who, held |-> live,
                 actor |-> [context |-> "lab", memberships |-> Acts(live)]]
<1>1. PICK s : s \in {r, Unserved} /\ serving' = [serving EXCEPT ![c] = s]
  <2>1. CASE own = {} \/ late # {}
    BY <2>1 DEF resolveLabRequestContext
  <2>2. CASE ~(own = {} \/ late # {})
    <3>1. own = live
      BY <2>2 DEF Current
    <3>2. serving' = [serving EXCEPT ![c] =
             [step |-> "ready", who |-> who, held |-> live,
              actor |-> [context |-> "lab", memberships |-> Acts(own)]]]
      BY <2>2 DEF resolveLabRequestContext, ManagementInv
    <3>3. serving' = [serving EXCEPT ![c] = r]
      BY <3>1, <3>2
    <3> QED
      BY <3>3
  <2> QED
    BY <2>1, <2>2
<1>2. ServedOK(r)
  <2> DEFINE acts == Acts(live)
             actor == [context |-> "lab", memberships |-> acts]
  <2>1. acts = {[who |-> who, role |-> "organizationAdmin", organization |-> o] : o \in live}
    OBVIOUS
  <2>2. live \subseteq {o \in Labs : Owner[o] = who}
    OBVIOUS
  <2>3. /\ r.actor.context = "lab" /\ r.actor.memberships = acts /\ r.held = live
        /\ r.who = who /\ r.step = "ready"
    BY Zenon
  <2> HIDE DEF acts, live, who, r
  <2> QED
    BY <2>1, <2>2, <2>3 DEF ServedOK, ActorOK
<1>3. ServedOK(s)
  BY <1>1, <1>2, UnservedIsOK
<1>4. workspaces' \in [Labs -> {"none", "live", "due", "ended"}]
  BY DEF resolveLabRequestContext, ManagementInv, ManagementTypeOK
<1> HIDE DEF r
<1> QED
  BY <1>1, <1>3, <1>4, ServingKeeps DEF resolveLabRequestContext, ManagementInv, ManagementTypeOK

LEMMA ServeKeeps ==
    ASSUME ManagementInv, NEW c \in Calls, NEW op \in Shared \cup ManagementOnly, NEW o,
           Serve(c, op, o)
    PROVE  ManagementInv'
<1> DEFINE old == serving[c]
           answer == Answer(op, old.actor, o)
           r == [step |-> "answered", who |-> old.who, held |-> old.held, actor |-> old.actor,
                 op |-> op, answer |-> answer]
<1>1. old.step = "ready" /\ ActorOK(old)
  BY DEF Serve, ManagementInv, ServedOK
<1>2. serving' = [serving EXCEPT ![c] = r]
  BY DEF Serve, ManagementInv
<1>3. IsAllowed(op, old.actor, answer)
  BY AnswersAreAllowed
<1>4. ServedOK(r)
  <2> HIDE DEF answer, old
  <2> QED
    BY <1>1, <1>3 DEF ServedOK, ActorOK
<1>5. organizations' \subseteq Standards
  <2>1. op = "organization.create" => answer.on \subseteq Standards
    <3> SUFFICES ASSUME op = "organization.create" PROVE answer.on \subseteq Standards
      OBVIOUS
    <3>1. answer = createOrganization(old.actor, o)
      BY DEF Answer
    <3> QED
      BY <3>1 DEF createOrganization, ChangedIf, Refused
  <2>2. organizations' = IF op = "organization.create" THEN organizations \cup answer.on
                         ELSE organizations
    BY DEF Serve
  <2> HIDE DEF answer
  <2> QED
    BY <2>1, <2>2 DEF ManagementInv, ManagementTypeOK
<1> HIDE DEF r
<1> QED
  BY <1>2, <1>4, <1>5, ServingKeeps DEF Serve, ManagementInv, ManagementTypeOK

-----------------------------------------------------------------------------
(* The invariant *)

LEMMA ManagementInitially == ManagementInit => ManagementInv
<1> SUFFICES ASSUME ManagementInit PROVE ManagementInv
  OBVIOUS
<1>1. \A c \in Calls : serving[c] = Unserved /\ ServedOK(serving[c])
  BY UnservedIsOK DEF ManagementInit
<1>2. Unserved.step = "idle" /\ serving = [c \in Calls |-> serving[c]]
  BY DEF Unserved, ManagementInit
<1> QED
  BY <1>1, <1>2, ManagementAssumption DEF ManagementInit, ManagementInv, ManagementTypeOK

LEMMA ManagementInductive == ManagementInv /\ [ManagementNext]_managementVars => ManagementInv'
<1> SUFFICES ASSUME ManagementInv, [ManagementNext]_managementVars PROVE ManagementInv'
  OBVIOUS
<1>1. CASE \E m \in Appointments : Appoint(m) \/ Withdraw(m)
  BY <1>1, ManagementAssumption
     DEF Appoint, Withdraw, ManagementInv, ManagementTypeOK, ServedOK
<1>2. CASE \E o \in Labs : OpenWorkspace(o) \/ EndWorkspace(o) \/ WorkspaceFallsDue(o)
  BY <1>2 DEF OpenWorkspace, EndWorkspace, WorkspaceFallsDue, ManagementInv, ManagementTypeOK,
              ServedOK
<1>3. ASSUME NEW c \in Calls,
             \/ \E who \in Persons \cup {Impostor} : authenticate(c, who) \/ authenticateLab(c, who)
             \/ resolveLabRequestContext(c)
             \/ \E op \in Shared \cup ManagementOnly, o \in Organizations \cup {Nowhere} :
                   Serve(c, op, o)
      PROVE  ManagementInv'
  BY <1>3, AuthenticateKeeps, AuthenticateLabKeeps, ResolveKeeps, ServeKeeps
<1>4. CASE UNCHANGED managementVars
  BY <1>4 DEF managementVars, ManagementInv, ManagementTypeOK, ServedOK
<1> QED
  BY <1>1, <1>2, <1>3, <1>4 DEF ManagementNext

\* What TenantsStaySeparate says of the request r, for a lab's and for another.
LabIsEarned(r) ==
    /\ r.answer.on \subseteq r.held
    /\ \A o \in r.held : o \in Labs /\ Owner[o] = r.who
StandardIsEarned(r) ==
    /\ \A o \in r.answer.on :
          o \in Standards /\ \E m \in r.held : Entitles(m, o, r.answer.kind)
    /\ (r.answer.kind = "changed" /\ r.op \in PlatformOperations) =>
          \E m \in r.held : m.role = "platformAdmin"
    /\ \A role \in r.answer.roles, o \in r.answer.on :
          \E m \in r.held :
             /\ m.role = role
             /\ r.op # "certificate.change" => Entitles(m, o, "changed")
IsEarned(r) == IF r.actor.context = "lab" THEN LabIsEarned(r) ELSE StandardIsEarned(r)

\* What an operation allowed its actor, the caller had earned.
LEMMA AllowedIsEarned ==
    ASSUME NEW r, ActorOK(r), IsAllowed(r.op, r.actor, r.answer)
    PROVE  IsEarned(r)
<1> DEFINE answer == r.answer
           had == r.held
           actor == r.actor
<1>1. ActorOK(r) /\ IsAllowed(r.op, actor, answer)
  OBVIOUS
<1>2. CASE actor.context = "lab"
  <2>1. /\ had \subseteq {o \in Labs : Owner[o] = r.who}
        /\ actor.memberships =
              {[who |-> r.who, role |-> "organizationAdmin", organization |-> o] : o \in had}
    BY <1>1, <1>2 DEF ActorOK
  <2>2. \A m \in actor.memberships : m.role = "organizationAdmin" /\ m.organization \in had
    BY <2>1
  <2>3. \A o \in answer.on : o \in had
    BY <1>1, <2>2 DEF IsAllowed, canReadOrganization, isPlatformAdmin
  <2> QED
    BY <1>2, <2>1, <2>3 DEF IsEarned, LabIsEarned
<1>3. CASE actor.context # "lab"
  <2>1. actor.context = "management" /\ actor.memberships = had
    BY <1>1, <1>3 DEF ActorOK
  <2>2. ASSUME NEW o \in answer.on
        PROVE  o \in Standards /\ \E m \in had : Entitles(m, o, answer.kind)
    BY <1>1, <2>1, <2>2 DEF IsAllowed, Mine, canReadOrganization, canManageOrganization,
                            isPlatformAdmin, Entitles
  <2>3. (answer.kind = "changed" /\ r.op \in PlatformOperations) => \E m \in had : m.role = "platformAdmin"
    BY <1>1, <2>1 DEF IsAllowed, isPlatformAdmin
  <2>4. ASSUME NEW role \in answer.roles, NEW o \in answer.on
        PROVE  \E m \in had :
                  /\ m.role = role
                  /\ r.op # "certificate.change" => Entitles(m, o, "changed")
    <3>1. answer.kind = "changed" /\ canManageOrganization(actor, o)
      BY <1>1, <2>4 DEF IsAllowed
    <3>2. CASE r.op = "certificate.change"
      <4>1. role \in principalRole(actor)
        BY <1>1, <2>4, <3>2 DEF IsAllowed
      <4> QED
        BY <2>1, <3>2, <4>1 DEF principalRole, isPlatformAdmin
    <3>3. CASE r.op # "certificate.change"
      <4>1. role \in actorRole(actor)
        BY <1>1, <2>4, <3>3 DEF IsAllowed
      <4> QED
        BY <2>1, <3>1, <4>1 DEF actorRole, canManageOrganization, isPlatformAdmin, Entitles
    <3> QED
      BY <3>2, <3>3
  <2>5. \A o \in r.answer.on : o \in Standards /\ \E m \in r.held : Entitles(m, o, r.answer.kind)
    BY <2>2
  <2>6. \A role \in r.answer.roles, o \in r.answer.on :
           \E m \in r.held :
              /\ m.role = role
              /\ r.op # "certificate.change" => Entitles(m, o, "changed")
    BY <2>4
  <2>7. (r.answer.kind = "changed" /\ r.op \in PlatformOperations) =>
           \E m \in r.held : m.role = "platformAdmin"
    BY <2>3
  <2>8. r.actor.context # "lab"
    BY <1>3
  <2> QED
    <3>1. StandardIsEarned(r)
      BY <2>5, <2>6, <2>7 DEF StandardIsEarned
    <3> QED
      BY <2>8, <3>1 DEF IsEarned
<1> QED
  BY <1>2, <1>3

LEMMA ManagementIsEarned == ManagementInv => TenantsStaySeparate
<1> SUFFICES ASSUME ManagementInv, NEW c \in Calls, serving[c].step = "answered"
             PROVE  IsEarned(serving[c])
  BY DEF TenantsStaySeparate, IsEarned, LabIsEarned, StandardIsEarned
<1> QED
  BY AllowedIsEarned DEF ManagementInv, ServedOK

LEMMA ManagementInvariant == ManagementSpec => []ManagementInv
<1>1. ManagementInit => ManagementInv
  BY ManagementInitially
<1>2. ManagementInv /\ [ManagementNext]_managementVars => ManagementInv'
  BY ManagementInductive
<1> QED
  BY <1>1, <1>2, PTL DEF ManagementSpec

-----------------------------------------------------------------------------
(***************************************************************************)
(* The proxy playground.  What the page shows may be out of date; what the *)
(* server sends was read again, and a deployment that had ended at the     *)
(* click has not come back since.                                          *)
(***************************************************************************)

CatalogOK ==
    /\ catalog = [rows |-> Rows, live |-> catalog.live, enabled |-> catalog.enabled,
                  changes |-> catalog.changes]
    /\ Rows \in Seq([api : TrialApis, stage : Stages, rev : Nat])
    /\ catalog.live \subseteq DOMAIN Rows /\ catalog.enabled \subseteq TrialApis
    /\ \A r \in DOMAIN Rows : <<Rows[r].api, Rows[r].rev>> \in DOMAIN Contents

\* The page shows deployments there are, perhaps ended, perhaps of another
\* proxy than the one picked.
ViewOK ==
    /\ view = [proxy |-> view.proxy, listed |-> view.listed, deployment |-> view.deployment,
               revision |-> view.revision, operation |-> view.operation,
               proxyLoad |-> view.proxyLoad, revisionLoad |-> view.revisionLoad,
               loading |-> view.loading, trials |-> view.trials]
    /\ view.proxy \in TrialApis /\ view.listed \subseteq DOMAIN Rows
    /\ view.deployment \in view.listed \cup {NoDeployment}
    /\ view.revision \in DOMAIN Contents \cup {NothingShown}
    /\ view.loading \in BOOLEAN

\* A deployment that had ended at the click is never read as live; a proxy
\* read as active was on since; what is to be sent was found executable.
TrialOK ==
    /\ trial = [stage |-> trial.stage, reads |-> trial.reads, active |-> trial.active,
                listed |-> trial.listed, proxy |-> trial.proxy, deployment |-> trial.deployment,
                operation |-> trial.operation, path |-> trial.path, origin |-> trial.origin,
                auth |-> trial.auth, shown |-> trial.shown, mixed |-> trial.mixed,
                ended |-> trial.ended, wasOn |-> trial.wasOn]
    /\ trial.stage \in {"reading", "exchange", "sending"}
    /\ trial.active \in BOOLEAN /\ trial.mixed \in BOOLEAN
    /\ trial.ended \in BOOLEAN /\ trial.wasOn \in BOOLEAN
    /\ trial.deployment \in DOMAIN Rows
    /\ trial.mixed \/ \E o \in Requested : o.method = trial.shown
    /\ \A r \in trial.listed : r \in DOMAIN Rows /\ Rows[r].api = trial.proxy
    /\ trial.ended => trial.deployment \notin catalog.live \cup trial.listed
    /\ trial.active \/ trial.proxy \in catalog.enabled => trial.wasOn
    /\ trial.stage \in {"exchange", "sending"} => Executable

TriedOK == \A q \in tried : q.deployment \in DOMAIN Rows

PlaygroundInv ==
    /\ CatalogOK /\ ViewOK /\ (trial = NoTrial \/ TrialOK)
    /\ TriedOK /\ RequestsAreDeployed

\* Rows are added, never changed; what has ended stays so.
CatalogGrows ==
    /\ DOMAIN Rows \subseteq DOMAIN Rows' /\ \A r \in DOMAIN Rows : Rows'[r] = Rows[r]
    /\ catalog'.live \cap DOMAIN Rows \subseteq catalog.live

-----------------------------------------------------------------------------
LEMMA NoRowIsNone == ASSUME CatalogOK PROVE NoDeployment \notin DOMAIN Rows /\ DOMAIN Rows = 1 .. Len(Rows) /\ Len(Rows) \in Nat
BY DEF CatalogOK, NoDeployment

LEMMA RowsAre ==
    ASSUME CatalogOK, NEW r \in DOMAIN Rows
    PROVE  Rows[r] \in [api : TrialApis, stage : Stages, rev : Nat]
<1> DEFINE S == [api : TrialApis, stage : Stages, rev : Nat]
<1>1. Rows \in Seq(S)
  BY DEF CatalogOK
<1> HIDE DEF S
<1>2. Rows[r] \in S
  BY <1>1
<1> QED
  BY <1>2 DEF S

LEMMA CatalogMovesOn ==
    ASSUME CatalogOK, NEW r, NEW rev, Retire(r) \/ Redeploy(r, rev)
    PROVE  CatalogOK' /\ CatalogGrows /\ catalog'.enabled = catalog.enabled
<1>1. CASE Retire(r)
  BY <1>1 DEF Retire, CatalogOK, CatalogGrows, Rows
<1>2. CASE Redeploy(r, rev)
  <2> DEFINE new == [Rows[r] EXCEPT !.rev = rev]
  <2>1. /\ r \in DOMAIN Rows /\ <<Rows[r].api, rev>> \in DOMAIN Contents
        /\ Rows[r] \in [api : TrialApis, stage : Stages, rev : Nat]
    BY <1>2, RowsAre DEF Redeploy, CatalogOK
  <2>2. rev \in Nat
    BY <2>1, PlaygroundAssumption
  <2>3. new \in [api : TrialApis, stage : Stages, rev : Nat] /\ new.api = Rows[r].api /\ new.rev = rev
    BY <2>1, <2>2
  <2>4. /\ catalog' = [rows |-> Append(Rows, new),
                       live |-> (catalog.live \ {r}) \cup {Len(Rows) + 1},
                       enabled |-> catalog.enabled, changes |-> catalog.changes + 1]
    BY <1>2 DEF Redeploy, CatalogOK, Rows
  <2>5. Rows' = Append(Rows, new)
    BY <2>4 DEF Rows
  <2> HIDE DEF new
  <2>6. Len(Rows) \in Nat /\ DOMAIN Rows = 1 .. Len(Rows) /\ DOMAIN Rows' = 1 .. Len(Rows) + 1
    BY <2>3, <2>5 DEF CatalogOK
  <2>7. \A q \in DOMAIN Rows : Rows'[q] = Rows[q]
    BY <2>3, <2>5 DEF CatalogOK
  <2>8. Rows'[Len(Rows) + 1] = new /\ Rows' \in Seq([api : TrialApis, stage : Stages, rev : Nat])
    BY <2>3, <2>5 DEF CatalogOK
  <2>9. ASSUME NEW q \in DOMAIN Rows' PROVE <<Rows'[q].api, Rows'[q].rev>> \in DOMAIN Contents
    <3>1. CASE q \in DOMAIN Rows
      BY <2>7, <3>1 DEF CatalogOK
    <3>2. CASE q = Len(Rows) + 1
      BY <2>1, <2>3, <2>8, <3>2
    <3> QED
      BY <2>6, <3>1, <3>2
  <2>10. catalog'.live \subseteq DOMAIN Rows'
    BY <2>4, <2>6 DEF CatalogOK
  <2>11. CatalogOK'
    BY <2>4, <2>5, <2>8, <2>9, <2>10 DEF CatalogOK
  <2> QED
    BY <2>4, <2>6, <2>7, <2>11 DEF CatalogGrows
<1> QED
  BY <1>1, <1>2

LEMMA ViewStays ==
    ASSUME ViewOK, CatalogGrows, view' = view
    PROVE  ViewOK'
BY DEF ViewOK, CatalogGrows, NoDeployment

LEMMA RevisionStays ==
    ASSUME CatalogOK, CatalogGrows, NEW api, NEW r \in DOMAIN Rows
    PROVE  RevisionOf(api, r)' = RevisionOf(api, r)
BY NoRowIsNone DEF RevisionOf, CatalogGrows, NoDeployment

LEMMA TrialStays ==
    ASSUME CatalogOK, TrialOK, CatalogGrows, catalog'.enabled = catalog.enabled,
           trial' = trial
    PROVE  TrialOK'
<1>1. Requested' = Requested
  BY RevisionStays DEF Requested, TrialOK
<1>2. \A o : validatePlaygroundTarget(o)' <=> validatePlaygroundTarget(o)
  BY DEF validatePlaygroundTarget, TrialOK, CatalogGrows
<1>3. Executable => Executable'
  BY <1>1, <1>2 DEF Executable
<1>4. \A r \in trial'.listed : r \in DOMAIN Rows' /\ Rows'[r].api = trial'.proxy
  BY DEF TrialOK, CatalogGrows
<1>5. trial'.ended => trial'.deployment \notin catalog'.live \cup trial'.listed
  BY DEF TrialOK, CatalogGrows
<1>6. trial'.mixed \/ \E o \in Requested' : o.method = trial'.shown
  BY <1>1 DEF TrialOK
<1>7. trial'.deployment \in DOMAIN Rows'
  BY DEF TrialOK, CatalogGrows
<1> QED
  BY <1>3, <1>4, <1>5, <1>6, <1>7 DEF TrialOK

LEMMA TriedStays ==
    ASSUME TriedOK, RequestsAreDeployed, CatalogGrows, tried' = tried
    PROVE  TriedOK' /\ RequestsAreDeployed'
<1>1. ASSUME NEW q \in tried
      PROVE  (IsAsShown(q) => IsAsShown(q)') /\ (IsOfDeployment(q) => IsOfDeployment(q)')
  <2>1. q.deployment \in DOMAIN Rows' /\ Rows'[q.deployment] = Rows[q.deployment]
    BY <1>1 DEF TriedOK, CatalogGrows
  <2>2. IsAsShown(q) => IsAsShown(q)'
    BY <2>1 DEF IsAsShown, OperationsOf
  <2>3. IsOfDeployment(q) => IsOfDeployment(q)'
    BY <2>1 DEF IsOfDeployment, OperationsOf
  <2> QED
    BY <2>2, <2>3
<1> QED
  BY <1>1 DEF TriedOK, RequestsAreDeployed, CatalogGrows

LEMMA OneMoreTried ==
    ASSUME TriedOK, RequestsAreDeployed, Rows' = Rows, NEW q, q.deployment \in DOMAIN Rows,
           IF q.direct THEN IsAsShown(q) ELSE IsOfDeployment(q),
           tried' = tried \cup {q}
    PROVE  TriedOK' /\ RequestsAreDeployed'
<1>1. ASSUME NEW r
      PROVE  (IsAsShown(r) => IsAsShown(r)') /\ (IsOfDeployment(r) => IsOfDeployment(r)')
  <2>1. IsAsShown(r) => IsAsShown(r)'
    BY DEF IsAsShown, OperationsOf
  <2>2. IsOfDeployment(r) => IsOfDeployment(r)'
    BY DEF IsOfDeployment, OperationsOf
  <2> QED
    BY <2>1, <2>2
<1>2. ASSUME NEW r \in tried'
      PROVE  IF r.direct THEN IsAsShown(r)' ELSE IsOfDeployment(r)'
  <2>1. IF r.direct THEN IsAsShown(r) ELSE IsOfDeployment(r)
    BY <1>2 DEF RequestsAreDeployed
  <2> QED
    BY <1>1, <2>1
<1>3. RequestsAreDeployed'
  BY <1>2 DEF RequestsAreDeployed
<1>4. TriedOK'
  BY DEF TriedOK
<1> QED
  BY <1>3, <1>4

LEMMA SameCatalog ==
    ASSUME catalog' = catalog
    PROVE  CatalogGrows /\ (CatalogOK => CatalogOK') /\ catalog'.enabled = catalog.enabled
BY DEF CatalogGrows, Rows, CatalogOK

-----------------------------------------------------------------------------
\* The page's own steps.

LEMMA PageStays ==
    ASSUME PlaygroundInv, catalog' = catalog, tried' = tried, trial' = trial, ViewOK'
    PROVE  PlaygroundInv'
BY SameCatalog, TrialStays, TriedStays DEF PlaygroundInv

LEMMA FirstIsActive ==
    ASSUME CatalogOK, NEW living \in SUBSET DOMAIN Rows, living # {}
    PROVE  (CHOOSE r \in living : \A s \in living : Rows[r].stage <= Rows[s].stage) \in living
<1> DEFINE stages == {Rows[r].stage : r \in living}
<1>1. \A r \in DOMAIN Rows : Rows[r].stage \in Nat
  BY PlaygroundAssumption, RowsAre
<1>2. stages \in SUBSET Nat /\ stages # {}
  BY <1>1
<1>3. PICK n \in stages : \A m \in stages : n <= m
  <2> HIDE DEF stages
  <2> QED
    BY <1>2, LeastNatural
<1>4. \E r \in living : \A s \in living : Rows[r].stage <= Rows[s].stage
  BY <1>3
<1> QED
  BY <1>4

LEMMA PageKeeps ==
    ASSUME PlaygroundInv,
           \/ \E api \in TrialApis : PickProxy(api)
           \/ \E r \in DOMAIN Rows : PickDeployment(r)
           \/ ProxyLoaded \/ RevisionLoaded \/ LoadFails
           \/ \E operation \in OperationsOf(view.revision) : PickOperation(operation)
    PROVE  PlaygroundInv'
<1>1. CatalogOK /\ ViewOK
  BY DEF PlaygroundInv
<1>2. ASSUME NEW api \in TrialApis, PickProxy(api) PROVE PlaygroundInv'
  <2>1. ViewOK'
    BY <1>1, <1>2 DEF PickProxy, ViewOK, Rows
  <2> QED
    BY <1>2, <2>1, PageStays DEF PickProxy
<1>3. ASSUME NEW r \in DOMAIN Rows, PickDeployment(r) PROVE PlaygroundInv'
  <2>1. ViewOK'
    BY <1>1, <1>3 DEF PickDeployment, ViewOK, Rows
  <2> QED
    BY <1>3, <2>1, PageStays DEF PickDeployment
<1>4. CASE ProxyLoaded
  <2> DEFINE living == DeploymentsOf(view.proxyLoad) \cap catalog.live
             first == Selected(living)
             load == RevisionOf(view.proxy, first)
  <2>1. living \subseteq DOMAIN Rows
    BY DEF DeploymentsOf
  <2>2. first \in living \cup {NoDeployment}
    BY <1>1, <2>1, FirstIsActive DEF Selected, Earliest
  <2>3. /\ view' = [view EXCEPT
                     !.proxyLoad = NothingShown, !.listed = living, !.deployment = first,
                     !.revision = IF first = NoDeployment THEN NothingShown ELSE @,
                     !.revisionLoad = load,
                     !.loading = first # NoDeployment /\ ~Out(view.revisionLoad)]
        /\ UNCHANGED <<catalog, trial, tried>>
    BY <1>4 DEF ProxyLoaded
  <2> HIDE DEF living, first, load
  <2>4. ViewOK'
    BY <1>1, <2>1, <2>2, <2>3 DEF ViewOK, Rows
  <2> QED
    BY <2>3, <2>4, PageStays
<1>5. CASE RevisionLoaded
  <2>1. ViewOK'
    BY <1>1, <1>5 DEF RevisionLoaded, ViewOK, Rows
  <2> QED
    BY <1>5, <2>1, PageStays DEF RevisionLoaded
<1>6. CASE LoadFails
  <2>1. ViewOK'
    BY <1>1, <1>6 DEF LoadFails, ViewOK, Rows
  <2> QED
    BY <1>6, <2>1, PageStays DEF LoadFails
<1>7. ASSUME NEW operation \in OperationsOf(view.revision), PickOperation(operation)
      PROVE  PlaygroundInv'
  <2>1. ViewOK'
    BY <1>1, <1>7 DEF PickOperation, ViewOK, Rows
  <2> QED
    BY <1>7, <2>1, PageStays DEF PickOperation
<1> QED
  BY <1>2, <1>3, <1>4, <1>5, <1>6, <1>7

-----------------------------------------------------------------------------
\* The requests.

LEMMA OneOfAnId ==
    ASSUME NEW key, NEW o \in OperationsOf(key), NEW p \in OperationsOf(key), o.id = p.id
    PROVE  o = p
BY PlaygroundAssumption DEF OperationsOf

LEMMA RunKeeps ==
    ASSUME PlaygroundInv, NEW operation, NEW auth, runRequest(operation, auth)
    PROVE  PlaygroundInv'
<1>1. CatalogOK /\ ViewOK /\ TriedOK /\ RequestsAreDeployed
  BY DEF PlaygroundInv
<1>2. /\ view.deployment # NoDeployment
      /\ operation \in OperationsOf(view.revision) /\ operation.id = view.operation
      /\ view' = [view EXCEPT !.trials = @ + 1]
      /\ trial' = [stage |-> "reading", reads |-> {}, active |-> FALSE, listed |-> {},
                 proxy |-> view.proxy, deployment |-> view.deployment,
                 operation |-> view.operation, path |-> operation.path,
                 origin |-> Rows[view.deployment].stage, auth |-> auth,
                 shown |-> operation.method,
                 mixed |-> view.revision # RevisionOf(view.proxy, view.deployment),
                 ended |-> view.deployment \notin catalog.live,
                 wasOn |-> view.proxy \in catalog.enabled]
      /\ UNCHANGED <<catalog, tried>>
  BY DEF runRequest
<1>3. CatalogOK' /\ CatalogGrows /\ TriedOK' /\ RequestsAreDeployed'
  BY <1>1, <1>2, SameCatalog, TriedStays
<1>4. ViewOK'
  BY <1>1, <1>2 DEF ViewOK, Rows
<1>5. view.deployment \in DOMAIN Rows
  BY <1>1, <1>2 DEF ViewOK
<1>6. trial'.mixed \/ \E o \in Requested' : o.method = trial'.shown
  <2>1. SUFFICES ASSUME view.revision = RevisionOf(view.proxy, view.deployment)
                 PROVE  operation \in Requested' /\ operation.method = trial'.shown
    BY <1>2
  <2>2. Requested' = {o \in OperationsOf(view.revision) : o.id = view.operation}
    BY <1>2, <2>1 DEF Requested, RevisionOf, Rows, OperationsOf
  <2> QED
    BY <1>2, <2>2
<1>7. /\ trial'.mixed \in BOOLEAN /\ trial'.ended \in BOOLEAN /\ trial'.wasOn \in BOOLEAN
      /\ trial'.active \/ trial'.proxy \in catalog'.enabled => trial'.wasOn
      /\ trial'.ended => trial'.deployment \notin catalog'.live
  <2> DEFINE mix == view.revision # RevisionOf(view.proxy, view.deployment)
             over == view.deployment \notin catalog.live
             was == view.proxy \in catalog.enabled
  <2>1. /\ trial'.mixed = mix /\ trial'.ended = over /\ trial'.wasOn = was
        /\ trial'.active = FALSE /\ trial'.proxy = view.proxy
        /\ trial'.deployment = view.deployment /\ catalog' = catalog
    BY <1>2
  <2>2. /\ mix \in BOOLEAN /\ over \in BOOLEAN /\ was \in BOOLEAN
        /\ (over => view.deployment \notin catalog.live)
        /\ (view.proxy \in catalog.enabled => was)
    OBVIOUS
  <2> HIDE DEF mix, over, was
  <2> QED
    BY <2>1, <2>2
<1>8. TrialOK'
  BY <1>2, <1>5, <1>6, <1>7 DEF TrialOK, Rows
<1> QED
  BY <1>3, <1>4, <1>8 DEF PlaygroundInv

LEMMA ReadsKeep ==
    ASSUME PlaygroundInv, ReadProxy \/ ReadDeployments
    PROVE  PlaygroundInv'
<1>1. CatalogOK /\ ViewOK /\ TriedOK /\ RequestsAreDeployed
  BY DEF PlaygroundInv
<1>2. TrialOK /\ trial.stage = "reading"
  BY DEF PlaygroundInv, ReadProxy, ReadDeployments, NoTrial
<1>3. UNCHANGED <<catalog, view, tried>>
  BY DEF ReadProxy, ReadDeployments
<1>4. CatalogOK' /\ CatalogGrows /\ TriedOK' /\ RequestsAreDeployed' /\ ViewOK'
  BY <1>1, <1>3, SameCatalog, TriedStays, ViewStays
<1>5. PICK reads, enabled, listed :
         /\ trial' = [trial EXCEPT !.reads = reads, !.active = enabled, !.listed = listed]
         /\ enabled \in BOOLEAN /\ (enabled => trial.active \/ trial.proxy \in catalog.enabled)
         /\ \/ listed = trial.listed
            \/ listed = DeploymentsOf(trial.proxy) \cap catalog.live
  <2>1. CASE ReadProxy
    <3> DEFINE enabled == trial.proxy \in catalog.enabled
    <3>1. trial' = [trial EXCEPT !.reads = @ \cup {"proxy"}, !.active = enabled]
      BY <2>1 DEF ReadProxy
    <3>2. enabled \in BOOLEAN /\ (enabled => trial.proxy \in catalog.enabled)
      OBVIOUS
    <3> HIDE DEF enabled
    <3>3. trial' = [trial EXCEPT !.reads = trial.reads \cup {"proxy"}, !.active = enabled,
                                 !.listed = trial.listed]
      BY <1>2, <3>1 DEF TrialOK
    <3> QED
      BY <3>2, <3>3
  <2>2. CASE ReadDeployments
    <3> DEFINE listed == DeploymentsOf(trial.proxy) \cap catalog.live
    <3>1. trial' = [trial EXCEPT !.reads = @ \cup {"deployments"}, !.listed = listed]
      BY <2>2 DEF ReadDeployments
    <3> HIDE DEF listed
    <3>2. trial' = [trial EXCEPT !.reads = trial.reads \cup {"deployments"},
                                 !.active = trial.active, !.listed = listed]
      BY <1>2, <3>1 DEF TrialOK
    <3> QED
      BY <1>2, <3>2 DEF TrialOK, listed
  <2> QED
    BY <2>1, <2>2
<1>6. trial' = [stage |-> "reading", reads |-> reads, active |-> enabled,
                listed |-> listed, proxy |-> trial.proxy, deployment |-> trial.deployment,
                operation |-> trial.operation, path |-> trial.path, origin |-> trial.origin,
                auth |-> trial.auth, shown |-> trial.shown, mixed |-> trial.mixed,
                ended |-> trial.ended, wasOn |-> trial.wasOn]
  BY <1>2, <1>5 DEF TrialOK
<1>7. Requested' = Requested
  BY <1>3, <1>6 DEF Requested, RevisionOf, Rows, OperationsOf
<1>8. \A r \in trial'.listed : r \in DOMAIN Rows' /\ Rows'[r].api = trial'.proxy
  BY <1>2, <1>3, <1>5, <1>6 DEF TrialOK, DeploymentsOf, Rows
<1>9. /\ trial'.ended => trial'.deployment \notin catalog'.live \cup trial'.listed
      /\ trial'.active \/ trial'.proxy \in catalog'.enabled => trial'.wasOn
  BY <1>2, <1>3, <1>5, <1>6 DEF TrialOK, DeploymentsOf
<1>10. trial'.mixed \/ \E o \in Requested' : o.method = trial'.shown
  BY <1>2, <1>6, <1>7 DEF TrialOK
<1>11. TrialOK'
  BY <1>2, <1>3, <1>5, <1>6, <1>8, <1>9, <1>10 DEF TrialOK, Rows
<1> QED
  BY <1>4, <1>11 DEF PlaygroundInv

LEMMA DecisionKeeps ==
    ASSUME PlaygroundInv, ReadRevision
    PROVE  PlaygroundInv'
<1>1. CatalogOK /\ ViewOK /\ TriedOK /\ RequestsAreDeployed
  BY DEF PlaygroundInv
<1>2. TrialOK /\ trial.stage = "reading" /\ UNCHANGED <<catalog, view, tried>>
  BY DEF PlaygroundInv, ReadRevision, NoTrial
<1>3. CatalogOK' /\ CatalogGrows /\ TriedOK' /\ RequestsAreDeployed' /\ ViewOK'
  BY <1>1, <1>2, SameCatalog, TriedStays, ViewStays
<1>4. CASE trial' = NoTrial
  BY <1>3, <1>4 DEF PlaygroundInv
<1>5. CASE trial' # NoTrial
  <2>1. /\ Executable
        /\ trial' = [trial EXCEPT !.stage = "exchange"] \/ trial' = [trial EXCEPT !.stage = "sending"]
    BY <1>5 DEF ReadRevision
  <2>2. Requested' = Requested
    BY <1>2, <2>1 DEF Requested, TrialOK, RevisionOf, Rows, OperationsOf
  <2>3. \A o : validatePlaygroundTarget(o)' <=> validatePlaygroundTarget(o)
    BY <1>2, <2>1 DEF validatePlaygroundTarget, TrialOK, Rows
  <2>4. Executable'
    BY <1>2, <2>1, <2>2, <2>3 DEF Executable, TrialOK
  <2>5. TrialOK'
    BY <1>2, <2>1, <2>2, <2>4 DEF TrialOK, Rows
  <2> QED
    BY <1>3, <2>5 DEF PlaygroundInv
<1> QED
  BY <1>4, <1>5

\* What is about to be sent is for a live deployment of the proxy picked.
LEMMA ToBeSentIsDeployed ==
    ASSUME CatalogOK, TrialOK, trial.stage \in {"exchange", "sending"}
    PROVE  /\ trial.deployment \in DOMAIN Rows /\ Rows[trial.deployment].api = trial.proxy
           /\ Rows[trial.deployment].stage = trial.origin /\ ~trial.ended /\ trial.wasOn
           /\ Requested = {o \in OperationsOf(<<trial.proxy, Rows[trial.deployment].rev>>) :
                              o.id = trial.operation}
           /\ \E o \in Requested : /\ trial.auth \in Compatible(authenticationRequirement(o))
                                    /\ o.path = trial.path
<1>1. Executable /\ trial.deployment \in DOMAIN Rows
  BY DEF TrialOK
<1>2. trial.deployment # NoDeployment
  BY <1>1, NoRowIsNone
<1>3. /\ trial.active /\ trial.deployment \in trial.listed
      /\ \E o \in Requested : /\ trial.auth \in Compatible(authenticationRequirement(o))
                               /\ validatePlaygroundTarget(o)
  BY <1>1 DEF Executable
<1>4. Rows[trial.deployment].api = trial.proxy /\ ~trial.ended /\ trial.wasOn
  BY <1>3 DEF TrialOK
<1> QED
  BY <1>1, <1>2, <1>3, <1>4 DEF validatePlaygroundTarget, Requested, RevisionOf

LEMMA ExchangeOfTokenKeeps ==
    ASSUME PlaygroundInv, exchangeAccessToken
    PROVE  PlaygroundInv'
<1>1. CatalogOK /\ ViewOK /\ TriedOK /\ RequestsAreDeployed
  BY DEF PlaygroundInv
<1>2. TrialOK /\ trial.stage = "exchange" /\ UNCHANGED <<catalog, view>>
      /\ tried' = tried \cup {GatewayRequest("POST", "token")}
  BY DEF PlaygroundInv, exchangeAccessToken, NoTrial
<1>3. CatalogOK' /\ CatalogGrows /\ ViewOK' /\ Rows' = Rows
  BY <1>1, <1>2, SameCatalog, ViewStays DEF Rows
<1>4. TriedOK' /\ RequestsAreDeployed'
  <2>1. PICK asked : asked = GatewayRequest("POST", "token")
    OBVIOUS
  <2>2. IsOfDeployment(asked) /\ asked.direct = FALSE /\ asked.deployment \in DOMAIN Rows
    BY <1>1, <1>2, <2>1, ToBeSentIsDeployed DEF IsOfDeployment, GatewayRequest
  <2>3. tried' = tried \cup {asked}
    BY <1>2, <2>1
  <2> QED
    BY <1>1, <1>3, <2>2, <2>3, OneMoreTried
<1>5. CASE trial' = NoTrial
  BY <1>3, <1>4, <1>5 DEF PlaygroundInv
<1>6. CASE trial' = [trial EXCEPT !.stage = "sending"]
  <2>1. Requested' = Requested
    BY <1>2, <1>6 DEF Requested, TrialOK, RevisionOf, Rows, OperationsOf
  <2>2. \A o : validatePlaygroundTarget(o)' <=> validatePlaygroundTarget(o)
    BY <1>2, <1>6 DEF validatePlaygroundTarget, TrialOK, Rows
  <2>3. Executable'
    BY <1>2, <1>6, <2>1, <2>2 DEF Executable, TrialOK
  <2>4. TrialOK'
    BY <1>2, <1>6, <2>1, <2>3 DEF TrialOK, Rows
  <2> QED
    BY <1>3, <1>4, <2>4 DEF PlaygroundInv
<1> QED
  BY <1>5, <1>6 DEF exchangeAccessToken

LEMMA TrialSentKeeps ==
    ASSUME PlaygroundInv, SendToGateway
    PROVE  PlaygroundInv'
<1>1. CatalogOK /\ ViewOK /\ TriedOK /\ RequestsAreDeployed
  BY DEF PlaygroundInv
<1>2. TrialOK /\ trial.stage = "sending" /\ UNCHANGED <<catalog, view>> /\ trial' = NoTrial
  BY DEF PlaygroundInv, SendToGateway, NoTrial
<1>3. PICK operation \in Requested :
         tried' = tried \cup {GatewayRequest(
            IF authenticationRequirement(operation) = "oauthToken" THEN "POST"
            ELSE operation.method, trial.path)}
  BY Zenon DEF SendToGateway
<1>4. CatalogOK' /\ CatalogGrows /\ ViewOK' /\ Rows' = Rows
  BY <1>1, <1>2, SameCatalog, ViewStays DEF Rows
<1>10. PICK asked : asked = GatewayRequest(
            IF authenticationRequirement(operation) = "oauthToken" THEN "POST"
            ELSE operation.method, trial.path)
  OBVIOUS
<1> DEFINE key == <<trial.proxy, Rows[trial.deployment].rev>>
<1>5. /\ asked.proxy = trial.proxy /\ asked.deployment = trial.deployment
      /\ asked.origin = trial.origin /\ asked.operation = trial.operation
      /\ asked.path = trial.path /\ asked.auth = trial.auth /\ asked.shown = trial.shown
      /\ asked.mixed = trial.mixed /\ asked.ended = trial.ended
      /\ asked.wasOn = trial.wasOn /\ asked.direct = FALSE
      /\ asked.method = IF authenticationRequirement(operation) = "oauthToken" THEN "POST"
                          ELSE operation.method
  BY <1>10 DEF GatewayRequest
<1>6. /\ operation \in OperationsOf(key) /\ operation.id = trial.operation
      /\ \A o \in Requested : o = operation
  BY <1>1, <1>2, <1>3, ToBeSentIsDeployed, OneOfAnId
<1>7. /\ trial.auth \in Compatible(authenticationRequirement(operation))
      /\ operation.path = trial.path
      /\ trial.shown = operation.method \/ trial.mixed
  BY <1>1, <1>2, <1>6, ToBeSentIsDeployed DEF TrialOK
<1>8. tried' = tried \cup {asked}
  BY <1>3, <1>10
<1>9. TriedOK' /\ RequestsAreDeployed'
  <2>1. IsOfDeployment(asked)
    BY <1>1, <1>2, <1>5, <1>6, <1>7, ToBeSentIsDeployed DEF IsOfDeployment
  <2> QED
    BY <1>1, <1>2, <1>4, <1>5, <1>8, <2>1, OneMoreTried DEF TrialOK
<1> QED
  BY <1>2, <1>4, <1>9 DEF PlaygroundInv

-----------------------------------------------------------------------------
LEMMA SwitchKeeps ==
    ASSUME PlaygroundInv, NEW api, updateApiProxy(api)
    PROVE  PlaygroundInv'
<1> DEFINE on == (catalog.enabled \ {api}) \cup ({api} \ catalog.enabled)
<1>1. CatalogOK /\ ViewOK /\ TriedOK /\ RequestsAreDeployed
  BY DEF PlaygroundInv
<1>2. /\ api \in TrialApis /\ UNCHANGED <<view, tried>>
      /\ catalog' = [catalog EXCEPT !.enabled = on, !.changes = @ + 1]
      /\ trial' = IF trial = NoTrial THEN NoTrial
                  ELSE [trial EXCEPT !.wasOn = @ \/ trial.proxy \in on]
  BY DEF updateApiProxy
<1>3. on \subseteq TrialApis
  BY <1>1, <1>2 DEF CatalogOK
<1> HIDE DEF on
<1>4. /\ catalog' = [rows |-> Rows, live |-> catalog.live, enabled |-> on,
                      changes |-> catalog.changes + 1]
      /\ catalog'.enabled = on /\ catalog'.live = catalog.live /\ Rows' = Rows
  BY <1>1, <1>2 DEF CatalogOK, Rows
<1>5. CatalogOK' /\ CatalogGrows
  BY <1>1, <1>3, <1>4 DEF CatalogOK, CatalogGrows
<1>6. ViewOK' /\ TriedOK' /\ RequestsAreDeployed'
  BY <1>1, <1>2, <1>5, ViewStays, TriedStays
<1>7. ASSUME trial # NoTrial PROVE TrialOK'
  <2>1. TrialOK
    BY <1>7 DEF PlaygroundInv
  <2> DEFINE now == trial.wasOn \/ trial.proxy \in on
  <2>2. now \in BOOLEAN
    BY <2>1 DEF TrialOK
  <2>3. trial' = [trial EXCEPT !.wasOn = now]
    BY <1>2, <1>7
  <2>4. now <=> trial.wasOn \/ trial.proxy \in on
    OBVIOUS
  <2> HIDE DEF now
  <2>5. trial' = [stage |-> trial.stage, reads |-> trial.reads, active |-> trial.active,
                listed |-> trial.listed, proxy |-> trial.proxy, deployment |-> trial.deployment,
                operation |-> trial.operation, path |-> trial.path, origin |-> trial.origin,
                auth |-> trial.auth, shown |-> trial.shown, mixed |-> trial.mixed,
                ended |-> trial.ended, wasOn |-> now]
    BY <2>1, <2>3 DEF TrialOK
  <2>6. Requested' = Requested
    BY <1>4, <2>5 DEF Requested, RevisionOf, OperationsOf
  <2>7. \A o : validatePlaygroundTarget(o)' <=> validatePlaygroundTarget(o)
    BY <1>4, <2>5 DEF validatePlaygroundTarget
  <2>8. Executable => Executable'
    BY <2>5, <2>6, <2>7 DEF Executable
  <2>9. trial'.mixed \/ \E o \in Requested' : o.method = trial'.shown
    BY <2>1, <2>5, <2>6 DEF TrialOK
  <2>10. trial'.active \/ trial'.proxy \in catalog'.enabled => trial'.wasOn
    BY <1>4, <2>1, <2>4, <2>5 DEF TrialOK
  <2>11. /\ \A r \in trial'.listed : r \in DOMAIN Rows' /\ Rows'[r].api = trial'.proxy
         /\ trial'.ended => trial'.deployment \notin catalog'.live \cup trial'.listed
    BY <1>4, <2>1, <2>5 DEF TrialOK
  <2> QED
    BY <1>4, <2>1, <2>2, <2>5, <2>8, <2>9, <2>10, <2>11 DEF TrialOK
<1>8. trial = NoTrial => trial' = NoTrial
  BY <1>2
<1> QED
  BY <1>5, <1>6, <1>7, <1>8 DEF PlaygroundInv

LEMMA DirectKeeps ==
    ASSUME PlaygroundInv, NEW operation, NEW path, runLocalMtlsRequest(operation, path)
    PROVE  PlaygroundInv'
<1>1. CatalogOK /\ ViewOK /\ TriedOK /\ RequestsAreDeployed
  BY DEF PlaygroundInv
<1>2. /\ view.deployment # NoDeployment
      /\ operation \in OperationsOf(view.revision) /\ operation.id = view.operation
      /\ authenticationRequirement(operation) = "mtls" /\ path \in {operation.path, Typed}
      /\ view' = [view EXCEPT !.trials = @ + 1]
      /\ UNCHANGED <<catalog, trial>>
  BY DEF runLocalMtlsRequest
<1>3. PICK run :
         /\ run = [direct |-> TRUE, proxy |-> view.proxy, deployment |-> view.deployment,
                   origin |-> Rows[view.deployment].stage,
                   operation |-> view.operation, method |-> operation.method, path |-> path,
                   auth |-> "certificate", shown |-> operation.method,
                   mixed |-> view.revision # <<Rows[view.deployment].api,
                                              Rows[view.deployment].rev>>,
                   ended |-> view.deployment \notin catalog.live,
                   wasOn |-> view.proxy \in catalog.enabled]
         /\ tried' = tried \cup {run}
  BY DEF runLocalMtlsRequest
<1>4. CatalogOK' /\ CatalogGrows /\ Rows' = Rows /\ (TrialOK => TrialOK')
  BY <1>1, <1>2, SameCatalog, TrialStays DEF Rows
<1>5. ViewOK' /\ view.deployment \in DOMAIN Rows
  BY <1>1, <1>2, <1>4 DEF ViewOK
<1>6. run.direct /\ run.deployment \in DOMAIN Rows /\ IsAsShown(run)
  BY <1>2, <1>3, <1>5 DEF IsAsShown
<1>7. TriedOK' /\ RequestsAreDeployed'
  BY <1>1, <1>3, <1>4, <1>6, OneMoreTried
<1> QED
  BY <1>2, <1>4, <1>5, <1>7 DEF PlaygroundInv

LEMMA PlaygroundInitially == PlaygroundInit => PlaygroundInv
<1> SUFFICES ASSUME PlaygroundInit PROVE PlaygroundInv
  OBVIOUS
<1>1. CatalogOK
  BY PlaygroundAssumption DEF PlaygroundInit, CatalogOK, Rows
<1>2. ViewOK
  BY DEF PlaygroundInit, ViewOK, NoDeployment
<1> QED
  BY <1>1, <1>2 DEF PlaygroundInit, PlaygroundInv, TriedOK, RequestsAreDeployed

LEMMA PlaygroundInductive == PlaygroundInv /\ [PlaygroundNext]_playgroundVars => PlaygroundInv'
<1> SUFFICES ASSUME PlaygroundInv, [PlaygroundNext]_playgroundVars PROVE PlaygroundInv'
  OBVIOUS
<1>1. ASSUME CatalogOK' /\ CatalogGrows, catalog'.enabled = catalog.enabled,
             UNCHANGED <<view, trial, tried>>
      PROVE  PlaygroundInv'
  BY <1>1, ViewStays, TrialStays, TriedStays DEF PlaygroundInv
<1>2. CASE UNCHANGED playgroundVars
  BY <1>1, <1>2, SameCatalog DEF playgroundVars, PlaygroundInv
<1>3. ASSUME NEW r, NEW rev, Retire(r) \/ Redeploy(r, rev)
      PROVE  PlaygroundInv'
  <2>1. UNCHANGED <<view, trial, tried>>
    BY <1>3 DEF Retire, Redeploy
  <2> QED
    BY <1>1, <1>3, <2>1, CatalogMovesOn DEF PlaygroundInv
<1>4. CASE PlaygroundNext
  <2>1. \/ \E r, rev : Retire(r) \/ Redeploy(r, rev)
        \/ \E api : updateApiProxy(api)
        \/ \/ \E api \in TrialApis : PickProxy(api)
           \/ \E r \in DOMAIN Rows : PickDeployment(r)
           \/ ProxyLoaded \/ RevisionLoaded \/ LoadFails
           \/ \E operation \in OperationsOf(view.revision) : PickOperation(operation)
        \/ \E operation, auth : runRequest(operation, auth)
        \/ \E operation, path : runLocalMtlsRequest(operation, path)
        \/ ReadProxy \/ ReadDeployments
        \/ ReadRevision
        \/ exchangeAccessToken
        \/ SendToGateway
    BY <1>4, Zenon DEF PlaygroundNext
  <2> QED
    BY <1>3, <2>1, SwitchKeeps, PageKeeps, RunKeeps, DirectKeeps, ReadsKeep, DecisionKeeps,
       ExchangeOfTokenKeeps, TrialSentKeeps
<1> QED
  BY <1>2, <1>4

-----------------------------------------------------------------------------
(***************************************************************************)
(* The lab's certificates.  A renewal installs a certificate nobody has seen *)
(* and revokes one nobody carries any more.                                *)
(***************************************************************************)

Certificates == [key : LocalKeys, status : {"approved", "revoked"}]

\* An identity's certificate, if it has one, was issued for its key.
Certified(identities) ==
    /\ identities = [k \in DOMAIN identities |-> identities[k]]
    /\ DOMAIN identities \subseteq LocalKeys
    /\ \A k \in DOMAIN identities :
          \/ identities[k] \in DOMAIN issued /\ issued[identities[k]].key = k
          \/ identities[k] = NoCertificate

\* Certificates that a renewal replaces, one it is about to install and one
\* it has replaced and may revoke.
Previous(t) ==
    IF tab[t].task.step \in {"issue", "install", "reread", "revoke"}
    THEN {tab[t].task.previous} ELSE {}
Coming(t) == IF tab[t].task.step = "install" THEN {tab[t].task.certificate} ELSE {}
Replaced(t) ==
    IF tab[t].task.step \in {"reread", "revoke"} THEN {tab[t].task.previous} \ {NoCertificate}
    ELSE {}

Carried == {installed[k] : k \in DOMAIN installed}
ShownBy(t) == {tab[t].identities[k] : k \in DOMAIN tab[t].identities}

Renews(task) ==
    /\ task.key \in LocalKeys /\ task.revoking \in BOOLEAN
    /\ \/ task.previous = NoCertificate /\ ~task.revoking
       \/ task.previous \in DOMAIN issued /\ issued[task.previous].key = task.key

TaskOK(task) ==
    \/ task = Quiet \/ task = [step |-> "list"]
    \/ task = [step |-> "refresh", key |-> task.key]
    \/ /\ task = [step |-> "issue", key |-> task.key, previous |-> task.previous,
                  revoking |-> task.revoking]
       /\ Renews(task)
    \/ /\ task = [step |-> task.step, key |-> task.key, previous |-> task.previous,
                  revoking |-> task.revoking, certificate |-> task.certificate]
       /\ task.step \in {"install", "reread", "revoke", "list"} /\ Renews(task)
       /\ task.certificate \in DOMAIN issued /\ issued[task.certificate].key = task.key
       /\ task.step = "revoke" => task.revoking

TabOK(t) ==
    /\ tab[t] = [identities |-> tab[t].identities, key |-> tab[t].key,
                 certificates |-> tab[t].certificates, task |-> tab[t].task]
    /\ Certified(tab[t].identities)
    /\ tab[t].certificates \in Seq(Certificates) /\ Len(tab[t].certificates) <= Len(issued)
    /\ TaskOK(tab[t].task)

PlatformOK ==
    /\ issued \in Seq(Certificates) /\ askedFor \subseteq DOMAIN issued
    /\ Certified(installed) /\ DOMAIN installed \subseteq generated /\ generated \subseteq LocalKeys
    /\ \A c \in Carried \ {NoCertificate} : issued[c].status = "approved" \/ c \in askedFor
    /\ tab = [t \in LabTabs |-> tab[t]]

\* A certificate to be installed is as issued: nobody has seen it yet.  One
\* that was replaced is carried no more.
RenewalOK(t) ==
    /\ \A c \in Coming(t) :
          /\ issued[c].status = "approved" /\ c \notin Carried
          /\ \A u \in LabTabs :
                c \notin ShownBy(u) \cup Previous(u) /\ (u # t => c \notin Coming(u))
    /\ Replaced(t) \cap Carried = {}

LabCertificatesInv ==
    PlatformOK /\ \A t \in LabTabs : TabOK(t) /\ RenewalOK(t)

LEMMA InvIsWorking == LabCertificatesInv => ReplacementKeepsWorking
BY DEF LabCertificatesInv, PlatformOK, Certified, Carried, ReplacementKeepsWorking

LEMMA InvIsTyped == LabCertificatesInv => LabCertificatesTypeOK
BY DEF LabCertificatesInv, PlatformOK, Certified, TabOK, LabCertificatesTypeOK

-----------------------------------------------------------------------------
\* What was issued stays, for the key it was issued for.
IssuedGrows ==
    /\ issued' \in Seq(Certificates) /\ Len(issued) <= Len(issued')
    /\ \A c \in DOMAIN issued : c \in DOMAIN issued' /\ issued'[c].key = issued[c].key

LEMMA CertifiedStays ==
    ASSUME IssuedGrows, NEW identities, Certified(identities)
    PROVE  Certified(identities)'
BY DEF IssuedGrows, Certified

\* What a step of one tab leaves of the others.
LEMMA OthersStay ==
    ASSUME PlatformOK, IssuedGrows, NEW t, NEW u \in LabTabs \ {t}, TabOK(u),
           NEW r, tab' = [tab EXCEPT ![t] = r]
    PROVE  /\ tab'[u] = tab[u] /\ TabOK(u)'
           /\ Previous(u)' = Previous(u) /\ Coming(u)' = Coming(u)
           /\ Replaced(u)' = Replaced(u) /\ ShownBy(u)' = ShownBy(u)
<1>1. tab'[u] = tab[u]
  BY DEF PlatformOK
<1>2. Certified(tab[u].identities)'
  <2>1. Certified(tab[u].identities)
    BY DEF TabOK
  <2> DEFINE is == tab[u].identities
  <2>2. is' = is
    BY <1>1
  <2> HIDE DEF is
  <2>3. is = [k \in DOMAIN is |-> is[k]] /\ DOMAIN is \subseteq LocalKeys
    BY <2>1 DEF is, Certified
  <2>4. \A k \in DOMAIN is :
          \/ is[k] \in DOMAIN issued' /\ issued'[is[k]].key = k
          \/ is[k] = NoCertificate
    BY <2>1 DEF is, Certified, IssuedGrows
  <2> QED
    BY <2>2, <2>3, <2>4 DEF Certified, is
<1>3. TaskOK(tab[u].task)'
  BY <1>1 DEF TabOK, TaskOK, Renews, IssuedGrows
<1>4. TabOK(u)'
  BY <1>1, <1>2, <1>3 DEF TabOK, IssuedGrows
<1> QED
  BY <1>1, <1>4 DEF Previous, Coming, Replaced, ShownBy

LEMMA ComingIsNew ==
    ASSUME LabCertificatesInv, NEW t \in LabTabs, NEW c \in Coming(t)
    PROVE  /\ c \in DOMAIN issued /\ c # NoCertificate /\ tab[t].task.certificate = c
           /\ issued[c].key = tab[t].task.key
<1>1. TaskOK(tab[t].task) /\ issued \in Seq(Certificates) /\ tab[t].task.step = "install"
      /\ c = tab[t].task.certificate
  BY DEF LabCertificatesInv, TabOK, PlatformOK, Coming
<1> QED
  BY <1>1 DEF TaskOK, NoCertificate, Quiet

\* A step of one tab that issues, installs and revokes nothing.
LEMMA QuietStepKeeps ==
    ASSUME LabCertificatesInv, NEW t \in LabTabs, NEW r, tab' = [tab EXCEPT ![t] = r],
           issued' = issued, askedFor' = askedFor,
           generated' \subseteq LocalKeys, DOMAIN installed' \subseteq generated',
           Certified(installed)', Carried' \subseteq Carried \cup {NoCertificate},
           TabOK(t)',
           ShownBy(t)' \subseteq ShownBy(t) \cup Carried,
           Previous(t)' \subseteq Previous(t) \cup ShownBy(t) \cup {NoCertificate},
           Coming(t)' \subseteq Coming(t), Replaced(t)' \subseteq Replaced(t)
    PROVE  LabCertificatesInv'
<1>1. PlatformOK /\ IssuedGrows
  BY DEF LabCertificatesInv, PlatformOK, IssuedGrows
<1>2. PlatformOK'
  BY <1>1 DEF PlatformOK
<1>3. ASSUME NEW u \in LabTabs PROVE TabOK(u)'
  BY <1>1, <1>3, OthersStay DEF LabCertificatesInv
<1>4. ASSUME NEW u \in LabTabs PROVE RenewalOK(u)'
  <2>1. Replaced(u)' \subseteq Replaced(u) /\ Coming(u)' \subseteq Coming(u)
    BY <1>1, OthersStay DEF LabCertificatesInv
  <2>2. Replaced(u)' \cap Carried' = {}
    BY <2>1 DEF LabCertificatesInv, RenewalOK, Replaced
  <2>3. ASSUME NEW c \in Coming(u)'
        PROVE  /\ issued'[c].status = "approved" /\ c \notin Carried'
               /\ \A v \in LabTabs :
                     c \notin ShownBy(v)' \cup Previous(v)' /\ (v # u => c \notin Coming(v)')
    <3>1. c \in Coming(u) /\ c # NoCertificate
      BY <2>1, ComingIsNew
    <3>2. /\ issued[c].status = "approved" /\ c \notin Carried
          /\ \A v \in LabTabs :
                c \notin ShownBy(v) \cup Previous(v) /\ (v # u => c \notin Coming(v))
      BY <3>1 DEF LabCertificatesInv, RenewalOK
    <3>3. ASSUME NEW v \in LabTabs
          PROVE  c \notin ShownBy(v)' \cup Previous(v)' /\ (v # u => c \notin Coming(v)')
      <4>1. CASE v = t
        BY <3>1, <3>2, <4>1
      <4>2. CASE v # t
        BY <1>1, <3>2, <4>2, OthersStay DEF LabCertificatesInv
      <4> QED
        BY <4>1, <4>2
    <3> QED
      BY <3>1, <3>2, <3>3
  <2> QED
    BY <2>2, <2>3 DEF RenewalOK
<1> QED
  BY <1>2, <1>3, <1>4 DEF LabCertificatesInv

-----------------------------------------------------------------------------
LEMMA InvAt ==
    ASSUME LabCertificatesInv, NEW t \in LabTabs
    PROVE  /\ PlatformOK /\ TabOK(t) /\ RenewalOK(t) /\ Certified(tab[t].identities) /\ Certified(installed)
           /\ TaskOK(tab[t].task)
BY DEF LabCertificatesInv, TabOK, PlatformOK

\* A step that only sets the task of a tab.
LEMMA TaskIsSet ==
    ASSUME PlatformOK, NEW t \in LabTabs, TabOK(t), NEW task, tab' = [tab EXCEPT ![t].task = task]
    PROVE  LET r == [tab[t] EXCEPT !.task = task] IN
           /\ tab' = [tab EXCEPT ![t] = r] /\ tab'[t] = r
           /\ r = [identities |-> tab[t].identities, key |-> tab[t].key,
                   certificates |-> tab[t].certificates, task |-> task]
BY DEF PlatformOK, TabOK

\* Tasks that renew nothing.
RenewsNothing(task) == task = Quiet \/ task = [step |-> "list"] \/ task = [step |-> "refresh", key |-> task.key]

LEMMA TaskStepKeeps ==
    ASSUME LabCertificatesInv, NEW t \in LabTabs, NEW task,
           RenewsNothing(task), tab' = [tab EXCEPT ![t].task = task],
           issued' = issued, askedFor' = askedFor,
           generated' \subseteq LocalKeys, DOMAIN installed' \subseteq generated',
           Certified(installed)', Carried' \subseteq Carried \cup {NoCertificate}
    PROVE  LabCertificatesInv'
<1> DEFINE r == [tab[t] EXCEPT !.task = task]
<1>1. /\ tab' = [tab EXCEPT ![t] = r] /\ tab'[t] = r
      /\ r = [identities |-> tab[t].identities, key |-> tab[t].key,
              certificates |-> tab[t].certificates, task |-> task]
  BY InvAt, TaskIsSet
<1>2. IssuedGrows
  BY InvAt DEF PlatformOK, IssuedGrows
<1>3. TaskOK(task) /\ TaskOK(tab[t].task)'
  BY <1>1 DEF TaskOK, RenewsNothing
<1>4. Certified(tab[t].identities)'
  BY <1>1, InvAt DEF Certified
<1>5. TabOK(t)'
  BY <1>1, <1>3, <1>4, InvAt DEF TabOK
<1>6. task.step \notin {"issue", "install", "reread", "revoke"}
  BY DEF RenewsNothing, Quiet
<1>7. /\ ShownBy(t)' = ShownBy(t) /\ Previous(t)' = {} /\ Coming(t)' = {} /\ Replaced(t)' = {}
  BY <1>1, <1>6 DEF ShownBy, Previous, Coming, Replaced
<1> QED
  BY <1>1, <1>5, <1>7, QuietStepKeeps

LEMMA GenerateKeeps ==
    ASSUME LabCertificatesInv, NEW t \in LabTabs, NEW key \in LocalKeys,
           generateMtlsIdentity(t, key)
    PROVE  LabCertificatesInv'
<1>1. /\ generated' = generated \cup {key} /\ key \notin generated
      /\ installed' = [k \in DOMAIN installed \cup {key} |->
                          IF k = key THEN NoCertificate ELSE installed[k]]
      /\ tab' = [tab EXCEPT ![t].task = [step |-> "refresh", key |-> key]]
      /\ UNCHANGED <<issued, askedFor>>
  BY DEF generateMtlsIdentity, Installed, Undertake
<1>2. Certified(installed)'
  BY <1>1, InvAt DEF Certified
<1>3. Carried' \subseteq Carried \cup {NoCertificate}
  BY <1>1 DEF Carried
<1>4. generated' \subseteq LocalKeys /\ DOMAIN installed' \subseteq generated'
  BY <1>1, InvAt DEF PlatformOK
<1>5. RenewsNothing([step |-> "refresh", key |-> key])
  BY DEF RenewsNothing
<1> QED
  BY <1>1, <1>2, <1>3, <1>4, <1>5, TaskStepKeeps

LEMMA RemoveKeeps ==
    ASSUME LabCertificatesInv, NEW t \in LabTabs, removeMtlsIdentity(t)
    PROVE  LabCertificatesInv'
<1>1. /\ installed' = [k \in DOMAIN installed \ {tab[t].key} |-> installed[k]]
      /\ tab' = [tab EXCEPT ![t].task = [step |-> "refresh", key |-> NoKey]]
      /\ UNCHANGED <<issued, generated, askedFor>>
  BY DEF removeMtlsIdentity, Removed, Undertake
<1>2. Certified(installed)'
  BY <1>1, InvAt DEF Certified
<1>3. Carried' \subseteq Carried \cup {NoCertificate}
  BY <1>1 DEF Carried
<1>4. generated' \subseteq LocalKeys /\ DOMAIN installed' \subseteq generated'
  BY <1>1, InvAt DEF PlatformOK
<1>5. RenewsNothing([step |-> "refresh", key |-> NoKey])
  BY DEF RenewsNothing
<1> QED
  BY <1>1, <1>2, <1>3, <1>4, <1>5, TaskStepKeeps

LEMMA FailKeeps ==
    ASSUME LabCertificatesInv, NEW t \in LabTabs, StepFails(t)
    PROVE  LabCertificatesInv'
<1>1. tab' = [tab EXCEPT ![t].task = Quiet] /\ UNCHANGED <<installed, issued, generated, askedFor>>
  BY DEF StepFails, Desist
<1>2. Certified(installed)' /\ Carried' = Carried
  BY <1>1, InvAt DEF Certified, Carried
<1>3. generated' \subseteq LocalKeys /\ DOMAIN installed' \subseteq generated'
  BY <1>1, InvAt DEF PlatformOK
<1> QED
  BY <1>1, <1>2, <1>3, TaskStepKeeps DEF RenewsNothing

\* A tab that reads the agent's identities, the platform's certificates, or
\* selects an identity; its task goes on to rereading's successor or ends.
LEMMA TabStepKeeps ==
    ASSUME LabCertificatesInv, NEW t \in LabTabs, NEW r, tab' = [tab EXCEPT ![t] = r],
           UNCHANGED <<installed, issued, generated, askedFor>>,
           r = [identities |-> r.identities, key |-> r.key, certificates |-> r.certificates,
                task |-> r.task],
           r.identities = tab[t].identities \/ r.identities = installed,
           r.certificates = tab[t].certificates \/ r.certificates = issued,
           \/ r.task = tab[t].task
           \/ r.task = Quiet
           \/ /\ tab[t].task.step = "reread"
              /\ r.task = [tab[t].task EXCEPT !.step = IF tab[t].task.revoking THEN "revoke" ELSE "list"]
    PROVE  LabCertificatesInv'
<1>1. tab'[t] = r
  BY InvAt DEF PlatformOK
<1>2. IssuedGrows /\ Certified(installed)' /\ Carried' = Carried
  <2>1. PlatformOK /\ Certified(installed)
    BY InvAt
  <2>2. IssuedGrows /\ Carried' = Carried
    BY <2>1 DEF PlatformOK, IssuedGrows, Carried
  <2> QED
    BY <2>1, <2>2 DEF Certified
<1>3. generated' \subseteq LocalKeys /\ DOMAIN installed' \subseteq generated'
  BY InvAt DEF PlatformOK
<1>4. Certified(tab[t].identities)'
  <2> DEFINE is == r.identities
  <2>1. Certified(tab[t].identities) /\ Certified(installed)
    BY InvAt
  <2>2. Certified(is) /\ tab'[t].identities = is
    BY <1>1, <2>1
  <2> HIDE DEF is
  <2> QED
    BY <2>2 DEF Certified
<1>5. /\ TaskOK(r.task)
      /\ r.task.step = "install" => r.task = tab[t].task
      /\ r.task.step \in {"issue", "install", "reread", "revoke"} =>
            /\ tab[t].task.step \in {"issue", "install", "reread", "revoke"}
            /\ r.task.previous = tab[t].task.previous
      /\ r.task.step \in {"reread", "revoke"} =>
            /\ tab[t].task.step \in {"reread", "revoke"}
            /\ r.task.previous = tab[t].task.previous
  <2>1. CASE r.task = tab[t].task
    BY <2>1, InvAt
  <2>2. CASE r.task = Quiet
    BY <2>2 DEF TaskOK, Quiet
  <2>3. CASE /\ tab[t].task.step = "reread"
             /\ r.task = [tab[t].task EXCEPT !.step = IF tab[t].task.revoking THEN "revoke" ELSE "list"]
    <3> DEFINE k == tab[t].task
               n == r.task
    <3>1. /\ k = [step |-> k.step, key |-> k.key, previous |-> k.previous,
                  revoking |-> k.revoking, certificate |-> k.certificate]
          /\ Renews(k) /\ k.certificate \in DOMAIN issued /\ issued[k.certificate].key = k.key
      <4>1. TaskOK(k) /\ k.step = "reread"
        BY <2>3, InvAt
      <4> HIDE DEF k
      <4> QED
        BY <4>1 DEF TaskOK, Quiet
    <3>2. n = [step |-> IF k.revoking THEN "revoke" ELSE "list", key |-> k.key,
               previous |-> k.previous, revoking |-> k.revoking, certificate |-> k.certificate]
      BY <2>3, <3>1
    <3> HIDE DEF k, n
    <3>3. TaskOK(n) /\ n.step # "install" /\ n.previous = k.previous
      BY <3>1, <3>2 DEF TaskOK, Renews
    <3> QED
      BY <2>3, <3>3 DEF k, n
  <2> QED
    BY <2>1, <2>2, <2>3
<1>6. TaskOK(tab[t].task)'
  BY <1>1, <1>5 DEF TaskOK, Renews
<1>7. r.certificates \in Seq(Certificates) /\ Len(r.certificates) <= Len(issued)
  <2>1. TabOK(t) /\ issued \in Seq(Certificates)
    BY InvAt DEF PlatformOK
  <2>2. Len(issued) \in Nat
    BY <2>1
  <2> QED
    BY <2>1, <2>2 DEF TabOK
<1>8. TabOK(t)'
  BY <1>1, <1>4, <1>6, <1>7 DEF TabOK
<1>9. /\ ShownBy(t)' \subseteq ShownBy(t) \cup Carried /\ Coming(t)' \subseteq Coming(t)
      /\ Previous(t)' \subseteq Previous(t) /\ Replaced(t)' \subseteq Replaced(t)
  BY <1>1, <1>5 DEF ShownBy, Carried, Coming, Previous, Replaced
<1> QED
  BY <1>1, <1>2, <1>3, <1>8, <1>9, QuietStepKeeps

LEMMA RefreshedIs ==
    ASSUME LabCertificatesInv, NEW t \in LabTabs, NEW key
    PROVE  \E s : RefreshedBy(t, key) = [identities |-> installed, key |-> s,
                   certificates |-> tab[t].certificates, task |-> tab[t].task]
<1> DEFINE s == IF key \in DOMAIN installed THEN key
                ELSE IF DOMAIN installed = {} THEN NoKey
                ELSE CHOOSE k \in DOMAIN installed : TRUE
<1>1. RefreshedBy(t, key) = [tab[t] EXCEPT !.identities = installed, !.key = s]
  BY DEF RefreshedBy
<1> HIDE DEF s
<1>2. tab[t] = [identities |-> tab[t].identities, key |-> tab[t].key,
                certificates |-> tab[t].certificates, task |-> tab[t].task]
  BY InvAt DEF TabOK
<1> QED
  BY <1>1, <1>2

LEMMA ReadingsKeep ==
    ASSUME LabCertificatesInv, NEW t \in LabTabs,
           \/ Refreshed(t) \/ IdentitiesReread(t) \/ loadCertificates(t) \/ ListedAgain(t)
           \/ \E key \in LocalKeys : SelectIdentity(t, key)
    PROVE  LabCertificatesInv'
<1>1. /\ tab[t] = [identities |-> tab[t].identities, key |-> tab[t].key,
                   certificates |-> tab[t].certificates, task |-> tab[t].task]
      /\ tab = [u \in LabTabs |-> tab[u]]
  BY InvAt DEF TabOK, PlatformOK
<1>3. CASE Refreshed(t)
  <2>1. PICK s : RefreshedBy(t, tab[t].task.key) = [identities |-> installed, key |-> s,
                   certificates |-> tab[t].certificates, task |-> tab[t].task]
    BY RefreshedIs
  <2>2. /\ tab' = [tab EXCEPT ![t] = [identities |-> installed, key |-> s,
                       certificates |-> tab[t].certificates, task |-> Quiet]]
        /\ UNCHANGED <<installed, issued, generated, askedFor>>
    <3>1. tab' = [tab EXCEPT ![t] = [RefreshedBy(t, tab[t].task.key) EXCEPT !.task = Quiet]]
          /\ UNCHANGED <<installed, issued, generated, askedFor>>
      BY <1>3 DEF Refreshed
    <3>2. [RefreshedBy(t, tab[t].task.key) EXCEPT !.task = Quiet] =
             [identities |-> installed, key |-> s,
              certificates |-> tab[t].certificates, task |-> Quiet]
      BY <2>1
    <3> QED
      BY <3>1, <3>2
  <2> QED
    BY <2>2, TabStepKeeps
<1>4. CASE IdentitiesReread(t)
  <2> DEFINE task == [tab[t].task EXCEPT !.step = IF tab[t].task.revoking THEN "revoke" ELSE "list"]
  <2>1. PICK s : RefreshedBy(t, tab[t].key) = [identities |-> installed, key |-> s,
                   certificates |-> tab[t].certificates, task |-> tab[t].task]
    BY RefreshedIs
  <2>2. /\ tab' = [tab EXCEPT ![t] = [identities |-> installed, key |-> s,
                       certificates |-> tab[t].certificates, task |-> task]]
        /\ tab[t].task.step = "reread"
        /\ UNCHANGED <<installed, issued, generated, askedFor>>
    <3> DEFINE to == IF tab[t].task.revoking THEN "revoke" ELSE "list"
    <3>1. /\ tab' = [tab EXCEPT ![t] = [RefreshedBy(t, tab[t].key) EXCEPT !.task.step = to]]
          /\ tab[t].task.step = "reread"
          /\ UNCHANGED <<installed, issued, generated, askedFor>>
      BY <1>4 DEF IdentitiesReread
    <3> HIDE DEF to
    <3>2. [RefreshedBy(t, tab[t].key) EXCEPT !.task.step = to] =
             [identities |-> installed, key |-> s, certificates |-> tab[t].certificates,
              task |-> [tab[t].task EXCEPT !.step = to]]
      BY <2>1
    <3> QED
      BY <3>1, <3>2 DEF to
  <2> HIDE DEF task
  <2>3. task = [tab[t].task EXCEPT !.step = IF tab[t].task.revoking THEN "revoke" ELSE "list"]
    BY DEF task
  <2> DEFINE r == [identities |-> installed, key |-> s, certificates |-> tab[t].certificates,
                   task |-> task]
  <2>4. /\ r = [identities |-> r.identities, key |-> r.key, certificates |-> r.certificates,
                task |-> r.task]
        /\ r.identities = installed /\ r.certificates = tab[t].certificates /\ r.task = task
        /\ tab' = [tab EXCEPT ![t] = r]
    BY <2>2
  <2> HIDE DEF r
  <2> QED
    BY <2>2, <2>3, <2>4, TabStepKeeps
<1>5. CASE loadCertificates(t)
  <2>1. /\ tab' = [tab EXCEPT ![t] = [identities |-> tab[t].identities, key |-> tab[t].key,
                       certificates |-> issued, task |-> Quiet]]
        /\ UNCHANGED <<installed, issued, generated, askedFor>>
    <3>1. tab' = [tab EXCEPT ![t].certificates = issued, ![t].task = Quiet]
          /\ UNCHANGED <<installed, issued, generated, askedFor>>
      BY <1>5 DEF loadCertificates
    <3>2. tab' = [u \in LabTabs |-> IF u = t THEN tab'[t] ELSE tab[u]]
      BY <1>1, <3>1
    <3>3. tab'[t] = [identities |-> tab[t].identities, key |-> tab[t].key,
                     certificates |-> issued, task |-> Quiet]
      BY <1>1, <3>1
    <3> QED
      BY <1>1, <3>1, <3>2, <3>3
  <2> QED
    BY <2>1, TabStepKeeps
<1>6. CASE ListedAgain(t)
  <2>1. PICK s : RefreshedBy(t, tab[t].key) = [identities |-> installed, key |-> s,
                   certificates |-> tab[t].certificates, task |-> tab[t].task]
    BY RefreshedIs
  <2>2. /\ tab' = [tab EXCEPT ![t] = [identities |-> installed, key |-> s,
                       certificates |-> tab[t].certificates, task |-> tab[t].task]]
        /\ UNCHANGED <<installed, issued, generated, askedFor>>
    BY <1>6, <2>1 DEF ListedAgain
  <2> QED
    BY <2>2, TabStepKeeps
<1>7. ASSUME NEW key \in LocalKeys, SelectIdentity(t, key) PROVE LabCertificatesInv'
  <2>1. /\ tab' = [tab EXCEPT ![t] = [identities |-> tab[t].identities, key |-> key,
                       certificates |-> tab[t].certificates, task |-> tab[t].task]]
        /\ UNCHANGED <<installed, issued, generated, askedFor>>
    <3>1. tab' = [tab EXCEPT ![t].key = key] /\ UNCHANGED <<installed, issued, generated, askedFor>>
      BY <1>7 DEF SelectIdentity
    <3>2. tab' = [u \in LabTabs |-> IF u = t THEN tab'[t] ELSE tab[u]]
      BY <1>1, <3>1
    <3>3. tab'[t] = [identities |-> tab[t].identities, key |-> key,
                     certificates |-> tab[t].certificates, task |-> tab[t].task]
      BY <1>1, <3>1
    <3> QED
      BY <1>1, <3>1, <3>2, <3>3
  <2> QED
    BY <2>1, TabStepKeeps
<1> QED
  BY <1>3, <1>4, <1>5, <1>6, <1>7

-----------------------------------------------------------------------------
\* The steps of a renewal, and the revocation a user asks for.

LEMMA SelectedIs ==
    ASSUME LabCertificatesInv, NEW t \in LabTabs, selectedCertificate(t) # NoCertificate
    PROVE  /\ tab[t].key \in LocalKeys
           /\ selectedCertificate(t) \in DOMAIN issued \cap ShownBy(t)
           /\ issued[selectedCertificate(t)].key = tab[t].key
<1>1. tab[t].key \in DOMAIN tab[t].identities /\ selectedCertificate(t) = tab[t].identities[tab[t].key]
  BY DEF selectedCertificate, selectedMtlsIdentity, CertificateShown
<1> QED
  BY <1>1, InvAt DEF Certified, ShownBy

LEMMA RenewalBegunKeeps ==
    ASSUME LabCertificatesInv, NEW t \in LabTabs, issueMtlsCertificate(t)
    PROVE  LabCertificatesInv'
<1> DEFINE previous == selectedCertificate(t)
           revoking == certificateState(t) = "active"
           task == [step |-> "issue", key |-> tab[t].key, previous |-> previous,
                    revoking |-> revoking]
           r == [tab[t] EXCEPT !.task = task]
<1>1. /\ tab[t].key \in DOMAIN tab[t].identities /\ tab[t].key \in DOMAIN installed
      /\ tab' = [tab EXCEPT ![t].task = task]
      /\ UNCHANGED <<installed, issued, generated, askedFor>>
  BY DEF issueMtlsCertificate, Undertake, selectedMtlsIdentity
<1>2. /\ revoking \in BOOLEAN /\ (revoking => previous # NoCertificate)
      /\ previous \in ShownBy(t) \cup {NoCertificate}
      /\ previous # NoCertificate => previous \in DOMAIN issued /\ issued[previous].key = tab[t].key
  <2>1. revoking => previous # NoCertificate
    BY DEF certificateState
  <2>2. previous # NoCertificate =>
          previous \in DOMAIN issued \cap ShownBy(t) /\ issued[previous].key = tab[t].key
    BY SelectedIs
  <2> QED
    BY <2>1, <2>2
<1> HIDE DEF previous, revoking
<1>3. tab[t].key \in LocalKeys
  BY <1>1, InvAt DEF Certified
<1>4. /\ tab' = [tab EXCEPT ![t] = r] /\ tab'[t] = r
      /\ r = [identities |-> tab[t].identities, key |-> tab[t].key,
              certificates |-> tab[t].certificates, task |-> task]
  <2> HIDE DEF task
  <2> QED
    BY <1>1, InvAt, TaskIsSet
<1>5. TaskOK(tab[t].task)'
  BY <1>1, <1>2, <1>3, <1>4 DEF TaskOK, Renews
<1> HIDE DEF r
<1>6. Certified(tab[t].identities)' /\ Certified(installed)' /\ Carried' = Carried
  <2>1. Certified(tab[t].identities) /\ Certified(installed)
    BY InvAt
  <2> QED
    BY <1>1, <1>4, <2>1 DEF Certified, Carried
<1>7. TabOK(t)'
  <2>1. TabOK(t)
    BY InvAt
  <2>2. /\ tab'[t].certificates = tab[t].certificates /\ issued' = issued
        /\ tab'[t] = [identities |-> tab'[t].identities, key |-> tab'[t].key,
                      certificates |-> tab'[t].certificates, task |-> tab'[t].task]
    BY <1>1, <1>4
  <2> QED
    BY <1>5, <1>6, <2>1, <2>2 DEF TabOK
<1>8. generated' \subseteq LocalKeys /\ DOMAIN installed' \subseteq generated'
  BY <1>1, InvAt DEF PlatformOK
<1>9. /\ ShownBy(t)' = ShownBy(t) /\ Coming(t)' = {} /\ Replaced(t)' = {}
      /\ Previous(t)' = {previous}
  BY <1>4 DEF ShownBy, Coming, Replaced, Previous
<1> QED
  BY <1>1, <1>2, <1>4, <1>6, <1>7, <1>8, <1>9, QuietStepKeeps

LEMMA IssuedKeeps ==
    ASSUME LabCertificatesInv, NEW t \in LabTabs, CertificateIssued(t)
    PROVE  LabCertificatesInv'
<1> DEFINE k == tab[t].task
           c == Len(issued) + 1
           task == [step |-> "install", key |-> k.key, previous |-> k.previous,
                    revoking |-> k.revoking, certificate |-> c]
<1>1. /\ k.step = "issue"
      /\ issued' = Append(issued, [key |-> k.key, status |-> "approved"])
      /\ tab' = [tab EXCEPT ![t].task = task]
      /\ UNCHANGED <<installed, generated, askedFor>>
  BY DEF CertificateIssued, Go
<1>2. TaskOK(k)
  BY InvAt
<1>3. /\ Renews(k)
      /\ k = [step |-> "issue", key |-> k.key, previous |-> k.previous, revoking |-> k.revoking]
  <2> HIDE DEF k
  <2> QED
    BY <1>1, <1>2 DEF TaskOK, Quiet
<1>4. task = [step |-> "install", key |-> k.key, previous |-> k.previous,
              revoking |-> k.revoking, certificate |-> c]
  OBVIOUS
<1>5. /\ PlatformOK /\ issued \in Seq(Certificates) /\ Len(issued) \in Nat
      /\ DOMAIN issued = 1 .. Len(issued)
  <2>1. PlatformOK /\ issued \in Seq(Certificates)
    BY InvAt DEF PlatformOK
  <2> QED
    BY <2>1
<1>6. [key |-> k.key, status |-> "approved"] \in Certificates
  BY <1>3 DEF Renews, Certificates
<1>7. /\ issued' \in Seq(Certificates) /\ Len(issued') = c /\ DOMAIN issued' = 1 .. c
      /\ \A b \in DOMAIN issued : issued'[b] = issued[b]
      /\ issued'[c] = [key |-> k.key, status |-> "approved"]
      /\ c \notin DOMAIN issued /\ c # NoCertificate /\ c \in DOMAIN issued' /\ DOMAIN issued \subseteq DOMAIN issued'
  <2> HIDE DEF k
  <2> QED
    BY <1>1, <1>5, <1>6 DEF NoCertificate
<1>8. IssuedGrows
  BY <1>5, <1>7 DEF IssuedGrows
<1> DEFINE r == [tab[t] EXCEPT !.task = task]
<1>9. /\ tab' = [tab EXCEPT ![t] = r] /\ tab'[t] = r
      /\ r = [identities |-> tab[t].identities, key |-> tab[t].key,
              certificates |-> tab[t].certificates, task |-> task]
  <2> HIDE DEF task
  <2> QED
    BY <1>1, InvAt, TaskIsSet
<1> HIDE DEF r, task, c
<1>10. Certified(tab[t].identities)' /\ Certified(installed)' /\ Carried' = Carried
  <2>1. Certified(tab[t].identities) /\ Certified(installed)
    BY InvAt
  <2>2. tab'[t].identities = tab[t].identities /\ installed' = installed
    BY <1>1, <1>9
  <2> QED
    BY <1>8, <2>1, <2>2 DEF Certified, IssuedGrows, Carried
<1>11. TaskOK(tab[t].task)'
  <2>1. tab'[t].task = task
    BY <1>9
  <2>2. /\ task.key = k.key /\ task.previous = k.previous /\ task.revoking = k.revoking
        /\ task.certificate = c /\ task.step = "install"
    BY <1>4
  <2> HIDE DEF k
  <2>3. Renews(tab[t].task)'
    BY <1>3, <1>7, <2>1, <2>2 DEF Renews
  <2> DEFINE n == tab'[t].task
  <2>4. n = [step |-> n.step, key |-> n.key, previous |-> n.previous,
             revoking |-> n.revoking, certificate |-> n.certificate]
    BY <1>4, <2>1, <2>2
  <2>5. /\ n.step = "install" /\ n.certificate \in DOMAIN issued'
        /\ issued'[n.certificate].key = n.key
    <3>1. n.certificate = c /\ n.key = k.key /\ n.step = "install"
      BY <2>1, <2>2
    <3> HIDE DEF n
    <3> QED
      BY <1>7, <3>1
  <2> QED
    BY <2>3, <2>4, <2>5 DEF TaskOK
<1>12. TabOK(t)'
  <2>1. TabOK(t)
    BY InvAt
  <2>2. /\ tab'[t].certificates = tab[t].certificates
        /\ tab'[t] = [identities |-> tab'[t].identities, key |-> tab'[t].key,
                      certificates |-> tab'[t].certificates, task |-> tab'[t].task]
    BY <1>9
  <2>3. Len(tab[t].certificates) <= Len(issued')
    BY <1>7, <1>5, <2>1 DEF TabOK, c
  <2> QED
    BY <1>10, <1>11, <2>1, <2>2, <2>3 DEF TabOK
<1>13. /\ ShownBy(t)' = ShownBy(t) /\ Coming(t)' = {c} /\ Replaced(t)' = {}
       /\ Previous(t)' = Previous(t)
  BY <1>1, <1>4, <1>9 DEF ShownBy, Coming, Replaced, Previous
<1>14. c \notin Carried /\ \A u \in LabTabs : c \notin ShownBy(u) \cup Previous(u) \cup Coming(u)
  <2>1. ASSUME NEW u \in LabTabs PROVE c \notin Previous(u)
    <3>1. TaskOK(tab[u].task)
      BY InvAt
    <3> QED
      BY <1>7, <3>1 DEF TaskOK, Renews, Previous, Quiet
  <2>2. ASSUME NEW u \in LabTabs PROVE c \notin Coming(u)
    BY <1>7, ComingIsNew
  <2>3. ASSUME NEW u \in LabTabs PROVE c \notin ShownBy(u)
    BY <1>7, InvAt DEF Certified, ShownBy
  <2>4. c \notin Carried
    BY <1>7, InvAt DEF Certified, Carried
  <2> QED
    BY <2>1, <2>2, <2>3, <2>4
<1>15. PlatformOK'
  <2>1. \A b \in Carried \ {NoCertificate} : b \in DOMAIN issued
    BY InvAt DEF Certified, Carried
  <2>2. \A b \in Carried' \ {NoCertificate} : issued'[b].status = "approved" \/ b \in askedFor'
    BY <1>1, <1>5, <1>7, <1>10, <2>1 DEF PlatformOK
  <2> QED
    BY <1>1, <1>5, <1>7, <1>9, <1>10, <2>2 DEF PlatformOK
<1>16. ASSUME NEW u \in LabTabs PROVE TabOK(u)' /\ RenewalOK(u)'
  <2>1. TabOK(u)'
    BY <1>5, <1>8, <1>9, <1>12, OthersStay, InvAt
  <2>2. Replaced(u)' \cap Carried' = {}
    BY <1>5, <1>8, <1>9, <1>10, <1>13, OthersStay, InvAt DEF RenewalOK
  <2>3. ASSUME NEW b \in Coming(u)', NEW v \in LabTabs
        PROVE  /\ issued'[b].status = "approved" /\ b \notin Carried'
               /\ b \notin ShownBy(v)' \cup Previous(v)' /\ (v # u => b \notin Coming(v)')
    <3>1. /\ ShownBy(v)' = ShownBy(v) /\ Previous(v)' = Previous(v)
          /\ v # t => Coming(v)' = Coming(v)
      BY <1>5, <1>8, <1>9, <1>13, OthersStay, InvAt
    <3>2. CASE u = t
      BY <1>7, <1>10, <1>13, <1>14, <3>1, <3>2
    <3>3. CASE u # t
      <4>3. Coming(u)' = Coming(u)
        BY <1>5, <1>8, <1>9, <3>3, OthersStay, InvAt
      <4>1. b \in Coming(u) /\ b \in DOMAIN issued
        BY <4>3, ComingIsNew
      <4>2. /\ issued[b].status = "approved" /\ b \notin Carried
            /\ b \notin ShownBy(v) \cup Previous(v) /\ (v # u => b \notin Coming(v))
        BY <4>1, InvAt DEF RenewalOK
      <4> QED
        BY <1>7, <1>10, <1>13, <3>1, <4>1, <4>2
    <3> QED
      BY <3>2, <3>3
  <2> QED
    BY <2>1, <2>2, <2>3 DEF RenewalOK
<1> QED
  BY <1>15, <1>16 DEF LabCertificatesInv

LEMMA InstalledKeeps ==
    ASSUME LabCertificatesInv, NEW t \in LabTabs, CertificateInstalled(t)
    PROVE  LabCertificatesInv'
<1> DEFINE k == tab[t].task
           c == tab[t].task.certificate
           key == tab[t].task.key
           task == [k EXCEPT !.step = "reread"]
           r == [tab[t] EXCEPT !.task = task]
<1>1. /\ k.step = "install" /\ key \in DOMAIN installed
      /\ installed' = [i \in DOMAIN installed \cup {key} |-> IF i = key THEN c ELSE installed[i]]
      /\ tab' = [tab EXCEPT ![t].task = task]
      /\ UNCHANGED <<issued, generated, askedFor>>
  BY DEF CertificateInstalled, Installed, Go
<1>2. PlatformOK /\ IssuedGrows
  BY <1>1, InvAt DEF PlatformOK, IssuedGrows
<1>3. /\ Renews(k) /\ c \in DOMAIN issued /\ issued[c].key = key
      /\ k = [step |-> "install", key |-> key, previous |-> k.previous,
              revoking |-> k.revoking, certificate |-> c]
  <2>1. TaskOK(k) /\ k.certificate = c /\ k.key = key
    BY InvAt
  <2> HIDE DEF k, c, key
  <2> QED
    BY <1>1, <2>1 DEF TaskOK, Quiet
<1>4. /\ c \in Coming(t) /\ issued[c].status = "approved" /\ c \notin Carried
      /\ \A u \in LabTabs :
            c \notin ShownBy(u) \cup Previous(u) /\ (u # t => c \notin Coming(u))
  <2>1. c \in Coming(t)
    BY <1>1 DEF Coming
  <2> QED
    BY <2>1, InvAt DEF RenewalOK
<1>5. k.previous # c
  BY <1>1, <1>4 DEF Previous
<1>6. task = [step |-> "reread", key |-> key, previous |-> k.previous,
              revoking |-> k.revoking, certificate |-> c]
  <2> HIDE DEF k, key, c
  <2> QED
    BY <1>3
<1>7. /\ tab' = [tab EXCEPT ![t] = r] /\ tab'[t] = r
      /\ r = [identities |-> tab[t].identities, key |-> tab[t].key,
              certificates |-> tab[t].certificates, task |-> task]
  <2> HIDE DEF task
  <2> QED
    BY <1>1, InvAt, TaskIsSet
<1> HIDE DEF r, task
<1>8. Certified(installed)' /\ Carried' \subseteq Carried \cup {c}
  <2>1. Certified(installed)
    BY InvAt
  <2>2. key \in LocalKeys
    BY <1>3 DEF Renews
  <2> HIDE DEF k, key, c
  <2> QED
    BY <1>1, <1>3, <2>1, <2>2 DEF Certified, Carried
<1>9. k.previous = NoCertificate \/ k.previous \notin Carried'
  <2>1. ASSUME NEW i \in DOMAIN installed', installed'[i] = k.previous, k.previous # NoCertificate
        PROVE  FALSE
    <3>1. i # key
      BY <1>1, <1>5, <2>1
    <3>2. i \in DOMAIN installed /\ installed[i] = k.previous
      BY <1>1, <2>1, <3>1
    <3>3. issued[k.previous].key = i
      BY <2>1, <3>2, InvAt DEF Certified
    <3>4. issued[k.previous].key = key
      BY <1>3, <2>1 DEF Renews
    <3> QED
      BY <3>1, <3>3, <3>4
  <2> QED
    BY <2>1 DEF Carried
<1>10. TaskOK(tab[t].task)'
  <2> DEFINE n == tab'[t].task
  <2>1. /\ n.step = "reread" /\ n.key = key /\ n.previous = k.previous
        /\ n.revoking = k.revoking /\ n.certificate = c
        /\ n = [step |-> n.step, key |-> n.key, previous |-> n.previous,
                revoking |-> n.revoking, certificate |-> n.certificate]
    BY <1>6, <1>7
  <2> HIDE DEF n
  <2>2. /\ n.key \in LocalKeys /\ n.revoking \in BOOLEAN
        /\ \/ n.previous = NoCertificate /\ ~n.revoking
           \/ n.previous \in DOMAIN issued' /\ issued'[n.previous].key = n.key
    BY <1>1, <1>3, <2>1 DEF Renews
  <2>3. Renews(tab[t].task)'
    BY <2>2 DEF Renews, n
  <2>4. n.certificate \in DOMAIN issued' /\ issued'[n.certificate].key = n.key
    BY <1>1, <1>3, <2>1
  <2> QED
    BY <2>1, <2>3, <2>4 DEF TaskOK, n
<1>11. TabOK(t)'
  <2>1. TabOK(t) /\ Certified(tab[t].identities)
    BY InvAt
  <2>2. /\ tab'[t].certificates = tab[t].certificates
        /\ tab'[t].identities = tab[t].identities
        /\ tab'[t] = [identities |-> tab'[t].identities, key |-> tab'[t].key,
                      certificates |-> tab'[t].certificates, task |-> tab'[t].task]
    BY <1>7
  <2>3. Certified(tab[t].identities)'
    BY <1>1, <2>1, <2>2 DEF Certified
  <2> QED
    BY <1>1, <1>10, <2>1, <2>2, <2>3 DEF TabOK
<1>12. /\ ShownBy(t)' = ShownBy(t) /\ Coming(t)' = {} /\ Previous(t)' = Previous(t)
       /\ Replaced(t)' = {k.previous} \ {NoCertificate}
  BY <1>1, <1>6, <1>7 DEF ShownBy, Coming, Previous, Replaced
<1>13. PlatformOK'
  <2>1. DOMAIN installed' = DOMAIN installed
    BY <1>1
  <2>2. \A b \in Carried' \ {NoCertificate} : issued'[b].status = "approved" \/ b \in askedFor'
    BY <1>1, <1>2, <1>4, <1>8 DEF PlatformOK
  <2> QED
    BY <1>1, <1>2, <1>7, <1>8, <2>1, <2>2 DEF PlatformOK
<1>14. ASSUME NEW u \in LabTabs PROVE TabOK(u)' /\ RenewalOK(u)'
  <2>1. CASE u = t
    BY <1>9, <1>11, <1>12, <2>1 DEF RenewalOK
  <2>2. CASE u # t
    <3>1. TabOK(u)' /\ Coming(u)' = Coming(u) /\ Replaced(u)' = Replaced(u)
      BY <1>2, <1>7, <2>2, OthersStay, InvAt
    <3>2. c \notin Coming(u) /\ c \notin Replaced(u)
      BY <1>4, <2>2 DEF Previous, Replaced
    <3>3. Replaced(u)' \cap Carried' = {}
      BY <1>8, <3>1, <3>2, InvAt DEF RenewalOK
    <3>4. ASSUME NEW b \in Coming(u)', NEW v \in LabTabs
          PROVE  /\ issued'[b].status = "approved" /\ b \notin Carried'
                 /\ b \notin ShownBy(v)' \cup Previous(v)' /\ (v # u => b \notin Coming(v)')
      <4>1. /\ ShownBy(v)' = ShownBy(v) /\ Previous(v)' = Previous(v)
            /\ Coming(v)' \subseteq Coming(v)
        BY <1>2, <1>7, <1>12, OthersStay, InvAt
      <4>2. /\ b \in Coming(u) /\ issued[b].status = "approved" /\ b \notin Carried
            /\ b \notin ShownBy(v) \cup Previous(v) /\ (v # u => b \notin Coming(v))
        BY <3>1, InvAt DEF RenewalOK
      <4> QED
        BY <1>1, <1>8, <3>1, <3>2, <4>1, <4>2
    <3> QED
      BY <3>1, <3>3, <3>4 DEF RenewalOK
  <2> QED
    BY <2>1, <2>2
<1> QED
  BY <1>13, <1>14 DEF LabCertificatesInv

\* A certificate that a tab shows or renews is revoked: the agent carries it
\* no more, or a user has asked for it.
LEMMA RevokedKeeps ==
    ASSUME LabCertificatesInv, NEW t \in LabTabs, NEW task,
           tab' = [tab EXCEPT ![t].task = task], TaskOK(task), task.step = "list",
           UNCHANGED <<installed, generated>>,
           NEW c \in DOMAIN issued, c \in ShownBy(t) \cup Previous(t),
           issued' = Revoked(issued, c) \/ issued' = issued,
           askedFor' = askedFor \/ askedFor' = askedFor \cup {c},
           c \in Carried => c \in askedFor'
    PROVE  LabCertificatesInv'
<1>1. PlatformOK /\ issued \in Seq(Certificates)
  BY InvAt DEF PlatformOK
<1>2. /\ issued' \in Seq(Certificates) /\ Len(issued') = Len(issued)
      /\ DOMAIN issued' = DOMAIN issued
      /\ \A b \in DOMAIN issued : /\ issued'[b].key = issued[b].key
                                  /\ b # c => issued'[b].status = issued[b].status
  <2>1. CASE issued' = issued
    BY <1>1, <2>1
  <2>2. CASE issued' = Revoked(issued, c)
    <3>1. issued' = [issued EXCEPT ![c] = [issued[c] EXCEPT !.status = "revoked"]]
      BY <2>2 DEF Revoked
    <3>2. issued[c] \in Certificates
      <4> HIDE DEF Certificates
      <4> QED
        BY <1>1
    <3>3. [issued[c] EXCEPT !.status = "revoked"] \in Certificates
          /\ [issued[c] EXCEPT !.status = "revoked"].key = issued[c].key
      BY <3>2 DEF Certificates
    <3> QED
      BY <1>1, <3>1, <3>3
  <2> QED
    BY <2>1, <2>2
<1>3. IssuedGrows
  BY <1>1, <1>2 DEF IssuedGrows
<1> DEFINE r == [tab[t] EXCEPT !.task = task]
<1>4. /\ tab' = [tab EXCEPT ![t] = r] /\ tab'[t] = r
      /\ r = [identities |-> tab[t].identities, key |-> tab[t].key,
              certificates |-> tab[t].certificates, task |-> task]
  BY InvAt, TaskIsSet
<1> HIDE DEF r
<1>5. Certified(tab[t].identities)' /\ Certified(installed)' /\ Carried' = Carried
  <2>1. Certified(tab[t].identities) /\ Certified(installed)
    BY InvAt
  <2>2. tab'[t].identities = tab[t].identities
    BY <1>4
  <2> QED
    BY <1>2, <2>1, <2>2 DEF Certified, Carried
<1>6. TabOK(t)'
  <2>1. TabOK(t)
    BY InvAt
  <2>2. TaskOK(tab[t].task)'
    BY <1>2, <1>4 DEF TaskOK, Renews
  <2>3. /\ tab'[t].certificates = tab[t].certificates
        /\ tab'[t] = [identities |-> tab'[t].identities, key |-> tab'[t].key,
                      certificates |-> tab'[t].certificates, task |-> tab'[t].task]
    BY <1>4
  <2> QED
    BY <1>2, <1>5, <2>1, <2>2, <2>3 DEF TabOK
<1>7. /\ ShownBy(t)' = ShownBy(t) /\ Coming(t)' = {} /\ Previous(t)' = {} /\ Replaced(t)' = {}
  BY <1>4 DEF ShownBy, Coming, Previous, Replaced
<1>8. PlatformOK'
  <2>1. \A b \in Carried \ {NoCertificate} : b \in DOMAIN issued
    BY InvAt DEF Certified, Carried
  <2>2. \A b \in Carried' \ {NoCertificate} : issued'[b].status = "approved" \/ b \in askedFor'
    BY <1>1, <1>2, <1>5, <2>1 DEF PlatformOK
  <2> QED
    BY <1>1, <1>2, <1>4, <1>5, <2>2 DEF PlatformOK
<1>9. ASSUME NEW u \in LabTabs PROVE TabOK(u)' /\ RenewalOK(u)'
  <2>1. TabOK(u)'
    BY <1>1, <1>3, <1>4, <1>6, OthersStay, InvAt
  <2>2. Coming(u)' \subseteq Coming(u) /\ Replaced(u)' \subseteq Replaced(u)
    BY <1>1, <1>3, <1>4, <1>7, OthersStay, InvAt
  <2>3. Replaced(u)' \cap Carried' = {}
    BY <1>5, <2>2, InvAt DEF RenewalOK
  <2>4. ASSUME NEW b \in Coming(u)', NEW v \in LabTabs
        PROVE  /\ issued'[b].status = "approved" /\ b \notin Carried'
               /\ b \notin ShownBy(v)' \cup Previous(v)' /\ (v # u => b \notin Coming(v)')
    <3>1. /\ ShownBy(v)' = ShownBy(v) /\ Previous(v)' \subseteq Previous(v)
          /\ Coming(v)' \subseteq Coming(v)
      BY <1>1, <1>3, <1>4, <1>7, OthersStay, InvAt
    <3>2. b \in Coming(u) /\ b \in DOMAIN issued
      BY <2>2, ComingIsNew
    <3>3. /\ issued[b].status = "approved" /\ b \notin Carried /\ b # c
          /\ b \notin ShownBy(v) \cup Previous(v) /\ (v # u => b \notin Coming(v))
      BY <3>2, InvAt DEF RenewalOK
    <3> QED
      BY <1>2, <1>5, <3>1, <3>2, <3>3
  <2> QED
    BY <2>1, <2>3, <2>4 DEF RenewalOK
<1> QED
  BY <1>8, <1>9 DEF LabCertificatesInv

LEMMA PreviousRevokedKeeps ==
    ASSUME LabCertificatesInv, NEW t \in LabTabs, PreviousRevoked(t)
    PROVE  LabCertificatesInv'
<1> DEFINE k == tab[t].task
           task == [k EXCEPT !.step = "list"]
           c == k.previous
<1>1. /\ k.step = "revoke" /\ tab' = [tab EXCEPT ![t].task = task]
      /\ issued' = Revoked(issued, c) \/ issued' = issued
      /\ UNCHANGED <<installed, generated, askedFor>>
  BY DEF PreviousRevoked, Go
<1>2. /\ Renews(k) /\ k.revoking /\ k.certificate \in DOMAIN issued
      /\ issued[k.certificate].key = k.key
      /\ k = [step |-> "revoke", key |-> k.key, previous |-> k.previous,
              revoking |-> k.revoking, certificate |-> k.certificate]
  <2>1. TaskOK(k)
    BY InvAt
  <2> HIDE DEF k
  <2> QED
    BY <1>1, <2>1 DEF TaskOK, Quiet
<1>3. c \in DOMAIN issued /\ c \in Previous(t)
  BY <1>1, <1>2 DEF Renews, Previous
<1>4. c \notin Carried
  <2>1. c # NoCertificate
    <3>1. issued \in Seq(Certificates)
      BY InvAt DEF PlatformOK
    <3> QED
      BY <1>3, <3>1 DEF NoCertificate
  <2>2. c \in Replaced(t)
    BY <1>1, <2>1 DEF Replaced
  <2> QED
    BY <2>2, InvAt DEF RenewalOK
<1>5. TaskOK(task) /\ task.step = "list"
  <2> HIDE DEF k
  <2>1. task = [step |-> "list", key |-> k.key, previous |-> k.previous,
                revoking |-> k.revoking, certificate |-> k.certificate]
    <3>1. PICK a, b, d, e :
             k = [step |-> "revoke", key |-> a, previous |-> b, revoking |-> d, certificate |-> e]
      BY <1>2
    <3>2. k.key = a /\ k.previous = b /\ k.revoking = d /\ k.certificate = e
      BY <3>1
    <3>3. task = [step |-> "list", key |-> a, previous |-> b, revoking |-> d, certificate |-> e]
      BY <3>1
    <3> QED
      BY <3>2, <3>3
  <2> HIDE DEF task
  <2>2. Renews(task)
    BY <1>2, <2>1 DEF Renews
  <2> QED
    BY <1>2, <2>1, <2>2 DEF TaskOK
<1> HIDE DEF task, c, k
<1> QED
  BY <1>1, <1>3, <1>4, <1>5, RevokedKeeps

LEMMA RevocationKeeps ==
    ASSUME LabCertificatesInv, NEW t \in LabTabs, revokeMtlsCertificate(t)
    PROVE  LabCertificatesInv'
<1> DEFINE c == selectedCertificate(t)
<1>1. /\ c # NoCertificate /\ tab' = [tab EXCEPT ![t].task = [step |-> "list"]]
      /\ issued' = Revoked(issued, c) /\ askedFor' = askedFor \cup {c}
      /\ UNCHANGED <<installed, generated>>
  BY DEF revokeMtlsCertificate, Undertake, certificateState
<1>2. c \in DOMAIN issued /\ c \in ShownBy(t)
  BY <1>1, SelectedIs
<1>3. TaskOK([step |-> "list"]) /\ [step |-> "list"].step = "list"
  BY DEF TaskOK
<1> HIDE DEF c
<1> QED
  BY <1>1, <1>2, <1>3, RevokedKeeps

-----------------------------------------------------------------------------
LEMMA LabCertificatesInitially == LabCertificatesInit => LabCertificatesInv
<1> SUFFICES ASSUME LabCertificatesInit PROVE LabCertificatesInv
  OBVIOUS
<1>1. PlatformOK
  BY DEF LabCertificatesInit, PlatformOK, Certified, Carried
<1>2. ASSUME NEW t \in LabTabs PROVE TabOK(t) /\ RenewalOK(t)
  <2>1. tab[t] = [identities |-> [k \in {} |-> NoCertificate], key |-> NoKey,
                  certificates |-> <<>>, task |-> Quiet]
    BY DEF LabCertificatesInit
  <2>2. Coming(t) = {} /\ Replaced(t) = {}
    BY <2>1 DEF Coming, Replaced, Quiet
  <2>3. Certified(tab[t].identities)
    BY <2>1 DEF Certified
  <2>4. Len(issued) = 0
    BY DEF LabCertificatesInit
  <2> QED
    BY <2>1, <2>2, <2>3, <2>4 DEF TabOK, RenewalOK, TaskOK
<1> QED
  BY <1>1, <1>2 DEF LabCertificatesInv

LEMMA LabCertificatesInductive ==
    LabCertificatesInv /\ [LabCertificatesNext]_labCertificateVars => LabCertificatesInv'
<1> SUFFICES ASSUME LabCertificatesInv, [LabCertificatesNext]_labCertificateVars
             PROVE  LabCertificatesInv'
  OBVIOUS
<1>1. CASE UNCHANGED labCertificateVars
  <2>1. PlatformOK'
    <3>1. PlatformOK
      BY DEF LabCertificatesInv
    <3> QED
      BY <1>1, <3>1 DEF labCertificateVars, PlatformOK, Certified, Carried
  <2>2. ASSUME NEW t \in LabTabs PROVE TabOK(t)' /\ RenewalOK(t)'
    <3>1. TabOK(t) /\ RenewalOK(t)
      BY DEF LabCertificatesInv
    <3>2. TabOK(t)'
      BY <1>1, <3>1 DEF labCertificateVars, TabOK, Certified, TaskOK, Renews
    <3>3. RenewalOK(t)'
      BY <1>1, <3>1 DEF labCertificateVars, RenewalOK, Previous, Coming, Replaced, Carried, ShownBy
    <3> QED
      BY <3>2, <3>3
  <2> QED
    BY <2>1, <2>2 DEF LabCertificatesInv
<1>2. CASE LabCertificatesNext
  <2>1. PICK t \in LabTabs :
          \/ \E key \in LocalKeys : generateMtlsIdentity(t, key) \/ SelectIdentity(t, key)
          \/ issueMtlsCertificate(t) \/ CertificateIssued(t) \/ CertificateInstalled(t)
          \/ IdentitiesReread(t) \/ PreviousRevoked(t) \/ loadCertificates(t)
          \/ Refreshed(t) \/ ListedAgain(t) \/ StepFails(t)
          \/ revokeMtlsCertificate(t) \/ removeMtlsIdentity(t)
    BY <1>2, Zenon DEF LabCertificatesNext
  <2> QED
    BY <2>1, GenerateKeeps, ReadingsKeep, RenewalBegunKeeps, IssuedKeeps, InstalledKeeps,
       PreviousRevokedKeeps, FailKeeps, RevocationKeeps, RemoveKeeps
<1> QED
  BY <1>1, <1>2

-----------------------------------------------------------------------------
(***************************************************************************)
(* The creation of a proxy: a configuration keeps its meaning from the form*)
(* to the gateway.  What a bundle promises holds of every document and     *)
(* configuration; the panel keeps what it asked for while it waits.        *)
(***************************************************************************)

LEMMA NthOfAll == ASSUME NEW n \in Nat, NEW j \in 1 .. n PROVE Nth(1 .. n, j) = j
<1>1. \A i \in 1 .. n : {k \in 1 .. n : k <= i} = 1 .. i
  OBVIOUS
<1>2. \A i \in 1 .. n : Cardinality(1 .. i) = i
  BY FS_Interval
<1>3. \A i \in 1 .. n : Cardinality({k \in 1 .. n : k <= i}) = i
  BY <1>1, <1>2
<1>4. \A i \in 1 .. n : Cardinality({k \in 1 .. n : k <= i}) = j <=> i = j
  BY <1>3
<1> DEFINE Count(i) == Cardinality({k \in 1 .. n : k <= i})
<1>5. \A i \in 1 .. n : Count(i) = j <=> i = j
  BY <1>4
<1>6. Nth(1 .. n, j) = CHOOSE i \in 1 .. n : Count(i) = j
  BY DEF Nth
<1> HIDE DEF Count
<1> QED
  BY <1>5, <1>6

\* A list of policies the panel knows is read into the form whole.
LEMMA KnownAreRead ==
    ASSUME NEW value, IsPolicies(value),
           \A i \in DOMAIN value.list : value.list[i].type \in BusinessTypes
    PROVE  policiesFromUnknown(value.list)
             = [i \in DOMAIN value.list |-> editablePolicyFromUnknown(value.list[i])]
<1> DEFINE n == Len(value.list)
           known == {i \in DOMAIN value.list : value.list[i].type \in BusinessTypes}
<1>1. n \in Nat /\ DOMAIN value.list = 1 .. n
  BY DEF IsPolicies
<1>2. known = 1 .. n
  BY <1>1
<1>3. Cardinality(1 .. n) = n
  BY <1>1, FS_Interval
<1>4. \A j \in 1 .. n : Nth(1 .. n, j) = j
  BY <1>1, NthOfAll
<1>5. policiesFromUnknown(value.list)
        = [j \in 1 .. Cardinality(known) |-> editablePolicyFromUnknown(value.list[Nth(known, j)])]
  BY DEF policiesFromUnknown
<1> HIDE DEF known, n
<1>6. [j \in 1 .. Cardinality(known) |-> editablePolicyFromUnknown(value.list[Nth(known, j)])]
        = [j \in 1 .. n |-> editablePolicyFromUnknown(value.list[Nth(1 .. n, j)])]
  BY <1>2, <1>3
<1>7. [j \in 1 .. n |-> editablePolicyFromUnknown(value.list[Nth(1 .. n, j)])]
        = [j \in 1 .. n |-> editablePolicyFromUnknown(value.list[j])]
  BY <1>4
<1> QED
  BY <1>1, <1>5, <1>6, <1>7

\* A policy the server accepts, brought into the form and serialized again, is
\* accepted and compiles to the same.
LEMMA PolicyComesBack ==
    ASSUME NEW p, NEW i, p.type \in BusinessTypes, ConfigParses(p),
           p.failureMode \in {Missing, "open", "closed"}, p.fields \in {Missing, "set", "bad"}
    PROVE  LET form == editablePolicyFromUnknown(p)
               back == serializePolicy(form)
           IN /\ form.type = p.type /\ (form.enabled <=> p.enabled # "false")
              /\ form.fields \notin {Missing, "bad"}
              /\ back.type = p.type /\ ConfigParses(back)
              /\ Compiled(back, i) = Compiled(p, i)
<1> USE DEF editablePolicyFromUnknown, createEditablePolicy, serializePolicy, ConfigParses,
            Missing, BusinessTypes, AuthenticationTypes
<1> DEFINE form == editablePolicyFromUnknown(p)
           back == serializePolicy(form)
<1>1. form.type = p.type /\ (form.enabled <=> p.enabled # "false")
  OBVIOUS
<1>2. form.fields \notin {Missing, "bad"}
  OBVIOUS
<1>3. back.type = p.type /\ ConfigParses(back)
  OBVIOUS
<1>4. (back.enabled # "false") <=> (p.enabled # "false")
  OBVIOUS
<1>5. Compiled(back, i) = Compiled(p, i)
  BY <1>3, <1>4 DEF Compiled
<1> QED
  BY <1>1, <1>2, <1>3, <1>5

\* So for a whole list: the panel finds nothing to correct in it.
LEMMA PoliciesComeBack ==
    ASSUME NEW value, IsPolicies(value), value.given, PoliciesCompile(value, FALSE)
    PROVE  LET form == policiesFromUnknown(value.list)
           IN /\ compilePolicies(Serialized(form)) = compilePolicies(value)
              /\ PoliciesCompile(Serialized(form), FALSE)
              /\ validatePolicies(form)
<1> DEFINE list == value.list
           form == policiesFromUnknown(list)
           back == Serialized(form)
<1>1. /\ \A i \in DOMAIN list : list[i].type \in BusinessTypes /\ ConfigParses(list[i])
      /\ Cardinality(Authentications(compilePolicies(value))) = 1
  BY DEF PoliciesCompile, AllowedTypes
<1>2. \A i \in DOMAIN list : /\ list[i].failureMode \in {Missing, "open", "closed"}
                             /\ list[i].fields \in {Missing, "set", "bad"}
  BY DEF IsPolicies
<1>3. form = [i \in DOMAIN list |-> editablePolicyFromUnknown(list[i])]
  BY <1>1, KnownAreRead
<1>4. back.given /\ back.list = [i \in DOMAIN form |-> serializePolicy(form[i])]
  BY DEF Serialized
<1> HIDE DEF form, back
<1>5. DOMAIN form = DOMAIN list /\ DOMAIN back.list = DOMAIN list
  BY <1>3, <1>4
<1>6. \A i \in DOMAIN list : /\ form[i] = editablePolicyFromUnknown(list[i])
                             /\ back.list[i] = serializePolicy(editablePolicyFromUnknown(list[i]))
  BY <1>3, <1>4, <1>5
<1>7. \A i \in DOMAIN list :
         /\ form[i].type = list[i].type /\ (form[i].enabled <=> list[i].enabled # "false")
         /\ form[i].fields \notin {Missing, "bad"}
         /\ back.list[i].type = list[i].type /\ ConfigParses(back.list[i])
         /\ Compiled(back.list[i], i) = Compiled(list[i], i)
  BY <1>1, <1>2, <1>6, PolicyComesBack
<1>8. compilePolicies(back) = compilePolicies(value)
  <2>1. /\ compilePolicies(back) = [i \in DOMAIN back.list |-> Compiled(back.list[i], i)]
        /\ compilePolicies(value) = [i \in DOMAIN list |-> Compiled(list[i], i)]
    BY DEF compilePolicies
  <2> QED
    BY <2>1, <1>5, <1>7
<1>9. PoliciesCompile(back, FALSE)
  BY <1>1, <1>4, <1>5, <1>7, <1>8 DEF PoliciesCompile, AllowedTypes
<1>10. Authentications(form) = Authentications(compilePolicies(value))
  <2>1. /\ DOMAIN compilePolicies(value) = DOMAIN list
        /\ \A i \in DOMAIN list : /\ compilePolicies(value)[i].type = list[i].type
                                  /\ compilePolicies(value)[i].enabled <=> list[i].enabled # "false"
    BY DEF compilePolicies, Compiled
  <2> QED
    BY <2>1, <1>5, <1>7 DEF Authentications
<1>11. validatePolicies(form)
  BY <1>1, <1>5, <1>7, <1>10 DEF validatePolicies
<1> QED
  BY <1>8, <1>9, <1>11 DEF back, form

-----------------------------------------------------------------------------
\* What compiled was accepted in each part.
LEMMA CompiledIsAccepted ==
    ASSUME NEW document, NEW gateway, NEW system \in BOOLEAN
    PROVE  LET bundle == compileProxyBundle(document, gateway, system) IN
           /\ bundle.code = "compiled" <=> Inspects(document) /\ GatewayCompiles(document, gateway, system)
           /\ bundle.code = "compiled" =>
                /\ bundle.basePath = normalizeBasePath(gateway.base)
                /\ bundle.operations = [i \in DOMAIN document.operations |->
                      CompiledOperation(document.operations[i], gateway, system)]
  BY DEF compileProxyBundle, RefusedBundle

LEMMA CompiledAuthenticates ==
    ASSUME NEW document, NEW gateway
    PROVE  AuthenticatesOnce(gateway, compileProxyBundle(document, gateway, FALSE))
<1> DEFINE bundle == compileProxyBundle(document, gateway, FALSE)
           offered == document.operations
<1> SUFFICES ASSUME bundle.code = "compiled", NEW i \in DOMAIN bundle.operations
             PROVE  \/ Cardinality(Authentications(bundle.operations[i].policies)) = 1
                    \/ /\ ~gateway.defaults.given
                       /\ ~OverrideOf(gateway, bundle.operations[i].id).policies.given
  BY DEF AuthenticatesOnce
<1>1. /\ Inspects(document) /\ GatewayCompiles(document, gateway, FALSE)
      /\ bundle.operations = [k \in DOMAIN offered |-> CompiledOperation(offered[k], gateway, FALSE)]
  BY CompiledIsAccepted
<1> HIDE DEF bundle
<1>2. /\ i \in DOMAIN offered
      /\ bundle.operations[i] = CompiledOperation(offered[i], gateway, FALSE)
  BY <1>1
<1> DEFINE override == OverrideOf(gateway, offered[i].id)
<1>3. /\ bundle.operations[i].id = offered[i].id
      /\ bundle.operations[i].policies = PoliciesOf(gateway, override)
  BY <1>2 DEF CompiledOperation
<1>4. PoliciesCompile(gateway.defaults, FALSE) /\ PoliciesCompile(override.policies, FALSE)
  BY <1>1, <1>2 DEF GatewayCompiles, OperationCompiles
<1> HIDE DEF override
<1>5. CASE override.policies.given
  BY <1>3, <1>4, <1>5 DEF PoliciesOf, PoliciesCompile
<1>6. CASE ~override.policies.given /\ gateway.defaults.given
  BY <1>3, <1>4, <1>6 DEF PoliciesOf, PoliciesCompile
<1>7. CASE ~override.policies.given /\ ~gateway.defaults.given
  BY <1>3, <1>7 DEF override
<1> QED
  BY <1>5, <1>6, <1>7

\* A list of policies that is absent is empty: what the loader relies on.
AbsentAreEmpty(gateway) ==
    /\ gateway.defaults.given \/ gateway.defaults.list = <<>>
    /\ \A id \in DOMAIN gateway.operations :
          LET policies == gateway.operations[id].policies IN policies.given \/ policies.list = <<>>

LEMMA AtMostOneAuthenticates ==
    ASSUME NEW value, NEW system \in BOOLEAN, PoliciesCompile(value, system),
           value.given \/ value.list = <<>>
    PROVE  Cardinality(Authentications(compilePolicies(value))) <= 1
<1>1. CASE value.given
  BY <1>1 DEF PoliciesCompile
<1>2. CASE value.list = <<>>
  <2>1. Authentications(compilePolicies(value)) = {}
    BY <1>2 DEF Authentications, compilePolicies
  <2> QED
    BY <2>1, FS_EmptySet
<1> QED
  BY <1>1, <1>2

LEMMA CompiledLoads ==
    ASSUME NEW document, NEW gateway, AbsentAreEmpty(gateway), NEW system \in BOOLEAN
    PROVE  LoadsUnless(compileProxyBundle(document, gateway, system))
<1> DEFINE bundle == compileProxyBundle(document, gateway, system)
           offered == document.operations
           IsTerminal(operation) == EnabledTypes(operation.policies) \cap TerminalTypes # {}
           Excepted(operation) ==
               operation.mode = "forward" /\ (operation.target = EmptyPath \/ IsTerminal(operation))
<1> SUFFICES ASSUME bundle.code = "compiled", NEW i \in DOMAIN bundle.operations
             PROVE  Excepted(bundle.operations[i]) \/ OperationLoads(bundle.operations[i])
  BY DEF LoadsUnless, RevisionLoads
<1> HIDE DEF Excepted
<1>1. /\ GatewayCompiles(document, gateway, system)
      /\ bundle.operations = [k \in DOMAIN offered |-> CompiledOperation(offered[k], gateway, system)]
  BY CompiledIsAccepted
<1> DEFINE compiled == bundle.operations[i]
           override == OverrideOf(gateway, offered[i].id)
<1> HIDE DEF bundle
<1>2. i \in DOMAIN offered /\ compiled = CompiledOperation(offered[i], gateway, system)
  BY <1>1
<1>3. /\ compiled.mode = ModeOf(override, system)
      /\ compiled.policies = PoliciesOf(gateway, override)
  BY <1>2 DEF CompiledOperation
<1>4. /\ PoliciesCompile(gateway.defaults, system) /\ PoliciesCompile(override.policies, system)
      /\ compiled.mode = "local" => EnabledTypes(compiled.policies) \cap TerminalTypes # {}
  BY <1>1, <1>2 DEF GatewayCompiles, OperationCompiles
<1>5. override.policies.given \/ override.policies.list = <<>>
  <2>1. CASE offered[i].id \in DOMAIN gateway.operations
    BY <2>1 DEF AbsentAreEmpty, OverrideOf
  <2>2. CASE offered[i].id \notin DOMAIN gateway.operations
    BY <2>2 DEF OverrideOf, NoOverride, Absent
  <2> QED
    BY <2>1, <2>2
<1>6. compiled.mode \in {"local", "forward"}
  BY <1>3 DEF ModeOf
<1> HIDE DEF override
<1>7. Cardinality(Authentications(compiled.policies)) <= 1
  <2>1. CASE override.policies.given
    BY <2>1, <1>3, <1>4, <1>5, AtMostOneAuthenticates DEF PoliciesOf
  <2>2. CASE ~override.policies.given
    BY <2>2, <1>3, <1>4, AtMostOneAuthenticates DEF PoliciesOf, AbsentAreEmpty
  <2> QED
    BY <2>1, <2>2
<1> HIDE DEF compiled
<1>8. Excepted(compiled) \/ OperationLoads(compiled)
  BY <1>4, <1>6, <1>7 DEF OperationLoads, Excepted
<1> QED
  BY <1>8 DEF compiled

-----------------------------------------------------------------------------
IsDraft(d) ==
    d = [document |-> d.document, base |-> d.base, defaults |-> d.defaults,
         operations |-> d.operations]

\* An inspection leaves the rest of the draft alone.
LEMMA AppliedDraft ==
    ASSUME NEW d, IsDraft(d), NEW document
    PROVE  LET next == applyOpenApiInspection(d, document)
           IN IsDraft(next) /\ next.document = d.document
<1>1. PICK offered : applyOpenApiInspection(d, document) = [d EXCEPT !.operations = offered]
  BY DEF applyOpenApiInspection
<1> QED
  BY <1>1 DEF IsDraft

\* An operation the configuration overrides no policies of inherits them.
Inherits(g, id) == ~OverrideOf(g, id).policies.given

\* What an import makes of a draft, operation by operation.
IsImported(next, d, g) ==
    LET offered == d.document.operations
        override(i) == OverrideOf(g, offered[i].id)
    IN /\ IsDraft(next) /\ next.document = d.document /\ next.base = g.base
       /\ next.defaults = policiesFromUnknown(g.defaults.list)
       /\ DOMAIN next.operations = DOMAIN offered
       /\ \A i \in DOMAIN offered :
             /\ next.operations[i].id = offered[i].id
             /\ next.operations[i].path = offered[i].path
             /\ next.operations[i].target = IF override(i).target = Missing
                   THEN offered[i].path ELSE override(i).target
             /\ next.operations[i].inherit = Inherits(g, offered[i].id)
             /\ next.operations[i].policies = policiesFromUnknown(override(i).policies.list)

LEMMA ImportedDraft ==
    ASSUME NEW d, IsDraft(d), NEW g
    PROVE  IsImported(hydrateGatewaySource(applyOpenApiInspection(d, d.document), g), d, g)
<1> DEFINE offered == d.document.operations
           applied == applyOpenApiInspection(d, d.document)
           next == hydrateGatewaySource(applied, g)
           kept(id) == {d.operations[i] : i \in {i \in DOMAIN d.operations : d.operations[i].id = id}}
           target(o) == IF kept(o.id) = {} THEN o.path ELSE (CHOOSE k \in kept(o.id) : TRUE).target
           inherit(o) == kept(o.id) = {} \/ \E k \in kept(o.id) : k.inherit
           policies(o) == IF kept(o.id) = {} THEN <<>> ELSE (CHOOSE k \in kept(o.id) : TRUE).policies
           drafted(o) == [id |-> o.id, path |-> o.path, target |-> target(o),
                          inherit |-> inherit(o), policies |-> policies(o)]
           wanted(id, path) == IF OverrideOf(g, id).target = Missing THEN path
                               ELSE OverrideOf(g, id).target
           hydrated(o) == [o EXCEPT !.target = wanted(o.id, o.path), !.inherit = Inherits(g, o.id),
                              !.policies = policiesFromUnknown(OverrideOf(g, o.id).policies.list)]
<1>1. applied = [d EXCEPT !.operations = [i \in DOMAIN offered |-> drafted(offered[i])]]
  BY DEF applyOpenApiInspection
<1>2. next = [applied EXCEPT !.base = g.base,
                             !.defaults = policiesFromUnknown(g.defaults.list),
                             !.operations = [i \in DOMAIN applied.operations |->
                                                hydrated(applied.operations[i])]]
  BY DEF hydrateGatewaySource, Inherits
<1> HIDE DEF applied, next, target, inherit, policies, wanted
<1>3. ASSUME NEW o
      PROVE  LET h == hydrated(drafted(o)) IN
             /\ h.id = o.id /\ h.path = o.path /\ h.target = wanted(o.id, o.path)
             /\ h.inherit = Inherits(g, o.id)
             /\ h.policies = policiesFromUnknown(OverrideOf(g, o.id).policies.list)
  OBVIOUS
<1> HIDE DEF hydrated, drafted
<1>4. /\ IsDraft(applied) /\ applied.document = d.document
      /\ applied.operations = [i \in DOMAIN offered |-> drafted(offered[i])]
  BY <1>1 DEF IsDraft
<1>5. /\ IsDraft(next) /\ next.document = d.document /\ next.base = g.base
      /\ next.defaults = policiesFromUnknown(g.defaults.list)
      /\ next.operations = [i \in DOMAIN offered |-> hydrated(drafted(offered[i]))]
  BY <1>2, <1>4 DEF IsDraft
<1>6. /\ DOMAIN next.operations = DOMAIN offered
      /\ \A i \in DOMAIN offered : next.operations[i] = hydrated(drafted(offered[i]))
  BY <1>5
<1> QED
  BY <1>3, <1>5, <1>6 DEF next, applied, wanted, IsImported

\* What the panel serializes an operation with an id of its own to.
LEMMA SerializedOperation ==
    ASSUME NEW d, NEW i \in DOMAIN d.operations,
           \A j \in DOMAIN d.operations : d.operations[j].id = d.operations[i].id => j = i
    PROVE  LET o == d.operations[i]
           IN OverrideOf(gatewayDocument(d), o.id)
                = [mode |-> Missing, target |-> o.target,
                   policies |-> IF o.inherit THEN Absent ELSE Serialized(o.policies)]
<1> DEFINE all == {d.operations[j] : j \in DOMAIN d.operations}
           o == d.operations[i]
           OfId(id) == CHOOSE x \in all : x.id = id
           ids == {d.operations[j].id : j \in DOMAIN d.operations}
<1>1. o \in all /\ \A x \in all : x.id = o.id => x = o
  OBVIOUS
<1>2. OfId(o.id) = o
  <2> HIDE DEF all, o
  <2> QED
    BY <1>1
<1>3. o.id \in ids
  OBVIOUS
<1>4. gatewayDocument(d).operations = [id \in ids |->
            [mode |-> Missing, target |-> OfId(id).target,
             policies |-> IF OfId(id).inherit THEN Absent ELSE Serialized(OfId(id).policies)]]
  BY DEF gatewayDocument
<1> HIDE DEF OfId, ids, o
<1> QED
  BY <1>2, <1>3, <1>4 DEF OverrideOf, o

\* A configuration whose document compiles comes back from the form as it
\* was: the panel refuses it for a target that is empty, or for defaults that
\* list no policy, and otherwise sends what compiles to the same operations.
LEMMA ImportBehaves ==
    ASSUME NEW d, IsDraft(d), NEW g, IsPolicies(g.defaults), EmptyPath \in Unrooted,
           \A id \in DOMAIN g.operations : IsPolicies(g.operations[id].policies),
           \A i \in DOMAIN d.document.operations : d.document.operations[i].path # Missing,
           compileProxyBundle(d.document, g, FALSE).code = "compiled"
    PROVE  BehavesAs(hydrateGatewaySource(applyOpenApiInspection(d, d.document), g), g)
<1> DEFINE next == hydrateGatewaySource(applyOpenApiInspection(d, d.document), g)
           document == d.document
           offered == document.operations
           override(i) == OverrideOf(g, offered[i].id)
           target(i) == IF override(i).target = Missing THEN offered[i].path ELSE override(i).target
           back == gatewayDocument(next)
           direct == compileProxyBundle(document, g, FALSE)
           guided == compileProxyBundle(document, back, FALSE)
<1> HIDE DEF next
<1>0. IsImported(next, d, g)
  BY ImportedDraft DEF next
<1>1. /\ next.document = document /\ next.base = g.base
      /\ next.defaults = policiesFromUnknown(g.defaults.list)
      /\ DOMAIN next.operations = DOMAIN offered
      /\ \A i \in DOMAIN offered :
            /\ next.operations[i].id = offered[i].id
            /\ next.operations[i].path = offered[i].path
            /\ next.operations[i].target = target(i)
            /\ next.operations[i].inherit = Inherits(g, offered[i].id)
            /\ next.operations[i].policies = policiesFromUnknown(override(i).policies.list)
  BY <1>0 DEF IsImported
<1> HIDE DEF direct, guided
<1>2. /\ Inspects(document) /\ GatewayCompiles(document, g, FALSE)
      /\ direct.basePath = normalizeBasePath(g.base)
      /\ direct.operations = [i \in DOMAIN offered |-> CompiledOperation(offered[i], g, FALSE)]
  BY CompiledIsAccepted DEF direct
<1>3. \A i, j \in DOMAIN offered : offered[i].id = offered[j].id => i = j
  BY <1>2 DEF Inspects
<1>4. /\ back.base = g.base
      /\ back.defaults = Serialized(policiesFromUnknown(g.defaults.list))
      /\ DOMAIN back.operations = IdsOf(document)
  BY <1>1 DEF gatewayDocument, IdsOf
<1>5. ASSUME NEW i \in DOMAIN offered
      PROVE  /\ OverrideOf(back, offered[i].id).mode = Missing
             /\ OverrideOf(back, offered[i].id).target = target(i)
             /\ OverrideOf(back, offered[i].id).policies =
                   IF override(i).policies.given
                   THEN Serialized(policiesFromUnknown(override(i).policies.list)) ELSE Absent
  <2>1. \A j \in DOMAIN next.operations : next.operations[j].id = next.operations[i].id => j = i
    BY <1>1, <1>3
  <2>2. OverrideOf(back, next.operations[i].id)
          = [mode |-> Missing, target |-> next.operations[i].target,
             policies |-> IF next.operations[i].inherit THEN Absent
                          ELSE Serialized(next.operations[i].policies)]
    BY <1>1, <2>1, SerializedOperation
  <2>3. next.operations[i].inherit <=> ~override(i).policies.given
    BY <1>1 DEF Inherits
  <2> HIDE DEF back, target, override
  <2> QED
    BY <1>1, <2>2, <2>3
<1> HIDE DEF back
<1>6. ASSUME NEW i \in DOMAIN offered
      PROVE  /\ IsPolicies(override(i).policies)
             /\ PoliciesCompile(override(i).policies, FALSE) /\ override(i).mode = Missing
             /\ target(i) \notin {Missing, EmptyPath} => validateTargetPath(offered[i].path, target(i))
             /\ target(i) # Missing
             /\ CompiledOperation(offered[i], g, FALSE).target = target(i)
  <2>1. IsPolicies(override(i).policies)
    <3>1. CASE offered[i].id \in DOMAIN g.operations
      BY <3>1 DEF OverrideOf
    <3>2. CASE offered[i].id \notin DOMAIN g.operations
      <4>1. override(i).policies = [given |-> FALSE, list |-> <<>>]
        BY <3>2 DEF OverrideOf, NoOverride, Absent
      <4>2. IsPolicies([given |-> FALSE, list |-> <<>>])
        BY DEF IsPolicies
      <4> QED
        BY <4>1, <4>2
    <3> QED
      BY <3>1, <3>2
  <2>2. CompiledOperation(offered[i], g, FALSE).target = target(i)
    BY DEF CompiledOperation, ModeOf
  <2>3. target(i) # Missing
    OBVIOUS
  <2> HIDE DEF target
  <2> QED
    BY <1>2, <2>1, <2>2, <2>3 DEF GatewayCompiles, OperationCompiles
<1>7. CASE ~g.defaults.given
  <2>1. g.defaults.list = <<>>
    BY <1>7 DEF IsPolicies
  <2>2. DOMAIN policiesFromUnknown(g.defaults.list) = {}
    <3>1. IsPolicies(g.defaults) /\ \A i \in DOMAIN g.defaults.list : FALSE
      BY <2>1
    <3>2. policiesFromUnknown(g.defaults.list)
            = [i \in DOMAIN g.defaults.list |-> editablePolicyFromUnknown(g.defaults.list[i])]
      BY <3>1, KnownAreRead
    <3> QED
      BY <2>1, <3>1, <3>2
  <2>3. Authentications(next.defaults) = {}
    BY <1>1, <2>1, <2>2 DEF Authentications
  <2>4. ~validateRoutingDraft(next)
    BY <2>3, FS_EmptySet DEF validateRoutingDraft, validatePolicies
  <2> QED
    BY <1>7, <2>4 DEF BehavesAs, next
<1>8. CASE g.defaults.given
  <2>1. /\ compilePolicies(back.defaults) = compilePolicies(g.defaults)
        /\ PoliciesCompile(back.defaults, FALSE) /\ validatePolicies(next.defaults)
    BY <1>1, <1>2, <1>4, <1>8, PoliciesComeBack DEF GatewayCompiles
  <2>2. ASSUME NEW i \in DOMAIN offered
        PROVE  /\ CompiledOperation(offered[i], back, FALSE) = CompiledOperation(offered[i], g, FALSE)
               /\ OperationCompiles(offered[i], back, FALSE)
               /\ next.operations[i].inherit \/ validatePolicies(next.operations[i].policies)
    <3> DEFINE returned == OverrideOf(back, offered[i].id)
    <3> HIDE DEF target, override, returned
    <3>1. /\ returned.mode = Missing /\ returned.target = target(i)
          /\ returned.policies = IF override(i).policies.given
                THEN Serialized(policiesFromUnknown(override(i).policies.list)) ELSE Absent
      BY <1>5 DEF returned
    <3>2. override(i).policies.given =>
             /\ compilePolicies(returned.policies) = compilePolicies(override(i).policies)
             /\ PoliciesCompile(returned.policies, FALSE)
             /\ validatePolicies(next.operations[i].policies)
      BY <1>1, <1>6, <3>1, PoliciesComeBack
    <3>3. returned.policies.given <=> override(i).policies.given
      BY <3>1 DEF Serialized, Absent
    <3>4. PoliciesOf(back, returned) = PoliciesOf(g, override(i))
      BY <2>1, <3>2, <3>3 DEF PoliciesOf
    <3>5. PoliciesCompile(returned.policies, FALSE)
      BY <3>2, <3>3 DEF PoliciesCompile
    <3>6. CompiledOperation(offered[i], g, FALSE)
            = [id |-> offered[i].id, method |-> offered[i].method, path |-> offered[i].path,
               mode |-> "forward", target |-> target(i), policies |-> PoliciesOf(g, override(i))]
      BY DEF CompiledOperation, ModeOf, target, override
    <3>7. CompiledOperation(offered[i], back, FALSE)
            = [id |-> offered[i].id, method |-> offered[i].method, path |-> offered[i].path,
               mode |-> "forward", target |-> IF returned.target = Missing THEN offered[i].path
                                              ELSE returned.target,
               policies |-> PoliciesOf(back, returned)]
      BY DEF CompiledOperation, ModeOf, returned
    <3>8. CompiledOperation(offered[i], back, FALSE) = CompiledOperation(offered[i], g, FALSE)
      BY <1>6, <3>1, <3>4, <3>6, <3>7
    <3>9. OperationCompiles(offered[i], back, FALSE)
      <4>1. /\ CompiledOperation(offered[i], back, FALSE).mode = "forward"
            /\ CompiledOperation(offered[i], back, FALSE).target = target(i)
        <5> DEFINE there == CompiledOperation(offered[i], back, FALSE)
                   here == CompiledOperation(offered[i], g, FALSE)
        <5>1. here.mode = "forward" /\ here.target = target(i)
          BY <1>6 DEF CompiledOperation, ModeOf
        <5> HIDE DEF here, there
        <5>2. there = here
          BY <3>8 DEF here, there
        <5>3. there.mode = "forward" /\ there.target = target(i)
          BY <5>1, <5>2
        <5> QED
          BY <5>3 DEF there
      <4> QED
        BY <1>6, <3>1, <3>5, <4>1 DEF OperationCompiles, returned
    <3>10. next.operations[i].inherit \/ validatePolicies(next.operations[i].policies)
      BY <1>1, <3>2 DEF Inherits, override
    <3> QED
      BY <3>8, <3>9, <3>10
  <2>3. GatewayCompiles(document, back, FALSE)
    BY <1>2, <1>4, <2>1, <2>2 DEF GatewayCompiles
  <2>4. /\ guided.code = "compiled" /\ guided.basePath = normalizeBasePath(g.base)
        /\ guided.operations = [i \in DOMAIN offered |-> CompiledOperation(offered[i], back, FALSE)]
    <3>1. guided.code = "compiled"
      BY <1>2, <2>3, CompiledIsAccepted DEF guided
    <3>2. /\ guided.basePath = normalizeBasePath(back.base)
          /\ guided.operations = [i \in DOMAIN offered |-> CompiledOperation(offered[i], back, FALSE)]
      BY <3>1, CompiledIsAccepted DEF guided
    <3> QED
      BY <1>4, <3>1, <3>2
  <2>5. guided.operations = direct.operations
    BY <1>2, <2>2, <2>4
  <2>6. CASE \E i \in DOMAIN offered : target(i) = EmptyPath
    <3>1. PICK i \in DOMAIN offered : target(i) = EmptyPath
      BY <2>6
    <3> HIDE DEF target, override
    <3>2. ~validateTargetPath(next.operations[i].path, next.operations[i].target)
      BY <1>1, <3>1 DEF validateTargetPath
    <3>3. ~validateRoutingDraft(next)
      BY <1>1, <3>2 DEF validateRoutingDraft
    <3>4. i \in DOMAIN direct.operations /\ direct.operations[i].target = EmptyPath
      BY <1>2, <1>6, <3>1
    <3> QED
      BY <1>1, <3>3, <3>4 DEF BehavesAs, next, direct
  <2>7. CASE \A i \in DOMAIN offered : target(i) # EmptyPath
    <3> HIDE DEF target, override
    <3>1. \A i \in DOMAIN offered :
             validateTargetPath(next.operations[i].path, next.operations[i].target)
      BY <1>1, <1>6, <2>7
    <3>2. next.base.rooted /\ ~next.base.marked
      BY <1>1, <1>2 DEF GatewayCompiles
    <3>3. validateRoutingDraft(next)
      BY <1>1, <2>1, <2>2, <3>1, <3>2 DEF validateRoutingDraft
    <3> QED
      BY <1>1, <1>2, <2>4, <2>5, <3>3 DEF BehavesAs, next, direct, guided, back
  <2> QED
    BY <2>6, <2>7
<1> QED
  BY <1>7, <1>8

-----------------------------------------------------------------------------
\* A request that is out: an inspection carries at most one import, the others
\* the configuration made of the draft, and a creation the one that was shown.
RequestSound(r) ==
    /\ IsDraft(r.draft) /\ r.draft.document \in Documents \cup {NoDocument}
    /\ IF r.kind = "inspect" THEN r.gateways = {} \/ \E g \in Imports : r.gateways = {g}
       ELSE \E g : r.gateways = {g} /\ AbsentAreEmpty(g)
    /\ r.kind = "create" => \A g \in r.gateways : \E v \in r.shown : v.gateway = g

DraftSound ==
    /\ IsDraft(draft) /\ draft.document \in Documents \cup {NoDocument}
    /\ imported \subseteq Imports /\ ImportsKeepBehaviour

CreationInv ==
    /\ step \in 0 .. 4 /\ highest \in 0 .. 3 /\ edits \in 0 .. MaxEdits
    /\ DraftSound
    /\ pending = {} \/ \E g \in Imports : pending = {g}
    /\ validated = {} \/ \E v : validated = {v}
    /\ sent = {} \/ \E r : sent = {r} /\ RequestSound(r)
    /\ ConfigurationWasShown

LEMMA CreationIsTyped == CreationInv => CreationTypeOK
<1> SUFFICES ASSUME CreationInv PROVE CreationTypeOK
  OBVIOUS
<1>1. \A S : (S = {} \/ \E x : S = {x}) => Cardinality(S) <= 1
  <2> SUFFICES ASSUME NEW S, S = {} \/ \E x : S = {x} PROVE Cardinality(S) <= 1
    OBVIOUS
  <2>1. CASE S = {}
    BY <2>1, FS_EmptySet
  <2>2. CASE \E x : S = {x}
    <3>1. PICK x : S = {x}
      BY <2>2
    <3>2. Cardinality({x}) = 1
      BY FS_Singleton
    <3> QED
      BY <3>1, <3>2
  <2> QED
    BY <2>1, <2>2
<1>2. Cardinality(pending) <= 1 /\ Cardinality(validated) <= 1 /\ Cardinality(sent) <= 1
  BY <1>1 DEF CreationInv
<1>3. pending \subseteq Imports
  BY DEF CreationInv
<1> QED
  BY <1>2, <1>3 DEF CreationTypeOK, CreationInv, DraftSound

\* Absent lists of an import and of what the panel serializes are empty.
LEMMA ImportsAreEmptyWhereAbsent == ASSUME NEW g \in Imports PROVE AbsentAreEmpty(g)
  BY CreationAssumption DEF AbsentAreEmpty, IsPolicies

LEMMA SerializedIsEmptyWhereAbsent == ASSUME NEW d PROVE AbsentAreEmpty(gatewayDocument(d))
<1> DEFINE g == gatewayDocument(d)
           ids == {d.operations[i].id : i \in DOMAIN d.operations}
           OfId(id) == CHOOSE o \in {d.operations[i] : i \in DOMAIN d.operations} : o.id = id
<1>1. /\ g.defaults = Serialized(d.defaults)
      /\ g.operations = [id \in ids |->
            [mode |-> Missing, target |-> OfId(id).target,
             policies |-> IF OfId(id).inherit THEN Absent ELSE Serialized(OfId(id).policies)]]
  BY DEF gatewayDocument
<1> HIDE DEF g, ids, OfId
<1>2. g.defaults.given
  BY <1>1 DEF Serialized
<1>3. ASSUME NEW id \in DOMAIN g.operations
      PROVE  g.operations[id].policies.given \/ g.operations[id].policies.list = <<>>
  <2>1. g.operations[id].policies = IF OfId(id).inherit THEN Absent ELSE Serialized(OfId(id).policies)
    BY <1>1
  <2> QED
    BY <2>1 DEF Absent, Serialized
<1> QED
  BY <1>2, <1>3 DEF AbsentAreEmpty, g

LEMMA CreationImplies == CreationInv => CreationIsSound
<1> SUFFICES ASSUME CreationInv PROVE BundlesAreServable
  BY DEF CreationIsSound, CreationInv, DraftSound
<1>1. ASSUME NEW r \in sent, NEW g \in r.gateways
      PROVE  AbsentAreEmpty(g)
  <2>1. RequestSound(r)
    BY DEF CreationInv
  <2> QED
    BY <2>1, ImportsAreEmptyWhereAbsent DEF RequestSound
<1> QED
  BY <1>1, CompiledAuthenticates, CompiledLoads DEF BundlesAreServable

\* The verdict on a request is that on its sources.
LEMMA VerdictIs ==
    ASSUME NEW r, NEW g, r.gateways = {g}
    PROVE  Verdict(r) = compileProxyBundle(r.draft.document, g, FALSE).code
<1>1. (CHOOSE x \in r.gateways : TRUE) = g
  OBVIOUS
<1> QED
  BY <1>1 DEF Verdict

-----------------------------------------------------------------------------
LEMMA CreationInitially == CreationInit => CreationInv
  BY CreationAssumption DEF CreationInit, CreationInv, DraftSound, IsDraft, ImportsKeepBehaviour,
                            ConfigurationWasShown

\* What leaves the draft and what was created alone.
LEMMA SameDraft ==
    ASSUME DraftSound, UNCHANGED <<draft, imported>> PROVE DraftSound'
  BY DEF DraftSound, IsDraft, ImportsKeepBehaviour

LEMMA SameCreated ==
    ASSUME ConfigurationWasShown, UNCHANGED created PROVE ConfigurationWasShown'
  BY DEF ConfigurationWasShown

LEMMA EditKeeps ==
    ASSUME CreationInv, NEW next, Edit(next), IsDraft(next),
           next.document \in Documents \cup {NoDocument}
    PROVE  CreationInv'
<1>1. /\ IsDraft(draft') /\ draft'.document \in Documents \cup {NoDocument}
      /\ imported' = {}
  BY DEF Edit
<1>2. ImportsKeepBehaviour'
  BY <1>1 DEF ImportsKeepBehaviour
<1>3. DraftSound'
  BY <1>1, <1>2 DEF DraftSound, IsDraft
<1>4. step' \in 0 .. 4 /\ highest' \in 0 .. 3 /\ edits' \in 0 .. MaxEdits
  BY CreationAssumption DEF Edit, CreationInv
<1> QED
  BY <1>3, <1>4, SameCreated DEF CreationInv, Edit

LEMMA AskingKeeps ==
    ASSUME CreationInv, NEW r, SendRequest(r), RequestSound(r) PROVE CreationInv'
  BY SameDraft, SameCreated DEF CreationInv, SendRequest

LEMMA DocumentSet ==
    ASSUME NEW d, IsDraft(d), NEW document, NEW offered
    PROVE  LET next == [d EXCEPT !.document = document, !.operations = offered]
           IN IsDraft(next) /\ next.document = document
<1> DEFINE one == [d EXCEPT !.document = document]
           next == [one EXCEPT !.operations = offered]
<1>1. IsDraft(one) /\ one.document = document
  BY DEF IsDraft
<1>2. [d EXCEPT !.document = document, !.operations = offered] = next
  OBVIOUS
<1> HIDE DEF one
<1>3. IsDraft(next) /\ next.document = document
  BY <1>1 DEF IsDraft
<1> HIDE DEF next
<1> QED
  BY <1>2, <1>3

LEMMA UserStepKeeps ==
    ASSUME CreationInv, step < 4, UserStep PROVE CreationInv'
<1>1. /\ IsDraft(draft) /\ draft.document \in Documents \cup {NoDocument}
  BY DEF CreationInv, DraftSound
<1>2. CASE \E d \in Documents : SetDocument(d)
  <2>1. PICK d \in Documents : SetDocument(d)
    BY <1>2
  <2> DEFINE next == [draft EXCEPT !.document = d, !.operations = <<>>]
  <2>2. IsDraft(next) /\ next.document = d
    BY <1>1, DocumentSet
  <2>3. Edit(next)
    BY <2>1 DEF SetDocument
  <2> HIDE DEF next
  <2> QED
    BY <2>2, <2>3, EditKeeps
<1>3. CASE \E b \in Bases : SetBase(b)
  <2>1. PICK b \in Bases : SetBase(b)
    BY <1>3
  <2> DEFINE next == [draft EXCEPT !.base = b]
  <2>2. IsDraft(next) /\ next.document = draft.document
    BY <1>1 DEF IsDraft
  <2>3. Edit(next)
    BY <2>1 DEF SetBase
  <2> HIDE DEF next
  <2> QED
    BY <1>1, <2>2, <2>3, EditKeeps
<1>4. CASE \E ps \in Pipelines : SetDefaults(ps)
  <2>1. PICK ps \in Pipelines : SetDefaults(ps)
    BY <1>4
  <2> DEFINE next == [draft EXCEPT !.defaults = ps]
  <2>2. IsDraft(next) /\ next.document = draft.document
    BY <1>1 DEF IsDraft
  <2>3. Edit(next)
    BY <2>1 DEF SetDefaults
  <2> HIDE DEF next
  <2> QED
    BY <1>1, <2>2, <2>3, EditKeeps
<1>5. CASE \E i \in DOMAIN draft.operations, t \in Targets, inherit \in BOOLEAN, ps \in Pipelines :
               SetOperation(i, t, inherit, ps)
  <2>1. PICK i \in DOMAIN draft.operations, t \in Targets, inherit \in BOOLEAN, ps \in Pipelines :
               SetOperation(i, t, inherit, ps)
    BY <1>5
  <2> DEFINE next == [draft EXCEPT !.operations[i].target = t, !.operations[i].inherit = inherit,
                                   !.operations[i].policies = ps]
             set == [draft.operations EXCEPT ![i].target = t, ![i].inherit = inherit,
                                             ![i].policies = ps]
  <2>2. IsDraft(next) /\ next.document = draft.document
    <3>1. next = [draft EXCEPT !.operations = set]
      BY <1>1 DEF IsDraft
    <3> HIDE DEF next, set
    <3> QED
      BY <1>1, <3>1 DEF IsDraft
  <2>3. Edit(next)
    BY <2>1 DEF SetOperation
  <2> HIDE DEF next
  <2> QED
    BY <1>1, <2>2, <2>3, EditKeeps
<1>6. CASE \E g \in Imports : ImportGateway(g)
  BY <1>6, CreationAssumption, SameDraft, SameCreated DEF ImportGateway, CreationInv
<1>7. CASE \E n \in 0 .. 3 : goToStep(n)
  BY <1>7, SameDraft, SameCreated DEF goToStep, CreationInv
<1>8. CASE ContinueIdentity
  BY <1>8, SameDraft, SameCreated DEF ContinueIdentity, advance, CreationInv
<1>9. CASE ContinueDefinition
  <2>1. RequestSound(Request("inspect", pending))
    BY <1>1 DEF RequestSound, Request, CreationInv
  <2> QED
    BY <1>9, <2>1, AskingKeeps DEF ContinueDefinition
<1>10. CASE ContinueRouting
  <2>1. RequestSound(Request("compile", {gatewayDocument(draft)}))
    BY <1>1, SerializedIsEmptyWhereAbsent DEF RequestSound, Request
  <2> QED
    BY <1>10, <2>1, AskingKeeps DEF ContinueRouting
<1>11. CASE FinishCreation
  <2>1. RequestSound(Request("create", {gatewayDocument(draft)}))
    BY <1>1, <1>11, SerializedIsEmptyWhereAbsent DEF RequestSound, Request, FinishCreation
  <2> QED
    BY <1>11, <2>1, AskingKeeps DEF FinishCreation
<1> QED
  BY <1>2, <1>3, <1>4, <1>5, <1>6, <1>7, <1>8, <1>9, <1>10, <1>11 DEF UserStep

-----------------------------------------------------------------------------
LEMMA InspectedKeeps ==
    ASSUME CreationInv, NEW r \in sent, RequestSound(r), r.kind = "inspect", Inspected(r),
           sent' = {}, UNCHANGED edits
    PROVE  CreationInv'
<1>1. step' = 2 /\ highest' \in 0 .. 3 /\ UNCHANGED <<validated, created>>
  BY DEF Inspected, advance, CreationInv
<1> DEFINE next == applyOpenApiInspection(r.draft, r.draft.document)
<1>2. IsDraft(r.draft) /\ r.draft.document \in Documents \cup {NoDocument}
  BY DEF RequestSound
<1>3. DraftSound' /\ (pending' = {} \/ UNCHANGED pending)
  <2>1. CASE r.gateways = {}
    <3>1. draft' = next /\ imported' = {} /\ UNCHANGED pending
      BY <2>1 DEF Inspected
    <3>2. IsDraft(next) /\ next.document = r.draft.document
      BY <1>2, AppliedDraft
    <3> HIDE DEF next
    <3>3. IsDraft(draft') /\ draft'.document \in Documents \cup {NoDocument}
      BY <1>2, <3>1, <3>2
    <3>4. ImportsKeepBehaviour'
      BY <3>1 DEF ImportsKeepBehaviour
    <3> QED
      BY <3>1, <3>3, <3>4 DEF DraftSound, IsDraft
  <2>2. CASE r.gateways # {}
    <3>1. PICK g \in Imports : r.gateways = {g}
      BY <2>2 DEF RequestSound
    <3>2. draft' = hydrateGatewaySource(next, g) /\ imported' = {g} /\ pending' = {}
      BY <2>2, <3>1 DEF Inspected
    <3>3. compileProxyBundle(r.draft.document, g, FALSE).code = "compiled"
      BY <3>1, VerdictIs DEF Inspected
    <3>4. \A i \in DOMAIN r.draft.document.operations :
             r.draft.document.operations[i].path # Missing
      BY <1>2, CreationAssumption DEF NoDocument
    <3>5. /\ IsPolicies(g.defaults) /\ EmptyPath \in Unrooted
          /\ \A id \in DOMAIN g.operations : IsPolicies(g.operations[id].policies)
      BY CreationAssumption
    <3>6. BehavesAs(hydrateGatewaySource(next, g), g)
      BY <1>2, <3>3, <3>4, <3>5, ImportBehaves
    <3>7. IsImported(hydrateGatewaySource(next, g), r.draft, g)
      BY <1>2, ImportedDraft
    <3> HIDE DEF next
    <3>8. IsDraft(draft') /\ draft'.document \in Documents \cup {NoDocument}
      BY <1>2, <3>2, <3>7 DEF IsImported
    <3>9. ImportsKeepBehaviour'
      <4>1. BehavesAs(draft', g)
        BY <3>2, <3>6
      <4> QED
        BY <3>2, <4>1 DEF ImportsKeepBehaviour, BehavesAs
    <3> QED
      BY <3>2, <3>8, <3>9 DEF DraftSound, IsDraft
  <2> QED
    BY <2>1, <2>2
<1> QED
  BY <1>1, <1>3, SameCreated DEF CreationInv

LEMMA CreatedKeeps ==
    ASSUME ConfigurationWasShown, NEW r, RequestSound(r), r.kind = "create", CreatedAnswer(r)
    PROVE  ConfigurationWasShown'
<1>1. PICK g : r.gateways = {g}
  BY DEF RequestSound
<1>2. compileProxyBundle(r.draft.document, g, FALSE).code = "compiled"
  BY <1>1, VerdictIs DEF CreatedAnswer
<1>3. \E v \in r.shown : v.gateway = g
  BY <1>1 DEF RequestSound
<1>4. created' = created \cup {[document |-> r.draft.document, gateway |-> g, shown |-> r.shown]}
  BY <1>1 DEF CreatedAnswer, Written
<1> QED
  <2> DEFINE new == [document |-> r.draft.document, gateway |-> g, shown |-> r.shown]
             WasShown(c) == /\ \E v \in c.shown : v.gateway = c.gateway
                         /\ compileProxyBundle(c.document, c.gateway, FALSE).code = "compiled"
  <2>1. WasShown(new)
    BY <1>2, <1>3
  <2>2. \A c \in created : WasShown(c)
    BY DEF ConfigurationWasShown
  <2> HIDE DEF new, WasShown
  <2>3. \A c \in created' : WasShown(c)
    BY <1>4, <2>1, <2>2 DEF new
  <2> QED
    BY <2>3 DEF ConfigurationWasShown, WasShown

LEMMA TakeAnswerKeeps == ASSUME CreationInv, TakeAnswer PROVE CreationInv'
<1>1. PICK r \in sent : \/ HandleFailure(r)
                        \/ r.kind = "inspect" /\ Inspected(r)
                        \/ r.kind = "compile" /\ CompiledAnswer(r)
                        \/ r.kind = "create" /\ CreatedAnswer(r)
  BY DEF TakeAnswer
<1>2. sent' = {} /\ UNCHANGED edits
  BY DEF TakeAnswer
<1>3. RequestSound(r)
  BY DEF CreationInv
<1>4. CASE HandleFailure(r)
  BY <1>2, <1>4, SameDraft, SameCreated DEF HandleFailure, CreationInv
<1>5. CASE r.kind = "inspect" /\ Inspected(r)
  BY <1>2, <1>3, <1>5, InspectedKeeps
<1>6. CASE r.kind = "compile" /\ CompiledAnswer(r)
  BY <1>2, <1>6, SameDraft, SameCreated DEF CompiledAnswer, advance, CreationInv
<1>7. CASE r.kind = "create" /\ CreatedAnswer(r)
  <2>1. ConfigurationWasShown'
    BY <1>3, <1>7, CreatedKeeps DEF CreationInv
  <2> QED
    BY <1>2, <1>7, <2>1, SameDraft DEF CreatedAnswer, CreationInv
<1> QED
  BY <1>1, <1>4, <1>5, <1>6, <1>7

LEMMA CreationInductive == CreationInv /\ [CreationNext]_creationVars => CreationInv'
<1> SUFFICES ASSUME CreationInv, [CreationNext]_creationVars PROVE CreationInv'
  OBVIOUS
<1>1. CASE UNCHANGED creationVars
  BY <1>1, SameDraft, SameCreated DEF creationVars, CreationInv
<1> QED
  BY <1>1, UserStepKeeps, TakeAnswerKeeps DEF CreationNext

LEMMA CreationInvariant == CreationSpec => []CreationInv
<1> QED
  BY CreationInitially, CreationInductive, PTL DEF CreationSpec

(* A proxy's configuration is one whose validation was on the screen, and  *)
(* compiles; a draft an import replaced compiles to what the import does,  *)
(* unless the panel refuses it for an empty target or absent defaults; what*)
(* the server accepts authenticates once and loads, but for the cases      *)
(* AuthenticatesOnce and LoadsUnless name, however edits, navigation and   *)
(* late answers overlap.                                                   *)
(* proxy-creation.ts, proxy-creation-studio.tsx and proxy-bundle.ts.       *)
THEOREM CreationSound == CreationSpec => []CreationIsSound
<1> QED
  BY CreationInvariant, CreationImplies, PTL

-----------------------------------------------------------------------------
(***************************************************************************)
(* The components together.  Whatever moves, moves by its own steps.       *)
(***************************************************************************)

LEMMA EachTakesItsSteps ==
    ASSUME [Next]_componentVars
    PROVE  /\ [AssertionNext]_assertionVars /\ [DeveloperNext]_developerVars
           /\ [RateNext]_rateVars /\ [RequestNext]_requestVars /\ [AgentNext]_agentVars
           /\ [IdentityNext]_identityVars /\ [ConnectionNext]_connectionVars
           /\ [EgressNext]_egressVars /\ [CreationNext]_creationVars
           /\ [PlaygroundNext]_playgroundVars /\ [LabCertificatesNext]_labCertificateVars
           /\ [ManagementNext]_managementVars
<1>1. CASE Next
  BY <1>1, Zenon DEF Next
<1>2. CASE UNCHANGED componentVars
  BY <1>2 DEF componentVars
<1> QED
  BY <1>1, <1>2

LEMMA EachBeginsAsItBegins ==
    Init => /\ AssertionInit /\ DeveloperInit /\ RateInit /\ RequestInit /\ AgentInit
            /\ IdentityInit /\ ConnectionInit /\ EgressInit /\ CreationInit
            /\ PlaygroundInit /\ LabCertificatesInit /\ ManagementInit
BY DEF Init

\* So a behaviour of all is one of each.
LEMMA EachIsOfItsOwn ==
    Spec => /\ AssertionSpec /\ DeveloperSpec /\ RateSpec /\ RequestSpec /\ AgentSpec
            /\ IdentitySpec /\ ConnectionSpec /\ EgressSpec /\ CreationSpec /\ ManagementSpec
<1>1. Init => /\ AssertionInit /\ DeveloperInit /\ RateInit /\ RequestInit /\ AgentInit
              /\ IdentityInit /\ ConnectionInit /\ EgressInit /\ CreationInit /\ ManagementInit
  BY EachBeginsAsItBegins
<1>2. [Next]_componentVars =>
          /\ [AssertionNext]_assertionVars /\ [DeveloperNext]_developerVars
          /\ [RateNext]_rateVars /\ [RequestNext]_requestVars /\ [AgentNext]_agentVars
          /\ [IdentityNext]_identityVars /\ [ConnectionNext]_connectionVars
          /\ [EgressNext]_egressVars /\ [CreationNext]_creationVars
          /\ [ManagementNext]_managementVars
  BY EachTakesItsSteps
<1> QED
  BY <1>1, <1>2, PTL
     DEF Spec, AssertionSpec, DeveloperSpec, RateSpec, RequestSpec, AgentSpec, IdentitySpec,
         ConnectionSpec, EgressSpec, CreationSpec, ManagementSpec

\* A call is served to who has earned it: at the local agent by pairing,
\* approval and a fresh request of the session (browser-auth.ts, agent.ts), at
\* the Management API by the memberships or the workspace its request was
\* authenticated with (authorization.ts, middleware.ts and every service).
THEOREM ComponentsAccessEarned == Spec => []AccessIsEarned
<1>1. AgentSpec => []CallsAreEarned
  BY AgentCallsAreEarned
<1>2. ManagementSpec => []TenantsStaySeparate
  BY ManagementInvariant, ManagementIsEarned, PTL
<1>3. CallsAreEarned /\ TenantsStaySeparate => AccessIsEarned
  BY DEF AccessIsEarned
<1> QED
  BY <1>1, <1>2, <1>3, EachIsOfItsOwn, PTL

\* The agent's files keep what was written to them unless two writes overlap
\* (trusted-client-store.ts, identity-store.ts).
THEOREM ComponentsFilesKept == Spec => []FilesAreKept
<1>1. OverlapAloneLoses /\ ListedIdentitiesWork => FilesAreKept
  BY DEF FilesAreKept
<1> QED
  BY <1>1, AgentOverlapAloneLoses, ListedIdentitiesHaveFiles, EachIsOfItsOwn, PTL

LEMMA PanelInvariant == Spec => [](PlaygroundInv /\ LabCertificatesInv)
<1>1. Init => PlaygroundInv /\ LabCertificatesInv
  BY EachBeginsAsItBegins, PlaygroundInitially, LabCertificatesInitially
<1>2. PlaygroundInv /\ LabCertificatesInv /\ [Next]_componentVars
        => PlaygroundInv' /\ LabCertificatesInv'
  BY EachTakesItsSteps, PlaygroundInductive, LabCertificatesInductive
<1> QED
  BY <1>1, <1>2, PTL DEF Spec

\* The panel's playgrounds act on pages that are out of date without doing
\* what the platform would not: a request reaches only a deployment live since
\* the click, for an operation of its own revision (playground-service.ts), and
\* a renewal never leaves an identity with a certificate it revoked itself
\* (lab-quick-playground.tsx).
THEOREM ComponentsPlaygroundsSafe == Spec => []PlaygroundsAreSafe
<1>1. PlaygroundInv /\ LabCertificatesInv => PlaygroundsAreSafe
  BY InvIsWorking DEF PlaygroundsAreSafe, PlaygroundInv
<1> QED
  BY <1>1, PanelInvariant, PTL

\* The state of each component is of the type its module states, whatever the
\* others do: pages, tables, files, Redis keys and requests in progress.
THEOREM ComponentsTyped == Spec => []ComponentsTypeOK
<1>1. AssertionSpec => []AssertionTypeOK
  <2>1. AssertionInv => AssertionTypeOK
    BY DEF AssertionInv
  <2>2. AssertionInv /\ [AssertionNext]_assertionVars => AssertionInv'
    BY AssertionStep
  <2> QED
    BY <2>1, <2>2, AssertionInitially, PTL DEF AssertionSpec
<1>2. RateSpec => []RateTypeOK
  <2>1. RateInit => Bounded
    BY RateAssumption DEF RateInit, Bounded
  <2>2. RateInv => RateTypeOK
    BY DEF RateInv
  <2> QED
    BY <2>1, <2>2, RateInitially, BoundedAlways, RateNextKeeps, PTL DEF RateSpec
<1>3. EgressSpec => []EgressTypeOK
  <2>1. EgressInv => EgressTypeOK
    BY DEF EgressInv
  <2> QED
    BY <2>1, EgressInvariant, PTL
<1>4. CreationSpec => []CreationTypeOK
  BY CreationInvariant, CreationIsTyped, PTL
<1>5. ManagementSpec => []ManagementTypeOK
  <2>1. ManagementInv => ManagementTypeOK
    BY DEF ManagementInv
  <2> QED
    BY <2>1, ManagementInvariant, PTL
<1>6. Spec => [](PlaygroundTypeOK /\ LabCertificatesTypeOK)
  <2>1. PlaygroundInv => PlaygroundTypeOK
    BY DEF PlaygroundInv, PlaygroundTypeOK, CatalogOK, ViewOK, TrialOK, NoTrial
  <2> QED
    BY <2>1, PanelInvariant, InvIsTyped, PTL
<1>7. /\ AssertionTypeOK /\ DeveloperTypeOK /\ RateTypeOK /\ RequestTypeOK /\ AgentTypeOK
      /\ IdentityTypeOK /\ ConnectionTypeOK /\ EgressTypeOK /\ CreationTypeOK
      /\ PlaygroundTypeOK /\ LabCertificatesTypeOK /\ ManagementTypeOK
      => ComponentsTypeOK
  BY DEF ComponentsTypeOK
<1> QED
  BY <1>1, <1>2, <1>3, <1>4, <1>5, <1>6, <1>7, DeveloperIsTyped, RequestTypeCorrect,
     AgentTypeCorrect, IdentityTypeCorrect, ConnectionIsTyped, EachIsOfItsOwn, PTL
=============================================================================
