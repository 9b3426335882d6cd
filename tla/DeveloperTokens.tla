--------------------------- MODULE DeveloperTokens ---------------------------
(***************************************************************************)
(* Developer multi-proxy tokens: DeveloperTokenService of the management   *)
(* API selects products and proxies, signs an assertion, exchanges it at a *)
(* gateway (the developer branch of the oauth-token policy) and records    *)
(* the issue.                                                              *)
(*                                                                         *)
(* The selection is read by queries that run at once, in any order, and    *)
(* the products' by three, one after the other: the rows, the proxies they *)
(* expose, their environments.  Meanwhile products are rewritten and       *)
(* proxies deployed and retired.  The gateway and the audit log are other  *)
(* systems: either call may fail, and the management API may stop between  *)
(* them.  The shared secret, the 30 seconds and the single use of the      *)
(* assertion are as in Assertions.  Scopes are left out: they are read     *)
(* with the products' rows and checked like the proxies.                   *)
(***************************************************************************)
EXTENDS FiniteSets

CONSTANTS
    Requests,    \* requests for a token, each issued at most one
    Products,    \* the products of the organization
    Proxies      \* its proxies

VARIABLES
    active,      \* the products that are active
    exposes,     \* [Products -> the proxies it contains]
    available,   \* the products for the environment asked for, or for all
    deployed,    \* the proxies that are active and deployed there
    selection,   \* [Requests -> phase, input and what was read]
    token,     \* [Requests -> the proxies of the token issued, {} for none]
    audited,   \* the requests with a developerToken.issue event
    held,      \* the requests whose token reached the developer
    been       \* history: [Requests -> what was true of its input meanwhile]

developerVars == <<active, exposes, available, deployed, selection, token, audited, held, been>>

SelectionPhases == {"idle", "reading", "signed", "issued", "done"}
Queries == {"products", "exposed", "environments", "proxies"}

DeveloperTypeOK ==
    /\ active \subseteq Products /\ available \subseteq Products
    /\ exposes \in [Products -> SUBSET Proxies]
    /\ deployed \subseteq Proxies
    /\ \A q \in Requests :
          /\ selection[q].phase \in SelectionPhases
          /\ selection[q].products \subseteq Products
          /\ selection[q].proxies \subseteq Proxies
          /\ selection[q].read \subseteq Queries
    /\ token \in [Requests -> SUBSET Proxies]
    /\ audited \subseteq Requests
    /\ held \subseteq Requests

Fresh == [phase |-> "idle", products |-> {}, proxies |-> {}, read |-> {}, facts |-> {}]

DeveloperInit ==
    /\ active \in SUBSET Products /\ available \in SUBSET Products
    /\ exposes \in [Products -> SUBSET Proxies]
    /\ deployed \in SUBSET Proxies
    /\ selection = [q \in Requests |-> Fresh]
    /\ token = [q \in Requests |-> {}]
    /\ audited = {} /\ held = {}
    /\ been = [q \in Requests |-> {}]

-----------------------------------------------------------------------------
rows == <<active, exposes, available, deployed>>
outcome == <<token, audited, held>>
Moves(q, phase) == selection' = [selection EXCEPT ![q].phase = phase]

\* A manager of a standard organization asks for products and proxies in a
\* qual environment.
Ask(q, ps, xs) ==
    /\ selection[q].phase = "idle"
    /\ ps # {} /\ xs # {}
    /\ selection' = [selection EXCEPT ![q] =
          [phase |-> "reading", products |-> ps, proxies |-> xs, read |-> {}, facts |-> {}]]
    /\ UNCHANGED <<rows, outcome>>

\* What a query finds of these products and proxies.
Found(what, ps, xs) ==
    CASE what = "products" -> {<<"active", p>> : p \in ps \cap active}
      [] what = "exposed" -> UNION {{<<"exposes", p, x>> : x \in xs \cap exposes[p]} : p \in ps}
      [] what = "environments" -> {<<"available", p>> : p \in ps \cap available}
      [] what = "proxies" -> {<<"deployed", x>> : x \in xs \cap deployed}

\* One of the queries of loadSelection is answered.  Proxies and environments
\* are read for the products that were found active.
loadSelection(q, what) ==
    LET s == selection[q]
        rowsFound == {p \in s.products : <<"active", p>> \in s.facts}
    IN
    /\ s.phase = "reading"
    /\ what \notin s.read
    /\ what = "exposed" => "products" \in s.read
    /\ what = "environments" => "exposed" \in s.read
    /\ selection' = [selection EXCEPT ![q] = [s EXCEPT
          !.read = @ \cup {what},
          !.facts = @ \cup Found(what, IF what = "products" THEN s.products ELSE rowsFound,
                                  s.proxies)]]
    /\ UNCHANGED <<rows, outcome>>

\* Mutant: a proxy need not be of a product that was selected.
signDeployed(q) ==
    LET s == selection[q] IN
    /\ s.phase = "reading"
    /\ s.read = Queries
    /\ \A p \in s.products : <<"active", p>> \in s.facts /\ <<"available", p>> \in s.facts
    /\ \A x \in s.proxies : <<"deployed", x>> \in s.facts
    /\ Moves(q, "signed")
    /\ UNCHANGED <<rows, outcome>>

\* Every product was found, available there, and every proxy was found
\* deployed and in one of the products.
SignAssertion(q) ==
    LET s == selection[q] IN
    /\ s.phase = "reading"
    /\ s.read = Queries
    /\ \A p \in s.products : <<"active", p>> \in s.facts /\ <<"available", p>> \in s.facts
    /\ \A x \in s.proxies :
          /\ \E p \in s.products : <<"exposes", p, x>> \in s.facts
          /\ <<"deployed", x>> \in s.facts
    /\ Moves(q, "signed")
    /\ UNCHANGED <<rows, outcome>>

\* The request is refused, or a call fails.
Fail(q) ==
    /\ selection[q].phase \in {"reading", "signed", "issued"}
    /\ Moves(q, "done")
    /\ UNCHANGED <<rows, outcome>>

\* The gateway exchanges the assertion; its answer may be lost.
ExchangeAtGateway(q, answered) ==
    /\ selection[q].phase = "signed"
    /\ token' = [token EXCEPT ![q] = selection[q].proxies]
    /\ Moves(q, IF answered THEN "issued" ELSE "done")
    /\ UNCHANGED <<rows, audited, held>>

\* recordIssue commits; then the token is returned.
recordIssue(q) ==
    /\ selection[q].phase = "issued"
    /\ audited' = audited \cup {q}
    /\ held' = held \cup {q}
    /\ Moves(q, "done")
    /\ UNCHANGED <<rows, token>>

\* An update of a product commits: any of its fields, proxies and environments
\* replaced as wholes.
RewriteProduct(p, on, xs, here) ==
    /\ active' = IF on THEN active \cup {p} ELSE active \ {p}
    /\ exposes' = [exposes EXCEPT ![p] = xs]
    /\ available' = IF here THEN available \cup {p} ELSE available \ {p}
    /\ UNCHANGED <<deployed, selection, outcome>>

\* A deployment, a retirement, or a change of the proxy's active flag.
SwitchDeployment(x) ==
    /\ deployed' = IF x \in deployed THEN deployed \ {x} ELSE deployed \cup {x}
    /\ UNCHANGED <<active, exposes, available, selection, outcome>>

\* What is true of the products and proxies of a request.
Known(q) == UNION {Found(what, selection[q].products, selection[q].proxies) : what \in Queries}

Remember == been' = [q \in Requests |->
    IF selection'[q].phase = "idle" THEN {}
    ELSE IF selection'[q].phase = "done" THEN been[q]
    ELSE been[q] \cup Known(q)']

DeveloperNext ==
    /\ \/ \E q \in Requests :
             \/ \E ps \in SUBSET Products, xs \in SUBSET Proxies : Ask(q, ps, xs)
             \/ Fail(q)
             \/ \E what \in Queries : loadSelection(q, what)
             \/ SignAssertion(q)
             \/ \E answered \in BOOLEAN : ExchangeAtGateway(q, answered)
             \/ recordIssue(q)
       \/ \E p \in Products, on \in BOOLEAN, xs \in SUBSET Proxies, here \in BOOLEAN :
             RewriteProduct(p, on, xs, here)
       \/ \E x \in Proxies : SwitchDeployment(x)
    /\ Remember

DeveloperSpec == DeveloperInit /\ [][DeveloperNext]_developerVars

-----------------------------------------------------------------------------
\* A developer only ever holds a token whose issue is in the audit log, and
\* the log names only issues whose token exists.  (The converse fails: a token
\* whose answer was lost is honoured and not in the log.)  Though products are
\* rewritten and proxies retired between the queries, every product of a token
\* was active, and was for the environment, and each of its proxies was
\* deployed, and in one of the products asked for, at some moment of the
\* request; not necessarily at one moment.
TokensAreAccounted ==
    /\ held \subseteq audited /\ \A q \in audited : token[q] # {}
    /\ \A q \in Requests : token[q] # {} =>
          /\ \A p \in selection[q].products : {<<"active", p>>, <<"available", p>>} \subseteq been[q]
          /\ \A x \in token[q] :
                /\ <<"deployed", x>> \in been[q]
                /\ \E p \in selection[q].products : <<"exposes", p, x>> \in been[q]
=============================================================================
