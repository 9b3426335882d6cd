--------------------------- MODULE MCApplications ---------------------------
(***************************************************************************)
(* Instances of Applications for TLC.  The initial state chooses between   *)
(* two: overlapping requests of both sessions on the rows of one           *)
(* credential, at one moment; and one request at a time, with a second     *)
(* credential to clone, a public key, expiry and time.                     *)
(***************************************************************************)
EXTENDS Applications, FiniteSets, TLC

CONSTANTS o1, o2, a1, c1, c2, p1, r1, x1, k1, s1, s2

VARIABLE focus

\* The proxy r1 is of the second organization, everything else of the first.
Org == [i \in Apps \cup Products \cup Proxies |-> IF i = r1 THEN o2 ELSE o1]

\* Both sessions manage the first organization, s2 the second one too.
Managed == [s \in Sessions |-> IF s = s2 THEN {o1, o2} ELSE {o1}]

SomeExpiries == {1, Never}
AnyFields == SUBSET ProductFields

Offered == [exists |-> TRUE, active |-> TRUE, scopes |-> {x1}, proxies |-> {}, environments |-> {}]

\* The part of the state space the focus explores.
InFocus ==
    CASE focus = "overlap" ->
            /\ now = 0
            /\ keyStatus[c1][k1] = "absent"
            /\ credential[c2] = NoCredential
            /\ credential[c1].expires \in {0, Never}
            /\ \A s \in Sessions :
                  /\ tx[s].op # "key"
                  /\ tx[s].op = "product" => "environments" \notin tx[s].fields
                  /\ tx[s].op \in {"insert", "credential"} =>
                        tx[s].credential = c1 /\ tx[s].expires = Never
      [] focus = "alone" ->
            /\ tx[s2] = Idle
            /\ product[p1] \in {NoProduct, Offered}
            /\ tx[s1].op = "product" => FALSE
            /\ \A c \in Credentials :
                  /\ credential[c].secret = 0
                  /\ c = c2 => keyStatus[c][k1] = "absent"
            /\ tx[s1].op \in {"credential"} =>
                  "key" \notin tx[s1].fields /\ Cardinality(tx[s1].fields) = 1
            /\ tx[s1].op \in {"insert"} =>
                  (tx[s1].credential = c2) = Exists(c1)
            /\ tx[s1].op = "key" => tx[s1].credential = c1

Init == ApplicationInit /\ focus \in {"overlap", "alone"}
Next == ApplicationNext /\ UNCHANGED focus /\ InFocus'
Spec == Init /\ [][Next]_<<applicationVars, focus>>
=============================================================================
