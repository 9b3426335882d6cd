---------------------------- MODULE RuntimeStatus ----------------------------
(***************************************************************************)
(* RuntimeSyncService.getStatus of management-api.  A call reads the       *)
(* latest version from PostgreSQL first and the status keys from Redis     *)
(* afterwards; everything may move between the two reads.                  *)
(***************************************************************************)
EXTENDS Reloader

VARIABLE asked   \* latestVersion read by the getStatus call under way

StatusInit == asked = 0

\* getStatus reads the latest version; its answer follows from asked and
\* from the status keys at any later moment.
GetStatus ==
    /\ \E v \in committed \cup {0} : IsLatest(v) /\ asked' = v

\* Mutant: only the state is compared.
SynchronizedByState(g) == status[g].state = "applied"

\* The "synchronized" field of an instance in the answer.
Synchronized(g) ==
    /\ status[g].state = "applied"
    /\ status[g].applied >= asked

StatusTypeOK == asked \in committed \cup {0}
=============================================================================
