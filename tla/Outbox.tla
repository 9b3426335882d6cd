------------------------------- MODULE Outbox -------------------------------
(***************************************************************************)
(* The transactional outbox of gateway configuration changes (table        *)
(* GatewayConfigChange of PostgreSQL).  A control-plane transaction that   *)
(* changes routing inserts one row.  The row's version comes from an       *)
(* autoincrement sequence, which PostgreSQL advances when the INSERT runs  *)
(* and never rolls back, while the row becomes visible to everyone else    *)
(* only when the transaction commits.                                      *)
(*                                                                         *)
(* A committed version stands here both for the outbox row and for the     *)
(* routing change that the same transaction made.                          *)
(***************************************************************************)
EXTENDS Naturals, FiniteSets

CONSTANTS
    MaxVersion,   \* bound on the number of changes recorded in a behaviour
    BatchLimit    \* rows listPendingGatewayConfigChanges returns at most

ASSUME OutboxAssumption ==
    /\ MaxVersion \in Nat
    /\ BatchLimit \in Nat \ {0}

VARIABLES
    nextVersion,  \* the next value of the sequence
    inflight,     \* versions inserted by transactions that are still open
    committed,    \* versions whose transaction has committed
    overtaken,    \* history: versions that committed after a higher one
    published     \* committed rows with publishedAt set

outboxVars == <<nextVersion, inflight, committed, overtaken, published>>

Versions == 1 .. MaxVersion

OutboxInit ==
    /\ nextVersion = 1
    /\ inflight = {}
    /\ committed = {}
    /\ overtaken = {}
    /\ published = {}

\* A routing transaction inserts its outbox row.
recordGatewayConfigChange ==
    /\ nextVersion <= MaxVersion
    /\ inflight' = inflight \cup {nextVersion}
    /\ nextVersion' = nextVersion + 1
    /\ UNCHANGED <<committed, overtaken, published>>

\* The transaction of version v commits: its row and its routing change
\* become visible together.
Commit(v) ==
    /\ v \in inflight
    /\ inflight' = inflight \ {v}
    /\ committed' = committed \cup {v}
    /\ overtaken' = IF \E w \in committed : w > v
                    THEN overtaken \cup {v} ELSE overtaken
    /\ UNCHANGED <<nextVersion, published>>

\* The transaction rolls back: its version is never used again.
Rollback(v) ==
    /\ v \in inflight
    /\ inflight' = inflight \ {v}
    /\ UNCHANGED <<nextVersion, committed, overtaken, published>>

\* getLatestGatewayConfigVersion returns v (0 for an empty table).
IsLatest(v) ==
    /\ v \in committed \cup {0}
    /\ \A w \in committed : w <= v

\* Mutant: pending rows are those above the last published one (a cursor).
IsPendingBatchAfterCursor(B) ==
    LET pending == {v \in committed : \A w \in published : w < v} IN
    /\ B \subseteq pending
    /\ Cardinality(B) <= BatchLimit
    /\ B = pending \/ Cardinality(B) = BatchLimit
    /\ \A v \in B, w \in pending \ B : v < w

\* listPendingGatewayConfigChanges returns the rows B: the lowest unpublished
\* versions, at most BatchLimit of them.
IsPendingBatch(B) ==
    LET pending == committed \ published IN
    /\ B \subseteq pending
    /\ Cardinality(B) <= BatchLimit
    /\ B = pending \/ Cardinality(B) = BatchLimit
    /\ \A v \in B, w \in pending \ B : v < w

\* Mutant: every row up to v is marked.
markGatewayConfigChangesPublishedUpTo(v) ==
    /\ published' = published \cup 1 .. v
    /\ UNCHANGED <<nextVersion, inflight, committed, overtaken>>

markGatewayConfigChangePublished(v) ==
    /\ published' = published \cup {v}
    /\ UNCHANGED <<nextVersion, inflight, committed, overtaken>>

OutboxTypeOK ==
    /\ nextVersion \in 1 .. (MaxVersion + 1)
    /\ inflight \subseteq Versions
    /\ committed \subseteq Versions
    /\ overtaken \subseteq committed
    /\ published \subseteq committed
=============================================================================
