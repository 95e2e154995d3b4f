--------------------------- MODULE AbstractStore ---------------------------
(***************************************************************************)
(* What the storage kernel promises its clients (specification sections   *)
(* 4.5, 5 and 8): rows inserted by a transaction become part of the        *)
(* committed store exactly when it commits; an abort, a crash or the end  *)
(* of the process drops the rows of every transaction still running, and  *)
(* never touches committed rows.  Rows are identified by value.            *)
(***************************************************************************)
EXTENDS FiniteSets, TLC

CONSTANTS
    Txns,   \* transaction names
    Vals    \* row values

VARIABLES
    committed,  \* rows of committed transactions
    pending,    \* running transaction -> rows it has inserted
    ended       \* finished transaction -> "committed" | "aborted" | "lost"

store == <<committed, pending, ended>>

InFlight == UNION {pending[t] : t \in DOMAIN pending}

Init ==
    /\ committed = {}
    /\ pending = [t \in {} |-> {}]
    /\ ended = [t \in {} |-> "lost"]

Begin(t) ==
    /\ t \notin DOMAIN pending \cup DOMAIN ended
    /\ pending' = pending @@ (t :> {})
    /\ UNCHANGED <<committed, ended>>

Insert(t, v) ==
    /\ t \in DOMAIN pending
    /\ v \notin committed \cup InFlight
    /\ pending' = [pending EXCEPT ![t] = @ \cup {v}]
    /\ UNCHANGED <<committed, ended>>

Commit(t) ==
    /\ t \in DOMAIN pending
    /\ committed' = committed \cup pending[t]
    /\ pending' = [u \in DOMAIN pending \ {t} |-> pending[u]]
    /\ ended' = ended @@ (t :> "committed")

Abort(t) ==
    /\ t \in DOMAIN pending
    /\ pending' = [u \in DOMAIN pending \ {t} |-> pending[u]]
    /\ ended' = ended @@ (t :> "aborted")
    /\ UNCHANGED committed

\* A crash, or the process ending, with transactions still running.
Crash ==
    /\ pending' = [t \in {} |-> {}]
    /\ ended' = ended @@ [t \in DOMAIN pending |-> "lost"]
    /\ UNCHANGED committed

Next ==
    \/ \E t \in Txns : Begin(t) \/ Commit(t) \/ Abort(t)
    \/ \E t \in Txns, v \in Vals : Insert(t, v)
    \/ Crash

Spec == Init /\ [][Next]_store
=============================================================================
