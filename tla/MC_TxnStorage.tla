--------------------------- MODULE MC_TxnStorage ---------------------------
(***************************************************************************)
(* Model-checking instance of TxnStorage.  The page geometry is the one    *)
(* of the log manager tests: 128-byte pages, a 32-byte header, 8-byte      *)
(* slots.  The .cfg files choose the client discipline and the bounds.     *)
(*                                                                         *)
(* Refinement mapping onto AbstractStore: the committed store is what the *)
(* segment file holds; a running transaction's pending rows are the rows  *)
(* it wrote that a reader sees through the pool.  Once the process has    *)
(* ended no transaction is running.  A transaction has ended as the      *)
(* ghost outcome records.                                                 *)
(***************************************************************************)
EXTENDS TxnStorage

ActiveTxns ==
    IF status = "running" THEN {<<epoch, t>> : t \in Started} ELSE {}

Store == INSTANCE AbstractStore WITH
    Txns <- (0..MaxCrashes) \X TxnIds,
    Vals <- 1..MaxInserts,
    committed <- DurableVals,
    pending <- [g \in ActiveTxns |-> {v \in VisibleVals : writer[v] = g}],
    ended <- [g \in {h \in DOMAIN outcome : outcome[h] # "active"} |-> outcome[g]]

\* The kernel implements AbstractStore: every step of insert_row,
\* commit_txn, abort_txn, crash() and process exit is a step of the
\* abstract store, or leaves its view unchanged.
StoreRefinement == Store!Spec
=============================================================================
