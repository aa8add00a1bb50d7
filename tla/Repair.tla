------------------------------- MODULE Repair -------------------------------
(***************************************************************************)
(* The pipeline with the operator beside it, who follows the README's      *)
(* troubleshooting section: stop a run that waits for transactions nobody  *)
(* has, look every pending transaction up, delete the pending rows if none *)
(* of them can still be mined, and run the same command again.             *)
(***************************************************************************)
EXTENDS Pipeline

(* Mutant: the operator only makes sure a transaction is not mined yet. *)
NotOnTheChain(t) == t \notin mined

(* "100% sure that they are not on the chain": no node ever got it, or its *)
(* nonce went to another transaction.                                      *)
NeverOnTheChain(t) == t \notin Sent \/ (t \notin mined /\ ~Minable(t))

Hopeless == PendingRows # {} /\ \A t \in PendingRows : NeverOnTheChain(t)

(* Interrupt the poll loop. *)
OperatorStops ==
    /\ pc = "step"
    /\ Hopeless
    /\ pc' = "stopped"
    /\ result' = "aborted"
    /\ MemoryCleared
    /\ UNCHANGED <<chainVars, dbVars, fresh, aborts>>

(* delete from tx where state='pending' *)
DeletePending ==
    /\ pc = "stopped"
    /\ Hopeless
    /\ rows' = [t \in Txs |-> IF rows[t] = TxPending THEN "none" ELSE rows[t]]
    /\ UNCHANGED <<chainVars, final, pc, runVars, result, fresh, aborts>>

RepairNext ==
    \/ Next
    \/ OperatorStops
    \/ DeletePending

RepairSpec == Init /\ [][RepairNext]_vars

(* An operator who keeps an eye on it. *)
FairRepairSpec ==
    /\ RepairSpec
    /\ ProcessFairness
    /\ OutsideFairness
    /\ SF_vars(OperatorStops)
    /\ SF_vars(DeletePending)

------------------------------------------------------------------------------
(* A payment survives the repair: whatever the operator deletes, a paid    *)
(* group is final or its transaction still pending in the database, so the *)
(* new attempt is never a second one.                                      *)
RepairForgetsNoPayment ==
    \A t \in Paid : final[t.group] = t \/ (final[t.group] = NoTx /\ rows[t] = TxPending)
=============================================================================
