------------------------------ MODULE PayoutDB ------------------------------
(***************************************************************************)
(* The SQLite payout database of one payout directory, as the pipeline     *)
(* sees it (pkg/pipelinedb over pkg/payoutdb).  Each operator below is one *)
(* statement or one SQL transaction and therefore atomic; the database is  *)
(* what survives a crash of the process.                                   *)
(***************************************************************************)
EXTENDS Transactions

VARIABLES
    rows,   \* the tx table: the state column by hash, "none" without a row
    final   \* payout_group.final_tx_hash, NoTx for NULL

dbVars == <<rows, final>>

RowStates == {"none"} \union TxStates

DBTypeOK ==
    /\ rows \in [Txs -> RowStates]
    /\ final \in [Groups -> Txs \union {NoTx}]

(* The database an import leaves: payout groups and no transactions. *)
DBInit ==
    /\ rows = [t \in Txs |-> "none"]
    /\ final = [g \in Groups |-> NoTx]

PendingRows == {t \in Txs : rows[t] = TxPending}

(* Mutants of Unattached: one forgets the NOT IN subquery, one takes any   *)
(* transaction for an attachment, so that failed groups are never retried. *)
UnattachedOrPending == {g \in Groups : final[g] = NoTx}
UnattachedNeverTried ==
    {g \in Groups : final[g] = NoTx /\ \A t \in Txs : rows[t] # "none" => t.group # g}

(* FirstUnfinishedUnattachedPayoutGroup selects one of these; the          *)
(* statement has no ORDER BY, so which one is SQLite's choice.             *)
Unattached ==
    {g \in Groups : final[g] = NoTx /\ \A t \in PendingRows : t.group # g}

(* Loading fails when two payout groups have a pending row of one nonce. *)
LoadConsistent ==
    \A t, u \in PendingRows : t.nonce = u.nonce => t.group = u.group

(* Mutant: the payout group is not loaded with the rows. *)
NonceGroupsWithoutPayoutGroup ==
    [n \in {t.nonce : t \in PendingRows} |->
        [group |-> NoTx, txs |-> {t \in PendingRows : t.nonce = n}]]

(* The nonce groups: for each nonce with pending rows, those rows and the  *)
(* payout group they pay.  The code keeps them in a slice sorted by nonce; *)
(* here the nonce is the key.                                              *)
NonceGroupsFromRows ==
    [n \in {t.nonce : t \in PendingRows} |->
        LET txs == {t \in PendingRows : t.nonce = n}
        IN  [group |-> (CHOOSE t \in txs : TRUE).group, txs |-> txs]]

(* The INSERT is refused when the UNIQUE hash is already there. *)
HashTaken(t) == rows[t] # "none"

CreateTransaction(t) ==
    /\ ~HashTaken(t)
    /\ rows' = [rows EXCEPT ![t] = TxPending]
    /\ UNCHANGED final

(* Mutants of FinalizeNonceGroup: a failed transaction becomes final too;  *)
(* the final transaction is not written; the group's earlier attempts are  *)
(* marked dropped.                                                         *)
FinalizeAnyMined(group, statuses) ==
    LET found == {t \in DOMAIN statuses : statuses[t] # TxDropped}
    IN  /\ rows' = [t \in Txs |->
                      IF t \in DOMAIN statuses THEN statuses[t] ELSE rows[t]]
        /\ final' = [final EXCEPT ![group] = CHOOSE t \in found : TRUE]

FinalizeRowsOnly(group, statuses) ==
    /\ rows' = [t \in Txs |->
                  IF t \in DOMAIN statuses THEN statuses[t] ELSE rows[t]]
    /\ UNCHANGED final

FinalizeDroppingOthers(group, statuses) ==
    LET confirmed == {t \in DOMAIN statuses : statuses[t] = TxConfirmed}
    IN  /\ rows' = [t \in Txs |->
                      CASE t \in DOMAIN statuses -> statuses[t]
                        [] t.group = group /\ rows[t] # "none" -> TxDropped
                        [] OTHER -> rows[t]]
        /\ final' = [final EXCEPT ![group] =
                       IF confirmed = {} THEN @ ELSE CHOOSE t \in confirmed : TRUE]

(* One SQL transaction: every status a check gathered goes to its row, and *)
(* a confirmed transaction becomes the payout group's final transaction.   *)
FinalizeNonceGroup(group, statuses) ==
    LET confirmed == {t \in DOMAIN statuses : statuses[t] = TxConfirmed}
    IN  /\ rows' = [t \in Txs |->
                      IF t \in DOMAIN statuses THEN statuses[t] ELSE rows[t]]
        /\ IF confirmed = {}
           THEN UNCHANGED final
           ELSE final' = [final EXCEPT ![group] = CHOOSE t \in confirmed : TRUE]
=============================================================================
