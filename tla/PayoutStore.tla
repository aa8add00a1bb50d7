----------------------------- MODULE PayoutStore -----------------------------
(***************************************************************************)
(* What the pipeline takes the payout database for: payout groups that     *)
(* appear with all their payouts, and the two writes of PayoutDB, each in  *)
(* one step or not at all.                                                 *)
(***************************************************************************)
EXTENDS PayoutDB

VARIABLE imported   \* the payout groups, each with all its payouts

storeVars == <<rows, final, imported>>

(* What a check can conclude about the nonce group of a pending row t: one *)
(* of its transactions was mined, the others were dropped.                 *)
Settled(t, state) ==
    [u \in {u \in Txs : rows[u] = TxPending /\ u.nonce = t.nonce /\ u.group = t.group} |->
        IF u = t THEN state ELSE TxDropped]

StoreInit == DBInit /\ imported = {}

StoreNext ==
    \/ \E g \in Groups \ imported :
         imported' = imported \union {g} /\ UNCHANGED dbVars
    \/ \E t \in Txs :
         t.group \in imported /\ CreateTransaction(t) /\ UNCHANGED imported
    \/ \E t \in Txs, state \in {TxConfirmed, TxFailed} :
         /\ rows[t] = TxPending
         /\ FinalizeNonceGroup(t.group, Settled(t, state))
         /\ UNCHANGED imported

StoreSpec == StoreInit /\ [][StoreNext]_storeVars
=============================================================================
