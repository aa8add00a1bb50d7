---------------------------- MODULE Transactions ----------------------------
(***************************************************************************)
(* What the payout database, the payers and the pipeline all talk about:   *)
(* payout groups and the transactions built to pay them.                   *)
(*                                                                         *)
(* A transaction is identified by its hash, and an Ethereum hash is a      *)
(* function of what is signed: the sending account, its nonce, the payee   *)
(* and the token amount.  Gas limit, tip and fee cap are fixed per payer,  *)
(* the payee and the USD amount are fixed per payout group, and the token  *)
(* amount is the USD amount at the STORJ price, so the record below is the *)
(* hash: equal fields are the same transaction.                            *)
(***************************************************************************)
EXTENDS Naturals

CONSTANTS
    Spenders,   \* accounts the payer can be started with
    Groups,     \* payout groups the import created, one payout each
    Prices,     \* STORJ prices the quoter can return (token amounts)
    MaxNonce,   \* bound: the largest account nonce considered
    NoTx        \* SQL NULL in payout_group.final_tx_hash

ASSUME NonceBound == MaxNonce \in Nat

Nonces == 0 .. MaxNonce

Txs == [spender : Spenders, group : Groups, nonce : Nonces, price : Prices]

ASSUME NoTxIsNotATx == NoTx \notin Txs

(* Two transactions of one account with one nonce: at most one is mined. *)
SameSlot(t, u) == t.spender = u.spender /\ t.nonce = u.nonce

(* pipelinedb.TxState *)
TxPending   == "pending"
TxDropped   == "dropped"
TxFailed    == "failed"
TxConfirmed == "confirmed"
TxStates    == {TxPending, TxDropped, TxFailed, TxConfirmed}
=============================================================================
