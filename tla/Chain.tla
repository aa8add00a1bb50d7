-------------------------------- MODULE Chain --------------------------------
(***************************************************************************)
(* The blockchain and the nodes the payers call, which are not part of the *)
(* repository: modelled from how pkg/eth and pkg/zksyncera use them.       *)
(*                                                                         *)
(* An account's transactions are mined in nonce order, one per nonce, and  *)
(* a mined transaction stays mined (no reorganisation).  A transaction the *)
(* network holds may be evicted and come back later.  A node never invents *)
(* a receipt, but where it lags it may deny a transaction it was sent or   *)
(* report an old account nonce.                                            *)
(***************************************************************************)
EXTENDS Transactions

CONSTANTS
    MayRevert,  \* transactions whose token transfer may revert
    Losable,    \* transactions the network may lose, and find again
    StaleNonce  \* TRUE: a node may answer NonceAt with an older nonce

ASSUME ChainAssumption == /\ MayRevert \subseteq Txs
                          /\ Losable \subseteq Txs
                          /\ StaleNonce \in BOOLEAN

VARIABLES
    chainNonce, \* per account, the next nonce to be mined
    mined,      \* transactions in the chain
    reverted,   \* those of them whose transfer reverted
    pool,       \* transactions the network holds for mining
    lost        \* transactions handed over once that it does not hold now

chainVars == <<chainNonce, mined, reverted, pool, lost>>

ChainTypeOK ==
    /\ chainNonce \in [Spenders -> Nat]
    /\ mined \in SUBSET Txs
    /\ reverted \in SUBSET mined
    /\ pool \in SUBSET Txs
    /\ lost \in SUBSET Txs

ChainInit ==
    /\ chainNonce = [s \in Spenders |-> 0]
    /\ mined = {}
    /\ reverted = {}
    /\ pool = {}
    /\ lost = {}

(* Transfers that moved STORJ tokens to the payee. *)
Paid == mined \ reverted

(* Everything some node was ever given. *)
Sent == pool \union lost \union mined

(* A transaction with a nonce below the account's can never be mined. *)
Minable(t) == t.nonce >= chainNonce[t.spender]

------------------------------------------------------------------------------
(* The next transaction of an account is mined; its transfer succeeds or   *)
(* reverts, and every other transaction for that nonce is discarded.       *)
Mine(t) ==
    /\ t \in pool
    /\ t.nonce = chainNonce[t.spender]
    /\ chainNonce' = [chainNonce EXCEPT ![t.spender] = @ + 1]
    /\ mined' = mined \union {t}
    /\ \/ reverted' = reverted
       \/ t \in MayRevert /\ reverted' = reverted \union {t}
    /\ pool' = {u \in pool : ~SameSlot(t, u)}
    /\ lost' = lost \union {u \in pool \ {t} : SameSlot(t, u)}

(* The network forgets a transaction: mempool eviction. *)
Evict(t) ==
    /\ t \in pool \intersect Losable
    /\ pool' = pool \ {t}
    /\ lost' = lost \union {t}
    /\ UNCHANGED <<chainNonce, mined, reverted>>

(* A lost transaction turns up again: a late delivery of a call that      *)
(* timed out, or another node that still had it.                           *)
Reappear(t) ==
    /\ t \in lost \intersect Losable
    /\ Minable(t)
    /\ pool' = pool \union {t}
    /\ lost' = lost \ {t}
    /\ UNCHANGED <<chainNonce, mined, reverted>>

ChainNext == \E t \in Txs : Mine(t) \/ Evict(t) \/ Reappear(t)

------------------------------------------------------------------------------
(* What eth_sendRawTransaction does to the network.  Accept answers nil;   *)
(* a lagging node accepts even what can no longer be mined.                *)
Accept(t) ==
    /\ \/ Minable(t) /\ pool' = pool \union {t} /\ lost' = lost \ {t}
       \/ ~Minable(t) /\ StaleNonce /\ pool' = pool /\ lost' = lost \union {t}
    /\ UNCHANGED <<chainNonce, mined, reverted>>

(* An error to the caller: nothing happened (refused, nonce too low), the *)
(* transaction arrived all the same, or it may arrive later.               *)
Refuse(t) ==
    /\ \/ UNCHANGED <<pool, lost>>
       \/ Minable(t) /\ pool' = pool \union {t} /\ lost' = lost \ {t}
       \/ t \in Losable \ pool /\ lost' = lost \union {t} /\ pool' = pool
    /\ UNCHANGED <<chainNonce, mined, reverted>>

(* eth_getTransactionCount at the latest block a node knows. *)
NonceAt(s) == {n \in 0 .. chainNonce[s] : StaleNonce \/ n = chainNonce[s]}

(* The state of one transaction as the chain has it. *)
TrueState(t) ==
    CASE t \in Paid     -> TxConfirmed
      [] t \in reverted -> TxFailed
      [] t \in pool     -> TxPending
      [] OTHER          -> TxDropped

(* What a node can answer about t.  A receipt may always be late; a node   *)
(* that lags on t may not know a transaction others have, or may still     *)
(* have one the others dropped.                                            *)
Answers(t, lags) ==
    {TrueState(t)}
      \union (IF t \in mined THEN {TxPending} ELSE {})
      \union (IF lags /\ t \in Sent THEN {TxPending, TxDropped} ELSE {})
==============================================================================
