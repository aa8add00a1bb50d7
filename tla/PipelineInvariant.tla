-------------------------- MODULE PipelineInvariant --------------------------
(***************************************************************************)
(* An inductive invariant of the pipeline, strong enough for every safety  *)
(* property of Pipeline that does not depend on timing.  It holds while    *)
(* one account does all the paying (SpenderFixed): the rule the database's *)
(* RecordStart was written for.                                            *)
(***************************************************************************)
EXTENDS PipelineLedger

SpenderFixed == \A a, b \in Spenders : a = b

Settled(t) == rows[t] \in {TxDropped, TxFailed, TxConfirmed}

(* One mined transaction per account and nonce, below the account's nonce. *)
ChainInv ==
    /\ \A t \in mined : t.nonce < chainNonce[t.spender]
    /\ \A t, u \in mined : SameSlot(t, u) => t = u

(* The database and the chain: a transaction the network has but the       *)
(* database does not (the operator may delete rows) can never be mined; a  *)
(* settled row's nonce is used up and says what became of the transaction; *)
(* a payment is pending or final.                                          *)
SettledInv ==
    /\ \A t \in Sent : rows[t] = "none" => t \notin mined /\ ~Minable(t)
    /\ \A t \in Txs : Settled(t) => t.nonce < chainNonce[t.spender]
    /\ \A t \in Txs : rows[t] = TxFailed => t \in reverted
    /\ \A t \in Txs : rows[t] = TxConfirmed => t \in Paid
    /\ \A t \in Txs : rows[t] = TxDropped => t \notin mined
    /\ \A t \in Paid : rows[t] # TxPending => final[t.group] = t

(* The database alone: the pending rows of a group share a nonce, those of *)
(* a nonce share a group, and a group with a final transaction has none.   *)
AttachedInv ==
    /\ LoadConsistent
    /\ \A t, u \in PendingRows : t.group = u.group => t.nonce = u.nonce
    /\ \A t \in PendingRows : final[t.group] = NoTx
    /\ \A g \in Groups : final[g] # NoTx =>
         final[g].group = g /\ rows[final[g]] = TxConfirmed

(* Memory and database: the nonce groups are the pending rows, but for the *)
(* row just recorded.                                                      *)
MemoryInv ==
    pc # "stopped" =>
        /\ \A t \in PendingRows :
             \/ t.nonce \in DOMAIN nonceGroups /\ t \in nonceGroups[t.nonce].txs
             \/ pc = "send" /\ t = inflight
        /\ \A n \in DOMAIN nonceGroups : \A t \in nonceGroups[n].txs :
             rows[t] = TxPending /\ t.nonce = n /\ t.group = nonceGroups[n].group

(* Finished nonce groups come first, so trimming the leading ones leaves   *)
(* none behind.                                                            *)
PrefixInv ==
    /\ pc # "stopped" => \A m, n \in DOMAIN nonceGroups :
         m < n /\ nonceGroups[m].txs # {} => nonceGroups[n].txs # {}
    /\ pc = "fill" \/ (pc \in {"create", "send"} /\ ~Resending) =>
         \A n \in DOMAIN nonceGroups : nonceGroups[n].txs # {}

(* The check loop: everything before the cursor is finished, nothing from  *)
(* it on; receipts the node gave are true.                                 *)
CheckInv ==
    pc = "check" =>
        /\ cursor \in DOMAIN nonceGroups
        /\ \A n \in DOMAIN nonceGroups : nonceGroups[n].txs = {} <=> n < cursor
        /\ DOMAIN statuses \subseteq nonceGroups[cursor].txs
        /\ \A t \in DOMAIN statuses :
             /\ statuses[t] = TxConfirmed => t \in Paid
             /\ statuses[t] = TxFailed => t \in reverted

(* What sendTransaction was called for is unpaid, and whatever of it is    *)
(* still pending has the same nonce.                                       *)
TargetInv ==
    /\ pc \in {"create", "send"} /\ Resending =>
         /\ nonceGroups[target.nonce].group = target.group
         /\ nonceGroups[target.nonce].txs # {}
    /\ pc = "create" =>
         /\ final[target.group] = NoTx
         /\ \A t \in PendingRows : t.group = target.group => t.nonce = target.nonce
    /\ pc = "send" =>
         /\ inflight \in PendingRows
         /\ inflight.group = target.group
         /\ inflight.nonce = target.nonce

PipelineInv ==
    /\ ChainInv
    /\ SettledInv
    /\ AttachedInv
    /\ MemoryInv
    /\ PrefixInv
    /\ CheckInv
    /\ TargetInv
=============================================================================
