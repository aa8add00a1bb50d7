--------------------------- MODULE PipelineLedger ---------------------------
(***************************************************************************)
(* The pipeline, its database and the chain together keep the promise of   *)
(* PayoutLedger: a payment is a transfer that succeeded in the chain, what *)
(* is written down is payout_group.final_tx_hash.                          *)
(***************************************************************************)
EXTENDS Pipeline

PaidTo(g) == {t \in Paid : t.group = g}

Ledger == INSTANCE PayoutLedger WITH
    Groups    <- Groups,
    Payments  <- Txs,
    NoPayment <- NoTx,
    ledger    <- [g \in Groups |-> PaidTo(g)],
    recorded  <- final,
    complete  <- result = "done"

(* Every step of the pipeline and of the chain is a step of the ledger or  *)
(* none: mining pays, FinalizeNonceGroup records, FillEnds reports.        *)
ImplementsLedger == Ledger!Spec
=============================================================================
