-------------------------------- MODULE Audit --------------------------------
(***************************************************************************)
(* pkg/payouts audit, beside the pipeline: with the database for itself it *)
(* compares every transaction with what the chain says, classifies every   *)
(* payout group and writes receipts, while the chain moves on and between  *)
(* runs that were cut short anywhere.                                      *)
(*                                                                         *)
(* phase: "idle", "transactions" (confirming the state of each row),       *)
(* "payouts" (checking the payout groups), "done".                         *)
(***************************************************************************)
EXTENDS Pipeline

VARIABLES
    phase,     \* see above
    unchecked, \* rows, then payout groups, the audit has not come to yet
    doublePays,  \* transactions reported as a double payment
    category,  \* the AuditStats counter a payout group went into
    receipts,  \* transaction in the receipt for a group, or NoTx
    written    \* the receipts were written without --force

auditVars == <<phase, unchecked, doublePays, category, receipts, written>>

Categories == {"none", "unstarted", "pending", "failed", "dropped", "confirmed",
               "falseConfirmed", "overpaid"}

AuditTypeOK ==
    /\ phase \in {"idle", "transactions", "payouts", "done"}
    /\ phase = "transactions" => unchecked \subseteq Txs
    /\ phase = "payouts" => unchecked \subseteq Groups
    /\ phase \in {"idle", "done"} => unchecked = {}
    /\ doublePays \subseteq Txs
    /\ category \in [Groups -> Categories]
    /\ receipts \in [Groups -> Txs \union {NoTx}]
    /\ written \in BOOLEAN

Uncategorised == [g \in Groups |-> "none"]
NoReceipts == [g \in Groups |-> NoTx]

AuditInit ==
    /\ Init
    /\ phase = "idle"
    /\ unchecked = {}
    /\ doublePays = {}
    /\ category = Uncategorised
    /\ receipts = NoReceipts
    /\ written = FALSE

Recorded == {t \in Txs : rows[t] # "none"}
RowsOf(g) == {t \in Recorded : t.group = g}
RowsIn(g, state) == {t \in RowsOf(g) : rows[t] = state}

(* The database is locked for everybody else. *)
AuditStarts ==
    /\ pc = "stopped" /\ phase = "idle"
    /\ phase' = "transactions"
    /\ unchecked' = Recorded
    /\ UNCHANGED <<vars, doublePays, category, receipts, written>>

(* What an auditor says of a transaction: what the node says, where zkSync  *)
(* goes on calling a mined one pending until its proof is verified.        *)
CheckTransactionState(t) == Answers(t, Lags(t))

(* What becomes of the batch a receipt names, whatever the outcome of the  *)
(* transfer; without a receipt the transaction is pending.  A status the   *)
(* zkSync auditor does not know is an error, which counts as failed.       *)
BatchState(t) == {TxFailed, TxPending} \union (IF t \in mined THEN {TxConfirmed} ELSE {})

(* Asked for the receipt, the Ethereum auditor believes it, and answers    *)
(* with an error when there is none; the zkSync auditor looks at its batch. *)
CheckConfirmedTransactionState(t) ==
    IF PayerKind = "eth" THEN {TxFailed, TrueState(t)} ELSE BatchState(t)

(* Mutant: whatever the chain confirms and the database does not. *)
AnyMismatch(t, state) == rows[t] # state /\ state = TxConfirmed

IsDoublePay(t, state) == rows[t] = TxDropped /\ state = TxConfirmed

(* The state of one row. *)
ConfirmState(t, state) ==
    /\ phase = "transactions"
    /\ t \in unchecked
    /\ state \in CheckTransactionState(t)
    /\ unchecked' = unchecked \ {t}
    /\ doublePays' = doublePays \union (IF IsDoublePay(t, state) THEN {t} ELSE {})
    /\ UNCHANGED <<vars, phase, category, receipts, written>>

TransactionsConfirmed ==
    /\ phase = "transactions" /\ unchecked = {}
    /\ phase' = "payouts"
    /\ unchecked' = Groups
    /\ UNCHANGED <<vars, doublePays, category, receipts, written>>

(* Mutant: a failed transaction is looked at before a pending one. *)
CategoryFailedFirst(g, seen) ==
    IF RowsOf(g) = {}                     THEN "unstarted"
    ELSE IF RowsIn(g, TxConfirmed) # {}   THEN IF seen = {} THEN "falseConfirmed" ELSE "confirmed"
    ELSE IF RowsIn(g, TxFailed) # {}      THEN "failed"
    ELSE IF RowsIn(g, TxPending) # {}     THEN "pending"
    ELSE "dropped"

(* The counter for a group, when the chain confirmed the rows seen of it. *)
Category(g, seen) ==
    IF RowsOf(g) = {}                     THEN "unstarted"
    ELSE IF RowsIn(g, TxConfirmed) # {}
    THEN IF seen = {}                     THEN "falseConfirmed"
         ELSE IF \A t, u \in seen : t = u THEN "confirmed"
         ELSE "overpaid"
    ELSE IF RowsIn(g, TxPending) # {}     THEN "pending"
    ELSE IF RowsIn(g, TxFailed) # {}      THEN "failed"
    ELSE "dropped"

(* Mutant: the receipt names the first transaction of the group. *)
ReceiptAnyRow(g) == RowsOf(g)

(* confirmed[0] *)
ReceiptFrom(g) == RowsIn(g, TxConfirmed)

(* One payout group: its confirmed rows are confirmed once more, by their  *)
(* receipts; a node that has none, or answers with an error, is believed.  *)
CheckPayout(g, seen) ==
    /\ phase = "payouts"
    /\ g \in unchecked
    /\ \A t \in seen : TxConfirmed \in CheckConfirmedTransactionState(t)
    /\ unchecked' = unchecked \ {g}
    /\ category' = [category EXCEPT ![g] = Category(g, seen)]
    /\ IF seen = {}
       THEN UNCHANGED receipts
       ELSE \E t \in ReceiptFrom(g) : receipts' = [receipts EXCEPT ![g] = t]
    /\ UNCHANGED <<vars, phase, doublePays, written>>

(* Mutant: receipts for a file with payouts that have only been started. *)
AnyStarted == \A g \in Groups : category[g] # "unstarted"

AllConfirmed == \A g \in Groups : category[g] \in {"confirmed", "overpaid"}

WriteReceipts ==
    /\ phase = "payouts" /\ unchecked = {}
    /\ phase' = "done"
    /\ written' = AllConfirmed
    /\ UNCHANGED <<vars, unchecked, doublePays, category, receipts>>

(* The audit returns, or a call to the node failed. *)
AuditReturns ==
    /\ phase # "idle"
    /\ phase' = "idle"
    /\ unchecked' = {}
    /\ doublePays' = {}
    /\ category' = Uncategorised
    /\ receipts' = NoReceipts
    /\ written' = FALSE
    /\ UNCHANGED vars

AuditStep ==
    \/ AuditStarts
    \/ \E t \in Recorded, state \in TxStates : ConfirmState(t, state)
    \/ TransactionsConfirmed
    \/ \E g \in Groups : \E seen \in SUBSET RowsIn(g, TxConfirmed) : CheckPayout(g, seen)
    \/ WriteReceipts
    \/ AuditReturns

(* No run while the audit has the database. *)
PipelineStep ==
    /\ Next
    /\ phase # "idle" => pc' = "stopped"
    /\ UNCHANGED auditVars

AuditNext == PipelineStep \/ AuditStep

AuditSpec == AuditInit /\ [][AuditNext]_<<vars, auditVars>>

------------------------------------------------------------------------------
(* A receipt is for a payment: the transaction it names moved the tokens   *)
(* to the payee of that group, and is the one the database calls final.    *)
ReceiptsArePayments ==
    \A g \in Groups : receipts[g] # NoTx =>
        receipts[g] \in Paid /\ receipts[g].group = g /\ final[g] = receipts[g]

(* What the audit calls unstarted, failed or dropped has not been paid and *)
(* is not going to be, though the chain moves on while it looks.           *)
UnpaidIsUnpaid ==
    \A g \in Groups : category[g] \in {"unstarted", "failed", "dropped"} =>
        \A t \in Sent : t.group = g => t \notin Paid /\ ~Minable(t)

(* Receipts written without --force cover every payout group that was      *)
(* imported; that those are the lines of the CSV file is AuditSeesEdits.   *)
ReceiptsAreComplete ==
    written => \A g \in Groups : receipts[g] # NoTx /\ receipts[g] \in Paid

(* While one account pays, the audit raises no false alarm: what the       *)
(* pipeline marked dropped was not paid, and nothing is paid twice.        *)
NoFalseAlarm ==
    doublePays = {} /\ \A g \in Groups : category[g] # "overpaid"
==============================================================================
