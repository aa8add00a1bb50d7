---------------------------- MODULE PayoutLedger ----------------------------
(***************************************************************************)
(* What a batch of payouts promises, without nonces, nodes or crashes:     *)
(* each payout group gets at most one payment; a payment is written down   *)
(* once, after it was made, and never rewritten; the batch is reported     *)
(* complete only when every group's payment is written down.               *)
(***************************************************************************)
CONSTANTS Groups, Payments, NoPayment

VARIABLES
    ledger,    \* the payments each group got
    recorded,  \* the payment written down for a group, or NoPayment
    complete   \* the last run reported that everything is paid

ledgerVars == <<ledger, recorded, complete>>

Init ==
    /\ ledger = [g \in Groups |-> {}]
    /\ recorded = [g \in Groups |-> NoPayment]
    /\ complete = FALSE

Pay(g) ==
    /\ ledger[g] = {}
    /\ \E p \in Payments : ledger' = [ledger EXCEPT ![g] = {p}]
    /\ UNCHANGED <<recorded, complete>>

Record(g) ==
    /\ recorded[g] = NoPayment
    /\ \E p \in ledger[g] : recorded' = [recorded EXCEPT ![g] = p]
    /\ UNCHANGED <<ledger, complete>>

ReportComplete ==
    /\ \A g \in Groups : recorded[g] # NoPayment
    /\ complete' = TRUE
    /\ UNCHANGED <<ledger, recorded>>

RunAgain ==
    /\ complete' = FALSE
    /\ UNCHANGED <<ledger, recorded>>

Next ==
    \/ \E g \in Groups : Pay(g) \/ Record(g)
    \/ ReportComplete
    \/ RunAgain

Spec == Init /\ [][Next]_ledgerVars
=============================================================================
