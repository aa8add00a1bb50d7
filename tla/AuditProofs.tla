----------------------------- MODULE AuditProofs -----------------------------
(***************************************************************************)
(* Machine-checked proofs about the audit: what it reports and the         *)
(* receipts it writes are true for every number of payout groups, nonces   *)
(* and prices, whatever the nodes lag on, with either payer and its        *)
(* auditor, and whatever the chain does while the audit looks.             *)
(*                                                                         *)
(* The audit reads, and the pipeline stands still while it does; so the    *)
(* pipeline's invariant goes over to AuditSpec as it is, and what remains  *)
(* to say is what the audit has found out so far of rows that stay.        *)
(***************************************************************************)
EXTENDS PipelineSafety, Audit

USE DEF TxPending, TxDropped, TxFailed, TxConfirmed

(* What an audit under way has noted. *)
NotesInv ==
    /\ phase # "idle" => pc = "stopped"
    /\ phase = "idle" => category = Uncategorised /\ receipts = NoReceipts /\ ~written
    /\ written => phase = "done" /\ AllConfirmed
    /\ \A g \in Groups : receipts[g] # NoTx =>
         rows[receipts[g]] = TxConfirmed /\ receipts[g].group = g
    /\ \A g \in Groups : category[g] \in {"confirmed", "overpaid"} => receipts[g] # NoTx
    /\ \A g \in Groups : category[g] \in {"unstarted", "failed", "dropped"} =>
         \A t \in Txs : t.group = g => rows[t] \notin {TxPending, TxConfirmed}
    /\ NoFalseAlarm

AuditInv == TypeOK /\ StoreInv /\ RunInv /\ AuditTypeOK /\ NotesInv

LEMMA AuditInitInv == AuditInit => AuditInv
<1> SUFFICES ASSUME AuditInit PROVE AuditInv
  OBVIOUS
<1>1. TypeOK /\ StoreInv /\ RunInv
  BY TypeInit, InvInit DEF AuditInit
<1>2. AuditTypeOK
  BY DEF AuditInit, AuditTypeOK, Uncategorised, NoReceipts, Categories
<1>3. NotesInv
  BY DEF AuditInit, NotesInv, Uncategorised, NoReceipts, NoFalseAlarm
<1>4. QED
  BY <1>1, <1>2, <1>3 DEF AuditInv

(* A pipeline that is stopped and stays so writes nothing to the database. *)
LEMMA StoppedWritesNothing ==
    ASSUME pc = "stopped", Next
    PROVE  UNCHANGED dbVars
BY DEF Next, dbVars, Start, CheckStep, Query, CheckError, CheckPending,
       CheckDroppedTooYoung, CheckDropped, CheckFinal, Checked, CheckEnds, FillStep, Step,
       FillFromLast, FillFromChain, FillEnds, SendStep, Create, CreateRefused,
       SendAccepted, SendRefused, Abort, Age, ChainStep

LEMMA PipelineStepInv ==
    ASSUME AuditInv, SpenderFixed, PipelineStep
    PROVE  AuditInv'
<1>1. TypeOK' /\ StoreInv' /\ RunInv'
  BY TypeNext, InvNext DEF AuditInv, PipelineStep
<1>2. UNCHANGED auditVars
  BY DEF PipelineStep
<1>3. AuditTypeOK'
  BY <1>2 DEF AuditInv, AuditTypeOK, auditVars
<1>4. CASE phase = "idle"
  <2>1. /\ \A g \in Groups : category[g] = "none" /\ receipts[g] = NoTx
        /\ ~written
        /\ category = Uncategorised /\ receipts = NoReceipts
        /\ NoFalseAlarm
    BY <1>4 DEF AuditInv, NotesInv, Uncategorised, NoReceipts
  <2>2. NotesInv'
    BY <1>2, <1>4, <2>1 DEF NotesInv, NoFalseAlarm, auditVars, Uncategorised, NoReceipts
  <2>3. QED
    BY <1>1, <1>3, <2>2 DEF AuditInv
<1>5. CASE phase # "idle"
  <2>1. UNCHANGED dbVars /\ pc' = "stopped"
    BY <1>5, StoppedWritesNothing DEF AuditInv, NotesInv, PipelineStep
  <2>2. NotesInv'
    BY <1>2, <2>1 DEF AuditInv, NotesInv, NoFalseAlarm, AllConfirmed, auditVars, dbVars
  <2>3. QED
    BY <1>1, <1>3, <2>2 DEF AuditInv
<1>6. QED
  BY <1>1, <1>3, <1>4, <1>5 DEF AuditInv

(* The audit reports a double payment only of a row that is dropped and    *)
(* was paid all the same, which the invariant of the pipeline excludes.    *)
LEMMA NoDoublePayReported ==
    ASSUME AuditInv, NEW t \in Recorded, NEW state, ConfirmState(t, state)
    PROVE  ~IsDoublePay(t, state)
<1>1. t \in Txs /\ state \in Answers(t, Lags(t))
  BY DEF Recorded, ConfirmState, CheckTransactionState
<1>2. state = TxConfirmed => t \in Paid
  BY <1>1 DEF Answers, TrueState
<1>3. QED
  BY <1>1, <1>2 DEF AuditInv, StoreInv, SettledInv, IsDoublePay, Paid

(* The rows of one group that are confirmed are all the same row. *)
LEMMA OneConfirmedRow ==
    ASSUME AuditInv, SpenderFixed, NEW g \in Groups,
           NEW t \in RowsIn(g, TxConfirmed), NEW u \in RowsIn(g, TxConfirmed)
    PROVE  t = u
<1>1. PipelineInv
  BY DEF AuditInv, StoreInv, RunInv, PipelineInv
<1>2. NoDoublePay
  BY <1>1, InvGivesSafety DEF AuditInv
<1>3. t \in Paid /\ u \in Paid /\ t.group = g /\ u.group = g
  BY <1>1 DEF RowsIn, RowsOf, Recorded, PipelineInv, SettledInv
<1>4. QED
  BY <1>2, <1>3 DEF NoDoublePay

(* The counter a group goes into says the truth about its rows. *)
LEMMA CategoryOfRows ==
    ASSUME AuditInv, SpenderFixed, NEW g \in Groups,
           NEW seen \in SUBSET RowsIn(g, TxConfirmed)
    PROVE  /\ Category(g, seen) \in Categories \ {"none", "overpaid"}
           /\ Category(g, seen) = "confirmed" => seen # {}
           /\ Category(g, seen) \in {"unstarted", "failed", "dropped"} =>
                \A t \in Txs : t.group = g => rows[t] \notin {TxPending, TxConfirmed}
<1>1. \A t, u \in seen : t = u
  BY OneConfirmedRow
<1>2. RowsIn(g, TxConfirmed) \subseteq RowsOf(g)
  BY DEF RowsIn
<1>3. \A t \in Txs : t.group = g /\ rows[t] # "none" => t \in RowsOf(g)
  BY DEF RowsOf, Recorded
<1>4. CASE RowsOf(g) = {}
  BY <1>3, <1>4 DEF Category, Categories
<1>5. CASE RowsOf(g) # {} /\ RowsIn(g, TxConfirmed) # {}
  BY <1>1, <1>5 DEF Category, Categories
<1>6. CASE RowsOf(g) # {} /\ RowsIn(g, TxConfirmed) = {}
  BY <1>3, <1>6 DEF Category, Categories, RowsIn
<1>7. QED
  BY <1>4, <1>5, <1>6

LEMMA CheckPayoutInv ==
    ASSUME AuditInv, SpenderFixed, NEW g \in Groups,
           NEW seen \in SUBSET RowsIn(g, TxConfirmed), CheckPayout(g, seen)
    PROVE  NotesInv' /\ AuditTypeOK'
<1> DEFINE c == Category(g, seen)
<1>1. /\ c \in Categories \ {"none", "overpaid"}
      /\ c = "confirmed" => seen # {}
      /\ c \in {"unstarted", "failed", "dropped"} =>
           \A t \in Txs : t.group = g => rows[t] \notin {TxPending, TxConfirmed}
  BY CategoryOfRows
<1> HIDE DEF c
<1>2. /\ category \in [Groups -> Categories]
      /\ receipts \in [Groups -> Txs \union {NoTx}]
      /\ phase = "payouts" /\ phase' = phase /\ ~written /\ written' = written
      /\ category' = [category EXCEPT ![g] = c]
      /\ UNCHANGED <<vars, doublePays>>
      /\ unchecked' \subseteq unchecked
  BY DEF AuditInv, AuditTypeOK, NotesInv, CheckPayout, c
<1>3. \/ seen = {} /\ receipts' = receipts
      \/ \E t \in ReceiptFrom(g) : receipts' = [receipts EXCEPT ![g] = t]
  BY DEF CheckPayout
<1> DEFINE Noted ==
            /\ receipts' \in [Groups -> Txs \union {NoTx}]
            /\ \A h \in Groups : receipts[h] # NoTx => receipts'[h] # NoTx
            /\ seen # {} => receipts'[g] # NoTx
            /\ \A h \in Groups : receipts'[h] # NoTx =>
                 rows[receipts'[h]] = TxConfirmed /\ receipts'[h].group = h
<1>4. Noted
  <2>1. CASE receipts' = receipts /\ seen = {}
    BY <1>2, <2>1 DEF AuditInv, NotesInv
  <2>2. ASSUME NEW t \in ReceiptFrom(g), receipts' = [receipts EXCEPT ![g] = t]
        PROVE  Noted
    <3>1. t \in Txs /\ rows[t] = TxConfirmed /\ t.group = g /\ t # NoTx
      BY NoTxIsNotATx DEF ReceiptFrom, RowsIn, RowsOf, Recorded
    <3>2. QED
      BY <1>2, <2>2, <3>1 DEF AuditInv, NotesInv
  <2>3. QED
    BY <1>3, <2>1, <2>2
<1>5. AuditTypeOK'
  BY <1>1, <1>2, <1>4 DEF AuditInv, AuditTypeOK
<1>6. rows' = rows /\ pc' = pc
  BY <1>2 DEF vars, dbVars
<1>7. \A h \in Groups : category'[h] = IF h = g THEN c ELSE category[h]
  BY <1>2
<1>8. NotesInv'
  BY <1>1, <1>2, <1>4, <1>6, <1>7 DEF AuditInv, NotesInv, NoFalseAlarm
<1>9. QED
  BY <1>5, <1>8

LEMMA AuditStepInv ==
    ASSUME AuditInv, SpenderFixed, AuditStep
    PROVE  AuditInv'
<1> USE DEF AuditInv
<1>1. UNCHANGED vars
  BY DEF AuditStep, AuditStarts, ConfirmState, TransactionsConfirmed, CheckPayout,
         WriteReceipts, AuditReturns
<1>2. TypeOK' /\ StoreInv' /\ RunInv'
  BY <1>1, TypeNext, InvNext
<1>3. rows' = rows /\ pc' = pc
  BY <1>1 DEF vars, dbVars
<1>4. CASE AuditStarts
  BY <1>2, <1>3, <1>4
  DEF AuditStarts, NotesInv, NoFalseAlarm, AuditTypeOK, Recorded, Uncategorised, NoReceipts
<1>5. ASSUME NEW t \in Recorded, NEW state \in TxStates, ConfirmState(t, state)
      PROVE  AuditInv'
  <2>1. doublePays' = doublePays
    BY <1>5, NoDoublePayReported DEF ConfirmState
  <2>2. QED
    BY <1>2, <1>3, <1>5, <2>1 DEF ConfirmState, NotesInv, NoFalseAlarm, AllConfirmed,
                                  AuditTypeOK
<1>6. CASE TransactionsConfirmed
  BY <1>2, <1>3, <1>6 DEF TransactionsConfirmed, NotesInv, NoFalseAlarm, AllConfirmed,
                          AuditTypeOK
<1>7. ASSUME NEW g \in Groups, NEW seen \in SUBSET RowsIn(g, TxConfirmed),
             CheckPayout(g, seen)
      PROVE  AuditInv'
  BY <1>2, <1>7, CheckPayoutInv
<1>8. CASE WriteReceipts
  BY <1>2, <1>3, <1>8 DEF WriteReceipts, NotesInv, NoFalseAlarm, AllConfirmed, AuditTypeOK
<1>9. CASE AuditReturns
  BY <1>2, <1>3, <1>9
  DEF AuditReturns, NotesInv, NoFalseAlarm, AuditTypeOK, Uncategorised, NoReceipts, Categories
<1>10. QED
  BY <1>4, <1>5, <1>6, <1>7, <1>8, <1>9 DEF AuditStep

LEMMA AuditNextInv ==
    ASSUME AuditInv, SpenderFixed, [AuditNext]_<<vars, auditVars>>
    PROVE  AuditInv'
<1>1. CASE UNCHANGED <<vars, auditVars>>
  <2>1. TypeOK' /\ StoreInv' /\ RunInv'
    BY <1>1, TypeNext, InvNext DEF AuditInv
  <2>2. QED
    BY <1>1, <2>1 DEF AuditInv, AuditTypeOK, NotesInv, NoFalseAlarm, AllConfirmed, vars,
                      dbVars, auditVars, Uncategorised, NoReceipts, Recorded
<1>2. QED
  BY <1>1, PipelineStepInv, AuditStepInv DEF AuditNext

------------------------------------------------------------------------------
(* Theorems *)

(* The invariant of the pipeline holds with audits between its runs, and   *)
(* what an audit has noted agrees with the rows it read.                   *)
THEOREM AuditInvCorrect == SpenderFixed => (AuditSpec => []AuditInv)
<1> SUFFICES ASSUME SpenderFixed PROVE AuditSpec => []AuditInv
  OBVIOUS
<1>1. AuditInv /\ [AuditNext]_<<vars, auditVars>> => AuditInv'
  BY AuditNextInv
<1>2. QED
  BY <1>1, AuditInitInv, PTL DEF AuditSpec

(* What AuditInv says about the notes of the audit and the chain. *)
LEMMA AuditInvGivesSafety ==
    ASSUME AuditInv, SpenderFixed
    PROVE  ReceiptsArePayments /\ UnpaidIsUnpaid /\ ReceiptsAreComplete
<1>1. PipelineInv
  BY DEF AuditInv, StoreInv, RunInv, PipelineInv
<1>2. /\ \A t \in Txs : rows[t] = TxConfirmed => t \in Paid
      /\ \A t \in Txs : t.group \in Groups /\ t # NoTx
      /\ \A t \in Sent : t \in Txs
      /\ Paid \subseteq Sent
  BY <1>1, NoTxIsNotATx
  DEF PipelineInv, SettledInv, AuditInv, TypeOK, ChainTypeOK, Txs, Sent, Paid
<1>3. \A t \in Txs : rows[t] = TxConfirmed => final[t.group] = t
  BY <1>1, <1>2 DEF PipelineInv, SettledInv
<1>4. \A g \in Groups : receipts[g] # NoTx =>
        /\ receipts[g] \in Paid /\ receipts[g].group = g
        /\ final[g] = receipts[g]
  BY <1>2, <1>3 DEF AuditInv, NotesInv, AuditTypeOK
<1>5. ReceiptsArePayments
  BY <1>4 DEF ReceiptsArePayments
<1>6. ReceiptsAreComplete
  BY <1>4 DEF ReceiptsAreComplete, AuditInv, NotesInv, AllConfirmed
<1>7. ASSUME NEW g \in Groups, category[g] \in {"unstarted", "failed", "dropped"},
             NEW t \in Sent, t.group = g
      PROVE  t \notin Paid /\ ~Minable(t)
  <2>1. t \in Txs /\ rows[t] \in {"none", TxFailed, TxDropped}
    BY <1>2, <1>7 DEF AuditInv, NotesInv, TypeOK, DBTypeOK, RowStates, TxStates
  <2>2. CASE rows[t] = "none"
    BY <1>1, <2>2 DEF PipelineInv, SettledInv, Paid
  <2>3. CASE rows[t] \in {TxFailed, TxDropped}
    <3>1. t.nonce < chainNonce[t.spender] /\ t \notin Paid
      BY <1>1, <2>1, <2>3 DEF PipelineInv, SettledInv, Settled, Paid
    <3>2. t.nonce \in Nat /\ chainNonce[t.spender] \in Nat
      BY <2>1 DEF Txs, Nonces, AuditInv, TypeOK, ChainTypeOK
    <3>3. QED
      BY <3>1, <3>2 DEF Minable
  <2>4. QED
    BY <2>1, <2>2, <2>3
<1>8. QED
  BY <1>5, <1>6, <1>7 DEF UnpaidIsUnpaid

(* A receipt names the transaction that paid its group.                    *)
THEOREM ReceiptsAreTrue == SpenderFixed => (AuditSpec => []ReceiptsArePayments)
<1> SUFFICES ASSUME SpenderFixed PROVE AuditSpec => []ReceiptsArePayments
  OBVIOUS
<1>1. AuditInv => ReceiptsArePayments
  BY AuditInvGivesSafety
<1>2. QED
  BY <1>1, AuditInvCorrect, PTL

(* Receipts written without --force are receipts for every payout group.   *)
THEOREM ReceiptsCoverTheFile == SpenderFixed => (AuditSpec => []ReceiptsAreComplete)
<1> SUFFICES ASSUME SpenderFixed PROVE AuditSpec => []ReceiptsAreComplete
  OBVIOUS
<1>1. AuditInv => ReceiptsAreComplete
  BY AuditInvGivesSafety
<1>2. QED
  BY <1>1, AuditInvCorrect, PTL

(* A group the audit counts as unstarted, failed or dropped was not paid,  *)
(* and nothing that was ever sent for it can still pay it.                 *)
THEOREM UnpaidStaysUnpaid == SpenderFixed => (AuditSpec => []UnpaidIsUnpaid)
<1> SUFFICES ASSUME SpenderFixed PROVE AuditSpec => []UnpaidIsUnpaid
  OBVIOUS
<1>1. AuditInv => UnpaidIsUnpaid
  BY AuditInvGivesSafety
<1>2. QED
  BY <1>1, AuditInvCorrect, PTL

(* With one paying account an audit reports neither a double payment nor a *)
(* group paid twice.                                                       *)
THEOREM AuditIsQuiet == SpenderFixed => (AuditSpec => []NoFalseAlarm)
<1> SUFFICES ASSUME SpenderFixed PROVE AuditSpec => []NoFalseAlarm
  OBVIOUS
<1>1. AuditInv => NoFalseAlarm
  BY DEF AuditInv, NotesInv
<1>2. QED
  BY <1>1, AuditInvCorrect, PTL
==============================================================================
