-------------------------- MODULE PipelineOutcomes --------------------------
(***************************************************************************)
(* Machine-checked proofs of what the pipeline's outcomes mean, as long as *)
(* one account pays: the pipeline implements PayoutLedger and what is      *)
(* settled stays settled; success means paid, nonces are settled in order, *)
(* a failure is the last thing a run records, zkSync never has two         *)
(* transactions per nonce.  The latter need invariants of their own beside *)
(* PipelineInv.  The last section lets the operator repair the database    *)
(* between two runs.                                                       *)
(***************************************************************************)
EXTENDS PipelineSafety, Repair, FiniteSetTheorems

USE DEF TxPending, TxDropped, TxFailed, TxConfirmed

(* FinalizeNonceGroup, as CheckFinal calls it: it settles pending rows     *)
(* only, and names the confirmed one as final for a group without one.     *)
LEMMA CheckFinalWrites ==
    ASSUME TypeOK, StoreInv, RunInv, SpenderFixed,
           NEW verdict \in {TxFailed, TxConfirmed}, CheckFinal(verdict)
    PROVE  LET group == nonceGroups[cursor].group
           IN  /\ \A t \in Txs : rows[t] # TxPending => rows'[t] = rows[t]
               /\ group \in Groups /\ final[group] = NoTx
               /\ \/ final' = final
                  \/ \E u \in Paid : /\ u.group = group
                                     /\ final' = [final EXCEPT ![group] = u]
<1> DEFINE txs == nonceGroups[cursor].txs
           group == nonceGroups[cursor].group
           confirmed == {t \in DOMAIN statuses : statuses[t] = TxConfirmed}
<1>1. /\ DOMAIN statuses = txs
      /\ txs = {t \in PendingRows : t.group = group}
      /\ final[group] = NoTx
      /\ group \in Groups
  BY FinalGroup
<1>2. /\ FinalizeNonceGroup(group, statuses)
      /\ pc = "check"
  BY DEF CheckFinal, Checked
<1>3. \A t \in Txs : rows[t] # TxPending => rows'[t] = rows[t]
  BY <1>1, <1>2 DEF FinalizeNonceGroup, PendingRows
<1>4. \A t \in confirmed : t \in Paid /\ t.group = group
  BY <1>1, <1>2 DEF RunInv, CheckInv
<1>5. CASE confirmed = {}
  BY <1>1, <1>2, <1>3, <1>5 DEF FinalizeNonceGroup
<1>6. CASE confirmed # {}
  <2>1. final' = [final EXCEPT ![group] = CHOOSE t \in confirmed : TRUE]
    BY <1>2, <1>6 DEF FinalizeNonceGroup
  <2>2. (CHOOSE t \in confirmed : TRUE) \in confirmed
    BY <1>6
  <2>3. QED
    BY <1>1, <1>3, <1>4, <2>1, <2>2
<1>7. QED
  BY <1>5, <1>6

(* A settled transaction keeps its row and a group its final transaction:  *)
(* FinalizeNonceGroup overwrites neither, whatever it is given.            *)
THEOREM SettledStaysSettled == SpenderFixed => (Spec => SettledForGood)
<1> SUFFICES ASSUME SpenderFixed PROVE Spec => SettledForGood
  OBVIOUS
<1> DEFINE Kept ==
      /\ \A t \in Txs : rows[t] \notin {"none", TxPending} => rows'[t] = rows[t]
      /\ \A g \in Groups : final[g] # NoTx => final'[g] = final[g]
<1>1. ASSUME TypeOK, PipelineInv, [Next]_vars PROVE [Kept]_vars
  <2>1. StoreInv /\ RunInv
    BY <1>1 DEF PipelineInv, StoreInv, RunInv
  <2>2. CASE UNCHANGED dbVars
    BY <2>2 DEF dbVars
  <2>3. ASSUME NEW price \in Prices, Create(price) PROVE Kept
    <3>1. /\ rows' = [rows EXCEPT ![TargetTx(price)] = TxPending]
          /\ rows[TargetTx(price)] = "none" /\ final' = final
      BY <2>3 DEF Create, CreateTransaction, HashTaken
    <3>2. QED
      BY <1>1, <3>1 DEF TypeOK, DBTypeOK
  <2>4. ASSUME NEW verdict \in {TxFailed, TxConfirmed}, CheckFinal(verdict) PROVE Kept
    <3> DEFINE group == nonceGroups[cursor].group
    <3>1. /\ \A t \in Txs : rows[t] # TxPending => rows'[t] = rows[t]
          /\ group \in Groups /\ final[group] = NoTx
          /\ final' = final \/ \E u \in Paid : final' = [final EXCEPT ![group] = u]
      BY <1>1, <2>1, <2>4, CheckFinalWrites
    <3>2. \A g \in Groups : final[g] # NoTx => final'[g] = final[g]
      BY <1>1, <3>1 DEF TypeOK, DBTypeOK
    <3>3. QED
      BY <3>1, <3>2
  <2>5. QED
    BY <1>1, <2>2, <2>3, <2>4, DatabaseWriters
<1>2. QED
  BY <1>1, TypeCorrect, PipelineInvCorrect, PTL DEF Spec, SettledForGood

------------------------------------------------------------------------------
(* Refinement *)

LEMMA LedgerInit == Init => Ledger!Init
BY DEF Init, ChainInit, DBInit, Ledger!Init, PaidTo, Paid

(* A step that makes no payment and settles no group is a stutter, or the  *)
(* start of another run.                                                   *)
LEMMA QuietStep ==
    ASSUME Paid' = Paid, final' = final, result' = result \/ result' # "done"
    PROVE  [Ledger!Next]_(Ledger!ledgerVars)
<1>1. [g \in Groups |-> PaidTo(g)]' = [g \in Groups |-> PaidTo(g)]
  BY DEF PaidTo
<1>2. CASE result' = result
  BY <1>1, <1>2 DEF Ledger!ledgerVars
<1>3. CASE result' # "done"
  BY <1>1, <1>3 DEF Ledger!Next, Ledger!RunAgain
<1>4. QED
  BY <1>2, <1>3

(* When a transaction is mined, its group got no payment before. *)
LEMMA MinePays ==
    ASSUME TypeOK, PipelineInv, SpenderFixed, NEW t \in Txs, Mine(t),
           UNCHANGED <<dbVars, result>>
    PROVE  [Ledger!Next]_(Ledger!ledgerVars)
<1>1. StoreInv
  BY DEF PipelineInv, StoreInv
<1>2. rows[t] = TxPending /\ t \notin mined
  BY <1>1, MinedIsPending DEF Mine
<1>3. /\ mined' = mined \union {t} /\ t.nonce = chainNonce[t.spender]
      /\ t.spender \in Spenders /\ t.nonce \in Nat /\ t.group \in Groups
      /\ final' = final /\ result' = result
  BY DEF Mine, Txs, Nonces, dbVars
<1>4. PaidTo(t.group) = {}
  <2> SUFFICES ASSUME NEW u \in Paid, u.group = t.group PROVE FALSE
    BY DEF PaidTo
  <2>1. u \in Txs /\ u.spender \in Spenders /\ u \in mined
    BY DEF TypeOK, ChainTypeOK, Paid, Txs
  <2>2. CASE rows[u] = TxPending
    <3>1. u.nonce = t.nonce /\ u.spender = t.spender
      BY <1>2, <1>3, <2>1, <2>2 DEF PipelineInv, AttachedInv, PendingRows, SpenderFixed
    <3>2. u.nonce < chainNonce[u.spender]
      BY <2>1 DEF PipelineInv, ChainInv
    <3>3. QED
      BY <1>3, <3>1, <3>2
  <2>3. CASE rows[u] # TxPending
    <3>1. final[t.group] = u
      BY <2>3 DEF PipelineInv, SettledInv
    <3>2. final[t.group] = NoTx
      BY <1>2 DEF PipelineInv, AttachedInv, PendingRows
    <3>3. QED
      BY <2>1, <3>1, <3>2, NoTxIsNotATx
  <2>4. QED
    BY <2>2, <2>3
<1>5. CASE reverted' = reverted
  <2>1. t \notin reverted
    BY <1>2 DEF TypeOK, ChainTypeOK
  <2>2. Paid' = Paid \union {t}
    BY <1>3, <1>5, <2>1 DEF Paid
  <2>3. [g \in Groups |-> PaidTo(g)]' =
          [[g \in Groups |-> PaidTo(g)] EXCEPT ![t.group] = {t}]
    BY <1>3, <1>4, <2>2 DEF PaidTo
  <2>4. Ledger!Pay(t.group)
    BY <1>3, <1>4, <2>3 DEF Ledger!Pay
  <2>5. QED
    BY <1>3, <2>4 DEF Ledger!Next
<1>6. CASE reverted' = reverted \union {t}
  <2>1. Paid' = Paid
    BY <1>2, <1>3, <1>6 DEF Paid
  <2>2. QED
    BY <1>3, <2>1, QuietStep
<1>7. QED
  BY <1>5, <1>6 DEF Mine

(* Finalizing a group writes down the payment it got. *)
LEMMA CheckFinalRecords ==
    ASSUME TypeOK, PipelineInv, SpenderFixed,
           NEW verdict \in {TxFailed, TxConfirmed}, CheckFinal(verdict)
    PROVE  [Ledger!Next]_(Ledger!ledgerVars)
<1> DEFINE group == nonceGroups[cursor].group
<1>1. Paid' = Paid /\ result' = result
  BY DEF CheckFinal, chainVars, Paid
<1>2. /\ group \in Groups /\ final[group] = NoTx
      /\ \/ final' = final
         \/ \E u \in Paid : u.group = group /\ final' = [final EXCEPT ![group] = u]
  <2>1. StoreInv /\ RunInv
    BY DEF PipelineInv, StoreInv, RunInv
  <2>2. QED
    BY <2>1, CheckFinalWrites
<1>3. CASE final' = final
  BY <1>1, <1>3, QuietStep
<1>4. ASSUME NEW u \in Paid, u.group = group, final' = [final EXCEPT ![group] = u]
      PROVE  [Ledger!Next]_(Ledger!ledgerVars)
  <2>1. u \in [g \in Groups |-> PaidTo(g)][group]
    BY <1>2, <1>4 DEF PaidTo
  <2>2. [g \in Groups |-> PaidTo(g)]' = [g \in Groups |-> PaidTo(g)]
    BY <1>1 DEF PaidTo
  <2>3. Ledger!Record(group)
    BY <1>1, <1>2, <1>4, <2>1, <2>2 DEF Ledger!Record
  <2>4. QED
    BY <1>2, <2>3 DEF Ledger!Next
<1>5. QED
  BY <1>2, <1>3, <1>4

(* A run that reports success found no unattached group and an empty       *)
(* pipeline, so every group has its final transaction.                     *)
LEMMA FillEndsReports ==
    ASSUME TypeOK, PipelineInv, FillEnds
    PROVE  [Ledger!Next]_(Ledger!ledgerVars)
<1>1. Paid' = Paid /\ final' = final /\ pc = "fill"
  BY DEF FillEnds, chainVars, dbVars, Paid
<1>2. CASE DOMAIN nonceGroups = {} /\ ~drain
  <2>1. Unattached = {}
    <3>1. Cardinality(DOMAIN nonceGroups) = 0
      BY <1>2, FS_EmptySet
    <3>2. RoomToFill
      BY <1>2, <3>1, PipelineAssumption DEF RoomToFill
    <3>3. QED
      BY <3>2 DEF FillEnds
  <2>2. PendingRows = {}
    BY <1>1, <1>2 DEF PipelineInv, MemoryInv
  <2>3. \A g \in Groups : final[g] # NoTx
    BY <2>1, <2>2 DEF Unattached
  <2>4. result' = "done"
    BY <1>2 DEF FillEnds, Return
  <2>5. [g \in Groups |-> PaidTo(g)]' = [g \in Groups |-> PaidTo(g)]
    BY <1>1 DEF PaidTo
  <2>6. Ledger!ReportComplete
    BY <1>1, <2>3, <2>4, <2>5 DEF Ledger!ReportComplete
  <2>7. QED
    BY <2>6 DEF Ledger!Next
<1>3. CASE ~(DOMAIN nonceGroups = {} /\ ~drain)
  <2>1. result' = result \/ result' # "done"
    BY <1>3 DEF FillEnds, Return, TypeOK
  <2>2. QED
    BY <1>1, <2>1, QuietStep
<1>4. QED
  BY <1>2, <1>3

(* Every other step leaves the payments and the final transactions alone   *)
(* and never reports success.                                              *)
LEMMA OtherSteps ==
    ASSUME [Next]_vars, ~FillEnds,
           \A verdict \in {TxFailed, TxConfirmed} : ~CheckFinal(verdict),
           \A t \in Txs : ~(ChainStep /\ Mine(t))
    PROVE  Paid' = Paid /\ final' = final /\ (result' = result \/ result' # "done")
<1>1. CASE \E s \in Spenders, d \in Drains : Start(s, d)
  BY <1>1 DEF Start, chainVars, dbVars, Paid
<1>2. CASE CheckStep
  <2>1. CASE CheckEnds \/ CheckError
    BY <2>1 DEF CheckEnds, CheckError, Return, chainVars, dbVars, Paid
  <2>2. CASE CheckPending \/ CheckDroppedTooYoung
    BY <2>2 DEF CheckPending, CheckDroppedTooYoung, BreakCheckLoop, chainVars, dbVars, Paid
  <2>3. CASE CheckDropped \/ \E t \in Txs, state \in TxStates : Query(t, state)
    BY <2>3 DEF CheckDropped, Query, chainVars, dbVars, Paid
  <2>4. QED
    BY <1>2, <2>1, <2>2, <2>3 DEF CheckStep
<1>3. CASE FillStep
  <2>1. CASE Step
    BY <2>1 DEF Step, chainVars, dbVars, Paid
  <2>2. ASSUME NEW g \in Groups, NEW n \in Nonces,
               FillFromLast(g, n) \/ FillFromChain(g, n)
        PROVE  /\ Paid' = Paid /\ final' = final
               /\ result' = result \/ result' # "done"
    <3>1. UNCHANGED <<chainVars, dbVars>> /\ (result' = result \/ result' = "nonce")
      BY <2>2 DEF FillFromLast, FillFromChain, Fill, Return
    <3>2. QED
      BY <3>1 DEF chainVars, dbVars, Paid
  <2>3. QED
    BY <1>3, <2>1, <2>2 DEF FillStep
<1>4. CASE SendStep
  <2>1. ASSUME NEW price \in Prices, Create(price) \/ CreateRefused(price)
        PROVE  /\ Paid' = Paid /\ final' = final
               /\ result' = result \/ result' # "done"
    BY <2>1 DEF Create, CreateTransaction, CreateRefused, Return, chainVars, dbVars, Paid
  <2>2. CASE SendAccepted
    BY <2>2 DEF SendAccepted, Accept, dbVars, Paid
  <2>3. CASE SendRefused
    BY <2>3 DEF SendRefused, Refuse, dbVars, Paid
  <2>4. QED
    BY <1>4, <2>1, <2>2, <2>3 DEF SendStep
<1>5. CASE ChainStep
  <2>1. PICK t \in Txs : Evict(t) \/ Reappear(t)
    BY <1>5 DEF ChainStep, ChainNext
  <2>2. QED
    BY <1>5, <2>1 DEF ChainStep, Evict, Reappear, Paid, dbVars
<1>6. CASE Abort \/ (\E t \in Txs : Age(t)) \/ UNCHANGED vars
  BY <1>6 DEF Abort, Age, vars, chainVars, dbVars, Paid
<1>7. QED
  BY <1>1, <1>2, <1>3, <1>4, <1>5, <1>6 DEF Next

LEMMA LedgerNext ==
    ASSUME TypeOK, PipelineInv, SpenderFixed, [Next]_vars
    PROVE  [Ledger!Next]_(Ledger!ledgerVars)
<1>1. CASE FillEnds
  BY <1>1, FillEndsReports
<1>2. ASSUME NEW verdict \in {TxFailed, TxConfirmed}, CheckFinal(verdict)
      PROVE  [Ledger!Next]_(Ledger!ledgerVars)
  BY <1>2, CheckFinalRecords
<1>3. ASSUME NEW t \in Txs, ChainStep, Mine(t)
      PROVE  [Ledger!Next]_(Ledger!ledgerVars)
  BY <1>3, MinePays DEF ChainStep
<1>4. CASE /\ ~FillEnds
           /\ \A verdict \in {TxFailed, TxConfirmed} : ~CheckFinal(verdict)
           /\ \A t \in Txs : ~(ChainStep /\ Mine(t))
  BY <1>4, OtherSteps, QuietStep
<1>5. QED
  BY <1>1, <1>2, <1>3, <1>4

(* The pipeline, its database and the chain implement the abstract payout  *)
(* ledger: each group is paid at most once, a payment is written down once *)
(* and after it was made, and success is reported only when all are.       *)
THEOREM PipelineImplementsLedger == SpenderFixed => (Spec => ImplementsLedger)
<1> SUFFICES ASSUME SpenderFixed PROVE Spec => ImplementsLedger
  OBVIOUS
<1>1. TypeOK /\ PipelineInv /\ [Next]_vars => [Ledger!Next]_(Ledger!ledgerVars)
  BY LedgerNext
<1>2. QED
  BY <1>1, LedgerInit, TypeCorrect, PipelineInvCorrect, PTL
  DEF Spec, ImplementsLedger, Ledger!Spec

------------------------------------------------------------------------------
(* Success means paid *)

(* A run that is going on has not reported yet. *)
ReportInv ==
    /\ result \in {"done", "drained"} => pc = "stopped"
    /\ DoneMeansPaid

(* Whoever says done, or drained, is FillEnds. *)
LEMMA OnlyFillEndsReports ==
    ASSUME [Next]_vars, ReportInv, ~FillEnds
    PROVE  \/ result' \notin {"done", "drained"}
           \/ result' = result /\ pc = "stopped" /\ pc' = "stopped" /\ UNCHANGED dbVars
<1> USE DEF ReportInv
<1>1. CASE \E s \in Spenders, d \in Drains : Start(s, d)
  BY <1>1 DEF Start
<1>2. CASE CheckStep
  BY <1>2 DEF CheckStep, Query, CheckError, CheckPending, CheckDroppedTooYoung,
     BreakCheckLoop, CheckDropped, CheckFinal, CheckEnds, Checked, Return, runVars
<1>3. CASE FillStep
  BY <1>3 DEF FillStep, Step, FillFromLast, FillFromChain, Fill, Return
<1>4. CASE SendStep
  BY <1>4 DEF SendStep, Create, CreateRefused, SendAccepted, SendRefused, Return
<1>5. CASE Abort
  BY <1>5 DEF Abort
<1>6. CASE ChainStep \/ (\E t \in Txs : Age(t)) \/ UNCHANGED vars
  BY <1>6 DEF ChainStep, Age, vars, dbVars
<1>7. QED
  BY <1>1, <1>2, <1>3, <1>4, <1>5, <1>6 DEF Next

(* An empty pipeline, and no unattached group or no wish for one.          *)
LEMMA FillEndsIsTrue ==
    ASSUME TypeOK, PipelineInv, ReportInv, FillEnds
    PROVE  ReportInv'
<1>1. pc = "fill" /\ UNCHANGED dbVars /\ result \notin {"done", "drained"}
  BY DEF FillEnds, ReportInv
<1>2. CASE DOMAIN nonceGroups = {}
  <2>1. PendingRows = {}
    BY <1>1, <1>2 DEF PipelineInv, MemoryInv
  <2>2. PendingRows' = {} /\ final' = final /\ pc' = "stopped"
    BY <1>1, <1>2, <2>1 DEF PendingRows, dbVars, FillEnds, Return
  <2>3. CASE drain
    BY <1>2, <2>2, <2>3 DEF ReportInv, DoneMeansPaid, FillEnds, Return
  <2>4. CASE ~drain
    <3>1. Cardinality(DOMAIN nonceGroups) = 0
      BY <1>2, FS_EmptySet
    <3>2. RoomToFill
      BY <2>4, <3>1, PipelineAssumption DEF RoomToFill
    <3>3. \A g \in Groups : final[g] # NoTx
      BY <2>1, <3>2 DEF FillEnds, Unattached
    <3>4. QED
      BY <1>2, <2>2, <2>4, <3>3 DEF ReportInv, DoneMeansPaid, FillEnds, Return
  <2>5. QED
    BY <2>3, <2>4 DEF TypeOK
<1>3. CASE DOMAIN nonceGroups # {}
  BY <1>1, <1>3 DEF FillEnds, ReportInv, DoneMeansPaid
<1>4. QED
  BY <1>2, <1>3

LEMMA ReportNext ==
    ASSUME TypeOK, PipelineInv, ReportInv, [Next]_vars
    PROVE  ReportInv'
<1>1. CASE FillEnds
  BY <1>1, FillEndsIsTrue
<1>2. CASE result' \notin {"done", "drained"}
  BY <1>2 DEF ReportInv, DoneMeansPaid
<1>3. CASE result' = result /\ pc' = "stopped" /\ UNCHANGED dbVars
  BY <1>3 DEF ReportInv, DoneMeansPaid, dbVars, PendingRows
<1>4. QED
  BY <1>1, <1>2, <1>3, OnlyFillEndsReports

(* A run that returns without an error has paid every payout group, and a  *)
(* drained one has left nothing pending.                                   *)
THEOREM SuccessMeansPaid == SpenderFixed => (Spec => []DoneMeansPaid)
<1> SUFFICES ASSUME SpenderFixed PROVE Spec => []DoneMeansPaid
  OBVIOUS
<1>1. Init => ReportInv
  BY DEF Init, ReportInv, DoneMeansPaid
<1>2. ReportInv => DoneMeansPaid
  BY DEF ReportInv
<1>3. QED
  BY <1>1, <1>2, ReportNext, TypeCorrect, PipelineInvCorrect, PTL DEF Spec

------------------------------------------------------------------------------
(* Nonces in order *)

MinedRow(t) == rows[t] \in {TxFailed, TxConfirmed}

(* What is about to be recorded comes after everything mined, too.         *)
OrderInv ==
    /\ SettledInOrder
    /\ pc = "create" => \A t \in Txs : MinedRow(t) => t.nonce < target.nonce

(* A transaction is re-sent for the nonce of a group with pending rows.    *)
LEMMA DroppedOrder ==
    ASSUME TypeOK, PipelineInv, OrderInv, CheckDropped
    PROVE  OrderInv'
<1>1. /\ UNCHANGED dbVars /\ pc = "check"
      /\ target' = [group |-> nonceGroups[cursor].group, nonce |-> cursor]
  BY DEF CheckDropped, Checked
<1>2. cursor \in DOMAIN nonceGroups /\ nonceGroups[cursor].txs # {}
  <2>1. cursor \in Nat
    BY DEF TypeOK, Nonces
  <2>2. QED
    BY <1>1, <2>1 DEF PipelineInv, CheckInv
<1>3. PICK u \in nonceGroups[cursor].txs :
        u \in Txs /\ rows[u] = TxPending /\ u.nonce = cursor
  BY <1>1, <1>2 DEF PipelineInv, MemoryInv, TypeOK, NonceGroups
<1>4. \A t \in Txs : MinedRow(t) => t.nonce < cursor
  BY <1>3 DEF OrderInv, SettledInOrder, MinedRow
<1>5. QED
  BY <1>1, <1>4 DEF OrderInv, SettledInOrder, MinedRow, dbVars

(* A new group goes after the pending ones, or where the chain is.         *)
LEMMA FillOrder ==
    ASSUME TypeOK, PipelineInv, SpenderFixed, ~StaleNonce, OrderInv,
           NEW g \in Groups, NEW n \in Nonces,
           FillFromLast(g, n) \/ FillFromChain(g, n)
    PROVE  OrderInv'
<1>1. UNCHANGED dbVars
  BY DEF FillFromLast, FillFromChain, Fill
<1>2. \A t \in Txs : t.nonce \in Nat /\ t.spender \in Spenders
  BY DEF Txs, Nonces
<1>3. CASE FillFromLast(g, n)
  <2>1. pc = "fill" /\ n \in DOMAIN nonceGroups /\ target' = [group |-> g, nonce |-> n + 1]
    BY <1>3 DEF FillFromLast, Fill
  <2>2. nonceGroups[n].txs # {}
    BY <2>1 DEF PipelineInv, PrefixInv
  <2>3. PICK u \in nonceGroups[n].txs : u \in Txs /\ rows[u] = TxPending /\ u.nonce = n
    BY <2>1, <2>2 DEF PipelineInv, MemoryInv, TypeOK, NonceGroups
  <2>4. \A t \in Txs : MinedRow(t) => t.nonce < n + 1
    BY <1>2, <2>3 DEF OrderInv, SettledInOrder, MinedRow, Nonces
  <2>5. QED
    BY <1>1, <2>1, <2>4 DEF OrderInv, SettledInOrder, MinedRow, dbVars
<1>4. CASE FillFromChain(g, n)
  <2>1. CASE KnownBad(n)
    BY <1>1, <1>4, <2>1 DEF FillFromChain, Return, OrderInv, SettledInOrder, dbVars
  <2>2. CASE ~KnownBad(n)
    <3>1. n = chainNonce[spender] /\ target' = [group |-> g, nonce |-> n]
      BY <1>4, <2>2 DEF FillFromChain, Fill, NonceAt
    <3>2. \A t \in Txs : MinedRow(t) => t.nonce < chainNonce[t.spender]
      BY DEF PipelineInv, SettledInv, Settled, MinedRow
    <3>3. \A t \in Txs : t.spender = spender
      BY <1>2 DEF SpenderFixed, TypeOK
    <3>4. QED
      BY <1>1, <3>1, <3>2, <3>3 DEF OrderInv, SettledInOrder, MinedRow, dbVars
  <2>3. QED
    BY <2>1, <2>2
<1>5. QED
  BY <1>3, <1>4

LEMMA CreateOrder ==
    ASSUME TypeOK, PipelineInv, OrderInv, NEW price \in Prices, Create(price)
    PROVE  OrderInv'
<1> DEFINE t == TargetTx(price)
<1>1. /\ pc = "create" /\ pc' = "send"
      /\ rows' = [rows EXCEPT ![t] = TxPending]
  BY DEF Create, CreateTransaction
<1>2. t \in Txs /\ t.nonce = target.nonce
  <2>1. target \in [group : Groups, nonce : Nonces]
    BY <1>1 DEF TypeOK
  <2>2. QED
    BY <2>1, TargetTxType
<1>3. /\ rows'[t] = TxPending
      /\ \A u \in Txs : u # t => rows'[u] = rows[u]
  BY <1>1, <1>2 DEF TypeOK, DBTypeOK
<1>4. \A u, v \in Txs : rows'[u] \in {TxFailed, TxConfirmed} /\ rows'[v] = TxPending
                          => u.nonce < v.nonce
  BY <1>1, <1>2, <1>3 DEF OrderInv, SettledInOrder, MinedRow
<1>5. QED
  BY <1>1, <1>4 DEF OrderInv, SettledInOrder

(* The group at the cursor is the first with pending rows.                 *)
LEMMA FinalOrder ==
    ASSUME TypeOK, PipelineInv, SpenderFixed, OrderInv,
           NEW verdict \in {TxFailed, TxConfirmed}, CheckFinal(verdict)
    PROVE  OrderInv'
<1> DEFINE txs == nonceGroups[cursor].txs
<1>1. StoreInv /\ RunInv
  BY DEF PipelineInv, StoreInv, RunInv
<1>2. /\ cursor \in DOMAIN nonceGroups
      /\ DOMAIN statuses = txs
      /\ txs = {t \in PendingRows : t.nonce = cursor}
  BY <1>1, FinalGroup
<1>3. /\ pc = "check" /\ pc' \in {"check", "checked"}
      /\ FinalizeNonceGroup(nonceGroups[cursor].group, statuses)
  BY DEF CheckFinal, Checked, CheckFrom
<1>4. rows' = [t \in Txs |-> IF t \in txs THEN statuses[t] ELSE rows[t]]
  BY <1>2, <1>3 DEF FinalizeNonceGroup
<1>5. ASSUME NEW u \in Txs, NEW v \in Txs,
             rows'[u] \in {TxFailed, TxConfirmed}, rows'[v] = TxPending
      PROVE  u.nonce < v.nonce
  <2>1. u \in txs => u.nonce = cursor
    BY <1>2
  <2>2. CASE u \notin txs /\ v \notin txs
    BY <1>4, <1>5, <2>2 DEF OrderInv, SettledInOrder
  <2>3. CASE u \in txs /\ v \notin txs
    <3>1. v \in PendingRows /\ v.nonce # cursor
      BY <1>2, <1>4, <1>5, <2>3 DEF PendingRows
    <3>2. v.nonce \in DOMAIN nonceGroups /\ nonceGroups[v.nonce].txs # {}
      BY <1>3, <3>1 DEF PipelineInv, MemoryInv
    <3>3. ~(v.nonce < cursor)
      BY <1>3, <3>2 DEF PipelineInv, CheckInv
    <3>4. v.nonce \in Nat /\ cursor \in Nat
      BY DEF Txs, Nonces, TypeOK
    <3>5. QED
      BY <2>1, <2>3, <3>1, <3>3, <3>4
  <2>4. CASE v \in txs
    <3>1. \E w \in txs : statuses[w] = verdict /\ \A t \in txs \ {w} : statuses[t] = TxDropped
      BY <1>1, FinalGroup
    <3>2. FALSE
      BY <1>4, <1>5, <2>4, <3>1
    <3>3. QED
      BY <3>2
  <2>5. QED
    BY <2>2, <2>3, <2>4
<1>6. QED
  BY <1>3, <1>5 DEF OrderInv, SettledInOrder

(* The other steps neither write to the database nor come to "create".     *)
LEMMA NoNewTarget ==
    ASSUME [Next]_vars, ~CheckDropped,
           \A g \in Groups, n \in Nonces : ~FillFromLast(g, n) /\ ~FillFromChain(g, n),
           \A price \in Prices : ~Create(price),
           \A verdict \in {TxFailed, TxConfirmed} : ~CheckFinal(verdict)
    PROVE  UNCHANGED dbVars /\ (pc' # "create" \/ UNCHANGED <<pc, target>>)
<1>1. UNCHANGED dbVars
  BY DatabaseWriters
<1>2. pc' # "create" \/ UNCHANGED <<pc, target>>
  <2>1. CASE \E s \in Spenders, d \in Drains : Start(s, d)
    BY <2>1 DEF Start, CheckFrom
  <2>2. CASE CheckStep
    BY <2>2 DEF CheckStep, Query, CheckError, CheckPending, CheckDroppedTooYoung,
       BreakCheckLoop, CheckEnds, Checked, CheckFrom, Return, runVars
  <2>3. CASE FillStep
    BY <2>3 DEF FillStep, Step, FillEnds, CheckFrom, Return
  <2>4. CASE SendStep
    BY <2>4 DEF SendStep, CreateRefused, SendAccepted, SendRefused, Return
  <2>5. CASE Abort \/ ChainStep \/ (\E t \in Txs : Age(t)) \/ UNCHANGED vars
    BY <2>5 DEF Abort, ChainStep, Age, vars, runVars
  <2>6. QED
    BY <2>1, <2>2, <2>3, <2>4, <2>5 DEF Next
<1>3. QED
  BY <1>1, <1>2

LEMMA OtherOrder ==
    ASSUME OrderInv, UNCHANGED dbVars, pc' # "create" \/ UNCHANGED <<pc, target>>
    PROVE  OrderInv'
BY DEF OrderInv, SettledInOrder, MinedRow, dbVars

LEMMA OrderNext ==
    ASSUME TypeOK, PipelineInv, SpenderFixed, ~StaleNonce, OrderInv, [Next]_vars
    PROVE  OrderInv'
BY DroppedOrder, FillOrder, CreateOrder, FinalOrder, NoNewTarget, OtherOrder

LEMMA OrderInvCorrect == SpenderFixed /\ ~StaleNonce => (Spec => []OrderInv)
<1> SUFFICES ASSUME SpenderFixed, ~StaleNonce PROVE Spec => []OrderInv
  OBVIOUS
<1>1. Init => OrderInv
  BY DEF Init, DBInit, OrderInv, SettledInOrder
<1>2. QED
  BY <1>1, OrderNext, TypeCorrect, PipelineInvCorrect, PTL DEF Spec

(* As long as the node's account nonce is current, no transaction is       *)
(* settled while one for an earlier nonce is still pending.                *)
THEOREM NoncesSettleInOrder ==
    SpenderFixed /\ ~StaleNonce => (Spec => []SettledInOrder)
<1> SUFFICES ASSUME SpenderFixed, ~StaleNonce PROVE Spec => []SettledInOrder
  OBVIOUS
<1>1. OrderInv => SettledInOrder
  BY DEF OrderInv
<1>2. QED
  BY <1>1, OrderInvCorrect, PTL

(* And none is recorded for a nonce the database has settled, which is     *)
(* what expectedNonce is there to prevent.                                 *)
THEOREM NoBadNonce ==
    SpenderFixed /\ ~StaleNonce => (Spec => NoKnownBadNonce)
<1> SUFFICES ASSUME SpenderFixed, ~StaleNonce PROVE Spec => NoKnownBadNonce
  OBVIOUS
<1> DEFINE Good == \A t, u \in Txs : /\ rows[t] = "none" /\ rows'[t] # "none"
                                     /\ rows[u] \in {TxFailed, TxConfirmed} /\ SameSlot(t, u)
                                     => FALSE
<1>1. ASSUME TypeOK, PipelineInv, OrderInv, [Next]_vars PROVE [Good]_vars
  <2>1. CASE UNCHANGED dbVars
    BY <2>1 DEF dbVars
  <2>2. ASSUME NEW price \in Prices, Create(price) PROVE Good
    <3>1. pc = "create" /\ rows' = [rows EXCEPT ![TargetTx(price)] = TxPending]
      BY <2>2 DEF Create, CreateTransaction
    <3>2. \A t \in Txs : rows[t] = "none" /\ rows'[t] # "none" => t.nonce = target.nonce
      BY <1>1, <3>1 DEF TypeOK, DBTypeOK, TargetTx
    <3>3. \A u \in Txs : MinedRow(u) => u.nonce < target.nonce
      BY <1>1, <3>1 DEF OrderInv
    <3>4. target.nonce \in Nat
      BY <1>1, <3>1 DEF TypeOK, Nonces
    <3>5. QED
      BY <3>2, <3>3, <3>4 DEF MinedRow, SameSlot, Txs, Nonces
  <2>3. ASSUME NEW verdict \in {TxFailed, TxConfirmed}, CheckFinal(verdict) PROVE Good
    <3>1. StoreInv /\ RunInv
      BY <1>1 DEF PipelineInv, StoreInv, RunInv
    <3>2. \A t \in Txs : rows[t] # TxPending => rows'[t] = rows[t]
      BY <1>1, <2>3, <3>1, CheckFinalWrites
    <3>3. QED
      BY <3>2
  <2>4. QED
    BY <1>1, <2>1, <2>2, <2>3, DatabaseWriters
<1>2. QED
  BY <1>1, OrderInvCorrect, TypeCorrect, PipelineInvCorrect, PTL DEF Spec, NoKnownBadNonce

------------------------------------------------------------------------------
(* A failure is the last thing a run records; zkSync and dropped           *)

(* A failed group is remembered in the check loop only, and the receipts   *)
(* of zkSync know no dropped transaction.                                  *)
FailureInv ==
    /\ failed => pc \in {"check", "checked"}
    /\ PayerKind = "zksync" => \A t \in DOMAIN statuses : statuses[t] # TxDropped

(* Once told to check only, a payer never calls a group dropped; nor does  *)
(* the zkSync payer ever.                                                  *)
LEMMA DroppedVerdict ==
    ASSUME TypeOK, PipelineInv, FailureInv, CheckDropped
    PROVE  ~failed /\ PayerKind = "eth"
<1>1. /\ pc = "check" /\ Unasked = {} /\ Verdict(statuses, failed) = TxDropped
  BY DEF CheckDropped, Checked, CheckOnly
<1>2. CASE PayerKind = "eth"
  <2>1. EthVerdict(statuses, failed) = TxDropped
    BY <1>1, <1>2 DEF Verdict
  <2>2. ASSUME Other(statuses) # {}, \A t, u \in Other(statuses) : t = u PROVE FALSE
    <3>1. statuses[CHOOSE t \in Other(statuses) : TRUE] = TxDropped
      BY <2>1, <2>2 DEF EthVerdict
    <3>2. (CHOOSE t \in Other(statuses) : TRUE) \in Other(statuses)
      BY <2>2
    <3>3. QED
      BY <3>1, <3>2 DEF Other
  <2>3. ASSUME failed PROVE FALSE
    BY <2>1, <2>2, <2>3 DEF EthVerdict
  <2>4. QED
    BY <1>2, <2>3
<1>3. CASE PayerKind = "zksync"
  <2>1. ZkVerdict(statuses) = TxDropped
    BY <1>1, <1>3 DEF Verdict
  <2>2. DOMAIN statuses # {}
    <3>1. cursor \in Nat
      BY DEF TypeOK, Nonces
    <3>2. nonceGroups[cursor].txs # {}
      BY <1>1, <3>1 DEF PipelineInv, CheckInv
    <3>3. QED
      BY <1>1, <3>2 DEF Unasked
  <2>3. statuses[CHOOSE t \in DOMAIN statuses : TRUE] = TxDropped
    BY <2>1 DEF ZkVerdict
  <2>4. (CHOOSE t \in DOMAIN statuses : TRUE) \in DOMAIN statuses
    BY <2>2
  <2>5. QED
    BY <1>3, <2>3, <2>4 DEF FailureInv
<1>4. QED
  BY <1>2, <1>3, PayerKindKnown

LEMMA FailureNext ==
    ASSUME TypeOK, PipelineInv, FailureInv, [Next]_vars
    PROVE  FailureInv'
<1> USE DEF FailureInv
<1> DEFINE Kept == UNCHANGED <<pc, failed, statuses>>
           Cleared == DOMAIN statuses' = {}
<1>1. CASE \E s \in Spenders, d \in Drains : Start(s, d)
  BY <1>1 DEF Start, CheckFrom, Nothing
<1>2. ASSUME NEW t \in Txs, NEW state \in TxStates, Query(t, state)
      PROVE  FailureInv'
  <2>1. /\ DOMAIN statuses' = DOMAIN statuses \union {t}
        /\ \A u \in DOMAIN statuses' :
             statuses'[u] = IF u = t THEN state ELSE statuses[u]
    BY <1>2 DEF Query
  <2>2. PayerKind = "zksync" => state # TxDropped
    BY <1>2 DEF Query, StatusAnswers
  <2>3. pc' = pc /\ failed' = failed
    BY <1>2 DEF Query
  <2>4. QED
    BY <2>1, <2>2, <2>3
<1>3. CASE CheckDropped
  <2>1. ~failed
    BY <1>3, DroppedVerdict
  <2>2. failed' = failed /\ DOMAIN statuses' = {}
    BY <1>3 DEF CheckDropped, Nothing
  <2>3. QED
    BY <2>1, <2>2
<1>4. CASE CheckPending \/ CheckDroppedTooYoung
  BY <1>4 DEF CheckPending, CheckDroppedTooYoung, BreakCheckLoop, CheckFrom, Nothing
<1>5. ASSUME NEW verdict \in {TxFailed, TxConfirmed}, CheckFinal(verdict)
      PROVE  FailureInv'
  BY <1>5 DEF CheckFinal, CheckFrom, Nothing
<1>6. CASE CheckError
  BY <1>6 DEF CheckError, Return, MemoryCleared, Nothing
<1>7. CASE CheckEnds
  BY <1>7 DEF CheckEnds, Return, MemoryCleared, Nothing, runVars
<1>8. CASE FillStep
  <2>1. CASE Step
    BY <2>1 DEF Step
  <2>2. CASE FillEnds
    BY <2>2 DEF FillEnds, Return, MemoryCleared, CheckFrom, Nothing
  <2>3. ASSUME NEW g \in Groups, NEW n \in Nonces, FillFromLast(g, n)
        PROVE  FailureInv'
    BY <2>3 DEF FillFromLast, Fill
  <2>4. ASSUME NEW g \in Groups, NEW n \in Nonces, FillFromChain(g, n)
        PROVE  FailureInv'
    BY <2>4 DEF FillFromChain, Fill, Return, MemoryCleared, Nothing
  <2>5. QED
    BY <1>8, <2>1, <2>2, <2>3, <2>4 DEF FillStep
<1>9. CASE SendStep
  <2>1. ASSUME NEW price \in Prices, Create(price) \/ CreateRefused(price)
        PROVE  FailureInv'
    BY <2>1 DEF Create, CreateRefused, Return, MemoryCleared, Nothing
  <2>2. CASE SendAccepted \/ SendRefused
    BY <2>2 DEF SendAccepted, SendRefused, MemoryCleared, Nothing
  <2>3. QED
    BY <1>9, <2>1, <2>2 DEF SendStep
<1>10. CASE Abort
  BY <1>10 DEF Abort, MemoryCleared, Nothing
<1>11. CASE ChainStep \/ (\E t \in Txs : Age(t)) \/ UNCHANGED vars
  BY <1>11 DEF ChainStep, Age, vars, runVars
<1>12. QED
  BY <1>1, <1>2, <1>3, <1>4, <1>5, <1>6, <1>7, <1>8, <1>9, <1>10, <1>11
  DEF Next, CheckStep

LEMMA FailureInvCorrect == SpenderFixed => (Spec => []FailureInv)
<1> SUFFICES ASSUME SpenderFixed PROVE Spec => []FailureInv
  OBVIOUS
<1>1. Init => FailureInv
  BY DEF Init, FailureInv, Nothing
<1>2. QED
  BY <1>1, FailureNext, TypeCorrect, PipelineInvCorrect, PTL DEF Spec

(* Once a group is found failed, the run finalizes what else it can and    *)
(* ends: it records no new transaction.                                    *)
THEOREM FailureEndsTheRun == SpenderFixed => (Spec => NothingCreatedAfterFailure)
<1> SUFFICES ASSUME SpenderFixed PROVE Spec => NothingCreatedAfterFailure
  OBVIOUS
<1> DEFINE Quiet == failed => \A t \in Txs : rows[t] = "none" => rows'[t] = "none"
<1>1. ASSUME TypeOK, PipelineInv, FailureInv, [Next]_vars PROVE [Quiet]_vars
  <2>1. CASE UNCHANGED dbVars
    BY <2>1 DEF dbVars
  <2>2. ASSUME NEW price \in Prices, Create(price) PROVE Quiet
    BY <1>1, <2>2 DEF Create, FailureInv
  <2>3. ASSUME NEW verdict \in {TxFailed, TxConfirmed}, CheckFinal(verdict) PROVE Quiet
    <3>1. StoreInv /\ RunInv
      BY <1>1 DEF PipelineInv, StoreInv, RunInv
    <3>2. \A t \in Txs : rows[t] # TxPending => rows'[t] = rows[t]
      BY <1>1, <2>3, <3>1, CheckFinalWrites
    <3>3. QED
      BY <3>2
  <2>4. QED
    BY <1>1, <2>1, <2>2, <2>3, DatabaseWriters
<1>2. QED
  BY <1>1, FailureInvCorrect, TypeCorrect, PipelineInvCorrect, PTL
  DEF Spec, NothingCreatedAfterFailure

------------------------------------------------------------------------------
(* zkSync: one pending transaction per nonce *)

(* The zkSync payer records only for nonces with nothing pending.          *)
SingleInv ==
    /\ OnePendingPerNonce
    /\ pc = "create" => \A t \in PendingRows : t.nonce # target.nonce

LEMMA SingleNext ==
    ASSUME TypeOK, PipelineInv, SpenderFixed, FailureInv, SingleInv,
           PayerKind = "zksync", [Next]_vars
    PROVE  SingleInv'
<1>1. ~CheckDropped
  BY DroppedVerdict
<1>2. ASSUME NEW price \in Prices, Create(price)
      PROVE  SingleInv'
  <2> DEFINE t == TargetTx(price)
  <2>1. /\ pc = "create" /\ pc' = "send"
        /\ rows' = [rows EXCEPT ![t] = TxPending]
    BY <1>2 DEF Create, CreateTransaction
  <2>2. t.nonce = target.nonce
    BY DEF TargetTx
  <2>3. PendingRows' \subseteq PendingRows \union {t}
    BY <2>1 DEF PendingRows, TypeOK, DBTypeOK
  <2>4. QED
    BY <2>1, <2>2, <2>3 DEF SingleInv, OnePendingPerNonce
<1>3. ASSUME NEW verdict \in {TxFailed, TxConfirmed}, CheckFinal(verdict)
      PROVE  SingleInv'
  <2>1. StoreInv /\ RunInv
    BY DEF PipelineInv, StoreInv, RunInv
  <2>2. \A t \in Txs : rows[t] # TxPending => rows'[t] = rows[t]
    BY <1>3, <2>1, CheckFinalWrites
  <2>3. PendingRows' \subseteq PendingRows /\ pc' # "create"
    BY <1>3, <2>2 DEF PendingRows, CheckFinal, CheckFrom
  <2>4. QED
    BY <2>3 DEF SingleInv, OnePendingPerNonce
<1>4. ASSUME NEW g \in Groups, NEW n \in Nonces,
             FillFromLast(g, n) \/ FillFromChain(g, n)
      PROVE  SingleInv'
  <2>1. UNCHANGED dbVars /\ pc = "fill"
    BY <1>4 DEF FillFromLast, FillFromChain, Fill
  <2>2. PendingRows' = PendingRows
    BY <2>1 DEF dbVars, PendingRows
  <2>3. \A t \in PendingRows : t.nonce \in DOMAIN nonceGroups
    BY <2>1 DEF PipelineInv, MemoryInv
  <2>4. CASE FillFromLast(g, n)
    <3>1. DOMAIN nonceGroups \subseteq Nat /\ n \in Nat
      BY DEF TypeOK, Nonces
    <3>2. n + 1 \notin DOMAIN nonceGroups
      BY <2>4, <3>1 DEF FillFromLast
    <3>3. target' = [group |-> g, nonce |-> n + 1]
      BY <2>4 DEF FillFromLast, Fill
    <3>4. QED
      BY <2>2, <2>3, <3>2, <3>3 DEF SingleInv, OnePendingPerNonce
  <2>5. CASE FillFromChain(g, n)
    <3>1. PendingRows = {}
      BY <2>3, <2>5 DEF FillFromChain
    <3>2. QED
      BY <2>2, <3>1 DEF SingleInv, OnePendingPerNonce
  <2>6. QED
    BY <1>4, <2>4, <2>5
<1>5. CASE /\ \A g \in Groups, n \in Nonces : ~FillFromLast(g, n) /\ ~FillFromChain(g, n)
           /\ \A price \in Prices : ~Create(price)
           /\ \A verdict \in {TxFailed, TxConfirmed} : ~CheckFinal(verdict)
  <2>1. UNCHANGED dbVars /\ (pc' # "create" \/ UNCHANGED <<pc, target>>)
    BY <1>1, <1>5, NoNewTarget
  <2>2. PendingRows' = PendingRows
    BY <2>1 DEF dbVars, PendingRows
  <2>3. QED
    BY <2>1, <2>2 DEF SingleInv, OnePendingPerNonce
<1>6. QED
  BY <1>2, <1>3, <1>4, <1>5

(* zkSync's CheckNonceGroup refuses two transactions for one nonce: it     *)
(* never meets them.                                                       *)
THEOREM ZkSyncChecksOne ==
    SpenderFixed /\ PayerKind = "zksync" => (Spec => []OnePendingPerNonce)
<1> SUFFICES ASSUME SpenderFixed, PayerKind = "zksync"
             PROVE  Spec => []OnePendingPerNonce
  OBVIOUS
<1>1. Init => SingleInv
  BY DEF Init, DBInit, PendingRows, SingleInv, OnePendingPerNonce
<1>2. SingleInv => OnePendingPerNonce
  BY DEF SingleInv
<1>3. QED
  BY <1>1, <1>2, SingleNext, TypeCorrect, PipelineInvCorrect, FailureInvCorrect, PTL
  DEF Spec

------------------------------------------------------------------------------
(* The operator's repair keeps all of it: pending rows nobody can mine are *)
(* deleted.                                                                *)

(* What the operator does beside the pipeline.                             *)
OperatorStep == OperatorStops \/ DeletePending

LEMMA OperatorType == TypeOK /\ OperatorStep => TypeOK'
<1> SUFFICES ASSUME TypeOK, OperatorStep PROVE TypeOK'
  OBVIOUS
<1>1. CASE OperatorStops
  <2>1. ChainTypeOK' /\ DBTypeOK'
    BY <1>1 DEF OperatorStops, TypeOK, ChainTypeOK, DBTypeOK, chainVars, dbVars
  <2>2. MemoryCleared
    BY <1>1 DEF OperatorStops
  <2>3. QED
    BY <1>1, <2>1, <2>2, ClearedType DEF OperatorStops, TypeOK, PCs, Results
<1>2. CASE DeletePending
  <2>1. ChainTypeOK'
    BY <1>2 DEF DeletePending, TypeOK, ChainTypeOK, chainVars
  <2>2. DBTypeOK'
    BY <1>2 DEF DeletePending, TypeOK, DBTypeOK, RowStates
  <2>3. QED
    BY <1>2, <2>1, <2>2 DEF DeletePending, TypeOK, runVars
<1>3. QED
  BY <1>1, <1>2 DEF OperatorStep

LEMMA RepairTypeCorrect == RepairSpec => []TypeOK
<1>1. TypeOK /\ [RepairNext]_vars => TypeOK'
  BY TypeNext, OperatorType DEF RepairNext, OperatorStep
<1>2. QED
  BY <1>1, TypeInit, PTL DEF RepairSpec

(* What is deleted was pending, is not mined and never will be; the other  *)
(* rows stay.                                                              *)
LEMMA DeletedRows ==
    ASSUME TypeOK, StoreInv, DeletePending
    PROVE  /\ PendingRows' = {}
           /\ \A t \in Txs : rows[t] # TxPending => rows'[t] = rows[t]
           /\ \A t \in Txs : rows[t] = TxPending =>
                /\ rows'[t] = "none"
                /\ t \in Sent => t \notin mined /\ ~Minable(t)
           /\ UNCHANGED <<chainNonce, mined, reverted, Paid, Sent, final>>
BY DEF DeletePending, Hopeless, NeverOnTheChain, PendingRows, chainVars, Paid, Sent

LEMMA DeleteStore ==
    ASSUME TypeOK, StoreInv, DeletePending
    PROVE  StoreInv'
<1>1. /\ PendingRows' = {}
      /\ \A t \in Txs : rows[t] # TxPending => rows'[t] = rows[t]
      /\ \A t \in Txs : rows[t] = TxPending =>
           /\ rows'[t] = "none"
           /\ t \in Sent => t \notin mined /\ ~Minable(t)
      /\ UNCHANGED <<chainNonce, mined, reverted, Paid, Sent, final>>
  BY DeletedRows
<1>2. \A t \in Sent : t \in Txs
  BY DEF TypeOK, ChainTypeOK, Sent
<1>3. Paid \subseteq mined /\ mined \subseteq Sent
  BY DEF Paid, Sent
<1>4. ChainInv'
  BY <1>1 DEF StoreInv, ChainInv
<1>5. SettledInv'
  <2>1. \A t \in Sent' : rows'[t] = "none" => t \notin mined' /\ ~Minable(t)'
    BY <1>1, <1>2 DEF StoreInv, SettledInv, Minable
  <2>2. \A t \in Txs : rows'[t] # "none" => rows'[t] = rows[t] /\ rows[t] # TxPending
    BY <1>1
  <2>3. \A t \in Paid' : rows[t] # TxPending
    BY <1>1, <1>2, <1>3
  <2>4. \A t \in Paid' : rows'[t] # TxPending => final'[t.group] = t
    BY <1>1, <2>3 DEF StoreInv, SettledInv
  <2>5. QED
    BY <1>1, <2>1, <2>2, <2>4 DEF StoreInv, SettledInv, Settled
<1>6. AttachedInv'
  BY <1>1 DEF StoreInv, AttachedInv, LoadConsistent, TypeOK, DBTypeOK
<1>7. QED
  BY <1>4, <1>5, <1>6 DEF StoreInv

LEMMA OperatorInv ==
    ASSUME TypeOK, StoreInv, RunInv, OperatorStep
    PROVE  StoreInv' /\ RunInv'
<1>1. CASE OperatorStops
  BY <1>1, EndedInv DEF OperatorStops
<1>2. CASE DeletePending
  BY <1>2, DeleteStore, StoppedRunInv DEF DeletePending
<1>3. QED
  BY <1>1, <1>2 DEF OperatorStep

(* PipelineInv is an invariant with the operator in the picture, too.      *)
THEOREM RepairInvCorrect == SpenderFixed => (RepairSpec => []PipelineInv)
<1> SUFFICES ASSUME SpenderFixed PROVE RepairSpec => []PipelineInv
  OBVIOUS
<1> DEFINE Inv == TypeOK /\ StoreInv /\ RunInv
<1>1. Init => Inv
  BY TypeInit, InvInit
<1>2. Inv /\ [RepairNext]_vars => Inv'
  BY TypeNext, InvNext, OperatorType, OperatorInv DEF RepairNext, OperatorStep
<1>3. Inv => PipelineInv
  BY DEF StoreInv, RunInv, PipelineInv
<1>4. QED
  BY <1>1, <1>2, <1>3, PTL DEF RepairSpec

------------------------------------------------------------------------------
(* Deleting hopeless rows never leads to a second payment of a group.      *)
THEOREM RepairPaysAtMostOnce == SpenderFixed => (RepairSpec => []NoDoublePay)
<1> SUFFICES ASSUME SpenderFixed PROVE RepairSpec => []NoDoublePay
  OBVIOUS
<1>1. TypeOK /\ PipelineInv => NoDoublePay
  BY InvGivesSafety
<1>2. QED
  BY <1>1, RepairTypeCorrect, RepairInvCorrect, PTL

(* Nor to a record that is not true.                                       *)
THEOREM RepairTellsTheTruth == SpenderFixed => (RepairSpec => []FinalIsPaid)
<1> SUFFICES ASSUME SpenderFixed PROVE RepairSpec => []FinalIsPaid
  OBVIOUS
<1>1. TypeOK /\ PipelineInv => FinalIsPaid
  BY InvGivesSafety
<1>2. QED
  BY <1>1, RepairTypeCorrect, RepairInvCorrect, PTL

(* Nor to a database the next run cannot load.                             *)
THEOREM RepairedRunsCanLoad == SpenderFixed => (RepairSpec => []AlwaysLoads)
<1> SUFFICES ASSUME SpenderFixed PROVE RepairSpec => []AlwaysLoads
  OBVIOUS
<1>1. TypeOK /\ PipelineInv => AlwaysLoads
  BY InvGivesSafety
<1>2. QED
  BY <1>1, RepairTypeCorrect, RepairInvCorrect, PTL

(* Whatever the operator deletes, a payment stays final or pending.        *)
THEOREM RepairForgetsNone == SpenderFixed => (RepairSpec => []RepairForgetsNoPayment)
<1> SUFFICES ASSUME SpenderFixed PROVE RepairSpec => []RepairForgetsNoPayment
  OBVIOUS
<1>1. TypeOK /\ PipelineInv => RepairForgetsNoPayment
  <2> SUFFICES ASSUME TypeOK, PipelineInv, NEW t \in Paid
               PROVE  final[t.group] = t \/ (final[t.group] = NoTx /\ rows[t] = TxPending)
    BY DEF RepairForgetsNoPayment
  <2>1. t \in Txs
    BY DEF TypeOK, ChainTypeOK, Paid
  <2>2. rows[t] # TxPending => final[t.group] = t
    BY DEF PipelineInv, SettledInv
  <2>3. rows[t] = TxPending => final[t.group] = NoTx
    BY <2>1 DEF PipelineInv, AttachedInv, PendingRows
  <2>4. QED
    BY <2>2, <2>3
<1>2. QED
  BY <1>1, RepairTypeCorrect, RepairInvCorrect, PTL

(* zkSync still checks one transaction per nonce.                          *)
THEOREM RepairedZkSyncChecksOne ==
    SpenderFixed /\ PayerKind = "zksync" => (RepairSpec => []OnePendingPerNonce)
<1> SUFFICES ASSUME SpenderFixed, PayerKind = "zksync"
             PROVE  RepairSpec => []OnePendingPerNonce
  OBVIOUS
<1> DEFINE Inv == FailureInv /\ SingleInv
<1>1. Init => Inv
  BY DEF Init, DBInit, PendingRows, FailureInv, Nothing, SingleInv, OnePendingPerNonce
<1>2. ASSUME TypeOK, PipelineInv, Inv, [RepairNext]_vars PROVE Inv'
  <2>1. CASE [Next]_vars
    BY <1>2, <2>1, FailureNext, SingleNext
  <2>2. CASE OperatorStops
    BY <1>2, <2>2 DEF OperatorStops, MemoryCleared, Nothing, FailureInv, SingleInv,
       OnePendingPerNonce, PendingRows, dbVars
  <2>3. CASE DeletePending
    <3>1. PendingRows' = {}
      BY <2>3 DEF DeletePending, PendingRows
    <3>2. UNCHANGED <<pc, failed, statuses>>
      BY <2>3 DEF DeletePending, runVars
    <3>3. QED
      BY <1>2, <3>1, <3>2 DEF FailureInv, SingleInv, OnePendingPerNonce
  <2>4. QED
    BY <1>2, <2>1, <2>2, <2>3 DEF RepairNext
<1>3. Inv => OnePendingPerNonce
  BY DEF SingleInv
<1>4. QED
  BY <1>1, <1>2, <1>3, RepairTypeCorrect, RepairInvCorrect, PTL DEF RepairSpec

(* And the whole, operator included, still is a payout ledger.             *)
THEOREM RepairImplementsLedger == SpenderFixed => (RepairSpec => ImplementsLedger)
<1> SUFFICES ASSUME SpenderFixed PROVE RepairSpec => ImplementsLedger
  OBVIOUS
<1>1. ASSUME TypeOK, PipelineInv, [RepairNext]_vars
      PROVE  [Ledger!Next]_(Ledger!ledgerVars)
  <2>1. CASE [Next]_vars
    BY <1>1, <2>1, LedgerNext
  <2>2. CASE OperatorStep
    <3>1. /\ Paid' = Paid /\ final' = final
          /\ result' = result \/ result' # "done"
      BY <2>2 DEF OperatorStep, OperatorStops, DeletePending, Paid, chainVars, dbVars
    <3>2. QED
      BY <3>1, QuietStep
  <2>3. QED
    BY <1>1, <2>1, <2>2 DEF RepairNext, OperatorStep
<1>2. QED
  BY <1>1, LedgerInit, RepairTypeCorrect, RepairInvCorrect, PTL
  DEF RepairSpec, ImplementsLedger, Ledger!Spec
==============================================================================
