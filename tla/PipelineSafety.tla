--------------------------- MODULE PipelineSafety ---------------------------
(***************************************************************************)
(* Machine-checked proofs about Pipeline, for every value of its           *)
(* constants: the types; that PipelineInv is an invariant as long as one   *)
(* account pays, with one lemma per action that says what the action does  *)
(* to every conjunct it can disturb; and the safety properties it implies. *)
(***************************************************************************)
EXTENDS PipelineInvariant, TLAPS

USE NonceBound, NoTxIsNotATx, ChainAssumption

------------------------------------------------------------------------------
(* Types *)

(* What a node answers is a transaction state. *)
LEMMA AnswersType ==
    ASSUME NEW t, NEW lags, NEW state \in StatusAnswers(t, lags)
    PROVE  state \in TxStates
BY DEF StatusAnswers, Answers, TrueState, TxStates, TxPending, TxDropped,
       TxFailed, TxConfirmed

LEMMA TypeInit == Init => TypeOK
<1> SUFFICES ASSUME Init PROVE TypeOK OBVIOUS
<1>1. ChainTypeOK
  BY DEF Init, ChainInit, ChainTypeOK
<1>2. DBTypeOK
  BY DEF Init, DBInit, DBTypeOK, RowStates
<1>3. DOMAIN Nothing = {} /\ Nothing \in [{} -> NonceGroups] /\ Nothing \in [{} -> TxStates]
  BY DEF Nothing
<1>4. 0 \in Nonces
  BY DEF Nonces
<1>5. QED
  BY <1>1, <1>2, <1>3, <1>4, PipelineAssumption DEF Init, TypeOK, PCs, Results

(* The steps of the chain and of the calls to it keep its types. *)
LEMMA ChainTypeStep ==
    ASSUME ChainTypeOK,
           ChainNext \/ (\E t \in Txs : Accept(t) \/ Refuse(t)) \/ UNCHANGED chainVars
    PROVE  ChainTypeOK'
<1>1. CASE UNCHANGED chainVars
  BY <1>1 DEF ChainTypeOK, chainVars
<1>2. ASSUME NEW t \in Txs, Mine(t) PROVE ChainTypeOK'
  BY <1>2 DEF ChainTypeOK, Mine, Txs
<1>3. ASSUME NEW t \in Txs, Evict(t) \/ Reappear(t) \/ Accept(t) \/ Refuse(t)
      PROVE  ChainTypeOK'
  BY <1>3 DEF ChainTypeOK, Evict, Reappear, Accept, Refuse
<1>4. QED
  BY <1>1, <1>2, <1>3 DEF ChainNext

(* A transaction built for a target is one of Txs. *)
LEMMA TargetTxType ==
    ASSUME TypeOK, NEW price \in Prices, target \in [group : Groups, nonce : Nonces]
    PROVE  /\ TargetTx(price) \in Txs
           /\ TargetTx(price).group = target.group
           /\ TargetTx(price).nonce = target.nonce
           /\ TargetTx(price).spender = spender
BY DEF TypeOK, TargetTx, Txs

(* The nonce groups loaded from the rows are well formed. *)
LEMMA LoadType ==
    ASSUME DBTypeOK
    PROVE  /\ DOMAIN NonceGroupsFromRows \in SUBSET Nonces
           /\ NonceGroupsFromRows \in [DOMAIN NonceGroupsFromRows -> NonceGroups]
<1> DEFINE ns == {t.nonce : t \in PendingRows}
           entry(n) == LET txs == {t \in PendingRows : t.nonce = n}
                       IN  [group |-> (CHOOSE t \in txs : TRUE).group, txs |-> txs]
<1>1. NonceGroupsFromRows = [n \in ns |-> entry(n)]
  BY DEF NonceGroupsFromRows
<1>2. ns \subseteq Nonces
  BY DEF PendingRows, Txs
<1>3. ASSUME NEW n \in ns PROVE entry(n) \in NonceGroups
  <2> DEFINE txs == {t \in PendingRows : t.nonce = n}
  <2>1. txs # {}
    BY <1>3
  <2>2. (CHOOSE t \in txs : TRUE) \in txs
    BY <2>1
  <2>3. txs \subseteq Txs
    BY DEF PendingRows
  <2>4. (CHOOSE t \in txs : TRUE).group \in Groups
    BY <2>2, <2>3 DEF Txs
  <2>5. QED
    BY <2>3, <2>4 DEF NonceGroups
<1>4. QED
  BY <1>1, <1>2, <1>3

(* A process that stops has its memory in order. *)
LEMMA ClearedType ==
    ASSUME TypeOK, MemoryCleared
    PROVE  /\ DOMAIN nonceGroups' \in SUBSET Nonces
           /\ nonceGroups' \in [DOMAIN nonceGroups' -> NonceGroups]
           /\ cursor' \in Nonces
           /\ DOMAIN statuses' \in SUBSET Txs
           /\ statuses' \in [DOMAIN statuses' -> TxStates]
           /\ failed' \in BOOLEAN
           /\ target' \in [group : Groups, nonce : Nonces] \union {NoTarget}
           /\ inflight' \in Txs \union {NoTx}
           /\ expectedNonce' \in Nat
           /\ spender' \in Spenders
           /\ drain' \in BOOLEAN
<1>1. DOMAIN Nothing = {} /\ Nothing \in [{} -> NonceGroups] /\ Nothing \in [{} -> TxStates]
  BY DEF Nothing
<1>2. 0 \in Nonces
  BY DEF Nonces
<1>3. QED
  BY <1>1, <1>2 DEF MemoryCleared, TypeOK

LEMMA ReturnType ==
    ASSUME TypeOK, NEW why \in Results, Return(why),
           UNCHANGED <<chainVars, dbVars, fresh>>
    PROVE  TypeOK'
<1>1. MemoryCleared
  BY DEF Return
<1>2. ChainTypeOK' /\ DBTypeOK'
  BY DEF TypeOK, ChainTypeOK, DBTypeOK, chainVars, dbVars
<1>3. QED
  BY <1>1, <1>2, ClearedType DEF TypeOK, Return, PCs

(* Where the check loop goes on. *)
LEMMA CheckFromType ==
    ASSUME NEW ns \in SUBSET Nonces, CheckFrom(ns)
    PROVE  /\ pc' \in PCs
           /\ pc' \in {"check", "checked"}
           /\ cursor' \in Nonces
           /\ pc' = "check" => cursor' \in ns
           /\ statuses' = Nothing
           /\ DOMAIN statuses' \in SUBSET Txs
           /\ statuses' \in [DOMAIN statuses' -> TxStates]
<1>1. DOMAIN Nothing = {} /\ Nothing \in [{} -> TxStates]
  BY DEF Nothing
<1>2. 0 \in Nonces
  BY DEF Nonces
<1>3. QED
  BY <1>1, <1>2 DEF CheckFrom, PCs

LEMMA StartType ==
    ASSUME TypeOK, NEW s \in Spenders, NEW d \in Drains, Start(s, d)
    PROVE  TypeOK'
<1>1. ChainTypeOK' /\ DBTypeOK'
  BY DEF TypeOK, Start, ChainTypeOK, DBTypeOK, chainVars, dbVars
<1>2. CASE LoadConsistent
  <2>1. /\ DOMAIN nonceGroups' \in SUBSET Nonces
        /\ nonceGroups' \in [DOMAIN nonceGroups' -> NonceGroups]
    BY <1>2, LoadType DEF Start, TypeOK
  <2>2. CheckFrom(DOMAIN nonceGroups')
    BY <1>2 DEF Start
  <2>3. QED
    BY <1>1, <1>2, <2>1, <2>2, CheckFromType, PipelineAssumption
    DEF Start, TypeOK, Results
<1>3. CASE ~LoadConsistent
  BY <1>1, <1>3, PipelineAssumption DEF Start, TypeOK, Results
<1>4. QED
  BY <1>2, <1>3

LEMMA CheckStepType ==
    ASSUME TypeOK, CheckStep
    PROVE  TypeOK'
<1>1. ASSUME NEW t \in Txs, NEW state \in TxStates, Query(t, state) PROVE TypeOK'
  <2>1. ChainTypeOK' /\ DBTypeOK'
    BY <1>1 DEF TypeOK, Query, ChainTypeOK, DBTypeOK, chainVars, dbVars
  <2>2. DOMAIN statuses' = DOMAIN statuses \union {t}
    BY <1>1 DEF Query
  <2>3. /\ DOMAIN statuses' \in SUBSET Txs
        /\ statuses' \in [DOMAIN statuses' -> TxStates]
    BY <1>1, <2>2 DEF Query, TypeOK
  <2>4. QED
    BY <1>1, <2>1, <2>3 DEF Query, TypeOK
<1>2. CASE CheckError
  BY <1>2, ReturnType DEF CheckError, Results
<1>3. CASE CheckPending \/ CheckDroppedTooYoung
  <2>1. ChainTypeOK' /\ DBTypeOK'
    BY <1>3 DEF CheckPending, CheckDroppedTooYoung, BreakCheckLoop, TypeOK,
                ChainTypeOK, DBTypeOK, chainVars, dbVars
  <2>2. CheckFrom({})
    BY <1>3 DEF CheckPending, CheckDroppedTooYoung, BreakCheckLoop
  <2>3. QED
    BY <1>3, <2>1, <2>2, CheckFromType
    DEF CheckPending, CheckDroppedTooYoung, BreakCheckLoop, TypeOK
<1>4. CASE CheckDropped
  <2>1. ChainTypeOK' /\ DBTypeOK'
    BY <1>4 DEF CheckDropped, TypeOK, ChainTypeOK, DBTypeOK, chainVars, dbVars
  <2>2. DOMAIN Nothing = {} /\ Nothing \in [{} -> TxStates]
    BY DEF Nothing
  <2>3. nonceGroups[cursor].group \in Groups
    BY <1>4 DEF CheckDropped, Checked, TypeOK, NonceGroups
  <2>4. QED
    BY <1>4, <2>1, <2>2, <2>3
    DEF CheckDropped, TypeOK, PCs
<1>5. ASSUME NEW verdict \in {TxFailed, TxConfirmed}, CheckFinal(verdict) PROVE TypeOK'
  <2> DEFINE rest == {n \in DOMAIN nonceGroups : n > cursor}
             group == nonceGroups[cursor].group
             confirmed == {t \in DOMAIN statuses : statuses[t] = TxConfirmed}
  <2>1. ChainTypeOK'
    BY <1>5 DEF CheckFinal, TypeOK, ChainTypeOK, chainVars
  <2>2. rows' \in [Txs -> RowStates]
    BY <1>5 DEF CheckFinal, FinalizeNonceGroup, TypeOK, DBTypeOK, RowStates
  <2>3. confirmed \subseteq Txs
    BY DEF TypeOK
  <2>4. final' \in [Groups -> Txs \union {NoTx}]
    <3>1. CASE confirmed = {}
      BY <1>5, <3>1 DEF CheckFinal, FinalizeNonceGroup, TypeOK, DBTypeOK
    <3>2. CASE confirmed # {}
      <4>1. PICK t \in confirmed : final' = [final EXCEPT ![group] = t]
        BY <1>5, <3>2 DEF CheckFinal, FinalizeNonceGroup
      <4>2. QED
        BY <4>1, <2>3 DEF TypeOK, DBTypeOK
    <3>3. QED
      BY <3>1, <3>2
  <2>5. DBTypeOK'
    BY <2>2, <2>4 DEF DBTypeOK
  <2>6. /\ DOMAIN nonceGroups' = DOMAIN nonceGroups
        /\ nonceGroups' \in [DOMAIN nonceGroups -> NonceGroups]
    BY <1>5 DEF CheckFinal, TypeOK, NonceGroups, Checked
  <2>7. CheckFrom(rest) /\ rest \in SUBSET Nonces
    BY <1>5 DEF CheckFinal, TypeOK
  <2>8. QED
    BY <1>5, <2>1, <2>5, <2>6, <2>7, CheckFromType
    DEF CheckFinal, TypeOK
<1>6. CASE CheckEnds
  <2>1. CASE failed
    BY <1>6, <2>1, ReturnType DEF CheckEnds, Results
  <2>2. CASE ~failed
    <3>1. ChainTypeOK' /\ DBTypeOK'
      BY <1>6 DEF CheckEnds, TypeOK, ChainTypeOK, DBTypeOK, chainVars, dbVars
    <3>2. QED
      BY <1>6, <2>2, <3>1 DEF CheckEnds, TypeOK, runVars, PCs
  <2>3. QED
    BY <2>1, <2>2
<1>7. QED
  BY <1>1, <1>2, <1>3, <1>4, <1>5, <1>6 DEF CheckStep

LEMMA FillStepType ==
    ASSUME TypeOK, FillStep
    PROVE  TypeOK'
<1>1. ASSUME UNCHANGED <<chainVars, dbVars>> PROVE ChainTypeOK' /\ DBTypeOK'
  BY <1>1 DEF TypeOK, ChainTypeOK, DBTypeOK, chainVars, dbVars
<1>2. CASE Step
  <2>1. ChainTypeOK' /\ DBTypeOK'
    BY <1>1, <1>2 DEF Step
  <2>2. /\ DOMAIN nonceGroups' \in SUBSET Nonces
        /\ nonceGroups' \in [DOMAIN nonceGroups' -> NonceGroups]
    BY <1>2 DEF Step, TypeOK
  <2>3. QED
    BY <1>2, <2>1, <2>2 DEF Step, TypeOK, PCs
<1>3. ASSUME NEW g \in Groups, NEW n \in Nat, Fill(g, n), pc = "fill",
             expectedNonce' \in Nat
      PROVE  TypeOK'
  <2>1. ChainTypeOK' /\ DBTypeOK'
    BY <1>1, <1>3 DEF Fill
  <2>2. QED
    BY <1>3, <2>1 DEF Fill, TypeOK, PCs
<1>4. ASSUME NEW g \in Groups, NEW n \in Nonces, FillFromLast(g, n) PROVE TypeOK'
  BY <1>3, <1>4 DEF FillFromLast, Nonces, TypeOK
<1>5. ASSUME NEW g \in Groups, NEW n \in Nonces, FillFromChain(g, n) PROVE TypeOK'
  <2>1. CASE KnownBad(n)
    BY <1>5, <2>1, ReturnType DEF FillFromChain, Results
  <2>2. CASE ~KnownBad(n)
    BY <1>3, <1>5, <2>2 DEF FillFromChain, Nonces
  <2>3. QED
    BY <2>1, <2>2
<1>6. CASE FillEnds
  <2>1. CASE DOMAIN nonceGroups = {}
    <3>1. PICK why \in Results : Return(why)
      BY <1>6, <2>1 DEF FillEnds, Results
    <3>2. QED
      BY <1>6, <3>1, ReturnType DEF FillEnds
  <2>2. CASE DOMAIN nonceGroups # {}
    <3>1. ChainTypeOK' /\ DBTypeOK'
      BY <1>1, <1>6 DEF FillEnds
    <3>2. CheckFrom(DOMAIN nonceGroups)
      BY <1>6, <2>2 DEF FillEnds
    <3>3. QED
      BY <1>6, <2>2, <3>1, <3>2, CheckFromType DEF FillEnds, TypeOK
  <2>3. QED
    BY <2>1, <2>2
<1>7. QED
  BY <1>2, <1>4, <1>5, <1>6 DEF FillStep

LEMMA SendStepType ==
    ASSUME TypeOK, SendStep
    PROVE  TypeOK'
<1>1. ASSUME NEW price \in Prices, Create(price) PROVE TypeOK'
  <2> DEFINE t == TargetTx(price)
  <2>1. t \in Txs
    BY <1>1, TargetTxType DEF Create, TypeOK
  <2>2. ChainTypeOK'
    BY <1>1 DEF Create, TypeOK, ChainTypeOK, chainVars
  <2>3. DBTypeOK'
    BY <1>1, <2>1
    DEF Create, CreateTransaction, TypeOK, DBTypeOK, RowStates, TxStates
  <2>4. QED
    BY <1>1, <2>1, <2>2, <2>3 DEF Create, TypeOK, PCs
<1>2. ASSUME NEW price \in Prices, CreateRefused(price) PROVE TypeOK'
  BY <1>2, ReturnType DEF CreateRefused, Results
<1>3. CASE SendAccepted
  <2>1. ChainTypeOK'
    BY <1>3, ChainTypeStep DEF SendAccepted, TypeOK
  <2>2. DBTypeOK'
    BY <1>3 DEF SendAccepted, TypeOK, DBTypeOK, dbVars
  <2>3. /\ DOMAIN nonceGroups' \in SUBSET Nonces
        /\ nonceGroups' \in [DOMAIN nonceGroups' -> NonceGroups]
    <3>1. target.group \in Groups /\ target.nonce \in Nonces /\ inflight \in Txs
      BY <1>3 DEF SendAccepted, TypeOK
    <3>2. DOMAIN nonceGroups' = DOMAIN nonceGroups \union {target.nonce}
      BY <1>3 DEF SendAccepted
    <3>3. ASSUME NEW n \in DOMAIN nonceGroups' PROVE nonceGroups'[n] \in NonceGroups
      BY <1>3, <3>1, <3>2 DEF SendAccepted, TypeOK, NonceGroups, Resending
    <3>4. nonceGroups' = [n \in DOMAIN nonceGroups' |-> nonceGroups'[n]]
      BY <1>3 DEF SendAccepted
    <3>5. QED
      BY <3>1, <3>2, <3>3, <3>4 DEF TypeOK
  <2>4. pc' \in PCs /\ pc' # "check" /\ 0 \in Nonces
    BY <1>3 DEF SendAccepted, PCs, Nonces
  <2>5. QED
    BY <1>3, <2>1, <2>2, <2>3, <2>4 DEF SendAccepted, TypeOK
<1>4. CASE SendRefused
  <2>1. ChainTypeOK'
    BY <1>4, ChainTypeStep DEF SendRefused, TypeOK
  <2>2. DBTypeOK'
    BY <1>4 DEF SendRefused, TypeOK, DBTypeOK, dbVars
  <2>3. aborts' \in Nat
    BY <1>4 DEF SendRefused, TypeOK
  <2>4. QED
    BY <1>4, <2>1, <2>2, <2>3, ClearedType DEF SendRefused, TypeOK, PCs, Results
<1>5. QED
  BY <1>1, <1>2, <1>3, <1>4 DEF SendStep

LEMMA TypeNext == TypeOK /\ [Next]_vars => TypeOK'
<1> SUFFICES ASSUME TypeOK, [Next]_vars PROVE TypeOK'
  OBVIOUS
<1>1. ASSUME NEW s \in Spenders, NEW d \in Drains, Start(s, d) PROVE TypeOK'
  BY <1>1, StartType
<1>2. CASE CheckStep
  BY <1>2, CheckStepType
<1>3. CASE FillStep
  BY <1>3, FillStepType
<1>4. CASE SendStep
  BY <1>4, SendStepType
<1>5. CASE Abort
  <2>1. ChainTypeOK' /\ DBTypeOK'
    BY <1>5 DEF Abort, TypeOK, ChainTypeOK, DBTypeOK, chainVars, dbVars
  <2>2. QED
    BY <1>5, <2>1, ClearedType DEF Abort, TypeOK, PCs, Results
<1>6. ASSUME NEW t \in Txs, Age(t) PROVE TypeOK'
  <2>1. ChainTypeOK' /\ DBTypeOK'
    BY <1>6 DEF Age, TypeOK, ChainTypeOK, DBTypeOK, chainVars, dbVars
  <2>2. QED
    BY <1>6, <2>1 DEF Age, TypeOK, runVars
<1>7. CASE ChainStep
  <2>1. ChainTypeOK' /\ DBTypeOK'
    BY <1>7, ChainTypeStep DEF ChainStep, TypeOK, DBTypeOK, dbVars
  <2>2. QED
    BY <1>7, <2>1 DEF ChainStep, TypeOK, runVars
<1>8. CASE UNCHANGED vars
  BY <1>8 DEF vars, runVars, chainVars, dbVars, TypeOK, ChainTypeOK, DBTypeOK
<1>9. QED
  BY <1>1, <1>2, <1>3, <1>4, <1>5, <1>6, <1>7, <1>8 DEF Next

(* Every variable keeps its type, whatever the constants: rows hold known  *)
(* states, the nonce groups known transactions, and the check loop is at a *)
(* nonce group that is there.                                              *)
THEOREM TypeCorrect == Spec => []TypeOK
<1>1. Init => TypeOK
  BY TypeInit
<1>2. TypeOK /\ [Next]_vars => TypeOK'
  BY TypeNext
<1>3. QED
  BY <1>1, <1>2, PTL DEF Spec

------------------------------------------------------------------------------
(* The inductive invariant *)

(* The part of the invariant about the chain and the database, and the     *)
(* part about the running process.                                         *)
StoreInv == ChainInv /\ SettledInv /\ AttachedInv
RunInv == MemoryInv /\ PrefixInv /\ CheckInv /\ TargetInv

USE DEF TxPending, TxDropped, TxFailed, TxConfirmed

LEMMA StoreUnchanged ==
    ASSUME StoreInv, UNCHANGED <<chainVars, dbVars>>
    PROVE  StoreInv'
BY DEF StoreInv, ChainInv, SettledInv, AttachedInv, chainVars, dbVars, Sent, Paid,
       Settled, PendingRows, LoadConsistent, Minable

(* A stopped process has nothing to keep in order. *)
LEMMA StoppedRunInv == pc' = "stopped" => RunInv'
BY DEF RunInv, MemoryInv, PrefixInv, CheckInv, TargetInv

LEMMA InvInit == Init => StoreInv /\ RunInv
<1> SUFFICES ASSUME Init PROVE StoreInv /\ RunInv OBVIOUS
<1>1. StoreInv
  BY DEF Init, ChainInit, DBInit, StoreInv, ChainInv, SettledInv, AttachedInv,
         Sent, Paid, Settled, PendingRows, LoadConsistent
<1>2. RunInv
  BY DEF Init, RunInv, MemoryInv, PrefixInv, CheckInv, TargetInv
<1>3. QED
  BY <1>1, <1>2

------------------------------------------------------------------------------
(* The chain *)

(* A transaction that can be mined now is still pending in the database. *)
LEMMA MinedIsPending ==
    ASSUME TypeOK, StoreInv, NEW t \in pool, t.nonce = chainNonce[t.spender]
    PROVE  rows[t] = TxPending /\ t \notin mined
<1>1. t \in Txs /\ t.spender \in Spenders /\ t.nonce \in Nat
  BY DEF TypeOK, ChainTypeOK, Txs, Nonces
<1>2. chainNonce[t.spender] \in Nat
  BY <1>1 DEF TypeOK, ChainTypeOK
<1>3. rows[t] \in RowStates /\ rows[t] # "none"
  BY <1>1, <1>2 DEF TypeOK, DBTypeOK, StoreInv, SettledInv, Sent, Minable
<1>4. ~Settled(t)
  BY <1>1, <1>2 DEF StoreInv, SettledInv
<1>5. t \notin mined
  BY <1>1, <1>2 DEF StoreInv, ChainInv
<1>6. QED
  BY <1>3, <1>4, <1>5 DEF Settled, RowStates, TxStates

LEMMA MineStore ==
    ASSUME TypeOK, StoreInv, NEW t \in Txs, Mine(t), UNCHANGED dbVars
    PROVE  StoreInv' /\ Paid \subseteq Paid' /\ reverted \subseteq reverted'
<1> USE DEF Mine, TypeOK, ChainTypeOK
<1>1. rows[t] = TxPending /\ t \notin mined
  BY MinedIsPending
<1>2. t.spender \in Spenders /\ t.nonce \in Nat
  BY DEF Txs, Nonces
<1>3. \A u \in Txs : u.spender \in Spenders /\ u.nonce \in Nat
  BY DEF Txs, Nonces
<1>4. /\ chainNonce'[t.spender] = chainNonce[t.spender] + 1
      /\ \A s \in Spenders : chainNonce[s] \in Nat /\ chainNonce'[s] \in Nat
      /\ \A s \in Spenders : chainNonce[s] <= chainNonce'[s]
  BY <1>2
<1>5. /\ mined' = mined \union {t}
      /\ reverted \subseteq reverted' /\ reverted' \subseteq reverted \union {t}
  OBVIOUS
<1>6. Paid \subseteq Paid' /\ Paid' \subseteq Paid \union {t}
  BY <1>1, <1>5 DEF Paid
<1>7. ChainInv'
  <2>1. \A u \in mined' : u.nonce < chainNonce'[u.spender]
    BY <1>2, <1>3, <1>4, <1>5 DEF StoreInv, ChainInv
  <2>2. \A u \in mined : ~SameSlot(t, u) /\ ~SameSlot(u, t)
    BY <1>2, <1>3, <1>4 DEF StoreInv, ChainInv, SameSlot
  <2>3. \A u, v \in mined' : SameSlot(u, v) => u = v
    BY <2>2, <1>5 DEF StoreInv, ChainInv
  <2>4. QED
    BY <2>1, <2>3 DEF ChainInv
<1>8. SettledInv'
  <2> USE DEF dbVars, Settled
  <2>1. Sent' \subseteq Sent
    BY <1>5 DEF Sent
  <2>2. \A u \in Sent' : rows'[u] = "none" => u \notin mined' /\ ~Minable(u)'
    <3>1. \A u \in Sent : u \in Txs
      BY DEF Sent
    <3>2. QED
      BY <1>1, <1>3, <1>4, <1>5, <2>1, <3>1 DEF StoreInv, SettledInv, Minable
  <2>3. \A u \in Txs : Settled(u)' => u.nonce < chainNonce'[u.spender]
    BY <1>3, <1>4 DEF StoreInv, SettledInv
  <2>4. \A u \in Txs : rows'[u] = TxFailed => u \in reverted'
    BY <1>5 DEF StoreInv, SettledInv
  <2>5. \A u \in Txs : rows'[u] = TxConfirmed => u \in Paid'
    BY <1>6 DEF StoreInv, SettledInv
  <2>6. \A u \in Txs : rows'[u] = TxDropped => u \notin mined'
    BY <1>1, <1>5 DEF StoreInv, SettledInv
  <2>7. \A u \in Paid' : rows'[u] # TxPending => final'[u.group] = u
    BY <1>1, <1>6 DEF StoreInv, SettledInv
  <2>8. QED
    BY <2>2, <2>3, <2>4, <2>5, <2>6, <2>7 DEF SettledInv
<1>9. AttachedInv'
  BY DEF StoreInv, AttachedInv, PendingRows, LoadConsistent, dbVars
<1>10. QED
  BY <1>6, <1>5, <1>7, <1>8, <1>9 DEF StoreInv

(* Forgetting, finding again and receiving a transaction only moves it     *)
(* about; the database or the network must know it already.                *)
LEMMA PoolStore ==
    ASSUME TypeOK, StoreInv, NEW t \in Txs, rows[t] # "none" \/ t \in Sent,
           UNCHANGED dbVars,
           Evict(t) \/ Reappear(t) \/ Accept(t) \/ Refuse(t)
    PROVE  StoreInv' /\ UNCHANGED <<mined, reverted>>
<1>1. UNCHANGED <<chainNonce, mined, reverted>>
  BY DEF Evict, Reappear, Accept, Refuse
<1>2. Sent' \subseteq Sent \union {t}
  BY DEF Evict, Reappear, Accept, Refuse, Sent
<1>3. ChainInv'
  BY <1>1 DEF StoreInv, ChainInv
<1>4. SettledInv'
  BY <1>1, <1>2 DEF StoreInv, SettledInv, Settled, Paid, dbVars, Minable
<1>5. AttachedInv'
  BY DEF StoreInv, AttachedInv, PendingRows, LoadConsistent, dbVars
<1>6. QED
  BY <1>1, <1>3, <1>4, <1>5 DEF StoreInv

LEMMA ChainStepInv ==
    ASSUME TypeOK, StoreInv, RunInv, ChainStep
    PROVE  StoreInv' /\ RunInv'
<1>1. UNCHANGED <<dbVars, pc, runVars>>
  BY DEF ChainStep
<1>2. PICK t \in Txs : Mine(t) \/ Evict(t) \/ Reappear(t)
  BY DEF ChainStep, ChainNext
<1>3. StoreInv' /\ Paid \subseteq Paid' /\ reverted \subseteq reverted'
  <2>1. CASE Mine(t)
    BY <1>1, <2>1, MineStore
  <2>2. CASE Evict(t) \/ Reappear(t)
    <3>1. t \in Sent
      BY <2>2 DEF Evict, Reappear, Sent
    <3>2. QED
      BY <1>1, <2>2, <3>1, PoolStore DEF Paid
  <2>3. QED
    BY <1>2, <2>1, <2>2
<1>4. CheckInv'
  BY <1>1, <1>3 DEF RunInv, CheckInv, runVars
<1>5. MemoryInv' /\ PrefixInv' /\ TargetInv'
  BY <1>1 DEF RunInv, MemoryInv, PrefixInv, TargetInv, runVars, dbVars, PendingRows,
              Resending
<1>6. QED
  BY <1>3, <1>4, <1>5 DEF RunInv

------------------------------------------------------------------------------
(* Starting *)

(* What is loaded is the pending rows, every nonce group with some of them. *)
LEMMA LoadInv ==
    ASSUME TypeOK, LoadConsistent
    PROVE  LET ng == NonceGroupsFromRows
           IN  /\ \A t \in PendingRows : t.nonce \in DOMAIN ng /\ t \in ng[t.nonce].txs
               /\ \A n \in DOMAIN ng : ng[n].txs # {}
               /\ \A n \in DOMAIN ng : \A t \in ng[n].txs :
                    rows[t] = TxPending /\ t.nonce = n /\ t.group = ng[n].group
<1> DEFINE ns == {t.nonce : t \in PendingRows}
           txs(n) == {t \in PendingRows : t.nonce = n}
           ng == NonceGroupsFromRows
<1>1. DOMAIN ng = ns
  BY DEF NonceGroupsFromRows
<1>2. ASSUME NEW n \in ns
      PROVE  ng[n].txs = txs(n) /\ ng[n].group = (CHOOSE t \in txs(n) : TRUE).group
  BY <1>2 DEF NonceGroupsFromRows
<1>3. ASSUME NEW n \in ns PROVE txs(n) # {}
  BY <1>3
<1>4. ASSUME NEW n \in ns, NEW t \in txs(n) PROVE t.group = ng[n].group
  <2>1. (CHOOSE u \in txs(n) : TRUE) \in txs(n)
    BY <1>3
  <2>2. QED
    BY <2>1, <1>2, <1>4 DEF LoadConsistent
<1>5. QED
  BY <1>1, <1>2, <1>3, <1>4 DEF PendingRows

LEMMA StartInv ==
    ASSUME TypeOK, StoreInv, NEW s \in Spenders, NEW d \in Drains, Start(s, d)
    PROVE  StoreInv' /\ RunInv'
<1>1. StoreInv'
  BY StoreUnchanged DEF Start
<1>2. CASE ~LoadConsistent
  BY <1>1, <1>2, StoppedRunInv DEF Start
<1>3. CASE LoadConsistent
  <2>1. nonceGroups' = NonceGroupsFromRows /\ CheckFrom(DOMAIN nonceGroups')
    BY <1>3 DEF Start
  <2>2. rows' = rows
    BY DEF Start, dbVars
  <2>3. PendingRows' = PendingRows
    BY <2>2 DEF PendingRows
  <2>4. pc' \in {"check", "checked"}
    BY <2>1 DEF CheckFrom
  <2>5. \A n \in DOMAIN nonceGroups' : nonceGroups'[n].txs # {}
    BY <1>3, <2>1, LoadInv
  <2>6. MemoryInv'
    BY <1>3, <2>1, <2>2, <2>3, LoadInv DEF MemoryInv
  <2>7. PrefixInv'
    BY <2>5 DEF PrefixInv
  <2>8. CheckInv'
    <3>1. DOMAIN nonceGroups' \subseteq Nat
      BY <1>3, <2>1, LoadType DEF TypeOK, Nonces
    <3>2. DOMAIN statuses' = {}
      BY <2>1 DEF CheckFrom, Nothing
    <3>3. pc' = "check" => /\ cursor' \in DOMAIN nonceGroups'
                           /\ \A n \in DOMAIN nonceGroups' : cursor' <= n
      BY <2>1 DEF CheckFrom
    <3>4. QED
      BY <2>5, <3>1, <3>2, <3>3 DEF CheckInv
  <2>9. TargetInv'
    BY <2>4 DEF TargetInv
  <2>10. QED
    BY <1>1, <2>6, <2>7, <2>8, <2>9 DEF RunInv
<1>4. QED
  BY <1>2, <1>3

------------------------------------------------------------------------------
(* Checking *)

(* A receipt in a node's answer is a receipt in the chain. *)
LEMMA AnswersTrue ==
    ASSUME NEW t, NEW lags, NEW state \in StatusAnswers(t, lags)
    PROVE  /\ state = TxConfirmed => t \in Paid
           /\ state = TxFailed => t \in reverted
BY DEF StatusAnswers, Answers, TrueState

LEMMA QueryInv ==
    ASSUME TypeOK, StoreInv, RunInv, NEW t \in Txs, NEW state \in TxStates,
           Query(t, state)
    PROVE  StoreInv' /\ RunInv'
<1>1. StoreInv'
  BY StoreUnchanged DEF Query
<1>2. UNCHANGED <<chainVars, dbVars, pc, nonceGroups, cursor, target, inflight>>
      /\ pc = "check"
  BY DEF Query
<1>3. MemoryInv' /\ PrefixInv' /\ TargetInv'
  BY <1>2 DEF RunInv, MemoryInv, PrefixInv, TargetInv, dbVars, PendingRows, Resending
<1>4. CheckInv'
  <2>1. /\ state = TxConfirmed => t \in Paid
        /\ state = TxFailed => t \in reverted
    BY AnswersTrue DEF Query
  <2>2. /\ DOMAIN statuses' = DOMAIN statuses \union {t}
        /\ \A u \in DOMAIN statuses' :
             statuses'[u] = IF u = t THEN state ELSE statuses[u]
        /\ t \in nonceGroups[cursor].txs
    BY DEF Query, Unasked
  <2>3. Paid' = Paid /\ reverted' = reverted
    BY <1>2 DEF chainVars, Paid
  <2>4. QED
    BY <1>2, <2>1, <2>2, <2>3 DEF RunInv, CheckInv
<1>5. QED
  BY <1>1, <1>3, <1>4 DEF RunInv

LEMMA BreakInv ==
    ASSUME TypeOK, StoreInv, RunInv, pc = "check", BreakCheckLoop
    PROVE  StoreInv' /\ RunInv'
<1>1. StoreInv'
  BY StoreUnchanged DEF BreakCheckLoop
<1>2. /\ UNCHANGED <<dbVars, nonceGroups>>
      /\ pc' = "checked"
  BY DEF BreakCheckLoop, CheckFrom
<1>3. MemoryInv' /\ PrefixInv' /\ CheckInv' /\ TargetInv'
  BY <1>2 DEF RunInv, MemoryInv, PrefixInv, CheckInv, TargetInv, dbVars, PendingRows
<1>4. QED
  BY <1>1, <1>3 DEF RunInv

LEMMA CheckDroppedInv ==
    ASSUME TypeOK, StoreInv, RunInv, CheckDropped
    PROVE  StoreInv' /\ RunInv'
<1>1. StoreInv'
  BY StoreUnchanged DEF CheckDropped
<1>2. /\ UNCHANGED <<dbVars, nonceGroups, cursor>>
      /\ pc = "check" /\ pc' = "create"
      /\ target' = [group |-> nonceGroups[cursor].group, nonce |-> cursor]
  BY DEF CheckDropped, Checked
<1>3. /\ cursor \in DOMAIN nonceGroups
      /\ nonceGroups[cursor].txs # {}
  <2>1. cursor \in Nat
    BY DEF TypeOK, Nonces
  <2>2. QED
    BY <1>2, <2>1 DEF RunInv, CheckInv
<1>4. PICK t \in nonceGroups[cursor].txs :
        /\ t \in PendingRows
        /\ t.nonce = cursor
        /\ t.group = nonceGroups[cursor].group
  BY <1>2, <1>3 DEF RunInv, MemoryInv, TypeOK, NonceGroups, PendingRows
<1>5. MemoryInv'
  BY <1>2 DEF RunInv, MemoryInv, dbVars, PendingRows
<1>6. Resending'
  BY <1>2, <1>3 DEF Resending
<1>7. PrefixInv' /\ CheckInv'
  BY <1>2, <1>6 DEF RunInv, PrefixInv, CheckInv
<1>8. TargetInv'
  <2>1. final[t.group] = NoTx
    BY <1>4 DEF StoreInv, AttachedInv
  <2>2. \A u \in PendingRows : u.group = t.group => u.nonce = t.nonce
    BY <1>4 DEF StoreInv, AttachedInv
  <2>3. QED
    BY <1>2, <1>3, <1>4, <2>1, <2>2 DEF TargetInv, dbVars, PendingRows, Resending
<1>9. QED
  BY <1>1, <1>5, <1>7, <1>8 DEF RunInv

(* A group is called failed or confirmed for one of its transactions, and  *)
(* only when every other one is reported dropped.                          *)
LEMMA VerdictWitness ==
    ASSUME NEW checkOnly, NEW verdict \in {TxFailed, TxConfirmed},
           statuses \in [DOMAIN statuses -> TxStates], DOMAIN statuses # {},
           Verdict(statuses, checkOnly) = verdict
    PROVE  \E u \in DOMAIN statuses :
              /\ statuses[u] = verdict
              /\ \A t \in DOMAIN statuses \ {u} : statuses[t] = TxDropped
<1>1. CASE PayerKind = "eth"
  <2> DEFINE other == Other(statuses)
  <2>1. EthVerdict(statuses, checkOnly) = verdict
    BY <1>1 DEF Verdict
  <2>2. other # {} /\ \A t, u \in other : t = u
    <3>1. ASSUME \E t, u \in other : t # u PROVE FALSE
      BY <2>1, <3>1 DEF EthVerdict
    <3>2. ASSUME other = {}, checkOnly PROVE FALSE
      BY <2>1, <3>1, <3>2 DEF EthVerdict
    <3>3. ASSUME other = {}, ~checkOnly PROVE FALSE
      BY <2>1, <3>1, <3>3 DEF EthVerdict
    <3>4. QED
      BY <3>1, <3>2, <3>3
  <2>3. verdict = statuses[CHOOSE t \in other : TRUE]
    BY <2>1, <2>2 DEF EthVerdict
  <2>4. PICK u \in other : u = (CHOOSE t \in other : TRUE)
    BY <2>2
  <2>5. QED
    BY <2>2, <2>3, <2>4 DEF Other
<1>2. CASE PayerKind # "eth"
  <2>1. ZkVerdict(statuses) = verdict
    BY <1>2 DEF Verdict
  <2>2. \A t, u \in DOMAIN statuses : t = u
    BY <2>1 DEF ZkVerdict
  <2>3. verdict = statuses[CHOOSE t \in DOMAIN statuses : TRUE]
    BY <2>1, <2>2 DEF ZkVerdict
  <2>4. PICK u \in DOMAIN statuses : u = (CHOOSE t \in DOMAIN statuses : TRUE)
    OBVIOUS
  <2>5. QED
    BY <2>2, <2>3, <2>4
<1>3. QED
  BY <1>1, <1>2

(* What CheckFinal finds: the group's transactions, all asked about, one   *)
(* of them mined, all of them for its slot.                                *)
LEMMA FinalGroup ==
    ASSUME TypeOK, StoreInv, RunInv, SpenderFixed,
           NEW verdict \in {TxFailed, TxConfirmed}, CheckFinal(verdict)
    PROVE  LET txs == nonceGroups[cursor].txs
               group == nonceGroups[cursor].group
           IN  /\ cursor \in DOMAIN nonceGroups
               /\ DOMAIN statuses = txs
               /\ txs = {t \in PendingRows : t.nonce = cursor}
               /\ txs = {t \in PendingRows : t.group = group}
               /\ final[group] = NoTx
               /\ group \in Groups
               /\ \E u \in txs :
                    /\ statuses[u] = verdict
                    /\ u \in mined
                    /\ \A t \in txs \ {u} : statuses[t] = TxDropped /\ t \notin mined
<1> DEFINE txs == nonceGroups[cursor].txs
           group == nonceGroups[cursor].group
<1>1. pc = "check" /\ Unasked = {} /\ Verdict(statuses, CheckOnly) = verdict
  BY DEF CheckFinal, Checked
<1>2. cursor \in DOMAIN nonceGroups /\ txs # {} /\ DOMAIN statuses \subseteq txs
  <2>1. cursor \in Nat
    BY DEF TypeOK, Nonces
  <2>2. QED
    BY <1>1, <2>1 DEF RunInv, CheckInv
<1>3. DOMAIN statuses = txs
  BY <1>1, <1>2 DEF Unasked
<1>4. group \in Groups /\ txs \subseteq Txs
  BY <1>2 DEF TypeOK, NonceGroups
<1>5. \A t \in txs : rows[t] = TxPending /\ t.nonce = cursor /\ t.group = group
  BY <1>1, <1>2 DEF RunInv, MemoryInv
<1>6. \A t \in PendingRows : t.nonce \in DOMAIN nonceGroups /\ t \in nonceGroups[t.nonce].txs
  BY <1>1 DEF RunInv, MemoryInv
<1>7. txs = {t \in PendingRows : t.nonce = cursor}
  BY <1>4, <1>5, <1>6 DEF PendingRows
<1>8. PICK v \in txs : v \in PendingRows /\ v.nonce = cursor /\ v.group = group
  BY <1>2, <1>5, <1>7
<1>9. \A t \in PendingRows : t.group = group => t.nonce = cursor
  BY <1>8 DEF StoreInv, AttachedInv
<1>10. txs = {t \in PendingRows : t.group = group}
  BY <1>5, <1>7, <1>9
<1>11. final[group] = NoTx
  BY <1>8 DEF StoreInv, AttachedInv
<1>12. PICK u \in txs : /\ statuses[u] = verdict
                        /\ \A t \in txs \ {u} : statuses[t] = TxDropped
  BY <1>1, <1>2, <1>3, VerdictWitness DEF TypeOK
<1>13. u \in mined
  BY <1>1, <1>3, <1>12 DEF RunInv, CheckInv, Paid, TypeOK, ChainTypeOK
<1>14. \A t \in txs : SameSlot(t, u)
  BY <1>4, <1>5 DEF SameSlot, SpenderFixed, Txs
<1>15. \A t \in txs \ {u} : t \notin mined
  BY <1>13, <1>14 DEF StoreInv, ChainInv
<1>16. QED
  BY <1>2, <1>3, <1>4, <1>7, <1>10, <1>11, <1>12, <1>13, <1>15

LEMMA CheckFinalInv ==
    ASSUME TypeOK, StoreInv, RunInv, SpenderFixed,
           NEW verdict \in {TxFailed, TxConfirmed}, CheckFinal(verdict)
    PROVE  StoreInv' /\ RunInv'
<1> DEFINE txs == nonceGroups[cursor].txs
           group == nonceGroups[cursor].group
           rest == {n \in DOMAIN nonceGroups : n > cursor}
<1>1. /\ cursor \in DOMAIN nonceGroups
      /\ DOMAIN statuses = txs
      /\ txs = {t \in PendingRows : t.nonce = cursor}
      /\ txs = {t \in PendingRows : t.group = group}
      /\ final[group] = NoTx
      /\ group \in Groups
  BY FinalGroup
<1>2. PICK u \in txs : /\ statuses[u] = verdict
                       /\ u \in mined
                       /\ \A t \in txs \ {u} : statuses[t] = TxDropped /\ t \notin mined
  BY FinalGroup
<1>3. /\ UNCHANGED chainVars
      /\ FinalizeNonceGroup(group, statuses)
      /\ nonceGroups' = [nonceGroups EXCEPT ![cursor] = [group |-> @.group, txs |-> {}]]
      /\ CheckFrom(rest)
      /\ pc = "check"
  BY DEF CheckFinal, Checked
<1>4. rows' = [t \in Txs |-> IF t \in txs THEN statuses[t] ELSE rows[t]]
  BY <1>1, <1>3 DEF FinalizeNonceGroup
<1>5. /\ verdict = TxConfirmed => final' = [final EXCEPT ![group] = u]
      /\ verdict = TxFailed => final' = final
  <2> DEFINE confirmed == {t \in DOMAIN statuses : statuses[t] = TxConfirmed}
  <2>1. CASE verdict = TxConfirmed
    <3>1. confirmed = {u}
      BY <1>1, <1>2, <2>1
    <3>2. (CHOOSE t \in confirmed : TRUE) = u
      BY <3>1
    <3>3. final' = [final EXCEPT ![group] = CHOOSE t \in confirmed : TRUE]
      BY <1>3, <3>1 DEF FinalizeNonceGroup
    <3>4. QED
      BY <2>1, <3>2, <3>3
  <2>2. CASE verdict = TxFailed
    <3>1. confirmed = {}
      BY <1>1, <1>2, <2>2
    <3>2. QED
      BY <1>3, <2>2, <3>1 DEF FinalizeNonceGroup
  <2>3. QED
    BY <2>1, <2>2
<1>6. /\ \A t \in txs : t \in Txs /\ rows'[t] \in {TxDropped, verdict}
      /\ \A t \in Txs \ txs : rows'[t] = rows[t]
      /\ rows'[u] = verdict
      /\ \A t \in txs \ {u} : rows'[t] = TxDropped
  BY <1>1, <1>2, <1>4 DEF PendingRows
<1>7. UNCHANGED <<chainNonce, mined, reverted, pool, lost, Paid, Sent>>
  BY <1>3 DEF chainVars, Paid, Sent
<1>8. PendingRows' = PendingRows \ txs
  BY <1>1, <1>6 DEF PendingRows
<1>9. /\ verdict = TxConfirmed => u \in Paid
      /\ verdict = TxFailed => u \in reverted
  BY <1>1, <1>2, <1>3 DEF RunInv, CheckInv
<1>10. /\ verdict = TxConfirmed => final'[group] = u
       /\ \A g \in Groups : g # group => final'[g] = final[g]
       /\ verdict = TxFailed => final'[group] = NoTx
  BY <1>1, <1>5 DEF TypeOK, DBTypeOK
<1>11. ChainInv'
  BY <1>7 DEF StoreInv, ChainInv
<1>12. SettledInv'
  <2>1. \A t \in Sent' : rows'[t] = "none" => t \notin mined' /\ ~Minable(t)'
    <3>1. \A t \in Sent : t \in Txs
      BY DEF Sent, TypeOK, ChainTypeOK
    <3>2. QED
      BY <1>6, <1>7, <3>1 DEF StoreInv, SettledInv, Minable
  <2>2. \A t \in txs : t.nonce < chainNonce[t.spender]
    <3>1. u.nonce < chainNonce[u.spender]
      BY <1>2 DEF StoreInv, ChainInv
    <3>2. \A t \in txs : t.nonce = u.nonce /\ t.spender = u.spender
      BY <1>1, <1>2 DEF SpenderFixed, Txs, PendingRows
    <3>3. QED
      BY <3>1, <3>2
  <2>3. \A t \in Txs : Settled(t)' => t.nonce < chainNonce'[t.spender]
    BY <1>6, <1>7, <2>2 DEF StoreInv, SettledInv, Settled
  <2>4. \A t \in Txs : rows'[t] = TxFailed => t \in reverted'
    BY <1>6, <1>7, <1>9, <1>2 DEF StoreInv, SettledInv
  <2>5. \A t \in Txs : rows'[t] = TxConfirmed => t \in Paid'
    BY <1>6, <1>7, <1>9, <1>2 DEF StoreInv, SettledInv
  <2>6. \A t \in Txs : rows'[t] = TxDropped => t \notin mined'
    BY <1>6, <1>7, <1>2 DEF StoreInv, SettledInv
  <2>7. ASSUME NEW t \in Paid', rows'[t] # TxPending PROVE final'[t.group] = t
    <3>1. t \in Paid /\ t \in Txs /\ t.group \in Groups
      BY <1>7 DEF Paid, TypeOK, ChainTypeOK, Txs
    <3>2. CASE t \in txs
      <4>1. t = u
        BY <1>2, <3>1, <3>2 DEF Paid
      <4>2. verdict = TxConfirmed
        BY <1>9, <3>1, <4>1 DEF Paid
      <4>3. t.group = group
        BY <1>1, <3>2
      <4>4. QED
        BY <1>10, <4>1, <4>2, <4>3
    <3>3. CASE t \notin txs
      <4>1. final[t.group] = t
        BY <1>6, <2>7, <3>1, <3>3 DEF StoreInv, SettledInv
      <4>2. t.group # group
        BY <1>1, <3>1, <4>1, NoTxIsNotATx
      <4>3. QED
        BY <1>10, <3>1, <4>1, <4>2
    <3>4. QED
      BY <3>2, <3>3
  <2>8. QED
    BY <2>1, <2>3, <2>4, <2>5, <2>6, <2>7 DEF SettledInv
<1>13. AttachedInv'
  <2>1. \A t, v \in PendingRows' : t.group = v.group => t.nonce = v.nonce
    BY <1>8 DEF StoreInv, AttachedInv
  <2>2. \A t \in PendingRows' : final'[t.group] = NoTx
    <3>1. \A t \in PendingRows' : t.group # group /\ t.group \in Groups
      BY <1>1, <1>8 DEF PendingRows, Txs
    <3>2. QED
      BY <1>8, <1>10, <3>1 DEF StoreInv, AttachedInv
  <2>3. ASSUME NEW g \in Groups, final'[g] # NoTx
        PROVE  final'[g].group = g /\ rows'[final'[g]] = TxConfirmed
    <3>1. CASE g = group
      BY <1>1, <1>2, <1>6, <1>10, <2>3, <3>1
    <3>2. CASE g # group
      <4>1. final'[g] = final[g] /\ final[g] # NoTx /\ final[g] \in Txs
        BY <1>10, <2>3, <3>2 DEF TypeOK, DBTypeOK
      <4>2. rows[final[g]] = TxConfirmed /\ final[g].group = g
        BY <4>1 DEF StoreInv, AttachedInv
      <4>3. final[g] \notin txs
        BY <1>1, <4>2, <3>2
      <4>4. QED
        BY <1>6, <4>1, <4>2, <4>3
    <3>3. QED
      BY <3>1, <3>2
  <2>4. LoadConsistent'
    BY <1>8 DEF StoreInv, AttachedInv, LoadConsistent
  <2>5. QED
    BY <2>1, <2>2, <2>3, <2>4 DEF AttachedInv
<1>14. /\ DOMAIN nonceGroups' = DOMAIN nonceGroups
       /\ nonceGroups'[cursor].txs = {}
       /\ \A n \in DOMAIN nonceGroups : n # cursor => nonceGroups'[n] = nonceGroups[n]
  BY <1>1, <1>3
<1>15. DOMAIN nonceGroups \subseteq Nat /\ cursor \in Nat
  BY DEF TypeOK, Nonces
<1>16. \A n \in DOMAIN nonceGroups : nonceGroups[n].txs = {} <=> n < cursor
  BY <1>3 DEF RunInv, CheckInv
<1>17. \A n \in DOMAIN nonceGroups : nonceGroups'[n].txs = {} <=> n <= cursor
  <2> TAKE n \in DOMAIN nonceGroups
  <2>1. CASE n = cursor
    BY <1>14, <1>15, <2>1
  <2>2. CASE n # cursor
    BY <1>14, <1>15, <1>16, <2>2
  <2>3. QED
    BY <2>1, <2>2
<1>18. MemoryInv'
  <2>1. pc' # "stopped" /\ pc' # "send"
    BY <1>3 DEF CheckFrom
  <2>2. \A t \in PendingRows' : t.nonce \in DOMAIN nonceGroups' /\ t \in nonceGroups'[t.nonce].txs
    <3>1. \A t \in PendingRows : t.nonce \in DOMAIN nonceGroups /\ t \in nonceGroups[t.nonce].txs
      BY <1>3 DEF RunInv, MemoryInv
    <3>2. \A t \in PendingRows' : t \in PendingRows /\ t.nonce # cursor
      BY <1>1, <1>8
    <3>3. QED
      BY <3>1, <3>2, <1>14
  <2>3. \A n \in DOMAIN nonceGroups' : \A t \in nonceGroups'[n].txs :
          rows'[t] = TxPending /\ t.nonce = n /\ t.group = nonceGroups'[n].group
    <3> TAKE n \in DOMAIN nonceGroups'
    <3>1. CASE n = cursor
      BY <1>14, <3>1
    <3>2. CASE n # cursor
      <4>1. nonceGroups'[n] = nonceGroups[n] /\ n \in DOMAIN nonceGroups
        BY <1>14, <3>2
      <4>2. \A t \in nonceGroups[n].txs :
              t \in Txs /\ rows[t] = TxPending /\ t.nonce = n /\ t.group = nonceGroups[n].group
        BY <1>3, <4>1 DEF RunInv, MemoryInv, TypeOK, NonceGroups
      <4>3. \A t \in nonceGroups[n].txs : t \notin txs
        BY <1>1, <3>2, <4>2
      <4>4. QED
        BY <1>6, <4>1, <4>2, <4>3
    <3>3. QED
      BY <3>1, <3>2
  <2>4. QED
    BY <2>1, <2>2, <2>3 DEF MemoryInv
<1>19. PrefixInv'
  <2>1. pc' \in {"check", "checked"}
    BY <1>3 DEF CheckFrom
  <2>2. \A m, n \in DOMAIN nonceGroups' :
          m < n /\ nonceGroups'[m].txs # {} => nonceGroups'[n].txs # {}
    BY <1>14, <1>15, <1>17
  <2>3. QED
    BY <2>1, <2>2 DEF PrefixInv
<1>20. CheckInv'
  <2>1. SUFFICES ASSUME pc' = "check" PROVE CheckInv'
    BY DEF CheckInv
  <2>2. cursor' \in rest /\ \A m \in rest : cursor' <= m
    BY <1>3, <2>1 DEF CheckFrom
  <2>3. \A n \in DOMAIN nonceGroups' : nonceGroups'[n].txs = {} <=> n < cursor'
    BY <1>14, <1>15, <1>17, <2>2
  <2>4. DOMAIN statuses' = {}
    BY <1>3 DEF CheckFrom, Nothing
  <2>5. QED
    BY <1>14, <2>2, <2>3, <2>4 DEF CheckInv
<1>21. TargetInv'
  BY <1>3 DEF TargetInv, CheckFrom
<1>22. QED
  BY <1>11, <1>12, <1>13, <1>18, <1>19, <1>20, <1>21 DEF StoreInv, RunInv

(* Whatever ends the run without a write leaves the store as it was. *)
LEMMA EndedInv ==
    ASSUME StoreInv, UNCHANGED <<chainVars, dbVars>>, pc' = "stopped"
    PROVE  StoreInv' /\ RunInv'
BY StoreUnchanged, StoppedRunInv

(* Past the check loop, and whenever nothing of the run but its position   *)
(* between two phases changes, memory stays in order.                      *)
LEMMA CheckEndsInv ==
    ASSUME TypeOK, StoreInv, RunInv, CheckEnds
    PROVE  StoreInv' /\ RunInv'
<1>1. UNCHANGED <<chainVars, dbVars>>
  BY DEF CheckEnds
<1>2. CASE failed
  BY <1>1, <1>2, EndedInv DEF CheckEnds, Return
<1>3. CASE ~failed
  <2>1. UNCHANGED <<nonceGroups, rows>> /\ pc' = "step" /\ pc = "checked"
    BY <1>1, <1>3 DEF CheckEnds, runVars, dbVars
  <2>2. MemoryInv' /\ PrefixInv' /\ CheckInv' /\ TargetInv'
    BY <2>1 DEF RunInv, MemoryInv, PrefixInv, CheckInv, TargetInv, PendingRows
  <2>3. QED
    BY <1>1, <2>2, StoreUnchanged DEF RunInv
<1>4. QED
  BY <1>2, <1>3

------------------------------------------------------------------------------
(* Filling *)

(* Trimming takes away only finished nonce groups, and all of them. *)
LEMMA StepInv ==
    ASSUME TypeOK, StoreInv, RunInv, Step
    PROVE  StoreInv' /\ RunInv'
<1> DEFINE kept == {n \in DOMAIN nonceGroups : ~Leading(n)}
<1>1. /\ UNCHANGED <<chainVars, dbVars>>
      /\ pc = "step" /\ pc' = "fill"
      /\ nonceGroups' = [n \in kept |-> nonceGroups[n]]
  BY DEF Step
<1>2. DOMAIN nonceGroups \subseteq Nat
  BY DEF TypeOK, Nonces
<1>3. \A n \in kept : nonceGroups[n].txs # {}
  <2> TAKE n \in kept
  <2>1. PICK m \in DOMAIN nonceGroups : m <= n /\ nonceGroups[m].txs # {}
    BY DEF Leading
  <2>2. CASE m = n
    BY <2>1, <2>2
  <2>3. CASE m < n
    BY <1>1, <2>1, <2>3 DEF RunInv, PrefixInv
  <2>4. QED
    BY <1>2, <2>1, <2>2, <2>3
<1>4. \A t \in PendingRows : t.nonce \in kept /\ t \in nonceGroups[t.nonce].txs
  <2> TAKE t \in PendingRows
  <2>1. t.nonce \in DOMAIN nonceGroups /\ t \in nonceGroups[t.nonce].txs
    BY <1>1 DEF RunInv, MemoryInv
  <2>2. ~Leading(t.nonce)
    BY <1>2, <2>1 DEF Leading
  <2>3. QED
    BY <2>1, <2>2
<1>5. /\ DOMAIN nonceGroups' = kept
      /\ \A n \in kept : nonceGroups'[n] = nonceGroups[n]
      /\ rows' = rows
      /\ PendingRows' = PendingRows
  BY <1>1 DEF dbVars, PendingRows
<1>6. MemoryInv'
  <2>1. \A n \in kept : \A t \in nonceGroups[n].txs :
          rows[t] = TxPending /\ t.nonce = n /\ t.group = nonceGroups[n].group
    BY <1>1 DEF RunInv, MemoryInv
  <2>2. QED
    BY <1>4, <1>5, <2>1 DEF MemoryInv
<1>7. PrefixInv'
  BY <1>3, <1>5 DEF PrefixInv
<1>8. CheckInv' /\ TargetInv'
  BY <1>1 DEF CheckInv, TargetInv
<1>9. QED
  BY <1>1, <1>6, <1>7, <1>8, StoreUnchanged DEF RunInv

(* A group is put at the end of the pipeline only when it is unattached,   *)
(* and at a nonce the pipeline does not have.                              *)
LEMMA FillInv ==
    ASSUME TypeOK, StoreInv, RunInv, pc = "fill", NEW g \in Unattached, NEW n,
           n \notin DOMAIN nonceGroups, Fill(g, n)
    PROVE  StoreInv' /\ RunInv'
<1>1. /\ UNCHANGED <<chainVars, dbVars, nonceGroups>>
      /\ pc' = "create"
      /\ target' = [group |-> g, nonce |-> n]
  BY DEF Fill
<1>2. rows' = rows /\ final' = final /\ PendingRows' = PendingRows
  BY <1>1 DEF dbVars, PendingRows
<1>3. ~Resending'
  BY <1>1 DEF Resending
<1>4. MemoryInv'
  BY <1>1, <1>2 DEF RunInv, MemoryInv
<1>5. PrefixInv'
  BY <1>1 DEF RunInv, PrefixInv
<1>6. CheckInv'
  BY <1>1 DEF CheckInv
<1>7. TargetInv'
  BY <1>1, <1>2, <1>3 DEF TargetInv, Unattached
<1>8. QED
  BY <1>1, <1>4, <1>5, <1>6, <1>7, StoreUnchanged DEF RunInv

LEMMA FillEndsInv ==
    ASSUME TypeOK, StoreInv, RunInv, FillEnds
    PROVE  StoreInv' /\ RunInv'
<1>1. UNCHANGED <<chainVars, dbVars>> /\ pc = "fill"
  BY DEF FillEnds
<1>2. CASE DOMAIN nonceGroups = {}
  BY <1>1, <1>2, EndedInv DEF FillEnds, Return
<1>3. CASE DOMAIN nonceGroups # {}
  <2>1. CheckFrom(DOMAIN nonceGroups) /\ nonceGroups' = nonceGroups
    BY <1>3 DEF FillEnds
  <2>2. /\ pc' = "check" /\ cursor' \in DOMAIN nonceGroups
        /\ \A m \in DOMAIN nonceGroups : cursor' <= m
        /\ DOMAIN statuses' = {}
    BY <1>3, <2>1 DEF CheckFrom, Nothing
  <2>3. rows' = rows /\ PendingRows' = PendingRows
    BY <1>1 DEF dbVars, PendingRows
  <2>4. \A n \in DOMAIN nonceGroups : nonceGroups[n].txs # {}
    BY <1>1 DEF RunInv, PrefixInv
  <2>5. DOMAIN nonceGroups \subseteq Nat
    BY DEF TypeOK, Nonces
  <2>6. MemoryInv'
    BY <1>1, <2>1, <2>2, <2>3 DEF RunInv, MemoryInv
  <2>7. PrefixInv' /\ TargetInv'
    BY <2>1, <2>2, <2>4 DEF PrefixInv, TargetInv
  <2>8. CheckInv'
    BY <2>1, <2>2, <2>4, <2>5 DEF CheckInv
  <2>9. QED
    BY <1>1, <2>6, <2>7, <2>8, StoreUnchanged DEF RunInv
<1>4. QED
  BY <1>2, <1>3

LEMMA FillStepInv ==
    ASSUME TypeOK, StoreInv, RunInv, FillStep
    PROVE  StoreInv' /\ RunInv'
<1>1. CASE Step
  BY <1>1, StepInv
<1>2. ASSUME NEW g \in Groups, NEW n \in Nonces, FillFromLast(g, n)
      PROVE  StoreInv' /\ RunInv'
  <2>1. DOMAIN nonceGroups \subseteq Nat /\ n \in Nat
    BY DEF TypeOK, Nonces
  <2>2. n + 1 \notin DOMAIN nonceGroups
    BY <1>2, <2>1 DEF FillFromLast
  <2>3. pc = "fill" /\ g \in Unattached /\ Fill(g, n + 1)
    BY <1>2 DEF FillFromLast
  <2>4. QED
    BY <2>2, <2>3, FillInv
<1>3. ASSUME NEW g \in Groups, NEW n \in Nonces, FillFromChain(g, n)
      PROVE  StoreInv' /\ RunInv'
  <2>1. CASE KnownBad(n)
    BY <1>3, <2>1, EndedInv DEF FillFromChain, Return
  <2>2. CASE ~KnownBad(n)
    BY <1>3, <2>2, FillInv DEF FillFromChain
  <2>3. QED
    BY <2>1, <2>2
<1>4. CASE FillEnds
  BY <1>4, FillEndsInv
<1>5. QED
  BY <1>1, <1>2, <1>3, <1>4 DEF FillStep

------------------------------------------------------------------------------
(* Sending *)

(* Recording a transaction: its hash is new, so nothing in the chain is it; *)
(* its group is unpaid and has pending rows for this nonce only.            *)
LEMMA CreateInv ==
    ASSUME TypeOK, StoreInv, RunInv, NEW price \in Prices, Create(price)
    PROVE  StoreInv' /\ RunInv'
<1> DEFINE t == TargetTx(price)
<1>1. /\ pc = "create" /\ pc' = "send"
      /\ inflight' = t
      /\ UNCHANGED <<chainVars, nonceGroups, target, final>>
      /\ rows[t] = "none" /\ rows' = [rows EXCEPT ![t] = TxPending]
  BY DEF Create, CreateTransaction, HashTaken
<1>2. /\ t \in Txs
      /\ t.group = target.group /\ t.nonce = target.nonce
      /\ t.group \in Groups
  <2>1. target \in [group : Groups, nonce : Nonces]
    BY <1>1 DEF TypeOK
  <2>2. target.group \in Groups
    BY <2>1
  <2>3. QED
    BY <2>1, <2>2, TargetTxType
<1>3. /\ rows'[t] = TxPending
      /\ \A u \in Txs : u # t => rows'[u] = rows[u]
      /\ PendingRows' = PendingRows \union {t}
  BY <1>1, <1>2 DEF TypeOK, DBTypeOK, PendingRows
<1>4. UNCHANGED <<chainNonce, mined, reverted, Sent, Paid>>
  BY <1>1 DEF chainVars, Sent, Paid
<1>5. t \notin mined
  BY <1>1 DEF StoreInv, SettledInv, Sent
<1>6. ChainInv'
  BY <1>4 DEF StoreInv, ChainInv
<1>7. SettledInv'
  <2>1. \A u \in Sent : u \in Txs /\ (u \in mined => u # t)
    BY <1>5 DEF Sent, TypeOK, ChainTypeOK
  <2>2. \A u \in Sent' : rows'[u] = "none" => u \notin mined' /\ ~Minable(u)'
    BY <1>3, <1>4, <2>1 DEF StoreInv, SettledInv, Minable
  <2>3. \A u \in Txs : rows'[u] # TxPending => u # t /\ rows'[u] = rows[u]
    BY <1>3
  <2>4. \A u \in Txs : Settled(u)' => Settled(u)
    BY <2>3 DEF Settled
  <2>5. \A u \in Paid' : rows'[u] # TxPending => final'[u.group] = u
    BY <1>1, <1>3, <1>4, <2>1 DEF StoreInv, SettledInv, Paid, Sent
  <2>6. QED
    BY <1>4, <2>2, <2>3, <2>4, <2>5 DEF StoreInv, SettledInv
<1>8. AttachedInv'
  <2>1. /\ final[t.group] = NoTx
        /\ \A u \in PendingRows : u.group = t.group => u.nonce = t.nonce
    BY <1>1, <1>2 DEF RunInv, TargetInv
  <2>2. \A u, v \in PendingRows' : u.group = v.group => u.nonce = v.nonce
    BY <1>3, <2>1 DEF StoreInv, AttachedInv
  <2>3. \A u \in PendingRows' : final'[u.group] = NoTx
    BY <1>1, <1>3, <2>1 DEF StoreInv, AttachedInv
  <2>4. \A g \in Groups : final'[g] # NoTx =>
          final'[g].group = g /\ rows'[final'[g]] = TxConfirmed
    BY <1>1, <1>3 DEF StoreInv, AttachedInv, TypeOK, DBTypeOK
  <2>5. \A u \in PendingRows : u.nonce = t.nonce => u.group = t.group
    <3> SUFFICES ASSUME NEW u \in PendingRows, u.nonce = t.nonce
                 PROVE  u.group = t.group
      OBVIOUS
    <3>1. /\ u.nonce \in DOMAIN nonceGroups /\ u \in nonceGroups[u.nonce].txs
          /\ u.group = nonceGroups[u.nonce].group
      BY <1>1 DEF RunInv, MemoryInv
    <3>2. nonceGroups[target.nonce].group = target.group
      BY <1>1, <1>2, <3>1 DEF RunInv, TargetInv, Resending
    <3>3. QED
      BY <1>2, <3>1, <3>2
  <2>6. LoadConsistent'
    BY <1>3, <2>5 DEF StoreInv, AttachedInv, LoadConsistent
  <2>7. QED
    BY <2>2, <2>3, <2>4, <2>6 DEF AttachedInv
<1>9. MemoryInv'
  <2>1. \A u \in PendingRows' : \/ /\ u.nonce \in DOMAIN nonceGroups
                                  /\ u \in nonceGroups[u.nonce].txs
                               \/ u = t
    BY <1>1, <1>3 DEF RunInv, MemoryInv
  <2>2. \A n \in DOMAIN nonceGroups : \A u \in nonceGroups[n].txs :
          u \in Txs /\ rows[u] = TxPending /\ u.nonce = n
            /\ u.group = nonceGroups[n].group
    BY <1>1 DEF RunInv, MemoryInv, TypeOK, NonceGroups
  <2>3. QED
    BY <1>1, <1>3, <2>1, <2>2 DEF MemoryInv
<1>10. PrefixInv'
  BY <1>1 DEF RunInv, PrefixInv, Resending
<1>11. CheckInv' /\ TargetInv'
  BY <1>1, <1>2, <1>3 DEF RunInv, CheckInv, TargetInv, Resending
<1>12. QED
  BY <1>6, <1>7, <1>8, <1>9, <1>10, <1>11 DEF StoreInv, RunInv

LEMMA SendAcceptedInv ==
    ASSUME TypeOK, StoreInv, RunInv, SendAccepted
    PROVE  StoreInv' /\ RunInv'
<1>1. /\ pc = "send" /\ pc' = IF Resending THEN "checked" ELSE "fill"
      /\ Accept(inflight) /\ UNCHANGED dbVars
  BY DEF SendAccepted
<1>2. /\ inflight \in PendingRows /\ inflight \in Txs
      /\ rows[inflight] = TxPending
      /\ inflight.group = target.group /\ inflight.nonce = target.nonce
  BY <1>1 DEF RunInv, TargetInv, PendingRows
<1>3. StoreInv'
  BY <1>1, <1>2, PoolStore
<1>4. rows' = rows /\ PendingRows' = PendingRows
  BY <1>1 DEF dbVars, PendingRows
<1>5. /\ DOMAIN nonceGroups' = DOMAIN nonceGroups \union {target.nonce}
      /\ \A n \in DOMAIN nonceGroups : n # target.nonce => nonceGroups'[n] = nonceGroups[n]
      /\ Resending => nonceGroups'[target.nonce] =
           [group |-> nonceGroups[target.nonce].group,
            txs |-> nonceGroups[target.nonce].txs \union {inflight}]
      /\ ~Resending => nonceGroups'[target.nonce] =
           [group |-> target.group, txs |-> {inflight}]
  BY DEF SendAccepted
<1>6. MemoryInv'
  <2>1. \A t \in PendingRows' :
          t.nonce \in DOMAIN nonceGroups' /\ t \in nonceGroups'[t.nonce].txs
    <3> SUFFICES ASSUME NEW t \in PendingRows'
                 PROVE  t.nonce \in DOMAIN nonceGroups' /\ t \in nonceGroups'[t.nonce].txs
      OBVIOUS
    <3>1. CASE t = inflight
      BY <1>2, <1>5, <3>1
    <3>2. CASE t # inflight
      <4>1. t.nonce \in DOMAIN nonceGroups /\ t \in nonceGroups[t.nonce].txs
        BY <1>1, <1>4, <3>2 DEF RunInv, MemoryInv
      <4>2. CASE t.nonce = target.nonce
        BY <1>5, <4>1, <4>2 DEF Resending
      <4>3. CASE t.nonce # target.nonce
        BY <1>5, <4>1, <4>3
      <4>4. QED
        BY <4>2, <4>3
    <3>3. QED
      BY <3>1, <3>2
  <2>2. ASSUME NEW n \in DOMAIN nonceGroups', NEW t \in nonceGroups'[n].txs
        PROVE  rows'[t] = TxPending /\ t.nonce = n /\ t.group = nonceGroups'[n].group
    <3>1. \A m \in DOMAIN nonceGroups : \A u \in nonceGroups[m].txs :
            rows[u] = TxPending /\ u.nonce = m /\ u.group = nonceGroups[m].group
      BY <1>1 DEF RunInv, MemoryInv
    <3>2. CASE n # target.nonce
      BY <1>4, <1>5, <2>2, <3>1, <3>2
    <3>3. CASE n = target.nonce /\ Resending
      <4>1. nonceGroups[n].group = target.group
        BY <1>1, <3>3 DEF RunInv, TargetInv
      <4>2. t \in nonceGroups[n].txs \/ t = inflight
        BY <1>5, <2>2, <3>3
      <4>3. nonceGroups'[n].group = nonceGroups[n].group
        BY <1>5, <3>3
      <4>4. QED
        BY <1>2, <1>4, <3>1, <3>3, <4>1, <4>2, <4>3 DEF Resending
    <3>4. CASE n = target.nonce /\ ~Resending
      BY <1>2, <1>4, <1>5, <2>2, <3>4
    <3>5. QED
      BY <3>2, <3>3, <3>4
  <2>3. QED
    BY <2>1, <2>2 DEF MemoryInv
<1>7. PrefixInv'
  <2>1. nonceGroups'[target.nonce].txs # {}
    BY <1>5
  <2>2. \A n \in DOMAIN nonceGroups' :
          \/ n = target.nonce
          \/ n \in DOMAIN nonceGroups /\ nonceGroups'[n] = nonceGroups[n]
    BY <1>5
  <2>3. CASE Resending
    <3>1. nonceGroups[target.nonce].txs # {} /\ target.nonce \in DOMAIN nonceGroups
      BY <1>1, <2>3 DEF RunInv, TargetInv, Resending
    <3>2. \A m, n \in DOMAIN nonceGroups :
            m < n /\ nonceGroups[m].txs # {} => nonceGroups[n].txs # {}
      BY <1>1 DEF RunInv, PrefixInv
    <3>3. QED
      BY <1>1, <2>1, <2>2, <2>3, <3>1, <3>2 DEF PrefixInv
  <2>4. CASE ~Resending
    <3>1. \A n \in DOMAIN nonceGroups : nonceGroups[n].txs # {}
      BY <1>1, <2>4 DEF RunInv, PrefixInv
    <3>2. QED
      BY <2>1, <2>2, <3>1 DEF PrefixInv
  <2>5. QED
    BY <2>3, <2>4
<1>8. CheckInv' /\ TargetInv'
  BY <1>1 DEF CheckInv, TargetInv
<1>9. QED
  BY <1>3, <1>6, <1>7, <1>8 DEF RunInv

LEMMA SendStepInv ==
    ASSUME TypeOK, StoreInv, RunInv, SendStep
    PROVE  StoreInv' /\ RunInv'
<1>1. ASSUME NEW price \in Prices, CreateRefused(price)
      PROVE  StoreInv' /\ RunInv'
  BY <1>1, EndedInv DEF CreateRefused, Return
<1>2. CASE SendRefused
  <2>1. inflight \in Txs /\ rows[inflight] # "none"
    BY <1>2 DEF SendRefused, RunInv, TargetInv, PendingRows
  <2>2. QED
    BY <1>2, <2>1, PoolStore, StoppedRunInv DEF SendRefused
<1>3. QED
  BY <1>1, <1>2, CreateInv, SendAcceptedInv DEF SendStep

------------------------------------------------------------------------------
(* Every step *)

LEMMA CheckStepInv ==
    ASSUME TypeOK, StoreInv, RunInv, SpenderFixed, CheckStep
    PROVE  StoreInv' /\ RunInv'
<1>1. CASE CheckError
  BY <1>1, EndedInv DEF CheckError, Return
<1>2. CASE CheckPending \/ CheckDroppedTooYoung
  BY <1>2, BreakInv DEF CheckPending, CheckDroppedTooYoung, Checked
<1>3. QED
  BY <1>1, <1>2, QueryInv, CheckDroppedInv, CheckFinalInv, CheckEndsInv DEF CheckStep

LEMMA InvNext ==
    ASSUME TypeOK, StoreInv, RunInv, SpenderFixed, [Next]_vars
    PROVE  StoreInv' /\ RunInv'
<1>1. CASE Abort
  BY <1>1, EndedInv DEF Abort
<1>2. ASSUME NEW t \in Txs, Age(t)
      PROVE  StoreInv' /\ RunInv'
  <2>1. UNCHANGED <<chainVars, dbVars, pc, runVars>>
    BY <1>2 DEF Age
  <2>2. RunInv'
    BY <2>1 DEF RunInv, MemoryInv, PrefixInv, CheckInv, TargetInv, Resending,
                PendingRows, Paid, runVars, chainVars, dbVars
  <2>3. QED
    BY <2>1, <2>2, StoreUnchanged
<1>3. CASE UNCHANGED vars
  <2>1. UNCHANGED <<chainVars, dbVars, pc, runVars>>
    BY <1>3 DEF vars
  <2>2. RunInv'
    BY <2>1 DEF RunInv, MemoryInv, PrefixInv, CheckInv, TargetInv, Resending,
                PendingRows, Paid, runVars, chainVars, dbVars
  <2>3. QED
    BY <2>1, <2>2, StoreUnchanged
<1>4. QED
  BY <1>1, <1>2, <1>3, StartInv, CheckStepInv, FillStepInv, SendStepInv, ChainStepInv
  DEF Next

------------------------------------------------------------------------------
(* Theorems *)

(* PipelineInv is an invariant of every pipeline with one paying account,  *)
(* whatever the number of groups, nonces, prices and runs, whatever the    *)
(* network loses and the nodes lag on, and for either payer.               *)
THEOREM PipelineInvCorrect == SpenderFixed => (Spec => []PipelineInv)
<1> SUFFICES ASSUME SpenderFixed PROVE Spec => []PipelineInv
  OBVIOUS
<1> DEFINE Inv == TypeOK /\ StoreInv /\ RunInv
<1>1. Init => Inv
  BY TypeInit, InvInit
<1>2. Inv /\ [Next]_vars => Inv'
  BY TypeNext, InvNext
<1>3. Inv => PipelineInv
  BY DEF StoreInv, RunInv, PipelineInv
<1>4. QED
  BY <1>1, <1>2, <1>3, PTL DEF Spec

(* What the invariant says about the chain and the database together. *)
LEMMA InvGivesSafety ==
    ASSUME TypeOK, PipelineInv, SpenderFixed
    PROVE  /\ NoDoublePay /\ FinalIsPaid /\ PaymentNotForgotten
           /\ MemoryMatchesDB /\ NeverChecksFinished /\ AlwaysLoads
<1> USE DEF PipelineInv
<1>1. \A t \in Paid : t \in Txs /\ t.group \in Groups /\ t.spender \in Spenders
  BY DEF TypeOK, ChainTypeOK, Paid, Txs
<1>2. \A t \in Paid : rows[t] # TxPending => final[t.group] = t
  BY DEF SettledInv
<1>3. NoDoublePay
  <2> SUFFICES ASSUME NEW t \in Paid, NEW u \in Paid, t.group = u.group PROVE t = u
    BY DEF NoDoublePay
  <2>1. CASE rows[t] = TxPending /\ rows[u] = TxPending
    <3>1. t.nonce = u.nonce
      BY <1>1, <2>1 DEF AttachedInv, PendingRows
    <3>2. SameSlot(t, u)
      BY <1>1, <3>1 DEF SameSlot, SpenderFixed
    <3>3. QED
      BY <3>2 DEF ChainInv, Paid
  <2>2. CASE rows[t] # TxPending /\ rows[u] # TxPending
    BY <1>2, <2>2
  <2>3. CASE rows[t] = TxPending /\ rows[u] # TxPending
    BY <1>1, <1>2, <2>3, NoTxIsNotATx DEF AttachedInv, PendingRows
  <2>4. CASE rows[t] # TxPending /\ rows[u] = TxPending
    BY <1>1, <1>2, <2>4, NoTxIsNotATx DEF AttachedInv, PendingRows
  <2>5. QED
    BY <2>1, <2>2, <2>3, <2>4
<1>5. PaymentNotForgotten
  BY <1>1, <1>2, NoTxIsNotATx DEF PaymentNotForgotten
<1>6. FinalIsPaid
  BY DEF FinalIsPaid, SettledInv, AttachedInv, TypeOK, DBTypeOK
<1>7. MemoryMatchesDB
  BY DEF MemoryMatchesDB, MemoryInv
<1>8. NeverChecksFinished
  <2>1. cursor \in Nat
    BY DEF TypeOK, Nonces
  <2>2. QED
    BY <2>1 DEF NeverChecksFinished, CheckInv
<1>9. AlwaysLoads
  BY DEF AlwaysLoads, AttachedInv
<1>10. QED
  BY <1>3, <1>5, <1>6, <1>7, <1>8, <1>9

(* No payout group is paid twice, whatever is dropped, sent again, lost    *)
(* and found, and wherever a run is cut short.                             *)
THEOREM PaidAtMostOnce == SpenderFixed => (Spec => []NoDoublePay)
<1> SUFFICES ASSUME SpenderFixed PROVE Spec => []NoDoublePay
  OBVIOUS
<1>1. TypeOK /\ PipelineInv => NoDoublePay
  BY InvGivesSafety
<1>2. QED
  BY <1>1, TypeCorrect, PipelineInvCorrect, PTL

(* What the database calls confirmed, failed or dropped is so in the chain, *)
(* and a final transaction paid the group it is recorded for.              *)
THEOREM DatabaseTellsTheTruth == SpenderFixed => (Spec => []FinalIsPaid)
<1> SUFFICES ASSUME SpenderFixed PROVE Spec => []FinalIsPaid
  OBVIOUS
<1>1. TypeOK /\ PipelineInv => FinalIsPaid
  BY InvGivesSafety
<1>2. QED
  BY <1>1, TypeCorrect, PipelineInvCorrect, PTL

(* A payment the database does not call final is still pending there, so   *)
(* the next run finds it.                                                  *)
THEOREM PaymentsAreKept == SpenderFixed => (Spec => []PaymentNotForgotten)
<1> SUFFICES ASSUME SpenderFixed PROVE Spec => []PaymentNotForgotten
  OBVIOUS
<1>1. TypeOK /\ PipelineInv => PaymentNotForgotten
  BY InvGivesSafety
<1>2. QED
  BY <1>1, TypeCorrect, PipelineInvCorrect, PTL

(* Between writes the pipeline in memory is the pending rows.              *)
THEOREM MemoryFollowsDatabase == SpenderFixed => (Spec => []MemoryMatchesDB)
<1> SUFFICES ASSUME SpenderFixed PROVE Spec => []MemoryMatchesDB
  OBVIOUS
<1>1. TypeOK /\ PipelineInv => MemoryMatchesDB
  BY InvGivesSafety
<1>2. QED
  BY <1>1, TypeCorrect, PipelineInvCorrect, PTL

(* checkNonceGroups never looks at a finished group, which the payer would *)
(* call dropped.                                                           *)
THEOREM FinishedIsNotChecked == SpenderFixed => (Spec => []NeverChecksFinished)
<1> SUFFICES ASSUME SpenderFixed PROVE Spec => []NeverChecksFinished
  OBVIOUS
<1>1. TypeOK /\ PipelineInv => NeverChecksFinished
  BY InvGivesSafety
<1>2. QED
  BY <1>1, TypeCorrect, PipelineInvCorrect, PTL

(* Whatever the runs before recorded can be loaded.                        *)
THEOREM RunsCanLoad == SpenderFixed => (Spec => []AlwaysLoads)
<1> SUFFICES ASSUME SpenderFixed PROVE Spec => []AlwaysLoads
  OBVIOUS
<1>1. TypeOK /\ PipelineInv => AlwaysLoads
  BY InvGivesSafety
<1>2. QED
  BY <1>1, TypeCorrect, PipelineInvCorrect, PTL

(* Only two actions write to the database. *)
LEMMA DatabaseWriters ==
    ASSUME [Next]_vars
    PROVE  \/ UNCHANGED dbVars
           \/ \E price \in Prices : Create(price)
           \/ \E verdict \in {TxFailed, TxConfirmed} : CheckFinal(verdict)
BY DEF Next, vars, dbVars, Start, CheckStep, Query, CheckError, CheckPending,
       CheckDroppedTooYoung, BreakCheckLoop, CheckDropped, CheckEnds, FillStep, Step,
       FillFromLast, FillFromChain, Fill, FillEnds, SendStep, CreateRefused,
       SendAccepted, SendRefused, Abort, Age, ChainStep

(* RecordedBeforeSent is kept by every step: only sendTransaction hands a  *)
(* transaction to the network, and its row is there by then.               *)
LEMMA RecordedNext ==
    ASSUME TypeOK, PipelineInv, RecordedBeforeSent, [Next]_vars
    PROVE  RecordedBeforeSent'
<1>1. Sent' \subseteq Sent \/ (pc = "send" /\ Sent' \subseteq Sent \union {inflight})
  <2>1. CASE ChainStep
    BY <2>1 DEF ChainStep, ChainNext, Mine, Evict, Reappear, Sent
  <2>2. CASE SendStep
    <3>1. CASE SendAccepted \/ SendRefused
      BY <3>1 DEF SendAccepted, SendRefused, Accept, Refuse, Sent
    <3>2. QED
      BY <2>2, <3>1 DEF SendStep, Create, CreateRefused, chainVars, Sent
  <2>3. QED
    BY <2>1, <2>2
    DEF Next, vars, chainVars, Sent, Start, CheckStep, Query, CheckError, CheckPending,
        CheckDroppedTooYoung, BreakCheckLoop, CheckDropped, CheckFinal, CheckEnds,
        FillStep, Step, FillFromLast, FillFromChain, Fill, FillEnds, Abort, Age
<1>2. \A t \in Sent : t \in Txs
  BY DEF TypeOK, ChainTypeOK, Sent
<1>3. pc = "send" => inflight \in Txs /\ rows[inflight] = TxPending
  BY DEF PipelineInv, TargetInv, PendingRows
<1>4. \A t \in Txs : rows[t] # "none" => rows'[t] # "none"
  <2>1. CASE UNCHANGED dbVars
    BY <2>1 DEF dbVars
  <2>2. ASSUME NEW price \in Prices, Create(price)
        PROVE  \A t \in Txs : rows[t] # "none" => rows'[t] # "none"
    BY <2>2 DEF Create, CreateTransaction, TypeOK, DBTypeOK
  <2>3. ASSUME NEW verdict \in {TxFailed, TxConfirmed}, CheckFinal(verdict)
        PROVE  \A t \in Txs : rows[t] # "none" => rows'[t] # "none"
    BY <2>3 DEF CheckFinal, FinalizeNonceGroup, TypeOK, TxStates
  <2>4. QED
    BY <2>1, <2>2, <2>3, DatabaseWriters
<1>5. QED
  BY <1>1, <1>2, <1>3, <1>4 DEF RecordedBeforeSent

(* Every transaction a node was ever given is in the database.             *)
THEOREM RecordBeforeSend == SpenderFixed => (Spec => []RecordedBeforeSent)
<1> SUFFICES ASSUME SpenderFixed PROVE Spec => []RecordedBeforeSent
  OBVIOUS
<1>1. Init => RecordedBeforeSent
  BY DEF Init, ChainInit, RecordedBeforeSent, Sent
<1>2. QED
  BY <1>1, RecordedNext, TypeCorrect, PipelineInvCorrect, PTL DEF Spec
==============================================================================
