-------------------------- MODULE PayoutTablesProofs --------------------------
(***************************************************************************)
(* For any payout groups, transactions, commands and failures: what is     *)
(* committed changes by the steps of PayoutStore only, a call's answer     *)
(* says what it did, what is read over several queries fits together, and  *)
(* the loop that loads the nonce groups makes those of PayoutDB.           *)
(***************************************************************************)
EXTENDS PayoutTables, Induction

LEMMA InitTablesInv == TablesInit => TablesInv
<1> SUFFICES ASSUME TablesInit PROVE TablesInv
  OBVIOUS
<1>1. NoRows \in Tables
  BY DEF NoRows, Tables, RowState
<1>2. TablesTypeOK
  BY <1>1, TablesAssumption DEF TablesInit, TablesTypeOK
<1>3. GroupsAreWhole
  BY DEF TablesInit, GroupsAreWhole, NoRows
<1>4. LockInv /\ \A c \in Commands : CallInv(c)
  BY TablesAssumption DEF TablesInit, CallInv, LockInv
<1>5. QED
  BY <1>2, <1>3, <1>4 DEF TablesInv

(* A step of one command leaves the invariant of the others alone: it may  *)
(* write only while they have the file closed.                             *)
LEMMA OthersKeepInv ==
    ASSUME TablesInv, NEW c \in Commands,
           NEW where, place' = [place EXCEPT ![c] = where],
           \/ lock' = Nobody /\ place[c] # "closed"
           \/ lock' = lock /\ where # "closed" /\ (place[c] # "closed" \/ lock = Nobody)
           \/ /\ lock' = c /\ where # "closed"
              /\ \A d \in Commands \ {c} : place[d] = "closed",
           disk' = disk \/ \A d \in Commands \ {c} : place[d] = "closed",
           \A d \in Commands \ {c} :
              call'[d] = call[d] /\ work'[d] = work[d] /\ left'[d] = left[d] /\ before'[d] = before[d]
    PROVE  LockInv' /\ \A d \in Commands : d # c => CallInv(d)'
<1>1. /\ place'[c] = where /\ \A d \in Commands \ {c} : place'[d] = place[d]
      /\ Nobody \notin Commands
  BY TablesAssumption DEF TablesInv, TablesTypeOK
<1>2. LockInv'
  BY <1>1 DEF TablesInv, LockInv
<1>3. ASSUME NEW d \in Commands, d # c PROVE CallInv(d)'
  <2>1. CASE place[d] = "closed"
    BY <1>1, <1>3, <2>1 DEF CallInv
  <2>2. CASE place[d] # "closed"
    <3>1. disk' = disk /\ place'[d] = place[d] /\ call'[d] = call[d] /\ work'[d] = work[d]
          /\ left'[d] = left[d] /\ before'[d] = before[d]
      BY <1>1, <1>3, <2>2
    <3>2. lock # d
      BY <1>1, <1>3, <2>2 DEF TablesInv, LockInv
    <3>3. place[d] \in {"payouts", "read back", "attach", "commit"} => lock = d
      BY DEF TablesInv, CallInv
    <3>4. (InGroup(d)' <=> InGroup(d)) /\ (InTransaction(d)' <=> InTransaction(d))
      BY <3>1 DEF InGroup, InTransaction
    <3>5. (InFinalize(d)' <=> InFinalize(d)) /\ (Done(d)' <=> Done(d))
      BY <3>1 DEF InFinalize, Done
    <3>6. QED
      BY <3>1, <3>2, <3>3, <3>4, <3>5 DEF TablesInv, CallInv
  <2>3. QED
    BY <2>1, <2>2
<1>4. QED
  BY <1>2, <1>3

(* The call of c ends, with the tables as they are. *)
LEMMA AnswerKeepsInv ==
    ASSUME TablesInv, NEW c \in Commands, place[c] # "closed",
           NEW what \in {"ok", "error"}, Answer(c, what), disk' = disk \/ lock = c,
           DOMAIN seen' = Commands, disk' \in Tables, GroupsAreWhole'
    PROVE  TablesInv'
<1>1. TablesTypeOK'
  <2>1. NoRows \in Tables
    BY DEF NoRows, Tables, RowState
  <2>2. QED
    BY <2>1 DEF Answer, TablesInv, TablesTypeOK
<1>2. LockInv' /\ \A d \in Commands : d # c => CallInv(d)'
  <2>1. lock = c => \A d \in Commands \ {c} : place[d] = "closed"
    BY DEF TablesInv, LockInv
  <2>2. \A d \in Commands \ {c} :
           call'[d] = call[d] /\ work'[d] = work[d] /\ left'[d] = left[d] /\ before'[d] = before[d]
    BY DEF Answer, TablesInv, TablesTypeOK
  <2>3. place' = [place EXCEPT ![c] = "ready"] /\ lock' = lock
    BY DEF Answer
  <2>4. QED
    BY <2>1, <2>2, <2>3, OthersKeepInv
<1>3. CallInv(c)'
  BY DEF Answer, TablesInv, TablesTypeOK, CallInv
<1>4. QED
  BY <1>1, <1>2, <1>3 DEF TablesInv

------------------------------------------------------------------------------
(* Opening, closing, dying *)

LEMMA SessionKeepsInv ==
    ASSUME TablesInv, NEW c \in Commands, OpenDB(c) \/ CloseDB(c) \/ Killed(c)
    PROVE  TablesInv'
<1>0. NoRows \in Tables
  BY DEF NoRows, Tables, RowState
<1>1. TablesTypeOK'
  <2>1. CASE OpenDB(c)
    BY <2>1 DEF OpenDB, TablesInv, TablesTypeOK
  <2>2. CASE CloseDB(c)
    BY <2>2 DEF CloseDB, TablesInv, TablesTypeOK
  <2>3. CASE Killed(c)
    BY <1>0, <2>3 DEF Killed, TablesInv, TablesTypeOK
  <2>4. QED
    BY <2>1, <2>2, <2>3
<1>5. GroupsAreWhole'
  BY DEF OpenDB, CloseDB, Killed, TablesInv, GroupsAreWhole
<1>2. LockInv' /\ \A d \in Commands : d # c => CallInv(d)'
  <2>1. /\ disk' = disk
        /\ \A d \in Commands \ {c} :
             call'[d] = call[d] /\ work'[d] = work[d] /\ left'[d] = left[d] /\ before'[d] = before[d]
    BY DEF OpenDB, CloseDB, Killed, TablesInv, TablesTypeOK
  <2>2. \/ /\ place' = [place EXCEPT ![c] = "ready"]
           /\ lock' = lock /\ lock = Nobody
        \/ /\ place' = [place EXCEPT ![c] = "closed"]
           /\ lock' = Nobody /\ place[c] # "closed"
    BY DEF OpenDB, CloseDB, Killed
  <2>3. QED
    BY <2>1, <2>2, OthersKeepInv
<1>3. CallInv(c)'
  BY DEF OpenDB, CloseDB, Killed, TablesInv, TablesTypeOK, CallInv
<1>4. QED
  BY <1>1, <1>2, <1>3, <1>5 DEF TablesInv

------------------------------------------------------------------------------
(* A call begins on the tables as they are. *)
LEMMA BeginKeepsType ==
    ASSUME TablesInv, NEW c \in Commands, NEW what, NEW statements,
           NEW where \in {"group", "insert", "statuses", "reading"},
           Begin(c, what, where, statements)
    PROVE  /\ CallInv(c)' => TablesInv'
           /\ place'[c] = where /\ call'[c] = what
           /\ work'[c] = disk /\ before'[c] = disk /\ left'[c] = statements
           /\ disk' = disk
<1>1. TablesTypeOK' /\ GroupsAreWhole'
  <2>1. GroupsAreWhole'
    BY DEF Begin, TablesInv, GroupsAreWhole
  <2>2. work' \in [Commands -> Tables] /\ before' \in [Commands -> Tables]
    BY DEF Begin, TablesInv, TablesTypeOK
  <2>3. DOMAIN call' = Commands /\ DOMAIN left' = Commands /\ DOMAIN seen' = Commands
    BY DEF Begin, TablesInv, TablesTypeOK
  <2>4. calls' \in Nat
    <3>1. calls \in Nat /\ calls' = calls + 1
      BY DEF Begin, TablesInv, TablesTypeOK
    <3>2. QED
      BY <3>1
  <2>5. place' \in [Commands -> {"closed", "ready", "group", "payouts", "insert", "read back",
                               "statuses", "attach", "commit", "reading"}]
    BY DEF Begin, TablesInv, TablesTypeOK
  <2>6. QED
    BY <2>1, <2>2, <2>3, <2>4, <2>5 DEF Begin, TablesInv, TablesTypeOK
<1>2. LockInv' /\ \A d \in Commands : d # c => CallInv(d)'
  <2>1. /\ disk' = disk /\ lock' = lock /\ place[c] # "closed"
        /\ place' = [place EXCEPT ![c] = where]
        /\ \A d \in Commands \ {c} :
             call'[d] = call[d] /\ work'[d] = work[d] /\ left'[d] = left[d] /\ before'[d] = before[d]
    BY DEF Begin, TablesInv, TablesTypeOK
  <2>2. QED
    BY <2>1, OthersKeepInv
<1>3. CallInv(c)' => TablesInv'
  BY <1>1, <1>2 DEF TablesInv
<1>4. QED
  BY <1>3 DEF Begin, TablesInv, TablesTypeOK

LEMMA CallsKeepInv ==
    ASSUME TablesInv, NEW c \in Commands, Calls(c)
    PROVE  TablesInv'
<1>1. ASSUME NEW g \in Groups, BeginCreatePayoutGroup(c, g)
      PROVE  TablesInv'
  <2>1. /\ CallInv(c)' => TablesInv'
        /\ place'[c] = "group" /\ call'[c] = [op |-> "group", group |-> g]
        /\ work'[c] = disk /\ before'[c] = disk /\ left'[c] = Lines /\ disk' = disk
    BY <1>1, BeginKeepsType DEF BeginCreatePayoutGroup
  <2>2. CallInv(c)'
    BY <2>1 DEF CallInv, InGroup
  <2>3. QED
    BY <2>1, <2>2
<1>2. ASSUME NEW t \in Txs, BeginCreateTransaction(c, t)
      PROVE  TablesInv'
  <2>1. /\ CallInv(c)' => TablesInv'
        /\ place'[c] = "insert" /\ call'[c] = [op |-> "transaction", tx |-> t]
        /\ before'[c] = disk /\ disk' = disk
    BY <1>2, BeginKeepsType DEF BeginCreateTransaction
  <2>2. CallInv(c)'
    BY <1>2, <2>1 DEF BeginCreateTransaction, CallInv, InTransaction
  <2>3. QED
    BY <2>1, <2>2
<1>3. ASSUME NEW t \in Txs, NEW state \in {TxConfirmed, TxFailed},
             BeginFinalizeNonceGroup(c, t, state)
      PROVE  TablesInv'
  <2> DEFINE S == Statuses(disk, t, state)
  <2>1. /\ CallInv(c)' => TablesInv'
        /\ place'[c] = "statuses"
        /\ call'[c] = [op |-> "finalize", group |-> t.group, statuses |-> S]
        /\ work'[c] = disk /\ before'[c] = disk /\ left'[c] = DOMAIN S /\ disk' = disk
    BY <1>3, BeginKeepsType DEF BeginFinalizeNonceGroup
  <2>2. disk.tx[t] = TxPending
    BY <1>3 DEF BeginFinalizeNonceGroup
  <2>3. disk.tx = [u \in Txs |-> disk.tx[u]]
    BY DEF TablesInv, TablesTypeOK, Tables
  <2>4. Confirmed(S) \ DOMAIN S = {} /\ (DOMAIN S) \ (DOMAIN S) = {}
    BY DEF Confirmed
  <2>5. InFinalize(c)'
    BY <2>1, <2>2, <2>3, <2>4 DEF InFinalize
  <2>6. CallInv(c)'
    BY <2>1, <2>5 DEF CallInv
  <2>7. QED
    BY <2>1, <2>6
<1>4. ASSUME NEW op \in ReadCalls, BeginReading(c, op)
      PROVE  TablesInv'
  <2>1. /\ CallInv(c)' => TablesInv'
        /\ place'[c] = "reading" /\ call'[c] = [op |-> op]
        /\ before'[c] = disk /\ disk' = disk
    BY <1>4, BeginKeepsType DEF BeginReading
  <2>2. CallInv(c)'
    BY <2>1 DEF CallInv
  <2>3. QED
    BY <2>1, <2>2
<1>5. QED
  BY <1>1, <1>2, <1>3, <1>4 DEF Calls

------------------------------------------------------------------------------
(* A statement of a SQL transaction changes the transaction's copy only.   *)
LEMMA StatementKeepsType ==
    ASSUME TablesInv, NEW c \in Commands, place[c] \notin {"closed", "ready"},
           NEW where \in {"payouts", "statuses", "attach", "commit"}, GoOn(c, where),
           lock' = c, \A d \in Commands \ {c} : place[d] = "closed",
           NEW db \in Tables, work' = [work EXCEPT ![c] = db],
           DOMAIN left' = Commands
    PROVE  /\ CallInv(c)' => TablesInv'
           /\ place'[c] = where /\ lock' = c /\ call'[c] = call[c]
           /\ work'[c] = db /\ before'[c] = before[c] /\ disk' = disk
<1>1. TablesTypeOK'
  BY DEF GoOn, TablesInv, TablesTypeOK
<1>2. GroupsAreWhole'
  BY DEF GoOn, TablesInv, GroupsAreWhole
<1>3. lock' = c /\ \A d \in Commands \ {c} : place[d] = "closed"
  OBVIOUS
<1>4. LockInv' /\ \A d \in Commands : d # c => CallInv(d)'
  <2>1. /\ disk' = disk /\ place' = [place EXCEPT ![c] = where]
        /\ \A d \in Commands \ {c} : place'[d] = "closed"
    BY <1>3 DEF GoOn, TablesInv, TablesTypeOK
  <2>2. LockInv'
    BY <1>3, <2>1 DEF LockInv, TablesInv, TablesTypeOK
  <2>3. \A d \in Commands : d # c => CallInv(d)'
    BY <2>1 DEF CallInv
  <2>4. QED
    BY <2>2, <2>3
<1>5. CallInv(c)' => TablesInv'
  BY <1>1, <1>2, <1>4 DEF TablesInv
<1>6. QED
  BY <1>3, <1>5 DEF GoOn, TablesInv, TablesTypeOK

LEMMA GroupStatementsKeepInv ==
    ASSUME TablesInv, NEW c \in Commands,
           CreateNoReturn_PayoutGroup(c) \/ CreateNoReturn_Payout(c)
    PROVE  TablesInv'
<1>1. /\ work[c] \in Tables /\ disk \in Tables
      /\ DOMAIN work = Commands /\ DOMAIN left = Commands
  BY DEF TablesInv, TablesTypeOK
<1>2. InGroup(c) /\ before[c] = disk
  BY DEF CreateNoReturn_PayoutGroup, CreateNoReturn_Payout, TablesInv, CallInv
<1>3. CASE CreateNoReturn_PayoutGroup(c)
  <2> DEFINE db == [work[c] EXCEPT !.group = @ \union {call[c].group}]
             where == IF left[c] = {} THEN "commit" ELSE "payouts"
  <2>1. /\ place[c] = "group" /\ GoOn(c, where) /\ left' = left
        /\ lock' = c /\ \A d \in Commands \ {c} : place[d] = "closed"
        /\ work' = [work EXCEPT ![c] = db]
        /\ call[c].group \notin work[c].group
    BY <1>1, <1>3 DEF CreateNoReturn_PayoutGroup, WritesAlone
  <2>2. /\ db \in Tables /\ db.payout = work[c].payout /\ db.tx = work[c].tx
        /\ db.final = work[c].final /\ db.group = work[c].group \union {call[c].group}
    BY <1>1, <1>2 DEF Tables, InGroup
  <2>3. /\ CallInv(c)' => TablesInv'
        /\ place'[c] = where /\ lock' = c /\ call'[c] = call[c]
        /\ work'[c] = db /\ before'[c] = before[c] /\ disk' = disk
    <3> HIDE DEF db
    <3>1. QED
      BY <1>1, <2>1, <2>2, StatementKeepsType
  <2>4. InGroup(c)'
    <3>1. {call[c].group} \X (Lines \ left[c]) = {}
      BY <1>2, <2>1 DEF InGroup
    <3> HIDE DEF db
    <3>2. QED
      BY <1>2, <2>1, <2>2, <2>3, <3>1 DEF InGroup
  <2>5. CallInv(c)'
    <3> HIDE DEF db
    <3>1. QED
      BY <1>2, <2>1, <2>3, <2>4 DEF CallInv
  <2>6. QED
    BY <2>3, <2>5
<1>4. CASE CreateNoReturn_Payout(c)
  <2>1. PICK line \in left[c] :
          /\ work' = [work EXCEPT ![c].payout = @ \union {<<call[c].group, line>>}]
          /\ left' = [left EXCEPT ![c] = @ \ {line}]
          /\ GoOn(c, IF left[c] = {line} THEN "commit" ELSE "payouts")
    BY <1>4 DEF CreateNoReturn_Payout
  <2> DEFINE db == [work[c] EXCEPT !.payout = @ \union {<<call[c].group, line>>}]
             where == IF left[c] = {line} THEN "commit" ELSE "payouts"
  <2>2. /\ place[c] = "payouts" /\ line \in Lines
        /\ lock' = c /\ \A d \in Commands \ {c} : place[d] = "closed"
        /\ work' = [work EXCEPT ![c] = db]
        /\ left'[c] = left[c] \ {line} /\ DOMAIN left' = Commands
    BY <1>1, <1>2, <1>4, <2>1 DEF CreateNoReturn_Payout, InGroup, TablesInv, CallInv, LockInv
  <2>3. /\ db \in Tables /\ db.payout = work[c].payout \union {<<call[c].group, line>>}
        /\ db.tx = work[c].tx /\ db.final = work[c].final /\ db.group = work[c].group
    BY <1>1, <1>2, <2>2 DEF Tables, InGroup
  <2>4. /\ CallInv(c)' => TablesInv'
        /\ place'[c] = where /\ lock' = c /\ call'[c] = call[c]
        /\ work'[c] = db /\ before'[c] = before[c] /\ disk' = disk
    <3>1. /\ GoOn(c, where) /\ where \in {"payouts", "statuses", "attach", "commit"}
          /\ place[c] \notin {"closed", "ready"}
      BY <2>1, <2>2
    <3> HIDE DEF db, where
    <3>2. QED
      BY <2>2, <2>3, <3>1, StatementKeepsType
  <2>5. InGroup(c)'
    <3>1. {call[c].group} \X (Lines \ (left[c] \ {line}))
            = ({call[c].group} \X (Lines \ left[c])) \union {<<call[c].group, line>>}
      BY <2>2
    <3> HIDE DEF db
    <3>2. QED
      BY <1>2, <2>2, <2>3, <2>4, <3>1 DEF InGroup
  <2>6. CallInv(c)'
    <3> HIDE DEF db
    <3>1. QED
      BY <1>2, <2>2, <2>4, <2>5 DEF CallInv
  <2>7. QED
    BY <2>4, <2>6
<1>5. QED
  BY <1>3, <1>4

------------------------------------------------------------------------------
(* What a check can have found: at most one transaction is confirmed.      *)
LEMMA StatusesFacts ==
    ASSUME NEW t \in Txs, NEW state \in {TxConfirmed, TxFailed}, disk.tx[t] = TxPending,
           NEW S, S = Statuses(disk, t, state)
    PROVE  /\ DOMAIN S \subseteq Txs
           /\ \A u \in DOMAIN S : S[u] \in TxStates
           /\ Confirmed(S) \subseteq {t} /\ Confirmed(S) \subseteq DOMAIN S
           /\ \A u \in DOMAIN S : S[u] = TxConfirmed <=> u \in Confirmed(S)
BY DEF Statuses, Confirmed, TxStates, TxConfirmed, TxFailed, TxDropped, TxPending

LEMMA FinalizeStatementsKeepInv ==
    ASSUME TablesInv, NEW c \in Commands,
           UpdateNoReturn_Transaction_By_Hash(c) \/ UpdateNoReturn_PayoutGroup_By_Id(c)
    PROVE  TablesInv'
<1>1. /\ work[c] \in Tables /\ disk \in Tables
      /\ DOMAIN work = Commands /\ DOMAIN left = Commands
  BY DEF TablesInv, TablesTypeOK
<1>2. InFinalize(c) /\ before[c] = disk
  BY DEF UpdateNoReturn_Transaction_By_Hash, UpdateNoReturn_PayoutGroup_By_Id,
         TablesInv, CallInv
<1> DEFINE S == call[c].statuses
           g == call[c].group
<1>3. PICK t0 \in Txs, state \in {TxConfirmed, TxFailed} :
        disk.tx[t0] = TxPending /\ g = t0.group /\ S = Statuses(disk, t0, state)
  BY <1>2 DEF InFinalize
<1>4. /\ DOMAIN S \subseteq Txs
      /\ \A u \in DOMAIN S : S[u] \in TxStates
      /\ Confirmed(S) \subseteq {t0} /\ Confirmed(S) \subseteq DOMAIN S
      /\ \A u \in DOMAIN S : S[u] = TxConfirmed <=> u \in Confirmed(S)
  BY <1>3, StatusesFacts
<1>5. g \in Groups
  BY <1>3 DEF Txs
<1>6. CASE UpdateNoReturn_Transaction_By_Hash(c)
  <2>1. PICK t \in left[c] :
          /\ work' = [work EXCEPT ![c].tx[t] = S[t]]
          /\ left' = [left EXCEPT ![c] = @ \ {t}]
          /\ GoOn(c, CASE S[t] = TxConfirmed -> "attach"
                       [] S[t] # TxConfirmed /\ left[c] = {t} -> "commit"
                       [] OTHER -> "statuses")
    BY <1>6 DEF UpdateNoReturn_Transaction_By_Hash
  <2> DEFINE where == CASE S[t] = TxConfirmed -> "attach"
                        [] S[t] # TxConfirmed /\ left[c] = {t} -> "commit"
                        [] OTHER -> "statuses"
             db == [work[c] EXCEPT !.tx[t] = S[t]]
  <2>2. /\ place[c] = "statuses" /\ t \in DOMAIN S
        /\ lock' = c /\ \A d \in Commands \ {c} : place[d] = "closed"
        /\ work' = [work EXCEPT ![c] = db]
        /\ left'[c] = left[c] \ {t} /\ DOMAIN left' = Commands
    BY <1>1, <1>2, <1>6, <2>1 DEF UpdateNoReturn_Transaction_By_Hash, WritesAlone, InFinalize
  <2>3. /\ db \in Tables /\ db.payout = work[c].payout /\ db.group = work[c].group
        /\ db.tx = [work[c].tx EXCEPT ![t] = S[t]] /\ db.final = work[c].final
    BY <1>1, <1>4, <2>2 DEF Tables, RowState
  <2>4. /\ where = "attach" <=> t \in Confirmed(S)
        /\ where \in {"statuses", "attach", "commit"}
        /\ where = "commit" => left[c] = {t}
    BY <1>4, <2>2
  <2>5. /\ CallInv(c)' => TablesInv'
        /\ place'[c] = where /\ lock' = c /\ call'[c] = call[c]
        /\ work'[c] = db /\ before'[c] = before[c] /\ disk' = disk
    <3>1. GoOn(c, where) /\ place[c] \notin {"closed", "ready"}
      BY <2>1, <2>2
    <3> HIDE DEF db, where
    <3>2. QED
      BY <2>2, <2>3, <2>4, <3>1, StatementKeepsType
  <2> HIDE DEF db, where
  <2>6. work'[c].tx = [u \in Txs |-> IF u \in (DOMAIN S) \ left'[c] THEN S[u] ELSE disk.tx[u]]
    <3>1. work[c].tx = [u \in Txs |-> IF u \in (DOMAIN S) \ left[c] THEN S[u] ELSE disk.tx[u]]
      BY <1>2 DEF InFinalize
    <3>2. QED
      BY <1>4, <2>2, <2>3, <2>5, <3>1
  <2>7. /\ work[c].final = IF Confirmed(S) \ left[c] = {} THEN disk.final
                           ELSE [disk.final EXCEPT ![g] = CHOOSE u \in Confirmed(S) : TRUE]
        /\ work[c].group = disk.group /\ work[c].payout = disk.payout
        /\ left[c] \subseteq DOMAIN S /\ call[c].op = "finalize"
    BY <1>2, <2>2 DEF InFinalize
  <2>8. work'[c].final = IF Confirmed(S) \ left'[c] = {} \/ place'[c] = "attach" THEN disk.final
                         ELSE [disk.final EXCEPT ![g] = CHOOSE u \in Confirmed(S) : TRUE]
    <3>1. CASE t \in Confirmed(S)
      <4>1. Confirmed(S) \ left[c] = {}
        BY <1>4, <3>1
      <4>2. QED
        BY <2>3, <2>4, <2>5, <2>7, <3>1, <4>1
    <3>2. CASE t \notin Confirmed(S)
      <4>1. Confirmed(S) \ left'[c] = Confirmed(S) \ left[c]
        BY <2>2, <3>2
      <4>2. QED
        BY <2>3, <2>4, <2>5, <2>7, <3>2, <4>1
    <3>3. QED
      BY <3>1, <3>2
  <2>9. place'[c] = "attach" => Confirmed(S) \ left'[c] # {}
    BY <2>2, <2>4, <2>5
  <2>10. /\ call'[c].statuses = S /\ call'[c].group = g /\ call'[c].op = "finalize"
         /\ left'[c] \subseteq DOMAIN S
         /\ work'[c].group = disk'.group /\ work'[c].payout = disk'.payout
    BY <2>2, <2>3, <2>5, <2>7
  <2>11. InFinalize(c)'
    <3> HIDE DEF S, g
    <3>1. QED
      BY <1>3, <2>5, <2>6, <2>8, <2>9, <2>10 DEF InFinalize
  <2>12. CallInv(c)'
    BY <1>2, <2>2, <2>4, <2>5, <2>11 DEF CallInv
  <2>13. QED
    BY <2>5, <2>12
<1>7. CASE UpdateNoReturn_PayoutGroup_By_Id(c)
  <2> DEFINE final == CHOOSE u \in Confirmed(S) : TRUE
             db == [work[c] EXCEPT !.final[g] = final]
             where == IF left[c] = {} THEN "commit" ELSE "statuses"
  <2>1. /\ place[c] = "attach" /\ GoOn(c, where) /\ left' = left
        /\ work' = [work EXCEPT ![c] = db]
        /\ lock' = c /\ \A d \in Commands \ {c} : place[d] = "closed"
    BY <1>1, <1>7 DEF UpdateNoReturn_PayoutGroup_By_Id, TablesInv, CallInv, LockInv
  <2>2. /\ Confirmed(S) \ left[c] # {} /\ work[c].final = disk.final
        /\ work[c].tx = [u \in Txs |-> IF u \in (DOMAIN S) \ left[c] THEN S[u] ELSE disk.tx[u]]
        /\ work[c].group = disk.group /\ work[c].payout = disk.payout
        /\ left[c] \subseteq DOMAIN S /\ call[c].op = "finalize"
    BY <1>2, <2>1 DEF InFinalize
  <2>3. final \in Txs
    BY <1>4, <2>2
  <2>4. /\ db \in Tables /\ db.payout = work[c].payout /\ db.group = work[c].group
        /\ db.tx = work[c].tx /\ db.final = [work[c].final EXCEPT ![g] = final]
    BY <1>1, <1>5, <2>3 DEF Tables
  <2>5. /\ CallInv(c)' => TablesInv'
        /\ place'[c] = where /\ lock' = c /\ call'[c] = call[c]
        /\ work'[c] = db /\ before'[c] = before[c] /\ disk' = disk
    <3> HIDE DEF db
    <3>1. QED
      BY <1>1, <2>1, <2>4, StatementKeepsType
  <2> HIDE DEF db
  <2>6. /\ call'[c].statuses = S /\ call'[c].group = g /\ call'[c].op = "finalize"
        /\ left'[c] \subseteq DOMAIN S /\ left'[c] = left[c]
        /\ work'[c].group = disk'.group /\ work'[c].payout = disk'.payout
        /\ work'[c].tx = [u \in Txs |-> IF u \in (DOMAIN S) \ left[c] THEN S[u] ELSE disk.tx[u]]
        /\ work'[c].final = [disk.final EXCEPT ![g] = final]
    BY <2>1, <2>2, <2>4, <2>5
  <2>7. InFinalize(c)'
    <3>1. place'[c] # "attach" /\ Confirmed(S) \ left'[c] # {}
      BY <2>2, <2>5, <2>6
    <3>2. /\ g = t0.group /\ disk'.tx[t0] = TxPending /\ S = Statuses(disk', t0, state)
          /\ disk' = disk
      BY <1>3, <2>5
    <3> HIDE DEF S, g
    <3>3. QED
      BY <2>6, <3>1, <3>2 DEF InFinalize
  <2>8. CallInv(c)'
    BY <1>2, <2>1, <2>5, <2>6, <2>7 DEF CallInv
  <2>9. QED
    BY <2>5, <2>8
<1>8. QED
  BY <1>6, <1>7

------------------------------------------------------------------------------
(* When every statement is done, the copy is what the call is for.         *)
LEMMA CommitIsEffect ==
    ASSUME TablesInv, NEW c \in Commands, place[c] = "commit"
    PROVE  /\ work[c] = Effect(call[c], disk) /\ before[c] = disk
           /\ call[c].op \in {"group", "finalize"} /\ left[c] = {}
           /\ call[c].op = "group" => InGroup(c)
           /\ call[c].op = "finalize" => InFinalize(c)
<1>1. /\ work[c] \in Tables /\ disk \in Tables
      /\ left[c] = {} /\ before[c] = disk /\ (InGroup(c) \/ InFinalize(c))
  BY DEF TablesInv, TablesTypeOK, CallInv
<1>2. CASE InGroup(c)
  <2>1. /\ call[c].op = "group" /\ work[c].tx = disk.tx /\ work[c].final = disk.final
        /\ work[c].group = disk.group \union {call[c].group}
        /\ work[c].payout = disk.payout \union ({call[c].group} \X (Lines \ left[c]))
    BY <1>2 DEF InGroup
  <2>2. Lines \ left[c] = Lines
    BY <1>1
  <2> DEFINE E == [disk EXCEPT !.group = @ \union {call[c].group},
                               !.payout = @ \union ({call[c].group} \X Lines)]
  <2>3. Effect(call[c], disk) = E
    BY <2>1 DEF Effect
  <2>4. work[c] = E
    BY <1>1, <2>1, <2>2 DEF Tables
  <2>5. QED
    BY <1>1, <1>2, <2>1, <2>3, <2>4
<1>3. CASE InFinalize(c)
  <2> DEFINE S == call[c].statuses
             g == call[c].group
             E == [group |-> disk.group,
                   payout |-> disk.payout,
                   tx |-> [t \in Txs |-> IF t \in DOMAIN S THEN S[t] ELSE disk.tx[t]],
                   final |-> IF Confirmed(S) = {} THEN disk.final
                             ELSE [disk.final EXCEPT ![g] = CHOOSE t \in Confirmed(S) : TRUE]]
  <2>1. /\ call[c].op = "finalize"
        /\ work[c].group = disk.group /\ work[c].payout = disk.payout
        /\ work[c].tx = [t \in Txs |-> IF t \in (DOMAIN S) \ left[c] THEN S[t] ELSE disk.tx[t]]
        /\ work[c].final = IF Confirmed(S) \ left[c] = {} \/ place[c] = "attach" THEN disk.final
                           ELSE [disk.final EXCEPT ![g] = CHOOSE t \in Confirmed(S) : TRUE]
    BY <1>3 DEF InFinalize
  <2>2. Effect(call[c], disk) = E
    BY <2>1 DEF Effect
  <2>3. (DOMAIN S) \ left[c] = DOMAIN S /\ Confirmed(S) \ left[c] = Confirmed(S)
    BY <1>1
  <2>4. /\ work[c].group = E.group /\ work[c].payout = E.payout
        /\ work[c].tx = E.tx /\ work[c].final = E.final
    BY <1>1, <2>1, <2>3
  <2>5. work[c] = [group |-> work[c].group, payout |-> work[c].payout,
                   tx |-> work[c].tx, final |-> work[c].final]
    BY <1>1 DEF Tables
  <2>6. work[c] = E
    BY <2>4, <2>5
  <2>7. QED
    BY <1>1, <1>3, <2>1, <2>2, <2>6
<1>4. QED
  BY <1>1, <1>2, <1>3

LEMMA TransactionStatementsKeepInv ==
    ASSUME TablesInv, NEW c \in Commands,
           Create_Transaction(c) \/ getLastTransaction(c)
    PROVE  TablesInv'
<1>1. CASE Create_Transaction(c)
  <2>1. /\ InTransaction(c) /\ before[c] = disk
        /\ lock' = c /\ \A d \in Commands \ {c} : place[d] = "closed"
        /\ disk \in Tables /\ place[c] = "insert"
    BY <1>1 DEF Create_Transaction, WritesAlone, TablesInv, TablesTypeOK, CallInv
  <2>2. disk' = [disk EXCEPT !.tx[call[c].tx] = TxPending]
    BY <1>1 DEF Create_Transaction
  <2>3. /\ disk' \in Tables /\ disk'.group = disk.group /\ disk'.payout = disk.payout
    BY <2>1, <2>2 DEF Tables, RowState, TxStates, InTransaction
  <2>4. place' \in [Commands -> {"closed", "ready", "group", "payouts", "insert", "read back",
                               "statuses", "attach", "commit", "reading"}]
        /\ place'[c] = "read back"
    BY <1>1 DEF Create_Transaction, TablesInv, TablesTypeOK
  <2>5. TablesTypeOK'
    BY <1>1, <2>1, <2>3, <2>4 DEF Create_Transaction, TablesInv, TablesTypeOK
  <2>6. GroupsAreWhole'
    BY <2>3 DEF TablesInv, GroupsAreWhole
  <2>7. LockInv' /\ \A d \in Commands : d # c => CallInv(d)'
    <3>1. /\ place' = [place EXCEPT ![c] = "read back"]
          /\ \A d \in Commands \ {c} :
               call'[d] = call[d] /\ work'[d] = work[d] /\ left'[d] = left[d] /\ before'[d] = before[d]
      BY <1>1 DEF Create_Transaction
    <3>2. QED
      BY <2>1, <3>1, OthersKeepInv
  <2>8. Done(c)'
    BY <1>1, <2>1, <2>2 DEF Create_Transaction, InTransaction, Done, Effect
  <2>9. InTransaction(c)'
    BY <1>1, <2>1, <2>3 DEF Create_Transaction, InTransaction
  <2>10. CallInv(c)'
    BY <1>1, <2>1, <2>4, <2>8, <2>9 DEF Create_Transaction, CallInv
  <2>11. QED
    BY <2>5, <2>6, <2>7, <2>10 DEF TablesInv
<1>2. CASE getLastTransaction(c)
  <2>1. /\ place[c] # "closed" /\ Answer(c, "ok") /\ DOMAIN seen' = Commands
        /\ disk' \in Tables /\ disk' = disk /\ GroupsAreWhole'
    BY <1>2 DEF getLastTransaction, TablesInv, TablesTypeOK, GroupsAreWhole
  <2>2. QED
    BY <2>1, AnswerKeepsInv
<1>3. QED
  BY <1>1, <1>2

LEMMA ReadsKeepInv ==
    ASSUME TablesInv, NEW c \in Commands, Read(c) \/ HasRead(c)
    PROVE  TablesInv'
<1>1. CASE Read(c)
  <2>1. TablesTypeOK' /\ GroupsAreWhole'
    <3>1. DOMAIN seen' = Commands
      BY <1>1 DEF Read, TablesInv, TablesTypeOK
    <3>2. QED
      BY <1>1, <3>1 DEF Read, TablesInv, TablesTypeOK, GroupsAreWhole
  <2>2. \A d \in Commands : CallInv(d)'
    <3> SUFFICES ASSUME NEW d \in Commands PROVE CallInv(d)'
      OBVIOUS
    <3>1. /\ disk' = disk /\ lock' = lock /\ place' = place /\ call' = call
          /\ work' = work /\ left' = left /\ before' = before
      BY <1>1 DEF Read
    <3>2. (InGroup(d)' <=> InGroup(d)) /\ (InTransaction(d)' <=> InTransaction(d))
      BY <3>1 DEF InGroup, InTransaction
    <3>3. (InFinalize(d)' <=> InFinalize(d)) /\ (Done(d)' <=> Done(d))
      BY <3>1 DEF InFinalize, Done
    <3>4. QED
      BY <3>1, <3>2, <3>3 DEF TablesInv, CallInv
  <2>3. LockInv'
    BY <1>1 DEF Read, TablesInv, LockInv
  <2>4. QED
    BY <2>1, <2>2, <2>3 DEF TablesInv
<1>2. CASE HasRead(c)
  <2>1. /\ place[c] # "closed" /\ Answer(c, "ok") /\ DOMAIN seen' = Commands
        /\ disk' \in Tables /\ disk' = disk /\ GroupsAreWhole'
    BY <1>2 DEF HasRead, TablesInv, TablesTypeOK, GroupsAreWhole
  <2>2. QED
    BY <2>1, AnswerKeepsInv
<1>3. QED
  BY <1>1, <1>2

(* What a commit writes, and that a payout group comes with its payouts.   *)
LEMMA EndsKeepInv ==
    ASSUME TablesInv, NEW c \in Commands, WithTx(c) \/ Fail(c)
    PROVE  TablesInv'
<1>1. CASE WithTx(c)
  <2>1. /\ place[c] = "commit" /\ disk' = work[c] /\ work[c] \in Tables
        /\ Answer(c, "ok") /\ DOMAIN seen' = Commands /\ lock = c
    BY <1>1 DEF WithTx, TablesInv, TablesTypeOK, CallInv
  <2>2. GroupsAreWhole'
    <3>1. CASE call[c].op = "group"
      <4>1. /\ work[c].group = disk.group \union {call[c].group}
            /\ work[c].payout = disk.payout \union ({call[c].group} \X (Lines \ left[c]))
            /\ left[c] = {}
        BY <2>1, <3>1, CommitIsEffect DEF InGroup
      <4>2. disk.payout = disk.group \X Lines
        BY DEF TablesInv, GroupsAreWhole
      <4>3. QED
        BY <2>1, <4>1, <4>2 DEF GroupsAreWhole
    <3>2. CASE call[c].op = "finalize"
      <4>1. work[c].group = disk.group /\ work[c].payout = disk.payout
        BY <2>1, <3>2, CommitIsEffect DEF InFinalize
      <4>2. QED
        BY <2>1, <4>1 DEF TablesInv, GroupsAreWhole
    <3>3. QED
      BY <2>1, <3>1, <3>2, CommitIsEffect
  <2>3. QED
    BY <2>1, <2>2, AnswerKeepsInv
<1>2. CASE Fail(c)
  <2>1. /\ place[c] # "closed" /\ Answer(c, "error") /\ DOMAIN seen' = Commands
        /\ disk' \in Tables /\ disk' = disk /\ GroupsAreWhole'
    BY <1>2 DEF Fail, TablesInv, TablesTypeOK, GroupsAreWhole
  <2>2. QED
    BY <2>1, AnswerKeepsInv
<1>3. QED
  BY <1>1, <1>2

LEMMA TablesStepKeepsInv == TablesInv /\ [TablesNext]_tableVars => TablesInv'
<1> SUFFICES ASSUME TablesInv, [TablesNext]_tableVars PROVE TablesInv'
  OBVIOUS
<1>1. ASSUME NEW c \in Commands, OpenDB(c) \/ CloseDB(c) \/ Killed(c)
      PROVE  TablesInv'
  BY <1>1, SessionKeepsInv
<1>2. ASSUME NEW c \in Commands, Calls(c)
      PROVE  TablesInv'
  BY <1>2, CallsKeepInv
<1>3. ASSUME NEW c \in Commands, Statements(c) \/ Fail(c)
      PROVE  TablesInv'
  BY <1>3, GroupStatementsKeepInv, FinalizeStatementsKeepInv, TransactionStatementsKeepInv,
     ReadsKeepInv, EndsKeepInv DEF Statements
<1>4. CASE UNCHANGED tableVars
  <2>1. /\ disk' = disk /\ lock' = lock /\ place' = place /\ call' = call /\ seen' = seen
        /\ work' = work /\ left' = left /\ before' = before /\ reply' = reply /\ calls' = calls
    BY <1>4 DEF tableVars
  <2>2. TablesTypeOK' /\ GroupsAreWhole' /\ LockInv'
    BY <2>1 DEF TablesInv, TablesTypeOK, GroupsAreWhole, LockInv
  <2>3. ASSUME NEW d \in Commands PROVE CallInv(d)'
    <3>1. (InGroup(d)' <=> InGroup(d)) /\ (InTransaction(d)' <=> InTransaction(d))
      BY <2>1 DEF InGroup, InTransaction
    <3>2. (InFinalize(d)' <=> InFinalize(d)) /\ (Done(d)' <=> Done(d))
      BY <2>1 DEF InFinalize, Done
    <3>3. QED
      BY <2>1, <3>1, <3>2 DEF TablesInv, CallInv
  <2>4. QED
    BY <2>2, <2>3 DEF TablesInv
<1>5. QED
  BY <1>1, <1>2, <1>3, <1>4 DEF TablesNext

------------------------------------------------------------------------------
(* The inductive invariant of the database at work. *)
THEOREM TablesInvCorrect == TablesSpec => []TablesInv
<1>1. TablesInit => TablesInv
  BY InitTablesInv
<1>2. TablesInv /\ [TablesNext]_tableVars => TablesInv'
  BY TablesStepKeepsInv
<1>3. QED
  BY <1>1, <1>2, PTL DEF TablesSpec

(* A payout group is in the database with all its payouts or not at all.   *)
THEOREM GroupsStayWhole == TablesSpec => []GroupsAreWhole
<1>1. TablesInv => GroupsAreWhole
  BY DEF TablesInv
<1>2. QED
  BY <1>1, TablesInvCorrect, PTL

(* A command moves by its own steps only. *)
LEMMA StepMovesOne ==
    ASSUME TablesInv, NEW c \in Commands,
           OpenDB(c) \/ CloseDB(c) \/ Calls(c) \/ Statements(c) \/ Fail(c) \/ Killed(c)
    PROVE  \A d \in Commands \ {c} : place'[d] = place[d]
<1>1. place' = place \/ \E where : place' = [place EXCEPT ![c] = where]
  BY DEF OpenDB, CloseDB, Killed, Fail, Answer, GoOn, WithTx, Read, HasRead, getLastTransaction,
         Calls, Begin, BeginCreatePayoutGroup, BeginCreateTransaction, BeginFinalizeNonceGroup,
         BeginReading, Statements, Create_Transaction, CreateNoReturn_PayoutGroup,
         CreateNoReturn_Payout, UpdateNoReturn_Transaction_By_Hash,
         UpdateNoReturn_PayoutGroup_By_Id
<1>2. QED
  BY <1>1 DEF TablesInv, TablesTypeOK

(* A call's answer says what it did to the tables. *)
THEOREM AnswersAreCorrect == TablesSpec => AnswersAreTrue
<1>1. ASSUME TablesInv, TablesNext, NEW d \in Commands
      PROVE  Answers(d)
  <2> SUFFICES ASSUME place[d] \notin {"closed", "ready"}, place'[d] = "ready"
               PROVE  \/ disk' = Effect(call[d], before[d])
                      \/ reply'[d] = "error" /\ disk' = before[d]
    BY DEF Answers
  <2>1. PICK c \in Commands :
          OpenDB(c) \/ CloseDB(c) \/ Calls(c) \/ Statements(c) \/ Fail(c) \/ Killed(c)
    BY <1>1 DEF TablesNext
  <2>3. c = d
    <3>1. c # d => place'[d] = place[d]
      BY <1>1, <2>1, StepMovesOne
    <3>2. QED
      BY <3>1
  <2>4. ~OpenDB(d) /\ ~CloseDB(d) /\ ~Killed(d)
    BY <1>1 DEF OpenDB, CloseDB, Killed, TablesInv, TablesTypeOK
  <2>5. ~Calls(d)
    BY DEF Calls, Begin, BeginCreatePayoutGroup, BeginCreateTransaction, BeginFinalizeNonceGroup,
       BeginReading
  <2>6. CASE WithTx(d)
    BY <1>1, <2>6, CommitIsEffect DEF WithTx
  <2>7. CASE getLastTransaction(d)
    BY <1>1, <2>7 DEF getLastTransaction, TablesInv, CallInv, Done
  <2>8. CASE HasRead(d)
    <3>1. disk' = disk /\ before[d] = disk /\ call[d].op \in ReadCalls
      BY <1>1, <2>8 DEF HasRead, TablesInv, CallInv
    <3>2. QED
      BY <3>1 DEF Effect, ReadCalls
  <2>9. CASE Fail(d)
    <3>1. /\ disk' = disk /\ reply'[d] = "error"
          /\ place[d] \in {"group", "payouts", "insert", "read back", "statuses", "attach",
                          "commit", "reading"}
      BY <1>1, <2>9 DEF Fail, Answer, TablesInv, TablesTypeOK
    <3>2. place[d] # "read back" => before[d] = disk
      BY <1>1, <3>1 DEF TablesInv, CallInv
    <3>3. place[d] = "read back" => disk = Effect(call[d], before[d])
      BY <1>1 DEF TablesInv, CallInv, Done
    <3>4. QED
      BY <3>1, <3>2, <3>3
  <2>10. CASE \/ CreateNoReturn_PayoutGroup(d) \/ CreateNoReturn_Payout(d)
              \/ Create_Transaction(d) \/ UpdateNoReturn_Transaction_By_Hash(d)
              \/ UpdateNoReturn_PayoutGroup_By_Id(d) \/ Read(d)
    <3>1. place'[d] # "ready"
      BY <1>1, <2>10 DEF CreateNoReturn_PayoutGroup, CreateNoReturn_Payout, Create_Transaction,
         UpdateNoReturn_Transaction_By_Hash, UpdateNoReturn_PayoutGroup_By_Id, Read, GoOn,
         TablesInv, TablesTypeOK
    <3>2. QED
      BY <3>1
  <2>11. QED
    BY <2>1, <2>3, <2>4, <2>5, <2>6, <2>7, <2>8, <2>9, <2>10 DEF Statements
<1>2. TablesInv /\ [TablesNext]_tableVars => [EveryAnswer]_tableVars
  <2> SUFFICES ASSUME TablesInv, TablesNext, NEW c \in Commands PROVE Answers(c)
    BY DEF EveryAnswer
  <2>1. QED
    BY <1>1
<1>3. QED
  BY <1>2, TablesInvCorrect, PTL DEF TablesSpec, AnswersAreTrue

------------------------------------------------------------------------------
(* A commit is one of the store's steps. *)
LEMMA CommitIsAStoreStep ==
    ASSUME TablesInv, NEW c \in Commands, WithTx(c)
    PROVE  Store!StoreNext
<1>1. /\ place[c] = "commit" /\ disk' = work[c] /\ work[c] = Effect(call[c], disk)
      /\ call[c].op \in {"group", "finalize"} /\ left[c] = {} /\ disk \in Tables
      /\ call[c].op = "group" => InGroup(c)
      /\ call[c].op = "finalize" => InFinalize(c)
  BY CommitIsEffect DEF WithTx, TablesInv, TablesTypeOK
<1>2. CASE call[c].op = "group"
  <2>1. /\ call[c].group \in Groups \ disk.group
        /\ disk'.group = disk.group \union {call[c].group}
        /\ disk'.tx = disk.tx /\ disk'.final = disk.final
    BY <1>1, <1>2 DEF InGroup
  <2>2. UNCHANGED Store!dbVars
    BY <2>1 DEF Store!dbVars
  <2>3. QED
    BY <2>1, <2>2 DEF Store!StoreNext
<1>3. CASE call[c].op = "finalize"
  <2> DEFINE S == call[c].statuses
             g == call[c].group
  <2>1. PICK t \in Txs, state \in {TxConfirmed, TxFailed} :
          disk.tx[t] = TxPending /\ g = t.group /\ S = Statuses(disk, t, state)
    BY <1>1, <1>3 DEF InFinalize
  <2>2. S = Store!Settled(t, state)
    BY <2>1 DEF Statuses, Store!Settled, Store!Txs, Store!Nonces, Txs, Nonces,
                Store!TxPending, TxPending, Store!TxDropped, TxDropped
  <2>3. Confirmed(S) = {u \in DOMAIN S : S[u] = Store!TxConfirmed}
    BY DEF Confirmed, Store!TxConfirmed, TxConfirmed
  <2>4. /\ disk'.group = disk.group
        /\ disk'.tx = [u \in Txs |-> IF u \in DOMAIN S THEN S[u] ELSE disk.tx[u]]
        /\ disk'.final = IF Confirmed(S) = {} THEN disk.final
                         ELSE [disk.final EXCEPT ![g] = CHOOSE u \in Confirmed(S) : TRUE]
    <3>1. Effect(call[c], disk) =
            [group |-> disk.group,
             payout |-> disk.payout,
             tx |-> [u \in Txs |-> IF u \in DOMAIN S THEN S[u] ELSE disk.tx[u]],
             final |-> IF Confirmed(S) = {} THEN disk.final
                       ELSE [disk.final EXCEPT ![g] = CHOOSE u \in Confirmed(S) : TRUE]]
      BY <1>3 DEF Effect
    <3>2. disk' = Effect(call[c], disk)
      BY <1>1
    <3> HIDE DEF S, g
    <3>3. QED
      BY <3>1, <3>2
  <2>5. Store!FinalizeNonceGroup(g, S)
    <3>1. Store!Txs = Txs
      BY DEF Store!Txs, Txs, Store!Nonces, Nonces
    <3> HIDE DEF S, g
    <3>2. QED
      BY <2>3, <2>4, <3>1 DEF Store!FinalizeNonceGroup
  <2>6. /\ t \in Store!Txs /\ state \in {Store!TxConfirmed, Store!TxFailed}
        /\ disk.tx[t] = Store!TxPending
    BY <2>1 DEF Store!Txs, Txs, Store!Nonces, Nonces, Store!TxPending, TxPending,
                Store!TxConfirmed, TxConfirmed, Store!TxFailed, TxFailed
  <2>7. QED
    BY <2>1, <2>2, <2>4, <2>5, <2>6 DEF Store!StoreNext
<1>4. QED
  BY <1>1, <1>2, <1>3

LEMMA InsertIsAStoreStep ==
    ASSUME TablesInv, NEW c \in Commands, Create_Transaction(c)
    PROVE  Store!StoreNext
<1> DEFINE t == call[c].tx
<1>1. /\ t \in Txs /\ t.group \in disk.group /\ disk \in Tables
      /\ disk.tx[t] = "none" /\ disk' = [disk EXCEPT !.tx[t] = TxPending]
  BY DEF Create_Transaction, TablesInv, TablesTypeOK, CallInv, InTransaction
<1>2. /\ disk'.tx = [disk.tx EXCEPT ![t] = TxPending]
      /\ disk'.final = disk.final /\ disk'.group = disk.group
  BY <1>1 DEF Tables
<1>3. t \in Store!Txs
  BY <1>1 DEF Store!Txs, Txs, Store!Nonces, Nonces
<1> HIDE DEF t
<1>4. Store!CreateTransaction(t)
  BY <1>1, <1>2 DEF Store!CreateTransaction, Store!HashTaken, Store!TxPending, TxPending
<1>5. QED
  BY <1>1, <1>2, <1>3, <1>4 DEF Store!StoreNext

(* Nothing else writes. *)
LEMMA OthersDoNotWrite ==
    ASSUME NEW c \in Commands,
           OpenDB(c) \/ CloseDB(c) \/ Calls(c) \/ Statements(c) \/ Fail(c) \/ Killed(c),
           ~WithTx(c), ~Create_Transaction(c)
    PROVE  disk' = disk
BY DEF OpenDB, CloseDB, Killed, Fail, Read, HasRead, getLastTransaction,
       Calls, Begin, BeginCreatePayoutGroup, BeginCreateTransaction, BeginFinalizeNonceGroup,
       BeginReading, Statements, CreateNoReturn_PayoutGroup, CreateNoReturn_Payout, GoOn,
       UpdateNoReturn_Transaction_By_Hash, UpdateNoReturn_PayoutGroup_By_Id

(* The database at work is the store that the pipeline takes it for.       *)
THEOREM TablesImplementStore == TablesSpec => ImplementsStore
<1>1. TablesInit => Store!StoreInit
  BY DEF TablesInit, NoRows, Store!StoreInit, Store!DBInit, Store!Txs, Txs, Store!Nonces, Nonces
<1>2. TablesInv /\ [TablesNext]_tableVars => [Store!StoreNext]_(Store!storeVars)
  <2> SUFFICES ASSUME TablesInv, [TablesNext]_tableVars
               PROVE  Store!StoreNext \/ disk' = disk
    BY DEF Store!storeVars
  <2>1. CASE UNCHANGED tableVars
    BY <2>1 DEF tableVars
  <2>2. ASSUME NEW c \in Commands,
               OpenDB(c) \/ CloseDB(c) \/ Calls(c) \/ Statements(c) \/ Fail(c) \/ Killed(c)
        PROVE  Store!StoreNext \/ disk' = disk
    BY <2>2, CommitIsAStoreStep, InsertIsAStoreStep, OthersDoNotWrite
  <2>3. QED
    BY <2>1, <2>2 DEF TablesNext
<1>3. QED
  BY <1>1, <1>2, TablesInvCorrect, PTL DEF TablesSpec, ImplementsStore, Store!StoreSpec

------------------------------------------------------------------------------
(* What any query may return.                                              *)
AllAnswers == {Query(Queries(op)[i], db) : op \in ReadCalls, i \in Nat \ {0}, db \in Tables}

SeenInv ==
    /\ \A c \in Commands : seen[c] \in Seq(AllAnswers)
    /\ ReadsAgree

(* A query is answered by the tables the call began with: as long as a     *)
(* command reads, nobody writes.                                           *)
LEMMA ReadAgrees ==
    ASSUME TablesInv, SeenInv, NEW c \in Commands, Read(c)
    PROVE  SeenInv'
<1> DEFINE answer == Query(Queries(call[c].op)[Len(seen[c]) + 1], disk)
<1>1. /\ place[c] = "reading" /\ seen' = [seen EXCEPT ![c] = Append(seen[c], answer)]
      /\ DOMAIN seen = Commands
      /\ place' = place /\ call' = call /\ before' = before
  BY DEF Read, TablesInv, TablesTypeOK
<1>2. before[c] = disk /\ call[c].op \in ReadCalls /\ disk \in Tables
  BY <1>1 DEF TablesInv, TablesTypeOK, CallInv
<1>3. seen[c] \in Seq(AllAnswers)
  BY DEF SeenInv
<1>4. Len(seen[c]) + 1 \in Nat \ {0}
  BY <1>3
<1>5. answer \in AllAnswers
  BY <1>2, <1>4 DEF AllAnswers
<1>6. /\ \A d \in Commands \ {c} : seen'[d] = seen[d]
      /\ seen'[c] = Append(seen[c], answer)
  BY <1>1
<1> HIDE DEF answer
<1>7. \A d \in Commands : seen'[d] \in Seq(AllAnswers)
  BY <1>3, <1>5, <1>6, AppendedTo DEF SeenInv
<1>8. \A i \in DOMAIN seen'[c] : seen'[c][i] = Query(Queries(call[c].op)[i], before[c])
  <2>1. SUFFICES ASSUME NEW i \in DOMAIN seen'[c]
                 PROVE  seen'[c][i] = Query(Queries(call[c].op)[i], before[c])
    OBVIOUS
  <2>2. Len(seen[c]) \in Nat /\ i \in 1 .. Len(seen[c]) + 1
    BY <1>3, <1>5, <1>6, <2>1, AppendedTo
  <2>3. CASE i = Len(seen[c]) + 1
    BY <1>2, <1>3, <1>5, <1>6, <2>3, AppendedTo DEF answer
  <2>4. CASE i \in 1 .. Len(seen[c])
    <3>1. i \in DOMAIN seen[c] /\ seen'[c][i] = seen[c][i]
      BY <1>3, <1>5, <1>6, <2>4, AppendedTo
    <3>2. QED
      BY <1>1, <3>1 DEF SeenInv, ReadsAgree
  <2>5. QED
    BY <2>2, <2>3, <2>4
<1>9. ReadsAgree'
  BY <1>1, <1>6, <1>8 DEF SeenInv, ReadsAgree
<1>10. QED
  BY <1>7, <1>9 DEF SeenInv

LEMMA SeenInvNext ==
    ASSUME TablesInv, TablesInv', SeenInv, [TablesNext]_tableVars
    PROVE  SeenInv'
<1>1. CASE UNCHANGED tableVars
  BY <1>1 DEF tableVars, SeenInv, ReadsAgree
<1>2. CASE \E c \in Commands : Read(c)
  BY <1>2, ReadAgrees
<1>3. ASSUME NEW c \in Commands, ~Read(c),
             OpenDB(c) \/ CloseDB(c) \/ Calls(c) \/ Statements(c) \/ Fail(c) \/ Killed(c)
      PROVE  SeenInv'
  <2>1. seen' = seen \/ seen' = [seen EXCEPT ![c] = <<>>]
    BY <1>3 DEF OpenDB, CloseDB, Killed, Fail, WithTx, HasRead, getLastTransaction, GoOn,
       Calls, Begin, BeginCreatePayoutGroup, BeginCreateTransaction, BeginFinalizeNonceGroup,
       BeginReading, Statements, Create_Transaction, CreateNoReturn_PayoutGroup,
       CreateNoReturn_Payout, UpdateNoReturn_Transaction_By_Hash,
       UpdateNoReturn_PayoutGroup_By_Id
  <2>2. place'[c] = "reading" => seen'[c] = <<>>
    <3>1. Calls(c) => seen'[c] = <<>>
      BY DEF Calls, Begin, BeginCreatePayoutGroup, BeginCreateTransaction,
         BeginFinalizeNonceGroup, BeginReading, TablesInv, TablesTypeOK
    <3>2. ~Calls(c) => place'[c] # "reading"
      BY <1>3 DEF OpenDB, CloseDB, Killed, Fail, Answer, WithTx, HasRead, getLastTransaction,
         GoOn, Statements, Create_Transaction, CreateNoReturn_PayoutGroup,
         CreateNoReturn_Payout, UpdateNoReturn_Transaction_By_Hash,
         UpdateNoReturn_PayoutGroup_By_Id, TablesInv, TablesTypeOK
    <3>3. QED
      BY <3>1, <3>2
  <2>3. \A d \in Commands \ {c} :
          place'[d] = place[d] /\ call'[d] = call[d] /\ before'[d] = before[d]
    <3>1. \A d \in Commands \ {c} : place'[d] = place[d]
      BY <1>3, StepMovesOne
    <3>2. /\ call' = call \/ \E x : call' = [call EXCEPT ![c] = x]
          /\ before' = before \/ \E x : before' = [before EXCEPT ![c] = x]
      BY <1>3 DEF OpenDB, CloseDB, Killed, Fail, Answer, WithTx, HasRead,
         getLastTransaction, GoOn, Calls, Begin, BeginCreatePayoutGroup,
         BeginCreateTransaction, BeginFinalizeNonceGroup, BeginReading, Statements,
         Create_Transaction, CreateNoReturn_PayoutGroup, CreateNoReturn_Payout,
         UpdateNoReturn_Transaction_By_Hash, UpdateNoReturn_PayoutGroup_By_Id
    <3>3. QED
      BY <3>1, <3>2 DEF TablesInv, TablesTypeOK
  <2>4. DOMAIN seen = Commands
    BY DEF TablesInv, TablesTypeOK
  <2>5. <<>> \in Seq(AllAnswers) /\ DOMAIN <<>> = {}
    OBVIOUS
  <2>6. \A d \in Commands : seen'[d] = seen[d] \/ (d = c /\ seen'[d] = <<>>)
    BY <2>1, <2>4
  <2>7. QED
    BY <2>2, <2>3, <2>5, <2>6 DEF SeenInv, ReadsAgree
<1>4. QED
  BY <1>1, <1>2, <1>3 DEF TablesNext

(* The numbers of one Stats, one audit, one progress line are answers to   *)
(* one state of the tables: EXCLUSIVE locking keeps every writer out for   *)
(* as long as anybody reads.                                               *)
THEOREM ReadsAreConsistent == TablesSpec => []ReadsAgree
<1>1. TablesInit => SeenInv
  BY DEF TablesInit, SeenInv, ReadsAgree
<1>2. TablesInv /\ TablesInv' /\ SeenInv /\ [TablesNext]_tableVars => SeenInv'
  BY SeenInvNext
<1>3. SeenInv => ReadsAgree
  BY DEF SeenInv
<1>4. QED
  BY <1>1, <1>2, <1>3, TablesInvCorrect, PTL DEF TablesSpec

------------------------------------------------------------------------------
(* Loading the nonce groups *)

(* One turn of the loop: an error stays one.                               *)
Turn(sorted, i, groups) ==
    IF i > 1 /\ groups = <<>> THEN <<>> ELSE AddRow(groups, sorted[i])

(* What the loop has made after each of its first n turns.                 *)
Turns(sorted, n, made) ==
    made = [i \in 0 .. n |-> IF i = 0 THEN <<>> ELSE Turn(sorted, i, made[i - 1])]

LEMMA TurnsExist ==
    ASSUME NEW sorted, NEW n \in Nat
    PROVE  \E made : Turns(sorted, n, made)
<1> DEFINE Good == {k \in Nat : \E made : Turns(sorted, k, made)}
<1>1. 0 \in Good
  <2>1. Turns(sorted, 0, [i \in 0 .. 0 |-> <<>>])
    BY DEF Turns
  <2>2. QED
    BY <2>1
<1>2. ASSUME NEW k \in Nat, k \in Good PROVE k + 1 \in Good
  <2>1. PICK made : Turns(sorted, k, made)
    BY <1>2
  <2> DEFINE more == [i \in 0 .. k + 1 |->
                        IF i = k + 1 THEN Turn(sorted, i, made[k]) ELSE made[i]]
  <2>2. \A i \in 0 .. k : made[i] = IF i = 0 THEN <<>> ELSE Turn(sorted, i, made[i - 1])
    BY <2>1 DEF Turns
  <2>3. more[k + 1] = Turn(sorted, k + 1, made[k])
    OBVIOUS
  <2>4. \A i \in 0 .. k : more[i] = made[i]
    OBVIOUS
  <2>5. more[k + 1] = Turn(sorted, k + 1, more[(k + 1) - 1])
    BY <2>3, <2>4
  <2>6. \A i \in 0 .. k + 1 : more[i] = IF i = 0 THEN <<>> ELSE Turn(sorted, i, more[i - 1])
    <3>1. ASSUME NEW i \in 0 .. k + 1
          PROVE  more[i] = IF i = 0 THEN <<>> ELSE Turn(sorted, i, more[i - 1])
      <4>1. CASE i = k + 1
        <5> HIDE DEF more
        <5>1. QED
          BY <2>5, <4>1
      <4>2. CASE i # k + 1
        <5>1. i \in 0 .. k /\ (i # 0 => i - 1 \in 0 .. k)
          BY <4>2
        <5> HIDE DEF more
        <5>2. QED
          BY <2>2, <2>4, <5>1
      <4>3. QED
        BY <4>1, <4>2
    <3> HIDE DEF more
    <3>2. QED
      BY <3>1
  <2>7. DOMAIN more = 0 .. k + 1 /\ more = [i \in DOMAIN more |-> more[i]]
    OBVIOUS
  <2>8. Turns(sorted, k + 1, more)
    <3> HIDE DEF more
    <3>1. QED
      BY <2>6, <2>7 DEF Turns
  <2>9. QED
    BY <2>8
<1>3. Nat \subseteq Good
  <2> HIDE DEF Good
  <2>1. QED
    BY <1>1, <1>2, CountingUp
<1>4. QED
  BY <1>3

LEMMA LoopMakes ==
    ASSUME NEW sorted, Len(sorted) \in Nat
    PROVE  \E made : Turns(sorted, Len(sorted), made) /\ NonceGroupsOf(sorted) = made[Len(sorted)]
<1> DEFINE made == CHOOSE m : Turns(sorted, Len(sorted), m)
<1>1. Turns(sorted, Len(sorted), made)
  BY TurnsExist
<1>2. NonceGroupsOf(sorted) = made[Len(sorted)]
  BY DEF NonceGroupsOf, Turns, Turn
<1>3. QED
  BY <1>1, <1>2

NonceGroup == [nonce : Nonces, group : Groups, txs : SUBSET Txs]

(* No two payout groups have a row of one nonce. *)
Fits(txs) == \A t, u \in txs : t.nonce = u.nonce => t.group = u.group

(* The nonce groups of some transactions, in the order of their nonces.    *)
GroupsOf(txs, groups) ==
    /\ groups \in Seq(NonceGroup)
    /\ \A k \in 1 .. Len(groups) :
          /\ groups[k].txs # {}
          /\ groups[k].txs = {t \in txs : t.nonce = groups[k].nonce}
          /\ \A t \in groups[k].txs : t.group = groups[k].group
    /\ \A t \in txs : \E k \in 1 .. Len(groups) : groups[k].nonce = t.nonce
    /\ \A j, k \in 1 .. Len(groups) : j < k => groups[j].nonce < groups[k].nonce

LEMMA LastIsThere ==
    ASSUME NEW S, NEW s \in Seq(S), s # <<>>
    PROVE  /\ Len(s) \in Nat /\ Len(s) \in 1 .. Len(s)
           /\ Last(s) = s[Len(s)]
           /\ \A k \in 1 .. Len(s) : k <= Len(s)
BY DEF Last

(* A row with a nonce above all others opens a new group.                  *)
LEMMA OpensAGroup ==
    ASSUME NEW txs \in SUBSET Txs, NEW groups, GroupsOf(txs, groups),
           NEW t \in Txs, \A u \in txs : u.nonce < t.nonce
    PROVE  GroupsOf(txs \union {t},
                    Append(groups, [nonce |-> t.nonce, group |-> t.group, txs |-> {t}]))
<1> DEFINE n == Len(groups)
           g == [nonce |-> t.nonce, group |-> t.group, txs |-> {t}]
           new == Append(groups, g)
<1>0. groups \in Seq(NonceGroup)
  BY DEF GroupsOf
<1>1. g \in NonceGroup /\ g.nonce = t.nonce /\ g.group = t.group /\ g.txs = {t}
  BY DEF NonceGroup, Txs
<1>2. /\ new \in Seq(NonceGroup) /\ n \in Nat /\ Len(new) = n + 1
      /\ \A k \in 1 .. n : new[k] = groups[k]
      /\ new[n + 1] = g
  BY <1>0, <1>1, AppendedTo
<1>3. \A k \in 1 .. n : groups[k].txs # {} /\ groups[k].txs \subseteq txs
                        /\ \A u \in groups[k].txs : u.nonce = groups[k].nonce
  BY DEF GroupsOf
<1>4. \A k \in 1 .. n : groups[k].nonce < t.nonce
  BY <1>3
<1>5. t.nonce \in Nat /\ \A u \in txs : u.nonce \in Nat
  BY DEF Txs, Nonces
<1> HIDE DEF g, new
<1>6. \A k \in 1 .. n + 1 : k \in 1 .. n \/ k = n + 1
  BY <1>2
<1>7. ASSUME NEW k \in 1 .. n + 1
      PROVE  /\ new[k].txs # {}
             /\ new[k].txs = {u \in txs \union {t} : u.nonce = new[k].nonce}
             /\ \A u \in new[k].txs : u.group = new[k].group
  <2>1. CASE k \in 1 .. n
    <3>1. groups[k].nonce # t.nonce
      <4>1. groups[k].nonce < t.nonce /\ groups[k].nonce \in Nat
        <5>1. PICK u \in groups[k].txs : TRUE
          BY <1>3, <2>1
        <5>2. u.nonce = groups[k].nonce /\ u \in txs
          BY <1>3, <2>1
        <5>3. QED
          BY <1>4, <1>5, <2>1, <5>2
      <4>2. QED
        BY <1>5, <4>1
    <3>2. QED
      BY <1>2, <2>1, <3>1 DEF GroupsOf
  <2>2. CASE k = n + 1
    <3>1. \A u \in txs : u.nonce # t.nonce
      BY <1>5
    <3>2. QED
      BY <1>1, <1>2, <2>2, <3>1
  <2>3. QED
    BY <1>6, <2>1, <2>2
<1>8. \A u \in txs \union {t} : \E k \in 1 .. n + 1 : new[k].nonce = u.nonce
  <2>1. \A u \in txs : \E k \in 1 .. n : groups[k].nonce = u.nonce
    BY DEF GroupsOf
  <2>2. n + 1 \in 1 .. n + 1 /\ 1 .. n \subseteq 1 .. n + 1
    BY <1>2
  <2>3. QED
    BY <1>1, <1>2, <2>1, <2>2
<1>9. \A j, k \in 1 .. n + 1 : j < k => new[j].nonce < new[k].nonce
  <2>1. SUFFICES ASSUME NEW j \in 1 .. n + 1, NEW k \in 1 .. n + 1, j < k
                 PROVE  new[j].nonce < new[k].nonce
    OBVIOUS
  <2>2. j \in 1 .. n
    BY <1>2, <2>1
  <2>3. CASE k \in 1 .. n
    BY <1>2, <2>1, <2>2, <2>3 DEF GroupsOf
  <2>4. CASE k = n + 1
    BY <1>1, <1>2, <1>4, <2>2, <2>4
  <2>5. QED
    BY <1>6, <2>3, <2>4
<1>10. QED
  BY <1>2, <1>7, <1>8, <1>9 DEF GroupsOf, new, g

(* A row with the nonce and the payout group of the last one joins it.     *)
LEMMA JoinsTheLast ==
    ASSUME NEW txs \in SUBSET Txs, NEW groups, GroupsOf(txs, groups), groups # <<>>,
           NEW t \in Txs, Last(groups).nonce = t.nonce, Last(groups).group = t.group
    PROVE  GroupsOf(txs \union {t}, [groups EXCEPT ![Len(groups)].txs = @ \union {t}])
<1> DEFINE n == Len(groups)
           g == [groups[n] EXCEPT !.txs = @ \union {t}]
           new == [groups EXCEPT ![n] = g]
<1>0. groups \in Seq(NonceGroup)
  BY DEF GroupsOf
<1>1. n \in Nat /\ n \in 1 .. n /\ Last(groups) = groups[n] /\ groups[n] \in NonceGroup
  BY <1>0, LastIsThere
<1>2. /\ g \in NonceGroup /\ g.nonce = groups[n].nonce /\ g.group = groups[n].group
      /\ g.txs = groups[n].txs \union {t}
  BY <1>1 DEF NonceGroup
<1>3. new = [groups EXCEPT ![Len(groups)].txs = @ \union {t}]
  OBVIOUS
<1> HIDE DEF g, new
<1>4. /\ new \in Seq(NonceGroup) /\ Len(new) = n
      /\ new[n] = g
      /\ \A k \in 1 .. n : k # n => new[k] = groups[k] /\ k < n
  BY <1>0, <1>2, NewLast DEF new
<1>5. \A k \in 1 .. n : new[k].nonce = groups[k].nonce /\ new[k].group = groups[k].group
  BY <1>2, <1>4
<1>6. ASSUME NEW k \in 1 .. n
      PROVE  /\ new[k].txs # {}
             /\ new[k].txs = {u \in txs \union {t} : u.nonce = new[k].nonce}
             /\ \A u \in new[k].txs : u.group = new[k].group
  <2>1. /\ groups[k].txs # {}
        /\ groups[k].txs = {u \in txs : u.nonce = groups[k].nonce}
        /\ \A u \in groups[k].txs : u.group = groups[k].group
    BY DEF GroupsOf
  <2>2. CASE k = n
    BY <1>1, <1>2, <1>4, <1>5, <2>1, <2>2
  <2>3. CASE k # n
    <3>1. groups[k].nonce < groups[n].nonce
      BY <1>1, <1>4, <2>3 DEF GroupsOf
    <3>2. groups[k].nonce \in Nat /\ t.nonce \in Nat
      <4>1. groups[k] \in NonceGroup
        BY <1>0
      <4>2. QED
        BY <4>1 DEF NonceGroup, Txs, Nonces
    <3>3. groups[k].nonce # t.nonce
      BY <1>1, <3>1, <3>2
    <3>4. QED
      BY <1>4, <2>1, <2>3, <3>3
  <2>4. QED
    BY <2>2, <2>3
<1>7. \A u \in txs \union {t} : \E k \in 1 .. n : new[k].nonce = u.nonce
  BY <1>1, <1>5 DEF GroupsOf
<1>8. \A j, k \in 1 .. n : j < k => new[j].nonce < new[k].nonce
  BY <1>5 DEF GroupsOf
<1>9. QED
  BY <1>3, <1>4, <1>6, <1>7, <1>8 DEF GroupsOf

(* A row that comes after all others joins the last group, opens a new one *)
(* or does not fit.                                                        *)
LEMMA TurnMakes ==
    ASSUME NEW txs \in SUBSET Txs, NEW groups, NEW t \in Txs, GroupsOf(txs, groups),
           \A u \in txs : u.nonce <= t.nonce, Fits(txs)
    PROVE  IF Fits(txs \union {t}) THEN GroupsOf(txs \union {t}, AddRow(groups, t))
           ELSE AddRow(groups, t) = <<>>
<1> DEFINE n == Len(groups)
<1>0. groups \in Seq(NonceGroup) /\ t.nonce \in Nat /\ \A u \in txs : u.nonce \in Nat
  BY DEF GroupsOf, Txs, Nonces
<1>1. CASE groups # <<>> /\ Last(groups).nonce = t.nonce
  <2>1. n \in 1 .. n /\ Last(groups) = groups[n]
    BY <1>0, <1>1, LastIsThere
  <2>2. PICK u \in groups[n].txs : TRUE
    BY <2>1 DEF GroupsOf
  <2>3. u \in txs /\ u.nonce = t.nonce /\ u.group = Last(groups).group
    BY <1>1, <2>1, <2>2 DEF GroupsOf
  <2>4. CASE Last(groups).group = t.group
    <3>1. Fits(txs \union {t})
      <4>1. \A v \in txs : v.nonce = t.nonce => v.group = t.group
        BY <2>3, <2>4 DEF Fits
      <4>2. QED
        BY <4>1 DEF Fits
    <3>2. QED
      BY <1>1, <2>4, <3>1, JoinsTheLast DEF AddRow
  <2>5. CASE Last(groups).group # t.group
    <3>1. ~Fits(txs \union {t})
      BY <2>3, <2>5 DEF Fits
    <3>2. QED
      BY <1>1, <2>5, <3>1 DEF AddRow
  <2>6. QED
    BY <2>4, <2>5
<1>2. CASE ~(groups # <<>> /\ Last(groups).nonce = t.nonce)
  <2>1. \A u \in txs : u.nonce < t.nonce
    <3>1. SUFFICES ASSUME NEW u \in txs PROVE u.nonce # t.nonce
      BY <1>0
    <3>2. PICK k \in 1 .. n : groups[k].nonce = u.nonce
      BY DEF GroupsOf
    <3>3. groups # <<>>
      BY <3>2
    <3>4. n \in 1 .. n /\ n \in Nat /\ Last(groups) = groups[n]
      BY <1>0, <3>3, LastIsThere
    <3>5. PICK v \in groups[n].txs : TRUE
      BY <3>4 DEF GroupsOf
    <3>6. v \in txs /\ v.nonce = groups[n].nonce
      BY <3>4, <3>5 DEF GroupsOf
    <3>7. groups[n].nonce < t.nonce
      BY <1>0, <1>2, <3>3, <3>4, <3>6
    <3>8. k < n => groups[k].nonce < groups[n].nonce
      BY <3>4 DEF GroupsOf
    <3>9. k < n \/ k = n
      BY <3>4
    <3>10. groups[n].nonce \in Nat
      BY <1>0, <3>6
    <3>11. QED
      BY <1>0, <3>2, <3>7, <3>8, <3>9, <3>10
  <2>2. Fits(txs \union {t})
    <3>1. \A u \in txs : u.nonce # t.nonce
      BY <1>0, <2>1
    <3>2. QED
      BY <3>1 DEF Fits
  <2>3. QED
    BY <1>2, <2>1, <2>2, OpensAGroup DEF AddRow
<1>3. QED
  BY <1>1, <1>2

RowsTo(sorted, n) == {sorted[i] : i \in 1 .. n}

(* The whole loop. *)
LEMMA LoopMakesTheGroups ==
    ASSUME NEW n \in Nat, NEW sorted \in [1 .. n -> Txs],
           \A i, j \in 1 .. n : i < j => sorted[i].nonce <= sorted[j].nonce
    PROVE  IF Fits(RowsTo(sorted, n)) THEN GroupsOf(RowsTo(sorted, n), NonceGroupsOf(sorted))
           ELSE NonceGroupsOf(sorted) = <<>>
<1>1. Len(sorted) = n
  BY FunctionIsSeq
<1>2. PICK made : Turns(sorted, n, made) /\ NonceGroupsOf(sorted) = made[n]
  BY <1>1, LoopMakes
<1> DEFINE Made(k) == IF Fits(RowsTo(sorted, k)) THEN GroupsOf(RowsTo(sorted, k), made[k])
                      ELSE made[k] = <<>>
           Good == {k \in Nat : k <= n => Made(k)}
<1>3. 0 \in Good
  <2>1. made[0] = <<>>
    BY <1>2 DEF Turns
  <2>2. RowsTo(sorted, 0) = {}
    BY DEF RowsTo
  <2>3. Fits({}) /\ GroupsOf({}, <<>>)
    BY DEF Fits, GroupsOf
  <2>4. QED
    BY <2>1, <2>2, <2>3
<1>4. ASSUME NEW k \in Nat, k \in Good PROVE k + 1 \in Good
  <2>1. SUFFICES ASSUME k + 1 <= n PROVE Made(k + 1)
    OBVIOUS
  <2>2. Made(k) /\ k + 1 \in 1 .. n
    BY <1>4, <2>1
  <2>3. made[k + 1] = Turn(sorted, k + 1, made[k])
    <3>1. k + 1 \in 0 .. n /\ k + 1 # 0 /\ (k + 1) - 1 = k
      BY <2>1
    <3>2. made[k + 1] = Turn(sorted, k + 1, made[(k + 1) - 1])
      BY <1>2, <3>1 DEF Turns
    <3>3. QED
      BY <3>1, <3>2
  <2> DEFINE txs == RowsTo(sorted, k)
             t == sorted[k + 1]
  <2>4. RowsTo(sorted, k + 1) = txs \union {t}
    <3>1. 1 .. k + 1 = (1 .. k) \union {k + 1}
      OBVIOUS
    <3>2. QED
      BY <3>1 DEF RowsTo
  <2>5. txs \in SUBSET Txs /\ t \in Txs
    BY <2>2 DEF RowsTo
  <2>6. \A u \in txs : u.nonce <= t.nonce
    <3>1. \A i \in 1 .. k : i \in 1 .. n /\ i < k + 1
      BY <2>1
    <3>2. \A i \in 1 .. k : sorted[i].nonce <= sorted[k + 1].nonce
      BY <2>2, <3>1
    <3>3. QED
      BY <3>2 DEF RowsTo
  <2>7. CASE ~Fits(txs)
    <3>1. k + 1 > 1
      <4>1. k # 0
        <5>1. RowsTo(sorted, 0) = {}
          BY DEF RowsTo
        <5>2. Fits({})
          BY DEF Fits
        <5>3. QED
          BY <2>7, <5>1, <5>2
      <4>2. QED
        BY <4>1
    <3>2. made[k + 1] = <<>>
      BY <2>2, <2>3, <2>7, <3>1 DEF Turn
    <3>3. ~Fits(txs \union {t})
      BY <2>7 DEF Fits
    <3>4. QED
      BY <2>4, <3>2, <3>3
  <2>8. CASE Fits(txs)
    <3>1. GroupsOf(txs, made[k])
      BY <2>2, <2>8
    <3>2. k + 1 > 1 => made[k] # <<>>
      <4>1. SUFFICES ASSUME k + 1 > 1, made[k] = <<>> PROVE FALSE
        OBVIOUS
      <4>2. 1 \in 1 .. k
        BY <4>1
      <4>3. sorted[1] \in txs
        BY <4>2 DEF RowsTo
      <4>4. Len(<<>>) = 0
        OBVIOUS
      <4>5. QED
        BY <3>1, <4>1, <4>3, <4>4 DEF GroupsOf
    <3>3. made[k + 1] = AddRow(made[k], t)
      BY <2>3, <3>2 DEF Turn
    <3> HIDE DEF txs, t
    <3>4. QED
      BY <2>4, <2>5, <2>6, <2>8, <3>1, <3>3, TurnMakes
  <2>9. QED
    BY <2>7, <2>8
<1>5. Nat \subseteq Good
  <2> HIDE DEF Good
  <2>1. QED
    BY <1>3, <1>4, CountingUp
<1>6. Made(n)
  BY <1>5
<1>7. QED
  BY <1>2, <1>6

(* The rows in some order. *)
LEMMA EveryRowIsThere ==
    ASSUME NEW S, IsFiniteSet(S), NEW f \in SetToSeqs(S)
    PROVE  /\ Cardinality(S) \in Nat /\ f \in [1 .. Cardinality(S) -> S]
           /\ RowsTo(f, Cardinality(S)) = S
<1> DEFINE n == Cardinality(S)
<1>1. n \in Nat
  BY FS_CardinalityType
<1>2. f \in [1 .. n -> S] /\ \A i, j \in 1 .. n : i # j => f[i] # f[j]
  BY DEF SetToSeqs
<1>3. f \in Injection(1 .. n, S)
  BY <1>2 DEF Injection, IsInjective
<1>4. Cardinality(1 .. n) = n
  BY <1>1, FS_Interval
<1>5. f \in Surjection(1 .. n, S)
  BY <1>3, <1>4, FS_Injection
<1>6. QED
  BY <1>1, <1>2, <1>5 DEF RowsTo, Surjection

(* The slice of nonce groups is what PayoutDB has by nonce.                *)
LEMMA SliceIsMap ==
    ASSUME NEW groups, GroupsOf(Rows!PendingRows, groups)
    PROVE  {<<groups[i].nonce, [group |-> groups[i].group, txs |-> groups[i].txs]>> :
               i \in DOMAIN groups}
             = {<<n, Rows!NonceGroupsFromRows[n]>> : n \in DOMAIN Rows!NonceGroupsFromRows}
<1> DEFINE P == Rows!PendingRows
           nonces == {t.nonce : t \in P}
           map == Rows!NonceGroupsFromRows
<1>1. DOMAIN groups = 1 .. Len(groups)
  BY DEF GroupsOf
<1>2. DOMAIN map = nonces
  BY DEF Rows!NonceGroupsFromRows
<1>3. ASSUME NEW i \in DOMAIN groups
      PROVE  /\ groups[i].nonce \in nonces
             /\ map[groups[i].nonce] = [group |-> groups[i].group, txs |-> groups[i].txs]
  <2> DEFINE txs == {t \in P : t.nonce = groups[i].nonce}
  <2>1. /\ groups[i].txs = txs /\ txs # {}
        /\ \A t \in txs : t.group = groups[i].group
    BY <1>1 DEF GroupsOf
  <2>2. groups[i].nonce \in nonces
    BY <2>1
  <2>3. map[groups[i].nonce] = [group |-> (CHOOSE t \in txs : TRUE).group, txs |-> txs]
    BY <2>2 DEF Rows!NonceGroupsFromRows
  <2>4. (CHOOSE t \in txs : TRUE) \in txs
    <3> HIDE DEF txs
    <3>1. QED
      BY <2>1
  <2>5. (CHOOSE t \in txs : TRUE).group = groups[i].group
    <3> HIDE DEF txs
    <3>1. QED
      BY <2>1, <2>4
  <2>6. QED
    BY <2>1, <2>2, <2>3, <2>5
<1>4. ASSUME NEW n \in nonces PROVE \E i \in DOMAIN groups : groups[i].nonce = n
  BY <1>1, <1>4 DEF GroupsOf
<1> HIDE DEF map, nonces
<1>5. {<<groups[i].nonce, [group |-> groups[i].group, txs |-> groups[i].txs]>> :
          i \in DOMAIN groups} = {<<n, map[n]>> : n \in nonces}
  <2> DEFINE Entry(i) == <<groups[i].nonce, [group |-> groups[i].group, txs |-> groups[i].txs]>>
             slice == {Entry(i) : i \in DOMAIN groups}
             entries == {<<n, map[n]>> : n \in nonces}
  <2>1. \A i \in DOMAIN groups : Entry(i) \in entries
    BY <1>3
  <2>2. \A n \in nonces : \E i \in DOMAIN groups : <<n, map[n]>> = Entry(i)
    BY <1>3, <1>4
  <2>3. slice \subseteq entries
    <3> HIDE DEF Entry, entries
    <3>1. QED
      BY <2>1
  <2>4. entries \subseteq slice
    <3> HIDE DEF Entry
    <3>1. QED
      BY <2>2
  <2>5. slice = entries
    <3> HIDE DEF slice, entries
    <3>1. QED
      BY <2>3, <2>4
  <2>6. QED
    BY <2>5
<1>6. QED
  BY <1>2, <1>5 DEF map

PendingFinite == IsFiniteSet(Rows!PendingRows)

LEMMA StoreKeepsPendingFinite ==
    ASSUME PendingFinite, [Store!StoreNext]_(Store!storeVars)
    PROVE  PendingFinite'
<1> DEFINE P == Rows!PendingRows
<1>1. P = {t \in Txs : disk.tx[t] = TxPending} /\ P' = {t \in Txs : disk'.tx[t] = TxPending}
  BY DEF Rows!PendingRows, Rows!Txs, Txs, Rows!Nonces, Nonces, Rows!TxPending, TxPending
<1>2. Store!Txs = Txs /\ Store!TxPending = TxPending
  BY DEF Store!Txs, Txs, Store!Nonces, Nonces, Store!TxPending, TxPending
<1>3. \E t : P' \subseteq P \union {t}
  <2>1. CASE disk'.tx = disk.tx
    BY <1>1, <2>1
  <2>2. ASSUME NEW t \in Txs, Store!CreateTransaction(t) PROVE P' \subseteq P \union {t}
    BY <1>1, <2>2 DEF Store!CreateTransaction
  <2>3. ASSUME NEW t \in Txs, NEW state \in {TxConfirmed, TxFailed},
               Store!FinalizeNonceGroup(t.group, Store!Settled(t, state))
        PROVE  P' \subseteq P
    <3>1. \A u \in DOMAIN Store!Settled(t, state) : Store!Settled(t, state)[u] # TxPending
      BY DEF Store!Settled, TxConfirmed, TxFailed, TxPending, Store!TxDropped
    <3>2. \A u \in Txs : disk'.tx[u] = IF u \in DOMAIN Store!Settled(t, state)
                                       THEN Store!Settled(t, state)[u] ELSE disk.tx[u]
      BY <1>2, <2>3 DEF Store!FinalizeNonceGroup
    <3>3. QED
      BY <1>1, <3>1, <3>2
  <2>4. QED
    BY <1>2, <2>1, <2>2, <2>3 DEF Store!StoreNext, Store!storeVars, Store!dbVars,
       Store!TxConfirmed, TxConfirmed, Store!TxFailed, TxFailed
<1>4. IsFiniteSet(P')
  <2>1. PICK t : P' \subseteq P \union {t}
    BY <1>3
  <2>2. IsFiniteSet(P \union {t})
    BY FS_AddElement DEF PendingFinite
  <2>3. QED
    BY <2>1, <2>2, FS_Subset
<1>5. QED
  BY <1>4 DEF PendingFinite

(* The loop that loads the pending rows makes the nonce groups of          *)
(* PayoutDB, ordered by nonce, in whatever order SQLite returns the rows   *)
(* of one nonce, or fails because two payout groups have one of them.      *)
THEOREM LoadingMakesTheGroups == TablesSpec => []LoadsNonceGroups
<1>1. TablesInit => PendingFinite
  <2>1. SUFFICES ASSUME TablesInit PROVE Rows!PendingRows = {}
    BY FS_EmptySet DEF PendingFinite
  <2>2. QED
    BY <2>1 DEF TablesInit, NoRows, Rows!PendingRows, Rows!Txs, Txs, Rows!Nonces, Nonces,
       Rows!TxPending
<1>2. PendingFinite => LoadsNonceGroups
  <2>1. SUFFICES ASSUME PendingFinite,
                        NEW sorted \in All_Transaction_By_State_OrderBy_Asc_Nonce(disk)
                 PROVE  LET groups == NonceGroupsOf(sorted)
                        IN  IF Rows!LoadConsistent
                            THEN /\ {<<groups[i].nonce,
                                       [group |-> groups[i].group, txs |-> groups[i].txs]>> :
                                        i \in DOMAIN groups}
                                      = {<<n, Rows!NonceGroupsFromRows[n]>> :
                                            n \in DOMAIN Rows!NonceGroupsFromRows}
                                 /\ \A i, j \in DOMAIN groups :
                                       i < j => groups[i].nonce < groups[j].nonce
                            ELSE groups = <<>>
    BY DEF LoadsNonceGroups
  <2> DEFINE P == Rows!PendingRows
             n == Cardinality(P)
  <2>2. P = {t \in Txs : disk.tx[t] = TxPending} /\ P \subseteq Txs /\ IsFiniteSet(P)
    BY <2>1 DEF PendingFinite, Rows!PendingRows, Rows!Txs, Txs, Rows!Nonces, Nonces,
       Rows!TxPending, TxPending
  <2>3. sorted \in SetToSeqs(P) /\ \A i, j \in DOMAIN sorted : i < j => sorted[i].nonce <= sorted[j].nonce
    BY <2>2 DEF All_Transaction_By_State_OrderBy_Asc_Nonce
  <2> HIDE DEF P
  <2>4. n \in Nat /\ sorted \in [1 .. n -> P] /\ RowsTo(sorted, n) = P
    BY <2>2, <2>3, EveryRowIsThere
  <2>5. sorted \in [1 .. n -> Txs] /\ DOMAIN sorted = 1 .. n
    BY <2>2, <2>4
  <2>6. IF Fits(P) THEN GroupsOf(P, NonceGroupsOf(sorted)) ELSE NonceGroupsOf(sorted) = <<>>
    <3> HIDE DEF n
    <3>1. QED
      BY <2>3, <2>4, <2>5, LoopMakesTheGroups
  <2>7. Rows!LoadConsistent <=> Fits(P)
    BY DEF Rows!LoadConsistent, Fits, P
  <2>8. CASE Fits(P)
    <3>1. GroupsOf(Rows!PendingRows, NonceGroupsOf(sorted))
      BY <2>6, <2>8 DEF P
    <3>2. DOMAIN NonceGroupsOf(sorted) = 1 .. Len(NonceGroupsOf(sorted))
      BY <3>1 DEF GroupsOf
    <3>3. \A i, j \in DOMAIN NonceGroupsOf(sorted) :
            i < j => NonceGroupsOf(sorted)[i].nonce < NonceGroupsOf(sorted)[j].nonce
      BY <3>1, <3>2 DEF GroupsOf
    <3>4. QED
      BY <2>7, <2>8, <3>1, <3>3, SliceIsMap
  <2>9. CASE ~Fits(P)
    BY <2>6, <2>7, <2>9
  <2>10. QED
    BY <2>8, <2>9
<1>3. PendingFinite /\ [Store!StoreNext]_(Store!storeVars) => PendingFinite'
  BY StoreKeepsPendingFinite
<1>4. QED
  BY <1>1, <1>2, <1>3, TablesImplementStore, PTL DEF TablesSpec, ImplementsStore, Store!StoreSpec
==============================================================================
