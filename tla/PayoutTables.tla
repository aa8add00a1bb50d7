----------------------------- MODULE PayoutTables -----------------------------
(***************************************************************************)
(* The payout database as SQLite and the generated code run it: a call of  *)
(* pkg/pipelinedb is several SQL statements, inside a transaction or not,  *)
(* any of which may fail, the process may be killed between two of them,   *)
(* and other commands may have the file open or try to write to it.        *)
(*                                                                         *)
(* place of a command:                                                     *)
(*   "closed"    does not have the file open                               *)
(*   "ready"     has it open, between two calls                            *)
(*   "group", "payouts"    in CreatePayoutGroup                            *)
(*   "insert", "read back" in CreateTransaction                            *)
(*   "statuses", "attach"  in FinalizeNonceGroup                           *)
(*   "commit"    in WithTx, every statement done                           *)
(*   "reading"   in a call that reads                                      *)
(***************************************************************************)
EXTENDS Transactions, SequencesExt

CONSTANTS
    Commands,   \* processes at this database
    Nobody,     \* no process
    Lines,      \* the payouts of a payout group
    MaxCalls    \* bound: calls made

ASSUME TablesAssumption ==
    /\ Lines \subseteq Nat
    /\ MaxCalls \in Nat
    /\ Nobody \notin Commands

VARIABLES
    disk,    \* the committed tables
    lock,    \* the process that has the file for itself: it has written to it
    place,   \* see above
    call,    \* the call a command is in
    work,    \* the tables as its SQL transaction has them
    left,    \* the statements still to do: csv lines or transactions
    seen,    \* what its queries have returned
    reply,   \* what its last call returned
    before,  \* history: the tables when its call began
    calls    \* calls so far

tableVars == <<disk, lock, place, call, work, left, seen, reply, before, calls>>

RowState == {"none"} \union TxStates

(* The tables payout_group (with final_tx_hash), payout and tx. *)
Tables == [group : SUBSET Groups, payout : SUBSET (Groups \X Lines),
           tx : [Txs -> RowState], final : [Groups -> Txs \union {NoTx}]]

NoRows == [group |-> {}, payout |-> {}, tx |-> [t \in Txs |-> "none"],
           final |-> [g \in Groups |-> NoTx]]

NoCall == [op |-> "none"]

(* The states a check found for a nonce group of the database. *)
Statuses(db, t, state) ==
    [u \in {u \in Txs : db.tx[u] = TxPending /\ u.nonce = t.nonce /\ u.group = t.group} |->
        IF u = t THEN state ELSE TxDropped]

Confirmed(statuses) == {t \in DOMAIN statuses : statuses[t] = TxConfirmed}

------------------------------------------------------------------------------
(* The generated queries *)

All_Payout(db) == db.payout
All_Payout_By_PayoutGroupId(db, g) == {r \in db.payout : r[1] = g}
All_Payout_By_PayoutGroup_FinalTxHash_Is_Null(db) ==
    {r \in db.payout : db.final[r[1]] = NoTx}
Count_Payout_By_PayoutGroupId(db, g) == Cardinality({r \in db.payout : r[1] = g})
Count_PayoutGroup(db) == Cardinality(db.group)
Count_PayoutGroup_By_FinalTxHash_Is_Null(db) ==
    Cardinality({g \in db.group : db.final[g] = NoTx})
CountUnfinishedUnattachedPayoutGroup(db) ==
    Cardinality({g \in db.group :
        /\ db.final[g] = NoTx
        /\ \A t \in Txs : t.group = g => db.tx[t] # TxPending})
Find_PayoutGroup_By_Id(db, g) == IF g \in db.group THEN db.final[g] ELSE "no such row"
All_Transaction(db) == {<<t, db.tx[t]>> : t \in {t \in Txs : db.tx[t] # "none"}}
All_Transaction_By_PayoutGroupId(db, g) == {r \in All_Transaction(db) : r[1].group = g}
Count_Transaction(db) == Cardinality(All_Transaction(db))
Count_Transaction_By_State(db, s) == Cardinality({t \in Txs : db.tx[t] = s})

Query(q, db) ==
    CASE q[1] = "payouts"               -> All_Payout(db)
      [] q[1] = "pending payouts"       -> All_Payout_By_PayoutGroup_FinalTxHash_Is_Null(db)
      [] q[1] = "its payouts"           -> All_Payout_By_PayoutGroupId(db, q[2])
      [] q[1] = "payouts of group"      -> Count_Payout_By_PayoutGroupId(db, q[2])
      [] q[1] = "groups"                -> Count_PayoutGroup(db)
      [] q[1] = "pending groups"        -> Count_PayoutGroup_By_FinalTxHash_Is_Null(db)
      [] q[1] = "unattached groups"     -> CountUnfinishedUnattachedPayoutGroup(db)
      [] q[1] = "group"                 -> Find_PayoutGroup_By_Id(db, q[2])
      [] q[1] = "transactions"          -> All_Transaction(db)
      [] q[1] = "transactions of group" -> All_Transaction_By_PayoutGroupId(db, q[2])
      [] q[1] = "all transactions"      -> Count_Transaction(db)
      [] q[1] = "transactions that are" -> Count_Transaction_By_State(db, q[2])

ReadCalls ==
    {"initPayout", "sendTransaction", "Stats", "FetchPayoutProgress", "Audit", "printFileStat",
     "doPayerTransfer"}

(* For every payout group what kinds asks of it. *)
OfEachGroup(kinds) ==
    LET groups == SetToSeq(Groups)
    IN  FoldSeq(LAMBDA g, queries : queries \o [i \in DOMAIN kinds |-> <<kinds[i], g>>],
                <<>>, groups)

(* The queries of a call, or of a command, that reads: one after the      *)
(* other, outside any SQL transaction.                                     *)
initPayout == << <<"transactions that are", TxPending>>, <<"unattached groups">> >>
SendReads == OfEachGroup(<<"its payouts">>)
Stats == << <<"payouts">>, <<"pending payouts">>, <<"groups">>, <<"pending groups">>,
            <<"all transactions">>,
            <<"transactions that are", TxPending>>, <<"transactions that are", TxFailed>>,
            <<"transactions that are", TxConfirmed>>, <<"transactions that are", TxDropped>> >>
FetchPayoutProgress == << <<"groups">>, <<"pending groups">> >>
AuditReads ==
    << <<"payouts">>, <<"transactions">> >>
      \o OfEachGroup(<<"payouts of group", "transactions of group">>)
printFileStat == << <<"payouts">>, <<"transactions">> >>
TransferReads == << <<"payouts">> >> \o OfEachGroup(<<"group">>)

Queries(op) ==
    CASE op = "initPayout"          -> initPayout
      [] op = "sendTransaction"     -> SendReads
      [] op = "Stats"               -> Stats
      [] op = "FetchPayoutProgress" -> FetchPayoutProgress
      [] op = "Audit"               -> AuditReads
      [] op = "printFileStat"       -> printFileStat
      [] op = "doPayerTransfer"     -> TransferReads

(* The pending rows ORDER BY nonce: rows of one nonce in any order. *)
All_Transaction_By_State_OrderBy_Asc_Nonce(db) ==
    {s \in SetToSeqs({t \in Txs : db.tx[t] = TxPending}) :
        \A i, j \in DOMAIN s : i < j => s[i].nonce <= s[j].nonce}

(* Mutant: a row opens a new nonce group unless it equals the one before. *)
AddEachRow(groups, t) ==
    groups \o <<[nonce |-> t.nonce, group |-> t.group, txs |-> {t}]>>

(* One turn of the loop that makes nonce groups of the sorted rows; an     *)
(* inconsistent row ends the loading.                                      *)
AddRow(groups, t) ==
    IF groups # <<>> /\ Last(groups).nonce = t.nonce
    THEN IF Last(groups).group = t.group
         THEN [groups EXCEPT ![Len(groups)].txs = @ \union {t}]
         ELSE <<>>
    ELSE Append(groups, [nonce |-> t.nonce, group |-> t.group, txs |-> {t}])

(* The nonce groups, or <<>> for an error (pending rows make at least one). *)
NonceGroupsOf(sorted) ==
    LET upTo[i \in 0 .. Len(sorted)] ==
          IF i = 0 THEN <<>>
          ELSE IF i > 1 /\ upTo[i - 1] = <<>> THEN <<>>
          ELSE AddRow(upTo[i - 1], sorted[i])
    IN  upTo[Len(sorted)]

------------------------------------------------------------------------------
TablesInit ==
    /\ disk = NoRows
    /\ lock = Nobody
    /\ place = [c \in Commands |-> "closed"]
    /\ call = [c \in Commands |-> NoCall]
    /\ work = [c \in Commands |-> NoRows]
    /\ left = [c \in Commands |-> {}]
    /\ seen = [c \in Commands |-> <<>>]
    /\ reply = [c \in Commands |-> "none"]
    /\ before = [c \in Commands |-> NoRows]
    /\ calls = 0

(* Whoever has the file open shares it, until one of them writes; then     *)
(* OpenDB fails with "database is locked" for everyone else.               *)
OpenDB(c) ==
    /\ place[c] = "closed"
    /\ lock = Nobody
    /\ place' = [place EXCEPT ![c] = "ready"]
    /\ UNCHANGED <<disk, lock, call, work, left, seen, reply, before, calls>>

CloseDB(c) ==
    /\ place[c] = "ready"
    /\ lock' = Nobody
    /\ place' = [place EXCEPT ![c] = "closed"]
    /\ seen' = [seen EXCEPT ![c] = <<>>]
    /\ reply' = [reply EXCEPT ![c] = "none"]
    /\ UNCHANGED <<disk, call, work, left, before, calls>>

(* Mutant: NORMAL locking mode, the file is free between two transactions. *)
WritesShared(c) == UNCHANGED lock

(* EXCLUSIVE locking mode: the first write takes the file, which nobody    *)
(* else may have open then, and the connection keeps it until it closes.   *)
WritesAlone(c) ==
    /\ \A d \in Commands \ {c} : place[d] = "closed"
    /\ lock' = c

Begin(c, what, where, statements) ==
    /\ place[c] = "ready"
    /\ calls < MaxCalls
    /\ calls' = calls + 1
    /\ call' = [call EXCEPT ![c] = what]
    /\ place' = [place EXCEPT ![c] = where]
    /\ work' = [work EXCEPT ![c] = disk]
    /\ before' = [before EXCEPT ![c] = disk]
    /\ left' = [left EXCEPT ![c] = statements]
    /\ seen' = [seen EXCEPT ![c] = <<>>]
    /\ UNCHANGED <<disk, lock, reply>>

(* The call returns. *)
Answer(c, what) ==
    /\ place' = [place EXCEPT ![c] = "ready"]
    /\ reply' = [reply EXCEPT ![c] = what]
    /\ call' = [call EXCEPT ![c] = NoCall]
    /\ work' = [work EXCEPT ![c] = NoRows]
    /\ before' = [before EXCEPT ![c] = NoRows]
    /\ left' = [left EXCEPT ![c] = {}]
    /\ UNCHANGED <<lock, calls>>

GoOn(c, where) ==
    /\ place' = [place EXCEPT ![c] = where]
    /\ UNCHANGED <<disk, call, seen, reply, before, calls>>

------------------------------------------------------------------------------
(* CreatePayoutGroup, in a SQL transaction *)

BeginCreatePayoutGroup(c, g) ==
    Begin(c, [op |-> "group", group |-> g], "group", Lines)

(* The id is UNIQUE. *)
CreateNoReturn_PayoutGroup(c) ==
    /\ place[c] = "group"
    /\ call[c].group \notin work[c].group
    /\ WritesAlone(c)
    /\ work' = [work EXCEPT ![c].group = @ \union {call[c].group}]
    /\ GoOn(c, IF left[c] = {} THEN "commit" ELSE "payouts")
    /\ UNCHANGED left

CreateNoReturn_Payout(c) ==
    /\ place[c] = "payouts"
    /\ \E line \in left[c] :
         /\ \A l \in left[c] : line <= l
         /\ work' = [work EXCEPT ![c].payout = @ \union {<<call[c].group, line>>}]
         /\ left' = [left EXCEPT ![c] = @ \ {line}]
         /\ GoOn(c, IF left[c] = {line} THEN "commit" ELSE "payouts")
    /\ UNCHANGED lock

------------------------------------------------------------------------------
(* CreateTransaction: an INSERT, committed by itself, and a SELECT *)

BeginCreateTransaction(c, t) ==
    /\ t.group \in disk.group
    /\ Begin(c, [op |-> "transaction", tx |-> t], "insert", {})

(* The hash is UNIQUE. *)
Create_Transaction(c) ==
    /\ place[c] = "insert"
    /\ disk.tx[call[c].tx] = "none"
    /\ WritesAlone(c)
    /\ disk' = [disk EXCEPT !.tx[call[c].tx] = TxPending]
    /\ place' = [place EXCEPT ![c] = "read back"]
    /\ UNCHANGED <<call, work, left, seen, reply, before, calls>>

getLastTransaction(c) ==
    /\ place[c] = "read back"
    /\ Answer(c, "ok")
    /\ UNCHANGED <<disk, seen>>

------------------------------------------------------------------------------
(* FinalizeNonceGroup, in a SQL transaction *)

BeginFinalizeNonceGroup(c, t, state) ==
    /\ disk.tx[t] = TxPending
    /\ LET statuses == Statuses(disk, t, state)
       IN  Begin(c, [op |-> "finalize", group |-> t.group, statuses |-> statuses],
                 "statuses", DOMAIN statuses)

(* Any row of the nonce group may be the next; a row that is confirmed is  *)
(* attached to the payout group by the next statement.                     *)
UpdateNoReturn_Transaction_By_Hash(c) ==
    /\ place[c] = "statuses"
    /\ WritesAlone(c)
    /\ \E t \in left[c] :
         /\ work' = [work EXCEPT ![c].tx[t] = call[c].statuses[t]]
         /\ left' = [left EXCEPT ![c] = @ \ {t}]
         /\ GoOn(c, CASE call[c].statuses[t] = TxConfirmed -> "attach"
                      [] call[c].statuses[t] # TxConfirmed /\ left[c] = {t} -> "commit"
                      [] OTHER -> "statuses")

UpdateNoReturn_PayoutGroup_By_Id(c) ==
    /\ place[c] = "attach"
    /\ work' = [work EXCEPT ![c].final[call[c].group] =
                  CHOOSE t \in Confirmed(call[c].statuses) : TRUE]
    /\ GoOn(c, IF left[c] = {} THEN "commit" ELSE "statuses")
    /\ UNCHANGED <<left, lock>>

------------------------------------------------------------------------------
(* The calls that read *)

BeginReading(c, op) == Begin(c, [op |-> op], "reading", {})

Read(c) ==
    /\ place[c] = "reading"
    /\ Len(seen[c]) < Len(Queries(call[c].op))
    /\ seen' = [seen EXCEPT ![c] = Append(@, Query(Queries(call[c].op)[Len(@) + 1], disk))]
    /\ UNCHANGED <<disk, lock, place, call, work, left, reply, before, calls>>

HasRead(c) ==
    /\ place[c] = "reading"
    /\ Len(seen[c]) = Len(Queries(call[c].op))
    /\ Answer(c, "ok")
    /\ UNCHANGED <<disk, seen>>

------------------------------------------------------------------------------
(* Mutants: what a failed transaction did is committed; the deferred       *)
(* commit is forgotten.                                                    *)
FailAndCommit(c) ==
    /\ place[c] \notin {"closed", "ready"}
    /\ disk' = IF call[c].op = "transaction" THEN disk ELSE work[c]
    /\ Answer(c, "error")
    /\ seen' = [seen EXCEPT ![c] = <<>>]

NeverCommit(c) ==
    /\ place[c] = "commit"
    /\ Answer(c, "ok")
    /\ UNCHANGED <<disk, seen>>

(* WithTx commits when no statement failed. *)
WithTx(c) ==
    /\ place[c] = "commit"
    /\ disk' = work[c]
    /\ Answer(c, "ok")
    /\ UNCHANGED seen

(* A statement, or the commit itself, fails (a constraint, the disk, the   *)
(* context): the transaction is rolled back.                               *)
Fail(c) ==
    /\ place[c] \notin {"closed", "ready"}
    /\ Answer(c, "error")
    /\ seen' = [seen EXCEPT ![c] = <<>>]
    /\ UNCHANGED disk

(* The process dies; the system frees the lock and SQLite ignores what was *)
(* not committed.                                                          *)
Killed(c) ==
    /\ place[c] # "closed"
    /\ place' = [place EXCEPT ![c] = "closed"]
    /\ lock' = Nobody
    /\ call' = [call EXCEPT ![c] = NoCall]
    /\ work' = [work EXCEPT ![c] = NoRows]
    /\ before' = [before EXCEPT ![c] = NoRows]
    /\ left' = [left EXCEPT ![c] = {}]
    /\ seen' = [seen EXCEPT ![c] = <<>>]
    /\ reply' = [reply EXCEPT ![c] = "none"]
    /\ UNCHANGED <<disk, calls>>

Calls(c) ==
    \/ \E g \in Groups : BeginCreatePayoutGroup(c, g)
    \/ \E t \in Txs : BeginCreateTransaction(c, t)
    \/ \E t \in Txs, state \in {TxConfirmed, TxFailed} : BeginFinalizeNonceGroup(c, t, state)
    \/ \E op \in ReadCalls : BeginReading(c, op)

Statements(c) ==
    \/ CreateNoReturn_PayoutGroup(c)
    \/ CreateNoReturn_Payout(c)
    \/ Create_Transaction(c)
    \/ getLastTransaction(c)
    \/ UpdateNoReturn_Transaction_By_Hash(c)
    \/ UpdateNoReturn_PayoutGroup_By_Id(c)
    \/ Read(c)
    \/ HasRead(c)
    \/ WithTx(c)

TablesNext ==
    \E c \in Commands :
        OpenDB(c) \/ CloseDB(c) \/ Calls(c) \/ Statements(c) \/ Fail(c) \/ Killed(c)

TablesSpec == TablesInit /\ [][TablesNext]_tableVars

------------------------------------------------------------------------------
TablesTypeOK ==
    /\ disk \in Tables
    /\ lock \in Commands \union {Nobody}
    /\ place \in [Commands -> {"closed", "ready", "group", "payouts", "insert", "read back",
                               "statuses", "attach", "commit", "reading"}]
    /\ DOMAIN call = Commands /\ DOMAIN left = Commands /\ DOMAIN seen = Commands
    /\ work \in [Commands -> Tables]
    /\ before \in [Commands -> Tables]
    /\ reply \in [Commands -> {"none", "ok", "error"}]
    /\ calls \in Nat

Store == INSTANCE PayoutStore WITH
    rows     <- disk.tx,
    final    <- disk.final,
    imported <- disk.group

Rows == INSTANCE PayoutDB WITH rows <- disk.tx, final <- disk.final

(* Every committed write is one of the store's two, entire, or a payout    *)
(* group with its payouts: what Pipeline assumes of the database.          *)
ImplementsStore == Store!StoreSpec

(* What a call does to the tables when all of it is done. *)
Effect(what, db) ==
    CASE what.op = "group" ->
           [db EXCEPT !.group = @ \union {what.group},
                      !.payout = @ \union ({what.group} \X Lines)]
      [] what.op = "transaction" ->
           [db EXCEPT !.tx[what.tx] = TxPending]
      [] what.op = "finalize" ->
           [group |-> db.group,
            payout |-> db.payout,
            tx |-> [t \in Txs |->
                      IF t \in DOMAIN what.statuses THEN what.statuses[t] ELSE db.tx[t]],
            final |-> IF Confirmed(what.statuses) = {} THEN db.final
                      ELSE [db.final EXCEPT ![what.group] =
                              CHOOSE t \in Confirmed(what.statuses) : TRUE]]
      [] OTHER -> db

(* The inductive invariant: who has written has the file for itself, so    *)
(* while anyone is in a call the tables are still the ones the call began  *)
(* with; the copy of a SQL transaction has exactly the statements that are *)
(* done.                                                                   *)
LockInv ==
    \A c \in Commands :
        lock = c => place[c] # "closed" /\ \A d \in Commands \ {c} : place[d] = "closed"

InGroup(c) ==
    /\ call[c].op = "group" /\ call[c].group \in Groups
    /\ left[c] \subseteq Lines
    /\ work[c].tx = disk.tx /\ work[c].final = disk.final
    /\ place[c] = "group" =>
         left[c] = Lines /\ work[c].group = disk.group /\ work[c].payout = disk.payout
    /\ place[c] # "group" =>
         /\ call[c].group \notin disk.group
         /\ work[c].group = disk.group \union {call[c].group}
         /\ work[c].payout = disk.payout \union ({call[c].group} \X (Lines \ left[c]))

InTransaction(c) ==
    /\ call[c].op = "transaction"
    /\ call[c].tx \in Txs /\ call[c].tx.group \in disk.group

InFinalize(c) ==
    /\ call[c].op = "finalize"
    /\ \E t \in Txs, state \in {TxConfirmed, TxFailed} :
          /\ disk.tx[t] = TxPending
          /\ call[c].group = t.group
          /\ call[c].statuses = Statuses(disk, t, state)
    /\ left[c] \subseteq DOMAIN call[c].statuses
    /\ work[c].group = disk.group /\ work[c].payout = disk.payout
    /\ work[c].tx = [t \in Txs |-> IF t \in (DOMAIN call[c].statuses) \ left[c]
                                   THEN call[c].statuses[t] ELSE disk.tx[t]]
    /\ work[c].final =
         IF Confirmed(call[c].statuses) \ left[c] = {} \/ place[c] = "attach"
         THEN disk.final
         ELSE [disk.final EXCEPT ![call[c].group] =
                 CHOOSE t \in Confirmed(call[c].statuses) : TRUE]
    /\ place[c] = "attach" => Confirmed(call[c].statuses) \ left[c] # {}

Done(c) == disk = Effect(call[c], before[c])

CallInv(c) ==
    /\ place[c] \in {"payouts", "read back", "attach", "commit"} => lock = c
    /\ place[c] \in {"group", "payouts"} => InGroup(c)
    /\ place[c] \in {"insert", "read back"} => InTransaction(c)
    /\ place[c] \in {"statuses", "attach"} => InFinalize(c)
    /\ place[c] = "commit" => left[c] = {} /\ (InGroup(c) \/ InFinalize(c))
    /\ place[c] = "reading" => call[c].op \in ReadCalls
    /\ place[c] = "read back" => Done(c)
    /\ place[c] \in {"group", "payouts", "insert", "statuses", "attach", "commit", "reading"} =>
         before[c] = disk

(* Every payout belongs to a payout group, and a payout group has all its  *)
(* payouts, whoever was killed while creating it.                          *)
GroupsAreWhole == disk.payout = disk.group \X Lines

TablesInv == TablesTypeOK /\ GroupsAreWhole /\ LockInv /\ \A c \in Commands : CallInv(c)

(* A call that returns nil has done all it is for to the tables it was     *)
(* called with, and a call that returns an error nothing, but for a        *)
(* transaction whose row was inserted and could not be read back.          *)
Answers(c) ==
    place[c] \notin {"closed", "ready"} /\ place'[c] = "ready" =>
        \/ disk' = Effect(call[c], before[c])
        \/ reply'[c] = "error" /\ disk' = before[c]

EveryAnswer == \A c \in Commands : Answers(c)

AnswersAreTrue == [][EveryAnswer]_tableVars

(* The numbers of one Stats, one audit, one progress line fit together,    *)
(* although many statements read them, whatever other commands want of the *)
(* file meanwhile: all are answers to one state of the tables.             *)
ReadsAgree ==
    \A c \in Commands : place[c] = "reading" =>
        \A i \in DOMAIN seen[c] : seen[c][i] = Query(Queries(call[c].op)[i], before[c])

(* The loop that loads the pending rows makes the nonce groups that        *)
(* PayoutDB defines, in the order of their nonces, whatever the order      *)
(* SQLite returns the rows of one nonce in; it fails exactly when two      *)
(* payout groups have a pending row of one nonce.                          *)
LoadsNonceGroups ==
    \A sorted \in All_Transaction_By_State_OrderBy_Asc_Nonce(disk) :
        LET groups == NonceGroupsOf(sorted)
        IN  IF Rows!LoadConsistent
            THEN /\ {<<groups[i].nonce, [group |-> groups[i].group, txs |-> groups[i].txs]>> :
                        i \in DOMAIN groups}
                      = {<<n, Rows!NonceGroupsFromRows[n]>> :
                            n \in DOMAIN Rows!NonceGroupsFromRows}
                 /\ \A i, j \in DOMAIN groups : i < j => groups[i].nonce < groups[j].nonce
            ELSE groups = <<>>
==============================================================================
