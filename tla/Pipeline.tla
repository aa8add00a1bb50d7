------------------------------ MODULE Pipeline ------------------------------
(***************************************************************************)
(* pkg/pipeline: the process that pays every payout group of a database    *)
(* exactly once, driving a payer and recording in the database.            *)
(*                                                                         *)
(* One action per stretch of code between two calls to the outside (node,  *)
(* quoter, database write), so the chain moves, and the process may die,   *)
(* at every such point.  pc says where ProcessPayouts is:                  *)
(*   "stopped"  not running                                                *)
(*   "check"    in checkNonceGroups, asking about the group at cursor      *)
(*   "checked"  past the loop of checkNonceGroups                          *)
(*   "step"     between two payoutSteps (the poll interval)                *)
(*   "fill"     in payoutStep's loop that fills up the pipeline            *)
(*   "create"   in sendTransaction, before the row is recorded             *)
(*   "send"     in sendTransaction, row recorded, transaction not sent     *)
(***************************************************************************)
EXTENDS PayoutDB, Payer

CONSTANTS
    Limit,      \* Config.Limit: nonce groups in flight
    Drains,     \* the values --drain may have, run by run
    Lag,        \* nodes lag on: "none", "fresh" (only new ones), "any"
    MaxAborts   \* bound: runs cut short by a crash, a signal or an RPC error

ASSUME PipelineAssumption ==
    /\ Limit \in Nat \ {0}
    /\ Drains \subseteq BOOLEAN
    /\ Lag \in {"none", "fresh", "any"}
    /\ MaxAborts \in Nat

VARIABLES
    pc,            \* see above
    spender,       \* the payer's account in this run
    drain,         \* Config.Drain of this run
    nonceGroups,   \* Pipeline.nonceGroups
    cursor,        \* nonce of the group checkNonceGroups is at
    statuses,      \* states gathered so far for that group
    failed,        \* failedCount > 0
    target,        \* what sendTransaction is paying: group and nonce
    inflight,      \* the transaction recorded and not yet sent
    expectedNonce, \* Pipeline.expectedNonce
    result,        \* how the last run of ProcessPayouts ended
    fresh,         \* transactions recorded less than notDroppedUntil ago
    aborts         \* runs cut short so far

runVars == <<spender, drain, nonceGroups, cursor, statuses, failed, target,
             inflight, expectedNonce>>
vars == <<chainVars, dbVars, pc, runVars, result, fresh, aborts>>

PCs == {"stopped", "check", "checked", "step", "fill", "create", "send"}
Results == {"none", "done", "drained", "failed", "hash", "nonce",
            "load", "payer", "amount", "short", "aborted"}
NonceGroups == [group : Groups, txs : SUBSET Txs]

NoTarget == [group |-> NoTx, nonce |-> 0]
Nothing == [x \in {} |-> x]

TypeOK ==
    /\ ChainTypeOK
    /\ DBTypeOK
    /\ pc \in PCs
    /\ spender \in Spenders
    /\ drain \in BOOLEAN
    /\ DOMAIN nonceGroups \in SUBSET Nonces
    /\ nonceGroups \in [DOMAIN nonceGroups -> NonceGroups]
    /\ cursor \in Nonces
    /\ pc = "check" => cursor \in DOMAIN nonceGroups
    /\ DOMAIN statuses \in SUBSET Txs
    /\ statuses \in [DOMAIN statuses -> TxStates]
    /\ failed \in BOOLEAN
    /\ target \in [group : Groups, nonce : Nonces] \union {NoTarget}
    /\ pc \in {"create", "send"} => target \in [group : Groups, nonce : Nonces]
    /\ inflight \in Txs \union {NoTx}
    /\ pc = "send" => inflight \in Txs
    /\ expectedNonce \in Nat
    /\ result \in Results
    /\ fresh \in SUBSET Txs
    /\ aborts \in Nat

(* The memory of a process that is not running; kept in one shape so that *)
(* two stopped states differ only in what survives.                        *)
MemoryCleared ==
    /\ nonceGroups' = Nothing
    /\ cursor' = 0
    /\ statuses' = Nothing
    /\ failed' = FALSE
    /\ target' = NoTarget
    /\ inflight' = NoTx
    /\ expectedNonce' = 0
    /\ UNCHANGED <<spender, drain>>

Init ==
    /\ ChainInit
    /\ DBInit
    /\ pc = "stopped"
    /\ spender \in Spenders
    /\ drain \in Drains
    /\ nonceGroups = Nothing
    /\ cursor = 0
    /\ statuses = Nothing
    /\ failed = FALSE
    /\ target = NoTarget
    /\ inflight = NoTx
    /\ expectedNonce = 0
    /\ result = "none"
    /\ fresh = {}
    /\ aborts = 0

(* ProcessPayouts returns. *)
Return(why) ==
    /\ pc' = "stopped"
    /\ result' = why
    /\ MemoryCleared
    /\ UNCHANGED aborts

------------------------------------------------------------------------------
(* checkNonceGroups is at the lowest nonce of ns, or past the last group. *)
CheckFrom(ns) ==
    /\ statuses' = Nothing
    /\ IF ns = {}
       THEN /\ pc' = "checked"
            /\ cursor' = 0
       ELSE /\ pc' = "check"
            /\ \E n \in ns : (\A m \in ns : n <= m) /\ cursor' = n

(* New and initPayout: load the pending rows, then start checking them. *)
Start(s, d) ==
    /\ pc = "stopped"
    /\ spender' = s
    /\ drain' = d
    /\ IF LoadConsistent
       THEN /\ nonceGroups' = NonceGroupsFromRows
            /\ CheckFrom(DOMAIN nonceGroups')
            /\ result' = "none"
       ELSE /\ result' = "load"
            /\ UNCHANGED <<pc, nonceGroups, cursor, statuses>>
    /\ UNCHANGED <<chainVars, dbVars, failed, target, inflight, expectedNonce,
                   fresh, aborts>>

------------------------------------------------------------------------------
(* checkNonceGroups *)

Unasked == nonceGroups[cursor].txs \ DOMAIN statuses

(* A node lags for good, or only while the transaction is new. *)
Lags(t) == Lag = "any" \/ (Lag = "fresh" /\ t \in fresh)

(* One query of getNonceGroupTxStatus, or of the zkSync receipt. *)
Query(t, state) ==
    /\ pc = "check"
    /\ t \in Unasked
    /\ state \in StatusAnswers(t, Lags(t))
    /\ statuses' = [u \in DOMAIN statuses \union {t} |->
                      IF u = t THEN state ELSE statuses[u]]
    /\ UNCHANGED <<chainVars, dbVars, pc, spender, drain, nonceGroups, cursor,
                   failed, target, inflight, expectedNonce, result, fresh, aborts>>

(* Mutant: the payer is never told that an earlier group failed. *)
CheckAndResend == FALSE

(* All states are in: what CheckNonceGroup returns.  It is told to check   *)
(* only, once an earlier group has failed.                                 *)
CheckOnly == failed

Checked(verdict) ==
    /\ pc = "check"
    /\ Unasked = {}
    /\ Verdict(statuses, CheckOnly) = verdict

CheckError ==
    /\ Checked("error")
    /\ Return("payer")
    /\ UNCHANGED <<chainVars, dbVars, fresh>>

(* Leave the loop without looking at the remaining groups. *)
BreakCheckLoop ==
    /\ CheckFrom({})
    /\ UNCHANGED <<chainVars, dbVars, spender, drain, nonceGroups, failed, target,
                   inflight, expectedNonce, result, fresh, aborts>>

(* Mutant: a pending group is skipped and the later ones are looked at. *)
CheckPendingGoesOn ==
    /\ Checked(TxPending)
    /\ CheckFrom({n \in DOMAIN nonceGroups : n > cursor})
    /\ UNCHANGED <<chainVars, dbVars, spender, drain, nonceGroups, failed, target,
                   inflight, expectedNonce, result, fresh, aborts>>

CheckPending ==
    /\ Checked(TxPending)
    /\ BreakCheckLoop

(* youngestTransactionTime is less than notDroppedUntil ago. *)
TooYoung(txs) == txs \intersect fresh # {}

CheckDroppedTooYoung ==
    /\ Checked(TxDropped)
    /\ TooYoung(nonceGroups[cursor].txs)
    /\ BreakCheckLoop

(* Send another transaction for this nonce group. *)
CheckDropped ==
    /\ Checked(TxDropped)
    /\ ~TooYoung(nonceGroups[cursor].txs)
    /\ pc' = "create"
    /\ target' = [group |-> nonceGroups[cursor].group, nonce |-> cursor]
    /\ statuses' = Nothing
    /\ UNCHANGED <<chainVars, dbVars, spender, drain, nonceGroups, cursor, failed,
                   inflight, expectedNonce, result, fresh, aborts>>

(* Record the fate of the group and go on to the next one. *)
CheckFinal(verdict) ==
    /\ verdict \in {TxFailed, TxConfirmed}
    /\ Checked(verdict)
    /\ FinalizeNonceGroup(nonceGroups[cursor].group, statuses)
    /\ nonceGroups' = [nonceGroups EXCEPT ![cursor] = [group |-> @.group, txs |-> {}]]
    /\ failed' = (failed \/ verdict = TxFailed)
    /\ CheckFrom({n \in DOMAIN nonceGroups : n > cursor})
    /\ UNCHANGED <<chainVars, spender, drain, target, inflight, expectedNonce,
                   result, fresh, aborts>>

(* Past the loop: a failure ends the run. *)
CheckEnds ==
    /\ pc = "checked"
    /\ IF failed
       THEN Return("failed")
       ELSE /\ pc' = "step"
            /\ UNCHANGED <<runVars, result, aborts>>
    /\ UNCHANGED <<chainVars, dbVars, fresh>>

------------------------------------------------------------------------------
(* payoutStep *)

(* Mutant: finished groups are not trimmed. *)
LeadingNever(n) == FALSE

(* Trim off the leading nonce groups that have no more transactions. *)
Leading(n) == \A m \in DOMAIN nonceGroups : m <= n => nonceGroups[m].txs = {}

Step ==
    /\ pc = "step"
    /\ LET kept == {n \in DOMAIN nonceGroups : ~Leading(n)}
       IN  nonceGroups' = [n \in kept |-> nonceGroups[n]]
    /\ pc' = "fill"
    /\ UNCHANGED <<chainVars, dbVars, spender, drain, cursor, statuses, failed,
                   target, inflight, expectedNonce, result, fresh, aborts>>

RoomToFill == Cardinality(DOMAIN nonceGroups) < Limit /\ ~drain

(* sendTransaction is called for a payout group at the end of the pipeline. *)
Fill(g, n) ==
    /\ n \in Nonces
    /\ pc' = "create"
    /\ target' = [group |-> g, nonce |-> n]
    /\ UNCHANGED <<chainVars, dbVars, spender, drain, nonceGroups, cursor, statuses,
                   failed, inflight, result, fresh, aborts>>

(* The nonce after that of the last nonce group. *)
FillFromLast(g, n) ==
    /\ pc = "fill"
    /\ RoomToFill
    /\ g \in Unattached
    /\ n \in DOMAIN nonceGroups
    /\ \A m \in DOMAIN nonceGroups : m <= n
    /\ Fill(g, n + 1)
    /\ UNCHANGED expectedNonce

(* The account nonce according to the blockchain; an earlier one than      *)
(* expected ends the run.                                                  *)
KnownBad(n) == expectedNonce > 0 /\ n < expectedNonce

FillFromChain(g, n) ==
    /\ pc = "fill"
    /\ RoomToFill
    /\ g \in Unattached
    /\ DOMAIN nonceGroups = {}
    /\ n \in NonceAt(spender)
    /\ IF KnownBad(n)
       THEN /\ Return("nonce")
            /\ UNCHANGED <<chainVars, dbVars, fresh>>
       ELSE /\ Fill(g, n)
            /\ expectedNonce' = n + 1

(* Nothing to add: check the pipeline, or return when it is empty. *)
FillEnds ==
    /\ pc = "fill"
    /\ ~RoomToFill \/ Unattached = {}
    /\ IF DOMAIN nonceGroups = {}
       THEN Return(IF drain THEN "drained" ELSE "done")
       ELSE /\ CheckFrom(DOMAIN nonceGroups)
            /\ failed' = FALSE
            /\ UNCHANGED <<spender, drain, nonceGroups, target, inflight,
                           expectedNonce, result, aborts>>
    /\ UNCHANGED <<chainVars, dbVars, fresh>>

------------------------------------------------------------------------------
(* sendTransaction *)

TargetTx(price) == [spender |-> spender, group |-> target.group,
                    nonce |-> target.nonce, price |-> price]

(* Preconditions met, price quoted, balance sufficient, transaction        *)
(* signed: record it as pending before it is sent.                         *)
Create(price) ==
    /\ pc = "create"
    /\ CreateTransaction(TargetTx(price))
    /\ pc' = "send"
    /\ inflight' = TargetTx(price)
    /\ fresh' = fresh \union {TargetTx(price)}
    /\ UNCHANGED <<chainVars, spender, drain, nonceGroups, cursor, statuses, failed,
                   target, expectedNonce, result, aborts>>

(* The hash is in the database already. *)
CreateRefused(price) ==
    /\ pc = "create"
    /\ HashTaken(TargetTx(price))
    /\ Return("hash")
    /\ UNCHANGED <<chainVars, dbVars, fresh>>

(* Sent.  The caller adds it to its nonce group and leaves the check loop, *)
(* or makes a new nonce group of it and goes on filling.                   *)
Resending == target.nonce \in DOMAIN nonceGroups

(* Mutant: a re-sent transaction takes the place of the dropped ones. *)
SendAcceptedReplacing ==
    /\ pc = "send"
    /\ Accept(inflight)
    /\ nonceGroups' =
         [n \in DOMAIN nonceGroups \union {target.nonce} |->
            IF n # target.nonce THEN nonceGroups[n]
            ELSE [group |-> target.group, txs |-> {inflight}]]
    /\ pc' = IF Resending THEN "checked" ELSE "fill"
    /\ cursor' = 0
    /\ target' = NoTarget
    /\ inflight' = NoTx
    /\ UNCHANGED <<dbVars, spender, drain, statuses, failed, expectedNonce, result,
                   fresh, aborts>>

SendAccepted ==
    /\ pc = "send"
    /\ Accept(inflight)
    /\ nonceGroups' =
         [n \in DOMAIN nonceGroups \union {target.nonce} |->
            IF n # target.nonce THEN nonceGroups[n]
            ELSE IF Resending
            THEN [group |-> nonceGroups[n].group,
                  txs |-> nonceGroups[n].txs \union {inflight}]
            ELSE [group |-> target.group, txs |-> {inflight}]]
    /\ pc' = IF Resending THEN "checked" ELSE "fill"
    /\ cursor' = 0
    /\ target' = NoTarget
    /\ inflight' = NoTx
    /\ UNCHANGED <<dbVars, spender, drain, statuses, failed, expectedNonce, result,
                   fresh, aborts>>

SendRefused ==
    /\ pc = "send"
    /\ Refuse(inflight)
    /\ IF Minable(inflight)
       THEN aborts < MaxAborts /\ aborts' = aborts + 1
       ELSE UNCHANGED aborts
    /\ pc' = "stopped"
    /\ result' = "aborted"
    /\ MemoryCleared
    /\ UNCHANGED <<dbVars, fresh>>

------------------------------------------------------------------------------
(* The run ends where it is: the process dies, its context is cancelled,   *)
(* or a call to a node, to the quoter or to the database fails.            *)
Abort ==
    /\ pc # "stopped"
    /\ aborts < MaxAborts
    /\ aborts' = aborts + 1
    /\ pc' = "stopped"
    /\ result' = "aborted"
    /\ MemoryCleared
    /\ UNCHANGED <<chainVars, dbVars, fresh>>

(* notDroppedUntil passes for a transaction. *)
Age(t) ==
    /\ t \in fresh
    /\ fresh' = fresh \ {t}
    /\ UNCHANGED <<chainVars, dbVars, pc, runVars, result, aborts>>

ChainStep ==
    /\ ChainNext
    /\ UNCHANGED <<dbVars, pc, runVars, result, fresh, aborts>>

CheckStep ==
    \/ \E t \in Txs, state \in TxStates : Query(t, state)
    \/ CheckError
    \/ CheckPending
    \/ CheckDroppedTooYoung
    \/ CheckDropped
    \/ \E verdict \in {TxFailed, TxConfirmed} : CheckFinal(verdict)
    \/ CheckEnds

FillStep ==
    \/ Step
    \/ \E g \in Groups, n \in Nonces : FillFromLast(g, n) \/ FillFromChain(g, n)
    \/ FillEnds

SendStep ==
    \/ \E price \in Prices : Create(price) \/ CreateRefused(price)
    \/ SendAccepted
    \/ SendRefused

Next ==
    \/ \E s \in Spenders, d \in Drains : Start(s, d)
    \/ CheckStep
    \/ FillStep
    \/ SendStep
    \/ Abort
    \/ \E t \in Txs : Age(t)
    \/ ChainStep

Spec == Init /\ [][Next]_vars

(* What liveness rests on.  The code keeps going through its loops, the    *)
(* operator starts it again when a run ends, and time passes.              *)
ProcessFairness ==
    /\ WF_vars(\E s \in Spenders, d \in Drains : Start(s, d))
    /\ WF_vars(CheckStep)
    /\ WF_vars(FillStep)
    /\ WF_vars(SendStep)
    /\ WF_vars(\E t \in Txs : Age(t))

(* And of the outside: what the network keeps coming back to is mined in   *)
(* the end, a receipt asked for again and again is found some time, and    *)
(* the STORJ price does not stay for ever at a value already used.         *)
OutsideFairness ==
    /\ SF_vars(ChainStep /\ \E t \in Txs : Mine(t))
    /\ SF_vars(\E t \in mined : Query(t, TrueState(t)))
    /\ SF_vars(\E price \in Prices : Create(price))

FairSpec == Spec /\ ProcessFairness /\ OutsideFairness

------------------------------------------------------------------------------
(* Properties *)

(* A payout group is paid at most once, whatever is dropped, re-sent,      *)
(* reverted, lost and found again, and however often the process dies.     *)
NoDoublePay == \A t, u \in Paid : t.group = u.group => t = u

(* A transaction is in the database before any node has it, so a crash     *)
(* between the two never loses one.                                        *)
RecordedBeforeSent == \A t \in Sent : rows[t] # "none"

(* What the database calls final is so in the chain: a final transaction   *)
(* moved the tokens, of the group it is recorded for, a failed one was     *)
(* mined and reverted, a dropped one was not mined.                        *)
FinalIsPaid ==
    /\ \A g \in Groups : final[g] # NoTx =>
         final[g] \in Paid /\ final[g].group = g /\ rows[final[g]] = TxConfirmed
    /\ \A t \in Txs : /\ rows[t] = TxConfirmed => t \in Paid
                      /\ rows[t] = TxFailed => t \in reverted
                      /\ rows[t] = TxDropped => t \notin mined

(* A payment the database does not call final yet is still pending there,  *)
(* so the next run finds it and never pays its group again.                *)
PaymentNotForgotten ==
    \A t \in Paid : final[t.group] = NoTx => rows[t] = TxPending

(* Between writes the pipeline in memory is the pending rows, group by     *)
(* group: nothing pending is left unchecked, nothing settled checked again. *)
MemoryMatchesDB ==
    pc \notin {"stopped", "send"} =>
        /\ \A t \in PendingRows : /\ t.nonce \in DOMAIN nonceGroups
                                  /\ t \in nonceGroups[t.nonce].txs
        /\ \A n \in DOMAIN nonceGroups : \A t \in nonceGroups[n].txs :
             rows[t] = TxPending /\ t.nonce = n /\ t.group = nonceGroups[n].group

(* checkNonceGroups never looks at a finished group: the payer would call  *)
(* it dropped and the group would be paid once more.                       *)
NeverChecksFinished == pc = "check" => nonceGroups[cursor].txs # {}

(* Nonces are settled in order: a settled transaction never has a later    *)
(* nonce than one that is still pending.                                   *)
SettledInOrder ==
    \A t, u \in Txs : rows[t] \in {TxFailed, TxConfirmed} /\ rows[u] = TxPending
                        => t.nonce < u.nonce

(* A run that reports success has paid every payout group; a drained run   *)
(* leaves nothing pending.                                                 *)
DoneMeansPaid ==
    /\ result = "done" => \A g \in Groups : final[g] # NoTx
    /\ result = "drained" => PendingRows = {}

(* A run can always load what the runs before it recorded. *)
AlwaysLoads == LoadConsistent

(* When nodes lag only on new transactions and the network loses none, a   *)
(* transaction is never sent while an earlier one of its group may still   *)
(* be mined for the same nonce.                                            *)
NoCompetingSend ==
    \A t, u \in Sent : SameSlot(t, u) /\ t.group = u.group => t = u

(* zkSync cannot check two transactions for one nonce: there never are.    *)
OnePendingPerNonce ==
    \A t, u \in PendingRows : t.nonce = u.nonce => t = u

(* Once a transaction is settled its row never changes, and a group's      *)
(* final transaction is written once.                                      *)
SettledForGood ==
    [][ /\ \A t \in Txs : rows[t] \notin {"none", TxPending} => rows'[t] = rows[t]
        /\ \A g \in Groups : final[g] # NoTx => final'[g] = final[g] ]_vars

(* After a failure the run creates no further transaction. *)
NothingCreatedAfterFailure ==
    [][ failed => \A t \in Txs : rows[t] = "none" => rows'[t] = "none" ]_vars

(* "Bail out [...] to prevent recording and sending a transaction with a   *)
(* known bad nonce": no transaction is recorded for a nonce the database   *)
(* has already settled.                                                    *)
NoKnownBadNonce ==
    [][ \A t, u \in Txs : /\ rows[t] = "none" /\ rows'[t] # "none"
                          /\ rows[u] \in {TxFailed, TxConfirmed} /\ SameSlot(t, u)
                          => FALSE ]_vars

(* Every payout group is paid and recorded in the end. *)
EveryGroupSettled == \A g \in Groups : <>(final[g] # NoTx)

(* A dropped transaction is safe to retry: re-sending never stumbles over  *)
(* the transaction it replaces.                                            *)
ResendIsRecorded == result # "hash"
=============================================================================
