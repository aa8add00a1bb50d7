# A TLA+ verification of crypto-batch-payment

`crypto-batch-payment` ("crybapy") pays a CSV file of USD amounts in STORJ
tokens, over Ethereum/Polygon or zkSync Era. It imports the file into an SQLite
database and then runs a *pipeline* that turns each payout into a transaction
and drives every transaction to the end, over process restarts, lagging nodes,
dropped transactions and reverted transfers, so that **every payout is paid once
and only once**. This directory holds a TLA+ model of that machinery, TLC runs
that check it on small instances, and TLAPS proofs for every instance.

Contents: 1 the system, 2 what is hard, 3 the modules and how they follow the
code, 4 the runs, 5 fairness, 6 the proofs, 7 findings, 8 assumptions and what
is not modelled, 9 the plan, 10 how to run it.

## 1. The system

### Components, their state and their operations

| component (source) | state | operations |
|---|---|---|
| Pipeline (`pkg/pipeline`) | in memory: nonce groups, expected nonce, limit, drain | `ProcessPayouts`: `initPayout`, then `payoutStep` every poll interval: trim, fill (`sendTransaction`), `checkNonceGroups` |
| Payout database (`pkg/pipelinedb` over `pkg/payoutdb`) | on disk: `payout`, `payout_group.final_tx_hash`, `tx.state`, `metadata` | create groups, first unattached group, create transaction, load nonce groups, finalize a nonce group, statistics, create/open/migrate |
| Ethereum payer (`pkg/eth`) | none (a key and settings) | next nonce, fee precondition, balance, sign, send, check a nonce group |
| zkSync Era payer (`pkg/zksyncera`) | none | the same, one transaction per nonce |
| Simulated payer (`pkg/payer/sim.go`) | none | the same, without a chain: always nonce 0, always confirmed |
| Chain and nodes (external) | account nonces, mempool, mined transactions | mining, eviction, late delivery; answers that may be stale |
| Run (`pkg/payouts/run.go`, `cmd/crybapy`) | log, prompt, context, exit status | log, payer, database, preview, prompt, run; re-run after a failure |
| Operator (the repository's `README.md`, Troubleshooting) | none | inspects pending rows, deletes them, runs again |
| Import (`pkg/payouts/import.go`) | a directory per CSV | build the database in a temporary directory, rename it |
| Audit, receipts (`pkg/payouts/audit.go`, `pkg/receipts`) | counters | compare CSV, database and chain; write receipts |
| Quote cache (`pkg/coinmarketcap`) | quote per symbol and its time, a lock per symbol | get a quote |
| Gas fee cache (`pkg/infura/cache.go`) | fees per chain and their time | get fees (no caller in the commands) |
| Token amounts (`pkg/storjtoken`) | none | USD to tokens, rounded down |
| Payers and auditors (`factory_payer.go`, `pkg/config`) | node connections | dial, construct, close |
| Deposit (`cmd_zksync_deposit.go`) | none on disk | look at balance and allowance, ask, send, wait for the outcome |
| CSV loading (`pkg/csv`) | none | header, rows, line numbers |
| Prepayout loading, configuration files, flags, contract bindings | none | parsing, encoding |

### How they interact

* A command is one process. `run` opens its log and its payer, then the database,
  shows a preview (`Stats`, a quote, the balance), asks, and stays in
  `ProcessPayouts` until everything is paid, the pipeline is drained, or something
  fails. A run that fails is started again by hand. The first SIGINT cancels the
  context of the command; some calls have a context of their own and go on.
* SQLite is opened with `locking_mode = EXCLUSIVE`. Commands that only read share the
  file; the first write of a process takes it, needs everybody else to have closed
  it, and keeps it until the process closes it.
* The pipeline calls the payer (node), the quoter and the database. A transaction
  goes through `CreateTransaction` (a pending row) *before* `SendTransaction`
  (`pipeline.go:413-436`), so the database always knows at least what the network knows.
* Memory holds a list of *nonce groups*: a nonce, the payout group it pays, and the
  transactions sent for it. More than one exists when a transaction was reported
  dropped and another was sent. They are rebuilt from the pending rows at every start.
* The chain and its nodes act on their own: they mine in nonce order, drop, find
  again, and answer with what they happen to know.
* The audit reads database, CSV file and chain. The pipeline cannot write meanwhile;
  the chain, and whoever edits the CSV file, can.

### What makes each component correct

| component | properties |
|---|---|
| Pipeline, database and chain together | no group is paid twice; what is called final was paid; a payment is never forgotten; settled rows never change; a successful run has paid everything; every group is settled in the end; all of it is what an abstract ledger promises |
| Pipeline | memory is the pending rows; a finished group is never checked again; nonces are settled in order; after a failure nothing more is recorded; no transaction for a nonce already settled |
| zkSync payer with operator | never two pending transactions of one nonce; deleting rows forgets no payment |
| Database statements | a call does what it answers, all or nothing, and what a command reads over several queries is of one moment; together they are the store the pipeline assumes |
| Import, open, migrate | a published database is complete, never replaced, of the schema its version says; a repeated import succeeds |
| Audit | receipts are for payments; "unpaid" is unpaid; complete means complete; no false alarm; an edited file is reported |
| Amounts and preview | nobody gets more than the USD of the file; a previewed balance that suffices does suffice |
| Caches | fees are no older than promised; a quote is fetched only when the cache has none |
| Payer construction | a payer can reach its node; what failed half-way leaves no connection behind |
| Commands | nothing is recorded that nobody agreed to; the exit status tells the outcome |
| Deposit | the reported outcome is true, and a mined deposit is noticed |

## 2. What is hard here

`PROJECT.json` lists every hazard at its line. In groups:

* **Crash or error between two writes**: between the row and the send, in the send
  (the node may have it or not, now or later), between two statements of an
  import, a migration or a SQL transaction, between an INSERT that is committed and the
  SELECT that reads it back.
* **Answers that are out of date**: a node that does not know the newest
  transaction, reports an old account nonce, has a receipt late; an age that is
  compared after the answer; a balance read before a late transaction is mined; a
  preview the world has moved away from; a receipt and a transaction asked for one
  after the other; a base fee that moves on; a cached quote.
* **Replacement**: several transactions for one nonce, of which the chain mines
  one; which one must not matter for the database, the balance or the payee.
* **Retry**: a reverted transfer leaves the group to a later nonce; a dropped one
  keeps its nonce; the operator deletes rows. Each must be unable to pay twice.
* **Several commands**: imports of one file at once, a run before the import, a
  migration beside an audit, readers beside a run.
* **Interruption**: SIGINT before the answer to the prompt, between recording and
  sending, after the last payout.
* **Progress**: pending for ever, a hash that is recorded already, an account nonce
  behind the expected one, a base fee that stays high.
* **Rounding**: sums of rounded amounts against a rounded sum.

## 3. The modules and how they follow the code

```
Transactions   identities: groups, nonces, prices, transactions, TxState
  Chain        the network and its nodes (external)
    Payer      CheckNonceGroup of pkg/eth and pkg/zksyncera
  PayoutDB     the tx and payout_group tables, one operator per SQL transaction
      Pipeline           ProcessPayouts over PayoutDB and Payer
        PipelineLedger     refinement of PayoutLedger
          PipelineInvariant  the inductive invariant
            PipelineSafety   the invariant, and what follows from it alone        (TLAPS)
              PipelineOutcomes   the refinement, what outcomes mean, the repair    (TLAPS)
        Repair             the operator of the troubleshooting section
        Audit              the audit between runs
          AuditProofs                                                            (TLAPS)
        Funds              price, quote, amounts, balance, allowance, preview
          FundsProofs                                                            (TLAPS)
    PayoutStore          what Pipeline takes the database for
  PayoutTables           the database statement by statement; implements PayoutStore
    PayoutTablesProofs                                                           (TLAPS)
PayoutDir      import, open and migrate the database file
  PayoutDirProofs                                                                (TLAPS)
PayoutFile     the CSV file: load, import, edit, audit
FeeCache, QuoteCache    the two caches with several callers
GasPrice       the wait for a low base fee and the fee cap
Clients        the node connections of payers and auditors
Deposit        zksync deposit
Command        run and ad-hoc transfer with the simulated payer, SIGINT, exit status
PartsProofs    PayoutFile, FeeCache, QuoteCache, Clients, Deposit, Command               (TLAPS)
Induction      over numbers and subsets, for the proofs                                  (TLAPS)
MCPipeline, MCAudit, MCFunds, MCParts                                            (instances)
```

`PROJECT.json` maps each definition to its lines. Definitions whose comment begins
with "Mutant" are wrong variants of the definition that follows them, used to see
that a property notices the mistake; no specification refers to them.

**`Transactions`.** A transaction is the record of what is signed: account, payout
group, nonce, price. An Ethereum hash is a function of these (gas limit, tip and fee
cap are fixed in a process; payee and USD are fixed per group), so equal records are
the same hash. That abstraction is what shows the re-send of an unchanged
transaction to collide with its own row (finding 3). zkSync hashes also cover a
gas price; the zkSync payer never re-sends, so nothing depends on it.

**`Chain`** (external). `Mine` takes the account's next nonce and discards the
competitors for it; `Evict` and `Reappear` are the mempool; `Accept` and `Refuse` are
the outcomes of a send, including an error for a transaction that arrives all the
same, at once or later. `NonceAt` and `Answers` are what a node may say: never an invented
receipt, but a late one, and, where it lags, a denial. `Lag` says whether it may lag on
nothing, on transactions younger than `notDroppedUntil`, or on anything.

**`Payer`.** From the statuses gathered for a nonce group to one verdict
(`eth/payer.go:224-274`, `zksyncera/payer.go:240-272`), with `checkOnly`.

**`PayoutDB`.** One operator per statement or SQL transaction, hence atomic (that this
is what the statements amount to is `PayoutTables`).
`Unattached` is the query with the `NOT IN` subquery; it has no `ORDER BY`, so any
member may come first. `FinalizeNonceGroup` writes all statuses and the final hash.

**`Pipeline`.** One action per stretch of code between two calls to the outside, so
that the chain can move and the process can die at each call. `pc` is the place in
`ProcessPayouts`:

| actions | code |
|---|---|
| `Start` | `New`, `initPayout` (`pipeline.go:100-175`) |
| `Step`, `FillFromLast`, `FillFromChain`, `FillEnds` | `payoutStep` (`177-275`): trim leading finished groups, pick group and nonce, `expectedNonce`, success or drained |
| `Query`, `CheckError`, `CheckPending`, `CheckDroppedTooYoung`, `CheckDropped`, `CheckFinal`, `CheckEnds` | `checkNonceGroups` (`277-340`), one query at a time, break, re-send, finalize and go on, fail at the end |
| `Create`, `CreateRefused`, `SendAccepted`, `SendRefused` | `sendTransaction` (`342-438`) and what its two callers do with the result; `SendRefused` is any error, zkSync's hash mismatch after the node took the transaction (`zksyncera/payer.go:234`) too |
| `Abort` | a crash, a signal, a failing call, anywhere |
| `Age` | `notDroppedUntil` passes for a transaction |

The code keeps nonce groups in a slice sorted by nonce; the model keys them by
nonce, and "trim off" and "the last one" are by order of nonces. That loading makes
such a slice of the pending rows is `LoadsNonceGroups` of `PayoutTables`.

**`Repair`.** `OperatorStops` and `DeletePending`: the README's troubleshooting, with
its own condition ("100% sure that they are not on the chain") for *all* pending rows.

**`Audit`.** Two passes: each recorded transaction is asked about
(`ConfirmState`), then each payout group is classified and its confirmed rows asked
about once more (`CheckPayout`), then the receipts are written. The chain moves in
between, runs do not (the database is locked). The first pass only counts, and only
"dropped here, confirmed there" is reported as a double payment. Both auditors are
there: the Ethereum one believes a receipt; the zkSync one calls a mined transaction pending until
its proof is verified, and reconfirms by the batch the receipt names, not by the outcome in the
receipt (`zksyncera/auditor.go:44-74`).

**`Funds`.** The pipeline again, now with money: the market price moves; `Preview`
and `getStorjPrice` go through the cache of one process; `sendTransaction` computes
the amount, refuses a zero amount, an insufficient balance and, where the tokens are another
account's, an insufficient allowance, and then does what
`Pipeline` does; the token contract reverts a transfer that balance or allowance does not cover.
The balance is derived: deposits less the transfers that succeeded. The variables
`promise` and `alone` are history: the price of the last preview while it vouches for
the balance, and the transactions recorded while no other nonce was pending.

**`PayoutTables`.** The same database with `place` inside each call of `pkg/pipelinedb`:
the statements of `CreatePayoutGroup`, `CreateTransaction` (INSERT, then a SELECT on its own) and
`FinalizeNonceGroup` (a status per row, the final hash where a row is confirmed), `WithTx` with its
deferred commit, the reading calls and commands as the sequence of generated queries they make,
failures and kills between any two, the lock, and the sort-and-group loop that
loads the nonce groups. `before` is history: the tables when the call began.
`PayoutStore` is the atomic store on top: payout groups appear whole, and the two
writes of `PayoutDB` happen or do not.

**`PayoutDir`.** Processes that import, open, migrate, use and close one payout
directory at once, and runs that come before any import and leave an empty `payouts.db` behind.
An import works in a temporary directory of its own, statement by
statement; `os.Rename` does not replace a directory. A migration is an SQL transaction
that may roll back at any point.

**`PayoutFile`.** The CSV file as the records `encoding/csv` delivers: header or error, skipped
records, positive amounts (`csv.Parse`), import, any edit afterwards, and the reconciliation of
the audit in both directions.

**`FeeCache`, `QuoteCache`.** Callers and the clock. The fee cache is read and written under its lock and
fetched without it; the quote cache fetches under the lock of the symbol. A quote counts as
updated when it was stored, not when it was asked for, and who waits for the lock does not notice its
context; both as in the code. The program has no second caller: a run asks from one goroutine, and
no command makes the fee cache. So the two properties are contracts of their packages, which are
written for several callers, and answer no hazard of a command; the cost of a stale quote in a run
is the subject of `Funds`.

**`GasPrice`.** One transfer: `CheckPreconditions`, the five-second wait, the signed fee cap, and
a base fee that moves before, between and after.

**`Clients`.** `CreatePayer`, and `NewPayers`/`NewAuditors` of a configuration with an `eth`
and a `zksync-era` section: dial, ask the node, fail and close, return, close all. A client that speaks
HTTP has nothing to close and survives a `Close`; IPC and websocket clients do not.

**`Deposit`.** The command from the API's contract addresses to the verdict of `waitForTransaction`; the
account is used elsewhere meanwhile and the transaction may be mined, forgotten or found again.

**`Command`.** `run` and `payer transfer` from the log to the exit status with the simulated
payer, whose nonce is always 0 and whose verdict is always "confirmed"; `canceled` is the context.
`run` works on a database that outlives it, the transfer on one in memory.

**`PayoutLedger`** is the promise without any machinery: a group gets at most one
payment, a payment is written down once after it was made, "complete" is reported
only when all are written down.

## 4. The runs

Unless said otherwise: two payout groups, one account, two prices, nonces 0 to 2,
`Limit` 2. Two groups are enough for one group to overtake, follow or fail before
another; two prices make a re-sent transaction a different one; three nonces let each
group have a nonce and one be retried after a revert; `Limit` 2 has two nonces in
flight. `MaxAborts` 1 is one crash at every point (the run after it meets all that it
left); transactions at the first price may be lost and found
again; transfers for the first nonce may revert, so that a retry always has a nonce left.

| run | instance | checks |
|---|---|---|
| `EthSafety` | Ethereum payer, nodes lag for good (`Lag` "any"), losses, reverts, one crash | `TypeOK`, `PipelineInv`, `NoDoublePay`, `FinalIsPaid`, `PaymentNotForgotten`, `SettledInOrder`; of steps `SettledForGood`, `NothingCreatedAfterFailure`, `NoKnownBadNonce`; and that the whole implements `PayoutLedger` (`ImplementsLedger`) |
| `EthLive` | `FairSpec`, lag only on young transactions, no crash | `EveryGroupSettled` |
| `ZkRepair` | zkSync payer with the operator, with and without `--drain`, everything may be lost | `NoDoublePay`, `RepairForgetsNoPayment`, `OnePendingPerNonce`, `DoneMeansPaid` |
| `AuditTruth` | audits at any point between runs, `Limit` 1, nodes that report old account nonces | `ReceiptsArePayments`, `UnpaidIsUnpaid`, `ReceiptsAreComplete`, `NoFalseAlarm` |
| `PreviewCovers` | prices 1 and 2, payouts of 1 and 3 units, 3 tokens and a top-up of 1, allowances 3 and 4, losses at price 2, two runs cut short | `WorthPaid`, `AloneNeverReverts`, `PreviewHolds` |
| `Parts` | everything beside the pipeline, one part moving while the others rest | see the next table |
| `StaleNonce`, `LateVerdict`, `SamePrice`, `OtherSpenderPays`, `ZkStuck`, `ClosedClient` | see section 7 | the code does not do what it says |

`Parts` puts the modules that share no state into one instance, a part at a time:

| part | bounds | checks |
|---|---|---|
| `PayoutDir` | three processes, two payouts, three faults; absent, old, current and newer databases | `DirInv`, `PublishedForGood`, `EventuallyImported` |
| `PayoutTables` | two commands, four calls, two groups, nonces 0 and 1 | `ImplementsStore`, `AnswersAreTrue`, `ReadsAgree`, `LoadsNonceGroups` |
| `PayoutFile` | files of up to three records of nine kinds, one edit after the import | `EveryPaymentOnce`, `AuditSeesEdits` |
| `FeeCache` | two callers, expiry 2, times 0 to 3 | `FreshFees` |
| `QuoteCache` | two callers, expiry 2, times 0 to 5 | `OnlyNeededFetches` |
| `GasPrice` | base fees 0 to 5, `--max-gas` 3, tip 1: the bound met exactly, below and above | `WaitEnds` |
| `Clients` | the three constructors, each section present or not, each transport | `ClientsOwned` |
| `Deposit` | deposit of 2, up to 4 tokens and allowance | `VerdictIsTrue`, `MinedIsNoticed` |
| `Command` | a batch of three, pipeline limit 2, two interrupts, two failures, with and without `--drain` | `RecordsOnlyWhatIsWanted`, `ExitTellsOutcome`, `SimSettlesAll` |

The parts are independent, so interleaving them would add nothing. Deadlock is not
checked here: commands end, a newer database is refused.

Notes on the less obvious ones.

* `NoKnownBadNonce` holds in `EthSafety`, where nodes report the current account
  nonce, and fails in `StaleNonce`, where they may report an old one. The payout is
  still safe there: such a transaction can never be mined, and the safety theorems
  of section 6 hold for old answers too.
* `EthSafety` lets a node deny a transaction for ever, also to a pipeline that sends a
  second one. `NoDoublePay` rests on both having the same nonce, not on the answer.
* Symmetry is over the payout groups only, and never together with a liveness property.
* In `PreviewCovers` the amounts are the smallest that tell things apart: at price 2
  one payout is worth no token at all and the other one token and a half, so that
  rounding, a zero amount, a full pipeline that commits to more than the balance, an
  allowance that is met exactly, and a price that falls or rises after the preview all
  occur. `PreviewHolds` has an exception that the checker insisted on: a payout whose
  dropped transaction is mined while the re-send is being prepared can be refused for
  lack of tokens. It is already paid, so the run ends for no good reason, but nothing is lost.
* `EventuallyImported` excepts a directory that a run made first: such a run leaves an
  empty `payouts.db`, and `import` then reports that the file "has already been imported".
* `SimSettlesAll` needs several runs: the simulated payer only knows nonce 0, so a run
  fills the pipeline once, empties it, and ends with an error when it wants to go on.

Every property has a mutant of the code that violates it in its run (`PROJECT.json`,
"mutants"): a dropped subquery, a row written late, a pending group skipped, a rounding
to nearest, a migration by two processes, a client closed by the wrong section, an
interrupt that is not looked at, and so on.

## 5. Fairness

* `FairSpec` (run `EthLive`). Of the process, that it goes on: weak fairness of `Start`
  (the operator repeats the command, the repository's `README.md:338`), of the check,
  fill and send steps (each is the next statement of a loop), and of `Age` (time passes).
  Of the outside: a transaction the network keeps coming back to is mined (strong
  fairness of mining, as it may be evicted again and again), a receipt asked for again
  and again is seen (strong fairness of the true answer), and the STORJ price does not
  stay for ever at a value already used for the nonce (strong fairness of `Create`;
  without it finding 3 stops the batch). `EthLive` has no aborts: finitely
  many of them only put off the same argument, and reverts end runs anyway.
* `FairRepairSpec` (run `ZkStuck`) adds an operator who intervenes whenever he may.
* `ImportFairness`: somebody keeps importing (weak fairness of each import step), and
  faults are finite.
* `QuoteFairness`: strong fairness of taking the lock, since a `sync.Mutex` does not
  starve a waiter, and weak fairness of the end of a fetch.
* `GasFairness`: weak fairness of the next statement of the transfer, and of the
  network mining what its base fee allows for good.
* `DepositFairness`: weak fairness of the wait loop; strong fairness of a receipt query
  that succeeds.
* `CommandFairness`: weak fairness of the process, and of an answer to the prompt; the
  operator repeats the run without `--drain` until all is settled and agrees now and
  then (strong fairness); interrupts and failures are finite.

## 6. The proofs

TLAPS checks these theorems for every set of groups, prices and nonces, every limit,
every behaviour of nodes the constants allow, and any number of crashes and commands.

* `PipelineSafety!TypeCorrect`: the types. `TypeOK` is inductive by itself; one lemma per
  group of actions, one step per action.
* `PipelineSafety!PipelineInvCorrect`: `PipelineInv` is invariant. `NoDoublePay` is far
  from inductive: that a second payment is impossible needs that all pending rows of a group
  share a nonce (`AttachedInv`), which needs that whatever `sendTransaction` was called for is
  unpaid and has no pending row of another nonce (`TargetInv`), which in the check loop needs
  that the cursor never is at a finished group (`CheckInv`), which needs that finished groups
  are a prefix that `Step` trims (`PrefixInv`), and that memory is the pending rows
  (`MemoryInv`); on the side of the chain, that a settled row's nonce is used up
  (`SettledInv`) and a nonce mined once (`ChainInv`). Proved per action, part by part.
  From it: `PaidAtMostOnce`, `DatabaseTellsTheTruth`, `PaymentsAreKept`,
  `MemoryFollowsDatabase`, `FinishedIsNotChecked`, `RunsCanLoad`; and with an invariant of
  its own, `RecordBeforeSend`.
* `PipelineOutcomes!SettledStaysSettled` and `PipelineImplementsLedger`: with the
  invariant, every step is a step of `PayoutLedger` or none: mining pays, `CheckFinal`
  records, `FillEnds` reports.
* There too: `SuccessMeansPaid` (only `FillEnds` reports, and it looks at memory,
  which is the pending rows); `NoncesSettleInOrder` and `NoBadNonce` (for nodes that report the latest
  account nonce, `~StaleNonce`: a new nonce is above every settled one, and rows leave in the
  order of their nonces); `FailureEndsTheRun` (the failure is remembered until the run ends,
  and the loop that remembers it only queries); `ZkSyncChecksOne` (for the zkSync payer:
  without a dropped verdict there is one pending row per nonce).
* And the repair: the invariant survives the operator (`RepairInvCorrect`), because he
  deletes only when nothing pending can be mined; hence `RepairPaysAtMostOnce`,
  `RepairTellsTheTruth`, `RepairForgetsNone`, `RepairedRunsCanLoad`, `RepairedZkSyncChecksOne`,
  and the refinement again, `RepairImplementsLedger`.
* `AuditProofs`: audits write nothing and the pipeline stands still meanwhile, so its
  invariant goes over; `NotesInv` says what an audit under way has found out
  of rows that stay. Hence, with either auditor and either payer, `ReceiptsAreTrue`, `ReceiptsCoverTheFile`,
  `UnpaidStaysUnpaid`, `AuditIsQuiet`.
* `PayoutTablesProofs`: `TablesInv` (one writer at a time and only while everyone else has
  the file closed; what an open SQL transaction has written so far; a call begins and ends
  in agreement with `before`) is inductive, hence `GroupsStayWhole`, `AnswersAreCorrect`
  and `TablesImplementStore`: the statements, transactions and locks are the atomic store that
  `Pipeline` assumes. `ReadsAreConsistent`: as nobody writes while anybody reads, each answer so
  far is one of the tables of `before`. `LoadingMakesTheGroups`: after each turn of the loop the
  slice is the nonce groups of the rows so far, in the order of nonces, or empty if those rows do
  not fit; by induction over the turns, and with the finiteness of the pending rows, which
  every step of `PayoutStore` keeps.
* `FundsProofs`, for any amounts, prices, deposits and allowances. `FundsInvCorrect`: every step of
  `Funds` is one of `Pipeline` (so `PipelineInv` holds) and keeps `FundsInv`. That has three parts
  because nothing less is inductive. `MoneyInv`: finitely many transactions are mined, so that
  balances are sums. `AloneInv`: a transfer recorded alone is the one with the lowest pending nonce
  as long as it can be mined, so nothing is mined before it and the tokens seen when it was
  recorded are still there. `PromiseInv`: while a preview is vouched for, balance and allowance
  cover `Owed`, the sum over everyone still unpaid at the previewed price, and nothing under way was
  computed at a lower price; mining takes one payee out of the sum and at most his share out of the
  balance. Hence `AloneSucceeds`, `PreviewIsKept` and, with a transfer per group, `WorthIsPaid`.
  The sums are those of `SumFunctionOnSet`; that they exist, and that taking one element out
  takes its summand out, is proved by induction over subsets.
* `PartsProofs`. Of the CSV file: after each record, the loop of `csv.Parse` has failed or has the
  payments so far in the order of their lines, and it has met the header exactly if it has met
  anything; hence `PaymentsAreImported`. Rows then have distinct lines, also those of the database
  (`NoDuplicateLines`: "This would only happen if there was a bug loading payouts", `audit.go:100`,
  `:108`), so the two loops of the audit find exactly what differs (`EditsAreSeen`). Of the caches: fees
  are dated before they were suggested (`FeesAreFresh`), who fetches a quote has the lock
  (`FetchesAreNeeded`). Of clients: who owns an open connection of the `eth` section at each step
  (`ConfiguredClientsAreOwned`). Of the deposit: the tokens move with the transaction and with nothing
  else, and it is not mined twice (`DepositVerdictIsTrue`). Of the commands: past the prompt a run was agreed
  to, and once loaded memory misses no pending row (`NothingUnwantedIsRecorded`, `ExitStatusIsTrue`).
* `PayoutDirProofs`: `DirInv` is inductive (imports know how far they are; one writer, whose
  transaction started from the database as it is), hence the four properties of published
  databases, for any number of processes, payouts and faults.

Induction over data is done with sets: `CountingUp` (a set with 0 and with the successor of each of its
numbers has all of them) and `SubsetInduction` follow from the well-foundedness facts of the library
without an operator parameter, and a recursive function, as in `Parse` or `NonceGroupsOf`, is first
shown to exist.

Assumptions: those named in the modules (`PipelineAssumption`, `ChainAssumption`, `FundsAssumption`,
`TablesAssumption`, `DirAssumption`, `HeadersAreNotPayments`, ...), which TLC evaluates on each run, and, for the
safety theorems of `Pipeline`, `Repair`, `Audit` and `Funds`, `SpenderFixed`: one account pays. That is the rule
`RecordStart` was written for; without it the theorems are false (finding 4).

Every safety and action property of a passing run is stated by a theorem. Only model-checked: the
liveness properties (`EveryGroupSettled`, `EventuallyImported`, `WaitEnds`, `MinedIsNoticed`,
`SimSettlesAll`), which rest on fairness and are out of this prover's reach, and the findings, which are
counterexamples.

## 7. Findings

Each is a run that TLC refutes, and quotes what the repository says.

1. `StaleNonce`: "prevent recording and sending a transaction with a known bad nonce"
   (`pipeline.go:224`). `expectedNonce` is zero in a new process and is set from the chain's answer
   only, so an old answer after a restart has a transaction recorded for a nonce the database has settled.
2. `LateVerdict`: "Do not consider transactions dropped until notDroppedUntil time has elapsed
   ... avoids false-positives" (`pipeline.go:298`). The age is compared after the node
   answered; an answer given while the transaction was young still counts.
3. `SamePrice`: a dropped transaction is "Safe to retry" (`txstatus.go:14`). Unless the price or the
   fees changed, the retry *is* the same transaction and `CreateTransaction` fails on its UNIQUE hash.
4. `OtherSpenderPays`: "spender cannot change once payouts have been initiated" (`db.go:152`).
   `RecordStart`, which would refuse it, has no caller; a second account takes over the nonce groups
   of the first and both pay.
5. `ZkStuck`: "the process can be continued with re-executing the same command" (repository
   `README.md:338`). With zkSync a row recorded and never sent is pending for ever, and the operator may not delete it
   while a later transaction waits behind its nonce.
6. `ClosedClient`: "By default, the program uses the `./geth.ipc` file to contact the node" and
   `ws`, `wss` are supported (repository `README.md:110`, `:117`). `CreatePayer` closes its client when it returns
   (`factory_payer.go:149`); that does nothing to an HTTP client, but a payer over IPC or a websocket has
   a dead connection before its first use.

Seen and not made a run, because nothing in the repository claims otherwise:

* *Money.* The balance is checked one transfer at a time, so a full pipeline can commit to
  more than there is. A payout worth less than one unit ends every run that comes to it; in the ad-hoc
  transfer, an amount or a price below 1 counts as zero (`IntPart() == 0`). The preview does not show an allowance.
* *Audit.* `zksyncera.NewAuditor` ignores its `url` and dials the main network; the zkSync auditor reconfirms by
  the state of the batch, not by the outcome of the transaction, and does not know the status
  "sealed"; the simulated auditor confirms everything; the command exits with 0 also when it
  reports double payments; it dials an Ethereum client of its own beside the auditor's, and never closes the auditor's.
  A second payment whose row is still pending is only logged.
* *Files.* The header check of `pkg/csv` (`csv.go:65`) accepts a header in which only one field
  matches; a row's `Line` is the index of the record; `stat` prints seven columns under six headings, and
  migrates the database it looks at. A run before the import makes an empty database
  that the import then takes for imported. `openLog`, killed between its two last calls, leaves a link that
  blocks every later run in that directory. `OpenDB` would dereference nil without a metadata row.
* *Context.* A waiter for the quote lock, and two of the database's queries, do not notice that their
  context is cancelled; HTTP fetches have no timeout; only the first SIGINT has an effect.
* *Clients.* The zkSync payers of a configuration have nothing that closes their client, and
  `zksyncera.NewPayer` leaves it open on an error; it also ignores its `maxFee`.
* *Ad-hoc transfer.* It keeps its database in memory, so repeating the command pays again, and
  it never asks for confirmation.

## 8. Assumptions, and what is not modelled

* A mined transaction stays mined. The code has no notion of confirmations, so a
  reorganisation is outside what it could handle. This is the one hazard without a property.
* One process per database in the pipeline's modules (EXCLUSIVE locking, `db.go:685`); `PayoutDir`
  and `PayoutTables` have several, and `ImplementsStore` shows that they amount to one.
* One payout per payout group, as every import makes them; both payers refuse more.
* `MaxNonce`, `MaxAborts`, `MaxFaults`, `MaxCalls`, `MaxRecords`, `MaxEdits`, `Horizon`, `QuoteHorizon`,
  `HighestFee`, `MaxInterrupts` and `MaxFailures` are bounds of the models, and so is that the
  top-up of `Funds` happens once.
* In `Funds` nothing else spends the account's tokens, and a transfer reverts for lack of tokens or
  allowance only. The preview is one step, at the moment the balance is read: the
  database cannot change under it, and the quote is fetched by the new process.
* Gas used, signatures, paymaster parameters, JSON and ABI encoding are inside the identity of a
  transaction or of an answer.

Not modelled: the row statistics (`Add` on a `decimal` returns a value that is
discarded; printed only); `RecordStart`, `UpdateTransactionState` and `FetchTransaction`, and
`prepayoutcsv`, which have no caller at this commit; parsing of configurations, flags and keys, and logging; the balance and
price commands and `PrintEstimate`, which ask once and print; the contract bindings, generated code
without state. The generated database code is modelled as far as it is called, by the query or statement it
runs.

## 9. Plan

Done, in this order: the core (`Transactions`, `Chain`, `PayoutDB`, `Payer`, `Pipeline`) with its
runs; the abstract ledger; the inductive invariant and its proof; the refinement proof; `Repair`;
`PayoutDir` with proofs; `Audit`; `Funds`; then the outcomes of a run and the repair as theorems;
the database statement by statement, its abstract store and the proof that it implements it; the
CSV file with its audit; caches, base fee, clients, deposit and commands; the zkSync auditor and the
proofs about audits; the proofs about money, the parts, the CSV file and the loading of the database.

What could follow:

1. An audit under two accounts, where a second payment whose row is still pending is missed
   (`audit.go:160-192`).
2. The parsers of configurations and keys as operators against a reference definition, should they come
   to decide anything a run depends on.

## 10. Running it

    tlc -workers 2 -config EthSafety.cfg MCPipeline      # and the other runs, see PROJECT.json
    tlapm PipelineSafety.tla                             # and the other modules with proofs

The two largest runs (`EthSafety`, `AuditTruth`) have one to two million states and take one to three
minutes; the proofs together take a few minutes.
