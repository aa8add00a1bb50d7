-------------------------------- MODULE Funds --------------------------------
(***************************************************************************)
(* What the pipeline pays with and how much: the STORJ price and its       *)
(* cache, the token amount of a payout, the balance of the paying account, *)
(* and the preview an operator confirms before a run.                      *)
(*                                                                         *)
(* Amounts are exact: USD[g] is the payout in the smallest USD unit times  *)
(* 10^decimals, a price is the USD of one token in that unit, so that an   *)
(* amount of tokens is their quotient.  Nothing else spends the balance,   *)
(* or the allowance when the spender pays for another owner.               *)
(***************************************************************************)
EXTENDS Pipeline, Functions

CONSTANTS
    USD,       \* the USD amount of each payout group
    Deposit,   \* tokens on the paying account at first
    TopUp,     \* tokens the operator may add once
    Allowances,  \* tokens an owner may let the spender transfer in all; one that
                 \* covers everything stands for a spender that is the owner
    NoQuote    \* nothing in the quote cache, no promise

ASSUME FundsAssumption ==
    /\ IsFiniteSet(Groups) /\ Prices \subseteq Nat \ {0}
    /\ USD \in [Groups -> Nat \ {0}]
    /\ Deposit \in Nat /\ TopUp \in Nat \ {0}
    /\ Allowances \subseteq Nat
    /\ NoQuote \notin Prices

VARIABLES
    market,    \* the STORJ price CoinMarketCap would quote now
    cached,    \* the unexpired quote of this process's CachingClient
    deposited, \* tokens the paying account ever received
    granted,   \* tokens the owner let the spender transfer in all
    ready,     \* previewed and confirmed, not yet running
    promise,   \* price of the last preview, while it vouches for the balance
    alone      \* transactions recorded while no other was under way

fundVars == <<market, cached, deposited, granted, ready, promise, alone>>

(* Mutant: the token amount is rounded to the nearest. *)
FromUSDRounded(usd, price) == (usd + price \div 2) \div price

(* Rounded down. *)
FromUSD(usd, price) == usd \div price

(* The transfer CreateRawTransaction packs into a transaction. *)
Tokens(t) == FromUSD(USD[t.group], t.price)

TokensOf(txs) == SumFunctionOnSet([t \in Txs |-> Tokens(t)], txs)

(* balanceOf the paying account, at the latest block. *)
Balance == deposited - TokensOf(Paid)

(* allowance(owner, spender), at the latest block. *)
Allowance == granted - TokensOf(Paid)

(* Mutant: payouts that have a transaction already are left out. *)
PendingUSDUnattached == SumFunctionOnSet(USD, Unattached)

(* DBStats.PendingUSD: every payout group without a final transaction. *)
PendingUSD == SumFunctionOnSet(USD, {g \in Groups : final[g] = NoTx})

FundsTypeOK ==
    /\ market \in Prices
    /\ cached \in Prices \union {NoQuote}
    /\ deposited \in {Deposit, Deposit + TopUp}
    /\ Balance \in Nat
    /\ granted \in Allowances /\ Allowance \in Nat
    /\ ready \in BOOLEAN
    /\ promise \in Prices \union {NoQuote}
    /\ alone \subseteq Txs

FundsInit ==
    /\ Init
    /\ market \in Prices
    /\ cached = NoQuote
    /\ deposited = Deposit
    /\ granted \in Allowances
    /\ ready = FALSE
    /\ promise = NoQuote
    /\ alone = {}

------------------------------------------------------------------------------
(* The world outside. *)

(* A preview vouches for nothing once the price falls below its own. *)
MarketMoves(price) ==
    /\ price \in Prices \ {market}
    /\ market' = price
    /\ promise' = IF promise # NoQuote /\ price < promise THEN NoQuote ELSE promise
    /\ UNCHANGED <<vars, cached, deposited, granted, ready, alone>>

TopsUp ==
    /\ deposited = Deposit
    /\ deposited' = Deposit + TopUp
    /\ UNCHANGED <<vars, market, cached, granted, ready, promise, alone>>

(* The contract reverts a transfer that balance or allowance does not      *)
(* cover, and only it.                                                     *)
ReceiptOf(t) == (t \in Paid') = (Tokens(t) <= Balance /\ Tokens(t) <= Allowance)

NetworkMoves ==
    /\ ChainStep
    /\ \A t \in mined' \ mined : ReceiptOf(t)
    /\ UNCHANGED fundVars

------------------------------------------------------------------------------
(* The quote cache. *)

(* cache_expiry passes. *)
Expires ==
    /\ cached # NoQuote
    /\ cached' = NoQuote
    /\ UNCHANGED <<vars, market, deposited, granted, ready, promise, alone>>

(* GetQuote finds nothing it may return and asks CoinMarketCap. *)
Fetch == cached' = market

(* A process that ended has no cache. *)
KeepQuote == cached' = IF pc' = "stopped" THEN NoQuote ELSE cached

------------------------------------------------------------------------------
(* payouts.Preview, in a new process; the operator confirms what it shows. *)
(* Nothing that is under way may cost more than the preview counts for it; *)
(* the preview does not show the allowance, which must be as large.        *)
Vouches(price) ==
    /\ Balance >= FromUSD(PendingUSD, price)
    /\ Allowance >= FromUSD(PendingUSD, price)
    /\ \A t \in Sent : Minable(t) => t.price >= price

Preview ==
    /\ pc = "stopped"
    /\ Fetch
    /\ promise' = IF Vouches(market) THEN market ELSE NoQuote
    /\ ready' = TRUE
    /\ UNCHANGED <<vars, market, deposited, granted, alone>>

Run(s, d) ==
    /\ ready
    /\ ready' = FALSE
    /\ Start(s, d)
    /\ KeepQuote
    /\ UNCHANGED <<market, deposited, granted, promise, alone>>

------------------------------------------------------------------------------
(* sendTransaction, up to the record in the database. *)

getStorjPrice ==
    /\ pc = "create"
    /\ cached = NoQuote
    /\ Fetch
    /\ UNCHANGED <<vars, market, deposited, granted, ready, promise, alone>>

(* "Check the STORJ balance to make sure there is enough." *)
Covered(tokens) == tokens <= Balance

AmountTooSmall(tokens) ==
    /\ tokens = 0
    /\ Return("amount")
    /\ UNCHANGED <<chainVars, dbVars, fresh, alone>>

BalanceTooSmall(tokens) ==
    /\ tokens > 0
    /\ ~Covered(tokens)
    /\ Return("short")
    /\ UNCHANGED <<chainVars, dbVars, fresh, alone>>

(* Mutant: the allowance is not looked at. *)
AllowedAnything(tokens) == TRUE

(* "Check the STORJ allowance to make sure there is enough." *)
Allowed(tokens) == tokens <= Allowance

AllowanceTooSmall(tokens) ==
    /\ tokens > 0
    /\ Covered(tokens)
    /\ ~Allowed(tokens)
    /\ Return("short")
    /\ UNCHANGED <<chainVars, dbVars, fresh, alone>>

(* No transaction of another nonce is pending, sent or not. *)
NothingElseUnderWay(t) == \A u \in PendingRows : SameSlot(t, u)

Recorded(tokens) ==
    /\ tokens > 0
    /\ Covered(tokens) /\ Allowed(tokens)
    /\ \/ /\ Create(cached)
          /\ alone' = IF NothingElseUnderWay(inflight')
                      THEN alone \union {inflight'} ELSE alone
       \/ CreateRefused(cached) /\ UNCHANGED alone

sendTransaction ==
    /\ pc = "create"
    /\ cached # NoQuote
    /\ LET tokens == FromUSD(USD[target.group], cached)
       IN  \/ AmountTooSmall(tokens)
           \/ BalanceTooSmall(tokens)
           \/ AllowanceTooSmall(tokens)
           \/ Recorded(tokens)
    /\ KeepQuote
    /\ UNCHANGED <<market, deposited, granted, ready, promise>>

(* Everything else the pipeline does has nothing to do with money. *)
OtherStep ==
    /\ \/ CheckStep
       \/ FillStep
       \/ SendAccepted
       \/ SendRefused
       \/ Abort
       \/ \E t \in Txs : Age(t)
    /\ KeepQuote
    /\ UNCHANGED <<market, deposited, granted, ready, promise, alone>>

FundsNext ==
    \/ \E price \in Prices : MarketMoves(price)
    \/ TopsUp
    \/ NetworkMoves
    \/ Expires
    \/ Preview
    \/ \E s \in Spenders, d \in Drains : Run(s, d)
    \/ getStorjPrice
    \/ sendTransaction
    \/ OtherStep

FundsSpec == FundsInit /\ [][FundsNext]_<<vars, fundVars>>

------------------------------------------------------------------------------
ReceivedUSD(g) ==
    SumFunctionOnSet([t \in Txs |-> Tokens(t) * t.price], {t \in Paid : t.group = g})

(* No payee ever receives more than the USD of the file at the price paid, *)
(* and a payout the database calls final falls short by less than a token. *)
WorthPaid ==
    \A g \in Groups :
        /\ ReceivedUSD(g) <= USD[g]
        /\ final[g] # NoTx => USD[g] - ReceivedUSD(g) < final[g].price

(* What the operator confirmed holds: while the price does not fall below  *)
(* the previewed one, a balance that covers the previewed amount is never  *)
(* found too small by the token contract, whatever is re-sent, interrupted *)
(* or in flight together; and by the pipeline only for a payout it pays    *)
(* again because a late transaction for it had been called dropped.        *)
PromiseKept ==
    promise # NoQuote =>
        /\ reverted' = reverted
        /\ result # "short" /\ result' = "short" => \E t \in Paid : t.group = target.group

PreviewHolds == [][PromiseKept]_<<vars, fundVars>>

(* The checks of balance and allowance, made for one transfer at a time,   *)
(* suffice for a transfer that was alone when they were made.              *)
AloneNeverReverts == alone \intersect reverted = {}
==============================================================================
