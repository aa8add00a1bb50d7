----------------------------- MODULE QuoteCache -----------------------------
(***************************************************************************)
(* pkg/coinmarketcap's CachingClient for several callers and one symbol:   *)
(* the lock of the symbol is held while the quote is fetched, so whoever   *)
(* waits for it finds the quote the one before has stored.  The commands   *)
(* ask from one goroutine each (module Funds); the lock is what the client *)
(* owes to any caller.                                                     *)
(*                                                                         *)
(* stage of a caller: "calls" (between two calls), "waits" (has the        *)
(* symbol's cache, not its lock), "fetches" (holds the lock).              *)
(***************************************************************************)
EXTENDS Integers

CONSTANTS
    Quoters,      \* goroutines that ask for the quote
    Unlocked,     \* nobody holds the lock
    NeverFetched, \* the quote of an empty cache
    QuoteExpiry,  \* --quote-cache-expiry
    QuoteHorizon  \* bound: the clock

ASSUME QuoteAssumption ==
    /\ QuoteExpiry \in Nat \ {0} /\ QuoteHorizon \in Nat
    /\ Unlocked \notin Quoters /\ NeverFetched \notin Nat

VARIABLES
    hour,     \* the time
    updated,  \* when the cached quote was stored, or NeverFetched
    mutex,    \* holder of the symbol's lock
    stage     \* see above

quoteVars == <<hour, updated, mutex, stage>>

QuoteInit ==
    /\ hour = 0
    /\ updated = NeverFetched
    /\ mutex = Unlocked
    /\ stage = [q \in Quoters |-> "calls"]

HourPasses ==
    /\ hour < QuoteHorizon
    /\ hour' = hour + 1
    /\ UNCHANGED <<updated, mutex, stage>>

Unexpired == updated # NeverFetched /\ hour < updated + QuoteExpiry

GetQuote(q) ==
    /\ stage[q] = "calls"
    /\ stage' = [stage EXCEPT ![q] = "waits"]
    /\ UNCHANGED <<hour, updated, mutex>>

(* Mutant: the quote is looked for before the lock is taken, and fetched   *)
(* by everyone who found none.                                             *)
FetchWithoutLooking(q) ==
    /\ stage[q] = "waits"
    /\ mutex = Unlocked
    /\ mutex' = q
    /\ stage' = [stage EXCEPT ![q] = "fetches"]
    /\ UNCHANGED <<hour, updated>>

(* The lock is taken; an unexpired quote is returned at once.  A quote     *)
(* that expires at this very moment is fetched again.                      *)
LockCache(q) ==
    /\ stage[q] = "waits"
    /\ mutex = Unlocked
    /\ stage' = [stage EXCEPT ![q] = IF Unexpired THEN "calls" ELSE "fetches"]
    /\ mutex' = IF Unexpired THEN Unlocked ELSE q
    /\ UNCHANGED <<hour, updated>>

QuoteFetched(q) ==
    /\ stage[q] = "fetches"
    /\ updated' = hour
    /\ mutex' = Unlocked
    /\ stage' = [stage EXCEPT ![q] = "calls"]
    /\ UNCHANGED hour

QuoteFails(q) ==
    /\ stage[q] = "fetches"
    /\ mutex' = Unlocked
    /\ stage' = [stage EXCEPT ![q] = "calls"]
    /\ UNCHANGED <<hour, updated>>

FetchEnds(q) == QuoteFetched(q) \/ QuoteFails(q)

QuoteNext ==
    \/ HourPasses
    \/ \E q \in Quoters : GetQuote(q) \/ LockCache(q) \/ FetchEnds(q)

(* A sync.Mutex does not starve who waits for it, and a fetch ends. *)
QuoteFairness ==
    \A q \in Quoters : SF_quoteVars(LockCache(q)) /\ WF_quoteVars(FetchEnds(q))

QuoteSpec == QuoteInit /\ [][QuoteNext]_quoteVars /\ QuoteFairness

------------------------------------------------------------------------------
QuoteTypeOK ==
    /\ hour \in Nat
    /\ updated \in Nat \union {NeverFetched}
    /\ mutex \in Quoters \union {Unlocked}
    /\ stage \in [Quoters -> {"calls", "waits", "fetches"}]

(* CoinMarketCap is asked only when the cache has no quote to give: also   *)
(* the callers that waited while another one fetched take its quote.       *)
NeededFetch ==
    \A q \in Quoters : stage[q] = "waits" /\ stage'[q] = "fetches" =>
        ~Unexpired /\ \A r \in Quoters : stage[r] # "fetches"

OnlyNeededFetches == [][NeededFetch]_quoteVars

==============================================================================
