------------------------------ MODULE FeeCache ------------------------------
(***************************************************************************)
(* pkg/infura's cache of suggested gas fees for one chain: the entry is    *)
(* read and written under a lock, the fetch between is not, so that two    *)
(* callers may fetch at once and the slower, older answer may be stored    *)
(* last.  No command makes this cache at this commit: what is stated is    *)
(* what the package owes to whoever will.                                  *)
(*                                                                         *)
(* doing of a caller: "nothing", "looking" (has read the entry), "asking"  *)
(* (the request is on its way), "answered" (and the response).             *)
(***************************************************************************)
EXTENDS Integers

CONSTANTS
    Callers,     \* goroutines that ask for fees
    NoEntry,     \* nothing cached
    FeeExpiry,   \* how long an entry is good
    Horizon      \* bound: the clock

ASSUME FeeAssumption == FeeExpiry \in Nat /\ Horizon \in Nat

VARIABLES
    clock,     \* the time
    fees,      \* the cached entry: ts, and when its data was suggested
    doing,     \* per caller, see above
    looked,    \* per caller, the entry it read
    since,     \* per caller, the time it took after that
    response,  \* per caller, when the data in the response was suggested
    answer     \* the last answer given: age bound and when it was suggested

feeVars == <<clock, fees, doing, looked, since, response, answer>>

Entries == [ts : Nat, suggested : Nat]

FeeInit ==
    /\ clock = 0
    /\ fees = NoEntry
    /\ doing = [c \in Callers |-> "nothing"]
    /\ looked = [c \in Callers |-> NoEntry]
    /\ since = [c \in Callers |-> 0]
    /\ response = [c \in Callers |-> 0]
    /\ answer = NoEntry

TimePasses ==
    /\ clock < Horizon
    /\ clock' = clock + 1
    /\ UNCHANGED <<fees, doing, looked, since, response, answer>>

GiveFees(c, asked, suggested) ==
    /\ answer' = [ts |-> asked, suggested |-> suggested]
    /\ doing' = [doing EXCEPT ![c] = "nothing"]
    /\ looked' = [looked EXCEPT ![c] = NoEntry]
    /\ since' = [since EXCEPT ![c] = 0]
    /\ response' = [response EXCEPT ![c] = 0]
    /\ UNCHANGED clock

(* Under the lock. *)
LookUpFees(c) ==
    /\ doing[c] = "nothing"
    /\ doing' = [doing EXCEPT ![c] = "looking"]
    /\ looked' = [looked EXCEPT ![c] = fees]
    /\ UNCHANGED <<clock, fees, since, response, answer>>

StillGood(entry) == entry # NoEntry /\ clock - entry.ts < FeeExpiry

UseCachedFees(c) ==
    /\ doing[c] = "looking"
    /\ StillGood(looked[c])
    /\ GiveFees(c, clock, looked[c].suggested)
    /\ UNCHANGED fees

AskForFees(c) ==
    /\ doing[c] = "looking"
    /\ ~StillGood(looked[c])
    /\ doing' = [doing EXCEPT ![c] = "asking"]
    /\ since' = [since EXCEPT ![c] = clock]
    /\ UNCHANGED <<clock, fees, looked, response, answer>>

(* Infura answers with the fees of this moment; the response takes time. *)
FeesSuggested(c) ==
    /\ doing[c] = "asking"
    /\ doing' = [doing EXCEPT ![c] = "answered"]
    /\ response' = [response EXCEPT ![c] = clock]
    /\ UNCHANGED <<clock, fees, looked, since, answer>>

(* Mutant: the entry is dated when it is stored. *)
EntryStored(c) == [ts |-> clock, suggested |-> response[c]]

EntryAsked(c) == [ts |-> since[c], suggested |-> response[c]]

(* Under the lock. *)
StoreFees(c) ==
    /\ doing[c] = "answered"
    /\ fees' = EntryAsked(c)
    /\ GiveFees(c, since[c], response[c])

(* The request fails; the cache is left as it is. *)
FeesFail(c) ==
    /\ doing[c] \in {"asking", "answered"}
    /\ doing' = [doing EXCEPT ![c] = "nothing"]
    /\ looked' = [looked EXCEPT ![c] = NoEntry]
    /\ since' = [since EXCEPT ![c] = 0]
    /\ response' = [response EXCEPT ![c] = 0]
    /\ UNCHANGED <<clock, fees, answer>>

FeeNext ==
    \/ TimePasses
    \/ \E c \in Callers :
          \/ LookUpFees(c)
          \/ UseCachedFees(c)
          \/ AskForFees(c)
          \/ FeesSuggested(c)
          \/ StoreFees(c)
          \/ FeesFail(c)

FeeSpec == FeeInit /\ [][FeeNext]_feeVars

------------------------------------------------------------------------------
FeeTypeOK ==
    /\ clock \in Nat
    /\ fees \in Entries \union {NoEntry}
    /\ doing \in [Callers -> {"nothing", "looking", "asking", "answered"}]
    /\ looked \in [Callers -> Entries \union {NoEntry}]
    /\ since \in [Callers -> Nat] /\ response \in [Callers -> Nat]
    /\ answer \in Entries \union {NoEntry}

(* Whoever fetches beside whom, and whichever response is stored last:     *)
(* fees a caller gets were suggested less than the expiry before it asked  *)
(* for the time, or after.                                                 *)
FreshFees ==
    answer # NoEntry =>
        answer.suggested >= answer.ts \/ answer.ts - answer.suggested < FeeExpiry
==============================================================================
