----------------------------- MODULE PartsProofs -----------------------------
(***************************************************************************)
(* Machine-checked proofs about the parts that work beside the pipeline:   *)
(* the two caches, the node connections, the ad-hoc deposit, the commands  *)
(* and the CSV file, for any number of callers, payout groups, records and *)
(* failures.                                                               *)
(***************************************************************************)
EXTENDS FeeCache, QuoteCache, Clients, Deposit, Command, PayoutFile, Induction

------------------------------------------------------------------------------
(* The gas fee cache *)

(* Fees were never suggested before the time they are dated, cached or on  *)
(* their way.                                                              *)
DatedBefore(held) == held # NoEntry => held.suggested >= held.ts

FeeInv ==
    /\ FeeTypeOK
    /\ DatedBefore(fees)
    /\ \A c \in Callers :
         /\ DatedBefore(looked[c])
         /\ doing[c] \in {"asking", "answered"} => since[c] <= clock
         /\ doing[c] = "answered" => since[c] <= response[c]
    /\ FreshFees

LEMMA FeeInvInit == FeeInit => FeeInv
BY DEF FeeInit, FeeInv, FeeTypeOK, DatedBefore, FreshFees, Entries

LEMMA FeeInvNext == FeeInv /\ [FeeNext]_feeVars => FeeInv'
<1> SUFFICES ASSUME FeeInv, [FeeNext]_feeVars PROVE FeeInv'
  OBVIOUS
<1> USE FeeAssumption DEF FeeInv, FeeTypeOK, DatedBefore, FreshFees, Entries
<1>1. CASE TimePasses
  BY <1>1 DEF TimePasses
<1>2. ASSUME NEW c \in Callers, LookUpFees(c) PROVE FeeInv'
  BY <1>2 DEF LookUpFees
<1>3. ASSUME NEW c \in Callers, UseCachedFees(c) PROVE FeeInv'
  BY <1>3 DEF UseCachedFees, StillGood, GiveFees
<1>4. ASSUME NEW c \in Callers, AskForFees(c) PROVE FeeInv'
  BY <1>4 DEF AskForFees
<1>5. ASSUME NEW c \in Callers, FeesSuggested(c) PROVE FeeInv'
  BY <1>5 DEF FeesSuggested
<1>6. ASSUME NEW c \in Callers, StoreFees(c) PROVE FeeInv'
  BY <1>6 DEF StoreFees, EntryAsked, GiveFees
<1>7. ASSUME NEW c \in Callers, FeesFail(c) PROVE FeeInv'
  BY <1>7 DEF FeesFail
<1>8. CASE UNCHANGED feeVars
  BY <1>8 DEF feeVars
<1>9. QED
  BY <1>1, <1>2, <1>3, <1>4, <1>5, <1>6, <1>7, <1>8 DEF FeeNext

(* The fees GetSuggestedGasFees returns are never older than the expiry    *)
(* allows, although two callers may fetch at once and the slower response  *)
(* is stored last: an entry is dated before it was asked for.              *)
THEOREM FeesAreFresh == FeeSpec => []FreshFees
<1>1. FeeInv => FreshFees
  BY DEF FeeInv
<1>2. QED
  BY <1>1, FeeInvInit, FeeInvNext, PTL DEF FeeSpec

------------------------------------------------------------------------------
(* The quote cache *)

(* Whoever fetches holds the lock of the symbol, and nobody else does.     *)
QuoteInv ==
    /\ QuoteTypeOK
    /\ \A q \in Quoters : stage[q] = "fetches" <=> mutex = q

LEMMA QuoteInvInit == QuoteInit => QuoteInv
BY QuoteAssumption DEF QuoteInit, QuoteInv, QuoteTypeOK

LEMMA QuoteInvNext == QuoteInv /\ [QuoteNext]_quoteVars => QuoteInv'
<1> SUFFICES ASSUME QuoteInv, [QuoteNext]_quoteVars PROVE QuoteInv'
  OBVIOUS
<1> USE QuoteAssumption DEF QuoteInv, QuoteTypeOK
<1>1. CASE HourPasses
  BY <1>1 DEF HourPasses
<1>2. ASSUME NEW q \in Quoters, GetQuote(q) PROVE QuoteInv'
  BY <1>2 DEF GetQuote
<1>3. ASSUME NEW q \in Quoters, LockCache(q) PROVE QuoteInv'
  BY <1>3 DEF LockCache
<1>4. ASSUME NEW q \in Quoters, FetchEnds(q) PROVE QuoteInv'
  BY <1>4 DEF FetchEnds, QuoteFetched, QuoteFails
<1>5. CASE UNCHANGED quoteVars
  BY <1>5 DEF quoteVars
<1>6. QED
  BY <1>1, <1>2, <1>3, <1>4, <1>5 DEF QuoteNext

(* GetQuote asks CoinMarketCap only when the cache has no quote to give,   *)
(* and never beside another caller of the same symbol.                     *)
THEOREM FetchesAreNeeded == QuoteSpec => OnlyNeededFetches
<1>1. QuoteInv /\ [QuoteNext]_quoteVars => NeededFetch
  <2> SUFFICES ASSUME QuoteInv, [QuoteNext]_quoteVars,
                      NEW q \in Quoters, stage[q] = "waits", stage'[q] = "fetches"
               PROVE  ~Unexpired /\ \A r \in Quoters : stage[r] # "fetches"
    BY DEF NeededFetch
  <2> USE DEF QuoteInv, QuoteTypeOK
  <2>1. PICK r \in Quoters : LockCache(r)
    BY DEF QuoteNext, quoteVars, HourPasses, GetQuote, FetchEnds, QuoteFetched, QuoteFails
  <2>2. r = q
    BY <2>1 DEF LockCache
  <2>3. QED
    BY <2>1, <2>2, QuoteAssumption DEF LockCache
<1>2. QED
  BY <1>1, QuoteInvInit, QuoteInvNext, PTL DEF QuoteSpec, OnlyNeededFetches

------------------------------------------------------------------------------
(* The node connections *)

(* A connection of the eth section belongs to the payer or auditor made of *)
(* it, or to the constructor under way, until somebody closes it.          *)
OwnerInv ==
    /\ ClientsTypeOK
    /\ conn["eth"] = "open" =>
         \/ "eth" \in ready
         \/ step = "dialed" /\ "eth" \in wanted
    /\ entry # "CreatePayer" /\ step \in {"making", "dialed", "returned"} =>
         \A k \in ready : conn[k] = "open"
    /\ step = "dialed" => \A k \in wanted : NextKind(k) => conn[k] = "open"
    /\ step \in {"failed", "closed"} => conn["eth"] # "open"

LEMMA OwnerInvInit == ClientsInit => OwnerInv
BY DEF ClientsInit, OwnerInv, ClientsTypeOK, Kinds

LEMMA OwnerInvNext == OwnerInv /\ [ClientsNext]_clientVars => OwnerInv'
<1> SUFFICES ASSUME OwnerInv, [ClientsNext]_clientVars PROVE OwnerInv'
  OBVIOUS
<1> USE DEF OwnerInv, ClientsTypeOK, Kinds, NextKind, Closes, Closed
<1>1. CASE NotDialed
  BY <1>1 DEF NotDialed, FailClosing
<1>2. ASSUME NEW k \in Kinds, Dialed(k) PROVE OwnerInv'
  BY <1>2 DEF Dialed
<1>3. ASSUME NEW k \in Kinds, NodeRefuses(k) PROVE OwnerInv'
  BY <1>3 DEF NodeRefuses, FailClosing
<1>4. ASSUME NEW k \in Kinds, Made(k) PROVE OwnerInv'
  BY <1>4 DEF Made, ClosedWhenMade
<1>5. CASE Returned
  BY <1>5 DEF Returned
<1>6. CASE CloseAll
  BY <1>6 DEF CloseAll
<1>7. CASE UNCHANGED clientVars
  BY <1>7 DEF clientVars
<1>8. QED
  BY <1>1, <1>2, <1>3, <1>4, <1>5, <1>6, <1>7
     DEF ClientsNext, DialsEth, DialsZkSyncEra, NewEthAuditor, NewZkSyncEraAuditor,
         EthPayerFails, ZkSyncEraPayerFails, MadeEth, MadeZkSyncEra

(* NewPayers and NewAuditors hand out connections that work until they are *)
(* closed, and leave none of the eth section behind when they fail.        *)
THEOREM ConfiguredClientsAreOwned == ClientsSpec => []ClientsOwned
<1>1. OwnerInv => ClientsOwned
  BY DEF OwnerInv, ClientsOwned, Reaches
<1>2. QED
  BY <1>1, OwnerInvInit, OwnerInvNext, PTL DEF ClientsSpec

------------------------------------------------------------------------------
(* The ad-hoc deposit *)

(* The tokens move with the success of the transaction and with nothing    *)
(* else; what was said of it stays true, as it cannot be mined twice.      *)
MovedInv ==
    /\ DepositTypeOK
    /\ moved = IF onChain = "success" THEN Amount ELSE 0
    /\ stand \in {"zksync", "storj", "shown", "confirm", "send"} => onChain = "none"
    /\ stand = "deposited" => onChain = "success"
    /\ stand = "failed" => onChain = "reverted"

LEMMA MovedInvInit == DepositInit => MovedInv
BY DepositAssumption DEF DepositInit, MovedInv, DepositTypeOK

LEMMA MovedInvNext == MovedInv /\ [DepositNext]_depositVars => MovedInv'
<1> SUFFICES ASSUME MovedInv, [DepositNext]_depositVars PROVE MovedInv'
  OBVIOUS
<1> USE DepositAssumption DEF MovedInv, DepositTypeOK
<1>1. CASE getZkSyncContract \/ getStorjContract \/ NotEnough \/ Shown \/ promptConfirm
  BY <1>1 DEF getZkSyncContract, getStorjContract, NotEnough, Shown, promptConfirm
<1>2. CASE DepositERC20
  BY <1>2 DEF DepositERC20
<1>3. CASE Sleep
  BY <1>3 DEF Sleep
<1>4. CASE TransactionReceipt
  BY <1>4 DEF TransactionReceipt
<1>5. CASE TransactionByHash
  BY <1>5 DEF TransactionByHash
<1>6. CASE QueryError
  BY <1>6 DEF QueryError
<1>7. CASE SpendsElsewhere
  BY <1>7 DEF SpendsElsewhere
<1>8. CASE MinedDeposit
  BY <1>8 DEF MinedDeposit, Enough
<1>9. CASE PoolMoves
  BY <1>9 DEF PoolMoves
<1>10. CASE UNCHANGED depositVars
  BY <1>10 DEF depositVars
<1>11. QED
  BY <1>1, <1>2, <1>3, <1>4, <1>5, <1>6, <1>7, <1>8, <1>9, <1>10
     DEF DepositNext, waitForTransaction

LEMMA DroppedIsGone ==
    ASSUME MovedInv, [DepositNext]_depositVars
    PROVE  stand # "dropped" /\ stand' = "dropped" => onChain = "gone"
BY DEF DepositNext, depositVars, getZkSyncContract, getStorjContract, NotEnough, Shown,
       promptConfirm, DepositERC20, waitForTransaction, Sleep, TransactionReceipt,
       TransactionByHash, QueryError, SpendsElsewhere, MinedDeposit, PoolMoves

(* waitForTransaction reports what became of the deposit, although it asks *)
(* two questions and the transaction may be mined, dropped or found again  *)
(* before, between and after them.                                         *)
THEOREM DepositVerdictIsTrue == DepositSpec => VerdictIsTrue
<1>1. MovedInv /\ MovedInv' /\ [DepositNext]_depositVars => TrueVerdict
  BY DroppedIsGone DEF MovedInv, TrueVerdict
<1>2. QED
  BY <1>1, MovedInvInit, MovedInvNext, PTL DEF DepositSpec, VerdictIsTrue

------------------------------------------------------------------------------
(* The commands *)

AfterPrompt == {"load", "first check", "fill", "check", "poll", "ending"}
Loaded == {"first check", "fill", "check", "poll", "ending"}

(* Nothing pending is missing from memory once it is loaded; a run past    *)
(* the prompt has been agreed to; a process that goes on has no status.    *)
CommandInv ==
    /\ CommandTypeOK
    /\ at # "off" => status = "none"
    /\ command = "run" /\ at \in AfterPrompt => agreed
    /\ at \in Loaded => \A g \in Pending : \E i \in DOMAIN pipe : pipe[i] = g
    /\ at = "poll" => Pending = {}
    /\ at = "ending" => draining \/ Unattached = {}
    /\ at = "ending" => Pending = {}
    /\ ExitTellsOutcome

LEMMA ElementsOf ==
    ASSUME NEW S, NEW s \in Seq(S)
    PROVE  /\ \A i \in DOMAIN s : s[i] \in S
           /\ s # <<>> => s[Len(s)] \in S
OBVIOUS

LEMMA CommandInvInit == CommandInit => CommandInv
<1> SUFFICES ASSUME CommandInit PROVE CommandInv
  OBVIOUS
<1>1. CommandTypeOK
  <2>1. pipe \in Seq(Batch \union {AdHoc})
    BY DEF CommandInit
  <2>2. draining \in BOOLEAN /\ agreed \in BOOLEAN /\ canceled \in BOOLEAN
    BY DEF CommandInit
  <2>3. /\ state \in [Batch \union {AdHoc} -> {"none", "pending", "confirmed"}]
        /\ nonceOf \in [Batch \union {AdHoc} -> Nat]
    BY DEF CommandInit
  <2>4. QED
    BY <2>1, <2>2, <2>3 DEF CommandInit, CommandTypeOK
<1>2. QED
  BY <1>1 DEF CommandInit, CommandInv, AfterPrompt, Loaded, ExitTellsOutcome

(* A process that ends with an error promises nothing. *)
LEMMA ExitKeepsInv ==
    ASSUME CommandInv, Exit("error"), UNCHANGED state
    PROVE  CommandInv'
<1>1. CommandTypeOK'
  <2>1. (pipe \in Seq(Batch \union {AdHoc}))'
    BY DEF Exit
  <2>2. (draining \in BOOLEAN /\ agreed \in BOOLEAN /\ canceled \in BOOLEAN)'
    BY DEF Exit, CommandInv, CommandTypeOK
  <2>3. (/\ at = "off" /\ status = "error" /\ expected = 0
         /\ command \in {"run", "transfer"}
         /\ nonceOf \in [Batch \union {AdHoc} -> Nat])'
    BY DEF CommandInv, CommandTypeOK, Exit
  <2>4. QED
    BY <2>1, <2>2, <2>3 DEF CommandInv, CommandTypeOK
<1>2. at' = "off" /\ status' = "error"
  BY DEF Exit
<1>3. QED
  BY <1>1, <1>2 DEF CommandInv, AfterPrompt, Loaded, ExitTellsOutcome

LEMMA SetupKeepsInv ==
    ASSUME CommandInv,
           \/ StartRun \/ StartTransfer \/ OpenLog \/ NewSimPayer \/ OpenDatabase
           \/ Preview \/ PromptConfirm \/ SIGINT
    PROVE  CommandInv'
<1> USE CommandAssumption DEF CommandInv
<1>1. ASSUME NEW which \in {"run", "transfer"}, NEW drain \in BOOLEAN, Start(which, drain)
      PROVE  CommandInv'
  <2>1. CommandTypeOK'
    BY <1>1 DEF CommandTypeOK, Start, budget
  <2>2. at' = "log" /\ status' = "none"
    BY <1>1 DEF Start
  <2>3. QED
    BY <2>1, <2>2 DEF AfterPrompt, Loaded, ExitTellsOutcome
<1>2. CASE OpenLog \/ NewSimPayer \/ OpenDatabase \/ Preview
  <2>1. CommandTypeOK'
    BY <1>2 DEF CommandTypeOK, OpenLog, NewSimPayer, OpenDatabase, Preview, Proceed, budget,
       database
  <2>2. /\ at # "off" /\ status' = status
        /\ at' \notin Loaded
        /\ at' \in AfterPrompt => command' # "run"
    BY <1>2 DEF OpenLog, NewSimPayer, OpenDatabase, Preview, Proceed, AfterPrompt, Loaded
  <2>3. QED
    BY <2>1, <2>2 DEF AfterPrompt, Loaded, ExitTellsOutcome
<1>3. CASE PromptConfirm
  <2>1. CommandTypeOK'
    BY <1>3 DEF CommandTypeOK, PromptConfirm, budget, database
  <2>2. at # "off" /\ at' = "load" /\ agreed' /\ status' = status
    BY <1>3 DEF PromptConfirm
  <2>3. QED
    BY <2>1, <2>2 DEF AfterPrompt, Loaded, ExitTellsOutcome
<1>4. CASE SIGINT
  <2>1. CommandTypeOK'
    BY <1>4 DEF CommandTypeOK, SIGINT, database
  <2>2. at # "off" /\ UNCHANGED <<at, command, draining, agreed, status, state, pipe>>
    BY <1>4 DEF SIGINT, database
  <2>3. UNCHANGED <<Pending, Unattached>>
    BY <2>2 DEF Pending, Unattached, Imported
  <2>4. QED
    BY <2>1, <2>2, <2>3 DEF ExitTellsOutcome
<1>5. QED
  BY <1>1, <1>2, <1>3, <1>4 DEF StartRun, StartTransfer

(* LoadPipeline puts every pending payout group into memory, and a check   *)
(* that has finished leaves none pending.                                  *)
LEMMA CheckKeepsInv ==
    ASSUME CommandInv,
           LoadPipeline \/ FinalizeNonceGroup \/ NonceGroupsChecked \/ PollInterval
    PROVE  CommandInv'
<1> USE DEF CommandInv
<1> USE CommandAssumption
<1>1. CASE LoadPipeline
  <2>1. at = "load" /\ at' = "first check" /\ status' = status
    BY <1>1 DEF LoadPipeline, Proceed
  <2>2. UNCHANGED <<state, nonceOf, command, draining, agreed, canceled, expected>>
    BY <1>1 DEF LoadPipeline, Proceed, database
  <2>3. UNCHANGED Pending
    BY <2>2 DEF Pending, Imported
  <2>4. pipe' \in Seq(Batch \union {AdHoc})
    <3>1. Pending \subseteq Batch \union {AdHoc} /\ IsFiniteSet(Pending)
      <4>1. IsFiniteSet(Batch \union {AdHoc})
        BY FS_AddElement
      <4>2. Pending \subseteq Batch \union {AdHoc}
        BY DEF Pending, Imported
      <4>3. QED
        BY <4>1, <4>2, FS_Subset
    <3>2. Cardinality(Pending) \in Nat
      BY <3>1, FS_CardinalityType
    <3>3. pipe' \in [1 .. Cardinality(Pending) -> Pending]
      BY <1>1 DEF LoadPipeline
    <3>4. QED
      BY <3>1, <3>2, <3>3
  <2>5. \A g \in Pending : \E i \in DOMAIN pipe' : pipe'[i] = g
    BY <1>1 DEF LoadPipeline
  <2>6. CommandTypeOK'
    BY <2>1, <2>2, <2>4 DEF CommandTypeOK
  <2>7. QED
    BY <2>1, <2>2, <2>3, <2>5, <2>6 DEF AfterPrompt, Loaded, ExitTellsOutcome
<1>2. CASE FinalizeNonceGroup
  <2>1. at \in {"first check", "check"}
        /\ UNCHANGED <<at, command, draining, agreed, canceled, status, nonceOf, pipe,
                       expected>>
    BY <1>2 DEF FinalizeNonceGroup, process
  <2>2. PICK g \in Batch \union {AdHoc} : state' = [state EXCEPT ![g] = "confirmed"]
    <3>1. PICK i \in DOMAIN pipe : state' = [state EXCEPT ![pipe[i]] = "confirmed"]
      BY <1>2 DEF FinalizeNonceGroup
    <3>2. pipe[i] \in Batch \union {AdHoc}
      BY ElementsOf DEF CommandTypeOK
    <3>3. QED
      BY <3>1, <3>2
  <2>3. CommandTypeOK'
    BY <2>1, <2>2 DEF CommandTypeOK
  <2>4. Pending' \subseteq Pending
    BY <2>1, <2>2 DEF Pending, Imported, CommandTypeOK
  <2>5. QED
    BY <2>1, <2>3, <2>4 DEF AfterPrompt, Loaded, ExitTellsOutcome
<1>3. CASE NonceGroupsChecked
  <2>1. /\ at \in {"first check", "check"} /\ at' \in {"fill", "poll"} /\ status' = status
        /\ UNCHANGED <<state, nonceOf, command, draining, agreed, canceled, expected>>
        /\ pipe' = pipe \/ pipe' = <<>>
    BY <1>3 DEF NonceGroupsChecked, Proceed, database
  <2>2. Pending = {}
    <3>1. \A i \in DOMAIN pipe : state[pipe[i]] # "pending"
      BY <1>3 DEF NonceGroupsChecked
    <3>2. \A g \in Pending : \E i \in DOMAIN pipe : pipe[i] = g
      BY <2>1 DEF Loaded
    <3>3. QED
      BY <3>1, <3>2 DEF Pending
  <2>3. Pending' = {}
    BY <2>1, <2>2 DEF Pending, Imported
  <2>4. CommandTypeOK'
    <3>0. <<>> \in Seq(Batch \union {AdHoc})
      OBVIOUS
    <3>1. pipe \in Seq(Batch \union {AdHoc})
      BY DEF CommandTypeOK
    <3>2. pipe' \in Seq(Batch \union {AdHoc})
      BY <2>1, <3>0, <3>1
    <3>3. QED
      BY <2>1, <3>2 DEF CommandTypeOK
  <2>5. QED
    BY <2>1, <2>3, <2>4 DEF AfterPrompt, Loaded, ExitTellsOutcome
<1>4. CASE PollInterval
  <2>1. /\ at = "poll" /\ at' = "fill" /\ status' = status /\ pipe' = <<>>
        /\ UNCHANGED <<state, nonceOf, command, draining, agreed, canceled, expected>>
    BY <1>4 DEF PollInterval, Proceed, database
  <2>2. Pending' = {}
    BY <2>1 DEF Pending, Imported
  <2>3. CommandTypeOK'
    <3>1. pipe' \in Seq(Batch \union {AdHoc})
      BY <2>1
    <3>2. QED
      BY <2>1, <3>1 DEF CommandTypeOK
  <2>4. QED
    BY <2>1, <2>2, <2>3 DEF AfterPrompt, Loaded, ExitTellsOutcome
<1>5. QED
  BY <1>1, <1>2, <1>3, <1>4

(* What joins the pipeline is in memory; the loop ends when nothing is     *)
(* left in the pipeline and nothing more is to join it.                    *)
LEMMA FillKeepsInv ==
    ASSUME CommandInv, sendTransaction \/ Filled \/ AllDone
    PROVE  CommandInv'
<1> USE CommandAssumption DEF CommandInv
<1>1. CASE sendTransaction
  <2>1. /\ at = "fill" /\ expected' \in {0, 1}
        /\ UNCHANGED <<at, command, draining, agreed, canceled, status>>
    BY <1>1 DEF sendTransaction, process, CommandTypeOK
  <2>2. PICK g \in Unattached :
          /\ state' = [state EXCEPT ![g] = "pending"]
          /\ nonceOf' = [nonceOf EXCEPT ![g] = NextNonce]
          /\ pipe' = Append(pipe, g)
    BY <1>1 DEF sendTransaction
  <2>3. g \in Batch \union {AdHoc}
    BY DEF Unattached, Imported
  <2>4. NextNonce \in Nat
    <3>1. CASE pipe = <<>>
      BY <3>1 DEF NextNonce
    <3>2. CASE pipe # <<>>
      <4>1. pipe[Len(pipe)] \in Batch \union {AdHoc}
        BY <3>2, ElementsOf DEF CommandTypeOK
      <4>2. nonceOf[pipe[Len(pipe)]] \in Nat
        BY <4>1 DEF CommandTypeOK
      <4>3. QED
        BY <3>2, <4>2 DEF NextNonce
    <3>3. QED
      BY <3>1, <3>2
  <2>5. pipe' \in Seq(Batch \union {AdHoc})
    BY <2>2, <2>3, AppendedTo DEF CommandTypeOK
  <2>6. CommandTypeOK'
    BY <2>1, <2>2, <2>3, <2>4, <2>5 DEF CommandTypeOK
  <2>7. Pending' \subseteq Pending \union {g}
    BY <2>1, <2>2, <2>3 DEF Pending, Imported, CommandTypeOK
  <2>8. \A h \in Pending' : \E i \in DOMAIN pipe' : pipe'[i] = h
    <3>1. /\ DOMAIN pipe' = 1 .. Len(pipe) + 1 /\ DOMAIN pipe = 1 .. Len(pipe)
          /\ Len(pipe) \in Nat
          /\ \A i \in DOMAIN pipe : pipe'[i] = pipe[i]
          /\ pipe'[Len(pipe) + 1] = g
      <4>1. pipe \in Seq(Batch \union {AdHoc})
        BY DEF CommandTypeOK
      <4>2. QED
        BY ONLY <2>2, <2>3, <4>1, AppendedTo
    <3>2. \A h \in Pending : \E i \in DOMAIN pipe : pipe[i] = h
      BY <2>1 DEF Loaded
    <3>3. QED
      BY <2>7, <3>1, <3>2
  <2>9. QED
    BY <2>1, <2>6, <2>8 DEF AfterPrompt, Loaded, ExitTellsOutcome
<1>2. CASE Filled
  <2>1. /\ at = "fill" /\ at' \in {"ending", "check"} /\ status' = status
        /\ UNCHANGED <<state, nonceOf, pipe, command, draining, agreed, canceled, expected>>
    BY <1>2 DEF Filled, Proceed, database
  <2>2. UNCHANGED <<Pending, Unattached>>
    BY <2>1 DEF Pending, Unattached, Imported
  <2>3. at' = "ending" => Pending = {} /\ (draining \/ Unattached = {})
    <3>1. SUFFICES ASSUME at' = "ending"
                   PROVE  Pending = {} /\ (draining \/ Unattached = {})
      OBVIOUS
    <3>2. pipe = <<>> /\ ~MayAdd
      BY <1>2, <3>1 DEF Filled, Proceed
    <3>3. Pending = {}
      BY <2>1, <3>2 DEF Loaded
    <3>4. Len(pipe) < PipelineLimit
      BY <3>2
    <3>5. QED
      BY <3>2, <3>3, <3>4 DEF MayAdd
  <2>4. CommandTypeOK'
    BY <2>1 DEF CommandTypeOK
  <2>5. QED
    BY <2>1, <2>2, <2>3, <2>4 DEF AfterPrompt, Loaded, ExitTellsOutcome
<1>3. CASE AllDone
  <2>1. /\ at = "ending" /\ at' = "off" /\ status' = "ok" /\ pipe' = <<>> /\ expected' = 0
        /\ UNCHANGED <<state, nonceOf, command, draining, agreed, canceled>>
    BY <1>3 DEF AllDone, Exit
  <2>2. UNCHANGED <<Pending, Unattached>>
    BY <2>1 DEF Pending, Unattached, Imported
  <2>3. CommandTypeOK'
    <3>1. pipe' \in Seq(Batch \union {AdHoc})
      BY <2>1
    <3>2. QED
      BY <2>1, <3>1 DEF CommandTypeOK
  <2>4. QED
    BY <2>1, <2>2, <2>3 DEF AfterPrompt, Loaded, ExitTellsOutcome
<1>4. QED
  BY <1>1, <1>2, <1>3

LEMMA CommandInvNext == CommandInv /\ [CommandNext]_commandVars => CommandInv'
<1> SUFFICES ASSUME CommandInv, [CommandNext]_commandVars PROVE CommandInv'
  OBVIOUS
<1>1. CASE \/ StartRun \/ StartTransfer \/ OpenLog \/ NewSimPayer \/ OpenDatabase
           \/ Preview \/ PromptConfirm \/ SIGINT
  BY <1>1, SetupKeepsInv
<1>2. CASE LoadPipeline \/ FinalizeNonceGroup \/ NonceGroupsChecked \/ PollInterval
  BY <1>2, CheckKeepsInv
<1>3. CASE sendTransaction \/ Filled \/ AllDone
  BY <1>3, FillKeepsInv
<1>4. CASE PromptDeclined \/ UsedNonceReturned \/ ContextCanceled \/ Dies
  BY <1>4, ExitKeepsInv DEF PromptDeclined, UsedNonceReturned, ContextCanceled, Dies
<1>5. CASE UNCHANGED commandVars
  <2>1. UNCHANGED <<Pending, Unattached>>
    BY <1>5 DEF commandVars, process, database, Pending, Unattached, Imported
  <2>2. QED
    BY <1>5, <2>1 DEF commandVars, process, database, CommandInv, CommandTypeOK,
       ExitTellsOutcome
<1>6. QED
  BY <1>1, <1>2, <1>3, <1>4, <1>5 DEF CommandNext, Works

(* The exit status of a command is 0 only when all it was for is paid:     *)
(* whoever scripts "payouts run" may rely on it, whatever was interrupted, *)
(* killed or repeated before.                                              *)
THEOREM ExitStatusIsTrue == CommandSpec => []ExitTellsOutcome
<1>1. CommandInv => ExitTellsOutcome
  BY DEF CommandInv
<1>2. QED
  BY <1>1, CommandInvInit, CommandInvNext, PTL DEF CommandSpec

(* Only sendTransaction attaches a payout group, and it is reached only    *)
(* over the prompt.                                                        *)
LEMMA OnlySendingRecords ==
    ASSUME CommandInv, [CommandNext]_commandVars
    PROVE  Recording
<1> SUFFICES ASSUME NEW g \in Batch, state[g] = "none", state'[g] # "none"
             PROVE  command = "run" /\ agreed /\ ~draining /\ ~canceled
  BY DEF Recording
<1> USE CommandAssumption DEF CommandInv, CommandTypeOK
<1>1. ASSUME NEW which, NEW drain, Start(which, drain) PROVE FALSE
  BY <1>1 DEF Start
<1>2. state' # state
  OBVIOUS
<1>3. CASE FinalizeNonceGroup
  <2>1. PICK h \in Batch \union {AdHoc} :
          state[h] = "pending" /\ state' = [state EXCEPT ![h] = "confirmed"]
    BY <1>3 DEF FinalizeNonceGroup
  <2>2. QED
    BY <2>1
<1>4. CASE sendTransaction
  <2>1. at = "fill" /\ ~canceled /\ ~draining
    BY <1>4 DEF sendTransaction, MayAdd
  <2>2. PICK h \in Unattached : state' = [state EXCEPT ![h] = "pending"]
    BY <1>4 DEF sendTransaction
  <2>3. g = h
    BY <2>2
  <2>4. command = "run"
    BY <2>3 DEF Unattached, Imported
  <2>5. QED
    BY <2>1, <2>4 DEF AfterPrompt
<1>5. FinalizeNonceGroup \/ sendTransaction
  BY <1>1, <1>2 DEF CommandNext, Works, StartRun, StartTransfer, OpenLog, NewSimPayer,
     OpenDatabase, Preview, PromptConfirm, PromptDeclined, SIGINT, LoadPipeline,
     NonceGroupsChecked, PollInterval, UsedNonceReturned, Filled, AllDone,
     ContextCanceled, Dies, database, commandVars
<1>6. QED
  BY <1>3, <1>4, <1>5

(* Nothing of the batch is recorded for payment unless the operator of the *)
(* run agreed to it, the run does not drain and nobody has interrupted it. *)
THEOREM NothingUnwantedIsRecorded == CommandSpec => RecordsOnlyWhatIsWanted
BY OnlySendingRecords, CommandInvInit, CommandInvNext, PTL
   DEF CommandSpec, RecordsOnlyWhatIsWanted

------------------------------------------------------------------------------
(* The CSV file *)

(* What has been parsed after each of the first n records.                 *)
NothingParsed == [line |-> 0, inHeader |-> TRUE, ok |-> TRUE, rows |-> <<>>]

ParsedUpTo(records, n, parsed) ==
    parsed = [i \in 0 .. n |->
                IF i = 0 THEN NothingParsed ELSE ParseRecord(parsed[i - 1], records[i])]

LEMMA ParsedUpToExists ==
    ASSUME NEW records, NEW n \in Nat
    PROVE  \E parsed : ParsedUpTo(records, n, parsed)
<1> DEFINE Good == {k \in Nat : \E parsed : ParsedUpTo(records, k, parsed)}
<1>1. 0 \in Good
  <2>1. ParsedUpTo(records, 0, [i \in 0 .. 0 |-> NothingParsed])
    BY DEF ParsedUpTo
  <2>2. QED
    BY <2>1
<1>2. ASSUME NEW k \in Nat, k \in Good PROVE k + 1 \in Good
  <2>1. PICK parsed : ParsedUpTo(records, k, parsed)
    BY <1>2
  <2> DEFINE more == [i \in 0 .. k + 1 |->
                        IF i = k + 1 THEN ParseRecord(parsed[k], records[i]) ELSE parsed[i]]
  <2>2. \A i \in 0 .. k : parsed[i] = IF i = 0 THEN NothingParsed
                                      ELSE ParseRecord(parsed[i - 1], records[i])
    BY <2>1 DEF ParsedUpTo
  <2>3. more[k + 1] = ParseRecord(parsed[k], records[k + 1])
    OBVIOUS
  <2>4. \A i \in 0 .. k : more[i] = parsed[i]
    OBVIOUS
  <2>5. more[k + 1] = ParseRecord(more[(k + 1) - 1], records[k + 1])
    BY <2>3, <2>4
  <2>6. ASSUME NEW i \in 0 .. k + 1
        PROVE  more[i] = IF i = 0 THEN NothingParsed ELSE ParseRecord(more[i - 1], records[i])
    <3>1. CASE i = k + 1
      <4> HIDE DEF more
      <4>1. QED
        BY <2>5, <3>1
    <3>2. CASE i # k + 1
      <4>1. i \in 0 .. k /\ (i # 0 => i - 1 \in 0 .. k)
        BY <3>2
      <4> HIDE DEF more
      <4>2. QED
        BY <2>2, <2>4, <4>1
    <3>3. QED
      BY <3>1, <3>2
  <2>7. DOMAIN more = 0 .. k + 1 /\ more = [i \in DOMAIN more |-> more[i]]
    OBVIOUS
  <2>8. ParsedUpTo(records, k + 1, more)
    <3> HIDE DEF more
    <3>1. QED
      BY <2>6, <2>7 DEF ParsedUpTo
  <2>9. QED
    BY <2>8
<1>3. Nat \subseteq Good
  <2> HIDE DEF Good
  <2>1. QED
    BY <1>1, <1>2, CountingUp
<1>4. QED
  BY <1>3

LEMMA ParseIsTheLoop ==
    ASSUME NEW records, Len(records) \in Nat
    PROVE  \E parsed : ParsedUpTo(records, Len(records), parsed)
                       /\ Parse(records) = parsed[Len(records)]
<1> DEFINE parsed == CHOOSE p : ParsedUpTo(records, Len(records), p)
<1>1. ParsedUpTo(records, Len(records), parsed)
  BY ParsedUpToExists
<1>2. Parse(records) = parsed[Len(records)]
  BY DEF Parse, ParsedUpTo, NothingParsed
<1>3. QED
  BY <1>1, <1>2

Row == [line : Nat, payee : Payees, usd : Amounts]

(* What one more record does to the meaning of the file up to it.          *)
WellFormedTo(records, n) ==
    \A i \in Content(records) : i <= n =>
        /\ records[i].width = 2
        /\ IF \E j \in Content(records) : j < i
           THEN Payment(records[i])
           ELSE Header(records[i])

PaymentsTo(records, n) == UNION {PaymentsAt(records, i) : i \in 1 .. n}

(* Rows in the order of their lines. *)
InOrder(rows, n) ==
    /\ \A k \in 1 .. Len(rows) : rows[k].line <= n
    /\ \A j, k \in 1 .. Len(rows) : j < k => rows[j].line < rows[k].line

ParseInv(records, n, parse) ==
    /\ parse.line = n
    /\ parse.rows \in Seq(Row)
    /\ parse.ok <=> WellFormedTo(records, n)
    /\ parse.ok =>
         /\ parse.inHeader <=> \A i \in Content(records) : i > n
         /\ ToSet(parse.rows) = PaymentsTo(records, n)
         /\ InOrder(parse.rows, n)

Parses == [line : Nat, inHeader : BOOLEAN, ok : BOOLEAN, rows : Seq(Row)]

(* A line has the payment of its record, if it is one. *)
LEMMA PaymentAtLine ==
    ASSUME NEW records \in Seq(Records), NEW n \in Nat, n + 1 \in DOMAIN records
    PROVE  /\ PaymentsTo(records, n + 1) = PaymentsTo(records, n) \union PaymentsAt(records, n + 1)
           /\ Skipped(records[n + 1]) => PaymentsAt(records, n + 1) = {}
           /\ Header(records[n + 1]) => PaymentsAt(records, n + 1) = {}
           /\ ~Skipped(records[n + 1]) /\ Payment(records[n + 1]) =>
                PaymentsAt(records, n + 1) = {RowOf(n + 1, records[n + 1])}
           /\ Skipped(records[n + 1]) <=> n + 1 \notin Content(records)
<1>1. 1 .. n + 1 = (1 .. n) \union {n + 1}
  OBVIOUS
<1>2. Header(records[n + 1]) => ~Payment(records[n + 1])
  BY HeadersAreNotPayments DEF Header, Payment
<1>3. PaymentsTo(records, n + 1) = PaymentsTo(records, n) \union PaymentsAt(records, n + 1)
  BY <1>1 DEF PaymentsTo
<1>4. Skipped(records[n + 1]) <=> n + 1 \notin Content(records)
  BY DEF Content
<1>5. QED
  BY <1>2, <1>3, <1>4 DEF PaymentsAt

(* One more record of the contents. *)
LEMMA WellFormedStep ==
    ASSUME NEW records \in Seq(Records), NEW n \in Nat, n + 1 \in DOMAIN records
    PROVE  WellFormedTo(records, n + 1) <=>
             /\ WellFormedTo(records, n)
             /\ n + 1 \in Content(records) =>
                  /\ records[n + 1].width = 2
                  /\ IF \A i \in Content(records) : i > n
                     THEN Header(records[n + 1]) ELSE Payment(records[n + 1])
<1>1. Content(records) \subseteq Nat
  BY DEF Content
<1>2. \A i \in Content(records) : i <= n + 1 <=> i <= n \/ i = n + 1
  BY <1>1
<1>3. (\E j \in Content(records) : j < n + 1) <=> ~\A i \in Content(records) : i > n
  BY <1>1
<1>4. QED
  BY <1>2, <1>3 DEF WellFormedTo

LEMMA RowAppended ==
    ASSUME NEW rows \in Seq(Row), NEW n \in Nat, InOrder(rows, n),
           NEW row \in Row, row.line = n + 1
    PROVE  /\ Append(rows, row) \in Seq(Row)
           /\ InOrder(Append(rows, row), n + 1)
           /\ ToSet(Append(rows, row)) = ToSet(rows) \union {row}
<1> DEFINE m == Len(rows)
           more == Append(rows, row)
<1>1. /\ more \in Seq(Row) /\ m \in Nat /\ DOMAIN more = 1 .. m + 1 /\ Len(more) = m + 1
      /\ DOMAIN rows = 1 .. m
      /\ \A i \in 1 .. m : more[i] = rows[i]
      /\ more[m + 1] = row
  BY AppendedTo
<1>2. \A i \in 1 .. m : rows[i].line \in Nat /\ rows[i].line <= n
  <2>1. \A i \in 1 .. m : rows[i] \in Row
    BY <1>1
  <2>2. QED
    BY <2>1 DEF InOrder, Row
<1> HIDE DEF more
<1>3. \A i \in 1 .. m + 1 : i \in 1 .. m \/ i = m + 1
  BY <1>1
<1>4. m + 1 \in 1 .. m + 1 /\ \A i \in 1 .. m : i \in 1 .. m + 1
  BY <1>1
<1>5. ToSet(more) = ToSet(rows) \union {row}
  BY <1>1, <1>3, <1>4 DEF ToSet
<1>6. \A i \in 1 .. m + 1 : more[i].line <= n + 1
  <2>1. SUFFICES ASSUME NEW i \in 1 .. m + 1 PROVE more[i].line <= n + 1
    OBVIOUS
  <2>2. CASE i \in 1 .. m
    BY <1>1, <1>2, <2>2
  <2>3. CASE i = m + 1
    BY <1>1, <2>3
  <2>4. QED
    BY <1>3, <2>2, <2>3
<1>7. \A j, k \in 1 .. m + 1 : j < k => more[j].line < more[k].line
  <2>1. SUFFICES ASSUME NEW j \in 1 .. m + 1, NEW k \in 1 .. m + 1, j < k
                 PROVE  more[j].line < more[k].line
    OBVIOUS
  <2>2. j \in 1 .. m
    BY <1>1, <2>1
  <2>3. CASE k \in 1 .. m
    BY <1>1, <2>1, <2>2, <2>3 DEF InOrder
  <2>4. CASE k = m + 1
    <3>1. more[j] = rows[j] /\ more[k] = row
      BY <1>1, <2>2, <2>4
    <3>2. rows[j].line <= n /\ rows[j].line \in Nat
      BY <1>2, <2>2
    <3>3. QED
      BY <3>1, <3>2
  <2>5. QED
    BY <1>3, <2>3, <2>4
<1>8. QED
  BY <1>1, <1>5, <1>6, <1>7 DEF InOrder, more

(* Every record keeps the loop's invariant. *)
LEMMA ParseStep ==
    ASSUME NEW records \in Seq(Records), NEW n \in Nat, n + 1 \in DOMAIN records,
           NEW p \in Parses, ParseInv(records, n, p),
           NEW q, q = ParseRecord(p, records[n + 1])
    PROVE  q \in Parses /\ ParseInv(records, n + 1, q)
<1> DEFINE r == records[n + 1]
           here == [p EXCEPT !.line = @ + 1]
           wrong == [here EXCEPT !.ok = FALSE]
           Content1 == \A i \in Content(records) : i > n
<1>1. /\ here \in Parses /\ here.line = n + 1 /\ here.ok = p.ok
      /\ here.inHeader = p.inHeader /\ here.rows = p.rows
      /\ wrong \in Parses /\ wrong.line = n + 1 /\ wrong.ok = FALSE /\ wrong.rows = p.rows
      /\ p.line = n /\ p.rows \in Seq(Row)
  <2>1. p.line = n /\ p.rows \in Seq(Row)
    BY DEF ParseInv
  <2>2. /\ here \in Parses /\ here.line = n + 1 /\ here.ok = p.ok
        /\ here.inHeader = p.inHeader /\ here.rows = p.rows
    BY <2>1 DEF Parses
  <2>3. /\ wrong \in Parses /\ wrong.line = here.line /\ wrong.ok = FALSE
        /\ wrong.rows = here.rows
    <3> HIDE DEF here
    <3>1. QED
      BY <2>2 DEF Parses
  <2>4. QED
    BY ONLY <2>1, <2>2, <2>3
<1>2. WellFormedTo(records, n + 1) <=>
         /\ WellFormedTo(records, n)
         /\ n + 1 \in Content(records) =>
              r.width = 2 /\ IF Content1 THEN Header(r) ELSE Payment(r)
  BY WellFormedStep
<1>3. (\A i \in Content(records) : i > n + 1) <=> Content1 /\ n + 1 \notin Content(records)
  <2>1. Content(records) \subseteq Nat
    BY DEF Content
  <2>2. QED
    BY <2>1
<1>4. /\ PaymentsTo(records, n + 1) = PaymentsTo(records, n) \union PaymentsAt(records, n + 1)
      /\ Skipped(r) => PaymentsAt(records, n + 1) = {}
      /\ Header(r) => PaymentsAt(records, n + 1) = {}
      /\ ~Skipped(r) /\ Payment(r) => PaymentsAt(records, n + 1) = {RowOf(n + 1, r)}
      /\ Skipped(r) <=> n + 1 \notin Content(records)
  BY PaymentAtLine
<1>5. /\ p.ok <=> WellFormedTo(records, n)
      /\ p.ok =>
           /\ p.inHeader <=> Content1
           /\ ToSet(p.rows) = PaymentsTo(records, n)
           /\ InOrder(p.rows, n)
  BY DEF ParseInv
<1>6. InOrder(p.rows, n) => InOrder(p.rows, n + 1)
  <2>1. \A k \in 1 .. Len(p.rows) : p.rows[k].line \in Nat
    <3>1. \A k \in 1 .. Len(p.rows) : p.rows[k] \in Row
      BY <1>1
    <3>2. QED
      BY <3>1 DEF Row
  <2>2. QED
    BY <2>1 DEF InOrder
<1> HIDE DEF here, wrong, Content1, r
<1>7. CASE ~p.ok \/ Skipped(r)
  <2>1. q = here
    BY <1>7 DEF ParseRecord, here, r
  <2>2. CASE ~p.ok
    BY <1>1, <1>2, <1>5, <2>1, <2>2 DEF ParseInv
  <2>3. CASE p.ok /\ Skipped(r)
    BY <1>1, <1>2, <1>3, <1>4, <1>5, <1>6, <2>1, <2>3 DEF ParseInv
  <2>4. QED
    BY <1>7, <2>2, <2>3
<1>8. ASSUME p.ok, ~Skipped(r), q = wrong, ~WellFormedTo(records, n + 1)
      PROVE  q \in Parses /\ ParseInv(records, n + 1, q)
  BY <1>1, <1>8 DEF ParseInv
<1>9. CASE p.ok /\ ~Skipped(r) /\ r.width # 2
  <2>1. q = wrong
    BY <1>9 DEF ParseRecord, here, wrong, r
  <2>2. QED
    BY <1>2, <1>4, <1>8, <1>9, <2>1
<1>10. CASE p.ok /\ ~Skipped(r) /\ r.width = 2 /\ p.inHeader
  <2>1. CASE Header(r)
    <3>1. q = [here EXCEPT !.inHeader = FALSE]
      BY <1>10, <2>1 DEF ParseRecord, here, r
    <3>2. /\ q \in Parses /\ q.line = n + 1 /\ q.ok = p.ok /\ q.inHeader = FALSE
          /\ q.rows = p.rows
      BY <1>1, <3>1 DEF Parses
    <3>3. QED
      BY <1>1, <1>2, <1>3, <1>4, <1>5, <1>6, <1>10, <2>1, <3>2 DEF ParseInv
  <2>2. CASE ~Header(r)
    <3>1. q = wrong
      BY <1>10, <2>2 DEF ParseRecord, here, wrong, r
    <3>2. QED
      BY <1>2, <1>4, <1>5, <1>8, <1>10, <2>2, <3>1
  <2>3. QED
    BY <2>1, <2>2
<1>11. CASE p.ok /\ ~Skipped(r) /\ r.width = 2 /\ ~p.inHeader
  <2>1. CASE Payment(r)
    <3>1. q = [here EXCEPT !.rows = Append(p.rows, RowOf(n + 1, r))]
      BY <1>1, <1>11, <2>1 DEF ParseRecord, here, r
    <3>2. RowOf(n + 1, r) \in Row /\ RowOf(n + 1, r).line = n + 1
      BY <2>1 DEF RowOf, Row, Payment
    <3>3. /\ Append(p.rows, RowOf(n + 1, r)) \in Seq(Row)
          /\ InOrder(Append(p.rows, RowOf(n + 1, r)), n + 1)
          /\ ToSet(Append(p.rows, RowOf(n + 1, r))) = ToSet(p.rows) \union {RowOf(n + 1, r)}
      BY <1>1, <1>5, <1>11, <3>2, RowAppended
    <3>4. /\ q \in Parses /\ q.line = n + 1 /\ q.ok = p.ok /\ q.inHeader = p.inHeader
          /\ q.rows = Append(p.rows, RowOf(n + 1, r))
      BY <1>1, <3>1, <3>3 DEF Parses
    <3>5. WellFormedTo(records, n + 1)
      BY <1>2, <1>5, <1>11, <2>1
    <3>6. QED
      BY <1>3, <1>4, <1>5, <1>11, <2>1, <3>3, <3>4, <3>5 DEF ParseInv
  <2>2. CASE ~Payment(r)
    <3>1. q = wrong
      BY <1>11, <2>2 DEF ParseRecord, here, wrong, r
    <3>2. QED
      BY <1>2, <1>4, <1>5, <1>8, <1>11, <2>2, <3>1
  <2>3. QED
    BY <2>1, <2>2
<1>12. QED
  BY <1>7, <1>9, <1>10, <1>11

(* A file that is well formed parses to its payments, in the order of      *)
(* their lines; another does not parse.                                    *)
LEMMA ParseMeans ==
    ASSUME NEW records \in Seq(Records)
    PROVE  LET parse == Parse(records)
           IN  /\ parse.ok \in BOOLEAN /\ (parse.ok <=> WellFormed(records))
               /\ parse.rows \in Seq(Row)
               /\ parse.ok =>
                    /\ ToSet(parse.rows) = UNION {PaymentsAt(records, i) : i \in DOMAIN records}
                    /\ \A j, k \in DOMAIN parse.rows :
                          j < k => parse.rows[j].line < parse.rows[k].line
<1> DEFINE n == Len(records)
<1>1. n \in Nat /\ DOMAIN records = 1 .. n
  OBVIOUS
<1>2. PICK parsed : ParsedUpTo(records, n, parsed) /\ Parse(records) = parsed[n]
  BY <1>1, ParseIsTheLoop
<1> DEFINE Good == {i \in Nat : i <= n => parsed[i] \in Parses /\ ParseInv(records, i, parsed[i])}
<1>3. 0 \in Good
  <2>1. parsed[0] = NothingParsed
    BY <1>1, <1>2 DEF ParsedUpTo
  <2>2. /\ NothingParsed \in Parses /\ NothingParsed.rows = <<>> /\ NothingParsed.line = 0
        /\ NothingParsed.ok = TRUE /\ NothingParsed.inHeader = TRUE
    BY DEF NothingParsed, Parses
  <2>3. \A i \in Content(records) : i > 0
    BY <1>1 DEF Content
  <2>4. WellFormedTo(records, 0)
    BY <2>3 DEF WellFormedTo, Content
  <2>5. PaymentsTo(records, 0) = {} /\ ToSet(<<>>) = {}
    BY DEF PaymentsTo, ToSet
  <2>6. InOrder(<<>>, 0)
    BY DEF InOrder
  <2>7. ParseInv(records, 0, NothingParsed)
    <3>1. NothingParsed.rows \in Seq(Row)
      BY <2>2
    <3>2. NothingParsed.inHeader <=> \A i \in Content(records) : i > 0
      BY <2>2, <2>3
    <3>3. NothingParsed.ok <=> WellFormedTo(records, 0)
      BY <2>2, <2>4
    <3>4. QED
      BY <2>2, <2>5, <2>6, <3>1, <3>2, <3>3 DEF ParseInv
  <2>8. QED
    BY <2>1, <2>2, <2>7
<1>4. ASSUME NEW k \in Nat, k \in Good PROVE k + 1 \in Good
  <2>1. SUFFICES ASSUME k + 1 <= n
                 PROVE  parsed[k + 1] \in Parses /\ ParseInv(records, k + 1, parsed[k + 1])
    OBVIOUS
  <2>2. k + 1 \in 0 .. n /\ k + 1 # 0 /\ (k + 1) - 1 = k /\ k + 1 \in DOMAIN records
    BY <1>1, <2>1
  <2>3. parsed[k + 1] = ParseRecord(parsed[(k + 1) - 1], records[k + 1])
    BY <1>2, <2>2 DEF ParsedUpTo
  <2>4. parsed[k + 1] = ParseRecord(parsed[k], records[k + 1])
    BY <2>2, <2>3
  <2>5. parsed[k] \in Parses /\ ParseInv(records, k, parsed[k])
    BY <1>1, <1>4, <2>1
  <2>6. QED
    BY <2>2, <2>4, <2>5, ParseStep
<1>5. Nat \subseteq Good
  <2> HIDE DEF Good
  <2>1. QED
    BY <1>3, <1>4, CountingUp
<1>6. Parse(records) \in Parses /\ ParseInv(records, n, Parse(records))
  <2>1. n \in Good
    BY <1>1, <1>5
  <2>2. QED
    BY <1>1, <1>2, <2>1
<1>7. WellFormedTo(records, n) <=> WellFormed(records)
  BY <1>1 DEF WellFormedTo, WellFormed, Content
<1>8. PaymentsTo(records, n) = UNION {PaymentsAt(records, i) : i \in DOMAIN records}
  BY <1>1 DEF PaymentsTo
<1>9. Parse(records).rows \in Seq(Row) /\ DOMAIN Parse(records).rows = 1 .. Len(Parse(records).rows)
  BY <1>6 DEF ParseInv
<1>10. QED
  BY <1>6, <1>7, <1>8, <1>9 DEF ParseInv, Parses, InOrder

OnePerLine(rows) == \A r, s \in rows : r.line = s.line => r = s

(* The audit's two loops find the rows that only one of the sides has.     *)
LEMMA LinesNotInAre ==
    ASSUME NEW rows \in SUBSET Row, NEW others \in SUBSET Row, OnePerLine(others)
    PROVE  LinesNotIn(rows, ByLine(others)) = {r.line : r \in rows \ others}
<1> DEFINE byLine == ByLine(others)
           Differs(r) == \/ r.line \notin DOMAIN byLine
                         \/ r.payee # byLine[r.line].payee
                         \/ r.usd # byLine[r.line].usd
<1>1. DOMAIN byLine = {r.line : r \in others}
  BY DEF ByLine
<1>2. ASSUME NEW r \in others PROVE byLine[r.line] = r
  <2>1. byLine[r.line] = CHOOSE s \in others : s.line = r.line
    BY DEF ByLine
  <2>2. byLine[r.line] \in others /\ byLine[r.line].line = r.line
    BY <2>1
  <2>3. QED
    BY <2>2 DEF OnePerLine
<1> HIDE DEF byLine
<1>3. ASSUME NEW r \in rows PROVE Differs(r) <=> r \notin others
  <2>1. CASE r \in others
    BY <1>1, <1>2, <2>1
  <2>2. CASE r \notin others /\ r.line \in DOMAIN byLine
    <3>1. PICK s \in others : s.line = r.line
      BY <1>1, <2>2
    <3>2. byLine[r.line] = s
      BY <1>2, <3>1
    <3>3. s.payee = r.payee /\ s.usd = r.usd => s = r
      BY <3>1 DEF Row
    <3>4. QED
      BY <2>2, <3>2, <3>3
  <2>3. QED
    BY <2>1, <2>2
<1>4. {r \in rows : Differs(r)} = rows \ others
  <2> HIDE DEF Differs
  <2>1. QED
    BY <1>3
<1>5. LinesNotIn(rows, byLine) = {r.line : r \in {r \in rows : Differs(r)}}
  BY DEF LinesNotIn
<1>6. QED
  BY <1>4, <1>5 DEF byLine

LEMMA ReconcileIs ==
    ASSUME NEW csv \in SUBSET Row, NEW db \in SUBSET Row, OnePerLine(csv), OnePerLine(db),
           NEW lines, \A r \in csv \union db : r.line \in lines
    PROVE  Reconcile(csv, db)
             = {i \in lines : {r \in db : r.line = i} # {r \in csv : r.line = i}}
<1>1. Reconcile(csv, db) = {r.line : r \in csv \ db} \union {r.line : r \in db \ csv}
  BY LinesNotInAre DEF Reconcile
<1>2. ASSUME NEW i \in lines
      PROVE  {r \in db : r.line = i} # {r \in csv : r.line = i}
               <=> \E r \in (csv \ db) \union (db \ csv) : r.line = i
  OBVIOUS
<1>3. QED
  BY <1>1, <1>2

(* The payments of a file, line by line. *)
LEMMA PaymentsByLine ==
    ASSUME NEW records \in Seq(Records), NEW rows,
           rows = UNION {PaymentsAt(records, i) : i \in DOMAIN records}
    PROVE  /\ \A r \in rows : r.line \in DOMAIN records
           /\ \A i \in Nat :
                {r \in rows : r.line = i}
                  = IF i \in DOMAIN records THEN PaymentsAt(records, i) ELSE {}
<1>1. \A i \in DOMAIN records : \A r \in PaymentsAt(records, i) : r.line = i
  BY DEF PaymentsAt, RowOf
<1>2. QED
  BY <1>1

(* What an edit can make of the file. *)
LEMMA EditedFile ==
    ASSUME NEW records \in Seq(Records), NEW i \in DOMAIN records, NEW r \in Records,
           NEW new \in {ReplaceAt(records, i, r), InsertAt(records, i, r), RemoveAt(records, i)}
    PROVE  new \in Seq(Records) /\ Len(new) \in Nat /\ Len(new) <= Len(records) + 1
<1>1. Len(records) \in Nat /\ i \in 1 .. Len(records)
  OBVIOUS
<1>2. /\ SubSeq(records, 1, i - 1) \in Seq(Records)
      /\ Len(SubSeq(records, 1, i - 1)) = i - 1
  BY <1>1
<1>3. /\ SubSeq(records, i, Len(records)) \in Seq(Records)
      /\ Len(SubSeq(records, i, Len(records))) = Len(records) - i + 1
  BY <1>1
<1>4. /\ SubSeq(records, i + 1, Len(records)) \in Seq(Records)
      /\ Len(SubSeq(records, i + 1, Len(records))) = Len(records) - i
  BY <1>1
<1>5. \A s, t \in Seq(Records) : s \o t \in Seq(Records) /\ Len(s \o t) = Len(s) + Len(t)
  OBVIOUS
<1>6. <<r>> \in Seq(Records) /\ Len(<<r>>) = 1
  OBVIOUS
<1>7. CASE new = ReplaceAt(records, i, r)
  <2>1. new \in [1 .. Len(records) -> Records]
    BY <1>1, <1>7 DEF ReplaceAt
  <2>2. QED
    BY <1>1, <2>1, FunctionIsSeq
<1>8. CASE new = InsertAt(records, i, r)
  <2> DEFINE a == SubSeq(records, 1, i - 1)
             b == SubSeq(records, i, Len(records))
  <2>1. a \in Seq(Records) /\ b \in Seq(Records) /\ new = a \o <<r>> \o b
    BY <1>2, <1>3, <1>8 DEF InsertAt
  <2> HIDE DEF a, b
  <2>2. a \o <<r>> \in Seq(Records) /\ Len(a \o <<r>>) = Len(a) + 1
    BY <1>5, <1>6, <2>1
  <2>3. new \in Seq(Records) /\ Len(new) = Len(a) + 1 + Len(b)
    BY <1>5, <2>1, <2>2
  <2>4. Len(a) + 1 + Len(b) = Len(records) + 1
    BY <1>1, <1>2, <1>3 DEF a, b
  <2>5. QED
    BY <1>1, <2>3, <2>4
<1>9. CASE new = RemoveAt(records, i)
  <2> DEFINE a == SubSeq(records, 1, i - 1)
             b == SubSeq(records, i + 1, Len(records))
  <2>1. a \in Seq(Records) /\ b \in Seq(Records) /\ new = a \o b
    BY <1>2, <1>4, <1>9 DEF RemoveAt
  <2> HIDE DEF a, b
  <2>2. new \in Seq(Records) /\ Len(new) = Len(a) + Len(b)
    BY <1>5, <2>1
  <2>3. Len(a) + Len(b) = Len(records) - 1
    BY <1>1, <1>2, <1>4 DEF a, b
  <2>4. QED
    BY <1>1, <2>2, <2>3
<1>10. QED
  BY <1>7, <1>8, <1>9

(* The payout groups of the database have one line each, and none of the   *)
(* lines is behind the end of a file.                                      *)
ImportedInv ==
    /\ \A id, other \in DOMAIN payouts : \A r \in payouts[id], s \in payouts[other] :
          r.line = s.line => id = other /\ r = s
    /\ \A id \in DOMAIN payouts :
          payouts[id] \subseteq Row /\ \A r \in payouts[id] : r.line \in 1 .. MaxRecords + MaxEdits

FileInv ==
    /\ FileTypeOK
    /\ Len(file) <= MaxRecords + edits
    /\ ImportedInv
    /\ audited => outcome = "imported"
    /\ AuditSeesEdits

LEMMA FileBounds == MaxRecords \in Nat /\ MaxEdits \in Nat
BY FileAssumption

LEMMA FileFits ==
    ASSUME FileInv
    PROVE  /\ file \in Seq(Records) /\ Len(file) \in Nat /\ DOMAIN file = 1 .. Len(file)
           /\ edits \in Nat /\ edits <= MaxEdits
           /\ Len(file) <= MaxRecords + edits
<1>1. file \in Seq(Records) /\ edits \in 0 .. MaxEdits /\ Len(file) <= MaxRecords + edits
  BY DEF FileInv, FileTypeOK
<1>2. edits \in Nat /\ edits <= MaxEdits
  BY ONLY <1>1, FileBounds
<1>3. QED
  BY <1>1, <1>2

LEMMA FileInvInit == FileInit => FileInv
<1> SUFFICES ASSUME FileInit PROVE FileInv
  OBVIOUS
<1>1. PICK m \in 0 .. MaxRecords : file \in [1 .. m -> Records]
  BY FileAssumption DEF FileInit, Files, BoundedSeq, SeqOf
<1>2. file \in Seq(Records) /\ Len(file) = m
  BY <1>1, FunctionIsSeq
<1>3. FileTypeOK
  <2>1. 0 \in 0 .. MaxEdits
    BY ONLY FileBounds
  <2>2. DOMAIN payouts = {}
    BY DEF FileInit
  <2>3. QED
    BY <1>2, <2>1, <2>2 DEF FileInit, FileTypeOK
<1>4. Len(file) <= MaxRecords + edits
  <2>1. edits = 0
    BY DEF FileInit
  <2>2. QED
    BY ONLY <1>1, <1>2, <2>1, FileBounds
<1>5. QED
  BY <1>3, <1>4 DEF FileInit, FileInv, ImportedInv, AuditSeesEdits

(* What an import does, whatever the file. *)
LEMMA ImportDoes ==
    ASSUME FileInv, ImportFile
    PROVE  /\ IF WellFormed(file)
              THEN /\ outcome' = "imported"
                   /\ UNION {payouts'[id] : id \in DOMAIN payouts'}
                        = UNION {PaymentsAt(file, i) : i \in DOMAIN file}
                   /\ \A id \in DOMAIN payouts' : Cardinality(payouts'[id]) = 1
                   /\ \A id, other \in DOMAIN payouts' :
                        \A r \in payouts'[id], s \in payouts'[other] :
                           id < other => r.line < s.line
              ELSE outcome' = "refused" /\ payouts' = <<>>
           /\ ImportedInv'
           /\ \A id \in DOMAIN payouts' : payouts'[id] \subseteq Row
<1> DEFINE parse == Parse(file)
           rows == parse.rows
<1>1. /\ file \in Seq(Records) /\ Len(file) \in Nat /\ DOMAIN file = 1 .. Len(file)
      /\ edits \in Nat /\ edits <= MaxEdits
      /\ Len(file) <= MaxRecords + edits
  BY FileFits
<1>2. /\ parse.ok \in BOOLEAN /\ (parse.ok <=> WellFormed(file)) /\ rows \in Seq(Row)
      /\ parse.ok =>
           /\ ToSet(rows) = UNION {PaymentsAt(file, i) : i \in DOMAIN file}
           /\ \A j, k \in DOMAIN rows : j < k => rows[j].line < rows[k].line
  BY <1>1, ParseMeans
<1>3. /\ outcome' = IF parse.ok THEN "imported" ELSE "refused"
      /\ payouts' = IF parse.ok THEN [id \in DOMAIN rows |-> {rows[id]}] ELSE <<>>
  BY DEF ImportFile, CreatePayoutGroups
<1> HIDE DEF parse
<1>4. CASE ~parse.ok
  BY <1>2, <1>3, <1>4 DEF ImportedInv
<1>5. CASE parse.ok
  <2> HIDE DEF rows
  <2>1. /\ DOMAIN payouts' = DOMAIN rows /\ DOMAIN rows \subseteq Nat
        /\ \A id \in DOMAIN rows : payouts'[id] = {rows[id]} /\ rows[id] \in Row
    BY <1>2, <1>3, <1>5
  <2>2. \A j, k \in DOMAIN rows : j < k => rows[j].line < rows[k].line
    BY <1>2, <1>5
  <2>3. UNION {payouts'[id] : id \in DOMAIN payouts'} = ToSet(rows)
    BY <2>1 DEF ToSet
  <2>4. \A id \in DOMAIN payouts' : Cardinality(payouts'[id]) = 1
    BY <2>1, FS_Singleton
  <2>5. \A id, other \in DOMAIN payouts' : \A r \in payouts'[id], s \in payouts'[other] :
           id < other => r.line < s.line
    BY <2>1, <2>2
  <2>6. \A id, other \in DOMAIN payouts' : \A r \in payouts'[id], s \in payouts'[other] :
           r.line = s.line => id = other /\ r = s
    <3>1. \A id \in DOMAIN rows : rows[id].line \in Nat
      BY <2>1 DEF Row
    <3>2. \A j, k \in DOMAIN rows : rows[j].line = rows[k].line => j = k
      BY <2>1, <2>2, <3>1
    <3>3. QED
      BY <2>1, <3>2
  <2>7. ASSUME NEW id \in DOMAIN payouts' PROVE rows[id].line \in 1 .. MaxRecords + MaxEdits
    <3>1. rows[id] \in ToSet(rows)
      BY <2>1 DEF ToSet
    <3>2. rows[id].line \in DOMAIN file
      BY <1>1, <1>2, <1>5, <3>1, PaymentsByLine
    <3>3. QED
      BY ONLY <1>1, <3>2, FileBounds
  <2>8. QED
    <3>1. ImportedInv'
      BY <2>1, <2>6, <2>7 DEF ImportedInv
    <3>2. \A id \in DOMAIN payouts' : payouts'[id] \subseteq Row
      BY <2>1
    <3>3. QED
      BY <1>2, <1>3, <1>5, <2>3, <2>4, <2>5, <3>1, <3>2
<1>6. QED
  BY <1>4, <1>5

LEMMA AuditFinds ==
    ASSUME FileInv, AuditFile
    PROVE  AuditSeesEdits' /\ mismatched' \subseteq Nat
<1> DEFINE parse == Parse(file)
           csv == ToSet(parse.rows)
           lines == 1 .. MaxRecords + MaxEdits
<1>1. /\ file \in Seq(Records) /\ Len(file) \in Nat /\ DOMAIN file = 1 .. Len(file)
      /\ edits \in Nat /\ edits <= MaxEdits
      /\ Len(file) <= MaxRecords + edits
  BY FileFits
<1>2. /\ parse.ok /\ mismatched' = Reconcile(csv, DBPayouts)
      /\ file' = file /\ payouts' = payouts
  BY DEF AuditFile
<1>3. /\ parse.rows \in Seq(Row)
      /\ csv = UNION {PaymentsAt(file, i) : i \in DOMAIN file}
      /\ \A j, k \in DOMAIN parse.rows : j < k => parse.rows[j].line < parse.rows[k].line
  BY <1>1, <1>2, ParseMeans
<1> HIDE DEF parse
<1>4. csv \subseteq Row /\ OnePerLine(csv)
  <2>1. \A k \in DOMAIN parse.rows : parse.rows[k] \in Row /\ k \in Nat
    BY <1>3
  <2>2. \A k \in DOMAIN parse.rows : parse.rows[k].line \in Nat
    BY <2>1 DEF Row
  <2>3. \A j, k \in DOMAIN parse.rows : parse.rows[j].line = parse.rows[k].line => j = k
    BY <1>3, <2>1, <2>2
  <2>4. QED
    BY <2>1, <2>3 DEF ToSet, OnePerLine
<1>5. DBPayouts \subseteq Row /\ OnePerLine(DBPayouts) /\ \A r \in DBPayouts : r.line \in lines
  BY DEF FileInv, ImportedInv, DBPayouts, OnePerLine
<1> HIDE DEF csv
<1>6. /\ \A r \in csv : r.line \in DOMAIN file
      /\ \A i \in Nat : {r \in csv : r.line = i}
                          = IF i \in DOMAIN file THEN PaymentsAt(file, i) ELSE {}
  BY <1>1, <1>3, PaymentsByLine
<1>7. DOMAIN file \subseteq lines /\ lines \subseteq Nat
  BY ONLY <1>1, FileBounds
<1>8. mismatched' = {i \in lines : {r \in DBPayouts : r.line = i} # {r \in csv : r.line = i}}
  <2>1. \A r \in csv \union DBPayouts : r.line \in lines
    BY <1>5, <1>6, <1>7
  <2> HIDE DEF lines
  <2>2. QED
    BY <1>2, <1>4, <1>5, <2>1, ReconcileIs
<1>9. mismatched' = {i \in lines :
          {r \in DBPayouts : r.line = i} # IF i \in DOMAIN file THEN PaymentsAt(file, i) ELSE {}}
  BY <1>6, <1>7, <1>8
<1>10. DBPayouts' = DBPayouts
  BY <1>2 DEF DBPayouts
<1>11. QED
  BY <1>2, <1>7, <1>8, <1>9, <1>10 DEF AuditSeesEdits

LEMMA FileInvNext == FileInv /\ [FileNext]_fileVars => FileInv'
<1> SUFFICES ASSUME FileInv, [FileNext]_fileVars PROVE FileInv'
  OBVIOUS
<1>1. CASE ImportFile
  <2>1. outcome' \in {"imported", "refused"} /\ outcome = "none"
    BY <1>1 DEF ImportFile
  <2>2. audited' = audited /\ audited = FALSE
    BY <1>1, <2>1 DEF ImportFile, FileInv, FileTypeOK
  <2>3. ImportedInv' /\ \A id \in DOMAIN payouts' : payouts'[id] \subseteq Row
    BY <1>1, ImportDoes
  <2>4. FileTypeOK'
    BY <1>1, <2>1, <2>3 DEF ImportFile, FileInv, FileTypeOK, Row
  <2>5. AuditSeesEdits'
    BY <2>2 DEF AuditSeesEdits
  <2>6. QED
    BY <1>1, <2>2, <2>3, <2>4, <2>5 DEF ImportFile, FileInv
<1>2. CASE EditFile
  <2>1. PICK i \in DOMAIN file, r \in Records :
          file' \in {ReplaceAt(file, i, r), InsertAt(file, i, r), RemoveAt(file, i)}
    <3>1. \A i \in DOMAIN file : file[i] \in Records
      BY DEF FileInv, FileTypeOK
    <3>2. QED
      BY <1>2, <3>1 DEF EditFile
  <2>2. /\ file \in Seq(Records) /\ Len(file) \in Nat
        /\ edits \in Nat /\ Len(file) <= MaxRecords + edits
    BY FileFits
  <2>3. file' \in Seq(Records) /\ Len(file') \in Nat /\ Len(file') <= Len(file) + 1
    BY <2>1, <2>2, EditedFile
  <2>4. edits' = edits + 1 /\ edits' \in 0 .. MaxEdits
    <3>1. edits' = edits + 1 /\ edits < MaxEdits
      BY <1>2 DEF EditFile
    <3>2. QED
      BY ONLY <2>2, <3>1, FileBounds
  <2>5. Len(file') <= MaxRecords + edits'
    BY ONLY <2>2, <2>3, <2>4, FileBounds
  <2>6. FileTypeOK'
    BY <1>2, <2>3, <2>4 DEF EditFile, FileInv, FileTypeOK
  <2>7. QED
    BY <1>2, <2>5, <2>6 DEF EditFile, FileInv, ImportedInv, AuditSeesEdits
<1>3. CASE AuditFile
  <2>1. AuditSeesEdits' /\ mismatched' \subseteq Nat
    BY <1>3, AuditFinds
  <2>2. FileTypeOK'
    BY <1>3, <2>1 DEF AuditFile, FileInv, FileTypeOK
  <2>3. QED
    BY <1>3, <2>1, <2>2 DEF AuditFile, FileInv, ImportedInv
<1>4. CASE UNCHANGED fileVars
  <2>1. UNCHANGED <<file, outcome, payouts, audited, mismatched, edits>>
    BY <1>4 DEF fileVars
  <2>2. DBPayouts' = DBPayouts
    BY <2>1 DEF DBPayouts
  <2>3. QED
    BY <2>1, <2>2 DEF FileInv, FileTypeOK, ImportedInv, AuditSeesEdits
<1>5. QED
  BY <1>1, <1>2, <1>3, <1>4 DEF FileNext

LEMMA FileInvCorrect == FileSpec => []FileInv
BY FileInvInit, FileInvNext, PTL DEF FileSpec

(* For any file: an import takes over every payment once, each in a group  *)
(* of its own and in the order of the file, or refuses the file.           *)
THEOREM PaymentsAreImported == FileSpec => EveryPaymentOnce
<1>1. FileInv /\ [FileNext]_fileVars =>
        [outcome' # outcome =>
           IF WellFormed(file)
           THEN /\ outcome' = "imported"
                /\ UNION {payouts'[id] : id \in DOMAIN payouts'}
                     = UNION {PaymentsAt(file, i) : i \in DOMAIN file}
                /\ \A id \in DOMAIN payouts' : Cardinality(payouts'[id]) = 1
                /\ \A id, other \in DOMAIN payouts' :
                     \A r \in payouts'[id], s \in payouts'[other] :
                        id < other => r.line < s.line
           ELSE outcome' = "refused" /\ payouts' = <<>>]_fileVars
  <2>1. SUFFICES ASSUME FileInv, FileNext, outcome' # outcome PROVE ImportFile
    BY ImportDoes
  <2>2. QED
    BY <2>1 DEF FileNext, EditFile, AuditFile
<1>2. QED
  BY <1>1, FileInvCorrect, PTL DEF FileSpec, EveryPaymentOnce

(* Whatever was edited since the import, an audit reports exactly the      *)
(* lines whose payment differs from the imported one.                      *)
THEOREM EditsAreSeen == FileSpec => []AuditSeesEdits
<1>1. FileInv => AuditSeesEdits
  BY DEF FileInv
<1>2. QED
  BY <1>1, FileInvCorrect, PTL

(* No two payouts of the database, and no two rows of a file that parses,  *)
(* have one line: the audit's "Duplicate CSV line" would indeed be a bug   *)
(* of the loading.                                                         *)
LinesAreDistinct ==
    /\ \A id, other \in DOMAIN payouts : \A r \in payouts[id], s \in payouts[other] :
          r.line = s.line => id = other /\ r = s
    /\ LET parse == Parse(file)
       IN  parse.ok => \A j, k \in DOMAIN parse.rows :
                          parse.rows[j].line = parse.rows[k].line => j = k

THEOREM NoDuplicateLines == FileSpec => []LinesAreDistinct
<1>1. FileInv => LinesAreDistinct
  <2>1. SUFFICES ASSUME FileInv, Parse(file).ok,
                        NEW j \in DOMAIN Parse(file).rows, NEW k \in DOMAIN Parse(file).rows,
                        Parse(file).rows[j].line = Parse(file).rows[k].line
                 PROVE  j = k
    BY DEF LinesAreDistinct, FileInv, ImportedInv
  <2> DEFINE rows == Parse(file).rows
  <2>2. /\ rows \in Seq(Row)
        /\ \A m, n \in DOMAIN rows : m < n => rows[m].line < rows[n].line
    BY <2>1, ParseMeans DEF FileInv, FileTypeOK
  <2> HIDE DEF rows
  <2>3. rows[j] \in Row /\ rows[k] \in Row /\ j \in Nat /\ k \in Nat
    BY <2>1, <2>2 DEF rows
  <2>4. rows[j].line \in Nat /\ rows[j].line = rows[k].line
    BY <2>1, <2>3 DEF Row, rows
  <2>5. j \in DOMAIN rows /\ k \in DOMAIN rows
    BY <2>1 DEF rows
  <2>6. QED
    BY <2>2, <2>3, <2>4, <2>5
<1>2. QED
  BY <1>1, FileInvCorrect, PTL
==============================================================================
