------------------------------- MODULE Deposit -------------------------------
(***************************************************************************)
(* "zksync deposit": one ad-hoc transaction, without a database.  The tool *)
(* looks at balance and allowance, asks the operator, sends, and then asks *)
(* a node about its transaction until it can give a verdict.  Meanwhile    *)
(* the account may spend tokens elsewhere and the transaction may be       *)
(* mined, be dropped by the node, or come back to it.                      *)
(*                                                                         *)
(* stand: "zksync", "storj" (asks the zkSync API for the addresses of the  *)
(* contracts), "shown", "confirm", "send", "sleep", "receipt", "lookup",   *)
(* or how it ended: "refused", "aborted", "error", "deposited", "failed",  *)
(* "dropped", "canceled"                                                   *)
(***************************************************************************)
EXTENDS Naturals

CONSTANTS
    Amount,    \* tokens to deposit
    MostTokens \* bound: balance and allowance

ASSUME DepositAssumption == Amount \in Nat \ {0} /\ MostTokens \in Nat

VARIABLES
    stand,     \* see above
    onChain,   \* the transaction: "none", "pool", "gone", "success", "reverted"
    balance,   \* tokens of the account
    allowance, \* tokens the zkSync contract may take from it
    moved      \* tokens the deposit moved

depositVars == <<stand, onChain, balance, allowance, moved>>

DepositInit ==
    /\ stand = "zksync"
    /\ onChain = "none"
    /\ balance \in 0 .. MostTokens
    /\ allowance \in 0 .. MostTokens
    /\ moved = 0

(* The zkSync API answers, or the command ends. *)
getZkSyncContract ==
    /\ stand = "zksync"
    /\ stand' \in {"storj", "error"}
    /\ UNCHANGED <<onChain, balance, allowance, moved>>

getStorjContract ==
    /\ stand = "storj"
    /\ stand' \in {"shown", "error"}
    /\ UNCHANGED <<onChain, balance, allowance, moved>>

Enough == Amount <= balance /\ Amount <= allowance

NotEnough ==
    /\ stand = "shown"
    /\ ~Enough
    /\ stand' = "refused"
    /\ UNCHANGED <<onChain, balance, allowance, moved>>

Shown ==
    /\ stand = "shown"
    /\ Enough
    /\ stand' = "confirm"
    /\ UNCHANGED <<onChain, balance, allowance, moved>>

promptConfirm ==
    /\ stand = "confirm"
    /\ stand' \in {"send", "aborted"}
    /\ UNCHANGED <<onChain, balance, allowance, moved>>

(* The binding estimates the gas first, and a transfer that would revert   *)
(* is not sent; the call may also fail with the node having it.            *)
DepositERC20 ==
    /\ stand = "send"
    /\ \/ stand' = "sleep" /\ onChain' = "pool" /\ Enough
       \/ stand' = "error" /\ onChain' = "pool" /\ Enough
       \/ stand' = "error" /\ UNCHANGED onChain
    /\ UNCHANGED <<balance, allowance, moved>>

(* One second, or the context ends: "Transaction may still confirm." *)
Sleep ==
    /\ stand = "sleep"
    /\ stand' \in {"receipt", "canceled"}
    /\ UNCHANGED <<onChain, balance, allowance, moved>>

(* Mutant: a transaction without a receipt is a dropped one. *)
TransactionReceiptOnly ==
    /\ stand = "receipt"
    /\ stand' = CASE onChain = "success"  -> "deposited"
                  [] onChain = "reverted" -> "failed"
                  [] OTHER                -> "dropped"
    /\ UNCHANGED <<onChain, balance, allowance, moved>>

TransactionReceipt ==
    /\ stand = "receipt"
    /\ stand' = CASE onChain = "success"  -> "deposited"
                  [] onChain = "reverted" -> "failed"
                  [] OTHER                -> "lookup"
    /\ UNCHANGED <<onChain, balance, allowance, moved>>

TransactionByHash ==
    /\ stand = "lookup"
    /\ stand' = IF onChain = "gone" THEN "dropped" ELSE "sleep"
    /\ UNCHANGED <<onChain, balance, allowance, moved>>

(* Mutant: an error of the node ends the wait. *)
QueryErrorEnds ==
    /\ stand \in {"receipt", "lookup"}
    /\ stand' = "dropped"
    /\ UNCHANGED <<onChain, balance, allowance, moved>>

(* The query fails for another reason: it is printed and the loop goes on. *)
QueryError ==
    /\ stand \in {"receipt", "lookup"}
    /\ stand' = IF stand = "receipt" THEN "lookup" ELSE "sleep"
    /\ UNCHANGED <<onChain, balance, allowance, moved>>

waitForTransaction == Sleep \/ TransactionReceipt \/ TransactionByHash \/ QueryError

------------------------------------------------------------------------------
(* The account is used elsewhere. *)
SpendsElsewhere ==
    /\ balance > 0
    /\ balance' = balance - 1
    /\ UNCHANGED <<stand, onChain, allowance, moved>>

MinedDeposit ==
    /\ onChain = "pool"
    /\ IF Enough
       THEN /\ onChain' = "success"
            /\ moved' = Amount
            /\ balance' = balance - Amount
            /\ allowance' = allowance - Amount
       ELSE onChain' = "reverted" /\ UNCHANGED <<balance, allowance, moved>>
    /\ UNCHANGED stand

(* The node drops it from its pool, and hears of it again. *)
PoolMoves ==
    /\ \/ onChain = "pool" /\ onChain' = "gone"
       \/ onChain = "gone" /\ onChain' = "pool"
    /\ UNCHANGED <<stand, balance, allowance, moved>>

DepositNext ==
    \/ getZkSyncContract \/ getStorjContract
    \/ NotEnough \/ Shown \/ promptConfirm \/ DepositERC20
    \/ waitForTransaction
    \/ SpendsElsewhere \/ MinedDeposit \/ PoolMoves

(* The loop goes on and the node answers now and then. *)
DepositFairness ==
    /\ WF_depositVars(waitForTransaction)
    /\ SF_depositVars(TransactionReceipt)

DepositSpec == DepositInit /\ [][DepositNext]_depositVars /\ DepositFairness

------------------------------------------------------------------------------
DepositTypeOK ==
    /\ stand \in {"zksync", "storj", "shown", "confirm", "send", "sleep", "receipt", "lookup",
                  "refused", "aborted", "error", "deposited", "failed", "dropped", "canceled"}
    /\ onChain \in {"none", "pool", "gone", "success", "reverted"}
    /\ balance \in Nat /\ allowance \in Nat /\ moved \in {0, Amount}

(* The verdict is what became of the transaction, although it is looked    *)
(* for with two questions and may be mined between them: "deposited" means *)
(* the tokens moved, "failed" that they never will, and "dropped" is said  *)
(* only of a transaction that is neither mined nor in the pool.            *)
TrueVerdict ==
    /\ stand' = "deposited" => moved' = Amount
    /\ stand' = "failed" => moved' = 0 /\ onChain' = "reverted"
    /\ stand # "dropped" /\ stand' = "dropped" => onChain = "gone"

VerdictIsTrue == [][TrueVerdict]_depositVars

(* A mined transaction gets its verdict, whatever queries fail. *)
MinedIsNoticed ==
    onChain \in {"success", "reverted"} /\ stand = "sleep"
        ~> stand \in {"deposited", "failed", "canceled"}
==============================================================================
