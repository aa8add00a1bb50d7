------------------------------ MODULE GasPrice ------------------------------
(***************************************************************************)
(* One transfer and the base fee: sendTransaction waits while base fee and *)
(* tip are above --max-gas, the signed transaction carries --max-gas as    *)
(* its fee cap, and the fee goes on moving before and after.               *)
(*                                                                         *)
(* leg: "check" (CheckPreconditions), "wait" (5 seconds), "create",        *)
(* "sent", "mined", "interrupted"                                          *)
(***************************************************************************)
EXTENDS Integers

CONSTANTS
    MaxGas,       \* --max-gas
    GasTipCap,    \* --gas-tip-cap
    HighestFee    \* bound: the base fee

ASSUME GasAssumption ==
    /\ MaxGas \in Nat /\ GasTipCap \in Nat /\ HighestFee \in Nat
    /\ GasTipCap <= MaxGas

Nothing == [cap |-> 0, tip |-> 0]

VARIABLES
    baseFee,   \* of the latest block
    leg,       \* see above
    signed,    \* fee cap and tip of the transaction
    price      \* paid per unit of gas when it is mined

gasVars == <<baseFee, leg, signed, price>>

GasInit ==
    /\ baseFee \in 0 .. HighestFee
    /\ leg = "check"
    /\ signed = Nothing
    /\ price = 0

(* A block moves the base fee by an eighth at most. *)
BaseFeeMoves ==
    /\ baseFee' \in {baseFee - 1, baseFee + 1} \intersect (0 .. HighestFee)
    /\ UNCHANGED <<leg, signed, price>>

(* Mutant: a fee that just fits is waited for. *)
BelowMaxGas == baseFee + GasTipCap < MaxGas

(* "max gas should be higher than the base fee + tip" *)
Met == baseFee + GasTipCap <= MaxGas

CheckPreconditions ==
    /\ leg = "check"
    /\ leg' = IF Met THEN "create" ELSE "wait"
    /\ UNCHANGED <<baseFee, signed, price>>

TransactOpts == [cap |-> MaxGas, tip |-> GasTipCap]

CreateRawTransaction ==
    /\ leg = "create"
    /\ leg' = "sent"
    /\ signed' = TransactOpts
    /\ UNCHANGED <<baseFee, price>>

WaitFiveSeconds ==
    /\ leg = "wait"
    /\ leg' = "check"
    /\ UNCHANGED <<baseFee, signed, price>>

(* The context ends: while it waits, nothing has been recorded yet. *)
Interrupt ==
    /\ leg = "wait"
    /\ leg' = "interrupted"
    /\ UNCHANGED <<baseFee, signed, price>>

(* The network takes the transaction while its cap covers the base fee. *)
MinedAtFee ==
    /\ leg = "sent"
    /\ baseFee <= signed.cap
    /\ leg' = "mined"
    /\ price' = IF baseFee + signed.tip <= signed.cap THEN baseFee + signed.tip ELSE signed.cap
    /\ UNCHANGED <<baseFee, signed>>

Sends == CheckPreconditions \/ WaitFiveSeconds \/ CreateRawTransaction

GasNext == BaseFeeMoves \/ Sends \/ Interrupt \/ MinedAtFee

(* The loop goes on, and the network takes what it can take for long. *)
GasFairness == WF_gasVars(Sends) /\ WF_gasVars(MinedAtFee)

GasSpec == GasInit /\ [][GasNext]_gasVars /\ GasFairness

------------------------------------------------------------------------------
GasTypeOK ==
    /\ baseFee \in 0 .. HighestFee
    /\ leg \in {"check", "wait", "create", "sent", "mined", "interrupted"}
    /\ signed \in [cap : Nat, tip : Nat]
    /\ price \in Nat

(* The wait is not for ever: once the base fee stays where --max-gas       *)
(* covers it and the tip, exactly or with something to spare, the transfer *)
(* is mined, unless the operator interrupts the wait.                      *)
WaitEnds ==
    <>[](baseFee + GasTipCap <= MaxGas) => <>(leg \in {"mined", "interrupted"})
==============================================================================
