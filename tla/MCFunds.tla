------------------------------- MODULE MCFunds -------------------------------
(* A small instance of Funds for TLC. *)
EXTENDS Funds, TLC

CONSTANTS g1, g2, a1

AllTxs == Txs

(* At price 2 the first payout is worth less than a token. *)
Amounts == (g1 :> 1) @@ (g2 :> 3)

(* The network is unreliable about transactions at price 2 only. *)
SecondPrice == {t \in Txs : t.price = 2}
==============================================================================
