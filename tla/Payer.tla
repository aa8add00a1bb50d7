-------------------------------- MODULE Payer --------------------------------
(***************************************************************************)
(* The payers' CheckNonceGroup: from the states a node reported for the    *)
(* transactions of a nonce group to one verdict about the group.           *)
(*                                                                         *)
(* "eth" (pkg/eth) tolerates several transactions per nonce; "zksync"      *)
(* (pkg/zksyncera) insists on exactly one, asks only for its receipt and   *)
(* so can never call a transaction dropped.                                *)
(***************************************************************************)
EXTENDS Chain, FiniteSets

CONSTANT PayerKind

ASSUME PayerKindKnown == PayerKind \in {"eth", "zksync"}

(* Mutant: the zkSync payer, too, takes an unknown transaction for dropped. *)
StatusAnswersAsEth(t, lags) == Answers(t, lags)

(* What the payer makes of a node's answers about one transaction. *)
StatusAnswers(t, lags) ==
    IF PayerKind = "eth"
    THEN Answers(t, lags)
    ELSE {IF a = TxDropped THEN TxPending ELSE a : a \in Answers(t, lags)}

(* The transactions the node still reports something about. *)
Other(statuses) == {t \in DOMAIN statuses : statuses[t] # TxDropped}

EthVerdict(statuses, checkOnly) ==
    LET other == Other(statuses)
    IN  CASE \E t, u \in other : t # u     -> TxPending
          [] other = {} /\ checkOnly       -> "error"
          [] other = {} /\ ~checkOnly      -> TxDropped
          [] OTHER                         -> statuses[CHOOSE t \in other : TRUE]

ZkVerdict(statuses) ==
    IF \A t, u \in DOMAIN statuses : t = u
    THEN statuses[CHOOSE t \in DOMAIN statuses : TRUE]
    ELSE "error"

(* The state CheckNonceGroup returns, or "error". *)
Verdict(statuses, checkOnly) ==
    IF PayerKind = "eth" THEN EthVerdict(statuses, checkOnly)
                         ELSE ZkVerdict(statuses)
==============================================================================
