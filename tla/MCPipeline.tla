----------------------------- MODULE MCPipeline -----------------------------
(* Small instances of Pipeline for TLC. *)
EXTENDS PipelineInvariant, Repair, TLC

CONSTANTS g1, g2, p1, p2, p3, a1, a2

AllTxs == Txs
NoTxs == {}

(* The network is unreliable about transactions at the first price only. *)
FirstPrice == {t \in Txs : t.price = p1}

(* Only transfers for the first nonce may revert, so that MaxNonce is never *)
(* in the way of a retry.                                                   *)
FirstNonce == {t \in Txs : t.nonce = 0}

GroupSymmetry == Permutations({g1, g2})
=============================================================================
