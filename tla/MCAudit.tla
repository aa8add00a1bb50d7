------------------------------- MODULE MCAudit -------------------------------
(* A small instance of Audit for TLC. *)
EXTENDS Audit, TLC

CONSTANTS g1, g2, p1, p2, a1

NoTxs == {}
FirstPrice == {t \in Txs : t.price = p1}
FirstNonce == {t \in Txs : t.nonce = 0}

GroupSymmetry == Permutations({g1, g2})
==============================================================================
