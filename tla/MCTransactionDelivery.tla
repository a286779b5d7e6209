------------------------ MODULE MCTransactionDelivery ------------------------
(* Small instances of TransactionDelivery for TLC. *)
EXTENDS TransactionDelivery, TLC

\* Which connector, call or id is which does not matter to any invariant.
Interchangeable ==
    Permutations(Starts) \cup Permutations(Connectors)
        \cup Permutations(LocalIds) \cup Permutations(OcppIds)
=============================================================================
