--------------------------- MODULE MCTransactions ---------------------------
(* Small instances of Transactions for TLC. *)
EXTENDS Transactions, TLC

MCOneUnit == [i \in Slots |-> CHOOSE u \in Units : TRUE]
TransactionSymmetry == Permutations(Sessions) \cup Permutations(Annotators)
=============================================================================
