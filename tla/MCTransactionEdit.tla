------------------------- MODULE MCTransactionEdit -------------------------
(* TransactionEdit on small instances.  Transactions, splits and the user's *)
(* accounts are interchangeable.                                            *)
EXTENDS TransactionEdit, TLC

Symmetry == Permutations(Trans) \cup Permutations(Splits)
            \cup Permutations(UserAccounts)

\* What a user enters; the scrub makes the negative values.
Entered == {1}
=============================================================================
