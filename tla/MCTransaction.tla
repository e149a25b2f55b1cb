--------------------------- MODULE MCTransaction ---------------------------
(* Symmetry for the runs of Transaction.  The allocator does not tell one   *)
(* address from another.                                                    *)
EXTENDS Transaction, TLC

AddressSymmetry == Permutations(Cell)

=============================================================================
