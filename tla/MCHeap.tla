------------------------------- MODULE MCHeap -------------------------------
EXTENDS Heap, TLC

Names == Permutations(Var)

=============================================================================
