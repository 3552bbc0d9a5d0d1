------------------------ MODULE MCSupervisedExecution ------------------------
EXTENDS SupervisedExecution, TLC

Symmetry == Permutations(Callers) \cup Permutations(Actions)
              \cup Permutations(Attempts)

=============================================================================
