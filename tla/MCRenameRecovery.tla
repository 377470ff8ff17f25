-------------------------- MODULE MCRenameRecovery --------------------------
EXTENDS RenameRecovery, TLC

\* The registers are interchangeable.
RegSymmetry == Permutations(Reg)

=============================================================================
