---------------------------- MODULE MCCodexBinding ----------------------------
EXTENDS CodexBinding, TLC

Symmetry == Permutations(Hook)

=============================================================================
