------------------------------ MODULE MCMaildir ------------------------------
EXTENDS Maildir, TLC

Symmetry == Permutations(Pid)

=============================================================================
