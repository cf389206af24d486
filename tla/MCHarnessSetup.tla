--------------------------- MODULE MCHarnessSetup ---------------------------
EXTENDS HarnessSetup, TLC

CONSTANTS s1, s2

TwoCommands == {s1, s2}
Symmetric == Permutations(TwoCommands)
AllHarnesses == {"claude", "hermes", "codex"}
CodexOnly == {"codex"}

=============================================================================
