--------------------------- MODULE MCCodexServices ---------------------------
EXTENDS CodexServices, TLC

CONSTANTS c1, c2

TwoLaunchers == {c1, c2}

=============================================================================
