--------------------------- MODULE WizardSetupMC ---------------------------
EXTENDS WizardSetup, TLC

CONSTANTS s1, s2

SessionPerms == Permutations({s1, s2})

=============================================================================
