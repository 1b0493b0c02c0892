--------------------------- MODULE AdminAccessMC ---------------------------
EXTENDS AdminAccess, TLC

CONSTANTS t1, t2

TabPerms == Permutations({t1, t2})

=============================================================================
