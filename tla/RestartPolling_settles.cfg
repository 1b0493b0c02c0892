\* Two tabs, four acts, a limit of three polls.
CONSTANTS
    Pages = {p1, p2}
    Limit = 3
    MaxActs = 4
SPECIFICATION Spec
INVARIANT TypeOK
PROPERTY Settles
