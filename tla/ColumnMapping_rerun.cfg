\* Two custom columns that resemble one free name, and another name.
CONSTANTS
    a = a
    b = b
    x = x
    Cols = {a, b}
    Canon = {x, y}
    Guess <- BothAlike
    Rank <- ASurer
    None = none
    Excl = excluded
    NoPage = nopage
    Tabs = {t1, t2}
    Faults = {"schema", "read", "table"}
SYMMETRY TabsAlike
SPECIFICATION Spec
INVARIANTS TypeOK ChoicesDelivered
PROPERTY ChoicesShown
