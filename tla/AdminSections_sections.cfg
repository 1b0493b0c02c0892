CONSTANTS
    v = v
    u = u
    Values = {v, u}
    Urls = {"https://a", "https://b"}
    Quoted = {u}
    Spoilt = spoilt
    Absent = absent
    Unsaved = unsaved
    Gone = gone
    Offers <- FilesInTurn
    MaxHand = 2
    MaxPins = 2
SPECIFICATION Spec
INVARIANTS TypeOK SavesStick HandTextKept
