\* No fault, no photos: what is left are the settings.
CONSTANTS
    Beach = Beach
    beach = beach
    beach_2 = beach_2
    Names = {Beach}
    Ids = {beach, beach_2}
    Numbered <- Slugs
    Surf = {Beach}
    Types = {}
    Tabs = {t1}
    MaxCards = 0
    NoId = noid
    NoPhoto = nophoto
    NoForm = noform
    Faults = {}
SPECIFICATION Spec
PROPERTY OthersKept
