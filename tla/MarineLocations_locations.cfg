\* Two locations of one name, two cards, photos.
CONSTANTS
    Beach = Beach
    beach = beach
    beach_2 = beach_2
    Names = {Beach}
    Ids = {beach, beach_2}
    Numbered <- Slugs
    Surf = {}
    Types = {jpg}
    Tabs = {t1}
    MaxCards = 2
    NoId = noid
    NoPhoto = nophoto
    NoForm = noform
    Faults = {"api", "sidecar", "oversize"}
SPECIFICATION Spec
INVARIANTS TypeOK PhotosStored
PROPERTY FollowsCatalog
