\* Two browsers, two secrets, every fault of the API and the files, a reset.
CONSTANTS
    s1 = s1
    s2 = s2
    Sessions = {s1, s2}
    Blank = c0
    Configs = {c0}
    NoFile = nofile
    NoSession = nosession
    Faults = {"crash", "write", "torn", "lost", "late"}
    MaxSecrets = 2
    MaxHandshakes = 3
    MaxResets = 1
SPECIFICATION Spec
SYMMETRY SessionPerms
INVARIANTS TypeOK SecretsAgree SecretKnownHere
PROPERTY FollowsContract
