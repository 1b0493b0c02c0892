\* Two browsers, two configurations; crashes and failing local writes. The API is
\* not reset and no timed-out request lands late: the constants SteadyApi asks for.
CONSTANTS
    s1 = s1
    s2 = s2
    Sessions = {s1, s2}
    Blank = c0
    Configs = {c0, c1}
    NoFile = nofile
    NoSession = nosession
    Faults = {"crash", "write", "torn"}
    MaxSecrets = 1
    MaxHandshakes = 1
    MaxResets = 0
SPECIFICATION Spec
SYMMETRY SessionPerms
PROPERTIES CompletionMeansAgreement PagesKept
