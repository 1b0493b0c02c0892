\* One browser, no faults.
CONSTANTS
    s1 = s1
    s2 = s2
    Sessions = {s1}
    Blank = c0
    Configs = {c0}
    NoFile = nofile
    NoSession = nosession
    Faults = {}
    MaxSecrets = 1
    MaxHandshakes = 1
    MaxResets = 0
SPECIFICATION Spec
INVARIANT SetupCanBeReopened
