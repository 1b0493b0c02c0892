\* Every fault, two tabs, a name with a quotation mark and one without, the command line
\* beside the service.
CONSTANTS
    t1 = t1
    t2 = t2
    Accounts = {a1, a2}
    Quoted = {a2}
    NoAccount = noaccount
    Spoilt = spoilt
    Tabs = {t1, t2}
    MaxTokens = 2
    MaxSessions = 2
    MaxResets = 1
    Faults = {"crash", "torn", "write", "persist", "overlap"}
SPECIFICATION Spec
SYMMETRY TabPerms
INVARIANTS TypeOK CredentialsWhole  SecondAccountTakesTwoForms LoggedOutStaysOut SessionsSurvive
\* Tokens and sessions are bounded, so a run may stop.
CHECK_DEADLOCK FALSE
