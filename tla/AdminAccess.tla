---------------------------- MODULE AdminAccess ----------------------------
(***************************************************************************)
(* Who may use the service: admin credentials and the bootstrap token in   *)
(* secrets.env, sessions in sessions.json (auth.py, app.py), and the       *)
(* command line's --reset-admin-password (cli.py), which edits the same    *)
(* secrets.env from another process.                                       *)
(*                                                                         *)
(* Handlers run one at a time except where they await the request's form;  *)
(* every read and every write of secrets.env is a step of its own, because *)
(* the command line or a crash may come between two of them.               *)
(***************************************************************************)
EXTENDS Naturals

CONSTANTS
    Accounts,     \* admin accounts: a username with its password
    Quoted,       \* those whose name has a quotation mark
    NoAccount,
    Spoilt,       \* a name that is no account's any more
    Tabs,         \* browser tabs with the bootstrap form open
    MaxTokens,    \* bound on generated bootstrap tokens
    MaxSessions,  \* bound on issued sessions
    MaxResets,    \* bound on --reset-admin-password runs
    Faults        \* subset of FaultKinds that may happen

FaultKinds == {"crash", "torn", "write", "persist", "overlap"}

ASSUME AccountAssumption == NoAccount \notin Accounts /\ Quoted \subseteq Accounts
ASSUME SpoiltAssumption  == Spoilt \notin Accounts \cup {NoAccount}
ASSUME AccessFaults      == Faults \subseteq FaultKinds
ASSUME AccessBounds      == {MaxTokens, MaxSessions, MaxResets} \subseteq Nat

None       == 0                  \* no token: ids count from 1
Tokens     == 0 .. MaxTokens
SessionIds == 1 .. MaxSessions

\* The keys of secrets.env that matter here, as they are read; "proxy" stands for every key the
\* bootstrap flow and the command line do not manage.
SecretsFile == [user : Accounts \cup {NoAccount, Spoilt}, hash : Accounts \cup {NoAccount},
                token : Tokens, proxy : BOOLEAN]
EmptyFile   == [user |-> NoAccount, hash |-> NoAccount, token |-> None, proxy |-> FALSE]

VARIABLES
    file,      \* secrets.env
    running,   \* the service is up
    token,     \* BootstrapManager._token
    posts,     \* bootstrap POSTs past their token check, awaiting their form
    job,       \* the handler between two file accesses: [pc, who, snap]
    sessions,  \* SessionManager._sessions
    saved,     \* sessions.json
    expired,   \* sessions past max_session_age
    cli,       \* the command line's copy of the file, as a set of at most one
    tokens,    \* tokens generated so far
    issued,    \* sessions issued so far
    out,       \* sessions whose logout was answered
    used,      \* per token: accounts it has set up
    resets,
    rough      \* a write failed, the command line ran beside the service, or two
               \* bootstrap forms waited at once

accessVars == <<token, posts, job>>
sessVars   == <<sessions, saved, expired, issued, out>>
cliVars    == <<cli, resets, rough>>
vars       == <<file, running, accessVars, sessVars, cliVars, tokens, used>>

Post == [tab : Tabs, who : Accounts, token : Tokens]
Idle == [pc |-> "idle", who |-> NoAccount, token |-> None, snap |-> EmptyFile]
Jobs == [pc : {"idle", "unset", "read", "write", "enter", "secrets"},
         who : Accounts \cup {NoAccount}, token : Tokens, snap : SecretsFile]

TypeOK ==
    /\ file \in SecretsFile
    /\ running \in BOOLEAN
    /\ token \in Tokens
    /\ posts \in SUBSET Post
    /\ job \in Jobs
    /\ {sessions, saved, expired, out} \subseteq SUBSET SessionIds
    /\ cli \in SUBSET SecretsFile
    /\ tokens \in Tokens
    /\ issued \in 0 .. MaxSessions
    /\ used \in [Tokens -> SUBSET Accounts]
    /\ resets \in 0 .. MaxResets
    /\ rough \in BOOLEAN

Init ==
    /\ file = EmptyFile /\ running = FALSE
    /\ token = None /\ posts = {} /\ job = Idle
    /\ sessions = {} /\ saved = {} /\ expired = {} /\ issued = 0 /\ out = {}
    /\ cli = {} /\ resets = 0 /\ rough = FALSE
    /\ tokens = 0 /\ used = [k \in Tokens |-> {}]

Ready == running /\ job = Idle

-----------------------------------------------------------------------------
(* Start and crash of the service *)

\* Mutant of Start: every start makes a token, whatever the file holds.
StartAlwaysGenerates ==
    /\ ~running /\ running' = TRUE
    /\ "overlap" \in Faults \/ cli = {}
    /\ rough' = (rough \/ cli # {})
    /\ sessions' = saved \ expired
    /\ tokens' = tokens + 1
    /\ token' = tokens + 1
    /\ file' = [file EXCEPT !.token = tokens + 1]
    /\ UNCHANGED <<posts, job, saved, expired, issued, out, cli, resets, used>>

\* BootstrapManager._load_or_generate, only when no admin username is stored;
\* SessionManager._load drops what is past its age.
Start ==
    /\ ~running /\ running' = TRUE
    /\ "overlap" \in Faults \/ cli = {}
    /\ rough' = (rough \/ cli # {})
    /\ sessions' = saved \ expired
    /\ IF file.user # NoAccount
         THEN token' = None /\ UNCHANGED <<file, tokens>>
         ELSE IF file.token # None
         THEN token' = file.token /\ UNCHANGED <<file, tokens>>
         ELSE /\ tokens < MaxTokens
              /\ tokens' = tokens + 1
              /\ token' = tokens + 1
              /\ file' = [file EXCEPT !.token = tokens + 1]
    /\ UNCHANGED <<posts, job, saved, expired, issued, out, cli, resets, used>>

\* A write of secrets.env that is cut short leaves an empty file.
Crash ==
    /\ "crash" \in Faults
    /\ running /\ running' = FALSE
    /\ token' = None /\ posts' = {} /\ job' = Idle
    /\ sessions' = {}
    /\ \/ UNCHANGED file
       \/ "torn" \in Faults /\ job.pc \in {"unset", "write", "secrets"} /\ file' = EmptyFile
    /\ UNCHANGED <<saved, expired, issued, out, cliVars, tokens, used>>

-----------------------------------------------------------------------------
(* Sessions *)

\* _persist: an OSError is logged and the file stays as it was.
PersistSessions ==
    \/ saved' = sessions' /\ UNCHANGED rough
    \/ "persist" \in Faults /\ rough' = TRUE /\ UNCHANGED saved

\* Mutant of CreateSession: the new session is kept in memory only.
CreateSessionInMemory ==
    /\ issued < MaxSessions
    /\ issued' = issued + 1
    /\ sessions' = sessions \cup {issued + 1}
    /\ UNCHANGED <<saved, expired, out, rough>>

CreateSession ==
    /\ issued < MaxSessions
    /\ issued' = issued + 1
    /\ sessions' = sessions \cup {issued + 1}
    /\ PersistSessions
    /\ UNCHANGED <<expired, out>>

\* login_post: the name as it is stored, and the password.
Admits(a) == file.user = a /\ file.hash = a

Login(a) ==
    /\ Ready /\ Admits(a)
    /\ CreateSession
    /\ UNCHANGED <<file, running, accessVars, cli, resets, tokens, used>>

\* Mutant of Logout: the session is dropped from memory only.
LogoutInMemory(s) ==
    /\ Ready
    /\ sessions' = sessions \ {s}
    /\ out' = out \cup {s}
    /\ UNCHANGED <<file, running, accessVars, saved, expired, issued, cliVars, tokens, used>>

\* logout: delete is called whether or not the session is known.
Logout(s) ==
    /\ Ready
    /\ s <= issued
    /\ sessions' = sessions \ {s}
    /\ PersistSessions
    /\ out' = out \cup {s}
    /\ UNCHANGED <<file, running, accessVars, expired, issued, cli, resets, tokens, used>>

Age(s) ==
    /\ s <= issued
    /\ expired' = expired \cup {s}
    /\ UNCHANGED <<file, running, accessVars, sessions, saved, issued, out, cliVars, tokens,
                   used>>

\* get_username finds the session too old and deletes it.
ExpireSession(s) ==
    /\ Ready
    /\ s \in sessions \cap expired
    /\ sessions' = sessions \ {s}
    /\ PersistSessions
    /\ UNCHANGED <<file, running, accessVars, expired, issued, out, cli, resets, tokens, used>>

-----------------------------------------------------------------------------
(* Bootstrap: the first admin account *)

\* Mutant of BootstrapCheck: the token is consumed before the form is read.
BootstrapCheckConsumes(p) ==
    /\ Ready
    /\ token # None /\ p.token = token
    /\ \A q \in posts : q.tab # p.tab
    /\ posts' = posts \cup {p}
    /\ rough' = (rough \/ posts # {})
    /\ token' = None
    /\ UNCHANGED <<file, running, job, sessVars, cli, resets, tokens, used>>

\* The token is checked, not consumed; the handler then awaits the form.
BootstrapCheck(p) ==
    /\ Ready
    /\ token # None /\ p.token = token
    /\ \A q \in posts : q.tab # p.tab
    /\ posts' = posts \cup {p}
    /\ rough' = (rough \/ posts # {})
    /\ UNCHANGED <<file, running, token, job, sessVars, cli, resets, tokens, used>>

\* A missing username, a short password: 400, and the token stays valid.
BootstrapInvalid(p) ==
    /\ Ready
    /\ posts' = posts \ {p}
    /\ UNCHANGED <<file, running, token, job, sessVars, cliVars, tokens, used>>

\* validate: consume the token in memory, then read the file it is kept in.
\* The result is not looked at: a token consumed meanwhile by another POST
\* skips the file and goes on to the credentials all the same.
BootstrapConsume(p) ==
    /\ Ready
    /\ posts' = posts \ {p}
    /\ token' = IF token = p.token THEN None ELSE token
    /\ job' = [pc |-> IF token = p.token THEN "unset" ELSE "read",
               who |-> p.who, token |-> p.token, snap |-> file]
    /\ UNCHANGED <<file, running, sessVars, cliVars, tokens, used>>

\* How a name reads once it is written: readers strip a pair of marks around it,
\* and do not undo what write_secrets_env makes of an apostrophe in it.
Rewritten(name) == IF name \in Quoted \cup {Spoilt} THEN {name, Spoilt} ELSE {name}

\* The server writes secrets.env; a failure to open it (the file is kept) or to
\* fill it (it is empty) ends the request with a 500.
ServerWrites(content, next) ==
    \/ /\ \E name \in Rewritten(content.user) : file' = [content EXCEPT !.user = name]
       /\ job' = next /\ UNCHANGED rough
    \/ /\ "write" \in Faults /\ rough' = TRUE
       /\ file' \in {file, EmptyFile} /\ job' = Idle

\* Mutant of UnsetToken: the token stays in the file.
KeepTokenInFile ==
    /\ job.pc = "unset"
    /\ job' = [job EXCEPT !.pc = "read"]
    /\ UNCHANGED <<file, running, token, posts, sessVars, cliVars, tokens, used>>

UnsetToken ==
    /\ job.pc = "unset"
    /\ ServerWrites([job.snap EXCEPT !.token = None], [job EXCEPT !.pc = "read"])
    /\ UNCHANGED <<running, token, posts, sessVars, cli, resets, tokens, used>>

ReadSecrets ==
    /\ job.pc = "read"
    /\ job' = [job EXCEPT !.pc = "write", !.snap = file]
    /\ UNCHANGED <<file, running, token, posts, sessVars, cliVars, tokens, used>>

WriteCredentials ==
    /\ job.pc = "write"
    /\ ServerWrites([job.snap EXCEPT !.user = job.who, !.hash = job.who],
                    [job EXCEPT !.pc = "enter"])
    /\ used' = IF job' = Idle THEN used ELSE [used EXCEPT ![job.token] = @ \cup {job.who}]
    /\ UNCHANGED <<running, token, posts, sessVars, cli, resets, tokens>>

EnterSession ==
    /\ job.pc = "enter"
    /\ CreateSession
    /\ job' = Idle
    /\ UNCHANGED <<file, running, token, posts, cli, resets, tokens, used>>

-----------------------------------------------------------------------------
(* Other writers of secrets.env *)

\* write_secrets_env, called by the wizard's Apply: read and merge.
ApplyReadsSecrets ==
    /\ Ready /\ sessions \ expired # {}
    /\ job' = [Idle EXCEPT !.pc = "secrets", !.snap = file]
    /\ UNCHANGED <<file, running, token, posts, sessVars, cliVars, tokens, used>>

ApplyWritesSecrets ==
    /\ job.pc = "secrets"
    /\ \E b \in BOOLEAN : ServerWrites([job.snap EXCEPT !.proxy = b], Idle)
    /\ UNCHANGED <<running, token, posts, sessVars, cli, resets, tokens, used>>

\* --reset-admin-password in a process of its own, while the service is down
\* or, with "overlap", at any time.
CliReads ==
    /\ "overlap" \in Faults \/ ~running
    /\ resets < MaxResets /\ cli = {}
    /\ resets' = resets + 1
    /\ cli' = {file}
    /\ rough' = (rough \/ running)
    /\ UNCHANGED <<file, running, accessVars, sessVars, tokens, used>>

\* Mutant of CliWrites: only the password hash is cleared.
CliWritesHashOnly ==
    /\ \E snap \in cli : file' = [snap EXCEPT !.hash = NoAccount]
    /\ cli' = {}
    /\ UNCHANGED <<running, accessVars, sessVars, resets, rough, tokens, used>>

CliWrites ==
    /\ \E snap \in cli :
         \/ file' = [snap EXCEPT !.user = NoAccount, !.hash = NoAccount]
         \/ "torn" \in Faults /\ file' = EmptyFile
    /\ cli' = {}
    /\ UNCHANGED <<running, accessVars, sessVars, resets, rough, tokens, used>>

-----------------------------------------------------------------------------

Bootstrap ==
    \/ \E p \in Post : BootstrapCheck(p)
    \/ \E p \in posts : BootstrapInvalid(p) \/ BootstrapConsume(p)
    \/ UnsetToken \/ ReadSecrets \/ WriteCredentials \/ EnterSession

SessionSteps ==
    \/ \E a \in Accounts : Login(a)
    \/ \E s \in SessionIds : Logout(s) \/ Age(s) \/ ExpireSession(s)

OtherWriters == ApplyReadsSecrets \/ ApplyWritesSecrets \/ CliReads \/ CliWrites

Next == Start \/ Crash \/ Bootstrap \/ SessionSteps \/ OtherWriters

Spec == Init /\ [][Next]_vars

-----------------------------------------------------------------------------
(* Properties *)

\* The username and the password hash in secrets.env are always those of one
\* account, or both absent, whoever wrote last and whatever was cut short
\* (auth.py write_secrets, cli.py --reset-admin-password).  Only a name with a
\* quotation mark may be lost, and then no other account's is there: although it is
\* meant to "preserve keys we don't manage (admin credentials ...)"
\* (config_writer.py:234), write_secrets_env spoils it.
CredentialsWhole ==
    file.user = file.hash \/ (file.user = Spoilt /\ file.hash \in Quoted)

\* The other promises are kept over crashes, files cut short by one, and
\* resets, as long as nothing else goes wrong: no write fails, the command line
\* is not run beside the service, and no two bootstrap forms wait at once.

\* The service always lets its operator in: by the stored account, both of whose
\* credentials then match, or by a bootstrap token (cli.py, app.py login_post and
\* bootstrap_post).  An account whose name has a quotation mark may be shut out.
SomeWayIn ==
    \/ rough
    \/ Ready => token # None \/ file.hash \in Quoted \/ \E a \in Accounts : Admits(a)

\* A bootstrap token sets up one account, across crashes and restarts
\* ("single-use consumption happens on POST only", app.py).
TokenUsedOnce == \A k \in Tokens : \A a, b \in used[k] : a = b

\* Two forms with one token are what it takes to set up two accounts with it
\* (BootstrapManager.validate).
SecondAccountTakesTwoForms == rough \/ TokenUsedOnce

\* A session whose logout was answered never comes back, over restarts too
\* (SessionManager.delete).
LoggedOutStaysOut == rough \/ out \cap (sessions \cup saved) = {}

\* A session, once issued, lasts over restarts until it ages or logs out
\* (SessionManager._persist, _load).
SessionsSurvive ==
    \/ rough
    \/ 1 .. issued \subseteq expired \cup out \cup (IF running THEN sessions ELSE saved)
=============================================================================
