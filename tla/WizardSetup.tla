---------------------------- MODULE WizardSetup ----------------------------
(***************************************************************************)
(* The setup wizard's two-sided hand-over: browser sessions collect a      *)
(* configuration, Apply sends it to the Clear Skies API and then writes    *)
(* the local files.  wizard/routes.py holds the handlers, wizard/state.py  *)
(* and state_persistence.py the per-session store and its progress files,  *)
(* config_writer.py the local writes.  The API is external: its variables  *)
(* model what the wizard's requests and error handling assume of it.       *)
(*                                                                         *)
(* Handlers run on one event loop and call the API synchronously, so while *)
(* an Apply is in progress (job.pc # "idle") no other handler runs; only   *)
(* the API, the API host's operator and a crash of the service interleave. *)
(***************************************************************************)
EXTENDS Naturals, Sequences

CONSTANTS
    Sessions,       \* browser sessions (SessionManager ids)
    Configs,        \* abstract contents of the wizard form fields
    Blank,          \* the WizardState defaults
    Faults,         \* subset of FaultKinds that may happen
    MaxSecrets,     \* bound on generate_proxy_secret calls
    MaxHandshakes,  \* bound on successful handshakes
    MaxResets,      \* bound on API restarts with --reset
    NoSession,      \* in place of a session
    NoFile          \* in place of a file's contents: missing or truncated

FaultKinds == {"crash", "write", "torn", "save", "lost", "late", "cleanup"}

ASSUME ConfigAssumption  == Blank \in Configs /\ NoFile \notin Configs
ASSUME SessionAssumption == NoSession \notin Sessions
ASSUME FaultAssumption   == Faults \subseteq FaultKinds
ASSUME BoundAssumption   == {MaxSecrets, MaxHandshakes, MaxResets} \subseteq Nat

None    == 0              \* no secret, no API session: ids count from 1
Secrets == 0 .. MaxSecrets
ApiSids == 0 .. MaxHandshakes

WizardState == [addr : BOOLEAN, sid : ApiSids, secret : Secrets, cfg : Configs]
Fresh       == [addr |-> FALSE, sid |-> None, secret |-> None, cfg |-> Blank]
Request     == [cfg : Configs, secret : Secrets]

\* Mutant of LocalWrites: every failed write is only logged.
AllSoftWrites == << [file |-> "branding", hard |-> FALSE],
                    [file |-> "stack",    hard |-> FALSE],
                    [file |-> "pages",    hard |-> FALSE],
                    [file |-> "caddy",    hard |-> FALSE],
                    [file |-> "secrets",  hard |-> FALSE] >>

\* What Apply writes, in order, and which failures end in the review page.
\* webcam.json and content/*.md are left out: they come first, fail softly
\* and nothing reads them back; "summary" stands for charts.conf too.
LocalWrites == << [file |-> "branding", hard |-> FALSE],
                  [file |-> "stack",    hard |-> TRUE],
                  [file |-> "branding", hard |-> TRUE],
                  [file |-> "pages",    hard |-> TRUE],
                  [file |-> "caddy",    hard |-> TRUE],
                  [file |-> "secrets",  hard |-> TRUE],
                  [file |-> "summary",  hard |-> TRUE] >>
ConfFiles == {"branding", "stack", "caddy"}

VARIABLES
    mem,        \* state.py _store: [Sessions -> WizardState]
    progress,   \* wizard_progress_*.json, a missing one reading as Fresh
    latest,     \* session whose progress file has the largest _saved_at
    pinned,     \* known_apis.json holds the API's fingerprint
    conf,       \* branding.json, stack.conf, caddy.env
    env,        \* proxy secret in the local secrets.env
    pages,      \* pages.json: "absent", "torn", "default" or "custom"
    job,        \* the Apply in progress: [pc, s, at]
    page,       \* the last page Apply showed each session
    minted,     \* proxy secrets generated so far
    apiSetup, apiToken, apiSession, apiSecret, apiLoaded, apiCfg,
    inflight,   \* apply requests the client gave up on but the API still runs
    handshakes, \* setup sessions issued so far
    resets      \* API resets so far

stateVars == <<mem, progress, latest, minted>>
fileVars  == <<pinned, conf, env, pages>>
apiVars   == <<apiSetup, apiToken, apiSession, apiSecret, apiLoaded, apiCfg, inflight,
               handshakes, resets>>
vars      == <<stateVars, fileVars, job, page, apiVars>>

Idle == [pc |-> "idle", s |-> NoSession, at |-> 1]
Jobs == [pc : {"preflight", "write", "save", "restart"}, s : Sessions,
         at : 1 .. Len(LocalWrites)] \cup {Idle}

TypeOK ==
    /\ mem \in [Sessions -> WizardState]
    /\ progress \in [Sessions -> WizardState]
    /\ latest \in Sessions \cup {NoSession}
    /\ minted \in Secrets
    /\ pinned \in BOOLEAN
    /\ conf \in [ConfFiles -> Configs \cup {NoFile}]
    /\ env \in Secrets
    /\ pages \in {"absent", "torn", "default", "custom"}
    /\ job \in Jobs
    /\ page \in [Sessions -> {"review", "gone", "localfail", "complete"}]
    /\ apiSetup \in BOOLEAN /\ apiToken \in BOOLEAN
    /\ apiSession \in ApiSids
    /\ apiSecret \in Secrets /\ apiLoaded \in Secrets
    /\ apiCfg \in Configs
    /\ inflight \in SUBSET Request
    /\ handshakes \in ApiSids
    /\ resets \in 0 .. MaxResets

Init ==
    /\ mem = [s \in Sessions |-> Fresh] /\ progress = mem
    /\ latest = NoSession /\ minted = 0
    /\ pinned = FALSE /\ env = None /\ pages = "absent"
    /\ conf = [f \in ConfFiles |-> NoFile]
    /\ job = Idle /\ page = [s \in Sessions |-> "review"]
    /\ apiSetup = FALSE /\ apiToken = TRUE /\ apiSession = None
    /\ apiSecret = None /\ apiLoaded = None /\ apiCfg = Blank
    /\ inflight = {} /\ handshakes = 0 /\ resets = 0

-----------------------------------------------------------------------------
(* The state store *)

\* Mutant of Persisted: the secret is dropped along with the API session.
PersistedWithoutSecret(st) == [st EXCEPT !.sid = None, !.secret = None]

\* save_progress: api_session_id is never written to the progress file.
Persisted(st) == [st EXCEPT !.sid = None]

\* save_wizard_state: the disk, unless save_progress logs an OSError.
ToDisk(s, st) ==
    \/ /\ progress' = [progress EXCEPT ![s] = Persisted(st)]
       /\ latest' = s
    \/ /\ "save" \in Faults
       /\ UNCHANGED <<progress, latest>>

SaveTo(s, st) == ToDisk(s, st) /\ mem' = [mem EXCEPT ![s] = st]

\* _merge_from_existing_config: what is still at its default is taken from
\* stack.conf and secrets.env. It needs stack.conf, which is older than the
\* secret here.
FromFiles(st) ==
    [st EXCEPT !.secret = IF @ = None THEN env ELSE @,
               !.cfg    = IF @ = Blank /\ conf["stack"] # NoFile THEN conf["stack"] ELSE @]

\* A page comes up for state st; it reads the files when what it asks is blank.
Show(s, st) == \E n \in {st, FromFiles(st)} : mem' = [mem EXCEPT ![s] = n]

OpenPage(s) ==
    /\ job = Idle
    /\ Show(s, mem[s])
    /\ UNCHANGED <<progress, latest, minted, fileVars, job, page, apiVars>>

\* wizard_index: fill only what is still at its default; the API session is
\* never taken over.
MergePrior(st, prior) ==
    [st EXCEPT !.addr   = prior.addr,
               !.secret = IF @ = None THEN prior.secret ELSE @,
               !.cfg    = IF @ = Blank THEN prior.cfg ELSE @]

WizardIndex(s) ==
    /\ job = Idle
    /\ ~mem[s].addr
    /\ IF latest # NoSession
         THEN SaveTo(s, MergePrior(mem[s], progress[latest]))
         ELSE pinned /\ SaveTo(s, [mem[s] EXCEPT !.addr = TRUE])
    /\ UNCHANGED <<minted, fileVars, job, page, apiVars>>

\* Steps 3 to 8 overwrite form fields, save them and show the next page.  Two
\* of them (step 4's photo error, step 6's missing marine URL) return an error
\* page after changing the in-memory state and before saving it.
EditStep(s, c) ==
    /\ job = Idle
    /\ \/ LET st == [mem[s] EXCEPT !.cfg = c] IN ToDisk(s, st) /\ Show(s, st)
       \/ /\ mem' = [mem EXCEPT ![s].cfg = c]
          /\ UNCHANGED <<progress, latest>>
    /\ UNCHANGED <<minted, fileVars, job, page, apiVars>>

\* Mutant of Step2Database: a new secret on every visit.
Step2AlwaysMints(s, c, remote) ==
    /\ job = Idle
    /\ remote => minted < MaxSecrets
    /\ minted' = IF remote THEN minted + 1 ELSE minted
    /\ SaveTo(s, [mem[s] EXCEPT !.cfg = c, !.secret = IF remote THEN minted + 1 ELSE @])
    /\ UNCHANGED <<fileVars, job, page, apiVars>>

\* Step 2 saves before it tests the connection and shows a page; a database on
\* another host makes it generate the shared secret, unless the state has one.
Step2Database(s, c, remote) ==
    LET mint == remote /\ mem[s].secret = None
        st   == [mem[s] EXCEPT !.cfg = c, !.secret = IF mint THEN minted + 1 ELSE @]
    IN
    /\ job = Idle
    /\ mint => minted < MaxSecrets
    /\ minted' = IF mint THEN minted + 1 ELSE minted
    /\ ToDisk(s, st) /\ Show(s, st)
    /\ UNCHANGED <<fileVars, job, page, apiVars>>

-----------------------------------------------------------------------------
(* Step 1: connecting to the API *)

\* _is_rerun_mode: the fingerprint is pinned and secrets.env holds the secret.
RerunMode == pinned /\ env # None

\* First run: the fingerprint is pinned before the one-time trust token is
\* exchanged, whatever becomes of the exchange.
Step1Pin ==
    /\ job = Idle
    /\ ~RerunMode /\ ~pinned
    /\ pinned' = TRUE
    /\ UNCHANGED <<stateVars, conf, env, pages, job, page, apiVars>>

\* The API's side of the handshake.
IssueSession ==
    /\ ~apiSetup /\ apiToken
    /\ handshakes < MaxHandshakes
    /\ handshakes' = handshakes + 1
    /\ apiSession' = handshakes + 1
    /\ apiToken' = FALSE
    /\ UNCHANGED <<apiSetup, apiSecret, apiLoaded, apiCfg, inflight, resets>>

Step1FirstRun(s) ==
    /\ job = Idle
    /\ ~RerunMode
    /\ IssueSession
    /\ pinned' = TRUE
    /\ \/ SaveTo(s, [mem[s] EXCEPT !.addr = TRUE, !.sid = handshakes + 1])
       \/ /\ "lost" \in Faults      \* the answer never arrives
          /\ UNCHANGED <<mem, progress, latest>>
    /\ UNCHANGED <<minted, conf, env, pages, job, page>>

\* _merge_from_api_current_config: fill what is still at its default, or
\* nothing when the fetch fails.
MergeCurrent(st) == {st.cfg, IF st.cfg = Blank THEN apiCfg ELSE st.cfg}

\* Re-run: the secret in secrets.env must be the one the API has loaded.
Step1Rerun(s) ==
    /\ job = Idle
    /\ RerunMode
    /\ env = apiLoaded
    /\ \E cfg \in MergeCurrent(mem[s]) :
         SaveTo(s, [addr |-> TRUE, sid |-> None, secret |-> env, cfg |-> cfg])
    /\ UNCHANGED <<minted, fileVars, job, page, apiVars>>

-----------------------------------------------------------------------------
(* Apply: the API first, then the local files *)

\* _get_api_client and the API's answer to the credential it picks.
Authorized(st) == /\ st.addr
                  /\ \/ st.sid # None /\ st.sid = apiSession
                     \/ st.sid = None /\ st.secret # None /\ st.secret = apiLoaded

Payload(st) == [cfg |-> st.cfg, secret |-> st.secret]

\* The API adopts the payload; the secret is sent only when the state has one.
Adopt(req) ==
    /\ apiCfg' = req.cfg
    /\ apiSetup' = TRUE
    /\ apiSecret' = IF req.secret = None THEN apiSecret ELSE req.secret
    /\ UNCHANGED <<apiToken, apiSession, apiLoaded, handshakes, resets>>

ShowPage(s, p) == page' = [page EXCEPT ![s] = p]

ApplyAccepted(s) ==
    /\ job = Idle
    /\ Authorized(mem[s])
    /\ Adopt(Payload(mem[s]))
    /\ job' = [pc |-> "preflight", s |-> s, at |-> 1]
    /\ ShowPage(s, "review")
    /\ UNCHANGED <<stateVars, fileVars, inflight>>

\* The API adopts the payload but its answer is lost: to the wizard an error.
ApplyReplyLost(s) ==
    /\ job = Idle
    /\ "lost" \in Faults
    /\ Authorized(mem[s])
    /\ Adopt(Payload(mem[s]))
    /\ ShowPage(s, "review")
    /\ UNCHANGED <<stateVars, fileVars, job, inflight>>

\* Mutant of ApplyTimesOut: a timeout is taken for acceptance.
TimeoutTakenForAcceptance(s) ==
    /\ job = Idle
    /\ Authorized(mem[s])
    /\ job' = [pc |-> "preflight", s |-> s, at |-> 1]
    /\ ShowPage(s, "review")
    /\ UNCHANGED <<stateVars, fileVars, apiVars>>

\* A timeout gives up on a request that the API may still carry out later.
ApplyTimesOut(s) ==
    /\ job = Idle
    /\ "late" \in Faults
    /\ Authorized(mem[s])
    /\ inflight = {}
    /\ inflight' = {Payload(mem[s])}
    /\ ShowPage(s, "review")
    /\ UNCHANGED <<stateVars, fileVars, job, apiSetup, apiToken, apiSession, apiSecret,
                   apiLoaded, apiCfg, handshakes, resets>>

\* No credential, 401, 422, 5xx, or no connection: nothing local is written.
ApplyRefused(s) ==
    /\ job = Idle
    /\ ShowPage(s, "review")
    /\ UNCHANGED <<stateVars, fileVars, job, apiVars>>

\* A set-up API may answer 410 to a setup session; it is an error like any other.
ApplyGone(s) ==
    /\ job = Idle
    /\ Authorized(mem[s]) /\ mem[s].sid # None
    /\ apiSetup
    /\ ShowPage(s, "gone")
    /\ UNCHANGED <<stateVars, fileVars, job, apiVars>>

Preflight ==
    /\ job.pc = "preflight"
    /\ \/ /\ job' = [job EXCEPT !.pc = "write"]
          /\ UNCHANGED page
       \/ /\ "write" \in Faults
          /\ job' = Idle
          /\ ShowPage(job.s, "localfail")
    /\ UNCHANGED <<stateVars, fileVars, apiVars>>

\* Mutant of WriteFile: pages.json is written whether or not it exists.
WriteFileOver(f, st) ==
    /\ conf'  = IF f \in ConfFiles THEN [conf EXCEPT ![f] = st.cfg] ELSE conf
    /\ pages' = IF f = "pages" THEN "default" ELSE pages
    /\ env'   = IF f = "secrets" THEN st.secret ELSE env

\* What writing file f for state st leaves behind.
WriteFile(f, st) ==
    /\ conf'  = IF f \in ConfFiles THEN [conf EXCEPT ![f] = st.cfg] ELSE conf
    /\ pages' = IF f = "pages" /\ pages = "absent" THEN "default" ELSE pages
    /\ env'   = IF f = "secrets" THEN st.secret ELSE env

\* _write_file truncates before it writes: what an interrupted write leaves.
\* Apply leaves an existing pages.json alone, the admin page rewrites it.
TearFile(f) ==
    /\ conf'  = IF f \in ConfFiles THEN [conf EXCEPT ![f] = NoFile] ELSE conf
    /\ pages' = IF f = "pages" /\ (pages = "absent" \/ job = Idle) THEN "torn" ELSE pages
    /\ env'   = IF f = "secrets" THEN None ELSE env

\* Mutant of NextWrite: one step too many.
NextWriteOffByOne == job' = IF job.at <= Len(LocalWrites) THEN [job EXCEPT !.at = @ + 1]
                                                          ELSE [job EXCEPT !.pc = "save"]

NextWrite == job' = IF job.at < Len(LocalWrites) THEN [job EXCEPT !.at = @ + 1]
                                                 ELSE [job EXCEPT !.pc = "save"]

WriteStep ==
    LET w == LocalWrites[job.at] IN
    /\ job.pc = "write"
    /\ \/ /\ WriteFile(w.file, mem[job.s])
          /\ NextWrite
          /\ UNCHANGED page
       \/ /\ \/ "write" \in Faults /\ UNCHANGED <<conf, pages, env>>
             \/ "torn" \in Faults /\ TearFile(w.file)
          /\ IF w.hard THEN job' = Idle /\ ShowPage(job.s, "localfail")
                       ELSE NextWrite /\ UNCHANGED page
    /\ UNCHANGED <<stateVars, pinned, apiVars>>

SaveFinal ==
    /\ job.pc = "save"
    /\ SaveTo(job.s, mem[job.s])
    /\ job' = [job EXCEPT !.pc = "restart"]
    /\ UNCHANGED <<minted, fileVars, page, apiVars>>

\* An API process starts: the stored secret is loaded, setup sessions are
\* gone, and a trust token is printed unless the API is set up.
ApiStarts(setup, secret) ==
    /\ apiLoaded' = secret
    /\ apiSession' = None
    /\ apiToken' = ~setup
    /\ inflight' = {}

\* restart() reports success whether or not the API obeyed; then the
\* completion page is shown.
RestartApi ==
    /\ job.pc = "restart"
    /\ ShowPage(job.s, "complete")
    /\ job' = Idle
    /\ \/ ApiStarts(apiSetup, apiSecret)
       \/ UNCHANGED <<apiLoaded, apiSession, apiToken, inflight>>
    /\ UNCHANGED <<stateVars, fileVars, apiSetup, apiSecret, apiCfg, handshakes, resets>>

-----------------------------------------------------------------------------
(* The rest of the world *)

\* Files a crash may find half-written: the one Apply has reached or, outside
\* an Apply, any that an admin page writes.
BeingWritten ==
    CASE job = Idle       -> ConfFiles \cup {"pages", "secrets"}
      [] job.pc = "write" -> {LocalWrites[job.at].file}
      [] OTHER            -> {}

\* The service dies and starts again.  Session states are reloaded from their
\* progress files; an unfinished write may be torn; files older than 72 hours
\* are removed, the most recent one last.
Restart ==
    /\ "crash" \in Faults
    /\ \E stale \in SUBSET Sessions :
         /\ stale # {} => "cleanup" \in Faults
         /\ latest \in stale => stale = Sessions
         /\ progress' = [s \in Sessions |-> IF s \in stale THEN Fresh ELSE progress[s]]
         /\ latest' = IF latest \in stale THEN NoSession ELSE latest
    /\ mem' = progress'
    /\ \/ UNCHANGED <<conf, pages, env>>
       \/ "torn" \in Faults /\ \E f \in BeingWritten : TearFile(f)
    /\ job' = Idle
    /\ UNCHANGED <<minted, pinned, page, apiVars>>

ApiRestart ==
    /\ ApiStarts(apiSetup, apiSecret)
    /\ UNCHANGED <<stateVars, fileVars, job, page, apiSetup, apiSecret, apiCfg, handshakes,
                   resets>>

\* The operator restarts the API with --reset.
ApiReset ==
    /\ resets < MaxResets
    /\ resets' = resets + 1
    /\ apiSetup' = FALSE /\ apiSecret' = None /\ apiCfg' = Blank
    /\ ApiStarts(FALSE, None)
    /\ UNCHANGED <<stateVars, fileVars, job, page, handshakes>>

\* A request the wizard timed out on is carried out after all.
LateLand ==
    /\ \E req \in inflight : Adopt(req) /\ inflight' = inflight \ {req}
    /\ UNCHANGED <<stateVars, fileVars, job, page>>

\* admin/routes.py while the service runs: page visibility; settings the
\* admin pages write into the local files, where saving the API's address
\* also pins it; and settings they send to the API, followed by a restart.
CustomisePages ==
    /\ job = Idle
    /\ pages' = "custom"
    /\ UNCHANGED <<stateVars, pinned, conf, env, job, page, apiVars>>

AdminEditLocal(f, c) ==
    /\ job = Idle
    /\ f = "stack" => conf[f] # NoFile
    /\ conf' = [conf EXCEPT ![f] = c]
    /\ pinned' = (pinned \/ f = "caddy")
    /\ UNCHANGED <<stateVars, env, pages, job, page, apiVars>>

AdminEditApi(c) ==
    /\ job = Idle
    /\ RerunMode /\ env = apiLoaded /\ apiSetup
    /\ apiCfg' = c
    /\ \/ ApiStarts(apiSetup, apiSecret)
       \/ UNCHANGED <<apiLoaded, apiSession, apiToken, inflight>>
    /\ UNCHANGED <<stateVars, fileVars, job, page, apiSetup, apiSecret, handshakes, resets>>

-----------------------------------------------------------------------------

Operator ==
    \/ Step1Pin \/ CustomisePages
    \/ \E c \in Configs : AdminEditApi(c)
    \/ \E f \in ConfFiles, c \in Configs : AdminEditLocal(f, c)
    \/ \E s \in Sessions :
         \/ WizardIndex(s) \/ OpenPage(s) \/ Step1FirstRun(s) \/ Step1Rerun(s)
         \/ \E c \in Configs : EditStep(s, c)
         \/ \E c \in Configs, remote \in BOOLEAN : Step2Database(s, c, remote)
         \/ ApplyAccepted(s) \/ ApplyReplyLost(s) \/ ApplyTimesOut(s)
         \/ ApplyRefused(s) \/ ApplyGone(s)

ApplySteps  == Preflight \/ WriteStep \/ SaveFinal \/ RestartApi
Environment == Restart \/ ApiRestart \/ ApiReset \/ LateLand

Next == Operator \/ ApplySteps \/ Environment

Spec == Init /\ [][Next]_vars

-----------------------------------------------------------------------------
(* Properties *)

\* Whenever the local secrets.env and the API both hold a proxy secret, it is
\* the same one: an Apply that failed half-way, a second browser, a crash or a
\* reset never leaves the two sides refusing each other ("both sides need the
\* same value", write_secrets_env).
SecretsAgree == env # None /\ apiSecret # None => env = apiSecret

\* The secret the API enforces can always be found on this host, in
\* secrets.env or in a progress file, whatever crash or failed write came
\* between the API's acceptance and the local write.  It rests on progress files having
\* the secret, as save_progress does and says (wizard/state_persistence.py:57); the head
\* of that file (lines 3-5) says the opposite, that they never have any.
SecretKnownHere ==
    apiSecret = None \/ env = apiSecret \/ \E s \in Sessions : progress[s].secret = apiSecret

\* The completion page is shown only when the API and every local file hold
\* the configuration and the secret of the session that applied.
CompletionMeansAgreement ==
    [][\A s \in Sessions :
         page[s] # "complete" /\ page'[s] = "complete" =>
           /\ apiSetup' /\ apiCfg' = mem[s].cfg
           /\ \A f \in ConfFiles : conf'[f] = mem[s].cfg
           /\ env' = mem[s].secret
           /\ env' # None => apiSecret' = env']_vars

\* An Apply never overwrites the page visibility an administrator chose.
PagesKept == [][pages = "custom" /\ job # Idle => pages' = "custom"]_vars

\* The secret in secrets.env "means the full wizard completed (Apply wrote it)";
\* "without the proxy secret, we fall back to first-run mode so the operator can
\* use a trust token instead": after completion, step 1 has one way or the other.
SetupCanBeReopened ==
    \A s \in Sessions : page[s] = "complete" => RerunMode \/ apiToken

\* The handover is an exchange in the sense of SetupContract.
Contract == INSTANCE SetupContract WITH
    Cfgs       <- Configs,
    Damaged    <- NoFile,
    Keys       <- Secrets,
    NoKey      <- None,
    Parties    <- Sessions,
    InitialCfg <- Blank,
    remote     <- [cfg |-> apiCfg, secret |-> apiSecret],
    local      <- [cfg |-> conf["stack"], secret |-> env],
    exchange   <- IF job = Idle THEN {} ELSE {Payload(mem[job.s])},
    told       <- {s \in Sessions : page[s] = "complete"}

FollowsContract == Contract!Spec
=============================================================================
