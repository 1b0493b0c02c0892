# Verifying the Clear Skies configuration service

The repository's program is `weewx_clearskies_config`: a web service with a
setup wizard and admin pages that configures a weather dashboard.  It keeps
some settings in local files, and hands the rest to the Clear Skies API, a
separate program (usually on another host) that it talks to over HTTPS with a
shared *proxy secret*.  This directory holds TLA+ models of the service, the
TLC runs that check them and TLAPS proofs about them.

## 1. Inventory

| Component | State | Operations | Hard part |
|---|---|---|---|
| Setup hand-over (`wizard/`) | per-session `WizardState` in memory and in `wizard_progress_*.json`; `stack.conf`, `branding.json`, `pages.json`, `caddy.env`, `secrets.env`; the pinned fingerprint | step handlers, Apply, load and save of progress | one operation spans two hosts and several files, any of which may fail or be cut short |
| Wizard steps and re-runs (`wizard/`) | the answers in the session, its progress file, the API, `stack.conf`, `branding.json` | a GET and a POST per page, merges of earlier runs, Apply | five places for an answer; merges that guess from blank fields which answers are missing; refused forms |
| Admin access (`auth.py`, `app.py`, `cli.py`) | credentials and bootstrap token in `secrets.env`, `sessions.json` and its copy in memory | bootstrap, login, logout, expiry, `--reset-admin-password` | three writers of one file; an await between check and use; crashes between two writes |
| Login limiter (`auth.py`, `app.py`) | failure times and a deadline per address | check in the middleware, record in the handler | window boundaries; requests past the check |
| Admin sections (`admin/routes.py`, `config/`) | conf files with a managed region, JSON files, `secrets.env`, `caddy.env`, `known_apis.json` | one save per section | a save reads, parses and rewrites a file that other sections, the wizard and the operator's editor write too; partial failure between two files |
| Column mapping (wizard step 3, admin page) | `column_mapping`, unmapped columns | edit, invert for the API, merge back | round trip through an inverted map |
| Marine locations (`admin/routes.py`, wizard) | the API's list, photo sidecar | admin add, edit, delete; the wizard's whole list | stale forms, slug used as key, three places for one location |
| Restart polling (`wizard/routes.py`) | poll count in the session | poll until healthy or give up | shared, stale count; the old process answers |
| Registry and validation (`registry/`) | none | which section has which key in which file; validate a field | pure |
| API client (`wizard/api_client.py`) | none | one call per endpoint | which failure means what |
| Surf scoring, now layout (`admin/routes.py`) | weights, layout file | save | pure normalisation |
| Status, basemap, forecast correction | none | read, trigger | none |
| Providers, units, schema, skin and image import, TLS, translations | tables | lookups, parsing | pure |
| Templates, scripts, compose files | - | - | outside the service |

How they interact: a browser session (issued by admin access) owns one
`WizardState`.  Apply sends it to the API, then writes local files.
`secrets.env` is shared by admin access, the wizard, the admin pages and the
command line; each reads the whole file, changes its keys and writes the whole
file.  The admin pages write the same conf files as Apply and send edited
settings to the API.

What makes each correct: the two sides of the hand-over must agree on the
secret and the completion page must be true; an operator must always have a
way in and a token must serve once; the limiter must neither let extra attempts
in nor lock out early; an answer given to the wizard must reach Apply and come
back in the next run; a saved section must stay until it is saved again; a
mapping must survive its round trip; an edit of one location must leave the
others.  `PROJECT.json` lists each hazard at its line with the property that
covers it, or why none does.

## 2. Modules

- **`WizardSetup`** - the hand-over.  `mem`, `progress`, `latest` are
  `state.py`'s store and its progress files; `conf`, `env`, `pages`, `pinned`
  the local files; `job` the Apply in progress and how far it is (pre-flight,
  the file it writes, the final save, the API restart); `page` what the last
  Apply showed each session.  The `api*` variables are the API, which is not in
  this repository: they follow what the wizard's requests and error handling
  assume of it (section 6).  Handlers are `WizardIndex`, `Step1*`,
  `Step2Database`, `EditStep` (steps 3 to 8), `OpenPage`, `Apply*` for each answer
  of the API, `WriteStep` for each file, `SaveFinal`, `RestartApi`; the admin pages
  appear as the writers `AdminEditLocal`, `AdminEditApi` and `CustomisePages`.
  A page that comes up may read `stack.conf` and `secrets.env` back into the
  session, the secret among them (`FromFiles`).
  Apply calls the API synchronously on the event loop, so no other handler runs
  inside it; a crash, the API and the API's operator do.
  Form fields are one value out of `Configs`, a secret is the number of its
  generation.
- **`WizardFields`** - the answers.  `page` is the page of the progress bar the
  tab is on, `mem` the session, `saved` its progress file and `store` what the
  API, `stack.conf` and `branding.json` hold of each field; a field stands for
  form fields that are filled, stored and read together.  Each page has its GET
  (`...Get`: what it takes from the files of an earlier run, from `weewx.conf`
  through the API, or from the API's own configuration) and its POST (`...Post`,
  with what a refused form leaves in the session: `Refuse`).  The forms of a
  page that changes the session only when it is accepted have no refusal.
  `Apply` sends the API its fields and then writes `branding.json` (a failure is
  logged), `stack.conf`, `branding.json` again, and more; where one of these fails,
  the files before it are new, the progress file is old and the review page comes
  up, from which Apply may be tried again (`ApplyUpTo`).  Which credentials the API
  takes, and whether the progress file can be written, is in `WizardSetup`; here it
  takes any, and the file can.  `Restart`, `NewSession` and `CleanUp` are the ways a
  session is lost and read back.  An API that is set up lets step 1 pass only with
  the proxy secret (`paired`; without it is the case of finding *reopen*).  `want`
  and `refused` are history: the latest accepted answers, and the fields a refused
  form has changed.  What the code does not carry over is not counted as an answer
  any more (`Kept`, `PriorFields`, `Remembered`): the agreement in a new session;
  units and locations, which come back at step 1 and from the API alone, in a new
  session or after a clean-up once the API has others, or when step 1's request for
  them fails (`AtApi`, `Untold`); after a clean-up, with the API elsewhere, what
  only its `api.conf` has; what the station page reads over the session from
  `branding.json`.
- **`AdminSections`** - the sections of the admin pages and their files.  `text`
  has the lines of `stack.conf` and `api.conf`: the two markers, entries, and
  lines the operator wrote.  `Region`, `Over`, `Spliced` and `Without` are
  `update_managed_region`, `update_column_mapping` and the reader.  A save is
  one step, since a handler does not await between reading a file and writing
  it; `WriteConf` and its likes say how a write may end (done, refused, cut
  short).  `HandEdit` is the operator's editor, `Pin` step 1 of the wizard,
  `Apply` its last step, which writes `stack.conf` and `branding.json` over and
  re-quotes `secrets.env`.  An API on this host rewrites `[database]` and
  `[column_mapping]` of `api.conf` when it is applied to; that is its own act
  and not in the model, so what the properties say of `api.conf` is about the
  time between two of them.  `last` and `hand` are history: what was last saved,
  and how many lines the operator wrote.
- **`SetupContract`** - what the hand-over promises, with no mention of
  sessions, files or retries: a local pair of configuration and secret follows
  a remote pair, and success is announced only when the local side holds all of
  the exchange.  `WizardSetup` implements it (`FollowsContract`); the mapping
  takes `stack.conf` and `secrets.env` as the local side, the payload of the
  Apply in progress as the exchange, and the sessions on the completion page as
  those told of success.
- **`AdminAccess`** - `secrets.env` (`file`), the token in memory, the bootstrap
  handler between two file accesses (`job`), sessions in memory and on disk, and
  the command line's copy of the file (`cli`).  Each read and each write of the
  file is a step, so that a crash or the command line may come between.  A write
  may spoil an account's name that has a quotation mark in it (`Rewritten`):
  `write_secrets_env` escapes an apostrophe (`config_writer.py:201`) in every
  value it found in the file, and no reader undoes that (`auth.py:236`,
  `state_persistence.py:46`).  `rough` remembers that a write failed, that
  `sessions.json` could not be written, that the command line ran beside the
  service or that two bootstrap forms waited at once: most of what the code
  promises ends there.
- **`LoginLimiter`** - the limiter for one address, with the clock; `log` is a
  history variable, the times of all failures since the last success, and
  `failures`, the list the service keeps, is the set of the places its times have
  there (two failures may have one time).
- **`MarineLocations`** - the API's list of locations (`api`), photo files and
  `marine-photos.json` on this host, admin forms open in browser tabs, and the
  wizard session's own list.  A handler reads the API's list, changes it and
  sends it back with no await in between, so a save is one action; what
  interleaves are forms and the wizard session, which hold what was true when
  they were filled.  A location keeps its name (up to the slug), whether its
  breaker formula or height display were set (`tuned`), and its photo.  Ids are
  slugs; `Numbered` has those of each name in their order (`beach`, `beach-2`), as
  many as it may get, and two names may have one in common.
  The wizard's page is taken to be up to date when it is posted.
- **`MarineCatalog`** - what the marine sections promise: the list changes by
  one location at a time or by the hand-over of the wizard's list, no location is
  added by itself without a marine service, and none comes back by itself.
  `MarineLocations` implements it (`FollowsCatalog`); the mapping keeps ids and
  names.
- **`RestartPolling`** - the completion page's polling of the restarting API:
  all tabs of a session share `restart_poll_count`.
- **`ColumnMapping`** - the wizard's step 3: which canonical name each custom
  column of the weather archive feeds.  `mem` is the session's mapping by
  column, `schema` the cached suggestions that a page is made from, `pages` the
  columns of the page in each tab (one session's: a form posts those), `api` the
  mapping as the API has it, by name, with the unmapped columns as one entry
  `_excluded`.  `Payloads` turns the mapping round for Apply; `FromApi` and
  `FromConf` are the two readers that turn it back on a later run.  Which of two
  columns with one name the inversion keeps is left open.  The operator's answers
  are history (`want`, `agreed`), as are `turned` (a list of unmapped columns was
  read back through `FromApi`) and `rough`.  What a column's name resembles
  (`suggest_canonical`) is a constant.
- **`WizardSetupProofs`**, **`WizardFieldsProofs`**, **`AdminAccessProofs`**,
  **`AdminSectionsProofs`**, **`LoginLimiterProofs`**,
  **`MarineLocationsProofs`**, **`ColumnMappingProofs`**,
  **`RestartPollingProofs`** - the proofs (section 5).
- **`WizardSetupMC`**, **`WizardFieldsMC`**, **`AdminAccessMC`**,
  **`AdminSectionsMC`**, **`MarineLocationsMC`**, **`ColumnMappingMC`** - values
  of the constants and symmetries, for TLC.

## 3. Runs

Passing runs:

- **secrets** - `SecretsAgree` and `SecretKnownHere` with two browser sessions,
  two generated secrets, an API reset and the faults *crash*, *write*, *torn*,
  *lost* (an answer) and *late* (a timed-out request carried out later).  Two
  sessions are what it takes for one to hold a secret the other did not see;
  two secrets are what it takes to disagree; three handshakes allow one before
  a reset, one after it and one whose answer was lost.  One configuration is
  enough to tell a file written from one that is not; the theorems of section 5
  hold for any.  `FollowsContract`, the refinement of `SetupContract`, is checked
  over the same behaviours.
- **handover** - `CompletionMeansAgreement` and `PagesKept` with two
  configurations (written and not written are then told apart) and two
  sessions, crashes, failing and torn writes, and the admin pages.
- **fields** - `AnswersShown`, `AnswersApplied` and `AppliedAccepted` over any
  way through the pages.  A behaviour has one of three operators, since all
  fields at once are too many states: one changes the title (which is in two
  stores, one of which may be left behind by a failed Apply) and leaves the
  station's name to `weewx.conf`, one has a webcam that may be off (blank, which
  is what merges guess from) beside an image that never is, and a text about the
  station (which is read over the session), one has marine locations (which only
  the API keeps) and fills in the pages between.  Two values are what it takes
  for an old answer to be taken for the new one.  Applies stop after each of the
  files and are tried again.  The API is on another host; with the API on this
  host its `api.conf` is one more store that is read like `stack.conf`.
- **sections** - `SavesStick` (what was last saved under a key is what is stored)
  and `HandTextKept` (the operator's text is in the file, once).  An operator
  uses a few sections, those that share a file or a handler (`FilesInTurn`);
  sections with no file in common cannot touch each other.  Two values tell a
  save from the one before, two lines of hand-written text a line lost from one
  that is not, two pins the first one, which everybody reads, from the others.
  Conf files start with markers, without any, or not at all.
- **access** - two accounts, one of which has a quotation mark in its name, two
  tabs, two tokens, and every fault: crashes, torn
  and failing writes, and the command line while the service is down or beside
  it.  Name and hash belong together whatever happens, unless the name has been
  spoilt (`CredentialsWhole`); until something is `rough`, there is a way in, but
  perhaps not for the account with that name (`SomeWayIn`), a second account
  takes a second token (`SecondAccountTakesTwoForms`), a logged-out session stays
  out (`LoggedOutStaysOut`) and others survive a restart (`SessionsSurvive`).  Two
  tokens allow one before a reset or crash and one after it; two tabs are what it
  takes for two forms to meet.
- **limit** - `FailuresBounded` and `ThrottledForCause` with a limit of three
  failures, window and throttle of three ticks and two requests at once.  Eight
  ticks hold two throttle periods and both of their boundaries; a window of
  three ticks has an inside and two ends.
- **locations** - the refinement of `MarineCatalog` and `PhotosStored` over admin
  forms, uploads, the wizard and failing requests.  Two locations of a name are
  what it takes for their slugs to collide, and two wizard cards for an id to move
  from one card to another; a photo belongs to an id, and two ids of one name are
  those that can be mixed up.  A second name multiplies the states; names that
  share a slug (a location called "Beach 2" beside the second "Beach") are left to
  the theorems of section 5, which are about any names and slugs.
- **rerun** - `ChoicesDelivered` (each name is fed by the column it was given to,
  and unmapped columns are listed) and `ChoicesShown` (step 3 comes back with the
  operator's answers) over re-runs, new sessions, expired progress files, stale
  tabs, a changing table and reads that fail.  Two columns that resemble one name
  are what it takes for a suggestion to get in the way of a choice, and for the
  list of unmapped columns to have more than one entry; a second name lets them
  swap.
- **settles** - `Settles`, the liveness of polling, and the bound on the count,
  with two tabs (one of which may eat the other's turn at the limit), four acts
  of the operator or restarts of the service, and a limit of three in place of
  150: the boundary is the same.

Runs that show a difference between the code and what is written about it:

- **reopen** - a completed setup on one host stores no proxy secret, so
  re-run mode is off, and the API offers no trust token any more.
- **tuning** - saving one marine location resets the breaker formula and height
  display of the others: the reader of the list does not know them.
- **overwritten** - a re-run that turns the webcam off finds it on again after
  a page of which nothing is set was opened: the merge takes a field at its
  default for one that was not filled in, and fills every page's fields.

Other differences the models have and no run singles out (`PROJECT.json` notes
those that are hazards): progress files store the database password, the API
keys and the proxy secret as they are, and `SecretKnownHere` rests on it, while
the module's docstring (`state_persistence.py:3`) says that secrets are never
stored there and replaced by a sentinel, and `save_progress`'s own (line 57)
that they are stored as-is; the agreement does not come back in a new session,
though `step_eula_get`'s docstring (`routes.py:635`) says that its page is
passed over on a re-run; Apply escapes an apostrophe in the admin account's name
and so shuts it out, while `config_writer.py:234` speaks of preserving the admin
credentials; two bootstrap forms posted together with one token both store an
account, though a comment calls its consumption single-use (`TokenUsedOnce` in
`AdminAccess`); a marine form refused for the size of its photo comes back as an
edit of the id its name would have had; a re-run that reads the mapping back
from the API takes `_excluded` for a name and its list for a column, so that
columns left unmapped have a suggestion selected again (`turned` in
`ColumnMapping`); `--reset-admin-password` beside a running Apply writes back an
older `secrets.env` without the proxy secret; a 410 after a failed local write
ends on the error page where a comment expects Apply to go on; a new location's
photo is stored under its name's first id, whoever has it; a form refused for
its name, position or activities comes back without the photo it carried; the
wizard's marine step changes the session before it refuses; a second completion
page starts from the first one's poll count, and its first poll may reach the
API before it has exited; after a re-run through the API a column may be both
mapped and on the list of unmapped ones; a column that is not on a form may keep
a name the form gives to another; Apply writes `stack.conf` anew, and with it
goes the operator's own text below the region, which the file's header calls
free-form, and the sections of the cards; Apply escapes the quotes in a password
the admin page stored, which no reader undoes (`Requoted`); a card's page always
comes up with the defaults; `branding.json` has camel-case keys from the wizard
and snake-case keys from the admin page.

Deadlock is not checked in AdminAccess and LoginLimiter, where everything that
happens is bounded (tokens, sessions, the clock) and a run may stop at the
bounds.  In the others it is.

## 4. Bounds and fairness

Faults are a constant: each run allows those its properties hold under.
`MaxSecrets`, `MaxHandshakes`, `MaxResets`, `MaxTokens`, `MaxSessions`,
`MaxPending` and `MaxTime` cap counters; every other variable is finite.  Fault
`cleanup` (progress files older than 72 hours) and `save` (a progress file that
cannot be written) are left out of `secrets`: they can lose the only local copy
of a secret the API enforces, and nothing in the code is meant to prevent it.

`MaxHand` and `MaxPins` bound the lines an operator writes and the pinned APIs;
`WizardFields` is finite without a bound.

`Numbered` and `MaxCards` bound locations of a name and wizard cards, `MaxActs`
the applies, retries and restarts around polling: with ever more retries in one
tab another one might never be the one to reach the limit, so `Settles` needs
that bound, and says nothing of an operator who retries for ever.

Fairness is assumed in `RestartPolling` alone, of a page's polls: the browser
sends one every two seconds while the page is open (`hx-trigger` in
`step_complete.html`).  The API need not come back.  Elsewhere the properties
are safety properties: the service has no background work, and apart from a
request's own steps everything happens when an operator or the API acts, which
the code does not schedule.

## 5. Proofs

`tlapm` proves, for any sets of sessions, configurations, names, tabs and photo
types, any accounts, form values and operators, any faults and any bounds that
satisfy the assumptions in the modules:

| Theorem | States | Under |
|---|---|---|
| `WizardSetupProofs!TypeCorrect` | `Spec => []TypeOK` | - |
| `WizardSetupProofs!SecretsAlwaysAgree` | `Spec => []SecretsAgree` | - |
| `WizardSetupProofs!HandoverFollowsContract` | `Spec => FollowsContract` | - |
| `WizardSetupProofs!CompletionIsTrue` | `Spec => CompletionMeansAgreement` | `SteadyApi`: no reset, no late request |
| `WizardSetupProofs!SecretAlwaysKnownHere` | `Spec => []SecretKnownHere` | `FilesLast`: progress files can be written and are not cleaned up |
| `WizardSetupProofs!PagesAlwaysKept` | `Spec => PagesKept` | - |
| `WizardFieldsProofs!FieldsTypeCorrect` | `Spec => []TypeOK` | - |
| `WizardFieldsProofs!RefusedNeverApplied` | `Spec => AppliedAccepted` | - |
| `WizardFieldsProofs!AnswersAlwaysShown` | `Spec => AnswersShown` | - |
| `WizardFieldsProofs!AnswersAlwaysApplied` | `Spec => AnswersApplied` | - |
| `AdminAccessProofs!AccessTypeCorrect` | `Spec => []TypeOK` | - |
| `AdminAccessProofs!CredentialsStayWhole` | `Spec => []CredentialsWhole` | - (it lets a name with a quotation mark be spoilt) |
| `AdminAccessProofs!LogoutIsFinal` | `Spec => []LoggedOutStaysOut` | - |
| `AdminAccessProofs!SessionsLast` | `Spec => []SessionsSurvive` | - |
| `AdminAccessProofs!NeverLockedOut` | `Spec => []SomeWayIn` | - (it exempts an account whose name has a quotation mark) |
| `AdminAccessProofs!TokenSetsUpOneAccount` | `Spec => []SecondAccountTakesTwoForms` | - |
| `AdminSectionsProofs!SectionsTypeCorrect` | `Spec => []TypeOK` | - |
| `AdminSectionsProofs!SavesAlwaysStick` | `Spec => []SavesStick` | - |
| `AdminSectionsProofs!HandTextAlwaysKept` | `Spec => []HandTextKept` | - |
| `LoginLimiterProofs!LimiterTypeCorrect` | `Spec => []TypeOK` | - |
| `LoginLimiterProofs!FailuresAlwaysBounded` | `Spec => []FailuresBounded` | - |
| `LoginLimiterProofs!NobodyThrottledEarly` | `Spec => []ThrottledForCause` | - |
| `ColumnMappingProofs!MappingTypeCorrect` | `Spec => []TypeOK` | - |
| `ColumnMappingProofs!ChoicesAlwaysDelivered` | `Spec => []ChoicesDelivered` | - |
| `ColumnMappingProofs!ChoicesAlwaysShown` | `Spec => ChoicesShown` | - |
| `RestartPollingProofs!PollsCounted` | `Spec => []TypeOK` | - |
| `MarineLocationsProofs!PhotosAlwaysStored` | `Spec => []PhotosStored` | - |
| `MarineLocationsProofs!MarineTypeCorrect` | `Spec => []TypeOK` | - |
| `MarineLocationsProofs!CatalogFollowed` | `Spec => FollowsCatalog` | - |

`SecretsAgree` is not inductive: nothing in it says why the secret an Apply
sends is not a second one.  The invariant `SInv` gives the reason.  Different
sessions may well hold different secrets; what counts is who could get an Apply
accepted.  That is one session at most, the *holder*: the one whose setup
session is live at the API.  Everyone else must show the secret the API has
loaded, and so sends that one again.

- `ApiInv` - the API's flags fit each other: it has loaded no secret but the
  stored one, a live setup session means none is loaded and no trust token
  left, an API that is not set up stores no secret, and a request in flight has
  used up the token;
- `PinInv` - `secrets.env` and any state with an address imply a pin, so that
  re-run mode is decided by the secret alone;
- `SidInv` - a setup session belongs to one browser session and is never on
  disk, so that a crash of the service ends it;
- `HolderInv` - the holder's secret is the one either side has, if any;
- `JobInv` - during an Apply the API has the applying session's secret or none,
  and no one else's setup session is live;
- `LateInv` - a timed-out request that may still land brings no second secret.

`WriteInv` says which files an Apply in progress has written, `ApiHolds` that
the API still has what the Apply in progress sent (this is what `SteadyApi`
buys), and `DiskInv` that a session's progress file holds no other secret than
its memory, that the holder's holds the same, and that what the API stores, or
may still adopt, is in one of these files (`FilesLast`).  A secret that a page
read back from `secrets.env` may be in memory alone; the API's is in a progress file
all the same.  `HandoverFollowsContract` maps each action to an action of the
contract or to a stutter; `WriteInv` is what the completion step needs.

`AppliedAccepted` says that no refused field is left when Apply writes.  That a
page once refused must be passed again is the invariant `RefusedAhead`: each field
a refused form has changed is asked about on a page at or after the one the tab is
on.  A forward step accepts its page's form and so clears its fields; every other
step goes back, or stays.  The review page has nothing at or after it, hence
nothing is refused there.

`AnswersShown` and `AnswersApplied` are about the page that comes up and about
the review page; their invariant (`AInv`) is about every page at any time.  The
answers of the pages behind the tab are in the session and in its progress file
(`HeldBehind`).  Of a page ahead, with no refused form on it, an answer may be
missing, but not in any way: where it is, it is blank, every store that keeps it
has it and can be read back (`InFiles`), and the whole form of its page is blank
too (`Together`), or the merge would take the page for one that was filled in
and leave the answer out.  Units and locations are in no file: until step 1 has
asked the API they may be missing (`Owed`), provided that the API has them
(`OwedByApi`), and an API that is not set up has nothing (`ApiNew`).  What a
refused form left is no answer (`RefusedUnwanted`).  An Apply that stops between
two files leaves each store as it was or with the session's answers, and on the
review page the session has them all; so nothing of this depends on where it
stops.  Opening such a page reads it all back; an accepted form brings its page
behind the tab; a session that is lost and merged again keeps both halves,
because whole pages are dropped (`Restored`, `Forms`).  The station's form is
the exception to `Together`, as its text is read over the session whatever is
there.

The argument for the limiter is about one failure, the one that set the deadline
(`Cause`): with it the failures fill a window (`SetBy`); the later ones that are
still in the window are on the list, which is shorter than the limit
(`ListedSince`); and a window that reaches back before it has, with those that
filled the list, only failures of requests that were past the check already
(`RoomFrom`), since while it reaches back that far nobody else is let in.  That
takes a throttle time no shorter than the window (`ThrottleCoversWindow`; in
`auth.py` both are sixty seconds).  Where windows are counted, `Starts` has
those that have not ended; an ended one gets no more failures.

A column mapping is turned round on its way to the API and back on a later run.
`ChoicesDelivered` follows if nothing is lost by turning it: no two columns of
the session have one name (a step after which two have is `rough`), no two
entries of the API stand for one column (`ApiShape`), and what is no column, or
is called `_excluded`, came out of a list that was read back (`MemShape`).
`MemHeld` says that the session has the operator's answers, unless it has no
mapping, in which case they are those last applied (`Sessions`); so a connected
session always has them (`ConnectedHeld`), which is also what `ChoicesShown`
needs.  That a list of one column is that column, joined and split again, takes
`Cardinality`, and so that a table has finitely many columns (`Columns`).

The invariant of `AdminAccess` has two halves.  `AllWhole` holds whatever happens:
username and hash belong together in `secrets.env`, or the name is a spoilt one of
an account with a quotation mark, and so they do in every copy of it that a handler
or the command line is about to write back.  The other half ends
when something is `rough`, and nothing `rough` is taken back (`RoughStays`):

- `SessionsInStep` - memory is never ahead of `sessions.json`, no session that
  logged out is in either, and an issued one is where the service keeps its
  sessions (`Live`) unless it aged or logged out;
- `WayIn` - the service has an account or a token when no handler is between two
  accesses to the file, and one that is will not write back a copy without either;
- `Once` - a token that is stored anywhere (the file, memory, a copy about to be
  written back) has set up nobody yet (`Fresh`), and when its account is written no
  copy of it is left.  A crash between the writes of a bootstrap therefore leaves
  a token that is still good, or none.

`AdminSections` is about files of any length, so its proof goes by their shape
(`Shaped`): a conf file is a region between the markers with the operator's lines
below it (`Whole`), or has the operator's lines alone (`Hands`).  The lemmas on
the operators say what a save makes of a region: `OverRegion` that writing values
over it leaves each key once, reads as those values and otherwise as before, and
keeps the operator's lines; `KeptRegion` the same of removing keys, whose lines
keep their order (`Ranks` counts them); `SplicedWhole` and `Enclosed` that the
region goes back where it came from.  `ShapedText` puts these together for either
shape.  The invariant (`IInv`) has the shape of both files, the operator's lines
counted (`Counted`), and for each place a value can be in - the two conf files, the
JSON files, `secrets.env`, the API, the pins with `caddy.env` - that it holds what
was last saved there.  `WriteConfKeeps` is the step all conf saves share: it takes a
new text that answers for the save and looks at the three ways a write may end.
That no key is in two files (`ConfKeys`) is what keeps the others out of it.

The type invariant of `RestartPolling` bounds the shared count.  Past the limit
only a page that gives up adds to it, so the count and the pages that still poll
are together at most the limit, the acts and the tabs (`IInv`); the same holds of
the saved count, which a restart brings back.

`PhotosStored` is about `marine-photos.json`, but a `photo_url` leaves it for
forms and for the wizard's session and comes back later, so `PhotoInv` says the
same of all three: the sidecar (`SidecarInv`), every open form (`FormInv`) and
every location of the session (`DraftInv`) name only ids that have a photo file.
Photo files are replaced and never removed, so what was stored stays stored
(`StoredStays`); an upload stores the file before anything names it
(`PhotoStored`, `CardPhotosStored`).

`CatalogFollowed` needs no more than the types: that every id a form, a card or
the API's list holds is one of `Ids`.  Each step is an addition, an edit, a
removal, a hand-over of the wizard's list, a draft or a stutter of the catalog.
An addition must not replace a location, so the slug it takes has to be free
(`SlugIsFree`), also of locations with another name.  That two cards of one wizard
form never share an id is `CardIdsDiffer`.

TLC checks the same properties on the instances of section 3; the mutants in
`PROJECT.json` show that each property notices a plausible mistake in the code.

Only model-checked: `Settles`, which is a liveness property and stays with TLC.
What a run shows and no theorem states is otherwise a finding, a property TLC
violates.

## 6. Assumptions about what is not in this repository

The API: it prints a trust token when it starts and is not set up; a trust
token buys one setup session; an accepted `/setup/apply` sets it up and stores
the secret if one was sent; it loads the stored secret when it starts; a restart
drops setup sessions and requests in progress; `--reset` erases configuration
and secret; once set up it may answer a setup session with 200 or 410.  All of
this is what `wizard/routes.py` and `api_client.py` say in their handling of
its answers.

A restart request is answered before the API exits.  Locations sent to
`/setup/apply` replace the API's list, which the next fetch returns.

The file system: `os.replace` is atomic, a small file written in place is there
in full, empty, or as before.

## 7. Not modelled

In `WizardSetup` steps 3 to 8 are one edit, which `WizardFields` has page by
page; there one tab goes through the pages, and the optional TruShore page after
the marine page, the imported skin's colours and images, and the tests and lookups
a page offers are left out.  `webcam.json` and the content pages,
which Apply writes first and forgivingly and nothing reads back, are left out;
`charts.conf` is one entry of the list of writes.  `read_secrets`' cache by
modification time is taken as exact.  The components without a module are in
the table of section 1; translations, tables, parsing, templates and scripts
keep no state that an interleaving or a failure could spoil.  Of the column
mapping, units and two browsers' sessions at once are left out; the admin page,
which edits `api.conf` beside the API, is in `AdminSections`, and reads the
section the other way round than the wizard does (`config/reader.py`,
`state_persistence.py`).  Which orientation the API takes is not in this
repository, so the two are not compared.

Of the admin sections, text that cannot be parsed, markers edited by hand, a
`stack.conf` cut short by Apply, the radar line of `caddy.env`, the fingerprints
beside the pins and the validation rules (pure functions of one form) are left
out; so is the list of locations, which `MarineLocations` has.  The buttons that
only have the API do something (basemap, forecast correction, reset of a
calibration) change nothing here.

## 8. Plan

1. *Done*: the hand-over, its contract and their proofs; the wizard's pages and
   re-runs; admin access; the login limiter; marine locations and their catalog;
   restart polling; column mapping; the admin sections and their files; the proofs
   about all of these.
2. The TruShore page, with the locations' surf settings that the marine page
   rebuilds; skin import.
3. Validation rules of the registry as operators.

Order: what crosses hosts first, then what shares a file, then pure parts.
