---------------------------- MODULE WizardFields ----------------------------
(***************************************************************************)
(* The setup wizard's answers, from the forms into the session, its        *)
(* progress file and, by Apply, the API, stack.conf and branding.json, and *)
(* from there back into later sessions.  A page that is opened fills what  *)
(* is still blank in the session from the files of an earlier run, but     *)
(* only if the fields it asks about first are blank; step 1 fills it from  *)
(* the API.                                                                *)
(*                                                                         *)
(* A field stands for the form fields that are filled, stored and read     *)
(* together (wizard/routes.py, wizard/state_persistence.py).  Blank is its *)
(* default: None, "", an unchecked box, a radius of 100 km.  One browser   *)
(* tab goes through the pages: forward by submitting them, back by the     *)
(* progress bar, the Previous button and the links of the review page.     *)
(***************************************************************************)
EXTENDS Naturals, Sequences

CONSTANTS
    Values,     \* what a field may hold other than Blank
    Blank,
    NoAnswer,
    Offers,     \* what the operator may answer, by field: one choice per behaviour
    Found,      \* what weewx.conf and a skin.conf may have for a field
    ApiConfHere \* the API runs on this host: its api.conf can be read

Pages == <<"api", "import", "eula", "db", "columns", "units", "station", "providers", "webcam",
           "branding", "privacy", "features", "marine", "tls", "review", "done">>
Login  == 0
Review == Len(Pages) - 1
Done   == Len(Pages)

Fields == {"eula", "db", "mapping", "units", "name", "about", "providers", "webcam", "image",
           "title", "accent", "analytics", "regions", "quake", "locations", "tls"}

Forms == [eula |-> {"eula"}, db |-> {"db"}, columns |-> {"mapping"}, units |-> {"units"},
          station |-> {"name", "about"}, providers |-> {"providers"},
          webcam |-> {"webcam", "image"}, branding |-> {"title", "accent"},
          privacy |-> {"analytics", "regions"}, features |-> {"quake"},
          marine |-> {"locations"}, tls |-> {"tls"}]

Asks(i) == IF Pages[i] \in DOMAIN Forms THEN Forms[Pages[i]] ELSE {}

\* Where Apply puts a field, and what the API is not sent when it is blank.
ApiFields   == {"db", "mapping", "units", "name", "providers", "quake", "locations"}
Omitted     == {"units", "providers", "locations"}
StackFields == {"eula", "name", "webcam", "image", "title", "accent", "analytics", "regions",
                "quake", "tls"}
BrandFields == {"title", "accent", "analytics", "regions", "about"}
Stores      == {"api", "stack", "brand"}
KeptBy      == [api |-> ApiFields, stack |-> StackFields, brand |-> BrandFields]

\* What the ways back restore.
PriorFields   == Fields \ {"eula", "units", "locations"}
FileFields    == Fields \ {"eula", "units", "locations"}
CurrentFields == ApiFields
ApiOnly       == ApiFields \ FileFields

Answers == Values \cup {Blank}

ASSUME BlankIsNoValue  == Blank \notin Values /\ NoAnswer \notin Answers
ASSUME ValuesGiven     == Values # {}
ASSUME OffersAnswers   == Offers \subseteq [Fields -> SUBSET Answers]
ASSUME FoundValues    == Found \subseteq Values
ASSUME HostIsKnown     == ApiConfHere \in BOOLEAN

VARIABLES
    offered,    \* what this operator may answer
    page,       \* the page the tab is on; Login when it has none
    mem,        \* the session
    saved,      \* its progress file; all blank when there is none
    store,      \* what the API, stack.conf and branding.json hold
    configured, \* the API has been set up
    here,       \* stack.conf exists
    paired,     \* secrets.env has the proxy secret, and step 1 needs no token
    want,       \* the operator's latest accepted answer, while the code keeps it
    refused     \* fields that hold what a refused form left in the session

files == <<store, configured, here, paired>>
vars == <<offered, page, mem, saved, files, want, refused>>

Nothing == [f \in Fields |-> Blank]

TypeOK ==
    /\ offered \in Offers
    /\ page \in Login..Done
    /\ mem \in [Fields -> Answers]
    /\ saved \in [Fields -> Answers]
    /\ store \in [Stores -> [Fields -> Answers]]
    /\ {configured, here, paired} \subseteq BOOLEAN
    /\ want \in [Fields -> Answers \cup {NoAnswer}]
    /\ refused \subseteq Fields

Init ==
    /\ offered \in Offers
    /\ page = 1
    /\ mem = Nothing /\ saved = Nothing
    /\ store = [s \in Stores |-> Nothing]
    /\ configured = FALSE /\ here = FALSE /\ paired = FALSE
    /\ want = [f \in Fields |-> NoAnswer]
    /\ refused = {}

-----------------------------------------------------------------------------
(* Reading back.                                                           *)

\* Mutant: what src has replaces what m has.
FillOver(m, F, src) == [f \in Fields |-> IF f \in F /\ src[f] # Blank THEN src[f] ELSE m[f]]

\* m, and what src has for the fields of F that m has blank.
Fill(m, F, src) == [f \in Fields |-> IF f \in F /\ m[f] = Blank THEN src[f] ELSE m[f]]

FromApiConf(f) == IF ApiConfHere /\ f \in {"db", "mapping", "providers"} THEN store["api"][f] ELSE Blank
FromStackConf(f) == IF f \in StackFields THEN store["stack"][f] ELSE FromApiConf(f)
\* branding.json wins over stack.conf where it has something.
OverBranding(m) == [f \in Fields |-> IF store["brand"][f] # Blank THEN store["brand"][f] ELSE m[f]]
Existing == OverBranding([f \in Fields |-> FromStackConf(f)])

FromFiles(m) == IF here THEN Fill(m, FileFields, Existing) ELSE m

\* The request to the API may fail, and then nothing is filled in.
CurrentOf(m)   == Fill(m, CurrentFields, store["api"])
FromCurrent(m) == {m, CurrentOf(m)}

\* A page whose fields F are all blank reads the files of an earlier run.
Looked(F, m) == IF \A f \in F : m[f] = Blank THEN FromFiles(m) ELSE m

\* Mutant: a missing value is taken for a value.
AskedAnyhow(f, m) ==
    IF m[f] # Blank THEN {m} ELSE {[m EXCEPT ![f] = v] : v \in Found \cup {NoAnswer}}

\* A field that is still blank is taken from weewx.conf, through the API.
Asked(f, m) == IF m[f] # Blank THEN {m} ELSE {[m EXCEPT ![f] = v] : v \in Found \cup {Blank}}

-----------------------------------------------------------------------------
(* Opening a page: the sessions that may come of session m.                *)

EulaGet(m)      == {Looked({"eula"}, m)}
DbGet(m)        == Asked("db", Looked({"db"}, m))
ColumnsGet(m)   == {Looked({"mapping"}, m)}
UnitsGet(m)     == {Looked({"units"}, m)}
ProvidersGet(m) == {Looked({"providers"}, m)}
WebcamGet(m)    == {Looked({"webcam", "image"}, m)}
BrandingGet(m)  == {Looked({"title", "accent"}, m)}
PrivacyGet(m)   == {Looked({"analytics", "regions"}, m)}
FeaturesGet(m)  == {Looked({"quake"}, m)}
TlsGet(m)       == {Looked({"tls"}, m)}
ReviewGet(m)    == {Looked({"db", "name"}, m)}

\* Without a text about the station, branding.json is read over the session.
StationGet(m) == {IF n["about"] = Blank THEN OverBranding(n) ELSE n :
                    n \in Asked("name", Looked({"name"}, m))}

MarineAsks(p, m) == p = "marine" /\ paired /\ m["locations"] = Blank
MarineGet(m)     == IF MarineAsks("marine", m) THEN FromCurrent(m) ELSE {m}

Opened(p, m) ==
    CASE p = "eula"      -> EulaGet(m)
      [] p = "db"        -> DbGet(m)
      [] p = "columns"   -> ColumnsGet(m)
      [] p = "units"     -> UnitsGet(m)
      [] p = "station"   -> StationGet(m)
      [] p = "providers" -> ProvidersGet(m)
      [] p = "webcam"    -> WebcamGet(m)
      [] p = "branding"  -> BrandingGet(m)
      [] p = "privacy"   -> PrivacyGet(m)
      [] p = "features"  -> FeaturesGet(m)
      [] p = "marine"    -> MarineGet(m)
      [] p = "tls"       -> TlsGet(m)
      [] p = "review"    -> ReviewGet(m)
      [] OTHER           -> {m}

\* The page of the agreement passes on to the database once it was accepted.
Landing(i, m) == IF Pages[i] = "eula" /\ m["eula"] # Blank THEN i + 1 ELSE i

\* Answers are forgotten where branding.json replaces them.
Kept(w, m, n) == [f \in Fields |-> IF m[f] # Blank /\ n[f] # m[f] THEN NoAnswer ELSE w[f]]

\* The page asks the API for something, unless the session has it.
Fetches       == [db |-> {"db"}, columns |-> {"mapping"}, station |-> {"name"}]
Fetching(p, n) == p \in DOMAIN Fetches /\ (p # "columns" => \A f \in Fetches[p] : n[f] = Blank)

\* Page i is opened with session m, file s and answers w; or step 1 again, when the
\* API no longer knows the session.
Open(i, m, s, w) ==
    LET j == Landing(i, m)
        p == Pages[j]
    IN  \/ \E n \in Opened(p, m) :
             /\ page' = j
             /\ mem' = n
             /\ saved' \in (IF ~MarineAsks(p, m) THEN {s} ELSE IF n = m THEN {n, s} ELSE {n})
             /\ want' = IF p = "station" THEN Kept(w, m, n) ELSE w
        \/ /\ p \in DOMAIN Fetches
           /\ page' = 1
           /\ mem' = Looked(Fetches[p], m) /\ Fetching(p, mem')
           /\ saved' = s /\ want' = w

\* A submitted form has an answer, or what the page showed, in each field.
Filled(F) == {a \in [F -> Answers] : \A f \in F : a[f] \in offered[f] \cup ({mem[f]} \ {Blank})}
Put(g, a) == [f \in Fields |-> IF f \in DOMAIN a THEN a[f] ELSE g[f]]

-----------------------------------------------------------------------------
(* The operator.                                                           *)

\* What only the API could have brought.
Untold == [f \in Fields |-> IF f \in ApiOnly /\ mem[f] = Blank THEN NoAnswer ELSE want[f]]

\* Step 1.  An API that is set up takes no token, only the proxy secret; with that,
\* what the API has is merged into the session, if the request for it does not fail.
Connect ==
    /\ page = 1
    /\ configured => paired
    /\ \/ LET m == IF paired THEN CurrentOf(mem) ELSE mem IN Open(2, m, m, want)
       \/ paired /\ Open(2, mem, mem, Untold)
    /\ UNCHANGED <<offered, files, refused>>

\* A skin.conf brings units, unless there are some; a fresh start does not.
Import ==
    /\ page = 2
    /\ \E m \in Asked("units", mem) : Open(3, m, m, want)
    /\ UNCHANGED <<offered, files, refused>>

\* The form of page p is accepted, and the next page opened.
Accept(p) ==
    /\ page \in 3..(Review - 1) /\ Pages[page] = p
    /\ \E a \in Filled(Forms[p]) :
         LET m == Put(mem, a) IN Open(page + 1, m, m, Put(want, a))
    /\ refused' = refused \ Forms[p]
    /\ UNCHANGED <<offered, files>>

\* It has an error, and what it has in F stays in the session; page i comes up.
Refuse(p, F, i) ==
    /\ page \in 3..(Review - 1) /\ Pages[page] = p
    /\ page' = i
    /\ \E a \in Filled(F) : mem' = Put(mem, a)
    /\ want' = Put(want, [f \in F |-> NoAnswer])
    /\ refused' = refused \cup F
    /\ UNCHANGED <<offered, files>>

EulaPost     == Accept("eula")
ColumnsPost  == Accept("columns")
UnitsPost    == Accept("units")
WebcamPost   == Accept("webcam")
FeaturesPost == Accept("features")
\* The database is saved before its test, which fails, or finds no session.
DbPost        == Accept("db") \/ \E i \in {1, page} : Refuse("db", {"db"}, i) /\ saved' = mem'
StationPost   == Accept("station") \/ (Refuse("station", {"name"}, page) /\ UNCHANGED saved)
ProvidersPost == Accept("providers") \/ (Refuse("providers", {"providers"}, page) /\ UNCHANGED saved)
BrandingPost  == Accept("branding") \/ (Refuse("branding", {"title"}, page) /\ UNCHANGED saved)
PrivacyPost   == Accept("privacy") \/ (Refuse("privacy", {"analytics", "regions"}, page) /\ UNCHANGED saved)
MarinePost    == Accept("marine") \/ (Refuse("marine", {"locations"}, page) /\ UNCHANGED saved)
TlsPost       == Accept("tls") \/ (Refuse("tls", {"tls"}, page) /\ UNCHANGED saved)

\* Mutant: the progress bar also leads forward.
BackOrForth ==
    /\ page \in 1..Review
    /\ \E i \in 1..Review : Open(i, mem, saved, want)
    /\ UNCHANGED <<offered, files, refused>>

Back ==
    /\ page \in 1..Review
    /\ \E i \in 1..(page - 1) : Open(i, mem, saved, want)
    /\ UNCHANGED <<offered, files, refused>>

\* The wizard is opened again after it was completed.
Again ==
    /\ page = Done
    /\ page' = 1
    /\ UNCHANGED <<offered, mem, saved, files, want, refused>>

-----------------------------------------------------------------------------
(* Apply.                                                                  *)

\* The API keeps what it is not sent.
ApiWritten   == [f \in Fields |-> IF f \in ApiFields /\ (f \in Omitted => mem[f] # Blank)
                                  THEN mem[f] ELSE store["api"][f]]
BrandWritten == [f \in Fields |-> IF f \in BrandFields THEN mem[f] ELSE Blank]

\* Mutant: a setting that is there already is not written.
StackCompleted == [f \in Fields |-> IF f \in StackFields /\ store["stack"][f] = Blank
                                    THEN mem[f] ELSE store["stack"][f]]

StackWritten == [f \in Fields |-> IF f \in StackFields THEN mem[f] ELSE Blank]

Written == [api |-> ApiWritten, stack |-> StackWritten, brand |-> BrandWritten]

\* The API has carried out an Apply, and this host wrote the files of S: branding.json
\* before apply_wizard, which may be refused, and after stack.conf again; then the secret
\* the session has, or none, and some more.  Unless all is done the review page comes up again.
ApplyUpTo(S) ==
    /\ page = Review
    /\ store' = [s \in Stores |-> IF s \in S THEN Written[s] ELSE store[s]]
    /\ configured' = TRUE
    /\ here' = (here \/ "stack" \in S)
    /\ paired' \in (IF S = Stores THEN BOOLEAN ELSE {paired})
    /\ \/ page' = page /\ saved' = saved
       \/ S = Stores /\ page' = Done /\ saved' = mem
    /\ UNCHANGED <<offered, mem, want, refused>>

\* Which credentials the API takes is in WizardSetup; here it may take any.
Apply == \E S \in SUBSET Stores : "api" \in S /\ ApplyUpTo(S)

-----------------------------------------------------------------------------
(* The service.                                                            *)

\* The session goes on from its progress file, on whatever page is open.
Restart ==
    /\ page # Login
    /\ mem' = saved
    /\ UNCHANGED <<offered, page, saved, files, want, refused>>

\* An answer that comes back at step 1.
AtApi(f) == f \in ApiOnly /\ store["api"][f] = want[f]

Restored(m) == [f \in Fields |-> IF f \in PriorFields THEN m[f] ELSE Blank]

\* Another browser, or a new login: the latest progress file is merged.
NewSession ==
    /\ page' = 1
    /\ mem' = Restored(saved) /\ saved' = mem'
    /\ want' = [f \in Fields |-> IF f \in PriorFields \/ AtApi(f) THEN want[f] ELSE NoAnswer]
    /\ UNCHANGED <<offered, files, refused>>

\* An answer that every store of its field holds, where they can be read back.
Remembered(f) ==
    /\ f \in FileFields
    /\ f \in {"db", "mapping", "providers"} => ApiConfHere
    /\ \A s \in Stores : f \in KeptBy[s] => store[s][f] = want[f]

\* The service starts three days later: the progress file and login are gone.
CleanUp ==
    /\ page' = Login
    /\ mem' = Nothing /\ saved' = Nothing
    /\ want' = [f \in Fields |-> IF (here /\ Remembered(f)) \/ AtApi(f) THEN want[f] ELSE NoAnswer]
    /\ refused' = {}
    /\ UNCHANGED <<offered, files>>

Next ==
    \/ Connect \/ Import \/ EulaPost \/ DbPost \/ ColumnsPost \/ UnitsPost \/ StationPost
    \/ ProvidersPost \/ WebcamPost \/ BrandingPost \/ PrivacyPost \/ FeaturesPost
    \/ MarinePost \/ TlsPost \/ Back \/ Again \/ Apply
    \/ Restart \/ NewSession \/ CleanUp

Spec == Init /\ [][Next]_vars

-----------------------------------------------------------------------------
Shows(i, A) == \A f \in Asks(i) : want[f] \in A => mem[f] = want[f]

\* A page that comes up shows, in each field that was filled in, the latest answer
\* accepted for it, in this session or an earlier one, however the session was lost
\* and read back, as long as the stores still have that answer and no refused form
\* has left anything on the page (_merge_from_existing_config,
\* _merge_from_api_current_config, wizard_index).  Units and locations come back only
\* through the API, at step 1.  The agreement does not come back in a new session,
\* although step_eula_get (wizard/routes.py:635) says its page is passed over "on re-run
\* if the EULA was previously accepted": no merge copies eula_accepted_at.
AnswersShown ==
    [][page' # page /\ page' # Login /\ refused' \cap Asks(page') = {}
        => Shows(page, Values)']_vars

\* What Apply writes of a field that was filled in is its latest accepted answer
\* (wizard_apply).
AnswersApplied ==
    [][store' # store =>
        \A s \in Stores : store'[s] # store[s] =>
            \A f \in KeptBy[s] : want[f] \in Values => store'[s][f] = want[f]]_vars

\* What a refused form left in the session is never applied: the way to Apply leads
\* through that form again (the error returns of the step handlers come after they
\* have changed the session).
AppliedAccepted == [][store' # store => refused = {}]_vars

\* A page that comes up shows the latest answer also where that was to leave the field
\* empty: wizard/routes.py:4765 says of _merge_from_existing_config that it fills fields
\* "so user edits made during the current wizard run are never overwritten".
EditsKept == [][page' # page /\ page' # Login => Shows(page, Answers)']_vars
=============================================================================
