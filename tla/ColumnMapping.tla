--------------------------- MODULE ColumnMapping ---------------------------
(***************************************************************************)
(* Column mapping: which canonical field each custom column of the archive *)
(* table feeds, or that it feeds none.  The wizard's step 3 asks for it    *)
(* (wizard/routes.py, wizard/schema.py) and keeps it by column; Apply      *)
(* sends it inverted, by canonical name, with the unmapped columns as a    *)
(* comma-separated list under one more name, _excluded.  A later wizard    *)
(* run turns that back: from the API's current configuration, or, if that *)
(* cannot be had, from the api.conf of an API on the same host.            *)
(*                                                                         *)
(* A Python dict is a function here; which of two columns with one name    *)
(* wins its inversion, which the order of the dict decides, is left open.  *)
(***************************************************************************)
EXTENDS FiniteSets, Naturals

CONSTANTS
    Cols,     \* custom columns the table may have
    Canon,    \* canonical names
    Guess,    \* suggest_canonical: the name a column's resembles, or None; None
              \* too for a name that a stock column has
    Rank,     \* its confidence, and the column's place in the table
    None,     \* not mapped
    Excl,     \* the name _excluded
    NoPage,
    Tabs,
    Faults    \* subset of FaultKinds that may happen

FaultKinds == {"schema", "read", "table"}

Answers == Canon \cup {None}
\* A comma-separated list of one column is that column.
Lists     == {S \in SUBSET Cols : Cardinality(S) > 1}
Joined(S) == IF S \in Lists THEN S ELSE CHOOSE c \in Cols : S = {c}
Split(v)  == IF v \in Cols THEN {v} ELSE v
Fields    == Cols \cup Lists

ASSUME Columns       == IsFiniteSet(Cols)
ASSUME MappingFaults == Faults \subseteq FaultKinds
ASSUME Guesses       == Guess \in [Cols -> Answers]
ASSUME Ranks         == /\ Rank \in [Cols -> Nat]
                        /\ \A c, d \in Cols : Rank[c] = Rank[d] => c = d
ASSUME Markers       == /\ {None, Excl} \cap Canon = {} /\ None # Excl
                        /\ (\A S \in Lists : S \notin Cols) /\ NoPage \notin Answers

VARIABLES
    table,     \* the table's custom columns
    connected, \* the session has passed steps 1 and 2
    mem,       \* its column_mapping: by column
    progress,  \* that of the latest progress file, if any
    schema,    \* cached schema_data: the suggestion for each column, if any
    pages,     \* step 3 in the tabs: the columns it has, which the form will have
    api,       \* the API's column_mapping: by canonical name
    want,      \* the operator's latest answer for a column, while remembered
    agreed,    \* and the one last applied
    turned,    \* the list of unmapped columns was read back from the API
    rough      \* a name was given to two columns, or the mapping not read back

sessionVars == <<connected, mem, progress, schema, pages>>
seenVars == <<want, agreed, turned, rough>>
vars == <<table, sessionVars, api, seenVars>>

Partial(f, S, T) == DOMAIN f \subseteq S /\ f \in [DOMAIN f -> T]
Empty            == [k \in {} |-> k]
Over(f, g)       == [k \in DOMAIN f \cup DOMAIN g |-> IF k \in DOMAIN f THEN f[k] ELSE g[k]]
Unasked          == NoPage

TypeOK ==
    /\ table \subseteq Cols
    /\ connected \in BOOLEAN
    /\ \A m \in {mem, progress} : Partial(m, Fields, Answers \cup {Excl})
    /\ schema = NoPage \/ Partial(schema, Cols, Answers)
    /\ pages \in [Tabs -> (SUBSET Cols) \cup {NoPage}]
    /\ Partial(api, Canon \cup {Excl}, Fields)
    /\ {want, agreed} \subseteq [Cols -> Answers \cup {Unasked}]
    /\ turned \in BOOLEAN /\ rough \in BOOLEAN

Init ==
    /\ table \in SUBSET Cols
    /\ connected = FALSE
    /\ mem = Empty /\ progress = Empty
    /\ schema = NoPage /\ pages = [t \in Tabs |-> NoPage]
    /\ api = Empty
    /\ want = [c \in Cols |-> Unasked] /\ agreed = want
    /\ turned = FALSE /\ rough = FALSE

-----------------------------------------------------------------------------
(* The two directions *)

Unmapped(m) == {c \in DOMAIN m : m[c] = None}

\* Mutant of Payloads: the mapping is sent as it stands.
PayloadsAsIs(m) == {m}

\* canonical -> column; the unmapped columns, if any, as _excluded.
Payloads(m) ==
    LET named == {m[c] : c \in DOMAIN m} \ {None}
        names == named \cup (IF Unmapped(m) = {} THEN {} ELSE {Excl})
    IN {p \in [names -> Fields] :
           \A k \in names : IF k = Excl /\ Unmapped(m) # {}
                              THEN p[k] = Joined(Unmapped(m))
                              ELSE p[k] \in DOMAIN m /\ m[p[k]] = k}

\* Every entry of the API's answer is turned round, _excluded like a name.
FromApi(p) == [c \in {p[k] : k \in DOMAIN p} |-> CHOOSE k \in DOMAIN p : p[k] = c]

\* api.conf: _excluded is a list of columns, and these count as not mapped.
FromConf(p) ==
    LET excluded == IF Excl \in DOMAIN p THEN Split(p[Excl]) ELSE {}
        named    == DOMAIN p \ {Excl}
    IN [c \in {p[k] : k \in named} \cup excluded |->
           IF c \in excluded THEN None ELSE CHOOSE k \in named : p[k] = c]

-----------------------------------------------------------------------------
(* Step 3's page *)

\* A suggestion goes to one column, the surest.
Suggestions(cols) ==
    [c \in cols |->
        IF \A d \in cols : Guess[d] = Guess[c] => Rank[d] <= Rank[c]
          THEN Guess[c] ELSE None]

\* Mutant of Overlay: only names are laid over the suggestions.
OverlayNames(sug, m) ==
    [c \in DOMAIN sug |-> IF c \in DOMAIN m /\ m[c] \in Canon THEN m[c] ELSE sug[c]]

\* Saved answers come before suggestions, and a saved name is not suggested for
\* another column; _excluded is not among the options.
Overlay(sug, m) ==
    [c \in DOMAIN sug |->
        IF c \in DOMAIN m THEN (IF m[c] = Excl THEN None ELSE m[c])
        ELSE IF \E d \in DOMAIN m : m[d] = sug[c] THEN None
        ELSE sug[c]]

Page(sug) == IF sug = NoPage THEN {} ELSE DOMAIN sug

\* step2_db_post fetches the schema, step3_get keeps the cached one; without
\* either the page has no columns.
OpenPage(t) ==
    /\ connected
    /\ \/ \E sug \in {Suggestions(table)} \cup ({schema} \ {NoPage}) :
            schema' = Overlay(sug, mem)
       \/ "schema" \in Faults /\ schema' = NoPage
    /\ pages' = [pages EXCEPT ![t] = Page(schema')]
    /\ progress' \in {progress, mem}
    /\ UNCHANGED <<table, connected, mem, api, seenVars>>

Forms(t) == [pages[t] -> Answers]

Valid(form) == \A c, d \in DOMAIN form : form[c] = form[d] => c = d \/ form[c] = None

TwoHaveOneName(m) == \E c, d \in DOMAIN m : c # d /\ m[c] = m[d] /\ m[c] \in Canon

\* Mutant of Accept: the form replaces the mapping.
AcceptReplaces(t, form) ==
    /\ Valid(form)
    /\ mem' = form /\ progress' = form
    /\ schema' = NoPage
    /\ pages' = [pages EXCEPT ![t] = NoPage]
    /\ want' = Over(form, want)
    /\ rough' = (rough \/ TwoHaveOneName(mem'))
    /\ UNCHANGED <<table, connected, api, agreed, turned>>

\* step3_post: the form has the columns of its page; others keep their answers,
\* and are not looked at when names are checked.
Accept(t, form) ==
    /\ Valid(form)
    /\ mem' = Over(form, mem) /\ progress' = mem'
    /\ schema' = NoPage
    /\ pages' = [pages EXCEPT ![t] = NoPage]
    /\ want' = Over(form, want)
    /\ rough' = (rough \/ TwoHaveOneName(mem'))
    /\ UNCHANGED <<table, connected, api, agreed, turned>>

\* The page comes back with the cached schema, or a new one without the saved
\* answers: another tab's accepted form has dropped the cache.
Refuse(t, form) ==
    /\ ~Valid(form)
    /\ IF schema # NoPage
         THEN UNCHANGED schema
         ELSE schema' \in {Suggestions(table)} \cup {NoPage : f \in Faults \cap {"schema"}}
    /\ pages' = [pages EXCEPT ![t] = Page(schema')]
    /\ UNCHANGED <<table, connected, mem, progress, api, seenVars>>

-----------------------------------------------------------------------------
(* The rest of the wizard *)

\* A browser without a session takes over the latest progress file; what is in
\* neither that nor the API's hands is forgotten.
NewSession ==
    /\ connected' = FALSE
    /\ mem' = progress
    /\ schema' = NoPage /\ pages' = [t \in Tabs |-> NoPage]
    /\ want' = IF progress = Empty THEN agreed ELSE want
    /\ UNCHANGED <<table, progress, api, agreed, turned, rough>>

\* Progress files older than three days are removed.
CleanUp ==
    /\ progress' = Empty
    /\ UNCHANGED <<table, connected, mem, schema, pages, api, seenVars>>

\* Step 1: a session without a mapping gets the one that was applied, from the
\* API or, in the steps up to 3, from api.conf.
ReadBack ==
    \/ /\ mem' = FromApi(api)
       /\ turned' = (turned \/ Excl \in DOMAIN api)
       /\ UNCHANGED rough
    \/ /\ "read" \in Faults
       /\ mem' = FromConf(api)
       /\ rough' = (rough \/ turned)
       /\ UNCHANGED turned
    \/ /\ "read" \in Faults
       /\ mem' = Empty
       /\ rough' = (rough \/ api # Empty)
       /\ UNCHANGED turned

Connect ==
    /\ connected' = TRUE
    /\ IF mem # Empty THEN UNCHANGED <<mem, turned, rough>> ELSE ReadBack
    /\ progress' = mem'
    /\ UNCHANGED <<table, schema, pages, api, want, agreed>>

\* wizard_apply, once the API has accepted it.
Apply ==
    /\ connected
    /\ api' \in Payloads(mem)
    /\ agreed' = want
    /\ progress' = mem
    /\ UNCHANGED <<table, connected, mem, schema, pages, want, turned, rough>>

\* The database gets a column or loses one.
TableChanges ==
    /\ "table" \in Faults
    /\ \E c \in Cols : table' = IF c \in table THEN table \ {c} ELSE table \cup {c}
    /\ UNCHANGED <<sessionVars, api, seenVars>>

Step3 ==
    \E t \in Tabs :
        \/ OpenPage(t)
        \/ /\ pages[t] # NoPage
           /\ \E form \in Forms(t) : Accept(t, form) \/ Refuse(t, form)

Next == Step3 \/ NewSession \/ CleanUp \/ Connect \/ Apply \/ TableChanges

Spec == Init /\ [][Next]_vars

-----------------------------------------------------------------------------
(* Properties *)

Excluded(p) == IF Excl \in DOMAIN p THEN Split(p[Excl]) ELSE {}

\* What was applied is what the API has: each name is fed by the column it was
\* given to, over later runs of the wizard too; and until a list of unmapped
\* columns is read back from the API, the columns left unmapped, and only these,
\* are on the list (wizard_apply, _merge_from_api_current_config,
\* populate_from_config, step3_post).  Two columns of one name, which takes a
\* column that was not on the form, or a mapping that was not read back, end the
\* promise.
ChoicesDelivered ==
    rough \/ \A c \in Cols :
        /\ agreed[c] \in Canon => agreed[c] \in DOMAIN api /\ api[agreed[c]] = c
        /\ turned \/ (agreed[c] = None <=> c \in Excluded(api))

\* A page has selected what the cached schema has.
Reopened == (\E t \in Tabs : OpenPage(t)) /\ schema' # NoPage

\* Step 3 comes back with the operator's answers, in the same run of the wizard
\* or a later one, whatever a column's name resembles (step3_get); once a list
\* of unmapped columns has been read back that is promised of names only.
ChoicesShown ==
    [][Reopened => rough \/ \A c \in DOMAIN schema' :
          want[c] \in Canon \cup (IF turned THEN {} ELSE {None})
              => schema'[c] = want[c]]_vars
=============================================================================
