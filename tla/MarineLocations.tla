-------------------------- MODULE MarineLocations --------------------------
(***************************************************************************)
(* Marine locations: the API's list of them, edited one at a time in the   *)
(* admin pages (admin/routes.py) and as a whole by the wizard              *)
(* (wizard/routes.py), and their photos, which stay on this host: a file   *)
(* per location id and marine-photos.json, which says what file a location *)
(* shows.                                                                  *)
(*                                                                         *)
(* A handler fetches the API's list, changes it and sends it back without  *)
(* an await in between, so a save is one step.  What interleaves are the   *)
(* browser tabs: a form holds what was true when it was opened.            *)
(***************************************************************************)
EXTENDS Naturals, Sequences

CONSTANTS
    Names,     \* location names, up to what the slug keeps of them
    Ids,       \* location ids: slugs
    Numbered,  \* slugs of each name, as many as it may get: beach, beach-2, ...; two
               \* names may have one in common
    Surf,      \* names of surf spots: TruShore has settings for these
    Types,     \* types of photo files: jpg, png, ...
    Tabs,      \* browser tabs with an admin form
    MaxCards,  \* bound on cards of the wizard's form
    NoId, NoPhoto, NoForm,
    Faults     \* subset of FaultKinds that may happen

FaultKinds == {"api", "sidecar", "oversize"}

ASSUME LocationFaults == Faults \subseteq FaultKinds
ASSUME SurfSpots      == Surf \subseteq Names
ASSUME LocationBounds == MaxCards \in Nat
ASSUME NamesNumbered  == Numbered \in [Names -> Seq(Ids) \ {<<>>}]
ASSUME Placeholders   == NoPhoto \notin Types /\ NoId \notin Ids

\* tuned: breaker formula or height display other than the default.
Location == [name : Names, tuned : BOOLEAN]
\* photo_url, /marine-photos/<id>.<type>.
Photos   == (Ids \X Types) \cup {NoPhoto}
Form     == [id : Ids \cup {NoId}, photo : Photos, adding : BOOLEAN]
Draft    == [name : Names, tuned : BOOLEAN, photo : Photos]

VARIABLES
    api,      \* the API's locations: ids to Location
    url,      \* the API has a marine service URL
    files,    \* photo files: ids to the type of the one file they have
    sidecar,  \* marine-photos.json: ids to their photo_url
    forms,    \* admin forms open in Tabs
    wiz       \* the wizard session: [on, url, locs]

vars == <<api, url, files, sidecar, forms, wiz>>

Partial(f, S, T) == DOMAIN f \subseteq S /\ f \in [DOMAIN f -> T]
Empty         == [id \in {} |-> id]
Put(f, k, v)  == [j \in DOMAIN f \cup {k} |-> IF j = k THEN v ELSE f[j]]
NamesOf(f)    == [id \in DOMAIN f |-> f[id].name]
Drop(f, k)    == [j \in DOMAIN f \ {k} |-> f[j]]

TypeOK ==
    /\ Partial(api, Ids, Location)
    /\ url \in BOOLEAN
    /\ Partial(files, Ids, Types)
    /\ Partial(sidecar, Ids, Ids \X Types)
    /\ forms \in [Tabs -> Form \cup {NoForm}]
    /\ wiz = [on |-> wiz.on, url |-> wiz.url, locs |-> wiz.locs]
    /\ wiz.on \in BOOLEAN /\ wiz.url \in BOOLEAN
    /\ Partial(wiz.locs, Ids, Draft)

Init ==
    /\ api = Empty /\ url = FALSE
    /\ files = Empty /\ sidecar = Empty
    /\ forms = [t \in Tabs |-> NoForm]
    /\ wiz = [on |-> FALSE, url |-> FALSE, locs |-> Empty]

\* _slugify_marine_location_name: the name's first slug not taken, also by another name.
IsSlug(id, name, taken) ==
    /\ id \notin taken
    /\ \E n \in DOMAIN Numbered[name] :
         /\ id = Numbered[name][n]
         /\ \A m \in 1 .. (n - 1) : Numbered[name][m] \in taken

Overlay(id) == IF id \in DOMAIN sidecar THEN sidecar[id] ELSE NoPhoto

\* _parse_marine_locations knows no breaker formula and no height display: a
\* list that passed through it has lost both.
Parsed(list) == [id \in DOMAIN list |-> [list[id] EXCEPT !.tuned = FALSE]]

-----------------------------------------------------------------------------
(* Admin: one location at a time *)

\* The list may be an old one: a location that is gone, or that the API cannot
\* tell of, opens an empty form with its id.
OpenForm(t, id) ==
    /\ \E known \in BOOLEAN :
         /\ known => id \in DOMAIN api
         /\ ~known => "api" \in Faults \/ id \notin DOMAIN api
         /\ forms' = [forms EXCEPT ![t] = [id     |-> id,
                                           photo  |-> IF known THEN Overlay(id) ELSE NoPhoto,
                                           adding |-> id = NoId]]
    /\ UNCHANGED <<api, url, files, sidecar, wiz>>

\* Mutant of PhotoId: a new location's photo is kept under its blank id.
PhotoIdBlank(f, name) == f.id

\* Before the API's list is known a new location's id is its name's first slug.
PhotoId(f, name) == IF f.id = NoId THEN Numbered[name][1] ELSE f.id

\* The photo a saved form shows: the uploaded one, else the one it had.
Shown(f, name, upload) == IF upload = NoPhoto THEN f.photo ELSE <<PhotoId(f, name), upload>>

StorePhoto(f, name, upload) ==
    LET pid   == PhotoId(f, name)
        shown == Shown(f, name, upload)
    IN /\ files' = IF upload = NoPhoto THEN files ELSE Put(files, pid, upload)
       /\ \/ sidecar' = IF shown = NoPhoto THEN Drop(sidecar, pid) ELSE Put(sidecar, pid, shown)
          \/ "sidecar" \in Faults /\ UNCHANGED sidecar

\* Mutant of SaveTooBig: the photo is taken for stored.
SaveTooBigShown(t, name, type) ==
    LET f == forms[t] IN
    /\ "oversize" \in Faults /\ f # NoForm
    /\ forms' = [forms EXCEPT ![t].id = PhotoId(f, name), ![t].photo = <<PhotoId(f, name), type>>]
    /\ UNCHANGED <<api, url, files, sidecar, wiz>>

\* A photo over 200 KB: the form comes back, now with the id it would have had.
SaveTooBig(t, name, type) ==
    LET f == forms[t] IN
    /\ "oversize" \in Faults /\ f # NoForm
    /\ forms' = [forms EXCEPT ![t].id = PhotoId(f, name)]
    /\ UNCHANGED <<api, url, files, sidecar, wiz>>

\* The name, position or activities are refused: the form comes back without the
\* photo it had; after any later error it has it still.
SaveRefused(t) ==
    /\ forms[t] # NoForm
    /\ forms' = [forms EXCEPT ![t].photo = NoPhoto]
    /\ UNCHANGED <<api, url, files, sidecar, wiz>>

\* The photo is stored; then the API cannot be reached, refuses, or no longer
\* knows the location.
SaveFails(t, name, upload) ==
    LET f == forms[t] IN
    /\ f # NoForm
    /\ \/ "api" \in Faults
       \/ f.id # NoId /\ f.id \notin DOMAIN api
    /\ StorePhoto(f, name, upload)
    /\ forms' = [forms EXCEPT ![t] = NoForm]
    /\ UNCHANGED <<api, url, wiz>>

\* No marine service: a new location is refused and its form comes back.
SaveWithoutService(t, name, upload) ==
    LET f == forms[t] IN
    /\ f # NoForm /\ f.id = NoId /\ ~url
    /\ StorePhoto(f, name, upload)
    /\ forms' = [forms EXCEPT ![t].photo = Shown(f, name, upload)]
    /\ UNCHANGED <<api, url, wiz>>

\* Mutant of SaveEdit: a location that is gone is put back.
SaveEditBlind(t, name, upload) ==
    LET f == forms[t] IN
    /\ f # NoForm /\ f.id # NoId
    /\ StorePhoto(f, name, upload)
    /\ api' = Put(Parsed(api), f.id, [name |-> name, tuned |-> FALSE])
    /\ forms' = [forms EXCEPT ![t] = NoForm]
    /\ UNCHANGED <<url, wiz>>

SaveEdit(t, name, upload) ==
    LET f == forms[t] IN
    /\ f # NoForm /\ f.id \in DOMAIN api
    /\ StorePhoto(f, name, upload)
    /\ api' = Put(Parsed(api), f.id, [name |-> name, tuned |-> FALSE])
    /\ forms' = [forms EXCEPT ![t] = NoForm]
    /\ UNCHANGED <<url, wiz>>

SaveNew(t, name, upload) ==
    LET f == forms[t] IN
    /\ f # NoForm /\ f.id = NoId /\ url
    /\ StorePhoto(f, name, upload)
    /\ \E id \in Ids :
         /\ IsSlug(id, name, DOMAIN api)
         /\ api' = Put(Parsed(api), id, [name |-> name, tuned |-> FALSE])
    /\ forms' = [forms EXCEPT ![t] = NoForm]
    /\ UNCHANGED <<url, wiz>>

\* A list shown in any tab may name a location that is gone: an error, no change.
Delete(id) ==
    /\ id \in DOMAIN api
    /\ api' = Drop(Parsed(api), id)
    /\ UNCHANGED <<url, files, sidecar, forms, wiz>>

SurfSpotsOf(list) == {id \in DOMAIN list : list[id].name \in Surf}

\* A list with the settings chosen for some of its surf spots.
Tuned(list, chosen) == [id \in DOMAIN list |-> [list[id] EXCEPT !.tuned = id \in chosen]]

\* trushore_save: all locations are rebuilt, the chosen ones with settings.
TrushoreSave(chosen) ==
    /\ api' = Tuned(api, chosen)
    /\ UNCHANGED <<url, files, sidecar, forms, wiz>>

\* marine_service_save: a blank URL is refused, or leaves the API's alone.
ServiceSave ==
    /\ url' = TRUE
    /\ UNCHANGED <<api, files, sidecar, forms, wiz>>

-----------------------------------------------------------------------------
(* Wizard: the whole list *)

\* A list with its locations' stored photos where they have none.
WithPhotos(list, stored) ==
    [id \in DOMAIN list |->
       IF list[id].photo = NoPhoto /\ id \in DOMAIN stored
         THEN [list[id] EXCEPT !.photo = stored[id]] ELSE list[id]]

\* The marine page of a session without locations takes the API's, and puts
\* the stored photos on what has none.
WizardMarinePage ==
    LET locs == IF wiz.locs = Empty
                  THEN [id \in DOMAIN api |-> [name |-> api[id].name, tuned |-> api[id].tuned,
                                               photo |-> NoPhoto]]
                  ELSE wiz.locs
    IN /\ wiz' = [wiz EXCEPT
            !.on   = @ \/ (wiz.locs = Empty /\ locs # Empty),
            !.url  = @ \/ (wiz.locs = Empty /\ url),
            !.locs = WithPhotos(locs, sidecar)]
       /\ UNCHANGED <<api, url, files, sidecar, forms>>

\* step6_post: a blank URL stays in the session even where it is refused.
WizardProviders(u) ==
    /\ wiz' = [wiz EXCEPT !.url = u]
    /\ UNCHANGED <<api, url, files, sidecar, forms>>

\* Cards of the form: those kept of the session's locations and new ones.
Card  == [from : Ids \cup {NoId}, name : Names, upload : Types \cup {NoPhoto}]
Cards == {c \in UNION {[1 .. n -> Card] : n \in 0 .. MaxCards} :
            /\ \A i \in DOMAIN c : c[i].from # NoId => c[i].from \in DOMAIN wiz.locs
            /\ \A i, j \in DOMAIN c : c[i].from # NoId /\ c[i].from = c[j].from => i = j}

\* _slugify_location_name: g has the ids of the cards, each free beside those before it.
CardIds(c, g) == \A i \in DOMAIN c : IsSlug(g[i], c[i].name, {g[j] : j \in 1 .. (i - 1)})

CardPhoto(c, g, i) ==
    IF c[i].upload # NoPhoto THEN <<g[i], c[i].upload>>
    ELSE IF c[i].from # NoId THEN wiz.locs[c[i].from].photo ELSE NoPhoto

CardOf(c, g, id) == CHOOSE i \in DOMAIN c : g[i] = id

Uploads(c, g) ==
    LET ids == {g[i] : i \in {j \in DOMAIN c : c[j].upload # NoPhoto}} IN
    [id \in DOMAIN files \cup ids |-> IF id \in ids THEN c[CardOf(c, g, id)].upload ELSE files[id]]

\* Every card's photo is stored as it is read.  An error in another card ends
\* the request there; otherwise the session takes the list, marine-photos.json
\* is rebuilt from it, and only then a missing service URL is reported.
WizardMarine(c, g) ==
    LET ids  == {g[i] : i \in DOMAIN c}
        locs == [id \in ids |-> [name |-> c[CardOf(c, g, id)].name, tuned |-> FALSE,
                                 photo |-> CardPhoto(c, g, CardOf(c, g, id))]]
        shown == {id \in ids : locs[id].photo # NoPhoto}
    IN /\ CardIds(c, g)
       /\ files' = Uploads(c, g)
       /\ \/ /\ wiz' = [wiz EXCEPT !.on = TRUE, !.locs = WithPhotos(@, sidecar)]
             /\ UNCHANGED sidecar
          \/ /\ \/ sidecar' = [id \in shown |-> locs[id].photo]
                \/ "sidecar" \in Faults /\ UNCHANGED sidecar
             /\ wiz' = [wiz EXCEPT !.on = TRUE,
                          !.locs = IF wiz.url THEN locs ELSE WithPhotos(locs, sidecar')]
       /\ UNCHANGED <<api, url, forms>>

WizardMarineOff ==
    /\ wiz' = [wiz EXCEPT !.on = FALSE, !.locs = Empty]
    /\ UNCHANGED <<api, url, files, sidecar, forms>>

WizardTrushore(chosen) ==
    /\ wiz' = [wiz EXCEPT !.locs = Tuned(@, chosen)]
    /\ UNCHANGED <<api, url, files, sidecar, forms>>

\* build_marine_payload: no list is sent while marine features are off or there
\* are no locations; the URL is sent when there is one.  Nothing checks again what
\* a refused step left in the session.
WizardApply ==
    /\ api' = IF wiz.on /\ wiz.locs # Empty
                THEN [id \in DOMAIN wiz.locs |-> [name  |-> wiz.locs[id].name,
                                                  tuned |-> wiz.locs[id].tuned]]
                ELSE api
    /\ url' = (url \/ wiz.url)
    /\ UNCHANGED <<files, sidecar, forms, wiz>>

-----------------------------------------------------------------------------

Admin ==
    \/ \E t \in Tabs, id \in Ids \cup {NoId} : OpenForm(t, id)
    \/ \E t \in Tabs : SaveRefused(t)
    \/ \E t \in Tabs, name \in Names :
         \/ \E type \in Types : SaveTooBig(t, name, type)
         \/ \E upload \in Types \cup {NoPhoto} :
              \/ SaveFails(t, name, upload) \/ SaveWithoutService(t, name, upload)
              \/ SaveEdit(t, name, upload)  \/ SaveNew(t, name, upload)
    \/ \E id \in Ids : Delete(id)
    \/ \E chosen \in SUBSET SurfSpotsOf(api) : TrushoreSave(chosen)
    \/ ServiceSave

Wizard ==
    \/ WizardMarinePage \/ WizardMarineOff \/ WizardApply
    \/ \E u \in BOOLEAN : WizardProviders(u)
    \/ \E c \in Cards : \E g \in [DOMAIN c -> Ids] : WizardMarine(c, g)
    \/ \E chosen \in SUBSET SurfSpotsOf(wiz.locs) : WizardTrushore(chosen)

Next == Admin \/ Wizard

Spec == Init /\ [][Next]_vars

-----------------------------------------------------------------------------
(* Properties *)

\* No location is said to show the photo of an id that never had one, whatever
\* forms were open when (marine_save, step_marine_post).  The file may have got
\* another type since.
PhotosStored == \A id \in DOMAIN sidecar : sidecar[id][1] \in DOMAIN files

\* The API's list changes as MarineCatalog says: no tab with an old form, and
\* no change of a wizard session, brings back a deleted location, adds one where
\* there is no service, changes a second one, or empties the list.
Catalog == INSTANCE MarineCatalog WITH
    Keys     <- Ids,
    Contents <- Names,
    catalog  <- NamesOf(api),
    service  <- url,
    draft    <- NamesOf(wiz.locs)

FollowsCatalog == Catalog!Spec

\* The form of t was submitted and is done with.
Saved(t) == forms[t] # NoForm /\ forms'[t] = NoForm

\* The photo a location shows, if the file its photo_url names is there.
PhotoOf(id) ==
    LET photo == Overlay(id)
    IN IF photo # NoPhoto /\ photo[1] \in DOMAIN files /\ files[photo[1]] = photo[2]
         THEN photo ELSE NoPhoto

\* "To edit one marine location without clobbering unrelated config": saving a
\* form leaves the settings and the photos of all other locations as they were.
OthersKept ==
    [][\A t \in Tabs, id \in DOMAIN api :
         Saved(t) /\ id # forms[t].id =>
           api'[id].tuned = api[id].tuned /\ PhotoOf(id)' = PhotoOf(id)]_vars
=============================================================================
