----------------------- MODULE MarineLocationsProofs -----------------------
(***************************************************************************)
(* Proofs about MarineLocations, for any names, tabs, photo types, cards   *)
(* and faults: its types; that it implements MarineCatalog; and that no    *)
(* location ever names the photo of an id that has none.                   *)
(***************************************************************************)
EXTENDS MarineLocations, TLAPS

-----------------------------------------------------------------------------
(* Lists and ids *)

LEMMA PartialPut ==
    ASSUME NEW f, NEW S, NEW T, Partial(f, S, T), NEW k \in S, NEW v \in T
    PROVE  Partial(Put(f, k, v), S, T)
BY DEF Partial, Put

LEMMA PartialDrop ==
    ASSUME NEW f, NEW S, NEW T, Partial(f, S, T), NEW k
    PROVE  Partial(Drop(f, k), S, T)
BY DEF Partial, Drop

\* A location that passed through the admin reader is one still, of the same name.
LEMMA ParsedTyped ==
    ASSUME NEW list, Partial(list, Ids, Location)
    PROVE  /\ Partial(Parsed(list), Ids, Location)
           /\ DOMAIN Parsed(list) = DOMAIN list
           /\ \A id \in DOMAIN list : Parsed(list)[id].name = list[id].name
<1> SUFFICES ASSUME NEW id \in DOMAIN list
    PROVE  Parsed(list)[id] \in Location /\ Parsed(list)[id].name = list[id].name
  BY DEF Partial, Parsed
<1>1. list[id] \in Location /\ Parsed(list)[id] = [list[id] EXCEPT !.tuned = FALSE]
  BY DEF Partial, Parsed
<1> QED BY <1>1 DEF Location

\* Settings change no names.
LEMMA TunedLocations ==
    ASSUME NEW list, NEW chosen, Partial(list, Ids, Location)
    PROVE  /\ Partial(Tuned(list, chosen), Ids, Location)
           /\ DOMAIN Tuned(list, chosen) = DOMAIN list
           /\ \A id \in DOMAIN list : Tuned(list, chosen)[id].name = list[id].name
<1> SUFFICES ASSUME NEW id \in DOMAIN list
    PROVE  Tuned(list, chosen)[id] \in Location /\ Tuned(list, chosen)[id].name = list[id].name
  BY DEF Partial, Tuned
<1>1. list[id] \in Location /\ Tuned(list, chosen)[id] = [list[id] EXCEPT !.tuned = id \in chosen]
  BY DEF Partial, Tuned
<1>2. (id \in chosen) \in BOOLEAN
  OBVIOUS
<1> HIDE DEF Tuned
<1> QED BY <1>1, <1>2 DEF Location

LEMMA TunedDrafts ==
    ASSUME NEW list, NEW chosen, Partial(list, Ids, Draft)
    PROVE  Partial(Tuned(list, chosen), Ids, Draft)
<1> SUFFICES ASSUME NEW id \in DOMAIN list
    PROVE  Tuned(list, chosen)[id] \in Draft
  BY DEF Partial, Tuned
<1>1. list[id] \in Draft /\ Tuned(list, chosen)[id] = [list[id] EXCEPT !.tuned = id \in chosen]
  BY DEF Partial, Tuned
<1>2. (id \in chosen) \in BOOLEAN
  OBVIOUS
<1> QED BY <1>1, <1>2 DEF Draft

LEMMA PhotosTyped ==
    ASSUME NEW list, NEW stored,
           Partial(list, Ids, Draft), Partial(stored, Ids, Ids \X Types)
    PROVE  Partial(WithPhotos(list, stored), Ids, Draft)
<1> SUFFICES ASSUME NEW id \in DOMAIN list
    PROVE  WithPhotos(list, stored)[id] \in Draft
  BY DEF Partial, WithPhotos
<1>1. list[id] \in Draft
  BY DEF Partial
<1>2. CASE list[id].photo = NoPhoto /\ id \in DOMAIN stored
  <2>1. WithPhotos(list, stored)[id] = [list[id] EXCEPT !.photo = stored[id]]
    BY <1>2 DEF WithPhotos
  <2>2. stored[id] \in Photos
    BY <1>2 DEF Partial, Photos
  <2> QED BY <1>1, <2>1, <2>2 DEF Draft
<1>3. CASE ~(list[id].photo = NoPhoto /\ id \in DOMAIN stored)
  BY <1>1, <1>3 DEF WithPhotos
<1> QED BY <1>2, <1>3

\* A name's slug is an id, and nobody has it yet.
LEMMA SlugIsFree ==
    ASSUME NEW name \in Names, NEW taken, NEW id, IsSlug(id, name, taken)
    PROVE  id \in Ids \ taken
<1>1. PICK n \in DOMAIN Numbered[name] : id = Numbered[name][n]
  BY DEF IsSlug
<1>2. Numbered[name] \in Seq(Ids)
  BY NamesNumbered
<1> QED BY <1>1, <1>2 DEF IsSlug

LEMMA FirstSlug ==
    ASSUME NEW name \in Names
    PROVE  Numbered[name][1] \in Ids
<1>1. Numbered[name] \in Seq(Ids) /\ Numbered[name] # <<>>
  BY NamesNumbered
<1> QED BY <1>1

-----------------------------------------------------------------------------
(* Types of the admin's steps *)

FilesOK == Partial(files, Ids, Types) /\ Partial(sidecar, Ids, Ids \X Types)
FormsOK == forms \in [Tabs -> Form \cup {NoForm}]
ApiOK   == Partial(api, Ids, Location) /\ url \in BOOLEAN
WizOK   ==
    /\ wiz = [on |-> wiz.on, url |-> wiz.url, locs |-> wiz.locs]
    /\ wiz.on \in BOOLEAN /\ wiz.url \in BOOLEAN
    /\ Partial(wiz.locs, Ids, Draft)

LEMMA TypeParts == TypeOK <=> ApiOK /\ FilesOK /\ FormsOK /\ WizOK
BY DEF TypeOK, ApiOK, FilesOK, FormsOK, WizOK

LEMMA TypePartsNext == TypeOK' <=> ApiOK' /\ FilesOK' /\ FormsOK' /\ WizOK'
BY DEF TypeOK, ApiOK, FilesOK, FormsOK, WizOK

LEMMA PhotoTyped ==
    ASSUME FilesOK, NEW f \in Form, NEW name \in Names, NEW upload \in Types \cup {NoPhoto},
           StorePhoto(f, name, upload)
    PROVE  FilesOK' /\ Shown(f, name, upload) \in Photos
<1> DEFINE pid   == PhotoId(f, name)
           shown == Shown(f, name, upload)
<1>1. pid \in Ids
  <2>1. f.id \in Ids \cup {NoId}
    BY DEF Form
  <2> QED BY <2>1, FirstSlug DEF PhotoId
<1>2. shown \in Photos /\ f.photo \in Photos
  BY <1>1 DEF Shown, Form, Photos
<1>3. Partial(files', Ids, Types)
  <2>1. CASE upload = NoPhoto
    BY <2>1 DEF StorePhoto, FilesOK
  <2>2. CASE upload # NoPhoto
    <3>1. upload \in Types /\ files' = Put(files, pid, upload)
      BY <2>2 DEF StorePhoto
    <3> QED BY <1>1, <3>1, PartialPut DEF FilesOK
  <2> QED BY <2>1, <2>2
<1>4. Partial(sidecar', Ids, Ids \X Types)
  <2>1. CASE shown = NoPhoto /\ sidecar' = Drop(sidecar, pid)
    BY <2>1, PartialDrop DEF FilesOK
  <2>2. CASE shown # NoPhoto /\ sidecar' = Put(sidecar, pid, shown)
    <3>1. shown \in Ids \X Types
      BY <1>2, <2>2 DEF Photos
    <3> HIDE DEF shown, pid
    <3> QED BY <1>1, <2>2, <3>1, PartialPut DEF FilesOK
  <2>3. CASE UNCHANGED sidecar
    BY <2>3 DEF FilesOK
  <2> QED BY <2>1, <2>2, <2>3 DEF StorePhoto
<1> QED BY <1>2, <1>3, <1>4 DEF FilesOK

LEMMA FormTyped ==
    ASSUME FormsOK, NEW t \in Tabs, NEW f \in Form \cup {NoForm},
           forms' = [forms EXCEPT ![t] = f]
    PROVE  FormsOK'
BY DEF FormsOK

\* The list with one location set: what a save sends.
LEMMA SavedTyped ==
    ASSUME ApiOK, NEW id \in Ids, NEW name \in Names,
           api' = Put(Parsed(api), id, [name |-> name, tuned |-> FALSE]), UNCHANGED url
    PROVE  ApiOK'
<1>1. Partial(Parsed(api), Ids, Location)
  BY ParsedTyped DEF ApiOK
<1>2. [name |-> name, tuned |-> FALSE] \in Location
  BY DEF Location
<1> QED BY <1>1, <1>2, PartialPut DEF ApiOK

LEMMA AdminTyped ==
    ASSUME TypeOK, Admin
    PROVE  TypeOK'
<1>1. ApiOK /\ FilesOK /\ FormsOK /\ WizOK
  BY TypeParts
<1>2. \A t \in Tabs : forms[t] # NoForm => forms[t] \in Form
  BY <1>1 DEF FormsOK
<1>3. NoForm \in Form \cup {NoForm} /\ NoPhoto \in Photos
  BY DEF Photos
<1>4. ASSUME NEW t \in Tabs, NEW id \in Ids \cup {NoId}, OpenForm(t, id)
      PROVE  TypeOK'
  <2>1. PICK known \in BOOLEAN :
          forms' = [forms EXCEPT ![t] = [id     |-> id,
                                         photo  |-> IF known THEN Overlay(id) ELSE NoPhoto,
                                         adding |-> id = NoId]]
    BY <1>4 DEF OpenForm
  <2>2. Overlay(id) \in Photos
    BY <1>1, <1>3 DEF Overlay, FilesOK, Partial, Photos
  <2> DEFINE f == [id     |-> id,
                   photo  |-> IF known THEN Overlay(id) ELSE NoPhoto,
                   adding |-> id = NoId]
  <2>3. f \in Form
    BY <1>3, <2>2 DEF Form
  <2>4. FormsOK'
    <3> HIDE DEF f
    <3>1. forms' = [forms EXCEPT ![t] = f]
      BY <2>1 DEF f
    <3> QED BY <1>1, <2>3, <3>1, FormTyped
  <2>5. ApiOK' /\ FilesOK' /\ WizOK'
    BY <1>1, <1>4 DEF OpenForm, ApiOK, FilesOK, WizOK
  <2> QED BY <2>4, <2>5, TypePartsNext
<1>5. ASSUME NEW t \in Tabs, SaveRefused(t)
      PROVE  TypeOK'
  <2> DEFINE f == [forms[t] EXCEPT !.photo = NoPhoto]
  <2>1. f \in Form
    BY <1>2, <1>3, <1>5 DEF SaveRefused, Form
  <2>2. forms' = [forms EXCEPT ![t] = f]
    BY <1>5 DEF SaveRefused
  <2>3. FormsOK'
    <3> HIDE DEF f
    <3> QED BY <1>1, <2>1, <2>2, FormTyped
  <2>4. ApiOK' /\ FilesOK' /\ WizOK'
    BY <1>1, <1>5 DEF SaveRefused, ApiOK, FilesOK, WizOK
  <2> QED BY <2>3, <2>4, TypePartsNext
<1>6. ASSUME NEW t \in Tabs, NEW name \in Names, NEW type \in Types,
             SaveTooBig(t, name, type)
      PROVE  TypeOK'
  <2> DEFINE id == PhotoId(forms[t], name)
             f  == [forms[t] EXCEPT !.id = id]
  <2>1. forms[t] \in Form
    BY <1>2, <1>6 DEF SaveTooBig
  <2>2. id \in Ids \cup {NoId}
    <3> QED BY <2>1, FirstSlug DEF PhotoId, Form
  <2>3. f \in Form
    <3> HIDE DEF id
    <3> QED BY <2>1, <2>2 DEF Form
  <2>4. forms' = [forms EXCEPT ![t] = f]
    BY <1>6 DEF SaveTooBig
  <2>5. FormsOK'
    <3> HIDE DEF f
    <3> QED BY <1>1, <2>3, <2>4, FormTyped
  <2>6. ApiOK' /\ FilesOK' /\ WizOK'
    BY <1>1, <1>6 DEF SaveTooBig, ApiOK, FilesOK, WizOK
  <2> QED BY <2>5, <2>6, TypePartsNext
<1>7. ASSUME NEW t \in Tabs, NEW name \in Names, NEW upload \in Types \cup {NoPhoto},
             SaveWithoutService(t, name, upload)
      PROVE  TypeOK'
  <2> DEFINE shown == Shown(forms[t], name, upload)
             f     == [forms[t] EXCEPT !.photo = shown]
  <2>1. forms[t] \in Form
    BY <1>2, <1>7 DEF SaveWithoutService
  <2>2. FilesOK' /\ shown \in Photos
    BY <1>1, <1>7, <2>1, PhotoTyped DEF SaveWithoutService
  <2>3. f \in Form
    <3> HIDE DEF shown
    <3> QED BY <2>1, <2>2 DEF Form
  <2>4. forms' = [forms EXCEPT ![t] = f]
    BY <1>7 DEF SaveWithoutService
  <2>5. FormsOK'
    <3> HIDE DEF f
    <3> QED BY <1>1, <2>3, <2>4, FormTyped
  <2>6. ApiOK' /\ WizOK'
    BY <1>1, <1>7 DEF SaveWithoutService, ApiOK, WizOK
  <2> QED BY <2>2, <2>5, <2>6, TypePartsNext
<1>8. ASSUME NEW t \in Tabs, NEW name \in Names, NEW upload \in Types \cup {NoPhoto},
             \/ SaveFails(t, name, upload)
             \/ SaveEdit(t, name, upload)
             \/ SaveNew(t, name, upload)
      PROVE  TypeOK'
  <2>1. /\ forms[t] # NoForm
        /\ StorePhoto(forms[t], name, upload)
        /\ forms' = [forms EXCEPT ![t] = NoForm]
        /\ UNCHANGED <<url, wiz>>
    BY <1>8 DEF SaveFails, SaveEdit, SaveNew
  <2>2. FilesOK'
    BY <1>1, <1>2, <2>1, PhotoTyped
  <2>3. FormsOK' /\ WizOK'
    BY <1>1, <2>1 DEF FormsOK, WizOK
  <2>4. ApiOK'
    <3>1. CASE SaveFails(t, name, upload)
      BY <1>1, <3>1 DEF SaveFails, ApiOK
    <3>2. CASE SaveEdit(t, name, upload)
      <4>1. forms[t].id \in Ids
        BY <1>1, <3>2 DEF SaveEdit, ApiOK, Partial
      <4> QED BY <1>1, <3>2, <4>1, SavedTyped DEF SaveEdit
    <3>3. CASE SaveNew(t, name, upload)
      <4>1. PICK id \in Ids : api' = Put(Parsed(api), id, [name |-> name, tuned |-> FALSE])
        BY <3>3 DEF SaveNew
      <4> QED BY <1>1, <3>3, <4>1, SavedTyped DEF SaveNew
    <3> QED BY <1>8, <3>1, <3>2, <3>3
  <2> QED BY <2>2, <2>3, <2>4, TypePartsNext
<1>9. ASSUME \/ \E id \in Ids : Delete(id)
             \/ \E chosen \in SUBSET SurfSpotsOf(api) : TrushoreSave(chosen)
             \/ ServiceSave
      PROVE  TypeOK'
  <2>1. FilesOK' /\ FormsOK' /\ WizOK'
    BY <1>1, <1>9 DEF Delete, TrushoreSave, ServiceSave, FilesOK, FormsOK, WizOK
  <2>2. ApiOK'
    <3>1. CASE \E id \in Ids : Delete(id)
      <4>1. Partial(Parsed(api), Ids, Location)
        BY <1>1, ParsedTyped DEF ApiOK
      <4> QED BY <1>1, <3>1, <4>1, PartialDrop DEF Delete, ApiOK
    <3>2. CASE \E chosen \in SUBSET SurfSpotsOf(api) : TrushoreSave(chosen)
      BY <1>1, <3>2, TunedLocations DEF TrushoreSave, ApiOK
    <3>3. CASE ServiceSave
      BY <1>1, <3>3 DEF ServiceSave, ApiOK
    <3> QED BY <1>9, <3>1, <3>2, <3>3
  <2> QED BY <2>1, <2>2, TypePartsNext
<1> QED BY <1>4, <1>5, <1>6, <1>7, <1>8, <1>9 DEF Admin

-----------------------------------------------------------------------------
(* Types of the wizard's steps *)

\* The session gets another list.
LEMMA DraftTyped ==
    ASSUME TypeOK, FilesOK', NEW on \in BOOLEAN, NEW svc \in BOOLEAN, NEW list,
           Partial(list, Ids, Draft),
           wiz' = [on |-> on, url |-> svc, locs |-> list],
           UNCHANGED <<api, url, forms>>
    PROVE  TypeOK'
<1>1. WizOK'
  BY DEF WizOK
<1>2. ApiOK' /\ FormsOK'
  BY TypeParts DEF ApiOK, FormsOK
<1> QED BY <1>1, <1>2, TypePartsNext

LEMMA MarinePageTyped ==
    ASSUME TypeOK, WizardMarinePage
    PROVE  TypeOK'
<1> DEFINE taken == [id \in DOMAIN api |-> [name |-> api[id].name, tuned |-> api[id].tuned,
                                            photo |-> NoPhoto]]
           locs  == IF wiz.locs = Empty THEN taken ELSE wiz.locs
           list  == WithPhotos(locs, sidecar)
           on    == wiz.on \/ (wiz.locs = Empty /\ locs # Empty)
           svc   == wiz.url \/ (wiz.locs = Empty /\ url)
<1>1. ApiOK /\ FilesOK /\ WizOK
  BY TypeParts
<1>2. Partial(taken, Ids, Draft)
  <2>1. DOMAIN taken \subseteq Ids
    BY <1>1 DEF ApiOK, Partial
  <2>2. ASSUME NEW id \in DOMAIN api PROVE taken[id] \in Draft
    BY <1>1 DEF ApiOK, Partial, Location, Draft, Photos
  <2> QED BY <2>1, <2>2 DEF Partial
<1>3. Partial(list, Ids, Draft)
  <2> HIDE DEF taken
  <2>1. Partial(locs, Ids, Draft)
    BY <1>1, <1>2 DEF WizOK
  <2> HIDE DEF locs
  <2> QED BY <1>1, <2>1, PhotosTyped DEF FilesOK
<1>4. on \in BOOLEAN /\ svc \in BOOLEAN
  OBVIOUS
<1>5. wiz' = [wiz EXCEPT !.on = on, !.url = svc, !.locs = list]
      /\ UNCHANGED <<api, url, files, sidecar, forms>>
  BY DEF WizardMarinePage
<1> HIDE DEF on, svc, list
<1>6. wiz' = [on |-> on, url |-> svc, locs |-> list]
  BY <1>1, <1>5 DEF WizOK
<1>7. FilesOK'
  BY <1>1, <1>5 DEF FilesOK
<1> QED BY <1>3, <1>4, <1>5, <1>6, <1>7, DraftTyped

\* _slugify_location_name: no two cards get the same id.
LEMMA CardIdsDiffer ==
    ASSUME NEW c \in Cards, NEW g, CardIds(c, g),
           NEW i \in DOMAIN c, NEW j \in DOMAIN c, g[i] = g[j]
    PROVE  i = j
<1>1. PICK n \in 0 .. MaxCards : c \in [1 .. n -> Card]
  BY DEF Cards
<1>2. n \in Nat /\ DOMAIN c = 1 .. n
  BY <1>1, LocationBounds
<1>3. ASSUME NEW k \in 1 .. n, NEW l \in 1 .. n, k < l PROVE g[k] # g[l]
  <2>1. g[l] \notin {g[h] : h \in 1 .. (l - 1)}
    BY <1>2 DEF CardIds, IsSlug
  <2>2. k \in 1 .. (l - 1)
    BY <1>2, <1>3
  <2> QED BY <2>1, <2>2
<1> QED BY <1>2, <1>3

LEMMA CardTyped ==
    ASSUME NEW c \in Cards, NEW i \in DOMAIN c
    PROVE  c[i] \in Card
BY DEF Cards

LEMMA CardOfId ==
    ASSUME NEW c \in Cards, NEW g, CardIds(c, g), NEW i \in DOMAIN c
    PROVE  CardOf(c, g, g[i]) = i
BY CardIdsDiffer DEF CardOf

LEMMA MarineTyped ==
    ASSUME TypeOK, NEW c \in Cards, NEW g \in [DOMAIN c -> Ids], WizardMarine(c, g)
    PROVE  TypeOK'
<1> DEFINE ids   == {g[i] : i \in DOMAIN c}
           locs  == [id \in ids |-> [name |-> c[CardOf(c, g, id)].name, tuned |-> FALSE,
                                     photo |-> CardPhoto(c, g, CardOf(c, g, id))]]
           shown == {id \in ids : locs[id].photo # NoPhoto}
           kept  == WithPhotos(wiz.locs, sidecar)
           taken == IF wiz.url THEN locs ELSE WithPhotos(locs, sidecar')
<1>1. ApiOK /\ FilesOK /\ WizOK
  BY TypeParts
<1>2. /\ CardIds(c, g) /\ ids \subseteq Ids
      /\ files' = Uploads(c, g) /\ UNCHANGED <<api, url, forms>>
  BY DEF WizardMarine
<1>3. ASSUME NEW i \in DOMAIN c PROVE CardPhoto(c, g, i) \in Photos
  <2>1. c[i] \in Card /\ g[i] \in Ids
    BY <1>2, CardTyped
  <2>2. CASE c[i].upload # NoPhoto
    BY <2>1, <2>2 DEF CardPhoto, Card, Photos
  <2>3. CASE c[i].upload = NoPhoto /\ c[i].from # NoId
    <3>1. c[i].from \in DOMAIN wiz.locs
      BY <2>3 DEF Cards
    <3>2. wiz.locs[c[i].from].photo \in Photos
      BY <1>1, <3>1 DEF WizOK, Partial, Draft
    <3> QED BY <2>3, <3>2 DEF CardPhoto
  <2>4. CASE c[i].upload = NoPhoto /\ c[i].from = NoId
    BY <2>4 DEF CardPhoto, Photos
  <2> QED BY <2>2, <2>3, <2>4
<1>4. Partial(files', Ids, Types)
  <2>1. DOMAIN Uploads(c, g) \subseteq Ids
    BY <1>1, <1>2 DEF Uploads, FilesOK, Partial
  <2>2. ASSUME NEW id \in DOMAIN Uploads(c, g) PROVE Uploads(c, g)[id] \in Types
    <3> DEFINE put == {g[i] : i \in {j \in DOMAIN c : c[j].upload # NoPhoto}}
    <3>1. CASE id \in put
      <4>1. PICK i \in DOMAIN c : c[i].upload # NoPhoto /\ id = g[i]
        BY <3>1
      <4>2. Uploads(c, g)[id] = c[i].upload
        BY <1>2, <3>1, <4>1, CardOfId DEF Uploads
      <4> QED BY <4>1, <4>2, CardTyped DEF Card
    <3>2. CASE id \notin put
      BY <1>1, <2>2, <3>2 DEF Uploads, FilesOK, Partial
    <3> QED BY <3>1, <3>2
  <2>3. Uploads(c, g) = [id \in DOMAIN Uploads(c, g) |-> Uploads(c, g)[id]]
    BY DEF Uploads
  <2> QED BY <1>2, <2>1, <2>2, <2>3 DEF Partial
<1>5. ASSUME NEW id \in ids PROVE locs[id] \in Draft
  <2>1. PICK i \in DOMAIN c : id = g[i]
    OBVIOUS
  <2>2. CardOf(c, g, id) = i
    BY <1>2, <2>1, CardOfId
  <2>3. CardPhoto(c, g, CardOf(c, g, id)) \in Photos
    BY <1>3, <2>2
  <2>4. c[CardOf(c, g, id)].name \in Names
    BY <2>2, CardTyped DEF Card
  <2> QED BY <2>3, <2>4 DEF Draft
<1>6. Partial(locs, Ids, Draft)
  BY <1>2, <1>5 DEF Partial
<1>7. CASE /\ wiz' = [wiz EXCEPT !.on = TRUE, !.locs = kept]
           /\ UNCHANGED sidecar
  <2>1. Partial(kept, Ids, Draft)
    BY <1>1, PhotosTyped DEF WizOK, FilesOK
  <2> HIDE DEF kept
  <2>2. wiz' = [on |-> TRUE, url |-> wiz.url, locs |-> kept]
    BY <1>1, <1>7 DEF WizOK
  <2>3. FilesOK'
    BY <1>1, <1>4, <1>7 DEF FilesOK
  <2> QED BY <1>1, <1>2, <2>1, <2>2, <2>3, DraftTyped DEF WizOK
<1>8. CASE /\ \/ sidecar' = [id \in shown |-> locs[id].photo]
              \/ UNCHANGED sidecar
           /\ wiz' = [wiz EXCEPT !.on = TRUE, !.locs = taken]
  <2>1. Partial(sidecar', Ids, Ids \X Types)
    <3>1. CASE sidecar' = [id \in shown |-> locs[id].photo]
      <4>1. ASSUME NEW id \in shown PROVE locs[id].photo \in Ids \X Types
        BY <1>5 DEF Draft, Photos
      <4>2. shown \subseteq Ids
        BY <1>2
      <4> HIDE DEF shown, locs
      <4> QED BY <3>1, <4>1, <4>2 DEF Partial
    <3>2. CASE UNCHANGED sidecar
      BY <1>1, <3>2 DEF FilesOK
    <3> QED BY <1>8, <3>1, <3>2
  <2>2. Partial(taken, Ids, Draft)
    <3> HIDE DEF locs
    <3> QED BY <1>6, <2>1, PhotosTyped
  <2> HIDE DEF taken
  <2>3. wiz' = [on |-> TRUE, url |-> wiz.url, locs |-> taken]
    BY <1>1, <1>8 DEF WizOK
  <2>4. FilesOK'
    BY <1>4, <2>1 DEF FilesOK
  <2> QED BY <1>1, <1>2, <2>2, <2>3, <2>4, DraftTyped DEF WizOK
<1> QED BY <1>7, <1>8 DEF WizardMarine

\* The wizard's list as the API keeps it.
Handed == [id \in DOMAIN wiz.locs |-> [name  |-> wiz.locs[id].name,
                                       tuned |-> wiz.locs[id].tuned]]

LEMMA HandedTyped ==
    ASSUME WizOK
    PROVE  Partial(Handed, Ids, Location)
<1>1. DOMAIN Handed \subseteq Ids
  BY DEF WizOK, Partial, Handed
<1>2. ASSUME NEW id \in DOMAIN wiz.locs PROVE Handed[id] \in Location
  BY DEF WizOK, Partial, Draft, Handed, Location
<1> QED BY <1>1, <1>2 DEF Partial, Handed

LEMMA WizardTyped ==
    ASSUME TypeOK, Wizard
    PROVE  TypeOK'
<1>1. ApiOK /\ FilesOK /\ FormsOK /\ WizOK
  BY TypeParts
<1>2. CASE WizardMarineOff
  <2>1. Partial(Empty, Ids, Draft)
    BY DEF Partial, Empty
  <2>2. wiz' = [on |-> FALSE, url |-> wiz.url, locs |-> Empty] /\ FilesOK'
    BY <1>1, <1>2 DEF WizardMarineOff, WizOK, FilesOK
  <2> QED BY <1>1, <1>2, <2>1, <2>2, DraftTyped DEF WizardMarineOff, WizOK
<1>3. CASE WizardApply
  <2>1. Partial(api', Ids, Location)
    BY <1>1, <1>3, HandedTyped DEF WizardApply, Handed, ApiOK
  <2>2. ApiOK' /\ FilesOK' /\ FormsOK' /\ WizOK'
    BY <1>1, <1>3, <2>1 DEF WizardApply, ApiOK, FilesOK, FormsOK, WizOK
  <2> QED BY <2>2, TypePartsNext
<1>4. ASSUME NEW u \in BOOLEAN, WizardProviders(u)
      PROVE  TypeOK'
  <2>1. wiz' = [on |-> wiz.on, url |-> u, locs |-> wiz.locs] /\ FilesOK'
    BY <1>1, <1>4 DEF WizardProviders, WizOK, FilesOK
  <2> QED BY <1>1, <1>4, <2>1, DraftTyped DEF WizardProviders, WizOK
<1>5. ASSUME NEW chosen \in SUBSET SurfSpotsOf(wiz.locs), WizardTrushore(chosen)
      PROVE  TypeOK'
  <2>1. Partial(Tuned(wiz.locs, chosen), Ids, Draft)
    BY <1>1, TunedDrafts DEF WizOK
  <2>2. wiz' = [on |-> wiz.on, url |-> wiz.url, locs |-> Tuned(wiz.locs, chosen)] /\ FilesOK'
    BY <1>1, <1>5 DEF WizardTrushore, WizOK, FilesOK
  <2> QED BY <1>1, <1>5, <2>1, <2>2, DraftTyped DEF WizardTrushore, WizOK
<1> QED BY <1>2, <1>3, <1>4, <1>5, MarinePageTyped, MarineTyped DEF Wizard

\* Every id, name, photo and form the steps make is one of those there are: no
\* slug, upload or old form leads outside (marine_save, step_marine_post).
THEOREM MarineTypeCorrect == Spec => []TypeOK
<1>1. Init => TypeOK
  <2> SUFFICES ASSUME Init PROVE TypeOK
    OBVIOUS
  <2>1. ApiOK /\ FilesOK /\ WizOK
    BY DEF Init, Empty, Partial, ApiOK, FilesOK, WizOK
  <2>2. FormsOK
    BY DEF Init, FormsOK
  <2> QED BY <2>1, <2>2, TypeParts
<1>2. TypeOK /\ [Next]_vars => TypeOK'
  <2> SUFFICES ASSUME TypeOK, [Next]_vars PROVE TypeOK'
    OBVIOUS
  <2>1. CASE Next
    BY <2>1, AdminTyped, WizardTyped DEF Next
  <2>2. CASE UNCHANGED vars
    BY <2>2 DEF vars, TypeOK
  <2> QED BY <2>1, <2>2
<1> QED BY <1>1, <1>2, PTL DEF Spec

-----------------------------------------------------------------------------
(* MarineLocations implements MarineCatalog *)

\* A step of neither list, nor of the service.
LEMMA NothingSeen ==
    ASSUME UNCHANGED <<api, url, wiz>>
    PROVE  UNCHANGED Catalog!vars
BY DEF Catalog!vars, NamesOf

\* A save of a list with one location set, seen from the catalog.
LEMMA NamesOfSaved ==
    ASSUME NEW list, Partial(list, Ids, Location), NEW k, NEW name
    PROVE  NamesOf(Put(Parsed(list), k, [name |-> name, tuned |-> FALSE]))
             = [j \in DOMAIN list \cup {k} |-> IF j = k THEN name ELSE NamesOf(list)[j]]
BY ParsedTyped DEF NamesOf, Put

LEMMA NamesOfDropped ==
    ASSUME NEW list, Partial(list, Ids, Location), NEW k
    PROVE  NamesOf(Drop(Parsed(list), k)) = [j \in DOMAIN list \ {k} |-> NamesOf(list)[j]]
BY ParsedTyped DEF NamesOf, Drop

LEMMA AdminFollows ==
    ASSUME TypeOK, Admin
    PROVE  Catalog!Next \/ UNCHANGED Catalog!vars
<1>1. Partial(api, Ids, Location)
  BY DEF TypeOK
<1>2. ASSUME NEW t \in Tabs, NEW name \in Names, NEW upload \in Types \cup {NoPhoto},
             SaveEdit(t, name, upload)
      PROVE  Catalog!Next
  <2> DEFINE k == forms[t].id
  <2>1. k \in Ids /\ k \in DOMAIN NamesOf(api)
    BY <1>1, <1>2 DEF SaveEdit, Partial, NamesOf
  <2>2. api' = Put(Parsed(api), k, [name |-> name, tuned |-> FALSE])
        /\ UNCHANGED <<url, NamesOf(wiz.locs)>>
    BY <1>2 DEF SaveEdit, NamesOf
  <2> HIDE DEF k
  <2>3. NamesOf(api') = [j \in DOMAIN api \cup {k} |-> IF j = k THEN name ELSE NamesOf(api)[j]]
    BY <1>1, <2>2, NamesOfSaved
  <2>4. NamesOf(api)' = [NamesOf(api) EXCEPT ![k] = name]
    BY <2>1, <2>3 DEF NamesOf
  <2>5. Catalog!Edit(k, name)
    BY <2>1, <2>2, <2>4 DEF Catalog!Edit
  <2> QED BY <2>1, <2>5 DEF Catalog!Next
<1>3. ASSUME NEW t \in Tabs, NEW name \in Names, NEW upload \in Types \cup {NoPhoto},
             SaveNew(t, name, upload)
      PROVE  Catalog!Next
  <2>0. PICK k \in Ids : /\ IsSlug(k, name, DOMAIN api)
                         /\ api' = Put(Parsed(api), k, [name |-> name, tuned |-> FALSE])
    BY <1>3 DEF SaveNew
  <2>1. k \in Ids /\ k \notin DOMAIN NamesOf(api)
    BY <2>0, SlugIsFree DEF NamesOf
  <2>2. api' = Put(Parsed(api), k, [name |-> name, tuned |-> FALSE])
        /\ url /\ UNCHANGED <<url, NamesOf(wiz.locs)>>
    BY <1>3, <2>0 DEF SaveNew, NamesOf
  <2>3. NamesOf(api)' = [j \in DOMAIN api \cup {k} |-> IF j = k THEN name ELSE NamesOf(api)[j]]
    <3>1. NamesOf(api') = [j \in DOMAIN api \cup {k} |-> IF j = k THEN name ELSE NamesOf(api)[j]]
      BY <1>1, <2>2, NamesOfSaved
    <3> QED BY <3>1 DEF NamesOf
  <2>4. DOMAIN NamesOf(api) = DOMAIN api
    BY DEF NamesOf
  <2>5. Catalog!Add(k, name)
    BY <2>1, <2>2, <2>3, <2>4 DEF Catalog!Add
  <2> QED BY <2>1, <2>5 DEF Catalog!Next
<1>4. ASSUME NEW id \in Ids, Delete(id)
      PROVE  Catalog!Next
  <2>1. NamesOf(api') = [j \in DOMAIN api \ {id} |-> NamesOf(api)[j]]
    BY <1>1, <1>4, NamesOfDropped DEF Delete
  <2>2. /\ NamesOf(api)' = [j \in DOMAIN NamesOf(api) \ {id} |-> NamesOf(api)[j]]
        /\ id \in DOMAIN NamesOf(api)
        /\ UNCHANGED <<url, NamesOf(wiz.locs)>>
    BY <1>4, <2>1 DEF NamesOf, Delete
  <2>3. Catalog!Remove(id)
    BY <2>2 DEF Catalog!Remove
  <2> QED BY <2>3 DEF Catalog!Next
<1>5. ASSUME NEW chosen \in SUBSET SurfSpotsOf(api), TrushoreSave(chosen)
      PROVE  UNCHANGED Catalog!vars
  <2>1. NamesOf(Tuned(api, chosen)) = NamesOf(api)
    BY <1>1, TunedLocations DEF NamesOf
  <2>2. NamesOf(api)' = NamesOf(api) /\ UNCHANGED <<url, NamesOf(wiz.locs)>>
    BY <1>5, <2>1 DEF TrushoreSave, NamesOf
  <2> QED BY <2>2 DEF Catalog!vars
<1>6. CASE ServiceSave
  <2>1. Catalog!Connect
    BY <1>6 DEF ServiceSave, Catalog!Connect, NamesOf
  <2> QED BY <2>1 DEF Catalog!Next
<1>7. ASSUME UNCHANGED <<api, url, wiz>> PROVE UNCHANGED Catalog!vars
  BY <1>7, NothingSeen
<1> QED BY <1>2, <1>3, <1>4, <1>5, <1>6, <1>7
        DEF Admin, OpenForm, SaveRefused, SaveTooBig, SaveFails, SaveWithoutService

LEMMA WizardFollows ==
    ASSUME TypeOK, TypeOK', Wizard
    PROVE  Catalog!Next \/ UNCHANGED Catalog!vars
<1>1. CASE UNCHANGED <<api, url>>
  <2>1. DOMAIN NamesOf(wiz.locs)' \subseteq Ids
    BY DEF TypeOK, Partial, NamesOf
  <2>2. UNCHANGED <<NamesOf(api), url>>
    BY <1>1 DEF NamesOf
  <2>3. Catalog!Draft
    BY <2>1, <2>2 DEF Catalog!Draft
  <2> QED BY <2>3 DEF Catalog!Next
<1>2. CASE WizardApply
  <2>1. UNCHANGED NamesOf(wiz.locs) /\ url' = (url \/ wiz.url)
        /\ url \in BOOLEAN /\ wiz.url \in BOOLEAN
    BY <1>2 DEF WizardApply, TypeOK, NamesOf
  <2>2. url' \in {url, TRUE}
    BY <2>1
  <2>3. CASE wiz.on /\ wiz.locs # Empty
    <3>1. wiz.locs = [id \in DOMAIN wiz.locs |-> wiz.locs[id]]
      BY DEF TypeOK, Partial
    <3>2. DOMAIN wiz.locs # {}
      BY <2>3, <3>1 DEF Empty
    <3>3. NamesOf(api)' = NamesOf(wiz.locs)
      BY <1>2, <2>3 DEF WizardApply, NamesOf
    <3>4. Catalog!HandOver
      BY <2>1, <2>2, <3>2, <3>3 DEF Catalog!HandOver, NamesOf
    <3> QED BY <3>4 DEF Catalog!Next
  <2>4. CASE ~(wiz.on /\ wiz.locs # Empty)
    <3>1. UNCHANGED NamesOf(api)
      BY <1>2, <2>4 DEF WizardApply, NamesOf
    <3>2. CASE url' = TRUE
      BY <2>1, <3>1, <3>2 DEF Catalog!Connect, Catalog!Next
    <3>3. CASE url' = url
      BY <2>1, <3>1, <3>3 DEF Catalog!vars
    <3> QED BY <2>2, <3>2, <3>3
  <2> QED BY <2>3, <2>4
<1> QED BY <1>1, <1>2
        DEF Wizard, WizardMarinePage, WizardMarineOff, WizardProviders, WizardMarine,
            WizardTrushore

\* No tab with an old form, no refused or failed save and no list of a wizard's
\* session changes the API's locations but as MarineCatalog says: by one added
\* under a new id, renamed or removed, or by the wizard's list as a whole
\* (marine_save, marine_delete, trushore_save, wizard_apply).
THEOREM CatalogFollowed == Spec => FollowsCatalog
<1>1. Init => Catalog!Init
  BY DEF Init, Catalog!Init, Empty, NamesOf
<1>2. TypeOK /\ TypeOK' /\ [Next]_vars => [Catalog!Next]_(Catalog!vars)
  <2> SUFFICES ASSUME TypeOK, TypeOK', [Next]_vars
      PROVE  Catalog!Next \/ UNCHANGED Catalog!vars
    OBVIOUS
  <2>1. CASE Next
    BY <2>1, AdminFollows, WizardFollows DEF Next
  <2>2. CASE UNCHANGED vars
    BY <2>2, NothingSeen DEF vars
  <2> QED BY <2>1, <2>2
<1> QED BY <1>1, <1>2, MarineTypeCorrect, PTL DEF Spec, FollowsCatalog, Catalog!Spec

-----------------------------------------------------------------------------
(* Photos.                                                                 *)
(*                                                                         *)
(* A photo_url travels: from marine-photos.json into forms and the wizard  *)
(* session, and from these back.  So the invariant speaks of all of them.  *)

\* A photo_url that is blank or of an id that has a photo file among some.
Stored(photo, some) == photo # NoPhoto => photo[1] \in DOMAIN some

SidecarInv == \A id \in DOMAIN sidecar :
                 sidecar[id] # NoPhoto /\ Stored(sidecar[id], files)

\* An open form, and a location of the session, is a record with a stored photo.
GoodForm(f, some) ==
    /\ f = [id |-> f.id, photo |-> f.photo, adding |-> f.adding]
    /\ Stored(f.photo, some)

GoodDraft(d, some) ==
    /\ d = [name |-> d.name, tuned |-> d.tuned, photo |-> d.photo]
    /\ Stored(d.photo, some)

GoodList(list, some) == \A id \in DOMAIN list : GoodDraft(list[id], some)

FormInv ==
    /\ forms = [t \in Tabs |-> forms[t]]
    /\ \A t \in Tabs : forms[t] # NoForm => GoodForm(forms[t], files)

DraftInv ==
    /\ wiz = [on |-> wiz.on, url |-> wiz.url, locs |-> wiz.locs]
    /\ GoodList(wiz.locs, files)

PhotoInv == SidecarInv /\ FormInv /\ DraftInv

-----------------------------------------------------------------------------
(* Files are only added *)

LEMMA StoredStays ==
    ASSUME NEW photo, NEW some, NEW more,
           DOMAIN some \subseteq DOMAIN more,
           Stored(photo, some)
    PROVE  Stored(photo, more)
BY DEF Stored

\* What a step leaves alone is as good afterwards.
LEMMA FormsStay ==
    ASSUME FormInv, DOMAIN files \subseteq DOMAIN files', UNCHANGED forms
    PROVE  FormInv'
BY DEF FormInv, GoodForm, Stored

LEMMA DraftStays ==
    ASSUME DraftInv, DOMAIN files \subseteq DOMAIN files', UNCHANGED wiz
    PROVE  DraftInv'
BY DEF DraftInv, GoodList, GoodDraft, Stored

LEMMA ListStays ==
    ASSUME NEW list, NEW some, NEW more,
           DOMAIN some \subseteq DOMAIN more, GoodList(list, some)
    PROVE  GoodList(list, more)
BY DEF GoodList, GoodDraft, Stored

LEMMA SidecarStays ==
    ASSUME SidecarInv, DOMAIN files \subseteq DOMAIN files', UNCHANGED sidecar
    PROVE  SidecarInv'
BY DEF SidecarInv, Stored

\* A tab gets another form, or none.
LEMMA FormReplaced ==
    ASSUME FormInv, DOMAIN files \subseteq DOMAIN files',
           NEW t \in Tabs, NEW f,
           f = NoForm \/ GoodForm(f, files'),
           forms' = [forms EXCEPT ![t] = f]
    PROVE  FormInv'
<1>1. forms' = [u \in Tabs |-> IF u = t THEN f ELSE forms[u]]
  BY DEF FormInv
<1>2. forms' = [u \in Tabs |-> forms'[u]]
  BY <1>1
<1>3. ASSUME NEW u \in Tabs, forms'[u] # NoForm PROVE GoodForm(forms'[u], files')
  <2>1. CASE u = t BY <1>1, <1>3, <2>1
  <2>2. CASE u # t BY <1>1, <1>3, <2>2 DEF FormInv, GoodForm, Stored
  <2> QED BY <2>1, <2>2
<1> QED BY <1>2, <1>3 DEF FormInv

\* The session gets another list, and keeps or changes its switches.
LEMMA DraftReplaced ==
    ASSUME NEW on, NEW svc, NEW list,
           GoodList(list, files'),
           wiz' = [on |-> on, url |-> svc, locs |-> list]
    PROVE  DraftInv'
BY DEF DraftInv

\* Storing a form's photo keeps the files there were, and what the sidecar and
\* the form say afterwards is stored.
LEMMA PhotoStored ==
    ASSUME NEW f, NEW name, NEW upload,
           SidecarInv, Stored(f.photo, files),
           StorePhoto(f, name, upload)
    PROVE  /\ DOMAIN files \subseteq DOMAIN files'
           /\ SidecarInv'
           /\ Stored(Shown(f, name, upload), files')
<1> DEFINE pid   == PhotoId(f, name)
           shown == Shown(f, name, upload)
<1>1. DOMAIN files \subseteq DOMAIN files'
  BY DEF StorePhoto, Put
<1>2. Stored(shown, files')
  <2>1. CASE upload = NoPhoto
    BY <2>1 DEF StorePhoto, Shown, Stored
  <2>2. CASE upload # NoPhoto
    <3>1. shown = <<pid, upload>> BY <2>2 DEF Shown
    <3>2. pid \in DOMAIN files'   BY <2>2 DEF StorePhoto, Put
    <3> QED BY <3>1, <3>2 DEF Stored
  <2> QED BY <2>1, <2>2
<1>3. SidecarInv'
  <2>1. CASE shown = NoPhoto /\ sidecar' = Drop(sidecar, pid)
    BY <1>1, <2>1 DEF Drop, SidecarInv, Stored
  <2>2. CASE shown # NoPhoto /\ sidecar' = Put(sidecar, pid, shown)
    <3>1. \A id \in DOMAIN sidecar' : sidecar'[id] = shown \/ (id \in DOMAIN sidecar /\ sidecar'[id] = sidecar[id])
      BY <2>2 DEF Put
    <3> QED BY <1>1, <1>2, <2>2, <3>1 DEF SidecarInv, Stored
  <2>3. CASE UNCHANGED sidecar
    BY <1>1, <2>3, SidecarStays
  <2> QED BY <2>1, <2>2, <2>3 DEF StorePhoto
<1> QED BY <1>1, <1>2, <1>3

\* A list laid over with stored photos has only stored photos.
LEMMA OverlaidStored ==
    ASSUME NEW list, NEW entries, NEW some,
           GoodList(list, some),
           \A id \in DOMAIN entries : Stored(entries[id], some)
    PROVE  GoodList(WithPhotos(list, entries), some)
<1> SUFFICES ASSUME NEW id \in DOMAIN list
    PROVE  GoodDraft(WithPhotos(list, entries)[id], some)
  BY DEF WithPhotos, GoodList
<1>0. GoodDraft(list[id], some)
  BY DEF GoodList
<1>1. CASE list[id].photo = NoPhoto /\ id \in DOMAIN entries
  <2>1. WithPhotos(list, entries)[id] = [list[id] EXCEPT !.photo = entries[id]]
    BY <1>1 DEF WithPhotos
  <2>2. [list[id] EXCEPT !.photo = entries[id]]
          = [name |-> list[id].name, tuned |-> list[id].tuned, photo |-> entries[id]]
    BY <1>0 DEF GoodDraft
  <2> QED BY <1>1, <2>1, <2>2 DEF GoodDraft
<1>2. CASE ~(list[id].photo = NoPhoto /\ id \in DOMAIN entries)
  BY <1>0, <1>2 DEF WithPhotos
<1> QED BY <1>1, <1>2

\* Settings do not touch photos.
LEMMA TunedStored ==
    ASSUME NEW list, NEW chosen, NEW some, GoodList(list, some)
    PROVE  GoodList(Tuned(list, chosen), some)
<1> SUFFICES ASSUME NEW id \in DOMAIN list
    PROVE  GoodDraft(Tuned(list, chosen)[id], some)
  BY DEF Tuned, GoodList
<1>1. GoodDraft(list[id], some)
  BY DEF GoodList
<1>2. Tuned(list, chosen)[id] = [list[id] EXCEPT !.tuned = id \in chosen]
  BY DEF Tuned
<1>3. [list[id] EXCEPT !.tuned = id \in chosen]
        = [name |-> list[id].name, tuned |-> id \in chosen, photo |-> list[id].photo]
  BY <1>1 DEF GoodDraft
<1> QED BY <1>1, <1>2, <1>3 DEF GoodDraft

-----------------------------------------------------------------------------
(* Admin *)

\* A form that its tab loses once its photo is stored.
LEMMA FormDone ==
    ASSUME PhotoInv, NEW t \in Tabs, NEW name, NEW upload,
           forms[t] # NoForm, StorePhoto(forms[t], name, upload),
           forms' = [forms EXCEPT ![t] = NoForm], UNCHANGED wiz
    PROVE  PhotoInv'
<1>1. Stored(forms[t].photo, files)
  BY DEF PhotoInv, FormInv, GoodForm
<1>2. DOMAIN files \subseteq DOMAIN files' /\ SidecarInv'
  BY <1>1, PhotoStored DEF PhotoInv
<1>3. FormInv'
  BY <1>2, FormReplaced DEF PhotoInv
<1>4. DraftInv'
  BY <1>2, DraftStays DEF PhotoInv
<1> QED BY <1>2, <1>3, <1>4 DEF PhotoInv

\* Steps that change no file and no entry of the sidecar.
LEMMA FormOnly ==
    ASSUME PhotoInv, NEW t \in Tabs, NEW f,
           f = NoForm \/ GoodForm(f, files),
           forms' = [forms EXCEPT ![t] = f], UNCHANGED <<files, sidecar, wiz>>
    PROVE  PhotoInv'
<1>1. DOMAIN files \subseteq DOMAIN files' /\ files' = files
  OBVIOUS
<1>2. FormInv'
  BY <1>1, FormReplaced DEF PhotoInv
<1> QED BY <1>1, <1>2, SidecarStays, DraftStays DEF PhotoInv

LEMMA AdminKeepsPhotos ==
    ASSUME PhotoInv, Admin
    PROVE  PhotoInv'
<1>1. ASSUME NEW t \in Tabs, NEW id \in Ids \cup {NoId}, OpenForm(t, id)
      PROVE  PhotoInv'
  <2>1. PICK known \in BOOLEAN :
          forms' = [forms EXCEPT ![t] = [id     |-> id,
                                         photo  |-> IF known THEN Overlay(id) ELSE NoPhoto,
                                         adding |-> id = NoId]]
    BY <1>1 DEF OpenForm
  <2> DEFINE f == [id     |-> id,
                   photo  |-> IF known THEN Overlay(id) ELSE NoPhoto,
                   adding |-> id = NoId]
  <2>2. Stored(f.photo, files)
    BY DEF PhotoInv, SidecarInv, Overlay, Stored
  <2>3. GoodForm(f, files)
    BY <2>2 DEF GoodForm
  <2>4. UNCHANGED <<files, sidecar, wiz>>
    BY <1>1 DEF OpenForm
  <2> HIDE DEF f
  <2>5. forms' = [forms EXCEPT ![t] = f]
    BY <2>1 DEF f
  <2> QED BY <2>3, <2>4, <2>5, FormOnly
<1>2. ASSUME NEW t \in Tabs, SaveRefused(t)
      PROVE  PhotoInv'
  <2> DEFINE f == [forms[t] EXCEPT !.photo = NoPhoto]
  <2>1. forms[t] = [id |-> forms[t].id, photo |-> forms[t].photo, adding |-> forms[t].adding]
    BY <1>2 DEF SaveRefused, PhotoInv, FormInv, GoodForm
  <2>2. f = [id |-> forms[t].id, photo |-> NoPhoto, adding |-> forms[t].adding]
    BY <2>1
  <2>3. GoodForm(f, files)
    BY <2>2 DEF GoodForm, Stored
  <2>4. forms' = [forms EXCEPT ![t] = f] /\ UNCHANGED <<files, sidecar, wiz>>
    BY <1>2 DEF SaveRefused
  <2> HIDE DEF f
  <2> QED BY <2>3, <2>4, FormOnly
<1>3. ASSUME NEW t \in Tabs, NEW name \in Names, NEW type \in Types,
             SaveTooBig(t, name, type)
      PROVE  PhotoInv'
  <2> DEFINE id == PhotoId(forms[t], name)
             f  == [forms[t] EXCEPT !.id = id]
  <2>1. GoodForm(forms[t], files)
    BY <1>3 DEF SaveTooBig, PhotoInv, FormInv
  <2>2. f = [id |-> id, photo |-> forms[t].photo, adding |-> forms[t].adding]
    BY <2>1 DEF GoodForm
  <2>3. GoodForm(f, files)
    BY <2>1, <2>2 DEF GoodForm
  <2>4. forms' = [forms EXCEPT ![t] = f] /\ UNCHANGED <<files, sidecar, wiz>>
    BY <1>3 DEF SaveTooBig
  <2> HIDE DEF f
  <2> QED BY <2>3, <2>4, FormOnly
<1>4. ASSUME NEW t \in Tabs, NEW name \in Names, NEW upload \in Types \cup {NoPhoto},
             SaveWithoutService(t, name, upload)
      PROVE  PhotoInv'
  <2> DEFINE shown == Shown(forms[t], name, upload)
             f     == [forms[t] EXCEPT !.photo = shown]
  <2>1. GoodForm(forms[t], files)
    BY <1>4 DEF SaveWithoutService, PhotoInv, FormInv
  <2>2. /\ DOMAIN files \subseteq DOMAIN files' /\ SidecarInv'
        /\ Stored(shown, files')
    BY <1>4, <2>1, PhotoStored DEF SaveWithoutService, PhotoInv, GoodForm
  <2>3. f = [id |-> forms[t].id, photo |-> shown, adding |-> forms[t].adding]
    BY <2>1 DEF GoodForm
  <2>4. GoodForm(f, files')
    BY <2>2, <2>3 DEF GoodForm
  <2>5. forms' = [forms EXCEPT ![t] = f] /\ UNCHANGED wiz
    BY <1>4 DEF SaveWithoutService
  <2> HIDE DEF f
  <2>6. FormInv'
    BY <2>2, <2>4, <2>5, FormReplaced DEF PhotoInv
  <2> QED BY <2>2, <2>5, <2>6, DraftStays DEF PhotoInv
<1>5. ASSUME NEW t \in Tabs, NEW name \in Names, NEW upload \in Types \cup {NoPhoto},
             \/ SaveFails(t, name, upload)
             \/ SaveEdit(t, name, upload)
             \/ SaveNew(t, name, upload)
      PROVE  PhotoInv'
  <2>1. /\ forms[t] # NoForm
        /\ StorePhoto(forms[t], name, upload)
        /\ forms' = [forms EXCEPT ![t] = NoForm]
        /\ UNCHANGED wiz
    BY <1>5 DEF SaveFails, SaveEdit, SaveNew
  <2> QED BY <2>1, FormDone
<1>6. ASSUME \/ \E id \in Ids : Delete(id)
             \/ \E chosen \in SUBSET SurfSpotsOf(api) : TrushoreSave(chosen)
             \/ ServiceSave
      PROVE  PhotoInv'
  <2>1. UNCHANGED <<files, sidecar, forms, wiz>>
    BY <1>6 DEF Delete, TrushoreSave, ServiceSave
  <2>2. DOMAIN files \subseteq DOMAIN files'
    BY <2>1
  <2> QED BY <2>1, <2>2, SidecarStays, FormsStay, DraftStays DEF PhotoInv
<1> QED BY <1>1, <1>2, <1>3, <1>4, <1>5, <1>6 DEF Admin

-----------------------------------------------------------------------------
(* Wizard *)

\* A step of the wizard that only gives its session another good list.
LEMMA DraftOnly ==
    ASSUME PhotoInv, NEW on, NEW svc, NEW list,
           GoodList(list, files),
           wiz' = [on |-> on, url |-> svc, locs |-> list],
           UNCHANGED <<files, sidecar, forms>>
    PROVE  PhotoInv'
<1>1. files' = files /\ DOMAIN files \subseteq DOMAIN files'
  OBVIOUS
<1>2. DraftInv'
  BY <1>1, DraftReplaced
<1> QED BY <1>1, <1>2, SidecarStays, FormsStay DEF PhotoInv

LEMMA MarinePageKeepsPhotos ==
    ASSUME PhotoInv, WizardMarinePage
    PROVE  PhotoInv'
<1> DEFINE taken == [id \in DOMAIN api |-> [name |-> api[id].name, tuned |-> api[id].tuned,
                                            photo |-> NoPhoto]]
           locs  == IF wiz.locs = Empty THEN taken ELSE wiz.locs
           list  == WithPhotos(locs, sidecar)
           on    == wiz.on \/ (wiz.locs = Empty /\ locs # Empty)
           svc   == wiz.url \/ (wiz.locs = Empty /\ url)
<1>1. GoodList(taken, files)
  BY DEF GoodList, GoodDraft, Stored
<1>2. GoodList(wiz.locs, files)
  BY DEF PhotoInv, DraftInv
<1>3. GoodList(locs, files)
  BY <1>1, <1>2
<1>4. \A id \in DOMAIN sidecar : Stored(sidecar[id], files)
  BY DEF PhotoInv, SidecarInv
<1>5. GoodList(list, files)
  <2> HIDE DEF locs
  <2> QED BY <1>3, <1>4, OverlaidStored
<1>6. /\ wiz' = [wiz EXCEPT !.on = on, !.url = svc, !.locs = list]
      /\ UNCHANGED <<files, sidecar, forms>>
  BY DEF WizardMarinePage
<1>7. wiz' = [on |-> on, url |-> svc, locs |-> list]
  <2> HIDE DEF on, svc, list
  <2> QED BY <1>6 DEF PhotoInv, DraftInv
<1> HIDE DEF on, svc, list
<1> QED BY <1>5, <1>6, <1>7, DraftOnly

\* Every card's photo is stored once the form's uploads are.
LEMMA CardPhotosStored ==
    ASSUME DraftInv, NEW c \in Cards, NEW g, NEW i \in DOMAIN c
    PROVE  Stored(CardPhoto(c, g, i), Uploads(c, g))
<1>1. CASE c[i].upload # NoPhoto
  <2>1. CardPhoto(c, g, i) = <<g[i], c[i].upload>>
    BY <1>1 DEF CardPhoto
  <2>2. g[i] \in DOMAIN Uploads(c, g)
    BY <1>1 DEF Uploads
  <2>3. CardPhoto(c, g, i)[1] = g[i]
    BY <2>1
  <2> QED BY <2>2, <2>3 DEF Stored
<1>2. CASE c[i].upload = NoPhoto /\ c[i].from # NoId
  <2>1. CardPhoto(c, g, i) = wiz.locs[c[i].from].photo
    BY <1>2 DEF CardPhoto
  <2>2. c[i].from \in DOMAIN wiz.locs
    BY <1>2 DEF Cards
  <2>3. Stored(CardPhoto(c, g, i), files)
    BY <2>1, <2>2 DEF DraftInv, GoodList, GoodDraft
  <2>4. DOMAIN files \subseteq DOMAIN Uploads(c, g)
    BY DEF Uploads
  <2> QED BY <2>3, <2>4, StoredStays
<1>3. CASE c[i].upload = NoPhoto /\ c[i].from = NoId
  BY <1>3 DEF CardPhoto, Stored
<1> QED BY <1>1, <1>2, <1>3

LEMMA MarineKeepsPhotos ==
    ASSUME PhotoInv, NEW c \in Cards, NEW g \in [DOMAIN c -> Ids], WizardMarine(c, g)
    PROVE  PhotoInv'
<1> DEFINE ids   == {g[i] : i \in DOMAIN c}
           locs  == [id \in ids |-> [name |-> c[CardOf(c, g, id)].name, tuned |-> FALSE,
                                     photo |-> CardPhoto(c, g, CardOf(c, g, id))]]
           shown == {id \in ids : locs[id].photo # NoPhoto}
           kept  == WithPhotos(wiz.locs, sidecar)
           taken == IF wiz.url THEN locs ELSE WithPhotos(locs, sidecar')
<1>1. files' = Uploads(c, g) /\ UNCHANGED forms
  BY DEF WizardMarine
<1>2. DOMAIN files \subseteq DOMAIN files'
  BY <1>1 DEF Uploads
<1>3. FormInv'
  BY <1>1, <1>2, FormsStay DEF PhotoInv
<1>4. ASSUME NEW id \in ids PROVE Stored(CardPhoto(c, g, CardOf(c, g, id)), files')
  <2>1. CardOf(c, g, id) \in DOMAIN c
    BY DEF CardOf
  <2> QED BY <1>1, <2>1, CardPhotosStored DEF PhotoInv
<1>5. GoodList(locs, files')
  BY <1>4 DEF GoodList, GoodDraft
<1>6. GoodList(wiz.locs, files') /\ \A id \in DOMAIN sidecar : Stored(sidecar[id], files')
  BY <1>2, ListStays, StoredStays DEF PhotoInv, DraftInv, SidecarInv
<1>7. CASE /\ wiz' = [wiz EXCEPT !.on = TRUE, !.locs = kept]
           /\ UNCHANGED sidecar
  <2>1. GoodList(kept, files')
    BY <1>6, OverlaidStored
  <2> HIDE DEF kept
  <2>2. wiz' = [on |-> TRUE, url |-> wiz.url, locs |-> kept]
    BY <1>7 DEF PhotoInv, DraftInv
  <2>3. DraftInv'
    BY <2>1, <2>2, DraftReplaced
  <2> QED BY <1>2, <1>3, <1>7, <2>3, SidecarStays DEF PhotoInv
<1>8. CASE /\ \/ sidecar' = [id \in shown |-> locs[id].photo]
              \/ UNCHANGED sidecar
           /\ wiz' = [wiz EXCEPT !.on = TRUE, !.locs = taken]
  <2>1. SidecarInv'
    <3>1. CASE sidecar' = [id \in shown |-> locs[id].photo]
      BY <1>4, <3>1 DEF SidecarInv
    <3>2. CASE UNCHANGED sidecar
      BY <1>2, <3>2, SidecarStays DEF PhotoInv
    <3> QED BY <1>8, <3>1, <3>2
  <2>2. \A id \in DOMAIN sidecar' : Stored(sidecar'[id], files')
    BY <2>1 DEF SidecarInv
  <2>3. GoodList(taken, files')
    <3> HIDE DEF locs
    <3>1. GoodList(WithPhotos(locs, sidecar'), files')
      BY <1>5, <2>2, OverlaidStored
    <3> QED BY <1>5, <3>1
  <2> HIDE DEF taken
  <2>4. wiz' = [on |-> TRUE, url |-> wiz.url, locs |-> taken]
    BY <1>8 DEF PhotoInv, DraftInv
  <2>5. DraftInv'
    BY <2>3, <2>4, DraftReplaced
  <2> QED BY <1>3, <2>1, <2>5 DEF PhotoInv
<1> QED BY <1>7, <1>8 DEF WizardMarine

LEMMA WizardKeepsPhotos ==
    ASSUME PhotoInv, Wizard
    PROVE  PhotoInv'
<1>1. wiz = [on |-> wiz.on, url |-> wiz.url, locs |-> wiz.locs] /\ GoodList(wiz.locs, files)
  BY DEF PhotoInv, DraftInv
<1>2. CASE WizardMarineOff
  <2>1. GoodList(Empty, files)
    BY DEF GoodList, Empty
  <2>2. wiz' = [on |-> FALSE, url |-> wiz.url, locs |-> Empty]
    BY <1>1, <1>2 DEF WizardMarineOff
  <2> QED BY <1>2, <2>1, <2>2, DraftOnly DEF WizardMarineOff
<1>3. CASE WizardApply
  <2>1. UNCHANGED <<files, sidecar, forms, wiz>> /\ DOMAIN files \subseteq DOMAIN files'
    BY <1>3 DEF WizardApply
  <2> QED BY <2>1, SidecarStays, FormsStay, DraftStays DEF PhotoInv
<1>4. ASSUME NEW u \in BOOLEAN, WizardProviders(u)
      PROVE  PhotoInv'
  <2>1. wiz' = [on |-> wiz.on, url |-> u, locs |-> wiz.locs]
    BY <1>1, <1>4 DEF WizardProviders
  <2> QED BY <1>1, <1>4, <2>1, DraftOnly DEF WizardProviders
<1>5. ASSUME NEW chosen \in SUBSET SurfSpotsOf(wiz.locs), WizardTrushore(chosen)
      PROVE  PhotoInv'
  <2>1. GoodList(Tuned(wiz.locs, chosen), files)
    BY <1>1, TunedStored
  <2>2. wiz' = [on |-> wiz.on, url |-> wiz.url, locs |-> Tuned(wiz.locs, chosen)]
    BY <1>1, <1>5 DEF WizardTrushore
  <2> QED BY <1>5, <2>1, <2>2, DraftOnly DEF WizardTrushore
<1> QED BY <1>2, <1>3, <1>4, <1>5, MarinePageKeepsPhotos, MarineKeepsPhotos DEF Wizard

-----------------------------------------------------------------------------
(* The theorem *)

LEMMA PhotosStart == Init => PhotoInv
<1> SUFFICES ASSUME Init PROVE PhotoInv
  OBVIOUS
<1>1. SidecarInv
  BY DEF Init, Empty, SidecarInv
<1>2. FormInv
  BY DEF Init, FormInv
<1>3. DraftInv
  BY DEF Init, Empty, DraftInv, GoodList
<1> QED BY <1>1, <1>2, <1>3 DEF PhotoInv

\* Whatever forms are open in whatever tabs, and whatever the wizard's session
\* holds, what marine-photos.json says a location shows is the photo of an id
\* that has a photo file (marine_save, step_marine_post).
THEOREM PhotosAlwaysStored == Spec => []PhotosStored
<1>1. PhotoInv /\ [Next]_vars => PhotoInv'
  <2> SUFFICES ASSUME PhotoInv, [Next]_vars PROVE PhotoInv'
    OBVIOUS
  <2>1. CASE Next
    BY <2>1, AdminKeepsPhotos, WizardKeepsPhotos DEF Next
  <2>2. CASE UNCHANGED vars
    <3>1. UNCHANGED <<files, sidecar, forms, wiz>> /\ DOMAIN files \subseteq DOMAIN files'
      BY <2>2 DEF vars
    <3> QED BY <3>1, SidecarStays, FormsStay, DraftStays DEF PhotoInv
  <2> QED BY <2>1, <2>2
<1>2. PhotoInv => PhotosStored
  BY DEF PhotoInv, SidecarInv, Stored, PhotosStored
<1> QED BY PhotosStart, <1>1, <1>2, PTL DEF Spec
=============================================================================
