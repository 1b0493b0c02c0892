------------------------- MODULE WizardFieldsProofs -------------------------
(***************************************************************************)
(* What a refused form leaves in the session never reaches Apply, for any  *)
(* answers, files and faults: whatever a refused form of a page left, that *)
(* page is still ahead of the tab, since the wizard leads forward by       *)
(* accepted forms alone and back without conditions.                       *)
(*                                                                         *)
(* And accepted answers stay: the session holds those of the pages behind  *)
(* the tab, and where one is missing ahead of it, the page's whole form is *)
(* blank and the answer is in the files that the page is then filled from. *)
(***************************************************************************)
EXTENDS WizardFields, TLAPS

Sessions == [Fields -> Answers]
Wants    == [Fields -> Answers \cup {NoAnswer}]

\* The pages whose forms can be refused, and those after the agreement.
FormPages == 4..(Review - 1)

\* The inductive invariant: a page ahead asks for what a refused form left.
RefusedAhead == \A f \in refused : \E i \in FormPages : page <= i /\ f \in Asks(i)

IInv == TypeOK /\ RefusedAhead

-----------------------------------------------------------------------------
(* Pages.                                                                  *)

\* The numbers of the pages that the proofs speak of (_progress_bar.html).
LEMMA PageNumbers ==
    /\ Login = 0 /\ Review = 15 /\ Done = 16
    /\ Pages[1] = "api" /\ Pages[2] = "import" /\ Pages[3] = "eula"
    /\ \A i \in 1..Review : Pages[i] = "eula" => i = 3
BY DEF Pages, Login, Review, Done

\* Only the page of the agreement passes on to the next one.
LEMMA LandsNear ==
    ASSUME NEW i \in 1..Review, NEW m
    PROVE  /\ Landing(i, m) \in 1..Review
           /\ Landing(i, m) = i \/ (i = 3 /\ Landing(i, m) = 4)
BY PageNumbers DEF Landing

\* The form of the open page asks what Forms has for it.
LEMMA FormAsks ==
    ASSUME NEW i, Pages[i] \in DOMAIN Forms
    PROVE  Asks(i) = Forms[Pages[i]]
BY DEF Asks

-----------------------------------------------------------------------------
(* Sessions stay sessions.                                                 *)

LEMMA ExistingTyped ==
    ASSUME TypeOK
    PROVE  Existing \in Sessions
<1>1. \A s \in Stores : store[s] \in Sessions
  BY DEF TypeOK, Sessions
<1>2. "api" \in Stores /\ "stack" \in Stores /\ "brand" \in Stores
  BY DEF Stores
<1>3. Blank \in Answers
  BY DEF Answers
<1>4. \A f \in Fields : store["api"][f] \in Answers /\ store["stack"][f] \in Answers
                          /\ store["brand"][f] \in Answers
  BY <1>1, <1>2 DEF Sessions
<1>5. \A f \in Fields : FromStackConf(f) \in Answers
  BY <1>3, <1>4 DEF FromStackConf, FromApiConf
<1> QED
  BY <1>4, <1>5 DEF Existing, OverBranding, Sessions

\* Filling a session from another one gives a session.
LEMMA FillTyped ==
    ASSUME NEW m \in Sessions, NEW F, NEW src \in Sessions
    PROVE  Fill(m, F, src) \in Sessions
BY DEF Fill, Sessions

LEMMA LookedTyped ==
    ASSUME TypeOK, NEW m \in Sessions, NEW F
    PROVE  Looked(F, m) \in Sessions
BY ExistingTyped, FillTyped DEF Looked, FromFiles

LEMMA FromCurrentTyped ==
    ASSUME TypeOK, NEW m \in Sessions
    PROVE  FromCurrent(m) \subseteq Sessions
<1>1. store["api"] \in Sessions
  BY DEF TypeOK, Stores, Sessions
<1> QED
  BY <1>1, FillTyped DEF FromCurrent, CurrentOf

LEMMA AskedTyped ==
    ASSUME NEW m \in Sessions, NEW f \in Fields
    PROVE  Asked(f, m) \subseteq Sessions
<1>1. Found \cup {Blank} \subseteq Answers
  BY FoundValues DEF Answers
<1>2. \A v \in Answers : [m EXCEPT ![f] = v] \in Sessions
  BY DEF Sessions
<1> QED
  BY <1>1, <1>2 DEF Asked

LEMMA OverBrandingTyped ==
    ASSUME TypeOK, NEW m \in Sessions
    PROVE  OverBranding(m) \in Sessions
<1>1. store["brand"] \in Sessions
  BY DEF TypeOK, Stores, Sessions
<1> QED
  BY <1>1 DEF OverBranding, Sessions

\* Opening a page turns a session into a session (the GET handlers).
LEMMA OpenedTyped ==
    ASSUME TypeOK, NEW m \in Sessions, NEW p
    PROVE  Opened(p, m) \subseteq Sessions
<1>1. \A F : Looked(F, m) \in Sessions
  BY LookedTyped
<1>2. {"db", "name"} \subseteq Fields
  BY DEF Fields
<1>3. DbGet(m) \subseteq Sessions
  BY <1>1, <1>2, AskedTyped DEF DbGet
<1>4. StationGet(m) \subseteq Sessions
  <2>1. Asked("name", Looked({"name"}, m)) \subseteq Sessions
    BY <1>1, <1>2, AskedTyped
  <2> QED
    BY <2>1, OverBrandingTyped DEF StationGet
<1>5. MarineGet(m) \subseteq Sessions
  BY FromCurrentTyped DEF MarineGet
<1>6. /\ EulaGet(m) \subseteq Sessions /\ ColumnsGet(m) \subseteq Sessions
      /\ UnitsGet(m) \subseteq Sessions /\ ProvidersGet(m) \subseteq Sessions
      /\ WebcamGet(m) \subseteq Sessions /\ BrandingGet(m) \subseteq Sessions
      /\ PrivacyGet(m) \subseteq Sessions /\ FeaturesGet(m) \subseteq Sessions
      /\ TlsGet(m) \subseteq Sessions /\ ReviewGet(m) \subseteq Sessions
  BY <1>1 DEF EulaGet, ColumnsGet, UnitsGet, ProvidersGet, WebcamGet, BrandingGet, PrivacyGet,
              FeaturesGet, TlsGet, ReviewGet
<1> QED
  BY <1>3, <1>4, <1>5, <1>6 DEF Opened

\* What Open leaves: near page i, or on step 1 (_render, the redirects to step 1).
LEMMA OpenTyped ==
    ASSUME TypeOK, NEW i \in 1..Review, NEW m \in Sessions, NEW s \in Sessions,
           NEW w \in Wants, Open(i, m, s, w)
    PROVE  /\ page' \in 1..Review
           /\ page' = 1 \/ page' = i \/ (i = 3 /\ page' = 4)
           /\ mem' \in Sessions /\ saved' \in Sessions /\ want' \in Wants
<1> DEFINE j == Landing(i, m)
           p == Pages[j]
<1>1. j \in 1..Review /\ (j = i \/ (i = 3 /\ j = 4)) /\ 1 \in 1..Review
  BY LandsNear, PageNumbers
<1>2. CASE \E n \in Opened(p, m) :
             /\ page' = j
             /\ mem' = n
             /\ saved' \in {n, s}
             /\ want' = IF p = "station" THEN Kept(w, m, n) ELSE w
  <2>1. PICK n \in Opened(p, m) :
             /\ page' = j
             /\ mem' = n
             /\ saved' \in {n, s}
             /\ want' = IF p = "station" THEN Kept(w, m, n) ELSE w
    BY <1>2
  <2>2. n \in Sessions
    BY OpenedTyped
  <2>3. Kept(w, m, n) \in Wants
    BY DEF Kept, Wants
  <2> QED
    BY <1>1, <2>1, <2>2, <2>3
<1>3. CASE /\ page' = 1
           /\ mem' = Looked(Fetches[p], m)
           /\ saved' = s /\ want' = w
  <2>1. Looked(Fetches[p], m) \in Sessions
    BY LookedTyped
  <2> QED
    BY <1>1, <1>3, <2>1
<1> QED
  BY <1>2, <1>3 DEF Open

\* An accepted or refused form gives a session, and its answers are answers.
LEMMA PutTyped ==
    ASSUME NEW F, NEW a \in [F -> Answers], NEW m \in Sessions, NEW w \in Wants
    PROVE  Put(m, a) \in Sessions /\ Put(w, a) \in Wants
BY DEF Put, Sessions, Wants

-----------------------------------------------------------------------------
(* The inductive invariant.                                                *)

\* What Sessions and Wants say of the state.
LEMMA StateTyped ==
    ASSUME TypeOK
    PROVE  mem \in Sessions /\ saved \in Sessions /\ want \in Wants
BY DEF TypeOK, Sessions, Wants

\* TypeOK of the next state from its parts, for the steps that leave the files alone.
LEMMA TypeKept ==
    ASSUME TypeOK, offered' = offered, UNCHANGED files, page' \in 0..Done,
           mem' \in Sessions, saved' \in Sessions, want' \in Wants, refused' \subseteq Fields
    PROVE  TypeOK'
BY PageNumbers DEF TypeOK, files, Sessions, Wants

\* Nothing is ahead of a page before the forms that can be refused, and what is ahead of
\* a page is ahead of those before it.
LEMMA StillAhead ==
    ASSUME IInv, page' \in Nat, refused' \subseteq refused, page' <= 4 \/ page' <= page
    PROVE  RefusedAhead'
<1>1. page \in Nat
  BY PageNumbers DEF IInv, TypeOK
<1>2. \A i \in FormPages : i \in Nat /\ 4 <= i
  BY PageNumbers DEF FormPages
<1>3. ASSUME NEW f \in refused
      PROVE  \E i \in FormPages : page' <= i /\ f \in Asks(i)
  <2>1. PICK i \in FormPages : page <= i /\ f \in Asks(i)
    BY DEF IInv, RefusedAhead
  <2>2. page' <= i
    BY <1>1, <1>2, <2>1
  <2> QED
    BY <2>1, <2>2
<1> QED
  BY <1>3 DEF RefusedAhead, FormPages

LEMMA InitIInv == Init => IInv
<1> SUFFICES ASSUME Init PROVE IInv
  OBVIOUS
<1>1. Nothing \in [Fields -> Answers]
  BY DEF Answers, Nothing
<1>2. mem = Nothing /\ saved = Nothing /\ store = [t \in Stores |-> Nothing]
  BY DEF Init
<1>3. mem \in [Fields -> Answers] /\ saved \in [Fields -> Answers]
      /\ store \in [Stores -> [Fields -> Answers]]
  BY <1>1, <1>2
<1>4. want \in [Fields -> Answers \cup {NoAnswer}]
  BY DEF Init
<1>5. page = 1 /\ offered \in Offers /\ refused = {}
  BY DEF Init
<1>6. page \in Login..Done
  BY <1>5, PageNumbers
<1>7. {configured, here, paired} \subseteq BOOLEAN
  BY DEF Init
<1> QED
  BY <1>3, <1>4, <1>5, <1>6, <1>7 DEF IInv, TypeOK, RefusedAhead

\* An accepted form: its own fields are no longer in doubt, and the page asks others.
LEMMA AcceptIInv ==
    ASSUME IInv, NEW p \in DOMAIN Forms, Accept(p)
    PROVE  IInv'
<1>1. TypeOK /\ page \in 3..14 /\ page + 1 \in 1..Review /\ Pages[page] = p
  BY PageNumbers DEF IInv, Accept
<1>2. PICK a \in Filled(Forms[p]) : Open(page + 1, Put(mem, a), Put(mem, a), Put(want, a))
  BY DEF Accept
<1>3. Put(mem, a) \in Sessions /\ Put(want, a) \in Wants
  BY <1>1, StateTyped, PutTyped DEF Filled
<1>4. /\ page' \in 1..Review /\ (page' = 1 \/ page' = page + 1)
      /\ mem' \in Sessions /\ saved' \in Sessions /\ want' \in Wants
  <2> HIDE DEF Put
  <2>1. page + 1 # 3
    BY <1>1
  <2> QED
    BY <1>1, <1>2, <1>3, <2>1, OpenTyped
<1>5. refused' = refused \ Forms[p] /\ offered' = offered /\ UNCHANGED files
  BY DEF Accept
<1>6. TypeOK'
  <2>1. page' \in 0..Done /\ refused' \subseteq Fields
    BY <1>1, <1>4, <1>5, PageNumbers DEF TypeOK
  <2> QED
    BY <1>1, <1>4, <1>5, <2>1, TypeKept
<1>7. ASSUME NEW f \in refused'
      PROVE  \E i \in FormPages : page' <= i /\ f \in Asks(i)
  <2>1. PICK i \in FormPages : page <= i /\ f \in Asks(i)
    BY <1>5 DEF IInv, RefusedAhead
  <2>2. Asks(page) = Forms[p]
    BY <1>1, FormAsks
  <2>3. i # page
    BY <1>5, <2>1, <2>2
  <2>4. i \in Nat
    BY PageNumbers DEF FormPages
  <2>5. page' <= i
    BY <1>1, <1>4, <2>1, <2>3, <2>4, PageNumbers
  <2> QED
    BY <2>1, <2>5
<1> QED
  BY <1>6, <1>7 DEF IInv, RefusedAhead, FormPages

\* A refused form: its page, or step 1, comes up, and has the form still ahead.
LEMMA RefuseIInv ==
    ASSUME IInv, NEW p \in DOMAIN Forms, p # "eula", NEW F \in SUBSET Forms[p],
           NEW i \in {1, page}, Refuse(p, F, i), saved' \in {saved, mem'}
    PROVE  IInv'
<1>1. TypeOK /\ page \in FormPages /\ Pages[page] = p
  <2>1. page \in 3..14 /\ Pages[page] = p
    BY PageNumbers DEF Refuse
  <2>2. page # 3
    BY <2>1, PageNumbers
  <2> QED
    BY <2>1, <2>2, PageNumbers DEF IInv, FormPages
<1>2. PICK a \in Filled(F) : mem' = Put(mem, a)
  BY DEF Refuse
<1>3. F \subseteq Fields
  BY DEF Forms, Fields
<1>4. mem' \in Sessions /\ saved' \in Sessions
  BY <1>1, <1>2, StateTyped, PutTyped DEF Filled
<1>5. want' \in Wants
  BY <1>1, StateTyped DEF Refuse, Put, Wants
<1>6. page' = i /\ refused' = refused \cup F /\ offered' = offered /\ UNCHANGED files
  BY DEF Refuse
<1>7. page \in Nat /\ page' <= page /\ page' \in 0..Done
  BY <1>1, <1>6, PageNumbers DEF FormPages
<1>8. TypeOK'
  <2>1. refused' \subseteq Fields
    BY <1>1, <1>3, <1>6 DEF TypeOK
  <2> QED
    BY <1>1, <1>4, <1>5, <1>6, <1>7, <2>1, TypeKept
<1>9. ASSUME NEW f \in refused'
      PROVE  \E k \in FormPages : page' <= k /\ f \in Asks(k)
  <2>1. CASE f \in F
    <3>1. f \in Asks(page)
      BY <1>1, <2>1, FormAsks
    <3> QED
      BY <1>1, <1>7, <3>1
  <2>2. CASE f \in refused
    <3>1. PICK k \in FormPages : page <= k /\ f \in Asks(k)
      BY <2>2 DEF IInv, RefusedAhead
    <3>2. k \in Nat /\ page' \in Nat
      BY <1>7, PageNumbers DEF FormPages
    <3> QED
      BY <1>7, <3>1, <3>2
  <2> QED
    BY <1>6, <2>1, <2>2
<1> QED
  BY <1>8, <1>9 DEF IInv, RefusedAhead, FormPages

\* Pages that are opened without a form: from step 1, the import page, and back.
LEMMA OpenIInv ==
    ASSUME IInv, NEW i \in 1..Review, NEW m \in Sessions, NEW s \in Sessions,
           NEW w \in Wants, Open(i, m, s, w), UNCHANGED <<offered, files, refused>>,
           i <= 3 \/ i < page
    PROVE  IInv'
<1>1. TypeOK
  BY DEF IInv
<1>2. /\ page' \in 1..Review
      /\ page' = 1 \/ page' = i \/ (i = 3 /\ page' = 4)
      /\ mem' \in Sessions /\ saved' \in Sessions /\ want' \in Wants
  BY <1>1, OpenTyped, StateTyped
<1>3. page \in Nat /\ page' \in Nat /\ page' \in 0..Done
  BY <1>1, <1>2, PageNumbers DEF TypeOK
<1>4. page' <= 4 \/ page' <= page
  BY <1>2, <1>3
<1>5. TypeOK'
  BY <1>1, <1>2, <1>3, TypeKept DEF TypeOK
<1>6. RefusedAhead'
  BY <1>3, <1>4, StillAhead
<1> QED
  BY <1>5, <1>6 DEF IInv

\* Apply: no refused form is behind the review page, so none is left.
LEMMA ApplyIInv ==
    ASSUME IInv, Apply
    PROVE  IInv' /\ refused = {}
<1>1. TypeOK /\ page = 15
  BY PageNumbers DEF IInv, Apply, ApplyUpTo
<1>2. refused = {}
  <2>1. \A i \in FormPages : ~(15 <= i)
    BY PageNumbers DEF FormPages
  <2> QED
    BY <1>1, <2>1 DEF IInv, RefusedAhead
<1>3. Written \in [Stores -> Sessions]
  <2>1. mem \in Sessions /\ store["api"] \in Sessions /\ Blank \in Answers
    BY <1>1, StateTyped DEF TypeOK, Stores, Sessions, Answers
  <2>2. ApiWritten \in Sessions
    BY <2>1 DEF ApiWritten, Sessions
  <2>3. BrandWritten \in Sessions
    BY <2>1 DEF BrandWritten, Sessions
  <2>4. StackWritten \in Sessions
    BY <2>1 DEF StackWritten, Sessions
  <2> QED
    BY <2>2, <2>3, <2>4 DEF Written, Stores
<1>4. PICK S \in SUBSET Stores : ApplyUpTo(S)
  BY DEF Apply
<1>5. store' \in [Stores -> Sessions]
  BY <1>1, <1>3, <1>4 DEF ApplyUpTo, TypeOK, Sessions
<1>6. TypeOK'
  <2>1. page' \in Login..Done
    BY <1>1, <1>4, PageNumbers DEF ApplyUpTo
  <2>2. saved' \in Sessions
    BY <1>1, <1>4, StateTyped DEF ApplyUpTo
  <2>3. {configured', here', paired'} \subseteq BOOLEAN
    BY <1>1, <1>4 DEF ApplyUpTo, TypeOK
  <2>4. UNCHANGED <<offered, mem, want, refused>>
    BY <1>4 DEF ApplyUpTo
  <2> QED
    BY <1>1, <1>5, <2>1, <2>2, <2>3, <2>4 DEF TypeOK, Sessions
<1> QED
  BY <1>2, <1>4, <1>6 DEF IInv, RefusedAhead, ApplyUpTo

\* The service's steps: a restart stays on the page, the others go back to its start.
LEMMA ServiceIInv ==
    ASSUME IInv, Again \/ Restart \/ NewSession \/ CleanUp
    PROVE  IInv'
<1>1. TypeOK /\ page \in Nat /\ page \in 0..Done /\ 1 \in 0..Done /\ 0 \in 0..Done /\ Login = 0
  BY PageNumbers DEF IInv, TypeOK
<1>2. mem \in Sessions /\ saved \in Sessions /\ want \in Wants /\ refused \subseteq Fields
  BY <1>1, StateTyped DEF TypeOK
<1>3. Nothing \in Sessions /\ Restored(saved) \in Sessions
  BY <1>2 DEF Nothing, Restored, Sessions, Answers
<1>4. CASE Again
  BY <1>1, <1>2, <1>4, TypeKept, StillAhead DEF Again, IInv, files
<1>5. CASE Restart
  BY <1>1, <1>2, <1>5, TypeKept, StillAhead DEF Restart, IInv, files
<1>6. CASE NewSession
  <2>1. want' \in Wants
    BY <1>2, <1>6 DEF NewSession, Wants
  <2> QED
    BY <1>1, <1>2, <1>3, <1>6, <2>1, TypeKept, StillAhead DEF NewSession, IInv, files
<1>7. CASE CleanUp
  <2>1. want' \in Wants
    BY <1>2, <1>7 DEF CleanUp, Wants
  <2> QED
    BY <1>1, <1>2, <1>3, <1>7, <2>1, TypeKept, StillAhead DEF CleanUp, IInv, files
<1> QED
  BY <1>4, <1>5, <1>6, <1>7

\* Every step keeps the invariant.
LEMMA NextIInv == IInv /\ [Next]_vars => IInv'
<1> SUFFICES ASSUME IInv, [Next]_vars PROVE IInv'
  OBVIOUS
<1>1. TypeOK /\ page \in Nat /\ mem \in Sessions /\ saved \in Sessions /\ want \in Wants
  BY StateTyped, PageNumbers DEF IInv, TypeOK
<1>2. {"eula", "columns", "units", "webcam", "features", "marine", "db", "station", "providers",
       "branding", "privacy", "tls"} \subseteq DOMAIN Forms
  BY DEF Forms
<1>3. /\ {"db"} \subseteq Forms["db"] /\ {"name"} \subseteq Forms["station"]
      /\ {"providers"} \subseteq Forms["providers"] /\ {"title"} \subseteq Forms["branding"]
      /\ {"analytics", "regions"} \subseteq Forms["privacy"] /\ {"tls"} \subseteq Forms["tls"]
      /\ {"locations"} \subseteq Forms["marine"]
  BY DEF Forms
<1>4. CASE Connect
  <2>1. \/ Open(2, mem, mem, want) \/ Open(2, CurrentOf(mem), CurrentOf(mem), want)
        \/ Open(2, mem, mem, Untold)
    BY <1>4 DEF Connect
  <2>2. CurrentOf(mem) \in Sessions
    BY <1>1, FromCurrentTyped DEF FromCurrent
  <2>3. Untold \in Wants
    BY <1>1 DEF Untold, Wants
  <2>4. offered' = offered /\ UNCHANGED files /\ refused' = refused
    BY <1>4 DEF Connect
  <2> QED
    BY <1>1, <2>1, <2>2, <2>3, <2>4, OpenIInv, PageNumbers
<1>5. CASE Import
  <2>1. PICK m \in Asked("units", mem) : Open(3, m, m, want)
    BY <1>5 DEF Import
  <2>2. m \in Sessions
    BY <1>1, AskedTyped DEF Fields
  <2> QED
    BY <1>1, <1>5, <2>1, <2>2, OpenIInv, PageNumbers DEF Import
<1>6. CASE EulaPost \/ ColumnsPost \/ UnitsPost \/ WebcamPost \/ FeaturesPost
  BY <1>2, <1>6, AcceptIInv DEF EulaPost, ColumnsPost, UnitsPost, WebcamPost, FeaturesPost
<1>7. CASE DbPost
  BY <1>2, <1>3, <1>7, AcceptIInv, RefuseIInv DEF DbPost
<1>8. CASE StationPost
  BY <1>2, <1>3, <1>8, AcceptIInv, RefuseIInv DEF StationPost
<1>9. CASE ProvidersPost
  BY <1>2, <1>3, <1>9, AcceptIInv, RefuseIInv DEF ProvidersPost
<1>10. CASE BrandingPost
  BY <1>2, <1>3, <1>10, AcceptIInv, RefuseIInv DEF BrandingPost
<1>11. CASE PrivacyPost
  BY <1>2, <1>3, <1>11, AcceptIInv, RefuseIInv DEF PrivacyPost
<1>12. CASE TlsPost \/ MarinePost
  BY <1>2, <1>3, <1>12, AcceptIInv, RefuseIInv DEF TlsPost, MarinePost
<1>13. CASE Back
  <2>1. PICK i \in 1..(page - 1) : Open(i, mem, saved, want)
    BY <1>13 DEF Back
  <2>2. i \in 1..Review /\ i < page
    BY <1>13, <2>1, PageNumbers DEF Back
  <2> QED
    BY <1>1, <1>13, <2>1, <2>2, OpenIInv DEF Back
<1>14. CASE Apply
  BY <1>14, ApplyIInv
<1>15. CASE Again \/ Restart \/ NewSession \/ CleanUp
  BY <1>15, ServiceIInv
<1>16. CASE UNCHANGED vars
  BY <1>16 DEF vars, files, IInv, TypeOK, RefusedAhead, FormPages
<1> QED
  BY <1>4, <1>5, <1>6, <1>7, <1>8, <1>9, <1>10, <1>11, <1>12, <1>13, <1>14, <1>15, <1>16 DEF Next

-----------------------------------------------------------------------------
(* Theorems.                                                               *)

LEMMA AlwaysIInv == Spec => []IInv
<1> QED
  BY InitIInv, NextIInv, PTL DEF Spec

\* Whatever pages, refused forms, failed requests and restarts there are, the session,
\* its progress file and the stores hold a value or the default in each field
\* (wizard/state.py, wizard/state_persistence.py).
THEOREM FieldsTypeCorrect == Spec => []TypeOK
<1>1. IInv => TypeOK
  BY DEF IInv
<1> QED
  BY <1>1, AlwaysIInv, PTL

\* Only Apply writes the stores, and when it does no field holds what a refused form
\* left: that form's page would still be ahead (the error returns of the step handlers).
THEOREM RefusedNeverApplied == Spec => AppliedAccepted
<1>1. IInv /\ [Next]_vars => [store' # store => refused = {}]_vars
  <2> SUFFICES ASSUME IInv, Next, store' # store PROVE refused = {}
    BY DEF vars, files
  <2>1. CASE Apply
    BY <2>1, ApplyIInv
  <2>2. CASE ~Apply
    BY <2>2 DEF Next, files, Connect, Import, EulaPost, DbPost, ColumnsPost, UnitsPost, StationPost,
             ProvidersPost, WebcamPost, BrandingPost, PrivacyPost, FeaturesPost, MarinePost, TlsPost,
             Back, Again, Restart, NewSession, CleanUp, Accept, Refuse
  <2> QED
    BY <2>1, <2>2
<1> QED
  BY <1>1, AlwaysIInv, PTL DEF Spec, AppliedAccepted

-----------------------------------------------------------------------------
(* Answers are kept.                                                       *)

\* Session m holds the answer to field f, if there is one.
Holds(w, m, f) == w[f] \in Values => m[f] = w[f]

\* Every store that keeps field f has the answer, and can be read back.
InFiles(w, f) ==
    /\ here /\ f \in FileFields
    /\ f \in {"db", "mapping", "providers"} => ApiConfHere
    /\ \A s \in Stores : f \in KeptBy[s] => store[s][f] = w[f]

\* A missing answer is in the files of an earlier run.
Due(w, m, f) == w[f] \in Values => m[f] = w[f] \/ (m[f] = Blank /\ InFiles(w, f))

\* Where an answer is missing, the page's whole form is blank, so that it looks in the files.
Together(p, w, m) ==
    \A f, g \in Forms[p] : w[f] \in Values /\ m[f] = Blank => m[g] = Blank

\* Page p can show the answers.
Ready(p, w, m) ==
    /\ \A f \in Forms[p] : Due(w, m, f)
    /\ p # "station" => Together(p, w, m)

\* Pages with nothing in R on them are ready.
AllReady(R, w, m) == \A p \in DOMAIN Forms : Forms[p] \cap R = {} => Ready(p, w, m)

\* The fields of the pages before page i; the agreement's page may be skipped.
Before(i) == {f \in Fields : f = "eula" \/ \E k \in 1..Review : k < i /\ f \in Asks(k)}

HeldBehind == \A f \in Before(page) : Holds(want, mem, f) /\ Holds(want, saved, f)

BrandOnly == \A f \in Fields \ BrandFields : store["brand"][f] = Blank

\* Before step 1 has asked the API, what only the API keeps may be missing in session m ...
Owed(i, w, m) ==
    [f \in Fields |-> IF i <= 1 /\ f \in ApiOnly /\ m[f] = Blank THEN NoAnswer ELSE w[f]]

\* ... if the API does keep it.
OwedByApi(m) ==
    page <= 1 => \A f \in ApiOnly : Holds(want, m, f) \/ (m[f] = Blank /\ AtApi(f))

RefusedUnwanted == \A f \in refused : want[f] \notin Values

ApiNew == ~configured => \A f \in Fields : store["api"][f] = Blank

AInv ==
    /\ HeldBehind /\ BrandOnly /\ RefusedUnwanted /\ ApiNew
    /\ \A m \in {mem, saved} : AllReady(refused, Owed(page, want, m), m) /\ OwedByApi(m)

-----------------------------------------------------------------------------
(* Pages and fields.                                                       *)

\* What is known of a value and of a blank.
LEMMA BlankOrValue == Blank \notin Values /\ NoAnswer \notin Values
BY BlankIsNoValue DEF Answers

\* Every field is asked on one form.
LEMMA FormsApart ==
    /\ \A p \in DOMAIN Forms : Forms[p] \subseteq Fields /\ Forms[p] # {}
    /\ \A p, q \in DOMAIN Forms : p # q => Forms[p] \cap Forms[q] = {}
BY DEF Forms, Fields

\* Before the review page every field has been asked; step 1, the import page, the
\* review page and what comes after it ask nothing.
LEMMA FieldsAsked ==
    /\ \A f \in Fields : \E i \in 1..Review : i < Review /\ f \in Asks(i)
    /\ Asks(1) = {} /\ Asks(2) = {} /\ Asks(Review) = {} /\ Asks(Done) = {}
    /\ Asks(3) = {"eula"}
BY DEF Fields, Asks, Forms, Pages, Review, Done

\* branding.json has all of a form that has several fields, or none of it, but the
\* station's.
LEMMA BrandForms ==
    /\ \A p \in DOMAIN Forms : p # "station" =>
         Forms[p] \subseteq BrandFields \/ Forms[p] \cap BrandFields = {}
    /\ Forms["station"] = {"name", "about"} /\ "about" \in BrandFields /\ "name" \notin BrandFields
    /\ "station" \in DOMAIN Forms
BY DEF Forms, BrandFields

\* The API's fields are on forms of their own, but for the station's name.
LEMMA CurrentForms ==
    /\ \A p \in DOMAIN Forms : p # "station" =>
         Forms[p] \cap CurrentFields = {} \/ \A f, g \in Forms[p] : f = g
    /\ CurrentFields \subseteq ApiFields
BY DEF Forms, CurrentFields, ApiFields

LEMMA ApiOnlyForms ==
    /\ ApiOnly \subseteq CurrentFields /\ ApiOnly \cap FileFields = {} /\ ApiOnly \subseteq Fields
    /\ ApiOnly \cap PriorFields = {} /\ "eula" \notin ApiOnly
    /\ \A f \in ApiOnly : \E p \in DOMAIN Forms : Forms[p] = {f}
    /\ \A p \in DOMAIN Forms : \A f \in Forms[p] \cap ApiOnly : Forms[p] = {f}
BY DEF ApiOnly, CurrentFields, ApiFields, FileFields, PriorFields, Fields, Forms

LEMMA StoresOfFields ==
    /\ "api" \in Stores /\ "stack" \in Stores /\ "brand" \in Stores
    /\ KeptBy["api"] = ApiFields /\ KeptBy["stack"] = StackFields /\ KeptBy["brand"] = BrandFields
    /\ \A s \in Stores : KeptBy[s] \subseteq Fields
    /\ FileFields \subseteq StackFields \cup BrandFields \cup {"db", "mapping", "providers"}
    /\ {"db", "mapping", "providers"} \cap StackFields = {}
    /\ {"db", "mapping", "providers"} \cap BrandFields = {}
    /\ {"db", "mapping", "providers"} \subseteq ApiFields
    /\ FileFields \subseteq Fields
BY DEF Stores, KeptBy, FileFields, StackFields, BrandFields, ApiFields, Fields

-----------------------------------------------------------------------------
(* What opening a page does to a session.                                  *)

\* Only blank fields are filled.
Keeps(m, n) == \A f \in Fields : m[f] # Blank => n[f] = m[f]

LEMMA FillKeeps ==
    ASSUME NEW m \in Sessions, NEW F, NEW src
    PROVE  Keeps(m, Fill(m, F, src))
BY DEF Keeps, Fill

LEMMA LookedKeeps ==
    ASSUME NEW m \in Sessions, NEW F
    PROVE  Keeps(m, Looked(F, m))
BY FillKeeps DEF Looked, FromFiles, Keeps

LEMMA AskedKeeps ==
    ASSUME NEW m \in Sessions, NEW f \in Fields, NEW n \in Asked(f, m)
    PROVE  Keeps(m, n) /\ \A g \in Fields \ {f} : n[g] = m[g]
BY DEF Asked, Keeps, Sessions

LEMMA FromCurrentKeeps ==
    ASSUME NEW m \in Sessions, NEW n \in FromCurrent(m)
    PROVE  Keeps(m, n)
BY FillKeeps DEF FromCurrent, CurrentOf, Keeps

\* A page other than the station's keeps what is there.
LEMMA OpenedKeeps ==
    ASSUME TypeOK, NEW m \in Sessions, NEW p, p # "station", NEW n \in Opened(p, m)
    PROVE  Keeps(m, n)
<1>1. Keeps(m, m)
  BY DEF Keeps
<1>2. \A F : Keeps(m, Looked(F, m)) /\ Looked(F, m) \in Sessions
  BY LookedKeeps, LookedTyped
<1>3. ASSUME n \in DbGet(m) PROVE Keeps(m, n)
  <2>1. n \in Asked("db", Looked({"db"}, m)) /\ "db" \in Fields
    BY <1>3 DEF DbGet, Fields
  <2>2. Keeps(Looked({"db"}, m), n)
    BY <1>2, <2>1, AskedKeeps
  <2> QED
    BY <1>2, <2>2 DEF Keeps
<1>4. ASSUME n \in MarineGet(m) PROVE Keeps(m, n)
  BY <1>1, <1>4, FromCurrentKeeps DEF MarineGet
<1> QED
  BY <1>1, <1>2, <1>3, <1>4 DEF Opened, EulaGet, ColumnsGet, UnitsGet, ProvidersGet, WebcamGet,
     BrandingGet, PrivacyGet, FeaturesGet, TlsGet, ReviewGet

-----------------------------------------------------------------------------
(* Answers come back from the files.                                       *)

LEMMA ExistingShows ==
    ASSUME TypeOK, BrandOnly, NEW w \in Wants, NEW f \in Fields, w[f] \in Values, InFiles(w, f)
    PROVE  Existing[f] = w[f]
<1>1. w[f] # Blank
  BY BlankOrValue
<1>2. /\ f \in ApiFields => store["api"][f] = w[f]
      /\ f \in StackFields => store["stack"][f] = w[f]
      /\ f \in BrandFields => store["brand"][f] = w[f]
      /\ f \notin BrandFields => store["brand"][f] = Blank
  BY StoresOfFields DEF InFiles, BrandOnly
<1>3. CASE f \in BrandFields
  BY <1>1, <1>2, <1>3 DEF Existing, OverBranding
<1>4. CASE f \notin BrandFields
  <2>1. FromStackConf(f) = w[f]
    BY <1>2, <1>4, StoresOfFields DEF InFiles, FromStackConf, FromApiConf
  <2> QED
    BY <1>2, <1>4, <2>1 DEF Existing, OverBranding
<1> QED
  BY <1>3, <1>4

\* A form that is filled in has all its answers; one that was looked for has, too.
LEMMA LookedReady ==
    ASSUME TypeOK, BrandOnly, NEW w \in Wants, NEW m \in Sessions, NEW R, NEW F,
           AllReady(R, w, m)
    PROVE  AllReady(R, w, Looked(F, m))
<1>1. CASE ~here \/ Looked(F, m) = m
  BY <1>1 DEF Looked, FromFiles
<1>2. CASE here /\ Looked(F, m) # m
  <2>1. Looked(F, m) = Fill(m, FileFields, Existing)
    BY <1>2 DEF Looked, FromFiles
  <2>2. ASSUME NEW p \in DOMAIN Forms, Forms[p] \cap R = {}, NEW f \in Forms[p], w[f] \in Values
        PROVE  Looked(F, m)[f] = w[f]
    <3>1. f \in Fields
      BY <2>2, FormsApart
    <3>2. m[f] = w[f] \/ (m[f] = Blank /\ InFiles(w, f))
      BY <2>2 DEF AllReady, Ready, Due
    <3> QED
      BY <2>1, <2>2, <3>1, <3>2, ExistingShows, BlankOrValue DEF Fill, InFiles
  <2> QED
    BY <2>2, BlankOrValue DEF AllReady, Ready, Due, Together
<1> QED
  BY <1>1, <1>2

LEMMA LookedShows ==
    ASSUME TypeOK, BrandOnly, NEW w \in Wants, NEW m \in Sessions, NEW R, AllReady(R, w, m),
           NEW p \in DOMAIN Forms, Forms[p] \cap R = {}, p # "station"
    PROVE  \A f \in Forms[p] : Holds(w, Looked(Forms[p], m), f)
<1> SUFFICES ASSUME NEW f \in Forms[p], w[f] \in Values
             PROVE  Looked(Forms[p], m)[f] = w[f]
  BY DEF Holds
<1>1. f \in Fields /\ w[f] # Blank
  BY FormsApart, BlankOrValue
<1>2. m[f] = w[f] \/ (m[f] = Blank /\ InFiles(w, f))
  BY DEF AllReady, Ready, Due
<1>3. m[f] = Blank => \A g \in Forms[p] : m[g] = Blank
  BY DEF AllReady, Ready, Together
<1>4. CASE m[f] = w[f]
  BY <1>1, <1>4, LookedKeeps DEF Keeps
<1>5. CASE m[f] = Blank /\ InFiles(w, f)
  <2>1. Looked(Forms[p], m) = Fill(m, FileFields, Existing)
    BY <1>3, <1>5 DEF Looked, FromFiles, InFiles
  <2> QED
    BY <1>1, <1>5, <2>1, ExistingShows DEF Fill, InFiles
<1> QED
  BY <1>2, <1>4, <1>5

\* The API's current configuration brings answers, and only answers.
LEMMA FromCurrentReady ==
    ASSUME TypeOK, NEW w \in Wants, NEW m \in Sessions, NEW n \in FromCurrent(m), NEW R,
           AllReady(R, w, m)
    PROVE  AllReady(R, w, n)
<1>1. CASE n = m
  BY <1>1
<1>2. CASE n = Fill(m, CurrentFields, store["api"])
  <2> SUFFICES ASSUME NEW p \in DOMAIN Forms, Forms[p] \cap R = {}
               PROVE  Ready(p, w, n)
    BY DEF AllReady
  <2>1. Ready(p, w, m) /\ Forms[p] \subseteq Fields
    BY FormsApart DEF AllReady
  <2>2. \A f \in Forms[p] : w[f] \in Values => m[f] = w[f] \/ (m[f] = Blank /\ InFiles(w, f))
    BY <2>1 DEF Ready, Due
  <2>3. \A f \in Forms[p] : f \in CurrentFields /\ InFiles(w, f) => store["api"][f] = w[f]
    BY CurrentForms, StoresOfFields DEF InFiles
  <2>4. \A f \in Forms[p] : n[f] = IF f \in CurrentFields /\ m[f] = Blank THEN store["api"][f] ELSE m[f]
    BY <1>2, <2>1 DEF Fill
  <2>5. \A f \in Forms[p] : Due(w, n, f)
    BY <2>2, <2>3, <2>4, BlankOrValue DEF Due
  <2>6. ASSUME p # "station" PROVE Together(p, w, n)
    <3>1. CASE Forms[p] \cap CurrentFields = {}
      BY <2>1, <2>4, <2>6, <3>1 DEF Ready, Together
    <3>2. CASE \A f, g \in Forms[p] : f = g
      BY <3>2 DEF Together
    <3> QED
      BY <2>6, <3>1, <3>2, CurrentForms
  <2> QED
    BY <2>5, <2>6 DEF Ready
<1> QED
  BY <1>1, <1>2 DEF FromCurrent, CurrentOf

-----------------------------------------------------------------------------
(* Opening a page keeps answers and shows them.                            *)

\* A field that is asked of weewx.conf has no answer that could be lost.
LEMMA AskedReady ==
    ASSUME NEW w \in Wants, NEW m \in Sessions, NEW R, AllReady(R, w, m),
           NEW f \in {"db", "name", "units"}, NEW n \in Asked(f, m),
           \A p \in DOMAIN Forms : f \in Forms[p] /\ Forms[p] \cap R = {} => Holds(w, m, f)
    PROVE  AllReady(R, w, n) /\ (Holds(w, m, f) => Holds(w, n, f))
<1>1. f \in Fields /\ \A g \in Fields \ {f} : n[g] = m[g]
  BY AskedKeeps DEF Fields
<1>2. Holds(w, m, f) => Holds(w, n, f)
  BY <1>1, AskedKeeps, BlankOrValue DEF Holds, Keeps
<1>3. ASSUME NEW p \in DOMAIN Forms, Forms[p] \cap R = {}
      PROVE  Ready(p, w, n)
  <2>1. Ready(p, w, m) /\ Forms[p] \subseteq Fields
    BY <1>3, FormsApart DEF AllReady
  <2>2. CASE f \in Forms[p]
    <3>1. Holds(w, n, f)
      BY <1>2, <1>3, <2>2
    <3>2. \A g \in Forms[p] : Due(w, n, g)
      BY <1>1, <2>1, <3>1 DEF Ready, Due, Holds
    <3>3. p # "station" => Forms[p] = {f}
      BY <2>2 DEF Forms
    <3>4. p # "station" => Together(p, w, n)
      BY <3>1, <3>3, BlankOrValue DEF Together, Holds
    <3> QED
      BY <3>2, <3>4 DEF Ready
  <2>3. CASE f \notin Forms[p]
    BY <1>1, <2>1, <2>3 DEF Ready, Due, Together
  <2> QED
    BY <2>2, <2>3
<1> QED
  BY <1>2, <1>3 DEF AllReady

\* An answer that is not in the files is not missing.
LEMMA NotInFiles ==
    ASSUME NEW w, NEW m, NEW R, AllReady(R, w, m), NEW p \in DOMAIN Forms, Forms[p] \cap R = {},
           NEW f \in Forms[p], f \notin FileFields
    PROVE  Holds(w, m, f)
BY DEF AllReady, Ready, Due, InFiles, Holds

\* The pages but the station's.
LEMMA OpenedReady ==
    ASSUME TypeOK, BrandOnly, NEW w \in Wants, NEW m \in Sessions, NEW R, AllReady(R, w, m),
           NEW p, p # "station", NEW n \in Opened(p, m)
    PROVE  /\ AllReady(R, w, n)
           /\ p \in DOMAIN Forms /\ Forms[p] \cap R = {} => \A f \in Forms[p] : Holds(w, n, f)
<1>1. \A F : AllReady(R, w, Looked(F, m)) /\ Looked(F, m) \in Sessions
  BY LookedReady, LookedTyped
<1>2. p \in DOMAIN Forms /\ Forms[p] \cap R = {} => \A f \in Forms[p] : Holds(w, Looked(Forms[p], m), f)
  BY LookedShows
<1>3. CASE p = "db"
  <2>1. n \in Asked("db", Looked({"db"}, m)) /\ Forms["db"] = {"db"} /\ "db" \in DOMAIN Forms
    BY <1>3 DEF Opened, DbGet, Forms
  <2>2. \A q \in DOMAIN Forms : "db" \in Forms[q] /\ Forms[q] \cap R = {} => Holds(w, Looked({"db"}, m), "db")
    BY <1>2, <1>3, <2>1, FormsApart
  <2>3. AllReady(R, w, n) /\ (Holds(w, Looked({"db"}, m), "db") => Holds(w, n, "db"))
    BY <1>1, <2>1, <2>2, AskedReady
  <2> QED
    BY <1>2, <1>3, <2>1, <2>3
<1>4. CASE p = "marine"
  <2>1. n = m \/ n \in FromCurrent(m)
    BY <1>4 DEF Opened, MarineGet
  <2>2. AllReady(R, w, n)
    BY <2>1, FromCurrentReady
  <2>3. Forms["marine"] = {"locations"} /\ "locations" \notin FileFields
    BY DEF Forms, FileFields
  <2> QED
    BY <1>4, <2>2, <2>3, NotInFiles
<1>5. CASE p = "review"
  BY <1>1, <1>5 DEF Opened, ReviewGet, Forms
<1>6. CASE p \notin DOMAIN Forms /\ p # "review"
  BY <1>6 DEF Opened, Forms
<1>7. CASE p \in DOMAIN Forms \ {"db", "marine", "station"}
  <2>1. n = Looked(Forms[p], m)
    BY <1>7 DEF Opened, Forms, EulaGet, ColumnsGet, UnitsGet, ProvidersGet, WebcamGet,
       BrandingGet, PrivacyGet, FeaturesGet, TlsGet
  <2> QED
    BY <1>1, <1>2, <2>1
<1> QED
  BY <1>3, <1>4, <1>5, <1>6, <1>7

\* The station's page asks for its name, and branding.json for the rest.
LEMMA StationAsks ==
    ASSUME TypeOK, BrandOnly, NEW w \in Wants, NEW m \in Sessions, NEW R, AllReady(R, w, m),
           NEW a \in Asked("name", Looked({"name"}, m))
    PROVE  /\ AllReady(R, w, a) /\ Keeps(m, a)
           /\ Forms["station"] \cap R = {} => Holds(w, a, "name")
<1> DEFINE l == Looked({"name"}, m)
<1>1. AllReady(R, w, l) /\ l \in Sessions /\ Keeps(m, l) /\ "name" \in Fields
  BY LookedReady, LookedTyped, LookedKeeps DEF Fields
<1>2. ASSUME Forms["station"] \cap R = {} PROVE Holds(w, l, "name")
  <2> SUFFICES ASSUME w["name"] \in Values PROVE l["name"] = w["name"]
    BY DEF Holds
  <2>1. m["name"] = w["name"] \/ (m["name"] = Blank /\ InFiles(w, "name"))
    BY <1>2, BrandForms DEF AllReady, Ready, Due
  <2>2. CASE m["name"] = w["name"]
    BY <1>1, <2>2, BlankOrValue DEF Keeps
  <2>3. CASE m["name"] = Blank /\ InFiles(w, "name")
    <3>1. l = Fill(m, FileFields, Existing)
      BY <2>3 DEF Looked, FromFiles, InFiles
    <3> QED
      BY <1>1, <2>3, <3>1, ExistingShows DEF Fill, InFiles
  <2> QED
    BY <2>1, <2>2, <2>3
<1>3. \A p \in DOMAIN Forms : "name" \in Forms[p] /\ Forms[p] \cap R = {} => Holds(w, l, "name")
  BY <1>2, BrandForms, FormsApart
<1>4. AllReady(R, w, a) /\ (Holds(w, l, "name") => Holds(w, a, "name"))
  <2> HIDE DEF l
  <2>1. a \in Asked("name", l)
    BY DEF l
  <2> QED
    BY <1>1, <1>3, <2>1, AskedReady
<1>5. Keeps(m, a)
  <2>1. Keeps(l, a)
    BY <1>1, AskedKeeps
  <2> QED
    BY <1>1, <2>1 DEF Keeps
<1> QED
  BY <1>2, <1>4, <1>5

LEMMA StationReady ==
    ASSUME TypeOK, BrandOnly, NEW w \in Wants, NEW m \in Sessions, NEW R, AllReady(R, w, m),
           NEW n \in StationGet(m)
    PROVE  /\ AllReady(R, Kept(w, m, n), n)
           /\ Forms["station"] \cap R = {} => \A f \in Forms["station"] : Holds(Kept(w, m, n), n, f)
<1> DEFINE k == Kept(w, m, n)
<1>1. PICK a \in Asked("name", Looked({"name"}, m)) :
        n = IF a["about"] = Blank THEN OverBranding(a) ELSE a
  BY DEF StationGet
<1>2. /\ AllReady(R, w, a) /\ Keeps(m, a)
      /\ Forms["station"] \cap R = {} => Holds(w, a, "name")
  BY StationAsks
<1>3. \A f \in Fields : k[f] \in Values => k[f] = w[f] /\ (m[f] = Blank \/ n[f] = m[f])
  BY BlankOrValue DEF Kept
<1>4. ASSUME NEW p \in DOMAIN Forms, Forms[p] \cap R = {}, NEW f \in Forms[p], k[f] \in Values
      PROVE  /\ f \in Fields /\ w[f] = k[f] /\ w[f] # Blank
             /\ m[f] = w[f] \/ (m[f] = Blank /\ InFiles(w, f))
             /\ a[f] = w[f] \/ (a[f] = Blank /\ InFiles(w, f))
             /\ InFiles(w, f) => InFiles(k, f)
  <2>1. f \in Fields /\ w[f] = k[f] /\ w[f] # Blank
    BY <1>3, <1>4, FormsApart, BlankOrValue
  <2>2. Due(w, m, f) /\ Due(w, a, f)
    BY <1>2, <1>4 DEF AllReady, Ready
  <2> QED
    BY <1>4, <2>1, <2>2 DEF Due, InFiles
<1>5. CASE n = a /\ a["about"] # Blank
  <2>1. ASSUME NEW p \in DOMAIN Forms, Forms[p] \cap R = {} PROVE Ready(p, k, n)
    <3>1. \A f \in Forms[p] : Due(k, n, f)
      BY <1>4, <1>5, <2>1 DEF Due
    <3>2. p # "station" => Together(p, k, n)
      BY <1>2, <1>4, <1>5, <2>1 DEF Together, AllReady, Ready
    <3> QED
      BY <3>1, <3>2 DEF Ready
  <2>2. ASSUME Forms["station"] \cap R = {}, NEW f \in Forms["station"] PROVE Holds(k, n, f)
    <3>1. CASE f = "about"
      BY <1>4, <1>5, <2>2, <3>1, BrandForms DEF Holds
    <3>2. CASE f = "name"
      BY <1>2, <1>4, <1>5, <2>2, <3>2, BrandForms DEF Holds
    <3> QED
      BY <2>2, <3>1, <3>2, BrandForms
  <2> QED
    BY <2>1, <2>2 DEF AllReady
<1>6. CASE n = OverBranding(a) /\ a["about"] = Blank
  <2>1. \A f \in Fields : n[f] = IF store["brand"][f] # Blank THEN store["brand"][f] ELSE a[f]
    BY <1>6 DEF OverBranding
  <2>2. \A f \in Fields \ BrandFields : n[f] = a[f]
    BY <2>1 DEF BrandOnly
  <2>3. ASSUME NEW p \in DOMAIN Forms, Forms[p] \cap R = {}, NEW f \in Forms[p], k[f] \in Values,
               f \in BrandFields
        PROVE  n[f] = k[f]
    <3>1. CASE m[f] = w[f]
      BY <1>3, <1>4, <2>3, <3>1
    <3>2. CASE m[f] = Blank /\ InFiles(w, f)
      <4>1. store["brand"][f] = w[f]
        BY <2>3, <3>2, StoresOfFields DEF InFiles
      <4> QED
        BY <1>4, <2>1, <2>3, <4>1
    <3> QED
      BY <1>4, <2>3, <3>1, <3>2
  <2>4. ASSUME NEW p \in DOMAIN Forms, Forms[p] \cap R = {} PROVE Ready(p, k, n)
    <3>1. \A f \in Forms[p] : Due(k, n, f)
      BY <1>4, <2>2, <2>3, <2>4 DEF Due
    <3>2. ASSUME p # "station", Forms[p] \subseteq BrandFields PROVE Together(p, k, n)
      BY <1>4, <2>3, <2>4, <3>2 DEF Together
    <3>3. ASSUME p # "station", Forms[p] \cap BrandFields = {} PROVE Together(p, k, n)
      <4>1. \A f \in Forms[p] : f \in Fields /\ n[f] = a[f]
        BY <2>2, <3>3, FormsApart
      <4> QED
        BY <1>2, <1>4, <2>4, <3>3, <4>1 DEF Together, AllReady, Ready
    <3> QED
      BY <3>1, <3>2, <3>3, BrandForms DEF Ready
  <2>5. ASSUME Forms["station"] \cap R = {}, NEW f \in Forms["station"] PROVE Holds(k, n, f)
    <3>1. CASE f = "about"
      BY <2>3, <2>5, <3>1, BrandForms DEF Holds
    <3>2. CASE f = "name"
      <4>1. n["name"] = a["name"]
        BY <2>2, BrandForms DEF Fields
      <4> QED
        BY <1>2, <1>4, <2>5, <3>2, <4>1, BrandForms DEF Holds
    <3> QED
      BY <2>5, <3>1, <3>2, BrandForms
  <2> QED
    BY <2>4, <2>5 DEF AllReady
<1> QED
  BY <1>1, <1>5, <1>6

\* Answers that are forgotten are not missed.
Fewer(w, k) == \A f \in Fields : k[f] \in Values => k[f] = w[f]

LEMMA FewerReady ==
    ASSUME NEW w, NEW k, Fewer(w, k), NEW R, NEW m, AllReady(R, w, m)
    PROVE  AllReady(R, k, m)
<1> SUFFICES ASSUME NEW p \in DOMAIN Forms, Forms[p] \cap R = {}
             PROVE  Ready(p, k, m)
  BY DEF AllReady
<1>1. Ready(p, w, m) /\ \A f \in Forms[p] : k[f] \in Values => k[f] = w[f]
  BY FormsApart DEF AllReady, Fewer
<1>2. \A f \in Forms[p] : Due(k, m, f)
  BY <1>1 DEF Ready, Due, InFiles
<1>3. p # "station" => Together(p, k, m)
  BY <1>1 DEF Ready, Together
<1> QED
  BY <1>2, <1>3 DEF Ready

\* What Open leaves: the pages are as ready as before, and the one that comes up shows
\* its answers; answers that were held still are.
OpenGood(R, w, m, s) ==
    /\ Fewer(w, want')
    /\ AllReady(R, want', mem') /\ AllReady(R, want', saved')
    /\ Asks(page') \cap R = {} => \A f \in Asks(page') : Holds(want', mem', f)
    /\ \A f \in Fields : Holds(w, m, f) => Holds(want', mem', f)
    /\ \A f \in Fields : Holds(w, m, f) /\ Holds(w, s, f) => Holds(want', saved', f)

LEMMA KeepsHolds ==
    ASSUME NEW w, NEW m, NEW n, Keeps(m, n), NEW f \in Fields, Holds(w, m, f)
    PROVE  Holds(w, n, f)
BY BlankOrValue DEF Keeps, Holds

LEMMA OpenReady ==
    ASSUME TypeOK, BrandOnly, NEW w \in Wants, NEW m \in Sessions, NEW s \in Sessions, NEW R,
           AllReady(R, w, m), AllReady(R, w, s), NEW i \in 1..Review, Open(i, m, s, w)
    PROVE  OpenGood(R, w, m, s)
<1>1. PICK j : j = Landing(i, m)
  OBVIOUS
<1>2. PICK p : p = Pages[j]
  OBVIOUS
<1>3. \/ \E n \in Opened(p, m) :
           /\ page' = j
           /\ mem' = n
           /\ saved' \in {n, s} /\ (~MarineAsks(p, m) => saved' = s)
           /\ want' = IF p = "station" THEN Kept(w, m, n) ELSE w
      \/ /\ page' = 1
         /\ mem' = Looked(Fetches[p], m) /\ saved' = s /\ want' = w
  BY <1>1, <1>2 DEF Open
<1>4. CASE p # "station" /\ page' = j /\ want' = w
           /\ \E n \in Opened(p, m) : mem' = n /\ saved' \in {n, s}
  <2>1. PICK n \in Opened(p, m) : mem' = n /\ saved' \in {n, s}
    BY <1>4
  <2>2. AllReady(R, w, n) /\ Keeps(m, n)
        /\ (p \in DOMAIN Forms /\ Forms[p] \cap R = {} => \A f \in Forms[p] : Holds(w, n, f))
    BY <1>4, OpenedReady, OpenedKeeps
  <2>3. Asks(page') = IF p \in DOMAIN Forms THEN Forms[p] ELSE {}
    BY <1>2, <1>4 DEF Asks
  <2>4. \A f \in Fields : Holds(w, m, f) => Holds(w, n, f)
    BY <2>2, KeepsHolds
  <2>5. AllReady(R, want', mem') /\ AllReady(R, want', saved')
    BY <1>4, <2>1, <2>2
  <2>6. Asks(page') \cap R = {} => \A f \in Asks(page') : Holds(want', mem', f)
    BY <1>4, <2>1, <2>2, <2>3
  <2> QED
    BY <1>4, <2>1, <2>4, <2>5, <2>6 DEF OpenGood, Fewer
<1>5. CASE p = "station" /\ page' = j
           /\ \E n \in Opened(p, m) : mem' = n /\ saved' = s /\ want' = Kept(w, m, n)
  <2>1. PICK n \in StationGet(m) : mem' = n /\ saved' = s /\ want' = Kept(w, m, n)
    BY <1>5 DEF Opened
  <2>2. AllReady(R, Kept(w, m, n), n)
        /\ (Forms["station"] \cap R = {} => \A f \in Forms["station"] : Holds(Kept(w, m, n), n, f))
    BY StationReady
  <2>3. Asks(page') = Forms["station"]
    BY <1>2, <1>5, BrandForms DEF Asks
  <2>4. Fewer(w, Kept(w, m, n))
    BY BlankOrValue DEF Fewer, Kept
  <2>5. AllReady(R, Kept(w, m, n), s)
    BY <2>4, FewerReady
  <2>6. \A f \in Fields : Holds(w, m, f) => Holds(Kept(w, m, n), n, f)
    BY <2>4, BlankOrValue DEF Fewer, Kept, Holds
  <2>7. \A f \in Fields : Holds(w, s, f) => Holds(Kept(w, m, n), s, f)
    BY <2>4 DEF Fewer, Holds
  <2> QED
    BY <2>1, <2>2, <2>3, <2>4, <2>5, <2>6, <2>7 DEF OpenGood
<1>6. CASE page' = 1 /\ mem' = Looked(Fetches[p], m) /\ saved' = s /\ want' = w
  <2>1. PICK l : l = Looked(Fetches[p], m)
    OBVIOUS
  <2>2. AllReady(R, w, l) /\ Keeps(m, l)
    BY <2>1, LookedReady, LookedKeeps
  <2>3. \A f \in Fields : Holds(w, m, f) => Holds(w, l, f)
    BY <2>2, KeepsHolds
  <2> QED
    BY <1>6, <2>1, <2>2, <2>3, FieldsAsked DEF OpenGood, Fewer
<1>7. p = "station" => ~MarineAsks(p, m)
  BY DEF MarineAsks
<1> QED
  BY <1>3, <1>4, <1>5, <1>6, <1>7

-----------------------------------------------------------------------------
(* Every step keeps the answers, and shows those of the page that comes up. *)

\* What AnswersShown says of a step.
PageShows ==
    page' # page /\ page' # Login /\ refused' \cap Asks(page') = {}
        => \A f \in Asks(page') : Holds(want', mem', f)

Good == AInv' /\ PageShows

LEMMA BeforePages ==
    /\ \A i, k \in Nat : i <= k => Before(i) \subseteq Before(k)
    /\ Before(0) = {"eula"} /\ Before(1) = {"eula"} /\ Before(2) = {"eula"} /\ Before(3) = {"eula"}
    /\ Before(4) = {"eula"} /\ \A i \in Nat : "eula" \in Before(i) /\ Before(i) \subseteq Fields
    /\ Before(Review) = Fields /\ Before(Done) = Fields
<1>1. \A k \in 1..Review : k \in Nat /\ (k < 4 => k = 1 \/ k = 2 \/ k = 3)
  BY PageNumbers
<1>2. "eula" \in Fields
  BY DEF Fields
<1>3. \A i \in {0, 1, 2, 3, 4} : Before(i) = {"eula"}
  BY <1>1, <1>2, FieldsAsked DEF Before
<1>4. \A i, k \in Nat : i <= k => Before(i) \subseteq Before(k)
  BY <1>1 DEF Before
<1>5. Before(Review) = Fields /\ Before(Done) = Fields
  BY <1>1, FieldsAsked, PageNumbers DEF Before
<1> QED
  BY <1>2, <1>3, <1>4, <1>5 DEF Before

\* From step 2 on nothing is owed.
LEMMA NothingOwed ==
    ASSUME AInv, page \in Nat, page > 1
    PROVE  AllReady(refused, want, mem) /\ AllReady(refused, want, saved)
<1>1. ASSUME NEW m \in {mem, saved} PROVE AllReady(refused, want, m)
  <2>1. \A f \in Fields : Owed(page, want, m)[f] = want[f]
    BY DEF Owed
  <2>2. Fewer(Owed(page, want, m), want)
    BY <2>1 DEF Fewer
  <2>3. AllReady(refused, Owed(page, want, m), m)
    BY DEF AInv
  <2> QED
    BY <2>2, <2>3, FewerReady
<1> QED
  BY <1>1

\* Session m has all that only the API keeps, unless it was refused.
LEMMA ApiOnlyHeld ==
    ASSUME NEW w, NEW m, NEW R, AllReady(R, w, m), \A f \in R : w[f] \notin Values,
           NEW f \in ApiOnly
    PROVE  Holds(w, m, f)
<1>1. PICK p \in DOMAIN Forms : Forms[p] = {f}
  BY ApiOnlyForms
<1>2. CASE f \in R
  BY <1>2 DEF Holds
<1>3. CASE f \notin R
  BY <1>1, <1>3, ApiOnlyForms, NotInFiles
<1> QED
  BY <1>2, <1>3

\* The invariant's parts, for a step that leaves the files alone and promises no more
\* than sessions have.
LEMMA FilesStay ==
    ASSUME BrandOnly, ApiNew, UNCHANGED files, RefusedUnwanted',
           AllReady(refused', want', mem'), AllReady(refused', want', saved'),
           \A f \in Before(page') : Holds(want', mem', f) /\ Holds(want', saved', f)
    PROVE  AInv'
<1>1. store' = store /\ here' = here /\ configured' = configured
  BY DEF files
<1>2. BrandOnly' /\ ApiNew' /\ HeldBehind'
  BY <1>1 DEF BrandOnly, ApiNew, HeldBehind, Before, Holds
<1>3. ASSUME NEW m \in {mem', saved'}
      PROVE  /\ AllReady(refused', Owed(page', want', m), m)
             /\ \A f \in ApiOnly : Holds(want', m, f)
  <2>1. AllReady(refused', want', m)
    BY <1>3
  <2>2. Fewer(want', Owed(page', want', m))
    BY BlankOrValue DEF Fewer, Owed
  <2>3. \A f \in refused' : want'[f] \notin Values
    BY DEF RefusedUnwanted
  <2> QED
    BY <2>1, <2>2, <2>3, FewerReady, ApiOnlyHeld
<1>4. (\A m \in {mem, saved} : AllReady(refused, Owed(page, want, m), m))'
  BY <1>1, <1>3 DEF AllReady, Ready, Due, Together, InFiles, Owed
<1>5. (\A m \in {mem, saved} : OwedByApi(m))'
  BY <1>3 DEF OwedByApi, Holds
<1> QED
  BY <1>2, <1>4, <1>5 DEF AInv

\* And for one that goes back to step 1, or out.
LEMMA StartOver ==
    ASSUME BrandOnly, ApiNew, UNCHANGED files, RefusedUnwanted', page' \in {0, 1},
           \A m \in {mem', saved'} :
             /\ AllReady(refused', Owed(1, want', m), m) /\ Holds(want', m, "eula")
             /\ \A f \in ApiOnly : Holds(want', m, f) \/ (m[f] = Blank /\ store["api"][f] = want'[f])
    PROVE  AInv'
<1>1. store' = store /\ here' = here /\ configured' = configured
  BY DEF files
<1>2. Before(page') = {"eula"}
  BY BeforePages
<1>3. BrandOnly' /\ ApiNew' /\ HeldBehind'
  BY <1>1, <1>2 DEF BrandOnly, ApiNew, HeldBehind, Before, Holds
<1>4. \A m : Owed(page', want', m) = Owed(1, want', m)
  BY DEF Owed
<1>5. (\A m \in {mem, saved} : AllReady(refused, Owed(page, want, m), m))'
  BY <1>1, <1>4 DEF AllReady, Ready, Due, Together, InFiles, Owed
<1>6. (\A m \in {mem, saved} : OwedByApi(m))'
  BY <1>1 DEF OwedByApi, Holds, AtApi
<1> QED
  BY <1>3, <1>5, <1>6 DEF AInv

\* A page is opened with a session that has the answers of the pages before it.
LEMMA OpenGoodStep ==
    ASSUME TypeOK, BrandOnly, ApiNew, UNCHANGED files, NEW w \in Wants, NEW m \in Sessions,
           NEW s \in Sessions, AllReady(refused', w, m), AllReady(refused', w, s),
           refused' \subseteq Fields, \A f \in refused' : w[f] \notin Values,
           NEW i \in 1..Review, Open(i, m, s, w),
           \A f \in Before(i) : Holds(w, m, f) /\ Holds(w, s, f)
    PROVE  Good
<1>1. OpenGood(refused', w, m, s)
  <2>1. PICK R : R = refused'
    OBVIOUS
  <2>2. AllReady(R, w, m) /\ AllReady(R, w, s)
    BY <2>1
  <2>3. OpenGood(R, w, m, s)
    BY <2>2, OpenReady
  <2> QED
    BY <2>1, <2>3
<1>2. page' = 1 \/ page' = i \/ (i = 3 /\ page' = 4)
  BY OpenTyped
<1>3. Before(page') \subseteq Before(i) /\ Before(i) \subseteq Fields
  BY <1>2, BeforePages, PageNumbers
<1>4. \A f \in Before(page') : Holds(want', mem', f) /\ Holds(want', saved', f)
  BY <1>1, <1>3 DEF OpenGood
<1>5. RefusedUnwanted'
  BY <1>1 DEF RefusedUnwanted, OpenGood, Fewer
<1>6. AInv'
  BY <1>1, <1>4, <1>5, FilesStay DEF OpenGood
<1> QED
  BY <1>1, <1>6 DEF Good, PageShows, OpenGood

\* Step 1 has what the API has, or promises it no more.
LEMMA ConnectReady ==
    ASSUME IInv, AInv, Connect
    PROVE  \E m \in Sessions, w \in Wants :
             /\ Open(2, m, m, w) /\ AllReady(refused, w, m) /\ Keeps(mem, m) /\ Fewer(want, w)
<1>1. /\ TypeOK /\ mem \in Sessions /\ want \in Wants /\ page = 1
      /\ configured => paired
  BY StateTyped DEF IInv, Connect
<1>2. PICK o : o = Owed(1, want, mem)
  OBVIOUS
<1>3. o \in Wants /\ AllReady(refused, o, mem)
      /\ \A f \in Fields : o[f] = IF f \in ApiOnly /\ mem[f] = Blank THEN NoAnswer ELSE want[f]
  BY <1>1, <1>2 DEF AInv, Owed, Wants
<1>4. ASSUME NEW m, m = (IF paired THEN CurrentOf(mem) ELSE mem), Open(2, m, m, want)
      PROVE  m \in Sessions /\ AllReady(refused, want, m) /\ Keeps(mem, m)
  <2>1. m \in Sessions /\ Keeps(mem, m) /\ AllReady(refused, o, m)
    <3>1. CASE paired
      BY <1>1, <1>3, <1>4, <3>1, FromCurrentTyped, FromCurrentKeeps, FromCurrentReady DEF FromCurrent
    <3>2. CASE ~paired
      BY <1>1, <1>3, <1>4, <3>2 DEF Keeps
    <3> QED
      BY <3>1, <3>2
  <2>2. ASSUME NEW f \in ApiOnly PROVE Holds(want, m, f)
    <3>1. f \in Fields /\ f \in CurrentFields
      BY ApiOnlyForms
    <3>2. CASE Holds(want, mem, f)
      BY <2>1, <3>1, <3>2, KeepsHolds
    <3>3. CASE ~Holds(want, mem, f)
      <4>1. mem[f] = Blank /\ store["api"][f] = want[f] /\ want[f] \in Values
        BY <1>1, <3>3 DEF AInv, OwedByApi, AtApi, Holds
      <4>2. paired
        BY <1>1, <3>1, <4>1, BlankOrValue DEF AInv, ApiNew
      <4> QED
        BY <1>4, <3>1, <4>1, <4>2 DEF CurrentOf, Fill, Holds
    <3> QED
      BY <3>2, <3>3
  <2>3. ASSUME NEW p \in DOMAIN Forms, Forms[p] \cap refused = {}
        PROVE  Ready(p, want, m)
    <3>1. Ready(p, o, m) /\ Forms[p] \subseteq Fields
      BY <2>1, <2>3, FormsApart DEF AllReady
    <3>2. CASE Forms[p] \cap ApiOnly = {}
      <4>1. \A f \in Forms[p] : o[f] = want[f]
        BY <1>3, <3>1, <3>2
      <4> QED
        BY <3>1, <4>1 DEF Ready, Due, Together, InFiles
    <3>3. CASE Forms[p] \cap ApiOnly # {}
      <4>1. PICK f \in ApiOnly : Forms[p] = {f}
        BY <3>3, ApiOnlyForms
      <4> QED
        BY <2>2, <4>1 DEF Ready, Due, Together, Holds
    <3> QED
      BY <3>2, <3>3
  <2> QED
    BY <2>1, <2>3 DEF AllReady
<1>5. CASE Open(2, mem, mem, Untold)
  <2>1. Untold = o
    BY <1>2 DEF Untold, Owed
  <2> QED
    BY <1>1, <1>3, <1>5, <2>1, BlankOrValue DEF Keeps, Fewer
<1>6. CASE LET m == IF paired THEN CurrentOf(mem) ELSE mem IN Open(2, m, m, want)
  BY <1>1, <1>4, <1>6 DEF Fewer
<1> QED
  BY <1>5, <1>6 DEF Connect

LEMMA ConnectGood ==
    ASSUME IInv, AInv, Connect
    PROVE  Good
<1>1. PICK m \in Sessions, w \in Wants :
        /\ Open(2, m, m, w) /\ AllReady(refused, w, m) /\ Keeps(mem, m) /\ Fewer(want, w)
  BY ConnectReady
<1>2. TypeOK /\ refused' = refused /\ refused \subseteq Fields /\ UNCHANGED files
  BY DEF IInv, TypeOK, Connect
<1>3. \A f \in Before(2) : Holds(w, m, f)
  <2>1. Holds(want, mem, "eula") /\ "eula" \in Fields
    BY <1>2, BeforePages, PageNumbers DEF AInv, HeldBehind, TypeOK, Fields
  <2>2. Holds(want, m, "eula")
    BY <1>1, <2>1, KeepsHolds
  <2> QED
    BY <1>1, <2>1, <2>2, BeforePages DEF Holds, Fewer
<1>4. \A f \in refused' : w[f] \notin Values
  BY <1>1, <1>2 DEF AInv, RefusedUnwanted, Fewer
<1> QED
  BY <1>1, <1>2, <1>3, <1>4, OpenGoodStep, PageNumbers DEF AInv

LEMMA ImportGood ==
    ASSUME IInv, AInv, Import
    PROVE  Good
<1>1. PICK m \in Asked("units", mem) : Open(3, m, m, want)
  BY DEF Import
<1>2. /\ TypeOK /\ mem \in Sessions /\ want \in Wants /\ refused' = refused /\ UNCHANGED files
      /\ "units" \in Fields /\ "units" \notin FileFields /\ refused \subseteq Fields
      /\ AllReady(refused, want, mem)
  BY StateTyped, NothingOwed DEF IInv, Import, TypeOK, Fields, FileFields
<1>3. \A p \in DOMAIN Forms : "units" \in Forms[p] /\ Forms[p] \cap refused = {} => Holds(want, mem, "units")
  BY <1>2, NotInFiles
<1>4. m \in Sessions /\ AllReady(refused', want, m)
  BY <1>2, <1>3, AskedTyped, AskedReady
<1>5. Holds(want, m, "eula")
  <2>1. Keeps(mem, m)
    BY <1>2, AskedKeeps
  <2>2. Holds(want, mem, "eula") /\ "eula" \in Fields
    BY <1>2, BeforePages, PageNumbers DEF AInv, HeldBehind, TypeOK, Fields
  <2> QED
    BY <2>1, <2>2, KeepsHolds
<1>6. \A f \in Before(3) : Holds(want, m, f)
  BY <1>5, BeforePages
<1> QED
  BY <1>1, <1>2, <1>4, <1>6, OpenGoodStep, PageNumbers DEF AInv, RefusedUnwanted

LEMMA BackGood ==
    ASSUME IInv, AInv, Back
    PROVE  Good
<1>1. PICK i \in 1..(page - 1) : Open(i, mem, saved, want)
  BY DEF Back
<1>2. /\ TypeOK /\ mem \in Sessions /\ saved \in Sessions /\ want \in Wants /\ refused' = refused
      /\ UNCHANGED files /\ refused \subseteq Fields
  BY StateTyped DEF IInv, Back, TypeOK
<1>3. i \in 1..Review /\ i \in Nat /\ page \in Nat /\ i <= page
  BY <1>1, PageNumbers DEF Back
<1>4. \A f \in Before(i) : Holds(want, mem, f) /\ Holds(want, saved, f)
  BY <1>3, BeforePages DEF AInv, HeldBehind
<1>5. AllReady(refused, want, mem) /\ AllReady(refused, want, saved)
  <2>1. page > 1
    BY <1>1, <1>3
  <2> QED
    BY <1>3, <2>1, NothingOwed
<1> QED
  BY <1>1, <1>2, <1>3, <1>4, <1>5, OpenGoodStep DEF AInv, RefusedUnwanted

\* An accepted form: its fields have the answers, and so has the progress file.
LEMMA AcceptGood ==
    ASSUME IInv, AInv, NEW p \in DOMAIN Forms, Accept(p)
    PROVE  Good
<1>1. PICK a \in Filled(Forms[p]) : Open(page + 1, Put(mem, a), Put(mem, a), Put(want, a))
  BY DEF Accept
<1>2. /\ TypeOK /\ page \in 3..14 /\ page + 1 \in 1..Review /\ Pages[page] = p
      /\ mem \in Sessions /\ want \in Wants /\ UNCHANGED files /\ refused' = refused \ Forms[p]
      /\ refused' \subseteq Fields /\ AllReady(refused, want, mem)
  BY StateTyped, PageNumbers, NothingOwed DEF IInv, TypeOK, Accept
<1>3. PICK m : m = Put(mem, a)
  OBVIOUS
<1>4. PICK w : w = Put(want, a)
  OBVIOUS
<1>5. m \in Sessions /\ w \in Wants
  BY <1>2, <1>3, <1>4, PutTyped DEF Filled
<1>6. \A f \in Fields : IF f \in Forms[p] THEN m[f] = w[f] ELSE m[f] = mem[f] /\ w[f] = want[f]
  <2>1. DOMAIN a = Forms[p]
    BY DEF Filled
  <2> QED
    BY <1>3, <1>4, <2>1 DEF Put
<1>7. AllReady(refused', w, m)
  <2> SUFFICES ASSUME NEW q \in DOMAIN Forms, Forms[q] \cap refused' = {}
               PROVE  Ready(q, w, m)
    BY DEF AllReady
  <2>1. CASE q = p
    <3>1. \A f \in Forms[q] : m[f] = w[f]
      BY <1>6, <2>1, FormsApart
    <3> QED
      BY <3>1, BlankOrValue DEF Ready, Due, Together
  <2>2. CASE q # p
    <3>1. Forms[q] \cap refused = {} /\ \A f \in Forms[q] : m[f] = mem[f] /\ w[f] = want[f]
      BY <1>2, <1>6, <2>2, FormsApart
    <3>2. Ready(q, want, mem)
      BY <1>2, <3>1 DEF AllReady
    <3> QED
      BY <3>1, <3>2 DEF Ready, Due, Together, InFiles
  <2> QED
    BY <2>1, <2>2
<1>8. \A f \in Before(page + 1) : Holds(w, m, f)
  <2> SUFFICES ASSUME NEW f \in Before(page + 1), f \notin Forms[p] PROVE Holds(w, m, f)
    BY <1>6, BeforePages DEF Holds, Before
  <2>1. f \in Fields /\ f \in Before(page)
    <3>1. \A k \in 1..Review : k < page + 1 => k < page \/ k = page
      BY <1>2, PageNumbers
    <3>2. Asks(page) = Forms[p]
      BY <1>2, FormAsks
    <3> QED
      BY <3>1, <3>2 DEF Before
  <2> QED
    BY <1>6, <2>1 DEF AInv, HeldBehind, Holds
<1>9. \A f \in refused' : w[f] \notin Values
  BY <1>2, <1>6 DEF AInv, RefusedUnwanted
<1> QED
  BY <1>1, <1>2, <1>3, <1>4, <1>5, <1>7, <1>8, <1>9, OpenGoodStep DEF AInv

\* A refused form: its page no longer promises its fields.
LEMMA RefuseGood ==
    ASSUME IInv, AInv, NEW p \in DOMAIN Forms, NEW F \in SUBSET Forms[p], F # {},
           NEW i \in {1, page}, Refuse(p, F, i), saved' \in {saved, mem'}
    PROVE  Good
<1>1. /\ TypeOK /\ mem \in Sessions /\ saved \in Sessions /\ want \in Wants /\ UNCHANGED files
      /\ refused' = refused \cup F /\ page' = i /\ page \in Nat /\ 1 < page
      /\ refused \subseteq Fields /\ F \subseteq Fields
      /\ AllReady(refused, want, mem) /\ AllReady(refused, want, saved)
  BY StateTyped, PageNumbers, FormsApart, NothingOwed DEF IInv, Refuse, TypeOK
<1>2. PICK a \in Filled(F) : mem' = Put(mem, a)
  BY DEF Refuse
<1>3. \A f \in Fields : IF f \in F THEN want'[f] = NoAnswer ELSE mem'[f] = mem[f] /\ want'[f] = want[f]
  <2>1. DOMAIN a = F
    BY DEF Filled
  <2> QED
    BY <1>2, <2>1 DEF Refuse, Put
<1>4. ASSUME NEW m \in {mem', saved'} PROVE AllReady(refused', want', m)
  <2> SUFFICES ASSUME NEW q \in DOMAIN Forms, Forms[q] \cap refused' = {}
               PROVE  Ready(q, want', m)
    BY DEF AllReady
  <2>1. q # p /\ Forms[q] \cap refused = {}
    BY <1>1
  <2>2. Forms[q] \subseteq Fields /\ Forms[q] \cap F = {}
    BY <1>1, FormsApart
  <2>3. Ready(q, want, mem) /\ Ready(q, want, saved)
    BY <1>1, <2>1 DEF AllReady
  <2>4. \A f \in Forms[q] : mem'[f] = mem[f] /\ want'[f] = want[f]
    BY <1>3, <2>2
  <2>5. Ready(q, want', mem')
    BY <2>3, <2>4 DEF Ready, Due, Together, InFiles
  <2>6. Ready(q, want', saved)
    BY <2>3, <2>4 DEF Ready, Due, Together, InFiles
  <2> QED
    BY <1>4, <2>5, <2>6
<1>5. \A f \in Before(page') : Holds(want', mem', f) /\ Holds(want', saved', f)
  <2>1. Before(page') \subseteq Before(page) /\ Before(page) \subseteq Fields
    BY <1>1, BeforePages
  <2> QED
    BY <1>3, <2>1, BlankOrValue DEF AInv, HeldBehind, Holds
<1>6. RefusedUnwanted'
  BY <1>1, <1>3, BlankOrValue DEF AInv, RefusedUnwanted
<1>7. AInv'
  BY <1>1, <1>4, <1>5, <1>6, FilesStay DEF AInv
<1>8. PageShows
  BY <1>1, FieldsAsked DEF PageShows
<1> QED
  BY <1>7, <1>8 DEF Good

\* At the review page the session and its progress file have all answers; Apply writes
\* them to each store it reaches.
LEMMA ApplyGood ==
    ASSUME IInv, AInv, Apply
    PROVE  /\ Good
           /\ \A s \in Stores : store'[s] # store[s] =>
                \A f \in KeptBy[s] : want[f] \in Values => store'[s][f] = want[f]
<1>1. /\ TypeOK /\ page = Review /\ UNCHANGED <<mem, want, refused>> /\ saved' \in {saved, mem}
      /\ page' \in {Done, Review}
  BY DEF IInv, Apply, ApplyUpTo
<1>2. \A f \in Fields : Holds(want, mem, f) /\ Holds(want, saved, f)
  BY <1>1, BeforePages DEF AInv, HeldBehind
<1>3. \A f \in Fields : Holds(want', mem', f) /\ Holds(want', saved', f)
  BY <1>1, <1>2
<1>4. PICK S \in SUBSET Stores :
        store' = [s \in Stores |-> IF s \in S THEN Written[s] ELSE store[s]]
  BY DEF Apply, ApplyUpTo
<1>5. (\A m \in {mem, saved} : AllReady(refused, Owed(page, want, m), m) /\ OwedByApi(m))'
  <2>1. \A p \in DOMAIN Forms : \A f \in Forms[p] :
          f \in Fields /\ Holds(want', mem', f) /\ Holds(want', saved', f)
    BY <1>3, FormsApart
  <2>2. page' \in Nat /\ ~(page' <= 1)
    BY <1>1, PageNumbers
  <2>3. \A m : \A f \in Fields : Owed(page', want', m)[f] = want'[f]
    BY <2>2 DEF Owed
  <2>4. (\A m \in {mem, saved} : OwedByApi(m))'
    BY <2>2 DEF OwedByApi
  <2>5. (\A m \in {mem, saved} : AllReady(refused, Owed(page, want, m), m))'
    BY <2>1, <2>3, BlankOrValue DEF AllReady, Ready, Due, Together, Holds
  <2> QED
    BY <2>4, <2>5
<1>6. BrandOnly'
  BY <1>4, StoresOfFields DEF AInv, BrandOnly, Written, BrandWritten
<1>7. HeldBehind' /\ RefusedUnwanted' /\ ApiNew'
  BY <1>1, <1>3 DEF AInv, HeldBehind, Before, Holds, RefusedUnwanted, ApiNew, Apply, ApplyUpTo
<1>8. PageShows
  BY <1>1, FieldsAsked DEF PageShows
<1>9. ASSUME NEW s \in Stores, store'[s] # store[s], NEW f \in KeptBy[s], want[f] \in Values
      PROVE  store'[s][f] = want[f]
  <2>1. store'[s] = Written[s]
    BY <1>4, <1>9
  <2>2. f \in Fields /\ mem[f] = want[f] /\ mem[f] # Blank
    BY <1>2, <1>9, StoresOfFields, BlankOrValue DEF Holds
  <2>3. CASE s = "api"
    BY <1>9, <2>1, <2>2, <2>3, StoresOfFields DEF Written, ApiWritten
  <2>4. CASE s = "stack"
    BY <1>9, <2>1, <2>2, <2>4, StoresOfFields DEF Written, StackWritten
  <2>5. CASE s = "brand"
    BY <1>9, <2>1, <2>2, <2>5, StoresOfFields DEF Written, BrandWritten
  <2> QED
    BY <2>3, <2>4, <2>5 DEF Stores
<1> QED
  BY <1>5, <1>6, <1>7, <1>8, <1>9 DEF Good, AInv

\* The wizard is opened again, or the service restarted: the progress file is as good as
\* the session.
LEMMA ReopenGood ==
    ASSUME IInv, AInv, Again \/ Restart
    PROVE  Good
<1>1. /\ TypeOK /\ UNCHANGED <<files, saved, want, refused>> /\ mem' \in {mem, saved}
      /\ page' = page \/ (page' = 1 /\ page > 1)
      /\ page \in Nat /\ page >= 1
  BY PageNumbers DEF IInv, Again, Restart, TypeOK
<1>2. RefusedUnwanted'
  BY <1>1 DEF AInv, RefusedUnwanted
<1>3. PageShows
  BY <1>1, FieldsAsked DEF PageShows
<1>4. CASE page > 1
  <2>1. AllReady(refused', want', mem') /\ AllReady(refused', want', saved')
    BY <1>1, <1>4, NothingOwed
  <2>2. Before(page') \subseteq Before(page)
    BY <1>1, BeforePages
  <2>3. \A f \in Before(page') : Holds(want', mem', f) /\ Holds(want', saved', f)
    BY <1>1, <2>2 DEF AInv, HeldBehind
  <2> QED
    BY <1>1, <1>2, <1>3, <2>1, <2>3, FilesStay DEF AInv, Good
<1>5. CASE page = 1
  <2>1. \A m \in {mem, saved} :
          /\ AllReady(refused, Owed(1, want, m), m) /\ Holds(want, m, "eula")
          /\ \A f \in ApiOnly : Holds(want, m, f) \/ (m[f] = Blank /\ store["api"][f] = want[f])
    BY <1>5, BeforePages DEF AInv, HeldBehind, OwedByApi, AtApi
  <2>2. page' \in {0, 1} /\ {mem', saved'} \subseteq {mem, saved}
    BY <1>1, <1>5
  <2>3. \A m \in {mem', saved'} :
          /\ AllReady(refused', Owed(1, want', m), m) /\ Holds(want', m, "eula")
          /\ \A f \in ApiOnly : Holds(want', m, f) \/ (m[f] = Blank /\ store["api"][f] = want'[f])
    BY <1>1, <2>1, <2>2
  <2> QED
    BY <1>1, <1>2, <1>3, <2>2, <2>3, StartOver DEF AInv, Good
<1> QED
  BY <1>1, <1>4, <1>5

\* A new session starts from the progress file, and only what that restores is promised.
LEMMA NewSessionGood ==
    ASSUME IInv, AInv, NewSession
    PROVE  Good
<1>1. /\ UNCHANGED <<files, refused>> /\ saved' = mem' /\ page' = 1
      /\ mem' = Restored(saved) /\ refused \subseteq Fields
      /\ want' = [f \in Fields |-> IF f \in PriorFields \/ AtApi(f) THEN want[f] ELSE NoAnswer]
  BY DEF NewSession, IInv, TypeOK
<1>2. \A f \in Fields :
        /\ mem'[f] = IF f \in PriorFields THEN saved[f] ELSE Blank
        /\ want'[f] = IF f \in PriorFields \/ AtApi(f) THEN want[f] ELSE NoAnswer
  BY <1>1 DEF Restored
<1>3. PICK o : o = Owed(1, want', mem')
  OBVIOUS
<1>4. \A f \in Fields : o[f] \in Values => f \in PriorFields /\ f \notin ApiOnly /\ o[f] = want[f]
  BY <1>2, <1>3, ApiOnlyForms, BlankOrValue DEF Owed, AtApi
<1>5. AllReady(refused', o, mem')
  <2> SUFFICES ASSUME NEW p \in DOMAIN Forms, Forms[p] \cap refused = {}
               PROVE  Ready(p, o, mem')
    BY <1>1 DEF AllReady
  <2>1. Ready(p, Owed(page, want, saved), saved) /\ Forms[p] \subseteq Fields
    BY FormsApart DEF AInv, AllReady
  <2>2. \A f \in Forms[p] : o[f] \in Values => Owed(page, want, saved)[f] = o[f] /\ mem'[f] = saved[f]
    BY <1>2, <1>4, <2>1 DEF Owed
  <2>3. \A f \in Forms[p] : saved[f] = Blank => mem'[f] = Blank
    BY <1>2, <2>1
  <2>4. \A f \in Forms[p] : Due(o, mem', f)
    BY <2>1, <2>2 DEF Ready, Due, InFiles
  <2>5. p # "station" => Together(p, o, mem')
    BY <2>1, <2>2, <2>3 DEF Ready, Together
  <2> QED
    BY <2>4, <2>5 DEF Ready
<1>6. \A f \in ApiOnly : Holds(want', mem', f) \/ (mem'[f] = Blank /\ store["api"][f] = want'[f])
  BY <1>2, ApiOnlyForms, BlankOrValue DEF AtApi, Holds
<1>7. Holds(want', mem', "eula")
  BY <1>2, BlankOrValue DEF Fields, PriorFields, AtApi, ApiOnly, ApiFields, Holds
<1>8. RefusedUnwanted'
  BY <1>1, <1>2, BlankOrValue DEF AInv, RefusedUnwanted
<1>9. PageShows
  BY <1>1, FieldsAsked DEF PageShows
<1> QED
  BY <1>1, <1>3, <1>5, <1>6, <1>7, <1>8, <1>9, StartOver DEF AInv, Good

\* Without a progress file, what the stores of this host give back is promised.
LEMMA CleanUpGood ==
    ASSUME IInv, AInv, CleanUp
    PROVE  Good
<1>1. /\ UNCHANGED files /\ refused' = {} /\ saved' = Nothing /\ mem' = Nothing /\ page' = 0
      /\ want' = [f \in Fields |-> IF (here /\ Remembered(f)) \/ AtApi(f) THEN want[f] ELSE NoAnswer]
  BY PageNumbers DEF CleanUp
<1>2. \A f \in Fields : mem'[f] = Blank
  BY <1>1 DEF Nothing
<1>3. \A f \in Fields : want'[f] \in Values =>
        want'[f] = want[f] /\ ((here /\ Remembered(f)) \/ AtApi(f))
  BY <1>1, BlankOrValue
<1>4. PICK o : o = Owed(1, want', mem')
  OBVIOUS
<1>5. ASSUME NEW f \in Fields, o[f] \in Values PROVE InFiles(o, f)
  <2>1. o[f] = want'[f] /\ f \notin ApiOnly
    BY <1>2, <1>4, <1>5, BlankOrValue DEF Owed
  <2>2. here /\ Remembered(f) /\ o[f] = want[f]
    BY <1>3, <1>5, <2>1 DEF AtApi
  <2> QED
    BY <2>2 DEF Remembered, InFiles
<1>6. AllReady(refused', o, mem')
  BY <1>2, <1>5, FormsApart DEF AllReady, Ready, Due, Together
<1>7. \A f \in ApiOnly : Holds(want', mem', f) \/ (mem'[f] = Blank /\ store["api"][f] = want'[f])
  <2>1. ASSUME NEW f \in ApiOnly, want'[f] \in Values PROVE store["api"][f] = want'[f]
    <3>1. f \in Fields /\ f \notin FileFields
      BY ApiOnlyForms
    <3> QED
      BY <1>3, <2>1, <3>1 DEF Remembered, AtApi
  <2> QED
    BY <1>2, <2>1, ApiOnlyForms DEF Holds
<1>8. Holds(want', mem', "eula")
  BY <1>3 DEF Fields, FileFields, Remembered, AtApi, ApiOnly, ApiFields, Holds
<1>9. RefusedUnwanted'
  BY <1>1 DEF RefusedUnwanted
<1>10. PageShows
  BY <1>1, PageNumbers DEF PageShows
<1> QED
  BY <1>1, <1>4, <1>6, <1>7, <1>8, <1>9, <1>10, StartOver DEF AInv, Good

LEMMA InitAInv == Init => AInv
<1> SUFFICES ASSUME Init PROVE AInv
  OBVIOUS
<1>1. \A f \in Fields : want[f] \notin Values
  BY BlankOrValue DEF Init
<1>2. BrandOnly /\ ApiNew /\ RefusedUnwanted
  BY StoresOfFields DEF Init, BrandOnly, ApiNew, RefusedUnwanted, Nothing
<1>3. \A m : \A f \in Fields : Owed(page, want, m)[f] \notin Values
  BY <1>1, BlankOrValue DEF Owed
<1>4. \A m \in {mem, saved} : AllReady(refused, Owed(page, want, m), m)
  BY <1>3, FormsApart DEF AllReady, Ready, Due, Together
<1>5. \A m \in {mem, saved} : OwedByApi(m)
  BY <1>1, ApiOnlyForms DEF OwedByApi, Holds
<1> QED
  BY <1>1, <1>2, <1>4, <1>5 DEF AInv, HeldBehind, Before, Holds

LEMMA NextGood == IInv /\ AInv /\ Next => Good
<1> SUFFICES ASSUME IInv, AInv, Next PROVE Good
  OBVIOUS
<1>1. {"eula", "columns", "units", "webcam", "features", "marine", "db", "station", "providers",
       "branding", "privacy", "tls"} \subseteq DOMAIN Forms
  BY DEF Forms
<1>2. /\ {"db"} \subseteq Forms["db"] /\ {"name"} \subseteq Forms["station"]
      /\ {"providers"} \subseteq Forms["providers"] /\ {"title"} \subseteq Forms["branding"]
      /\ {"analytics", "regions"} \subseteq Forms["privacy"] /\ {"tls"} \subseteq Forms["tls"]
      /\ {"locations"} \subseteq Forms["marine"]
  BY DEF Forms
<1>3. CASE EulaPost \/ ColumnsPost \/ UnitsPost \/ WebcamPost \/ FeaturesPost
  BY <1>1, <1>3, AcceptGood DEF EulaPost, ColumnsPost, UnitsPost, WebcamPost, FeaturesPost
<1>4. CASE DbPost
  BY <1>1, <1>2, <1>4, AcceptGood, RefuseGood DEF DbPost
<1>5. CASE StationPost
  BY <1>1, <1>2, <1>5, AcceptGood, RefuseGood DEF StationPost
<1>6. CASE ProvidersPost
  BY <1>1, <1>2, <1>6, AcceptGood, RefuseGood DEF ProvidersPost
<1>7. CASE BrandingPost
  BY <1>1, <1>2, <1>7, AcceptGood, RefuseGood DEF BrandingPost
<1>8. CASE PrivacyPost
  BY <1>1, <1>2, <1>8, AcceptGood, RefuseGood DEF PrivacyPost
<1>9. CASE TlsPost \/ MarinePost
  BY <1>1, <1>2, <1>9, AcceptGood, RefuseGood DEF TlsPost, MarinePost
<1> QED
  BY <1>3, <1>4, <1>5, <1>6, <1>7, <1>8, <1>9, ConnectGood, ImportGood, BackGood, ApplyGood,
     ReopenGood, NewSessionGood, CleanUpGood DEF Next

LEMMA AlwaysAInv == Spec => [](IInv /\ AInv)
<1>1. AInv /\ UNCHANGED vars => AInv'
  <2> SUFFICES ASSUME AInv, UNCHANGED vars PROVE AInv'
    OBVIOUS
  <2>1. UNCHANGED <<page, mem, saved, store, configured, here, want, refused>>
    BY DEF vars, files
  <2>2. HeldBehind' /\ BrandOnly' /\ RefusedUnwanted' /\ ApiNew'
    BY <2>1 DEF AInv, HeldBehind, BrandOnly, RefusedUnwanted, ApiNew, Before, Holds
  <2>3. ASSUME NEW m \in {mem, saved}
        PROVE  AllReady(refused, Owed(page, want, m), m)' /\ OwedByApi(m)'
    <3>1. AllReady(refused, Owed(page, want, m), m) /\ OwedByApi(m)
      BY DEF AInv
    <3>2. Owed(page', want', m) = Owed(page, want, m)
      BY <2>1
    <3>3. AllReady(refused, Owed(page, want, m), m)'
      BY <2>1, <3>1 DEF AllReady, Ready, Due, Together, InFiles, Owed
    <3> QED
      BY <2>1, <3>1, <3>3 DEF OwedByApi, Holds, AtApi
  <2> QED
    BY <2>1, <2>2, <2>3 DEF AInv
<1>2. IInv /\ AInv /\ [Next]_vars => (IInv /\ AInv)'
  BY <1>1, NextIInv, NextGood DEF Good
<1> QED
  BY <1>2, InitIInv, InitAInv, PTL DEF Spec

\* Whatever pages, restarts, new sessions and cleared progress came between, a page that
\* comes up has the latest accepted answers, as long as the stores still give them back
\* and no refused form left anything on it (_merge_from_existing_config,
\* _merge_from_api_current_config, wizard_index).
THEOREM AnswersAlwaysShown == Spec => AnswersShown
<1>1. IInv /\ AInv /\ [Next]_vars =>
        [page' # page /\ page' # Login /\ refused' \cap Asks(page') = {} => Shows(page, Values)']_vars
  <2> SUFFICES ASSUME IInv, AInv, Next, page' # page, page' # Login, refused' \cap Asks(page') = {}
               PROVE  Shows(page, Values)'
    BY DEF vars
  <2>1. \A f \in Asks(page') : Holds(want', mem', f)
    BY NextGood DEF Good, PageShows
  <2> QED
    BY <2>1 DEF Shows, Holds, Asks
<1> QED
  BY <1>1, AlwaysAInv, PTL DEF Spec, AnswersShown

\* What Apply writes of a field that was filled in is its latest accepted answer, in each
\* of the stores it gets to (wizard_apply).
THEOREM AnswersAlwaysApplied == Spec => AnswersApplied
<1>1. IInv /\ AInv /\ [Next]_vars =>
        [store' # store =>
           \A s \in Stores : store'[s] # store[s] =>
             \A f \in KeptBy[s] : want[f] \in Values => store'[s][f] = want[f]]_vars
  <2> SUFFICES ASSUME IInv, AInv, Next, store' # store
               PROVE  \A s \in Stores : store'[s] # store[s] =>
                        \A f \in KeptBy[s] : want[f] \in Values => store'[s][f] = want[f]
    BY DEF vars
  <2>1. Apply
    BY DEF Next, files, Connect, Import, EulaPost, DbPost, ColumnsPost, UnitsPost, StationPost,
       ProvidersPost, WebcamPost, BrandingPost, PrivacyPost, FeaturesPost, MarinePost, TlsPost,
       Back, Again, Restart, NewSession, CleanUp, Accept, Refuse
  <2> QED
    BY <2>1, ApplyGood
<1> QED
  BY <1>1, AlwaysAInv, PTL DEF Spec, AnswersApplied
=============================================================================
