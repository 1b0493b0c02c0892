------------------------ MODULE ColumnMappingProofs ------------------------
(***************************************************************************)
(* Proofs about ColumnMapping, for any columns, names, guesses, tabs and   *)
(* faults: its types, that the API has what was applied, and that step 3   *)
(* shows what was chosen.                                                  *)
(*                                                                         *)
(* The mapping is turned round twice, on its way to the API and back, so   *)
(* the invariant says of both forms that nothing is lost by turning it: no *)
(* two columns of the session have one name, no two entries of the API one *)
(* column, and what stands under _excluded is never a column's own entry.  *)
(***************************************************************************)
EXTENDS ColumnMapping, FiniteSetTheorems, TLAPS

Mem(m) == Partial(m, Fields, Answers \cup {Excl})
Api(p) == Partial(p, Canon \cup {Excl}, Fields)
Wants  == [Cols -> Answers \cup {Unasked}]

\* Mapping m has the answers w; those that are None only while no list of unmapped
\* columns has been read back.
Held(w, m, tr) ==
    \A c \in Cols :
        /\ w[c] \in Canon => c \in DOMAIN m /\ m[c] = w[c]
        /\ tr \/ (w[c] = None <=> c \in DOMAIN m /\ m[c] = None)

\* The API's mapping p has the applied answers g.
Delivered(g, p, tr) ==
    \A c \in Cols :
        /\ g[c] \in Canon => g[c] \in DOMAIN p /\ p[g[c]] = c
        /\ tr \/ (g[c] = None <=> c \in Excluded(p))

\* What is no column, and what has the name _excluded, came from a list read back.
MemShape(m, tr) ==
    \A k \in DOMAIN m : /\ k \in Cols \/ m[k] = Excl
                        /\ m[k] = Excl => tr

\* Names stand for columns, and no two entries for the same.
ApiShape(p) == /\ \A k \in DOMAIN p : k = Excl \/ p[k] \in Cols
               /\ \A j, k \in DOMAIN p : p[j] = p[k] => j = k

\* A session's mapping is its progress file's, if there is one.  Without a mapping the
\* answers are those applied, and a connected session has none only if the API has none.
Sessions ==
    /\ progress \in {mem, Empty}
    /\ mem = Empty => want = agreed
    /\ connected /\ mem = Empty /\ ~rough => api = Empty
    /\ \A t \in Tabs : pages[t] # NoPage => connected

Shapes == MemShape(mem, turned) /\ ApiShape(api)

MemHeld == ~rough /\ mem # Empty => Held(want, mem, turned) /\ ~TwoHaveOneName(mem)

\* The inductive invariant.
IInv == TypeOK /\ Sessions /\ Shapes /\ MemHeld /\ ChoicesDelivered

-----------------------------------------------------------------------------
(* Lists and markers *)

LEMMA Apart == /\ None \notin Canon /\ Excl \notin Canon /\ None # Excl
               /\ Unasked \notin Answers
BY Markers DEF Unasked

\* A list that is joined and split is the list.
LEMMA SplitJoined ==
    ASSUME NEW S \in SUBSET Cols, S # {}
    PROVE  /\ Split(Joined(S)) = S /\ Joined(S) \in Fields
           /\ Joined(S) \in Cols => S = {Joined(S)}
<1>1. CASE S \in Lists
  BY <1>1, Markers DEF Split, Joined, Fields
<1>2. CASE S \notin Lists
  <2>1. IsFiniteSet(S) /\ Cardinality(S) \in Nat
    BY Columns, FS_Subset, FS_CardinalityType
  <2>2. Cardinality(S) # 0
    BY <2>1, FS_EmptySet
  <2>3. ~(Cardinality(S) > 1)
    BY <1>2 DEF Lists
  <2>4. Cardinality(S) = 1
    BY <2>1, <2>2, <2>3
  <2>5. PICK c : S = {c}
    BY <2>1, <2>4, FS_Singleton
  <2>6. Joined(S) \in Cols /\ S = {Joined(S)}
    BY <1>2, <2>5 DEF Joined
  <2> QED
    BY <2>6 DEF Split, Fields
<1> QED
  BY <1>1, <1>2

\* A list that is split is a set of columns.
LEMMA SplitTyped ==
    ASSUME NEW v \in Fields
    PROVE  Split(v) \subseteq Cols
BY DEF Split, Fields, Lists

LEMMA ListsNotEmpty ==
    ASSUME NEW v \in Fields
    PROVE  Split(v) # {}
<1>1. \A S \in Lists : S # {}
  BY FS_EmptySet DEF Lists
<1> QED
  BY <1>1 DEF Split, Fields

LEMMA ExcludedTyped ==
    ASSUME NEW p, Api(p)
    PROVE  Excluded(p) \subseteq Cols
BY SplitTyped DEF Excluded, Api, Partial

\* The empty mapping, and no other, has nothing in it.
LEMMA EmptyPartial ==
    /\ \A S, T : Partial(Empty, S, T)
    /\ DOMAIN Empty = {}
    /\ \A f, S, T : Partial(f, S, T) /\ DOMAIN f = {} => f = Empty
BY DEF Empty, Partial

-----------------------------------------------------------------------------
(* To the API *)

LEMMA PayloadTyped ==
    ASSUME NEW m, Mem(m), NEW p \in Payloads(m)
    PROVE  Api(p)
<1>1. \A c \in DOMAIN m : m[c] \in Canon \cup {None, Excl}
  BY DEF Mem, Partial, Answers
<1> QED
  BY <1>1 DEF Payloads, Api, Partial

\* What Payloads says, entry by entry.
LEMMA PayloadParts ==
    ASSUME NEW m, Mem(m), NEW p \in Payloads(m)
    PROVE  /\ \A c \in DOMAIN m : m[c] # None => m[c] \in DOMAIN p
           /\ Unmapped(m) # {} => Excl \in DOMAIN p /\ p[Excl] = Joined(Unmapped(m))
           /\ \A k \in DOMAIN p : k # Excl \/ Unmapped(m) = {} =>
                 p[k] \in DOMAIN m /\ m[p[k]] = k
BY DEF Payloads

LEMMA NothingSent ==
    ASSUME NEW m, DOMAIN m = {}, NEW p \in Payloads(m)
    PROVE  DOMAIN p = {}
BY DEF Payloads, Unmapped

LEMMA UnmappedColumns ==
    ASSUME NEW m, NEW tr, MemShape(m, tr)
    PROVE  Unmapped(m) \in SUBSET Cols
BY Apart DEF MemShape, Unmapped

LEMMA PayloadShape ==
    ASSUME NEW m, Mem(m), NEW tr, MemShape(m, tr), NEW p \in Payloads(m)
    PROVE  ApiShape(p)
<1>1. \A k \in DOMAIN p : k # Excl => p[k] \in Cols /\ p[k] \in DOMAIN m /\ m[p[k]] = k
  BY PayloadParts DEF MemShape
<1>2. ASSUME NEW k \in DOMAIN p, k # Excl, Excl \in DOMAIN p, p[k] = p[Excl]
      PROVE  FALSE
  <2>1. CASE Unmapped(m) = {}
    BY <1>1, <1>2, <2>1, PayloadParts
  <2>2. CASE Unmapped(m) # {}
    <3>1. p[k] = Joined(Unmapped(m)) /\ p[k] \in Cols
      BY <1>1, <1>2, <2>2, PayloadParts
    <3>2. p[k] \in Unmapped(m)
      BY <2>2, <3>1, UnmappedColumns, SplitJoined
    <3>3. k = None
      BY <1>1, <1>2, <3>2 DEF Unmapped
    <3> QED
      BY <1>2, <3>3, PayloadTyped, Apart DEF Api, Partial
  <2> QED
    BY <2>1, <2>2
<1>3. ASSUME NEW j \in DOMAIN p, NEW k \in DOMAIN p, p[j] = p[k]
      PROVE  j = k
  BY <1>1, <1>2, <1>3
<1> QED
  BY <1>1, <1>3 DEF ApiShape

\* What is applied is delivered.
LEMMA PayloadDelivers ==
    ASSUME NEW m, Mem(m), NEW tr, MemShape(m, tr), ~TwoHaveOneName(m),
           NEW w, Held(w, m, tr), NEW p \in Payloads(m)
    PROVE  Delivered(w, p, tr)
<1> SUFFICES ASSUME NEW c \in Cols
             PROVE  /\ w[c] \in Canon => w[c] \in DOMAIN p /\ p[w[c]] = c
                    /\ tr \/ (w[c] = None <=> c \in Excluded(p))
  BY DEF Delivered
<1>1. ASSUME w[c] \in Canon
      PROVE  w[c] \in DOMAIN p /\ p[w[c]] = c
  <2>1. c \in DOMAIN m /\ m[c] = w[c]
    BY <1>1 DEF Held
  <2>2. w[c] # None /\ w[c] # Excl
    BY <1>1, Apart
  <2>3. w[c] \in DOMAIN p
    BY <2>1, <2>2, PayloadParts
  <2>4. p[w[c]] \in DOMAIN m /\ m[p[w[c]]] = w[c]
    BY <2>2, <2>3, PayloadParts
  <2> QED
    BY <1>1, <2>1, <2>3, <2>4 DEF TwoHaveOneName
<1>2. ASSUME ~tr
      PROVE  w[c] = None <=> c \in Excluded(p)
  <2>1. w[c] = None <=> c \in Unmapped(m)
    BY <1>2 DEF Held, Unmapped
  <2>2. CASE Unmapped(m) = {}
    <3>1. Excl \notin DOMAIN p
      BY <1>2, <2>2, PayloadParts DEF MemShape
    <3> QED
      BY <2>1, <2>2, <3>1 DEF Excluded
  <2>3. CASE Unmapped(m) # {}
    <3>1. Excluded(p) = Split(Joined(Unmapped(m)))
      BY <2>3, PayloadParts DEF Excluded
    <3> QED
      BY <2>1, <2>3, <3>1, UnmappedColumns, SplitJoined
  <2> QED
    BY <2>2, <2>3
<1> QED
  BY <1>1, <1>2

-----------------------------------------------------------------------------
(* And back *)

\* The API's answer turned round: an entry for each of its values, with its key.
LEMMA FromApiParts ==
    ASSUME NEW p
    PROVE  /\ \A k \in DOMAIN p : p[k] \in DOMAIN FromApi(p)
           /\ \A c \in DOMAIN FromApi(p) :
                 FromApi(p)[c] \in DOMAIN p /\ p[FromApi(p)[c]] = c
BY DEF FromApi

LEMMA FromApiTyped ==
    ASSUME NEW p, Api(p)
    PROVE  Mem(FromApi(p))
<1>1. \A k \in DOMAIN p : k \in Canon \cup {Excl} /\ p[k] \in Fields
  BY DEF Api, Partial
<1>2. \A c \in DOMAIN FromApi(p) : c \in Fields /\ FromApi(p)[c] \in Answers \cup {Excl}
  BY <1>1, FromApiParts DEF Answers
<1>3. FromApi(p) = [c \in DOMAIN FromApi(p) |-> FromApi(p)[c]]
  BY DEF FromApi
<1> QED
  BY <1>2, <1>3 DEF Mem, Partial

\* Turned round, the API's answer has what was delivered.
LEMMA FromApiHolds ==
    ASSUME NEW p, Api(p), ApiShape(p), NEW g,
           NEW tr \in BOOLEAN, Delivered(g, p, tr),
           NEW tn \in BOOLEAN, tn <=> (tr \/ Excl \in DOMAIN p)
    PROVE  /\ MemShape(FromApi(p), tn)
           /\ Held(g, FromApi(p), tn)
           /\ ~TwoHaveOneName(FromApi(p))
<1> DEFINE m == FromApi(p)
<1>1. \A c \in DOMAIN m : m[c] \in DOMAIN p /\ p[m[c]] = c /\ m[c] \in Canon \cup {Excl}
  BY FromApiParts DEF Api, Partial
<1>2. \A c \in DOMAIN m : m[c] # None
  BY <1>1, Apart
<1>3. MemShape(m, tn)
  BY <1>1 DEF MemShape, ApiShape
<1>4. ~TwoHaveOneName(m)
  BY <1>1 DEF TwoHaveOneName
<1>5. ASSUME NEW c \in Cols, g[c] \in Canon
      PROVE  c \in DOMAIN m /\ m[c] = g[c]
  <2>1. g[c] \in DOMAIN p /\ p[g[c]] = c
    BY <1>5 DEF Delivered
  <2>2. c \in DOMAIN m
    BY <2>1, FromApiParts
  <2> QED
    BY <1>1, <2>1, <2>2 DEF ApiShape
<1>6. ASSUME NEW c \in Cols, ~tn
      PROVE  g[c] # None
  BY <1>6 DEF Delivered, Excluded
<1> QED
  BY <1>2, <1>3, <1>4, <1>5, <1>6 DEF Held

\* api.conf turned round: the columns of the list are unmapped, the others have the names
\* they stand under.
LEMMA FromConfParts ==
    ASSUME NEW p
    PROVE  /\ \A k \in DOMAIN p \ {Excl} : p[k] \in DOMAIN FromConf(p)
           /\ Excluded(p) \subseteq DOMAIN FromConf(p)
           /\ \A c \in DOMAIN FromConf(p) :
                 \/ c \in Excluded(p) /\ FromConf(p)[c] = None
                 \/ /\ c \notin Excluded(p)
                    /\ FromConf(p)[c] \in DOMAIN p \ {Excl} /\ p[FromConf(p)[c]] = c
BY DEF FromConf, Excluded

LEMMA FromConfTyped ==
    ASSUME NEW p, Api(p)
    PROVE  Mem(FromConf(p))
<1>1. \A k \in DOMAIN p : k \in Canon \cup {Excl} /\ p[k] \in Fields
  BY DEF Api, Partial
<1>2. \A c \in DOMAIN FromConf(p) : c \in Fields /\ FromConf(p)[c] \in Answers
  BY <1>1, FromConfParts, ExcludedTyped DEF Answers, Fields
<1>3. FromConf(p) = [c \in DOMAIN FromConf(p) |-> FromConf(p)[c]]
  BY DEF FromConf
<1> QED
  BY <1>2, <1>3 DEF Mem, Partial

\* It has no list, and nothing under _excluded.
LEMMA FromConfShape ==
    ASSUME NEW p, Api(p), ApiShape(p), NEW tr
    PROVE  MemShape(FromConf(p), tr)
<1>1. \A c \in DOMAIN FromConf(p) : c \in Cols
  BY FromConfParts, ExcludedTyped DEF ApiShape
<1>2. \A c \in DOMAIN FromConf(p) : FromConf(p)[c] # Excl
  BY FromConfParts, Apart
<1> QED
  BY <1>1, <1>2 DEF MemShape

LEMMA FromConfHolds ==
    ASSUME NEW p, Api(p), ApiShape(p), NEW g, Delivered(g, p, FALSE)
    PROVE  Held(g, FromConf(p), FALSE) /\ ~TwoHaveOneName(FromConf(p))
<1> DEFINE m == FromConf(p)
<1>1. \A c \in DOMAIN m : m[c] # None => m[c] \in DOMAIN p \ {Excl} /\ p[m[c]] = c
  BY FromConfParts
<1>2. ~TwoHaveOneName(m)
  BY <1>1, Apart DEF TwoHaveOneName
<1>3. ASSUME NEW c \in Cols, g[c] \in Canon
      PROVE  c \in DOMAIN m /\ m[c] = g[c]
  <2>1. g[c] \in DOMAIN p /\ p[g[c]] = c /\ c \notin Excluded(p)
    BY <1>3, Apart DEF Delivered
  <2>2. c \in DOMAIN m
    BY <1>3, <2>1, Apart, FromConfParts
  <2>3. m[c] \in DOMAIN p /\ p[m[c]] = c
    BY <2>1, <2>2, FromConfParts
  <2> QED
    BY <2>1, <2>2, <2>3 DEF ApiShape
<1>4. ASSUME NEW c \in Cols
      PROVE  g[c] = None <=> c \in DOMAIN m /\ m[c] = None
  <2>1. g[c] = None <=> c \in Excluded(p)
    BY DEF Delivered
  <2>2. c \in DOMAIN m /\ m[c] = None => c \in Excluded(p)
    <3>1. \A k \in DOMAIN p \ {Excl} : k # None
      BY Apart DEF Api, Partial
    <3> QED
      BY <3>1, FromConfParts
  <2> QED
    BY <2>1, <2>2, FromConfParts
<1> QED
  BY <1>2, <1>3, <1>4 DEF Held

-----------------------------------------------------------------------------
(* Forms and the page *)

\* A form over a mapping.
LEMMA OverParts ==
    ASSUME NEW f, NEW g
    PROVE  /\ DOMAIN Over(f, g) = DOMAIN f \cup DOMAIN g
           /\ \A k \in DOMAIN f : Over(f, g)[k] = f[k]
           /\ \A k \in DOMAIN g \ DOMAIN f : Over(f, g)[k] = g[k]
BY DEF Over

LEMMA OverTyped ==
    ASSUME NEW f, NEW g, NEW S, NEW T, Partial(f, S, T), Partial(g, S, T)
    PROVE  Partial(Over(f, g), S, T)
BY DEF Over, Partial

\* An accepted form keeps the other answers.
LEMMA OverHeld ==
    ASSUME NEW m, NEW w \in Wants, NEW tr, Held(w, m, tr),
           NEW form, DOMAIN form \subseteq Cols
    PROVE  Held(Over(form, w), Over(form, m), tr)
<1> DEFINE v == Over(form, w)
           n == Over(form, m)
<1> SUFFICES ASSUME NEW c \in Cols
             PROVE  /\ v[c] \in Canon => c \in DOMAIN n /\ n[c] = v[c]
                    /\ tr \/ (v[c] = None <=> c \in DOMAIN n /\ n[c] = None)
  BY DEF Held
<1>1. c \in DOMAIN w
  BY DEF Wants
<1>2. CASE c \in DOMAIN form
  <2>1. v[c] = form[c] /\ c \in DOMAIN n /\ n[c] = form[c]
    BY <1>2, OverParts
  <2> QED
    BY <2>1
<1>3. CASE c \notin DOMAIN form
  <2>1. v[c] = w[c] /\ (c \in DOMAIN n <=> c \in DOMAIN m) /\ (c \in DOMAIN m => n[c] = m[c])
    BY <1>1, <1>3 DEF Over
  <2> QED
    BY <2>1 DEF Held
<1> QED
  BY <1>2, <1>3

\* What a page is filled with.
LEMMA OverlayTyped ==
    ASSUME NEW m, Mem(m), NEW sug, Partial(sug, Cols, Answers)
    PROVE  Partial(Overlay(sug, m), Cols, Answers)
<1>1. \A c \in DOMAIN sug : Overlay(sug, m)[c] \in Answers
  BY DEF Overlay, Partial, Mem, Answers
<1> QED
  BY <1>1 DEF Overlay, Partial

LEMMA SuggestionsTyped ==
    ASSUME NEW S \in SUBSET Cols
    PROVE  Partial(Suggestions(S), Cols, Answers)
BY Guesses DEF Suggestions, Partial, Answers

\* A held answer is shown.
LEMMA OverlayShows ==
    ASSUME NEW m, NEW w, NEW tr, Held(w, m, tr), NEW sug, NEW c \in DOMAIN sug, c \in Cols,
           w[c] \in Canon \cup (IF tr THEN {} ELSE {None})
    PROVE  Overlay(sug, m)[c] = w[c]
<1>1. c \in DOMAIN m /\ m[c] = w[c]
  BY DEF Held
<1>2. m[c] # Excl
  BY <1>1, Apart
<1> QED
  BY <1>1, <1>2 DEF Overlay

-----------------------------------------------------------------------------
(* Steps *)

LEMMA DeliveredSaid == ChoicesDelivered <=> rough \/ Delivered(agreed, api, turned)
BY DEF ChoicesDelivered, Delivered

LEMMA DeliveredSaidNext ==
    ChoicesDelivered' <=> rough' \/ Delivered(agreed', api', turned')
BY DEF ChoicesDelivered, Delivered, Excluded

\* A connected session has the operator's answers.
LEMMA ConnectedHeld ==
    ASSUME IInv, connected, ~rough
    PROVE  Held(want, mem, turned) /\ ~TwoHaveOneName(mem)
<1>1. CASE mem # Empty
  BY <1>1 DEF IInv, MemHeld
<1>2. CASE mem = Empty
  <2>1. want = agreed /\ api = Empty
    BY <1>2 DEF IInv, Sessions
  <2>2. DOMAIN api = {} /\ DOMAIN mem = {} /\ Excluded(api) = {}
    BY <1>2, <2>1, EmptyPartial DEF Excluded
  <2>3. Delivered(want, api, turned)
    BY <2>1, DeliveredSaid DEF IInv
  <2> QED
    BY <2>2, <2>3 DEF Delivered, Held, TwoHaveOneName
<1> QED
  BY <1>1, <1>2

LEMMA OpenPageKeeps ==
    ASSUME IInv, NEW t \in Tabs, OpenPage(t)
    PROVE  IInv'
<1>1. schema' = NoPage \/ Partial(schema', Cols, Answers)
  <2>1. ASSUME NEW sug \in {Suggestions(table)} \cup ({schema} \ {NoPage}),
               schema' = Overlay(sug, mem)
        PROVE  Partial(schema', Cols, Answers)
    <3>1. Partial(sug, Cols, Answers)
      BY SuggestionsTyped DEF IInv, TypeOK
    <3> QED
      BY <2>1, <3>1, OverlayTyped DEF IInv, TypeOK, Mem
  <2> QED
    BY <2>1 DEF OpenPage
<1>2. Page(schema') \in SUBSET Cols
  BY <1>1 DEF Page, Partial
<1>3. TypeOK'
  BY <1>1, <1>2 DEF IInv, TypeOK, OpenPage, seenVars
<1>4. Sessions'
  BY DEF IInv, TypeOK, Sessions, OpenPage, seenVars
<1>5. Shapes' /\ MemHeld'
  BY DEF IInv, Shapes, MemHeld, OpenPage, seenVars
<1>6. ChoicesDelivered'
  BY DeliveredSaid, DeliveredSaidNext DEF IInv, OpenPage, seenVars
<1> QED
  BY <1>3, <1>4, <1>5, <1>6 DEF IInv

LEMMA AcceptKeeps ==
    ASSUME IInv, NEW t \in Tabs, pages[t] # NoPage, NEW form \in Forms(t), Accept(t, form)
    PROVE  IInv'
<1>1. connected /\ pages[t] \in SUBSET Cols
  BY DEF IInv, Sessions, TypeOK
<1>2. form = [c \in DOMAIN form |-> form[c]] /\ DOMAIN form \subseteq Cols
        /\ \A c \in DOMAIN form : form[c] \in Answers
  BY <1>1 DEF Forms
<1>3. Partial(form, Fields, Answers \cup {Excl}) /\ Partial(form, Cols, Answers \cup {Unasked})
  BY <1>2 DEF Partial, Fields
<1>4. mem' = Over(form, mem) /\ want' = Over(form, want) /\ progress' = mem'
        /\ schema' = NoPage /\ pages' = [pages EXCEPT ![t] = NoPage]
        /\ rough' = (rough \/ TwoHaveOneName(mem'))
        /\ UNCHANGED <<table, connected, api, agreed, turned>>
  BY DEF Accept
<1>5. TypeOK'
  <2>1. Partial(mem', Fields, Answers \cup {Excl})
    BY <1>3, <1>4, OverTyped DEF IInv, TypeOK
  <2>2. want' \in Wants
    BY <1>2, <1>4 DEF Over, Wants, IInv, TypeOK
  <2> QED
    BY <1>4, <2>1, <2>2 DEF IInv, TypeOK, Wants
<1>6. Shapes'
  <2>1. MemShape(mem', turned')
    <3> SUFFICES ASSUME NEW k \in DOMAIN mem'
                 PROVE  (k \in Cols \/ mem'[k] = Excl) /\ (mem'[k] = Excl => turned')
      BY DEF MemShape
    <3>1. CASE k \in DOMAIN form
      <4>1. mem'[k] = form[k]
        BY <1>4, <3>1 DEF Over
      <4> QED
        BY <1>2, <3>1, <4>1, Apart DEF Answers
    <3>2. CASE k \notin DOMAIN form
      <4>1. k \in DOMAIN mem /\ mem'[k] = mem[k]
        BY <1>4, <3>2 DEF Over
      <4> QED
        BY <1>4, <4>1 DEF IInv, Shapes, MemShape
    <3> QED
      BY <3>1, <3>2
  <2> QED
    BY <1>4, <2>1 DEF IInv, Shapes
<1>7. MemHeld'
  <2> SUFFICES ASSUME ~rough'
               PROVE  Held(want', mem', turned') /\ ~TwoHaveOneName(mem')
    BY DEF MemHeld
  <2>1. ~rough /\ ~TwoHaveOneName(mem')
    BY <1>4
  <2>2. Held(want, mem, turned)
    BY <1>1, <2>1, ConnectedHeld
  <2> QED
    BY <1>2, <1>4, <2>1, <2>2, OverHeld DEF IInv, TypeOK, Wants
<1>8. Sessions'
  <2>1. ASSUME mem' = Empty
        PROVE  mem = Empty /\ want' = want
    <3>1. DOMAIN form = {} /\ DOMAIN mem = {}
      <4>1. DOMAIN mem' = DOMAIN form \cup DOMAIN mem
        BY <1>4 DEF Over
      <4> QED
        BY <2>1, <4>1, EmptyPartial
    <3>2. mem = Empty
      BY <3>1, EmptyPartial DEF IInv, TypeOK
    <3> QED
      BY <1>4, <3>1, <3>2 DEF Over, IInv, TypeOK
  <2> QED
    BY <1>4, <2>1 DEF IInv, Sessions, TypeOK
<1>9. ChoicesDelivered'
  BY <1>4, DeliveredSaid, DeliveredSaidNext DEF IInv
<1> QED
  BY <1>5, <1>6, <1>7, <1>8, <1>9 DEF IInv

LEMMA RefuseKeeps ==
    ASSUME IInv, NEW t \in Tabs, pages[t] # NoPage, NEW form \in Forms(t), Refuse(t, form)
    PROVE  IInv'
<1>1. schema' = NoPage \/ Partial(schema', Cols, Answers)
  BY SuggestionsTyped DEF Refuse, IInv, TypeOK
<1>2. Page(schema') \in SUBSET Cols
  BY <1>1 DEF Page, Partial
<1>3. TypeOK'
  BY <1>1, <1>2 DEF IInv, TypeOK, Refuse, seenVars
<1>4. Sessions'
  BY DEF IInv, TypeOK, Sessions, Refuse, seenVars
<1>5. Shapes' /\ MemHeld'
  BY DEF IInv, Shapes, MemHeld, Refuse, seenVars
<1>6. ChoicesDelivered'
  BY DeliveredSaid, DeliveredSaidNext DEF IInv, Refuse, seenVars
<1> QED
  BY <1>3, <1>4, <1>5, <1>6 DEF IInv

LEMMA NewSessionKeeps ==
    ASSUME IInv, NewSession
    PROVE  IInv'
<1>1. progress = mem \/ progress = Empty
  BY DEF IInv, Sessions
<1>2. MemShape(Empty, turned)
  BY EmptyPartial DEF MemShape
<1>3. TypeOK'
  BY DEF IInv, TypeOK, NewSession
<1>4. Sessions'
  BY <1>1 DEF IInv, Sessions, NewSession
<1>5. Shapes'
  BY <1>1, <1>2 DEF IInv, Shapes, NewSession
<1>6. MemHeld'
  BY <1>1 DEF IInv, MemHeld, NewSession
<1>7. ChoicesDelivered'
  BY DeliveredSaid, DeliveredSaidNext DEF IInv, NewSession
<1> QED
  BY <1>3, <1>4, <1>5, <1>6, <1>7 DEF IInv

LEMMA CleanUpKeeps ==
    ASSUME IInv, CleanUp
    PROVE  IInv'
<1>1. TypeOK'
  BY EmptyPartial DEF IInv, TypeOK, CleanUp, seenVars
<1>2. Sessions'
  BY DEF IInv, Sessions, CleanUp, seenVars
<1>3. Shapes' /\ MemHeld'
  BY DEF IInv, Shapes, MemHeld, CleanUp, seenVars
<1>4. ChoicesDelivered'
  BY DeliveredSaid, DeliveredSaidNext DEF IInv, CleanUp, seenVars
<1> QED
  BY <1>1, <1>2, <1>3, <1>4 DEF IInv

\* A mapping read back has what was applied, or is known not to.
LEMMA ReadBackKeeps ==
    ASSUME IInv, mem = Empty, ReadBack
    PROVE  /\ Mem(mem') /\ turned' \in BOOLEAN /\ rough' \in BOOLEAN
           /\ MemShape(mem', turned')
           /\ ~rough' => ~rough /\ (turned => turned')
           /\ ~rough' /\ mem' # Empty => Held(want, mem', turned') /\ ~TwoHaveOneName(mem')
           /\ ~rough' /\ mem' = Empty => api = Empty
           /\ Delivered(agreed, api, turned) => Delivered(agreed, api, turned')
<1>1. Api(api) /\ ApiShape(api) /\ want = agreed /\ turned \in BOOLEAN /\ rough \in BOOLEAN
  BY DEF IInv, TypeOK, Api, Shapes, Sessions
<1>2. ~rough => Delivered(want, api, turned)
  BY <1>1, DeliveredSaid DEF IInv
<1>3. ASSUME mem' = FromApi(api), turned' = (turned \/ Excl \in DOMAIN api), rough' = rough
      PROVE  /\ Mem(mem') /\ MemShape(mem', turned')
             /\ ~rough => Held(want, mem', turned') /\ ~TwoHaveOneName(mem')
             /\ mem' = Empty => api = Empty
  <2>1. turned' \in BOOLEAN /\ (turned' <=> (turned \/ Excl \in DOMAIN api))
    BY <1>1, <1>3
  <2>2. Mem(mem')
    BY <1>1, <1>3, FromApiTyped
  <2>3. \A c \in DOMAIN mem' : mem'[c] \in Canon \cup {Excl} /\ api[mem'[c]] = c
                               /\ mem'[c] \in DOMAIN api
    BY <1>1, <1>3, FromApiParts DEF Api, Partial
  <2>4. MemShape(mem', turned')
    BY <1>1, <2>1, <2>3 DEF MemShape, ApiShape
  <2>5. ~rough => Held(want, mem', turned') /\ ~TwoHaveOneName(mem')
    BY <1>1, <1>2, <1>3, <2>1, FromApiHolds
  <2>6. mem' = Empty => api = Empty
    <3>1. mem' = Empty => DOMAIN api = {}
      BY <1>3, EmptyPartial, FromApiParts
    <3> QED
      BY <1>1, <3>1, EmptyPartial DEF Api
  <2> QED
    BY <2>2, <2>4, <2>5, <2>6
<1>4. ASSUME mem' = FromConf(api), turned' = turned, rough' = (rough \/ turned)
      PROVE  /\ Mem(mem') /\ MemShape(mem', turned')
             /\ ~rough' => Held(want, mem', turned') /\ ~TwoHaveOneName(mem')
             /\ ~rough' /\ mem' = Empty => api = Empty
  <2>1. Mem(mem') /\ MemShape(mem', turned')
    BY <1>1, <1>4, FromConfTyped, FromConfShape
  <2>2. ASSUME ~rough'
        PROVE  ~rough /\ ~turned /\ turned' = FALSE /\ turned = FALSE
    BY <1>1, <1>4, <2>2
  <2>3. ASSUME ~rough'
        PROVE  Held(want, mem', turned') /\ ~TwoHaveOneName(mem')
    BY <1>1, <1>2, <1>4, <2>2, <2>3, FromConfHolds
  <2>4. ASSUME ~rough', mem' = Empty
        PROVE  api = Empty
    <3>1. Excluded(api) = {} /\ DOMAIN api \subseteq {Excl}
      BY <1>4, <2>4, EmptyPartial, FromConfParts
    <3>2. Excl \notin DOMAIN api
      <4> SUFFICES ASSUME Excl \in DOMAIN api
                   PROVE  FALSE
        OBVIOUS
      <4>1. api[Excl] \in Fields /\ Split(api[Excl]) = {}
        BY <1>1, <3>1 DEF Excluded, Api, Partial
      <4>2. Split(api[Excl]) # {}
        BY <4>1, ListsNotEmpty
      <4> QED
        BY <4>1, <4>2
    <3> QED
      BY <1>1, <3>1, <3>2, EmptyPartial DEF Api
  <2> QED
    BY <2>1, <2>3, <2>4
<1>5. ASSUME mem' = Empty, turned' = turned, rough' = (rough \/ api # Empty)
      PROVE  Mem(mem') /\ MemShape(mem', turned')
  BY <1>5, EmptyPartial DEF Mem, MemShape
<1>6. \/ mem' = FromApi(api) /\ turned' = (turned \/ Excl \in DOMAIN api) /\ rough' = rough
      \/ mem' = FromConf(api) /\ turned' = turned /\ rough' = (rough \/ turned)
      \/ mem' = Empty /\ turned' = turned /\ rough' = (rough \/ api # Empty)
  BY DEF ReadBack
<1>7. turned' \in BOOLEAN /\ rough' \in BOOLEAN /\ (turned => turned') /\ (rough => rough')
  BY <1>1, <1>6
<1>8. Delivered(agreed, api, turned) => Delivered(agreed, api, turned')
  BY <1>7 DEF Delivered
<1>9. Mem(mem') /\ MemShape(mem', turned')
  BY <1>3, <1>4, <1>5, <1>6
<1>10. ~rough' /\ mem' # Empty => Held(want, mem', turned') /\ ~TwoHaveOneName(mem')
  BY <1>3, <1>4, <1>6
<1>11. ~rough' /\ mem' = Empty => api = Empty
  BY <1>3, <1>4, <1>6
<1> QED
  BY <1>7, <1>8, <1>9, <1>10, <1>11

LEMMA ConnectKeeps ==
    ASSUME IInv, Connect
    PROVE  IInv'
<1>1. /\ connected' = TRUE /\ progress' = mem'
      /\ UNCHANGED <<table, schema, pages, api, want, agreed>>
  BY DEF Connect
<1>2. /\ Mem(mem') /\ turned' \in BOOLEAN /\ rough' \in BOOLEAN
      /\ MemShape(mem', turned')
      /\ ~rough' /\ mem' # Empty => Held(want, mem', turned') /\ ~TwoHaveOneName(mem')
      /\ ~rough' /\ mem' = Empty => api = Empty
      /\ mem' = Empty => want = agreed
      /\ ~rough' => Delivered(agreed, api, turned')
  <2>1. ~rough => Delivered(agreed, api, turned)
    BY DeliveredSaid DEF IInv
  <2>2. CASE mem # Empty
    <3>1. UNCHANGED <<mem, turned, rough>>
      BY <2>2 DEF Connect
    <3> QED
      BY <2>1, <2>2, <3>1 DEF IInv, TypeOK, Mem, Shapes, MemHeld
  <2>3. CASE mem = Empty
    <3>1. ReadBack
      BY <2>3 DEF Connect
    <3>2. want = agreed
      BY <2>3 DEF IInv, Sessions
    <3> QED
      BY <2>1, <2>3, <3>1, <3>2, ReadBackKeeps
  <2> QED
    BY <2>2, <2>3
<1>3. TypeOK'
  BY <1>1, <1>2 DEF IInv, TypeOK, Mem
<1>4. Sessions'
  BY <1>1, <1>2 DEF Sessions
<1>5. Shapes' /\ MemHeld'
  BY <1>1, <1>2 DEF IInv, Shapes, MemHeld
<1>6. ChoicesDelivered'
  BY <1>1, <1>2, DeliveredSaidNext
<1> QED
  BY <1>3, <1>4, <1>5, <1>6 DEF IInv

LEMMA ApplyKeeps ==
    ASSUME IInv, Apply
    PROVE  IInv'
<1>1. /\ api' \in Payloads(mem) /\ agreed' = want /\ progress' = mem
      /\ UNCHANGED <<table, connected, mem, schema, pages, want, turned, rough>>
  BY DEF Apply
<1>2. Mem(mem) /\ MemShape(mem, turned)
  BY DEF IInv, TypeOK, Mem, Shapes
<1>3. Api(api') /\ ApiShape(api')
  BY <1>1, <1>2, PayloadTyped, PayloadShape
<1>4. TypeOK'
  BY <1>1, <1>3 DEF IInv, TypeOK, Api
<1>5. Sessions'
  <2>1. mem = Empty => api' = Empty
    <3>1. mem = Empty => DOMAIN api' = {}
      BY <1>1, EmptyPartial, NothingSent
    <3> QED
      BY <1>3, <3>1, EmptyPartial DEF Api
  <2> QED
    BY <1>1, <2>1 DEF IInv, Sessions
<1>6. Shapes' /\ MemHeld'
  BY <1>1, <1>2, <1>3 DEF IInv, Shapes, MemHeld
<1>7. ChoicesDelivered'
  <2>1. ~rough => Delivered(want, api', turned)
    BY <1>1, <1>2, ConnectedHeld, PayloadDelivers DEF Apply
  <2> QED
    BY <1>1, <2>1, DeliveredSaidNext
<1> QED
  BY <1>4, <1>5, <1>6, <1>7 DEF IInv

LEMMA TableChangesKeeps ==
    ASSUME IInv, TableChanges
    PROVE  IInv'
<1>1. TypeOK'
  BY DEF IInv, TypeOK, TableChanges, sessionVars, seenVars
<1>2. Sessions' /\ Shapes' /\ MemHeld'
  BY DEF IInv, Sessions, Shapes, MemHeld, TableChanges, sessionVars, seenVars
<1>3. ChoicesDelivered'
  BY DeliveredSaid, DeliveredSaidNext DEF IInv, TableChanges, sessionVars, seenVars
<1> QED
  BY <1>1, <1>2, <1>3 DEF IInv

-----------------------------------------------------------------------------
(* Theorems *)

LEMMA StartGood == Init => IInv
<1> SUFFICES ASSUME Init
             PROVE  IInv
  OBVIOUS
<1>1. TypeOK
  BY EmptyPartial DEF Init, TypeOK
<1>2. Sessions
  BY DEF Init, Sessions
<1>3. Shapes /\ MemHeld
  BY EmptyPartial DEF Init, Shapes, MemShape, ApiShape, MemHeld
<1>4. ChoicesDelivered
  <2>1. DOMAIN api = {} /\ Excluded(api) = {} /\ \A c \in Cols : agreed[c] = Unasked
    BY EmptyPartial DEF Init, Excluded
  <2>2. Delivered(agreed, api, turned)
    BY <2>1, Apart DEF Delivered, Answers
  <2> QED
    BY <2>2, DeliveredSaid
<1> QED
  BY <1>1, <1>2, <1>3, <1>4 DEF IInv

LEMMA StepsGood == IInv /\ [Next]_vars => IInv'
<1> SUFFICES ASSUME IInv, [Next]_vars
             PROVE  IInv'
  OBVIOUS
<1>1. CASE Step3
  BY <1>1, OpenPageKeeps, AcceptKeeps, RefuseKeeps DEF Step3
<1>2. CASE NewSession
  BY <1>2, NewSessionKeeps
<1>3. CASE CleanUp
  BY <1>3, CleanUpKeeps
<1>4. CASE Connect
  BY <1>4, ConnectKeeps
<1>5. CASE Apply
  BY <1>5, ApplyKeeps
<1>6. CASE TableChanges
  BY <1>6, TableChangesKeeps
<1>7. CASE UNCHANGED vars
  <2>1. TypeOK'
    BY <1>7 DEF IInv, TypeOK, vars, sessionVars, seenVars
  <2>2. Sessions' /\ Shapes' /\ MemHeld'
    BY <1>7 DEF IInv, Sessions, Shapes, MemHeld, vars, sessionVars, seenVars
  <2>3. ChoicesDelivered'
    BY <1>7, DeliveredSaid, DeliveredSaidNext DEF IInv, vars, sessionVars, seenVars
  <2> QED
    BY <2>1, <2>2, <2>3 DEF IInv
<1> QED
  BY <1>1, <1>2, <1>3, <1>4, <1>5, <1>6, <1>7 DEF Next

LEMMA AlwaysIInv == Spec => []IInv
<1> QED
  BY StartGood, StepsGood, PTL DEF Spec

\* The mapping of the session, of its progress file and of the API, and the cached page, are
\* of their types (wizard/state.py, wizard_apply, step3_get, step3_post).
THEOREM MappingTypeCorrect == Spec => []TypeOK
<1>1. IInv => TypeOK
  BY DEF IInv
<1> QED
  BY <1>1, AlwaysIInv, PTL

\* Each name that was applied is fed by the column it was given to, over later runs of the
\* wizard too, and until a list of unmapped columns was read back the list is of the columns
\* left unmapped (wizard_apply, _merge_from_api_current_config, step3_post).
THEOREM ChoicesAlwaysDelivered == Spec => []ChoicesDelivered
<1>1. IInv => ChoicesDelivered
  BY DEF IInv
<1> QED
  BY <1>1, AlwaysIInv, PTL

\* Whenever step 3 opens it has the operator's answers selected, whatever the columns' names
\* resemble (step3_get).
THEOREM ChoicesAlwaysShown == Spec => ChoicesShown
<1>1. IInv /\ [Next]_vars =>
        [Reopened => rough \/ \A c \in DOMAIN schema' :
            want[c] \in Canon \cup (IF turned THEN {} ELSE {None}) => schema'[c] = want[c]]_vars
  <2> SUFFICES ASSUME IInv, Reopened, ~rough, NEW c \in DOMAIN schema',
                      want[c] \in Canon \cup (IF turned THEN {} ELSE {None})
               PROVE  schema'[c] = want[c]
    OBVIOUS
  <2>1. PICK t \in Tabs : OpenPage(t)
    BY DEF Reopened
  <2>2. PICK sug \in {Suggestions(table)} \cup ({schema} \ {NoPage}) :
          schema' = Overlay(sug, mem)
    BY <2>1 DEF OpenPage, Reopened
  <2>3. Partial(sug, Cols, Answers)
    BY SuggestionsTyped DEF IInv, TypeOK
  <2>4. c \in DOMAIN sug /\ c \in Cols
    BY <2>2, <2>3 DEF Overlay, Partial
  <2>5. Held(want, mem, turned)
    BY <2>1, ConnectedHeld DEF OpenPage
  <2> QED
    BY <2>2, <2>4, <2>5, OverlayShows
<1> QED
  BY <1>1, AlwaysIInv, PTL DEF Spec, ChoicesShown
=============================================================================
