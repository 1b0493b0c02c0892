---------------------------- MODULE AdminSections ----------------------------
(***************************************************************************)
(* The sections of the admin pages and the files they are saved in:        *)
(* stack.conf and api.conf, whose managed region is rewritten and whose    *)
(* other text is the operator's; branding.json, pages.json and             *)
(* now-layout.json; secrets.env; known_apis.json and caddy.env; and the    *)
(* API's surf score weights (admin/routes.py, config/updater.py,           *)
(* config/reader.py, registry/validation.py).  Beside them write the       *)
(* operator's editor and the wizard's Apply.                               *)
(*                                                                         *)
(* The service is one thread and a handler does not wait between reading   *)
(* a file and writing it, so a save is one step; forms that were opened    *)
(* long ago may bring any values.  What a file reads as when it was cut    *)
(* short is what it reads as when it is empty.                             *)
(*                                                                         *)
(* The API on this host, which writes api.conf too, is not modelled: the   *)
(* properties are about api.conf between two of its writes.                *)
(***************************************************************************)
EXTENDS FiniteSets, Naturals, Sequences, SequencesExt

CONSTANTS
    Values,  \* of a key
    Urls,    \* of the API
    Quoted,  \* the values with a single quote in them
    Spoilt,  \* what such a value reads as once it was escaped
    Absent,  \* a key that is not there
    Unsaved, \* a key no save has answered for
    Gone,    \* the file is not there
    Offers,  \* the sections one operator may use, by choice
    MaxHand, \* bound: lines the operator has written in a conf file
    MaxPins  \* bound: entries in known_apis.json

Sections == {"webcam", "earthquakes", "card", "sky", "database", "conditions", "columns",
             "branding", "analytics", "pages", "layout", "surf", "connection"}

Keys == [
    webcam |-> {"enabled", "image_url"}, earthquakes |-> {"radius_km"}, card |-> {"setting"},
    sky |-> {"scatter_few_max"}, database |-> {"host", "password"},
    conditions |-> {"haze_detection", "openaq_sensor_id"}, columns |-> {"col_a", "col_b"},
    branding |-> {"site_title"}, analytics |-> {"google_analytics_id"}, pages |-> {"hidden"}, layout |-> {"cards"},
    surf |-> {"weights"}, connection |-> {"api_url"}]

File == [
    webcam |-> "stack", earthquakes |-> "stack", card |-> "stack", sky |-> "api",
    database |-> "api", conditions |-> "api", columns |-> "api", branding |-> "branding",
    analytics |-> "branding", pages |-> "pages", layout |-> "layout", surf |-> "surf", connection |-> "known"]

AllKeys  == UNION {Keys[s] : s \in Sections}
Confs    == {"stack", "api"}
Jsons    == {"branding", "pages", "layout"}
KeysIn(f) == UNION {Keys[s] : s \in {t \in Sections : File[t] = f}}
JsonKeys == UNION {KeysIn(f) : f \in Jsons}
Secrets  == {"password"}
FileOf(k) == File[CHOOSE s \in Sections : k \in Keys[s]]

ASSUME SpecialValues == {Absent, Unsaved, Gone, Spoilt} \cap (Values \cup Urls) = {}
ASSUME QuotedValues  == Quoted \subseteq Values
ASSUME OffersSections == Offers \subseteq SUBSET Sections
ASSUME BoundsGiven    == MaxHand \in Nat /\ MaxPins \in Nat \ {0}

VARIABLES
    used,   \* the sections this operator uses
    text,   \* the lines of stack.conf and api.conf
    json,   \* the values in the JSON files
    secret, \* the database password in secrets.env
    pins,   \* the URLs in known_apis.json, in their order
    caddy,  \* the URL in caddy.env
    surf,   \* the API's surf score weights
    last,   \* what the last save of a key put there, as long as nothing else wrote it
    hand    \* how many lines the operator has written in each conf file

vars == <<used, text, json, secret, pins, caddy, surf, last, hand>>

-----------------------------------------------------------------------------
(* Conf files.                                                             *)

Begin == <<"begin">>
End   == <<"end">>
Hand  == <<"hand">>
Entry(k, v) == <<"entry", k, v>>

At(t, line) == SelectInSeq(t, LAMBDA l : l = line)
Marked(t)   == At(t, Begin) # 0 /\ At(t, End) # 0

\* What reader.py takes for the managed region: all of a file without markers.
Region(t) == IF Marked(t) THEN SubSeq(t, At(t, Begin) + 1, At(t, End) - 1) ELSE t

IsOf(line, k) == line[1] = "entry" /\ line[2] = k
LineOf(r, k) == CHOOSE l \in Range(r) : IsOf(l, k)
Parsed(r) == [k \in AllKeys |->
    IF \E i \in DOMAIN r : IsOf(r[i], k) THEN LineOf(r, k)[3] ELSE Absent]

\* Mutant: a section is replaced, not merged.
OverAll(r, vals) ==
    SelectSeq(r, LAMBDA l : l[1] # "entry") \o SetToSeq({Entry(k, vals[k]) : k \in DOMAIN vals})

\* Mutant: keys are added without a look at those that are there.
OverAppended(r, vals) == r \o SetToSeq({Entry(k, vals[k]) : k \in DOMAIN vals})

\* Keys are updated where they are and added where they are not; none is removed.
Over(r, vals) ==
    [i \in DOMAIN r |-> IF r[i][1] = "entry" /\ r[i][2] \in DOMAIN vals
                        THEN Entry(r[i][2], vals[r[i][2]]) ELSE r[i]]
    \o SetToSeq({Entry(k, vals[k]) : k \in {k \in DOMAIN vals : \A i \in DOMAIN r : ~IsOf(r[i], k)}})

\* Mutant: the text after the region is not put back.
SplicedShort(t, r) == IF Marked(t) THEN SubSeq(t, 1, At(t, Begin)) \o r \o <<End>>
                      ELSE <<Begin>> \o r \o <<End>>

\* The region goes back between its markers, which a file without them is given.
Spliced(t, r) ==
    IF Marked(t)
    THEN SubSeq(t, 1, At(t, Begin)) \o r \o SubSeq(t, At(t, End), Len(t))
    ELSE <<Begin>> \o r \o <<End>>

Updated(t, vals) == Spliced(t, Over(Region(t), vals))

\* The lines of r that are not of keys K, in their order.
Kept(r, K) ==
    LET S == {i \in DOMAIN r : \A k \in K : ~IsOf(r[i], k)}
    IN  [n \in 1..Cardinality(S) |-> r[CHOOSE i \in S : Cardinality({j \in S : j <= i}) = n]]

Without(t, K) == Spliced(t, Kept(Region(t), K))

HandLines(t) == Cardinality({i \in DOMAIN t : t[i] = Hand})

\* What is stored for a key.  Its page comes up with that, but a card's page, which
\* always comes up with the defaults (_read_section_values).
Stored(k) ==
    CASE k \in Secrets -> secret
      [] FileOf(k) \in Confs /\ k \notin Secrets ->
            IF text[FileOf(k)] = Gone THEN Absent ELSE Parsed(Region(text[FileOf(k)]))[k]
      [] FileOf(k) \in Jsons -> json[k]
      [] FileOf(k) = "surf"  -> surf
      [] FileOf(k) = "known" -> IF pins = <<>> THEN Absent ELSE Head(pins)

Lines == {Begin, End, Hand} \cup {Entry(k, v) : k \in AllKeys, v \in Values}

ASSUME GoneIsNoText == Gone \notin Seq(Lines)

TypeOK ==
    /\ used \in Offers
    /\ \A c \in Confs : text[c] # Gone =>
         /\ Range(text[c]) \subseteq Lines
         /\ \A i, j \in DOMAIN text[c] : text[c][i] = text[c][j] => i = j \/ text[c][i] = Hand
         /\ \A k \in AllKeys : \A i, j \in DOMAIN text[c] :
              IsOf(text[c][i], k) /\ IsOf(text[c][j], k) => i = j
         /\ Marked(text[c]) => At(text[c], Begin) < At(text[c], End)
    /\ json \in [JsonKeys -> Values \cup {Absent}]
    /\ secret \in Values \cup {Absent, Spoilt}
    /\ Range(pins) \subseteq Urls /\ Len(pins) <= MaxPins
    /\ caddy \in Urls \cup {Absent}
    /\ surf \in Values \cup {Absent}
    /\ last \in [AllKeys -> Values \cup Urls \cup {Absent, Unsaved}]
    /\ hand \in [Confs -> 0..MaxHand]

\* After the wizard: with its stack.conf or one written by hand; api.conf is here
\* when the API is.
Init ==
    /\ used \in Offers
    /\ text \in [stack : {<<Begin, End>>, <<>>}, api : {<<Begin, End>>, <<>>, Gone}]
    /\ json = [k \in JsonKeys |-> Absent]
    /\ secret = Absent
    /\ pins \in {<<>>} \cup {<<u>> : u \in Urls}
    /\ caddy = IF pins = <<>> THEN Absent ELSE Head(pins)
    /\ surf = Absent
    /\ last = [k \in AllKeys |-> Unsaved]
    /\ hand = [c \in Confs |-> 0]

-----------------------------------------------------------------------------
(* Saves.                                                                  *)

Put(g, vals) == [k \in DOMAIN g |-> IF k \in DOMAIN vals THEN vals[k] ELSE g[k]]
Forget(K)    == [k \in AllKeys |-> IF k \in K THEN Unsaved ELSE last[k]]

\* The write of conf file c: done, refused by the system, or cut short by a full
\* disk or a crash.  Keys K are no longer answered for unless it is done.
WriteConf(c, new, answered, K) ==
    \/ /\ text' = [text EXCEPT ![c] = new]
       /\ last' = answered /\ UNCHANGED hand
    \/ /\ UNCHANGED <<text, hand>>
       /\ last' = Forget(K)
    \/ /\ text' = [text EXCEPT ![c] = <<>>]
       /\ last' = Forget(KeysIn(c) \cup K)
       /\ hand' = [hand EXCEPT ![c] = 0]

\* generic_section_post: every field of the section.
SaveConf(s) ==
    /\ s \in used \cap {"webcam", "earthquakes", "card", "sky"}
    /\ text[File[s]] # Gone
    /\ \E vals \in [Keys[s] -> Values] :
         WriteConf(File[s], Updated(text[File[s]], vals), Put(last, vals), {})
    /\ UNCHANGED <<used, json, secret, pins, caddy, surf>>

\* config_section_post: the fields of its form, which has those that are in the file.
EditWebcam ==
    /\ "webcam" \in used /\ text["stack"] # Gone
    /\ \E K \in (SUBSET Keys["webcam"]) \ {{}} : \E vals \in [K -> Values] :
         WriteConf("stack", Updated(text["stack"], vals), Put(last, vals), {})
    /\ UNCHANGED <<used, json, secret, pins, caddy, surf>>

\* The password goes to secrets.env first; what then fails does not take it back.
EditDatabase ==
    /\ "database" \in used /\ text["api"] # Gone
    /\ \E K \in (SUBSET Keys["database"]) \ {{}} : \E vals \in [K -> Values] :
         LET conf == [k \in K \ Secrets |-> vals[k]]
         IN  \/ /\ secret' = IF "password" \in K THEN vals["password"] ELSE secret
                /\ IF DOMAIN conf = {}
                   THEN last' = Put(last, vals) /\ UNCHANGED <<text, hand>>
                   ELSE WriteConf("api", Updated(text["api"], conf), Put(last, vals), K \cap Secrets)
             \/ /\ "password" \in K
                /\ secret' \in {secret, Absent}
                /\ last' = IF secret' = secret THEN last ELSE Forget(Secrets)
                /\ UNCHANGED <<text, hand>>
    /\ UNCHANGED <<used, json, pins, caddy, surf>>

\* haze_calibration_post: the sensor only if its list was loaded and it is a number.
SaveHaze ==
    /\ "conditions" \in used /\ text["api"] # Gone
    /\ \E K \in {{"haze_detection"}, Keys["conditions"]} : \E vals \in [K -> Values] :
         WriteConf("api", Updated(text["api"], vals), Put(last, vals), {})
    /\ UNCHANGED <<used, json, secret, pins, caddy, surf>>

\* column_mapping_post writes the mapped columns of its form, reads the file again
\* and, if columns were left unmapped, writes it without those.
SaveColumns ==
    /\ "columns" \in used /\ text["api"] # Gone
    /\ \E K \in SUBSET Keys["columns"] : \E vals \in [K -> Values \cup {Absent}] :
         LET mapped == {k \in K : vals[k] # Absent}
             first  == Updated(text["api"], [k \in mapped |-> vals[k]])
         IN  IF mapped = K
             THEN WriteConf("api", first, Put(last, vals), {})
             ELSE \/ WriteConf("api", Without(first, K \ mapped), Put(last, vals), {})
                  \/ /\ text' = [text EXCEPT !["api"] = first]
                     /\ last' = Forget(K) /\ UNCHANGED hand
    /\ UNCHANGED <<used, json, secret, pins, caddy, surf>>

\* update_branding merges, update_pages and now_layout_post replace; their files have
\* no other keys.
SaveJson(s) ==
    /\ s \in used /\ File[s] \in Jsons
    /\ \E vals \in [Keys[s] -> Values] :
         \/ json' = Put(json, vals) /\ last' = Put(last, vals)
         \/ UNCHANGED <<json, last>>
         \/ /\ json' = [k \in JsonKeys |-> IF k \in KeysIn(File[s]) THEN Absent ELSE json[k]]
            /\ last' = Forget(KeysIn(File[s]))
    /\ UNCHANGED <<used, text, secret, pins, caddy, surf, hand>>

\* surf_scoring_post: an error may come of an apply that was carried out.
SaveSurf ==
    /\ "surf" \in used
    /\ \E w \in Values :
         \/ surf' = w /\ last' \in {Put(last, [weights |-> w]), Forget({"weights"})}
         \/ UNCHANGED <<surf, last>>
    /\ UNCHANGED <<used, text, json, secret, pins, caddy, hand>>

\* connection_post: the new URL takes the place of the first one, and of all others.
\* Then caddy.env is written, and Caddy reloads; any of these may fail.
SaveConnection ==
    /\ "connection" \in used
    /\ \E url \in Urls :
         LET repinned == IF pins # <<>> /\ Head(pins) = url THEN pins ELSE <<url>>
         IN  \/ /\ pins' = repinned /\ caddy' = url
                /\ last' \in {Put(last, [api_url |-> url]), Forget({"api_url"})}
             \/ pins' \in {repinned, <<>>} /\ caddy' \in {caddy, Absent} /\ last' = Forget({"api_url"})
             \/ UNCHANGED <<pins, caddy, last>>
    /\ UNCHANGED <<used, text, json, secret, surf, hand>>

-----------------------------------------------------------------------------
(* The other writers.                                                      *)

\* The files the operator's sections are in; what else writes to others is left out.
Watched == {File[s] : s \in used}

\* The operator adds a line of text below the region, or in a file without one,
\* which may be a new file.
HandEdit(c) ==
    /\ c \in Watched
    /\ hand[c] < MaxHand
    /\ text' = [text EXCEPT ![c] = IF @ = Gone THEN <<Hand>> ELSE Append(@, Hand)]
    /\ hand' = [hand EXCEPT ![c] = @ + 1]
    /\ UNCHANGED <<used, json, secret, pins, caddy, surf, last>>

\* Step 1 of the wizard pins a further API.
Pin(url) ==
    /\ "connection" \in used
    /\ Len(pins) < MaxPins /\ url \notin Range(pins)
    /\ pins' = Append(pins, url)
    /\ last' = IF pins = <<>> THEN Forget({"api_url"}) ELSE last
    /\ UNCHANGED <<used, text, json, secret, caddy, surf, hand>>

\* Apply takes the values of secrets.env as they stand between their outer quotes and
\* escapes the quotes in them, which no reader undoes.
Requoted(v) == IF v \in Quoted \cup {Spoilt} THEN Spoilt ELSE v

\* The wizard's Apply writes stack.conf, branding.json and caddy.env from its session
\* alone and secrets.env over again; it may fail after any of them.  Left out: an API on
\* this host rewrites the [database] and [column_mapping] of api.conf at every
\* /setup/apply, the wizard's and those of the admin pages, in a way its own code decides.
Apply ==
    /\ Watched \cap {"stack", "branding", "known"} # {}
    /\ \E vals \in [Keys["webcam"] \cup Keys["earthquakes"] -> Values] :
         text' = [text EXCEPT !["stack"] = Over(<<Begin>>, vals) \o <<End>>]
    /\ json' \in {json, [k \in JsonKeys |-> IF k \in KeysIn("branding") THEN Absent ELSE json[k]]}
    /\ caddy' \in (Range(pins) \cup {caddy})
    /\ secret' \in {secret, Requoted(secret)}
    /\ last' = Forget(KeysIn("stack") \cup KeysIn("branding")
                        \cup (IF caddy' = caddy THEN {} ELSE {"api_url"})
                        \cup (IF secret' = secret THEN {} ELSE Secrets))
    /\ hand' = [hand EXCEPT !["stack"] = 0]
    /\ UNCHANGED <<used, pins, surf>>

Next ==
    \/ \E s \in Sections : SaveConf(s) \/ SaveJson(s)
    \/ EditWebcam \/ EditDatabase \/ SaveHaze \/ SaveColumns \/ SaveSurf \/ SaveConnection
    \/ \E c \in Confs : HandEdit(c)
    \/ \E url \in Urls : Pin(url)
    \/ Apply

Spec == Init /\ [][Next]_vars

-----------------------------------------------------------------------------
\* What a save put there is what is stored, and for the API's URL what Caddy is
\* told, until the key is saved again, the wizard changes it or a write is cut
\* short: whatever is saved in other sections of the file, by other forms of the
\* section, by hand beside the region, or fails (update_managed_region,
\* update_column_mapping, update_branding, connection_post).
SavesStick ==
    \A k \in AllKeys : last[k] # Unsaved =>
        Stored(k) = last[k] /\ (k = "api_url" => caddy = last[k])

\* The operator's own text is in the file, once, until the wizard writes the file or a
\* write is cut short (update_managed_region: "preserving everything outside markers").
HandTextKept == \A c \in Confs : text[c] # Gone => HandLines(text[c]) = hand[c]
=============================================================================
