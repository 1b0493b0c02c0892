--------------------------- MODULE MarineCatalog ---------------------------
(***************************************************************************)
(* What the marine sections promise about the API's list of locations:     *)
(* it changes by one location at a time, or as a whole by a hand-over from *)
(* the wizard; a location is added under an id nobody has and only when a  *)
(* marine service is known; one that was removed comes back only by being  *)
(* added again.                                                            *)
(***************************************************************************)
CONSTANTS Keys, Contents

VARIABLES
    catalog,  \* the API's list
    service,  \* there is a marine service
    draft     \* the list of the wizard's session

vars == <<catalog, service, draft>>

Init == DOMAIN catalog = {} /\ service = FALSE /\ DOMAIN draft = {}

Add(k, c) ==
    /\ service
    /\ k \notin DOMAIN catalog
    /\ catalog' = [j \in DOMAIN catalog \cup {k} |-> IF j = k THEN c ELSE catalog[j]]
    /\ UNCHANGED <<service, draft>>

Edit(k, c) ==
    /\ k \in DOMAIN catalog
    /\ catalog' = [catalog EXCEPT ![k] = c]
    /\ UNCHANGED <<service, draft>>

Remove(k) ==
    /\ k \in DOMAIN catalog
    /\ catalog' = [j \in DOMAIN catalog \ {k} |-> catalog[j]]
    /\ UNCHANGED <<service, draft>>

Connect == service' = TRUE /\ UNCHANGED <<catalog, draft>>

\* The wizard may change its own list; only handing it over changes the API's.
Draft ==
    /\ DOMAIN draft' \subseteq Keys
    /\ UNCHANGED <<catalog, service>>

\* The wizard's list, if it has one, replaces the API's; it may bring the service.
HandOver ==
    /\ DOMAIN draft # {}
    /\ catalog' = draft
    /\ service' \in {service, TRUE}
    /\ UNCHANGED draft

Next ==
    \/ \E k \in Keys, c \in Contents : Add(k, c) \/ Edit(k, c)
    \/ \E k \in Keys : Remove(k)
    \/ Connect \/ Draft \/ HandOver

Spec == Init /\ [][Next]_vars
=============================================================================
