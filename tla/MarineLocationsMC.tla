------------------------- MODULE MarineLocationsMC -------------------------
(***************************************************************************)
(* MarineLocations for TLC: one name, and the slugs of two locations of    *)
(* that name.                                                              *)
(***************************************************************************)
EXTENDS MarineLocations

CONSTANTS Beach, beach, beach_2

Slugs == [n \in Names |-> <<beach, beach_2>>]
=============================================================================
