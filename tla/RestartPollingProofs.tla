------------------------ MODULE RestartPollingProofs ------------------------
(***************************************************************************)
(* The count of polls is bounded, for any finite set of tabs and any limit *)
(* of polls: however the tabs of a session and restarts of the service     *)
(* share it, it passes the limit at most once per tab and act.             *)
(***************************************************************************)
EXTENDS RestartPolling, FiniteSetTheorems, TLAPS

Polling == {p \in Pages : page[p] = "polling"}

\* A count that is past the limit was taken there by pages that gave up: those that
\* still poll can each add one more.  A saved count may come back.
Budget == Limit + acts + Cardinality(Pages)
IInv ==
    /\ up \in BOOLEAN /\ page \in [Pages -> Shows] /\ acts \in 0 .. MaxActs
    /\ count \in Nat /\ saved \in Nat
    /\ count + Cardinality(Polling) <= Budget
    /\ saved + Cardinality(Polling) <= Budget

LEMMA PollingFinite ==
    /\ IsFiniteSet(Polling) /\ Cardinality(Polling) \in Nat /\ Cardinality(Pages) \in Nat
    /\ Cardinality(Polling) <= Cardinality(Pages)
BY FinitePages, FS_Subset, FS_CardinalityType DEF Polling

\* A page that starts to poll, and one that stops.
LEMMA PollingStarts ==
    ASSUME IInv, NEW p \in Pages, page' = [page EXCEPT ![p] = "polling"]
    PROVE  Cardinality(Polling') <= Cardinality(Polling) + 1
<1>1. Polling' = Polling \cup {p}
  BY DEF IInv, Polling
<1> QED
  BY <1>1, PollingFinite, FS_AddElement

LEMMA PollingStops ==
    ASSUME IInv, NEW p \in Pages, NEW shown \in Shows \ {"polling"}, page' = [page EXCEPT ![p] = shown]
    PROVE  /\ Cardinality(Polling') <= Cardinality(Polling)
           /\ page[p] = "polling" => Cardinality(Polling') = Cardinality(Polling) - 1
<1>1. Polling' = Polling \ {p}
  BY DEF IInv, Polling
<1>2. page[p] = "polling" <=> p \in Polling
  BY DEF Polling
<1>3. Cardinality(Polling') = IF p \in Polling THEN Cardinality(Polling) - 1 ELSE Cardinality(Polling)
  BY <1>1, PollingFinite, FS_RemoveElement
<1> QED
  BY <1>2, <1>3, PollingFinite

LEMMA PollingTyped == Cardinality(Polling') \in Nat /\ Cardinality(Polling') <= Cardinality(Pages)
BY FinitePages, FS_Subset, FS_CardinalityType DEF Polling

LEMMA InitIInv == Init => IInv
<1> SUFFICES ASSUME Init PROVE IInv
  OBVIOUS
<1>1. page \in [Pages -> Shows] /\ acts \in 0 .. MaxActs
  BY ActBound DEF Init, Shows
<1> QED
  BY <1>1, PollingFinite, PollLimit DEF Init, IInv, Budget

LEMMA NextIInv == IInv /\ [Next]_vars => IInv'
<1> SUFFICES ASSUME IInv, [Next]_vars PROVE IInv'
  OBVIOUS
<1> USE PollLimit, ActBound, PollingFinite, PollingTyped
<1>1. CASE Exit \/ Start
  BY <1>1 DEF Exit, Start, IInv, Budget, Polling
<1>2. CASE Crash
  BY <1>2 DEF Crash, Act, IInv, Budget, Polling
<1>3. ASSUME NEW p \in Pages, Apply(p) PROVE IInv'
  <2>1. Cardinality(Polling') <= Cardinality(Polling) + 1
    BY <1>3, PollingStarts DEF Apply
  <2>2. page' \in [Pages -> Shows]
    BY <1>3 DEF Apply, IInv, Shows
  <2> QED
    BY <1>3, <2>1, <2>2 DEF Apply, Act, IInv, Budget
<1>4. ASSUME NEW p \in Pages, PollUp(p) PROVE IInv'
  <2>1. Cardinality(Polling') <= Cardinality(Polling)
    BY <1>4, PollingStops DEF PollUp, Answered, Shows
  <2>2. page' \in [Pages -> Shows]
    BY <1>4 DEF PollUp, Answered, IInv, Shows
  <2> QED
    BY <1>4, <2>1, <2>2 DEF PollUp, Answered, IInv, Budget
<1>5. ASSUME NEW p \in Pages, PollDown(p) PROVE IInv'
  <2>1. page' \in [Pages -> Shows] /\ count' = count + 1
    BY <1>5 DEF PollDown, Answered, IInv, Shows
  <2>2. CASE TimedOut(count + 1)
    <3>1. Cardinality(Polling') = Cardinality(Polling) - 1
      BY <1>5, <2>2, PollingStops DEF PollDown, Answered, Shows
    <3> QED
      BY <1>5, <2>1, <3>1 DEF PollDown, Answered, IInv, Budget
  <2>3. CASE ~TimedOut(count + 1)
    <3>1. count + 1 <= Limit
      BY <2>3 DEF TimedOut, IInv
    <3>2. Polling' = Polling
      BY <1>5, <2>3 DEF PollDown, Answered, IInv, Polling
    <3> QED
      BY <1>5, <2>1, <3>1, <3>2 DEF PollDown, Answered, IInv, Budget
  <2> QED
    BY <2>2, <2>3
<1>6. ASSUME NEW p \in Pages, Retry(p) PROVE IInv'
  <2>1. ~TimedOut(1)
    BY DEF TimedOut
  <2>2. page' \in [Pages -> Shows] /\ count' \in {0, 1} /\ saved' = saved /\ up' = up
    BY <1>6, <2>1 DEF Retry, Answered, IInv, Shows
  <2>3. Cardinality(Polling') <= Cardinality(Polling) + 1
    BY <1>6, <2>1, PollingStarts, PollingStops DEF Retry, Answered, Shows
  <2> QED
    BY <1>6, <2>2, <2>3 DEF Retry, Act, IInv, Budget
<1>7. ASSUME NEW p \in Pages, Close(p) PROVE IInv'
  <2>1. Cardinality(Polling') <= Cardinality(Polling)
    BY <1>7, PollingStops DEF Close, Shows
  <2>2. page' \in [Pages -> Shows]
    BY <1>7 DEF Close, IInv, Shows
  <2> QED
    BY <1>7, <2>1, <2>2 DEF Close, IInv, Budget
<1>8. CASE UNCHANGED vars
  BY <1>8 DEF vars, IInv, Budget, Polling
<1> QED
  BY <1>1, <1>2, <1>3, <1>4, <1>5, <1>6, <1>7, <1>8 DEF Next, Poll

\* The count, in memory and in the progress file, is never further past the limit than
\* there are tabs and acts of the operator (wizard_restart_status, save_progress).
THEOREM PollsCounted == Spec => []TypeOK
<1>1. IInv => TypeOK
  BY PollLimit, ActBound, PollingFinite DEF IInv, Budget, TypeOK
<1> QED
  BY <1>1, InitIInv, NextIInv, PTL DEF Spec
=============================================================================
