--------------------------- MODULE RestartPolling ---------------------------
(***************************************************************************)
(* After Apply the completion page polls /wizard/restart-status until the  *)
(* API answers its health check, or until the count of polls kept in the   *)
(* wizard session says to give up (wizard/routes.py,                       *)
(* restart_status_fragment.html, step_complete.html).                      *)
(*                                                                         *)
(* All pages belong to one session; a poll is one step, as its health      *)
(* check is synchronous.                                                   *)
(***************************************************************************)
EXTENDS Naturals, FiniteSets

CONSTANTS
    Pages,    \* browser tabs of the session
    Limit,    \* polls a page waits (150 in the code)
    MaxActs   \* bound on what the operator and crashes do

ASSUME FinitePages == IsFiniteSet(Pages)
ASSUME PollLimit  == Limit \in Nat \ {0}
ASSUME ActBound   == MaxActs \in Nat

VARIABLES
    up,         \* the API answers its health check
    count,      \* restart_poll_count in memory
    saved,      \* restart_poll_count in the progress file
    page,       \* what each tab shows
    acts        \* operator's acts and crashes so far

vars == <<up, count, saved, page, acts>>

Shows == {"none", "polling", "done", "timeout"}

TypeOK ==
    /\ up \in BOOLEAN
    /\ count \in 0 .. Limit + MaxActs + Cardinality(Pages)
    /\ saved \in 0 .. Limit + MaxActs + Cardinality(Pages)
    /\ page \in [Pages -> Shows]
    /\ acts \in 0 .. MaxActs

Init ==
    /\ up = TRUE
    /\ count = 0 /\ saved = 0
    /\ page = [p \in Pages |-> "none"]
    /\ acts = 0

Act == acts < MaxActs /\ acts' = acts + 1

-----------------------------------------------------------------------------
(* The API *)

\* As Apply asked, or by itself.
Exit ==
    /\ up
    /\ up' = FALSE
    /\ UNCHANGED <<count, saved, page, acts>>

Start ==
    /\ ~up
    /\ up' = TRUE
    /\ UNCHANGED <<count, saved, page, acts>>

-----------------------------------------------------------------------------
(* The service *)

\* Apply saves the session, asks the API to restart (Exit, sooner or later or
\* never) and shows the completion page.  The count stays as it was.
Apply(p) ==
    /\ Act
    /\ up
    /\ saved' = count
    /\ page'  = [page EXCEPT ![p] = "polling"]
    /\ UNCHANGED <<up, count>>

\* The page after an answer to a poll that was the n-th since the last success
\* or retry in this session.
Answered(p, n, shown) ==
    /\ page' = [page EXCEPT ![p] = shown]
    /\ count' = n
    /\ UNCHANGED <<up, saved>>

PollUp(p) ==
    /\ page[p] = "polling" /\ up
    /\ Answered(p, 0, "done")
    /\ UNCHANGED acts

\* Mutant of TimedOut: only the poll that passes the limit gives up.
TimedOutExactly(n) == n = Limit + 1

TimedOut(n) == n > Limit

\* Mutant of PollDown: the poll is not counted.
PollDownUncounted(p) ==
    /\ page[p] = "polling" /\ ~up
    /\ Answered(p, count, IF TimedOut(count + 1) THEN "timeout" ELSE "polling")
    /\ UNCHANGED acts

PollDown(p) ==
    /\ page[p] = "polling" /\ ~up
    /\ Answered(p, count + 1, IF TimedOut(count + 1) THEN "timeout" ELSE "polling")
    /\ UNCHANGED acts

Poll(p) == PollUp(p) \/ PollDown(p)

\* The Retry button: the count starts again with this poll.
Retry(p) ==
    /\ Act
    /\ page[p] = "timeout"
    /\ IF up THEN Answered(p, 0, "done")
             ELSE Answered(p, 1, IF TimedOut(1) THEN "timeout" ELSE "polling")

Close(p) ==
    /\ page[p] # "none"
    /\ page' = [page EXCEPT ![p] = "none"]
    /\ UNCHANGED <<up, count, saved, acts>>

\* The service restarts and loads the session's progress file.
Crash ==
    /\ Act
    /\ count' = saved
    /\ UNCHANGED <<up, saved, page>>

Next ==
    \/ Exit \/ Start \/ Crash
    \/ \E p \in Pages : Apply(p) \/ Poll(p) \/ Retry(p) \/ Close(p)

\* A page polls every two seconds as long as it is open.
Fairness == \A p \in Pages : WF_vars(Poll(p))

Spec == Init /\ [][Next]_vars /\ Fairness

-----------------------------------------------------------------------------
(* Properties *)

\* Every page stops polling: with an answer, by giving up, or closed, even if the
\* API never comes back, other tabs poll on the same count, and the service
\* restarts (wizard_restart_status, T4.5).
Settles == \A p \in Pages : page[p] = "polling" ~> page[p] # "polling"
=============================================================================
