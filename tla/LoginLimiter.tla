---------------------------- MODULE LoginLimiter ----------------------------
(***************************************************************************)
(* The limit on failed logins (auth.py RateLimiter, app.py middleware and  *)
(* login handler) for one client address: the limiter keeps a list and a   *)
(* deadline per address, and no step looks at another address's.           *)
(*                                                                         *)
(* The middleware looks at the deadline when the request comes in; the     *)
(* handler awaits the form before it answers, so several requests can be   *)
(* past the check when a failure sets the deadline.                        *)
(***************************************************************************)
EXTENDS Integers, Sequences, FiniteSets

CONSTANTS
    MaxFailures,  \* _RATE_LIMIT_MAX_FAILURES
    Window,       \* _RATE_LIMIT_WINDOW_SECONDS
    Throttle,     \* _RATE_LIMIT_THROTTLE_SECONDS
    MaxPending,   \* bound on requests awaiting their form
    MaxTime       \* bound on the clock

ASSUME LimiterBounds ==
    /\ {MaxFailures, Window, Throttle, MaxPending} \subseteq Nat \ {0}
    /\ MaxTime \in Nat
ASSUME ThrottleCoversWindow == Window <= Throttle

VARIABLES
    now,        \* time.monotonic()
    failures,   \* _failures[ip]: the places its times have in log
    deadline,   \* _throttled[ip]; 0 when absent
    pending,    \* requests past the middleware, awaiting their form
    log         \* history: times of every failure since the last success

vars == <<now, failures, deadline, pending, log>>

Time == 0 .. MaxTime

TypeOK ==
    /\ now \in Time
    /\ failures \subseteq DOMAIN log /\ Cardinality(failures) < MaxFailures
    /\ deadline \in 0 .. MaxTime + Throttle
    /\ pending \in 0 .. MaxPending
    /\ log \in Seq(Time)

Init == now = 0 /\ failures = {} /\ deadline = 0 /\ pending = 0 /\ log = <<>>

Throttled == now < deadline

Tick ==
    /\ now < MaxTime /\ now' = now + 1
    /\ UNCHANGED <<failures, deadline, pending, log>>

\* A throttled request is answered 429 at once and changes nothing.
Admit ==
    /\ ~Throttled
    /\ pending < MaxPending /\ pending' = pending + 1
    /\ UNCHANGED <<now, failures, deadline, log>>

\* Mutant of Prune: a failure exactly one window old still counts.
PruneLate(S) == {i \in S : log[i] >= now - Window}

Prune(S) == {i \in S : log[i] > now - Window}

\* The list with the time of a failure that is now logged.
Recent == Prune(failures) \cup {Len(log) + 1}

\* Mutant of RecordFailure: the deadline is set one failure too late.
RecordFailureLate ==
    IF Cardinality(Recent) > MaxFailures
      THEN deadline' = now + Throttle /\ failures' = {}
      ELSE failures' = Recent /\ UNCHANGED deadline

\* Mutant of RecordFailure: the list is not cleared when the deadline is set.
RecordFailureKeeps ==
    /\ failures' = Recent
    /\ deadline' = IF Cardinality(Recent) >= MaxFailures THEN now + Throttle ELSE deadline

RecordFailure ==
    IF Cardinality(Recent) >= MaxFailures
      THEN deadline' = now + Throttle /\ failures' = {}
      ELSE failures' = Recent /\ UNCHANGED deadline

Fail ==
    /\ pending > 0 /\ pending' = pending - 1
    /\ RecordFailure
    /\ log' = Append(log, now)
    /\ UNCHANGED now

\* record_success also lifts a deadline set while the form was awaited.
Succeed ==
    /\ pending > 0 /\ pending' = pending - 1
    /\ failures' = {} /\ deadline' = 0
    /\ log' = <<>>
    /\ UNCHANGED now

Next == Tick \/ Admit \/ Fail \/ Succeed

Spec == Init /\ [][Next]_vars

-----------------------------------------------------------------------------
(* Properties *)

FailuresIn(from) == {i \in DOMAIN log : from < log[i] /\ log[i] <= from + Window}

\* No window of sixty seconds holds more failed logins than the limit and those
\* already past the middleware when it was reached, at the boundary too.
FailuresBounded == \A from \in -1 .. MaxTime : Cardinality(FailuresIn(from)) < MaxFailures + MaxPending

\* An address is throttled only when its failures filled one window, all within
\* one throttle time of now: nobody is locked out early or for longer.
ThrottledForCause ==
    Throttled =>
      \E i \in 1 .. Len(log) :
        /\ now < log[i] + Throttle
        /\ i >= MaxFailures /\ log[i] < log[i - MaxFailures + 1] + Window

=============================================================================
