------------------------- MODULE LoginLimiterProofs -------------------------
(***************************************************************************)
(* The limit on failed logins holds for any limit, window and number of    *)
(* requests at once, and any throttle time that covers the window.         *)
(*                                                                         *)
(* The argument is about the failure d that set the deadline, if one did   *)
(* since the last success.  The list has the failures after d that are     *)
(* still in the window, so a window that began at d or later holds fewer   *)
(* than the limit.  One that reaches back before d holds the failures that *)
(* filled the list, and beside them those of requests that were already    *)
(* past the middleware: as long as it reaches back that far, the address   *)
(* is throttled.                                                           *)
(***************************************************************************)
EXTENDS LoginLimiter, FiniteSetTheorems, TLAPS

\* Where a window may begin that has not ended.
Starts == (now - Window) .. now

\* The failures later than x.
Since(x) == {i \in DOMAIN log : log[i] > x}

Logged ==
    /\ \A i \in DOMAIN log : log[i] <= now
    /\ \A i, j \in DOMAIN log : i <= j => log[i] <= log[j]

\* The deadline was set by failure d, which filled a window.
SetBy(d) ==
    IF d = 0 THEN deadline = 0
    ELSE /\ deadline = log[d] + Throttle
         /\ d >= MaxFailures /\ log[d] < log[d - MaxFailures + 1] + Window

\* The list has the failures after d that are in the window.
ListedSince(d) ==
    /\ \A i \in failures : d < i
    /\ \A i \in DOMAIN log : d < i => i \in failures \/ log[i] <= now - Window

\* Windows that reach back before d have room for the requests that are pending.
RoomFrom(d) ==
    \A x \in Starts : d # 0 /\ x < log[d]
        => Cardinality(Since(x)) + pending < MaxFailures + MaxPending

Cause(d) == SetBy(d) /\ ListedSince(d) /\ RoomFrom(d)

IInv ==
    /\ TypeOK /\ Logged /\ FailuresBounded
    /\ \E d \in 0 .. Len(log) : Cause(d)

-----------------------------------------------------------------------------
(* Counting.                                                               *)

\* What SMT needs of the bounds.
LEMMA Bounds ==
    /\ MaxFailures \in Nat /\ MaxFailures >= 1 /\ Window \in Nat /\ Window >= 1
    /\ Throttle \in Nat /\ Throttle >= Window /\ MaxPending \in Nat /\ MaxPending >= 1
    /\ MaxTime \in Nat
BY LimiterBounds, ThrottleCoversWindow

\* The places from a on in a log of n entries.
LEMMA PlacesCounted ==
    ASSUME NEW n \in Nat, NEW a \in 1 .. (n + 1)
    PROVE  IsFiniteSet(a .. n) /\ Cardinality(a .. n) = n - a + 1
<1>1. a \in Int /\ n \in Int
  OBVIOUS
<1>2. IsFiniteSet(a .. n) /\ Cardinality(a .. n) = IF a > n THEN 0 ELSE n - a + 1
  BY <1>1, FS_Interval
<1> QED
  BY <1>2

\* A set of places in a log is finite, and so are its parts.
LEMMA PlacesFinite ==
    ASSUME NEW n \in Nat, NEW S \in SUBSET (1 .. n)
    PROVE  /\ IsFiniteSet(S) /\ Cardinality(S) \in Nat /\ Cardinality(S) <= n
           /\ \A T \in SUBSET S : IsFiniteSet(T) /\ Cardinality(T) \in Nat
                                  /\ Cardinality(T) <= Cardinality(S)
<1>1. IsFiniteSet(1 .. n) /\ Cardinality(1 .. n) = n
  <2>1. 1 \in 1 .. (n + 1)
    OBVIOUS
  <2> QED
    BY <2>1, PlacesCounted
<1>2. IsFiniteSet(S) /\ Cardinality(S) <= n
  BY <1>1, FS_Subset
<1> QED
  BY <1>2, FS_Subset, FS_CardinalityType

\* k places in a log of n entries: one of them is not among the last k - 1.
LEMMA OneIsEarly ==
    ASSUME NEW n \in Nat, NEW S \in SUBSET (1 .. n), NEW k \in Nat \ {0}, Cardinality(S) >= k
    PROVE  k <= n /\ \E i \in S : i <= n - k + 1
<1>1. Cardinality(S) \in Nat /\ Cardinality(S) <= n
  BY PlacesFinite
<1>2. k <= n
  BY <1>1
<1>3. ASSUME \A i \in S : i > n - k + 1
      PROVE  FALSE
  <2> DEFINE a == n - k + 2
  <2>1. a \in 1 .. (n + 1) /\ n - a + 1 = k - 1
    BY <1>2
  <2>2. S \subseteq a .. n
    BY <1>3
  <2>3. IsFiniteSet(a .. n) /\ Cardinality(a .. n) = k - 1
    <3> HIDE DEF a
    <3> QED
      BY <2>1, PlacesCounted
  <2>4. Cardinality(S) <= k - 1
    <3> HIDE DEF a
    <3> QED
      BY <2>2, <2>3, FS_Subset
  <2> QED
    BY <1>1, <2>4
<1>4. \A i \in S : i \in Int
  OBVIOUS
<1> QED
  BY <1>2, <1>3, <1>4

-----------------------------------------------------------------------------
(* Failed logins.                                                          *)

\* The log after a failure.
LEMMA FailLogs ==
    ASSUME IInv, Fail
    PROVE  /\ log' \in Seq(Time) /\ Len(log') = Len(log) + 1 /\ now' = now
           /\ log'[Len(log) + 1] = now
           /\ \A i \in DOMAIN log : log'[i] = log[i]
           /\ DOMAIN log = 1 .. Len(log) /\ DOMAIN log' = 1 .. (Len(log) + 1)
           /\ Len(log) \in Nat /\ now \in Nat
           /\ Logged'
<1>1. log \in Seq(Time) /\ now \in Time /\ log' = Append(log, now) /\ now' = now
  BY DEF IInv, TypeOK, Fail
<1>2. /\ log' \in Seq(Time) /\ Len(log') = Len(log) + 1 /\ log'[Len(log) + 1] = now
      /\ \A i \in DOMAIN log : log'[i] = log[i]
      /\ DOMAIN log = 1 .. Len(log) /\ DOMAIN log' = 1 .. (Len(log) + 1)
      /\ Len(log) \in Nat /\ now \in Nat
  BY <1>1, Bounds DEF Time
<1>3. \A i \in DOMAIN log : log[i] \in Nat
  BY <1>1, Bounds DEF Time
<1>4. Logged'
  BY <1>1, <1>2, <1>3 DEF IInv, Logged
<1> QED
  BY <1>1, <1>2, <1>4

\* What a failure adds to the list.
LEMMA RecentCounted ==
    ASSUME IInv, Fail
    PROVE  /\ Recent \subseteq 1 .. (Len(log) + 1)
           /\ Len(log) + 1 \in Recent
           /\ IsFiniteSet(Recent) /\ Cardinality(Recent) \in Nat
           /\ Cardinality(Recent) <= MaxFailures
           /\ \A i \in Recent : log'[i] > now - Window
<1>1. failures \subseteq 1 .. Len(log) /\ Cardinality(failures) < MaxFailures
  BY FailLogs DEF IInv, TypeOK
<1>2. /\ IsFiniteSet(Prune(failures)) /\ Cardinality(Prune(failures)) \in Nat
      /\ Cardinality(Prune(failures)) <= Cardinality(failures) /\ Cardinality(failures) \in Nat
  BY <1>1, FailLogs, PlacesFinite DEF Prune
<1>3. Len(log) + 1 \notin Prune(failures)
  BY <1>1, FailLogs DEF Prune
<1>4. IsFiniteSet(Recent) /\ Cardinality(Recent) = Cardinality(Prune(failures)) + 1
  BY <1>2, <1>3, FS_AddElement DEF Recent
<1>5. \A i \in Recent : log'[i] > now - Window
  BY <1>1, FailLogs, Bounds DEF Recent, Prune
<1>6. Recent \subseteq 1 .. (Len(log) + 1) /\ Len(log) + 1 \in Recent
  <2>1. Prune(failures) \subseteq 1 .. Len(log)
    BY <1>1 DEF Prune
  <2>2. Len(log) + 1 \in 1 .. (Len(log) + 1) /\ 1 .. Len(log) \subseteq 1 .. (Len(log) + 1)
    BY FailLogs
  <2> QED
    BY <2>1, <2>2 DEF Recent
<1> QED
  BY <1>1, <1>2, <1>4, <1>5, <1>6, Bounds

\* A failure is one more in every window it is in.
LEMMA FailCounts ==
    ASSUME IInv, Fail, NEW x \in Int
    PROVE  /\ Cardinality(Since(x)) \in Nat /\ Cardinality(Since(x)') \in Nat
           /\ Cardinality(Since(x)') <= Cardinality(Since(x)) + 1
           /\ IsFiniteSet(Since(x)')
<1>1. Since(x) \subseteq 1 .. Len(log) /\ Since(x)' \subseteq 1 .. (Len(log) + 1)
  BY FailLogs DEF Since
<1>2. IsFiniteSet(Since(x)) /\ Cardinality(Since(x)) \in Nat
  BY <1>1, FailLogs, PlacesFinite
<1>3. Len(log) + 1 \notin Since(x)
  BY <1>1, FailLogs
<1>4. /\ IsFiniteSet(Since(x) \cup {Len(log) + 1})
      /\ Cardinality(Since(x) \cup {Len(log) + 1}) = Cardinality(Since(x)) + 1
  BY <1>2, <1>3, FS_AddElement
<1>5. Since(x)' \subseteq Since(x) \cup {Len(log) + 1}
  BY FailLogs DEF Since
<1>6. /\ IsFiniteSet(Since(x)')
      /\ Cardinality(Since(x)') <= Cardinality(Since(x) \cup {Len(log) + 1})
  BY <1>4, <1>5, FS_Subset
<1> QED
  BY <1>2, <1>4, <1>6, FS_CardinalityType

\* The failures of a window that began at d or later are in the list.
LEMMA FailListed ==
    ASSUME IInv, Fail, NEW d \in 0 .. Len(log), Cause(d), NEW x \in Starts, d = 0 \/ log[d] <= x
    PROVE  Since(x)' \subseteq Recent
<1> SUFFICES ASSUME NEW i \in DOMAIN log', log'[i] > x, i # Len(log) + 1
             PROVE  i \in Recent
  BY DEF Since, Recent
<1>1. i \in DOMAIN log /\ log'[i] = log[i]
  BY FailLogs
<1>2. \A k \in DOMAIN log : log[k] \in Nat /\ log[k] <= now
  BY Bounds DEF IInv, TypeOK, Logged, Time
<1>3. x \in Int /\ now - Window <= x
  BY FailLogs, Bounds DEF Starts
<1>4. d < i
  <2>1. CASE d = 0
    BY <1>1, <2>1, FailLogs
  <2>2. CASE d # 0
    <3>1. d \in DOMAIN log /\ log[d] < log[i]
      BY <1>1, <1>2, <1>3, <2>2, FailLogs
    <3>2. ~(i <= d)
      BY <1>1, <1>2, <3>1 DEF IInv, Logged
    <3> QED
      BY <1>1, <3>2, FailLogs
  <2> QED
    BY <2>1, <2>2
<1>5. i \in failures
  BY <1>1, <1>2, <1>3, <1>4, FailLogs, Bounds DEF Cause, ListedSince
<1> QED
  BY <1>1, <1>2, <1>3, <1>5, FailLogs, Bounds DEF Recent, Prune

\* A window that has not ended has room for one more failure.
LEMMA SinceBounded ==
    ASSUME IInv, Fail, NEW x \in Starts
    PROVE  Cardinality(Since(x)') + pending' < MaxFailures + MaxPending
<1>1. PICK d \in 0 .. Len(log) : Cause(d)
  BY DEF IInv
<1>2. pending \in Nat /\ pending <= MaxPending /\ pending > 0 /\ pending' = pending - 1
  BY Bounds DEF IInv, TypeOK, Fail
<1>3. x \in Int
  BY FailLogs, Bounds DEF Starts
<1>4. Cardinality(Since(x)) \in Nat /\ Cardinality(Since(x)') \in Nat
      /\ Cardinality(Since(x)') <= Cardinality(Since(x)) + 1
  BY <1>3, FailCounts
<1>5. CASE d # 0 /\ x < log[d]
  <2>1. Cardinality(Since(x)) + pending < MaxFailures + MaxPending
    BY <1>1, <1>5 DEF Cause, RoomFrom
  <2> QED
    BY <1>2, <1>4, <2>1, Bounds
<1>6. CASE d = 0 \/ log[d] <= x
  <2>1. Since(x)' \subseteq Recent
    BY <1>1, <1>6, FailListed
  <2>2. Cardinality(Since(x)') <= Cardinality(Recent)
    BY <2>1, RecentCounted, FS_Subset
  <2> QED
    BY <1>2, <1>4, <2>2, RecentCounted, Bounds
<1>7. d # 0 => log[d] \in Int
  BY Bounds DEF IInv, TypeOK, Time
<1> QED
  BY <1>3, <1>5, <1>6, <1>7

\* A failure d that is the latest one still is the cause, or the new one is.
LEMMA FailCause ==
    ASSUME IInv, Fail
    PROVE  \E d \in 0 .. Len(log') : Cause(d)'
<1>1. PICK n : n = Len(log) + 1
  OBVIOUS
<1>2. PICK d \in 0 .. Len(log) : Cause(d)
  BY DEF IInv
<1>3. \A i \in DOMAIN log : log[i] \in Nat /\ log[i] <= now
  BY Bounds DEF IInv, TypeOK, Logged, Time
<1>4. CASE Cardinality(Recent) < MaxFailures
  <2>1. failures' = Recent /\ deadline' = deadline
    BY <1>4, RecentCounted, Bounds DEF Fail, RecordFailure
  <2>2. d \in 0 .. Len(log')
    BY FailLogs
  <2>3. SetBy(d)'
    <3>1. CASE d = 0
      BY <1>2, <2>1, <3>1 DEF Cause, SetBy
    <3>2. CASE d # 0
      <4>1. SetBy(d) /\ d \in DOMAIN log
        BY <1>2, <3>2, FailLogs DEF Cause
      <4>2. d - MaxFailures + 1 \in DOMAIN log
        BY <3>2, <4>1, FailLogs, Bounds DEF SetBy
      <4>3. log'[d] = log[d] /\ log'[d - MaxFailures + 1] = log[d - MaxFailures + 1]
        BY <4>1, <4>2, FailLogs
      <4> QED
        BY <2>1, <3>2, <4>1, <4>3 DEF SetBy
    <3> QED
      BY <3>1, <3>2
  <2>4. ListedSince(d)'
    <3>1. \A i \in Recent : d < i
      BY <1>2, FailLogs DEF Cause, ListedSince, Recent, Prune
    <3>2. ASSUME NEW i \in DOMAIN log', d < i
          PROVE  i \in Recent \/ log'[i] <= now - Window
      <4>1. CASE i = Len(log) + 1
        BY <4>1 DEF Recent
      <4>2. CASE i \in DOMAIN log
        <5>1. i \in failures \/ log[i] <= now - Window
          BY <1>2, <3>2, <4>2 DEF Cause, ListedSince
        <5>2. log'[i] = log[i] /\ log[i] \in Nat
          BY <1>3, <4>2, FailLogs
        <5> QED
          BY <5>1, <5>2, FailLogs, Bounds DEF Recent, Prune
      <4> QED
        BY <4>1, <4>2, FailLogs
    <3> QED
      BY <2>1, <3>1, <3>2, FailLogs DEF ListedSince
  <2>5. RoomFrom(d)'
    BY FailLogs, SinceBounded DEF RoomFrom, Starts
  <2> QED
    BY <2>2, <2>3, <2>4, <2>5 DEF Cause
<1>5. CASE Cardinality(Recent) >= MaxFailures
  <2>1. /\ failures' = {} /\ deadline' = now + Throttle
        /\ n \in 0 .. Len(log') /\ n # 0 /\ n \in Nat /\ n = Len(log)'
    BY <1>1, <1>5, FailLogs DEF Fail, RecordFailure
  <2>2. SetBy(n)'
    <3>1. Recent \in SUBSET (1 .. n) /\ MaxFailures \in Nat \ {0}
      BY <1>1, RecentCounted, Bounds
    <3>2. PICK i \in Recent : MaxFailures <= n /\ i <= n - MaxFailures + 1
      BY <1>5, <2>1, <3>1, OneIsEarly
    <3>3. n - MaxFailures + 1 \in DOMAIN log' /\ i \in DOMAIN log'
      BY <1>1, <3>2, FailLogs, RecentCounted, Bounds
    <3>4. log'[i] > now - Window /\ log'[i] <= log'[n - MaxFailures + 1]
      BY <3>2, <3>3, FailLogs, RecentCounted DEF Logged
    <3>5. log'[n] = now /\ log'[i] \in Int /\ log'[n - MaxFailures + 1] \in Int
      BY <1>1, <3>3, FailLogs, Bounds DEF Time
    <3> QED
      BY <2>1, <3>2, <3>4, <3>5, FailLogs, Bounds DEF SetBy
  <2>3. ListedSince(n)'
    BY <1>1, <2>1, FailLogs DEF ListedSince
  <2>4. RoomFrom(n)'
    BY FailLogs, SinceBounded DEF RoomFrom, Starts
  <2> QED
    BY <2>1, <2>2, <2>3, <2>4 DEF Cause
<1>6. Cardinality(Recent) \in Int
  BY RecentCounted
<1> QED
  BY <1>4, <1>5, <1>6, Bounds

\* A window with a failure in it has not ended, and its failures are those since it began.
LEMMA FailBounded ==
    ASSUME IInv, Fail
    PROVE  FailuresBounded'
<1> SUFFICES ASSUME NEW from \in -1 .. MaxTime
             PROVE  Cardinality(FailuresIn(from)') < MaxFailures + MaxPending
  BY DEF FailuresBounded
<1>1. from \in Int
  BY Bounds
<1>2. CASE from \in Starts /\ from < now
  <2>1. FailuresIn(from)' \subseteq Since(from)'
    BY DEF FailuresIn, Since
  <2>2. /\ Cardinality(FailuresIn(from)') <= Cardinality(Since(from)')
        /\ Cardinality(FailuresIn(from)') \in Nat
    BY <1>1, <2>1, FailCounts, FS_Subset, FS_CardinalityType
  <2>3. Cardinality(Since(from)') < MaxFailures + MaxPending
    <3>1. pending' \in Nat
      BY Bounds DEF IInv, TypeOK, Fail
    <3>2. Cardinality(Since(from)') + pending' < MaxFailures + MaxPending
      BY <1>2, SinceBounded
    <3> QED
      BY <1>1, <3>1, <3>2, FailCounts, Bounds
  <2> QED
    BY <1>1, <2>2, <2>3, FailCounts, Bounds
<1>3. CASE ~(from \in Starts /\ from < now)
  <2>1. ~(from < now /\ now <= from + Window)
    BY <1>1, <1>3, FailLogs, Bounds DEF Starts
  <2>2. FailuresIn(from)' = FailuresIn(from)
    BY <2>1, FailLogs DEF FailuresIn
  <2> QED
    BY <2>2 DEF IInv, FailuresBounded
<1> QED
  BY <1>2, <1>3

LEMMA FailTyped ==
    ASSUME IInv, Fail
    PROVE  TypeOK'
<1>1. pending' \in 0 .. MaxPending /\ log' \in Seq(Time) /\ now' \in Time
  BY FailLogs, Bounds DEF IInv, TypeOK, Fail
<1>2. CASE Cardinality(Recent) < MaxFailures
  <2>1. failures' = Recent /\ deadline' = deadline
    BY <1>2, RecentCounted, Bounds DEF Fail, RecordFailure
  <2> QED
    BY <1>1, <1>2, <2>1, RecentCounted, FailLogs DEF IInv, TypeOK
<1>3. CASE Cardinality(Recent) >= MaxFailures
  <2>1. failures' = {} /\ deadline' = now + Throttle
    BY <1>3 DEF Fail, RecordFailure
  <2>2. deadline' \in 0 .. MaxTime + Throttle
    BY <2>1, Bounds DEF IInv, TypeOK, Time
  <2> QED
    BY <1>1, <2>1, <2>2, FS_EmptySet, Bounds DEF TypeOK
<1> QED
  BY <1>2, <1>3, RecentCounted, Bounds

-----------------------------------------------------------------------------
(* The other steps.                                                        *)

LEMMA InitIInv == Init => IInv
<1> SUFFICES ASSUME Init PROVE IInv
  OBVIOUS
<1>1. log = <<>> /\ DOMAIN log = {} /\ log \in Seq(Time) /\ Len(log) = 0
  BY DEF Init
<1>2. TypeOK
  BY <1>1, FS_EmptySet, Bounds DEF Init, TypeOK, Time
<1>3. FailuresBounded
  <2>1. \A from : FailuresIn(from) = {}
    BY <1>1 DEF FailuresIn
  <2> QED
    BY <2>1, FS_EmptySet, Bounds DEF FailuresBounded
<1>4. Cause(0)
  BY <1>1 DEF Init, Cause, SetBy, ListedSince, RoomFrom
<1> QED
  BY <1>1, <1>2, <1>3, <1>4 DEF IInv, Logged

LEMMA TickIInv ==
    ASSUME IInv, Tick
    PROVE  IInv'
<1>1. now \in Nat /\ now' = now + 1 /\ now' \in Time /\ now' \in Nat
  BY Bounds DEF IInv, TypeOK, Tick, Time
<1>2. UNCHANGED <<failures, deadline, pending, log>>
  BY DEF Tick
<1>3. \A i \in DOMAIN log : log[i] \in Nat
  BY Bounds DEF IInv, TypeOK, Time
<1>4. TypeOK' /\ Logged' /\ FailuresBounded'
  BY <1>1, <1>2, <1>3 DEF IInv, TypeOK, Logged, FailuresBounded, FailuresIn
<1>5. PICK d \in 0 .. Len(log) : Cause(d)
  BY DEF IInv
<1>6. SetBy(d)' /\ ListedSince(d)'
  BY <1>1, <1>2, <1>3, <1>5, Bounds DEF Cause, SetBy, ListedSince
<1>7. RoomFrom(d)'
  <2> SUFFICES ASSUME NEW x \in Starts', d # 0, x < log[d]
               PROVE  Cardinality(Since(x)) + pending < MaxFailures + MaxPending
    BY <1>2 DEF RoomFrom, Since
  <2>1. d \in DOMAIN log /\ log[d] <= now /\ log[d] \in Nat
    BY <1>3, <1>5 DEF IInv, TypeOK, Logged
  <2>2. x \in Starts
    BY <1>1, <2>1, Bounds DEF Starts
  <2> QED
    BY <1>5, <2>2 DEF Cause, RoomFrom
<1> QED
  BY <1>2, <1>4, <1>5, <1>6, <1>7 DEF IInv, Cause

\* An address is admitted once it is no longer throttled; no window then reaches back
\* before the failure that set the deadline.
LEMMA AdmitIInv ==
    ASSUME IInv, Admit
    PROVE  IInv'
<1>1. UNCHANGED <<now, failures, deadline, log>> /\ pending' \in 0 .. MaxPending
  BY Bounds DEF IInv, TypeOK, Admit
<1>2. TypeOK' /\ Logged' /\ FailuresBounded'
  BY <1>1 DEF IInv, TypeOK, Logged, FailuresBounded, FailuresIn
<1>3. PICK d \in 0 .. Len(log) : Cause(d)
  BY DEF IInv
<1>4. SetBy(d)' /\ ListedSince(d)'
  BY <1>1, <1>3 DEF Cause, SetBy, ListedSince
<1>5. RoomFrom(d)'
  <2> SUFFICES ASSUME NEW x \in Starts, d # 0, x < log[d]
               PROVE  FALSE
    BY <1>1 DEF RoomFrom, Starts
  <2>1. now \in Nat /\ log[d] \in Nat
    BY <1>3, Bounds DEF IInv, TypeOK, Time
  <2>2. log[d] + Throttle <= now
    BY <1>3, <2>1, Bounds DEF Cause, SetBy, Admit, Throttled
  <2> QED
    BY <2>1, <2>2, Bounds DEF Starts
<1> QED
  BY <1>1, <1>2, <1>3, <1>4, <1>5 DEF IInv, Cause

\* A success leaves nothing to count.
LEMMA SucceedIInv ==
    ASSUME IInv, Succeed
    PROVE  IInv'
<1>1. log' = <<>> /\ DOMAIN log' = {} /\ log' \in Seq(Time) /\ Len(log') = 0
  BY DEF Succeed
<1>2. failures' = {} /\ deadline' = 0 /\ now' = now /\ pending' \in 0 .. MaxPending
  BY Bounds DEF IInv, TypeOK, Succeed
<1>3. TypeOK'
  BY <1>1, <1>2, FS_EmptySet, Bounds DEF IInv, TypeOK, Time
<1>4. FailuresBounded'
  <2>1. \A from : FailuresIn(from)' = {}
    BY <1>1 DEF FailuresIn
  <2> QED
    BY <2>1, FS_EmptySet, Bounds DEF FailuresBounded
<1>5. Cause(0)'
  BY <1>1, <1>2 DEF Cause, SetBy, ListedSince, RoomFrom
<1> QED
  BY <1>1, <1>3, <1>4, <1>5 DEF IInv, Logged

LEMMA NextIInv == IInv /\ [Next]_vars => IInv'
<1> SUFFICES ASSUME IInv, [Next]_vars PROVE IInv'
  OBVIOUS
<1>1. CASE Fail
  BY <1>1, FailTyped, FailLogs, FailBounded, FailCause DEF IInv
<1>2. CASE UNCHANGED vars
  BY <1>2 DEF vars, IInv, TypeOK, Logged, FailuresBounded, FailuresIn, Cause, SetBy, ListedSince,
              RoomFrom, Starts, Since
<1> QED
  BY <1>1, <1>2, TickIInv, AdmitIInv, SucceedIInv DEF Next

LEMMA AlwaysIInv == Spec => []IInv
<1> QED
  BY InitIInv, NextIInv, PTL DEF Spec

-----------------------------------------------------------------------------
(* Theorems.                                                               *)

\* The list stays shorter than the limit: it is emptied when it reaches it
\* (RateLimiter.record_failure).
THEOREM LimiterTypeCorrect == Spec => []TypeOK
<1>1. IInv => TypeOK
  BY DEF IInv
<1> QED
  BY <1>1, AlwaysIInv, PTL

\* No window holds more failed logins than the limit and the requests that were past
\* the middleware when it was reached (_RateLimitMiddleware, RateLimiter).
THEOREM FailuresAlwaysBounded == Spec => []FailuresBounded
<1>1. IInv => FailuresBounded
  BY DEF IInv
<1> QED
  BY <1>1, AlwaysIInv, PTL

\* Who is throttled has filled a window with failures within the throttle time
\* (RateLimiter.is_throttled, RateLimiter.record_failure).
THEOREM NobodyThrottledEarly == Spec => []ThrottledForCause
<1>1. IInv => ThrottledForCause
  <2> SUFFICES ASSUME IInv, Throttled PROVE ThrottledForCause
    BY DEF ThrottledForCause
  <2>1. PICK d \in 0 .. Len(log) : SetBy(d)
    BY DEF IInv, Cause
  <2>2. d # 0
    BY <2>1, Bounds DEF IInv, TypeOK, Throttled, SetBy, Time
  <2>3. d \in 1 .. Len(log) /\ now < log[d] + Throttle /\ d >= MaxFailures
        /\ log[d] < log[d - MaxFailures + 1] + Window
    BY <2>1, <2>2 DEF SetBy, Throttled
  <2> QED
    BY <2>3 DEF ThrottledForCause
<1> QED
  BY <1>1, AlwaysIInv, PTL
=============================================================================
