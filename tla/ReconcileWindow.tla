--------------------------- MODULE ReconcileWindow ---------------------------
(***************************************************************************)
(* Which ended sessions a range run asks for: _last_good_window_to and the *)
(* window of _range (services/reconciler.py), with the run's row and its   *)
(* retention.  A run continues where the last good one stopped, minus an   *)
(* overlap, because the cabinet may commit a session a little after its    *)
(* end time.  SessionReconciliation.StartRange takes from here that the    *)
(* window misses no ended session an earlier good run did not read.        *)
(*                                                                         *)
(* Times are natural numbers on one clock; what the window does to one     *)
(* cabinet's sessions is all that is left of them.                         *)
(***************************************************************************)
EXTENDS Naturals

CONSTANTS
  CabSessions, None,
  Overlap,          \* OVERLAP, 10 minutes
  FirstLookback,    \* FIRST_LOOKBACK, 2 days
  NightlyLookback,  \* NIGHTLY_LOOKBACK, 30 days
  KeepRuns,         \* retention_reconciliation_days, 90
  CommitDelay,      \* external: the cabinet commits a session at most this late
  MaxTime           \* bound for TLC

ASSUME TimesAssumption ==
  /\ {Overlap, FirstLookback, NightlyLookback, KeepRuns, CommitDelay, MaxTime} \subseteq Nat
  /\ None \notin Nat
  /\ None \notin [from : Nat, to : Nat, listed : SUBSET CabSessions]

\* What the overlap is there for.
ASSUME DelayAssumption == CommitDelay <= Overlap

VARIABLES
  now,
  end,          \* end[c]: when c ended, or None
  committed,    \* sessions the cabinet's range route can list
  last_good,    \* window_to of the newest ok range run in reconciliation_runs, or None
  run,          \* the run in progress: its window and what its pages cannot miss, or None
  seen,         \* sessions that were in the pages of a good run
  covered_to,   \* window_to of the newest good run, in the table still or not
  since         \* from here to covered_to the windows of good runs leave no gap

vars == <<now, end, committed, last_good, run, seen, covered_to, since>>

Times == Nat \union {None}

Runs == [from : Nat, to : Nat, listed : SUBSET CabSessions]

TypeOK ==
  /\ now \in Nat
  /\ end \in [CabSessions -> Times]
  /\ committed \subseteq CabSessions
  /\ last_good \in Times
  /\ run \in Runs \union {None}
  /\ seen \subseteq CabSessions
  /\ covered_to \in Times
  /\ since \in Nat

Init ==
  /\ now = 0
  /\ end = [c \in CabSessions |-> None]
  /\ committed = {} /\ seen = {}
  /\ last_good = None /\ run = None
  /\ covered_to = None /\ since = 0

-----------------------------------------------------------------------------
(* The cabinet and the clock *)

EndSession(c) ==
  /\ end[c] = None
  /\ end' = [end EXCEPT ![c] = now]
  /\ UNCHANGED <<now, committed, last_good, run, seen, covered_to, since>>

CommitSession(c) ==
  /\ end[c] # None /\ c \notin committed
  /\ committed' = committed \union {c}
  /\ UNCHANGED <<now, end, last_good, run, seen, covered_to, since>>

\* Time waits for a commit that is due: the assumption on the cabinet.
Tick ==
  /\ now < MaxTime
  /\ \A c \in CabSessions \ committed : end[c] # None => now < end[c] + CommitDelay
  /\ now' = now + 1
  /\ UNCHANGED <<end, committed, last_good, run, seen, covered_to, since>>

-----------------------------------------------------------------------------
(* A run *)

Minus(t, d) == IF t >= d THEN t - d ELSE 0

WindowFrom_NoOverlap(nightly) ==
  IF nightly THEN Minus(now, NightlyLookback)
  ELSE IF last_good # None THEN last_good ELSE Minus(now, FirstLookback)

WindowFrom(nightly) ==
  IF nightly THEN Minus(now, NightlyLookback)
  ELSE IF last_good # None THEN Minus(last_good, Overlap)
  ELSE Minus(now, FirstLookback)

\* [from, to)
Within(from, to) == {c \in committed : end[c] # None /\ from <= end[c] /\ end[c] < to}

StartRun(nightly) ==
  /\ run = None
  /\ run' = [from |-> WindowFrom(nightly), to |-> now,
             listed |-> Within(WindowFrom(nightly), now)]
  /\ UNCHANGED <<now, end, committed, last_good, seen, covered_to, since>>

Contiguous == covered_to # None /\ run.from <= Minus(covered_to, Overlap)

FinishRun_PageLost(S) ==
  /\ run # None
  /\ S \subseteq Within(run.from, run.to)
  /\ seen' = seen \union S
  /\ last_good' = run.to /\ covered_to' = run.to
  /\ since' = IF Contiguous /\ since <= run.from THEN since ELSE run.from
  /\ run' = None
  /\ UNCHANGED <<now, end, committed>>

\* All pages applied: what was listed at the start, and maybe what the cabinet
\* committed meanwhile.  The run's row is ok, with its window.
FinishRun(S) ==
  /\ run # None
  /\ run.listed \subseteq S /\ S \subseteq Within(run.from, run.to)
  /\ seen' = seen \union S
  /\ last_good' = run.to /\ covered_to' = run.to
  /\ since' = IF Contiguous /\ since <= run.from THEN since ELSE run.from
  /\ run' = None
  /\ UNCHANGED <<now, end, committed>>

\* A page is refused, an exception, the process dies, or the cabinet has no range
\* route: no ok range run.
FailRun ==
  /\ run # None
  /\ run' = None
  /\ UNCHANGED <<now, end, committed, last_good, seen, covered_to, since>>

\* Retention, between runs: runs are deleted by age, the last good one included.
DeleteRuns ==
  /\ run = None
  /\ last_good # None /\ last_good + KeepRuns < now
  /\ last_good' = None
  /\ UNCHANGED <<now, end, committed, run, seen, covered_to, since>>

Next ==
  \/ \E c \in CabSessions : EndSession(c) \/ CommitSession(c)
  \/ Tick
  \/ \E nightly \in BOOLEAN : StartRun(nightly)
  \/ \E S \in SUBSET CabSessions : FinishRun(S)
  \/ FailRun
  \/ DeleteRuns

Spec == Init /\ [][Next]_vars
-----------------------------------------------------------------------------
\* Late commits, failed runs, nightly runs in between: every session that ended since
\* the windows are contiguous, up to the overlap, was in the pages of a good run.
NoneMissed ==
  covered_to # None =>
    \A c \in CabSessions :
      end[c] # None /\ since <= end[c] /\ end[c] + Overlap < covered_to => c \in seen

\* The windows of good runs come apart only after an outage longer than the nightly
\* lookback, or than the retention of the runs' rows.
GapNeedsLongOutage ==
  [][covered_to # None /\ since' > since
       => \/ covered_to' + Overlap > covered_to + NightlyLookback
          \/ covered_to' > covered_to + KeepRuns]_vars

-----------------------------------------------------------------------------
\* What SessionReconciliation.StartRange builds on: the next window, of either kind, holds
\* every listed session that no good run has read, if it reaches back to the last good one.
NextWindowComplete ==
  covered_to # None =>
    \A nightly \in BOOLEAN :
      WindowFrom(nightly) <= Minus(covered_to, Overlap) =>
        {c \in committed \ seen : since <= end[c] /\ end[c] < now}
          \subseteq Within(WindowFrom(nightly), now)

\* What makes the above inductive: a commit is never overdue; the run in progress lists
\* what its window held when it started; and a last good run that retention took away
\* is an old one.
CommitsOnTime ==
  \A c \in CabSessions :
    /\ c \in committed => end[c] # None
    /\ c \notin committed /\ end[c] # None => now <= end[c] + CommitDelay

EndsArePast == \A c \in CabSessions : end[c] # None => end[c] <= now

RunListed ==
  run # None =>
    /\ run.to <= now
    /\ \A c \in CabSessions : end[c] # None /\ run.from <= end[c] /\ end[c] + CommitDelay < run.to
         => c \in run.listed
    /\ \/ run.from = Minus(run.to, NightlyLookback)
       \/ last_good # None /\ run.from = Minus(last_good, Overlap)
       \/ last_good = None /\ (covered_to # None => covered_to + KeepRuns < run.to)

LastGood ==
  /\ last_good # None => last_good = covered_to
  /\ covered_to # None => covered_to <= now
  /\ covered_to # None /\ last_good = None => covered_to + KeepRuns < now
  /\ covered_to # None /\ run # None => covered_to <= run.to

WindowInv == TypeOK /\ CommitsOnTime /\ EndsArePast /\ RunListed /\ LastGood /\ NoneMissed
=============================================================================
