------------------------ MODULE ReconcileWindowProofs ------------------------
(***************************************************************************)
(* The range run misses no session, for any lookbacks, any overlap that    *)
(* outlasts the cabinet's late commits, and any number of sessions.        *)
(***************************************************************************)
EXTENDS ReconcileWindow, TLAPS

LEMMA MinusType ==
  ASSUME NEW t \in Nat, NEW d \in Nat
  PROVE  Minus(t, d) \in Nat /\ Minus(t, d) <= t
BY DEF Minus

LEMMA InitInv == Init => WindowInv
BY TimesAssumption DEF Init, WindowInv, TypeOK, Times, CommitsOnTime, EndsArePast, RunListed, LastGood,
       NoneMissed

\* The window of a run starts at a time.
LEMMA WindowFromType ==
  ASSUME TypeOK, NEW nightly \in BOOLEAN
  PROVE  WindowFrom(nightly) \in Nat
BY TimesAssumption, MinusType DEF WindowFrom, TypeOK, Times

LEMMA EndSessionInv ==
  ASSUME WindowInv, NEW c \in CabSessions, EndSession(c)
  PROVE  WindowInv'
<1> USE TimesAssumption DEF WindowInv
<1>1. TypeOK'
  BY DEF TypeOK, Times, EndSession
<1>2. CommitsOnTime' /\ EndsArePast'
  BY DEF TypeOK, Times, EndSession, CommitsOnTime, EndsArePast
<1>3. RunListed'
  <2> SUFFICES ASSUME run # None PROVE RunListed'
    BY DEF RunListed, EndSession
  <2>1. run \in Runs /\ run.to <= now
    BY DEF TypeOK, RunListed
  <2>2. \A d \in CabSessions : end'[d] # None /\ run.from <= end'[d] /\ end'[d] + CommitDelay < run.to
                               => d \in run.listed
    BY <2>1 DEF TypeOK, Times, EndSession, RunListed, Runs
  <2> QED BY <2>1, <2>2 DEF RunListed, EndSession
<1>4. LastGood'
  BY DEF LastGood, EndSession
<1>5. NoneMissed'
  BY DEF TypeOK, Times, EndSession, NoneMissed, LastGood
<1> QED
  BY <1>1, <1>2, <1>3, <1>4, <1>5

LEMMA CommitSessionInv ==
  ASSUME WindowInv, NEW c \in CabSessions, CommitSession(c)
  PROVE  WindowInv'
BY DEF WindowInv, TypeOK, CommitSession, CommitsOnTime, EndsArePast, RunListed, LastGood, NoneMissed

LEMMA TickInv ==
  ASSUME WindowInv, Tick
  PROVE  WindowInv'
<1> USE TimesAssumption DEF WindowInv
<1>1. TypeOK'
  BY DEF TypeOK, Tick
<1>2. CommitsOnTime' /\ EndsArePast'
  BY DEF TypeOK, Times, Tick, CommitsOnTime, EndsArePast
<1>3. RunListed' /\ LastGood'
  BY DEF TypeOK, Times, Runs, Tick, RunListed, LastGood
<1>4. NoneMissed'
  BY DEF Tick, NoneMissed
<1> QED
  BY <1>1, <1>2, <1>3, <1>4

\* A run that starts now lists every session whose commit cannot still be on its way.
LEMMA StartRunInv ==
  ASSUME WindowInv, NEW nightly \in BOOLEAN, StartRun(nightly)
  PROVE  WindowInv'
<1> USE TimesAssumption DEF WindowInv
<1> DEFINE from == WindowFrom(nightly)
           started == [from |-> from, to |-> now, listed |-> Within(from, now)]
<1>1. from \in Nat
  BY WindowFromType
<1>2. started \in Runs /\ run' = started
  BY <1>1 DEF StartRun, Runs, TypeOK, Within
<1>3. TypeOK'
  BY <1>2 DEF StartRun, TypeOK
<1>4. /\ started.from = from /\ started.to = now /\ started.listed = Within(from, now)
  OBVIOUS
<1>5. \A c \in CabSessions : end[c] # None /\ from <= end[c] /\ end[c] + CommitDelay < now
        => c \in Within(from, now)
  BY DEF TypeOK, Times, CommitsOnTime, Within
<1>6. \/ from = Minus(now, NightlyLookback)
      \/ last_good # None /\ from = Minus(last_good, Overlap)
      \/ last_good = None
  BY DEF WindowFrom
<1> HIDE DEF from, started
<1>7. RunListed'
  BY <1>2, <1>4, <1>5, <1>6 DEF RunListed, StartRun, LastGood, TypeOK
<1>8. LastGood'
  BY <1>2, <1>4 DEF LastGood, StartRun, TypeOK
<1>9. CommitsOnTime' /\ EndsArePast' /\ NoneMissed'
  BY DEF StartRun, CommitsOnTime, EndsArePast, NoneMissed
<1> QED
  BY <1>3, <1>7, <1>8, <1>9

\* A good run leaves no session behind it unread but those the overlap returns to.
LEMMA FinishRunInv ==
  ASSUME WindowInv, NEW S \in SUBSET CabSessions, FinishRun(S)
  PROVE  WindowInv'
<1> USE TimesAssumption, DelayAssumption DEF WindowInv
<1>1. run \in Runs /\ run # None /\ run.from \in Nat /\ run.to \in Nat /\ run.to <= now
  BY DEF FinishRun, TypeOK, RunListed, Runs
<1>2. TypeOK'
  BY <1>1 DEF FinishRun, TypeOK, Times
<1>3. CommitsOnTime' /\ EndsArePast'
  BY DEF FinishRun, CommitsOnTime, EndsArePast
<1>4. RunListed' /\ LastGood'
  BY <1>1 DEF FinishRun, RunListed, LastGood
<1>5. NoneMissed'
  <2> SUFFICES ASSUME NEW c \in CabSessions, end[c] # None, since' <= end[c],
                      end[c] + Overlap < run.to
               PROVE  c \in seen \union S
    BY DEF NoneMissed, FinishRun
  <2>1. end[c] \in Nat
    BY DEF TypeOK, Times
  <2>2. CASE run.from <= end[c]
    <3>1. end[c] + CommitDelay < run.to
      BY <1>1, <2>1
    <3>2. c \in run.listed
      BY <2>2, <3>1, <1>1 DEF RunListed
    <3> QED BY <3>2 DEF FinishRun
  <2>3. CASE end[c] < run.from
    <3>1. Contiguous /\ since <= run.from /\ since' = since
      BY <1>1, <2>1, <2>3 DEF FinishRun
    <3>2. covered_to \in Nat /\ run.from <= Minus(covered_to, Overlap)
      BY <3>1 DEF Contiguous, TypeOK, Times
    <3>3. end[c] + Overlap < covered_to
      BY <1>1, <2>1, <2>3, <3>2 DEF Minus
    <3> QED BY <2>1, <3>1, <3>2, <3>3 DEF NoneMissed
  <2> QED BY <1>1, <2>1, <2>2, <2>3
<1> QED
  BY <1>2, <1>3, <1>4, <1>5

LEMMA FailRunInv ==
  ASSUME WindowInv, FailRun
  PROVE  WindowInv'
BY DEF WindowInv, TypeOK, FailRun, CommitsOnTime, EndsArePast, RunListed, LastGood, NoneMissed

LEMMA DeleteRunsInv ==
  ASSUME WindowInv, DeleteRuns
  PROVE  WindowInv'
BY DEF WindowInv, TypeOK, Times, DeleteRuns, CommitsOnTime, EndsArePast, RunListed, LastGood,
       NoneMissed

LEMMA NextInv ==
  ASSUME WindowInv, [Next]_vars
  PROVE  WindowInv'
<1>1. CASE UNCHANGED vars
  BY <1>1 DEF vars, WindowInv, TypeOK, CommitsOnTime, EndsArePast, RunListed, LastGood, NoneMissed
<1> QED
  BY <1>1, EndSessionInv, CommitSessionInv, TickInv, StartRunInv, FinishRunInv, FailRunInv,
     DeleteRunsInv DEF Next

\* Late commits, failed runs and retention notwithstanding, a session that ended since the
\* windows are contiguous has been read once the windows are an overlap past its end.
THEOREM NoSessionMissed == Spec => []NoneMissed
<1>1. WindowInv => NoneMissed
  BY DEF WindowInv
<1> QED
  BY <1>1, InitInv, NextInv, PTL DEF Spec

\* The next run's window, if it reaches back to the last good one, holds every listed
\* session not read yet: SessionReconciliation.StartRange.
THEOREM WindowComplete == Spec => []NextWindowComplete
<1>1. WindowInv => NextWindowComplete
  <2> SUFFICES ASSUME WindowInv, covered_to # None, NEW nightly \in BOOLEAN,
                      WindowFrom(nightly) <= Minus(covered_to, Overlap),
                      NEW c \in committed \ seen, since <= end[c], end[c] < now
               PROVE  c \in Within(WindowFrom(nightly), now)
    BY DEF NextWindowComplete
  <2>1. c \in CabSessions /\ covered_to \in Nat /\ WindowFrom(nightly) \in Nat
    BY WindowFromType DEF WindowInv, TypeOK, Times
  <2>2. end[c] # None /\ end[c] \in Nat
    BY <2>1 DEF WindowInv, TypeOK, Times, CommitsOnTime
  <2>3. ~(end[c] + Overlap < covered_to)
    BY <2>1, <2>2 DEF WindowInv, NoneMissed
  <2>4. WindowFrom(nightly) <= end[c]
    BY <2>1, <2>2, <2>3, TimesAssumption DEF Minus
  <2> QED BY <2>2, <2>4 DEF Within
<1> QED
  BY <1>1, InitInv, NextInv, PTL DEF Spec

\* Nothing short of an outage longer than the nightly lookback, or than the retention of
\* the runs' rows, opens a gap.
THEOREM GapsAreOutages == Spec => GapNeedsLongOutage
<1>1. WindowInv /\ [Next]_vars =>
        [covered_to # None /\ since' > since
           => \/ covered_to' + Overlap > covered_to + NightlyLookback
              \/ covered_to' > covered_to + KeepRuns]_vars
  <2> SUFFICES ASSUME WindowInv, NEW S \in SUBSET CabSessions, FinishRun(S),
                      covered_to # None, since' > since
               PROVE  \/ covered_to' + Overlap > covered_to + NightlyLookback
                      \/ covered_to' > covered_to + KeepRuns
    BY DEF Next, vars, EndSession, CommitSession, Tick, StartRun, FailRun, DeleteRuns, WindowInv,
           TypeOK
  <2>1. /\ run # None /\ run.from \in Nat /\ run.to \in Nat /\ covered_to \in Nat
        /\ covered_to' = run.to
    BY DEF FinishRun, WindowInv, TypeOK, Times, Runs
  <2>2. run.from > Minus(covered_to, Overlap)
    <3>1. since \in Nat /\ Minus(covered_to, Overlap) \in Nat
      BY <2>1, MinusType, TimesAssumption DEF WindowInv, TypeOK
    <3>2. ~Contiguous
      BY <2>1, <3>1 DEF FinishRun
    <3> QED BY <2>1, <3>1, <3>2 DEF Contiguous
  <2>3. CASE run.from = Minus(run.to, NightlyLookback)
    BY <2>1, <2>2, <2>3, TimesAssumption DEF Minus
  <2>4. CASE last_good # None /\ run.from = Minus(last_good, Overlap)
    BY <2>1, <2>2, <2>4, MinusType, TimesAssumption DEF WindowInv, LastGood
  <2>5. CASE covered_to + KeepRuns < run.to
    BY <2>1, <2>5, TimesAssumption
  <2> QED
    BY <2>1, <2>3, <2>4, <2>5 DEF WindowInv, RunListed
<1> QED
  BY <1>1, InitInv, NextInv, PTL DEF Spec, GapNeedsLongOutage
=============================================================================
