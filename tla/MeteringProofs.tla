---------------------------- MODULE MeteringProofs ----------------------------
(***************************************************************************)
(* The intervals of an outlet never overlap, an idle stretch stays one     *)
(* row, and every unit is counted once, for any outlets, sessions,         *)
(* retention windows and chunk sizes.                                      *)
(***************************************************************************)
EXTENDS Metering, FiniteSetTheorems, TLAPS

LEMMA InitInv == Init => MeteringInv
BY DEF Init, MeteringInv, ReadingsTyped, IntervalsRead, IdsUnique, LastInterval,
       IntervalsDisjoint, IdleIsOneRow, Modes

\* The cabinet, the sessions and the health poll leave every reading alone.
LEMMA NoReadingInv ==
  ASSUME MeteringInv, ReadingsTyped', now' >= now,
         UNCHANGED <<state, intervals, next_id>>
  PROVE  MeteringInv'
<1>1. IntervalsRead' /\ IdsUnique'
  BY DEF MeteringInv, IntervalsRead, IdsUnique
<1>2. LastInterval'
  <2> SUFFICES ASSUME NEW o \in Outlets, state[o] # None
               PROVE  state[o].read_at <= now'
    BY DEF MeteringInv, LastInterval
  <2>1. state[o] \in MeterState /\ state[o].read_at <= now
    BY DEF MeteringInv, ReadingsTyped, LastInterval
  <2> QED BY <2>1 DEF MeteringInv, ReadingsTyped, MeterState
<1>3. IntervalsDisjoint' /\ IdleIsOneRow'
  BY DEF MeteringInv, IntervalsDisjoint, IdleIsOneRow, Disjoint
<1> QED BY <1>1, <1>2, <1>3 DEF MeteringInv

LEMMA OutsideInv ==
  ASSUME MeteringInv, Outside
  PROVE  MeteringInv'
<1> USE DEF MeteringInv, ReadingsTyped
<1>1. CASE Tick
  BY <1>1, NoReadingInv DEF Tick, cab_vars, db_vars
<1>2. ASSUME NEW o \in Outlets, Deliver(o) \/ SwapMeter(o)
      PROVE  MeteringInv'
  <2>1. ReadingsTyped'
    BY <1>2 DEF Deliver, SwapMeter, db_vars
  <2> QED BY <1>2, <2>1, NoReadingInv DEF Deliver, SwapMeter, db_vars
<1>3. ASSUME NEW s \in Sessions, SetActive(s)
      PROVE  MeteringInv'
  <2>1. ReadingsTyped'
    BY <1>3 DEF SetActive, cab_vars, db_vars
  <2> QED BY <1>3, <2>1, NoReadingInv DEF SetActive, cab_vars, db_vars
<1> QED BY <1>1, <1>2, <1>3 DEF Outside

LEMMA PollHealthInv ==
  ASSUME MeteringInv, NEW answer \in Modes, PollHealth(answer)
  PROVE  MeteringInv'
<1>1. ReadingsTyped'
  BY DEF MeteringInv, ReadingsTyped, PollHealth, cab_vars
<1> QED BY <1>1, NoReadingInv DEF MeteringInv, ReadingsTyped, PollHealth, cab_vars

-----------------------------------------------------------------------------
(* Readings *)

\* What an outlet's state says after a reading, and that it says nothing new of others.
LEMMA ReadState ==
  ASSUME ReadingsTyped, NEW o \in Outlets, NEW last \in Nat \union {None}, Read(o, last)
  PROVE  /\ state' \in [Outlets -> MeterState \union {None}]
         /\ state'[o] # None /\ state'[o].read_at = now /\ state'[o].last_interval_id = last
         /\ \A p \in Outlets : p # o => state'[p] = state[p]
         /\ now' = now
BY NoneAssumption DEF ReadingsTyped, Read, MeterState

\* A reading that points at no interval: no interval reaches to it.
LEMMA PointAtNoneInv ==
  ASSUME MeteringInv, NEW o \in Outlets, Read(o, None),
         state[o] = None \/ Newer(o),
         UNCHANGED <<intervals, next_id>>, first' \in [Outlets -> Nat]
  PROVE  MeteringInv'
<1> USE DEF MeteringInv
<1>0. /\ state' \in [Outlets -> MeterState \union {None}]
      /\ state'[o] # None /\ state'[o].read_at = now /\ state'[o].last_interval_id = None
      /\ \A p \in Outlets : p # o => state'[p] = state[p]
      /\ now' = now
  BY ReadState, ReadingsTyped, Read(o, None), None \in Nat \union {None}
<1>1. ReadingsTyped'
  BY <1>0 DEF ReadingsTyped, Read, cab_vars
<1>2. \A i \in intervals : i.outlet = o => i.to_at < now
  BY DEF IntervalsRead, Newer, ReadingsTyped, Interval, MeterState
<1>3. IntervalsRead'
  <2> SUFFICES ASSUME NEW i \in intervals
               PROVE  state'[i.outlet] # None /\ i.to_at <= state'[i.outlet].read_at
    BY DEF IntervalsRead
  <2>1. i.outlet \in Outlets /\ i.to_at \in Nat /\ now \in Nat
    BY DEF ReadingsTyped, Interval
  <2>2. CASE i.outlet = o
    <3>1. i.to_at < now
      BY <1>2, <2>2
    <3> QED BY <1>0, <2>1, <2>2, <3>1
  <2>3. CASE i.outlet # o
    BY <1>0, <2>1, <2>3 DEF IntervalsRead
  <2> QED BY <2>2, <2>3
<1>4. LastInterval'
  <2> SUFFICES ASSUME NEW p \in Outlets, state'[p] # None
               PROVE  /\ state'[p].read_at <= now'
                      /\ state'[p].last_interval_id # None => state'[p].last_interval_id < next_id
                      /\ \A i \in intervals : i.id = state'[p].last_interval_id => i.outlet = p
                      /\ \A i \in intervals : i.outlet = p /\ i.to_at = state'[p].read_at
                                               => i.id = state'[p].last_interval_id
    BY DEF LastInterval
  <2>1. CASE p = o
    BY <1>0, <1>2, <2>1, NoneAssumption DEF ReadingsTyped, Interval
  <2>2. CASE p # o
    BY <1>0, <2>2 DEF LastInterval
  <2> QED BY <2>1, <2>2
<1>5. IdsUnique' /\ IntervalsDisjoint' /\ IdleIsOneRow'
  BY DEF IdsUnique, IntervalsDisjoint, IdleIsOneRow, Disjoint
<1> QED BY <1>1, <1>3, <1>4, <1>5

LEMMA SeedInv ==
  ASSUME MeteringInv, NEW o \in Outlets, Seed(o)
  PROVE  MeteringInv'
<1>1. first' \in [Outlets -> Nat]
  BY DEF Seed, MeteringInv, ReadingsTyped
<1> QED BY <1>1, PointAtNoneInv DEF Seed

LEMMA ResetInv ==
  ASSUME MeteringInv, NEW o \in Outlets, Reset(o)
  PROVE  MeteringInv'
<1>1. first' \in [Outlets -> Nat]
  BY DEF Reset, MeteringInv, ReadingsTyped
<1> QED BY <1>1, PointAtNoneInv DEF Reset

\* An idle reading moves the end of the outlet's last row, and of no other.
LEMMA ExtendInv ==
  ASSUME MeteringInv, NEW o \in Outlets, Extend(o)
  PROVE  MeteringInv'
<1> USE DEF MeteringInv
<1> DEFINE last == state[o].last_interval_id
<1>1. /\ state[o] \in MeterState /\ state[o] # None
      /\ state[o].read_at \in Nat /\ now \in Nat /\ state[o].read_at < now
      /\ last \in Nat \union {None}
  BY DEF Extend, Newer, ReadingsTyped, MeterState
<1>2. PICK i \in intervals :
        /\ Extendable(o, i)
        /\ intervals' = (intervals \ {i}) \union {[i EXCEPT !.to_at = now]}
  BY DEF Extend
<1> DEFINE k == [i EXCEPT !.to_at = now]
<1>3. /\ state' \in [Outlets -> MeterState \union {None}]
      /\ state'[o] # None /\ state'[o].read_at = now /\ state'[o].last_interval_id = last
      /\ \A p \in Outlets : p # o => state'[p] = state[p]
      /\ now' = now /\ next_id' = next_id
  <2>1. Read(o, last) /\ next_id' = next_id /\ ReadingsTyped
    BY DEF Extend
  <2> HIDE DEF MeteringInv, last
  <2> QED BY <1>1, <2>1, ReadState
<1>4. /\ \A j \in intervals : j \in Interval
      /\ i.outlet = o /\ i.id = last /\ i.to_at = state[o].read_at /\ i.energy = 0
      /\ last # None
  BY <1>1, <1>2, NoneAssumption DEF ReadingsTyped, Extendable, LastInterval, Interval
<1>5. /\ k \in Interval /\ k.id = i.id /\ k.outlet = o /\ k.from_at = i.from_at
      /\ k.to_at = now /\ k.energy = 0
      /\ k.session_id = i.session_id /\ k.standalone = i.standalone
  BY <1>1, <1>4 DEF Interval
<1> HIDE DEF k, last
<1>6. ReadingsTyped'
  BY <1>2, <1>3, <1>4, <1>5 DEF ReadingsTyped, Extend, Read, cab_vars, k
<1>7. \A j \in intervals : /\ j.from_at \in Nat /\ j.to_at \in Nat /\ j.id \in Nat
                           /\ j.outlet \in Outlets /\ j.from_at < j.to_at
                           /\ j.outlet = o => j.to_at <= state[o].read_at
                           /\ j # i => j.id # i.id
  BY <1>2, <1>4 DEF Interval, IntervalsRead, IdsUnique
<1>8. \A j \in intervals' : j = k \/ (j \in intervals /\ j # i)
  BY <1>2 DEF k
<1>9. IntervalsRead'
  BY <1>1, <1>2, <1>3, <1>4, <1>5, <1>7, <1>8 DEF IntervalsRead
<1>10. IdsUnique'
  BY <1>5, <1>7, <1>8 DEF IdsUnique
<1>11. LastInterval'
  <2> SUFFICES ASSUME NEW p \in Outlets, state'[p] # None
               PROVE  /\ state'[p].read_at <= now
                      /\ state'[p].last_interval_id # None => state'[p].last_interval_id < next_id
                      /\ \A j \in intervals' : j.id = state'[p].last_interval_id => j.outlet = p
                      /\ \A j \in intervals' : j.outlet = p /\ j.to_at = state'[p].read_at
                                               => j.id = state'[p].last_interval_id
    BY <1>3 DEF LastInterval
  <2>1. CASE p = o
    <3>1. last < next_id
      BY <1>1, <1>4 DEF LastInterval, last
    <3> QED BY <1>1, <1>3, <1>4, <1>5, <1>7, <1>8, <2>1, <3>1
  <2>2. CASE p # o
    <3>1. k.id # state[p].last_interval_id
      BY <1>2, <1>3, <1>4, <1>5, <2>2 DEF LastInterval
    <3> QED BY <1>3, <1>5, <1>8, <2>2, <3>1 DEF LastInterval
  <2> QED BY <2>1, <2>2
<1>12. \A j \in intervals : j # i /\ j.outlet = o => Disjoint(k, j) /\ Disjoint(j, k)
  BY <1>1, <1>2, <1>4, <1>5, <1>7 DEF IntervalsDisjoint, Disjoint
<1>13. IntervalsDisjoint'
  BY <1>5, <1>8, <1>12 DEF IntervalsDisjoint, Disjoint
<1>14. IdleIsOneRow'
  <2> SUFFICES ASSUME NEW a \in intervals', NEW b \in intervals', a.outlet = b.outlet,
                      a.to_at = b.from_at, a.energy = 0, b.energy = 0
               PROVE  a.session_id # b.session_id \/ a.standalone # b.standalone
    BY DEF IdleIsOneRow
  <2>1. CASE a = k
    BY <1>1, <1>4, <1>5, <1>7, <1>8, <2>1
  <2>2. CASE a # k /\ b = k
    BY <1>2, <1>4, <1>5, <1>8, <2>2 DEF IdleIsOneRow
  <2>3. CASE a # k /\ b # k
    BY <1>8, <2>3 DEF IdleIsOneRow
  <2> QED BY <2>1, <2>2, <2>3
<1> QED BY <1>6, <1>9, <1>10, <1>11, <1>13, <1>14

\* A new interval starts where the last reading left its outlet, under a new id; an idle
\* one does not follow an idle row of the same kind, or it would have extended it.
LEMMA AddIntervalInv ==
  ASSUME MeteringInv, NEW o \in Outlets, AddInterval(o)
  PROVE  MeteringInv'
<1> USE DEF MeteringInv
<1>1. /\ state[o] \in MeterState /\ state[o] # None
      /\ state[o].read_at \in Nat /\ now \in Nat /\ state[o].read_at < now
      /\ next_id \in Nat
  BY DEF AddInterval, Newer, ReadingsTyped, MeterState
<1>2. /\ state' \in [Outlets -> MeterState \union {None}]
      /\ state'[o] # None /\ state'[o].read_at = now /\ state'[o].last_interval_id = next_id
      /\ \A p \in Outlets : p # o => state'[p] = state[p]
      /\ now' = now /\ next_id' = next_id + 1
  <2>1. Read(o, next_id) /\ next_id' = next_id + 1 /\ ReadingsTyped
    BY DEF AddInterval
  <2> HIDE DEF MeteringInv
  <2> QED BY <1>1, <2>1, ReadState
<1> DEFINE k == NewInterval(o)
<1>3. SessionFor(o) \in Sessions \union {None}
  BY DEF SessionFor, ActiveOn, ReadingsTyped
<1>4. register[o] - state[o].energy \in Nat
  BY <1>1 DEF AddInterval, ReadingsTyped, MeterState
<1>5. /\ k \in Interval /\ k.id = next_id /\ k.outlet = o
      /\ k.from_at = state[o].read_at /\ k.to_at = now /\ k.energy = Delta(o)
      /\ k.session_id = SessionFor(o) /\ k.standalone = Standalone
  BY <1>1, <1>3, <1>4 DEF NewInterval, Interval, Standalone, Delta
<1>6. intervals' = intervals \union {k}
  BY DEF AddInterval
<1> HIDE DEF k
<1>7. ReadingsTyped'
  BY <1>1, <1>2, <1>5, <1>6 DEF ReadingsTyped, AddInterval, Read, cab_vars
<1>8. \A j \in intervals : /\ j.from_at \in Nat /\ j.to_at \in Nat /\ j.id \in Nat
                           /\ j.outlet \in Outlets /\ j.from_at < j.to_at /\ j.id < next_id
                           /\ j.outlet = o => j.to_at <= state[o].read_at
  BY DEF ReadingsTyped, Interval, IntervalsRead
<1>9. IntervalsRead'
  BY <1>1, <1>2, <1>5, <1>6, <1>8 DEF IntervalsRead
<1>10. IdsUnique'
  BY <1>1, <1>5, <1>6, <1>8 DEF IdsUnique
<1>11. LastInterval'
  <2> SUFFICES ASSUME NEW p \in Outlets, state'[p] # None
               PROVE  /\ state'[p].read_at <= now
                      /\ state'[p].last_interval_id # None => state'[p].last_interval_id < next_id + 1
                      /\ \A j \in intervals' : j.id = state'[p].last_interval_id => j.outlet = p
                      /\ \A j \in intervals' : j.outlet = p /\ j.to_at = state'[p].read_at
                                               => j.id = state'[p].last_interval_id
    BY <1>2 DEF LastInterval
  <2>1. CASE p = o
    BY <1>1, <1>2, <1>5, <1>6, <1>8, <2>1
  <2>2. CASE p # o
    <3>1. state[p] # None /\ state[p].last_interval_id \in Nat \union {None}
      BY <1>2, <2>2 DEF ReadingsTyped, MeterState
    <3>2. state[p].last_interval_id # None => state[p].last_interval_id < next_id
      BY <3>1 DEF LastInterval
    <3>3. next_id # state[p].last_interval_id
      BY <1>1, <3>1, <3>2, NoneAssumption
    <3>4. state[p].last_interval_id # None => state[p].last_interval_id < next_id + 1
      BY <1>1, <3>1, <3>2
    <3> QED BY <1>2, <1>5, <1>6, <2>2, <3>1, <3>3, <3>4 DEF LastInterval
  <2> QED BY <2>1, <2>2
<1>12. IntervalsDisjoint'
  BY <1>5, <1>6, <1>8 DEF IntervalsDisjoint, Disjoint
<1>13. IdleIsOneRow'
  <2> SUFFICES ASSUME NEW a \in intervals', NEW b \in intervals', a.outlet = b.outlet,
                      a.to_at = b.from_at, a.energy = 0, b.energy = 0
               PROVE  a.session_id # b.session_id \/ a.standalone # b.standalone
    BY DEF IdleIsOneRow
  <2>1. CASE a = k
    BY <1>1, <1>5, <1>6, <1>8, <2>1
  <2>2. CASE a # k /\ b = k
    <3>1. a \in intervals /\ a.outlet = o /\ a.to_at = state[o].read_at /\ Delta(o) = 0
      BY <1>5, <1>6, <2>2
    <3>2. a.id = state[o].last_interval_id
      BY <1>1, <3>1 DEF LastInterval
    <3>3. ~Extendable(o, a)
      BY <3>1 DEF AddInterval, CanExtend
    <3> QED BY <1>5, <2>2, <3>1, <3>2, <3>3 DEF Extendable
  <2>3. CASE a # k /\ b # k
    BY <1>6, <2>3 DEF IdleIsOneRow
  <2> QED BY <2>1, <2>2, <2>3
<1> QED BY <1>7, <1>9, <1>10, <1>11, <1>12, <1>13

-----------------------------------------------------------------------------
(* Retention *)

\* Deleting rows disturbs only what the states point at.
LEMMA DeletionInv ==
  ASSUME MeteringInv, ReadingsTyped', intervals' \subseteq intervals, LastInterval',
         \A o \in Outlets : state[o] # None => state'[o] # None /\ state'[o].read_at = state[o].read_at,
         UNCHANGED next_id
  PROVE  MeteringInv'
<1> USE DEF MeteringInv
<1>1. IntervalsRead'
  BY DEF IntervalsRead, ReadingsTyped, Interval
<1>2. IdsUnique' /\ IntervalsDisjoint' /\ IdleIsOneRow'
  BY DEF IdsUnique, IntervalsDisjoint, IdleIsOneRow, Disjoint
<1> QED BY <1>1, <1>2

LEMMA RollUpInv ==
  ASSUME MeteringInv, NEW C \in SUBSET Old, RollUp(C)
  PROVE  MeteringInv'
<1>1. /\ intervals' \subseteq intervals
      /\ UNCHANGED <<now, register, used, swaps, active, smart_mode, state, next_id, first>>
  BY DEF RollUp, cab_vars
<1>2. ReadingsTyped'
  BY <1>1 DEF MeteringInv, ReadingsTyped
<1>3. LastInterval'
  BY <1>1 DEF MeteringInv, LastInterval
<1>4. \A o \in Outlets : state[o] # None => state'[o] # None /\ state'[o].read_at = state[o].read_at
  BY <1>1
<1> QED BY <1>1, <1>2, <1>3, <1>4, DeletionInv

LEMMA DeleteSimulatedInv ==
  ASSUME MeteringInv, NEW C \in SUBSET Old, DeleteSimulated(C)
  PROVE  MeteringInv'
<1> DEFINE Gone(o) == \E i \in C : i.id = state[o].last_interval_id
<1>1. /\ intervals' = intervals \ C /\ C \subseteq intervals
      /\ UNCHANGED <<now, register, used, swaps, active, smart_mode, next_id, first>>
      /\ state' = [o \in Outlets |-> IF state[o] # None /\ Gone(o)
                                     THEN [state[o] EXCEPT !.last_interval_id = None]
                                     ELSE state[o]]
  BY DEF DeleteSimulated, cab_vars, Old
<1> HIDE DEF Gone
<1>2. \A o \in Outlets : state[o] # None => state[o] \in MeterState
  BY DEF MeteringInv, ReadingsTyped
<1>3. \A o \in Outlets : state[o] # None /\ Gone(o) =>
        /\ state'[o] \in MeterState /\ state'[o].read_at = state[o].read_at
        /\ state'[o].last_interval_id = None
  BY <1>1, <1>2 DEF MeterState
<1>4. \A o \in Outlets : ~(state[o] # None /\ Gone(o)) => state'[o] = state[o]
  BY <1>1
<1>5. ReadingsTyped'
  <2>1. state' \in [Outlets -> MeterState \union {None}]
    <3>1. \A o \in Outlets : state'[o] \in MeterState \union {None}
      BY <1>2, <1>3, <1>4
    <3>2. state' = [o \in Outlets |-> state'[o]]
      BY <1>1
    <3> QED BY <3>1, <3>2
  <2>2. intervals' \subseteq Interval
    BY <1>1 DEF MeteringInv, ReadingsTyped
  <2> QED BY <1>1, <2>1, <2>2 DEF MeteringInv, ReadingsTyped
<1>6. \A o \in Outlets : state[o] # None => state'[o] # None /\ state'[o].read_at = state[o].read_at
  BY <1>3, <1>4, NoneAssumption
<1>7. LastInterval'
  <2> SUFFICES ASSUME NEW o \in Outlets, state'[o] # None
               PROVE  /\ state'[o].read_at <= now
                      /\ state'[o].last_interval_id # None => state'[o].last_interval_id < next_id
                      /\ \A i \in intervals' : i.id = state'[o].last_interval_id => i.outlet = o
                      /\ \A i \in intervals' : i.outlet = o /\ i.to_at = state'[o].read_at
                                               => i.id = state'[o].last_interval_id
    BY <1>1 DEF LastInterval
  <2>1. state[o] # None
    BY <1>3, <1>4
  <2>2. \A i \in intervals : i.id \in Nat
    BY DEF MeteringInv, ReadingsTyped, Interval
  <2>3. CASE Gone(o)
    <3>1. PICK c \in C : c.id = state[o].last_interval_id
      BY <2>3 DEF Gone
    <3>2. \A i \in intervals : i.outlet = o /\ i.to_at = state[o].read_at => i = c
      BY <1>1, <2>1, <3>1 DEF MeteringInv, LastInterval, IdsUnique
    <3>3. state[o].read_at <= now
      BY <2>1 DEF MeteringInv, LastInterval
    <3> QED BY <1>1, <1>3, <2>1, <2>2, <2>3, <3>1, <3>2, <3>3, NoneAssumption
  <2>4. CASE ~Gone(o)
    BY <1>1, <1>4, <2>1, <2>4 DEF MeteringInv, LastInterval
  <2> QED BY <2>3, <2>4
<1> QED BY <1>1, <1>5, <1>6, <1>7, DeletionInv

-----------------------------------------------------------------------------
\* Whatever the readings, the swaps, the mode and retention do: record_reading and the
\* chunks of retention keep the tables consistent.
THEOREM MeteringInvariance == Spec => []MeteringInv
<1>1. Init => MeteringInv
  BY InitInv
<1>2. MeteringInv /\ [Next]_vars => MeteringInv'
  <2> SUFFICES ASSUME MeteringInv, [Next]_vars PROVE MeteringInv'
    OBVIOUS
  <2>1. CASE Outside
    BY <2>1, OutsideInv
  <2>2. ASSUME NEW answer \in Modes, PollHealth(answer) PROVE MeteringInv'
    BY <2>2, PollHealthInv
  <2>3. ASSUME NEW o \in Outlets, Seed(o) \/ Reset(o) PROVE MeteringInv'
    BY <2>3, SeedInv, ResetInv
  <2>4. ASSUME NEW o \in Outlets, Extend(o) PROVE MeteringInv'
    BY <2>4, ExtendInv
  <2>5. ASSUME NEW o \in Outlets, AddInterval(o) PROVE MeteringInv'
    BY <2>5, AddIntervalInv
  <2>6. ASSUME NEW C \in SUBSET Old, DeleteSimulated(C) \/ RollUp(C) PROVE MeteringInv'
    BY <2>6, DeleteSimulatedInv, RollUpInv
  <2>7. CASE UNCHANGED vars
    <3>1. ReadingsTyped'
      BY <2>7 DEF vars, MeteringInv, ReadingsTyped
    <3> QED BY <2>7, <3>1, NoReadingInv DEF vars, MeteringInv, ReadingsTyped
  <2> QED BY <2>1, <2>2, <2>3, <2>4, <2>5, <2>6, <2>7 DEF Next, Collect, Retain
<1> QED BY <1>1, <1>2, PTL DEF Spec

\* record_reading and retention: no moment of an outlet is in two intervals.
THEOREM Disjointness == Spec => []IntervalsDisjoint
<1>1. MeteringInv => IntervalsDisjoint
  BY DEF MeteringInv
<1> QED BY <1>1, MeteringInvariance, PTL

\* record_reading: "an idle outlet is one row" (services/collector.py:25).
THEOREM IdleRows == Spec => []IdleIsOneRow
<1>1. MeteringInv => IdleIsOneRow
  BY DEF MeteringInv
<1> QED BY <1>1, MeteringInvariance, PTL
-----------------------------------------------------------------------------
(* Sums: an interval stands for as many units as its energy *)

Units(S) == UNION {{i} \X (1 .. i.energy) : i \in S}

\* The rows of one outlet, and of one flag.
Of(o) == {i \in intervals : i.outlet = o}

\* A unit is one of its row's.
LEMMA UnitOf ==
  ASSUME NEW S, NEW u
  PROVE  u \in Units(S) <=> \E i \in S : u \in {i} \X (1 .. i.energy)
BY DEF Units

LEMMA EnergyIs == \A S : EnergyOf(S) = Cardinality(Units(S))
BY DEF EnergyOf, Units

\* Rows apart have no unit in common: their energies add.
LEMMA EnergySplit ==
  ASSUME NEW S, NEW T, S \intersect T = {}, IsFiniteSet(Units(S)), IsFiniteSet(Units(T))
  PROVE  /\ IsFiniteSet(Units(S \union T))
         /\ EnergyOf(S) \in Nat /\ EnergyOf(T) \in Nat
         /\ EnergyOf(S \union T) = EnergyOf(S) + EnergyOf(T)
<1>1. Units(S \union T) = Units(S) \union Units(T)
  BY UnitOf
<1>2. Units(S) \intersect Units(T) = {}
  <2> SUFFICES ASSUME NEW u, u \in Units(S), u \in Units(T) PROVE FALSE
    OBVIOUS
  <2>1. PICK i \in S : u \in {i} \X (1 .. i.energy)
    BY UnitOf
  <2>2. PICK j \in T : u \in {j} \X (1 .. j.energy)
    BY UnitOf
  <2>3. u[1] = i /\ u[1] = j
    BY <2>1, <2>2
  <2> QED BY <2>3
<1>3. Cardinality(Units(S) \intersect Units(T)) = 0
  BY <1>2, FS_EmptySet
<1>4. /\ IsFiniteSet(Units(S) \union Units(T))
      /\ Cardinality(Units(S) \union Units(T)) =
           Cardinality(Units(S)) + Cardinality(Units(T)) - Cardinality(Units(S) \intersect Units(T))
  BY FS_Union
<1>5. Cardinality(Units(S)) \in Nat /\ Cardinality(Units(T)) \in Nat
  BY FS_CardinalityType
<1>6. Cardinality(Units(S) \union Units(T)) = Cardinality(Units(S)) + Cardinality(Units(T))
  BY <1>3, <1>4, <1>5
<1>7. EnergyOf(S \union T) = EnergyOf(S) + EnergyOf(T)
  BY <1>1, <1>6, EnergyIs
<1>8. IsFiniteSet(Units(S \union T))
  BY <1>1, <1>4
<1> QED BY <1>5, <1>7, <1>8, EnergyIs

\* Some of the rows have some of the units.
LEMMA EnergyPart ==
  ASSUME NEW S, NEW T \in SUBSET S, IsFiniteSet(Units(S))
  PROVE  IsFiniteSet(Units(T)) /\ EnergyOf(T) \in Nat
<1>1. Units(T) \in SUBSET Units(S)
  BY UnitOf
<1>2. IsFiniteSet(Units(T))
  BY <1>1, FS_Subset
<1> QED BY <1>2, FS_CardinalityType, EnergyIs

LEMMA EnergyNone == IsFiniteSet(Units({})) /\ EnergyOf({}) = 0
<1>1. Units({}) = {}
  BY UnitOf
<1> QED BY <1>1, FS_EmptySet, EnergyIs

\* A row alone has its energy.
LEMMA EnergyOne ==
  ASSUME NEW i, i.energy \in Nat
  PROVE  IsFiniteSet(Units({i})) /\ EnergyOf({i}) = i.energy
<1>1. Units({i}) = {i} \X (1 .. i.energy)
  BY DEF Units
<1>2. IsFiniteSet({i}) /\ Cardinality({i}) = 1
  BY FS_Singleton
<1>3. IsFiniteSet(1 .. i.energy) /\ Cardinality(1 .. i.energy) = i.energy
  BY FS_Interval
<1>4. /\ IsFiniteSet({i} \X (1 .. i.energy))
      /\ Cardinality({i} \X (1 .. i.energy)) = 1 * i.energy
  BY <1>2, <1>3, FS_Product, Zenon
<1>5. Cardinality(Units({i})) = i.energy
  <2>1. \A n \in Nat : 1 * n = n
    OBVIOUS
  <2> QED BY <1>1, <1>4, <2>1
<1>6. IsFiniteSet(Units({i}))
  BY <1>1, <1>4
<1> QED BY <1>5, <1>6, EnergyIs
-----------------------------------------------------------------------------
(* Every unit is counted once *)

\* What the intervals and the aggregate of one outlet add up to.
LEMMA TotalIs ==
  ASSUME CountInv, NEW o \in Outlets
  PROVE  /\ Total(o) = EnergyOf(Of(o)) + monthly[o][TRUE] + monthly[o][FALSE]
         /\ IsFiniteSet(Units(Of(o))) /\ EnergyOf(Of(o)) \in Nat
         /\ monthly[o][TRUE] \in Nat /\ monthly[o][FALSE] \in Nat
         /\ Total(o) \in Nat
<1>1. Of(o) \in SUBSET intervals
  BY DEF Of
<1>2. IsFiniteSet(Units(Of(o))) /\ EnergyOf(Of(o)) \in Nat
  BY <1>1, EnergyPart DEF CountInv, Units
<1>3. monthly[o][TRUE] \in Nat /\ monthly[o][FALSE] \in Nat
  BY DEF CountInv
<1>4. Total(o) = EnergyOf(Of(o)) + monthly[o][TRUE] + monthly[o][FALSE]
  BY DEF Total, Of
<1>5. Total(o) \in Nat
  <2>1. \A m, n, k \in Nat : m + n + k \in Nat
    OBVIOUS
  <2> QED BY <1>2, <1>3, <1>4, <2>1, Zenon
<1> QED BY <1>2, <1>3, <1>4, <1>5

\* An outlet whose rows and aggregate stay keeps its total.
LEMMA TotalStays ==
  ASSUME NEW o \in Outlets, Of(o)' = Of(o), monthly'[o] = monthly[o]
  PROVE  Total(o)' = Total(o)
BY DEF Total, Of

\* An outlet that keeps its rows, its reading and its register is as counted as it was.
LEMMA CountedStays ==
  ASSUME NEW o \in Outlets, Counted(o), Of(o)' = Of(o), monthly'[o] = monthly[o],
         state'[o] = state[o], register'[o] = register[o], used'[o] = used[o],
         swaps'[o] = swaps[o], first'[o] = first[o]
  PROVE  Counted(o)'
<1>1. Total(o)' = Total(o)
  BY TotalStays
<1> QED BY <1>1 DEF Counted, Unread

LEMMA InitCount == Init => CountInv
<1> SUFFICES ASSUME Init PROVE CountInv
  OBVIOUS
<1>1. intervals = {}
  BY DEF Init
<1>2. IsFiniteSet(Units(intervals)) /\ EnergyOf({}) = 0
  BY <1>1, EnergyNone
<1>3. ASSUME NEW o \in Outlets
      PROVE  Counted(o)
  <2>1. {i \in intervals : i.outlet = o} = {}
    BY <1>1
  <2>2. Total(o) = 0
    BY <1>2, <2>1 DEF Total, Init
  <2> QED BY <2>2, NoneAssumption DEF Counted, Init
<1> QED BY <1>2, <1>3 DEF CountInv, Units, Init

\* The cabinet, the sessions and the health poll.
LEMMA OutsideCount ==
  ASSUME MeteringInv, CountInv,
         Outside \/ (\E answer \in Modes : PollHealth(answer)) \/ UNCHANGED vars
  PROVE  CountInv'
<1>1. UNCHANGED <<state, intervals, monthly, first>>
  BY DEF Outside, Tick, Deliver, SwapMeter, SetActive, PollHealth, db_vars, cab_vars, vars
<1> SUFFICES ASSUME NEW o \in Outlets PROVE Counted(o)'
  BY <1>1 DEF CountInv
<1>2. Counted(o) /\ Total(o) \in Nat
  BY TotalIs DEF CountInv
<1>3. /\ register[o] \in Nat /\ used[o] \in Nat /\ swaps[o] \in Nat
      /\ state[o] # None => state[o].energy \in Nat
      /\ register \in [Outlets -> Nat] /\ used \in [Outlets -> Nat] /\ swaps \in [Outlets -> Nat]
  BY DEF MeteringInv, ReadingsTyped, MeterState
<1>4. Of(o)' = Of(o) /\ Total(o)' = Total(o)
  BY <1>1, TotalStays DEF Of
<1>5. CASE UNCHANGED <<register[o], used[o], swaps[o]>>
  BY <1>1, <1>2, <1>4, <1>5, CountedStays
<1>6. ASSUME Deliver(o) PROVE Counted(o)'
  <2>1. register'[o] = register[o] + 1 /\ used'[o] = used[o] + 1 /\ swaps' = swaps
    BY <1>3, <1>6 DEF Deliver
  <2> QED BY <1>1, <1>2, <1>3, <1>4, <2>1 DEF Counted, Unread
<1>7. ASSUME SwapMeter(o) PROVE Counted(o)'
  <2>1. register'[o] = 0 /\ used'[o] = used[o] /\ swaps'[o] = swaps[o] + 1
    BY <1>3, <1>7 DEF SwapMeter
  <2> QED BY <1>1, <1>2, <1>3, <1>4, <2>1 DEF Counted, Unread
<1>8. ASSUME NEW p \in Outlets, p # o, Deliver(p) \/ SwapMeter(p)
      PROVE  UNCHANGED <<register[o], used[o], swaps[o]>>
  BY <1>3, <1>8 DEF Deliver, SwapMeter
<1> QED
  BY <1>5, <1>6, <1>7, <1>8 DEF Outside, Tick, SetActive, PollHealth, cab_vars, vars

\* What a reading finds, and that it is one of no other outlet.
LEMMA ReadCount ==
  ASSUME MeteringInv, NEW o \in Outlets, NEW last \in Nat \union {None}, Read(o, last)
  PROVE  /\ register[o] \in Nat /\ used[o] \in Nat /\ swaps[o] \in Nat /\ now \in Nat
         /\ state[o] # None => state[o].energy \in Nat /\ state[o].read_at \in Nat
         /\ UNCHANGED <<now, register, used, swaps, monthly>>
         /\ state'[o] # None /\ state'[o].energy = register[o]
         /\ \A p \in Outlets : p # o => state'[p] = state[p]
<1>1. state \in [Outlets -> MeterState \union {None}]
  BY DEF MeteringInv, ReadingsTyped
<1>2. [energy |-> register[o], read_at |-> now, last_interval_id |-> last] \in MeterState
  BY DEF MeteringInv, ReadingsTyped, MeterState
<1>3. state'[o] = [energy |-> register[o], read_at |-> now, last_interval_id |-> last]
  BY <1>1 DEF Read
<1> QED
  BY <1>1, <1>2, <1>3, NoneAssumption DEF MeteringInv, ReadingsTyped, MeterState, Read, cab_vars

\* The others stay as counted as they were.
LEMMA OthersCounted ==
  ASSUME MeteringInv, CountInv, NEW o \in Outlets, NEW last \in Nat \union {None}, Read(o, last),
         IsFiniteSet(Units(intervals')), Counted(o)',
         \A p \in Outlets : p # o => Of(p)' = Of(p) /\ first'[p] = first[p]
  PROVE  CountInv'
<1>1. ASSUME NEW p \in Outlets, p # o
      PROVE  Counted(p)'
  BY <1>1, ReadCount, CountedStays DEF CountInv
<1>2. monthly' = monthly
  BY ReadCount
<1> QED BY <1>1, <1>2 DEF CountInv, Units

LEMMA SeedCount ==
  ASSUME MeteringInv, CountInv, NEW o \in Outlets, Seed(o)
  PROVE  CountInv'
<1>1. Read(o, None) /\ None \in Nat \union {None} /\ intervals' = intervals
  BY DEF Seed
<1>2. \A p \in Outlets : Of(p)' = Of(p)
  BY <1>1 DEF Of
<1>3. Total(o)' = Total(o) /\ Total(o) = 0
  BY <1>1, <1>2, ReadCount, TotalStays DEF CountInv, Counted, Seed
<1>4. first \in [Outlets -> Nat] /\ first' = [first EXCEPT ![o] = register[o]]
  BY DEF Seed, MeteringInv, ReadingsTyped
<1>5. Counted(o)'
  <2>1. /\ register[o] \in Nat /\ used[o] \in Nat /\ swaps[o] \in Nat
        /\ state[o] # None => state[o].energy \in Nat
        /\ UNCHANGED <<register, used, swaps>>
        /\ state'[o] # None /\ state'[o].energy = register[o]
    BY <1>1, ReadCount
  <2>2. Counted(o)
    BY DEF CountInv
  <2>3. first'[o] = register[o]
    BY <1>4
  <2> QED BY <1>3, <2>1, <2>2, <2>3 DEF Counted, Unread, Seed
<1>6. IsFiniteSet(Units(intervals'))
  BY <1>1 DEF CountInv, Units
<1> QED BY <1>1, <1>2, <1>4, <1>5, <1>6, OthersCounted

LEMMA ResetCount ==
  ASSUME MeteringInv, CountInv, NEW o \in Outlets, Reset(o)
  PROVE  CountInv'
<1>1. Read(o, None) /\ None \in Nat \union {None} /\ intervals' = intervals /\ first' = first
  BY DEF Reset
<1>2. \A p \in Outlets : Of(p)' = Of(p)
  BY <1>1 DEF Of
<1>3. Total(o)' = Total(o) /\ Total(o) \in Nat
  BY <1>1, <1>2, ReadCount, TotalStays, TotalIs
<1>4. Counted(o)'
  <2>1. /\ register[o] \in Nat /\ used[o] \in Nat /\ swaps[o] \in Nat
        /\ state[o] # None => state[o].energy \in Nat
        /\ UNCHANGED <<register, used, swaps>>
        /\ state'[o] # None /\ state'[o].energy = register[o]
    BY <1>1, ReadCount
  <2>2. Counted(o)
    BY DEF CountInv
  <2>3. state[o] # None /\ register[o] < state[o].energy
    BY DEF Reset, Newer
  <2> QED BY <1>1, <1>3, <2>1, <2>2, <2>3 DEF Counted, Unread
<1>5. IsFiniteSet(Units(intervals'))
  BY <1>1 DEF CountInv, Units
<1> QED BY <1>1, <1>2, <1>4, <1>5, OthersCounted

\* An idle row that gets longer has no unit before or after.
LEMMA ExtendCount ==
  ASSUME MeteringInv, CountInv, NEW o \in Outlets, Extend(o)
  PROVE  CountInv'
<1>1. PICK i \in intervals :
        /\ Extendable(o, i)
        /\ intervals' = (intervals \ {i}) \union {[i EXCEPT !.to_at = now]}
  BY DEF Extend
<1>. DEFINE j == [i EXCEPT !.to_at = now]
<1>2. /\ i \in Interval /\ i.energy = 0 /\ i.outlet = o
      /\ j.energy = 0 /\ j.outlet = o
  <2>1. i \in Interval /\ i.energy = 0 /\ i.id = state[o].last_interval_id /\ state[o] # None
    BY <1>1 DEF Extendable, Extend, Newer, MeteringInv, ReadingsTyped
  <2>2. i.outlet = o
    BY <1>1, <2>1 DEF MeteringInv, LastInterval
  <2> QED BY <2>1, <2>2 DEF Interval
<1>. HIDE DEF j
<1>3. \A p \in Outlets : p # o => Of(p)' = Of(p)
  BY <1>1, <1>2 DEF Of, j
<1>4. /\ Of(o) = (Of(o) \ {i}) \union {i}
      /\ Of(o)' = ((Of(o) \ {i}) \ {j}) \union {j}
  BY <1>1, <1>2 DEF Of, j
<1>5. /\ IsFiniteSet(Units({i})) /\ EnergyOf({i}) = 0
      /\ IsFiniteSet(Units({j})) /\ EnergyOf({j}) = 0
  BY <1>2, EnergyOne
<1>6. EnergyOf(Of(o)') = EnergyOf(Of(o))
  <2>1. Units({j}) = {} /\ Units({i}) = {}
    BY <1>2 DEF Units
  <2>2. Units(Of(o)') = Units(Of(o))
    <3>1. \A u : u \in Units(Of(o)) <=> u \in Units(Of(o) \ {i})
      BY <1>4, <2>1, UnitOf
    <3>2. \A u : u \in Units(Of(o)') <=> u \in Units(Of(o) \ {i})
      BY <1>4, <2>1, UnitOf
    <3> QED BY <3>1, <3>2
  <2> QED BY <2>2, EnergyIs
<1>7. Total(o)' = Total(o) /\ Total(o) \in Nat
  <2>1. monthly' = monthly
    BY DEF Extend, Read
  <2> QED BY <1>6, <2>1, TotalIs DEF Total, Of
<1>8. Read(o, state[o].last_interval_id) /\ state[o].last_interval_id \in Nat \union {None}
  BY DEF Extend, Newer, MeteringInv, ReadingsTyped, MeterState
<1>9. Counted(o)'
  <2>1. /\ register[o] \in Nat /\ used[o] \in Nat /\ swaps[o] \in Nat
        /\ state[o] # None => state[o].energy \in Nat
        /\ UNCHANGED <<register, used, swaps>>
        /\ state'[o] # None /\ state'[o].energy = register[o]
    BY <1>8, ReadCount
  <2>2. Counted(o)
    BY DEF CountInv
  <2>3. state[o] # None /\ register[o] = state[o].energy /\ first' = first
    BY <2>1 DEF Extend, Newer, Delta
  <2> QED BY <1>7, <2>1, <2>2, <2>3 DEF Counted, Unread
<1>10. IsFiniteSet(Units(intervals'))
  <2>1. \A u : u \notin {j} \X (1 .. j.energy)
    BY <1>2
  <2>0. intervals' = (intervals \ {i}) \union {j}
    BY <1>1 DEF j
  <2>2. \A u : u \in Units(intervals') => u \in Units(intervals)
    BY <2>0, <2>1, UnitOf
  <2>3. Units(intervals') \in SUBSET Units(intervals)
    BY <2>2
  <2> QED BY <2>3, FS_Subset DEF CountInv, Units
<1> QED BY <1>3, <1>8, <1>9, <1>10, OthersCounted DEF Extend

\* A new row has the register's progress since the last reading.
LEMMA AddIntervalCount ==
  ASSUME MeteringInv, CountInv, NEW o \in Outlets, AddInterval(o)
  PROVE  CountInv'
<1>. DEFINE k == NewInterval(o)
<1>1. Read(o, next_id) /\ next_id \in Nat \union {None} /\ first' = first
  BY DEF AddInterval, MeteringInv, ReadingsTyped
<1>2. /\ register[o] \in Nat /\ used[o] \in Nat /\ swaps[o] \in Nat
      /\ state[o] # None /\ state[o].energy \in Nat /\ state[o].energy <= register[o]
      /\ UNCHANGED <<register, used, swaps, monthly>>
      /\ state'[o] # None /\ state'[o].energy = register[o]
  BY <1>1, ReadCount DEF AddInterval, Newer
<1>3. intervals' = intervals \union {k}
  BY DEF AddInterval
<1>4. /\ k.outlet = o /\ k.id = next_id
      /\ k.energy = register[o] - state[o].energy /\ k.energy \in Nat
  BY <1>2 DEF NewInterval, Delta
<1>. HIDE DEF k
<1>5. k \notin intervals
  BY <1>4 DEF MeteringInv, IntervalsRead, ReadingsTyped, Interval
<1>6. \A p \in Outlets : p # o => Of(p)' = Of(p)
  BY <1>3, <1>4 DEF Of
<1>7. Of(o)' = Of(o) \union {k} /\ Of(o) \intersect {k} = {}
  BY <1>3, <1>4, <1>5 DEF Of
<1>8. IsFiniteSet(Units({k})) /\ EnergyOf({k}) = k.energy
  BY <1>4, EnergyOne
<1>9. Total(o) \in Nat /\ Total(o)' = Total(o) + k.energy
  <2>1. /\ Total(o) = EnergyOf(Of(o)) + monthly[o][TRUE] + monthly[o][FALSE]
        /\ IsFiniteSet(Units(Of(o))) /\ EnergyOf(Of(o)) \in Nat
        /\ monthly[o][TRUE] \in Nat /\ monthly[o][FALSE] \in Nat /\ Total(o) \in Nat
    BY TotalIs
  <2>2. EnergyOf(Of(o)') = EnergyOf(Of(o)) + k.energy
    BY <1>7, <1>8, <2>1, EnergySplit
  <2>3. Total(o)' = EnergyOf(Of(o)') + monthly[o][TRUE] + monthly[o][FALSE]
    BY <1>2 DEF Total, Of
  <2>4. (EnergyOf(Of(o)) + k.energy) + monthly[o][TRUE] + monthly[o][FALSE]
          = (EnergyOf(Of(o)) + monthly[o][TRUE] + monthly[o][FALSE]) + k.energy
    <3>1. k.energy \in Nat
      BY <1>4
    <3>2. EnergyOf(Of(o)) \in Nat /\ monthly[o][TRUE] \in Nat /\ monthly[o][FALSE] \in Nat
      BY <2>1
    <3>. DEFINE a == EnergyOf(Of(o)) b == monthly[o][TRUE] c == monthly[o][FALSE] d == k.energy
    <3>3. a \in Nat /\ b \in Nat /\ c \in Nat /\ d \in Nat
      BY <3>1, <3>2
    <3>. HIDE DEF a, b, c, d
    <3>4. (a + d) + b + c = (a + b + c) + d
      BY <3>3
    <3> QED BY <3>4 DEF a, b, c, d
  <2> QED BY <2>1, <2>2, <2>3, <2>4
<1>10. Counted(o)'
  <2>1. Counted(o)
    BY DEF CountInv
  <2>2. first[o] \in Nat
    BY DEF MeteringInv, ReadingsTyped
  <2> QED BY <1>1, <1>2, <1>4, <1>9, <2>1, <2>2 DEF Counted, Unread
<1>11. IsFiniteSet(Units(intervals'))
  <2>1. intervals \intersect {k} = {}
    BY <1>5
  <2> QED BY <1>3, <1>8, <2>1, EnergySplit DEF CountInv, Units
<1> QED BY <1>1, <1>6, <1>10, <1>11, OthersCounted

\* Retention of a demo outlet only takes away.
LEMMA DeleteSimulatedCount ==
  ASSUME MeteringInv, CountInv, NEW C \in SUBSET Old, DeleteSimulated(C)
  PROVE  CountInv'
<1>1. /\ intervals' = intervals \ C
      /\ \A i \in C : i.outlet \in Simulated
      /\ UNCHANGED <<register, used, swaps, monthly, first>>
  BY DEF DeleteSimulated, cab_vars
<1>2. ASSUME NEW o \in Outlets
      PROVE  Counted(o)'
  <2>1. /\ state[o] \in MeterState \union {None}
        /\ register[o] \in Nat /\ used[o] \in Nat
    BY DEF MeteringInv, ReadingsTyped
  <2>2. /\ state[o] = None <=> state'[o] = None
        /\ state[o] # None => state'[o].energy = state[o].energy
    <3>1. state[o] # None => [state[o] EXCEPT !.last_interval_id = None] \in MeterState
      BY <2>1 DEF MeterState
    <3> QED BY <2>1, <3>1, NoneAssumption DEF DeleteSimulated, MeterState
  <2>3. Counted(o) /\ Total(o) \in Nat
    BY TotalIs DEF CountInv
  <2>4. Total(o)' \in Nat /\ Total(o)' <= Total(o)
    <3>1. /\ Total(o) = EnergyOf(Of(o)) + monthly[o][TRUE] + monthly[o][FALSE]
          /\ IsFiniteSet(Units(Of(o))) /\ EnergyOf(Of(o)) \in Nat
          /\ monthly[o][TRUE] \in Nat /\ monthly[o][FALSE] \in Nat
      BY TotalIs
    <3>2. /\ Of(o) \ C \in SUBSET Of(o) /\ Of(o) \intersect C \in SUBSET Of(o)
          /\ (Of(o) \ C) \intersect (Of(o) \intersect C) = {}
          /\ (Of(o) \ C) \union (Of(o) \intersect C) = Of(o)
      OBVIOUS
    <3>3. /\ IsFiniteSet(Units(Of(o) \ C)) /\ IsFiniteSet(Units(Of(o) \intersect C))
          /\ EnergyOf(Of(o) \ C) \in Nat /\ EnergyOf(Of(o) \intersect C) \in Nat
      BY <3>1, <3>2, EnergyPart
    <3>4. EnergyOf(Of(o)) = EnergyOf(Of(o) \ C) + EnergyOf(Of(o) \intersect C)
      BY <3>2, <3>3, EnergySplit
    <3>5. Of(o)' = Of(o) \ C
      BY <1>1 DEF Of
    <3>6. Total(o)' = EnergyOf(Of(o) \ C) + monthly[o][TRUE] + monthly[o][FALSE]
      BY <1>1, <3>5 DEF Total, Of
    <3>7. \A a, d, b, c \in Nat : a + b + c \in Nat /\ a + b + c <= (a + d) + b + c
      OBVIOUS
    <3>8. /\ EnergyOf(Of(o) \ C) + monthly[o][TRUE] + monthly[o][FALSE] \in Nat
          /\ EnergyOf(Of(o) \ C) + monthly[o][TRUE] + monthly[o][FALSE]
               <= (EnergyOf(Of(o) \ C) + EnergyOf(Of(o) \intersect C))
                    + monthly[o][TRUE] + monthly[o][FALSE]
      BY <3>1, <3>3, <3>7, Zenon
    <3> QED BY <3>1, <3>4, <3>6, <3>8
  <2>5. o \notin Simulated => Total(o)' = Total(o)
    <3>1. o \notin Simulated => Of(o)' = Of(o)
      BY <1>1 DEF Of
    <3> QED BY <1>1, <3>1, TotalStays
  <2> QED BY <1>1, <2>1, <2>2, <2>3, <2>4, <2>5 DEF Counted, Unread, MeterState
<1>3. IsFiniteSet(Units(intervals'))
  <2>1. intervals' \in SUBSET intervals
    BY <1>1
  <2> QED BY <2>1, EnergyPart DEF CountInv, Units
<1> QED BY <1>1, <1>2, <1>3 DEF CountInv, Units

\* A chunk of rows moves to the aggregate in one transaction: each to its outlet and flag.
LEMMA RollUpCount ==
  ASSUME MeteringInv, CountInv, NEW C \in SUBSET Old, RollUp(C)
  PROVE  CountInv'
<1>. DEFINE Part(o, b) == {i \in C : i.outlet = o /\ i.standalone = b}
<1>1. /\ intervals' = intervals \ C /\ C \in SUBSET intervals
      /\ monthly' = [o \in Outlets |-> [b \in BOOLEAN |-> monthly[o][b] + EnergyOf(Part(o, b))]]
      /\ UNCHANGED <<register, used, swaps, state, first>>
  BY DEF RollUp, cab_vars, Old
<1>2. ASSUME NEW o \in Outlets, NEW b \in BOOLEAN
      PROVE  IsFiniteSet(Units(Part(o, b))) /\ EnergyOf(Part(o, b)) \in Nat
  <2>1. Part(o, b) \in SUBSET intervals
    BY <1>1
  <2>. HIDE DEF Part
  <2> QED BY <2>1, EnergyPart DEF CountInv, Units
<1>3. ASSUME NEW o \in Outlets
      PROVE  Total(o)' = Total(o)
  <2>1. /\ Total(o) = EnergyOf(Of(o)) + monthly[o][TRUE] + monthly[o][FALSE]
        /\ IsFiniteSet(Units(Of(o)))
        /\ monthly[o][TRUE] \in Nat /\ monthly[o][FALSE] \in Nat
    BY TotalIs
  <2>2. Of(o) \ C \in SUBSET Of(o) /\ Of(o)' = Of(o) \ C
    BY <1>1 DEF Of
  <2>3. IsFiniteSet(Units(Of(o) \ C)) /\ EnergyOf(Of(o) \ C) \in Nat
    BY <2>1, <2>2, EnergyPart
  <2>4. /\ Part(o, TRUE) \intersect Part(o, FALSE) = {}
        /\ (Of(o) \ C) \intersect (Part(o, TRUE) \union Part(o, FALSE)) = {}
        /\ (Of(o) \ C) \union (Part(o, TRUE) \union Part(o, FALSE)) = Of(o)
    <3>1. \A i \in C : i \in intervals /\ i.standalone \in BOOLEAN
      BY <1>1 DEF MeteringInv, ReadingsTyped, Interval
    <3> QED BY <3>1 DEF Of
  <2>5. /\ monthly'[o][TRUE] = monthly[o][TRUE] + EnergyOf(Part(o, TRUE))
        /\ monthly'[o][FALSE] = monthly[o][FALSE] + EnergyOf(Part(o, FALSE))
    BY <1>1
  <2>. HIDE DEF Part
  <2>6. /\ IsFiniteSet(Units(Part(o, TRUE) \union Part(o, FALSE)))
        /\ EnergyOf(Part(o, TRUE) \union Part(o, FALSE))
             = EnergyOf(Part(o, TRUE)) + EnergyOf(Part(o, FALSE))
    BY <1>2, <2>4, EnergySplit
  <2>7. EnergyOf(Of(o)) = EnergyOf(Of(o) \ C) + (EnergyOf(Part(o, TRUE)) + EnergyOf(Part(o, FALSE)))
    BY <2>3, <2>4, <2>6, EnergySplit
  <2>8. Total(o)' = EnergyOf(Of(o) \ C) + (monthly[o][TRUE] + EnergyOf(Part(o, TRUE)))
                      + (monthly[o][FALSE] + EnergyOf(Part(o, FALSE)))
    BY <2>2, <2>5 DEF Total, Of
  <2>9. EnergyOf(Of(o) \ C) + (monthly[o][TRUE] + EnergyOf(Part(o, TRUE)))
             + (monthly[o][FALSE] + EnergyOf(Part(o, FALSE)))
           = (EnergyOf(Of(o) \ C) + (EnergyOf(Part(o, TRUE)) + EnergyOf(Part(o, FALSE))))
               + monthly[o][TRUE] + monthly[o][FALSE]
    <3>. DEFINE a == EnergyOf(Of(o) \ C)
                t == EnergyOf(Part(o, TRUE)) f == EnergyOf(Part(o, FALSE))
                m == monthly[o][TRUE] n == monthly[o][FALSE]
    <3>1. a \in Nat /\ t \in Nat /\ f \in Nat /\ m \in Nat /\ n \in Nat
      BY <1>2, <2>1, <2>3
    <3>. HIDE DEF a, t, f, m, n
    <3>2. a + (m + t) + (n + f) = (a + (t + f)) + m + n
      BY <3>1
    <3> QED BY <3>2 DEF a, t, f, m, n
  <2> QED BY <2>1, <2>7, <2>8, <2>9
<1>4. \A o \in Outlets : Counted(o)'
  BY <1>1, <1>3 DEF CountInv, Counted, Unread
<1>5. monthly' \in [Outlets -> [BOOLEAN -> Nat]]
  <2>1. \A o \in Outlets, b \in BOOLEAN : monthly[o][b] + EnergyOf(Part(o, b)) \in Nat
    <3>. HIDE DEF Part
    <3> QED BY <1>2 DEF CountInv
  <2>. HIDE DEF Part
  <2> QED BY <1>1, <2>1
<1>6. IsFiniteSet(Units(intervals'))
  <2>1. intervals' \in SUBSET intervals
    BY <1>1
  <2> QED BY <2>1, EnergyPart DEF CountInv, Units
<1> QED BY <1>4, <1>5, <1>6 DEF CountInv, Units

\* Totals, what is still to be read and what was delivered, whatever crashes between the
\* chunks of retention.
THEOREM CountInvariance == Spec => []CountInv
<1>1. Init => CountInv
  BY InitCount
<1>2. MeteringInv /\ CountInv /\ [Next]_vars => CountInv'
  <2> SUFFICES ASSUME MeteringInv, CountInv, [Next]_vars PROVE CountInv'
    OBVIOUS
  <2>1. ASSUME NEW o \in Outlets, Seed(o) \/ Reset(o) \/ Extend(o) \/ AddInterval(o)
        PROVE  CountInv'
    BY <2>1, SeedCount, ResetCount, ExtendCount, AddIntervalCount
  <2>2. ASSUME NEW C \in SUBSET Old, DeleteSimulated(C) \/ RollUp(C)
        PROVE  CountInv'
    BY <2>2, DeleteSimulatedCount, RollUpCount
  <2> QED BY <2>1, <2>2, OutsideCount DEF Next, Collect, Retain
<1> QED BY <1>1, <1>2, MeteringInvariance, PTL DEF Spec

\* record_reading and retention: no unit is lost or counted twice between register,
\* intervals and aggregate.
THEOREM AllCounted == Spec => []EverythingCounted
<1>1. MeteringInv /\ CountInv => EverythingCounted
  <2> SUFFICES ASSUME MeteringInv, CountInv, NEW o \in Outlets
               PROVE  /\ o \notin Simulated /\ swaps[o] = 0 /\ state[o] # None =>
                           Total(o) = state[o].energy - first[o]
                      /\ Total(o) <= used[o] /\ \A i \in intervals : i.outlet = o => i.energy >= 0
    BY DEF EverythingCounted
  <2>1. Counted(o) /\ Total(o) \in Nat
    BY TotalIs DEF CountInv
  <2>2. /\ used[o] \in Nat /\ register[o] \in Nat /\ \A i \in intervals : i.energy \in Nat
        /\ state[o] # None => state[o].energy \in Nat
    BY DEF MeteringInv, ReadingsTyped, Interval, MeterState
  <2>3. state[o] # None => Unread(o) \in Nat
    BY <2>2 DEF Unread
  <2> QED BY <2>1, <2>2, <2>3 DEF Counted
<1> QED BY <1>1, CountInvariance, MeteringInvariance, PTL
=============================================================================
