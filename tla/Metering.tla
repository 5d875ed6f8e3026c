------------------------------- MODULE Metering -------------------------------
(***************************************************************************)
(* Register readings -> consumption intervals -> the monthly aggregate:    *)
(* record_reading and the health poll of services/collector.py, and the    *)
(* interval part of services/retention.py, with the tables of              *)
(* models/metering.py.                                                     *)
(*                                                                         *)
(* The collector sees an outlet's register only now and then, and its own  *)
(* idea of the cabinet's mode and of the running session is as old as the  *)
(* last poll, webhook or pull.  Between two readings the meter may be      *)
(* replaced, the mode switched, a session begun or ended; retention moves  *)
(* old intervals away in chunks, one transaction each.                     *)
(*                                                                         *)
(* _store_load commits the readings of one answer together; an outlet it   *)
(* does not mention, or a crash before the commit, is an outlet not read.  *)
(* The month of the aggregate is left out: one total per outlet and flag.  *)
(***************************************************************************)
EXTENDS Naturals, FiniteSets

CONSTANTS
  Outlets,
  Simulated,     \* outlets of demo cabinets: intervals deleted, never rolled up
  Sessions,      \* ids of ERP sessions: numbers, a newer one has a larger id
  OutletOf,      \* OutletOf[s]
  None,
  Window,        \* retention_intervals_days / retention_simulated_intervals_days
  Chunk,         \* CHUNK
  MaxTime,       \* bound
  MaxUsed,       \* bound: MaxUsed[o], units outlet o delivers
  MaxSwaps       \* bound: MaxSwaps[o], replacements of its meter

ASSUME MeteringAssumption ==
  /\ Simulated \subseteq Outlets
  /\ Sessions \subseteq Nat
  /\ OutletOf \in [Sessions -> Outlets]
  /\ Window \in Nat /\ Chunk \in Nat \ {0}
  /\ MaxTime \in Nat /\ {MaxUsed, MaxSwaps} \subseteq [Outlets -> Nat]

Modes == {"on", "off", "unknown"}    \* smart_mode: True, False, None

Interval == [id : Nat, outlet : Outlets, session_id : Sessions \union {None},
             standalone : BOOLEAN, from_at : Nat, to_at : Nat, energy : Nat]

MeterState == [energy : Nat, read_at : Nat, last_interval_id : Nat \union {None}]

ASSUME NoneAssumption == None \notin Nat /\ None \notin MeterState

VARIABLES
  now,
  register,      \* the cabinet's register of each outlet
  used,          \* units each outlet has physically delivered
  swaps,         \* meters replaced, per outlet
  active,        \* ERP sessions with status active
  smart_mode,    \* cabinets.smart_mode, as last polled
  state,         \* outlet_meter_state: a row or None
  intervals,     \* consumption_intervals
  next_id,
  monthly,       \* consumption_monthly: energy per outlet and standalone flag
  first          \* first[o]: the register the outlet was seeded with

cab_vars == <<register, used, swaps>>
db_vars  == <<smart_mode, state, intervals, next_id, monthly, first>>
vars     == <<now, register, used, swaps, active, smart_mode, state, intervals, next_id,
              monthly, first>>

\* Types of what the readings change.
ReadingsTyped ==
  /\ now \in Nat /\ next_id \in Nat
  /\ register \in [Outlets -> Nat]
  /\ used \in [Outlets -> Nat]
  /\ swaps \in [Outlets -> Nat]
  /\ active \subseteq Sessions
  /\ smart_mode \in Modes
  /\ state \in [Outlets -> MeterState \union {None}]
  /\ intervals \subseteq Interval
  /\ first \in [Outlets -> Nat]

Init ==
  /\ now = 0 /\ next_id = 0
  /\ register = [o \in Outlets |-> 0]
  /\ used = [o \in Outlets |-> 0]
  /\ swaps = [o \in Outlets |-> 0]
  /\ active = {}
  /\ smart_mode = "unknown"
  /\ state = [o \in Outlets |-> None]
  /\ intervals = {}
  /\ monthly = [o \in Outlets |-> [b \in BOOLEAN |-> 0]]
  /\ first = [o \in Outlets |-> 0]

ActiveOn(o) == {s \in active : OutletOf[s] = o}

-----------------------------------------------------------------------------
(* The cabinet, and the rest of the ERP *)

Tick ==
  /\ now < MaxTime
  /\ now' = now + 1
  /\ UNCHANGED <<cab_vars, db_vars, active>>

Deliver(o) ==
  /\ used[o] < MaxUsed[o]
  /\ used' = [used EXCEPT ![o] = @ + 1]
  /\ register' = [register EXCEPT ![o] = @ + 1]
  /\ UNCHANGED <<now, swaps, active, db_vars>>

\* A meter swap or reset: the register starts again at zero.
SwapMeter(o) ==
  /\ swaps[o] < MaxSwaps[o]
  /\ swaps' = [swaps EXCEPT ![o] = @ + 1]
  /\ register' = [register EXCEPT ![o] = 0]
  /\ UNCHANGED <<now, used, active, db_vars>>

\* A webhook or the pull sets the status of s.
SetActive(s) ==
  /\ active' = IF s \in active THEN active \ {s} ELSE active \union {s}
  /\ UNCHANGED <<now, cab_vars, db_vars>>

\* _server_tasks, health: the mode the cabinet says it is in, or no boolean at all.
PollHealth(answer) ==
  /\ smart_mode' = answer
  /\ UNCHANGED <<now, cab_vars, active, state, intervals, next_id, monthly, first>>

-----------------------------------------------------------------------------
(* record_reading: one register reading, at most one new interval row *)

Read(o, last) ==
  /\ state' = [state EXCEPT ![o] = [energy |-> register[o], read_at |-> now,
                                    last_interval_id |-> last]]
  /\ UNCHANGED <<now, cab_vars, active, smart_mode, monthly>>

Seed(o) ==
  /\ state[o] = None
  /\ Read(o, None)
  /\ first' = [first EXCEPT ![o] = register[o]]
  /\ UNCHANGED <<intervals, next_id>>

\* "not_newer" otherwise.
Newer(o) == state[o] # None /\ state[o].read_at < now

\* Never a negative interval, never a guess.
Reset(o) ==
  /\ Newer(o)
  /\ register[o] < state[o].energy
  /\ Read(o, None)
  /\ UNCHANGED <<intervals, next_id, first>>

Delta(o) == register[o] - state[o].energy

\* The newest active session on the outlet, when the ERP thinks Smart Mode is on.
SessionFor(o) ==
  IF smart_mode = "on" /\ ActiveOn(o) # {}
  THEN CHOOSE s \in ActiveOn(o) : \A t \in ActiveOn(o) : t <= s
  ELSE None

Standalone == smart_mode = "off"

Extendable_AnyIdle(o, i) ==
  /\ i.outlet = o
  /\ i.energy = 0
  /\ i.session_id = SessionFor(o) /\ i.standalone = Standalone

\* The row an idle reading extends.
Extendable(o, i) ==
  /\ i.id = state[o].last_interval_id
  /\ i.energy = 0
  /\ i.session_id = SessionFor(o) /\ i.standalone = Standalone
  /\ i.to_at = state[o].read_at

CanExtend(o) == Delta(o) = 0 /\ \E i \in intervals : Extendable(o, i)

Extend(o) ==
  /\ Newer(o) /\ register[o] >= state[o].energy
  /\ Delta(o) = 0
  /\ \E i \in intervals :
       /\ Extendable(o, i)
       /\ intervals' = (intervals \ {i}) \union {[i EXCEPT !.to_at = now]}
  /\ Read(o, state[o].last_interval_id)
  /\ UNCHANGED <<next_id, first>>

NewInterval(o) ==
  [id |-> next_id, outlet |-> o, session_id |-> SessionFor(o), standalone |-> Standalone,
   from_at |-> state[o].read_at, to_at |-> now, energy |-> Delta(o)]

AddInterval_IdLost(o) ==
  /\ Newer(o) /\ register[o] >= state[o].energy
  /\ ~CanExtend(o)
  /\ intervals' = intervals \union {NewInterval(o)}
  /\ next_id' = next_id + 1
  /\ Read(o, state[o].last_interval_id)
  /\ UNCHANGED first

AddInterval(o) ==
  /\ Newer(o) /\ register[o] >= state[o].energy
  /\ ~CanExtend(o)
  /\ intervals' = intervals \union {NewInterval(o)}
  /\ next_id' = next_id + 1
  /\ Read(o, next_id)
  /\ UNCHANGED first

-----------------------------------------------------------------------------
(* Retention of intervals: one transaction per chunk *)

Old == {i \in intervals : i.to_at + Window < now}

\* SUM(energy) of the rows S: the number of their units.
EnergyOf(S) == Cardinality(UNION {{i} \X (1 .. i.energy) : i \in S})

\* _delete_simulated_intervals; the meter state may point at a row about to go.
DeleteSimulated(C) ==
  /\ C # {} /\ C \subseteq {i \in Old : i.outlet \in Simulated}
  /\ Cardinality(C) <= Chunk
  /\ intervals' = intervals \ C
  /\ state' = [o \in Outlets |->
                 IF state[o] # None /\ \E i \in C : i.id = state[o].last_interval_id
                 THEN [state[o] EXCEPT !.last_interval_id = None] ELSE state[o]]
  /\ UNCHANGED <<now, cab_vars, active, smart_mode, next_id, monthly, first>>

RollUp_DeleteAllOld(C) ==
  /\ C # {} /\ C \subseteq Old
  /\ Cardinality(C) <= Chunk
  /\ monthly' = [o \in Outlets |-> [b \in BOOLEAN |->
       monthly[o][b] + EnergyOf({i \in C : i.outlet = o /\ i.standalone = b})]]
  /\ intervals' = intervals \ Old
  /\ UNCHANGED <<now, cab_vars, active, smart_mode, state, next_id, first>>

\* _roll_up_intervals: the oldest rows first; added to the aggregate and deleted.  The
\* simulated ones are gone before (run deletes them with a shorter window).
RollUp(C) ==
  /\ C # {} /\ C \subseteq Old
  /\ Cardinality(C) = Chunk \/ C = Old
  /\ Cardinality(C) <= Chunk
  /\ \A i \in C, j \in Old \ C : i.id < j.id
  /\ \A i \in Old : i.outlet \notin Simulated
  /\ monthly' = [o \in Outlets |-> [b \in BOOLEAN |->
       monthly[o][b] + EnergyOf({i \in C : i.outlet = o /\ i.standalone = b})]]
  /\ intervals' = intervals \ C
  /\ UNCHANGED <<now, cab_vars, active, smart_mode, state, next_id, first>>

-----------------------------------------------------------------------------
Outside ==
  \/ Tick
  \/ \E o \in Outlets : Deliver(o) \/ SwapMeter(o)
  \/ \E s \in Sessions : SetActive(s)

Collect ==
  \/ \E answer \in Modes : PollHealth(answer)
  \/ \E o \in Outlets : Seed(o) \/ Reset(o) \/ Extend(o) \/ AddInterval(o)

Retain == \E C \in SUBSET Old : DeleteSimulated(C) \/ RollUp(C)

Next == Outside \/ Collect \/ Retain

Spec == Init /\ [][Next]_vars
-----------------------------------------------------------------------------
(* Properties *)

\* What the ERP holds of an outlet, wherever retention has put it.
Total(o) == EnergyOf({i \in intervals : i.outlet = o}) + monthly[o][TRUE] + monthly[o][FALSE]

\* Nothing is lost or counted twice between register, intervals and aggregate, whatever
\* crashes between chunks: with its meter never replaced, an outlet's total is exactly
\* the register's progress since it was seeded; replaced meters may hide consumption,
\* never invent it or give a negative figure.
EverythingCounted ==
  \A o \in Outlets :
    /\ o \notin Simulated /\ swaps[o] = 0 /\ state[o] # None =>
         Total(o) = state[o].energy - first[o]
    /\ Total(o) <= used[o] /\ \A i \in intervals : i.outlet = o => i.energy >= 0

\* No moment of an outlet is in two intervals.
Disjoint(i, j) == i.to_at <= j.from_at \/ j.to_at <= i.from_at

IntervalsDisjoint ==
  \A i, j \in intervals : i # j /\ i.outlet = j.outlet => Disjoint(i, j)

\* "an idle outlet is one row": two adjacent idle intervals differ in what they belong to.
IdleIsOneRow ==
  \A i, j \in intervals :
    i.outlet = j.outlet /\ i.to_at = j.from_at /\ i.energy = 0 /\ j.energy = 0
      => i.session_id # j.session_id \/ i.standalone # j.standalone

-----------------------------------------------------------------------------
(* What makes the last two inductive *)

\* An interval lies between two readings of its outlet, the last one included.
IntervalsRead ==
  \A i \in intervals : /\ i.id < next_id
                       /\ i.from_at < i.to_at
                       /\ state[i.outlet] # None /\ i.to_at <= state[i.outlet].read_at

IdsUnique == \A i, j \in intervals : i.id = j.id => i = j

\* The row an outlet's state points at is its own, or gone for good; and a row that
\* reaches to the last reading is the one pointed at.
LastInterval ==
  \A o \in Outlets : state[o] # None =>
    /\ state[o].read_at <= now
    /\ state[o].last_interval_id # None => state[o].last_interval_id < next_id
    /\ \A i \in intervals : i.id = state[o].last_interval_id => i.outlet = o
    /\ \A i \in intervals : i.outlet = o /\ i.to_at = state[o].read_at
                             => i.id = state[o].last_interval_id

MeteringInv ==
  /\ ReadingsTyped /\ IntervalsRead /\ IdsUnique /\ LastInterval
  /\ IntervalsDisjoint /\ IdleIsOneRow

-----------------------------------------------------------------------------
(* What makes EverythingCounted inductive *)

\* What the register has gone on since the last reading, as the next one will see it.
Unread(o) == IF register[o] >= state[o].energy THEN register[o] - state[o].energy ELSE 0

\* What is counted and what is still to be read was delivered; while the meter is the
\* first one, the register says what was delivered and the readings follow it.
Counted(o) ==
  /\ state[o] = None => Total(o) = 0
  /\ state[o] # None => Total(o) + Unread(o) <= used[o]
  /\ swaps[o] = 0 =>
       /\ register[o] = used[o]
       /\ state[o] # None =>
            /\ first[o] <= state[o].energy /\ state[o].energy <= register[o]
            /\ o \notin Simulated => Total(o) = state[o].energy - first[o]

CountInv ==
  /\ IsFiniteSet(UNION {{i} \X (1 .. i.energy) : i \in intervals})
  /\ monthly \in [Outlets -> [BOOLEAN -> Nat]]
  /\ \A o \in Outlets : Counted(o)
=============================================================================
