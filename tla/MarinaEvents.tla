----------------------------- MODULE MarinaEvents -----------------------------
(***************************************************************************)
(* The marina's webhook (webhooks.py, receive_webhook), the pedestal rows  *)
(* of pedestal_cache it keeps up to date, and the broadcast to the         *)
(* browsers connected to /ws (services/websocket_manager.py, main.py).     *)
(*                                                                         *)
(* One process, one event loop: a handler runs alone until it awaits, so   *)
(* its database work is one piece for the other handlers, but several      *)
(* transactions for retention, which runs on the collector's thread.  A    *)
(* broadcast awaits every browser, and others come, go and hear other      *)
(* events meanwhile.                                                       *)
(***************************************************************************)
EXTENDS Naturals, Sequences, FiniteSets

CONSTANTS
  MarinaIds, Signed,     \* those with a webhook_secret
  PedestalIds,           \* 0: the marina itself
  EventTypes,            \* received
  Clients, Filter,       \* Filter[c]: the marina it asks for, or Nothing
  Admins, Assigned,      \* of its token: role admin, marina_ids
  Nothing,
  CacheWindow,           \* retention_cache_days
  MaxClock, MaxNumber    \* bounds: time and events

Sensors == {"power_reading", "water_reading", "temperature_reading", "heartbeat"}
Untyped == "untyped"     \* an event_type that is no string
Fields  == (EventTypes \intersect Sensors) \union {"last_temperature"}

\* A row of pedestal_cache: last_synced_at, the events whose readings it shows.
PedestalEntry == [synced : Nat \union {Nothing}, shown : [Fields -> Nat \union {Nothing}]]

ASSUME EventsAssumption ==
  /\ Signed \subseteq MarinaIds /\ IsFiniteSet(Clients) /\ Assigned \in [Clients -> SUBSET MarinaIds]
  /\ Nothing \notin MarinaIds /\ Nothing \notin PedestalEntry
  /\ CacheWindow \in Nat /\ MaxClock \in Nat /\ MaxNumber \in Nat

VARIABLES
  clock,
  pedestals,   \* pedestals[<<m, p>>]: synced (last_synced_at) and shown[f], or Nothing
  logged,      \* rows of alarm_log and session_log
  handling,    \* the event the loop is busy with, or Nothing
  number,      \* events so far
  newest,      \* newest[<<m, p, f>>]: the last one stored in field f
  doomed,      \* rows retention has selected and not deleted yet
  lists,       \* the values of _connections, the last one is current
  socket,      \* socket[c]: "new", "open", "refused", "gone" or "left"
  sends,       \* the broadcasts
  heard        \* heard[c]: the events c was sent

rowVars    == <<pedestals, logged, newest>>
socketVars == <<lists, socket, sends, heard>>
eventVars  == <<clock, rowVars, handling, number, doomed, socketVars>>

(***************************************************************************)
(* The webhook                                                             *)
(***************************************************************************)

\* What one event writes, a transaction each, in this order.
Turn == [cache |-> 1, alarm |-> 2, session |-> 3, temperature |-> 4, readings |-> 5]

Parts(type, p) ==
  {part \in DOMAIN Turn :
     CASE part = "cache"       -> p # 0
       [] part = "alarm"       -> type = "alarm"
       [] part = "session"     -> type = "session"
       [] part = "temperature" -> type = "temperature_reading"
       [] part = "readings"    -> type \in Sensors}

\* receive_webhook; a marina without a secret and a wrong signature are refused before.
Receive(m, p, type) ==
  /\ handling = Nothing /\ m \in Signed /\ number < MaxNumber /\ number' = number + 1
  /\ handling' = [number |-> number', at |-> clock, marina |-> m, pedestal |-> p, type |-> type,
                  todo |-> Parts(type, p), synced |-> p = 0]
  /\ UNCHANGED <<clock, rowVars, doomed, socketVars>>

PedestalRow(m, p) ==
  IF pedestals[<<m, p>>] # Nothing THEN pedestals[<<m, p>>]
  ELSE [synced |-> Nothing, shown |-> [f \in Fields |-> Nothing]]

\* Mutant: last_readings holds the one type only.
Reading_Alone(row, f, n) == [row EXCEPT !.shown = [g \in Fields |-> IF g = f THEN n ELSE Nothing]]

\* _update_temperature, _update_readings: the others of the blob stay.
Reading(row, f, n) == [row EXCEPT !.shown[f] = n]

Store(row) == pedestals' = [pedestals EXCEPT ![<<handling.marina, handling.pedestal>>] = row]

StoreReading(f) ==
  LET m == handling.marina  p == handling.pedestal  n == handling.number
  IN /\ Store(Reading(PedestalRow(m, p), f, n))
     /\ newest' = [newest EXCEPT ![<<m, p, f>>] = [number |-> n, at |-> handling.at,
                                               safe |-> handling.synced /\ <<m, p>> \notin doomed]]
     /\ UNCHANGED logged

\* _write_alarm_log, _write_session_log.
EventLog(part) ==
  logged' = logged \union {<<part, handling.number>>} /\ UNCHANGED <<pedestals, newest>>

\* The next part commits; or it fails, is rolled back and the handler goes on.
WritePart(part, ok) ==
  /\ handling # Nothing /\ part \in handling.todo
  /\ \A other \in handling.todo : Turn[part] <= Turn[other]
  /\ handling' = [handling EXCEPT !.todo = @ \ {part}, !.synced = @ \/ (ok /\ part = "cache")]
  /\ CASE ~ok -> UNCHANGED rowVars
       [] ok /\ part = "cache" ->
            LET row == PedestalRow(handling.marina, handling.pedestal)
            IN Store([row EXCEPT !.synced = handling.at]) /\ UNCHANGED <<logged, newest>>
       [] ok /\ part \in {"alarm", "session"} -> EventLog(part)
       [] ok /\ part = "temperature" -> StoreReading("last_temperature")
       [] ok /\ part = "readings"    -> StoreReading(handling.type)
  /\ UNCHANGED <<clock, number, doomed, socketVars>>

Subscribed(c, m) == Filter[c] = Nothing \/ Filter[c] = m

\* The event is broadcast, unless the handler has died of its type.
StartBroadcast ==
  /\ handling # Nothing /\ handling.todo = {} /\ handling' = Nothing
  /\ sends' = IF handling.type = Untyped THEN sends
              ELSE LET here == lists[Len(lists)] IN
                   Append(sends, [number |-> handling.number, marina |-> handling.marina,
                                  list |-> Len(lists), at |-> 1, dead |-> {}, done |-> FALSE,
                                  present |-> {here[i] : i \in DOMAIN here}])
  /\ UNCHANGED <<clock, rowVars, number, doomed, lists, socket, heard>>

(***************************************************************************)
(* retention.py, pedestal_cache: select the ids, delete them               *)
(***************************************************************************)

RetentionSelects ==
  /\ doomed = {}
  /\ doomed' = {k \in MarinaIds \X PedestalIds :
                  /\ pedestals[k] # Nothing /\ pedestals[k].synced # Nothing
                  /\ clock - pedestals[k].synced > CacheWindow}
  /\ UNCHANGED <<clock, rowVars, handling, number, socketVars>>

RetentionDeletes ==
  /\ doomed # {} /\ doomed' = {}
  /\ pedestals' = [k \in MarinaIds \X PedestalIds |-> IF k \in doomed THEN Nothing ELSE pedestals[k]]
  /\ UNCHANGED <<clock, logged, newest, handling, number, socketVars>>

(***************************************************************************)
(* The browsers                                                            *)
(***************************************************************************)

\* The clients of a list with their places: only the order of the places tells.
Without(list, gone) == [i \in {j \in DOMAIN list : list[j] \notin gone} |-> list[i]]

\* Mutant: disconnect takes the client out of the list others are going through, and those
\* behind it move up.
Disconnected_InPlace(gone) ==
  LET list == Without(lists[Len(lists)], gone)
      Rank(i) == Cardinality({j \in DOMAIN list : j <= i})
      closed == [n \in {Rank(i) : i \in DOMAIN list} |->
                   list[CHOOSE i \in DOMAIN list : Rank(i) = n]]
  IN [lists EXCEPT ![Len(lists)] = closed]

\* disconnect binds a new list; a broadcast goes on with the one it began with.
Disconnected(gone) ==
  IF gone = {} THEN lists ELSE Append(lists, Without(lists[Len(lists)], gone))

\* append: a place behind all there have been.
Joined == {c \in Clients : socket[c] \notin {"new", "refused"}}

Appended(list, c) ==
  LET place == Cardinality(Joined) + 1
  IN [i \in DOMAIN list \union {place} |-> IF i = place THEN c ELSE list[i]]

Admitted(c) == c \in Admins \/ Filter[c] \in Assigned[c]

\* websocket_endpoint, connect: appended to the current list, in place.
Connect(c) ==
  /\ handling = Nothing /\ socket[c] = "new"
  /\ socket' = [socket EXCEPT ![c] = IF Admitted(c) THEN "open" ELSE "refused"]
  /\ lists' = IF Admitted(c) THEN [lists EXCEPT ![Len(lists)] = Appended(@, c)] ELSE lists
  /\ UNCHANGED <<clock, rowVars, handling, number, doomed, sends, heard>>

\* The browser goes; the loop learns of it later.
Goes(c) ==
  /\ socket[c] = "open" /\ socket' = [socket EXCEPT ![c] = "gone"]
  /\ UNCHANGED <<clock, rowVars, handling, number, doomed, lists, sends, heard>>

Leaves(c) ==
  /\ handling = Nothing /\ socket[c] = "gone" /\ socket' = [socket EXCEPT ![c] = "left"]
  /\ lists' = Disconnected({c})
  /\ UNCHANGED <<clock, rowVars, handling, number, doomed, sends, heard>>

\* Who is left in the list of broadcast b: places of clients of its marina.
Ahead(b) == {i \in DOMAIN lists[b.list] : i >= b.at /\ Subscribed(lists[b.list][i], b.marina)}

\* The next send succeeds, fails or times out.
Send(n) == \E i \in Ahead(sends[n]) :
  LET c == lists[sends[n].list][i]
  IN /\ handling = Nothing /\ ~sends[n].done /\ \A j \in Ahead(sends[n]) : i <= j
     /\ \/ /\ socket[c] = "open" /\ heard' = [heard EXCEPT ![c] = Append(@, sends[n].number)]
           /\ sends' = [sends EXCEPT ![n].at = i + 1]
        \/ /\ heard' = heard
           /\ sends' = [sends EXCEPT ![n].at = i + 1, ![n].dead = @ \union {c}]
     /\ UNCHANGED <<clock, rowVars, handling, number, doomed, lists, socket>>

\* Those whose send failed are taken off the list; their sockets stay open.
EndBroadcast(n) ==
  /\ handling = Nothing /\ ~sends[n].done /\ Ahead(sends[n]) = {}
  /\ sends' = [sends EXCEPT ![n].done = TRUE]
  /\ lists' = Disconnected(sends[n].dead)
  /\ UNCHANGED <<clock, rowVars, handling, number, doomed, socket, heard>>

ClockTicks ==
  /\ clock < MaxClock /\ clock' = clock + 1
  /\ UNCHANGED <<rowVars, handling, number, doomed, socketVars>>

EventsInit ==
  /\ clock = 0 /\ pedestals = [k \in MarinaIds \X PedestalIds |-> Nothing] /\ logged = {}
  /\ handling = Nothing /\ number = 0 /\ doomed = {}
  /\ newest = [k \in MarinaIds \X PedestalIds \X Fields |-> Nothing]
  /\ lists = <<<<>>>> /\ socket = [c \in Clients |-> "new"]
  /\ sends = <<>> /\ heard = [c \in Clients |-> <<>>]

EventsNext ==
  \/ \E m \in MarinaIds, p \in PedestalIds, type \in EventTypes : Receive(m, p, type)
  \/ \E part \in DOMAIN Turn, ok \in BOOLEAN : WritePart(part, ok)
  \/ StartBroadcast \/ RetentionSelects \/ RetentionDeletes \/ ClockTicks
  \/ \E c \in Clients : Connect(c) \/ Goes(c) \/ Leaves(c)
  \/ \E n \in DOMAIN sends : Send(n) \/ EndBroadcast(n)

EventsSpec == EventsInit /\ [][EventsNext]_eventVars

(***************************************************************************)
(* Properties                                                              *)
(***************************************************************************)

\* Types of the variables.
EventsTypeOK ==
  /\ clock \in 0 .. MaxClock /\ number \in 0 .. MaxNumber /\ Len(sends) <= number
  /\ doomed \subseteq MarinaIds \X PedestalIds
  /\ socket \in [Clients -> {"new", "open", "refused", "gone", "left"}]
  /\ \A k \in MarinaIds \X PedestalIds : pedestals[k] # Nothing =>
       pedestals[k].synced \in (0 .. clock) \union {Nothing}

\* get_dashboard: temperature_map, readings_map.
Shown(m, p, f) == IF pedestals[<<m, p>>] = Nothing THEN Nothing ELSE pedestals[<<m, p>>].shown[f]

\* A reading whose row has been given the event's time (_update_cache) and was not selected by
\* retention when it was stored (`safe`) stays on the dashboard until one of its kind replaces
\* it or it is older than the window: readings of other kinds and other events, their failures
\* and retention's time of the whole row do not take it away.  What retention had selected goes
\* with its row (retention.py:72-74), and so may a reading whose event's first part failed.
ReadingsKept ==
  \A m \in MarinaIds, p \in PedestalIds, f \in Fields :
    LET x == newest[<<m, p, f>>]
    IN x # Nothing /\ x.safe /\ clock - x.at <= CacheWindow => Shown(m, p, f) = x.number

\* A browser hears an event of its marina once: whoever was connected when its broadcast began
\* has heard it at its end, or could not be sent to, whoever came, went or was dropped meanwhile
\* (websocket_manager.py:25: disconnect binds a new list).
Heard ==
  /\ \A c \in Clients : \A i, j \in DOMAIN heard[c] : heard[c][i] = heard[c][j] => i = j
  /\ \A n \in DOMAIN sends : LET b == sends[n] IN
       /\ \A c \in Clients : (\E i \in DOMAIN heard[c] : heard[c][i] = b.number) =>
            Subscribed(c, b.marina) /\ (c \in Admins \/ b.marina \in Assigned[c])
       /\ b.done => \A c \in b.present : Subscribed(c, b.marina) =>
            c \in b.dead \/ \E i \in DOMAIN heard[c] : heard[c][i] = b.number
=============================================================================
