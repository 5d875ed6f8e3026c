------------------------------- MODULE BerthView -------------------------------
(***************************************************************************)
(* What the ERP shows of a berth (cabinet/berth_status.py, berth_view.py,  *)
(* marina_state.py): the berths of one cabinet server, from the answers    *)
(* the collector and the Berths page have stored in pedestal_cache.        *)
(*                                                                         *)
(* The server, external, has cabinets that beat, cameras that analyse,     *)
(* alarms, sessions and breakers.  A read is answered or not; an answer    *)
(* replaces the one stored under its key.                                  *)
(***************************************************************************)
EXTENDS Naturals, FiniteSets

CONSTANTS
  MapCabinets, MapBerths,
  ServedBy,          \* ServedBy[b]: the cabinet that serves b, or Absent
  Metered,            \* berths with an electricity outlet
  Absent,
  CACHE_FRESH_FOR, OFFLINE_AFTER, STALE_AFTER, VESSEL_FRESH_FOR,
  Unanswered,         \* bound: the sets of reads that fail together
  MaxViewTime, MaxEvents  \* bounds: time, and changes at the server

ASSUME ViewAssumption ==
  /\ ServedBy \in [MapBerths -> MapCabinets \union {Absent}] /\ Absent \notin MapCabinets
  /\ CACHE_FRESH_FOR \in Nat /\ OFFLINE_AFTER \in Nat /\ STALE_AFTER \in Nat
  /\ VESSEL_FRESH_FOR \in Nat /\ MaxViewTime \in Nat /\ MaxEvents \in Nat

Server(read) == <<read, Absent>>
Reads == ({"health", "berths", "alarms", "sessions"} \X {Absent})
         \union ({"status", "load", "breakers"} \X MapCabinets)

\* The collector's tasks; nobody polls the breakers.
Polled == Reads \ ({"breakers"} \X MapCabinets)

VARIABLES
  time,
  beat,      \* beat[c]: the cabinet's last heartbeat
  smart,     \* cabinets in Smart Mode
  camera,    \* camera[b]: state_code and when it was analysed
  wet,       \* cabinets with a moisture alarm
  tripped,   \* cabinets with a tripped breaker
  powered,   \* berths with an active electricity session
  reserved,  \* berths reserved now, the ERP's own
  cache,     \* cache[r]: the last answer and when it was stored, or Absent
  events     \* changes so far

viewVars == <<time, beat, smart, camera, wet, tripped, powered, reserved, cache, events>>

(***************************************************************************)
(* marina_state: the stored answers                                        *)
(***************************************************************************)

\* _stored: older than CACHE_FRESH_FOR counts as no answer.
Old(r) == time - cache[r].at > CACHE_FRESH_FOR

Has(r)  == cache[r] # Absent
Data(r) == cache[r].data

\* Reads the berths cannot be drawn without.
Required == {Server("health"), Server("berths")}

\* berth_view.build: one answer that is old makes the whole server's data stale.
DataIsStale ==
  \/ \E r \in Required : ~Has(r)
  \/ \E r \in Reads : Has(r) /\ Old(r)

(***************************************************************************)
(* berth_status: signals and the ranked table                              *)
(***************************************************************************)

Listed(b) == ServedBy[b] # Absent /\ Has(Server("berths"))

Connection(b) ==
  LET known == ServedBy[b] # Absent /\ Has(Server("health"))
      age == time - Data(Server("health"))[ServedBy[b]].beat
  IN IF ~known \/ age > OFFLINE_AFTER THEN "OFFLINE"
     ELSE IF age > STALE_AFTER THEN "STALE" ELSE "ONLINE"

\* Mutant: the analysis is as fresh as the answer it came with.
Analysed_WithAnswer(b) == cache[Server("berths")].at

Analysed(b) == Data(Server("berths"))[b].at

\* vessel_signal: of an analysis that is not too old.
Vessel(b) ==
  IF \/ ~Listed(b) \/ Data(Server("berths"))[b].code = Absent
     \/ time - Analysed(b) > VESSEL_FRESH_FOR
  THEN "UNKNOWN"
  ELSE CASE Data(Server("berths"))[b].code = 0 -> "NONE"
         [] Data(Server("berths"))[b].code = 1 -> "RIGHT"
         [] OTHER -> "WRONG"

\* Electricity only; sessions that were never read are none.
PowerOn(b) ==
  Listed(b) /\ b \in Metered /\ Has(Server("sessions")) /\ b \in Data(Server("sessions"))

Reserved(b) == Listed(b) /\ b \in reserved

\* Without a cabinet no mode is known.
Standalone(b) ==
  ServedBy[b] # Absent /\ Has(Server("health")) /\ ~Data(Server("health"))[ServedBy[b]].smart

\* _TABLE from the highest rank on; outlet_silent is never set.
Table == <<"no_cabinet", "no_contact", "standalone", "vessel_mismatch", "power_without_vessel",
           "reserved_empty", "vessel_present", "free">>

True(b, code) ==
  CASE code = "no_cabinet"           -> ServedBy[b] = Absent
    [] code = "no_contact"           -> Connection(b) = "OFFLINE" \/ DataIsStale
    [] code = "standalone"           -> Standalone(b)
    [] code = "vessel_mismatch"      -> Vessel(b) = "WRONG"
    [] code = "power_without_vessel" -> PowerOn(b) /\ Vessel(b) = "NONE"
    [] code = "reserved_empty"       -> Reserved(b) /\ Vessel(b) = "NONE"
    [] code = "vessel_present"       -> Vessel(b) = "RIGHT"
    [] code = "free"                 -> Vessel(b) = "NONE"

\* A state with no row in the table is not drawn as free.
StatusCode(b) ==
  IF \A i \in DOMAIN Table : ~True(b, Table[i]) THEN "unclassified"
  ELSE Table[CHOOSE i \in DOMAIN Table :
               True(b, Table[i]) /\ \A j \in 1 .. i - 1 : ~True(b, Table[j])]

Grey == {"no_cabinet", "no_contact", "standalone", "unclassified"}

AlarmsKnown(b) == StatusCode(b) \notin {"no_cabinet", "no_contact"}

\* _ALARMS: of the cabinet (moisture) and of the berth's own outlets (a tripped breaker).
AlarmList(b) ==
  LET c == ServedBy[b] IN
  IF ~AlarmsKnown(b) THEN {}
  ELSE {a \in {"water_leak", "breaker_tripped"} :
          \/ /\ a = "water_leak"
             /\ \/ Has(Server("alarms")) /\ c \in Data(Server("alarms"))
                \/ Has(<<"status", c>>) /\ Data(<<"status", c>>)
          \/ /\ a = "breaker_tripped" /\ b \in Metered
             /\ Has(<<"breakers", c>>) /\ Data(<<"breakers", c>>)}

\* marina_state.build, the rows of the map.
Dashboard == [b \in MapBerths |-> [code |-> StatusCode(b), alarms |-> AlarmList(b)]]

\* overview.occupancy_card: counts the berths whose state is known.
OccupancyCard ==
  LET code == [b \in MapBerths |-> StatusCode(b)]
      Coded(codes) == {b \in MapBerths : code[b] \in codes}
      known == MapBerths \ Coded(Grey)
  IN [known |-> known, occupied |-> Coded({"vessel_present", "vessel_mismatch"}),
      state |-> CASE known = {} -> "stale"
                  [] known # {} /\ Coded({"no_contact"}) # {} -> "partial"
                  [] OTHER -> "fresh"]

(***************************************************************************)
(* Answers                                                                 *)
(***************************************************************************)

Answer(r) ==
  CASE r[1] = "health"   -> [c \in MapCabinets |-> [beat |-> beat[c], smart |-> c \in smart]]
    [] r[1] = "berths"   -> camera
    [] r[1] = "alarms"   -> wet
    [] r[1] = "sessions" -> powered
    [] r[1] = "status"   -> r[2] \in wet
    [] r[1] = "load"     -> TRUE          \* the meter's figures: module Metering
    [] r[1] = "breakers" -> r[2] \in tripped

\* The reads of one tick or of one page: some are not answered and keep what was stored.
ReadAll(reads) == \E failed \in Unanswered :
  /\ cache' = [r \in Reads |-> IF r \in reads \ failed THEN [at |-> time, data |-> Answer(r)]
                               ELSE cache[r]]
  /\ UNCHANGED <<time, beat, smart, camera, wet, tripped, powered, reserved, events>>

\* A tick of the collector in which every read is due.
CollectorPolls == ReadAll(Polled)

\* GET /berths: the same reads and the breakers.
BerthsPage == ReadAll(Reads)

(***************************************************************************)
(* The server and time                                                     *)
(***************************************************************************)

Event == events < MaxEvents /\ events' = events + 1

Toggle(set, x) == IF x \in set THEN set \ {x} ELSE set \union {x}

Heartbeat(c) ==
  /\ beat[c] # time /\ beat' = [beat EXCEPT ![c] = time]
  /\ UNCHANGED <<time, smart, camera, wet, tripped, powered, reserved, cache, events>>

Analyses(b) == \E code \in 0 .. 2 :
  /\ Event /\ camera' = [camera EXCEPT ![b] = [code |-> code, at |-> time]]
  /\ UNCHANGED <<time, beat, smart, wet, tripped, powered, reserved, cache>>

Happens == \E c \in MapCabinets, b \in MapBerths :
  /\ Event
  /\ \/ smart' = Toggle(smart, c) /\ UNCHANGED <<wet, tripped, powered, reserved>>
     \/ wet' = Toggle(wet, c) /\ UNCHANGED <<smart, tripped, powered, reserved>>
     \/ tripped' = Toggle(tripped, c) /\ UNCHANGED <<smart, wet, powered, reserved>>
     \/ powered' = Toggle(powered, b) /\ UNCHANGED <<smart, wet, tripped, reserved>>
     \/ reserved' = Toggle(reserved, b) /\ UNCHANGED <<smart, wet, tripped, powered>>
  /\ UNCHANGED <<time, beat, camera, cache>>

TimeGoesOn ==
  /\ time < MaxViewTime /\ time' = time + 1
  /\ UNCHANGED <<beat, smart, camera, wet, tripped, powered, reserved, cache, events>>

ViewInit ==
  /\ time = 0 /\ beat = [c \in MapCabinets |-> 0] /\ smart = MapCabinets
  /\ camera = [b \in MapBerths |-> [code |-> Absent, at |-> 0]]
  /\ wet = {} /\ tripped = {} /\ powered = {} /\ reserved = {}
  /\ cache = [r \in Reads |-> Absent] /\ events = 0

ViewNext ==
  \/ CollectorPolls \/ BerthsPage \/ Happens \/ TimeGoesOn
  \/ (\E c \in MapCabinets : Heartbeat(c)) \/ (\E b \in MapBerths : Analyses(b))

ViewSpec == ViewInit /\ [][ViewNext]_viewVars

(***************************************************************************)
(* Properties                                                              *)
(***************************************************************************)

\* Types of the variables.
ViewTypeOK ==
  /\ time \in 0 .. MaxViewTime /\ beat \in [MapCabinets -> 0 .. MaxViewTime]
  /\ camera \in [MapBerths -> [code : {Absent, 0, 1, 2}, at : 0 .. MaxViewTime]]
  /\ smart \subseteq MapCabinets /\ wet \subseteq MapCabinets /\ tripped \subseteq MapCabinets
  /\ powered \subseteq MapBerths /\ reserved \subseteq MapBerths /\ events \in 0 .. MaxEvents
  /\ DOMAIN cache = Reads /\ \A r \in Reads : Has(r) => cache[r].at \in 0 .. time

\* A berth has a colour only while what it says is known (D2): its camera analysed it lately, not
\* only answered lately, its cabinet beat lately, and no answer it is made of is old; so for the
\* alarms listed on it.  The occupancy card counts vessels seen lately, and is fresh only while no
\* berth's cabinet is silent.
FreshOrGrey ==
  /\ LET shown == Dashboard
     IN \A b \in MapBerths : shown[b].code \notin Grey \/ shown[b].alarms # {} =>
          /\ ServedBy[b] # Absent /\ time - beat[ServedBy[b]] <= OFFLINE_AFTER
          /\ \A r \in Required : Has(r)
          /\ \A r \in Reads : Has(r) => time - cache[r].at <= CACHE_FRESH_FOR
          /\ shown[b].code \notin Grey => time - Data(Server("berths"))[b].at <= VESSEL_FRESH_FOR
  /\ LET card == OccupancyCard
     IN /\ \A b \in card.occupied :
             LET seen == Data(Server("berths"))[b]
             IN seen.code \in {1, 2} /\ time - seen.at <= VESSEL_FRESH_FOR
        /\ card.state = "fresh" =>
             \A b \in MapBerths : ServedBy[b] # Absent => time - beat[ServedBy[b]] <= OFFLINE_AFTER

\* marina_state.py:35: the reads that are not required "only add to" the berths: while the
\* cabinet beats and every answer the collector polls is fresh, a berth is not without contact.
\* It is: the breakers that the Berths page stored are polled by nobody and get old.
OptionalOnlyAdds ==
  \A b \in MapBerths :
    /\ ServedBy[b] # Absent /\ Connection(b) # "OFFLINE" /\ \A r \in Polled : Has(r) /\ ~Old(r)
    => StatusCode(b) # "no_contact"
=============================================================================
