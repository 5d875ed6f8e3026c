------------------------- MODULE MeteringAttribution -------------------------
(***************************************************************************)
(* Metering, and what it cannot see: the Smart Mode the cabinet is really  *)
(* in, and whether the units of the current gap between two readings were  *)
(* delivered while the outlet belonged to a session.                       *)
(***************************************************************************)
EXTENDS Metering

VARIABLES
  mode,          \* the cabinet's Smart Mode
  outside        \* outside[o]: since the last reading, units were delivered while the
                 \* mode was off or no ERP session was active on the outlet

avars == <<vars, mode, outside>>

AInit ==
  /\ Init
  /\ mode = "on"
  /\ outside = [o \in Outlets |-> FALSE]

SwitchMode ==
  /\ mode' = IF mode = "on" THEN "off" ELSE "on"
  /\ UNCHANGED <<vars, outside>>

Observe ==
  outside' = [o \in Outlets |->
    IF state'[o] # state[o] THEN FALSE
    ELSE outside[o] \/ (used'[o] > used[o] /\ (mode = "off" \/ ActiveOn(o) = {}))]

\* The cabinet never lies about its mode; it may be asked late.
ANext ==
  \/ /\ Next
     /\ smart_mode' \in {smart_mode, mode, "unknown"}
     /\ Observe
     /\ UNCHANGED mode
  \/ SwitchMode

ASpec == AInit /\ [][ANext]_avars

\* collector.py:20 says a difference "is attributed to an ERP session only when the
\* cabinet was in Smart Mode ON and an ERP session was active on that outlet".
AttributedOnlyWhenActive ==
  [][\A o \in Outlets :
       AddInterval(o) /\ Delta(o) > 0 /\ SessionFor(o) # None => ~outside[o]]_avars
=============================================================================
