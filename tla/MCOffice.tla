------------------------------- MODULE MCOffice -------------------------------
(***************************************************************************)
(* Components of the ERP that share no state, checked together: a          *)
(* behaviour is one of Accounts, SecurityAgent (with Alarms), BerthView,   *)
(* Registry, Ledger or MarinaEvents (twice: its rows, its browsers); the   *)
(* others stay as they began.  A run chooses among them (Chosen).          *)
(*                                                                         *)
(* Accounts: two admins and a newcomer, one marina.  SecurityAgent: two    *)
(* cabinets, the second simulated with a door alarm.  BerthView: a cabinet *)
(* with a berth, and a berth no cabinet serves yet.  Registry: a cabinet   *)
(* with two sockets and two valves, two berths, one tag.  Ledger: three    *)
(* posts for two guests and a demo customer.  MarinaEvents: two events for *)
(* the rows of a pedestal and of the marina, and two for three browsers,   *)
(* one of them refused.                                                    *)
(***************************************************************************)
EXTENDS Accounts, Ledger, Registry, SecurityAgent, BerthView, MarinaEvents, TLC

CONSTANTS ana, ivo, eva, acy                                        \* Accounts
CONSTANTS real, sim, door, decoy, op, start, look, ip1, ip2   \* SecurityAgent
CONSTANTS c1, b1, b2                                                \* BerthView, Registry
CONSTANTS q1, q2, v1, v2, u1                                        \* Registry
CONSTANTS guest1, guest2, demo                                      \* Ledger
CONSTANTS far, unsigned, hq, desk, out                           \* MarinaEvents

CONSTANT Chosen \* bound: the parts of this run

VARIABLE part

(***************************************************************************)
(* Accounts                                                                *)
(***************************************************************************)

Change(role, on, given) == [role |-> role, active |-> on, marinas |-> given]

MCChanges == {Change("admin", None, None), Change("admin", None, {acy}),
              Change("marina_manager", None, None),
              Change(None, FALSE, None), Change(None, TRUE, {acy})}

\* The kinds of request that touch the same things together, and how many users they are about:
\* two Admins remove each other, the access rows are one user's.
MCTogether ==
  {<<{"update"}, 2>>, <<{"update", "grant", "revoke"}, 1>>, <<{"login", "verify", "unlock"}, 1>>,
   <<{"verify", "regenerate", "reset"}, 1>>, <<{"reset", "start", "confirm"}, 1>>,
   <<{"setup", "newlink", "cli"}, 1>>, <<{"create", "cli"}, 1>>, <<{"create", "setup"}, 1>>}

(***************************************************************************)
(* SecurityAgent                                                           *)
(***************************************************************************)

MCCabinetOf == [a \in {door} |-> sim]
MCIdOf      == [a \in {door} |-> 1]
MCEventOf   == [a \in {door} |-> "marina_door"]
MCPeriods   == {<<2, 3>>}

\* Each log with the passes alone, and the Admins' actions with a log.
MCSteps ==
  {{"decoy_hits", "mode"}, {"auth_audit"}, {"command_audit"},
   {"alarm_log", "webhook", "window"}, {"auth_audit", "decide"},
   {"status", "window"}, {"alarm_log", "poll", "webhook", "acknowledge"}}

(***************************************************************************)
(* BerthView and Registry                                                  *)
(***************************************************************************)

MCServedBy == (b1 :> c1 @@ b2 :> Absent)
MCUnanswered ==
  {{}, {Server("berths")}, {"health", "berths", "alarms", "sessions"} \X {Absent}
                             \union {"status", "load", "breakers"} \X {c1}}

Line(u, order, o) == [uid |-> u, order |-> order, outlet |-> o]

MCOn == [o \in {q1, q2, v1, v2} |-> c1]
MCAsked == {{q1}, {q1, v1}, {q2, v2}, {v1}, {v2}}
MCFiles == {{Line(u1, "given", q1)}, {Line(u1, "reversed", q2)},
            {Line(u1, "reversed", q1), Line(u1, "given", q1)}}
MCMixes == {{"outlets"}, {"import"}, {"set_vessel", "clear_vessel"}}

(***************************************************************************)
(* Ledger and MarinaEvents                                                 *)
(***************************************************************************)

MCDeltas == {-1, 2}

\* Three browsers: an admin, a manager, and one who is refused.
MCFilter   == (hq :> Nothing @@ desk :> acy @@ out :> far)
MCAssigned == (hq :> {} @@ desk :> {acy} @@ out :> {})

\* The rows of pedestal_cache for one marina's events, time passing and no browser connected.
RowsNext == EventsNext /\ socket' = socket /\ (handling' # Nothing => handling'.marina = acy)

\* The browsers, for events of the two that write nothing, at one time.
BrowsersNext ==
  /\ EventsNext /\ clock' = clock /\ rowVars' = rowVars
  /\ handling' # Nothing => handling'.type = "sensor_update" /\ handling'.pedestal = 0

(***************************************************************************)
(* One of them                                                             *)
(***************************************************************************)

officeVars == <<part, vars, securityVars, viewVars, registryVars, ledgerVars, eventVars>>

\* The parts that do not run begin in one state only.
OfficeInit ==
  /\ part \in Chosen
  /\ Init /\ AgentInit /\ ViewInit /\ RegistryInit /\ LedgerInit /\ EventsInit
  /\ part # "accounts" => row[Newcomer].role = None
  /\ part # "agent" => modes = {}

OfficeNext ==
  /\ UNCHANGED part
  /\ \/ /\ part = "accounts" /\ Next
        /\ UNCHANGED <<securityVars, viewVars, registryVars, ledgerVars, eventVars>>
     \/ /\ part = "agent" /\ AgentNext
        /\ UNCHANGED <<vars, viewVars, registryVars, ledgerVars, eventVars>>
     \/ /\ part = "view" /\ ViewNext
        /\ UNCHANGED <<vars, securityVars, registryVars, ledgerVars, eventVars>>
     \/ /\ part = "registry" /\ RegistryNext
        /\ UNCHANGED <<vars, securityVars, viewVars, ledgerVars, eventVars>>
     \/ /\ part = "ledger" /\ LedgerNext
        /\ UNCHANGED <<vars, securityVars, viewVars, registryVars, eventVars>>
     \/ /\ part = "events" /\ RowsNext
        /\ UNCHANGED <<vars, securityVars, viewVars, registryVars, ledgerVars>>
     \/ /\ part = "browsers" /\ BrowsersNext
        /\ UNCHANGED <<vars, securityVars, viewVars, registryVars, ledgerVars>>

OfficeSpec == OfficeInit /\ [][OfficeNext]_officeVars

(***************************************************************************)
(* Properties: those of the modules extended, and their types              *)
(***************************************************************************)

\* The type invariants of all.
OfficeTypeOK ==
  CASE part = "accounts" -> TypeOK
    [] part = "agent"    -> AgentTypeOK
    [] part = "view"     -> ViewTypeOK
    [] part = "registry" -> RegistryTypeOK
    [] part = "ledger"   -> LedgerTypeOK
    [] OTHER             -> EventsTypeOK

Interchangeable == Permutations({ana, ivo})
=============================================================================
