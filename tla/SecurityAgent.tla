----------------------------- MODULE SecurityAgent -----------------------------
(***************************************************************************)
(* The security agent (app/agent): every pass reads the logs of Alarms.tla *)
(* over a sliding window and opens alarms; the Admins' decisions, rule     *)
(* modes and service windows (routers/security.py).  The agent keeps no    *)
(* state: a pass is one transaction of a process of its own, and one that  *)
(* dies leaves nothing.                                                    *)
(***************************************************************************)
EXTENDS Alarms

CONSTANTS
  WINDOW,           \* DEFAULT_WINDOW
  BUCKET,           \* SPRAY_BUCKET
  DAY, HOUR,        \* lengths of the buckets in the other keys
  BASELINE,
  SPRAY_ACCOUNTS,
  AGENT_FRESH_FOR,
  OddHours,         \* times outside the marina's working hours
  OutletCommands,   \* OUTLET_CMDS
  GAP,              \* assumption: passes are at most this far apart, unless the agent is down
  Periods,          \* bounds: the windows announced, <<from, to>>,
  Switched,         \* the rules switched,
  Watched           \* and the cabinets whose status is polled

RuleIds == {"decoy_touch", "login_spray", "socket_cmd_odd_hour", "socket_cmd_new_ip",
            "account_new_endpoint", "door_no_window"}

ASSUME AgentAssumption ==
  /\ WINDOW \in Nat /\ BUCKET \in Nat \ {0} /\ DAY \in Nat \ {0} /\ HOUR \in Nat \ {0}
  /\ BASELINE \in Nat /\ SPRAY_ACCOUNTS \in Nat /\ OddHours \subseteq 0 .. MaxTime
  /\ OutletCommands \subseteq Endpoints /\ GAP \in Nat /\ AGENT_FRESH_FOR \in Nat
  /\ Switched \subseteq RuleIds /\ Watched \subseteq Pedestals
  /\ \A p \in Periods : p[1] \in Nat /\ p[2] \in Nat /\ p[1] < p[2]
  /\ BUCKET + LATE + GAP <= WINDOW     \* 15 minutes, and a timer's period, against a day

VARIABLES
  snapshot,    \* snapshot[c]: the door in the last status_ext, and when
  windows,     \* service windows
  modes,       \* rules an Admin switched to active, and since when; the others are in shadow
  alarms,      \* security_alarms
  deciding,    \* decisions that have read the alarm and not committed
  cancelling,  \* cancellations that have read their window, and when
  cancelled,   \* windows deleted
  reopened,    \* an alarm that was closed is acknowledged
  lastPass,
  outage       \* passes were once further apart than GAP

agentVars == <<snapshot, windows, modes, alarms, deciding, cancelling, cancelled, reopened,
               lastPass, outage>>
securityVars == <<alarmVars, agentVars>>

Window == [cabinet : Pedestals, from : Nat, to : Nat, announced : 0 .. MaxTime]

(***************************************************************************)
(* The rules: what a pass at time t finds in the committed rows            *)
(***************************************************************************)

\* A finding: its rule, its case key, the rows in evidence.
Finding(rule, key, evidence, sim) ==
  [rule |-> rule, key |-> key, evidence |-> evidence, simulated |-> sim]

In(source, since, t) ==
  {i \in Committed : rows[i].source = source /\ since <= rows[i].at /\ rows[i].at <= t}

IsSimulated(i) == rows[i].cabinet \in Simulated

\* Groups of rows that agree on key: one finding each.
Grouped(rule, ids, Key(_)) ==
  {Finding(rule, k, {i \in ids : Key(i) = k}, FALSE) : k \in {Key(i) : i \in ids}}

DecoyTouch(since, t) ==
  Grouped("decoy_touch", In("decoy_hits", since, t),
          LAMBDA i : <<rows[i].who, rows[i].ip, rows[i].at \div DAY>>)

\* Mutant: buckets counted from the start of the window.
BucketOf_FromSince(at, since) == since + ((at - since) \div BUCKET) * BUCKET

\* Buckets are absolute: the same rows give the same key in every window.
BucketOf(at, since) == (at \div BUCKET) * BUCKET

LoginSpray(since, t) ==
  {f \in Grouped("login_spray", In("auth_audit", since, t),
                 LAMBDA i : <<rows[i].ip, BucketOf(rows[i].at, since)>>) :
     Cardinality({rows[i].who : i \in f.evidence}) >= SPRAY_ACCOUNTS}

OutletCommandsIn(since, t) == {i \in In("command_audit", since, t) : rows[i].what \in OutletCommands}

OddHour(since, t) ==
  {Finding("socket_cmd_odd_hour", <<i>>, {i}, IsSimulated(i)) :
     i \in {j \in OutletCommandsIn(since, t) : rows[j].at \in OddHours}}

\* Earlier commands of the same account, to real cabinets or to simulated ones.
History(i) ==
  {j \in Committed : /\ rows[j].source = "command_audit" /\ rows[j].who = rows[i].who
                     /\ rows[j].at < rows[i].at /\ rows[j].at + BASELINE >= rows[i].at
                     /\ IsSimulated(j) = IsSimulated(i)}

NewIp(since, t) ==
  {Finding("socket_cmd_new_ip", <<i>>, {i}, IsSimulated(i)) :
     i \in {j \in OutletCommandsIn(since, t) :
              History(j) # {} /\ \A h \in History(j) : rows[h].ip # rows[j].ip}}

\* The first row of its account, endpoint and day; later ones of the day are the same case.
NewEndpoint(since, t) ==
  LET new == {i \in In("command_audit", since, t) :
                History(i) # {} /\ \A h \in History(i) : rows[h].what # rows[i].what}
      key(i) == <<rows[i].who, rows[i].what, rows[i].at \div DAY, IsSimulated(i)>>
  IN {Finding("account_new_endpoint", key(i), {i}, IsSimulated(i)) :
        i \in {j \in new : \A k \in new : key(k) = key(j) => j <= k}}

Covered(c, at) == \E w \in windows : w.cabinet = c /\ w.from <= at /\ at <= w.to

\* Rows of marina_door webhooks: a row of the poll has no "event" and is not looked at.
DoorRows(since, t) ==
  {i \in In("alarm_log", since, t) : /\ rows[i].what = "webhook"
                                     /\ EventOf[rows[i].alarm] = "marina_door"
                                     /\ ~Covered(rows[i].cabinet, rows[i].at)}

OpenDoors(since, t) ==
  {c \in Pedestals : /\ snapshot[c].open /\ since <= snapshot[c].at /\ snapshot[c].at <= t
                    /\ ~Covered(c, snapshot[c].at)}

DoorNoWindow(since, t) ==
  {Finding("door_no_window", <<i>>, {i}, IsSimulated(i)) : i \in DoorRows(since, t)}
  \union {Finding("door_no_window", <<c, snapshot[c].at \div HOUR>>, {}, c \in Simulated) :
            c \in OpenDoors(since, t)}

\* What one rule finds.
FindingsOf(rule, since, t) ==
  CASE rule = "decoy_touch"          -> DecoyTouch(since, t)
    [] rule = "login_spray"          -> LoginSpray(since, t)
    [] rule = "socket_cmd_odd_hour"  -> OddHour(since, t)
    [] rule = "socket_cmd_new_ip"    -> NewIp(since, t)
    [] rule = "account_new_endpoint" -> NewEndpoint(since, t)
    [] rule = "door_no_window"       -> DoorNoWindow(since, t)

\* What the active rules find; the others are in shadow and only log.
Findings(since, t) == UNION {FindingsOf(m.rule, since, t) : m \in modes}

(***************************************************************************)
(* The agent                                                               *)
(***************************************************************************)

IsActive(rule)    == \E m \in modes : m.rule = rule
ActiveAt(rule, t) == \E m \in modes : m.rule = rule /\ m.since <= t
AlarmFor(f)       == {a \in alarms : a.rule = f.rule /\ a.key = f.key}

\* Mutant: a cursor instead of the window: only what is newer than the last pass.
Since_Cursor(t) == IF lastPass = 0 THEN 0 ELSE lastPass + 1

\* run_once: the window always has the same length; there is no "last seen".
Since(t) == IF t < WINDOW THEN 0 ELSE t - WINDOW

\* ON CONFLICT (fingerprint) DO NOTHING.
Pass ==
  LET new == {f \in Findings(Since(now), now) : AlarmFor(f) = {}}
  IN /\ lastPass' = now
     /\ alarms' = alarms \union
          {[rule |-> f.rule, key |-> f.key, evidence |-> f.evidence, simulated |-> f.simulated,
            at |-> now, state |-> "open"] : f \in new}
     /\ UNCHANGED <<alarmVars, snapshot, windows, modes, deciding, cancelling, cancelled,
                    reopened, outage>>

(***************************************************************************)
(* The Admins and the collector's cache                                    *)
(***************************************************************************)

\* set_rule_mode.
SetRuleMode == \E rule \in Switched :
  /\ Takes("mode")
  /\ modes' = IF IsActive(rule) THEN {m \in modes : m.rule # rule}
              ELSE modes \union {[rule |-> rule, since |-> now]}
  /\ UNCHANGED <<now, rows, active, hooks, acks, snapshot, windows, alarms, deciding,
                 cancelling, cancelled, reopened, lastPass, outage>>

\* decide_alarm reads: not a closed alarm, and not to the state it has.
Decides == \E a \in alarms, to \in {"acknowledged", "closed"} :
  /\ Takes("decide") /\ a.state \notin {"closed", to} /\ Cardinality(deciding) < 2
  /\ deciding' = deciding \union {[rule |-> a.rule, key |-> a.key, to |-> to, alone |-> deciding = {}]}
  /\ UNCHANGED <<now, rows, active, hooks, acks, snapshot, windows, modes, alarms, cancelling,
                 cancelled, reopened, lastPass, outage>>

\* ... and commits, whatever the state is by now.
Decided == \E d \in deciding :
  LET a == CHOOSE x \in alarms : x.rule = d.rule /\ x.key = d.key
  IN /\ alarms' = (alarms \ {a}) \union {[a EXCEPT !.state = d.to]}
     /\ deciding' = {[e EXCEPT !.alone = FALSE] : e \in deciding \ {d}}
     /\ reopened' = (reopened \/ (a.state = "closed" /\ d.to # "closed" /\ d.alone))
     /\ UNCHANGED <<alarmVars, snapshot, windows, modes, cancelling, cancelled, lastPass, outage>>

\* announce_window: also for a time that has begun.
Announce == \E c \in Pedestals, p \in Periods :
  /\ Takes("window") /\ windows = {} /\ cancelled = {}
  /\ windows' = {[cabinet |-> c, from |-> p[1], to |-> p[2], announced |-> now]}
  /\ UNCHANGED <<now, rows, active, hooks, acks, snapshot, modes, alarms, deciding, cancelling,
                 cancelled, reopened, lastPass, outage>>

\* Mutant: a window that has started can be cancelled.
MayCancel_Any(w) == TRUE

\* A window that has started is the alibi of the door signals in it.
MayCancel(w) == w.from > now

CancelReads == \E w \in windows :
  /\ cancelling = {} /\ MayCancel(w) /\ cancelling' = cancelling \union {[window |-> w, at |-> now]}
  /\ UNCHANGED <<alarmVars, snapshot, windows, modes, alarms, deciding, cancelled, reopened,
                 lastPass, outage>>

CancelCommits == \E c \in cancelling :
  /\ c.window \in windows /\ windows' = windows \ {c.window}
  /\ cancelled' = cancelled \union {[window |-> c.window, at |-> now]}
  /\ UNCHANGED <<alarmVars, snapshot, modes, alarms, deciding, cancelling, reopened, lastPass,
                 outage>>

\* The collector caches status_ext under its cabinet: the last answer only.
StatusPolled == \E c \in Watched, open \in BOOLEAN :
  /\ Takes("status") /\ snapshot' = [snapshot EXCEPT ![c] = [open |-> open, at |-> now]]
  /\ UNCHANGED <<now, rows, active, hooks, acks, windows, modes, alarms, deciding, cancelling,
                 cancelled, reopened, lastPass, outage>>

TimePasses ==
  /\ Advance
  /\ outage' = (outage \/ now + 1 - lastPass > GAP)
  /\ UNCHANGED <<snapshot, windows, modes, alarms, deciding, cancelling, cancelled, reopened,
                 lastPass>>

AgentInit ==
  /\ AlarmsInit
  /\ snapshot = [c \in Pedestals |-> [open |-> FALSE, at |-> 0]]
  /\ windows = {} /\ alarms = {} /\ deciding = {} /\ cancelling = {} /\ cancelled = {}
  /\ modes \in {{}, {[rule |-> r, since |-> 0] : r \in RuleIds}}
  /\ reopened = FALSE /\ lastPass = 0 /\ outage = FALSE

AgentNext ==
  \/ AlarmsStep /\ UNCHANGED agentVars
  \/ Pass \/ SetRuleMode \/ Decides \/ Decided \/ Announce \/ CancelReads \/ CancelCommits
  \/ StatusPolled \/ TimePasses

AgentSpec == AgentInit /\ [][AgentNext]_securityVars

(***************************************************************************)
(* Properties                                                              *)
(***************************************************************************)

\* Types of the variables; an alarm has findings of one kind of cabinet only.
AgentTypeOK ==
  /\ AlarmsTypeOK
  /\ snapshot \in [Pedestals -> [open : BOOLEAN, at : 0 .. MaxTime]]
  /\ windows \subseteq Window /\ modes \subseteq [rule : RuleIds, since : 0 .. MaxTime]
  /\ \A a \in alarms : /\ a.rule \in RuleIds /\ a.state \in {"open", "acknowledged", "closed"}
                       /\ a.evidence \subseteq Committed

\* overview.security_card, without the cabinets' own alarms (BerthView) that it adds.
SecurityCard ==
  LET counted == {a \in alarms : a.state # "closed"}
  IN [open |-> {a \in counted : ~a.simulated}, simulated |-> {a \in counted : a.simulated},
      fresh |-> now - lastPass <= AGENT_FRESH_FOR]

\* Findings whose rule was active throughout and that no cancelled window excused for a while.
Due(since, t) ==
  {f \in Findings(since, t) :
     /\ f.evidence # {} /\ \A i \in f.evidence : ActiveAt(f.rule, rows[i].at)
     /\ \A x \in cancelled : \A i \in f.evidence : x.window.cabinet # rows[i].cabinet}

\* Unless the agent was down, what its rules find in the rows is an alarm once a pass had to
\* happen after their commit, late commits and overlapping windows notwithstanding (run.py:3);
\* and after an outage the security card is not fresh before a pass has found what its window
\* still holds.  The snapshot of a door is not among them: the next answer overwrites it.
AlarmOrOutage ==
  LET old == LATE + GAP + 1  missed == LATE + AGENT_FRESH_FOR + 1
  IN /\ ~outage /\ now >= old => \A f \in Due(0, now - old) : AlarmFor(f) # {}
     /\ SecurityCard.fresh /\ now >= missed =>
          \A f \in Due(Since(lastPass), now - missed) : AlarmFor(f) # {}

\* One case is put to the Admins once: no row, and no alarm of a cabinet, is the evidence of two
\* alarms of a rule, whichever windows saw it; a closed alarm is acknowledged again only by a
\* decision that overlapped the closing one.
CasePutOnce ==
  /\ \A a, b \in alarms : a # b /\ a.rule = b.rule =>
       \A i \in a.evidence, j \in b.evidence :
         i # j /\ (rows[i].alarm = Nil \/ rows[i].alarm # rows[j].alarm)
  /\ ~reopened

\* A door that was opened in a window announced before gives no alarm, nor does one that was seen
\* open in an hour the window covers (D16), unless its cancellation was in progress when the
\* window began.
Alibi ==
  \A a \in alarms, w \in windows \union {x.window : x \in {y \in cancelled : y.at >= y.window.from}} :
    /\ a.rule = "door_no_window"
    /\ \/ \E i \in a.evidence : /\ w.cabinet = rows[i].cabinet /\ w.announced < rows[i].at
                                /\ w.from <= rows[i].at /\ rows[i].at <= w.to
       \/ /\ a.evidence = {} /\ w.cabinet = a.key[1] /\ w.announced < a.key[2] * HOUR
          /\ w.from <= a.key[2] * HOUR /\ a.key[2] * HOUR + HOUR - 1 <= w.to
    => \E c \in cancelling : c.window = w /\ c.at < w.from
=============================================================================
