-------------------------------- MODULE Alarms --------------------------------
(***************************************************************************)
(* The logs the ERP keeps of what happens, and the alarms of the cabinets: *)
(* the collector's poll (collector.py, _store_alarms), the cabinet's       *)
(* webhook (webhooks.py) and the acknowledgement (routers/alarms.py) of an *)
(* alarm_log row; decoy_hits, auth_audit and command_audit as far as the   *)
(* security agent reads them.                                              *)
(*                                                                         *)
(* A row gets its time when its request or tick begins and is committed    *)
(* later, in another order perhaps.                                        *)
(***************************************************************************)
EXTENDS Naturals, Sequences, FiniteSets

CONSTANTS
  Pedestals,    \* the cabinets of one marina, each on a server of its own
  First,        \* the one cabinet_of takes when none is named
  Simulated,
  Alarm,        \* alarms a cabinet can raise
  CabinetOf, IdOf, EventOf,   \* of an alarm; its id is unique on its server
  HasId,        \* alarms whose webhook carries data.id
  Decoys, Emails, Actors, Endpoints, Ips,
  Nil,
  LATE,         \* assumption: a row is committed at most this long after its time
  MaxTime, MaxRows, StepMixes   \* bounds: time, rows and the kinds of step of one behaviour

Sources == {"decoy_hits", "auth_audit", "command_audit", "alarm_log"}
Steps == Sources \union {"poll", "webhook", "acknowledge", "status", "window", "mode", "decide"}

ASSUME AlarmsAssumption ==
  /\ First \in Pedestals /\ Simulated \subseteq Pedestals
  /\ CabinetOf \in [Alarm -> Pedestals] /\ IdOf \in [Alarm -> Nat] /\ HasId \subseteq Alarm
  /\ EventOf \in [Alarm -> {"marina_door", "hardware_alarm"}]
  /\ LATE \in Nat /\ MaxTime \in Nat /\ MaxRows \in Nat /\ StepMixes \subseteq SUBSET Steps

VARIABLES
  now,       \* hours, say
  rows,      \* rows of the logs, in the order their writers began
  active,    \* alarms active at the cabinets
  hooks,     \* webhooks on their way
  acks,      \* acks[a]: how far an acknowledgement of a is
  kinds      \* kinds of step taken

alarmVars == <<now, rows, active, hooks, acks, kinds>>

\* source, who (decoy, e-mail, account, cabinet), what (endpoint, shape) and alarm say all the
\* readers look at; id: cabinet_alarm_id.
LogEntry ==
  [source : Sources, at : 0 .. MaxTime, state : {"open", "in", "refused"},
   who : Decoys \union Emails \union Actors \union Pedestals, ip : Ips \union {Nil},
   what : Endpoints \union {"poll", "webhook", Nil}, cabinet : Pedestals \union {Nil},
   alarm : Alarm \union {Nil}, id : Nat \union {Nil}, ack : BOOLEAN]

NewEntry(source, who) ==
  [source |-> source, at |-> now, state |-> "open", who |-> who, ip |-> Nil, what |-> Nil,
   cabinet |-> Nil, alarm |-> Nil, id |-> Nil, ack |-> FALSE]

MayStep(kind) == \E mix \in StepMixes : kinds \union {kind} \subseteq mix
Takes(kind)   == MayStep(kind) /\ kinds' = kinds \union {kind}
OpenRows      == {i \in DOMAIN rows : rows[i].state = "open"}
Committed     == {i \in DOMAIN rows : rows[i].state = "in"}

Adds(row) ==
  /\ Len(rows) < MaxRows
  /\ rows' = Append(rows, row)

(***************************************************************************)
(* Rows of the other logs                                                  *)
(***************************************************************************)

\* decoys.record: a decoy is touched.
RecordDecoy == \E d \in Decoys, ip \in Ips :
  /\ Takes("decoy_hits") /\ Adds([NewEntry("decoy_hits", d) EXCEPT !.ip = ip])
  /\ UNCHANGED <<now, active, hooks, acks>>

\* login: an auth_audit row login_failed.
FailedLogin == \E e \in Emails, ip \in Ips :
  /\ Takes("auth_audit") /\ Adds([NewEntry("auth_audit", e) EXCEPT !.ip = ip])
  /\ UNCHANGED <<now, active, hooks, acks>>

\* An operator's command leaves its command_audit row.
Command == \E a \in Actors, e \in Endpoints, ip \in Ips, c \in Pedestals :
  /\ Takes("command_audit")
  /\ Adds([NewEntry("command_audit", a) EXCEPT !.ip = ip, !.what = e, !.cabinet = c])
  /\ UNCHANGED <<now, active, hooks, acks>>

(***************************************************************************)
(* alarm_log                                                               *)
(***************************************************************************)

\* A cabinet raises an alarm and tells the ERP, if the webhook arrives at all.
Raise == \E a \in Alarm, sent \in BOOLEAN :
  /\ Takes("alarm_log") /\ a \notin active
  /\ ~ \E i \in DOMAIN rows : rows[i].alarm = a
  /\ active' = active \union {a}
  /\ hooks' = IF sent THEN hooks \union {a} ELSE hooks
  /\ UNCHANGED <<now, rows, acks>>

AlarmRow(a, shape, id) ==
  [NewEntry("alarm_log", CabinetOf[a]) EXCEPT !.cabinet = CabinetOf[a], !.what = shape,
                                            !.alarm = a, !.id = id]

Known(row) ==
  row.id # Nil /\ \E i \in Committed : /\ rows[i].source = "alarm_log"
                                        /\ rows[i].cabinet = row.cabinet /\ rows[i].id = row.id

\* receive_cabinet_webhook: stored unless the row is known; the payload has no id at its top.
Webhook == \E a \in hooks :
  LET row == AlarmRow(a, "webhook", IF a \in HasId THEN IdOf[a] ELSE Nil)
  IN /\ Takes("webhook") /\ hooks' = hooks \ {a}
     /\ IF Known(row) THEN rows' = rows ELSE Adds(row)
     /\ UNCHANGED <<now, active, acks>>

\* _store_alarms, for one alarm of the answer: the same check, on the collector's thread.
Poll == \E a \in active :
  LET row == AlarmRow(a, "poll", IdOf[a])
  IN /\ Takes("poll") /\ ~Known(row)
     /\ ~ \E i \in OpenRows : rows[i].what = "poll"
     /\ Adds(row)
     /\ UNCHANGED <<now, active, hooks, acks>>

\* uq_alarm_log_cabinet_alarm.
Unique(i) == ~Known(rows[i])

\* The commit; the loser of the two rolls back.
CommitRow(i) ==
  /\ i \in OpenRows
  /\ rows' = [rows EXCEPT ![i].state = IF Unique(i) THEN "in" ELSE "refused"]
  /\ UNCHANGED <<now, active, hooks, acks, kinds>>

\* A demo marina has a simulated cabinet; nothing goes to a real one there.
RealInDemo(c) == c \notin Simulated /\ Simulated # {}

\* acknowledge_alarm up to the cabinet's answer: the cabinet named, or the first one, stops
\* the alarm of that number, or does not answer.  Refused for a real cabinet of a demo marina.
AckCalls == \E a \in Alarm, named \in BOOLEAN, ok \in BOOLEAN :
  LET cab == IF named THEN CabinetOf[a] ELSE First
      there == {b \in active : CabinetOf[b] = cab /\ IdOf[b] = IdOf[a]}
  IN /\ Takes("acknowledge") /\ acks[a] = "no" /\ ~RealInDemo(cab)
     /\ \E i \in Committed : rows[i].alarm = a
     /\ acks' = [acks EXCEPT ![a] = "called"]
     /\ active' = IF ok THEN active \ there ELSE active
     /\ UNCHANGED <<now, rows, hooks>>

\* The row found by alarm_data["id"]: only an answer of the poll has one, of any cabinet; so
\* the acknowledgement may mark another row than its own, or none.
Matching(a) == {i \in Committed : rows[i].what = "poll" /\ rows[i].id = IdOf[a]}

AckLocal == \E a \in Alarm :
  /\ acks[a] = "called" /\ acks' = [acks EXCEPT ![a] = "done"]
  /\ IF Matching(a) = {} THEN rows' = rows
     ELSE \E i \in Matching(a) : rows' = [rows EXCEPT ![i].ack = TRUE]
  /\ UNCHANGED <<now, active, hooks, kinds>>

Advance ==
  /\ now < MaxTime /\ now' = now + 1
  /\ \A i \in OpenRows : now + 1 - rows[i].at <= LATE
  /\ UNCHANGED <<rows, active, hooks, acks, kinds>>

AlarmsInit ==
  /\ now = 0 /\ rows = <<>> /\ active = {} /\ hooks = {} /\ kinds = {}
  /\ acks = [a \in Alarm |-> "no"]

AlarmsStep ==
  \/ RecordDecoy \/ FailedLogin \/ Command \/ Raise \/ Webhook \/ Poll
  \/ (\E i \in OpenRows : CommitRow(i)) \/ AckCalls \/ AckLocal

(***************************************************************************)
(* Properties                                                              *)
(***************************************************************************)

\* Types of the variables.
AlarmsTypeOK ==
  /\ now \in 0 .. MaxTime /\ \A i \in DOMAIN rows : rows[i] \in LogEntry
  /\ active \subseteq Alarm /\ hooks \subseteq Alarm /\ kinds \subseteq Steps
  /\ acks \in [Alarm -> {"no", "called", "done"}]
=============================================================================
