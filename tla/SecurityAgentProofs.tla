-------------------------- MODULE SecurityAgentProofs --------------------------
(***************************************************************************)
(* The security agent, for any rows, rules, windows and passes.            *)
(*                                                                         *)
(* A row never changes what the rules look at, so it belongs to one case   *)
(* of a rule for good (KeyOf), whichever window it was seen in; and what   *)
(* is settled before a pass is an alarm after it (Answered).               *)
(***************************************************************************)
EXTENDS SecurityAgent, FiniteSetTheorems, TLAPS

(***************************************************************************)
(* What holds in every state                                               *)
(***************************************************************************)

\* The case of a rule a row belongs to, and the log the rule reads.
KeyOf(rule, i) ==
  CASE rule = "decoy_touch" -> <<rows[i].who, rows[i].ip, rows[i].at \div DAY>>
    [] rule = "login_spray" -> <<rows[i].ip, (rows[i].at \div BUCKET) * BUCKET>>
    [] rule = "account_new_endpoint" ->
         <<rows[i].who, rows[i].what, rows[i].at \div DAY, IsSimulated(i)>>
    [] OTHER -> <<i>>

SourceOf(rule) ==
  CASE rule = "decoy_touch"    -> "decoy_hits"
    [] rule = "login_spray"    -> "auth_audit"
    [] rule = "door_no_window" -> "alarm_log"
    [] OTHER                   -> "command_audit"

\* Row i is evidence of the case.
Evidence(rule, key, i) ==
  /\ i \in Committed /\ rows[i].source = SourceOf(rule) /\ key = KeyOf(rule, i)
  /\ rule = "door_no_window" => rows[i].what = "webhook"

\* What a rule finds of a door's row, or of a snapshot, no window covers.
Finds(f) ==
  /\ f.rule \in RuleIds /\ \A i \in f.evidence : Evidence(f.rule, f.key, i)
  /\ f.rule = "door_no_window" =>
       /\ \A i \in f.evidence : ~Covered(rows[i].cabinet, rows[i].at)
       /\ f.evidence = {} => \E c \in Pedestals : /\ f.key = <<c, snapshot[c].at \div HOUR>>
                                                  /\ ~Covered(c, snapshot[c].at)

(***************************************************************************)
(* What the rules find                                                     *)
(***************************************************************************)

\* Only committed rows of its log are read.
LEMMA InCommitted ==
  ASSUME NEW source, NEW since, NEW t
  PROVE  \A i \in In(source, since, t) : i \in Committed /\ rows[i].source = source
BY DEF In

\* Decoys and failed sign-ins: a group of rows that agree on their case.
LEMMA GroupsFind ==
  ASSUME NEW since, NEW t, NEW f \in DecoyTouch(since, t) \union LoginSpray(since, t)
  PROVE  f.rule \in {"decoy_touch", "login_spray"} /\ Finds(f)
<1>1. CASE f \in DecoyTouch(since, t)
  <2>1. PICK k : f = Finding("decoy_touch", k,
          {i \in In("decoy_hits", since, t) :
             <<rows[i].who, rows[i].ip, rows[i].at \div DAY>> = k}, FALSE)
    BY <1>1 DEF DecoyTouch, Grouped
  <2>2. f.rule = "decoy_touch" /\ \A i \in f.evidence : Evidence("decoy_touch", f.key, i)
    BY <2>1, InCommitted DEF Finding, Evidence, KeyOf, SourceOf
  <2> QED BY <2>2 DEF Finds, RuleIds
<1>2. CASE f \in LoginSpray(since, t)
  <2>1. PICK k : f = Finding("login_spray", k,
          {i \in In("auth_audit", since, t) :
             <<rows[i].ip, BucketOf(rows[i].at, since)>> = k}, FALSE)
    BY <1>2 DEF LoginSpray, Grouped
  <2>2. f.rule = "login_spray" /\ \A i \in f.evidence : Evidence("login_spray", f.key, i)
    BY <2>1, InCommitted DEF Finding, Evidence, KeyOf, SourceOf, BucketOf
  <2> QED BY <2>2 DEF Finds, RuleIds
<1> QED BY <1>1, <1>2

\* Commands: one row, or the first of its account, endpoint and day.
LEMMA CommandsFind ==
  ASSUME NEW since, NEW t,
         NEW f \in OddHour(since, t) \union NewIp(since, t) \union NewEndpoint(since, t)
  PROVE  Finds(f)
<1>1. CASE f \in OddHour(since, t)
  <2>1. PICK i \in In("command_audit", since, t) :
          f = Finding("socket_cmd_odd_hour", <<i>>, {i}, IsSimulated(i))
    BY <1>1 DEF OddHour, OutletCommandsIn
  <2> QED BY <2>1, InCommitted DEF Finding, Finds, Evidence, KeyOf, SourceOf, RuleIds
<1>2. CASE f \in NewIp(since, t)
  <2>1. PICK i \in In("command_audit", since, t) :
          f = Finding("socket_cmd_new_ip", <<i>>, {i}, IsSimulated(i))
    BY <1>2 DEF NewIp, OutletCommandsIn
  <2> QED BY <2>1, InCommitted DEF Finding, Finds, Evidence, KeyOf, SourceOf, RuleIds
<1>3. CASE f \in NewEndpoint(since, t)
  <2>1. PICK i \in In("command_audit", since, t) :
          f = Finding("account_new_endpoint",
                <<rows[i].who, rows[i].what, rows[i].at \div DAY, IsSimulated(i)>>, {i},
                IsSimulated(i))
    BY <1>3 DEF NewEndpoint
  <2> QED BY <2>1, InCommitted DEF Finding, Finds, Evidence, KeyOf, SourceOf, RuleIds
<1> QED BY <1>1, <1>2, <1>3

\* Doors: a row of a webhook, or the last status, that no window covers.
LEMMA DoorsFind ==
  ASSUME NEW since, NEW t, NEW f \in DoorNoWindow(since, t)
  PROVE  Finds(f)
<1>1. CASE \E i \in DoorRows(since, t) : f = Finding("door_no_window", <<i>>, {i}, IsSimulated(i))
  <2>1. PICK i \in DoorRows(since, t) : f = Finding("door_no_window", <<i>>, {i}, IsSimulated(i))
    BY <1>1
  <2>2. /\ i \in In("alarm_log", since, t) /\ rows[i].what = "webhook"
        /\ ~Covered(rows[i].cabinet, rows[i].at)
    BY DEF DoorRows
  <2> QED BY <2>1, <2>2, InCommitted DEF Finding, Finds, Evidence, KeyOf, SourceOf, RuleIds
<1>2. CASE \E c \in OpenDoors(since, t) :
             f = Finding("door_no_window", <<c, snapshot[c].at \div HOUR>>, {}, c \in Simulated)
  <2>1. PICK c \in OpenDoors(since, t) :
          f = Finding("door_no_window", <<c, snapshot[c].at \div HOUR>>, {}, c \in Simulated)
    BY <1>2
  <2>2. c \in Pedestals /\ ~Covered(c, snapshot[c].at)
    BY DEF OpenDoors
  <2> QED BY <2>1, <2>2 DEF Finding, Finds, RuleIds
<1> QED BY <1>1, <1>2 DEF DoorNoWindow

\* A finding is a case of its rule.
LEMMA FindingFinds ==
  ASSUME NEW rule \in RuleIds, NEW since, NEW t, NEW f \in FindingsOf(rule, since, t)
  PROVE  f.rule = rule /\ Finds(f)
<1>1. CASE rule = "decoy_touch"
  <2>1. f \in DecoyTouch(since, t)
    BY <1>1 DEF FindingsOf
  <2>2. f.rule = "decoy_touch"
    BY <2>1 DEF DecoyTouch, Grouped, Finding
  <2> QED BY <1>1, <2>1, <2>2, GroupsFind
<1>2. CASE rule = "login_spray"
  <2>1. f \in LoginSpray(since, t)
    BY <1>2 DEF FindingsOf
  <2>2. f.rule = "login_spray"
    BY <2>1 DEF LoginSpray, Grouped, Finding
  <2> QED BY <1>2, <2>1, <2>2, GroupsFind
<1>3. CASE rule = "socket_cmd_odd_hour"
  <2>1. f \in OddHour(since, t)
    BY <1>3 DEF FindingsOf
  <2>2. f.rule = "socket_cmd_odd_hour"
    BY <2>1 DEF OddHour, Finding
  <2> QED BY <1>3, <2>1, <2>2, CommandsFind
<1>4. CASE rule = "socket_cmd_new_ip"
  <2>1. f \in NewIp(since, t)
    BY <1>4 DEF FindingsOf
  <2>2. f.rule = "socket_cmd_new_ip"
    BY <2>1 DEF NewIp, Finding
  <2> QED BY <1>4, <2>1, <2>2, CommandsFind
<1>5. CASE rule = "account_new_endpoint"
  <2>1. f \in NewEndpoint(since, t)
    BY <1>5 DEF FindingsOf
  <2>2. f.rule = "account_new_endpoint"
    BY <2>1 DEF NewEndpoint, Finding
  <2> QED BY <1>5, <2>1, <2>2, CommandsFind
<1>6. CASE rule = "door_no_window"
  <2>1. f \in DoorNoWindow(since, t)
    BY <1>6 DEF FindingsOf
  <2>2. f.rule = "door_no_window"
    BY <2>1 DEF DoorNoWindow, Finding
  <2> QED BY <1>6, <2>1, <2>2, DoorsFind
<1> QED BY <1>1, <1>2, <1>3, <1>4, <1>5, <1>6 DEF RuleIds

\* A pass finds a case once.
LEMMA FoundOnce ==
  ASSUME DOMAIN rows \subseteq Nat, NEW rule \in RuleIds, NEW since, NEW t,
         NEW f \in FindingsOf(rule, since, t), NEW g \in FindingsOf(rule, since, t), f.key = g.key
  PROVE  f = g
<1>1. CASE rule = "decoy_touch"
  <2> DEFINE case(k) == {i \in In("decoy_hits", since, t) :
                           <<rows[i].who, rows[i].ip, rows[i].at \div DAY>> = k}
  <2>1. PICK k : f = Finding("decoy_touch", k, case(k), FALSE)
    BY <1>1 DEF FindingsOf, DecoyTouch, Grouped
  <2>2. PICK l : g = Finding("decoy_touch", l, case(l), FALSE)
    BY <1>1 DEF FindingsOf, DecoyTouch, Grouped
  <2>3. f.key = k /\ g.key = l
    BY <2>1, <2>2 DEF Finding
  <2> HIDE DEF case
  <2> QED BY <2>1, <2>2, <2>3
<1>2. CASE rule = "login_spray"
  <2> DEFINE case(k) == {i \in In("auth_audit", since, t) :
                           <<rows[i].ip, BucketOf(rows[i].at, since)>> = k}
  <2>1. PICK k : f = Finding("login_spray", k, case(k), FALSE)
    BY <1>2 DEF FindingsOf, LoginSpray, Grouped
  <2>2. PICK l : g = Finding("login_spray", l, case(l), FALSE)
    BY <1>2 DEF FindingsOf, LoginSpray, Grouped
  <2>3. f.key = k /\ g.key = l
    BY <2>1, <2>2 DEF Finding
  <2> HIDE DEF case
  <2> QED BY <2>1, <2>2, <2>3
<1>3. CASE rule \in {"socket_cmd_odd_hour", "socket_cmd_new_ip"}
  <2> DEFINE row(i) == Finding(rule, <<i>>, {i}, IsSimulated(i))
  <2>1. (\E i : f = row(i)) /\ (\E i : g = row(i))
    <3>1. CASE rule = "socket_cmd_odd_hour"
      BY <3>1 DEF FindingsOf, OddHour
    <3>2. CASE rule = "socket_cmd_new_ip"
      BY <3>2 DEF FindingsOf, NewIp
    <3> QED BY <1>3, <3>1, <3>2
  <2>2. \A i, j : row(i).key = row(j).key => row(i) = row(j)
    BY DEF Finding
  <2> HIDE DEF row
  <2> QED BY <2>1, <2>2
<1>4. CASE rule = "account_new_endpoint"
  <2> DEFINE new == {i \in In("command_audit", since, t) :
                       History(i) # {} /\ \A h \in History(i) : rows[h].what # rows[i].what}
             key(i) == <<rows[i].who, rows[i].what, rows[i].at \div DAY, IsSimulated(i)>>
  <2>1. PICK i \in new : /\ \A k \in new : key(k) = key(i) => i <= k
                         /\ f = Finding("account_new_endpoint", key(i), {i}, IsSimulated(i))
    BY <1>4 DEF FindingsOf, NewEndpoint
  <2>2. PICK j \in new : /\ \A k \in new : key(k) = key(j) => j <= k
                         /\ g = Finding("account_new_endpoint", key(j), {j}, IsSimulated(j))
    BY <1>4 DEF FindingsOf, NewEndpoint
  <2>3. key(i) = key(j)
    BY <2>1, <2>2 DEF Finding
  <2>4. i \in Nat /\ j \in Nat
    BY InCommitted DEF Committed
  <2>5. i = j
    BY <2>1, <2>2, <2>3, <2>4
  <2> QED BY <2>1, <2>2, <2>5
<1>5. CASE rule = "door_no_window"
  <2> DEFINE row(i) == Finding("door_no_window", <<i>>, {i}, IsSimulated(i))
             seen(c) == Finding("door_no_window", <<c, snapshot[c].at \div HOUR>>, {},
                                c \in Simulated)
  <2>1. /\ (\E i : f = row(i)) \/ (\E c : f = seen(c))
        /\ (\E i : g = row(i)) \/ (\E c : g = seen(c))
    BY <1>5 DEF FindingsOf, DoorNoWindow
  <2>2. \A i, j : row(i).key = row(j).key => row(i) = row(j)
    BY DEF Finding
  <2>3. \A c, d : seen(c).key = seen(d).key => seen(c) = seen(d)
    BY DEF Finding
  <2>4. \A i, c : row(i).key # seen(c).key
    <3>1. \A i, c : row(i).key = <<i>> /\ seen(c).key = <<c, snapshot[c].at \div HOUR>>
      BY DEF Finding
    <3>2. \A i, c, h : <<i>> # <<c, h>>
      OBVIOUS
    <3> QED BY <3>1, <3>2
  <2> HIDE DEF row, seen
  <2> QED BY <2>1, <2>2, <2>3, <2>4
<1> QED BY <1>1, <1>2, <1>3, <1>4, <1>5 DEF RuleIds

(***************************************************************************)
(* The logs                                                                *)
(***************************************************************************)

\* A webhook is handled once: its alarm waits for no other, and has no second row of the kind.
ByWebhook(i) == rows[i].source = "alarm_log" /\ rows[i].what = "webhook"

HandledOnce ==
  \A i \in DOMAIN rows :
    /\ rows[i].source # "alarm_log" => rows[i].alarm = Nil
    /\ ByWebhook(i) => rows[i].alarm \notin hooks
    /\ \A j \in DOMAIN rows : ByWebhook(i) /\ ByWebhook(j) /\ rows[i].alarm = rows[j].alarm => i = j

LogsInv ==
  /\ AlarmsTypeOK /\ rows \in Seq(LogEntry) /\ HandledOnce
  /\ \A i \in DOMAIN rows : rows[i].at <= now

\* A row may be committed or acknowledged, and stays as it is otherwise.
Kept ==
  \A i \in DOMAIN rows :
    /\ i \in DOMAIN rows' /\ (rows[i].state # "open" => rows'[i].state = rows[i].state)
    /\ rows'[i].source = rows[i].source /\ rows'[i].at = rows[i].at /\ rows'[i].who = rows[i].who
    /\ rows'[i].ip = rows[i].ip /\ rows'[i].what = rows[i].what
    /\ rows'[i].cabinet = rows[i].cabinet /\ rows'[i].alarm = rows[i].alarm

\* A row that begins is not committed yet, and has the time it is.
NewlyBegun ==
  \A i \in DOMAIN rows' \ DOMAIN rows : rows'[i].state = "open" /\ rows'[i].at = now

\* A new row of a log is no evidence yet.
LEMMA Entering ==
  ASSUME LogsInv, NEW row \in LogEntry, Adds(row), row.at = now, row.state = "open",
         now' = now, hooks' \subseteq hooks,
         row.source # "alarm_log" => row.alarm = Nil,
         row.source = "alarm_log" /\ row.what = "webhook" =>
           row.alarm \in hooks /\ row.alarm \notin hooks'
  PROVE  /\ Kept /\ NewlyBegun /\ HandledOnce' /\ rows' \in Seq(LogEntry)
         /\ \A i \in DOMAIN rows' : rows'[i].at <= now' /\ rows'[i] \in LogEntry
<1> PICK N : N = Len(rows) + 1
  OBVIOUS
<1>1. rows \in Seq(LogEntry) /\ rows' = Append(rows, row) /\ now \in Nat
  BY DEF LogsInv, Adds, AlarmsTypeOK
<1>2. /\ N \notin DOMAIN rows /\ DOMAIN rows' = DOMAIN rows \union {N}
      /\ rows' \in Seq(LogEntry) /\ rows'[N] = row
      /\ \A i \in DOMAIN rows : rows'[i] = rows[i]
  BY <1>1
<1>3. Kept /\ NewlyBegun /\ \A i \in DOMAIN rows' : rows'[i].at <= now' /\ rows'[i] \in LogEntry
  BY <1>1, <1>2 DEF Kept, NewlyBegun, LogsInv
<1>4. HandledOnce'
  BY <1>2 DEF HandledOnce, LogsInv, ByWebhook
<1> QED BY <1>2, <1>3, <1>4

\* The fields of a row that begins.
LEMMA Entry ==
  ASSUME LogsInv, NEW source \in Sources,
         NEW who \in Decoys \union Emails \union Actors \union Pedestals,
         NEW ip \in Ips \union {Nil}, NEW what \in Endpoints \union {"poll", "webhook", Nil},
         NEW cabinet \in Pedestals \union {Nil}
  PROVE  /\ NewEntry(source, who) \in LogEntry
         /\ [NewEntry(source, who) EXCEPT !.ip = ip] \in LogEntry
         /\ [NewEntry(source, who) EXCEPT !.ip = ip, !.what = what, !.cabinet = cabinet] \in LogEntry
<1> DEFINE Whos == Decoys \union Emails \union Actors \union Pedestals
           IpsOr == Ips \union {Nil}
           Whats == Endpoints \union {"poll", "webhook", Nil}
           Cabs == Pedestals \union {Nil}
           Alarms == Alarm \union {Nil}
           Ids == Nat \union {Nil}
           Ats == 0 .. MaxTime
           States == {"open", "in", "refused"}
<1>1. now \in Ats
  BY DEF LogsInv, AlarmsTypeOK
<1>2. LogEntry = [source : Sources, at : Ats, state : States, who : Whos, ip : IpsOr,
                  what : Whats, cabinet : Cabs, alarm : Alarms, id : Ids, ack : BOOLEAN]
  BY DEF LogEntry
<1>3. /\ who \in Whos /\ ip \in IpsOr /\ what \in Whats /\ cabinet \in Cabs
      /\ "open" \in States
      /\ Nil \in IpsOr /\ Nil \in Whats /\ Nil \in Cabs /\ Nil \in Alarms /\ Nil \in Ids
  OBVIOUS
<1> HIDE DEF Whos, IpsOr, Whats, Cabs, Alarms, Ids, Ats, States
<1>4. NewEntry(source, who) \in LogEntry
  BY <1>1, <1>2, <1>3 DEF NewEntry
<1> PICK new : new = NewEntry(source, who)
  OBVIOUS
<1> QED BY <1>2, <1>3, <1>4

\* The fields of a row that is committed, refused or acknowledged, or tells of an alarm.
LEMMA Marked ==
  ASSUME NEW row \in LogEntry
  PROVE  /\ \A state \in {"open", "in", "refused"} : [row EXCEPT !.state = state] \in LogEntry
         /\ \A ack \in BOOLEAN : [row EXCEPT !.ack = ack] \in LogEntry
         /\ \A cabinet \in Pedestals, what \in {"poll", "webhook"}, alarm \in Alarm,
               id \in Nat \union {Nil} :
               [row EXCEPT !.cabinet = cabinet, !.what = what, !.alarm = alarm, !.id = id]
                 \in LogEntry
<1> DEFINE Whos == Decoys \union Emails \union Actors \union Pedestals
           IpsOr == Ips \union {Nil}
           Whats == Endpoints \union {"poll", "webhook", Nil}
           Cabs == Pedestals \union {Nil}
           Alarms == Alarm \union {Nil}
           Ids == Nat \union {Nil}
           Ats == 0 .. MaxTime
           States == {"open", "in", "refused"}
<1>1. LogEntry = [source : Sources, at : Ats, state : States, who : Whos,
                  ip : IpsOr, what : Whats, cabinet : Cabs, alarm : Alarms, id : Ids, ack : BOOLEAN]
  BY DEF LogEntry
<1>2. /\ Pedestals \subseteq Cabs /\ {"poll", "webhook"} \subseteq Whats /\ Alarm \subseteq Alarms
      /\ Nat \union {Nil} = Ids /\ {"open", "in", "refused"} = States
  OBVIOUS
<1> HIDE DEF Whos, IpsOr, Whats, Cabs, Alarms, Ids, Ats, States
<1> QED BY <1>1, <1>2

\* A row that is marked stays the evidence it is.
LEMMA Marking ==
  ASSUME LogsInv, NEW i \in DOMAIN rows, NEW row \in LogEntry,
         rows' = [rows EXCEPT ![i] = row], now' = now, hooks' = hooks,
         rows[i].state # "open" => row.state = rows[i].state,
         row.source = rows[i].source, row.at = rows[i].at, row.who = rows[i].who,
         row.ip = rows[i].ip, row.what = rows[i].what, row.cabinet = rows[i].cabinet,
         row.alarm = rows[i].alarm
  PROVE  /\ Kept /\ NewlyBegun /\ HandledOnce' /\ rows' \in Seq(LogEntry)
         /\ \A j \in DOMAIN rows' : rows'[j].at <= now' /\ rows'[j] \in LogEntry
<1>1. rows \in Seq(LogEntry)
  BY DEF LogsInv
<1>2. /\ DOMAIN rows' = DOMAIN rows /\ rows' \in Seq(LogEntry) /\ rows'[i] = row
      /\ \A j \in DOMAIN rows : j # i => rows'[j] = rows[j]
  BY <1>1
<1>3. Kept /\ NewlyBegun
  BY <1>2 DEF Kept, NewlyBegun
<1>4. \A j \in DOMAIN rows' : rows'[j].at <= now' /\ rows'[j] \in LogEntry
  BY <1>1, <1>2 DEF LogsInv
<1>5. HandledOnce'
  BY <1>2, <1>3 DEF HandledOnce, LogsInv, ByWebhook, Kept
<1> QED BY <1>2, <1>3, <1>4, <1>5

\* The rows as they were.
LEMMA Standing ==
  ASSUME LogsInv, rows' = rows, now' \in Nat, now <= now',
         \A a \in hooks' \ hooks : ~ \E i \in DOMAIN rows : rows[i].alarm = a
  PROVE  /\ Kept /\ NewlyBegun /\ HandledOnce' /\ rows' \in Seq(LogEntry)
         /\ \A i \in DOMAIN rows' : rows'[i].at <= now' /\ rows'[i] \in LogEntry
<1>1. rows \in Seq(LogEntry) /\ now \in Nat /\ \A i \in DOMAIN rows : rows[i].at \in Nat
  BY DEF LogsInv, AlarmsTypeOK, LogEntry
<1>2. \A i \in DOMAIN rows' : rows'[i].at <= now' /\ rows'[i] \in LogEntry
  BY <1>1 DEF LogsInv, AlarmsTypeOK
<1>3. HandledOnce'
  BY DEF HandledOnce, LogsInv, ByWebhook
<1> QED BY <1>1, <1>2, <1>3 DEF Kept, NewlyBegun

\* What a step of the logs preserves, and does to the rows.
Stepped == LogsInv' /\ Kept /\ NewlyBegun /\ now' = now

\* A decoy, a failed sign-in and a command each leave a row of their log.
LEMMA OtherLogs ==
  ASSUME LogsInv, RecordDecoy \/ FailedLogin \/ Command
  PROVE  Stepped
<1>0. PICK row \in LogEntry : /\ Adds(row) /\ row.at = now /\ row.alarm = Nil
                              /\ row.source # "alarm_log" /\ row.state = "open"
                              /\ kinds' \subseteq Steps /\ UNCHANGED <<now, active, hooks, acks>>
  <2>1. CASE RecordDecoy
    <3>1. PICK d \in Decoys, ip \in Ips : /\ Takes("decoy_hits")
                                          /\ Adds([NewEntry("decoy_hits", d) EXCEPT !.ip = ip])
                                          /\ UNCHANGED <<now, active, hooks, acks>>
      BY <2>1 DEF RecordDecoy
    <3>2. PICK row : row = [NewEntry("decoy_hits", d) EXCEPT !.ip = ip]
      OBVIOUS
    <3>3. row \in LogEntry
      <4>1. /\ d \in Decoys \union Emails \union Actors \union Pedestals
            /\ "decoy_hits" \in Sources
            /\ ip \in Ips \union {Nil}
        BY DEF Sources
      <4> QED BY <3>2, <4>1, Entry
    <3>4. row.at = now /\ row.alarm = Nil /\ row.source # "alarm_log" /\ row.state = "open"
      BY <3>2 DEF NewEntry
    <3>5. kinds' \subseteq Steps
      BY <3>1 DEF Takes, LogsInv, AlarmsTypeOK, Steps, Sources
    <3> QED BY <3>1, <3>2, <3>3, <3>4, <3>5
  <2>2. CASE FailedLogin
    <3>1. PICK e \in Emails, ip \in Ips : /\ Takes("auth_audit")
                                          /\ Adds([NewEntry("auth_audit", e) EXCEPT !.ip = ip])
                                          /\ UNCHANGED <<now, active, hooks, acks>>
      BY <2>2 DEF FailedLogin
    <3>2. PICK row : row = [NewEntry("auth_audit", e) EXCEPT !.ip = ip]
      OBVIOUS
    <3>3. row \in LogEntry
      <4>1. /\ e \in Decoys \union Emails \union Actors \union Pedestals
            /\ "auth_audit" \in Sources
            /\ ip \in Ips \union {Nil}
        BY DEF Sources
      <4> QED BY <3>2, <4>1, Entry
    <3>4. row.at = now /\ row.alarm = Nil /\ row.source # "alarm_log" /\ row.state = "open"
      BY <3>2 DEF NewEntry
    <3>5. kinds' \subseteq Steps
      BY <3>1 DEF Takes, LogsInv, AlarmsTypeOK, Steps, Sources
    <3> QED BY <3>1, <3>2, <3>3, <3>4, <3>5
  <2>3. CASE Command
    <3>1. PICK a \in Actors, e \in Endpoints, ip \in Ips, c \in Pedestals :
            /\ Takes("command_audit")
            /\ Adds([NewEntry("command_audit", a) EXCEPT !.ip = ip, !.what = e, !.cabinet = c])
            /\ UNCHANGED <<now, active, hooks, acks>>
      BY <2>3 DEF Command
    <3>2. PICK row : row = [NewEntry("command_audit", a) EXCEPT !.ip = ip, !.what = e, !.cabinet = c]
      OBVIOUS
    <3>3. row \in LogEntry
      <4>1. /\ a \in Decoys \union Emails \union Actors \union Pedestals
            /\ "command_audit" \in Sources
            /\ ip \in Ips \union {Nil}
            /\ e \in Endpoints \union {"poll", "webhook", Nil}
            /\ c \in Pedestals \union {Nil}
        BY DEF Sources
      <4> QED BY <3>2, <4>1, Entry
    <3>4. row.at = now /\ row.alarm = Nil /\ row.source # "alarm_log" /\ row.state = "open"
      BY <3>2 DEF NewEntry
    <3>5. kinds' \subseteq Steps
      BY <3>1 DEF Takes, LogsInv, AlarmsTypeOK, Steps, Sources
    <3> QED BY <3>1, <3>2, <3>3, <3>4, <3>5
  <2> QED BY <2>1, <2>2, <2>3
<1>1. /\ Kept /\ NewlyBegun /\ HandledOnce' /\ rows' \in Seq(LogEntry)
      /\ \A i \in DOMAIN rows' : rows'[i].at <= now' /\ rows'[i] \in LogEntry
  BY <1>0, Entering
<1> QED BY <1>0, <1>1 DEF Stepped, LogsInv, AlarmsTypeOK

\* An alarm that was not raised before waits at its cabinet, perhaps with a webhook.
LEMMA RaiseSteps ==
  ASSUME LogsInv, Raise
  PROVE  Stepped
<1>1. PICK a \in Alarm, sent \in BOOLEAN :
        /\ Takes("alarm_log") /\ ~ \E i \in DOMAIN rows : rows[i].alarm = a
        /\ active' = active \union {a} /\ hooks' = IF sent THEN hooks \union {a} ELSE hooks
        /\ UNCHANGED <<now, rows, acks>>
  BY DEF Raise
<1>2. now \in Nat /\ kinds' \subseteq Steps
  BY <1>1 DEF LogsInv, AlarmsTypeOK, Takes, Steps, Sources
<1>3. hooks' \subseteq Alarm /\ \A b \in hooks' \ hooks : ~ \E i \in DOMAIN rows : rows[i].alarm = b
  BY <1>1 DEF LogsInv, AlarmsTypeOK
<1>4. /\ Kept /\ NewlyBegun /\ HandledOnce' /\ rows' \in Seq(LogEntry)
      /\ \A i \in DOMAIN rows' : rows'[i].at <= now' /\ rows'[i] \in LogEntry
  BY <1>1, <1>2, <1>3, Standing
<1> QED BY <1>1, <1>2, <1>3, <1>4 DEF Stepped, LogsInv, AlarmsTypeOK

\* A row of an alarm, whichever way it came.
LEMMA AlarmEntry ==
  ASSUME LogsInv, NEW a \in Alarm, NEW shape \in {"poll", "webhook"}, NEW id \in Nat \union {Nil}
  PROVE  /\ AlarmRow(a, shape, id) \in LogEntry
         /\ AlarmRow(a, shape, id).at = now /\ AlarmRow(a, shape, id).source = "alarm_log"
         /\ AlarmRow(a, shape, id).what = shape /\ AlarmRow(a, shape, id).alarm = a
         /\ AlarmRow(a, shape, id).state = "open"
<1> PICK row : row = AlarmRow(a, shape, id)
  OBVIOUS
<1> PICK new : new = NewEntry("alarm_log", CabinetOf[a])
  OBVIOUS
<1>1. new \in LogEntry
  <2>1. /\ CabinetOf[a] \in Decoys \union Emails \union Actors \union Pedestals
        /\ "alarm_log" \in Sources /\ Nil \in Ips \union {Nil}
        /\ Nil \in Endpoints \union {"poll", "webhook", Nil} /\ Nil \in Pedestals \union {Nil}
    BY AlarmsAssumption DEF Sources
  <2> QED BY <2>1, Entry
<1>2. row \in LogEntry
  BY <1>1, AlarmsAssumption, Marked DEF AlarmRow
<1>3. /\ row.at = now /\ row.source = "alarm_log" /\ row.what = shape /\ row.alarm = a
      /\ row.state = "open"
  BY DEF AlarmRow, NewEntry
<1> QED BY <1>2, <1>3

\* A webhook is taken, and stored unless its row is known.
LEMMA WebhookSteps ==
  ASSUME LogsInv, Webhook
  PROVE  Stepped
<1>1. PICK a \in hooks : a \in Alarm /\
        LET row == AlarmRow(a, "webhook", IF a \in HasId THEN IdOf[a] ELSE Nil)
        IN /\ Takes("webhook") /\ hooks' = hooks \ {a} /\ UNCHANGED <<now, active, acks>>
           /\ rows' = rows \/ Adds(row)
  BY DEF Webhook, LogsInv, AlarmsTypeOK
<1>2. PICK id \in Nat \union {Nil} : id = IF a \in HasId THEN IdOf[a] ELSE Nil
  BY <1>1, AlarmsAssumption
<1>3. now \in Nat /\ kinds' \subseteq Steps /\ a \in Alarm /\ hooks' \subseteq Alarm
  BY <1>1 DEF LogsInv, AlarmsTypeOK, Takes, Steps, Sources
<1>4. /\ Kept /\ NewlyBegun /\ HandledOnce' /\ rows' \in Seq(LogEntry)
      /\ \A i \in DOMAIN rows' : rows'[i].at <= now' /\ rows'[i] \in LogEntry
  <2>1. CASE rows' = rows
    BY <2>1, <1>1, <1>3, Standing
  <2>2. CASE Adds(AlarmRow(a, "webhook", id))
    BY <2>2, <1>1, <1>3, AlarmEntry, Entering
  <2> QED BY <2>1, <2>2, <1>1, <1>2
<1> QED BY <1>1, <1>3, <1>4 DEF Stepped, LogsInv, AlarmsTypeOK

\* The poll stores an alarm whose row is not known.
LEMMA PollSteps ==
  ASSUME LogsInv, Poll
  PROVE  Stepped
<1>1. PICK a \in active : /\ Takes("poll")
                          /\ Adds(AlarmRow(a, "poll", IdOf[a]))
                          /\ UNCHANGED <<now, active, hooks, acks>>
  BY DEF Poll
<1>2. now \in Nat /\ kinds' \subseteq Steps /\ a \in Alarm /\ IdOf[a] \in Nat
  BY <1>1, AlarmsAssumption DEF LogsInv, AlarmsTypeOK, Takes, Steps, Sources
<1>3. /\ Kept /\ NewlyBegun /\ HandledOnce' /\ rows' \in Seq(LogEntry)
      /\ \A i \in DOMAIN rows' : rows'[i].at <= now' /\ rows'[i] \in LogEntry
  BY <1>1, <1>2, AlarmEntry, Entering
<1> QED BY <1>1, <1>2, <1>3 DEF Stepped, LogsInv, AlarmsTypeOK

\* A commit, or its refusal by the unique index.
LEMMA CommitSteps ==
  ASSUME LogsInv, NEW i \in OpenRows, CommitRow(i)
  PROVE  Stepped
<1>1. PICK state \in {"in", "refused"} :
        /\ rows' = [rows EXCEPT ![i] = [rows[i] EXCEPT !.state = state]]
        /\ UNCHANGED <<now, active, hooks, acks, kinds>>
  BY DEF CommitRow
<1>2. i \in DOMAIN rows /\ rows[i] \in LogEntry /\ rows[i].state = "open"
  BY DEF OpenRows, LogsInv
<1> PICK row : row = [rows[i] EXCEPT !.state = state]
  OBVIOUS
<1>3. row \in LogEntry
  BY <1>2, Marked
<1>4. /\ row.source = rows[i].source /\ row.at = rows[i].at /\ row.who = rows[i].who
      /\ row.ip = rows[i].ip /\ row.what = rows[i].what /\ row.cabinet = rows[i].cabinet
      /\ row.alarm = rows[i].alarm
  BY <1>2 DEF LogEntry
<1>5. /\ Kept /\ NewlyBegun /\ HandledOnce' /\ rows' \in Seq(LogEntry)
      /\ \A j \in DOMAIN rows' : rows'[j].at <= now' /\ rows'[j] \in LogEntry
  BY <1>1, <1>2, <1>3, <1>4, Marking
<1> QED BY <1>1, <1>5 DEF Stepped, LogsInv, AlarmsTypeOK

\* An acknowledgement stops alarms at a cabinet, or marks a row.
LEMMA AcknowledgeSteps ==
  ASSUME LogsInv, AckCalls \/ AckLocal
  PROVE  Stepped
<1>1. CASE AckCalls
  <2>1. PICK a \in Alarm : /\ Takes("acknowledge") /\ acks' = [acks EXCEPT ![a] = "called"]
                           /\ active' \subseteq active /\ UNCHANGED <<now, rows, hooks>>
    BY <1>1 DEF AckCalls
  <2>2. now \in Nat /\ kinds' \subseteq Steps /\ acks' \in [Alarm -> {"no", "called", "done"}]
    BY <2>1 DEF LogsInv, AlarmsTypeOK, Takes, Steps, Sources
  <2>3. /\ Kept /\ NewlyBegun /\ HandledOnce' /\ rows' \in Seq(LogEntry)
        /\ \A i \in DOMAIN rows' : rows'[i].at <= now' /\ rows'[i] \in LogEntry
    BY <2>1, <2>2, Standing
  <2> QED BY <2>1, <2>2, <2>3 DEF Stepped, LogsInv, AlarmsTypeOK
<1>2. CASE AckLocal
  <2>1. PICK a \in Alarm :
          /\ acks' = [acks EXCEPT ![a] = "done"] /\ UNCHANGED <<now, active, hooks, kinds>>
          /\ \/ rows' = rows
             \/ \E i \in Matching(a) : rows' = [rows EXCEPT ![i] = [rows[i] EXCEPT !.ack = TRUE]]
    BY <1>2 DEF AckLocal
  <2>2. now \in Nat /\ acks' \in [Alarm -> {"no", "called", "done"}]
    BY <2>1 DEF LogsInv, AlarmsTypeOK
  <2>3. /\ Kept /\ NewlyBegun /\ HandledOnce' /\ rows' \in Seq(LogEntry)
        /\ \A i \in DOMAIN rows' : rows'[i].at <= now' /\ rows'[i] \in LogEntry
    <3>1. CASE rows' = rows
      BY <3>1, <2>1, <2>2, Standing
    <3>2. CASE \E i \in Matching(a) : rows' = [rows EXCEPT ![i] = [rows[i] EXCEPT !.ack = TRUE]]
      <4>1. PICK i \in Matching(a) : rows' = [rows EXCEPT ![i] = [rows[i] EXCEPT !.ack = TRUE]]
        BY <3>2
      <4>2. i \in DOMAIN rows /\ rows[i] \in LogEntry
        BY DEF Matching, Committed, LogsInv
      <4> PICK row : row = [rows[i] EXCEPT !.ack = TRUE]
        OBVIOUS
      <4>3. row \in LogEntry
        BY <4>2, Marked
      <4>4. /\ row.source = rows[i].source /\ row.at = rows[i].at /\ row.who = rows[i].who
            /\ row.ip = rows[i].ip /\ row.what = rows[i].what /\ row.cabinet = rows[i].cabinet
            /\ row.alarm = rows[i].alarm /\ row.state = rows[i].state
        BY <4>2 DEF LogEntry
      <4> QED BY <2>1, <4>1, <4>2, <4>3, <4>4, Marking
    <3> QED BY <2>1, <3>1, <3>2
  <2> QED BY <2>1, <2>2, <2>3 DEF Stepped, LogsInv, AlarmsTypeOK
<1> QED BY <1>1, <1>2

\* Every step of the logs.
LEMMA LogsStep ==
  ASSUME LogsInv, AlarmsStep
  PROVE  Stepped
BY OtherLogs, RaiseSteps, WebhookSteps, PollSteps, CommitSteps, AcknowledgeSteps DEF AlarmsStep

\* Time passes.
LEMMA TimeSteps ==
  ASSUME LogsInv, Advance
  PROVE  LogsInv' /\ Kept /\ NewlyBegun /\ now <= now'
<1>1. /\ now \in Nat /\ MaxTime \in Nat /\ now' \in 0 .. MaxTime /\ now <= now'
      /\ UNCHANGED <<rows, active, hooks, acks, kinds>>
  BY AlarmsAssumption DEF LogsInv, AlarmsTypeOK, Advance
<1>2. /\ Kept /\ NewlyBegun /\ HandledOnce' /\ rows' \in Seq(LogEntry)
      /\ \A i \in DOMAIN rows' : rows'[i].at <= now' /\ rows'[i] \in LogEntry
  BY <1>1, Standing
<1> QED BY <1>1, <1>2 DEF LogsInv, AlarmsTypeOK

(***************************************************************************)
(* The invariant of the agent                                              *)
(***************************************************************************)

\* Every alarm is one case of its rule, with its evidence in the logs.
IsCase(a) ==
  /\ a = [rule |-> a.rule, key |-> a.key, evidence |-> a.evidence, simulated |-> a.simulated,
          at |-> a.at, state |-> a.state]
  /\ a.rule \in RuleIds /\ a.state \in {"open", "acknowledged", "closed"}
  /\ \A i \in a.evidence : Evidence(a.rule, a.key, i)
  /\ a.rule = "door_no_window" /\ a.evidence = {} =>
       a.key[2] * HOUR \in Nat /\ a.key[2] * HOUR <= now

OneAlarm == \A a, b \in alarms : a.rule = b.rule /\ a.key = b.key => a = b

\* A decision that overlapped no other finds its alarm as it read it.
IsDecision(d) ==
  /\ d = [rule |-> d.rule, key |-> d.key, to |-> d.to, alone |-> d.alone]
  /\ d.to \in {"acknowledged", "closed"}
  /\ \E a \in alarms : a.rule = d.rule /\ a.key = d.key /\ (d.alone => a.state \notin {"closed", d.to})

\* A window that was deleted had not begun when its cancellation read it.
Cancels ==
  /\ \A c \in cancelling : c.at < c.window.from
  /\ \A x \in cancelled : \E c \in cancelling : c.window = x.window

\* No window that still stands excuses what a door's alarm is about.
Excuses(w, a) ==
  \/ \E i \in a.evidence : /\ w.cabinet = rows[i].cabinet /\ w.announced < rows[i].at
                           /\ w.from <= rows[i].at /\ rows[i].at <= w.to
  \/ /\ a.evidence = {} /\ w.cabinet = a.key[1] /\ w.announced < a.key[2] * HOUR
     /\ w.from <= a.key[2] * HOUR /\ a.key[2] * HOUR + HOUR - 1 <= w.to

NoneExcused == \A a \in alarms, w \in windows : a.rule = "door_no_window" => ~Excuses(w, a)

AdminsTypeOK ==
  /\ snapshot \in [Pedestals -> [open : BOOLEAN, at : 0 .. MaxTime]]
  /\ \A c \in Pedestals : snapshot[c].at <= now
  /\ windows \subseteq Window /\ modes \subseteq [rule : RuleIds, since : 0 .. MaxTime]

AgentInv ==
  /\ LogsInv /\ AdminsTypeOK
  /\ (\A a \in alarms : IsCase(a)) /\ OneAlarm
  /\ (\A d \in deciding : IsDecision(d)) /\ ~reopened
  /\ Cancels /\ NoneExcused

\* What the rules look at in a row stays, so it stays in its case.
LEMMA CaseStays ==
  ASSUME Kept, NEW rule, NEW key, NEW i, Evidence(rule, key, i)
  PROVE  Evidence(rule, key, i)'
<1>1. i \in DOMAIN rows /\ rows[i].state = "in"
  BY DEF Evidence, Committed
<1>2. /\ i \in Committed' /\ rows'[i].source = rows[i].source /\ rows'[i].at = rows[i].at
      /\ rows'[i].who = rows[i].who /\ rows'[i].ip = rows[i].ip /\ rows'[i].what = rows[i].what
      /\ rows'[i].cabinet = rows[i].cabinet
  BY <1>1 DEF Kept, Committed
<1>3. KeyOf(rule, i)' = KeyOf(rule, i)
  BY <1>2 DEF KeyOf, IsSimulated
<1> QED BY <1>2, <1>3 DEF Evidence

\* An alarm, and what excuses it, as time passes and rows come in.
LEMMA AlarmStays ==
  ASSUME Kept, now \in Nat, now' \in Nat, now <= now', NEW a, IsCase(a)
  PROVE  IsCase(a)' /\ \A w : Excuses(w, a)' => Excuses(w, a)
<1>1. \A i \in a.evidence : Evidence(a.rule, a.key, i)'
  BY CaseStays DEF IsCase
<1>2. IsCase(a)'
  BY <1>1, AgentAssumption DEF IsCase
<1>3. \A i \in a.evidence : rows'[i].cabinet = rows[i].cabinet /\ rows'[i].at = rows[i].at
  BY DEF IsCase, Evidence, Committed, Kept
<1> QED BY <1>2, <1>3 DEF Excuses

\* The alarms and the windows as they were, or fewer windows.
LEMMA AlarmsStay ==
  ASSUME AgentInv, LogsInv', Kept, now <= now', alarms' = alarms, windows' \subseteq windows
  PROVE  (\A a \in alarms' : IsCase(a)') /\ OneAlarm' /\ NoneExcused'
<1>1. now \in Nat /\ now' \in Nat
  BY DEF AgentInv, LogsInv, AlarmsTypeOK
<1>2. \A a \in alarms : IsCase(a)' /\ \A w : Excuses(w, a)' => Excuses(w, a)
  BY <1>1, AlarmStays DEF AgentInv
<1> QED BY <1>2 DEF AgentInv, OneAlarm, NoneExcused

\* Nothing but the logs moves.
LEMMA Watching ==
  ASSUME AgentInv, LogsInv', Kept, now <= now',
         UNCHANGED <<snapshot, windows, modes, alarms, deciding, cancelling, cancelled, reopened>>
  PROVE  AgentInv'
<1>1. now \in Nat /\ now' \in Nat
  BY DEF AgentInv, LogsInv, AlarmsTypeOK
<1>2. AdminsTypeOK'
  BY <1>1 DEF AgentInv, AdminsTypeOK
<1>3. (\A a \in alarms' : IsCase(a)') /\ OneAlarm' /\ NoneExcused'
  BY AlarmsStay
<1>4. (\A d \in deciding' : IsDecision(d)') /\ Cancels'
  BY DEF AgentInv, IsDecision, Cancels
<1> QED BY <1>2, <1>3, <1>4 DEF AgentInv

\* Nothing of the logs moves.
LEMMA LogsAlone ==
  ASSUME AgentInv, UNCHANGED <<now, rows, active, hooks, acks>>, kinds' \subseteq Steps
  PROVE  LogsInv' /\ Kept /\ NewlyBegun /\ now <= now'
<1>1. now \in Nat
  BY DEF AgentInv, LogsInv, AlarmsTypeOK
<1>2. /\ Kept /\ NewlyBegun /\ HandledOnce' /\ rows' \in Seq(LogEntry)
      /\ \A i \in DOMAIN rows' : rows'[i].at <= now' /\ rows'[i] \in LogEntry
  BY <1>1, Standing DEF AgentInv
<1> QED BY <1>1, <1>2 DEF AgentInv, LogsInv, AlarmsTypeOK

(***************************************************************************)
(* A pass                                                                  *)
(***************************************************************************)

\* The hour of a time.
LEMMA HourOf ==
  ASSUME NEW at \in Nat
  PROVE  /\ (at \div HOUR) * HOUR \in Nat
         /\ (at \div HOUR) * HOUR <= at /\ at <= (at \div HOUR) * HOUR + HOUR - 1
<1>1. \A x, h \in Nat : h > 0 =>
        (x \div h) \in Nat /\ (x \div h) * h <= x /\ x < (x \div h) * h + h
  BY SMT
<1>2. \A q, h \in Nat : q * h \in Nat
  BY SMT
<1> QED BY <1>1, <1>2, AgentAssumption

\* The alarm a finding becomes.
AlarmOf(f) ==
  [rule |-> f.rule, key |-> f.key, evidence |-> f.evidence, simulated |-> f.simulated,
   at |-> now, state |-> "open"]

\* A finding is a case, and no window that stands excuses it.
LEMMA FoundCase ==
  ASSUME AgentInv, NEW f, Finds(f), UNCHANGED <<now, rows, windows>>
  PROVE  /\ IsCase(AlarmOf(f))'
         /\ \A w \in windows : f.rule = "door_no_window" => ~Excuses(w, AlarmOf(f))'
<1> PICK a : a = AlarmOf(f)
  OBVIOUS
<1>1. /\ a.rule = f.rule /\ a.key = f.key /\ a.evidence = f.evidence /\ a.state = "open"
      /\ a = [rule |-> a.rule, key |-> a.key, evidence |-> a.evidence, simulated |-> a.simulated,
              at |-> a.at, state |-> a.state]
  BY DEF AlarmOf
<1>2. /\ a.rule \in RuleIds /\ \A i \in a.evidence : Evidence(a.rule, a.key, i)
  BY <1>1 DEF Finds
<1>3. ASSUME a.rule = "door_no_window", a.evidence = {}
      PROVE  /\ a.key[2] * HOUR \in Nat /\ a.key[2] * HOUR <= now
             /\ \A w \in windows : w.cabinet = a.key[1] /\ w.from <= a.key[2] * HOUR =>
                  ~ a.key[2] * HOUR + HOUR - 1 <= w.to
  <2>1. PICK c \in Pedestals : /\ a.key = <<c, snapshot[c].at \div HOUR>>
                               /\ ~Covered(c, snapshot[c].at)
    BY <1>1, <1>3 DEF Finds
  <2>2. PICK at \in Nat : at = snapshot[c].at /\ at <= now
    BY AlarmsAssumption DEF AgentInv, AdminsTypeOK
  <2>3. PICK hour : hour = at \div HOUR
    OBVIOUS
  <2>4. hour * HOUR \in Nat /\ hour * HOUR <= at /\ at <= hour * HOUR + HOUR - 1
    BY <2>3, HourOf
  <2>5. a.key[1] = c /\ a.key[2] = hour
    BY <2>1, <2>2, <2>3
  <2>6. now \in Nat /\ HOUR \in Nat /\ \A w \in windows : w.from \in Nat /\ w.to \in Nat
    BY AgentAssumption DEF AgentInv, LogsInv, AlarmsTypeOK, AdminsTypeOK, Window
  <2>7. \A w \in windows : w.cabinet = c /\ w.from <= hour * HOUR => ~ hour * HOUR + HOUR - 1 <= w.to
    BY <2>1, <2>2, <2>4, <2>6 DEF Covered
  <2> QED BY <2>2, <2>4, <2>5, <2>6, <2>7
<1>4. \A w \in windows : a.rule = "door_no_window" => ~Excuses(w, a)
  <2>1. ASSUME NEW w \in windows, a.rule = "door_no_window"
        PROVE  ~Excuses(w, a)
    <3>1. \A i \in a.evidence : ~Covered(rows[i].cabinet, rows[i].at)
      BY <1>1, <2>1 DEF Finds
    <3> QED BY <1>3, <2>1, <3>1 DEF Excuses, Covered
  <2> QED BY <2>1
<1>5. IsCase(a) /\ \A w \in windows : a.rule = "door_no_window" => ~Excuses(w, a)
  BY <1>1, <1>2, <1>3, <1>4 DEF IsCase
<1>6. AlarmOf(f)' = a
  BY DEF AlarmOf
<1>7. \A x : (IsCase(x)' <=> IsCase(x)) /\ \A w : Excuses(w, x)' <=> Excuses(w, x)
  <2>1. Committed' = Committed
    BY DEF Committed
  <2>2. \A rule, key, i : Evidence(rule, key, i)' <=> Evidence(rule, key, i)
    BY <2>1 DEF Evidence, KeyOf, IsSimulated
  <2>3. \A x : IsCase(x)' <=> IsCase(x)
    BY <2>2 DEF IsCase
  <2>4. \A x, w : Excuses(w, x)' <=> Excuses(w, x)
    BY DEF Excuses
  <2> QED BY <2>3, <2>4
<1> QED BY <1>1, <1>5, <1>6, <1>7

\* A pass opens one alarm per case it finds and has none of.
LEMMA PassSteps ==
  ASSUME AgentInv, Pass
  PROVE  AgentInv'
<1> DEFINE new == {f \in Findings(Since(now), now) : AlarmFor(f) = {}}
<1>1. /\ alarms' = alarms \union {AlarmOf(f) : f \in new}
      /\ UNCHANGED <<alarmVars, snapshot, windows, modes, deciding, cancelling, cancelled, reopened>>
  BY DEF Pass, AlarmOf
<1>2. UNCHANGED <<now, rows, active, hooks, acks, kinds>>
  BY <1>1 DEF alarmVars
<1>3. /\ LogsInv /\ LogsInv' /\ Kept /\ now \in Nat /\ now <= now'
  BY <1>2, LogsAlone DEF AgentInv, LogsInv, AlarmsTypeOK
<1>4. \A f \in new : /\ Finds(f) /\ f.rule \in RuleIds /\ f \in FindingsOf(f.rule, Since(now), now)
                     /\ \A a \in alarms : ~(a.rule = f.rule /\ a.key = f.key)
  <2>1. ASSUME NEW f \in new
        PROVE  /\ Finds(f) /\ f.rule \in RuleIds /\ f \in FindingsOf(f.rule, Since(now), now)
               /\ \A a \in alarms : ~(a.rule = f.rule /\ a.key = f.key)
    <3>1. PICK m \in modes : f \in FindingsOf(m.rule, Since(now), now)
      BY DEF Findings
    <3>2. m.rule \in RuleIds
      BY DEF AgentInv, AdminsTypeOK
    <3>3. f.rule = m.rule /\ Finds(f)
      BY <3>1, <3>2, FindingFinds
    <3> QED BY <3>1, <3>2, <3>3 DEF AlarmFor
  <2> QED BY <2>1
<1>5. \A f, g \in new : f.rule = g.rule /\ f.key = g.key => f = g
  <2>1. DOMAIN rows \subseteq Nat
    BY <1>3 DEF LogsInv
  <2> QED BY <1>4, <2>1, FoundOnce
<1>6. \A f \in new : /\ IsCase(AlarmOf(f))' /\ AlarmOf(f).rule = f.rule /\ AlarmOf(f).key = f.key
                     /\ \A w \in windows : f.rule = "door_no_window" => ~Excuses(w, AlarmOf(f))'
                     /\ AlarmOf(f)' = AlarmOf(f)
  BY <1>1, <1>2, <1>4, FoundCase DEF AlarmOf
<1>7. \A a \in alarms : IsCase(a)' /\ \A w : Excuses(w, a)' => Excuses(w, a)
  BY <1>2, <1>3, AlarmStays DEF AgentInv
<1> HIDE DEF new
<1>8. \A a \in alarms' : IsCase(a)'
  <2>1. ASSUME NEW a \in alarms'
        PROVE  IsCase(a)'
    <3>1. CASE a \in alarms
      BY <3>1, <1>7
    <3>2. CASE \E f \in new : a = AlarmOf(f)
      <4>1. PICK f \in new : a = AlarmOf(f)
        BY <3>2
      <4> QED BY <4>1, <1>6
    <3> QED BY <1>1, <3>1, <3>2
  <2> QED BY <2>1
<1>9. OneAlarm'
  BY <1>1, <1>4, <1>5, <1>6 DEF OneAlarm, AgentInv
<1>10. NoneExcused'
  <2>1. ASSUME NEW a \in alarms', NEW w \in windows, a.rule = "door_no_window"
        PROVE  ~Excuses(w, a)'
    <3>1. CASE a \in alarms
      BY <2>1, <3>1, <1>7 DEF AgentInv, NoneExcused
    <3>2. CASE \E f \in new : a = AlarmOf(f)
      <4>1. PICK f \in new : a = AlarmOf(f)
        BY <3>2
      <4> QED BY <2>1, <4>1, <1>6
    <3> QED BY <1>1, <3>1, <3>2
  <2> QED BY <2>1, <1>1 DEF NoneExcused
<1>11. \A d \in deciding' : IsDecision(d)'
  BY <1>1 DEF AgentInv, IsDecision
<1>12. AdminsTypeOK' /\ Cancels' /\ ~reopened'
  BY <1>1, <1>2 DEF AgentInv, AdminsTypeOK, Cancels
<1> QED BY <1>3, <1>8, <1>9, <1>10, <1>11, <1>12 DEF AgentInv

(***************************************************************************)
(* The Admins                                                              *)
(***************************************************************************)

\* A rule's mode and a cabinet's status change no alarm.
LEMMA SwitchSteps ==
  ASSUME AgentInv, SetRuleMode \/ StatusPolled
  PROVE  AgentInv'
<1>1. /\ UNCHANGED <<now, rows, active, hooks, acks, windows, alarms, deciding, cancelling,
                     cancelled, reopened>>
      /\ kinds' \subseteq Steps
  BY DEF SetRuleMode, StatusPolled, Takes, AgentInv, LogsInv, AlarmsTypeOK, Steps, Sources
<1>2. LogsInv' /\ Kept /\ now <= now' /\ now \in 0 .. MaxTime
  BY <1>1, LogsAlone DEF AgentInv, LogsInv, AlarmsTypeOK
<1>3. AdminsTypeOK'
  <2>1. CASE SetRuleMode
    BY <1>1, <1>2, <2>1, AgentAssumption DEF SetRuleMode, AgentInv, AdminsTypeOK
  <2>2. CASE StatusPolled
    <3>1. PICK c \in Pedestals, open \in BOOLEAN :
            /\ snapshot' = [snapshot EXCEPT ![c] = [open |-> open, at |-> now]]
            /\ UNCHANGED modes
      BY <2>2, AgentAssumption DEF StatusPolled
    <3>2. [open |-> open, at |-> now] \in [open : BOOLEAN, at : 0 .. MaxTime]
      BY <1>2
    <3> QED BY <1>1, <1>2, <3>1, <3>2 DEF AgentInv, AdminsTypeOK
  <2> QED BY <2>1, <2>2
<1>4. (\A a \in alarms' : IsCase(a)') /\ OneAlarm' /\ NoneExcused'
  BY <1>1, <1>2, AlarmsStay
<1>5. (\A d \in deciding' : IsDecision(d)') /\ Cancels'
  BY <1>1 DEF AgentInv, IsDecision, Cancels
<1> QED BY <1>1, <1>2, <1>3, <1>4, <1>5 DEF AgentInv

\* A decision reads its alarm.
LEMMA DecidesSteps ==
  ASSUME AgentInv, Decides
  PROVE  AgentInv'
<1>1. PICK a \in alarms, to \in {"acknowledged", "closed"} :
        /\ a.state \notin {"closed", to}
        /\ deciding' = deciding \union {[rule |-> a.rule, key |-> a.key, to |-> to,
                                         alone |-> deciding = {}]}
        /\ UNCHANGED <<now, rows, active, hooks, acks, snapshot, windows, modes, alarms,
                       cancelling, cancelled, reopened>>
  BY DEF Decides
<1>2. kinds' \subseteq Steps
  BY DEF Decides, Takes, AgentInv, LogsInv, AlarmsTypeOK, Steps, Sources
<1>3. LogsInv' /\ Kept /\ now <= now'
  BY <1>1, <1>2, LogsAlone
<1>4. \A d \in deciding' : IsDecision(d)'
  <2>1. PICK alone \in BOOLEAN : alone = (deciding = {})
    OBVIOUS
  <2>2. PICK e : e = [rule |-> a.rule, key |-> a.key, to |-> to, alone |-> alone]
    OBVIOUS
  <2>3. IsDecision(e)
    BY <1>1, <2>2 DEF IsDecision
  <2>4. deciding' = deciding \union {e}
    BY <1>1, <2>1, <2>2
  <2> QED BY <1>1, <2>3, <2>4 DEF AgentInv, IsDecision
<1>5. (\A b \in alarms' : IsCase(b)') /\ OneAlarm' /\ NoneExcused'
  BY <1>1, <1>3, AlarmsStay
<1>6. AdminsTypeOK' /\ Cancels' /\ ~reopened'
  BY <1>1 DEF AgentInv, AdminsTypeOK, Cancels
<1> QED BY <1>3, <1>4, <1>5, <1>6 DEF AgentInv

\* A decision commits: its alarm is the same case, in another state.
LEMMA DecidedSteps ==
  ASSUME AgentInv, Decided
  PROVE  AgentInv'
<1>1. PICK d \in deciding :
        LET a == CHOOSE x \in alarms : x.rule = d.rule /\ x.key = d.key
        IN /\ alarms' = (alarms \ {a}) \union {[a EXCEPT !.state = d.to]}
           /\ deciding' = {[e EXCEPT !.alone = FALSE] : e \in deciding \ {d}}
           /\ reopened' = (reopened \/ (a.state = "closed" /\ d.to # "closed" /\ d.alone))
           /\ UNCHANGED <<alarmVars, snapshot, windows, modes, cancelling, cancelled>>
  BY DEF Decided
<1>2. PICK a : a = CHOOSE x \in alarms : x.rule = d.rule /\ x.key = d.key
  OBVIOUS
<1>3. /\ a \in alarms /\ a.rule = d.rule /\ a.key = d.key
      /\ d.to \in {"acknowledged", "closed"} /\ (d.alone => a.state \notin {"closed", d.to})
  BY <1>2 DEF AgentInv, IsDecision, OneAlarm
<1>4. PICK b : b = [a EXCEPT !.state = d.to]
  OBVIOUS
<1>5. /\ alarms' = (alarms \ {a}) \union {b}
      /\ deciding' = {[e EXCEPT !.alone = FALSE] : e \in deciding \ {d}}
      /\ reopened' = (reopened \/ (a.state = "closed" /\ d.to # "closed" /\ d.alone))
      /\ UNCHANGED <<now, rows, active, hooks, acks, kinds, snapshot, windows, modes, cancelling,
                     cancelled>>
  BY <1>1, <1>2, <1>4 DEF alarmVars
<1>6. /\ LogsInv' /\ Kept /\ now <= now' /\ now \in Nat /\ now' \in Nat
  BY <1>5, LogsAlone DEF AgentInv, LogsInv, AlarmsTypeOK
<1>7. \A x \in alarms : IsCase(x)' /\ \A w : Excuses(w, x)' => Excuses(w, x)
  BY <1>6, AlarmStays DEF AgentInv
<1>8. /\ b = [rule |-> b.rule, key |-> b.key, evidence |-> b.evidence, simulated |-> b.simulated,
              at |-> b.at, state |-> b.state]
      /\ b.rule = a.rule /\ b.key = a.key /\ b.evidence = a.evidence /\ b.state = d.to
  <2>1. a = [rule |-> a.rule, key |-> a.key, evidence |-> a.evidence, simulated |-> a.simulated,
             at |-> a.at, state |-> a.state]
    BY <1>3 DEF AgentInv, IsCase
  <2> QED BY <1>4, <2>1
<1>9. IsCase(b)'
  BY <1>3, <1>7, <1>8 DEF IsCase, Evidence, KeyOf
<1>10. \A w : Excuses(w, b)' => Excuses(w, a)
  BY <1>3, <1>7, <1>8 DEF Excuses
<1>11. (\A x \in alarms' : IsCase(x)') /\ OneAlarm' /\ NoneExcused'
  BY <1>3, <1>5, <1>7, <1>8, <1>9, <1>10 DEF AgentInv, OneAlarm, NoneExcused
<1>12. ~reopened'
  BY <1>3, <1>5 DEF AgentInv
<1>13. \A e \in deciding' : IsDecision(e)'
  <2>1. ASSUME NEW g \in deciding'
        PROVE  IsDecision(g)'
    <3>1. PICK e \in deciding : g = [e EXCEPT !.alone = FALSE]
      BY <1>5
    <3>2. IsDecision(e)
      BY DEF AgentInv
    <3>3. /\ g = [rule |-> g.rule, key |-> g.key, to |-> g.to, alone |-> g.alone]
          /\ g.rule = e.rule /\ g.key = e.key /\ g.to \in {"acknowledged", "closed"} /\ ~g.alone
      BY <3>1, <3>2 DEF IsDecision
    <3>4. \E x \in alarms' : x.rule = e.rule /\ x.key = e.key
      BY <1>5, <1>8, <3>2 DEF IsDecision
    <3> QED BY <3>3, <3>4 DEF IsDecision
  <2> QED BY <2>1
<1>14. AdminsTypeOK' /\ Cancels'
  BY <1>5 DEF AgentInv, AdminsTypeOK, Cancels
<1> QED BY <1>6, <1>11, <1>12, <1>13, <1>14 DEF AgentInv

\* A window is announced: no alarm is about a later time.
LEMMA AnnounceSteps ==
  ASSUME AgentInv, Announce
  PROVE  AgentInv'
<1>1. PICK c \in Pedestals, p \in Periods :
        /\ windows' = {[cabinet |-> c, from |-> p[1], to |-> p[2], announced |-> now]}
        /\ UNCHANGED <<now, rows, active, hooks, acks, snapshot, modes, alarms, deciding,
                       cancelling, cancelled, reopened>>
  BY DEF Announce
<1>2. kinds' \subseteq Steps
  BY DEF Announce, Takes, AgentInv, LogsInv, AlarmsTypeOK, Steps, Sources
<1>3. /\ LogsInv /\ LogsInv' /\ Kept /\ now <= now' /\ now \in Nat /\ now \in 0 .. MaxTime
  BY <1>1, <1>2, LogsAlone DEF AgentInv, LogsInv, AlarmsTypeOK
<1>4. \A a \in alarms : IsCase(a)' /\ \A w : Excuses(w, a)' => Excuses(w, a)
  BY <1>1, <1>3, AlarmStays DEF AgentInv
<1>5. AdminsTypeOK'
  <2>1. PICK w : w = [cabinet |-> c, from |-> p[1], to |-> p[2], announced |-> now]
    OBVIOUS
  <2>2. w \in Window
    <3>1. p[1] \in Nat /\ p[2] \in Nat
      BY AgentAssumption
    <3> QED BY <1>3, <2>1, <3>1 DEF Window
  <2> QED BY <1>1, <2>1, <2>2 DEF AgentInv, AdminsTypeOK
<1>6. NoneExcused'
  <2>1. ASSUME NEW a \in alarms, NEW w, w.announced = now, a.rule = "door_no_window"
        PROVE  ~Excuses(w, a)
    <3>1. IsCase(a)
      BY DEF AgentInv
    <3>2. \A i \in a.evidence : rows[i].at \in Nat /\ rows[i].at <= now
      <4>1. \A i \in a.evidence : i \in DOMAIN rows
        BY <3>1 DEF IsCase, Evidence, Committed
      <4>2. \A i \in DOMAIN rows : rows[i].at \in Nat /\ rows[i].at <= now
        BY <1>3 DEF LogsInv, AlarmsTypeOK, LogEntry
      <4> QED BY <4>1, <4>2
    <3> QED BY <1>3, <2>1, <3>1, <3>2 DEF Excuses, IsCase
  <2> QED BY <1>1, <1>4, <2>1 DEF NoneExcused
<1>7. (\A a \in alarms' : IsCase(a)') /\ OneAlarm' /\ \A d \in deciding' : IsDecision(d)'
  BY <1>1, <1>4 DEF AgentInv, OneAlarm, IsDecision
<1>8. Cancels' /\ ~reopened'
  BY <1>1 DEF AgentInv, Cancels
<1> QED BY <1>3, <1>5, <1>6, <1>7, <1>8 DEF AgentInv

\* A window is deleted, by a cancellation that has read it.
LEMMA CancelSteps ==
  ASSUME AgentInv, CancelReads \/ CancelCommits
  PROVE  AgentInv'
<1>1. /\ UNCHANGED <<now, rows, active, hooks, acks, kinds, snapshot, modes, alarms, deciding,
                     reopened>>
      /\ windows' \subseteq windows
  BY DEF CancelReads, CancelCommits, alarmVars
<1>2. /\ LogsInv' /\ Kept /\ now <= now' /\ now \in Nat
  BY <1>1, LogsAlone DEF AgentInv, LogsInv, AlarmsTypeOK
<1>3. (\A a \in alarms' : IsCase(a)') /\ OneAlarm' /\ NoneExcused'
  BY <1>1, <1>2, AlarmsStay
<1>4. (\A d \in deciding' : IsDecision(d)') /\ AdminsTypeOK' /\ ~reopened'
  BY <1>1 DEF AgentInv, IsDecision, AdminsTypeOK
<1>5. Cancels'
  <2>1. CASE CancelReads
    <3>1. PICK w \in windows : /\ w.from > now /\ UNCHANGED cancelled
                               /\ cancelling' = cancelling \union {[window |-> w, at |-> now]}
      BY <2>1 DEF CancelReads, MayCancel
    <3>2. w.from \in Nat
      BY DEF AgentInv, AdminsTypeOK, Window
    <3> QED BY <1>2, <3>1, <3>2 DEF AgentInv, Cancels
  <2>2. CASE CancelCommits
    <3>1. PICK c \in cancelling : /\ cancelled' = cancelled \union {[window |-> c.window, at |-> now]}
                                  /\ UNCHANGED cancelling
      BY <2>2 DEF CancelCommits
    <3> QED BY <3>1 DEF AgentInv, Cancels
  <2> QED BY <2>1, <2>2
<1> QED BY <1>2, <1>3, <1>4, <1>5 DEF AgentInv

(***************************************************************************)
(* The theorems                                                            *)
(***************************************************************************)

\* Every step of the agent, the Admins and the logs keeps the invariant.
LEMMA AgentStep ==
  ASSUME AgentInv, [AgentNext]_securityVars
  PROVE  AgentInv'
<1>1. CASE AlarmsStep /\ UNCHANGED agentVars
  <2>1. LogsInv' /\ Kept /\ now' = now /\ now \in Nat
    BY <1>1, LogsStep DEF AgentInv, Stepped, LogsInv, AlarmsTypeOK
  <2> QED BY <1>1, <2>1, Watching DEF agentVars
<1>2. CASE TimePasses
  <2>1. /\ LogsInv' /\ Kept /\ now <= now'
        /\ UNCHANGED <<snapshot, windows, modes, alarms, deciding, cancelling, cancelled, reopened>>
    BY <1>2, TimeSteps DEF AgentInv, TimePasses
  <2> QED BY <2>1, Watching
<1>3. CASE UNCHANGED securityVars
  <2>1. /\ UNCHANGED <<now, rows, active, hooks, acks, kinds>>
        /\ UNCHANGED <<snapshot, windows, modes, alarms, deciding, cancelling, cancelled, reopened>>
    BY <1>3 DEF securityVars, alarmVars, agentVars
  <2>2. LogsInv' /\ Kept /\ now <= now'
    BY <2>1, LogsAlone DEF AgentInv, LogsInv, AlarmsTypeOK
  <2> QED BY <2>1, <2>2, Watching
<1> QED BY <1>1, <1>2, <1>3, PassSteps, SwitchSteps, DecidesSteps, DecidedSteps, AnnounceSteps,
           CancelSteps DEF AgentNext

\* The invariant holds at the start.
LEMMA AgentStarts ==
  ASSUME AgentInit
  PROVE  AgentInv
<1>1. LogsInv
  BY AlarmsAssumption DEF AgentInit, AlarmsInit, LogsInv, AlarmsTypeOK, HandledOnce
<1>2. AdminsTypeOK
  BY AlarmsAssumption DEF AgentInit, AlarmsInit, AdminsTypeOK
<1> QED BY <1>1, <1>2 DEF AgentInit, AgentInv, OneAlarm, Cancels, NoneExcused

\* Types, whatever the logs, the rules and the Admins do.
THEOREM AgentTypeCorrect == AgentSpec => []AgentTypeOK
<1>1. AgentInv => AgentTypeOK
  BY DEF AgentInv, LogsInv, AdminsTypeOK, IsCase, Evidence, AgentTypeOK
<1>2. AgentInit => AgentInv
  BY AgentStarts
<1>3. AgentInv /\ [AgentNext]_securityVars => AgentInv'
  BY AgentStep
<1> QED BY <1>1, <1>2, <1>3, PTL DEF AgentSpec

\* CasePutOnce: KeyOf sends a row to one case of a rule, and one alarm has it; the rows of an
\* alarm of a cabinet that the door rule reads are the webhook's, and a webhook has one row.
THEOREM CasePutOnceHolds == AgentSpec => []CasePutOnce
<1>1. AgentInv => CasePutOnce
  <2>1. ASSUME AgentInv, NEW a \in alarms, NEW b \in alarms, a # b, a.rule = b.rule,
               NEW i \in a.evidence, NEW j \in b.evidence
        PROVE  i # j /\ (rows[i].alarm = Nil \/ rows[i].alarm # rows[j].alarm)
    <3>1. Evidence(a.rule, a.key, i) /\ Evidence(a.rule, b.key, j) /\ a.rule \in RuleIds
      BY <2>1 DEF AgentInv, IsCase
    <3>2. i # j
      BY <2>1, <3>1 DEF AgentInv, OneAlarm, Evidence
    <3>3. i \in DOMAIN rows /\ j \in DOMAIN rows
      BY <3>1 DEF Evidence, Committed
    <3>4. CASE a.rule = "door_no_window"
      <4>1. ByWebhook(i) /\ ByWebhook(j)
        BY <3>1, <3>4 DEF Evidence, SourceOf, ByWebhook
      <4> QED BY <2>1, <3>2, <3>3, <4>1 DEF AgentInv, LogsInv, HandledOnce
    <3>5. CASE a.rule # "door_no_window"
      <4>1. rows[i].source # "alarm_log"
        BY <3>1, <3>5 DEF Evidence, SourceOf, RuleIds
      <4> QED BY <2>1, <3>2, <3>3, <4>1 DEF AgentInv, LogsInv, HandledOnce
    <3> QED BY <3>2, <3>4, <3>5
  <2>2. AgentInv => ~reopened
    BY DEF AgentInv
  <2> QED BY <2>1, <2>2 DEF CasePutOnce
<1>2. AgentInit => AgentInv
  BY AgentStarts
<1>3. AgentInv /\ [AgentNext]_securityVars => AgentInv'
  BY AgentStep
<1> QED BY <1>1, <1>2, <1>3, PTL DEF AgentSpec

\* Alibi: a pass finds nothing that a standing window covers (HourOf), a later window is
\* announced after the signal, and a window is deleted only by a cancellation that read it
\* before it began.
THEOREM AlibiHolds == AgentSpec => []Alibi
<1>1. AgentInv => Alibi
  <2>1. AgentInv => \A a \in alarms, w \in windows : a.rule = "door_no_window" => ~Excuses(w, a)
    BY DEF AgentInv, NoneExcused
  <2>2. AgentInv => \A x \in cancelled : \E c \in cancelling : c.window = x.window /\ c.at < x.window.from
    BY DEF AgentInv, Cancels
  <2> QED BY <2>1, <2>2 DEF Alibi, Excuses
<1>2. AgentInit => AgentInv
  BY AgentStarts
<1>3. AgentInv /\ [AgentNext]_securityVars => AgentInv'
  BY AgentStep
<1> QED BY <1>1, <1>2, <1>3, PTL DEF AgentSpec

(***************************************************************************)
(* What a pass must find                                                   *)
(***************************************************************************)

\* Rows have a first.
LEMMA Least ==
  ASSUME NEW S, S \subseteq Nat, S # {}
  PROVE  \E n \in S : \A m \in S : n <= m
<1>1. PICK n \in S : \A m \in S : ~(<<m, n>> \in OpToRel(<, Nat))
  BY WFMin, NatLessThanWellFounded
<1>2. \A m \in S : ~(m < n)
  BY <1>1 DEF OpToRel
<1> QED BY <1>2

\* More rows are of at least as many accounts.
LEMMA MoreAccounts ==
  ASSUME rows \in Seq(LogEntry), NEW S, NEW T, S \subseteq T, T \subseteq DOMAIN rows
  PROVE  /\ Cardinality({rows[i].who : i \in S}) \in Nat
         /\ Cardinality({rows[i].who : i \in T}) \in Nat
         /\ Cardinality({rows[i].who : i \in S}) <= Cardinality({rows[i].who : i \in T})
<1> DEFINE few == {rows[i].who : i \in S}
           many == {rows[i].who : i \in T}
           who == [i \in T |-> rows[i].who]
<1>1. IsFiniteSet(T)
  <2>1. DOMAIN rows = 1 .. Len(rows) /\ Len(rows) \in Nat
    OBVIOUS
  <2>2. IsFiniteSet(1 .. Len(rows))
    BY <2>1, FS_Interval
  <2> QED BY <2>1, <2>2, FS_Subset
<1>2. who \in Surjection(T, many)
  BY DEF Surjection
<1>3. IsFiniteSet(many)
  BY <1>1, <1>2, FS_Surjection
<1>4. few \in SUBSET many
  OBVIOUS
<1> QED BY <1>3, <1>4, FS_Subset, FS_CardinalityType

\* A bucket is no longer than its length.
LEMMA OneBucket ==
  ASSUME NEW a \in Nat, NEW b \in Nat, (a \div BUCKET) * BUCKET = (b \div BUCKET) * BUCKET
  PROVE  a < b + BUCKET
<1>1. \A x, h \in Nat : h > 0 => (x \div h) * h <= x /\ x < (x \div h) * h + h
  BY SMT
<1>2. \A x, h \in Nat : h > 0 => (x \div h) * h \in Int
  BY SMT
<1> PICK p : p = (a \div BUCKET) * BUCKET
  OBVIOUS
<1>3. p \in Int /\ p <= b /\ a < p + BUCKET /\ BUCKET \in Nat
  BY <1>1, <1>2, AgentAssumption
<1> QED BY <1>3

\* The rows of a finding are in the window the rule looked at.
LEMMA EvidenceIn ==
  ASSUME NEW rule \in RuleIds, NEW since, NEW t, NEW f \in FindingsOf(rule, since, t),
         NEW i \in f.evidence
  PROVE  i \in Committed /\ since <= rows[i].at /\ rows[i].at <= t
<1>1. \E source : i \in In(source, since, t)
  <2>1. CASE rule = "decoy_touch"
    BY <2>1 DEF FindingsOf, DecoyTouch, Grouped, Finding
  <2>2. CASE rule = "login_spray"
    BY <2>2 DEF FindingsOf, LoginSpray, Grouped, Finding
  <2>3. CASE rule = "socket_cmd_odd_hour"
    BY <2>3 DEF FindingsOf, OddHour, OutletCommandsIn, Finding
  <2>4. CASE rule = "socket_cmd_new_ip"
    BY <2>4 DEF FindingsOf, NewIp, OutletCommandsIn, Finding
  <2>5. CASE rule = "account_new_endpoint"
    BY <2>5 DEF FindingsOf, NewEndpoint, Finding
  <2>6. CASE rule = "door_no_window"
    BY <2>6 DEF FindingsOf, DoorNoWindow, DoorRows, Finding
  <2> QED BY <2>1, <2>2, <2>3, <2>4, <2>5, <2>6 DEF RuleIds
<1> QED BY <1>1 DEF In

\* A case is found in every window that holds one of its rows; a burst, in every one that holds
\* them all.
LEMMA FoundAlso ==
  ASSUME LogsInv, NEW rule \in RuleIds, NEW s, NEW t, NEW since, NEW until,
         NEW f \in FindingsOf(rule, s, t), NEW i \in f.evidence,
         \A j \in f.evidence : j = i \/ rule = "login_spray" =>
           since <= rows[j].at /\ rows[j].at <= until
  PROVE  \E g \in FindingsOf(rule, since, until) : g.key = f.key
<1>1. since <= rows[i].at /\ rows[i].at <= until
  OBVIOUS
<1>2. CASE rule = "decoy_touch"
  <2> DEFINE key(j) == <<rows[j].who, rows[j].ip, rows[j].at \div DAY>>
             ids == In("decoy_hits", since, until)
             case(k) == Finding("decoy_touch", k, {j \in ids : key(j) = k}, FALSE)
  <2>1. i \in In("decoy_hits", s, t) /\ key(i) = f.key
    BY <1>2 DEF FindingsOf, DecoyTouch, Grouped, Finding
  <2>2. i \in ids
    BY <1>1, <2>1 DEF In
  <2>3. FindingsOf(rule, since, until) = {case(k) : k \in {key(j) : j \in ids}}
    BY <1>2 DEF FindingsOf, DecoyTouch, Grouped
  <2>4. case(key(i)).key = key(i)
    BY DEF Finding
  <2> HIDE DEF key, ids, case
  <2> QED BY <2>1, <2>2, <2>3, <2>4
<1>3. CASE rule = "login_spray"
  <2> DEFINE key(j) == <<rows[j].ip, BucketOf(rows[j].at, 0)>>
             ids == In("auth_audit", since, until)
             group == {j \in ids : key(j) = f.key}
             g == Finding("login_spray", f.key, group, FALSE)
  <2>1. /\ f.evidence = {j \in In("auth_audit", s, t) : key(j) = f.key}
        /\ Cardinality({rows[j].who : j \in f.evidence}) >= SPRAY_ACCOUNTS
    BY <1>3 DEF FindingsOf, LoginSpray, Grouped, Finding, BucketOf
  <2>2. f.evidence \subseteq group
    BY <1>3, <2>1 DEF In
  <2>3. group \subseteq DOMAIN rows
    BY DEF In, Committed
  <2>4. Cardinality({rows[j].who : j \in group}) >= SPRAY_ACCOUNTS
    <3> HIDE DEF group
    <3>1. rows \in Seq(LogEntry) /\ SPRAY_ACCOUNTS \in Nat
      BY AgentAssumption DEF LogsInv
    <3>2. PICK few : few = {rows[j].who : j \in f.evidence}
      OBVIOUS
    <3>3. PICK many : many = {rows[j].who : j \in group}
      OBVIOUS
    <3>4. /\ Cardinality({rows[j].who : j \in f.evidence}) \in Nat
          /\ Cardinality({rows[j].who : j \in group}) \in Nat
          /\ Cardinality({rows[j].who : j \in f.evidence}) <= Cardinality({rows[j].who : j \in group})
      BY <2>2, <2>3, <3>1, MoreAccounts, Zenon
    <3>5. Cardinality(few) \in Nat /\ Cardinality(many) \in Nat /\ Cardinality(few) <= Cardinality(many)
      BY <3>2, <3>3, <3>4
    <3>6. Cardinality(few) >= SPRAY_ACCOUNTS
      BY <2>1, <3>2
    <3>7. Cardinality(many) >= SPRAY_ACCOUNTS
      BY <3>1, <3>5, <3>6
    <3> QED BY <3>3, <3>7
  <2>5. i \in group /\ g.key = f.key /\ g.evidence = group
    BY <2>2 DEF Finding
  <2>6. g \in LoginSpray(since, until)
    <3>1. FindingsOf("login_spray", since, until) = LoginSpray(since, until)
      BY DEF FindingsOf
    <3>2. g \in Grouped("login_spray", ids, LAMBDA j : <<rows[j].ip, BucketOf(rows[j].at, since)>>)
      BY <2>5 DEF Grouped, BucketOf
    <3> HIDE DEF g, group
    <3> QED BY <2>4, <2>5, <3>2 DEF LoginSpray
  <2> HIDE DEF g
  <2> QED BY <1>3, <2>5, <2>6 DEF FindingsOf
<1>4. CASE rule = "socket_cmd_odd_hour"
  BY <1>1, <1>4 DEF FindingsOf, OddHour, OutletCommandsIn, In, Finding
<1>5. CASE rule = "socket_cmd_new_ip"
  BY <1>1, <1>5 DEF FindingsOf, NewIp, OutletCommandsIn, In, Finding
<1>6. CASE rule = "account_new_endpoint"
  <2> DEFINE isnew(j) == History(j) # {} /\ \A h \in History(j) : rows[h].what # rows[j].what
             key(j) == <<rows[j].who, rows[j].what, rows[j].at \div DAY, IsSimulated(j)>>
             new == {j \in In("command_audit", since, until) : isnew(j)}
             case(j) == Finding("account_new_endpoint", key(j), {j}, IsSimulated(j))
             same == {j \in new : key(j) = key(i)}
  <2>1. i \in In("command_audit", s, t) /\ isnew(i) /\ key(i) = f.key
    BY <1>6 DEF FindingsOf, NewEndpoint, Finding
  <2>2. i \in same
    BY <1>1, <2>1 DEF In
  <2>3. same \subseteq Nat
    BY DEF LogsInv, In, Committed
  <2>4. FindingsOf(rule, since, until) =
          {case(j) : j \in {k \in new : \A l \in new : key(l) = key(k) => k <= l}}
    BY <1>6 DEF FindingsOf, NewEndpoint
  <2>5. \A j : case(j).key = key(j)
    BY DEF Finding
  <2>6. PICK j \in same : \A k \in same : j <= k
    <3> HIDE DEF same
    <3> QED BY <2>2, <2>3, Least
  <2>7. j \in new /\ key(j) = key(i) /\ \A l \in new : key(l) = key(j) => j <= l
    BY <2>6
  <2> HIDE DEF new, key, case
  <2> QED BY <2>1, <2>4, <2>5, <2>7
<1>7. CASE rule = "door_no_window"
  <2>1. i \in DoorRows(s, t) /\ f.key = <<i>>
    BY <1>7 DEF FindingsOf, DoorNoWindow, Finding
  <2>2. i \in DoorRows(since, until)
    BY <1>1, <2>1 DEF DoorRows, In
  <2>3. PICK g : g = Finding("door_no_window", <<i>>, {i}, IsSimulated(i))
    OBVIOUS
  <2>4. g \in FindingsOf(rule, since, until) /\ g.key = <<i>>
    BY <1>7, <2>2, <2>3 DEF FindingsOf, DoorNoWindow, Finding
  <2> QED BY <2>1, <2>4
<1> QED BY <1>2, <1>3, <1>4, <1>5, <1>6, <1>7 DEF RuleIds

\* A finding all of whose rows are earlier is found with the later rows left out.
LEMMA FoundEarlier ==
  ASSUME LogsInv, NEW rule \in RuleIds, NEW s \in Nat, NEW t \in Nat, NEW u \in Nat, u <= t,
         NEW f \in FindingsOf(rule, s, t), f.evidence # {},
         \A i \in f.evidence : rows[i].at <= u
  PROVE  f \in FindingsOf(rule, s, u)
<1>1. ASSUME NEW source
      PROVE  /\ \A i \in In(source, s, u) : i \in In(source, s, t)
             /\ \A i \in In(source, s, t) : rows[i].at <= u => i \in In(source, s, u)
  <2>1. \A i \in Committed : rows[i].at \in Nat
    BY DEF Committed, LogsInv, AlarmsTypeOK, LogEntry
  <2> QED BY <2>1 DEF In
<1>2. CASE rule = "decoy_touch"
  <2> DEFINE key(j) == <<rows[j].who, rows[j].ip, rows[j].at \div DAY>>
             found(ids, k) == {j \in ids : key(j) = k}
  <2>1. PICK k : f = Finding("decoy_touch", k, found(In("decoy_hits", s, t), k), FALSE)
    BY <1>2 DEF FindingsOf, DecoyTouch, Grouped
  <2>2. f.evidence = found(In("decoy_hits", s, t), k)
    BY <2>1 DEF Finding
  <2>3. found(In("decoy_hits", s, t), k) = found(In("decoy_hits", s, u), k)
    BY <1>1, <2>2
  <2>4. PICK i \in In("decoy_hits", s, u) : key(i) = k
    BY <2>2, <2>3
  <2>5. FindingsOf(rule, s, u) = {Finding("decoy_touch", l, found(In("decoy_hits", s, u), l), FALSE) :
                                    l \in {key(j) : j \in In("decoy_hits", s, u)}}
    BY <1>2 DEF FindingsOf, DecoyTouch, Grouped
  <2> HIDE DEF key, found
  <2> QED BY <2>1, <2>3, <2>4, <2>5
<1>3. CASE rule = "login_spray"
  <2> DEFINE key(j) == <<rows[j].ip, BucketOf(rows[j].at, s)>>
             found(ids, k) == {j \in ids : key(j) = k}
  <2>1. PICK k : f = Finding("login_spray", k, found(In("auth_audit", s, t), k), FALSE)
    BY <1>3 DEF FindingsOf, LoginSpray, Grouped
  <2>2. /\ f.evidence = found(In("auth_audit", s, t), k)
        /\ Cardinality({rows[j].who : j \in f.evidence}) >= SPRAY_ACCOUNTS
    BY <1>3, <2>1 DEF FindingsOf, LoginSpray, Finding
  <2>3. found(In("auth_audit", s, t), k) = found(In("auth_audit", s, u), k)
    BY <1>1, <2>2
  <2>4. PICK i \in In("auth_audit", s, u) : key(i) = k
    BY <2>2, <2>3
  <2>5. FindingsOf(rule, s, u) =
          {g \in {Finding("login_spray", l, found(In("auth_audit", s, u), l), FALSE) :
                    l \in {key(j) : j \in In("auth_audit", s, u)}} :
             Cardinality({rows[j].who : j \in g.evidence}) >= SPRAY_ACCOUNTS}
    BY <1>3 DEF FindingsOf, LoginSpray, Grouped, BucketOf
  <2> HIDE DEF key, found
  <2> QED BY <2>1, <2>2, <2>3, <2>4, <2>5
<1>4. CASE rule = "socket_cmd_odd_hour"
  BY <1>1, <1>4 DEF FindingsOf, OddHour, OutletCommandsIn, Finding
<1>5. CASE rule = "socket_cmd_new_ip"
  BY <1>1, <1>5 DEF FindingsOf, NewIp, OutletCommandsIn, Finding
<1>6. CASE rule = "account_new_endpoint"
  <2> DEFINE isnew(j) == History(j) # {} /\ \A h \in History(j) : rows[h].what # rows[j].what
             key(j) == <<rows[j].who, rows[j].what, rows[j].at \div DAY, IsSimulated(j)>>
             new(v) == {j \in In("command_audit", s, v) : isnew(j)}
             case(j) == Finding("account_new_endpoint", key(j), {j}, IsSimulated(j))
  <2>1. \A v : FindingsOf(rule, s, v) =
          {case(j) : j \in {k \in new(v) : \A l \in new(v) : key(l) = key(k) => k <= l}}
    BY <1>6 DEF FindingsOf, NewEndpoint
  <2>2. PICK j \in new(t) : f = case(j) /\ \A l \in new(t) : key(l) = key(j) => j <= l
    BY <1>6 DEF FindingsOf, NewEndpoint
  <2>3. j \in f.evidence
    BY <2>2 DEF Finding
  <2>4. j \in new(u) /\ \A l \in new(u) : l \in new(t)
    BY <1>1, <2>3
  <2> HIDE DEF new, key, case
  <2> QED BY <2>1, <2>2, <2>4
<1>7. CASE rule = "door_no_window"
  <2>1. PICK i \in DoorRows(s, t) : f = Finding("door_no_window", <<i>>, {i}, IsSimulated(i))
    BY <1>7 DEF FindingsOf, DoorNoWindow, Finding
  <2>2. i \in DoorRows(s, u)
    BY <1>1, <2>1 DEF DoorRows, Finding
  <2> QED BY <1>7, <2>1, <2>2 DEF FindingsOf, DoorNoWindow
<1> QED BY <1>2, <1>3, <1>4, <1>5, <1>6, <1>7 DEF RuleIds

\* No row of that time, or an earlier one, is committed by the step.
Settled(t) == \A i \in Committed' : rows'[i].at <= t => i \in Committed

\* Of settled rows a step lets the rules find nothing they did not find before.
LEMMA FoundBefore ==
  ASSUME LogsInv, LogsInv', Kept, NEW rule \in RuleIds, NEW s \in Nat, NEW t \in Nat, Settled(t),
         NEW f \in FindingsOf(rule, s, t)', f.evidence # {},
         \A w \in windows \ windows', i \in f.evidence : w.cabinet # rows'[i].cabinet
  PROVE  f \in FindingsOf(rule, s, t)
<1>1. \A i \in Committed :
        /\ i \in Committed' /\ rows'[i].source = rows[i].source /\ rows'[i].at = rows[i].at
        /\ rows'[i].who = rows[i].who /\ rows'[i].ip = rows[i].ip /\ rows'[i].what = rows[i].what
        /\ rows'[i].cabinet = rows[i].cabinet /\ rows'[i].alarm = rows[i].alarm
        /\ rows[i].at \in Nat
  <2>1. \A i \in Committed : i \in DOMAIN rows /\ rows[i].state = "in"
    BY DEF Committed
  <2>2. \A i \in Committed : rows[i].at \in Nat
    BY <2>1 DEF LogsInv, AlarmsTypeOK, LogEntry
  <2> QED BY <2>1, <2>2 DEF Kept, Committed
<1>2. \A i \in Committed' : rows'[i].at \in Nat
  BY DEF Committed, LogsInv, AlarmsTypeOK, LogEntry
<1>3. ASSUME NEW source
      PROVE  In(source, s, t)' = In(source, s, t)
  BY <1>1 DEF In, Settled
<1>4. \A i \in Committed : IsSimulated(i)' = IsSimulated(i)
  BY <1>1 DEF IsSimulated
<1>5. ASSUME NEW i \in In("command_audit", s, t)
      PROVE  History(i)' = History(i)
  <2>1. i \in Committed /\ rows[i].at <= t
    BY DEF In
  <2>2. \A j \in Committed' : rows'[j].at < rows'[i].at => j \in Committed
    BY <1>1, <1>2, <2>1 DEF Settled
  <2> QED BY <1>1, <1>4, <2>1, <2>2 DEF History
<1>6. \A source : \A i \in In(source, s, t) : i \in Committed
  BY DEF In
<1>7. CASE rule = "decoy_touch"
  <2> DEFINE key(j) == <<rows[j].who, rows[j].ip, rows[j].at \div DAY>>
             ids == In("decoy_hits", s, t)
  <2>1. PICK k : /\ f = Finding("decoy_touch", k, {j \in ids' : key(j)' = k}, FALSE)
                 /\ k \in {key(j)' : j \in ids'}
    BY <1>7 DEF FindingsOf, DecoyTouch, Grouped, Finding
  <2>2. ids' = ids /\ \A j \in ids : key(j)' = key(j)
    BY <1>1, <1>3, <1>6
  <2>3. FindingsOf(rule, s, t) = {Finding("decoy_touch", l, {j \in ids : key(j) = l}, FALSE) :
                                    l \in {key(j) : j \in ids}}
    BY <1>7 DEF FindingsOf, DecoyTouch, Grouped
  <2> HIDE DEF key, ids
  <2>4. {j \in ids' : key(j)' = k} = {j \in ids : key(j) = k} /\ k \in {key(j) : j \in ids}
    BY <2>1, <2>2
  <2> QED BY <2>1, <2>3, <2>4
<1>8. CASE rule = "login_spray"
  <2> DEFINE key(j) == <<rows[j].ip, BucketOf(rows[j].at, s)>>
             ids == In("auth_audit", s, t)
  <2>1. PICK k : /\ f = Finding("login_spray", k, {j \in ids' : key(j)' = k}, FALSE)
                 /\ k \in {key(j)' : j \in ids'}
                 /\ Cardinality({rows'[j].who : j \in f.evidence}) >= SPRAY_ACCOUNTS
    BY <1>8 DEF FindingsOf, LoginSpray, Grouped, Finding
  <2>2. ids' = ids /\ \A j \in ids : key(j)' = key(j)
    BY <1>1, <1>3, <1>6
  <2>3. FindingsOf(rule, s, t) =
          {g \in {Finding("login_spray", l, {j \in ids : key(j) = l}, FALSE) :
                    l \in {key(j) : j \in ids}} :
             Cardinality({rows[j].who : j \in g.evidence}) >= SPRAY_ACCOUNTS}
    BY <1>8 DEF FindingsOf, LoginSpray, Grouped
  <2>4. \A j \in f.evidence : rows'[j].who = rows[j].who
    BY <1>1, <1>6, <2>1, <2>2 DEF Finding
  <2>5. {rows'[j].who : j \in f.evidence} = {rows[j].who : j \in f.evidence}
    BY <2>4
  <2> HIDE DEF key, ids
  <2>6. {j \in ids' : key(j)' = k} = {j \in ids : key(j) = k} /\ k \in {key(j) : j \in ids}
    BY <2>1, <2>2
  <2> QED BY <2>1, <2>3, <2>5, <2>6
<1>9. CASE rule = "socket_cmd_odd_hour"
  BY <1>1, <1>3, <1>4, <1>6, <1>9 DEF FindingsOf, OddHour, OutletCommandsIn, Finding
<1>10. CASE rule = "socket_cmd_new_ip"
  <2>1. PICK i \in In("command_audit", s, t) :
          /\ f = Finding("socket_cmd_new_ip", <<i>>, {i}, IsSimulated(i)')
          /\ rows'[i].what \in OutletCommands
          /\ History(i)' # {} /\ \A h \in History(i)' : rows'[h].ip # rows'[i].ip
    BY <1>3, <1>10 DEF FindingsOf, NewIp, OutletCommandsIn, Finding
  <2>2. \A h \in History(i) : h \in Committed
    BY DEF History
  <2>3. /\ f = Finding("socket_cmd_new_ip", <<i>>, {i}, IsSimulated(i))
        /\ rows[i].what \in OutletCommands
        /\ History(i) # {} /\ \A h \in History(i) : rows[h].ip # rows[i].ip
    BY <1>1, <1>4, <1>5, <1>6, <2>1, <2>2
  <2> QED BY <1>10, <2>3 DEF FindingsOf, NewIp, OutletCommandsIn
<1>11. CASE rule = "account_new_endpoint"
  <2> DEFINE ids == In("command_audit", s, t)
             isnew(j) == History(j) # {} /\ \A h \in History(j) : rows[h].what # rows[j].what
             key(j) == <<rows[j].who, rows[j].what, rows[j].at \div DAY, IsSimulated(j)>>
             case(j) == Finding("account_new_endpoint", key(j), {j}, IsSimulated(j))
             new == {j \in ids : isnew(j)}
  <2>1. /\ FindingsOf(rule, s, t) =
             {case(j) : j \in {k \in new : \A l \in new : key(l) = key(k) => k <= l}}
        /\ FindingsOf(rule, s, t)' =
             {case(j)' : j \in {k \in new' : \A l \in new' : key(l)' = key(k)' => k <= l}}
    BY <1>11 DEF FindingsOf, NewEndpoint, Finding
  <2>2. ids' = ids
    BY <1>3
  <2>3. ASSUME NEW j \in ids
        PROVE  (isnew(j)' <=> isnew(j)) /\ key(j)' = key(j) /\ case(j)' = case(j)
    <3>1. j \in Committed /\ History(j)' = History(j)
      BY <1>5, <1>6
    <3>2. \A h \in History(j) : h \in Committed
      BY DEF History
    <3>3. isnew(j)' <=> isnew(j)
      BY <1>1, <3>1, <3>2
    <3>4. key(j)' = key(j)
      BY <1>1, <1>4, <3>1
    <3> QED BY <1>4, <3>1, <3>3, <3>4 DEF Finding
  <2>4. new' = new /\ new \subseteq ids
    BY <2>2, <2>3
  <2> HIDE DEF ids, isnew, key, case, new
  <2> QED BY <2>1, <2>2, <2>3, <2>4
<1>12. CASE rule = "door_no_window"
  <2>1. PICK i \in DoorRows(s, t)' : f = Finding("door_no_window", <<i>>, {i}, IsSimulated(i)')
    BY <1>12 DEF FindingsOf, DoorNoWindow, Finding
  <2>2. i \in f.evidence
    BY <2>1 DEF Finding
  <2>3. i \in In("alarm_log", s, t) /\ i \in Committed
    BY <1>3, <1>6, <2>1 DEF DoorRows
  <2>4. i \in DoorRows(s, t)
    <3>1. ~ \E w \in windows' : /\ w.cabinet = rows'[i].cabinet
                                /\ w.from <= rows'[i].at /\ rows'[i].at <= w.to
      BY <2>1 DEF DoorRows, Covered
    <3>2. ~Covered(rows[i].cabinet, rows[i].at)
      BY <1>1, <2>2, <2>3, <3>1 DEF Covered
    <3>3. rows'[i].what = "webhook" /\ EventOf[rows'[i].alarm] = "marina_door"
      BY <2>1 DEF DoorRows
    <3> QED BY <1>1, <2>3, <3>2, <3>3 DEF DoorRows
  <2> QED BY <1>4, <1>12, <2>1, <2>3, <2>4 DEF FindingsOf, DoorNoWindow
<1> QED BY <1>7, <1>8, <1>9, <1>10, <1>11, <1>12 DEF RuleIds

(***************************************************************************)
(* Nothing is missed                                                       *)
(***************************************************************************)

\* What was to be found in rows settled before the last pass is an alarm.
Answered(s) ==
  \A t \in Nat : t + LATE + 1 <= lastPass => \A f \in Due(s, t) : AlarmFor(f) # {}

PassInv ==
  /\ AgentInv /\ lastPass \in Nat /\ lastPass <= now
  /\ \A i \in OpenRows : now <= rows[i].at + LATE
  /\ ~outage => now <= lastPass + GAP /\ Answered(0)
  /\ Answered(Since(lastPass))

\* What a step other than a pass may do: begin or commit rows, switch rules on from now, announce
\* or cancel windows, change the state of alarms.
Aside ==
  /\ LogsInv' /\ AdminsTypeOK' /\ Kept /\ NewlyBegun /\ lastPass' = lastPass
  /\ \A m \in modes' : m \in modes \/ m.since = now
  /\ cancelled \subseteq cancelled' /\ \A w \in windows \ windows' : \E x \in cancelled' : x.window = w
  /\ \A a \in alarms : \E b \in alarms' : b.rule = a.rule /\ b.key = a.key

\* Rows whose time for a commit was over are settled.
LEMMA Settles ==
  ASSUME PassInv, Kept, NewlyBegun, NEW t \in Nat, t + LATE + 1 <= lastPass
  PROVE  Settled(t)
<1>1. now \in Nat /\ LATE \in Nat /\ lastPass \in Nat /\ lastPass <= now
  BY AlarmsAssumption DEF PassInv, AgentInv, LogsInv, AlarmsTypeOK
<1>2. ASSUME NEW i \in Committed', rows'[i].at <= t, i \notin Committed
      PROVE  FALSE
  <2>1. i \in DOMAIN rows' /\ rows'[i].state = "in"
    BY <1>2 DEF Committed
  <2>2. i \in DOMAIN rows
    BY <2>1 DEF NewlyBegun
  <2>3. rows[i].state = "open" /\ rows'[i].at = rows[i].at
    BY <1>2, <2>1, <2>2 DEF Kept, Committed
  <2>4. now <= rows[i].at + LATE
    BY <2>2, <2>3 DEF PassInv, OpenRows
  <2>5. rows[i].at \in Nat
    BY <2>2 DEF PassInv, AgentInv, LogsInv, AlarmsTypeOK, LogEntry
  <2> QED BY <1>1, <1>2, <2>3, <2>4, <2>5
<1> QED BY <1>2 DEF Settled

\* Such a step gives no pass anything to find in settled rows, and takes no alarm away.
LEMMA AsideAnswers ==
  ASSUME PassInv, Aside, NEW s \in Nat, Answered(s)
  PROVE  Answered(s)'
<1>1. now \in Nat /\ LATE \in Nat /\ lastPass \in Nat /\ lastPass <= now
  BY AlarmsAssumption DEF PassInv, AgentInv, LogsInv, AlarmsTypeOK
<1>2. ASSUME NEW t \in Nat, t + LATE + 1 <= lastPass, NEW f \in Due(s, t)'
      PROVE  \E b \in alarms' : b.rule = f.rule /\ b.key = f.key
  <2>1. Settled(t)
    BY <1>2, Settles DEF Aside
  <2>2. PICK n \in modes' : f \in FindingsOf(n.rule, s, t)'
    BY <1>2 DEF Due, Findings
  <2>3. /\ f.evidence # {}
        /\ \A i \in f.evidence : \E m \in modes' : m.rule = f.rule /\ m.since <= rows'[i].at
        /\ \A x \in cancelled', i \in f.evidence : x.window.cabinet # rows'[i].cabinet
    BY <1>2 DEF Due, ActiveAt
  <2>4. f \in FindingsOf(n.rule, s, t) /\ n.rule \in RuleIds
    <3>1. n.rule \in RuleIds
      BY DEF Aside, AdminsTypeOK
    <3>2. \A w \in windows \ windows', i \in f.evidence : w.cabinet # rows'[i].cabinet
      BY <2>3 DEF Aside
    <3> QED BY <2>1, <2>2, <2>3, <3>1, <3>2, FoundBefore DEF PassInv, AgentInv, Aside
  <2>5. f.rule = n.rule
    BY <2>4, FindingFinds
  <2>6. \A i \in f.evidence : i \in Committed /\ rows[i].at <= t
    BY <2>4, EvidenceIn
  <2>7. \A i \in f.evidence : /\ i \in DOMAIN rows /\ rows[i].at \in Nat
                              /\ rows'[i].at = rows[i].at /\ rows'[i].cabinet = rows[i].cabinet
    BY <2>6 DEF Committed, Kept, Aside, PassInv, AgentInv, LogsInv, AlarmsTypeOK, LogEntry
  <2>8. \A i \in f.evidence : \E m \in modes : m.rule = f.rule /\ m.since <= rows[i].at
    <3>1. ASSUME NEW i \in f.evidence
          PROVE  \E m \in modes : m.rule = f.rule /\ m.since <= rows[i].at
      <4>1. PICK m \in modes' : m.rule = f.rule /\ m.since <= rows'[i].at
        BY <2>3
      <4>2. m.since # now
        BY <1>1, <1>2, <2>6, <2>7, <4>1
      <4> QED BY <2>7, <4>1, <4>2 DEF Aside
    <3> QED BY <3>1
  <2>9. f \in Findings(s, t)
    BY <2>3, <2>4, <2>5, <2>8 DEF Findings
  <2>10. f \in Due(s, t)
    BY <2>3, <2>7, <2>8, <2>9 DEF Due, ActiveAt, Aside
  <2>11. \E a \in alarms : a.rule = f.rule /\ a.key = f.key
    BY <1>2, <2>10 DEF Answered, AlarmFor
  <2> QED BY <2>11 DEF Aside
<1> QED BY <1>2 DEF Answered, AlarmFor, Aside

\* The rows of a burst are in one bucket.
LEMMA Bursts ==
  ASSUME LogsInv, NEW f, Finds(f), f.rule = "login_spray",
         NEW i \in f.evidence, NEW j \in f.evidence
  PROVE  rows[i].at < rows[j].at + BUCKET
<1>1. KeyOf("login_spray", i) = KeyOf("login_spray", j) /\ i \in Committed /\ j \in Committed
  BY DEF Finds, Evidence
<1>2. (rows[i].at \div BUCKET) * BUCKET = (rows[j].at \div BUCKET) * BUCKET
  BY <1>1 DEF KeyOf
<1>3. rows[i].at \in Nat /\ rows[j].at \in Nat
  BY <1>1 DEF Committed, LogsInv, AlarmsTypeOK, LogEntry
<1> QED BY <1>2, <1>3, OneBucket

\* After a pass there is an alarm for what its window held, and, unless passes were too far apart,
\* for everything that was settled before it.
LEMMA PassAnswers ==
  ASSUME PassInv, Pass
  PROVE  /\ Answered(Since(lastPass))'
         /\ ~outage' => Answered(0)'
<1>1. /\ lastPass' = now
      /\ UNCHANGED <<now, rows, active, hooks, acks, kinds, snapshot, windows, modes, cancelled, outage>>
  BY DEF Pass, alarmVars
<1>2. /\ LogsInv /\ LogsInv' /\ Kept /\ lastPass \in Nat /\ lastPass <= now
      /\ AdminsTypeOK
  BY <1>1, LogsAlone DEF PassInv, AgentInv, LogsInv, AlarmsTypeOK
<1>3. /\ now \in Nat /\ LATE \in Nat /\ GAP \in Nat /\ WINDOW \in Nat /\ BUCKET \in Nat
      /\ BUCKET > 0 /\ BUCKET + LATE + GAP <= WINDOW
  BY <1>2, AlarmsAssumption, AgentAssumption DEF LogsInv, AlarmsTypeOK
<1> PICK from \in Nat : /\ from = Since(now) /\ from <= now
                        /\ \A at \in Nat : now < at + WINDOW => from <= at
  BY <1>3 DEF Since
<1>4. ASSUME NEW s \in Nat, NEW t \in Nat, NEW f \in Due(s, t)'
      PROVE  /\ f \in Due(s, t) /\ f.rule \in RuleIds /\ IsActive(f.rule) /\ Finds(f)
             /\ f \in FindingsOf(f.rule, s, t) /\ f.evidence # {}
             /\ \A i \in f.evidence : /\ rows[i].at \in Nat /\ s <= rows[i].at /\ rows[i].at <= t
  <2>1. PICK n \in modes : f \in FindingsOf(n.rule, s, t)'
    BY <1>1, <1>4 DEF Due, Findings
  <2>2. n.rule \in RuleIds
    BY <1>2 DEF AdminsTypeOK
  <2>3. Settled(t)
    BY <1>1 DEF Settled, Committed
  <2>4. f.evidence # {}
    BY <1>4 DEF Due
  <2>5. f \in FindingsOf(n.rule, s, t)
    BY <1>1, <1>2, <2>1, <2>2, <2>3, <2>4, FoundBefore
  <2>6. f.rule = n.rule /\ Finds(f)
    BY <2>2, <2>5, FindingFinds
  <2>7. f \in Due(s, t)
    BY <1>1, <1>4, <2>1, <2>5 DEF Due, Findings, ActiveAt
  <2>8. \A i \in f.evidence : i \in Committed /\ s <= rows[i].at /\ rows[i].at <= t
    BY <2>2, <2>5, EvidenceIn
  <2>9. \A i \in f.evidence : rows[i].at \in Nat
    BY <1>2, <2>8 DEF Committed, LogsInv, AlarmsTypeOK, LogEntry
  <2> QED BY <2>1, <2>2, <2>4, <2>5, <2>6, <2>7, <2>8, <2>9 DEF IsActive
<1>5. ASSUME NEW s \in Nat, NEW t \in Nat, NEW f \in Due(s, t)', NEW i \in f.evidence,
             \A j \in f.evidence : j = i \/ f.rule = "login_spray" =>
               from <= rows[j].at /\ rows[j].at <= now
      PROVE  AlarmFor(f)' # {}
  <2>1. f.rule \in RuleIds /\ f \in FindingsOf(f.rule, s, t) /\ IsActive(f.rule)
    BY <1>4, <1>5
  <2>2. PICK g \in FindingsOf(f.rule, from, now) : g.key = f.key
    BY <1>2, <1>5, <2>1, FoundAlso
  <2>3. g.rule = f.rule
    BY <2>1, <2>2, FindingFinds
  <2>4. g \in Findings(Since(now), now)
    BY <2>1, <2>2 DEF Findings, IsActive
  <2>5. \E b \in alarms' : b.rule = g.rule /\ b.key = g.key
    <3>1. CASE AlarmFor(g) = {}
      <4> DEFINE new == [rule |-> g.rule, key |-> g.key, evidence |-> g.evidence,
                         simulated |-> g.simulated, at |-> now, state |-> "open"]
      <4>1. new \in alarms'
        BY <2>4, <3>1 DEF Pass
      <4>2. new.rule = g.rule /\ new.key = g.key
        OBVIOUS
      <4> QED BY <4>1, <4>2
    <3>2. CASE AlarmFor(g) # {}
      BY <3>2 DEF Pass, AlarmFor
    <3> QED BY <3>1, <3>2
  <2> QED BY <2>2, <2>3, <2>5 DEF AlarmFor
<1>6. Answered(from)'
  <2>1. ASSUME NEW t \in Nat, t + LATE + 1 <= now, NEW f \in Due(from, t)'
        PROVE  AlarmFor(f)' # {}
    <3>1. PICK i : i \in f.evidence
      BY <1>4, <2>1
    <3>2. \A j \in f.evidence : from <= rows[j].at /\ rows[j].at <= now
      BY <1>3, <1>4, <2>1
    <3> QED BY <1>5, <2>1, <3>1, <3>2
  <2> QED BY <1>1, <2>1 DEF Answered
<1>7. ASSUME ~outage, NEW t \in Nat, t + LATE + 1 <= now, NEW f \in Due(0, t)'
      PROVE  AlarmFor(f)' # {}
  <2>1. /\ f \in Due(0, t) /\ f.rule \in RuleIds /\ f \in FindingsOf(f.rule, 0, t) /\ Finds(f)
        /\ f.evidence # {} /\ \A i \in f.evidence : rows[i].at \in Nat /\ rows[i].at <= t
    BY <1>4, <1>7
  <2>2. now <= lastPass + GAP /\ Answered(0)
    BY <1>7 DEF PassInv
  <2>3. AlarmFor(f) # {} => AlarmFor(f)' # {}
    BY DEF Pass, AlarmFor
  <2>4. CASE t + LATE + 1 <= lastPass
    BY <2>1, <2>2, <2>3, <2>4 DEF Answered
  <2>5. CASE ~(t + LATE + 1 <= lastPass) /\ \A i \in f.evidence : rows[i].at + LATE + 1 <= lastPass
    <3>1. PICK i : i \in f.evidence
      BY <2>1
    <3>2. PICK u \in Nat : u + LATE + 1 = lastPass
      <4>1. lastPass - (LATE + 1) \in Nat
        BY <1>2, <1>3, <2>1, <2>5, <3>1
      <4> QED BY <1>2, <1>3, <4>1
    <3>3. u <= t /\ \A j \in f.evidence : rows[j].at <= u
      BY <1>2, <1>3, <2>1, <2>5, <3>2
    <3>4. f \in FindingsOf(f.rule, 0, u)
      BY <1>2, <2>1, <3>3, FoundEarlier
    <3>5. IsActive(f.rule)
      BY <1>4, <1>7
    <3>6. f \in Due(0, u)
      BY <2>1, <3>4, <3>5 DEF Due, Findings, IsActive
    <3> QED BY <1>3, <2>2, <2>3, <3>2, <3>6 DEF Answered
  <2>6. CASE \E i \in f.evidence : ~(rows[i].at + LATE + 1 <= lastPass)
    <3>1. PICK i \in f.evidence : ~(rows[i].at + LATE + 1 <= lastPass)
      BY <2>6
    <3>2. ASSUME NEW j \in f.evidence, j = i \/ f.rule = "login_spray"
          PROVE  from <= rows[j].at /\ rows[j].at <= now
      <4>1. rows[i].at \in Nat /\ rows[j].at \in Nat /\ rows[j].at <= t
        BY <2>1
      <4>2. rows[i].at < rows[j].at + BUCKET
        BY <1>2, <1>3, <2>1, <3>2, <4>1, Bursts
      <4>3. now < rows[j].at + WINDOW
        BY <1>2, <1>3, <2>2, <3>1, <4>1, <4>2
      <4> QED BY <1>3, <1>7, <4>1, <4>3
    <3> QED BY <1>5, <1>7, <3>2
  <2> QED BY <2>4, <2>5, <2>6
<1>8. Since(lastPass)' = from
  BY <1>1 DEF Since
<1> QED BY <1>1, <1>6, <1>7, <1>8 DEF Answered

\* Every step but a pass is aside.
LEMMA Asides ==
  ASSUME AgentInv, [AgentNext]_securityVars, ~Pass
  PROVE  Aside
<1>1. LogsInv' /\ AdminsTypeOK'
  <2>1. AgentInv'
    BY AgentStep
  <2> QED BY <2>1 DEF AgentInv
<1>2. now \in Nat
  BY DEF AgentInv, LogsInv, AlarmsTypeOK
<1>3. CASE AlarmsStep /\ UNCHANGED agentVars
  <2>1. Kept /\ NewlyBegun
    BY <1>3, LogsStep DEF AgentInv, Stepped
  <2> QED BY <1>1, <1>3, <2>1 DEF Aside, agentVars
<1>4. CASE TimePasses
  <2>1. Kept /\ NewlyBegun
    BY <1>4, TimeSteps DEF AgentInv, TimePasses
  <2> QED BY <1>1, <1>4, <2>1 DEF Aside, TimePasses
<1>5. ASSUME UNCHANGED <<now, rows, active, hooks, acks>>
      PROVE  Kept /\ NewlyBegun
  <2>1. kinds' \subseteq Steps
    BY <1>1 DEF LogsInv, AlarmsTypeOK
  <2> QED BY <1>5, <2>1, LogsAlone
<1>6. CASE SetRuleMode \/ StatusPolled
  <2>1. /\ UNCHANGED <<now, rows, active, hooks, acks>>
        /\ UNCHANGED <<windows, cancelled, alarms, lastPass>>
    BY <1>6 DEF SetRuleMode, StatusPolled
  <2>2. \A m \in modes' : m \in modes \/ m.since = now
    BY <1>6 DEF SetRuleMode, StatusPolled
  <2> QED BY <1>1, <1>5, <2>1, <2>2 DEF Aside
<1>7. CASE Decides \/ Announce
  <2>1. /\ UNCHANGED <<now, rows, active, hooks, acks>>
        /\ UNCHANGED <<modes, cancelled, alarms, lastPass>> /\ windows \subseteq windows'
    BY <1>7 DEF Decides, Announce
  <2> QED BY <1>1, <1>5, <2>1 DEF Aside
<1>8. CASE CancelReads \/ CancelCommits
  <2>1. /\ UNCHANGED <<now, rows, active, hooks, acks>>
        /\ UNCHANGED <<modes, alarms, lastPass>>
    BY <1>8 DEF CancelReads, CancelCommits, alarmVars
  <2>2. cancelled \subseteq cancelled' /\ \A w \in windows \ windows' : \E x \in cancelled' : x.window = w
    <3>1. CASE CancelReads
      BY <3>1 DEF CancelReads
    <3>2. CASE CancelCommits
      <4>1. PICK c \in cancelling : /\ windows' = windows \ {c.window}
                                    /\ cancelled' = cancelled \union {[window |-> c.window, at |-> now]}
        BY <3>2 DEF CancelCommits
      <4> QED BY <4>1
    <3> QED BY <1>8, <3>1, <3>2
  <2> QED BY <1>1, <1>5, <2>1, <2>2 DEF Aside
<1>9. CASE Decided
  <2>1. /\ UNCHANGED <<now, rows, active, hooks, acks>>
        /\ UNCHANGED <<modes, windows, cancelled, lastPass>>
    BY <1>9 DEF Decided, alarmVars
  <2>2. PICK a, to : alarms' = (alarms \ {a}) \union {[a EXCEPT !.state = to]}
    BY <1>9 DEF Decided
  <2>3. PICK b : b = [a EXCEPT !.state = to]
    OBVIOUS
  <2>4. a \in alarms => b.rule = a.rule /\ b.key = a.key
    <3>1. a \in alarms =>
            a = [rule |-> a.rule, key |-> a.key, evidence |-> a.evidence, simulated |-> a.simulated,
                 at |-> a.at, state |-> a.state]
      BY DEF AgentInv, IsCase
    <3> QED BY <2>3, <3>1
  <2> QED BY <1>1, <1>5, <2>1, <2>2, <2>3, <2>4 DEF Aside
<1>10. CASE UNCHANGED securityVars
  <2>1. /\ UNCHANGED <<now, rows, active, hooks, acks>>
        /\ UNCHANGED <<modes, windows, cancelled, alarms, lastPass>>
    BY <1>10 DEF securityVars, alarmVars, agentVars
  <2> QED BY <1>1, <1>5, <2>1 DEF Aside
<1> QED BY <1>3, <1>4, <1>6, <1>7, <1>8, <1>9, <1>10 DEF AgentNext

\* Every step keeps it: a pass answers anew, the others take nothing from what was answered.
LEMMA PassInvStep ==
  ASSUME PassInv, [AgentNext]_securityVars
  PROVE  PassInv'
<1>1. AgentInv /\ AgentInv'
  BY AgentStep DEF PassInv
<1>2. /\ now \in Nat /\ now' \in Nat /\ LATE \in Nat /\ GAP \in Nat /\ WINDOW \in Nat
      /\ lastPass \in Nat /\ lastPass <= now
  BY <1>1, AlarmsAssumption, AgentAssumption DEF PassInv, AgentInv, LogsInv, AlarmsTypeOK
<1>3. CASE Pass
  <2>1. UNCHANGED <<now, rows, outage>> /\ lastPass' = now
    BY <1>3 DEF Pass, alarmVars
  <2>2. Answered(Since(lastPass))' /\ (~outage' => Answered(0)')
    BY <1>3, PassAnswers
  <2>3. \A i \in OpenRows' : now' <= rows'[i].at + LATE
    BY <2>1 DEF PassInv, OpenRows
  <2> QED BY <1>1, <1>2, <2>1, <2>2, <2>3 DEF PassInv
<1>4. CASE ~Pass
  <2>1. Aside
    BY <1>1, <1>4, Asides
  <2>2. lastPass' = lastPass
    BY <2>1 DEF Aside
  <2>3. Since(lastPass) \in Nat /\ Since(lastPass)' = Since(lastPass)
    BY <1>2, <2>2 DEF Since
  <2>4. Answered(Since(lastPass))'
    <3>1. PICK s \in Nat : s = Since(lastPass)
      BY <2>3
    <3>2. Answered(s)'
      BY <2>1, <3>1, AsideAnswers DEF PassInv
    <3> QED BY <2>3, <3>1, <3>2 DEF Answered
  <2>5. \A i \in OpenRows' : (i \in OpenRows /\ rows'[i].at = rows[i].at) \/ rows'[i].at = now
    BY <2>1 DEF Aside, Kept, NewlyBegun, OpenRows
  <2>6. \A i \in OpenRows : rows[i].at \in Nat /\ rows[i].at <= now
    BY <1>1 DEF OpenRows, AgentInv, LogsInv, AlarmsTypeOK, LogEntry
  <2>7. CASE TimePasses
    <3>1. /\ now' = now + 1 /\ \A i \in OpenRows : now + 1 - rows[i].at <= LATE
          /\ rows' = rows /\ outage' = (outage \/ now + 1 - lastPass > GAP)
      BY <2>7 DEF TimePasses, Advance
    <3>2. \A i \in OpenRows' : now' <= rows'[i].at + LATE
      BY <1>2, <2>6, <3>1 DEF OpenRows
    <3>3. ~outage' => ~outage /\ now' <= lastPass' + GAP
      <4>1. ~outage' => ~outage /\ ~(now + 1 - lastPass > GAP)
        BY <3>1, Zenon
      <4> QED BY <1>2, <2>2, <3>1, <4>1
    <3>4. ~outage' => Answered(0)'
      BY <2>1, <3>3, AsideAnswers DEF PassInv
    <3> QED BY <1>1, <1>2, <2>2, <2>4, <3>1, <3>2, <3>3, <3>4 DEF PassInv
  <2>8. CASE ~TimePasses
    <3>1. now' = now /\ outage' = outage
      <4>1. CASE AlarmsStep /\ UNCHANGED agentVars
        BY <1>1, <4>1, LogsStep DEF AgentInv, Stepped, agentVars
      <4>2. CASE UNCHANGED securityVars
        BY <4>2 DEF securityVars, alarmVars, agentVars
      <4> QED BY <1>4, <2>8, <4>1, <4>2 DEF AgentNext, SetRuleMode, StatusPolled, Decides, Decided,
                 Announce, CancelReads, CancelCommits, alarmVars
    <3>2. \A i \in OpenRows' : now' <= rows'[i].at + LATE
      <4>1. \A i \in OpenRows : now <= rows[i].at + LATE
        BY DEF PassInv
      <4> QED BY <1>2, <2>5, <3>1, <4>1
    <3>3. ~outage' => now' <= lastPass' + GAP /\ Answered(0)'
      BY <2>1, <2>2, <3>1, AsideAnswers DEF PassInv
    <3> QED BY <1>1, <1>2, <2>2, <2>4, <3>1, <3>2, <3>3 DEF PassInv
  <2> QED BY <2>7, <2>8
<1> QED BY <1>3, <1>4

\* Before the first pass nothing is settled.
LEMMA PassStarts ==
  ASSUME AgentInit
  PROVE  PassInv
<1>1. AgentInv
  BY AgentStarts
<1>2. now = 0 /\ lastPass = 0 /\ rows = <<>> /\ LATE \in Nat /\ GAP \in Nat
  BY AlarmsAssumption, AgentAssumption DEF AgentInit, AlarmsInit
<1>3. \A s : Answered(s)
  BY <1>2 DEF Answered
<1> QED BY <1>1, <1>2, <1>3 DEF PassInv, OpenRows

\* AlarmOrOutage: a pass answers for its window, which reaches back over a bucket, a late commit
\* and the time since the pass before, so each pass takes over from the one before.
THEOREM NothingMissed == AgentSpec => []AlarmOrOutage
<1>1. PassInv => AlarmOrOutage
  <2>1. SUFFICES ASSUME PassInv
                 PROVE  AlarmOrOutage
    OBVIOUS
  <2>2. /\ now \in Nat /\ lastPass \in Nat /\ lastPass <= now /\ LATE \in Nat /\ GAP \in Nat
        /\ AGENT_FRESH_FOR \in Nat
    <3>1. LogsInv /\ lastPass \in Nat /\ lastPass <= now
      BY <2>1 DEF PassInv, AgentInv
    <3> QED BY <3>1, AlarmsAssumption, AgentAssumption DEF LogsInv, AlarmsTypeOK
  <2>3. ASSUME ~outage, now >= LATE + GAP + 1, NEW f \in Due(0, now - (LATE + GAP + 1))
        PROVE  AlarmFor(f) # {}
    <3>1. PICK t \in Nat : t = now - (LATE + GAP + 1)
      BY <2>2, <2>3
    <3>2. t + LATE + 1 <= lastPass /\ Answered(0)
      <4>1. now <= lastPass + GAP /\ Answered(0)
        BY <2>1, <2>3 DEF PassInv
      <4> QED BY <2>2, <2>3, <3>1, <4>1
    <3> QED BY <2>3, <3>1, <3>2 DEF Answered
  <2>4. ASSUME SecurityCard.fresh, now >= LATE + AGENT_FRESH_FOR + 1,
               NEW f \in Due(Since(lastPass), now - (LATE + AGENT_FRESH_FOR + 1))
        PROVE  AlarmFor(f) # {}
    <3>1. now - lastPass <= AGENT_FRESH_FOR
      BY <2>4 DEF SecurityCard
    <3>2. PICK t \in Nat : t = now - (LATE + AGENT_FRESH_FOR + 1)
      BY <2>2, <2>4
    <3>3. t + LATE + 1 <= lastPass /\ Answered(Since(lastPass))
      BY <2>1, <2>2, <3>1, <3>2 DEF PassInv
    <3> QED BY <2>4, <3>2, <3>3 DEF Answered
  <2> QED BY <2>3, <2>4 DEF AlarmOrOutage
<1>2. AgentInit => PassInv
  BY PassStarts
<1>3. PassInv /\ [AgentNext]_securityVars => PassInv'
  BY PassInvStep
<1> QED BY <1>1, <1>2, <1>3, PTL DEF AgentSpec
=============================================================================
