------------------------------- MODULE Collector -------------------------------
(***************************************************************************)
(* services/collector.py: which process collects (an advisory lock held on *)
(* a connection of its own) and what it runs when.  What the tasks do to   *)
(* the data is in Metering, SessionReconciliation and Alarms.              *)
(*                                                                         *)
(* A tick polls the servers at the same time and the tasks of a server in  *)
(* order; a task that raises ends its server's tick.  Time passes between  *)
(* the beginnings of two ticks: little, or, when a dead server makes the   *)
(* tick wait out its timeouts, more than any interval.                     *)
(***************************************************************************)
EXTENDS Naturals, Sequences

CONSTANTS
  Processes, Servers,
  CabinetsOf,      \* CabinetsOf[s]: the cabinets of server s by id
  ServerTasks,     \* health, sessions, alarms, berths
  CabinetTasks,    \* load, status, reconcile
  EVERY,           \* EVERY[task], in units of a short tick
  Simulated,       \* cabinets that are not reconciled
  Raises,          \* keys of tasks that always raise
  None,
  MaxSurprises     \* bound: crashes, lost connections, failed queries in one behaviour

Short == 1      \* time between the beginnings of two ticks that do not wait

Range(f) == {f[x] : x \in DOMAIN f}
Cabinets == UNION {Range(CabinetsOf[s]) : s \in Servers}
Tasks == Range(ServerTasks) \union Range(CabinetTasks)
Keys  == (Range(ServerTasks) \X Servers) \union (Range(CabinetTasks) \X Cabinets)

ASSUME CollectorAssumption ==
  /\ CabinetsOf \in [Servers -> Seq(Cabinets)] /\ EVERY \in [Tasks -> Nat]
  /\ \A t \in Tasks : EVERY[t] > Short
  /\ Raises \subseteq Keys /\ MaxSurprises \in Nat /\ None \notin Processes

VARIABLES
  up,         \* up[p]: the process runs
  thread,     \* thread[p]: so does its collector
  lock,       \* the process whose connection holds the advisory lock, or None
  leader,     \* leader[p]: it took the lock once
  age,        \* age[p][k]: since k last ran in p, at most EVERY
  todo,       \* todo[p][s]: what is left of the tick of server s
  nightly,    \* nightly[p]: this tick is the wide pass
  tonight,    \* tonight[p]: the wide pass of this date has begun
  last,       \* the last thing done: a tick's beginning, a task
  lost,       \* a connection was lost
  surprises

vars == <<up, thread, lock, leader, age, todo, nightly, tonight, last, lost, surprises>>

(***************************************************************************)
(* The order of a tick                                                     *)
(***************************************************************************)

Places(s) == 1 .. Len(ServerTasks) + Len(CabinetTasks) * Len(CabinetsOf[s])

\* The i-th thing a tick may do on server s: its own tasks, then those of each cabinet.
KeyAt(s, i) ==
  LET n == Len(ServerTasks)
      j == i - n - 1
  IN IF i <= n THEN <<ServerTasks[i], s>>
     ELSE <<CabinetTasks[1 + (j % Len(CabinetTasks))],
            CabinetsOf[s][1 + (j \div Len(CabinetTasks))]>>

\* _is_due, and the wide pass; a simulated cabinet has nothing to reconcile.
IsDue(p, k) ==
  /\ age[p][k] >= EVERY[k[1]] \/ (nightly[p] /\ k[1] = "reconcile")
  /\ ~(k[1] = "reconcile" /\ k[2] \in Simulated)

DuePlaces(p, s) == {i \in Places(s) : i >= todo[p][s] /\ IsDue(p, KeyAt(s, i))}

Idle == [s \in Servers |-> 0]
NeverRan == [k \in Keys |-> EVERY[k[1]]]

(***************************************************************************)
(* Leadership                                                              *)
(***************************************************************************)

\* Mutant: the answer of pg_try_advisory_lock is not looked at.
MayLead_Anybody(p) == TRUE

\* _take_leadership: tried once, and again by a standby; never checked again.
MayLead(p) == lock = None

TakeLeadership(p) ==
  /\ up[p] /\ thread[p] /\ ~leader[p] /\ MayLead(p)
  /\ lock' = p /\ leader' = [leader EXCEPT ![p] = TRUE]
  /\ UNCHANGED <<up, thread, age, todo, nightly, tonight, last, lost, surprises>>

Surprise == surprises < MaxSurprises /\ surprises' = surprises + 1

\* The query for the lock raises: nothing catches it and the collector's thread ends.
LockQueryFails(p) ==
  /\ Surprise /\ up[p] /\ thread[p] /\ ~leader[p]
  /\ thread' = [thread EXCEPT ![p] = FALSE]
  /\ UNCHANGED <<up, lock, leader, age, todo, nightly, tonight, last, lost>>

\* The connection that holds the lock drops: the database gives it to the next who asks.
LoseConnection(p) ==
  /\ Surprise /\ lock = p /\ lock' = None /\ lost' = TRUE
  /\ UNCHANGED <<up, thread, leader, age, todo, nightly, tonight, last>>

\* Mutant: the lock is a row in a table, and stays when its holder dies.
Forgets_KeepsLock(p) ==
  /\ leader' = [leader EXCEPT ![p] = FALSE] /\ lock' = lock
  /\ age' = [age EXCEPT ![p] = NeverRan] /\ todo' = [todo EXCEPT ![p] = Idle]
  /\ nightly' = [nightly EXCEPT ![p] = FALSE] /\ tonight' = [tonight EXCEPT ![p] = FALSE]

\* What a process that dies takes with it: the lock, which is its connection's, and all
\* schedules.
Forgets(p) ==
  /\ leader' = [leader EXCEPT ![p] = FALSE] /\ lock' = IF lock = p THEN None ELSE lock
  /\ age' = [age EXCEPT ![p] = NeverRan] /\ todo' = [todo EXCEPT ![p] = Idle]
  /\ nightly' = [nightly EXCEPT ![p] = FALSE] /\ tonight' = [tonight EXCEPT ![p] = FALSE]

Crash(p) ==
  /\ Surprise /\ up[p] /\ up' = [up EXCEPT ![p] = FALSE]
  /\ thread' = [thread EXCEPT ![p] = FALSE] /\ Forgets(p) /\ UNCHANGED <<last, lost>>

Restart(p) ==
  /\ ~up[p] /\ up' = [up EXCEPT ![p] = TRUE] /\ thread' = [thread EXCEPT ![p] = TRUE]
  /\ UNCHANGED <<lock, leader, age, todo, nightly, tonight, last, lost, surprises>>

(***************************************************************************)
(* A tick                                                                  *)
(***************************************************************************)

Older(n, k, time) == IF time = "long" \/ n + Short >= EVERY[k[1]] THEN EVERY[k[1]] ELSE n + Short

\* tick begins, this long after the last one did, in the hour of the wide pass or not.
TickBegins(p) ==
  \E time \in {"short", "long"}, hour \in BOOLEAN :
    /\ leader[p] /\ todo[p] = Idle
    /\ age' = [age EXCEPT ![p] = [k \in Keys |-> Older(age[p][k], k, time)]]
    /\ nightly' = [nightly EXCEPT ![p] = hour /\ ~tonight[p]]
    /\ tonight' = [tonight EXCEPT ![p] = hour]
    /\ todo' = [todo EXCEPT ![p] = [s \in Servers |-> 1]]
    /\ last' = <<"tick", time>>
    /\ UNCHANGED <<up, thread, lock, leader, lost, surprises>>

\* Mutant: a task is marked when it has run, not before.
Marked_AfterRun(p, k) ==
  IF k \in Raises THEN age ELSE [age EXCEPT ![p][k] = 0]

\* A task is marked before it runs; the wide pass does not mark (no _is_due is called).
Marked(p, k) ==
  IF nightly[p] /\ k[1] = "reconcile" THEN age ELSE [age EXCEPT ![p][k] = 0]

\* The next task of the tick of server s that is due; if it raises the others are left.
RunTask(p, s) ==
  /\ todo[p][s] \in Places(s) /\ DuePlaces(p, s) # {}
  /\ LET i == CHOOSE x \in DuePlaces(p, s) : \A y \in DuePlaces(p, s) : x <= y
         k == KeyAt(s, i)
     IN /\ age' = Marked(p, k)
        /\ last' = k
        /\ todo' = [todo EXCEPT ![p][s] = IF k \in Raises THEN 0 ELSE i + 1]
  /\ UNCHANGED <<up, thread, lock, leader, nightly, tonight, lost, surprises>>

\* Nothing more is due on the server; when every server is done the tick is.
ServerDone(p, s) ==
  /\ todo[p][s] # 0 /\ DuePlaces(p, s) = {}
  /\ todo' = [todo EXCEPT ![p][s] = 0]
  /\ UNCHANGED <<up, thread, lock, leader, age, nightly, tonight, last, lost, surprises>>

Init ==
  /\ up = [p \in Processes |-> TRUE] /\ thread = up /\ lock = None
  /\ leader = [p \in Processes |-> FALSE]
  /\ age = [p \in Processes |-> NeverRan] /\ todo = [p \in Processes |-> Idle]
  /\ nightly = leader /\ tonight = leader /\ last = None /\ lost = FALSE /\ surprises = 0

Next == \E p \in Processes :
  \/ TakeLeadership(p) \/ LockQueryFails(p) \/ LoseConnection(p) \/ Crash(p) \/ Restart(p)
  \/ TickBegins(p) \/ \E s \in Servers : RunTask(p, s) \/ ServerDone(p, s)

\* The loop ticks on, the event loop runs every server's task, a standby asks again, a
\* process that died is restarted.
Fairness == \A p \in Processes :
  /\ WF_vars(TakeLeadership(p)) /\ WF_vars(TickBegins(p)) /\ WF_vars(Restart(p))
  /\ \A s \in Servers : WF_vars(RunTask(p, s)) /\ WF_vars(ServerDone(p, s))

Spec == Init /\ [][Next]_vars /\ Fairness

(***************************************************************************)
(* Properties                                                              *)
(***************************************************************************)

\* Types of the variables; only a process that runs leads.
TypeOK ==
  /\ up \in [Processes -> BOOLEAN] /\ thread \in [Processes -> BOOLEAN]
  /\ lock \in Processes \union {None} /\ leader \in [Processes -> BOOLEAN]
  /\ age \in [Processes -> [Keys -> Nat]] /\ \A p \in Processes, k \in Keys : age[p][k] <= EVERY[k[1]]
  /\ \A p \in Processes : leader[p] => up[p] /\ thread[p]

\* One process collects, until the connection that holds the lock drops: leadership is taken
\* once and never checked again.
OneCollector == lost \/ \A p, q \in Processes : leader[p] /\ leader[q] => p = q

\* Every cabinet is reconciled again and again: a task that always raises does not starve the
\* cabinets behind it on its server, because it is marked before it runs, as long as some ticks
\* are short; crashes and failovers end, and a standby whose query for the lock failed is
\* not the only process left.
EveryCabinetPolled ==
  []<>(last = <<"tick", "short">>) /\ <>[](\E p \in Processes : leader[p])
    => \A c \in Cabinets \ Simulated :
         <<"reconcile", c>> \in Raises \/ []<>(last = <<"reconcile", c>>)

\* Unless every collector's thread has ended, somebody collects in the end.
SomebodyCollects ==
  <>[](\E p \in Processes : leader[p]) \/ <>[](\A p \in Processes : ~thread[p])
=============================================================================
