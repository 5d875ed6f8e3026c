--------------------------- MODULE CollectorProofs ---------------------------
(***************************************************************************)
(* One process collects, for any processes, servers, cabinets, tasks and   *)
(* intervals, and any number of crashes and failed queries.                *)
(***************************************************************************)
EXTENDS Collector, TLAPS

\* Inductive: who leads is the one that holds the lock, until a connection was lost.
LeaderHolds == lost \/ \A p \in Processes : leader[p] => lock = p

Inv == TypeOK /\ LeaderHolds

LEMMA EveryType ==
  ASSUME NEW k \in Keys
  PROVE  EVERY[k[1]] \in Nat
<1>1. k[1] \in Tasks
  BY DEF Keys, Tasks
<1> QED BY <1>1, CollectorAssumption

LEMMA OlderType ==
  ASSUME NEW k \in Keys, NEW n \in Nat, NEW time
  PROVE  Older(n, k, time) \in Nat /\ Older(n, k, time) <= EVERY[k[1]]
BY EveryType DEF Older, Short

LEMMA InitInv == Init => Inv
BY EveryType DEF Init, Inv, TypeOK, LeaderHolds, NeverRan

\* The lock is free when it is taken: nobody leads, unless a connection was lost.
LEMMA TakeLeadershipInv ==
  ASSUME Inv, NEW p \in Processes, TakeLeadership(p)
  PROVE  Inv'
<1>1. TypeOK'
  BY DEF Inv, TypeOK, TakeLeadership
<1>2. LeaderHolds'
  BY CollectorAssumption DEF Inv, TypeOK, LeaderHolds, TakeLeadership, MayLead
<1> QED BY <1>1, <1>2 DEF Inv

LEMMA LockQueryFailsInv ==
  ASSUME Inv, NEW p \in Processes, LockQueryFails(p)
  PROVE  Inv'
BY DEF Inv, TypeOK, LeaderHolds, LockQueryFails

LEMMA LoseConnectionInv ==
  ASSUME Inv, NEW p \in Processes, LoseConnection(p)
  PROVE  Inv'
BY DEF Inv, TypeOK, LeaderHolds, LoseConnection

\* A process that dies leads no more, and gives up the lock only if it was its own.
LEMMA CrashInv ==
  ASSUME Inv, NEW p \in Processes, Crash(p)
  PROVE  Inv'
<1>1. TypeOK'
  BY EveryType DEF Inv, TypeOK, Crash, Forgets, NeverRan
<1>2. LeaderHolds'
  BY DEF Inv, TypeOK, LeaderHolds, Crash, Forgets
<1> QED BY <1>1, <1>2 DEF Inv

LEMMA RestartInv ==
  ASSUME Inv, NEW p \in Processes, Restart(p)
  PROVE  Inv'
BY DEF Inv, TypeOK, LeaderHolds, Restart

LEMMA TickBeginsInv ==
  ASSUME Inv, NEW p \in Processes, TickBegins(p)
  PROVE  Inv'
<1>1. PICK time \in {"short", "long"} :
        age' = [age EXCEPT ![p] = [k \in Keys |-> Older(age[p][k], k, time)]]
  BY DEF TickBegins
<1>2. age' \in [Processes -> [Keys -> Nat]]
      /\ \A q \in Processes, k \in Keys : age'[q][k] <= EVERY[k[1]]
  BY <1>1, OlderType DEF Inv, TypeOK
<1>3. UNCHANGED <<up, thread, lock, leader, lost>>
  BY DEF TickBegins
<1> QED BY <1>2, <1>3 DEF Inv, TypeOK, LeaderHolds

LEMMA MarkedType ==
  ASSUME Inv, NEW p \in Processes, NEW k
  PROVE  /\ Marked(p, k) \in [Processes -> [Keys -> Nat]]
         /\ \A q \in Processes, l \in Keys : Marked(p, k)[q][l] <= EVERY[l[1]]
<1>1. [age EXCEPT ![p][k] = 0] \in [Processes -> [Keys -> Nat]]
  BY DEF Inv, TypeOK
<1>2. \A q \in Processes, l \in Keys :
        [age EXCEPT ![p][k] = 0][q][l] \in {0, age[q][l]}
  BY DEF Inv, TypeOK
<1>3. \A q \in Processes, l \in Keys : [age EXCEPT ![p][k] = 0][q][l] <= EVERY[l[1]]
  BY <1>2, EveryType DEF Inv, TypeOK
<1> QED BY <1>1, <1>3 DEF Marked, Inv, TypeOK

LEMMA RunTaskInv ==
  ASSUME Inv, NEW p \in Processes, NEW s \in Servers, RunTask(p, s)
  PROVE  Inv'
<1>1. PICK k : age' = Marked(p, k)
  BY DEF RunTask
<1>2. UNCHANGED <<up, thread, lock, leader, lost>>
  BY DEF RunTask
<1> QED BY <1>1, <1>2, MarkedType DEF Inv, TypeOK, LeaderHolds

LEMMA ServerDoneInv ==
  ASSUME Inv, NEW p \in Processes, NEW s \in Servers, ServerDone(p, s)
  PROVE  Inv'
BY DEF Inv, TypeOK, LeaderHolds, ServerDone

LEMMA StepInv ==
  ASSUME Inv, [Next]_vars
  PROVE  Inv'
<1>1. CASE Next
  BY <1>1, TakeLeadershipInv, LockQueryFailsInv, LoseConnectionInv, CrashInv, RestartInv,
     TickBeginsInv, RunTaskInv, ServerDoneInv DEF Next
<1>2. CASE UNCHANGED vars
  BY <1>2 DEF vars, Inv, TypeOK, LeaderHolds
<1> QED BY <1>1, <1>2

THEOREM InvHolds == Spec => []Inv
BY InitInv, StepInv, PTL DEF Spec

\* Types, and only a process whose collector runs leads.
THEOREM TypesHold == Spec => []TypeOK
<1>1. Inv => TypeOK
  BY DEF Inv
<1> QED BY <1>1, InvHolds, PTL

\* Leadership (collector.py, _take_leadership): two processes never collect at the same time
\* unless a connection that holds the lock was lost.
THEOREM OneCollectorHolds == Spec => []OneCollector
<1>1. Inv => OneCollector
  BY DEF Inv, LeaderHolds, OneCollector
<1> QED BY <1>1, InvHolds, PTL

\* Until then, the process that leads holds the lock: a standby's query is refused.
THEOREM LeaderHoldsLock == Spec => []LeaderHolds
<1>1. Inv => LeaderHolds
  BY DEF Inv
<1> QED BY <1>1, InvHolds, PTL
=============================================================================
