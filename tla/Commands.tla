------------------------------- MODULE Commands -------------------------------
(***************************************************************************)
(* Operator commands over the cabinet client: routers/controls.py,         *)
(* routers/_cabinet.py, services/command_audit.py, the alarm               *)
(* acknowledgement of routers/alarms.py and the reference photo of         *)
(* routers/berth_detail.py with its record (services/reference_photo.py).  *)
(*                                                                         *)
(* A command writes its command_audit row, commits, calls the cabinet and  *)
(* completes the row.  The process may die anywhere in between; requests   *)
(* it sent stay on their way, rows it committed stay in the table.         *)
(*                                                                         *)
(* A request the ERP turns away before it does anything (no reason, no     *)
(* cabinet, no access, a pedestal of another cabinet) changes nothing and  *)
(* is a request not made.  Which cabinets a marina has is fixed here.      *)
(***************************************************************************)
EXTENDS CabinetClient

CONSTANTS
  Processes, ProcessOf,     \* ProcessOf[c]: the process a client lives in
  Marinas, MarinaOf,        \* MarinaOf[s]
  Simulated                 \* cabinets.is_simulated

\* A command_audit row, by its outcome.
NoOutcome == "none"
DemoCode  == "demo_marina_real_cabinet"
Row == [outcome : Codes \union {NoOutcome, DemoCode}]

ASSUME CommandsAssumption ==
  /\ None \notin Row
  /\ ProcessOf \in [Clients -> Processes]
  /\ MarinaOf \in [Servers -> Marinas]
  /\ Simulated \subseteq Servers

VARIABLES
  audit,         \* audit[r]: None or the command_audit row
  record,        \* record[s]: the P1 record 'reference_upload' is there and available
  flow,          \* an upload between two awaits of its handler
  photos         \* vessel_photos: uploads with their outcome

vars == <<clientVars, audit, record, flow, photos>>

IsDemo(marina) == \E s \in Simulated : MarinaOf[s] = marina
RealInDemo(s)  == s \notin Simulated /\ IsDemo(MarinaOf[s])

Audits(r)  == Op[r] \in Commands \union {"push_photo"}
Written(r) == audit' = [audit EXCEPT ![r] = [outcome |-> NoOutcome]]

(***************************************************************************)
(* Requests                                                                *)
(***************************************************************************)

\* Reads, and what the reconciler asks on channel B.
Read(r) ==
  /\ IsGet(r) \/ IsNfc(r)
  /\ Begins(r)
  /\ UNCHANGED <<cabinet, changes, token, known_off, cache, net, executed, surprises,
                 audit, record, flow, photos>>

\* Mutant: the row is written with its outcome, when the call is over.
Command_RowLater(r) ==
  /\ Op[r] \in Commands /\ ~RealInDemo(ServerFor(r))
  /\ Begins(r) /\ UNCHANGED audit
  /\ UNCHANGED <<cabinet, changes, token, known_off, cache, net, executed, surprises,
                 record, flow, photos>>

\* _send: the row first, then the call.
Command(r) ==
  /\ Op[r] \in Commands /\ ~RealInDemo(ServerFor(r))
  /\ Begins(r) /\ Written(r)
  /\ UNCHANGED <<cabinet, changes, token, known_off, cache, net, executed, surprises,
                 record, flow, photos>>

\* An acknowledgement has no row of its own.
Acknowledge(r) ==
  /\ Op[r] = "acknowledge" /\ ~RealInDemo(ServerFor(r))
  /\ Begins(r)
  /\ UNCHANGED <<cabinet, changes, token, known_off, cache, net, executed, surprises,
                 audit, record, flow, photos>>

\* refuse_real_cabinet_in_demo: a row with the refusal, and nothing is sent.  An
\* acknowledgement's refusal goes to audit_log.
RefuseInDemo(r) ==
  /\ ~IsGet(r) /\ ~IsNfc(r) /\ RealInDemo(ServerFor(r))
  /\ MayStart(r)
  /\ Update(r, [calls[r] EXCEPT !.at = "done"])
  /\ audit' = IF Audits(r) THEN [audit EXCEPT ![r] = [outcome |-> DemoCode]] ELSE audit
  /\ UNCHANGED <<cabinet, changes, token, known_off, cache, net, executed, surprises, record, flow, photos>>

\* set_record: the Admin's record, never for a real cabinet.
SetRecord(s) ==
  /\ \E enabled \in BOOLEAN :
       /\ enabled => s \in Simulated
       /\ record[s] # enabled /\ record' = [record EXCEPT ![s] = enabled]
  /\ Surprise
  /\ UNCHANGED <<cabinet, changes, token, known_off, cache, calls, net, executed,
                 audit, flow, photos>>

\* upload_reference_photo: the checks, before the file is read ...
CheckUpload(r) ==
  /\ Op[r] = "push_photo" /\ MayStart(r) /\ flow[r] = "idle"
  /\ ~RealInDemo(ServerFor(r)) /\ ServerFor(r) \in Simulated /\ record[ServerFor(r)]
  /\ flow' = [flow EXCEPT ![r] = "checked"]
  /\ UNCHANGED <<clientVars, audit, record, photos>>

\* ... and after it: the row, and push_reference_image, which asks for the record again.
Upload(r) ==
  /\ flow[r] = "checked"
  /\ Written(r)
  /\ \/ record[ServerFor(r)] /\ Begins(r)
     \/ /\ ~record[ServerFor(r)] /\ MayStart(r)
        /\ Update(r, Returned(calls[r], "erp_bug", 0, None))
  /\ flow' = [flow EXCEPT ![r] = "sent"]
  /\ UNCHANGED <<cabinet, changes, token, known_off, cache, net, executed, surprises, record, photos>>

\* Mutant: the outcome is written in a finally, also when the call was cut off.
Complete_InFinally(r) ==
  /\ Audits(r) /\ calls[r].at \in {"returned", "dead"}
  /\ Update(r, [calls[r] EXCEPT !.at = "done"])
  /\ audit' = [audit EXCEPT ![r] = [outcome |-> calls[r].code]]
  /\ UNCHANGED <<cabinet, changes, token, known_off, cache, net, executed, surprises, record, flow, photos>>

\* complete: the outcome goes into the row.
Complete(r) ==
  /\ Audits(r) /\ calls[r].at = "returned"
  /\ Update(r, [calls[r] EXCEPT !.at = "done"])
  /\ audit' = [audit EXCEPT ![r] = [outcome |-> calls[r].code]]
  /\ UNCHANGED <<cabinet, changes, token, known_off, cache, net, executed, surprises, record, flow, photos>>

\* What has no row is answered without one.
Finish(r) ==
  /\ ~Audits(r) /\ calls[r].at = "returned"
  /\ Update(r, [calls[r] EXCEPT !.at = "done"])
  /\ UNCHANGED <<cabinet, changes, token, known_off, cache, net, executed, surprises,
                 audit, record, flow, photos>>

\* switch_off on a 403 or 503, and the photo's own row: whatever the record is by now.
RecordUpload(r) ==
  /\ flow[r] = "sent" /\ calls[r].at = "done"
  /\ record' = IF calls[r].http \in {403, 503} THEN [record EXCEPT ![ServerFor(r)] = FALSE]
               ELSE record
  /\ photos' = photos \union {r}
  /\ flow' = [flow EXCEPT ![r] = "recorded"]
  /\ UNCHANGED <<clientVars, audit>>

\* A process dies: its calls, tokens and memories are gone, its requests are not.
Crash(p) ==
  LET mine == {r \in Requests : ProcessOf[ClientOf[r]] = p}
      open == {r \in mine : calls[r].at \notin {"new", "done", "dead"}}
  IN /\ Surprise
     /\ open # {} \/ \E r \in mine : flow[r] \in {"checked", "sent"}
     /\ calls' = [r \in Requests |-> IF r \in open THEN [calls[r] EXCEPT !.at = "dead",
                                                                         !.answer = None]
                                     ELSE calls[r]]
     /\ flow' = [r \in Requests |-> IF r \in mine /\ flow[r] \in {"checked", "sent"} THEN "lost"
                                    ELSE flow[r]]
     /\ token' = [c \in Clients |-> IF ProcessOf[c] = p THEN None ELSE token[c]]
     /\ known_off' = [c \in Clients |-> IF ProcessOf[c] = p THEN {} ELSE known_off[c]]
     /\ UNCHANGED <<cabinet, changes, cache, net, executed, audit, record, photos>>

\* The Admin has recorded the upload where it may be recorded.
Init ==
  /\ ClientInit
  /\ audit = [r \in Requests |-> None]
  /\ record = [s \in Servers |-> s \in Simulated]
  /\ flow = [r \in Requests |-> "idle"]
  /\ photos = {}

InClient(A) == A /\ UNCHANGED <<audit, record, flow, photos>>

Step(r) == InClient(ClientStep(r)) \/ Complete(r) \/ Finish(r)

Next ==
  \/ \E r \in Requests : \/ Read(r) \/ Command(r) \/ Acknowledge(r) \/ RefuseInDemo(r)
                         \/ CheckUpload(r) \/ Upload(r) \/ RecordUpload(r) \/ Step(r)
  \/ \E m \in net : InClient(Arrives(m)) \/ InClient(Fails(m))
  \/ \E s \in Servers : SetRecord(s) \/ InClient(CabinetChanges(s))
  \/ \E c \in Clients : InClient(MemoryLapses(c))
  \/ \E p \in Processes : Crash(p)

\* While calls are open, one of them goes on: every await of the client has a timeout, and
\* the event loop runs what is ready.  Nothing is asked of the network or the cabinet.
Fairness == WF_vars(\E r \in Requests : Step(r))

Spec == Init /\ [][Next]_vars
FairSpec == Spec /\ Fairness

(***************************************************************************)
(* Properties                                                              *)
(***************************************************************************)

\* Types of the variables; a row's outcome is one the client or the router can give.
TypeOK ==
  /\ ClientTypeOK
  /\ audit \in [Requests -> Row \union {None}]
  /\ record \in [Servers -> BOOLEAN]
  /\ flow \in [Requests -> {"idle", "checked", "sent", "recorded", "lost"}]
  /\ photos \subseteq Requests

\* A command that has left the ERP, and so one that a cabinet carried out, has its row,
\* whatever died afterwards (command_audit.py: written before the call).
Audited == \A r \in Requests : Audits(r) /\ calls[r].sent > 0 => audit[r] # None

\* What the row says of the cabinet: "ok" only of a command that was carried out; a refusal
\* by the cabinet, when no sending was left without an answer, only of one that was not.
OutcomeTruthful ==
  \A r \in Requests : audit[r] # None /\ calls[r].at = "done" =>
    /\ audit[r].outcome = "ok" => executed[r] > 0
    /\ audit[r].outcome # "ok" /\ calls[r].http # 0 /\ ~calls[r].lost => executed[r] = 0

\* No photo is for a real cabinet, and no write for one in a demo marina.
Forbidden(r) ==
  /\ ServerFor(r) \notin Simulated
  /\ Op[r] = "push_photo" \/ (Op[r] \in Writes /\ IsDemo(MarinaOf[ServerFor(r)]))

\* A command is sent again after a timeout although it may have been carried out: an outlet
\* command or a photo at most ATTEMPTS times, a session's command at most once, because the
\* cabinet asks for the session's state; a forbidden one never reaches its cabinet.
BoundedResends ==
  \A r \in Requests : executed[r] <= CASE Forbidden(r) -> 0
                                       [] ~Forbidden(r) /\ Op[r] \in SessionOps -> 1
                                       [] OTHER -> ATTEMPTS

\* An answer is the cabinet's own; a fresh one is no older than the question.
AnswersAreOwn ==
  \A r \in Requests : calls[r].data # None =>
    /\ calls[r].data.server = ServerFor(r)
    /\ calls[r].code = "ok" => calls[r].data.data >= calls[r].since

\* Every call ends, with an answer or with its process: timeouts, resends and the one
\* re-login do not go on for ever.
Ends == []<>(\A r \in Requests : calls[r].at \in {"new", "done", "dead"})
=============================================================================
