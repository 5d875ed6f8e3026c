------------------------ MODULE SessionReconciliation ------------------------
(***************************************************************************)
(* One cabinet, its sessions, and the three writers of the ERP's session   *)
(* rows: the webhook handlers (routers/webhooks.py), the pull reconciler   *)
(* (services/reconciler.py, on the collector's own thread) and, outside    *)
(* the code so far, billing.                                               *)
(*                                                                         *)
(* What makes it hard is modelled: webhooks are sent once, and are lost or *)
(* overtaken; the pull's answers are snapshots that are stale when they    *)
(* are applied; every writer is a database transaction of its own that     *)
(* reads rows, decides, and at its commit UPDATEs only the columns it      *)
(* changed, with no row lock (READ COMMITTED); a run of the pull may fail  *)
(* between any two of its steps.                                           *)
(***************************************************************************)
EXTENDS SessionSync

CONSTANTS
  Handlers,      \* web workers, each with at most one webhook transaction open
  Pull,          \* the collector's reconciler: one process collects
  Routes,        \* how the cabinet answers: subset of {"range", "by_user"}
  StartedFor,    \* StartedFor[c]: the row the ERP started c for, or None
  MaxRegister    \* bound: MaxRegister[c], the metering steps of c

ASSUME BoundAssumption == MaxRegister \in [CabSessions -> Nat]

ASSUME PullAssumption == Pull \notin Handlers

Procs == Handlers \union {Pull}

VARIABLES
  cabinet,       \* the cabinet's own truth per session: state and register
  webhooks,      \* session events posted by the cabinet: late, or lost for good
  sessions,      \* the committed table
  base,          \* base[p][s]: the row as p's transaction loaded it, or None
  work,          \* work[p][s]: the same row with p's assignments, or None
  phase,         \* where the pull is in reconcile()
  window,        \* range mode: cabinet sessions whose end time is in the run's window
  todo,          \* cabinet sessions the pull has still to ask for in this phase
  refs,          \* by_user mode: customers the pull has still to ask for
  inbox,         \* payloads fetched by the pull and not yet applied
  covered,       \* cabinet sessions in the window of a run recorded ok
  cabinet_acked  \* cabinet sessions the cabinet was told are billed

pull == <<phase, window, todo, refs, inbox, covered>>
tx   == <<base, work>>
vars == <<cabinet, webhooks, sessions, base, work, phase, window, todo, refs, inbox,
          covered, cabinet_acked>>

Phases == {"idle", "range", "users", "refresh", "ack", "acked"}

TypeOK ==
  /\ cabinet \in [CabSessions -> [state : {"idle", "active", "ended"}, register : Nat]]
  /\ webhooks \subseteq Payload
  /\ sessions \in [Sessions -> Row]
  /\ base \in [Procs -> [Sessions -> Row \union {None}]]
  /\ work \in [Procs -> [Sessions -> Row \union {None}]]
  /\ phase \in Phases
  /\ window \subseteq CabSessions
  /\ todo \subseteq CabSessions
  /\ refs \subseteq Customers
  /\ inbox \subseteq Payload
  /\ covered \subseteq CabSessions
  /\ cabinet_acked \subseteq CabSessions

Nothing == [s \in Sessions |-> None]

Init ==
  /\ cabinet = [c \in CabSessions |-> [state |-> "idle", register |-> 0]]
  /\ webhooks = {}
  /\ sessions = [s \in Sessions |-> NewRow]
  /\ base = [p \in Procs |-> Nothing]
  /\ work = [p \in Procs |-> Nothing]
  /\ phase = "idle"
  /\ window = {} /\ todo = {} /\ refs = {} /\ inbox = {}
  /\ covered = {}
  /\ cabinet_acked = {}

Ended == {c \in CabSessions : cabinet[c].state = "ended"}

\* What the cabinet answers for session c when it is asked now.
Snapshot(c) == PayloadOf(c, cabinet[c].state = "ended", cabinet[c].register)

-----------------------------------------------------------------------------
(* Database transactions *)

Written_AllColumns(loaded, new, row) == new

\* The UPDATE the ORM emits: only the columns whose value differs from the loaded one.
Written(loaded, new, row) ==
  [cabinet_session_id |-> IF new.cabinet_session_id # loaded.cabinet_session_id
                          THEN new.cabinet_session_id ELSE row.cabinet_session_id,
   status        |-> IF new.status # loaded.status THEN new.status ELSE row.status,
   figure        |-> IF new.figure # loaded.figure THEN new.figure ELSE row.figure,
   billing_state |-> IF new.billing_state # loaded.billing_state
                     THEN new.billing_state ELSE row.billing_state,
   reconciled    |-> new.reconciled \/ row.reconciled,
   ack_sent      |-> new.ack_sent \/ row.ack_sent]

Flushed(p) ==
  [s \in Sessions |-> IF work[p][s] = None THEN sessions[s]
                      ELSE Written(base[p][s], work[p][s], sessions[s])]

\* uq_sessions_cabinet_session, ck_sessions_billed_has_figure, ck_sessions_billed_is_reconciled
DbAccepts(rows) ==
  /\ \A s, t \in Sessions :
       rows[s].cabinet_session_id # None /\ rows[s].cabinet_session_id = rows[t].cabinet_session_id
         => s = t
  /\ \A s \in Sessions :
       rows[s].billing_state = "billed" => rows[s].figure # None /\ rows[s].reconciled

\* session_sync.apply inside p's transaction: SELECT, then assign to the ORM object.
ApplyIn(p, m, by_pull) ==
  IF Found(sessions, m) = {} THEN UNCHANGED tx
  ELSE \E s \in Found(sessions, m) :
         LET fresh == work[p][s] = None
             row   == IF fresh THEN sessions[s] ELSE work[p][s]
         IN  /\ base' = [base EXCEPT ![p][s] = IF fresh THEN sessions[s] ELSE @]
             /\ work' = [work EXCEPT ![p][s] = Apply(s, row, m, by_pull)]

Forget(p) ==
  /\ base' = [base EXCEPT ![p] = Nothing]
  /\ work' = [work EXCEPT ![p] = Nothing]

Commit(p) ==
  /\ DbAccepts(Flushed(p))
  /\ sessions' = Flushed(p)
  /\ Forget(p)

-----------------------------------------------------------------------------
(* The cabinet.  Each change is posted to the ERP once, with no retry: a lost  *)
(* webhook is one that is never received.                                      *)

Post(c) == webhooks' = webhooks \union {Snapshot(c)'}

Activate(c) ==
  /\ cabinet[c].state = "idle"
  /\ cabinet' = [cabinet EXCEPT ![c].state = "active"]
  /\ Post(c)
  /\ UNCHANGED <<sessions, tx, pull, cabinet_acked>>

Meter(c) ==
  /\ cabinet[c].state = "active"
  /\ cabinet[c].register < MaxRegister[c]
  /\ cabinet' = [cabinet EXCEPT ![c].register = @ + 1]
  /\ Post(c)
  /\ UNCHANGED <<sessions, tx, pull, cabinet_acked>>

EndSession(c) ==
  /\ cabinet[c].state = "active"
  /\ cabinet' = [cabinet EXCEPT ![c].state = "ended"]
  /\ Post(c)
  /\ UNCHANGED <<sessions, tx, pull, cabinet_acked>>

-----------------------------------------------------------------------------
(* Webhook handlers: receive_cabinet_webhook, for session events. *)

\* Any webhook still on its way may be the next to arrive.
ReceiveWebhook(h, m) ==
  /\ work[h] = Nothing
  /\ m \in webhooks
  /\ webhooks' = webhooks \ {m}
  /\ ApplyIn(h, m, FALSE)
  /\ UNCHANGED <<cabinet, sessions, pull, cabinet_acked>>

CommitWebhook(h) ==
  /\ work[h] # Nothing
  /\ Commit(h)
  /\ UNCHANGED <<cabinet, webhooks, pull, cabinet_acked>>

\* A constraint refuses the commit: HTTP 500, and the cabinet does not retry.
RefuseWebhook(h) ==
  /\ work[h] # Nothing
  /\ ~DbAccepts(Flushed(h))
  /\ Forget(h)
  /\ UNCHANGED <<cabinet, webhooks, sessions, pull, cabinet_acked>>

HandlerDies(h) ==
  /\ work[h] # Nothing
  /\ Forget(h)
  /\ UNCHANGED <<cabinet, webhooks, sessions, pull, cabinet_acked>>

-----------------------------------------------------------------------------
(* The pull: reconcile() *)

\* _range: the window holds at least every session that ended since the last good
\* run's window (ReconcileWindow shows why); the overlap, and at night the 30 days,
\* bring back any of the earlier ones.
StartRange(W) ==
  /\ phase = "idle" /\ "range" \in Routes
  /\ Ended \ covered \subseteq W /\ W \subseteq Ended
  /\ phase' = "range" /\ window' = W /\ todo' = W
  /\ UNCHANGED <<cabinet, webhooks, sessions, tx, refs, inbox, covered, cabinet_acked>>

StartNightlyRange_NewOnly == StartRange(Ended \ covered)

\* Due once a day: everything that ended in the last 30 days.
StartNightlyRange == StartRange(Ended)

\* _by_user: the range route is missing; customers with an open or not yet
\* reconciled session, at night every one with a session.
StartUsers(nightly) ==
  /\ phase = "idle" /\ "by_user" \in Routes
  /\ phase' = "users"
  /\ refs' = {ErpInfo[s].customer : s \in {t \in Sessions :
                 \/ nightly
                 \/ sessions[t].status \in {"reserved", "active"}
                 \/ ~sessions[t].reconciled}} \ {None}
  /\ UNCHANGED <<cabinet, webhooks, sessions, tx, window, todo, inbox, covered,
                 cabinet_acked>>

\* One answer is applied and committed before the next one is asked for.
Ready(ph) == phase = ph /\ inbox = {} /\ work[Pull] = Nothing

\* A page of the range, in any split.
FetchPage(P) ==
  /\ Ready("range")
  /\ P # {} /\ P \subseteq todo
  /\ inbox' = {Snapshot(c) : c \in P}
  /\ todo' = todo \ P
  /\ UNCHANGED <<cabinet, webhooks, sessions, tx, phase, window, refs, covered,
                 cabinet_acked>>

\* All of one customer's sessions, ended or not; the customers in sorted order.
FetchUser(u) ==
  /\ Ready("users")
  /\ u \in refs /\ \A v \in refs : u <= v
  /\ inbox' = {Snapshot(c) : c \in {d \in CabSessions : CabInfo[d].customer = u
                                                       /\ cabinet[d].state # "idle"}}
  /\ refs' = refs \ {u}
  /\ UNCHANGED <<cabinet, webhooks, sessions, tx, phase, window, todo, covered,
                 cabinet_acked>>

ApplyOne(m) ==
  /\ m \in inbox
  /\ inbox' = inbox \ {m}
  /\ ApplyIn(Pull, m, TRUE)
  /\ UNCHANGED <<cabinet, webhooks, sessions, phase, window, todo, refs, covered,
                 cabinet_acked>>

CommitAnswer ==
  /\ phase \in {"range", "users"}
  /\ inbox = {} /\ work[Pull] # Nothing
  /\ Commit(Pull)
  /\ UNCHANGED <<cabinet, webhooks, pull, cabinet_acked>>

\* _refresh_active: the open linked rows are loaded at once ...
StartRefresh ==
  /\ Ready("range") /\ todo = {}
  /\ LET open == {s \in Sessions : sessions[s].status = "active"
                                   /\ sessions[s].cabinet_session_id # None}
         rows == [s \in Sessions |-> IF s \in open THEN sessions[s] ELSE None]
     IN  /\ base' = [base EXCEPT ![Pull] = rows]
         /\ work' = [work EXCEPT ![Pull] = rows]
         /\ todo' = {sessions[s].cabinet_session_id : s \in open}
  /\ phase' = "refresh"
  /\ UNCHANGED <<cabinet, webhooks, sessions, window, refs, inbox, covered, cabinet_acked>>

\* ... read from the cabinet one by one (a failed read skips the session) ...
FetchOpen(c, answered) ==
  /\ phase = "refresh" /\ inbox = {}
  /\ c \in todo
  /\ todo' = todo \ {c}
  /\ inbox' = IF answered THEN {Snapshot(c)} ELSE {}
  /\ UNCHANGED <<cabinet, webhooks, sessions, tx, phase, window, refs, covered,
                 cabinet_acked>>

\* ... and committed together at the end.
CommitRefresh ==
  /\ phase = "refresh" /\ inbox = {} /\ todo = {}
  /\ Commit(Pull)
  /\ phase' = "ack"
  /\ UNCHANGED <<cabinet, webhooks, window, todo, refs, inbox, covered, cabinet_acked>>

Confirmable_Reconciled(row) ==
  /\ row.reconciled /\ ~row.ack_sent /\ row.cabinet_session_id # None

\* _ack: billed only, never merely reconciled.
Confirmable(row) ==
  /\ row.billing_state = "billed" /\ ~row.ack_sent /\ row.cabinet_session_id # None

ToConfirm == {s \in Sessions : Confirmable(sessions[s])}

\* The POST reaches the cabinet; its answer may still be lost.
PostAck ==
  /\ phase = "ack" /\ ToConfirm # {}
  /\ cabinet_acked' = cabinet_acked \union {sessions[s].cabinet_session_id : s \in ToConfirm}
  /\ work' = [work EXCEPT ![Pull] =
                [s \in Sessions |-> IF s \in ToConfirm THEN [sessions[s] EXCEPT !.ack_sent = TRUE]
                                    ELSE None]]
  /\ base' = [base EXCEPT ![Pull] =
                [s \in Sessions |-> IF s \in ToConfirm THEN sessions[s] ELSE None]]
  /\ phase' = "acked"
  /\ UNCHANGED <<cabinet, webhooks, sessions, window, todo, refs, inbox, covered>>

RecordAck ==
  /\ phase = "acked"
  /\ Commit(Pull)
  /\ phase' = "idle" /\ covered' = covered \union window /\ window' = {}
  /\ UNCHANGED <<cabinet, webhooks, todo, refs, inbox, cabinet_acked>>

\* No answer to the ack, or a refusal: a warning, and the run is still good.
AckUnanswered ==
  /\ phase = "acked"
  /\ Forget(Pull)
  /\ phase' = "idle" /\ covered' = covered \union window /\ window' = {}
  /\ UNCHANGED <<cabinet, webhooks, sessions, todo, refs, inbox, cabinet_acked>>

\* Nothing to acknowledge, or the ack never reached the cabinet: run.ok.
FinishRange ==
  /\ phase = "ack"
  /\ phase' = "idle" /\ covered' = covered \union window /\ window' = {}
  /\ UNCHANGED <<cabinet, webhooks, sessions, tx, todo, refs, inbox, cabinet_acked>>

FinishUsers ==
  /\ Ready("users") /\ refs = {}
  /\ phase' = "idle"
  /\ UNCHANGED <<cabinet, webhooks, sessions, tx, window, todo, refs, inbox, covered,
                 cabinet_acked>>

AbandonRun_RecordedOk ==
  /\ phase' = "idle" /\ window' = {} /\ todo' = {} /\ refs' = {} /\ inbox' = {}
  /\ covered' = covered \union window
  /\ Forget(Pull)
  /\ UNCHANGED <<cabinet, webhooks, sessions, cabinet_acked>>

AbandonRun ==
  /\ phase' = "idle" /\ window' = {} /\ todo' = {} /\ refs' = {} /\ inbox' = {}
  /\ Forget(Pull)
  /\ UNCHANGED <<cabinet, webhooks, sessions, covered, cabinet_acked>>

\* The cabinet does not answer, an exception, or the process dies: the run's row
\* stays or is recorded not ok, and nothing uncommitted survives.
RunFails ==
  /\ phase # "idle"
  /\ AbandonRun

\* Mutant: the page is rolled back and the run goes on.
RefuseAnswer_SkipsPage ==
  /\ phase \in {"range", "users", "acked"} \/ (phase = "refresh" /\ todo = {})
  /\ inbox = {}
  /\ ~DbAccepts(Flushed(Pull))
  /\ Forget(Pull)
  /\ UNCHANGED <<cabinet, webhooks, sessions, pull, cabinet_acked>>

\* A constraint refuses the pull's commit: IntegrityError, the run is recorded not ok.
RefuseAnswer ==
  /\ phase \in {"range", "users", "acked"} \/ (phase = "refresh" /\ todo = {})
  /\ inbox = {}
  /\ ~DbAccepts(Flushed(Pull))
  /\ AbandonRun

-----------------------------------------------------------------------------
(* Billing is not in the code yet (phase 7).  The database is: a row is billed *)
(* only with a figure and reconciled_at.  ASSUMED of the biller: it takes only *)
(* pending rows, and excludes open transactions on the row it bills.           *)
Bill(s) ==
  /\ sessions[s].billing_state = "pending"
  /\ \A p \in Procs : work[p][s] = None
  /\ LET rows == [sessions EXCEPT ![s].billing_state = "billed"]
     IN  DbAccepts(rows) /\ sessions' = rows
  /\ UNCHANGED <<cabinet, webhooks, tx, pull, cabinet_acked>>

-----------------------------------------------------------------------------
Cabinet == \E c \in CabSessions : Activate(c) \/ Meter(c) \/ EndSession(c)

Webhook ==
  \/ \E h \in Handlers, m \in webhooks : ReceiveWebhook(h, m)
  \/ \E h \in Handlers : CommitWebhook(h) \/ RefuseWebhook(h) \/ HandlerDies(h)

\* What a run does once started.
RunStep ==
  \/ \E P \in SUBSET todo : FetchPage(P)
  \/ \E u \in refs : FetchUser(u)
  \/ \E m \in inbox : ApplyOne(m)
  \/ CommitAnswer
  \/ StartRefresh
  \/ \E c \in todo, answered \in BOOLEAN : FetchOpen(c, answered)
  \/ CommitRefresh
  \/ PostAck \/ RecordAck \/ AckUnanswered
  \/ FinishRange \/ FinishUsers
  \/ RefuseAnswer

Reconcile ==
  \/ \E W \in SUBSET Ended : StartRange(W)
  \/ \E nightly \in BOOLEAN : StartUsers(nightly)
  \/ RunStep
  \/ RunFails

Next == Cabinet \/ Webhook \/ Reconcile \/ \E s \in Sessions : Bill(s)

Spec == Init /\ [][Next]_vars

\* The collector keeps stepping a run it started and is due every night; a web
\* worker finishes the transaction it opened.  Nothing is assumed of the cabinet,
\* of delivery or of billing.
Fairness ==
  /\ WF_vars(RunStep)
  /\ SF_vars(StartNightlyRange)
  /\ \A h \in Handlers : WF_vars(CommitWebhook(h) \/ RefuseWebhook(h))

FairSpec == Spec /\ Fairness
-----------------------------------------------------------------------------
(* Safety *)

\* A row is linked only to a cabinet session find() may pair it with, whatever
\* transactions interleave: torn or stale writes never cross sessions.
LinkJustified ==
  \A s \in Sessions : sessions[s].cabinet_session_id # None
                       => MayBelong(sessions[s].cabinet_session_id, s)

\* The cabinet silences its own alarm about a session only when that session is
\* billed, and the ERP believes it told the cabinet only when it did.
AckTruthful ==
  /\ \A c \in cabinet_acked : \E s \in Sessions :
        sessions[s].cabinet_session_id = c /\ sessions[s].billing_state = "billed"
  /\ \A s \in Sessions : sessions[s].ack_sent => sessions[s].cabinet_session_id \in cabinet_acked

\* find() takes c's payloads to no row but s: they echo its reference, or neither of the two
\* may be paired with another.
Identified(c, s) ==
  \/ CabInfo[c].erp_ref = s
  \/ /\ MayBelong(c, s)
     /\ \A d \in CabSessions, t \in Sessions : MayBelong(d, t) => (d = c <=> t = s)

\* What a good run's window covered is in the ERP as reconciled, although runs fail
\* half way: no ended session that names its row falls between two runs.
CoveredIsReconciled ==
  \A c \in covered, s \in Sessions : Identified(c, s) => sessions[s].reconciled

\* c's figure needs no review on row s.
Measured(c, s) ==
  MayBelong(c, s) /\ Measure[c] = "register" /\ CabInfo[c].outlet = ErpInfo[s].outlet

\* A figure the cabinet calls approximate or missing, or one of another outlet, does not
\* get a row billed unseen: an ended session that may be the row's has been measured (the
\* linked one, where no other may be).
BilledIsMeasured ==
  \A s \in Sessions : sessions[s].billing_state = "billed" => \E c \in Ended : Measured(c, s)

\* "A session already billed is never touched again" - but for the ack.
BilledFrozen ==
  [][\A s \in Sessions : sessions[s].billing_state = "billed"
        => sessions'[s] = [sessions[s] EXCEPT !.ack_sent = sessions'[s].ack_sent]]_vars

-----------------------------------------------------------------------------
(* What makes the above inductive *)

\* What a row may say of the cabinet, committed or still in a transaction.
Supported(s, row) ==
  /\ row.cabinet_session_id # None => MayBelong(row.cabinet_session_id, s)
  /\ row.reconciled => \E c \in Ended : MayBelong(c, s)

RowsSupported ==
  /\ \A s \in Sessions : Supported(s, sessions[s])
  /\ \A p \in Procs, s \in Sessions : work[p][s] # None => Supported(s, work[p][s])

\* No payload on its way says "ended" of a session that still runs.
EventsTruthful == \A m \in webhooks \union inbox : m.ended => m.session_id \in Ended

SameButAck(new, old) == new = [old EXCEPT !.ack_sent = new.ack_sent]

\* A transaction that opened on a billed row holds it as it is; one that opened
\* before cannot exist; none bills by itself.
Harmless(p, s) ==
  work[p][s] # None =>
    /\ base[p][s] # None
    /\ base[p][s].billing_state = "billed" <=> sessions[s].billing_state = "billed"
    /\ base[p][s].billing_state = "billed" => SameButAck(work[p][s], base[p][s])
    /\ base[p][s].billing_state # "billed" => work[p][s].billing_state # "billed"

TransactionsHarmless == \A p \in Procs, s \in Sessions : Harmless(p, s)

\* ack_sent is only ever set, or about to be set, on a billed row the cabinet was told of.
Told(s) == sessions[s].billing_state = "billed" /\ sessions[s].cabinet_session_id \in cabinet_acked

AckSupported ==
  /\ \A s \in Sessions : sessions[s].ack_sent => Told(s)
  /\ \A p \in Procs, s \in Sessions : work[p][s] # None /\ work[p][s].ack_sent => Told(s)

Inv ==
  /\ TypeOK
  /\ EventsTruthful
  /\ RowsSupported
  /\ TransactionsHarmless
  /\ AckTruthful
  /\ AckSupported
  /\ DbAccepts(sessions)

-----------------------------------------------------------------------------
(* What makes BilledIsMeasured and CoveredIsReconciled inductive, over Inv *)

\* An ended or reconciled row is linked; a reconciled one is under review, or needs none.
Grounded(s, row) ==
  /\ row.status = "ended" \/ row.reconciled => row.cabinet_session_id # None
  /\ row.reconciled =>
       row.billing_state = "manual_review" \/ \E c \in Ended : Measured(c, s)

\* No transaction takes back a link or a review, nor finds one that is taken back meanwhile.
Onward(p, s) ==
  work[p][s] # None =>
    /\ base[p][s].cabinet_session_id # None =>
         work[p][s].cabinet_session_id # None /\ sessions[s].cabinet_session_id # None
    /\ base[p][s].billing_state = "manual_review" =>
         /\ work[p][s].billing_state = "manual_review"
         /\ sessions[s].billing_state = "manual_review"

RowsGrounded ==
  /\ \A s \in Sessions : Grounded(s, sessions[s])
  /\ \A p \in Procs, s \in Sessions :
       Onward(p, s) /\ (work[p][s] # None => Grounded(s, work[p][s]))

\* A session of the run's window is still to be asked for, or was, and is on its way to s.
OnItsWay(c, s) ==
  /\ phase = "range"
  /\ \/ c \in todo
     \/ \E m \in inbox : m.session_id = c /\ m.ended
     \/ work[Pull][s] # None /\ work[Pull][s].reconciled

WindowOnItsWay ==
  /\ window \subseteq Ended /\ (phase \in {"idle", "users"} => window = {})
  /\ \A c \in window, s \in Sessions :
       Identified(c, s) => sessions[s].reconciled \/ OnItsWay(c, s)

RunInv == RowsGrounded /\ WindowOnItsWay /\ CoveredIsReconciled

-----------------------------------------------------------------------------
(* Liveness, and what the comments claim *)

HoldsFinal(s, c) ==
  /\ sessions[s].cabinet_session_id = c
  /\ sessions[s].status = "ended"
  /\ sessions[s].figure = Snapshot(c).figure
  /\ sessions[s].reconciled

\* A failure no orderly step explains: finishing a run that covered nothing new looks
\* like losing one, and must not count as a fault.
Crash == RunFails /\ ~RunStep

CrashesStop == <>[][~Crash]_vars

\* Whatever webhooks are lost, late or overtaken, and whatever runs failed: once runs
\* stop failing, a session that ended is reconciled with the cabinet's final figure,
\* for good (unless it was billed before).
Converges ==
  CrashesStop =>
    \A c \in CabSessions, s \in Sessions :
      StartedFor[c] = s /\ cabinet[c].state = "ended"
        ~> [](HoldsFinal(s, c) \/ sessions[s].billing_state = "billed")

\* models/metering.py:68 says of reconciled_at: "set by the pull reconciler when it
\* stored the cabinet's FINAL figure (D7)".
ReconciledHoldsFinal ==
  \A s \in Sessions : sessions[s].reconciled => HoldsFinal(s, sessions[s].cabinet_session_id)

\* What it all promises, refined by this module.
EndedRows     == {s \in Sessions : \E c \in Ended : MayBelong(c, s)}
SettledRows   == {s \in Sessions : sessions[s].reconciled}
BilledRows    == {s \in Sessions : sessions[s].billing_state = "billed"}
ConfirmedRows == {s \in Sessions : sessions[s].cabinet_session_id \in cabinet_acked}

Promise == INSTANCE Settlement WITH
  ended <- EndedRows, settled <- SettledRows, billed <- BilledRows, confirmed <- ConfirmedRows

\* An ERP session ends, is settled, is billed, is confirmed, in that order and for good.
Settles == Promise!Spec
=============================================================================
