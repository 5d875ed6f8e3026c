----------------------------- MODULE SessionSync -----------------------------
(***************************************************************************)
(* One cabinet session payload -> the ERP's session row, for ONE cabinet:  *)
(* services/session_sync.py with the payload rules of                      *)
(* cabinet/session_payload.py and the row of models/metering.py.  Pull and *)
(* webhook share it.  Constant-level operators only; who calls them, when, *)
(* and in which database transaction is SessionReconciliation's business.  *)
(*                                                                         *)
(* Data kept: which cabinet session, ended or not, the consumption figure  *)
(* (the register progress since activation, a natural number) and whether  *)
(* the payload must be reviewed by a person.  Times, durations, meter      *)
(* registers and the two media are left out: no property tells them apart. *)
(***************************************************************************)
EXTENDS Naturals

CONSTANTS
  Sessions,      \* ids of the ERP's session rows: numbers, a newer row has a larger id
  CabSessions,   \* the cabinet's own sessions, the ERP's and others
  Customers,     \* external_ref of customers: numbers, the pull reads them sorted
  Outlets,       \* Q1..Q4, V1, V2
  None,          \* SQL NULL / Python None
  ErpInfo,       \* ErpInfo[s] = [customer, outlet] of row s
  CabInfo,       \* CabInfo[c] = [erp_ref, customer, outlet] the payloads of c carry
  Measure        \* Measure[c]: how the cabinet measured c

Measures == {"register", "integrated_legacy", "missing"}

ASSUME SessionsAssumption == Sessions \subseteq Nat

ASSUME CustomersAssumption == Customers \subseteq Nat

ASSUME InfoAssumption ==
  /\ ErpInfo \in [Sessions -> [customer : Customers \union {None}, outlet : Outlets]]
  /\ CabInfo \in [CabSessions -> [erp_ref  : Sessions \union {None},
                                  customer : Customers \union {None},
                                  outlet   : Outlets]]
  /\ Measure \in [CabSessions -> Measures]

Figures == Nat \union {None}

Row == [cabinet_session_id : CabSessions \union {None},
        status             : {"reserved", "active", "ended"},
        figure             : Figures,
        billing_state      : {"pending", "manual_review", "billed"},
        reconciled         : BOOLEAN,     \* reconciled_at IS NOT NULL
        ack_sent           : BOOLEAN]     \* ack_sent_at IS NOT NULL

\* NULL is nobody's id, and no row.
ASSUME NoneAssumption == None \notin CabSessions /\ None \notin Row

\* The row before the cabinet knows anything (models/metering.py:18).
NewRow == [cabinet_session_id |-> None, status |-> "reserved", figure |-> None,
           billing_state |-> "pending", reconciled |-> FALSE, ack_sent |-> FALSE]

Payload == [session_id : CabSessions, ended : BOOLEAN, figure : Figures]

-----------------------------------------------------------------------------
\* The payload carries a figure unless the cabinet could not measure the session.
PayloadOf(c, ended, register) ==
  [session_id |-> c,
   ended      |-> ended,
   figure     |-> IF ended /\ Measure[c] = "missing" THEN None ELSE register]

Review_OutletOnly(s, p) == CabInfo[p.session_id].outlet # ErpInfo[s].outlet

\* parse_session: an ended session whose figure is missing or approximate goes to
\* review; apply adds a payload that names another outlet than the row's.
Review(s, p) ==
  \/ p.ended /\ Measure[p.session_id] # "register"
  \/ CabInfo[p.session_id].outlet # ErpInfo[s].outlet

-----------------------------------------------------------------------------
\* find(), in its order: the echoed erp_ref; the cabinet's id once linked; the
\* customer and outlet, on the newest row still waiting for the cabinet.  `rows`
\* is the COMMITTED table: the session factory has autoflush=False, so a query
\* does not see what the same transaction has assigned and not yet flushed.
ByRef(p) == {s \in Sessions : CabInfo[p.session_id].erp_ref = s}

ByLink(rows, p) == {s \in Sessions : rows[s].cabinet_session_id = p.session_id}

SameCustomerAndOutlet(s, c) ==
  /\ CabInfo[c].customer # None
  /\ CabInfo[c].customer = ErpInfo[s].customer
  /\ CabInfo[c].outlet = ErpInfo[s].outlet

Waiting_AnyOutlet(rows, p) ==
  {s \in Sessions : /\ CabInfo[p.session_id].customer # None
                    /\ CabInfo[p.session_id].customer = ErpInfo[s].customer
                    /\ rows[s].cabinet_session_id = None
                    /\ rows[s].status \in {"reserved", "active"}}

Waiting(rows, p) ==
  {s \in Sessions : /\ SameCustomerAndOutlet(s, p.session_id)
                    /\ rows[s].cabinet_session_id = None
                    /\ rows[s].status \in {"reserved", "active"}}

Newest(S) == {s \in S : \A t \in S : t <= s}

\* At most one row; none means "unknown": not the ERP's session, not imported.
Found(rows, p) ==
  IF ByRef(p) # {} THEN ByRef(p)
  ELSE IF ByLink(rows, p) # {} THEN ByLink(rows, p)
  ELSE Newest(Waiting(rows, p))

\* A cabinet session can only be this row's if find() may pair the two.
MayBelong(c, s) == CabInfo[c].erp_ref = s \/ SameCustomerAndOutlet(s, c)

-----------------------------------------------------------------------------
Untouchable_Never(row) == FALSE

\* "A session already billed is never touched again."
Untouchable(row) == row.billing_state = "billed"

\* Only the pull may say "reconciled", and only of an ended session.
IsFinal(p, by_pull) == by_pull /\ p.ended

StatusOf_CabinetWord(p) == IF p.ended THEN "completed" ELSE "active"

\* Anything but "ended" is active again, a session the ERP holds as ended included.
StatusOf(p) == IF p.ended THEN "ended" ELSE "active"

\* apply(): the row as the ORM object holds it after the call.
Apply(s, row, p, by_pull) ==
  IF Untouchable(row) THEN row
  ELSE [cabinet_session_id |-> p.session_id,
        status        |-> StatusOf(p),
        figure        |-> p.figure,
        billing_state |-> IF Review(s, p) THEN "manual_review" ELSE row.billing_state,
        reconciled    |-> row.reconciled \/ IsFinal(p, by_pull),
        ack_sent      |-> row.ack_sent]
=============================================================================
