--------------------- MODULE SessionReconciliationProofs ---------------------
(***************************************************************************)
(* What TLC checks of SessionReconciliation on two rows, proved for any    *)
(* number of rows, cabinet sessions and web workers, and either contract.  *)
(***************************************************************************)
EXTENDS SessionReconciliation, TLAPS

(* The operators of SessionSync and of the transactions *)

\* apply() returns a row of the table.
LEMMA ApplyType ==
  ASSUME NEW s \in Sessions, NEW row \in Row, NEW m \in Payload, NEW by_pull \in BOOLEAN
  PROVE  Apply(s, row, m, by_pull) \in Row
BY DEF Apply, Row, Payload, Untouchable, StatusOf, IsFinal

\* The cabinet's answer is a payload.
LEMMA PayloadType ==
  ASSUME NEW c \in CabSessions, NEW e \in BOOLEAN, NEW r \in Nat
  PROVE  PayloadOf(c, e, r) \in Payload
BY DEF PayloadOf, Payload, Figures

\* find() pairs a payload only with one of the ERP's rows.
LEMMA FoundIsRow ==
  ASSUME NEW rows, NEW m
  PROVE  Found(rows, m) \subseteq Sessions
BY DEF Found, ByRef, ByLink, Newest, Waiting

\* A column-level UPDATE of a row by a row gives a row.
LEMMA WrittenType ==
  ASSUME NEW loaded, NEW new \in Row, NEW row \in Row
  PROVE  Written(loaded, new, row) \in Row
BY DEF Written, Row

\* What a transaction flushes is a table.
LEMMA FlushedType ==
  ASSUME TypeOK, NEW p \in Procs
  PROVE  Flushed(p) \in [Sessions -> Row]
<1>1. ASSUME NEW s \in Sessions, work[p][s] # None
      PROVE  Written(base[p][s], work[p][s], sessions[s]) \in Row
  <2>1. work[p][s] \in Row /\ sessions[s] \in Row
    BY <1>1 DEF TypeOK
  <2> QED
    BY <2>1, WrittenType
<1> QED
  BY <1>1 DEF Flushed, TypeOK

\* Applying one payload keeps the transactions' rows typed.
LEMMA ApplyInType ==
  ASSUME TypeOK, NEW p \in Procs, NEW m \in Payload, NEW by_pull \in BOOLEAN,
         ApplyIn(p, m, by_pull)
  PROVE  /\ base' \in [Procs -> [Sessions -> Row \union {None}]]
         /\ work' \in [Procs -> [Sessions -> Row \union {None}]]
<1>1. CASE Found(sessions, m) = {}
  BY <1>1 DEF ApplyIn, tx, TypeOK
<1>2. CASE Found(sessions, m) # {}
  <2>1. PICK s \in Found(sessions, m) :
          LET fresh == work[p][s] = None
              row   == IF fresh THEN sessions[s] ELSE work[p][s]
          IN  /\ base' = [base EXCEPT ![p][s] = IF fresh THEN sessions[s] ELSE @]
              /\ work' = [work EXCEPT ![p][s] = Apply(s, row, m, by_pull)]
    BY <1>2 DEF ApplyIn
  <2>2. s \in Sessions
    BY FoundIsRow
  <2> DEFINE row == IF work[p][s] = None THEN sessions[s] ELSE work[p][s]
  <2>3. row \in Row
    BY <2>2 DEF TypeOK
  <2>4. Apply(s, row, m, by_pull) \in Row
    BY <2>2, <2>3, ApplyType
  <2>5. base' \in [Procs -> [Sessions -> Row \union {None}]]
    BY <2>1, <2>2 DEF TypeOK
  <2>6. work' = [work EXCEPT ![p][s] = Apply(s, row, m, by_pull)]
    BY <2>1
  <2>7. work' \in [Procs -> [Sessions -> Row \union {None}]]
    <3> HIDE DEF row
    <3> QED BY <2>2, <2>4, <2>6 DEF TypeOK
  <2> QED
    BY <2>5, <2>7
<1> QED
  BY <1>1, <1>2

\* Forgetting a transaction keeps the others typed.
LEMMA ForgetType ==
  ASSUME TypeOK, NEW p \in Procs, Forget(p)
  PROVE  /\ base' \in [Procs -> [Sessions -> Row \union {None}]]
         /\ work' \in [Procs -> [Sessions -> Row \union {None}]]
BY DEF TypeOK, Forget, Nothing

\* A commit gives a table and closes the transaction.
LEMMA CommitType ==
  ASSUME TypeOK, NEW p \in Procs, Commit(p)
  PROVE  /\ sessions' \in [Sessions -> Row]
         /\ base' \in [Procs -> [Sessions -> Row \union {None}]]
         /\ work' \in [Procs -> [Sessions -> Row \union {None}]]
BY FlushedType, ForgetType DEF Commit

\* What the cabinet answers now is a payload.
LEMMA SnapshotType ==
  ASSUME TypeOK, NEW c \in CabSessions
  PROVE  Snapshot(c) \in Payload
BY PayloadType DEF Snapshot, TypeOK

\* A cabinet step posts a payload.
LEMMA PostType ==
  ASSUME TypeOK, NEW c \in CabSessions, Post(c),
         cabinet' \in [CabSessions -> [state : {"idle", "active", "ended"}, register : Nat]]
  PROVE  webhooks' \subseteq Payload
<1>1. Snapshot(c)' = PayloadOf(c, cabinet'[c].state = "ended", cabinet'[c].register)
  BY DEF Snapshot
<1>2. Snapshot(c)' \in Payload
  BY <1>1, PayloadType
<1> QED
  BY <1>2 DEF Post, TypeOK

-----------------------------------------------------------------------------
(* Type correctness *)

\* The steps of the cabinet keep the types.
LEMMA CabinetType ==
  ASSUME TypeOK, Cabinet
  PROVE  TypeOK'
<1> PICK c \in CabSessions : Activate(c) \/ Meter(c) \/ EndSession(c)
  BY DEF Cabinet
<1>1. /\ cabinet' \in [CabSessions -> [state : {"idle", "active", "ended"}, register : Nat]]
      /\ Post(c)
      /\ UNCHANGED <<sessions, tx, pull, cabinet_acked>>
  <2>1. CASE Activate(c)   BY <2>1 DEF Activate, TypeOK
  <2>2. CASE Meter(c)      BY <2>2 DEF Meter, TypeOK
  <2>3. CASE EndSession(c) BY <2>3 DEF EndSession, TypeOK
  <2> QED BY <2>1, <2>2, <2>3
<1> QED
  BY <1>1, PostType DEF TypeOK, tx, pull

\* The steps of the webhook handlers keep the types.
LEMMA WebhookType ==
  ASSUME TypeOK, Webhook
  PROVE  TypeOK'
<1>1. ASSUME NEW h \in Handlers, NEW m \in webhooks, ReceiveWebhook(h, m)
      PROVE  TypeOK'
  <2>1. m \in Payload /\ h \in Procs /\ ApplyIn(h, m, FALSE)
    BY <1>1 DEF TypeOK, Procs, ReceiveWebhook
  <2> QED BY <1>1, <2>1, ApplyInType DEF TypeOK, ReceiveWebhook, pull
<1>2. ASSUME NEW h \in Handlers, CommitWebhook(h)
      PROVE  TypeOK'
  BY <1>2, CommitType DEF TypeOK, CommitWebhook, pull, Procs
<1>3. ASSUME NEW h \in Handlers, RefuseWebhook(h) \/ HandlerDies(h)
      PROVE  TypeOK'
  BY <1>3, ForgetType DEF TypeOK, RefuseWebhook, HandlerDies, pull, Procs
<1> QED
  BY <1>1, <1>2, <1>3 DEF Webhook

\* The steps of the pull keep the types.
LEMMA ReconcileType ==
  ASSUME TypeOK, Reconcile
  PROVE  TypeOK'
<1> Pull \in Procs
  BY DEF Procs
<1>1. ASSUME NEW W \in SUBSET Ended, StartRange(W)
      PROVE  TypeOK'
  BY <1>1 DEF StartRange, TypeOK, tx, Phases, Ended
<1>2. ASSUME NEW nightly \in BOOLEAN, StartUsers(nightly)
      PROVE  TypeOK'
  <2>1. refs' \subseteq Customers
    BY <1>2, InfoAssumption DEF StartUsers
  <2> QED BY <1>2, <2>1 DEF StartUsers, TypeOK, tx, Phases
<1>3. ASSUME NEW P \in SUBSET todo, FetchPage(P)
      PROVE  TypeOK'
  BY <1>3, SnapshotType DEF FetchPage, TypeOK, tx
<1>4. ASSUME NEW u \in refs, FetchUser(u)
      PROVE  TypeOK'
  BY <1>4, SnapshotType DEF FetchUser, TypeOK, tx
<1>5. ASSUME NEW m \in inbox, ApplyOne(m)
      PROVE  TypeOK'
  <2>1. m \in Payload /\ ApplyIn(Pull, m, TRUE)
    BY <1>5 DEF TypeOK, ApplyOne
  <2> QED BY <1>5, <2>1, ApplyInType DEF TypeOK, ApplyOne
<1>6. CASE CommitAnswer
  BY <1>6, CommitType DEF CommitAnswer, TypeOK, pull
<1>7. CASE StartRefresh
  BY <1>7 DEF StartRefresh, TypeOK, Phases, Row
<1>8. ASSUME NEW c \in todo, NEW answered \in BOOLEAN, FetchOpen(c, answered)
      PROVE  TypeOK'
  BY <1>8, SnapshotType DEF FetchOpen, TypeOK, tx
<1>9. CASE CommitRefresh
  BY <1>9, CommitType DEF CommitRefresh, TypeOK, Phases
<1>10. CASE PostAck
  <2>1. ASSUME NEW s \in Sessions
        PROVE  sessions[s] \in Row /\ [sessions[s] EXCEPT !.ack_sent = TRUE] \in Row
    BY <2>1 DEF TypeOK, Row
  <2>2. ASSUME NEW s \in ToConfirm
        PROVE  s \in Sessions /\ sessions[s].cabinet_session_id \in CabSessions
    BY <2>2 DEF ToConfirm, Confirmable, TypeOK, Row
  <2>3. work' \in [Procs -> [Sessions -> Row \union {None}]]
    BY <1>10, <2>1 DEF PostAck, TypeOK
  <2>4. base' \in [Procs -> [Sessions -> Row \union {None}]]
    BY <1>10, <2>1 DEF PostAck, TypeOK
  <2>5. cabinet_acked' \subseteq CabSessions
    BY <1>10, <2>2 DEF PostAck, TypeOK
  <2> QED BY <1>10, <2>3, <2>4, <2>5 DEF PostAck, TypeOK, Phases
<1>11. CASE RecordAck
  BY <1>11, CommitType DEF RecordAck, TypeOK, Phases
<1>12. CASE AckUnanswered
  BY <1>12, ForgetType DEF AckUnanswered, TypeOK, Phases
<1>13. CASE FinishRange \/ FinishUsers
  BY <1>13 DEF FinishRange, FinishUsers, TypeOK, tx, Phases
<1>14. CASE RefuseAnswer \/ RunFails
  BY <1>14, ForgetType DEF RefuseAnswer, RunFails, AbandonRun, TypeOK, Phases
<1> QED
  BY <1>1, <1>2, <1>3, <1>4, <1>5, <1>6, <1>7, <1>8, <1>9, <1>10, <1>11, <1>12, <1>13,
     <1>14 DEF Reconcile, RunStep

\* Billing a row keeps the types.
LEMMA BillType ==
  ASSUME TypeOK, NEW s \in Sessions, Bill(s)
  PROVE  TypeOK'
BY DEF Bill, TypeOK, tx, pull, Row

\* Every reachable state is well typed: a row only ever holds one of its statuses, a
\* figure or NULL, and a cabinet session's id or NULL.
THEOREM TypeCorrect == Spec => []TypeOK
<1>1. Init => TypeOK
  BY DEF Init, TypeOK, NewRow, Row, Figures, Nothing, Phases, Procs
<1>2. TypeOK /\ [Next]_vars => TypeOK'
  <2> SUFFICES ASSUME TypeOK, [Next]_vars
               PROVE  TypeOK'
    OBVIOUS
  <2>1. CASE UNCHANGED vars
    BY <2>1 DEF vars, TypeOK
  <2> QED
    BY <2>1, CabinetType, WebhookType, ReconcileType, BillType DEF Next
<1> QED
  BY <1>1, <1>2, PTL DEF Spec
-----------------------------------------------------------------------------
(* The inductive invariant *)

\* What Inv says of the rows, the transactions and the ack.
Rows == RowsSupported /\ TransactionsHarmless /\ AckTruthful /\ AckSupported /\ DbAccepts(sessions)

\* find() never pairs a payload with a row it may not belong to: neither by the echoed
\* reference, nor by a link that is itself justified, nor by customer and outlet.
LEMMA FoundMayBelong ==
  ASSUME Inv, NEW m \in Payload, NEW s \in Found(sessions, m)
  PROVE  MayBelong(m.session_id, s)
<1>1. s \in ByRef(m) => MayBelong(m.session_id, s)
  BY DEF ByRef, MayBelong
<1>2. s \in ByLink(sessions, m) => MayBelong(m.session_id, s)
  BY NoneAssumption DEF ByLink, Inv, RowsSupported, Supported, Payload
<1>3. s \in Newest(Waiting(sessions, m)) => MayBelong(m.session_id, s)
  BY DEF Newest, Waiting, MayBelong
<1> QED
  BY <1>1, <1>2, <1>3 DEF Found

\* A payload applied inside a transaction leaves a row that is still justified, keeps a
\* billed one as it was, and bills nothing.
LEMMA ApplySound ==
  ASSUME Inv, NEW m \in Payload, EventsTruthful, m.ended => m.session_id \in Ended,
         NEW s \in Found(sessions, m), NEW row \in Row, Supported(s, row),
         NEW by_pull \in BOOLEAN
  PROVE  LET new == Apply(s, row, m, by_pull)
         IN  /\ Supported(s, new)
             /\ new.billing_state = "billed" <=> row.billing_state = "billed"
             /\ row.billing_state = "billed" => new = row
             /\ new.ack_sent = row.ack_sent
<1>1. MayBelong(m.session_id, s)
  BY FoundMayBelong
<1>2. CASE Untouchable(row)
  BY <1>2 DEF Apply, Untouchable
<1>3. CASE ~Untouchable(row)
  <2>1. /\ Apply(s, row, m, by_pull).cabinet_session_id = m.session_id
        /\ Apply(s, row, m, by_pull).reconciled = (row.reconciled \/ IsFinal(m, by_pull))
        /\ Apply(s, row, m, by_pull).billing_state \in {"manual_review", row.billing_state}
        /\ Apply(s, row, m, by_pull).ack_sent = row.ack_sent
    BY <1>3 DEF Apply
  <2>2. Supported(s, Apply(s, row, m, by_pull))
    BY <1>1, <2>1 DEF Supported, IsFinal
  <2> QED
    BY <1>3, <2>1, <2>2 DEF Untouchable
<1> QED
  BY <1>2, <1>3

\* Applying a payload in any transaction keeps what Inv says of the rows.
LEMMA ApplyInSound ==
  ASSUME Inv, NEW p \in Procs, NEW m \in Payload, m.ended => m.session_id \in Ended,
         NEW by_pull \in BOOLEAN, ApplyIn(p, m, by_pull),
         UNCHANGED <<cabinet, sessions, cabinet_acked>>
  PROVE  Rows'
<1> USE DEF Inv
<1>1. CASE Found(sessions, m) = {}
  <2>1. UNCHANGED <<base, work>>
    BY <1>1 DEF ApplyIn, tx
  <2> QED
    BY <2>1 DEF Rows, RowsSupported, Supported, TransactionsHarmless, Harmless, AckTruthful,
                AckSupported, Told, DbAccepts, Ended
<1>2. CASE Found(sessions, m) # {}
  <2>1. PICK s \in Found(sessions, m) :
          LET fresh == work[p][s] = None
              row   == IF fresh THEN sessions[s] ELSE work[p][s]
          IN  /\ base' = [base EXCEPT ![p][s] = IF fresh THEN sessions[s] ELSE @]
              /\ work' = [work EXCEPT ![p][s] = Apply(s, row, m, by_pull)]
    BY <1>2 DEF ApplyIn
  <2> DEFINE row == IF work[p][s] = None THEN sessions[s] ELSE work[p][s]
             old == IF work[p][s] = None THEN sessions[s] ELSE base[p][s]
             new == Apply(s, row, m, by_pull)
  <2>2. s \in Sessions
    BY FoundIsRow
  <2>3. row \in Row /\ Supported(s, row)
    BY <2>2 DEF TypeOK, RowsSupported
  <2>4. /\ base' = [base EXCEPT ![p][s] = old]
        /\ work' = [work EXCEPT ![p][s] = new]
    BY <2>1
  <2>5. /\ Supported(s, new)
        /\ new.billing_state = "billed" <=> row.billing_state = "billed"
        /\ row.billing_state = "billed" => new = row
        /\ new.ack_sent = row.ack_sent
    BY <2>3, ApplySound
  <2>6. /\ old \in Row /\ old # None
        /\ old.billing_state = "billed" <=> sessions[s].billing_state = "billed"
        /\ old.billing_state = "billed" => SameButAck(row, old)
        /\ old.billing_state # "billed" => row.billing_state # "billed"
        /\ row.ack_sent => Told(s)
    <3>1. CASE work[p][s] = None
      <4>1. sessions[s] \in Row /\ sessions[s] # None
        BY <2>2, NoneAssumption DEF TypeOK
      <4>2. SameButAck(sessions[s], sessions[s])
        BY <4>1 DEF SameButAck, Row
      <4> QED BY <2>2, <3>1, <4>1, <4>2 DEF AckSupported
    <3>2. CASE work[p][s] # None
      BY <2>2, <3>2 DEF TransactionsHarmless, Harmless, AckSupported, TypeOK
    <3> QED BY <3>1, <3>2
  <2> HIDE DEF row, old, new
  <2>7. new \in Row /\ new # None
    BY <2>2, <2>3, ApplyType, NoneAssumption DEF new
  <2>8. old.billing_state = "billed" => row.billing_state = "billed"
    BY <2>6, <2>3 DEF SameButAck, Row
  <2>9. \A q \in Procs, t \in Sessions :
          IF q = p /\ t = s THEN work'[q][t] = new /\ base'[q][t] = old
                           ELSE work'[q][t] = work[q][t] /\ base'[q][t] = base[q][t]
    BY <2>2, <2>4 DEF TypeOK
  <2>10. RowsSupported'
    BY <2>2, <2>5, <2>9 DEF RowsSupported, Supported, Ended
  <2>11. TransactionsHarmless'
    BY <2>2, <2>5, <2>6, <2>8, <2>9 DEF TransactionsHarmless, Harmless
  <2>12. AckSupported'
    BY <2>2, <2>5, <2>6, <2>9 DEF AckSupported, Told
  <2> QED
    BY <2>10, <2>11, <2>12 DEF Rows, AckTruthful, DbAccepts
<1> QED
  BY <1>1, <1>2

\* What a transaction's UPDATE does to a row: whatever committed in between, the row
\* stays justified, is billed exactly if it was, and if it was only ack_sent changes.
LEMMA FlushSound ==
  ASSUME Inv, NEW p \in Procs, NEW s \in Sessions
  PROVE  /\ Flushed(p)[s] \in Row
         /\ Supported(s, Flushed(p)[s])
         /\ Flushed(p)[s].billing_state = "billed" <=> sessions[s].billing_state = "billed"
         /\ sessions[s].billing_state = "billed" => SameButAck(Flushed(p)[s], sessions[s])
         /\ Flushed(p)[s].ack_sent => Told(s)
         /\ sessions[s].reconciled => Flushed(p)[s].reconciled
<1>1. sessions[s] \in Row
  BY DEF Inv, TypeOK
<1>2. CASE work[p][s] = None
  <2>1. Flushed(p)[s] = sessions[s]
    BY <1>2 DEF Flushed
  <2> QED
    BY <1>1, <2>1 DEF Inv, RowsSupported, AckSupported, SameButAck, Row
<1>3. CASE work[p][s] # None
  <2> DEFINE new == work[p][s]
             old == base[p][s]
             row == sessions[s]
  <2>1. Flushed(p)[s] = Written(old, new, row)
    BY <1>3 DEF Flushed
  <2>2. /\ new \in Row /\ old \in Row /\ row \in Row
        /\ Supported(s, new) /\ Supported(s, row)
        /\ old.billing_state = "billed" <=> row.billing_state = "billed"
        /\ old.billing_state = "billed" => SameButAck(new, old)
        /\ old.billing_state # "billed" => new.billing_state # "billed"
        /\ new.ack_sent => Told(s)
        /\ row.ack_sent => Told(s)
        /\ row.billing_state = "billed" => row.reconciled
    BY <1>3 DEF Inv, TypeOK, RowsSupported, TransactionsHarmless, Harmless, AckSupported,
                DbAccepts
  <2> HIDE DEF new, old, row
  <2>3. Written(old, new, row) \in Row
    BY <2>2, WrittenType
  <2>4. Supported(s, Written(old, new, row))
    BY <2>2 DEF Supported, Written
  <2>5. /\ Written(old, new, row).ack_sent => Told(s)
        /\ row.reconciled => Written(old, new, row).reconciled
    BY <2>2 DEF Written
  <2>6. CASE row.billing_state = "billed"
    <3>1. /\ new.cabinet_session_id = old.cabinet_session_id
          /\ new.status = old.status
          /\ new.figure = old.figure
          /\ new.billing_state = old.billing_state
      BY <2>2, <2>6 DEF SameButAck, Row
    <3>2. Written(old, new, row) = [row EXCEPT !.ack_sent = new.ack_sent \/ row.ack_sent]
      <4>1. (new.reconciled \/ row.reconciled) = row.reconciled
        BY <2>2, <2>6 DEF Row
      <4> QED BY <2>2, <3>1, <4>1 DEF Written, Row
    <3>3. SameButAck(Written(old, new, row), row)
      BY <3>2, <2>2 DEF SameButAck, Row
    <3>4. Written(old, new, row).billing_state = "billed"
      BY <2>6, <3>1 DEF Written
    <3> QED BY <2>1, <2>3, <2>4, <2>5, <2>6, <3>3, <3>4 DEF row
  <2>7. CASE row.billing_state # "billed"
    <3>1. Written(old, new, row).billing_state # "billed"
      BY <2>2, <2>7 DEF Written
    <3> QED BY <2>1, <2>3, <2>4, <2>5, <2>7, <3>1 DEF row
  <2> QED BY <2>6, <2>7
<1> QED
  BY <1>2, <1>3

\* A transaction that is given up leaves the rows as they are.
LEMMA ForgetSound ==
  ASSUME Inv, NEW p \in Procs, Forget(p), UNCHANGED <<cabinet, sessions, cabinet_acked>>
  PROVE  Rows'
<1>1. \A q \in Procs, s \in Sessions :
        \/ work'[q][s] = None
        \/ work'[q][s] = work[q][s] /\ base'[q][s] = base[q][s]
  BY DEF Inv, TypeOK, Forget, Nothing
<1> QED
  BY <1>1 DEF Inv, Rows, RowsSupported, Supported, TransactionsHarmless, Harmless, AckTruthful,
              AckSupported, Told, DbAccepts, Ended

\* A commit keeps what Inv says of the rows, of the other open transactions too.
LEMMA CommitSound ==
  ASSUME Inv, NEW p \in Procs, Commit(p), UNCHANGED <<cabinet, cabinet_acked>>
  PROVE  Rows'
<1>1. \A q \in Procs, s \in Sessions :
        \/ work'[q][s] = None
        \/ work'[q][s] = work[q][s] /\ base'[q][s] = base[q][s]
  BY DEF Inv, TypeOK, Commit, Forget, Nothing
<1>2. /\ sessions' = Flushed(p)
      /\ DbAccepts(sessions')
  BY DEF Commit
<1>3. \A s \in Sessions :
         /\ sessions'[s] \in Row
         /\ Supported(s, sessions'[s])
         /\ sessions'[s].billing_state = "billed" <=> sessions[s].billing_state = "billed"
         /\ sessions[s].billing_state = "billed" => SameButAck(sessions'[s], sessions[s])
         /\ sessions'[s].ack_sent => Told(s)
  BY <1>2, FlushSound
<1>4. \A s \in Sessions : Told(s) => Told(s)'
  BY <1>3 DEF Told, SameButAck, Inv, TypeOK, Row
<1>5. RowsSupported'
  BY <1>1, <1>3 DEF Inv, RowsSupported, Supported, Ended
<1>6. TransactionsHarmless'
  BY <1>1, <1>3 DEF Inv, TransactionsHarmless, Harmless
<1>7. AckSupported'
  BY <1>1, <1>3, <1>4 DEF Inv, AckSupported
<1>8. AckTruthful'
  <2>1. ASSUME NEW c \in cabinet_acked
        PROVE  \E s \in Sessions : /\ sessions'[s].cabinet_session_id = c
                                  /\ sessions'[s].billing_state = "billed"
    <3>1. PICK s \in Sessions : /\ sessions[s].cabinet_session_id = c
                               /\ sessions[s].billing_state = "billed"
      BY <2>1 DEF Inv, AckTruthful
    <3>2. sessions'[s].cabinet_session_id = sessions[s].cabinet_session_id
      BY <1>3, <3>1 DEF SameButAck, Inv, TypeOK, Row
    <3> QED BY <1>3, <3>1, <3>2
  <2>2. ASSUME NEW s \in Sessions, sessions'[s].ack_sent
        PROVE  sessions'[s].cabinet_session_id \in cabinet_acked
    BY <1>3, <1>4, <2>2 DEF Told
  <2> QED BY <2>1, <2>2 DEF AckTruthful
<1> QED
  BY <1>2, <1>5, <1>6, <1>7, <1>8 DEF Rows, DbAccepts

\* A transaction opened on rows just read, the ack aside, is sound: _refresh_active.
LEMMA LoadSound ==
  ASSUME Inv, StartRefresh
  PROVE  Rows'
<1>1. \A q \in Procs, s \in Sessions :
        \/ work'[q][s] = None
        \/ work'[q][s] = work[q][s] /\ base'[q][s] = base[q][s]
        \/ work'[q][s] = sessions[s] /\ base'[q][s] = sessions[s]
  BY DEF StartRefresh, Inv, TypeOK
<1>2. UNCHANGED <<cabinet, sessions, cabinet_acked>>
  BY DEF StartRefresh
<1>3. \A s \in Sessions : sessions[s] \in Row /\ sessions[s] # None
                          /\ SameButAck(sessions[s], sessions[s])
  BY NoneAssumption DEF Inv, TypeOK, SameButAck, Row
<1>4. RowsSupported'
  BY <1>1, <1>2 DEF Inv, RowsSupported, Supported, Ended
<1>5. TransactionsHarmless'
  BY <1>1, <1>2, <1>3 DEF Inv, TransactionsHarmless, Harmless
<1>6. AckSupported'
  BY <1>1, <1>2 DEF Inv, AckSupported, Told
<1> QED
  BY <1>2, <1>4, <1>5, <1>6 DEF Inv, Rows, AckTruthful, DbAccepts

\* Telling the cabinet keeps what Inv says of the rows: only billed ones are told.
LEMMA PostAckSound ==
  ASSUME Inv, PostAck
  PROVE  Rows'
<1> DEFINE told(s) == [sessions[s] EXCEPT !.ack_sent = TRUE]
<1>1. \A q \in Procs, s \in Sessions :
        \/ work'[q][s] = None
        \/ work'[q][s] = work[q][s] /\ base'[q][s] = base[q][s]
        \/ s \in ToConfirm /\ work'[q][s] = told(s) /\ base'[q][s] = sessions[s]
  BY DEF PostAck, Inv, TypeOK
<1>2. /\ UNCHANGED <<cabinet, sessions>>
      /\ cabinet_acked' = cabinet_acked \union {sessions[s].cabinet_session_id : s \in ToConfirm}
  BY DEF PostAck
<1>3. \A s \in Sessions :
        /\ sessions[s] \in Row /\ sessions[s] # None
        /\ SameButAck(told(s), sessions[s])
        /\ Supported(s, told(s))
        /\ told(s).billing_state = sessions[s].billing_state
  <2> TAKE s \in Sessions
  <2>1. sessions[s] \in Row /\ sessions[s] # None
    BY NoneAssumption DEF Inv, TypeOK
  <2>2. /\ SameButAck(told(s), sessions[s])
        /\ told(s).billing_state = sessions[s].billing_state
        /\ told(s).cabinet_session_id = sessions[s].cabinet_session_id
        /\ told(s).reconciled = sessions[s].reconciled
    BY <2>1 DEF SameButAck, Row
  <2>3. Supported(s, told(s))
    BY <2>2 DEF Inv, RowsSupported, Supported
  <2> QED BY <2>1, <2>2, <2>3
<1>4. \A s \in ToConfirm : s \in Sessions /\ sessions[s].billing_state = "billed"
  BY DEF ToConfirm, Confirmable
<1> HIDE DEF told
<1>5. RowsSupported'
  BY <1>1, <1>2, <1>3 DEF Inv, RowsSupported, Supported, Ended
<1>6. TransactionsHarmless'
  BY <1>1, <1>2, <1>3 DEF Inv, TransactionsHarmless, Harmless
<1>7. \A s \in Sessions : (Told(s) => Told(s)') /\ (s \in ToConfirm => Told(s)')
  BY <1>2, <1>4 DEF Told
<1>8. AckSupported'
  BY <1>1, <1>2, <1>7 DEF Inv, AckSupported
<1>9. AckTruthful'
  <2>1. ASSUME NEW c \in cabinet_acked'
        PROVE  \E s \in Sessions : /\ sessions[s].cabinet_session_id = c
                                  /\ sessions[s].billing_state = "billed"
    BY <1>2, <1>4, <2>1 DEF Inv, AckTruthful
  <2>2. \A s \in Sessions : sessions[s].ack_sent => sessions[s].cabinet_session_id \in cabinet_acked'
    BY <1>2 DEF Inv, AckTruthful
  <2> QED BY <1>2, <2>1, <2>2 DEF AckTruthful
<1> QED
  BY <1>2, <1>5, <1>6, <1>8, <1>9 DEF Inv, Rows, DbAccepts

\* Billing opens on no transaction, and only on a row the database lets be billed.
LEMMA BillSound ==
  ASSUME Inv, NEW s \in Sessions, Bill(s)
  PROVE  Rows'
<1> DEFINE billed == [sessions[s] EXCEPT !.billing_state = "billed"]
<1>1. /\ sessions' = [sessions EXCEPT ![s] = billed]
      /\ DbAccepts(sessions')
      /\ UNCHANGED <<cabinet, base, work, cabinet_acked>>
      /\ \A p \in Procs : work[p][s] = None
      /\ sessions[s].billing_state = "pending"
  BY DEF Bill, tx
<1>2. /\ billed.cabinet_session_id = sessions[s].cabinet_session_id
      /\ billed.reconciled = sessions[s].reconciled
      /\ billed.ack_sent = sessions[s].ack_sent
      /\ billed.billing_state = "billed"
  BY DEF Inv, TypeOK, Row
<1> HIDE DEF billed
<1>3. \A t \in Sessions : sessions'[t] = IF t = s THEN billed ELSE sessions[t]
  BY <1>1 DEF Inv, TypeOK
<1>4. RowsSupported'
  BY <1>1, <1>2, <1>3 DEF Inv, RowsSupported, Supported, Ended
<1>5. TransactionsHarmless'
  BY <1>1, <1>3 DEF Inv, TransactionsHarmless, Harmless
<1>6. \A t \in Sessions : Told(t) => Told(t)'
  BY <1>1, <1>2, <1>3 DEF Told
<1>7. AckSupported'
  BY <1>1, <1>2, <1>3, <1>6 DEF Inv, AckSupported
<1>8. AckTruthful'
  BY <1>1, <1>2, <1>3 DEF Inv, AckTruthful
<1> QED
  BY <1>1, <1>4, <1>5, <1>7, <1>8 DEF Rows, DbAccepts

\* The cabinet's own steps: a session that ended stays ended, and is announced as ended
\* only then.
LEMMA CabinetSound ==
  ASSUME Inv, TypeOK', Cabinet
  PROVE  EventsTruthful' /\ Rows'
<1> PICK c \in CabSessions : Activate(c) \/ Meter(c) \/ EndSession(c)
  BY DEF Cabinet
<1>1. /\ Ended \subseteq Ended'
      /\ Post(c)
      /\ UNCHANGED <<sessions, base, work, inbox, cabinet_acked>>
  <2>1. CASE Activate(c)   BY <2>1 DEF Activate, Ended, Inv, TypeOK, tx, pull
  <2>2. CASE Meter(c)      BY <2>2 DEF Meter, Ended, Inv, TypeOK, tx, pull
  <2>3. CASE EndSession(c) BY <2>3 DEF EndSession, Ended, Inv, TypeOK, tx, pull
  <2> QED BY <2>1, <2>2, <2>3
<1>2. Snapshot(c)'.ended => Snapshot(c)'.session_id \in Ended'
  BY DEF Snapshot, PayloadOf, Ended
<1>3. EventsTruthful'
  BY <1>1, <1>2 DEF Inv, EventsTruthful, Post
<1>4. RowsSupported'
  BY <1>1 DEF Inv, RowsSupported, Supported
<1> QED
  BY <1>1, <1>3, <1>4 DEF Inv, Rows, TransactionsHarmless, Harmless, AckTruthful, AckSupported,
                          Told, DbAccepts

\* Steps that only move the pull along.
LEMMA PullMoves ==
  ASSUME Inv, UNCHANGED <<cabinet, sessions, base, work, cabinet_acked>>
  PROVE  Rows'
BY DEF Inv, Rows, RowsSupported, Supported, TransactionsHarmless, Harmless, AckTruthful,
       AckSupported, Told, DbAccepts, Ended

LEMMA WebhookSound ==
  ASSUME Inv, Webhook
  PROVE  EventsTruthful' /\ Rows'
<1> Handlers \subseteq Procs
  BY DEF Procs
<1>1. ASSUME NEW h \in Handlers, NEW m \in webhooks, ReceiveWebhook(h, m)
      PROVE  EventsTruthful' /\ Rows'
  <2>1. /\ m \in Payload /\ (m.ended => m.session_id \in Ended)
        /\ ApplyIn(h, m, FALSE)
        /\ UNCHANGED <<cabinet, sessions, cabinet_acked>>
    BY <1>1 DEF Inv, TypeOK, EventsTruthful, ReceiveWebhook
  <2>2. Rows'
    BY <2>1, ApplyInSound
  <2> QED BY <1>1, <2>2 DEF Inv, EventsTruthful, ReceiveWebhook, Ended, pull
<1>2. ASSUME NEW h \in Handlers, CommitWebhook(h)
      PROVE  EventsTruthful' /\ Rows'
  BY <1>2, CommitSound DEF Inv, EventsTruthful, CommitWebhook, Ended, pull
<1>3. ASSUME NEW h \in Handlers, RefuseWebhook(h) \/ HandlerDies(h)
      PROVE  EventsTruthful' /\ Rows'
  BY <1>3, ForgetSound DEF Inv, EventsTruthful, RefuseWebhook, HandlerDies, Ended, pull
<1> QED
  BY <1>1, <1>2, <1>3 DEF Webhook

LEMMA ReconcileSound ==
  ASSUME Inv, Reconcile
  PROVE  EventsTruthful' /\ Rows'
<1> Pull \in Procs
  BY DEF Procs
<1> USE DEF EventsTruthful
<1>0. \A c \in CabSessions : Snapshot(c).ended => Snapshot(c).session_id \in Ended
  BY DEF Snapshot, PayloadOf, Ended
<1>1. ASSUME NEW W \in SUBSET Ended, StartRange(W)
      PROVE  EventsTruthful' /\ Rows'
  BY <1>1, PullMoves DEF StartRange, Inv, tx, Ended
<1>2. ASSUME NEW nightly \in BOOLEAN, StartUsers(nightly)
      PROVE  EventsTruthful' /\ Rows'
  BY <1>2, PullMoves DEF StartUsers, Inv, tx, Ended
<1>3. ASSUME NEW P \in SUBSET todo, FetchPage(P)
      PROVE  EventsTruthful' /\ Rows'
  BY <1>0, <1>3, PullMoves DEF FetchPage, Inv, TypeOK, tx, Ended
<1>4. ASSUME NEW u \in refs, FetchUser(u)
      PROVE  EventsTruthful' /\ Rows'
  BY <1>0, <1>4, PullMoves DEF FetchUser, Inv, tx, Ended
<1>5. ASSUME NEW m \in inbox, ApplyOne(m)
      PROVE  EventsTruthful' /\ Rows'
  <2>1. /\ m \in Payload /\ (m.ended => m.session_id \in Ended)
        /\ ApplyIn(Pull, m, TRUE)
        /\ UNCHANGED <<cabinet, sessions, cabinet_acked>>
    BY <1>5 DEF Inv, TypeOK, ApplyOne
  <2>2. Rows'
    BY <2>1, ApplyInSound
  <2> QED BY <1>5, <2>2 DEF Inv, ApplyOne, Ended
<1>6. CASE CommitAnswer
  BY <1>6, CommitSound DEF CommitAnswer, Inv, Ended, pull
<1>7. CASE StartRefresh
  <2>1. Rows'
    BY <1>7, LoadSound
  <2> QED BY <1>7, <2>1 DEF StartRefresh, Inv, Ended
<1>8. ASSUME NEW c \in todo, NEW answered \in BOOLEAN, FetchOpen(c, answered)
      PROVE  EventsTruthful' /\ Rows'
  BY <1>0, <1>8, PullMoves DEF FetchOpen, Inv, TypeOK, tx, Ended
<1>9. CASE CommitRefresh
  BY <1>9, CommitSound DEF CommitRefresh, Inv, Ended
<1>10. CASE PostAck
  <2>1. Rows'
    BY <1>10, PostAckSound
  <2> QED BY <1>10, <2>1 DEF PostAck, Inv, Ended
<1>11. CASE RecordAck
  BY <1>11, CommitSound DEF RecordAck, Inv, Ended
<1>12. CASE AckUnanswered
  BY <1>12, ForgetSound DEF AckUnanswered, Inv, Ended
<1>13. CASE FinishRange \/ FinishUsers
  BY <1>13, PullMoves DEF FinishRange, FinishUsers, Inv, tx, Ended
<1>14. CASE RefuseAnswer \/ RunFails
  BY <1>14, ForgetSound DEF RefuseAnswer, RunFails, AbandonRun, Inv, Ended
<1> QED
  BY <1>1, <1>2, <1>3, <1>4, <1>5, <1>6, <1>7, <1>8, <1>9, <1>10, <1>11, <1>12, <1>13,
     <1>14 DEF Reconcile, RunStep
-----------------------------------------------------------------------------
(* The theorems *)

\* Inv holds in every reachable state.
THEOREM Invariance == Spec => []Inv
<1>1. Init => Inv
  <2> SUFFICES ASSUME Init PROVE Inv
    OBVIOUS
  <2>1. TypeOK
    BY DEF Init, TypeOK, NewRow, Row, Figures, Nothing, Phases, Procs
  <2>2. \A p \in Procs, s \in Sessions : work[p][s] = None
    BY DEF Init, Nothing
  <2>3. /\ webhooks = {} /\ inbox = {} /\ cabinet_acked = {}
        /\ \A s \in Sessions : sessions[s] = NewRow
    BY DEF Init
  <2>4. RowsSupported
    BY <2>2, <2>3 DEF RowsSupported, Supported, NewRow
  <2>5. DbAccepts(sessions)
    BY <2>3 DEF DbAccepts, NewRow
  <2> QED
    BY <2>1, <2>2, <2>3, <2>4, <2>5 DEF Inv, EventsTruthful, TransactionsHarmless, Harmless,
                                        AckTruthful, AckSupported, NewRow
<1>2. Inv /\ [Next]_vars => Inv'
  <2> SUFFICES ASSUME Inv, [Next]_vars
               PROVE  Inv'
    OBVIOUS
  <2>1. TypeOK
    BY DEF Inv
  <2>2. CASE UNCHANGED vars
    <3>1. TypeOK' /\ EventsTruthful'
      BY <2>2 DEF Inv, vars, TypeOK, EventsTruthful, Ended
    <3>2. Rows'
      BY <2>2, PullMoves DEF vars
    <3> QED BY <3>1, <3>2 DEF Inv, Rows
  <2>3. CASE Cabinet
    <3>1. TypeOK'
      BY <2>1, <2>3, CabinetType
    <3> QED BY <2>3, <3>1, CabinetSound DEF Inv, Rows
  <2>4. CASE Webhook
    <3>1. TypeOK'
      BY <2>1, <2>4, WebhookType
    <3> QED BY <2>4, <3>1, WebhookSound DEF Inv, Rows
  <2>5. CASE Reconcile
    <3>1. TypeOK'
      BY <2>1, <2>5, ReconcileType
    <3> QED BY <2>5, <3>1, ReconcileSound DEF Inv, Rows
  <2>6. ASSUME NEW s \in Sessions, Bill(s)
        PROVE  Inv'
    <3>1. TypeOK'
      BY <2>1, <2>6, BillType
    <3>2. Rows'
      BY <2>6, BillSound
    <3>3. EventsTruthful'
      BY <2>6 DEF Inv, EventsTruthful, Bill, Ended, pull
    <3> QED BY <3>1, <3>2, <3>3 DEF Inv, Rows
  <2> QED
    BY <2>2, <2>3, <2>4, <2>5, <2>6 DEF Next
<1> QED
  BY <1>1, <1>2, PTL DEF Spec

\* Whatever writers interleave, a row is linked only to a cabinet session find() may pair
\* it with: by the echoed reference, or by its customer and outlet.
THEOREM LinkSafety == Spec => []LinkJustified
<1>1. Inv => LinkJustified
  BY DEF Inv, RowsSupported, Supported, LinkJustified
<1> QED
  BY <1>1, Invariance, PTL

\* The ack: the cabinet is told only of billed sessions, and ack_sent only follows it.
THEOREM AckSafety == Spec => []AckTruthful
<1>1. Inv => AckTruthful
  BY DEF Inv
<1> QED
  BY <1>1, Invariance, PTL
-----------------------------------------------------------------------------
(* Action properties and refinement *)

\* The four ways a step touches what Settlement speaks of.
LEMMA StepKinds ==
  ASSUME Inv, [Next]_vars
  PROVE  \/ /\ UNCHANGED <<sessions, cabinet_acked>>
            /\ Ended \subseteq Ended'
         \/ \E p \in Procs : Commit(p) /\ UNCHANGED <<cabinet, cabinet_acked>>
         \/ \E s \in Sessions : Bill(s)
         \/ PostAck
<1>1. CASE UNCHANGED vars
  BY <1>1 DEF vars, Ended
<1>2. CASE Cabinet
  <2> PICK c \in CabSessions : Activate(c) \/ Meter(c) \/ EndSession(c)
    BY <1>2 DEF Cabinet
  <2>1. CASE Activate(c)   BY <2>1 DEF Activate, Ended, Inv, TypeOK
  <2>2. CASE Meter(c)      BY <2>2 DEF Meter, Ended, Inv, TypeOK
  <2>3. CASE EndSession(c) BY <2>3 DEF EndSession, Ended, Inv, TypeOK
  <2> QED BY <2>1, <2>2, <2>3
<1>3. CASE Webhook
  BY <1>3 DEF Webhook, ReceiveWebhook, CommitWebhook, RefuseWebhook, HandlerDies, Ended, Procs
<1>4. CASE Reconcile
  <2>1. CASE RunStep
    BY <2>1 DEF RunStep, FetchPage, FetchUser, ApplyOne, CommitAnswer, StartRefresh, FetchOpen,
                CommitRefresh, RecordAck, AckUnanswered, FinishRange, FinishUsers, RefuseAnswer,
                AbandonRun, Ended, Procs
  <2>2. CASE ~RunStep
    BY <1>4, <2>2 DEF Reconcile, StartRange, StartUsers, RunFails, AbandonRun, Ended
  <2> QED BY <2>1, <2>2
<1> QED
  BY <1>1, <1>2, <1>3, <1>4 DEF Next

\* "A session already billed is never touched again", but for the ack, by any writer.
THEOREM BilledSafety == Spec => BilledFrozen
<1>1. Inv /\ [Next]_vars =>
        [\A s \in Sessions : sessions[s].billing_state = "billed"
           => sessions'[s] = [sessions[s] EXCEPT !.ack_sent = sessions'[s].ack_sent]]_vars
  <2> SUFFICES ASSUME Inv, [Next]_vars, NEW s \in Sessions, sessions[s].billing_state = "billed"
               PROVE  SameButAck(sessions'[s], sessions[s])
    BY DEF SameButAck
  <2>1. CASE UNCHANGED sessions
    BY <2>1 DEF SameButAck, Inv, TypeOK, Row
  <2>2. CASE \E p \in Procs : Commit(p) /\ UNCHANGED <<cabinet, cabinet_acked>>
    BY <2>2, FlushSound DEF Commit
  <2>3. CASE \E t \in Sessions : Bill(t)
    <3>1. sessions'[s] = sessions[s]
      BY <2>3 DEF Bill, Inv, TypeOK
    <3> QED BY <3>1 DEF SameButAck, Inv, TypeOK, Row
  <2>4. CASE PostAck
    BY <2>1, <2>4 DEF PostAck
  <2> QED
    BY <2>1, <2>2, <2>3, <2>4, StepKinds
<1> QED
  BY <1>1, Invariance, PTL DEF Spec, BilledFrozen

\* A commit confirms no row to the cabinet: an acked cabinet session is the billed row's,
\* and the unique index gives it to no other.
LEMMA CommitConfirmsNone ==
  ASSUME Inv, NEW p \in Procs, Commit(p), UNCHANGED <<cabinet, cabinet_acked>>
  PROVE  ConfirmedRows' = ConfirmedRows
<1>1. \A s \in Sessions :
         sessions[s].billing_state = "billed"
           => sessions'[s].cabinet_session_id = sessions[s].cabinet_session_id
  <2>1. \A s \in Sessions : sessions[s].billing_state = "billed"
                             => SameButAck(sessions'[s], sessions[s])
    BY FlushSound DEF Commit
  <2>2. \A s \in Sessions : sessions[s] \in Row
    BY DEF Inv, TypeOK
  <2> QED BY <2>1, <2>2 DEF SameButAck, Row
<1>2. \A c \in cabinet_acked : c # None /\ \E t \in Sessions :
         sessions[t].cabinet_session_id = c /\ sessions[t].billing_state = "billed"
  BY NoneAssumption DEF Inv, TypeOK, AckTruthful
<1>3. DbAccepts(sessions) /\ DbAccepts(sessions')
  BY DEF Inv, Commit
<1>4. ASSUME NEW s \in Sessions
      PROVE  sessions'[s].cabinet_session_id \in cabinet_acked
               <=> sessions[s].cabinet_session_id \in cabinet_acked
  BY <1>1, <1>2, <1>3 DEF DbAccepts
<1> QED
  BY <1>4 DEF ConfirmedRows

\* The ack confirms exactly the rows it names.
LEMMA PostAckConfirms ==
  ASSUME Inv, PostAck
  PROVE  /\ ConfirmedRows' = ConfirmedRows \union ToConfirm
         /\ ToConfirm \subseteq BilledRows
<1>1. ToConfirm \subseteq BilledRows
  BY DEF ToConfirm, Confirmable, BilledRows
<1>2. \A s \in Sessions, t \in ToConfirm :
        sessions[s].cabinet_session_id = sessions[t].cabinet_session_id => s = t
  BY DEF Inv, DbAccepts, ToConfirm, Confirmable
<1>3. ToConfirm \subseteq Sessions
  BY DEF ToConfirm
<1>4. ASSUME NEW s \in Sessions
      PROVE  s \in ConfirmedRows' <=> s \in ConfirmedRows \union ToConfirm
  BY <1>2, <1>3 DEF PostAck, ConfirmedRows
<1> QED
  BY <1>1, <1>3, <1>4 DEF ConfirmedRows

\* Session reconciliation implements Settlement: an ERP session ends, is settled, is
\* billed and is confirmed in that order, and nothing is taken back.
THEOREM Refinement == Spec => Settles
<1>1. Init => Promise!Init
  BY DEF Init, NewRow, Promise!Init, EndedRows, SettledRows, BilledRows, ConfirmedRows, Ended
<1>2. Inv /\ [Next]_vars => [Promise!Next]_(Promise!vars)
  <2> SUFFICES ASSUME Inv, [Next]_vars
               PROVE  Promise!Next \/ UNCHANGED Promise!vars
    OBVIOUS
  <2>1. CASE UNCHANGED <<sessions, cabinet_acked>> /\ Ended \subseteq Ended'
    <3>1. UNCHANGED <<SettledRows, BilledRows, ConfirmedRows>>
      BY <2>1 DEF SettledRows, BilledRows, ConfirmedRows
    <3>2. EndedRows' = EndedRows \union EndedRows' /\ EndedRows' \in SUBSET Sessions
      BY <2>1 DEF EndedRows
    <3>3. Promise!End(EndedRows')
      BY <3>1, <3>2 DEF Promise!End
    <3> QED BY <3>2, <3>3 DEF Promise!Next
  <2>2. ASSUME NEW p \in Procs, Commit(p), UNCHANGED <<cabinet, cabinet_acked>>
        PROVE  Promise!Next
    <3>1. ConfirmedRows' = ConfirmedRows
      BY <2>2, CommitConfirmsNone
    <3>2. EndedRows' = EndedRows
      BY <2>2 DEF EndedRows, Ended
    <3>3. BilledRows' = BilledRows
      BY <2>2, FlushSound DEF BilledRows, Commit
    <3>4. SettledRows \subseteq SettledRows' /\ SettledRows' \subseteq EndedRows
      BY <2>2, FlushSound DEF SettledRows, EndedRows, Commit, Supported
    <3>5. SettledRows' \in SUBSET Sessions
      BY DEF SettledRows
    <3>6. Promise!Settle(SettledRows')
      BY <3>1, <3>2, <3>3, <3>4 DEF Promise!Settle
    <3> QED BY <3>5, <3>6 DEF Promise!Next
  <2>3. ASSUME NEW s \in Sessions, Bill(s)
        PROVE  Promise!Next
    <3>1. /\ sessions' = [sessions EXCEPT ![s].billing_state = "billed"]
          /\ DbAccepts(sessions')
          /\ UNCHANGED <<cabinet, cabinet_acked>>
      BY <2>3 DEF Bill
    <3>2. \A t \in Sessions :
            /\ sessions'[t].reconciled = sessions[t].reconciled
            /\ sessions'[t].cabinet_session_id = sessions[t].cabinet_session_id
            /\ sessions'[t].billing_state = IF t = s THEN "billed" ELSE sessions[t].billing_state
      BY <3>1 DEF Inv, TypeOK, Row
    <3>3. s \in SettledRows
      BY <3>1, <3>2 DEF DbAccepts, SettledRows
    <3>4. BilledRows' = BilledRows \union {s}
      BY <3>2 DEF BilledRows
    <3>5. UNCHANGED <<EndedRows, SettledRows, ConfirmedRows>>
      BY <3>1, <3>2 DEF EndedRows, SettledRows, ConfirmedRows, Ended
    <3> QED BY <3>3, <3>4, <3>5 DEF Promise!Bill, Promise!Next
  <2>4. CASE PostAck
    <3>1. UNCHANGED <<EndedRows, SettledRows, BilledRows>>
      BY <2>4 DEF PostAck, EndedRows, SettledRows, BilledRows, Ended
    <3>2. Promise!Confirm(ToConfirm)
      BY <2>4, <3>1, PostAckConfirms DEF Promise!Confirm
    <3> QED BY <3>2 DEF Promise!Next, ToConfirm
  <2> QED
    BY <2>1, <2>2, <2>3, <2>4, StepKinds
<1> QED
  BY <1>1, <1>2, Invariance, PTL DEF Spec, Settles, Promise!Spec
-----------------------------------------------------------------------------
(* What is billed was measured: rows and transactions, over Inv *)

\* Applying a payload: a reconciled row is reviewed, or an ended session was measured.
LEMMA ApplyGrounded ==
  ASSUME Inv, NEW m \in Payload, m.ended => m.session_id \in Ended,
         NEW s \in Found(sessions, m), NEW row \in Row, Grounded(s, row), NEW by_pull \in BOOLEAN
  PROVE  LET new == Apply(s, row, m, by_pull)
         IN  /\ Grounded(s, new)
             /\ row.cabinet_session_id # None => new.cabinet_session_id # None
             /\ row.billing_state = "manual_review" => new.billing_state = "manual_review"
<1>1. CASE Untouchable(row)
  BY <1>1 DEF Apply
<1>2. CASE ~Untouchable(row)
  <2>. DEFINE new == Apply(s, row, m, by_pull)
  <2>1. /\ new.cabinet_session_id = m.session_id
        /\ new.reconciled = (row.reconciled \/ (by_pull /\ m.ended))
        /\ new.billing_state = IF Review(s, m) THEN "manual_review" ELSE row.billing_state
    BY <1>2 DEF Apply, IsFinal
  <2>2. m.session_id \in CabSessions /\ m.session_id # None
    BY NoneAssumption DEF Payload
  <2>3. m.ended /\ ~Review(s, m) => m.session_id \in Ended /\ Measured(m.session_id, s)
    BY FoundMayBelong DEF Review, Measured
  <2>. HIDE DEF new
  <2>4. new.reconciled =>
          new.billing_state = "manual_review" \/ \E c \in Ended : Measured(c, s)
    BY <2>1, <2>3 DEF Grounded
  <2> QED BY <2>1, <2>2, <2>4 DEF Grounded, new
<1> QED BY <1>1, <1>2

\* The row of the transaction a payload is applied to, and that it touches no other.
LEMMA ApplyInRow ==
  ASSUME Inv, NEW p \in Procs, NEW m \in Payload, NEW by_pull \in BOOLEAN,
         ApplyIn(p, m, by_pull), Found(sessions, m) # {}
  PROVE  \E s \in Found(sessions, m), old \in Row, row \in Row :
           /\ s \in Sessions
           /\ work[p][s] = None => row = sessions[s] /\ old = sessions[s]
           /\ work[p][s] # None => row = work[p][s] /\ old = base[p][s]
           /\ work'[p][s] = Apply(s, row, m, by_pull) /\ base'[p][s] = old
           /\ \A q \in Procs, t \in Sessions : q # p \/ t # s =>
                work'[q][t] = work[q][t] /\ base'[q][t] = base[q][t]
<1>1. PICK s \in Found(sessions, m) :
        LET fresh == work[p][s] = None
            row   == IF fresh THEN sessions[s] ELSE work[p][s]
        IN  /\ base' = [base EXCEPT ![p][s] = IF fresh THEN sessions[s] ELSE @]
            /\ work' = [work EXCEPT ![p][s] = Apply(s, row, m, by_pull)]
  BY DEF ApplyIn
<1>. DEFINE row == IF work[p][s] = None THEN sessions[s] ELSE work[p][s]
            old == IF work[p][s] = None THEN sessions[s] ELSE base[p][s]
            new == Apply(s, row, m, by_pull)
<1>2. s \in Sessions
  BY FoundIsRow
<1>3. row \in Row /\ old \in Row
  BY <1>2 DEF Inv, TypeOK, TransactionsHarmless, Harmless
<1>4. base' = [base EXCEPT ![p][s] = old] /\ work' = [work EXCEPT ![p][s] = new]
  BY <1>1
<1>5. /\ work[p][s] = None => row = sessions[s] /\ old = sessions[s]
      /\ work[p][s] # None => row = work[p][s] /\ old = base[p][s]
  OBVIOUS
<1>6. new = Apply(s, row, m, by_pull)
  OBVIOUS
<1>. HIDE DEF row, old, new
<1>7. /\ work'[p][s] = new /\ base'[p][s] = old
      /\ \A q \in Procs, t \in Sessions : q # p \/ t # s =>
           work'[q][t] = work[q][t] /\ base'[q][t] = base[q][t]
  BY <1>2, <1>4 DEF Inv, TypeOK
<1> QED BY <1>2, <1>3, <1>5, <1>6, <1>7

LEMMA ApplyInGrounded ==
  ASSUME Inv, RowsGrounded, NEW p \in Procs, NEW m \in Payload, m.ended => m.session_id \in Ended,
         NEW by_pull \in BOOLEAN, ApplyIn(p, m, by_pull), UNCHANGED <<cabinet, sessions>>
  PROVE  RowsGrounded'
<1>1. CASE Found(sessions, m) = {}
  BY <1>1 DEF ApplyIn, tx, RowsGrounded, Grounded, Onward, Ended
<1>2. CASE Found(sessions, m) # {}
  <2>1. PICK s \in Found(sessions, m), old \in Row, row \in Row :
          /\ s \in Sessions
          /\ work[p][s] = None => row = sessions[s] /\ old = sessions[s]
          /\ work[p][s] # None => row = work[p][s] /\ old = base[p][s]
          /\ work'[p][s] = Apply(s, row, m, by_pull) /\ base'[p][s] = old
          /\ \A q \in Procs, t \in Sessions : q # p \/ t # s =>
               work'[q][t] = work[q][t] /\ base'[q][t] = base[q][t]
    BY <1>2, ApplyInRow
  <2>2. /\ Grounded(s, row)
        /\ old.cabinet_session_id # None =>
             row.cabinet_session_id # None /\ sessions[s].cabinet_session_id # None
        /\ old.billing_state = "manual_review" =>
             row.billing_state = "manual_review" /\ sessions[s].billing_state = "manual_review"
    BY <2>1 DEF RowsGrounded, Onward
  <2>3. /\ Grounded(s, work'[p][s])
        /\ row.cabinet_session_id # None => work'[p][s].cabinet_session_id # None
        /\ row.billing_state = "manual_review" => work'[p][s].billing_state = "manual_review"
    BY <2>1, <2>2, ApplyGrounded
  <2>4. \A q \in Procs, t \in Sessions : Onward(q, t)'
    BY <2>1, <2>2, <2>3 DEF RowsGrounded, Onward
  <2>5. \A q \in Procs, t \in Sessions : work'[q][t] # None => Grounded(t, work'[q][t])
    BY <2>1, <2>3 DEF RowsGrounded
  <2> QED BY <2>4, <2>5 DEF RowsGrounded, Grounded, Ended
<1> QED BY <1>1, <1>2

\* What a transaction's UPDATE does to a grounded row.
LEMMA FlushGrounded ==
  ASSUME Inv, RowsGrounded, NEW p \in Procs, NEW s \in Sessions
  PROVE  /\ Grounded(s, Flushed(p)[s])
         /\ sessions[s].cabinet_session_id # None => Flushed(p)[s].cabinet_session_id # None
         /\ sessions[s].billing_state = "manual_review"
              => Flushed(p)[s].billing_state = "manual_review"
         /\ work[p][s] # None /\ work[p][s].reconciled => Flushed(p)[s].reconciled
<1>1. CASE work[p][s] = None
  BY <1>1 DEF Flushed, RowsGrounded
<1>2. CASE work[p][s] # None
  <2>. DEFINE new == work[p][s] old == base[p][s] row == sessions[s] out == Written(old, new, row)
  <2>1. Flushed(p)[s] = out
    BY <1>2 DEF Flushed
  <2>2. /\ new \in Row /\ old \in Row /\ row \in Row
        /\ Grounded(s, new) /\ Grounded(s, row)
        /\ old.cabinet_session_id # None =>
             new.cabinet_session_id # None /\ row.cabinet_session_id # None
        /\ old.billing_state = "manual_review" =>
             new.billing_state = "manual_review" /\ row.billing_state = "manual_review"
        /\ old.billing_state = "billed" <=> row.billing_state = "billed"
        /\ old.billing_state = "billed" => SameButAck(new, old)
        /\ old.billing_state # "billed" => new.billing_state # "billed"
        /\ row.billing_state = "billed" => row.reconciled
    BY <1>2 DEF Inv, TypeOK, RowsGrounded, Onward, TransactionsHarmless, Harmless, DbAccepts
  <2>3. /\ out.cabinet_session_id = IF new.cabinet_session_id # old.cabinet_session_id
                                     THEN new.cabinet_session_id ELSE row.cabinet_session_id
        /\ out.status = IF new.status # old.status THEN new.status ELSE row.status
        /\ out.billing_state = IF new.billing_state # old.billing_state
                               THEN new.billing_state ELSE row.billing_state
        /\ out.reconciled = (new.reconciled \/ row.reconciled)
    BY DEF Written
  <2>. HIDE DEF new, old, row, out
  <2>4. new.billing_state = old.billing_state \/ new.billing_state = "manual_review"
    <3>1. old.billing_state = "billed" => new.billing_state = old.billing_state
      BY <2>2 DEF SameButAck, Row
    <3>2. /\ old.billing_state \in {"pending", "manual_review", "billed"}
          /\ new.billing_state \in {"pending", "manual_review", "billed"}
      BY <2>2 DEF Row
    <3> QED BY <2>2, <3>1, <3>2
  <2>5. /\ row.cabinet_session_id # None => out.cabinet_session_id # None
        /\ row.billing_state = "manual_review" => out.billing_state = "manual_review"
        /\ new.billing_state = "manual_review" => out.billing_state = "manual_review"
        /\ new.reconciled => out.reconciled
    BY <2>2, <2>3, <2>4
  <2>6. out.status = "ended" \/ out.reconciled => out.cabinet_session_id # None
    BY <2>2, <2>3 DEF Grounded
  <2>7. out.reconciled =>
          out.billing_state = "manual_review" \/ \E c \in Ended : Measured(c, s)
    BY <2>2, <2>3, <2>5 DEF Grounded
  <2> QED BY <2>1, <2>5, <2>6, <2>7 DEF Grounded, new, row
<1> QED BY <1>1, <1>2

\* Any other step: rows stay grounded, and a transaction stays, is over, or has just
\* loaded its rows (and marked them as acknowledged).
LEMMA GroundedStep ==
  ASSUME RowsGrounded, Ended \subseteq Ended',
         \A s \in Sessions :
           /\ Grounded(s, sessions'[s])
           /\ sessions[s].cabinet_session_id # None => sessions'[s].cabinet_session_id # None
           /\ sessions[s].billing_state = "manual_review"
                => sessions'[s].billing_state = "manual_review",
         \A q \in Procs, s \in Sessions :
           \/ work'[q][s] = None
           \/ work'[q][s] = work[q][s] /\ base'[q][s] = base[q][s]
           \/ /\ base'[q][s] = sessions'[s]
              /\ work'[q][s].cabinet_session_id = sessions'[s].cabinet_session_id
              /\ work'[q][s].status = sessions'[s].status
              /\ work'[q][s].billing_state = sessions'[s].billing_state
              /\ work'[q][s].reconciled = sessions'[s].reconciled
  PROVE  RowsGrounded'
<1>1. ASSUME NEW s \in Sessions, NEW row, Grounded(s, row)
      PROVE  /\ row.status = "ended" \/ row.reconciled => row.cabinet_session_id # None
             /\ row.reconciled =>
                  row.billing_state = "manual_review" \/ \E c \in Ended' : Measured(c, s)
  BY <1>1 DEF Grounded
<1>2. \A q \in Procs, s \in Sessions : work'[q][s] # None => Grounded(s, work'[q][s])
  BY DEF RowsGrounded, Grounded
<1>3. \A q \in Procs, s \in Sessions : Onward(q, s)'
  BY DEF RowsGrounded, Onward
<1> QED BY <1>1, <1>2, <1>3 DEF RowsGrounded, Grounded

\* Rows that stay are grounded.
LEMMA RowsStay ==
  ASSUME RowsGrounded, UNCHANGED sessions
  PROVE  \A s \in Sessions :
           /\ Grounded(s, sessions'[s])
           /\ sessions[s].cabinet_session_id # None => sessions'[s].cabinet_session_id # None
           /\ sessions[s].billing_state = "manual_review"
                => sessions'[s].billing_state = "manual_review"
BY DEF RowsGrounded

LEMMA SameGrounded ==
  ASSUME RowsGrounded, UNCHANGED <<sessions, base, work>>, Ended \subseteq Ended'
  PROVE  RowsGrounded'
BY RowsStay, GroundedStep

LEMMA ForgetGrounded ==
  ASSUME Inv, RowsGrounded, NEW p \in Procs, Forget(p), UNCHANGED <<cabinet, sessions>>
  PROVE  RowsGrounded'
<1>1. \A q \in Procs, s \in Sessions :
        work'[q][s] = None \/ (work'[q][s] = work[q][s] /\ base'[q][s] = base[q][s])
  BY DEF Inv, TypeOK, Forget, Nothing
<1>2. Ended \subseteq Ended'
  BY DEF Ended
<1> QED BY <1>1, <1>2, RowsStay, GroundedStep

LEMMA CommitGrounded ==
  ASSUME Inv, RowsGrounded, NEW p \in Procs, Commit(p), UNCHANGED cabinet
  PROVE  RowsGrounded'
<1>1. \A q \in Procs, s \in Sessions :
        work'[q][s] = None \/ (work'[q][s] = work[q][s] /\ base'[q][s] = base[q][s])
  BY DEF Inv, TypeOK, Commit, Forget, Nothing
<1>2. \A s \in Sessions :
        /\ Grounded(s, sessions'[s])
        /\ sessions[s].cabinet_session_id # None => sessions'[s].cabinet_session_id # None
        /\ sessions[s].billing_state = "manual_review"
             => sessions'[s].billing_state = "manual_review"
  BY FlushGrounded DEF Commit
<1>3. Ended \subseteq Ended'
  BY DEF Ended
<1> QED BY <1>1, <1>2, <1>3, GroundedStep

LEMMA LoadGrounded ==
  ASSUME Inv, RowsGrounded, StartRefresh \/ PostAck
  PROVE  RowsGrounded'
<1>1. UNCHANGED sessions /\ Ended \subseteq Ended'
  BY DEF StartRefresh, PostAck, Ended
<1>2. CASE StartRefresh
  <2>1. \A q \in Procs, s \in Sessions :
          \/ work'[q][s] = None
          \/ work'[q][s] = work[q][s] /\ base'[q][s] = base[q][s]
          \/ base'[q][s] = sessions'[s] /\ work'[q][s] = sessions'[s]
    BY <1>2 DEF StartRefresh, Inv, TypeOK
  <2> QED BY <1>1, <2>1, RowsStay, GroundedStep
<1>3. CASE PostAck
  <2>. DEFINE told(s) == [sessions[s] EXCEPT !.ack_sent = TRUE]
  <2>1. \A q \in Procs, s \in Sessions :
          \/ work'[q][s] = None
          \/ work'[q][s] = work[q][s] /\ base'[q][s] = base[q][s]
          \/ base'[q][s] = sessions'[s] /\ work'[q][s] = told(s)
    BY <1>3 DEF PostAck, Inv, TypeOK
  <2>2. \A s \in Sessions :
          /\ told(s).cabinet_session_id = sessions'[s].cabinet_session_id
          /\ told(s).status = sessions'[s].status
          /\ told(s).billing_state = sessions'[s].billing_state
          /\ told(s).reconciled = sessions'[s].reconciled
    BY <1>1 DEF Inv, TypeOK, Row
  <2>. HIDE DEF told
  <2> QED BY <1>1, <2>1, <2>2, RowsStay, GroundedStep
<1> QED BY <1>2, <1>3

LEMMA BillGrounded ==
  ASSUME Inv, RowsGrounded, NEW s \in Sessions, Bill(s)
  PROVE  RowsGrounded'
<1>. DEFINE billed == [sessions[s] EXCEPT !.billing_state = "billed"]
<1>1. /\ sessions' = [sessions EXCEPT ![s] = billed]
      /\ DbAccepts(sessions') /\ UNCHANGED <<cabinet, base, work>>
      /\ sessions[s].billing_state = "pending"
  BY DEF Bill, tx
<1>2. /\ billed.cabinet_session_id = sessions[s].cabinet_session_id
      /\ billed.status = sessions[s].status
      /\ billed.reconciled = sessions[s].reconciled
      /\ billed.billing_state = "billed"
  BY DEF Inv, TypeOK, Row
<1>. HIDE DEF billed
<1>3. \A t \in Sessions : sessions'[t] = IF t = s THEN billed ELSE sessions[t]
  BY <1>1 DEF Inv, TypeOK
<1>4. Grounded(s, billed)
  BY <1>1, <1>2 DEF RowsGrounded, Grounded
<1>5. Ended \subseteq Ended'
  BY <1>1 DEF Ended
<1> QED BY <1>1, <1>2, <1>3, <1>4, <1>5, GroundedStep DEF RowsGrounded

LEMMA InitGrounded == Init => RowsGrounded
BY DEF Init, RowsGrounded, Grounded, Onward, NewRow, Nothing

\* Every step keeps the rows and the transactions grounded.
LEMMA StepGrounded ==
  ASSUME Inv, RowsGrounded, [Next]_vars
  PROVE  RowsGrounded'
<1>0. Pull \in Procs /\ Handlers \subseteq Procs
  BY DEF Procs
<1>1. CASE Cabinet \/ UNCHANGED vars
  <2>1. UNCHANGED <<sessions, base, work>> /\ Ended \subseteq Ended'
    <3>1. CASE UNCHANGED vars BY <3>1 DEF vars, Ended
    <3>2. ASSUME NEW c \in CabSessions, Activate(c) \/ Meter(c) \/ EndSession(c)
          PROVE  UNCHANGED <<sessions, base, work>> /\ Ended \subseteq Ended'
      BY <3>2 DEF Activate, Meter, EndSession, Ended, Inv, TypeOK, tx
    <3> QED BY <1>1, <3>1, <3>2 DEF Cabinet
  <2> QED BY <2>1, SameGrounded
<1>2. CASE Webhook
  <2>1. ASSUME NEW h \in Handlers, NEW m \in webhooks, ReceiveWebhook(h, m)
        PROVE  RowsGrounded'
    <3>1. /\ m \in Payload /\ (m.ended => m.session_id \in Ended)
          /\ ApplyIn(h, m, FALSE) /\ UNCHANGED <<cabinet, sessions>>
      BY <2>1 DEF Inv, TypeOK, EventsTruthful, ReceiveWebhook
    <3> QED BY <1>0, <3>1, ApplyInGrounded
  <2>2. ASSUME NEW h \in Handlers, CommitWebhook(h) \/ RefuseWebhook(h) \/ HandlerDies(h)
        PROVE  RowsGrounded'
    BY <1>0, <2>2, CommitGrounded, ForgetGrounded DEF CommitWebhook, RefuseWebhook, HandlerDies
  <2> QED BY <1>2, <2>1, <2>2 DEF Webhook
<1>3. CASE Reconcile
  <2>1. ASSUME NEW m \in inbox, ApplyOne(m)
        PROVE  RowsGrounded'
    <3>1. /\ m \in Payload /\ (m.ended => m.session_id \in Ended)
          /\ ApplyIn(Pull, m, TRUE) /\ UNCHANGED <<cabinet, sessions>>
      BY <2>1 DEF Inv, TypeOK, EventsTruthful, ApplyOne
    <3> QED BY <1>0, <3>1, ApplyInGrounded
  <2>2. CASE CommitAnswer \/ CommitRefresh \/ RecordAck
    BY <1>0, <2>2, CommitGrounded DEF CommitAnswer, CommitRefresh, RecordAck
  <2>3. CASE RunFails \/ RefuseAnswer \/ AckUnanswered
    BY <1>0, <2>3, ForgetGrounded DEF RunFails, RefuseAnswer, AbandonRun, AckUnanswered
  <2>4. CASE StartRefresh \/ PostAck
    BY <2>4, LoadGrounded
  <2>5. CASE \/ \E W \in SUBSET Ended : StartRange(W)
             \/ \E nightly \in BOOLEAN : StartUsers(nightly)
             \/ \E P \in SUBSET todo : FetchPage(P)
             \/ \E u \in refs : FetchUser(u)
             \/ \E c \in todo, answered \in BOOLEAN : FetchOpen(c, answered)
             \/ FinishRange \/ FinishUsers
    <3>1. UNCHANGED <<cabinet, sessions, base, work>>
      BY <2>5 DEF StartRange, StartUsers, FetchPage, FetchUser, FetchOpen, FinishRange,
                  FinishUsers, tx
    <3> QED BY <3>1, SameGrounded DEF Ended
  <2> QED BY <1>3, <2>1, <2>2, <2>3, <2>4, <2>5 DEF Reconcile, RunStep
<1> QED BY <1>1, <1>2, <1>3, BillGrounded DEF Next
-----------------------------------------------------------------------------
(* What a good run covered is reconciled *)

\* find() takes the payloads of a session that is identified with a row to that row: a row
\* that is linked is linked to it, and one that is not has not ended.
LEMMA FoundIdentified ==
  ASSUME Inv, RowsGrounded, NEW m \in Payload, NEW s \in Sessions, Identified(m.session_id, s)
  PROVE  Found(sessions, m) = {s}
<1>. DEFINE c == m.session_id
<1>1. CASE CabInfo[c].erp_ref = s
  BY <1>1 DEF Found, ByRef
<1>2. CASE CabInfo[c].erp_ref # s
  <2>1. /\ c \in CabSessions /\ SameCustomerAndOutlet(s, c)
        /\ \A d \in CabSessions, t \in Sessions : MayBelong(d, t) => (d = c <=> t = s)
    BY <1>2 DEF Identified, MayBelong, Payload
  <2>2. ByRef(m) = {}
    BY <1>2, <2>1 DEF ByRef, MayBelong
  <2>3. ByLink(sessions, m) \subseteq {s}
    BY <2>1, NoneAssumption DEF ByLink, Inv, RowsSupported, Supported
  <2>4. CASE s \in ByLink(sessions, m)
    BY <2>2, <2>3, <2>4 DEF Found
  <2>5. CASE s \notin ByLink(sessions, m)
    <3>1. sessions[s].cabinet_session_id = None
      <4>1. sessions[s].cabinet_session_id \in CabSessions \union {None}
        BY DEF Inv, TypeOK, Row
      <4>2. sessions[s].cabinet_session_id # c
        BY <2>5 DEF ByLink
      <4> QED BY <2>1, <4>1, <4>2 DEF Inv, RowsSupported, Supported
    <3>2. sessions[s].status \in {"reserved", "active"}
      <4>1. sessions[s].status \in {"reserved", "active", "ended"}
        BY DEF Inv, TypeOK, Row
      <4> QED BY <3>1, <4>1 DEF RowsGrounded, Grounded
    <3>3. Waiting(sessions, m) = {s}
      BY <2>1, <3>1, <3>2 DEF Waiting, MayBelong
    <3>4. Newest({s}) = {s}
      BY SessionsAssumption DEF Newest
    <3> QED BY <2>2, <2>3, <2>5, <3>3, <3>4 DEF Found
  <2> QED BY <2>4, <2>5
<1> QED BY <1>1, <1>2

\* The pull applies an ended session to the row it is identified with: reconciled at the
\* commit, unless the row is billed, and so reconciled already.
LEMMA AppliedReconciles ==
  ASSUME Inv, RowsGrounded, NEW m \in Payload, m.ended, NEW s \in Sessions,
         Identified(m.session_id, s), ApplyIn(Pull, m, TRUE)
  PROVE  sessions[s].reconciled \/ (work'[Pull][s] # None /\ work'[Pull][s].reconciled)
<1>1. Pull \in Procs /\ Found(sessions, m) = {s}
  BY FoundIdentified DEF Procs
<1>2. PICK t \in Found(sessions, m), old \in Row, row \in Row :
        /\ t \in Sessions
        /\ work[Pull][t] = None => row = sessions[t] /\ old = sessions[t]
        /\ work[Pull][t] # None => row = work[Pull][t] /\ old = base[Pull][t]
        /\ work'[Pull][t] = Apply(t, row, m, TRUE) /\ base'[Pull][t] = old
        /\ \A q \in Procs, r \in Sessions : q # Pull \/ r # t =>
             work'[q][r] = work[q][r] /\ base'[q][r] = base[q][r]
  <2>1. Pull \in Procs /\ TRUE \in BOOLEAN /\ Found(sessions, m) # {}
    BY <1>1
  <2> QED BY <2>1, ApplyInRow
<1>3. s = t
  BY <1>1
<1>4. work'[Pull][s] # None
  BY <1>2, <1>3, ApplyType, NoneAssumption
<1>5. CASE Untouchable(row)
  <2>1. sessions[s].billing_state = "billed"
    BY <1>1, <1>2, <1>3, <1>5 DEF Untouchable, Inv, TransactionsHarmless, Harmless
  <2> QED BY <2>1 DEF Inv, DbAccepts
<1>6. CASE ~Untouchable(row)
  <2>1. Apply(s, row, m, TRUE).reconciled = (row.reconciled \/ (TRUE /\ m.ended))
    BY <1>6 DEF Apply, IsFinal
  <2> QED BY <1>2, <1>3, <1>4, <2>1
<1> QED BY <1>5, <1>6

\* What the transaction has reconciled stays so whatever it applies next.
LEMMA ApplyInKeeps ==
  ASSUME Inv, NEW p \in Procs, NEW m \in Payload, NEW by_pull \in BOOLEAN, ApplyIn(p, m, by_pull)
  PROVE  \A s \in Sessions : work[p][s] # None /\ work[p][s].reconciled
                               => work'[p][s] # None /\ work'[p][s].reconciled
<1>1. CASE Found(sessions, m) = {}
  BY <1>1 DEF ApplyIn, tx
<1>2. CASE Found(sessions, m) # {}
  <2>1. PICK t \in Found(sessions, m), old \in Row, row \in Row :
          /\ t \in Sessions
          /\ work[p][t] = None => row = sessions[t] /\ old = sessions[t]
          /\ work[p][t] # None => row = work[p][t] /\ old = base[p][t]
          /\ work'[p][t] = Apply(t, row, m, by_pull) /\ base'[p][t] = old
          /\ \A q \in Procs, r \in Sessions : q # p \/ r # t =>
               work'[q][r] = work[q][r] /\ base'[q][r] = base[q][r]
    BY <1>2, ApplyInRow
  <2>2. work'[p][t] # None
    BY <2>1, ApplyType, NoneAssumption
  <2>3. row.reconciled => work'[p][t].reconciled
    <3>1. CASE Untouchable(row)
      BY <2>1, <3>1 DEF Apply
    <3>2. CASE ~Untouchable(row)
      <4>1. Apply(t, row, m, by_pull).reconciled = (row.reconciled \/ (by_pull /\ m.ended))
        BY <3>2 DEF Apply, IsFinal
      <4> QED BY <2>1, <4>1
    <3> QED BY <3>1, <3>2
  <2> QED BY <2>1, <2>2, <2>3
<1> QED BY <1>1, <1>2

\* A step inside a run: what was on its way is committed or still on its way.
LEMMA WindowKept ==
  ASSUME WindowOnItsWay, CoveredIsReconciled, Ended \subseteq Ended', UNCHANGED <<window, covered>>,
         phase' \in {"idle", "users"} => window = {},
         \A s \in Sessions : sessions[s].reconciled => sessions'[s].reconciled,
         \A c \in window, s \in Sessions :
           Identified(c, s) /\ OnItsWay(c, s) => sessions'[s].reconciled \/ OnItsWay(c, s)'
  PROVE  WindowOnItsWay' /\ CoveredIsReconciled'
<1>1. \A c \in window, s \in Sessions :
        Identified(c, s) => sessions'[s].reconciled \/ OnItsWay(c, s)'
  BY DEF WindowOnItsWay
<1>2. WindowOnItsWay'
  BY <1>1 DEF WindowOnItsWay, Identified
<1> QED BY <1>2 DEF CoveredIsReconciled, Identified

\* The end of a run: nothing of a window is on its way once the ranges are read.
LEMMA WindowOver ==
  ASSUME WindowOnItsWay, CoveredIsReconciled, window' = {},
         covered' = covered \/ (covered' = covered \union window /\ phase # "range"),
         \A s \in Sessions : sessions[s].reconciled => sessions'[s].reconciled
  PROVE  WindowOnItsWay' /\ CoveredIsReconciled'
<1>1. \A c \in covered', s \in Sessions : Identified(c, s) => sessions[s].reconciled
  BY DEF WindowOnItsWay, OnItsWay, CoveredIsReconciled
<1>2. CoveredIsReconciled'
  BY <1>1 DEF CoveredIsReconciled, Identified
<1> QED BY <1>2 DEF WindowOnItsWay

\* The webhooks, the cabinet and the biller take nothing from the pull.
LEMMA ElsewhereKept ==
  ASSUME Inv, RunInv, Ended \subseteq Ended', UNCHANGED pull, work'[Pull] = work[Pull],
         \A s \in Sessions : sessions[s].reconciled => sessions'[s].reconciled
  PROVE  WindowOnItsWay' /\ CoveredIsReconciled'
<1>1. \A c \in window, s \in Sessions : OnItsWay(c, s) => OnItsWay(c, s)'
  BY DEF OnItsWay, pull
<1> QED BY <1>1, WindowKept DEF RunInv, WindowOnItsWay, pull

\* A commit loses no "reconciled", its own or another's.
LEMMA CommitKeeps ==
  ASSUME Inv, RowsGrounded, NEW p \in Procs, Commit(p)
  PROVE  \A s \in Sessions :
           /\ sessions[s].reconciled => sessions'[s].reconciled
           /\ work[p][s] # None /\ work[p][s].reconciled => sessions'[s].reconciled
BY FlushSound, FlushGrounded DEF Commit

\* A handler that commits, or forgets, leaves the pull's transaction alone.
LEMMA ForgetOther ==
  ASSUME TypeOK, NEW h \in Handlers, Forget(h)
  PROVE  work'[Pull] = work[Pull]
BY PullAssumption DEF TypeOK, Forget, Procs

LEMMA WebhookWindow ==
  ASSUME Inv, RunInv, Webhook
  PROVE  WindowOnItsWay' /\ CoveredIsReconciled'
<1>1. ASSUME NEW h \in Handlers, NEW m \in webhooks, ReceiveWebhook(h, m)
      PROVE  WindowOnItsWay' /\ CoveredIsReconciled'
  <2>1. work'[Pull] = work[Pull]
    BY <1>1, PullAssumption DEF ReceiveWebhook, ApplyIn, tx, Inv, TypeOK, Procs
  <2> QED BY <1>1, <2>1, ElsewhereKept DEF ReceiveWebhook, Ended
<1>2. ASSUME NEW h \in Handlers, CommitWebhook(h)
      PROVE  WindowOnItsWay' /\ CoveredIsReconciled'
  <2>1. h \in Procs /\ Forget(h) /\ Commit(h) /\ UNCHANGED <<cabinet, pull>>
    BY <1>2 DEF CommitWebhook, Commit, Procs
  <2>2. work'[Pull] = work[Pull] /\ Ended \subseteq Ended'
    BY <2>1, ForgetOther DEF Inv, Ended
  <2> QED BY <2>1, <2>2, CommitKeeps, ElsewhereKept DEF RunInv
<1>3. ASSUME NEW h \in Handlers, RefuseWebhook(h) \/ HandlerDies(h)
      PROVE  WindowOnItsWay' /\ CoveredIsReconciled'
  <2>1. Forget(h) /\ UNCHANGED <<cabinet, sessions, pull>>
    BY <1>3 DEF RefuseWebhook, HandlerDies
  <2> QED BY <2>1, ForgetOther, ElsewhereKept DEF Inv, Ended
<1> QED BY <1>1, <1>2, <1>3 DEF Webhook

\* The pull, reading the window: what leaves todo is in the answer, what leaves the answer
\* is in the transaction, what leaves the transaction is committed.
LEMMA RangeWindow ==
  ASSUME Inv, RunInv,
         \/ \E W \in SUBSET Ended : StartRange(W)
         \/ \E P \in SUBSET todo : FetchPage(P)
         \/ \E m \in inbox : ApplyOne(m)
         \/ CommitAnswer
         \/ StartRefresh
  PROVE  WindowOnItsWay' /\ CoveredIsReconciled'
<1>0. Pull \in Procs /\ RowsGrounded /\ WindowOnItsWay /\ CoveredIsReconciled
  BY DEF Procs, RunInv
<1>1. ASSUME NEW W \in SUBSET Ended, StartRange(W)
      PROVE  WindowOnItsWay' /\ CoveredIsReconciled'
  <2>1. \A c \in window', s \in Sessions : OnItsWay(c, s)'
    BY <1>1 DEF StartRange, OnItsWay
  <2>2. window' \subseteq Ended' /\ phase' = "range" /\ UNCHANGED <<covered, sessions>>
    BY <1>1 DEF StartRange, Ended
  <2> QED BY <1>0, <2>1, <2>2 DEF WindowOnItsWay, CoveredIsReconciled, Identified
<1>2. ASSUME NEW P \in SUBSET todo, FetchPage(P)
      PROVE  WindowOnItsWay' /\ CoveredIsReconciled'
  <2>1. /\ phase = "range" /\ phase' = "range" /\ inbox = {}
        /\ inbox' = {Snapshot(c) : c \in P} /\ todo' = todo \ P
        /\ UNCHANGED <<cabinet, sessions, window, covered, base, work>>
    BY <1>2 DEF FetchPage, Ready, tx
  <2>2. ASSUME NEW c \in window, NEW s \in Sessions, OnItsWay(c, s)
        PROVE  OnItsWay(c, s)'
    <3>1. CASE c \in P
      <4>1. Snapshot(c).session_id = c /\ Snapshot(c).ended /\ Snapshot(c) \in inbox'
        BY <1>0, <2>1, <3>1 DEF Snapshot, PayloadOf, WindowOnItsWay, Ended
      <4> QED BY <2>1, <4>1 DEF OnItsWay
    <3>2. CASE c \notin P
      BY <2>1, <2>2, <3>2 DEF OnItsWay
    <3> QED BY <3>1, <3>2
  <2> QED BY <1>0, <2>1, <2>2, WindowKept DEF Ended
<1>3. ASSUME NEW m \in inbox, ApplyOne(m)
      PROVE  WindowOnItsWay' /\ CoveredIsReconciled'
  <2>1. /\ m \in Payload /\ inbox' = inbox \ {m} /\ ApplyIn(Pull, m, TRUE)
        /\ UNCHANGED <<cabinet, sessions, phase, window, todo, covered>>
    BY <1>3 DEF ApplyOne, Inv, TypeOK
  <2>2. \A s \in Sessions : work[Pull][s] # None /\ work[Pull][s].reconciled
                              => work'[Pull][s] # None /\ work'[Pull][s].reconciled
    BY <1>0, <2>1, ApplyInKeeps
  <2>3. ASSUME NEW c \in window, NEW s \in Sessions, Identified(c, s), OnItsWay(c, s)
        PROVE  sessions'[s].reconciled \/ OnItsWay(c, s)'
    <3>1. CASE m.session_id = c /\ m.ended
      BY <1>0, <2>1, <2>3, <3>1, AppliedReconciles DEF OnItsWay
    <3>2. CASE ~(m.session_id = c /\ m.ended)
      BY <2>1, <2>2, <2>3, <3>2 DEF OnItsWay
    <3> QED BY <3>1, <3>2
  <2> QED BY <1>0, <2>1, <2>3, WindowKept DEF Ended, WindowOnItsWay
<1>4. CASE CommitAnswer
  <2>1. Commit(Pull) /\ inbox = {} /\ UNCHANGED <<cabinet, phase, window, todo, inbox, covered>>
    BY <1>4 DEF CommitAnswer, pull
  <2>2. \A c \in window, s \in Sessions :
          OnItsWay(c, s) => sessions'[s].reconciled \/ OnItsWay(c, s)'
    BY <1>0, <2>1, CommitKeeps DEF OnItsWay
  <2> QED BY <1>0, <2>1, <2>2, CommitKeeps, WindowKept DEF Ended, WindowOnItsWay
<1>5. CASE StartRefresh
  <2>1. /\ inbox = {} /\ work[Pull] = Nothing /\ todo = {} /\ phase' = "refresh"
        /\ UNCHANGED <<cabinet, sessions, window, covered>>
    BY <1>5 DEF StartRefresh, Ready
  <2>2. \A c \in window, s \in Sessions : ~OnItsWay(c, s)
    BY <2>1 DEF OnItsWay, Nothing
  <2> QED BY <1>0, <2>1, <2>2, WindowKept DEF Ended
<1> QED BY <1>1, <1>2, <1>3, <1>4, <1>5

\* The pull, past the window: nothing of it is on its way any more.
LEMMA PastWindow ==
  ASSUME Inv, RunInv,
         \/ \E nightly \in BOOLEAN : StartUsers(nightly)
         \/ \E u \in refs : FetchUser(u)
         \/ \E c \in todo, answered \in BOOLEAN : FetchOpen(c, answered)
         \/ CommitRefresh \/ PostAck \/ FinishUsers
         \/ RecordAck \/ AckUnanswered \/ FinishRange
         \/ RunFails \/ RefuseAnswer
  PROVE  WindowOnItsWay' /\ CoveredIsReconciled'
<1>0. Pull \in Procs /\ RowsGrounded /\ WindowOnItsWay /\ CoveredIsReconciled
  BY DEF Procs, RunInv
<1>1. CASE \/ \E nightly \in BOOLEAN : StartUsers(nightly)
           \/ \E u \in refs : FetchUser(u)
           \/ \E c \in todo, answered \in BOOLEAN : FetchOpen(c, answered)
           \/ CommitRefresh \/ PostAck \/ FinishUsers
  <2>1. /\ phase # "range" /\ UNCHANGED <<cabinet, window, covered>>
        /\ phase' \in {"idle", "users"} => phase \in {"idle", "users"}
        /\ UNCHANGED sessions \/ Commit(Pull)
    BY <1>1 DEF StartUsers, FetchUser, FetchOpen, CommitRefresh, PostAck, FinishUsers, Ready
  <2>2. \A s \in Sessions : sessions[s].reconciled => sessions'[s].reconciled
    BY <1>0, <2>1, CommitKeeps
  <2>3. \A c \in window, s \in Sessions : ~OnItsWay(c, s)
    BY <2>1 DEF OnItsWay
  <2> QED BY <1>0, <2>1, <2>2, <2>3, WindowKept DEF Ended, WindowOnItsWay
<1>2. CASE RecordAck \/ AckUnanswered \/ FinishRange
  <2>1. /\ phase # "range" /\ window' = {} /\ covered' = covered \union window
        /\ UNCHANGED sessions \/ Commit(Pull)
    BY <1>2 DEF RecordAck, AckUnanswered, FinishRange
  <2>2. \A s \in Sessions : sessions[s].reconciled => sessions'[s].reconciled
    BY <1>0, <2>1, CommitKeeps
  <2> QED BY <1>0, <2>1, <2>2, WindowOver
<1>3. CASE RunFails \/ RefuseAnswer
  BY <1>0, <1>3, WindowOver DEF RunFails, RefuseAnswer, AbandonRun
<1> QED BY <1>1, <1>2, <1>3

\* Every step keeps the window on its way, and what good runs covered reconciled.
LEMMA StepWindow ==
  ASSUME Inv, RunInv, [Next]_vars
  PROVE  WindowOnItsWay' /\ CoveredIsReconciled'
<1>1. CASE Cabinet \/ UNCHANGED vars
  <2>1. CASE UNCHANGED vars
    BY <2>1, ElsewhereKept DEF vars, tx, pull, Ended
  <2>2. ASSUME NEW c \in CabSessions, Activate(c) \/ Meter(c) \/ EndSession(c)
        PROVE  WindowOnItsWay' /\ CoveredIsReconciled'
    <3>1. UNCHANGED <<sessions, base, work, pull>> /\ Ended \subseteq Ended'
      BY <2>2 DEF Activate, Meter, EndSession, Ended, Inv, TypeOK, tx
    <3> QED BY <3>1, ElsewhereKept
  <2> QED BY <1>1, <2>1, <2>2 DEF Cabinet
<1>2. ASSUME NEW s \in Sessions, Bill(s)
      PROVE  WindowOnItsWay' /\ CoveredIsReconciled'
  <2>1. /\ sessions' = [sessions EXCEPT ![s].billing_state = "billed"]
        /\ UNCHANGED <<cabinet, base, work, pull>>
    BY <1>2 DEF Bill, tx
  <2>2. \A t \in Sessions : sessions'[t].reconciled = sessions[t].reconciled
    BY <2>1 DEF Inv, TypeOK, Row
  <2> QED BY <2>1, <2>2, ElsewhereKept DEF Ended
<1>3. CASE Reconcile
  BY <1>3, RangeWindow, PastWindow DEF Reconcile, RunStep
<1> QED BY <1>1, <1>2, <1>3, WebhookWindow DEF Next
-----------------------------------------------------------------------------
(* The theorems about runs and billing *)

\* RunInv holds in every reachable state: no row is reconciled without a review or a
\* measured session, and no session of a window is lost on its way to its row.
THEOREM RunInvariance == Spec => []RunInv
<1>1. Init => RunInv
  BY InitGrounded DEF Init, RunInv, WindowOnItsWay, CoveredIsReconciled
<1>2. Inv /\ RunInv /\ [Next]_vars => RunInv'
  BY StepGrounded, StepWindow DEF RunInv
<1> QED
  BY <1>1, <1>2, Invariance, PTL DEF Spec

\* The pull loses nothing: whatever runs failed half way and whatever else was written in
\* between, what the window of a run recorded ok covered is reconciled.
THEOREM CoveredSafety == Spec => []CoveredIsReconciled
<1>1. RunInv => CoveredIsReconciled
  BY DEF RunInv
<1> QED
  BY <1>1, RunInvariance, PTL

\* Billing: a row no ended session was measured for stays in review, and is not billed.
THEOREM BilledMeasuredSafety == Spec => []BilledIsMeasured
<1>1. Inv /\ RunInv => BilledIsMeasured
  BY DEF Inv, DbAccepts, RunInv, RowsGrounded, Grounded, BilledIsMeasured
<1> QED
  BY <1>1, Invariance, RunInvariance, PTL

\* Where one cabinet session alone may be a row's, the row is billed only for that session,
\* which has ended, on the row's own outlet, and with a figure the cabinet calls measured.
SoleIsMeasured ==
  \A s \in Sessions, c \in CabSessions :
    /\ sessions[s].billing_state = "billed"
    /\ \A d \in CabSessions : MayBelong(d, s) => d = c
    => sessions[s].cabinet_session_id = c /\ c \in Ended /\ Measured(c, s)

\* No approximate or missing figure is billed unseen where nobody else may claim the row.
THEOREM SoleMeasuredSafety == Spec => []SoleIsMeasured
<1>1. ASSUME Inv, RunInv PROVE SoleIsMeasured
  <2> SUFFICES ASSUME NEW s \in Sessions, NEW c \in CabSessions,
                      sessions[s].billing_state = "billed",
                      \A d \in CabSessions : MayBelong(d, s) => d = c
               PROVE  sessions[s].cabinet_session_id = c /\ c \in Ended /\ Measured(c, s)
    BY DEF SoleIsMeasured
  <2>1. sessions[s].reconciled /\ Grounded(s, sessions[s]) /\ Supported(s, sessions[s])
    BY <1>1 DEF Inv, DbAccepts, RowsSupported, RunInv, RowsGrounded
  <2>2. sessions[s].cabinet_session_id \in CabSessions
    BY <1>1, <2>1 DEF Inv, TypeOK, Row, Grounded
  <2>3. PICK d \in Ended : Measured(d, s)
    BY <2>1 DEF Grounded
  <2>4. d = c
    BY <2>3 DEF Measured, Ended
  <2> QED BY <2>1, <2>2, <2>3, <2>4, NoneAssumption DEF Supported
<1> QED
  BY <1>1, Invariance, RunInvariance, PTL
=============================================================================
