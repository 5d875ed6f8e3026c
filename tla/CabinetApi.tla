------------------------------ MODULE CabinetApi ------------------------------
(***************************************************************************)
(* The cabinet as the ERP talks to it: the endpoint table of               *)
(* cabinet/contract.py and the answers of simulator/cabinet_sim.py, which  *)
(* was written from the cabinet's own code.  One operation stands for the  *)
(* endpoints that behave alike: "health" for the reads through the         *)
(* gateway, "load" for the direct reads.                                   *)
(*                                                                         *)
(* A reply carries a status and, where one status has several meanings,    *)
(* the meaning the ERP reads from its text (classify_409, classify_400).   *)
(***************************************************************************)
EXTENDS Naturals

Reads    == {"health", "load"}
Commands == {"allow", "deny", "stop", "activate", "switch_off", "diagnostics"}
NfcOps   == {"nfc_session", "nfc_stop", "nfc_ack"}      \* channel B, by API key
Ops      == Reads \union Commands \union NfcOps \union {"acknowledge", "push_photo"}

Direct   == {"load", "push_photo"}                      \* /api/ext/... of the cabinet itself
Writes   == Commands \union {"acknowledge"}             \* through the gateway, not GET
SessionOps == {"allow", "deny", "stop", "nfc_stop"}

\* The key an operation is enabled, refused and remembered under: both actions of an
\* outlet are one endpoint.
Key(op) == IF op \in {"activate", "switch_off"} THEN "socket_cmd" ELSE op

Keys == {Key(op) : op \in Ops \ NfcOps}

SessionStates == {"pending", "active", "denied", "completed"}

Cabinet == [gen : Nat,                  \* tokens given since the last expiry carry this number
            accepts : BOOLEAN,          \* the service account and the API key are right
            gateway : BOOLEAN, enabled : SUBSET Keys, smart_mode : BOOLEAN,
            session : SessionStates, plugged : BOOLEAN,
            alarm : {"triggered", "acknowledged"}]

\* What the session must be for an operation on it, and what it becomes.
Expected(op) == IF op \in {"stop", "nfc_stop"} THEN "active" ELSE "pending"
Becomes(op)  == CASE op = "allow" -> "active" [] op = "deny" -> "denied"
                  [] OTHER -> "completed"

Reply(status, detail) == [status |-> status, detail |-> detail]

\* _internal and _direct: the handlers, once gateway and mode let the request through.
Handler(op, k) ==
  CASE op \in {"allow", "deny", "stop"} /\ k.session # Expected(op) ->
            Reply(400, "session_state_changed")
    [] op = "activate" /\ ~k.plugged -> Reply(409, "awaiting_plug")
    [] op = "acknowledge" /\ k.alarm # "triggered" -> Reply(404, "not_found")
    [] OTHER -> Reply(200, "ok")

\* /api/ext: token, gateway, the operation's own switch, Smart Mode for writes, handler.
ExtReply(op, tok, k) ==
  IF tok # k.gen THEN Reply(401, "cabinet_auth_failed")
  ELSE IF ~k.gateway \/ Key(op) \notin k.enabled
    THEN Reply(IF op \in Direct THEN 503 ELSE 403, "not_enabled")
  ELSE IF op \in Writes /\ ~k.smart_mode THEN Reply(409, "standalone")
  ELSE Handler(op, k)

\* /api/nfc: the API key, then the handler; a stop of an ended session is a 409 of its own.
NfcReply(op, k) ==
  IF ~k.accepts THEN Reply(401, "cabinet_auth_failed")
  ELSE IF op = "nfc_stop" /\ k.session # "active" THEN Reply(409, "already_ended")
  ELSE Reply(200, "ok")

ReplyTo(op, tok, k) == IF op \in NfcOps THEN NfcReply(op, k) ELSE ExtReply(op, tok, k)

\* Mutant: the handler acts before the gateway's checks refuse the request.
CarriedOut_HandlerFirst(op, tok, k) == Handler(op, k).status = 200

\* Whether the cabinet does what the request asks.
CarriedOut(op, tok, k) == ReplyTo(op, tok, k).status = 200

\* What a request the cabinet accepted changes on it.
After(op, k) ==
  CASE op \in SessionOps -> [k EXCEPT !.session = Becomes(op)]
    [] op = "acknowledge" -> [k EXCEPT !.alarm = "acknowledged"]
    [] OTHER -> k
=============================================================================
