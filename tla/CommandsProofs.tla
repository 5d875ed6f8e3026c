---------------------------- MODULE CommandsProofs ----------------------------
(***************************************************************************)
(* Operator commands over the cabinet client, for any servers, clients,    *)
(* requests, processes and marinas.                                        *)
(*                                                                         *)
(* Everything a property says of a request depends on what is the          *)
(* request's own (its call, its messages, how often it was carried out,    *)
(* its audit row) and on two things of the cabinet that only move forward  *)
(* (its version and the state of its session).  CallInv(r) is the          *)
(* invariant of one request; a step of another request cannot disturb it   *)
(* (Untouched), and so every action is looked at for its own request only. *)
(***************************************************************************)
EXTENDS Commands, FiniteSetTheorems, TLAPS

InFlight(r) == {m \in net : m.req = r}
Running     == {"start", "login", "wait"}
Settled     == {"returned", "done", "dead"}

\* What the cabinet answers, in either channel, or its gateway in its place.
Replies ==
  {Reply(200, "ok"), Reply(400, "session_state_changed"), Reply(401, "cabinet_auth_failed"),
   Reply(403, "not_enabled"), Reply(404, "not_found"), Reply(409, "awaiting_plug"),
   Reply(409, "already_ended"), Reply(409, "standalone"), Reply(500, "capability_unavailable"),
   Reply(503, "not_enabled"), Reply(503, "capability_unavailable")}

\* An answer is held, and it is one of these.
Held(r)     == calls[r].at = "wait" /\ calls[r].answer # None
Positive(r) == Held(r) /\ calls[r].answer.status = 200

\* Not begun: nothing has happened.
Fresh(r) == calls[r].at = "new" => calls[r] = NewCall

\* A held answer is one of the cabinet's; a positive one means it was carried out and is no
\* older than the question.
Answering(r) ==
  Held(r) =>
    /\ Reply(calls[r].answer.status, calls[r].answer.detail) \in Replies
    /\ Positive(r) => executed[r] > 0 /\ calls[r].answer.data >= calls[r].since

\* Sendings are numbered; the answered one is not on its way any more.
Numbered(r) ==
  /\ \A m \in InFlight(r) : m.n \in 1 .. calls[r].sent /\ (Held(r) => m.n # calls[r].sent)
  /\ \A m, o \in InFlight(r) : m.n = o.n => m = o

\* Sendings that a cabinet has carried out or may still carry out, at most one per attempt.
MayHaveBeen(r) == executed[r] + Cardinality(InFlight(r))
Allowance(r) ==
  CASE calls[r].at = "new"               -> 0
    [] calls[r].at \in {"start", "login"} -> calls[r].attempt
    [] calls[r].at = "wait" -> IF Held(r) /\ ~Positive(r) THEN calls[r].attempt
                               ELSE calls[r].attempt + 1
    [] OTHER -> ATTEMPTS
Resends(r) ==
  /\ MayHaveBeen(r) <= Allowance(r)
  /\ calls[r].at \in Running => calls[r].attempt < ATTEMPTS

\* While every sending has had its answer, at most the last one is on its way, and the cabinet
\* has carried out none but one it said so of.
Answered1(r) ==
  ~calls[r].lost /\ calls[r].at # "dead" =>
    /\ \A m \in InFlight(r) : calls[r].at = "wait" /\ ~Held(r) /\ m.n = calls[r].sent
    /\ executed[r] > 0 => Positive(r) \/ (calls[r].at \in Settled /\ calls[r].code = "ok")

\* The code of a call is its result; a result comes from the cabinet the call went to.
Judged(r) ==
  /\ calls[r].code # None => calls[r].at \in Settled
  /\ calls[r].at = "returned" => calls[r].code \in Codes
  /\ calls[r].code = "ok" => executed[r] > 0
  /\ calls[r].since <= changes[ServerFor(r)]
  /\ calls[r].data # None =>
       /\ calls[r].data.server = ServerFor(r)
       /\ calls[r].code = "ok" => calls[r].data.data >= calls[r].since

\* The audit row is there before the call, and completed with the call's code.
Recorded(r) ==
  /\ ~Audits(r) => audit[r] = None
  /\ Audits(r) /\ calls[r].at # "new" => audit[r] # None
  /\ audit[r] # None /\ calls[r].at = "done" =>
       audit[r].outcome = calls[r].code \/ (audit[r].outcome = DemoCode /\ calls[r].http = 0)

\* What is forbidden is never sent.
Barred(r) ==
  /\ Forbidden(r) => calls[r].at \in {"new", "done"} /\ calls[r].sent = 0 /\ executed[r] = 0
  /\ flow[r] = "checked" => Op[r] = "push_photo" /\ ServerFor(r) \in Simulated

\* The states of the session in which an operation on it can still be carried out.
StillOpen(op) == IF Expected(op) = "active" THEN {"pending", "active"} ELSE {"pending"}
Moved(r) ==
  Op[r] \in SessionOps =>
    /\ executed[r] <= 1
    /\ executed[r] > 0 => cabinet[ServerFor(r)].session \notin StillOpen(Op[r])

CallInv(r) ==
  /\ Fresh(r) /\ Answering(r) /\ Numbered(r) /\ Resends(r) /\ Answered1(r)
  /\ Judged(r) /\ Recorded(r) /\ Barred(r) /\ Moved(r)

\* Answers are stored under the server they came from.
Cached == \A s \in Servers, op \in Reads : cache[s][op] # None => cache[s][op].server = s

CommandsInv == TypeOK /\ IsFiniteSet(net) /\ Cached /\ \A r \in Requests : CallInv(r)

(***************************************************************************)
(* The cabinet                                                             *)
(***************************************************************************)

\* The cabinet's answers are the ones the ERP has a meaning for.
LEMMA CabinetReplies ==
  ASSUME NEW op, NEW tok, NEW k
  PROVE  ReplyTo(op, tok, k) \in Replies
<1>1. Handler(op, k) \in Replies
  BY DEF Handler, Reply, Replies
<1>2. ExtReply(op, tok, k) \in Replies
  BY <1>1 DEF ExtReply, Reply, Replies
<1>3. NfcReply(op, k) \in Replies
  BY DEF NfcReply, Reply, Replies
<1> QED BY <1>2, <1>3 DEF ReplyTo

\* A session never goes back to a state in which it was open.
Advances(before, after) ==
  /\ after = "pending" => before = "pending"
  /\ after \in {"pending", "active"} => before \in {"pending", "active"}

\* What is carried out keeps the cabinet's type, and moves its session on.
LEMMA CabinetAfter ==
  ASSUME NEW op \in Ops, NEW tok, NEW k \in Cabinet, CarriedOut(op, tok, k)
  PROVE  /\ After(op, k) \in Cabinet
         /\ Advances(k.session, After(op, k).session)
         /\ op \in SessionOps => /\ k.session \in StillOpen(op)
                                 /\ After(op, k).session \notin StillOpen(op)
<1>1. CASE op \in SessionOps
  <2>1. After(op, k) = [k EXCEPT !.session = Becomes(op)]
    BY <1>1, Zenon DEF After, SessionOps
  <2>2. Becomes(op) \in SessionStates
    BY DEF Becomes, SessionStates
  <2>3. After(op, k) \in Cabinet /\ After(op, k).session = Becomes(op)
    BY <2>1, <2>2 DEF Cabinet
  <2>4. k.session = Expected(op)
    <3>1. ExtReply(op, tok, k).status = 200 => ExtReply(op, tok, k) = Handler(op, k)
      BY DEF ExtReply, Reply
    <3>2. op \in {"allow", "deny", "stop"} => Handler(op, k).status = 200
      BY <3>1 DEF CarriedOut, ReplyTo, NfcOps
    <3>3. op = "nfc_stop" => NfcReply(op, k).status = 200
      BY DEF CarriedOut, ReplyTo, NfcOps
    <3>4. op \in {"allow", "deny", "stop"} => k.session = Expected(op)
      BY <3>2 DEF Handler, Reply
    <3>5. op = "nfc_stop" => k.session = Expected(op)
      BY <3>3 DEF NfcReply, Reply, Expected
    <3> QED BY <1>1, <3>4, <3>5 DEF SessionOps
  <2> QED BY <1>1, <2>3, <2>4 DEF SessionOps, Advances, StillOpen, Expected, Becomes
<1>2. CASE op \notin SessionOps
  <2>1. After(op, k) \in Cabinet /\ After(op, k).session = k.session
    BY <1>2 DEF After, Cabinet
  <2> QED BY <1>2, <2>1 DEF Advances
<1> QED BY <1>1, <1>2

(***************************************************************************)
(* One request                                                             *)
(***************************************************************************)

\* A request whose call, messages and rows a step leaves alone keeps its invariant.
LEMMA Untouched ==
  ASSUME TypeOK, TypeOK', NEW r \in Requests, CallInv(r),
         calls'[r] = calls[r], InFlight(r)' = InFlight(r), executed'[r] = executed[r],
         audit'[r] = audit[r], flow'[r] = flow[r] \/ flow'[r] # "checked",
         changes[ServerFor(r)] <= changes'[ServerFor(r)],
         Advances(cabinet[ServerFor(r)].session, cabinet'[ServerFor(r)].session)
  PROVE  CallInv(r)'
<1> USE DEF CallInv
<1>1. Fresh(r)' /\ Answering(r)' /\ Numbered(r)'
  BY DEF Fresh, Answering, Numbered, Held, Positive
<1>2. Resends(r)'
  BY DEF Resends, MayHaveBeen, Allowance, Held, Positive
<1>3. Answered1(r)'
  BY DEF Answered1, Held, Positive
<1>4. ServerFor(r) \in Servers
  BY ClientAssumption DEF ServerFor
<1>5. Judged(r)'
  <2>1. /\ calls[r].since \in Nat /\ changes[ServerFor(r)] \in Nat
        /\ changes'[ServerFor(r)] \in Nat
    BY <1>4 DEF TypeOK, ClientTypeOK, Call
  <2> QED BY <2>1 DEF Judged
<1>6. Recorded(r)' /\ Barred(r)'
  BY DEF Recorded, Barred
<1>7. Moved(r)'
  BY DEF Moved, Advances, StillOpen
<1> QED BY <1>1, <1>2, <1>3, <1>5, <1>6, <1>7

\* A step of one request, which leaves the cabinets alone.
LEMMA OneRequest ==
  ASSUME CommandsInv, TypeOK', NEW r \in Requests, NEW call,
         calls' = [calls EXCEPT ![r] = call], UNCHANGED <<cabinet, changes, executed>>,
         \A q \in Requests \ {r} : /\ InFlight(q)' = InFlight(q)
                                   /\ audit'[q] = audit[q] /\ flow'[q] = flow[q],
         IsFiniteSet(net'), Cached', CallInv(r)'
  PROVE  CommandsInv'
<1>1. ASSUME NEW q \in Requests, q # r PROVE CallInv(q)'
  <2>1. calls'[q] = calls[q] /\ executed'[q] = executed[q]
    BY <1>1 DEF CommandsInv, TypeOK, ClientTypeOK
  <2>2. /\ changes[ServerFor(q)] <= changes'[ServerFor(q)]
        /\ Advances(cabinet[ServerFor(q)].session, cabinet'[ServerFor(q)].session)
    <3>1. ServerFor(q) \in Servers
      BY ClientAssumption DEF ServerFor
    <3>2. changes[ServerFor(q)] \in Nat
      BY <3>1 DEF CommandsInv, TypeOK, ClientTypeOK
    <3> QED BY <3>2 DEF Advances
  <2> QED BY <1>1, <2>1, <2>2, Untouched DEF CommandsInv
<1> QED BY <1>1 DEF CommandsInv

\* The invariant's facts of one request, and its types.
LEMMA OwnFacts ==
  ASSUME CommandsInv, NEW r \in Requests
  PROVE  /\ calls[r] \in Call /\ executed[r] \in Nat /\ ServerFor(r) \in Servers
         /\ ClientOf[r] \in Clients /\ Op[r] \in Ops /\ changes[ServerFor(r)] \in Nat
         /\ cabinet[ServerFor(r)] \in Cabinet /\ token[ClientOf[r]] \in Nat \union {None}
         /\ IsFiniteSet(InFlight(r)) /\ Cardinality(InFlight(r)) \in Nat /\ CallInv(r)
<1>1. IsFiniteSet(InFlight(r))
  <2>1. InFlight(r) \in SUBSET net
    BY DEF InFlight
  <2> QED BY <2>1, FS_Subset DEF CommandsInv
<1>2. Cardinality(InFlight(r)) \in Nat
  BY <1>1, FS_CardinalityType
<1>3. ClientOf[r] \in Clients /\ ServerFor(r) \in Servers /\ Op[r] \in Ops
  BY ClientAssumption DEF ServerFor
<1> QED BY <1>1, <1>2, <1>3 DEF CommandsInv, TypeOK, ClientTypeOK

\* The request leaves: one sending more on its way.
LEMMA SendsInv ==
  ASSUME CommandsInv, NEW r \in Requests, NEW tok \in Nat \union {None},
         calls[r].at \in {"start", "login"}, Sends(r, tok),
         token' \in [Clients -> Nat \union {None}],
         UNCHANGED <<cabinet, changes, known_off, cache, executed, surprises,
                     audit, record, flow, photos>>
  PROVE  CommandsInv'
<1> DEFINE m == [req |-> r, n |-> calls[r].sent + 1, tok |-> tok]
<1>1. /\ calls[r] \in Call /\ executed[r] \in Nat /\ IsFiniteSet(InFlight(r))
      /\ Cardinality(InFlight(r)) \in Nat /\ CallInv(r)
  BY OwnFacts
<1>2. /\ calls' = [calls EXCEPT ![r] =
                      [calls[r] EXCEPT !.at = "wait", !.sent = @ + 1, !.answer = None]]
      /\ net' = net \union {m}
  BY DEF Sends, Update
<1>3. [calls[r] EXCEPT !.at = "wait", !.sent = @ + 1, !.answer = None] \in Call
  <2>1. calls[r].sent + 1 \in Nat
    BY <1>1 DEF Call
  <2> QED BY <1>1, <2>1 DEF Call, Phases
<1>4. TypeOK'
  <2>1. m \in Message
    BY <1>1 DEF Message, Call
  <2> QED BY <1>2, <1>3, <2>1 DEF CommandsInv, TypeOK, ClientTypeOK
<1>5. /\ calls'[r].at = "wait" /\ calls'[r].sent = calls[r].sent + 1 /\ calls'[r].answer = None
      /\ calls'[r].attempt = calls[r].attempt /\ calls'[r].lost = calls[r].lost
      /\ calls'[r].since = calls[r].since /\ calls'[r].code = calls[r].code
      /\ calls'[r].data = calls[r].data /\ calls'[r].http = calls[r].http
  <2>1. calls'[r] = [calls[r] EXCEPT !.at = "wait", !.sent = @ + 1, !.answer = None]
    BY <1>2 DEF CommandsInv, TypeOK, ClientTypeOK
  <2> QED BY <1>1, <2>1 DEF Call
<1>6. InFlight(r)' = InFlight(r) \union {m} /\ m \notin InFlight(r)
  BY <1>1, <1>2 DEF InFlight, CallInv, Numbered, Call
<1>7. /\ Cardinality(InFlight(r)') = Cardinality(InFlight(r)) + 1
      /\ IsFiniteSet(net')
  BY <1>1, <1>2, <1>6, FS_AddElement DEF CommandsInv
<1>8. \A q \in Requests \ {r} : InFlight(q)' = InFlight(q)
  BY <1>2 DEF InFlight
<1>9. CallInv(r)'
  <2> USE DEF CallInv
  <2>1. calls[r].attempt \in Nat /\ calls[r].sent \in Nat /\ calls[r].lost \in BOOLEAN
    BY <1>1 DEF Call
  <2>2. Fresh(r)' /\ Answering(r)'
    BY <1>5 DEF Fresh, Answering, Held
  <2>3. Numbered(r)'
    BY <1>1, <1>5, <1>6, <2>1 DEF Numbered, Held
  <2>4. Resends(r)'
    BY <1>1, <1>5, <1>7, <2>1 DEF Resends, MayHaveBeen, Allowance, Held, Running
  <2>5. Answered1(r)'
    BY <1>1, <1>5, <1>6, <2>1 DEF Answered1, Held, Positive, Settled
  <2>6. Judged(r)'
    BY <1>1, <1>5 DEF Judged, Settled
  <2>7. Recorded(r)' /\ Barred(r)' /\ Moved(r)'
    BY <1>1, <1>5 DEF Recorded, Barred, Moved
  <2> QED BY <2>2, <2>3, <2>4, <2>5, <2>6, <2>7
<1>10. Cached'
  BY DEF CommandsInv, Cached
<1> QED BY <1>2, <1>4, <1>7, <1>8, <1>9, <1>10, OneRequest

\* A call waits for the sign-in, or starts again after it.
LEMMA LoginInv ==
  ASSUME CommandsInv, NEW r \in Requests, Login(r), UNCHANGED <<audit, record, flow, photos>>
  PROVE  CommandsInv'
<1>1. calls[r] \in Call /\ CallInv(r)
  BY OwnFacts
<1>2. calls' = [calls EXCEPT ![r] = [calls[r] EXCEPT !.at = "login"]] /\ calls[r].at = "start"
  BY DEF Login, Update
<1>3. [calls[r] EXCEPT !.at = "login"] \in Call
  BY <1>1 DEF Call, Phases
<1>4. TypeOK'
  BY <1>2, <1>3 DEF CommandsInv, TypeOK, ClientTypeOK, Login
<1>5. /\ calls'[r].at = "login" /\ calls'[r].sent = calls[r].sent
      /\ calls'[r].attempt = calls[r].attempt /\ calls'[r].lost = calls[r].lost
      /\ calls'[r].since = calls[r].since /\ calls'[r].code = calls[r].code
      /\ calls'[r].data = calls[r].data /\ calls'[r].http = calls[r].http
  <2>1. calls'[r] = [calls[r] EXCEPT !.at = "login"]
    BY <1>2 DEF CommandsInv, TypeOK, ClientTypeOK
  <2> QED BY <1>1, <2>1 DEF Call
<1>6. \A q \in Requests : InFlight(q)' = InFlight(q)
  BY DEF InFlight, Login
<1>7. CallInv(r)'
  <2> USE DEF CallInv, Login
  <2>1. Fresh(r)' /\ Answering(r)' /\ Numbered(r)'
    BY <1>1, <1>2, <1>5, <1>6 DEF Fresh, Answering, Numbered, Held
  <2>2. Resends(r)'
    BY <1>1, <1>2, <1>5, <1>6 DEF Resends, MayHaveBeen, Allowance, Running
  <2>3. Answered1(r)'
    BY <1>1, <1>2, <1>5, <1>6 DEF Answered1, Held, Positive, Settled
  <2>4. Judged(r)' /\ Recorded(r)' /\ Barred(r)' /\ Moved(r)'
    BY <1>1, <1>2, <1>5 DEF Judged, Recorded, Barred, Moved, Settled
  <2> QED BY <2>1, <2>2, <2>3, <2>4
<1>8. Cached' /\ IsFiniteSet(net') /\ UNCHANGED <<cabinet, changes, executed, audit, flow>>
  BY DEF CommandsInv, Cached, Login
<1> QED BY <1>2, <1>4, <1>6, <1>7, <1>8, OneRequest

\* A call that returns: its outcome is new, the rest is as it was.
LEMMA ReturnedCall ==
  ASSUME NEW k \in Call, NEW code \in Codes, NEW http \in Nat, NEW data \in Data \union {None}
  PROVE  LET call == Returned(k, code, http, data)
         IN /\ call \in Call /\ call.at = "returned" /\ call.code = code /\ call.http = http
            /\ call.data = data /\ call.sent = k.sent /\ call.attempt = k.attempt
            /\ call.lost = k.lost /\ call.since = k.since
BY DEF Returned, Call, Phases

\* A call ends without an answer to a request, or with no request made.
LEMMA EndsInv ==
  ASSUME CommandsInv, TypeOK', NEW r \in Requests, NEW call \in Call,
         calls' = [calls EXCEPT ![r] = call], calls[r].at \in {"new", "login"},
         call.at = "returned", call.code \in Codes \ {"ok"}, call.data = None,
         call.since <= changes[ServerFor(r)], call.sent = calls[r].sent,
         call.lost = calls[r].lost,
         UNCHANGED <<cabinet, changes, cache, net, executed>>,
         \A q \in Requests \ {r} : audit'[q] = audit[q] /\ flow'[q] = flow[q],
         IF Audits(r) THEN audit'[r] # None ELSE audit'[r] = None,
         flow'[r] = flow[r] \/ flow'[r] # "checked",
         ~Forbidden(r)
  PROVE  CommandsInv'
<1>1. /\ calls[r] \in Call /\ CallInv(r) /\ executed[r] \in Nat
      /\ Cardinality(InFlight(r)) \in Nat
  BY OwnFacts
<1>2. calls'[r] = call
  BY DEF CommandsInv, TypeOK, ClientTypeOK
<1>3. \A q \in Requests : InFlight(q)' = InFlight(q)
  BY DEF InFlight
<1>4. CallInv(r)'
  <2> USE DEF CallInv
  <2>1. Fresh(r)' /\ Answering(r)' /\ Numbered(r)'
    BY <1>1, <1>2, <1>3 DEF Fresh, Answering, Numbered, Held
  <2>2. Resends(r)'
    <3>1. calls[r].attempt \in Nat /\ ATTEMPTS \in Nat
      BY <1>1, ClientAssumption DEF Call
    <3> QED BY <1>1, <1>2, <1>3, <3>1 DEF Resends, MayHaveBeen, Allowance, Running
  <2>3. Answered1(r)'
    BY <1>1, <1>2, <1>3 DEF Answered1, Held, Positive, Settled
  <2>4. Judged(r)' /\ Recorded(r)' /\ Barred(r)' /\ Moved(r)'
    BY <1>1, <1>2 DEF Judged, Recorded, Barred, Moved, Settled
  <2> QED BY <2>1, <2>2, <2>3, <2>4
<1>5. Cached' /\ IsFiniteSet(net')
  BY DEF CommandsInv, Cached
<1> QED BY <1>3, <1>4, <1>5, OneRequest

\* The cabinet refuses the sign-in, and the call ends.
LEMMA LoginRefusedInv ==
  ASSUME CommandsInv, NEW r \in Requests, LoginRefused(r), UNCHANGED <<audit, record, flow, photos>>
  PROVE  CommandsInv'
<1>1. calls[r] \in Call /\ CallInv(r)
  BY OwnFacts
<1> DEFINE call == Returned(calls[r], "cabinet_auth_failed", 401, None)
<1>2. calls' = [calls EXCEPT ![r] = call] /\ calls[r].at = "login"
  BY DEF LoginRefused, Update
<1>3. /\ call \in Call /\ call.at = "returned" /\ call.code = "cabinet_auth_failed"
      /\ call.data = None /\ call.sent = calls[r].sent /\ call.lost = calls[r].lost
      /\ call.since = calls[r].since
  BY <1>1, ReturnedCall DEF Codes
<1> HIDE DEF call
<1>4. TypeOK'
  BY <1>2, <1>3 DEF CommandsInv, TypeOK, ClientTypeOK, LoginRefused
<1>5. calls[r].since <= changes[ServerFor(r)]
  BY <1>1 DEF CallInv, Judged
<1>6. (IF Audits(r) THEN audit'[r] # None ELSE audit'[r] = None) /\ ~Forbidden(r)
  BY <1>1, <1>2 DEF CallInv, Barred, Recorded
<1>7. UNCHANGED <<cabinet, changes, cache, net, executed>>
  BY DEF LoginRefused
<1> QED BY <1>2, <1>3, <1>4, <1>5, <1>6, <1>7, EndsInv DEF Codes

\* An attempt without a useful answer: the next one, or the end with what was known last.
LEMMA AttemptFailedInv ==
  ASSUME CommandsInv, NEW r \in Requests,
         calls[r].at = "login" \/ (calls[r].at = "wait" /\ ~Positive(r)),
         calls' = [calls EXCEPT ![r] = AttemptFailed(r, calls[r])],
         net' = net \/ (IsGet(r) /\ net' = {m \in net : m.req # r}),
         UNCHANGED <<cabinet, changes, token, known_off, cache, executed, surprises,
                     audit, record, flow, photos>>
  PROVE  CommandsInv'
<1>1. /\ calls[r] \in Call /\ CallInv(r) /\ executed[r] \in Nat /\ ServerFor(r) \in Servers
      /\ IsFiniteSet(InFlight(r)) /\ Cardinality(InFlight(r)) \in Nat /\ ATTEMPTS \in Nat
  BY OwnFacts, ClientAssumption
<1> DEFINE next == [calls[r] EXCEPT !.attempt = @ + 1, !.answer = None, !.lost = TRUE]
           call == AttemptFailed(r, calls[r])
           last == cache[ServerFor(r)][Op[r]]
<1>2. calls[r].attempt + 1 \in Nat
  BY <1>1 DEF Call
<1>3. /\ next \in Call /\ next.attempt = calls[r].attempt + 1 /\ next.lost
      /\ next.sent = calls[r].sent /\ next.since = calls[r].since /\ next.code = calls[r].code
      /\ next.data = calls[r].data /\ next.answer = None
  BY <1>1, <1>2 DEF Call
<1> HIDE DEF next
<1>4. ASSUME next.attempt < ATTEMPTS
      PROVE  /\ call \in Call /\ call.at = "start" /\ call.attempt = calls[r].attempt + 1
             /\ call.lost /\ call.sent = calls[r].sent /\ call.since = calls[r].since
             /\ call.code = calls[r].code /\ call.data = calls[r].data
  <2>1. call = [next EXCEPT !.at = "start"]
    BY <1>4 DEF AttemptFailed, next
  <2> QED BY <1>3, <2>1 DEF Call, Phases
<1>5. IsGet(r) /\ last # None => last \in Data /\ last.server = ServerFor(r)
  BY <1>1 DEF CommandsInv, TypeOK, ClientTypeOK, Cached, IsGet
<1>6. ASSUME ~(next.attempt < ATTEMPTS)
      PROVE  /\ call \in Call /\ call.at = "returned" /\ call.code \in {"stale", "no_contact"}
             /\ call.lost /\ call.sent = calls[r].sent /\ call.since = calls[r].since
             /\ call.data # None => call.data.server = ServerFor(r)
  <2>1. call = GivesUp(r, next)
    BY <1>6 DEF AttemptFailed, next
  <2>2. CASE IsGet(r) /\ last # None
    <3>1. call = Returned(next, "stale", 0, last)
      BY <2>1, <2>2 DEF GivesUp
    <3> HIDE DEF call, last
    <3>2. last \in Data \union {None} /\ "stale" \in Codes
      BY <1>5, <2>2 DEF Codes
    <3>3. /\ call \in Call /\ call.at = "returned" /\ call.code = "stale" /\ call.data = last
          /\ call.sent = next.sent /\ call.lost = next.lost /\ call.since = next.since
      BY <1>3, <3>1, <3>2 DEF Returned, Call, Phases
    <3> QED BY <1>3, <1>5, <2>2, <3>3
  <2>3. CASE ~(IsGet(r) /\ last # None)
    <3>1. call = Returned(next, "no_contact", 0, None)
      BY <2>1, <2>3 DEF GivesUp
    <3> HIDE DEF call, last
    <3> QED BY <1>3, <3>1, ReturnedCall DEF Codes
  <2> QED BY <2>2, <2>3
<1>7. call \in Call /\ calls' = [calls EXCEPT ![r] = call]
  BY <1>4, <1>6
<1> HIDE DEF call, last
<1>8. TypeOK' /\ calls'[r] = call
  BY <1>7 DEF CommandsInv, TypeOK, ClientTypeOK
<1>9. InFlight(r)' \in SUBSET InFlight(r) /\ \A q \in Requests \ {r} : InFlight(q)' = InFlight(q)
  BY DEF InFlight
<1>10. Cardinality(InFlight(r)') \in Nat /\ Cardinality(InFlight(r)') <= Cardinality(InFlight(r))
  BY <1>1, <1>9, FS_Subset, FS_CardinalityType
<1>11. IsFiniteSet(net')
  <2>1. net' \in SUBSET net
    OBVIOUS
  <2> QED BY <2>1, FS_Subset DEF CommandsInv
<1>12. CallInv(r)'
  <2> USE DEF CallInv
  <2>1. /\ call.at \in {"start", "returned"} /\ call.lost /\ call.sent = calls[r].sent
        /\ call.since = calls[r].since /\ calls[r].sent \in Nat /\ calls[r].attempt \in Nat
    BY <1>1, <1>4, <1>6 DEF Call
  <2>2. Fresh(r)' /\ Answering(r)' /\ Answered1(r)'
    BY <1>8, <2>1 DEF Fresh, Answering, Answered1, Held
  <2>3. Numbered(r)'
    BY <1>1, <1>8, <1>9, <2>1 DEF Numbered, Held
  <2>4. Resends(r)'
    <3>1. MayHaveBeen(r) <= calls[r].attempt + 1 /\ calls[r].attempt < ATTEMPTS
      BY <1>1, <2>1 DEF Resends, MayHaveBeen, Allowance, Running
    <3>2. MayHaveBeen(r)' <= calls[r].attempt + 1
      BY <1>1, <1>10, <2>1, <3>1 DEF MayHaveBeen
    <3>3. MayHaveBeen(r)' \in Nat
      BY <1>1, <1>10 DEF MayHaveBeen
    <3> QED BY <1>1, <1>3, <1>4, <1>6, <1>8, <2>1, <3>1, <3>2, <3>3 DEF Resends, Allowance, Running
  <2>5. Judged(r)'
    BY <1>1, <1>4, <1>6, <1>8 DEF Judged, Settled, Codes
  <2>6. Recorded(r)' /\ Barred(r)' /\ Moved(r)'
    BY <1>1, <1>8, <2>1 DEF Recorded, Barred, Moved
  <2> QED BY <2>2, <2>3, <2>4, <2>5, <2>6
<1>13. Cached'
  BY DEF CommandsInv, Cached
<1> QED BY <1>7, <1>8, <1>9, <1>11, <1>12, <1>13, OneRequest

\* The token is dropped and the call starts again: the answer was a refusal.
LEMMA ReLoginInv ==
  ASSUME CommandsInv, NEW r \in Requests, ReLogin(r), UNCHANGED <<audit, record, flow, photos>>
  PROVE  CommandsInv'
<1>1. /\ calls[r] \in Call /\ CallInv(r) /\ executed[r] \in Nat
      /\ Cardinality(InFlight(r)) \in Nat
  BY OwnFacts
<1> DEFINE call == [calls[r] EXCEPT !.at = "start", !.retried = TRUE, !.answer = None]
<1>2. calls' = [calls EXCEPT ![r] = call] /\ Held(r) /\ ~Positive(r)
  BY DEF ReLogin, Update, Held, Positive
<1>3. /\ call \in Call /\ call.at = "start" /\ call.sent = calls[r].sent
      /\ call.attempt = calls[r].attempt /\ call.lost = calls[r].lost
      /\ call.since = calls[r].since /\ call.code = calls[r].code /\ call.data = calls[r].data
  BY <1>1 DEF Call, Phases
<1> HIDE DEF call
<1>4. TypeOK' /\ calls'[r] = call
  BY <1>2, <1>3 DEF CommandsInv, TypeOK, ClientTypeOK, ReLogin
<1>5. \A q \in Requests : InFlight(q)' = InFlight(q)
  BY DEF InFlight, ReLogin
<1>6. CallInv(r)'
  <2> USE DEF CallInv, ReLogin
  <2>1. Fresh(r)' /\ Answering(r)' /\ Numbered(r)'
    BY <1>1, <1>3, <1>4, <1>5 DEF Fresh, Answering, Numbered, Held
  <2>2. Resends(r)'
    BY <1>1, <1>2, <1>3, <1>4, <1>5 DEF Resends, MayHaveBeen, Allowance, Running, Held, Positive
  <2>3. Answered1(r)'
    BY <1>1, <1>2, <1>3, <1>4, <1>5 DEF Answered1, Held, Positive, Settled
  <2>4. Judged(r)' /\ Recorded(r)' /\ Barred(r)' /\ Moved(r)'
    BY <1>1, <1>2, <1>3, <1>4 DEF Judged, Recorded, Barred, Moved, Settled, Held
  <2> QED BY <2>1, <2>2, <2>3, <2>4
<1>7. Cached' /\ IsFiniteSet(net') /\ UNCHANGED <<cabinet, changes, executed, audit, flow>>
  BY DEF CommandsInv, Cached, ReLogin
<1> QED BY <1>2, <1>4, <1>5, <1>6, <1>7, OneRequest

\* What an answer means to the caller; only a positive one is "ok".
LEMMA Meaning ==
  ASSUME NEW a, Reply(a.status, a.detail) \in Replies, a.status # 500
  PROVE  CodeOf(a) \in Codes /\ (CodeOf(a) = "ok" <=> a.status = 200)
BY DEF Reply, Replies, CodeOf, Codes

\* The final answer.
LEMMA AnsweredInv ==
  ASSUME CommandsInv, NEW r \in Requests, Answered(r), UNCHANGED <<audit, record, flow, photos>>
  PROVE  CommandsInv'
<1> DEFINE answer == calls[r].answer
           data == IF IsGet(r) /\ answer.status = 200 THEN Stored(r) ELSE None
           call == Returned(calls[r], CodeOf(answer), answer.status, data)
<1>1. /\ calls[r] \in Call /\ CallInv(r) /\ executed[r] \in Nat /\ ServerFor(r) \in Servers
      /\ ClientOf[r] \in Clients /\ Op[r] \in Ops
      /\ Cardinality(InFlight(r)) \in Nat /\ ATTEMPTS \in Nat
  BY OwnFacts, ClientAssumption
<1>2. Held(r) /\ answer.status # 500 /\ calls' = [calls EXCEPT ![r] = call]
  BY DEF Answered, Update, Held
<1>3. /\ Reply(answer.status, answer.detail) \in Replies
      /\ answer.status \in Nat /\ answer.data \in Nat
      /\ answer.status = 200 => executed[r] > 0 /\ answer.data >= calls[r].since
  BY <1>1, <1>2 DEF CallInv, Answering, Positive, Held, Call
<1>4. CodeOf(answer) \in Codes /\ (CodeOf(answer) = "ok" <=> answer.status = 200)
  BY <1>2, <1>3, Meaning
<1>5. /\ data \in Data \union {None}
      /\ data # None => /\ data.server = ServerFor(r) /\ data.data = answer.data
                        /\ IsGet(r) /\ answer.status = 200
  BY <1>1, <1>3 DEF Stored, Data
<1>6. /\ call \in Call /\ call.at = "returned" /\ call.code = CodeOf(answer) /\ call.data = data
      /\ call.http = answer.status /\ call.sent = calls[r].sent /\ call.lost = calls[r].lost
      /\ call.since = calls[r].since
  <2> HIDE DEF data, answer
  <2> QED BY <1>1, <1>3, <1>4, <1>5 DEF Returned, Call, Phases
<1>7. cache' = IF data = None THEN cache ELSE [cache EXCEPT ![ServerFor(r)][Op[r]] = data]
  BY DEF Answered
<1>8. known_off' \in [Clients -> SUBSET Keys]
  <2>1. ~IsNfc(r) => Key(Op[r]) \in Keys
    BY <1>1 DEF IsNfc, Keys
  <2> QED BY <1>1, <2>1 DEF Answered, CommandsInv, TypeOK, ClientTypeOK
<1>9. UNCHANGED <<cabinet, changes, token, net, executed, surprises>>
  BY DEF Answered
<1> HIDE DEF call, data, answer
<1>10. cache' \in [Servers -> [Reads -> Data \union {None}]] /\ Cached'
  <2>1. CASE data = None
    BY <1>7, <2>1 DEF CommandsInv, TypeOK, ClientTypeOK, Cached
  <2>2. CASE data # None
    <3>1. Op[r] \in Reads /\ data \in Data /\ data.server = ServerFor(r)
      BY <1>5, <2>2 DEF IsGet
    <3>2. cache' = [cache EXCEPT ![ServerFor(r)] = [cache[ServerFor(r)] EXCEPT ![Op[r]] = data]]
      BY <1>7, <2>2
    <3>3. cache \in [Servers -> [Reads -> Data \union {None}]] /\ Cached
      BY DEF CommandsInv, TypeOK, ClientTypeOK
    <3>4. cache[ServerFor(r)] \in [Reads -> Data \union {None}]
      BY <1>1, <3>3
    <3>5. [cache[ServerFor(r)] EXCEPT ![Op[r]] = data] \in [Reads -> Data \union {None}]
      BY <3>1, <3>4
    <3>6. cache' \in [Servers -> [Reads -> Data \union {None}]]
      BY <1>1, <3>2, <3>3, <3>5
    <3>7. ASSUME NEW s \in Servers, NEW op \in Reads, cache'[s][op] # None
          PROVE  cache'[s][op].server = s
      <4>1. CASE s = ServerFor(r) /\ op = Op[r]
        <5>1. cache'[s][op] = data
          BY <3>1, <3>2, <3>3, <3>4, <4>1
        <5> QED BY <3>1, <4>1, <5>1
      <4>2. CASE ~(s = ServerFor(r) /\ op = Op[r])
        <5>1. cache'[s][op] = cache[s][op]
          BY <3>1, <3>2, <3>3, <3>4, <4>2
        <5> QED BY <3>3, <3>7, <5>1 DEF Cached
      <4> QED BY <4>1, <4>2
    <3> QED BY <3>6, <3>7 DEF Cached
  <2> QED BY <2>1, <2>2
<1>11. TypeOK' /\ calls'[r] = call
  BY <1>2, <1>6, <1>8, <1>9, <1>10 DEF CommandsInv, TypeOK, ClientTypeOK
<1>12. \A q \in Requests : InFlight(q)' = InFlight(q)
  BY <1>9 DEF InFlight
<1>13. CallInv(r)'
  <2> USE DEF CallInv
  <2>1. Fresh(r)' /\ Answering(r)' /\ Numbered(r)'
    BY <1>1, <1>6, <1>11, <1>12 DEF Fresh, Answering, Numbered, Held
  <2>2. Resends(r)'
    <3>1. calls[r].attempt \in Nat
      BY <1>1 DEF Call
    <3> QED BY <1>1, <1>2, <1>6, <1>9, <1>11, <1>12, <3>1
            DEF Resends, MayHaveBeen, Allowance, Running, Held
  <2>3. Answered1(r)'
    BY <1>1, <1>2, <1>4, <1>6, <1>9, <1>11, <1>12
       DEF Answered1, Held, Positive, Settled, answer
  <2>4. Judged(r)'
    BY <1>1, <1>3, <1>4, <1>5, <1>6, <1>9, <1>11 DEF Judged, Settled
  <2>5. Recorded(r)' /\ Barred(r)' /\ Moved(r)'
    BY <1>1, <1>2, <1>6, <1>9, <1>11 DEF Recorded, Barred, Moved, Held
  <2> QED BY <2>1, <2>2, <2>3, <2>4, <2>5
<1>14. IsFiniteSet(net')
  BY <1>9 DEF CommandsInv
<1> QED BY <1>2, <1>9, <1>10, <1>11, <1>12, <1>13, <1>14, OneRequest

\* Every step of the client.
LEMMA ClientStepInv ==
  ASSUME CommandsInv, NEW r \in Requests, ClientStep(r), UNCHANGED <<audit, record, flow, photos>>
  PROVE  CommandsInv'
<1>1. CASE Send(r)
  <2> DEFINE tok == IF IsNfc(r) THEN None ELSE token[ClientOf[r]]
  <2>1. tok \in Nat \union {None} /\ Sends(r, tok) /\ calls[r].at = "start"
    BY <1>1, OwnFacts DEF Send
  <2>2. token' \in [Clients -> Nat \union {None}]
    BY <1>1 DEF Send, CommandsInv, TypeOK, ClientTypeOK
  <2> QED BY <1>1, <2>1, <2>2, SendsInv DEF Send
<1>2. CASE Login(r)
  BY <1>2, LoginInv
<1>3. CASE LoginAccepted(r)
  <2> DEFINE tok == cabinet[ServerFor(r)].gen
  <2>1. tok \in Nat
    BY OwnFacts DEF Cabinet
  <2>2. Sends(r, tok) /\ calls[r].at = "login" /\ token' = [token EXCEPT ![ClientOf[r]] = tok]
    BY <1>3 DEF LoginAccepted
  <2>3. token' \in [Clients -> Nat \union {None}]
    BY <2>1, <2>2, OwnFacts DEF CommandsInv, TypeOK, ClientTypeOK
  <2> QED BY <1>3, <2>1, <2>2, <2>3, SendsInv DEF LoginAccepted
<1>4. CASE LoginRefused(r)
  BY <1>4, LoginRefusedInv
<1>5. CASE TimesOut(r)
  <2>1. calls[r].at = "login" \/ (calls[r].at = "wait" /\ ~Positive(r))
    BY <1>5 DEF TimesOut, Positive, Held
  <2> QED BY <1>5, <2>1, AttemptFailedInv DEF TimesOut, Update
<1>6. CASE Answered(r)
  BY <1>6, AnsweredInv
<1>7. CASE ReLogin(r)
  BY <1>7, ReLoginInv
<1>8. CASE ServerError(r)
  <2>1. calls[r].at = "wait" /\ ~Positive(r)
    BY <1>8 DEF ServerError, Positive
  <2> QED BY <1>8, <2>1, AttemptFailedInv DEF ServerError, Update
<1> QED BY <1>1, <1>2, <1>3, <1>4, <1>5, <1>6, <1>7, <1>8 DEF ClientStep

(***************************************************************************)
(* The network and the cabinets                                            *)
(***************************************************************************)

\* A message is dealt with, and the call hears of it if it still waits for this sending.
LEMMA DealtWith ==
  ASSUME CommandsInv, NEW m \in net, NEW status, NEW detail, NEW data \in Nat,
         Reply(status, detail) \in Replies,
         net' = net \ {m}, calls' = Answers(m, status, detail, data),
         \/ status = 200 /\ executed' = [executed EXCEPT ![m.req] = @ + 1]
         \/ status # 200 /\ executed' = executed,
         status = 200 => changes[ServerFor(m.req)] <= data,
         cabinet' \in [Servers -> Cabinet], changes' \in [Servers -> Nat],
         \A s \in Servers : /\ changes[s] <= changes'[s]
                            /\ Advances(cabinet[s].session, cabinet'[s].session),
         Moved(m.req)',
         UNCHANGED <<token, known_off, cache, surprises, audit, record, flow, photos>>
  PROVE  CommandsInv'
<1> DEFINE r == m.req
           call == [calls[r] EXCEPT !.answer =
                      [status |-> status, detail |-> detail, data |-> data]]
           heard == calls[r].at = "wait" /\ calls[r].sent = m.n
<1>1. r \in Requests /\ m \in InFlight(r) /\ m.n \in Nat
  BY DEF CommandsInv, TypeOK, ClientTypeOK, Message, InFlight
<1>2. /\ calls[r] \in Call /\ CallInv(r) /\ executed[r] \in Nat /\ ServerFor(r) \in Servers
      /\ changes[ServerFor(r)] \in Nat /\ IsFiniteSet(InFlight(r))
      /\ Cardinality(InFlight(r)) \in Nat /\ ATTEMPTS \in Nat
  BY <1>1, OwnFacts, ClientAssumption
<1>3. status \in Nat /\ detail \in Codes
  BY DEF Reply, Replies, Codes
<1>4. /\ call \in Call /\ call.answer # None
      /\ call.answer = [status |-> status, detail |-> detail, data |-> data]
      /\ \A f \in {"at", "attempt", "sent", "lost", "since", "code", "http", "data"} :
           call[f] = calls[r][f]
  <2>1. [status |-> status, detail |-> detail, data |-> data]
          \in [status : Nat, detail : Codes, data : Nat]
    BY <1>3
  <2> QED BY <1>2, <2>1, ClientAssumption DEF Call
<1>5. /\ heard => calls' = [calls EXCEPT ![r] = call]
      /\ ~heard => calls' = calls
  BY DEF Answers
<1> HIDE DEF call
<1>6. /\ calls' \in [Requests -> Call]
      /\ calls'[r] = IF heard THEN call ELSE calls[r]
      /\ \A q \in Requests \ {r} : calls'[q] = calls[q]
  BY <1>1, <1>4, <1>5 DEF CommandsInv, TypeOK, ClientTypeOK
<1>7. /\ executed' \in [Requests -> Nat]
      /\ executed'[r] = executed[r] + (IF status = 200 THEN 1 ELSE 0)
      /\ \A q \in Requests \ {r} : executed'[q] = executed[q]
  BY <1>1, <1>2 DEF CommandsInv, TypeOK, ClientTypeOK
<1>8. TypeOK'
  BY <1>6, <1>7 DEF CommandsInv, TypeOK, ClientTypeOK
<1>9. InFlight(r)' = InFlight(r) \ {m} /\ \A q \in Requests \ {r} : InFlight(q)' = InFlight(q)
  BY DEF InFlight
<1>10. Cardinality(InFlight(r)') = Cardinality(InFlight(r)) - 1
  <2>1. Cardinality(InFlight(r) \ {m}) = Cardinality(InFlight(r)) - 1
    BY <1>1, <1>2, FS_RemoveElement
  <2> QED BY <1>9, <2>1
<1>11. IsFiniteSet(net')
  BY FS_RemoveElement DEF CommandsInv
<1>12. Cached'
  BY DEF CommandsInv, Cached
<1>13. ASSUME NEW q \in Requests, q # r PROVE CallInv(q)'
  <2>1. ServerFor(q) \in Servers
    BY ClientAssumption DEF ServerFor
  <2> QED BY <1>6, <1>7, <1>8, <1>9, <1>13, <2>1, Untouched DEF CommandsInv
<1>14. CallInv(r)'
  <2> USE DEF CallInv
  <2>1. calls[r].at # "new" /\ ~Forbidden(r)
    BY <1>1, <1>2 DEF Fresh, Numbered, NewCall, Barred
  <2>2. heard => ~Held(r)
    BY <1>1, <1>2 DEF Numbered
  <2>3. calls[r].sent \in Nat /\ calls[r].attempt \in Nat /\ calls[r].since \in Nat
        /\ calls[r].lost \in BOOLEAN
    BY <1>2 DEF Call
  <2>4. Fresh(r)'
    BY <1>4, <1>6, <2>1 DEF Fresh
  <2>5. Answering(r)'
    <3>1. CASE heard
      <4>1. calls[r].since <= changes[ServerFor(r)]
        BY <1>2 DEF Judged
      <4> QED BY <1>2, <1>4, <1>6, <1>7, <2>3, <3>1, <4>1 DEF Answering, Held, Positive
    <3>2. CASE ~heard
      BY <1>2, <1>6, <1>7, <3>2 DEF Answering, Held, Positive
    <3> QED BY <3>1, <3>2
  <2>6. Numbered(r)'
    BY <1>1, <1>2, <1>4, <1>6, <1>9, <2>3 DEF Numbered, Held
  <2>7. Resends(r)'
    <3>1. CASE heard
      <4>1. Held(r)' /\ (Positive(r)' <=> status = 200)
        BY <1>4, <1>6, <3>1 DEF Held, Positive
      <4> QED BY <1>2, <1>4, <1>6, <1>7, <1>10, <2>2, <2>3, <3>1, <4>1
              DEF Resends, MayHaveBeen, Allowance, Running
    <3>2. CASE ~heard
      <4>1. /\ MayHaveBeen(r)' <= MayHaveBeen(r) /\ MayHaveBeen(r)' \in Int
            /\ MayHaveBeen(r) \in Int
        BY <1>2, <1>7, <1>10 DEF MayHaveBeen
      <4>2. Allowance(r)' = Allowance(r) /\ Allowance(r) \in Int
        BY <1>2, <1>6, <2>3, <3>2 DEF Allowance, Held, Positive
      <4> QED BY <1>2, <1>6, <3>2, <4>1, <4>2 DEF Resends
    <3> QED BY <3>1, <3>2
  <2>8. Answered1(r)'
    <3>1. SUFFICES ASSUME ~calls[r].lost, calls[r].at # "dead" PROVE Answered1(r)'
      BY <1>4, <1>6 DEF Answered1
    <3>2. heard /\ \A o \in InFlight(r) : o = m
      BY <1>1, <1>2, <3>1 DEF Answered1, Numbered
    <3>3. executed[r] = 0
      BY <1>2, <2>2, <3>1, <3>2 DEF Answered1, Settled, Positive
    <3>4. status = 200 => Positive(r)'
      BY <1>4, <1>6, <3>2 DEF Held, Positive
    <3> QED BY <1>7, <1>9, <3>2, <3>3, <3>4 DEF Answered1
  <2>9. Judged(r)'
    BY <1>2, <1>4, <1>6, <1>7, <2>3 DEF Judged
  <2>10. Recorded(r)' /\ Barred(r)'
    BY <1>2, <1>4, <1>6, <2>1 DEF Recorded, Barred
  <2> QED BY <2>4, <2>5, <2>6, <2>7, <2>8, <2>9, <2>10
<1> QED BY <1>8, <1>11, <1>12, <1>13, <1>14 DEF CommandsInv

\* A request reaches its cabinet.
LEMMA ArrivesInv ==
  ASSUME CommandsInv, NEW m \in net, Arrives(m), UNCHANGED <<audit, record, flow, photos>>
  PROVE  CommandsInv'
<1> DEFINE r == m.req
           s == ServerFor(r)
           k == cabinet[s]
           reply == ReplyTo(Op[r], m.tok, k)
           done == CarriedOut(Op[r], m.tok, k)
<1>1. r \in Requests
  BY DEF CommandsInv, TypeOK, ClientTypeOK, Message
<1>2. /\ s \in Servers /\ k \in Cabinet /\ Op[r] \in Ops /\ executed[r] \in Nat
      /\ changes[s] \in Nat /\ CallInv(r)
  BY <1>1, OwnFacts
<1>3. reply \in Replies /\ Reply(reply.status, reply.detail) = reply
  <2>1. reply \in Replies
    BY CabinetReplies
  <2> QED BY <2>1 DEF Replies, Reply
<1>4. done <=> reply.status = 200
  BY DEF CarriedOut
<1>5. done => /\ After(Op[r], k) \in Cabinet /\ Advances(k.session, After(Op[r], k).session)
              /\ Op[r] \in SessionOps => /\ k.session \in StillOpen(Op[r])
                                         /\ After(Op[r], k).session \notin StillOpen(Op[r])
  BY <1>2, CabinetAfter
<1>6. /\ cabinet' = IF done THEN [cabinet EXCEPT ![s] = After(Op[r], k)] ELSE cabinet
      /\ changes' = IF done /\ After(Op[r], k) # k THEN [changes EXCEPT ![s] = @ + 1] ELSE changes
      /\ executed' = IF done THEN [executed EXCEPT ![r] = @ + 1] ELSE executed
      /\ net' = net \ {m} /\ calls' = Answers(m, reply.status, reply.detail, changes[s])
      /\ UNCHANGED <<token, known_off, cache, surprises>>
  BY DEF Arrives
<1> HIDE DEF done, reply, k
<1>7. cabinet \in [Servers -> Cabinet] /\ changes \in [Servers -> Nat] /\ k = cabinet[s]
      /\ executed \in [Requests -> Nat]
  BY DEF CommandsInv, TypeOK, ClientTypeOK, k
<1>8. /\ cabinet' \in [Servers -> Cabinet] /\ changes' \in [Servers -> Nat]
      /\ cabinet'[s] = IF done THEN After(Op[r], k) ELSE k
  BY <1>2, <1>5, <1>6, <1>7
<1>9. \A t \in Servers : /\ changes[t] <= changes'[t]
                         /\ Advances(cabinet[t].session, cabinet'[t].session)
  BY <1>2, <1>5, <1>6, <1>7 DEF Advances
<1>10. Moved(r)'
  <2>1. SUFFICES ASSUME Op[r] \in SessionOps
                 PROVE  /\ executed'[r] <= 1
                        /\ executed'[r] > 0 => cabinet'[s].session \notin StillOpen(Op[r])
    BY DEF Moved
  <2>2. /\ executed[r] <= 1
        /\ executed[r] > 0 => k.session \notin StillOpen(Op[r])
    BY <1>2, <1>7, <2>1 DEF CallInv, Moved
  <2>3. CASE done
    <3>1. executed[r] = 0 /\ executed'[r] = executed[r] + 1
      BY <1>1, <1>2, <1>5, <1>6, <1>7, <2>1, <2>2, <2>3
    <3> QED BY <1>5, <1>8, <2>1, <2>3, <3>1
  <2>4. CASE ~done
    BY <1>6, <1>7, <2>2, <2>4
  <2> QED BY <2>3, <2>4
<1>11. \/ reply.status = 200 /\ executed' = [executed EXCEPT ![m.req] = @ + 1]
       \/ reply.status # 200 /\ executed' = executed
  BY <1>4, <1>6
<1>12. /\ Reply(reply.status, reply.detail) \in Replies
       /\ changes[s] \in Nat /\ changes[ServerFor(m.req)] <= changes[s]
  BY <1>2, <1>3
<1>13. /\ net' = net \ {m} /\ calls' = Answers(m, reply.status, reply.detail, changes[s])
       /\ UNCHANGED <<token, known_off, cache, surprises, audit, record, flow, photos>>
       /\ cabinet' \in [Servers -> Cabinet] /\ changes' \in [Servers -> Nat]
       /\ Moved(m.req)'
  BY <1>6, <1>8, <1>10
<1> HIDE DEF s, r
<1> QED BY <1>9, <1>11, <1>12, <1>13, DealtWith

\* It fails there.
LEMMA FailsInv ==
  ASSUME CommandsInv, NEW m \in net, Fails(m), UNCHANGED <<audit, record, flow, photos>>
  PROVE  CommandsInv'
<1>1. PICK status \in {500, 503} : calls' = Answers(m, status, "capability_unavailable", 0)
  BY DEF Fails
<1>2. Reply(status, "capability_unavailable") \in Replies /\ status # 200
  BY DEF Replies
<1>3. /\ UNCHANGED <<cabinet, changes, token, known_off, cache, executed, surprises>>
      /\ net' = net \ {m}
  BY DEF Fails
<1>4. cabinet \in [Servers -> Cabinet] /\ changes \in [Servers -> Nat] /\ m.req \in Requests
  BY DEF CommandsInv, TypeOK, ClientTypeOK, Message
<1>5. \A s \in Servers : /\ changes[s] <= changes'[s]
                         /\ Advances(cabinet[s].session, cabinet'[s].session)
  BY <1>3, <1>4 DEF Advances
<1>6. Moved(m.req)'
  BY <1>3, <1>4 DEF CommandsInv, CallInv, Moved
<1> QED BY <1>1, <1>2, <1>3, <1>4, <1>5, <1>6, DealtWith

(***************************************************************************)
(* The routers                                                             *)
(***************************************************************************)

\* A call begins: what may not be sent has been turned away, the row is there.
LEMMA BeginsInv ==
  ASSUME CommandsInv, NEW r \in Requests, Begins(r), ~Forbidden(r),
         audit' \in [Requests -> Row \union {None}],
         flow' \in [Requests -> {"idle", "checked", "sent", "recorded", "lost"}],
         \A q \in Requests \ {r} : audit'[q] = audit[q] /\ flow'[q] = flow[q],
         IF Audits(r) THEN audit'[r] # None ELSE audit'[r] = None,
         flow'[r] = flow[r] \/ flow'[r] # "checked",
         UNCHANGED <<cabinet, changes, token, known_off, cache, net, executed, surprises,
                     record, photos>>
  PROVE  CommandsInv'
<1> DEFINE begun == [calls[r] EXCEPT !.since = changes[ServerFor(r)]]
           known == ~IsNfc(r) /\ Key(Op[r]) \in known_off[ClientOf[r]]
           refused == Returned(begun, "not_enabled", 0, None)
           started == [begun EXCEPT !.at = "start"]
<1>1. /\ calls[r] \in Call /\ CallInv(r) /\ executed[r] \in Nat /\ changes[ServerFor(r)] \in Nat
      /\ Cardinality(InFlight(r)) \in Nat /\ ATTEMPTS \in Nat \ {0}
  BY OwnFacts, ClientAssumption
<1>2. /\ calls[r].at = "new" /\ calls[r] = NewCall
      /\ calls' = [calls EXCEPT ![r] = IF known THEN refused ELSE started]
  BY <1>1 DEF Begins, Update, MayStart, CallInv, Fresh
<1>3. begun \in Call /\ begun.since = changes[ServerFor(r)] /\ begun.sent = 0 /\ ~begun.lost
      /\ begun.attempt = 0 /\ begun.code = None /\ begun.data = None
      /\ begun.sent = calls[r].sent /\ begun.lost = calls[r].lost
  <2>1. /\ begun \in Call /\ begun.since = changes[ServerFor(r)] /\ begun.sent = calls[r].sent
        /\ begun.lost = calls[r].lost /\ begun.attempt = calls[r].attempt
        /\ begun.code = calls[r].code /\ begun.data = calls[r].data
    BY <1>1 DEF Call
  <2>2. /\ calls[r].sent = 0 /\ ~calls[r].lost /\ calls[r].attempt = 0 /\ calls[r].code = None
        /\ calls[r].data = None
    BY <1>2 DEF NewCall
  <2> QED BY <2>1, <2>2
<1>4. TypeOK /\ calls \in [Requests -> Call]
  BY DEF CommandsInv, TypeOK, ClientTypeOK
<1> HIDE DEF begun, known
<1>5. CASE known
  <2>1. /\ refused \in Call /\ refused.at = "returned" /\ refused.code = "not_enabled"
        /\ refused.data = None /\ refused.sent = begun.sent /\ refused.lost = begun.lost
        /\ refused.since = begun.since
    BY <1>3, ReturnedCall DEF Codes
  <2> HIDE DEF refused
  <2>2. calls' = [calls EXCEPT ![r] = refused]
    BY <1>2, <1>5
  <2>3. TypeOK'
    BY <1>4, <2>1, <2>2 DEF TypeOK, ClientTypeOK
  <2>4. refused.sent = calls[r].sent /\ refused.lost = calls[r].lost
        /\ refused.since <= changes[ServerFor(r)]
    BY <1>1, <1>3, <2>1
  <2> QED BY <1>2, <2>1, <2>2, <2>3, <2>4, EndsInv DEF Codes
<1>6. CASE ~known
  <2>1. /\ started \in Call /\ started.at = "start" /\ started.sent = 0 /\ ~started.lost
        /\ started.attempt = 0 /\ started.code = None /\ started.data = None
        /\ started.since = changes[ServerFor(r)]
    BY <1>3 DEF Call, Phases
  <2> HIDE DEF started
  <2>2. calls' = [calls EXCEPT ![r] = started]
    BY <1>2, <1>6
  <2>3. TypeOK' /\ calls'[r] = started
    BY <1>4, <2>1, <2>2 DEF TypeOK, ClientTypeOK
  <2>4. \A q \in Requests : InFlight(q)' = InFlight(q)
    BY DEF InFlight
  <2>5. CallInv(r)'
    <3> USE DEF CallInv
    <3>1. calls[r].sent = 0 /\ calls[r].code = None /\ ~calls[r].lost
      BY <1>2 DEF NewCall
    <3>2. Fresh(r)' /\ Answering(r)' /\ Numbered(r)'
      BY <1>1, <2>1, <2>3, <2>4, <3>1 DEF Fresh, Answering, Numbered, Held
    <3>3. Resends(r)'
      BY <1>1, <1>2, <2>1, <2>3, <2>4 DEF Resends, MayHaveBeen, Allowance, Running
    <3>4. Answered1(r)'
      BY <1>1, <1>2, <2>1, <2>3, <2>4, <3>1 DEF Answered1, Held, Positive, Settled
    <3>5. Judged(r)' /\ Recorded(r)' /\ Barred(r)' /\ Moved(r)'
      BY <1>1, <1>2, <2>1, <2>3 DEF Judged, Recorded, Barred, Moved, Settled
    <3> QED BY <3>2, <3>3, <3>4, <3>5
  <2>6. Cached' /\ IsFiniteSet(net')
    BY DEF CommandsInv, Cached
  <2> QED BY <2>2, <2>3, <2>4, <2>5, <2>6, OneRequest
<1> QED BY <1>5, <1>6

\* What a request asks for when its checks are passed is not forbidden.
LEMMA Allowed ==
  ASSUME NEW r, IsGet(r) \/ IsNfc(r) \/ (Op[r] # "push_photo" /\ ~RealInDemo(ServerFor(r)))
  PROVE  ~Forbidden(r)
BY DEF Forbidden, RealInDemo, IsGet, IsNfc, Reads, NfcOps, Writes, Commands

\* Reads, commands and acknowledgements begin.
LEMMA AsksInv ==
  ASSUME CommandsInv, NEW r \in Requests, Read(r) \/ Command(r) \/ Acknowledge(r)
  PROVE  CommandsInv'
<1>1. CallInv(r) /\ calls[r].at = "new" /\ audit \in [Requests -> Row \union {None}]
  BY OwnFacts DEF Read, Command, Acknowledge, Begins, MayStart, CommandsInv, TypeOK
<1>2. /\ Begins(r) /\ UNCHANGED <<cabinet, changes, token, known_off, cache, net, executed,
                                  surprises, record, flow, photos>>
  BY DEF Read, Command, Acknowledge
<1>3. ~Forbidden(r)
  <2>1. Command(r) \/ Acknowledge(r) => Op[r] # "push_photo" /\ ~RealInDemo(ServerFor(r))
    BY DEF Command, Acknowledge, Commands
  <2> QED BY <2>1, Allowed DEF Read
<1>4. /\ audit' \in [Requests -> Row \union {None}]
      /\ \A q \in Requests \ {r} : audit'[q] = audit[q]
      /\ IF Audits(r) THEN audit'[r] # None ELSE audit'[r] = None
  <2>1. CASE Command(r)
    <3>1. [outcome |-> NoOutcome] \in Row /\ [outcome |-> NoOutcome] # None /\ Audits(r)
      BY <2>1, CommandsAssumption DEF Row, Command, Audits
    <3> QED BY <1>1, <2>1, <3>1 DEF Command, Written
  <2>2. CASE Read(r) \/ Acknowledge(r)
    <3>1. ~Audits(r) /\ audit' = audit
      BY <2>2 DEF Read, Acknowledge, Audits, IsGet, IsNfc, Reads, NfcOps, Commands
    <3> QED BY <1>1, <3>1 DEF CallInv, Recorded
  <2> QED BY <2>1, <2>2
<1>5. /\ flow' \in [Requests -> {"idle", "checked", "sent", "recorded", "lost"}]
      /\ \A q \in Requests \ {r} : audit'[q] = audit[q] /\ flow'[q] = flow[q]
      /\ flow'[r] = flow[r] \/ flow'[r] # "checked"
      /\ UNCHANGED <<cabinet, changes, token, known_off, cache, net, executed, surprises,
                     record, photos>>
  BY <1>2, <1>4 DEF CommandsInv, TypeOK
<1> QED BY <1>2, <1>3, <1>4, <1>5, BeginsInv

\* The router ends a call, with its row or without one; or refuses it before it begins.
LEMMA ClosesInv ==
  ASSUME CommandsInv, NEW r \in Requests, RefuseInDemo(r) \/ Complete(r) \/ Finish(r)
  PROVE  CommandsInv'
<1> DEFINE call == [calls[r] EXCEPT !.at = "done"]
<1>1. /\ calls[r] \in Call /\ CallInv(r) /\ executed[r] \in Nat
      /\ Cardinality(InFlight(r)) \in Nat /\ ATTEMPTS \in Nat
  BY OwnFacts, ClientAssumption
<1>2. /\ calls[r].at \in {"new", "returned"}
      /\ calls' = [calls EXCEPT ![r] = call]
      /\ UNCHANGED <<cabinet, changes, token, known_off, cache, net, executed, surprises,
                     record, flow, photos>>
  BY DEF RefuseInDemo, Complete, Finish, MayStart, Update
<1>3. /\ call \in Call /\ call.at = "done" /\ call.sent = calls[r].sent
      /\ call.attempt = calls[r].attempt /\ call.lost = calls[r].lost
      /\ call.since = calls[r].since /\ call.code = calls[r].code /\ call.data = calls[r].data
      /\ call.http = calls[r].http
  BY <1>1 DEF Call, Phases
<1> HIDE DEF call
<1>4. calls[r].at = "new" => calls[r].code = None /\ calls[r].http = 0
  BY <1>1 DEF CallInv, Fresh, NewCall
<1>5. /\ audit' \in [Requests -> Row \union {None}]
      /\ \A q \in Requests \ {r} : audit'[q] = audit[q]
      /\ IF Audits(r) THEN audit'[r] # None ELSE audit'[r] = None
      /\ audit'[r] # None =>
           audit'[r].outcome = calls[r].code \/ (audit'[r].outcome = DemoCode /\ calls[r].http = 0)
  <2>1. audit \in [Requests -> Row \union {None}]
    BY DEF CommandsInv, TypeOK
  <2>2. CASE RefuseInDemo(r)
    <3>1. [outcome |-> DemoCode] \in Row /\ [outcome |-> DemoCode] # None
      BY CommandsAssumption DEF Row
    <3>2. calls[r].http = 0 /\ (~Audits(r) => audit[r] = None)
      BY <1>1, <1>4, <2>2 DEF RefuseInDemo, MayStart, CallInv, Recorded
    <3>3. audit' = IF Audits(r) THEN [audit EXCEPT ![r] = [outcome |-> DemoCode]] ELSE audit
      BY <2>2 DEF RefuseInDemo
    <3> QED BY <2>1, <3>1, <3>2, <3>3
  <2>3. CASE Complete(r)
    <3>1. [outcome |-> calls[r].code] \in Row /\ [outcome |-> calls[r].code] # None
      BY <1>1, <2>3, CommandsAssumption DEF Row, Complete, CallInv, Judged
    <3> QED BY <2>1, <2>3, <3>1 DEF Complete
  <2>4. CASE Finish(r)
    BY <1>1, <2>1, <2>4 DEF Finish, CallInv, Recorded
  <2> QED BY <2>2, <2>3, <2>4
<1>6. TypeOK' /\ calls'[r] = call
  BY <1>2, <1>3, <1>5 DEF CommandsInv, TypeOK, ClientTypeOK
<1>7. \A q \in Requests : InFlight(q)' = InFlight(q)
  BY <1>2 DEF InFlight
<1>8. CallInv(r)'
  <2> USE DEF CallInv
  <2>1. Fresh(r)' /\ Answering(r)' /\ Numbered(r)'
    BY <1>1, <1>2, <1>3, <1>6, <1>7 DEF Fresh, Answering, Numbered, Held
  <2>2. Resends(r)'
    BY <1>1, <1>2, <1>3, <1>6, <1>7 DEF Resends, MayHaveBeen, Allowance, Running
  <2>3. Answered1(r)'
    BY <1>1, <1>2, <1>3, <1>6, <1>7 DEF Answered1, Held, Positive, Settled
  <2>4. Judged(r)' /\ Recorded(r)' /\ Barred(r)' /\ Moved(r)'
    BY <1>1, <1>2, <1>3, <1>5, <1>6 DEF Judged, Recorded, Barred, Moved, Settled
  <2> QED BY <2>1, <2>2, <2>3, <2>4
<1>9. Cached' /\ IsFiniteSet(net')
  BY <1>2 DEF CommandsInv, Cached
<1> QED BY <1>2, <1>5, <1>6, <1>7, <1>8, <1>9, OneRequest

\* A step of the routers that leaves the calls, the messages and the cabinets alone.
LEMMA CallsKept ==
  ASSUME CommandsInv, TypeOK', audit' = audit,
         \A q \in Requests : flow'[q] = "checked" /\ flow[q] # "checked" =>
                             Op[q] = "push_photo" /\ ServerFor(q) \in Simulated,
         UNCHANGED <<cabinet, changes, cache, calls, net, executed>>
  PROVE  CommandsInv'
<1>1. ASSUME NEW q \in Requests PROVE CallInv(q)'
  <2>1. CallInv(q)
    BY OwnFacts
  <2>2. Fresh(q)' /\ Answering(q)' /\ Numbered(q)'
    BY <2>1 DEF CallInv, Fresh, Answering, Numbered, Held, Positive, InFlight
  <2>3. Resends(q)'
    BY <2>1 DEF CallInv, Resends, MayHaveBeen, Allowance, Held, Positive, InFlight
  <2>4. Answered1(q)'
    BY <2>1 DEF CallInv, Answered1, Held, Positive, InFlight
  <2>5. Judged(q)' /\ Recorded(q)' /\ Barred(q)' /\ Moved(q)'
    BY <2>1 DEF CallInv, Judged, Recorded, Barred, Moved
  <2> QED BY <2>2, <2>3, <2>4, <2>5 DEF CallInv
<1> QED BY <1>1 DEF CommandsInv, Cached

\* The Admin's record; the checks of an upload; what becomes of the record after it.
LEMMA RecordInv ==
  ASSUME CommandsInv,
         \/ \E s \in Servers : SetRecord(s)
         \/ \E r \in Requests : CheckUpload(r) \/ RecordUpload(r)
  PROVE  CommandsInv'
<1>1. TypeOK
  BY DEF CommandsInv
<1>2. CASE \E s \in Servers : SetRecord(s)
  <2>1. TypeOK' /\ flow' = flow
    <3>1. record' \in [Servers -> BOOLEAN]
      BY <1>1, <1>2 DEF SetRecord, TypeOK
    <3>2. surprises' \in Nat
      BY <1>1, <1>2 DEF SetRecord, Surprise, TypeOK, ClientTypeOK
    <3> QED BY <1>1, <1>2, <3>1, <3>2 DEF SetRecord, TypeOK, ClientTypeOK
  <2>2. audit' = audit /\ UNCHANGED <<cabinet, changes, cache, calls, net, executed>>
    BY <1>2 DEF SetRecord
  <2> QED BY <2>1, <2>2, CallsKept
<1>3. ASSUME NEW r \in Requests, CheckUpload(r) PROVE CommandsInv'
  <2>1. /\ flow' = [flow EXCEPT ![r] = "checked"]
        /\ Op[r] = "push_photo" /\ ServerFor(r) \in Simulated
    BY <1>3 DEF CheckUpload
  <2>2. /\ UNCHANGED <<clientVars, audit, record, photos>>
        /\ UNCHANGED <<cabinet, changes, cache, calls, net, executed>>
    BY <1>3 DEF CheckUpload, clientVars
  <2>3. TypeOK'
    BY <1>1, <2>1, <2>2 DEF TypeOK, ClientTypeOK, clientVars
  <2> QED BY <1>1, <2>1, <2>2, <2>3, CallsKept DEF TypeOK
<1>4. ASSUME NEW r \in Requests, RecordUpload(r) PROVE CommandsInv'
  <2>1. flow' = [flow EXCEPT ![r] = "recorded"] /\ photos' = photos \union {r}
    BY <1>4 DEF RecordUpload
  <2>2. /\ UNCHANGED <<clientVars, audit>>
        /\ UNCHANGED <<cabinet, changes, cache, calls, net, executed>>
    BY <1>4 DEF RecordUpload, clientVars
  <2>3. record' \in [Servers -> BOOLEAN]
    BY <1>1, <1>4 DEF RecordUpload, TypeOK
  <2>4. TypeOK'
    BY <1>1, <2>1, <2>2, <2>3 DEF TypeOK, ClientTypeOK, clientVars
  <2> QED BY <1>1, <2>1, <2>2, <2>4, CallsKept DEF TypeOK
<1> QED BY <1>2, <1>3, <1>4

\* The photo: its row, and the call if the record is still there.
LEMMA UploadInv ==
  ASSUME CommandsInv, NEW r \in Requests, Upload(r)
  PROVE  CommandsInv'
<1>1. /\ calls[r] \in Call /\ CallInv(r) /\ ServerFor(r) \in Servers
      /\ changes[ServerFor(r)] \in Nat
  BY OwnFacts
<1>2. /\ flow[r] = "checked" /\ flow' = [flow EXCEPT ![r] = "sent"]
      /\ audit' = [audit EXCEPT ![r] = [outcome |-> NoOutcome]]
      /\ UNCHANGED <<cabinet, changes, token, known_off, cache, net, executed, surprises,
                     record, photos>>
  BY DEF Upload, Written
<1>3. [outcome |-> NoOutcome] \in Row /\ [outcome |-> NoOutcome] # None
  BY CommandsAssumption DEF Row
<1>4. /\ audit' \in [Requests -> Row \union {None}] /\ audit'[r] # None
      /\ flow' \in [Requests -> {"idle", "checked", "sent", "recorded", "lost"}]
      /\ flow'[r] # "checked"
      /\ \A q \in Requests \ {r} : audit'[q] = audit[q] /\ flow'[q] = flow[q]
  BY <1>2, <1>3 DEF CommandsInv, TypeOK
<1>5. Audits(r) /\ ~Forbidden(r)
  BY <1>1, <1>2 DEF CallInv, Barred, Audits, Forbidden
<1>6. CASE record[ServerFor(r)] /\ Begins(r)
  BY <1>2, <1>4, <1>5, <1>6, BeginsInv
<1>7. CASE ~record[ServerFor(r)] /\ MayStart(r) /\ Update(r, Returned(calls[r], "erp_bug", 0, None))
  <2> DEFINE call == Returned(calls[r], "erp_bug", 0, None)
  <2>1. /\ calls' = [calls EXCEPT ![r] = call] /\ calls[r].at = "new" /\ calls[r] = NewCall
    BY <1>1, <1>7 DEF Update, MayStart, CallInv, Fresh
  <2>2. /\ call \in Call /\ call.at = "returned" /\ call.code = "erp_bug" /\ call.data = None
        /\ call.sent = calls[r].sent /\ call.lost = calls[r].lost /\ call.since = calls[r].since
    BY <1>1, ReturnedCall DEF Codes
  <2> HIDE DEF call
  <2>3. TypeOK'
    BY <1>2, <1>4, <2>1, <2>2 DEF CommandsInv, TypeOK, ClientTypeOK
  <2>4. call.since <= changes[ServerFor(r)]
    BY <1>1, <2>2 DEF CallInv, Judged
  <2> QED BY <1>2, <1>4, <1>5, <2>1, <2>2, <2>3, <2>4, EndsInv DEF Codes
<1> QED BY <1>6, <1>7 DEF Upload

\* A process dies: its calls have no outcome any more; what they sent stays on its way.
LEMMA CrashInv ==
  ASSUME CommandsInv, NEW p \in Processes, Crash(p)
  PROVE  CommandsInv'
<1> DEFINE mine == {r \in Requests : ProcessOf[ClientOf[r]] = p}
           open == {r \in mine : calls[r].at \notin {"new", "done", "dead"}}
<1>1. /\ calls' = [r \in Requests |-> IF r \in open THEN [calls[r] EXCEPT !.at = "dead",
                                                                          !.answer = None]
                                      ELSE calls[r]]
      /\ flow' = [r \in Requests |-> IF r \in mine /\ flow[r] \in {"checked", "sent"} THEN "lost"
                                     ELSE flow[r]]
      /\ token' = [c \in Clients |-> IF ProcessOf[c] = p THEN None ELSE token[c]]
      /\ known_off' = [c \in Clients |-> IF ProcessOf[c] = p THEN {} ELSE known_off[c]]
      /\ UNCHANGED <<cabinet, changes, cache, net, executed, audit, record, photos>>
      /\ surprises' = surprises + 1
  BY DEF Crash, Surprise
<1>2. ASSUME NEW r \in open
      PROVE  /\ calls'[r] \in Call /\ calls'[r].at = "dead" /\ calls'[r].answer = None
             /\ calls'[r].sent = calls[r].sent /\ calls'[r].since = calls[r].since
             /\ calls'[r].code = calls[r].code /\ calls'[r].data = calls[r].data
  <2>1. calls[r] \in Call
    BY DEF CommandsInv, TypeOK, ClientTypeOK
  <2>2. calls'[r] = [calls[r] EXCEPT !.at = "dead", !.answer = None]
    BY <1>1
  <2> QED BY <2>1, <2>2 DEF Call, Phases
<1>3. \A r \in Requests : /\ r \notin open => calls'[r] = calls[r]
                          /\ flow'[r] = flow[r] \/ flow'[r] = "lost"
  BY <1>1
<1>4. TypeOK'
  <2>1. TypeOK
    BY DEF CommandsInv
  <2>2. calls' \in [Requests -> Call]
    <3>1. \A r \in Requests : calls'[r] \in Call
      BY <1>2, <1>3, <2>1 DEF TypeOK, ClientTypeOK
    <3> QED BY <1>1, <3>1
  <2>3. flow' \in [Requests -> {"idle", "checked", "sent", "recorded", "lost"}]
    BY <1>1, <2>1 DEF TypeOK
  <2>4. token' \in [Clients -> Nat \union {None}] /\ known_off' \in [Clients -> SUBSET Keys]
    <3>1. token \in [Clients -> Nat \union {None}] /\ known_off \in [Clients -> SUBSET Keys]
      BY <2>1 DEF TypeOK, ClientTypeOK
    <3>2. \A c \in Clients : /\ token'[c] \in Nat \union {None}
                             /\ known_off'[c] \in SUBSET Keys
      BY <1>1, <3>1
    <3> QED BY <1>1, <3>2
  <2>5. surprises' \in Nat
    <3>1. surprises \in Nat
      BY <2>1 DEF TypeOK, ClientTypeOK
    <3>2. surprises' = surprises + 1
      BY <1>1
    <3> QED BY <3>1, <3>2
  <2> QED BY <1>1, <2>1, <2>2, <2>3, <2>4, <2>5 DEF TypeOK, ClientTypeOK
<1>5. \A r \in Requests : InFlight(r)' = InFlight(r)
  BY <1>1 DEF InFlight
<1>6. ASSUME NEW r \in Requests, r \in open PROVE CallInv(r)'
  <2>1. /\ calls[r] \in Call /\ CallInv(r) /\ executed[r] \in Nat
        /\ Cardinality(InFlight(r)) \in Nat /\ ATTEMPTS \in Nat
    BY OwnFacts, ClientAssumption
  <2>2. UNCHANGED <<cabinet, changes, executed, audit>> /\ calls[r].at \notin {"new", "done", "dead"}
    BY <1>1, <1>6
  <2> HIDE DEF open
  <2> USE DEF CallInv
  <2>3. Fresh(r)' /\ Answering(r)' /\ Numbered(r)' /\ Answered1(r)'
    BY <1>2, <1>5, <1>6, <2>1, <2>2 DEF Fresh, Answering, Numbered, Answered1, Held
  <2>4. Resends(r)'
    <3>1. calls[r].attempt \in Nat /\ calls[r].at \in Running \union {"returned"}
      BY <2>1, <2>2 DEF Call, Phases, Running
    <3> QED BY <1>2, <1>5, <1>6, <2>1, <2>2, <3>1
            DEF Resends, MayHaveBeen, Allowance, Running
  <2>5. Judged(r)'
    BY <1>2, <1>6, <2>1, <2>2 DEF Judged, Settled
  <2>6. Recorded(r)' /\ Barred(r)' /\ Moved(r)'
    BY <1>2, <1>3, <1>6, <2>1, <2>2 DEF Recorded, Barred, Moved
  <2> QED BY <2>3, <2>4, <2>5, <2>6
<1>7. ASSUME NEW r \in Requests, r \notin open PROVE CallInv(r)'
  <2>1. /\ CallInv(r) /\ TypeOK /\ changes[ServerFor(r)] \in Nat
    BY OwnFacts DEF CommandsInv
  <2>2. /\ calls'[r] = calls[r] /\ InFlight(r)' = InFlight(r) /\ executed'[r] = executed[r]
        /\ audit'[r] = audit[r] /\ (flow'[r] = flow[r] \/ flow'[r] # "checked")
    BY <1>1, <1>3, <1>5, <1>7
  <2>3. UNCHANGED <<cabinet, changes>>
    BY <1>1
  <2> HIDE DEF open
  <2>4. /\ changes[ServerFor(r)] <= changes'[ServerFor(r)]
        /\ Advances(cabinet[ServerFor(r)].session, cabinet'[ServerFor(r)].session)
    BY <2>1, <2>3 DEF Advances
  <2> QED BY <1>4, <2>1, <2>2, <2>4, Untouched
<1>8. Cached' /\ IsFiniteSet(net')
  BY <1>1 DEF CommandsInv, Cached
<1> QED BY <1>4, <1>6, <1>7, <1>8 DEF CommandsInv

\* The cabinet's own changes, and what the client forgets in time.
LEMMA ElsewhereInv ==
  ASSUME CommandsInv, UNCHANGED <<audit, record, flow, photos>>,
         (\E s \in Servers : CabinetChanges(s)) \/ (\E c \in Clients : MemoryLapses(c))
  PROVE  CommandsInv'
<1>1. TypeOK
  BY DEF CommandsInv
<1>2. ASSUME NEW s \in Servers, CabinetChanges(s) PROVE CommandsInv'
  <2>1. PICK k : /\ cabinet' = [cabinet EXCEPT ![s] = k]
                 /\ k \in Cabinet /\ Advances(cabinet[s].session, k.session)
    <3>1. cabinet[s] \in Cabinet
      BY <1>1 DEF TypeOK, ClientTypeOK
    <3>2. PICK k \in {[cabinet[s] EXCEPT !.gen = @ + 1], [cabinet[s] EXCEPT !.accepts = ~@],
                      [cabinet[s] EXCEPT !.smart_mode = ~@], [cabinet[s] EXCEPT !.plugged = ~@],
                      [cabinet[s] EXCEPT !.gateway = ~@], [cabinet[s] EXCEPT !.session = "completed"]}
                     \union {[cabinet[s] EXCEPT !.enabled = @ \ {Key(Op[r])}] : r \in Started} :
            cabinet' = [cabinet EXCEPT ![s] = k]
      BY <1>2 DEF CabinetChanges
    <3>3. k \in Cabinet /\ (k.session = cabinet[s].session \/ k.session = "completed")
      <4>1. cabinet[s].gen + 1 \in Nat
        BY <3>1 DEF Cabinet
      <4>2. ASSUME NEW r \in Started, k = [cabinet[s] EXCEPT !.enabled = @ \ {Key(Op[r])}]
            PROVE  k \in Cabinet /\ k.session = cabinet[s].session
        BY <3>1, <4>2 DEF Cabinet
      <4>3. CASE k = [cabinet[s] EXCEPT !.gen = @ + 1]
        BY <3>1, <4>1, <4>3 DEF Cabinet
      <4>4. CASE k = [cabinet[s] EXCEPT !.session = "completed"]
        BY <3>1, <4>4 DEF Cabinet, SessionStates
      <4>5. CASE k \in {[cabinet[s] EXCEPT !.accepts = ~@], [cabinet[s] EXCEPT !.smart_mode = ~@],
                        [cabinet[s] EXCEPT !.plugged = ~@], [cabinet[s] EXCEPT !.gateway = ~@]}
        BY <3>1, <4>5 DEF Cabinet
      <4> QED BY <3>2, <4>2, <4>3, <4>4, <4>5
    <3> QED BY <3>2, <3>3 DEF Advances
  <2>2. /\ changes' = [changes EXCEPT ![s] = @ + 1] /\ surprises' = surprises + 1
        /\ UNCHANGED <<token, known_off, cache, calls, net, executed>>
    BY <1>2 DEF CabinetChanges, Surprise
  <2>3. changes \in [Servers -> Nat] /\ cabinet \in [Servers -> Cabinet] /\ surprises \in Nat
    BY <1>1 DEF TypeOK, ClientTypeOK
  <2>4. /\ changes' \in [Servers -> Nat] /\ surprises' \in Nat
        /\ \A t \in Servers : changes[t] <= changes'[t]
    BY <2>2, <2>3
  <2>5. /\ cabinet' \in [Servers -> Cabinet]
        /\ \A t \in Servers : Advances(cabinet[t].session, cabinet'[t].session)
    BY <2>1, <2>3 DEF Advances
  <2>6. TypeOK'
    BY <1>1, <2>2, <2>4, <2>5 DEF TypeOK, ClientTypeOK
  <2>7. ASSUME NEW r \in Requests PROVE CallInv(r)'
    <3>1. CallInv(r) /\ ServerFor(r) \in Servers
      BY OwnFacts
    <3>2. InFlight(r)' = InFlight(r) /\ calls'[r] = calls[r] /\ executed'[r] = executed[r]
      BY <2>2 DEF InFlight
    <3> QED BY <1>1, <2>4, <2>5, <2>6, <3>1, <3>2, Untouched
  <2>8. Cached' /\ IsFiniteSet(net')
    BY <2>2 DEF CommandsInv, Cached
  <2> QED BY <2>6, <2>7, <2>8 DEF CommandsInv
<1>3. ASSUME NEW c \in Clients, MemoryLapses(c) PROVE CommandsInv'
  <2>1. UNCHANGED <<cabinet, changes, cache, calls, net, executed>>
    BY <1>3 DEF MemoryLapses
  <2>2. /\ known_off' = [known_off EXCEPT ![c] = {}] \/ known_off' = known_off
        /\ token' = [token EXCEPT ![c] = None] \/ token' = token
        /\ surprises' = surprises + 1 \/ surprises' = surprises
    BY <1>3 DEF MemoryLapses, Surprise
  <2>3. token' \in [Clients -> Nat \union {None}] /\ known_off' \in [Clients -> SUBSET Keys]
    BY <1>1, <2>2 DEF TypeOK, ClientTypeOK
  <2>4. surprises' \in Nat
    BY <1>1, <2>2 DEF TypeOK, ClientTypeOK
  <2>5. TypeOK'
    BY <1>1, <2>1, <2>3, <2>4 DEF TypeOK, ClientTypeOK
  <2> QED BY <2>1, <2>5, CallsKept
<1> QED BY <1>2, <1>3

\* The first state.
LEMMA InitInv == Init => CommandsInv
<1> SUFFICES ASSUME Init PROVE CommandsInv
  OBVIOUS
<1>1. /\ net = {} /\ calls = [r \in Requests |-> NewCall] /\ executed = [r \in Requests |-> 0]
      /\ cache = [s \in Servers |-> [op \in Reads |-> None]] /\ changes = [s \in Servers |-> 0]
      /\ audit = [r \in Requests |-> None] /\ flow = [r \in Requests |-> "idle"]
  BY DEF Init, ClientInit
<1>2. NewCall \in Call
  BY DEF NewCall, Call, Phases
<1>3. \A r \in Requests : InFlight(r) = {}
  BY <1>1 DEF InFlight
<1>4. TypeOK
  <2>1. cabinet \in [Servers -> Cabinet]
    <3>1. PICK st \in {"pending", "active"} :
            cabinet = [s \in Servers |->
                        [gen |-> 0, accepts |-> TRUE, gateway |-> TRUE, enabled |-> Keys,
                         smart_mode |-> TRUE, session |-> st, plugged |-> TRUE,
                         alarm |-> "triggered"]]
      BY DEF Init, ClientInit
    <3>2. [gen |-> 0, accepts |-> TRUE, gateway |-> TRUE, enabled |-> Keys, smart_mode |-> TRUE,
           session |-> st, plugged |-> TRUE, alarm |-> "triggered"] \in Cabinet
      BY DEF Cabinet, SessionStates
    <3> QED BY <3>1, <3>2
  <2>2. ClientTypeOK
    <3>1. cache \in [Servers -> [Reads -> Data \union {None}]]
      BY <1>1
    <3>2. /\ token \in [Clients -> Nat \union {None}] /\ known_off \in [Clients -> SUBSET Keys]
          /\ surprises \in Nat
      BY DEF Init, ClientInit
    <3> QED BY <1>1, <1>2, <2>1, <3>1, <3>2 DEF ClientTypeOK
  <2> QED BY <1>1, <2>2 DEF Init, TypeOK
<1>5. ASSUME NEW r \in Requests PROVE CallInv(r)
  <2>1. /\ calls[r] = NewCall /\ executed[r] = 0 /\ audit[r] = None /\ flow[r] = "idle"
        /\ changes[ServerFor(r)] = 0
    <3>1. ServerFor(r) \in Servers
      BY ClientAssumption DEF ServerFor
    <3> QED BY <1>1, <3>1
  <2>2. calls[r].at = "new" /\ calls[r].sent = 0 /\ calls[r].since = 0 /\ calls[r].code = None
        /\ calls[r].data = None /\ calls[r].answer = None
    BY <2>1 DEF NewCall
  <2>3. Cardinality(InFlight(r)) = 0
    BY <1>3, FS_EmptySet
  <2>4. None # "ok"
    BY ClientAssumption DEF Codes
  <2> QED BY <1>3, <2>1, <2>2, <2>3, <2>4
          DEF CallInv, Fresh, Answering, Numbered, Resends, MayHaveBeen, Allowance, Answered1,
              Judged, Recorded, Barred, Moved, Held, Running
<1>6. Cached /\ IsFiniteSet(net)
  BY <1>1, FS_EmptySet DEF Cached
<1> QED BY <1>4, <1>5, <1>6 DEF CommandsInv

\* Every step.
LEMMA NextInv == CommandsInv /\ [Next]_vars => CommandsInv'
<1> SUFFICES ASSUME CommandsInv, [Next]_vars PROVE CommandsInv'
  OBVIOUS
<1>1. ASSUME NEW r \in Requests,
             Read(r) \/ Command(r) \/ Acknowledge(r) \/ RefuseInDemo(r) \/ CheckUpload(r)
               \/ Upload(r) \/ RecordUpload(r) \/ Step(r)
      PROVE  CommandsInv'
  <2>1. CASE Read(r) \/ Command(r) \/ Acknowledge(r)
    BY <2>1, AsksInv
  <2>2. CASE CheckUpload(r) \/ RecordUpload(r)
    BY <2>2, RecordInv
  <2>3. CASE Upload(r)
    BY <2>3, UploadInv
  <2>4. CASE RefuseInDemo(r) \/ Complete(r) \/ Finish(r)
    BY <2>4, ClosesInv
  <2>5. CASE InClient(ClientStep(r))
    BY <2>5, ClientStepInv DEF InClient
  <2> QED BY <1>1, <2>1, <2>2, <2>3, <2>4, <2>5 DEF Step
<1>2. ASSUME NEW m \in net, InClient(Arrives(m)) \/ InClient(Fails(m)) PROVE CommandsInv'
  BY <1>2, ArrivesInv, FailsInv DEF InClient
<1>3. ASSUME NEW s \in Servers, SetRecord(s) \/ InClient(CabinetChanges(s)) PROVE CommandsInv'
  BY <1>3, RecordInv, ElsewhereInv DEF InClient
<1>4. ASSUME NEW c \in Clients, InClient(MemoryLapses(c)) PROVE CommandsInv'
  BY <1>4, ElsewhereInv DEF InClient
<1>5. ASSUME NEW p \in Processes, Crash(p) PROVE CommandsInv'
  BY <1>5, CrashInv
<1>6. CASE UNCHANGED vars
  <2>1. /\ TypeOK' /\ audit' = audit /\ flow' = flow
        /\ UNCHANGED <<cabinet, changes, cache, calls, net, executed>>
    BY <1>6 DEF vars, clientVars, CommandsInv, TypeOK, ClientTypeOK
  <2> QED BY <2>1, CallsKept
<1> QED BY <1>1, <1>2, <1>3, <1>4, <1>5, <1>6 DEF Next

\* The invariant says what the properties say.
LEMMA InvImplies ==
  ASSUME CommandsInv
  PROVE  TypeOK /\ Audited /\ OutcomeTruthful /\ BoundedResends /\ AnswersAreOwn
<1>1. Audited
  <2> SUFFICES ASSUME NEW r \in Requests, Audits(r), calls[r].sent > 0 PROVE audit[r] # None
    BY DEF Audited
  <2>1. calls[r].at # "new"
    BY OwnFacts DEF CallInv, Fresh, NewCall
  <2> QED BY <2>1, OwnFacts DEF CallInv, Recorded
<1>2. OutcomeTruthful
  <2> SUFFICES ASSUME NEW r \in Requests, audit[r] # None, calls[r].at = "done"
               PROVE  /\ audit[r].outcome = "ok" => executed[r] > 0
                      /\ audit[r].outcome # "ok" /\ calls[r].http # 0 /\ ~calls[r].lost
                           => executed[r] = 0
    BY DEF OutcomeTruthful
  <2>1. CallInv(r) /\ executed[r] \in Nat
    BY OwnFacts
  <2>2. audit[r].outcome = calls[r].code \/ (audit[r].outcome = DemoCode /\ calls[r].http = 0)
    BY <2>1 DEF CallInv, Recorded
  <2>3. calls[r].code = "ok" => executed[r] > 0
    BY <2>1 DEF CallInv, Judged
  <2>4. ~calls[r].lost /\ executed[r] > 0 => calls[r].code = "ok"
    BY <2>1 DEF CallInv, Answered1, Positive, Held
  <2> QED BY <2>1, <2>2, <2>3, <2>4 DEF DemoCode
<1>3. BoundedResends
  <2> SUFFICES ASSUME NEW r \in Requests
               PROVE  executed[r] <= CASE Forbidden(r) -> 0
                                       [] ~Forbidden(r) /\ Op[r] \in SessionOps -> 1
                                       [] OTHER -> ATTEMPTS
    BY DEF BoundedResends
  <2>1. /\ CallInv(r) /\ executed[r] \in Nat /\ calls[r] \in Call
        /\ Cardinality(InFlight(r)) \in Nat /\ ATTEMPTS \in Nat \ {0}
    BY OwnFacts, ClientAssumption
  <2>2. Forbidden(r) => executed[r] = 0
    BY <2>1 DEF CallInv, Barred
  <2>3. Op[r] \in SessionOps => executed[r] <= 1
    BY <2>1 DEF CallInv, Moved
  <2>4. executed[r] <= ATTEMPTS
    <3>1. Allowance(r) \in Nat /\ Allowance(r) <= ATTEMPTS
      <4>1. calls[r].attempt \in Nat /\ (calls[r].at \in Running => calls[r].attempt < ATTEMPTS)
        BY <2>1 DEF Call, CallInv, Resends
      <4> QED BY <2>1, <4>1 DEF Allowance, Running
    <3>2. executed[r] + Cardinality(InFlight(r)) <= Allowance(r)
      BY <2>1 DEF CallInv, Resends, MayHaveBeen
    <3> QED BY <2>1, <3>1, <3>2
  <2>5. CASE Forbidden(r)
    BY <2>1, <2>2, <2>5
  <2>6. CASE ~Forbidden(r) /\ Op[r] \in SessionOps
    BY <2>1, <2>3, <2>6
  <2>7. CASE ~Forbidden(r) /\ Op[r] \notin SessionOps
    BY <2>1, <2>4, <2>7
  <2> QED BY <2>5, <2>6, <2>7
<1>4. AnswersAreOwn
  BY OwnFacts DEF AnswersAreOwn, CallInv, Judged
<1> QED BY <1>1, <1>2, <1>3, <1>4 DEF CommandsInv

\* The inductive invariant holds in every state of the commands.
THEOREM CommandsInvariant == Spec => []CommandsInv
<1>1. Init => CommandsInv
  BY InitInv
<1>2. CommandsInv /\ [Next]_vars => CommandsInv'
  BY NextInv
<1> QED BY <1>1, <1>2, PTL DEF Spec

\* The variables keep their types; an audit row's outcome is one the client or the router gives.
THEOREM CommandsTypeCorrect == Spec => []TypeOK
BY CommandsInvariant, InvImplies, PTL

\* A command that has left the ERP has its row, whatever dies afterwards (routers/controls.py:
\* the row is committed before the call).
THEOREM AuditedAlways == Spec => []Audited
BY CommandsInvariant, InvImplies, PTL

\* "ok" is recorded only of what a cabinet carried out, its refusal only of what it did not
\* (command_audit.complete with the client's code).
THEOREM OutcomesTruthful == Spec => []OutcomeTruthful
BY CommandsInvariant, InvImplies, PTL

\* However requests are lost, delayed and sent again, a cabinet carries out an outlet command at
\* most ATTEMPTS times, a session's at most once and a forbidden one never (client.py, the
\* retry loop; the cabinet's check of the session's state).
THEOREM ResendsBounded == Spec => []BoundedResends
BY CommandsInvariant, InvImplies, PTL

\* An answer given to a caller is the asked cabinet's own, and a fresh one is no older than the
\* question (client.py: the cache key carries the server).
THEOREM AnswersOwn == Spec => []AnswersAreOwn
BY CommandsInvariant, InvImplies, PTL
=============================================================================
