----------------------------- MODULE CabinetClient ----------------------------
(***************************************************************************)
(* cabinet/client.py: one client per cabinet server and process, shared by *)
(* the calls of that process; its token, its memory of functions the       *)
(* cabinet has not enabled, the last known answers in pedestal_cache, and  *)
(* every call's attempts.  services/pedestal_api_factory.py gives the      *)
(* calls of one process and server the same client.                        *)
(*                                                                         *)
(* A request that timed out may still be on its way and be carried out     *)
(* later, after it was sent again.  An answer belongs to the sending it    *)
(* answers: the connection of an attempt that timed out is closed.         *)
(*                                                                         *)
(* Data are versions: changes[s] counts what changed on cabinet s, and a   *)
(* read returns the number at that moment.                                 *)
(***************************************************************************)
EXTENDS CabinetApi

CONSTANTS
  Servers,       \* cabinet servers, one cabinet each
  Clients,       \* a client of one process for one server
  ServerOf,      \* ServerOf[c]
  Requests,      \* calls the ERP may make
  ClientOf,      \* ClientOf[r]
  Op,            \* Op[r]
  None,
  ATTEMPTS,
  Together,      \* bound: the sets of requests made in one behaviour
  MaxSurprises   \* bound: what else happens in one behaviour: a change on a cabinet, a lapse
                 \* of memory, an Admin's record, a crash

\* A call's outcome; of an answer, the meaning the ERP reads from its text.
Codes == {"ok", "cabinet_auth_failed", "not_enabled", "standalone", "awaiting_plug",
          "already_ended", "session_state_changed", "not_found", "erp_bug",
          "capability_unavailable", "stale", "no_contact"}

ASSUME ClientAssumption ==
  /\ ServerOf \in [Clients -> Servers]
  /\ ClientOf \in [Requests -> Clients]
  /\ Op \in [Requests -> Ops]
  /\ ATTEMPTS \in Nat \ {0} /\ Together \subseteq SUBSET Requests /\ MaxSurprises \in Nat
  /\ None \notin Nat \union Codes /\ None \notin [status : Nat, detail : Codes, data : Nat]
  /\ None \notin [server : Servers, data : Nat]

VARIABLES
  cabinet,       \* cabinet[s]: what the simulator keeps
  changes,       \* changes[s]: versions of the data of cabinet s
  token,         \* token[c]: None or the number of the token held
  known_off,     \* known_off[c]: keys not asked again within the hour
  cache,         \* cache[s][op]: last answer stored under the key of server s, or None
  calls,         \* calls[r]
  net,           \* requests on their way
  executed,      \* executed[r]: how often the cabinet carried the request out
  surprises

clientVars == <<cabinet, changes, token, known_off, cache, calls, net, executed, surprises>>

Phases == {"new", "start", "login", "wait", "returned", "done", "dead"}
Data   == [server : Servers, data : Nat]

Call == [at : Phases,
         attempt : Nat, retried : BOOLEAN,        \* attempt, retried_auth
         sent : Nat,                              \* sendings so far; the last one is awaited
         lost : BOOLEAN,                          \* an attempt had no answer
         since : Nat,                             \* changes[server] when the call began
         answer : [status : Nat, detail : Codes, data : Nat] \union {None},
         code : Codes \union {None}, http : Nat, data : Data \union {None}]

Message == [req : Requests, n : Nat, tok : Nat \union {None}]

ServerFor(r) == ServerOf[ClientOf[r]]
IsGet(r)     == Op[r] \in Reads
IsNfc(r)     == Op[r] \in NfcOps
Started      == {r \in Requests : calls[r].at # "new"}
MayStart(r)  == calls[r].at = "new" /\ \E mix \in Together : Started \union {r} \subseteq mix

NewCall == [at |-> "new", attempt |-> 0, retried |-> FALSE, sent |-> 0, lost |-> FALSE,
            since |-> 0, answer |-> None, code |-> None, http |-> 0, data |-> None]

(***************************************************************************)
(* A call's next state                                                     *)
(***************************************************************************)

Returned(call, code, http, data) ==
  [call EXCEPT !.at = "returned", !.code = code, !.http = http, !.data = data]

\* _cache_get, keyed by server: reads fall back to the last known answer of that cabinet.
GivesUp(r, call) ==
  LET last == cache[ServerFor(r)][Op[r]]
  IN IF IsGet(r) /\ last # None THEN Returned(call, "stale", 0, last)
     ELSE Returned(call, "no_contact", 0, None)

\* Mutant: one attempt too many.
AttemptFailed_OffByOne(r, call) ==
  LET next == [call EXCEPT !.attempt = @ + 1, !.answer = None, !.lost = TRUE]
  IN IF next.attempt <= ATTEMPTS THEN [next EXCEPT !.at = "start"] ELSE GivesUp(r, next)

\* The bottom of the loop: one attempt more, or the end of the loop.
AttemptFailed(r, call) ==
  LET next == [call EXCEPT !.attempt = @ + 1, !.answer = None, !.lost = TRUE]
  IN IF next.attempt < ATTEMPTS THEN [next EXCEPT !.at = "start"] ELSE GivesUp(r, next)

Update(r, call) == calls' = [calls EXCEPT ![r] = call]

(***************************************************************************)
(* The client                                                              *)
(***************************************************************************)

\* call() begins: a function known as not enabled is not asked; channel B has no memory.
\* A caller takes this step together with its own bookkeeping.
Begins(r) ==
  /\ MayStart(r)
  /\ LET call == [calls[r] EXCEPT !.since = changes[ServerFor(r)]]
     IN Update(r, IF ~IsNfc(r) /\ Key(Op[r]) \in known_off[ClientOf[r]]
                  THEN Returned(call, "not_enabled", 0, None)
                  ELSE [call EXCEPT !.at = "start"])

\* The request leaves with the token held; channel B needs none.
Sends(r, tok) ==
  /\ Update(r, [calls[r] EXCEPT !.at = "wait", !.sent = @ + 1, !.answer = None])
  /\ net' = net \union {[req |-> r, n |-> calls[r].sent + 1, tok |-> tok]}

Send(r) ==
  /\ calls[r].at = "start"
  /\ IsNfc(r) \/ token[ClientOf[r]] # None
  /\ Sends(r, IF IsNfc(r) THEN None ELSE token[ClientOf[r]])
  /\ UNCHANGED <<cabinet, changes, token, known_off, cache, executed, surprises>>

\* _token_now without a token: the sign-in is awaited, other calls go on.
Login(r) ==
  /\ calls[r].at = "start" /\ ~IsNfc(r) /\ token[ClientOf[r]] = None
  /\ Update(r, [calls[r] EXCEPT !.at = "login"])
  /\ UNCHANGED <<cabinet, changes, token, known_off, cache, net, executed, surprises>>

LoginAccepted(r) ==
  /\ calls[r].at = "login" /\ cabinet[ServerFor(r)].accepts
  /\ LET tok == cabinet[ServerFor(r)].gen
     IN /\ token' = [token EXCEPT ![ClientOf[r]] = tok]
        /\ Sends(r, tok)
  /\ UNCHANGED <<cabinet, changes, known_off, cache, executed, surprises>>

LoginRefused(r) ==
  /\ calls[r].at = "login" /\ ~cabinet[ServerFor(r)].accepts
  /\ Update(r, Returned(calls[r], "cabinet_auth_failed", 401, None))
  /\ UNCHANGED <<cabinet, changes, token, known_off, cache, net, executed, surprises>>

\* Mutant: a sign-in without an answer is not counted as an attempt.
TimesOut_SignInNotCounted(r) ==
  /\ calls[r].at = "login" \/ (calls[r].at = "wait" /\ calls[r].answer = None)
  /\ Update(r, IF calls[r].at = "login" THEN [calls[r] EXCEPT !.at = "start"]
               ELSE AttemptFailed(r, calls[r]))
  /\ net' = IF IsGet(r) THEN {m \in net : m.req # r} ELSE net
  /\ UNCHANGED <<cabinet, changes, token, known_off, cache, executed, surprises>>

\* No answer in time, from the sign-in or from the request.  The request stays on its way,
\* a read's is forgotten: nothing it still does can be seen.
TimesOut(r) ==
  /\ calls[r].at = "login" \/ (calls[r].at = "wait" /\ calls[r].answer = None)
  /\ Update(r, AttemptFailed(r, calls[r]))
  /\ net' = IF IsGet(r) THEN {m \in net : m.req # r} ELSE net
  /\ UNCHANGED <<cabinet, changes, token, known_off, cache, executed, surprises>>

\* What an answer means: the table at the head of client.py.
CodeOf(answer) ==
  IF answer.status \in {400, 409} THEN answer.detail
  ELSE CASE answer.status = 200 -> "ok" [] answer.status = 404 -> "not_found"
         [] answer.status \in {403, 503} -> answer.detail
         [] OTHER -> "cabinet_auth_failed"

Stored(r) == [server |-> ServerFor(r), data |-> calls[r].answer.data]

\* Mutant: the cache key lacks the server, a read is stored for every cabinet.
Answered_KeyWithoutServer(r) ==
  LET answer == calls[r].answer
      data == IF IsGet(r) /\ answer.status = 200 THEN Stored(r) ELSE None
  IN /\ calls[r].at = "wait" /\ answer # None /\ answer.status # 500
     /\ answer.status = 401 => IsNfc(r) \/ calls[r].retried
     /\ Update(r, Returned(calls[r], CodeOf(answer), answer.status, data))
     /\ cache' = IF data = None THEN cache
                 ELSE [s \in Servers |-> [cache[s] EXCEPT ![Op[r]] = data]]
     /\ UNCHANGED <<cabinet, changes, token, known_off, net, executed, surprises>>

\* A final answer; a read's is stored, under the server it came from.
Answered(r) ==
  LET answer == calls[r].answer
      data == IF IsGet(r) /\ answer.status = 200 THEN Stored(r) ELSE None
  IN /\ calls[r].at = "wait" /\ answer # None /\ answer.status # 500
     /\ answer.status = 401 => IsNfc(r) \/ calls[r].retried
     /\ Update(r, Returned(calls[r], CodeOf(answer), answer.status, data))
     /\ cache' = IF data = None THEN cache
                 ELSE [cache EXCEPT ![ServerFor(r)][Op[r]] = data]
     /\ known_off' = IF CodeOf(answer) # "not_enabled" \/ IsNfc(r) THEN known_off
                     ELSE [known_off EXCEPT ![ClientOf[r]] = @ \union {Key(Op[r])}]
     /\ UNCHANGED <<cabinet, changes, token, net, executed, surprises>>

\* The first 401: the token is dropped and the call starts again, without using an attempt.
\* The token dropped is the one held NOW, perhaps already another call's new one.
ReLogin(r) ==
  /\ calls[r].at = "wait" /\ calls[r].answer # None /\ calls[r].answer.status = 401
  /\ ~IsNfc(r) /\ ~calls[r].retried
  /\ token' = [token EXCEPT ![ClientOf[r]] = None]
  /\ Update(r, [calls[r] EXCEPT !.at = "start", !.retried = TRUE, !.answer = None])
  /\ UNCHANGED <<cabinet, changes, known_off, cache, net, executed, surprises>>

ServerError(r) ==
  /\ calls[r].at = "wait" /\ calls[r].answer # None /\ calls[r].answer.status = 500
  /\ Update(r, AttemptFailed(r, calls[r]))
  /\ UNCHANGED <<cabinet, changes, token, known_off, cache, net, executed, surprises>>

ClientStep(r) == Send(r) \/ Login(r) \/ LoginAccepted(r) \/ LoginRefused(r) \/ TimesOut(r)
                 \/ Answered(r) \/ ReLogin(r) \/ ServerError(r)

(***************************************************************************)
(* The network and the cabinet                                             *)
(***************************************************************************)

\* The answer reaches the call only if it still waits for this sending.
Answers(m, status, detail, data) ==
  IF calls[m.req].at = "wait" /\ calls[m.req].sent = m.n
  THEN [calls EXCEPT ![m.req].answer = [status |-> status, detail |-> detail, data |-> data]]
  ELSE calls

Arrives(m) ==
  LET s == ServerFor(m.req)
      k == cabinet[s]
      op == Op[m.req]
      reply == ReplyTo(op, m.tok, k)
      done == CarriedOut(op, m.tok, k)
  IN /\ m \in net /\ net' = net \ {m}
     /\ cabinet' = IF done THEN [cabinet EXCEPT ![s] = After(op, k)] ELSE cabinet
     /\ changes' = IF done /\ After(op, k) # k THEN [changes EXCEPT ![s] = @ + 1] ELSE changes
     /\ executed' = IF done THEN [executed EXCEPT ![m.req] = @ + 1] ELSE executed
     /\ calls' = Answers(m, reply.status, reply.detail, changes[s])
     /\ UNCHANGED <<token, known_off, cache, surprises>>

\* Refused by the cabinet's own trouble, before anything was done (fail_next; 503 from a
\* capability that is away).
Fails(m) ==
  /\ m \in net /\ net' = net \ {m}
  /\ \E status \in {500, 503} :
       calls' = Answers(m, status, "capability_unavailable", 0)
  /\ UNCHANGED <<cabinet, changes, token, known_off, cache, executed, surprises>>

(***************************************************************************)
(* What else happens                                                       *)
(***************************************************************************)

Surprise == surprises < MaxSurprises /\ surprises' = surprises + 1

\* Something changes on the cabinet: its operator switches a function, the gateway, Smart
\* Mode; tokens lapse; a cable is pulled; a session begins, or staff end it.
CabinetChanges(s) ==
  /\ Surprise /\ \E r \in Started : ServerFor(r) = s /\ calls[r].at # "done"
  /\ \E k \in {[cabinet[s] EXCEPT !.gen = @ + 1],
               [cabinet[s] EXCEPT !.accepts = ~@],
               [cabinet[s] EXCEPT !.smart_mode = ~@],
               [cabinet[s] EXCEPT !.plugged = ~@],
               [cabinet[s] EXCEPT !.gateway = ~@],
               [cabinet[s] EXCEPT !.session = "completed"]}
              \union {[cabinet[s] EXCEPT !.enabled = @ \ {Key(Op[r])}] : r \in Started} :
       k # cabinet[s] /\ cabinet' = [cabinet EXCEPT ![s] = k]
  /\ changes' = [changes EXCEPT ![s] = @ + 1]
  /\ UNCHANGED <<token, known_off, cache, calls, net, executed>>

\* An hour passes: the function is asked again.  100 minutes pass: the token is not used.
MemoryLapses(c) ==
  /\ \/ /\ known_off[c] # {} /\ known_off' = [known_off EXCEPT ![c] = {}]
        /\ UNCHANGED <<token, surprises>>
     \/ /\ token[c] # None /\ token' = [token EXCEPT ![c] = None] /\ Surprise
        /\ UNCHANGED known_off
  /\ UNCHANGED <<cabinet, changes, cache, calls, net, executed>>

ClientInit ==
  /\ \E st \in {"pending", "active"} :
       cabinet = [s \in Servers |->
                   [gen |-> 0, accepts |-> TRUE, gateway |-> TRUE, enabled |-> Keys,
                    smart_mode |-> TRUE, session |-> st, plugged |-> TRUE, alarm |-> "triggered"]]
  /\ changes = [s \in Servers |-> 0]
  /\ token = [c \in Clients |-> None]
  /\ known_off = [c \in Clients |-> {}]
  /\ cache = [s \in Servers |-> [op \in Reads |-> None]]
  /\ calls = [r \in Requests |-> NewCall]
  /\ net = {}
  /\ executed = [r \in Requests |-> 0]
  /\ surprises = 0

ClientTypeOK ==
  /\ cabinet \in [Servers -> Cabinet] /\ changes \in [Servers -> Nat]
  /\ token \in [Clients -> Nat \union {None}]
  /\ known_off \in [Clients -> SUBSET Keys]
  /\ cache \in [Servers -> [Reads -> Data \union {None}]]
  /\ calls \in [Requests -> Call]
  /\ net \subseteq Message
  /\ executed \in [Requests -> Nat] /\ surprises \in Nat
=============================================================================
