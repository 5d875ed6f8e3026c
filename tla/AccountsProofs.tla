---------------------------- MODULE AccountsProofs ----------------------------
(***************************************************************************)
(* Accounts, for any users, marinas, threshold and number of requests.     *)
(*                                                                         *)
(* Everything rests on Base: two requests that are open at once overlap;   *)
(* what an open request has read is what is still there, unless a request  *)
(* about the same user was carried out while it was open; and a number in  *)
(* a row, a link or a session is that of a request that is over, so the    *)
(* number a request writes when it commits has never been seen before.     *)
(* Each property then has an invariant of its own over Base.               *)
(***************************************************************************)
EXTENDS Accounts, FiniteSetTheorems, TLAPS

Session == [user : Users, stamp : Numbers \union {None}]
TakenCode == [kind : {"totp", "backup", "link"}, user : Users, n : Numbers, step : 0 .. MaxStep]
Tables  == {"nothing", "rows", "codes", "links"}
Effect  == [row : Row, clears : Tables, gives : SUBSET Marinas, revokes : SUBSET Marinas,
            code : BOOLEAN, link : BOOLEAN, takes : TakenCode \union {None},
            mfa : BOOLEAN, opens : BOOLEAN]
Req     == [kind : Kinds, user : Users, at : {"open", "done", "failed"}, old : Row,
            effect : Effect, with : SUBSET Nat, done : Nat, ends : SUBSET Session]

Typed == TypeOK /\ reqs \in Seq(Req)

Entries == [1 .. MaxRequests -> (SUBSET Numbers) \union {None}]

(***************************************************************************)
(* What a request of a kind may change of what it has read                 *)
(***************************************************************************)

GuessKinds == {"login", "verify", "confirm", "regenerate"}
Guessed(k, o, e) == k \in GuessKinds /\ (e.row.failed > o.failed \/ (e.row.locked /\ ~o.locked))
Cleared(k, o, e) == k = "unlock" \/ e.opens \/ (Guessed(k, o, e) /\ e.row.locked)

\* Only an update changes role or activity of an account that is there; none is deleted.
KeepsRole(k, o, e) ==
  /\ k # "update" => o.role = None \/ (e.row.role = o.role /\ e.row.active = o.active)
  /\ o.role # None => e.row.role # None
  /\ k = "update" => o.role # None

\* Only a start and a reset write the secret, only a confirmation and a reset the second factor.
KeepsFactor(n, k, o, e) ==
  /\ e.row.secret # o.secret =>
       (k = "start" /\ e.row.secret = n) \/ (k = "reset" /\ e.row.secret = None)
  /\ e.row.confirmed # o.confirmed =>
       \/ k = "confirm" /\ e.opens /\ e.row.confirmed = n /\ e.takes.n = o.secret
       \/ k = "reset" /\ e.row.confirmed = None
  /\ k = "start" => o.confirmed = None /\ e.row.secret = n
  /\ k = "reset" => e.row.secret = None /\ e.row.confirmed = None

\* The last step only goes on, except with another secret.
KeepsStep(k, o, e) ==
  e.row.last_step # o.last_step =>
    k \in {"start", "reset"} \/ (e.row.last_step > o.last_step)

\* What a code or a link was when it was read.
TakesWhatIs(u, o, e) ==
  e.takes # None =>
    /\ e.takes.user = u
    /\ e.takes.kind = "totp" => /\ e.takes.n = o.secret /\ e.takes.step > o.last_step
                                /\ e.row.last_step = e.takes.step /\ e.row.secret = o.secret
    /\ e.takes.kind = "backup" => e.takes = BackupCode(u, e.takes.n)

KeepsCount(k, o, e) ==
  /\ e.row.failed > o.failed => e.row.failed = o.failed + 1 /\ k \in GuessKinds
  /\ e.row.failed < o.failed => Cleared(k, o, e) \/ o.locked
  /\ e.row.locked /\ ~o.locked => k \in GuessKinds

KeepsAccess(k, e) == k = "update" /\ e.row.role = "admin" => e.clears = "rows"

Fits(n, k, u, o, e) ==
  /\ KeepsRole(k, o, e) /\ KeepsFactor(n, k, o, e) /\ KeepsStep(k, o, e)
  /\ TakesWhatIs(u, o, e) /\ KeepsCount(k, o, e) /\ KeepsAccess(k, e)

Fit(n) == /\ Fits(n, reqs[n].kind, reqs[n].user, reqs[n].old, reqs[n].effect)
          /\ reqs[n].effect.row.role # None

(***************************************************************************)
(* The base                                                                *)
(***************************************************************************)

\* The numbers somebody may have seen.
Seen == {None, 0} \union {n \in DOMAIN reqs : Done(n)}

NoRow  == [NewRow("admin") EXCEPT !.role = None, !.active = FALSE]
Unmade == /\ \A u \in Users : row[u].role = None => row[u] = NoRow /\ marinas[u] = {}
          /\ \A n \in DOMAIN reqs : reqs[n].old.role # None => row[reqs[n].user].role # None

\* Requests that are open at once overlap.
Pairs == \A m, n \in OpenRequests : m # n => Overlap(m, n)

\* The row is as the request has read it, but for a lock that has ended.
Same(n) ==
  LET now == row[reqs[n].user]
      old == reqs[n].old
  IN /\ now.role = old.role /\ now.active = old.active /\ now.password = old.password
     /\ now.secret = old.secret /\ now.confirmed = old.confirmed
     /\ now.last_step = old.last_step /\ now.failed = old.failed
     /\ now.locked => old.locked
StillSo == \A n \in OpenRequests : Overlapped(n) \/ Same(n)

AllSeen ==
  /\ \A u \in Users : /\ row[u].secret \in Seen /\ row[u].confirmed \in Seen
                      /\ \A c \in backup[u] : c.n \in Seen
  /\ \A l \in links : l.n \in Seen
  /\ \A s \in sessions : s.stamp \in Seen
  /\ \A n \in DOMAIN reqs : /\ reqs[n].old.secret \in Seen
                            /\ reqs[n].effect.takes # None => reqs[n].effect.takes.n \in Seen
                            /\ \A s \in reqs[n].ends : s.stamp \in Seen /\ s.user = reqs[n].user

Base ==
  /\ Typed /\ Unmade /\ Pairs /\ StillSo /\ AllSeen
  /\ \A n \in DOMAIN reqs : Fit(n)

\* What is so when a request about u begins.
ReadBy(k, u, e) ==
  /\ k \in Kinds /\ u \in Users /\ e \in Effect /\ Fits(Next_n, k, u, row[u], e)
  /\ e.takes # None =>
       /\ e.takes.n \in Seen
       /\ e.takes.kind = "backup" => \E c \in backup[u] : e.takes.n = c.n /\ ~c.used
       /\ e.takes.kind = "link" => \E l \in links : ~l.used /\ LinkCode(l) = e.takes
  /\ k = "update" =>
       /\ row[u].role # None
       /\ row[u].role = "admin" /\ row[u].active /\ (e.row.role # "admin" \/ ~e.row.active)
            => ActiveAdmins \ {u} # {}

(***************************************************************************)
(* The invariants of the properties                                        *)
(***************************************************************************)

\* An update that takes an active admin away.
Removes(n) == /\ reqs[n].old.role = "admin" /\ reqs[n].old.active
              /\ reqs[n].effect.row.role # "admin" \/ ~reqs[n].effect.row.active
IsUpdate(n) == reqs[n].kind = "update"
Rivals == \E m, n \in DOMAIN reqs :
            IsUpdate(m) /\ IsUpdate(n) /\ Done(m) /\ Done(n) /\ Overlap(m, n)
Outrun(n) == \E m \in DOMAIN reqs : IsUpdate(m) /\ Done(m) /\ Overlap(m, n)
AsRead(n) == /\ row[reqs[n].user].role = reqs[n].old.role
             /\ row[reqs[n].user].active = reqs[n].old.active
             /\ Removes(n) => ActiveAdmins \ {reqs[n].user} # {}
AdminInv ==
  Rivals \/ /\ ActiveAdmins # {}
            /\ \A n \in OpenRequests : IsUpdate(n) => Outrun(n) \/ AsRead(n)

\* Somebody confirmed what u has.
Confirms(m, u) == Done(m) /\ reqs[m].user = u /\ reqs[m].kind = "confirm" /\ reqs[m].effect.opens
Confirmed(u) ==
  row[u].confirmed # None /\ row[u].secret # 0 =>
    \E n \in DOMAIN reqs :
      Confirms(n, u) /\ (reqs[n].effect.takes.n = row[u].secret \/ Overlapped(n))

\* Who finds the second factor confirmed that was not when it read overlaps the confirmation.
Late(n)   == reqs[n].old.confirmed = None /\ row[reqs[n].user].confirmed # None
Warned(n) == \E m \in DOMAIN reqs : Confirms(m, reqs[n].user) /\ Overlap(m, n)
ConfirmInv ==
  /\ \A u \in Users : Confirmed(u)
  /\ \A n \in OpenRequests : Late(n) => Warned(n)

\* The enrolment of an ended session is not the one there is.
EndsInv ==
  \A n \in DOMAIN reqs : \A s \in reqs[n].ends :
    row[s.user].confirmed # None /\ row[s.user].confirmed = s.stamp => Overlapped(n)

\* A code that was taken is not later than the last step, nor than what an open request has
\* read of the same secret, unless the two overlap.
Took(m, kind) == Done(m) /\ reqs[m].effect.takes # None /\ reqs[m].effect.takes.kind = kind
Passed(m) ==
  LET u == reqs[m].user
      taken == reqs[m].effect.takes
  IN Took(m, "totp") =>
       \/ Overlapped(m)
       \/ /\ row[u].secret = taken.n => row[u].last_step >= taken.step
          /\ \A n \in OpenRequests : reqs[n].user = u /\ ~Overlap(m, n) =>
               /\ reqs[n].old.secret = taken.n => reqs[n].old.last_step >= taken.step
               /\ reqs[n].old.secret # taken.n => row[u].secret # taken.n

\* A backup code and a link that were taken are used, or gone.
UsedUp(m) ==
  LET u == reqs[m].user
      taken == reqs[m].effect.takes
  IN /\ Took(m, "backup") => \A c \in backup[u] : c.n = taken.n => c.used
     /\ Took(m, "link") => \A l \in links : LinkCode(l) = taken => l.used

\* Who is about to take the same overlaps.
Shared(m) ==
  Done(m) /\ reqs[m].effect.takes # None =>
    \A n \in OpenRequests :
      reqs[n].effect.takes = reqs[m].effect.takes => Overlap(m, n) \/ Overlapped(m)

UseInv == OneUse /\ \A m \in DOMAIN reqs : Passed(m) /\ UsedUp(m) /\ Shared(m)

\* Requests are numbered in the order they end.
Over    == {n \in DOMAIN reqs : reqs[n].at # "open"}
InOrder == \A n \in Over : reqs[n].done <= Cardinality(Over)

\* The failures are counted in the row, unless two of them overlapped; a lock forgets them.
Blurred(u) == \E g \in Guesses(u) : Overlapped(g)
Counted(u) ==
  /\ Cardinality(Guesses(u)) <= row[u].failed
  /\ row[u].locked => Guesses(u) = {}
  /\ \A n \in OpenRequests : reqs[n].user = u /\ reqs[n].old.locked =>
       \A g \in Guesses(u) : Overlap(g, n)
GuessInv == \A u \in Users : Blurred(u) \/ Counted(u)

\* Whoever is still open when a request begins is in progress together with it.  So a row that a
\* promoting update does not find at its statement is of one that came later or overlaps it.
Promotes(n) == IsUpdate(n) /\ reqs[n].effect.row.role = "admin"
Excused(n, a) == a.n >= n \/ a.n \in reqs[n].with
Ordered == \A m \in OpenRequests, n \in DOMAIN reqs : n > m => m \in reqs[n].with
Gone(n) ==
  Promotes(n) =>
    /\ Done(n) => \A a \in marinas[reqs[n].user] : Excused(n, a)
    /\ n \in OpenRequests /\ cleared[n] # None =>
         \A a \in marinas[reqs[n].user] : a.n \in cleared[n] \/ Excused(n, a)
AccessInv == Ordered /\ \A n \in DOMAIN reqs : Gone(n)

(***************************************************************************)
(* Rows and effects                                                        *)
(***************************************************************************)

\* A commit writes the columns the request has changed, and no others.
LEMMA Merged ==
  ASSUME NEW now \in Row, NEW old \in Row, NEW new \in Row
  PROVE  LET m == Merge(now, old, new)
         IN /\ m \in Row
            /\ m.role = IF new.role = old.role THEN now.role ELSE new.role
            /\ m.active = IF new.active = old.active THEN now.active ELSE new.active
            /\ m.password = IF new.password = old.password THEN now.password ELSE new.password
            /\ m.secret = IF new.secret = old.secret THEN now.secret ELSE new.secret
            /\ m.confirmed = IF new.confirmed = old.confirmed THEN now.confirmed ELSE new.confirmed
            /\ m.last_step = IF new.last_step = old.last_step THEN now.last_step ELSE new.last_step
            /\ m.failed = IF new.failed = old.failed THEN now.failed ELSE new.failed
            /\ m.locked = IF new.locked = old.locked THEN now.locked ELSE new.locked
<1> DEFINE m == Merge(now, old, new)
<1>1. DOMAIN now = {"role", "active", "password", "secret", "confirmed", "last_step", "failed",
                    "locked"}
  BY DEF Row
<1>2. m = [role |-> IF new.role = old.role THEN now.role ELSE new.role,
           active |-> IF new.active = old.active THEN now.active ELSE new.active,
           password |-> IF new.password = old.password THEN now.password ELSE new.password,
           secret |-> IF new.secret = old.secret THEN now.secret ELSE new.secret,
           confirmed |-> IF new.confirmed = old.confirmed THEN now.confirmed ELSE new.confirmed,
           last_step |-> IF new.last_step = old.last_step THEN now.last_step ELSE new.last_step,
           failed |-> IF new.failed = old.failed THEN now.failed ELSE new.failed,
           locked |-> IF new.locked = old.locked THEN now.locked ELSE new.locked]
  BY <1>1 DEF Merge
<1> QED BY <1>2 DEF Row

\* The failures and successes of the checks, column by column.
LEMMA RowSteps ==
  ASSUME NEW r \in Row, NEW step \in 0 .. MaxStep
  PROVE  /\ Failure(r) \in Row /\ Success(r) \in Row /\ Accepted(r, step) \in Row
         /\ \A f \in {"role", "active", "password", "secret", "confirmed", "last_step"} :
              Failure(r)[f] = r[f] /\ Success(r)[f] = r[f]
         /\ \/ Failure(r).failed = r.failed + 1 /\ Failure(r).locked = r.locked
            \/ Failure(r).failed = 0 /\ Failure(r).locked
         /\ Success(r).failed = 0 /\ ~Success(r).locked
         /\ \A f \in {"role", "active", "password", "secret", "confirmed", "failed", "locked"} :
              Accepted(r, step)[f] = r[f]
         /\ Accepted(r, step).last_step = step
<1>1. THRESHOLD \in Nat \ {0} /\ MaxStep \in Nat
  BY AccountsAssumption
<1>2. r.failed \in 0 .. THRESHOLD - 1
  BY DEF Row
<1>3. CASE r.failed + 1 >= THRESHOLD
  <2>1. Failure(r) = [r EXCEPT !.failed = 0, !.locked = TRUE] /\ 0 \in 0 .. THRESHOLD - 1
    BY <1>1, <1>3 DEF Failure
  <2> QED BY <1>1, <2>1 DEF Row, Success, Accepted
<1>4. CASE ~(r.failed + 1 >= THRESHOLD)
  <2>1. Failure(r) = [r EXCEPT !.failed = r.failed + 1] /\ r.failed + 1 \in 0 .. THRESHOLD - 1
        /\ 0 \in 0 .. THRESHOLD - 1
    BY <1>1, <1>2, <1>4 DEF Failure
  <2> QED BY <1>1, <2>1 DEF Row, Success, Accepted
<1> QED BY <1>3, <1>4

\* An accepted code forgets the failures and is remembered, and changes nothing else.
LEMMA AcceptedSteps ==
  ASSUME NEW r \in Row, NEW step \in 0 .. MaxStep
  PROVE  LET new == Success(Accepted(r, step))
         IN /\ new \in Row /\ new.role = r.role /\ new.active = r.active
            /\ new.password = r.password /\ new.secret = r.secret
            /\ new.confirmed = r.confirmed /\ new.last_step = step
            /\ new.failed = 0 /\ ~new.locked
<1> DEFINE accepted == Accepted(r, step)
           new == Success(accepted)
<1>1. /\ accepted \in Row /\ accepted.last_step = step
      /\ accepted.role = r.role /\ accepted.active = r.active
      /\ accepted.password = r.password /\ accepted.secret = r.secret
      /\ accepted.confirmed = r.confirmed
  BY RowSteps
<1> HIDE DEF accepted
<1>2. /\ new \in Row /\ new.role = accepted.role /\ new.active = accepted.active
      /\ new.password = accepted.password /\ new.secret = accepted.secret
      /\ new.confirmed = accepted.confirmed /\ new.last_step = accepted.last_step
      /\ new.failed = 0 /\ ~new.locked
  BY <1>1, RowSteps
<1> QED BY <1>1, <1>2 DEF accepted

\* An effect that writes the row at most.
Quiet(e) == /\ e.clears = "nothing" /\ e.gives = {} /\ e.revokes = {} /\ ~e.code /\ ~e.link
            /\ e.takes = None /\ ~e.mfa /\ ~e.opens

\* No effect, and a request's effect on the row alone.
LEMMA RowOnly ==
  ASSUME Typed, NEW u \in Users
  PROVE  /\ NoEffect(u) \in Effect /\ NoEffect(u).row = row[u] /\ Quiet(NoEffect(u))
         /\ \A new \in Row : /\ RowOf(u, new) \in Effect /\ RowOf(u, new).row = new
                             /\ Quiet(RowOf(u, new))
<1>1. row[u] \in Row
  BY DEF Typed, TypeOK
<1>2. NoEffect(u) \in Effect /\ NoEffect(u).row = row[u] /\ Quiet(NoEffect(u))
  <2> DEFINE given == SUBSET Marinas
             taken == TakenCode \union {None}
  <2>1. {} \in given /\ None \in taken
    OBVIOUS
  <2> HIDE DEF given, taken
  <2>2. NoEffect(u) \in [row : Row, clears : Tables, gives : given, revokes : given,
                         code : BOOLEAN, link : BOOLEAN, takes : taken,
                         mfa : BOOLEAN, opens : BOOLEAN]
    BY <1>1, <2>1 DEF NoEffect, Tables
  <2>3. NoEffect(u) \in Effect
    BY <2>2 DEF Effect, given, taken
  <2> QED BY <2>3 DEF NoEffect, Quiet
<1>3. ASSUME NEW new \in Row
      PROVE  RowOf(u, new) \in Effect /\ RowOf(u, new).row = new /\ Quiet(RowOf(u, new))
  BY <1>2, <1>3 DEF RowOf, Effect, Quiet
<1> QED BY <1>2, <1>3

(***************************************************************************)
(* What the requests read, kind by kind                                    *)
(***************************************************************************)

\* None is no code.
LEMMA TakenIsSome ==
  /\ \A t \in TakenCode : t # None
  /\ TakenCode = [kind : {"totp", "backup", "link"}, user : Users, n : Numbers, step : 0 .. MaxStep]
<1>1. MaxStep \in Nat /\ MaxRequests \in Nat
  BY AccountsAssumption
<1>2. Numbers \subseteq Nat /\ 0 .. MaxStep \subseteq Nat
  BY <1>1 DEF Numbers
<1>3. ASSUME NEW t \in TakenCode PROVE t # None
  <2>1. t \in [kind : {"totp", "backup", "link"}, user : Users, n : Nat, step : Nat]
    BY <1>2 DEF TakenCode
  <2> QED BY <2>1, AccountsAssumption
<1> QED BY <1>3 DEF TakenCode

\* What is known of the rows of a user.
LEMMA Here ==
  ASSUME Base, NEW u \in Users
  PROVE  /\ row[u] \in Row /\ marinas[u] \in SUBSET Access
         /\ row[u].confirmed # None => row[u].secret # None
         /\ row[u].secret \in Seen /\ row[u].confirmed \in Seen
         /\ \A c \in backup[u] : c \in Code /\ c.n \in Seen
         /\ row[u].role = None => row[u] = NoRow /\ marinas[u] = {}
BY DEF Base, Typed, TypeOK, AllSeen, Unmade

\* A code of the phone that is accepted is one of the secret, later than the last.
LEMMA Coded ==
  ASSUME Base, NEW u \in Users, NEW code \in Codes, Matches(row[u], code)
  PROVE  /\ code \in 1 .. MaxStep /\ code \in 0 .. MaxStep /\ code > row[u].last_step
         /\ row[u].secret # None
         /\ Totp(u, code) \in TakenCode /\ Totp(u, code) # None
         /\ Totp(u, code).kind = "totp" /\ Totp(u, code).user = u
         /\ Totp(u, code).n = row[u].secret /\ Totp(u, code).step = code
         /\ Accepted(row[u], code) \in Row
<1>1. row[u] \in Row
  BY Here
<1>2. code \in 1 .. MaxStep /\ code \in 0 .. MaxStep /\ code > row[u].last_step
      /\ row[u].secret # None
  BY AccountsAssumption DEF Matches
<1>3. row[u].secret \in Numbers
  BY <1>1, <1>2 DEF Row
<1>4. Totp(u, code) \in TakenCode
  BY <1>2, <1>3 DEF Totp, TakenCode
<1>5. Totp(u, code) # None
  BY <1>4, TakenIsSome
<1> QED BY <1>1, <1>2, <1>4, <1>5, RowSteps DEF Totp

\* A check that fails counts at most a failure.
LEMMA FailureReads ==
  ASSUME Base, NEW u \in Users, NEW k \in GuessKinds, NEW e \in Effect,
         e.row \in {row[u], Failure(row[u])}, e.takes = None, ~e.opens
  PROVE  ReadBy(k, u, e)
<1> DEFINE o == row[u]
<1>1. o \in Row /\ o.failed \in Nat
  BY Here, AccountsAssumption DEF Row
<1>2. /\ e.row.role = o.role /\ e.row.active = o.active /\ e.row.secret = o.secret
      /\ e.row.confirmed = o.confirmed /\ e.row.last_step = o.last_step
      /\ \/ e.row.failed = o.failed /\ e.row.locked = o.locked
         \/ e.row.failed = o.failed + 1 /\ e.row.locked = o.locked
         \/ e.row.failed = 0 /\ e.row.locked
  <2>1. 0 \in 0 .. MaxStep
    BY AccountsAssumption
  <2>2. \A f \in {"role", "active", "password", "secret", "confirmed", "last_step"} :
          e.row[f] = o[f]
    BY <1>1, <2>1, RowSteps
  <2> QED BY <1>1, <2>1, <2>2, RowSteps
<1>3. k \in {"login", "verify", "confirm", "regenerate"}
  BY DEF GuessKinds
<1>4. Fits(Next_n, k, u, o, e)
  BY <1>1, <1>2, <1>3 DEF Fits, KeepsRole, KeepsFactor, KeepsStep, TakesWhatIs, KeepsCount,
     KeepsAccess, GuessKinds, Guessed, Cleared
<1> QED BY <1>3, <1>4 DEF ReadBy, Kinds

\* A login counts a failure, or gives an mfa token.
LEMMA LoginReads ==
  ASSUME Base, NEW u \in Users, NEW right \in BOOLEAN
  PROVE  ReadBy("login", u, Login(u, right))
<1> DEFINE e == Login(u, right)
           o == row[u]
<1>1. o \in Row /\ Typed
  BY Here DEF Base
<1>2. Failure(o) \in Row
  BY <1>1, RowSteps, AccountsAssumption
<1>3. e \in {NoEffect(u), RowOf(u, Failure(o)), [NoEffect(u) EXCEPT !.mfa = TRUE]}
  BY DEF Login
<1> HIDE DEF e
<1>4. e \in Effect /\ e.takes = None /\ ~e.opens /\ e.row \in {o, Failure(o)}
  <2>1. NoEffect(u) \in Effect /\ NoEffect(u).takes = None /\ ~NoEffect(u).opens
        /\ NoEffect(u).row = o
    BY <1>1, RowOnly DEF Quiet
  <2>2. CASE e = RowOf(u, Failure(o))
    BY <1>1, <1>2, <2>2, RowOnly DEF Quiet
  <2>3. CASE e \in {NoEffect(u), [NoEffect(u) EXCEPT !.mfa = TRUE]}
    BY <2>1, <2>3 DEF Effect
  <2> QED BY <1>3, <2>2, <2>3
<1>5. ReadBy("login", u, e)
  BY <1>4, FailureReads DEF GuessKinds
<1> QED BY <1>5 DEF e

\* A code that is accepted, in a request that keeps the role, the secret and the marinas.
LEMMA CodeReads ==
  ASSUME Base, NEW u \in Users, NEW code \in Codes, Matches(row[u], code),
         NEW k \in {"verify", "confirm", "regenerate"}, NEW e \in Effect,
         e.takes = Totp(u, code), e.row.last_step = code,
         e.row.role = row[u].role, e.row.active = row[u].active, e.row.secret = row[u].secret,
         \/ e.row.confirmed = row[u].confirmed
         \/ k = "confirm" /\ e.opens /\ e.row.confirmed = Next_n,
         \/ e.row.failed = row[u].failed /\ e.row.locked = row[u].locked
         \/ e.row.failed = 0 /\ ~e.row.locked /\ e.opens
  PROVE  ReadBy(k, u, e)
<1> DEFINE o == row[u]
<1>1. o \in Row /\ o.failed \in Nat /\ o.secret \in Seen
  BY Here, AccountsAssumption DEF Row
<1>2. /\ code > o.last_step /\ e.takes.kind = "totp" /\ e.takes.user = u
      /\ e.takes.n = o.secret /\ e.takes.step = code
  BY Coded
<1>3. Fits(Next_n, k, u, o, e)
  BY <1>1, <1>2 DEF Fits, KeepsRole, KeepsFactor, KeepsStep, TakesWhatIs, KeepsCount,
     KeepsAccess, GuessKinds, Guessed, Cleared
<1> QED BY <1>1, <1>2, <1>3 DEF ReadBy, Kinds

\* The second factor counts a failure, or uses up a code and opens a session.
LEMMA VerifyReads ==
  ASSUME Base, NEW u \in Users, NEW code \in Codes
  PROVE  ReadBy("verify", u, Verify(u, code))
<1> DEFINE e == Verify(u, code)
           o == row[u]
<1>1. o \in Row /\ o.secret \in Seen /\ Typed
  BY Here DEF Base
<1>2. Failure(o) \in Row /\ Success(o) \in Row
  BY <1>1, RowSteps, AccountsAssumption
<1>3. CASE e = NoEffect(u) \/ e = RowOf(u, Failure(o))
  <2>1. e \in Effect /\ e.takes = None /\ ~e.opens /\ e.row \in {o, Failure(o)}
    BY <1>1, <1>2, <1>3, RowOnly DEF Quiet
  <2> QED BY <2>1, FailureReads DEF GuessKinds
<1>4. CASE /\ Matches(o, code)
           /\ e = [RowOf(u, Success(Accepted(o, code)))
                     EXCEPT !.takes = Totp(u, code), !.opens = TRUE]
  <2> DEFINE new == Success(Accepted(o, code))
  <2>1. /\ new \in Row /\ new.role = o.role /\ new.active = o.active /\ new.secret = o.secret
        /\ new.confirmed = o.confirmed /\ new.last_step = code /\ new.failed = 0 /\ ~new.locked
    BY <1>1, <1>4, Coded, AcceptedSteps
  <2>2. RowOf(u, new) \in Effect /\ RowOf(u, new).row = new /\ Totp(u, code) \in TakenCode
    BY <1>1, <1>4, <2>1, RowOnly, Coded
  <2>3. e = [RowOf(u, new) EXCEPT !.takes = Totp(u, code), !.opens = TRUE]
    BY <1>4
  <2> HIDE DEF new, e
  <2>4. e \in Effect /\ e.row = new /\ e.takes = Totp(u, code) /\ e.opens
    BY <2>2, <2>3 DEF Effect
  <2>5. ReadBy("verify", u, e)
    BY <1>4, <2>1, <2>4, CodeReads
  <2> QED BY <2>5 DEF e
<1>5. ASSUME NEW c \in backup[u], code = Backup(c.n), ~c.used,
             e = [RowOf(u, Success(o))
                    EXCEPT !.takes = BackupCode(u, code - Backup(0)), !.opens = TRUE]
      PROVE  ReadBy("verify", u, e)
  <2> DEFINE new == Success(o)
  <2>1. /\ new.role = o.role /\ new.active = o.active /\ new.secret = o.secret
        /\ new.confirmed = o.confirmed /\ new.last_step = o.last_step /\ new.failed = 0
        /\ ~new.locked /\ o.failed \in Nat
    <3>1. \A f \in {"role", "active", "password", "secret", "confirmed", "last_step"} :
            new[f] = o[f]
      BY <1>1, RowSteps, AccountsAssumption
    <3>2. new.failed = 0 /\ ~new.locked
      BY <1>1, RowSteps, AccountsAssumption
    <3> QED BY <1>1, <3>1, <3>2, AccountsAssumption DEF Row
  <2> DEFINE taken == BackupCode(u, c.n)
  <2>2. /\ taken \in TakenCode /\ taken.kind = "backup" /\ taken.user = u
        /\ taken.n = c.n /\ c.n \in Seen /\ c.n = code - Backup(0)
    <3>1. c \in Code /\ c.n \in Seen /\ 0 \in 0 .. MaxStep /\ MaxStep \in Nat /\ MaxRequests \in Nat
      BY Here, AccountsAssumption
    <3>2. c.n \in Numbers /\ c.n \in Nat
      BY <3>1 DEF Code, Numbers
    <3>3. c.n = code - Backup(0)
      BY <1>5, <3>1, <3>2 DEF Backup
    <3> QED BY <3>1, <3>2, <3>3 DEF BackupCode, TakenCode
  <2>3. RowOf(u, new) \in Effect /\ RowOf(u, new).row = new
    BY <1>1, <1>2, RowOnly DEF Quiet
  <2>4. e = [RowOf(u, new) EXCEPT !.takes = taken, !.opens = TRUE]
    BY <1>5, <2>2
  <2>9. taken = BackupCode(u, taken.n)
    BY <2>2
  <2> HIDE DEF new, e, taken
  <2>5. e \in Effect /\ e.row = new /\ e.takes = taken /\ e.opens
    BY <2>2, <2>3, <2>4 DEF Effect
  <2>6. Fits(Next_n, "verify", u, o, e)
    BY <2>1, <2>2, <2>5, <2>9 DEF Fits, KeepsRole, KeepsFactor, KeepsStep, TakesWhatIs, KeepsCount,
       KeepsAccess, GuessKinds, Guessed, Cleared
  <2>7. ReadBy("verify", u, e)
    BY <1>5, <2>2, <2>5, <2>6 DEF ReadBy, Kinds
  <2> QED BY <2>7 DEF e
<1> QED BY <1>3, <1>4, <1>5 DEF Verify

\* The number of the next request.
LEMMA NextNumber ==
  ASSUME Base, Len(reqs) < MaxRequests
  PROVE  Next_n \in Numbers /\ Next_n \in Nat \ {0} /\ Next_n # None
<1>1. Len(reqs) \in Nat /\ MaxRequests \in Nat
  BY AccountsAssumption DEF Base, Typed
<1>2. Next_n \in Nat \ {0} /\ Next_n <= MaxRequests
  BY <1>1 DEF Next_n
<1> QED BY <1>1, <1>2, AccountsAssumption DEF Numbers

\* A start writes a new secret where no second factor is confirmed.
LEMMA StartReads ==
  ASSUME Base, NEW u \in Users, Len(reqs) < MaxRequests,
         EnrolStart(u, Next_n) # NoEffect(u)
  PROVE  ReadBy("start", u, EnrolStart(u, Next_n))
<1> DEFINE e == EnrolStart(u, Next_n)
           o == row[u]
           new == [o EXCEPT !.secret = Next_n, !.confirmed = None, !.last_step = 0]
<1>1. o \in Row /\ Typed /\ Next_n \in Numbers /\ 0 \in 0 .. MaxStep /\ o.failed \in Nat
  BY Here, NextNumber, AccountsAssumption DEF Base, Row
<1>2. e = RowOf(u, new) /\ o.confirmed = None
  BY DEF EnrolStart
<1>3. /\ new \in Row /\ new.role = o.role /\ new.active = o.active /\ new.secret = Next_n
      /\ new.confirmed = None /\ new.failed = o.failed /\ new.locked = o.locked
  BY <1>1 DEF Row
<1> HIDE DEF new, e
<1>4. e \in Effect /\ e.row = new /\ e.takes = None /\ ~e.opens
  BY <1>1, <1>2, <1>3, RowOnly DEF Quiet
<1>5. Fits(Next_n, "start", u, o, e)
  BY <1>1, <1>2, <1>3, <1>4 DEF Fits, KeepsRole, KeepsFactor, KeepsStep, TakesWhatIs, KeepsCount,
     KeepsAccess, GuessKinds, Guessed, Cleared
<1>6. ReadBy("start", u, e)
  BY <1>4, <1>5 DEF ReadBy, Kinds
<1> QED BY <1>6 DEF e

\* A confirmation counts a failure, or confirms the secret whose code it was given.
LEMMA ConfirmReads ==
  ASSUME Base, NEW u \in Users, NEW code \in Codes, Len(reqs) < MaxRequests
  PROVE  ReadBy("confirm", u, EnrolConfirm(u, code, Next_n))
<1> DEFINE e == EnrolConfirm(u, code, Next_n)
           o == row[u]
           was == Success(Accepted(o, code))
           new == [was EXCEPT !.confirmed = Next_n]
<1>1. o \in Row /\ Typed /\ Next_n \in Numbers /\ Failure(o) \in Row
  BY Here, NextNumber, RowSteps, AccountsAssumption DEF Base
<1>2. CASE e = NoEffect(u) \/ e = RowOf(u, Failure(o))
  <2> HIDE DEF e
  <2>1. e \in Effect /\ e.takes = None /\ ~e.opens /\ e.row \in {o, Failure(o)}
    BY <1>1, <1>2, RowOnly DEF Quiet
  <2>2. ReadBy("confirm", u, e)
    BY <2>1, FailureReads DEF GuessKinds
  <2> QED BY <2>2 DEF e
<1>3. CASE /\ Matches(o, code)
           /\ e = [RowOf(u, new)
                     EXCEPT !.clears = "codes", !.code = TRUE, !.takes = Totp(u, code),
                            !.opens = TRUE]
  <2>1. /\ was \in Row /\ was.role = o.role /\ was.active = o.active /\ was.secret = o.secret
        /\ was.last_step = code /\ was.failed = 0 /\ ~was.locked
    BY <1>1, <1>3, Coded, AcceptedSteps
  <2> HIDE DEF was
  <2>2. /\ new \in Row /\ new.role = o.role /\ new.active = o.active /\ new.secret = o.secret
        /\ new.confirmed = Next_n /\ new.last_step = code /\ new.failed = 0 /\ ~new.locked
    BY <1>1, <2>1 DEF Row
  <2>3. e = [RowOf(u, new) EXCEPT !.clears = "codes", !.code = TRUE, !.takes = Totp(u, code),
                                  !.opens = TRUE]
    BY <1>3
  <2> HIDE DEF new, e
  <2>4. RowOf(u, new) \in Effect /\ RowOf(u, new).row = new /\ Totp(u, code) \in TakenCode
    BY <1>1, <1>3, <2>2, RowOnly, Coded
  <2>5. e \in Effect /\ e.row = new /\ e.takes = Totp(u, code) /\ e.opens
    BY <2>3, <2>4 DEF Effect, Tables
  <2>6. ReadBy("confirm", u, e)
    BY <1>3, <2>2, <2>5, CodeReads
  <2> QED BY <2>6 DEF e
<1> QED BY <1>2, <1>3 DEF EnrolConfirm

\* New backup codes are for a code of the phone; a wrong one counts.
LEMMA RegenerateReads ==
  ASSUME Base, NEW u \in Users, NEW code \in Codes
  PROVE  ReadBy("regenerate", u, Regenerate(u, code))
<1> DEFINE e == Regenerate(u, code)
           o == row[u]
           new == Accepted(o, code)
<1>1. o \in Row /\ Typed /\ Failure(o) \in Row
  BY Here, RowSteps, AccountsAssumption DEF Base
<1>2. CASE e = RowOf(u, Failure(o))
  <2> HIDE DEF e
  <2>1. e \in Effect /\ e.takes = None /\ ~e.opens /\ e.row = Failure(o)
    BY <1>1, <1>2, RowOnly DEF Quiet
  <2>2. ReadBy("regenerate", u, e)
    BY <2>1, FailureReads DEF GuessKinds
  <2> QED BY <2>2 DEF e
<1>3. CASE /\ Matches(o, code)
           /\ e = [RowOf(u, new) EXCEPT !.clears = "codes", !.code = TRUE,
                                        !.takes = Totp(u, code)]
  <2>1. code \in 0 .. MaxStep
    BY <1>3, Coded
  <2>2. new = [o EXCEPT !.last_step = code]
    BY DEF Accepted
  <2> HIDE DEF new, e
  <2>3. /\ new \in Row /\ new.role = o.role /\ new.active = o.active /\ new.secret = o.secret
        /\ new.confirmed = o.confirmed /\ new.last_step = code /\ new.failed = o.failed
        /\ new.locked = o.locked
    BY <1>1, <2>1, <2>2 DEF Row
  <2>4. RowOf(u, new) \in Effect /\ RowOf(u, new).row = new /\ Totp(u, code) \in TakenCode
        /\ ~RowOf(u, new).opens
    BY <1>1, <1>3, <2>3, RowOnly, Coded DEF Quiet
  <2>5. e \in Effect /\ e.row = new /\ e.takes = Totp(u, code)
    BY <1>3, <2>4 DEF Effect, Tables
  <2>6. ReadBy("regenerate", u, e)
    BY <1>3, <2>3, <2>5, CodeReads
  <2> QED BY <2>6 DEF e
<1> QED BY <1>2, <1>3 DEF Regenerate

\* A setup uses up an unused link and changes the password alone.
LEMMA SetupReads ==
  ASSUME Base, NEW l \in links, ~l.used
  PROVE  l.user \in Users /\ ReadBy("setup", l.user, Setup(l))
<1> DEFINE e == Setup(l)
           u == l.user
           o == row[u]
           new == [o EXCEPT !.password = TRUE]
<1>1. l \in Link /\ u \in Users /\ l.n \in Numbers /\ l.n \in Seen
  BY DEF Base, Typed, TypeOK, AllSeen, Link
<1>2. o \in Row /\ Typed /\ 0 \in 0 .. MaxStep /\ o.failed \in Nat
  BY <1>1, Here, AccountsAssumption DEF Base, Row
<1>3. /\ new \in Row /\ new.role = o.role /\ new.active = o.active /\ new.secret = o.secret
      /\ new.confirmed = o.confirmed /\ new.last_step = o.last_step /\ new.failed = o.failed
      /\ new.locked = o.locked
  BY <1>2 DEF Row
<1>4. /\ LinkCode(l) \in TakenCode /\ LinkCode(l).kind = "link" /\ LinkCode(l).user = u
      /\ LinkCode(l).n = l.n
  BY <1>1, <1>2 DEF LinkCode, TakenCode
<1>5. e = [RowOf(u, new) EXCEPT !.takes = LinkCode(l), !.mfa = TRUE]
  BY DEF Setup
<1> HIDE DEF new, e
<1>6. RowOf(u, new) \in Effect /\ RowOf(u, new).row = new /\ ~RowOf(u, new).opens
  BY <1>1, <1>2, <1>3, RowOnly DEF Quiet
<1>7. e \in Effect /\ e.row = new /\ e.takes = LinkCode(l) /\ ~e.opens
  BY <1>4, <1>5, <1>6 DEF Effect
<1>8. Fits(Next_n, "setup", u, o, e)
  BY <1>2, <1>3, <1>4, <1>7 DEF Fits, KeepsRole, KeepsFactor, KeepsStep, TakesWhatIs, KeepsCount,
     KeepsAccess, GuessKinds, Guessed, Cleared
<1>9. ReadBy("setup", u, e)
  BY <1>1, <1>4, <1>7, <1>8 DEF ReadBy, Kinds
<1> QED BY <1>1, <1>9 DEF e

\* A request that makes an account, or changes none of the columns that are looked after here.
LEMMA PlainReads ==
  ASSUME Base, NEW u \in Users, NEW k \in {"create", "cli", "newlink", "unlock", "grant", "revoke"},
         NEW e \in Effect, e.takes = None, ~e.opens,
         row[u].role = None \/ (e.row.role = row[u].role /\ e.row.active = row[u].active),
         e.row.secret = row[u].secret, e.row.confirmed = row[u].confirmed,
         e.row.last_step = row[u].last_step,
         \/ e.row.failed = row[u].failed /\ e.row.locked = row[u].locked
         \/ k = "unlock" /\ e.row.failed = 0 /\ ~e.row.locked
  PROVE  ReadBy(k, u, e)
<1>1. row[u].failed \in Nat
  BY Here, AccountsAssumption DEF Row
<1>2. Fits(Next_n, k, u, row[u], e)
  BY <1>1 DEF Fits, KeepsRole, KeepsFactor, KeepsStep, TakesWhatIs, KeepsCount,
     KeepsAccess, GuessKinds, Guessed, Cleared
<1> QED BY <1>2 DEF ReadBy, Kinds

\* A new row.
LEMMA Made ==
  ASSUME Base, NEW u \in Users, row[u].role = None, NEW role \in Roles
  PROVE  LET new == NewRow(role)
         IN /\ new \in Row /\ new.secret = row[u].secret /\ new.confirmed = row[u].confirmed
            /\ new.last_step = row[u].last_step /\ new.failed = row[u].failed
            /\ new.locked = row[u].locked
<1>1. row[u] = NoRow
  BY Here
<1>2. 0 \in 0 .. MaxStep /\ 0 \in 0 .. THRESHOLD - 1
  BY AccountsAssumption
<1>3. NewRow(role) \in Row
  BY <1>2 DEF NewRow, Row
<1>4. /\ NewRow(role).secret = None /\ NewRow(role).confirmed = None
      /\ NewRow(role).last_step = 0 /\ NewRow(role).failed = 0 /\ NewRow(role).locked = FALSE
  BY DEF NewRow
<1>5. /\ row[u].secret = None /\ row[u].confirmed = None
      /\ row[u].last_step = 0 /\ row[u].failed = 0 /\ row[u].locked = FALSE
  BY <1>1 DEF NoRow, NewRow
<1> QED BY <1>3, <1>4, <1>5

\* An account is made where there is none.
LEMMA CreateReads ==
  ASSUME Base, NEW u \in Users, row[u].role = None, NEW role \in Roles,
         NEW given \in SUBSET Marinas
  PROVE  ReadBy("create", u, CreateUser(u, role, given))
<1> DEFINE e == CreateUser(u, role, given)
           new == NewRow(role)
           access == IF role = "admin" THEN {} ELSE given
<1>1. Typed
  BY DEF Base
<1>2. /\ new \in Row /\ new.secret = row[u].secret /\ new.confirmed = row[u].confirmed
      /\ new.last_step = row[u].last_step /\ new.failed = row[u].failed
      /\ new.locked = row[u].locked
  BY Made
<1>3. e = [RowOf(u, new) EXCEPT !.gives = access, !.link = TRUE]
      /\ access \in SUBSET Marinas
  BY DEF CreateUser
<1> HIDE DEF new, e, access
<1>4. RowOf(u, new) \in Effect /\ RowOf(u, new).row = new /\ RowOf(u, new).takes = None
      /\ ~RowOf(u, new).opens
  BY <1>1, <1>2, RowOnly DEF Quiet
<1>5. e \in Effect /\ e.row = new /\ e.takes = None /\ ~e.opens
  BY <1>3, <1>4 DEF Effect
<1>6. ReadBy("create", u, e)
  BY <1>2, <1>5, PlainReads
<1> QED BY <1>6 DEF e

\* A new link changes nothing of the row.
LEMMA LinkEffect ==
  ASSUME Typed, NEW u \in Users
  PROVE  /\ IssueLink(u) \in Effect /\ IssueLink(u).row = row[u]
         /\ IssueLink(u).takes = None /\ ~IssueLink(u).opens
<1>1. NoEffect(u) \in Effect /\ NoEffect(u).row = row[u] /\ NoEffect(u).takes = None
      /\ ~NoEffect(u).opens
  BY RowOnly DEF Quiet
<1> DEFINE e == [NoEffect(u) EXCEPT !.clears = "links", !.link = TRUE]
<1>2. e \in Effect /\ e.row = row[u] /\ e.takes = None /\ ~e.opens
  BY <1>1 DEF Effect, Tables
<1>3. IssueLink(u) = e
  BY DEF IssueLink
<1> HIDE DEF e
<1> QED BY <1>2, <1>3

\* setup_admin makes an account, or only a link.
LEMMA SetupAdminReads ==
  ASSUME Base, NEW u \in Users
  PROVE  ReadBy("cli", u, SetupAdmin(u))
<1> DEFINE e == SetupAdmin(u)
<1>1. Typed /\ row[u] \in Row
  BY Here DEF Base
<1>2. CASE row[u].role = None
  <2> DEFINE new == NewRow("admin")
  <2>1. /\ new \in Row /\ new.secret = row[u].secret /\ new.confirmed = row[u].confirmed
        /\ new.last_step = row[u].last_step /\ new.failed = row[u].failed
        /\ new.locked = row[u].locked
    BY <1>2, Made DEF Roles
  <2>2. e = [RowOf(u, new) EXCEPT !.link = TRUE]
    BY <1>2 DEF SetupAdmin
  <2> HIDE DEF new, e
  <2>3. RowOf(u, new) \in Effect /\ RowOf(u, new).row = new /\ RowOf(u, new).takes = None
        /\ ~RowOf(u, new).opens
    BY <1>1, <2>1, RowOnly DEF Quiet
  <2>4. e \in Effect /\ e.row = new /\ e.takes = None /\ ~e.opens
    BY <2>2, <2>3 DEF Effect
  <2>5. ReadBy("cli", u, e)
    BY <1>2, <2>1, <2>4, PlainReads
  <2> QED BY <2>5 DEF e
<1>3. CASE row[u].role # None
  <2>1. e = IssueLink(u)
    BY <1>3 DEF SetupAdmin
  <2>2. e \in Effect /\ e.row = row[u] /\ e.takes = None /\ ~e.opens
    BY <1>1, <2>1, LinkEffect
  <2> HIDE DEF e
  <2>3. ReadBy("cli", u, e)
    BY <2>2, PlainReads
  <2> QED BY <2>3 DEF e
<1> QED BY <1>2, <1>3

\* An update changes role and activity, never those of the last active admin.
LEMMA UpdateReads ==
  ASSUME Base, NEW u \in Users, row[u].role # None, NEW admin \in Users, NEW change \in Changes,
         MayUpdate(admin, u, change)
  PROVE  ReadBy("update", u, UpdateUser(u, change))
<1> DEFINE e == UpdateUser(u, change)
           o == row[u]
           role == IF change.role = None THEN o.role ELSE change.role
           active == IF change.active = None THEN o.active ELSE change.active
           new == [o EXCEPT !.role = role, !.active = active]
           access == Given(change)
           table == IF change.marinas # None \/ role = "admin" THEN "rows" ELSE "nothing"
<1>1. Typed /\ o \in Row /\ o.failed \in Nat
  BY Here, AccountsAssumption DEF Base, Row
<1>2. /\ change.role \in Roles \union {None} /\ change.active \in BOOLEAN \union {None}
      /\ change.marinas \in (SUBSET Marinas) \union {None}
  BY AccountsAssumption
<1>3. role \in Roles \union {None} /\ active \in BOOLEAN
      /\ access \in SUBSET Marinas /\ table \in Tables /\ (role = "admin" => table = "rows")
  BY <1>1, <1>2 DEF Row, Given, Tables
<1>4. e = [RowOf(u, new) EXCEPT !.clears = table, !.gives = access]
  BY DEF UpdateUser, Changed, Role
<1>5. o.role = "admin" /\ o.active /\ (role # "admin" \/ ~active) => ActiveAdmins \ {u} # {}
  <2>1. SUFFICES ASSUME o.role = "admin", o.active, role # "admin" \/ ~active
                 PROVE  Demotes(u, change)
    BY DEF MayUpdate
  <2>2. CASE role # "admin"
    BY <1>2, <2>1, <2>2 DEF Demotes, Roles
  <2>3. CASE ~active
    BY <1>2, <2>1, <2>3 DEF Demotes
  <2> QED BY <2>1, <2>2, <2>3
<1> HIDE DEF access, table
<1>6. /\ new \in Row /\ new.role = role /\ new.active = active /\ new.secret = o.secret
      /\ new.confirmed = o.confirmed /\ new.last_step = o.last_step /\ new.failed = o.failed
      /\ new.locked = o.locked
  <2> HIDE DEF role, active
  <2> QED BY <1>1, <1>3 DEF Row
<1> HIDE DEF new, e, role, active
<1>7. RowOf(u, new) \in Effect /\ RowOf(u, new).row = new /\ RowOf(u, new).takes = None
      /\ ~RowOf(u, new).opens
  BY <1>1, <1>6, RowOnly DEF Quiet
<1>8. e \in Effect /\ e.row = new /\ e.takes = None /\ ~e.opens /\ e.clears = table
  BY <1>3, <1>4, <1>7 DEF Effect
<1>9. Fits(Next_n, "update", u, o, e)
  <2>1. o.role # None => role # None
    BY DEF role
  <2> QED BY <1>1, <1>3, <1>6, <1>8, <2>1 DEF Fits, KeepsRole, KeepsFactor, KeepsStep, TakesWhatIs,
     KeepsCount, KeepsAccess, GuessKinds, Guessed, Cleared
<1>10. ReadBy("update", u, e)
  BY <1>5, <1>6, <1>8, <1>9 DEF ReadBy, Kinds
<1> QED BY <1>10 DEF e

\* A reset clears the second factor and nothing else of the row.
LEMMA ResetReads ==
  ASSUME Base, NEW u \in Users
  PROVE  ReadBy("reset", u, ResetMfa(u))
<1> DEFINE e == ResetMfa(u)
           o == row[u]
           new == [o EXCEPT !.secret = None, !.confirmed = None, !.last_step = 0]
<1>1. o \in Row /\ Typed /\ 0 \in 0 .. MaxStep /\ o.failed \in Nat
  BY Here, AccountsAssumption DEF Base, Row
<1>2. e = [RowOf(u, new) EXCEPT !.clears = "codes"]
  BY DEF ResetMfa
<1>3. /\ new \in Row /\ new.role = o.role /\ new.active = o.active /\ new.secret = None
      /\ new.confirmed = None /\ new.failed = o.failed /\ new.locked = o.locked
  BY <1>1 DEF Row
<1> HIDE DEF new, e
<1>4. RowOf(u, new) \in Effect /\ RowOf(u, new).row = new /\ RowOf(u, new).takes = None
      /\ ~RowOf(u, new).opens
  BY <1>1, <1>3, RowOnly DEF Quiet
<1>5. e \in Effect /\ e.row = new /\ e.takes = None /\ ~e.opens
  BY <1>2, <1>4 DEF Effect, Tables
<1>6. Fits(Next_n, "reset", u, o, e)
  BY <1>1, <1>3, <1>5 DEF Fits, KeepsRole, KeepsFactor, KeepsStep, TakesWhatIs, KeepsCount,
     KeepsAccess, GuessKinds, Guessed, Cleared
<1>7. ReadBy("reset", u, e)
  BY <1>5, <1>6 DEF ReadBy, Kinds
<1> QED BY <1>7 DEF e

\* The others: a new link, an unlock, a marina given or taken away.
LEMMA OthersRead ==
  ASSUME Base, NEW u \in Users
  PROVE  /\ ReadBy("newlink", u, IssueLink(u))
         /\ ReadBy("unlock", u, RowOf(u, [row[u] EXCEPT !.locked = FALSE, !.failed = 0]))
         /\ \A m \in Marinas : /\ ReadBy("grant", u, [NoEffect(u) EXCEPT !.gives = {m}])
                               /\ ReadBy("revoke", u, [NoEffect(u) EXCEPT !.revokes = {m}])
<1> DEFINE o == row[u]
<1>1. Typed /\ o \in Row
  BY Here DEF Base
<1>2. NoEffect(u) \in Effect /\ NoEffect(u).row = o /\ NoEffect(u).takes = None
      /\ ~NoEffect(u).opens
  BY <1>1, RowOnly DEF Quiet
<1>3. ReadBy("newlink", u, IssueLink(u))
  <2> DEFINE e == IssueLink(u)
  <2>1. e \in Effect /\ e.row = o /\ e.takes = None /\ ~e.opens
    BY <1>1, LinkEffect
  <2> HIDE DEF e
  <2>2. ReadBy("newlink", u, e)
    BY <2>1, PlainReads
  <2> QED BY <2>2 DEF e
<1>4. ASSUME NEW m \in Marinas
      PROVE  /\ ReadBy("grant", u, [NoEffect(u) EXCEPT !.gives = {m}])
             /\ ReadBy("revoke", u, [NoEffect(u) EXCEPT !.revokes = {m}])
  <2> DEFINE given == [NoEffect(u) EXCEPT !.gives = {m}]
             taken == [NoEffect(u) EXCEPT !.revokes = {m}]
  <2>1. /\ given \in Effect /\ given.row = o /\ given.takes = None /\ ~given.opens
        /\ taken \in Effect /\ taken.row = o /\ taken.takes = None /\ ~taken.opens
    BY <1>2 DEF Effect
  <2> HIDE DEF given, taken
  <2>2. ReadBy("grant", u, given) /\ ReadBy("revoke", u, taken)
    BY <2>1, PlainReads
  <2> QED BY <2>2 DEF given, taken
<1>5. ReadBy("unlock", u, RowOf(u, [o EXCEPT !.locked = FALSE, !.failed = 0]))
  <2> DEFINE new == [o EXCEPT !.locked = FALSE, !.failed = 0]
             e == RowOf(u, new)
  <2>1. 0 \in 0 .. THRESHOLD - 1
    BY AccountsAssumption
  <2>2. /\ new \in Row /\ new.role = o.role /\ new.active = o.active /\ new.secret = o.secret
        /\ new.confirmed = o.confirmed /\ new.last_step = o.last_step
        /\ new.failed = 0 /\ ~new.locked
    BY <1>1, <2>1 DEF Row
  <2> HIDE DEF new
  <2>3. e \in Effect /\ e.row = new /\ e.takes = None /\ ~e.opens
    BY <1>1, <2>2, RowOnly DEF Quiet
  <2> HIDE DEF e
  <2>4. ReadBy("unlock", u, e)
    BY <2>2, <2>3, PlainReads
  <2> QED BY <2>4 DEF e, new
<1> QED BY <1>3, <1>4, <1>5

Begins == \E k \in Kinds, u \in Users, e \in Effect :
  Begin(k, u, e) /\ ReadBy(k, u, e) /\ e.row.role # None

\* What a phone shows is among what can be typed.
LEMMA PhoneOfCodes == PhoneCodes \subseteq Codes
<1>1. MaxStep \in Nat /\ MaxRequests \in Nat
  BY AccountsAssumption
<1> QED BY <1>1 DEF PhoneCodes, Codes, Wrong, Backup

\* Whatever a request is, it begins with what it has read.
LEMMA BeginsSome ==
  ASSUME Base,
         \/ BeginLogin \/ BeginVerify \/ BeginStart \/ BeginConfirm \/ BeginRegenerate
         \/ BeginSetup \/ BeginCreate \/ BeginUpdate \/ BeginNewLink \/ BeginReset
         \/ BeginUnlock \/ BeginSetupAdmin \/ BeginGrant \/ BeginRevoke
  PROVE  Begins
<1>0. \A u \in Users : SignedIn(u) \/ MfaUser(u) => row[u].role # None
  BY DEF SignedIn, TokenMatches, MfaUser
<1>1. ASSUME NEW k, NEW u, NEW e, Begin(k, u, e), ReadBy(k, u, e),
             row[u].role # None \/ e.row.role # None
      PROVE  Begins
  BY <1>1 DEF Begins, ReadBy, Fits, KeepsRole
<1>2. CASE BeginLogin
  <2>1. PICK u \in Users, right \in BOOLEAN :
          row[u].role # None /\ Begin("login", u, Login(u, right))
    BY <1>2 DEF BeginLogin
  <2> QED BY <2>1, <1>1, LoginReads
<1>3. CASE BeginVerify
  <2>1. PICK u \in Users, code \in Codes : MfaUser(u) /\ Begin("verify", u, Verify(u, code))
    BY <1>3 DEF BeginVerify
  <2> QED BY <2>1, <1>1, <1>0, VerifyReads
<1>4. CASE BeginStart
  <2>1. PICK u \in Users : MfaUser(u) /\ Begin("start", u, EnrolStart(u, Next_n))
    BY <1>4 DEF BeginStart
  <2>2. Len(reqs) < MaxRequests /\ EnrolStart(u, Next_n) # NoEffect(u)
    BY <2>1 DEF Begin
  <2> QED BY <2>1, <2>2, <1>1, <1>0, StartReads
<1>5. CASE BeginConfirm
  <2>1. PICK u \in Users, code \in PhoneCodes :
          MfaUser(u) /\ Begin("confirm", u, EnrolConfirm(u, code, Next_n))
    BY <1>5 DEF BeginConfirm
  <2>2. Len(reqs) < MaxRequests
    BY <2>1 DEF Begin
  <2> QED BY <2>1, <2>2, <1>1, <1>0, PhoneOfCodes, ConfirmReads
<1>6. CASE BeginRegenerate
  <2>1. PICK u \in Users, code \in PhoneCodes :
          SignedIn(u) /\ Begin("regenerate", u, Regenerate(u, code))
    BY <1>6 DEF BeginRegenerate
  <2> QED BY <2>1, <1>1, <1>0, PhoneOfCodes, RegenerateReads
<1>7. CASE BeginSetup
  <2>1. PICK l \in links : /\ ~l.used /\ row[l.user].active
                           /\ Begin("setup", l.user, Setup(l))
    BY <1>7 DEF BeginSetup
  <2>2. l.user \in Users /\ ReadBy("setup", l.user, Setup(l))
    BY <2>1, SetupReads
  <2>3. row[l.user].role # None
    BY <2>1, <2>2, Here DEF NoRow, NewRow
  <2> QED BY <2>1, <2>2, <2>3, <1>1
<1>8. CASE BeginCreate
  <2>1. PICK u \in Users, role \in Roles, given \in SUBSET Marinas :
          row[u].role = None /\ Begin("create", u, CreateUser(u, role, given))
    BY <1>8 DEF BeginCreate
  <2>2. CreateUser(u, role, given).row.role # None
    <3>1. NewRow(role) \in Row /\ NewRow(role).role = role /\ role # None
      BY <2>1, Made, AccountsAssumption DEF NewRow
    <3>2. RowOf(u, NewRow(role)).row = NewRow(role) /\ RowOf(u, NewRow(role)) \in Effect
      BY <3>1, RowOnly DEF Base
    <3> QED BY <3>1, <3>2 DEF CreateUser, Effect
  <2> QED BY <2>1, <2>2, <1>1, CreateReads
<1>9. CASE BeginUpdate
  <2>1. PICK admin \in Users, u \in Users, change \in Changes :
          /\ row[u].role # None /\ MayUpdate(admin, u, change)
          /\ Begin("update", u, UpdateUser(u, change))
    BY <1>9 DEF BeginUpdate
  <2> QED BY <2>1, <1>1, UpdateReads
<1>10. CASE BeginNewLink
  <2>1. PICK u \in Users :
          row[u].role # None /\ Begin("newlink", u, IssueLink(u))
    BY <1>10 DEF BeginNewLink
  <2> QED BY <2>1, <1>1, OthersRead
<1>11. CASE BeginReset
  <2>1. PICK u \in Users : row[u].role # None /\ Begin("reset", u, ResetMfa(u))
    BY <1>11 DEF BeginReset
  <2> QED BY <2>1, <1>1, ResetReads
<1>12. CASE BeginUnlock
  <2>1. PICK u \in Users :
          /\ row[u].role # None
          /\ Begin("unlock", u, RowOf(u, [row[u] EXCEPT !.locked = FALSE, !.failed = 0]))
    BY <1>12 DEF BeginUnlock
  <2> QED BY <2>1, <1>1, OthersRead
<1>13. CASE BeginSetupAdmin
  <2>1. PICK u \in Users : Begin("cli", u, SetupAdmin(u))
    BY <1>13 DEF BeginSetupAdmin
  <2>2. row[u].role # None \/ SetupAdmin(u).row.role # None
    <3>1. SUFFICES ASSUME row[u].role = None PROVE SetupAdmin(u).row.role = "admin"
      BY AccountsAssumption DEF Roles
    <3>2. "admin" \in Roles
      BY DEF Roles
    <3>3. NewRow("admin") \in Row /\ NewRow("admin").role = "admin"
      BY <3>1, <3>2, Made DEF NewRow
    <3>4. /\ RowOf(u, NewRow("admin")).row = NewRow("admin")
          /\ RowOf(u, NewRow("admin")) \in Effect
      BY <3>3, RowOnly DEF Base
    <3>5. SetupAdmin(u) = [RowOf(u, NewRow("admin")) EXCEPT !.link = TRUE]
      BY <3>1 DEF SetupAdmin
    <3> QED BY <3>3, <3>4, <3>5 DEF Effect
  <2> QED BY <2>1, <2>2, <1>1, SetupAdminReads
<1>14. CASE BeginGrant
  <2>1. PICK u \in Users, m \in Marinas :
          /\ row[u].role # None
          /\ Begin("grant", u, [NoEffect(u) EXCEPT !.gives = {m}])
    BY <1>14 DEF BeginGrant
  <2> QED BY <2>1, <1>1, OthersRead
<1>15. CASE BeginRevoke
  <2>1. PICK u \in Users, m \in Marinas :
          /\ HasMarina(u, m)
          /\ Begin("revoke", u, [NoEffect(u) EXCEPT !.revokes = {m}])
    BY <1>15 DEF BeginRevoke
  <2>2. row[u].role # None
    BY <2>1, Here DEF HasMarina
  <2> QED BY <2>1, <2>2, <1>1, OthersRead
<1> QED BY <1>2, <1>3, <1>4, <1>5, <1>6, <1>7, <1>8, <1>9, <1>10, <1>11, <1>12, <1>13, <1>14,
           <1>15

(***************************************************************************)
(* Steps of the requests                                                   *)
(***************************************************************************)

\* A request that begins is the next one, is open, and overlaps those that are open.
LEMMA Begun ==
  ASSUME Typed, NEW k \in Kinds, NEW u \in Users, NEW e \in Effect, Begin(k, u, e),
         NEW N, N = Next_n
  PROVE  /\ N \in Nat \ {0} /\ N \notin DOMAIN reqs /\ DOMAIN reqs' = DOMAIN reqs \union {N}
         /\ reqs' \in Seq(Req) /\ Len(reqs') <= MaxRequests
         /\ \A n \in DOMAIN reqs : reqs'[n] = reqs[n]
         /\ reqs'[N].kind = k /\ reqs'[N].user = u /\ reqs'[N].at = "open"
         /\ reqs'[N].old = row[u] /\ reqs'[N].effect = e /\ reqs'[N].with = OpenRequests
         /\ reqs'[N].ends = {}
         /\ UNCHANGED <<row, marinas, backup, links, mfa, sessions>>
<1> DEFINE new == [kind |-> k, user |-> u, at |-> "open", old |-> row[u],
                   effect |-> e, with |-> OpenRequests, done |-> 0, ends |-> {}]
<1>1. reqs \in Seq(Req) /\ row[u] \in Row /\ OpenRequests \subseteq Nat
  BY DEF Typed, TypeOK, OpenRequests
<1>2. new \in Req
  BY <1>1 DEF Req
<1>3. /\ reqs' = Append(reqs, new) /\ Len(reqs) < MaxRequests
      /\ UNCHANGED <<row, marinas, backup, links, mfa, sessions>>
  BY DEF Begin
<1>4. /\ new.kind = k /\ new.user = u /\ new.at = "open" /\ new.old = row[u]
      /\ new.effect = e /\ new.with = OpenRequests /\ new.ends = {}
  OBVIOUS
<1> HIDE DEF new
<1>5. MaxRequests \in Nat
  BY AccountsAssumption
<1>6. /\ N \in Nat \ {0} /\ N \notin DOMAIN reqs /\ DOMAIN reqs' = DOMAIN reqs \union {N}
      /\ reqs' \in Seq(Req) /\ Len(reqs') <= MaxRequests
      /\ \A n \in DOMAIN reqs : reqs'[n] = reqs[n]
      /\ reqs'[N] = new
  BY <1>1, <1>2, <1>3, <1>5 DEF Next_n
<1> QED BY <1>3, <1>4, <1>6

\* What it means for the others.
LEMMA BegunOthers ==
  ASSUME Typed, NEW N, N \notin DOMAIN reqs, DOMAIN reqs' = DOMAIN reqs \union {N},
         \A n \in DOMAIN reqs : reqs'[n] = reqs[n], reqs'[N].at = "open",
         reqs'[N].with = OpenRequests
  PROVE  /\ OpenRequests' = OpenRequests \union {N} /\ ~Done(N)'
         /\ \A n \in DOMAIN reqs : /\ Done(n)' <=> Done(n)
                                   /\ Overlapped(n)' <=> Overlapped(n)
                                   /\ \A m \in DOMAIN reqs : Overlap(m, n)' <=> Overlap(m, n)
         /\ \A n \in OpenRequests : Overlap(n, N)' /\ Overlap(N, n)'
         /\ Seen' = Seen
<1>1. OpenRequests' = OpenRequests \union {N} /\ ~Done(N)'
  BY DEF OpenRequests, Done
<1>2. \A n \in DOMAIN reqs : Done(n)' <=> Done(n)
  BY DEF Done
<1>3. \A n, m \in DOMAIN reqs : Overlap(m, n)' <=> Overlap(m, n)
  BY DEF Overlap
<1>4. \A n \in OpenRequests : Overlap(n, N)' /\ Overlap(N, n)'
  BY DEF Overlap
<1>5. Seen' = Seen
  BY <1>1, <1>2 DEF Seen
<1>6. ASSUME NEW n \in DOMAIN reqs PROVE Overlapped(n)' <=> Overlapped(n)
  BY <1>1, <1>2, <1>3 DEF Overlapped
<1> QED BY <1>1, <1>2, <1>3, <1>4, <1>5, <1>6

\* A request that ends keeps what it has read and wrote.
LEMMA Ended ==
  ASSUME Typed, NEW n \in OpenRequests, NEW at \in {"done", "failed"},
         NEW ends \in SUBSET Session, Closed(n, at, ends)
  PROVE  /\ n \in DOMAIN reqs /\ DOMAIN reqs' = DOMAIN reqs
         /\ reqs' \in Seq(Req) /\ Len(reqs') = Len(reqs)
         /\ reqs'[n].at = at /\ reqs'[n].done = DoneAt /\ reqs'[n].ends = ends
         /\ \A m \in DOMAIN reqs :
              /\ reqs'[m].kind = reqs[m].kind /\ reqs'[m].user = reqs[m].user
              /\ reqs'[m].old = reqs[m].old /\ reqs'[m].effect = reqs[m].effect
              /\ reqs'[m].with = reqs[m].with
              /\ m # n => reqs'[m] = reqs[m]
<1>1. reqs \in Seq(Req) /\ n \in DOMAIN reqs
  BY DEF Typed, OpenRequests
<1>2. DoneAt \in Nat
  <2>1. IsFiniteSet(DOMAIN reqs)
    BY <1>1, FS_Interval
  <2>2. IsFiniteSet({i \in DOMAIN reqs : reqs[i].at # "open"})
    BY <2>1, FS_Subset
  <2> QED BY <2>2, FS_CardinalityType DEF DoneAt
<1> DEFINE new == [reqs[n] EXCEPT !.at = at, !.done = DoneAt, !.ends = ends]
<1>3. reqs[n] \in Req
  BY <1>1
<1>4. /\ new \in Req /\ new.at = at /\ new.done = DoneAt /\ new.ends = ends
      /\ new.kind = reqs[n].kind /\ new.user = reqs[n].user /\ new.old = reqs[n].old
      /\ new.effect = reqs[n].effect /\ new.with = reqs[n].with
  BY <1>2, <1>3 DEF Req
<1>5. reqs' = [reqs EXCEPT ![n] = new]
  BY <1>1, <1>3 DEF Closed, Req
<1> HIDE DEF new
<1> QED BY <1>1, <1>4, <1>5

\* What it means for the others.
LEMMA EndedOthers ==
  ASSUME Typed, NEW n \in OpenRequests, DOMAIN reqs' = DOMAIN reqs,
         reqs'[n].at \in {"done", "failed"},
         \A m \in DOMAIN reqs : /\ reqs'[m].user = reqs[m].user /\ reqs'[m].with = reqs[m].with
                                /\ m # n => reqs'[m] = reqs[m]
  PROVE  /\ n \in DOMAIN reqs /\ ~Done(n) /\ n \notin Seen
         /\ OpenRequests' = OpenRequests \ {n}
         /\ Done(n)' <=> reqs'[n].at = "done"
         /\ \A m \in DOMAIN reqs : /\ m # n => (Done(m)' <=> Done(m))
                                   /\ Overlapped(m) => Overlapped(m)'
                                   /\ \A i \in DOMAIN reqs : Overlap(m, i)' <=> Overlap(m, i)
         /\ \A m \in DOMAIN reqs : Done(n)' /\ reqs[m].user = reqs[n].user /\ Overlap(n, m)
              => Overlapped(m)'
         /\ Seen \subseteq Seen'
         /\ Done(n)' => n \in Seen'
<1>1. n \in DOMAIN reqs /\ reqs[n].at = "open"
  BY DEF OpenRequests
<1>2. n \in Nat \ {0} /\ n # None
  BY <1>1, AccountsAssumption DEF Typed
<1>3. ~Done(n) /\ n \notin Seen
  BY <1>1, <1>2 DEF Seen, Done
<1>4. OpenRequests' = OpenRequests \ {n}
  BY DEF OpenRequests
<1>5. Done(n)' <=> reqs'[n].at = "done"
  BY DEF Done
<1>6. \A m \in DOMAIN reqs : m # n => (Done(m)' <=> Done(m))
  BY DEF Done
<1>7. \A m, i \in DOMAIN reqs : Overlap(m, i)' <=> Overlap(m, i)
  BY DEF Overlap
<1>8. Seen \subseteq Seen'
  BY <1>3, <1>6 DEF Seen
<1>9. ASSUME NEW m \in DOMAIN reqs, Overlapped(m) PROVE Overlapped(m)'
  <2>1. PICK i \in DOMAIN reqs : Done(i) /\ reqs[i].user = reqs[m].user /\ Overlap(i, m)
    BY <1>9 DEF Overlapped
  <2>2. i # n
    BY <2>1, <1>3
  <2>3. i \in DOMAIN reqs' /\ Done(i)' /\ reqs'[i].user = reqs'[m].user /\ Overlap(i, m)'
    BY <2>1, <2>2, <1>6, <1>7
  <2> QED BY <2>3 DEF Overlapped
<1>10. ASSUME NEW m \in DOMAIN reqs, Done(n)', reqs[m].user = reqs[n].user, Overlap(n, m)
       PROVE  Overlapped(m)'
  <2>1. n \in DOMAIN reqs' /\ Done(n)' /\ reqs'[n].user = reqs'[m].user /\ Overlap(n, m)'
    BY <1>1, <1>7, <1>10
  <2> QED BY <2>1 DEF Overlapped
<1>11. Done(n)' => n \in Seen'
  BY <1>1 DEF Seen
<1> QED BY <1>1, <1>3, <1>4, <1>5, <1>6, <1>7, <1>8, <1>9, <1>10, <1>11

\* What a request is.
LEMMA Requested ==
  ASSUME Typed, NEW n \in DOMAIN reqs
  PROVE  /\ n \in Numbers /\ n \in Nat \ {0}
         /\ reqs[n] \in Req /\ reqs[n].kind \in Kinds /\ reqs[n].user \in Users
         /\ reqs[n].at \in {"open", "done", "failed"} /\ reqs[n].old \in Row
         /\ reqs[n].effect \in Effect /\ reqs[n].done \in Nat
         /\ reqs[n].ends \in SUBSET Session
         /\ reqs[n].effect.row \in Row
         /\ reqs[n].effect.clears \in Tables /\ reqs[n].effect.gives \in SUBSET Marinas
         /\ reqs[n].effect.revokes \in SUBSET Marinas
         /\ reqs[n].effect.takes \in TakenCode \union {None}
<1>1. reqs \in Seq(Req) /\ Len(reqs) <= MaxRequests /\ MaxRequests \in Nat
  BY AccountsAssumption DEF Typed, TypeOK
<1>2. reqs[n] \in Req /\ n \in Numbers /\ n \in Nat \ {0}
  BY <1>1 DEF Numbers
<1>3. /\ reqs[n].kind \in Kinds /\ reqs[n].user \in Users
      /\ reqs[n].at \in {"open", "done", "failed"} /\ reqs[n].old \in Row
      /\ reqs[n].effect \in Effect /\ reqs[n].done \in Nat
      /\ reqs[n].ends \in SUBSET Session
  BY <1>2 DEF Req
<1> QED BY <1>2, <1>3 DEF Effect

\* The row that a commit writes.
LEMMA Written ==
  ASSUME Typed, NEW n \in OpenRequests, Commit(n)
  PROVE  LET u == reqs[n].user
             old == reqs[n].old
             new == reqs[n].effect.row
         IN /\ u \in Users /\ old \in Row /\ new \in Row /\ reqs[n].effect \in Effect
            /\ row' \in [Users -> Row] /\ \A v \in Users : v # u => row'[v] = row[v]
            /\ row'[u].role = IF new.role = old.role THEN row[u].role ELSE new.role
            /\ row'[u].active = IF new.active = old.active THEN row[u].active ELSE new.active
            /\ row'[u].secret = IF new.secret = old.secret THEN row[u].secret ELSE new.secret
            /\ row'[u].confirmed =
                 IF new.confirmed = old.confirmed THEN row[u].confirmed ELSE new.confirmed
            /\ row'[u].last_step =
                 IF new.last_step = old.last_step THEN row[u].last_step ELSE new.last_step
            /\ row'[u].failed = IF new.failed = old.failed THEN row[u].failed ELSE new.failed
            /\ row'[u].locked = IF new.locked = old.locked THEN row[u].locked ELSE new.locked
            /\ row'[u].confirmed # None => row'[u].secret # None
            /\ old.role = None => row[u].role = None
<1> DEFINE u == reqs[n].user
           old == reqs[n].old
           new == reqs[n].effect.row
<1>1. reqs[n] \in Req /\ u \in Users /\ old \in Row /\ reqs[n].effect \in Effect
  BY Requested DEF OpenRequests
<1>2. new \in Row /\ row[u] \in Row /\ row \in [Users -> Row]
  BY <1>1 DEF Effect, Typed, TypeOK
<1>3. row' = [row EXCEPT ![u] = After(n)] /\ After(n) = Merge(row[u], old, new)
  BY DEF Commit, After, Request
<1>4. /\ After(n).confirmed # None => After(n).secret # None
      /\ old.role = None => row[u].role = None
  BY DEF Commit, Holds, Request
<1>5. LET m == Merge(row[u], old, new)
      IN /\ m \in Row
         /\ m.role = IF new.role = old.role THEN row[u].role ELSE new.role
         /\ m.active = IF new.active = old.active THEN row[u].active ELSE new.active
         /\ m.secret = IF new.secret = old.secret THEN row[u].secret ELSE new.secret
         /\ m.confirmed = IF new.confirmed = old.confirmed THEN row[u].confirmed ELSE new.confirmed
         /\ m.last_step = IF new.last_step = old.last_step THEN row[u].last_step ELSE new.last_step
         /\ m.failed = IF new.failed = old.failed THEN row[u].failed ELSE new.failed
         /\ m.locked = IF new.locked = old.locked THEN row[u].locked ELSE new.locked
  BY <1>1, <1>2, Merged
<1> DEFINE m == Merge(row[u], old, new)
<1>6. row'[u] = m /\ row' \in [Users -> Row] /\ \A v \in Users : v # u => row'[v] = row[v]
  BY <1>1, <1>2, <1>3, <1>5
<1> HIDE DEF m
<1> QED BY <1>1, <1>2, <1>3, <1>4, <1>5, <1>6 DEF m

\* The other tables after a commit.
LEMMA Stored ==
  ASSUME Typed, NEW n \in OpenRequests, Commit(n)
  PROVE  LET u == reqs[n].user
             e == reqs[n].effect
         IN /\ backup' \in [Users -> SUBSET Code]
            /\ \A v \in Users : v # u => backup'[v] = backup[v]
            /\ \A c \in backup'[u] :
                 \/ c.n = n
                 \/ \E k \in backup[u] : c.n = k.n /\ (k.used => c.used)
                                         /\ (e.takes = BackupCode(u, k.n) => c.used)
            /\ marinas' \in [Users -> SUBSET Access]
            /\ \A v \in Users : v # u => marinas'[v] = marinas[v]
            /\ marinas'[u] = RowsAfter(n)
            /\ \A a, b \in marinas'[u] : a.marina = b.marina => a = b
            /\ links' \subseteq Link
            /\ \A l \in links' :
                 \/ l.n = n /\ l.user = u /\ ~l.used
                 \/ \E k \in links : l.n = k.n /\ l.user = k.user /\ (k.used => l.used)
                                     /\ (e.takes # None /\ e.takes = LinkCode(k) => l.used)
            /\ mfa' \subseteq Users
            /\ \A s \in sessions' : s \in sessions \/ s = [user |-> u, stamp |-> row'[u].confirmed]
            /\ sessions' \subseteq Session
<1> DEFINE u == reqs[n].user
           e == reqs[n].effect
<1>1. reqs[n] \in Req /\ u \in Users /\ e \in Effect /\ n \in DOMAIN reqs
  BY Requested DEF OpenRequests
<1>2. n \in Numbers
  BY <1>1, Requested
<1>3. e.gives \in SUBSET Marinas /\ e.takes \in TakenCode \union {None}
  BY <1>1, Requested
<1>4. /\ marinas' \in [Users -> SUBSET Access]
      /\ \A v \in Users : v # u => marinas'[v] = marinas[v]
      /\ marinas'[u] = RowsAfter(n)
      /\ \A a, b \in marinas'[u] : a.marina = b.marina => a = b
  <2> DEFINE kept == KeptRows(n)
             given == {[marina |-> m, n |-> n] : m \in e.gives}
  <2>1. marinas[u] \in SUBSET Access /\ \A a, b \in marinas[u] : a.marina = b.marina => a = b
    BY <1>1 DEF Typed, TypeOK
  <2>2. kept \subseteq marinas[u]
    BY DEF KeptRows, Request
  <2>3. given \subseteq Access /\ \A a, b \in given : a.marina = b.marina => a = b
    BY <1>2, <1>3 DEF Access
  <2>4. \A a \in kept : a.marina \notin e.gives
    BY DEF Commit, Holds, Request
  <2>5. \A a \in given : a.marina \in e.gives
    OBVIOUS
  <2>6. marinas' = [marinas EXCEPT ![u] = RowsAfter(n)] /\ RowsAfter(n) = kept \union given
    BY DEF Commit, RowsAfter, Request
  <2> HIDE DEF kept, given
  <2>7. RowsAfter(n) \in SUBSET Access
    BY <2>1, <2>2, <2>3, <2>6
  <2>8. \A a, b \in RowsAfter(n) : a.marina = b.marina => a = b
    BY <2>1, <2>2, <2>3, <2>4, <2>5, <2>6
  <2>9. marinas'[u] = RowsAfter(n)
    BY <1>1, <2>6 DEF Typed, TypeOK
  <2> QED BY <1>1, <2>6, <2>7, <2>8, <2>9 DEF Typed, TypeOK
<1>5. backup' = [backup EXCEPT ![u] = BackupAfter(n)]
  BY DEF Commit, Request
<1>6. /\ BackupAfter(n) \in SUBSET Code
      /\ \A c \in BackupAfter(n) :
           \/ c.n = n
           \/ \E k \in backup[u] : c.n = k.n /\ (k.used => c.used)
                                   /\ (e.takes = BackupCode(u, k.n) => c.used)
  <2>1. backup[u] \in SUBSET Code
    BY <1>1 DEF Typed, TypeOK
  <2> DEFINE made == [n |-> n, used |-> FALSE]
  <2>2. made \in Code /\ made.n = n
    BY <1>2 DEF Code
  <2>3. ASSUME NEW c \in BackupAfter(n), c # made
        PROVE  \E k \in backup[u] :
                 c = IF UsesUp(n, BackupCode(u, k.n)) THEN [k EXCEPT !.used = TRUE] ELSE k
    BY <2>3 DEF BackupAfter, Request
  <2>4. ASSUME NEW c \in BackupAfter(n), c # made
        PROVE  /\ c \in Code
               /\ \E k \in backup[u] : c.n = k.n /\ (k.used => c.used)
                                       /\ (e.takes = BackupCode(u, k.n) => c.used)
    <3>1. PICK k \in backup[u] :
            c = IF UsesUp(n, BackupCode(u, k.n)) THEN [k EXCEPT !.used = TRUE] ELSE k
      BY <2>3, <2>4
    <3>2. k \in Code /\ k.n \in Numbers
      BY <2>1 DEF Code
    <3>3. c \in Code /\ c.n = k.n /\ (k.used => c.used)
      BY <3>1, <3>2 DEF Code
    <3>4. ASSUME e.takes = BackupCode(u, k.n) PROVE c.used
      <4>1. BackupCode(u, k.n) \in TakenCode
        BY <1>1, <3>2, AccountsAssumption DEF BackupCode, TakenCode
      <4>2. UsesUp(n, BackupCode(u, k.n))
        BY <3>4, <4>1, TakenIsSome DEF UsesUp, Request
      <4> QED BY <3>1, <3>2, <4>2 DEF Code
    <3> QED BY <3>3, <3>4
  <2> HIDE DEF made
  <2> QED BY <2>2, <2>4
<1>7. /\ backup' \in [Users -> SUBSET Code]
      /\ backup'[u] = BackupAfter(n) /\ \A v \in Users : v # u => backup'[v] = backup[v]
  BY <1>1, <1>5, <1>6 DEF Typed, TypeOK
<1>8. /\ links' \subseteq Link
      /\ \A l \in links' :
           \/ l.n = n /\ l.user = u /\ ~l.used
           \/ \E k \in links : l.n = k.n /\ l.user = k.user /\ (k.used => l.used)
                               /\ (e.takes # None /\ e.takes = LinkCode(k) => l.used)
  <2> DEFINE Ending(k) == UsesUp(n, LinkCode(k)) \/ (k.user = u /\ k.n \in FoundIn(n, "links"))
             made == [n |-> n, user |-> u, used |-> FALSE]
  <2>1. ASSUME NEW l \in links', l # made
        PROVE  \E k \in links : l = IF Ending(k) THEN [k EXCEPT !.used = TRUE] ELSE k
    BY <2>1 DEF Commit, LinksAfter, Request
  <2>2. made \in Link /\ made.n = n /\ made.user = u /\ ~made.used
    BY <1>1, <1>2 DEF Link
  <2>3. ASSUME NEW l \in links', l # made
        PROVE  /\ l \in Link
               /\ \E k \in links : l.n = k.n /\ l.user = k.user /\ (k.used => l.used)
                                   /\ (e.takes # None /\ e.takes = LinkCode(k) => l.used)
    <3>1. PICK k \in links : l = IF Ending(k) THEN [k EXCEPT !.used = TRUE] ELSE k
      BY <2>1, <2>3
    <3>2. k \in Link
      BY DEF Typed, TypeOK
    <3>3. l \in Link /\ l.n = k.n /\ l.user = k.user /\ (k.used => l.used)
      BY <3>1, <3>2 DEF Link
    <3>4. e.takes # None /\ e.takes = LinkCode(k) => l.used
      BY <3>1, <3>2 DEF Link, UsesUp, Request
    <3> QED BY <3>3, <3>4
  <2> HIDE DEF made
  <2> QED BY <2>2, <2>3
<1>9. mfa' \subseteq Users
  BY <1>1 DEF Commit, Request, Typed, TypeOK
<1>10. /\ \A s \in sessions' : s \in sessions \/ s = [user |-> u, stamp |-> row'[u].confirmed]
       /\ sessions' \subseteq Session
  <2>1. row'[u] = After(n) /\ row'[u] \in Row
    BY <1>1, Written DEF Commit, Request, Typed, TypeOK
  <2>2. [user |-> u, stamp |-> After(n).confirmed] \in Session
    BY <1>1, <2>1 DEF Session, Row
  <2>3. sessions' \subseteq sessions \union {[user |-> u, stamp |-> After(n).confirmed]}
    BY DEF Commit, Request
  <2>4. sessions \subseteq Session
    BY DEF Typed, TypeOK, Session
  <2> QED BY <2>1, <2>2, <2>3, <2>4
<1> QED BY <1>4, <1>6, <1>7, <1>8, <1>9, <1>10

(***************************************************************************)
(* The base                                                                *)
(***************************************************************************)

\* The base holds when a request begins: it reads what is there.
LEMMA BaseBegins ==
  ASSUME Base, Begins, cleared' \in Entries
  PROVE  Base'
<1>1. PICK k \in Kinds, u \in Users, e \in Effect :
        Begin(k, u, e) /\ ReadBy(k, u, e) /\ e.row.role # None
  BY DEF Begins
<1>2. Typed
  BY DEF Base
<1> PICK N : N = Next_n
  OBVIOUS
<1>3. /\ N \in Nat \ {0} /\ N \notin DOMAIN reqs /\ DOMAIN reqs' = DOMAIN reqs \union {N}
      /\ reqs' \in Seq(Req) /\ Len(reqs') <= MaxRequests
      /\ \A n \in DOMAIN reqs : reqs'[n] = reqs[n]
      /\ reqs'[N].kind = k /\ reqs'[N].user = u /\ reqs'[N].at = "open"
      /\ reqs'[N].old = row[u] /\ reqs'[N].effect = e /\ reqs'[N].with = OpenRequests
      /\ reqs'[N].ends = {}
      /\ UNCHANGED <<row, marinas, backup, links, mfa, sessions>>
  <2>1. Begin(k, u, e)
    BY <1>1
  <2> QED BY <1>2, <2>1, Begun
<1>4. /\ OpenRequests' = OpenRequests \union {N} /\ ~Done(N)'
      /\ \A n \in DOMAIN reqs : /\ Done(n)' <=> Done(n)
                                /\ Overlapped(n)' <=> Overlapped(n)
                                /\ \A m \in DOMAIN reqs : Overlap(m, n)' <=> Overlap(m, n)
      /\ \A n \in OpenRequests : Overlap(n, N)' /\ Overlap(N, n)'
      /\ Seen' = Seen
  BY <1>2, <1>3, BegunOthers
<1>5. OpenRequests \subseteq DOMAIN reqs
  BY DEF OpenRequests
<1>6. Typed'
  BY <1>2, <1>3 DEF Typed, TypeOK, Entries
<1>7. Unmade'
  BY <1>3 DEF Base, Unmade
<1>8. Pairs'
  BY <1>4, <1>5 DEF Base, Pairs
<1>9. StillSo'
  <2>1. Same(N)'
    BY <1>3 DEF Same
  <2>2. ASSUME NEW n \in OpenRequests PROVE Overlapped(n)' \/ Same(n)'
    <3>1. Overlapped(n) \/ Same(n)
      BY DEF Base, StillSo
    <3>2. Same(n) => Same(n)'
      BY <1>3, <1>5 DEF Same
    <3> QED BY <1>4, <1>5, <3>1, <3>2
  <2> QED BY <1>4, <2>1, <2>2 DEF StillSo
<1>10. AllSeen'
  <2>1. AllSeen
    BY DEF Base
  <2>2. /\ reqs'[N].old.secret \in Seen
        /\ reqs'[N].effect.takes # None => reqs'[N].effect.takes.n \in Seen
    BY <1>1, <1>3, <2>1 DEF AllSeen, ReadBy
  <2>3. /\ \A v \in Users : /\ row'[v].secret \in Seen' /\ row'[v].confirmed \in Seen'
                            /\ \A c \in backup'[v] : c.n \in Seen'
        /\ \A l \in links' : l.n \in Seen'
        /\ \A s \in sessions' : s.stamp \in Seen'
    BY <1>3, <1>4, <2>1 DEF AllSeen
  <2>4. ASSUME NEW n \in DOMAIN reqs'
        PROVE  /\ reqs'[n].old.secret \in Seen'
               /\ reqs'[n].effect.takes # None => reqs'[n].effect.takes.n \in Seen'
               /\ \A s \in reqs'[n].ends : s.stamp \in Seen' /\ s.user = reqs'[n].user
    <3>1. CASE n = N
      BY <1>3, <1>4, <2>2, <3>1
    <3>2. CASE n \in DOMAIN reqs
      BY <1>3, <1>4, <2>1, <3>2 DEF AllSeen
    <3> QED BY <1>3, <3>1, <3>2
  <2> QED BY <2>3, <2>4 DEF AllSeen
<1>11. \A n \in DOMAIN reqs' : Fit(n)'
  <2>1. Fit(N)'
    BY <1>1, <1>3 DEF ReadBy, Fit
  <2>2. ASSUME NEW n \in DOMAIN reqs PROVE Fit(n)'
    BY <1>3, <2>2 DEF Base, Fit
  <2> QED BY <1>3, <2>1, <2>2
<1> QED BY <1>6, <1>7, <1>8, <1>9, <1>10, <1>11 DEF Base

\* The base holds when a request is carried out: who is still open overlaps it.
LEMMA BaseCommits ==
  ASSUME Base, NEW n \in OpenRequests, Commit(n), cleared' \in Entries
  PROVE  Base'
<1> DEFINE u == reqs[n].user
           r == reqs[n]
           old == r.old
           new == r.effect.row
<1>1. Typed /\ n \in DOMAIN reqs
  BY DEF Base, OpenRequests
<1> DEFINE ends == IF r.kind = "reset" THEN {s \in sessions : s.user = u} ELSE {}
<1>2. Closed(n, "done", ends) /\ ends \in SUBSET Session
  BY <1>1 DEF Commit, Request, Typed, TypeOK, Session
<1>3. /\ DOMAIN reqs' = DOMAIN reqs /\ reqs' \in Seq(Req) /\ Len(reqs') = Len(reqs)
      /\ reqs'[n].at = "done" /\ reqs'[n].ends = ends
      /\ \A m \in DOMAIN reqs :
           /\ reqs'[m].kind = reqs[m].kind /\ reqs'[m].user = reqs[m].user
           /\ reqs'[m].old = reqs[m].old /\ reqs'[m].effect = reqs[m].effect
           /\ reqs'[m].with = reqs[m].with
           /\ m # n => reqs'[m] = reqs[m]
  BY <1>1, <1>2, Ended
<1>4. /\ OpenRequests' = OpenRequests \ {n} /\ Done(n)'
      /\ \A m \in DOMAIN reqs : Overlapped(m) => Overlapped(m)'
      /\ \A m, i \in DOMAIN reqs : Overlap(m, i)' <=> Overlap(m, i)
      /\ \A m \in DOMAIN reqs : r'.user = reqs[m].user /\ Overlap(n, m) => Overlapped(m)'
      /\ Seen \subseteq Seen' /\ n \in Seen'
  BY <1>1, <1>3, EndedOthers
<1> HIDE DEF ends
<1>5. /\ u \in Users /\ old \in Row /\ new \in Row /\ r.effect \in Effect
      /\ row' \in [Users -> Row] /\ \A v \in Users : v # u => row'[v] = row[v]
      /\ row'[u].role = IF new.role = old.role THEN row[u].role ELSE new.role
      /\ row'[u].secret = IF new.secret = old.secret THEN row[u].secret ELSE new.secret
      /\ row'[u].confirmed =
           IF new.confirmed = old.confirmed THEN row[u].confirmed ELSE new.confirmed
      /\ row'[u].confirmed # None => row'[u].secret # None
  BY <1>1, Written
<1>6. Fit(n) /\ row'[u].role # None
  BY <1>1, <1>5 DEF Base, Unmade, Fit
<1>7. /\ row'[u].secret \in Seen' /\ row'[u].confirmed \in Seen'
  <2>1. row[u].secret \in Seen' /\ row[u].confirmed \in Seen' /\ None \in Seen'
    BY <1>4, <1>5 DEF Base, AllSeen, Seen
  <2>2. /\ new.secret # old.secret => new.secret \in {n, None}
        /\ new.confirmed # old.confirmed => new.confirmed \in {n, None}
    BY <1>6 DEF Fit, Fits, KeepsFactor
  <2> QED BY <1>4, <1>5, <2>1, <2>2
<1>8. Typed'
  <2>1. \A v \in Users : row'[v].confirmed # None => row'[v].secret # None
    BY <1>1, <1>5 DEF Typed, TypeOK
  <2>2. Len(reqs') <= MaxRequests
    BY <1>1, <1>3 DEF Typed, TypeOK
  <2>3. /\ backup' \in [Users -> SUBSET Code]
        /\ marinas' \in [Users -> SUBSET Access] /\ links' \subseteq Link /\ mfa' \subseteq Users
        /\ sessions' \subseteq Session
    BY <1>1, Stored
  <2>4. \A v \in Users : \A a, b \in marinas'[v] : a.marina = b.marina => a = b
    <3>1. /\ \A v \in Users : v # u => marinas'[v] = marinas[v]
          /\ \A a, b \in marinas'[u] : a.marina = b.marina => a = b
      BY <1>1, Stored
    <3> QED BY <1>1, <1>5, <3>1 DEF Typed, TypeOK
  <2> QED BY <1>3, <1>5, <2>1, <2>2, <2>3, <2>4 DEF Typed, TypeOK, Session, Entries
<1>9. Unmade'
  <2>1. \A v \in Users : v # u => marinas'[v] = marinas[v]
    BY <1>1, Stored
  <2>2. \A v \in Users : row'[v].role = None => row'[v] = NoRow /\ marinas'[v] = {}
    BY <1>5, <1>6, <2>1 DEF Base, Unmade
  <2>3. \A m \in DOMAIN reqs' : reqs'[m].old.role # None => row'[reqs'[m].user].role # None
    <3>1. \A m \in DOMAIN reqs : reqs[m].user \in Users
      BY <1>1, Requested
    <3> QED BY <1>3, <1>5, <1>6, <3>1 DEF Base, Unmade
  <2> QED BY <2>2, <2>3 DEF Unmade
<1>10. Pairs'
  <2>1. OpenRequests \subseteq DOMAIN reqs
    BY DEF OpenRequests
  <2> QED BY <1>4, <2>1 DEF Base, Pairs
<1>11. StillSo'
  <2>1. SUFFICES ASSUME NEW m \in OpenRequests, m # n PROVE Overlapped(m)' \/ Same(m)'
    BY <1>4 DEF StillSo
  <2>2. m \in DOMAIN reqs /\ Overlap(n, m) /\ reqs[m].user \in Users
    BY <1>1, <2>1, Requested DEF Base, Pairs, OpenRequests
  <2>3. CASE reqs[m].user = u
    BY <1>1, <1>3, <1>4, <2>2, <2>3
  <2>4. CASE reqs[m].user # u
    <3>1. Overlapped(m) \/ Same(m)
      BY <2>1 DEF Base, StillSo
    <3>2. Same(m) => Same(m)'
      BY <1>3, <1>5, <2>1, <2>2, <2>4 DEF Same
    <3> QED BY <1>4, <2>2, <3>1, <3>2
  <2> QED BY <2>3, <2>4
<1>12. AllSeen'
  <2>1. AllSeen
    BY DEF Base
  <2>2. \A v \in Users : /\ row'[v].secret \in Seen' /\ row'[v].confirmed \in Seen'
    BY <1>4, <1>5, <1>7, <2>1 DEF AllSeen
  <2>3. ASSUME NEW v \in Users, NEW c \in backup'[v] PROVE c.n \in Seen'
    <3>1. /\ \A w \in Users : w # u => backup'[w] = backup[w]
          /\ \A k \in backup'[u] : k.n = n \/ \E l \in backup[u] : k.n = l.n
      BY <1>1, Stored
    <3> QED BY <1>4, <1>5, <2>1, <2>3, <3>1 DEF AllSeen
  <2>4. ASSUME NEW l \in links' PROVE l.n \in Seen'
    <3>1. l.n = n \/ \E k \in links : l.n = k.n
      BY <1>1, Stored
    <3> QED BY <1>4, <2>1, <3>1 DEF AllSeen
  <2>5. ASSUME NEW s \in sessions' PROVE s.stamp \in Seen'
    <3>1. s \in sessions \/ s = [user |-> u, stamp |-> row'[u].confirmed]
      BY <1>1, Stored
    <3> QED BY <1>4, <1>7, <2>1, <3>1 DEF AllSeen
  <2>6. ASSUME NEW m \in DOMAIN reqs'
        PROVE  /\ reqs'[m].old.secret \in Seen'
               /\ reqs'[m].effect.takes # None => reqs'[m].effect.takes.n \in Seen'
               /\ \A s \in reqs'[m].ends : s.stamp \in Seen' /\ s.user = reqs'[m].user
    <3>1. /\ reqs'[m].old.secret \in Seen'
          /\ reqs'[m].effect.takes # None => reqs'[m].effect.takes.n \in Seen'
      BY <1>3, <1>4, <2>1, <2>6 DEF AllSeen
    <3>2. \A s \in ends : s.stamp \in Seen' /\ s.user = u
      BY <1>4, <2>1 DEF AllSeen, ends
    <3>3. \A s \in reqs'[m].ends : s.stamp \in Seen' /\ s.user = reqs'[m].user
      BY <1>3, <1>4, <2>1, <2>6, <3>2 DEF AllSeen
    <3> QED BY <3>1, <3>3
  <2> QED BY <2>2, <2>3, <2>4, <2>5, <2>6 DEF AllSeen
<1>13. \A m \in DOMAIN reqs' : Fit(m)'
  BY <1>3 DEF Base, Fit
<1> QED BY <1>8, <1>9, <1>10, <1>11, <1>12, <1>13 DEF Base

\* What is so of the requests is so after a step that is not one of theirs.
LEMMA ReqsStay ==
  ASSUME reqs' = reqs
  PROVE  /\ OpenRequests' = OpenRequests /\ Seen' = Seen
         /\ \A n : (Done(n)' <=> Done(n)) /\ (Overlapped(n)' <=> Overlapped(n))
         /\ \A m, n : Overlap(m, n)' <=> Overlap(m, n)
BY DEF OpenRequests, Seen, Done, Overlapped, Overlap

\* The base holds when the database refuses a request.
LEMMA BaseRefused ==
  ASSUME Base, NEW n \in OpenRequests, Refused(n), cleared' \in Entries
  PROVE  Base'
<1>1. Typed /\ n \in DOMAIN reqs
  BY DEF Base, OpenRequests
<1>2. Closed(n, "failed", {}) /\ UNCHANGED <<row, marinas, backup, links, mfa, sessions>>
  BY DEF Refused
<1>3. /\ DOMAIN reqs' = DOMAIN reqs /\ reqs' \in Seq(Req) /\ Len(reqs') = Len(reqs)
      /\ reqs'[n].at = "failed" /\ reqs'[n].ends = {}
      /\ \A m \in DOMAIN reqs :
           /\ reqs'[m].kind = reqs[m].kind /\ reqs'[m].user = reqs[m].user
           /\ reqs'[m].old = reqs[m].old /\ reqs'[m].effect = reqs[m].effect
           /\ reqs'[m].with = reqs[m].with
           /\ m # n => reqs'[m] = reqs[m]
  BY <1>1, <1>2, Ended
<1>4. /\ OpenRequests' = OpenRequests \ {n}
      /\ \A m \in DOMAIN reqs : Overlapped(m) => Overlapped(m)'
      /\ \A m, i \in DOMAIN reqs : Overlap(m, i)' <=> Overlap(m, i)
      /\ Seen \subseteq Seen'
  BY <1>1, <1>3, EndedOthers
<1>5. Typed'
  BY <1>1, <1>2, <1>3 DEF Typed, TypeOK, Entries
<1>6. Unmade'
  BY <1>2, <1>3 DEF Base, Unmade
<1>7. OpenRequests \subseteq DOMAIN reqs
  BY DEF OpenRequests
<1>8. Pairs'
  BY <1>4, <1>7 DEF Base, Pairs
<1>9. StillSo'
  <2>1. SUFFICES ASSUME NEW m \in OpenRequests, m # n PROVE Overlapped(m)' \/ Same(m)'
    BY <1>4 DEF StillSo
  <2>2. Overlapped(m) \/ Same(m)
    BY DEF Base, StillSo
  <2>3. Same(m) => Same(m)'
    BY <1>2, <1>3, <1>7, <2>1 DEF Same
  <2> QED BY <1>4, <1>7, <2>2, <2>3
<1>10. AllSeen'
  <2>1. AllSeen
    BY DEF Base
  <2>2. /\ \A u \in Users : /\ row'[u].secret \in Seen' /\ row'[u].confirmed \in Seen'
                            /\ \A c \in backup'[u] : c.n \in Seen'
        /\ \A l \in links' : l.n \in Seen'
        /\ \A s \in sessions' : s.stamp \in Seen'
    BY <1>2, <1>4, <2>1 DEF AllSeen
  <2>3. ASSUME NEW m \in DOMAIN reqs'
        PROVE  /\ reqs'[m].old.secret \in Seen'
               /\ reqs'[m].effect.takes # None => reqs'[m].effect.takes.n \in Seen'
               /\ \A s \in reqs'[m].ends : s.stamp \in Seen' /\ s.user = reqs'[m].user
    <3>1. /\ reqs'[m].old.secret \in Seen'
          /\ reqs'[m].effect.takes # None => reqs'[m].effect.takes.n \in Seen'
      BY <1>3, <1>4, <2>1, <2>3 DEF AllSeen
    <3>2. \A s \in reqs'[m].ends : s.stamp \in Seen' /\ s.user = reqs'[m].user
      BY <1>3, <1>4, <2>1, <2>3 DEF AllSeen
    <3> QED BY <3>1, <3>2
  <2> QED BY <2>2, <2>3 DEF AllSeen
<1>11. \A m \in DOMAIN reqs' : Fit(m)'
  BY <1>3 DEF Base, Fit
<1> QED BY <1>5, <1>6, <1>8, <1>9, <1>10, <1>11 DEF Base

\* A statement, or nothing, changes no row, token or request.
Idle == UNCHANGED <<row, marinas, backup, links, mfa, sessions, reqs>>

\* The base holds when a token is renewed, a lock or a link runs out.
LEMMA BaseRest ==
  ASSUME Base, Refresh \/ LockEnds \/ LinkExpires \/ Idle, cleared' \in Entries
  PROVE  Base'
<1>1. Typed /\ AllSeen
  BY DEF Base
<1>2. reqs' = reqs
  BY DEF Refresh, LockEnds, LinkExpires, Idle
<1>3. /\ OpenRequests' = OpenRequests /\ Seen' = Seen
      /\ \A n : Overlapped(n)' <=> Overlapped(n)
      /\ \A m, n : Overlap(m, n)' <=> Overlap(m, n)
  BY <1>2, ReqsStay
<1>4. Pairs'
  BY <1>3 DEF Base, Pairs
<1>5. \A n \in DOMAIN reqs' : Fit(n)'
  BY <1>2 DEF Base, Fit
<1>6. ASSUME NEW n \in DOMAIN reqs
      PROVE  reqs[n].user \in Users
  BY <1>1, Requested
<1>7. OpenRequests \subseteq DOMAIN reqs
  BY DEF OpenRequests
<1>8. \A n \in DOMAIN reqs' : /\ reqs'[n].old.secret \in Seen'
                              /\ reqs'[n].effect.takes # None => reqs'[n].effect.takes.n \in Seen'
                              /\ \A s \in reqs'[n].ends : s.stamp \in Seen' /\ s.user = reqs'[n].user
  BY <1>1, <1>2, <1>3 DEF AllSeen
<1>9. CASE LockEnds
  <2>1. PICK u \in Users : /\ row[u].locked /\ row' = [row EXCEPT ![u].locked = FALSE]
                           /\ UNCHANGED <<marinas, backup, links, mfa, sessions, reqs>>
    BY <1>9 DEF LockEnds
  <2>2. /\ row \in [Users -> Row] /\ row[u] \in Row
    BY <1>1 DEF Typed, TypeOK
  <2> DEFINE new == [row[u] EXCEPT !.locked = FALSE]
  <2>3. /\ new \in Row /\ new.role = row[u].role /\ new.active = row[u].active
        /\ new.password = row[u].password /\ new.secret = row[u].secret
        /\ new.confirmed = row[u].confirmed /\ new.last_step = row[u].last_step
        /\ new.failed = row[u].failed /\ ~new.locked
    BY <2>2 DEF Row
  <2>4. row' = [row EXCEPT ![u] = new]
    BY <2>1
  <2> HIDE DEF new
  <2>5. row' \in [Users -> Row] /\ row'[u] = new /\ \A v \in Users : v # u => row'[v] = row[v]
    BY <2>2, <2>3, <2>4
  <2>6. Typed'
    <3>1. \A v \in Users : row'[v].confirmed # None => row'[v].secret # None
      BY <1>1, <2>3, <2>5 DEF Typed, TypeOK
    <3> QED BY <1>1, <2>1, <2>5, <3>1 DEF Typed, TypeOK, Entries
  <2>7. Unmade'
    <3>1. row[u].role # None
      BY <2>1 DEF Base, Unmade, NoRow, NewRow
    <3>2. \A v \in Users : row'[v].role = None => row'[v] = NoRow /\ marinas'[v] = {}
      BY <2>1, <2>3, <2>5, <3>1 DEF Base, Unmade
    <3>3. \A n \in DOMAIN reqs : reqs[n].old.role # None => row'[reqs[n].user].role # None
      BY <1>6, <2>3, <2>5, <3>1 DEF Base, Unmade
    <3> QED BY <2>1, <3>2, <3>3 DEF Unmade
  <2>8. StillSo'
    <3>1. SUFFICES ASSUME NEW n \in OpenRequests PROVE Overlapped(n)' \/ Same(n)'
      BY <1>3 DEF StillSo
    <3>2. Overlapped(n) \/ Same(n)
      BY DEF Base, StillSo
    <3>3. Same(n) => Same(n)'
      <4>1. reqs[n].user \in Users
        BY <1>6, <1>7
      <4>2. CASE reqs[n].user = u
        BY <2>1, <2>3, <2>5, <4>2 DEF Same
      <4>3. CASE reqs[n].user # u
        BY <2>1, <2>5, <4>1, <4>3 DEF Same
      <4> QED BY <4>2, <4>3
    <3> QED BY <1>3, <3>2, <3>3
  <2>9. AllSeen'
    <3>1. /\ \A v \in Users : row'[v].secret \in Seen' /\ row'[v].confirmed \in Seen'
      BY <1>1, <1>3, <2>3, <2>5 DEF AllSeen
    <3>2. /\ \A v \in Users : \A c \in backup'[v] : c.n \in Seen'
          /\ \A l \in links' : l.n \in Seen'
          /\ \A s \in sessions' : s.stamp \in Seen'
      BY <1>1, <1>3, <2>1 DEF AllSeen
    <3> QED BY <1>8, <3>1, <3>2 DEF AllSeen
  <2> QED BY <1>4, <1>5, <2>6, <2>7, <2>8, <2>9 DEF Base
<1>10. CASE row' = row /\ marinas' = marinas /\ backup' = backup /\ mfa' = mfa
  <2>1. Unmade'
    BY <1>2, <1>10 DEF Base, Unmade
  <2>2. StillSo'
    <3>1. SUFFICES ASSUME NEW n \in OpenRequests PROVE Overlapped(n)' \/ Same(n)'
      BY <1>3 DEF StillSo
    <3>2. Overlapped(n) \/ Same(n)
      BY DEF Base, StillSo
    <3>3. Same(n) => Same(n)'
      BY <1>2, <1>10 DEF Same
    <3> QED BY <1>3, <3>2, <3>3
  <2>3. \A u \in Users : /\ row'[u].secret \in Seen' /\ row'[u].confirmed \in Seen'
                         /\ \A c \in backup'[u] : c.n \in Seen'
    BY <1>1, <1>3, <1>10 DEF AllSeen
  <2>4. ASSUME links' \subseteq Link, \A l \in links' : l.n \in Seen',
               sessions' \subseteq Session, \A s \in sessions' : s.stamp \in Seen'
        PROVE  Base'
    <3>1. Typed'
      BY <1>1, <1>2, <1>10, <2>4 DEF Typed, TypeOK, Session, Entries
    <3>2. AllSeen'
      BY <1>8, <2>3, <2>4 DEF AllSeen
    <3> QED BY <1>4, <1>5, <2>1, <2>2, <3>1, <3>2 DEF Base
  <2>5. /\ links \subseteq Link /\ \A l \in links : l.n \in Seen'
        /\ sessions \subseteq Session /\ \A s \in sessions : s.stamp \in Seen'
    BY <1>1, <1>3 DEF AllSeen, Typed, TypeOK, Session
  <2>6. CASE links' = links /\ sessions' = sessions
    BY <2>4, <2>5, <2>6
  <2>7. CASE Refresh
    <3>1. PICK s \in sessions :
            /\ sessions' = sessions \union {[s EXCEPT !.stamp = row[s.user].confirmed]}
            /\ links' = links
      BY <2>7 DEF Refresh
    <3>2. s \in Session /\ s.user \in Users /\ row[s.user].confirmed \in Seen'
          /\ row[s.user].confirmed \in Numbers \union {None}
      <4>1. s \in Session /\ s.user \in Users
        BY <2>5 DEF Session
      <4>2. row[s.user] \in Row
        BY <1>1, <4>1 DEF Typed, TypeOK
      <4> QED BY <1>1, <1>3, <4>1, <4>2 DEF AllSeen, Row
    <3> DEFINE t == [s EXCEPT !.stamp = row[s.user].confirmed]
    <3>3. t \in Session /\ t.stamp \in Seen' /\ sessions' = sessions \union {t}
      BY <3>1, <3>2 DEF Session
    <3> HIDE DEF t
    <3> QED BY <2>4, <2>5, <3>1, <3>3
  <2>8. CASE LinkExpires
    <3>1. PICK l \in links :
            /\ links' = (links \ {l}) \union {[l EXCEPT !.used = TRUE]}
            /\ sessions' = sessions
      BY <2>8 DEF LinkExpires
    <3> DEFINE k == [l EXCEPT !.used = TRUE]
    <3>2. k \in Link /\ k.n \in Seen' /\ links' = (links \ {l}) \union {k}
      BY <2>5, <3>1 DEF Link
    <3> HIDE DEF k
    <3> QED BY <2>4, <2>5, <3>1, <3>2
  <2> QED BY <2>6, <2>7, <2>8, <1>2, <1>9 DEF Idle
<1> QED BY <1>9, <1>10 DEF Refresh, LinkExpires, Idle

\* The rows there are at the beginning.
LEMMA FirstRows ==
  /\ \A role \in Roles :
       /\ NewRow(role) \in Row /\ NewRow(role).role = role
       /\ NewRow(role).secret = None /\ NewRow(role).confirmed = None
       /\ Enrolled(role) \in Row /\ Enrolled(role).role = role
       /\ Enrolled(role).secret = 0 /\ Enrolled(role).confirmed = 0
       /\ Enrolled(role).active
       /\ [NewRow(role) EXCEPT !.password = TRUE] \in Row
       /\ [NewRow(role) EXCEPT !.password = TRUE].role = role
       /\ [NewRow(role) EXCEPT !.password = TRUE].secret = None
       /\ [NewRow(role) EXCEPT !.password = TRUE].confirmed = None
  /\ NoRow \in Row /\ NoRow.role = None /\ NoRow.secret = None /\ NoRow.confirmed = None
<1>1. 0 \in 0 .. MaxStep /\ 0 \in 0 .. THRESHOLD - 1 /\ 0 \in Numbers
  BY AccountsAssumption DEF Numbers
<1>2. ASSUME NEW role \in Roles
      PROVE  /\ NewRow(role) \in Row /\ NewRow(role).role = role
             /\ NewRow(role).secret = None /\ NewRow(role).confirmed = None
             /\ NewRow(role).active
  BY <1>1 DEF NewRow, Row
<1>3. ASSUME NEW role \in Roles
      PROVE  /\ Enrolled(role) \in Row /\ Enrolled(role).role = role
             /\ Enrolled(role).secret = 0 /\ Enrolled(role).confirmed = 0
             /\ Enrolled(role).active
             /\ [NewRow(role) EXCEPT !.password = TRUE] \in Row
             /\ [NewRow(role) EXCEPT !.password = TRUE].role = role
             /\ [NewRow(role) EXCEPT !.password = TRUE].secret = None
             /\ [NewRow(role) EXCEPT !.password = TRUE].confirmed = None
  BY <1>1, <1>2 DEF Enrolled, Row
<1>4. NoRow \in Row /\ NoRow.role = None /\ NoRow.secret = None /\ NoRow.confirmed = None
  BY <1>2 DEF NoRow, Row, Roles
<1> QED BY <1>2, <1>3, <1>4

\* The base holds in the beginning.
LEMMA BaseInit ==
  ASSUME Init
  PROVE  Base
<1>1. PICK start \in {"absent", "invited", "linking", "manager"} :
    LET there == Users \ {Newcomer}
        new == CASE start = "absent" -> [NewRow("admin") EXCEPT !.role = None, !.active = FALSE]
                 [] start = "invited" -> NewRow("marina_manager")
                 [] start = "linking" -> [NewRow("admin") EXCEPT !.password = TRUE]
                 [] start = "manager" -> Enrolled("marina_manager")
        enrolled == IF start = "manager" THEN Users ELSE there
    IN /\ row = [u \in Users |-> IF u = Newcomer THEN new ELSE Enrolled("admin")]
       /\ marinas = [u \in Users |-> IF u = Newcomer /\ start = "manager"
                                     THEN [marina : Marinas, n : {0}] ELSE {}]
       /\ backup = [u \in Users |-> IF u \in enrolled THEN {[n |-> 0, used |-> FALSE]} ELSE {}]
       /\ links = IF start = "invited" THEN {[n |-> 0, user |-> Newcomer, used |-> FALSE]} ELSE {}
       /\ mfa = IF start = "linking" THEN Users ELSE enrolled
       /\ sessions = {[user |-> u, stamp |-> 0] : u \in enrolled}
       /\ reqs = <<>> /\ cleared = [n \in 1 .. MaxRequests |-> {}]
  BY DEF Init
<1> DEFINE new == CASE start = "absent" -> NoRow
                    [] start = "invited" -> NewRow("marina_manager")
                    [] start = "linking" -> [NewRow("admin") EXCEPT !.password = TRUE]
                    [] start = "manager" -> Enrolled("marina_manager")
           enrolled == IF start = "manager" THEN Users ELSE Users \ {Newcomer}
<1>2. /\ row = [u \in Users |-> IF u = Newcomer THEN new ELSE Enrolled("admin")]
      /\ marinas = [u \in Users |-> IF u = Newcomer /\ start = "manager"
                                    THEN [marina : Marinas, n : {0}] ELSE {}]
      /\ backup = [u \in Users |-> IF u \in enrolled THEN {[n |-> 0, used |-> FALSE]} ELSE {}]
      /\ links = IF start = "invited" THEN {[n |-> 0, user |-> Newcomer, used |-> FALSE]} ELSE {}
      /\ mfa = IF start = "linking" THEN Users ELSE enrolled
      /\ sessions = {[user |-> u, stamp |-> 0] : u \in enrolled}
      /\ reqs = <<>> /\ cleared = [n \in 1 .. MaxRequests |-> {}]
  BY <1>1 DEF NoRow
<1>3. /\ new \in Row /\ new.secret \in {None, 0} /\ new.confirmed \in {None, 0}
      /\ new.confirmed # None => new.secret # None
      /\ new.role = None => new = NoRow /\ start # "manager"
  <2>1. "admin" \in Roles /\ "marina_manager" \in Roles /\ None \notin Roles /\ None # 0
    BY AccountsAssumption DEF Roles
  <2>2. CASE start = "absent"
    BY <2>2, FirstRows
  <2>3. CASE start = "invited"
    BY <2>1, <2>3, FirstRows
  <2>4. CASE start = "linking"
    BY <2>1, <2>4, FirstRows
  <2>5. CASE start = "manager"
    BY <2>1, <2>5, FirstRows
  <2> QED BY <2>2, <2>3, <2>4, <2>5
<1> HIDE DEF new
<1>4. /\ Enrolled("admin") \in Row /\ Enrolled("admin").role # None
      /\ Enrolled("admin").secret = 0 /\ Enrolled("admin").confirmed = 0 /\ 0 # None
  BY FirstRows, AccountsAssumption DEF Roles
<1>5. /\ row \in [Users -> Row]
      /\ \A u \in Users : row[u] = new \/ row[u] = Enrolled("admin")
  BY <1>2, <1>3, <1>4
<1>6. enrolled \subseteq Users /\ Newcomer \in Users /\ 0 \in Numbers /\ 0 \in Seen /\ None \in Seen
  BY AccountsAssumption DEF Numbers, Seen
<1> HIDE DEF enrolled
<1> DEFINE first == [n |-> 0, used |-> FALSE]
           invited == [n |-> 0, user |-> Newcomer, used |-> FALSE]
<1>7. first \in Code /\ first.n = 0
      /\ invited \in Link /\ invited.n = 0
  BY <1>6 DEF Link, Code
<1>8. /\ backup \in [Users -> SUBSET Code]
      /\ \A u \in Users : \A c \in backup[u] : c = first
      /\ links \subseteq {invited}
  BY <1>2, <1>7
<1>9. /\ marinas \in [Users -> SUBSET Access]
      /\ \A u \in Users : \A a, b \in marinas[u] : a.marina = b.marina => a = b
      /\ start # "manager" => \A u \in Users : marinas[u] = {}
      /\ \A u \in Users : u # Newcomer => marinas[u] = {}
  <2> DEFINE all == [marina : Marinas, n : {0}]
  <2>1. all \in SUBSET Access /\ \A a, b \in all : a.marina = b.marina => a = b
    BY <1>6 DEF Access
  <2>2. marinas = [u \in Users |-> IF u = Newcomer /\ start = "manager" THEN all ELSE {}]
    BY <1>2
  <2> HIDE DEF all
  <2> QED BY <2>1, <2>2
<1>10. \A s \in sessions : s \in Session /\ s.stamp = 0
  <2>1. ASSUME NEW u \in enrolled
        PROVE  [user |-> u, stamp |-> 0] \in Session /\ [user |-> u, stamp |-> 0].stamp = 0
    BY <1>6 DEF Session
  <2> QED BY <1>2, <2>1
<1>11. mfa \subseteq Users
  BY <1>2, <1>6
<1>12. reqs = <<>> /\ DOMAIN reqs = {} /\ reqs \in Seq(Req) /\ Len(reqs) = 0
  BY <1>2
<1>13. OpenRequests = {}
  BY <1>12 DEF OpenRequests
<1> HIDE DEF first, invited
<1>14. Typed
  <2>1. \A u \in Users : row[u].confirmed # None => row[u].secret # None
    BY <1>3, <1>4, <1>5
  <2>2. sessions \subseteq Session /\ links \subseteq Link
    BY <1>7, <1>8, <1>10
  <2>3. Len(reqs) <= MaxRequests
    BY <1>12, AccountsAssumption
  <2>4. cleared \in Entries
    BY <1>2 DEF Entries
  <2> QED BY <1>5, <1>8, <1>9, <1>11, <1>12, <2>1, <2>2, <2>3, <2>4
     DEF Typed, TypeOK, Session, Entries
<1>15. Unmade
  <2>1. \A u \in Users : row[u].role = None => row[u] = NoRow /\ marinas[u] = {}
    BY <1>3, <1>4, <1>5, <1>9
  <2> QED BY <1>12, <2>1 DEF Unmade
<1>16. Pairs /\ StillSo
  BY <1>13 DEF Pairs, StillSo
<1>17. AllSeen
  <2>1. /\ \A u \in Users : /\ row[u].secret \in Seen /\ row[u].confirmed \in Seen
                            /\ \A c \in backup[u] : c.n \in Seen
    BY <1>3, <1>4, <1>5, <1>6, <1>7, <1>8
  <2>2. \A l \in links : l.n \in Seen
    BY <1>6, <1>7, <1>8
  <2> QED BY <1>6, <1>10, <1>12, <2>1, <2>2 DEF AllSeen
<1> QED BY <1>12, <1>14, <1>15, <1>16, <1>17 DEF Base

\* A step is one of these.
LEMMA StepKind ==
  ASSUME Base, [Next]_vars
  PROVE  \/ Begins
         \/ \E n \in OpenRequests : Commit(n)
         \/ \E n \in OpenRequests : Refused(n)
         \/ Refresh \/ LockEnds \/ LinkExpires \/ Idle
<1>1. CASE \/ BeginLogin \/ BeginVerify \/ BeginStart \/ BeginConfirm \/ BeginRegenerate
           \/ BeginSetup \/ BeginCreate \/ BeginUpdate \/ BeginNewLink \/ BeginReset
           \/ BeginUnlock \/ BeginSetupAdmin \/ BeginGrant \/ BeginRevoke
  BY <1>1, BeginsSome
<1>2. (\E n \in OpenRequests : Statement(n)) \/ UNCHANGED vars => Idle
  BY DEF Statement, vars, Idle
<1> QED BY <1>1, <1>2 DEF Next

\* What a statement finds is numbers of requests.
LEMMA FindsNumbers ==
  ASSUME Typed, NEW n \in OpenRequests, Statement(n)
  PROVE  cleared' \in Entries
<1> DEFINE u == reqs[n].user
           found == TableRows(u, reqs[n].effect.clears)
<1>1. n \in DOMAIN reqs /\ u \in Users /\ reqs[n].effect.clears \in Tables
  BY Requested DEF OpenRequests
<1>2. marinas[u] \in SUBSET Access /\ backup[u] \in SUBSET Code /\ links \subseteq Link
  BY <1>1 DEF Typed, TypeOK
<1>3. {a.n : a \in marinas[u]} \subseteq Numbers
  BY <1>2 DEF Access
<1>4. {c.n : c \in backup[u]} \subseteq Numbers
  BY <1>2 DEF Code
<1>5. {l.n : l \in {k \in links : k.user = u /\ ~k.used}} \subseteq Numbers
  BY <1>2 DEF Link
<1>6. found \in SUBSET Numbers
  BY <1>1, <1>3, <1>4, <1>5 DEF TableRows, Tables
<1>7. cleared \in Entries /\ cleared' = [cleared EXCEPT ![n] = found]
  BY DEF Typed, TypeOK, Entries, Statement
<1> HIDE DEF found
<1> QED BY <1>6, <1>7 DEF Entries

\* What is kept of the statements has its type after every step.
LEMMA EntriesNext ==
  ASSUME Base, [Next]_vars
  PROVE  cleared' \in Entries
<1>1. Typed /\ cleared \in Entries /\ {} \in SUBSET Numbers
  BY DEF Base, Typed, TypeOK, Entries
<1>2. ASSUME NEW n, NEW found \in (SUBSET Numbers) \union {None},
             cleared' = [cleared EXCEPT ![n] = found]
      PROVE  cleared' \in Entries
  BY <1>1, <1>2 DEF Entries
<1>3. CASE Begins
  <2>1. PICK k \in Kinds, u \in Users, e \in Effect : Begin(k, u, e)
    BY <1>3 DEF Begins
  <2> QED BY <1>2, <2>1 DEF Begin
<1>4. CASE \E n \in OpenRequests : Commit(n) \/ Refused(n)
  BY <1>1, <1>2, <1>4 DEF Commit, Refused, Closed
<1>5. CASE \E n \in OpenRequests : Statement(n)
  BY <1>1, <1>5, FindsNumbers
<1>6. CASE Refresh \/ LockEnds \/ LinkExpires \/ UNCHANGED vars
  BY <1>1, <1>6 DEF Refresh, LockEnds, LinkExpires, vars
<1>7. CASE \/ BeginLogin \/ BeginVerify \/ BeginStart \/ BeginConfirm \/ BeginRegenerate
           \/ BeginSetup \/ BeginCreate \/ BeginUpdate \/ BeginNewLink \/ BeginReset
           \/ BeginUnlock \/ BeginSetupAdmin \/ BeginGrant \/ BeginRevoke
  BY <1>3, <1>7, BeginsSome
<1> QED BY <1>4, <1>5, <1>6, <1>7 DEF Next

\* The base holds after every step.
LEMMA BaseNext ==
  ASSUME Base, [Next]_vars
  PROVE  Base'
BY StepKind, EntriesNext, BaseBegins, BaseCommits, BaseRefused, BaseRest

\* What an open request has read is there still unless another has overlapped it, and whatever
\* a request numbers by itself is new when it is written (services/accounts.py).
THEOREM BaseAlways == Spec => []Base
<1>1. Init => Base
  BY BaseInit
<1>2. Base /\ [Next]_vars => Base'
  BY BaseNext
<1> QED BY <1>1, <1>2, PTL DEF Spec

\* Every row, backup code, link, token and request has its type; a confirmed second factor has a
\* secret, as the constraint of table users demands.
THEOREM AccountsTypeCorrect == Spec => []TypeOK
<1>1. Base => TypeOK
  BY DEF Base, Typed
<1> QED BY <1>1, BaseAlways, PTL

(***************************************************************************)
(* What each step does to the requests                                     *)
(***************************************************************************)

\* All that the invariants below need of a request that begins.
LEMMA BeginStep ==
  ASSUME Base, Begins, NEW N, N = Next_n
  PROVE  /\ N \in Nat \ {0} /\ N \notin DOMAIN reqs /\ DOMAIN reqs' = DOMAIN reqs \union {N}
         /\ \A n \in DOMAIN reqs : reqs'[n] = reqs[n]
         /\ reqs'[N].at = "open" /\ reqs'[N].old = row[reqs'[N].user] /\ reqs'[N].ends = {}
         /\ ReadBy(reqs'[N].kind, reqs'[N].user, reqs'[N].effect)
         /\ UNCHANGED <<row, marinas, backup, links, mfa, sessions>>
         /\ OpenRequests' = OpenRequests \union {N} /\ ~Done(N)'
         /\ \A n \in DOMAIN reqs : /\ Done(n)' <=> Done(n)
                                   /\ Overlapped(n)' <=> Overlapped(n)
                                   /\ \A m \in DOMAIN reqs : Overlap(m, n)' <=> Overlap(m, n)
         /\ \A n \in OpenRequests : Overlap(n, N)' /\ Overlap(N, n)'
<1>1. PICK k \in Kinds, u \in Users, e \in Effect : Begin(k, u, e) /\ ReadBy(k, u, e)
  BY DEF Begins
<1>2. Typed
  BY DEF Base
<1>3. /\ N \in Nat \ {0} /\ N \notin DOMAIN reqs /\ DOMAIN reqs' = DOMAIN reqs \union {N}
      /\ reqs' \in Seq(Req) /\ Len(reqs') <= MaxRequests
      /\ \A n \in DOMAIN reqs : reqs'[n] = reqs[n]
      /\ reqs'[N].kind = k /\ reqs'[N].user = u /\ reqs'[N].at = "open"
      /\ reqs'[N].old = row[u] /\ reqs'[N].effect = e /\ reqs'[N].with = OpenRequests
      /\ reqs'[N].ends = {}
      /\ UNCHANGED <<row, marinas, backup, links, mfa, sessions>>
  <2>1. Begin(k, u, e)
    BY <1>1
  <2> QED BY <1>2, <2>1, Begun
<1>4. /\ OpenRequests' = OpenRequests \union {N} /\ ~Done(N)'
      /\ \A n \in DOMAIN reqs : /\ Done(n)' <=> Done(n)
                                /\ Overlapped(n)' <=> Overlapped(n)
                                /\ \A m \in DOMAIN reqs : Overlap(m, n)' <=> Overlap(m, n)
      /\ \A n \in OpenRequests : Overlap(n, N)' /\ Overlap(N, n)'
  BY <1>2, <1>3, BegunOthers
<1> QED BY <1>1, <1>3, <1>4

\* All that they need of one that is carried out.
LEMMA CommitStep ==
  ASSUME Base, NEW c \in OpenRequests, Commit(c)
  PROVE  /\ c \in DOMAIN reqs /\ reqs[c].user \in Users /\ Fit(c)
         /\ ~Done(c) /\ Done(c)' /\ c \notin Seen /\ DOMAIN reqs' = DOMAIN reqs
         /\ OpenRequests' = OpenRequests \ {c} /\ OpenRequests \subseteq DOMAIN reqs
         /\ reqs'[c].done = DoneAt
         /\ reqs'[c].ends = IF reqs[c].kind = "reset" THEN {s \in sessions : s.user = reqs[c].user}
                            ELSE {}
         /\ \A m \in DOMAIN reqs :
              /\ reqs'[m].kind = reqs[m].kind /\ reqs'[m].user = reqs[m].user
              /\ reqs'[m].old = reqs[m].old /\ reqs'[m].effect = reqs[m].effect
              /\ reqs'[m].with = reqs[m].with
              /\ m # c => reqs'[m] = reqs[m] /\ (Done(m)' <=> Done(m))
              /\ Overlapped(m) => Overlapped(m)'
              /\ reqs[m].user = reqs[c].user /\ Overlap(c, m) => Overlapped(m)'
              /\ \A i \in DOMAIN reqs : Overlap(m, i)' <=> Overlap(m, i)
         /\ \A m \in OpenRequests : m # c => Overlap(m, c) /\ Overlap(c, m)
<1>1. Typed /\ c \in DOMAIN reqs /\ OpenRequests \subseteq DOMAIN reqs
  BY DEF Base, OpenRequests
<1>2. reqs[c].user \in Users /\ Fit(c)
  BY <1>1, Requested DEF Base
<1> DEFINE ends == IF reqs[c].kind = "reset" THEN {s \in sessions : s.user = reqs[c].user} ELSE {}
<1>3. Closed(c, "done", ends) /\ ends \in SUBSET Session
  BY <1>1 DEF Commit, Request, Typed, TypeOK, Session
<1>4. /\ DOMAIN reqs' = DOMAIN reqs
      /\ reqs'[c].at = "done" /\ reqs'[c].done = DoneAt /\ reqs'[c].ends = ends
      /\ \A m \in DOMAIN reqs :
           /\ reqs'[m].kind = reqs[m].kind /\ reqs'[m].user = reqs[m].user
           /\ reqs'[m].old = reqs[m].old /\ reqs'[m].effect = reqs[m].effect
           /\ reqs'[m].with = reqs[m].with
           /\ m # c => reqs'[m] = reqs[m]
  BY <1>1, <1>3, Ended
<1> HIDE DEF ends
<1>5. /\ ~Done(c) /\ c \notin Seen /\ OpenRequests' = OpenRequests \ {c} /\ Done(c)'
      /\ \A m \in DOMAIN reqs : m # c => (Done(m)' <=> Done(m))
      /\ \A m \in DOMAIN reqs : Overlapped(m) => Overlapped(m)'
      /\ \A m \in DOMAIN reqs : reqs[m].user = reqs[c].user /\ Overlap(c, m) => Overlapped(m)'
      /\ \A m \in DOMAIN reqs : \A i \in DOMAIN reqs : Overlap(m, i)' <=> Overlap(m, i)
  BY <1>1, <1>4, EndedOthers
<1>6. \A m \in OpenRequests : m # c => Overlap(m, c) /\ Overlap(c, m)
  BY DEF Base, Pairs
<1> QED BY <1>1, <1>2, <1>4, <1>5, <1>6 DEF ends

\* All that they need of one that is refused.
LEMMA RefusedStep ==
  ASSUME Base, NEW c \in OpenRequests, Refused(c)
  PROVE  /\ c \in DOMAIN reqs /\ DOMAIN reqs' = DOMAIN reqs /\ OpenRequests' = OpenRequests \ {c}
         /\ OpenRequests \subseteq DOMAIN reqs
         /\ UNCHANGED <<row, marinas, backup, links, mfa, sessions>>
         /\ reqs'[c].done = DoneAt /\ reqs'[c].ends = {} /\ ~Done(c)
         /\ \A m \in DOMAIN reqs :
              /\ reqs'[m].kind = reqs[m].kind /\ reqs'[m].user = reqs[m].user
              /\ reqs'[m].old = reqs[m].old /\ reqs'[m].effect = reqs[m].effect
              /\ reqs'[m].with = reqs[m].with
              /\ m # c => reqs'[m] = reqs[m]
              /\ Done(m)' <=> Done(m)
              /\ Overlapped(m) => Overlapped(m)'
              /\ \A i \in DOMAIN reqs : Overlap(m, i)' <=> Overlap(m, i)
<1>1. Typed /\ c \in DOMAIN reqs /\ OpenRequests \subseteq DOMAIN reqs
  BY DEF Base, OpenRequests
<1>2. Closed(c, "failed", {}) /\ UNCHANGED <<row, marinas, backup, links, mfa, sessions>>
  BY DEF Refused
<1>3. /\ DOMAIN reqs' = DOMAIN reqs
      /\ reqs'[c].at = "failed" /\ reqs'[c].done = DoneAt /\ reqs'[c].ends = {}
      /\ \A m \in DOMAIN reqs :
           /\ reqs'[m].kind = reqs[m].kind /\ reqs'[m].user = reqs[m].user
           /\ reqs'[m].old = reqs[m].old /\ reqs'[m].effect = reqs[m].effect
           /\ reqs'[m].with = reqs[m].with
           /\ m # c => reqs'[m] = reqs[m]
  BY <1>1, <1>2, Ended
<1>4. /\ ~Done(c) /\ OpenRequests' = OpenRequests \ {c} /\ ~Done(c)'
      /\ \A m \in DOMAIN reqs : m # c => (Done(m)' <=> Done(m))
      /\ \A m \in DOMAIN reqs : Overlapped(m) => Overlapped(m)'
      /\ \A m \in DOMAIN reqs : \A i \in DOMAIN reqs : Overlap(m, i)' <=> Overlap(m, i)
  BY <1>1, <1>3, EndedOthers
<1> QED BY <1>1, <1>2, <1>3, <1>4

\* Two requests overlap each other.
LEMMA OverlapSym == \A m, n : Overlap(m, n) <=> Overlap(n, m)
BY DEF Overlap

\* LockEnds alone touches a row, and only its lock.
LEMMA RestStep ==
  ASSUME Base, Refresh \/ LockEnds \/ LinkExpires \/ Idle
  PROVE  /\ reqs' = reqs /\ UNCHANGED <<marinas, backup>>
         /\ \A u \in Users : /\ row'[u].role = row[u].role /\ row'[u].active = row[u].active
                             /\ row'[u].secret = row[u].secret
                             /\ row'[u].confirmed = row[u].confirmed
                             /\ row'[u].last_step = row[u].last_step
                             /\ row'[u].failed = row[u].failed
                             /\ row'[u].locked => row[u].locked
         /\ \A l \in links' : \E k \in links :
              l.n = k.n /\ l.user = k.user /\ (k.used => l.used)
<1>1. row \in [Users -> Row] /\ links \subseteq Link
  BY DEF Base, Typed, TypeOK
<1>2. CASE LockEnds
  <2>1. PICK u \in Users : row' = [row EXCEPT ![u].locked = FALSE]
                           /\ UNCHANGED <<marinas, backup, links, mfa, sessions, reqs>>
    BY <1>2 DEF LockEnds
  <2>2. row[u] \in Row
    BY <1>1
  <2> DEFINE new == [row[u] EXCEPT !.locked = FALSE]
  <2>3. /\ new.role = row[u].role /\ new.active = row[u].active
        /\ new.secret = row[u].secret
        /\ new.confirmed = row[u].confirmed /\ new.last_step = row[u].last_step
        /\ new.failed = row[u].failed /\ ~new.locked
    BY <2>2 DEF Row
  <2>4. row' = [row EXCEPT ![u] = new]
    BY <2>1
  <2> HIDE DEF new
  <2>5. row'[u] = new /\ \A v \in Users : v # u => row'[v] = row[v]
    BY <1>1, <2>4
  <2>6. ASSUME NEW v \in Users
        PROVE  /\ row'[v].role = row[v].role /\ row'[v].active = row[v].active
               /\ row'[v].secret = row[v].secret /\ row'[v].confirmed = row[v].confirmed
               /\ row'[v].last_step = row[v].last_step /\ row'[v].failed = row[v].failed
               /\ row'[v].locked => row[v].locked
    <3>1. CASE v = u
      BY <2>3, <2>5, <3>1
    <3>2. CASE v # u
      BY <2>5, <3>2
    <3> QED BY <3>1, <3>2
  <2> QED BY <2>1, <2>6
<1>3. CASE LinkExpires
  <2>1. PICK l \in links : links' = (links \ {l}) \union {[l EXCEPT !.used = TRUE]}
                           /\ UNCHANGED <<row, marinas, backup, reqs>>
    BY <1>3 DEF LinkExpires
  <2> DEFINE k == [l EXCEPT !.used = TRUE]
  <2>2. k.n = l.n /\ k.user = l.user /\ k.used /\ links' = (links \ {l}) \union {k}
    BY <1>1, <2>1 DEF Link
  <2> HIDE DEF k
  <2> QED BY <2>1, <2>2
<1>4. CASE Refresh \/ Idle
  BY <1>4 DEF Refresh, Idle
<1> QED BY <1>2, <1>3, <1>4

\* What the properties need of the beginning.
LEMMA Start ==
  ASSUME Init
  PROVE  /\ reqs = <<>> /\ DOMAIN reqs = {} /\ OpenRequests = {} /\ Over = {}
         /\ ActiveAdmins # {}
         /\ \A u \in Users : row[u].confirmed # None => row[u].secret = 0
<1>1. reqs = <<>> /\ DOMAIN reqs = {}
  BY DEF Init
<1>2. OpenRequests = {} /\ Over = {}
  BY <1>1 DEF OpenRequests, Over
<1>3. PICK new \in {NoRow, NewRow("marina_manager"), [NewRow("admin") EXCEPT !.password = TRUE],
                    Enrolled("marina_manager")} :
        row = [u \in Users |-> IF u = Newcomer THEN new ELSE Enrolled("admin")]
  BY DEF Init, NoRow
<1>4. /\ new.confirmed # None => new.secret = 0
      /\ Enrolled("admin").secret = 0 /\ Enrolled("admin").role = "admin"
      /\ Enrolled("admin").active
  <2>1. "admin" \in Roles /\ "marina_manager" \in Roles
    BY DEF Roles
  <2> QED BY <1>3, <2>1, FirstRows
<1>5. PICK u \in Users : u # Newcomer
  BY AccountsAssumption
<1>6. row[u].role = "admin" /\ row[u].active
  BY <1>3, <1>4, <1>5
<1>7. \A v \in Users : row[v].confirmed # None => row[v].secret = 0
  BY <1>3, <1>4
<1> QED BY <1>1, <1>2, <1>6, <1>7 DEF ActiveAdmins

(***************************************************************************)
(* An admin is left                                                        *)
(***************************************************************************)

\* An update begins with another active admin in sight.
LEMMA AdminBegins ==
  ASSUME Base, AdminInv, Begins
  PROVE  AdminInv'
<1> PICK N : N = Next_n
  OBVIOUS
<1>1. /\ N \notin DOMAIN reqs /\ DOMAIN reqs' = DOMAIN reqs \union {N}
      /\ \A n \in DOMAIN reqs : reqs'[n] = reqs[n]
      /\ reqs'[N].old = row[reqs'[N].user]
      /\ ReadBy(reqs'[N].kind, reqs'[N].user, reqs'[N].effect)
      /\ row' = row
      /\ OpenRequests' = OpenRequests \union {N}
      /\ \A n \in DOMAIN reqs : /\ Done(n)' <=> Done(n)
                                /\ \A m \in DOMAIN reqs : Overlap(m, n)' <=> Overlap(m, n)
  BY BeginStep
<1>2. ActiveAdmins' = ActiveAdmins
  BY <1>1 DEF ActiveAdmins
<1>3. \A n \in DOMAIN reqs : IsUpdate(n)' <=> IsUpdate(n)
  BY <1>1 DEF IsUpdate
<1>4. Rivals => Rivals'
  BY <1>1, <1>3 DEF Rivals
<1>5. ASSUME NEW n \in OpenRequests', IsUpdate(n)', ~Rivals
      PROVE  Outrun(n)' \/ AsRead(n)'
  <2>1. CASE n = N
    <3>1. Removes(N)' => ActiveAdmins' \ {reqs'[N].user} # {}
      BY <1>1, <1>2, <1>5, <2>1 DEF ReadBy, Removes, IsUpdate
    <3> QED BY <1>1, <2>1, <3>1 DEF AsRead
  <2>2. CASE n \in OpenRequests
    <3>1. n \in DOMAIN reqs /\ IsUpdate(n)
      BY <1>3, <1>5, <2>2 DEF OpenRequests
    <3>2. Outrun(n) => Outrun(n)'
      BY <1>1, <1>3, <3>1 DEF Outrun
    <3>3. AsRead(n) => AsRead(n)'
      BY <1>1, <1>2, <3>1 DEF AsRead, Removes
    <3> QED BY <1>5, <2>2, <3>1, <3>2, <3>3 DEF AdminInv
  <2> QED BY <1>1, <1>5, <2>1, <2>2
<1> QED BY <1>2, <1>4, <1>5 DEF AdminInv

\* An update takes an admin away: the other it saw is left, or gone by a rival.
LEMMA AdminCommits ==
  ASSUME Base, AdminInv, NEW c \in OpenRequests, Commit(c)
  PROVE  AdminInv'
<1> DEFINE u == reqs[c].user
           old == reqs[c].old
           new == reqs[c].effect.row
<1>1. /\ c \in DOMAIN reqs /\ u \in Users /\ Fit(c)
      /\ ~Done(c) /\ Done(c)' /\ DOMAIN reqs' = DOMAIN reqs
      /\ OpenRequests' = OpenRequests \ {c} /\ OpenRequests \subseteq DOMAIN reqs
      /\ \A m \in DOMAIN reqs :
           /\ reqs'[m].kind = reqs[m].kind /\ reqs'[m].user = reqs[m].user
           /\ reqs'[m].old = reqs[m].old /\ reqs'[m].effect = reqs[m].effect
           /\ m # c => (Done(m)' <=> Done(m))
           /\ \A i \in DOMAIN reqs : Overlap(m, i)' <=> Overlap(m, i)
      /\ \A m \in OpenRequests : m # c => Overlap(m, c) /\ Overlap(c, m)
  BY CommitStep
<1>2. /\ \A v \in Users : v # u => row'[v] = row[v]
      /\ row'[u].role = IF new.role = old.role THEN row[u].role ELSE new.role
      /\ row'[u].active = IF new.active = old.active THEN row[u].active ELSE new.active
      /\ old.role = None => row[u].role = None
  BY Written DEF Base
<1>3. \A n \in DOMAIN reqs : IsUpdate(n)' <=> IsUpdate(n)
  BY <1>1 DEF IsUpdate
<1>4. Rivals => Rivals'
  BY <1>1, <1>3 DEF Rivals
<1>5. \A n \in DOMAIN reqs : Outrun(n) => Outrun(n)'
  BY <1>1, <1>3 DEF Outrun
<1>6. \A v \in Users : v # u => (v \in ActiveAdmins' <=> v \in ActiveAdmins)
  BY <1>2 DEF ActiveAdmins
<1>7. KeepsRole(reqs[c].kind, old, reqs[c].effect)
  BY <1>1 DEF Fit, Fits
<1>8. CASE IsUpdate(c) /\ Outrun(c)
  <2>1. PICK m \in DOMAIN reqs : IsUpdate(m) /\ Done(m) /\ Overlap(m, c)
    BY <1>8 DEF Outrun
  <2>2. Done(m)' /\ IsUpdate(m)' /\ IsUpdate(c)' /\ Overlap(m, c)'
    BY <1>1, <1>3, <1>8, <2>1
  <2> QED BY <1>1, <2>2 DEF AdminInv, Rivals
<1>9. CASE IsUpdate(c) /\ AsRead(c) /\ ActiveAdmins # {}
  <2>1. row'[u].role = new.role /\ row'[u].active = new.active
    BY <1>2, <1>9 DEF AsRead
  <2>2. ActiveAdmins' # {}
    <3>1. CASE Removes(c)
      <4>1. PICK v \in ActiveAdmins : v # u
        BY <1>9, <3>1 DEF AsRead
      <4>2. v \in ActiveAdmins'
        BY <1>6, <4>1 DEF ActiveAdmins
      <4> QED BY <4>2
    <3>2. CASE ~Removes(c)
      <4>1. PICK v \in ActiveAdmins : TRUE
        BY <1>9
      <4>2. v \in Users /\ row[v].role = "admin" /\ row[v].active
        BY <4>1 DEF ActiveAdmins
      <4>3. v \in ActiveAdmins'
        BY <1>1, <1>6, <1>9, <2>1, <3>2, <4>1, <4>2 DEF AsRead, Removes, ActiveAdmins
      <4> QED BY <4>3
    <3> QED BY <3>1, <3>2
  <2>3. ASSUME NEW n \in OpenRequests' PROVE Outrun(n)'
    <3>1. n \in OpenRequests /\ n # c
      BY <1>1
    <3>2. IsUpdate(c)' /\ Done(c)' /\ Overlap(c, n)'
      BY <1>1, <1>3, <1>9, <3>1
    <3> QED BY <1>1, <3>2 DEF Outrun
  <2> QED BY <2>2, <2>3 DEF AdminInv
<1>10. CASE ~IsUpdate(c) /\ ActiveAdmins # {}
            /\ \A n \in OpenRequests : IsUpdate(n) => Outrun(n) \/ AsRead(n)
  <2>1. \/ row'[u].role = row[u].role /\ row'[u].active = row[u].active
        \/ row[u].role = None /\ u \notin ActiveAdmins
    BY <1>2, <1>7, <1>10, AccountsAssumption DEF KeepsRole, IsUpdate, ActiveAdmins, Roles
  <2>2. ActiveAdmins \subseteq ActiveAdmins'
    BY <1>2, <1>6, <2>1 DEF ActiveAdmins
  <2>3. ASSUME NEW n \in OpenRequests', IsUpdate(n)' PROVE Outrun(n)' \/ AsRead(n)'
    <3>1. n \in OpenRequests /\ n \in DOMAIN reqs /\ IsUpdate(n) /\ reqs[n].user \in Users
      BY <1>1, <1>3, <2>3, Requested DEF Base
    <3>2. CASE Outrun(n)
      BY <1>5, <3>1, <3>2
    <3>3. CASE AsRead(n)
      <4>1. reqs[n].old.role # None
        BY <3>1 DEF Base, Fit, Fits, KeepsRole, IsUpdate
      <4>2. /\ row'[reqs[n].user].role = row[reqs[n].user].role
            /\ row'[reqs[n].user].active = row[reqs[n].user].active
        BY <1>2, <2>1, <3>1, <3>3, <4>1 DEF AsRead
      <4> QED BY <1>1, <2>2, <3>1, <3>3, <4>2 DEF AsRead, Removes
    <3> QED BY <1>10, <3>1, <3>2, <3>3
  <2> QED BY <1>10, <2>2, <2>3 DEF AdminInv
<1> QED BY <1>4, <1>8, <1>9, <1>10 DEF AdminInv

\* Nothing is written: the admins stay.
LEMMA AdminRefused ==
  ASSUME Base, AdminInv, NEW c \in OpenRequests, Refused(c)
  PROVE  AdminInv'
<1>1. /\ c \in DOMAIN reqs /\ DOMAIN reqs' = DOMAIN reqs /\ OpenRequests' = OpenRequests \ {c}
      /\ OpenRequests \subseteq DOMAIN reqs
      /\ row' = row
      /\ \A m \in DOMAIN reqs :
           /\ reqs'[m].kind = reqs[m].kind /\ reqs'[m].user = reqs[m].user
           /\ reqs'[m].old = reqs[m].old /\ reqs'[m].effect = reqs[m].effect
           /\ Done(m)' <=> Done(m)
           /\ \A i \in DOMAIN reqs : Overlap(m, i)' <=> Overlap(m, i)
  BY RefusedStep
<1>2. ActiveAdmins' = ActiveAdmins
  BY <1>1 DEF ActiveAdmins
<1>3. \A n \in DOMAIN reqs : IsUpdate(n)' <=> IsUpdate(n)
  BY <1>1 DEF IsUpdate
<1>4. Rivals => Rivals'
  BY <1>1, <1>3 DEF Rivals
<1>5. \A n \in DOMAIN reqs : (Outrun(n) => Outrun(n)') /\ (AsRead(n) => AsRead(n)')
  BY <1>1, <1>2, <1>3 DEF Outrun, AsRead, Removes
<1> QED BY <1>1, <1>2, <1>3, <1>4, <1>5 DEF AdminInv

\* No other step touches a role.
LEMMA AdminRest ==
  ASSUME Base, AdminInv, Refresh \/ LockEnds \/ LinkExpires \/ Idle
  PROVE  AdminInv'
<1>1. /\ reqs' = reqs
      /\ \A u \in Users : row'[u].role = row[u].role /\ row'[u].active = row[u].active
  BY RestStep
<1>2. /\ OpenRequests' = OpenRequests /\ \A n : (Done(n)' <=> Done(n))
      /\ \A m, n : Overlap(m, n)' <=> Overlap(m, n)
  BY <1>1, ReqsStay
<1>3. ActiveAdmins' = ActiveAdmins
  BY <1>1 DEF ActiveAdmins
<1>4. \A n : IsUpdate(n)' <=> IsUpdate(n)
  BY <1>1 DEF IsUpdate
<1>5. Rivals => Rivals'
  BY <1>1, <1>2, <1>4 DEF Rivals
<1>6. ASSUME NEW n \in OpenRequests
      PROVE  (Outrun(n) => Outrun(n)') /\ (AsRead(n) => AsRead(n)')
  <2>1. reqs[n].user \in Users
    BY Requested DEF Base, OpenRequests
  <2> QED BY <1>1, <1>2, <1>3, <1>4, <2>1 DEF Outrun, AsRead, Removes
<1> QED BY <1>2, <1>3, <1>4, <1>5, <1>6 DEF AdminInv

\* An active admin is left (the check of users.py:96), unless two removals, each of which saw
\* the other's admin, were in progress together.
THEOREM AdminAlwaysLeft == Spec => []AdminLeft
<1>1. Init => AdminInv
  BY Start DEF AdminInv
<1>2. Base /\ AdminInv /\ [Next]_vars => AdminInv'
  BY StepKind, AdminBegins, AdminCommits, AdminRefused, AdminRest
<1>3. AdminInv => AdminLeft
  BY DEF AdminInv, AdminLeft, Rivals, IsUpdate
<1> QED BY <1>1, <1>2, <1>3, BaseAlways, PTL DEF Spec

(***************************************************************************)
(* A confirmed phone has given its code                                    *)
(***************************************************************************)

\* Who begins has read the factor that is there.
LEMMA ConfirmBegins ==
  ASSUME Base, ConfirmInv, Begins
  PROVE  ConfirmInv'
<1> PICK N : N = Next_n
  OBVIOUS
<1>1. /\ N \notin DOMAIN reqs /\ DOMAIN reqs' = DOMAIN reqs \union {N}
      /\ \A n \in DOMAIN reqs : reqs'[n] = reqs[n]
      /\ reqs'[N].old = row[reqs'[N].user]
      /\ row' = row
      /\ OpenRequests' = OpenRequests \union {N} /\ OpenRequests \subseteq DOMAIN reqs
      /\ \A n \in DOMAIN reqs : /\ Done(n)' <=> Done(n)
                                /\ Overlapped(n)' <=> Overlapped(n)
                                /\ \A m \in DOMAIN reqs : Overlap(m, n)' <=> Overlap(m, n)
  BY BeginStep DEF OpenRequests
<1>2. \A m \in DOMAIN reqs : \A u : Confirms(m, u)' <=> Confirms(m, u)
  BY <1>1 DEF Confirms
<1>3. ASSUME NEW u \in Users PROVE Confirmed(u)'
  <2>1. Confirmed(u)
    BY DEF ConfirmInv
  <2> QED BY <1>1, <1>2, <2>1 DEF Confirmed
<1>4. ASSUME NEW n \in OpenRequests', Late(n)' PROVE Warned(n)'
  <2>1. n \in OpenRequests /\ n \in DOMAIN reqs
    BY <1>1, <1>4 DEF Late
  <2>2. Late(n)
    BY <1>1, <1>4, <2>1 DEF Late
  <2>3. Warned(n)
    BY <2>1, <2>2 DEF ConfirmInv
  <2> QED BY <1>1, <1>2, <2>1, <2>3 DEF Warned
<1> QED BY <1>3, <1>4 DEF ConfirmInv

\* Only a confirmation writes a factor, and the others that are open overlap it.
LEMMA ConfirmCommits ==
  ASSUME Base, ConfirmInv, NEW c \in OpenRequests, Commit(c)
  PROVE  ConfirmInv'
<1>0. PICK u \in Users : u = reqs[c].user
  BY CommitStep
<1> DEFINE old == reqs[c].old
           new == reqs[c].effect.row
           k == reqs[c].kind
<1>1. /\ c \in DOMAIN reqs /\ u \in Users /\ Fit(c)
      /\ ~Done(c) /\ Done(c)' /\ DOMAIN reqs' = DOMAIN reqs
      /\ OpenRequests' = OpenRequests \ {c} /\ OpenRequests \subseteq DOMAIN reqs
      /\ \A m \in DOMAIN reqs :
           /\ reqs'[m].kind = reqs[m].kind /\ reqs'[m].user = reqs[m].user
           /\ reqs'[m].old = reqs[m].old /\ reqs'[m].effect = reqs[m].effect
           /\ m # c => (Done(m)' <=> Done(m))
           /\ Overlapped(m) => Overlapped(m)'
           /\ reqs[m].user = reqs[c].user /\ Overlap(c, m) => Overlapped(m)'
           /\ \A i \in DOMAIN reqs : Overlap(m, i)' <=> Overlap(m, i)
      /\ \A m \in OpenRequests : m # c => Overlap(m, c) /\ Overlap(c, m)
  BY <1>0, CommitStep
<1>2. /\ \A v \in Users : v # u => row'[v] = row[v]
      /\ row'[u].secret = IF new.secret = old.secret THEN row[u].secret ELSE new.secret
      /\ row'[u].confirmed =
           IF new.confirmed = old.confirmed THEN row[u].confirmed ELSE new.confirmed
      /\ row'[u].confirmed # None => row'[u].secret # None
  BY <1>0, Written DEF Base
<1>3. \A m \in DOMAIN reqs : \A v : Confirms(m, v) => Confirms(m, v)'
  BY <1>1 DEF Confirms
<1>4. KeepsFactor(c, k, old, reqs[c].effect)
  BY <1>1 DEF Fit, Fits
<1>5. ASSUME NEW v \in Users, row'[v].secret = row[v].secret, row'[v].confirmed = row[v].confirmed
      PROVE  Confirmed(v)'
  <2>1. Confirmed(v)
    BY DEF ConfirmInv
  <2> QED BY <1>1, <1>3, <1>5, <2>1 DEF Confirmed
<1>6. Confirmed(u)'
  <2>1. CASE k = "confirm" /\ new.confirmed # old.confirmed
    <3>1. /\ new.secret = old.secret /\ reqs[c].effect.opens
          /\ reqs[c].effect.takes.n = old.secret
      BY <1>4, <2>1 DEF KeepsFactor
    <3>2. Confirms(c, u)'
      BY <1>0, <1>1, <2>1, <3>1 DEF Confirms
    <3>3. reqs[c].effect.takes.n = row'[u].secret \/ Overlapped(c)
      BY <1>0, <1>2, <3>1 DEF Base, StillSo, Same
    <3>4. reqs'[c].effect.takes.n = row'[u].secret \/ Overlapped(c)'
      BY <1>1, <3>3
    <3> QED BY <1>1, <3>2, <3>4 DEF Confirmed
  <2>2. CASE k = "start"
    <3>1. SUFFICES ASSUME row'[u].confirmed # None PROVE Confirmed(u)'
      BY DEF Confirmed
    <3>2. new.confirmed = old.confirmed /\ old.confirmed = None
      BY <1>4, <2>2 DEF KeepsFactor
    <3>3. Late(c)
      BY <1>0, <1>2, <3>1, <3>2 DEF Late
    <3>4. PICK m \in DOMAIN reqs : Confirms(m, u) /\ Overlap(m, c)
      BY <1>0, <3>3 DEF ConfirmInv, Warned
    <3>5. Overlapped(m)' /\ Confirms(m, u)'
      BY <1>0, <1>1, <1>3, <3>4, OverlapSym DEF Confirms
    <3> QED BY <1>1, <3>5 DEF Confirmed
  <2>3. CASE k = "reset"
    <3>1. CASE row'[u].confirmed = None
      BY <3>1 DEF Confirmed
    <3>2. CASE row'[u].confirmed # None
      <4>1. new.secret = None /\ new.confirmed = None
        BY <1>4, <2>3 DEF KeepsFactor
      <4>2. row'[u].confirmed = row[u].confirmed /\ row'[u].secret = row[u].secret
        BY <1>2, <3>2, <4>1
      <4> QED BY <1>1, <1>5, <4>2
    <3> QED BY <3>1, <3>2
  <2>4. CASE /\ ~(k = "confirm" /\ new.confirmed # old.confirmed)
             /\ k # "start" /\ k # "reset"
    <3>1. new.confirmed = old.confirmed /\ new.secret = old.secret
      BY <1>4, <2>4 DEF KeepsFactor
    <3> QED BY <1>1, <1>2, <1>5, <3>1
  <2> QED BY <2>1, <2>2, <2>3, <2>4
<1>7. ASSUME NEW v \in Users PROVE Confirmed(v)'
  BY <1>2, <1>5, <1>6
<1>8. ASSUME NEW n \in OpenRequests', Late(n)' PROVE Warned(n)'
  <2>1. n \in OpenRequests /\ n # c /\ n \in DOMAIN reqs /\ reqs[n].user \in Users
    BY <1>1, Requested DEF Base
  <2>2. CASE Late(n)
    <3>1. Warned(n)
      BY <2>1, <2>2 DEF ConfirmInv
    <3> QED BY <1>1, <1>3, <2>1, <3>1 DEF Warned
  <2>3. CASE ~Late(n)
    <3>1. row'[reqs[n].user].confirmed # None /\ row[reqs[n].user].confirmed = None
      BY <1>1, <1>8, <2>1, <2>3 DEF Late
    <3>2. reqs[n].user = u /\ new.confirmed # old.confirmed /\ new.confirmed # None
      BY <1>2, <2>1, <3>1
    <3>3. k = "confirm" /\ reqs[c].effect.opens
      BY <1>4, <3>2 DEF KeepsFactor
    <3>4. Confirms(c, u)' /\ Overlap(c, n)'
      BY <1>0, <1>1, <2>1, <3>3 DEF Confirms
    <3> QED BY <1>1, <2>1, <3>2, <3>4 DEF Warned
  <2> QED BY <2>2, <2>3
<1> QED BY <1>7, <1>8 DEF ConfirmInv

\* Nothing is written: the factors stay.
LEMMA ConfirmRefused ==
  ASSUME Base, ConfirmInv, NEW c \in OpenRequests, Refused(c)
  PROVE  ConfirmInv'
<1>1. /\ DOMAIN reqs' = DOMAIN reqs /\ OpenRequests' = OpenRequests \ {c}
      /\ OpenRequests \subseteq DOMAIN reqs
      /\ row' = row
      /\ \A m \in DOMAIN reqs :
           /\ reqs'[m].kind = reqs[m].kind /\ reqs'[m].user = reqs[m].user
           /\ reqs'[m].old = reqs[m].old /\ reqs'[m].effect = reqs[m].effect
           /\ Done(m)' <=> Done(m)
           /\ Overlapped(m) => Overlapped(m)'
           /\ \A i \in DOMAIN reqs : Overlap(m, i)' <=> Overlap(m, i)
  BY RefusedStep
<1>2. \A m \in DOMAIN reqs : \A u : Confirms(m, u)' <=> Confirms(m, u)
  BY <1>1 DEF Confirms
<1>3. ASSUME NEW u \in Users PROVE Confirmed(u)'
  <2>1. Confirmed(u)
    BY DEF ConfirmInv
  <2> QED BY <1>1, <1>2, <2>1 DEF Confirmed
<1>4. ASSUME NEW n \in OpenRequests', Late(n)' PROVE Warned(n)'
  <2>1. n \in OpenRequests /\ n \in DOMAIN reqs /\ Late(n)
    BY <1>1, <1>4 DEF Late
  <2>2. Warned(n)
    BY <2>1 DEF ConfirmInv
  <2> QED BY <1>1, <1>2, <2>1, <2>2 DEF Warned
<1> QED BY <1>3, <1>4 DEF ConfirmInv

\* No other step touches a factor.
LEMMA ConfirmRest ==
  ASSUME Base, ConfirmInv, Refresh \/ LockEnds \/ LinkExpires \/ Idle
  PROVE  ConfirmInv'
<1>1. /\ reqs' = reqs
      /\ \A u \in Users : row'[u].secret = row[u].secret /\ row'[u].confirmed = row[u].confirmed
  BY RestStep
<1>2. /\ OpenRequests' = OpenRequests
      /\ \A n : (Done(n)' <=> Done(n)) /\ (Overlapped(n)' <=> Overlapped(n))
      /\ \A m, n : Overlap(m, n)' <=> Overlap(m, n)
  BY <1>1, ReqsStay
<1>3. \A m, u : Confirms(m, u)' <=> Confirms(m, u)
  BY <1>1, <1>2 DEF Confirms
<1>4. ASSUME NEW u \in Users PROVE Confirmed(u)'
  <2>1. Confirmed(u)
    BY DEF ConfirmInv
  <2> QED BY <1>1, <1>2, <1>3, <2>1 DEF Confirmed
<1>5. ASSUME NEW n \in OpenRequests', Late(n)' PROVE Warned(n)'
  <2>1. n \in OpenRequests /\ reqs[n].user \in Users
    BY <1>2, Requested DEF Base, OpenRequests
  <2>2. Late(n)
    BY <1>1, <1>5, <2>1 DEF Late
  <2>3. Warned(n)
    BY <2>1, <2>2 DEF ConfirmInv
  <2> QED BY <1>1, <1>2, <1>3, <2>3 DEF Warned
<1> QED BY <1>4, <1>5 DEF ConfirmInv

\* The second factor is confirmed only for a secret whose code was given
\* (accounts.py:137), unless another request about the user overlapped the confirmation.
THEOREM PhoneAlwaysConfirms == Spec => []ConfirmedByPhone
<1>1. Init => ConfirmInv
  BY Start DEF ConfirmInv, Confirmed
<1>2. Base /\ ConfirmInv /\ [Next]_vars => ConfirmInv'
  BY StepKind, ConfirmBegins, ConfirmCommits, ConfirmRefused, ConfirmRest
<1>3. ConfirmInv => ConfirmedByPhone
  BY DEF ConfirmInv, ConfirmedByPhone, Confirmed, Confirms
<1> QED BY <1>1, <1>2, <1>3, BaseAlways, PTL DEF Spec

(***************************************************************************)
(* A reset ends the sessions                                               *)
(***************************************************************************)

\* A factor that is written later has a number no ended session has seen.
LEMMA EndsNext ==
  ASSUME Base, EndsInv, [Next]_vars
  PROVE  EndsInv'
<1>1. \A n \in DOMAIN reqs : \A s \in reqs[n].ends :
        s.stamp \in Seen /\ s.user = reqs[n].user /\ s.user \in Users
  BY Requested DEF Base, AllSeen
<1>2. CASE Begins
  <2> PICK N : N = Next_n
    OBVIOUS
  <2>1. /\ DOMAIN reqs' = DOMAIN reqs \union {N} /\ \A n \in DOMAIN reqs : reqs'[n] = reqs[n]
        /\ reqs'[N].ends = {} /\ row' = row
        /\ \A n \in DOMAIN reqs : Overlapped(n)' <=> Overlapped(n)
    BY <1>2, BeginStep
  <2> QED BY <2>1 DEF EndsInv
<1>3. ASSUME NEW c \in OpenRequests, Commit(c)
      PROVE  EndsInv'
  <2>1. PICK u \in Users : u = reqs[c].user
    BY <1>3, CommitStep
  <2> DEFINE old == reqs[c].old
             new == reqs[c].effect.row
  <2>2. /\ c \in DOMAIN reqs /\ Fit(c) /\ c \notin Seen /\ DOMAIN reqs' = DOMAIN reqs
        /\ reqs'[c].ends = IF reqs[c].kind = "reset" THEN {s \in sessions : s.user = u} ELSE {}
        /\ \A m \in DOMAIN reqs : /\ m # c => reqs'[m] = reqs[m]
                                  /\ Overlapped(m) => Overlapped(m)'
    BY <1>3, <2>1, CommitStep
  <2>3. /\ \A v \in Users : v # u => row'[v] = row[v]
        /\ row'[u].confirmed =
             IF new.confirmed = old.confirmed THEN row[u].confirmed ELSE new.confirmed
    BY <1>3, <2>1, Written DEF Base
  <2>4. KeepsFactor(c, reqs[c].kind, old, reqs[c].effect)
    BY <2>2 DEF Fit, Fits
  <2>5. ASSUME NEW n \in DOMAIN reqs, n # c, NEW s \in reqs[n].ends,
               row'[s.user].confirmed # None, row'[s.user].confirmed = s.stamp
        PROVE  Overlapped(n)'
    <3>1. s.stamp \in Seen /\ s.user \in Users /\ s.stamp # c
      BY <1>1, <2>2
    <3>2. row'[s.user].confirmed = row[s.user].confirmed
      BY <2>3, <2>4, <2>5, <3>1 DEF KeepsFactor
    <3> QED BY <2>2, <2>5, <3>2 DEF EndsInv
  <2>6. ASSUME NEW s \in reqs'[c].ends,
               row'[s.user].confirmed # None, row'[s.user].confirmed = s.stamp
        PROVE  Overlapped(c)'
    <3>1. reqs[c].kind = "reset" /\ s.user = u
      BY <2>2
    <3>2. new.confirmed = None
      BY <2>4, <3>1 DEF KeepsFactor
    <3>3. old.confirmed = None /\ row[u].confirmed # None
      BY <2>3, <2>6, <3>1, <3>2
    <3>4. Overlapped(c)
      BY <2>1, <3>3 DEF Base, StillSo, Same
    <3> QED BY <2>2, <3>4
  <2> QED BY <2>2, <2>5, <2>6 DEF EndsInv
<1>4. ASSUME NEW c \in OpenRequests, Refused(c)
      PROVE  EndsInv'
  <2>1. /\ DOMAIN reqs' = DOMAIN reqs /\ row' = row /\ reqs'[c].ends = {}
        /\ \A m \in DOMAIN reqs : /\ m # c => reqs'[m] = reqs[m]
                                  /\ Overlapped(m) => Overlapped(m)'
    BY <1>4, RefusedStep
  <2> QED BY <2>1 DEF EndsInv
<1>5. CASE Refresh \/ LockEnds \/ LinkExpires \/ Idle
  <2>1. reqs' = reqs /\ \A u \in Users : row'[u].confirmed = row[u].confirmed
    BY <1>5, RestStep
  <2>2. \A n : Overlapped(n)' <=> Overlapped(n)
    BY <2>1, ReqsStay
  <2> QED BY <1>1, <2>1, <2>2 DEF EndsInv
<1> QED BY <1>2, <1>3, <1>4, <1>5, StepKind

\* A reset of the second factor ends the sessions there were for good, also once the user has
\* enrolled again, unless it overlapped another request about that user.
THEOREM SessionsAlwaysEnd == Spec => []SessionsEnd
<1>1. Init => EndsInv
  BY Start DEF EndsInv
<1>2. Base /\ EndsInv /\ [Next]_vars => EndsInv'
  BY EndsNext
<1>3. EndsInv => SessionsEnd
  BY DEF EndsInv, SessionsEnd, TokenMatches
<1> QED BY <1>1, <1>2, <1>3, BaseAlways, PTL DEF Spec

(***************************************************************************)
(* The order in which requests end                                         *)
(***************************************************************************)

\* DoneAt is a number no request that is over has.
LEMMA Later ==
  ASSUME Typed, InOrder
  PROVE  /\ IsFiniteSet(Over) /\ Cardinality(Over) \in Nat /\ DoneAt = Cardinality(Over) + 1
         /\ \A n \in DOMAIN reqs : Done(n) => reqs[n].done < DoneAt /\ reqs[n].done \in Nat
<1>1. IsFiniteSet(DOMAIN reqs)
  BY FS_Interval DEF Typed
<1>2. IsFiniteSet(Over)
  BY <1>1, FS_Subset DEF Over
<1>3. Cardinality(Over) \in Nat /\ DoneAt = Cardinality(Over) + 1
  BY <1>2, FS_CardinalityType DEF Over, DoneAt
<1>4. ASSUME NEW n \in DOMAIN reqs, Done(n)
      PROVE  reqs[n].done < DoneAt /\ reqs[n].done \in Nat
  <2>1. n \in Over /\ reqs[n].done \in Nat
    BY <1>4, Requested DEF Over, Done
  <2> QED BY <1>3, <2>1 DEF InOrder
<1> QED BY <1>2, <1>3, <1>4

\* Who ends gets the next number.
LEMMA OrderNext ==
  ASSUME Base, InOrder, [Next]_vars
  PROVE  InOrder'
<1>1. Typed
  BY DEF Base
<1>2. ASSUME DOMAIN reqs \subseteq DOMAIN reqs', Over' = Over,
             \A n \in DOMAIN reqs : reqs'[n] = reqs[n]
      PROVE  InOrder'
  BY <1>2 DEF InOrder, Over
<1>3. ASSUME NEW c \in OpenRequests, DOMAIN reqs' = DOMAIN reqs, reqs'[c].done = DoneAt,
             reqs'[c].at # "open", \A m \in DOMAIN reqs : m # c => reqs'[m] = reqs[m]
      PROVE  InOrder'
  <2>1. Over' = Over \union {c} /\ c \notin Over
    BY <1>3 DEF Over, OpenRequests
  <2>2. /\ IsFiniteSet(Over) /\ Cardinality(Over) \in Nat /\ DoneAt = Cardinality(Over) + 1
    BY <1>1, Later
  <2>3. Cardinality(Over') = Cardinality(Over) + 1
    BY <2>1, <2>2, FS_AddElement
  <2>4. ASSUME NEW n \in Over' PROVE reqs'[n].done <= Cardinality(Over')
    <3>1. CASE n = c
      BY <1>3, <2>2, <2>3, <3>1
    <3>2. CASE n # c
      <4>1. n \in Over /\ n \in DOMAIN reqs /\ reqs'[n] = reqs[n] /\ reqs[n].done \in Nat
        BY <1>1, <1>3, <2>1, <3>2, Requested DEF Over
      <4>2. reqs[n].done <= Cardinality(Over)
        BY <4>1 DEF InOrder
      <4> QED BY <2>2, <2>3, <4>1, <4>2
    <3> QED BY <3>1, <3>2
  <2> QED BY <2>4 DEF InOrder
<1>4. CASE Begins
  <2> PICK N : N = Next_n
    OBVIOUS
  <2>1. /\ DOMAIN reqs' = DOMAIN reqs \union {N} /\ \A n \in DOMAIN reqs : reqs'[n] = reqs[n]
        /\ reqs'[N].at = "open" /\ N \notin DOMAIN reqs
    BY <1>4, BeginStep
  <2>2. Over' = Over
    BY <2>1 DEF Over
  <2> QED BY <1>2, <2>1, <2>2
<1>5. ASSUME NEW c \in OpenRequests, Commit(c)
      PROVE  InOrder'
  <2>1. /\ DOMAIN reqs' = DOMAIN reqs /\ reqs'[c].done = DoneAt /\ Done(c)'
        /\ \A m \in DOMAIN reqs : m # c => reqs'[m] = reqs[m]
    BY <1>5, CommitStep
  <2>2. reqs'[c].at # "open"
    BY <2>1 DEF Done
  <2> QED BY <1>3, <2>1, <2>2
<1>6. ASSUME NEW c \in OpenRequests, Refused(c)
      PROVE  InOrder'
  <2>1. /\ DOMAIN reqs' = DOMAIN reqs /\ reqs'[c].done = DoneAt
        /\ \A m \in DOMAIN reqs : m # c => reqs'[m] = reqs[m]
        /\ c \in DOMAIN reqs /\ OpenRequests' = OpenRequests \ {c}
    BY <1>6, RefusedStep
  <2>2. reqs'[c].at # "open"
    BY <2>1 DEF OpenRequests
  <2> QED BY <1>3, <2>1, <2>2
<1>7. CASE Refresh \/ LockEnds \/ LinkExpires \/ Idle
  <2>1. reqs' = reqs
    BY <1>7, RestStep
  <2> QED BY <2>1 DEF InOrder, Over
<1> QED BY <1>4, <1>5, <1>6, <1>7, StepKind

\* A request that ends is given a number greater than any before it.
THEOREM OrderAlways == Spec => []InOrder
<1>1. Init => InOrder
  BY Start DEF InOrder
<1>2. Base /\ InOrder /\ [Next]_vars => InOrder'
  BY OrderNext
<1> QED BY <1>1, <1>2, BaseAlways, PTL DEF Spec

(***************************************************************************)
(* What is taken away does not come back                                   *)
(***************************************************************************)

\* Who begins after another has begun, and before it is over, is in progress together with it.
LEMMA AccessBegins ==
  ASSUME Base, AccessInv, Begins
  PROVE  AccessInv'
<1>1. PICK k \in Kinds, u \in Users, e \in Effect : Begin(k, u, e) /\ ReadBy(k, u, e)
  BY DEF Begins
<1>2. Typed /\ cleared \in Entries
  BY DEF Base, Typed, TypeOK, Entries
<1> PICK N : N = Next_n
  OBVIOUS
<1>3. /\ N \in Nat \ {0} /\ N \notin DOMAIN reqs /\ DOMAIN reqs' = DOMAIN reqs \union {N}
      /\ reqs' \in Seq(Req) /\ Len(reqs') <= MaxRequests
      /\ \A n \in DOMAIN reqs : reqs'[n] = reqs[n]
      /\ reqs'[N].kind = k /\ reqs'[N].user = u /\ reqs'[N].at = "open"
      /\ reqs'[N].old = row[u] /\ reqs'[N].effect = e /\ reqs'[N].with = OpenRequests
      /\ reqs'[N].ends = {}
      /\ UNCHANGED <<row, marinas, backup, links, mfa, sessions>>
  <2>1. Begin(k, u, e)
    BY <1>1
  <2> QED BY <1>2, <2>1, Begun
<1>4. /\ OpenRequests' = OpenRequests \union {N} /\ ~Done(N)'
      /\ \A n \in DOMAIN reqs : Done(n)' <=> Done(n)
  BY <1>2, <1>3, BegunOthers
<1>5. /\ \A n \in DOMAIN reqs : n < N /\ n \in Nat
      /\ N \in 1 .. MaxRequests
  <2>1. reqs \in Seq(Req) /\ Len(reqs) < MaxRequests /\ MaxRequests \in Nat
    BY <1>1, <1>2, AccountsAssumption DEF Typed, Begin
  <2> QED BY <2>1 DEF Next_n
<1>6. cleared' = [cleared EXCEPT ![N] = IF e.clears = "nothing" THEN {} ELSE None]
  BY <1>1 DEF Begin
<1>7. Ordered'
  <2>1. SUFFICES ASSUME NEW m \in OpenRequests', NEW n \in DOMAIN reqs', n > m
                 PROVE  m \in reqs'[n].with
    BY DEF Ordered
  <2>2. OpenRequests \subseteq DOMAIN reqs
    BY DEF OpenRequests
  <2>3. m # N
    BY <1>3, <1>5, <2>1
  <2>4. m \in OpenRequests
    BY <1>4, <2>3
  <2>5. CASE n = N
    BY <1>3, <2>4, <2>5
  <2>6. CASE n # N
    BY <1>3, <2>1, <2>4, <2>6 DEF AccessInv, Ordered
  <2> QED BY <2>5, <2>6
<1>8. ASSUME NEW n \in DOMAIN reqs' PROVE Gone(n)'
  <2>1. CASE n = N
    <3>1. SUFFICES ASSUME Promotes(N)' PROVE cleared'[N] = None
      BY <1>4, <2>1 DEF Gone
    <3>2. KeepsAccess(k, e)
      BY <1>1 DEF ReadBy, Fits
    <3>3. e.clears = "rows"
      BY <1>3, <3>1, <3>2 DEF Promotes, IsUpdate, KeepsAccess
    <3> QED BY <1>2, <1>5, <1>6, <3>3 DEF Entries
  <2>2. CASE n # N
    <3>1. n \in DOMAIN reqs /\ reqs'[n] = reqs[n] /\ cleared'[n] = cleared[n]
      BY <1>2, <1>3, <1>6, <2>2 DEF Entries
    <3>2. Gone(n)
      BY <3>1 DEF AccessInv
    <3> QED BY <1>3, <1>4, <2>2, <3>1, <3>2 DEF Gone, Promotes, IsUpdate, Excused
  <2> QED BY <2>1, <2>2
<1> QED BY <1>7, <1>8 DEF AccessInv

\* What a commit leaves, its statement has not found; what it gives has its own number.
LEMMA AccessCommits ==
  ASSUME Base, AccessInv, NEW c \in OpenRequests, Commit(c)
  PROVE  AccessInv'
<1>1. PICK u \in Users : u = reqs[c].user
  BY CommitStep
<1> DEFINE e == reqs[c].effect
<1>2. /\ c \in DOMAIN reqs /\ Fit(c) /\ DOMAIN reqs' = DOMAIN reqs
      /\ OpenRequests' = OpenRequests \ {c}
      /\ \A m \in DOMAIN reqs :
           /\ reqs'[m].kind = reqs[m].kind /\ reqs'[m].user = reqs[m].user
           /\ reqs'[m].effect = reqs[m].effect /\ reqs'[m].with = reqs[m].with
           /\ m # c => (Done(m)' <=> Done(m))
  BY CommitStep
<1>3. /\ \A v \in Users : v # u => marinas'[v] = marinas[v]
      /\ marinas'[u] = RowsAfter(c)
  BY <1>1, Stored DEF Base
<1>4. KeepsAccess(reqs[c].kind, e)
  BY <1>2 DEF Fit, Fits
<1>5. cleared \in Entries /\ cleared[c] # None /\ cleared' = [cleared EXCEPT ![c] = {}]
  BY DEF Base, Typed, TypeOK, Entries, Commit, Closed
<1>6. \A n \in DOMAIN reqs : reqs[n].user \in Users /\ n \in Nat
  BY Requested DEF Base
<1>7. \A a \in marinas'[u] : (a \in marinas[u] /\ a.n \notin FoundIn(c, "rows")) \/ a.n = c
  BY <1>1, <1>3 DEF RowsAfter, KeptRows, Request
<1>8. Ordered'
  BY <1>2 DEF AccessInv, Ordered
<1>9. ASSUME NEW n \in DOMAIN reqs PROVE Gone(n)'
  <2>1. Gone(n) /\ (Promotes(n)' <=> Promotes(n)) /\ \A a : Excused(n, a)' <=> Excused(n, a)
    BY <1>2 DEF AccessInv, Promotes, IsUpdate, Excused
  <2>2. CASE n = c
    <3>1. SUFFICES ASSUME Promotes(c), NEW a \in marinas'[u] PROVE Excused(c, a)
      BY <1>1, <1>2, <2>1, <2>2 DEF Gone
    <3>2. FoundIn(c, "rows") = cleared[c]
      BY <1>4, <3>1 DEF FoundIn, Request, KeepsAccess, Promotes, IsUpdate
    <3>3. a.n = c => Excused(c, a)
      BY <1>2, <1>6 DEF Excused
    <3>4. \A b \in marinas[u] : b.n \in cleared[c] \/ Excused(c, b)
      BY <1>1, <1>5, <2>1, <2>2, <3>1 DEF Gone
    <3> QED BY <1>7, <3>2, <3>3, <3>4
  <2>3. CASE n # c
    <3>1. cleared'[n] = cleared[n] /\ (Done(n)' <=> Done(n))
          /\ (n \in OpenRequests' <=> n \in OpenRequests)
      BY <1>2, <1>5, <2>3 DEF Entries
    <3>2. CASE reqs[n].user # u
      BY <1>2, <1>3, <1>6, <2>1, <3>1, <3>2 DEF Gone
    <3>3. CASE reqs[n].user = u
      <4>1. ASSUME NEW a \in marinas'[u] PROVE a \in marinas[u] \/ Excused(n, a)
        <5>1. n > c => c \in reqs[n].with
          BY DEF AccessInv, Ordered
        <5>2. a.n = c => Excused(n, a)
          BY <1>2, <1>6, <5>1 DEF Excused
        <5> QED BY <1>7, <5>2
      <4> QED BY <1>2, <2>1, <3>1, <3>3, <4>1 DEF Gone
    <3> QED BY <3>2, <3>3
  <2> QED BY <2>2, <2>3
<1> QED BY <1>2, <1>8, <1>9 DEF AccessInv

\* No other step inserts a row.
LEMMA AccessRest ==
  ASSUME Base, AccessInv,
         \/ \E c \in OpenRequests : Refused(c) \/ Statement(c)
         \/ Refresh \/ LockEnds \/ LinkExpires \/ UNCHANGED vars
  PROVE  AccessInv'
<1>0. cleared \in Entries
  BY DEF Base, Typed, TypeOK, Entries
<1>1. ASSUME NEW c \in OpenRequests, Refused(c) PROVE AccessInv'
  <2>1. /\ c \in DOMAIN reqs /\ DOMAIN reqs' = DOMAIN reqs /\ OpenRequests' = OpenRequests \ {c}
        /\ marinas' = marinas /\ ~Done(c)
        /\ \A m \in DOMAIN reqs :
             /\ reqs'[m].kind = reqs[m].kind /\ reqs'[m].user = reqs[m].user
             /\ reqs'[m].effect = reqs[m].effect /\ reqs'[m].with = reqs[m].with
             /\ Done(m)' <=> Done(m)
    BY <1>1, RefusedStep
  <2>2. \A n \in DOMAIN reqs : n # c => cleared'[n] = cleared[n]
    <3>1. cleared' = [cleared EXCEPT ![c] = {}]
      BY <1>1 DEF Refused, Closed
    <3> QED BY <1>0, <3>1 DEF Entries
  <2>3. Ordered'
    BY <2>1 DEF AccessInv, Ordered
  <2>4. \A n \in DOMAIN reqs : Gone(n)'
    BY <2>1, <2>2 DEF AccessInv, Gone, Promotes, IsUpdate, Excused
  <2> QED BY <2>1, <2>3, <2>4 DEF AccessInv
<1>2. ASSUME NEW c \in OpenRequests, Statement(c) PROVE AccessInv'
  <2>1. reqs' = reqs /\ marinas' = marinas
        /\ cleared' = [cleared EXCEPT ![c] = TableRows(reqs[c].user, reqs[c].effect.clears)]
    BY <1>2 DEF Statement
  <2>2. OpenRequests' = OpenRequests /\ \A n : Done(n)' <=> Done(n)
    BY <2>1, ReqsStay
  <2>3. Ordered'
    BY <2>1, <2>2 DEF AccessInv, Ordered
  <2>4. ASSUME NEW n \in DOMAIN reqs PROVE Gone(n)'
    <3>1. Gone(n)
      BY DEF AccessInv
    <3>2. CASE n # c
      <4>1. cleared'[n] = cleared[n]
        BY <1>0, <2>1, <3>2 DEF Entries
      <4> QED BY <2>1, <2>2, <3>1, <4>1 DEF Gone, Promotes, IsUpdate, Excused
    <3>3. CASE n = c
      <4>1. SUFFICES ASSUME Promotes(c), NEW a \in marinas[reqs[c].user], ~Done(c)
                     PROVE  a.n \in cleared'[c]
        BY <2>1, <2>2, <3>1, <3>3 DEF Gone, Promotes, IsUpdate, Excused
      <4>2. reqs[c].effect.clears = "rows"
        <5>1. c \in DOMAIN reqs
          BY DEF OpenRequests
        <5>2. KeepsAccess(reqs[c].kind, reqs[c].effect)
          BY <5>1 DEF Base, Fit, Fits
        <5> QED BY <4>1, <5>2 DEF KeepsAccess, Promotes, IsUpdate
      <4>3. c \in 1 .. MaxRequests
        <5>1. reqs \in Seq(Req) /\ Len(reqs) <= MaxRequests /\ MaxRequests \in Nat
          BY AccountsAssumption DEF Base, Typed, TypeOK
        <5> QED BY <5>1 DEF OpenRequests
      <4>4. cleared'[c] = {b.n : b \in marinas[reqs[c].user]}
        BY <1>0, <2>1, <4>2, <4>3 DEF TableRows, Entries
      <4> QED BY <4>1, <4>4
    <3> QED BY <3>2, <3>3
  <2> QED BY <2>1, <2>3, <2>4 DEF AccessInv
<1>3. CASE Refresh \/ LockEnds \/ LinkExpires \/ UNCHANGED vars
  <2>1. reqs' = reqs /\ marinas' = marinas /\ cleared' = cleared
    BY <1>3 DEF Refresh, LockEnds, LinkExpires, vars
  <2>2. OpenRequests' = OpenRequests /\ \A n : Done(n)' <=> Done(n)
    BY <2>1, ReqsStay
  <2> QED BY <2>1, <2>2 DEF AccessInv, Ordered, Gone, Promotes, IsUpdate, Excused
<1> QED BY <1>1, <1>2, <1>3

\* The rows of an admin stay deleted after every step.
LEMMA AccessNext ==
  ASSUME Base, AccessInv, [Next]_vars
  PROVE  AccessInv'
<1>1. CASE \/ BeginLogin \/ BeginVerify \/ BeginStart \/ BeginConfirm \/ BeginRegenerate
           \/ BeginSetup \/ BeginCreate \/ BeginUpdate \/ BeginNewLink \/ BeginReset
           \/ BeginUnlock \/ BeginSetupAdmin \/ BeginGrant \/ BeginRevoke
  BY <1>1, BeginsSome, AccessBegins
<1> QED BY <1>1, AccessCommits, AccessRest DEF Next

\* An update that leaves a user an admin ends the access there was when it began, for ever: its
\* DELETE finds what is committed at its statement (routers/users.py:111), and only a request in
\* progress together with it, or a later one, inserts a row that it has not found.
THEOREM NothingEverRevived == Spec => []NothingRevived
<1>1. Init => AccessInv
  BY Start DEF AccessInv, Ordered
<1>2. Base /\ AccessInv /\ [Next]_vars => AccessInv'
  BY AccessNext
<1>3. AccessInv => NothingRevived
  BY DEF AccessInv, Gone, Promotes, Excused, NothingRevived, IsUpdate
<1> QED BY <1>1, <1>2, <1>3, BaseAlways, PTL DEF Spec

(***************************************************************************)
(* Guesses are bounded                                                     *)
(***************************************************************************)

\* There are finitely many, and they are requests that were carried out.
LEMMA GuessesFinite ==
  ASSUME Typed, NEW u
  PROVE  /\ IsFiniteSet(Guesses(u)) /\ Cardinality(Guesses(u)) \in Nat
         /\ \A n \in Guesses(u) : n \in DOMAIN reqs /\ Done(n) /\ reqs[n].user = u /\ Guess(n)
<1>1. IsFiniteSet(DOMAIN reqs)
  BY FS_Interval DEF Typed
<1>2. Guesses(u) \subseteq DOMAIN reqs
  BY DEF Guesses
<1>3. IsFiniteSet(Guesses(u))
  BY <1>1, <1>2, FS_Subset
<1> QED BY <1>3, FS_CardinalityType DEF Guesses

\* They stay the same when no request about the user is carried out.
LEMMA SameGuesses ==
  ASSUME NEW u, DOMAIN reqs \subseteq DOMAIN reqs',
         \A n \in DOMAIN reqs' : Done(n)' /\ reqs'[n].user = u
                                   => n \in DOMAIN reqs /\ Done(n) /\ reqs'[n] = reqs[n],
         \A n \in DOMAIN reqs : Done(n) /\ reqs[n].user = u => Done(n)' /\ reqs'[n] = reqs[n]
  PROVE  Guesses(u)' = Guesses(u)
<1>1. \A n \in DOMAIN reqs : Done(n) /\ reqs[n].user = u =>
        (Guess(n)' <=> Guess(n)) /\ (Clears(n)' <=> Clears(n))
  BY DEF Guess, Clears
<1> QED BY <1>1 DEF Guesses

\* Who begins has read a lock only if no failure is counted.
LEMMA GuessBegins ==
  ASSUME Base, GuessInv, Begins
  PROVE  GuessInv'
<1> PICK N : N = Next_n
  OBVIOUS
<1>1. /\ N \notin DOMAIN reqs /\ DOMAIN reqs' = DOMAIN reqs \union {N}
      /\ \A n \in DOMAIN reqs : reqs'[n] = reqs[n]
      /\ reqs'[N].old = row[reqs'[N].user] /\ row' = row
      /\ OpenRequests' = OpenRequests \union {N} /\ ~Done(N)' /\ OpenRequests \subseteq DOMAIN reqs
      /\ \A n \in DOMAIN reqs : /\ Done(n)' <=> Done(n)
                                /\ Overlapped(n)' <=> Overlapped(n)
                                /\ \A m \in DOMAIN reqs : Overlap(m, n)' <=> Overlap(m, n)
  BY BeginStep DEF OpenRequests
<1>2. SUFFICES ASSUME NEW u \in Users PROVE Blurred(u)' \/ Counted(u)'
  BY DEF GuessInv
<1>3. Guesses(u)' = Guesses(u)
  BY <1>1, SameGuesses
<1>4. \A g \in Guesses(u) : g \in DOMAIN reqs
  BY DEF Guesses
<1>5. Blurred(u) => Blurred(u)'
  BY <1>1, <1>3, <1>4 DEF Blurred
<1>6. ASSUME Counted(u) PROVE Counted(u)'
  <2>1. ASSUME NEW n \in OpenRequests', reqs'[n].user = u, reqs'[n].old.locked,
               NEW g \in Guesses(u)
        PROVE  Overlap(g, n)'
    <3>1. n # N
      BY <1>1, <1>6, <2>1 DEF Counted
    <3>2. n \in OpenRequests /\ n \in DOMAIN reqs /\ reqs'[n] = reqs[n]
      BY <1>1, <2>1, <3>1
    <3> QED BY <1>1, <1>4, <1>6, <2>1, <3>2 DEF Counted
  <2> QED BY <1>1, <1>3, <1>6, <2>1 DEF Counted
<1> QED BY <1>5, <1>6 DEF GuessInv

\* A commit that clears leaves no guess; one that is a guess adds itself; any other adds none.
LEMMA GuessesAfter ==
  ASSUME Base, InOrder, NEW c \in OpenRequests, Commit(c), NEW u \in Users, u = reqs[c].user
  PROVE  /\ Clears(c) => Guesses(u)' = {}
         /\ ~Clears(c) /\ Guess(c) => Guesses(u)' = Guesses(u) \union {c}
         /\ ~Clears(c) /\ ~Guess(c) => Guesses(u)' = Guesses(u)
<1>1. /\ c \in DOMAIN reqs /\ ~Done(c) /\ Done(c)' /\ DOMAIN reqs' = DOMAIN reqs
      /\ reqs'[c].done = DoneAt
      /\ \A m \in DOMAIN reqs :
           /\ reqs'[m].kind = reqs[m].kind /\ reqs'[m].user = reqs[m].user
           /\ reqs'[m].old = reqs[m].old /\ reqs'[m].effect = reqs[m].effect
           /\ m # c => reqs'[m] = reqs[m] /\ (Done(m)' <=> Done(m))
  BY CommitStep
<1>2. \A m \in DOMAIN reqs : (Guess(m)' <=> Guess(m)) /\ (Clears(m)' <=> Clears(m))
  BY <1>1 DEF Guess, Clears
<1>3. /\ DoneAt \in Nat
      /\ \A m \in DOMAIN reqs : Done(m) => reqs[m].done < DoneAt /\ reqs[m].done \in Nat
  BY Later DEF Base
<1>4. \A m \in DOMAIN reqs : Done(m)' => reqs'[m].done <= DoneAt
  BY <1>1, <1>3
<1>5. ASSUME Clears(c) PROVE Guesses(u)' = {}
  BY <1>1, <1>2, <1>3, <1>4, <1>5 DEF Guesses
<1>6. ASSUME ~Clears(c), NEW n \in DOMAIN reqs, n # c
      PROVE  n \in Guesses(u)' <=> n \in Guesses(u)
  <2>1. /\ Done(n)' <=> Done(n)
        /\ reqs'[n] = reqs[n]
    BY <1>1, <1>6
  <2>2. (\E m \in DOMAIN reqs' : Done(m)' /\ reqs'[m].user = u /\ Clears(m)'
                                  /\ reqs'[m].done >= reqs'[n].done)
        <=> (\E m \in DOMAIN reqs : Done(m) /\ reqs[m].user = u /\ Clears(m)
                                     /\ reqs[m].done >= reqs[n].done)
    BY <1>1, <1>2, <1>6, <2>1
  <2> QED BY <1>1, <1>2, <1>6, <2>1, <2>2 DEF Guesses
<1>7. ASSUME ~Clears(c) PROVE c \in Guesses(u)' <=> Guess(c)
  <2>1. ~ \E m \in DOMAIN reqs' : Done(m)' /\ reqs'[m].user = u /\ Clears(m)'
                                   /\ reqs'[m].done >= reqs'[c].done
    BY <1>1, <1>2, <1>3, <1>7
  <2> QED BY <1>1, <1>2, <1>7, <2>1 DEF Guesses
<1>8. c \notin Guesses(u) /\ Guesses(u) \subseteq DOMAIN reqs /\ Guesses(u)' \subseteq DOMAIN reqs
  BY <1>1 DEF Guesses
<1>9. ASSUME ~Clears(c), Guess(c) PROVE Guesses(u)' = Guesses(u) \union {c}
  BY <1>1, <1>6, <1>7, <1>8, <1>9
<1>10. ASSUME ~Clears(c), ~Guess(c) PROVE Guesses(u)' = Guesses(u)
  <2>1. c \notin Guesses(u)' /\ c \notin Guesses(u)
    BY <1>7, <1>8, <1>10
  <2>2. \A n \in DOMAIN reqs \ {c} : n \in Guesses(u)' <=> n \in Guesses(u)
    BY <1>6, <1>10
  <2>3. Guesses(u)' \subseteq DOMAIN reqs \ {c} /\ Guesses(u) \subseteq DOMAIN reqs \ {c}
    BY <1>8, <2>1
  <2> QED BY <2>2, <2>3
<1> QED BY <1>5, <1>9, <1>10

\* A failure adds one to the row unless it overlapped; a lock or a success forgets.
LEMMA GuessCommits ==
  ASSUME Base, InOrder, GuessInv, NEW c \in OpenRequests, Commit(c)
  PROVE  GuessInv'
<1>0. PICK u \in Users : u = reqs[c].user
  BY CommitStep
<1> DEFINE old == reqs[c].old
           new == reqs[c].effect.row
           k == reqs[c].kind
<1>1. /\ c \in DOMAIN reqs /\ Fit(c)
      /\ ~Done(c) /\ Done(c)' /\ DOMAIN reqs' = DOMAIN reqs
      /\ OpenRequests' = OpenRequests \ {c} /\ OpenRequests \subseteq DOMAIN reqs
      /\ \A m \in DOMAIN reqs :
           /\ reqs'[m].kind = reqs[m].kind /\ reqs'[m].user = reqs[m].user
           /\ reqs'[m].old = reqs[m].old /\ reqs'[m].effect = reqs[m].effect
           /\ m # c => reqs'[m] = reqs[m] /\ (Done(m)' <=> Done(m))
           /\ Overlapped(m) => Overlapped(m)'
           /\ reqs[m].user = u /\ Overlap(c, m) => Overlapped(m)'
           /\ \A i \in DOMAIN reqs : Overlap(m, i)' <=> Overlap(m, i)
      /\ \A m \in OpenRequests : m # c => Overlap(m, c) /\ Overlap(c, m)
  BY <1>0, CommitStep
<1>2. /\ old \in Row /\ new \in Row /\ row' \in [Users -> Row]
      /\ \A v \in Users : v # u => row'[v] = row[v]
      /\ row'[u].failed = IF new.failed = old.failed THEN row[u].failed ELSE new.failed
      /\ row'[u].locked = IF new.locked = old.locked THEN row[u].locked ELSE new.locked
  BY <1>0, Written DEF Base
<1>3. /\ row[u].failed \in Nat /\ row'[u].failed \in Nat /\ old.failed \in Nat /\ new.failed \in Nat
  <2>1. \A r \in Row : r.failed \in Nat
    BY AccountsAssumption DEF Row
  <2>2. row[u] \in Row /\ row'[u] \in Row
    BY <1>0, <1>2 DEF Base, Typed, TypeOK
  <2> HIDE DEF old, new
  <2> QED BY <1>2, <2>1, <2>2
<1>4. /\ KeepsCount(k, old, reqs[c].effect)
      /\ Guess(c) <=> Guessed(k, old, reqs[c].effect)
      /\ Clears(c) <=> Cleared(k, old, reqs[c].effect)
  BY <1>1 DEF Fit, Fits, Guess, Guessed, Clears, Cleared, GuessKinds
<1>5. /\ IsFiniteSet(Guesses(u)) /\ Cardinality(Guesses(u)) \in Nat
      /\ \A n \in Guesses(u) : n \in DOMAIN reqs /\ Done(n) /\ reqs[n].user = u
  BY GuessesFinite DEF Base
<1>6. ASSUME NEW v \in Users, v # u PROVE Blurred(v)' \/ Counted(v)'
  <2>1. Guesses(v)' = Guesses(v)
    BY <1>0, <1>1, <1>6, SameGuesses
  <2>2. \A g \in Guesses(v) : g \in DOMAIN reqs
    BY DEF Guesses
  <2>3. Blurred(v) => Blurred(v)'
    BY <1>1, <2>1, <2>2 DEF Blurred
  <2>4. Counted(v) => Counted(v)'
    BY <1>1, <1>2, <1>6, <2>1, <2>2 DEF Counted
  <2> QED BY <2>3, <2>4 DEF GuessInv
<1>7. Blurred(u)' \/ Counted(u)'
  <2>1. CASE Clears(c)
    <3>1. Guesses(u)' = {}
      BY <1>0, <2>1, GuessesAfter
    <3>2. Cardinality(Guesses(u)') = 0
      BY <3>1, FS_EmptySet
    <3> QED BY <1>3, <3>1, <3>2 DEF Counted
  <2>2. ASSUME ~Clears(c), Blurred(u) PROVE Blurred(u)'
    <3>1. Guesses(u) \subseteq Guesses(u)'
      BY <1>0, <2>2, GuessesAfter
    <3> QED BY <1>1, <1>5, <2>2, <3>1 DEF Blurred
  <2>3. CASE ~Clears(c) /\ Counted(u) /\ ~Guess(c)
    <3>1. Guesses(u)' = Guesses(u)
      BY <1>0, <2>3, GuessesAfter
    <3>2. ASSUME old.locked, Guesses(u) # {} PROVE Blurred(u)'
      <4>1. PICK g \in Guesses(u) : TRUE
        BY <3>2
      <4>2. Overlap(g, c)
        BY <1>0, <2>3, <3>2, <4>1 DEF Counted
      <4>3. Overlapped(g)'
        BY <1>1, <1>5, <4>1, <4>2, OverlapSym
      <4> QED BY <3>1, <4>1, <4>3 DEF Blurred
    <3>3. ASSUME ~(old.locked /\ Guesses(u) # {}) PROVE Counted(u)'
      <4>1. new.failed = old.failed \/ (new.failed < old.failed /\ old.locked)
        BY <1>3, <1>4, <2>3 DEF KeepsCount, Guessed
      <4>2. new.locked => old.locked
        BY <1>4, <2>3 DEF KeepsCount, Guessed
      <4>3. Cardinality(Guesses(u)') <= row'[u].failed
        <5>1. CASE new.failed = old.failed
          BY <1>2, <2>3, <3>1, <5>1 DEF Counted
        <5>2. CASE Guesses(u) = {}
          <6>1. Cardinality(Guesses(u)') = 0
            BY <3>1, <5>2, FS_EmptySet
          <6> QED BY <1>3, <6>1
        <5> QED BY <3>3, <4>1, <5>1, <5>2
      <4>4. row'[u].locked => Guesses(u)' = {}
        BY <1>2, <2>3, <3>1, <3>3, <4>2 DEF Counted
      <4>5. \A n \in OpenRequests' : reqs'[n].user = u /\ reqs'[n].old.locked =>
              \A g \in Guesses(u)' : Overlap(g, n)'
        BY <1>1, <1>5, <2>3, <3>1 DEF Counted
      <4> QED BY <4>3, <4>4, <4>5 DEF Counted
    <3> QED BY <3>2, <3>3
  <2>4. CASE ~Clears(c) /\ Counted(u) /\ Guess(c)
    <3>1. Guesses(u)' = Guesses(u) \union {c} /\ c \notin Guesses(u)
      BY <1>0, <1>1, <1>5, <2>4, GuessesAfter
    <3>2. CASE Overlapped(c)
      <4>1. Overlapped(c)'
        BY <1>1, <3>2
      <4> QED BY <3>1, <4>1 DEF Blurred
    <3>3. CASE ~Overlapped(c)
      <4>1. row[u].failed = old.failed /\ (row[u].locked => old.locked)
        BY <1>0, <3>3 DEF Base, StillSo, Same
      <4>2. new.failed = old.failed + 1 /\ ~new.locked
        BY <1>4, <2>4 DEF Guessed, Cleared, KeepsCount
      <4>3. row'[u].failed = row[u].failed + 1 /\ ~row'[u].locked
        BY <1>2, <1>3, <4>1, <4>2
      <4>4. Cardinality(Guesses(u)') = Cardinality(Guesses(u)) + 1
        BY <1>5, <3>1, FS_AddElement
      <4>5. Cardinality(Guesses(u)') <= row'[u].failed
        BY <1>3, <1>5, <2>4, <4>3, <4>4 DEF Counted
      <4>6. ASSUME NEW n \in OpenRequests', reqs'[n].user = u, reqs'[n].old.locked,
                   NEW g \in Guesses(u)'
            PROVE  Overlap(g, n)'
        <5>1. n \in OpenRequests /\ n # c /\ n \in DOMAIN reqs
              /\ reqs[n].user = u /\ reqs[n].old.locked
          BY <1>1, <4>6
        <5>2. Overlap(g, n) /\ g \in DOMAIN reqs
          BY <1>1, <1>5, <2>4, <3>1, <4>6, <5>1 DEF Counted
        <5> QED BY <1>1, <5>1, <5>2
      <4> QED BY <4>3, <4>5, <4>6 DEF Counted
    <3> QED BY <3>2, <3>3
  <2> QED BY <2>1, <2>2, <2>3, <2>4 DEF GuessInv
<1> QED BY <1>6, <1>7 DEF GuessInv

\* No other step counts, or forgets but a lock.
LEMMA GuessRest ==
  ASSUME Base, GuessInv,
         \/ \E c \in OpenRequests : Refused(c)
         \/ Refresh \/ LockEnds \/ LinkExpires \/ Idle
  PROVE  GuessInv'
<1>1. /\ DOMAIN reqs' = DOMAIN reqs /\ OpenRequests' \subseteq OpenRequests
      /\ OpenRequests \subseteq DOMAIN reqs
      /\ \A v \in Users : row'[v].failed = row[v].failed /\ (row'[v].locked => row[v].locked)
      /\ \A m \in DOMAIN reqs :
           /\ reqs'[m].user = reqs[m].user /\ reqs'[m].old = reqs[m].old
           /\ Done(m)' <=> Done(m)
           /\ Done(m) => reqs'[m] = reqs[m]
           /\ Overlapped(m) => Overlapped(m)'
           /\ \A i \in DOMAIN reqs : Overlap(m, i)' <=> Overlap(m, i)
  <2>1. CASE \E c \in OpenRequests : Refused(c)
    <3>1. PICK c \in OpenRequests : Refused(c)
      BY <2>1
    <3>2. /\ DOMAIN reqs' = DOMAIN reqs /\ OpenRequests' = OpenRequests \ {c}
          /\ OpenRequests \subseteq DOMAIN reqs /\ row' = row /\ ~Done(c)
          /\ \A m \in DOMAIN reqs :
               /\ reqs'[m].user = reqs[m].user /\ reqs'[m].old = reqs[m].old
               /\ m # c => reqs'[m] = reqs[m]
               /\ Done(m)' <=> Done(m)
               /\ Overlapped(m) => Overlapped(m)'
               /\ \A i \in DOMAIN reqs : Overlap(m, i)' <=> Overlap(m, i)
      BY <3>1, RefusedStep
    <3> QED BY <3>2
  <2>2. CASE Refresh \/ LockEnds \/ LinkExpires \/ Idle
    <3>1. /\ reqs' = reqs
          /\ \A v \in Users : row'[v].failed = row[v].failed /\ (row'[v].locked => row[v].locked)
      BY <2>2, RestStep
    <3>2. /\ OpenRequests' = OpenRequests
          /\ \A n : (Done(n)' <=> Done(n)) /\ (Overlapped(n)' <=> Overlapped(n))
          /\ \A m, n : Overlap(m, n)' <=> Overlap(m, n)
      BY <3>1, ReqsStay
    <3> QED BY <3>1, <3>2 DEF OpenRequests
  <2> QED BY <2>1, <2>2
<1>2. SUFFICES ASSUME NEW u \in Users PROVE Blurred(u)' \/ Counted(u)'
  BY DEF GuessInv
<1>3. Guesses(u)' = Guesses(u)
  BY <1>1, SameGuesses
<1>4. \A g \in Guesses(u) : g \in DOMAIN reqs
  BY DEF Guesses
<1>5. Blurred(u) => Blurred(u)'
  BY <1>1, <1>3, <1>4 DEF Blurred
<1>6. Counted(u) => Counted(u)'
  BY <1>1, <1>3, <1>4 DEF Counted
<1> QED BY <1>5, <1>6 DEF GuessInv

\* Password and code failures add up to a lock; a right password alone does not start the
\* count again.  Failures in progress together count as one (failed_count is read, then written).
THEOREM GuessesAlwaysBounded == Spec => []BoundedGuesses
<1>1. Init => GuessInv
  <2>1. SUFFICES ASSUME Init PROVE GuessInv
    OBVIOUS
  <2>2. Base /\ DOMAIN reqs = {} /\ OpenRequests = {}
    BY <2>1, Start, BaseInit
  <2>3. ASSUME NEW u \in Users PROVE Counted(u)
    <3>1. Guesses(u) = {} /\ row[u].failed \in Nat
      BY <2>2, AccountsAssumption DEF Guesses, Base, Typed, TypeOK, Row
    <3>2. Cardinality(Guesses(u)) = 0
      BY <3>1, FS_EmptySet
    <3> QED BY <2>2, <3>1, <3>2 DEF Counted
  <2> QED BY <2>3 DEF GuessInv
<1>2. Base /\ InOrder /\ GuessInv /\ [Next]_vars => GuessInv'
  BY StepKind, GuessBegins, GuessCommits, GuessRest
<1>3. Base /\ GuessInv => BoundedGuesses
  <2>1. SUFFICES ASSUME Base, GuessInv, NEW u \in Users, Cardinality(Guesses(u)) >= THRESHOLD
                 PROVE  Blurred(u)
    BY DEF BoundedGuesses, Blurred
  <2>2. /\ row[u].failed \in 0 .. THRESHOLD - 1 /\ THRESHOLD \in Nat
        /\ Cardinality(Guesses(u)) \in Nat
    BY <2>1, GuessesFinite, AccountsAssumption DEF Base, Typed, TypeOK, Row
  <2>3. ~(Cardinality(Guesses(u)) <= row[u].failed)
    BY <2>1, <2>2
  <2> QED BY <2>1, <2>3 DEF GuessInv, Counted
<1> QED BY <1>1, <1>2, <1>3, BaseAlways, OrderAlways, PTL DEF Spec

(***************************************************************************)
(* Codes and links are used once                                           *)
(***************************************************************************)

\* What a request takes is the user's own, and was there before the request.
LEMMA TakesCode ==
  ASSUME Base, NEW m \in DOMAIN reqs, NEW t, t = reqs[m].effect.takes, t # None
  PROVE  /\ t \in TakenCode /\ t.user = reqs[m].user /\ t.user \in Users
         /\ t.kind \in {"totp", "backup", "link"} /\ t.step \in Nat
         /\ t.n \in Seen /\ t.n # None
         /\ t.kind = "totp" => /\ t.n = reqs[m].old.secret /\ t.step > reqs[m].old.last_step
                               /\ reqs[m].effect.row.last_step = t.step
                               /\ reqs[m].effect.row.secret = reqs[m].old.secret
         /\ t.kind = "backup" => t = BackupCode(reqs[m].user, t.n)
<1>1. t \in TakenCode
  BY Requested DEF Base
<1>2. t.user \in Users /\ t.kind \in {"totp", "backup", "link"} /\ t.step \in Nat /\ t.n \in Nat
  BY <1>1, AccountsAssumption DEF TakenCode, Numbers
<1>3. t.n # None
  BY <1>2, AccountsAssumption
<1>4. t.n \in Seen
  BY DEF Base, AllSeen
<1>5. TakesWhatIs(reqs[m].user, reqs[m].old, reqs[m].effect)
  BY DEF Base, Fit, Fits
<1> QED BY <1>1, <1>2, <1>3, <1>4, <1>5 DEF TakesWhatIs

\* Who begins does not take what is used.
LEMMA UseBegins ==
  ASSUME Base, UseInv, Begins
  PROVE  UseInv'
<1> PICK N : N = Next_n
  OBVIOUS
<1>1. /\ N \notin DOMAIN reqs /\ DOMAIN reqs' = DOMAIN reqs \union {N}
      /\ \A n \in DOMAIN reqs : reqs'[n] = reqs[n]
      /\ reqs'[N].old = row[reqs'[N].user]
      /\ ReadBy(reqs'[N].kind, reqs'[N].user, reqs'[N].effect)
      /\ row' = row /\ backup' = backup /\ links' = links
      /\ OpenRequests' = OpenRequests \union {N} /\ ~Done(N)' /\ OpenRequests \subseteq DOMAIN reqs
      /\ \A n \in DOMAIN reqs : /\ Done(n)' <=> Done(n)
                                /\ Overlapped(n)' <=> Overlapped(n)
                                /\ \A m \in DOMAIN reqs : Overlap(m, n)' <=> Overlap(m, n)
  BY BeginStep DEF OpenRequests
<1>2. OneUse'
  BY <1>1 DEF UseInv, OneUse
<1>3. ASSUME NEW m \in DOMAIN reqs', Done(m)', reqs'[m].effect.takes # None
      PROVE  Passed(m)' /\ UsedUp(m)' /\ Shared(m)'
  <2>1. m \in DOMAIN reqs /\ Done(m) /\ reqs'[m] = reqs[m] /\ m # N
    BY <1>1, <1>3
  <2> PICK u, t : u = reqs[m].user /\ t = reqs[m].effect.takes
    OBVIOUS
  <2>2. /\ t.user = u /\ u \in Users /\ t.kind \in {"totp", "backup", "link"} /\ t.step \in Nat
        /\ t # None
    BY <1>3, <2>1, TakesCode
  <2>3. Passed(m) /\ UsedUp(m) /\ Shared(m)
    BY <2>1 DEF UseInv
  <2>4. Passed(m)'
    <3>1. SUFFICES ASSUME Took(m, "totp")', ~Overlapped(m)'
                   PROVE  /\ row'[u].secret = t.n => row'[u].last_step >= t.step
                          /\ \A n \in OpenRequests' : reqs'[n].user = u /\ ~Overlap(m, n)' =>
                               /\ reqs'[n].old.secret = t.n => reqs'[n].old.last_step >= t.step
                               /\ reqs'[n].old.secret # t.n => row'[u].secret # t.n
      BY <2>1 DEF Passed
    <3>2. Took(m, "totp") /\ ~Overlapped(m)
      BY <1>1, <2>1, <3>1 DEF Took
    <3>3. /\ row[u].secret = t.n => row[u].last_step >= t.step
          /\ \A n \in OpenRequests : reqs[n].user = u /\ ~Overlap(m, n) =>
               /\ reqs[n].old.secret = t.n => reqs[n].old.last_step >= t.step
               /\ reqs[n].old.secret # t.n => row[u].secret # t.n
      BY <2>3, <3>2 DEF Passed
    <3>4. ASSUME NEW n \in OpenRequests', reqs'[n].user = u, ~Overlap(m, n)'
          PROVE  /\ reqs'[n].old.secret = t.n => reqs'[n].old.last_step >= t.step
                 /\ reqs'[n].old.secret # t.n => row'[u].secret # t.n
      <4>1. CASE n = N
        BY <1>1, <3>3, <3>4, <4>1
      <4>2. CASE n # N
        <5>1. n \in OpenRequests /\ n \in DOMAIN reqs /\ reqs'[n] = reqs[n] /\ ~Overlap(m, n)
          BY <1>1, <2>1, <3>4, <4>2
        <5> QED BY <1>1, <3>3, <3>4, <5>1
      <4> QED BY <4>1, <4>2
    <3> QED BY <1>1, <3>3, <3>4
  <2>5. UsedUp(m)'
    <3>1. \A kind : Took(m, kind)' => Took(m, kind)
      BY <1>1, <2>1 DEF Took
    <3> QED BY <1>1, <2>1, <2>3, <3>1 DEF UsedUp, LinkCode
  <2>6. Shared(m)'
    <3>1. SUFFICES ASSUME NEW n \in OpenRequests', reqs'[n].effect.takes = t, ~Overlapped(m)'
                   PROVE  Overlap(m, n)'
      BY <2>1 DEF Shared
    <3>2. ~Overlapped(m)
      BY <1>1, <2>1, <3>1
    <3>3. CASE n # N
      <4>1. n \in OpenRequests /\ n \in DOMAIN reqs /\ reqs'[n] = reqs[n]
        BY <1>1, <3>1, <3>3
      <4> QED BY <1>1, <2>1, <2>2, <2>3, <3>1, <3>2, <4>1 DEF Shared
    <3>4. CASE n = N
      <4> DEFINE k == reqs'[N].kind
                 e == reqs'[N].effect
      <4>1. e.takes = t /\ ReadBy(k, reqs'[N].user, e)
        BY <1>1, <3>1, <3>4
      <4>2. TakesWhatIs(reqs'[N].user, row[reqs'[N].user], e)
        BY <4>1 DEF ReadBy, Fits
      <4>3. reqs'[N].user = u
        BY <2>2, <4>1, <4>2 DEF TakesWhatIs
      <4>4. CASE t.kind = "totp"
        <5>1. t.n = row[u].secret /\ t.step > row[u].last_step
          BY <2>2, <4>1, <4>2, <4>3, <4>4 DEF TakesWhatIs
        <5>2. row[u].secret = t.n => row[u].last_step >= t.step
          BY <2>1, <2>2, <2>3, <3>2, <4>4 DEF Passed, Took
        <5>3. row[u].last_step \in Nat
          BY <2>2, Here, AccountsAssumption DEF Row
        <5> QED BY <2>2, <5>1, <5>2, <5>3
      <4>5. CASE t.kind = "backup"
        <5>1. \E code \in backup[u] : t.n = code.n /\ ~code.used
          BY <2>2, <4>1, <4>3, <4>5 DEF ReadBy
        <5> QED BY <2>1, <2>2, <2>3, <4>5, <5>1 DEF UsedUp, Took
      <4>6. CASE t.kind = "link"
        <5>1. \E l \in links : ~l.used /\ LinkCode(l) = t
          BY <2>2, <4>1, <4>6 DEF ReadBy
        <5> QED BY <2>1, <2>2, <2>3, <4>6, <5>1 DEF UsedUp, Took
      <4> QED BY <2>2, <4>4, <4>5, <4>6
    <3> QED BY <3>3, <3>4
  <2> QED BY <2>4, <2>5, <2>6
<1>4. \A m \in DOMAIN reqs' : Passed(m)' /\ UsedUp(m)' /\ Shared(m)'
  BY <1>3 DEF Passed, UsedUp, Shared, Took
<1> QED BY <1>2, <1>4 DEF UseInv

\* A commit, for a code or link that another request took before.
LEMMA UseOfOthers ==
  ASSUME Base, NEW c \in OpenRequests, Commit(c), NEW m \in DOMAIN reqs, m # c, Done(m)',
         reqs'[m].effect.takes # None, Passed(m), UsedUp(m), Shared(m)
  PROVE  Passed(m)' /\ UsedUp(m)' /\ Shared(m)'
<1> PICK w, e, old : w = reqs[c].user /\ e = reqs[c].effect /\ old = reqs[c].old
  OBVIOUS
<1>1. /\ c \in DOMAIN reqs /\ Fit(c) /\ c \notin Seen /\ DOMAIN reqs' = DOMAIN reqs
      /\ reqs'[m] = reqs[m] /\ (Done(m)' <=> Done(m))
      /\ OpenRequests' = OpenRequests \ {c} /\ OpenRequests \subseteq DOMAIN reqs
      /\ Overlapped(m) => Overlapped(m)'
      /\ reqs[m].user = w /\ Overlap(c, m) => Overlapped(m)'
      /\ \A n \in DOMAIN reqs :
           /\ reqs'[n].user = reqs[n].user /\ reqs'[n].old = reqs[n].old
           /\ reqs'[n].effect = reqs[n].effect
           /\ Overlap(m, n)' <=> Overlap(m, n)
  BY CommitStep
<1> PICK u, t : u = reqs[m].user /\ t = reqs[m].effect.takes
  OBVIOUS
<1>2. Done(m) /\ t # None
  BY <1>1
<1>3. /\ t.user = u /\ u \in Users /\ t.kind \in {"totp", "backup", "link"} /\ t.step \in Nat
      /\ t.n \in Seen /\ t.n # None /\ t.n # c
  BY <1>1, <1>2, TakesCode
<1>4. /\ w \in Users /\ e \in Effect /\ old \in Row /\ e.row \in Row
      /\ \A v \in Users : v # w => row'[v] = row[v]
      /\ row'[w].secret = IF e.row.secret = old.secret THEN row[w].secret ELSE e.row.secret
      /\ row'[w].last_step =
           IF e.row.last_step = old.last_step THEN row[w].last_step ELSE e.row.last_step
  BY Written DEF Base
<1>5. /\ KeepsFactor(c, reqs[c].kind, old, e) /\ KeepsStep(reqs[c].kind, old, e)
  BY <1>1 DEF Fit, Fits
<1>6. row'[u].secret = t.n => row[u].secret = t.n /\ (u = w => e.row.secret = old.secret)
  BY <1>3, <1>4, <1>5 DEF KeepsFactor
<1>7. Passed(m)'
  <2>1. SUFFICES ASSUME Took(m, "totp")', ~Overlapped(m)'
                 PROVE  /\ row'[u].secret = t.n => row'[u].last_step >= t.step
                        /\ \A n \in OpenRequests' : reqs'[n].user = u /\ ~Overlap(m, n)' =>
                             /\ reqs'[n].old.secret = t.n => reqs'[n].old.last_step >= t.step
                             /\ reqs'[n].old.secret # t.n => row'[u].secret # t.n
    BY <1>1 DEF Passed
  <2>2. /\ row[u].secret = t.n => row[u].last_step >= t.step
        /\ \A n \in OpenRequests : reqs[n].user = u /\ ~Overlap(m, n) =>
             /\ reqs[n].old.secret = t.n => reqs[n].old.last_step >= t.step
             /\ reqs[n].old.secret # t.n => row[u].secret # t.n
    BY <1>1, <2>1 DEF Passed, Took
  <2>3. ASSUME row'[u].secret = t.n PROVE row'[u].last_step >= t.step
    <3>1. CASE u # w
      BY <1>3, <1>4, <1>6, <2>2, <2>3, <3>1
    <3>2. CASE u = w
      <4>1. ~Overlap(m, c)
        BY <1>1, <2>1, <3>2, OverlapSym
      <4>2. old.secret = t.n /\ old.last_step >= t.step /\ row[u].last_step >= t.step
        BY <1>6, <2>2, <2>3, <3>2, <4>1
      <4>3. e.row.secret = t.n
        BY <1>6, <2>3, <3>2, <4>2
      <4>4. e.row.last_step # old.last_step => e.row.last_step > old.last_step
        BY <1>3, <1>5, <4>3 DEF KeepsFactor, KeepsStep
      <4>5. old.last_step \in Nat /\ e.row.last_step \in Nat
        BY <1>4, AccountsAssumption DEF Row
      <4> QED BY <1>3, <1>4, <3>2, <4>2, <4>4, <4>5
    <3> QED BY <3>1, <3>2
  <2>4. ASSUME NEW n \in OpenRequests', reqs'[n].user = u, ~Overlap(m, n)'
        PROVE  /\ reqs'[n].old.secret = t.n => reqs'[n].old.last_step >= t.step
               /\ reqs'[n].old.secret # t.n => row'[u].secret # t.n
    <3>1. /\ n \in OpenRequests /\ reqs[n].user = u /\ ~Overlap(m, n)
          /\ reqs'[n].old = reqs[n].old
      BY <1>1, <2>4
    <3> QED BY <1>6, <2>2, <3>1
  <2> QED BY <2>3, <2>4
<1>8. UsedUp(m)'
  <2>1. ASSUME t.kind = "backup", NEW k \in backup'[u], k.n = t.n PROVE k.used
    <3>1. \A b \in backup[u] : b.n = t.n => b.used
      BY <1>2, <2>1 DEF UsedUp, Took
    <3>2. u # w => backup'[u] = backup[u]
      BY <1>3, Stored DEF Base
    <3>3. u = w => \A a \in backup'[u] :
                     a.n = c \/ \E b \in backup[u] : a.n = b.n /\ (b.used => a.used)
      BY Stored DEF Base
    <3> QED BY <1>3, <2>1, <3>1, <3>2, <3>3
  <2>2. ASSUME t.kind = "link", NEW l \in links', LinkCode(l) = t PROVE l.used
    <3>1. \A k \in links : LinkCode(k) = t => k.used
      BY <1>2, <2>2 DEF UsedUp, Took
    <3>2. l.n # c
      BY <1>3, <2>2 DEF LinkCode
    <3>3. PICK k \in links : l.n = k.n /\ l.user = k.user /\ (k.used => l.used)
      BY <3>2, Stored DEF Base
    <3>4. LinkCode(k) = t
      BY <2>2, <3>3 DEF LinkCode
    <3> QED BY <3>1, <3>3, <3>4
  <2> QED BY <1>1, <2>1, <2>2 DEF UsedUp, Took, LinkCode
<1>9. Shared(m)'
  <2>1. ASSUME NEW n \in OpenRequests', reqs'[n].effect.takes = t
        PROVE  Overlap(m, n)' \/ Overlapped(m)'
    <3>1. n \in OpenRequests /\ n \in DOMAIN reqs /\ reqs[n].effect.takes = t
      BY <1>1, <2>1
    <3> QED BY <1>1, <1>2, <3>1 DEF Shared
  <2> QED BY <1>1, <2>1 DEF Shared
<1> QED BY <1>7, <1>8, <1>9

\* A commit, for the code or link that it takes itself.
LEMMA UseOfOwn ==
  ASSUME Base, NEW c \in OpenRequests, Commit(c), reqs[c].effect.takes # None
  PROVE  Passed(c)' /\ UsedUp(c)' /\ Shared(c)'
<1> PICK u, e, old, t :
      u = reqs[c].user /\ e = reqs[c].effect /\ old = reqs[c].old /\ t = reqs[c].effect.takes
  OBVIOUS
<1>1. /\ c \in DOMAIN reqs /\ c \notin Seen /\ DOMAIN reqs' = DOMAIN reqs
      /\ reqs'[c].user = u /\ reqs'[c].effect = e
      /\ OpenRequests' = OpenRequests \ {c} /\ OpenRequests \subseteq DOMAIN reqs
      /\ \A n \in DOMAIN reqs : Overlap(c, n)' <=> Overlap(c, n)
      /\ \A n \in OpenRequests : n # c => Overlap(c, n)
  BY CommitStep
<1>2. \A n \in OpenRequests' : Overlap(c, n)'
  BY <1>1
<1>3. /\ t \in TakenCode /\ t.user = u /\ u \in Users /\ t.step \in Nat /\ t.n \in Seen /\ t.n # c
      /\ t.kind = "totp" => t.step > old.last_step /\ e.row.last_step = t.step
      /\ t.kind = "backup" => t = BackupCode(u, t.n)
  BY <1>1, TakesCode
<1>4. Passed(c)'
  <2>1. ASSUME t.kind = "totp" PROVE row'[u].last_step >= t.step
    <3>1. row'[u].last_step =
            IF e.row.last_step = old.last_step THEN row[u].last_step ELSE e.row.last_step
      BY Written DEF Base
    <3>2. old.last_step \in Nat
      BY <1>1, Requested, AccountsAssumption DEF Base, Row
    <3> QED BY <1>3, <2>1, <3>1, <3>2
  <2> QED BY <1>1, <1>2, <2>1 DEF Passed, Took
<1>5. UsedUp(c)'
  <2>1. ASSUME t.kind = "backup", NEW b \in backup'[u], b.n = t.n PROVE b.used
    <3>1. PICK k \in backup[u] : b.n = k.n /\ (e.takes = BackupCode(u, k.n) => b.used)
      BY <1>3, <2>1, Stored DEF Base
    <3> QED BY <1>3, <2>1, <3>1
  <2>2. ASSUME NEW l \in links', LinkCode(l) = t PROVE l.used
    <3>1. l.n # c
      BY <1>3, <2>2 DEF LinkCode
    <3>2. PICK k \in links : /\ l.n = k.n /\ l.user = k.user
                             /\ e.takes # None /\ e.takes = LinkCode(k) => l.used
      BY <3>1, Stored DEF Base
    <3>3. LinkCode(k) = t
      BY <2>2, <3>2 DEF LinkCode
    <3> QED BY <3>2, <3>3
  <2> QED BY <1>1, <2>1, <2>2 DEF UsedUp, Took, LinkCode
<1>6. Shared(c)'
  BY <1>2 DEF Shared
<1> QED BY <1>4, <1>5, <1>6

\* Who takes what another took overlaps that one.
LEMMA UseCommits ==
  ASSUME Base, UseInv, NEW c \in OpenRequests, Commit(c)
  PROVE  UseInv'
<1>1. /\ c \in DOMAIN reqs /\ DOMAIN reqs' = DOMAIN reqs
      /\ \A m \in DOMAIN reqs :
           /\ reqs'[m].user = reqs[m].user /\ reqs'[m].effect = reqs[m].effect
           /\ m # c => (Done(m)' <=> Done(m))
           /\ Overlapped(m) => Overlapped(m)'
           /\ reqs[m].user = reqs[c].user /\ Overlap(c, m) => Overlapped(m)'
  BY CommitStep
<1>2. ASSUME NEW m \in DOMAIN reqs, m # c, Done(m), reqs[m].effect.takes # None,
             reqs[m].effect.takes = reqs[c].effect.takes
      PROVE  Overlapped(m)'
  <2>1. Overlap(m, c) \/ Overlapped(m)
    BY <1>2 DEF UseInv, Shared
  <2>2. reqs[m].user = reqs[c].user
    BY <1>1, <1>2, TakesCode
  <2> QED BY <1>1, <1>2, <2>1, <2>2, OverlapSym
<1>3. OneUse'
  <2>1. SUFFICES ASSUME NEW m \in DOMAIN reqs, NEW n \in DOMAIN reqs, Done(m)', Done(n)', m # n,
                        reqs[m].effect.takes # None,
                        reqs[m].effect.takes = reqs[n].effect.takes
                 PROVE  Overlapped(m)' \/ Overlapped(n)'
    BY <1>1 DEF OneUse
  <2>2. CASE m # c /\ n # c
    <3>1. Overlapped(m) \/ Overlapped(n)
      BY <1>1, <2>1, <2>2 DEF UseInv, OneUse
    <3> QED BY <1>1, <3>1
  <2>3. CASE m = c
    BY <1>1, <1>2, <2>1, <2>3
  <2>4. CASE n = c
    BY <1>1, <1>2, <2>1, <2>4
  <2> QED BY <2>2, <2>3, <2>4
<1>4. ASSUME NEW m \in DOMAIN reqs, Done(m)', reqs'[m].effect.takes # None
      PROVE  Passed(m)' /\ UsedUp(m)' /\ Shared(m)'
  <2>1. CASE m = c
    BY <1>1, <1>4, <2>1, UseOfOwn
  <2>2. CASE m # c
    BY <1>4, <2>2, UseOfOthers DEF UseInv
  <2> QED BY <2>1, <2>2
<1>5. \A m \in DOMAIN reqs' : Passed(m)' /\ UsedUp(m)' /\ Shared(m)'
  BY <1>1, <1>4 DEF Passed, UsedUp, Shared, Took
<1> QED BY <1>3, <1>5 DEF UseInv

\* No other step gives a code or a link back.
LEMMA UseRest ==
  ASSUME Base, UseInv,
         \/ \E c \in OpenRequests : Refused(c)
         \/ Refresh \/ LockEnds \/ LinkExpires \/ Idle
  PROVE  UseInv'
<1>1. /\ DOMAIN reqs' = DOMAIN reqs /\ OpenRequests' \subseteq OpenRequests
      /\ OpenRequests \subseteq DOMAIN reqs /\ backup' = backup
      /\ \A v \in Users : row'[v].secret = row[v].secret /\ row'[v].last_step = row[v].last_step
      /\ \A l \in links' : \E k \in links : l.n = k.n /\ l.user = k.user /\ (k.used => l.used)
      /\ \A m \in DOMAIN reqs :
           /\ reqs'[m].user = reqs[m].user /\ reqs'[m].old = reqs[m].old
           /\ reqs'[m].effect = reqs[m].effect
           /\ Done(m)' <=> Done(m)
           /\ Overlapped(m) => Overlapped(m)'
           /\ \A i \in DOMAIN reqs : Overlap(m, i)' <=> Overlap(m, i)
  <2>1. CASE \E c \in OpenRequests : Refused(c)
    <3>1. PICK c \in OpenRequests : Refused(c)
      BY <2>1
    <3> QED BY <3>1, RefusedStep
  <2>2. CASE Refresh \/ LockEnds \/ LinkExpires \/ Idle
    <3>1. /\ reqs' = reqs /\ backup' = backup
          /\ \A v \in Users : row'[v].secret = row[v].secret /\ row'[v].last_step = row[v].last_step
          /\ \A l \in links' : \E k \in links : l.n = k.n /\ l.user = k.user /\ (k.used => l.used)
      BY <2>2, RestStep
    <3>2. /\ OpenRequests' = OpenRequests
          /\ \A n : (Done(n)' <=> Done(n)) /\ (Overlapped(n)' <=> Overlapped(n))
          /\ \A m, n : Overlap(m, n)' <=> Overlap(m, n)
      BY <3>1, ReqsStay
    <3> QED BY <3>1, <3>2 DEF OpenRequests
  <2> QED BY <2>1, <2>2
<1>2. OneUse'
  BY <1>1 DEF UseInv, OneUse
<1>3. ASSUME NEW m \in DOMAIN reqs PROVE Passed(m)' /\ UsedUp(m)' /\ Shared(m)'
  <2>1. Passed(m) /\ UsedUp(m) /\ Shared(m) /\ reqs[m].user \in Users
    BY <1>3, Requested DEF UseInv, Base
  <2>2. \A kind : Took(m, kind)' => Took(m, kind)
    BY <1>1 DEF Took
  <2>3. Passed(m)'
    BY <1>1, <2>1, <2>2 DEF Passed
  <2>4. UsedUp(m)'
    BY <1>1, <2>1, <2>2 DEF UsedUp, LinkCode
  <2>5. Shared(m)'
    BY <1>1, <2>1 DEF Shared
  <2> QED BY <2>3, <2>4, <2>5
<1> QED BY <1>1, <1>2, <1>3 DEF UseInv

\* A code of the phone, a backup code and a setup link are used once (accounts.py: last_step
\* and used_at are read, then written), unless a request about the user was in progress together
\* with one of the two.
THEOREM CodesUsedOnce == Spec => []OneUse
<1>1. Init => UseInv
  BY Start DEF UseInv, OneUse
<1>2. Base /\ UseInv /\ [Next]_vars => UseInv'
  BY StepKind, UseBegins, UseCommits, UseRest
<1>3. UseInv => OneUse
  BY DEF UseInv
<1> QED BY <1>1, <1>2, <1>3, BaseAlways, PTL DEF Spec
=============================================================================
