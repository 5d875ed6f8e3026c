------------------------------- MODULE Accounts -------------------------------
(***************************************************************************)
(* services/accounts.py, routers/auth.py and users.py, the access rows of  *)
(* routers/marinas.py and setup_admin.py: passwords, the second factor,    *)
(* lockout, one-time links and codes, roles and sessions.                  *)
(*                                                                         *)
(* Handlers run on threads and share nothing but the database, which reads *)
(* committed rows and locks none of them when it reads.  A request takes   *)
(* two steps, or three: Begin reads and decides; a DELETE or an UPDATE of  *)
(* rows it has not read finds, in Statement, what is committed by then;    *)
(* Commit writes, and writes only the columns it changed.  Others may      *)
(* commit in between.  That a statement waits for one that has locked its  *)
(* rows is left out: it only rules out some of the orders of the commits.  *)
(*                                                                         *)
(* A request n that links a phone numbers the secret, the enrolment (the   *)
(* stamp mfa_at of a token), the backup code or the link it makes by n;    *)
(* what was there before the behaviour has number 0, and a row of access   *)
(* the number of the request that inserted it.  One backup code stands for *)
(* the ten.  Time that only withdraws things (a token, a code   *)
(* of the phone) is left out: nothing has to be used.                      *)
(***************************************************************************)
EXTENDS Naturals, Sequences, FiniteSets

CONSTANTS
  Users, Marinas, None,
  Newcomer,      \* the user who need not exist yet
  THRESHOLD,     \* settings.lockout_threshold
  Changes,       \* bound: the bodies of PATCH /users/{id}
  MaxStep,       \* bound: time steps whose codes a phone shows
  MaxRequests,   \* bound: requests in one behaviour
  Together       \* bounds: kinds of request made in one behaviour, and about how many users

Roles == {"admin", "marina_manager"}
Kinds == {"login", "verify", "start", "confirm", "regenerate", "setup", "create", "update",
          "newlink", "reset", "unlock", "cli", "grant", "revoke"}

ASSUME AccountsAssumption ==
  /\ Newcomer \in Users /\ Users # {Newcomer}          \* somebody has been set up as an admin
  /\ THRESHOLD \in Nat \ {0} /\ MaxStep \in Nat /\ MaxRequests \in Nat
  /\ Together \subseteq (SUBSET Kinds) \X Nat
  /\ Changes \subseteq [role : Roles \union {None}, active : BOOLEAN \union {None},
                        marinas : (SUBSET Marinas) \union {None}]
  /\ None \notin Nat \union Roles \union BOOLEAN /\ \A given \in SUBSET Marinas : given # None
  /\ None \notin [kind : {"totp", "backup", "link"}, user : Users, n : Nat, step : Nat]
  /\ \A found \in SUBSET (0 .. MaxRequests) : found # None

VARIABLES
  row,        \* row[u] of table users
  marinas,    \* marinas[u]: rows of user_marina_access
  backup,     \* backup[u]: the backup codes, used or not
  links,      \* rows of setup_tokens
  mfa,        \* users somebody holds an mfa token of
  sessions,   \* full tokens issued
  reqs,       \* the requests so far, in the order they began
  cleared     \* cleared[n]: what the statement of request n found, None before it has run

vars == <<row, marinas, backup, links, mfa, sessions, reqs, cleared>>

Numbers == 0 .. MaxRequests
Row == [role : Roles \union {None},                    \* None: no such row
        active : BOOLEAN, password : BOOLEAN,
        secret : Numbers \union {None}, confirmed : Numbers \union {None},
        last_step : 0 .. MaxStep, failed : 0 .. THRESHOLD - 1, locked : BOOLEAN]
Access == [marina : Marinas, n : Numbers]
Code == [n : Numbers, used : BOOLEAN]
Link == [n : Numbers, user : Users, used : BOOLEAN]

(***************************************************************************)
(* What a request is going to write                                        *)
(***************************************************************************)

NoEffect(u) ==
  [row |-> row[u],
   clears |-> "nothing",               \* the table its statement works on
   gives |-> {}, revokes |-> {},       \* marinas
   code |-> FALSE, link |-> FALSE,     \* it makes a backup code, a link
   takes |-> None,                     \* the one-time code or link it uses up
   mfa |-> FALSE, opens |-> FALSE]

RowOf(u, new) == [NoEffect(u) EXCEPT !.row = new]

\* Mutant: the count goes on after the lock.
Failure_NotReset(r) == [r EXCEPT !.failed = @ + 1, !.locked = r.failed + 1 >= THRESHOLD]

\* register_failure: at the threshold the account is locked and the count begins anew.
Failure(r) ==
  IF r.failed + 1 >= THRESHOLD THEN [r EXCEPT !.failed = 0, !.locked = TRUE]
  ELSE [r EXCEPT !.failed = @ + 1]

\* register_success: only the second factor forgets the failures.
Success(r) == [r EXCEPT !.failed = 0, !.locked = FALSE]

\* Mutant: the password alone clears the count.
Login_ClearsCount(u, right) ==
  IF ~row[u].password \/ row[u].locked THEN NoEffect(u)
  ELSE IF ~right THEN RowOf(u, Failure(row[u]))
  ELSE IF ~row[u].active THEN NoEffect(u)
  ELSE [RowOf(u, Success(row[u])) EXCEPT !.mfa = TRUE]

Login(u, right) ==
  IF ~row[u].password \/ row[u].locked THEN NoEffect(u)
  ELSE IF ~right THEN RowOf(u, Failure(row[u]))
  ELSE IF ~row[u].active THEN NoEffect(u)
  ELSE [NoEffect(u) EXCEPT !.mfa = TRUE]

\* Mutant: the step of the accepted code is not remembered.
Accepted_StepForgotten(r, step) == r

\* verify_totp stores the step of the code it accepted.
Accepted(r, step) == [r EXCEPT !.last_step = step]

\* totp.verify: a code of this secret, later than the last one accepted.
Matches(r, step) == r.secret # None /\ step \in 1 .. MaxStep /\ step > r.last_step

Totp(u, step) == [kind |-> "totp", user |-> u, n |-> row[u].secret, step |-> step]
BackupCode(u, n) == [kind |-> "backup", user |-> u, n |-> n, step |-> 0]
LinkCode(l)      == [kind |-> "link", user |-> l.user, n |-> l.n, step |-> 0]

\* What is typed: the code of a time step of the user's phone, a wrong one, the backup code n.
Wrong == 0
Backup(n) == MaxStep + 1 + n
PhoneCodes == Wrong .. MaxStep

Verify(u, code) ==
  IF row[u].confirmed = None \/ row[u].locked THEN NoEffect(u)
  ELSE IF Matches(row[u], code)
       THEN [RowOf(u, Success(Accepted(row[u], code)))
               EXCEPT !.takes = Totp(u, code), !.opens = TRUE]
  ELSE IF \E c \in backup[u] : code = Backup(c.n) /\ ~c.used
       THEN [RowOf(u, Success(row[u]))
               EXCEPT !.takes = BackupCode(u, code - Backup(0)), !.opens = TRUE]
  ELSE RowOf(u, Failure(row[u]))

\* start_enrolment: a new secret, not confirmed.
EnrolStart(u, n) ==
  IF row[u].confirmed # None \/ row[u].locked THEN NoEffect(u)
  ELSE RowOf(u, [row[u] EXCEPT !.secret = n, !.confirmed = None, !.last_step = 0])

\* Mutant: confirmed before the code is checked; the refusal commits it.
EnrolConfirm_BeforeCode(u, code, n) ==
  IF row[u].confirmed # None \/ row[u].locked \/ row[u].secret = None THEN NoEffect(u)
  ELSE IF ~Matches(row[u], code)
       THEN RowOf(u, [Failure(row[u]) EXCEPT !.confirmed = n])
  ELSE [RowOf(u, [Success(Accepted(row[u], code)) EXCEPT !.confirmed = n])
          EXCEPT !.clears = "codes", !.code = TRUE, !.takes = Totp(u, code), !.opens = TRUE]

EnrolConfirm(u, code, n) ==
  IF row[u].confirmed # None \/ row[u].locked \/ row[u].secret = None THEN NoEffect(u)
  ELSE IF ~Matches(row[u], code) THEN RowOf(u, Failure(row[u]))
  ELSE [RowOf(u, [Success(Accepted(row[u], code)) EXCEPT !.confirmed = n])
          EXCEPT !.clears = "codes", !.code = TRUE, !.takes = Totp(u, code), !.opens = TRUE]

\* regenerate_backup_codes: failures count, a lock is not looked at.
Regenerate(u, code) ==
  IF Matches(row[u], code)
  THEN [RowOf(u, Accepted(row[u], code))
          EXCEPT !.clears = "codes", !.code = TRUE, !.takes = Totp(u, code)]
  ELSE RowOf(u, Failure(row[u]))

\* setup: the password is set, the link used; the second factor stays as it is.
Setup(l) ==
  [RowOf(l.user, [row[l.user] EXCEPT !.password = TRUE])
     EXCEPT !.takes = LinkCode(l), !.mfa = TRUE]

NewRow(role) == [role |-> role, active |-> TRUE, password |-> FALSE, secret |-> None,
                 confirmed |-> None, last_step |-> 0, failed |-> 0, locked |-> FALSE]

CreateUser(u, role, given) ==
  [RowOf(u, NewRow(role)) EXCEPT !.gives = IF role = "admin" THEN {} ELSE given,
                                 !.link = TRUE]

\* issue_setup_link, for a user who is there.
IssueLink(u) == [NoEffect(u) EXCEPT !.clears = "links", !.link = TRUE]

\* setup_admin: creates an admin, or gives an existing one a new link.
SetupAdmin(u) ==
  IF row[u].role = None THEN [RowOf(u, NewRow("admin")) EXCEPT !.link = TRUE] ELSE IssueLink(u)

ResetMfa(u) ==
  [RowOf(u, [row[u] EXCEPT !.secret = None, !.confirmed = None, !.last_step = 0])
     EXCEPT !.clears = "codes"]

ActiveAdmins == {u \in Users : row[u].role = "admin" /\ row[u].active}

Demotes(u, change) ==
  row[u].role = "admin" /\ (change.role = "marina_manager" \/ change.active = FALSE)

\* Mutant: only a change of role is guarded, not switching an admin off.
MayUpdate_RoleOnly(admin, u, change) ==
  /\ u = admin => change.role \in {None, row[u].role}
  /\ change.role = "marina_manager" /\ row[u].role = "admin" => ActiveAdmins \ {u} # {}

\* Nobody demotes or switches off themselves, nobody the last active admin.
MayUpdate(admin, u, change) ==
  /\ u = admin => change.role \in {None, row[u].role} /\ change.active # FALSE
  /\ Demotes(u, change) => ActiveAdmins \ {u} # {}

Role(u, change)    == IF change.role = None THEN row[u].role ELSE change.role
Changed(u, change) ==
  RowOf(u, [row[u] EXCEPT !.role = Role(u, change),
                          !.active = IF change.active = None THEN @ ELSE change.active])
Given(change) == IF change.marinas = None THEN {} ELSE change.marinas

\* Mutant: becoming admin leaves the access rows.
UpdateUser_KeepsRows(u, change) ==
  [Changed(u, change) EXCEPT
     !.clears = IF change.marinas # None THEN "rows" ELSE "nothing", !.gives = Given(change)]

\* An admin's access rows are deleted, a manager's replaced when the body names them.  Rows that
\* the body names are inserted by the commit, after both DELETEs, an admin's too.
UpdateUser(u, change) ==
  [Changed(u, change) EXCEPT
     !.clears = IF change.marinas # None \/ Role(u, change) = "admin" THEN "rows" ELSE "nothing",
     !.gives = Given(change)]

(***************************************************************************)
(* Requests                                                                *)
(***************************************************************************)

\* Mutant: any enrolment will do.
TokenMatches_AnyEnrolment(s) ==
  row[s.user].role # None /\ row[s.user].active /\ row[s.user].confirmed # None

\* get_current_user, full_token_matches: the user is active and has the same enrolment.
TokenMatches(s) ==
  /\ row[s.user].role # None /\ row[s.user].active
  /\ row[s.user].confirmed # None /\ row[s.user].confirmed = s.stamp

SignedIn(u)  == \E s \in sessions : s.user = u /\ TokenMatches(s)
IsAdmin(u)   == row[u].role = "admin" /\ SignedIn(u)
MfaUser(u)   == u \in mfa /\ row[u].role # None /\ row[u].active /\ row[u].password
Next_n       == Len(reqs) + 1
OpenRequests == {n \in DOMAIN reqs : reqs[n].at = "open"}
DoneAt       == Cardinality({n \in DOMAIN reqs : reqs[n].at # "open"}) + 1

\* Request number Next_n of this kind about u has read, and will write this effect.  One that
\* only answers, or writes no more than its audit row, changes nothing modelled.
Begin(kind, u, effect) ==
  /\ Len(reqs) < MaxRequests /\ effect # NoEffect(u)
  /\ \E mix \in Together : /\ {reqs[n].kind : n \in DOMAIN reqs} \union {kind} \subseteq mix[1]
                            /\ Cardinality({reqs[n].user : n \in DOMAIN reqs} \union {u}) <= mix[2]
  /\ reqs' = Append(reqs, [kind |-> kind, user |-> u, at |-> "open", old |-> row[u],
                           effect |-> effect, with |-> OpenRequests, done |-> 0, ends |-> {}])
  /\ cleared' = [cleared EXCEPT ![Next_n] = IF effect.clears = "nothing" THEN {} ELSE None]
  /\ UNCHANGED <<row, marinas, backup, links, mfa, sessions>>

Codes == Wrong .. Backup(MaxRequests)

BeginLogin == \E u \in Users, right \in BOOLEAN :
  row[u].role # None /\ Begin("login", u, Login(u, right))

BeginVerify == \E u \in Users, code \in Codes :
  MfaUser(u) /\ Begin("verify", u, Verify(u, code))

BeginStart == \E u \in Users :
  MfaUser(u) /\ Begin("start", u, EnrolStart(u, Next_n))

BeginConfirm == \E u \in Users, code \in PhoneCodes :
  MfaUser(u) /\ Begin("confirm", u, EnrolConfirm(u, code, Next_n))

BeginRegenerate == \E u \in Users, code \in PhoneCodes :
  SignedIn(u) /\ Begin("regenerate", u, Regenerate(u, code))

BeginSetup == \E l \in links :
  ~l.used /\ row[l.user].active /\ Begin("setup", l.user, Setup(l))

BeginCreate == \E admin \in Users, u \in Users, role \in Roles, given \in SUBSET Marinas :
  IsAdmin(admin) /\ row[u].role = None /\ Begin("create", u, CreateUser(u, role, given))

BeginUpdate == \E admin \in Users, u \in Users, change \in Changes :
  /\ IsAdmin(admin) /\ row[u].role # None /\ MayUpdate(admin, u, change)
  /\ Begin("update", u, UpdateUser(u, change))

BeginNewLink == \E admin \in Users, u \in Users :
  /\ IsAdmin(admin) /\ row[u].role # None
  /\ Begin("newlink", u, IssueLink(u))

BeginReset == \E admin \in Users, u \in Users :
  IsAdmin(admin) /\ row[u].role # None /\ u # admin /\ Begin("reset", u, ResetMfa(u))

BeginUnlock == \E admin \in Users, u \in Users :
  /\ IsAdmin(admin) /\ row[u].role # None
  /\ Begin("unlock", u, RowOf(u, [row[u] EXCEPT !.locked = FALSE, !.failed = 0]))

BeginSetupAdmin == \E u \in Users :
  row[u].role \in {None, "admin"} /\ Begin("cli", u, SetupAdmin(u))

\* grant_access and revoke_access: one row of any existing user, an admin too.
HasMarina(u, m) == \E a \in marinas[u] : a.marina = m

BeginGrant == \E admin \in Users, u \in Users, m \in Marinas :
  /\ IsAdmin(admin) /\ row[u].role # None /\ ~HasMarina(u, m)
  /\ Begin("grant", u, [NoEffect(u) EXCEPT !.gives = {m}])

BeginRevoke == \E admin \in Users, u \in Users, m \in Marinas :
  /\ IsAdmin(admin) /\ HasMarina(u, m)
  /\ Begin("revoke", u, [NoEffect(u) EXCEPT !.revokes = {m}])

(***************************************************************************)
(* Statement and commit                                                    *)
(***************************************************************************)

\* The rows of table clears that are committed now: those of the user, of the links the unused.
TableRows(u, clears) ==
  CASE clears = "rows"  -> {a.n : a \in marinas[u]}
    [] clears = "codes" -> {c.n : c \in backup[u]}
    [] clears = "links" -> {l.n : l \in {k \in links : k.user = u /\ ~k.used}}
    [] OTHER            -> {}

\* DELETE of the access rows or the backup codes, UPDATE of the links.
Statement(n) ==
  /\ cleared[n] = None
  /\ cleared' = [cleared EXCEPT ![n] = TableRows(reqs[n].user, reqs[n].effect.clears)]
  /\ UNCHANGED <<row, marinas, backup, links, mfa, sessions, reqs>>

\* UPDATE names the columns whose value is not the one that was read.
Merge(now, old, new) == [c \in DOMAIN now |-> IF new[c] = old[c] THEN now[c] ELSE new[c]]

Request(n) == reqs[n]
After(n)   == Merge(row[Request(n).user], Request(n).old, Request(n).effect.row)

\* What the statement has found in this table.
FoundIn(n, table) == IF Request(n).effect.clears = table THEN cleared[n] ELSE {}

\* The access rows of the user that the request leaves there.
KeptRows(n) ==
  {a \in marinas[Request(n).user] :
     a.n \notin FoundIn(n, "rows") /\ a.marina \notin Request(n).effect.revokes}

RowsAfter(n) == KeptRows(n) \union {[marina |-> m, n |-> n] : m \in Request(n).effect.gives}

UsesUp(n, code) == Request(n).effect.takes # None /\ Request(n).effect.takes = code

BackupAfter(n) ==
  LET u == Request(n).user
      kept == {c \in backup[u] : c.n \notin FoundIn(n, "codes")}
  IN {IF UsesUp(n, BackupCode(u, c.n)) THEN [c EXCEPT !.used = TRUE] ELSE c : c \in kept}
       \union {c \in {[n |-> n, used |-> FALSE]} : Request(n).effect.code}

\* issue_setup_link: the earlier links it has found stop working.
LinksAfter(n) ==
  LET u == Request(n).user
      Ends(l) == UsesUp(n, LinkCode(l)) \/ (l.user = u /\ l.n \in FoundIn(n, "links"))
  IN {IF Ends(l) THEN [l EXCEPT !.used = TRUE] ELSE l : l \in links}
       \union {l \in {[n |-> n, user |-> u, used |-> FALSE]} : Request(n).effect.link}

\* The constraints of the tables, and UPDATEs that must find their row: the e-mail is unique,
\* and the access of a user to a marina; an enrolment has a secret; the backup code taken is
\* still there.
Holds(n) ==
  LET r == Request(n)
  IN /\ r.old.role = None => row[r.user].role = None
     /\ \A a \in KeptRows(n) : a.marina \notin r.effect.gives
     /\ After(n).confirmed # None => After(n).secret # None
     /\ r.effect.takes # None /\ r.effect.takes.kind = "backup"
          => \E c \in backup[r.user] : c.n = r.effect.takes.n

Closed(n, at, ends) ==
  /\ cleared' = [cleared EXCEPT ![n] = {}]
  /\ reqs' = [reqs EXCEPT ![n].at = at, ![n].done = DoneAt, ![n].ends = ends]

Commit(n) ==
  LET r == Request(n)
      u == r.user
      own == {s \in sessions : s.user = u}
  IN /\ cleared[n] # None /\ Holds(n)
     /\ row' = [row EXCEPT ![u] = After(n)]
     /\ marinas' = [marinas EXCEPT ![u] = RowsAfter(n)]
     /\ backup' = [backup EXCEPT ![u] = BackupAfter(n)]
     /\ links' = LinksAfter(n)
     /\ mfa' = IF r.effect.mfa THEN mfa \union {u} ELSE mfa
     /\ sessions' = IF r.effect.opens      \* access_token reads the row again
                    THEN sessions \union {[user |-> u, stamp |-> After(n).confirmed]}
                    ELSE sessions
     /\ Closed(n, "done", IF r.kind = "reset" THEN own ELSE {})

\* The database refuses the commit: nothing is written.  (A request whose process dies stays
\* open.)
Refused(n) ==
  /\ cleared[n] # None /\ ~Holds(n) /\ Closed(n, "failed", {})
  /\ UNCHANGED <<row, marinas, backup, links, mfa, sessions>>

\* The client asks for a new token; the sockets and the claims in it are not modelled.
Refresh == \E s \in sessions :
  /\ TokenMatches(s)
  /\ sessions' = sessions \union {[s EXCEPT !.stamp = row[s.user].confirmed]}
  /\ UNCHANGED <<row, marinas, backup, links, mfa, reqs, cleared>>

LockEnds == \E u \in Users :
  /\ row[u].locked /\ row' = [row EXCEPT ![u].locked = FALSE]
  /\ UNCHANGED <<marinas, backup, links, mfa, sessions, reqs, cleared>>

LinkExpires == \E l \in links :
  /\ ~l.used /\ links' = (links \ {l}) \union {[l EXCEPT !.used = TRUE]}
  /\ UNCHANGED <<row, marinas, backup, mfa, sessions, reqs, cleared>>

Enrolled(role) == [NewRow(role) EXCEPT !.password = TRUE, !.secret = 0, !.confirmed = 0]

\* Signed-in admins; the newcomer is not there yet, invited, about to link a phone, or a manager
\* of every marina.
Init ==
  \E start \in {"absent", "invited", "linking", "manager"} :
    LET there == Users \ {Newcomer}
        new == CASE start = "absent" -> [NewRow("admin") EXCEPT !.role = None, !.active = FALSE]
                 [] start = "invited" -> NewRow("marina_manager")
                 [] start = "linking" -> [NewRow("admin") EXCEPT !.password = TRUE]
                 [] start = "manager" -> Enrolled("marina_manager")
        enrolled == IF start = "manager" THEN Users ELSE there
    IN /\ row = [u \in Users |-> IF u = Newcomer THEN new ELSE Enrolled("admin")]
       /\ marinas = [u \in Users |-> IF u = Newcomer /\ start = "manager"
                                     THEN [marina : Marinas, n : {0}] ELSE {}]
       /\ backup = [u \in Users |-> IF u \in enrolled THEN {[n |-> 0, used |-> FALSE]} ELSE {}]
       /\ links = IF start = "invited" THEN {[n |-> 0, user |-> Newcomer, used |-> FALSE]} ELSE {}
       /\ mfa = IF start = "linking" THEN Users ELSE enrolled
       /\ sessions = {[user |-> u, stamp |-> 0] : u \in enrolled}
       /\ reqs = <<>> /\ cleared = [n \in 1 .. MaxRequests |-> {}]

Next ==
  \/ /\ Len(reqs) < MaxRequests
     /\ \/ BeginLogin \/ BeginVerify \/ BeginStart \/ BeginConfirm \/ BeginRegenerate \/ BeginSetup
        \/ BeginCreate \/ BeginUpdate \/ BeginNewLink \/ BeginReset \/ BeginUnlock
        \/ BeginSetupAdmin \/ BeginGrant \/ BeginRevoke
  \/ \E n \in OpenRequests : Statement(n) \/ Commit(n) \/ Refused(n)
  \/ Refresh \/ LockEnds \/ LinkExpires

Spec == Init /\ [][Next]_vars

(***************************************************************************)
(* Properties                                                              *)
(***************************************************************************)

\* m and n were in progress together.
Overlap(m, n) == m \in reqs[n].with \/ n \in reqs[m].with
Done(n)       == reqs[n].at = "done"

\* n was in progress together with another request about the same user that was carried out.
Overlapped(n) == \E m \in DOMAIN reqs : Done(m) /\ reqs[m].user = reqs[n].user /\ Overlap(m, n)

\* Types; the rows obey the constraints of table users.
TypeOK ==
  /\ row \in [Users -> Row] /\ marinas \in [Users -> SUBSET Access]
  /\ \A u \in Users : row[u].confirmed # None => row[u].secret # None
  /\ \A u \in Users : \A a, b \in marinas[u] : a.marina = b.marina => a = b
  /\ backup \in [Users -> SUBSET Code]
  /\ links \subseteq Link /\ mfa \subseteq Users
  /\ sessions \subseteq [user : Users, stamp : Numbers \union {None}]
  /\ Len(reqs) <= MaxRequests
  /\ cleared \in [1 .. MaxRequests -> (SUBSET Numbers) \union {None}]

\* An active admin is left (the check of users.py:96), unless two removals, each of which saw
\* the other's admin, were in progress together.
AdminLeft ==
  \/ ActiveAdmins # {}
  \/ \E m, n \in DOMAIN reqs : reqs[m].kind = "update" /\ reqs[n].kind = "update"
                               /\ Done(m) /\ Done(n) /\ Overlap(m, n)

\* A code of the phone, a backup code and a setup link are used once.  No row is locked while
\* they are checked: requests in progress together can use one twice, and can set last_step back
\* to an earlier code.
OneUse ==
  \A m, n \in DOMAIN reqs :
    Done(m) /\ Done(n) /\ m # n /\ reqs[m].effect.takes # None
      /\ reqs[m].effect.takes = reqs[n].effect.takes => Overlapped(m) \/ Overlapped(n)

\* Failures of u that were committed since it was last signed in, unlocked or locked.
Guess(n) == reqs[n].kind \in {"login", "verify", "confirm", "regenerate"}
            /\ (reqs[n].effect.row.failed > reqs[n].old.failed
                \/ (reqs[n].effect.row.locked /\ ~reqs[n].old.locked))
Clears(n) == \/ reqs[n].kind = "unlock" \/ reqs[n].effect.opens
             \/ Guess(n) /\ reqs[n].effect.row.locked
Guesses(u) ==
  {n \in DOMAIN reqs : Done(n) /\ reqs[n].user = u /\ Guess(n) /\
     ~ \E m \in DOMAIN reqs : Done(m) /\ reqs[m].user = u /\ Clears(m)
                              /\ reqs[m].done >= reqs[n].done}

\* Password and code failures add up to a lock; a right password alone does not start the
\* count again.  Failures in progress together count as one (failed_count is read, then written).
BoundedGuesses ==
  \A u \in Users : Cardinality(Guesses(u)) >= THRESHOLD => \E n \in Guesses(u) : Overlapped(n)

\* A reset of the second factor ends the sessions there were for good, also once the user has
\* enrolled again, unless it overlapped another request about that user.
SessionsEnd ==
  \A n \in DOMAIN reqs : \A s \in reqs[n].ends : TokenMatches(s) => Overlapped(n)

\* The second factor is confirmed only for a secret whose code was given
\* (accounts.py:137), unless another request about the user overlapped the confirmation.
ConfirmedByPhone ==
  \A u \in Users : row[u].confirmed # None /\ row[u].secret # 0 =>
    \E n \in DOMAIN reqs :
      /\ Done(n) /\ reqs[n].user = u /\ reqs[n].kind = "confirm" /\ reqs[n].effect.opens
      /\ reqs[n].effect.takes.n = row[u].secret \/ Overlapped(n)

\* An update that leaves a user an admin ends the access there was: whatever overlaps it, and
\* whatever comes later, no row inserted by a request that was over when the update began is
\* there again, should the user be a manager once more.  (A row of a grant or an update in
\* progress together with it survives, and so does one that the body of the update names.)
NothingRevived ==
  \A n \in DOMAIN reqs :
    Done(n) /\ reqs[n].kind = "update" /\ reqs[n].effect.row.role = "admin" =>
      \A a \in marinas[reqs[n].user] : a.n >= n \/ a.n \in reqs[n].with
=============================================================================
