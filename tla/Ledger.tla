-------------------------------- MODULE Ledger --------------------------------
(***************************************************************************)
(* The credit ledger (services/credit.py, models/billing.py): append-only  *)
(* rows, the newest one carries the balance.                               *)
(*                                                                         *)
(* PostgreSQL, READ COMMITTED: SELECT .. FOR UPDATE takes the newest row   *)
(* of its snapshot and waits while another transaction has it locked; the  *)
(* row was not changed, only followed by another one, and so the waiter    *)
(* goes on with the row it found first.  With no row nothing is locked.    *)
(***************************************************************************)
EXTENDS Integers, Sequences, FiniteSets

CONSTANTS
  Customers, Demo,    \* is_demo
  Deltas, Null,
  MaxPosts            \* bound

Reasons == {"topup", "adjustment"}

LedgerRow == [id : Nat, customer : Customers, delta : Int, post : Nat, after : Int]

\* NULL is no id and no row.
LedgerAssumption ==
  Deltas \subseteq Int /\ MaxPosts \in Nat /\ Null \notin Nat /\ Null \notin LedgerRow

VARIABLES
  ledger,   \* committed rows: id, customer, delta, balance_after and the post
  posts,    \* calls of post, in the order they read
  nextId    \* the sequence of the ids

ledgerVars == <<ledger, posts, nextId>>

RowsOf(c) == {r \in ledger : r.customer = c}

\* Mutant: the newest row of any customer.
Newest_Anyone(c) ==
  IF ledger = {} THEN Null ELSE CHOOSE r \in ledger : \A s \in ledger : s.id <= r.id

Newest(c) ==
  IF RowsOf(c) = {} THEN Null ELSE CHOOSE r \in RowsOf(c) : \A s \in RowsOf(c) : s.id <= r.id

\* balance.
Balance(c) == IF Newest(c) = Null THEN 0 ELSE Newest(c).after

OpenPosts == {n \in DOMAIN posts : posts[n].at \in {"waits", "read", "inserted"}}

Locked(r) == \E n \in OpenPosts : posts[n].at # "waits" /\ posts[n].last = r

\* A zero row records nothing, a top-up is positive.
Valid(reason, delta) == delta # 0 /\ ~(reason = "topup" /\ delta < 0)

\* post, to the newest row; beside: the posts still open.
BeginPost == \E c \in Customers, delta \in Deltas, reason \in Reasons :
  LET last == Newest(c) IN
  /\ Len(posts) < MaxPosts /\ Valid(reason, delta)
  /\ posts' = Append(posts, [customer |-> c, delta |-> delta, last |-> last, id |-> Null,
                             at |-> IF last # Null /\ Locked(last) THEN "waits" ELSE "read",
                             beside |-> OpenPosts])
  /\ UNCHANGED <<ledger, nextId>>

\* The lock is free.
GoesOn(n) ==
  /\ posts[n].at = "waits" /\ ~Locked(posts[n].last)
  /\ posts' = [posts EXCEPT ![n].at = "read"]
  /\ UNCHANGED <<ledger, nextId>>

\* Mutant: the id is the next after the newest row's; no sequence is drawn.
Insert_NextId(n) ==
  /\ posts[n].at = "read" /\ nextId' = nextId
  /\ posts' = [posts EXCEPT ![n].id = nextId,
                            ![n].at = IF posts[n].customer \in Demo THEN "failed" ELSE "inserted"]
  /\ UNCHANGED ledger

\* The row goes to the database, whose trigger refuses a demo customer.
Insert(n) ==
  /\ posts[n].at = "read" /\ nextId' = nextId + 1
  /\ posts' = [posts EXCEPT ![n].id = nextId,
                            ![n].at = IF posts[n].customer \in Demo THEN "failed" ELSE "inserted"]
  /\ UNCHANGED ledger

CommitPost(n) ==
  LET p == posts[n] IN
  /\ p.at = "inserted" /\ posts' = [posts EXCEPT ![n].at = "done"]
  /\ ledger' = ledger \union
       {[id |-> p.id, customer |-> p.customer, delta |-> p.delta, post |-> n,
         after |-> p.delta + (IF p.last = Null THEN 0 ELSE p.last.after)]}
  /\ UNCHANGED nextId

\* The process or its connection is lost: no row.
Fails(n) ==
  /\ n \in OpenPosts /\ posts' = [posts EXCEPT ![n].at = "failed"]
  /\ UNCHANGED <<ledger, nextId>>

LedgerInit == ledger = {} /\ posts = <<>> /\ nextId = 1

LedgerNext ==
  \/ BeginPost
  \/ \E n \in DOMAIN posts : GoesOn(n) \/ Insert(n) \/ CommitPost(n) \/ Fails(n)

LedgerSpec == LedgerInit /\ [][LedgerNext]_ledgerVars

(***************************************************************************)
(* Properties                                                              *)
(***************************************************************************)

\* Types of the variables.
LedgerTypeOK ==
  /\ nextId \in 1 .. MaxPosts + 1 /\ OpenPosts \subseteq DOMAIN posts
  /\ \A r \in ledger : /\ r.id \in 1 .. nextId - 1 /\ r.customer \in Customers
                       /\ r.delta \in Deltas /\ r.after \in Int

PostsOverlap(r, s) == r.post \in posts[s.post].beside \/ s.post \in posts[r.post].beside

\* "every row can be checked on its own: previous + delta = after" (credit.py:5), and the balance
\* is the sum of the rows, for posts of a customer one after the other.  Posts that overlap break
\* both, FOR UPDATE or not: they start from the same row, and one delta is in no balance.
LedgerAddsUp ==
  \A r \in ledger :
    LET earlier == {s \in ledger : s.customer = r.customer /\ s.id < r.id}
    IN \/ \E s \in ledger \ {r} : s.customer = r.customer /\ PostsOverlap(r, s)
       \/ earlier = {} /\ r.after = r.delta
       \/ \E s \in earlier : (\A t \in earlier : t.id <= s.id) /\ r.after = s.after + r.delta
=============================================================================
