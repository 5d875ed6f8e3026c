---------------------------- MODULE OfficeProofs ----------------------------
(***************************************************************************)
(* Four components of the run office, for any data and number of requests, *)
(* events and browsers; and, with AccountsProofs and SecurityAgentProofs,  *)
(* the types of all its parts.                                             *)
(*                                                                         *)
(* The credit ledger adds up, but for posts of a customer that overlap.    *)
(* The lock plays no part in it: what counts is that a post that began     *)
(* after another had ended has read that one's row, and has a larger id.   *)
(* Its ids are given one to a post, so there are no more of them.          *)
(*                                                                         *)
(* Two requests of the registry that are open at once overlap (Beside).    *)
(* So one that finds something changed since it read was overtaken by one  *)
(* it overlaps, and that is the exception each property makes.             *)
(*                                                                         *)
(* A berth's view: an answer that is stored was true when it was given,    *)
(* and the first row of the table that is true says what is not.           *)
(*                                                                         *)
(* The marina's events: a row's time of synchronisation is no older than   *)
(* the readings stored since, so retention takes it after their window; a  *)
(* client has one place in a list, so it is behind a broadcast when it has *)
(* heard it and was passed by it or not, whatever happens to later lists.  *)
(***************************************************************************)
EXTENDS MCOffice, AccountsProofs, SecurityAgentProofs

(***************************************************************************)
(* The ledger                                                              *)
(***************************************************************************)

Post == [customer : Customers, delta : Int, last : LedgerRow \union {Null},
         id : Nat \union {Null}, at : {"waits", "read", "inserted", "done", "failed"},
         beside : SUBSET Nat]

PostsTyped == ledger \subseteq LedgerRow /\ posts \in Seq(Post) /\ nextId \in Nat

\* m had ended when n began.
Before(m, n) == m < n /\ m \notin posts[n].beside

\* Ids are drawn in order; a post that is not written yet has none.
Drawn ==
  \A n \in DOMAIN posts :
    /\ posts[n].id # Null => posts[n].id < nextId
    /\ posts[n].at \in {"inserted", "done"} => posts[n].id # Null
    /\ posts[n].at \in {"waits", "read"} => posts[n].id = Null

\* A row is its post's, computed from the row the post had read.
Computed ==
  \A r \in ledger :
    /\ r.post \in DOMAIN posts
    /\ posts[r.post].at = "done" /\ posts[r.post].id = r.id /\ posts[r.post].customer = r.customer
    /\ r.after = r.delta + (IF posts[r.post].last = Null THEN 0 ELSE posts[r.post].last.after)

\* The row a post has read is its customer's, and of a post that had ended.
LastRead ==
  \A n \in DOMAIN posts : posts[n].last # Null =>
    /\ posts[n].last \in ledger /\ posts[n].last.customer = posts[n].customer
    /\ Before(posts[n].last.post, n)

\* A post that had ended when another began is not open again.
StaysEnded == \A m, n \in DOMAIN posts : Before(m, n) => m \notin OpenPosts

\* Of two posts the later one has the larger id.
IdsInOrder ==
  \A m, n \in DOMAIN posts :
    Before(m, n) /\ posts[m].id # Null /\ posts[n].id # Null => posts[m].id < posts[n].id

\* A post has read the newest of the rows there were.
ReadNewest ==
  \A n \in DOMAIN posts : \A s \in ledger :
    s.customer = posts[n].customer /\ Before(s.post, n) =>
      posts[n].last # Null /\ s.id <= posts[n].last.id

\* There is a newest row of a customer that has rows.
HasNewest ==
  \A c \in Customers : RowsOf(c) # {} =>
    \E r \in RowsOf(c) : \A s \in RowsOf(c) : s.id <= r.id

LedgerInv ==
  /\ PostsTyped /\ Drawn /\ Computed /\ LastRead /\ StaysEnded /\ IdsInOrder /\ ReadNewest /\ HasNewest

LEMMA InitInv == LedgerInit => LedgerInv
BY DEF LedgerInit, LedgerInv, PostsTyped, Drawn, Computed, LastRead, StaysEnded, IdsInOrder, ReadNewest,
       HasNewest, RowsOf

\* Newest is a row of the customer that no other is newer than.
LEMMA NewestRow ==
  ASSUME LedgerAssumption, LedgerInv, NEW c \in Customers
  PROVE  /\ Newest(c) # Null => Newest(c) \in ledger /\ Newest(c).customer = c
         /\ \A s \in ledger : s.customer = c => Newest(c) # Null /\ s.id <= Newest(c).id
<1>1. CASE RowsOf(c) = {}
  BY <1>1 DEF RowsOf, Newest
<1>2. CASE RowsOf(c) # {}
  <2>1. \E r \in RowsOf(c) : \A s \in RowsOf(c) : s.id <= r.id
    BY <1>2 DEF LedgerInv, HasNewest
  <2>2. Newest(c) \in RowsOf(c) /\ \A s \in RowsOf(c) : s.id <= Newest(c).id
    BY <1>2, <2>1 DEF Newest
  <2> QED BY <2>2 DEF RowsOf, LedgerInv, PostsTyped, LedgerAssumption
<1> QED BY <1>1, <1>2

\* A post that goes on or fails.
LEMMA AtInv ==
  ASSUME LedgerAssumption, LedgerInv, NEW n \in DOMAIN posts, NEW a \in {"read", "failed"},
         n \in OpenPosts, a = "read" => posts[n].at = "waits",
         posts' = [posts EXCEPT ![n].at = a], UNCHANGED <<ledger, nextId>>
  PROVE  LedgerInv'
<1> USE DEF LedgerInv
<1>1. posts[n] \in Post
  BY DEF PostsTyped
<1>2. /\ PostsTyped' /\ DOMAIN posts' = DOMAIN posts
      /\ \A k \in DOMAIN posts : k # n => posts'[k] = posts[k]
      /\ posts'[n] = [posts[n] EXCEPT !.at = a]
  <2>1. [posts[n] EXCEPT !.at = a] \in Post
    BY <1>1 DEF Post
  <2>2. posts' = [posts EXCEPT ![n] = [posts[n] EXCEPT !.at = a]] /\ posts \in Seq(Post)
    BY DEF PostsTyped
  <2> QED BY <2>1, <2>2 DEF PostsTyped
<1>3. \A k \in DOMAIN posts :
        /\ posts'[k].id = posts[k].id /\ posts'[k].last = posts[k].last
        /\ posts'[k].customer = posts[k].customer /\ posts'[k].beside = posts[k].beside
  BY <1>1, <1>2 DEF Post
<1>4. posts'[n].at = a /\ posts[n].at # "done"
  BY <1>1, <1>2 DEF Post, OpenPosts
<1>5. Drawn'
  BY <1>2, <1>3, <1>4 DEF Drawn
<1>6. Computed'
  BY <1>2, <1>3, <1>4 DEF Computed
<1>7. LastRead'
  BY <1>2, <1>3 DEF LastRead, Before
<1>8. OpenPosts' \subseteq OpenPosts
  BY <1>2, <1>4 DEF OpenPosts
<1>9. StaysEnded'
  BY <1>2, <1>3, <1>8 DEF StaysEnded, Before
<1>10. IdsInOrder'
  BY <1>2, <1>3 DEF IdsInOrder, Before
<1>11. ReadNewest'
  BY <1>2, <1>3 DEF ReadNewest, Before
<1>12. HasNewest'
  BY DEF HasNewest, RowsOf
<1> QED BY <1>2, <1>5, <1>6, <1>7, <1>9, <1>10, <1>11, <1>12

\* A new post reads the newest row; every row is of a post that has ended.
LEMMA BeginInv == ASSUME LedgerAssumption, LedgerInv, BeginPost PROVE LedgerInv'
<1> USE DEF LedgerInv
<1>1. PICK c \in Customers, delta \in Deltas : \E a \in {"waits", "read"} :
        posts' = Append(posts, [customer |-> c, delta |-> delta, last |-> Newest(c), id |-> Null,
                                at |-> a, beside |-> OpenPosts])
  BY DEF BeginPost
<1> DEFINE n == Len(posts) + 1
<1>2. UNCHANGED <<ledger, nextId>>
  BY DEF BeginPost
<1>3. /\ Newest(c) # Null => Newest(c) \in ledger /\ Newest(c).customer = c
      /\ \A s \in ledger : s.customer = c => Newest(c) # Null /\ s.id <= Newest(c).id
  BY NewestRow
<1>4. OpenPosts \subseteq 1 .. Len(posts) /\ DOMAIN posts = 1 .. Len(posts) /\ Len(posts) \in Nat
  BY DEF OpenPosts, PostsTyped
<1>5. PICK a \in {"waits", "read"} :
        posts' = Append(posts, [customer |-> c, delta |-> delta, last |-> Newest(c), id |-> Null,
                                at |-> a, beside |-> OpenPosts])
  BY <1>1
<1>6. [customer |-> c, delta |-> delta, last |-> Newest(c), id |-> Null,
       at |-> a, beside |-> OpenPosts] \in Post
  BY <1>3, <1>4 DEF Post, PostsTyped, LedgerAssumption
<1>7. /\ PostsTyped' /\ DOMAIN posts' = DOMAIN posts \union {n} /\ n \notin DOMAIN posts
      /\ \A k \in DOMAIN posts : posts'[k] = posts[k]
      /\ posts'[n] = [customer |-> c, delta |-> delta, last |-> Newest(c), id |-> Null,
                      at |-> a, beside |-> OpenPosts]
  BY <1>2, <1>4, <1>5, <1>6 DEF PostsTyped
<1>8. /\ posts'[n].id = Null /\ posts'[n].at \in {"waits", "read"} /\ posts'[n].last = Newest(c)
      /\ posts'[n].customer = c /\ posts'[n].beside = OpenPosts
  BY <1>7
<1>9. \A s \in ledger : s.post \in DOMAIN posts /\ s.post \notin OpenPosts
  BY DEF Computed, OpenPosts
<1>10. Drawn'
  BY <1>2, <1>7, <1>8 DEF Drawn
<1>11. Computed'
  BY <1>2, <1>7 DEF Computed
<1>12. LastRead'
  <2>1. ASSUME NEW k \in DOMAIN posts, posts[k].last # Null
        PROVE  /\ posts[k].last \in ledger /\ posts[k].last.customer = posts[k].customer
               /\ Before(posts[k].last.post, k)
    BY <2>1 DEF LastRead
  <2>2. ASSUME Newest(c) # Null
        PROVE  Newest(c).post < n /\ Newest(c).post \notin OpenPosts
    BY <1>3, <1>4, <1>9, <2>2
  <2> QED BY <1>2, <1>3, <1>7, <1>8, <2>1, <2>2 DEF LastRead, Before
<1>13. StaysEnded'
  <2>1. \A k \in DOMAIN posts' : k \in OpenPosts' => k \in OpenPosts \/ k = n
    BY <1>7 DEF OpenPosts
  <2>2. ASSUME NEW m \in DOMAIN posts', NEW k \in DOMAIN posts', Before(m, k)', m \in OpenPosts'
        PROVE  FALSE
    <3>1. CASE k = n
      BY <1>4, <1>7, <1>8, <2>1, <2>2, <3>1 DEF Before
    <3>2. CASE k # n
      BY <1>4, <1>7, <2>1, <2>2, <3>2 DEF Before, StaysEnded
    <3> QED BY <3>1, <3>2
  <2> QED BY <2>2 DEF StaysEnded
<1>14. IdsInOrder'
  BY <1>7, <1>8 DEF IdsInOrder, Before
<1>15. ReadNewest'
  BY <1>2, <1>3, <1>7, <1>8 DEF ReadNewest, Before
<1>16. HasNewest'
  BY <1>2 DEF HasNewest, RowsOf
<1> QED BY <1>7, <1>10, <1>11, <1>12, <1>13, <1>14, <1>15, <1>16

\* The id drawn is larger than any before it; no post began after this one had ended.
LEMMA InsertInv ==
  ASSUME LedgerAssumption, LedgerInv, NEW n \in DOMAIN posts, Insert(n) PROVE LedgerInv'
<1> USE DEF LedgerInv
<1>1. posts[n] \in Post /\ nextId \in Nat /\ nextId # Null
  BY DEF PostsTyped, LedgerAssumption
<1>2. PICK a \in {"failed", "inserted"} : posts' = [posts EXCEPT ![n].id = nextId, ![n].at = a]
  BY DEF Insert
<1>3. posts[n].at = "read" /\ nextId' = nextId + 1 /\ ledger' = ledger
  BY DEF Insert
<1>4. /\ PostsTyped' /\ DOMAIN posts' = DOMAIN posts
      /\ \A k \in DOMAIN posts : k # n => posts'[k] = posts[k]
      /\ posts'[n] = [posts[n] EXCEPT !.id = nextId, !.at = a]
  <2>1. [posts[n] EXCEPT !.id = nextId, !.at = a] \in Post
    BY <1>1 DEF Post
  <2>2. /\ posts' = [posts EXCEPT ![n] = [posts[n] EXCEPT !.id = nextId, !.at = a]]
        /\ posts \in Seq(Post)
    BY <1>1, <1>2 DEF PostsTyped
  <2> QED BY <1>1, <1>3, <2>1, <2>2 DEF PostsTyped
<1>5. \A k \in DOMAIN posts :
        /\ posts'[k].last = posts[k].last
        /\ posts'[k].customer = posts[k].customer /\ posts'[k].beside = posts[k].beside
  BY <1>1, <1>4 DEF Post
<1>6. posts'[n].at = a /\ posts'[n].id = nextId
  BY <1>1, <1>4 DEF Post
<1>7. n \in OpenPosts /\ OpenPosts' \subseteq OpenPosts
  BY <1>3, <1>4, <1>6 DEF OpenPosts
<1>8. \A k \in DOMAIN posts : posts[k].id \in Nat \union {Null}
  <2>1. \A k \in DOMAIN posts : posts[k] \in Post
    BY DEF PostsTyped
  <2> QED BY <2>1 DEF Post
<1>9. Drawn'
  <2>1. ASSUME NEW k \in DOMAIN posts, k # n
        PROVE  /\ posts'[k].id # Null => posts'[k].id < nextId'
               /\ posts'[k].at \in {"inserted", "done"} => posts'[k].id # Null
               /\ posts'[k].at \in {"waits", "read"} => posts'[k].id = Null
    <3>1. posts'[k] = posts[k]
      BY <1>4, <2>1
    <3>2. posts[k].id # Null => posts[k].id < nextId + 1
      BY <1>1, <1>8 DEF Drawn
    <3> QED BY <1>3, <3>1, <3>2 DEF Drawn
  <2>2. /\ posts'[n].id < nextId' /\ posts'[n].id # Null
        /\ posts'[n].at \notin {"waits", "read"}
    BY <1>1, <1>3, <1>6
  <2>3. DOMAIN posts' = DOMAIN posts
    BY <1>4
  <2> QED BY <2>1, <2>2, <2>3 DEF Drawn
<1>10. Computed'
  BY <1>3, <1>4 DEF Computed
<1>11. LastRead'
  BY <1>3, <1>4, <1>5 DEF LastRead, Before
<1>12. StaysEnded'
  BY <1>4, <1>5, <1>7 DEF StaysEnded, Before
<1>13. IdsInOrder'
  <2>1. SUFFICES ASSUME NEW m \in DOMAIN posts, NEW k \in DOMAIN posts, Before(m, k)',
                        posts'[m].id # Null, posts'[k].id # Null
                 PROVE  posts'[m].id < posts'[k].id
    BY <1>4 DEF IdsInOrder
  <2>2. Before(m, k) /\ m # n /\ m # k
    BY <1>4, <1>5, <1>7, <1>8, <2>1 DEF StaysEnded, Before, PostsTyped
  <2>3. posts'[m] = posts[m]
    BY <1>4, <2>2
  <2>4. CASE k = n
    BY <1>6, <2>1, <2>3, <2>4 DEF Drawn
  <2>5. CASE k # n
    BY <1>4, <2>1, <2>2, <2>3, <2>5 DEF IdsInOrder
  <2> QED BY <2>4, <2>5
<1>14. ReadNewest'
  BY <1>3, <1>4, <1>5 DEF ReadNewest, Before
<1>15. HasNewest'
  BY <1>3 DEF HasNewest, RowsOf
<1> QED BY <1>4, <1>9, <1>10, <1>11, <1>12, <1>13, <1>14, <1>15

\* The row is written with the id drawn; nobody began after this post had ended.
LEMMA CommitInv ==
  ASSUME LedgerAssumption, LedgerInv, NEW n \in DOMAIN posts, CommitPost(n) PROVE LedgerInv'
<1> USE DEF LedgerInv
<1> DEFINE p == posts[n]
           entry == [id |-> p.id, customer |-> p.customer, delta |-> p.delta, post |-> n,
                   after |-> p.delta + (IF p.last = Null THEN 0 ELSE p.last.after)]
<1>1. /\ p.at = "inserted" /\ posts' = [posts EXCEPT ![n].at = "done"] /\ nextId' = nextId
      /\ ledger' = ledger \union {entry}
  BY DEF CommitPost
<1>2. p \in Post /\ n \in Nat /\ posts \in Seq(Post) /\ p.id \in Nat
  <2>1. p \in Post /\ n \in Nat /\ posts \in Seq(Post)
    BY DEF PostsTyped
  <2> QED BY <1>1, <2>1 DEF Drawn, Post
<1>3. entry \in LedgerRow
  <2>1. (IF p.last = Null THEN 0 ELSE p.last.after) \in Int
    BY <1>2 DEF Post, LedgerRow
  <2> QED BY <1>2, <2>1 DEF Post, LedgerRow
<1>4. /\ PostsTyped' /\ DOMAIN posts' = DOMAIN posts
      /\ \A k \in DOMAIN posts : k # n => posts'[k] = posts[k]
      /\ posts'[n] = [p EXCEPT !.at = "done"]
  <2>1. [p EXCEPT !.at = "done"] \in Post
    BY <1>2 DEF Post
  <2>2. posts' = [posts EXCEPT ![n] = [p EXCEPT !.at = "done"]]
    BY <1>1, <1>2
  <2> QED BY <1>1, <1>2, <1>3, <2>1, <2>2 DEF PostsTyped
<1>5. \A k \in DOMAIN posts :
        /\ posts'[k].id = posts[k].id /\ posts'[k].last = posts[k].last
        /\ posts'[k].customer = posts[k].customer /\ posts'[k].beside = posts[k].beside
  BY <1>2, <1>4 DEF Post
<1>6. posts'[n].at = "done"
  BY <1>2, <1>4 DEF Post
<1>7. n \in OpenPosts /\ OpenPosts' \subseteq OpenPosts
  BY <1>1, <1>4, <1>6 DEF OpenPosts
<1>8. /\ entry.id = p.id /\ entry.customer = p.customer /\ entry.post = n
      /\ entry.after = entry.delta + (IF p.last = Null THEN 0 ELSE p.last.after)
  OBVIOUS
<1> HIDE DEF entry, p
<1>9. Drawn'
  BY <1>1, <1>4, <1>5, <1>6 DEF Drawn, p
<1>10. Computed'
  <2>1. \A r \in ledger : r.post # n
    BY <1>1 DEF Computed, p
  <2>2. \A r \in ledger : posts'[r.post] = posts[r.post] /\ r.post \in DOMAIN posts'
    BY <1>4, <2>1 DEF Computed
  <2>3. /\ n \in DOMAIN posts' /\ posts'[n].at = "done" /\ posts'[n].id = entry.id
        /\ posts'[n].customer = entry.customer /\ posts'[n].last = p.last
    BY <1>4, <1>5, <1>6, <1>8 DEF p
  <2>4. ASSUME NEW r \in ledger'
        PROVE  /\ r.post \in DOMAIN posts'
               /\ posts'[r.post].at = "done" /\ posts'[r.post].id = r.id
               /\ posts'[r.post].customer = r.customer
               /\ r.after = r.delta + (IF posts'[r.post].last = Null
                                         THEN 0 ELSE posts'[r.post].last.after)
    <3>1. CASE r = entry
      BY <1>8, <2>3, <3>1
    <3>2. CASE r \in ledger
      BY <2>2, <3>2 DEF Computed
    <3> QED BY <1>1, <3>1, <3>2
  <2> QED BY <2>4 DEF Computed
<1>11. LastRead'
  BY <1>1, <1>4, <1>5 DEF LastRead, Before
<1>12. StaysEnded'
  BY <1>4, <1>5, <1>7 DEF StaysEnded, Before
<1>13. IdsInOrder'
  BY <1>4, <1>5 DEF IdsInOrder, Before
<1>14. ReadNewest'
  <2>1. \A k \in DOMAIN posts : ~Before(n, k)
    BY <1>7 DEF StaysEnded
  <2> QED BY <1>1, <1>4, <1>5, <1>8, <2>1 DEF ReadNewest, Before
<1>15. HasNewest'
  <2>1. SUFFICES ASSUME NEW c \in Customers, RowsOf(c)' # {}
                 PROVE  \E r \in RowsOf(c)' : \A s \in RowsOf(c)' : s.id <= r.id
    BY DEF HasNewest
  <2>2. \A r \in RowsOf(c)' : r.id \in Nat
    BY <1>4 DEF PostsTyped, RowsOf, LedgerRow
  <2>3. CASE c # entry.customer
    <3>1. RowsOf(c)' = RowsOf(c)
      BY <1>1, <2>3 DEF RowsOf
    <3> QED BY <2>1, <3>1 DEF HasNewest
  <2>4. CASE c = entry.customer
    <3>1. RowsOf(c)' = RowsOf(c) \union {entry}
      BY <1>1, <2>4 DEF RowsOf
    <3>2. CASE RowsOf(c) = {}
      BY <2>2, <3>1, <3>2
    <3>3. CASE RowsOf(c) # {}
      <4>1. PICK r \in RowsOf(c) : \A s \in RowsOf(c) : s.id <= r.id
        BY <3>3 DEF HasNewest
      <4>2. CASE entry.id <= r.id
        BY <3>1, <4>1, <4>2
      <4>3. CASE ~(entry.id <= r.id)
        BY <2>2, <3>1, <4>1, <4>3
      <4> QED BY <4>2, <4>3
    <3> QED BY <3>2, <3>3
  <2> QED BY <2>3, <2>4
<1> QED BY <1>4, <1>9, <1>10, <1>11, <1>12, <1>13, <1>14, <1>15

\* Every step keeps the invariant.
LEMMA StepInv ==
  ASSUME LedgerAssumption, LedgerInv, [LedgerNext]_ledgerVars PROVE LedgerInv'
<1>1. CASE BeginPost
  BY <1>1, BeginInv
<1>2. ASSUME NEW n \in DOMAIN posts, GoesOn(n) PROVE LedgerInv'
  <2>1. n \in OpenPosts /\ posts[n].at = "waits" /\ posts' = [posts EXCEPT ![n].at = "read"]
    BY <1>2 DEF GoesOn, OpenPosts
  <2>2. UNCHANGED <<ledger, nextId>>
    BY <1>2 DEF GoesOn
  <2> QED BY <2>1, <2>2, AtInv
<1>3. ASSUME NEW n \in DOMAIN posts, Insert(n) PROVE LedgerInv'
  BY <1>3, InsertInv
<1>4. ASSUME NEW n \in DOMAIN posts, CommitPost(n) PROVE LedgerInv'
  BY <1>4, CommitInv
<1>5. ASSUME NEW n \in DOMAIN posts, Fails(n) PROVE LedgerInv'
  <2>1. n \in OpenPosts /\ posts' = [posts EXCEPT ![n].at = "failed"]
    BY <1>5 DEF Fails
  <2>2. UNCHANGED <<ledger, nextId>>
    BY <1>5 DEF Fails
  <2> QED BY <2>1, <2>2, AtInv
<1>6. CASE UNCHANGED ledgerVars
  BY <1>6 DEF ledgerVars, LedgerInv, PostsTyped, Drawn, Computed, LastRead, StaysEnded, IdsInOrder,
              ReadNewest, HasNewest, OpenPosts, Before, RowsOf
<1> QED BY <1>1, <1>2, <1>3, <1>4, <1>5, <1>6 DEF LedgerNext

\* A row no post overlapped: the rows before it are those its post could read.
LEMMA InvAddsUp == ASSUME LedgerAssumption, LedgerInv PROVE LedgerAddsUp
<1> USE DEF LedgerInv
<1>1. SUFFICES ASSUME NEW r \in ledger,
                      \A s \in ledger \ {r} : s.customer = r.customer => ~PostsOverlap(r, s)
               PROVE  LET earlier == {s \in ledger : s.customer = r.customer /\ s.id < r.id}
                      IN \/ earlier = {} /\ r.after = r.delta
                         \/ \E s \in earlier : /\ \A t \in earlier : t.id <= s.id
                                               /\ r.after = s.after + r.delta
  BY DEF LedgerAddsUp
<1> DEFINE earlier == {s \in ledger : s.customer = r.customer /\ s.id < r.id}
           n == r.post
           last == posts[n].last
<1>2. \A s \in ledger : s.id \in Nat /\ s.post \in Nat /\ s.after \in Int /\ s.delta \in Int
  BY DEF PostsTyped, LedgerRow
<1>3. \A s \in ledger : /\ s.post \in DOMAIN posts /\ posts[s.post].id = s.id
                        /\ posts[s.post].customer = s.customer /\ s.id # Null
  BY <1>2 DEF Computed, LedgerAssumption
<1>4. r.after = r.delta + (IF last = Null THEN 0 ELSE last.after)
  BY DEF Computed
<1>5. ASSUME NEW s \in earlier PROVE last # Null /\ s.id <= last.id
  <2>1. s \in ledger /\ s # r /\ s.post # n /\ ~PostsOverlap(r, s)
    BY <1>1, <1>2, <1>3, <1>5
  <2>2. CASE n < s.post
    <3>1. Before(n, s.post)
      BY <2>1, <2>2 DEF PostsOverlap, Before
    <3>2. r.id < s.id
      BY <1>3, <2>1, <3>1 DEF IdsInOrder
    <3> QED BY <1>2, <1>5, <3>2
  <2>3. CASE s.post < n
    <3>1. Before(s.post, n)
      BY <2>1, <2>3 DEF PostsOverlap, Before
    <3> QED BY <1>3, <1>5, <3>1 DEF ReadNewest
  <2> QED BY <1>2, <2>1, <2>2, <2>3
<1>6. CASE last = Null
  BY <1>2, <1>4, <1>5, <1>6
<1>7. CASE last # Null
  <2>1. last \in ledger /\ last.customer = r.customer /\ Before(last.post, n)
    BY <1>3, <1>7 DEF LastRead
  <2>2. last.id < r.id
    BY <1>3, <2>1 DEF IdsInOrder
  <2>3. r.after = last.after + r.delta
    BY <1>2, <1>4, <1>7, <2>1
  <2> QED BY <1>5, <2>1, <2>2, <2>3
<1> QED BY <1>6, <1>7

\* Every row adds up with the one before it, but for posts of a customer that overlap
\* (credit.py:5), for any customers, amounts and number of posts.
THEOREM LedgerAddsUpHolds == ASSUME LedgerAssumption PROVE LedgerSpec => []LedgerAddsUp
<1>1. LedgerInit => LedgerInv
  BY InitInv
<1>2. LedgerInv /\ [LedgerNext]_ledgerVars => LedgerInv'
  BY StepInv
<1>3. LedgerInv => LedgerAddsUp
  BY InvAddsUp
<1> QED BY <1>1, <1>2, <1>3, PTL DEF LedgerSpec

\* Every id the sequence gave is some post's, so there are no more ids than posts.
IdsGiven ==
  /\ nextId >= 1 /\ Len(posts) <= MaxPosts
  /\ \A i \in 1 .. nextId - 1 : \E n \in DOMAIN posts : posts[n].id = i
  /\ \A n \in DOMAIN posts :
       posts[n].delta \in Deltas /\ (posts[n].id # Null => posts[n].id >= 1)
  /\ \A r \in ledger : r.delta \in Deltas

LEMMA NoMoreIds ==
  ASSUME LedgerAssumption, LedgerInv, IdsGiven
  PROVE  nextId - 1 <= MaxPosts
<1>. DEFINE GivenIds == 1 .. nextId - 1
            Of == [i \in GivenIds |-> CHOOSE n \in DOMAIN posts : posts[n].id = i]
<1>1. /\ nextId \in Nat /\ nextId >= 1 /\ MaxPosts \in Nat /\ Len(posts) \in Nat
      /\ Len(posts) <= MaxPosts /\ DOMAIN posts = 1 .. Len(posts)
  BY DEF LedgerInv, PostsTyped, LedgerAssumption, IdsGiven
<1>2. \A i \in GivenIds : Of[i] \in DOMAIN posts /\ posts[Of[i]].id = i
  BY DEF IdsGiven
<1>. HIDE DEF Of
<1>3. Of \in Injection(GivenIds, DOMAIN posts)
  <2>1. Of \in [GivenIds -> DOMAIN posts]
    BY <1>2 DEF Of
  <2>2. \A i, j \in GivenIds : Of[i] = Of[j] => i = j
    BY <1>2
  <2> QED BY <2>1, <2>2 DEF Injection, IsInjective
<1>4. IsFiniteSet(DOMAIN posts) /\ Cardinality(DOMAIN posts) = Len(posts)
  <2>1. \A k \in Nat : IsFiniteSet(1 .. k) /\ Cardinality(1 .. k) = k
    <3> TAKE k \in Nat
    <3>1. 1 \in Int /\ k \in Int /\ (k = 0 \/ ~(1 > k))
      OBVIOUS
    <3>2. /\ IsFiniteSet(1 .. k)
          /\ Cardinality(1 .. k) = IF 1 > k THEN 0 ELSE k - 1 + 1
      BY <3>1, FS_Interval
    <3> QED BY <3>1, <3>2
  <2> QED BY <1>1, <2>1
<1>5. Cardinality(GivenIds) <= Len(posts)
  BY <1>3, <1>4, FS_Injection
<1>6. Cardinality(GivenIds) = nextId - 1
  BY <1>1, FS_Interval
<1> QED BY <1>1, <1>5, <1>6

LEMMA IdsStep ==
  ASSUME LedgerAssumption, LedgerInv, IdsGiven, [LedgerNext]_ledgerVars
  PROVE  IdsGiven'
<1>1. posts \in Seq(Post) /\ nextId \in Nat /\ Len(posts) \in Nat /\ DOMAIN posts = 1 .. Len(posts)
  BY DEF LedgerInv, PostsTyped
<1>2. CASE BeginPost
  <2>1. PICK c \in Customers, delta \in Deltas :
          /\ Len(posts) < MaxPosts /\ UNCHANGED <<ledger, nextId>>
          /\ \E last, at, beside :
               posts' = Append(posts, [customer |-> c, delta |-> delta, last |-> last, id |-> Null,
                                       at |-> at, beside |-> beside])
    BY <1>2 DEF BeginPost
  <2>2. PICK p : posts' = Append(posts, p) /\ p.delta = delta /\ p.id = Null
    BY <2>1
  <2>3. /\ Len(posts') = Len(posts) + 1 /\ DOMAIN posts' = DOMAIN posts \union {Len(posts) + 1}
        /\ posts'[Len(posts) + 1] = p /\ \A n \in DOMAIN posts : posts'[n] = posts[n]
    BY <1>1, <2>2
  <2> QED BY <1>1, <2>1, <2>2, <2>3 DEF IdsGiven, LedgerAssumption
<1>3. ASSUME NEW n \in DOMAIN posts, Insert(n)
      PROVE  IdsGiven'
  <2>1. /\ DOMAIN posts' = DOMAIN posts /\ Len(posts') = Len(posts)
        /\ posts'[n].id = nextId /\ posts'[n].delta = posts[n].delta /\ posts[n].id = Null
        /\ \A m \in DOMAIN posts : m # n => posts'[m] = posts[m]
        /\ nextId' = nextId + 1 /\ ledger' = ledger
    BY <1>1, <1>3 DEF Insert, Post, LedgerInv, Drawn
  <2>2. ASSUME NEW i \in 1 .. nextId' - 1
        PROVE  \E m \in DOMAIN posts' : posts'[m].id = i
    <3>1. CASE i = nextId
      BY <2>1, <3>1
    <3>2. CASE i # nextId
      <4>1. i \in 1 .. nextId - 1 /\ i # Null
        BY <1>1, <2>1, <3>2 DEF LedgerAssumption
      <4>2. PICK m \in DOMAIN posts : posts[m].id = i
        BY <4>1 DEF IdsGiven
      <4> QED BY <2>1, <4>1, <4>2
    <3> QED BY <3>1, <3>2
  <2> QED BY <1>1, <2>1, <2>2 DEF IdsGiven
<1>4. ASSUME NEW n \in DOMAIN posts, NEW a, posts' = [posts EXCEPT ![n].at = a],
             UNCHANGED nextId, \A r \in ledger' : r.delta \in Deltas
      PROVE  IdsGiven'
  <2>1. /\ DOMAIN posts' = DOMAIN posts /\ Len(posts') = Len(posts)
        /\ \A m \in DOMAIN posts :
             posts'[m].id = posts[m].id /\ posts'[m].delta = posts[m].delta
    BY <1>1, <1>4 DEF Post
  <2> QED BY <1>1, <1>4, <2>1 DEF IdsGiven
<1>5. ASSUME NEW n \in DOMAIN posts, CommitPost(n)
      PROVE  IdsGiven'
  <2>1. \A r \in ledger' : r.delta \in Deltas
    BY <1>5 DEF CommitPost, IdsGiven
  <2> QED BY <1>4, <1>5, <2>1 DEF CommitPost
<1>6. ASSUME NEW n \in DOMAIN posts, GoesOn(n) \/ Fails(n)
      PROVE  IdsGiven'
  BY <1>4, <1>6 DEF GoesOn, Fails, IdsGiven
<1>7. CASE UNCHANGED ledgerVars
  BY <1>7 DEF ledgerVars, IdsGiven
<1> QED BY <1>2, <1>3, <1>5, <1>6, <1>7 DEF LedgerNext

\* The ledger's rows and ids are of their types: an id per post, and no more ids than posts.
THEOREM LedgerTypeCorrect == ASSUME LedgerAssumption PROVE LedgerSpec => []LedgerTypeOK
<1>1. LedgerInit => LedgerInv /\ IdsGiven
  BY InitInv DEF LedgerInit, IdsGiven, LedgerAssumption
<1>2. LedgerInv /\ IdsGiven /\ [LedgerNext]_ledgerVars => (LedgerInv /\ IdsGiven)'
  BY StepInv, IdsStep
<1>3. ASSUME LedgerInv, IdsGiven PROVE LedgerTypeOK
  <2>1. nextId \in 1 .. MaxPosts + 1
    BY <1>3, NoMoreIds DEF LedgerInv, PostsTyped, IdsGiven, LedgerAssumption
  <2>2. ASSUME NEW r \in ledger
        PROVE  /\ r.id \in 1 .. nextId - 1 /\ r.customer \in Customers
               /\ r.delta \in Deltas /\ r.after \in Int
    <3>1. /\ r.post \in DOMAIN posts /\ posts[r.post].id = r.id /\ r.id \in Nat /\ r.id # Null
          /\ r.customer \in Customers /\ r.after \in Int
      BY <1>3, <2>2 DEF LedgerInv, Computed, PostsTyped, LedgerRow, LedgerAssumption
    <3>2. r.id < nextId /\ r.id >= 1 /\ nextId \in Nat
      BY <1>3, <3>1 DEF LedgerInv, Drawn, PostsTyped, IdsGiven
    <3> QED BY <1>3, <3>1, <3>2 DEF IdsGiven
  <2> QED BY <2>1, <2>2 DEF LedgerTypeOK, OpenPosts
<1> QED BY <1>1, <1>2, <1>3, PTL DEF LedgerSpec

(***************************************************************************)
(* The registry                                                            *)
(***************************************************************************)

Stay == [berth : Berths, vessel : 1 .. MaxAsks, left : BOOLEAN]
MappingRow == [berth : Berths, outlet : Outlets, by : 1 .. MaxAsks]
AskRecord ==
  [kind : AskKinds, berth : Berths \union {Unset}, outlets : SUBSET Outlets,
   lines : SUBSET TagLine, current : (SUBSET Stay) \union {Unset},
   state : {"begun", "deleting", "done", "refused"}, doomed : SUBSET MappingRow,
   waits : SUBSET Nat, beside : SUBSET Nat]

AsksTyped == RegistryTypeOK /\ asks \in Seq(AskRecord)

\* Requests that are open at once overlap, and one that began while another was open.
Beside == \A m, n \in OpenAsks : m # n => Overlapping(m, n)
Ranked == \A n \in OpenAsks, m \in DOMAIN asks : m > n => Overlapping(m, n)

\* Once a request has marked the rows of its berth, the ones it has not marked are of requests
\* it overlaps.
Marks(n) ==
  /\ \A r \in asks[n].doomed : r.berth = asks[n].berth
  /\ asks[n].state = "deleting" =>
       /\ asks[n].kind = "outlets"
       /\ \A r \in serves : r.berth = asks[n].berth => r \in asks[n].doomed \/ Overlapping(r.by, n)

\* The two halves of MappingReplaced: where a row is from, and what is there of a request.
From(r) ==
  /\ r.by \in Finished(r.berth)
  /\ \A m \in Finished(r.berth) : m > r.by => Overlapping(m, r.by)
InPlace(b, n) ==
  \A o \in asks[n].outlets :
    \/ \E r \in serves : r.berth = b /\ r.outlet = o
    \/ \E m \in Finished(b) : m # n /\ (m > n \/ Overlapping(m, n))
Lasting(b) == \A n \in Finished(b) : InPlace(b, n)

\* A line names one outlet per tag, and no tag that was there when the file was read.
Imports(n) ==
  /\ \A l, k \in asks[n].lines : l.uid = k.uid => l.outlet = k.outlet
  /\ Open(n) => \A l \in asks[n].lines, t \in tags : t.uid = l.uid => Overlapping(t.by, n)

\* All but an import are about a berth, and a vessel's request has read its stays.
Aimed(n) ==
  /\ asks[n].kind # "import" => asks[n].berth \in Berths
  /\ asks[n].kind \in {"set_vessel", "clear_vessel"} => asks[n].current \subseteq Stay

RegistryInv ==
  /\ AsksTyped /\ Beside /\ Ranked /\ TagResolvesOnce
  /\ \A n \in DOMAIN asks : Aimed(n) /\ Marks(n) /\ Imports(n)
  /\ \A r \in serves : From(r)
  /\ \A b \in Berths : Lasting(b)
  /\ \A t \in tags : t.by \in DOMAIN asks /\ ~Open(t.by)

(***************************************************************************)
(* Steps of the requests                                                   *)
(***************************************************************************)

\* The fields of a request have their types.
LEMMA Asking ==
  ASSUME AsksTyped, NEW n \in DOMAIN asks
  PROVE  /\ n \in 1 .. MaxAsks /\ n \in Nat /\ asks[n] \in AskRecord
         /\ asks[n].kind \in AskKinds /\ asks[n].berth \in Berths \union {Unset}
         /\ asks[n].outlets \subseteq Outlets /\ asks[n].lines \subseteq TagLine
         /\ asks[n].current \in (SUBSET Stay) \union {Unset}
         /\ asks[n].doomed \subseteq MappingRow
<1>1. n \in 1 .. Len(asks) /\ Len(asks) \in Nat /\ Len(asks) <= MaxAsks /\ MaxAsks \in Nat
  BY RegistryAssumption DEF AsksTyped, RegistryTypeOK
<1>2. asks[n] \in AskRecord
  BY DEF AsksTyped
<1> QED BY <1>1, <1>2 DEF AskRecord

\* A request that begins is numbered next, and overlaps whatever is open.
AskBegins(N, kind, b, lines, current) ==
  /\ N \notin DOMAIN asks /\ DOMAIN asks' = DOMAIN asks \union {N}
  /\ \A n \in DOMAIN asks : asks'[n] = asks[n]
  /\ asks'[N].kind = kind /\ asks'[N].berth = b /\ asks'[N].current = current
  /\ asks'[N].lines = lines /\ asks'[N].state = "begun" /\ asks'[N].doomed = {}
  /\ asks' \in Seq(AskRecord) /\ Len(asks') <= MaxAsks
  /\ N \in Nat /\ \A n \in DOMAIN asks : n \in Nat /\ n < N
  /\ OpenAsks' = OpenAsks \union {N} /\ OpenAsks \subseteq DOMAIN asks
  /\ \A m, n \in DOMAIN asks : Overlapping(m, n)' <=> Overlapping(m, n)
  /\ \A n \in OpenAsks : Overlapping(n, N)' /\ Overlapping(N, n)'
  /\ UNCHANGED <<cabinets, berths, serves, tags, stays>>

LEMMA AskStep ==
  ASSUME AsksTyped, NEW kind \in AskKinds, NEW b \in Berths \union {Unset},
         NEW outlets \in SUBSET Outlets, NEW lines \in SUBSET TagLine,
         NEW current \in (SUBSET Stay) \union {Unset},
         Ask(kind, b, outlets, lines, current)
  PROVE  \E N : AskBegins(N, kind, b, lines, current)
<1> PICK N : N = Len(asks) + 1
  OBVIOUS
<1> DEFINE new == [kind |-> kind, berth |-> b, outlets |-> outlets, lines |-> lines,
                   current |-> current, state |-> "begun", doomed |-> {}, waits |-> {},
                   beside |-> OpenAsks]
<1>1. asks \in Seq(AskRecord) /\ OpenAsks \subseteq Nat /\ OpenAsks \subseteq DOMAIN asks
  BY DEF AsksTyped, OpenAsks
<1>2. new \in AskRecord
  <2> DEFINE given == (SUBSET Stay) \union {Unset}
             where == Berths \union {Unset}
             seen  == SUBSET MappingRow
  <2>1. {} \in seen /\ {} \in SUBSET Nat /\ OpenAsks \in SUBSET Nat
        /\ "begun" \in {"begun", "deleting", "done", "refused"}
    BY <1>1
  <2>2. current \in given /\ b \in where
    OBVIOUS
  <2> HIDE DEF given, where, seen
  <2>3. new \in [kind : AskKinds, berth : where, outlets : SUBSET Outlets,
                 lines : SUBSET TagLine, current : given,
                 state : {"begun", "deleting", "done", "refused"}, doomed : seen,
                 waits : SUBSET Nat, beside : SUBSET Nat]
    BY <2>1, <2>2
  <2> QED BY <2>3 DEF AskRecord, given, where, seen
<1>3. /\ asks' = Append(asks, new) /\ Len(asks) < MaxAsks
      /\ UNCHANGED <<cabinets, berths, serves, tags, stays>>
  BY DEF Ask, MayAsk
<1>4. /\ new.lines = lines /\ new.state = "begun" /\ new.doomed = {} /\ new.beside = OpenAsks
      /\ new.kind = kind /\ new.berth = b /\ new.current = current
  OBVIOUS
<1> HIDE DEF new
<1>5. /\ N \notin DOMAIN asks /\ DOMAIN asks' = DOMAIN asks \union {N}
      /\ asks' \in Seq(AskRecord) /\ Len(asks') <= MaxAsks
      /\ \A n \in DOMAIN asks : asks'[n] = asks[n]
      /\ N \in Nat /\ \A n \in DOMAIN asks : n \in Nat /\ n < N
      /\ asks'[N] = new
  BY <1>1, <1>2, <1>3, RegistryAssumption
<1>6. OpenAsks' = OpenAsks \union {N}
  BY <1>4, <1>5 DEF OpenAsks, Open
<1>7. /\ \A m, n \in DOMAIN asks : Overlapping(m, n)' <=> Overlapping(m, n)
      /\ \A n \in OpenAsks : Overlapping(n, N)' /\ Overlapping(N, n)'
  BY <1>1, <1>4, <1>5 DEF Overlapping
<1>8. AskBegins(N, kind, b, lines, current)
  BY <1>1, <1>3, <1>4, <1>5, <1>6, <1>7 DEF AskBegins
<1> QED BY <1>8

\* What a request asked for stays, whatever becomes of it.
Moved(n, state) ==
  /\ DOMAIN asks' = DOMAIN asks /\ asks' \in Seq(AskRecord) /\ Len(asks') <= MaxAsks
  /\ \A m \in DOMAIN asks : m # n => asks'[m] = asks[m]
  /\ asks'[n].kind = asks[n].kind /\ asks'[n].berth = asks[n].berth
  /\ asks'[n].outlets = asks[n].outlets /\ asks'[n].lines = asks[n].lines
  /\ asks'[n].current = asks[n].current /\ asks'[n].state = state
  /\ \A i, j \in DOMAIN asks : Overlapping(i, j)' <=> Overlapping(i, j)

\* A request ends.
LEMMA EndStep ==
  ASSUME AsksTyped, NEW n \in DOMAIN asks, NEW state \in {"done", "refused"}, Ends(n, state)
  PROVE  /\ Moved(n, state) /\ asks'[n].doomed = asks[n].doomed
         /\ OpenAsks' = OpenAsks \ {n} /\ OpenAsks \subseteq DOMAIN asks
<1>1. asks \in Seq(AskRecord) /\ asks[n] \in AskRecord /\ Len(asks) <= MaxAsks
  BY DEF AsksTyped, RegistryTypeOK
<1> DEFINE new == [asks[n] EXCEPT !.state = state]
<1>2. /\ new \in AskRecord /\ new.kind = asks[n].kind /\ new.berth = asks[n].berth
      /\ new.outlets = asks[n].outlets /\ new.lines = asks[n].lines /\ new.state = state
      /\ new.doomed = asks[n].doomed /\ new.beside = asks[n].beside
      /\ new.current = asks[n].current
  BY <1>1 DEF AskRecord
<1>3. asks' = [asks EXCEPT ![n] = new]
  BY DEF Ends
<1> HIDE DEF new
<1>4. /\ DOMAIN asks' = DOMAIN asks /\ asks' \in Seq(AskRecord) /\ Len(asks') <= MaxAsks
      /\ \A m \in DOMAIN asks : m # n => asks'[m] = asks[m]
      /\ asks'[n] = new
  BY <1>1, <1>2, <1>3
<1>5. \A i, j \in DOMAIN asks : Overlapping(i, j)' <=> Overlapping(i, j)
  <2>1. \A i \in DOMAIN asks : asks'[i].beside = asks[i].beside
    BY <1>2, <1>4
  <2> QED BY <2>1 DEF Overlapping
<1>6. OpenAsks' = OpenAsks \ {n} /\ OpenAsks \subseteq DOMAIN asks
  BY <1>2, <1>4 DEF OpenAsks, Open
<1> QED BY <1>2, <1>4, <1>5, <1>6 DEF Moved

\* A request deletes the rows it sees.
LEMMA DeleteStep ==
  ASSUME AsksTyped, NEW n \in DOMAIN asks, DeleteRows(n)
  PROVE  /\ Moved(n, "deleting") /\ asks'[n].doomed = BerthRows(asks[n].berth)
         /\ asks[n].kind = "outlets" /\ asks[n].state = "begun"
         /\ OpenAsks' = OpenAsks /\ OpenAsks \subseteq DOMAIN asks
         /\ UNCHANGED <<cabinets, berths, serves, tags, stays>>
<1> DEFINE seen == BerthRows(asks[n].berth)
           held == {m \in OpenAsks : asks[m].doomed \intersect seen # {}}
           new == [asks[n] EXCEPT !.state = "deleting", !.doomed = seen, !.waits = held]
<1>1. /\ asks \in Seq(AskRecord) /\ asks[n] \in AskRecord /\ Len(asks) <= MaxAsks
      /\ seen \in SUBSET MappingRow
  BY DEF AsksTyped, RegistryTypeOK, BerthRows, MappingRow
<1>2. held \in SUBSET Nat
  BY <1>1 DEF OpenAsks
<1>3. /\ asks' = [asks EXCEPT ![n] = new] /\ asks[n].kind = "outlets" /\ asks[n].state = "begun"
      /\ UNCHANGED <<cabinets, berths, serves, tags, stays>>
  BY DEF DeleteRows, Deletes
<1> HIDE DEF seen, held
<1>4. /\ new \in AskRecord /\ new.kind = asks[n].kind /\ new.berth = asks[n].berth
      /\ new.outlets = asks[n].outlets /\ new.lines = asks[n].lines /\ new.state = "deleting"
      /\ new.doomed = seen /\ new.beside = asks[n].beside /\ new.current = asks[n].current
  BY <1>1, <1>2 DEF AskRecord
<1> HIDE DEF new
<1>5. /\ DOMAIN asks' = DOMAIN asks /\ asks' \in Seq(AskRecord) /\ Len(asks') <= MaxAsks
      /\ \A m \in DOMAIN asks : m # n => asks'[m] = asks[m]
      /\ asks'[n] = new
  BY <1>1, <1>3, <1>4
<1>6. \A i, j \in DOMAIN asks : Overlapping(i, j)' <=> Overlapping(i, j)
  <2>1. \A i \in DOMAIN asks : asks'[i].beside = asks[i].beside
    BY <1>4, <1>5
  <2> QED BY <2>1 DEF Overlapping
<1>7. OpenAsks' = OpenAsks /\ OpenAsks \subseteq DOMAIN asks
  BY <1>3, <1>4, <1>5 DEF OpenAsks, Open
<1> QED BY <1>3, <1>4, <1>5, <1>6, <1>7 DEF Moved, seen

(***************************************************************************)
(* What serves a berth                                                     *)
(***************************************************************************)

\* The requests of a berth that were done: one more, or the same.
LEMMA FinishedAfter ==
  ASSUME NEW n \in DOMAIN asks, NEW state, Moved(n, state), NEW b, asks[n].state # "done"
  PROVE  /\ state = "done" /\ asks[n].kind = "outlets" /\ asks[n].berth = b =>
              Finished(b)' = Finished(b) \union {n}
         /\ ~(state = "done" /\ asks[n].kind = "outlets" /\ asks[n].berth = b) =>
              Finished(b)' = Finished(b)
         /\ Finished(b) \subseteq DOMAIN asks \ {n}
BY DEF Moved, Finished

\* The mapping stays good when its rows and the finished requests stay as they were.
LEMMA ServedStays ==
  ASSUME AsksTyped, \A r \in serves : From(r), \A b \in Berths : Lasting(b),
         UNCHANGED serves, \A b : Finished(b)' = Finished(b),
         \A m \in DOMAIN asks : asks'[m].outlets = asks[m].outlets,
         \A i, j \in DOMAIN asks : Overlapping(i, j)' <=> Overlapping(i, j)
  PROVE  /\ \A r \in serves' : From(r)'
         /\ \A b \in Berths : Lasting(b)'
<1>1. \A b : Finished(b) \subseteq DOMAIN asks
  BY DEF Finished
<1>2. \A r \in serves' : From(r)'
  BY <1>1 DEF From
<1>3. ASSUME NEW b \in Berths, NEW n \in Finished(b) PROVE InPlace(b, n)'
  BY <1>1, <1>3 DEF Lasting, InPlace
<1> QED BY <1>2, <1>3 DEF Lasting

(***************************************************************************)
(* Every step                                                              *)
(***************************************************************************)

\* What a request that begins asks for.
LEMMA AskBegun ==
  ASSUME RegistryInv, BeginOutlets \/ BeginImport \/ BeginVessel
  PROVE  \E kind \in AskKinds, b \in Berths \union {Unset}, outlets \in SUBSET Outlets,
            lines \in SUBSET TagLine, current \in (SUBSET Stay) \union {Unset} :
           /\ Ask(kind, b, outlets, lines, current)
           /\ \A l, k \in lines : l.uid = k.uid => l.outlet = k.outlet
           /\ \A l \in lines, t \in tags : t.uid # l.uid
           /\ kind # "import" => b \in Berths
           /\ kind \in {"set_vessel", "clear_vessel"} => current \subseteq Stay
<1>1. \A r \in berths : r.berth \in Berths
  BY DEF RegistryInv, AsksTyped, RegistryTypeOK
<1>2. CASE BeginOutlets
  <2>1. PICK r \in berths, outs \in Asked : Ask("outlets", r.berth, outs, {}, Unset)
    BY <1>2 DEF BeginOutlets
  <2>2. outs \in SUBSET Outlets
    BY RegistryAssumption
  <2> QED BY <1>1, <2>1, <2>2 DEF AskKinds
<1>3. CASE BeginImport
  <2>1. PICK file \in Files :
          /\ \A l, m \in file : l.uid = m.uid => l.outlet = m.outlet
          /\ Ask("import", Unset, {}, {line \in file : Existing(line) = {}}, Unset)
    BY <1>3 DEF BeginImport
  <2> DEFINE lines == {line \in file : Existing(line) = {}}
  <2>2. lines \in SUBSET TagLine
    BY RegistryAssumption
  <2>3. \A l \in lines, t \in tags : t.uid # l.uid
    BY DEF Existing
  <2> QED BY <2>1, <2>2, <2>3 DEF AskKinds
<1>4. CASE BeginVessel
  <2>1. PICK r \in berths, kind \in {"set_vessel", "clear_vessel"} :
          Ask(kind, r.berth, {}, {}, Current(r.berth))
    BY <1>4 DEF BeginVessel
  <2>2. Current(r.berth) \in SUBSET Stay
    BY DEF RegistryInv, AsksTyped, RegistryTypeOK, Current, Stay
  <2> QED BY <1>1, <2>1, <2>2 DEF AskKinds
<1> QED BY <1>2, <1>3, <1>4

\* Who begins overlaps whatever is open, and names no tag that is there.
LEMMA InvBegins ==
  ASSUME RegistryInv, BeginOutlets \/ BeginImport \/ BeginVessel
  PROVE  RegistryInv'
<1>1. PICK kind \in AskKinds, b \in Berths \union {Unset}, outlets \in SUBSET Outlets,
           lines \in SUBSET TagLine, current \in (SUBSET Stay) \union {Unset} :
        /\ Ask(kind, b, outlets, lines, current)
        /\ \A l, k \in lines : l.uid = k.uid => l.outlet = k.outlet
        /\ \A l \in lines, t \in tags : t.uid # l.uid
        /\ kind # "import" => b \in Berths
        /\ kind \in {"set_vessel", "clear_vessel"} => current \subseteq Stay
  BY AskBegun
<1>0. AsksTyped
  BY DEF RegistryInv
<1>2. PICK N : AskBegins(N, kind, b, lines, current)
  BY <1>1, <1>0, AskStep
<1> USE <1>2 DEF AskBegins
<1>3. \A n \in DOMAIN asks : Open(n)' <=> Open(n)
  BY <1>2 DEF Open
<1>4. AsksTyped' /\ Beside' /\ Ranked'
  <2>1. AsksTyped' /\ Beside'
    BY <1>2 DEF RegistryInv, AsksTyped, RegistryTypeOK, Beside
  <2>2. ASSUME NEW n \in OpenAsks', NEW m \in DOMAIN asks', m > n PROVE Overlapping(m, n)'
    <3>1. n \in DOMAIN asks /\ n \in OpenAsks
      BY <1>2, <2>2
    <3>2. CASE m = N
      BY <1>2, <3>1, <3>2
    <3>3. CASE m \in DOMAIN asks
      BY <1>2, <2>2, <3>1, <3>3 DEF RegistryInv, Ranked
    <3> QED BY <1>2, <3>2, <3>3
  <2> QED BY <2>1, <2>2 DEF Ranked
<1>5. \A t \in tags : t.by \in DOMAIN asks' /\ t.by \in DOMAIN asks /\ ~Open(t.by)'
  BY <1>2, <1>3 DEF RegistryInv
<1>6. TagResolvesOnce'
  BY <1>2, <1>5 DEF RegistryInv, TagResolvesOnce, Lookup
<1>7. \A x : Finished(x)' = Finished(x) /\ Finished(x) \subseteq DOMAIN asks
  BY <1>2 DEF Finished
<1>8. /\ \A r \in serves' : From(r)'
      /\ \A x \in Berths : Lasting(x)'
  <2>1. /\ \A r \in serves : From(r)
        /\ \A x \in Berths : Lasting(x)
    BY DEF RegistryInv
  <2>2. \A m \in DOMAIN asks : asks'[m].outlets = asks[m].outlets
    BY <1>2
  <2> QED BY <1>0, <1>2, <1>7, <2>1, <2>2, ServedStays
<1>9. ASSUME NEW n \in DOMAIN asks' PROVE Aimed(n)' /\ Marks(n)' /\ Imports(n)'
  <2>1. CASE n = N
    <3>1. Aimed(n)' /\ Marks(n)'
      BY <1>1, <1>2, <2>1 DEF Aimed, Marks
    <3>2. Imports(n)'
      BY <1>1, <1>2, <2>1 DEF Imports
    <3> QED BY <3>1, <3>2
  <2>2. CASE n # N
    <3>1. n \in DOMAIN asks /\ asks'[n] = asks[n] /\ Aimed(n) /\ Marks(n) /\ Imports(n)
      BY <1>2, <1>9, <2>2 DEF RegistryInv
    <3>2. \A r \in serves : r.by \in DOMAIN asks
      BY DEF RegistryInv, From, Finished
    <3>3. Aimed(n)' /\ Marks(n)'
      BY <1>2, <3>1, <3>2 DEF Aimed, Marks
    <3>4. Imports(n)'
      BY <1>2, <1>3, <1>5, <3>1 DEF Imports
    <3> QED BY <3>3, <3>4
  <2> QED BY <2>1, <2>2
<1> QED BY <1>2, <1>4, <1>5, <1>6, <1>8, <1>9 DEF RegistryInv

\* A step that writes no mapping and no tag.
LEMMA InvMoves ==
  ASSUME RegistryInv, AsksTyped', NEW n \in DOMAIN asks, NEW state, Moved(n, state), Open(n),
         ~(state = "done" /\ asks[n].kind = "outlets"),
         OpenAsks' \subseteq OpenAsks, OpenAsks \subseteq DOMAIN asks,
         UNCHANGED <<serves, tags>>, Marks(n)'
  PROVE  RegistryInv'
<1>1. asks[n].state # "done"
  BY DEF Open
<1>2. \A b : Finished(b)' = Finished(b) /\ Finished(b) \subseteq DOMAIN asks \ {n}
  BY <1>1, FinishedAfter
<1>3. \A m \in DOMAIN asks : m # n => (Open(m)' <=> Open(m))
  BY DEF Moved, Open
<1>4. Beside' /\ Ranked'
  BY DEF RegistryInv, Beside, Ranked, Moved
<1>5. \A t \in tags : t.by \in DOMAIN asks' /\ t.by \in DOMAIN asks /\ ~Open(t.by)'
  BY <1>3 DEF RegistryInv, Moved
<1>6. TagResolvesOnce'
  BY <1>5 DEF RegistryInv, TagResolvesOnce, Lookup, Moved
<1>7. /\ \A r \in serves' : From(r)'
      /\ \A b \in Berths : Lasting(b)'
  <2>1. /\ AsksTyped
        /\ \A r \in serves : From(r)
        /\ \A b \in Berths : Lasting(b)
    BY DEF RegistryInv
  <2>2. /\ \A m \in DOMAIN asks : asks'[m].outlets = asks[m].outlets
        /\ \A i, j \in DOMAIN asks : Overlapping(i, j)' <=> Overlapping(i, j)
    BY DEF Moved
  <2> QED BY <1>2, <2>1, <2>2, ServedStays
<1>8. ASSUME NEW m \in DOMAIN asks' PROVE Aimed(m)' /\ Marks(m)' /\ Imports(m)'
  <2>1. m \in DOMAIN asks /\ Aimed(m) /\ Marks(m) /\ Imports(m)
    BY <1>8 DEF RegistryInv, Moved
  <2>2. Imports(m)'
    <3>1. Open(m)' => Open(m)
      BY <1>3, <2>1
    <3> QED BY <1>5, <2>1, <3>1 DEF Imports, Moved
  <2>3. Marks(m)'
    <3>1. CASE m # n
      <4>1. \A r \in serves : r.by \in DOMAIN asks
        BY DEF RegistryInv, From, Finished
      <4> QED BY <2>1, <3>1, <4>1 DEF Marks, Moved
    <3> QED BY <3>1
  <2>4. Aimed(m)'
    BY <2>1 DEF Aimed, Moved
  <2> QED BY <2>2, <2>3, <2>4
<1> QED BY <1>4, <1>5, <1>6, <1>7, <1>8 DEF RegistryInv

\* A step that changes no request, mapping or tag.
LEMMA InvKeeps ==
  ASSUME RegistryInv, RegistryTypeOK', UNCHANGED <<serves, tags, asks>>
  PROVE  RegistryInv'
<1>1. AsksTyped' /\ Beside' /\ Ranked' /\ TagResolvesOnce'
  BY DEF RegistryInv, AsksTyped, Beside, Ranked, OpenAsks, Open, Overlapping, TagResolvesOnce, Lookup
<1>2. ASSUME NEW n \in DOMAIN asks' PROVE Aimed(n)' /\ Marks(n)' /\ Imports(n)'
  <2>1. n \in DOMAIN asks /\ Aimed(n) /\ Marks(n) /\ Imports(n)
    BY <1>2 DEF RegistryInv
  <2> QED BY <2>1 DEF Aimed, Marks, Imports, Open, Overlapping
<1>3. /\ \A r \in serves' : From(r)'
      /\ \A b \in Berths : Lasting(b)'
  <2>1. /\ AsksTyped
        /\ \A r \in serves : From(r)
        /\ \A b \in Berths : Lasting(b)
    BY DEF RegistryInv
  <2>2. /\ \A b : Finished(b)' = Finished(b)
        /\ \A i, j \in DOMAIN asks : Overlapping(i, j)' <=> Overlapping(i, j)
    BY DEF Finished, Overlapping
  <2> QED BY <2>1, <2>2, ServedStays
<1>4. \A t \in tags' : t.by \in DOMAIN asks' /\ ~Open(t.by)'
  BY DEF RegistryInv, Open
<1> QED BY <1>1, <1>2, <1>3, <1>4 DEF RegistryInv

\* The rows a request deletes are the rows of its berth.
LEMMA InvDeletes ==
  ASSUME RegistryInv, NEW n \in DOMAIN asks, DeleteRows(n)
  PROVE  RegistryInv'
<1>1. AsksTyped
  BY DEF RegistryInv
<1>2. /\ Moved(n, "deleting") /\ asks'[n].doomed = BerthRows(asks[n].berth)
      /\ asks[n].kind = "outlets" /\ asks[n].state = "begun"
      /\ OpenAsks' = OpenAsks /\ OpenAsks \subseteq DOMAIN asks
      /\ UNCHANGED <<cabinets, berths, serves, tags, stays>>
  BY <1>1, DeleteStep
<1>3. AsksTyped' /\ Open(n)
  BY <1>1, <1>2 DEF AsksTyped, RegistryTypeOK, Moved, Open
<1>4. Marks(n)'
  BY <1>2 DEF Marks, Moved, BerthRows
<1> QED BY <1>2, <1>3, <1>4, InvMoves

\* A vessel's request records one stay, or ends those it read.
LEMMA InvVessel ==
  ASSUME RegistryInv, NEW n \in DOMAIN asks, CommitVessel(n)
  PROVE  RegistryInv'
<1> DEFINE ended == {IF s \in asks[n].current THEN [s EXCEPT !.left = TRUE] ELSE s : s \in stays}
<1>1. AsksTyped /\ Aimed(n) /\ Marks(n)
  BY DEF RegistryInv
<1>2. /\ asks[n].kind \in {"set_vessel", "clear_vessel"} /\ Open(n)
      /\ UNCHANGED <<cabinets, berths, serves, tags>>
      /\ stays' \in {stays, stays \union {NewStay(asks[n].berth, n)}, ended}
  BY DEF CommitVessel
<1>3. PICK state \in {"done", "refused"} : Ends(n, state)
  BY DEF CommitVessel
<1>4. /\ Moved(n, state) /\ asks'[n].doomed = asks[n].doomed
      /\ OpenAsks' = OpenAsks \ {n} /\ OpenAsks \subseteq DOMAIN asks
  BY <1>1, <1>3, EndStep
<1>5. stays \subseteq Stay /\ NewStay(asks[n].berth, n) \in Stay
  BY <1>1, <1>2, Asking DEF AsksTyped, RegistryTypeOK, Stay, NewStay, Aimed
<1>6. ended \subseteq Stay
  BY <1>5 DEF Stay
<1>7. AsksTyped'
  <2>1. stays' \subseteq Stay
    BY <1>2, <1>5, <1>6
  <2> QED BY <1>1, <1>2, <1>4, <2>1 DEF AsksTyped, RegistryTypeOK, Moved, Stay
<1>8. Marks(n)'
  BY <1>1, <1>3, <1>4 DEF Marks, Moved
<1> QED BY <1>2, <1>4, <1>7, <1>8, InvMoves

\* What every request that ends leaves as it was.
LEMMA EndsKeep ==
  ASSUME RegistryInv, NEW n \in DOMAIN asks, NEW state \in {"done", "refused"},
         Ends(n, state), Open(n)
  PROVE  /\ Moved(n, state) /\ asks'[n].doomed = asks[n].doomed
         /\ OpenAsks' = OpenAsks \ {n} /\ OpenAsks \subseteq DOMAIN asks
         /\ Beside' /\ Ranked' /\ asks[n].state # "done" /\ ~Open(n)'
         /\ \A m \in DOMAIN asks : m # n => (Open(m)' <=> Open(m))
         /\ \A m \in DOMAIN asks : m # n /\ Open(m) => Overlapping(m, n)' /\ Overlapping(n, m)'
         /\ \A m \in DOMAIN asks : Aimed(m)'
<1>1. AsksTyped /\ Beside /\ n \in OpenAsks
  BY DEF RegistryInv, OpenAsks
<1>2. /\ Moved(n, state) /\ asks'[n].doomed = asks[n].doomed
      /\ OpenAsks' = OpenAsks \ {n} /\ OpenAsks \subseteq DOMAIN asks
  BY <1>1, EndStep
<1>3. /\ asks[n].state # "done" /\ ~Open(n)'
      /\ \A m \in DOMAIN asks : m # n => (Open(m)' <=> Open(m))
  BY <1>2 DEF Moved, Open
<1>4. Beside' /\ Ranked'
  BY <1>1, <1>2 DEF RegistryInv, Beside, Ranked, Moved
<1>5. \A m \in DOMAIN asks : m # n /\ Open(m) => Overlapping(m, n)' /\ Overlapping(n, m)'
  BY <1>1, <1>2 DEF Beside, Moved, OpenAsks, Overlapping
<1>6. \A m \in DOMAIN asks : Aimed(m)'
  BY <1>2 DEF RegistryInv, Aimed, Moved
<1> QED BY <1>2, <1>3, <1>4, <1>5, <1>6

\* What a mapping leaves of others is of requests it overlaps; what it inserts, whoever is past
\* its DELETE overlaps.
LEMMA InvMapped ==
  ASSUME RegistryInv, NEW n \in DOMAIN asks, asks[n].state = "deleting", Ends(n, "done"),
         NEW kept, kept = serves \ asks[n].doomed,
         NEW new, new = [berth : {asks[n].berth}, outlet : asks[n].outlets, by : {n}],
         serves' = kept \union new,
         UNCHANGED <<cabinets, berths, tags, stays>>
  PROVE  RegistryInv'
<1> PICK b : b = asks[n].berth
  OBVIOUS
<1>1. /\ AsksTyped /\ Aimed(n) /\ Marks(n) /\ Open(n) /\ asks[n].kind = "outlets" /\ Beside /\ Ranked
  BY DEF RegistryInv, Marks, Open
<1>2. /\ Moved(n, "done") /\ asks'[n].doomed = asks[n].doomed
      /\ OpenAsks' = OpenAsks \ {n} /\ OpenAsks \subseteq DOMAIN asks
      /\ Beside' /\ Ranked' /\ asks[n].state # "done" /\ ~Open(n)'
      /\ \A m \in DOMAIN asks : m # n => (Open(m)' <=> Open(m))
      /\ \A m \in DOMAIN asks : m # n /\ Open(m) => Overlapping(m, n)' /\ Overlapping(n, m)'
      /\ \A m \in DOMAIN asks : Aimed(m)'
  BY <1>1, EndsKeep
<1>3. b \in Berths /\ asks[n].outlets \subseteq Outlets /\ n \in 1 .. MaxAsks
  BY <1>1, Asking DEF Aimed
<1>4. AsksTyped'
  <2>1. serves' \subseteq MappingRow
    BY <1>1, <1>3 DEF AsksTyped, RegistryTypeOK, MappingRow
  <2> QED BY <1>1, <1>2, <2>1 DEF AsksTyped, RegistryTypeOK, Moved, MappingRow
<1>5. \A t \in tags : t.by \in DOMAIN asks' /\ t.by \in DOMAIN asks /\ ~Open(t.by)'
  BY <1>1, <1>2 DEF RegistryInv, Moved
<1>6. TagResolvesOnce'
  BY <1>2, <1>5 DEF RegistryInv, TagResolvesOnce, Lookup, Moved
<1>7. /\ Finished(b)' = Finished(b) \union {n} /\ Finished(b) \subseteq DOMAIN asks \ {n}
      /\ \A x : x # b => Finished(x)' = Finished(x) /\ Finished(x) \subseteq DOMAIN asks \ {n}
  BY <1>1, <1>2, FinishedAfter
<1>8. /\ \A r \in kept : r \in serves /\ From(r) /\ r.by \in DOMAIN asks
      /\ \A r \in kept : r.berth = b => Overlapping(r.by, n)
      /\ \A r \in serves : r.berth # b => r \in kept
      /\ \A r \in new : r.berth = b /\ r.by = n
      /\ \A o \in asks[n].outlets : \E r \in new : r.berth = b /\ r.outlet = o
  <2>1. \A r \in kept : r \in serves /\ From(r) /\ r.by \in DOMAIN asks
    BY DEF RegistryInv, From, Finished
  <2>2. /\ \A r \in kept : r.berth = b => Overlapping(r.by, n)
        /\ \A r \in serves : r.berth # b => r \in kept
    BY <1>1 DEF Marks
  <2>3. \A o \in asks[n].outlets : \E r \in new : r.berth = b /\ r.outlet = o
    <3>1. \A o \in asks[n].outlets : [berth |-> b, outlet |-> o, by |-> n] \in new
      OBVIOUS
    <3> QED BY <3>1
  <2> QED BY <2>1, <2>2, <2>3
<1>9. ASSUME NEW r \in serves' PROVE From(r)'
  <2>1. CASE r \in new
    <3>1. \A m \in Finished(b)' : m > n => Overlapping(m, n)'
      BY <1>1, <1>2, <1>3, <1>7 DEF Ranked, OpenAsks, Moved
    <3> QED BY <1>7, <1>8, <2>1, <3>1 DEF From
  <2>2. CASE r \in kept /\ r.berth = b
    <3>1. Overlapping(n, r.by)
      BY <1>8, <2>2 DEF Overlapping
    <3> QED BY <1>2, <1>7, <1>8, <2>2, <3>1 DEF From, Moved
  <2>3. CASE r \in kept /\ r.berth # b
    BY <1>2, <1>7, <1>8, <2>3 DEF From, Moved
  <2> QED BY <2>1, <2>2, <2>3
<1>10. ASSUME NEW x \in Berths, NEW m \in Finished(x)' PROVE InPlace(x, m)'
  <2>1. CASE x = b /\ m = n
    BY <1>2, <1>8, <2>1 DEF InPlace, Moved
  <2>2. CASE x = b /\ m # n
    <3>1. m \in DOMAIN asks /\ m \in Nat /\ n \in Nat
      BY <1>1, <1>7, <2>2, Asking
    <3>2. m > n => Overlapping(m, n)
      BY <1>1, <3>1 DEF Ranked, OpenAsks
    <3>3. n # m /\ (n > m \/ Overlapping(n, m)') /\ n \in Finished(x)'
      BY <1>2, <1>7, <2>2, <3>1, <3>2 DEF Overlapping, Moved
    <3> QED BY <3>3 DEF InPlace
  <2>3. CASE x # b
    <3>1. m \in Finished(x) /\ m \in DOMAIN asks \ {n} /\ InPlace(x, m)
      BY <1>7, <1>10, <2>3 DEF RegistryInv, Lasting
    <3> QED BY <1>2, <1>7, <1>8, <2>3, <3>1 DEF InPlace, Moved
  <2> QED BY <2>1, <2>2, <2>3
<1>11. ASSUME NEW m \in DOMAIN asks' PROVE Marks(m)' /\ Imports(m)'
  <2>1. m \in DOMAIN asks /\ Marks(m) /\ Imports(m)
    BY <1>2, <1>11 DEF RegistryInv, Moved
  <2>2. Imports(m)'
    <3>1. Open(m)' => Open(m)
      BY <1>2, <2>1
    <3> QED BY <1>2, <1>5, <2>1, <3>1 DEF Imports, Moved
  <2>3. CASE m = n
    BY <1>2, <2>1, <2>2, <2>3 DEF Marks, Moved
  <2>4. CASE m # n
    <3>1. /\ asks'[m] = asks[m]
          /\ \A r \in asks[m].doomed : r.berth = asks[m].berth
          /\ asks[m].state = "deleting" => asks[m].kind = "outlets" /\ Open(m)
      BY <1>2, <2>1, <2>4 DEF Marks, Moved, Open
    <3>2. ASSUME asks[m].state = "deleting", NEW r \in serves', r.berth = asks[m].berth
          PROVE  r \in asks[m].doomed \/ Overlapping(r.by, m)'
      <4>1. CASE r \in new
        BY <1>2, <1>8, <2>1, <2>4, <3>1, <3>2, <4>1
      <4>2. CASE r \in kept
        BY <1>2, <1>8, <2>1, <3>2, <4>2 DEF Marks, Moved
      <4> QED BY <4>1, <4>2
    <3> QED BY <2>2, <3>1, <3>2 DEF Marks
  <2> QED BY <2>3, <2>4
<1> QED BY <1>2, <1>4, <1>5, <1>6, <1>9, <1>10, <1>11 DEF RegistryInv, Lasting, Moved

\* Other open imports overlap the one that writes its tags.
LEMMA InvImported ==
  ASSUME RegistryInv, NEW n \in DOMAIN asks, asks[n].kind = "import", Open(n), Ends(n, "done"),
         NEW new,
         new = {[uid |-> l.uid, order |-> l.order, outlet |-> l.outlet, by |-> n] : l \in asks[n].lines},
         tags' = tags \union new,
         UNCHANGED <<cabinets, berths, serves, stays>>
  PROVE  RegistryInv'
<1>1. AsksTyped /\ Aimed(n) /\ Marks(n) /\ Imports(n)
  BY DEF RegistryInv
<1>2. /\ Moved(n, "done") /\ asks'[n].doomed = asks[n].doomed
      /\ OpenAsks' = OpenAsks \ {n} /\ OpenAsks \subseteq DOMAIN asks
      /\ Beside' /\ Ranked' /\ asks[n].state # "done" /\ ~Open(n)'
      /\ \A m \in DOMAIN asks : m # n => (Open(m)' <=> Open(m))
      /\ \A m \in DOMAIN asks : m # n /\ Open(m) => Overlapping(m, n)' /\ Overlapping(n, m)'
      /\ \A m \in DOMAIN asks : Aimed(m)'
  BY EndsKeep
<1>3. /\ \A t \in new : t.by = n
      /\ \A t \in new : \E l \in asks[n].lines : t.uid = l.uid /\ t.outlet = l.outlet
      /\ new \subseteq [uid : Uids, order : Orders, outlet : Outlets, by : 1 .. MaxAsks]
  <2>1. asks[n].lines \subseteq TagLine /\ n \in 1 .. MaxAsks
    BY <1>1, Asking
  <2> QED BY <2>1 DEF TagLine
<1>4. AsksTyped'
  BY <1>1, <1>2, <1>3 DEF RegistryInv, AsksTyped, RegistryTypeOK, Moved
<1>5. \A t \in tags' : t.by \in DOMAIN asks' /\ t.by \in DOMAIN asks /\ ~Open(t.by)'
  BY <1>2, <1>3 DEF RegistryInv, Moved
<1>6. \A b : Finished(b)' = Finished(b) /\ Finished(b) \subseteq DOMAIN asks \ {n}
  BY <1>2, FinishedAfter
<1>7. ASSUME NEW t \in tags', NEW u \in new, t.uid = u.uid
      PROVE  t.outlet = u.outlet \/ Overlapping(t.by, u.by)'
  <2>1. CASE t \in new
    BY <1>1, <1>3, <1>7, <2>1 DEF Imports
  <2>2. CASE t \in tags
    <3>1. Overlapping(t.by, n)
      BY <1>1, <1>3, <1>7, <2>2 DEF Imports
    <3> QED BY <1>2, <1>3, <1>5, <2>2, <3>1 DEF Moved
  <2> QED BY <2>1, <2>2
<1>8. TagResolvesOnce'
  <2>1. ASSUME NEW t \in tags', NEW u \in tags', t.uid = u.uid
        PROVE  t.outlet = u.outlet \/ Overlapping(t.by, u.by)'
    <3>1. CASE t \in tags /\ u \in tags
      <4>1. t.outlet = u.outlet \/ Overlapping(t.by, u.by)
        <5>1. t.uid \in Uids
          BY <1>1, <3>1 DEF AsksTyped, RegistryTypeOK
        <5> QED BY <2>1, <3>1, <5>1 DEF RegistryInv, TagResolvesOnce, Lookup
      <4> QED BY <1>2, <1>5, <3>1, <4>1 DEF Moved
    <3>2. CASE u \in new
      BY <1>7, <2>1, <3>2
    <3>3. CASE t \in new
      <4>1. u.outlet = t.outlet \/ Overlapping(u.by, t.by)'
        BY <1>7, <2>1, <3>3
      <4> QED BY <4>1 DEF Overlapping
    <3> QED BY <3>1, <3>2, <3>3
  <2> QED BY <2>1 DEF TagResolvesOnce, Lookup
<1>9. /\ \A r \in serves' : From(r)'
      /\ \A b \in Berths : Lasting(b)'
  <2>1. /\ \A r \in serves : From(r)
        /\ \A b \in Berths : Lasting(b)
    BY DEF RegistryInv
  <2>2. /\ \A m \in DOMAIN asks : asks'[m].outlets = asks[m].outlets
        /\ \A i, j \in DOMAIN asks : Overlapping(i, j)' <=> Overlapping(i, j)
    BY <1>2 DEF Moved
  <2> QED BY <1>1, <1>6, <2>1, <2>2, ServedStays
<1>10. ASSUME NEW m \in DOMAIN asks' PROVE Marks(m)' /\ Imports(m)'
  <2>1. m \in DOMAIN asks /\ Marks(m) /\ Imports(m)
    BY <1>2, <1>10 DEF RegistryInv, Moved
  <2>2. asks'[m].lines = asks[m].lines
    BY <1>2, <2>1 DEF Moved
  <2>3. ASSUME Open(m)', NEW l \in asks[m].lines, NEW t \in tags', t.uid = l.uid
        PROVE  Overlapping(t.by, m)'
    <3>1. m # n /\ Open(m)
      BY <1>2, <2>1, <2>3
    <3>2. CASE t \in tags
      <4>1. Overlapping(t.by, m)
        BY <2>1, <2>3, <3>1, <3>2 DEF Imports
      <4> QED BY <1>2, <1>5, <2>1, <3>2, <4>1 DEF Moved
    <3>3. CASE t \in new
      BY <1>2, <1>3, <2>1, <3>1, <3>3
    <3> QED BY <3>2, <3>3
  <2>4. Imports(m)'
    BY <2>1, <2>2, <2>3 DEF Imports
  <2>5. \A r \in serves : r.by \in DOMAIN asks
    BY DEF RegistryInv, From, Finished
  <2>6. CASE m = n
    BY <1>1, <1>2, <2>4, <2>6 DEF Marks, Moved
  <2>7. CASE m # n
    BY <1>2, <2>1, <2>4, <2>5, <2>7 DEF Marks, Moved
  <2> QED BY <2>6, <2>7
<1> QED BY <1>2, <1>4, <1>5, <1>8, <1>9, <1>10 DEF RegistryInv, Moved

\* A commit the unique indexes refuse leaves the mapping and the tags.
LEMMA InvRefused ==
  ASSUME RegistryInv, NEW n \in DOMAIN asks, Open(n), Ends(n, "refused"),
         UNCHANGED <<cabinets, berths, serves, tags, stays>>
  PROVE  RegistryInv'
<1>1. AsksTyped /\ Marks(n)
  BY DEF RegistryInv
<1>2. /\ Moved(n, "refused") /\ asks'[n].doomed = asks[n].doomed
      /\ OpenAsks' = OpenAsks \ {n} /\ OpenAsks \subseteq DOMAIN asks
  BY <1>1, EndStep
<1>3. AsksTyped' /\ Marks(n)'
  BY <1>1, <1>2 DEF AsksTyped, RegistryTypeOK, Moved, Marks
<1> QED BY <1>2, <1>3, InvMoves

(***************************************************************************)
(* The theorems                                                            *)
(***************************************************************************)

\* An empty registry.
LEMMA InvInit == RegistryInit => RegistryInv
<1> SUFFICES ASSUME RegistryInit PROVE RegistryInv
  OBVIOUS
<1>1. /\ cabinets = {} /\ berths = {} /\ serves = {} /\ tags = {} /\ stays = {}
      /\ asks = <<>> /\ DOMAIN asks = {} /\ OpenAsks = {}
  BY DEF RegistryInit, OpenAsks
<1>2. AsksTyped
  BY <1>1, RegistryAssumption DEF AsksTyped, RegistryTypeOK
<1>3. Beside /\ Ranked /\ TagResolvesOnce
  BY <1>1 DEF Beside, Ranked, TagResolvesOnce, Lookup
<1>4. \A b \in Berths : Lasting(b)
  BY <1>1 DEF Lasting, Finished
<1> QED BY <1>1, <1>2, <1>3, <1>4 DEF RegistryInv

\* One case per operation of the registry.
LEMMA InvNext == RegistryInv /\ [RegistryNext]_registryVars => RegistryInv'
<1> SUFFICES ASSUME RegistryInv, [RegistryNext]_registryVars PROVE RegistryInv'
  OBVIOUS
<1>0. AsksTyped /\ RegistryTypeOK
  BY DEF RegistryInv, AsksTyped
<1>1. ASSUME NEW c \in Cabinets, ProvisionCabinet(c) PROVE RegistryInv'
  <2>1. RegistryTypeOK'
    BY <1>0, <1>1 DEF RegistryTypeOK, ProvisionCabinet
  <2> QED BY <1>1, <2>1, InvKeeps DEF ProvisionCabinet
<1>2. ASSUME NEW b \in Berths, NEW c \in cabinets \union {Unset}, CreateBerth(b, c)
      PROVE  RegistryInv'
  <2>1. RegistryTypeOK'
    BY <1>0, <1>2 DEF RegistryTypeOK, CreateBerth
  <2> QED BY <1>2, <2>1, InvKeeps DEF CreateBerth
<1>3. CASE BeginOutlets \/ BeginImport \/ BeginVessel
  BY <1>3, InvBegins
<1>4. ASSUME NEW n \in DOMAIN asks, DeleteRows(n) PROVE RegistryInv'
  BY <1>4, InvDeletes
<1>5. ASSUME NEW n \in DOMAIN asks, CommitOutlets(n) PROVE RegistryInv'
  <2> PICK kept : kept = serves \ asks[n].doomed
    OBVIOUS
  <2> PICK new : new = [berth : {asks[n].berth}, outlet : asks[n].outlets, by : {n}]
    OBVIOUS
  <2>1. asks[n].state = "deleting" /\ Open(n) /\ UNCHANGED <<cabinets, berths, tags, stays>>
    BY <1>5 DEF CommitOutlets, Open
  <2>2. CASE serves' = kept \union new /\ Ends(n, "done")
    BY <2>1, <2>2, InvMapped
  <2>3. CASE serves' = serves /\ Ends(n, "refused")
    BY <2>1, <2>3, InvRefused
  <2> QED BY <1>5, <2>2, <2>3 DEF CommitOutlets
<1>6. ASSUME NEW n \in DOMAIN asks, CommitImport(n) PROVE RegistryInv'
  <2> PICK new : new = {[uid |-> l.uid, order |-> l.order, outlet |-> l.outlet, by |-> n]
                          : l \in asks[n].lines}
    OBVIOUS
  <2>1. asks[n].kind = "import" /\ Open(n) /\ UNCHANGED <<cabinets, berths, serves, stays>>
    BY <1>6 DEF CommitImport
  <2>2. CASE tags' = tags \union new /\ Ends(n, "done")
    BY <2>1, <2>2, InvImported
  <2>3. CASE tags' = tags /\ Ends(n, "refused")
    BY <2>1, <2>3, InvRefused
  <2> QED BY <1>6, <2>2, <2>3 DEF CommitImport
<1>7. ASSUME NEW n \in DOMAIN asks, CommitVessel(n) PROVE RegistryInv'
  BY <1>7, InvVessel
<1>8. CASE UNCHANGED registryVars
  <2>1. UNCHANGED <<cabinets, berths, serves, tags, stays, asks>>
    BY <1>8 DEF registryVars
  <2>2. RegistryTypeOK'
    BY <1>0, <2>1 DEF RegistryTypeOK
  <2> QED BY <2>1, <2>2, InvKeeps
<1> QED BY <1>1, <1>2, <1>3, <1>4, <1>5, <1>6, <1>7, <1>8 DEF RegistryNext

\* The invariant of cabinets.py, nfc_tags.py and berth_detail.py: what the requests in flight
\* still rely on, and what the tables hold.
THEOREM RegistryInvariant == RegistrySpec => []RegistryInv
BY InvInit, InvNext, PTL DEF RegistrySpec

\* Every row of the registry's tables names berths, outlets and requests that exist.
THEOREM RegistryTypeCorrect == RegistrySpec => []RegistryTypeOK
<1>1. RegistryInv => RegistryTypeOK
  BY DEF RegistryInv, AsksTyped
<1> QED BY <1>1, RegistryInvariant, PTL

\* Whatever interleaves with set_berth_outlets: a row left of a request is of one that every
\* later finished request for that berth overlapped, and what a finished request asked for is
\* there unless another one began after it or overlapped it.  So a mixture is of requests that
\* overlapped, and one request after them, alone, replaces it completely.
THEOREM MappingAlwaysReplaced == RegistrySpec => []MappingReplaced
<1>1. RegistryInv => MappingReplaced
  BY DEF RegistryInv, MappingReplaced, From, Lasting, InPlace
<1> QED BY <1>1, RegistryInvariant, PTL

\* A UID that import_csv stored is the tag of one outlet in either byte order, unless two
\* imports overlapped.
THEOREM TagsResolveOnce == RegistrySpec => []TagResolvesOnce
<1>1. RegistryInv => TagResolvesOnce
  BY DEF RegistryInv
<1> QED BY <1>1, RegistryInvariant, PTL

(***************************************************************************)
(* The view of a berth                                                     *)
(***************************************************************************)

\* An answer that is stored was true when it was given: no cabinet has beaten less since.
ViewInv ==
  /\ ViewTypeOK
  /\ \A c \in MapCabinets : beat[c] <= time
  /\ Has(Server("health")) =>
       /\ Data(Server("health")) \in [MapCabinets -> [beat : Nat, smart : BOOLEAN]]
       /\ \A c \in MapCabinets : Data(Server("health"))[c].beat <= beat[c]
  /\ Has(Server("berths")) =>
       Data(Server("berths")) \in [MapBerths -> [code : {Absent, 0, 1, 2}, at : 0 .. MaxViewTime]]

LEMMA InitViewInv == ViewInit => ViewInv
BY ViewAssumption DEF ViewInit, ViewInv, ViewTypeOK, Has, Server, Reads

\* What two answers hold.
LEMMA AnswerTypes ==
  ASSUME ViewTypeOK
  PROVE  /\ Answer(Server("health")) \in [MapCabinets -> [beat : Nat, smart : BOOLEAN]]
         /\ \A c \in MapCabinets : Answer(Server("health"))[c].beat = beat[c]
         /\ Answer(Server("berths")) = camera
BY ViewAssumption DEF Answer, Server, ViewTypeOK

LEMMA ReadAllInv ==
  ASSUME ViewInv, NEW reads, ReadAll(reads) PROVE ViewInv'
<1>1. PICK failed \in Unanswered :
        cache' = [r \in Reads |-> IF r \in reads \ failed THEN [at |-> time, data |-> Answer(r)]
                                  ELSE cache[r]]
  BY DEF ReadAll
<1>2. UNCHANGED <<time, beat, smart, camera, wet, tripped, powered, reserved, events>>
  BY DEF ReadAll
<1>3. Server("health") \in Reads /\ Server("berths") \in Reads
  BY DEF Server, Reads
<1>4. time \in 0 .. MaxViewTime /\ time \in Nat /\ time \in 0 .. time
  BY ViewAssumption DEF ViewInv, ViewTypeOK
<1>5. ViewTypeOK'
  <2>1. \A r \in Reads : Has(r)' => cache'[r].at \in 0 .. time
    BY <1>1, <1>4 DEF ViewInv, ViewTypeOK, Has
  <2>. QED BY <1>1, <1>2, <2>1 DEF ViewInv, ViewTypeOK, Has, Reads
<1>6. ASSUME Has(Server("health"))'
      PROVE  /\ Data(Server("health"))' \in [MapCabinets -> [beat : Nat, smart : BOOLEAN]]
             /\ \A c \in MapCabinets : Data(Server("health"))'[c].beat <= beat'[c]
  <2>1. CASE Server("health") \in reads \ failed
    <3>1. Data(Server("health"))' = Answer(Server("health"))
      BY <1>1, <1>3, <2>1 DEF Data
    <3>2. \A c \in MapCabinets : beat[c] \in Nat
      BY ViewAssumption DEF ViewInv, ViewTypeOK
    <3>. QED BY <1>2, <3>1, <3>2, AnswerTypes DEF ViewInv
  <2>2. CASE Server("health") \notin reads \ failed
    <3>1. cache'[Server("health")] = cache[Server("health")]
      BY <1>1, <1>3, <2>2
    <3>. QED BY <1>2, <1>6, <3>1 DEF ViewInv, Has, Data
  <2>. QED BY <2>1, <2>2
<1>7. ASSUME Has(Server("berths"))'
      PROVE  Data(Server("berths"))' \in [MapBerths -> [code : {Absent, 0, 1, 2}, at : 0 .. MaxViewTime]]
  <2>1. CASE Server("berths") \in reads \ failed
    <3>1. Data(Server("berths"))' = camera
      BY <1>1, <1>3, <2>1, AnswerTypes DEF Data, ViewInv
    <3>. QED BY <3>1 DEF ViewInv, ViewTypeOK
  <2>2. CASE Server("berths") \notin reads \ failed
    <3>1. cache'[Server("berths")] = cache[Server("berths")]
      BY <1>1, <1>3, <2>2
    <3>. QED BY <1>2, <1>7, <3>1 DEF ViewInv, Has, Data
  <2>. QED BY <2>1, <2>2
<1>8. \A c \in MapCabinets : beat'[c] <= time'
  BY <1>2 DEF ViewInv
<1>. QED BY <1>5, <1>6, <1>7, <1>8 DEF ViewInv

LEMMA StepViewInv == ViewInv /\ [ViewNext]_viewVars => ViewInv'
<1>. SUFFICES ASSUME ViewInv, [ViewNext]_viewVars PROVE ViewInv'
  OBVIOUS
<1>. USE ViewAssumption
<1>1. CASE CollectorPolls
  BY <1>1, ReadAllInv DEF CollectorPolls
<1>2. CASE BerthsPage
  BY <1>2, ReadAllInv DEF BerthsPage
<1>3. CASE Happens
  <2>1. UNCHANGED <<time, beat, camera, cache>> /\ events' \in 0 .. MaxEvents
    BY <1>3 DEF Happens, Event, ViewInv, ViewTypeOK
  <2>2. /\ smart' \subseteq MapCabinets /\ wet' \subseteq MapCabinets
        /\ tripped' \subseteq MapCabinets
        /\ powered' \subseteq MapBerths /\ reserved' \subseteq MapBerths
    BY <1>3 DEF Happens, Toggle, ViewInv, ViewTypeOK
  <2>. QED BY <2>1, <2>2 DEF ViewInv, ViewTypeOK, Has, Data
<1>4. CASE TimeGoesOn
  BY <1>4 DEF TimeGoesOn, ViewInv, ViewTypeOK, Has, Data
<1>5. ASSUME NEW c \in MapCabinets, Heartbeat(c) PROVE ViewInv'
  <2>1. beat' = [beat EXCEPT ![c] = time] /\ beat \in [MapCabinets -> 0 .. MaxViewTime]
    BY <1>5 DEF Heartbeat, ViewInv, ViewTypeOK
  <2>2. \A d \in MapCabinets : beat[d] \in Nat /\ beat'[d] \in Nat /\ beat'[d] \in {beat[d], time}
    BY <2>1 DEF ViewInv, ViewTypeOK
  <2>3. Has(Server("health")) =>
          \A d \in MapCabinets : Data(Server("health"))[d].beat <= beat'[d]
    <3>1. SUFFICES ASSUME Has(Server("health")), NEW d \in MapCabinets
                   PROVE  Data(Server("health"))[d].beat <= beat'[d]
      OBVIOUS
    <3>2. Data(Server("health"))[d].beat <= beat[d] /\ Data(Server("health"))[d].beat \in Nat
      BY <3>1 DEF ViewInv
    <3>3. beat[d] <= time /\ time \in Nat
      BY DEF ViewInv, ViewTypeOK
    <3>. QED BY <2>2, <3>2, <3>3
  <2>4. \A d \in MapCabinets : beat'[d] <= time'
    BY <1>5, <2>2 DEF Heartbeat, ViewInv, ViewTypeOK
  <2>. QED BY <1>5, <2>1, <2>3, <2>4 DEF Heartbeat, ViewInv, ViewTypeOK, Has, Data
<1>6. ASSUME NEW b \in MapBerths, Analyses(b) PROVE ViewInv'
  <2>1. camera' \in [MapBerths -> [code : {Absent, 0, 1, 2}, at : 0 .. MaxViewTime]]
    BY <1>6 DEF Analyses, ViewInv, ViewTypeOK
  <2>2. events' \in 0 .. MaxEvents /\ UNCHANGED <<time, beat, smart, wet, tripped, powered, reserved, cache>>
    BY <1>6 DEF Analyses, Event, ViewInv, ViewTypeOK
  <2>. QED BY <2>1, <2>2 DEF ViewInv, ViewTypeOK, Has, Data
<1>7. CASE UNCHANGED viewVars
  BY <1>7 DEF viewVars, ViewInv, ViewTypeOK, Has, Data
<1>. QED BY <1>1, <1>2, <1>3, <1>4, <1>5, <1>6, <1>7 DEF ViewNext

\* Of eight rows of a table one that is true has no true one before it.
LEMMA FirstTrue ==
  ASSUME NEW f, \E i \in 1 .. 8 : f[i]
  PROVE  \E i \in 1 .. 8 : f[i] /\ \A j \in 1 .. i - 1 : ~f[j]
<1>1. CASE f[1]
  BY <1>1
<1>2. CASE ~f[1] /\ f[2]
  BY <1>2
<1>3. CASE ~f[1] /\ ~f[2] /\ f[3]
  BY <1>3
<1>4. CASE ~f[1] /\ ~f[2] /\ ~f[3] /\ f[4]
  BY <1>4
<1>5. CASE ~f[1] /\ ~f[2] /\ ~f[3] /\ ~f[4] /\ f[5]
  BY <1>5
<1>6. CASE ~f[1] /\ ~f[2] /\ ~f[3] /\ ~f[4] /\ ~f[5] /\ f[6]
  BY <1>6
<1>7. CASE ~f[1] /\ ~f[2] /\ ~f[3] /\ ~f[4] /\ ~f[5] /\ ~f[6] /\ f[7]
  BY <1>7
<1>8. CASE ~f[1] /\ ~f[2] /\ ~f[3] /\ ~f[4] /\ ~f[5] /\ ~f[6] /\ ~f[7] /\ f[8]
  BY <1>8
<1>. QED BY <1>1, <1>2, <1>3, <1>4, <1>5, <1>6, <1>7, <1>8

\* A berth's state is the first row that is true of it.
LEMMA StatusIs ==
  ASSUME NEW b \in MapBerths, \E i \in 1 .. 8 : True(b, Table[i])
  PROVE  \E i \in 1 .. 8 :
           StatusCode(b) = Table[i] /\ True(b, Table[i]) /\ \A j \in 1 .. i - 1 : ~True(b, Table[j])
<1>. DEFINE f == [i \in 1 .. 8 |-> True(b, Table[i])]
<1>1. DOMAIN Table = 1 .. 8
  BY DEF Table
<1>2. \A i \in 1 .. 8 : f[i] <=> True(b, Table[i])
  OBVIOUS
<1>3. \E i \in 1 .. 8 : f[i] /\ \A j \in 1 .. i - 1 : ~f[j]
  <2>1. \E i \in 1 .. 8 : f[i]
    BY <1>2
  <2>. HIDE DEF f
  <2>. QED BY <2>1, FirstTrue
<1>4. \E i \in DOMAIN Table : True(b, Table[i]) /\ \A j \in 1 .. i - 1 : ~True(b, Table[j])
  BY <1>1, <1>2, <1>3
<1>. QED BY <1>1, <1>4 DEF StatusCode

LEMMA Rows ==
  ASSUME NEW b \in MapBerths
  PROVE  /\ True(b, Table[1]) <=> ServedBy[b] = Absent
         /\ True(b, Table[2]) <=> Connection(b) = "OFFLINE" \/ DataIsStale
         /\ True(b, Table[4]) => Vessel(b) = "WRONG"
         /\ True(b, Table[5]) => Vessel(b) = "NONE"
         /\ True(b, Table[6]) => Vessel(b) = "NONE"
         /\ True(b, Table[7]) => Vessel(b) = "RIGHT"
         /\ True(b, Table[8]) => Vessel(b) = "NONE"
         /\ Table[1] = "no_cabinet" /\ Table[2] = "no_contact" /\ Table[3] = "standalone"
         /\ Table[4] = "vessel_mismatch" /\ Table[5] = "power_without_vessel"
         /\ Table[6] = "reserved_empty" /\ Table[7] = "vessel_present" /\ Table[8] = "free"
<1>1. /\ Table[1] = "no_cabinet" /\ Table[2] = "no_contact" /\ Table[3] = "standalone"
      /\ Table[4] = "vessel_mismatch" /\ Table[5] = "power_without_vessel"
      /\ Table[6] = "reserved_empty" /\ Table[7] = "vessel_present" /\ Table[8] = "free"
  BY DEF Table
<1>. QED BY <1>1 DEF True

\* What a berth's state says of its cabinet, of the answers and of its vessel.
LEMMA StatusMeans ==
  ASSUME NEW b \in MapBerths
  PROVE  /\ StatusCode(b) = "no_cabinet" <=> ServedBy[b] = Absent
         /\ StatusCode(b) \notin {"no_cabinet", "no_contact"} =>
              Connection(b) # "OFFLINE" /\ ~DataIsStale
         /\ StatusCode(b) = "vessel_mismatch" => Vessel(b) = "WRONG"
         /\ StatusCode(b) = "vessel_present" => Vessel(b) = "RIGHT"
         /\ StatusCode(b) \notin Grey => Vessel(b) # "UNKNOWN"
<1>1. CASE \A i \in 1 .. 8 : ~True(b, Table[i])
  <2>1. StatusCode(b) = "unclassified"
    <3>1. DOMAIN Table = 1 .. 8
      BY DEF Table
    <3>. QED BY <1>1, <3>1 DEF StatusCode
  <2>2. ~True(b, Table[1]) /\ ~True(b, Table[2])
    BY <1>1
  <2>. QED BY <2>1, <2>2, Rows DEF Grey
<1>2. CASE \E i \in 1 .. 8 : True(b, Table[i])
  <2>1. PICK i \in 1 .. 8 : /\ StatusCode(b) = Table[i] /\ True(b, Table[i])
                            /\ \A j \in 1 .. i - 1 : ~True(b, Table[j])
    BY <1>2, StatusIs
  <2>2. CASE i = 1
    BY <2>1, <2>2, Rows DEF Grey
  <2>3. CASE i = 2
    <3>1. ~True(b, Table[1])
      BY <2>1, <2>3
    <3>. QED BY <2>1, <2>3, <3>1, Rows DEF Grey
  <2>4. CASE i > 2
    <3>1. ~True(b, Table[1]) /\ ~True(b, Table[2])
      BY <2>1, <2>4
    <3>2. i \in {3, 4, 5, 6, 7, 8}
      BY <2>4
    <3>. QED BY <2>1, <3>1, <3>2, Rows DEF Grey
  <2>. QED BY <2>2, <2>3, <2>4
<1>. QED BY <1>1, <1>2

\* A cabinet that is not offline has beaten lately.
LEMMA ContactMeans ==
  ASSUME ViewInv, NEW b \in MapBerths, Connection(b) # "OFFLINE"
  PROVE  ServedBy[b] # Absent /\ time - beat[ServedBy[b]] <= OFFLINE_AFTER
<1>1. /\ ServedBy[b] # Absent /\ Has(Server("health"))
      /\ ~(time - Data(Server("health"))[ServedBy[b]].beat > OFFLINE_AFTER)
  BY DEF Connection
<1>2. ServedBy[b] \in MapCabinets
  BY <1>1, ViewAssumption
<1>3. /\ Data(Server("health"))[ServedBy[b]].beat \in Nat /\ beat[ServedBy[b]] \in Nat
      /\ Data(Server("health"))[ServedBy[b]].beat <= beat[ServedBy[b]]
  BY <1>1, <1>2, ViewAssumption DEF ViewInv, ViewTypeOK
<1>4. time \in Nat /\ OFFLINE_AFTER \in Nat
  BY ViewAssumption DEF ViewInv, ViewTypeOK
<1>. QED BY <1>1, <1>3, <1>4

\* A vessel that is known was analysed lately.
LEMMA VesselMeans ==
  ASSUME ViewInv, NEW b \in MapBerths
  PROVE  /\ Vessel(b) # "UNKNOWN" => time - Data(Server("berths"))[b].at <= VESSEL_FRESH_FOR
         /\ Vessel(b) \in {"RIGHT", "WRONG"} => Data(Server("berths"))[b].code \in {1, 2}
<1>1. SUFFICES ASSUME Vessel(b) # "UNKNOWN"
               PROVE  /\ time - Data(Server("berths"))[b].at <= VESSEL_FRESH_FOR
                      /\ Vessel(b) \in {"RIGHT", "WRONG"} => Data(Server("berths"))[b].code \in {1, 2}
  OBVIOUS
<1>2. /\ Listed(b) /\ Data(Server("berths"))[b].code # Absent
      /\ ~(time - Data(Server("berths"))[b].at > VESSEL_FRESH_FOR)
  BY <1>1 DEF Vessel, Analysed
<1>3. Data(Server("berths"))[b] \in [code : {Absent, 0, 1, 2}, at : 0 .. MaxViewTime]
  BY <1>2 DEF Listed, ViewInv
<1>4. time \in Nat /\ VESSEL_FRESH_FOR \in Nat /\ Data(Server("berths"))[b].at \in Nat
  BY <1>3, ViewAssumption DEF ViewInv, ViewTypeOK
<1>5. Vessel(b) \in {"RIGHT", "WRONG"} => Data(Server("berths"))[b].code # 0
  BY <1>1 DEF Vessel
<1>. QED BY <1>2, <1>3, <1>4, <1>5

\* With data that is not stale no answer is old.
LEMMA FreshMeans ==
  ASSUME ViewInv, ~DataIsStale
  PROVE  /\ \A r \in Required : Has(r)
         /\ \A r \in Reads : Has(r) => time - cache[r].at <= CACHE_FRESH_FOR
<1>1. \A r \in Reads : Has(r) => cache[r].at \in Nat
  BY ViewAssumption DEF ViewInv, ViewTypeOK
<1>. QED BY <1>1, ViewAssumption DEF DataIsStale, Old, ViewInv, ViewTypeOK

LEMMA InvFresh == ViewInv => FreshOrGrey
<1>. SUFFICES ASSUME ViewInv PROVE FreshOrGrey
  OBVIOUS
<1>1. ASSUME NEW b \in MapBerths, StatusCode(b) \notin Grey \/ AlarmList(b) # {}
      PROVE  /\ ServedBy[b] # Absent /\ time - beat[ServedBy[b]] <= OFFLINE_AFTER
             /\ \A r \in Required : Has(r)
             /\ \A r \in Reads : Has(r) => time - cache[r].at <= CACHE_FRESH_FOR
             /\ StatusCode(b) \notin Grey => time - Data(Server("berths"))[b].at <= VESSEL_FRESH_FOR
  <2>1. StatusCode(b) \notin {"no_cabinet", "no_contact"}
    BY <1>1 DEF Grey, AlarmList, AlarmsKnown
  <2>2. Connection(b) # "OFFLINE" /\ ~DataIsStale
    BY <2>1, StatusMeans
  <2>. QED BY <2>2, ContactMeans, FreshMeans, StatusMeans, VesselMeans
<1>2. ASSUME NEW b \in OccupancyCard.occupied
      PROVE  /\ Data(Server("berths"))[b].code \in {1, 2}
             /\ time - Data(Server("berths"))[b].at <= VESSEL_FRESH_FOR
  <2>1. b \in MapBerths /\ StatusCode(b) \in {"vessel_present", "vessel_mismatch"}
    BY <1>2 DEF OccupancyCard
  <2>2. Vessel(b) \in {"RIGHT", "WRONG"}
    BY <2>1, StatusMeans
  <2>. QED BY <2>1, <2>2, VesselMeans
<1>3. ASSUME OccupancyCard.state = "fresh", NEW b \in MapBerths, ServedBy[b] # Absent
      PROVE  time - beat[ServedBy[b]] <= OFFLINE_AFTER
  <2>1. StatusCode(b) # "no_contact"
    <3>. DEFINE code == [x \in MapBerths |-> StatusCode(x)]
                silent == {x \in MapBerths : code[x] \in {"no_contact"}}
                known == MapBerths \ {x \in MapBerths : code[x] \in Grey}
    <3>1. OccupancyCard.state = CASE known = {} -> "stale"
                                  [] known # {} /\ silent # {} -> "partial"
                                  [] OTHER -> "fresh"
      BY DEF OccupancyCard
    <3>2. ~(known # {} /\ silent # {}) /\ known # {}
      BY <1>3, <3>1
    <3>3. silent = {}
      BY <3>2
    <3>. QED BY <3>3
  <2>2. StatusCode(b) # "no_cabinet"
    BY <1>3, StatusMeans
  <2>. QED BY <2>1, <2>2, StatusMeans, ContactMeans
<1>. DEFINE shown == Dashboard
<1>4. \A b \in MapBerths : shown[b].code = StatusCode(b) /\ shown[b].alarms = AlarmList(b)
  BY DEF Dashboard
<1>. HIDE DEF shown
<1>5. \A b \in MapBerths : shown[b].code \notin Grey \/ shown[b].alarms # {} =>
          /\ ServedBy[b] # Absent /\ time - beat[ServedBy[b]] <= OFFLINE_AFTER
          /\ \A r \in Required : Has(r)
          /\ \A r \in Reads : Has(r) => time - cache[r].at <= CACHE_FRESH_FOR
          /\ shown[b].code \notin Grey => time - Data(Server("berths"))[b].at <= VESSEL_FRESH_FOR
  BY <1>1, <1>4
<1>. QED BY <1>2, <1>3, <1>5 DEF FreshOrGrey, shown

\* The types, and that stored answers are no newer than what they are of.
THEOREM ViewInvariant == ViewSpec => []ViewInv
<1>. QED BY InitViewInv, StepViewInv, PTL DEF ViewSpec

\* The types of the variables.
THEOREM ViewTypeCorrect == ViewSpec => []ViewTypeOK
<1>1. ViewInv => ViewTypeOK
  BY DEF ViewInv
<1>. QED BY <1>1, ViewInvariant, PTL

\* A berth has a colour only while what it says is known: whichever reads fail, and whenever the
\* collector and the Berths page ask.
THEOREM BerthsFreshOrGrey == ViewSpec => []FreshOrGrey
<1>. QED BY InvFresh, ViewInvariant, PTL

(***************************************************************************)
(* The marina's events: rows and readings                                  *)
(***************************************************************************)

Keys == MarinaIds \X PedestalIds
StoredReading == [number : Nat, at : Nat, safe : BOOLEAN]
Handled == [number : Nat, at : Nat, marina : MarinaIds, pedestal : PedestalIds,
            type : EventTypes, todo : SUBSET DOMAIN Turn, synced : BOOLEAN]

RowsTyped ==
  /\ clock \in 0 .. MaxClock /\ number \in 0 .. MaxNumber
  /\ pedestals \in [Keys -> PedestalEntry \union {Nothing}]
  /\ newest \in [MarinaIds \X PedestalIds \X Fields -> StoredReading \union {Nothing}]
  /\ handling \in Handled \union {Nothing} /\ doomed \subseteq Keys

\* A row's synced time has passed; the row of the marina itself has none.
SyncedTimes ==
  \A k \in Keys : pedestals[k] # Nothing =>
    /\ pedestals[k].synced \in (0 .. clock) \union {Nothing}
    /\ k[2] = 0 => pedestals[k].synced = Nothing

\* The event at hand is no older than what is stored, and its row's time is its own by then.
AtHand ==
  handling # Nothing =>
    LET k == <<handling.marina, handling.pedestal>> IN
    /\ handling.at <= clock
    /\ "cache" \in handling.todo => handling.pedestal # 0
    /\ "readings" \in handling.todo => handling.type \in Sensors
    /\ handling.synced /\ pedestals[k] # Nothing =>
         pedestals[k].synced \in {Nothing, handling.at}

StoredTimes ==
  \A m \in MarinaIds, p \in PedestalIds, f \in Fields : newest[<<m, p, f>>] # Nothing =>
    /\ newest[<<m, p, f>>].at <= clock
    /\ handling # Nothing => newest[<<m, p, f>>].at <= handling.at

\* A reading inside the window is shown, and retention will not take its row before the window
\* is over.
StaysShown(m, p, f) ==
  /\ pedestals[<<m, p>>] # Nothing /\ pedestals[<<m, p>>].shown[f] = newest[<<m, p, f>>].number
  /\ <<m, p>> \notin doomed
  /\ pedestals[<<m, p>>].synced # Nothing => newest[<<m, p, f>>].at <= pedestals[<<m, p>>].synced

InWindow(x) == x # Nothing /\ x.safe /\ clock - x.at <= CacheWindow

RowsKept ==
  \A m \in MarinaIds, p \in PedestalIds, f \in Fields : InWindow(newest[<<m, p, f>>]) => StaysShown(m, p, f)

RowsInv == RowsTyped /\ SyncedTimes /\ AtHand /\ StoredTimes /\ RowsKept

LEMMA InitRows == EventsInit => RowsInv
<1>. SUFFICES ASSUME EventsInit PROVE RowsInv
  OBVIOUS
<1>. USE EventsAssumption DEF EventsInit
<1>1. RowsTyped
  BY DEF RowsTyped, Keys
<1>2. SyncedTimes
  BY DEF SyncedTimes, Keys
<1>3. \A m \in MarinaIds, p \in PedestalIds, f \in Fields : newest[<<m, p, f>>] = Nothing
  OBVIOUS
<1>. QED BY <1>1, <1>2, <1>3 DEF RowsInv, AtHand, StoredTimes, RowsKept, InWindow

\* What an event has to write.
LEMMA PartsOf ==
  ASSUME NEW type, NEW p
  PROVE  /\ Parts(type, p) \subseteq DOMAIN Turn
         /\ "cache" \in Parts(type, p) => p # 0
         /\ "readings" \in Parts(type, p) => type \in Sensors
BY DEF Parts

LEMMA ReceiveRows ==
  ASSUME RowsInv, NEW m \in MarinaIds, NEW p \in PedestalIds, NEW type \in EventTypes,
         Receive(m, p, type)
  PROVE  RowsInv'
<1>. USE EventsAssumption
<1>1. /\ number < MaxNumber /\ number' = number + 1
      /\ handling' = [number |-> number', at |-> clock, marina |-> m, pedestal |-> p, type |-> type,
                      todo |-> Parts(type, p), synced |-> p = 0]
      /\ UNCHANGED <<clock, pedestals, logged, newest, doomed>>
  BY DEF Receive, rowVars
<1>2. handling' \in Handled
  BY <1>1, PartsOf DEF Handled, RowsInv, RowsTyped
<1>3. RowsTyped'
  BY <1>1, <1>2 DEF RowsInv, RowsTyped
<1>4. SyncedTimes'
  BY <1>1 DEF RowsInv, SyncedTimes
<1>5. AtHand'
  <2>1. <<m, p>> \in Keys /\ <<m, p>>[2] = p
    BY DEF Keys
  <2>2. p = 0 /\ pedestals[<<m, p>>] # Nothing => pedestals[<<m, p>>].synced = Nothing
    BY <2>1 DEF RowsInv, SyncedTimes
  <2>3. clock <= clock
    BY DEF RowsInv, RowsTyped
  <2>. QED BY <1>1, <2>2, <2>3, PartsOf DEF AtHand
<1>6. StoredTimes'
  BY <1>1 DEF RowsInv, StoredTimes
<1>7. RowsKept'
  BY <1>1 DEF RowsInv, RowsKept, InWindow, StaysShown
<1>. QED BY <1>3, <1>4, <1>5, <1>6, <1>7 DEF RowsInv

\* The row an event writes: the one there is, or a new one.
LEMMA PedestalRowIs ==
  ASSUME RowsInv, NEW m \in MarinaIds, NEW p \in PedestalIds
  PROVE  /\ PedestalRow(m, p) \in PedestalEntry
         /\ pedestals[<<m, p>>] # Nothing => PedestalRow(m, p) = pedestals[<<m, p>>]
         /\ pedestals[<<m, p>>] = Nothing => PedestalRow(m, p).synced = Nothing
BY DEF PedestalRow, PedestalEntry, RowsInv, RowsTyped, Keys

LEMMA SyncRows ==
  ASSUME RowsInv, NEW k \in Keys, handling # Nothing, k = <<handling.marina, handling.pedestal>>,
         "cache" \in handling.todo,
         pedestals' = [pedestals EXCEPT ![k] =
                         [PedestalRow(handling.marina, handling.pedestal) EXCEPT
                            !.synced = handling.at]],
         handling' = [handling EXCEPT !.todo = @ \ {"cache"}, !.synced = TRUE],
         UNCHANGED <<clock, logged, newest, number, doomed>>
  PROVE  RowsInv'
<1>. USE EventsAssumption
<1>1. handling \in Handled /\ k[2] = handling.pedestal /\ handling.pedestal # 0
  BY DEF RowsInv, RowsTyped, AtHand
<1>. DEFINE entry == PedestalRow(handling.marina, handling.pedestal)
<1>2. entry \in PedestalEntry /\ pedestals[k] # Nothing => entry = pedestals[k]
  BY <1>1, PedestalRowIs DEF Handled
<1>3. entry \in PedestalEntry
  BY <1>1, PedestalRowIs DEF Handled
<1>. DEFINE new == [entry EXCEPT !.synced = handling.at]
<1>4. /\ new \in PedestalEntry /\ new.synced = handling.at /\ new.shown = entry.shown
      /\ new # Nothing
  BY <1>1, <1>3 DEF PedestalEntry, Handled
<1>. HIDE DEF entry, new
<1>5. pedestals' = [pedestals EXCEPT ![k] = new]
  BY DEF entry, new
<1>6. pedestals'[k] = new /\ \A j \in Keys : j # k => pedestals'[j] = pedestals[j]
  BY <1>5 DEF RowsInv, RowsTyped
<1>7. /\ handling' \in Handled /\ handling'.at = handling.at /\ handling'.type = handling.type
      /\ handling'.marina = handling.marina /\ handling'.pedestal = handling.pedestal
      /\ handling'.todo \subseteq handling.todo
  BY <1>1 DEF Handled
<1>8. RowsTyped'
  BY <1>4, <1>5, <1>7 DEF RowsInv, RowsTyped
<1>9. SyncedTimes'
  <2>1. handling.at \in 0 .. clock
    BY <1>1 DEF Handled, RowsInv, RowsTyped, AtHand
  <2>. QED BY <1>1, <1>4, <1>6, <2>1 DEF RowsInv, SyncedTimes
<1>10. AtHand'
  BY <1>4, <1>6, <1>7 DEF RowsInv, AtHand
<1>11. StoredTimes'
  BY <1>7 DEF RowsInv, StoredTimes
<1>12. RowsKept'
  <2>1. SUFFICES ASSUME NEW m \in MarinaIds, NEW p \in PedestalIds, NEW f \in Fields,
                        InWindow(newest[<<m, p, f>>])'
                 PROVE  StaysShown(m, p, f)'
    BY DEF RowsKept
  <2>2. StaysShown(m, p, f) /\ newest[<<m, p, f>>] # Nothing
    BY <2>1 DEF RowsInv, RowsKept, InWindow
  <2>3. CASE <<m, p>> = k
    <3>1. newest[<<m, p, f>>].at <= handling.at
      BY <2>2 DEF RowsInv, StoredTimes
    <3>2. entry = pedestals[k]
      BY <1>1, <2>2, <2>3, PedestalRowIs DEF Handled, StaysShown, entry
    <3>. QED BY <1>4, <1>6, <2>2, <2>3, <3>1, <3>2 DEF StaysShown
  <2>4. CASE <<m, p>> # k
    <3>1. pedestals'[<<m, p>>] = pedestals[<<m, p>>]
      BY <1>6, <2>4 DEF Keys
    <3>. QED BY <2>2, <3>1 DEF StaysShown
  <2>. QED BY <2>3, <2>4
<1>. QED BY <1>8, <1>9, <1>10, <1>11, <1>12 DEF RowsInv

LEMMA ReadingRows ==
  ASSUME RowsInv, NEW f \in Fields, handling # Nothing, StoreReading(f), NEW piece,
         handling' = [handling EXCEPT !.todo = @ \ {piece}],
         UNCHANGED <<clock, number, doomed>>
  PROVE  RowsInv'
<1>. USE EventsAssumption
<1>. DEFINE m == handling.marina
            p == handling.pedestal
            k == <<m, p>>
            entry == PedestalRow(m, p)
            new == Reading(entry, f, handling.number)
            x == [number |-> handling.number, at |-> handling.at,
                  safe |-> handling.synced /\ k \notin doomed]
<1>1. handling \in Handled /\ k \in Keys /\ m \in MarinaIds /\ p \in PedestalIds
  BY DEF RowsInv, RowsTyped, Handled, Keys
<1>2. /\ entry \in PedestalEntry /\ (pedestals[k] # Nothing => entry = pedestals[k])
      /\ (pedestals[k] = Nothing => entry.synced = Nothing)
  BY <1>1, PedestalRowIs
<1>3. /\ new \in PedestalEntry /\ new # Nothing /\ new.synced = entry.synced
      /\ new.shown[f] = handling.number
      /\ \A g \in Fields : g # f => new.shown[g] = entry.shown[g]
  BY <1>1, <1>2 DEF Reading, PedestalEntry, Handled
<1>4. pedestals' = [pedestals EXCEPT ![k] = new] /\ newest' = [newest EXCEPT ![<<m, p, f>>] = x]
  BY DEF StoreReading, Store
<1>5. x \in StoredReading /\ x.number = handling.number /\ x.at = handling.at
  BY <1>1 DEF Handled, StoredReading
<1>6. x.safe => handling.synced /\ k \notin doomed
  OBVIOUS
<1>. HIDE DEF new, x
<1>7. pedestals'[k] = new /\ \A j \in Keys : j # k => pedestals'[j] = pedestals[j]
  BY <1>1, <1>4 DEF RowsInv, RowsTyped
<1>8. /\ newest'[<<m, p, f>>] = x
      /\ \A n \in MarinaIds, q \in PedestalIds, g \in Fields :
           <<n, q, g>> # <<m, p, f>> => newest'[<<n, q, g>>] = newest[<<n, q, g>>]
  BY <1>1, <1>4 DEF RowsInv, RowsTyped
<1>9. /\ handling' \in Handled /\ handling'.at = handling.at /\ handling'.type = handling.type
      /\ handling'.marina = m /\ handling'.pedestal = p /\ handling'.synced = handling.synced
      /\ handling'.todo \subseteq handling.todo
  BY <1>1 DEF Handled
<1>. HIDE DEF entry
<1>10. RowsTyped'
  BY <1>3, <1>4, <1>5, <1>9 DEF RowsInv, RowsTyped
<1>11. SyncedTimes'
  <2>1. new.synced \in (0 .. clock) \union {Nothing} /\ (p = 0 => new.synced = Nothing)
    BY <1>1, <1>2, <1>3 DEF RowsInv, SyncedTimes
  <2>. QED BY <1>7, <2>1 DEF RowsInv, SyncedTimes
<1>12. entry.synced \in {Nothing, handling.at} \/ ~handling.synced
  BY <1>2 DEF RowsInv, AtHand
<1>13. AtHand'
  BY <1>3, <1>7, <1>9, <1>12 DEF RowsInv, AtHand
<1>14. handling.at <= clock /\ handling.at \in Nat
  BY <1>1 DEF RowsInv, AtHand, Handled
<1>15. StoredTimes'
  <2>1. handling.at <= handling.at
    BY <1>14
  <2>. SUFFICES ASSUME NEW n \in MarinaIds, NEW q \in PedestalIds, NEW g \in Fields,
                       newest'[<<n, q, g>>] # Nothing
                PROVE  newest'[<<n, q, g>>].at <= clock /\ newest'[<<n, q, g>>].at <= handling.at
    BY <1>9 DEF StoredTimes
  <2>2. CASE <<n, q, g>> = <<m, p, f>>
    BY <1>5, <1>8, <1>14, <2>1, <2>2
  <2>3. CASE <<n, q, g>> # <<m, p, f>>
    BY <1>8, <2>3 DEF RowsInv, StoredTimes
  <2>. QED BY <2>2, <2>3
<1>16. RowsKept'
  <2>1. SUFFICES ASSUME NEW n \in MarinaIds, NEW q \in PedestalIds, NEW g \in Fields,
                        InWindow(newest[<<n, q, g>>])'
                 PROVE  StaysShown(n, q, g)'
    BY DEF RowsKept
  <2>2. CASE <<n, q, g>> = <<m, p, f>>
    <3>1. n = m /\ q = p /\ g = f
      BY <2>2
    <3>2. x.safe
      BY <1>8, <2>1, <2>2 DEF InWindow
    <3>3. new.synced # Nothing => x.at <= new.synced
      BY <1>3, <1>5, <1>6, <1>12, <1>14, <3>2
    <3>. QED BY <1>3, <1>5, <1>6, <1>7, <1>8, <3>1, <3>2, <3>3 DEF StaysShown
  <2>3. CASE <<n, q, g>> # <<m, p, f>>
    <3>1. newest'[<<n, q, g>>] = newest[<<n, q, g>>]
      BY <1>8, <2>3
    <3>2. StaysShown(n, q, g)
      BY <2>1, <3>1 DEF RowsInv, RowsKept, InWindow
    <3>3. CASE <<n, q>> = k
      <4>1. entry = pedestals[k] /\ g # f
        BY <1>2, <2>3, <3>2, <3>3 DEF StaysShown
      <4>. QED BY <1>3, <1>7, <3>1, <3>2, <3>3, <4>1 DEF StaysShown
    <3>4. CASE <<n, q>> # k
      <4>1. pedestals'[<<n, q>>] = pedestals[<<n, q>>]
        BY <1>7, <3>4 DEF Keys
      <4>. QED BY <3>1, <3>2, <4>1 DEF StaysShown
    <3>. QED BY <3>3, <3>4
  <2>. QED BY <2>2, <2>3
<1>. QED BY <1>10, <1>11, <1>13, <1>15, <1>16 DEF RowsInv

\* A part that fails, and one that stores no reading.
LEMMA IdleRows ==
  ASSUME RowsInv, handling # Nothing, NEW piece,
         handling' = [handling EXCEPT !.todo = @ \ {piece}],
         UNCHANGED <<clock, pedestals, newest, number, doomed>>
  PROVE  RowsInv'
<1>1. handling \in Handled
  BY DEF RowsInv, RowsTyped
<1>2. /\ handling' \in Handled /\ handling'.at = handling.at /\ handling'.type = handling.type
      /\ handling'.marina = handling.marina /\ handling'.pedestal = handling.pedestal
      /\ handling'.synced = handling.synced /\ handling'.todo \subseteq handling.todo
  BY <1>1 DEF Handled
<1>3. RowsTyped' /\ SyncedTimes' /\ AtHand' /\ StoredTimes'
  BY <1>2 DEF RowsInv, RowsTyped, SyncedTimes, AtHand, StoredTimes
<1>. QED BY <1>3 DEF RowsInv, RowsKept, InWindow, StaysShown

LEMMA WriteRows ==
  ASSUME RowsInv, NEW piece \in DOMAIN Turn, NEW ok \in BOOLEAN, WritePart(piece, ok)
  PROVE  RowsInv'
<1>. DEFINE m == handling.marina
            p == handling.pedestal
<1>1. /\ handling # Nothing /\ piece \in handling.todo
      /\ handling' = [handling EXCEPT !.todo = @ \ {piece}, !.synced = @ \/ (ok /\ piece = "cache")]
      /\ UNCHANGED <<clock, number, doomed>>
  BY DEF WritePart
<1>2. /\ handling \in Handled /\ <<m, p>> \in Keys
      /\ piece \in {"cache", "alarm", "session", "temperature", "readings"}
  BY <1>1 DEF RowsInv, RowsTyped, Handled, Keys, Turn
<1>3. ~(ok /\ piece = "cache") => handling' = [handling EXCEPT !.todo = @ \ {piece}]
  BY <1>1, <1>2 DEF Handled
<1>4. CASE ~ok
  <2>1. UNCHANGED <<pedestals, newest>>
    BY <1>4 DEF WritePart, rowVars
  <2>. QED BY <1>1, <1>3, <1>4, <2>1, IdleRows
<1>5. CASE ok /\ piece = "cache"
  <2>1. /\ pedestals' = [pedestals EXCEPT ![<<m, p>>] = [PedestalRow(m, p) EXCEPT
                                                           !.synced = handling.at]]
        /\ UNCHANGED <<logged, newest>>
    BY <1>5 DEF WritePart, Store
  <2>2. handling' = [handling EXCEPT !.todo = @ \ {"cache"}, !.synced = TRUE]
    BY <1>1, <1>2, <1>5 DEF Handled
  <2>. QED BY <1>1, <1>2, <1>5, <2>1, <2>2, SyncRows
<1>6. CASE ok /\ piece \in {"alarm", "session"}
  <2>1. UNCHANGED <<pedestals, newest>>
    BY <1>6 DEF WritePart, EventLog
  <2>. QED BY <1>1, <1>3, <1>6, <2>1, IdleRows
<1>7. CASE ok /\ piece = "temperature"
  <2>1. StoreReading("last_temperature")
    BY <1>7 DEF WritePart
  <2>. QED BY <1>1, <1>3, <1>7, <2>1, ReadingRows DEF Fields
<1>8. CASE ok /\ piece = "readings"
  <2>1. StoreReading(handling.type)
    BY <1>8 DEF WritePart
  <2>2. handling.type \in Fields
    BY <1>1, <1>2, <1>8 DEF RowsInv, AtHand, Handled, Fields
  <2>. QED BY <1>1, <1>3, <1>8, <2>1, <2>2, ReadingRows
<1>. QED BY <1>2, <1>4, <1>5, <1>6, <1>7, <1>8

LEMMA SelectRows == ASSUME RowsInv, RetentionSelects PROVE RowsInv'
<1>. USE EventsAssumption
<1>1. /\ doomed' = {k \in Keys : /\ pedestals[k] # Nothing /\ pedestals[k].synced # Nothing
                                 /\ clock - pedestals[k].synced > CacheWindow}
      /\ UNCHANGED <<clock, pedestals, logged, newest, handling, number>>
  BY DEF RetentionSelects, rowVars, Keys
<1>2. RowsTyped' /\ SyncedTimes' /\ AtHand' /\ StoredTimes'
  BY <1>1 DEF RowsInv, RowsTyped, SyncedTimes, AtHand, StoredTimes
<1>3. ASSUME NEW m \in MarinaIds, NEW p \in PedestalIds, NEW f \in Fields,
             InWindow(newest[<<m, p, f>>])'
      PROVE  StaysShown(m, p, f)'
  <2>1. /\ StaysShown(m, p, f) /\ newest[<<m, p, f>>] # Nothing
        /\ clock - newest[<<m, p, f>>].at <= CacheWindow
    BY <1>1, <1>3 DEF RowsInv, RowsKept, InWindow
  <2>2. newest[<<m, p, f>>].at \in Nat /\ clock \in Nat
    BY <2>1 DEF RowsInv, RowsTyped, StoredReading
  <2>3. <<m, p>> \in Keys /\ (pedestals[<<m, p>>].synced # Nothing =>
                                pedestals[<<m, p>>].synced \in Nat)
    BY <2>1 DEF Keys, RowsInv, SyncedTimes, StaysShown
  <2>4. <<m, p>> \notin doomed'
    BY <1>1, <2>1, <2>2, <2>3 DEF StaysShown
  <2>. QED BY <1>1, <2>1, <2>4 DEF StaysShown
<1>. QED BY <1>2, <1>3 DEF RowsInv, RowsKept

LEMMA ExpireRows == ASSUME RowsInv, RetentionDeletes PROVE RowsInv'
<1>. USE EventsAssumption
<1>1. /\ doomed' = {} /\ UNCHANGED <<clock, logged, newest, handling, number>>
      /\ pedestals' = [k \in Keys |-> IF k \in doomed THEN Nothing ELSE pedestals[k]]
  BY DEF RetentionDeletes, Keys
<1>2. \A k \in Keys : pedestals'[k] # Nothing => pedestals'[k] = pedestals[k]
  BY <1>1
<1>3. RowsTyped'
  BY <1>1 DEF RowsInv, RowsTyped
<1>4. SyncedTimes'
  BY <1>1, <1>2 DEF RowsInv, SyncedTimes
<1>5. handling # Nothing => <<handling.marina, handling.pedestal>> \in Keys
  BY DEF RowsInv, RowsTyped, Handled, Keys
<1>6. AtHand'
  BY <1>1, <1>2, <1>5 DEF RowsInv, AtHand
<1>7. StoredTimes'
  BY <1>1 DEF RowsInv, StoredTimes
<1>8. ASSUME NEW m \in MarinaIds, NEW p \in PedestalIds, NEW f \in Fields,
             InWindow(newest[<<m, p, f>>])'
      PROVE  StaysShown(m, p, f)'
  <2>1. StaysShown(m, p, f)
    BY <1>1, <1>8 DEF RowsInv, RowsKept, InWindow
  <2>2. pedestals'[<<m, p>>] = pedestals[<<m, p>>]
    BY <1>1, <2>1 DEF StaysShown, Keys
  <2>. QED BY <1>1, <2>1, <2>2 DEF StaysShown
<1>. QED BY <1>3, <1>4, <1>6, <1>7, <1>8 DEF RowsInv, RowsKept

LEMMA ClockRows == ASSUME RowsInv, ClockTicks PROVE RowsInv'
<1>. USE EventsAssumption
<1>1. /\ clock < MaxClock /\ clock' = clock + 1
      /\ UNCHANGED <<pedestals, logged, newest, handling, number, doomed>>
  BY DEF ClockTicks, rowVars
<1>2. clock \in Nat /\ RowsTyped'
  BY <1>1 DEF RowsInv, RowsTyped
<1>3. SyncedTimes'
  <2>1. 0 .. clock \subseteq 0 .. clock'
    BY <1>1, <1>2
  <2>. QED BY <1>1, <2>1 DEF RowsInv, SyncedTimes
<1>4. handling # Nothing => handling.at \in Nat
  BY DEF RowsInv, RowsTyped, Handled
<1>5. AtHand'
  BY <1>1, <1>2, <1>4 DEF RowsInv, AtHand
<1>6. \A m \in MarinaIds, p \in PedestalIds, f \in Fields :
        newest[<<m, p, f>>] # Nothing => newest[<<m, p, f>>].at \in Nat
  BY DEF RowsInv, RowsTyped, StoredReading
<1>7. StoredTimes'
  BY <1>1, <1>2, <1>6 DEF RowsInv, StoredTimes
<1>8. \A m \in MarinaIds, p \in PedestalIds, f \in Fields :
        InWindow(newest[<<m, p, f>>])' => InWindow(newest[<<m, p, f>>])
  BY <1>1, <1>2, <1>6 DEF InWindow
<1>9. RowsKept'
  BY <1>1, <1>8 DEF RowsInv, RowsKept, StaysShown
<1>. QED BY <1>2, <1>3, <1>5, <1>7, <1>9 DEF RowsInv

\* The broadcast begins, and what the browsers do.
LEMMA OtherRows ==
  ASSUME RowsInv, UNCHANGED <<clock, pedestals, newest, number, doomed>>,
         handling' \in {handling, Nothing}
  PROVE  RowsInv'
<1>1. RowsTyped' /\ SyncedTimes' /\ AtHand' /\ StoredTimes'
  BY DEF RowsInv, RowsTyped, SyncedTimes, AtHand, StoredTimes
<1>. QED BY <1>1 DEF RowsInv, RowsKept, InWindow, StaysShown

(***************************************************************************)
(* The browsers                                                            *)
(***************************************************************************)

ClientLists == UNION {[d -> Clients] : d \in SUBSET Nat}
Broadcast == [number : Nat, marina : MarinaIds, list : Nat, at : Nat, dead : SUBSET Clients,
              done : BOOLEAN, present : SUBSET Clients]

ListOf(n) == lists[sends[n].list]
Got(c, x) == \E i \in DOMAIN heard[c] : heard[c][i] = x

SocketTyped ==
  /\ lists \in Seq(ClientLists) /\ Len(lists) > 0
  /\ sends \in Seq(Broadcast) /\ heard \in [Clients -> Seq(Nat)]
  /\ socket \in [Clients -> {"new", "open", "refused", "gone", "left"}]

\* Events are numbered; the one at hand is the last and nobody has heard it.
Numbered ==
  /\ handling # Nothing => handling.number = number
  /\ Len(sends) <= number /\ (handling # Nothing => Len(sends) < number)
  /\ \A n \in DOMAIN sends :
       sends[n].number <= number /\ (handling # Nothing => sends[n].number < number)
  /\ \A m, n \in DOMAIN sends : sends[m].number = sends[n].number => m = n
  /\ \A c \in Clients : \A i \in DOMAIN heard[c] :
       heard[c][i] <= number /\ (handling # Nothing => heard[c][i] < number)

\* A list holds clients that were admitted, each at one place.
Placed ==
  \A k \in DOMAIN lists : \A i \in DOMAIN lists[k] :
    /\ 1 <= i /\ i <= Cardinality(Joined)
    /\ lists[k][i] \in Joined /\ Admitted(lists[k][i])
    /\ \A j \in DOMAIN lists[k] : lists[k][i] = lists[k][j] => i = j

\* A broadcast is at a place no client joins before.
Underway ==
  \A n \in DOMAIN sends :
    sends[n].list \in DOMAIN lists /\ sends[n].at >= 1 /\ sends[n].at <= Cardinality(Joined) + 1

\* Who has heard an event was on its list, and is behind its broadcast.
HeardBehind ==
  \A n \in DOMAIN sends, c \in Clients : Got(c, sends[n].number) =>
    /\ Subscribed(c, sends[n].marina)
    /\ \E i \in DOMAIN ListOf(n) : i < sends[n].at /\ ListOf(n)[i] = c

\* Those behind a broadcast have heard it or could not be sent to.
BehindHeard ==
  \A n \in DOMAIN sends : \A i \in DOMAIN ListOf(n) :
    i < sends[n].at /\ Subscribed(ListOf(n)[i], sends[n].marina) =>
      ListOf(n)[i] \in sends[n].dead \/ Got(ListOf(n)[i], sends[n].number)

\* Those present stay on the list, and a broadcast that has ended has passed them.
StillListed ==
  \A n \in DOMAIN sends : \A c \in sends[n].present :
    \E i \in DOMAIN ListOf(n) :
      ListOf(n)[i] = c /\ (sends[n].done /\ Subscribed(c, sends[n].marina) => i < sends[n].at)

HeardOnce == \A c \in Clients : \A i, j \in DOMAIN heard[c] : heard[c][i] = heard[c][j] => i = j

SocketInv ==
  /\ SocketTyped /\ Numbered /\ Placed /\ Underway /\ HeardBehind /\ BehindHeard /\ StillListed
  /\ HeardOnce

LEMMA ListType == ASSUME NEW d \in SUBSET Nat, NEW l \in [d -> Clients] PROVE l \in ClientLists
BY DEF ClientLists

LEMMA ListIs ==
  ASSUME NEW l \in ClientLists
  PROVE  DOMAIN l \subseteq Nat /\ l \in [DOMAIN l -> Clients]
BY DEF ClientLists

LEMMA JoinedSize == IsFiniteSet(Joined) /\ Cardinality(Joined) \in Nat
<1>1. Joined \subseteq Clients
  BY DEF Joined
<1>. QED BY <1>1, EventsAssumption, FS_Subset, FS_CardinalityType

LEMMA InitSockets == EventsInit => SocketInv
<1>. SUFFICES ASSUME EventsInit PROVE SocketInv
  OBVIOUS
<1>1. <<>> \in ClientLists
  <2>1. <<>> \in [{} -> Clients]
    OBVIOUS
  <2>. QED BY <2>1, ListType
<1>2. /\ lists = <<<<>>>> /\ Len(lists) = 1 /\ DOMAIN lists = {1} /\ DOMAIN lists[1] = {}
      /\ sends = <<>> /\ DOMAIN sends = {} /\ Len(sends) = 0 /\ number = 0 /\ handling = Nothing
  BY DEF EventsInit
<1>3. \A c \in Clients : heard[c] = <<>> /\ DOMAIN heard[c] = {}
  BY DEF EventsInit
<1>4. SocketTyped
  BY <1>1, <1>2 DEF EventsInit, SocketTyped
<1>5. Numbered
  BY <1>2, <1>3 DEF Numbered
<1>6. Placed
  BY <1>2 DEF Placed
<1>7. Underway /\ HeardBehind /\ BehindHeard /\ StillListed
  BY <1>2 DEF Underway, HeardBehind, BehindHeard, StillListed
<1>8. HeardOnce
  BY <1>3 DEF HeardOnce
<1>. QED BY <1>4, <1>5, <1>6, <1>7, <1>8 DEF SocketInv

\* What Joined and the sends leave as it is.
LEMMA SocketsSame ==
  ASSUME SocketInv, UNCHANGED socketVars
  PROVE  /\ SocketTyped' /\ Placed' /\ Underway' /\ HeardBehind' /\ BehindHeard' /\ StillListed'
         /\ HeardOnce'
<1>1. UNCHANGED <<lists, socket, sends, heard>>
  BY DEF socketVars
<1>2. Joined' = Joined
  BY <1>1 DEF Joined
<1>. QED BY <1>1, <1>2 DEF SocketInv, SocketTyped, Placed, Underway, HeardBehind, BehindHeard,
       StillListed, HeardOnce, ListOf, Got, Subscribed, Admitted

LEMMA ReceiveSockets ==
  ASSUME RowsInv, SocketInv, NEW m \in MarinaIds, NEW p \in PedestalIds, NEW type \in EventTypes,
         Receive(m, p, type)
  PROVE  SocketInv'
<1>1. /\ number' = number + 1 /\ handling'.number = number' /\ UNCHANGED socketVars
      /\ handling = Nothing
  BY DEF Receive
<1>2. UNCHANGED <<lists, socket, sends, heard>> /\ number \in Nat
  BY <1>1 DEF socketVars, RowsInv, RowsTyped
<1>3. Numbered'
  <2>1. Len(sends) \in Nat /\ \A n \in DOMAIN sends : sends[n].number \in Nat
    <3>1. \A n \in DOMAIN sends : sends[n] \in Broadcast
      BY DEF SocketInv, SocketTyped
    <3>. QED BY <3>1 DEF SocketInv, SocketTyped, Broadcast
  <2>2. \A c \in Clients : \A i \in DOMAIN heard[c] : heard[c][i] \in Nat
    BY DEF SocketInv, SocketTyped
  <2>. QED BY <1>1, <1>2, <2>1, <2>2 DEF SocketInv, Numbered
<1>. QED BY <1>1, <1>3, SocketsSame DEF SocketInv

\* Steps of the others: the event at hand keeps its number.
LEMMA OtherSockets ==
  ASSUME SocketInv, UNCHANGED <<number, socketVars>>,
         handling' # Nothing => handling # Nothing /\ handling'.number = handling.number
  PROVE  SocketInv'
<1>1. UNCHANGED <<lists, socket, sends, heard>>
  BY DEF socketVars
<1>2. Numbered'
  BY <1>1 DEF SocketInv, Numbered
<1>. QED BY <1>2, SocketsSame DEF SocketInv

LEMMA StartSockets == ASSUME RowsInv, SocketInv, StartBroadcast PROVE SocketInv'
<1>1. /\ handling # Nothing /\ handling' = Nothing /\ handling \in Handled
      /\ UNCHANGED <<number, lists, socket, heard>> /\ number \in Nat
  BY DEF StartBroadcast, RowsInv, RowsTyped
<1>2. CASE handling.type = Untyped
  BY <1>1, <1>2, OtherSockets DEF StartBroadcast, socketVars
<1>3. CASE handling.type # Untyped
  <2>. DEFINE here == lists[Len(lists)]
              new == [number |-> handling.number, marina |-> handling.marina,
                      list |-> Len(lists), at |-> 1, dead |-> {}, done |-> FALSE,
                      present |-> {here[i] : i \in DOMAIN here}]
              last == Len(sends) + 1
  <2>1. sends' = Append(sends, new)
    BY <1>3 DEF StartBroadcast
  <2>2. Len(lists) \in DOMAIN lists /\ Len(lists) \in Nat /\ here \in ClientLists
    BY DEF SocketInv, SocketTyped
  <2>3. here \in [DOMAIN here -> Clients]
    BY <2>2, ListIs
  <2>4. {here[i] : i \in DOMAIN here} \in SUBSET Clients
    BY <2>3
  <2>5. new \in Broadcast
    BY <1>1, <2>2, <2>4 DEF Broadcast, Handled
  <2>6. /\ new.number = number /\ new.list = Len(lists) /\ new.at = 1 /\ new.done = FALSE
        /\ \A c \in new.present : \E i \in DOMAIN here : here[i] = c
    BY <1>1 DEF SocketInv, Numbered
  <2>. HIDE DEF new
  <2>7. /\ sends' \in Seq(Broadcast) /\ Len(sends') = last /\ DOMAIN sends' = 1 .. last
        /\ DOMAIN sends = 1 .. Len(sends) /\ Len(sends) \in Nat
        /\ sends'[last] = new /\ \A n \in DOMAIN sends : sends'[n] = sends[n]
    BY <2>1, <2>5 DEF SocketInv, SocketTyped
  <2>8. \A n \in DOMAIN sends' : n \in DOMAIN sends \/ n = last
    BY <2>7
  <2>9. SocketTyped'
    BY <1>1, <2>7 DEF SocketInv, SocketTyped
  <2>10. Numbered'
    BY <1>1, <2>6, <2>7, <2>8 DEF SocketInv, Numbered
  <2>11. Joined' = Joined /\ Cardinality(Joined) \in Nat
    BY <1>1, JoinedSize DEF Joined
  <2>12. Placed'
    BY <1>1, <2>11 DEF SocketInv, Placed, Admitted
  <2>13. Underway'
    BY <1>1, <2>2, <2>6, <2>7, <2>8, <2>11 DEF SocketInv, Underway
  <2>14. \A c \in Clients : ~Got(c, number)
    BY <1>1 DEF SocketInv, SocketTyped, Numbered, Got
  <2>15. HeardBehind'
    <3>1. ASSUME NEW n \in DOMAIN sends', NEW c \in Clients, Got(c, sends'[n].number)
          PROVE  /\ Subscribed(c, sends'[n].marina)
                 /\ \E i \in DOMAIN ListOf(n)' : i < sends'[n].at /\ ListOf(n)'[i] = c
      BY <1>1, <2>6, <2>7, <2>8, <2>14, <3>1 DEF SocketInv, HeardBehind, ListOf
    <3>. QED BY <1>1, <3>1 DEF HeardBehind, Got, Subscribed
  <2>16. \A i \in DOMAIN here : 1 <= i /\ i \in Nat
    BY <2>2, ListIs DEF SocketInv, Placed
  <2>17. BehindHeard'
    <3>1. ASSUME NEW n \in DOMAIN sends', NEW i \in DOMAIN ListOf(n)', i < sends'[n].at,
                 Subscribed(ListOf(n)'[i], sends'[n].marina)
          PROVE  ListOf(n)'[i] \in sends'[n].dead \/ Got(ListOf(n)'[i], sends'[n].number)
      <4>1. CASE n \in DOMAIN sends
        BY <1>1, <2>7, <3>1, <4>1 DEF SocketInv, BehindHeard, ListOf
      <4>2. CASE n = last
        BY <1>1, <2>6, <2>7, <2>16, <3>1, <4>2 DEF ListOf
      <4>. QED BY <2>8, <4>1, <4>2
    <3>. QED BY <1>1, <3>1 DEF BehindHeard, Got, Subscribed
  <2>18. StillListed'
    <3>1. ASSUME NEW n \in DOMAIN sends', NEW c \in sends'[n].present
          PROVE  \E i \in DOMAIN ListOf(n)' :
                   /\ ListOf(n)'[i] = c
                   /\ sends'[n].done /\ Subscribed(c, sends'[n].marina) => i < sends'[n].at
      <4>1. CASE n \in DOMAIN sends
        BY <1>1, <2>7, <3>1, <4>1 DEF SocketInv, StillListed, ListOf
      <4>2. CASE n = last
        BY <1>1, <2>6, <2>7, <3>1, <4>2 DEF ListOf
      <4>. QED BY <2>8, <4>1, <4>2
    <3>. QED BY <1>1, <3>1 DEF StillListed, Subscribed
  <2>19. HeardOnce'
    BY <1>1 DEF SocketInv, HeardOnce
  <2>. QED BY <2>9, <2>10, <2>12, <2>13, <2>15, <2>17, <2>18, <2>19 DEF SocketInv
<1>. QED BY <1>2, <1>3

\* disconnect leaves the lists as they were, and the new one holds nobody else.
LEMMA DroppedLists ==
  ASSUME SocketInv, NEW gone \in SUBSET Clients
  PROVE  /\ Disconnected(gone) \in Seq(ClientLists) /\ Len(Disconnected(gone)) > 0
         /\ \A k \in DOMAIN lists :
              k \in DOMAIN Disconnected(gone) /\ Disconnected(gone)[k] = lists[k]
         /\ \A k \in DOMAIN Disconnected(gone) : \E j \in DOMAIN lists :
              \A i \in DOMAIN Disconnected(gone)[k] :
                i \in DOMAIN lists[j] /\ Disconnected(gone)[k][i] = lists[j][i]
<1>1. lists \in Seq(ClientLists) /\ Len(lists) \in DOMAIN lists /\ Len(lists) \in Nat
  BY DEF SocketInv, SocketTyped
<1>2. CASE gone = {}
  BY <1>1, <1>2 DEF Disconnected, SocketInv, SocketTyped
<1>3. CASE gone # {}
  <2>. DEFINE last == lists[Len(lists)]
              new == Without(last, gone)
  <2>1. last \in ClientLists
    BY <1>1
  <2>2. DOMAIN last \subseteq Nat /\ last \in [DOMAIN last -> Clients]
    BY <2>1, ListIs
  <2>3. /\ DOMAIN new \in SUBSET Nat /\ new \in [DOMAIN new -> Clients]
        /\ \A i \in DOMAIN new : i \in DOMAIN last /\ new[i] = last[i]
    BY <2>2 DEF Without
  <2>. HIDE DEF new
  <2>4. new \in ClientLists
    BY <2>3, ListType
  <2>5. Disconnected(gone) = Append(lists, new)
    BY <1>3 DEF Disconnected, new
  <2>6. /\ Append(lists, new) \in Seq(ClientLists) /\ Len(Append(lists, new)) = Len(lists) + 1
        /\ DOMAIN Append(lists, new) = 1 .. Len(lists) + 1 /\ DOMAIN lists = 1 .. Len(lists)
        /\ Append(lists, new)[Len(lists) + 1] = new
        /\ \A k \in DOMAIN lists : Append(lists, new)[k] = lists[k]
    BY <1>1, <2>4
  <2>7. ASSUME NEW k \in 1 .. Len(lists) + 1
        PROVE  \E j \in DOMAIN lists : \A i \in DOMAIN Append(lists, new)[k] :
                 i \in DOMAIN lists[j] /\ Append(lists, new)[k][i] = lists[j][i]
    <3>1. CASE k \in DOMAIN lists
      BY <2>6, <3>1
    <3>2. CASE k = Len(lists) + 1
      BY <1>1, <2>3, <2>6, <3>2
    <3>. QED BY <1>1, <2>6, <3>1, <3>2
  <2>. QED BY <1>1, <2>5, <2>6, <2>7
<1>. QED BY <1>2, <1>3

LEMMA DropPlaced ==
  ASSUME SocketInv, NEW gone \in SUBSET Clients, lists' = Disconnected(gone), Joined' = Joined
  PROVE  Placed'
<1>1. ASSUME NEW k \in DOMAIN lists', NEW i \in DOMAIN lists'[k]
      PROVE  /\ 1 <= i /\ i <= Cardinality(Joined)
             /\ lists'[k][i] \in Joined /\ Admitted(lists'[k][i])
             /\ \A j \in DOMAIN lists'[k] : lists'[k][i] = lists'[k][j] => i = j
  <2>1. PICK l \in DOMAIN lists : \A j \in DOMAIN lists'[k] :
               j \in DOMAIN lists[l] /\ lists'[k][j] = lists[l][j]
    BY <1>1, DroppedLists
  <2>. QED BY <1>1, <2>1 DEF SocketInv, Placed
<1>. QED BY <1>1 DEF Placed, Admitted

LEMMA LeaveSockets == ASSUME SocketInv, NEW c \in Clients, Leaves(c) PROVE SocketInv'
<1>1. /\ socket[c] = "gone" /\ socket' = [socket EXCEPT ![c] = "left"]
      /\ lists' = Disconnected({c}) /\ UNCHANGED <<handling, number, sends, heard>>
  BY DEF Leaves
<1>2. socket' \in [Clients -> {"new", "open", "refused", "gone", "left"}] /\ Joined' = Joined
  BY <1>1 DEF SocketInv, SocketTyped, Joined
<1>3. /\ lists' \in Seq(ClientLists) /\ Len(lists') > 0
      /\ \A k \in DOMAIN lists : k \in DOMAIN lists' /\ lists'[k] = lists[k]
  BY <1>1, DroppedLists
<1>4. SocketTyped' /\ Numbered' /\ HeardOnce'
  BY <1>1, <1>2, <1>3 DEF SocketInv, SocketTyped, Numbered, HeardOnce
<1>5. Placed'
  BY <1>1, <1>2, DropPlaced
<1>6. Underway' /\ \A n \in DOMAIN sends : ListOf(n)' = ListOf(n)
  BY <1>1, <1>2, <1>3 DEF SocketInv, Underway, ListOf
<1>7. HeardBehind' /\ BehindHeard' /\ StillListed'
  BY <1>1, <1>6 DEF SocketInv, HeardBehind, BehindHeard, StillListed, Got, Subscribed
<1>. QED BY <1>4, <1>5, <1>6, <1>7 DEF SocketInv

\* A socket changes that has joined or that does not join.
LEMMA SameLists ==
  ASSUME SocketInv, UNCHANGED <<handling, number, lists, sends, heard>>, Joined' = Joined,
         socket' \in [Clients -> {"new", "open", "refused", "gone", "left"}]
  PROVE  SocketInv'
<1>1. SocketTyped' /\ Numbered' /\ HeardOnce'
  BY DEF SocketInv, SocketTyped, Numbered, HeardOnce
<1>2. Placed' /\ Underway'
  BY DEF SocketInv, Placed, Underway, Admitted
<1>3. HeardBehind' /\ BehindHeard' /\ StillListed'
  BY DEF SocketInv, HeardBehind, BehindHeard, StillListed, ListOf, Got, Subscribed
<1>. QED BY <1>1, <1>2, <1>3 DEF SocketInv

LEMMA GoSockets == ASSUME SocketInv, NEW c \in Clients, Goes(c) PROVE SocketInv'
<1>1. /\ socket[c] = "open" /\ socket' = [socket EXCEPT ![c] = "gone"]
      /\ UNCHANGED <<handling, number, lists, sends, heard>>
  BY DEF Goes
<1>2. socket' \in [Clients -> {"new", "open", "refused", "gone", "left"}] /\ Joined' = Joined
  BY <1>1 DEF SocketInv, SocketTyped, Joined
<1>. QED BY <1>1, <1>2, SameLists

\* A refused client joins no list.
LEMMA RefuseSockets ==
  ASSUME SocketInv, NEW c \in Clients, Connect(c), ~Admitted(c) PROVE SocketInv'
<1>1. /\ socket[c] = "new" /\ socket' = [socket EXCEPT ![c] = "refused"]
      /\ UNCHANGED <<handling, number, lists, sends, heard>>
  BY DEF Connect
<1>2. socket' \in [Clients -> {"new", "open", "refused", "gone", "left"}] /\ Joined' = Joined
  BY <1>1 DEF SocketInv, SocketTyped, Joined
<1>. QED BY <1>1, <1>2, SameLists

LEMMA ConnectSockets ==
  ASSUME SocketInv, NEW c \in Clients, Connect(c), Admitted(c) PROVE SocketInv'
<1>. DEFINE end == Len(lists)
            place == Cardinality(Joined) + 1
            old == lists[end]
            new == Appended(old, c)
<1>1. /\ socket[c] = "new" /\ socket' = [socket EXCEPT ![c] = "open"]
      /\ lists' = [lists EXCEPT ![end] = new] /\ UNCHANGED <<handling, number, sends, heard>>
  BY DEF Connect
<1>2. lists \in Seq(ClientLists) /\ end \in DOMAIN lists /\ old \in ClientLists
  BY DEF SocketInv, SocketTyped
<1>3. DOMAIN old \subseteq Nat /\ old \in [DOMAIN old -> Clients]
  BY <1>2, ListIs
<1>4. Cardinality(Joined) \in Nat /\ IsFiniteSet(Joined)
  BY JoinedSize
<1>5. /\ DOMAIN new = DOMAIN old \union {place} /\ new[place] = c
      /\ \A i \in DOMAIN old : i # place => new[i] = old[i]
      /\ DOMAIN new \in SUBSET Nat /\ new \in [DOMAIN new -> Clients]
  BY <1>3, <1>4 DEF Appended
<1>6. new \in ClientLists
  BY <1>5, ListType
<1>. HIDE DEF new
<1>7. /\ lists' \in Seq(ClientLists) /\ Len(lists') = Len(lists) /\ DOMAIN lists' = DOMAIN lists
      /\ lists'[end] = new /\ \A k \in DOMAIN lists : k # end => lists'[k] = lists[k]
  BY <1>1, <1>2, <1>6
<1>8. /\ socket' \in [Clients -> {"new", "open", "refused", "gone", "left"}]
      /\ c \notin Joined /\ Joined' = Joined \union {c}
  BY <1>1 DEF SocketInv, SocketTyped, Joined
<1>9. Cardinality(Joined') = place
  BY <1>4, <1>8, FS_AddElement
<1>10. \A k \in DOMAIN lists : \A i \in DOMAIN lists[k] :
         i \in Nat /\ i < place /\ i \in DOMAIN lists'[k] /\ lists'[k][i] = lists[k][i]
  <2>1. \A k \in DOMAIN lists : \A i \in DOMAIN lists[k] : i \in Nat /\ i < place
    <3>1. ASSUME NEW k \in DOMAIN lists PROVE DOMAIN lists[k] \subseteq Nat
      BY <1>2, ListIs
    <3>. QED BY <1>4, <3>1 DEF SocketInv, Placed
  <2>. QED BY <1>4, <1>5, <1>7, <2>1
<1>11. \A k \in DOMAIN lists' : \A i \in DOMAIN lists'[k] :
         i \in DOMAIN lists[k] \/ (i = place /\ lists'[k][i] = c)
  BY <1>5, <1>7
<1>12. SocketTyped' /\ Numbered' /\ HeardOnce'
  BY <1>1, <1>7, <1>8 DEF SocketInv, SocketTyped, Numbered, HeardOnce
<1>13. Placed'
  <2>1. ASSUME NEW k \in DOMAIN lists, NEW i \in DOMAIN lists'[k]
        PROVE  /\ 1 <= i /\ i <= Cardinality(Joined')
               /\ lists'[k][i] \in Joined' /\ Admitted(lists'[k][i])
               /\ \A j \in DOMAIN lists'[k] : lists'[k][i] = lists'[k][j] => i = j
    <3>1. CASE i \in DOMAIN lists[k]
      <4>1. 1 <= i /\ lists[k][i] \in Joined /\ Admitted(lists[k][i])
        BY <3>1 DEF SocketInv, Placed
      <4>2. \A j \in DOMAIN lists'[k] : lists'[k][i] = lists'[k][j] => i = j
        BY <1>7, <1>8, <1>10, <1>11, <3>1, <4>1 DEF SocketInv, Placed
      <4>. QED BY <1>4, <1>8, <1>9, <1>10, <3>1, <4>1, <4>2
    <3>2. CASE i \notin DOMAIN lists[k]
      <4>1. i = place /\ lists'[k][i] = c
        BY <1>7, <1>11, <3>2
      <4>2. \A j \in DOMAIN lists[k] : lists'[k][j] # c
        BY <1>8, <1>10 DEF SocketInv, Placed
      <4>3. \A j \in DOMAIN lists'[k] : lists'[k][i] = lists'[k][j] => i = j
        BY <1>7, <1>11, <4>1, <4>2
      <4>. QED BY <1>4, <1>8, <1>9, <4>1, <4>3
    <3>. QED BY <3>1, <3>2
  <2>. QED BY <1>7, <2>1 DEF Placed, Admitted
<1>14. \A n \in DOMAIN sends : sends[n].at \in Nat
  <2>1. \A n \in DOMAIN sends : sends[n] \in Broadcast
    BY DEF SocketInv, SocketTyped
  <2>. QED BY <2>1 DEF Broadcast
<1>15. Underway'
  BY <1>1, <1>4, <1>7, <1>9, <1>14 DEF SocketInv, Underway
<1>16. \A n \in DOMAIN sends : sends[n].list \in DOMAIN lists /\ sends[n].at <= place
  BY DEF SocketInv, Underway
<1>17. HeardBehind'
  <2>1. ASSUME NEW n \in DOMAIN sends, NEW d \in Clients, Got(d, sends[n].number)
        PROVE  /\ Subscribed(d, sends[n].marina)
               /\ \E i \in DOMAIN ListOf(n)' : i < sends[n].at /\ ListOf(n)'[i] = d
    <3>1. /\ Subscribed(d, sends[n].marina)
          /\ \E i \in DOMAIN ListOf(n) : i < sends[n].at /\ ListOf(n)[i] = d
      BY <2>1 DEF SocketInv, HeardBehind
    <3>. QED BY <1>1, <1>10, <1>16, <3>1 DEF ListOf
  <2>. QED BY <1>1, <2>1 DEF HeardBehind, Got, Subscribed
<1>18. BehindHeard'
  <2>1. ASSUME NEW n \in DOMAIN sends, NEW i \in DOMAIN ListOf(n)', i < sends[n].at,
               Subscribed(ListOf(n)'[i], sends[n].marina)
        PROVE  ListOf(n)'[i] \in sends[n].dead \/ Got(ListOf(n)'[i], sends[n].number)
    <3>1. sends[n].list \in DOMAIN lists' /\ ListOf(n)' = lists'[sends[n].list]
      BY <1>1, <1>7, <1>16 DEF ListOf
    <3>2. i # place
      BY <1>4, <1>14, <1>16, <2>1
    <3>3. i \in DOMAIN ListOf(n) /\ ListOf(n)'[i] = ListOf(n)[i]
      BY <1>7, <1>10, <1>11, <2>1, <3>1, <3>2 DEF ListOf
    <3>. QED BY <2>1, <3>3 DEF SocketInv, BehindHeard
  <2>. QED BY <1>1, <2>1 DEF BehindHeard, Got, Subscribed
<1>19. StillListed'
  <2>1. ASSUME NEW n \in DOMAIN sends, NEW d \in sends[n].present
        PROVE  \E i \in DOMAIN ListOf(n)' :
                 /\ ListOf(n)'[i] = d
                 /\ sends[n].done /\ Subscribed(d, sends[n].marina) => i < sends[n].at
    <3>1. PICK i \in DOMAIN ListOf(n) :
                 /\ ListOf(n)[i] = d
                 /\ sends[n].done /\ Subscribed(d, sends[n].marina) => i < sends[n].at
      BY <2>1 DEF SocketInv, StillListed
    <3>. QED BY <1>1, <1>10, <1>16, <3>1 DEF ListOf
  <2>. QED BY <1>1, <2>1 DEF StillListed, Subscribed
<1>. QED BY <1>12, <1>13, <1>15, <1>17, <1>18, <1>19 DEF SocketInv

\* One broadcast goes on, the others stay.
LEMMA Updated ==
  ASSUME SocketInv, NEW n \in DOMAIN sends, NEW b \in Broadcast, sends' = [sends EXCEPT ![n] = b]
  PROVE  /\ sends' \in Seq(Broadcast) /\ DOMAIN sends' = DOMAIN sends /\ Len(sends') = Len(sends)
         /\ sends'[n] = b /\ \A m \in DOMAIN sends : m # n => sends'[m] = sends[m]
BY DEF SocketInv, SocketTyped

LEMMA NextBroadcast ==
  ASSUME NEW b \in Broadcast, NEW i \in Nat, NEW c \in Clients
  PROVE  /\ [b EXCEPT !.done = TRUE] \in Broadcast
         /\ [b EXCEPT !.at = i + 1] \in Broadcast
         /\ [b EXCEPT !.at = i + 1, !.dead = @ \union {c}] \in Broadcast
<1>. DEFINE dead == b.dead \union {c}
<1>1. i + 1 \in Nat /\ dead \in SUBSET Clients
  BY DEF Broadcast
<1>. HIDE DEF dead
<1>2. [b EXCEPT !.at = i + 1, !.dead = dead] \in Broadcast
  BY <1>1 DEF Broadcast
<1>3. [b EXCEPT !.done = TRUE] \in Broadcast /\ [b EXCEPT !.at = i + 1] \in Broadcast
  BY <1>1 DEF Broadcast
<1>. QED BY <1>2, <1>3 DEF dead

LEMMA EndSockets ==
  ASSUME SocketInv, NEW n \in DOMAIN sends, EndBroadcast(n) PROVE SocketInv'
<1>1. /\ ~sends[n].done /\ Ahead(sends[n]) = {} /\ sends' = [sends EXCEPT ![n].done = TRUE]
      /\ lists' = Disconnected(sends[n].dead) /\ UNCHANGED <<handling, number, socket, heard>>
  BY DEF EndBroadcast
<1>2. sends \in Seq(Broadcast) /\ \A m \in DOMAIN sends : sends[m] \in Broadcast
  BY DEF SocketInv, SocketTyped
<1>3. sends[n].dead \in SUBSET Clients /\ sends[n].at \in Nat
  BY <1>2 DEF Broadcast
<1>4. /\ lists' \in Seq(ClientLists) /\ Len(lists') > 0
      /\ \A k \in DOMAIN lists : k \in DOMAIN lists' /\ lists'[k] = lists[k]
  BY <1>1, <1>3, DroppedLists
<1>5. Joined' = Joined
  BY <1>1 DEF Joined
<1>. DEFINE b == sends[n]
            ended == [b EXCEPT !.done = TRUE]
<1>6. /\ ended \in Broadcast /\ ended.number = b.number /\ ended.marina = b.marina
      /\ ended.list = b.list /\ ended.at = b.at /\ ended.dead = b.dead
      /\ ended.present = b.present
  BY <1>2 DEF Broadcast
<1>7. /\ sends' \in Seq(Broadcast) /\ DOMAIN sends' = DOMAIN sends /\ Len(sends') = Len(sends)
      /\ \A m \in DOMAIN sends :
           /\ sends'[m].number = sends[m].number /\ sends'[m].marina = sends[m].marina
           /\ sends'[m].list = sends[m].list /\ sends'[m].at = sends[m].at
           /\ sends'[m].dead = sends[m].dead /\ sends'[m].present = sends[m].present
           /\ m # n => sends'[m].done = sends[m].done
  <2>1. sends' = [sends EXCEPT ![n] = ended]
    BY <1>1
  <2>. HIDE DEF ended
  <2>. QED BY <1>6, <2>1, Updated
<1>8. SocketTyped' /\ Numbered' /\ HeardOnce'
  BY <1>1, <1>4, <1>7 DEF SocketInv, SocketTyped, Numbered, HeardOnce
<1>9. Placed'
  BY <1>1, <1>3, <1>5, DropPlaced
<1>10. Underway' /\ \A m \in DOMAIN sends : ListOf(m)' = ListOf(m)
  BY <1>4, <1>5, <1>7 DEF SocketInv, Underway, ListOf
<1>11. HeardBehind' /\ BehindHeard'
  BY <1>1, <1>7, <1>10 DEF SocketInv, HeardBehind, BehindHeard, Got, Subscribed
<1>12. ListOf(n) \in ClientLists
  BY DEF SocketInv, SocketTyped, Underway, ListOf
<1>13. DOMAIN ListOf(n) \subseteq Nat
  BY <1>12, ListIs
<1>14. \A i \in DOMAIN ListOf(n) : Subscribed(ListOf(n)[i], sends[n].marina) => i < sends[n].at
  BY <1>1, <1>3, <1>13 DEF Ahead, ListOf
<1>15. StillListed'
  <2>1. ASSUME NEW m \in DOMAIN sends, NEW c \in sends[m].present
        PROVE  \E i \in DOMAIN ListOf(m) :
                 /\ ListOf(m)[i] = c
                 /\ sends'[m].done /\ Subscribed(c, sends[m].marina) => i < sends[m].at
    <3>1. PICK i \in DOMAIN ListOf(m) :
                 /\ ListOf(m)[i] = c
                 /\ sends[m].done /\ Subscribed(c, sends[m].marina) => i < sends[m].at
      BY <2>1 DEF SocketInv, StillListed
    <3>2. CASE m = n
      BY <1>14, <3>1, <3>2
    <3>3. CASE m # n
      BY <1>7, <3>1, <3>3
    <3>. QED BY <3>2, <3>3
  <2>. QED BY <1>1, <1>7, <1>10, <2>1 DEF StillListed, Subscribed
<1>. QED BY <1>8, <1>9, <1>10, <1>11, <1>15 DEF SocketInv

LEMMA SendSockets ==
  ASSUME RowsInv, SocketInv, NEW n \in DOMAIN sends, Send(n) PROVE SocketInv'
<1>. DEFINE L == lists[sends[n].list]
<1>1. PICK i \in Ahead(sends[n]) :
        /\ handling = Nothing /\ ~sends[n].done /\ \A j \in Ahead(sends[n]) : i <= j
        /\ \/ /\ heard' = [heard EXCEPT ![L[i]] = Append(@, sends[n].number)]
              /\ sends' = [sends EXCEPT ![n].at = i + 1]
           \/ /\ heard' = heard
              /\ sends' = [sends EXCEPT ![n].at = i + 1, ![n].dead = @ \union {L[i]}]
        /\ UNCHANGED <<handling, number, lists, socket>>
  BY DEF Send
<1>. DEFINE c == L[i]
            told == heard' # heard
            x == sends[n].number
<1>2. sends \in Seq(Broadcast) /\ \A m \in DOMAIN sends : sends[m] \in Broadcast
  BY DEF SocketInv, SocketTyped
<1>3. sends[n].list \in DOMAIN lists /\ L \in ClientLists
  BY DEF SocketInv, SocketTyped, Underway
<1>4. DOMAIN L \subseteq Nat /\ L \in [DOMAIN L -> Clients]
  BY <1>3, ListIs
<1>5. /\ i \in DOMAIN L /\ i >= sends[n].at /\ Subscribed(c, sends[n].marina) /\ i \in Nat
      /\ c \in Clients /\ sends[n].at \in Nat /\ x \in Nat
  BY <1>1, <1>2, <1>4 DEF Ahead, Broadcast
<1>6. \A j \in DOMAIN L : j < i + 1 /\ Subscribed(L[j], sends[n].marina) => j < sends[n].at \/ j = i
  BY <1>1, <1>4, <1>5 DEF Ahead
<1>7. i <= Cardinality(Joined) /\ Cardinality(Joined) \in Nat /\ Joined' = Joined
  BY <1>1, <1>3, <1>5, JoinedSize DEF SocketInv, Placed, Joined
<1>8. /\ [sends[n] EXCEPT !.at = i + 1] \in Broadcast
      /\ [sends[n] EXCEPT !.at = i + 1, !.dead = @ \union {c}] \in Broadcast
  <2>. HIDE DEF c
  <2>. QED BY <1>2, <1>5, NextBroadcast
<1>. HIDE DEF L
<1>9. /\ sends' \in Seq(Broadcast) /\ DOMAIN sends' = DOMAIN sends /\ Len(sends') = Len(sends)
      /\ \A m \in DOMAIN sends :
           /\ sends'[m].number = sends[m].number /\ sends'[m].marina = sends[m].marina
           /\ sends'[m].list = sends[m].list /\ sends'[m].present = sends[m].present
           /\ sends'[m].done = sends[m].done /\ sends[m].dead \subseteq sends'[m].dead
           /\ m # n => sends'[m].at = sends[m].at
      /\ sends'[n].at = i + 1
  <2>. DEFINE b == sends[n]
              one == [b EXCEPT !.at = i + 1]
              two == [b EXCEPT !.at = i + 1, !.dead = @ \union {c}]
  <2>1. /\ one.number = b.number /\ one.marina = b.marina /\ one.list = b.list
        /\ one.present = b.present /\ one.done = b.done /\ one.dead = b.dead /\ one.at = i + 1
    BY <1>2 DEF Broadcast
  <2>2. /\ two.number = b.number /\ two.marina = b.marina /\ two.list = b.list
        /\ two.present = b.present /\ two.done = b.done /\ b.dead \subseteq two.dead
        /\ two.at = i + 1
    BY <1>2 DEF Broadcast
  <2>3. sends' = [sends EXCEPT ![n] = one] \/ sends' = [sends EXCEPT ![n] = two]
    BY <1>1
  <2>. HIDE DEF one, two
  <2>4. one \in Broadcast /\ two \in Broadcast
    BY <1>8 DEF one, two
  <2>5. CASE sends' = [sends EXCEPT ![n] = one]
    BY <2>1, <2>4, <2>5, Updated
  <2>6. CASE sends' = [sends EXCEPT ![n] = two]
    BY <2>2, <2>4, <2>6, Updated
  <2>. QED BY <2>3, <2>5, <2>6
<1>10. heard \in [Clients -> Seq(Nat)]
  BY DEF SocketInv, SocketTyped
<1>11. /\ heard' \in [Clients -> Seq(Nat)]
       /\ \A d \in Clients : d # c => heard'[d] = heard[d]
       /\ heard'[c] \in {heard[c], Append(heard[c], x)}
  <2>1. heard' = heard \/ heard' = [heard EXCEPT ![c] = Append(heard[c], x)]
    BY <1>1
  <2>2. heard[c] \in Seq(Nat) /\ Append(heard[c], x) \in Seq(Nat)
    BY <1>5, <1>10
  <2>. HIDE DEF c, x
  <2>. QED BY <1>5, <1>10, <2>1, <2>2
<1>12. \A d \in Clients, y \in Nat :
         /\ Got(d, y) => \E j \in DOMAIN heard'[d] : heard'[d][j] = y
         /\ (\E j \in DOMAIN heard'[d] : heard'[d][j] = y) => Got(d, y) \/ (d = c /\ y = x)
  <2>1. SUFFICES ASSUME NEW d \in Clients, NEW y \in Nat
                 PROVE  /\ Got(d, y) => \E j \in DOMAIN heard'[d] : heard'[d][j] = y
                        /\ (\E j \in DOMAIN heard'[d] : heard'[d][j] = y) =>
                             Got(d, y) \/ (d = c /\ y = x)
    OBVIOUS
  <2>2. CASE heard'[d] = heard[d]
    BY <2>2 DEF Got
  <2>3. CASE d = c /\ heard'[d] = Append(heard[d], x)
    <3>1. heard[d] \in Seq(Nat)
      BY <1>10
    <3>2. /\ DOMAIN heard'[d] = 1 .. Len(heard[d]) + 1 /\ DOMAIN heard[d] = 1 .. Len(heard[d])
          /\ Len(heard[d]) \in Nat /\ heard'[d][Len(heard[d]) + 1] = x
          /\ \A j \in DOMAIN heard[d] : heard'[d][j] = heard[d][j]
      BY <1>5, <2>3, <3>1
    <3>3. \A j \in DOMAIN heard'[d] : j \in DOMAIN heard[d] \/ j = Len(heard[d]) + 1
      BY <3>2
    <3>. QED BY <2>3, <3>2, <3>3 DEF Got
  <2>. QED BY <1>11, <2>2, <2>3
<1>13. (\E j \in DOMAIN heard'[c] : heard'[c][j] = x) \/ c \in sends'[n].dead
  <2>1. CASE heard' = [heard EXCEPT ![c] = Append(@, x)]
    <3>1. heard'[c] = Append(heard[c], x) /\ heard[c] \in Seq(Nat)
      BY <1>5, <1>10, <2>1
    <3>2. Len(heard[c]) + 1 \in DOMAIN heard'[c] /\ heard'[c][Len(heard[c]) + 1] = x
      BY <1>5, <3>1
    <3>. QED BY <1>5, <1>9, <3>2 DEF Got
  <2>2. CASE sends' = [sends EXCEPT ![n].at = i + 1, ![n].dead = @ \union {c}]
    <3>1. sends' = [sends EXCEPT ![n] = [sends[n] EXCEPT !.at = i + 1, !.dead = @ \union {c}]]
      BY <1>2, <2>2
    <3>. QED BY <1>2, <3>1 DEF Broadcast
  <2>. QED BY <1>1, <2>1, <2>2 DEF L
<1>14. ~Got(c, x)
  <2>1. SUFFICES ASSUME Got(c, x) PROVE FALSE
    OBVIOUS
  <2>2. PICK j \in DOMAIN L : j < sends[n].at /\ L[j] = c
    BY <1>5, <2>1 DEF SocketInv, HeardBehind, ListOf, L
  <2>3. j = i
    BY <1>3, <1>5, <2>2 DEF SocketInv, Placed, L
  <2>. QED BY <1>4, <1>5, <2>2, <2>3
<1>15. SocketTyped'
  BY <1>1, <1>9, <1>11 DEF SocketInv, SocketTyped
<1>16. Numbered'
  <2>1. \A d \in Clients : \A j \in DOMAIN heard'[d] : heard'[d][j] <= number
    <3>1. ASSUME NEW d \in Clients, NEW j \in DOMAIN heard'[d] PROVE heard'[d][j] <= number
      <4>1. heard'[d][j] \in Nat
        BY <1>11, <3>1
      <4>2. Got(d, heard'[d][j]) \/ heard'[d][j] = x
        BY <1>12, <4>1
      <4>. QED BY <4>2 DEF SocketInv, Numbered, Got
    <3>. QED BY <3>1
  <2>. QED BY <1>1, <1>9, <2>1 DEF SocketInv, Numbered
<1>17. Placed'
  BY <1>1, <1>7 DEF SocketInv, Placed, Admitted
<1>18. Underway'
  BY <1>1, <1>5, <1>7, <1>9 DEF SocketInv, Underway
<1>19. \A m \in DOMAIN sends : ListOf(m)' = ListOf(m)
  BY <1>1, <1>9 DEF ListOf
<1>20. ListOf(n) = L
  BY DEF ListOf, L
<1>21. \A m \in DOMAIN sends : sends[m].number \in Nat /\ (sends[m].number = x => m = n)
  BY <1>2 DEF Broadcast, SocketInv, Numbered
<1>22. HeardBehind'
  <2>1. ASSUME NEW m \in DOMAIN sends, NEW d \in Clients, Got(d, sends[m].number)'
        PROVE  /\ Subscribed(d, sends[m].marina)
               /\ \E j \in DOMAIN ListOf(m) : j < sends'[m].at /\ ListOf(m)[j] = d
    <3>1. CASE Got(d, sends[m].number)
      <4>1. PICK j \in DOMAIN ListOf(m) : j < sends[m].at /\ ListOf(m)[j] = d
        BY <3>1 DEF SocketInv, HeardBehind
      <4>2. Subscribed(d, sends[m].marina)
        BY <3>1 DEF SocketInv, HeardBehind
      <4>3. CASE m = n
        BY <1>4, <1>5, <1>9, <1>20, <4>1, <4>2, <4>3
      <4>. QED BY <1>9, <4>1, <4>2, <4>3
    <3>2. CASE d = c /\ m = n
      BY <1>5, <1>9, <1>20, <3>2
    <3>3. \E j \in DOMAIN heard'[d] : heard'[d][j] = sends[m].number
      BY <1>9, <2>1 DEF Got
    <3>4. Got(d, sends[m].number) \/ (d = c /\ sends[m].number = x)
      BY <1>12, <1>21, <3>3 DEF Got
    <3>. QED BY <1>21, <3>1, <3>2, <3>4
  <2>. QED BY <1>9, <1>19, <2>1 DEF HeardBehind, Subscribed
<1>23. BehindHeard'
  <2>1. ASSUME NEW m \in DOMAIN sends, NEW j \in DOMAIN ListOf(m), j < sends'[m].at,
               Subscribed(ListOf(m)[j], sends[m].marina)
        PROVE  \/ ListOf(m)[j] \in sends'[m].dead
               \/ \E k \in DOMAIN heard'[ListOf(m)[j]] :
                    heard'[ListOf(m)[j]][k] = sends[m].number
    <3>1. CASE j < sends[m].at
      <4>1. ListOf(m)[j] \in sends[m].dead \/ Got(ListOf(m)[j], sends[m].number)
        BY <2>1, <3>1 DEF SocketInv, BehindHeard
      <4>2. ListOf(m)[j] \in Clients
        <5>1. ListOf(m) \in ClientLists
          BY DEF SocketInv, SocketTyped, Underway, ListOf
        <5>. QED BY <5>1, ListIs
      <4>. QED BY <1>9, <1>12, <1>21, <4>1, <4>2 DEF Got
    <3>2. CASE ~(j < sends[m].at)
      <4>1. m = n
        BY <1>9, <2>1, <3>2
      <4>2. j = i
        BY <1>6, <1>9, <1>20, <2>1, <3>2, <4>1
      <4>. QED BY <1>9, <1>13, <1>20, <4>1, <4>2 DEF Got
    <3>. QED BY <3>1, <3>2
  <2>. QED BY <1>9, <1>19, <2>1 DEF BehindHeard, Subscribed, Got
<1>24. StillListed'
  <2>1. ASSUME NEW m \in DOMAIN sends, NEW d \in sends[m].present
        PROVE  \E j \in DOMAIN ListOf(m) :
                 /\ ListOf(m)[j] = d
                 /\ sends[m].done /\ Subscribed(d, sends[m].marina) => j < sends'[m].at
    <3>1. PICK j \in DOMAIN ListOf(m) :
                 /\ ListOf(m)[j] = d
                 /\ sends[m].done /\ Subscribed(d, sends[m].marina) => j < sends[m].at
      BY <2>1 DEF SocketInv, StillListed
    <3>. QED BY <1>1, <1>9, <3>1
  <2>. QED BY <1>9, <1>19, <2>1 DEF StillListed, Subscribed
<1>25. HeardOnce'
  <2>1. ASSUME NEW d \in Clients, NEW j \in DOMAIN heard'[d], NEW k \in DOMAIN heard'[d],
               heard'[d][j] = heard'[d][k]
        PROVE  j = k
    <3>1. CASE heard'[d] = heard[d]
      BY <2>1, <3>1 DEF SocketInv, HeardOnce
    <3>2. CASE d = c /\ heard'[c] = Append(heard[c], x)
      <4>1. heard[c] \in Seq(Nat) /\ \A l \in DOMAIN heard[c] : heard[c][l] # x
        BY <1>5, <1>10, <1>14 DEF Got
      <4>2. \A l, o \in DOMAIN heard[c] : heard[c][l] = heard[c][o] => l = o
        BY <1>5 DEF SocketInv, HeardOnce
      <4>3. /\ DOMAIN heard'[c] = 1 .. Len(heard[c]) + 1 /\ Len(heard[c]) \in Nat
            /\ heard'[c][Len(heard[c]) + 1] = x /\ DOMAIN heard[c] = 1 .. Len(heard[c])
            /\ \A l \in DOMAIN heard[c] : heard'[c][l] = heard[c][l]
        BY <1>5, <3>2, <4>1
      <4>4. \A l \in DOMAIN heard'[c] : l \in DOMAIN heard[c] \/ l = Len(heard[c]) + 1
        BY <4>3
      <4>. QED BY <2>1, <3>2, <4>1, <4>2, <4>3, <4>4
    <3>. QED BY <1>11, <3>1, <3>2
  <2>. QED BY <2>1 DEF HeardOnce
<1>. QED BY <1>15, <1>16, <1>17, <1>18, <1>22, <1>23, <1>24, <1>25 DEF SocketInv

(***************************************************************************)
(* All together                                                            *)
(***************************************************************************)

EventsInv == RowsInv /\ SocketInv

LEMMA StepEventsInv == EventsInv /\ [EventsNext]_eventVars => EventsInv'
<1>. SUFFICES ASSUME RowsInv, SocketInv, [EventsNext]_eventVars PROVE RowsInv' /\ SocketInv'
  BY DEF EventsInv
<1>1. ASSUME NEW m \in MarinaIds, NEW p \in PedestalIds, NEW type \in EventTypes,
             Receive(m, p, type)
      PROVE  RowsInv' /\ SocketInv'
  BY <1>1, ReceiveRows, ReceiveSockets
<1>2. ASSUME NEW piece \in DOMAIN Turn, NEW ok \in BOOLEAN, WritePart(piece, ok)
      PROVE  RowsInv' /\ SocketInv'
  <2>1. RowsInv'
    BY <1>2, WriteRows
  <2>2. handling # Nothing /\ handling \in Handled /\ UNCHANGED <<number, socketVars>>
    BY <1>2 DEF WritePart, RowsInv, RowsTyped
  <2>3. handling'.number = handling.number
    BY <1>2, <2>2 DEF WritePart, Handled
  <2>. QED BY <2>1, <2>2, <2>3, OtherSockets
<1>3. CASE StartBroadcast
  <2>1. RowsInv'
    BY <1>3, OtherRows DEF StartBroadcast, rowVars
  <2>. QED BY <1>3, <2>1, StartSockets
<1>4. CASE RetentionSelects
  BY <1>4, SelectRows, OtherSockets DEF RetentionSelects
<1>5. CASE RetentionDeletes
  BY <1>5, ExpireRows, OtherSockets DEF RetentionDeletes
<1>6. CASE ClockTicks
  BY <1>6, ClockRows, OtherSockets DEF ClockTicks
<1>7. ASSUME NEW c \in Clients, Connect(c) \/ Goes(c) \/ Leaves(c) PROVE RowsInv' /\ SocketInv'
  <2>1. RowsInv'
    BY <1>7, OtherRows DEF Connect, Goes, Leaves, rowVars
  <2>. QED BY <1>7, <2>1, ConnectSockets, RefuseSockets, GoSockets, LeaveSockets
<1>8. ASSUME NEW n \in DOMAIN sends, Send(n) \/ EndBroadcast(n) PROVE RowsInv' /\ SocketInv'
  <2>1. UNCHANGED <<clock, rowVars, handling, number, doomed>>
    BY <1>8 DEF Send, EndBroadcast
  <2>2. RowsInv'
    BY <2>1, OtherRows DEF rowVars
  <2>. QED BY <1>8, <2>2, SendSockets, EndSockets
<1>9. CASE UNCHANGED eventVars
  BY <1>9, OtherRows, OtherSockets DEF eventVars, rowVars
<1>. QED BY <1>1, <1>2, <1>3, <1>4, <1>5, <1>6, <1>7, <1>8, <1>9 DEF EventsNext

\* What is stored and shown, and who has heard what.
THEOREM EventsInvariant == EventsSpec => []EventsInv
<1>1. EventsInit => EventsInv
  BY InitRows, InitSockets DEF EventsInv
<1>. QED BY <1>1, StepEventsInv, PTL DEF EventsSpec

\* The types of the variables.
THEOREM EventsTypeCorrect == EventsSpec => []EventsTypeOK
<1>1. EventsInv => EventsTypeOK
  BY DEF EventsInv, RowsInv, RowsTyped, SyncedTimes, SocketInv, SocketTyped, Numbered,
         EventsTypeOK, Keys
<1>. QED BY <1>1, EventsInvariant, PTL

\* A reading that was stored after _update_cache of its event had committed, in a row retention had
\* not selected by then, is shown until a later one of its kind replaces it or it is older than the
\* window: other events of the pedestal, their failures and later selections do not take it away.
THEOREM ReadingsStayShown == EventsSpec => []ReadingsKept
<1>1. EventsInv => ReadingsKept
  <2>. SUFFICES ASSUME RowsInv, NEW m \in MarinaIds, NEW p \in PedestalIds, NEW f \in Fields,
                       InWindow(newest[<<m, p, f>>])
                PROVE  Shown(m, p, f) = newest[<<m, p, f>>].number
    BY DEF EventsInv, ReadingsKept, InWindow
  <2>1. StaysShown(m, p, f)
    BY DEF RowsInv, RowsKept
  <2>. QED BY <2>1 DEF StaysShown, Shown
<1>. QED BY <1>1, EventsInvariant, PTL

\* Every browser hears an event of its marina, once, and no other: however many come, go or are
\* dropped while broadcasts are under way.
THEOREM AllHear == EventsSpec => []Heard
<1>1. EventsInv => Heard
  <2>. SUFFICES ASSUME SocketInv PROVE Heard
    BY DEF EventsInv
  <2>1. \A c \in Clients : \A i, j \in DOMAIN heard[c] : heard[c][i] = heard[c][j] => i = j
    BY DEF SocketInv, HeardOnce
  <2>2. ASSUME NEW n \in DOMAIN sends
        PROVE  ListOf(n) \in [DOMAIN ListOf(n) -> Clients] /\ sends[n] \in Broadcast
    <3>1. ListOf(n) \in ClientLists
      BY DEF SocketInv, SocketTyped, Underway, ListOf
    <3>. QED BY <3>1, ListIs DEF SocketInv, SocketTyped
  <2>3. ASSUME NEW n \in DOMAIN sends, NEW c \in Clients, Got(c, sends[n].number)
        PROVE  /\ Subscribed(c, sends[n].marina)
               /\ c \in Admins \/ sends[n].marina \in Assigned[c]
    <3>1. PICK i \in DOMAIN ListOf(n) : ListOf(n)[i] = c
      BY <2>3 DEF SocketInv, HeardBehind
    <3>2. Admitted(c)
      BY <3>1 DEF SocketInv, Placed, Underway, ListOf
    <3>3. Subscribed(c, sends[n].marina)
      BY <2>3 DEF SocketInv, HeardBehind
    <3>4. Assigned[c] \subseteq MarinaIds /\ Nothing \notin MarinaIds
      BY EventsAssumption
    <3>. QED BY <3>2, <3>3, <3>4 DEF Admitted, Subscribed
  <2>4. ASSUME NEW n \in DOMAIN sends, sends[n].done, NEW c \in sends[n].present,
               Subscribed(c, sends[n].marina)
        PROVE  c \in sends[n].dead \/ Got(c, sends[n].number)
    <3>1. PICK i \in DOMAIN ListOf(n) : ListOf(n)[i] = c /\ i < sends[n].at
      BY <2>4 DEF SocketInv, StillListed
    <3>. QED BY <2>4, <3>1 DEF SocketInv, BehindHeard
  <2>. QED BY <2>1, <2>3, <2>4 DEF Heard, Got
<1>. QED BY <1>1, EventsInvariant, PTL

(***************************************************************************)
(* The run office                                                          *)
(***************************************************************************)

\* The part that runs behaves as its module says, and the others stay as they began.
LEMMA OfficeSteps ==
  ASSUME [OfficeNext]_officeVars
  PROVE  /\ [Next]_vars /\ [AgentNext]_securityVars /\ [ViewNext]_viewVars
         /\ [RegistryNext]_registryVars /\ [LedgerNext]_ledgerVars /\ [EventsNext]_eventVars
<1>1. CASE OfficeNext
  <2>1. \/ Next \/ UNCHANGED vars
    BY <1>1 DEF OfficeNext
  <2>2. \/ AgentNext \/ UNCHANGED securityVars
    BY <1>1 DEF OfficeNext
  <2>3. \/ ViewNext \/ UNCHANGED viewVars
    BY <1>1 DEF OfficeNext
  <2>4. \/ RegistryNext \/ UNCHANGED registryVars
    BY <1>1 DEF OfficeNext
  <2>5. \/ LedgerNext \/ UNCHANGED ledgerVars
    BY <1>1 DEF OfficeNext
  <2>6. \/ EventsNext \/ UNCHANGED eventVars
    BY <1>1 DEF OfficeNext, RowsNext, BrowsersNext
  <2> QED BY <2>1, <2>2, <2>3, <2>4, <2>5, <2>6
<1>2. CASE UNCHANGED officeVars
  BY <1>2 DEF officeVars
<1> QED BY <1>1, <1>2

\* Whichever component runs, all are of their types: those of the modules, in one formula.
THEOREM OfficeTypeCorrect == ASSUME LedgerAssumption PROVE OfficeSpec => []OfficeTypeOK
<1>1. OfficeInit =>
        Init /\ AgentInit /\ ViewInit /\ RegistryInit /\ LedgerInit /\ EventsInit
  BY DEF OfficeInit
<1>2. [OfficeNext]_officeVars =>
        /\ [Next]_vars /\ [AgentNext]_securityVars /\ [ViewNext]_viewVars
        /\ [RegistryNext]_registryVars /\ [LedgerNext]_ledgerVars /\ [EventsNext]_eventVars
  BY OfficeSteps
<1>3. OfficeSpec => Spec /\ AgentSpec /\ ViewSpec /\ RegistrySpec /\ LedgerSpec /\ EventsSpec
  BY <1>1, <1>2, PTL DEF OfficeSpec, Spec, AgentSpec, ViewSpec, RegistrySpec, LedgerSpec,
                         EventsSpec
<1>4. LedgerSpec => []LedgerTypeOK
  BY LedgerTypeCorrect
<1>5. TypeOK /\ AgentTypeOK /\ ViewTypeOK /\ RegistryTypeOK /\ LedgerTypeOK /\ EventsTypeOK
        => OfficeTypeOK
  BY DEF OfficeTypeOK
<1> QED BY <1>3, <1>4, <1>5, AccountsTypeCorrect, AgentTypeCorrect, ViewTypeCorrect,
           RegistryTypeCorrect, EventsTypeCorrect, PTL
=============================================================================
