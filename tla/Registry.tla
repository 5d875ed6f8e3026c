------------------------------- MODULE Registry -------------------------------
(***************************************************************************)
(* Cabinets, berths, which outlets serve which berth, the NFC tags of the  *)
(* outlets (services/cabinets.py, nfc_tags.py) and the vessel of a berth   *)
(* (routers/berth_detail.py).                                              *)
(*                                                                         *)
(* As in Accounts a request begins (reads and decides) and commits later;  *)
(* here unique indexes can refuse the commit.  No cabinet tells its own    *)
(* mapping, so every comparison of the two sides says "unverifiable" and   *)
(* is left out.                                                            *)
(***************************************************************************)
EXTENDS Naturals, Sequences, FiniteSets

CONSTANTS
  Cabinets, Berths, Sockets, Valves,
  On,             \* On[o]: the cabinet that has outlet o
  Uids, Orders,   \* a tag's UID, and the byte orders it can be written in
  Unset,
  Asked, Files,   \* bounds: the outlets asked for and the tag files imported
  MaxAsks,
  Mixes           \* bound: the sets of kinds of request of one behaviour

Outlets == Sockets \union Valves
AskKinds == {"outlets", "import", "set_vessel", "clear_vessel"}
TagLine == [uid : Uids, order : Orders, outlet : Outlets]

ASSUME RegistryAssumption ==
  /\ Asked \subseteq SUBSET Outlets /\ Files \subseteq SUBSET TagLine /\ MaxAsks \in Nat

VARIABLES
  cabinets,   \* provisioned, with the outlets of their type
  berths,     \* [berth, cabinet], the cabinet or Unset
  serves,     \* rows of berth_outlets: berth, outlet, the request that inserted it
  tags,       \* rows of outlet_nfc_tags: uid, order of the primary form, outlet, the import
  stays,      \* rows of berth_vessels: berth, the request that recorded it, whether it left
  asks        \* requests in the order they began

registryVars == <<cabinets, berths, serves, tags, stays, asks>>

Open(n) == asks[n].state \in {"begun", "deleting"}
OpenAsks == {n \in DOMAIN asks : Open(n)}

\* What berth_outlets allows: one row per berth and outlet; an electricity outlet serves one
\* berth and a berth has one; valves are shared.
Mapped(rows) ==
  \A r, s \in rows : r # s =>
    /\ r.berth # s.berth \/ r.outlet # s.outlet
    /\ {r.outlet, s.outlet} \subseteq Sockets => r.berth # s.berth /\ r.outlet # s.outlet

(***************************************************************************)
(* Cabinets and berths                                                     *)
(***************************************************************************)

\* provision_cabinet, one transaction.
ProvisionCabinet(c) ==
  /\ c \notin cabinets /\ cabinets' = cabinets \union {c}
  /\ UNCHANGED <<berths, serves, tags, stays, asks>>

\* create_berth, linked to a provisioned cabinet or to none.
CreateBerth(b, c) ==
  /\ \A row \in berths : row.berth # b
  /\ berths' = berths \union {[berth |-> b, cabinet |-> c]}
  /\ UNCHANGED <<cabinets, serves, tags, stays, asks>>

(***************************************************************************)
(* Requests                                                                *)
(***************************************************************************)

MayAsk(kind) ==
  /\ Len(asks) < MaxAsks
  /\ \E mix \in Mixes : {asks[n].kind : n \in DOMAIN asks} \union {kind} \subseteq mix

Ask(kind, b, outlets, lines, current) ==
  /\ MayAsk(kind)
  /\ asks' = Append(asks, [kind |-> kind, berth |-> b, outlets |-> outlets, lines |-> lines,
                           current |-> current, state |-> "begun", doomed |-> {}, waits |-> {},
                           beside |-> OpenAsks])
  /\ UNCHANGED <<cabinets, berths, serves, tags, stays>>

\* set_berth_outlets, its checks.
BeginOutlets == \E row \in berths, outs \in Asked :
  /\ row.cabinet # Unset /\ \A o \in outs : On[o] = row.cabinet
  /\ Cardinality(outs \intersect Sockets) <= 1
  /\ \A r \in serves : r.outlet \in outs \intersect Sockets => r.berth = row.berth
  /\ Ask("outlets", row.berth, outs, {}, Unset)

Ends(n, state) == asks' = [asks EXCEPT ![n].state = state]

\* Mutant: only the primary form is looked up.
Existing_Primary(line) == {t \in tags : t.uid = line.uid /\ t.order = line.order}

\* _existing: a tag stored in either order matches either form.
Existing(line) == {t \in tags : t.uid = line.uid}

\* import_csv: one bad line and nothing is written; lines that are there already are skipped.
BeginImport == \E file \in Files :
  /\ \A line \in file : On[line.outlet] \in cabinets
  /\ \A l, m \in file : l.uid = m.uid => l.outlet = m.outlet
  /\ \A line \in file : \A t \in Existing(line) : t.outlet = line.outlet
  /\ Ask("import", Unset, {}, {line \in file : Existing(line) = {}}, Unset)

Current(b) == {s \in stays : s.berth = b /\ ~s.left}

NewStay(b, n) == [berth |-> b, vessel |-> n, left |-> FALSE]

\* set_vessel renames the berth's vessel or records a new one, clear_vessel ends its stay.
BeginVessel == \E row \in berths :
  \/ Ask("set_vessel", row.berth, {}, {}, Current(row.berth))
  \/ Current(row.berth) # {} /\ Ask("clear_vessel", row.berth, {}, {}, Current(row.berth))

(***************************************************************************)
(* Their commits                                                           *)
(***************************************************************************)

\* A DELETE marks the rows it sees for its transaction, and waits for whoever did so before.
Deletes(n, rows) ==
  /\ asks[n].kind = "outlets" /\ asks[n].state = "begun"
  /\ asks' = [asks EXCEPT ![n].state = "deleting", ![n].doomed = rows,
        ![n].waits = {m \in OpenAsks : asks[m].doomed \intersect rows # {}}]
  /\ UNCHANGED <<cabinets, berths, serves, tags, stays>>

BerthRows(b) == {r \in serves : r.berth = b}

\* Mutant: the DELETE is by medium, like the indexes; valves add up.
DeleteRows_Electricity(n) == Deletes(n, {r \in BerthRows(asks[n].berth) : r.outlet \in Sockets})

\* set_berth_outlets deletes the rows of its berth that are committed, and no row that
\* another request inserts after that.
DeleteRows(n) == Deletes(n, BerthRows(asks[n].berth))

CommitOutlets(n) ==
  LET kept == serves \ asks[n].doomed
      new == [berth : {asks[n].berth}, outlet : asks[n].outlets, by : {n}]
  IN /\ asks[n].state = "deleting" /\ \A m \in asks[n].waits : ~Open(m)
     /\ IF Mapped(kept \union new)
        THEN serves' = kept \union new /\ Ends(n, "done")
        ELSE serves' = serves /\ Ends(n, "refused")
     /\ UNCHANGED <<cabinets, berths, tags, stays>>

\* uq_nfc_uid_primary, uq_nfc_uid_reversed: each column for itself.
Taken(line) == \E t \in tags : t.uid = line.uid /\ t.order = line.order

CommitImport(n) ==
  LET new == {[uid |-> l.uid, order |-> l.order, outlet |-> l.outlet, by |-> n] : l \in asks[n].lines}
      clash == \E l \in asks[n].lines : Taken(l)
  IN /\ asks[n].kind = "import" /\ Open(n)
     /\ tags' = IF clash THEN tags ELSE tags \union new
     /\ Ends(n, IF clash THEN "refused" ELSE "done")
     /\ UNCHANGED <<cabinets, berths, serves, stays>>

\* uq_berth_vessels_current.
CommitVessel(n) ==
  LET b == asks[n].berth
      records == asks[n].kind = "set_vessel" /\ asks[n].current = {}
      clash == records /\ Current(b) # {}
  IN /\ asks[n].kind \in {"set_vessel", "clear_vessel"} /\ Open(n)
     /\ stays' = IF clash THEN stays
                 ELSE IF records THEN stays \union {NewStay(b, n)}
                 ELSE IF asks[n].kind = "clear_vessel"
                      THEN {IF s \in asks[n].current THEN [s EXCEPT !.left = TRUE] ELSE s : s \in stays}
                      ELSE stays
     /\ Ends(n, IF clash THEN "refused" ELSE "done")
     /\ UNCHANGED <<cabinets, berths, serves, tags>>

RegistryInit ==
  /\ cabinets = {} /\ berths = {} /\ serves = {} /\ tags = {} /\ stays = {} /\ asks = <<>>

RegistryNext ==
  \/ \E c \in Cabinets : ProvisionCabinet(c)
  \/ \E b \in Berths, c \in cabinets \union {Unset} : CreateBerth(b, c)
  \/ BeginOutlets \/ BeginImport \/ BeginVessel
  \/ \E n \in DOMAIN asks : DeleteRows(n) \/ CommitOutlets(n) \/ CommitImport(n) \/ CommitVessel(n)

RegistrySpec == RegistryInit /\ [][RegistryNext]_registryVars

\* lookup: whichever form the phone read; it answers with the first of these.
Lookup(uid) == {t \in tags : t.uid = uid}

(***************************************************************************)
(* Properties                                                              *)
(***************************************************************************)

Overlapping(m, n) == m \in asks[n].beside \/ n \in asks[m].beside

\* Types of the variables.
RegistryTypeOK ==
  /\ cabinets \subseteq Cabinets
  /\ serves \subseteq [berth : Berths, outlet : Outlets, by : 1 .. MaxAsks]
  /\ berths \subseteq [berth : Berths, cabinet : Cabinets \union {Unset}]
  /\ tags \subseteq [uid : Uids, order : Orders, outlet : Outlets, by : 1 .. MaxAsks]
  /\ stays \subseteq [berth : Berths, vessel : 1 .. MaxAsks, left : BOOLEAN]
  /\ Len(asks) <= MaxAsks

Finished(b) == {n \in DOMAIN asks : asks[n].berth = b /\ asks[n].kind = "outlets" /\ asks[n].state = "done"}

\* set_berth_outlets replaces the mapping of a berth.  Whoever else is doing so: a row is left
\* of a finished request only while each one that followed it overlapped it, and of the last
\* one, if it overlapped no other, every outlet it asked for is there.  Requests that overlap
\* may leave a mixture, and the first to come after them puts an end to it.
MappingReplaced ==
  /\ \A r \in serves :
       /\ r.by \in Finished(r.berth)
       /\ \A m \in Finished(r.berth) : m > r.by => Overlapping(m, r.by)
  /\ \A b \in Berths : \A n \in Finished(b) : \A o \in asks[n].outlets :
       \/ \E r \in serves : r.berth = b /\ r.outlet = o
       \/ \E m \in Finished(b) : m # n /\ (m > n \/ Overlapping(m, n))

\* A scanned UID is the tag of one outlet, whichever byte order it is read or was imported in
\* (D6.1), unless it was in two imports at the same time: the orders are unique only each for
\* itself.
TagResolvesOnce ==
  \A uid \in Uids : \A t, u \in Lookup(uid) : t.outlet = u.outlet \/ Overlapping(t.by, u.by)
=============================================================================
