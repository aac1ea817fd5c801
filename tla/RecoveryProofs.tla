---------------------------- MODULE RecoveryProofs ----------------------------
(***************************************************************************)
(* Types of Recovery, for any number of node pages, WAL records,           *)
(* operations and crashes and every page capacity; what every critical     *)
(* section has in common; and that redo never fails, if no checkpoint      *)
(* starts inside a critical section.                                       *)
(*                                                                         *)
(* An insert is redone at the offset it logged, so redo of it fails unless *)
(* the page has exactly the items before that offset.  The invariant says  *)
(* so of every version of a page recovery may start from: what is on disk, *)
(* in a buffer, in an image, or what another insert leaves.                *)
(***************************************************************************)
EXTENDS Recovery, SequenceTheorems, TLAPS

\* What a record says fits its type.
Fits(r) ==
    \/ /\ r.type = "NODE_INSERT" /\ r.blk \in NodePage
       /\ r.off \in Slot /\ r.data \in NodeItem
    \/ /\ r.type = "EDGE_INSERT" /\ r.blk = EdgePage
       /\ r.off \in Slot /\ r.data \in EdgeItem
    \/ r.type = "NODE_DELETE" /\ r.blk \in NodePage /\ r.data \in Xid
    \/ r.type = "EDGE_DELETE" /\ r.blk = EdgePage /\ r.data \in Xid
    \/ r.type = "ADJ_UPDATE" /\ r.blk \in NodePage /\ r.off \in Slot /\ r.data \in Header
    \/ r.type = "NODE_COMPACT" /\ r.blk \in NodePage

\* The n-th record of the WAL, with its images.
ImageOK(n, p, page) == page = None \/ (PageOK(p, page) /\ page.lsn = n)
EntryOK(n, r) ==
    \/ r.type = "COMMIT"
    \/ Fits(r) /\ ImageOK(n, r.blk, r.img) /\ ImageOK(n, OvfPage, r.ovf)

SectionOK(o) ==
    /\ o = [todo |-> o.todo, lsn |-> o.lsn]
    /\ o.todo \in Seq(PendingRecord)
    /\ DOMAIN o.lsn \subseteq Blk /\ o.lsn \in [DOMAIN o.lsn -> 0..Len(wal)]
    /\ \A i \in 1..Len(o.todo) : Fits(o.todo[i]) /\ o.todo[i].blk \in DOMAIN o.lsn

AnyImage == {None} \cup UNION {Page(p) : p \in Blk}
LogEntry ==
    [type: {"COMMIT"}, xid: Xid] \cup
    [type: {"NODE_INSERT", "NODE_DELETE", "EDGE_INSERT", "EDGE_DELETE", "ADJ_UPDATE", "NODE_COMPACT"},
     blk: NodePage \cup {EdgePage}, off: 0..Cap, data: NodeItem \cup EdgeItem \cup Header \cup Nat,
     img: AnyImage, ovf: AnyImage]

Log == wal \in Seq(LogEntry) /\ \A n \in 1..Len(wal) : EntryOK(n, wal[n])

Pages ==
    /\ buf = [p \in Blk |-> buf[p]] /\ disk = [p \in Blk |-> disk[p]]
    /\ \A p \in Blk : PageOK(p, buf[p]) /\ PageOK(p, disk[p])
    /\ \A p \in Blk : disk[p].lsn <= flushed /\ buf[p].lsn <= Len(wal)

\* The checkpoint to recover from is on disk, and so is the WAL it needs.
Points ==
    /\ dirty \subseteq Blk /\ (todo # None => todo \subseteq dirty)
    /\ flushed \in 0..Len(wal) /\ Len(wal) <= MaxWal
    /\ {ckpt, redoPtr} \subseteq Nat /\ ckpt <= redoPtr /\ redoPtr <= Len(wal) /\ ckpt <= flushed
    /\ mode # "run" => /\ op = None /\ todo = None /\ redoPtr = ckpt
                       /\ flushed = Len(wal) /\ ckpt <= pos

Scalars ==
    /\ xid \in Xid /\ fpw \in BOOLEAN /\ mode \in {"run", "redo", "failed"}
    /\ pos \in Lsn /\ crashes \in 0..MaxCrash /\ lastId \in Nat
    /\ mode # "run" => pos <= Len(wal)
    /\ moving = None \/ moving \in NodeItem
    /\ op = None \/ SectionOK(op)

Types == Pages /\ Log /\ Points /\ Scalars

\* The records that add an item to a page.
IsInsert(r) == r.type \in {"NODE_INSERT", "EDGE_INSERT"}
Adds(records, p) == \E i \in 1..Len(records) : IsInsert(records[i]) /\ records[i].blk = p

\* What all critical sections have in common.  A page that gets an item gets one,
\* after all others, and a record with an insert of it, before which there may be
\* a deletion; only the update of an adjacency header may leave the LSN alone, and
\* only the compaction of a page forces an image.
Section(new, records) ==
    /\ DOMAIN new \subseteq Blk
    /\ \A p \in DOMAIN new : PageOK(p, new[p]) /\ new[p].lsn <= Len(wal)
    /\ records \in Seq(PendingRecord)
    /\ \A i \in 1..Len(records) : Fits(records[i]) /\ records[i].blk \in DOMAIN new
    /\ \A p \in DOMAIN new \ {OvfPage} :
          /\ new[p].lsn = buf[p].lsn /\ new[p].init = buf[p].init
          /\ Len(new[p].item) = IF Adds(records, p) THEN Len(buf[p].item) + 1
                                                    ELSE Len(buf[p].item)
    /\ \A i \in 1..Len(records) :
          /\ IsInsert(records[i]) => records[i].off = Len(new[records[i].blk].item)
          /\ records[i].stamp \/ records[i].type = "ADJ_UPDATE"
          /\ records[i].force => records[i].type = "NODE_COMPACT"
    /\ \A i, j \in 1..Len(records) :
          i # j /\ IsInsert(records[j]) /\ records[i].blk = records[j].blk =>
              i < j /\ records[i].type = "NODE_DELETE"

Begins == \E new, records, facts :
    /\ Enter(new, records, facts) /\ Section(new, records)
    /\ (moving' = None \/ moving' \in NodeItem) /\ lastId' \in Nat

-----------------------------------------------------------------------------
USE RecoveryAssumption

\* The larger of two numbers.
LEMMA MaxOfTwo ==
    ASSUME NEW a \in Nat, NEW b \in Nat
    PROVE  Max({a, b}) \in {a, b} /\ Max({a, b}) >= a /\ Max({a, b}) >= b
<1>1. \E x \in {a, b} : \A y \in {a, b} : x >= y
  OBVIOUS
<1> QED BY <1>1 DEF Max

\* A page with another item.
WithItem(g, i) == [g EXCEPT !.item = Append(@, i)]

LEMMA PageAppend ==
    ASSUME NEW p \in Blk, NEW g, PageOK(p, g), NEW i \in Content(p), Len(g.item) + 1 <= Cap
    PROVE  /\ PageOK(p, WithItem(g, i))
           /\ Len(WithItem(g, i).item) = Len(g.item) + 1
           /\ WithItem(g, i).lsn = g.lsn /\ WithItem(g, i).init = g.init
<1>1. /\ Append(g.item, i) \in Seq(Content(p))
      /\ Len(Append(g.item, i)) = Len(g.item) + 1
  BY DEF PageOK, Page
<1> DEFINE s == Append(g.item, i)
<1> HIDE DEF s
<1>2. PageOK(p, [g EXCEPT !.item = s]) /\ [g EXCEPT !.item = s].item = s
      /\ [g EXCEPT !.item = s].lsn = g.lsn /\ [g EXCEPT !.item = s].init = g.init
  BY <1>1 DEF PageOK, Page, s
<1>3. WithItem(g, i) = [g EXCEPT !.item = s]
  BY DEF WithItem, s
<1> QED BY <1>1, <1>2, <1>3 DEF s

\* A page one item of which gets an xmax.
Killed(g, off, x) == [g EXCEPT !.item[off].xmax = x]

LEMMA PageKill ==
    ASSUME NEW p \in NodePage \cup {EdgePage}, NEW g, PageOK(p, g),
           NEW off \in 1..Len(g.item), NEW x \in Xid \cup {0}
    PROVE  /\ PageOK(p, Killed(g, off, x))
           /\ Len(Killed(g, off, x).item) = Len(g.item)
           /\ Killed(g, off, x).lsn = g.lsn /\ Killed(g, off, x).init = g.init
<1>1. g.item \in Seq(Content(p)) /\ g.item[off] \in Content(p)
  BY DEF PageOK, Page
<1>2. [g.item[off] EXCEPT !.xmax = x] \in Content(p)
  <2>1. CASE p \in NodePage
    BY <2>1, <1>1 DEF Content, NodeItem
  <2>2. CASE p = EdgePage
    BY <2>2, <1>1 DEF Content, EdgeItem
  <2> QED BY <2>1, <2>2
<1> DEFINE y == [g.item[off] EXCEPT !.xmax = x]
           s == [g.item EXCEPT ![off] = y]
<1> HIDE DEF y
<1>3. s \in Seq(Content(p)) /\ Len(s) = Len(g.item)
  BY <1>1, <1>2, ExceptSeq DEF y
<1> HIDE DEF s
<1>4. PageOK(p, [g EXCEPT !.item = s]) /\ [g EXCEPT !.item = s].item = s
      /\ [g EXCEPT !.item = s].lsn = g.lsn /\ [g EXCEPT !.item = s].init = g.init
  BY <1>3 DEF PageOK, Page
<1>5. Killed(g, off, x) = [g EXCEPT !.item = s]
  BY DEF Killed, s, y
<1> QED BY <1>3, <1>4, <1>5

-----------------------------------------------------------------------------
(* Types                                                                   *)

\* Init has one node on every node page, and everything on disk.
LEMMA InitTypes == Init => Types
<1> SUFFICES ASSUME Init PROVE Types
  OBVIOUS
<1> DEFINE none == [s \in Slot |-> NoEdges]
           one == [id |-> 1, slot |-> 1, xmax |-> 0, big |-> FALSE, lp |-> "normal"]
           empty(p) == [lsn |-> 0, init |-> p # OvfPage, item |-> <<>>, head |-> none]
           node == [lsn |-> 0, init |-> TRUE, item |-> <<one>>, head |-> none]
<1>1. none \in [Slot -> Header]
  BY DEF NoEdges, Header
<1> HIDE DEF none
<1>2. one \in NodeItem
  BY DEF NodeItem, Slot, Xid
<1> HIDE DEF one
<1>3. \A p \in NodePage : PageOK(p, node) /\ node.lsn = 0
  <2> TAKE p \in NodePage
  <2>1. <<one>> \in Seq(NodeItem) /\ Len(<<one>>) = 1
    BY <1>2
  <2> QED BY <2>1, <1>1 DEF PageOK, Page, Content, Lsn
<1>4. \A p \in Blk : PageOK(p, empty(p)) /\ empty(p).lsn = 0
  <2> TAKE p \in Blk
  <2>1. <<>> \in Seq(Content(p)) /\ Len(<<>>) = 0
    OBVIOUS
  <2> QED BY <2>1, <1>1 DEF PageOK, Page, Lsn
<1>5. buf = disk /\ disk = [p \in Blk |-> IF p \in NodePage THEN node ELSE empty(p)]
  <2>1. \A p \in Blk : disk[p] = IF p \in NodePage THEN node ELSE empty(p)
    <3> TAKE p \in Blk
    <3>1. CASE p \in NodePage
      <4>1. disk[p] = [[ZeroPage EXCEPT !.init = TRUE] EXCEPT !.item = <<one>>]
        BY <3>1 DEF Init, one
      <4> HIDE DEF one
      <4> QED BY <3>1, <4>1 DEF ZeroPage, none
    <3>2. CASE p = EdgePage
      <4>1. disk[p] = [ZeroPage EXCEPT !.init = TRUE]
        BY <3>2 DEF Init
      <4> QED BY <3>2, <4>1 DEF ZeroPage, none
    <3>3. CASE p = OvfPage
      BY <3>3 DEF Init, ZeroPage, none, Blk
    <3> QED BY <3>1, <3>2, <3>3 DEF Blk
  <2> QED BY <2>1 DEF Init
<1> HIDE DEF node, empty
<1>7. \A p \in Blk : PageOK(p, disk[p]) /\ disk[p].lsn = 0
  BY <1>3, <1>4, <1>5
<1>8. wal = <<>> /\ wal \in Seq(LogEntry) /\ Len(wal) = 0
  BY DEF Init
<1>9. Pages
  <2>1. disk = [p \in Blk |-> disk[p]] /\ flushed = 0
    BY <1>5 DEF Init
  <2>2. buf = disk
    BY <1>5
  <2> QED BY <2>1, <2>2, <1>7, <1>8 DEF Pages
<1>10. Log
  BY <1>8 DEF Log
<1>11. Points /\ Scalars
  BY <1>8 DEF Points, Scalars, Init, Xid, Lsn
<1> QED BY <1>9, <1>10, <1>11 DEF Types

\* A critical section begins.
LEMMA EnterTypes ==
    ASSUME Types, NEW new, NEW records, NEW facts, Enter(new, records, facts),
           Section(new, records),
           moving' = None \/ moving' \in NodeItem, lastId' \in Nat
    PROVE  Types'
<1> /\ DOMAIN new \subseteq Blk
    /\ \A p \in DOMAIN new : PageOK(p, new[p]) /\ new[p].lsn <= Len(wal)
    /\ records \in Seq(PendingRecord)
    /\ \A i \in 1..Len(records) : Fits(records[i]) /\ records[i].blk \in DOMAIN new
  BY DEF Section
<1>1. mode = "run" /\ mode' = mode /\ UNCHANGED <<dirty, disk, wal, flushed, redoPtr, ckpt, todo, xid, pos, crashes, fpw>>
  BY DEF Enter, Running, log, ckptVars, server
<1>2. \A p \in Blk : buf'[p] = IF p \in DOMAIN new THEN new[p] ELSE buf[p]
  BY DEF Enter
<1>3. Pages'
  BY <1>1, <1>2 DEF Types, Pages, Enter
<1>4. Log'
  BY <1>1 DEF Types, Log
<1>5. Points'
  BY <1>1 DEF Types, Points
<1>6. SectionOK(op)'
  <2>1. op' = [todo |-> records, lsn |-> [p \in DOMAIN new |-> buf[p].lsn]]
    BY DEF Enter
  <2>2. \A p \in DOMAIN new : buf[p].lsn \in 0..Len(wal)
    BY DEF Types, Pages, PageOK, Page, Lsn, Log
  <2> DEFINE f == [p \in DOMAIN new |-> buf[p].lsn]
  <2>3. f \in [DOMAIN new -> 0..Len(wal)] /\ DOMAIN f = DOMAIN new
    BY <2>2
  <2> HIDE DEF f
  <2>4. op' = [todo |-> records, lsn |-> f]
    BY <2>1 DEF f
  <2>5. op'.todo = records /\ op'.lsn = f
    BY <2>4
  <2> QED BY <1>1, <2>3, <2>4, <2>5 DEF SectionOK
<1>7. Scalars'
  BY <1>1, <1>6 DEF Types, Scalars
<1> QED BY <1>3, <1>4, <1>5, <1>7 DEF Types

\* One record, for the one page of nodes or edges that changes.
LEMMA SectionOfOne ==
    ASSUME Types, NEW p \in NodePage \cup {EdgePage}, NEW new, NEW r,
           DOMAIN new \subseteq {p, OvfPage}, p \in DOMAIN new,
           \A q \in DOMAIN new : PageOK(q, new[q]) /\ new[q].lsn <= Len(wal),
           new[p].lsn = buf[p].lsn, new[p].init = buf[p].init,
           r \in PendingRecord, Fits(r), r.blk = p, r.stamp, r.force => r.type = "NODE_COMPACT",
           IsInsert(r) => /\ r.off = Len(new[p].item)
                          /\ Len(new[p].item) = Len(buf[p].item) + 1,
           ~IsInsert(r) => Len(new[p].item) = Len(buf[p].item)
    PROVE  Section(new, <<r>>)
<1>1. <<r>> \in Seq(PendingRecord) /\ Len(<<r>>) = 1 /\ <<r>>[1] = r
  OBVIOUS
<1> DEFINE records == <<r>>
<1> HIDE DEF records
<1>2. records \in Seq(PendingRecord) /\ Len(records) = 1 /\ \A i \in 1..Len(records) : i = 1 /\ records[i] = r
  BY <1>1 DEF records
<1>3. Adds(records, p) <=> IsInsert(r)
  BY <1>2 DEF Adds
<1>4. DOMAIN new \subseteq Blk /\ DOMAIN new \ {OvfPage} \subseteq {p}
  BY DEF Blk
<1>5. Section(new, records)
  BY <1>2, <1>3, <1>4 DEF Section
<1> QED BY <1>5 DEF records

\* insert_node.
LEMMA InsertNodeSection ==
    ASSUME Types, NEW p \in NodePage, NEW big \in BOOLEAN, InsertNode(p, big)
    PROVE  Begins
<1> DEFINE off == Len(buf[p].item) + 1
           i == [id |-> lastId + 1, slot |-> off, xmax |-> 0, big |-> big, lp |-> "normal"]
           page == [buf[p] EXCEPT !.item = Append(@, i)]
           ovf == [ZeroPage EXCEPT !.init = TRUE, !.item = <<i.id>>]
           new == IF big THEN [q \in {p, OvfPage} |-> IF q = p THEN page ELSE ovf] ELSE On(p, page)
           records == <<NodeRecord(p, off, i)>>
<1>1. off \in Slot /\ lastId' = lastId + 1 /\ moving' = moving /\ Enter(new, records, {Added(p, off, i)})
  BY DEF InsertNode, Types, Pages, PageOK, Page, Slot, Blk
<1>2. PageOK(p, buf[p]) /\ buf[p].lsn <= Len(wal) /\ lastId \in Nat /\ p \in Blk
  BY DEF Types, Pages, Scalars, Blk
<1>3. i \in NodeItem
  BY <1>1, <1>2 DEF NodeItem
<1>4. i.id = lastId + 1
  OBVIOUS
<1> HIDE DEF i
<1>5. /\ PageOK(p, page) /\ page.lsn = buf[p].lsn /\ page.init = buf[p].init
      /\ Len(page.item) = off
  <2>1. i \in Content(p)
    BY <1>3 DEF Content
  <2>2. Len(buf[p].item) + 1 <= Cap
    BY <1>1 DEF Slot
  <2>3. page = WithItem(buf[p], i)
    BY DEF WithItem
  <2> HIDE DEF page
  <2> QED BY <1>2, <2>1, <2>2, <2>3, PageAppend
<1>6. PageOK(OvfPage, ovf) /\ ovf.lsn = 0
  <2>1. <<i.id>> \in Seq(Nat) /\ Len(<<i.id>>) = 1
    BY <1>2, <1>4
  <2>2. [s \in Slot |-> NoEdges] \in [Slot -> Header]
    BY DEF NoEdges, Header
  <2> DEFINE none == [s \in Slot |-> NoEdges]
  <2> DEFINE its == <<i.id>>
  <2>3. ZeroPage = [lsn |-> 0, init |-> FALSE, item |-> <<>>, head |-> none]
    BY DEF ZeroPage
  <2>4. its \in Seq(Nat) /\ Len(its) = 1 /\ none \in [Slot -> Header]
    BY <2>1, <2>2
  <2>5. ovf = [ZeroPage EXCEPT !.init = TRUE, !.item = its]
    OBVIOUS
  <2> HIDE DEF none, its, ovf
  <2>6. ovf = [lsn |-> 0, init |-> TRUE, item |-> its, head |-> none]
    BY <2>3, <2>5
  <2>7. Content(OvfPage) = Nat
    BY DEF Content
  <2>8. ovf.lsn = 0 /\ ovf.item = its /\ 1 <= Cap /\ 0 \in Lsn
    BY <2>6 DEF Lsn
  <2>9. ovf \in [lsn: Lsn, init: BOOLEAN, item: Seq(Nat), head: [Slot -> Header]]
    BY <2>4, <2>6, <2>8
  <2> QED BY <2>4, <2>7, <2>8, <2>9 DEF PageOK, Page
<1>7. /\ NodeRecord(p, off, i) \in PendingRecord /\ Fits(NodeRecord(p, off, i))
      /\ NodeRecord(p, off, i).blk = p /\ NodeRecord(p, off, i).off = off
      /\ NodeRecord(p, off, i).type = "NODE_INSERT"
      /\ NodeRecord(p, off, i).stamp = TRUE /\ NodeRecord(p, off, i).force = FALSE
  <2>1. LoggedItem(i) \in NodeItem
    BY <1>3 DEF LoggedItem, NodeItem, Slot
  <2>2. i.big \in BOOLEAN
    BY <1>3 DEF NodeItem
  <2> DEFINE j == LoggedItem(i)
             b == i.big
  <2>3. NodeRecord(p, off, i) = [type |-> "NODE_INSERT", blk |-> p, off |-> off, data |-> j,
                                 stamp |-> TRUE, force |-> FALSE, ovf |-> b]
    <3> DEFINE plain == [type |-> "NODE_INSERT", blk |-> p, off |-> off, data |-> j,
                         stamp |-> TRUE, force |-> FALSE, ovf |-> FALSE]
    <3>1. NodeRecord(p, off, i) = [plain EXCEPT !.ovf = b]
      BY DEF NodeRecord, Record
    <3> HIDE DEF j, b, off
    <3> QED BY <3>1, <2>2 DEF b
  <2>4. j \in NodeItem /\ b \in BOOLEAN /\ off \in Slot /\ off \in 0..Cap
    BY <2>1, <2>2, <1>1 DEF Slot
  <2> HIDE DEF j, b, off
  <2> QED BY <2>3, <2>4 DEF PendingRecord, Fits
<1> HIDE DEF page, ovf
<1>8. /\ DOMAIN new = IF big THEN {p, OvfPage} ELSE {p}
      /\ \A q \in DOMAIN new : new[q] = IF q = p THEN page ELSE ovf
  BY DEF On
<1>9. \A q \in DOMAIN new : PageOK(q, new[q]) /\ new[q].lsn <= Len(wal)
  <2>1. Len(wal) \in Nat
    BY DEF Types, Log
  <2> HIDE DEF new, off
  <2> QED BY <2>1, <1>2, <1>5, <1>6, <1>8
<1>10. DOMAIN new \subseteq {p, OvfPage} /\ p \in DOMAIN new /\ new[p] = page
  BY <1>8
<1> DEFINE r == NodeRecord(p, off, i)
<1>11. IsInsert(r) /\ r.off = off /\ r.stamp /\ ~r.force
  BY <1>7 DEF IsInsert
<1>12. moving' = None \/ moving' \in NodeItem
  BY <1>1 DEF Types, Scalars
<1>13. Len(new[p].item) = off
  BY <1>5, <1>10
<1>14. Enter(new, <<r>>, {Added(p, off, i)})
  BY <1>1
<1>15. Len(new[p].item) = Len(buf[p].item) + 1
  BY <1>13
<1>16. lastId' \in Nat
  BY <1>1, <1>2
<1> HIDE DEF new, off, r
<1>17. r.blk = p /\ Fits(r) /\ r \in PendingRecord
  BY <1>7 DEF r
<1>18. new[p].lsn = buf[p].lsn /\ new[p].init = buf[p].init
  BY <1>5, <1>10
<1>19. Section(new, <<r>>)
  BY <1>9, <1>10, <1>11, <1>13, <1>15, <1>17, <1>18, SectionOfOne
<1> QED BY <1>12, <1>14, <1>16, <1>19 DEF Begins

\* What is known of a page in shared buffers.
LEMMA BufferOK ==
    ASSUME Types, NEW p \in Blk
    PROVE  /\ PageOK(p, buf[p]) /\ buf[p] \in Page(p) /\ buf[p].lsn <= Len(wal) /\ Len(wal) \in Nat
           /\ buf[p].item \in Seq(Content(p)) /\ Len(buf[p].item) \in Nat /\ Len(buf[p].item) <= Cap
<1>1. PageOK(p, buf[p]) /\ buf[p].lsn <= Len(wal)
  BY DEF Types, Pages
<1>2. Len(wal) \in Nat
  BY DEF Types, Log
<1>3. buf[p].item \in Seq(Content(p))
  BY <1>1 DEF PageOK, Page
<1> QED BY <1>1, <1>2, <1>3 DEF PageOK

\* What is known of an item in use, and of the transaction that deletes it.
LEMMA ItemInUse ==
    ASSUME Types, NEW p \in NodePage \cup {EdgePage}, NEW off \in Items(p)
    PROVE  /\ PageOK(p, buf[p]) /\ buf[p].lsn <= Len(wal) /\ Len(wal) \in Nat /\ xid \in Xid
           /\ off \in 1..Len(buf[p].item) /\ off \in 0..Cap /\ buf[p].item[off] \in Content(p)
<1>1. PageOK(p, buf[p]) /\ buf[p].lsn <= Len(wal) /\ Len(wal) \in Nat /\ xid \in Xid
  <2>1. PageOK(p, buf[p]) /\ buf[p].lsn <= Len(wal)
    BY DEF Types, Pages, Blk
  <2>2. Len(wal) \in Nat
    BY DEF Types, Log
  <2>3. xid \in Xid
    BY DEF Types, Scalars
  <2> QED BY <2>1, <2>2, <2>3
<1>2. off \in 1..Len(buf[p].item) /\ buf[p].item \in Seq(Content(p)) /\ Len(buf[p].item) <= Cap
  BY <1>1 DEF Items, PageOK, Page
<1> QED BY <1>1, <1>2

\* delete_node_by_id, delete_edge, and the first half of an update that moves the
\* node: one item gets an xmax.
LEMMA KillSection ==
    ASSUME Types, NEW p \in NodePage \cup {EdgePage}, NEW off \in Items(p), NEW facts,
           NEW type, type = IF p = EdgePage THEN "EDGE_DELETE" ELSE "NODE_DELETE",
           Enter(On(p, [buf[p] EXCEPT !.item[off].xmax = xid]),
                 <<Record(type, p, off, xid)>>, facts),
           moving' = None \/ moving' \in NodeItem, lastId' = lastId
    PROVE  Begins
<1> DEFINE page == [buf[p] EXCEPT !.item[off].xmax = xid]
           r == Record(type, p, off, xid)
<1>1. /\ PageOK(p, page) /\ page.lsn = buf[p].lsn /\ page.init = buf[p].init
      /\ Len(page.item) = Len(buf[p].item)
  <2>1. PageOK(p, buf[p]) /\ off \in 1..Len(buf[p].item) /\ xid \in Xid \cup {0}
    BY ItemInUse
  <2>2. page = Killed(buf[p], off, xid)
    BY DEF Killed
  <2> HIDE DEF page
  <2> QED BY <2>1, <2>2, PageKill
<1>2. r \in PendingRecord /\ Fits(r) /\ r.blk = p /\ r.stamp /\ ~r.force /\ ~IsInsert(r)
  BY ItemInUse DEF Record, PendingRecord, Fits, Xid, IsInsert
<1>3. lastId' \in Nat
  BY DEF Types, Scalars
<1>4. Enter(On(p, page), <<r>>, facts)
  OBVIOUS
<1> HIDE DEF page, r
<1> DEFINE new == On(p, page)
<1>5. DOMAIN new = {p} /\ new[p] = page /\ page.lsn <= Len(wal)
  BY <1>1, ItemInUse DEF On
<1> HIDE DEF new
<1>6. Section(new, <<r>>)
  BY <1>1, <1>2, <1>5, SectionOfOne
<1>7. Enter(new, <<r>>, facts)
  BY <1>4 DEF new
<1> QED BY <1>3, <1>6, <1>7 DEF Begins


\* update_node, room on the page: a deletion and an insert.
LEMMA UpdateNodeSection ==
    ASSUME Types, NEW p \in NodePage, NEW off \in Items(p), UpdateNode(p, off)
    PROVE  Begins
<1> DEFINE new == Len(buf[p].item) + 1
           i == [buf[p].item[off] EXCEPT !.big = FALSE]
           kill == [buf[p] EXCEPT !.item[off].xmax = xid]
           page == [kill EXCEPT !.item = Append(@, i)]
           d == Record("NODE_DELETE", p, off, xid)
           n == Record("NODE_INSERT", p, new, i)
           facts == {Deleted(p, off), Added(p, new, i)}
<1>1. /\ new <= Cap /\ moving' = moving /\ lastId' = lastId
      /\ Enter(On(p, [buf[p] EXCEPT !.item = Append([@ EXCEPT ![off].xmax = xid], i)]), <<d, n>>, facts)
  BY DEF UpdateNode, UpdateRecords
<1>2. [buf[p] EXCEPT !.item = Append([@ EXCEPT ![off].xmax = xid], i)] = page
  <2>1. PageOK(p, buf[p]) /\ buf[p] \in Page(p)
    BY ItemInUse DEF PageOK
  <2>2. kill.item = [buf[p].item EXCEPT ![off].xmax = xid]
    BY <2>1 DEF Page
  <2> QED BY <2>1, <2>2 DEF Page
<1>3. /\ PageOK(p, kill) /\ kill.lsn = buf[p].lsn /\ kill.init = buf[p].init
      /\ Len(kill.item) = Len(buf[p].item)
  <2>1. PageOK(p, buf[p]) /\ off \in 1..Len(buf[p].item) /\ xid \in Xid \cup {0}
    BY ItemInUse
  <2>2. kill = Killed(buf[p], off, xid)
    BY DEF Killed
  <2> HIDE DEF kill
  <2> QED BY <2>1, <2>2, PageKill
<1>4. i \in NodeItem /\ new \in Slot
  <2>1. buf[p].item[off] \in NodeItem
    BY ItemInUse DEF Content
  <2>2. Len(buf[p].item) \in Nat
    BY BufferOK DEF Blk
  <2>3. i \in NodeItem
    BY <2>1 DEF NodeItem
  <2> QED BY <1>1, <2>2, <2>3 DEF Slot
<1> HIDE DEF i, kill
<1>5. /\ PageOK(p, page) /\ page.lsn = buf[p].lsn /\ page.init = buf[p].init
      /\ Len(page.item) = new
  <2>1. p \in Blk /\ i \in Content(p) /\ Len(kill.item) + 1 <= Cap
    BY <1>1, <1>3, <1>4 DEF Blk, Content
  <2>2. /\ PageOK(p, page) /\ page.lsn = kill.lsn /\ page.init = kill.init
        /\ Len(page.item) = Len(kill.item) + 1
    <3>1. page = WithItem(kill, i)
      BY DEF WithItem
    <3> HIDE DEF page
    <3> QED BY <1>3, <2>1, <3>1, PageAppend
  <2> HIDE DEF page
  <2> QED BY <1>3, <2>2
<1> HIDE DEF page
<1>6. /\ d \in PendingRecord /\ Fits(d) /\ d.blk = p /\ d.stamp /\ ~d.force /\ ~IsInsert(d)
      /\ d.type = "NODE_DELETE"
  BY ItemInUse DEF Record, PendingRecord, Fits, Xid, IsInsert
<1>7. /\ n \in PendingRecord /\ Fits(n) /\ n.blk = p /\ n.stamp /\ ~n.force /\ IsInsert(n)
      /\ n.off = new
  <2> HIDE DEF new
  <2> QED BY <1>4 DEF Record, PendingRecord, Fits, IsInsert, Slot
<1>8. Enter(On(p, page), <<d, n>>, facts)
  BY <1>1, <1>2
<1>9. (moving' = None \/ moving' \in NodeItem) /\ lastId' \in Nat
  BY <1>1 DEF Types, Scalars
<1> HIDE DEF d, n, facts
<1> DEFINE records == <<d, n>>
<1>10. records \in Seq(PendingRecord) /\ Len(records) = 2 /\ records[1] = d /\ records[2] = n
  BY <1>6, <1>7
<1> HIDE DEF records
<1>11. \A k \in 1..Len(records) : (k = 1 /\ records[k] = d) \/ (k = 2 /\ records[k] = n)
  BY <1>10
<1>12. Adds(records, p) /\ \A k \in 1..Len(records) : records[k].blk = p
  BY <1>6, <1>7, <1>10, <1>11 DEF Adds
<1> DEFINE change == On(p, page)
<1>13. DOMAIN change = {p} /\ change[p] = page /\ p \in Blk
  BY DEF On, Blk
<1>14. page.lsn <= Len(wal) /\ Len(page.item) = Len(buf[p].item) + 1
  BY <1>5, ItemInUse
<1> HIDE DEF change, new
<1>15. Section(change, records)
  <2>1. \A k \in 1..Len(records) : Fits(records[k]) /\ records[k].blk \in DOMAIN change
    BY <1>6, <1>7, <1>11, <1>13
  <2>2. \A k \in 1..Len(records) :
          /\ IsInsert(records[k]) => records[k].off = Len(change[records[k].blk].item)
          /\ records[k].stamp \/ records[k].type = "ADJ_UPDATE"
          /\ records[k].force => records[k].type = "NODE_COMPACT"
    BY <1>5, <1>6, <1>7, <1>11, <1>13
  <2>3. \A k, j \in 1..Len(records) :
          k # j /\ IsInsert(records[j]) /\ records[k].blk = records[j].blk =>
              k < j /\ records[k].type = "NODE_DELETE"
    BY <1>6, <1>11
  <2> QED BY <2>1, <2>2, <2>3, <1>5, <1>10, <1>12, <1>13, <1>14 DEF Section
<1>16. Enter(change, records, facts)
  BY <1>8 DEF records, change
<1> QED BY <1>9, <1>15, <1>16 DEF Begins

\* The other half of an update that moves the node.
LEMMA MovePutSection ==
    ASSUME Types, NEW p \in NodePage, MovePut(p)
    PROVE  Begins
<1> DEFINE off == Len(buf[p].item) + 1
           page == [buf[p] EXCEPT !.item = Append(@, moving)]
           r == Record("NODE_INSERT", p, off, moving)
           new == On(p, page)
<1>1. /\ off <= Cap /\ moving' = None /\ lastId' = lastId /\ moving \in NodeItem
      /\ Enter(new, <<r>>, {Added(p, off, moving)})
  BY DEF MovePut, Types, Scalars
<1>2. p \in Blk /\ PageOK(p, buf[p]) /\ buf[p].lsn <= Len(wal) /\ Len(buf[p].item) \in Nat
  BY BufferOK DEF Blk
<1>3. off \in Slot
  BY <1>1, <1>2 DEF Slot
<1>4. /\ PageOK(p, page) /\ page.lsn = buf[p].lsn /\ page.init = buf[p].init
      /\ Len(page.item) = off
  <2>1. moving \in Content(p)
    BY <1>1 DEF Content
  <2>2. page = WithItem(buf[p], moving)
    BY DEF WithItem
  <2> HIDE DEF page
  <2> QED BY <1>1, <1>2, <2>1, <2>2, PageAppend
<1>5. off = Len(buf[p].item) + 1
  OBVIOUS
<1> HIDE DEF page, off
<1>6. /\ r \in PendingRecord /\ Fits(r) /\ r.blk = p /\ r.stamp /\ ~r.force /\ IsInsert(r)
      /\ r.off = off
  BY <1>1, <1>3 DEF Record, PendingRecord, Fits, IsInsert, Slot
<1>7. DOMAIN new = {p} /\ new[p] = page
  BY DEF On
<1>8. lastId' \in Nat
  BY <1>1 DEF Types, Scalars
<1> HIDE DEF new, r
<1>9. Section(new, <<r>>)
  <2>1. \A q \in DOMAIN new : PageOK(q, new[q]) /\ new[q].lsn <= Len(wal)
    BY <1>2, <1>4, <1>7
  <2> QED BY <1>2, <1>4, <1>5, <1>6, <1>7, <2>1, SectionOfOne
<1> QED BY <1>1, <1>8, <1>9 DEF Begins

\* vacuum_relation: items become dead where they are.
LEMMA VacuumPageSection ==
    ASSUME Types, NEW p \in NodePage, VacuumPage(p)
    PROVE  Begins
<1> DEFINE dead == {i \in Items(p) : LET x == buf[p].item[i].xmax
                                     IN  /\ buf[p].item[i].lp = "normal"
                                         /\ x # 0 /\ x < xid /\ Committed(x)}
           slots == {buf[p].item[i].slot : i \in dead}
           its == [i \in Items(p) |-> IF i \in dead THEN [buf[p].item[i] EXCEPT !.lp = "dead"]
                                                    ELSE buf[p].item[i]]
           heads == [k \in Slot |-> IF k \in slots THEN NoEdges ELSE buf[p].head[k]]
           page == [buf[p] EXCEPT !.item = its, !.head = heads]
           r == [Record("NODE_COMPACT", p, 0, 0) EXCEPT !.force = TRUE]
           facts == {[kind |-> "cleared", hdr |-> <<p, k>>] : k \in slots}
           new == On(p, page)
<1>1. Enter(new, <<r>>, facts) /\ moving' = moving /\ lastId' = lastId
  BY DEF VacuumPage
<1>2. /\ p \in Blk /\ PageOK(p, buf[p]) /\ buf[p].lsn <= Len(wal)
      /\ buf[p] \in Page(p) /\ Len(buf[p].item) <= Cap
      /\ Len(buf[p].item) \in Nat /\ buf[p].item \in Seq(NodeItem)
  BY BufferOK DEF Blk, Content
<1> HIDE DEF dead
<1>3. its \in Seq(NodeItem) /\ Len(its) = Len(buf[p].item)
  <2>1. \A i \in Items(p) : buf[p].item[i] \in NodeItem
    BY <1>2 DEF Items
  <2>2. \A i \in Items(p) : its[i] \in NodeItem
    BY <2>1 DEF NodeItem
  <2>3. its = [i \in 1..Len(buf[p].item) |-> its[i]]
    BY DEF Items
  <2>4. \A i \in 1..Len(buf[p].item) : its[i] \in NodeItem
    BY <2>2 DEF Items
  <2> HIDE DEF its
  <2> QED BY <1>2, <2>3, <2>4, IsASeq
<1> HIDE DEF slots
<1>4. heads \in [Slot -> Header]
  BY <1>2 DEF Page, NoEdges, Header
<1> HIDE DEF its, heads
<1>5. /\ PageOK(p, page) /\ page.lsn = buf[p].lsn /\ page.init = buf[p].init
      /\ Len(page.item) = Len(buf[p].item)
  BY <1>2, <1>3, <1>4 DEF PageOK, Page, Content
<1>6. /\ r \in PendingRecord /\ Fits(r) /\ r.blk = p /\ r.stamp /\ ~IsInsert(r)
      /\ r.type = "NODE_COMPACT"
  <2>1. r = [type |-> "NODE_COMPACT", blk |-> p, off |-> 0, data |-> 0,
             stamp |-> TRUE, force |-> TRUE, ovf |-> FALSE]
    <3> DEFINE plain == [type |-> "NODE_COMPACT", blk |-> p, off |-> 0, data |-> 0,
                         stamp |-> TRUE, force |-> FALSE, ovf |-> FALSE]
               b == TRUE
    <3>1. r = [plain EXCEPT !.force = b]
      BY DEF Record
    <3> HIDE DEF b, r
    <3>2. b = TRUE
      BY DEF b
    <3> QED BY <3>1, <3>2
  <2> HIDE DEF r
  <2> QED BY <2>1 DEF PendingRecord, Fits, IsInsert
<1> HIDE DEF page, facts
<1>7. DOMAIN new = {p} /\ new[p] = page
  BY DEF On
<1>8. lastId' \in Nat /\ (moving' = None \/ moving' \in NodeItem)
  BY <1>1 DEF Types, Scalars
<1> HIDE DEF new, r
<1>9. Section(new, <<r>>)
  BY <1>2, <1>5, <1>6, <1>7, SectionOfOne
<1> QED BY <1>1, <1>8, <1>9, Zenon DEF Begins

\* What is known of a node that can be found.
LEMMA LiveNodeOK ==
    ASSUME Types, NEW a \in LiveNode
    PROVE  /\ a[1] \in NodePage /\ a[2] \in Items(a[1]) /\ a = <<a[1], a[2]>>
           /\ buf[a[1]].item[a[2]] \in NodeItem
           /\ <<a[1], buf[a[1]].item[a[2]].slot>> \in HdrAddr
<1>1. a[1] \in NodePage /\ a[2] \in Items(a[1]) /\ a = <<a[1], a[2]>>
  BY DEF LiveNode, HdrAddr, Live
<1>2. buf[a[1]].item[a[2]] \in NodeItem
  BY <1>1, ItemInUse DEF Content
<1>3. <<a[1], buf[a[1]].item[a[2]].slot>> \in HdrAddr
  BY <1>1, <1>2 DEF NodeItem, HdrAddr
<1> QED BY <1>1, <1>2, <1>3

\* Two elements and one more, or none.
LEMMA ThreeRecords ==
    ASSUME NEW a, NEW b, NEW c
    PROVE  <<a, b>> \o <<>> = <<a, b>> /\ <<a, b>> \o <<c>> = <<a, b, c>>
<1> DEFINE S == {a, b, c}
           cat(x, y) == x \o y
<1>1. \A x, y \in Seq(S) : /\ cat(x, y) \in Seq(S) /\ Len(cat(x, y)) = Len(x) + Len(y)
                           /\ \A k \in 1..Len(x) + Len(y) :
                                 cat(x, y)[k] = IF k <= Len(x) THEN x[k] ELSE y[k - Len(x)]
  BY ConcatProperties
<1> DEFINE u == <<a, b>>
           v == <<c>>
           w == <<a, b, c>>
<1>2. u \in Seq(S) /\ Len(u) = 2 /\ u[1] = a /\ u[2] = b
  OBVIOUS
<1>3. v \in Seq(S) /\ Len(v) = 1 /\ v[1] = c
  OBVIOUS
<1>4. w \in Seq(S) /\ Len(w) = 3 /\ w[1] = a /\ w[2] = b /\ w[3] = c
  OBVIOUS
<1> HIDE DEF S, cat, u, v, w
<1>5. /\ cat(u, v) \in Seq(S) /\ Len(cat(u, v)) = Len(u) + Len(v)
      /\ \A k \in 1..Len(u) + Len(v) : cat(u, v)[k] = IF k <= Len(u) THEN u[k] ELSE v[k - Len(u)]
  BY <1>1, <1>2, <1>3, Zenon
<1>6. Len(cat(u, v)) = 3 /\ 1 \in 1..Len(u) + Len(v) /\ 2 \in 1..Len(u) + Len(v) /\ 3 \in 1..Len(u) + Len(v)
  BY <1>2, <1>3, <1>5
<1>7. cat(u, v)[1] = u[1] /\ cat(u, v)[2] = u[2] /\ cat(u, v)[3] = v[1]
  BY <1>2, <1>3, <1>5, <1>6
<1>8. \A k \in 1..3 : cat(u, v)[k] = w[k]
  BY <1>2, <1>3, <1>4, <1>7
<1>9. cat(u, v) = w
  BY <1>4, <1>5, <1>6, <1>8, SeqEqual
<1>10. u \o <<>> = u
  BY <1>2, ConcatEmptySeq
<1> QED BY <1>9, <1>10 DEF cat, u, v, w

\* The three records of insert_edge, two for a loop: first the edge, then headers.
LEMMA EdgeRecordsOK ==
    ASSUME NEW e \in Slot, NEW i \in EdgeItem, NEW s \in HdrAddr, NEW t \in HdrAddr,
           NEW head \in [{s, t} -> Header]
    PROVE  LET records == EdgeRecords(e, i, s, t, head)
           IN  /\ records \in Seq(PendingRecord) /\ Len(records) \in 2..3
               /\ records[1].type = "EDGE_INSERT" /\ records[1].off = e
               /\ \A k \in 1..Len(records) :
                     /\ Fits(records[k]) /\ ~records[k].force
                     /\ records[k].blk = IF k = 1 THEN EdgePage ELSE IF k = 2 THEN s[1] ELSE t[1]
                     /\ k # 1 => records[k].type = "ADJ_UPDATE"
                     /\ k = 1 => records[k].stamp
<1> DEFINE r1 == Record("EDGE_INSERT", EdgePage, e, i)
           r2 == Record("ADJ_UPDATE", s[1], s[2], head[s])
           b == s[1] # t[1]
           r3 == [Record("ADJ_UPDATE", t[1], t[2], head[t]) EXCEPT !.stamp = b]
           Ok(r, p) == r \in PendingRecord /\ Fits(r) /\ ~r.force /\ r.blk = p
<1>1. s[1] \in NodePage /\ s[2] \in Slot /\ t[1] \in NodePage /\ t[2] \in Slot
      /\ head[s] \in Header /\ head[t] \in Header
  BY DEF HdrAddr
<1>2. Ok(r1, EdgePage) /\ r1.type = "EDGE_INSERT" /\ r1.off = e /\ r1.stamp
  BY DEF Record, PendingRecord, Fits, Slot
<1>3. Ok(r2, s[1]) /\ r2.type = "ADJ_UPDATE"
  BY <1>1 DEF Record, PendingRecord, Fits, Slot
<1>4. Ok(r3, t[1]) /\ r3.type = "ADJ_UPDATE"
  <2> DEFINE h == head[t]
             blk == t[1]
             slot == t[2]
             plain == [type |-> "ADJ_UPDATE", blk |-> blk, off |-> slot, data |-> h,
                       stamp |-> TRUE, force |-> FALSE, ovf |-> FALSE]
  <2>1. b \in BOOLEAN /\ h \in Header /\ blk \in NodePage /\ slot \in Slot
    BY <1>1
  <2>2. r3 = [plain EXCEPT !.stamp = b]
    BY DEF Record
  <2> HIDE DEF b, h, r3, blk, slot
  <2>3. r3 = [type |-> "ADJ_UPDATE", blk |-> blk, off |-> slot, data |-> h,
              stamp |-> b, force |-> FALSE, ovf |-> FALSE]
    BY <2>2, <2>1
  <2>4. slot \in 0..Cap
    BY <2>1 DEF Slot
  <2> QED BY <2>1, <2>3, <2>4 DEF PendingRecord, Fits, blk
<1>5. EdgeRecords(e, i, s, t, head) = IF s = t THEN <<r1, r2>> ELSE <<r1, r2, r3>>
  <2>1. EdgeRecords(e, i, s, t, head) = <<r1, r2>> \o (IF s = t THEN <<>> ELSE <<r3>>)
    BY DEF EdgeRecords
  <2> HIDE DEF r1, r2, r3
  <2>2. <<r1, r2>> \o <<>> = <<r1, r2>> /\ <<r1, r2>> \o <<r3>> = <<r1, r2, r3>>
    BY ThreeRecords
  <2> QED BY <2>1, <2>2
<1> HIDE DEF r1, r2, r3, b
<1> DEFINE records == EdgeRecords(e, i, s, t, head)
<1>6. CASE s = t
  <2>1. records = <<r1, r2>>
    BY <1>5, <1>6
  <2>2. <<r1, r2>> \in Seq(PendingRecord) /\ Len(<<r1, r2>>) = 2 /\ <<r1, r2>>[1] = r1 /\ <<r1, r2>>[2] = r2
    BY <1>2, <1>3
  <2> HIDE DEF records
  <2>3. /\ records \in Seq(PendingRecord) /\ Len(records) = 2 /\ records[1] = r1
        /\ \A k \in 1..Len(records) : (k = 1 /\ records[k] = r1) \/ (k = 2 /\ records[k] = r2)
    BY <2>1, <2>2
  <2> QED BY <2>3, <1>2, <1>3 DEF records
<1>7. CASE s # t
  <2>1. records = <<r1, r2, r3>>
    BY <1>5, <1>7
  <2>2. /\ <<r1, r2, r3>> \in Seq(PendingRecord) /\ Len(<<r1, r2, r3>>) = 3
        /\ <<r1, r2, r3>>[1] = r1 /\ <<r1, r2, r3>>[2] = r2 /\ <<r1, r2, r3>>[3] = r3
    BY <1>2, <1>3, <1>4
  <2> HIDE DEF records
  <2>3. /\ records \in Seq(PendingRecord) /\ Len(records) = 3 /\ records[1] = r1
        /\ \A k \in 1..Len(records) : \/ k = 1 /\ records[k] = r1
                                      \/ k = 2 /\ records[k] = r2
                                      \/ k = 3 /\ records[k] = r3
    BY <2>1, <2>2
  <2> QED BY <2>3, <1>2, <1>3, <1>4 DEF records
<1> QED BY <1>6, <1>7

\* insert_edge: an item on the edge page, two headers on one or two node pages.
LEMMA InsertEdgeSection ==
    ASSUME Types, NEW a \in LiveNode, NEW c \in LiveNode, InsertEdge(a, c)
    PROVE  Begins
<1> DEFINE s == <<a[1], buf[a[1]].item[a[2]].slot>>
           t == <<c[1], buf[c[1]].item[c[2]].slot>>
           e == Len(buf[EdgePage].item) + 1
           old(h) == buf[h[1]].head[h[2]]
           i == [id |-> lastId + 1, src |-> s, tgt |-> t, nextOut |-> old(s).out,
                 nextIn |-> old(t).in, xmax |-> 0, props |-> xid, lp |-> "normal"]
           head == [h \in {s, t} |-> [out |-> IF h = s THEN e ELSE old(h).out,
                                      in  |-> IF h = t THEN e ELSE old(h).in]]
           edges == [buf[EdgePage] EXCEPT !.item = Append(@, i)]
           heads(p) == [k \in Slot |-> IF <<p, k>> \in {s, t} THEN head[<<p, k>>] ELSE buf[p].head[k]]
           nodes(p) == [buf[p] EXCEPT !.head = heads(p)]
           new == [p \in {s[1], t[1], EdgePage} |-> IF p = EdgePage THEN edges ELSE nodes(p)]
           records == EdgeRecords(e, i, s, t, head)
           facts == {Added(EdgePage, e, i), Linked(s, "out", e), Linked(t, "in", e)}
<1>1. e <= Cap /\ lastId' = lastId + 1 /\ moving' = moving /\ Enter(new, records, facts)
  BY ZenonT(30) DEF InsertEdge
<1>2. s \in HdrAddr /\ t \in HdrAddr
  BY LiveNodeOK
<1> HIDE DEF s, t
<1>3. EdgePage \in Blk /\ s[1] \in NodePage /\ t[1] \in NodePage /\ s[2] \in Slot /\ t[2] \in Slot
  BY <1>2 DEF HdrAddr, Blk
<1>4. e \in Slot
  <2>1. Len(buf[EdgePage].item) \in Nat
    BY <1>3, BufferOK
  <2>2. e <= Cap
    BY <1>1, Zenon
  <2> QED BY <2>1, <2>2 DEF Slot
<1>5. \A h \in HdrAddr : old(h) \in Header
  <2> TAKE h \in HdrAddr
  <2>1. h[1] \in Blk /\ h[2] \in Slot
    BY DEF HdrAddr, Blk
  <2> QED BY <2>1, BufferOK DEF Page
<1>6. lastId \in Nat /\ xid \in Xid /\ xid \in Nat
  BY DEF Types, Scalars, Xid
<1>7. old(s).out \in 0..Cap /\ old(s).in \in 0..Cap /\ old(t).out \in 0..Cap /\ old(t).in \in 0..Cap
  BY <1>2, <1>5 DEF Header
<1> HIDE DEF e, old
<1>8. i \in EdgeItem
  BY <1>2, <1>6, <1>7 DEF EdgeItem
<1>9. head \in [{s, t} -> Header]
  BY <1>4, <1>7 DEF Header, Slot
<1> HIDE DEF i, head
<1>10. /\ PageOK(EdgePage, edges) /\ edges.lsn = buf[EdgePage].lsn /\ edges.init = buf[EdgePage].init
       /\ Len(edges.item) = e
  <2>1. EdgePage \in Blk /\ PageOK(EdgePage, buf[EdgePage]) /\ i \in Content(EdgePage)
        /\ Len(buf[EdgePage].item) + 1 <= Cap
    BY <1>1, <1>3, <1>8, BufferOK DEF Content, e
  <2> DEFINE g == buf[EdgePage]
  <2>2. /\ PageOK(EdgePage, edges) /\ edges.lsn = g.lsn /\ edges.init = g.init
        /\ Len(edges.item) = Len(g.item) + 1
    <3>1. edges = WithItem(g, i)
      BY DEF WithItem
    <3> HIDE DEF edges, g
    <3> QED BY <2>1, <3>1, PageAppend DEF g
  <2> QED BY <2>2 DEF e
<1>11. \A p \in NodePage : heads(p) \in [Slot -> Header]
  <2> TAKE p \in NodePage
  <2>1. buf[p].head \in [Slot -> Header]
    BY BufferOK DEF Blk, Page
  <2> QED BY <2>1, <1>9
<1> HIDE DEF heads
<1>12. \A p \in NodePage : /\ PageOK(p, nodes(p)) /\ nodes(p).lsn = buf[p].lsn
                           /\ nodes(p).init = buf[p].init /\ nodes(p).item = buf[p].item
  <2> TAKE p \in NodePage
  <2>1. buf[p] \in Page(p) /\ Len(buf[p].item) <= Cap
    BY BufferOK DEF Blk
  <2> QED BY <2>1, <1>11 DEF PageOK, Page
<1> HIDE DEF edges, nodes, facts
<1>13. /\ DOMAIN new = {s[1], t[1], EdgePage} /\ new[EdgePage] = edges
       /\ \A p \in DOMAIN new \ {EdgePage} : p \in NodePage /\ new[p] = nodes(p)
  BY <1>3
<1>14. /\ records \in Seq(PendingRecord) /\ Len(records) \in 2..3
       /\ records[1].type = "EDGE_INSERT" /\ records[1].off = e
       /\ \A k \in 1..Len(records) :
             /\ Fits(records[k]) /\ ~records[k].force
             /\ records[k].blk = IF k = 1 THEN EdgePage ELSE IF k = 2 THEN s[1] ELSE t[1]
             /\ k # 1 => records[k].type = "ADJ_UPDATE"
             /\ k = 1 => records[k].stamp
  BY <1>2, <1>4, <1>8, <1>9, EdgeRecordsOK
<1> HIDE DEF new, records
<1>15. \A k \in 1..Len(records) : IsInsert(records[k]) <=> k = 1
  BY <1>14 DEF IsInsert
<1>16. \A p \in DOMAIN new : Adds(records, p) <=> p = EdgePage
  BY <1>14, <1>15 DEF Adds
<1>17. Section(new, records)
  <2>1. DOMAIN new \subseteq Blk
    BY <1>3, <1>13 DEF Blk
  <2>2. \A p \in DOMAIN new : PageOK(p, new[p]) /\ new[p].lsn = buf[p].lsn /\ new[p].init = buf[p].init
    BY <1>10, <1>12, <1>13
  <2>3. \A p \in DOMAIN new : new[p].lsn <= Len(wal)
    BY <2>1, <2>2, BufferOK
  <2>4. \A k \in 1..Len(records) : Fits(records[k]) /\ records[k].blk \in DOMAIN new
    BY <1>13, <1>14
  <2>5. \A p \in DOMAIN new : Len(new[p].item) = IF Adds(records, p) THEN Len(buf[p].item) + 1
                                                                    ELSE Len(buf[p].item)
    BY <1>10, <1>12, <1>13, <1>16 DEF e
  <2>6. \A k \in 1..Len(records) :
          /\ IsInsert(records[k]) => records[k].off = Len(new[records[k].blk].item)
          /\ records[k].stamp \/ records[k].type = "ADJ_UPDATE"
          /\ records[k].force => records[k].type = "NODE_COMPACT"
    BY <1>10, <1>13, <1>14, <1>15
  <2>7. \A k, j \in 1..Len(records) :
          k # j /\ IsInsert(records[j]) /\ records[k].blk = records[j].blk =>
              k < j /\ records[k].type = "NODE_DELETE"
    BY <1>3, <1>14, <1>15
  <2> QED BY <1>14, <2>1, <2>2, <2>3, <2>4, <2>5, <2>6, <2>7 DEF Section
<1>18. (moving' = None \/ moving' \in NodeItem) /\ lastId' \in Nat
  BY <1>1, <1>6 DEF Types, Scalars
<1> HIDE DEF new, records, facts
<1> QED BY <1>1, <1>17, <1>18, Zenon DEF Begins

\* A step of the writer begins a critical section, or rewrites properties.
LEMMA WriteBegins ==
    ASSUME Types, Write
    PROVE  Begins \/ \E off \in Items(EdgePage) : UpdateProps(off)
<1>1. ASSUME NEW p \in NodePage, NEW big \in BOOLEAN, InsertNode(p, big) PROVE Begins
  BY <1>1, InsertNodeSection
<1>2. ASSUME NEW a \in LiveNode, DeleteNode(a[1], a[2]) \/ UpdateNode(a[1], a[2]) \/ MoveNode(a[1], a[2])
      PROVE  Begins
  <2>1. a[1] \in NodePage /\ a[2] \in Items(a[1])
    BY LiveNodeOK
  <2>2. CASE DeleteNode(a[1], a[2])
    <3>1. (moving' = None \/ moving' \in NodeItem) /\ lastId' = lastId
      BY <2>2 DEF DeleteNode, Types, Scalars
    <3> QED BY <2>1, <2>2, <3>1, KillSection DEF DeleteNode
  <2>3. CASE UpdateNode(a[1], a[2])
    BY <2>1, <2>3, UpdateNodeSection, ZenonT(30)
  <2>4. CASE MoveNode(a[1], a[2])
    <3>1. moving' \in NodeItem /\ lastId' = lastId
      <4>1. buf[a[1]].item[a[2]] \in NodeItem
        BY LiveNodeOK
      <4> QED BY <2>4, <4>1 DEF MoveNode, NodeItem
    <3> QED BY <2>1, <2>4, <3>1, KillSection DEF MoveNode
  <2> QED BY <1>2, <2>2, <2>3, <2>4
<1>3. ASSUME NEW p \in NodePage, MovePut(p) \/ VacuumPage(p) PROVE Begins
  BY <1>3, MovePutSection, VacuumPageSection
<1>4. ASSUME NEW a \in LiveNode, NEW c \in LiveNode, InsertEdge(a, c) PROVE Begins
  BY <1>4, InsertEdgeSection
<1>5. ASSUME NEW off \in Items(EdgePage), DeleteEdge(off) PROVE Begins
  <2>1. (moving' = None \/ moving' \in NodeItem) /\ lastId' = lastId
    BY <1>5 DEF DeleteEdge, Types, Scalars
  <2> QED BY <1>5, <2>1, KillSection DEF DeleteEdge
<1> QED BY <1>1, <1>2, <1>3, <1>4, <1>5 DEF Write

\* update_edge_props.
LEMMA UpdatePropsTypes ==
    ASSUME Types, NEW off \in Items(EdgePage), UpdateProps(off)
    PROVE  /\ Types'
           /\ \A p \in Blk : /\ buf'[p].lsn = buf[p].lsn /\ buf'[p].init = buf[p].init
                             /\ Len(buf'[p].item) = Len(buf[p].item)
           /\ dirty \subseteq dirty'
<1> DEFINE x == [buf[EdgePage].item[off] EXCEPT !.props = xid]
           its == [buf[EdgePage].item EXCEPT ![off] = x]
           page == [buf[EdgePage] EXCEPT !.item = its]
<1>1. /\ buf' = [buf EXCEPT ![EdgePage].item[off].props = xid] /\ dirty' = dirty \cup {EdgePage}
      /\ mode = "run" /\ op = None
      /\ UNCHANGED <<disk, wal, flushed, redoPtr, ckpt, todo, op, moving, xid, lastId, mode, pos, crashes, fpw>>
  BY DEF UpdateProps, Running, log, ckptVars, server
<1>2. EdgePage \in Blk /\ buf = [p \in Blk |-> buf[p]]
  BY DEF Blk, Types, Pages
<1>3. /\ buf[EdgePage] \in Page(EdgePage) /\ buf[EdgePage].item \in Seq(EdgeItem)
      /\ off \in 1..Len(buf[EdgePage].item) /\ Len(buf[EdgePage].item) <= Cap
      /\ buf[EdgePage].item[off] \in EdgeItem
  <2>1. Content(EdgePage) = EdgeItem
    BY DEF Content
  <2> QED BY <1>2, <2>1, BufferOK, ItemInUse
<1>4. x \in EdgeItem
  <2>1. xid \in Nat
    BY DEF Types, Scalars, Xid
  <2> QED BY <1>3, <2>1 DEF EdgeItem
<1>5. buf' = [buf EXCEPT ![EdgePage] = page]
  BY <1>1, <1>2
<1> HIDE DEF x
<1>6. its \in Seq(EdgeItem) /\ Len(its) = Len(buf[EdgePage].item)
  BY <1>3, <1>4, ExceptSeq
<1> HIDE DEF its
<1>7. /\ PageOK(EdgePage, page) /\ page.lsn = buf[EdgePage].lsn /\ page.init = buf[EdgePage].init
      /\ Len(page.item) = Len(buf[EdgePage].item)
  BY <1>3, <1>6 DEF PageOK, Page, Content
<1> HIDE DEF page
<1>8. \A p \in Blk : buf'[p] = IF p = EdgePage THEN page ELSE buf[p]
  BY <1>2, <1>5
<1>9. \A p \in Blk : /\ buf'[p].lsn = buf[p].lsn /\ buf'[p].init = buf[p].init
                     /\ Len(buf'[p].item) = Len(buf[p].item)
  BY <1>7, <1>8
<1>10. Pages'
  <2>1. buf' = [p \in Blk |-> buf'[p]]
    BY <1>2, <1>5
  <2>2. \A p \in Blk : PageOK(p, buf'[p])
    BY <1>7, <1>8 DEF Types, Pages
  <2>3. (\A p \in Blk : PageOK(p, buf[p]))'
    BY <2>2 DEF PageOK, Page, Content
  <2> QED BY <1>1, <1>9, <2>1, <2>3 DEF Types, Pages
<1>11. Log' /\ Points' /\ Scalars'
  BY <1>1, <1>2 DEF Types, Log, Points, Scalars
<1> QED BY <1>1, <1>9, <1>10, <1>11 DEF Types

\* Whether a record takes an image of its page.
Imaging(r) == r.force \/ (fpw /\ buf[r.blk].lsn <= redoPtr)

\* The next record of a critical section, and the images it takes.
LEMMA LogNextEntry ==
    ASSUME Types, LogNext
    PROVE  LET r == op.todo[1]
               n == Len(wal) + 1
               e == wal'[n]
           IN  /\ op # None /\ SectionOK(op) /\ Len(op.todo) >= 1 /\ mode = "run"
               /\ r \in PendingRecord /\ Fits(r) /\ r.blk \in DOMAIN op.lsn
               /\ wal' = Append(wal, e) /\ e \in LogEntry /\ EntryOK(n, e) /\ n <= MaxWal /\ n \in Nat
               /\ e.type = r.type /\ e.blk = r.blk /\ e.off = r.off /\ e.data = r.data
               /\ e.img = IF Imaging(r) THEN [buf[r.blk] EXCEPT !.lsn = n] ELSE None
               /\ op'.todo \in Seq(PendingRecord) /\ Len(op'.todo) = Len(op.todo) - 1
               /\ \A i \in 1..Len(op'.todo) : op'.todo[i] = op.todo[i + 1]
               /\ DOMAIN op'.lsn = DOMAIN op.lsn
               /\ \A p \in DOMAIN op.lsn : op'.lsn[p] \in {op.lsn[p], n}
               /\ r.stamp => op'.lsn[r.blk] = n
               /\ \A p \in DOMAIN op.lsn \ {OvfPage} : p # r.blk => op'.lsn[p] = op.lsn[p]
               /\ op' = [todo |-> op'.todo, lsn |-> op'.lsn]
               /\ op'.lsn = [p \in DOMAIN op.lsn |-> op'.lsn[p]]
<1> DEFINE r == Head(op.todo)
           n == Len(wal) + 1
           image(p) == [buf[p] EXCEPT !.lsn = n]
           img == IF Imaging(r) THEN image(r.blk) ELSE None
           ovf == IF r.ovf THEN image(OvfPage) ELSE None
           e == [type |-> r.type, blk |-> r.blk, off |-> r.off, data |-> r.data, img |-> img, ovf |-> ovf]
           stamps == [p \in DOMAIN op.lsn |->
                        IF (p = r.blk /\ r.stamp) \/ (p = OvfPage /\ r.ovf) THEN n ELSE op.lsn[p]]
<1>1. op # None /\ op.todo # <<>> /\ n <= MaxWal /\ SectionOK(op)
  BY DEF LogNext, Types, Scalars
<1>2. wal' = Append(wal, e) /\ op' = [op EXCEPT !.todo = Tail(@), !.lsn = stamps]
  BY <1>1 DEF LogNext, Imaging, SectionOK
<1>3. op' = [todo |-> Tail(op.todo), lsn |-> stamps]
  BY <1>1, <1>2 DEF SectionOK
<1>4. /\ op.todo \in Seq(PendingRecord) /\ r = op.todo[1] /\ Len(op.todo) >= 1 /\ r \in PendingRecord
      /\ Tail(op.todo) \in Seq(PendingRecord) /\ Len(Tail(op.todo)) = Len(op.todo) - 1
      /\ \A i \in 1..Len(Tail(op.todo)) : Tail(op.todo)[i] = op.todo[i + 1]
  <2>1. op.todo \in Seq(PendingRecord)
    BY <1>1 DEF SectionOK
  <2>2. Len(op.todo) \in Nat /\ Len(op.todo) # 0
    BY <1>1, <2>1, EmptySeq
  <2> QED BY <1>1, <2>1, <2>2, HeadTailProperties
<1>5. Fits(r) /\ r.blk \in DOMAIN op.lsn /\ r.blk \in Blk
  <2>1. 1 \in 1..Len(op.todo)
    BY <1>4
  <2> QED BY <1>1, <1>4, <2>1 DEF SectionOK
<1>6. wal \in Seq(LogEntry) /\ n \in Nat /\ Len(wal) \in Nat /\ n \in Lsn
  BY <1>1 DEF Types, Log, Lsn
<1> HIDE DEF r, n
<1>7. \A p \in Blk : PageOK(p, image(p)) /\ image(p).lsn = n /\ image(p) \in Page(p)
  <2> TAKE p \in Blk
  <2>1. buf[p] \in Page(p) /\ Len(buf[p].item) <= Cap
    BY BufferOK
  <2> QED BY <1>6, <2>1 DEF PageOK, Page
<1> HIDE DEF image
<1>8. OvfPage \in Blk
  BY DEF Blk
<1>9. ImageOK(n, r.blk, img) /\ ImageOK(n, OvfPage, ovf) /\ img \in AnyImage /\ ovf \in AnyImage
  BY <1>5, <1>7, <1>8 DEF ImageOK, AnyImage
<1> HIDE DEF img, ovf
<1>10. e \in LogEntry /\ EntryOK(n, e)
  <2>1. e \in LogEntry
    BY <1>4, <1>9 DEF PendingRecord, LogEntry
  <2>2. Fits(e)
    BY <1>5 DEF Fits
  <2> QED BY <1>9, <2>1, <2>2 DEF EntryOK
<1>11. e.type = r.type /\ e.blk = r.blk /\ e.off = r.off /\ e.data = r.data /\ e.img = img
  OBVIOUS
<1> HIDE DEF e
<1>12. wal'[n] = e
  BY <1>2, <1>6, <1>10, AppendProperties DEF n
<1>13. mode = "run"
  BY <1>1 DEF Types, Points
<1>14. /\ DOMAIN stamps = DOMAIN op.lsn /\ stamps = [p \in DOMAIN op.lsn |-> stamps[p]]
       /\ \A p \in DOMAIN op.lsn : stamps[p] \in {op.lsn[p], n}
       /\ r.stamp => stamps[r.blk] = n
       /\ \A p \in DOMAIN op.lsn \ {OvfPage} : p # r.blk => stamps[p] = op.lsn[p]
  BY <1>5
<1> HIDE DEF stamps
<1>15. op'.todo = Tail(op.todo) /\ op'.lsn = stamps
  BY <1>3
<1>16. e.img = IF Imaging(r) THEN [buf[r.blk] EXCEPT !.lsn = n] ELSE None
  BY <1>11 DEF img, image
<1> QED BY <1>1, <1>2, <1>3, <1>4, <1>5, <1>6, <1>10, <1>11, <1>12, <1>13, <1>14, <1>15, <1>16 DEF n

\* A record is appended to the WAL.
LEMMA LogAppend ==
    ASSUME Types, NEW e \in LogEntry, EntryOK(Len(wal) + 1, e), wal' = Append(wal, e)
    PROVE  /\ Log' /\ Len(wal') = Len(wal) + 1 /\ Len(wal) \in Nat /\ wal'[Len(wal) + 1] = e
           /\ \A n \in 1..Len(wal) : wal'[n] = wal[n]
<1>1. wal \in Seq(LogEntry) /\ Len(wal) \in Nat
  BY DEF Types, Log
<1>2. /\ wal' \in Seq(LogEntry) /\ Len(wal') = Len(wal) + 1 /\ wal'[Len(wal) + 1] = e
      /\ \A n \in 1..Len(wal) : wal'[n] = wal[n]
  BY <1>1, AppendProperties
<1>3. \A n \in 1..Len(wal') : EntryOK(n, wal'[n])
  <2> TAKE n \in 1..Len(wal')
  <2>1. CASE n = Len(wal) + 1
    BY <2>1, <1>2
  <2>2. CASE n \in 1..Len(wal)
    BY <2>2, <1>2 DEF Types, Log
  <2> QED BY <1>1, <1>2, <2>1, <2>2
<1>4. (\A n \in 1..Len(wal) : EntryOK(n, wal[n]))'
  BY <1>3 DEF EntryOK, ImageOK, PageOK, Page, Content, Fits
<1> QED BY <1>1, <1>2, <1>4 DEF Log

\* A record of a critical section.
LEMMA LogNextTypes == ASSUME Types, LogNext PROVE Types'
<1> DEFINE e == wal'[Len(wal) + 1]
<1>1. /\ op # None /\ SectionOK(op) /\ mode = "run"
      /\ wal' = Append(wal, e) /\ e \in LogEntry /\ EntryOK(Len(wal) + 1, e) /\ Len(wal) + 1 <= MaxWal
      /\ op'.todo \in Seq(PendingRecord) /\ Len(op'.todo) = Len(op.todo) - 1
      /\ \A i \in 1..Len(op'.todo) : op'.todo[i] = op.todo[i + 1]
      /\ DOMAIN op'.lsn = DOMAIN op.lsn
      /\ \A p \in DOMAIN op.lsn : op'.lsn[p] \in {op.lsn[p], Len(wal) + 1}
      /\ op' = [todo |-> op'.todo, lsn |-> op'.lsn]
      /\ op'.lsn = [p \in DOMAIN op.lsn |-> op'.lsn[p]]
  BY LogNextEntry, Zenon
<1>2. UNCHANGED <<buf, dirty, disk, flushed, redoPtr, ckpt, todo, moving, xid, lastId, mode, pos, crashes, fpw>>
  BY DEF LogNext, pages, ckptVars, client, server
<1> HIDE DEF e
<1>3. Log' /\ Len(wal') = Len(wal) + 1 /\ Len(wal) \in Nat
  BY <1>1, LogAppend
<1>4. Pages'
  <2>1. \A p \in Blk : disk[p].lsn <= flushed /\ buf[p].lsn <= Len(wal')
    <3> TAKE p \in Blk
    <3>1. buf[p].lsn \in Nat /\ buf[p].lsn <= Len(wal) /\ disk[p].lsn <= flushed
      BY BufferOK DEF Types, Pages, Page, Lsn
    <3> QED BY <3>1, <1>3
  <2> QED BY <1>2, <2>1 DEF Types, Pages, PageOK, Page, Content
<1>5. Points'
  BY <1>1, <1>2, <1>3 DEF Types, Points
<1>6. SectionOK(op)'
  <2>1. op.todo \in Seq(PendingRecord) /\ Len(op.todo) \in Nat /\ Len(op'.todo) \in Nat
    BY <1>1 DEF SectionOK
  <2>2. \A i \in 1..Len(op'.todo) : i + 1 \in 1..Len(op.todo)
    BY <1>1, <2>1
  <2>3. \A i \in 1..Len(op'.todo) : Fits(op'.todo[i]) /\ op'.todo[i].blk \in DOMAIN op'.lsn
    BY <1>1, <2>2 DEF SectionOK
  <2>4. DOMAIN op'.lsn \subseteq Blk
    BY <1>1 DEF SectionOK
  <2>5. op'.lsn \in [DOMAIN op'.lsn -> 0..Len(wal')]
    <3>1. \A p \in DOMAIN op.lsn : op.lsn[p] \in 0..Len(wal)
      BY <1>1 DEF SectionOK
    <3>2. \A p \in DOMAIN op.lsn : op'.lsn[p] \in 0..Len(wal')
      <4> TAKE p \in DOMAIN op.lsn
      <4>1. op'.lsn[p] = op.lsn[p] \/ op'.lsn[p] = Len(wal) + 1
        BY <1>1
      <4> QED BY <1>3, <3>1, <4>1
    <3> QED BY <1>1, <3>2
  <2>6. (\A i \in 1..Len(op.todo) : Fits(op.todo[i]) /\ op.todo[i].blk \in DOMAIN op.lsn)'
    BY <2>3 DEF Fits
  <2> QED BY <1>1, <2>4, <2>5, <2>6 DEF SectionOK
<1>7. Scalars'
  BY <1>1, <1>2, <1>6 DEF Types, Scalars
<1> QED BY <1>3, <1>4, <1>5, <1>7 DEF Types

\* What a critical section leaves on its pages.
LEMMA OpEndPages ==
    ASSUME Types, OpEnd
    PROVE  /\ op # None /\ SectionOK(op) /\ mode = "run" /\ op' = None
           /\ dirty' = dirty \cup DOMAIN op.lsn
           /\ UNCHANGED <<disk, wal, flushed, redoPtr, ckpt, todo, moving, xid, lastId, mode, pos, crashes, fpw>>
           /\ buf' = [p \in Blk |-> buf'[p]]
           /\ \A p \in Blk \ DOMAIN op.lsn : buf'[p] = buf[p]
           /\ \A p \in DOMAIN op.lsn : /\ buf'[p].lsn = op.lsn[p] /\ buf'[p].init = buf[p].init
                                       /\ buf'[p].item = buf[p].item
           /\ \A p \in Blk : PageOK(p, buf'[p]) /\ buf'[p].lsn <= Len(wal)
<1>1. /\ op # None /\ SectionOK(op) /\ mode = "run" /\ op' = None
      /\ buf' = [p \in Blk |-> IF p \in DOMAIN op.lsn THEN [buf[p] EXCEPT !.lsn = op.lsn[p]] ELSE buf[p]]
      /\ dirty' = dirty \cup DOMAIN op.lsn
      /\ UNCHANGED <<disk, wal, flushed, redoPtr, ckpt, todo, moving, xid, lastId, mode, pos, crashes, fpw>>
  BY DEF OpEnd, Types, Scalars, Points, log, ckptVars, client, server
<1>2. \A p \in DOMAIN op.lsn : p \in Blk /\ op.lsn[p] \in 0..Len(wal)
  BY <1>1 DEF SectionOK
<1>3. Len(wal) \in Nat /\ Len(wal) <= MaxWal
  BY DEF Types, Log, Points
<1>4. \A p \in Blk : PageOK(p, buf[p]) /\ buf[p] \in Page(p) /\ buf[p].lsn <= Len(wal)
  BY BufferOK
<1>5. ASSUME NEW p \in DOMAIN op.lsn
      PROVE  /\ PageOK(p, buf'[p]) /\ buf'[p].lsn = op.lsn[p] /\ buf'[p].init = buf[p].init
             /\ buf'[p].item = buf[p].item
  <2>1. buf'[p] = [buf[p] EXCEPT !.lsn = op.lsn[p]] /\ buf[p] \in Page(p) /\ op.lsn[p] \in Lsn
    BY <1>1, <1>2, <1>3, <1>4 DEF Lsn
  <2> QED BY <1>2, <1>4, <2>1 DEF PageOK, Page
<1>6. ASSUME NEW p \in Blk \ DOMAIN op.lsn PROVE buf'[p] = buf[p]
  BY <1>1
<1>7. \A p \in Blk : PageOK(p, buf'[p]) /\ buf'[p].lsn <= Len(wal)
  <2> TAKE p \in Blk
  <2>1. CASE p \in DOMAIN op.lsn
    BY <1>2, <1>3, <1>5, <2>1
  <2>2. CASE p \notin DOMAIN op.lsn
    BY <1>4, <1>6, <2>2
  <2> QED BY <2>1, <2>2
<1>8. buf' = [p \in Blk |-> buf'[p]]
  BY <1>1
<1> QED BY <1>1, <1>5, <1>6, <1>7, <1>8

\* The end of a critical section: the pages get LSNs of records in the WAL.
LEMMA OpEndTypes == ASSUME Types, OpEnd PROVE Types'
<1> /\ SectionOK(op) /\ mode = "run" /\ op' = None /\ dirty' = dirty \cup DOMAIN op.lsn
    /\ UNCHANGED <<disk, wal, flushed, redoPtr, ckpt, todo, moving, xid, lastId, mode, pos, crashes, fpw>>
    /\ buf' = [p \in Blk |-> buf'[p]]
    /\ \A p \in Blk : PageOK(p, buf'[p]) /\ buf'[p].lsn <= Len(wal)
  BY OpEndPages, Zenon
<1>1. Pages'
  BY DEF Types, Pages, PageOK, Page, Content
<1>2. Log'
  BY DEF Types, Log
<1>3. Points'
  BY DEF Types, Points, SectionOK
<1>4. Scalars'
  BY DEF Types, Scalars
<1> QED BY <1>1, <1>2, <1>3, <1>4 DEF Types

\* A commit record.
LEMMA CommitTypes == ASSUME Types, Commit PROVE Types'
<1>1. /\ wal' = Append(wal, CommitOf(xid)) /\ xid' = xid + 1 /\ xid < MaxXid /\ Len(wal) < MaxWal
      /\ mode = "run" /\ op = None
      /\ UNCHANGED <<buf, disk, dirty, flushed, redoPtr, ckpt, todo, op, moving, lastId, mode, pos, crashes, fpw>>
  BY DEF Commit, Running, pages, ckptVars, server
<1>2. CommitOf(xid) \in LogEntry /\ EntryOK(Len(wal) + 1, CommitOf(xid))
  BY DEF CommitOf, LogEntry, EntryOK, Types, Scalars
<1>3. Log' /\ Len(wal') = Len(wal) + 1 /\ Len(wal) \in Nat
  BY <1>1, <1>2, LogAppend
<1>4. Pages'
  <2>1. \A p \in Blk : disk[p].lsn <= flushed /\ buf[p].lsn <= Len(wal')
    <3> TAKE p \in Blk
    <3>1. buf[p].lsn \in Nat /\ buf[p].lsn <= Len(wal) /\ disk[p].lsn <= flushed
      BY BufferOK DEF Types, Pages, Page, Lsn
    <3> QED BY <3>1, <1>3
  <2> QED BY <1>1, <2>1 DEF Types, Pages, PageOK, Page, Content
<1>5. Points'
  BY <1>1, <1>3 DEF Types, Points
<1>6. xid' \in Xid
  BY <1>1 DEF Types, Scalars, Xid
<1>7. op' = op /\ (op = None \/ SectionOK(op)')
  BY <1>1
<1>8. Scalars'
  BY <1>1, <1>6, <1>7 DEF Types, Scalars
<1> QED BY <1>3, <1>4, <1>5, <1>8 DEF Types

\* A page is written to disk.
LEMMA WritePageFacts ==
    ASSUME Types, NEW p \in Blk, WritePage(p)
    PROVE  /\ p \in dirty /\ (op # None => p \notin DOMAIN op.lsn)
           /\ disk' = [disk EXCEPT ![p] = buf[p]] /\ dirty' = dirty \ {p}
           /\ flushed' \in Nat /\ flushed' >= flushed /\ flushed' >= buf[p].lsn /\ flushed' <= Len(wal)
           /\ todo' = IF todo = None THEN None ELSE todo \ {p}
           /\ UNCHANGED <<buf, wal, redoPtr, ckpt, op, moving, xid, lastId, mode, pos, crashes, fpw>>
<1>1. /\ p \in dirty /\ (op # None => p \notin DOMAIN op.lsn)
      /\ disk' = [disk EXCEPT ![p] = buf[p]] /\ dirty' = dirty \ {p}
      /\ flushed' = Max({flushed, buf[p].lsn})
      /\ todo' = IF todo = None THEN None ELSE todo \ {p}
      /\ UNCHANGED <<buf, wal, redoPtr, ckpt, op, moving, xid, lastId, mode, pos, crashes, fpw>>
  BY DEF WritePage, client, server
<1>2. flushed \in Nat /\ buf[p].lsn \in Nat /\ flushed <= Len(wal) /\ buf[p].lsn <= Len(wal)
  BY BufferOK DEF Types, Points, Page, Lsn
<1>3. flushed' \in {flushed, buf[p].lsn} /\ flushed' >= flushed /\ flushed' >= buf[p].lsn
  BY <1>1, <1>2, MaxOfTwo
<1> QED BY <1>1, <1>2, <1>3

\* A page goes to disk after the WAL up to its LSN.
LEMMA WritePageTypes == ASSUME Types, NEW p \in Blk, WritePage(p) PROVE Types'
<1>1. /\ p \in dirty
      /\ disk' = [disk EXCEPT ![p] = buf[p]] /\ dirty' = dirty \ {p}
      /\ flushed' \in Nat /\ flushed' >= flushed /\ flushed' >= buf[p].lsn /\ flushed' <= Len(wal)
      /\ todo' = IF todo = None THEN None ELSE todo \ {p}
      /\ UNCHANGED <<buf, wal, redoPtr, ckpt, op, moving, xid, lastId, mode, pos, crashes, fpw>>
  BY WritePageFacts, Zenon
<1>2. disk' = [q \in Blk |-> disk'[q]] /\ \A q \in Blk : disk'[q] = IF q = p THEN buf[p] ELSE disk[q]
  BY <1>1 DEF Types, Pages
<1>3. \A q \in Blk : disk[q].lsn \in Nat /\ buf[q].lsn \in Nat /\ disk[q].lsn <= flushed /\ flushed \in Nat
  BY DEF Types, Pages, PageOK, Page, Lsn, Points
<1>4. \A q \in Blk : disk'[q].lsn <= flushed'
  BY <1>1, <1>2, <1>3
<1>5. \A q \in Blk : PageOK(q, disk'[q])
  BY <1>2 DEF Types, Pages
<1>6. Pages'
  BY <1>1, <1>2, <1>4, <1>5 DEF Types, Pages, PageOK, Page, Content
<1>7. Log'
  BY <1>1 DEF Types, Log
<1>8. Points'
  <2>1. mode # "run" => flushed' = Len(wal)
    BY <1>1 DEF Types, Points
  <2> QED BY <1>1, <2>1 DEF Types, Points
<1>9. Scalars'
  BY <1>1 DEF Types, Scalars, SectionOK
<1> QED BY <1>6, <1>7, <1>8, <1>9 DEF Types

\* The beginning and the end of a checkpoint.
LEMMA CheckpointTypes == ASSUME Types, CheckpointBegin \/ CheckpointEnd PROVE Types'
<1>1. CASE CheckpointBegin
  <2>1. /\ redoPtr' = Len(wal) /\ todo' = dirty /\ redoPtr < Len(wal) /\ mode = "run"
        /\ UNCHANGED <<buf, disk, dirty, wal, flushed, ckpt, op, moving, xid, lastId, mode, pos, crashes, fpw>>
    BY <1>1 DEF CheckpointBegin, Running, pages, log, client, server
  <2>2. Pages' /\ Log'
    BY <2>1 DEF Types, Pages, Log, PageOK, Page, Content
  <2>3. Points'
    BY <2>1 DEF Types, Points, Log
  <2>4. Scalars'
    BY <2>1 DEF Types, Scalars, SectionOK
  <2> QED BY <2>2, <2>3, <2>4 DEF Types
<1>2. CASE CheckpointEnd
  <2>1. /\ todo' = None /\ ckpt' = redoPtr /\ flushed' = Max({flushed, redoPtr}) /\ mode = "run"
        /\ UNCHANGED <<buf, disk, dirty, wal, redoPtr, op, moving, xid, lastId, mode, pos, crashes, fpw>>
    BY <1>2 DEF CheckpointEnd, pages, client, server
  <2>2. flushed \in 0..Len(wal) /\ redoPtr \in Nat /\ redoPtr <= Len(wal) /\ Len(wal) \in Nat
    BY DEF Types, Points, Log
  <2>3. flushed' \in {flushed, redoPtr} /\ flushed' >= flushed /\ flushed' >= redoPtr
    BY <2>1, <2>2, MaxOfTwo
  <2>4. \A p \in Blk : disk[p].lsn \in Nat /\ disk[p].lsn <= flushed'
    BY <2>2, <2>3 DEF Types, Pages, PageOK, Page, Lsn
  <2>5. Pages' /\ Log'
    BY <2>1, <2>4 DEF Types, Pages, Log, PageOK, Page, Content
  <2>6. Points'
    BY <2>1, <2>2, <2>3 DEF Types, Points
  <2>7. Scalars'
    BY <2>1 DEF Types, Scalars, SectionOK
  <2> QED BY <2>5, <2>6, <2>7 DEF Types
<1> QED BY <1>1, <1>2

\* A crash: no page on disk is newer than what is left of the WAL.
LEMMA CrashTypes == ASSUME Types, NEW n \in 0..Len(wal), Crash(n) PROVE Types'
<1>1. /\ n >= flushed /\ crashes < MaxCrash /\ crashes' = crashes + 1
      /\ buf' = disk /\ dirty' = {} /\ wal' = SubSeq(wal, 1, n) /\ flushed' = n
      /\ mode' = "redo" /\ pos' = ckpt /\ redoPtr' = ckpt /\ todo' = None
      /\ op' = None /\ moving' = None
      /\ xid' = IF mode = "run" /\ xid < MaxXid THEN xid + 1 ELSE xid
      /\ UNCHANGED <<disk, ckpt, lastId, fpw>>
  BY DEF Crash
<1>2. wal \in Seq(LogEntry) /\ Len(wal) \in Nat /\ n \in Nat /\ n <= Len(wal)
  BY DEF Types, Log
<1>3. wal' \in Seq(LogEntry) /\ Len(wal') = n /\ \A i \in 1..n : wal'[i] = wal[i]
  <2>1. \A i \in 1..n : wal[i] \in LogEntry
    BY <1>2
  <2> QED BY <1>1, <1>2, <2>1, SubSeqProperties
<1>4. Log'
  <2>1. \A i \in 1..n : EntryOK(i, wal'[i])
    BY <1>2, <1>3 DEF Types, Log
  <2>2. (\A i \in 1..Len(wal) : EntryOK(i, wal[i]))'
    BY <1>3, <2>1 DEF EntryOK, ImageOK, PageOK, Page, Content, Fits
  <2> QED BY <1>3, <2>2 DEF Log
<1>5. Pages'
  <2>1. \A p \in Blk : disk[p].lsn <= n
    <3> TAKE p \in Blk
    <3>1. disk[p].lsn \in Nat /\ disk[p].lsn <= flushed /\ flushed \in Nat
      BY DEF Types, Pages, PageOK, Page, Lsn, Points
    <3> QED BY <1>1, <1>2, <3>1
  <2> QED BY <1>1, <1>3, <2>1 DEF Types, Pages, PageOK, Page, Content
<1>6. Points'
  BY <1>1, <1>2, <1>3 DEF Types, Points
<1>7. xid' \in Xid
  BY <1>1 DEF Types, Scalars, Xid
<1>8. pos' \in Lsn /\ pos' <= Len(wal')
  BY <1>1, <1>2, <1>3 DEF Types, Points, Lsn
<1>9. Scalars'
  BY <1>1, <1>7, <1>8 DEF Types, Scalars
<1> QED BY <1>4, <1>5, <1>6, <1>9 DEF Types

\* Redo of one record on one page: it adds an item or changes some in place.
Redone(r, page, n) == [RedoPage(r, page) EXCEPT !.lsn = n]

LEMMA RedoPageOK ==
    ASSUME NEW r, NEW page, Fits(r), PageOK(r.blk, page), ~RedoFails(r, page), NEW n \in Lsn
    PROVE  LET new == Redone(r, page, n)
           IN  /\ PageOK(r.blk, new) /\ new.lsn = n /\ new.init = page.init
               /\ Len(new.item) = IF IsInsert(r) THEN Len(page.item) + 1 ELSE Len(page.item)
<1> DEFINE done == RedoPage(r, page)
           Ok(g) == /\ PageOK(r.blk, g) /\ g.init = page.init
                    /\ Len(g.item) = IF IsInsert(r) THEN Len(page.item) + 1 ELSE Len(page.item)
<1>1. r.blk \in NodePage \cup {EdgePage} /\ r.blk \in Blk
  BY DEF Fits, Blk
<1>2. page \in Page(r.blk) /\ Len(page.item) <= Cap /\ Len(page.item) \in Nat
  BY DEF PageOK, Page
<1>3. Ok(done)
  <2>1. CASE IsInsert(r)
    <3>1. r.data \in Content(r.blk) /\ r.off \in Slot /\ r.off = Len(page.item) + 1
      BY <2>1 DEF IsInsert, Fits, Content, RedoFails
    <3>2. Len(page.item) + 1 <= Cap
      BY <3>1 DEF Slot
    <3>3. done = WithItem(page, r.data)
      BY <2>1 DEF IsInsert, RedoPage, RedoInsert, WithItem
    <3> HIDE DEF done
    <3> QED BY <1>1, <2>1, <3>1, <3>2, <3>3, PageAppend
  <2>2. CASE r.type \in {"NODE_DELETE", "EDGE_DELETE"}
    <3>1. r.data \in Xid /\ ~IsInsert(r)
      BY <2>2 DEF Fits, IsInsert
    <3>2. done = RedoDelete(page, r.off, r.data)
      BY <2>2 DEF RedoPage
    <3>3. CASE r.off \in 1..Len(page.item) /\ page.item[r.off].lp = "normal"
      <4>1. done = Killed(page, r.off, r.data)
        BY <3>2, <3>3 DEF RedoDelete, Killed
      <4>2. r.data \in Xid \cup {0}
        BY <3>1
      <4> HIDE DEF done
      <4> QED BY <1>1, <3>1, <3>3, <4>1, <4>2, PageKill
    <3>4. CASE ~(r.off \in 1..Len(page.item) /\ page.item[r.off].lp = "normal")
      <4>1. done = page
        BY <3>2, <3>4 DEF RedoDelete
      <4> QED BY <3>1, <4>1
    <3> QED BY <3>3, <3>4
  <2>3. CASE r.type = "ADJ_UPDATE"
    <3>1. r.off \in Slot /\ r.data \in Header /\ ~IsInsert(r)
      BY <2>3 DEF Fits, IsInsert
    <3>2. done = [page EXCEPT !.head[r.off] = r.data]
      BY <2>3 DEF RedoPage, RedoAdjUpdate
    <3>3. [page.head EXCEPT ![r.off] = r.data] \in [Slot -> Header]
      BY <1>2, <3>1 DEF Page
    <3> DEFINE h == [page.head EXCEPT ![r.off] = r.data]
    <3>4. done = [page EXCEPT !.head = h]
      BY <3>2
    <3> HIDE DEF h, done
    <3> QED BY <1>2, <3>1, <3>3, <3>4 DEF PageOK, Page, h
  <2>4. CASE r.type = "NODE_COMPACT"
    <3>1. done = page /\ ~IsInsert(r)
      BY <2>4 DEF RedoPage, IsInsert
    <3> QED BY <3>1
  <2> QED BY <2>1, <2>2, <2>3, <2>4 DEF Fits, IsInsert
<1> HIDE DEF done
<1>4. done \in Page(r.blk)
  BY <1>3 DEF PageOK
<1>5. /\ [done EXCEPT !.lsn = n] \in Page(r.blk) /\ [done EXCEPT !.lsn = n].lsn = n
      /\ [done EXCEPT !.lsn = n].init = done.init /\ [done EXCEPT !.lsn = n].item = done.item
  BY <1>4 DEF Page
<1>6. /\ PageOK(r.blk, [done EXCEPT !.lsn = n])
      /\ Len([done EXCEPT !.lsn = n].item) = Len(done.item)
  BY <1>3, <1>5 DEF PageOK
<1>7. Redone(r, page, n) = [done EXCEPT !.lsn = n]
  BY DEF Redone, done
<1> QED BY <1>3, <1>5, <1>6, <1>7

\* What recovery makes of page p when it replays the n-th record.
Restored(p, n) == LET r == wal[n] IN
    IF p = r.blk THEN IF r.img # None THEN r.img
                      ELSE IF NeedsRedo(n, buf[p]) THEN [RedoPage(r, buf[p]) EXCEPT !.lsn = n]
                      ELSE buf[p]
    ELSE IF p = OvfPage /\ r.ovf # None THEN r.ovf ELSE buf[p]

\* A step of recovery: a failure, a commit record, or another record, whose page
\* is replaced, changed or new enough.
LEMMA RedoNextFacts ==
    ASSUME Types, RedoNext
    PROVE  LET n == pos + 1
               r == wal[n]
               fails == /\ r.type # "COMMIT" /\ r.img = None
                        /\ NeedsRedo(n, buf[r.blk]) /\ RedoFails(r, buf[r.blk])
           IN  /\ mode = "redo" /\ n \in 1..Len(wal) /\ n \in Lsn /\ EntryOK(n, r)
               /\ op = None /\ todo = None
               /\ UNCHANGED <<disk, wal, flushed, redoPtr, ckpt, todo, op, moving, xid, lastId, crashes, fpw>>
               /\ fails => pos' = pos /\ mode' = "failed" /\ buf' = buf /\ dirty' = dirty
               /\ ~fails => pos' = n /\ mode' = "redo"
               /\ r.type = "COMMIT" => buf' = buf /\ dirty' = dirty
               /\ ~fails /\ r.type # "COMMIT" =>
                     /\ buf' = [p \in Blk |-> Restored(p, n)]
                     /\ dirty' = dirty \cup {p \in Blk : Restored(p, n) # buf[p]}
                     /\ r.img = None /\ NeedsRedo(n, buf[r.blk]) => ~RedoFails(r, buf[r.blk])
<1> DEFINE n == pos + 1
           r == wal[n]
           fails == /\ r.type # "COMMIT" /\ r.img = None
                    /\ NeedsRedo(n, buf[r.blk]) /\ RedoFails(r, buf[r.blk])
           replay(p) ==
              CASE p = r.blk /\ r.img # None -> r.img
                [] p = OvfPage /\ r.ovf # None -> r.ovf
                [] p = r.blk /\ r.img = None /\ NeedsRedo(n, buf[p]) -> [RedoPage(r, buf[p]) EXCEPT !.lsn = n]
                [] OTHER -> buf[p]
<1>1. /\ mode = "redo" /\ pos < Len(wal)
      /\ pos' = IF fails THEN pos ELSE n
      /\ mode' = IF fails THEN "failed" ELSE mode
      /\ IF r.type = "COMMIT" \/ fails THEN UNCHANGED <<buf, dirty>>
         ELSE /\ buf' = [p \in Blk |-> replay(p)]
              /\ dirty' = dirty \cup {p \in Blk : replay(p) # buf[p]}
      /\ UNCHANGED <<disk, wal, flushed, redoPtr, ckpt, todo, op, moving, xid, lastId, crashes, fpw>>
  BY DEF RedoNext, log, ckptVars, client
<1>2. pos \in Nat /\ Len(wal) \in Nat /\ Len(wal) <= MaxWal
  BY DEF Types, Scalars, Log, Points, Lsn
<1>3. n \in 1..Len(wal) /\ n \in Lsn
  BY <1>1, <1>2 DEF Lsn
<1>4. EntryOK(n, r)
  BY <1>3 DEF Types, Log
<1>5. op = None /\ todo = None
  BY <1>1 DEF Types, Points
<1>6. ASSUME r.type # "COMMIT", NEW p \in Blk PROVE replay(p) = Restored(p, n)
  <2>1. r.blk # OvfPage
    BY <1>4, <1>6 DEF EntryOK, Fits
  <2> HIDE DEF r, n
  <2>2. CASE p = r.blk
    BY <2>1, <2>2 DEF Restored, r
  <2>3. CASE p # r.blk
    BY <2>1, <2>3 DEF Restored, r
  <2> QED BY <2>2, <2>3
<1> HIDE DEF replay, n
<1>7. ASSUME ~fails, r.type # "COMMIT"
      PROVE  /\ buf' = [p \in Blk |-> Restored(p, n)]
             /\ dirty' = dirty \cup {p \in Blk : Restored(p, n) # buf[p]}
  BY <1>1, <1>6, <1>7
<1> HIDE DEF r
<1>8. fails => r.type # "COMMIT"
  OBVIOUS
<1>9. r.img = None /\ NeedsRedo(n, buf[r.blk]) /\ ~fails /\ r.type # "COMMIT" => ~RedoFails(r, buf[r.blk])
  OBVIOUS
<1> HIDE DEF fails
<1>10. /\ fails => pos' = pos /\ mode' = "failed" /\ buf' = buf /\ dirty' = dirty
       /\ ~fails => pos' = n /\ mode' = "redo"
       /\ r.type = "COMMIT" => buf' = buf /\ dirty' = dirty
  BY <1>1
<1> QED BY <1>1, <1>3, <1>4, <1>5, <1>7, <1>9, <1>10 DEF n, r, fails

\* What recovery makes of a page is a page.
LEMMA RestoredOK ==
    ASSUME Types, RedoNext, wal[pos + 1].type # "COMMIT", mode' # "failed", NEW p \in Blk
    PROVE  /\ PageOK(p, Restored(p, pos + 1)) /\ Restored(p, pos + 1).lsn <= Len(wal)
           /\ Restored(p, pos + 1) = buf[p] \/ Restored(p, pos + 1).lsn = pos + 1
<1> DEFINE n == pos + 1
           r == wal[n]
           fails == /\ r.type # "COMMIT" /\ r.img = None
                    /\ NeedsRedo(n, buf[r.blk]) /\ RedoFails(r, buf[r.blk])
<1>1. /\ n \in 1..Len(wal) /\ n \in Lsn /\ EntryOK(n, r)
      /\ fails => mode' = "failed"
      /\ ~fails /\ r.type # "COMMIT" =>
           (r.img = None /\ NeedsRedo(n, buf[r.blk]) => ~RedoFails(r, buf[r.blk]))
  BY RedoNextFacts, Zenon
<1>2. Fits(r) /\ ImageOK(n, r.blk, r.img) /\ ImageOK(n, OvfPage, r.ovf)
  BY <1>1 DEF EntryOK
<1>3. PageOK(p, buf[p]) /\ buf[p].lsn <= Len(wal) /\ Len(wal) \in Nat
  BY BufferOK
<1>4. n <= Len(wal)
  BY <1>1, <1>3
<1> HIDE DEF r, n
<1>5. ~fails
  BY <1>1
<1>6. r.img = None /\ NeedsRedo(n, buf[r.blk]) => ~RedoFails(r, buf[r.blk])
  BY <1>1, <1>5 DEF r, n
<1> HIDE DEF fails
<1> DEFINE g == Restored(p, n)
           Ok == PageOK(p, g) /\ g.lsn <= Len(wal) /\ (g = buf[p] \/ g.lsn = n)
<1>7. CASE p = r.blk /\ r.img # None
  <2>1. g = r.img
    BY <1>7 DEF Restored, r
  <2>2. Ok
    BY <1>2, <1>4, <1>7, <2>1 DEF ImageOK
  <2> QED BY <2>2 DEF n
<1>8. CASE p = r.blk /\ r.img = None /\ NeedsRedo(n, buf[p])
  <2>1. g = Redone(r, buf[p], n)
    BY <1>8 DEF Restored, Redone, r
  <2>2. PageOK(p, g) /\ g.lsn = n
    BY <1>1, <1>2, <1>3, <1>6, <1>8, <2>1, RedoPageOK
  <2>3. Ok
    BY <1>4, <2>2
  <2> QED BY <2>3 DEF n
<1>9. CASE p # r.blk /\ p = OvfPage /\ r.ovf # None
  <2>1. g = r.ovf
    BY <1>9 DEF Restored, r
  <2>2. Ok
    BY <1>2, <1>4, <1>9, <2>1 DEF ImageOK
  <2> QED BY <2>2 DEF n
<1>10. CASE \/ p = r.blk /\ r.img = None /\ ~NeedsRedo(n, buf[p])
            \/ p # r.blk /\ ~(p = OvfPage /\ r.ovf # None)
  <2>1. g = buf[p]
    BY <1>10 DEF Restored, r
  <2>2. Ok
    BY <1>3, <2>1
  <2> QED BY <2>2 DEF n
<1> QED BY <1>7, <1>8, <1>9, <1>10

\* One record is replayed.
LEMMA RedoNextTypes == ASSUME Types, RedoNext PROVE Types'
<1> DEFINE n == pos + 1
           r == wal[n]
           fails == /\ r.type # "COMMIT" /\ r.img = None
                    /\ NeedsRedo(n, buf[r.blk]) /\ RedoFails(r, buf[r.blk])
<1>1. /\ mode = "redo" /\ n \in 1..Len(wal) /\ n \in Lsn
      /\ op = None /\ todo = None
      /\ UNCHANGED <<disk, wal, flushed, redoPtr, ckpt, todo, op, moving, xid, lastId, crashes, fpw>>
      /\ fails => pos' = pos /\ mode' = "failed" /\ buf' = buf /\ dirty' = dirty
      /\ ~fails => pos' = n /\ mode' = "redo"
      /\ r.type = "COMMIT" => buf' = buf /\ dirty' = dirty
      /\ ~fails /\ r.type # "COMMIT" =>
            /\ buf' = [p \in Blk |-> Restored(p, n)]
            /\ dirty' = dirty \cup {p \in Blk : Restored(p, n) # buf[p]}
  BY RedoNextFacts, Zenon
<1>2. \/ buf' = buf /\ dirty' = dirty
      \/ /\ mode' # "failed" /\ r.type # "COMMIT"
         /\ buf' = [p \in Blk |-> Restored(p, n)]
         /\ dirty' = dirty \cup {p \in Blk : Restored(p, n) # buf[p]}
  BY <1>1
<1>3. /\ buf' = [p \in Blk |-> buf'[p]] /\ dirty \subseteq dirty' /\ dirty' \subseteq Blk
      /\ \A p \in Blk : PageOK(p, buf'[p]) /\ buf'[p].lsn <= Len(wal)
  <2>1. CASE buf' = buf /\ dirty' = dirty
    BY <2>1 DEF Types, Pages, Points
  <2>2. CASE /\ mode' # "failed" /\ r.type # "COMMIT"
             /\ buf' = [p \in Blk |-> Restored(p, n)]
             /\ dirty' = dirty \cup {p \in Blk : Restored(p, n) # buf[p]}
    <3>1. \A p \in Blk : PageOK(p, Restored(p, n)) /\ Restored(p, n).lsn <= Len(wal)
      BY <2>2, RestoredOK
    <3>2. dirty \subseteq Blk
      BY DEF Types, Points
    <3> HIDE DEF n
    <3> QED BY <2>2, <3>1, <3>2
  <2> QED BY <1>2, <2>1, <2>2
<1>4. mode' \in {"redo", "failed"} /\ pos' \in {pos, n}
  BY <1>1
<1> HIDE DEF fails, r
<1>5. Pages'
  BY <1>1, <1>3 DEF Types, Pages, PageOK, Page, Content
<1>6. Log'
  BY <1>1 DEF Types, Log
<1>7. pos' \in Lsn /\ pos' <= Len(wal) /\ ckpt <= pos'
  BY <1>1, <1>4 DEF Types, Points, Scalars, Log, Lsn
<1>8. Points'
  BY <1>1, <1>3, <1>4, <1>7 DEF Types, Points
<1>9. Scalars'
  BY <1>1, <1>4, <1>7 DEF Types, Scalars
<1> QED BY <1>5, <1>6, <1>8, <1>9 DEF Types

\* The end of recovery.
LEMMA RedoEndTypes == ASSUME Types, RedoEnd PROVE Types'
<1>1. /\ mode = "redo" /\ pos = Len(wal) /\ mode' = "run"
      /\ disk' = buf /\ dirty' = {} /\ ckpt' = Len(wal) /\ redoPtr' = Len(wal)
      /\ UNCHANGED <<buf, wal, flushed, todo, op, moving, xid, lastId, pos, crashes, fpw>>
  BY DEF RedoEnd, log, client
<1>2. op = None /\ todo = None /\ flushed = Len(wal) /\ Len(wal) \in Nat
  BY <1>1 DEF Types, Points, Log
<1>3. Pages'
  BY <1>1, <1>2 DEF Types, Pages, PageOK, Page, Content
<1>4. Log'
  BY <1>1 DEF Types, Log
<1>5. Points'
  BY <1>1, <1>2 DEF Types, Points
<1>6. Scalars'
  BY <1>1, <1>2 DEF Types, Scalars
<1> QED BY <1>3, <1>4, <1>5, <1>6 DEF Types

\* Every step.
LEMMA NextTypes == ASSUME Types, [Next]_vars PROVE Types'
<1>1. CASE Write
  <2>1. CASE Begins
    BY <2>1, EnterTypes DEF Begins
  <2>2. CASE \E off \in Items(EdgePage) : UpdateProps(off)
    BY <2>2, UpdatePropsTypes
  <2> QED BY <1>1, <2>1, <2>2, WriteBegins
<1>2. CASE LogNext
  BY <1>2, LogNextTypes
<1>3. CASE OpEnd
  BY <1>3, OpEndTypes
<1>4. CASE Commit
  BY <1>4, CommitTypes, Zenon
<1>5. ASSUME NEW p \in Blk, WritePage(p) PROVE Types'
  BY <1>5, WritePageTypes, Zenon
<1>6. CASE CheckpointBegin \/ CheckpointEnd
  BY <1>6, CheckpointTypes, Zenon
<1>7. ASSUME NEW n \in 0..Len(wal), Crash(n) PROVE Types'
  BY <1>7, CrashTypes, Zenon
<1>8. CASE RedoNext
  BY <1>8, RedoNextTypes, Zenon
<1>9. CASE RedoEnd
  BY <1>9, RedoEndTypes, Zenon
<1>10. CASE UNCHANGED vars
  BY <1>10 DEF vars, pages, log, ckptVars, client, server, Types, Pages, Log, Points, Scalars,
               PageOK, Page, Content, EntryOK, ImageOK, Fits, SectionOK
<1> QED BY <1>1, <1>2, <1>3, <1>4, <1>5, <1>6, <1>7, <1>8, <1>9, <1>10 DEF Next

\* Every variable has its type; no page in shared buffers is newer than the WAL,
\* and no page on disk newer than the WAL on disk (WAL before data).
THEOREM TypeCorrect == Spec => []TypeOK
<1>1. Types => TypeOK
  BY DEF Types, Pages, Log, Points, Scalars, TypeOK
<1> QED BY <1>1, InitTypes, NextTypes, PTL DEF Spec

-----------------------------------------------------------------------------
(* Versions of pages, separators and the offsets of inserts                *)

\* The pages to which records add items.
Counted == NodePage \cup {EdgePage}

\* A separator is a record after which its page may have more items than before:
\* an insert, or a deletion whose image already has the item of the insert that
\* follows it.
IsSeparator(r, p) ==
    /\ r.type # "COMMIT" /\ r.blk = p
    /\ IsInsert(r) \/ (r.type = "NODE_DELETE" /\ r.img # None)
Separators(p) == {n \in 1..Len(wal) : IsSeparator(wal[n], p)}

\* A version of a page is an LSN and a number of items: what is in a file, in a
\* buffer unless a critical section works on it, in an image, and what an insert
\* without an image leaves.
Counts(r, p) == r.type # "COMMIT" /\ r.blk = p /\ (r.img # None \/ IsInsert(r))
CountOf(r) == IF r.img # None THEN Len(r.img.item) ELSE r.off
Logged(p) == {<<n, CountOf(wal[n])>> : n \in {m \in 1..Len(wal) : Counts(wal[m], p)}}
Of(page) == <<page.lsn, Len(page.item)>>
InOp(p) == op # None /\ p \in DOMAIN op.lsn
Versions(p) == Logged(p) \cup {Of(disk[p])} \cup (IF InOp(p) THEN {} ELSE {Of(buf[p])})

\* The inserts without an image, which redo has to apply.
Plain(p) == {<<n, wal[n].off>> : n \in {m \in 1..Len(wal) :
                Counts(wal[m], p) /\ wal[m].img = None}}

\* With no separator in between, two versions have as many items, and an insert
\* adds the next one.
Clear(S, a, b) == \A n \in S : ~(a < n /\ n <= b)
Agree(S, V) == \A v, w \in V : v[1] <= w[1] /\ Clear(S, v[1], w[1]) => v[2] = w[2]
Follow(S, V, I) ==
    \A v \in V, i \in I : v[1] < i[1] /\ Clear(S, v[1], i[1] - 1) => i[2] = v[2] + 1

\* The versions with no separator after them have so many items.
Tip(S, V, c) == \A v \in V : (\A n \in S : n <= v[1]) => v[2] = c

\* A critical section on a page: whether records take images is settled by its
\* beginning, as no checkpoint comes in between.
Takes(p) == fpw /\ buf[p].lsn <= redoPtr
Pending(p) ==
    /\ buf[p].lsn <= op.lsn[p]
    /\ IF Adds(op.todo, p) THEN Takes(p) \/ Tip(Separators(p), Versions(p), Len(buf[p].item) - 1)
       ELSE Tip(Separators(p), Versions(p), Len(buf[p].item))

\* The LSN the page has, or will have after the critical section.
Stamp(p) == IF InOp(p) THEN op.lsn[p] ELSE buf[p].lsn

Initialised(p) ==
    /\ buf[p].init /\ disk[p].init
    /\ \A n \in 1..Len(wal) : Counts(wal[n], p) /\ wal[n].img # None => wal[n].img.init

\* No separator is lost: the file has those up to the last checkpoint, and those
\* up to the next one unless it has yet to write the page; a page has all of them,
\* during recovery those that have been replayed.
Kept(p) ==
    /\ p \notin dirty => buf[p].lsn = disk[p].lsn
    /\ Clear(Separators(p), disk[p].lsn, ckpt)
    /\ todo # None /\ p \notin todo => Clear(Separators(p), disk[p].lsn, redoPtr)
    /\ mode = "run"  => Clear(Separators(p), Stamp(p), Len(wal))
    /\ mode = "redo" => Clear(Separators(p), buf[p].lsn, pos)

Counting(p) ==
    /\ Initialised(p) /\ Kept(p)
    /\ Agree(Separators(p), Versions(p)) /\ Follow(Separators(p), Versions(p), Plain(p))
    /\ InOp(p) => Pending(p)

\* What is left of a critical section.
Rest ==
    op # None =>
        /\ \A i \in 1..Len(op.todo) :
              /\ IsInsert(op.todo[i]) => op.todo[i].off = Len(buf[op.todo[i].blk].item)
              /\ op.todo[i].stamp \/ op.todo[i].type = "ADJ_UPDATE"
              /\ op.todo[i].force => op.todo[i].type = "NODE_COMPACT"
        /\ \A i, j \in 1..Len(op.todo) :
              i # j /\ IsInsert(op.todo[j]) /\ op.todo[i].blk = op.todo[j].blk =>
                  i < j /\ op.todo[i].type = "NODE_DELETE"

Replayable == Types /\ mode # "failed" /\ Rest /\ \A p \in Counted : Counting(p)

-----------------------------------------------------------------------------
(* Versions, inserts and separators as sets of numbers                     *)

\* Fewer versions and inserts, and the separators up to some record.
LEMMA Fewer ==
    ASSUME NEW S \in SUBSET Nat, NEW V \in SUBSET (Nat \X Nat), NEW I \in SUBSET (Nat \X Nat),
           NEW m \in Nat, NEW S2, NEW V2, NEW I2, Agree(S, V), Follow(S, V, I),
           S2 = {n \in S : n <= m}, V2 \subseteq V, I2 \subseteq I,
           \A v \in V2 : v[1] <= m, \A i \in I2 : i[1] <= m
    PROVE  Agree(S2, V2) /\ Follow(S2, V2, I2)
<1>1. ASSUME NEW v \in V2, NEW w \in V2, v[1] <= w[1], Clear(S2, v[1], w[1])
      PROVE  v[2] = w[2]
  <2>1. Clear(S, v[1], w[1])
    BY <1>1 DEF Clear
  <2> QED BY <1>1, <2>1 DEF Agree
<1>2. ASSUME NEW v \in V2, NEW i \in I2, v[1] < i[1], Clear(S2, v[1], i[1] - 1)
      PROVE  i[2] = v[2] + 1
  <2>1. Clear(S, v[1], i[1] - 1)
    BY <1>2 DEF Clear
  <2> QED BY <1>2, <2>1 DEF Follow
<1> QED BY <1>1, <1>2 DEF Agree, Follow

\* A separator comes last, and with it a version, which may be an insert.
LEMMA NewItem ==
    ASSUME NEW S \in SUBSET Nat, NEW V \in SUBSET (Nat \X Nat), NEW I \in SUBSET (Nat \X Nat),
           NEW n \in Nat, NEW c \in Nat, NEW I2, Agree(S, V), Follow(S, V, I),
           \A k \in S : k < n, \A v \in V : v[1] < n, \A i \in I : i[1] < n,
           I2 \subseteq I \cup {<<n, c>>},
           <<n, c>> \in I2 => Tip(S, V, c - 1)
    PROVE  /\ Agree(S \cup {n}, V \cup {<<n, c>>}) /\ Follow(S \cup {n}, V \cup {<<n, c>>}, I2)
           /\ Tip(S \cup {n}, V \cup {<<n, c>>}, c)
<1> DEFINE S2 == S \cup {n}
           V2 == V \cup {<<n, c>>}
<1>1. \A v \in V2 : v[1] \in Nat /\ v[2] \in Nat /\ v[1] <= n /\ (v \notin V => v[1] = n /\ v[2] = c)
  OBVIOUS
<1> HIDE DEF V2
<1>2. ASSUME NEW v \in V2, NEW w \in V2, v[1] <= w[1], Clear(S2, v[1], w[1])
      PROVE  v[2] = w[2]
  <2>1. CASE w \in V
    <3>1. w[1] < n /\ v \in V
      BY <1>1, <1>2, <2>1
    <3>2. Clear(S, v[1], w[1])
      BY <1>2 DEF Clear
    <3> QED BY <1>2, <2>1, <3>1, <3>2 DEF Agree
  <2>2. CASE w \notin V
    <3>1. w[1] = n /\ ~(v[1] < n)
      BY <1>1, <1>2, <2>2 DEF Clear
    <3>2. v \notin V
      BY <3>1
    <3> QED BY <1>1, <2>2, <3>2
  <2> QED BY <2>1, <2>2
<1>3. ASSUME NEW v \in V2, NEW i \in I2, v[1] < i[1], Clear(S2, v[1], i[1] - 1)
      PROVE  i[2] = v[2] + 1
  <2>1. i[1] <= n /\ i[1] \in Nat /\ i[2] \in Nat /\ (i \in I \/ i = <<n, c>>)
    OBVIOUS
  <2>2. v \in V
    BY <1>1, <1>3, <2>1
  <2>3. Clear(S, v[1], i[1] - 1)
    BY <1>3 DEF Clear
  <2>4. CASE i \in I
    BY <1>3, <2>2, <2>3, <2>4 DEF Follow
  <2>5. CASE i = <<n, c>>
    <3>1. \A k \in S : k <= v[1]
      <4> TAKE k \in S
      <4>1. ~(v[1] < k /\ k <= n - 1) /\ k < n /\ k \in Nat /\ v[1] \in Nat
        BY <1>1, <2>3, <2>5 DEF Clear
      <4> QED BY <4>1
    <3>2. v[2] = c - 1
      BY <2>2, <2>5, <3>1 DEF Tip
    <3> QED BY <2>5, <3>2
  <2> QED BY <2>1, <2>4, <2>5
<1>4. ASSUME NEW v \in V2, \A k \in S2 : k <= v[1] PROVE v[2] = c
  <2>1. n <= v[1]
    BY <1>4
  <2> QED BY <1>1, <2>1
<1> QED BY <1>2, <1>3, <1>4 DEF Agree, Follow, Tip, V2

\* A version with as many items as those that come after the last separator.
LEMMA NewVersion ==
    ASSUME NEW S \in SUBSET Nat, NEW V \in SUBSET (Nat \X Nat), NEW I \in SUBSET (Nat \X Nat),
           NEW n \in Nat, NEW c \in Nat, Agree(S, V), Follow(S, V, I), Tip(S, V, c),
           \A k \in S : k <= n, \A i \in I : i[1] \in S
    PROVE  /\ Agree(S, V \cup {<<n, c>>}) /\ Follow(S, V \cup {<<n, c>>}, I)
           /\ Tip(S, V \cup {<<n, c>>}, c)
<1> DEFINE V2 == V \cup {<<n, c>>}
<1>1. \A v \in V2 : v[1] \in Nat /\ v[2] \in Nat /\ (v \notin V => v[1] = n /\ v[2] = c)
  OBVIOUS
<1> HIDE DEF V2
<1>2. ASSUME NEW v \in V2, NEW w \in V2, v[1] <= w[1], Clear(S, v[1], w[1])
      PROVE  v[2] = w[2]
  <2>1. CASE v \in V /\ w \in V
    BY <1>2, <2>1 DEF Agree
  <2>2. CASE v \notin V
    <3>1. \A k \in S : k <= w[1]
      BY <1>1, <1>2, <2>2
    <3> QED BY <1>1, <2>2, <3>1 DEF Tip
  <2>3. CASE v \in V /\ w \notin V
    <3>1. \A k \in S : k <= v[1]
      <4> TAKE k \in S
      <4>1. ~(v[1] < k /\ k <= n) /\ k <= n /\ k \in Nat /\ v[1] \in Nat
        BY <1>1, <1>2, <2>3 DEF Clear
      <4> QED BY <4>1
    <3> QED BY <1>1, <2>3, <3>1 DEF Tip
  <2> QED BY <2>1, <2>2, <2>3
<1>3. ASSUME NEW v \in V2, NEW i \in I, v[1] < i[1], Clear(S, v[1], i[1] - 1)
      PROVE  i[2] = v[2] + 1
  <2>1. v \in V
    <3> SUFFICES ASSUME v \notin V PROVE FALSE
      OBVIOUS
    <3>1. v[1] = n /\ i[1] \in S /\ i[1] <= n
      BY <1>1
    <3> QED BY <1>3, <3>1
  <2> QED BY <1>3, <2>1 DEF Follow
<1>4. ASSUME NEW v \in V2, \A k \in S : k <= v[1] PROVE v[2] = c
  BY <1>1, <1>4 DEF Tip
<1> QED BY <1>2, <1>3, <1>4 DEF Agree, Follow, Tip, V2

\* A version gets a later LSN, with no separator in between.
LEMMA LaterVersion ==
    ASSUME NEW S \in SUBSET Nat, NEW V \in SUBSET (Nat \X Nat), NEW I \in SUBSET (Nat \X Nat),
           NEW l \in Nat, NEW n \in Nat, NEW c \in Nat, Agree(S, V), Follow(S, V, I),
           <<l, c>> \in V, l <= n, Clear(S, l, n)
    PROVE  Agree(S, V \cup {<<n, c>>}) /\ Follow(S, V \cup {<<n, c>>}, I)
<1> DEFINE V2 == V \cup {<<n, c>>}
<1>1. \A v \in V2 : v[1] \in Nat /\ v[2] \in Nat /\ (v \notin V => v[1] = n /\ v[2] = c)
  OBVIOUS
<1>2. \A b \in Int : Clear(S, n, b) => Clear(S, l, b)
  <2> TAKE b \in Int
  <2> HAVE Clear(S, n, b)
  <2>1. ASSUME NEW k \in S, l < k, k <= b PROVE FALSE
    BY <2>1 DEF Clear
  <2> QED BY <2>1 DEF Clear
<1>3. \A v, w \in V : v[1] <= w[1] /\ Clear(S, v[1], w[1]) => v[2] = w[2]
  BY DEF Agree
<1> DEFINE x == <<l, c>>
<1>4. x \in V /\ x[1] = l /\ x[2] = c
  OBVIOUS
<1> HIDE DEF V2, x
<1>5. ASSUME NEW v \in V2, NEW w \in V2, v[1] <= w[1], Clear(S, v[1], w[1])
      PROVE  v[2] = w[2]
  <2>1. CASE v \in V /\ w \in V
    BY <1>5, <2>1 DEF Agree
  <2>2. CASE v \notin V /\ w \notin V
    BY <1>1, <2>2
  <2>3. CASE v \notin V /\ w \in V
    <3>1. Clear(S, l, w[1]) /\ l <= w[1]
      BY <1>1, <1>2, <1>5, <2>3
    <3>2. c = w[2]
      BY <1>3, <1>4, <2>3, <3>1
    <3> QED BY <1>1, <2>3, <3>2
  <2>4. CASE v \in V /\ w \notin V
    <3>1. w[1] = n /\ w[2] = c /\ v[1] \in Nat /\ v[1] <= n /\ Clear(S, v[1], n)
      BY <1>1, <1>5, <2>4
    <3>2. CASE v[1] <= l
      <4>1. Clear(S, v[1], l)
        BY <3>1 DEF Clear
      <4> QED BY <1>3, <1>4, <2>4, <3>1, <3>2, <4>1
    <3>3. CASE l <= v[1]
      <4>1. Clear(S, l, v[1])
        BY <3>1 DEF Clear
      <4> QED BY <1>3, <1>4, <2>4, <3>1, <3>3, <4>1
    <3> QED BY <3>1, <3>2, <3>3
  <2> QED BY <2>1, <2>2, <2>3, <2>4
<1>6. ASSUME NEW v \in V2, NEW i \in I, v[1] < i[1], Clear(S, v[1], i[1] - 1)
      PROVE  i[2] = v[2] + 1
  <2>1. CASE v \in V
    BY <1>6, <2>1 DEF Follow
  <2>2. CASE v \notin V
    <3>1. i[1] \in Nat /\ l < i[1] /\ Clear(S, l, i[1] - 1)
      BY <1>1, <1>2, <1>6, <2>2
    <3> QED BY <1>1, <1>4, <2>2, <3>1 DEF Follow
  <2> QED BY <2>1, <2>2
<1> QED BY <1>5, <1>6 DEF Agree, Follow, V2

\* The version after the last separator, and so all that come after it.
LEMMA TipOf ==
    ASSUME NEW S \in SUBSET Nat, NEW V \in SUBSET (Nat \X Nat), NEW m \in Nat, Agree(S, V),
           NEW x \in V, \A k \in S : k <= m, Clear(S, x[1], m)
    PROVE  Tip(S, V, x[2])
<1> SUFFICES ASSUME NEW v \in V, \A k \in S : k <= v[1] PROVE v[2] = x[2]
  BY DEF Tip
<1>1. \A k \in S : k <= x[1]
  <2> TAKE k \in S
  <2>1. ~(x[1] < k /\ k <= m) /\ k <= m /\ k \in Nat /\ x[1] \in Nat
    BY DEF Clear
  <2> QED BY <2>1
<1>2. Clear(S, v[1], x[1]) /\ Clear(S, x[1], v[1])
  <2>1. x[1] \in Nat /\ v[1] \in Nat /\ \A k \in S : k \in Nat
    OBVIOUS
  <2> QED BY <1>1, <2>1 DEF Clear
<1>3. v[1] <= x[1] \/ x[1] <= v[1]
  <2>1. x[1] \in Nat /\ v[1] \in Nat
    OBVIOUS
  <2> QED BY <2>1
<1> QED BY <1>2, <1>3 DEF Agree

-----------------------------------------------------------------------------
(* The sets of a page                                                      *)

\* Pages to which records add items are pages, and no overflow blocks.
LEMMA CountedPages ==
    /\ Counted \subseteq Blk /\ OvfPage \notin Counted
    /\ \A r : Fits(r) => r.blk \in Counted
BY DEF Counted, Blk, Fits

\* What a page counts for a version.
LEMMA OfPage ==
    ASSUME NEW p, NEW page, PageOK(p, page)
    PROVE  Of(page) \in Nat \X Nat /\ Of(page) = <<page.lsn, Len(page.item)>>
BY DEF Of, PageOK, Page, Lsn

\* What a record that counts says.
LEMMA CountedRecord ==
    ASSUME Types, NEW p \in Counted, NEW n \in 1..Len(wal), Counts(wal[n], p)
    PROVE  /\ CountOf(wal[n]) \in Nat /\ n \in Nat /\ Fits(wal[n]) /\ wal[n].blk = p
           /\ wal[n].img # None => wal[n].img.lsn = n /\ PageOK(p, wal[n].img)
           /\ wal[n].img = None => IsInsert(wal[n]) /\ wal[n].off \in Nat
<1> DEFINE r == wal[n]
<1>1. EntryOK(n, r)
  BY DEF Types, Log
<1>2. r.type # "COMMIT" /\ r.blk = p /\ (r.img # None \/ IsInsert(r)) /\ n \in Nat
  BY DEF Counts
<1> HIDE DEF r
<1>3. Fits(r) /\ ImageOK(n, p, r.img)
  BY <1>1, <1>2 DEF EntryOK
<1>4. CASE r.img # None
  <2>1. PageOK(p, r.img) /\ r.img.lsn = n
    BY <1>3, <1>4 DEF ImageOK
  <2>2. Len(r.img.item) \in Nat
    BY <2>1 DEF PageOK, Page
  <2> QED BY <1>2, <1>3, <1>4, <2>1, <2>2 DEF CountOf, r
<1>5. CASE r.img = None
  <2>1. IsInsert(r) /\ r.off \in Nat
    BY <1>2, <1>3, <1>5 DEF IsInsert, Fits, Slot
  <2> QED BY <1>2, <1>3, <1>5, <2>1 DEF CountOf, r
<1> QED BY <1>4, <1>5

\* Versions, inserts and separators are in the WAL.
LEMMA SetsOK ==
    ASSUME Types, NEW p \in Counted
    PROVE  /\ Len(wal) \in Nat /\ Separators(p) \in SUBSET Nat /\ \A k \in Separators(p) : k <= Len(wal)
           /\ Versions(p) \in SUBSET (Nat \X Nat) /\ \A v \in Versions(p) : v[1] <= Len(wal)
           /\ Plain(p) \in SUBSET (Nat \X Nat) /\ \A i \in Plain(p) : i[1] \in Separators(p)
<1>1. Len(wal) \in Nat
  BY DEF Types, Log
<1>2. Separators(p) \in SUBSET Nat /\ \A k \in Separators(p) : k <= Len(wal)
  BY <1>1 DEF Separators
<1>3. Logged(p) \in SUBSET (Nat \X Nat) /\ \A v \in Logged(p) : v[1] <= Len(wal)
  <2> SUFFICES ASSUME NEW n \in 1..Len(wal), Counts(wal[n], p)
               PROVE  <<n, CountOf(wal[n])>> \in Nat \X Nat /\ n <= Len(wal)
    BY <1>1 DEF Logged
  <2> QED BY <1>1, CountedRecord
<1>4. p \in Blk /\ PageOK(p, buf[p]) /\ PageOK(p, disk[p]) /\ buf[p].lsn <= Len(wal)
      /\ disk[p].lsn <= flushed /\ flushed \in Nat /\ flushed <= Len(wal)
  BY CountedPages DEF Types, Pages, Points
<1>5. Of(buf[p]) \in Nat \X Nat /\ Of(disk[p]) \in Nat \X Nat
      /\ Of(buf[p])[1] <= Len(wal) /\ Of(disk[p])[1] <= Len(wal)
  <2>1. disk[p].lsn \in Nat
    BY <1>4 DEF PageOK, Page, Lsn
  <2> QED BY <1>1, <1>4, <2>1, OfPage
<1>6. Versions(p) \in SUBSET (Nat \X Nat) /\ \A v \in Versions(p) : v[1] <= Len(wal)
  BY <1>3, <1>5 DEF Versions
<1>7. ASSUME NEW n \in 1..Len(wal), Counts(wal[n], p), wal[n].img = None
      PROVE  <<n, wal[n].off>> \in Nat \X Nat /\ n \in Separators(p)
  BY <1>7, CountedRecord DEF Separators, IsSeparator, Counts
<1>8. Plain(p) \in SUBSET (Nat \X Nat) /\ \A i \in Plain(p) : i[1] \in Separators(p)
  BY <1>7 DEF Plain
<1> QED BY <1>1, <1>2, <1>6, <1>8

\* A record is appended.
LEMMA Appended ==
    ASSUME Types, NEW p, NEW e, Len(wal') = Len(wal) + 1, wal'[Len(wal) + 1] = e,
           \A k \in 1..Len(wal) : wal'[k] = wal[k]
    PROVE  LET n == Len(wal) + 1
           IN  /\ Separators(p)' = Separators(p) \cup (IF IsSeparator(e, p) THEN {n} ELSE {})
               /\ Logged(p)' = Logged(p) \cup (IF Counts(e, p) THEN {<<n, CountOf(e)>>} ELSE {})
               /\ Plain(p)' = Plain(p) \cup (IF Counts(e, p) /\ e.img = None THEN {<<n, e.off>>} ELSE {})
<1> DEFINE n == Len(wal) + 1
<1>1. Len(wal) \in Nat
  BY DEF Types, Log
<1>2. 1..Len(wal') = 1..Len(wal) \cup {n}
  BY <1>1
<1>3. wal'[n] = e
  OBVIOUS
<1> HIDE DEF n
<1>4. Separators(p)' = {k \in 1..Len(wal') : IsSeparator(wal'[k], p)}
  BY DEF Separators, IsSeparator, IsInsert
<1>5. Separators(p)' = Separators(p) \cup (IF IsSeparator(e, p) THEN {n} ELSE {})
  <2> DEFINE P(r) == IsSeparator(r, p)
  <2> HIDE DEF P
  <2>1. {k \in 1..Len(wal') : P(wal'[k])} = {k \in 1..Len(wal) : P(wal[k])} \cup (IF P(e) THEN {n} ELSE {})
    BY <1>2, <1>3
  <2> QED BY <1>4, <2>1 DEF P, Separators
<1>6. Logged(p)' = {<<k, CountOf(wal'[k])>> : k \in {m \in 1..Len(wal') : Counts(wal'[m], p)}}
  BY DEF Logged, Counts, CountOf, IsInsert
<1>7. Logged(p)' = Logged(p) \cup (IF Counts(e, p) THEN {<<n, CountOf(e)>>} ELSE {})
  <2> DEFINE P(r) == Counts(r, p)
             F(r) == CountOf(r)
  <2> HIDE DEF P, F
  <2>1. {<<k, F(wal'[k])>> : k \in {m \in 1..Len(wal') : P(wal'[m])}}
          = {<<k, F(wal[k])>> : k \in {m \in 1..Len(wal) : P(wal[m])}} \cup (IF P(e) THEN {<<n, F(e)>>} ELSE {})
    BY <1>2, <1>3
  <2> QED BY <1>6, <2>1 DEF P, F, Logged
<1>8. Plain(p)' = {<<k, wal'[k].off>> : k \in {m \in 1..Len(wal') : Counts(wal'[m], p) /\ wal'[m].img = None}}
  BY DEF Plain, Counts, IsInsert
<1>9. Plain(p)' = Plain(p) \cup (IF Counts(e, p) /\ e.img = None THEN {<<n, e.off>>} ELSE {})
  <2> DEFINE P(r) == Counts(r, p) /\ r.img = None
             F(r) == r.off
  <2> HIDE DEF P, F
  <2>1. {<<k, F(wal'[k])>> : k \in {m \in 1..Len(wal') : P(wal'[m])}}
          = {<<k, F(wal[k])>> : k \in {m \in 1..Len(wal) : P(wal[m])}} \cup (IF P(e) THEN {<<n, F(e)>>} ELSE {})
    BY <1>2, <1>3
  <2> QED BY <1>8, <2>1 DEF P, F, Plain
<1> QED BY <1>5, <1>7, <1>9 DEF n

\* The WAL stays the same.
LEMMA SameWal ==
    ASSUME NEW p, wal' = wal
    PROVE  Separators(p)' = Separators(p) /\ Logged(p)' = Logged(p) /\ Plain(p)' = Plain(p)
BY DEF Separators, IsSeparator, Logged, Counts, CountOf, Plain, IsInsert

\* The images in the WAL stay the same.
LEMMA SameImages ==
    ASSUME NEW p, wal' = wal, Initialised(p), buf'[p].init, disk'[p].init
    PROVE  Initialised(p)'
BY DEF Initialised, Counts, IsInsert

-----------------------------------------------------------------------------
(* The steps                                                               *)

\* In the beginning every page has one version.
LEMMA InitReplayable == Init => Replayable
<1> SUFFICES ASSUME Init PROVE Replayable
  OBVIOUS
<1>1. Types /\ Rest /\ mode # "failed"
  BY InitTypes DEF Init, Rest
<1>2. ASSUME NEW p \in Counted PROVE Counting(p)
  <2>1. Len(wal) = 0 /\ op = None /\ buf = disk /\ todo = None /\ mode = "run" /\ ckpt = 0
    BY DEF Init
  <2>2. Separators(p) = {} /\ Logged(p) = {} /\ Plain(p) = {} /\ Versions(p) = {Of(buf[p])} /\ ~InOp(p)
    BY <2>1 DEF Separators, Logged, Plain, Versions, InOp
  <2>3. p \in Blk /\ p # OvfPage
    BY CountedPages
  <2>4. buf[p].init
    BY <2>1, <2>3 DEF Init, Counted, ZeroPage
  <2>5. Initialised(p) /\ Kept(p)
    BY <2>1, <2>2, <2>4 DEF Initialised, Kept, Clear
  <2> QED BY <2>2, <2>5 DEF Counting, Agree, Follow
<1> QED BY <1>1, <1>2 DEF Replayable

\* What a critical section starts with.
LEMMA EnterFacts ==
    ASSUME Types, NEW new, NEW records, NEW facts, Enter(new, records, facts), Section(new, records)
    PROVE  /\ mode = "run" /\ op = None /\ op' # None
           /\ op'.todo = records /\ DOMAIN op'.lsn = DOMAIN new
           /\ \A p \in DOMAIN new : op'.lsn[p] = buf[p].lsn /\ buf'[p] = new[p]
           /\ \A p \in Blk \ DOMAIN new : buf'[p] = buf[p]
           /\ UNCHANGED <<dirty, disk, wal, redoPtr, ckpt, todo, mode, pos, fpw>>
<1>1. /\ mode = "run" /\ op = None
      /\ buf' = [p \in Blk |-> IF p \in DOMAIN new THEN new[p] ELSE buf[p]]
      /\ op' = [todo |-> records, lsn |-> [p \in DOMAIN new |-> buf[p].lsn]]
      /\ UNCHANGED <<dirty, disk, wal, redoPtr, ckpt, todo, mode, pos, fpw>>
  BY DEF Enter, Running, log, ckptVars, server
<1>2. DOMAIN new \subseteq Blk /\ records \in Seq(PendingRecord)
  BY DEF Section
<1>3. \A p \in DOMAIN new : buf[p].lsn \in Lsn
  BY <1>2, BufferOK DEF Page
<1>4. op' \in CriticalSection(DOMAIN new)
  BY <1>1, <1>2, <1>3 DEF CriticalSection
<1>5. op' # None
  BY <1>2, <1>4, NoneAssumption
<1> QED BY <1>1, <1>2, <1>5

\* A critical section begins: the page's version is no more, and a record that
\* adds an item will find that there was one less.
LEMMA EnterCounting ==
    ASSUME Types, NEW new, NEW records, NEW facts, Enter(new, records, facts), Section(new, records),
           NEW p \in Counted, Counting(p)
    PROVE  Counting(p)'
<1> DEFINE S == Separators(p)
           V == Versions(p)
<1>1. /\ mode = "run" /\ op = None /\ op' # None
      /\ op'.todo = records /\ DOMAIN op'.lsn = DOMAIN new
      /\ \A q \in DOMAIN new : op'.lsn[q] = buf[q].lsn /\ buf'[q] = new[q]
      /\ \A q \in Blk \ DOMAIN new : buf'[q] = buf[q]
      /\ UNCHANGED <<dirty, disk, wal, redoPtr, ckpt, todo, mode, pos, fpw>>
  BY EnterFacts, Zenon
<1>2. p \in Blk /\ p # OvfPage
  BY CountedPages
<1>3. Separators(p)' = S /\ Logged(p)' = Logged(p) /\ Plain(p)' = Plain(p)
  BY <1>1, SameWal
<1>4. ~InOp(p) /\ (InOp(p)' <=> p \in DOMAIN new)
  BY <1>1 DEF InOp
<1>5. Of(buf[p]) \in V /\ Versions(p)' \subseteq V
  <2>1. p \notin DOMAIN new => buf'[p] = buf[p]
    BY <1>1, <1>2
  <2>2. Versions(p)' = Logged(p)' \cup {Of(disk'[p])} \cup (IF InOp(p)' THEN {} ELSE {Of(buf'[p])})
    BY DEF Versions, Of
  <2> QED BY <1>1, <1>3, <1>4, <2>1, <2>2 DEF Versions
<1>6. p \in DOMAIN new => /\ new[p].lsn = buf[p].lsn /\ new[p].init = buf[p].init
                          /\ Len(new[p].item) = IF Adds(records, p) THEN Len(buf[p].item) + 1
                                                                    ELSE Len(buf[p].item)
  BY <1>2 DEF Section
<1>7. buf'[p].lsn = buf[p].lsn /\ buf'[p].init = buf[p].init /\ Stamp(p)' = Stamp(p)
  BY <1>1, <1>2, <1>4, <1>6 DEF Stamp
<1>8. Initialised(p)' /\ Kept(p)'
  <2>1. Initialised(p)'
    BY <1>1, <1>7, SameImages DEF Counting, Initialised
  <2>2. Kept(p)'
    BY <1>1, <1>3, <1>7 DEF Counting, Kept
  <2> QED BY <2>1, <2>2
<1>9. Agree(S, V) /\ Follow(S, V, Plain(p))
  BY DEF Counting
<1>10. Agree(Separators(p)', Versions(p)') /\ Follow(Separators(p)', Versions(p)', Plain(p)')
  BY <1>3, <1>5, <1>9 DEF Agree, Follow
<1>11. ASSUME p \in DOMAIN new PROVE Pending(p)'
  <2>1. Tip(S, V, Len(buf[p].item))
    <3>1. /\ Len(wal) \in Nat /\ S \in SUBSET Nat /\ V \in SUBSET (Nat \X Nat)
          /\ \A k \in S : k <= Len(wal)
      BY SetsOK
    <3>2. Of(buf[p])[1] = buf[p].lsn /\ Of(buf[p])[2] = Len(buf[p].item)
      BY DEF Of
    <3>3. Clear(S, buf[p].lsn, Len(wal))
      BY <1>1, <1>4 DEF Counting, Kept, Stamp
    <3>4. Tip(S, V, Of(buf[p])[2])
      BY <1>5, <1>9, <3>1, <3>2, <3>3, TipOf
    <3> QED BY <3>2, <3>4
  <2>2. Tip(S, Versions(p)', Len(buf[p].item))
    BY <1>5, <2>1 DEF Tip
  <2>3. Len(buf[p].item) \in Nat /\ buf[p].lsn \in Nat
    BY <1>2, BufferOK DEF Page, Lsn
  <2>4. Len(buf'[p].item) = IF Adds(records, p) THEN Len(buf[p].item) + 1 ELSE Len(buf[p].item)
    BY <1>1, <1>6, <1>11
  <2>5. /\ Adds(op'.todo, p) => Tip(Separators(p)', Versions(p)', Len(buf'[p].item) - 1)
        /\ ~Adds(op'.todo, p) => Tip(Separators(p)', Versions(p)', Len(buf'[p].item))
        /\ buf'[p].lsn <= op'.lsn[p]
    BY <1>1, <1>3, <1>7, <1>11, <2>2, <2>3, <2>4
  <2> QED BY <2>5 DEF Pending, Adds, IsInsert
<1> QED BY <1>4, <1>8, <1>10, <1>11 DEF Counting

\* It has its records before it, in order.
LEMMA EnterRest ==
    ASSUME Types, NEW new, NEW records, NEW facts, Enter(new, records, facts), Section(new, records)
    PROVE  Rest'
<1>1. /\ op'.todo = records /\ \A p \in DOMAIN new : buf'[p] = new[p]
  BY EnterFacts, Zenon
<1>2. \A i \in 1..Len(records) : records[i].blk \in DOMAIN new
  BY DEF Section
<1> QED BY <1>1, <1>2 DEF Rest, Section, IsInsert

\* The next record of a critical section: the section goes on, without the record.
LEMMA LogNextMore ==
    ASSUME Types, LogNext
    PROVE  LET r == op.todo[1]
               n == Len(wal) + 1
               e == wal'[n]
           IN  /\ mode = "run" /\ op # None /\ op' # None /\ r.blk \in Counted
               /\ UNCHANGED <<buf, dirty, disk, redoPtr, ckpt, todo, mode, pos, fpw>>
               /\ Len(wal') = n /\ Len(wal) \in Nat /\ \A k \in 1..Len(wal) : wal'[k] = wal[k]
               /\ Imaging(r) => [buf[r.blk] EXCEPT !.lsn = n] # None
               /\ \A p : Adds(op.todo, p) <=> (IsInsert(r) /\ r.blk = p) \/ Adds(op'.todo, p)
<1> DEFINE r == op.todo[1]
           n == Len(wal) + 1
           e == wal'[n]
<1>1. /\ op # None /\ SectionOK(op) /\ Len(op.todo) >= 1 /\ mode = "run"
      /\ Fits(r) /\ wal' = Append(wal, e) /\ e \in LogEntry /\ EntryOK(n, e) /\ n <= MaxWal /\ n \in Nat
      /\ op'.todo \in Seq(PendingRecord) /\ Len(op'.todo) = Len(op.todo) - 1
      /\ \A i \in 1..Len(op'.todo) : op'.todo[i] = op.todo[i + 1]
      /\ DOMAIN op'.lsn = DOMAIN op.lsn
      /\ \A p \in DOMAIN op.lsn : op'.lsn[p] \in {op.lsn[p], n}
      /\ op' = [todo |-> op'.todo, lsn |-> op'.lsn]
      /\ op'.lsn = [p \in DOMAIN op.lsn |-> op'.lsn[p]]
  BY LogNextEntry, Zenon
<1>2. UNCHANGED <<buf, dirty, disk, redoPtr, ckpt, todo, mode, pos, fpw>>
  BY DEF LogNext, pages, ckptVars, server
<1>3. r.blk \in Counted /\ r.blk \in Blk
  BY <1>1, CountedPages
<1> HIDE DEF e
<1>4. Len(wal') = n /\ Len(wal) \in Nat /\ \A k \in 1..Len(wal) : wal'[k] = wal[k]
  BY <1>1, LogAppend
<1>5. n \in Lsn
  BY <1>1 DEF Lsn
<1> HIDE DEF n
<1>6. [buf[r.blk] EXCEPT !.lsn = n] # None
  <2>1. buf[r.blk] \in Page(r.blk)
    BY <1>3, BufferOK
  <2>2. [buf[r.blk] EXCEPT !.lsn = n] \in Page(r.blk)
    BY <1>5, <2>1 DEF Page
  <2> QED BY <1>3, <2>2, NoneAssumption
<1>7. op' # None
  <2>1. DOMAIN op.lsn \subseteq Blk /\ \A p \in DOMAIN op.lsn : op.lsn[p] \in 0..Len(wal)
    BY <1>1 DEF SectionOK
  <2>2. \A p \in DOMAIN op.lsn : op.lsn[p] \in Lsn
    BY <1>1, <1>4, <2>1 DEF n, Lsn
  <2>3. op'.lsn \in [DOMAIN op.lsn -> Lsn]
    BY <1>1, <1>5, <2>2
  <2>4. op' \in CriticalSection(DOMAIN op.lsn)
    BY <1>1, <2>3 DEF CriticalSection
  <2>5. DOMAIN op.lsn \in SUBSET Blk
    BY <2>1
  <2> QED BY <2>4, <2>5, NoneAssumption, Zenon
<1>8. ASSUME NEW p PROVE Adds(op.todo, p) <=> (IsInsert(r) /\ r.blk = p) \/ Adds(op'.todo, p)
  <2>1. Len(op.todo) \in Nat /\ Len(op'.todo) \in Nat
    BY <1>1 DEF SectionOK
  <2>2. ASSUME NEW i \in 1..Len(op.todo), IsInsert(op.todo[i]), op.todo[i].blk = p
        PROVE  (IsInsert(r) /\ r.blk = p) \/ Adds(op'.todo, p)
    <3>1. CASE i = 1
      BY <2>2, <3>1
    <3>2. CASE i # 1
      <4>1. i - 1 \in 1..Len(op'.todo) /\ (i - 1) + 1 = i
        <5>1. Len(op'.todo) = Len(op.todo) - 1
          BY <1>1, Zenon
        <5> QED BY <2>1, <3>2, <5>1
      <4>2. op'.todo[i - 1] = op.todo[i]
        BY <1>1, <4>1
      <4> QED BY <2>2, <4>1, <4>2 DEF Adds
    <3> QED BY <3>1, <3>2
  <2>3. ASSUME NEW i \in 1..Len(op'.todo), IsInsert(op'.todo[i]), op'.todo[i].blk = p
        PROVE  Adds(op.todo, p)
    <3>1. i + 1 \in 1..Len(op.todo)
      <4>1. Len(op'.todo) = Len(op.todo) - 1
        BY <1>1, Zenon
      <4> QED BY <2>1, <4>1
    <3>2. op'.todo[i] = op.todo[i + 1]
      BY <1>1, Zenon
    <3> QED BY <2>3, <3>1, <3>2 DEF Adds
  <2>4. IsInsert(r) /\ r.blk = p => Adds(op.todo, p)
    <3>1. 1 \in 1..Len(op.todo)
      BY <1>1, <2>1
    <3> QED BY <3>1 DEF Adds
  <2> QED BY <2>2, <2>3, <2>4 DEF Adds
<1> QED BY <1>1, <1>2, <1>3, <1>4, <1>6, <1>7, <1>8 DEF n

\* What the order of the records says of the first: an insert comes last, and only
\* a deletion before it.
LEMMA FirstRecord ==
    ASSUME Types, LogNext, Rest
    PROVE  LET r == op.todo[1]
           IN  /\ IsInsert(r) => r.off = Len(buf[r.blk].item)
               /\ r.stamp \/ r.type = "ADJ_UPDATE"
               /\ r.force => r.type = "NODE_COMPACT"
               /\ Adds(op'.todo, r.blk) => r.type = "NODE_DELETE"
<1> DEFINE r == op.todo[1]
<1>1. /\ op # None /\ SectionOK(op) /\ Len(op.todo) >= 1
      /\ op'.todo \in Seq(PendingRecord) /\ Len(op'.todo) = Len(op.todo) - 1
      /\ \A i \in 1..Len(op'.todo) : op'.todo[i] = op.todo[i + 1]
  BY LogNextEntry, Zenon
<1>2. Len(op.todo) \in Nat /\ Len(op'.todo) \in Nat /\ 1 \in 1..Len(op.todo)
  <2>1. Len(op.todo) \in Nat /\ Len(op'.todo) \in Nat
    BY <1>1 DEF SectionOK
  <2> QED BY <1>1, <2>1
<1>3. /\ IsInsert(r) => r.off = Len(buf[r.blk].item)
      /\ r.stamp \/ r.type = "ADJ_UPDATE"
      /\ r.force => r.type = "NODE_COMPACT"
  BY <1>1, <1>2 DEF Rest
<1>4. ASSUME NEW j \in 1..Len(op'.todo), IsInsert(op'.todo[j]), op'.todo[j].blk = r.blk
      PROVE  r.type = "NODE_DELETE"
  <2>1. j + 1 \in 1..Len(op.todo) /\ 1 # j + 1
    BY <1>1, <1>2
  <2>2. op'.todo[j] = op.todo[j + 1]
    BY <1>1, Zenon
  <2>3. \A k, m \in 1..Len(op.todo) :
           k # m /\ IsInsert(op.todo[m]) /\ op.todo[k].blk = op.todo[m].blk =>
               k < m /\ op.todo[k].type = "NODE_DELETE"
    BY <1>1 DEF Rest
  <2> QED BY <1>2, <1>4, <2>1, <2>2, <2>3, Zenon
<1> QED BY <1>3, <1>4 DEF Adds

\* The other records keep their order.
LEMMA LogNextRest == ASSUME Types, LogNext, Rest PROVE Rest'
<1>1. /\ op # None /\ SectionOK(op) /\ Len(op.todo) >= 1
      /\ op'.todo \in Seq(PendingRecord) /\ Len(op'.todo) = Len(op.todo) - 1
      /\ \A i \in 1..Len(op'.todo) : op'.todo[i] = op.todo[i + 1]
  BY LogNextEntry, Zenon
<1>2. buf' = buf
  BY LogNextMore, Zenon
<1>3. Len(op.todo) \in Nat /\ Len(op'.todo) \in Nat
  BY <1>1 DEF SectionOK
<1>4. \A i \in 1..Len(op'.todo) : i \in Nat /\ i + 1 \in 1..Len(op.todo)
  BY <1>1, <1>3
<1>5. /\ \A k \in 1..Len(op.todo) :
            /\ IsInsert(op.todo[k]) => op.todo[k].off = Len(buf[op.todo[k].blk].item)
            /\ op.todo[k].stamp \/ op.todo[k].type = "ADJ_UPDATE"
            /\ op.todo[k].force => op.todo[k].type = "NODE_COMPACT"
      /\ \A k, m \in 1..Len(op.todo) :
            k # m /\ IsInsert(op.todo[m]) /\ op.todo[k].blk = op.todo[m].blk =>
                k < m /\ op.todo[k].type = "NODE_DELETE"
  BY <1>1 DEF Rest
<1>6. \A i \in 1..Len(op'.todo) :
        /\ IsInsert(op'.todo[i]) => op'.todo[i].off = Len(buf[op'.todo[i].blk].item)
        /\ op'.todo[i].stamp \/ op'.todo[i].type = "ADJ_UPDATE"
        /\ op'.todo[i].force => op'.todo[i].type = "NODE_COMPACT"
  <2> TAKE i \in 1..Len(op'.todo)
  <2>1. i + 1 \in 1..Len(op.todo) /\ op'.todo[i] = op.todo[i + 1]
    BY <1>1, <1>4, Zenon
  <2> QED BY <1>5, <2>1, Zenon
<1>7. ASSUME NEW i \in 1..Len(op'.todo), NEW j \in 1..Len(op'.todo), i # j,
             IsInsert(op'.todo[j]), op'.todo[i].blk = op'.todo[j].blk
      PROVE  i < j /\ op'.todo[i].type = "NODE_DELETE"
  <2>1. i + 1 # j + 1
    BY <1>4, <1>7
  <2>2. /\ i + 1 \in 1..Len(op.todo) /\ op'.todo[i] = op.todo[i + 1]
        /\ j + 1 \in 1..Len(op.todo) /\ op'.todo[j] = op.todo[j + 1]
    BY <1>1, <1>4, Zenon
  <2>3. i + 1 < j + 1 /\ op.todo[i + 1].type = "NODE_DELETE"
    BY <1>7, <1>5, <2>1, <2>2, ZenonT(30)
  <2> QED BY <1>4, <2>2, <2>3
<1> QED BY <1>2, <1>6, <1>7 DEF Rest, IsInsert

\* A record for another page.
LEMMA LogNextElsewhere ==
    ASSUME Types, LogNext, Rest, NEW p \in Counted, Counting(p), op.todo[1].blk # p
    PROVE  Counting(p)'
<1> DEFINE r == op.todo[1]
           n == Len(wal) + 1
           e == wal'[n]
<1>1. /\ mode = "run" /\ op # None /\ op' # None
      /\ UNCHANGED <<buf, dirty, disk, redoPtr, ckpt, todo, mode, pos, fpw>>
      /\ Len(wal') = n /\ Len(wal) \in Nat /\ \A k \in 1..Len(wal) : wal'[k] = wal[k]
      /\ \A q : Adds(op.todo, q) <=> (IsInsert(r) /\ r.blk = q) \/ Adds(op'.todo, q)
  BY LogNextMore, Zenon
<1>2. /\ e.type = r.type /\ e.blk = r.blk /\ DOMAIN op'.lsn = DOMAIN op.lsn
      /\ \A q \in DOMAIN op.lsn \ {OvfPage} : q # r.blk => op'.lsn[q] = op.lsn[q]
  BY LogNextEntry, Zenon
<1>3. ~IsSeparator(e, p) /\ ~Counts(e, p)
  BY <1>2 DEF IsSeparator, Counts
<1> HIDE DEF e, r
<1>4. Separators(p)' = Separators(p) /\ Logged(p)' = Logged(p) /\ Plain(p)' = Plain(p)
  <2>1. wal'[Len(wal) + 1] = e
    BY DEF e
  <2>2. /\ Separators(p)' = Separators(p) \cup (IF IsSeparator(e, p) THEN {n} ELSE {})
        /\ Logged(p)' = Logged(p) \cup (IF Counts(e, p) THEN {<<n, CountOf(e)>>} ELSE {})
        /\ Plain(p)' = Plain(p) \cup (IF Counts(e, p) /\ e.img = None THEN {<<n, e.off>>} ELSE {})
    BY <1>1, <2>1, Appended
  <2> QED BY <1>3, <2>2
<1>5. p # OvfPage /\ r.blk # p
  BY CountedPages DEF r
<1>6. (InOp(p)' <=> InOp(p)) /\ (InOp(p) => op'.lsn[p] = op.lsn[p])
  BY <1>1, <1>2, <1>5 DEF InOp
<1>7. Versions(p)' = Versions(p)
  BY <1>1, <1>4, <1>6 DEF Versions, Of
<1>8. Initialised(p)'
  <2>1. \A k \in 1..Len(wal') : Counts(wal'[k], p) => k \in 1..Len(wal) /\ wal'[k] = wal[k]
    BY <1>1, <1>3 DEF e
  <2>2. \A k \in 1..Len(wal') : Counts(wal'[k], p) /\ wal'[k].img # None => wal'[k].img.init
    BY <2>1 DEF Counting, Initialised
  <2> QED BY <1>1, <2>2 DEF Counting, Initialised, Counts, IsInsert
<1>9. Kept(p)'
  <2>1. Clear(Separators(p), Stamp(p), Len(wal))
    BY <1>1 DEF Counting, Kept
  <2>2. \A k \in Separators(p) : k <= Len(wal) /\ k \in Nat
    BY SetsOK
  <2>3. Clear(Separators(p), Stamp(p), n)
    BY <1>1, <2>1, <2>2 DEF Clear
  <2>4. Stamp(p)' = Stamp(p)
    BY <1>1, <1>6 DEF Stamp
  <2> QED BY <1>1, <1>4, <2>3, <2>4 DEF Counting, Kept
<1>10. InOp(p) => Pending(p)'
  <2>1. Adds(op'.todo, p) <=> Adds(op.todo, p)
    BY <1>1, <1>5
  <2> QED BY <1>1, <1>4, <1>6, <1>7, <2>1 DEF Counting, Pending, Takes, Adds, IsInsert
<1>11. Agree(Separators(p)', Versions(p)') /\ Follow(Separators(p)', Versions(p)', Plain(p)')
  BY <1>4, <1>7 DEF Counting
<1> QED BY <1>6, <1>8, <1>9, <1>10, <1>11 DEF Counting

\* A record for the page itself: a separator and a version, a version, or neither.
LEMMA LogNextHere ==
    ASSUME Types, LogNext, Rest, NEW p \in Counted, Counting(p), op.todo[1].blk = p
    PROVE  Counting(p)'
<1> DEFINE r == op.todo[1]
           n == Len(wal) + 1
           e == wal'[n]
           c == Len(buf[p].item)
           S == Separators(p)
           V == Versions(p)
           I == Plain(p)
<1>1. /\ mode = "run" /\ op # None /\ op' # None
      /\ UNCHANGED <<buf, dirty, disk, redoPtr, ckpt, todo, mode, pos, fpw>>
      /\ Len(wal') = n /\ Len(wal) \in Nat /\ \A k \in 1..Len(wal) : wal'[k] = wal[k]
      /\ Imaging(r) => [buf[p] EXCEPT !.lsn = n] # None
      /\ Adds(op.todo, p) <=> IsInsert(r) \/ Adds(op'.todo, p)
  BY LogNextMore, Zenon
<1>2. /\ e.type = r.type /\ e.blk = p /\ e.off = r.off /\ n \in Nat
      /\ e.img = IF Imaging(r) THEN [buf[p] EXCEPT !.lsn = n] ELSE None
      /\ DOMAIN op'.lsn = DOMAIN op.lsn /\ p \in DOMAIN op.lsn /\ op'.lsn[p] \in {op.lsn[p], n}
      /\ r.stamp => op'.lsn[p] = n
      /\ EntryOK(n, e) /\ SectionOK(op) /\ Fits(r)
  BY LogNextEntry, Zenon
<1>3. /\ IsInsert(r) => r.off = c
      /\ r.stamp \/ r.type = "ADJ_UPDATE"
      /\ r.force => r.type = "NODE_COMPACT"
      /\ Adds(op'.todo, p) => r.type = "NODE_DELETE"
  BY FirstRecord, Zenon
<1>4. p \in Blk /\ p # OvfPage
  BY CountedPages
<1>5. buf[p] \in Page(p) /\ c \in Nat /\ buf[p].lsn \in Nat
  BY <1>4, BufferOK DEF Page, Lsn
<1>6. wal'[Len(wal) + 1] = e
  OBVIOUS
<1>7. /\ Separators(p)' = S \cup (IF IsSeparator(e, p) THEN {n} ELSE {})
      /\ Logged(p)' = Logged(p) \cup (IF Counts(e, p) THEN {<<n, CountOf(e)>>} ELSE {})
      /\ Plain(p)' = I \cup (IF Counts(e, p) /\ e.img = None THEN {<<n, e.off>>} ELSE {})
  <2> HIDE DEF e
  <2> QED BY <1>1, <1>6, Appended
<1>8. InOp(p) /\ InOp(p)'
  BY <1>1, <1>2 DEF InOp
<1>9. Versions(p)' = V \cup (IF Counts(e, p) THEN {<<n, CountOf(e)>>} ELSE {})
  <2>1. V = Logged(p) \cup {Of(disk[p])}
    BY <1>8 DEF Versions
  <2>2. Versions(p)' = Logged(p)' \cup {Of(disk[p])}
    BY <1>1, <1>8 DEF Versions, Of
  <2> QED BY <1>7, <2>1, <2>2
<1>10. r.type # "COMMIT"
  BY <1>2 DEF Fits
<1> HIDE DEF e, r
<1>11. /\ Imaging(r) => e.img # None /\ e.img.item = buf[p].item /\ e.img.init = buf[p].init
       /\ ~Imaging(r) => e.img = None
  BY <1>1, <1>2, <1>5 DEF Page
<1>12. /\ IsInsert(e) <=> IsInsert(r)
       /\ Counts(e, p) <=> Imaging(r) \/ IsInsert(r)
       /\ IsSeparator(e, p) <=> IsInsert(r) \/ (r.type = "NODE_DELETE" /\ Imaging(r))
  BY <1>2, <1>10, <1>11 DEF IsInsert, Counts, IsSeparator
<1>13. /\ Counts(e, p) => CountOf(e) = c
       /\ IsInsert(r) => e.off = c
  BY <1>2, <1>3, <1>11, <1>12 DEF CountOf
<1>14. /\ Agree(S, V) /\ Follow(S, V, I) /\ Initialised(p) /\ Kept(p) /\ Pending(p)
  BY <1>8 DEF Counting
<1>15. /\ S \in SUBSET Nat /\ \A k \in S : k < n
       /\ V \in SUBSET (Nat \X Nat) /\ \A v \in V : v[1] < n
       /\ I \in SUBSET (Nat \X Nat) /\ \A i \in I : i[1] \in S /\ i[1] < n
  <2>1. /\ S \in SUBSET Nat /\ \A k \in S : k <= Len(wal)
        /\ V \in SUBSET (Nat \X Nat) /\ \A v \in V : v[1] <= Len(wal)
        /\ I \in SUBSET (Nat \X Nat) /\ \A i \in I : i[1] \in S
    BY SetsOK
  <2>2. \A k \in S : k < n
    BY <1>1, <2>1
  <2>3. \A v \in V : v[1] \in Nat
    BY <2>1
  <2>4. \A v \in V : v[1] < n
    BY <1>1, <2>1, <2>3
  <2> QED BY <2>1, <2>2, <2>4
<1>16. Takes(p)' = Takes(p) /\ (Imaging(r) <=> r.force \/ Takes(p))
  <2>1. r.blk = p
    BY DEF r
  <2> QED BY <1>1, <2>1 DEF Takes, Imaging
<1>17. Initialised(p)'
  <2>1. \A k \in 1..Len(wal') : (k \in 1..Len(wal) /\ wal'[k] = wal[k]) \/ wal'[k] = e
    BY <1>1, <1>6
  <2>2. \A k \in 1..Len(wal') : Counts(wal'[k], p) /\ wal'[k].img # None => wal'[k].img.init
    BY <1>11, <1>14, <2>1 DEF Initialised
  <2> QED BY <1>1, <1>14, <2>2 DEF Initialised, Counts, IsInsert
<1>18. op.lsn[p] \in Nat /\ op.lsn[p] <= Len(wal) /\ buf[p].lsn <= op.lsn[p]
  <2>1. op.lsn[p] \in 0..Len(wal)
    BY <1>2 DEF SectionOK
  <2> QED BY <1>14, <2>1 DEF Pending
<1>19. Kept(p)'
  <2>1. Clear(S, op.lsn[p], Len(wal))
    BY <1>1, <1>8, <1>14 DEF Kept, Stamp
  <2>2. Clear(Separators(p)', op'.lsn[p], n)
    <3>1. CASE op'.lsn[p] = n
      <4>1. Separators(p)' \in SUBSET Nat
        BY <1>2, <1>7, <1>15
      <4> QED BY <1>2, <3>1, <4>1 DEF Clear
    <3>2. CASE op'.lsn[p] = op.lsn[p] /\ op.lsn[p] # n
      <4>1. r.type = "ADJ_UPDATE"
        BY <1>2, <1>3, <3>2
      <4>2. Separators(p)' = S
        BY <1>7, <1>12, <4>1 DEF IsInsert
      <4>3. ASSUME NEW k \in S PROVE ~(op.lsn[p] < k /\ k <= n)
        <5>1. k \in Nat /\ k < n /\ ~(op.lsn[p] < k /\ k <= Len(wal))
          BY <1>15, <2>1 DEF Clear
        <5> QED BY <1>1, <5>1
      <4> QED BY <3>2, <4>2, <4>3 DEF Clear
    <3> QED BY <1>2, <3>1, <3>2
  <2>3. /\ Clear(Separators(p)', disk[p].lsn, ckpt)
        /\ todo # None /\ p \notin todo => Clear(Separators(p)', disk[p].lsn, redoPtr)
    <3>1. ckpt \in Nat /\ redoPtr \in Nat /\ ckpt < n /\ redoPtr < n
      BY <1>1 DEF Types, Points
    <3>2. ASSUME NEW b \in Nat, b < n, Clear(S, disk[p].lsn, b)
          PROVE  Clear(Separators(p)', disk[p].lsn, b)
      <4>1. \A k \in Separators(p)' : k \in S \/ k = n
        BY <1>7
      <4> QED BY <1>2, <3>2, <4>1 DEF Clear
    <3> QED BY <1>14, <3>1, <3>2 DEF Kept
  <2>4. Stamp(p)' = op'.lsn[p]
    BY <1>8 DEF Stamp
  <2> QED BY <1>1, <1>14, <2>2, <2>3, <2>4 DEF Kept
<1>20. buf'[p].lsn <= op'.lsn[p] /\ Len(buf'[p].item) = c
  BY <1>1, <1>2, <1>5, <1>18
<1> DEFINE Ok == /\ Agree(Separators(p)', Versions(p)') /\ Follow(Separators(p)', Versions(p)', Plain(p)')
                 /\ IF Adds(op'.todo, p) THEN Takes(p) \/ Tip(Separators(p)', Versions(p)', c - 1)
                    ELSE Tip(Separators(p)', Versions(p)', c)
<1> HIDE DEF n, S, V, I, c
<1>21. ASSUME IsInsert(r) \/ (r.type = "NODE_DELETE" /\ Imaging(r)) PROVE Ok
  <2>1. /\ Separators(p)' = S \cup {n} /\ Versions(p)' = V \cup {<<n, c>>}
        /\ Plain(p)' \subseteq I \cup {<<n, c>>}
    <3>1. IsSeparator(e, p) /\ Counts(e, p)
      BY <1>12, <1>21
    <3>2. Counts(e, p) /\ e.img = None => e.off = c
      BY <1>11, <1>12, <1>13
    <3> QED BY <1>7, <1>9, <1>13, <3>1, <3>2
  <2>2. <<n, c>> \in Plain(p)' => Tip(S, V, c - 1)
    <3> SUFFICES ASSUME <<n, c>> \in Plain(p)' PROVE Tip(S, V, c - 1)
      OBVIOUS
    <3>1. <<n, c>> \notin I
      <4> SUFFICES ASSUME <<n, c>> \in I PROVE FALSE
        OBVIOUS
      <4>1. <<n, c>>[1] < n
        BY <1>15
      <4> QED BY <1>2, <4>1
    <3>2. e.img = None /\ Counts(e, p)
      BY <1>7, <3>1
    <3>3. ~Imaging(r) /\ IsInsert(r)
      BY <1>11, <1>12, <3>2
    <3>4. ~Takes(p) /\ Adds(op.todo, p)
      BY <1>1, <1>16, <3>3
    <3> QED BY <1>14, <3>4 DEF Pending, S, V, c
  <2>3. /\ Agree(S \cup {n}, V \cup {<<n, c>>}) /\ Follow(S \cup {n}, V \cup {<<n, c>>}, Plain(p)')
        /\ Tip(S \cup {n}, V \cup {<<n, c>>}, c)
    BY <1>2, <1>5, <1>14, <1>15, <2>1, <2>2, NewItem
  <2>4. Adds(op'.todo, p) => Takes(p)
    <3> SUFFICES ASSUME Adds(op'.todo, p) PROVE Takes(p)
      OBVIOUS
    <3>1. r.type = "NODE_DELETE" /\ ~r.force
      BY <1>3
    <3> QED BY <1>16, <1>21, <3>1 DEF IsInsert
  <2> QED BY <2>1, <2>3, <2>4
<1>22. ASSUME ~IsInsert(r), ~(r.type = "NODE_DELETE" /\ Imaging(r)) PROVE Ok
  <2>1. Separators(p)' = S /\ Plain(p)' = I
    BY <1>7, <1>11, <1>12, <1>22
  <2>2. CASE Imaging(r)
    <3>1. Versions(p)' = V \cup {<<n, c>>}
      BY <1>9, <1>12, <1>13, <2>2
    <3>2. ~Adds(op'.todo, p) /\ ~Adds(op.todo, p)
      BY <1>1, <1>3, <1>22, <2>2
    <3>3. Tip(S, V, c)
      BY <1>14, <3>2 DEF Pending, S, V, c
    <3>4. \A k \in S : k <= n
      BY <1>2, <1>15
    <3>5. /\ Agree(S, V \cup {<<n, c>>}) /\ Follow(S, V \cup {<<n, c>>}, I)
          /\ Tip(S, V \cup {<<n, c>>}, c)
      BY <1>2, <1>5, <1>14, <1>15, <3>3, <3>4, NewVersion
    <3> QED BY <2>1, <3>1, <3>2, <3>5
  <2>3. CASE ~Imaging(r)
    <3>1. Versions(p)' = V
      BY <1>9, <1>12, <1>22, <2>3
    <3>2. Adds(op.todo, p) <=> Adds(op'.todo, p)
      BY <1>1, <1>22
    <3> QED BY <1>14, <2>1, <3>1, <3>2 DEF Pending, S, V, c
  <2> QED BY <2>2, <2>3
<1>23. Pending(p)'
  <2>1. Ok
    BY <1>21, <1>22
  <2> QED BY <1>16, <1>20, <2>1 DEF Pending, Adds, IsInsert
<1>24. Agree(Separators(p)', Versions(p)') /\ Follow(Separators(p)', Versions(p)', Plain(p)')
  BY <1>21, <1>22
<1> QED BY <1>17, <1>19, <1>23, <1>24 DEF Counting

\* The critical section ends: the page is a version again.
LEMMA OpEndCounting == ASSUME Types, OpEnd, NEW p \in Counted, Counting(p) PROVE Counting(p)'
<1> DEFINE S == Separators(p)
           V == Versions(p)
           c == Len(buf[p].item)
<1>1. /\ op # None /\ SectionOK(op) /\ mode = "run" /\ op' = None
      /\ dirty' = dirty \cup DOMAIN op.lsn
      /\ UNCHANGED <<disk, wal, redoPtr, ckpt, todo, mode, pos>>
      /\ \A q \in Blk \ DOMAIN op.lsn : buf'[q] = buf[q]
      /\ \A q \in DOMAIN op.lsn : /\ buf'[q].lsn = op.lsn[q] /\ buf'[q].init = buf[q].init
                                  /\ buf'[q].item = buf[q].item
  BY OpEndPages, Zenon
<1>2. p \in Blk
  BY CountedPages
<1>3. Separators(p)' = S /\ Logged(p)' = Logged(p) /\ Plain(p)' = Plain(p)
  BY <1>1, SameWal
<1>4. ~InOp(p)' /\ (InOp(p) <=> p \in DOMAIN op.lsn)
  BY <1>1 DEF InOp
<1>5. buf'[p].init = buf[p].init /\ Stamp(p)' = Stamp(p)
  BY <1>1, <1>2, <1>4 DEF Stamp
<1>6. Initialised(p)'
  BY <1>1, <1>5, SameImages DEF Counting, Initialised
<1>7. Kept(p)'
  BY <1>1, <1>2, <1>3, <1>5 DEF Counting, Kept
<1>8. Versions(p)' = Logged(p) \cup {Of(disk[p])} \cup {Of(buf'[p])}
  BY <1>1, <1>3, <1>4 DEF Versions, Of
<1>9. Agree(Separators(p)', Versions(p)') /\ Follow(Separators(p)', Versions(p)', Plain(p)')
  <2>1. CASE p \notin DOMAIN op.lsn
    <3>1. Versions(p)' = V
      BY <1>1, <1>2, <1>4, <1>8, <2>1 DEF Versions
    <3> QED BY <1>3, <3>1 DEF Counting
  <2>2. CASE p \in DOMAIN op.lsn
    <3>1. Versions(p)' = V \cup {<<op.lsn[p], c>>}
      BY <1>1, <1>4, <1>8, <2>2 DEF Versions, Of
    <3>2. op.lsn[p] \in 0..Len(wal)
      BY <1>1, <2>2 DEF SectionOK
    <3>3. Tip(S, V, c)
      <4>1. op.todo = <<>>
        BY DEF OpEnd
      <4>2. ~Adds(op.todo, p)
        BY <4>1 DEF Adds
      <4> QED BY <1>4, <2>2, <4>2 DEF Counting, Pending
    <3>4. /\ Len(wal) \in Nat /\ S \in SUBSET Nat /\ \A k \in S : k <= Len(wal)
          /\ V \in SUBSET (Nat \X Nat)
          /\ Plain(p) \in SUBSET (Nat \X Nat) /\ \A i \in Plain(p) : i[1] \in S
      BY SetsOK
    <3>5. \A k \in S : k <= op.lsn[p]
      <4> TAKE k \in S
      <4>1. ~(op.lsn[p] < k /\ k <= Len(wal))
        BY <1>1, <1>4, <2>2 DEF Counting, Kept, Stamp, Clear
      <4> QED BY <3>2, <3>4, <4>1
    <3>6. c \in Nat
      BY <1>2, BufferOK
    <3>7. Agree(S, V) /\ Follow(S, V, Plain(p))
      BY DEF Counting
    <3> DEFINE l == op.lsn[p]
               I == Plain(p)
    <3> HIDE DEF S, V, I, c, l
    <3>8. l \in Nat
      BY <3>2, <3>4 DEF l
    <3>9. Agree(S, V \cup {<<l, c>>}) /\ Follow(S, V \cup {<<l, c>>}, I)
      BY <3>3, <3>4, <3>5, <3>6, <3>7, <3>8, NewVersion DEF l, I
    <3> QED BY <1>3, <3>1, <3>9 DEF S, V, I, c, l
  <2> QED BY <2>1, <2>2
<1> QED BY <1>4, <1>6, <1>7, <1>9 DEF Counting

\* A commit record.
LEMMA CommitCounting == ASSUME Types, Commit, NEW p \in Counted, Counting(p) PROVE Counting(p)'
<1> DEFINE e == CommitOf(xid)
<1>1. /\ wal' = Append(wal, e) /\ mode = "run" /\ op = None
      /\ UNCHANGED <<buf, disk, dirty, redoPtr, ckpt, todo, op, mode, pos, fpw>>
  BY DEF Commit, Running, pages, ckptVars, server
<1>2. e \in LogEntry /\ EntryOK(Len(wal) + 1, e) /\ e.type = "COMMIT"
  BY DEF CommitOf, LogEntry, EntryOK, Types, Scalars
<1> HIDE DEF e
<1>3. /\ Len(wal') = Len(wal) + 1 /\ Len(wal) \in Nat /\ wal'[Len(wal) + 1] = e
      /\ \A k \in 1..Len(wal) : wal'[k] = wal[k]
  BY <1>1, <1>2, LogAppend
<1>4. ~IsSeparator(e, p) /\ ~Counts(e, p)
  BY <1>2 DEF IsSeparator, Counts
<1>5. Separators(p)' = Separators(p) /\ Logged(p)' = Logged(p) /\ Plain(p)' = Plain(p)
  <2> DEFINE n == Len(wal) + 1
  <2>1. /\ Separators(p)' = Separators(p) \cup (IF IsSeparator(e, p) THEN {n} ELSE {})
        /\ Logged(p)' = Logged(p) \cup (IF Counts(e, p) THEN {<<n, CountOf(e)>>} ELSE {})
        /\ Plain(p)' = Plain(p) \cup (IF Counts(e, p) /\ e.img = None THEN {<<n, e.off>>} ELSE {})
    BY <1>3, Appended
  <2> QED BY <1>4, <2>1
<1>6. ~InOp(p) /\ ~InOp(p)' /\ Versions(p)' = Versions(p) /\ Stamp(p)' = Stamp(p)
  BY <1>1, <1>5 DEF InOp, Versions, Of, Stamp
<1>7. Initialised(p)'
  <2>1. \A k \in 1..Len(wal') : Counts(wal'[k], p) => k \in 1..Len(wal) /\ wal'[k] = wal[k]
    BY <1>3, <1>4
  <2>2. \A k \in 1..Len(wal') : Counts(wal'[k], p) /\ wal'[k].img # None => wal'[k].img.init
    BY <2>1 DEF Counting, Initialised
  <2> QED BY <1>1, <2>2 DEF Counting, Initialised, Counts, IsInsert
<1>8. Kept(p)'
  <2>1. Clear(Separators(p), Stamp(p), Len(wal))
    BY <1>1 DEF Counting, Kept
  <2>2. \A k \in Separators(p) : k <= Len(wal) /\ k \in Nat
    BY SetsOK
  <2>3. Clear(Separators(p), Stamp(p), Len(wal'))
    BY <1>3, <2>1, <2>2 DEF Clear
  <2> QED BY <1>1, <1>5, <1>6, <2>3 DEF Counting, Kept
<1>9. Agree(Separators(p)', Versions(p)') /\ Follow(Separators(p)', Versions(p)', Plain(p)')
  BY <1>5, <1>6 DEF Counting
<1> QED BY <1>6, <1>7, <1>8, <1>9 DEF Counting

\* The properties of an edge are overwritten in place.
LEMMA UpdatePropsCounting ==
    ASSUME Types, NEW off \in Items(EdgePage), UpdateProps(off), NEW p \in Counted, Counting(p)
    PROVE  Counting(p)'
<1>1. p \in Blk
  BY CountedPages
<1>2. /\ buf'[p].lsn = buf[p].lsn /\ buf'[p].init = buf[p].init
      /\ Len(buf'[p].item) = Len(buf[p].item) /\ dirty \subseteq dirty'
  BY <1>1, UpdatePropsTypes
<1>3. op = None /\ UNCHANGED <<disk, wal, redoPtr, ckpt, todo, op, mode, pos>>
  BY DEF UpdateProps, log, ckptVars, server
<1>4. Separators(p)' = Separators(p) /\ Logged(p)' = Logged(p) /\ Plain(p)' = Plain(p)
  BY <1>3, SameWal
<1>5. ~InOp(p) /\ ~InOp(p)' /\ Stamp(p)' = Stamp(p)
  BY <1>2, <1>3 DEF InOp, Stamp
<1>6. Versions(p)' = Versions(p)
  BY <1>2, <1>3, <1>4, <1>5 DEF Versions, Of
<1>7. Initialised(p)'
  BY <1>2, <1>3, SameImages DEF Counting, Initialised
<1>8. Kept(p)'
  BY <1>2, <1>3, <1>4, <1>5 DEF Counting, Kept
<1>9. Agree(Separators(p)', Versions(p)') /\ Follow(Separators(p)', Versions(p)', Plain(p)')
  BY <1>4, <1>6 DEF Counting
<1> QED BY <1>5, <1>7, <1>8, <1>9 DEF Counting

\* A page is written to disk, where its version replaces an earlier one.
LEMMA WritePageCounting ==
    ASSUME Types, NEW q \in Blk, WritePage(q), mode # "failed", NEW p \in Counted, Counting(p)
    PROVE  Counting(p)'
<1>1. /\ q \in dirty /\ (op # None => q \notin DOMAIN op.lsn)
      /\ disk' = [disk EXCEPT ![q] = buf[q]] /\ dirty' = dirty \ {q}
      /\ todo' = IF todo = None THEN None ELSE todo \ {q}
      /\ UNCHANGED <<buf, wal, redoPtr, ckpt, op, mode, pos, fpw>>
  BY WritePageFacts, Zenon
<1>2. p \in Blk /\ disk'[p] = IF p = q THEN buf[q] ELSE disk[p]
  BY <1>1, CountedPages DEF Types, Pages
<1>3. Separators(p)' = Separators(p) /\ Logged(p)' = Logged(p) /\ Plain(p)' = Plain(p)
  BY <1>1, SameWal
<1>4. (InOp(p)' <=> InOp(p)) /\ Stamp(p)' = Stamp(p) /\ (p = q => ~InOp(p))
  BY <1>1 DEF InOp, Stamp
<1>5. Versions(p)' \subseteq Versions(p)
  BY <1>1, <1>2, <1>3, <1>4 DEF Versions, Of
<1>6. Initialised(p)'
  BY <1>1, <1>2, SameImages DEF Counting, Initialised
<1>7. Kept(p)'
  <2>1. CASE p # q
    BY <1>1, <1>2, <1>3, <1>4, <2>1 DEF Counting, Kept
  <2>2. CASE p = q
    <3>1. Stamp(p) = buf[p].lsn /\ disk'[p] = buf[p]
      BY <1>2, <1>4, <2>2 DEF Stamp
    <3>2. Clear(Separators(p), buf[p].lsn, ckpt) /\ (todo # None => Clear(Separators(p), buf[p].lsn, redoPtr))
      <4>1. /\ ckpt \in Nat /\ redoPtr \in Nat /\ ckpt <= redoPtr /\ redoPtr <= Len(wal)
            /\ mode # "run" => todo = None /\ ckpt <= pos
        BY DEF Types, Points
      <4>2. mode \in {"run", "redo"} /\ pos \in Nat /\ Len(wal) \in Nat
        BY DEF Types, Scalars, Lsn, Log
      <4>3. /\ mode = "run" => Clear(Separators(p), buf[p].lsn, Len(wal))
            /\ mode = "redo" => Clear(Separators(p), buf[p].lsn, pos)
        BY <3>1 DEF Counting, Kept
      <4>4. \A k \in Separators(p) : k \in Nat
        BY SetsOK
      <4>5. CASE mode = "run"
        BY <4>1, <4>2, <4>3, <4>4, <4>5 DEF Clear
      <4>6. CASE mode = "redo"
        BY <4>1, <4>2, <4>3, <4>4, <4>6 DEF Clear
      <4> QED BY <4>2, <4>5, <4>6
    <3> QED BY <1>1, <1>3, <1>4, <3>1, <3>2 DEF Counting, Kept
  <2> QED BY <2>1, <2>2
<1>8. Agree(Separators(p)', Versions(p)') /\ Follow(Separators(p)', Versions(p)', Plain(p)')
  BY <1>3, <1>5 DEF Counting, Agree, Follow
<1>9. InOp(p) => Pending(p)'
  BY <1>1, <1>3, <1>5 DEF Counting, Pending, Takes, Tip, Adds, IsInsert
<1> QED BY <1>4, <1>6, <1>7, <1>8, <1>9 DEF Counting

\* A checkpoint starts between critical sections, or is complete.
LEMMA CheckpointCounting ==
    ASSUME CheckpointApart, Types, CheckpointBegin \/ CheckpointEnd, NEW p \in Counted, Counting(p)
    PROVE  Counting(p)'
<1>1. UNCHANGED <<buf, disk, dirty, wal, op, mode, pos, fpw>> /\ mode = "run"
  BY DEF CheckpointBegin, CheckpointEnd, Running, pages, log, client, server
<1>2. Separators(p)' = Separators(p) /\ Logged(p)' = Logged(p) /\ Plain(p)' = Plain(p)
  BY <1>1, SameWal
<1>3. (InOp(p)' <=> InOp(p)) /\ Stamp(p)' = Stamp(p)
  BY <1>1 DEF InOp, Stamp
<1>4. Versions(p)' = Versions(p)
  BY <1>1, <1>2, <1>3 DEF Versions, Of
<1>5. Initialised(p)'
  BY <1>1, SameImages DEF Counting, Initialised
<1>6. Agree(Separators(p)', Versions(p)') /\ Follow(Separators(p)', Versions(p)', Plain(p)')
  BY <1>2, <1>4 DEF Counting
<1>7. CASE CheckpointBegin
  <2>1. /\ redoPtr' = Len(wal) /\ todo' = dirty /\ ckpt' = ckpt /\ op = None
    BY <1>7 DEF CheckpointBegin
  <2>2. ~InOp(p) /\ Stamp(p) = buf[p].lsn
    BY <2>1 DEF InOp, Stamp
  <2>3. Kept(p)'
    BY <1>1, <1>2, <1>3, <2>1, <2>2 DEF Counting, Kept
  <2> QED BY <1>3, <1>5, <1>6, <2>2, <2>3 DEF Counting
<1>8. CASE CheckpointEnd
  <2>1. todo = {} /\ todo' = None /\ ckpt' = redoPtr /\ redoPtr' = redoPtr
    BY <1>8 DEF CheckpointEnd
  <2>2. todo # None
    BY <2>1, NoneAssumption
  <2>3. Kept(p)'
    BY <1>1, <1>2, <1>3, <2>1, <2>2 DEF Counting, Kept
  <2>4. InOp(p) => Pending(p)'
    BY <1>1, <1>2, <1>4, <2>1 DEF Counting, Pending, Takes, Adds, IsInsert
  <2> QED BY <1>3, <1>5, <1>6, <2>3, <2>4 DEF Counting
<1> QED BY <1>7, <1>8

\* The end of the WAL and the contents of the buffers are lost.
LEMMA CrashCounting ==
    ASSUME Types, NEW n \in 0..Len(wal), Crash(n), NEW p \in Counted, Counting(p)
    PROVE  Counting(p)'
<1> DEFINE S == Separators(p)
<1>1. /\ n >= flushed /\ buf' = disk /\ dirty' = {} /\ wal' = SubSeq(wal, 1, n)
      /\ mode' = "redo" /\ pos' = ckpt /\ todo' = None /\ op' = None
      /\ UNCHANGED <<disk, ckpt>>
  BY DEF Crash
<1>2. wal \in Seq(LogEntry) /\ Len(wal) \in Nat /\ n \in Nat /\ n <= Len(wal)
  BY DEF Types, Log
<1>3. Len(wal') = n /\ \A i \in 1..n : wal'[i] = wal[i]
  <2>1. \A i \in 1..n : wal[i] \in LogEntry
    BY <1>2
  <2> QED BY <1>1, <1>2, <2>1, SubSeqProperties
<1>4. 1..n = {k \in 1..Len(wal) : k <= n}
  BY <1>2
<1>5. Separators(p)' = {k \in S : k <= n}
  <2>1. Separators(p)' = {k \in 1..n : IsSeparator(wal[k], p)}
    BY <1>3 DEF Separators, IsSeparator, IsInsert
  <2> QED BY <1>4, <2>1 DEF Separators
<1>6. Logged(p)' \subseteq Logged(p) /\ \A v \in Logged(p)' : v[1] <= n
  <2>1. Logged(p)' = {<<k, CountOf(wal[k])>> : k \in {m \in 1..n : Counts(wal[m], p)}}
    BY <1>3 DEF Logged, Counts, CountOf, IsInsert
  <2>2. ASSUME NEW v \in Logged(p)' PROVE v \in Logged(p) /\ v[1] <= n
    <3>1. PICK k \in 1..n : Counts(wal[k], p) /\ v = <<k, CountOf(wal[k])>>
      BY <2>1, <2>2
    <3>2. k \in {m \in 1..Len(wal) : Counts(wal[m], p)} /\ k <= n
      BY <1>2, <3>1
    <3> QED BY <3>1, <3>2 DEF Logged
  <2> QED BY <2>2
<1>7. Plain(p)' \subseteq Plain(p) /\ \A i \in Plain(p)' : i[1] <= n
  <2>1. Plain(p)' = {<<k, wal[k].off>> : k \in {m \in 1..n : Counts(wal[m], p) /\ wal[m].img = None}}
    BY <1>3 DEF Plain, Counts, IsInsert
  <2>2. ASSUME NEW i \in Plain(p)' PROVE i \in Plain(p) /\ i[1] <= n
    <3>1. PICK k \in 1..n : Counts(wal[k], p) /\ wal[k].img = None /\ i = <<k, wal[k].off>>
      BY <2>1, <2>2
    <3>2. k \in {m \in 1..Len(wal) : Counts(wal[m], p) /\ wal[m].img = None} /\ k <= n
      BY <1>2, <3>1
    <3> QED BY <3>1, <3>2 DEF Plain
  <2> QED BY <2>2
<1>8. ~InOp(p)'
  BY <1>1 DEF InOp
<1>9. Versions(p)' \subseteq Versions(p) /\ \A v \in Versions(p)' : v[1] <= n
  <2>1. Versions(p)' = Logged(p)' \cup {Of(disk[p])}
    BY <1>1, <1>8 DEF Versions, Of
  <2>2. p \in Blk /\ disk[p].lsn \in Nat /\ disk[p].lsn <= flushed /\ flushed \in Nat
    BY CountedPages DEF Types, Pages, Points, PageOK, Page, Lsn
  <2>3. Of(disk[p])[1] <= n
    BY <1>1, <1>2, <2>2 DEF Of
  <2> QED BY <1>6, <2>1, <2>3 DEF Versions
<1>10. Agree(Separators(p)', Versions(p)') /\ Follow(Separators(p)', Versions(p)', Plain(p)')
  <2>1. /\ S \in SUBSET Nat /\ Versions(p) \in SUBSET (Nat \X Nat) /\ Plain(p) \in SUBSET (Nat \X Nat)
    BY SetsOK
  <2>2. Agree(S, Versions(p)) /\ Follow(S, Versions(p), Plain(p))
    BY DEF Counting
  <2> HIDE DEF S
  <2> QED BY <1>2, <1>5, <1>7, <1>9, <2>1, <2>2, Fewer
<1>11. Initialised(p)'
  <2>1. \A k \in 1..n : Counts(wal[k], p) /\ wal[k].img # None => wal[k].img.init
    BY <1>2 DEF Counting, Initialised
  <2>2. disk[p].init
    BY DEF Counting, Initialised
  <2> QED BY <1>1, <1>3, <2>1, <2>2 DEF Initialised, Counts, IsInsert
<1>12. Kept(p)'
  <2>1. Clear(S, disk[p].lsn, ckpt)
    BY DEF Counting, Kept
  <2>2. Clear(Separators(p)', disk[p].lsn, ckpt)
    BY <1>5, <2>1 DEF Clear
  <2> QED BY <1>1, <2>2 DEF Kept
<1> QED BY <1>8, <1>10, <1>11, <1>12 DEF Counting

\* Recovery ends: what is in the buffers is on disk.
LEMMA RedoEndCounting == ASSUME Types, RedoEnd, NEW p \in Counted, Counting(p) PROVE Counting(p)'
<1>1. /\ mode = "redo" /\ pos = Len(wal) /\ mode' = "run"
      /\ disk' = buf /\ dirty' = {} /\ ckpt' = Len(wal) /\ redoPtr' = Len(wal)
      /\ UNCHANGED <<buf, wal, todo, op, pos>>
  BY DEF RedoEnd, log, client
<1>2. op = None /\ todo = None
  BY <1>1 DEF Types, Points
<1>3. Separators(p)' = Separators(p) /\ Logged(p)' = Logged(p) /\ Plain(p)' = Plain(p)
  BY <1>1, SameWal
<1>4. ~InOp(p) /\ ~InOp(p)' /\ Stamp(p)' = buf[p].lsn
  BY <1>1, <1>2 DEF InOp, Stamp
<1>5. Versions(p)' \subseteq Versions(p)
  BY <1>1, <1>3, <1>4 DEF Versions, Of
<1>6. Initialised(p)'
  BY <1>1, SameImages DEF Counting, Initialised
<1>7. Kept(p)'
  <2>1. Clear(Separators(p), buf[p].lsn, Len(wal))
    BY <1>1 DEF Counting, Kept
  <2> QED BY <1>1, <1>2, <1>3, <1>4, <2>1 DEF Kept
<1>8. Agree(Separators(p)', Versions(p)') /\ Follow(Separators(p)', Versions(p)', Plain(p)')
  BY <1>3, <1>5 DEF Counting, Agree, Follow
<1> QED BY <1>4, <1>6, <1>7, <1>8 DEF Counting

\* Redo of a record does not fail: the page has the items before the one that an
\* insert adds.
LEMMA NoFailure ==
    ASSUME Types, RedoNext, \A p \in Counted : Counting(p)
    PROVE  LET n == pos + 1
               r == wal[n]
           IN  ~(/\ r.type # "COMMIT" /\ r.img = None
                 /\ NeedsRedo(n, buf[r.blk]) /\ RedoFails(r, buf[r.blk]))
<1> DEFINE n == pos + 1
           r == wal[n]
           p == r.blk
<1>1. mode = "redo" /\ n \in 1..Len(wal) /\ n \in Lsn /\ EntryOK(n, r) /\ op = None
  BY RedoNextFacts, Zenon
<1>2. pos \in Nat /\ n = pos + 1
  BY DEF Types, Scalars, Lsn
<1> HIDE DEF n
<1> SUFFICES ASSUME r.type # "COMMIT", r.img = None, NeedsRedo(n, buf[p]), RedoFails(r, buf[p])
             PROVE  FALSE
  BY DEF n
<1>3. Fits(r) /\ p \in Counted
  BY <1>1, CountedPages DEF EntryOK
<1>4. Counting(p)
  BY <1>3
<1>5. IsInsert(r) /\ r.off # Len(buf[p].item) + 1
  BY DEF RedoFails, IsInsert
<1>6. <<n, r.off>> \in Plain(p)
  BY <1>1, <1>5 DEF Plain, Counts
<1>7. Of(buf[p]) \in Versions(p)
  BY <1>1 DEF Versions, InOp
<1>8. Clear(Separators(p), buf[p].lsn, pos) /\ buf[p].lsn < n
  BY <1>1, <1>4 DEF Counting, Kept, NeedsRedo
<1>9. \A v \in Versions(p), i \in Plain(p) :
         v[1] < i[1] /\ Clear(Separators(p), v[1], i[1] - 1) => i[2] = v[2] + 1
  BY <1>4 DEF Counting, Follow
<1> DEFINE v == Of(buf[p])
           i == <<n, r.off>>
<1>10. v[1] = buf[p].lsn /\ v[2] = Len(buf[p].item) /\ i[1] = n /\ i[2] = r.off /\ n - 1 = pos
  BY <1>2 DEF Of
<1> HIDE DEF v, i
<1>11. v \in Versions(p) /\ i \in Plain(p)
  BY <1>6, <1>7 DEF v, i
<1>12. i[2] = v[2] + 1
  BY <1>8, <1>9, <1>10, <1>11
<1> QED BY <1>5, <1>10, <1>12

\* A record is replayed: the page is its image, has another item as the insert
\* says, or has the items it had, and no separator comes in between.
LEMMA RedoNextCounting ==
    ASSUME Types, RedoNext, \A q \in Counted : Counting(q), NEW p \in Counted
    PROVE  Counting(p)'
<1> DEFINE n == pos + 1
           r == wal[n]
           S == Separators(p)
           V == Versions(p)
           c == Len(buf[p].item)
<1>1. /\ mode = "redo" /\ n \in 1..Len(wal) /\ n \in Lsn /\ EntryOK(n, r)
      /\ op = None /\ todo = None
      /\ UNCHANGED <<disk, wal, redoPtr, ckpt, todo, op>>
      /\ pos' = n /\ mode' = "redo"
      /\ r.type = "COMMIT" => buf' = buf /\ dirty' = dirty
      /\ r.type # "COMMIT" =>
            /\ buf' = [q \in Blk |-> Restored(q, n)]
            /\ dirty' = dirty \cup {q \in Blk : Restored(q, n) # buf[q]}
            /\ r.img = None /\ NeedsRedo(n, buf[r.blk]) => ~RedoFails(r, buf[r.blk])
  BY RedoNextFacts, NoFailure, Zenon
<1>2. Counting(p) /\ p \in Blk /\ p # OvfPage
  BY CountedPages
<1>3. pos \in Nat /\ n \in Nat /\ n = pos + 1
  BY DEF Types, Scalars, Lsn
<1>4. Separators(p)' = S /\ Logged(p)' = Logged(p) /\ Plain(p)' = Plain(p)
  BY <1>1, SameWal
<1>5. ~InOp(p) /\ ~InOp(p)'
  BY <1>1 DEF InOp
<1>6. Of(buf[p]) \in V /\ Versions(p)' \subseteq V \cup {Of(buf'[p])}
  BY <1>1, <1>4, <1>5 DEF Versions, Of
<1>7. /\ S \in SUBSET Nat /\ V \in SUBSET (Nat \X Nat) /\ Plain(p) \in SUBSET (Nat \X Nat)
  BY SetsOK
<1>8. /\ Agree(S, V) /\ Follow(S, V, Plain(p)) /\ Initialised(p)
      /\ Clear(S, disk[p].lsn, ckpt) /\ Clear(S, buf[p].lsn, pos)
      /\ p \notin dirty => buf[p].lsn = disk[p].lsn
  BY <1>1, <1>2 DEF Counting, Kept
<1>9. buf[p].lsn \in Nat /\ c \in Nat /\ PageOK(p, buf[p])
  BY <1>2, BufferOK DEF Page, Lsn
<1>10. p \notin dirty' => p \notin dirty /\ buf'[p] = buf[p]
  BY <1>1, <1>2
<1> HIDE DEF n, r, S, V, c
<1> DEFINE Ok == /\ Agree(S, Versions(p)') /\ Follow(S, Versions(p)', Plain(p))
                 /\ Clear(S, buf'[p].lsn, n) /\ buf'[p].init
<1>11. ASSUME Of(buf'[p]) \in V PROVE Agree(S, Versions(p)') /\ Follow(S, Versions(p)', Plain(p))
  <2>1. Versions(p)' \subseteq V
    BY <1>6, <1>11
  <2> QED BY <1>8, <2>1 DEF Agree, Follow
<1>12. ASSUME n \notin S PROVE Clear(S, buf[p].lsn, n)
  <2>1. ASSUME NEW k \in S PROVE ~(buf[p].lsn < k /\ k <= n)
    <3>1. ~(buf[p].lsn < k /\ k <= pos) /\ k \in Nat /\ k # n
      BY <1>7, <1>8, <1>12 DEF Clear
    <3> QED BY <1>3, <3>1
  <2> QED BY <2>1 DEF Clear
<1>13. Clear(S, n, n)
  BY <1>3, <1>7 DEF Clear
<1>14. ASSUME r.type = "COMMIT" \/ r.blk # p PROVE Ok
  <2>1. n \notin S
    BY <1>14 DEF S, r, Separators, IsSeparator
  <2>2. buf'[p] = buf[p]
    <3>1. CASE r.type = "COMMIT"
      BY <1>1, <3>1
    <3>2. CASE r.type # "COMMIT" /\ r.blk # p
      BY <1>1, <1>2, <3>2 DEF Restored, r
    <3> QED BY <1>14, <3>1, <3>2
  <2> QED BY <1>6, <1>8, <1>11, <1>12, <2>1, <2>2 DEF Initialised
<1>15. ASSUME r.type # "COMMIT", r.blk = p, r.img # None PROVE Ok
  <2>1. buf'[p] = r.img
    BY <1>1, <1>2, <1>15 DEF Restored, r
  <2>2. Counts(r, p) /\ r.img.init
    BY <1>1, <1>8, <1>15 DEF Counts, Initialised, r
  <2>3. r.img.lsn = n
    BY <1>1, <1>15 DEF EntryOK, ImageOK
  <2>4. Of(r.img) = <<n, CountOf(r)>>
    BY <1>15, <2>3 DEF Of, CountOf
  <2>5. Of(buf'[p]) \in V
    BY <1>1, <2>1, <2>2, <2>4 DEF V, Versions, Logged, r
  <2> QED BY <1>11, <1>13, <2>1, <2>2, <2>3, <2>5
<1>16. ASSUME r.type # "COMMIT", r.blk = p, r.img = None, NeedsRedo(n, buf[p]) PROVE Ok
  <2>1. buf'[p] = Redone(r, buf[p], n)
    BY <1>1, <1>2, <1>16 DEF Restored, Redone, r
  <2>2. Fits(r) /\ ~RedoFails(r, buf[p])
    BY <1>1, <1>16 DEF EntryOK
  <2>3. /\ buf'[p].lsn = n /\ buf'[p].init = buf[p].init
        /\ Len(buf'[p].item) = IF IsInsert(r) THEN c + 1 ELSE c
    <3>1. PageOK(r.blk, buf[p]) /\ n \in Lsn
      BY <1>1, <1>9, <1>16
    <3>2. /\ buf'[p].lsn = n /\ buf'[p].init = buf[p].init
          /\ Len(buf'[p].item) = IF IsInsert(r) THEN Len(buf[p].item) + 1 ELSE Len(buf[p].item)
      BY <2>1, <2>2, <3>1, RedoPageOK
    <3> QED BY <3>2 DEF c
  <2>4. buf'[p].init
    BY <1>8, <2>3 DEF Initialised
  <2>5. CASE IsInsert(r)
    <3>1. Counts(r, p) /\ CountOf(r) = r.off /\ r.off = c + 1
      BY <1>16, <2>2, <2>5 DEF Counts, CountOf, RedoFails, IsInsert, c
    <3>2. Of(buf'[p]) = <<n, CountOf(r)>>
      BY <2>3, <2>5, <3>1 DEF Of
    <3>3. Of(buf'[p]) \in V
      BY <1>1, <3>1, <3>2 DEF V, Versions, Logged, r
    <3> QED BY <1>11, <1>13, <2>3, <2>4, <3>3
  <2>6. CASE ~IsInsert(r)
    <3>1. n \notin S
      BY <1>16, <2>6 DEF S, r, Separators, IsSeparator
    <3>2. Of(buf'[p]) = <<n, c>> /\ Of(buf[p]) = <<buf[p].lsn, c>>
      BY <2>3, <2>6 DEF Of, c
    <3> DEFINE l == buf[p].lsn
               I == Plain(p)
    <3>3. Clear(S, l, n) /\ l <= n /\ l \in Nat
      BY <1>3, <1>9, <1>12, <1>16, <3>1 DEF NeedsRedo
    <3>4. <<l, c>> \in V /\ Agree(S, V) /\ Follow(S, V, I) /\ I \in SUBSET (Nat \X Nat)
      BY <1>6, <1>7, <1>8, <3>2
    <3> HIDE DEF l, I
    <3>5. Agree(S, V \cup {<<n, c>>}) /\ Follow(S, V \cup {<<n, c>>}, I)
      BY <1>3, <1>7, <1>9, <3>3, <3>4, LaterVersion
    <3>6. Agree(S, Versions(p)') /\ Follow(S, Versions(p)', I)
      BY <1>6, <3>2, <3>5 DEF Agree, Follow
    <3> QED BY <1>13, <2>3, <2>4, <3>6 DEF I
  <2> QED BY <2>5, <2>6
<1>17. ASSUME r.type # "COMMIT", r.blk = p, r.img = None, ~NeedsRedo(n, buf[p]) PROVE Ok
  <2>1. buf'[p] = buf[p]
    BY <1>1, <1>2, <1>17 DEF Restored, r
  <2>2. buf[p].init /\ n <= buf[p].lsn
    BY <1>3, <1>8, <1>9, <1>17 DEF NeedsRedo, Initialised
  <2>3. Clear(S, buf[p].lsn, n)
    <3> SUFFICES ASSUME NEW k \in S PROVE ~(buf[p].lsn < k /\ k <= n)
      BY DEF Clear
    <3> DEFINE l == buf[p].lsn
    <3>1. k \in Nat /\ n \in Nat /\ l \in Nat /\ n <= l
      BY <1>3, <1>7, <1>9, <2>2
    <3> HIDE DEF l
    <3>2. ~(l < k /\ k <= n)
      BY <3>1
    <3> QED BY <3>2 DEF l
  <2> QED BY <1>6, <1>11, <2>1, <2>2, <2>3
<1>18. Ok
  BY <1>14, <1>15, <1>16, <1>17
<1>19. Initialised(p)'
  BY <1>1, <1>8, <1>18, SameImages DEF Initialised
<1>20. Kept(p)'
  <2>1. p \notin dirty' => buf'[p].lsn = disk[p].lsn
    BY <1>8, <1>10
  <2> QED BY <1>1, <1>4, <1>8, <1>18, <2>1 DEF Kept
<1> QED BY <1>4, <1>5, <1>18, <1>19, <1>20 DEF Counting

\* Every step.
LEMMA NextReplayable == ASSUME CheckpointApart, Replayable, [Next]_vars PROVE Replayable'
<1>1. Types /\ Types' /\ mode # "failed" /\ Rest /\ \A p \in Counted : Counting(p)
  BY NextTypes DEF Replayable
<1> DEFINE Ok == mode' # "failed" /\ Rest' /\ \A p \in Counted : Counting(p)'
<1>2. ASSUME Write PROVE Ok
  <2>1. ASSUME Begins PROVE Ok
    <3>1. PICK new, records, facts : Enter(new, records, facts) /\ Section(new, records)
      BY <2>1 DEF Begins
    <3>2. mode' = mode
      BY <1>1, <3>1, EnterFacts
    <3> QED BY <1>1, <3>1, <3>2, EnterCounting, EnterRest
  <2>2. ASSUME NEW off \in Items(EdgePage), UpdateProps(off) PROVE Ok
    <3>1. op' = None /\ mode' = mode
      BY <2>2 DEF UpdateProps, server
    <3> QED BY <1>1, <2>2, <3>1, UpdatePropsCounting DEF Rest
  <2> QED BY <1>1, <1>2, <2>1, <2>2, WriteBegins
<1>3. ASSUME LogNext PROVE Ok
  <2>1. mode' = mode
    BY <1>3 DEF LogNext, server
  <2> QED BY <1>1, <1>3, <2>1, LogNextRest, LogNextHere, LogNextElsewhere
<1>4. ASSUME OpEnd PROVE Ok
  <2>1. op' = None /\ mode' = mode
    BY <1>4 DEF OpEnd, server
  <2> QED BY <1>1, <1>4, <2>1, OpEndCounting DEF Rest
<1>5. ASSUME Commit PROVE Ok
  <2>1. op' = None /\ mode' = mode
    BY <1>5 DEF Commit, server
  <2> QED BY <1>1, <1>5, <2>1, CommitCounting DEF Rest
<1>6. ASSUME NEW q \in Blk, WritePage(q) PROVE Ok
  <2>1. op' = op /\ buf' = buf /\ mode' = mode
    BY <1>6 DEF WritePage, server
  <2>2. Rest'
    BY <1>1, <2>1 DEF Rest, IsInsert
  <2> QED BY <1>1, <1>6, <2>1, <2>2, WritePageCounting
<1>7. ASSUME CheckpointBegin \/ CheckpointEnd PROVE Ok
  <2>1. op' = op /\ buf' = buf /\ mode' = mode
    BY <1>7 DEF CheckpointBegin, CheckpointEnd, pages, server
  <2>2. Rest'
    BY <1>1, <2>1 DEF Rest, IsInsert
  <2> QED BY <1>1, <1>7, <2>1, <2>2, CheckpointCounting
<1>8. ASSUME NEW n \in 0..Len(wal), Crash(n) PROVE Ok
  <2>1. op' = None /\ mode' = "redo"
    BY <1>8 DEF Crash
  <2> QED BY <1>1, <1>8, <2>1, CrashCounting DEF Rest
<1>9. ASSUME RedoNext PROVE Ok
  <2>1. op' = None /\ mode' = "redo"
    BY <1>1, <1>9, RedoNextFacts, NoFailure, Zenon
  <2> QED BY <1>1, <1>9, <2>1, RedoNextCounting DEF Rest
<1>10. ASSUME RedoEnd PROVE Ok
  <2>1. op' = op /\ mode' = "run" /\ mode = "redo"
    BY <1>10 DEF RedoEnd
  <2>2. op = None
    BY <1>1, <2>1 DEF Types, Points
  <2> QED BY <1>1, <1>10, <2>1, <2>2, RedoEndCounting DEF Rest
<1>11. ASSUME UNCHANGED vars PROVE Ok
  <2>1. UNCHANGED <<buf, disk, dirty, wal, redoPtr, ckpt, todo, op, mode, pos, fpw>>
    BY <1>11 DEF vars, pages, log, ckptVars, server
  <2>2. Rest'
    BY <1>1, <2>1 DEF Rest, IsInsert
  <2>3. ASSUME NEW p \in Counted PROVE Counting(p)'
    <3>1. Separators(p)' = Separators(p) /\ Logged(p)' = Logged(p) /\ Plain(p)' = Plain(p)
      BY <2>1, SameWal
    <3>2. (InOp(p)' <=> InOp(p)) /\ Versions(p)' = Versions(p) /\ Stamp(p)' = Stamp(p)
      BY <2>1, <3>1 DEF InOp, Versions, Of, Stamp
    <3>3. Counting(p)
      BY <1>1
    <3>4. Initialised(p)'
      BY <2>1, <3>3, SameImages DEF Counting, Initialised
    <3>5. Kept(p)'
      BY <2>1, <3>1, <3>2, <3>3 DEF Counting, Kept
    <3>6. InOp(p) => Pending(p)'
      BY <2>1, <3>1, <3>2, <3>3 DEF Counting, Pending, Takes, Adds, IsInsert
    <3> QED BY <3>1, <3>2, <3>3, <3>4, <3>5, <3>6 DEF Counting
  <2> QED BY <1>1, <2>1, <2>2, <2>3
<1>12. Ok
  BY <1>2, <1>3, <1>4, <1>5, <1>6, <1>7, <1>8, <1>9, <1>10, <1>11 DEF Next
<1> QED BY <1>1, <1>12 DEF Replayable, Counted

\* Recovery never stops with an error: no record adds an item where the page has
\* one already, or leaves a gap, if no checkpoint starts in a critical section (it
\* would leave out the section's pages, which are not marked dirty yet, though it
\* may come after some of the section's records).
THEOREM RedoNeverFails == ASSUME CheckpointApart PROVE Spec => []RedoSucceeds
<1>1. Replayable => RedoSucceeds
  BY DEF Replayable, RedoSucceeds
<1>2. Replayable /\ [Next]_vars => Replayable'
  BY NextReplayable
<1> QED BY <1>1, <1>2, InitReplayable, PTL DEF Spec
=============================================================================
