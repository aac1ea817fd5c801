----------------------------- MODULE DurableProofs -----------------------------
(***************************************************************************)
(* Items survive crashes, for any number of node pages, WAL records,       *)
(* operations and crashes and every page capacity, if no checkpoint starts *)
(* inside a critical section.                                              *)
(*                                                                         *)
(* A version of a page shows all that the records up to its LSN say of its *)
(* items, and has no others.  In recovery, a buffer shows what the records *)
(* up to the one replayed last say: that is so of the file and the records *)
(* up to the checkpoint, and each record replayed adds what it says itself.*)
(* So it is with the overflow block, of which a record that adds a node    *)
(* with big properties carries the image.                                  *)
(***************************************************************************)
EXTENDS RecoveryProofs

IsDelete(r) == r.type \in {"NODE_DELETE", "EDGE_DELETE"}
About(r, p) == r.type # "COMMIT" /\ r.blk = p

\* The items every version of a page has.
First(p) == IF p \in NodePage THEN 1 ELSE 0

\* The items s of a page show what a record says; and those up to the m-th in w.
Shows(s, r) ==
    /\ IsInsert(r) => r.off \in 1..Len(s) /\ s[r.off].id = r.data.id
    /\ IsDelete(r) => r.off \in 1..Len(s) /\ s[r.off].xmax # 0
Covers(s, r) == Shows(s, r) /\ (r.img # None => Len(r.img.item) \in 0..Len(s))
Reflects(w, s, p, m) ==
    /\ First(p) <= Len(s)
    /\ \A k \in 1..Len(w) : k <= m /\ About(w[k], p) => Covers(s, w[k])

\* The first m records of w leave the page with an item i.
Gives(r, i) ==
    \/ IsInsert(r) /\ r.off = i
    \/ r.img # None /\ i \in 1..Len(r.img.item)
Backed(w, p, i, m) ==
    \/ i <= First(p)
    \/ \E k \in 1..Len(w) : k <= m /\ About(w[k], p) /\ Gives(w[k], i)

\* Some transaction deleted an item.
DelFact(d, p, i) == \E f \in d : f.kind = "del" /\ f.blk = p /\ f.off = i
Known(d, s, p) ==
    \A i \in 1..Len(s) : /\ s[i].lp = "dead" => s[i].xmax # 0
                         /\ s[i].xmax # 0 => DelFact(d, p, i)

Version(w, d, page, p) ==
    /\ Reflects(w, page.item, p, page.lsn)
    /\ \A i \in 1..Len(page.item) : Backed(w, p, i, page.lsn)
    /\ Known(d, page.item, p)

\* A record deletes an item that the m records before it leave, and that somebody
\* deleted; or adds one that nobody has.
Fresh(i) == i.xmax = 0 /\ i.lp = "normal"
Founded(w, d, r, p, m) ==
    /\ IsDelete(r) => r.off \in Nat \ {0} /\ Backed(w, p, r.off, m) /\ DelFact(d, p, r.off)
    /\ IsInsert(r) => Fresh(r.data)

EntriesOK(p) ==
    \A n \in 1..Len(wal) : About(wal[n], p) =>
        /\ wal[n].img # None => Version(wal, did, wal[n].img, p)
        /\ Founded(wal, did, wal[n], p, n - 1)

\* The file shows the records up to the checkpoint, and those up to the next one
\* unless that has yet to write the page.
DiskOK(p) ==
    /\ Version(wal, did, disk[p], p)
    /\ Reflects(wal, disk[p].item, p, ckpt)
    /\ todo # None /\ p \notin todo => Reflects(wal, disk[p].item, p, redoPtr)

\* The buffer shows all records, in recovery those that have been replayed.
BufOK(p) ==
    /\ Reflects(wal, buf[p].item, p, IF mode = "run" THEN Len(wal) ELSE pos)
    /\ Known(did, buf[p].item, p)
    /\ ~InOp(p) => Version(wal, did, buf[p], p) /\ (p \notin dirty => buf[p] = disk[p])

\* In a critical section it shows the pending records, too, and may have their item.
Comes(records, p, i) ==
    \E j \in 1..Len(records) : records[j].blk = p /\ IsInsert(records[j]) /\ records[j].off = i
SectionShown(p) ==
    InOp(p) =>
        /\ \A i \in 1..Len(buf[p].item) : Backed(wal, p, i, op.lsn[p]) \/ Comes(op.todo, p, i)
        /\ \A j \in 1..Len(op.todo) : op.todo[j].blk = p =>
              Shows(buf[p].item, op.todo[j]) /\ Founded(wal, did, op.todo[j], p, Len(wal))

Lasting(p) == EntriesOK(p) /\ DiskOK(p) /\ BufOK(p) /\ SectionShown(p)

\* A record says what a transaction did.
End(hd, dir) == IF dir = "out" THEN hd.out ELSE hd.in
Carries(r, f) ==
    /\ r.type # "COMMIT"
    /\ f.kind \in {"add", "del"} => r.blk = f.blk /\ r.off = f.off
    /\ f.kind = "add" => IsInsert(r) /\ r.data.id = f.item.id
    /\ f.kind = "del" => IsDelete(r)
    /\ f.kind = "link" => /\ r.type = "ADJ_UPDATE" /\ <<r.blk, r.off>> = f.hdr
                          /\ End(r.data, f.dir) = f.off
InLog(w, f, m) == \E k \in 1..Len(w) : k < m /\ Carries(w[k], f)
InSection(f) == op # None /\ \E j \in 1..Len(op.todo) : Carries(op.todo[j], f)

\* What a transaction did is in the WAL before its commit; of the one that may yet
\* commit, it is in the WAL or about to be.
FactOK(f) ==
    f.kind \in {"add", "del", "link"} =>
        /\ f.xid \in Nat /\ f.xid <= xid
        /\ \A c \in 1..Len(wal) : wal[c] = CommitOf(f.xid) => InLog(wal, f, c)
        /\ f.xid = xid /\ xid < MaxXid => InLog(wal, f, Len(wal) + 1) \/ InSection(f)

\* A transaction commits once.
CommitsPast == \A c \in 1..Len(wal) : wal[c].type = "COMMIT" => wal[c].xid < xid

Durable ==
    /\ \A p \in Counted : Lasting(p)
    /\ \A f \in did : FactOK(f)
    /\ CommitsPast
    /\ moving = None \/ Fresh(moving)

-----------------------------------------------------------------------------
USE RecoveryAssumption

(* What records say of items                                               *)

\* Items of which none is lost, renamed or undeleted.
Grows(s, t) ==
    /\ Len(s) <= Len(t)
    /\ \A i \in 1..Len(s) : t[i].id = s[i].id /\ (s[i].xmax # 0 => t[i].xmax # 0)

\* Such items show what they showed before.
LEMMA GrowsShows ==
    ASSUME NEW s, NEW t, Len(s) \in Nat, Len(t) \in Nat, Grows(s, t), NEW r
    PROVE  (Shows(s, r) => Shows(t, r)) /\ (Covers(s, r) => Covers(t, r))
<1>1. ASSUME NEW i \in 1..Len(s) PROVE i \in 1..Len(t) /\ t[i].id = s[i].id /\ (s[i].xmax # 0 => t[i].xmax # 0)
  BY DEF Grows
<1>2. Shows(s, r) => Shows(t, r)
  BY <1>1 DEF Shows
<1>3. 0..Len(s) \subseteq 0..Len(t)
  BY DEF Grows
<1> QED BY <1>2, <1>3 DEF Covers

\* Reflects of items that grow, of fewer records, and of one more.
LEMMA ReflectsGrows ==
    ASSUME NEW w, NEW s, NEW t, NEW p, NEW m, Len(s) \in Nat, Len(t) \in Nat, Grows(s, t),
           Reflects(w, s, p, m)
    PROVE  Reflects(w, t, p, m)
<1>1. First(p) <= Len(t)
  BY DEF Reflects, Grows, First
<1> QED BY <1>1, GrowsShows DEF Reflects

LEMMA ReflectsFewer ==
    ASSUME NEW w, NEW s, NEW p, NEW m \in Nat, NEW n \in Nat, n <= m, Reflects(w, s, p, m)
    PROVE  Reflects(w, s, p, n)
<1>1. \A k \in 1..Len(w) : k <= n => k <= m
  OBVIOUS
<1> QED BY <1>1 DEF Reflects

LEMMA ReflectsNext ==
    ASSUME NEW w, NEW s, NEW p, NEW m \in Nat, Reflects(w, s, p, m),
           m + 1 \in 1..Len(w), About(w[m + 1], p) => Covers(s, w[m + 1])
    PROVE  Reflects(w, s, p, m + 1)
<1>1. \A k \in 1..Len(w) : k <= m + 1 => k <= m \/ k = m + 1
  OBVIOUS
<1> QED BY <1>1 DEF Reflects

\* The first m records of two logs are the same.
Prefix(w, v, m) == m \in Nat /\ m <= Len(w) /\ m <= Len(v) /\ \A k \in 1..m : w[k] = v[k]

LEMMA PrefixReflects ==
    ASSUME NEW w, NEW v, NEW n, Prefix(w, v, n), Len(w) \in Nat, Len(v) \in Nat,
           NEW s, NEW p, NEW m \in Nat, m <= n
    PROVE  Reflects(w, s, p, m) => Reflects(v, s, p, m)
<1>1. \A k \in 1..Len(v) : k <= m => k \in 1..Len(w) /\ v[k] = w[k]
  BY DEF Prefix
<1> QED BY <1>1 DEF Reflects

LEMMA PrefixBacked ==
    ASSUME NEW w, NEW v, NEW n, Prefix(w, v, n), Len(w) \in Nat, Len(v) \in Nat,
           NEW p, NEW i, NEW m \in Nat, m <= n
    PROVE  Backed(w, p, i, m) => Backed(v, p, i, m)
<1>1. \A k \in 1..Len(w) : k <= m => k \in 1..Len(v) /\ v[k] = w[k]
  BY DEF Prefix
<1> QED BY <1>1 DEF Backed

LEMMA BackedMore ==
    ASSUME NEW w, NEW p, NEW i, NEW m \in Nat, NEW n \in Nat, m <= n
    PROVE  Backed(w, p, i, m) => Backed(w, p, i, n)
<1>1. \A k \in 1..Len(w) : k <= m => k <= n
  OBVIOUS
<1> QED BY <1>1 DEF Backed

\* An item that the records leave is there.
LEMMA BackedThere ==
    ASSUME NEW w, NEW s, NEW p, NEW m, NEW i \in Nat \ {0}, Len(s) \in Nat,
           Reflects(w, s, p, m), Backed(w, p, i, m)
    PROVE  i \in 1..Len(s)
<1>1. CASE i <= First(p)
  BY <1>1 DEF Reflects, First
<1>2. CASE ~(i <= First(p))
  <2>1. PICK k \in 1..Len(w) : k <= m /\ About(w[k], p) /\ Gives(w[k], i)
    BY <1>2 DEF Backed
  <2>2. Covers(s, w[k])
    BY <2>1 DEF Reflects
  <2>3. CASE IsInsert(w[k]) /\ w[k].off = i
    BY <2>2, <2>3 DEF Covers, Shows
  <2>4. CASE w[k].img # None /\ i \in 1..Len(w[k].img.item)
    BY <2>2, <2>4 DEF Covers
  <2> QED BY <2>1, <2>3, <2>4 DEF Gives
<1> QED BY <1>1, <1>2

\* More is known of items when more facts are.
LEMMA KnownMore ==
    ASSUME NEW d, NEW e, d \subseteq e, NEW s, NEW p, NEW i
    PROVE  (DelFact(d, p, i) => DelFact(e, p, i)) /\ (Known(d, s, p) => Known(e, s, p))
<1>1. \A j : DelFact(d, p, j) => DelFact(e, p, j)
  BY DEF DelFact
<1> QED BY <1>1 DEF Known

LEMMA PrefixVersion ==
    ASSUME NEW w, NEW v, NEW n, Prefix(w, v, n), Len(w) \in Nat, Len(v) \in Nat,
           NEW d, NEW e, d \subseteq e, NEW p, NEW page, page.lsn \in Nat, page.lsn <= n
    PROVE  Version(w, d, page, p) => Version(v, e, page, p)
<1>1. Reflects(w, page.item, p, page.lsn) => Reflects(v, page.item, p, page.lsn)
  BY PrefixReflects
<1>2. \A i : Backed(w, p, i, page.lsn) => Backed(v, p, i, page.lsn)
  BY PrefixBacked
<1>3. Known(d, page.item, p) => Known(e, page.item, p)
  BY KnownMore
<1> QED BY <1>1, <1>2, <1>3 DEF Version

LEMMA PrefixFounded ==
    ASSUME NEW w, NEW v, NEW n, Prefix(w, v, n), Len(w) \in Nat, Len(v) \in Nat,
           NEW d, NEW e, d \subseteq e, NEW p, NEW r, NEW m \in Nat, m <= n
    PROVE  Founded(w, d, r, p, m) => Founded(v, e, r, p, m)
<1>1. Backed(w, p, r.off, m) => Backed(v, p, r.off, m)
  BY PrefixBacked
<1>2. DelFact(d, p, r.off) => DelFact(e, p, r.off)
  BY KnownMore
<1> QED BY <1>1, <1>2 DEF Founded

-----------------------------------------------------------------------------
(* The log, the files and the facts                                        *)

\* What is known of the WAL and of the LSNs.
LEMMA LogOK ==
    ASSUME Types, NEW p \in Counted
    PROVE  /\ p \in Blk /\ p # OvfPage /\ Len(wal) \in Nat /\ pos \in Nat /\ ckpt \in Nat /\ redoPtr \in Nat
           /\ ckpt <= redoPtr /\ redoPtr <= Len(wal)
           /\ buf[p].lsn \in Nat /\ buf[p].lsn <= Len(wal) /\ Len(buf[p].item) \in Nat
           /\ disk[p].lsn \in Nat /\ disk[p].lsn <= Len(wal) /\ Len(disk[p].item) \in Nat
           /\ disk[p].lsn <= flushed /\ flushed \in 0..Len(wal) /\ ckpt <= flushed
           /\ \A n \in 1..Len(wal) : About(wal[n], p) =>
                 /\ Fits(wal[n])
                 /\ wal[n].img # None => /\ wal[n].img.lsn = n /\ PageOK(p, wal[n].img)
                                         /\ Len(wal[n].img.item) \in Nat
<1>1. p \in Blk /\ p # OvfPage
  BY CountedPages
<1>2. Len(wal) \in Nat /\ pos \in Nat
  BY DEF Types, Log, Scalars, Lsn
<1>3. buf[p].lsn \in Nat /\ disk[p].lsn \in Nat /\ Len(buf[p].item) \in Nat /\ Len(disk[p].item) \in Nat
  BY <1>1 DEF Types, Pages, PageOK, Page, Lsn
<1>4. buf[p].lsn <= Len(wal) /\ disk[p].lsn <= flushed
  BY <1>1 DEF Types, Pages
<1>5. flushed \in 0..Len(wal) /\ ckpt \in Nat /\ redoPtr \in Nat /\ ckpt <= redoPtr /\ redoPtr <= Len(wal) /\ ckpt <= flushed
  BY DEF Types, Points
<1>6. ASSUME NEW n \in 1..Len(wal), About(wal[n], p)
      PROVE  /\ Fits(wal[n])
             /\ wal[n].img # None => /\ wal[n].img.lsn = n /\ PageOK(p, wal[n].img)
                                     /\ Len(wal[n].img.item) \in Nat
  <2>1. EntryOK(n, wal[n])
    BY DEF Types, Log
  <2>2. Fits(wal[n]) /\ ImageOK(n, p, wal[n].img)
    BY <1>6, <2>1 DEF EntryOK, About
  <2> QED BY <2>2 DEF ImageOK, PageOK, Page
<1>7. disk[p].lsn <= Len(wal)
  BY <1>2, <1>3, <1>4, <1>5
<1> QED BY <1>1, <1>2, <1>3, <1>4, <1>5, <1>6, <1>7

\* The records that stay.
LEMMA EntriesPrefix ==
    ASSUME Types, NEW p \in Counted, EntriesOK(p), NEW m \in Nat, Prefix(wal, wal', m),
           Len(wal') \in Nat, did \subseteq did'
    PROVE  \A n \in 1..m : About(wal'[n], p) =>
              /\ wal'[n].img # None => Version(wal', did', wal'[n].img, p)
              /\ Founded(wal', did', wal'[n], p, n - 1)
<1> TAKE n \in 1..m
<1> HAVE About(wal'[n], p)
<1>1. n \in 1..Len(wal) /\ wal'[n] = wal[n] /\ Len(wal) \in Nat
  BY LogOK DEF Prefix
<1> DEFINE r == wal[n]
<1>2. /\ r.img # None => Version(wal, did, r.img, p)
      /\ Founded(wal, did, r, p, n - 1)
  BY <1>1 DEF EntriesOK
<1>3. r.img # None => r.img.lsn = n
  BY <1>1, LogOK
<1> HIDE DEF r
<1> DEFINE v == wal'
           e == did'
<1>4. Prefix(wal, v, m) /\ did \subseteq e /\ Len(v) \in Nat
  OBVIOUS
<1> HIDE DEF v, e
<1>5. r.img # None => Version(v, e, r.img, p)
  BY <1>1, <1>2, <1>3, <1>4, PrefixVersion
<1>6. Founded(v, e, r, p, n - 1)
  <2>1. n - 1 \in Nat /\ n - 1 <= m
    OBVIOUS
  <2> QED BY <1>1, <1>2, <1>4, <2>1, PrefixFounded
<1> QED BY <1>1, <1>5, <1>6 DEF r, v, e

\* The file stays.
LEMMA DiskPrefix ==
    ASSUME Types, NEW p \in Counted, DiskOK(p), NEW m \in Nat, Prefix(wal, wal', m),
           Len(wal') \in Nat, did \subseteq did', disk'[p] = disk[p], ckpt' = ckpt,
           disk[p].lsn <= m, ckpt <= m,
           todo' = None \/ (todo' = todo /\ redoPtr' = redoPtr /\ redoPtr <= m)
    PROVE  DiskOK(p)'
<1> DEFINE v == wal'
           e == did'
           g == disk[p]
<1>1. Prefix(wal, v, m) /\ did \subseteq e /\ Len(v) \in Nat
  OBVIOUS
<1>2. Len(wal) \in Nat /\ ckpt \in Nat /\ redoPtr \in Nat /\ g.lsn \in Nat
  BY LogOK
<1> HIDE DEF v, e
<1>3. Version(v, e, g, p)
  BY <1>1, <1>2, PrefixVersion DEF DiskOK
<1>4. Reflects(v, g.item, p, ckpt)
  BY <1>1, <1>2, PrefixReflects DEF DiskOK
<1>5. todo' # None /\ p \notin todo' => Reflects(v, g.item, p, redoPtr')
  <2> SUFFICES ASSUME todo' # None, p \notin todo' PROVE Reflects(v, g.item, p, redoPtr')
    OBVIOUS
  <2>1. redoPtr' = redoPtr /\ redoPtr <= m /\ Reflects(wal, g.item, p, redoPtr)
    BY DEF DiskOK
  <2> QED BY <1>1, <1>2, <2>1, PrefixReflects
<1> QED BY <1>3, <1>4, <1>5 DEF DiskOK, v, e, g

\* A log that only grows.
LEMMA LogKept ==
    ASSUME Types, Len(wal') \in Nat, Len(wal) <= Len(wal'), \A k \in 1..Len(wal) : wal'[k] = wal[k]
    PROVE  Prefix(wal, wal', Len(wal)) /\ Len(wal) \in Nat
BY DEF Types, Log, Prefix

\* Facts stay true when the log grows and records of critical sections go there.
LEMMA FactsKept ==
    ASSUME Types, NEW f, FactOK(f), Len(wal') \in Nat, Len(wal) <= Len(wal'),
           \A k \in 1..Len(wal) : wal'[k] = wal[k], xid' = xid,
           \A c \in 1..Len(wal') : c > Len(wal) => wal'[c].type # "COMMIT",
           InSection(f) => InSection(f)' \/ InLog(wal', f, Len(wal') + 1)
    PROVE  FactOK(f)'
<1> SUFFICES ASSUME f.kind \in {"add", "del", "link"} PROVE FactOK(f)'
  BY DEF FactOK
<1>0. Len(wal) \in Nat
  BY DEF Types, Log
<1>1. ASSUME NEW m, NEW n, \A k \in 1..Len(wal) : k < m => k < n
      PROVE  InLog(wal, f, m) => InLog(wal', f, n)
  <2>1. \A k \in 1..Len(wal) : k \in 1..Len(wal') /\ wal'[k] = wal[k]
    BY <1>0
  <2> QED BY <1>1, <2>1 DEF InLog
<1>2. \A c \in 1..Len(wal') : wal'[c] = CommitOf(f.xid) => InLog(wal', f, c)
  <2> TAKE c \in 1..Len(wal')
  <2> HAVE wal'[c] = CommitOf(f.xid)
  <2>1. wal'[c].type = "COMMIT"
    BY DEF CommitOf
  <2>2. c \in 1..Len(wal)
    BY <1>0, <2>1
  <2>3. wal[c] = CommitOf(f.xid)
    BY <2>2
  <2>4. InLog(wal, f, c)
    BY <2>2, <2>3 DEF FactOK
  <2> QED BY <1>1, <2>4
<1>3. f.xid = xid /\ xid < MaxXid => InLog(wal', f, Len(wal') + 1) \/ InSection(f)'
  <2>1. \A k \in 1..Len(wal) : k < Len(wal) + 1 => k < Len(wal') + 1
    BY <1>0
  <2>2. InLog(wal, f, Len(wal) + 1) => InLog(wal', f, Len(wal') + 1)
    BY <1>1, <2>1
  <2> QED BY <2>2 DEF FactOK
<1>4. f.xid \in Nat /\ f.xid <= xid
  BY DEF FactOK
<1> QED BY <1>2, <1>3, <1>4 DEF FactOK, CommitOf

-----------------------------------------------------------------------------
(* Critical sections begin                                                 *)

\* What a critical section does to items, and what it is about to log.
Changes ==
    /\ did \subseteq did'
    /\ \A p \in Counted : p \in DOMAIN op'.lsn =>
          Grows(buf[p].item, buf'[p].item) /\ Known(did', buf'[p].item, p)
    /\ \A j \in 1..Len(op'.todo) :
          /\ Shows(buf'[op'.todo[j].blk].item, op'.todo[j])
          /\ IsDelete(op'.todo[j]) => /\ op'.todo[j].off \in 1..Len(buf[op'.todo[j].blk].item)
                                      /\ DelFact(did', op'.todo[j].blk, op'.todo[j].off)
          /\ IsInsert(op'.todo[j]) => Fresh(op'.todo[j].data)
    /\ \A f \in did' \ did : f.kind \in {"add", "del", "link"} =>
          f.xid = xid /\ \E j \in 1..Len(op'.todo) : Carries(op'.todo[j], f)
    /\ moving' = None \/ Fresh(moving')

LEMMA EnterPage ==
    ASSUME Types, NEW new, NEW records, NEW facts, Enter(new, records, facts), Section(new, records),
           Changes, NEW p \in Counted, Lasting(p)
    PROVE  Lasting(p)'
<1>1. /\ mode = "run" /\ op = None /\ op' # None
      /\ op'.todo = records /\ DOMAIN op'.lsn = DOMAIN new
      /\ \A q \in DOMAIN new : op'.lsn[q] = buf[q].lsn /\ buf'[q] = new[q]
      /\ \A q \in Blk \ DOMAIN new : buf'[q] = buf[q]
      /\ UNCHANGED <<dirty, disk, wal, redoPtr, ckpt, todo, mode, pos, fpw>>
  BY EnterFacts
<1>2. p \in Blk /\ p # OvfPage /\ Len(wal) \in Nat /\ disk[p].lsn <= Len(wal) /\ ckpt <= Len(wal) /\ redoPtr <= Len(wal)
      /\ buf[p].lsn \in Nat /\ buf[p].lsn <= Len(wal) /\ Len(buf[p].item) \in Nat
  BY LogOK
<1>3. did \subseteq did' /\ Prefix(wal, wal', Len(wal)) /\ Len(wal') = Len(wal)
  BY <1>1, <1>2, LogKept DEF Changes
<1>4. EntriesOK(p)'
  <2>1. \A n \in 1..Len(wal) : About(wal'[n], p) =>
              /\ wal'[n].img # None => Version(wal', did', wal'[n].img, p)
              /\ Founded(wal', did', wal'[n], p, n - 1)
    BY <1>2, <1>3, EntriesPrefix DEF Lasting
  <2> QED BY <1>3, <2>1 DEF EntriesOK
<1>5. DiskOK(p)'
  BY <1>1, <1>2, <1>3, DiskPrefix DEF Lasting
<1>6. ~InOp(p) /\ (InOp(p)' <=> p \in DOMAIN new)
  BY <1>1 DEF InOp
<1>7. /\ Reflects(wal, buf[p].item, p, Len(wal)) /\ Known(did, buf[p].item, p)
      /\ \A i \in 1..Len(buf[p].item) : Backed(wal, p, i, buf[p].lsn)
      /\ Version(wal, did, buf[p], p)
      /\ p \notin dirty => buf[p] = disk[p]
  BY <1>1, <1>6 DEF Lasting, BufOK, Version
<1>8. CASE p \notin DOMAIN new
  <2>1. buf'[p] = buf[p] /\ ~InOp(p)'
    BY <1>1, <1>2, <1>6, <1>8
  <2>2. Known(did', buf'[p].item, p)
    BY <1>3, <1>7, <2>1, KnownMore
  <2>3. Version(wal, did', buf'[p], p)
    BY <1>7, <2>1, <2>2 DEF Version
  <2>4. BufOK(p)'
    BY <1>1, <1>7, <2>1, <2>2, <2>3 DEF BufOK
  <2> QED BY <1>4, <1>5, <2>1, <2>4 DEF Lasting, SectionShown
<1>9. CASE p \in DOMAIN new
  <2>1. buf'[p] = new[p] /\ op'.lsn[p] = buf[p].lsn /\ InOp(p)' /\ PageOK(p, new[p])
    BY <1>1, <1>6, <1>9 DEF Section
  <2>2. Len(buf'[p].item) \in Nat
    BY <2>1 DEF PageOK, Page
  <2>3. Grows(buf[p].item, buf'[p].item) /\ Known(did', buf'[p].item, p)
    BY <1>1, <1>9 DEF Changes
  <2>4. Reflects(wal, buf'[p].item, p, Len(wal))
    BY <1>2, <1>7, <2>2, <2>3, ReflectsGrows
  <2>5. BufOK(p)'
    BY <1>1, <2>1, <2>3, <2>4 DEF BufOK
  <2>6. ASSUME NEW i \in 1..Len(buf'[p].item)
        PROVE  Backed(wal, p, i, op'.lsn[p]) \/ Comes(op'.todo, p, i)
    <3>1. CASE i <= Len(buf[p].item)
      <4>1. i \in 1..Len(buf[p].item)
        BY <1>2, <3>1
      <4> QED BY <1>7, <2>1, <4>1
    <3>2. CASE ~(i <= Len(buf[p].item))
      <4>1. Adds(records, p) /\ Len(new[p].item) = Len(buf[p].item) + 1
        BY <1>2, <1>9, <2>1, <3>2 DEF Section
      <4>2. i = Len(new[p].item)
        BY <1>2, <2>1, <3>2, <4>1
      <4>3. PICK j \in 1..Len(records) : IsInsert(records[j]) /\ records[j].blk = p
        BY <4>1 DEF Adds
      <4>4. records[j].off = i
        BY <4>2, <4>3 DEF Section
      <4> QED BY <1>1, <4>3, <4>4 DEF Comes
    <3> QED BY <3>1, <3>2
  <2>7. ASSUME NEW j \in 1..Len(op'.todo), op'.todo[j].blk = p
        PROVE  Shows(buf'[p].item, op'.todo[j]) /\ Founded(wal, did', op'.todo[j], p, Len(wal))
    <3> DEFINE r == op'.todo[j]
    <3>1. /\ Shows(buf'[p].item, r)
          /\ IsDelete(r) => r.off \in 1..Len(buf[p].item) /\ DelFact(did', p, r.off)
          /\ IsInsert(r) => Fresh(r.data)
      BY <2>7 DEF Changes
    <3> HIDE DEF r
    <3>2. IsDelete(r) => Backed(wal, p, r.off, Len(wal))
      <4>1. IsDelete(r) => Backed(wal, p, r.off, buf[p].lsn)
        BY <1>7, <3>1
      <4> QED BY <1>2, <4>1, BackedMore
    <3> QED BY <3>1, <3>2 DEF Founded, r
  <2>8. SectionShown(p)'
    BY <1>1, <2>6, <2>7 DEF SectionShown
  <2> QED BY <1>4, <1>5, <2>5, <2>8 DEF Lasting
<1> QED BY <1>8, <1>9

LEMMA EnterDurable ==
    ASSUME Types, NEW new, NEW records, NEW facts, Enter(new, records, facts), Section(new, records),
           Changes, Durable
    PROVE  Durable'
<1>1. /\ mode = "run" /\ op = None /\ op' # None /\ UNCHANGED <<wal, xid>>
  BY EnterFacts DEF Enter
<1>2. \A p \in Counted : Lasting(p)'
  BY EnterPage DEF Durable
<1>3. ASSUME NEW f \in did' PROVE FactOK(f)'
  <2>0. Len(wal) \in Nat
    BY DEF Types, Log
  <2>1. CASE f \in did
    <3>1. FactOK(f) /\ ~InSection(f)
      BY <1>1, <2>1 DEF Durable, InSection
    <3> QED BY <1>1, <2>0, <3>1, FactsKept
  <2>2. CASE f \notin did
    <3> SUFFICES ASSUME f.kind \in {"add", "del", "link"} PROVE FactOK(f)'
      BY DEF FactOK
    <3>1. f.xid = xid /\ \E j \in 1..Len(op'.todo) : Carries(op'.todo[j], f)
      BY <2>2 DEF Changes
    <3>2. InSection(f)'
      BY <1>1, <3>1 DEF InSection
    <3>3. xid \in Nat
      BY DEF Types, Scalars, Xid
    <3>4. \A c \in 1..Len(wal) : wal[c] # CommitOf(f.xid)
      <4> TAKE c \in 1..Len(wal)
      <4> SUFFICES ASSUME wal[c] = CommitOf(xid) PROVE FALSE
        BY <3>1
      <4>1. wal[c].type = "COMMIT" /\ wal[c].xid = xid
        BY DEF CommitOf
      <4> QED BY <3>3, <4>1 DEF Durable, CommitsPast
    <3> QED BY <1>1, <3>1, <3>2, <3>3, <3>4 DEF FactOK, CommitOf
  <2> QED BY <2>1, <2>2
<1>4. CommitsPast'
  BY <1>1 DEF Durable, CommitsPast
<1>5. moving' = None \/ Fresh(moving')
  BY DEF Changes
<1> QED BY <1>2, <1>3, <1>4, <1>5 DEF Durable, Fresh, Counted

-----------------------------------------------------------------------------
(* Critical sections go on and end                                         *)

\* A pending record stays founded when more records precede it.
LEMMA FoundedMore ==
    ASSUME NEW w, NEW d, NEW r, NEW p, NEW m \in Nat, NEW n \in Nat, m <= n, Founded(w, d, r, p, m)
    PROVE  Founded(w, d, r, p, n)
BY BackedMore DEF Founded

\* A record in the WAL is the pending one.
LEMMA SameRecord ==
    ASSUME NEW e, NEW r, e.type = r.type, e.blk = r.blk, e.off = r.off, e.data = r.data
    PROVE  /\ \A s : Shows(s, r) <=> Shows(s, e)
           /\ \A w, d, p, m : Founded(w, d, r, p, m) <=> Founded(w, d, e, p, m)
           /\ \A f : Carries(r, f) <=> Carries(e, f)
           /\ IsInsert(e) <=> IsInsert(r)
BY DEF Shows, Founded, Carries, IsInsert, IsDelete

LEMMA LogNextPage ==
    ASSUME Types, LogNext, Rest, NEW p \in Counted, Lasting(p)
    PROVE  Lasting(p)'
<1> DEFINE r == op.todo[1]
           m == Len(wal)
           n == Len(wal) + 1
           e == wal'[n]
<1>1. /\ mode = "run" /\ op # None /\ op' # None /\ r.blk \in Counted
      /\ UNCHANGED <<buf, dirty, disk, redoPtr, ckpt, todo, mode, pos, fpw>>
      /\ Len(wal') = n /\ m \in Nat /\ \A k \in 1..m : wal'[k] = wal[k]
      /\ Imaging(r) => [buf[r.blk] EXCEPT !.lsn = n] # None
  BY LogNextMore, Zenon
<1>2. /\ SectionOK(op) /\ Len(op.todo) >= 1 /\ Fits(r) /\ r.blk \in DOMAIN op.lsn
      /\ e.type = r.type /\ e.blk = r.blk /\ e.off = r.off /\ e.data = r.data
      /\ e.img = IF Imaging(r) THEN [buf[r.blk] EXCEPT !.lsn = n] ELSE None
      /\ op'.todo \in Seq(PendingRecord) /\ Len(op'.todo) = Len(op.todo) - 1
      /\ \A i \in 1..Len(op'.todo) : op'.todo[i] = op.todo[i + 1]
      /\ DOMAIN op'.lsn = DOMAIN op.lsn
      /\ \A q \in DOMAIN op.lsn : op'.lsn[q] \in {op.lsn[q], n}
      /\ r.stamp => op'.lsn[r.blk] = n
  BY LogNextEntry, Zenon
<1>3. /\ did' = did
      /\ r.stamp \/ r.type = "ADJ_UPDATE"
  <2>1. r.stamp \/ r.type = "ADJ_UPDATE"
    BY FirstRecord, Zenon
  <2> QED BY <2>1 DEF LogNext
<1>4. p \in Blk /\ p # OvfPage /\ disk[p].lsn <= m /\ ckpt <= m /\ redoPtr <= m
      /\ buf[p].lsn \in Nat /\ buf[p].lsn <= m /\ Len(buf[p].item) \in Nat /\ buf[p] \in Page(p)
  BY LogOK, BufferOK
<1>5. Len(op.todo) \in Nat /\ Len(op'.todo) \in Nat /\ 1 \in 1..Len(op.todo)
  <2>1. Len(op.todo) \in Nat /\ Len(op'.todo) \in Nat
    BY <1>2 DEF SectionOK
  <2> QED BY <1>2, <2>1
<1>6. /\ \A s : Shows(s, r) => Shows(s, e)
      /\ \A w, d, q, k : Founded(w, d, r, q, k) => Founded(w, d, e, q, k)
      /\ IsInsert(e) <=> IsInsert(r)
  <2> HIDE DEF e, r, n
  <2> QED BY <1>2, SameRecord
<1>7. n \in Nat /\ m \in Nat /\ n = m + 1 /\ Len(wal) = m
  BY <1>1
<1> DEFINE v == wal'
           s == buf[p].item
<1>8. Prefix(wal, v, m) /\ Len(v) = n /\ v[n] = e
  BY <1>1, LogKept
<1> HIDE DEF e, n, v, r, m
<1>9. About(e, p) <=> r.blk = p
  BY <1>2 DEF About, Fits
<1>10. r.blk = p => InOp(p)
  BY <1>1, <1>2 DEF InOp
<1>11. InOp(p) =>
        /\ \A i \in 1..Len(s) : Backed(wal, p, i, op.lsn[p]) \/ Comes(op.todo, p, i)
        /\ \A j \in 1..Len(op.todo) : op.todo[j].blk = p =>
              Shows(s, op.todo[j]) /\ Founded(wal, did, op.todo[j], p, m)
  BY <1>7 DEF Lasting, SectionShown
<1>12. r.blk = p => Shows(s, e) /\ Founded(wal, did, e, p, m)
  BY <1>5, <1>6, <1>10, <1>11 DEF r
<1>13. r.blk = p /\ e.img # None => e.img.item = s /\ e.img.lsn = n
  BY <1>2, <1>4 DEF Page
<1>14. /\ Reflects(wal, s, p, m) /\ Known(did, s, p)
       /\ ~InOp(p) => Version(wal, did, buf[p], p) /\ (p \notin dirty => buf[p] = disk[p])
  BY <1>1, <1>7 DEF Lasting, BufOK
<1>15. Reflects(v, s, p, n)
  <2>1. Reflects(v, s, p, m)
    BY <1>7, <1>8, <1>14, PrefixReflects
  <2>2. About(v[n], p) => Covers(s, v[n])
    BY <1>4, <1>8, <1>9, <1>12, <1>13 DEF Covers
  <2>3. n \in 1..Len(v)
    BY <1>7, <1>8
  <2> QED BY <1>7, <2>1, <2>2, <2>3, ReflectsNext
<1>16. \A i, k : k \in Nat /\ k <= m => (Backed(wal, p, i, k) => Backed(v, p, i, k))
  BY <1>7, <1>8, PrefixBacked
<1>17. EntriesOK(p)'
  <2>1. \A k \in 1..m : About(v[k], p) =>
              /\ v[k].img # None => Version(v, did', v[k].img, p)
              /\ Founded(v, did', v[k], p, k - 1)
    BY <1>3, <1>7, <1>8, EntriesPrefix DEF Lasting, v
  <2>2. ASSUME About(e, p)
        PROVE  /\ e.img # None => Version(v, did, e.img, p)
               /\ Founded(v, did, e, p, n - 1)
    <3>1. Founded(v, did, e, p, n - 1)
      <4>1. Founded(v, did, e, p, m)
        BY <1>7, <1>8, <1>9, <1>12, <2>2, PrefixFounded
      <4> QED BY <1>7, <4>1
    <3>2. ASSUME e.img # None PROVE Version(v, did, e.img, p)
      <4>1. e.img.item = s /\ e.img.lsn = n
        BY <1>9, <1>13, <2>2, <3>2
      <4>2. \A i \in 1..Len(s) : Backed(v, p, i, n)
        <5> TAKE i \in 1..Len(s)
        <5>1. Gives(e, i)
          BY <3>2, <4>1 DEF Gives
        <5>2. n \in 1..Len(v) /\ n <= n
          BY <1>7, <1>8
        <5> QED BY <1>8, <2>2, <5>1, <5>2 DEF Backed
      <4> QED BY <1>14, <1>15, <4>1, <4>2 DEF Version
    <3> QED BY <3>1, <3>2
  <2>3. \A k \in 1..Len(v) : k \in 1..m \/ k = n
    BY <1>7, <1>8
  <2> QED BY <1>3, <1>8, <2>1, <2>2, <2>3 DEF EntriesOK, v
<1>18. DiskOK(p)'
  BY <1>1, <1>3, <1>4, <1>7, <1>8, DiskPrefix DEF Lasting, v
<1>19. (InOp(p)' <=> InOp(p))
  BY <1>1, <1>2 DEF InOp
<1>20. BufOK(p)'
  <2>1. ~InOp(p) => Version(v, did, buf[p], p)
    BY <1>4, <1>7, <1>8, <1>14, PrefixVersion
  <2> QED BY <1>1, <1>3, <1>8, <1>14, <1>15, <1>19, <2>1 DEF BufOK, v
<1>21. SectionShown(p)'
  <2> SUFFICES ASSUME InOp(p)
               PROVE  /\ \A i \in 1..Len(s) : Backed(v, p, i, op'.lsn[p]) \/ Comes(op'.todo, p, i)
                      /\ \A j \in 1..Len(op'.todo) : op'.todo[j].blk = p =>
                            Shows(s, op'.todo[j]) /\ Founded(v, did, op'.todo[j], p, Len(v))
    BY <1>1, <1>3, <1>19 DEF SectionShown, v
  <2>1. op.lsn[p] \in Nat /\ op.lsn[p] <= m /\ op'.lsn[p] \in {op.lsn[p], n}
    BY <1>2, <1>7 DEF SectionOK, InOp
  <2>2. ASSUME NEW i \in 1..Len(s) PROVE Backed(v, p, i, op'.lsn[p]) \/ Comes(op'.todo, p, i)
    <3>1. CASE Backed(wal, p, i, op.lsn[p])
      <4>1. Backed(v, p, i, op.lsn[p])
        BY <1>16, <2>1, <3>1
      <4>2. Backed(v, p, i, n)
        BY <1>7, <2>1, <4>1, BackedMore
      <4> QED BY <2>1, <4>1, <4>2
    <3>2. CASE Comes(op.todo, p, i)
      <4>1. PICK j \in 1..Len(op.todo) : op.todo[j].blk = p /\ IsInsert(op.todo[j]) /\ op.todo[j].off = i
        BY <3>2 DEF Comes
      <4>2. CASE j = 1
        <5>1. r.blk = p /\ IsInsert(e) /\ e.off = i /\ op'.lsn[p] = n
          BY <1>2, <1>3, <1>6, <4>1, <4>2 DEF r, IsInsert
        <5>2. n \in 1..Len(v) /\ n <= n /\ About(v[n], p) /\ Gives(v[n], i)
          BY <1>7, <1>8, <1>9, <5>1 DEF Gives
        <5> QED BY <5>1, <5>2 DEF Backed
      <4>3. CASE j # 1
        <5>1. j - 1 \in 1..Len(op'.todo) /\ (j - 1) + 1 = j
          BY <1>2, <1>5, <4>3
        <5>2. op'.todo[j - 1] = op.todo[j]
          BY <1>2, <5>1
        <5> QED BY <4>1, <5>1, <5>2 DEF Comes
      <4> QED BY <4>2, <4>3
    <3> QED BY <1>11, <3>1, <3>2
  <2>3. ASSUME NEW j \in 1..Len(op'.todo), op'.todo[j].blk = p
        PROVE  Shows(s, op'.todo[j]) /\ Founded(v, did, op'.todo[j], p, Len(v))
    <3>1. j + 1 \in 1..Len(op.todo) /\ op'.todo[j] = op.todo[j + 1]
      BY <1>2, <1>5
    <3> DEFINE q == op'.todo[j]
    <3>2. Shows(s, q) /\ Founded(wal, did, q, p, m)
      BY <1>11, <2>3, <3>1
    <3> HIDE DEF q
    <3>3. Founded(v, did, q, p, m)
      BY <1>7, <1>8, <3>2, PrefixFounded
    <3>4. Founded(v, did, q, p, n)
      BY <1>7, <3>3, FoundedMore
    <3> QED BY <1>8, <3>2, <3>4 DEF q
  <2> QED BY <2>2, <2>3
<1> QED BY <1>17, <1>18, <1>20, <1>21 DEF Lasting

LEMMA LogNextDurable ==
    ASSUME Types, LogNext, Rest, Durable
    PROVE  Durable'
<1> DEFINE r == op.todo[1]
           n == Len(wal) + 1
           e == wal'[n]
<1>1. /\ op # None /\ op' # None /\ Len(wal') = n /\ Len(wal) \in Nat /\ \A k \in 1..Len(wal) : wal'[k] = wal[k]
  BY LogNextMore, Zenon
<1>2. /\ SectionOK(op) /\ Len(op.todo) >= 1 /\ Fits(r)
      /\ e.type = r.type /\ e.blk = r.blk /\ e.off = r.off /\ e.data = r.data
      /\ op'.todo \in Seq(PendingRecord) /\ Len(op'.todo) = Len(op.todo) - 1
      /\ \A i \in 1..Len(op'.todo) : op'.todo[i] = op.todo[i + 1]
  BY LogNextEntry, Zenon
<1>3. UNCHANGED <<did, xid, moving>>
  BY DEF LogNext, client
<1>4. Len(op.todo) \in Nat /\ Len(op'.todo) \in Nat
  BY <1>2 DEF SectionOK
<1>5. \A p \in Counted : Lasting(p)'
  BY LogNextPage DEF Durable
<1>6. e.type # "COMMIT"
  BY <1>2 DEF Fits
<1>7. \A f : Carries(r, f) => Carries(e, f)
  BY <1>2, SameRecord
<1> HIDE DEF e, r, n
<1>8. n \in Nat /\ n = Len(wal) + 1 /\ wal'[n] = e
  BY <1>1 DEF n, e
<1>9. \A c \in 1..Len(wal') : c > Len(wal) => wal'[c].type # "COMMIT"
  <2> TAKE c \in 1..Len(wal')
  <2> HAVE c > Len(wal)
  <2>1. c = n
    BY <1>1, <1>8
  <2> QED BY <1>6, <1>8, <2>1
<1>10. ASSUME NEW f \in did, InSection(f) PROVE InSection(f)' \/ InLog(wal', f, Len(wal') + 1)
  <2>1. PICK j \in 1..Len(op.todo) : Carries(op.todo[j], f)
    BY <1>10 DEF InSection
  <2>2. CASE j = 1
    <3>1. n \in 1..Len(wal') /\ n < Len(wal') + 1 /\ Carries(wal'[n], f)
      BY <1>1, <1>7, <1>8, <2>1, <2>2 DEF r
    <3> QED BY <3>1 DEF InLog
  <2>3. CASE j # 1
    <3>1. j - 1 \in 1..Len(op'.todo) /\ (j - 1) + 1 = j
      BY <1>2, <1>4, <2>3
    <3>2. op'.todo[j - 1] = op.todo[j]
      BY <1>2, <3>1
    <3>3. Carries(op'.todo[j - 1], f)
      BY <2>1, <3>2
    <3> QED BY <1>1, <3>1, <3>3 DEF InSection, Carries, IsInsert, IsDelete, End
  <2> QED BY <2>2, <2>3
<1>11. ASSUME NEW f \in did PROVE FactOK(f)'
  <2>1. Len(wal') \in Nat /\ Len(wal) <= Len(wal') /\ FactOK(f)
    BY <1>1, <1>8 DEF Durable
  <2> QED BY <1>1, <1>3, <1>9, <1>10, <2>1, FactsKept
<1>12. CommitsPast'
  <2> SUFFICES ASSUME NEW c \in 1..Len(wal'), wal'[c].type = "COMMIT" PROVE wal'[c].xid < xid
    BY <1>3 DEF CommitsPast
  <2>1. c \in 1..Len(wal) /\ wal'[c] = wal[c]
    BY <1>1, <1>8, <1>9
  <2> QED BY <2>1 DEF Durable, CommitsPast
<1> QED BY <1>3, <1>5, <1>11, <1>12 DEF Durable, Fresh, Counted

\* The log and the facts stay.
LEMMA EntriesSame == ASSUME NEW p, EntriesOK(p), wal' = wal, did' = did PROVE EntriesOK(p)'
BY DEF EntriesOK

LEMMA FactsSame ==
    ASSUME wal' = wal, did' = did, xid' = xid, \A f \in did : FactOK(f), CommitsPast,
           moving = None \/ Fresh(moving), moving' = moving \/ moving' = None,
           op' = op \/ \A f \in did : ~InSection(f)
    PROVE  /\ \A f \in did' : FactOK(f)'
           /\ CommitsPast' /\ (moving = None \/ Fresh(moving))'
<1>1. ASSUME NEW f \in did PROVE FactOK(f)'
  <2>1. InSection(f) => InSection(f)'
    BY DEF InSection
  <2> QED BY <2>1 DEF FactOK, CommitOf
<1> QED BY <1>1 DEF CommitsPast, Fresh

\* The end of a critical section, with nothing left to log.
LEMMA OpEndDurable == ASSUME Types, OpEnd, Durable PROVE Durable'
<1>1. /\ op # None /\ SectionOK(op) /\ mode = "run" /\ op' = None
      /\ dirty' = dirty \cup DOMAIN op.lsn
      /\ UNCHANGED <<disk, wal, redoPtr, ckpt, todo, moving, xid, mode, pos>>
      /\ \A q \in Blk \ DOMAIN op.lsn : buf'[q] = buf[q]
      /\ \A q \in DOMAIN op.lsn : buf'[q].lsn = op.lsn[q] /\ buf'[q].item = buf[q].item
  BY OpEndPages, Zenon
<1>2. did' = did /\ Len(op.todo) = 0
  BY DEF OpEnd
<1>3. ASSUME NEW p \in Counted PROVE Lasting(p)'
  <2>1. Lasting(p) /\ p \in Blk /\ Len(wal) \in Nat
    BY LogOK DEF Durable
  <2>2. EntriesOK(p)' /\ DiskOK(p)' /\ ~InOp(p)'
    BY <1>1, <1>2, <2>1, EntriesSame DEF Lasting, DiskOK, InOp
  <2>3. BufOK(p)'
    <3>1. CASE p \in DOMAIN op.lsn
      <4>1. /\ Reflects(wal, buf[p].item, p, Len(wal)) /\ Known(did, buf[p].item, p)
            /\ \A i \in 1..Len(buf[p].item) : Backed(wal, p, i, op.lsn[p])
        BY <1>1, <1>2, <2>1, <3>1 DEF Lasting, BufOK, SectionShown, InOp, Comes
      <4>2. op.lsn[p] \in Nat /\ op.lsn[p] <= Len(wal)
        BY <1>1, <2>1, <3>1 DEF SectionOK
      <4>3. Reflects(wal, buf[p].item, p, op.lsn[p])
        BY <2>1, <4>1, <4>2, ReflectsFewer
      <4>4. Version(wal, did, buf'[p], p)
        BY <1>1, <3>1, <4>1, <4>3 DEF Version
      <4> QED BY <1>1, <1>2, <3>1, <4>1, <4>4 DEF BufOK
    <3>2. CASE p \notin DOMAIN op.lsn
      BY <1>1, <1>2, <2>1, <3>2 DEF Lasting, BufOK, InOp
    <3> QED BY <3>1, <3>2
  <2> QED BY <2>2, <2>3 DEF Lasting, SectionShown
<1>4. \A f \in did : ~InSection(f)
  BY <1>2 DEF InSection
<1>5. /\ \A f \in did' : FactOK(f)'
      /\ CommitsPast' /\ (moving = None \/ Fresh(moving))'
  BY <1>1, <1>2, <1>4, FactsSame DEF Durable
<1> QED BY <1>3, <1>5 DEF Durable, Counted

\* update_edge_props, which no record knows of, leaves ids and xmax alone.
LEMMA UpdatePropsDurable ==
    ASSUME Types, NEW off \in Items(EdgePage), UpdateProps(off), Durable
    PROVE  Durable'
<1>1. /\ buf' = [buf EXCEPT ![EdgePage].item[off].props = xid] /\ dirty' = dirty \cup {EdgePage}
      /\ mode = "run" /\ op = None
      /\ UNCHANGED <<disk, wal, redoPtr, ckpt, todo, op, moving, xid, mode, pos, did>>
  BY DEF UpdateProps, Running, log, ckptVars, server
<1>2. buf = [p \in Blk |-> buf[p]] /\ EdgePage \in Blk
  BY DEF Types, Pages, Blk
<1> DEFINE s == buf[EdgePage].item
           t == buf'[EdgePage].item
<1>3. /\ Len(t) = Len(s) /\ Len(s) \in Nat /\ buf'[EdgePage].lsn = buf[EdgePage].lsn
      /\ \A i \in 1..Len(s) : t[i].id = s[i].id /\ t[i].xmax = s[i].xmax /\ t[i].lp = s[i].lp
  <2>1. buf[EdgePage] \in Page(EdgePage) /\ s \in Seq(EdgeItem) /\ off \in 1..Len(s) /\ s[off] \in EdgeItem
    <3>1. Content(EdgePage) = EdgeItem
      BY DEF Content
    <3> QED BY <1>2, <3>1, BufferOK, ItemInUse
  <2>2. t = [s EXCEPT ![off].props = xid] /\ buf'[EdgePage].lsn = buf[EdgePage].lsn
    BY <1>1, <1>2, <2>1 DEF Page
  <2>3. \A i \in 1..Len(s) : s[i] \in EdgeItem
    BY <2>1
  <2> DEFINE x == [s[off] EXCEPT !.props = xid]
  <2>4. x.id = s[off].id /\ x.xmax = s[off].xmax /\ x.lp = s[off].lp
    BY <2>1 DEF EdgeItem
  <2>5. t = [s EXCEPT ![off] = x]
    BY <2>2
  <2>6. x \in EdgeItem
    <3>1. xid \in Nat
      BY DEF Types, Scalars, Xid
    <3> QED BY <2>1, <3>1 DEF EdgeItem
  <2> HIDE DEF x, s, t
  <2>7. Len(t) = Len(s) /\ Len(s) \in Nat
    BY <2>1, <2>5, <2>6, ExceptSeq
  <2>8. \A i \in 1..Len(s) : t[i] = IF i = off THEN x ELSE s[i]
    BY <2>1, <2>5
  <2> QED BY <2>2, <2>4, <2>7, <2>8 DEF s, t
<1>4. ASSUME NEW p \in Counted PROVE Lasting(p)'
  <2>1. Lasting(p) /\ p \in Blk /\ Len(wal) \in Nat
    BY LogOK DEF Durable
  <2>2. EntriesOK(p)' /\ DiskOK(p)' /\ ~InOp(p)' /\ ~InOp(p)
    BY <1>1, <2>1, EntriesSame DEF Lasting, DiskOK, InOp
  <2>3. BufOK(p)'
    <3>1. CASE p = EdgePage
      <4>1. /\ Reflects(wal, s, p, Len(wal)) /\ Known(did, s, p)
            /\ Reflects(wal, s, p, buf[p].lsn)
            /\ \A i \in 1..Len(s) : Backed(wal, p, i, buf[p].lsn)
        BY <1>1, <2>1, <2>2, <3>1 DEF Lasting, BufOK, Version
      <4> HIDE DEF s, t
      <4>2. Grows(s, t) /\ Known(did, t, p)
        BY <1>3, <4>1 DEF Grows, Known
      <4>3. /\ Reflects(wal, t, p, Len(wal)) /\ Reflects(wal, t, p, buf[p].lsn)
            /\ \A i \in 1..Len(t) : Backed(wal, p, i, buf[p].lsn)
        BY <1>3, <4>1, <4>2, ReflectsGrows
      <4>4. Version(wal, did, buf'[p], p)
        BY <1>3, <3>1, <4>2, <4>3 DEF Version, t
      <4> QED BY <1>1, <3>1, <4>2, <4>3, <4>4 DEF BufOK, t
    <3>2. CASE p # EdgePage
      <4>1. buf'[p] = buf[p]
        BY <1>1, <1>2, <3>2
      <4> QED BY <1>1, <2>1, <2>2, <3>2, <4>1 DEF Lasting, BufOK
    <3> QED BY <3>1, <3>2
  <2> QED BY <2>2, <2>3 DEF Lasting, SectionShown
<1>5. /\ \A f \in did' : FactOK(f)'
      /\ CommitsPast' /\ (moving = None \/ Fresh(moving))'
  BY <1>1, FactsSame DEF Durable
<1> QED BY <1>1, <1>4, <1>5 DEF Durable, Counted

-----------------------------------------------------------------------------
(* Commits, page writes and checkpoints                                    *)

\* All that a transaction did is in the WAL before its commit.
LEMMA CommitDurable == ASSUME Types, Commit, Durable PROVE Durable'
<1> DEFINE n == Len(wal) + 1
<1>1. /\ wal' = Append(wal, CommitOf(xid)) /\ xid' = xid + 1 /\ xid < MaxXid
      /\ mode = "run" /\ op = None
      /\ UNCHANGED <<buf, disk, dirty, redoPtr, ckpt, todo, op, moving, mode, pos, did>>
  BY DEF Commit, Running, pages, ckptVars, server
<1>2. wal \in Seq(LogEntry) /\ Len(wal) \in Nat /\ xid \in Nat
  BY DEF Types, Log, Scalars, Xid
<1>3. CommitOf(xid) \in LogEntry
  BY DEF CommitOf, LogEntry, Types, Scalars
<1>4. /\ Len(wal') = n /\ wal'[n] = CommitOf(xid) /\ \A k \in 1..Len(wal) : wal'[k] = wal[k]
  BY <1>1, <1>2, <1>3, AppendProperties
<1>5. CommitOf(xid).type = "COMMIT" /\ CommitOf(xid).xid = xid
  BY DEF CommitOf
<1>6. Prefix(wal, wal', Len(wal)) /\ n \in Nat
  BY <1>2, <1>4, LogKept
<1> HIDE DEF n
<1>7. n = Len(wal) + 1 /\ \A k \in 1..Len(wal') : k \in 1..Len(wal) \/ k = n
  BY <1>2, <1>4, <1>6 DEF n
<1>8. ASSUME NEW p \in Counted PROVE Lasting(p)'
  <2>1. /\ Lasting(p) /\ p \in Blk /\ disk[p].lsn <= Len(wal) /\ ckpt <= Len(wal) /\ redoPtr <= Len(wal)
        /\ buf[p].lsn \in Nat /\ buf[p].lsn <= Len(wal)
    BY LogOK DEF Durable
  <2>2. ~InOp(p) /\ ~InOp(p)' /\ ~About(wal'[n], p)
    BY <1>1, <1>4, <1>5 DEF InOp, About
  <2>3. EntriesOK(p)'
    <3>1. \A k \in 1..Len(wal) : About(wal'[k], p) =>
              /\ wal'[k].img # None => Version(wal', did', wal'[k].img, p)
              /\ Founded(wal', did', wal'[k], p, k - 1)
      BY <1>1, <1>2, <1>4, <1>6, <2>1, EntriesPrefix DEF Lasting
    <3> QED BY <1>7, <2>2, <3>1 DEF EntriesOK
  <2>4. DiskOK(p)'
    BY <1>1, <1>2, <1>4, <1>6, <2>1, DiskPrefix DEF Lasting
  <2>5. BufOK(p)'
    <3>1. /\ Reflects(wal, buf[p].item, p, Len(wal)) /\ Known(did, buf[p].item, p)
          /\ Version(wal, did, buf[p], p) /\ (p \notin dirty => buf[p] = disk[p])
      BY <1>1, <2>1, <2>2 DEF Lasting, BufOK
    <3> DEFINE v == wal'
    <3>2. Prefix(wal, v, Len(wal)) /\ Len(v) = n /\ ~About(v[n], p)
      BY <1>4, <1>6, <2>2
    <3> HIDE DEF v
    <3>3. Version(v, did, buf[p], p)
      BY <1>2, <1>6, <2>1, <3>1, <3>2, PrefixVersion
    <3>4. Reflects(v, buf[p].item, p, Len(wal))
      BY <1>2, <1>6, <3>1, <3>2, PrefixReflects
    <3>5. Reflects(v, buf[p].item, p, n)
      BY <1>2, <1>6, <1>7, <3>2, <3>4, ReflectsNext
    <3> QED BY <1>1, <3>1, <3>2, <3>3, <3>5 DEF BufOK, v
  <2> QED BY <2>2, <2>3, <2>4, <2>5 DEF Lasting, SectionShown
<1>9. ASSUME NEW f \in did PROVE FactOK(f)'
  <2> SUFFICES ASSUME f.kind \in {"add", "del", "link"} PROVE FactOK(f)'
    BY DEF FactOK
  <2>1. /\ f.xid \in Nat /\ f.xid <= xid
        /\ \A c \in 1..Len(wal) : wal[c] = CommitOf(f.xid) => InLog(wal, f, c)
        /\ f.xid = xid => InLog(wal, f, n)
    BY <1>1, <1>7 DEF Durable, FactOK, InSection
  <2>2. \A m : InLog(wal, f, m) => InLog(wal', f, m)
    BY <1>2, <1>4, <1>6, <1>7 DEF InLog
  <2>3. ASSUME NEW c \in 1..Len(wal'), wal'[c] = CommitOf(f.xid) PROVE InLog(wal', f, c)
    <3>1. CASE c \in 1..Len(wal)
      BY <1>4, <2>1, <2>2, <2>3, <3>1
    <3>2. CASE c = n
      <4>1. CommitOf(f.xid).xid = f.xid
        BY DEF CommitOf
      <4>2. f.xid = xid
        BY <1>4, <1>5, <2>3, <3>2, <4>1
      <4> QED BY <2>1, <2>2, <3>2, <4>2
    <3> QED BY <1>7, <3>1, <3>2
  <2>4. f.xid # xid' /\ f.xid <= xid'
    BY <1>1, <1>2, <2>1
  <2> QED BY <2>1, <2>3, <2>4 DEF FactOK, CommitOf
<1>10. CommitsPast'
  <2> SUFFICES ASSUME NEW c \in 1..Len(wal'), wal'[c].type = "COMMIT" PROVE wal'[c].xid < xid + 1
    BY <1>1 DEF CommitsPast
  <2>1. CASE c = n
    BY <1>2, <1>4, <1>5, <2>1
  <2>2. CASE c \in 1..Len(wal)
    <3>1. wal'[c] = wal[c] /\ wal[c].xid < xid
      BY <1>4, <2>2 DEF Durable, CommitsPast
    <3>2. wal[c].xid \in Nat
      <4>1. wal[c] \in LogEntry /\ wal[c].type = "COMMIT"
        BY <1>2, <1>4, <2>2
      <4> QED BY <4>1 DEF LogEntry, Xid
    <3> QED BY <1>2, <3>1, <3>2
  <2> QED BY <1>7, <2>1, <2>2
<1> QED BY <1>1, <1>8, <1>9, <1>10 DEF Durable, Fresh, Counted

\* A page is written: the file becomes the version in the buffer.
LEMMA WritePageDurable == ASSUME Types, NEW q \in Blk, WritePage(q), Durable PROVE Durable'
<1>1. /\ q \in dirty /\ (op # None => q \notin DOMAIN op.lsn)
      /\ disk' = [disk EXCEPT ![q] = buf[q]] /\ dirty' = dirty \ {q}
      /\ todo' = IF todo = None THEN None ELSE todo \ {q}
      /\ UNCHANGED <<buf, wal, redoPtr, ckpt, op, moving, xid, mode, pos>>
  BY WritePageFacts, Zenon
<1>2. did' = did
  BY DEF WritePage
<1>3. todo # None => todo' # None
  <2>1. todo # None => todo \ {q} # None
    <3>1. todo # None => todo \in SUBSET Blk
      BY DEF Types, Points
    <3>2. \A S \in SUBSET Blk : None # S
      BY NoneAssumption
    <3> QED BY <3>1, <3>2
  <2> QED BY <1>1, <2>1
<1>4. disk = [p \in Blk |-> disk[p]]
  BY DEF Types, Pages
<1>5. ASSUME NEW p \in Counted PROVE Lasting(p)'
  <2>1. /\ Lasting(p) /\ p \in Blk /\ Len(wal) \in Nat /\ ckpt \in Nat /\ redoPtr \in Nat /\ pos \in Nat
        /\ ckpt <= Len(wal) /\ redoPtr <= Len(wal)
    BY LogOK DEF Durable
  <2>2. EntriesOK(p)' /\ (InOp(p)' <=> InOp(p)) /\ SectionShown(p)'
    BY <1>1, <1>2, <2>1, EntriesSame DEF Lasting, InOp, SectionShown
  <2>3. CASE p # q
    <3>1. disk'[p] = disk[p] /\ (p \in dirty' <=> p \in dirty)
          /\ (todo' # None => todo # None /\ (p \in todo' <=> p \in todo))
      BY <1>1, <1>4, <2>1, <2>3
    <3>2. DiskOK(p)' /\ BufOK(p)'
      BY <1>1, <1>2, <2>1, <2>2, <3>1 DEF Lasting, DiskOK, BufOK
    <3> QED BY <2>2, <3>2 DEF Lasting
  <2>4. CASE p = q
    <3>1. disk'[p] = buf[p] /\ ~InOp(p)
      BY <1>1, <1>4, <2>1, <2>4 DEF InOp
    <3>2. /\ Reflects(wal, buf[p].item, p, IF mode = "run" THEN Len(wal) ELSE pos)
          /\ Version(wal, did, buf[p], p) /\ Known(did, buf[p].item, p)
      BY <2>1, <3>1 DEF Lasting, BufOK
    <3>3. mode # "run" => todo = None /\ ckpt <= pos
      BY DEF Types, Points
    <3>4. Reflects(wal, buf[p].item, p, ckpt)
      BY <2>1, <3>2, <3>3, ReflectsFewer
    <3>5. todo # None => Reflects(wal, buf[p].item, p, redoPtr)
      BY <2>1, <3>2, <3>3, ReflectsFewer
    <3>6. DiskOK(p)'
      BY <1>1, <1>2, <3>1, <3>2, <3>4, <3>5 DEF DiskOK
    <3>7. BufOK(p)'
      BY <1>1, <1>2, <2>2, <3>1, <3>2 DEF BufOK
    <3> QED BY <2>2, <3>6, <3>7 DEF Lasting
  <2> QED BY <2>3, <2>4
<1>6. /\ \A f \in did' : FactOK(f)'
      /\ CommitsPast' /\ (moving = None \/ Fresh(moving))'
  BY <1>1, <1>2, FactsSame DEF Durable
<1> QED BY <1>1, <1>5, <1>6 DEF Durable, Counted

\* A checkpoint begins between critical sections, and ends when all pages that were
\* dirty have been written.
LEMMA CheckpointDurable ==
    ASSUME CheckpointApart, Types, CheckpointBegin \/ CheckpointEnd, Durable
    PROVE  Durable'
<1>1. UNCHANGED <<buf, disk, dirty, wal, op, mode, pos, did, xid, moving>> /\ mode = "run"
  BY DEF CheckpointBegin, CheckpointEnd, Running, pages, log, client, server
<1>2. ASSUME NEW p \in Counted PROVE Lasting(p)'
  <2>1. Lasting(p) /\ Len(wal) \in Nat
    BY LogOK DEF Durable
  <2>2. EntriesOK(p)' /\ (InOp(p)' <=> InOp(p)) /\ SectionShown(p)' /\ BufOK(p)'
    BY <1>1, <2>1, EntriesSame DEF Lasting, InOp, SectionShown, BufOK
  <2>3. CASE CheckpointBegin
    <3>1. /\ redoPtr' = Len(wal) /\ todo' = dirty /\ ckpt' = ckpt /\ op = None
      BY <2>3 DEF CheckpointBegin
    <3>2. p \notin dirty => Reflects(wal, disk[p].item, p, Len(wal))
      BY <1>1, <2>1, <3>1 DEF Lasting, BufOK, InOp
    <3>3. DiskOK(p)'
      BY <1>1, <2>1, <3>1, <3>2 DEF Lasting, DiskOK
    <3> QED BY <2>2, <3>3 DEF Lasting
  <2>4. CASE CheckpointEnd
    <3>1. todo = {} /\ todo' = None /\ ckpt' = redoPtr /\ redoPtr' = redoPtr
      BY <2>4 DEF CheckpointEnd
    <3>2. todo # None
      BY <3>1, NoneAssumption
    <3>3. DiskOK(p)'
      BY <1>1, <2>1, <3>1, <3>2 DEF Lasting, DiskOK
    <3> QED BY <2>2, <3>3 DEF Lasting
  <2> QED BY <2>3, <2>4
<1>3. /\ \A f \in did' : FactOK(f)'
      /\ CommitsPast' /\ (moving = None \/ Fresh(moving))'
  BY <1>1, FactsSame DEF Durable
<1> QED BY <1>1, <1>2, <1>3 DEF Durable, Counted

-----------------------------------------------------------------------------
(* Crash and recovery                                                      *)

\* The file has what the checkpoint says, and no file is newer than the WAL left.
LEMMA CrashDurable == ASSUME Types, NEW n \in 0..Len(wal), Crash(n), Durable PROVE Durable'
<1>1. /\ n >= flushed /\ buf' = disk /\ dirty' = {} /\ wal' = SubSeq(wal, 1, n)
      /\ mode' = "redo" /\ pos' = ckpt /\ todo' = None /\ op' = None /\ moving' = None
      /\ xid' = IF mode = "run" /\ xid < MaxXid THEN xid + 1 ELSE xid
      /\ UNCHANGED <<disk, ckpt, did>>
  BY DEF Crash
<1>2. /\ wal \in Seq(LogEntry) /\ Len(wal) \in Nat /\ n \in Nat /\ n <= Len(wal)
      /\ xid \in Nat /\ xid <= MaxXid /\ flushed \in Nat
      /\ mode # "run" => op = None /\ flushed = Len(wal)
  BY DEF Types, Log, Scalars, Xid, Points
<1>3. Len(wal') = n /\ \A i \in 1..n : wal'[i] = wal[i]
  <2>1. \A i \in 1..n : wal[i] \in LogEntry
    BY <1>2
  <2> QED BY <1>1, <1>2, <2>1, SubSeqProperties
<1>4. Prefix(wal, wal', n)
  BY <1>2, <1>3 DEF Prefix
<1>5. ASSUME NEW p \in Counted PROVE Lasting(p)'
  <2>1. Lasting(p) /\ p \in Blk /\ disk[p].lsn <= n /\ ckpt <= n
    <3>1. /\ Lasting(p) /\ p \in Blk /\ disk[p].lsn <= flushed /\ ckpt <= flushed
          /\ disk[p].lsn \in Nat /\ ckpt \in Nat
      BY LogOK DEF Durable
    <3> QED BY <1>1, <1>2, <3>1
  <2>2. EntriesOK(p)'
    <3>1. \A k \in 1..n : About(wal'[k], p) =>
              /\ wal'[k].img # None => Version(wal', did', wal'[k].img, p)
              /\ Founded(wal', did', wal'[k], p, k - 1)
      BY <1>1, <1>2, <1>3, <1>4, <2>1, EntriesPrefix DEF Lasting
    <3> QED BY <1>3, <3>1 DEF EntriesOK
  <2>3. DiskOK(p)'
    BY <1>1, <1>2, <1>3, <1>4, <2>1, DiskPrefix DEF Lasting
  <2>4. BufOK(p)' /\ ~InOp(p)'
    <3>1. Version(wal', did', disk'[p], p) /\ Reflects(wal', disk'[p].item, p, ckpt')
      BY <2>3 DEF DiskOK
    <3>2. Known(did', disk'[p].item, p)
      BY <3>1 DEF Version
    <3> QED BY <1>1, <3>1, <3>2 DEF BufOK, InOp
  <2> QED BY <2>2, <2>3, <2>4 DEF Lasting, SectionShown
<1>6. ASSUME NEW f \in did PROVE FactOK(f)'
  <2> SUFFICES ASSUME f.kind \in {"add", "del", "link"} PROVE FactOK(f)'
    BY DEF FactOK
  <2>1. /\ f.xid \in Nat /\ f.xid <= xid
        /\ \A c \in 1..Len(wal) : wal[c] = CommitOf(f.xid) => InLog(wal, f, c)
        /\ f.xid = xid /\ xid < MaxXid => InLog(wal, f, Len(wal) + 1) \/ InSection(f)
    BY DEF Durable, FactOK
  <2>2. f.xid <= xid'
    BY <1>1, <1>2, <2>1
  <2>3. ASSUME NEW c \in 1..Len(wal'), wal'[c] = CommitOf(f.xid) PROVE InLog(wal', f, c)
    <3>1. c \in 1..Len(wal) /\ wal[c] = CommitOf(f.xid)
      BY <1>2, <1>3, <2>3
    <3>2. PICK k \in 1..Len(wal) : k < c /\ Carries(wal[k], f)
      BY <2>1, <3>1 DEF InLog
    <3>3. k \in 1..n /\ wal'[k] = wal[k]
      BY <1>2, <1>3, <3>2
    <3> QED BY <1>3, <3>2, <3>3 DEF InLog
  <2>4. ASSUME f.xid = xid', xid' < MaxXid PROVE InLog(wal', f, Len(wal') + 1)
    <3>1. mode # "run" /\ f.xid = xid /\ xid < MaxXid
      BY <1>1, <1>2, <2>1, <2>4
    <3>2. op = None /\ n = Len(wal)
      BY <1>1, <1>2, <3>1
    <3>3. InLog(wal, f, Len(wal) + 1)
      BY <2>1, <3>1, <3>2 DEF InSection
    <3> QED BY <1>3, <3>2, <3>3 DEF InLog
  <2> QED BY <1>1, <2>1, <2>2, <2>3, <2>4 DEF FactOK, CommitOf
<1>7. CommitsPast'
  <2> SUFFICES ASSUME NEW c \in 1..Len(wal'), wal'[c].type = "COMMIT" PROVE wal'[c].xid < xid'
    BY DEF CommitsPast
  <2>1. c \in 1..Len(wal) /\ wal'[c] = wal[c]
    BY <1>2, <1>3
  <2>2. wal[c].xid < xid
    BY <2>1 DEF Durable, CommitsPast
  <2>3. wal[c].xid \in Nat
    <3>1. wal[c] \in LogEntry /\ wal[c].type = "COMMIT"
      BY <1>2, <2>1
    <3> QED BY <3>1 DEF LogEntry, Xid
  <2> QED BY <1>1, <1>2, <2>1, <2>2, <2>3
<1> QED BY <1>1, <1>5, <1>6, <1>7 DEF Durable, Fresh, Counted

\* Redo of a record does what the record says, and no more.
LEMMA RedoShows ==
    ASSUME NEW r, NEW page, Fits(r), PageOK(r.blk, page), ~RedoFails(r, page), r.img = None,
           NEW d, Known(d, page.item, r.blk),
           IsDelete(r) => r.off \in 1..Len(page.item) /\ DelFact(d, r.blk, r.off),
           IsInsert(r) => Fresh(r.data)
    PROVE  LET t == RedoPage(r, page).item
           IN  /\ Grows(page.item, t) /\ Covers(t, r) /\ Known(d, t, r.blk) /\ Len(t) \in Nat
               /\ \A i \in 1..Len(t) : i \in 1..Len(page.item) \/ (IsInsert(r) /\ r.off = i)
<1> DEFINE s == page.item
           t == RedoPage(r, page).item
           p == r.blk
<1>1. p \in NodePage \cup {EdgePage} /\ p \in Blk
  BY DEF Fits, Blk
<1>2. page \in Page(p) /\ Len(s) <= Cap /\ Len(s) \in Nat /\ s \in Seq(Content(p))
  BY DEF PageOK, Page
<1>3. CASE IsInsert(r)
  <2>1. r.data \in Content(p) /\ r.off = Len(s) + 1
    BY <1>3 DEF IsInsert, Fits, Content, RedoFails
  <2>2. RedoPage(r, page) = [page EXCEPT !.item = Append(@, r.data)]
    BY <1>3 DEF IsInsert, RedoPage, RedoInsert
  <2>3. t = Append(s, r.data)
    BY <1>2, <2>2 DEF Page
  <2> HIDE DEF t, s, p
  <2>4. Len(t) = Len(s) + 1 /\ t[Len(s) + 1] = r.data /\ \A i \in 1..Len(s) : t[i] = s[i]
    BY <1>2, <2>1, <2>3, AppendProperties
  <2>5. \A i \in 1..Len(t) : i \in 1..Len(s) \/ i = Len(s) + 1
    BY <1>2, <2>4
  <2>6. Grows(s, t)
    BY <1>2, <2>4 DEF Grows
  <2>7. Covers(t, r)
    <3>1. r.off \in 1..Len(t) /\ ~IsDelete(r)
      BY <1>2, <1>3, <2>1, <2>4 DEF IsInsert, IsDelete
    <3> QED BY <2>1, <2>4, <3>1 DEF Covers, Shows
  <2>8. Known(d, t, p)
    <3>1. Fresh(r.data) /\ Known(d, s, p)
      BY <1>3 DEF s, p
    <3> QED BY <2>4, <2>5, <3>1 DEF Known, Fresh
  <2> QED BY <1>2, <1>3, <2>1, <2>4, <2>5, <2>6, <2>7, <2>8 DEF t, s, p
<1>4. CASE IsDelete(r)
  <2>1. r.off \in 1..Len(s) /\ DelFact(d, p, r.off) /\ r.data \in Xid
    BY <1>4 DEF IsDelete, Fits
  <2>2. RedoPage(r, page) = RedoDelete(page, r.off, r.data) /\ ~IsInsert(r)
    BY <1>4 DEF IsDelete, IsInsert, RedoPage
  <2>3. CASE s[r.off].lp = "normal"
    <3> DEFINE y == [s[r.off] EXCEPT !.xmax = r.data]
    <3>1. RedoPage(r, page) = [page EXCEPT !.item[r.off].xmax = r.data]
      BY <2>1, <2>2, <2>3 DEF RedoDelete
    <3>2. t = [s EXCEPT ![r.off] = y]
      BY <1>2, <3>1 DEF Page
    <3>3. s[r.off] \in Content(p)
      BY <1>2, <2>1
    <3>4. y \in Content(p) /\ y.id = s[r.off].id /\ y.xmax = r.data /\ y.lp = s[r.off].lp
      <4>1. CASE p \in NodePage
        BY <2>1, <3>3, <4>1 DEF Content, NodeItem
      <4>2. CASE p = EdgePage
        BY <2>1, <3>3, <4>2 DEF Content, EdgeItem
      <4> QED BY <1>1, <4>1, <4>2
    <3> HIDE DEF t, s, y, p
    <3>5. Len(t) = Len(s) /\ \A i \in 1..Len(s) : t[i] = IF i = r.off THEN y ELSE s[i]
      BY <1>2, <2>1, <3>2, <3>4, ExceptSeq
    <3>6. r.data # 0
      BY <2>1 DEF Xid
    <3>7. Grows(s, t)
      BY <1>2, <3>4, <3>5, <3>6 DEF Grows
    <3>8. Covers(t, r)
      BY <2>1, <2>2, <3>4, <3>5, <3>6 DEF Covers, Shows
    <3>9. Known(d, t, p)
      <4>1. Known(d, s, p)
        BY DEF s, p
      <4> QED BY <2>1, <3>4, <3>5, <3>6, <4>1 DEF Known
    <3> QED BY <1>2, <3>5, <3>7, <3>8, <3>9 DEF t, s, p
  <2>4. CASE s[r.off].lp # "normal"
    <3>1. t = s
      BY <2>2, <2>4 DEF RedoDelete
    <3>2. s[r.off].xmax # 0
      <4>1. s[r.off] \in Content(p)
        BY <1>2, <2>1
      <4>2. s[r.off].lp = "dead"
        BY <1>1, <2>4, <4>1 DEF Content, NodeItem, EdgeItem
      <4> QED BY <2>1, <4>2 DEF Known
    <3>3. Covers(t, r)
      BY <2>1, <2>2, <3>1, <3>2 DEF Covers, Shows
    <3>4. Grows(s, t)
      BY <1>2, <3>1 DEF Grows
    <3> QED BY <1>2, <3>1, <3>3, <3>4
  <2> QED BY <2>3, <2>4
<1>5. CASE ~IsInsert(r) /\ ~IsDelete(r)
  <2>1. RedoPage(r, page) = page \/ RedoPage(r, page) = [page EXCEPT !.head[r.off] = r.data]
    BY <1>5 DEF IsInsert, IsDelete, RedoPage, RedoAdjUpdate
  <2>2. t = s
    BY <1>2, <2>1 DEF Page
  <2>3. Covers(t, r) /\ Grows(s, t)
    BY <1>2, <1>5, <2>2 DEF Covers, Shows, Grows
  <2> QED BY <1>2, <2>2, <2>3
<1> QED BY <1>3, <1>4, <1>5

\* A record is replayed: its page shows it if it is new enough, comes from an image,
\* or has had the record applied.
LEMMA RedoNextPage ==
    ASSUME Types, RedoNext, \A q \in Counted : Counting(q), NEW p \in Counted, Lasting(p)
    PROVE  Lasting(p)'
<1> DEFINE n == pos + 1
           r == wal[n]
           s == buf[p].item
<1>1. /\ mode = "redo" /\ n \in 1..Len(wal) /\ n \in Lsn /\ EntryOK(n, r)
      /\ op = None /\ todo = None
      /\ UNCHANGED <<disk, wal, redoPtr, ckpt, todo, op>>
      /\ pos' = n /\ mode' = "redo"
      /\ r.type = "COMMIT" => buf' = buf /\ dirty' = dirty
      /\ r.type # "COMMIT" =>
            /\ buf' = [q \in Blk |-> Restored(q, n)]
            /\ dirty' = dirty \cup {q \in Blk : Restored(q, n) # buf[q]}
            /\ r.img = None /\ NeedsRedo(n, buf[r.blk]) => ~RedoFails(r, buf[r.blk])
  BY RedoNextFacts, NoFailure, Zenon
<1>2. did' = did
  BY DEF RedoNext
<1>3. /\ p \in Blk /\ p # OvfPage /\ Len(wal) \in Nat /\ pos \in Nat /\ n = pos + 1 /\ n \in Nat
      /\ buf[p].lsn \in Nat /\ Len(s) \in Nat /\ PageOK(p, buf[p])
  BY LogOK, BufferOK
<1>4. ~InOp(p) /\ ~InOp(p)'
  BY <1>1 DEF InOp
<1>5. /\ Reflects(wal, s, p, pos) /\ Known(did, s, p) /\ Version(wal, did, buf[p], p)
      /\ p \notin dirty => buf[p] = disk[p]
  BY <1>1, <1>4 DEF Lasting, BufOK
<1>6. buf[p].init
  BY DEF Counting, Initialised
<1>7. p \notin dirty' => p \notin dirty /\ buf'[p] = buf[p]
  BY <1>1, <1>3
<1>8. About(r, p) =>
        /\ r.img # None => Version(wal, did, r.img, p) /\ r.img.lsn = n
        /\ Founded(wal, did, r, p, pos) /\ Fits(r)
  <2>1. n - 1 = pos
    BY <1>3
  <2>2. ASSUME About(r, p)
        PROVE  /\ r.img # None => Version(wal, did, r.img, p)
               /\ Founded(wal, did, r, p, n - 1)
    BY <1>1, <2>2 DEF Lasting, EntriesOK
  <2>3. About(r, p) => Fits(r) /\ (r.img # None => r.img.lsn = n)
    BY <1>1, LogOK
  <2> QED BY <2>1, <2>2, <2>3
<1> HIDE DEF n, r, s
<1>9. wal[n] = r /\ r.type # "COMMIT" => buf'[p] = Restored(p, n)
  BY <1>1, <1>3
<1> DEFINE Ok == Reflects(wal, buf'[p].item, p, n) /\ Version(wal, did, buf'[p], p)
<1>10. ASSUME About(r, p) => Covers(s, r) PROVE Reflects(wal, s, p, n)
  BY <1>1, <1>3, <1>5, <1>10, ReflectsNext DEF r
<1>11. ASSUME r.type = "COMMIT" \/ (r.type # "COMMIT" /\ p # r.blk) PROVE Ok
  <2>1. buf'[p] = buf[p] /\ ~About(r, p)
    BY <1>1, <1>3, <1>9, <1>11 DEF Restored, About, r
  <2> QED BY <1>5, <1>10, <2>1 DEF s
<1>12. ASSUME About(r, p) /\ r.img # None PROVE Ok
  <2>1. buf'[p] = r.img
    BY <1>9, <1>12 DEF Restored, About, r
  <2> QED BY <1>8, <1>12, <2>1 DEF Version
<1>13. ASSUME About(r, p) /\ r.img = None /\ ~NeedsRedo(n, buf[p]) PROVE Ok
  <2>1. buf'[p] = buf[p]
    BY <1>9, <1>13 DEF Restored, About, r
  <2>2. n <= buf[p].lsn
    BY <1>3, <1>6, <1>13 DEF NeedsRedo
  <2>3. Reflects(wal, s, p, n)
    BY <1>3, <1>5, <2>2, ReflectsFewer DEF Version, s
  <2> QED BY <1>5, <2>1, <2>3 DEF s
<1>14. ASSUME About(r, p) /\ r.img = None /\ NeedsRedo(n, buf[p]) PROVE Ok
  <2> DEFINE t == RedoPage(r, buf[p]).item
  <2>1. p = r.blk /\ r.type # "COMMIT" /\ ~RedoFails(r, buf[p]) /\ Founded(wal, did, r, p, pos) /\ Fits(r)
    BY <1>1, <1>8, <1>14 DEF About
  <2>2. buf'[p] = [RedoPage(r, buf[p]) EXCEPT !.lsn = n]
    BY <1>9, <1>14, <2>1 DEF Restored, r
  <2>3. IsDelete(r) => r.off \in 1..Len(s) /\ DelFact(did, p, r.off)
    <3> SUFFICES ASSUME IsDelete(r) PROVE r.off \in 1..Len(s) /\ DelFact(did, p, r.off)
      OBVIOUS
    <3>1. r.off \in Nat \ {0} /\ Backed(wal, p, r.off, pos) /\ DelFact(did, p, r.off)
      BY <2>1 DEF Founded
    <3> QED BY <1>3, <1>5, <3>1, BackedThere
  <2>4. /\ Grows(s, t) /\ Covers(t, r) /\ Known(did, t, p) /\ Len(t) \in Nat
        /\ \A i \in 1..Len(t) : i \in 1..Len(s) \/ (IsInsert(r) /\ r.off = i)
    <3>1. IsInsert(r) => Fresh(r.data)
      BY <2>1 DEF Founded
    <3>2. PageOK(r.blk, buf[p]) /\ Known(did, buf[p].item, r.blk)
      BY <1>3, <1>5, <2>1 DEF s
    <3> QED BY <1>14, <2>1, <2>3, <3>1, <3>2, RedoShows DEF s
  <2>5. buf'[p].item = t /\ buf'[p].lsn = n
    <3>1. PageOK(p, Redone(r, buf[p], n)) /\ Redone(r, buf[p], n).lsn = n
      BY <1>1, <1>3, <2>1, RedoPageOK
    <3>2. buf'[p] = Redone(r, buf[p], n)
      BY <2>2 DEF Redone
    <3> QED BY <2>2, <3>1, <3>2
  <2> HIDE DEF t
  <2>6. Reflects(wal, t, p, n)
    <3>1. Reflects(wal, t, p, pos)
      BY <1>3, <1>5, <2>4, ReflectsGrows
    <3> QED BY <1>1, <1>3, <2>4, <3>1, ReflectsNext DEF r
  <2>7. \A i \in 1..Len(t) : Backed(wal, p, i, n)
    <3> TAKE i \in 1..Len(t)
    <3>1. CASE i \in 1..Len(s)
      <4>1. Reflects(wal, s, p, pos) /\ n \in 1..Len(wal)
        BY <1>1, <1>5
      <4>2. Backed(wal, p, i, buf[p].lsn)
        BY <1>5, <3>1 DEF Version, s
      <4>3. buf[p].lsn <= n
        BY <1>3, <1>14 DEF NeedsRedo
      <4> QED BY <1>3, <4>2, <4>3, BackedMore
    <3>2. CASE IsInsert(r) /\ r.off = i
      <4>1. n \in 1..Len(wal) /\ n <= n /\ About(wal[n], p) /\ Gives(wal[n], i)
        BY <1>1, <1>3, <1>14, <3>2 DEF r, Gives
      <4> QED BY <4>1 DEF Backed
    <3> QED BY <2>4, <3>1, <3>2
  <2> QED BY <2>4, <2>5, <2>6, <2>7 DEF Version
<1>15. Ok
  BY <1>11, <1>12, <1>13, <1>14 DEF About
<1>16. BufOK(p)'
  <2>1. Known(did, buf'[p].item, p)
    BY <1>15 DEF Version
  <2> QED BY <1>1, <1>2, <1>5, <1>7, <1>15, <2>1 DEF BufOK
<1>17. EntriesOK(p)' /\ DiskOK(p)'
  BY <1>1, <1>2, EntriesSame DEF Lasting, DiskOK
<1> QED BY <1>4, <1>16, <1>17 DEF Lasting, SectionShown

\* Recovery ends: all pages are written.
LEMMA RedoEndDurable == ASSUME Types, RedoEnd, Durable PROVE Durable'
<1>1. /\ mode = "redo" /\ pos = Len(wal) /\ mode' = "run"
      /\ disk' = buf /\ dirty' = {} /\ ckpt' = Len(wal) /\ redoPtr' = Len(wal)
      /\ UNCHANGED <<buf, wal, todo, op, moving, xid, did>>
  BY DEF RedoEnd, log, client
<1>2. op = None /\ todo = None
  BY <1>1 DEF Types, Points
<1>3. ASSUME NEW p \in Counted PROVE Lasting(p)'
  <2>1. Lasting(p) /\ ~InOp(p) /\ ~InOp(p)'
    BY <1>1, <1>2 DEF Durable, InOp
  <2>2. /\ Reflects(wal, buf[p].item, p, Len(wal)) /\ Known(did, buf[p].item, p)
        /\ Version(wal, did, buf[p], p)
    BY <1>1, <2>1 DEF Lasting, BufOK
  <2>3. EntriesOK(p)' /\ DiskOK(p)' /\ BufOK(p)'
    BY <1>1, <1>2, <2>1, <2>2, EntriesSame DEF Lasting, DiskOK, BufOK
  <2> QED BY <2>1, <2>3 DEF Lasting, SectionShown
<1>4. /\ \A f \in did' : FactOK(f)'
      /\ CommitsPast' /\ (moving = None \/ Fresh(moving))'
  BY <1>1, FactsSame DEF Durable
<1> QED BY <1>1, <1>3, <1>4 DEF Durable, Counted

LEMMA RedoNextDurable ==
    ASSUME Types, RedoNext, \A q \in Counted : Counting(q), Durable
    PROVE  Durable'
<1>1. UNCHANGED <<wal, op, moving, xid>>
  BY RedoNextFacts, Zenon
<1>2. did' = did
  BY DEF RedoNext
<1>3. \A p \in Counted : Lasting(p)'
  BY RedoNextPage DEF Durable
<1>4. /\ \A f \in did' : FactOK(f)'
      /\ CommitsPast' /\ (moving = None \/ Fresh(moving))'
  BY <1>1, <1>2, FactsSame DEF Durable
<1> QED BY <1>1, <1>3, <1>4 DEF Durable, Counted

\* Nothing happens.
LEMMA IdleDurable == ASSUME UNCHANGED vars, Durable PROVE Durable'
<1>1. UNCHANGED <<buf, disk, dirty, wal, redoPtr, ckpt, todo, op, mode, pos, did, xid, moving>>
  BY DEF vars, pages, log, ckptVars, client, server
<1>2. ASSUME NEW p \in Counted PROVE Lasting(p)'
  <2>1. Lasting(p)
    BY DEF Durable
  <2> QED BY <1>1, <2>1, EntriesSame DEF Lasting, DiskOK, BufOK, InOp, SectionShown
<1>3. /\ \A f \in did' : FactOK(f)'
      /\ CommitsPast' /\ (moving = None \/ Fresh(moving))'
  BY <1>1, FactsSame DEF Durable
<1> QED BY <1>2, <1>3 DEF Durable, Counted

\* In the beginning there are no records, and nobody has deleted anything.
LEMMA InitDurable == Init => Durable
<1> SUFFICES ASSUME Init PROVE Durable
  OBVIOUS
<1>1. Len(wal) = 0 /\ op = None /\ buf = disk /\ todo = None /\ mode = "run" /\ ckpt = 0 /\ did = {} /\ moving = None
  BY DEF Init
<1>2. ASSUME NEW p \in Counted PROVE Lasting(p)
  <2>1. p \in Blk /\ p # OvfPage
    BY CountedPages
  <2> DEFINE one == [id |-> 1, slot |-> 1, xmax |-> 0, big |-> FALSE, lp |-> "normal"]
             s == disk[p].item
  <2>2. one.xmax = 0 /\ one.lp = "normal"
    OBVIOUS
  <2>3. s = IF p \in NodePage THEN <<one>> ELSE <<>>
    BY <2>1 DEF Init, Counted, ZeroPage
  <2> HIDE DEF one, s
  <2>4. Len(s) = First(p) /\ Len(s) \in Nat /\ \A i \in 1..Len(s) : s[i] = one
    BY <2>3 DEF First
  <2>5. \A m : Reflects(wal, s, p, m) /\ \A i \in 1..Len(s) : Backed(wal, p, i, m)
    BY <1>1, <2>4 DEF Reflects, Backed
  <2>6. Known(did, s, p)
    BY <2>2, <2>4 DEF Known
  <2>7. Version(wal, did, disk[p], p)
    BY <2>5, <2>6 DEF Version, s
  <2> QED BY <1>1, <2>5, <2>6, <2>7 DEF Lasting, EntriesOK, DiskOK, BufOK, SectionShown, InOp, s
<1>3. CommitsPast
  BY <1>1 DEF CommitsPast
<1> QED BY <1>1, <1>2, <1>3 DEF Durable

-----------------------------------------------------------------------------
(* What the operations do to items                                         *)

\* The beginning of a critical section.
LEMMA EnterResult ==
    ASSUME NEW new, NEW records, NEW facts, Enter(new, records, facts)
    PROVE  /\ op'.todo = records /\ DOMAIN op'.lsn = DOMAIN new
           /\ \A p \in Blk : buf'[p] = IF p \in DOMAIN new THEN new[p] ELSE buf[p]
           /\ did' = did \cup facts /\ xid' = xid
BY DEF Enter

\* One record, for the one page of nodes or edges that changes.
LEMMA ChangesOfOne ==
    ASSUME NEW new, NEW r, NEW facts, Enter(new, <<r>>, facts), NEW p \in Counted,
           DOMAIN new \subseteq {p, OvfPage}, p \in DOMAIN new, r.blk = p,
           Grows(buf[p].item, new[p].item), Known(did \cup facts, new[p].item, p),
           Shows(new[p].item, r),
           IsDelete(r) => r.off \in 1..Len(buf[p].item) /\ DelFact(did \cup facts, p, r.off),
           IsInsert(r) => Fresh(r.data),
           \A f \in facts : f.kind \in {"add", "del", "link"} => f.xid = xid /\ Carries(r, f),
           moving' = None \/ Fresh(moving')
    PROVE  Changes
<1> DEFINE records == <<r>>
<1>1. Len(records) = 1 /\ records[1] = r
  OBVIOUS
<1> HIDE DEF records
<1>2. op'.todo = records /\ DOMAIN op'.lsn = DOMAIN new /\ did' = did \cup facts /\ buf'[p] = new[p]
  <2>1. Enter(new, records, facts)
    BY DEF records
  <2> QED BY <2>1, EnterResult, CountedPages
<1>3. \A q \in Counted : q \in DOMAIN new => q = p
  BY CountedPages
<1>4. \A j \in 1..Len(op'.todo) : j = 1 /\ op'.todo[j] = r
  <2>1. \A j \in 1..Len(records) : j = 1 /\ records[j] = r
    BY <1>1
  <2> QED BY <1>2, <2>1, Zenon
<1>5. \A f \in did' \ did : f.kind \in {"add", "del", "link"} =>
          f.xid = xid /\ \E j \in 1..Len(op'.todo) : Carries(op'.todo[j], f)
  BY <1>1, <1>2
<1> QED BY <1>2, <1>3, <1>4, <1>5 DEF Changes

\* An item is added: nobody has deleted it.
LEMMA ItemAdded ==
    ASSUME NEW S, NEW s \in Seq(S), NEW i \in S, Fresh(i), NEW d, NEW p, Known(d, s, p)
    PROVE  LET t == Append(s, i)
           IN  /\ Grows(s, t) /\ Known(d, t, p) /\ Len(t) = Len(s) + 1 /\ Len(s) \in Nat
               /\ t[Len(s) + 1] = i /\ \A k \in 1..Len(s) : t[k] = s[k]
<1> DEFINE t == Append(s, i)
<1>1. Len(t) = Len(s) + 1 /\ Len(s) \in Nat /\ t[Len(s) + 1] = i /\ \A k \in 1..Len(s) : t[k] = s[k]
  BY AppendProperties
<1> HIDE DEF t
<1>2. \A k \in 1..Len(t) : k \in 1..Len(s) \/ k = Len(s) + 1
  BY <1>1
<1>3. Grows(s, t)
  BY <1>1 DEF Grows
<1>4. Known(d, t, p)
  BY <1>1, <1>2 DEF Known, Fresh
<1> QED BY <1>1, <1>3, <1>4 DEF t

\* An item is deleted, by the writer's transaction.
LEMMA ItemDeleted ==
    ASSUME Types, NEW p \in Counted, NEW off \in Items(p), Known(did, buf[p].item, p),
           NEW d, did \cup {Deleted(p, off)} \subseteq d
    PROVE  LET s == buf[p].item
               t == [s EXCEPT ![off].xmax = xid]
           IN  /\ [buf[p] EXCEPT !.item[off].xmax = xid] = [buf[p] EXCEPT !.item = t]
               /\ t \in Seq(Content(p)) /\ Len(t) = Len(s) /\ off \in 1..Len(s)
               /\ Grows(s, t) /\ Known(d, t, p) /\ DelFact(d, p, off)
               /\ t[off].xmax # 0
<1> DEFINE s == buf[p].item
           t == [s EXCEPT ![off].xmax = xid]
           y == [s[off] EXCEPT !.xmax = xid]
<1>1. /\ xid \in Xid /\ xid # 0 /\ off \in 1..Len(s) /\ s \in Seq(Content(p)) /\ Len(s) \in Nat
      /\ buf[p] \in Page(p) /\ s[off] \in Content(p) /\ p \in Blk /\ p # OvfPage
  BY CountedPages, BufferOK, ItemInUse DEF Xid, Counted
<1>2. DelFact(d, p, off)
  <2>1. Deleted(p, off) \in d
    OBVIOUS
  <2> QED BY <2>1 DEF DelFact, Deleted
<1>3. y \in Content(p) /\ y.id = s[off].id /\ y.xmax = xid /\ y.lp = s[off].lp
  <2>1. CASE p \in NodePage
    BY <1>1, <2>1 DEF Content, NodeItem
  <2>2. CASE p = EdgePage
    BY <1>1, <2>2 DEF Content, EdgeItem
  <2> QED BY <2>1, <2>2 DEF Counted
<1>4. t = [s EXCEPT ![off] = y]
  OBVIOUS
<1>5. [buf[p] EXCEPT !.item[off].xmax = xid] = [buf[p] EXCEPT !.item = t]
  BY <1>1 DEF Page
<1> HIDE DEF t, y, s
<1>6. /\ t \in Seq(Content(p)) /\ Len(t) = Len(s)
      /\ \A i \in 1..Len(s) : t[i] = IF i = off THEN y ELSE s[i]
  BY <1>1, <1>3, <1>4, ExceptSeq
<1>7. Grows(s, t) /\ t[off].xmax # 0
  BY <1>1, <1>3, <1>6 DEF Grows
<1>8. Known(d, t, p)
  <2>1. Known(did, s, p)
    BY DEF s
  <2>2. Known(d, s, p)
    BY <2>1, KnownMore
  <2> QED BY <1>1, <1>2, <1>3, <1>6, <2>2 DEF Known
<1> QED BY <1>1, <1>2, <1>5, <1>6, <1>7, <1>8 DEF s, t

\* insert_node.
LEMMA InsertNodeChanges ==
    ASSUME Types, NEW p \in NodePage, NEW big \in BOOLEAN, InsertNode(p, big),
           Known(did, buf[p].item, p), moving = None
    PROVE  Changes
<1> DEFINE off == Len(buf[p].item) + 1
           i == [id |-> lastId + 1, slot |-> off, xmax |-> 0, big |-> big, lp |-> "normal"]
           page == [buf[p] EXCEPT !.item = Append(@, i)]
           ovf == [ZeroPage EXCEPT !.init = TRUE, !.item = <<i.id>>]
           new == IF big THEN [q \in {p, OvfPage} |-> IF q = p THEN page ELSE ovf] ELSE On(p, page)
           r == NodeRecord(p, off, i)
           facts == {Added(p, off, i)}
<1>1. off <= Cap /\ moving' = moving /\ Enter(new, <<r>>, facts)
  BY DEF InsertNode
<1>2. p \in Counted /\ p \in Blk /\ p # OvfPage /\ lastId \in Nat
      /\ buf[p] \in Page(p) /\ buf[p].item \in Seq(Content(p)) /\ Len(buf[p].item) \in Nat
  BY CountedPages, BufferOK DEF Counted, Types, Scalars
<1>3. i \in Content(p) /\ Fresh(i)
  BY <1>1, <1>2 DEF Content, NodeItem, Slot, Fresh
<1>4. DOMAIN new \subseteq {p, OvfPage} /\ p \in DOMAIN new /\ new[p] = page
  BY DEF On
<1> HIDE DEF i, off
<1>5. page.item = Append(buf[p].item, i)
  BY <1>2 DEF Page
<1>6. /\ r.blk = p /\ r.off = off /\ IsInsert(r) /\ ~IsDelete(r) /\ r.type # "COMMIT"
      /\ r.data.id = i.id /\ Fresh(r.data)
  <2>1. i \in NodeItem
    BY <1>2, <1>3 DEF Content
  <2> DEFINE j == LoggedItem(i)
             plain == [type |-> "NODE_INSERT", blk |-> p, off |-> off, data |-> j,
                       stamp |-> TRUE, force |-> FALSE, ovf |-> FALSE]
  <2>2. j.id = i.id /\ Fresh(j)
    BY <1>3, <2>1 DEF LoggedItem, NodeItem, Fresh
  <2>3. r = [plain EXCEPT !.ovf = i.big]
    BY DEF NodeRecord, Record
  <2> HIDE DEF j
  <2>4. r.type = "NODE_INSERT" /\ r.blk = p /\ r.off = off /\ r.data = j
    BY <2>3
  <2> QED BY <2>2, <2>4 DEF IsInsert, IsDelete
<1>7. \A f \in facts : f.blk = p /\ f.off = off /\ f.item = i /\ f.kind = "add" /\ f.xid = xid
  BY DEF Added
<1> HIDE DEF page, ovf, new, r, facts
<1>8. /\ Grows(buf[p].item, page.item) /\ Known(did, page.item, p) /\ Len(page.item) = off
      /\ page.item[off] = i /\ off \in 1..Len(page.item)
  BY <1>2, <1>3, <1>5, ItemAdded DEF off
<1>9. Known(did \cup facts, page.item, p)
  BY <1>8, KnownMore
<1>10. Shows(page.item, r)
  BY <1>6, <1>8 DEF Shows
<1>11. \A f \in facts : f.xid = xid /\ Carries(r, f)
  BY <1>6, <1>7 DEF Carries
<1> QED BY <1>1, <1>2, <1>4, <1>6, <1>8, <1>9, <1>10, <1>11, ChangesOfOne

\* delete_node_by_id, delete_edge, and the first half of an update that moves the
\* node.
LEMMA KillChanges ==
    ASSUME Types, NEW p \in Counted, NEW off \in Items(p), Known(did, buf[p].item, p),
           NEW type \in {"NODE_DELETE", "EDGE_DELETE"},
           Enter(On(p, [buf[p] EXCEPT !.item[off].xmax = xid]),
                 <<Record(type, p, off, xid)>>, {Deleted(p, off)}),
           moving' = None \/ Fresh(moving')
    PROVE  Changes
<1> DEFINE t == [buf[p].item EXCEPT ![off].xmax = xid]
           page == [buf[p] EXCEPT !.item = t]
           new == On(p, page)
           r == Record(type, p, off, xid)
           facts == {Deleted(p, off)}
<1>1. /\ [buf[p] EXCEPT !.item[off].xmax = xid] = page
      /\ Len(t) = Len(buf[p].item) /\ off \in 1..Len(buf[p].item)
      /\ Grows(buf[p].item, t) /\ Known(did \cup facts, t, p) /\ DelFact(did \cup facts, p, off)
      /\ t[off].xmax # 0
  BY ItemDeleted
<1>2. Enter(new, <<r>>, facts)
  BY <1>1
<1> HIDE DEF t, facts
<1>3. page.item = t
  <2>1. buf[p] \in Page(p)
    BY CountedPages, BufferOK
  <2> QED BY <2>1 DEF Page
<1>4. DOMAIN new = {p} /\ new[p] = page
  BY DEF On
<1>5. r.blk = p /\ r.off = off /\ IsDelete(r) /\ ~IsInsert(r) /\ r.type # "COMMIT"
  BY DEF Record, IsDelete, IsInsert
<1>6. \A f \in facts : f.xid = xid /\ f.blk = p /\ f.off = off /\ f.kind = "del"
  BY DEF facts, Deleted
<1> HIDE DEF page, new, r
<1>7. Shows(new[p].item, r)
  BY <1>1, <1>3, <1>4, <1>5 DEF Shows
<1>8. \A f \in facts : f.xid = xid /\ Carries(r, f)
  BY <1>5, <1>6 DEF Carries
<1> QED BY <1>1, <1>2, <1>3, <1>4, <1>5, <1>7, <1>8, ChangesOfOne

\* update_node, room on the page.
LEMMA UpdateNodeChanges ==
    ASSUME Types, NEW p \in NodePage, NEW off \in Live(p), UpdateNode(p, off),
           Known(did, buf[p].item, p), moving = None
    PROVE  Changes
<1> DEFINE s == buf[p].item
           n == Len(s) + 1
           i == [s[off] EXCEPT !.big = FALSE]
           t == [s EXCEPT ![off].xmax = xid]
           page == [buf[p] EXCEPT !.item = Append(t, i)]
           new == On(p, page)
           r == Record("NODE_DELETE", p, off, xid)
           e == Record("NODE_INSERT", p, n, i)
           facts == {Deleted(p, off), Added(p, n, i)}
<1>1. n <= Cap /\ moving' = moving /\ Enter(new, <<r, e>>, facts)
  BY DEF UpdateNode, UpdateRecords
<1>2. /\ p \in Counted /\ p \in Blk /\ p # OvfPage /\ off \in Items(p) /\ s \in Seq(Content(p)) /\ Len(s) \in Nat
      /\ buf[p] \in Page(p) /\ s[off] \in Content(p) /\ Content(p) = NodeItem
      /\ s[off].xmax = 0 /\ s[off].lp = "normal" /\ off \in 1..Len(s)
  BY CountedPages, BufferOK, ItemInUse DEF Live, Counted, Content, Items
<1>3. i \in Content(p) /\ Fresh(i)
  <2> DEFINE y == s[off]
  <2>1. y \in NodeItem /\ i = [y EXCEPT !.big = FALSE]
    BY <1>2
  <2>2. y.xmax = 0 /\ y.lp = "normal"
    BY <1>2
  <2> HIDE DEF y, i
  <2>3. i \in NodeItem /\ i.xmax = y.xmax /\ i.lp = y.lp
    BY <2>1 DEF NodeItem
  <2> QED BY <1>2, <2>2, <2>3 DEF Fresh
<1>4. /\ t \in Seq(Content(p)) /\ Len(t) = Len(s) /\ off \in 1..Len(s)
      /\ Grows(s, t) /\ Known(did \cup facts, t, p) /\ DelFact(did \cup facts, p, off)
      /\ t[off].xmax # 0
  BY <1>2, ItemDeleted
<1>5. page.item = Append(t, i)
  BY <1>2 DEF Page
<1>6. /\ r.blk = p /\ r.off = off /\ IsDelete(r) /\ ~IsInsert(r) /\ r.type # "COMMIT"
      /\ e.blk = p /\ e.off = n /\ IsInsert(e) /\ ~IsDelete(e) /\ e.type # "COMMIT" /\ e.data = i
  BY DEF Record, IsDelete, IsInsert
<1>7. \A f \in facts : \/ f.kind = "del" /\ f.blk = p /\ f.off = off /\ f.xid = xid
                       \/ f.kind = "add" /\ f.blk = p /\ f.off = n /\ f.item = i /\ f.xid = xid
  <2> HIDE DEF n, i, s
  <2> TAKE f \in facts
  <2>1. CASE f = Deleted(p, off)
    BY <2>1 DEF Deleted
  <2>2. CASE f = Added(p, n, i)
    BY <2>2 DEF Added
  <2> QED BY <2>1, <2>2
<1>8. DOMAIN new = {p} /\ new[p] = page
  BY DEF On
<1> DEFINE records == <<r, e>>
<1>9. Len(records) = 2 /\ records[1] = r /\ records[2] = e
  OBVIOUS
<1> HIDE DEF n
<1>10. n = Len(s) + 1
  BY DEF n
<1> HIDE DEF t, i, s, page, new, r, e, facts, records
<1>11. /\ op'.todo = records /\ DOMAIN op'.lsn = {p} /\ buf'[p] = page /\ did' = did \cup facts
  <2>1. Enter(new, records, facts)
    BY <1>1 DEF records
  <2> QED BY <1>2, <1>8, <2>1, EnterResult
<1> DEFINE u == Append(t, i)
<1>12. /\ Grows(t, u) /\ Known(did', u, p) /\ Len(u) = n
       /\ u[n] = i /\ n \in 1..Len(u) /\ \A k \in 1..Len(s) : u[k] = t[k]
  BY <1>2, <1>3, <1>4, <1>10, <1>11, ItemAdded
<1> HIDE DEF u
<1>13. Grows(s, u)
  BY <1>2, <1>4, <1>10, <1>12 DEF Grows
<1>14. Shows(u, r) /\ Shows(u, e)
  <2>1. off \in 1..Len(u) /\ u[off].xmax # 0
    BY <1>2, <1>4, <1>10, <1>12
  <2> QED BY <1>6, <1>12, <2>1 DEF Shows
<1>15. \A j \in 1..Len(op'.todo) : op'.todo[j] = r \/ op'.todo[j] = e
  <2>1. \A j \in 1..Len(records) : j = 1 \/ j = 2
    BY <1>9
  <2> QED BY <1>9, <1>11, <2>1, Zenon
<1>16. \A j \in 1..Len(op'.todo) :
          /\ Shows(buf'[op'.todo[j].blk].item, op'.todo[j])
          /\ IsDelete(op'.todo[j]) => /\ op'.todo[j].off \in 1..Len(buf[op'.todo[j].blk].item)
                                      /\ DelFact(did', op'.todo[j].blk, op'.todo[j].off)
          /\ IsInsert(op'.todo[j]) => Fresh(op'.todo[j].data)
  <2> TAKE j \in 1..Len(op'.todo)
  <2>1. CASE op'.todo[j] = r
    BY <1>2, <1>4, <1>5, <1>6, <1>11, <1>14, <2>1 DEF u, s
  <2>2. CASE op'.todo[j] = e
    BY <1>3, <1>5, <1>6, <1>11, <1>14, <2>2 DEF u
  <2> QED BY <1>15, <2>1, <2>2
<1>17. \A f \in did' \ did : f.kind \in {"add", "del", "link"} =>
          f.xid = xid /\ \E j \in 1..Len(op'.todo) : Carries(op'.todo[j], f)
  <2> TAKE f \in did' \ did
  <2>1. 1 \in 1..Len(records) /\ 2 \in 1..Len(records)
    BY <1>9
  <2>2. f \in facts
    BY <1>11
  <2>3. CASE f.kind = "del" /\ f.blk = p /\ f.off = off /\ f.xid = xid
    BY <1>6, <1>9, <1>11, <2>1, <2>3 DEF Carries
  <2>4. CASE f.kind = "add" /\ f.blk = p /\ f.off = n /\ f.item = i /\ f.xid = xid
    BY <1>6, <1>9, <1>11, <2>1, <2>4 DEF Carries
  <2> QED BY <1>7, <2>2, <2>3, <2>4
<1>18. Grows(buf[p].item, buf'[p].item) /\ Known(did', buf'[p].item, p)
  BY <1>5, <1>11, <1>12, <1>13 DEF u, s
<1> QED BY <1>1, <1>11, <1>16, <1>17, <1>18 DEF Changes

\* update_node, the new version put elsewhere.
LEMMA MovePutChanges ==
    ASSUME Types, NEW p \in NodePage, MovePut(p), Known(did, buf[p].item, p), Fresh(moving)
    PROVE  Changes
<1> DEFINE s == buf[p].item
           off == Len(s) + 1
           page == [buf[p] EXCEPT !.item = Append(s, moving)]
           new == On(p, page)
           r == Record("NODE_INSERT", p, off, moving)
           facts == {Added(p, off, moving)}
<1>1. off <= Cap /\ moving' = None /\ moving \in NodeItem /\ Enter(new, <<r>>, facts)
  BY DEF MovePut, Types, Scalars
<1>2. p \in Counted /\ p \in Blk /\ p # OvfPage
      /\ buf[p] \in Page(p) /\ s \in Seq(Content(p)) /\ Len(s) \in Nat /\ Content(p) = NodeItem
  BY CountedPages, BufferOK DEF Counted, Content
<1>3. page.item = Append(s, moving)
  BY <1>2 DEF Page
<1>4. DOMAIN new = {p} /\ new[p] = page
  BY DEF On
<1>5. r.blk = p /\ r.off = off /\ IsInsert(r) /\ ~IsDelete(r) /\ r.type # "COMMIT" /\ r.data = moving
  BY DEF Record, IsInsert, IsDelete
<1>6. \A f \in facts : f.blk = p /\ f.off = off /\ f.item = moving /\ f.kind = "add" /\ f.xid = xid
  BY DEF Added
<1> HIDE DEF page, new, r, facts, off
<1>7. /\ Grows(s, page.item) /\ Known(did, page.item, p) /\ Len(page.item) = off
      /\ page.item[off] = moving /\ off \in 1..Len(page.item)
  BY <1>1, <1>2, <1>3, ItemAdded DEF off
<1>8. Known(did \cup facts, page.item, p)
  BY <1>7, KnownMore
<1>9. Shows(page.item, r)
  BY <1>5, <1>7 DEF Shows
<1>10. \A f \in facts : f.xid = xid /\ Carries(r, f)
  BY <1>5, <1>6 DEF Carries
<1> QED BY <1>1, <1>2, <1>4, <1>5, <1>7, <1>8, <1>9, <1>10, ChangesOfOne

\* compact_node_page: dead items have been deleted.
LEMMA VacuumChanges ==
    ASSUME Types, NEW p \in NodePage, VacuumPage(p), Known(did, buf[p].item, p), moving = None
    PROVE  Changes
<1> DEFINE s == buf[p].item
           dead == {i \in Items(p) : LET x == s[i].xmax
                                     IN  /\ s[i].lp = "normal"
                                         /\ x # 0 /\ x < xid /\ Committed(x)}
           slots == {s[i].slot : i \in dead}
           t == [i \in Items(p) |-> IF i \in dead THEN [s[i] EXCEPT !.lp = "dead"] ELSE s[i]]
           hd == [k \in Slot |-> IF k \in slots THEN NoEdges ELSE buf[p].head[k]]
           page == [buf[p] EXCEPT !.item = t, !.head = hd]
           new == On(p, page)
           r == [Record("NODE_COMPACT", p, 0, 0) EXCEPT !.force = TRUE]
           facts == {[kind |-> "cleared", hdr |-> <<p, k>>] : k \in slots}
<1>1. p \in Counted /\ p \in Blk /\ p # OvfPage
      /\ buf[p] \in Page(p) /\ s \in Seq(NodeItem) /\ Len(s) \in Nat
  <2>1. p \in Counted /\ Content(p) = NodeItem
    BY DEF Counted, Content
  <2>2. p \in Blk /\ p # OvfPage
    BY <2>1, CountedPages
  <2> QED BY <2>1, <2>2, BufferOK
<1>2. moving' = moving /\ Enter(new, <<r>>, facts)
  BY DEF VacuumPage
<1>3. r.blk = p /\ ~IsInsert(r) /\ ~IsDelete(r)
  <2> DEFINE plain == [type |-> "NODE_COMPACT", blk |-> p, off |-> 0, data |-> 0,
                       stamp |-> TRUE, force |-> FALSE, ovf |-> FALSE]
  <2>1. r = [plain EXCEPT !.force = TRUE]
    BY DEF Record
  <2> QED BY <2>1 DEF IsInsert, IsDelete
<1>4. \A f \in facts : f.kind = "cleared"
  OBVIOUS
<1>5. DOMAIN new = {p} /\ new[p] = page
  <2> HIDE DEF page
  <2> QED BY DEF On
<1>6. /\ Len(t) = Len(s) /\ \A i \in 1..Len(s) : t[i].id = s[i].id /\ t[i].xmax = s[i].xmax
      /\ \A i \in 1..Len(s) : t[i].lp = s[i].lp \/ t[i].xmax # 0
  <2>1. DOMAIN t = 1..Len(s)
    BY DEF Items
  <2>2. \A i \in 1..Len(s) : s[i] \in NodeItem
    <3> HIDE DEF s
    <3> QED BY <1>1, ElementOfSeq
  <2>3. ASSUME NEW i \in 1..Len(s)
        PROVE  t[i].id = s[i].id /\ t[i].xmax = s[i].xmax /\ (t[i].lp = s[i].lp \/ t[i].xmax # 0)
    <3>1. i \in Items(p) /\ s[i] \in NodeItem
      BY <2>2 DEF Items
    <3>2. CASE i \in dead
      <4>1. t[i] = [s[i] EXCEPT !.lp = "dead"] /\ s[i].xmax # 0
        BY <3>1, <3>2, ZenonT(30)
      <4> QED BY <3>1, <4>1 DEF NodeItem
    <3>3. CASE i \notin dead
      <4>1. t[i] = s[i]
        BY <3>1, <3>3
      <4> QED BY <4>1
    <3> QED BY <3>2, <3>3
  <2>4. Len(t) = Len(s)
    <3> DEFINE F(i) == IF i \in dead THEN [s[i] EXCEPT !.lp = "dead"] ELSE s[i]
    <3> HIDE DEF F
    <3>1. t = [i \in 1..Len(s) |-> F(i)]
      BY DEF F, Items
    <3> HIDE DEF t, s
    <3> QED BY <1>1, <3>1
  <2> HIDE DEF t, s
  <2> QED BY <2>3, <2>4
<1>7. page.item = t
  <2> HIDE DEF t, hd
  <2> QED BY <1>1 DEF Page
<1> HIDE DEF t, hd, page, new, r, facts, s
<1>8. Grows(s, t) /\ Known(did, t, p)
  <2>1. Known(did, s, p)
    BY DEF s
  <2> QED BY <1>1, <1>6, <2>1 DEF Grows, Known
<1>9. Known(did \cup facts, t, p)
  BY <1>8, KnownMore
<1>10. Shows(t, r)
  BY <1>3 DEF Shows
<1> QED BY <1>1, <1>2, <1>3, <1>4, <1>5, <1>7, <1>8, <1>9, <1>10, ChangesOfOne DEF s

\* The records of insert_edge, one by one: an edge item, then the headers of its two
\* nodes, the last of which may leave the LSN of the page alone.
LEMMA EdgeRecordsAre ==
    ASSUME NEW e \in Slot, NEW i \in EdgeItem, NEW s \in HdrAddr, NEW t \in HdrAddr,
           NEW head \in [{s, t} -> Header]
    PROVE  LET records == EdgeRecords(e, i, s, t, head)
           IN  /\ Len(records) \in 2..3 /\ records[1] = Record("EDGE_INSERT", EdgePage, e, i)
               /\ \A k \in 1..Len(records) : ~records[k].ovf
               /\ \A k \in 1..Len(records) : k # 1 =>
                     /\ records[k].type = "ADJ_UPDATE" /\ <<records[k].blk, records[k].off>> \in {s, t}
                     /\ records[k].data = head[<<records[k].blk, records[k].off>>]
               /\ \A h \in {s, t} : \E k \in 1..Len(records) :
                     k # 1 /\ <<records[k].blk, records[k].off>> = h
               /\ \A p \in {s[1], t[1]} : \E k \in 1..Len(records) :
                     records[k].blk = p /\ records[k].stamp
<1> DEFINE records == EdgeRecords(e, i, s, t, head)
           first == Record("EDGE_INSERT", EdgePage, e, i)
           x == Record("ADJ_UPDATE", s[1], s[2], head[s])
           y == [Record("ADJ_UPDATE", t[1], t[2], head[t]) EXCEPT !.stamp = (s[1] # t[1])]
<1>1. s = <<s[1], s[2]>> /\ t = <<t[1], t[2]>>
  BY DEF HdrAddr
<1>2. x.type = "ADJ_UPDATE" /\ x.blk = s[1] /\ x.off = s[2] /\ x.data = head[s] /\ x.stamp /\ ~x.ovf /\ ~first.ovf
  BY DEF Record
<1>3. /\ y.type = "ADJ_UPDATE" /\ y.blk = t[1] /\ y.off = t[2] /\ y.data = head[t] /\ ~y.ovf
      /\ s[1] # t[1] => y.stamp
  BY DEF Record
<1>4. records = IF s = t THEN <<first, x>> ELSE <<first, x, y>>
  <2>1. records = <<first, x>> \o (IF s = t THEN <<>> ELSE <<y>>)
    BY DEF EdgeRecords
  <2> HIDE DEF x, y, first, records
  <2>2. <<first, x>> \o <<>> = <<first, x>> /\ <<first, x>> \o <<y>> = <<first, x, y>>
    BY ThreeRecords
  <2> QED BY <2>1, <2>2
<1> HIDE DEF x, y, first, records
<1>5. CASE s = t
  <2>1. Len(records) = 2 /\ records[1] = first /\ records[2] = x
    BY <1>4, <1>5
  <2>2. 1 \in 1..2 /\ 2 \in 1..2 /\ \A k \in 1..2 : k = 1 \/ k = 2
    OBVIOUS
  <2>3. \A k \in 1..2 : ~records[k].ovf
    BY <1>2, <2>1, <2>2
  <2> QED BY <1>1, <1>2, <1>5, <2>1, <2>2, <2>3 DEF records, first
<1>6. CASE s # t
  <2>1. Len(records) = 3 /\ records[1] = first /\ records[2] = x /\ records[3] = y
    BY <1>4, <1>6
  <2>2. 1 \in 1..3 /\ 2 \in 1..3 /\ 3 \in 1..3 /\ \A k \in 1..3 : k = 1 \/ k = 2 \/ k = 3
    OBVIOUS
  <2>3. \A k \in 1..3 : k # 1 => records[k] = x \/ records[k] = y
    BY <2>1, <2>2
  <2>4. \A k \in 1..3 : k # 1 =>
           /\ records[k].type = "ADJ_UPDATE" /\ <<records[k].blk, records[k].off>> \in {s, t}
           /\ records[k].data = head[<<records[k].blk, records[k].off>>]
    BY <1>1, <1>2, <1>3, <2>3
  <2>5. \A h \in {s, t} : \E k \in 1..3 : k # 1 /\ <<records[k].blk, records[k].off>> = h
    BY <1>1, <1>2, <1>3, <2>1, <2>2
  <2>6. \A p \in {s[1], t[1]} : \E k \in 1..3 : records[k].blk = p /\ records[k].stamp
    BY <1>2, <1>3, <2>1, <2>2
  <2>7. \A k \in 1..3 : ~records[k].ovf
    BY <1>2, <1>3, <2>1, <2>2
  <2> QED BY <2>1, <2>4, <2>5, <2>6, <2>7 DEF records, first
<1> QED BY <1>5, <1>6

\* What insert_edge does to pages, and what it is about to log: the new edge has the
\* headers' edges after it, and the headers get the edge.
InsertsEdge(s, t, i) ==
    LET e == Len(buf[EdgePage].item) + 1
        old(h) == buf[h[1]].head[h[2]]
        r == op'.todo[1]
    IN  /\ e \in Slot /\ i.nextOut = old(s).out /\ i.nextIn = old(t).in
        /\ DOMAIN op'.lsn = {s[1], t[1], EdgePage}
        /\ buf'[EdgePage].item = Append(buf[EdgePage].item, i)
        /\ \A p \in NodePage, k \in Slot :
              /\ buf'[p].head[k].out = IF <<p, k>> = s THEN e ELSE buf[p].head[k].out
              /\ buf'[p].head[k].in  = IF <<p, k>> = t THEN e ELSE buf[p].head[k].in
        /\ \A p \in NodePage : buf'[p].item = buf[p].item
        /\ Len(op'.todo) \in 2..3 /\ \A k \in 1..Len(op'.todo) : ~op'.todo[k].ovf
        /\ r.type = "EDGE_INSERT" /\ r.blk = EdgePage /\ r.off = e /\ r.data = i /\ r.stamp
        /\ \A k \in 1..Len(op'.todo) : k # 1 =>
              /\ op'.todo[k].type = "ADJ_UPDATE" /\ <<op'.todo[k].blk, op'.todo[k].off>> \in {s, t}
              /\ op'.todo[k].data = buf'[op'.todo[k].blk].head[op'.todo[k].off]
        /\ \A h \in {s, t} : \E k \in 1..Len(op'.todo) :
              k # 1 /\ <<op'.todo[k].blk, op'.todo[k].off>> = h
        /\ \A p \in {s[1], t[1]} : \E k \in 1..Len(op'.todo) :
              op'.todo[k].blk = p /\ op'.todo[k].stamp
        /\ did' = did \cup {Added(EdgePage, e, i), Linked(s, "out", e), Linked(t, "in", e)}

LEMMA InsertEdgeShape ==
    ASSUME Types, NEW a \in LiveNode, NEW c \in LiveNode, InsertEdge(a, c)
    PROVE  \E s \in HdrAddr, t \in HdrAddr, i \in EdgeItem : InsertsEdge(s, t, i)
<1> DEFINE s == <<a[1], buf[a[1]].item[a[2]].slot>>
           t == <<c[1], buf[c[1]].item[c[2]].slot>>
           e == Len(buf[EdgePage].item) + 1
           old(h) == buf[h[1]].head[h[2]]
           i == [id |-> lastId + 1, src |-> s, tgt |-> t, nextOut |-> old(s).out,
                 nextIn |-> old(t).in, xmax |-> 0, props |-> xid, lp |-> "normal"]
           head == [h \in {s, t} |-> [out |-> IF h = s THEN e ELSE old(h).out,
                                      in  |-> IF h = t THEN e ELSE old(h).in]]
           edges == [buf[EdgePage] EXCEPT !.item = Append(@, i)]
           heads(p) == [k \in Slot |-> IF <<p, k>> \in {s, t} THEN head[<<p, k>>] ELSE buf[p].head[k]]
           nodes(p) == [buf[p] EXCEPT !.head = heads(p)]
           new == [p \in {s[1], t[1], EdgePage} |-> IF p = EdgePage THEN edges ELSE nodes(p)]
           records == EdgeRecords(e, i, s, t, head)
           facts == {Added(EdgePage, e, i), Linked(s, "out", e), Linked(t, "in", e)}
<1>1. e <= Cap /\ Enter(new, records, facts)
  BY ZenonT(30) DEF InsertEdge
<1>2. s \in HdrAddr /\ t \in HdrAddr
  BY LiveNodeOK
<1> HIDE DEF s, t
<1>3. /\ s[1] \in NodePage /\ t[1] \in NodePage /\ s[2] \in Slot /\ t[2] \in Slot
      /\ EdgePage \in Blk /\ NodePage \subseteq Blk /\ EdgePage \notin NodePage
      /\ \A p \in Blk : buf[p] \in Page(p)
      /\ Len(buf[EdgePage].item) \in Nat
  <2>1. EdgePage \in Blk /\ NodePage \subseteq Blk /\ EdgePage \notin NodePage
    BY DEF Blk
  <2>2. \A p \in Blk : buf[p] \in Page(p)
    BY BufferOK
  <2>3. Len(buf[EdgePage].item) \in Nat
    BY <2>1, BufferOK
  <2> QED BY <1>2, <2>1, <2>2, <2>3 DEF HdrAddr
<1>4. e \in Slot
  <2>1. e <= Cap /\ Len(buf[EdgePage].item) \in Nat
    BY <1>1, <1>3, Zenon
  <2> QED BY <2>1 DEF Slot
<1>5. old(s) \in Header /\ old(t) \in Header
  BY <1>3 DEF Page
<1>6. old(s).out \in 0..Cap /\ old(s).in \in 0..Cap /\ old(t).out \in 0..Cap /\ old(t).in \in 0..Cap
  BY <1>5 DEF Header
<1>7. lastId \in Nat /\ xid \in Nat
  BY DEF Types, Scalars, Xid
<1>8. i.nextOut = old(s).out /\ i.nextIn = old(t).in
  OBVIOUS
<1> HIDE DEF e
<1>9. head \in [{s, t} -> Header]
  <2> HIDE DEF i, old
  <2> QED BY <1>4, <1>6 DEF Header, Slot
<1>10. \A h \in {s, t} : /\ head[h].out = IF h = s THEN e ELSE old(h).out
                         /\ head[h].in = IF h = t THEN e ELSE old(h).in
  OBVIOUS
<1>11. i \in EdgeItem
  <2> HIDE DEF old
  <2> QED BY <1>2, <1>6, <1>7 DEF EdgeItem
<1> HIDE DEF i, head
<1>12. edges.item = Append(buf[EdgePage].item, i)
  BY <1>3 DEF Page
<1>13. \A p \in NodePage : nodes(p).head = heads(p) /\ nodes(p).item = buf[p].item
  <2> TAKE p \in NodePage
  <2>1. buf[p] \in Page(p)
    BY <1>3
  <2> HIDE DEF heads
  <2> QED BY <2>1 DEF Page
<1>14. \A p, k : <<p, k>> \in {s, t} => p \in {s[1], t[1]}
  <2>1. \A p, k : <<p, k>> = s => p = s[1]
    OBVIOUS
  <2>2. \A p, k : <<p, k>> = t => p = t[1]
    OBVIOUS
  <2> QED BY <2>1, <2>2
<1>15. /\ op'.todo = records /\ DOMAIN op'.lsn = DOMAIN new /\ did' = did \cup facts
       /\ \A p \in Blk : buf'[p] = IF p \in DOMAIN new THEN new[p] ELSE buf[p]
  <2> HIDE DEF new, records, facts
  <2> QED BY <1>1, EnterResult
<1>16. DOMAIN new = {s[1], t[1], EdgePage} /\ new[EdgePage] = edges
       /\ \A p \in DOMAIN new \ {EdgePage} : new[p] = nodes(p)
  BY <1>3
<1> HIDE DEF new, edges, nodes
<1>17. buf'[EdgePage].item = Append(buf[EdgePage].item, i)
  BY <1>3, <1>12, <1>15, <1>16
<1>18. ASSUME NEW p \in NodePage, NEW k \in Slot
       PROVE  buf'[p].head[k] = IF <<p, k>> \in {s, t} THEN head[<<p, k>>] ELSE buf[p].head[k]
  <2>1. CASE p \in {s[1], t[1]}
    <3>1. buf'[p].head = heads(p)
      BY <1>3, <1>13, <1>15, <1>16, <2>1
    <3> QED BY <3>1
  <2>2. CASE p \notin {s[1], t[1]}
    <3>1. buf'[p] = buf[p] /\ <<p, k>> \notin {s, t}
      BY <1>3, <1>14, <1>15, <1>16, <2>2
    <3> QED BY <3>1
  <2> QED BY <2>1, <2>2
<1> HIDE DEF heads
<1>19. ASSUME NEW p \in NodePage, NEW k \in Slot
       PROVE  /\ buf'[p].head[k].out = IF <<p, k>> = s THEN e ELSE buf[p].head[k].out
              /\ buf'[p].head[k].in  = IF <<p, k>> = t THEN e ELSE buf[p].head[k].in
  <2> DEFINE h == <<p, k>>
  <2>1. old(h) = buf[p].head[k]
    OBVIOUS
  <2>2. buf'[p].head[k] = IF h \in {s, t} THEN head[h] ELSE buf[p].head[k]
    BY <1>18
  <2> HIDE DEF h, old
  <2> QED BY <1>10, <2>1, <2>2 DEF h
<1>20. /\ Len(records) \in 2..3 /\ records[1] = Record("EDGE_INSERT", EdgePage, e, i)
       /\ \A k \in 1..Len(records) : ~records[k].ovf
       /\ \A k \in 1..Len(records) : k # 1 =>
             /\ records[k].type = "ADJ_UPDATE" /\ <<records[k].blk, records[k].off>> \in {s, t}
             /\ records[k].data = head[<<records[k].blk, records[k].off>>]
       /\ \A h \in {s, t} : \E k \in 1..Len(records) :
             k # 1 /\ <<records[k].blk, records[k].off>> = h
       /\ \A p \in {s[1], t[1]} : \E k \in 1..Len(records) :
             records[k].blk = p /\ records[k].stamp
  BY <1>2, <1>4, <1>9, <1>11, EdgeRecordsAre
<1> HIDE DEF records
<1>21. LET r == records[1]
       IN  r.type = "EDGE_INSERT" /\ r.blk = EdgePage /\ r.off = e /\ r.data = i /\ r.stamp
  <2>1. records[1] = Record("EDGE_INSERT", EdgePage, e, i)
    BY <1>20
  <2> QED BY <2>1 DEF Record
<1>22. ASSUME NEW k \in 1..Len(records), k # 1
       PROVE  /\ records[k].type = "ADJ_UPDATE" /\ <<records[k].blk, records[k].off>> \in {s, t}
              /\ records[k].data = buf'[records[k].blk].head[records[k].off]
  <2> DEFINE p == records[k].blk
             q == records[k].off
  <2>1. records[k].type = "ADJ_UPDATE" /\ <<p, q>> \in {s, t} /\ records[k].data = head[<<p, q>>]
    BY <1>20, <1>22
  <2>2. p \in NodePage /\ q \in Slot
    <3> HIDE DEF p, q
    <3>1. <<p, q>> \in HdrAddr
      BY <1>2, <2>1
    <3> QED BY <3>1 DEF HdrAddr
  <2> HIDE DEF p, q
  <2>3. buf'[p].head[q] = head[<<p, q>>]
    BY <1>18, <2>1, <2>2
  <2> QED BY <2>1, <2>3 DEF p, q
<1> HIDE DEF facts, old
<1>23. ASSUME NEW p \in NodePage PROVE buf'[p].item = buf[p].item
  <2>1. p \in Blk /\ p # EdgePage /\ nodes(p).item = buf[p].item
    BY <1>3, <1>13
  <2>2. CASE p \in DOMAIN new
    BY <1>15, <1>16, <2>1, <2>2, Zenon
  <2>3. CASE p \notin DOMAIN new
    BY <1>15, <2>1, <2>3, Zenon
  <2> QED BY <2>2, <2>3
<1>24. InsertsEdge(s, t, i)
  BY <1>4, <1>8, <1>15, <1>16, <1>17, <1>19, <1>20, <1>21, <1>22, <1>23 DEF InsertsEdge, e, old, facts
<1> HIDE DEF i
<1> QED BY <1>2, <1>11, <1>24, Zenon

\* The headers' records say that the edge is on the two chains.
LEMMA InsertEdgeLinks ==
    ASSUME Types, NEW a \in LiveNode, NEW c \in LiveNode, InsertEdge(a, c),
           NEW f \in did' \ did, f.kind = "link"
    PROVE  f.xid = xid /\ \E j \in 1..Len(op'.todo) : Carries(op'.todo[j], f)
<1> DEFINE e == Len(buf[EdgePage].item) + 1
           records == op'.todo
           IsHeader(k, h) == /\ records[k].type = "ADJ_UPDATE" /\ <<records[k].blk, records[k].off>> = h
                             /\ records[k].data = buf'[h[1]].head[h[2]]
<1>0. PICK s \in HdrAddr, t \in HdrAddr, i \in EdgeItem : InsertsEdge(s, t, i)
  BY InsertEdgeShape
<1>1. /\ \A p \in NodePage, k \in Slot :
            /\ buf'[p].head[k].out = IF <<p, k>> = s THEN e ELSE buf[p].head[k].out
            /\ buf'[p].head[k].in  = IF <<p, k>> = t THEN e ELSE buf[p].head[k].in
      /\ \A k \in 1..Len(records) : k # 1 =>
            /\ records[k].type = "ADJ_UPDATE" /\ <<records[k].blk, records[k].off>> \in {s, t}
            /\ records[k].data = buf'[records[k].blk].head[records[k].off]
      /\ \A h \in {s, t} : \E k \in 1..Len(records) :
            k # 1 /\ <<records[k].blk, records[k].off>> = h
      /\ did' = did \cup {Added(EdgePage, e, i), Linked(s, "out", e), Linked(t, "in", e)}
  BY <1>0 DEF InsertsEdge
<1>2. s[1] \in NodePage /\ s[2] \in Slot /\ s = <<s[1], s[2]>> /\ t[1] \in NodePage /\ t[2] \in Slot /\ t = <<t[1], t[2]>>
  BY DEF HdrAddr
<1>3. \A h \in {s, t} : \E k \in 1..Len(records) : IsHeader(k, h)
  <2> TAKE h \in {s, t}
  <2>1. PICK k \in 1..Len(records) : k # 1 /\ <<records[k].blk, records[k].off>> = h
    BY <1>1
  <2>2. records[k].blk = h[1] /\ records[k].off = h[2]
    BY <2>1
  <2>3. IsHeader(k, h)
    BY <1>1, <2>1, <2>2
  <2> QED BY <2>3
<1>4. buf'[s[1]].head[s[2]].out = e /\ buf'[t[1]].head[t[2]].in = e
  BY <1>1, <1>2
<1> HIDE DEF e
<1>5. f = Linked(s, "out", e) \/ f = Linked(t, "in", e)
  <2>1. f # Added(EdgePage, e, i)
    BY DEF Added
  <2> QED BY <1>1, <2>1
<1>6. CASE f = Linked(s, "out", e)
  <2>1. f.xid = xid /\ f.kind = "link" /\ f.hdr = s /\ f.dir = "out" /\ f.off = e
    BY <1>6 DEF Linked
  <2> QED BY <1>3, <1>4, <2>1 DEF Carries, End
<1>7. CASE f = Linked(t, "in", e)
  <2>1. f.xid = xid /\ f.kind = "link" /\ f.hdr = t /\ f.dir = "in" /\ f.off = e
    BY <1>7 DEF Linked
  <2> QED BY <1>3, <1>4, <2>1 DEF Carries, End
<1> QED BY <1>5, <1>6, <1>7

\* insert_edge: a new item on the edge page; the node pages keep their items.
LEMMA InsertEdgeChanges ==
    ASSUME Types, NEW a \in LiveNode, NEW c \in LiveNode, InsertEdge(a, c), moving = None,
           \A p \in Counted : Known(did, buf[p].item, p)
    PROVE  Changes
<1> DEFINE s == <<a[1], buf[a[1]].item[a[2]].slot>>
           t == <<c[1], buf[c[1]].item[c[2]].slot>>
           e == Len(buf[EdgePage].item) + 1
           old(h) == buf[h[1]].head[h[2]]
           i == [id |-> lastId + 1, src |-> s, tgt |-> t, nextOut |-> old(s).out,
                 nextIn |-> old(t).in, xmax |-> 0, props |-> xid, lp |-> "normal"]
           head == [h \in {s, t} |-> [out |-> IF h = s THEN e ELSE old(h).out,
                                      in  |-> IF h = t THEN e ELSE old(h).in]]
           edges == [buf[EdgePage] EXCEPT !.item = Append(@, i)]
           heads(p) == [k \in Slot |-> IF <<p, k>> \in {s, t} THEN head[<<p, k>>] ELSE buf[p].head[k]]
           nodes(p) == [buf[p] EXCEPT !.head = heads(p)]
           new == [p \in {s[1], t[1], EdgePage} |-> IF p = EdgePage THEN edges ELSE nodes(p)]
           records == EdgeRecords(e, i, s, t, head)
           facts == {Added(EdgePage, e, i), Linked(s, "out", e), Linked(t, "in", e)}
           first == Record("EDGE_INSERT", EdgePage, e, i)
<1>1. e <= Cap /\ moving' = moving /\ Enter(new, records, facts)
  BY ZenonT(30) DEF InsertEdge
<1>2. s \in HdrAddr /\ t \in HdrAddr
  BY LiveNodeOK
<1> HIDE DEF s, t
<1>3. /\ EdgePage \in Counted /\ EdgePage \in Blk /\ s[1] \in NodePage /\ t[1] \in NodePage
      /\ NodePage \subseteq Counted /\ NodePage \subseteq Blk
      /\ buf[EdgePage] \in Page(EdgePage) /\ buf[EdgePage].item \in Seq(EdgeItem)
      /\ Len(buf[EdgePage].item) \in Nat
  <2>1. EdgePage \in Blk /\ EdgePage \in Counted /\ Content(EdgePage) = EdgeItem
    BY DEF Blk, Counted, Content
  <2> QED BY <1>2, <2>1, BufferOK DEF HdrAddr, Blk, Counted
<1>4. e \in Slot
  <2>1. e <= Cap
    BY <1>1, Zenon
  <2>2. Len(buf[EdgePage].item) \in Nat
    BY <1>3
  <2> QED BY <2>1, <2>2 DEF Slot
<1>5. old(s) \in Header /\ old(t) \in Header
  <2>1. \A h \in HdrAddr : h[1] \in Blk /\ h[2] \in Slot
    BY DEF HdrAddr, Blk
  <2> QED BY <1>2, <2>1, BufferOK DEF Page
<1>6. old(s).out \in 0..Cap /\ old(s).in \in 0..Cap /\ old(t).out \in 0..Cap /\ old(t).in \in 0..Cap
  BY <1>5 DEF Header
<1>7. lastId \in Nat /\ xid \in Nat
  BY DEF Types, Scalars, Xid
<1> HIDE DEF e, old
<1>8. i \in EdgeItem /\ Fresh(i)
  BY <1>2, <1>6, <1>7 DEF EdgeItem, Fresh
<1>9. head \in [{s, t} -> Header]
  BY <1>4, <1>6 DEF Header, Slot
<1>10. /\ first.type = "EDGE_INSERT" /\ first.blk = EdgePage /\ first.off = e /\ first.data = i
  BY DEF Record
<1> HIDE DEF i, head, heads
<1>11. edges.item = Append(buf[EdgePage].item, i)
  BY <1>3 DEF Page
<1>12. \A p \in NodePage : nodes(p).item = buf[p].item
  <2> TAKE p \in NodePage
  <2>1. buf[p] \in Page(p)
    BY <1>3, BufferOK
  <2> QED BY <2>1 DEF Page
<1> HIDE DEF edges, nodes
<1>13. /\ DOMAIN new = {s[1], t[1], EdgePage} /\ new[EdgePage] = edges
       /\ \A p \in DOMAIN new \ {EdgePage} : p \in NodePage /\ new[p] = nodes(p)
  BY <1>3
<1>14. /\ Len(records) \in 2..3 /\ records[1] = first
       /\ \A k \in 1..Len(records) : k # 1 => records[k].type = "ADJ_UPDATE"
  <2>1. /\ records \in Seq(PendingRecord) /\ Len(records) \in 2..3
        /\ records[1].type = "EDGE_INSERT" /\ records[1].off = e
        /\ \A k \in 1..Len(records) :
              /\ Fits(records[k]) /\ ~records[k].force
              /\ records[k].blk = IF k = 1 THEN EdgePage ELSE IF k = 2 THEN s[1] ELSE t[1]
              /\ k # 1 => records[k].type = "ADJ_UPDATE"
              /\ k = 1 => records[k].stamp
    BY <1>2, <1>4, <1>8, <1>9, EdgeRecordsOK
  <2>2. records[1] = first
    <3> DEFINE x == Record("ADJ_UPDATE", s[1], s[2], head[s])
               y == [Record("ADJ_UPDATE", t[1], t[2], head[t]) EXCEPT !.stamp = (s[1] # t[1])]
    <3>1. records = <<first, x>> \o (IF s = t THEN <<>> ELSE <<y>>)
      BY DEF EdgeRecords
    <3> HIDE DEF x, y, first, records
    <3>2. records = <<first, x>> \/ records = <<first, x, y>>
      BY <3>1, ThreeRecords
    <3> QED BY <3>2
  <2> QED BY <2>1, <2>2
<1>15. \A f \in facts : f.kind \in {"add", "del"} =>
          f.xid = xid /\ f.kind = "add" /\ f.blk = EdgePage /\ f.off = e /\ f.item = i
  <2> TAKE f \in facts
  <2>1. CASE f = Added(EdgePage, e, i)
    BY <2>1 DEF Added
  <2>2. CASE f = Linked(s, "out", e) \/ f = Linked(t, "in", e)
    BY <2>2 DEF Linked
  <2> QED BY <2>1, <2>2
<1> HIDE DEF new, records, facts, first
<1>16. /\ op'.todo = records /\ DOMAIN op'.lsn = DOMAIN new /\ did' = did \cup facts
       /\ \A p \in DOMAIN new : buf'[p] = new[p]
  <2>1. DOMAIN new \subseteq Blk
    BY <1>3, <1>13
  <2> QED BY <1>1, <2>1, EnterResult
<1> DEFINE g == buf[EdgePage].item
           u == Append(g, i)
<1>17. /\ Grows(g, u) /\ Known(did, u, EdgePage) /\ Len(u) = e /\ u[e] = i /\ e \in 1..Len(u)
  <2>1. Known(did, g, EdgePage) /\ g \in Seq(EdgeItem)
    BY <1>3
  <2>2. e = Len(g) + 1 /\ Len(g) \in Nat
    BY <1>3 DEF e
  <2> HIDE DEF g
  <2>3. /\ Grows(g, u) /\ Known(did, u, EdgePage) /\ Len(u) = Len(g) + 1 /\ u[Len(g) + 1] = i
    BY <1>8, <2>1, ItemAdded
  <2> QED BY <2>2, <2>3
<1>18. buf'[EdgePage].item = u
  BY <1>11, <1>13, <1>16
<1> HIDE DEF g, u
<1>19. ASSUME NEW p \in Counted, p \in DOMAIN op'.lsn
       PROVE  Grows(buf[p].item, buf'[p].item) /\ Known(did', buf'[p].item, p)
  <2>1. CASE p = EdgePage
    <3>1. Known(did', u, EdgePage)
      BY <1>16, <1>17, KnownMore
    <3> QED BY <1>17, <1>18, <2>1, <3>1 DEF g
  <2>2. CASE p # EdgePage
    <3>1. p \in NodePage /\ buf'[p].item = buf[p].item
      BY <1>12, <1>13, <1>16, <1>19, <2>2
    <3>2. Len(buf[p].item) \in Nat
      BY <1>3, <3>1, BufferOK
    <3>3. Grows(buf[p].item, buf[p].item)
      BY <3>2 DEF Grows
    <3>4. did \subseteq did'
      BY <1>16
    <3>5. Known(did', buf[p].item, p)
      BY <3>4, KnownMore
    <3> QED BY <3>1, <3>3, <3>5
  <2> QED BY <2>1, <2>2
<1>20. ASSUME NEW j \in 1..Len(op'.todo)
       PROVE  /\ Shows(buf'[op'.todo[j].blk].item, op'.todo[j])
              /\ IsDelete(op'.todo[j]) => /\ op'.todo[j].off \in 1..Len(buf[op'.todo[j].blk].item)
                                          /\ DelFact(did', op'.todo[j].blk, op'.todo[j].off)
              /\ IsInsert(op'.todo[j]) => Fresh(op'.todo[j].data)
  <2>1. CASE j = 1
    <3>1. op'.todo[j] = first /\ ~IsDelete(first)
      BY <1>10, <1>14, <1>16, <2>1 DEF IsDelete
    <3>2. Shows(u, first)
      BY <1>10, <1>17, <3>1 DEF Shows
    <3> QED BY <1>8, <1>10, <1>18, <3>1, <3>2
  <2>2. CASE j # 1
    <3>1. op'.todo[j].type = "ADJ_UPDATE"
      BY <1>14, <1>16, <2>2
    <3>2. ~IsDelete(op'.todo[j]) /\ ~IsInsert(op'.todo[j])
      BY <3>1 DEF IsDelete, IsInsert
    <3> QED BY <3>2 DEF Shows
  <2> QED BY <2>1, <2>2
<1>21. ASSUME NEW f \in did' \ did, f.kind \in {"add", "del", "link"}
       PROVE  f.xid = xid /\ \E j \in 1..Len(op'.todo) : Carries(op'.todo[j], f)
  <2>1. CASE f.kind \in {"add", "del"}
    <3>1. f.xid = xid /\ f.kind = "add" /\ f.blk = EdgePage /\ f.off = e /\ f.item = i
      BY <1>15, <1>16, <1>21, <2>1
    <3>2. IsInsert(first)
      BY <1>10 DEF IsInsert
    <3>3. Carries(first, f)
      BY <1>10, <3>1, <3>2 DEF Carries
    <3>4. 1 \in 1..Len(op'.todo) /\ op'.todo[1] = first
      BY <1>14, <1>16
    <3> QED BY <3>1, <3>3, <3>4
  <2>2. CASE f.kind = "link"
    BY <1>21, <2>2, InsertEdgeLinks
  <2> QED BY <1>21, <2>1, <2>2
<1>22. did \subseteq did' /\ moving' = None
  BY <1>1, <1>16
<1> HIDE DEF records, facts, new
<1> QED BY <1>19, <1>20, <1>21, <1>22, Zenon DEF Changes

\* A step of the writer, update_edge_props apart, changes pages and logs it.
LEMMA WriteChanges ==
    ASSUME Types, Durable, Write
    PROVE  Changes \/ \E off \in Items(EdgePage) : UpdateProps(off)
<1>1. \A p \in Counted : Known(did, buf[p].item, p)
  BY DEF Durable, Lasting, BufOK
<1>2. EdgePage \in Counted /\ NodePage \subseteq Counted
  BY DEF Counted
<1>3. ASSUME NEW p \in NodePage, NEW big \in BOOLEAN, InsertNode(p, big) PROVE Changes
  <2>1. moving = None
    BY <1>3 DEF InsertNode, May
  <2> QED BY <1>1, <1>2, <1>3, <2>1, InsertNodeChanges
<1>4. ASSUME NEW a \in LiveNode, DeleteNode(a[1], a[2]) \/ UpdateNode(a[1], a[2]) \/ MoveNode(a[1], a[2])
      PROVE  Changes
  <2>1. a[1] \in NodePage /\ a[2] \in Items(a[1]) /\ buf[a[1]].item[a[2]] \in NodeItem
    BY LiveNodeOK
  <2>2. a[2] \in Live(a[1])
    BY DEF LiveNode
  <2>3. moving = None
    BY <1>4 DEF DeleteNode, UpdateNode, MoveNode, May
  <2>4. Known(did, buf[a[1]].item, a[1]) /\ a[1] \in Counted
    BY <1>1, <1>2, <2>1
  <2>5. CASE DeleteNode(a[1], a[2])
    BY <2>1, <2>3, <2>4, <2>5, KillChanges DEF DeleteNode
  <2>6. CASE UpdateNode(a[1], a[2])
    BY <2>1, <2>2, <2>3, <2>4, <2>6, UpdateNodeChanges
  <2>7. CASE MoveNode(a[1], a[2])
    <3> DEFINE y == buf[a[1]].item[a[2]]
    <3>1. y \in NodeItem /\ y.xmax = 0 /\ y.lp = "normal"
      BY <2>1, <2>2 DEF Live
    <3>2. moving' = [y EXCEPT !.big = FALSE]
      BY <2>7 DEF MoveNode
    <3> HIDE DEF y
    <3>3. Fresh(moving')
      BY <3>1, <3>2 DEF NodeItem, Fresh
    <3> QED BY <2>1, <2>4, <2>7, <3>3, KillChanges, Zenon DEF MoveNode
  <2> QED BY <1>4, <2>5, <2>6, <2>7
<1>5. ASSUME NEW p \in NodePage, MovePut(p) PROVE Changes
  <2>1. Fresh(moving)
    BY <1>5 DEF MovePut, Durable
  <2> QED BY <1>1, <1>2, <1>5, <2>1, MovePutChanges
<1>6. ASSUME NEW p \in NodePage, VacuumPage(p) PROVE Changes
  <2>1. moving = None
    BY <1>6 DEF VacuumPage, May
  <2> QED BY <1>1, <1>2, <1>6, <2>1, VacuumChanges
<1>7. ASSUME NEW a \in LiveNode, NEW c \in LiveNode, InsertEdge(a, c) PROVE Changes
  <2>1. moving = None
    BY <1>7, Zenon DEF InsertEdge, May
  <2> QED BY <1>1, <1>7, <2>1, InsertEdgeChanges, Zenon
<1>8. ASSUME NEW off \in Items(EdgePage), DeleteEdge(off) PROVE Changes
  <2>1. moving = None /\ moving' = moving
    BY <1>8 DEF DeleteEdge, May
  <2> QED BY <1>1, <1>2, <1>8, <2>1, KillChanges DEF DeleteEdge
<1> QED BY <1>3, <1>4, <1>5, <1>6, <1>7, <1>8 DEF Write

-----------------------------------------------------------------------------
(* The theorem                                                             *)

LEMMA NextDurable ==
    ASSUME CheckpointApart, Replayable, Durable, [Next]_vars
    PROVE  Durable'
<1>1. Types /\ Rest /\ \A p \in Counted : Counting(p)
  BY DEF Replayable
<1>2. ASSUME Write PROVE Durable'
  <2>1. ASSUME NEW off \in Items(EdgePage), UpdateProps(off) PROVE Durable'
    BY <1>1, <2>1, UpdatePropsDurable
  <2>2. ASSUME Begins, Changes PROVE Durable'
    <3>1. PICK new, records, facts : Enter(new, records, facts) /\ Section(new, records)
      BY <2>2 DEF Begins
    <3> QED BY <1>1, <2>2, <3>1, EnterDurable
  <2> QED BY <1>1, <1>2, <2>1, <2>2, WriteBegins, WriteChanges
<1>3. ASSUME NEW q \in Blk, WritePage(q) PROVE Durable'
  BY <1>1, <1>3, WritePageDurable
<1>4. ASSUME NEW n \in 0..Len(wal), Crash(n) PROVE Durable'
  BY <1>1, <1>4, CrashDurable
<1>5. (LogNext => Durable') /\ (OpEnd => Durable') /\ (Commit => Durable')
  BY <1>1, LogNextDurable, OpEndDurable, CommitDurable
<1>6. CheckpointBegin \/ CheckpointEnd => Durable'
  BY <1>1, CheckpointDurable
<1>7. (RedoNext => Durable') /\ (RedoEnd => Durable')
  BY <1>1, RedoNextDurable, RedoEndDurable
<1>8. UNCHANGED vars => Durable'
  BY IdleDurable
<1> QED BY <1>2, <1>3, <1>4, <1>5, <1>6, <1>7, <1>8 DEF Next

\* When the server runs and no critical section is in progress, the buffers show
\* the whole WAL, in which all is that a committed transaction did.
LEMMA DurableItems == ASSUME Types, Durable PROVE ItemsDurable
<1> SUFFICES ASSUME Quiet PROVE ItemsDurable
  BY DEF ItemsDurable
<1>1. mode = "run" /\ op = None /\ Len(wal) \in Nat
  BY DEF Quiet, Types, Log
<1>2. \A p \in Counted : Reflects(wal, buf[p].item, p, Len(wal)) /\ Known(did, buf[p].item, p)
  BY <1>1 DEF Durable, Lasting, BufOK
<1>3. ASSUME NEW f \in did, f.kind \in {"add", "del"}, Committed(f.xid)
      PROVE  /\ f.off \in Items(f.blk)
             /\ f.kind = "add" => buf[f.blk].item[f.off].id = f.item.id
             /\ f.kind = "del" => buf[f.blk].item[f.off].xmax # 0
  <2>1. PICK c \in 1..Len(wal) : wal[c] = CommitOf(f.xid)
    BY <1>3 DEF Committed
  <2>2. PICK k \in 1..Len(wal) : k < c /\ Carries(wal[k], f)
    BY <1>3, <2>1 DEF Durable, FactOK, InLog
  <2>3. wal[k].type # "COMMIT" /\ wal[k].blk = f.blk /\ wal[k].off = f.off
    BY <1>3, <2>2 DEF Carries
  <2>4. EntryOK(k, wal[k])
    BY DEF Types, Log
  <2>5. f.blk \in Counted
    BY <2>3, <2>4 DEF EntryOK, Fits, Counted
  <2>6. Shows(buf[f.blk].item, wal[k])
    <3>1. Covers(buf[f.blk].item, wal[k])
      BY <1>1, <1>2, <2>3, <2>5 DEF Reflects, About
    <3> QED BY <3>1 DEF Covers
  <2>7. CASE f.kind = "add"
    BY <2>2, <2>3, <2>6, <2>7 DEF Carries, Shows, Items
  <2>8. CASE f.kind = "del"
    BY <2>2, <2>3, <2>6, <2>8 DEF Carries, Shows, Items
  <2> QED BY <1>3, <2>7, <2>8
<1>4. ASSUME NEW p \in Blk \ {OvfPage}, NEW i \in Items(p), buf[p].item[i].xmax # 0
      PROVE  \E f \in did : f.kind = "del" /\ f.blk = p /\ f.off = i
  <2>1. p \in Counted
    BY DEF Blk, Counted
  <2>2. i \in 1..Len(buf[p].item)
    BY DEF Items
  <2>3. DelFact(did, p, i)
    BY <1>2, <1>4, <2>1, <2>2 DEF Known
  <2> QED BY <2>3 DEF DelFact
<1> QED BY <1>3, <1>4 DEF ItemsDurable

\* Items survive crashes: what a committed transaction inserted is at its address,
\* what it deleted is deleted, and nothing is deleted that nobody deleted.  As for
\* RedoNeverFails, no checkpoint may start in a critical section: redo would start
\* after some of its records, and the pages would not have been written.
THEOREM ItemsAreDurable == ASSUME CheckpointApart PROVE Spec => []ItemsDurable
<1>1. Replayable /\ Durable => ItemsDurable
  BY DurableItems DEF Replayable
<1>2. Replayable /\ Durable /\ [Next]_vars => Replayable' /\ Durable'
  BY NextReplayable, NextDurable
<1>3. Init => Replayable /\ Durable
  BY InitReplayable, InitDurable
<1> QED BY <1>1, <1>2, <1>3, PTL DEF Spec
-----------------------------------------------------------------------------
(* The overflow block.  A record that adds a node with big properties      *)
(* carries the block's image, and the block is written once: so the block  *)
(* is right if the record is in the WAL, which it is if the node is.       *)

\* A record with the image of the overflow block, and the node it is of.
HasOvf(r) == r.type # "COMMIT" /\ r.ovf # None
Stored(w, id, m) == \E k \in 1..Len(w) : k <= m /\ HasOvf(w[k]) /\ w[k].ovf.item = <<id>>

\* The overflow blocks of all big items s are among the first m records.
BigStored(w, s, m) == \A i \in 1..Len(s) : s[i].big => Stored(w, s[i].id, m)

\* A version of the block shows the block that is in the first m records.
BlockShown(w, page, m) ==
    \A k \in 1..Len(w) : k <= m /\ HasOvf(w[k]) => page.init /\ page.item = w[k].ovf.item

\* There is one overflow block, which is written once.
OneBlock(w) ==
    /\ \A k \in 1..Len(w) : HasOvf(w[k]) => w[k].ovf.init
    /\ \A j, k \in 1..Len(w) : HasOvf(w[j]) /\ HasOvf(w[k]) => j = k

\* What it takes to recover the block.
BlockKept ==
    /\ BlockShown(wal, disk[OvfPage], ckpt)
    /\ todo # None /\ OvfPage \notin todo => BlockShown(wal, disk[OvfPage], redoPtr)
    /\ BlockShown(wal, buf[OvfPage], IF mode = "run" THEN Len(wal) ELSE pos)
    /\ ~InOp(OvfPage) /\ OvfPage \notin dirty => buf[OvfPage] = disk[OvfPage]

\* The record of a big item comes with its block, which is new.
BlockToCome(r, j) ==
    /\ r.ovf => /\ j = 1 /\ r.type = "NODE_INSERT" /\ r.stamp
                /\ buf[OvfPage].init /\ buf[OvfPage].item = <<r.data.id>>
                /\ \A k \in 1..Len(wal) : ~HasOvf(wal[k])
    /\ r.type = "NODE_INSERT" /\ r.data.big => r.ovf
ToStore(records, p, id) ==
    \E j \in 1..Len(records) : records[j].blk = p /\ records[j].ovf /\ records[j].data.id = id

\* Every version of a node page has big items only whose block is in the WAL up to its
\* LSN, in a critical section or is yet to be logged.
BigLogged(w, r, n) ==
    /\ r.type = "NODE_INSERT" /\ r.data.big => Stored(w, r.data.id, n)
    /\ r.img # None => BigStored(w, r.img.item, n)
NodesStored(p) ==
    /\ \A n \in 1..Len(wal) : About(wal[n], p) => BigLogged(wal, wal[n], n)
    /\ BigStored(wal, disk[p].item, disk[p].lsn)
    /\ ~InOp(p) => BigStored(wal, buf[p].item, buf[p].lsn)
    /\ InOp(p) => \A i \in 1..Len(buf[p].item) : buf[p].item[i].big =>
          Stored(wal, buf[p].item[i].id, op.lsn[p]) \/ ToStore(op.todo, p, buf[p].item[i].id)

Overflown ==
    /\ OneBlock(wal) /\ BlockKept
    /\ \A p \in NodePage : NodesStored(p)
    /\ op # None => \A j \in 1..Len(op.todo) : BlockToCome(op.todo[j], j)
    /\ moving # None => ~moving.big
-----------------------------------------------------------------------------

\* Blocks that are stored stay stored: in more records, and in a log cut off later.
LEMMA BigMore ==
    ASSUME NEW w, NEW s, NEW m \in Nat, NEW n \in Nat, m <= n, BigStored(w, s, m)
    PROVE  BigStored(w, s, n)
<1>1. \A k \in 1..Len(w) : k <= m => k <= n
  OBVIOUS
<1> QED BY <1>1 DEF BigStored, Stored

LEMMA PrefixStored ==
    ASSUME NEW w, NEW v, NEW n, Prefix(w, v, n), Len(w) \in Nat, Len(v) \in Nat,
           NEW id, NEW m \in Nat, m <= n, Stored(w, id, m)
    PROVE  Stored(v, id, m)
<1>1. \A k \in 1..Len(w) : k <= m => k \in 1..Len(v) /\ v[k] = w[k]
  BY DEF Prefix
<1> QED BY <1>1 DEF Stored

LEMMA PrefixBig ==
    ASSUME NEW w, NEW v, NEW n, Prefix(w, v, n), Len(w) \in Nat, Len(v) \in Nat,
           NEW s, NEW m \in Nat, m <= n, BigStored(w, s, m)
    PROVE  BigStored(v, s, m)
BY PrefixStored DEF BigStored

LEMMA PrefixShown ==
    ASSUME NEW w, NEW v, NEW n, Prefix(w, v, n), Len(w) \in Nat, Len(v) \in Nat,
           NEW page, NEW m \in Nat, m <= n, BlockShown(w, page, m)
    PROVE  BlockShown(v, page, m)
<1>1. \A k \in 1..Len(v) : k <= m => k \in 1..Len(w) /\ v[k] = w[k]
  BY DEF Prefix
<1> QED BY <1>1 DEF BlockShown

LEMMA ShownFewer ==
    ASSUME NEW w, NEW page, NEW m \in Nat, NEW n \in Nat, n <= m, BlockShown(w, page, m)
    PROVE  BlockShown(w, page, n)
<1>1. \A k \in 1..Len(w) : k <= n => k <= m
  OBVIOUS
<1> QED BY <1>1 DEF BlockShown

\* Only the items of a block matter.
LEMMA SameBlock ==
    ASSUME NEW w, NEW page, NEW new, new.init = page.init, new.item = page.item, NEW m,
           BlockShown(w, page, m)
    PROVE  BlockShown(w, new, m)
BY DEF BlockShown

\* What is known of the log and of node pages.
LEMMA PositionsOK ==
    ASSUME Types
    PROVE  /\ Len(wal) \in Nat /\ ckpt \in Nat /\ redoPtr \in Nat /\ pos \in Nat /\ flushed \in Nat
           /\ ckpt <= redoPtr /\ redoPtr <= Len(wal) /\ ckpt <= flushed /\ flushed <= Len(wal)
           /\ OvfPage \in Blk /\ NodePage \subseteq Counted
           /\ \A p \in NodePage : p \in Blk /\ p # OvfPage /\ p # EdgePage
<1>1. EdgePage \in Counted /\ NodePage \subseteq Counted /\ OvfPage \in Blk
  BY DEF Counted, Blk
<1>2. /\ Len(wal) \in Nat /\ ckpt \in Nat /\ redoPtr \in Nat /\ pos \in Nat /\ flushed \in 0..Len(wal)
      /\ ckpt <= redoPtr /\ redoPtr <= Len(wal) /\ ckpt <= flushed
  BY <1>1, LogOK
<1>3. \A p \in NodePage : p \in Blk /\ p # OvfPage /\ p # EdgePage
  BY DEF Blk
<1>4. flushed \in Nat /\ flushed <= Len(wal)
  BY <1>2
<1> QED BY <1>1, <1>2, <1>3, <1>4

\* The parts that a log that keeps its first m records leaves alone.
LEMMA EntriesKept ==
    ASSUME Types, NEW p \in NodePage, NodesStored(p), NEW v, NEW m, Prefix(wal, v, m), Len(v) \in Nat
    PROVE  /\ \A n \in 1..m : About(v[n], p) => BigLogged(v, v[n], n)
           /\ disk[p].lsn <= m => BigStored(v, disk[p].item, disk[p].lsn)
           /\ ~InOp(p) /\ buf[p].lsn <= m => BigStored(v, buf[p].item, buf[p].lsn)
<1>1. p \in Counted /\ Len(wal) \in Nat
  BY PositionsOK
<1>2. disk[p].lsn \in Nat /\ buf[p].lsn \in Nat
  BY <1>1, LogOK
<1>3. ASSUME NEW n \in 1..m, About(v[n], p) PROVE BigLogged(v, v[n], n)
  <2>1. n \in 1..Len(wal) /\ wal[n] = v[n] /\ n \in Nat /\ n <= m
    BY <1>1 DEF Prefix
  <2> DEFINE r == v[n]
  <2>2. BigLogged(wal, r, n)
    BY <1>3, <2>1 DEF NodesStored
  <2> HIDE DEF r
  <2>3. BigLogged(v, r, n)
    BY <1>1, <2>1, <2>2, PrefixStored, PrefixBig DEF BigLogged
  <2> QED BY <2>3 DEF r
<1>4. disk[p].lsn <= m => BigStored(v, disk[p].item, disk[p].lsn)
  BY <1>1, <1>2, PrefixBig DEF NodesStored
<1>5. ~InOp(p) /\ buf[p].lsn <= m => BigStored(v, buf[p].item, buf[p].lsn)
  BY <1>1, <1>2, PrefixBig DEF NodesStored
<1> QED BY <1>3, <1>4, <1>5

LEMMA DiskBlockKept ==
    ASSUME Types, BlockKept, NEW m, Prefix(wal, wal', m), Len(wal') \in Nat, ckpt <= m,
           disk' = disk, ckpt' = ckpt, todo' = None \/ (todo' = todo /\ redoPtr' = redoPtr /\ redoPtr <= m)
    PROVE  /\ BlockShown(wal', disk'[OvfPage], ckpt')
           /\ todo' # None /\ OvfPage \notin todo' => BlockShown(wal', disk'[OvfPage], redoPtr')
<1>1. Len(wal) \in Nat /\ ckpt \in Nat /\ redoPtr \in Nat
  BY PositionsOK
<1> DEFINE v == wal'
           g == disk[OvfPage]
<1>2. Prefix(wal, v, m) /\ Len(v) \in Nat
  OBVIOUS
<1> HIDE DEF v
<1>3. BlockShown(v, g, ckpt)
  BY <1>1, <1>2, PrefixShown DEF BlockKept
<1>4. todo' # None /\ OvfPage \notin todo' => BlockShown(v, g, redoPtr)
  BY <1>1, <1>2, PrefixShown DEF BlockKept
<1> QED BY <1>3, <1>4 DEF v, g

-----------------------------------------------------------------------------

\* What a critical section does to big items and the block, and what it is about to log.
SameBig(s, t) == \A i \in 1..Len(t) : t[i].big => \E k \in 1..Len(s) : s[k].big /\ s[k].id = t[i].id
BlockRecord(r, j) ==
    /\ r.ovf => /\ j = 1 /\ r.type = "NODE_INSERT" /\ r.stamp /\ ~buf[OvfPage].init
                /\ buf'[OvfPage].init /\ buf'[OvfPage].item = <<r.data.id>>
    /\ r.type = "NODE_INSERT" /\ r.data.big => r.ovf
BlockChanges ==
    /\ \A p \in NodePage : p \in DOMAIN op'.lsn =>
          \A i \in 1..Len(buf'[p].item) : buf'[p].item[i].big =>
              \/ \E k \in 1..Len(buf[p].item) : buf[p].item[k].big /\ buf[p].item[k].id = buf'[p].item[i].id
              \/ ToStore(op'.todo, p, buf'[p].item[i].id)
    /\ \A j \in 1..Len(op'.todo) : BlockRecord(op'.todo[j], j)
    /\ OvfPage \in DOMAIN op'.lsn => ~buf[OvfPage].init
    /\ moving' # None => ~moving'.big

LEMMA EnterOverflown ==
    ASSUME Types, NEW new, NEW records, NEW facts, Enter(new, records, facts), Section(new, records),
           BlockChanges, Overflown
    PROVE  Overflown'
<1>1. /\ mode = "run" /\ op = None /\ op' # None
      /\ op'.todo = records /\ DOMAIN op'.lsn = DOMAIN new
      /\ \A q \in DOMAIN new : op'.lsn[q] = buf[q].lsn /\ buf'[q] = new[q]
      /\ \A q \in Blk \ DOMAIN new : buf'[q] = buf[q]
      /\ UNCHANGED <<dirty, disk, wal, redoPtr, ckpt, todo, mode, pos, fpw>>
  BY EnterFacts
<1>2. Len(wal) \in Nat /\ OvfPage \in Blk /\ \A p \in NodePage : p \in Blk
  BY PositionsOK
<1>3. \A p : ~InOp(p) /\ (InOp(p)' <=> p \in DOMAIN new)
  BY <1>1 DEF InOp
<1>4. ~buf[OvfPage].init => \A k \in 1..Len(wal) : ~HasOvf(wal[k])
  BY <1>1 DEF Overflown, BlockKept, BlockShown
<1>5. BlockKept'
  <2>1. BlockShown(wal, buf'[OvfPage], Len(wal))
    <3>1. CASE OvfPage \in DOMAIN new
      BY <1>1, <1>4, <3>1 DEF BlockChanges, BlockShown
    <3>2. CASE OvfPage \notin DOMAIN new
      BY <1>1, <1>2, <3>2 DEF Overflown, BlockKept
    <3> QED BY <3>1, <3>2
  <2>2. ~InOp(OvfPage)' /\ OvfPage \notin dirty => buf'[OvfPage] = disk[OvfPage]
    BY <1>1, <1>2, <1>3 DEF Overflown, BlockKept
  <2> QED BY <1>1, <2>1, <2>2 DEF Overflown, BlockKept
<1>6. ASSUME NEW p \in NodePage PROVE NodesStored(p)'
  <2>1. NodesStored(p) /\ p \in Blk /\ BigStored(wal, buf[p].item, buf[p].lsn)
    BY <1>2, <1>3 DEF Overflown, NodesStored
  <2>2. ~InOp(p)' => buf'[p] = buf[p]
    BY <1>1, <1>3, <2>1
  <2>3. ASSUME InOp(p)', NEW i \in 1..Len(buf'[p].item), buf'[p].item[i].big
        PROVE  Stored(wal, buf'[p].item[i].id, op'.lsn[p]) \/ ToStore(op'.todo, p, buf'[p].item[i].id)
    <3>1. p \in DOMAIN op'.lsn /\ op'.lsn[p] = buf[p].lsn
      BY <1>1, <1>3, <2>3
    <3>2. \/ \E k \in 1..Len(buf[p].item) : buf[p].item[k].big /\ buf[p].item[k].id = buf'[p].item[i].id
          \/ ToStore(op'.todo, p, buf'[p].item[i].id)
      BY <2>3, <3>1 DEF BlockChanges
    <3> QED BY <2>1, <3>1, <3>2 DEF BigStored
  <2> QED BY <1>1, <2>1, <2>2, <2>3 DEF NodesStored
<1>7. \A j \in 1..Len(op'.todo) : BlockToCome(op.todo[j], j)'
  BY <1>1, <1>4 DEF BlockChanges, BlockRecord, BlockToCome
<1>8. OneBlock(wal') /\ (moving' # None => ~moving'.big)
  BY <1>1 DEF Overflown, BlockChanges
<1> QED BY <1>5, <1>6, <1>7, <1>8 DEF Overflown

\* The block's image in the next record of a critical section.
LEMMA LogNextBlock ==
    ASSUME Types, LogNext
    PROVE  LET r == op.todo[1]
               n == Len(wal) + 1
               e == wal'[n]
           IN  /\ HasOvf(e) <=> r.ovf
               /\ r.ovf => e.ovf.init = buf[OvfPage].init /\ e.ovf.item = buf[OvfPage].item
               /\ moving' = moving
<1> DEFINE r == Head(op.todo)
           n == Len(wal) + 1
           image(p) == [buf[p] EXCEPT !.lsn = n]
           img == IF r.force \/ (fpw /\ buf[r.blk].lsn <= redoPtr) THEN image(r.blk) ELSE None
           ovf == IF r.ovf THEN image(OvfPage) ELSE None
           e == [type |-> r.type, blk |-> r.blk, off |-> r.off, data |-> r.data, img |-> img, ovf |-> ovf]
<1>1. op # None /\ op.todo # <<>> /\ n <= MaxWal /\ wal' = Append(wal, e) /\ moving' = moving
  BY DEF LogNext, client
<1>2. SectionOK(op) /\ Len(op.todo) >= 1
  BY LogNextEntry, Zenon
<1>3. r = op.todo[1] /\ 1 \in 1..Len(op.todo)
  <2>1. op.todo \in Seq(PendingRecord) /\ Len(op.todo) \in Nat
    BY <1>2 DEF SectionOK
  <2> QED BY <1>1, <1>2, <2>1, HeadTailProperties
<1>4. Fits(op.todo[1])
  BY <1>2, <1>3 DEF SectionOK
<1>5. n \in Lsn /\ OvfPage \in Blk /\ wal \in Seq(LogEntry)
  BY <1>1, PositionsOK DEF Lsn, Types, Log
<1> HIDE DEF img, n
<1>6. image(OvfPage) # None /\ image(OvfPage).init = buf[OvfPage].init /\ image(OvfPage).item = buf[OvfPage].item
  <2>1. buf[OvfPage] \in Page(OvfPage)
    BY <1>5, BufferOK
  <2>2. image(OvfPage) \in Page(OvfPage)
    BY <1>5, <2>1 DEF Page
  <2>3. image(OvfPage) # None
    BY <1>5, <2>2, NoneAssumption
  <2> QED BY <2>1, <2>3 DEF Page
<1> HIDE DEF image
<1>7. e.type = r.type /\ e.ovf = ovf
  OBVIOUS
<1>8. wal'[n] = e
  <2>1. wal' = Append(wal, wal'[n]) /\ wal'[n] \in LogEntry
    BY LogNextEntry, Zenon DEF n
  <2> HIDE DEF e
  <2>2. Append(wal, e)[Len(wal) + 1] = e
    BY <1>5, AppendProperties
  <2> QED BY <1>1, <2>2 DEF n
<1> HIDE DEF e, r
<1>9. r.type # "COMMIT"
  BY <1>3, <1>4 DEF Fits
<1> HIDE DEF ovf
<1>10. ovf = IF r.ovf THEN image(OvfPage) ELSE None
  BY DEF ovf
<1> QED BY <1>1, <1>3, <1>6, <1>7, <1>8, <1>9, <1>10 DEF HasOvf, n
LEMMA LogNextOverflown == ASSUME Types, LogNext, Overflown PROVE Overflown'
<1> DEFINE r == op.todo[1]
           m == Len(wal)
           n == Len(wal) + 1
           e == wal'[n]
<1>1. /\ mode = "run" /\ op # None /\ op' # None
      /\ UNCHANGED <<buf, dirty, disk, redoPtr, ckpt, todo, mode, pos, fpw>>
      /\ Len(wal') = n /\ m \in Nat /\ \A k \in 1..m : wal'[k] = wal[k]
      /\ Imaging(r) => [buf[r.blk] EXCEPT !.lsn = n] # None
  BY LogNextMore, Zenon
<1>2. /\ SectionOK(op) /\ Len(op.todo) >= 1 /\ Fits(r) /\ r.blk \in DOMAIN op.lsn
      /\ e.type = r.type /\ e.blk = r.blk /\ e.off = r.off /\ e.data = r.data
      /\ e.img = IF Imaging(r) THEN [buf[r.blk] EXCEPT !.lsn = n] ELSE None
      /\ op'.todo \in Seq(PendingRecord) /\ Len(op'.todo) = Len(op.todo) - 1
      /\ \A i \in 1..Len(op'.todo) : op'.todo[i] = op.todo[i + 1]
      /\ DOMAIN op'.lsn = DOMAIN op.lsn
      /\ \A q \in DOMAIN op.lsn : op'.lsn[q] \in {op.lsn[q], n}
      /\ r.stamp => op'.lsn[r.blk] = n
  BY LogNextEntry, Zenon
<1>3. /\ HasOvf(e) <=> r.ovf
      /\ r.ovf => e.ovf.init = buf[OvfPage].init /\ e.ovf.item = buf[OvfPage].item
      /\ moving' = moving
  BY LogNextBlock, Zenon
<1>4. /\ ckpt \in Nat /\ redoPtr \in Nat /\ ckpt <= m /\ redoPtr <= m /\ OvfPage \in Blk
      /\ \A p \in NodePage : p \in Blk /\ p # OvfPage /\ p # EdgePage
  BY PositionsOK
<1>5. Len(op.todo) \in Nat /\ Len(op'.todo) \in Nat /\ 1 \in 1..Len(op.todo)
  <2>1. Len(op.todo) \in Nat /\ Len(op'.todo) \in Nat
    BY <1>2 DEF SectionOK
  <2> QED BY <1>2, <2>1
<1>6. n \in Nat /\ m \in Nat /\ n = m + 1 /\ Len(wal) = m
  BY <1>1
<1> DEFINE v == wal'
<1>7. Prefix(wal, v, m) /\ Len(v) = n /\ v[n] = e
  BY <1>1, LogKept
<1>8. BlockToCome(r, 1)
  BY <1>1, <1>5 DEF Overflown
<1> HIDE DEF e, n, v, r, m
<1>9. \A k \in 1..Len(v) : (k \in 1..m /\ v[k] = wal[k]) \/ k = n
  BY <1>6, <1>7 DEF Prefix
<1>10. OneBlock(v)
  <2>1. r.ovf => \A k \in 1..m : ~HasOvf(wal[k])
    BY <1>6, <1>8 DEF BlockToCome
  <2>2. /\ \A k \in 1..m : HasOvf(wal[k]) => wal[k].ovf.init
        /\ \A j, k \in 1..m : HasOvf(wal[j]) /\ HasOvf(wal[k]) => j = k
    BY <1>6 DEF Overflown, OneBlock
  <2>3. r.ovf => e.ovf.init
    BY <1>3, <1>8 DEF BlockToCome
  <2> QED BY <1>3, <1>7, <1>9, <2>1, <2>2, <2>3 DEF OneBlock
<1>11. BlockKept'
  <2>1. /\ BlockShown(wal', disk'[OvfPage], ckpt')
        /\ todo' # None /\ OvfPage \notin todo' => BlockShown(wal', disk'[OvfPage], redoPtr')
    BY <1>1, <1>4, <1>6, <1>7, DiskBlockKept DEF v, Overflown
  <2>2. BlockShown(v, buf[OvfPage], n)
    <3>1. BlockShown(wal, buf[OvfPage], m)
      BY <1>1, <1>6 DEF Overflown, BlockKept
    <3>2. \A k \in 1..m : HasOvf(wal[k]) => buf[OvfPage].init /\ buf[OvfPage].item = wal[k].ovf.item
      BY <1>6, <3>1 DEF BlockShown
    <3>3. HasOvf(e) => buf[OvfPage].init /\ buf[OvfPage].item = e.ovf.item
      BY <1>3, <1>8 DEF BlockToCome
    <3> QED BY <1>7, <1>9, <3>2, <3>3 DEF BlockShown
  <2>3. InOp(OvfPage)' <=> InOp(OvfPage)
    BY <1>1, <1>2 DEF InOp
  <2> QED BY <1>1, <1>7, <2>1, <2>2, <2>3 DEF Overflown, BlockKept, v
<1>12. ASSUME r.ovf, NEW l \in Nat, n <= l PROVE Stored(v, r.data.id, l)
  <2>1. n \in 1..Len(v) /\ n <= l /\ HasOvf(v[n]) /\ v[n].ovf.item = <<r.data.id>>
    BY <1>3, <1>6, <1>7, <1>8, <1>12 DEF BlockToCome
  <2> QED BY <2>1 DEF Stored
<1>13. ASSUME NEW p \in NodePage PROVE NodesStored(p)'
  <2>1. NodesStored(p) /\ p \in Blk /\ p # OvfPage /\ Len(v) \in Nat
    BY <1>4, <1>6, <1>7 DEF Overflown
  <2>2. /\ \A k \in 1..m : About(v[k], p) => BigLogged(v, v[k], k)
        /\ disk[p].lsn <= m => BigStored(v, disk[p].item, disk[p].lsn)
        /\ ~InOp(p) /\ buf[p].lsn <= m => BigStored(v, buf[p].item, buf[p].lsn)
    BY <1>7, <2>1, EntriesKept
  <2>3. disk[p].lsn <= m /\ buf[p].lsn <= m /\ buf[p] \in Page(p)
    BY <1>6, <2>1, LogOK, BufferOK DEF Counted
  <2>4. InOp(p)' <=> InOp(p)
    BY <1>1, <1>2 DEF InOp
  <2>5. InOp(p) => \A i \in 1..Len(buf[p].item) : buf[p].item[i].big =>
            Stored(wal, buf[p].item[i].id, op.lsn[p]) \/ ToStore(op.todo, p, buf[p].item[i].id)
    BY <2>1 DEF NodesStored
  <2>6. InOp(p) => op.lsn[p] \in Nat /\ op.lsn[p] <= m /\ op'.lsn[p] \in {op.lsn[p], n}
    BY <1>2, <1>6 DEF InOp, SectionOK
  <2>7. ASSUME InOp(p), NEW i \in 1..Len(buf[p].item), buf[p].item[i].big
        PROVE  Stored(v, buf[p].item[i].id, op'.lsn[p]) /\ Stored(v, buf[p].item[i].id, n)
    <3> DEFINE id == buf[p].item[i].id
    <3>1. Stored(wal, id, op.lsn[p]) \/ ToStore(op.todo, p, id)
      BY <2>5, <2>7
    <3> HIDE DEF id
    <3>2. CASE Stored(wal, id, op.lsn[p])
      <4>1. Stored(v, id, op.lsn[p])
        BY <1>6, <1>7, <2>1, <2>6, <2>7, <3>2, PrefixStored
      <4>2. Stored(v, id, n)
        BY <1>6, <2>1, <2>6, <2>7, <4>1 DEF Stored
      <4> QED BY <2>6, <2>7, <4>1, <4>2 DEF id
    <3>3. CASE ToStore(op.todo, p, id)
      <4>1. PICK j \in 1..Len(op.todo) : op.todo[j].blk = p /\ op.todo[j].ovf /\ op.todo[j].data.id = id
        BY <3>3 DEF ToStore
      <4>2. j = 1
        BY <1>1, <4>1 DEF Overflown, BlockToCome
      <4>3. r.ovf /\ r.blk = p /\ r.data.id = id /\ r.stamp
        BY <1>8, <4>1, <4>2 DEF r, BlockToCome
      <4>4. Stored(v, id, n) /\ op'.lsn[p] = n
        BY <1>2, <1>6, <1>12, <4>3
      <4> QED BY <4>4 DEF id
    <3> QED BY <3>1, <3>2, <3>3
  <2>8. ASSUME About(e, p) PROVE BigLogged(v, e, n)
    <3>1. r.blk = p /\ InOp(p)
      BY <1>1, <1>2, <2>8 DEF About, InOp
    <3>2. e.type = "NODE_INSERT" /\ e.data.big => Stored(v, e.data.id, n)
      BY <1>2, <1>6, <1>8, <1>12 DEF BlockToCome
    <3>3. e.img # None => e.img.item = buf[p].item
      BY <1>2, <2>3, <3>1 DEF Page
    <3>4. e.img # None => BigStored(v, e.img.item, n)
      BY <2>7, <3>1, <3>3 DEF BigStored
    <3> QED BY <3>2, <3>4 DEF BigLogged
  <2>9. \A k \in 1..Len(v) : About(v[k], p) => BigLogged(v, v[k], k)
    <3> TAKE k \in 1..Len(v)
    <3> HAVE About(v[k], p)
    <3>1. CASE k = n
      BY <1>7, <2>8, <3>1
    <3>2. CASE k # n
      <4>1. k \in 1..m
        BY <1>9, <3>2
      <4> QED BY <2>2, <4>1
    <3> QED BY <3>1, <3>2
  <2> QED BY <1>1, <2>2, <2>3, <2>4, <2>7, <2>9 DEF NodesStored, v
<1>14. \A j \in 1..Len(op'.todo) : BlockToCome(op.todo[j], j)'
  <2> TAKE j \in 1..Len(op'.todo)
  <2>1. j + 1 \in 1..Len(op.todo) /\ op'.todo[j] = op.todo[j + 1]
    BY <1>2, <1>5
  <2>2. BlockToCome(op.todo[j + 1], j + 1) /\ j + 1 # 1
    BY <1>1, <1>5, <2>1 DEF Overflown
  <2> DEFINE q == op.todo[j + 1]
  <2>3. ~q.ovf /\ (q.type = "NODE_INSERT" /\ q.data.big => q.ovf)
    BY <2>2 DEF BlockToCome
  <2> HIDE DEF q
  <2>4. op'.todo[j] = q
    BY <2>1 DEF q
  <2> QED BY <2>3, <2>4 DEF BlockToCome
<1> QED BY <1>1, <1>3, <1>10, <1>11, <1>13, <1>14 DEF Overflown, v

LEMMA OpEndOverflown == ASSUME Types, OpEnd, Overflown PROVE Overflown'
<1>1. /\ op # None /\ SectionOK(op) /\ mode = "run" /\ op' = None
      /\ dirty' = dirty \cup DOMAIN op.lsn
      /\ UNCHANGED <<disk, wal, redoPtr, ckpt, todo, moving, mode, pos>>
      /\ \A q \in Blk \ DOMAIN op.lsn : buf'[q] = buf[q]
      /\ \A q \in DOMAIN op.lsn : buf'[q].lsn = op.lsn[q] /\ buf'[q].init = buf[q].init
                                  /\ buf'[q].item = buf[q].item
  BY OpEndPages, Zenon
<1>2. Len(op.todo) = 0
  BY DEF OpEnd
<1>3. Len(wal) \in Nat /\ OvfPage \in Blk /\ \A p \in NodePage : p \in Blk
  BY PositionsOK
<1>4. \A p : InOp(p) <=> p \in DOMAIN op.lsn
  BY <1>1 DEF InOp
<1>5. BlockKept'
  <2>1. BlockShown(wal, buf[OvfPage], Len(wal))
    BY <1>1 DEF Overflown, BlockKept
  <2>2. buf'[OvfPage].init = buf[OvfPage].init /\ buf'[OvfPage].item = buf[OvfPage].item
    BY <1>1, <1>3
  <2>3. BlockShown(wal, buf'[OvfPage], Len(wal))
    BY <2>1, <2>2, SameBlock
  <2>4. OvfPage \notin dirty' => buf'[OvfPage] = disk[OvfPage]
    BY <1>1, <1>3, <1>4 DEF Overflown, BlockKept
  <2> QED BY <1>1, <2>3, <2>4 DEF Overflown, BlockKept
<1>6. ASSUME NEW p \in NodePage PROVE NodesStored(p)'
  <2>1. NodesStored(p) /\ p \in Blk /\ ~InOp(p)'
    BY <1>1, <1>3 DEF Overflown, InOp
  <2>2. BigStored(wal, buf'[p].item, buf'[p].lsn)
    <3>1. CASE p \in DOMAIN op.lsn
      <4>1. \A id : ~ToStore(op.todo, p, id)
        BY <1>2 DEF ToStore
      <4>2. BigStored(wal, buf[p].item, op.lsn[p])
        BY <1>4, <2>1, <3>1, <4>1 DEF NodesStored, BigStored
      <4> QED BY <1>1, <3>1, <4>2
    <3>2. CASE p \notin DOMAIN op.lsn
      BY <1>1, <1>4, <2>1, <3>2 DEF NodesStored
    <3> QED BY <3>1, <3>2
  <2> QED BY <1>1, <2>1, <2>2 DEF NodesStored
<1> QED BY <1>1, <1>5, <1>6 DEF Overflown

\* update_edge_props, which leaves the node relation alone.
LEMMA UpdatePropsOverflown ==
    ASSUME Types, NEW off \in Items(EdgePage), UpdateProps(off), Overflown
    PROVE  Overflown'
<1>1. /\ buf' = [buf EXCEPT ![EdgePage].item[off].props = xid] /\ dirty' = dirty \cup {EdgePage}
      /\ mode = "run" /\ op = None
      /\ UNCHANGED <<disk, wal, redoPtr, ckpt, todo, op, moving, mode, pos>>
  BY DEF UpdateProps, Running, log, ckptVars, server
<1>2. buf = [p \in Blk |-> buf[p]]
  BY DEF Types, Pages
<1>3. OvfPage \in Blk /\ OvfPage # EdgePage /\ \A p \in NodePage : p \in Blk /\ p # EdgePage
  BY PositionsOK
<1>4. \A p \in Blk : p # EdgePage => buf'[p] = buf[p]
  BY <1>1, <1>2
<1>5. \A p : ~InOp(p) /\ ~InOp(p)'
  BY <1>1 DEF InOp
<1>6. BlockKept'
  BY <1>1, <1>3, <1>4, <1>5 DEF Overflown, BlockKept
<1>7. ASSUME NEW p \in NodePage PROVE NodesStored(p)'
  <2>1. NodesStored(p) /\ buf'[p] = buf[p]
    BY <1>3, <1>4 DEF Overflown
  <2> QED BY <1>1, <1>5, <2>1 DEF NodesStored
<1> QED BY <1>1, <1>6, <1>7 DEF Overflown

LEMMA CommitOverflown == ASSUME Types, Commit, Overflown PROVE Overflown'
<1> DEFINE m == Len(wal)
           n == Len(wal) + 1
           v == wal'
<1>1. /\ wal' = Append(wal, CommitOf(xid)) /\ mode = "run" /\ op = None
      /\ UNCHANGED <<buf, disk, dirty, redoPtr, ckpt, todo, op, moving, mode, pos>>
  BY DEF Commit, Running, pages, ckptVars, server
<1>2. wal \in Seq(LogEntry) /\ m \in Nat /\ n \in Nat /\ n = m + 1
  BY DEF Types, Log
<1>3. CommitOf(xid) \in LogEntry
  BY DEF CommitOf, LogEntry, Types, Scalars
<1>4. Len(v) = n /\ v[n] = CommitOf(xid) /\ \A k \in 1..m : v[k] = wal[k]
  BY <1>1, <1>2, <1>3, AppendProperties
<1>5. Prefix(wal, v, m)
  BY <1>2, <1>4, LogKept
<1>6. v[n].type = "COMMIT"
  BY <1>4 DEF CommitOf
<1>7. ~HasOvf(v[n]) /\ \A p : ~About(v[n], p)
  BY <1>6 DEF HasOvf, About
<1>8. ckpt <= m /\ redoPtr <= m /\ OvfPage \in Blk /\ NodePage \subseteq Counted
  <2>1. /\ ckpt \in Nat /\ redoPtr \in Nat /\ ckpt <= redoPtr /\ redoPtr <= Len(wal)
        /\ OvfPage \in Blk /\ NodePage \subseteq Counted
    BY PositionsOK
  <2>2. ckpt <= Len(wal)
    BY <1>2, <2>1
  <2> QED BY <2>1, <2>2
<1>9. Len(wal) = m
  OBVIOUS
<1> HIDE DEF m, n, v
<1>10. \A k \in 1..Len(v) : (k \in 1..m /\ k \in 1..Len(wal) /\ v[k] = wal[k]) \/ k = n
  BY <1>2, <1>4, <1>9
<1>11. OneBlock(v)
  BY <1>7, <1>10 DEF Overflown, OneBlock
<1>12. \A p : ~InOp(p) /\ ~InOp(p)'
  BY <1>1 DEF InOp
<1>13. BlockKept'
  <2>1. /\ BlockShown(wal', disk'[OvfPage], ckpt')
        /\ todo' # None /\ OvfPage \notin todo' => BlockShown(wal', disk'[OvfPage], redoPtr')
    BY <1>1, <1>2, <1>4, <1>5, <1>8, DiskBlockKept DEF v, Overflown
  <2>2. BlockShown(wal, buf[OvfPage], m)
    BY <1>1, <1>9 DEF Overflown, BlockKept
  <2>3. BlockShown(v, buf[OvfPage], n)
    BY <1>2, <1>7, <1>10, <2>2 DEF BlockShown
  <2> QED BY <1>1, <1>4, <1>12, <2>1, <2>3 DEF Overflown, BlockKept, v
<1>14. ASSUME NEW p \in NodePage PROVE NodesStored(p)'
  <2>1. NodesStored(p) /\ p \in Counted /\ Len(v) \in Nat
    BY <1>2, <1>4, <1>8 DEF Overflown
  <2>2. disk[p].lsn <= m /\ buf[p].lsn <= m
    BY <1>9, <2>1, LogOK
  <2>3. /\ \A k \in 1..m : About(v[k], p) => BigLogged(v, v[k], k)
        /\ BigStored(v, disk[p].item, disk[p].lsn)
        /\ BigStored(v, buf[p].item, buf[p].lsn)
    BY <1>5, <1>12, <2>1, <2>2, EntriesKept
  <2>4. \A k \in 1..Len(v) : About(v[k], p) => BigLogged(v, v[k], k)
    BY <1>7, <1>10, <2>3
  <2> QED BY <1>1, <1>12, <2>3, <2>4 DEF NodesStored, v
<1> QED BY <1>1, <1>11, <1>13, <1>14 DEF Overflown, v
-----------------------------------------------------------------------------

LEMMA WritePageOverflown == ASSUME Types, NEW q \in Blk, WritePage(q), Overflown PROVE Overflown'
<1>1. /\ q \in dirty /\ (op # None => q \notin DOMAIN op.lsn)
      /\ disk' = [disk EXCEPT ![q] = buf[q]] /\ dirty' = dirty \ {q}
      /\ todo' = IF todo = None THEN None ELSE todo \ {q}
      /\ UNCHANGED <<buf, wal, redoPtr, ckpt, op, moving, mode, pos>>
  BY WritePageFacts, Zenon
<1>2. disk = [p \in Blk |-> disk[p]]
  BY DEF Types, Pages
<1>3. /\ Len(wal) \in Nat /\ ckpt \in Nat /\ redoPtr \in Nat /\ pos \in Nat
      /\ ckpt <= redoPtr /\ redoPtr <= Len(wal)
      /\ OvfPage \in Blk /\ \A p \in NodePage : p \in Blk
  BY PositionsOK
<1>4. ~InOp(q) /\ \A p : InOp(p)' <=> InOp(p)
  BY <1>1 DEF InOp
<1>5. /\ \A p \in Blk : disk'[p] = IF p = q THEN buf[q] ELSE disk[p]
      /\ todo' # None => todo # None /\ \A p : p # q => (p \in todo' <=> p \in todo)
  BY <1>1, <1>2
<1>6. BlockKept'
  <2>1. CASE q = OvfPage
    <3>1. BlockShown(wal, buf[OvfPage], IF mode = "run" THEN Len(wal) ELSE pos)
      BY DEF Overflown, BlockKept
    <3>2. mode # "run" => todo = None /\ ckpt <= pos
      BY DEF Types, Points
    <3>3. BlockShown(wal, buf[OvfPage], ckpt)
      BY <1>3, <3>1, <3>2, ShownFewer
    <3>4. todo # None => BlockShown(wal, buf[OvfPage], redoPtr)
      BY <1>3, <3>1, <3>2, ShownFewer
    <3>5. disk'[OvfPage] = buf[OvfPage]
      BY <1>3, <1>5, <2>1
    <3> QED BY <1>1, <1>5, <3>1, <3>3, <3>4, <3>5 DEF BlockKept
  <2>2. CASE q # OvfPage
    <3>1. disk'[OvfPage] = disk[OvfPage] /\ (OvfPage \notin dirty' => OvfPage \notin dirty)
      BY <1>1, <1>3, <1>5, <2>2
    <3> QED BY <1>1, <1>4, <1>5, <2>2, <3>1 DEF Overflown, BlockKept
  <2> QED BY <2>1, <2>2
<1>7. ASSUME NEW p \in NodePage PROVE NodesStored(p)'
  <2>1. NodesStored(p) /\ disk'[p] = IF p = q THEN buf[q] ELSE disk[p]
    BY <1>3, <1>5 DEF Overflown
  <2>2. BigStored(wal, disk'[p].item, disk'[p].lsn)
    BY <1>4, <2>1 DEF NodesStored
  <2> QED BY <1>1, <1>4, <2>1, <2>2 DEF NodesStored
<1> QED BY <1>1, <1>6, <1>7 DEF Overflown, BlockToCome

LEMMA CheckpointOverflown ==
    ASSUME CheckpointApart, Types, CheckpointBegin \/ CheckpointEnd, Overflown
    PROVE  Overflown'
<1>1. UNCHANGED <<buf, disk, dirty, wal, op, mode, pos, moving>> /\ mode = "run"
  BY DEF CheckpointBegin, CheckpointEnd, Running, pages, log, client, server
<1>2. \A p : InOp(p)' <=> InOp(p)
  BY <1>1 DEF InOp
<1>3. CASE CheckpointBegin
  <2>1. redoPtr' = Len(wal) /\ todo' = dirty /\ ckpt' = ckpt /\ op = None
    BY <1>3 DEF CheckpointBegin
  <2>2. OvfPage \notin dirty => BlockShown(wal, disk[OvfPage], Len(wal))
    BY <1>1, <2>1 DEF Overflown, BlockKept, InOp
  <2>3. BlockKept'
    BY <1>1, <1>2, <2>1, <2>2 DEF Overflown, BlockKept
  <2> QED BY <1>1, <1>2, <2>3 DEF Overflown, NodesStored, BlockToCome
<1>4. CASE CheckpointEnd
  <2>1. todo = {} /\ todo' = None /\ ckpt' = redoPtr /\ redoPtr' = redoPtr
    BY <1>4 DEF CheckpointEnd
  <2>2. todo # None
    BY <2>1, NoneAssumption
  <2>3. BlockKept'
    BY <1>1, <1>2, <2>1, <2>2 DEF Overflown, BlockKept
  <2> QED BY <1>1, <1>2, <2>3 DEF Overflown, NodesStored, BlockToCome
<1> QED BY <1>3, <1>4

\* A crash loses records and versions that nobody has written to disk.
LEMMA CrashOverflown ==
    ASSUME Types, NEW n \in 0..Len(wal), Crash(n), Overflown
    PROVE  Overflown'
<1> DEFINE v == wal'
<1>1. /\ n >= flushed /\ buf' = disk /\ dirty' = {} /\ wal' = SubSeq(wal, 1, n)
      /\ mode' = "redo" /\ pos' = ckpt /\ todo' = None /\ op' = None /\ moving' = None
      /\ UNCHANGED <<disk, ckpt>>
  BY DEF Crash
<1>2. wal \in Seq(LogEntry) /\ Len(wal) \in Nat /\ n \in Nat /\ n <= Len(wal)
  BY DEF Types, Log
<1>3. Len(v) = n /\ \A i \in 1..n : v[i] = wal[i]
  <2>1. \A i \in 1..n : wal[i] \in LogEntry
    BY <1>2
  <2> QED BY <1>1, <1>2, <2>1, SubSeqProperties
<1>4. Prefix(wal, v, n)
  BY <1>2, <1>3 DEF Prefix
<1>5. ckpt \in Nat /\ flushed \in Nat /\ ckpt <= flushed /\ ckpt <= n /\ NodePage \subseteq Counted
  <2>1. ckpt \in Nat /\ flushed \in Nat /\ ckpt <= flushed /\ NodePage \subseteq Counted
    BY PositionsOK
  <2> QED BY <1>1, <1>2, <2>1
<1>6. \A k \in 1..Len(v) : k \in 1..n /\ k \in 1..Len(wal) /\ v[k] = wal[k]
  BY <1>2, <1>3
<1> HIDE DEF v
<1>7. OneBlock(v)
  BY <1>6 DEF Overflown, OneBlock
<1>8. BlockKept'
  <2>1. BlockShown(wal', disk'[OvfPage], ckpt')
    BY <1>1, <1>2, <1>3, <1>4, <1>5, DiskBlockKept DEF v, Overflown
  <2> QED BY <1>1, <2>1 DEF BlockKept
<1>9. ASSUME NEW p \in NodePage PROVE NodesStored(p)'
  <2>1. NodesStored(p) /\ p \in Counted
    BY <1>5 DEF Overflown
  <2>2. disk[p].lsn \in Nat /\ disk[p].lsn <= flushed
    BY <2>1, LogOK
  <2>3. disk[p].lsn <= n
    BY <1>1, <1>2, <1>5, <2>2
  <2>4. /\ \A k \in 1..n : About(v[k], p) => BigLogged(v, v[k], k)
        /\ BigStored(v, disk[p].item, disk[p].lsn)
    BY <1>2, <1>3, <1>4, <2>1, <2>3, EntriesKept
  <2>5. ~InOp(p)'
    BY <1>1 DEF InOp
  <2> QED BY <1>1, <1>6, <2>4, <2>5 DEF NodesStored, v
<1> QED BY <1>1, <1>7, <1>8, <1>9 DEF Overflown, v

\* Redo of a record leaves the big items and adds the one that it has.
LEMMA RedoBig ==
    ASSUME NEW r, NEW page, Fits(r), PageOK(r.blk, page), r.blk \in NodePage, ~RedoFails(r, page)
    PROVE  \A i \in 1..Len(RedoPage(r, page).item) : RedoPage(r, page).item[i].big =>
              \/ \E k \in 1..Len(page.item) :
                    page.item[k].big /\ page.item[k].id = RedoPage(r, page).item[i].id
              \/ r.type = "NODE_INSERT" /\ r.data.big /\ r.data.id = RedoPage(r, page).item[i].id
<1> DEFINE s == page.item
           t == RedoPage(r, page).item
           Ok == \A i \in 1..Len(t) : t[i].big =>
                    \/ \E k \in 1..Len(s) : s[k].big /\ s[k].id = t[i].id
                    \/ r.type = "NODE_INSERT" /\ r.data.big /\ r.data.id = t[i].id
<1>1. page \in Page(r.blk) /\ s \in Seq(NodeItem) /\ Len(s) \in Nat
  BY DEF PageOK, Page, Content
<1>2. r.blk # EdgePage
  OBVIOUS
<1>3. CASE r.type = "NODE_INSERT"
  <2>1. r.data \in NodeItem
    BY <1>3 DEF Fits
  <2>2. RedoPage(r, page) = [page EXCEPT !.item = Append(@, r.data)]
    BY <1>3 DEF RedoPage, RedoInsert
  <2>3. t = Append(s, r.data)
    BY <1>1, <2>2 DEF Page
  <2> HIDE DEF t, s
  <2>4. Len(t) = Len(s) + 1 /\ t[Len(s) + 1] = r.data /\ \A i \in 1..Len(s) : t[i] = s[i]
    BY <1>1, <2>1, <2>3, AppendProperties
  <2>5. \A i \in 1..Len(t) : i \in 1..Len(s) \/ i = Len(s) + 1
    BY <1>1, <2>4
  <2>6. Ok
    BY <1>3, <2>4, <2>5
  <2> QED BY <2>6 DEF t, s
<1>4. CASE r.type = "NODE_DELETE"
  <2>1. RedoPage(r, page) = RedoDelete(page, r.off, r.data) /\ r.data \in Xid
    BY <1>4 DEF RedoPage, Fits
  <2>2. CASE r.off \in 1..Len(s) /\ s[r.off].lp = "normal"
    <3> DEFINE y == [s[r.off] EXCEPT !.xmax = r.data]
    <3>1. RedoPage(r, page) = [page EXCEPT !.item[r.off].xmax = r.data]
      BY <2>1, <2>2 DEF RedoDelete
    <3>2. t = [s EXCEPT ![r.off] = y]
      BY <1>1, <3>1 DEF Page
    <3>3. s[r.off] \in NodeItem
      BY <1>1, <2>2
    <3>4. y \in NodeItem /\ y.id = s[r.off].id /\ y.big = s[r.off].big
      BY <2>1, <3>3 DEF NodeItem
    <3> HIDE DEF t, s, y
    <3>5. Len(t) = Len(s) /\ \A i \in 1..Len(s) : t[i] = IF i = r.off THEN y ELSE s[i]
      BY <1>1, <2>2, <3>2, <3>4, ExceptSeq
    <3>6. Ok
      BY <2>2, <3>4, <3>5
    <3> QED BY <3>6 DEF t, s
  <2>3. CASE ~(r.off \in 1..Len(s) /\ s[r.off].lp = "normal")
    <3>1. t = s
      BY <2>1, <2>3 DEF RedoDelete
    <3> QED BY <3>1
  <2> QED BY <2>2, <2>3
<1>5. CASE r.type \notin {"NODE_INSERT", "NODE_DELETE"}
  <2>1. r.type \in {"ADJ_UPDATE", "NODE_COMPACT"}
    BY <1>2, <1>5 DEF Fits
  <2>2. RedoPage(r, page) = page \/ RedoPage(r, page) = [page EXCEPT !.head[r.off] = r.data]
    BY <2>1 DEF RedoPage, RedoAdjUpdate
  <2>3. t = s
    BY <1>1, <2>2 DEF Page
  <2> QED BY <2>3
<1> QED BY <1>3, <1>4, <1>5

\* One record is replayed.
LEMMA RedoNextOverflown == ASSUME Types, RedoNext, Overflown PROVE Overflown'
<1> DEFINE n == pos + 1
           r == wal[n]
           fails == /\ r.type # "COMMIT" /\ r.img = None
                    /\ NeedsRedo(n, buf[r.blk]) /\ RedoFails(r, buf[r.blk])
<1>1. /\ mode = "redo" /\ n \in 1..Len(wal) /\ n \in Lsn /\ EntryOK(n, r)
      /\ op = None /\ todo = None
      /\ UNCHANGED <<disk, wal, redoPtr, ckpt, todo, op, moving>>
      /\ fails => pos' = pos /\ mode' = "failed" /\ buf' = buf /\ dirty' = dirty
      /\ ~fails => pos' = n /\ mode' = "redo"
      /\ r.type = "COMMIT" => buf' = buf /\ dirty' = dirty
      /\ ~fails /\ r.type # "COMMIT" =>
            /\ buf' = [q \in Blk |-> Restored(q, n)]
            /\ dirty' = dirty \cup {q \in Blk : Restored(q, n) # buf[q]}
            /\ r.img = None /\ NeedsRedo(n, buf[r.blk]) => ~RedoFails(r, buf[r.blk])
  BY RedoNextFacts, Zenon
<1>2. /\ Len(wal) \in Nat /\ pos \in Nat /\ n = pos + 1 /\ OvfPage \in Blk
      /\ \A p \in NodePage : p \in Blk /\ p # OvfPage
  BY PositionsOK
<1>3. \A p : ~InOp(p) /\ ~InOp(p)'
  BY <1>1 DEF InOp
<1>4. ASSUME buf' = buf, dirty' = dirty, BlockKept' PROVE Overflown'
  <2>1. ASSUME NEW p \in NodePage PROVE NodesStored(p)'
    BY <1>1, <1>3, <1>4 DEF Overflown, NodesStored
  <2> QED BY <1>1, <1>4, <2>1 DEF Overflown
<1>5. CASE fails
  <2>1. BlockKept'
    BY <1>1, <1>3, <1>5 DEF Overflown, BlockKept
  <2> QED BY <1>1, <1>4, <1>5, <2>1
<1>6. CASE ~fails
  <2>1. pos' = n /\ mode' = "redo"
    BY <1>1, <1>6
  <2>2. BlockShown(wal, buf[OvfPage], pos)
    BY <1>1 DEF Overflown, BlockKept
  <2>3. ~HasOvf(r) => BlockShown(wal, buf[OvfPage], n)
    <3>1. \A k \in 1..Len(wal) : k <= n => k <= pos \/ k = n
      BY <1>2
    <3> QED BY <2>2, <3>1 DEF BlockShown
  <2>4. CASE r.type = "COMMIT"
    <3>1. buf' = buf /\ dirty' = dirty /\ ~HasOvf(r)
      BY <1>1, <2>4 DEF HasOvf
    <3>2. BlockKept'
      BY <1>1, <1>3, <2>1, <2>3, <3>1 DEF Overflown, BlockKept
    <3> QED BY <1>4, <3>1, <3>2
  <2>5. CASE r.type # "COMMIT"
    <3>1. /\ buf' = [q \in Blk |-> Restored(q, n)]
          /\ dirty' = dirty \cup {q \in Blk : Restored(q, n) # buf[q]}
          /\ r.img = None /\ NeedsRedo(n, buf[r.blk]) => ~RedoFails(r, buf[r.blk])
      BY <1>1, <1>6, <2>5
    <3>2. Fits(r) /\ ImageOK(n, r.blk, r.img) /\ r.blk \in NodePage \cup {EdgePage} /\ r.blk # OvfPage
      BY <1>1, <2>5 DEF EntryOK, Fits
    <3> HIDE DEF fails
    <3>3. BlockKept'
      <4>1. buf'[OvfPage] = IF r.ovf # None THEN r.ovf ELSE buf[OvfPage]
        BY <1>2, <3>1, <3>2 DEF Restored
      <4>2. BlockShown(wal, buf'[OvfPage], n)
        <5>1. CASE r.ovf # None
          <6>1. HasOvf(r) /\ r.ovf.init
            BY <1>1, <2>5, <5>1 DEF HasOvf, Overflown, OneBlock
          <6>2. \A k \in 1..Len(wal) : HasOvf(wal[k]) => k = n
            BY <1>1, <6>1 DEF Overflown, OneBlock
          <6>3. buf'[OvfPage] = wal[n].ovf /\ wal[n].ovf.init
            BY <4>1, <5>1, <6>1
          <6> QED BY <6>2, <6>3 DEF BlockShown
        <5>2. CASE r.ovf = None
          BY <2>3, <4>1, <5>2 DEF HasOvf
        <5> QED BY <5>1, <5>2
      <4>3. OvfPage \notin dirty' => OvfPage \notin dirty /\ buf'[OvfPage] = buf[OvfPage]
        BY <1>2, <3>1
      <4>4. OvfPage \notin dirty' => buf'[OvfPage] = disk[OvfPage]
        BY <1>3, <4>3 DEF Overflown, BlockKept
      <4> QED BY <1>1, <2>1, <4>2, <4>4 DEF Overflown, BlockKept
    <3>4. ASSUME NEW p \in NodePage PROVE NodesStored(p)'
      <4>1. NodesStored(p) /\ p \in Blk /\ p # OvfPage /\ BigStored(wal, buf[p].item, buf[p].lsn)
        BY <1>2, <1>3 DEF Overflown, NodesStored
      <4>2. PageOK(p, buf[p]) /\ buf[p].lsn \in Nat
        BY <4>1, BufferOK DEF Page, Lsn
      <4>3. About(r, p) => BigLogged(wal, r, n)
        BY <1>1, <4>1 DEF NodesStored
      <4>4. buf'[p] = Restored(p, n)
        BY <3>1, <4>1
      <4>5. BigStored(wal, buf'[p].item, buf'[p].lsn)
        <5>1. CASE p = r.blk /\ r.img # None
          <6>1. buf'[p] = r.img /\ r.img.lsn = n
            BY <3>2, <4>4, <5>1 DEF Restored, ImageOK
          <6>2. About(r, p)
            BY <2>5, <5>1 DEF About
          <6> QED BY <4>3, <5>1, <6>1, <6>2 DEF BigLogged
        <5>2. CASE p = r.blk /\ r.img = None /\ NeedsRedo(n, buf[p])
          <6> DEFINE t == RedoPage(r, buf[p]).item
          <6>1. ~RedoFails(r, buf[p]) /\ About(r, p)
            BY <2>5, <3>1, <5>2 DEF About
          <6>2. buf'[p] = [RedoPage(r, buf[p]) EXCEPT !.lsn = n]
            BY <4>4, <5>2 DEF Restored
          <6>3. buf'[p].item = t /\ buf'[p].lsn = n
            <7>1. PageOK(p, Redone(r, buf[p], n)) /\ Redone(r, buf[p], n).lsn = n
              BY <1>1, <3>2, <4>2, <5>2, <6>1, RedoPageOK
            <7>2. buf'[p] = Redone(r, buf[p], n)
              BY <6>2 DEF Redone
            <7> QED BY <6>2, <7>1, <7>2
          <6>4. \A i \in 1..Len(t) : t[i].big =>
                  \/ \E k \in 1..Len(buf[p].item) : buf[p].item[k].big /\ buf[p].item[k].id = t[i].id
                  \/ r.type = "NODE_INSERT" /\ r.data.big /\ r.data.id = t[i].id
            BY <3>2, <4>2, <5>2, <6>1, RedoBig
          <6> HIDE DEF t
          <6>5. BigStored(wal, buf[p].item, n)
            <7>1. n \in Nat /\ buf[p].lsn <= n
              BY <1>2, <4>2, <5>2 DEF NeedsRedo
            <7> QED BY <4>1, <4>2, <7>1, BigMore
          <6>6. BigStored(wal, t, n)
            BY <4>3, <6>1, <6>4, <6>5 DEF BigStored, BigLogged
          <6> QED BY <6>3, <6>6
        <5>3. CASE p # r.blk \/ (r.img = None /\ ~NeedsRedo(n, buf[p]))
          <6>1. buf'[p] = buf[p]
            BY <4>1, <4>4, <5>3 DEF Restored
          <6> QED BY <4>1, <6>1
        <5> QED BY <5>1, <5>2, <5>3
      <4> QED BY <1>1, <1>3, <4>1, <4>5 DEF NodesStored
    <3> QED BY <1>1, <3>3, <3>4 DEF Overflown
  <2> QED BY <2>4, <2>5
<1> QED BY <1>5, <1>6

LEMMA RedoEndOverflown == ASSUME Types, RedoEnd, Overflown PROVE Overflown'
<1>1. /\ mode = "redo" /\ pos = Len(wal) /\ mode' = "run"
      /\ disk' = buf /\ dirty' = {} /\ ckpt' = Len(wal) /\ redoPtr' = Len(wal)
      /\ UNCHANGED <<buf, wal, todo, op, moving>>
  BY DEF RedoEnd, log, client
<1>2. op = None /\ todo = None
  BY <1>1 DEF Types, Points
<1>3. \A p : ~InOp(p) /\ ~InOp(p)'
  BY <1>1, <1>2 DEF InOp
<1>4. BlockKept'
  BY <1>1, <1>2 DEF Overflown, BlockKept
<1>5. ASSUME NEW p \in NodePage PROVE NodesStored(p)'
  BY <1>1, <1>3 DEF Overflown, NodesStored
<1> QED BY <1>1, <1>2, <1>4, <1>5 DEF Overflown

LEMMA IdleOverflown == ASSUME UNCHANGED vars, Overflown PROVE Overflown'
<1>1. UNCHANGED <<buf, disk, dirty, wal, redoPtr, ckpt, todo, op, mode, pos, moving>>
  BY DEF vars, pages, log, ckptVars, client, server
<1>2. \A p : InOp(p)' <=> InOp(p)
  BY <1>1 DEF InOp
<1>3. BlockKept'
  BY <1>1, <1>2 DEF Overflown, BlockKept
<1>4. ASSUME NEW p \in NodePage PROVE NodesStored(p)'
  BY <1>1, <1>2 DEF Overflown, NodesStored
<1> QED BY <1>1, <1>3, <1>4 DEF Overflown, BlockToCome

\* In the beginning nothing is big.
LEMMA InitOverflown == Init => Overflown
<1> SUFFICES ASSUME Init PROVE Overflown
  OBVIOUS
<1>1. Len(wal) = 0 /\ op = None /\ buf = disk /\ todo = None /\ moving = None
  BY DEF Init
<1>2. \A p \in NodePage : \A i \in 1..Len(disk[p].item) : ~disk[p].item[i].big
  <2> TAKE p \in NodePage
  <2> DEFINE one == [id |-> 1, slot |-> 1, xmax |-> 0, big |-> FALSE, lp |-> "normal"]
  <2>1. ~one.big
    OBVIOUS
  <2>2. disk[p].item = <<one>>
    BY DEF Init, Blk, ZeroPage
  <2> HIDE DEF one
  <2> QED BY <2>1, <2>2
<1>3. BlockKept
  BY <1>1 DEF BlockKept, BlockShown
<1>4. ASSUME NEW p \in NodePage PROVE NodesStored(p)
  BY <1>1, <1>2 DEF NodesStored, BigStored, InOp
<1> QED BY <1>1, <1>3, <1>4 DEF Overflown, OneBlock
-----------------------------------------------------------------------------
(* What the operations do to big items                                     *)

\* An item that gets an xmax keeps its id and its properties; others are added.
LEMMA KillBig ==
    ASSUME NEW s \in Seq(NodeItem), NEW off \in 1..Len(s), NEW x \in Xid
    PROVE  [s EXCEPT ![off].xmax = x] \in Seq(NodeItem) /\ SameBig(s, [s EXCEPT ![off].xmax = x])
<1> DEFINE y == [s[off] EXCEPT !.xmax = x]
           t == [s EXCEPT ![off].xmax = x]
<1>1. t = [s EXCEPT ![off] = y]
  OBVIOUS
<1>2. s[off] \in NodeItem
  OBVIOUS
<1>3. y \in NodeItem /\ y.id = s[off].id /\ y.big = s[off].big
  BY <1>2 DEF NodeItem
<1> HIDE DEF t, y
<1>4. t \in Seq(NodeItem) /\ Len(t) = Len(s) /\ \A i \in 1..Len(s) : t[i] = IF i = off THEN y ELSE s[i]
  BY <1>1, <1>3, ExceptSeq
<1> QED BY <1>3, <1>4 DEF t, SameBig

LEMMA AddBig ==
    ASSUME NEW s \in Seq(NodeItem), NEW i \in NodeItem
    PROVE  LET t == Append(s, i)
           IN  /\ \A k \in 1..Len(t) : t[k].big =>
                     \/ \E l \in 1..Len(s) : s[l].big /\ s[l].id = t[k].id
                     \/ i.big /\ t[k].id = i.id
               /\ ~i.big => SameBig(s, t)
<1> DEFINE t == Append(s, i)
<1>1. Len(s) \in Nat /\ Len(t) = Len(s) + 1 /\ t[Len(s) + 1] = i /\ \A k \in 1..Len(s) : t[k] = s[k]
  BY AppendProperties
<1> HIDE DEF t
<1>2. \A k \in 1..Len(t) : k \in 1..Len(s) \/ k = Len(s) + 1
  BY <1>1
<1>3. \A k \in 1..Len(t) : t[k].big =>
         \/ \E l \in 1..Len(s) : s[l].big /\ s[l].id = t[k].id
         \/ i.big /\ t[k].id = i.id
  BY <1>1, <1>2
<1> QED BY <1>3 DEF SameBig, t

\* A critical section that neither adds big items nor touches the block.
LEMMA BlocksSame ==
    ASSUME NEW new, NEW records, NEW facts, Enter(new, records, facts),
           DOMAIN new \subseteq Counted,
           \A p \in NodePage : p \in DOMAIN new => SameBig(buf[p].item, new[p].item),
           \A j \in 1..Len(records) : ~records[j].ovf /\ (records[j].type = "NODE_INSERT" => ~records[j].data.big),
           moving' # None => ~moving'.big
    PROVE  BlockChanges
<1>1. \A p \in Counted : p \in Blk /\ p # OvfPage
  BY CountedPages
<1>2. /\ op'.todo = records /\ DOMAIN op'.lsn = DOMAIN new
      /\ \A p \in DOMAIN new : buf'[p] = new[p]
  BY <1>1, EnterResult
<1>3. \A j \in 1..Len(op'.todo) : BlockRecord(op'.todo[j], j)
  BY <1>2 DEF BlockRecord
<1> QED BY <1>1, <1>2, <1>3 DEF BlockChanges, SameBig

LEMMA BlocksSameOnOne ==
    ASSUME NEW p \in Counted, NEW page, NEW r, NEW facts, Enter(On(p, page), <<r>>, facts),
           p \in NodePage => SameBig(buf[p].item, page.item),
           ~r.ovf, r.type = "NODE_INSERT" => ~r.data.big,
           moving' # None => ~moving'.big
    PROVE  BlockChanges
<1> DEFINE new == On(p, page)
           records == <<r>>
<1>1. DOMAIN new = {p} /\ new[p] = page
  BY DEF On
<1>2. Len(records) = 1 /\ records[1] = r
  OBVIOUS
<1> HIDE DEF new, records
<1>3. \A j \in 1..Len(records) : records[j] = r
  <2>1. \A j \in 1..Len(records) : j = 1
    BY <1>2
  <2> QED BY <1>2, <2>1
<1>4. Enter(new, records, facts)
  BY DEF new, records
<1> QED BY <1>1, <1>3, <1>4, BlocksSame

\* delete_node_by_id, delete_edge, and the first half of an update that moves the
\* node.
LEMMA KillBlocks ==
    ASSUME Types, NEW p \in Counted, NEW off \in Items(p), NEW type \in {"NODE_DELETE", "EDGE_DELETE"},
           Enter(On(p, [buf[p] EXCEPT !.item[off].xmax = xid]),
                 <<Record(type, p, off, xid)>>, {Deleted(p, off)}),
           moving' # None => ~moving'.big
    PROVE  BlockChanges
<1> DEFINE t == [buf[p].item EXCEPT ![off].xmax = xid]
           page == [buf[p] EXCEPT !.item[off].xmax = xid]
           r == Record(type, p, off, xid)
<1>1. p \in NodePage => SameBig(buf[p].item, page.item)
  <2> SUFFICES ASSUME p \in NodePage PROVE SameBig(buf[p].item, page.item)
    OBVIOUS
  <2>1. buf[p] \in Page(p) /\ buf[p].item \in Seq(NodeItem) /\ off \in 1..Len(buf[p].item) /\ xid \in Xid
    <3>1. p \in Blk /\ Content(p) = NodeItem
      BY DEF Blk, Content
    <3> QED BY <3>1, BufferOK, ItemInUse
  <2>2. page.item = t
    BY <2>1 DEF Page
  <2>3. SameBig(buf[p].item, t)
    BY <2>1, KillBig
  <2> QED BY <2>2, <2>3
<1>2. ~r.ovf /\ r.type # "NODE_INSERT"
  BY DEF Record
<1> HIDE DEF page, r
<1>3. Enter(On(p, page), <<r>>, {Deleted(p, off)})
  BY DEF page, r
<1> QED BY <1>1, <1>2, <1>3, BlocksSameOnOne

\* insert_node: the record of a big item comes with the block, which is new.
LEMMA InsertNodeBlocks ==
    ASSUME Types, NEW p \in NodePage, NEW big \in BOOLEAN, InsertNode(p, big), moving = None
    PROVE  BlockChanges
<1> DEFINE off == Len(buf[p].item) + 1
           i == [id |-> lastId + 1, slot |-> off, xmax |-> 0, big |-> big, lp |-> "normal"]
           page == [buf[p] EXCEPT !.item = Append(@, i)]
           ovf == [ZeroPage EXCEPT !.init = TRUE, !.item = <<i.id>>]
           r == NodeRecord(p, off, i)
           facts == {Added(p, off, i)}
<1>1. /\ off <= Cap /\ moving' = moving /\ (big => ~buf[OvfPage].init)
      /\ Enter(IF big THEN [q \in {p, OvfPage} |-> IF q = p THEN page ELSE ovf] ELSE On(p, page),
               <<r>>, facts)
  BY DEF InsertNode
<1>2. /\ p \in Counted /\ p \in Blk /\ p # OvfPage /\ OvfPage \in Blk /\ lastId \in Nat
      /\ buf[p] \in Page(p) /\ buf[p].item \in Seq(NodeItem) /\ Len(buf[p].item) \in Nat
  <2>1. p \in Counted /\ OvfPage \in Blk /\ Content(p) = NodeItem
    BY DEF Counted, Blk, Content
  <2> QED BY <2>1, CountedPages, BufferOK DEF Types, Scalars
<1>3. i \in NodeItem /\ i.big = big
  BY <1>1, <1>2 DEF NodeItem, Slot
<1>4. ovf.init /\ ovf.item = <<i.id>>
  BY DEF ZeroPage
<1> HIDE DEF i, off
<1>5. page.item = Append(buf[p].item, i)
  BY <1>2 DEF Page
<1>6. /\ r.type = "NODE_INSERT" /\ r.blk = p /\ r.stamp /\ r.ovf = big
      /\ r.data.id = i.id /\ r.data.big = big
  <2> DEFINE j == LoggedItem(i)
             plain == [type |-> "NODE_INSERT", blk |-> p, off |-> off, data |-> j,
                       stamp |-> TRUE, force |-> FALSE, ovf |-> FALSE]
  <2>1. j.id = i.id /\ j.big = i.big
    BY <1>3 DEF LoggedItem, NodeItem
  <2>2. r = [plain EXCEPT !.ovf = i.big]
    BY DEF NodeRecord, Record
  <2> HIDE DEF j
  <2>3. r.type = "NODE_INSERT" /\ r.blk = p /\ r.stamp /\ r.ovf = i.big /\ r.data = j
    BY <2>2
  <2> QED BY <1>3, <2>1, <2>3
<1> HIDE DEF page, ovf, r, facts
<1>7. CASE ~big
  <2>1. Enter(On(p, page), <<r>>, facts)
    BY <1>1, <1>7
  <2>2. SameBig(buf[p].item, page.item)
    BY <1>2, <1>3, <1>5, <1>7, AddBig
  <2> QED BY <1>1, <1>2, <1>6, <1>7, <2>1, <2>2, BlocksSameOnOne
<1>8. CASE big
  <2> DEFINE new == [q \in {p, OvfPage} |-> IF q = p THEN page ELSE ovf]
             records == <<r>>
  <2>1. DOMAIN new = {p, OvfPage} /\ new[p] = page /\ new[OvfPage] = ovf
    BY <1>2
  <2>2. Len(records) = 1 /\ records[1] = r
    OBVIOUS
  <2>3. Enter(new, records, facts)
    BY <1>1, <1>8
  <2> HIDE DEF new, records
  <2>4. \A j \in 1..Len(records) : j = 1
    BY <2>2
  <2>5. op'.todo = records /\ DOMAIN op'.lsn = {p, OvfPage} /\ buf'[p] = page /\ buf'[OvfPage] = ovf
    BY <1>2, <2>1, <2>3, EnterResult
  <2>6. \A j \in 1..Len(op'.todo) : BlockRecord(op'.todo[j], j)
    <3> TAKE j \in 1..Len(op'.todo)
    <3>1. j = 1 /\ op'.todo[j] = r
      BY <2>2, <2>4, <2>5
    <3>2. BlockRecord(r, 1)
      BY <1>1, <1>4, <1>6, <1>8, <2>5 DEF BlockRecord
    <3> QED BY <3>1, <3>2
  <2>7. ToStore(op'.todo, p, i.id)
    <3>1. 1 \in 1..Len(op'.todo) /\ op'.todo[1] = r
      BY <2>2, <2>5
    <3> QED BY <1>6, <1>8, <3>1 DEF ToStore
  <2>8. \A k \in 1..Len(buf'[p].item) : buf'[p].item[k].big =>
           \/ \E l \in 1..Len(buf[p].item) : buf[p].item[l].big /\ buf[p].item[l].id = buf'[p].item[k].id
           \/ ToStore(op'.todo, p, buf'[p].item[k].id)
    <3>1. \A k \in 1..Len(page.item) : page.item[k].big =>
             \/ \E l \in 1..Len(buf[p].item) : buf[p].item[l].big /\ buf[p].item[l].id = page.item[k].id
             \/ page.item[k].id = i.id
      BY <1>2, <1>3, <1>5, AddBig
    <3> QED BY <2>5, <2>7, <3>1
  <2>9. \A q \in NodePage : q \in DOMAIN op'.lsn => q = p
    BY <2>5
  <2> QED BY <1>1, <1>8, <2>6, <2>8, <2>9 DEF BlockChanges
<1> QED BY <1>7, <1>8

\* update_node: the new version has no block of its own.
LEMMA UpdateNodeBlocks ==
    ASSUME Types, NEW p \in NodePage, NEW off \in Items(p), UpdateNode(p, off), moving = None
    PROVE  BlockChanges
<1> DEFINE s == buf[p].item
           n == Len(s) + 1
           i == [s[off] EXCEPT !.big = FALSE]
           t == [s EXCEPT ![off].xmax = xid]
           page == [buf[p] EXCEPT !.item = Append(t, i)]
           new == On(p, page)
           r == Record("NODE_DELETE", p, off, xid)
           e == Record("NODE_INSERT", p, n, i)
           records == <<r, e>>
           facts == {Deleted(p, off), Added(p, n, i)}
<1>1. moving' = moving /\ Enter(new, records, facts)
  BY DEF UpdateNode, UpdateRecords
<1>2. /\ p \in Counted /\ p \in Blk /\ buf[p] \in Page(p) /\ s \in Seq(NodeItem)
      /\ off \in 1..Len(s) /\ s[off] \in NodeItem /\ xid \in Xid
  <2>1. p \in Counted /\ p \in Blk /\ Content(p) = NodeItem
    BY DEF Counted, Blk, Content
  <2> QED BY <2>1, BufferOK, ItemInUse
<1>3. i \in NodeItem /\ ~i.big
  BY <1>2 DEF NodeItem
<1>4. t \in Seq(NodeItem) /\ SameBig(s, t)
  BY <1>2, KillBig
<1>5. page.item = Append(t, i)
  BY <1>2 DEF Page
<1>6. ~r.ovf /\ r.type # "NODE_INSERT" /\ ~e.ovf /\ e.data = i
  BY DEF Record
<1>7. DOMAIN new = {p} /\ new[p] = page
  BY DEF On
<1>8. Len(records) = 2 /\ records[1] = r /\ records[2] = e
  OBVIOUS
<1> HIDE DEF t, i, s, page, new, r, e, facts, records
<1>9. SameBig(buf[p].item, page.item)
  <2>1. SameBig(t, page.item)
    BY <1>3, <1>4, <1>5, AddBig
  <2> QED BY <1>4, <2>1 DEF SameBig, s
<1>10. \A j \in 1..Len(records) : ~records[j].ovf /\ (records[j].type = "NODE_INSERT" => ~records[j].data.big)
  <2>1. \A j \in 1..Len(records) : j = 1 \/ j = 2
    BY <1>8
  <2> QED BY <1>3, <1>6, <1>8, <2>1
<1> QED BY <1>1, <1>2, <1>7, <1>9, <1>10, BlocksSame

\* update_node, the new version put elsewhere.
LEMMA MovePutBlocks ==
    ASSUME Types, NEW p \in NodePage, MovePut(p), ~moving.big
    PROVE  BlockChanges
<1> DEFINE s == buf[p].item
           page == [buf[p] EXCEPT !.item = Append(@, moving)]
           r == Record("NODE_INSERT", p, Len(s) + 1, moving)
           facts == {Added(p, Len(s) + 1, moving)}
<1>1. moving' = None /\ moving \in NodeItem /\ Enter(On(p, page), <<r>>, facts)
  BY DEF MovePut, Types, Scalars
<1>2. p \in Counted /\ p \in Blk /\ buf[p] \in Page(p) /\ s \in Seq(NodeItem)
  <2>1. p \in Counted /\ p \in Blk /\ Content(p) = NodeItem
    BY DEF Counted, Blk, Content
  <2> QED BY <2>1, BufferOK
<1>3. page.item = Append(s, moving)
  BY <1>2 DEF Page
<1>4. ~r.ovf /\ r.data = moving
  BY DEF Record
<1> HIDE DEF page, r, facts
<1>5. SameBig(s, page.item)
  BY <1>1, <1>2, <1>3, AddBig
<1> QED BY <1>1, <1>2, <1>4, <1>5, BlocksSameOnOne

\* compact_node_page.
LEMMA VacuumBlocks ==
    ASSUME Types, NEW p \in NodePage, VacuumPage(p), moving = None
    PROVE  BlockChanges
<1>1. /\ p \in Counted /\ p \in Blk /\ buf[p] \in Page(p)
      /\ buf[p].item \in Seq(NodeItem) /\ Len(buf[p].item) \in Nat
  <2>1. p \in Counted /\ Content(p) = NodeItem
    BY DEF Counted, Content
  <2>2. p \in Blk
    BY <2>1, CountedPages, Zenon
  <2> QED BY <2>1, <2>2, BufferOK
<1> DEFINE s == buf[p].item
           dead == {i \in Items(p) : LET x == s[i].xmax
                                     IN  /\ s[i].lp = "normal"
                                         /\ x # 0 /\ x < xid /\ Committed(x)}
           slots == {s[i].slot : i \in dead}
           t == [i \in Items(p) |-> IF i \in dead THEN [s[i] EXCEPT !.lp = "dead"] ELSE s[i]]
           hd == [k \in Slot |-> IF k \in slots THEN NoEdges ELSE buf[p].head[k]]
           page == [buf[p] EXCEPT !.item = t, !.head = hd]
           new == On(p, page)
           r == [Record("NODE_COMPACT", p, 0, 0) EXCEPT !.force = TRUE]
           facts == {[kind |-> "cleared", hdr |-> <<p, k>>] : k \in slots}
<1>2. moving' = moving /\ Enter(new, <<r>>, facts)
  BY DEF VacuumPage
<1>3. ~r.ovf /\ r.type # "NODE_INSERT"
  <2> DEFINE plain == [type |-> "NODE_COMPACT", blk |-> p, off |-> 0, data |-> 0,
                       stamp |-> TRUE, force |-> FALSE, ovf |-> FALSE]
  <2>1. r = [plain EXCEPT !.force = TRUE]
    BY DEF Record
  <2> QED BY <2>1
<1>4. \A i \in 1..Len(s) : t[i].id = s[i].id /\ t[i].big = s[i].big
  <2> TAKE i \in 1..Len(s)
  <2>1. s[i] \in NodeItem
    <3>1. s \in Seq(NodeItem)
      BY <1>1
    <3> HIDE DEF s
    <3> QED BY <3>1, ElementOfSeq
  <2>2. i \in Items(p)
    BY DEF Items
  <2>3. t[i] = [s[i] EXCEPT !.lp = "dead"] \/ t[i] = s[i]
    <3> HIDE DEF dead
    <3> QED BY <2>2
  <2> HIDE DEF t
  <2> QED BY <2>1, <2>3 DEF NodeItem
<1>5. Len(t) = Len(s)
  <2> DEFINE F(i) == IF i \in dead THEN [s[i] EXCEPT !.lp = "dead"] ELSE s[i]
  <2> HIDE DEF F
  <2>1. t = [i \in 1..Len(s) |-> F(i)]
    BY DEF F, Items
  <2>2. Len(s) \in Nat
    BY <1>1
  <2> HIDE DEF t, s
  <2> QED BY <2>1, <2>2
<1>6. page.item = t
  <2> HIDE DEF t, hd
  <2> QED BY <1>1 DEF Page
<1> HIDE DEF t, hd, page, r, facts, s
<1>7. SameBig(s, t)
  BY <1>4, <1>5 DEF SameBig
<1> QED BY <1>1, <1>2, <1>3, <1>6, <1>7, BlocksSameOnOne DEF s, new

\* insert_edge.
LEMMA InsertEdgeBlocks ==
    ASSUME Types, NEW a \in LiveNode, NEW c \in LiveNode, InsertEdge(a, c), moving = None
    PROVE  BlockChanges
<1>1. moving' = None
  BY ZenonT(30) DEF InsertEdge
<1>2. PICK s \in HdrAddr, t \in HdrAddr, i \in EdgeItem : InsertsEdge(s, t, i)
  BY InsertEdgeShape, Zenon
<1>3. /\ DOMAIN op'.lsn = {s[1], t[1], EdgePage} /\ \A p \in NodePage : buf'[p].item = buf[p].item
      /\ \A k \in 1..Len(op'.todo) : ~op'.todo[k].ovf /\ op'.todo[k].type # "NODE_INSERT"
  BY <1>2 DEF InsertsEdge
<1>4. OvfPage \notin DOMAIN op'.lsn
  BY <1>3 DEF HdrAddr
<1>5. \A k \in 1..Len(op'.todo) : BlockRecord(op'.todo[k], k)
  BY <1>3 DEF BlockRecord
<1> QED BY <1>1, <1>3, <1>4, <1>5 DEF BlockChanges

\* A step of the writer, update_edge_props apart.
LEMMA WriteBlocks ==
    ASSUME Types, Overflown, Write
    PROVE  BlockChanges \/ \E off \in Items(EdgePage) : UpdateProps(off)
<1>1. EdgePage \in Counted /\ NodePage \subseteq Counted
  BY DEF Counted
<1>2. ASSUME NEW p \in NodePage, NEW big \in BOOLEAN, InsertNode(p, big) PROVE BlockChanges
  <2>1. moving = None
    BY <1>2 DEF InsertNode, May
  <2> QED BY <1>2, <2>1, InsertNodeBlocks
<1>3. ASSUME NEW a \in LiveNode, DeleteNode(a[1], a[2]) \/ UpdateNode(a[1], a[2]) \/ MoveNode(a[1], a[2])
      PROVE  BlockChanges
  <2>1. a[1] \in NodePage /\ a[1] \in Counted /\ a[2] \in Items(a[1]) /\ buf[a[1]].item[a[2]] \in NodeItem
    BY <1>1, LiveNodeOK
  <2>2. moving = None
    BY <1>3 DEF DeleteNode, UpdateNode, MoveNode, May
  <2>3. CASE DeleteNode(a[1], a[2])
    BY <2>1, <2>2, <2>3, KillBlocks DEF DeleteNode
  <2>4. CASE UpdateNode(a[1], a[2])
    BY <2>1, <2>2, <2>4, UpdateNodeBlocks
  <2>5. CASE MoveNode(a[1], a[2])
    <3> DEFINE y == buf[a[1]].item[a[2]]
    <3>1. y \in NodeItem /\ moving' = [y EXCEPT !.big = FALSE]
      BY <2>1, <2>5 DEF MoveNode
    <3> HIDE DEF y
    <3>2. ~moving'.big
      BY <3>1 DEF NodeItem
    <3> QED BY <2>1, <2>5, <3>2, KillBlocks, Zenon DEF MoveNode
  <2> QED BY <1>3, <2>3, <2>4, <2>5
<1>4. ASSUME NEW p \in NodePage, MovePut(p) PROVE BlockChanges
  <2>1. ~moving.big
    BY <1>4 DEF MovePut, Overflown
  <2> QED BY <1>4, <2>1, MovePutBlocks
<1>5. ASSUME NEW p \in NodePage, VacuumPage(p) PROVE BlockChanges
  <2>1. moving = None
    BY <1>5 DEF VacuumPage, May
  <2> QED BY <1>5, <2>1, VacuumBlocks
<1>6. ASSUME NEW a \in LiveNode, NEW c \in LiveNode, InsertEdge(a, c) PROVE BlockChanges
  <2>1. moving = None
    BY <1>6, Zenon DEF InsertEdge, May
  <2> QED BY <1>6, <2>1, InsertEdgeBlocks, Zenon
<1>7. ASSUME NEW off \in Items(EdgePage), DeleteEdge(off) PROVE BlockChanges
  <2>1. moving = None /\ moving' = moving
    BY <1>7 DEF DeleteEdge, May
  <2> QED BY <1>1, <1>7, <2>1, KillBlocks DEF DeleteEdge
<1> QED BY <1>2, <1>3, <1>4, <1>5, <1>6, <1>7 DEF Write

-----------------------------------------------------------------------------
(* The theorem                                                             *)

LEMMA NextOverflown ==
    ASSUME CheckpointApart, Types, Overflown, [Next]_vars
    PROVE  Overflown'
<1>1. ASSUME Write PROVE Overflown'
  <2>1. ASSUME NEW off \in Items(EdgePage), UpdateProps(off) PROVE Overflown'
    BY <2>1, UpdatePropsOverflown
  <2>2. ASSUME Begins, BlockChanges PROVE Overflown'
    <3>1. PICK new, records, facts : Enter(new, records, facts) /\ Section(new, records)
      BY <2>2 DEF Begins
    <3> QED BY <2>2, <3>1, EnterOverflown
  <2> QED BY <1>1, <2>1, <2>2, WriteBegins, WriteBlocks
<1>2. ASSUME NEW q \in Blk, WritePage(q) PROVE Overflown'
  BY <1>2, WritePageOverflown
<1>3. ASSUME NEW n \in 0..Len(wal), Crash(n) PROVE Overflown'
  BY <1>3, CrashOverflown
<1>4. (LogNext => Overflown') /\ (OpEnd => Overflown') /\ (Commit => Overflown')
  BY LogNextOverflown, OpEndOverflown, CommitOverflown
<1>5. CheckpointBegin \/ CheckpointEnd => Overflown'
  BY CheckpointOverflown
<1>6. (RedoNext => Overflown') /\ (RedoEnd => Overflown')
  BY RedoNextOverflown, RedoEndOverflown
<1>7. UNCHANGED vars => Overflown'
  BY IdleOverflown
<1> QED BY <1>1, <1>2, <1>3, <1>4, <1>5, <1>6, <1>7 DEF Next

\* When the server runs and no critical section is in progress, the block of every
\* big item is in the WAL, and the buffer shows it.
LEMMA OverflowHolds == ASSUME Types, Overflown PROVE OverflowDurable
<1> SUFFICES ASSUME Quiet, NEW p \in NodePage, NEW i \in Items(p), buf[p].item[i].big
             PROVE  buf[OvfPage].item = <<buf[p].item[i].id>>
  BY DEF OverflowDurable
<1> DEFINE id == buf[p].item[i].id
<1>1. mode = "run" /\ ~InOp(p) /\ i \in 1..Len(buf[p].item)
  BY DEF Quiet, InOp, Items
<1>2. Stored(wal, id, buf[p].lsn)
  BY <1>1 DEF Overflown, NodesStored, BigStored
<1> HIDE DEF id
<1>3. PICK k \in 1..Len(wal) : HasOvf(wal[k]) /\ wal[k].ovf.item = <<id>>
  BY <1>2 DEF Stored
<1>4. k <= Len(wal)
  BY PositionsOK
<1>5. buf[OvfPage].item = wal[k].ovf.item
  BY <1>1, <1>3, <1>4 DEF Overflown, BlockKept, BlockShown
<1> QED BY <1>3, <1>5 DEF id

\* The properties of a node that are in the overflow block survive crashes: whoever
\* sees the node, after recovery too, finds them there.  That is up to the block's
\* image in the node's own record, and again to no checkpoint starting in a critical
\* section.
THEOREM OverflowIsDurable == ASSUME CheckpointApart PROVE Spec => []OverflowDurable
<1>1. Replayable /\ Overflown => OverflowDurable
  BY OverflowHolds DEF Replayable
<1>2. Replayable /\ Overflown /\ [Next]_vars => Replayable' /\ Overflown'
  BY NextReplayable, NextOverflown DEF Replayable
<1>3. Init => Replayable /\ Overflown
  BY InitReplayable, InitOverflown
<1> QED BY <1>1, <1>2, <1>3, PTL DEF Spec
=============================================================================
