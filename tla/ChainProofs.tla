------------------------------ MODULE ChainProofs ------------------------------
(***************************************************************************)
(* Adjacency chains survive crashes, for any number of node pages, WAL     *)
(* records, operations and crashes and every page capacity, if no          *)
(* checkpoint starts inside a critical section: no chain ends in nothing,  *)
(* and the edges of committed transactions are on both their chains.       *)
(*                                                                         *)
(* A header, in whatever version of its page, points to an edge that is    *)
(* among the records up to the LSN of that version; and from there the     *)
(* pointers of the edges in the WAL lead to all that the records up to     *)
(* that LSN ever put in the header.                                        *)
(***************************************************************************)
EXTENDS DurableProofs, WellFoundedInduction

Dir == {"out", "in"}
NextOf(it, dir) == IF dir = "out" THEN it.nextOut ELSE it.nextIn
IsEdge(r)    == r.type = "EDGE_INSERT"
IsHead(r, p) == r.type = "ADJ_UPDATE" /\ r.blk = p

\* A pointer is 0 or leads to an edge that is among the first m records.
Born(w, e, m) == e = 0 \/ \E k \in 1..Len(w) : k <= m /\ IsEdge(w[k]) /\ w[k].off = e

\* Every set of slots that has a, and what the edges among the records w and x point
\* to that are in it, has e: the pointers lead from a to e.
Closed(w, dir, X) ==
    \A k \in 1..Len(w) : IsEdge(w[k]) /\ w[k].off \in X => NextOf(w[k].data, dir) \in X
Leads(w, x, dir, a, e) ==
    \A X \in SUBSET (0..Cap) : a \in X /\ Closed(w, dir, X) /\ Closed(x, dir, X) => e \in X

\* Unless VACUUM has cleared a header, its pointers lead to all that the first m
\* records put there.
Cleared(d, p, s) == \E f \in d : f.kind = "cleared" /\ f.hdr = <<p, s>>
Reaches(w, x, d, p, s, hd, m) ==
    \/ Cleared(d, p, s)
    \/ \A k \in 1..Len(w), dir \in Dir : k <= m /\ IsHead(w[k], p) /\ w[k].off = s =>
          End(w[k].data, dir) = 0 \/ Leads(w, x, dir, End(hd, dir), End(w[k].data, dir))

HeadBorn(w, hd, m) == \A dir \in Dir : Born(w, End(hd, dir), m)
HeadsBorn(w, page, m) == \A s \in Slot : HeadBorn(w, page.head[s], m)
HeadsReach(w, d, p, page, m) ==
    p \in NodePage => \A s \in Slot : Reaches(w, <<>>, d, p, s, page.head[s], m)

\* The first m records have an edge item and its pointers.
SameHops(it, jt) == it.nextOut = jt.nextOut /\ it.nextIn = jt.nextIn
EdgeKept(w, i, it, m) ==
    \E k \in 1..Len(w) : k <= m /\ IsEdge(w[k]) /\ w[k].off = i /\ SameHops(w[k].data, it)
EdgesKept(w, page, m) == \A i \in 1..Len(page.item) : EdgeKept(w, i, page.item[i], m)

LinkVersion(w, d, p, page) ==
    /\ p \in NodePage => HeadsBorn(w, page, page.lsn)
    /\ p = EdgePage => EdgesKept(w, page, page.lsn)
    /\ HeadsReach(w, d, p, page, page.lsn)

\* An edge points to edges that were logged before it and have lower slots, and no two
\* edges have the same slot.
Rooted(w) ==
    /\ \A k \in 1..Len(w) : IsEdge(w[k]) =>
          /\ w[k].off # 0
          /\ \A dir \in Dir : NextOf(w[k].data, dir) < w[k].off /\ Born(w, NextOf(w[k].data, dir), k - 1)
    /\ \A j, k \in 1..Len(w) : IsEdge(w[j]) /\ IsEdge(w[k]) /\ w[j].off = w[k].off => j = k

\* A header in a record is as good as one in a page.
HeadLogged(w, d, r, m) ==
    r.type = "ADJ_UPDATE" => HeadBorn(w, r.data, m) /\ Reaches(w, <<>>, d, r.blk, r.off, r.data, m)

\* Every version of a page, and what it takes to recover it.
EntriesLinked(p) ==
    \A n \in 1..Len(wal) : About(wal[n], p) =>
        /\ HeadLogged(wal, did, wal[n], n - 1)
        /\ wal[n].img # None => LinkVersion(wal, did, p, wal[n].img)
DiskLinked(p) ==
    /\ LinkVersion(wal, did, p, disk[p])
    /\ HeadsReach(wal, did, p, disk[p], ckpt)
    /\ todo # None /\ p \notin todo => HeadsReach(wal, did, p, disk[p], redoPtr)
BufLinked(p) ==
    ~InOp(p) => /\ LinkVersion(wal, did, p, buf[p])
                /\ HeadsReach(wal, did, p, buf[p], IF mode = "run" THEN Len(wal) ELSE pos)

\* In a critical section pointers may lead to the edge that is yet to be logged, and
\* that is the first record; the header in a record is that of the page.
ToCome(records, e) == \E j \in 1..Len(records) : IsEdge(records[j]) /\ records[j].off = e
WillStamp(records, p) == \E j \in 1..Len(records) : records[j].blk = p /\ records[j].stamp
NodeInOp(p) ==
    /\ \A s \in Slot : /\ Reaches(wal, op.todo, did, p, s, buf[p].head[s], Len(wal))
                       /\ \A dir \in Dir : LET e == End(buf[p].head[s], dir)
                                           IN  Born(wal, e, Len(wal)) \/ ToCome(op.todo, e)
    /\ ~WillStamp(op.todo, p) => HeadsBorn(wal, buf[p], op.lsn[p])
EdgesInOp ==
    \A i \in 1..Len(buf[EdgePage].item) :
        \/ EdgeKept(wal, i, buf[EdgePage].item[i], op.lsn[EdgePage])
        \/ \E j \in 1..Len(op.todo) : /\ IsEdge(op.todo[j]) /\ op.todo[j].off = i
                                      /\ SameHops(op.todo[j].data, buf[EdgePage].item[i])
PendingLinked(r, j) ==
    /\ IsEdge(r) =>
          /\ j = 1 /\ r.stamp /\ r.off # 0
          /\ \A k \in 1..Len(wal) : IsEdge(wal[k]) => wal[k].off # r.off
          /\ \A dir \in Dir : NextOf(r.data, dir) < r.off /\ Born(wal, NextOf(r.data, dir), Len(wal))
    /\ r.type = "ADJ_UPDATE" => r.data = buf[r.blk].head[r.off]
SectionLinked ==
    op # None =>
        /\ \A j \in 1..Len(op.todo) : PendingLinked(op.todo[j], j)
        /\ \A p \in NodePage : InOp(p) => NodeInOp(p)
        /\ InOp(EdgePage) => EdgesInOp

LinkNamed(f) == f.kind = "link" => f.hdr \in HdrAddr /\ f.dir \in Dir /\ f.off # 0

PageLinked(p) == EntriesLinked(p) /\ DiskLinked(p) /\ BufLinked(p)
Chained ==
    /\ Rooted(wal) /\ SectionLinked
    /\ \A p \in Counted : PageLinked(p)
    /\ \A f \in did : LinkNamed(f)

-----------------------------------------------------------------------------
USE RecoveryAssumption

(* Pointers and what they lead to                                          *)

LEMMA BornMore ==
    ASSUME NEW w, NEW e, NEW m \in Nat, NEW n \in Nat, m <= n
    PROVE  Born(w, e, m) => Born(w, e, n)
<1>1. \A k \in 1..Len(w) : k <= m => k <= n
  OBVIOUS
<1> QED BY <1>1 DEF Born

LEMMA PrefixBorn ==
    ASSUME NEW w, NEW v, NEW n, Prefix(w, v, n), Len(w) \in Nat, Len(v) \in Nat,
           NEW e, NEW m \in Nat, m <= n
    PROVE  Born(w, e, m) => Born(v, e, m)
<1>1. \A k \in 1..Len(w) : k <= m => k \in 1..Len(v) /\ v[k] = w[k]
  BY DEF Prefix
<1> QED BY <1>1 DEF Born

LEMMA KeptMore ==
    ASSUME NEW w, NEW i, NEW it, NEW m \in Nat, NEW n \in Nat, m <= n
    PROVE  EdgeKept(w, i, it, m) => EdgeKept(w, i, it, n)
<1>1. \A k \in 1..Len(w) : k <= m => k <= n
  OBVIOUS
<1> QED BY <1>1 DEF EdgeKept

LEMMA PrefixKept ==
    ASSUME NEW w, NEW v, NEW n, Prefix(w, v, n), Len(w) \in Nat, Len(v) \in Nat,
           NEW i, NEW it, NEW m \in Nat, m <= n
    PROVE  EdgeKept(w, i, it, m) => EdgeKept(v, i, it, m)
<1>1. \A k \in 1..Len(w) : k <= m => k \in 1..Len(v) /\ v[k] = w[k]
  BY DEF Prefix
<1> QED BY <1>1 DEF EdgeKept

LEMMA ClearedMore ==
    ASSUME NEW d, NEW e, d \subseteq e, NEW p, NEW s
    PROVE  Cleared(d, p, s) => Cleared(e, p, s)
BY DEF Cleared

\* Pointers lead where they start, and on from an edge to where the next one leads.
LEMMA LeadsSelf == ASSUME NEW w, NEW x, NEW dir, NEW a PROVE Leads(w, x, dir, a, a)
BY DEF Leads

LEMMA LeadsOn ==
    ASSUME NEW w, NEW x, NEW dir, NEW a, NEW e, Leads(w, x, dir, a, e),
           NEW j \in 1..Len(x), IsEdge(x[j]), NextOf(x[j].data, dir) = a
    PROVE  Leads(w, x, dir, x[j].off, e)
BY DEF Leads, Closed

\* What records lead to when others have all their edges.
LEMMA LeadsMore ==
    ASSUME NEW w, NEW x, NEW v, NEW y, NEW dir, NEW a, NEW e,
           \A X \in SUBSET (0..Cap) :
              Closed(v, dir, X) /\ Closed(y, dir, X) => Closed(w, dir, X) /\ Closed(x, dir, X)
    PROVE  Leads(w, x, dir, a, e) => Leads(v, y, dir, a, e)
BY DEF Leads

LEMMA ClosedNone == ASSUME NEW dir, NEW X PROVE Closed(<<>>, dir, X)
BY DEF Closed

\* Pointers of logged edges lead only to edges logged before: the records after those
\* that have the first edge do not matter.
LEMMA LeadsPrefix ==
    ASSUME NEW w, NEW v, NEW n, Prefix(w, v, n), Len(w) \in Nat, Len(v) \in Nat, Rooted(w),
           NEW dir \in Dir, NEW a, NEW e, Born(w, a, n), Leads(w, <<>>, dir, a, e)
    PROVE  Leads(v, <<>>, dir, a, e)
<1> SUFFICES ASSUME NEW X \in SUBSET (0..Cap), a \in X, Closed(v, dir, X) PROVE e \in X
  BY DEF Leads
<1> DEFINE Y == {x \in X : Born(w, x, n)}
<1>1. a \in Y /\ Y \in SUBSET (0..Cap)
  OBVIOUS
<1>2. ASSUME NEW k \in 1..Len(w), IsEdge(w[k]), w[k].off \in Y
      PROVE  NextOf(w[k].data, dir) \in Y
  <2>1. w[k].off # 0 /\ Born(w, NextOf(w[k].data, dir), k - 1)
    BY <1>2 DEF Rooted
  <2>2. PICK j \in 1..Len(w) : j <= n /\ IsEdge(w[j]) /\ w[j].off = w[k].off
    BY <1>2, <2>1 DEF Born
  <2>3. j = k
    BY <1>2, <2>2 DEF Rooted
  <2>4. k \in 1..Len(v) /\ v[k] = w[k] /\ n \in Nat /\ k - 1 \in Nat /\ k - 1 <= n
    BY <2>2, <2>3 DEF Prefix
  <2>5. NextOf(w[k].data, dir) \in X
    BY <1>2, <2>4 DEF Closed
  <2>6. Born(w, NextOf(w[k].data, dir), n)
    BY <2>1, <2>4, BornMore
  <2> QED BY <2>5, <2>6
<1>3. Closed(w, dir, Y)
  BY <1>2 DEF Closed
<1>4. e \in Y
  BY <1>1, <1>3, ClosedNone DEF Leads
<1> QED BY <1>4

LEMMA PrefixReaches ==
    ASSUME NEW w, NEW v, NEW n, Prefix(w, v, n), Len(w) \in Nat, Len(v) \in Nat, Rooted(w),
           NEW d, NEW e, d \subseteq e, NEW p, NEW s, NEW hd, HeadBorn(w, hd, n),
           NEW m \in Nat, m <= n, Reaches(w, <<>>, d, p, s, hd, m)
    PROVE  Reaches(v, <<>>, e, p, s, hd, m)
<1>1. CASE Cleared(d, p, s)
  BY <1>1, ClearedMore DEF Reaches
<1>2. CASE ~Cleared(d, p, s)
  <2>1. ASSUME NEW k \in 1..Len(v), NEW dir \in Dir, k <= m, IsHead(v[k], p), v[k].off = s,
               End(v[k].data, dir) # 0
        PROVE  Leads(v, <<>>, dir, End(hd, dir), End(v[k].data, dir))
    <3>1. k \in 1..Len(w) /\ w[k] = v[k]
      BY <2>1 DEF Prefix
    <3>2. Leads(w, <<>>, dir, End(hd, dir), End(v[k].data, dir))
      BY <1>2, <2>1, <3>1 DEF Reaches
    <3>3. Born(w, End(hd, dir), n)
      BY DEF HeadBorn
    <3> QED BY <3>2, <3>3, LeadsPrefix
  <2> QED BY <2>1 DEF Reaches
<1> QED BY <1>1, <1>2

LEMMA ReachesFewer ==
    ASSUME NEW w, NEW x, NEW d, NEW p, NEW s, NEW hd, NEW m \in Nat, NEW n \in Nat, n <= m,
           Reaches(w, x, d, p, s, hd, m)
    PROVE  Reaches(w, x, d, p, s, hd, n)
<1>1. \A k \in 1..Len(w) : k <= n => k <= m
  OBVIOUS
<1> QED BY <1>1 DEF Reaches

\* A record that is not about the header does not change what it has to lead to.
LEMMA ReachesNext ==
    ASSUME NEW w, NEW x, NEW d, NEW p, NEW s, NEW hd, NEW m \in Nat, Reaches(w, x, d, p, s, hd, m),
           IsHead(w[m + 1], p) /\ w[m + 1].off = s => w[m + 1].data = hd
    PROVE  Reaches(w, x, d, p, s, hd, m + 1)
<1>1. \A k \in 1..Len(w) : k <= m + 1 => k <= m \/ k = m + 1
  OBVIOUS
<1> QED BY <1>1, LeadsSelf DEF Reaches

-----------------------------------------------------------------------------
(* Versions of pages                                                       *)

LEMMA BornHeads ==
    ASSUME NEW w, NEW page, NEW m \in Nat, NEW n \in Nat, m <= n, HeadsBorn(w, page, m)
    PROVE  HeadsBorn(w, page, n)
BY BornMore DEF HeadsBorn, HeadBorn

LEMMA PrefixBornHeads ==
    ASSUME NEW w, NEW v, NEW n, Prefix(w, v, n), Len(w) \in Nat, Len(v) \in Nat,
           NEW page, NEW m \in Nat, m <= n, HeadsBorn(w, page, m)
    PROVE  HeadsBorn(v, page, m)
BY PrefixBorn DEF HeadsBorn, HeadBorn

LEMMA PrefixHeads ==
    ASSUME NEW w, NEW v, NEW n, Prefix(w, v, n), Len(w) \in Nat, Len(v) \in Nat, Rooted(w),
           NEW d, NEW e, d \subseteq e, NEW p, NEW page, p \in NodePage => HeadsBorn(w, page, n),
           NEW m \in Nat, m <= n, HeadsReach(w, d, p, page, m)
    PROVE  HeadsReach(v, e, p, page, m)
BY PrefixReaches DEF HeadsReach, HeadsBorn

LEMMA FewerHeads ==
    ASSUME NEW w, NEW d, NEW p, NEW page, NEW m \in Nat, NEW n \in Nat, n <= m,
           HeadsReach(w, d, p, page, m)
    PROVE  HeadsReach(w, d, p, page, n)
BY ReachesFewer DEF HeadsReach

LEMMA PrefixLinks ==
    ASSUME NEW w, NEW v, NEW n, Prefix(w, v, n), Len(w) \in Nat, Len(v) \in Nat, Rooted(w),
           NEW d, NEW e, d \subseteq e, NEW p, NEW page, page.lsn \in Nat, page.lsn <= n,
           LinkVersion(w, d, p, page)
    PROVE  LinkVersion(v, e, p, page) /\ (p \in NodePage => HeadsBorn(w, page, n))
<1>1. n \in Nat
  BY DEF Prefix
<1>2. p \in NodePage => HeadsBorn(w, page, n) /\ HeadsBorn(v, page, page.lsn)
  BY <1>1, BornHeads, PrefixBornHeads DEF LinkVersion
<1>3. HeadsReach(v, e, p, page, page.lsn)
  BY <1>2, PrefixHeads DEF LinkVersion
<1>4. p = EdgePage => EdgesKept(v, page, page.lsn)
  BY PrefixKept DEF LinkVersion, EdgesKept
<1> QED BY <1>2, <1>3, <1>4 DEF LinkVersion

LEMMA PrefixLogged ==
    ASSUME NEW w, NEW v, NEW n, Prefix(w, v, n), Len(w) \in Nat, Len(v) \in Nat, Rooted(w),
           NEW d, NEW e, d \subseteq e, NEW r, NEW m \in Nat, m <= n, HeadLogged(w, d, r, m)
    PROVE  HeadLogged(v, e, r, m)
<1> SUFFICES ASSUME r.type = "ADJ_UPDATE" PROVE HeadLogged(v, e, r, m)
  BY DEF HeadLogged
<1>1. n \in Nat /\ HeadBorn(w, r.data, m) /\ Reaches(w, <<>>, d, r.blk, r.off, r.data, m)
  BY DEF HeadLogged, Prefix
<1>2. HeadBorn(w, r.data, n) /\ HeadBorn(v, r.data, m)
  BY <1>1, BornMore, PrefixBorn DEF HeadBorn
<1>3. Reaches(v, <<>>, e, r.blk, r.off, r.data, m)
  BY <1>1, <1>2, PrefixReaches
<1> QED BY <1>2, <1>3 DEF HeadLogged

\* A log that is cut off.
LEMMA PrefixRooted ==
    ASSUME NEW w, NEW v, NEW n, Prefix(w, v, n), Len(w) \in Nat, Len(v) = n, Rooted(w)
    PROVE  Rooted(v)
<1>1. n \in Nat /\ \A k \in 1..Len(v) : k \in 1..Len(w) /\ v[k] = w[k] /\ k - 1 \in Nat /\ k - 1 <= n
  BY DEF Prefix
<1>2. ASSUME NEW k \in 1..Len(v), IsEdge(v[k])
      PROVE  /\ v[k].off # 0
             /\ \A dir \in Dir : NextOf(v[k].data, dir) < v[k].off /\ Born(v, NextOf(v[k].data, dir), k - 1)
  <2>1. /\ w[k].off # 0
        /\ \A dir \in Dir : NextOf(w[k].data, dir) < w[k].off /\ Born(w, NextOf(w[k].data, dir), k - 1)
    BY <1>1, <1>2 DEF Rooted
  <2> QED BY <1>1, <2>1, PrefixBorn
<1>3. \A j, k \in 1..Len(v) : IsEdge(v[j]) /\ IsEdge(v[k]) /\ v[j].off = v[k].off => j = k
  BY <1>1 DEF Rooted
<1> QED BY <1>2, <1>3 DEF Rooted

\* A log with one more record.
LEMMA RootedNext ==
    ASSUME NEW w, NEW v, NEW n \in Nat, Prefix(w, v, n), Len(w) = n, Len(v) = n + 1, Rooted(w),
           IsEdge(v[n + 1]) =>
              /\ v[n + 1].off # 0
              /\ \A k \in 1..n : IsEdge(w[k]) => w[k].off # v[n + 1].off
              /\ \A dir \in Dir : /\ NextOf(v[n + 1].data, dir) < v[n + 1].off
                                  /\ Born(w, NextOf(v[n + 1].data, dir), n)
    PROVE  Rooted(v)
<1>1. /\ \A k \in 1..n : k \in 1..Len(w) /\ v[k] = w[k] /\ k - 1 \in Nat /\ k - 1 <= n
      /\ \A k \in 1..Len(v) : k \in 1..n \/ k = n + 1
  BY DEF Prefix
<1>2. ASSUME NEW k \in 1..Len(v), IsEdge(v[k])
      PROVE  /\ v[k].off # 0
             /\ \A dir \in Dir : NextOf(v[k].data, dir) < v[k].off /\ Born(v, NextOf(v[k].data, dir), k - 1)
  <2>1. CASE k \in 1..n
    <3>1. /\ w[k].off # 0
          /\ \A dir \in Dir : NextOf(w[k].data, dir) < w[k].off /\ Born(w, NextOf(w[k].data, dir), k - 1)
      BY <1>1, <1>2, <2>1 DEF Rooted
    <3> QED BY <1>1, <2>1, <3>1, PrefixBorn
  <2>2. CASE k = n + 1
    <3>1. k - 1 = n /\ \A dir \in Dir : Born(v, NextOf(v[k].data, dir), n)
      BY <1>2, <2>2, PrefixBorn
    <3> QED BY <1>2, <2>2, <3>1
  <2> QED BY <1>1, <2>1, <2>2
<1>3. ASSUME NEW j \in 1..Len(v), NEW k \in 1..Len(v), IsEdge(v[j]), IsEdge(v[k]), v[j].off = v[k].off
      PROVE  j = k
  BY <1>1, <1>3 DEF Rooted
<1> QED BY <1>2, <1>3 DEF Rooted

\* The records that stay.
LEMMA EntriesStay ==
    ASSUME Types, Rooted(wal), NEW p \in Counted, EntriesLinked(p), NEW m \in Nat,
           Prefix(wal, wal', m), Len(wal') \in Nat, did \subseteq did'
    PROVE  \A n \in 1..m : About(wal'[n], p) =>
              /\ HeadLogged(wal', did', wal'[n], n - 1)
              /\ wal'[n].img # None => LinkVersion(wal', did', p, wal'[n].img)
<1> TAKE n \in 1..m
<1> HAVE About(wal'[n], p)
<1>1. n \in 1..Len(wal) /\ wal'[n] = wal[n] /\ Len(wal) \in Nat /\ n - 1 \in Nat /\ n - 1 <= m
  BY LogOK DEF Prefix
<1> DEFINE r == wal[n]
           v == wal'
           e == did'
<1>2. HeadLogged(wal, did, r, n - 1) /\ (r.img # None => LinkVersion(wal, did, p, r.img))
  BY <1>1 DEF EntriesLinked
<1>3. r.img # None => r.img.lsn = n
  BY <1>1, LogOK
<1>4. Prefix(wal, v, m) /\ did \subseteq e /\ Len(v) \in Nat
  OBVIOUS
<1> HIDE DEF r, v, e
<1>5. HeadLogged(v, e, r, n - 1)
  BY <1>1, <1>2, <1>4, PrefixLogged
<1>6. r.img # None => LinkVersion(v, e, p, r.img)
  BY <1>1, <1>2, <1>3, <1>4, PrefixLinks
<1> QED BY <1>1, <1>5, <1>6 DEF r, v, e

\* The file stays.
LEMMA DiskStays ==
    ASSUME Types, Rooted(wal), NEW p \in Counted, DiskLinked(p), NEW m \in Nat,
           Prefix(wal, wal', m), Len(wal') \in Nat, did \subseteq did', disk'[p] = disk[p], ckpt' = ckpt,
           disk[p].lsn <= m, ckpt <= m,
           todo' = None \/ (todo' = todo /\ redoPtr' = redoPtr /\ redoPtr <= m)
    PROVE  DiskLinked(p)'
<1> DEFINE v == wal'
           e == did'
           g == disk[p]
<1>1. Prefix(wal, v, m) /\ did \subseteq e /\ Len(v) \in Nat
  OBVIOUS
<1>2. Len(wal) \in Nat /\ ckpt \in Nat /\ redoPtr \in Nat /\ g.lsn \in Nat
  BY LogOK
<1> HIDE DEF v, e
<1>3. LinkVersion(v, e, p, g) /\ (p \in NodePage => HeadsBorn(wal, g, m))
  BY <1>1, <1>2, PrefixLinks DEF DiskLinked
<1>4. HeadsReach(v, e, p, g, ckpt)
  BY <1>1, <1>2, <1>3, PrefixHeads DEF DiskLinked
<1>5. todo' # None /\ p \notin todo' => HeadsReach(v, e, p, g, redoPtr')
  <2> SUFFICES ASSUME todo' # None, p \notin todo' PROVE HeadsReach(v, e, p, g, redoPtr')
    OBVIOUS
  <2>1. redoPtr' = redoPtr /\ redoPtr <= m /\ HeadsReach(wal, did, p, g, redoPtr)
    BY DEF DiskLinked
  <2> QED BY <1>1, <1>2, <1>3, <2>1, PrefixHeads
<1> QED BY <1>3, <1>4, <1>5 DEF DiskLinked, v, e, g

-----------------------------------------------------------------------------
(* Critical sections begin                                                 *)

\* A header is cleared; or each of its pointers stays, or goes to the new edge, which
\* points to where it went before.
HeadMoves(records, d, p, s, old, new) ==
    \/ Cleared(d, p, s) /\ \A dir \in Dir : End(new, dir) = 0
    \/ \A dir \in Dir :
          \/ End(new, dir) = End(old, dir)
          \/ \E j \in 1..Len(records) : /\ IsEdge(records[j]) /\ End(new, dir) = records[j].off
                                        /\ NextOf(records[j].data, dir) = End(old, dir)

\* What a critical section does to pointers, and what it is about to log.
LinkRecord(r, j) ==
    /\ IsEdge(r) =>
          /\ j = 1 /\ r.stamp /\ r.off = Len(buf[EdgePage].item) + 1
          /\ \A dir \in Dir : \E p \in NodePage, s \in Slot : NextOf(r.data, dir) = End(buf[p].head[s], dir)
    /\ r.type = "ADJ_UPDATE" => r.data = buf'[r.blk].head[r.off]
LinkChanges ==
    /\ did \subseteq did' /\ \A f \in did' \ did : LinkNamed(f)
    /\ \A j \in 1..Len(op'.todo) : LinkRecord(op'.todo[j], j)
    /\ \A p \in NodePage : p \in DOMAIN op'.lsn =>
          /\ WillStamp(op'.todo, p)
          /\ \A s \in Slot : HeadMoves(op'.todo, did', p, s, buf[p].head[s], buf'[p].head[s])
    /\ EdgePage \in DOMAIN op'.lsn => \A i \in 1..Len(buf'[EdgePage].item) :
          \/ i \in 1..Len(buf[EdgePage].item) /\ SameHops(buf[EdgePage].item[i], buf'[EdgePage].item[i])
          \/ \E j \in 1..Len(op'.todo) : /\ IsEdge(op'.todo[j]) /\ op'.todo[j].off = i
                                         /\ SameHops(op'.todo[j].data, buf'[EdgePage].item[i])

\* A header that moves leads to what it led to before.
LEMMA MovesReach ==
    ASSUME NEW w, NEW d, NEW e, d \subseteq e, NEW p, NEW s, NEW old, NEW new, NEW m, NEW x,
           Reaches(w, <<>>, d, p, s, old, m), HeadMoves(x, e, p, s, old, new)
    PROVE  Reaches(w, x, e, p, s, new, m)
<1>1. CASE Cleared(e, p, s)
  BY <1>1 DEF Reaches
<1>2. CASE ~Cleared(e, p, s)
  <2>1. ~Cleared(d, p, s)
    BY <1>2, ClearedMore
  <2>2. ASSUME NEW k \in 1..Len(w), NEW dir \in Dir, k <= m, IsHead(w[k], p), w[k].off = s,
               End(w[k].data, dir) # 0
        PROVE  Leads(w, x, dir, End(new, dir), End(w[k].data, dir))
    <3> DEFINE z == End(w[k].data, dir)
               a == End(old, dir)
    <3>1. Leads(w, <<>>, dir, a, z)
      BY <2>1, <2>2 DEF Reaches
    <3> HIDE DEF a, z
    <3>2. Leads(w, x, dir, a, z)
      BY <3>1, ClosedNone, LeadsMore
    <3>3. CASE End(new, dir) = a
      BY <3>2, <3>3 DEF z
    <3>4. ASSUME NEW j \in 1..Len(x), IsEdge(x[j]), End(new, dir) = x[j].off, NextOf(x[j].data, dir) = a
          PROVE  Leads(w, x, dir, End(new, dir), z)
      BY <3>2, <3>4, LeadsOn
    <3> QED BY <1>2, <3>3, <3>4 DEF HeadMoves, a, z
  <2> QED BY <2>2 DEF Reaches
<1> QED BY <1>1, <1>2

\* The edges in the WAL are on the page.
LEMMA BornThere ==
    ASSUME Types, Durable, mode = "run", NEW e, Born(wal, e, Len(wal))
    PROVE  e \in 0..Len(buf[EdgePage].item)
<1>1. EdgePage \in Counted /\ EdgePage \in Blk
  BY DEF Counted, Blk
<1>2. Reflects(wal, buf[EdgePage].item, EdgePage, Len(wal)) /\ Len(buf[EdgePage].item) \in Nat
  BY <1>1, LogOK DEF Durable, Lasting, BufOK
<1>3. CASE e = 0
  BY <1>2, <1>3
<1>4. CASE e # 0
  <2>1. PICK k \in 1..Len(wal) : k <= Len(wal) /\ IsEdge(wal[k]) /\ wal[k].off = e
    BY <1>4 DEF Born
  <2>2. IsInsert(wal[k]) /\ About(wal[k], EdgePage)
    <3>1. EntryOK(k, wal[k])
      BY DEF Types, Log
    <3> QED BY <2>1, <3>1 DEF EntryOK, Fits, IsEdge, IsInsert, About
  <2>3. Covers(buf[EdgePage].item, wal[k])
    BY <1>2, <2>1, <2>2 DEF Reflects
  <2> QED BY <1>2, <2>1, <2>2, <2>3 DEF Covers, Shows
<1> QED BY <1>3, <1>4

LEMMA EnterLinked ==
    ASSUME Types, NEW new, NEW records, NEW facts, Enter(new, records, facts), Section(new, records),
           LinkChanges, Durable, Chained
    PROVE  Chained'
<1>1. /\ mode = "run" /\ op = None /\ op' # None
      /\ op'.todo = records /\ DOMAIN op'.lsn = DOMAIN new
      /\ \A q \in DOMAIN new : op'.lsn[q] = buf[q].lsn /\ buf'[q] = new[q]
      /\ \A q \in Blk \ DOMAIN new : buf'[q] = buf[q]
      /\ UNCHANGED <<dirty, disk, wal, redoPtr, ckpt, todo, mode, pos, fpw>>
  BY EnterFacts
<1>2. EdgePage \in Counted /\ NodePage \subseteq Counted /\ Len(wal) \in Nat /\ Counted \subseteq Blk
  <2>1. Len(wal) \in Nat
    BY DEF Types, Log
  <2> QED BY <2>1 DEF Counted, Blk
<1>3. did \subseteq did' /\ Prefix(wal, wal, Len(wal)) /\ Rooted(wal)
  BY <1>2 DEF LinkChanges, Chained, Prefix
<1>4. ASSUME NEW p \in Counted
      PROVE  ~InOp(p) /\ (InOp(p)' <=> p \in DOMAIN new) /\ LinkVersion(wal, did, p, buf[p])
             /\ HeadsReach(wal, did, p, buf[p], Len(wal)) /\ buf[p].lsn \in Nat /\ buf[p].lsn <= Len(wal)
  <2>1. ~InOp(p) /\ (InOp(p)' <=> p \in DOMAIN new)
    BY <1>1 DEF InOp
  <2>2. buf[p].lsn \in Nat /\ buf[p].lsn <= Len(wal)
    BY LogOK
  <2> QED BY <1>1, <2>1, <2>2 DEF Chained, PageLinked, BufLinked
<1>5. ASSUME NEW p \in Counted PROVE PageLinked(p)'
  <2>1. PageLinked(p) /\ disk[p].lsn <= Len(wal) /\ ckpt <= Len(wal) /\ redoPtr <= Len(wal)
    BY LogOK DEF Chained
  <2>2. EntriesLinked(p)'
    <3>1. \A n \in 1..Len(wal) : About(wal'[n], p) =>
              /\ HeadLogged(wal', did', wal'[n], n - 1)
              /\ wal'[n].img # None => LinkVersion(wal', did', p, wal'[n].img)
      BY <1>1, <1>2, <1>3, <2>1, EntriesStay DEF PageLinked
    <3> QED BY <1>1, <3>1 DEF EntriesLinked
  <2>3. DiskLinked(p)'
    BY <1>1, <1>2, <1>3, <2>1, DiskStays DEF PageLinked
  <2>4. BufLinked(p)'
    <3> SUFFICES ASSUME ~InOp(p)' PROVE LinkVersion(wal, did', p, buf'[p]) /\ HeadsReach(wal, did', p, buf'[p], Len(wal))
      BY <1>1 DEF BufLinked
    <3>1. buf'[p] = buf[p]
      BY <1>1, <1>2, <1>4
    <3> DEFINE e == did'
    <3>2. did \subseteq e
      BY <1>3
    <3> HIDE DEF e
    <3>3. LinkVersion(wal, e, p, buf[p]) /\ (p \in NodePage => HeadsBorn(wal, buf[p], Len(wal)))
      BY <1>2, <1>3, <1>4, <3>2, PrefixLinks
    <3>4. HeadsReach(wal, e, p, buf[p], Len(wal))
      BY <1>2, <1>3, <1>4, <3>2, <3>3, PrefixHeads
    <3> QED BY <3>1, <3>3, <3>4 DEF e
  <2> QED BY <2>2, <2>3, <2>4 DEF PageLinked
<1>6. ASSUME NEW p \in NodePage, InOp(p)' PROVE NodeInOp(p)'
  <2>1. p \in Counted /\ p \in DOMAIN op'.lsn
    BY <1>1, <1>2, <1>4, <1>6
  <2>2. /\ WillStamp(op'.todo, p)
        /\ \A s \in Slot : HeadMoves(op'.todo, did', p, s, buf[p].head[s], buf'[p].head[s])
    BY <2>1 DEF LinkChanges
  <2>3. HeadsBorn(wal, buf[p], Len(wal))
    BY <1>2, <1>4, <2>1, BornHeads DEF LinkVersion
  <2> DEFINE x == op'.todo
             e == did'
             new1 == buf'[p].head
             old1 == buf[p].head
  <2>4. ASSUME NEW s \in Slot PROVE Reaches(wal, x, e, p, s, new1[s], Len(wal))
    <3>1. Reaches(wal, <<>>, did, p, s, old1[s], Len(wal))
      BY <1>4, <2>1 DEF HeadsReach
    <3>2. HeadMoves(x, e, p, s, old1[s], new1[s]) /\ did \subseteq e
      BY <1>3, <2>2
    <3> HIDE DEF x, e, new1, old1
    <3> QED BY <3>1, <3>2, MovesReach
  <2>5. ASSUME NEW s \in Slot, NEW dir \in Dir
        PROVE  Born(wal, End(new1[s], dir), Len(wal)) \/ ToCome(x, End(new1[s], dir))
    <3>1. Born(wal, End(old1[s], dir), Len(wal))
      BY <2>3 DEF HeadsBorn, HeadBorn
    <3>2. HeadMoves(x, e, p, s, old1[s], new1[s])
      BY <2>2
    <3> HIDE DEF x, e, new1, old1
    <3>3. CASE End(new1[s], dir) = 0
      BY <3>3 DEF Born
    <3>4. CASE End(new1[s], dir) = End(old1[s], dir)
      BY <3>1, <3>4
    <3>5. ASSUME NEW j \in 1..Len(x), IsEdge(x[j]), End(new1[s], dir) = x[j].off
          PROVE  ToCome(x, End(new1[s], dir))
      BY <3>5 DEF ToCome
    <3> QED BY <3>2, <3>3, <3>4, <3>5 DEF HeadMoves
  <2> HIDE DEF x, e, new1, old1
  <2> QED BY <1>1, <2>2, <2>4, <2>5 DEF NodeInOp, x, e, new1
<1>7. ASSUME InOp(EdgePage)' PROVE EdgesInOp'
  <2>1. EdgePage \in DOMAIN op'.lsn /\ op'.lsn[EdgePage] = buf[EdgePage].lsn
    BY <1>1, <1>2, <1>4, <1>7
  <2>2. EdgesKept(wal, buf[EdgePage], buf[EdgePage].lsn)
    BY <1>2, <1>4 DEF LinkVersion
  <2>3. ASSUME NEW i \in 1..Len(buf'[EdgePage].item)
        PROVE  \/ EdgeKept(wal, i, buf'[EdgePage].item[i], op'.lsn[EdgePage])
               \/ \E j \in 1..Len(op'.todo) : /\ IsEdge(op'.todo[j]) /\ op'.todo[j].off = i
                                              /\ SameHops(op'.todo[j].data, buf'[EdgePage].item[i])
    <3>1. CASE i \in 1..Len(buf[EdgePage].item) /\ SameHops(buf[EdgePage].item[i], buf'[EdgePage].item[i])
      <4>1. EdgeKept(wal, i, buf[EdgePage].item[i], buf[EdgePage].lsn)
        BY <2>2, <3>1 DEF EdgesKept
      <4> QED BY <2>1, <3>1, <4>1 DEF EdgeKept, SameHops
    <3> QED BY <2>1, <3>1 DEF LinkChanges
  <2> QED BY <1>1, <2>3 DEF EdgesInOp
<1>8. ASSUME NEW j \in 1..Len(op'.todo) PROVE PendingLinked(op.todo[j], j)'
  <2> DEFINE r == op'.todo[j]
             e == Len(buf[EdgePage].item) + 1
  <2>1. LinkRecord(r, j)
    BY DEF LinkChanges
  <2>2. Len(buf[EdgePage].item) \in Nat
    BY <1>2, LogOK
  <2> HIDE DEF r
  <2>3. \A k \in 1..Len(wal) : IsEdge(wal[k]) => wal[k].off # e
    <3> TAKE k \in 1..Len(wal)
    <3> HAVE IsEdge(wal[k])
    <3>1. Born(wal, wal[k].off, Len(wal))
      BY DEF Born
    <3>2. wal[k].off \in 0..Len(buf[EdgePage].item)
      BY <1>1, <3>1, BornThere
    <3> QED BY <2>2, <3>2
  <2>4. ASSUME NEW dir \in Dir, IsEdge(r) PROVE NextOf(r.data, dir) < e /\ Born(wal, NextOf(r.data, dir), Len(wal))
    <3>1. PICK p \in NodePage, s \in Slot : NextOf(r.data, dir) = End(buf[p].head[s], dir)
      BY <2>1, <2>4 DEF LinkRecord
    <3>2. HeadsBorn(wal, buf[p], Len(wal))
      <4>1. LinkVersion(wal, did, p, buf[p]) /\ buf[p].lsn \in Nat /\ buf[p].lsn <= Len(wal)
        BY <1>2, <1>4
      <4> QED BY <1>2, <4>1, BornHeads DEF LinkVersion
    <3>3. Born(wal, NextOf(r.data, dir), Len(wal))
      BY <3>1, <3>2 DEF HeadsBorn, HeadBorn
    <3>4. NextOf(r.data, dir) \in 0..Len(buf[EdgePage].item)
      BY <1>1, <3>3, BornThere
    <3> QED BY <2>2, <3>3, <3>4
  <2>5. IsEdge(r) =>
          /\ j = 1 /\ r.stamp /\ r.off # 0
          /\ \A k \in 1..Len(wal) : IsEdge(wal[k]) => wal[k].off # r.off
          /\ \A dir \in Dir : NextOf(r.data, dir) < r.off /\ Born(wal, NextOf(r.data, dir), Len(wal))
    BY <2>1, <2>2, <2>3, <2>4 DEF LinkRecord
  <2>6. r.type = "ADJ_UPDATE" => r.data = buf'[r.blk].head[r.off]
    BY <2>1 DEF LinkRecord
  <2> QED BY <1>1, <2>5, <2>6 DEF PendingLinked, r
<1>9. \A f \in did' : LinkNamed(f)'
  BY DEF Chained, LinkChanges, LinkNamed
<1>10. SectionLinked'
  BY <1>6, <1>7, <1>8 DEF SectionLinked
<1>11. Rooted(wal')
  BY <1>1, <1>3
<1> QED BY <1>5, <1>9, <1>10, <1>11 DEF Chained, Counted

-----------------------------------------------------------------------------
(* Critical sections go on and end                                         *)

\* Records that go from a critical section to the WAL lead to the same.
LEMMA ShiftClosed ==
    ASSUME NEW w, NEW v, NEW x, NEW y, Len(w) \in Nat, Len(x) \in Nat, Len(x) >= 1,
           Len(y) = Len(x) - 1, \A i \in 1..Len(y) : y[i] = x[i + 1],
           Len(v) = Len(w) + 1, \A k \in 1..Len(w) : v[k] = w[k],
           v[Len(w) + 1].type = x[1].type, v[Len(w) + 1].off = x[1].off, v[Len(w) + 1].data = x[1].data,
           NEW dir, NEW X, Closed(v, dir, X), Closed(y, dir, X)
    PROVE  Closed(w, dir, X) /\ Closed(x, dir, X)
<1>1. Closed(w, dir, X)
  <2>1. \A k \in 1..Len(w) : k \in 1..Len(v) /\ v[k] = w[k]
    OBVIOUS
  <2> QED BY <2>1 DEF Closed
<1>2. ASSUME NEW j \in 1..Len(x), IsEdge(x[j]), x[j].off \in X PROVE NextOf(x[j].data, dir) \in X
  <2>1. CASE j = 1
    <3>1. Len(w) + 1 \in 1..Len(v)
      OBVIOUS
    <3>2. IsEdge(v[Len(w) + 1])
      BY <1>2, <2>1 DEF IsEdge
    <3> QED BY <1>2, <2>1, <3>1, <3>2 DEF Closed
  <2>2. CASE j # 1
    <3>1. j - 1 \in 1..Len(y) /\ (j - 1) + 1 = j
      BY <2>2
    <3>2. y[j - 1] = x[j]
      BY <3>1
    <3> QED BY <1>2, <3>1, <3>2 DEF Closed
  <2> QED BY <2>1, <2>2
<1> QED BY <1>1, <1>2 DEF Closed

LEMMA ShiftReaches ==
    ASSUME NEW w, NEW v, NEW x, NEW y, Len(w) \in Nat, \A k \in 1..Len(w) : v[k] = w[k],
           \A dir, X : Closed(v, dir, X) /\ Closed(y, dir, X) => Closed(w, dir, X) /\ Closed(x, dir, X),
           NEW d, NEW p, NEW s, NEW hd, Reaches(w, x, d, p, s, hd, Len(w))
    PROVE  Reaches(v, y, d, p, s, hd, Len(w))
<1>1. CASE Cleared(d, p, s)
  BY <1>1 DEF Reaches
<1>2. CASE ~Cleared(d, p, s)
  <2>1. ASSUME NEW k \in 1..Len(v), NEW dir \in Dir, k <= Len(w), IsHead(v[k], p), v[k].off = s,
               End(v[k].data, dir) # 0
        PROVE  Leads(v, y, dir, End(hd, dir), End(v[k].data, dir))
    <3>1. k \in 1..Len(w) /\ w[k] = v[k]
      BY <2>1
    <3>2. Leads(w, x, dir, End(hd, dir), End(v[k].data, dir))
      BY <1>2, <2>1, <3>1 DEF Reaches
    <3> QED BY <3>2, LeadsMore
  <2> QED BY <2>1 DEF Reaches
<1> QED BY <1>1, <1>2

LEMMA LogNextLinked ==
    ASSUME Types, LogNext, Rest, Chained
    PROVE  Chained'
<1> DEFINE r == op.todo[1]
           m == Len(wal)
           n == Len(wal) + 1
           e == wal'[n]
           v == wal'
           x == op.todo
           y == op'.todo
<1>1. /\ mode = "run" /\ op # None /\ op' # None /\ r.blk \in Counted
      /\ UNCHANGED <<buf, dirty, disk, redoPtr, ckpt, todo, mode, pos, fpw>>
      /\ Len(v) = n /\ m \in Nat /\ \A k \in 1..m : v[k] = wal[k]
  BY LogNextMore, Zenon
<1>2. /\ SectionOK(op) /\ Len(x) >= 1 /\ Fits(r) /\ r.blk \in DOMAIN op.lsn
      /\ e.type = r.type /\ e.blk = r.blk /\ e.off = r.off /\ e.data = r.data
      /\ e.img = IF Imaging(r) THEN [buf[r.blk] EXCEPT !.lsn = n] ELSE None
      /\ y \in Seq(PendingRecord) /\ Len(y) = Len(x) - 1
      /\ \A i \in 1..Len(y) : y[i] = x[i + 1]
      /\ DOMAIN op'.lsn = DOMAIN op.lsn
      /\ \A q \in DOMAIN op.lsn : op'.lsn[q] \in {op.lsn[q], n}
      /\ r.stamp => op'.lsn[r.blk] = n
  BY LogNextEntry, Zenon
<1>3. did' = did
  BY DEF LogNext
<1>4. Len(x) \in Nat /\ Len(y) \in Nat /\ 1 \in 1..Len(x)
  <2>1. Len(x) \in Nat /\ Len(y) \in Nat
    BY <1>2 DEF SectionOK
  <2> QED BY <1>2, <2>1
<1>5. Prefix(wal, v, m) /\ Rooted(wal) /\ did \subseteq did
  BY <1>1, LogKept DEF Chained
<1>6. /\ \A j \in 1..Len(x) : PendingLinked(x[j], j)
      /\ \A p \in NodePage : InOp(p) => NodeInOp(p)
      /\ InOp(EdgePage) => EdgesInOp
  BY <1>1 DEF Chained, SectionLinked
<1> HIDE DEF r, m, n, e, v, x, y
<1>7. n \in Nat /\ m \in Nat /\ n = m + 1 /\ Len(wal) = m /\ v[n] = e /\ x[1] = r /\ n \in 1..Len(v)
  BY <1>1 DEF n, m, v, e, x, r
<1>8. PendingLinked(r, 1)
  BY <1>4, <1>6, <1>7
<1>9. \A j \in 1..Len(x) : IsEdge(x[j]) => j = 1 /\ IsEdge(r) /\ IsEdge(e) /\ r.blk = EdgePage
  <2> TAKE j \in 1..Len(x)
  <2> HAVE IsEdge(x[j])
  <2>1. j = 1
    BY <1>6 DEF PendingLinked
  <2> QED BY <1>2, <1>7, <2>1 DEF IsEdge, Fits
<1>10. \A j \in 1..Len(y) : ~IsEdge(y[j])
  <2> TAKE j \in 1..Len(y)
  <2>1. j + 1 \in 1..Len(x) /\ j + 1 # 1
    BY <1>2, <1>4
  <2> QED BY <1>2, <1>9, <2>1
<1>11. \A dir, X : Closed(v, dir, X) /\ Closed(y, dir, X) => Closed(wal, dir, X) /\ Closed(x, dir, X)
  <2> TAKE dir, X
  <2> HAVE Closed(v, dir, X) /\ Closed(y, dir, X)
  <2>1. v[Len(wal) + 1].type = x[1].type /\ v[Len(wal) + 1].off = x[1].off /\ v[Len(wal) + 1].data = x[1].data
    BY <1>2, <1>7
  <2>2. Len(v) = Len(wal) + 1 /\ \A k \in 1..Len(wal) : v[k] = wal[k]
    BY <1>1, <1>7
  <2> QED BY <1>2, <1>4, <1>7, <2>1, <2>2, ShiftClosed
<1>12. ASSUME NEW p \in Counted PROVE (About(e, p) <=> r.blk = p) /\ (r.blk = p => InOp(p)) /\ (InOp(p)' <=> InOp(p))
  BY <1>1, <1>2 DEF About, Fits, InOp
\* The record is of a node page: no edge is to come.
<1>13. ASSUME r.blk \in NodePage, NEW s \in Slot
       PROVE  LET hd == buf[r.blk].head[s]
              IN  HeadBorn(wal, hd, m) /\ Reaches(wal, <<>>, did, r.blk, s, hd, m)
  <2> DEFINE p == r.blk
             hd == buf[p].head[s]
  <2>1. NodeInOp(p)
    BY <1>1, <1>6, <1>12, <1>13
  <2>2. \A j \in 1..Len(x) : ~IsEdge(x[j])
    BY <1>9, <1>13
  <2>3. \A dir, X : Closed(wal, dir, X) /\ Closed(<<>>, dir, X) => Closed(wal, dir, X) /\ Closed(x, dir, X)
    BY <2>2 DEF Closed
  <2>4. Reaches(wal, x, did, p, s, hd, Len(wal)) /\ \A dir \in Dir : Born(wal, End(hd, dir), Len(wal)) \/ ToCome(x, End(hd, dir))
    BY <2>1 DEF NodeInOp, x
  <2> HIDE DEF p, hd
  <2>5. HeadBorn(wal, hd, m)
    BY <1>7, <2>2, <2>4 DEF HeadBorn, ToCome
  <2>6. Reaches(wal, <<>>, did, p, s, hd, Len(wal))
    BY <1>1, <1>7, <2>3, <2>4, ShiftReaches
  <2> QED BY <1>7, <2>5, <2>6 DEF p, hd
\* A header's record has the header.
<1>14. ASSUME NEW p \in NodePage, NEW s \in Slot, IsHead(v[n], p), v[n].off = s
       PROVE  v[n].data = buf[p].head[s]
  BY <1>2, <1>7, <1>8, <1>14 DEF IsHead, PendingLinked
<1>15. ASSUME r.blk \in NodePage
       PROVE  /\ HeadsBorn(v, buf[r.blk], n) /\ HeadsBorn(wal, buf[r.blk], m)
              /\ \A s \in Slot : Reaches(v, <<>>, did, r.blk, s, buf[r.blk].head[s], n)
  <2> DEFINE p == r.blk
  <2>1. HeadsBorn(wal, buf[p], m)
    BY <1>13, <1>15 DEF HeadsBorn
  <2>2. HeadsBorn(v, buf[p], n)
    <3>1. HeadsBorn(v, buf[p], m)
      BY <1>1, <1>5, <1>7, <2>1, PrefixBornHeads
    <3> QED BY <1>7, <3>1, BornHeads
  <2>3. ASSUME NEW s \in Slot PROVE Reaches(v, <<>>, did, p, s, buf[p].head[s], n)
    <3> DEFINE hd == buf[p].head[s]
    <3>1. HeadBorn(wal, hd, m) /\ Reaches(wal, <<>>, did, p, s, hd, m)
      BY <1>13, <1>15
    <3>2. IsHead(v[n], p) /\ v[n].off = s => v[n].data = hd
      BY <1>14, <1>15
    <3> HIDE DEF hd, p
    <3>3. Reaches(v, <<>>, did, p, s, hd, m)
      BY <1>1, <1>5, <1>7, <3>1, PrefixReaches
    <3>4. Reaches(v, <<>>, did, p, s, hd, m + 1)
      BY <1>7, <3>2, <3>3, ReachesNext
    <3> QED BY <1>7, <3>4 DEF hd
  <2> QED BY <2>1, <2>2, <2>3
<1>16. ASSUME r.blk = EdgePage \/ InOp(EdgePage)
       PROVE  \A i \in 1..Len(buf[EdgePage].item) : \/ EdgeKept(v, i, buf[EdgePage].item[i], op.lsn[EdgePage])
                                                    \/ r.blk = EdgePage /\ r.stamp /\ EdgeKept(v, i, buf[EdgePage].item[i], n)
  <2>0. EdgePage \in Counted
    BY DEF Counted
  <2>1. InOp(EdgePage) /\ EdgesInOp
    BY <1>6, <1>12, <1>16, <2>0
  <2>2. op.lsn[EdgePage] \in Nat /\ op.lsn[EdgePage] <= m
    BY <1>2, <1>7, <2>1 DEF SectionOK, InOp
  <2> TAKE i \in 1..Len(buf[EdgePage].item)
  <2> DEFINE it == buf[EdgePage].item[i]
  <2>3. CASE EdgeKept(wal, i, it, op.lsn[EdgePage])
    BY <1>1, <1>5, <1>7, <2>2, <2>3, PrefixKept
  <2>4. ASSUME NEW j \in 1..Len(x), IsEdge(x[j]), x[j].off = i, SameHops(x[j].data, it)
        PROVE  r.blk = EdgePage /\ r.stamp /\ EdgeKept(v, i, it, n)
    <3>1. j = 1 /\ IsEdge(e) /\ IsEdge(r) /\ r.blk = EdgePage
      BY <1>9, <2>4
    <3>2. r.stamp
      BY <1>8, <3>1 DEF PendingLinked
    <3>3. n <= n /\ IsEdge(v[n]) /\ v[n].off = i /\ SameHops(v[n].data, it)
      BY <1>2, <1>7, <2>4, <3>1
    <3>4. EdgeKept(v, i, it, n)
      BY <1>7, <3>3 DEF EdgeKept
    <3> QED BY <3>1, <3>2, <3>4
  <2> QED BY <2>1, <2>3, <2>4 DEF EdgesInOp, x
<1>17. ASSUME r.blk = EdgePage PROVE EdgesKept(v, buf[EdgePage], n)
  <2>0. EdgePage \in Counted
    BY DEF Counted
  <2>1. op.lsn[EdgePage] \in Nat /\ op.lsn[EdgePage] <= n
    BY <1>2, <1>7, <1>17 DEF SectionOK
  <2>2. ASSUME NEW i \in 1..Len(buf[EdgePage].item) PROVE EdgeKept(v, i, buf[EdgePage].item[i], n)
    <3>1. EdgeKept(v, i, buf[EdgePage].item[i], op.lsn[EdgePage]) \/ EdgeKept(v, i, buf[EdgePage].item[i], n)
      BY <1>16, <1>17
    <3> QED BY <1>7, <2>1, <3>1, KeptMore
  <2> QED BY <2>2 DEF EdgesKept
<1>18. ASSUME NEW p \in Counted, r.blk = p
       PROVE  HeadLogged(v, did, e, m) /\ (e.img # None => LinkVersion(v, did, p, e.img))
  <2>1. HeadLogged(v, did, e, m)
    <3> SUFFICES ASSUME e.type = "ADJ_UPDATE" PROVE HeadLogged(v, did, e, m)
      BY DEF HeadLogged
    <3>1. p \in NodePage /\ r.off \in Slot /\ r.data = buf[p].head[r.off]
      BY <1>2, <1>8, <1>18 DEF Fits, PendingLinked
    <3>2. HeadBorn(wal, r.data, m) /\ Reaches(wal, <<>>, did, p, r.off, r.data, m)
      BY <1>13, <1>18, <3>1
    <3>3. HeadBorn(v, r.data, m)
      BY <1>1, <1>5, <1>7, <3>2, PrefixBorn DEF HeadBorn
    <3>4. Reaches(v, <<>>, did, p, r.off, r.data, m)
      BY <1>1, <1>5, <1>7, <3>2, PrefixReaches
    <3> QED BY <1>2, <1>18, <3>3, <3>4 DEF HeadLogged
  <2>2. ASSUME e.img # None PROVE LinkVersion(v, did, p, e.img)
    <3>1. e.img = [buf[p] EXCEPT !.lsn = n] /\ buf[p] \in Page(p)
      BY <1>2, <1>18, <2>2, CountedPages, BufferOK
    <3>2. e.img.lsn = n /\ e.img.item = buf[p].item /\ e.img.head = buf[p].head
      BY <3>1 DEF Page
    <3>3. p \in NodePage => HeadsBorn(v, e.img, n) /\ HeadsReach(v, did, p, e.img, n)
      BY <1>15, <1>18, <3>2 DEF HeadsBorn, HeadsReach
    <3>4. p = EdgePage => EdgesKept(v, e.img, n)
      BY <1>17, <1>18, <3>2 DEF EdgesKept
    <3> QED BY <3>2, <3>3, <3>4 DEF LinkVersion, HeadsReach
  <2> QED BY <2>1, <2>2
<1>19. ASSUME NEW p \in Counted PROVE PageLinked(p)'
  <2>1. PageLinked(p) /\ p \in Blk /\ disk[p].lsn <= m /\ ckpt <= m /\ redoPtr <= m /\ buf[p].lsn \in Nat /\ buf[p].lsn <= m
    BY LogOK DEF Chained, m
  <2>2. EntriesLinked(p)'
    <3>1. \A k \in 1..m : About(v[k], p) =>
              /\ HeadLogged(v, did', v[k], k - 1)
              /\ v[k].img # None => LinkVersion(v, did', p, v[k].img)
      BY <1>1, <1>3, <1>5, <1>7, <2>1, EntriesStay DEF PageLinked, v
    <3>2. About(v[n], p) => HeadLogged(v, did, v[n], n - 1) /\ (v[n].img # None => LinkVersion(v, did, p, v[n].img))
      <4>1. n - 1 = m
        BY <1>7
      <4> QED BY <1>7, <1>12, <1>18, <4>1
    <3>3. \A k \in 1..Len(v) : k \in 1..m \/ k = n
      BY <1>1, <1>7
    <3> QED BY <1>3, <3>1, <3>2, <3>3 DEF EntriesLinked, v
  <2>3. DiskLinked(p)'
    BY <1>1, <1>3, <1>5, <1>7, <2>1, DiskStays DEF PageLinked, v
  <2>4. BufLinked(p)'
    <3> SUFFICES ASSUME ~InOp(p) PROVE LinkVersion(v, did, p, buf[p]) /\ HeadsReach(v, did, p, buf[p], n)
      BY <1>1, <1>3, <1>12 DEF BufLinked, v
    <3>1. LinkVersion(wal, did, p, buf[p]) /\ HeadsReach(wal, did, p, buf[p], m)
      BY <1>1, <1>7, <2>1 DEF PageLinked, BufLinked
    <3>2. LinkVersion(v, did, p, buf[p]) /\ (p \in NodePage => HeadsBorn(wal, buf[p], m))
      BY <1>1, <1>5, <1>7, <2>1, <3>1, PrefixLinks
    <3>3. HeadsReach(v, did, p, buf[p], m)
      BY <1>1, <1>5, <1>7, <3>1, <3>2, PrefixHeads
    <3>4. ~IsHead(v[m + 1], p)
      BY <1>2, <1>7, <1>12 DEF IsHead
    <3>5. HeadsReach(v, did, p, buf[p], m + 1)
      BY <1>7, <3>3, <3>4, ReachesNext DEF HeadsReach
    <3> QED BY <1>7, <3>2, <3>5
  <2> QED BY <2>2, <2>3, <2>4 DEF PageLinked
<1>20. ASSUME NEW p \in NodePage, InOp(p) PROVE NodeInOp(p)'
  <2>1. NodeInOp(p) /\ p \in Counted /\ op.lsn[p] \in Nat /\ op.lsn[p] <= m /\ op'.lsn[p] \in {op.lsn[p], n}
    BY <1>2, <1>6, <1>7, <1>20 DEF SectionOK, InOp, Counted
  <2>2. ASSUME NEW s \in Slot PROVE Reaches(v, y, did, p, s, buf[p].head[s], n)
    <3> DEFINE hd == buf[p].head[s]
    <3>1. Reaches(wal, x, did, p, s, hd, Len(wal))
      BY <2>1 DEF NodeInOp, x
    <3>2. IsHead(v[n], p) /\ v[n].off = s => v[n].data = hd
      BY <1>14
    <3> HIDE DEF hd
    <3>3. Reaches(v, y, did, p, s, hd, m)
      BY <1>1, <1>7, <1>11, <3>1, ShiftReaches
    <3>4. Reaches(v, y, did, p, s, hd, m + 1)
      BY <1>7, <3>2, <3>3, ReachesNext
    <3> QED BY <1>7, <3>4 DEF hd
  <2>3. ASSUME NEW s \in Slot, NEW dir \in Dir PROVE Born(v, End(buf[p].head[s], dir), n)
    <3> DEFINE f == End(buf[p].head[s], dir)
    <3>1. Born(wal, f, m) \/ ToCome(x, f)
      BY <1>7, <2>1 DEF NodeInOp, x
    <3> HIDE DEF f
    <3>2. ASSUME Born(wal, f, m) PROVE Born(v, f, n)
      <4>1. Born(v, f, m)
        BY <1>1, <1>5, <1>7, <3>2, PrefixBorn
      <4> QED BY <1>7, <4>1, BornMore
    <3>3. ASSUME ToCome(x, f) PROVE Born(v, f, n)
      <4>1. IsEdge(v[n]) /\ v[n].off = f /\ n <= n
        BY <1>2, <1>7, <1>9, <3>3 DEF ToCome
      <4> QED BY <1>7, <4>1 DEF Born
    <3>4. Born(v, f, n)
      BY <3>1, <3>2, <3>3
    <3> QED BY <3>4 DEF f
  <2>4. ASSUME ~WillStamp(y, p) PROVE HeadsBorn(v, buf[p], op'.lsn[p])
    <3>1. CASE WillStamp(x, p)
      <4>1. PICK j \in 1..Len(x) : x[j].blk = p /\ x[j].stamp
        BY <3>1 DEF WillStamp
      <4>2. j = 1
        <5> SUFFICES ASSUME j # 1 PROVE FALSE
          OBVIOUS
        <5>1. j - 1 \in 1..Len(y) /\ (j - 1) + 1 = j
          BY <1>2, <1>4
        <5>2. y[j - 1] = x[j]
          BY <1>2, <5>1
        <5> QED BY <2>4, <4>1, <5>1, <5>2 DEF WillStamp
      <4>3. r.blk = p /\ op'.lsn[p] = n
        BY <1>2, <1>7, <4>1, <4>2
      <4> QED BY <1>15, <4>3
    <3>2. CASE ~WillStamp(x, p)
      <4>1. HeadsBorn(wal, buf[p], op.lsn[p])
        BY <2>1, <3>2 DEF NodeInOp, x
      <4>2. HeadsBorn(v, buf[p], op.lsn[p])
        BY <1>1, <1>5, <1>7, <2>1, <4>1, PrefixBornHeads
      <4>3. HeadsBorn(v, buf[p], n)
        BY <1>7, <2>1, <4>2, BornHeads
      <4> QED BY <2>1, <4>2, <4>3
    <3> QED BY <3>1, <3>2
  <2> QED BY <1>1, <1>3, <2>2, <2>3, <2>4 DEF NodeInOp, v, y
<1>21. ASSUME InOp(EdgePage) PROVE EdgesInOp'
  <2>1. op.lsn[EdgePage] \in Nat /\ op.lsn[EdgePage] <= n /\ op'.lsn[EdgePage] \in {op.lsn[EdgePage], n}
        /\ (r.blk = EdgePage /\ r.stamp => op'.lsn[EdgePage] = n)
    BY <1>2, <1>7, <1>21 DEF SectionOK, InOp
  <2>2. ASSUME NEW i \in 1..Len(buf[EdgePage].item) PROVE EdgeKept(v, i, buf[EdgePage].item[i], op'.lsn[EdgePage])
    <3>1. CASE EdgeKept(v, i, buf[EdgePage].item[i], op.lsn[EdgePage])
      <4>1. EdgeKept(v, i, buf[EdgePage].item[i], n)
        BY <1>7, <2>1, <3>1, KeptMore
      <4> QED BY <2>1, <3>1, <4>1
    <3> QED BY <1>16, <1>21, <2>1, <3>1
  <2> QED BY <1>1, <2>2 DEF EdgesInOp, v
<1>22. ASSUME NEW j \in 1..Len(y) PROVE PendingLinked(op.todo[j], j)'
  <2>1. j + 1 \in 1..Len(x) /\ y[j] = x[j + 1]
    BY <1>2, <1>4
  <2>2. PendingLinked(y[j], j + 1)
    BY <1>6, <2>1
  <2>3. y[j].type = "ADJ_UPDATE" => y[j].data = buf[y[j].blk].head[y[j].off]
    BY <2>2 DEF PendingLinked
  <2>4. ~IsEdge(y[j])
    BY <1>10
  <2> QED BY <1>1, <2>3, <2>4 DEF PendingLinked, y
<1>23. SectionLinked'
  <2>1. \A p \in NodePage : p \in Counted
    BY DEF Counted
  <2>2. EdgePage \in Counted
    BY DEF Counted
  <2> QED BY <1>1, <1>12, <1>20, <1>21, <1>22, <2>1, <2>2 DEF SectionLinked, y
<1>24. Rooted(v)
  <2>1. IsEdge(v[m + 1]) => /\ v[m + 1].off # 0
                            /\ \A k \in 1..m : IsEdge(wal[k]) => wal[k].off # v[m + 1].off
                            /\ \A dir \in Dir : /\ NextOf(v[m + 1].data, dir) < v[m + 1].off
                                                /\ Born(wal, NextOf(v[m + 1].data, dir), m)
    BY <1>2, <1>7, <1>8 DEF PendingLinked, IsEdge
  <2>2. Len(v) = m + 1
    BY <1>1, <1>7
  <2> QED BY <1>5, <1>7, <2>1, <2>2, RootedNext
<1> QED BY <1>3, <1>19, <1>23, <1>24 DEF Chained, Counted, LinkNamed, v

\* The log and the facts stay.
LEMMA LogStays ==
    ASSUME NEW p, EntriesLinked(p), Rooted(wal), \A f \in did : LinkNamed(f), wal' = wal, did' = did
    PROVE  EntriesLinked(p)' /\ Rooted(wal)' /\ \A f \in did' : LinkNamed(f)'
BY DEF EntriesLinked, LinkNamed

\* Only LSN, headers and pointers of a page matter.
LEMMA SameLinks ==
    ASSUME NEW w, NEW d, NEW p, NEW page, NEW new, new.lsn = page.lsn, new.head = page.head,
           Len(new.item) = Len(page.item), \A i \in 1..Len(page.item) : SameHops(page.item[i], new.item[i]),
           LinkVersion(w, d, p, page)
    PROVE  LinkVersion(w, d, p, new)
<1>1. p \in NodePage => HeadsBorn(w, new, new.lsn)
  BY DEF LinkVersion, HeadsBorn
<1>2. HeadsReach(w, d, p, new, new.lsn)
  BY DEF LinkVersion, HeadsReach
<1>3. ASSUME p = EdgePage, NEW i \in 1..Len(new.item) PROVE EdgeKept(w, i, new.item[i], new.lsn)
  <2>1. EdgeKept(w, i, page.item[i], page.lsn) /\ SameHops(page.item[i], new.item[i])
    BY <1>3 DEF LinkVersion, EdgesKept
  <2> QED BY <2>1 DEF EdgeKept, SameHops
<1> QED BY <1>1, <1>2, <1>3 DEF LinkVersion, EdgesKept

\* The end of a critical section: all its records are in the WAL.
LEMMA OpEndLinked == ASSUME Types, OpEnd, Chained PROVE Chained'
<1>1. /\ op # None /\ SectionOK(op) /\ mode = "run" /\ op' = None
      /\ UNCHANGED <<disk, wal, redoPtr, ckpt, todo, mode, pos>>
      /\ \A q \in Blk \ DOMAIN op.lsn : buf'[q] = buf[q]
      /\ \A q \in DOMAIN op.lsn : buf'[q].lsn = op.lsn[q] /\ buf'[q].item = buf[q].item
  BY OpEndPages, Zenon
<1>2. did' = did /\ op.todo = <<>> /\ Len(op.todo) = 0
  BY DEF OpEnd
<1>3. ASSUME NEW q \in Blk, q \in DOMAIN op.lsn PROVE buf'[q].head = buf[q].head
  <2>1. buf[q] \in Page(q)
    BY BufferOK
  <2> QED BY <1>3, <2>1 DEF OpEnd, Page
<1>4. ASSUME NEW p \in Counted PROVE PageLinked(p)'
  <2>1. PageLinked(p) /\ p \in Blk /\ Len(wal) \in Nat
    BY LogOK DEF Chained
  <2>2. EntriesLinked(p)' /\ DiskLinked(p)'
    BY <1>1, <1>2, <2>1, LogStays DEF PageLinked, DiskLinked, Chained
  <2>3. BufLinked(p)'
    <3>1. CASE p \in DOMAIN op.lsn
      <4>1. op.lsn[p] \in Nat /\ op.lsn[p] <= Len(wal) /\ InOp(p)
        BY <1>1, <2>1, <3>1 DEF SectionOK, InOp
      <4>2. ASSUME p \in NodePage PROVE HeadsBorn(wal, buf'[p], buf'[p].lsn)
        <5>1. NodeInOp(p) /\ ~WillStamp(op.todo, p)
          BY <1>1, <1>2, <4>1, <4>2 DEF Chained, SectionLinked, WillStamp
        <5> QED BY <1>1, <1>3, <2>1, <3>1, <5>1 DEF NodeInOp, HeadsBorn
      <4>3. HeadsReach(wal, did, p, buf'[p], Len(wal))
        <5> SUFFICES ASSUME p \in NodePage, NEW s \in Slot
                     PROVE  Reaches(wal, <<>>, did, p, s, buf'[p].head[s], Len(wal))
          BY DEF HeadsReach
        <5>1. Reaches(wal, op.todo, did, p, s, buf[p].head[s], Len(wal))
          BY <1>1, <4>1 DEF Chained, SectionLinked, NodeInOp
        <5> QED BY <1>2, <1>3, <2>1, <3>1, <5>1
      <4>4. HeadsReach(wal, did, p, buf'[p], buf'[p].lsn)
        BY <1>1, <2>1, <3>1, <4>1, <4>3, FewerHeads
      <4>5. ASSUME p = EdgePage PROVE EdgesKept(wal, buf'[p], buf'[p].lsn)
        <5>1. EdgesInOp
          BY <1>1, <4>1, <4>5 DEF Chained, SectionLinked
        <5> QED BY <1>1, <1>2, <3>1, <4>5, <5>1 DEF EdgesInOp, EdgesKept
      <4> QED BY <1>1, <1>2, <4>2, <4>3, <4>4, <4>5 DEF BufLinked, LinkVersion
    <3>2. CASE p \notin DOMAIN op.lsn
      BY <1>1, <1>2, <2>1, <3>2 DEF PageLinked, BufLinked, InOp
    <3> QED BY <3>1, <3>2
  <2> QED BY <2>2, <2>3 DEF PageLinked
<1>5. Rooted(wal') /\ \A f \in did' : LinkNamed(f)'
  BY <1>1, <1>2 DEF Chained, LinkNamed
<1> QED BY <1>1, <1>4, <1>5 DEF Chained, SectionLinked, Counted

\* update_edge_props leaves the pointers alone.
LEMMA UpdatePropsLinked ==
    ASSUME Types, NEW off \in Items(EdgePage), UpdateProps(off), Chained
    PROVE  Chained'
<1>1. /\ buf' = [buf EXCEPT ![EdgePage].item[off].props = xid]
      /\ mode = "run" /\ op = None
      /\ UNCHANGED <<disk, wal, redoPtr, ckpt, todo, op, mode, pos, did>>
  BY DEF UpdateProps, Running, log, ckptVars, server
<1>2. buf = [p \in Blk |-> buf[p]] /\ EdgePage \in Blk
  BY DEF Types, Pages, Blk
<1> DEFINE s == buf[EdgePage].item
           t == buf'[EdgePage].item
<1>3. /\ Len(t) = Len(s) /\ Len(s) \in Nat /\ buf'[EdgePage].lsn = buf[EdgePage].lsn
      /\ buf'[EdgePage].head = buf[EdgePage].head
      /\ \A i \in 1..Len(s) : SameHops(s[i], t[i])
  <2>1. buf[EdgePage] \in Page(EdgePage) /\ s \in Seq(EdgeItem) /\ off \in 1..Len(s) /\ s[off] \in EdgeItem
    <3>1. Content(EdgePage) = EdgeItem
      BY DEF Content
    <3> QED BY <1>2, <3>1, BufferOK, ItemInUse
  <2>2. t = [s EXCEPT ![off].props = xid] /\ buf'[EdgePage].lsn = buf[EdgePage].lsn
        /\ buf'[EdgePage].head = buf[EdgePage].head
    BY <1>1, <1>2, <2>1 DEF Page
  <2> DEFINE x == [s[off] EXCEPT !.props = xid]
  <2>3. SameHops(s[off], x) /\ x \in EdgeItem
    <3>1. xid \in Nat
      BY DEF Types, Scalars, Xid
    <3> QED BY <2>1, <3>1 DEF EdgeItem, SameHops
  <2>4. t = [s EXCEPT ![off] = x]
    BY <2>2
  <2> HIDE DEF x, s, t
  <2>5. Len(t) = Len(s) /\ Len(s) \in Nat
    BY <2>1, <2>3, <2>4, ExceptSeq
  <2>6. \A i \in 1..Len(s) : t[i] = IF i = off THEN x ELSE s[i]
    BY <2>1, <2>4
  <2> QED BY <2>2, <2>3, <2>5, <2>6 DEF s, t, SameHops
<1>4. ASSUME NEW p \in Counted PROVE PageLinked(p)'
  <2>1. PageLinked(p) /\ p \in Blk
    BY LogOK DEF Chained
  <2>2. EntriesLinked(p)' /\ DiskLinked(p)'
    BY <1>1, <2>1, LogStays DEF PageLinked, DiskLinked, Chained
  <2>3. BufLinked(p)'
    <3>1. ~InOp(p) /\ LinkVersion(wal, did, p, buf[p]) /\ HeadsReach(wal, did, p, buf[p], Len(wal))
      BY <1>1, <2>1 DEF PageLinked, BufLinked, InOp
    <3>2. CASE p = EdgePage
      <4>1. LinkVersion(wal, did, p, buf'[p])
        BY <1>3, <3>1, <3>2, SameLinks
      <4>2. HeadsReach(wal, did, p, buf'[p], Len(wal))
        BY <1>3, <3>1, <3>2 DEF HeadsReach
      <4> QED BY <1>1, <4>1, <4>2 DEF BufLinked
    <3>3. CASE p # EdgePage
      <4>1. buf'[p] = buf[p]
        BY <1>1, <1>2, <3>3
      <4> QED BY <1>1, <3>1, <4>1 DEF BufLinked
    <3> QED BY <3>2, <3>3
  <2> QED BY <2>2, <2>3 DEF PageLinked
<1>5. Rooted(wal') /\ \A f \in did' : LinkNamed(f)'
  BY <1>1 DEF Chained, LinkNamed
<1> QED BY <1>1, <1>4, <1>5 DEF Chained, SectionLinked, Counted

-----------------------------------------------------------------------------
(* Commits, page writes and checkpoints                                    *)

LEMMA CommitLinked == ASSUME Types, Commit, Chained PROVE Chained'
<1> DEFINE n == Len(wal) + 1
           v == wal'
<1>1. /\ wal' = Append(wal, CommitOf(xid))
      /\ mode = "run" /\ op = None
      /\ UNCHANGED <<buf, disk, redoPtr, ckpt, todo, op, mode, pos, did>>
  BY DEF Commit, Running, pages, ckptVars, server
<1>2. wal \in Seq(LogEntry) /\ Len(wal) \in Nat
  BY DEF Types, Log
<1>3. CommitOf(xid) \in LogEntry
  BY DEF CommitOf, LogEntry, Types, Scalars
<1>4. Len(wal') = n /\ wal'[n] = CommitOf(xid) /\ \A k \in 1..Len(wal) : wal'[k] = wal[k]
  BY <1>1, <1>2, <1>3, AppendProperties
<1>5. wal'[n].type = "COMMIT"
  BY <1>4 DEF CommitOf
<1>6. Prefix(wal, wal', Len(wal)) /\ n \in Nat /\ Rooted(wal)
  BY <1>2, <1>4, LogKept DEF Chained
<1> HIDE DEF n, v
<1>7. n = Len(wal) + 1 /\ \A k \in 1..Len(wal') : k \in 1..Len(wal) \/ k = n
  BY <1>2, <1>4, <1>6 DEF n
<1>8. ASSUME NEW p \in Counted PROVE PageLinked(p)'
  <2>1. /\ PageLinked(p) /\ p \in Blk /\ disk[p].lsn <= Len(wal) /\ ckpt <= Len(wal) /\ redoPtr <= Len(wal)
        /\ buf[p].lsn \in Nat /\ buf[p].lsn <= Len(wal)
    BY LogOK DEF Chained
  <2>2. ~InOp(p) /\ ~About(wal'[n], p)
    BY <1>1, <1>5 DEF InOp, About
  <2>3. EntriesLinked(p)'
    <3>1. \A k \in 1..Len(wal) : About(wal'[k], p) =>
              /\ HeadLogged(wal', did', wal'[k], k - 1)
              /\ wal'[k].img # None => LinkVersion(wal', did', p, wal'[k].img)
      BY <1>1, <1>2, <1>4, <1>6, <2>1, EntriesStay DEF PageLinked
    <3> QED BY <1>7, <2>2, <3>1 DEF EntriesLinked
  <2>4. DiskLinked(p)'
    BY <1>1, <1>2, <1>4, <1>6, <2>1, DiskStays DEF PageLinked
  <2>5. BufLinked(p)'
    <3>1. LinkVersion(wal, did, p, buf[p]) /\ HeadsReach(wal, did, p, buf[p], Len(wal))
      BY <1>1, <2>1, <2>2 DEF PageLinked, BufLinked
    <3>2. Prefix(wal, v, Len(wal)) /\ Len(v) = n /\ v[Len(wal) + 1].type = "COMMIT"
      BY <1>4, <1>5, <1>6, <1>7 DEF v
    <3>3. LinkVersion(v, did, p, buf[p]) /\ (p \in NodePage => HeadsBorn(wal, buf[p], Len(wal)))
      BY <1>2, <1>6, <2>1, <3>1, <3>2, PrefixLinks
    <3>4. HeadsReach(v, did, p, buf[p], Len(wal))
      BY <1>2, <1>6, <3>1, <3>2, <3>3, PrefixHeads
    <3>5. HeadsReach(v, did, p, buf[p], Len(wal) + 1)
      BY <1>2, <3>2, <3>4, ReachesNext DEF HeadsReach, IsHead
    <3> QED BY <1>1, <1>7, <3>2, <3>3, <3>5 DEF BufLinked, v
  <2> QED BY <2>3, <2>4, <2>5 DEF PageLinked
<1>9. Rooted(wal')
  <2>1. Len(v) = Len(wal) + 1 /\ ~IsEdge(v[Len(wal) + 1])
    BY <1>4, <1>5, <1>7 DEF v, IsEdge
  <2>2. Prefix(wal, v, Len(wal))
    BY <1>6 DEF v
  <2>3. Rooted(v)
    BY <1>2, <1>6, <2>1, <2>2, RootedNext
  <2> QED BY <2>3 DEF v
<1>10. \A f \in did' : LinkNamed(f)'
  BY <1>1 DEF Chained, LinkNamed
<1> QED BY <1>1, <1>8, <1>9, <1>10 DEF Chained, SectionLinked, Counted

\* A page is written: the file becomes the version in the buffer.
LEMMA WritePageLinked == ASSUME Types, NEW q \in Blk, WritePage(q), Chained PROVE Chained'
<1>1. /\ q \in dirty /\ (op # None => q \notin DOMAIN op.lsn)
      /\ disk' = [disk EXCEPT ![q] = buf[q]]
      /\ todo' = IF todo = None THEN None ELSE todo \ {q}
      /\ UNCHANGED <<buf, wal, redoPtr, ckpt, op, mode, pos>>
  BY WritePageFacts, Zenon
<1>2. did' = did
  BY DEF WritePage
<1>4. disk = [p \in Blk |-> disk[p]]
  BY DEF Types, Pages
<1>5. ASSUME NEW p \in Counted PROVE PageLinked(p)'
  <2>1. /\ PageLinked(p) /\ p \in Blk /\ Len(wal) \in Nat /\ ckpt \in Nat /\ redoPtr \in Nat /\ pos \in Nat
        /\ ckpt <= Len(wal) /\ redoPtr <= Len(wal)
    BY LogOK DEF Chained
  <2>2. EntriesLinked(p)' /\ BufLinked(p)'
    BY <1>1, <1>2, <2>1, LogStays DEF PageLinked, BufLinked, InOp, Chained
  <2>3. CASE p # q
    <3>1. disk'[p] = disk[p] /\ (todo' # None => todo # None /\ (p \in todo' <=> p \in todo))
      BY <1>1, <1>4, <2>1, <2>3
    <3>2. DiskLinked(p)'
      BY <1>1, <1>2, <2>1, <3>1 DEF PageLinked, DiskLinked
    <3> QED BY <2>2, <3>2 DEF PageLinked
  <2>4. CASE p = q
    <3>1. disk'[p] = buf[p] /\ ~InOp(p)
      BY <1>1, <1>4, <2>1, <2>4 DEF InOp
    <3>2. LinkVersion(wal, did, p, buf[p]) /\ HeadsReach(wal, did, p, buf[p], IF mode = "run" THEN Len(wal) ELSE pos)
      BY <2>1, <3>1 DEF PageLinked, BufLinked
    <3>3. mode # "run" => todo = None /\ ckpt <= pos
      BY DEF Types, Points
    <3>4. HeadsReach(wal, did, p, buf[p], ckpt)
      BY <2>1, <3>2, <3>3, FewerHeads
    <3>5. todo # None => HeadsReach(wal, did, p, buf[p], redoPtr)
      BY <2>1, <3>2, <3>3, FewerHeads
    <3>6. DiskLinked(p)'
      BY <1>1, <1>2, <3>1, <3>2, <3>4, <3>5 DEF DiskLinked
    <3> QED BY <2>2, <3>6 DEF PageLinked
  <2> QED BY <2>3, <2>4
<1>6. Rooted(wal') /\ \A f \in did' : LinkNamed(f)'
  BY <1>1, <1>2 DEF Chained, LinkNamed
<1>7. SectionLinked'
  BY <1>1, <1>2 DEF Chained, SectionLinked, NodeInOp, EdgesInOp, PendingLinked, InOp
<1> QED BY <1>1, <1>5, <1>6, <1>7 DEF Chained, Counted

\* A checkpoint begins between critical sections, and ends when all pages that were
\* dirty have been written.
LEMMA CheckpointLinked ==
    ASSUME CheckpointApart, Types, CheckpointBegin \/ CheckpointEnd, Durable, Chained
    PROVE  Chained'
<1>1. UNCHANGED <<buf, disk, dirty, wal, op, mode, pos, did>> /\ mode = "run"
  BY DEF CheckpointBegin, CheckpointEnd, Running, pages, log, client, server
<1>2. ASSUME NEW p \in Counted PROVE PageLinked(p)'
  <2>1. PageLinked(p) /\ Len(wal) \in Nat
    BY LogOK DEF Chained
  <2>2. EntriesLinked(p)' /\ BufLinked(p)'
    BY <1>1, <2>1, LogStays DEF PageLinked, BufLinked, InOp, Chained
  <2>3. CASE CheckpointBegin
    <3>1. /\ redoPtr' = Len(wal) /\ todo' = dirty /\ ckpt' = ckpt /\ op = None
      BY <2>3 DEF CheckpointBegin
    <3>2. HeadsReach(wal, did, p, buf[p], Len(wal))
      BY <1>1, <2>1, <3>1 DEF PageLinked, BufLinked, InOp
    <3>3. p \notin dirty => buf[p] = disk[p]
      BY <3>1 DEF Durable, Lasting, BufOK, InOp
    <3>4. DiskLinked(p)'
      BY <1>1, <2>1, <3>1, <3>2, <3>3 DEF PageLinked, DiskLinked
    <3> QED BY <2>2, <3>4 DEF PageLinked
  <2>4. CASE CheckpointEnd
    <3>1. todo = {} /\ todo' = None /\ ckpt' = redoPtr /\ redoPtr' = redoPtr
      BY <2>4 DEF CheckpointEnd
    <3>2. todo # None
      BY <3>1, NoneAssumption
    <3>3. DiskLinked(p)'
      BY <1>1, <2>1, <3>1, <3>2 DEF PageLinked, DiskLinked
    <3> QED BY <2>2, <3>3 DEF PageLinked
  <2> QED BY <2>3, <2>4
<1>3. Rooted(wal') /\ \A f \in did' : LinkNamed(f)'
  BY <1>1 DEF Chained, LinkNamed
<1>4. SectionLinked'
  BY <1>1 DEF Chained, SectionLinked, NodeInOp, EdgesInOp, PendingLinked, InOp
<1> QED BY <1>2, <1>3, <1>4 DEF Chained, Counted

-----------------------------------------------------------------------------
(* Crash and recovery                                                      *)

\* The file has what the checkpoint says, and no file is newer than the WAL left.
LEMMA CrashLinked == ASSUME Types, NEW n \in 0..Len(wal), Crash(n), Chained PROVE Chained'
<1>1. /\ n >= flushed /\ buf' = disk /\ wal' = SubSeq(wal, 1, n)
      /\ mode' = "redo" /\ pos' = ckpt /\ todo' = None /\ op' = None
      /\ UNCHANGED <<disk, ckpt, did>>
  BY DEF Crash
<1>2. /\ wal \in Seq(LogEntry) /\ Len(wal) \in Nat /\ n \in Nat /\ n <= Len(wal) /\ flushed \in Nat
  BY DEF Types, Log, Points
<1>3. Len(wal') = n /\ \A i \in 1..n : wal'[i] = wal[i]
  <2>1. \A i \in 1..n : wal[i] \in LogEntry
    BY <1>2
  <2> QED BY <1>1, <1>2, <2>1, SubSeqProperties
<1>4. Prefix(wal, wal', n) /\ Rooted(wal)
  BY <1>2, <1>3 DEF Prefix, Chained
<1>5. ASSUME NEW p \in Counted PROVE PageLinked(p)'
  <2>1. PageLinked(p) /\ p \in Blk /\ disk[p].lsn <= n /\ ckpt <= n
    <3>1. /\ PageLinked(p) /\ p \in Blk /\ disk[p].lsn <= flushed /\ ckpt <= flushed
          /\ disk[p].lsn \in Nat /\ ckpt \in Nat
      BY LogOK DEF Chained
    <3> QED BY <1>1, <1>2, <3>1
  <2>2. EntriesLinked(p)'
    <3>1. \A k \in 1..n : About(wal'[k], p) =>
              /\ HeadLogged(wal', did', wal'[k], k - 1)
              /\ wal'[k].img # None => LinkVersion(wal', did', p, wal'[k].img)
      BY <1>1, <1>2, <1>3, <1>4, <2>1, EntriesStay DEF PageLinked
    <3> QED BY <1>3, <3>1 DEF EntriesLinked
  <2>3. DiskLinked(p)'
    BY <1>1, <1>2, <1>3, <1>4, <2>1, DiskStays DEF PageLinked
  <2>4. BufLinked(p)'
    <3>1. LinkVersion(wal', did', p, disk'[p]) /\ HeadsReach(wal', did', p, disk'[p], ckpt')
      BY <2>3 DEF DiskLinked
    <3> QED BY <1>1, <3>1 DEF BufLinked
  <2> QED BY <2>2, <2>3, <2>4 DEF PageLinked
<1>6. Rooted(wal')
  <2> DEFINE v == wal'
  <2>1. Prefix(wal, v, n) /\ Len(v) = n
    BY <1>3, <1>4
  <2> HIDE DEF v
  <2>2. Rooted(v)
    BY <1>2, <1>4, <2>1, PrefixRooted
  <2> QED BY <2>2 DEF v
<1>7. \A f \in did' : LinkNamed(f)'
  BY <1>1 DEF Chained, LinkNamed
<1> QED BY <1>1, <1>5, <1>6, <1>7 DEF Chained, SectionLinked, Counted

\* Redo of a record changes the header in the record, or adds the edge.
LEMMA RedoLinks ==
    ASSUME NEW r, NEW page, Fits(r), PageOK(r.blk, page), ~RedoFails(r, page), NEW n
    PROVE  LET new == [RedoPage(r, page) EXCEPT !.lsn = n]
           IN  /\ new.lsn = n
               /\ \A s \in Slot : new.head[s] = IF r.type = "ADJ_UPDATE" /\ r.off = s THEN r.data
                                                ELSE page.head[s]
               /\ r.blk = EdgePage => \A i \in 1..Len(new.item) :
                     \/ i \in 1..Len(page.item) /\ SameHops(page.item[i], new.item[i])
                     \/ IsEdge(r) /\ r.off = i /\ SameHops(r.data, new.item[i])
<1> DEFINE s == page.item
           new == [RedoPage(r, page) EXCEPT !.lsn = n]
           t == new.item
           p == r.blk
<1>1. p \in NodePage \cup {EdgePage}
  BY DEF Fits
<1>2. page \in Page(p) /\ Len(s) \in Nat /\ s \in Seq(Content(p))
  BY DEF PageOK, Page
<1>3. CASE IsInsert(r)
  <2>1. r.data \in Content(p) /\ r.off = Len(s) + 1
    BY <1>3 DEF IsInsert, Fits, Content, RedoFails
  <2>2. RedoPage(r, page) = [page EXCEPT !.item = Append(@, r.data)] /\ r.type # "ADJ_UPDATE"
    BY <1>3 DEF IsInsert, RedoPage, RedoInsert
  <2>3. t = Append(s, r.data) /\ new.lsn = n /\ new.head = page.head
    BY <1>2, <2>2 DEF Page
  <2>4. p = EdgePage => IsEdge(r)
    BY <1>3 DEF IsInsert, Fits, IsEdge
  <2> HIDE DEF t, s, p, new
  <2>5. Len(t) = Len(s) + 1 /\ t[Len(s) + 1] = r.data /\ \A i \in 1..Len(s) : t[i] = s[i]
    BY <1>2, <2>1, <2>3, AppendProperties
  <2>6. \A i \in 1..Len(t) : i \in 1..Len(s) \/ i = Len(s) + 1
    BY <1>2, <2>5
  <2>7. p = EdgePage => \A i \in 1..Len(t) : \/ i \in 1..Len(s) /\ SameHops(s[i], t[i])
                                             \/ IsEdge(r) /\ r.off = i /\ SameHops(r.data, t[i])
    BY <2>1, <2>4, <2>5, <2>6 DEF SameHops
  <2> QED BY <2>2, <2>3, <2>7 DEF t, s, p, new
<1>4. CASE ~IsInsert(r)
  <2>1. RedoPage(r, page) \in {page, [page EXCEPT !.head[r.off] = r.data], [page EXCEPT !.item[r.off].xmax = r.data]}
    BY <1>4 DEF IsInsert, RedoPage, RedoAdjUpdate, RedoDelete
  <2>2. r.type = "ADJ_UPDATE" => RedoPage(r, page) = [page EXCEPT !.head[r.off] = r.data]
    BY DEF RedoPage, RedoAdjUpdate
  <2>3. r.type # "ADJ_UPDATE" => \/ RedoPage(r, page) = page
                                 \/ /\ RedoPage(r, page) = [page EXCEPT !.item[r.off].xmax = r.data]
                                    /\ r.off \in 1..Len(s)
    BY <1>4 DEF IsInsert, RedoPage, RedoDelete
  <2>4. CASE r.type = "ADJ_UPDATE"
    <3>1. new.lsn = n /\ t = s /\ new.head = [page.head EXCEPT ![r.off] = r.data]
      BY <1>2, <2>2, <2>4 DEF Page
    <3>2. page.head = [k \in Slot |-> page.head[k]]
      BY <1>2 DEF Page
    <3>3. \A k \in Slot : new.head[k] = IF r.off = k THEN r.data ELSE page.head[k]
      BY <3>1, <3>2
    <3> HIDE DEF new, s, t
    <3>4. \A i \in 1..Len(t) : i \in 1..Len(s) /\ SameHops(s[i], t[i])
      BY <3>1 DEF SameHops
    <3> QED BY <2>4, <3>1, <3>3, <3>4 DEF new, s, t
  <2>5. ASSUME r.type # "ADJ_UPDATE", RedoPage(r, page) = page
        PROVE  /\ new.lsn = n /\ \A k \in Slot : new.head[k] = page.head[k]
               /\ \A i \in 1..Len(t) : i \in 1..Len(s) /\ SameHops(s[i], t[i])
    BY <1>2, <2>5 DEF Page, SameHops
  <2>6. ASSUME RedoPage(r, page) = [page EXCEPT !.item[r.off].xmax = r.data], r.off \in 1..Len(s)
        PROVE  /\ new.lsn = n /\ \A k \in Slot : new.head[k] = page.head[k]
               /\ p = EdgePage => \A i \in 1..Len(t) : i \in 1..Len(s) /\ SameHops(s[i], t[i])
    <3> DEFINE y == [s[r.off] EXCEPT !.xmax = r.data]
    <3>1. new.lsn = n /\ new.head = page.head /\ t = [s EXCEPT ![r.off] = y]
      BY <1>2, <2>6 DEF Page
    <3>2. ASSUME p = EdgePage, NEW i \in 1..Len(t) PROVE i \in 1..Len(s) /\ SameHops(s[i], t[i])
      <4>1. s[r.off] \in EdgeItem
        BY <1>2, <2>6, <3>2 DEF Content
      <4>2. SameHops(s[r.off], y)
        BY <4>1 DEF EdgeItem, SameHops
      <4>3. DOMAIN s = 1..Len(s) /\ DOMAIN t = DOMAIN s /\ \A j \in 1..Len(s) : t[j] = IF j = r.off THEN y ELSE s[j]
        BY <1>2, <3>1
      <4>4. Len(t) = Len(s)
        BY <1>2, <3>1, <4>3
      <4> HIDE DEF s, t, y, new
      <4> QED BY <3>2, <4>2, <4>3, <4>4 DEF SameHops
    <3> QED BY <3>1, <3>2
  <2> QED BY <2>3, <2>4, <2>5, <2>6
<1> QED BY <1>3, <1>4

\* A record is replayed: an image, a record that is older than the page, or one that
\* is applied to it.
LEMMA RedoNextLinked ==
    ASSUME Types, RedoNext, \A q \in Counted : Counting(q), Chained
    PROVE  Chained'
<1> DEFINE n == pos + 1
           r == wal[n]
<1>1. /\ mode = "redo" /\ n \in 1..Len(wal) /\ n \in Lsn
      /\ op = None /\ todo = None
      /\ UNCHANGED <<disk, wal, redoPtr, ckpt, todo, op>>
      /\ pos' = n /\ mode' = "redo"
      /\ r.type = "COMMIT" => buf' = buf
      /\ r.type # "COMMIT" =>
            /\ buf' = [q \in Blk |-> Restored(q, n)]
            /\ r.img = None /\ NeedsRedo(n, buf[r.blk]) => ~RedoFails(r, buf[r.blk])
  BY RedoNextFacts, NoFailure, Zenon
<1>2. did' = did
  BY DEF RedoNext
<1>3. ASSUME NEW p \in Counted PROVE PageLinked(p)'
  <2>1. /\ p \in Blk /\ p # OvfPage /\ Len(wal) \in Nat /\ pos \in Nat /\ n = pos + 1 /\ n \in Nat
        /\ buf[p].lsn \in Nat /\ PageOK(p, buf[p]) /\ PageLinked(p) /\ ~InOp(p) /\ buf[p].init
    BY <1>1, LogOK, BufferOK DEF Chained, InOp, Counting, Initialised
  <2>2. LinkVersion(wal, did, p, buf[p]) /\ HeadsReach(wal, did, p, buf[p], pos)
    BY <1>1, <2>1 DEF PageLinked, BufLinked
  <2>3. About(r, p) =>
          /\ HeadLogged(wal, did, r, pos) /\ Fits(r)
          /\ r.img # None => LinkVersion(wal, did, p, r.img) /\ r.img.lsn = n
    <3>1. n - 1 = pos
      BY <2>1
    <3>2. ASSUME About(r, p)
          PROVE  /\ HeadLogged(wal, did, r, n - 1)
                 /\ r.img # None => LinkVersion(wal, did, p, r.img)
      BY <1>1, <2>1, <3>2 DEF PageLinked, EntriesLinked
    <3>3. About(r, p) => Fits(r) /\ (r.img # None => r.img.lsn = n)
      BY <1>1, LogOK
    <3> QED BY <3>1, <3>2, <3>3
  <2> HIDE DEF n, r
  <2>4. wal[n] = r /\ (r.type # "COMMIT" => buf'[p] = Restored(p, n))
    BY <1>1, <2>1 DEF r
  <2> DEFINE Ok == LinkVersion(wal, did, p, buf'[p]) /\ HeadsReach(wal, did, p, buf'[p], n)
  <2>5. ASSUME r.type = "COMMIT" \/ (r.type # "COMMIT" /\ p # r.blk) PROVE Ok
    <3>1. buf'[p] = buf[p] /\ ~IsHead(wal[n], p)
      BY <1>1, <2>1, <2>4, <2>5 DEF Restored, IsHead
    <3>2. HeadsReach(wal, did, p, buf[p], pos + 1)
      BY <2>1, <2>2, <3>1, ReachesNext DEF HeadsReach
    <3> QED BY <2>1, <2>2, <3>1, <3>2
  <2>6. ASSUME About(r, p), r.img # None PROVE Ok
    <3>1. buf'[p] = r.img
      BY <2>4, <2>6 DEF Restored, About
    <3> QED BY <2>3, <2>6, <3>1 DEF LinkVersion
  <2>7. ASSUME About(r, p), r.img = None, ~NeedsRedo(n, buf[p]) PROVE Ok
    <3>1. buf'[p] = buf[p]
      BY <2>4, <2>7 DEF Restored, About
    <3>2. n <= buf[p].lsn
      BY <2>1, <2>7 DEF NeedsRedo
    <3> QED BY <2>1, <2>2, <3>1, <3>2, FewerHeads DEF LinkVersion
  <2>8. ASSUME About(r, p), r.img = None, NeedsRedo(n, buf[p]) PROVE Ok
    <3> DEFINE new == [RedoPage(r, buf[p]) EXCEPT !.lsn = n]
    <3>1. p = r.blk /\ r.type # "COMMIT" /\ ~RedoFails(r, buf[p]) /\ Fits(r) /\ HeadLogged(wal, did, r, pos)
      BY <1>1, <2>3, <2>8 DEF About
    <3>2. buf'[p] = new
      BY <2>4, <2>8, <3>1 DEF Restored
    <3>3. /\ new.lsn = n
          /\ \A s \in Slot : new.head[s] = IF r.type = "ADJ_UPDATE" /\ r.off = s THEN r.data ELSE buf[p].head[s]
          /\ p = EdgePage => \A i \in 1..Len(new.item) :
                \/ i \in 1..Len(buf[p].item) /\ SameHops(buf[p].item[i], new.item[i])
                \/ IsEdge(r) /\ r.off = i /\ SameHops(r.data, new.item[i])
      BY <2>1, <3>1, RedoLinks
    <3> HIDE DEF new
    <3>4. buf[p].lsn <= n /\ pos <= n /\ n \in 1..Len(wal)
      BY <1>1, <2>1, <2>8 DEF NeedsRedo
    <3>5. ASSUME NEW s \in Slot, p \in NodePage
          PROVE  HeadBorn(wal, new.head[s], n) /\ Reaches(wal, <<>>, did, p, s, new.head[s], n)
      <4> DEFINE hd == new.head[s]
      <4>1. HeadBorn(wal, hd, n) /\ Reaches(wal, <<>>, did, p, s, hd, pos)
        <5>1. CASE r.type = "ADJ_UPDATE" /\ r.off = s
          <6>1. HeadBorn(wal, r.data, pos) /\ Reaches(wal, <<>>, did, p, s, r.data, pos)
            BY <3>1, <5>1 DEF HeadLogged
          <6>2. HeadBorn(wal, r.data, n)
            BY <2>1, <3>4, <6>1, BornMore DEF HeadBorn
          <6> QED BY <3>3, <5>1, <6>1, <6>2
        <5>2. CASE ~(r.type = "ADJ_UPDATE" /\ r.off = s)
          <6>1. HeadsBorn(wal, buf[p], n)
            BY <2>1, <2>2, <3>4, <3>5, BornHeads DEF LinkVersion
          <6> QED BY <2>2, <3>3, <3>5, <5>2, <6>1 DEF HeadsBorn, HeadsReach
        <5> QED BY <5>1, <5>2
      <4>2. IsHead(wal[n], p) /\ wal[n].off = s => wal[n].data = hd
        BY <2>4, <3>3 DEF IsHead
      <4> HIDE DEF hd
      <4>3. Reaches(wal, <<>>, did, p, s, hd, pos + 1)
        BY <2>1, <4>1, <4>2, ReachesNext
      <4> QED BY <2>1, <4>1, <4>3 DEF hd
    <3>6. ASSUME p = EdgePage PROVE EdgesKept(wal, new, n)
      <4> SUFFICES ASSUME NEW i \in 1..Len(new.item) PROVE EdgeKept(wal, i, new.item[i], n)
        BY DEF EdgesKept
      <4>1. CASE i \in 1..Len(buf[p].item) /\ SameHops(buf[p].item[i], new.item[i])
        <5>1. EdgeKept(wal, i, buf[p].item[i], buf[p].lsn)
          BY <2>2, <3>6, <4>1 DEF LinkVersion, EdgesKept
        <5>2. EdgeKept(wal, i, buf[p].item[i], n)
          BY <2>1, <3>4, <5>1, KeptMore
        <5> QED BY <4>1, <5>2 DEF EdgeKept, SameHops
      <4>2. CASE IsEdge(r) /\ r.off = i /\ SameHops(r.data, new.item[i])
        <5>1. n \in 1..Len(wal) /\ n <= n
          BY <2>1, <3>4
        <5> QED BY <2>4, <4>2, <5>1 DEF EdgeKept
      <4> QED BY <3>3, <3>6, <4>1, <4>2
    <3>7. HeadsReach(wal, did, p, new, n) /\ (p \in NodePage => HeadsBorn(wal, new, n))
      BY <3>5 DEF HeadsReach, HeadsBorn
    <3> QED BY <3>2, <3>3, <3>6, <3>7 DEF LinkVersion
  <2>9. Ok
    BY <2>5, <2>6, <2>7, <2>8 DEF About
  <2>10. BufLinked(p)'
    BY <1>1, <1>2, <2>9 DEF BufLinked
  <2>11. EntriesLinked(p)' /\ DiskLinked(p)'
    BY <1>1, <1>2, <2>1, LogStays DEF PageLinked, DiskLinked, Chained
  <2> QED BY <2>10, <2>11 DEF PageLinked
<1>4. Rooted(wal') /\ \A f \in did' : LinkNamed(f)'
  BY <1>1, <1>2 DEF Chained, LinkNamed
<1> QED BY <1>1, <1>3, <1>4 DEF Chained, SectionLinked, Counted

\* Recovery ends: all pages are written.
LEMMA RedoEndLinked == ASSUME Types, RedoEnd, Chained PROVE Chained'
<1>1. /\ mode = "redo" /\ pos = Len(wal) /\ mode' = "run"
      /\ disk' = buf /\ ckpt' = Len(wal) /\ redoPtr' = Len(wal)
      /\ UNCHANGED <<buf, wal, todo, op, did>>
  BY DEF RedoEnd, log, client
<1>2. op = None /\ todo = None
  BY <1>1 DEF Types, Points
<1>3. ASSUME NEW p \in Counted PROVE PageLinked(p)'
  <2>1. PageLinked(p) /\ ~InOp(p)
    BY <1>1, <1>2 DEF Chained, InOp
  <2>2. LinkVersion(wal, did, p, buf[p]) /\ HeadsReach(wal, did, p, buf[p], Len(wal))
    BY <1>1, <2>1 DEF PageLinked, BufLinked
  <2>3. EntriesLinked(p)' /\ DiskLinked(p)' /\ BufLinked(p)'
    BY <1>1, <1>2, <2>1, <2>2, LogStays DEF PageLinked, DiskLinked, BufLinked, Chained
  <2> QED BY <2>3 DEF PageLinked
<1>4. Rooted(wal') /\ \A f \in did' : LinkNamed(f)'
  BY <1>1 DEF Chained, LinkNamed
<1> QED BY <1>1, <1>2, <1>3, <1>4 DEF Chained, SectionLinked, Counted

\* Nothing happens.
LEMMA IdleLinked == ASSUME UNCHANGED vars, Chained PROVE Chained'
<1>1. UNCHANGED <<buf, disk, wal, redoPtr, ckpt, todo, op, mode, pos, did>>
  BY DEF vars, pages, log, ckptVars, client, server
<1>2. ASSUME NEW p \in Counted PROVE PageLinked(p)'
  <2>1. PageLinked(p)
    BY DEF Chained
  <2> QED BY <1>1, <2>1, LogStays DEF PageLinked, DiskLinked, BufLinked, InOp, Chained
<1>3. Rooted(wal') /\ \A f \in did' : LinkNamed(f)'
  BY <1>1 DEF Chained, LinkNamed
<1>4. SectionLinked'
  BY <1>1 DEF Chained, SectionLinked, NodeInOp, EdgesInOp, PendingLinked, InOp
<1> QED BY <1>2, <1>3, <1>4 DEF Chained, Counted

\* In the beginning there are no records, no edges and no pointers.
LEMMA InitLinked == Init => Chained
<1> SUFFICES ASSUME Init PROVE Chained
  OBVIOUS
<1>1. Len(wal) = 0 /\ op = None /\ buf = disk /\ todo = None /\ mode = "run" /\ ckpt = 0 /\ did = {}
  BY DEF Init
<1>2. ASSUME NEW p \in Counted PROVE PageLinked(p)
  <2>1. p \in Blk /\ p # OvfPage
    BY CountedPages
  <2>2. disk[p].head = [s \in Slot |-> NoEdges] /\ (p = EdgePage => disk[p].item = <<>>)
    BY <2>1 DEF Init, Counted, ZeroPage
  <2>3. \A m : HeadsBorn(wal, disk[p], m)
    BY <2>2 DEF HeadsBorn, HeadBorn, Born, End, NoEdges
  <2>4. \A m : HeadsReach(wal, did, p, disk[p], m)
    BY <1>1 DEF HeadsReach, Reaches
  <2>5. \A m : p = EdgePage => EdgesKept(wal, disk[p], m)
    BY <2>2 DEF EdgesKept
  <2>6. LinkVersion(wal, did, p, disk[p])
    BY <2>3, <2>4, <2>5 DEF LinkVersion
  <2> QED BY <1>1, <2>4, <2>6 DEF PageLinked, EntriesLinked, DiskLinked, BufLinked
<1>3. Rooted(wal)
  BY <1>1 DEF Rooted
<1> QED BY <1>1, <1>2, <1>3 DEF Chained, SectionLinked

-----------------------------------------------------------------------------
(* What the operations do to pointers                                      *)

\* A section of one page whose records say nothing of edges and headers: the
\* pointers of the page stay, or headers are cleared.
KeepsLinks(new, records, facts, p) ==
    /\ DOMAIN new \subseteq {p, OvfPage} /\ p \in DOMAIN new /\ 1 \in 1..Len(records)
    /\ \A j \in 1..Len(records) : /\ records[j].blk = p /\ records[j].stamp
                                  /\ ~IsEdge(records[j]) /\ records[j].type # "ADJ_UPDATE"
    /\ \A f \in facts : f.kind # "link"
    /\ \A s \in Slot : \/ new[p].head[s] = buf[p].head[s]
                       \/ new[p].head[s] = NoEdges /\ Cleared(did \cup facts, p, s)
    /\ p = EdgePage => \A i \in 1..Len(new[p].item) :
          i \in 1..Len(buf[p].item) /\ SameHops(buf[p].item[i], new[p].item[i])

LEMMA LinksKept ==
    ASSUME NEW new, NEW records, NEW facts, NEW p \in Counted,
           Enter(new, records, facts), KeepsLinks(new, records, facts, p)
    PROVE  LinkChanges
<1> USE DEF KeepsLinks
<1>1. op'.todo = records /\ DOMAIN op'.lsn = DOMAIN new /\ did' = did \cup facts /\ buf'[p] = new[p]
  BY EnterResult, CountedPages
<1>2. \A q \in Counted : q \in DOMAIN new => q = p
  BY CountedPages
<1>3. \A j \in 1..Len(op'.todo) : LinkRecord(op'.todo[j], j)
  BY <1>1 DEF LinkRecord
<1>4. WillStamp(op'.todo, p)
  BY <1>1 DEF WillStamp
<1>5. ASSUME NEW s \in Slot PROVE HeadMoves(op'.todo, did', p, s, buf[p].head[s], buf'[p].head[s])
  <2>1. CASE new[p].head[s] = buf[p].head[s]
    BY <1>1, <2>1 DEF HeadMoves
  <2>2. CASE new[p].head[s] = NoEdges /\ Cleared(did \cup facts, p, s)
    <3>1. Cleared(did', p, s) /\ \A dir \in Dir : End(buf'[p].head[s], dir) = 0
      BY <1>1, <2>2 DEF End, NoEdges
    <3> QED BY <3>1 DEF HeadMoves
  <2> QED BY <2>1, <2>2
<1>6. NodePage \subseteq Counted /\ EdgePage \in Counted
  BY DEF Counted
<1>7. \A f \in did' \ did : LinkNamed(f)
  BY <1>1 DEF LinkNamed
<1>8. EdgePage \in DOMAIN op'.lsn => \A i \in 1..Len(buf'[EdgePage].item) :
          i \in 1..Len(buf[EdgePage].item) /\ SameHops(buf[EdgePage].item[i], buf'[EdgePage].item[i])
  BY <1>1, <1>2, <1>6
<1>9. \A q \in NodePage : q \in DOMAIN op'.lsn =>
          /\ WillStamp(op'.todo, q)
          /\ \A s \in Slot : HeadMoves(op'.todo, did', q, s, buf[q].head[s], buf'[q].head[s])
  BY <1>1, <1>2, <1>4, <1>5, <1>6
<1>10. did \subseteq did'
  BY <1>1
<1> QED BY <1>3, <1>7, <1>8, <1>9, <1>10 DEF LinkChanges

LEMMA InsertNodeLinks ==
    ASSUME Types, NEW p \in NodePage, NEW big \in BOOLEAN, InsertNode(p, big)
    PROVE  LinkChanges
<1> DEFINE off == Len(buf[p].item) + 1
           i == [id |-> lastId + 1, slot |-> off, xmax |-> 0, big |-> big, lp |-> "normal"]
           page == [buf[p] EXCEPT !.item = Append(@, i)]
           ovf == [ZeroPage EXCEPT !.init = TRUE, !.item = <<i.id>>]
           new == IF big THEN [q \in {p, OvfPage} |-> IF q = p THEN page ELSE ovf] ELSE On(p, page)
           r == NodeRecord(p, off, i)
           records == <<r>>
           facts == {Added(p, off, i)}
<1>1. Enter(new, records, facts)
  BY DEF InsertNode
<1>2. p \in Counted /\ p # EdgePage /\ p # OvfPage /\ buf[p] \in Page(p)
  BY CountedPages, BufferOK DEF Counted
<1>3. DOMAIN new \subseteq {p, OvfPage} /\ p \in DOMAIN new /\ new[p] = page
  BY <1>2 DEF On
<1> HIDE DEF i, off
<1>4. page.head = buf[p].head
  BY <1>2 DEF Page
<1>5. r.blk = p /\ r.stamp /\ ~IsEdge(r) /\ r.type # "ADJ_UPDATE"
  <2> DEFINE plain == [type |-> "NODE_INSERT", blk |-> p, off |-> off, data |-> LoggedItem(i),
                       stamp |-> TRUE, force |-> FALSE, ovf |-> FALSE]
  <2>1. r = [plain EXCEPT !.ovf = i.big]
    BY DEF NodeRecord, Record
  <2> QED BY <2>1 DEF IsEdge
<1>6. \A f \in facts : f.kind # "link"
  BY DEF Added
<1> HIDE DEF page, ovf, new, r, facts
<1>7. 1 \in 1..Len(records) /\ \A j \in 1..Len(records) : records[j] = r
  OBVIOUS
<1> HIDE DEF records
<1>8. \A j \in 1..Len(records) : /\ records[j].blk = p /\ records[j].stamp
                                 /\ ~IsEdge(records[j]) /\ records[j].type # "ADJ_UPDATE"
  BY <1>5, <1>7
<1>9. \A s \in Slot : \/ new[p].head[s] = buf[p].head[s]
                      \/ new[p].head[s] = NoEdges /\ Cleared(did \cup facts, p, s)
  BY <1>3, <1>4
<1>10. p = EdgePage => \A k \in 1..Len(new[p].item) :
          k \in 1..Len(buf[p].item) /\ SameHops(buf[p].item[k], new[p].item[k])
  BY <1>2
<1>11. KeepsLinks(new, records, facts, p)
  BY <1>3, <1>6, <1>7, <1>8, <1>9, <1>10 DEF KeepsLinks
<1>12. p \in Counted
  BY CountedPages DEF Counted
<1> HIDE DEF new, records, facts
<1> QED BY <1>1, <1>11, <1>12, LinksKept

\* delete_node_by_id, delete_edge, and the first half of an update that moves the
\* node.
LEMMA KillLinks ==
    ASSUME Types, NEW p \in Counted, NEW off \in Items(p),
           NEW type \in {"NODE_DELETE", "EDGE_DELETE"},
           Enter(On(p, [buf[p] EXCEPT !.item[off].xmax = xid]),
                 <<Record(type, p, off, xid)>>, {Deleted(p, off)})
    PROVE  LinkChanges
<1> DEFINE s == buf[p].item
           y == [s[off] EXCEPT !.xmax = xid]
           t == [s EXCEPT ![off] = y]
           page == [buf[p] EXCEPT !.item[off].xmax = xid]
           new == On(p, page)
           r == Record(type, p, off, xid)
           records == <<r>>
           facts == {Deleted(p, off)}
<1>1. Enter(new, records, facts)
  OBVIOUS
<1>2. p # OvfPage /\ buf[p] \in Page(p) /\ s \in Seq(Content(p)) /\ off \in 1..Len(s) /\ s[off] \in Content(p)
  BY CountedPages, BufferOK, ItemInUse DEF Counted
<1>3. page.head = buf[p].head /\ page.item = t
  BY <1>2 DEF Page
<1>4. ASSUME p = EdgePage, NEW i \in 1..Len(t) PROVE i \in 1..Len(s) /\ SameHops(s[i], t[i])
  <2>1. s[off] \in EdgeItem
    BY <1>2, <1>4 DEF Content
  <2>2. SameHops(s[off], y)
    BY <2>1 DEF EdgeItem, SameHops
  <2>3. DOMAIN s = 1..Len(s) /\ DOMAIN t = DOMAIN s /\ \A j \in 1..Len(s) : t[j] = IF j = off THEN y ELSE s[j]
    BY <1>2
  <2>4. Len(t) = Len(s)
    BY <1>2, <2>3
  <2> HIDE DEF s, t, y
  <2> QED BY <1>4, <2>2, <2>3, <2>4 DEF SameHops
<1>5. DOMAIN new = {p} /\ new[p] = page
  BY DEF On
<1>6. r.blk = p /\ r.stamp /\ ~IsEdge(r) /\ r.type # "ADJ_UPDATE"
  BY DEF Record, IsEdge
<1>7. \A f \in facts : f.kind # "link"
  BY DEF Deleted
<1> HIDE DEF t, y, page, new, r, facts
<1>8. 1 \in 1..Len(records) /\ \A j \in 1..Len(records) : records[j] = r
  OBVIOUS
<1> HIDE DEF records
<1>9. \A j \in 1..Len(records) : /\ records[j].blk = p /\ records[j].stamp
                                 /\ ~IsEdge(records[j]) /\ records[j].type # "ADJ_UPDATE"
  BY <1>6, <1>8
<1>10. \A k \in Slot : \/ new[p].head[k] = buf[p].head[k]
                       \/ new[p].head[k] = NoEdges /\ Cleared(did \cup facts, p, k)
  BY <1>3, <1>5
<1>11. p = EdgePage => \A i \in 1..Len(new[p].item) :
          i \in 1..Len(buf[p].item) /\ SameHops(buf[p].item[i], new[p].item[i])
  BY <1>3, <1>4, <1>5 DEF s
<1>12. DOMAIN new \subseteq {p, OvfPage} /\ p \in DOMAIN new
  BY <1>5
<1> HIDE DEF s
<1>13. KeepsLinks(new, records, facts, p)
  BY <1>7, <1>8, <1>9, <1>10, <1>11, <1>12 DEF KeepsLinks
<1>14. p \in Counted
  BY CountedPages DEF Counted
<1> HIDE DEF new, records, facts
<1> QED BY <1>1, <1>13, <1>14, LinksKept

LEMMA UpdateNodeLinks ==
    ASSUME Types, NEW p \in NodePage, NEW off \in Items(p), UpdateNode(p, off)
    PROVE  LinkChanges
<1> DEFINE s == buf[p].item
           n == Len(s) + 1
           i == [s[off] EXCEPT !.big = FALSE]
           t == [s EXCEPT ![off].xmax = xid]
           page == [buf[p] EXCEPT !.item = Append(t, i)]
           new == On(p, page)
           r == Record("NODE_DELETE", p, off, xid)
           e == Record("NODE_INSERT", p, n, i)
           records == <<r, e>>
           facts == {Deleted(p, off), Added(p, n, i)}
<1>1. Enter(new, records, facts)
  BY DEF UpdateNode, UpdateRecords
<1>2. p \in Counted /\ p # EdgePage /\ buf[p] \in Page(p)
  BY CountedPages, BufferOK DEF Counted
<1> HIDE DEF t, i, n
<1>3. page.head = buf[p].head
  BY <1>2 DEF Page
<1>4. DOMAIN new = {p} /\ new[p] = page
  BY DEF On
<1>5. /\ r.blk = p /\ r.stamp /\ ~IsEdge(r) /\ r.type # "ADJ_UPDATE"
      /\ e.blk = p /\ e.stamp /\ ~IsEdge(e) /\ e.type # "ADJ_UPDATE"
  BY DEF Record, IsEdge
<1>6. \A f \in facts : f.kind # "link"
  BY DEF Deleted, Added
<1> HIDE DEF s, page, new, r, e, facts
<1>7. 1 \in 1..Len(records) /\ \A j \in 1..Len(records) : records[j] = r \/ records[j] = e
  <2>1. Len(records) = 2 /\ records[1] = r /\ records[2] = e
    OBVIOUS
  <2>2. \A j \in 1..2 : j = 1 \/ j = 2
    OBVIOUS
  <2> HIDE DEF records
  <2> QED BY <2>1, <2>2
<1> HIDE DEF records
<1>8. \A j \in 1..Len(records) : /\ records[j].blk = p /\ records[j].stamp
                                 /\ ~IsEdge(records[j]) /\ records[j].type # "ADJ_UPDATE"
  BY <1>5, <1>7
<1>9. \A k \in Slot : \/ new[p].head[k] = buf[p].head[k]
                      \/ new[p].head[k] = NoEdges /\ Cleared(did \cup facts, p, k)
  BY <1>3, <1>4
<1>10. p = EdgePage => \A k \in 1..Len(new[p].item) :
          k \in 1..Len(buf[p].item) /\ SameHops(buf[p].item[k], new[p].item[k])
  BY <1>2
<1>11. DOMAIN new \subseteq {p, OvfPage} /\ p \in DOMAIN new
  BY <1>4
<1>12. KeepsLinks(new, records, facts, p)
  BY <1>6, <1>7, <1>8, <1>9, <1>10, <1>11 DEF KeepsLinks
<1>13. p \in Counted
  BY CountedPages DEF Counted
<1> HIDE DEF new, records, facts
<1> QED BY <1>1, <1>12, <1>13, LinksKept

LEMMA MovePutLinks == ASSUME Types, NEW p \in NodePage, MovePut(p) PROVE LinkChanges
<1> DEFINE off == Len(buf[p].item) + 1
           page == [buf[p] EXCEPT !.item = Append(@, moving)]
           new == On(p, page)
           r == Record("NODE_INSERT", p, off, moving)
           records == <<r>>
           facts == {Added(p, off, moving)}
<1>1. Enter(new, records, facts)
  BY DEF MovePut
<1>2. p \in Counted /\ p # EdgePage /\ buf[p] \in Page(p)
  BY CountedPages, BufferOK DEF Counted
<1>3. page.head = buf[p].head
  BY <1>2 DEF Page
<1>4. DOMAIN new = {p} /\ new[p] = page
  BY DEF On
<1>5. r.blk = p /\ r.stamp /\ ~IsEdge(r) /\ r.type # "ADJ_UPDATE"
  BY DEF Record, IsEdge
<1>6. \A f \in facts : f.kind # "link"
  BY DEF Added
<1> HIDE DEF page, new, r, facts
<1>7. 1 \in 1..Len(records) /\ \A j \in 1..Len(records) : records[j] = r
  OBVIOUS
<1> HIDE DEF records
<1>8. \A j \in 1..Len(records) : /\ records[j].blk = p /\ records[j].stamp
                                 /\ ~IsEdge(records[j]) /\ records[j].type # "ADJ_UPDATE"
  BY <1>5, <1>7
<1>9. \A s \in Slot : \/ new[p].head[s] = buf[p].head[s]
                      \/ new[p].head[s] = NoEdges /\ Cleared(did \cup facts, p, s)
  BY <1>3, <1>4
<1>10. p = EdgePage => \A i \in 1..Len(new[p].item) :
          i \in 1..Len(buf[p].item) /\ SameHops(buf[p].item[i], new[p].item[i])
  BY <1>2
<1>11. DOMAIN new \subseteq {p, OvfPage} /\ p \in DOMAIN new
  BY <1>4
<1>12. KeepsLinks(new, records, facts, p)
  BY <1>6, <1>7, <1>8, <1>9, <1>10, <1>11 DEF KeepsLinks
<1>13. p \in Counted
  BY CountedPages DEF Counted
<1> HIDE DEF new, records, facts
<1> QED BY <1>1, <1>12, <1>13, LinksKept

\* compact_node_page clears headers.
LEMMA VacuumLinks == ASSUME Types, NEW p \in NodePage, VacuumPage(p) PROVE LinkChanges
<1> DEFINE dead == {i \in Items(p) : LET x == buf[p].item[i].xmax
                                     IN  /\ buf[p].item[i].lp = "normal"
                                         /\ x # 0 /\ x < xid /\ Committed(x)}
           slots == {buf[p].item[i].slot : i \in dead}
           t == [i \in Items(p) |-> IF i \in dead THEN [buf[p].item[i] EXCEPT !.lp = "dead"] ELSE buf[p].item[i]]
           hd == [k \in Slot |-> IF k \in slots THEN NoEdges ELSE buf[p].head[k]]
           page == [buf[p] EXCEPT !.item = t, !.head = hd]
           new == On(p, page)
           r == [Record("NODE_COMPACT", p, 0, 0) EXCEPT !.force = TRUE]
           records == <<r>>
           facts == {[kind |-> "cleared", hdr |-> <<p, k>>] : k \in slots}
<1>1. Enter(new, records, facts)
  BY DEF VacuumPage
<1>2. p \in Counted /\ p # EdgePage /\ buf[p] \in Page(p)
  BY CountedPages, BufferOK DEF Counted
<1>3. r.blk = p /\ r.stamp /\ ~IsEdge(r) /\ r.type # "ADJ_UPDATE"
  <2> DEFINE plain == [type |-> "NODE_COMPACT", blk |-> p, off |-> 0, data |-> 0,
                       stamp |-> TRUE, force |-> FALSE, ovf |-> FALSE]
  <2>1. r = [plain EXCEPT !.force = TRUE]
    BY DEF Record
  <2> QED BY <2>1 DEF IsEdge
<1>4. \A f \in facts : f.kind # "link"
  OBVIOUS
<1>5. DOMAIN new = {p} /\ new[p] = page
  BY DEF On
<1>6. page.head = hd
  <2> HIDE DEF t, hd
  <2> QED BY <1>2 DEF Page
<1> HIDE DEF slots, dead, t, page, new, r
<1>7. ASSUME NEW k \in Slot
      PROVE  hd[k] = buf[p].head[k] \/ (hd[k] = NoEdges /\ Cleared(did \cup facts, p, k))
  <2>1. CASE k \in slots
    <3> DEFINE g == [kind |-> "cleared", hdr |-> <<p, k>>]
    <3>1. g \in facts /\ g.kind = "cleared" /\ g.hdr = <<p, k>>
      BY <2>1
    <3> HIDE DEF g, facts
    <3>2. Cleared(did \cup facts, p, k)
      BY <3>1 DEF Cleared
    <3> QED BY <2>1, <3>2
  <2>2. CASE k \notin slots
    BY <2>2
  <2> QED BY <2>1, <2>2
<1> HIDE DEF hd, facts
<1>8. 1 \in 1..Len(records) /\ \A j \in 1..Len(records) : records[j] = r
  OBVIOUS
<1> HIDE DEF records
<1>9. \A j \in 1..Len(records) : /\ records[j].blk = p /\ records[j].stamp
                                 /\ ~IsEdge(records[j]) /\ records[j].type # "ADJ_UPDATE"
  BY <1>3, <1>8
<1>10. \A s \in Slot : \/ new[p].head[s] = buf[p].head[s]
                       \/ new[p].head[s] = NoEdges /\ Cleared(did \cup facts, p, s)
  BY <1>5, <1>6, <1>7
<1>11. p = EdgePage => \A i \in 1..Len(new[p].item) :
          i \in 1..Len(buf[p].item) /\ SameHops(buf[p].item[i], new[p].item[i])
  BY <1>2
<1>12. DOMAIN new \subseteq {p, OvfPage} /\ p \in DOMAIN new
  BY <1>5
<1>13. KeepsLinks(new, records, facts, p)
  BY <1>4, <1>8, <1>9, <1>10, <1>11, <1>12 DEF KeepsLinks
<1>14. p \in Counted
  BY CountedPages DEF Counted
<1> HIDE DEF new, records, facts
<1> QED BY <1>1, <1>13, <1>14, LinksKept

\* insert_edge: the new edge has the headers' edges after it, and the headers get the
\* edge.
LEMMA InsertEdgeMoves ==
    ASSUME Types, NEW a \in LiveNode, NEW c \in LiveNode, InsertEdge(a, c)
    PROVE  LinkChanges
<1> DEFINE e == Len(buf[EdgePage].item) + 1
           records == op'.todo
<1>1. PICK s \in HdrAddr, t \in HdrAddr, i \in EdgeItem : InsertsEdge(s, t, i)
  BY InsertEdgeShape
<1>2. s[1] \in NodePage /\ s[2] \in Slot /\ s = <<s[1], s[2]>> /\ t[1] \in NodePage /\ t[2] \in Slot /\ t = <<t[1], t[2]>>
  BY DEF HdrAddr
<1>3. /\ e \in Slot /\ i.nextOut = buf[s[1]].head[s[2]].out /\ i.nextIn = buf[t[1]].head[t[2]].in
      /\ DOMAIN op'.lsn = {s[1], t[1], EdgePage}
      /\ buf'[EdgePage].item = Append(buf[EdgePage].item, i)
      /\ did' = did \cup {Added(EdgePage, e, i), Linked(s, "out", e), Linked(t, "in", e)}
  BY <1>1 DEF InsertsEdge
<1>4. \A p \in NodePage, k \in Slot :
          /\ buf'[p].head[k].out = IF <<p, k>> = s THEN e ELSE buf[p].head[k].out
          /\ buf'[p].head[k].in  = IF <<p, k>> = t THEN e ELSE buf[p].head[k].in
  BY <1>1 DEF InsertsEdge
<1>5. /\ Len(records) \in 2..3
      /\ records[1].type = "EDGE_INSERT" /\ records[1].off = e /\ records[1].data = i /\ records[1].stamp
      /\ \A k \in 1..Len(records) : k # 1 =>
            /\ records[k].type = "ADJ_UPDATE"
            /\ records[k].data = buf'[records[k].blk].head[records[k].off]
      /\ \A p \in {s[1], t[1]} : \E k \in 1..Len(records) :
            records[k].blk = p /\ records[k].stamp
  BY <1>1 DEF InsertsEdge
<1>6. EdgePage \in Blk /\ Len(buf[EdgePage].item) \in Nat /\ buf[EdgePage].item \in Seq(EdgeItem) /\ EdgePage \notin NodePage
  <2>1. EdgePage \in Blk /\ Content(EdgePage) = EdgeItem
    BY DEF Blk, Content
  <2> QED BY <2>1, BufferOK
<1> HIDE DEF records
<1>7. 1 \in 1..Len(records) /\ IsEdge(records[1])
  BY <1>5 DEF IsEdge
<1>8. ASSUME NEW j \in 1..Len(records) PROVE LinkRecord(records[j], j)
  <2> DEFINE r == records[j]
  <2>1. IsEdge(r) => j = 1
    BY <1>5 DEF IsEdge
  <2>2. r.type = "ADJ_UPDATE" => j # 1
    BY <1>5
  <2>3. \A dir \in Dir : \E p \in NodePage, k \in Slot : NextOf(i, dir) = End(buf[p].head[k], dir)
    BY <1>2, <1>3 DEF Dir, NextOf, End
  <2> HIDE DEF e
  <2>4. IsEdge(r) => /\ j = 1 /\ r.stamp /\ r.off = e
                     /\ \A dir \in Dir : \E p \in NodePage, k \in Slot : NextOf(r.data, dir) = End(buf[p].head[k], dir)
    BY <1>5, <2>1, <2>3
  <2>5. r.type = "ADJ_UPDATE" => r.data = buf'[r.blk].head[r.off]
    BY <1>5, <2>2
  <2> QED BY <2>4, <2>5 DEF LinkRecord, e
<1>9. ASSUME NEW p \in NodePage, p \in DOMAIN op'.lsn PROVE WillStamp(records, p)
  <2>1. p \in {s[1], t[1]}
    BY <1>3, <1>6, <1>9
  <2> QED BY <1>5, <2>1 DEF WillStamp
<1>10. ASSUME NEW p \in NodePage, NEW k \in Slot
       PROVE  HeadMoves(records, did', p, k, buf[p].head[k], buf'[p].head[k])
  <2> DEFINE new == buf'[p].head[k]
             old == buf[p].head[k]
  <2>1. ASSUME NEW dir \in Dir
        PROVE  \/ End(new, dir) = End(old, dir)
               \/ \E j \in 1..Len(records) : /\ IsEdge(records[j]) /\ End(new, dir) = records[j].off
                                             /\ NextOf(records[j].data, dir) = End(old, dir)
    <3>1. new.out = (IF <<p, k>> = s THEN e ELSE old.out) /\ new.in = (IF <<p, k>> = t THEN e ELSE old.in)
      BY <1>4
    <3>2. (<<p, k>> = s => i.nextOut = old.out) /\ (<<p, k>> = t => i.nextIn = old.in)
      BY <1>2, <1>3
    <3> HIDE DEF new, old, e
    <3>3. \/ End(new, dir) = End(old, dir)
          \/ End(new, dir) = e /\ NextOf(i, dir) = End(old, dir)
      BY <3>1, <3>2 DEF Dir, End, NextOf
    <3> QED BY <1>5, <1>7, <3>3
  <2> HIDE DEF new, old
  <2>2. HeadMoves(records, did', p, k, old, new)
    BY <2>1 DEF HeadMoves
  <2> QED BY <2>2 DEF new, old
<1>11. ASSUME NEW j \in 1..Len(buf'[EdgePage].item)
       PROVE  \/ j \in 1..Len(buf[EdgePage].item) /\ SameHops(buf[EdgePage].item[j], buf'[EdgePage].item[j])
              \/ \E k \in 1..Len(records) : /\ IsEdge(records[k]) /\ records[k].off = j
                                            /\ SameHops(records[k].data, buf'[EdgePage].item[j])
  <2> DEFINE g == buf[EdgePage].item
             u == buf'[EdgePage].item
  <2>1. Len(u) = Len(g) + 1 /\ u[Len(g) + 1] = i /\ \A k \in 1..Len(g) : u[k] = g[k]
    BY <1>3, <1>6, AppendProperties
  <2>2. Len(g) \in Nat
    BY <1>6
  <2>3. e = Len(g) + 1
    OBVIOUS
  <2> HIDE DEF g, u
  <2>4. j \in 1..Len(g) \/ j = e
    BY <2>1, <2>2, <2>3 DEF u
  <2>5. CASE j \in 1..Len(g)
    BY <2>1, <2>5 DEF SameHops, g, u
  <2>6. CASE j = e
    <3>1. SameHops(records[1].data, u[j])
      BY <1>5, <2>1, <2>3, <2>6 DEF SameHops
    <3> HIDE DEF e
    <3> QED BY <1>5, <1>7, <2>6, <3>1 DEF u
  <2> QED BY <2>4, <2>5, <2>6
<1>12. ASSUME NEW f \in did' \ did PROVE LinkNamed(f)
  <2>1. e # 0
    BY <1>3 DEF Slot
  <2> HIDE DEF e
  <2>2. f \in {Added(EdgePage, e, i), Linked(s, "out", e), Linked(t, "in", e)}
    BY <1>3
  <2>3. CASE f = Added(EdgePage, e, i)
    BY <2>3 DEF Added, LinkNamed
  <2>4. CASE f = Linked(s, "out", e)
    <3>1. f.hdr = s /\ f.dir = "out" /\ f.off = e
      BY <2>4 DEF Linked
    <3> QED BY <2>1, <3>1 DEF LinkNamed, Dir
  <2>5. CASE f = Linked(t, "in", e)
    <3>1. f.hdr = t /\ f.dir = "in" /\ f.off = e
      BY <2>5 DEF Linked
    <3> QED BY <2>1, <3>1 DEF LinkNamed, Dir
  <2> QED BY <2>2, <2>3, <2>4, <2>5
<1>13. did \subseteq did'
  BY <1>3
<1> HIDE DEF e
<1> QED BY <1>8, <1>9, <1>10, <1>11, <1>12, <1>13 DEF LinkChanges, records

\* A step of the writer, update_edge_props apart, moves pointers and logs it.
LEMMA WriteLinks ==
    ASSUME Types, Write
    PROVE  LinkChanges \/ \E off \in Items(EdgePage) : UpdateProps(off)
<1>1. EdgePage \in Counted /\ NodePage \subseteq Counted
  BY DEF Counted
<1>2. ASSUME NEW a \in LiveNode, DeleteNode(a[1], a[2]) \/ UpdateNode(a[1], a[2]) \/ MoveNode(a[1], a[2])
      PROVE  LinkChanges
  <2>1. a[1] \in NodePage /\ a[2] \in Items(a[1]) /\ a[1] \in Counted
    BY <1>1, LiveNodeOK
  <2>2. CASE DeleteNode(a[1], a[2])
    BY <2>1, <2>2, KillLinks DEF DeleteNode
  <2>3. CASE UpdateNode(a[1], a[2])
    BY <2>1, <2>3, UpdateNodeLinks
  <2>4. CASE MoveNode(a[1], a[2])
    BY <2>1, <2>4, KillLinks DEF MoveNode
  <2> QED BY <1>2, <2>2, <2>3, <2>4
<1>3. ASSUME NEW off \in Items(EdgePage), DeleteEdge(off) PROVE LinkChanges
  BY <1>1, <1>3, KillLinks DEF DeleteEdge
<1> QED BY <1>2, <1>3, InsertNodeLinks, MovePutLinks, VacuumLinks, InsertEdgeMoves DEF Write

LEMMA NextLinked ==
    ASSUME CheckpointApart, Replayable, Durable, Chained, [Next]_vars
    PROVE  Chained'
<1>1. Types /\ Rest /\ \A p \in Counted : Counting(p)
  BY DEF Replayable
<1>2. ASSUME Write PROVE Chained'
  <2>1. ASSUME NEW off \in Items(EdgePage), UpdateProps(off) PROVE Chained'
    BY <1>1, <2>1, UpdatePropsLinked
  <2>2. ASSUME Begins, LinkChanges PROVE Chained'
    <3>1. PICK new, records, facts : Enter(new, records, facts) /\ Section(new, records)
      BY <2>2 DEF Begins
    <3> QED BY <1>1, <2>2, <3>1, EnterLinked
  <2> QED BY <1>1, <1>2, <2>1, <2>2, WriteBegins, WriteLinks
<1>3. ASSUME NEW q \in Blk, WritePage(q) PROVE Chained'
  BY <1>1, <1>3, WritePageLinked
<1>4. ASSUME NEW n \in 0..Len(wal), Crash(n) PROVE Chained'
  BY <1>1, <1>4, CrashLinked
<1>5. (LogNext => Chained') /\ (OpEnd => Chained') /\ (Commit => Chained')
  BY <1>1, LogNextLinked, OpEndLinked, CommitLinked
<1>6. CheckpointBegin \/ CheckpointEnd => Chained'
  BY <1>1, CheckpointLinked
<1>7. (RedoNext => Chained') /\ (RedoEnd => Chained')
  BY <1>1, RedoNextLinked, RedoEndLinked
<1>8. UNCHANGED vars => Chained'
  BY IdleLinked
<1> QED BY <1>2, <1>3, <1>4, <1>5, <1>6, <1>7, <1>8 DEF Next

-----------------------------------------------------------------------------
(* What a walk meets                                                       *)

\* The walk from a pointer, one edge further each time.
Further(X, it, dir) == X \cup {NextOf(it[e], dir) : e \in X \cap (1..Len(it))}
Met(it, a, dir) ==
    CHOOSE met : met = [k \in 0..Cap |->
        IF k = 0 THEN {a}
        ELSE met[k - 1] \cup {NextOf(it[e], dir) : e \in met[k - 1] \cap (1..Len(it))}]
StepByStep(met, it, a, dir) ==
    met[0] = {a} /\ \A k \in Nat : k + 1 <= Cap => met[k + 1] = Further(met[k], it, dir)
Walks(met, it, a, dir, n) ==
    met = [k \in 0..n |-> IF k = 0 THEN {a}
                          ELSE met[k - 1] \cup {NextOf(it[e], dir) : e \in met[k - 1] \cap (1..Len(it))}]

\* Every nonempty set of natural numbers has a least element, and what holds of 0 and,
\* if of a number, of the next one, holds of all.
LEMMA LeastNat ==
    ASSUME NEW T \in SUBSET Nat, T # {}
    PROVE  \E x \in T : \A y \in T : x <= y
<1> DEFINE R == OpToRel(<, Nat)
<1>1. \A a, b \in Nat : <<a, b>> \in R <=> a < b
  BY DEF OpToRel
<1> HIDE DEF R
<1>2. PICK x \in T : \A y \in T : ~(<<y, x>> \in R)
  <2>1. IsWellFoundedOn(R, Nat)
    BY NatLessThanWellFounded DEF R
  <2> QED BY <2>1, WFMin, Zenon
<1>3. ASSUME NEW y \in T PROVE x <= y
  <2>1. x \in Nat /\ y \in Nat
    OBVIOUS
  <2>2. ~(y < x)
    BY <1>1, <1>2, <2>1, Zenon
  <2> QED BY <2>1, <2>2
<1> QED BY <1>3

LEMMA EveryNat ==
    ASSUME NEW S, 0 \in S, \A n \in Nat : n \in S => n + 1 \in S
    PROVE  \A n \in Nat : n \in S
<1> DEFINE T == {n \in Nat : n \notin S}
<1> SUFFICES ASSUME T # {} PROVE FALSE
  OBVIOUS
<1>1. PICK x \in T : \A y \in T : x <= y
  <2>1. T \in SUBSET Nat
    OBVIOUS
  <2> HIDE DEF T
  <2> QED BY <2>1, LeastNat
<1>2. x \in Nat /\ x \notin S /\ x # 0
  BY <1>1
<1>3. x - 1 \in Nat /\ x - 1 \in S
  BY <1>1, <1>2
<1>4. (x - 1) + 1 \in S
  BY <1>3
<1> QED BY <1>2, <1>4

\* A walk can be made as long as one likes.
LEMMA WalkLonger ==
    ASSUME NEW it, NEW a, NEW dir, NEW n \in Nat, NEW f, Walks(f, it, a, dir, n)
    PROVE  \E g : Walks(g, it, a, dir, n + 1)
<1> DEFINE Step(X) == X \cup {NextOf(it[e], dir) : e \in X \cap (1..Len(it))}
           g == [k \in 0..(n + 1) |-> IF k = n + 1 THEN Step(f[n]) ELSE f[k]]
<1>1. \A k \in 0..n : f[k] = IF k = 0 THEN {a} ELSE Step(f[k - 1])
  <2> HIDE DEF Step
  <2>1. f = [k \in 0..n |-> IF k = 0 THEN {a} ELSE Step(f[k - 1])]
    BY Zenon DEF Walks, Step
  <2> QED BY <2>1
<1> HIDE DEF Step
<1>2. ASSUME NEW k \in 0..(n + 1) PROVE g[k] = IF k = 0 THEN {a} ELSE Step(g[k - 1])
  <2>1. CASE k = n + 1
    <3>1. n + 1 # 0 /\ n \in 0..(n + 1) /\ n # n + 1 /\ k - 1 = n
      BY <2>1
    <3>2. g[n] = f[n] /\ g[k] = Step(f[n])
      BY <2>1, <3>1
    <3> HIDE DEF g
    <3> QED BY <2>1, <3>1, <3>2
  <2>2. CASE k = 0
    <3>1. k # n + 1 /\ k \in 0..n
      BY <2>2
    <3> QED BY <1>1, <2>2, <3>1
  <2>3. CASE k \in 1..n
    <3>1. k # n + 1 /\ k \in 0..n /\ k # 0 /\ k - 1 # n + 1 /\ k - 1 \in 0..(n + 1)
      BY <2>3
    <3>2. g[k] = f[k] /\ g[k - 1] = f[k - 1]
      BY <3>1
    <3> HIDE DEF g
    <3> QED BY <1>1, <3>1, <3>2
  <2> QED BY <2>1, <2>2, <2>3
<1>3. g = [k \in 0..(n + 1) |-> g[k]]
  OBVIOUS
<1> HIDE DEF g
<1>4. g = [k \in 0..(n + 1) |-> IF k = 0 THEN {a} ELSE Step(g[k - 1])]
  BY <1>2, <1>3
<1>5. Walks(g, it, a, dir, n + 1)
  BY <1>4, Zenon DEF Walks, Step
<1> QED BY <1>5

LEMMA MetWalks ==
    ASSUME NEW it, NEW a, NEW dir
    PROVE  Walks(Met(it, a, dir), it, a, dir, Cap)
<1> DEFINE S == {n \in Nat : \E g : Walks(g, it, a, dir, n)}
<1>1. 0 \in S
  <2> DEFINE g == [k \in 0..0 |-> {a}]
  <2>1. g = [k \in 0..0 |-> IF k = 0 THEN {a}
                            ELSE g[k - 1] \cup {NextOf(it[e], dir) : e \in g[k - 1] \cap (1..Len(it))}]
    OBVIOUS
  <2> HIDE DEF g
  <2>2. Walks(g, it, a, dir, 0)
    BY <2>1 DEF Walks
  <2> QED BY <2>2
<1>2. ASSUME NEW n \in Nat, n \in S PROVE n + 1 \in S
  BY <1>2, WalkLonger
<1> HIDE DEF S
<1>3. Cap \in S
  BY <1>1, <1>2, EveryNat
<1>4. \E g : Walks(g, it, a, dir, Cap)
  BY <1>3 DEF S
<1> QED BY <1>4, Zenon DEF Met, Walks

\* One by one: what a walk has met after k steps.
LEMMA MetSteps ==
    ASSUME NEW it, NEW a, NEW dir
    PROVE  StepByStep(Met(it, a, dir), it, a, dir)
<1> DEFINE met == Met(it, a, dir)
           Step(X) == Further(X, it, dir)
<1>1. PICK f : f = met
  OBVIOUS
<1>2. Walks(f, it, a, dir, Cap)
  BY <1>1, MetWalks
<1>3. \A k \in 0..Cap : f[k] = IF k = 0 THEN {a} ELSE Step(f[k - 1])
  <2> HIDE DEF Step
  <2>1. f = [k \in 0..Cap |-> IF k = 0 THEN {a} ELSE Step(f[k - 1])]
    BY <1>2, Zenon DEF Walks, Step, Further
  <2> QED BY <2>1
<1> HIDE DEF Step, met
<1>4. f[0] = {a} /\ \A k \in Nat : k + 1 <= Cap => f[k + 1] = Step(f[k])
  BY <1>3
<1> QED BY <1>1, <1>4, Zenon DEF Step, met, StepByStep

\* What a walk meets that starts at an edge item, or at 0, and whose items point to
\* edge items or 0.
LEMMA MetWithin ==
    ASSUME NEW it, NEW a, NEW dir, Len(it) \in Nat, a \in 0..Len(it),
           \A e \in 1..Len(it) : NextOf(it[e], dir) \in 0..Len(it)
    PROVE  \A k \in Nat : k <= Cap => Met(it, a, dir)[k] \subseteq 0..Len(it)
<1> DEFINE met == Met(it, a, dir)
           S == {k \in Nat : k <= Cap => met[k] \subseteq 0..Len(it)}
<1>1. /\ met[0] = {a}
      /\ \A k \in Nat : k + 1 <= Cap => met[k + 1] = met[k] \cup {NextOf(it[e], dir) : e \in met[k] \cap (1..Len(it))}
  <2>1. StepByStep(met, it, a, dir)
    BY MetSteps
  <2> HIDE DEF met
  <2> QED BY <2>1, Zenon DEF StepByStep, Further
<1> HIDE DEF met
<1>2. 0 \in S
  BY <1>1
<1>3. ASSUME NEW k \in Nat, k \in S PROVE k + 1 \in S
  <2>1. CASE k + 1 <= Cap
    <3>1. met[k] \subseteq 0..Len(it)
      BY <1>3, <2>1
    <3>2. ASSUME NEW y \in met[k + 1] PROVE y \in 0..Len(it)
      <4>1. y \in met[k] \/ \E e \in met[k] \cap (1..Len(it)) : y = NextOf(it[e], dir)
        BY <1>1, <2>1, <3>2
      <4> QED BY <3>1, <4>1
    <3> QED BY <2>1, <3>2
  <2>2. CASE ~(k + 1 <= Cap)
    BY <2>2
  <2> QED BY <2>1, <2>2
<1> HIDE DEF S
<1>4. \A k \in Nat : k \in S
  BY <1>2, <1>3, EveryNat
<1> QED BY <1>4 DEF S, met

\* A walk meets what it starts from.
LEMMA MetFirst == ASSUME NEW it, NEW a, NEW dir PROVE a \in Met(it, a, dir)[Cap]
<1> DEFINE met == Met(it, a, dir)
           S == {k \in Nat : k <= Cap => a \in met[k]}
<1>1. StepByStep(met, it, a, dir)
  BY MetSteps
<1> HIDE DEF met
<1>2. 0 \in S
  BY <1>1 DEF StepByStep
<1>3. ASSUME NEW k \in Nat, k \in S PROVE k + 1 \in S
  BY <1>1, <1>3 DEF StepByStep, Further
<1> HIDE DEF S
<1>4. Cap \in S
  BY <1>2, <1>3, EveryNat
<1> QED BY <1>4 DEF S, met

\* Pointers lead to lower slots, so a walk of Cap steps meets all there is: what it
\* meets has the next edges of all its edges.
LEMMA MetClosed ==
    ASSUME NEW it, NEW a, NEW dir, Len(it) \in Nat, Len(it) <= Cap, a \in 0..Len(it),
           \A e \in 1..Len(it) : NextOf(it[e], dir) \in 0..Len(it) /\ NextOf(it[e], dir) < e
    PROVE  \A e \in Met(it, a, dir)[Cap] \cap (1..Len(it)) : NextOf(it[e], dir) \in Met(it, a, dir)[Cap]
<1> DEFINE met == Met(it, a, dir)
           next(e) == NextOf(it[e], dir)
           S == {k \in Nat : k <= Cap => \A e \in met[k] \cap (1..Len(it)) : next(e) \in met[k] \/ e <= Cap - k}
<1>1. /\ met[0] = {a}
      /\ \A k \in Nat : k + 1 <= Cap => met[k + 1] = met[k] \cup {next(e) : e \in met[k] \cap (1..Len(it))}
  <2>1. StepByStep(met, it, a, dir)
    BY MetSteps
  <2> HIDE DEF met
  <2> QED BY <2>1, Zenon DEF StepByStep, Further
<1>2. \A e \in 1..Len(it) : next(e) \in 0..Len(it) /\ next(e) < e
  OBVIOUS
<1> HIDE DEF met, next
<1>3. 0 \in S
  BY <1>1
<1>4. ASSUME NEW k \in Nat, k \in S PROVE k + 1 \in S
  <2> SUFFICES ASSUME k + 1 <= Cap, NEW e \in met[k + 1] \cap (1..Len(it))
               PROVE  next(e) \in met[k + 1] \/ e <= Cap - (k + 1)
    OBVIOUS
  <2>1. met[k + 1] = met[k] \cup {next(d) : d \in met[k] \cap (1..Len(it))}
    BY <1>1
  <2>2. \A d \in met[k] \cap (1..Len(it)) : next(d) \in met[k] \/ d <= Cap - k
    BY <1>4
  <2>3. CASE e \in met[k]
    BY <2>1, <2>3
  <2>4. CASE e \notin met[k]
    <3>1. PICK d \in met[k] \cap (1..Len(it)) : e = next(d)
      BY <2>1, <2>4
    <3>2. d <= Cap - k /\ next(d) < d
      BY <1>2, <2>2, <2>4, <3>1
    <3> QED BY <3>1, <3>2
  <2> QED BY <2>3, <2>4
<1> HIDE DEF S
<1>5. Cap \in S
  BY <1>3, <1>4, EveryNat
<1>6. \A e \in met[Cap] \cap (1..Len(it)) : next(e) \in met[Cap] \/ e <= Cap - Cap
  BY <1>5 DEF S
<1>7. \A e \in 1..Len(it) : ~(e <= Cap - Cap)
  OBVIOUS
<1>8. \A e \in met[Cap] \cap (1..Len(it)) : next(e) \in met[Cap]
  BY <1>6, <1>7
<1> QED BY <1>8 DEF met, next

LEMMA ChainMet ==
    ASSUME NEW h, NEW dir \in Dir
    PROVE  Chain(h, dir) = Met(buf[EdgePage].item, End(buf[h[1]].head[h[2]], dir), dir)[Cap]
BY Zenon DEF Chain, Met, End, NextOf, Items

-----------------------------------------------------------------------------
(* The theorems                                                            *)

\* In a running server with no critical section the edge items are those in the WAL:
\* their pointers lead to items with lower slots, as do those of the headers.
LEMMA Pointing ==
    ASSUME Types, Durable, Chained, Quiet
    PROVE  /\ Len(buf[EdgePage].item) \in Nat /\ Len(buf[EdgePage].item) <= Cap
           /\ \A e \in Items(EdgePage) :
                 /\ EdgeKept(wal, e, buf[EdgePage].item[e], Len(wal))
                 /\ \A dir \in Dir : LET n == NextOf(buf[EdgePage].item[e], dir)
                                     IN  n \in 0..Len(buf[EdgePage].item) /\ n < e
           /\ \A p \in NodePage, s \in Slot, dir \in Dir :
                 LET a == End(buf[p].head[s], dir)
                 IN  Born(wal, a, Len(wal)) /\ a \in 0..Len(buf[EdgePage].item)
<1>1. mode = "run" /\ op = None /\ \A p : ~InOp(p)
  BY DEF Quiet, InOp
<1>2. EdgePage \in Counted /\ EdgePage \in Blk /\ NodePage \subseteq Counted /\ NodePage \subseteq Blk
  BY DEF Counted, Blk
<1>3. /\ Len(buf[EdgePage].item) \in Nat /\ Len(buf[EdgePage].item) <= Cap /\ Len(wal) \in Nat
      /\ \A p \in Blk : buf[p].lsn \in Nat /\ buf[p].lsn <= Len(wal)
  <2>1. ASSUME NEW p \in Blk PROVE buf[p].lsn \in Nat /\ buf[p].lsn <= Len(wal)
    BY BufferOK DEF Page, Lsn
  <2> QED BY <1>2, <2>1, BufferOK
<1>4. \A p \in Counted : LinkVersion(wal, did, p, buf[p])
  BY <1>1 DEF Chained, PageLinked, BufLinked
<1>5. ASSUME NEW e, Born(wal, e, Len(wal)) PROVE e \in 0..Len(buf[EdgePage].item)
  BY <1>1, <1>5, BornThere
<1>6. ASSUME NEW e \in Items(EdgePage)
      PROVE  /\ EdgeKept(wal, e, buf[EdgePage].item[e], Len(wal))
             /\ \A dir \in Dir : LET n == NextOf(buf[EdgePage].item[e], dir)
                                 IN  n \in 0..Len(buf[EdgePage].item) /\ n < e
  <2> DEFINE it == buf[EdgePage].item[e]
  <2>1. EdgeKept(wal, e, it, buf[EdgePage].lsn)
    BY <1>2, <1>4, <1>6 DEF LinkVersion, EdgesKept, Items
  <2>2. PICK k \in 1..Len(wal) : IsEdge(wal[k]) /\ wal[k].off = e /\ SameHops(wal[k].data, it)
    BY <2>1 DEF EdgeKept
  <2>3. ASSUME NEW dir \in Dir
        PROVE  NextOf(it, dir) \in 0..Len(buf[EdgePage].item) /\ NextOf(it, dir) < e
    <3>1. NextOf(wal[k].data, dir) = NextOf(it, dir)
      BY <2>2 DEF SameHops, NextOf
    <3>2. NextOf(it, dir) < e /\ Born(wal, NextOf(it, dir), k - 1)
      BY <2>2, <3>1 DEF Chained, Rooted
    <3>3. k - 1 \in Nat /\ k - 1 <= Len(wal)
      BY <1>3
    <3>4. Born(wal, NextOf(it, dir), Len(wal))
      BY <1>3, <3>2, <3>3, BornMore
    <3> QED BY <1>5, <3>2, <3>4
  <2>4. EdgeKept(wal, e, it, Len(wal))
    BY <1>2, <1>3, <2>1, KeptMore
  <2> QED BY <2>3, <2>4
<1>7. ASSUME NEW p \in NodePage, NEW s \in Slot, NEW dir \in Dir
      PROVE  LET a == End(buf[p].head[s], dir)
             IN  Born(wal, a, Len(wal)) /\ a \in 0..Len(buf[EdgePage].item)
  <2> DEFINE a == End(buf[p].head[s], dir)
  <2>1. Born(wal, a, buf[p].lsn)
    BY <1>2, <1>4 DEF LinkVersion, HeadsBorn, HeadBorn
  <2>2. Born(wal, a, Len(wal))
    BY <1>2, <1>3, <2>1, BornMore
  <2> QED BY <1>5, <2>2
<1> QED BY <1>3, <1>6, <1>7

LEMMA ChainsWithin == ASSUME Types, Durable, Chained PROVE NoDangling
<1> SUFFICES ASSUME Quiet, NEW h \in HdrAddr, NEW dir \in Dir
             PROVE  Chain(h, dir) \subseteq Items(EdgePage) \cup {0}
  BY DEF NoDangling, Dir
<1> DEFINE it == buf[EdgePage].item
           a == End(buf[h[1]].head[h[2]], dir)
<1>1. h[1] \in NodePage /\ h[2] \in Slot
  BY DEF HdrAddr
<1>2. Len(it) \in Nat /\ a \in 0..Len(it) /\ \A e \in 1..Len(it) : NextOf(it[e], dir) \in 0..Len(it)
  BY <1>1, Pointing DEF Items
<1>3. Chain(h, dir) = Met(it, a, dir)[Cap]
  BY ChainMet
<1> HIDE DEF it, a
<1>4. Met(it, a, dir)[Cap] \subseteq 0..Len(it)
  BY <1>2, MetWithin
<1> QED BY <1>2, <1>3, <1>4 DEF Items, it

LEMMA ChainsComplete == ASSUME Types, Durable, Chained PROVE ChainsDurable
<1> SUFFICES ASSUME Quiet, NEW f \in did, f.kind = "link", Committed(f.xid),
                    ~\E g \in did : g.kind = "cleared" /\ g.hdr = f.hdr
             PROVE  f.off \in Chain(f.hdr, f.dir)
  BY DEF ChainsDurable
<1> DEFINE it == buf[EdgePage].item
           p == f.hdr[1]
           s == f.hdr[2]
           dir == f.dir
           a == End(buf[p].head[s], dir)
           X == Met(it, a, dir)[Cap]
<1>1. f.hdr \in HdrAddr /\ dir \in Dir /\ f.off # 0
  BY DEF Chained, LinkNamed
<1>2. p \in NodePage /\ s \in Slot /\ f.hdr = <<p, s>> /\ p \in Counted
  BY <1>1 DEF HdrAddr, Counted
<1>3. mode = "run" /\ ~InOp(p) /\ Len(wal) \in Nat
  BY DEF Quiet, InOp, Types, Log
<1>4. PICK k \in 1..Len(wal) : IsHead(wal[k], p) /\ wal[k].off = s /\ End(wal[k].data, dir) = f.off
  <2>1. PICK c \in 1..Len(wal) : wal[c] = CommitOf(f.xid)
    BY DEF Committed
  <2>2. PICK k \in 1..Len(wal) : Carries(wal[k], f)
    BY <2>1 DEF Durable, FactOK, InLog
  <2>3. wal[k].type = "ADJ_UPDATE" /\ <<wal[k].blk, wal[k].off>> = <<p, s>> /\ End(wal[k].data, dir) = f.off
    BY <1>2, <2>2 DEF Carries
  <2> QED BY <2>3 DEF IsHead
<1>5. Leads(wal, <<>>, dir, a, f.off)
  <2>1. Reaches(wal, <<>>, did, p, s, buf[p].head[s], Len(wal))
    BY <1>2, <1>3 DEF Chained, PageLinked, BufLinked, HeadsReach
  <2>2. ~Cleared(did, p, s)
    BY <1>2 DEF Cleared
  <2> QED BY <1>1, <1>3, <1>4, <2>1, <2>2 DEF Reaches
<1>6. /\ Len(it) \in Nat /\ Len(it) <= Cap /\ a \in 0..Len(it)
      /\ \A e \in 1..Len(it) : NextOf(it[e], dir) \in 0..Len(it) /\ NextOf(it[e], dir) < e
      /\ \A e \in 1..Len(it) : EdgeKept(wal, e, it[e], Len(wal))
  BY <1>1, <1>2, Pointing DEF Items
<1>7. Chain(f.hdr, dir) = X
  BY <1>1, <1>2, ChainMet
<1>8. mode = "run" /\ Rooted(wal)
  BY <1>3 DEF Chained
<1>9. \A e : Born(wal, e, Len(wal)) => e \in 0..Len(it)
  BY <1>8, BornThere
<1> HIDE DEF it, a, X, p, s, dir
<1>10. X \subseteq 0..Len(it) /\ \A e \in X \cap (1..Len(it)) : NextOf(it[e], dir) \in X
  <2>1. \A n \in Nat : n <= Cap => Met(it, a, dir)[n] \subseteq 0..Len(it)
    BY <1>6, MetWithin
  <2>2. \A e \in Met(it, a, dir)[Cap] \cap (1..Len(it)) : NextOf(it[e], dir) \in Met(it, a, dir)[Cap]
    BY <1>6, MetClosed
  <2> QED BY <2>1, <2>2 DEF X
<1>11. a \in X
  BY MetFirst DEF X
<1>12. ASSUME NEW j \in 1..Len(wal), IsEdge(wal[j]), wal[j].off \in X
       PROVE  NextOf(wal[j].data, dir) \in X
  <2> DEFINE e == wal[j].off
  <2>1. e # 0 /\ Born(wal, e, Len(wal))
    BY <1>3, <1>8, <1>12 DEF Rooted, Born
  <2>2. e \in 1..Len(it)
    BY <1>6, <1>9, <2>1
  <2>3. PICK n \in 1..Len(wal) : IsEdge(wal[n]) /\ wal[n].off = e /\ SameHops(wal[n].data, it[e])
    BY <1>6, <2>2 DEF EdgeKept
  <2>4. n = j
    BY <1>8, <1>12, <2>3 DEF Rooted
  <2>5. NextOf(wal[j].data, dir) = NextOf(it[e], dir)
    BY <2>3, <2>4 DEF SameHops, NextOf
  <2> QED BY <1>10, <1>12, <2>2, <2>5
<1>13. X \in SUBSET (0..Cap) /\ Closed(wal, dir, X) /\ Closed(<<>>, dir, X)
  BY <1>6, <1>10, <1>12, ClosedNone DEF Closed
<1>14. f.off \in X
  BY <1>5, <1>11, <1>13 DEF Leads
<1> QED BY <1>7, <1>14 DEF dir

\* No chain ends in nothing: before and after crashes, every pointer of a header, and
\* every pointer of an edge on its chain, leads to an edge item, of a committed
\* transaction or not.  insert_edge logs the edge before the headers, and redo of a
\* header follows redo of its edge; a checkpoint that starts in the critical section
\* would let recovery start between the two.
THEOREM ChainsNeverDangle == ASSUME CheckpointApart PROVE Spec => []NoDangling
<1>1. Replayable /\ Durable /\ Chained => NoDangling
  BY ChainsWithin DEF Replayable
<1>2. Replayable /\ Durable /\ Chained /\ [Next]_vars => Replayable' /\ Durable' /\ Chained'
  BY NextReplayable, NextDurable, NextLinked
<1>3. Init => Replayable /\ Durable /\ Chained
  BY InitReplayable, InitDurable, InitLinked
<1> QED BY <1>1, <1>2, <1>3, PTL DEF Spec

\* The edges of committed transactions are on both their chains after any number of
\* crashes, unless VACUUM has cleared the header: that insert_edge logs both headers,
\* that recovery never brings back a header older than the records before the
\* checkpoint, and that later edges were put before earlier ones and point to them.
THEOREM ChainsAreDurable == ASSUME CheckpointApart PROVE Spec => []ChainsDurable
<1>1. Replayable /\ Durable /\ Chained => ChainsDurable
  BY ChainsComplete DEF Replayable
<1>2. Replayable /\ Durable /\ Chained /\ [Next]_vars => Replayable' /\ Durable' /\ Chained'
  BY NextReplayable, NextDurable, NextLinked
<1>3. Init => Replayable /\ Durable /\ Chained
  BY InitReplayable, InitDurable, InitLinked
<1> QED BY <1>1, <1>2, <1>3, PTL DEF Spec
=============================================================================
