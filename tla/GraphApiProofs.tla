--------------------------- MODULE GraphApiProofs ---------------------------
(***************************************************************************)
(* Edge ids are handed out once.  Sessions draw ids from batches they took *)
(* off a shared sequence, hold the rest in reservoirs that outlive their   *)
(* transactions, and store an id some steps after they drew it.  The       *)
(* invariant follows an id through the three places it can be (a           *)
(* reservoir, a call between next_edge_id and insert_edge, the relation)   *)
(* and says that no id is at two of them, and none above the sequence.     *)
(***************************************************************************)
EXTENDS GraphApi, WellFoundedInduction, TLAPS

EdgeItem == [row : [kind : {"edge"}, id : Nat, s : Nat, t : Nat, v : Values],
             xmin : Nat, dead : BOOLEAN]

\* What the argument needs of a call: its function and program counter, the
\* edge that create_edge makes, the value that set_edge writes.
CallOK(o) ==
    \/ o = Idle
    \/ /\ {"k", "pc"} \subseteq DOMAIN o
       /\ o.k = "create_edge" =>
            /\ {"e", "s", "t", "v"} \subseteq DOMAIN o
            /\ o.pc \in {"id", "store", "mirror", "emit"}
            /\ o.e \in Nat /\ o.s \in Nat /\ o.t \in Nat /\ o.v \in Values
       /\ o.k = "set_edge" => "v" \in DOMAIN o /\ o.v \in Values

SeqsOK ==
    /\ nodeSeq \in Nat /\ edgeSeq \in Nat /\ nextXid \in Nat /\ resets \in Nat
    /\ xid \in [Backends -> Nat]
    /\ reservoir \in [Backends -> Seq(Nat)]
    /\ ev \in Seq(EdgeItem)

CallsOK == DOMAIN op = Backends /\ \A b \in Backends : CallOK(op[b])

\* Between next_edge_id and insert_edge the call holds the id.
Drawn(b) == op[b].k = "create_edge" /\ op[b].pc = "store"

Stored(i) == ev[i].row.id

IdsOnce ==
    /\ \A i \in DOMAIN ev : Stored(i) <= edgeSeq
    /\ \A b \in Backends : \A k \in DOMAIN reservoir[b] : reservoir[b][k] <= edgeSeq
    /\ \A b \in Backends : Drawn(b) => op[b].e <= edgeSeq
    /\ \A i, j \in DOMAIN ev : Stored(i) = Stored(j) => i = j
    /\ \A i \in DOMAIN ev : \A b \in Backends :
         \A k \in DOMAIN reservoir[b] : Stored(i) # reservoir[b][k]
    /\ \A i \in DOMAIN ev : \A b \in Backends : Drawn(b) => Stored(i) # op[b].e
    /\ \A b, c \in Backends : \A k \in DOMAIN reservoir[b] : \A m \in DOMAIN reservoir[c] :
         reservoir[b][k] = reservoir[c][m] => b = c /\ k = m
    /\ \A b, c \in Backends : Drawn(b) =>
         \A m \in DOMAIN reservoir[c] : op[b].e # reservoir[c][m]
    /\ \A b, c \in Backends : Drawn(b) /\ Drawn(c) /\ op[b].e = op[c].e => b = c

Inv == SeqsOK /\ CallsOK /\ (resets = 0 => IdsOnce)

-----------------------------------------------------------------------------
(* Lemmas.                                                                 *)

\* GraphApiAssumption, for the batch size of the edge id sequence.
LEMMA BatchSize == IdBatch \in Nat /\ IdBatch > 0
  BY GraphApiAssumption

\* A call that moves on (its record changed in pc alone) stays well formed,
\* and is a create_edge if it was one.
LEMMA Moved ==
    ASSUME NEW o, CallOK(o), o # Idle, NEW p,
           o.k = "create_edge" => p \in {"id", "store", "mirror", "emit"}
    PROVE  LET q == [o EXCEPT !.pc = p] IN CallOK(q) /\ q.k = o.k /\ q.pc = p
  <1> DEFINE q == [o EXCEPT !.pc = p]
  <1>1. {"k", "pc"} \subseteq DOMAIN o
    BY DEF CallOK
  <1>2. DOMAIN q = DOMAIN o /\ q.pc = p /\ q.k = o.k
    BY <1>1
  <1>3. ASSUME q.k = "create_edge"
        PROVE  /\ {"e", "s", "t", "v"} \subseteq DOMAIN q
               /\ q.e \in Nat /\ q.s \in Nat /\ q.t \in Nat /\ q.v \in Values
    BY <1>2, <1>3 DEF CallOK
  <1>4. ASSUME q.k = "set_edge" PROVE "v" \in DOMAIN q /\ q.v \in Values
    BY <1>2, <1>4 DEF CallOK
  <1> QED BY <1>1, <1>2, <1>3, <1>4 DEF CallOK

\* Going to o changes one session's call and no other's.
LEMMA WentTo ==
    ASSUME CallsOK, NEW b \in Backends, NEW o, CallOK(o), Go(b, o)
    PROVE  CallsOK' /\ op'[b] = o /\ \A c \in Backends \ {b} : op'[c] = op[c]
  BY DEF CallsOK, Go

\* Idle is a call without an edge.
LEMMA IdleCall == CallOK(Idle) /\ Idle.k = "idle"
  BY DEF CallOK, Idle

\* A step that draws no id, stores no edge and leaves the sequence alone
\* disturbs nothing: calls may only let go of ids.
LEMMA NoIdMoves ==
    ASSUME IdsOnce, UNCHANGED <<edgeSeq, reservoir>>,
           DOMAIN ev' = DOMAIN ev, \A i \in DOMAIN ev : Stored(i)' = Stored(i),
           \A c \in Backends : Drawn(c)' => Drawn(c) /\ op'[c].e = op[c].e
    PROVE  IdsOnce'
  <1>1. /\ \A i \in DOMAIN ev' : Stored(i)' <= edgeSeq'
        /\ \A i, j \in DOMAIN ev' : Stored(i)' = Stored(j)' => i = j
    BY DEF IdsOnce
  <1>2. /\ \A b \in Backends : \A k \in DOMAIN reservoir'[b] : reservoir'[b][k] <= edgeSeq'
        /\ \A b, c \in Backends : \A k \in DOMAIN reservoir'[b] : \A m \in DOMAIN reservoir'[c] :
             reservoir'[b][k] = reservoir'[c][m] => b = c /\ k = m
    BY DEF IdsOnce
  <1>3. /\ \A b \in Backends : Drawn(b)' => op'[b].e <= edgeSeq'
        /\ \A b, c \in Backends : Drawn(b)' =>
             \A m \in DOMAIN reservoir'[c] : op'[b].e # reservoir'[c][m]
        /\ \A b, c \in Backends : Drawn(b)' /\ Drawn(c)' /\ op'[b].e = op'[c].e => b = c
    <2> HIDE DEF Drawn
    <2> QED BY DEF IdsOnce
  <1>4. /\ \A i \in DOMAIN ev' : \A b \in Backends :
             \A k \in DOMAIN reservoir'[b] : Stored(i)' # reservoir'[b][k]
        /\ \A i \in DOMAIN ev' : \A b \in Backends : Drawn(b)' => Stored(i)' # op'[b].e
    <2> HIDE DEF Drawn, Stored
    <2> QED BY DEF IdsOnce
  <1> QED BY <1>1, <1>2, <1>3, <1>4 DEF IdsOnce, Stored, Drawn

\* A call of a function that neither makes nor sets an edge needs only its
\* function and its program counter to stay where they are.
LEMMA OtherCall ==
    ASSUME NEW o, NEW q, {"k", "pc"} \subseteq DOMAIN q, q.k \notin {"create_edge", "set_edge"}
    PROVE  CallOK(q)
  BY DEF CallOK

\* A call that starts carries its arguments, the snapshot and no old image.
LEMMA StartedCall ==
    ASSUME NEW o, {"k", "pc"} \subseteq DOMAIN o,
           o.k \notin {"create_edge", "set_edge"} \/ CallOK(o),
           NEW snap, NEW old
    PROVE  LET q == Over([snap |-> snap, old |-> old], o)
           IN /\ DOMAIN o \subseteq DOMAIN q
              /\ \A f \in DOMAIN o \ {"snap", "old"} : q[f] = o[f]
              /\ CallOK(q)
  <1> DEFINE r == [snap |-> snap, old |-> old]
             q == Over(r, o)
  <1>1. DOMAIN r = {"snap", "old"}
    OBVIOUS
  <1>2. /\ DOMAIN q = DOMAIN r \union DOMAIN o
        /\ \A f \in DOMAIN o \ {"snap", "old"} : q[f] = o[f]
    BY <1>1 DEF Over
  <1>3. q.k = o.k /\ q.pc = o.pc
    BY <1>2
  <1>4. CASE o.k \notin {"create_edge", "set_edge"}
    BY <1>1, <1>2, <1>3, <1>4, OtherCall
  <1>5. CASE CallOK(o) /\ o.k = "create_edge"
    <2>1. {"e", "s", "t", "v"} \subseteq DOMAIN o
      BY <1>5 DEF CallOK, Idle
    <2>2. q.e = o.e /\ q.s = o.s /\ q.t = o.t /\ q.v = o.v
      BY <1>2, <2>1
    <2> QED BY <1>2, <1>3, <1>5, <2>1, <2>2 DEF CallOK, Idle
  <1>6. CASE CallOK(o) /\ o.k = "set_edge"
    <2>1. "v" \in DOMAIN o /\ o.v \in Values
      BY <1>6 DEF CallOK, Idle
    <2>2. q.v = o.v
      BY <1>2, <2>1
    <2> QED BY <1>2, <1>3, <1>6, <2>1, <2>2 DEF CallOK, Idle
  <1> QED BY <1>2, <1>4, <1>5, <1>6

\* Every nonempty set of natural numbers has a least element.
LEMMA LeastNat ==
    ASSUME NEW T \in SUBSET Nat, T # {}
    PROVE  \E x \in T : \A y \in T : x <= y
  <1> DEFINE R == OpToRel(<, Nat)
  <1>1. \A a, b \in Nat : <<a, b>> \in R <=> a < b
    BY DEF OpToRel
  <1> HIDE DEF R
  <1>2. IsWellFoundedOn(R, Nat)
    BY NatLessThanWellFounded DEF R
  <1>3. PICK x \in T : \A y \in T : ~(<<y, x>> \in R)
    BY <1>2, WFMin, Zenon
  <1>4. ASSUME NEW y \in T PROVE x <= y
    <2>1. x \in Nat /\ y \in Nat
      OBVIOUS
    <2>2. ~(y < x)
      BY <1>1, <1>3, <2>1, Zenon
    <2> QED BY <2>1, <2>2
  <1> QED BY <1>4

\* The first of some places of a sequence, as FirstIn chooses it, is a place
\* of the sequence.
LEMMA FirstPlace ==
    ASSUME NEW hits, NEW items, hits \subseteq DOMAIN items, DOMAIN items \subseteq Nat \ {0},
           NEW i, i = (IF hits = {} THEN 0 ELSE CHOOSE h \in hits : \A j \in hits : h <= j),
           i # 0
    PROVE  i \in hits
  <1>1. hits # {}
    OBVIOUS
  <1>2. \E x \in hits : \A y \in hits : x <= y
    <2>1. hits \in SUBSET Nat
      OBVIOUS
    <2> QED BY <1>1, <2>1, LeastNat, Zenon
  <1>3. i = CHOOSE h \in hits : \A j \in hits : h <= j
    BY <1>1
  <1> QED BY <1>2, <1>3, Zenon

\* follow and delete of edges go on to the next edge: no create_edge.
LEMMA NextEdgeCall ==
    ASSUME NEW o, {"k", "pc"} \subseteq DOMAIN o, o.k \in {"delete_edge", "detach_delete"}
    PROVE  CallOK(NextEdge(o)) /\ NextEdge(o).k # "create_edge"
  <1>1. CASE o.k = "delete_edge"
    BY <1>1, IdleCall DEF NextEdge
  <1>2. CASE o.k = "detach_delete" /\ o.todo = {}
    <2> DEFINE q == [o EXCEPT !.pc = "unindex", !.e = 0]
    <2>1. {"k", "pc"} \subseteq DOMAIN q /\ q.k = "detach_delete"
      BY <1>2
    <2>2. NextEdge(o) = q
      BY <1>2 DEF NextEdge
    <2> HIDE DEF q
    <2> QED BY <2>1, <2>2, OtherCall
  <1>3. CASE o.k = "detach_delete" /\ o.todo # {}
    <2> DEFINE e == CHOOSE i \in o.todo : TRUE
               q == [o EXCEPT !.pc = "load", !.e = e, !.todo = @ \ {e}]
    <2> HIDE DEF e
    <2>1. {"k", "pc"} \subseteq DOMAIN q /\ q.k = "detach_delete"
      BY <1>3
    <2>2. NextEdge(o) = q
      BY <1>3 DEF NextEdge, e
    <2> HIDE DEF q
    <2> QED BY <2>1, <2>2, OtherCall
  <1> QED BY <1>1, <1>2, <1>3

\* A call's step that handles no id keeps the whole invariant.
LEMMA CallStep ==
    ASSUME Inv, NEW b \in Backends, NEW o, CallOK(o), Go(b, o),
           UNCHANGED <<edgeSeq, reservoir, resets>>,
           nodeSeq' \in Nat, nextXid' \in Nat, xid' \in [Backends -> Nat],
           ev' \in Seq(EdgeItem),
           DOMAIN ev' = DOMAIN ev, \A i \in DOMAIN ev : Stored(i)' = Stored(i),
           o.k = "create_edge" /\ o.pc = "store" => Drawn(b) /\ o.e = op[b].e
    PROVE  Inv'
  <1>1. CallsOK' /\ op'[b] = o /\ \A c \in Backends \ {b} : op'[c] = op[c]
    BY WentTo DEF Inv
  <1>2. SeqsOK'
    BY DEF Inv, SeqsOK
  <1>3. ASSUME NEW c \in Backends, Drawn(c)' PROVE Drawn(c) /\ op'[c].e = op[c].e
    <2>1. CASE c = b
      BY <1>1, <1>3, <2>1 DEF Drawn
    <2>2. CASE c # b
      <3>1. op'[c] = op[c]
        BY <1>1, <2>2
      <3> QED BY <1>3, <3>1 DEF Drawn
    <2> QED BY <2>1, <2>2
  <1>4. ASSUME resets = 0 PROVE IdsOnce'
    <2>1. IdsOnce
      BY <1>4 DEF Inv
    <2>2. edgeSeq' = edgeSeq /\ reservoir' = reservoir
      OBVIOUS
    <2> QED BY <1>3, <2>1, <2>2, NoIdMoves, Zenon
  <1> QED BY <1>1, <1>2, <1>4 DEF Inv

-----------------------------------------------------------------------------
(* Initial states and steps.                                               *)

\* One edge with id 1, and nothing drawn, below the sequence's first batch.
LEMMA InitInv == Init => Inv
  <1> SUFFICES ASSUME Init PROVE Inv
    OBVIOUS
  <1>1. PICK l \in Labels, v \in Values :
          ev = <<[row |-> EdgeRow(1, 1, 2, v), xmin |-> 1, dead |-> FALSE]>>
    BY Zenon DEF Init
  <1>2. /\ nodeSeq = 2 /\ edgeSeq = IdBatch /\ nextXid = 2 /\ resets = 0
        /\ xid = [b \in Backends |-> 0] /\ op = [b \in Backends |-> Idle]
        /\ reservoir = [b \in Backends |-> <<>>]
    BY Zenon DEF Init
  <1>3. [row |-> EdgeRow(1, 1, 2, v), xmin |-> 1, dead |-> FALSE] \in EdgeItem
    BY DEF EdgeItem, EdgeRow
  <1>4. ev \in Seq(EdgeItem) /\ DOMAIN ev = {1} /\ Stored(1) = 1
    BY <1>1, <1>3 DEF Stored, EdgeRow
  <1>5. \A b \in Backends : DOMAIN reservoir[b] = {} /\ op[b] = Idle
    BY <1>2
  <1>6. SeqsOK
    BY <1>2, <1>4, BatchSize DEF SeqsOK
  <1>7. CallsOK
    BY <1>2, IdleCall DEF CallsOK
  <1>8. \A b \in Backends : ~Drawn(b)
    BY <1>5, IdleCall DEF Drawn
  <1>9. \A i \in DOMAIN ev : i = 1 /\ Stored(i) <= edgeSeq
    BY <1>2, <1>4, BatchSize
  <1>10. IdsOnce
    <2> HIDE DEF Drawn, Stored
    <2> QED BY <1>5, <1>8, <1>9, Zenon DEF IdsOnce
  <1> QED BY <1>6, <1>7, <1>10 DEF Inv

\* What At says of a call.
LEMMA AtCall ==
    ASSUME Inv, NEW b \in Backends, NEW pc, NEW kinds, At(b, pc, kinds)
    PROVE  /\ CallOK(op[b]) /\ op[b] # Idle /\ {"k", "pc"} \subseteq DOMAIN op[b]
           /\ op[b].pc = pc /\ op[b].k \in kinds
  BY DEF Inv, CallsOK, CallOK, At

\* A call starts with nothing drawn: create_edge begins at pc "id".
LEMMA StartAsInv ==
    ASSUME Inv, NEW b \in Backends, NEW o, {"k", "pc"} \subseteq DOMAIN o,
           o.k \notin {"create_edge", "set_edge"} \/ CallOK(o),
           o.k = "create_edge" => o.pc = "id",
           StartAs(b, o)
    PROVE  Inv'
  <1> DEFINE q == Over([snap |-> committed, old |-> None], o)
  <1>1. /\ DOMAIN o \subseteq DOMAIN q
        /\ \A f \in DOMAIN o \ {"snap", "old"} : q[f] = o[f]
        /\ CallOK(q)
    BY StartedCall
  <1>2. q.k = o.k /\ q.pc = o.pc
    BY <1>1
  <1> HIDE DEF q
  <1>3. Go(b, q) /\ UNCHANGED <<edgeSeq, reservoir, resets, nodeSeq, ev>>
    BY DEF StartAs, q, seqs, store
  <1>4. xid' \in [Backends -> Nat] /\ nextXid' \in Nat
    <2>1. xid \in [Backends -> Nat] /\ nextXid \in Nat
      BY DEF Inv, SeqsOK
    <2>2. \/ xid' = xid /\ nextXid' = nextXid
          \/ xid' = [xid EXCEPT ![b] = nextXid] /\ nextXid' = nextXid + 1
      BY Zenon DEF StartAs
    <2> QED BY <2>1, <2>2
  <1>5. nodeSeq' \in Nat /\ ev' \in Seq(EdgeItem)
    BY <1>3 DEF Inv, SeqsOK
  <1>6. DOMAIN ev' = DOMAIN ev /\ \A i \in DOMAIN ev : Stored(i)' = Stored(i)
    BY <1>3 DEF Stored
  <1>7. o.k = "create_edge" => o.pc # "store"
    OBVIOUS
  <1>8. q.k = "create_edge" /\ q.pc = "store" => Drawn(b) /\ q.e = op[b].e
    BY <1>2, <1>7
  <1> QED BY <1>1, <1>3, <1>4, <1>5, <1>6, <1>8, CallStep

\* Each call that Start offers begins so.
LEMMA StartInv == ASSUME Inv, NEW b \in Backends, Start(b) PROVE Inv'
  <1>1. nodeSeq \in Nat
    BY DEF Inv, SeqsOK
  <1>2. ASSUME NEW ls, NEW v,
               StartAs(b, [k |-> "create_node", pc |-> "store", n |-> 0, ls |-> ls, v |-> v])
        PROVE  Inv'
    <2> DEFINE o == [k |-> "create_node", pc |-> "store", n |-> 0, ls |-> ls, v |-> v]
    <2>1. {"k", "pc"} \subseteq DOMAIN o /\ o.k = "create_node"
      OBVIOUS
    <2>2. StartAs(b, o)
      BY <1>2
    <2> HIDE DEF o
    <2> QED BY <2>1, <2>2, StartAsInv
  <1>3. ASSUME NEW n, NEW ls, NEW v,
               StartAs(b, [k |-> "update_node", pc |-> "load", n |-> n, ls |-> ls, v |-> v])
        PROVE  Inv'
    <2> DEFINE o == [k |-> "update_node", pc |-> "load", n |-> n, ls |-> ls, v |-> v]
    <2>1. {"k", "pc"} \subseteq DOMAIN o /\ o.k = "update_node"
      OBVIOUS
    <2>2. StartAs(b, o)
      BY <1>3
    <2> HIDE DEF o
    <2> QED BY <2>1, <2>2, StartAsInv
  <1>4. ASSUME NEW n, NEW l, NEW k \in {"add_label", "remove_label"},
               StartAs(b, [k |-> k, pc |-> "find", n |-> n, l |-> l, ls |-> {}, v |-> None])
        PROVE  Inv'
    <2> DEFINE o == [k |-> k, pc |-> "find", n |-> n, l |-> l, ls |-> {}, v |-> None]
    <2>1. {"k", "pc"} \subseteq DOMAIN o /\ o.k = k
      OBVIOUS
    <2>2. StartAs(b, o)
      BY <1>4
    <2> HIDE DEF o
    <2> QED BY <2>1, <2>2, StartAsInv
  <1>5. ASSUME NEW n, StartAs(b, [k |-> "delete_node", pc |-> "load", n |-> n])
        PROVE  Inv'
    <2> DEFINE o == [k |-> "delete_node", pc |-> "load", n |-> n]
    <2>1. {"k", "pc"} \subseteq DOMAIN o /\ o.k = "delete_node"
      OBVIOUS
    <2>2. StartAs(b, o)
      BY <1>5
    <2> HIDE DEF o
    <2> QED BY <2>1, <2>2, StartAsInv
  <1>6. ASSUME NEW n,
               StartAs(b, [k |-> "detach_delete", pc |-> "follow", n |-> n, e |-> 0, todo |-> {}, found |-> {}])
        PROVE  Inv'
    <2> DEFINE o == [k |-> "detach_delete", pc |-> "follow", n |-> n, e |-> 0, todo |-> {}, found |-> {}]
    <2>1. {"k", "pc"} \subseteq DOMAIN o /\ o.k = "detach_delete"
      OBVIOUS
    <2>2. StartAs(b, o)
      BY <1>6
    <2> HIDE DEF o
    <2> QED BY <2>1, <2>2, StartAsInv
  <1>7. ASSUME NEW s \in 1..nodeSeq, NEW t \in 1..nodeSeq, NEW v \in Values,
               StartAs(b, [k |-> "create_edge", pc |-> "id", e |-> 0, s |-> s, t |-> t, v |-> v])
        PROVE  Inv'
    <2> DEFINE o == [k |-> "create_edge", pc |-> "id", e |-> 0, s |-> s, t |-> t, v |-> v]
    <2>1. /\ DOMAIN o = {"k", "pc", "e", "s", "t", "v"}
          /\ o.k = "create_edge" /\ o.pc = "id" /\ o.e = 0 /\ o.s = s /\ o.t = t /\ o.v = v
      OBVIOUS
    <2>2. StartAs(b, o)
      BY <1>7
    <2>3. s \in Nat /\ t \in Nat
      BY <1>1
    <2> HIDE DEF o
    <2>4. CallOK(o)
      BY <2>1, <2>3 DEF CallOK
    <2> QED BY <2>1, <2>2, <2>4, StartAsInv
  <1>8. ASSUME NEW e, StartAs(b, [k |-> "delete_edge", pc |-> "load", e |-> e])
        PROVE  Inv'
    <2> DEFINE o == [k |-> "delete_edge", pc |-> "load", e |-> e]
    <2>1. {"k", "pc"} \subseteq DOMAIN o /\ o.k = "delete_edge"
      OBVIOUS
    <2>2. StartAs(b, o)
      BY <1>8
    <2> HIDE DEF o
    <2> QED BY <2>1, <2>2, StartAsInv
  <1>9. ASSUME NEW e, NEW v \in Values,
               StartAs(b, [k |-> "set_edge", pc |-> "load", e |-> e, v |-> v])
        PROVE  Inv'
    <2> DEFINE o == [k |-> "set_edge", pc |-> "load", e |-> e, v |-> v]
    <2>1. DOMAIN o = {"k", "pc", "e", "v"} /\ o.k = "set_edge" /\ o.v = v
      OBVIOUS
    <2>2. StartAs(b, o)
      BY <1>9
    <2> HIDE DEF o
    <2>3. CallOK(o)
      BY <2>1 DEF CallOK
    <2> QED BY <2>1, <2>2, <2>3, StartAsInv
  <1> QED BY <1>2, <1>3, <1>4, <1>5, <1>6, <1>7, <1>8, <1>9, Zenon DEF Start

\* The transaction's end leaves its reservoir and the relation alone.
LEMMA EndTxnInv ==
    ASSUME Inv, NEW b \in Backends, EndTxn(b), UNCHANGED <<store, seqs, nextXid, resets>>
    PROVE  Inv'
  <1>1. Go(b, Idle) /\ UNCHANGED <<edgeSeq, reservoir, resets, nodeSeq, nextXid, ev>>
    BY DEF EndTxn, seqs, store
  <1>2. xid' \in [Backends -> Nat]
    BY DEF EndTxn, Inv, SeqsOK
  <1>3. nodeSeq' \in Nat /\ nextXid' \in Nat /\ ev' \in Seq(EdgeItem)
    BY <1>1 DEF Inv, SeqsOK
  <1>4. DOMAIN ev' = DOMAIN ev /\ \A i \in DOMAIN ev : Stored(i)' = Stored(i)
    BY <1>1 DEF Stored
  <1>5. CallOK(Idle) /\ Idle.k # "create_edge"
    BY IdleCall
  <1> QED BY <1>1, <1>2, <1>3, <1>4, <1>5, CallStep

\* COMMIT.
LEMMA CommitInv == ASSUME Inv, NEW b \in Backends, Commit(b) PROVE Inv'
  <1>1. EndTxn(b) /\ UNCHANGED <<store, seqs, nextXid, resets>>
    BY DEF Commit
  <1> QED BY <1>1, EndTxnInv

\* ROLLBACK: ids it stored stay in the relation, drawn ones are lost.
LEMMA AbortInv == ASSUME Inv, NEW b \in Backends, Abort(b) PROVE Inv'
  <1>1. EndTxn(b) /\ UNCHANGED <<store, seqs, nextXid, resets>>
    BY DEF Abort
  <1> QED BY <1>1, EndTxnInv

\* An error aborts.
LEMMA FailInv == ASSUME Inv, NEW b \in Backends, Fail(b) PROVE Inv'
  BY AbortInv DEF Fail

\* A step of a call that leaves the edge items and every counter as they are.
LEMMA PlainStep ==
    ASSUME Inv, NEW b \in Backends, NEW o, CallOK(o), Go(b, o),
           UNCHANGED <<ev, seqs, resets, nextXid, xid>>,
           o.k = "create_edge" /\ o.pc = "store" => Drawn(b) /\ o.e = op[b].e
    PROVE  Inv'
  <1>1. UNCHANGED <<edgeSeq, reservoir, resets, nodeSeq, nextXid, xid, ev>>
    BY DEF seqs
  <1>2. nodeSeq' \in Nat /\ nextXid' \in Nat /\ ev' \in Seq(EdgeItem) /\ xid' \in [Backends -> Nat]
    BY <1>1 DEF Inv, SeqsOK
  <1>3. DOMAIN ev' = DOMAIN ev /\ \A i \in DOMAIN ev : Stored(i)' = Stored(i)
    BY <1>1 DEF Stored
  <1>4. UNCHANGED <<edgeSeq, reservoir, resets>>
    BY <1>1
  <1> QED BY <1>2, <1>3, <1>4, CallStep

\* The same for a call that neither makes nor sets an edge.
LEMMA OtherStep ==
    ASSUME Inv, NEW b \in Backends, NEW o,
           o = Idle \/ ({"k", "pc"} \subseteq DOMAIN o /\ o.k \notin {"create_edge", "set_edge"}),
           Go(b, o), UNCHANGED <<ev, seqs, resets, nextXid, xid>>
    PROVE  Inv'
  <1>1. CallOK(o) /\ o.k # "create_edge"
    BY IdleCall, OtherCall
  <1> QED BY <1>1, PlainStep

\* add_label and remove_label look up the node.
LEMMA FindNodeInv == ASSUME Inv, NEW b \in Backends, FindNode(b) PROVE Inv'
  <1> DEFINE o == op[b]
             r == OldNode(b, o.n)
             ls == IF o.k = "add_label" THEN r.labels \union {o.l} ELSE r.labels \ {o.l}
             q == [o EXCEPT !.pc = "load", !.v = r.v, !.ls = ls]
  <1>1. {"k", "pc"} \subseteq DOMAIN o /\ o.k \in {"add_label", "remove_label"}
    BY AtCall DEF FindNode
  <1>2. Go(b, Idle) \/ Go(b, q)
    BY Zenon DEF FindNode
  <1> HIDE DEF r, ls
  <1>3. {"k", "pc"} \subseteq DOMAIN q /\ q.k = o.k
    BY <1>1
  <1>4. UNCHANGED <<ev, seqs, resets, nextXid, xid>>
    BY DEF FindNode, store, quiet
  <1> HIDE DEF o, q
  <1> QED BY <1>1, <1>2, <1>3, <1>4, OtherStep

\* The old image is captured; create_edge has none to capture.
LEMMA LoadInv == ASSUME Inv, NEW b \in Backends, Load(b) PROVE Inv'
  <1> DEFINE o == op[b]
             old == IF o.k \in NodeWrites \union {"delete_node"}
                       \/ (o.k = "detach_delete" /\ o.e = 0)
                    THEN OldNode(b, o.n) ELSE OldEdge(b, o.e)
             q == [o EXCEPT !.pc = "store", !.old = old]
  <1>1. CallOK(o) /\ {"k", "pc"} \subseteq DOMAIN o /\ o # Idle /\ o.pc = "load"
    BY AtCall DEF Load
  <1>2. Go(b, q)
    BY Zenon DEF Load
  <1> HIDE DEF old
  <1>3. DOMAIN q = DOMAIN o /\ q.k = o.k
    BY <1>1
  <1>4. UNCHANGED <<ev, seqs, resets, nextXid, xid>>
    BY DEF Load, store, quiet
  <1>5. o.k # "create_edge"
    BY <1>1 DEF CallOK
  <1>6. CallOK(q)
    <2>1. ASSUME o.k = "set_edge" PROVE "v" \in DOMAIN q /\ q.v \in Values
      BY <1>1, <1>3, <2>1 DEF CallOK
    <2> HIDE DEF q
    <2> QED BY <1>1, <1>3, <1>5, <2>1 DEF CallOK
  <1> HIDE DEF o, q
  <1> QED BY <1>2, <1>3, <1>4, <1>5, <1>6, PlainStep

\* A new node takes the next node id.
LEMMA StoreNewNodeInv == ASSUME Inv, NEW b \in Backends, StoreNewNode(b) PROVE Inv'
  <1> DEFINE o == op[b]
             q == [o EXCEPT !.pc = "mirror", !.n = nodeSeq + 1]
  <1>1. {"k", "pc"} \subseteq DOMAIN o /\ o.k = "create_node"
    BY AtCall DEF StoreNewNode
  <1>2. Go(b, q) /\ nodeSeq' = nodeSeq + 1
    BY Zenon DEF StoreNewNode
  <1>3. {"k", "pc"} \subseteq DOMAIN q /\ q.k = o.k
    BY <1>1
  <1>4. UNCHANGED <<ev, edgeSeq, reservoir, resets, nextXid, xid>>
    BY DEF StoreNewNode, quiet
  <1> HIDE DEF o, q
  <1>5. CallOK(q) /\ q.k # "create_edge"
    BY <1>1, <1>3, OtherCall
  <1>6. nodeSeq' \in Nat /\ nextXid' \in Nat /\ ev' \in Seq(EdgeItem) /\ xid' \in [Backends -> Nat]
    BY <1>2, <1>4 DEF Inv, SeqsOK
  <1>7. DOMAIN ev' = DOMAIN ev /\ \A i \in DOMAIN ev : Stored(i)' = Stored(i)
    BY <1>4 DEF Stored
  <1> QED BY <1>2, <1>4, <1>5, <1>6, <1>7, CallStep

\* update_node, and delete_node after it: node versions only.
LEMMA StoreNodeInv == ASSUME Inv, NEW b \in Backends, StoreNode(b) PROVE Inv'
  <1> DEFINE o == op[b]
             q == [o EXCEPT !.pc = "mirror"]
  <1>1. {"k", "pc"} \subseteq DOMAIN o /\ o.k \in NodeWrites
    BY AtCall DEF StoreNode
  <1>2. Go(b, Idle) \/ Go(b, q)
    BY Zenon DEF StoreNode
  <1>3. {"k", "pc"} \subseteq DOMAIN q /\ q.k = o.k
    BY <1>1
  <1>4. UNCHANGED <<ev, seqs, resets, nextXid, xid>>
    BY DEF StoreNode, quiet
  <1> HIDE DEF o, q
  <1> QED BY <1>1, <1>2, <1>3, <1>4, OtherStep DEF NodeWrites

\* delete_node and detach_delete_node mark the node.
LEMMA StoreDeadNodeInv == ASSUME Inv, NEW b \in Backends, StoreDeadNode(b) PROVE Inv'
  <1> DEFINE o == op[b]
             q == [o EXCEPT !.pc = "mirror"]
  <1>1. {"k", "pc"} \subseteq DOMAIN o /\ o.k \in NodeDeletes
    BY AtCall DEF StoreDeadNode
  <1>2. Go(b, Idle) \/ Go(b, q)
    BY Zenon DEF StoreDeadNode
  <1>3. {"k", "pc"} \subseteq DOMAIN q /\ q.k = o.k
    BY <1>1
  <1>4. UNCHANGED <<ev, seqs, resets, nextXid, xid>>
    BY DEF StoreDeadNode, quiet
  <1> HIDE DEF o, q
  <1> QED BY <1>1, <1>2, <1>3, <1>4, OtherStep DEF NodeDeletes

\* detach_delete_node collects the edges of the node.
LEMMA FollowInv == ASSUME Inv, NEW b \in Backends, Follow(b) PROVE Inv'
  <1> DEFINE o == op[b]
             es == Attached(o.n)
             q == [o EXCEPT !.todo = es, !.found = es]
  <1>1. {"k", "pc"} \subseteq DOMAIN o /\ o.k = "detach_delete"
    BY AtCall DEF Follow
  <1>2. Go(b, NextEdge(q))
    BY Zenon DEF Follow
  <1> HIDE DEF es
  <1>3. {"k", "pc"} \subseteq DOMAIN q /\ q.k = o.k
    BY <1>1
  <1>4. UNCHANGED <<ev, seqs, resets, nextXid, xid>>
    BY DEF Follow, store, quiet
  <1> HIDE DEF o, q
  <1>5. CallOK(NextEdge(q)) /\ NextEdge(q).k # "create_edge"
    BY <1>1, <1>3, NextEdgeCall
  <1> QED BY <1>2, <1>4, <1>5, PlainStep

\* The mirror row: a create_edge has stored its id before.
LEMMA MirrorWriteInv == ASSUME Inv, NEW b \in Backends, MirrorWrite(b) PROVE Inv'
  <1> DEFINE o == op[b]
             p == IF o.old = None /\ o.k \notin {"create_node", "create_edge"}
                  THEN "fail" ELSE "emit"
             q == [o EXCEPT !.pc = p]
  <1>1. CallOK(o) /\ {"k", "pc"} \subseteq DOMAIN o /\ o # Idle
    BY AtCall DEF MirrorWrite
  <1>2. Go(b, q)
    BY Zenon DEF MirrorWrite
  <1>3. p \in {"fail", "emit"} /\ (o.k = "create_edge" => p = "emit")
    OBVIOUS
  <1>4. UNCHANGED <<ev, seqs, resets, nextXid, xid>>
    BY DEF MirrorWrite, store, quiet
  <1> HIDE DEF p, o
  <1>5. CallOK(q) /\ q.k = o.k /\ q.pc = p
    BY <1>1, <1>3, Moved
  <1> HIDE DEF q
  <1> QED BY <1>2, <1>3, <1>4, <1>5, PlainStep

\* The message and the index rows end a call, or an edge of detach_delete.
LEMMA EmitInv == ASSUME Inv, NEW b \in Backends, Emit(b) PROVE Inv'
  <1> DEFINE o == op[b]
  <1>1. {"k", "pc"} \subseteq DOMAIN o
    BY AtCall DEF Emit
  <1>2. Go(b, Idle) \/ (o.k = "detach_delete" /\ Go(b, NextEdge(o)))
    BY Zenon DEF Emit
  <1>3. UNCHANGED <<ev, seqs, resets, nextXid, xid>>
    BY DEF Emit, store, quiet
  <1>4. CASE Go(b, Idle)
    BY <1>3, <1>4, OtherStep
  <1>5. CASE o.k = "detach_delete" /\ Go(b, NextEdge(o))
    <2>1. CallOK(NextEdge(o)) /\ NextEdge(o).k # "create_edge"
      BY <1>1, <1>5, NextEdgeCall
    <2> QED BY <1>3, <1>5, <2>1, PlainStep
  <1> QED BY <1>2, <1>4, <1>5

\* The edges' index rows go.
LEMMA UnindexInv == ASSUME Inv, NEW b \in Backends, Unindex(b) PROVE Inv'
  <1> DEFINE o == op[b]
             q == [o EXCEPT !.pc = "load"]
  <1>1. {"k", "pc"} \subseteq DOMAIN o /\ o.k = "detach_delete"
    BY AtCall DEF Unindex
  <1>2. Go(b, q)
    BY DEF Unindex
  <1>3. {"k", "pc"} \subseteq DOMAIN q /\ q.k = o.k
    BY <1>1
  <1>4. UNCHANGED <<ev, seqs, resets, nextXid, xid>>
    BY DEF Unindex, store, quiet
  <1> HIDE DEF o, q
  <1> QED BY <1>1, <1>2, <1>3, <1>4, OtherStep

\* clear() restarts the sequence: the promise on ids ends there.
LEMMA ClearInv == ASSUME Inv, NEW b \in Backends, Clear(b) PROVE Inv'
  <1>1. resets' # 0 /\ resets' \in Nat
    BY DEF Clear, Inv, SeqsOK
  <1>2. SeqsOK'
    BY <1>1 DEF Clear, Inv, SeqsOK
  <1>3. CallsOK'
    BY DEF Clear, Inv, CallsOK
  <1> QED BY <1>1, <1>2, <1>3 DEF Inv

\* A rebuild reads the relation.
LEMMA RebuildInv == ASSUME Inv, NEW b \in Backends, Rebuild(b) PROVE Inv'
  <1>1. UNCHANGED <<ev, op, xid, nextXid, resets, nodeSeq, edgeSeq, reservoir>>
    BY DEF Rebuild, store, seqs
  <1> QED BY <1>1 DEF Inv, SeqsOK, CallsOK, IdsOnce, Drawn, Stored

-----------------------------------------------------------------------------
(* The steps that move ids.                                                *)

\* The ids a session is about to draw from: what its reservoir holds or, when
\* that is empty, a fresh batch above everything the sequence gave before.
Supply(b) == IF reservoir[b] # <<>> THEN reservoir[b] ELSE Batch(edgeSeq)

\* A stored id is a number.
LEMMA StoredId == ASSUME SeqsOK PROVE \A i \in DOMAIN ev : Stored(i) \in Nat
  <1>1. ASSUME NEW i \in DOMAIN ev PROVE Stored(i) \in Nat
    <2>1. ev[i] \in EdgeItem
      BY DEF SeqsOK
    <2> QED BY <2>1 DEF EdgeItem, Stored
  <1> QED BY <1>1

\* A supply holds distinct ids that nobody else has.
LEMMA SupplyIsOwn ==
    ASSUME SeqsOK, IdsOnce, NEW b \in Backends,
           edgeSeq' = IF reservoir[b] # <<>> THEN edgeSeq ELSE edgeSeq + IdBatch
    PROVE  /\ edgeSeq' \in Nat /\ edgeSeq <= edgeSeq'
           /\ \A k \in DOMAIN Supply(b) : Supply(b)[k] <= edgeSeq'
           /\ \A k, m \in DOMAIN Supply(b) : Supply(b)[k] = Supply(b)[m] => k = m
           /\ \A i \in DOMAIN ev : \A k \in DOMAIN Supply(b) : Stored(i) # Supply(b)[k]
           /\ \A c \in Backends \ {b} : \A m \in DOMAIN reservoir[c] :
                \A k \in DOMAIN Supply(b) : reservoir[c][m] # Supply(b)[k]
           /\ \A c \in Backends : Drawn(c) =>
                \A k \in DOMAIN Supply(b) : op[c].e # Supply(b)[k]
  <1>1. CASE reservoir[b] # <<>>
    <2>1. Supply(b) = reservoir[b] /\ edgeSeq' = edgeSeq /\ edgeSeq \in Nat
      BY <1>1 DEF Supply, SeqsOK
    <2>2. edgeSeq' \in Nat /\ edgeSeq <= edgeSeq'
      BY <2>1
    <2> HIDE DEF Drawn, Stored
    <2>3. \A k \in DOMAIN Supply(b) : Supply(b)[k] <= edgeSeq'
      BY <2>1 DEF IdsOnce
    <2>4. \A k, m \in DOMAIN Supply(b) : Supply(b)[k] = Supply(b)[m] => k = m
      BY <2>1 DEF IdsOnce
    <2>5. \A i \in DOMAIN ev : \A k \in DOMAIN Supply(b) : Stored(i) # Supply(b)[k]
      BY <2>1 DEF IdsOnce
    <2>6. ASSUME NEW c \in Backends \ {b}, NEW m \in DOMAIN reservoir[c], NEW k \in DOMAIN Supply(b)
          PROVE  reservoir[c][m] # Supply(b)[k]
      <3>1. c # b /\ c \in Backends /\ k \in DOMAIN reservoir[b] /\ Supply(b)[k] = reservoir[b][k]
        BY <2>1
      <3> QED BY <3>1, Zenon DEF IdsOnce
    <2>7. ASSUME NEW c \in Backends, Drawn(c), NEW k \in DOMAIN Supply(b)
          PROVE  op[c].e # Supply(b)[k]
      BY <2>1, <2>7, Zenon DEF IdsOnce
    <2> HIDE DEF Supply
    <2> QED BY <2>2, <2>3, <2>4, <2>5, <2>6, <2>7
  <1>2. CASE reservoir[b] = <<>>
    <2>1. Supply(b) = [i \in 1..IdBatch |-> edgeSeq + i] /\ edgeSeq' = edgeSeq + IdBatch
      BY <1>2 DEF Supply, Batch
    <2>2. edgeSeq \in Nat /\ IdBatch \in Nat
      BY BatchSize DEF SeqsOK
    <2>3. edgeSeq' \in Nat /\ edgeSeq <= edgeSeq'
      BY <2>1, <2>2
    <2>4. DOMAIN Supply(b) = 1..IdBatch
          /\ \A k \in DOMAIN Supply(b) : Supply(b)[k] = edgeSeq + k
      BY <2>1
    <2>5. \A k \in DOMAIN Supply(b) : Supply(b)[k] <= edgeSeq' /\ Supply(b)[k] > edgeSeq
      BY <2>1, <2>2, <2>4
    <2>6. \A k, m \in DOMAIN Supply(b) : Supply(b)[k] = Supply(b)[m] => k = m
      BY <2>2, <2>4
    <2>7. ASSUME NEW i \in DOMAIN ev, NEW k \in DOMAIN Supply(b)
          PROVE  Stored(i) # Supply(b)[k]
      <3>1. Stored(i) \in Nat
        BY StoredId
      <3>2. Stored(i) <= edgeSeq
        BY DEF IdsOnce
      <3>3. Supply(b)[k] > edgeSeq /\ Supply(b)[k] \in Nat
        BY <2>2, <2>4, <2>5
      <3> HIDE DEF Stored, Supply
      <3> QED BY <2>2, <3>1, <3>2, <3>3
    <2>8. ASSUME NEW c \in Backends, NEW m \in DOMAIN reservoir[c], NEW k \in DOMAIN Supply(b)
          PROVE  reservoir[c][m] # Supply(b)[k]
      <3>1. reservoir[c][m] \in Nat
        BY DEF SeqsOK
      <3>2. reservoir[c][m] <= edgeSeq
        BY DEF IdsOnce
      <3>3. Supply(b)[k] > edgeSeq /\ Supply(b)[k] \in Nat
        BY <2>2, <2>4, <2>5
      <3> HIDE DEF Supply
      <3> QED BY <2>2, <3>1, <3>2, <3>3
    <2>9. ASSUME NEW c \in Backends, Drawn(c), NEW k \in DOMAIN Supply(b)
          PROVE  op[c].e # Supply(b)[k]
      <3>2. op[c].e <= edgeSeq
        BY <2>9, Zenon DEF IdsOnce
      <3>3. Supply(b)[k] > edgeSeq /\ Supply(b)[k] \in Nat
        BY <2>2, <2>4, <2>5
      <3> HIDE DEF Supply, Drawn
      <3> QED BY <2>2, <3>2, <3>3
    <2> HIDE DEF Supply, Stored, Drawn
    <2> QED BY <2>3, <2>5, <2>6, <2>7, <2>8, <2>9, Zenon
  <1> QED BY <1>1, <1>2

\* The supply is a sequence, with at least one id.
LEMMA SupplySeq ==
    ASSUME SeqsOK, NEW b \in Backends
    PROVE  Supply(b) \in Seq(Nat) /\ Len(Supply(b)) > 0
  <1>1. reservoir[b] \in Seq(Nat) /\ edgeSeq \in Nat /\ IdBatch \in Nat /\ IdBatch > 0
    BY BatchSize DEF SeqsOK
  <1>2. CASE reservoir[b] # <<>>
    <2>1. Supply(b) = reservoir[b]
      BY <1>2 DEF Supply
    <2> QED BY <1>1, <1>2, <2>1
  <1>3. CASE reservoir[b] = <<>>
    <2>1. Supply(b) = [i \in 1..IdBatch |-> edgeSeq + i]
      BY <1>3 DEF Supply, Batch
    <2>2. \A i \in 1..IdBatch : edgeSeq + i \in Nat
      BY <1>1
    <2> QED BY <1>1, <2>1, <2>2
  <1> QED BY <1>2, <1>3

\* next_edge_id: the first id of the supply moves to the call.
LEMMA NextEdgeIdInv == ASSUME Inv, NEW b \in Backends, NextEdgeId(b) PROVE Inv'
  <1> DEFINE o == op[b]
             r == Supply(b)
             q == [o EXCEPT !.pc = "store", !.e = Head(r)]
  <1>1. CallOK(o) /\ o # Idle /\ {"k", "pc"} \subseteq DOMAIN o /\ o.k = "create_edge"
    BY AtCall DEF NextEdgeId
  <1>2. r \in Seq(Nat) /\ Len(r) > 0
    BY SupplySeq DEF Inv
  <1>3. Head(r) \in Nat /\ Head(r) = r[1] /\ 1 \in DOMAIN r
        /\ Tail(r) \in Seq(Nat) /\ DOMAIN Tail(r) = 1..(Len(r) - 1)
        /\ \A k \in DOMAIN Tail(r) : Tail(r)[k] = r[k + 1] /\ k + 1 \in DOMAIN r /\ k \in Nat /\ k > 0
    <2> HIDE DEF r
    <2> QED BY <1>2
  <1>4. /\ edgeSeq' = IF reservoir[b] # <<>> THEN edgeSeq ELSE edgeSeq + IdBatch
        /\ reservoir' = [reservoir EXCEPT ![b] = Tail(r)]
        /\ Go(b, q)
    BY Zenon DEF NextEdgeId, Refill, Supply
  <1>5. UNCHANGED <<ev, nodeSeq, nextXid, xid, resets>>
    BY DEF NextEdgeId, store, quiet
  <1> HIDE DEF r
  <1>6. CallOK(q) /\ q.k = "create_edge" /\ q.pc = "store" /\ q.e = r[1]
    <2>1. DOMAIN q = DOMAIN o /\ {"e", "s", "t", "v", "pc", "k"} \subseteq DOMAIN o
      BY <1>1 DEF CallOK
    <2>2. q.k = "create_edge" /\ q.pc = "store" /\ q.e = r[1]
      BY <1>1, <1>3, <2>1
    <2>3. q.s = o.s /\ q.t = o.t /\ q.v = o.v
      BY <2>1
    <2> HIDE DEF q
    <2> QED BY <1>1, <1>3, <2>1, <2>2, <2>3 DEF CallOK
  <1> HIDE DEF q, o
  <1>7. CallsOK' /\ op'[b] = q /\ \A c \in Backends \ {b} : op'[c] = op[c]
    BY <1>4, <1>6, WentTo DEF Inv
  <1>8. reservoir'[b] = Tail(r) /\ \A c \in Backends \ {b} : reservoir'[c] = reservoir[c]
    BY <1>4 DEF Inv, SeqsOK
  <1>9. SeqsOK'
    <2>1. SeqsOK
      BY DEF Inv
    <2>2. edgeSeq' \in Nat
      BY <1>4, <2>1, BatchSize DEF SeqsOK
    <2>3. reservoir' \in [Backends -> Seq(Nat)]
      BY <1>3, <1>4, <2>1 DEF SeqsOK
    <2> QED BY <1>5, <2>1, <2>2, <2>3 DEF SeqsOK
  <1>10. ASSUME resets = 0 PROVE IdsOnce'
    <2>1. IdsOnce /\ SeqsOK
      BY <1>10 DEF Inv
    <2>2. /\ edgeSeq' \in Nat /\ edgeSeq \in Nat /\ edgeSeq <= edgeSeq'
          /\ \A k \in DOMAIN r : r[k] <= edgeSeq'
          /\ \A k, m \in DOMAIN r : r[k] = r[m] => k = m
          /\ \A i \in DOMAIN ev : \A k \in DOMAIN r : Stored(i) # r[k]
          /\ \A c \in Backends \ {b} : \A m \in DOMAIN reservoir[c] :
               \A k \in DOMAIN r : reservoir[c][m] # r[k]
          /\ \A c \in Backends : Drawn(c) => \A k \in DOMAIN r : op[c].e # r[k]
      <3>1. edgeSeq \in Nat
        BY <2>1 DEF SeqsOK
      <3> QED BY <1>4, <2>1, <3>1, SupplyIsOwn, Zenon DEF r
    <2>3. \A i \in DOMAIN ev' : Stored(i)' = Stored(i) /\ Stored(i) \in Nat /\ i \in DOMAIN ev
      <3>1. ev' = ev
        BY <1>5
      <3> QED BY <2>1, <3>1, StoredId DEF Stored
    <2>4. Drawn(b)' /\ op'[b].e = r[1]
      BY <1>6, <1>7 DEF Drawn
    <2>5. \A c \in Backends \ {b} : Drawn(c)' = Drawn(c) /\ op'[c].e = op[c].e
      BY <1>7 DEF Drawn
    <2>6. \A k \in DOMAIN reservoir'[b] : reservoir'[b][k] = r[k + 1] /\ k + 1 \in DOMAIN r
                                          /\ k \in Nat /\ k > 0
      BY <1>3, <1>8
    <2>7. 1 \in DOMAIN r
      BY <1>3
    <2>8. \A i \in DOMAIN ev' : Stored(i)' <= edgeSeq'
      <3>1. ASSUME NEW i \in DOMAIN ev' PROVE Stored(i)' <= edgeSeq'
        <4>1. Stored(i)' = Stored(i) /\ Stored(i) \in Nat
          BY <2>3
        <4>2. Stored(i) <= edgeSeq
          BY <2>1, <2>3 DEF IdsOnce
        <4> HIDE DEF Stored
        <4> QED BY <2>2, <4>1, <4>2
      <3> QED BY <3>1
    <2>9. ASSUME NEW c \in Backends, NEW k \in DOMAIN reservoir'[c]
          PROVE  reservoir'[c][k] <= edgeSeq'
      <3>1. CASE c = b
        BY <2>2, <2>6, <3>1
      <3>2. CASE c # b
        <4>1. k \in DOMAIN reservoir[c] /\ reservoir'[c][k] = reservoir[c][k]
          BY <1>8, <3>2
        <4>2. reservoir[c][k] \in Nat /\ reservoir[c][k] <= edgeSeq
          BY <2>1, <4>1 DEF IdsOnce, SeqsOK
        <4> QED BY <2>2, <4>1, <4>2
      <3> QED BY <3>1, <3>2
    <2>10. ASSUME NEW c \in Backends, Drawn(c)' PROVE op'[c].e <= edgeSeq'
      <3>1. CASE c = b
        BY <2>2, <2>4, <2>7, <3>1
      <3>2. CASE c # b
        <4>1. Drawn(c) /\ op'[c].e = op[c].e
          BY <2>5, <2>10, <3>2
        <4>2. op[c].e <= edgeSeq
          BY <2>1, <4>1, Zenon DEF IdsOnce
        <4>3. op[c].e \in Nat
          BY <4>1 DEF Drawn, Inv, CallsOK, CallOK, Idle
        <4> QED BY <2>2, <4>1, <4>2, <4>3
      <3> QED BY <3>1, <3>2
    <2>11. ASSUME NEW i \in DOMAIN ev', NEW j \in DOMAIN ev', Stored(i)' = Stored(j)' PROVE i = j
      <3> HIDE DEF Stored
      <3> QED BY <2>1, <2>3, <2>11, Zenon DEF IdsOnce
    <2>12. ASSUME NEW i \in DOMAIN ev', NEW c \in Backends, NEW k \in DOMAIN reservoir'[c]
           PROVE  Stored(i)' # reservoir'[c][k]
      <3> HIDE DEF Stored
      <3>1. Stored(i)' = Stored(i) /\ i \in DOMAIN ev
        BY <2>3
      <3>2. CASE c = b
        <4>1. reservoir'[c][k] = r[k + 1] /\ k + 1 \in DOMAIN r
          BY <2>6, <3>2
        <4>2. Stored(i) # r[k + 1]
          BY <2>2, <3>1, <4>1, Zenon
        <4> QED BY <3>1, <4>1, <4>2
      <3>3. CASE c # b
        <4>1. k \in DOMAIN reservoir[c] /\ reservoir'[c][k] = reservoir[c][k]
          BY <1>8, <3>3
        <4>2. Stored(i) # reservoir[c][k]
          BY <2>1, <3>1, <4>1, Zenon DEF IdsOnce
        <4> QED BY <3>1, <4>1, <4>2
      <3> QED BY <3>2, <3>3
    <2>13. ASSUME NEW i \in DOMAIN ev', NEW c \in Backends, Drawn(c)'
           PROVE  Stored(i)' # op'[c].e
      <3> HIDE DEF Stored
      <3>1. Stored(i)' = Stored(i) /\ i \in DOMAIN ev
        BY <2>3
      <3>2. CASE c = b
        <4>1. Stored(i) # r[1]
          BY <2>2, <2>7, <3>1, Zenon
        <4> QED BY <2>4, <3>1, <3>2, <4>1
      <3>3. CASE c # b
        <4>1. Drawn(c) /\ op'[c].e = op[c].e
          BY <2>5, <2>13, <3>3
        <4>2. Stored(i) # op[c].e
          BY <2>1, <3>1, <4>1, Zenon DEF IdsOnce
        <4> QED BY <3>1, <4>1, <4>2
      <3> QED BY <3>2, <3>3
    <2>14. ASSUME NEW c \in Backends, NEW d \in Backends,
                  NEW k \in DOMAIN reservoir'[c], NEW m \in DOMAIN reservoir'[d],
                  reservoir'[c][k] = reservoir'[d][m]
           PROVE  c = d /\ k = m
      <3>1. CASE c = b /\ d = b
        <4>1. r[k + 1] = r[m + 1] /\ k + 1 \in DOMAIN r /\ m + 1 \in DOMAIN r
              /\ k \in Nat /\ m \in Nat
          BY <2>6, <2>14, <3>1
        <4>2. k + 1 = m + 1
          BY <2>2, <4>1, Zenon
        <4> QED BY <3>1, <4>1, <4>2
      <3>2. CASE c = b /\ d # b
        <4>1. reservoir'[c][k] = r[k + 1] /\ k + 1 \in DOMAIN r
          BY <2>6, <3>2
        <4>2. reservoir'[d][m] = reservoir[d][m] /\ m \in DOMAIN reservoir[d] /\ d \in Backends \ {b}
          BY <1>8, <3>2
        <4>3. reservoir[d][m] # r[k + 1]
          BY <2>2, <4>1, <4>2, Zenon
        <4> QED BY <2>14, <4>1, <4>2, <4>3
      <3>3. CASE c # b /\ d = b
        <4>1. reservoir'[d][m] = r[m + 1] /\ m + 1 \in DOMAIN r
          BY <2>6, <3>3
        <4>2. reservoir'[c][k] = reservoir[c][k] /\ k \in DOMAIN reservoir[c] /\ c \in Backends \ {b}
          BY <1>8, <3>3
        <4>3. reservoir[c][k] # r[m + 1]
          BY <2>2, <4>1, <4>2, Zenon
        <4> QED BY <2>14, <4>1, <4>2, <4>3
      <3>4. CASE c # b /\ d # b
        <4>1. reservoir'[c] = reservoir[c] /\ reservoir'[d] = reservoir[d]
          BY <1>8, <3>4
        <4>2. k \in DOMAIN reservoir[c] /\ m \in DOMAIN reservoir[d]
              /\ reservoir[c][k] = reservoir[d][m]
          BY <2>14, <4>1
        <4>3. \A x, y \in Backends : \A h \in DOMAIN reservoir[x] : \A l \in DOMAIN reservoir[y] :
                reservoir[x][h] = reservoir[y][l] => x = y /\ h = l
          BY <2>1 DEF IdsOnce
        <4> HIDE DEF Stored, Drawn
        <4> QED BY <4>2, <4>3, Zenon
      <3> QED BY <3>1, <3>2, <3>3, <3>4
    <2>15. ASSUME NEW c \in Backends, NEW d \in Backends, Drawn(c)',
                  NEW m \in DOMAIN reservoir'[d]
           PROVE  op'[c].e # reservoir'[d][m]
      <3>1. CASE c = b /\ d = b
        <4>1. reservoir'[d][m] = r[m + 1] /\ m + 1 \in DOMAIN r /\ m + 1 # 1
          BY <2>6, <3>1
        <4>2. r[1] # r[m + 1]
          BY <2>2, <2>7, <4>1, Zenon
        <4> QED BY <2>4, <3>1, <4>1, <4>2
      <3>2. CASE c = b /\ d # b
        <4>1. reservoir'[d][m] = reservoir[d][m] /\ m \in DOMAIN reservoir[d] /\ d \in Backends \ {b}
          BY <1>8, <3>2
        <4>2. reservoir[d][m] # r[1]
          BY <2>2, <2>7, <4>1, Zenon
        <4> QED BY <2>4, <3>2, <4>1, <4>2
      <3>3. CASE c # b /\ d = b
        <4>1. reservoir'[d][m] = r[m + 1] /\ m + 1 \in DOMAIN r
          BY <2>6, <3>3
        <4>2. Drawn(c) /\ op'[c].e = op[c].e
          BY <2>5, <2>15, <3>3
        <4>3. op[c].e # r[m + 1]
          BY <2>2, <4>1, <4>2, Zenon
        <4> QED BY <4>1, <4>2, <4>3
      <3>4. CASE c # b /\ d # b
        <4>1. reservoir'[d] = reservoir[d]
          BY <1>8, <3>4
        <4>2. Drawn(c) /\ op'[c].e = op[c].e
          BY <2>5, <2>15, <3>4
        <4>3. op[c].e # reservoir[d][m]
          BY <2>1, <4>1, <4>2, Zenon DEF IdsOnce
        <4> QED BY <4>1, <4>2, <4>3
      <3> QED BY <3>1, <3>2, <3>3, <3>4
    <2>16. ASSUME NEW c \in Backends, NEW d \in Backends, Drawn(c)', Drawn(d)',
                  op'[c].e = op'[d].e
           PROVE  c = d
      <3>1. CASE c = b /\ d # b
        <4>1. Drawn(d) /\ op'[d].e = op[d].e
          BY <2>5, <2>16, <3>1
        <4>2. op[d].e # r[1]
          BY <2>2, <2>7, <4>1, Zenon
        <4> QED BY <2>4, <2>16, <3>1, <4>1, <4>2
      <3>2. CASE c # b /\ d = b
        <4>1. Drawn(c) /\ op'[c].e = op[c].e
          BY <2>5, <2>16, <3>2
        <4>2. op[c].e # r[1]
          BY <2>2, <2>7, <4>1, Zenon
        <4> QED BY <2>4, <2>16, <3>2, <4>1, <4>2
      <3>3. CASE c # b /\ d # b
        <4>1. Drawn(c) /\ op'[c].e = op[c].e /\ Drawn(d) /\ op'[d].e = op[d].e
          BY <2>5, <2>16, <3>3
        <4>2. op[c].e = op[d].e
          BY <2>16, <4>1
        <4> QED BY <2>1, <4>1, <4>2, Zenon DEF IdsOnce
      <3> QED BY <3>1, <3>2, <3>3
    <2> HIDE DEF Stored, Drawn
    <2> QED BY <2>8, <2>9, <2>10, <2>11, <2>12, <2>13, <2>14, <2>15, <2>16, Zenon DEF IdsOnce, Stored, Drawn
  <1> QED BY <1>5, <1>7, <1>9, <1>10 DEF Inv

\* insert_edge: the drawn id moves from the call to the relation.
LEMMA StoreNewEdgeInv == ASSUME Inv, NEW b \in Backends, StoreNewEdge(b) PROVE Inv'
  <1> DEFINE o == op[b]
             q == [o EXCEPT !.pc = "mirror"]
             it == [row |-> EdgeRow(o.e, o.s, o.t, o.v), xmin |-> xid[b], dead |-> FALSE]
  <1>1. /\ CallOK(o) /\ o # Idle /\ {"k", "pc"} \subseteq DOMAIN o
        /\ o.k = "create_edge" /\ o.pc = "store"
    BY AtCall DEF StoreNewEdge
  <1>2. Go(b, q) /\ ev' = Append(ev, it)
    BY Zenon DEF StoreNewEdge
  <1>3. UNCHANGED <<edgeSeq, reservoir, nodeSeq, nextXid, xid, resets>>
    BY DEF StoreNewEdge, seqs, quiet
  <1>4. SeqsOK /\ CallsOK /\ xid[b] \in Nat /\ ev \in Seq(EdgeItem)
    BY DEF Inv, SeqsOK
  <1>5. it \in EdgeItem /\ it.row.id = o.e /\ o.e \in Nat
    BY <1>1, <1>4 DEF EdgeItem, EdgeRow, CallOK
  <1>6. Drawn(b)
    BY <1>1 DEF Drawn
  <1>7. CallOK(q) /\ q.pc = "mirror"
    <2> HIDE DEF o, q
    <2>1. "mirror" \in {"id", "store", "mirror", "emit"}
      OBVIOUS
    <2> QED BY <1>1, <2>1, Moved DEF q
  <1> HIDE DEF it, q
  <1>8. CallsOK' /\ op'[b] = q /\ \A c \in Backends \ {b} : op'[c] = op[c]
    BY <1>2, <1>4, <1>7, WentTo
  <1>9. /\ ev' \in Seq(EdgeItem)
        /\ DOMAIN ev = 1..Len(ev) /\ DOMAIN ev' = 1..(Len(ev) + 1) /\ Len(ev) \in Nat
        /\ ev'[Len(ev) + 1] = it /\ \A i \in DOMAIN ev : ev'[i] = ev[i]
    BY <1>2, <1>4, <1>5
  <1>10. SeqsOK'
    BY <1>3, <1>4, <1>9 DEF SeqsOK
  <1>11. ~Drawn(b)'
    BY <1>7, <1>8 DEF Drawn
  <1>12. \A c \in Backends : Drawn(c)' => Drawn(c) /\ c # b /\ op'[c].e = op[c].e
    <2>1. ASSUME NEW c \in Backends, Drawn(c)' PROVE Drawn(c) /\ c # b /\ op'[c].e = op[c].e
      <3>1. c # b
        BY <1>11, <2>1
      <3>2. op'[c] = op[c]
        BY <1>8, <3>1
      <3> QED BY <2>1, <3>1, <3>2 DEF Drawn
    <2> QED BY <2>1
  <1>13. ASSUME NEW i \in DOMAIN ev'
         PROVE  \/ i \in DOMAIN ev /\ Stored(i)' = Stored(i)
                \/ i = Len(ev) + 1 /\ Stored(i)' = o.e
    <2>1. CASE i \in DOMAIN ev
      BY <1>9, <2>1 DEF Stored
    <2>2. CASE i \notin DOMAIN ev
      BY <1>5, <1>9, <2>2 DEF Stored
    <2> QED BY <2>1, <2>2
  <1> HIDE DEF Drawn, Stored
  <1>14. ASSUME resets = 0 PROVE IdsOnce'
    <2>1. IdsOnce
      BY <1>14 DEF Inv
    <2>2. \A i \in DOMAIN ev : Stored(i) # o.e
      BY <1>6, <2>1 DEF IdsOnce
    <2>3. o.e <= edgeSeq
      BY <1>6, <2>1 DEF IdsOnce
    <2>4. \A c \in Backends : \A m \in DOMAIN reservoir[c] : o.e # reservoir[c][m]
      BY <1>6, <2>1 DEF IdsOnce
    <2>5. \A c \in Backends : Drawn(c) /\ op[c].e = o.e => b = c
      BY <1>6, <2>1 DEF IdsOnce
    <2>6. \A i \in DOMAIN ev : Stored(i) <= edgeSeq
      BY <2>1 DEF IdsOnce
    <2>7. \A i, j \in DOMAIN ev : Stored(i) = Stored(j) => i = j
      BY <2>1 DEF IdsOnce
    <2>8. \A i \in DOMAIN ev : \A c \in Backends :
            \A k \in DOMAIN reservoir[c] : Stored(i) # reservoir[c][k]
      BY <2>1 DEF IdsOnce
    <2>9. \A i \in DOMAIN ev : \A c \in Backends : Drawn(c) => Stored(i) # op[c].e
      BY <2>1 DEF IdsOnce
    <2> HIDE DEF o
    <2>10. \A i \in DOMAIN ev' : Stored(i)' <= edgeSeq'
      BY <1>3, <1>13, <2>3, <2>6
    <2>11. ASSUME NEW i \in DOMAIN ev', NEW j \in DOMAIN ev', Stored(i)' = Stored(j)' PROVE i = j
      <3>1. CASE i \in DOMAIN ev /\ j \in DOMAIN ev
        <4>1. Stored(i)' = Stored(i) /\ Stored(j)' = Stored(j)
          BY <1>9, <3>1 DEF Stored
        <4> QED BY <2>7, <2>11, <3>1, <4>1
      <3>2. CASE i \notin DOMAIN ev /\ j \in DOMAIN ev
        <4>1. Stored(i)' = o.e /\ Stored(j)' = Stored(j)
          BY <1>9, <1>13, <3>2 DEF Stored
        <4> QED BY <2>2, <2>11, <3>2, <4>1
      <3>3. CASE i \in DOMAIN ev /\ j \notin DOMAIN ev
        <4>1. Stored(i)' = Stored(i) /\ Stored(j)' = o.e
          BY <1>9, <1>13, <3>3 DEF Stored
        <4> QED BY <2>2, <2>11, <3>3, <4>1
      <3>4. CASE i \notin DOMAIN ev /\ j \notin DOMAIN ev
        BY <1>13, <3>4
      <3> QED BY <3>1, <3>2, <3>3, <3>4
    <2>12. ASSUME NEW i \in DOMAIN ev', NEW c \in Backends, NEW k \in DOMAIN reservoir'[c]
           PROVE  Stored(i)' # reservoir'[c][k]
      <3>1. reservoir' = reservoir /\ k \in DOMAIN reservoir[c]
        BY <1>3, <2>12
      <3> QED BY <1>13, <2>4, <2>8, <3>1
    <2>13. ASSUME NEW i \in DOMAIN ev', NEW c \in Backends, Drawn(c)'
           PROVE  Stored(i)' # op'[c].e
      <3>1. Drawn(c) /\ c # b /\ op'[c].e = op[c].e
        BY <1>12, <2>13
      <3> QED BY <1>13, <2>5, <2>9, <3>1
    <2>14. /\ \A c \in Backends : \A k \in DOMAIN reservoir'[c] : reservoir'[c][k] <= edgeSeq'
           /\ \A c, d \in Backends : \A k \in DOMAIN reservoir'[c] : \A m \in DOMAIN reservoir'[d] :
                reservoir'[c][k] = reservoir'[d][m] => c = d /\ k = m
      BY <1>3, <2>1 DEF IdsOnce
    <2>15. /\ \A c \in Backends : Drawn(c)' => op'[c].e <= edgeSeq'
           /\ \A c, d \in Backends : Drawn(c)' =>
                \A m \in DOMAIN reservoir'[d] : op'[c].e # reservoir'[d][m]
           /\ \A c, d \in Backends : Drawn(c)' /\ Drawn(d)' /\ op'[c].e = op'[d].e => c = d
      BY <1>3, <1>12, <2>1 DEF IdsOnce
    <2> QED BY <2>10, <2>11, <2>12, <2>13, <2>14, <2>15, Zenon DEF IdsOnce, Drawn, Stored
  <1> QED BY <1>3, <1>8, <1>10, <1>14 DEF Inv

\* update_edge_props overwrites an item in place, id and all else kept.
LEMMA StoreEdgeInv == ASSUME Inv, NEW b \in Backends, StoreEdge(b) PROVE Inv'
  <1> DEFINE o == op[b]
             hits == {j \in DOMAIN ev : ev[j].row.id = o.e /\ EdgeSeen(b, ev[j])}
             i == IF hits = {} THEN 0 ELSE CHOOSE h \in hits : \A j \in hits : h <= j
             p == IF o.old = None THEN "fail" ELSE "mirror"
             q == [o EXCEPT !.pc = p]
  <1>1. /\ CallOK(o) /\ o # Idle /\ {"k", "pc"} \subseteq DOMAIN o
        /\ o.k = "set_edge" /\ o.pc = "store"
    BY AtCall DEF StoreEdge
  <1>2. \/ Go(b, Idle) /\ ev' = ev
        \/ i # 0 /\ ev' = [ev EXCEPT ![i].row.v = o.v] /\ Go(b, q)
    BY Zenon DEF StoreEdge, FirstIn
  <1>3. UNCHANGED <<seqs, resets, nextXid, xid>>
    BY DEF StoreEdge, quiet
  <1>4. ev \in Seq(EdgeItem) /\ DOMAIN ev \subseteq Nat \ {0}
    BY DEF Inv, SeqsOK
  <1>5. CASE Go(b, Idle) /\ ev' = ev
    BY <1>3, <1>5, OtherStep
  <1>6. CASE i # 0 /\ ev' = [ev EXCEPT ![i].row.v = o.v] /\ Go(b, q)
    <2>1. hits \subseteq DOMAIN ev
      OBVIOUS
    <2> HIDE DEF hits
    <2>2. i \in hits
      BY <1>4, <1>6, <2>1, FirstPlace
    <2> HIDE DEF i
    <2>3. i \in DOMAIN ev
      BY <2>1, <2>2
    <2>4. o.v \in Values
      BY <1>1 DEF CallOK
    <2>5. /\ ev' \in Seq(EdgeItem) /\ DOMAIN ev' = DOMAIN ev
          /\ \A j \in DOMAIN ev : Stored(j)' = Stored(j)
      <3> DEFINE it == [ev[i] EXCEPT !.row.v = o.v]
      <3>1. ev[i] \in EdgeItem
        BY <1>4, <2>3
      <3>2. it \in EdgeItem /\ it.row.id = ev[i].row.id
        BY <2>4, <3>1 DEF EdgeItem
      <3>3. ev' = [ev EXCEPT ![i] = it]
        BY <1>6
      <3> HIDE DEF it
      <3>4. ev' \in Seq(EdgeItem) /\ DOMAIN ev' = DOMAIN ev
        BY <1>4, <2>3, <3>2, <3>3
      <3>5. \A j \in DOMAIN ev : ev'[j].row.id = ev[j].row.id
        BY <2>3, <3>2, <3>3
      <3> QED BY <3>4, <3>5 DEF Stored
    <2>6. CallOK(q) /\ q.k = o.k
      <3> HIDE DEF p, o
      <3> QED BY <1>1, Moved
    <2> HIDE DEF q
    <2>7. UNCHANGED <<edgeSeq, reservoir, resets, nodeSeq, nextXid, xid>>
      BY <1>3 DEF seqs
    <2>8. nodeSeq' \in Nat /\ nextXid' \in Nat /\ xid' \in [Backends -> Nat]
      BY <2>7 DEF Inv, SeqsOK
    <2>9. UNCHANGED <<edgeSeq, reservoir, resets>>
      BY <2>7
    <2> QED BY <1>1, <1>6, <2>5, <2>6, <2>8, <2>9, CallStep
  <1> QED BY <1>2, <1>5, <1>6

\* delete_edge marks an item.
LEMMA StoreDeadEdgeInv == ASSUME Inv, NEW b \in Backends, StoreDeadEdge(b) PROVE Inv'
  <1> DEFINE o == op[b]
             hits == {j \in DOMAIN ev : ev[j].row.id = o.e /\ ~ev[j].dead}
             i == IF hits = {} THEN 0 ELSE CHOOSE h \in hits : \A j \in hits : h <= j
             q == [o EXCEPT !.pc = "mirror"]
  <1>1. {"k", "pc"} \subseteq DOMAIN o /\ o.k \in {"delete_edge", "detach_delete"}
    BY AtCall DEF StoreDeadEdge
  <1>2. \/ Go(b, NextEdge(o)) /\ ev' = ev
        \/ i # 0 /\ ev' = [ev EXCEPT ![i].dead = TRUE] /\ Go(b, q)
    BY Zenon DEF StoreDeadEdge, LiveEdge, FirstIn
  <1>3. UNCHANGED <<seqs, resets, nextXid, xid>>
    BY DEF StoreDeadEdge, quiet
  <1>4. ev \in Seq(EdgeItem) /\ DOMAIN ev \subseteq Nat \ {0}
    BY DEF Inv, SeqsOK
  <1>5. CASE Go(b, NextEdge(o)) /\ ev' = ev
    <2>1. CallOK(NextEdge(o)) /\ NextEdge(o).k # "create_edge"
      BY <1>1, NextEdgeCall
    <2> QED BY <1>3, <1>5, <2>1, PlainStep
  <1>6. CASE i # 0 /\ ev' = [ev EXCEPT ![i].dead = TRUE] /\ Go(b, q)
    <2>1. hits \subseteq DOMAIN ev
      OBVIOUS
    <2> HIDE DEF hits
    <2>2. i \in hits
      BY <1>4, <1>6, <2>1, FirstPlace
    <2> HIDE DEF i
    <2>3. i \in DOMAIN ev
      BY <2>1, <2>2
    <2>4. /\ ev' \in Seq(EdgeItem) /\ DOMAIN ev' = DOMAIN ev
          /\ \A j \in DOMAIN ev : Stored(j)' = Stored(j)
      <3> DEFINE it == [ev[i] EXCEPT !.dead = TRUE]
      <3>1. ev[i] \in EdgeItem
        BY <1>4, <2>3
      <3>2. it \in EdgeItem /\ it.row.id = ev[i].row.id
        BY <3>1 DEF EdgeItem
      <3>3. ev' = [ev EXCEPT ![i] = it]
        BY <1>6
      <3> HIDE DEF it
      <3>4. ev' \in Seq(EdgeItem) /\ DOMAIN ev' = DOMAIN ev
        BY <1>4, <2>3, <3>2, <3>3
      <3>5. \A j \in DOMAIN ev : ev'[j].row.id = ev[j].row.id
        BY <2>3, <3>2, <3>3
      <3> QED BY <3>4, <3>5 DEF Stored
    <2>5. {"k", "pc"} \subseteq DOMAIN q /\ q.k = o.k
      BY <1>1
    <2> HIDE DEF q, o
    <2>6. CallOK(q) /\ q.k # "create_edge"
      BY <1>1, <2>5, OtherCall
    <2>7. UNCHANGED <<edgeSeq, reservoir, resets, nodeSeq, nextXid, xid>>
      BY <1>3 DEF seqs
    <2>8. nodeSeq' \in Nat /\ nextXid' \in Nat /\ xid' \in [Backends -> Nat]
      BY <2>7 DEF Inv, SeqsOK
    <2>9. UNCHANGED <<edgeSeq, reservoir, resets>>
      BY <2>7
    <2> QED BY <1>6, <2>4, <2>6, <2>8, <2>9, CallStep
  <1> QED BY <1>2, <1>5, <1>6

-----------------------------------------------------------------------------
(* The theorem.                                                            *)

\* Every step keeps the invariant.
LEMMA NextInv == Inv /\ [Next]_vars => Inv'
  <1> SUFFICES ASSUME Inv, [Next]_vars PROVE Inv'
    OBVIOUS
  <1>1. CASE Next
    <2>1. PICK b \in Backends :
            \/ Commit(b) \/ Abort(b) \/ Fail(b) \/ Start(b)
            \/ FindNode(b) \/ Load(b) \/ Follow(b)
            \/ StoreNewNode(b) \/ StoreNode(b) \/ StoreDeadNode(b)
            \/ NextEdgeId(b) \/ StoreNewEdge(b) \/ StoreEdge(b) \/ StoreDeadEdge(b)
            \/ MirrorWrite(b) \/ Emit(b) \/ Unindex(b)
            \/ Clear(b) \/ Rebuild(b)
      BY <1>1, Zenon DEF Next
    <2> QED BY <2>1, CommitInv, AbortInv, FailInv, StartInv, FindNodeInv, LoadInv, FollowInv,
               StoreNewNodeInv, StoreNodeInv, StoreDeadNodeInv, NextEdgeIdInv, StoreNewEdgeInv,
               StoreEdgeInv, StoreDeadEdgeInv, MirrorWriteInv, EmitInv, UnindexInv,
               ClearInv, RebuildInv, Zenon
  <1>2. CASE UNCHANGED vars
    <2>1. UNCHANGED <<ev, op, xid, nextXid, resets, nodeSeq, edgeSeq, reservoir>>
      BY <1>2 DEF vars, store, seqs
    <2> QED BY <2>1 DEF Inv, SeqsOK, CallsOK, IdsOnce, Drawn, Stored
  <1> QED BY <1>1, <1>2

\* Two edges never have the same id, for any number of sessions, nodes, edges
\* and calls, any batch size, and whichever transactions abort: the reservoir
\* of next_edge_id and the sequence under it hand an id out once, until
\* clear() restarts the sequence.
THEOREM EdgeIdsAreUnique == Spec => []EdgeIdsUnique
  <1>1. Inv => EdgeIdsUnique
    BY DEF Inv, IdsOnce, EdgeIdsUnique, Stored
  <1> QED BY InitInv, NextInv, <1>1, PTL DEF Spec

=============================================================================
