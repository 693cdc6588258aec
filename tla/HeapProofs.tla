----------------------------- MODULE HeapProofs -----------------------------
(***************************************************************************)
(* The allocator's safety for every heap, every header size and every      *)
(* choice of sizes and alignments.                                         *)
(***************************************************************************)
EXTENDS Heap, SequenceTheorems, TLAPS

(* Nodes in the order of the list: the i-th ends, its successor's header   *)
(* included, below the j-th.                                               *)
Before(m, n) == BlockEnd(m) + HeaderSize <= n.raw

(* A node lies in the heap, and start moves within its block only while    *)
(* the node is in use.                                                     *)
NodeOK(n) ==
  /\ HeapStart + HeaderSize <= n.raw
  /\ n.raw <= n.start
  /\ n.start <= BlockEnd(n)
  /\ BlockEnd(n) <= HeapEnd
  /\ ~n.busy => n.start = n.raw

Layout ==
  /\ last = Len(nodes)
  /\ \A i \in 1 .. Len(nodes) : NodeOK(nodes[i])
  /\ \A i, j \in 1 .. Len(nodes) : i < j => Before(nodes[i], nodes[j])

Owns(n, b) ==
  /\ n.busy
  /\ n.start = b.ptr
  /\ b.ptr + b.size <= BlockEnd(n)

Owned ==
  /\ \A b \in live : \E i \in 1 .. Len(nodes) : Owns(nodes[i], b)
  /\ \A b, c \in live : b.ptr = c.ptr => b = c

IInv == TypeOK /\ Layout /\ Owned /\ NothingLost

-----------------------------------------------------------------------------
(* Arithmetic and sequences.                                               *)

LEMMA DivMod ==
  ASSUME NEW p \in Nat, NEW a \in Nat \ {0}
  PROVE  /\ p \div a \in Nat
         /\ p % a \in 0 .. (a - 1)
         /\ p = (a * (p \div a)) + (p % a)
BY SMT

LEMMA AlignUpBounds ==
  ASSUME NEW p \in Nat, NEW a \in Nat \ {0}
  PROVE  /\ AlignUp(p, a) \in Nat
         /\ p <= AlignUp(p, a)
         /\ AlignUp(p, a) <= p + a - 1
<1> DEFINE q == p \div a
           r == p % a
<1>1. q \in Nat /\ r \in 0 .. (a - 1) /\ p = a * q + r
  BY DivMod
<1>2. CASE r = 0
  BY <1>1, <1>2 DEF AlignUp
<1>3. CASE r # 0
  <2>1. (q + 1) * a = a * q + a /\ (q + 1) * a \in Nat
    BY <1>1
  <2>2. AlignUp(p, a) = (q + 1) * a
    BY <1>3 DEF AlignUp
  <2> QED
    <3> HIDE DEF q, r
    <3> DEFINE m == a * q
    <3>1. m \in Nat
      BY <1>1
    <3> HIDE DEF m
    <3>2. p = m + r /\ (q + 1) * a = m + a
      BY <1>1, <2>1 DEF m
    <3> QED
      BY <1>1, <1>3, <2>2, <3>1, <3>2
<1> QED
  BY <1>2, <1>3

LEMMA AppendNode ==
  ASSUME NEW S, NEW s \in Seq(S), NEW e \in S
  PROVE  /\ Append(s, e) \in Seq(S)
         /\ Len(Append(s, e)) = Len(s) + 1
         /\ \A i \in 1 .. Len(s) : Append(s, e)[i] = s[i]
         /\ Append(s, e)[Len(s) + 1] = e
OBVIOUS

-----------------------------------------------------------------------------
(* Consequences of the invariant.                                          *)

LEMMA NodeFacts ==
  ASSUME TypeOK, Layout, NEW i \in 1 .. Len(nodes)
  PROVE  /\ nodes[i] \in Node
         /\ NodeOK(nodes[i])
         /\ nodes[i].raw \in Int /\ nodes[i].start \in Int
         /\ nodes[i].size \in Nat /\ nodes[i].busy \in BOOLEAN
<1>1. nodes[i] \in Node
  BY ElementOfSeq DEF TypeOK
<1>2. NodeOK(nodes[i])
  BY DEF Layout
<1>3. Address \subseteq Int /\ 0 .. HeapSize \subseteq Nat
  BY HeapAssumption DEF Address, HeapEnd
<1> QED
  BY <1>1, <1>2, <1>3 DEF Node

(* Nodes are apart, so a start address belongs to one node only.           *)
LEMMA NodesApart ==
  ASSUME NEW m \in Node, NEW n \in Node, NodeOK(m), NodeOK(n), Before(m, n)
  PROVE  m.start < n.raw /\ m.start # n.start
<1>1. /\ m.start \in Int /\ m.raw \in Int /\ m.size \in Int
      /\ n.start \in Int /\ n.raw \in Int
  BY HeapAssumption DEF Node, Address, HeapEnd
<1> QED
  BY <1>1, HeapAssumption DEF Before, NodeOK, BlockEnd, HeapEnd

LEMMA SentinelFacts ==
  ASSUME TypeOK, Layout
  PROVE  /\ Sentinel \in Nat
         /\ HeapStart <= Sentinel
         /\ \A i \in 1 .. Len(nodes) : BlockEnd(nodes[i]) <= Sentinel
<1>1. CASE nodes = <<>>
  BY <1>1, HeapAssumption DEF Sentinel
<1>2. CASE nodes # <<>>
  <2> DEFINE n == Len(nodes)
  <2>1. n \in 1 .. Len(nodes)
    BY <1>2, EmptySeq, LenProperties DEF TypeOK
  <2>2. Sentinel = BlockEnd(nodes[n])
    BY <1>2 DEF Sentinel
  <2>3. \A i \in 1 .. n : i # n => Before(nodes[i], nodes[n])
    BY <2>1 DEF Layout
  <2>4. /\ NodeOK(nodes[n]) /\ nodes[n].raw \in Int /\ nodes[n].start \in Int
        /\ nodes[n].size \in Nat
    BY <2>1, NodeFacts
  <2>5. ASSUME NEW i \in 1 .. n
        PROVE  BlockEnd(nodes[i]) <= BlockEnd(nodes[n])
    <3>1. nodes[i].raw \in Int /\ nodes[i].size \in Nat
      BY NodeFacts
    <3>2. CASE i = n
      BY <2>4, <3>2 DEF BlockEnd
    <3>3. CASE i # n
      <4>1. Before(nodes[i], nodes[n])
        BY <2>3, <3>3
      <4> QED
        BY <2>4, <3>1, <4>1, HeapAssumption DEF Before, BlockEnd
    <3> QED
      BY <3>2, <3>3
  <2> QED
    BY <2>2, <2>4, <2>5, HeapAssumption DEF BlockEnd, NodeOK
<1> QED
  BY <1>1, <1>2

-----------------------------------------------------------------------------
(* The initial state.                                                      *)

LEMMA InitIInv == Init => IInv
<1> SUFFICES ASSUME Init PROVE IInv
  OBVIOUS
<1>1. TypeOK
  <2>1. nodes \in Seq(Node) /\ Len(nodes) = 0
    BY EmptySeq DEF Init
  <2>2. live \in SUBSET Block
    BY DEF Init
  <2>3. last \in 0 .. Len(nodes)
    BY <2>1 DEF Init
  <2>4. sentinelBusy \in BOOLEAN
    BY DEF Init
  <2> QED
    BY <2>1, <2>2, <2>3, <2>4 DEF TypeOK
<1>2. Layout
  BY EmptySeq DEF Init, Layout
<1>3. Owned /\ NothingLost
  BY DEF Init, Owned, NothingLost
<1> QED
  BY <1>1, <1>2, <1>3 DEF IInv

-----------------------------------------------------------------------------
(* Allocation.  What a request amounts to: the node must hold the bytes    *)
(* the client may use, whatever the alignment costs.                       *)

Request(need, size, align) ==
  /\ need \in Nat /\ size \in Nat /\ align \in Nat \ {0}
  /\ size + align - 1 <= need

LEMMA MallocRequest ==
  ASSUME NEW size \in Sizes PROVE Request(size, size, 1)
BY HeapAssumption DEF Request

LEMMA MemalignRequest ==
  ASSUME NEW align \in Aligns, NEW size \in Sizes
  PROVE  Request(size + align, size, align)
BY HeapAssumption DEF Request

(* Once a node that was not in use, or is new, holds the client's bytes,   *)
(* the rest follows whichever way get_free_node found it.                  *)
LEMMA HandedOver ==
  ASSUME TypeOK, Layout, Owned, NothingLost,
         nodes' \in Seq(Node), Layout',
         NEW size \in Nat, NEW ptr \in Address, Hand(ptr, size),
         NEW k \in 1 .. Len(nodes'),
         Owns(nodes'[k], [ptr |-> ptr, size |-> size]),
         Len(nodes') >= Len(nodes),
         \A i \in 1 .. Len(nodes) : i # k => nodes'[i] = nodes[i],
         k \in 1 .. Len(nodes) => ~nodes[k].busy,
         \A i \in 1 .. Len(nodes') : i \in 1 .. Len(nodes) \/ i = k
  PROVE  Owned' /\ NothingLost' /\ live' \in SUBSET Block
<1> DEFINE new == [ptr |-> ptr, size |-> size]
<1>1. live' = live \union {new}
  BY DEF Hand
<1>2. Len(nodes) \in Nat /\ Len(nodes') \in Nat
  BY LenProperties DEF TypeOK
<1>3. live' \in SUBSET Block
  BY <1>1 DEF TypeOK, Block
<1>4. ASSUME NEW b \in live
      PROVE  \E i \in 1 .. Len(nodes') : i # k /\ Owns(nodes'[i], b)
  <2>1. PICK i \in 1 .. Len(nodes) : Owns(nodes[i], b)
    BY DEF Owned
  <2>2. i # k
    BY <2>1 DEF Owns
  <2> QED
    BY <1>2, <2>1, <2>2
<1>5. ASSUME NEW b \in live PROVE b.ptr # ptr
  <2>1. PICK i \in 1 .. Len(nodes') : i # k /\ Owns(nodes'[i], b)
    BY <1>4
  <2>2. nodes'[i] \in Node /\ nodes'[k] \in Node
    BY ElementOfSeq
  <2>3. NodeOK(nodes'[i]) /\ NodeOK(nodes'[k])
    BY DEF Layout
  <2>4. Before(nodes'[i], nodes'[k]) \/ Before(nodes'[k], nodes'[i])
    BY <1>2, <2>1 DEF Layout
  <2>5. nodes'[i].start # nodes'[k].start
    BY <2>2, <2>3, <2>4, NodesApart
  <2> QED
    BY <2>1, <2>5 DEF Owns
<1>6. Owned'
  BY <1>1, <1>4, <1>5 DEF Owned
<1>7. NothingLost'
  <2> SUFFICES ASSUME NEW i \in 1 .. Len(nodes'),
                      nodes'[i].busy, nodes'[i].start < HeapEnd
               PROVE  \E b \in live' : b.ptr = nodes'[i].start
    BY LenProperties DEF NothingLost
  <2>1. CASE i = k
    BY <1>1, <2>1 DEF Owns
  <2>2. CASE i # k
    <3>1. i \in DOMAIN nodes /\ nodes'[i] = nodes[i]
      BY <2>2, LenProperties DEF TypeOK
    <3> QED
      BY <1>1, <3>1 DEF NothingLost
  <2> QED
    BY <2>1, <2>2
<1> QED
  BY <1>3, <1>6, <1>7

LEMMA ReuseStep ==
  ASSUME IInv, NEW need, NEW size, NEW align, Request(need, size, align),
         Reuse(need, size, align)
  PROVE  IInv'
<1> USE DEF IInv
<1>1. PICK k \in FirstFit(need) :
         /\ nodes' = [nodes EXCEPT ![k].busy = TRUE,
                                   ![k].start = AlignUp(nodes[k].start, align)]
         /\ Hand(AlignUp(nodes[k].start, align), size)
         /\ UNCHANGED <<last, sentinelBusy>>
  BY DEF Reuse
<1> DEFINE old == nodes[k]
           ptr == AlignUp(nodes[k].start, align)
           new == [old EXCEPT !.busy = TRUE, !.start = ptr]
<1>2. k \in 1 .. Len(nodes) /\ ~old.busy /\ old.size >= need
  BY LenProperties DEF FirstFit, Fitting, Fits, TypeOK
<1>3. /\ old \in Node /\ NodeOK(old) /\ old.start = old.raw
      /\ old.raw \in Nat /\ old.size \in Nat
  <2>1. old \in Node /\ NodeOK(old)
    BY <1>2, NodeFacts
  <2>2. Address \subseteq Nat /\ 0 .. HeapSize \subseteq Nat
    BY HeapAssumption DEF Address, HeapEnd
  <2> QED
    BY <1>2, <2>1, <2>2 DEF NodeOK, Node
<1>4. ptr \in Nat /\ old.raw <= ptr /\ ptr <= old.raw + align - 1
  BY <1>3, AlignUpBounds DEF Request
<1>5. ptr + size <= BlockEnd(old) /\ ptr <= BlockEnd(old)
  BY <1>2, <1>3, <1>4, SMTT(30) DEF Request, BlockEnd
<1>6. ptr \in Address
  BY <1>3, <1>4, <1>5, HeapAssumption DEF Address, NodeOK, HeapEnd, BlockEnd
<1>7. new \in Node /\ NodeOK(new)
  <2>1. new \in Node
    BY <1>3, <1>6 DEF Node
  <2>2. /\ new.raw = old.raw /\ new.size = old.size
        /\ new.start = ptr /\ new.busy = TRUE
    BY <1>3 DEF Node
  <2> QED
    BY <1>3, <1>4, <1>5, <2>1, <2>2 DEF NodeOK, BlockEnd
<1>8. /\ nodes' \in Seq(Node) /\ Len(nodes') = Len(nodes)
      /\ \A i \in 1 .. Len(nodes) : nodes'[i] = IF i = k THEN new ELSE nodes[i]
  <2>1. nodes' = [nodes EXCEPT ![k] = new]
    BY <1>1
  <2> QED
    BY <1>2, <1>7, <2>1, ExceptSeq DEF TypeOK
<1>9. Layout'
  <2>1. \A i \in 1 .. Len(nodes) : /\ nodes'[i].raw = nodes[i].raw
                                   /\ nodes'[i].size = nodes[i].size
    <3>1. new.raw = old.raw /\ new.size = old.size
      BY <1>3 DEF Node
    <3> HIDE DEF new
    <3> QED
      BY <1>8, <3>1
  <2>2. \A i, j \in 1 .. Len(nodes) : i < j => Before(nodes'[i], nodes'[j])
    BY <2>1 DEF Before, BlockEnd, Layout
  <2> QED
    BY <1>1, <1>7, <1>8, <2>2 DEF Layout
<1>10. Owns(nodes'[k], [ptr |-> ptr, size |-> size])
  BY <1>2, <1>3, <1>5, <1>8 DEF Owns, BlockEnd, Node
<1>11. Owned' /\ NothingLost' /\ live' \in SUBSET Block
  <2>1. size \in Nat /\ Hand(ptr, size)
    BY <1>1 DEF Request
  <2>2. Len(nodes) \in Nat
    BY LenProperties DEF TypeOK
  <2> HIDE DEF ptr
  <2> QED
    BY <1>2, <1>6, <1>8, <1>9, <1>10, <2>1, <2>2, HandedOver
<1>12. TypeOK'
  BY <1>1, <1>8, <1>11 DEF TypeOK
<1> QED
  BY <1>9, <1>11, <1>12

LEMMA ExtendStep ==
  ASSUME IInv, NEW need, NEW size, NEW align, Request(need, size, align),
         Extend(need, size, align)
  PROVE  IInv'
<1> USE DEF IInv
<1> DEFINE raw == Sentinel + HeaderSize
           ptr == AlignUp(raw, align)
           new == [start |-> ptr, raw |-> raw, size |-> need, busy |-> TRUE]
           k == Len(nodes) + 1
<1>1. /\ nodes' = Append(nodes, new) /\ Hand(ptr, size)
      /\ last' = k /\ sentinelBusy' = FALSE /\ HasRoom(need)
  BY DEF Extend
<1>2. /\ Sentinel \in Nat /\ HeapStart <= Sentinel
      /\ \A i \in 1 .. Len(nodes) : BlockEnd(nodes[i]) <= Sentinel
  BY SentinelFacts
<1>3. need \in Nat /\ size \in Nat /\ align \in Nat \ {0} /\ size + align - 1 <= need
  BY DEF Request
<1>4. /\ raw \in Nat /\ HeapStart + HeaderSize <= raw /\ raw + need <= HeapEnd
      /\ HeapEnd \in Nat
  BY <1>1, <1>2, <1>3, HeapAssumption DEF HasRoom, HeapEnd
<1>5. ptr \in Nat /\ raw <= ptr /\ ptr <= raw + align - 1
  BY <1>3, <1>4, AlignUpBounds
<1>6. ptr + size <= raw + need /\ ptr <= raw + need
  BY <1>3, <1>4, <1>5
<1>7. new \in Node /\ NodeOK(new) /\ ptr \in Address
  <2> HIDE DEF raw, ptr
  <2>1. raw \in Address /\ ptr \in Address /\ need \in 0 .. HeapSize
    BY <1>3, <1>4, <1>5, <1>6, HeapAssumption DEF Address, HeapEnd
  <2> QED
    BY <1>3, <1>4, <1>5, <1>6, <2>1 DEF Node, NodeOK, BlockEnd
<1>8. /\ nodes' \in Seq(Node) /\ Len(nodes') = k
      /\ \A i \in 1 .. Len(nodes) : nodes'[i] = nodes[i]
      /\ nodes'[k] = new
  <2> HIDE DEF new
  <2> QED
    BY <1>1, <1>7, AppendNode DEF TypeOK
<1>9. Len(nodes) \in Nat
  BY LenProperties DEF TypeOK
<1>10. Layout'
  <2>1. ASSUME NEW i \in 1 .. Len(nodes) PROVE Before(nodes'[i], nodes'[k])
    BY <1>2, <1>8, NodeFacts, HeapAssumption, SMTT(30) DEF Before, BlockEnd
  <2>2. \A i, j \in 1 .. k : i < j => Before(nodes'[i], nodes'[j])
    <3> SUFFICES ASSUME NEW i \in 1 .. k, NEW j \in 1 .. k, i < j
                 PROVE  Before(nodes'[i], nodes'[j])
      OBVIOUS
    <3>1. i \in 1 .. Len(nodes)
      BY <1>9
    <3>2. CASE j = k
      BY <2>1, <3>1, <3>2
    <3>3. CASE j # k
      <4>1. j \in 1 .. Len(nodes)
        BY <1>9, <3>3
      <4> QED
        BY <1>8, <3>1, <4>1 DEF Layout
    <3> QED
      BY <3>2, <3>3
  <2>3. ASSUME NEW i \in 1 .. k PROVE NodeOK(nodes'[i])
    <3>1. i \in 1 .. Len(nodes) \/ i = k
      BY <1>9
    <3> QED
      BY <1>7, <1>8, <3>1 DEF Layout
  <2> QED
    BY <1>1, <1>8, <2>2, <2>3 DEF Layout
<1>11. Owns(nodes'[k], [ptr |-> ptr, size |-> size])
  BY <1>6, <1>8 DEF Owns, BlockEnd
<1>12. Owned' /\ NothingLost' /\ live' \in SUBSET Block
  <2>1. /\ k \in 1 .. Len(nodes') /\ k \notin 1 .. Len(nodes)
        /\ \A i \in 1 .. Len(nodes') : i \in 1 .. Len(nodes) \/ i = k
        /\ Len(nodes') >= Len(nodes)
    BY <1>8, <1>9
  <2> HIDE DEF ptr, k
  <2> QED
    BY <1>1, <1>3, <1>7, <1>8, <1>10, <1>11, <2>1, HandedOver
<1>13. TypeOK'
  <2>1. last' \in 0 .. Len(nodes')
    BY <1>1, <1>8, <1>9
  <2> QED
    BY <1>1, <1>8, <1>12, <2>1 DEF TypeOK
<1> QED
  BY <1>10, <1>12, <1>13

-----------------------------------------------------------------------------
(* Freeing.                                                                *)

(* heap__find_node finds the node that starts at p whenever there is one.  *)
LEMMA FindNodeFacts ==
  ASSUME TypeOK, Layout, NEW p
  PROVE  /\ FindNode(p) = 0 \/ FindNode(p) \in StartingAt(p)
         /\ FindNode(p) = 0 =>
              \A i \in 1 .. Len(nodes) : InHeap(p) => nodes[i].start # p
         /\ StartingAt(p) \subseteq 1 .. Len(nodes)
         /\ \A i, j \in StartingAt(p) : i = j
<1>1. StartingAt(p) = {i \in 1 .. Len(nodes) : nodes[i].start = p}
  BY DEF StartingAt, Layout
<1>2. ASSUME NEW i \in StartingAt(p), NEW j \in StartingAt(p), i < j
      PROVE  FALSE
  <2>1. Before(nodes[i], nodes[j])
    BY <1>1, <1>2 DEF Layout
  <2> QED
    BY <1>1, <2>1, NodeFacts, NodesApart
<1>3. Len(nodes) \in Nat
  BY LenProperties DEF TypeOK
<1>4. \A i, j \in StartingAt(p) : i = j
  BY <1>1, <1>2, <1>3
<1>5. StartingAt(p) # {} =>
        (CHOOSE i \in StartingAt(p) : \A j \in StartingAt(p) : j <= i) \in StartingAt(p)
  <2> SUFFICES ASSUME NEW i \in StartingAt(p)
               PROVE  \A j \in StartingAt(p) : j <= i
    OBVIOUS
  <2>1. i \in Nat
    BY <1>1, <1>3
  <2> QED
    BY <1>4, <2>1
<1>6. FindNode(p) # 0 => FindNode(p) \in StartingAt(p)
  BY <1>5 DEF FindNode
<1>7. FindNode(p) = 0 => ~InHeap(p) \/ StartingAt(p) = {}
  <2>1. 0 \notin StartingAt(p)
    BY <1>1
  <2> QED
    BY <1>5, <2>1 DEF FindNode
<1> QED
  BY <1>1, <1>4, <1>6, <1>7

LEMMA ReleaseStep ==
  ASSUME IInv, NEW p, Release(p),
         UNCHANGED <<last, sentinelBusy>>,
         \A c \in live' : c \in live /\ c.ptr # p,
         \A c \in live : c.ptr # p => c \in live'
  PROVE  IInv'
<1> USE DEF IInv
<1> DEFINE k == FindNode(p)
<1>1. Len(nodes) \in Nat
  BY LenProperties DEF TypeOK
<1>2. live' \in SUBSET Block
  BY DEF TypeOK
<1>3. \A b, c \in live' : b.ptr = c.ptr => b = c
  BY DEF Owned
<1>4. CASE k = 0
  <2>1. nodes' = nodes
    BY <1>4 DEF Release
  <2>2. TypeOK' /\ Layout'
    BY <1>2, <2>1 DEF TypeOK, Layout
  <2>3. Owned'
    BY <1>3, <2>1 DEF Owned
  <2>4. ASSUME NEW i \in DOMAIN nodes, nodes[i].busy, nodes[i].start < HeapEnd
        PROVE  \E c \in live' : c.ptr = nodes[i].start
    <3>1. PICK c \in live : c.ptr = nodes[i].start
      BY <2>4 DEF NothingLost
    <3>2. InHeap(c.ptr)
      BY <2>4, <3>1, HeapAssumption DEF InHeap, TypeOK, Block, Address
    <3>3. c.ptr # p
      BY <1>4, <3>1, <3>2, FindNodeFacts, LenProperties DEF TypeOK
    <3> QED
      BY <3>1, <3>3
  <2>5. NothingLost'
    BY <2>1, <2>4 DEF NothingLost
  <2> QED
    BY <2>2, <2>3, <2>5
<1>5. CASE k # 0
  <2> DEFINE old == nodes[k]
             new == [old EXCEPT !.busy = FALSE, !.start = old.raw]
  <2>1. k \in 1 .. Len(nodes) /\ old.start = p
    BY <1>5, FindNodeFacts DEF StartingAt, Layout
  <2>2. /\ old \in Node /\ NodeOK(old) /\ old.raw \in Nat /\ old.size \in Nat
        /\ old.raw \in Address
    <3>1. old \in Node /\ NodeOK(old)
      BY <2>1, NodeFacts
    <3>2. Address \subseteq Nat /\ 0 .. HeapSize \subseteq Nat
      BY HeapAssumption DEF Address, HeapEnd
    <3> QED
      BY <3>1, <3>2 DEF Node
  <2>3. new \in Node /\ NodeOK(new)
    <3>1. /\ new \in Node /\ new.raw = old.raw /\ new.size = old.size
          /\ new.start = old.raw
      BY <2>2 DEF Node
    <3>2. old.raw <= BlockEnd(old)
      BY <2>2 DEF BlockEnd
    <3> QED
      BY <2>2, <3>1, <3>2 DEF NodeOK, BlockEnd
  <2>4. /\ nodes' \in Seq(Node) /\ Len(nodes') = Len(nodes)
        /\ \A i \in 1 .. Len(nodes) : nodes'[i] = IF i = k THEN new ELSE nodes[i]
    <3>1. nodes' = [nodes EXCEPT ![k] = new]
      BY <1>5 DEF Release
    <3> QED
      BY <2>1, <2>3, <3>1, ExceptSeq DEF TypeOK
  <2>5. TypeOK'
    BY <1>2, <2>4 DEF TypeOK
  <2>6. Layout'
    <3>1. \A i \in 1 .. Len(nodes) : /\ nodes'[i].raw = nodes[i].raw
                                     /\ nodes'[i].size = nodes[i].size
      <4>1. new.raw = old.raw /\ new.size = old.size
        BY <2>2 DEF Node
      <4> HIDE DEF new
      <4> QED
        BY <2>4, <4>1
    <3>2. \A i, j \in 1 .. Len(nodes) : i < j => Before(nodes'[i], nodes'[j])
      BY <3>1 DEF Before, BlockEnd, Layout
    <3> QED
      BY <2>3, <2>4, <3>2 DEF Layout
  <2>7. ASSUME NEW c \in live'
        PROVE  \E i \in 1 .. Len(nodes') : Owns(nodes'[i], c)
    <3>1. PICK i \in 1 .. Len(nodes) : Owns(nodes[i], c)
      BY DEF Owned
    <3>2. i # k
      BY <2>1, <3>1 DEF Owns
    <3> QED
      BY <2>4, <3>1, <3>2
  <2>8. Owned'
    BY <1>3, <2>7 DEF Owned
  <2>9. NothingLost'
    <3> SUFFICES ASSUME NEW i \in 1 .. Len(nodes),
                        nodes'[i].busy, nodes'[i].start < HeapEnd
                 PROVE  \E c \in live' : c.ptr = nodes'[i].start
      BY <2>4, LenProperties DEF NothingLost
    <3>1. i # k /\ nodes'[i] = nodes[i]
      BY <2>2, <2>4 DEF Node
    <3>2. PICK c \in live : c.ptr = nodes[i].start
      BY <3>1, LenProperties DEF NothingLost, TypeOK
    <3>3. c.ptr # p
      BY <2>1, <3>1, <3>2, <1>5, FindNodeFacts DEF StartingAt, Layout
    <3> QED
      BY <3>1, <3>2, <3>3
  <2> QED
    BY <2>5, <2>6, <2>8, <2>9
<1> QED
  BY <1>4, <1>5

-----------------------------------------------------------------------------
(* Every step.                                                             *)

LEMMA AllocateStep ==
  ASSUME IInv, NEW need, NEW size, NEW align, Request(need, size, align),
         Allocate(need, size, align)
  PROVE  IInv'
<1>1. CASE Reuse(need, size, align)
  BY <1>1, ReuseStep
<1>2. CASE TakeSentinel(need)
  BY <1>2 DEF TakeSentinel, IInv, TypeOK, Layout, Owned, NothingLost
<1>3. CASE Extend(need, size, align)
  BY <1>3, ExtendStep
<1>4. CASE NoMemory(need)
  BY <1>4 DEF NoMemory, vars, IInv, TypeOK, Layout, Owned, NothingLost
<1> QED
  BY <1>1, <1>2, <1>3, <1>4 DEF Allocate

LEMMA FreeStep ==
  ASSUME IInv, NEW b \in live, Free(b)
  PROVE  IInv'
<1>1. \A c \in live : c.ptr = b.ptr => c = b
  BY DEF IInv, Owned
<1> QED
  BY <1>1, ReleaseStep DEF Free

LEMMA FreeAgainStep ==
  ASSUME IInv, NEW p, FreeAgain(p)
  PROVE  IInv'
BY ReleaseStep DEF FreeAgain

LEMMA NextIInv == IInv /\ [Next]_vars => IInv'
<1> SUFFICES ASSUME IInv, [Next]_vars PROVE IInv'
  OBVIOUS
<1>1. ASSUME NEW size \in Sizes, Malloc(size) PROVE IInv'
  BY <1>1, MallocRequest, AllocateStep DEF Malloc
<1>2. ASSUME NEW align \in Aligns, NEW size \in Sizes, Memalign(align, size)
      PROVE  IInv'
  BY <1>2, MemalignRequest, AllocateStep DEF Memalign
<1>3. ASSUME NEW b \in live, Free(b) PROVE IInv'
  BY <1>3, FreeStep
<1>4. ASSUME NEW p, FreeAgain(p) PROVE IInv'
  BY <1>4, FreeAgainStep
<1>5. CASE UNCHANGED vars
  BY <1>5 DEF vars, IInv, TypeOK, Layout, Owned, NothingLost
<1> QED
  BY <1>1, <1>2, <1>3, <1>4, <1>5 DEF Next

(* The inductive invariant of the allocator: nodes in order and inside the *)
(* heap, each block in use owned by one busy node that holds it.           *)
THEOREM Invariance == Spec => []IInv
<1> QED
  BY InitIInv, NextIInv, PTL DEF Spec

-----------------------------------------------------------------------------
(* The promises.                                                           *)

(* heap.c's list, heap->last and the blocks handed out stay well typed.    *)
THEOREM TypeCorrect == Spec => []TypeOK
<1>1. IInv => TypeOK
  BY DEF IInv
<1> QED
  BY <1>1, Invariance, PTL

LEMMA OwnersInOrder ==
  ASSUME NEW m \in Node, NEW n \in Node, NodeOK(m), NodeOK(n), Before(m, n),
         NEW b \in Block, NEW c \in Block, Owns(m, b), Owns(n, c)
  PROVE  b.ptr + b.size <= c.ptr
<1>1. /\ m.raw \in Int /\ m.size \in Int /\ n.start \in Int /\ n.raw \in Int
      /\ b.ptr \in Int /\ b.size \in Int /\ c.ptr \in Int
  BY HeapAssumption DEF Node, Block, Address, HeapEnd
<1>2. b.ptr + b.size <= m.raw + m.size /\ m.raw + m.size + HeaderSize <= n.raw
  BY DEF Owns, Before, BlockEnd
<1>3. n.raw <= c.ptr
  BY DEF NodeOK, Owns
<1> QED
  BY <1>1, <1>2, <1>3, HeapAssumption

LEMMA OwnersApart ==
  ASSUME IInv, NEW b \in live, NEW c \in live, b # c
  PROVE  /\ b.ptr # c.ptr
         /\ b.ptr + b.size <= c.ptr \/ c.ptr + c.size <= b.ptr
<1> USE DEF IInv
<1>1. b.ptr # c.ptr
  BY DEF Owned
<1>2. PICK i \in 1 .. Len(nodes) : Owns(nodes[i], b)
  BY DEF Owned
<1>3. PICK j \in 1 .. Len(nodes) : Owns(nodes[j], c)
  BY DEF Owned
<1>4. i # j
  BY <1>1, <1>2, <1>3 DEF Owns
<1>5. Len(nodes) \in Nat
  BY LenProperties DEF TypeOK
<1>6. Before(nodes[i], nodes[j]) \/ Before(nodes[j], nodes[i])
  BY <1>4, <1>5 DEF Layout
<1>7. /\ nodes[i] \in Node /\ NodeOK(nodes[i])
      /\ nodes[j] \in Node /\ NodeOK(nodes[j])
  BY NodeFacts
<1>8. b \in Block /\ c \in Block
  BY DEF TypeOK
<1> QED
  BY <1>1, <1>2, <1>3, <1>6, <1>7, <1>8, OwnersInOrder

LEMMA IInvDisjoint == IInv => LiveDisjoint
BY OwnersApart DEF LiveDisjoint

(* malloc and memalign never hand out a byte, nor an address, twice.       *)
THEOREM Disjointness == Spec => []LiveDisjoint
BY IInvDisjoint, Invariance, PTL

(* free finds the node of every block in use.                              *)
THEOREM Ownership == Spec => []OwnerFound
<1>1. ASSUME IInv, NEW b \in live, b.ptr < HeapEnd
      PROVE  LET i == FindNode(b.ptr)
             IN  /\ i \in DOMAIN nodes
                 /\ nodes[i].busy
                 /\ b.ptr + b.size <= BlockEnd(nodes[i])
  <2> USE <1>1 DEF IInv
  <2>1. PICK i \in 1 .. Len(nodes) : Owns(nodes[i], b)
    BY DEF Owned
  <2>2. InHeap(b.ptr)
    BY HeapAssumption DEF InHeap, TypeOK, Block, Address
  <2>3. i \in StartingAt(b.ptr)
    BY <2>1 DEF StartingAt, Layout, Owns
  <2>4. FindNode(b.ptr) = i
    BY <2>1, <2>2, <2>3, FindNodeFacts DEF Owns
  <2> QED
    BY <2>1, <2>4, LenProperties DEF Owns, TypeOK
<1>2. IInv => OwnerFound
  BY <1>1 DEF OwnerFound
<1> QED
  BY <1>2, Invariance, PTL

(* A busy node has an owner: memory is given back when it is freed.        *)
THEOREM NoLeak == Spec => []NothingLost
<1>1. IInv => NothingLost
  BY DEF IInv
<1> QED
  BY <1>1, Invariance, PTL

LEMMA OwnedBounds ==
  ASSUME NEW n \in Node, NodeOK(n), NEW b \in Block, Owns(n, b)
  PROVE  /\ b.ptr \in Int /\ b.size \in Nat /\ n.raw \in Int /\ n.size \in Nat
         /\ HeapStart + HeaderSize <= n.raw
         /\ n.raw <= b.ptr
         /\ b.ptr + b.size <= BlockEnd(n)
         /\ BlockEnd(n) <= HeapEnd
<1>1. /\ n.raw \in Int /\ n.size \in Nat /\ b.ptr \in Int /\ b.size \in Nat
  BY HeapAssumption DEF Node, Block, Address, HeapEnd
<1> QED
  BY <1>1 DEF NodeOK, Owns

(* A client that keeps within its bytes never touches a header.            *)
THEOREM HeadersSafe == Spec => []BlocksAvoidHeaders
<1>1. ASSUME IInv, NEW b \in live
      PROVE  /\ HeapStart <= b.ptr /\ b.ptr + b.size <= HeapEnd
             /\ \A h \in {Sentinel} \union {nodes[i].raw - HeaderSize : i \in DOMAIN nodes} :
                  b.ptr + b.size <= h \/ h + HeaderSize <= b.ptr
  <2> USE <1>1 DEF IInv
  <2>1. PICK k \in 1 .. Len(nodes) : Owns(nodes[k], b)
    BY DEF Owned
  <2>2. nodes[k] \in Node /\ NodeOK(nodes[k]) /\ b \in Block
    BY NodeFacts DEF TypeOK
  <2>3. /\ b.ptr \in Int /\ b.size \in Nat
        /\ nodes[k].raw \in Int /\ nodes[k].size \in Nat
        /\ HeapStart + HeaderSize <= nodes[k].raw
        /\ nodes[k].raw <= b.ptr
        /\ b.ptr + b.size <= BlockEnd(nodes[k])
        /\ BlockEnd(nodes[k]) <= HeapEnd
    BY <2>1, <2>2, OwnedBounds
  <2>4. b.ptr + b.size <= Sentinel
    BY <2>3, SentinelFacts DEF BlockEnd
  <2>5. ASSUME NEW i \in 1 .. Len(nodes)
        PROVE  LET h == nodes[i].raw - HeaderSize
               IN  b.ptr + b.size <= h \/ h + HeaderSize <= b.ptr
    <3>1. nodes[i] \in Node /\ nodes[i].raw \in Int /\ nodes[i].size \in Nat
      BY NodeFacts
    <3>2. CASE i = k
      BY <2>3, <3>1, <3>2, HeapAssumption
    <3>3. CASE i < k
      <4>1. nodes[i].raw + nodes[i].size + HeaderSize <= nodes[k].raw
        BY <3>3 DEF Layout, Before, BlockEnd
      <4>2. (nodes[i].raw - HeaderSize) + HeaderSize <= b.ptr
        BY <2>3, <3>1, <4>1, HeapAssumption, SMTT(30)
      <4> QED
        BY <4>2
    <3>4. CASE k < i
      <4>1. BlockEnd(nodes[k]) + HeaderSize <= nodes[i].raw
        BY <3>4 DEF Layout, Before
      <4>2. BlockEnd(nodes[k]) \in Int
        BY <2>3 DEF BlockEnd
      <4>3. b.ptr + b.size <= nodes[i].raw - HeaderSize
        BY <2>3, <3>1, <4>1, <4>2, HeapAssumption, SMTT(30) DEF HeapEnd
      <4> QED
        BY <4>3
    <3>5. Len(nodes) \in Nat
      BY LenProperties DEF TypeOK
    <3> QED
      BY <3>2, <3>3, <3>4, <3>5
  <2>6. HeapStart <= b.ptr /\ b.ptr + b.size <= HeapEnd
    BY <2>3, HeapAssumption, SMTT(30) DEF HeapEnd, BlockEnd
  <2> QED
    BY <2>4, <2>5, <2>6, LenProperties DEF TypeOK
<1>2. IInv => BlocksAvoidHeaders
  BY <1>1 DEF BlocksAvoidHeaders
<1> QED
  BY <1>2, Invariance, PTL

-----------------------------------------------------------------------------
(* The allocator a client has in mind.                                     *)

LEMMA HandIsAlloc ==
  ASSUME IInv, IInv', LiveDisjoint', NEW ptr, NEW size, Hand(ptr, size)
  PROVE  [AllocatorView!Next]_live
<1> DEFINE b == [ptr |-> ptr, size |-> size]
<1>1. live' = live \union {b}
  BY DEF Hand
<1>2. CASE b \in live
  BY <1>1, <1>2
<1>3. CASE b \notin live
  <2>1. b \in live' /\ b \in Block
    BY <1>1 DEF IInv, TypeOK
  <2>2. PICK k \in 1 .. Len(nodes') : Owns(nodes'[k], b)
    BY <2>1 DEF IInv, Owned
  <2>3. nodes'[k] \in Node /\ NodeOK(nodes'[k])
    BY ElementOfSeq DEF IInv, TypeOK, Layout
  <2>4. /\ ptr \in Int /\ size \in Nat
        /\ HeapStart <= ptr /\ ptr + size <= HeapEnd
    BY <2>1, <2>2, <2>3, OwnedBounds, HeapAssumption DEF HeapEnd, BlockEnd
  <2>5. ptr \in HeapStart .. HeapEnd /\ size \in 0 .. HeapSize
    BY <2>4, HeapAssumption DEF HeapEnd
  <2>6. \A c \in live : AllocatorView!Apart(b, c)
    BY <1>1, <1>3, <2>1 DEF LiveDisjoint, AllocatorView!Apart
  <2>7. AllocatorView!Alloc(b)
    BY <1>1, <2>4, <2>6 DEF AllocatorView!Alloc, AllocatorView!HeapEnd, HeapEnd
  <2> QED
    BY <2>5, <2>7 DEF AllocatorView!Next, AllocatorView!HeapEnd, HeapEnd
<1> QED
  BY <1>2, <1>3

LEMMA AllocateIsAlloc ==
  ASSUME IInv, IInv', LiveDisjoint', NEW need, NEW size, NEW align,
         Allocate(need, size, align)
  PROVE  [AllocatorView!Next]_live
<1>1. \/ \E ptr : Hand(ptr, size)
      \/ live' = live
  BY DEF Allocate, Reuse, Extend, TakeSentinel, NoMemory, vars
<1> QED
  BY <1>1, HandIsAlloc

LEMMA StepRefines ==
  IInv /\ IInv' /\ LiveDisjoint' /\ [Next]_vars => [AllocatorView!Next]_live
<1> SUFFICES ASSUME IInv, IInv', LiveDisjoint', [Next]_vars
             PROVE  [AllocatorView!Next]_live
  OBVIOUS
<1>1. ASSUME NEW size \in Sizes, Malloc(size) PROVE [AllocatorView!Next]_live
  BY <1>1, AllocateIsAlloc DEF Malloc
<1>2. ASSUME NEW align \in Aligns, NEW size \in Sizes, Memalign(align, size)
      PROVE  [AllocatorView!Next]_live
  BY <1>2, AllocateIsAlloc DEF Memalign
<1>3. ASSUME NEW b \in live, Free(b) PROVE [AllocatorView!Next]_live
  BY <1>3 DEF Free, AllocatorView!Next, AllocatorView!Free
<1>4. ASSUME NEW p, FreeAgain(p) PROVE [AllocatorView!Next]_live
  BY <1>4 DEF FreeAgain
<1>5. CASE UNCHANGED vars
  BY <1>5 DEF vars
<1> QED
  BY <1>1, <1>2, <1>3, <1>4, <1>5 DEF Next

(* heap.c implements the abstract allocator.                               *)
THEOREM Implementation == Spec => Refinement
<1>1. Init => AllocatorView!Init
  BY DEF Init, AllocatorView!Init
<1>2. IInv /\ IInv' /\ LiveDisjoint' /\ [Next]_vars => [AllocatorView!Next]_live
  BY StepRefines
<1>3. IInv' => LiveDisjoint'
  BY IInvDisjoint, PTL
<1> QED
  BY <1>1, <1>2, <1>3, Invariance, PTL DEF Spec, Refinement, AllocatorView!Spec
=============================================================================
