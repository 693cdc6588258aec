-------------------------------- MODULE Heap --------------------------------
(***************************************************************************)
(* The loader's allocator, core/heap.c: a doubly linked list of nodes laid *)
(* out one after the other in the heap, each a header of HeaderSize bytes  *)
(* followed by its block.  The list ends in a zeroed header, the sentinel, *)
(* which the next node is made from.  Nodes are never split, joined or     *)
(* removed: free only clears busy and undoes what memalign did to start.   *)
(*                                                                         *)
(* nodes[i] is the i-th node of the list, so the links prev and next are   *)
(* i - 1 and i + 1, and heap->last is the index last (0 while the list     *)
(* holds only the sentinel).  A header is the HeaderSize bytes below the   *)
(* raw_start of its node.                                                  *)
(***************************************************************************)
EXTENDS Integers, Sequences

CONSTANTS
  HeapStart,    (* heap->start: CONFIG_HEAP                           *)
  HeapSize,     (* heap->size: CONFIG_HEAP_SIZE                       *)
  HeaderSize,   (* sizeof(heap_node_t)                                *)
  Sizes,        (* the sizes clients ask for                          *)
  Aligns        (* the alignments clients ask memalign for            *)

ASSUME HeapAssumption ==
  /\ HeapStart \in Nat \ {0}          (* address 0 is NULL *)
  /\ HeapSize \in Nat
  /\ HeaderSize \in Nat \ {0}
  /\ HeaderSize <= HeapSize           (* heap__init clears one header *)
  /\ Sizes \subseteq Nat
  /\ Aligns \subseteq Nat \ {0}

HeapEnd == HeapStart + HeapSize

VARIABLES
  nodes,          (* the initialised nodes, in list order              *)
  last,           (* heap->last                                        *)
  sentinelBusy,   (* the busy byte of the sentinel                     *)
  live            (* the blocks the clients hold: what malloc and      *)
                  (* memalign returned and nobody has freed yet        *)

vars == <<nodes, last, sentinelBusy, live>>

Address == HeapStart .. HeapEnd
Node == [start : Address, raw : Address, size : 0 .. HeapSize, busy : BOOLEAN]
Block == [ptr : Address, size : Nat]

-----------------------------------------------------------------------------
(* Where things are.                                                       *)

BlockEnd(n) == n.raw + n.size

(* The address of the sentinel's header. *)
Sentinel == IF nodes = <<>> THEN HeapStart ELSE BlockEnd(nodes[Len(nodes)])

AlignUp(p, align) ==
  IF p % align = 0 THEN p ELSE ((p \div align) + 1) * align

InHeap(p) == HeapStart <= p /\ p < HeapEnd

(***************************************************************************)
(* heap__get_free_node walks from the first node: it returns the first     *)
(* free node large enough, else makes a node out of the sentinel.          *)
(***************************************************************************)
(* Mutant: the busy byte is not looked at. *)
MutFitsBusy(i, need) == nodes[i].size >= need

Fits(i, need) == ~nodes[i].busy /\ nodes[i].size >= need

Fitting(need) == {i \in DOMAIN nodes : Fits(i, need)}

FirstFit(need) == {i \in Fitting(need) : \A j \in Fitting(need) : i <= j}

(* A free sentinel has size 0 and is itself "large enough" for no bytes.   *)
SentinelFits(need) == need = 0 /\ ~sentinelBusy

(* Mutant: the check of the end of the heap forgets the header. *)
MutHasRoom(need) == Sentinel + need <= HeapEnd

HasRoom(need) == Sentinel + HeaderSize + need <= HeapEnd

(***************************************************************************)
(* heap__find_node walks back from heap->last; 0 stands for "not found".   *)
(***************************************************************************)
(* Mutant: the pointer is compared with raw_start. *)
MutStartingAt(p) == {i \in 1 .. last : nodes[i].raw = p}

StartingAt(p) == {i \in 1 .. last : nodes[i].start = p}

FindNode(p) ==
  IF InHeap(p) /\ StartingAt(p) # {}
  THEN CHOOSE i \in StartingAt(p) : \A j \in StartingAt(p) : j <= i
  ELSE 0

-----------------------------------------------------------------------------

Init ==
  /\ nodes = <<>>
  /\ last = 0
  /\ sentinelBusy = FALSE
  /\ live = {}

(* The client gets ptr and may use size bytes of it.                       *)
Hand(ptr, size) == live' = live \union {[ptr |-> ptr, size |-> size]}

Reuse(need, size, align) ==
  \E i \in FirstFit(need) :
    LET ptr == AlignUp(nodes[i].start, align)
    IN  /\ nodes' = [nodes EXCEPT ![i].busy = TRUE, ![i].start = ptr]
        /\ Hand(ptr, size)
        /\ UNCHANGED <<last, sentinelBusy>>

(* malloc(0) on a fresh sentinel marks it busy and returns its start: NULL. *)
TakeSentinel(need) ==
  /\ Fitting(need) = {}
  /\ SentinelFits(need)
  /\ sentinelBusy' = TRUE
  /\ UNCHANGED <<nodes, last, live>>

Extend(need, size, align) ==
  /\ Fitting(need) = {}
  /\ ~SentinelFits(need)
  /\ HasRoom(need)
  /\ LET raw == Sentinel + HeaderSize
         ptr == AlignUp(raw, align)
     IN  /\ nodes' = Append(nodes, [start |-> ptr, raw |-> raw,
                                    size |-> need, busy |-> TRUE])
         /\ Hand(ptr, size)
  /\ last' = Len(nodes) + 1
  /\ sentinelBusy' = FALSE

NoMemory(need) ==
  /\ Fitting(need) = {}
  /\ ~SentinelFits(need)
  /\ ~HasRoom(need)
  /\ UNCHANGED vars

Allocate(need, size, align) ==
  \/ Reuse(need, size, align)
  \/ TakeSentinel(need)
  \/ Extend(need, size, align)
  \/ NoMemory(need)

Malloc(size) == Allocate(size, size, 1)

(* Mutant: memalign asks for no more than malloc. *)
MutMemalign(align, size) == Allocate(size, size, align)

Memalign(align, size) == Allocate(size + align, size, align)

(* Mutants: free forgets busy; free forgets to undo the alignment. *)
MutReleaseBusy(p) ==
  LET i == FindNode(p)
  IN  nodes' = IF i = 0 THEN nodes ELSE [nodes EXCEPT ![i].start = nodes[i].raw]

MutReleaseStart(p) ==
  LET i == FindNode(p)
  IN  nodes' = IF i = 0 THEN nodes ELSE [nodes EXCEPT ![i].busy = FALSE]

Release(p) ==
  LET i == FindNode(p)
  IN  nodes' = IF i = 0 THEN nodes
               ELSE [nodes EXCEPT ![i].busy = FALSE, ![i].start = nodes[i].raw]

(* The owner frees its block. *)
Free(b) ==
  /\ Release(b.ptr)
  /\ live' = live \ {b}
  /\ UNCHANGED <<last, sentinelBusy>>

(* free of a pointer nobody holds: NULL, or a block freed before.          *)
FreeAgain(p) ==
  /\ \A b \in live : b.ptr # p
  /\ Release(p)
  /\ UNCHANGED <<last, sentinelBusy, live>>

Next ==
  \/ \E size \in Sizes : Malloc(size)
  \/ \E align \in Aligns, size \in Sizes : Memalign(align, size)
  \/ \E b \in live : Free(b)
  \/ \E p \in {0} \union {nodes[i].raw : i \in DOMAIN nodes} : FreeAgain(p)

Spec == Init /\ [][Next]_vars
-----------------------------------------------------------------------------
(* What the allocator promises.                                            *)

(* The list, heap->last and the clients' blocks are well typed.            *)
TypeOK ==
  /\ nodes \in Seq(Node)
  /\ last \in 0 .. Len(nodes)
  /\ sentinelBusy \in BOOLEAN
  /\ live \in SUBSET Block

(* No two blocks in use share a byte, and no two have the same address:    *)
(* free could not tell them apart.  First fit, the tail of the heap and    *)
(* the alignment of heap__memalign all have a say in it.                   *)
LiveDisjoint ==
  \A b, c \in live :
    b # c => /\ b.ptr # c.ptr
             /\ b.ptr + b.size <= c.ptr \/ c.ptr + c.size <= b.ptr

(* A client that stays within the bytes it asked for never writes outside  *)
(* the heap nor over a header of the list, the sentinel's included.        *)
BlocksAvoidHeaders ==
  \A b \in live :
    /\ HeapStart <= b.ptr /\ b.ptr + b.size <= HeapEnd
    /\ \A h \in {Sentinel} \union {nodes[i].raw - HeaderSize : i \in DOMAIN nodes} :
         b.ptr + b.size <= h \/ h + HeaderSize <= b.ptr

(* heap__find_node, walking back from heap->last and comparing start,      *)
(* reaches the busy node that owns a block, so that free gives back this   *)
(* block and no other.  A block of no bytes at the very end of the heap is *)
(* the exception: its address is not "in the heap" for IS_NOT_IN_HEAP.     *)
OwnerFound ==
  \A b \in live :
    b.ptr < HeapEnd =>
      LET i == FindNode(b.ptr)
      IN  /\ i \in DOMAIN nodes
          /\ nodes[i].busy
          /\ b.ptr + b.size <= BlockEnd(nodes[i])

(* What has been freed can be handed out again: a busy node always has an  *)
(* owner (except again the block of no bytes at the end of the heap, which *)
(* heap__free cannot find and leaves busy for ever).                       *)
NothingLost ==
  \A i \in DOMAIN nodes :
    nodes[i].busy /\ nodes[i].start < HeapEnd =>
      \E b \in live : b.ptr = nodes[i].start

(* The list of nodes implements the allocator a client has in mind: every  *)
(* block handed out is a range of heap bytes nobody else uses.             *)
AllocatorView == INSTANCE Allocator WITH
  HeapStart <- HeapStart,
  HeapSize <- HeapSize,
  live <- live

Refinement == AllocatorView!Spec

=============================================================================
