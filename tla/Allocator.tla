----------------------------- MODULE Allocator ------------------------------
(***************************************************************************)
(* What a client may rely on when it calls malloc, memalign and free, with *)
(* no word of nodes or headers: a block is a range of heap bytes of its    *)
(* own until it is freed.                                                  *)
(***************************************************************************)
EXTENDS Integers

CONSTANTS HeapStart, HeapSize

VARIABLE live       (* the blocks in use: [ptr, size]                      *)

HeapEnd == HeapStart + HeapSize

Apart(b, c) ==
  /\ b.ptr # c.ptr
  /\ b.ptr + b.size <= c.ptr \/ c.ptr + c.size <= b.ptr

Init == live = {}

(* Fails by doing nothing, which is a stuttering step.                     *)
Alloc(b) ==
  /\ HeapStart <= b.ptr /\ b.ptr + b.size <= HeapEnd
  /\ \A c \in live : Apart(b, c)
  /\ live' = live \union {b}

Free(b) == live' = live \ {b}

Next ==
  \/ \E ptr \in HeapStart .. HeapEnd, size \in 0 .. HeapSize :
        Alloc([ptr |-> ptr, size |-> size])
  \/ \E b \in live : Free(b)

Spec == Init /\ [][Next]_live
=============================================================================
