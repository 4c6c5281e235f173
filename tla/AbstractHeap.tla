----------------------------- MODULE AbstractHeap -----------------------------
(***************************************************************************)
(* What the kernel's allocator promises to the code that uses it: every    *)
(* allocation is a range of bytes of the heap that no other allocation     *)
(* overlaps, until it is given back, and that begins at a multiple of the  *)
(* alignment of its layout: the contract of GlobalAlloc.  How the heap     *)
(* finds room is hidden, and so is when it finds none.                     *)
(***************************************************************************)
EXTENDS Integers

CONSTANTS
  Arena,   \* the bytes of the heap
  Sizes,   \* the sizes callers ask for
  Aligns   \* the alignments callers ask for

VARIABLE live  \* the allocations in use: pointer and layout

Allocation(ptr, bytes, align) == [ptr |-> ptr, bytes |-> bytes, align |-> align]

Payload(l) == l.ptr .. l.ptr + l.bytes - 1

Aligned(l) == l.ptr % l.align = 0

Fresh(l) ==
  /\ Payload(l) \subseteq Arena
  /\ Aligned(l)
  /\ \A m \in live : Payload(l) \cap Payload(m) = {}

Init == live = {}

Alloc(n, a) ==
  \E p \in Arena : LET new == Allocation(p, n, a) IN
    /\ live' = live \cup {new}
    /\ Fresh(new)

Dealloc(l) == live' = live \ {l}

\* The new range is disjoint from the old one too: the old contents are
\* copied across before the old range is given back.
Realloc(l, n) ==
  \E p \in Arena : LET new == Allocation(p, n, l.align) IN
    /\ live' = (live \ {l}) \cup {new}
    /\ Fresh(new)

Next ==
  \/ \E n \in Sizes, a \in Aligns : Alloc(n, a)
  \/ \E l \in live : Dealloc(l) \/ \E n \in Sizes : Realloc(l, n)

Spec == Init /\ [][Next]_live
=============================================================================
