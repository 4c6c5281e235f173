-------------------------------- MODULE Heap --------------------------------
(***************************************************************************)
(* The kernel heap (heap.rs): first fit over one list of free blocks, each *)
(* with its size in a header in front of it.  A block that is much larger  *)
(* than the request is split; blocks are never joined again.               *)
(*                                                                         *)
(* alloc, dealloc and realloc run with interrupts off on the only CPU, so  *)
(* each is one step.  Addresses are byte numbers (the constant offset PMO, *)
(* a multiple of every alignment, is left out).  The counters allocs and   *)
(* frees, which are only printed, are left out too.                        *)
(***************************************************************************)
EXTENDS Integers, Sequences, FiniteSets, Functions

CONSTANTS
  BasePhys,   \* where the heap starts: the end of the largest region - 16 MB
  HeapBytes,  \* HEAP_BYTES
  Sizes,      \* layout.size(): what callers ask for
  Aligns,     \* layout.align(): powers of two
  MaxLive     \* bound: allocations in use at a time

BLOCK_HEADER == 16
MIN_BLOCK == 32

\* (v + a - 1) & !(a - 1) for a power of two a: the next multiple of a.
AlignUp(v, a) == v + ((a - (v % a)) % a)

\* Every power of two divides 16 or is a multiple of it.
ASSUME HeapConstants ==
  /\ BasePhys \in Nat
  /\ HeapBytes \in Nat
  /\ HeapBytes >= BLOCK_HEADER + BLOCK_HEADER + MIN_BLOCK
  /\ Sizes \subseteq Nat \ {0}
  /\ Aligns \subseteq Nat \ {0}
  /\ \A a \in Aligns : 16 % a = 0 \/ (a > 16 /\ a % 16 = 0)
  /\ MaxLive \in Nat

VARIABLES
  free,  \* the free list, its head first: addresses of blocks
  size,  \* the header of every block, free or in use
  used,  \* HeapInner.used
  live   \* what the callers hold: pointers with their layouts

vars == <<free, size, used, live>>

Base == AlignUp(BasePhys, 16)
Usable == HeapBytes - (Base - BasePhys)
Limit == Base + Usable - BLOCK_HEADER

Blocks == DOMAIN size

-----------------------------------------------------------------------------
(* Free list *)

Push(b, s) == [k \in 1 .. Len(s) + 1 |-> IF k = 1 THEN b ELSE s[k - 1]]

\* Unlink that steps one node too far.
UnlinkNext(s, i) == [k \in 1 .. Len(s) - 1 |-> IF k <= i THEN s[k] ELSE s[k + 1]]

Unlink(s, i) == [k \in 1 .. Len(s) - 1 |-> IF k < i THEN s[k] ELSE s[k + 1]]

Offset(align) == AlignUp(BLOCK_HEADER, align)

\* A request that forgets that the alignment moves the payload.
TakenPacked(n, align) == BLOCK_HEADER + n

\* What a request takes from its block: header, padding and payload.
Taken(n, align) == Offset(align) + n

\* dealloc that forgets that the alignment moved the pointer.
BlockOfPacked(l) == l.ptr - BLOCK_HEADER

\* The block a pointer was cut from; dealloc knows the pointer and the layout.
BlockOf(l) == l.ptr - Offset(l.align)

Allocation(ptr, bytes, align) == [ptr |-> ptr, bytes |-> bytes, align |-> align]

Fits(i, total) == size[free[i]] >= total

\* The first block of the list that is large enough.
FirstFit(i, total) == Fits(i, total) /\ \A j \in 1 .. i - 1 : ~Fits(j, total)

Rest(b, total) == AlignUp(b + total, 16)
End(b) == b + size[b]
Splits(b, total) == End(b) - Rest(b, total) >= MIN_BLOCK

\* The remainder sets room aside for a second header.
SplitShort(b, total) ==
  [c \in Blocks \cup {Rest(b, total)} |->
     IF c = b THEN Rest(b, total) - b
     ELSE IF c = Rest(b, total) THEN End(b) - Rest(b, total) - BLOCK_HEADER
     ELSE size[c]]

Split(b, total) ==
  [c \in Blocks \cup {Rest(b, total)} |->
     IF c = b THEN Rest(b, total) - b
     ELSE IF c = Rest(b, total) THEN End(b) - Rest(b, total)
     ELSE size[c]]

\* alloc_locked takes free[i]: the headers afterwards, and the list, in which
\* the remainder takes the place of the block.
HeadersAfter(i, total) ==
  IF Splits(free[i], total) THEN Split(free[i], total) ELSE size
FreeAfter(i, total) ==
  IF Splits(free[i], total) THEN [free EXCEPT ![i] = Rest(free[i], total)]
                            ELSE Unlink(free, i)

-----------------------------------------------------------------------------
(* Operations *)

Init ==
  /\ free = <<Base>>
  /\ size = [b \in {Base} |-> Usable - BLOCK_HEADER]
  /\ used = 0
  /\ live = {}

Alloc(n, a) ==
  /\ Cardinality(live) < MaxLive
  /\ \E i \in DOMAIN free :
       /\ FirstFit(i, Taken(n, a))
       /\ size' = HeadersAfter(i, Taken(n, a))
       /\ free' = FreeAfter(i, Taken(n, a))
       /\ live' = live \cup {Allocation(free[i] + Offset(a), n, a)}
  /\ used' = used + Taken(n, a)

NoRoom(total) == \A i \in DOMAIN free : ~Fits(i, total)

\* alloc returns null, and so does realloc: the old allocation stays.
AllocFails(n, a) ==
  /\ NoRoom(Taken(n, a))
  /\ UNCHANGED vars

\* dealloc that leaves the counter alone.
MinusNot(x, y) == x

\* usize::saturating_sub
Minus(x, y) == IF x > y THEN x - y ELSE 0

Dealloc(l) ==
  /\ live' = live \ {l}
  /\ free' = Push(BlockOf(l), free)
  /\ used' = Minus(used, size[BlockOf(l)])
  /\ UNCHANGED size

\* alloc, copy, dealloc, whether the allocation grows or shrinks.
Realloc(l, n) ==
  \E i \in DOMAIN free :
    /\ FirstFit(i, Taken(n, l.align))
    /\ size' = HeadersAfter(i, Taken(n, l.align))
    /\ free' = Push(BlockOf(l), FreeAfter(i, Taken(n, l.align)))
    /\ live' = (live \ {l}) \cup {Allocation(free[i] + Offset(l.align), n, l.align)}
    /\ used' = Minus(used + Taken(n, l.align), size[BlockOf(l)])

Next ==
  \/ \E n \in Sizes, a \in Aligns : Alloc(n, a) \/ AllocFails(n, a)
  \/ \E l \in live : Dealloc(l) \/ \E n \in Sizes : Realloc(l, n)

Spec == Init /\ [][Next]_vars

-----------------------------------------------------------------------------
(* Properties *)

\* The state has its types; the free list and the callers name real blocks.
TypeOK ==
  /\ Blocks \subseteq Nat
  /\ size \in [Blocks -> Nat]
  /\ free \in Seq(Blocks)
  /\ used \in Nat
  /\ live \subseteq [ptr : Nat, bytes : Sizes, align : Aligns]
  /\ \A l \in live : BlockOf(l) \in Blocks

\* A block is in the free list once or in use once, never both; every block is
\* aligned and large enough for the header that heap.rs writes into it, and
\* what was asked for fits (first fit, split and dealloc together).
OneUse ==
  /\ \A i, j \in DOMAIN free : free[i] = free[j] => i = j
  /\ \A l \in live : BlockOf(l) \notin Range(free)
  /\ \A l, m \in live : BlockOf(l) = BlockOf(m) => l = m
  /\ \A l \in live : Taken(l.bytes, l.align) <= size[BlockOf(l)]
  /\ \A b \in Blocks : b % 16 = 0 /\ size[b] >= MIN_BLOCK

\* Blocks lie inside the heap and do not overlap: writing the header of one,
\* which alloc and dealloc do without looking, harms no other.
Disjoint ==
  /\ \A b \in Blocks : Base <= b /\ End(b) <= Limit
  /\ \A b, c \in Blocks : b < c => End(b) <= c

\* Both together: no store of the allocator reaches what a caller holds.
BlocksSound == OneUse /\ Disjoint

\* No byte is lost: the blocks tile the heap without a gap, however it was split,
\* and every block is in the list or in use.
NothingLost ==
  /\ Base \in Blocks
  /\ \A b \in Blocks : End(b) = Limit \/ End(b) \in Blocks
  /\ Blocks = Range(free) \cup {BlockOf(l) : l \in live}

\* The bytes a request took: header, padding and payload.
Bytes(l) == BlockOf(l) .. BlockOf(l) + Taken(l.bytes, l.align) - 1
BytesInUse == UNION {Bytes(l) : l \in live}

\* `used` adds what was asked for and subtracts the size of the block, which may
\* be more.  It is what the status line prints: it never claims more than is in
\* use, and an empty heap is reported as empty.
UsedSound == used <= Cardinality(BytesInUse)

\* What a block can serve of a layout: it begins at a multiple of 16.
Served(align) == IF align > 16 THEN 16 ELSE align
AsServed(l) == Allocation(l.ptr, l.bytes, Served(l.align))

\* The contract of GlobalAlloc for layouts up to 16 bytes of alignment, and for
\* the others as far as 16 bytes: payloads inside the heap, disjoint, stable,
\* aligned, and for realloc disjoint from the old one, as copy_nonoverlapping
\* requires.
Abstract == INSTANCE AbstractHeap WITH
  Arena <- Base .. Limit - 1,
  Aligns <- {Served(a) : a \in Aligns},
  live <- {AsServed(l) : l \in live}
ImplementsAllocator == Abstract!Spec

\* "Allocates an aligned DMA block" (ahci.rs), of a layout that asks for 4096:
\* what alloc returns is a multiple of the alignment of its layout.
LayoutAligned == \A l \in live : l.ptr % l.align = 0
=============================================================================
