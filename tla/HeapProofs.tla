------------------------------ MODULE HeapProofs ------------------------------
(***************************************************************************)
(* Theorems about Heap for every heap, every set of sizes and alignments:  *)
(* blocks never overlap, and the heap implements AbstractHeap.             *)
(***************************************************************************)
EXTENDS Heap, FiniteSetTheorems, TLAPS

-----------------------------------------------------------------------------
(* Arithmetic *)

\* AlignUp to 16 gives the next multiple of 16.
LEMMA AlignUp16 ==
  ASSUME NEW v \in Nat
  PROVE  /\ AlignUp(v, 16) \in Nat
         /\ AlignUp(v, 16) >= v
         /\ AlignUp(v, 16) < v + 16
         /\ AlignUp(v, 16) % 16 = 0
BY DEF AlignUp

\* The distance from a block to its payload: room for the header, and a
\* multiple of 16 whatever the alignment.
LEMMA OffsetFacts ==
  ASSUME NEW a \in Aligns
  PROVE  /\ Offset(a) \in Nat
         /\ Offset(a) >= BLOCK_HEADER
         /\ Offset(a) % 16 = 0
<1>1. a \in Nat \ {0} /\ (16 % a = 0 \/ (a > 16 /\ a % 16 = 0))
  BY HeapConstants
<1>2. CASE 16 % a = 0
  <2>1. a % a = 0 /\ a - 0 = a
    BY <1>1
  <2>2. (a - (16 % a)) % a = 0
    BY <1>1, <1>2, <2>1
  <2>3. Offset(a) = 16
    BY <2>2 DEF Offset, AlignUp, BLOCK_HEADER
  <2> QED BY <2>3 DEF BLOCK_HEADER
<1>3. CASE a > 16 /\ a % 16 = 0
  <2>1. 16 % a = 16
    BY <1>1, <1>3
  <2>2. (a - 16) % a = a - 16
    BY <1>1, <1>3
  <2>3. Offset(a) = a
    BY <1>1, <2>1, <2>2 DEF Offset, AlignUp, BLOCK_HEADER
  <2> QED BY <1>1, <1>3, <2>3 DEF BLOCK_HEADER
<1> QED BY <1>1, <1>2, <1>3

\* A request takes its header, and more than that.
LEMMA TakenFacts ==
  ASSUME NEW n \in Sizes, NEW a \in Aligns
  PROVE  Taken(n, a) \in Nat /\ Taken(n, a) > BLOCK_HEADER
BY OffsetFacts, HeapConstants DEF Taken, BLOCK_HEADER

\* A multiple of 16 is a multiple of what a block serves of an alignment.
LEMMA MultipleOf16 ==
  ASSUME NEW p \in Nat, p % 16 = 0, NEW a \in Aligns
  PROVE  p % Served(a) = 0
<1>1. a \in Nat \ {0} /\ (16 % a = 0 \/ (a > 16 /\ a % 16 = 0))
  BY HeapConstants
<1>2. CASE a < 16
  <2>1. a \in {1, 2, 4, 8}
    <3>1. a \in 1 .. 15 /\ 16 % a = 0
      BY <1>1, <1>2
    <3> QED BY <3>1
  <2>2. p % 1 = 0 /\ p % 2 = 0 /\ p % 4 = 0 /\ p % 8 = 0
    OBVIOUS
  <2> QED BY <1>2, <2>1, <2>2 DEF Served
<1>3. CASE a >= 16
  BY <1>1, <1>3 DEF Served
<1> QED BY <1>1, <1>2, <1>3

\* The heap has an end behind its beginning.
LEMMA HeapBounds ==
  /\ Base \in Nat
  /\ Base % 16 = 0
  /\ Limit \in Nat
  /\ Limit = Base + (Usable - BLOCK_HEADER)
  /\ Usable - BLOCK_HEADER \in Nat
  /\ Usable - BLOCK_HEADER >= MIN_BLOCK
BY AlignUp16, HeapConstants DEF Base, Limit, Usable, BLOCK_HEADER, MIN_BLOCK

-----------------------------------------------------------------------------
(* The free list *)

\* Unlink removes one element and moves nothing in or out otherwise.
LEMMA UnlinkFacts ==
  ASSUME NEW S, NEW s \in Seq(S), NEW i \in 1 .. Len(s),
         \A j, k \in DOMAIN s : s[j] = s[k] => j = k
  PROVE  /\ Unlink(s, i) \in Seq(S)
         /\ \A j, k \in DOMAIN Unlink(s, i) : Unlink(s, i)[j] = Unlink(s, i)[k] => j = k
         /\ s[i] \notin Range(Unlink(s, i))
         /\ Range(Unlink(s, i)) \subseteq Range(s)
<1> DEFINE u == Unlink(s, i)
<1>1. Len(s) \in Nat /\ Len(s) - 1 \in Nat /\ DOMAIN s = 1 .. Len(s)
  OBVIOUS
<1>2. u = [k \in 1 .. Len(s) - 1 |-> IF k < i THEN s[k] ELSE s[k + 1]]
  BY DEF Unlink
<1>3. \A k \in 1 .. Len(s) - 1 :
        \E j \in 1 .. Len(s) : j # i /\ u[k] = s[j]
  <2> SUFFICES ASSUME NEW k \in 1 .. Len(s) - 1
               PROVE  \E j \in 1 .. Len(s) : j # i /\ u[k] = s[j]
    OBVIOUS
  <2>1. CASE k < i
    BY <1>1, <1>2, <2>1
  <2>2. CASE ~(k < i)
    <3>1. k + 1 \in 1 .. Len(s) /\ k + 1 # i
      BY <1>1, <2>2
    <3>2. u[k] = s[k + 1]
      BY <1>1, <1>2, <2>2
    <3> QED BY <3>1, <3>2
  <2> QED BY <2>1, <2>2
<1>4. u \in Seq(S)
  <2>1. \A k \in 1 .. Len(s) - 1 : u[k] \in S
    BY <1>1, <1>3
  <2>2. u \in [1 .. Len(s) - 1 -> S]
    BY <1>2, <2>1
  <2> QED BY <1>1, <2>2
<1>5. DOMAIN u = 1 .. Len(s) - 1
  BY <1>2
<1>6. \A j, k \in DOMAIN u : u[j] = u[k] => j = k
  <2> SUFFICES ASSUME NEW j \in DOMAIN u, NEW k \in DOMAIN u, u[j] = u[k]
               PROVE  j = k
    OBVIOUS
  <2> DEFINE At(m) == IF m < i THEN m ELSE m + 1
  <2>1. j \in 1 .. Len(s) - 1 /\ k \in 1 .. Len(s) - 1
    BY <1>5
  <2>2. At(j) \in DOMAIN s /\ At(k) \in DOMAIN s
    BY <1>1, <2>1
  <2>3. u[j] = s[At(j)] /\ u[k] = s[At(k)]
    BY <1>2, <2>1
  <2>4. At(j) = At(k)
    BY <2>2, <2>3
  <2> QED BY <1>1, <2>1, <2>4
<1>7. \A r \in Range(u) : \E j \in DOMAIN s : j # i /\ r = s[j]
  <2>1. \A r \in Range(u) : \E k \in 1 .. Len(s) - 1 : r = u[k]
    BY <1>5 DEF Range
  <2> QED BY <1>1, <1>3, <2>1
<1>8. s[i] \notin Range(u) /\ Range(u) \subseteq Range(s)
  BY <1>1, <1>7 DEF Range
<1> QED BY <1>4, <1>6, <1>8

\* Push adds one element at the head.
LEMMA PushFacts ==
  ASSUME NEW S, NEW s \in Seq(S), NEW b \in S, b \notin Range(s),
         \A j, k \in DOMAIN s : s[j] = s[k] => j = k
  PROVE  /\ Push(b, s) \in Seq(S)
         /\ \A j, k \in DOMAIN Push(b, s) : Push(b, s)[j] = Push(b, s)[k] => j = k
         /\ Range(Push(b, s)) = {b} \cup Range(s)
<1> DEFINE p == Push(b, s)
<1>1. Len(s) \in Nat /\ DOMAIN s = 1 .. Len(s)
  OBVIOUS
<1>2. p = [k \in 1 .. Len(s) + 1 |-> IF k = 1 THEN b ELSE s[k - 1]]
  BY DEF Push
<1>3. DOMAIN p = 1 .. Len(s) + 1 /\ p[1] = b
  BY <1>1, <1>2
<1>4. \A k \in DOMAIN p : k # 1 => k - 1 \in DOMAIN s /\ p[k] = s[k - 1]
  BY <1>1, <1>2, <1>3
<1>5. p \in Seq(S)
  <2>1. \A k \in 1 .. Len(s) + 1 : p[k] \in S
    BY <1>1, <1>3, <1>4
  <2>2. p \in [1 .. Len(s) + 1 -> S]
    BY <1>2, <2>1
  <2> QED BY <1>1, <2>2
<1>6. \A k \in DOMAIN p : k # 1 => p[k] # b
  BY <1>4 DEF Range
<1>7. \A j, k \in DOMAIN p : p[j] = p[k] => j = k
  BY <1>1, <1>3, <1>4, <1>6
<1>8. Range(p) = {b} \cup Range(s)
  <2>1. Range(p) \subseteq {b} \cup Range(s)
    BY <1>3, <1>4 DEF Range
  <2>2. b \in Range(p)
    BY <1>1, <1>3 DEF Range
  <2>3. \A k \in DOMAIN s : k + 1 \in DOMAIN p /\ p[k + 1] = s[k]
    BY <1>1, <1>2, <1>3
  <2>4. Range(s) \subseteq Range(p)
    BY <2>3 DEF Range
  <2> QED BY <2>1, <2>2, <2>4
<1> QED BY <1>5, <1>7, <1>8

-----------------------------------------------------------------------------
(* Cutting a block *)

IInv == TypeOK /\ OneUse /\ Disjoint

\* What alloc_locked leaves when it has taken block free[i] for `total` bytes:
\* headers z and free list f.
Carved(i, total, z, f) ==
  /\ DOMAIN z \subseteq Nat /\ z \in [DOMAIN z -> Nat]
  /\ Blocks \subseteq DOMAIN z
  /\ \A c \in Blocks : c # free[i] => z[c] = size[c]
  /\ total <= z[free[i]]
  /\ \A b \in DOMAIN z :
       b % 16 = 0 /\ z[b] >= MIN_BLOCK /\ Base <= b /\ b + z[b] <= Limit
  /\ \A b, c \in DOMAIN z : b < c => b + z[b] <= c
  /\ f \in Seq(DOMAIN z)
  /\ \A j, k \in DOMAIN f : f[j] = f[k] => j = k
  /\ free[i] \notin Range(f)
  /\ \A c \in Range(f) : c \in Range(free) \/ c \notin Blocks

\* The remainder of a split is a block of its own, clear of every other.
LEMMA SplitFacts ==
  ASSUME IInv, NEW b \in Blocks, NEW total \in Nat, total > BLOCK_HEADER,
         Splits(b, total)
  PROVE  LET z == Split(b, total)
             r == Rest(b, total) IN
         /\ r \in Nat \ Blocks
         /\ DOMAIN z = Blocks \cup {r}
         /\ z \in [DOMAIN z -> Nat]
         /\ \A c \in Blocks : c # b => z[c] = size[c]
         /\ total <= z[b]
         /\ \A c \in DOMAIN z :
              c % 16 = 0 /\ z[c] >= MIN_BLOCK /\ Base <= c /\ c + z[c] <= Limit
         /\ \A c, d \in DOMAIN z : c < d => c + z[c] <= d
<1> DEFINE z == Split(b, total)
           r == Rest(b, total)
<1> USE DEF BLOCK_HEADER, MIN_BLOCK
<1>1. b \in Nat /\ size[b] \in Nat /\ End(b) = b + size[b] /\ b % 16 = 0
  BY DEF IInv, TypeOK, OneUse, End
<1>2. r \in Nat /\ r % 16 = 0 /\ r >= b + total
  BY <1>1, AlignUp16 DEF Rest
<1>3. End(b) - r >= 32
  BY DEF Splits
<1>4. r - b >= 32
  BY <1>1, <1>2
<1>5. r \notin Blocks
  <2> SUFFICES ASSUME r \in Blocks PROVE FALSE
    OBVIOUS
  <2>1. b < r
    BY <1>1, <1>2, <1>4
  <2>2. End(b) <= r
    BY <2>1 DEF IInv, Disjoint
  <2> QED BY <1>1, <1>2, <1>3, <2>2
<1>6. DOMAIN z = Blocks \cup {r}
  BY DEF Split
<1>7. /\ z[b] = r - b
      /\ z[r] = b + size[b] - r
      /\ \A c \in Blocks : c # b => z[c] = size[c]
  <2>1. z = [c \in Blocks \cup {r} |->
               IF c = b THEN r - b ELSE IF c = r THEN End(b) - r ELSE size[c]]
    BY DEF Split
  <2>2. z[b] = r - b
    BY <2>1
  <2>3. z[r] = End(b) - r
    BY <1>5, <2>1
  <2>4. ASSUME NEW c \in Blocks, c # b PROVE z[c] = size[c]
    BY <1>5, <2>1, <2>4
  <2> HIDE DEF z, r
  <2>5. z[r] = b + size[b] - r
    BY <1>1, <1>2, <2>3
  <2> QED BY <2>2, <2>4, <2>5
<1>8. z[b] \in Nat /\ z[r] \in Nat
  BY <1>1, <1>2, <1>3, <1>4, <1>7
<1>9. z \in [DOMAIN z -> Nat]
  <2>1. \A c \in Blocks : c # b => z[c] \in Nat
    BY <1>7 DEF IInv, TypeOK
  <2>2. \A c \in DOMAIN z : z[c] \in Nat
    BY <1>6, <1>8, <2>1
  <2>3. z = [c \in DOMAIN z |-> z[c]]
    BY DEF Split
  <2> QED BY <2>2, <2>3
<1>10. total <= z[b]
  BY <1>1, <1>2, <1>7
<1>11. \A c \in DOMAIN z :
         c % 16 = 0 /\ z[c] >= MIN_BLOCK /\ Base <= c /\ c + z[c] <= Limit
  <2>1. Base <= b /\ b + size[b] <= Limit
    BY DEF IInv, Disjoint, End
  <2>2. /\ \A c \in Blocks : c \in Nat /\ c % 16 = 0 /\ size[c] \in Nat /\ size[c] >= 32
        /\ \A c \in Blocks : Base <= c /\ c + size[c] <= Limit
    BY DEF IInv, TypeOK, OneUse, Disjoint, End
  <2>3. b % 16 = 0 /\ z[b] >= 32 /\ Base <= b /\ b + z[b] <= Limit
    BY <1>1, <1>2, <1>3, <1>4, <1>7, <2>1, HeapBounds
  <2>4. r % 16 = 0 /\ z[r] >= 32 /\ Base <= r /\ r + z[r] <= Limit
    BY <1>1, <1>2, <1>3, <1>4, <1>7, <2>1, HeapBounds
  <2> QED BY <1>6, <1>7, <2>2, <2>3, <2>4
<1>12. \A c, d \in DOMAIN z : c < d => c + z[c] <= d
  <2> SUFFICES ASSUME NEW c \in DOMAIN z, NEW d \in DOMAIN z, c < d
               PROVE  c + z[c] <= d
    OBVIOUS
  <2>1. \A e, g \in Blocks : e < g => e + size[e] <= g
    BY DEF IInv, Disjoint, End
  <2>2. \A e \in Blocks : e \in Nat /\ size[e] \in Nat
    BY DEF IInv, TypeOK
  <2>3. CASE c = r
    <3>0. d \in Blocks
      BY <1>2, <1>6, <2>3
    <3>1. d \in Blocks /\ d # b /\ b < d
      BY <1>1, <1>2, <1>4, <2>2, <2>3, <3>0
    <3>2. b + size[b] <= d
      BY <2>1, <3>1
    <3> QED BY <1>1, <1>2, <1>7, <2>2, <2>3, <3>1, <3>2
  <2>4. CASE c # r /\ d = r
    <3>1. c \in Blocks
      BY <1>6, <2>4
    <3>2. CASE c = b
      BY <1>1, <1>2, <1>7, <2>4, <3>2
    <3>3. CASE c # b
      <4>1. c + size[c] <= b \/ b + size[b] <= c
        BY <1>1, <2>1, <2>2, <3>1, <3>3
      <4>2. ~(b + size[b] <= c)
        BY <1>1, <1>2, <1>3, <2>2, <2>4, <3>1
      <4> QED BY <1>1, <1>2, <1>4, <1>7, <2>2, <2>4, <3>1, <3>3, <4>1, <4>2
    <3> QED BY <3>2, <3>3
  <2>5. CASE c # r /\ d # r
    <3>1. c \in Blocks /\ d \in Blocks
      BY <1>6, <2>5
    <3>2. c + size[c] <= d
      BY <2>1, <3>1
    <3>3. CASE c = b
      BY <1>1, <1>2, <1>3, <1>7, <2>2, <3>1, <3>2, <3>3
    <3>4. CASE c # b
      BY <1>7, <3>1, <3>2, <3>4
    <3> QED BY <3>3, <3>4
  <2> QED BY <2>3, <2>4, <2>5
<1> QED BY <1>2, <1>5, <1>6, <1>7, <1>9, <1>10, <1>11, <1>12

\* Taking a block, with or without a split, carves it out.
LEMMA TakeFacts ==
  ASSUME IInv, NEW i \in DOMAIN free, NEW total \in Nat, total > BLOCK_HEADER,
         Fits(i, total)
  PROVE  Carved(i, total, HeadersAfter(i, total), FreeAfter(i, total))
<1> DEFINE b == free[i]
<1>1. /\ free \in Seq(Blocks) /\ b \in Blocks /\ i \in 1 .. Len(free)
      /\ \A j, k \in DOMAIN free : free[j] = free[k] => j = k
  BY DEF IInv, TypeOK, OneUse
<1>2. CASE Splits(b, total)
  <2> DEFINE z == Split(b, total)
             r == Rest(b, total)
             f == [free EXCEPT ![i] = r]
  <2>1. HeadersAfter(i, total) = z /\ FreeAfter(i, total) = f
    BY <1>2 DEF HeadersAfter, FreeAfter
  <2>2. /\ r \in Nat /\ r \notin Blocks /\ DOMAIN z = Blocks \cup {r}
        /\ z \in [DOMAIN z -> Nat]
        /\ \A c \in Blocks : c # b => z[c] = size[c]
        /\ total <= z[b]
        /\ \A c \in DOMAIN z :
             c % 16 = 0 /\ z[c] >= MIN_BLOCK /\ Base <= c /\ c + z[c] <= Limit
        /\ \A c, d \in DOMAIN z : c < d => c + z[c] <= d
    BY <1>1, <1>2, SplitFacts
  <2>3. DOMAIN z \subseteq Nat
    BY <2>2 DEF IInv, TypeOK
  <2> HIDE DEF z, r
  <2>4. f \in Seq(DOMAIN z)
    BY <1>1, <2>2
  <2>5. /\ DOMAIN f = DOMAIN free
        /\ f[i] = r
        /\ \A j \in DOMAIN free : j # i => f[j] = free[j]
    BY <1>1
  <2>6. \A j \in DOMAIN free : free[j] \in Blocks
    BY <1>1
  <2>7. \A j, k \in DOMAIN f : f[j] = f[k] => j = k
    BY <1>1, <2>2, <2>5, <2>6
  <2>8. \A c \in Range(f) : \E j \in DOMAIN free : (j = i /\ c = r) \/ (j # i /\ c = free[j])
    BY <2>5 DEF Range
  <2>9. b \notin Range(f)
    BY <1>1, <2>2, <2>8
  <2>10. \A c \in Range(f) : c \in Range(free) \/ c \notin Blocks
    BY <2>2, <2>8 DEF Range
  <2>11. Carved(i, total, z, f)
    BY <2>2, <2>3, <2>4, <2>7, <2>9, <2>10 DEF Carved
  <2> QED BY <2>1, <2>11
<1>3. CASE ~Splits(b, total)
  <2>1. HeadersAfter(i, total) = size /\ FreeAfter(i, total) = Unlink(free, i)
    BY <1>3 DEF HeadersAfter, FreeAfter
  <2>2. /\ Unlink(free, i) \in Seq(Blocks)
        /\ \A j, k \in DOMAIN Unlink(free, i) :
             Unlink(free, i)[j] = Unlink(free, i)[k] => j = k
        /\ b \notin Range(Unlink(free, i))
        /\ Range(Unlink(free, i)) \subseteq Range(free)
    BY <1>1, UnlinkFacts
  <2>3. /\ DOMAIN size \subseteq Nat /\ size \in [DOMAIN size -> Nat]
        /\ total <= size[b]
    BY <1>1 DEF IInv, TypeOK, Fits
  <2>4. /\ \A c \in Blocks : c % 16 = 0 /\ size[c] >= MIN_BLOCK
                              /\ Base <= c /\ c + size[c] <= Limit
        /\ \A c, d \in Blocks : c < d => c + size[c] <= d
    BY DEF IInv, OneUse, Disjoint, End
  <2>5. Carved(i, total, size, Unlink(free, i))
    BY <2>2, <2>3, <2>4 DEF Carved, Blocks
  <2> QED BY <2>1, <2>5
<1> QED BY <1>2, <1>3

-----------------------------------------------------------------------------
(* The invariant *)

\* What a caller holds is a block of its own, with room for what was asked.
HeldBy(L, z) ==
  /\ L \subseteq [ptr : Nat, bytes : Sizes, align : Aligns]
  /\ \A l \in L : BlockOf(l) \in DOMAIN z
  /\ \A l \in L : Taken(l.bytes, l.align) <= z[BlockOf(l)]
  /\ \A l, m \in L : BlockOf(l) = BlockOf(m) => l = m

LEMMA InitInv ==
  ASSUME Init
  PROVE  IInv
<1> USE HeapBounds DEF Init
<1>1. Blocks = {Base} /\ size[Base] = Usable - BLOCK_HEADER
  BY DEF Blocks
<1>2. TypeOK
  <2>1. size \in [Blocks -> Nat]
    BY <1>1 DEF Blocks
  <2>2. free \in Seq(Blocks)
    BY <1>1
  <2> QED BY <1>1, <2>1, <2>2 DEF TypeOK
<1>3. OneUse
  <2>1. DOMAIN free = {1} /\ free[1] = Base
    OBVIOUS
  <2> QED BY <1>1, <2>1 DEF OneUse, MIN_BLOCK
<1>4. Disjoint
  BY <1>1 DEF Disjoint, End, BLOCK_HEADER
<1> QED BY <1>2, <1>3, <1>4 DEF IInv

\* The allocation cut from block free[i] and its block.
LEMMA NewAllocation ==
  ASSUME IInv, NEW i \in DOMAIN free, NEW n \in Sizes, NEW a \in Aligns
  PROVE  LET new == Allocation(free[i] + Offset(a), n, a) IN
         /\ new \in [ptr : Nat, bytes : Sizes, align : Aligns]
         /\ BlockOf(new) = free[i]
         /\ free[i] \in Blocks
         /\ Taken(new.bytes, new.align) = Taken(n, a)
<1>1. free[i] \in Blocks
  BY DEF IInv, TypeOK
<1>2. free[i] \in Nat
  BY <1>1 DEF IInv, TypeOK
<1> QED BY <1>1, <1>2, OffsetFacts DEF Allocation, BlockOf

\* Taking block free[i] for a new allocation keeps what the callers in L hold
\* and gives the newcomer a block nobody had.
LEMMA NewHolder ==
  ASSUME IInv, NEW i \in DOMAIN free, NEW n \in Sizes, NEW a \in Aligns,
         NEW z, NEW f, Carved(i, Taken(n, a), z, f)
  PROVE  /\ HeldBy(live \cup {Allocation(free[i] + Offset(a), n, a)}, z)
         /\ \A l \in live \cup {Allocation(free[i] + Offset(a), n, a)} :
              BlockOf(l) \notin Range(f)
         /\ \A l \in live : BlockOf(l) # free[i]
<1> DEFINE new == Allocation(free[i] + Offset(a), n, a)
<1>1. /\ new \in [ptr : Nat, bytes : Sizes, align : Aligns]
      /\ BlockOf(new) = free[i]
      /\ free[i] \in Blocks
      /\ Taken(new.bytes, new.align) = Taken(n, a)
  BY NewAllocation
<1> HIDE DEF new
<1>2. free[i] \in Range(free)
  BY DEF Range
<1>3. \A l \in live : BlockOf(l) \in Blocks /\ BlockOf(l) \notin Range(free)
                      /\ BlockOf(l) # free[i]
  BY <1>2 DEF IInv, TypeOK, OneUse
<1>4. \A l \in live : z[BlockOf(l)] = size[BlockOf(l)]
  BY <1>3 DEF Carved
<1>5. HeldBy(live \cup {new}, z)
  <2>1. live \cup {new} \subseteq [ptr : Nat, bytes : Sizes, align : Aligns]
    BY <1>1 DEF IInv, TypeOK
  <2>2. \A l \in live \cup {new} : BlockOf(l) \in DOMAIN z
    BY <1>1, <1>3 DEF Carved
  <2>3. \A l \in live \cup {new} : Taken(l.bytes, l.align) <= z[BlockOf(l)]
    BY <1>1, <1>4 DEF Carved, IInv, OneUse
  <2>4. \A l, m \in live \cup {new} : BlockOf(l) = BlockOf(m) => l = m
    BY <1>1, <1>3 DEF IInv, OneUse
  <2> QED BY <2>1, <2>2, <2>3, <2>4 DEF HeldBy
<1>6. \A l \in live \cup {new} : BlockOf(l) \notin Range(f)
  BY <1>1, <1>3 DEF Carved
<1> QED BY <1>3, <1>5, <1>6 DEF new

LEMMA AllocInv ==
  ASSUME IInv, NEW n \in Sizes, NEW a \in Aligns, Alloc(n, a)
  PROVE  IInv'
<1>1. PICK i \in DOMAIN free :
        /\ FirstFit(i, Taken(n, a))
        /\ size' = HeadersAfter(i, Taken(n, a))
        /\ free' = FreeAfter(i, Taken(n, a))
        /\ live' = live \cup {Allocation(free[i] + Offset(a), n, a)}
  BY DEF Alloc
<1>2. Carved(i, Taken(n, a), size', free')
  BY <1>1, TakeFacts, TakenFacts DEF FirstFit
<1>3. /\ HeldBy(live', size')
      /\ \A l \in live' : BlockOf(l) \notin Range(free')
  BY <1>1, <1>2, NewHolder
<1>4. used' \in Nat
  BY TakenFacts DEF Alloc, IInv, TypeOK
<1>5. TypeOK'
  BY <1>2, <1>3, <1>4 DEF TypeOK, Carved, HeldBy, Blocks, BlockOf
<1>6. OneUse'
  BY <1>2, <1>3 DEF OneUse, Carved, HeldBy, Blocks, BlockOf
<1>7. Disjoint'
  BY <1>2 DEF Disjoint, Carved, Blocks, End
<1> QED BY <1>5, <1>6, <1>7 DEF IInv

LEMMA MinusNat ==
  ASSUME NEW x \in Nat, NEW y \in Nat
  PROVE  Minus(x, y) \in Nat
BY DEF Minus

LEMMA DeallocInv ==
  ASSUME IInv, NEW l \in live, Dealloc(l)
  PROVE  IInv'
<1> DEFINE b == BlockOf(l)
<1>1. /\ free \in Seq(Blocks) /\ b \in Blocks /\ b \notin Range(free)
      /\ \A j, k \in DOMAIN free : free[j] = free[k] => j = k
  BY DEF IInv, TypeOK, OneUse
<1>2. /\ live' = live \ {l} /\ free' = Push(b, free) /\ size' = size
      /\ used' = Minus(used, size[b])
  BY DEF Dealloc
<1>3. /\ free' \in Seq(Blocks)
      /\ \A j, k \in DOMAIN free' : free'[j] = free'[k] => j = k
      /\ Range(free') = {b} \cup Range(free)
  BY <1>1, <1>2, PushFacts
<1>4. \A m \in live' : m \in live /\ BlockOf(m) # b
  BY <1>2 DEF IInv, OneUse
<1>5. TypeOK'
  BY <1>1, <1>2, <1>3, <1>4, MinusNat DEF IInv, TypeOK, Blocks, BlockOf
<1>6. OneUse'
  BY <1>2, <1>3, <1>4 DEF IInv, OneUse, Blocks, BlockOf
<1>7. Disjoint'
  BY <1>2 DEF IInv, Disjoint, Blocks, End
<1> QED BY <1>5, <1>6, <1>7 DEF IInv

LEMMA ReallocInv ==
  ASSUME IInv, NEW l \in live, NEW n \in Sizes, Realloc(l, n)
  PROVE  IInv'
<1> DEFINE b == BlockOf(l)
<1>0. l.align \in Aligns
  BY DEF IInv, TypeOK
<1>1. PICK i \in DOMAIN free :
        /\ FirstFit(i, Taken(n, l.align))
        /\ size' = HeadersAfter(i, Taken(n, l.align))
        /\ free' = Push(b, FreeAfter(i, Taken(n, l.align)))
        /\ live' = (live \ {l}) \cup {Allocation(free[i] + Offset(l.align), n, l.align)}
        /\ used' = Minus(used + Taken(n, l.align), size[b])
  BY DEF Realloc
<1> DEFINE f == FreeAfter(i, Taken(n, l.align))
           new == Allocation(free[i] + Offset(l.align), n, l.align)
<1>2. Carved(i, Taken(n, l.align), size', f)
  BY <1>0, <1>1, TakeFacts, TakenFacts DEF FirstFit
<1>3. /\ HeldBy(live \cup {new}, size')
      /\ \A m \in live \cup {new} : BlockOf(m) \notin Range(f)
      /\ \A m \in live : BlockOf(m) # free[i]
  BY <1>0, <1>2, NewHolder
<1>4. BlockOf(new) = free[i]
  BY <1>0, NewAllocation
<1> HIDE DEF f, new
<1>5. free' = Push(b, f) /\ live' = (live \ {l}) \cup {new}
  BY <1>1 DEF f, new
<1>6. /\ free' \in Seq(DOMAIN size')
      /\ \A j, k \in DOMAIN free' : free'[j] = free'[k] => j = k
      /\ Range(free') = {b} \cup Range(f)
  <2>1. /\ f \in Seq(DOMAIN size') /\ b \in DOMAIN size' /\ b \notin Range(f)
        /\ \A j, k \in DOMAIN f : f[j] = f[k] => j = k
    BY <1>2, <1>3 DEF Carved, HeldBy
  <2> QED BY <1>5, <2>1, PushFacts
<1>7. \A m \in live' : BlockOf(m) # b /\ m \in live \cup {new}
  BY <1>3, <1>4, <1>5 DEF IInv, OneUse
<1>8. /\ HeldBy(live', size')
      /\ \A m \in live' : BlockOf(m) \notin Range(free')
  BY <1>3, <1>6, <1>7 DEF HeldBy
<1>9. used' \in Nat
  <2>1. used + Taken(n, l.align) \in Nat
    BY <1>0, TakenFacts DEF IInv, TypeOK
  <2>2. size[b] \in Nat
    BY DEF IInv, TypeOK
  <2> QED BY <1>1, <2>1, <2>2, MinusNat
<1>10. TypeOK'
  BY <1>2, <1>6, <1>8, <1>9 DEF TypeOK, Carved, HeldBy, Blocks, BlockOf
<1>11. OneUse'
  BY <1>2, <1>6, <1>8 DEF OneUse, Carved, HeldBy, Blocks, BlockOf
<1>12. Disjoint'
  BY <1>2 DEF Disjoint, Carved, Blocks, End
<1> QED BY <1>10, <1>11, <1>12 DEF IInv

LEMMA StepInv ==
  ASSUME IInv, [Next]_vars
  PROVE  IInv'
<1>1. CASE UNCHANGED vars
  BY <1>1 DEF vars, IInv, TypeOK, OneUse, Disjoint, Blocks, BlockOf, End
<1>2. ASSUME NEW n \in Sizes, NEW a \in Aligns, Alloc(n, a)
      PROVE  IInv'
  BY <1>2, AllocInv
<1>3. ASSUME NEW n \in Sizes, NEW a \in Aligns, AllocFails(n, a)
      PROVE  IInv'
  BY <1>1, <1>3 DEF AllocFails
<1>4. ASSUME NEW l \in live, Dealloc(l)
      PROVE  IInv'
  BY <1>4, DeallocInv
<1>5. ASSUME NEW l \in live, NEW n \in Sizes, Realloc(l, n)
      PROVE  IInv'
  BY <1>5, ReallocInv
<1> QED BY <1>1, <1>2, <1>3, <1>4, <1>5 DEF Next

\* The inductive invariant: types, single use and disjointness need each other.
THEOREM HeapInvariant == Spec => []IInv
BY InitInv, StepInv, PTL DEF Spec

\* Type correctness: the free list and the callers name real blocks only, for
\* every heap, whatever is allocated and freed in whatever order.
THEOREM HeapTypes == Spec => []TypeOK
<1>1. IInv => TypeOK
  BY DEF IInv
<1> QED BY <1>1, HeapInvariant, PTL

\* No block is handed out twice or listed while in use, every request fits its
\* block, and blocks stay inside the heap and apart through every split.
THEOREM BlocksStaySound == Spec => []BlocksSound
<1>1. IInv => BlocksSound
  BY DEF IInv, BlocksSound
<1> QED BY <1>1, HeapInvariant, PTL

-----------------------------------------------------------------------------
(* The heap implements AbstractHeap *)

\* The bytes of an allocation lie in its block, behind the header.
LEMMA PayloadInBlock ==
  ASSUME IInv, NEW l \in live
  PROVE  /\ l.ptr \in Nat /\ l.bytes \in Nat /\ l.align \in Aligns
         /\ BlockOf(l) + BLOCK_HEADER <= l.ptr
         /\ l.ptr + l.bytes <= End(BlockOf(l))
         /\ l.ptr % 16 = 0
<1>1. l.ptr \in Nat /\ l.bytes \in Sizes /\ l.bytes \in Nat \ {0} /\ l.align \in Aligns
  BY HeapConstants DEF IInv, TypeOK
<1>2. Offset(l.align) \in Nat /\ Offset(l.align) >= BLOCK_HEADER /\ Offset(l.align) % 16 = 0
  BY <1>1, OffsetFacts
<1>3. BlockOf(l) \in Nat /\ BlockOf(l) % 16 = 0 /\ size[BlockOf(l)] \in Nat
  BY DEF IInv, TypeOK, OneUse
<1>4. Offset(l.align) + l.bytes <= size[BlockOf(l)]
  BY DEF IInv, OneUse, Taken
<1>5. l.ptr = BlockOf(l) + Offset(l.align)
  BY <1>1, <1>2 DEF BlockOf
<1>6. l.ptr + l.bytes <= BlockOf(l) + size[BlockOf(l)]
  BY <1>1, <1>2, <1>3, <1>4, <1>5
<1>7. l.ptr % 16 = 0
  BY <1>2, <1>3, <1>5
<1>8. BlockOf(l) + BLOCK_HEADER <= l.ptr
  BY <1>2, <1>3, <1>5 DEF BLOCK_HEADER
<1> QED BY <1>1, <1>6, <1>7, <1>8 DEF End

\* AbstractHeap sees an allocation with its place and size as they are.
LEMMA ServedFields ==
  ASSUME NEW l
  PROVE  /\ AsServed(l).ptr = l.ptr /\ AsServed(l).bytes = l.bytes
         /\ AsServed(l).align = Served(l.align)
         /\ AsServed(l) = Abstract!Allocation(l.ptr, l.bytes, Served(l.align))
         /\ Abstract!Payload(AsServed(l)) = Abstract!Payload(l)
BY DEF AsServed, Allocation, Abstract!Allocation, Abstract!Payload

\* Every payload lies in the heap and is aligned as far as 16 bytes.
LEMMA PayloadPlaced ==
  ASSUME IInv, NEW l \in live
  PROVE  Abstract!Payload(l) \subseteq Base .. Limit - 1 /\ Abstract!Aligned(AsServed(l))
<1>1. Base <= BlockOf(l) /\ End(BlockOf(l)) <= Limit
  BY DEF IInv, TypeOK, Disjoint
<1>2. BlockOf(l) \in Nat /\ End(BlockOf(l)) \in Nat
  <2>1. BlockOf(l) \in Blocks /\ BlockOf(l) \in Nat
    BY DEF IInv, TypeOK
  <2>2. size[BlockOf(l)] \in Nat
    BY <2>1 DEF IInv, TypeOK
  <2> QED BY <2>1, <2>2 DEF End
<1>3. Abstract!Payload(l) \subseteq Base .. Limit - 1
  BY <1>1, <1>2, PayloadInBlock, HeapBounds DEF Abstract!Payload, BLOCK_HEADER
<1>4. l.ptr % Served(l.align) = 0
  BY PayloadInBlock, MultipleOf16
<1>5. Abstract!Aligned(AsServed(l))
  BY <1>4, ServedFields DEF Abstract!Aligned
<1> QED BY <1>3, <1>5

\* Two payloads in different blocks do not overlap.
LEMMA PayloadsDisjoint ==
  ASSUME IInv, NEW l \in live, NEW m \in live, l # m
  PROVE  Abstract!Payload(l) \cap Abstract!Payload(m) = {}
<1> DEFINE b == BlockOf(l)
           c == BlockOf(m)
<1>1. b # c /\ b \in Blocks /\ c \in Blocks /\ b \in Nat /\ c \in Nat
  BY DEF IInv, TypeOK, OneUse
<1>2. End(b) \in Nat /\ End(c) \in Nat
  BY <1>1 DEF IInv, TypeOK, End
<1>3. End(b) <= c \/ End(c) <= b
  BY <1>1 DEF IInv, Disjoint
<1>4. /\ l.ptr \in Nat /\ l.bytes \in Nat /\ m.ptr \in Nat /\ m.bytes \in Nat
      /\ b <= l.ptr /\ l.ptr + l.bytes <= End(b)
      /\ c <= m.ptr /\ m.ptr + m.bytes <= End(c)
  BY <1>1, PayloadInBlock DEF BLOCK_HEADER
<1> HIDE DEF b, c
<1>5. l.ptr + l.bytes <= m.ptr \/ m.ptr + m.bytes <= l.ptr
  BY <1>1, <1>2, <1>3, <1>4
<1> QED BY <1>4, <1>5 DEF Abstract!Payload

\* What AbstractHeap says of its allocations, at once for all of them.
Placed ==
  \A l \in live :
    /\ Abstract!Payload(l) \subseteq Base .. Limit - 1
    /\ Abstract!Aligned(AsServed(l))
    /\ l.ptr \in Base .. Limit - 1
    /\ \A m \in live : l # m => Abstract!Payload(l) \cap Abstract!Payload(m) = {}

LEMMA InvPlaced == IInv => Placed
<1> SUFFICES ASSUME IInv, NEW l \in live
             PROVE  l.ptr \in Base .. Limit - 1
  BY PayloadPlaced, PayloadsDisjoint DEF Placed
<1>1. l.ptr \in Nat /\ l.bytes \in Nat /\ l.bytes > 0
  BY PayloadInBlock, HeapConstants DEF IInv, TypeOK
<1>2. l.ptr \in Abstract!Payload(l)
  BY <1>1 DEF Abstract!Payload
<1> QED BY <1>2, PayloadPlaced

LEMMA NextPlaced == IInv' => Placed'
BY InvPlaced, PTL

\* The allocations as AbstractHeap sees them.
Shown == {AsServed(l) : l \in live}

\* A new allocation is fresh for AbstractHeap.
LEMMA NewIsFresh ==
  ASSUME Placed', NEW new \in live',
         \A m \in live : Abstract!Payload(new) \cap Abstract!Payload(m) = {}
  PROVE  Abstract!Fresh(AsServed(new)) /\ new.ptr \in Base .. Limit - 1
<1>1. /\ Abstract!Payload(new) \subseteq Base .. Limit - 1
      /\ Abstract!Aligned(AsServed(new))
      /\ new.ptr \in Base .. Limit - 1
  BY DEF Placed, AsServed, Served, Allocation, Abstract!Payload, Abstract!Aligned
<1>2. \A m \in Shown : Abstract!Payload(AsServed(new)) \cap Abstract!Payload(m) = {}
  BY ServedFields DEF Shown
<1> QED BY <1>1, <1>2, ServedFields DEF Abstract!Fresh, Shown

LEMMA AllocRefines ==
  ASSUME IInv, NEW n \in Sizes, NEW a \in Aligns, Alloc(n, a)
  PROVE  Abstract!Alloc(n, Served(a))
<1>1. PICK i \in DOMAIN free :
        /\ FirstFit(i, Taken(n, a))
        /\ size' = HeadersAfter(i, Taken(n, a))
        /\ free' = FreeAfter(i, Taken(n, a))
        /\ live' = live \cup {Allocation(free[i] + Offset(a), n, a)}
  BY DEF Alloc
<1> DEFINE p == free[i] + Offset(a)
           new == Allocation(p, n, a)
<1>2. Placed'
  BY AllocInv, NextPlaced
<1>3. Carved(i, Taken(n, a), size', free')
  BY <1>1, TakeFacts, TakenFacts DEF FirstFit
<1>4. \A l \in live : BlockOf(l) # free[i]
  BY <1>3, NewHolder
<1>5. new \notin live
  BY <1>4, NewAllocation
<1>6. new.ptr = p /\ new.bytes = n /\ new.align = a
  BY DEF Allocation
<1> HIDE DEF p, new
<1>7. live' = live \cup {new}
  BY <1>1 DEF new, p
<1>8. \A m \in live : Abstract!Payload(new) \cap Abstract!Payload(m) = {}
  BY <1>2, <1>5, <1>7 DEF Placed, Abstract!Payload
<1>9. Abstract!Fresh(AsServed(new)) /\ p \in Base .. Limit - 1
  BY <1>2, <1>6, <1>7, <1>8, NewIsFresh
<1>10. AsServed(new) = Abstract!Allocation(p, n, Served(a))
  BY <1>6, ServedFields
<1>11. Shown' = Shown \cup {AsServed(new)}
  BY <1>7 DEF Shown, AsServed, Served, Allocation
<1> QED BY <1>9, <1>10, <1>11 DEF Abstract!Alloc, Shown

\* The payload cut from free[i] lies apart from every payload in use, also from
\* the one that realloc copies from and gives back afterwards.
LEMMA NewIsApart ==
  ASSUME IInv, NEW i \in DOMAIN free, NEW n \in Sizes, NEW a \in Aligns,
         Fits(i, Taken(n, a)), NEW m \in live
  PROVE  Abstract!Payload(Allocation(free[i] + Offset(a), n, a))
           \cap Abstract!Payload(m) = {}
<1> DEFINE new == Allocation(free[i] + Offset(a), n, a)
           z == HeadersAfter(i, Taken(n, a))
           f == FreeAfter(i, Taken(n, a))
           b == BlockOf(m)
           c == free[i]
<1>1. Carved(i, Taken(n, a), z, f)
  BY TakeFacts, TakenFacts
<1>2. b # c /\ b \in Blocks /\ c \in Blocks /\ b \in Nat /\ c \in Nat
  <2>1. b # c
    BY <1>1, NewHolder
  <2>2. b \in Blocks /\ c \in Blocks
    BY DEF IInv, TypeOK
  <2> QED BY <2>1, <2>2 DEF IInv, TypeOK
<1>3. z[b] = size[b] /\ size[b] \in Nat /\ z[c] \in Nat
  BY <1>1, <1>2 DEF Carved, IInv, TypeOK
<1>4. b + z[b] <= c \/ c + z[c] <= b
  BY <1>1, <1>2 DEF Carved
<1>5. /\ m.ptr \in Nat /\ m.bytes \in Nat
      /\ b <= m.ptr /\ m.ptr + m.bytes <= b + size[b]
  BY <1>2, PayloadInBlock DEF BLOCK_HEADER, End
<1>6. Offset(a) \in Nat /\ n \in Nat /\ Offset(a) + n <= z[c]
  BY <1>1, OffsetFacts, HeapConstants DEF Carved, Taken
<1>7. /\ new.ptr = c + Offset(a) /\ new.bytes = n
  BY DEF Allocation
<1> HIDE DEF new, z, b, c
<1>8. /\ new.ptr \in Nat /\ new.bytes \in Nat
      /\ c <= new.ptr /\ new.ptr + new.bytes <= c + z[c]
  BY <1>2, <1>3, <1>6, <1>7
<1>9. new.ptr + new.bytes <= m.ptr \/ m.ptr + m.bytes <= new.ptr
  BY <1>2, <1>3, <1>4, <1>5, <1>8
<1>10. Abstract!Payload(new) \cap Abstract!Payload(m) = {}
  BY <1>5, <1>8, <1>9 DEF Abstract!Payload
<1> QED BY <1>10 DEF new

\* AbstractHeap sees different allocations as different: their payloads do not
\* overlap.
LEMMA ServedRemoved ==
  ASSUME IInv, NEW l \in live
  PROVE  {AsServed(m) : m \in live \ {l}} = Shown \ {AsServed(l)}
<1>1. ASSUME NEW m \in live, AsServed(m) = AsServed(l)
      PROVE  m = l
  <2>1. m.ptr = l.ptr /\ m.bytes = l.bytes
    BY <1>1, ServedFields
  <2>2. Abstract!Payload(m) = Abstract!Payload(l)
    BY <2>1 DEF Abstract!Payload
  <2>3. l.ptr \in Nat /\ l.bytes \in Nat /\ l.bytes > 0
    BY PayloadInBlock, HeapConstants DEF IInv, TypeOK
  <2>4. l.ptr \in Abstract!Payload(l)
    BY <2>3 DEF Abstract!Payload
  <2> QED BY <2>2, <2>4, PayloadsDisjoint
<1> QED BY <1>1 DEF Shown

LEMMA ReallocRefines ==
  ASSUME IInv, NEW l \in live, NEW n \in Sizes, Realloc(l, n)
  PROVE  Abstract!Realloc(AsServed(l), n)
<1>0. l.align \in Aligns
  BY DEF IInv, TypeOK
<1>1. PICK i \in DOMAIN free :
        /\ Fits(i, Taken(n, l.align))
        /\ live' = (live \ {l}) \cup {Allocation(free[i] + Offset(l.align), n, l.align)}
  BY DEF Realloc, FirstFit
<1> DEFINE p == free[i] + Offset(l.align)
           new == Allocation(p, n, l.align)
<1>2. Placed'
  BY ReallocInv, NextPlaced
<1>3. \A m \in live : Abstract!Payload(new) \cap Abstract!Payload(m) = {}
  BY <1>0, <1>1, NewIsApart
<1>4. new.ptr = p /\ new.bytes = n /\ new.align = l.align
  BY DEF Allocation
<1> HIDE DEF p, new
<1>5. live' = (live \ {l}) \cup {new}
  BY <1>1 DEF new, p
<1>6. Abstract!Fresh(AsServed(new)) /\ p \in Base .. Limit - 1
  BY <1>2, <1>3, <1>4, <1>5, NewIsFresh
<1>7. AsServed(new) = Abstract!Allocation(p, n, AsServed(l).align)
  BY <1>4, ServedFields
<1>8. Shown' = (Shown \ {AsServed(l)}) \cup {AsServed(new)}
  <2>1. Shown' = {AsServed(m) : m \in live \ {l}} \cup {AsServed(new)}
    BY <1>5 DEF Shown, AsServed, Served, Allocation
  <2> QED BY <2>1, ServedRemoved
<1> QED BY <1>6, <1>7, <1>8 DEF Abstract!Realloc, Shown

LEMMA DeallocRefines ==
  ASSUME IInv, NEW l \in live, Dealloc(l)
  PROVE  Abstract!Dealloc(AsServed(l))
<1>1. Shown' = {AsServed(m) : m \in live \ {l}}
  BY DEF Dealloc, Shown, AsServed, Served, Allocation
<1> QED BY <1>1, ServedRemoved DEF Abstract!Dealloc, Shown

LEMMA StepRefines ==
  ASSUME IInv, [Next]_vars
  PROVE  [Abstract!Next]_Shown
<1>1. ASSUME live' = live
      PROVE  Shown' = Shown
  BY <1>1 DEF Shown, AsServed, Served, Allocation
<1>2. ASSUME NEW n \in Sizes, NEW a \in Aligns, Alloc(n, a)
      PROVE  Abstract!Next
  <2>1. Served(a) \in {Served(b) : b \in Aligns}
    OBVIOUS
  <2> QED BY <1>2, <2>1, AllocRefines DEF Abstract!Next
<1>3. ASSUME NEW n \in Sizes, NEW a \in Aligns, AllocFails(n, a)
      PROVE  live' = live
  BY <1>3 DEF AllocFails, vars
<1>4. ASSUME NEW l \in live, Dealloc(l)
      PROVE  Abstract!Next
  <2>1. AsServed(l) \in Shown
    BY DEF Shown
  <2> QED BY <1>4, <2>1, DeallocRefines DEF Abstract!Next, Shown
<1>5. ASSUME NEW l \in live, NEW n \in Sizes, Realloc(l, n)
      PROVE  Abstract!Next
  <2>1. AsServed(l) \in Shown
    BY DEF Shown
  <2> QED BY <1>5, <2>1, ReallocRefines DEF Abstract!Next, Shown
<1>6. CASE UNCHANGED vars
  BY <1>1, <1>6 DEF vars
<1> QED BY <1>1, <1>2, <1>3, <1>4, <1>5, <1>6 DEF Next

\* The free list implements the contract of the allocator: whatever the order of
\* alloc, dealloc and realloc, payloads are disjoint and inside the heap, and
\* aligned as far as 16 bytes.
THEOREM HeapImplementsAllocator == Spec => ImplementsAllocator
<1>1. Init => Abstract!Init
  BY DEF Init, Abstract!Init
<1>2. IInv /\ [Next]_vars => [Abstract!Next]_Shown
  BY StepRefines
<1> QED BY <1>1, <1>2, HeapInvariant, PTL DEF Spec, ImplementsAllocator, Abstract!Spec, Shown

-----------------------------------------------------------------------------
(* Nothing is lost *)

\* Unlink loses nothing but the element it removes.
LEMMA UnlinkKeeps ==
  ASSUME NEW S, NEW s \in Seq(S), NEW i \in 1 .. Len(s)
  PROVE  Range(s) \ {s[i]} \subseteq Range(Unlink(s, i))
<1> DEFINE u == Unlink(s, i)
<1>1. Len(s) \in Nat /\ DOMAIN s = 1 .. Len(s)
  OBVIOUS
<1>2. u = [k \in 1 .. Len(s) - 1 |-> IF k < i THEN s[k] ELSE s[k + 1]]
  BY DEF Unlink
<1> HIDE DEF u
<1>3. ASSUME NEW j \in 1 .. Len(s), j # i
      PROVE  \E k \in DOMAIN u : u[k] = s[j]
  <2>1. CASE j < i
    <3>1. j \in DOMAIN u /\ u[j] = s[j]
      BY <1>1, <1>2, <2>1
    <3> QED BY <3>1
  <2>2. CASE j > i
    <3>1. j - 1 \in DOMAIN u /\ ~(j - 1 < i) /\ (j - 1) + 1 = j
      BY <1>1, <1>2, <2>2
    <3>2. u[j - 1] = s[j]
      BY <1>2, <3>1
    <3> QED BY <3>1, <3>2
  <2> QED BY <1>3, <2>1, <2>2
<1>4. \A r \in Range(s) \ {s[i]} : \E j \in 1 .. Len(s) : j # i /\ r = s[j]
  BY <1>1 DEF Range
<1>5. \A r \in Range(s) \ {s[i]} : \E k \in DOMAIN u : r = u[k]
  BY <1>3, <1>4
<1>6. Range(s) \ {s[i]} \subseteq Range(u)
  BY <1>5 DEF Range
<1> QED BY <1>6 DEF u

\* The blocks with headers z leave no gap.
Tiled(z) ==
  /\ Base \in DOMAIN z
  /\ \A c \in DOMAIN z : c + z[c] = Limit \/ c + z[c] \in DOMAIN z

\* What taking free[i] keeps: no gap, and every other block is still in the
\* list f, unless it was not in the list before.
Keeps(i, z, f) ==
  /\ Tiled(z)
  /\ \A c \in DOMAIN z : c # free[i] => c \in Range(f) \/ c \in Blocks \ Range(free)

\* The two parts of a split block reach as far as it did.
LEMMA SplitTiles ==
  ASSUME IInv, Tiled(size), NEW b \in Blocks, NEW total \in Nat,
         total > BLOCK_HEADER, Splits(b, total)
  PROVE  Tiled(Split(b, total))
<1> DEFINE z == Split(b, total)
           r == Rest(b, total)
<1>1. /\ r \in Nat /\ r \notin Blocks /\ DOMAIN z = Blocks \cup {r}
  BY SplitFacts
<1>2. b \in Nat /\ size[b] \in Nat /\ End(b) = b + size[b]
  BY DEF IInv, TypeOK, End
<1>3. z = [c \in Blocks \cup {r} |->
             IF c = b THEN r - b ELSE IF c = r THEN End(b) - r ELSE size[c]]
  BY DEF Split
<1> HIDE DEF z, r
<1>4. z[b] = r - b /\ z[r] = End(b) - r
  BY <1>1, <1>3
<1>5. \A c \in Blocks : c # b => z[c] = size[c]
  BY <1>1, <1>3
<1>6. b + z[b] = r /\ r + z[r] = b + size[b]
  BY <1>1, <1>2, <1>4
<1>7. \A c \in Blocks : c + size[c] = Limit \/ c + size[c] \in Blocks
  BY DEF Tiled, Blocks
<1>8. \A c \in DOMAIN z : c + z[c] = Limit \/ c + z[c] \in DOMAIN z
  <2>1. r \in DOMAIN z /\ \A c \in Blocks : c \in DOMAIN z
    BY <1>1
  <2>2. b + z[b] \in DOMAIN z
    BY <1>6, <2>1
  <2>3. r + z[r] = Limit \/ r + z[r] \in DOMAIN z
    BY <1>6, <1>7, <2>1
  <2>4. ASSUME NEW c \in Blocks, c # b
        PROVE  c + z[c] = Limit \/ c + z[c] \in DOMAIN z
    BY <1>5, <1>7, <2>1, <2>4
  <2> QED BY <1>1, <2>2, <2>3, <2>4
<1>9. Base \in DOMAIN z
  BY <1>1 DEF Tiled, Blocks
<1> QED BY <1>8, <1>9 DEF Tiled, z

LEMMA TakeKeeps ==
  ASSUME IInv, Tiled(size), NEW i \in DOMAIN free, NEW total \in Nat,
         total > BLOCK_HEADER, Fits(i, total)
  PROVE  Keeps(i, HeadersAfter(i, total), FreeAfter(i, total))
<1> DEFINE b == free[i]
<1>1. free \in Seq(Blocks) /\ b \in Blocks /\ i \in 1 .. Len(free)
  BY DEF IInv, TypeOK
<1>2. CASE Splits(b, total)
  <2> DEFINE z == Split(b, total)
             r == Rest(b, total)
             f == [free EXCEPT ![i] = r]
  <2>1. HeadersAfter(i, total) = z /\ FreeAfter(i, total) = f
    BY <1>2 DEF HeadersAfter, FreeAfter
  <2>2. Tiled(z)
    BY <1>1, <1>2, SplitTiles
  <2>3. DOMAIN z = Blocks \cup {r}
    BY DEF Split
  <2>4. /\ DOMAIN f = DOMAIN free
        /\ f[i] = r
        /\ \A j \in DOMAIN free : j # i => f[j] = free[j]
    BY <1>1
  <2> HIDE DEF z, r, f
  <2>5. r \in Range(f)
    BY <2>4 DEF Range
  <2>6. \A c \in Range(free) : c # b => c \in Range(f)
    BY <2>4 DEF Range
  <2>7. \A c \in DOMAIN z : c # b => c \in Range(f) \/ c \in Blocks \ Range(free)
    BY <2>3, <2>5, <2>6
  <2> QED BY <2>1, <2>2, <2>7 DEF Keeps
<1>3. CASE ~Splits(b, total)
  <2>1. HeadersAfter(i, total) = size /\ FreeAfter(i, total) = Unlink(free, i)
    BY <1>3 DEF HeadersAfter, FreeAfter
  <2>2. Range(free) \ {b} \subseteq Range(Unlink(free, i))
    BY <1>1, UnlinkKeeps
  <2> QED BY <2>1, <2>2 DEF Keeps, Blocks
<1> QED BY <1>2, <1>3

\* Every block is in the list f or one of the callers in L holds it.
Placing(z, f, L) == \A c \in DOMAIN z : c \in Range(f) \/ \E l \in L : BlockOf(l) = c

\* NothingLost in the form the proofs use.
TInv == Tiled(size) /\ Placing(size, free, live)

LEMMA NothingLostFromTInv ==
  ASSUME IInv, TInv
  PROVE  NothingLost
<1>1. Base \in Blocks /\ \A b \in Blocks : End(b) = Limit \/ End(b) \in Blocks
  BY DEF TInv, Tiled, Blocks, End
<1>2. Blocks \subseteq Range(free) \cup {BlockOf(l) : l \in live}
  BY DEF TInv, Placing, Blocks
<1>3. Range(free) \subseteq Blocks
  BY DEF IInv, TypeOK, Range
<1>4. {BlockOf(l) : l \in live} \subseteq Blocks
  BY DEF IInv, TypeOK
<1> QED BY <1>1, <1>2, <1>3, <1>4 DEF NothingLost

LEMMA InitTInv ==
  ASSUME Init
  PROVE  TInv
<1>1. DOMAIN size = {Base} /\ Base + size[Base] = Limit
  BY HeapBounds DEF Init
<1>2. DOMAIN free = {1} /\ free[1] = Base
  BY DEF Init
<1>3. Base \in Range(free)
  BY <1>2 DEF Range
<1> QED BY <1>1, <1>3 DEF TInv, Tiled, Placing

\* With the block of the new allocation, every block has a place again.
LEMMA TakePlaces ==
  ASSUME IInv, TInv, NEW i \in DOMAIN free, NEW n \in Sizes, NEW a \in Aligns,
         NEW z, NEW f, Keeps(i, z, f)
  PROVE  Placing(z, f, live \cup {Allocation(free[i] + Offset(a), n, a)})
<1> DEFINE new == Allocation(free[i] + Offset(a), n, a)
<1>1. BlockOf(new) = free[i]
  BY NewAllocation
<1> HIDE DEF new
<1>2. ASSUME NEW c \in DOMAIN z
      PROVE  c \in Range(f) \/ \E l \in live \cup {new} : BlockOf(l) = c
  <2>1. CASE c = free[i]
    BY <1>1, <2>1
  <2>2. CASE c \in Blocks \ Range(free)
    BY <2>2 DEF TInv, Placing, Blocks
  <2> QED BY <2>1, <2>2 DEF Keeps
<1> QED BY <1>2 DEF Placing, new

LEMMA AllocTInv ==
  ASSUME IInv, TInv, NEW n \in Sizes, NEW a \in Aligns, Alloc(n, a)
  PROVE  TInv'
<1>1. PICK i \in DOMAIN free :
        /\ FirstFit(i, Taken(n, a))
        /\ size' = HeadersAfter(i, Taken(n, a))
        /\ free' = FreeAfter(i, Taken(n, a))
        /\ live' = live \cup {Allocation(free[i] + Offset(a), n, a)}
  BY DEF Alloc
<1>2. Keeps(i, size', free')
  BY <1>1, TakeKeeps, TakenFacts DEF FirstFit, TInv
<1>3. Placing(size', free', live')
  BY <1>1, <1>2, TakePlaces
<1> QED BY <1>2, <1>3 DEF TInv, Keeps, Tiled, Placing

LEMMA DeallocTInv ==
  ASSUME IInv, TInv, NEW l \in live, Dealloc(l)
  PROVE  TInv'
<1> DEFINE b == BlockOf(l)
<1>1. /\ free \in Seq(Blocks) /\ b \in Blocks /\ b \notin Range(free)
      /\ \A j, k \in DOMAIN free : free[j] = free[k] => j = k
  BY DEF IInv, TypeOK, OneUse
<1>2. live' = live \ {l} /\ free' = Push(b, free) /\ size' = size
  BY DEF Dealloc
<1>3. Range(free') = {b} \cup Range(free)
  BY <1>1, <1>2, PushFacts
<1>4. \A c \in DOMAIN size : c \in Range(free') \/ \E m \in live' : BlockOf(m) = c
  BY <1>2, <1>3 DEF TInv, Placing
<1> QED BY <1>2, <1>4 DEF TInv, Tiled, Placing

LEMMA ReallocTInv ==
  ASSUME IInv, TInv, NEW l \in live, NEW n \in Sizes, Realloc(l, n)
  PROVE  TInv'
<1> DEFINE b == BlockOf(l)
<1>0. l.align \in Aligns
  BY DEF IInv, TypeOK
<1>1. PICK i \in DOMAIN free :
        /\ FirstFit(i, Taken(n, l.align))
        /\ size' = HeadersAfter(i, Taken(n, l.align))
        /\ free' = Push(b, FreeAfter(i, Taken(n, l.align)))
        /\ live' = (live \ {l}) \cup {Allocation(free[i] + Offset(l.align), n, l.align)}
  BY DEF Realloc
<1> DEFINE f == FreeAfter(i, Taken(n, l.align))
           new == Allocation(free[i] + Offset(l.align), n, l.align)
<1>2. Carved(i, Taken(n, l.align), size', f) /\ Keeps(i, size', f)
  BY <1>0, <1>1, TakeFacts, TakeKeeps, TakenFacts DEF FirstFit, TInv
<1>3. /\ HeldBy(live \cup {new}, size')
      /\ \A m \in live \cup {new} : BlockOf(m) \notin Range(f)
  BY <1>0, <1>2, NewHolder
<1>4. Placing(size', f, live \cup {new})
  BY <1>0, <1>2, TakePlaces
<1> HIDE DEF f, new
<1>5. free' = Push(b, f) /\ live' = (live \ {l}) \cup {new}
  BY <1>1 DEF f, new
<1>6. Range(free') = {b} \cup Range(f)
  <2>1. /\ f \in Seq(DOMAIN size') /\ b \in DOMAIN size' /\ b \notin Range(f)
        /\ \A j, k \in DOMAIN f : f[j] = f[k] => j = k
    BY <1>2, <1>3 DEF Carved, HeldBy
  <2> QED BY <1>5, <2>1, PushFacts
<1>7. Placing(size', free', live')
  BY <1>4, <1>5, <1>6 DEF Placing
<1> QED BY <1>2, <1>7 DEF TInv, Keeps, Tiled, Placing

LEMMA StepTInv ==
  ASSUME IInv, TInv, [Next]_vars
  PROVE  TInv'
<1>1. CASE UNCHANGED vars
  BY <1>1 DEF vars, TInv, Tiled, Placing
<1>2. ASSUME NEW n \in Sizes, NEW a \in Aligns, Alloc(n, a)
      PROVE  TInv'
  BY <1>2, AllocTInv
<1>3. ASSUME NEW n \in Sizes, NEW a \in Aligns, AllocFails(n, a)
      PROVE  TInv'
  BY <1>1, <1>3 DEF AllocFails
<1>4. ASSUME NEW l \in live, Dealloc(l)
      PROVE  TInv'
  BY <1>4, DeallocTInv
<1>5. ASSUME NEW l \in live, NEW n \in Sizes, Realloc(l, n)
      PROVE  TInv'
  BY <1>5, ReallocTInv
<1> QED BY <1>1, <1>2, <1>3, <1>4, <1>5 DEF Next

\* However the heap was split, the blocks still tile it, and every one of them
\* is in the list or in use: nothing can leak but what a caller keeps.
THEOREM NothingIsLost == Spec => []NothingLost
<1>1. Init => TInv
  BY InitTInv
<1>2. IInv /\ TInv /\ [Next]_vars => TInv'
  BY StepTInv
<1>3. IInv /\ TInv => NothingLost
  BY NothingLostFromTInv
<1> QED BY <1>1, <1>2, <1>3, HeapInvariant, PTL DEF Spec

-----------------------------------------------------------------------------
(* The counter of used bytes *)

\* Adding bytes to a set they are not in adds their number.
LEMMA AddBytes ==
  ASSUME NEW A, IsFiniteSet(A), NEW b \in Nat, NEW n \in Nat \ {0},
         A \cap (b .. b + n - 1) = {}
  PROVE  /\ IsFiniteSet(A \cup (b .. b + n - 1))
         /\ Cardinality(A \cup (b .. b + n - 1)) = Cardinality(A) + n
<1> DEFINE B == b .. b + n - 1
<1>1. IsFiniteSet(B) /\ Cardinality(B) = n
  <2>1. b \in Int /\ b + n - 1 \in Int /\ ~(b > b + n - 1) /\ (b + n - 1) - b + 1 = n
    OBVIOUS
  <2> HIDE DEF B
  <2> QED BY <2>1, FS_Interval DEF B
<1>2. A \cap B = {}
  OBVIOUS
<1> HIDE DEF B
<1>3. /\ IsFiniteSet(A \cup B)
      /\ Cardinality(A \cup B) = Cardinality(A) + Cardinality(B) - Cardinality({})
  BY <1>1, <1>2, FS_Union
<1>4. Cardinality(A) \in Nat
  BY FS_CardinalityType
<1>5. Cardinality(A \cup B) = Cardinality(A) + n
  BY <1>1, <1>3, <1>4, FS_EmptySet
<1> QED BY <1>3, <1>5 DEF B

\* Taking bytes out of a set they are in takes away their number.
LEMMA DropBytes ==
  ASSUME NEW A, IsFiniteSet(A), NEW b \in Nat, NEW n \in Nat \ {0},
         b .. b + n - 1 \subseteq A
  PROVE  /\ IsFiniteSet(A \ (b .. b + n - 1))
         /\ Cardinality(A \ (b .. b + n - 1)) = Cardinality(A) - n
<1> DEFINE B == b .. b + n - 1
<1>1. Cardinality(B) = n
  <2>1. b \in Int /\ b + n - 1 \in Int /\ ~(b > b + n - 1) /\ (b + n - 1) - b + 1 = n
    OBVIOUS
  <2> HIDE DEF B
  <2> QED BY <2>1, FS_Interval DEF B
<1>2. A \cap B = B
  OBVIOUS
<1> HIDE DEF B
<1>3. IsFiniteSet(A \ B) /\ Cardinality(A \ B) = Cardinality(A) - Cardinality(B)
  BY <1>2, FS_Difference
<1> QED BY <1>1, <1>3 DEF B

\* What one caller took lies in its block, and apart from what another took.
LEMMA BytesApart ==
  ASSUME NEW L, NEW z, HeldBy(L, z), DOMAIN z \subseteq Nat, z \in [DOMAIN z -> Nat],
         \A b, c \in DOMAIN z : b < c => b + z[b] <= c,
         NEW l \in L, NEW m \in L, l # m
  PROVE  Bytes(l) \cap Bytes(m) = {}
<1> DEFINE b == BlockOf(l)
           c == BlockOf(m)
           s == Taken(l.bytes, l.align)
           t == Taken(m.bytes, m.align)
<1>1. b \in DOMAIN z /\ c \in DOMAIN z /\ b # c
  BY DEF HeldBy
<1>2. b \in Nat /\ c \in Nat /\ z[b] \in Nat /\ z[c] \in Nat
  BY <1>1
<1>3. s <= z[b] /\ t <= z[c]
  BY DEF HeldBy
<1>4. s \in Nat /\ t \in Nat
  BY TakenFacts DEF HeldBy
<1>5. b < c => b + z[b] <= c
  BY <1>1
<1>6. c < b => c + z[c] <= b
  BY <1>1
<1> HIDE DEF b, c, s, t
<1>7. (b .. b + s - 1) \cap (c .. c + t - 1) = {}
  <2>1. b + s <= c \/ c + t <= b
    BY <1>1, <1>2, <1>3, <1>4, <1>5, <1>6
  <2> QED BY <1>2, <1>4, <2>1
<1> QED BY <1>7 DEF Bytes, b, c, s, t

\* UsedSound with the finiteness that gives the number of bytes a meaning.
CInv == IsFiniteSet(BytesInUse) /\ used <= Cardinality(BytesInUse)

\* What one caller holds: a number of bytes in the heap.
LEMMA BytesFacts ==
  ASSUME IInv, NEW l \in live
  PROVE  /\ BlockOf(l) \in Nat
         /\ Taken(l.bytes, l.align) \in Nat \ {0}
         /\ Taken(l.bytes, l.align) <= size[BlockOf(l)]
         /\ size[BlockOf(l)] \in Nat
<1>1. l.bytes \in Sizes /\ l.align \in Aligns
  BY DEF IInv, TypeOK
<1>2. Taken(l.bytes, l.align) \in Nat \ {0}
  BY <1>1, TakenFacts DEF BLOCK_HEADER
<1> QED BY <1>2 DEF IInv, TypeOK, OneUse

\* The newcomer takes bytes nobody had.
LEMMA NewBytes ==
  ASSUME IInv, CInv, NEW i \in DOMAIN free, NEW n \in Sizes, NEW a \in Aligns,
         NEW z, NEW f, Carved(i, Taken(n, a), z, f)
  PROVE  LET new == Allocation(free[i] + Offset(a), n, a) IN
         /\ IsFiniteSet(BytesInUse \cup Bytes(new))
         /\ Cardinality(BytesInUse \cup Bytes(new)) = Cardinality(BytesInUse) + Taken(n, a)
         /\ BytesInUse \cap Bytes(new) = {}
<1> DEFINE new == Allocation(free[i] + Offset(a), n, a)
<1>1. /\ BlockOf(new) = free[i] /\ free[i] \in Nat
      /\ Taken(new.bytes, new.align) = Taken(n, a)
  BY NewAllocation DEF IInv, TypeOK
<1>2. HeldBy(live \cup {new}, z) /\ \A l \in live : BlockOf(l) # free[i]
  BY NewHolder
<1>3. new \notin live
  BY <1>1, <1>2
<1>4. Taken(n, a) \in Nat \ {0}
  BY TakenFacts DEF BLOCK_HEADER
<1> HIDE DEF new
<1>5. Bytes(new) = free[i] .. free[i] + Taken(n, a) - 1
  BY <1>1 DEF Bytes
<1>6. \A l \in live : Bytes(l) \cap Bytes(new) = {}
  <2>1. /\ DOMAIN z \subseteq Nat /\ z \in [DOMAIN z -> Nat]
        /\ \A b, c \in DOMAIN z : b < c => b + z[b] <= c
    BY DEF Carved
  <2>2. ASSUME NEW l \in live
        PROVE  Bytes(l) \cap Bytes(new) = {}
    <3>1. l \in live \cup {new} /\ new \in live \cup {new} /\ l # new
      BY <1>3
    <3> QED BY ONLY <1>2, <2>1, <3>1, BytesApart
  <2> QED BY <2>2
<1>7. BytesInUse \cap Bytes(new) = {}
  BY <1>6 DEF BytesInUse
<1>8. /\ IsFiniteSet(BytesInUse \cup Bytes(new))
      /\ Cardinality(BytesInUse \cup Bytes(new)) = Cardinality(BytesInUse) + Taken(n, a)
  <2>1. /\ IsFiniteSet(BytesInUse)
        /\ BytesInUse \cap (free[i] .. free[i] + Taken(n, a) - 1) = {}
    BY <1>5, <1>7 DEF CInv
  <2>2. free[i] \in Nat
    BY <1>1
  <2> DEFINE B == free[i] .. free[i] + Taken(n, a) - 1
  <2>3. /\ IsFiniteSet(BytesInUse \cup B)
        /\ Cardinality(BytesInUse \cup B) = Cardinality(BytesInUse) + Taken(n, a)
    BY ONLY <1>4, <2>1, <2>2, AddBytes
  <2> HIDE DEF B
  <2>4. Bytes(new) = B
    BY <1>5 DEF B
  <2> QED BY ONLY <2>3, <2>4
<1> QED BY <1>7, <1>8 DEF new

\* Without one caller's bytes the others' remain.
LEMMA OldBytes ==
  ASSUME IInv, CInv, NEW l \in live
  PROVE  /\ IsFiniteSet(BytesInUse \ Bytes(l))
         /\ Cardinality(BytesInUse \ Bytes(l))
              = Cardinality(BytesInUse) - Taken(l.bytes, l.align)
         /\ BytesInUse \ Bytes(l) = UNION {Bytes(m) : m \in live \ {l}}
<1>1. Bytes(l) \subseteq BytesInUse
  BY DEF BytesInUse
<1>2. /\ IsFiniteSet(BytesInUse \ Bytes(l))
      /\ Cardinality(BytesInUse \ Bytes(l))
           = Cardinality(BytesInUse) - Taken(l.bytes, l.align)
  <2>1. /\ BlockOf(l) \in Nat /\ Taken(l.bytes, l.align) \in Nat \ {0}
        /\ IsFiniteSet(BytesInUse)
    BY BytesFacts DEF CInv
  <2> QED BY <1>1, <2>1, DropBytes DEF Bytes
<1>3. \A m \in live : m # l => Bytes(m) \cap Bytes(l) = {}
  <2>1. /\ HeldBy(live, size) /\ DOMAIN size \subseteq Nat /\ size \in [DOMAIN size -> Nat]
        /\ \A b, c \in DOMAIN size : b < c => b + size[b] <= c
    BY DEF IInv, TypeOK, OneUse, Disjoint, HeldBy, Blocks, End
  <2> QED BY ONLY <2>1, BytesApart, l \in live
<1>4. BytesInUse \ Bytes(l) = UNION {Bytes(m) : m \in live \ {l}}
  BY <1>3 DEF BytesInUse
<1> QED BY <1>2, <1>4

LEMMA AllocCInv ==
  ASSUME IInv, CInv, NEW n \in Sizes, NEW a \in Aligns, Alloc(n, a)
  PROVE  CInv'
<1>1. PICK i \in DOMAIN free :
        /\ FirstFit(i, Taken(n, a))
        /\ size' = HeadersAfter(i, Taken(n, a))
        /\ free' = FreeAfter(i, Taken(n, a))
        /\ live' = live \cup {Allocation(free[i] + Offset(a), n, a)}
  BY DEF Alloc
<1> DEFINE new == Allocation(free[i] + Offset(a), n, a)
<1>2. Carved(i, Taken(n, a), size', free')
  BY <1>1, TakeFacts, TakenFacts DEF FirstFit
<1>3. /\ IsFiniteSet(BytesInUse \cup Bytes(new))
      /\ Cardinality(BytesInUse \cup Bytes(new)) = Cardinality(BytesInUse) + Taken(n, a)
  BY <1>2, NewBytes
<1> HIDE DEF new
<1>4. live' = live \cup {new}
  BY <1>1 DEF new
<1>5. BytesInUse' = BytesInUse \cup Bytes(new)
  BY <1>4 DEF BytesInUse, Bytes, BlockOf
<1>6. /\ used' = used + Taken(n, a) /\ used \in Nat /\ Taken(n, a) \in Nat
      /\ Cardinality(BytesInUse) \in Nat /\ used <= Cardinality(BytesInUse)
  BY TakenFacts, FS_CardinalityType DEF Alloc, IInv, TypeOK, CInv
<1>7. used' <= Cardinality(BytesInUse')
  BY <1>3, <1>5, <1>6
<1> QED BY <1>3, <1>5, <1>7 DEF CInv

\* A smaller count minus at least as much stays the smaller one.
LEMMA MinusSound ==
  ASSUME NEW u \in Nat, NEW c \in Nat, u <= c, NEW s \in Nat, NEW t \in Nat,
         t <= s, t <= c
  PROVE  Minus(u, s) <= c - t
BY DEF Minus

LEMMA DeallocCInv ==
  ASSUME IInv, CInv, NEW l \in live, Dealloc(l)
  PROVE  CInv'
<1> DEFINE t == Taken(l.bytes, l.align)
           s == size[BlockOf(l)]
           rest == BytesInUse \ Bytes(l)
<1>1. /\ IsFiniteSet(rest) /\ Cardinality(rest) = Cardinality(BytesInUse) - t
      /\ rest = UNION {Bytes(m) : m \in live \ {l}}
  BY OldBytes
<1>2. s \in Nat /\ t \in Nat /\ t <= s
  BY BytesFacts
<1>3. /\ used \in Nat /\ Cardinality(BytesInUse) \in Nat /\ used <= Cardinality(BytesInUse)
      /\ Cardinality(rest) \in Nat
  BY <1>1, FS_CardinalityType DEF IInv, TypeOK, CInv
<1>4. used' = Minus(used, s)
  BY DEF Dealloc
<1>5. BytesInUse' = rest
  BY <1>1 DEF Dealloc, BytesInUse, Bytes, BlockOf
<1> HIDE DEF t, s, rest
<1>6. Minus(used, s) <= Cardinality(BytesInUse) - t
  <2>1. t <= Cardinality(BytesInUse)
    BY <1>1, <1>2, <1>3
  <2> QED BY <1>2, <1>3, <2>1, MinusSound
<1> QED BY <1>1, <1>4, <1>5, <1>6 DEF CInv

LEMMA ReallocCInv ==
  ASSUME IInv, CInv, NEW l \in live, NEW n \in Sizes, Realloc(l, n)
  PROVE  CInv'
<1>0. l.align \in Aligns
  BY DEF IInv, TypeOK
<1>1. PICK i \in DOMAIN free :
        /\ FirstFit(i, Taken(n, l.align))
        /\ live' = (live \ {l}) \cup {Allocation(free[i] + Offset(l.align), n, l.align)}
        /\ used' = Minus(used + Taken(n, l.align), size[BlockOf(l)])
  BY DEF Realloc
<1> DEFINE new == Allocation(free[i] + Offset(l.align), n, l.align)
           t == Taken(l.bytes, l.align)
           s == size[BlockOf(l)]
           k == Taken(n, l.align)
           c == Cardinality(BytesInUse)
           rest == BytesInUse \ Bytes(l)
           both == BytesInUse \cup Bytes(new)
<1>2. /\ IsFiniteSet(both) /\ Cardinality(both) = c + k
      /\ BytesInUse \cap Bytes(new) = {}
  <2>1. Carved(i, k, HeadersAfter(i, k), FreeAfter(i, k))
    BY <1>0, <1>1, TakeFacts, TakenFacts DEF FirstFit
  <2> QED BY <1>0, <2>1, NewBytes
<1>3. /\ IsFiniteSet(rest)
      /\ rest = UNION {Bytes(m) : m \in live \ {l}}
  BY OldBytes
<1>4. Bytes(l) \subseteq BytesInUse /\ Bytes(l) = BlockOf(l) .. BlockOf(l) + t - 1
  BY DEF BytesInUse, Bytes
<1>5. /\ BlockOf(l) \in Nat /\ s \in Nat /\ t \in Nat \ {0} /\ t <= s
  BY BytesFacts
<1>6. /\ used \in Nat /\ c \in Nat /\ used <= c /\ k \in Nat
  BY <1>0, TakenFacts, FS_CardinalityType DEF IInv, TypeOK, CInv
<1>7. used' = Minus(used + k, s)
  BY <1>1
<1>8. BytesInUse' = UNION {Bytes(m) : m \in (live \ {l}) \cup {new}}
  BY <1>1 DEF BytesInUse, Bytes, BlockOf
<1> HIDE DEF new, t, s, k, c, rest, both
<1>9. BytesInUse' = both \ Bytes(l)
  <2>1. BytesInUse' = rest \cup Bytes(new)
    BY <1>3, <1>8
  <2>2. both \ Bytes(l) = rest \cup Bytes(new)
    BY <1>2, <1>4 DEF both, rest
  <2> QED BY <2>1, <2>2
<1>10. /\ IsFiniteSet(both \ Bytes(l))
       /\ Cardinality(both \ Bytes(l)) = Cardinality(both) - t
  <2>1. BlockOf(l) .. BlockOf(l) + t - 1 \subseteq both
    BY <1>4 DEF both
  <2>2. IsFiniteSet(both) /\ BlockOf(l) \in Nat /\ t \in Nat \ {0}
    BY <1>2, <1>5
  <2> DEFINE B == BlockOf(l) .. BlockOf(l) + t - 1
  <2>3. IsFiniteSet(both \ B) /\ Cardinality(both \ B) = Cardinality(both) - t
    BY ONLY <2>1, <2>2, DropBytes
  <2> HIDE DEF B
  <2>4. Bytes(l) = B
    BY <1>4 DEF B
  <2> QED BY ONLY <2>3, <2>4
<1>11. Minus(used + k, s) <= (c + k) - t
  <2>1. Cardinality(both \ Bytes(l)) \in Nat
    BY <1>10, FS_CardinalityType
  <2>2. t <= c + k
    BY <1>2, <1>5, <1>6, <1>10, <2>1
  <2>3. used + k \in Nat /\ c + k \in Nat /\ used + k <= c + k
    BY <1>6
  <2> QED BY <1>5, <2>2, <2>3, MinusSound
<1> QED BY <1>2, <1>7, <1>9, <1>10, <1>11 DEF CInv

LEMMA InitCInv ==
  ASSUME Init
  PROVE  CInv
<1>1. BytesInUse = {}
  BY DEF Init, BytesInUse
<1> QED BY <1>1, FS_EmptySet DEF Init, CInv

LEMMA StepCInv ==
  ASSUME IInv, CInv, [Next]_vars
  PROVE  CInv'
<1>1. CASE UNCHANGED vars
  BY <1>1 DEF vars, CInv, BytesInUse, Bytes, BlockOf
<1>2. ASSUME NEW n \in Sizes, NEW a \in Aligns, Alloc(n, a)
      PROVE  CInv'
  BY <1>2, AllocCInv
<1>3. ASSUME NEW n \in Sizes, NEW a \in Aligns, AllocFails(n, a)
      PROVE  CInv'
  BY <1>1, <1>3 DEF AllocFails
<1>4. ASSUME NEW l \in live, Dealloc(l)
      PROVE  CInv'
  BY <1>4, DeallocCInv
<1>5. ASSUME NEW l \in live, NEW n \in Sizes, Realloc(l, n)
      PROVE  CInv'
  BY <1>5, ReallocCInv
<1> QED BY <1>1, <1>2, <1>3, <1>4, <1>5 DEF Next

\* The counter that the status line prints never claims more bytes than the
\* callers took, although dealloc subtracts another number than alloc added.
THEOREM UsedStaysSound == Spec => []UsedSound
<1>1. Init => CInv
  BY InitCInv
<1>2. IInv /\ CInv /\ [Next]_vars => CInv'
  BY StepCInv
<1>3. CInv => UsedSound
  BY DEF CInv, UsedSound
<1> QED BY <1>1, <1>2, <1>3, HeapInvariant, PTL DEF Spec
=============================================================================
