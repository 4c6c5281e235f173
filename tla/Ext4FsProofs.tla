---------------------------- MODULE Ext4FsProofs ----------------------------
(***************************************************************************)
(* The ext4 driver, for disks, directories, files and paths of every size. *)
(*                                                                         *)
(* The invariant FsInv says more than the properties: the disk is Sane     *)
(* (its counters are right, its inodes and blocks have their types) and    *)
(* there is a set L of inodes that are Good: they own their blocks, and    *)
(* the entries of their directories make a Graph of them - closed, every   *)
(* inode but the root named once, the dots where they belong.  L is not    *)
(* computed: a command makes the next one from the last by adding an inode *)
(* (touch, mkdir, write_file) or taking one away (rm, rmdir), or keeps it  *)
(* (mv, and whatever fails half-way).  That a block is free although it    *)
(* was lost, or an inode is in use although nothing leads to it, does no   *)
(* harm to it.  The same L is the Tally of the disk: its names lead from   *)
(* the root to every inode of it (Rooted), and the counts of directories   *)
(* and of links count it.                                                  *)
(*                                                                         *)
(* The loops (FreeExtents, WriteBlocks, Descend, Candidate, mkfs, the walk *)
(* of Nodes) are recursive functions; LoopWithin of Induction says that    *)
(* they stay within what their turns keep.                                 *)
(*                                                                         *)
(* The order of the parts: what the bitmaps, a block of a directory and a  *)
(* directory do; one change of the tree as a Graph, and of its counts; one *)
(* change of the disk and what it leaves alone; the commands; mkfs; the    *)
(* invariant; and from it, by induction over the levels of the walk from   *)
(* the root, that the walk finds every inode, and finds it once.           *)
(***************************************************************************)
EXTENDS Ext4Fs, Induction

-----------------------------------------------------------------------------
(* The constants *)

\* The sizes of FsConstants, one by one.
LEMMA Consts ==
  /\ Groups \in Nat /\ Groups > 0 /\ BPG \in Nat /\ BPG > 0 /\ IPG \in Nat /\ IPG > 0
  /\ SLOTS \in Nat /\ SLOTS > 1
  /\ MaxExtents \in Nat /\ MaxExtents > 0 /\ MAX_DEPTH \in Nat /\ MAX_DEPTH > 0
<1>1. {Groups, BPG, IPG, SLOTS, MaxExtents, MAX_DEPTH} \subseteq Nat \ {0} /\ SLOTS > 1
  BY FsConstants
<1> QED BY ONLY <1>1

\* The product of two sizes is a size.
LEMMA Product ==
  ASSUME NEW G \in Nat, NEW B \in Nat, G > 0, B > 0
  PROVE  G * B \in Nat /\ G * B > 0
OBVIOUS

\* Division by the size of a group gives the number of a group.
LEMMA Quotient ==
  ASSUME NEW G \in Nat, NEW B \in Nat, G > 0, B > 0, NEW b \in 1 .. G * B
  PROVE  /\ (b - 1) \div B \in 0 .. G - 1
         /\ \A g \in 0 .. G - 1 :
              (b - 1) \div B = g <=> g * B + 1 <= b /\ b <= g * B + B
<1>1. PICK x \in Nat : x = b - 1
  BY Product
<1>2. PICK q \in Int : q = x \div B
  OBVIOUS
<1>3. q * B <= x /\ x < q * B + B
  BY <1>1, <1>2
<1>4. ASSUME NEW g \in Int, g * B <= x, x < g * B + B PROVE g = q
  <2>1. CASE g < q
    <3>1. g + 1 <= q BY <2>1
    <3>2. (g + 1) * B <= q * B BY <3>1
    <3>3. (g + 1) * B = g * B + B OBVIOUS
    <3> QED BY <1>3, <1>4, <3>2, <3>3
  <2>2. CASE q < g
    <3>1. q + 1 <= g BY <2>2
    <3>2. (q + 1) * B <= g * B BY <3>1
    <3>3. (q + 1) * B = q * B + B OBVIOUS
    <3> QED BY <1>3, <1>4, <3>2, <3>3
  <2> QED BY <2>1, <2>2
<1>5. q >= 0
  <2> SUFFICES ASSUME q < 0 PROVE FALSE OBVIOUS
  <2>1. q + 1 <= 0 OBVIOUS
  <2>2. (q + 1) * B <= 0 * B BY <2>1
  <2>3. (q + 1) * B = q * B + B OBVIOUS
  <2> QED BY <1>1, <1>3, <2>2, <2>3
<1>6. q < G
  <2> SUFFICES ASSUME q >= G PROVE FALSE OBVIOUS
  <2>1. q * B >= G * B OBVIOUS
  <2>2. G * B \in Nat BY Product
  <2> QED BY <1>1, <1>3, <2>1, <2>2
<1>7. (b - 1) \div B \in 0 .. G - 1
  BY <1>1, <1>2, <1>5, <1>6
<1>8. ASSUME NEW g \in 0 .. G - 1
      PROVE  (b - 1) \div B = g <=> g * B + 1 <= b /\ b <= g * B + B
  <2>1. PICK m \in Int : m = g * B OBVIOUS
  <2>2. ASSUME q = g PROVE m + 1 <= b /\ b <= m + B
    BY <1>1, <1>3, <2>1, <2>2
  <2>3. ASSUME m + 1 <= b, b <= m + B PROVE q = g
    <3>1. m <= x /\ x < m + B BY <1>1, <2>1, <2>3
    <3> QED BY <1>4, <2>1, <3>1
  <2> QED BY <1>1, <1>2, <2>1, <2>2, <2>3
<1> QED BY <1>7, <1>8

\* Blocks are numbered from 1 through all groups.
LEMMA BlkFacts ==
  /\ Blk \subseteq Nat \ {0} /\ IsFiniteSet(Blk) /\ Cardinality(Blk) = Groups * BPG
  /\ \A b \in Blk : GroupOfBlk(b) \in Group
<1>1. Groups * BPG \in Nat /\ Groups * BPG > 0
  BY Consts, Product
<1>2. IsFiniteSet(Blk) /\ Cardinality(Blk) = Groups * BPG
  <2> DEFINE n == Groups * BPG
  <2>1. n \in Int /\ ~(1 > n) /\ n - 1 + 1 = n
    BY <1>1
  <2> HIDE DEF n
  <2>2. IsFiniteSet(1 .. n) /\ Cardinality(1 .. n) = n
    BY <2>1, FS_Interval
  <2> QED BY <2>2 DEF n, Blk
<1>3. Blk \subseteq Nat \ {0}
  BY <1>1 DEF Blk
<1>4. \A b \in Blk : GroupOfBlk(b) \in Group
  BY Consts, Quotient DEF Blk, GroupOfBlk, Group
<1> QED BY <1>2, <1>3, <1>4

\* Inodes too; the first one is the root, and 0 stands for none.
LEMMA InoFacts ==
  /\ Ino \subseteq Nat \ {0} /\ IsFiniteSet(Ino) /\ Cardinality(Ino) = Groups * IPG
  /\ \A i \in Ino : GroupOfIno(i) \in Group
  /\ Root \in Ino /\ NoIno \notin Ino
<1>1. Groups * IPG \in Nat /\ Groups * IPG > 0
  BY Consts, Product
<1>2. IsFiniteSet(Ino) /\ Cardinality(Ino) = Groups * IPG
  <2> DEFINE n == Groups * IPG
  <2>1. n \in Int /\ ~(1 > n) /\ n - 1 + 1 = n
    BY <1>1
  <2> HIDE DEF n
  <2>2. IsFiniteSet(1 .. n) /\ Cardinality(1 .. n) = n
    BY <2>1, FS_Interval
  <2> QED BY <2>2 DEF n, Ino
<1>3. Ino \subseteq Nat \ {0} /\ Root \in Ino /\ NoIno \notin Ino
  BY <1>1 DEF Ino, Root, NoIno
<1>4. \A i \in Ino : GroupOfIno(i) \in Group
  BY Consts, Quotient DEF Ino, GroupOfIno, Group
<1> QED BY <1>2, <1>3, <1>4

-----------------------------------------------------------------------------
(* Counting what is free *)

\* Of the things U, those in u are used: c counts the free ones of each group
\* (of[x] is the group of x) and n all the free ones.
Counted(U, of, u, c, n) ==
  /\ \A g \in Group : c[g] = Cardinality({x \in U \ u : of[x] = g})
  /\ n = Cardinality(U \ u)

\* alloc_block, alloc_inode: a member of U is taken and its group and the super block
\* count one less. There was one to count.
LEMMA CountTake ==
  ASSUME NEW U, IsFiniteSet(U), NEW of \in [U -> Group], NEW u, NEW x \in U \ u,
         NEW c \in [Group -> Int], NEW n, Counted(U, of, u, c, n)
  PROVE  /\ Counted(U, of, u \cup {x}, [c EXCEPT ![of[x]] = @ - 1], n - 1)
         /\ c[of[x]] > 0 /\ n > 0
<1> DEFINE F(g) == {y \in U \ u : of[y] = g}
           F2(g) == {y \in U \ (u \cup {x}) : of[y] = g}
           d == [c EXCEPT ![of[x]] = @ - 1]
<1>1. IsFiniteSet(U \ u) /\ \A g : IsFiniteSet(F(g))
  BY FS_Subset
<1>2. ASSUME NEW g \in Group PROVE d[g] = Cardinality(F2(g))
  <2>0. c[g] = Cardinality(F(g)) /\ c[g] \in Int
    BY DEF Counted
  <2>1. CASE g = of[x]
    <3>1. F2(g) = F(g) \ {x} /\ x \in F(g) BY <2>1
    <3>2. d[g] = c[g] - 1 BY <2>1
    <3> HIDE DEF F, F2, d
    <3>3. Cardinality(F2(g)) = Cardinality(F(g)) - 1
      BY <1>1, <3>1, FS_RemoveElement
    <3> QED BY <2>0, <3>2, <3>3
  <2>2. CASE g # of[x]
    <3>1. F2(g) = F(g) BY <2>2
    <3>2. d[g] = c[g] BY <2>2
    <3> HIDE DEF F, F2, d
    <3> QED BY <2>0, <3>1, <3>2
  <2> QED BY <2>1, <2>2
<1>3. n - 1 = Cardinality(U \ (u \cup {x}))
  <2>1. U \ (u \cup {x}) = (U \ u) \ {x} OBVIOUS
  <2>2. Cardinality((U \ u) \ {x}) = Cardinality(U \ u) - 1
    BY <1>1, FS_RemoveElement
  <2> QED BY <2>1, <2>2 DEF Counted
<1>4. c[of[x]] > 0
  <2>1. x \in F(of[x]) OBVIOUS
  <2>2. c[of[x]] = Cardinality(F(of[x])) /\ IsFiniteSet(F(of[x]))
    BY <1>1 DEF Counted
  <2> HIDE DEF F
  <2>3. Cardinality(F(of[x])) \in Nat /\ Cardinality(F(of[x])) # 0
    BY <2>1, <2>2, FS_EmptySet, FS_CardinalityType
  <2> QED BY <2>2, <2>3
<1>5. n > 0
  <2>1. Cardinality(U \ u) \in Nat /\ Cardinality(U \ u) # 0
    BY <1>1, FS_EmptySet, FS_CardinalityType
  <2> QED BY <2>1 DEF Counted
<1> QED BY <1>2, <1>3, <1>4, <1>5 DEF Counted

\* free_block, free_inode: a member of U is given back and both count one more.
LEMMA CountGive ==
  ASSUME NEW U, IsFiniteSet(U), NEW of \in [U -> Group], NEW u, NEW x \in U, x \in u,
         NEW c \in [Group -> Int], NEW n, Counted(U, of, u, c, n)
  PROVE  Counted(U, of, u \ {x}, [c EXCEPT ![of[x]] = @ + 1], n + 1)
<1> DEFINE F(g) == {y \in U \ u : of[y] = g}
           F2(g) == {y \in U \ (u \ {x}) : of[y] = g}
           d == [c EXCEPT ![of[x]] = @ + 1]
<1>1. IsFiniteSet(U \ u) /\ \A g : IsFiniteSet(F(g))
  BY FS_Subset
<1>2. ASSUME NEW g \in Group PROVE d[g] = Cardinality(F2(g))
  <2>0. c[g] = Cardinality(F(g)) /\ c[g] \in Int
    BY DEF Counted
  <2>1. CASE g = of[x]
    <3>1. F2(g) = F(g) \cup {x} /\ x \notin F(g) BY <2>1
    <3>2. d[g] = c[g] + 1 BY <2>1
    <3> HIDE DEF F, F2, d
    <3>3. Cardinality(F2(g)) = Cardinality(F(g)) + 1
      BY <1>1, <3>1, FS_AddElement
    <3> QED BY <2>0, <3>2, <3>3
  <2>2. CASE g # of[x]
    <3>1. F2(g) = F(g) BY <2>2
    <3>2. d[g] = c[g] BY <2>2
    <3> HIDE DEF F, F2, d
    <3> QED BY <2>0, <3>1, <3>2
  <2> QED BY <2>1, <2>2
<1>3. n + 1 = Cardinality(U \ (u \ {x}))
  <2>1. U \ (u \ {x}) = (U \ u) \cup {x} OBVIOUS
  <2>2. Cardinality((U \ u) \cup {x}) = Cardinality(U \ u) + 1
    BY <1>1, FS_AddElement
  <2> QED BY <2>1, <2>2 DEF Counted
<1> QED BY <1>2, <1>3 DEF Counted

-----------------------------------------------------------------------------
(* The structures on the disk *)

\* The types of what a disk holds. An entry in use leads to an inode.
InodeType == [mode : {"dir", "file"}, links : Int, ext : Seq(Blk)]
EntryType ==
  [ino : {NoIno} \cup Ino, name : Names \cup {".", "..", ""}, ft : {"", "dir", "file"}, rec : Int]
BlockType == [ents : Seq(EntryType), data : Payloads]
FsType ==
  [bused : SUBSET Blk, iused : SUBSET Ino, bfree : [Group -> Int], ifree : [Group -> Int],
   dirs : [Group -> Int], sbBlocks : Int, sbInodes : Int, ino : [Ino -> InodeType],
   blk : [Blk -> BlockType]]

\* The group of a block and of an inode, as functions.
BlkGroup == [b \in Blk |-> GroupOfBlk(b)]
InoGroup == [i \in Ino |-> GroupOfIno(i)]

\* The structures have their types, the counters count the bitmaps, and no inode
\* has more extents than fit into it.
Sane(f) ==
  /\ f \in FsType
  /\ Counted(Blk, BlkGroup, f.bused, f.bfree, f.sbBlocks)
  /\ Counted(Ino, InoGroup, f.iused, f.ifree, f.sbInodes)
  /\ \A i \in Ino : Extents(f.ino[i].ext) <= MaxExtents

\* Only the bitmap of the blocks and its counters differ.
SameNodes(f, g) == g.iused = f.iused /\ g.ino = f.ino /\ g.blk = f.blk
\* The inodes in use and their counters are the same.
SameInodeCounts(f, g) == g.iused = f.iused /\ g.ifree = f.ifree /\ g.sbInodes = f.sbInodes
\* The blocks in use and their counters are the same.
SameBlockCounts(f, g) == g.bused = f.bused /\ g.bfree = f.bfree /\ g.sbBlocks = f.sbBlocks

\* Every number belongs to a group.
LEMMA GroupTypes == BlkGroup \in [Blk -> Group] /\ InoGroup \in [Ino -> Group]
BY BlkFacts, InoFacts DEF BlkGroup, InoGroup

\* Neither less than nothing nor one too many.
LEMMA MaxZero ==
  ASSUME NEW n \in Int
  PROVE  Max({n, 0}) = IF n > 0 THEN n ELSE 0
<1> DEFINE m == IF n > 0 THEN n ELSE 0
<1>1. m \in {n, 0} /\ \A y \in {n, 0} : m >= y
  OBVIOUS
<1>2. ASSUME NEW x \in {n, 0}, \A y \in {n, 0} : x >= y PROVE x = m
  BY <1>2
<1> HIDE DEF m
<1>3. (CHOOSE x \in {n, 0} : \A y \in {n, 0} : x >= y) = m
  BY <1>1, <1>2
<1> QED BY <1>3 DEF Max, m

\* The least of some numbers is one of them.
LEMMA MinIn ==
  ASSUME NEW S \in SUBSET Nat, S # {}
  PROVE  Min(S) \in S /\ \A n \in S : Min(S) <= n
BY LeastOf DEF Min

\* free_block of a block in use: its bit and its counters change, nothing else.
LEMMA FreeBlockFacts ==
  ASSUME NEW f, Sane(f), NEW b \in f.bused
  PROVE  LET g == FreeBlock(f, b) IN
         /\ Sane(g) /\ SameNodes(f, g)
         /\ g.bused = f.bused \ {b} /\ g.dirs = f.dirs
<1> DEFINE g == FreeBlock(f, b)
           k == BlkGroup[b]
<1>1. /\ f \in FsType /\ f.bused \in SUBSET Blk /\ f.bfree \in [Group -> Int]
      /\ f.sbBlocks \in Int /\ b \in Blk
  BY DEF Sane, FsType
<1>2. k = GroupOfBlk(b) /\ k \in Group
  BY <1>1, GroupTypes DEF BlkGroup
<1>3. g = [f EXCEPT !.bused = f.bused \ {b}, !.bfree = [f.bfree EXCEPT ![k] = @ + 1],
                    !.sbBlocks = f.sbBlocks + 1]
  BY <1>1, <1>2 DEF FreeBlock, FsType
<1> HIDE DEF g, k
<1>4. g \in FsType
  <2>1. f.bused \ {b} \in SUBSET Blk /\ f.sbBlocks + 1 \in Int
    BY <1>1
  <2>2. [f.bfree EXCEPT ![k] = @ + 1] \in [Group -> Int]
    BY <1>1, <1>2
  <2> QED BY <1>1, <1>3, <2>1, <2>2 DEF FsType
<1>5. /\ g.bused = f.bused \ {b}
      /\ g.bfree = [f.bfree EXCEPT ![k] = @ + 1]
      /\ g.sbBlocks = f.sbBlocks + 1
      /\ g.dirs = f.dirs /\ SameInodeCounts(f, g) /\ SameNodes(f, g)
  BY <1>1, <1>3 DEF FsType, SameNodes, SameInodeCounts
<1>6. Counted(Blk, BlkGroup, f.bused \ {b}, [f.bfree EXCEPT ![k] = @ + 1], f.sbBlocks + 1)
  <2>1. Counted(Blk, BlkGroup, f.bused, f.bfree, f.sbBlocks) /\ IsFiniteSet(Blk)
    BY BlkFacts DEF Sane
  <2> QED BY ONLY <1>1, <2>1, GroupTypes, CountGive DEF k
<1>7. Sane(g)
  BY <1>4, <1>5, <1>6 DEF Sane, SameNodes, SameInodeCounts
<1> QED BY <1>5, <1>7 DEF g

\* alloc_block finds a free block if there is one: the counters never make it
\* give up with the bit already set.
LEMMA AllocBlockFacts ==
  ASSUME NEW f, Sane(f)
  PROVE  LET r == AllocBlock(f) IN
         \/ r = Err(f, "NoSpace") /\ Blk \subseteq f.bused
         \/ /\ r.res = "ok" /\ r.val \in Blk \ f.bused
            /\ \A b \in Blk \ f.bused : r.val <= b
            /\ Sane(r.fs) /\ SameNodes(f, r.fs)
            /\ r.fs.bused = f.bused \cup {r.val} /\ r.fs.dirs = f.dirs
<1> DEFINE free == Blk \ f.bused
           b == Min(free)
           k == BlkGroup[b]
           g == [f EXCEPT !.bused = f.bused \cup {b}, !.bfree = [f.bfree EXCEPT ![k] = @ - 1],
                          !.sbBlocks = f.sbBlocks - 1]
<1>1. /\ f \in FsType /\ f.bused \in SUBSET Blk /\ f.bfree \in [Group -> Int]
      /\ f.sbBlocks \in Int
  BY DEF Sane, FsType
<1>2. CASE free = {}
  BY <1>2 DEF AllocBlock
<1>3. CASE free # {}
  <2>1. b \in free /\ \A c \in free : b <= c
    BY <1>3, BlkFacts, MinIn
  <2>2. b \in Blk /\ k = GroupOfBlk(b) /\ k \in Group
    BY <2>1, GroupTypes DEF BlkGroup
  <2>3. /\ Counted(Blk, BlkGroup, f.bused \cup {b}, [f.bfree EXCEPT ![k] = @ - 1],
                   f.sbBlocks - 1)
        /\ f.bfree[k] > 0 /\ f.sbBlocks > 0
    <3>1. Counted(Blk, BlkGroup, f.bused, f.bfree, f.sbBlocks) /\ IsFiniteSet(Blk)
      BY BlkFacts DEF Sane
    <3>2. PICK c : c = b OBVIOUS
    <3>3. c \in Blk \ f.bused BY <2>1, <3>2
    <3> HIDE DEF b
    <3>4. /\ Counted(Blk, BlkGroup, f.bused \cup {c}, [f.bfree EXCEPT ![BlkGroup[c]] = @ - 1],
                     f.sbBlocks - 1)
          /\ f.bfree[BlkGroup[c]] > 0 /\ f.sbBlocks > 0
      BY ONLY <1>1, <3>1, <3>3, GroupTypes, CountTake
    <3> QED BY <3>2, <3>4
  <2>4. f.bfree[k] # 0 /\ Max({f.sbBlocks - 1, 0}) = f.sbBlocks - 1
    <3>1. f.bfree[k] \in Int BY <1>1, <2>2
    <3>2. f.sbBlocks - 1 \in Int BY <1>1
    <3> QED BY <1>1, <2>3, <3>1, <3>2, MaxZero
  <2>5. AllocBlock(f) = Ret(g, "ok", b)
    <3>1. AllocBlock(f) =
            Ret([[f EXCEPT !.bused = f.bused \cup {b}]
                   EXCEPT !.bfree = [f.bfree EXCEPT ![k] = @ - 1],
                          !.sbBlocks = f.sbBlocks - 1], "ok", b)
      <4>1. \A x : [f EXCEPT !.bused = x].bfree = f.bfree
                   /\ [f EXCEPT !.bused = x].sbBlocks = f.sbBlocks
        BY <1>1 DEF FsType
      <4>2. AllocBlock(f) =
            Ret([[f EXCEPT !.bused = f.bused \cup {b}]
                   EXCEPT !.bfree = [[f EXCEPT !.bused = f.bused \cup {b}].bfree EXCEPT
                                      ![k] = @ - 1],
                          !.sbBlocks =
                            Max({[f EXCEPT !.bused = f.bused \cup {b}].sbBlocks - 1, 0})], "ok", b)
        BY <1>3, <2>2, <2>4 DEF AllocBlock
      <4> QED BY <2>4, <4>1, <4>2
    <3> QED BY <3>1
  <2> HIDE DEF b, k
  <2>6. g \in FsType
    <3>1. f.bused \cup {b} \in SUBSET Blk /\ f.sbBlocks - 1 \in Int
      BY <1>1, <2>2
    <3>2. [f.bfree EXCEPT ![k] = @ - 1] \in [Group -> Int]
      BY <1>1, <2>2
    <3> QED BY <1>1, <3>1, <3>2 DEF FsType
  <2>7. /\ g.bused = f.bused \cup {b}
        /\ g.bfree = [f.bfree EXCEPT ![k] = @ - 1]
        /\ g.sbBlocks = f.sbBlocks - 1
        /\ g.dirs = f.dirs /\ SameInodeCounts(f, g) /\ SameNodes(f, g)
    BY <1>1 DEF FsType, SameNodes, SameInodeCounts
  <2> HIDE DEF g
  <2>8. Sane(g)
    BY <2>3, <2>6, <2>7 DEF Sane, SameNodes, SameInodeCounts
  <2> QED BY <2>1, <2>5, <2>7, <2>8 DEF Ret
<1> QED BY <1>2, <1>3

\* FreeExtents gives back the blocks of an inode, one after the other.
LEMMA FreeExtentsFacts ==
  ASSUME NEW f, Sane(f), NEW ext \in Seq(Blk), IsInjective(ext), ToSet(ext) \subseteq f.bused
  PROVE  LET g == FreeExtents(f, ext) IN
         /\ Sane(g) /\ SameNodes(f, g)
         /\ g.bused = f.bused \ ToSet(ext) /\ g.dirs = f.dirs
<1> DEFINE N == Len(ext)
           Upto(n) == {ext[k] : k \in 1 .. n}
           Left(n) == {g \in FsType : /\ Sane(g) /\ SameNodes(f, g)
                                      /\ g.bused = f.bused \ Upto(n) /\ g.dirs = f.dirs}
           Q == [n \in 0 .. N |-> Left(n)]
           step == [n \in 1 .. N |-> [g \in Left(n - 1) |-> FreeBlock(g, ext[n])]]
           Is(h) == h = [k \in 0 .. N |-> IF k = 0 THEN f ELSE FreeBlock(h[k - 1], ext[k])]
           freed == CHOOSE h : Is(h)
<1>1. N \in Nat /\ DOMAIN ext = 1 .. N /\ \A k \in 1 .. N : ext[k] \in Blk
  OBVIOUS
<1>2. ToSet(ext) = Upto(N)
  BY <1>1 DEF ToSet
<1>3. f \in Left(0)
  <2>1. Upto(0) = {} OBVIOUS
  <2>2. f \in FsType BY DEF Sane
  <2> QED BY <2>1, <2>2 DEF SameNodes
<1>4. ASSUME NEW n \in 1 .. N, NEW g \in Left(n - 1)
      PROVE  FreeBlock(g, ext[n]) \in Left(n)
  <2>1. ext[n] \notin Upto(n - 1)
    <3>1. \A k \in 1 .. n - 1 : k \in 1 .. N /\ k # n BY <1>1
    <3> QED BY <1>1, <3>1 DEF IsInjective
  <2>2. ext[n] \in f.bused BY <1>1, <1>2
  <2>3. ext[n] \in g.bused /\ Sane(g) BY <2>1, <2>2
  <2>4. Upto(n) = Upto(n - 1) \cup {ext[n]}
    <3>1. 1 .. n = (1 .. n - 1) \cup {n} BY <1>1
    <3> QED BY <3>1
  <2> DEFINE h == FreeBlock(g, ext[n])
  <2>5. Sane(h) /\ SameNodes(g, h) /\ h.bused = g.bused \ {ext[n]} /\ h.dirs = g.dirs
    BY <2>3, FreeBlockFacts
  <2>6. h \in FsType BY <2>5 DEF Sane
  <2> HIDE DEF h
  <2>7. h.bused = f.bused \ Upto(n) BY <2>4, <2>5
  <2>8. SameNodes(f, h) /\ h.dirs = f.dirs BY <2>5 DEF SameNodes
  <2> QED BY <2>5, <2>6, <2>7, <2>8 DEF h
<1>5. \A n \in 0 .. N : Q[n] = Left(n)
  <2> HIDE DEF Left
  <2> QED OBVIOUS
<1>6. \A n \in 1 .. N : \A g \in Q[n - 1] :
        step[n][g] = FreeBlock(g, ext[n]) /\ step[n][g] \in Q[n]
  <2> SUFFICES ASSUME NEW n \in 1 .. N, NEW g \in Q[n - 1]
               PROVE  step[n][g] = FreeBlock(g, ext[n]) /\ step[n][g] \in Q[n]
    OBVIOUS
  <2>1. n - 1 \in 0 .. N /\ n \in 0 .. N BY <1>1
  <2>2. Q[n - 1] = Left(n - 1) /\ Q[n] = Left(n)
    BY <1>5, <2>1
  <2> HIDE DEF Q, Left
  <2>3. step[n][g] = FreeBlock(g, ext[n]) BY <2>2
  <2> HIDE DEF step
  <2> QED BY <1>4, <2>2, <2>3
<1> HIDE DEF Q, step, Left, N
<1>7. \E h : IsLoop(h, N, f, step) /\ Within(h, N, Q)
  <2>1. N \in Nat /\ f \in Q[0] /\ Leads(N, Q, step)
    <3>1. 0 \in 0 .. N BY <1>1
    <3> QED BY <1>1, <1>3, <1>5, <1>6, <3>1 DEF Leads
  <2> QED BY ONLY <2>1, LoopWithin
<1>8. PICK h : /\ h = [n \in 0 .. N |-> IF n = 0 THEN f ELSE step[n][h[n - 1]]]
               /\ \A n \in 0 .. N : h[n] \in Q[n]
  BY <1>7 DEF IsLoop, Within
<1>9. Is(h)
  <2>1. \A n \in 0 .. N : n # 0 => n \in 1 .. N /\ n - 1 \in 0 .. N BY <1>1
  <2>2. \A n \in 0 .. N : n # 0 => step[n][h[n - 1]] = FreeBlock(h[n - 1], ext[n])
    BY <1>6, <1>8, <2>1
  <2>3. \A n \in 0 .. N : (IF n = 0 THEN f ELSE step[n][h[n - 1]])
                         = (IF n = 0 THEN f ELSE FreeBlock(h[n - 1], ext[n]))
    BY <2>2
  <2>4. [n \in 0 .. N |-> IF n = 0 THEN f ELSE step[n][h[n - 1]]]
          = [n \in 0 .. N |-> IF n = 0 THEN f ELSE FreeBlock(h[n - 1], ext[n])]
    BY ONLY <2>3
  <2>5. h = [n \in 0 .. N |-> IF n = 0 THEN f ELSE FreeBlock(h[n - 1], ext[n])]
    BY <1>8, <2>4
  <2> QED BY <2>5
<1>10. PICK c : c = freed
  OBVIOUS
<1>11. Is(c)
  BY <1>9, <1>10
<1> HIDE DEF freed
<1>12. c[0] = f /\ \A n \in 1 .. N : c[n] = FreeBlock(c[n - 1], ext[n])
  <2>1. c = [k \in 0 .. N |-> IF k = 0 THEN f ELSE FreeBlock(c[k - 1], ext[k])]
    BY <1>11
  <2>2. 0 \in 0 .. N /\ \A n \in 1 .. N : n \in 0 .. N /\ n # 0 BY <1>1
  <2> HIDE DEF Is
  <2> QED BY <2>1, <2>2
<1>13. \A n \in 0 .. N : c[n] \in Q[n]
  <2>1. N \in Nat /\ c[0] \in Q[0]
    <3>1. 0 \in 0 .. N BY <1>1
    <3> QED BY <1>1, <1>3, <1>5, <1>12, <3>1
  <2>2. \A n \in 1 .. N : c[n - 1] \in Q[n - 1] => c[n] \in Q[n]
    BY <1>6, <1>12
  <2> QED BY ONLY <2>1, <2>2, LoopStays
<1>14. c[N] \in Left(N)
  <2>1. N \in 0 .. N BY <1>1
  <2> QED BY <1>5, <1>13, <2>1
<1>15. FreeExtents(f, ext) = c[N]
  BY <1>10 DEF FreeExtents, freed, N
<1> QED BY <1>2, <1>14, <1>15 DEF Left

\* alloc_inode takes a free inode if there is one.
LEMMA AllocInodeFacts ==
  ASSUME NEW f, Sane(f)
  PROVE  LET r == AllocInode(f) IN
         \/ r = Err(f, "NoSpace") /\ Ino \subseteq f.iused
         \/ /\ r.res = "ok" /\ r.val \in Ino \ f.iused
            /\ \A i \in Ino \ f.iused : r.val <= i
            /\ Sane(r.fs) /\ SameBlockCounts(f, r.fs)
            /\ r.fs.iused = f.iused \cup {r.val} /\ r.fs.dirs = f.dirs
            /\ r.fs.ino = f.ino /\ r.fs.blk = f.blk
<1> DEFINE free == Ino \ f.iused
           b == Min(free)
           k == InoGroup[b]
           g == [f EXCEPT !.iused = f.iused \cup {b}, !.ifree = [f.ifree EXCEPT ![k] = @ - 1],
                          !.sbInodes = f.sbInodes - 1]
<1>1. /\ f \in FsType /\ f.iused \in SUBSET Ino /\ f.ifree \in [Group -> Int]
      /\ f.sbInodes \in Int
  BY DEF Sane, FsType
<1>2. CASE free = {}
  BY <1>2 DEF AllocInode
<1>3. CASE free # {}
  <2>1. b \in free /\ \A c \in free : b <= c
    BY <1>3, InoFacts, MinIn
  <2>2. b \in Ino /\ k = GroupOfIno(b) /\ k \in Group
    BY <2>1, GroupTypes DEF InoGroup
  <2>3. Counted(Ino, InoGroup, f.iused \cup {b}, [f.ifree EXCEPT ![k] = @ - 1], f.sbInodes - 1)
    <3>1. Counted(Ino, InoGroup, f.iused, f.ifree, f.sbInodes) /\ IsFiniteSet(Ino)
      BY InoFacts DEF Sane
    <3>2. PICK c : c = b OBVIOUS
    <3>3. c \in Ino \ f.iused BY <2>1, <3>2
    <3> HIDE DEF b
    <3>4. Counted(Ino, InoGroup, f.iused \cup {c}, [f.ifree EXCEPT ![InoGroup[c]] = @ - 1],
                  f.sbInodes - 1)
      BY ONLY <1>1, <3>1, <3>3, GroupTypes, CountTake
    <3> QED BY <3>2, <3>4
  <2>5. AllocInode(f) = Ret(g, "ok", b)
    BY <1>1, <1>3, <2>2 DEF AllocInode
  <2> HIDE DEF b, k
  <2>6. g \in FsType
    <3>1. f.iused \cup {b} \in SUBSET Ino /\ f.sbInodes - 1 \in Int
      BY <1>1, <2>2
    <3>2. [f.ifree EXCEPT ![k] = @ - 1] \in [Group -> Int]
      BY <1>1, <2>2
    <3> QED BY <1>1, <3>1, <3>2 DEF FsType
  <2>7. /\ g.iused = f.iused \cup {b}
        /\ g.ifree = [f.ifree EXCEPT ![k] = @ - 1]
        /\ g.sbInodes = f.sbInodes - 1
        /\ g.dirs = f.dirs /\ g.ino = f.ino /\ g.blk = f.blk /\ SameBlockCounts(f, g)
    BY <1>1 DEF FsType, SameBlockCounts
  <2> HIDE DEF g
  <2>8. Sane(g)
    BY <2>3, <2>6, <2>7 DEF Sane, SameBlockCounts
  <2> QED BY <2>1, <2>5, <2>7, <2>8 DEF Ret
<1> QED BY <1>2, <1>3

\* free_inode of an inode in use: its bit and its counters change, nothing else.
LEMMA FreeInodeFacts ==
  ASSUME NEW f, Sane(f), NEW i \in f.iused
  PROVE  LET g == FreeInode(f, i) IN
         /\ Sane(g) /\ SameBlockCounts(f, g)
         /\ g.iused = f.iused \ {i} /\ g.dirs = f.dirs /\ g.ino = f.ino /\ g.blk = f.blk
<1> DEFINE g == FreeInode(f, i)
           k == InoGroup[i]
<1>1. /\ f \in FsType /\ f.iused \in SUBSET Ino /\ f.ifree \in [Group -> Int]
      /\ f.sbInodes \in Int /\ i \in Ino
  BY DEF Sane, FsType
<1>2. k = GroupOfIno(i) /\ k \in Group
  BY <1>1, GroupTypes DEF InoGroup
<1>3. g = [f EXCEPT !.iused = f.iused \ {i}, !.ifree = [f.ifree EXCEPT ![k] = @ + 1],
                    !.sbInodes = f.sbInodes + 1]
  BY <1>1, <1>2 DEF FreeInode, FsType
<1> HIDE DEF g, k
<1>4. g \in FsType
  <2>1. f.iused \ {i} \in SUBSET Ino /\ f.sbInodes + 1 \in Int
    BY <1>1
  <2>2. [f.ifree EXCEPT ![k] = @ + 1] \in [Group -> Int]
    BY <1>1, <1>2
  <2> QED BY <1>1, <1>3, <2>1, <2>2 DEF FsType
<1>5. /\ g.iused = f.iused \ {i}
      /\ g.ifree = [f.ifree EXCEPT ![k] = @ + 1]
      /\ g.sbInodes = f.sbInodes + 1
      /\ g.dirs = f.dirs /\ g.ino = f.ino /\ g.blk = f.blk /\ SameBlockCounts(f, g)
  BY <1>1, <1>3 DEF FsType, SameBlockCounts
<1>6. Counted(Ino, InoGroup, f.iused \ {i}, [f.ifree EXCEPT ![k] = @ + 1], f.sbInodes + 1)
  <2>1. Counted(Ino, InoGroup, f.iused, f.ifree, f.sbInodes) /\ IsFiniteSet(Ino)
    BY InoFacts DEF Sane
  <2> QED BY ONLY <1>1, <2>1, GroupTypes, CountGive DEF k
<1>7. Sane(g)
  BY <1>4, <1>5, <1>6 DEF Sane, SameBlockCounts
<1> QED BY <1>5, <1>7 DEF g

\* The used-directory counts with delta more in the group of i.
MoreDirs(D, i, delta) == [D EXCEPT ![GroupOfIno(i)] = Max({@ + delta, 0})]

\* Nothing but the used-directory counts changes.
LEMMA BumpFacts ==
  ASSUME NEW f, Sane(f), NEW i \in Ino, NEW delta \in Int, NEW g, g = BumpUsedDirs(f, i, delta)
  PROVE  /\ Sane(g) /\ SameBlockCounts(f, g) /\ SameInodeCounts(f, g)
         /\ g.ino = f.ino /\ g.blk = f.blk
         /\ g.dirs = MoreDirs(f.dirs, i, delta)
<1> DEFINE k == GroupOfIno(i)
           n == Max({f.dirs[k] + delta, 0})
<1>1. f \in FsType /\ f.dirs \in [Group -> Int]
  BY DEF Sane, FsType
<1>2. k \in Group
  BY InoFacts
<1>3. f.dirs[k] + delta \in Int
  BY <1>1, <1>2
<1>4. n \in Int
  BY <1>3, MaxZero
<1>5. g = [f EXCEPT !.dirs = [f.dirs EXCEPT ![k] = n]]
  BY <1>1, <1>2 DEF BumpUsedDirs, FsType
<1> HIDE DEF n, k
<1>6. [f.dirs EXCEPT ![k] = n] \in [Group -> Int]
  BY <1>1, <1>4
<1>7. g \in FsType
  BY <1>1, <1>5, <1>6 DEF FsType
<1>8. /\ SameBlockCounts(f, g) /\ SameInodeCounts(f, g) /\ g.ino = f.ino /\ g.blk = f.blk
      /\ g.dirs = [f.dirs EXCEPT ![k] = n]
  BY <1>1, <1>5 DEF FsType, SameBlockCounts, SameInodeCounts
<1>9. Sane(g)
  BY <1>7, <1>8 DEF Sane, SameBlockCounts, SameInodeCounts
<1>10. g.dirs = MoreDirs(f.dirs, i, delta)
  BY <1>8 DEF n, k, MoreDirs
<1> QED BY <1>8, <1>9, <1>10

\* The table of inodes is replaced by another one.
LEMMA SetInoFacts ==
  ASSUME NEW f, Sane(f), NEW x \in [Ino -> InodeType],
         \A i \in Ino : Extents(x[i].ext) <= MaxExtents
  PROVE  LET g == [f EXCEPT !.ino = x] IN
         /\ Sane(g) /\ SameBlockCounts(f, g) /\ SameInodeCounts(f, g)
         /\ g.dirs = f.dirs /\ g.ino = x /\ g.blk = f.blk
<1> DEFINE g == [f EXCEPT !.ino = x]
<1>1. f \in FsType
  BY DEF Sane
<1>2. g \in FsType
  BY <1>1 DEF FsType
<1>3. /\ SameBlockCounts(f, g) /\ SameInodeCounts(f, g)
      /\ g.dirs = f.dirs /\ g.ino = x /\ g.blk = f.blk
  BY <1>1 DEF FsType, SameBlockCounts, SameInodeCounts
<1> HIDE DEF g
<1>4. Sane(g)
  BY <1>2, <1>3 DEF Sane, SameBlockCounts, SameInodeCounts
<1> QED BY <1>3, <1>4 DEF g

\* The blocks are replaced by others.
LEMMA SetBlkFacts ==
  ASSUME NEW f, Sane(f), NEW x \in [Blk -> BlockType]
  PROVE  LET g == [f EXCEPT !.blk = x] IN
         /\ Sane(g) /\ SameBlockCounts(f, g) /\ SameInodeCounts(f, g)
         /\ g.dirs = f.dirs /\ g.ino = f.ino /\ g.blk = x
<1> DEFINE g == [f EXCEPT !.blk = x]
<1>1. f \in FsType
  BY DEF Sane
<1>2. g \in FsType
  BY <1>1 DEF FsType
<1>3. /\ SameBlockCounts(f, g) /\ SameInodeCounts(f, g)
      /\ g.dirs = f.dirs /\ g.ino = f.ino /\ g.blk = x
  BY <1>1 DEF FsType, SameBlockCounts, SameInodeCounts
<1> HIDE DEF g
<1>4. Sane(g)
  BY <1>2, <1>3 DEF Sane, SameBlockCounts, SameInodeCounts
<1> QED BY <1>3, <1>4 DEF g

\* An inode without blocks has no extents, one with a single block has one.
LEMMA FewExtents ==
  /\ Extents(<< >>) <= MaxExtents
  /\ \A b : Extents(<<b>>) <= MaxExtents
<1>1. {k \in 1 .. Len(<< >>) : k = 1 \/ ~Adjacent(<< >>[k - 1], << >>[k])} = {}
  <2>1. Len(<< >>) = 0 OBVIOUS
  <2>2. 1 .. 0 = {} OBVIOUS
  <2> QED BY <2>1, <2>2
<1>2. ASSUME NEW b
      PROVE  {k \in 1 .. Len(<<b>>) : k = 1 \/ ~Adjacent(<<b>>[k - 1], <<b>>[k])} = {1}
  <2>1. Len(<<b>>) = 1 OBVIOUS
  <2>2. 1 .. 1 = {1} OBVIOUS
  <2> QED BY <2>1, <2>2
<1>3. Cardinality({}) = 0 /\ Cardinality({1}) = 1
  BY FS_EmptySet, FS_Singleton
<1>4. Extents(<< >>) = 0
  BY <1>1, <1>3 DEF Extents
<1>5. ASSUME NEW b PROVE Extents(<<b>>) = 1
  BY <1>2, <1>3 DEF Extents
<1> QED BY <1>4, <1>5, Consts

-----------------------------------------------------------------------------
(* One block of a directory *)

\* The entries in use.
Used(ents) == {e \in ToSet(ents) : e.ino # NoIno}

\* No two of them have the same name.
Uniq(ents) ==
  \A j, k \in 1 .. Len(ents) :
    ents[j].ino # NoIno /\ ents[k].ino # NoIno /\ ents[j].name = ents[k].name => j = k

\* What PutEntry does to the block.
Put(ents, j, e, rest) ==
  IF rest > 0 THEN InsertAt(ReplaceAt(ents, j, e), j + 1, Free(rest)) ELSE ReplaceAt(ents, j, e)

\* A sequence with one more element in the middle.
LEMMA InsertAtFacts ==
  ASSUME NEW T, NEW s \in Seq(T), NEW i \in 1 .. Len(s) + 1, NEW x \in T
  PROVE  LET r == InsertAt(s, i, x) IN
         /\ r \in Seq(T) /\ Len(r) = Len(s) + 1
         /\ \A k \in 1 .. Len(s) + 1 :
              r[k] = IF k < i THEN s[k] ELSE IF k = i THEN x ELSE s[k - 1]
<1> DEFINE a == SubSeq(s, 1, i - 1)
           b == SubSeq(s, i, Len(s))
<1>0. Len(s) \in Nat /\ i \in Nat /\ i >= 1 /\ i <= Len(s) + 1
  OBVIOUS
<1>1. a \in Seq(T) /\ Len(a) = i - 1 /\ \A k \in 1 .. i - 1 : a[k] = s[k]
  OBVIOUS
<1>2. b \in Seq(T) /\ Len(b) = Len(s) + 1 - i /\ \A k \in 1 .. Len(s) + 1 - i : b[k] = s[i + k - 1]
  OBVIOUS
<1> HIDE DEF a, b
<1>3. /\ a \o <<x>> \in Seq(T) /\ Len(a \o <<x>>) = i
      /\ \A k \in 1 .. i : (a \o <<x>>)[k] = IF k < i THEN s[k] ELSE x
  BY <1>1
<1>4. PICK c : c = a \o <<x>>
  OBVIOUS
<1>5. /\ c \o b \in Seq(T) /\ Len(c \o b) = Len(s) + 1
      /\ \A k \in 1 .. Len(s) + 1 : (c \o b)[k] = IF k <= i THEN c[k] ELSE b[k - i]
  <2>1. c \in Seq(T) /\ b \in Seq(T) /\ Len(c) = i /\ Len(b) = Len(s) + 1 - i
    BY <1>2, <1>3, <1>4
  <2>2. c \o b \in Seq(T) /\ Len(c \o b) = Len(c) + Len(b)
    BY <2>1
  <2>3. \A k \in 1 .. Len(c) + Len(b) :
          (c \o b)[k] = IF k <= Len(c) THEN c[k] ELSE b[k - Len(c)]
    BY <2>1
  <2>4. Len(c) + Len(b) = Len(s) + 1
    BY <1>0, <2>1
  <2> QED BY <2>1, <2>2, <2>3, <2>4
<1>6. ASSUME NEW k \in 1 .. Len(s) + 1
      PROVE  (c \o b)[k] = IF k < i THEN s[k] ELSE IF k = i THEN x ELSE s[k - 1]
  <2>0. k \in Int
    OBVIOUS
  <2>1. CASE k <= i
    <3>1. k \in 1 .. i BY <1>0, <2>1
    <3> QED BY <1>3, <1>4, <1>5, <2>1, <3>1
  <2>2. CASE k > i
    <3>1. k - i \in 1 .. Len(s) + 1 - i /\ i + (k - i) - 1 = k - 1 BY <1>0, <2>2
    <3>2. PICK m \in 1 .. Len(s) + 1 - i : m = k - i BY <3>1
    <3>3. b[m] = s[i + m - 1] BY <1>2
    <3>4. i + m - 1 = k - 1 /\ ~(k <= i) /\ ~(k < i) /\ k # i BY <1>0, <2>0, <2>2, <3>2
    <3>5. (c \o b)[k] = b[m] BY <1>5, <3>2, <3>4
    <3>6. (c \o b)[k] = s[k - 1] BY <3>3, <3>4, <3>5
    <3> QED BY <3>4, <3>6
  <2>3. k <= i \/ k > i BY <1>0, <2>0
  <2> QED BY <2>1, <2>2, <2>3
<1>7. InsertAt(s, i, x) = c \o b
  BY <1>4 DEF InsertAt, a, b
<1> QED BY <1>5, <1>6, <1>7

\* The slot of a free entry becomes an entry in use, perhaps with a free slot after it:
\* the block has this entry and those it had.
LEMMA PutFacts ==
  ASSUME NEW ents \in Seq(EntryType), NEW j \in 1 .. Len(ents), ents[j].ino = NoIno,
         NEW e \in EntryType, e.ino # NoIno, NEW rest \in Int
  PROVE  /\ Put(ents, j, e, rest) \in Seq(EntryType)
         /\ Used(Put(ents, j, e, rest)) = Used(ents) \cup {e}
         /\ Uniq(ents) /\ (\A x \in Used(ents) : x.name # e.name)
              => Uniq(Put(ents, j, e, rest))
<1> DEFINE p == ReplaceAt(ents, j, e)
           q == InsertAt(p, j + 1, Free(rest))
<1>1. Free(rest) \in EntryType /\ Free(rest).ino = NoIno
  BY DEF Free, EntryType
<1>2. /\ p \in Seq(EntryType) /\ Len(p) = Len(ents) /\ p[j] = e
      /\ \A k \in 1 .. Len(ents) : k # j => p[k] = ents[k]
  BY DEF ReplaceAt
<1> HIDE DEF p
<1>3. \A x : x \in Used(p) <=> x \in Used(ents) \cup {e}
  <2> SUFFICES ASSUME NEW x PROVE x \in Used(p) <=> x \in Used(ents) \cup {e}
    OBVIOUS
  <2>1. x \in Used(p) <=> \E k \in 1 .. Len(ents) : p[k] = x /\ x.ino # NoIno
    BY <1>2 DEF Used, ToSet
  <2>2. x \in Used(ents) <=> \E k \in 1 .. Len(ents) : ents[k] = x /\ x.ino # NoIno
    BY DEF Used, ToSet
  <2> QED BY <1>2, <2>1, <2>2
<1>4. Uniq(ents) /\ (\A x \in Used(ents) : x.name # e.name) => Uniq(p)
  <2> SUFFICES ASSUME Uniq(ents), \A x \in Used(ents) : x.name # e.name,
                      NEW k \in 1 .. Len(ents), NEW l \in 1 .. Len(ents),
                      p[k].ino # NoIno, p[l].ino # NoIno, p[k].name = p[l].name
               PROVE  k = l
    BY <1>2 DEF Uniq
  <2>1. \A m \in 1 .. Len(ents) : ents[m].ino # NoIno => ents[m] \in Used(ents)
    BY DEF Used, ToSet
  <2>2. k # j /\ l # j => k = l
    BY <1>2 DEF Uniq
  <2>3. k = j /\ l # j => FALSE
    BY <1>2, <2>1
  <2>4. l = j /\ k # j => FALSE
    BY <1>2, <2>1
  <2> QED BY <2>2, <2>3, <2>4
<1>5. /\ q \in Seq(EntryType) /\ Len(q) = Len(ents) + 1
      /\ \A k \in 1 .. Len(ents) + 1 :
           q[k] = IF k < j + 1 THEN p[k] ELSE IF k = j + 1 THEN Free(rest) ELSE p[k - 1]
  <2>1. j + 1 \in 1 .. Len(p) + 1
    BY <1>2
  <2>2. p \in Seq(EntryType) /\ Free(rest) \in EntryType
    BY <1>1, <1>2
  <2>3. PICK i : i = j + 1
    OBVIOUS
  <2>4. PICK u : u = Free(rest)
    OBVIOUS
  <2>5. i \in 1 .. Len(p) + 1 /\ p \in Seq(EntryType) /\ u \in EntryType
    BY <2>1, <2>2, <2>3, <2>4
  <2>6. /\ InsertAt(p, i, u) \in Seq(EntryType) /\ Len(InsertAt(p, i, u)) = Len(p) + 1
        /\ \A k \in 1 .. Len(p) + 1 :
             InsertAt(p, i, u)[k] = IF k < i THEN p[k] ELSE IF k = i THEN u ELSE p[k - 1]
    BY ONLY <2>5, InsertAtFacts
  <2> QED BY <1>2, <2>3, <2>4, <2>6
<1> HIDE DEF q
\* Where each entry of p has gone.
<1> DEFINE To(k) == IF k <= j THEN k ELSE k + 1
<1>6. \A k \in 1 .. Len(ents) : To(k) \in 1 .. Len(ents) + 1 /\ q[To(k)] = p[k]
  <2> SUFFICES ASSUME NEW k \in 1 .. Len(ents)
               PROVE  To(k) \in 1 .. Len(ents) + 1 /\ q[To(k)] = p[k]
    OBVIOUS
  <2>1. CASE k <= j
    <3>1. k \in 1 .. Len(ents) + 1 /\ k < j + 1 BY <2>1
    <3> QED BY <1>5, <2>1, <3>1
  <2>2. CASE k > j
    <3>1. k + 1 \in 1 .. Len(ents) + 1 /\ ~(k + 1 < j + 1) /\ k + 1 # j + 1 /\ (k + 1) - 1 = k
      BY <2>2
    <3>2. q[k + 1] = p[(k + 1) - 1] BY <1>5, <3>1
    <3> QED BY <2>2, <3>1, <3>2
  <2> QED BY <2>1, <2>2
<1>7. ASSUME NEW m \in 1 .. Len(ents) + 1, q[m].ino # NoIno
      PROVE  \E k \in 1 .. Len(ents) : m = To(k) /\ q[m] = p[k]
  <2>1. m # j + 1 BY <1>1, <1>5, <1>7
  <2>2. CASE m < j + 1
    <3>1. m \in 1 .. Len(ents) /\ m <= j BY <2>2
    <3> QED BY <1>5, <2>2, <3>1
  <2>3. CASE m > j + 1
    <3>1. m - 1 \in 1 .. Len(ents) /\ ~(m - 1 <= j) /\ (m - 1) + 1 = m BY <2>3
    <3>2. q[m] = p[m - 1] BY <1>5, <2>3
    <3> QED BY <3>1, <3>2
  <2> QED BY <2>1, <2>2, <2>3
<1>8. \A k, l \in 1 .. Len(ents) : To(k) = To(l) => k = l
  OBVIOUS
<1> HIDE DEF To
<1>9. Used(q) = Used(p)
  <2>1. \A x : x \in Used(p) <=> \E k \in 1 .. Len(ents) : p[k] = x /\ x.ino # NoIno
    BY <1>2 DEF Used, ToSet
  <2>2. \A x : x \in Used(q) <=> \E k \in 1 .. Len(ents) + 1 : q[k] = x /\ x.ino # NoIno
    BY <1>5 DEF Used, ToSet
  <2>3. ASSUME NEW x, x \in Used(q) PROVE x \in Used(p)
    BY <1>7, <2>1, <2>2, <2>3
  <2>4. ASSUME NEW x, x \in Used(p) PROVE x \in Used(q)
    BY <1>6, <2>1, <2>2, <2>4
  <2> QED BY <2>3, <2>4
<1>10. Uniq(p) => Uniq(q)
  <2> SUFFICES ASSUME Uniq(p), NEW m \in 1 .. Len(ents) + 1, NEW n \in 1 .. Len(ents) + 1,
                      q[m].ino # NoIno, q[n].ino # NoIno, q[m].name = q[n].name
               PROVE  m = n
    BY <1>5 DEF Uniq
  <2>1. PICK k \in 1 .. Len(ents) : m = To(k) /\ q[m] = p[k] BY <1>7
  <2>2. PICK l \in 1 .. Len(ents) : n = To(l) /\ q[n] = p[l] BY <1>7
  <2>3. k = l BY <1>2, <2>1, <2>2 DEF Uniq
  <2> QED BY <2>1, <2>2, <2>3
<1>11. Put(ents, j, e, rest) = IF rest > 0 THEN q ELSE p
  BY DEF Put, p, q
<1> QED BY <1>2, <1>3, <1>4, <1>5, <1>9, <1>10, <1>11

\* dir_del in one block: the entry is gone and the others are there.
LEMMA DelFacts ==
  ASSUME NEW ents \in Seq(EntryType), NEW j \in 1 .. Len(ents)
  PROVE  LET del == [ents EXCEPT ![j] = Free(@.rec)] IN
         /\ del \in Seq(EntryType)
         /\ ents[j].ino # NoIno /\ Uniq(ents) => Uniq(del) /\ Used(del) = Used(ents) \ {ents[j]}
<1> DEFINE del == [ents EXCEPT ![j] = Free(@.rec)]
<1>1. Free(ents[j].rec) \in EntryType /\ Free(ents[j].rec).ino = NoIno
  <2>1. ents[j] \in EntryType OBVIOUS
  <2> QED BY <2>1 DEF Free, EntryType
<1>2. /\ del \in Seq(EntryType) /\ Len(del) = Len(ents) /\ del[j] = Free(ents[j].rec)
      /\ \A k \in 1 .. Len(ents) : k # j => del[k] = ents[k]
  BY <1>1
<1> HIDE DEF del
<1>3. ASSUME ents[j].ino # NoIno, Uniq(ents) PROVE Uniq(del)
  BY <1>1, <1>2, <1>3 DEF Uniq
<1>4. ASSUME ents[j].ino # NoIno, Uniq(ents), NEW x
      PROVE  x \in Used(del) <=> x \in Used(ents) \ {ents[j]}
  <2>1. x \in Used(del) <=> \E k \in 1 .. Len(ents) : del[k] = x /\ x.ino # NoIno
    BY <1>2 DEF Used, ToSet
  <2>2. x \in Used(ents) <=> \E k \in 1 .. Len(ents) : ents[k] = x /\ x.ino # NoIno
    BY DEF Used, ToSet
  <2>3. \A k \in 1 .. Len(ents) : k # j /\ ents[k].ino # NoIno => ents[k] # ents[j]
    BY <1>4 DEF Uniq
  <2> QED BY <1>1, <1>2, <1>4, <2>1, <2>2, <2>3
<1> QED BY <1>2, <1>3, <1>4 DEF del

-----------------------------------------------------------------------------
(* Directories *)

\* The blocks of an inode.
Held(f, d) == ToSet(f.ino[d].ext)

\* No two entries in use of a directory have the same name.
NamesOnce(f, d) ==
  /\ \A b \in Held(f, d) : Uniq(f.blk[b].ents)
  /\ \A b, c \in Held(f, d) :
       b # c => \A x \in Used(f.blk[b].ents), y \in Used(f.blk[c].ents) : x.name # y.name

\* The entries of a directory are those of its blocks.
LEMMA EntriesAre ==
  ASSUME NEW f, NEW d, NEW e
  PROVE  e \in Entries(f, d) <=> \E b \in Held(f, d) : e \in Used(f.blk[b].ents)
BY DEF Entries, Held, Used

\* What the inodes and blocks of a disk are.
LEMMA TypesAt ==
  ASSUME NEW f, Sane(f), NEW d \in Ino
  PROVE  /\ f.ino[d] \in InodeType /\ f.ino[d].ext \in Seq(Blk)
         /\ Held(f, d) \subseteq Blk
         /\ \A b \in Blk : f.blk[b] \in BlockType /\ f.blk[b].ents \in Seq(EntryType)
         /\ \A e \in Entries(f, d) : e \in EntryType /\ e.ino \in Ino
<1>1. f.ino \in [Ino -> InodeType] /\ f.blk \in [Blk -> BlockType]
  BY DEF Sane, FsType
<1>2. f.ino[d] \in InodeType /\ f.ino[d].ext \in Seq(Blk)
  <2>1. f.ino[d] \in InodeType BY <1>1
  <2> QED BY <2>1 DEF InodeType
<1>3. Held(f, d) \subseteq Blk
  BY <1>2 DEF Held, ToSet
<1>4. \A b \in Blk : f.blk[b] \in BlockType /\ f.blk[b].ents \in Seq(EntryType)
  <2>1. \A b \in Blk : f.blk[b] \in BlockType BY <1>1
  <2> QED BY <2>1 DEF BlockType
<1>5. ASSUME NEW e \in Entries(f, d) PROVE e \in EntryType /\ e.ino \in Ino
  <2>1. PICK b \in Held(f, d) : e \in Used(f.blk[b].ents)
    BY EntriesAre
  <2>2. f.blk[b].ents \in Seq(EntryType)
    BY <1>3, <1>4
  <2>3. e \in EntryType /\ e.ino # NoIno
    BY <2>1, <2>2 DEF Used, ToSet
  <2> QED BY <2>3 DEF EntryType
<1> QED BY <1>2, <1>3, <1>4, <1>5

\* What the commands leave alone stays as it is.
LEMMA SameDir ==
  ASSUME NEW f, NEW g, NEW d, g.ino[d].ext = f.ino[d].ext,
         \A b \in Held(f, d) : g.blk[b] = f.blk[b]
  PROVE  Entries(g, d) = Entries(f, d) /\ (NamesOnce(f, d) => NamesOnce(g, d))
<1>1. Held(g, d) = Held(f, d)
  BY DEF Held
<1>2. \A e : e \in Entries(g, d) <=> e \in Entries(f, d)
  BY <1>1, EntriesAre
<1>3. Entries(g, d) = Entries(f, d)
  <2>1. PICK S, T : S = Entries(g, d) /\ T = Entries(f, d)
    OBVIOUS
  <2>2. \A e : e \in S <=> e \in T
    BY ONLY <1>2, <2>1
  <2>3. S = T
    BY ONLY <2>2
  <2> QED BY ONLY <2>1, <2>3
<1>4. NamesOnce(f, d) => NamesOnce(g, d)
  <2> SUFFICES ASSUME NamesOnce(f, d) PROVE NamesOnce(g, d)
    OBVIOUS
  <2>1. \A b \in Held(g, d) : Uniq(g.blk[b].ents)
    BY <1>1 DEF NamesOnce
  <2>2. \A b, c \in Held(g, d) :
          b # c => \A x \in Used(g.blk[b].ents), y \in Used(g.blk[c].ents) : x.name # y.name
    BY <1>1 DEF NamesOnce
  <2> QED BY <2>1, <2>2 DEF NamesOnce
<1> QED BY <1>3, <1>4

\* The first of some slots is one of them.
LEMMA FirstIn ==
  ASSUME NEW S \in SUBSET (Nat \X Nat), S # {}
  PROVE  First(S) \in S
<1> DEFINE K == {s[1] : s \in S}
<1>1. K \in SUBSET Nat /\ K # {}
  OBVIOUS
<1>2. PICK k \in K : \A l \in K : k <= l
  BY <1>1, LeastOf
<1> DEFINE J == {j \in Nat : <<k, j>> \in S}
<1>3. J \in SUBSET Nat /\ J # {}
  <2>1. PICK s \in S : s[1] = k BY <1>2
  <2>2. s = <<s[1], s[2]>> /\ s[2] \in Nat OBVIOUS
  <2>3. s[2] \in J BY <2>1, <2>2
  <2> QED BY <2>3
<1>4. PICK j \in J : \A l \in J : j <= l
  BY <1>3, LeastOf
<1>5. \A t \in S : k < t[1] \/ (k = t[1] /\ j <= t[2])
  <2> SUFFICES ASSUME NEW t \in S PROVE k < t[1] \/ (k = t[1] /\ j <= t[2])
    OBVIOUS
  <2>1. t = <<t[1], t[2]>> /\ t[1] \in Nat /\ t[2] \in Nat OBVIOUS
  <2>2. k <= t[1] /\ k \in Nat BY <1>1, <1>2
  <2>3. k = t[1] => t[2] \in J BY <2>1
  <2> QED BY <1>4, <2>1, <2>2, <2>3
<1>6. <<k, j>> \in S
  BY <1>4
<1>7. \E s \in S : \A t \in S : s[1] < t[1] \/ (s[1] = t[1] /\ s[2] <= t[2])
  <2>1. <<k, j>>[1] = k /\ <<k, j>>[2] = j OBVIOUS
  <2> QED BY <1>5, <1>6, <2>1
<1> QED BY <1>7 DEF First

\* A slot is a place in a block of the directory, and every place is a slot.
LEMMA SlotFacts ==
  ASSUME NEW f, Sane(f), NEW d \in Ino
  PROVE  /\ Slots(f, d) \in SUBSET (Nat \X Nat)
         /\ \A s \in Slots(f, d) :
              /\ s[1] \in 1 .. Len(f.ino[d].ext) /\ f.ino[d].ext[s[1]] \in Held(f, d)
              /\ s[2] \in 1 .. Len(f.blk[f.ino[d].ext[s[1]]].ents)
         /\ \A b \in Held(f, d) : \A j \in 1 .. Len(f.blk[b].ents) :
              \E s \in Slots(f, d) : At(f, d, s) = f.blk[b].ents[j]
<1> DEFINE ext == f.ino[d].ext
<1>1. /\ ext \in Seq(Blk) /\ DOMAIN ext = 1 .. Len(ext)
      /\ \A b \in Blk : f.blk[b].ents \in Seq(EntryType)
      /\ \A b \in Blk : DOMAIN f.blk[b].ents = 1 .. Len(f.blk[b].ents)
  BY TypesAt
<1>2. \A k \in 1 .. Len(ext) : ext[k] \in Blk /\ ext[k] \in Held(f, d)
  BY <1>1 DEF Held, ToSet
<1>3. \A s : s \in Slots(f, d) <=>
        \E k \in 1 .. Len(ext) : \E j \in 1 .. Len(f.blk[ext[k]].ents) : s = <<k, j>>
  <2> SUFFICES ASSUME NEW s
               PROVE  s \in Slots(f, d) <=>
                 \E k \in 1 .. Len(ext) : \E j \in 1 .. Len(f.blk[ext[k]].ents) : s = <<k, j>>
    OBVIOUS
  <2>1. s \in Slots(f, d) <=>
          \E k \in DOMAIN ext : s \in {<<k, j>> : j \in DOMAIN f.blk[ext[k]].ents}
    BY DEF Slots
  <2>2. \A k \in DOMAIN ext : s \in {<<k, j>> : j \in DOMAIN f.blk[ext[k]].ents}
          <=> \E j \in DOMAIN f.blk[ext[k]].ents : s = <<k, j>>
    OBVIOUS
  <2>3. \A k \in DOMAIN ext : DOMAIN f.blk[ext[k]].ents = 1 .. Len(f.blk[ext[k]].ents)
    BY <1>1, <1>2
  <2> HIDE DEF ext
  <2> QED BY <1>1, <2>1, <2>2, <2>3
<1>4. ASSUME NEW s \in Slots(f, d)
      PROVE  /\ s \in Nat \X Nat /\ s[1] \in 1 .. Len(ext) /\ ext[s[1]] \in Held(f, d)
             /\ s[2] \in 1 .. Len(f.blk[ext[s[1]]].ents)
  <2>1. PICK k \in 1 .. Len(ext) : \E j \in 1 .. Len(f.blk[ext[k]].ents) : s = <<k, j>>
    BY <1>3
  <2>2. PICK j \in 1 .. Len(f.blk[ext[k]].ents) : s = <<k, j>>
    BY <2>1
  <2>3. s[1] = k /\ s[2] = j /\ s \in Nat \X Nat
    BY <1>1, <1>2, <2>2
  <2> QED BY <1>2, <2>3
<1>5. ASSUME NEW b \in Held(f, d), NEW j \in 1 .. Len(f.blk[b].ents)
      PROVE  \E s \in Slots(f, d) : At(f, d, s) = f.blk[b].ents[j]
  <2>1. PICK k \in 1 .. Len(ext) : ext[k] = b
    BY <1>1 DEF Held, ToSet
  <2>2. <<k, j>> \in Slots(f, d)
    BY <1>3, <2>1
  <2>3. At(f, d, <<k, j>>) = f.blk[b].ents[j]
    BY <2>1 DEF At
  <2> QED BY <2>2, <2>3
<1> QED BY <1>4, <1>5

\* The slots with the name n hold the entries with it.
LEMMA NamedFacts ==
  ASSUME NEW f, Sane(f), NEW d \in Ino, NEW n
  PROVE  /\ \A s \in Named(f, d, n) : At(f, d, s) \in Entries(f, d) /\ At(f, d, s).name = n
         /\ Named(f, d, n) = {} <=> \A e \in Entries(f, d) : e.name # n
         /\ Named(f, d, n) # {} => First(Named(f, d, n)) \in Named(f, d, n)
<1>1. /\ Slots(f, d) \in SUBSET (Nat \X Nat)
      /\ \A s \in Slots(f, d) :
              /\ s[1] \in 1 .. Len(f.ino[d].ext) /\ f.ino[d].ext[s[1]] \in Held(f, d)
              /\ s[2] \in 1 .. Len(f.blk[f.ino[d].ext[s[1]]].ents)
      /\ \A b \in Held(f, d) : \A j \in 1 .. Len(f.blk[b].ents) :
              \E s \in Slots(f, d) : At(f, d, s) = f.blk[b].ents[j]
  BY SlotFacts
<1>2. \A b \in Held(f, d) : DOMAIN f.blk[b].ents = 1 .. Len(f.blk[b].ents)
  BY TypesAt
<1>3. ASSUME NEW s \in Named(f, d, n)
      PROVE  At(f, d, s) \in Entries(f, d) /\ At(f, d, s).name = n
  <2>1. s \in Slots(f, d) /\ At(f, d, s).ino # NoIno /\ At(f, d, s).name = n
    BY DEF Named
  <2>2. PICK b \in Held(f, d) : b = f.ino[d].ext[s[1]] BY <1>1, <2>1
  <2>3. At(f, d, s) \in ToSet(f.blk[b].ents)
    BY <1>1, <1>2, <2>1, <2>2 DEF At, ToSet
  <2>4. At(f, d, s) \in Used(f.blk[b].ents)
    BY <2>1, <2>3 DEF Used
  <2> QED BY <2>1, <2>4, EntriesAre
<1>4. ASSUME NEW e \in Entries(f, d), e.name = n PROVE Named(f, d, n) # {}
  <2>1. PICK b \in Held(f, d) : e \in Used(f.blk[b].ents) BY EntriesAre
  <2>2. PICK j \in 1 .. Len(f.blk[b].ents) : e = f.blk[b].ents[j] /\ e.ino # NoIno
    BY <1>2, <2>1 DEF Used, ToSet
  <2>3. PICK s \in Slots(f, d) : At(f, d, s) = e
    BY <1>1, <2>2
  <2>4. s \in Named(f, d, n)
    BY <1>4, <2>2, <2>3 DEF Named
  <2> QED BY <2>4
<1>5. Named(f, d, n) # {} => First(Named(f, d, n)) \in Named(f, d, n)
  <2>1. Named(f, d, n) \in SUBSET (Nat \X Nat)
    BY <1>1 DEF Named
  <2> QED BY <2>1, FirstIn
<1> QED BY <1>3, <1>4, <1>5

\* lookup finds the entry of the name, or there is none.
LEMMA LookupFacts ==
  ASSUME NEW f, Sane(f), NEW d \in Ino \cup {NoIno}, NEW n
  PROVE  \/ /\ d = NoIno \/ \A e \in Entries(f, d) : e.name # n
            /\ Lookup(f, d, n) = Free(0)
         \/ d \in Ino /\ Lookup(f, d, n) \in Entries(f, d) /\ Lookup(f, d, n).name = n
<1>1. CASE d = NoIno \/ \A e \in Entries(f, d) : e.name # n
  BY <1>1 DEF Lookup
<1>2. CASE d # NoIno /\ ~ \A e \in Entries(f, d) : e.name # n
  <2>1. d \in Ino BY <1>2
  <2>2. Named(f, d, n) # {} BY <1>2, <2>1, NamedFacts
  <2>3. Lookup(f, d, n) = At(f, d, First(Named(f, d, n))) BY <1>2 DEF Lookup
  <2> QED BY <2>1, <2>2, <2>3, NamedFacts
<1> QED BY <1>1, <1>2

\* An operation that fails may take blocks, and then leaves all others alone.
Kept(f, g) ==
  /\ Sane(g) /\ g.iused = f.iused /\ g.ino = f.ino /\ f.bused \subseteq g.bused
  /\ g.dirs = f.dirs
  /\ \A c \in f.bused : g.blk[c] = f.blk[c]

\* The directory d of f has the entry e more in g, and perhaps a new block; the
\* other blocks and inodes are the same.
Added(f, g, d, e) ==
  /\ Sane(g) /\ g.iused = f.iused /\ f.bused \subseteq g.bused /\ g.dirs = f.dirs
  /\ \A i \in Ino : i # d => g.ino[i] = f.ino[i]
  /\ g.ino[d].mode = f.ino[d].mode /\ g.ino[d].links = f.ino[d].links
  /\ \/ g.ino[d].ext = f.ino[d].ext
     \/ \E b \in g.bused \ f.bused : g.ino[d].ext = Append(f.ino[d].ext, b)
  /\ \A c \in f.bused \ Held(f, d) : g.blk[c] = f.blk[c]
  /\ Entries(g, d) = Entries(f, d) \cup {e}
  /\ NamesOnce(f, d) /\ (\A x \in Entries(f, d) : x.name # e.name) => NamesOnce(g, d)

\* The directory d of f has one more block in g, an empty one.
Grown(f, g, d) ==
  /\ Sane(g) /\ g.iused = f.iused /\ g.dirs = f.dirs
  /\ \A i \in Ino : i # d => g.ino[i] = f.ino[i]
  /\ g.ino[d].mode = f.ino[d].mode /\ g.ino[d].links = f.ino[d].links
  /\ \E b \in Blk \ f.bused :
       /\ g.bused = f.bused \cup {b}
       /\ g.ino[d].ext = Append(f.ino[d].ext, b)
       /\ g.blk[b].ents = <<Free(SLOTS)>>
       /\ \A c \in Blk : c # b => g.blk[c] = f.blk[c]

\* A block of a directory is a block.
LEMMA DirBlockType ==
  \A ents \in Seq(EntryType) : DirBlock(ents) \in BlockType /\ DirBlock(ents).ents = ents
BY FsConstants DEF DirBlock, BlockType

\* A block is written by writing the array of blocks.
LEMMA SetBlk ==
  ASSUME NEW h, NEW b, NEW v
  PROVE  [h EXCEPT !.blk[b] = v] = [h EXCEPT !.blk = [h.blk EXCEPT ![b] = v]]
OBVIOUS

\* A free slot is an entry that is not in use.
LEMMA FreeType == \A n \in Int : Free(n) \in EntryType /\ Free(n).ino = NoIno
BY DEF Free, EntryType

\* dir_add finds room in a slot: the directory has the entry, no block was taken.
LEMMA PutEntryFacts ==
  ASSUME NEW f, Sane(f), NEW d \in Ino, NEW s \in Unused(f, d), NEW i, NEW n, NEW ft,
         Entry(i, n, ft, 1) \in EntryType, i # NoIno
  PROVE  LET r == PutEntry(f, d, s, i, n, ft) IN
         /\ r.res = "ok" /\ Added(f, r.fs, d, Entry(i, n, ft, 1))
         /\ r.fs.bused = f.bused /\ r.fs.ino = f.ino
<1> DEFINE b == f.ino[d].ext[s[1]]
           j == s[2]
           ents == f.blk[b].ents
           e == Entry(i, n, ft, 1)
           rest == At(f, d, s).rec - 1
           new == Put(ents, j, e, rest)
           x == [f.blk EXCEPT ![b] = DirBlock(new)]
           g == [f EXCEPT !.blk = x]
<1>1. /\ s \in Slots(f, d) /\ b \in Held(f, d) /\ b \in Blk /\ j \in 1 .. Len(ents)
      /\ ents \in Seq(EntryType) /\ ents[j].ino = NoIno /\ At(f, d, s) = ents[j]
  <2>1. s \in Slots(f, d) /\ At(f, d, s).ino = NoIno BY DEF Unused
  <2>2. At(f, d, s) = ents[j] BY DEF At
  <2>3. b \in Held(f, d) /\ j \in 1 .. Len(ents) BY <2>1, SlotFacts
  <2> QED BY <2>1, <2>2, <2>3, TypesAt
<1>2. rest \in Int
  <2>1. ents[j] \in EntryType
    <3> HIDE DEF ents, j, b
    <3> QED BY <1>1
  <2>2. ents[j].rec \in Int
    <3> HIDE DEF ents, j, b
    <3> QED BY <2>1 DEF EntryType
  <2>3. At(f, d, s).rec \in Int
    <3> HIDE DEF ents, j, b
    <3> QED BY <1>1, <2>2
  <2> QED BY <2>3
<1>3. f \in FsType /\ f.blk \in [Blk -> BlockType]
  BY DEF Sane, FsType
<1>4. PutEntry(f, d, s, i, n, ft) = Ok(g)
  <2>1. PutEntry(f, d, s, i, n, ft) = Ok([f EXCEPT !.blk[b] = DirBlock(new)])
    BY DEF PutEntry, Put
  <2> QED BY <2>1, SetBlk
<1>5. e.ino # NoIno /\ e.name = n
  <2>1. e.ino = i /\ e.name = n
    BY ONLY DEF Entry
  <2> QED BY <2>1
<1> HIDE DEF b, j, e, rest
<1>6. /\ new \in Seq(EntryType)
      /\ Used(new) = Used(ents) \cup {e}
      /\ Uniq(ents) /\ (\A y \in Used(ents) : y.name # e.name) => Uniq(new)
  <2> HIDE DEF ents
  <2>1. e \in EntryType BY DEF e
  <2> QED BY <1>1, <1>2, <1>5, <2>1, PutFacts
<1> HIDE DEF new, ents
<1>7. DirBlock(new) \in BlockType /\ DirBlock(new).ents = new
  BY <1>6, DirBlockType
<1>8. x \in [Blk -> BlockType] /\ x[b].ents = new /\ \A c \in Blk : c # b => x[c] = f.blk[c]
  BY <1>1, <1>3, <1>7
<1> HIDE DEF x
<1>9. /\ Sane(g) /\ SameBlockCounts(f, g) /\ SameInodeCounts(f, g)
      /\ g.dirs = f.dirs /\ g.ino = f.ino /\ g.blk = x
  BY <1>8, SetBlkFacts
<1> HIDE DEF g
<1>10. Held(g, d) = Held(f, d)
  BY <1>9 DEF Held
<1>11. \A c \in Held(f, d) : c # b => g.blk[c] = f.blk[c]
  BY <1>8, <1>9, TypesAt
<1>12. g.blk[b].ents = new
  BY <1>8, <1>9
<1>13. \A y : y \in Entries(g, d) <=> y \in Entries(f, d) \cup {e}
  <2> SUFFICES ASSUME NEW y PROVE y \in Entries(g, d) <=> y \in Entries(f, d) \cup {e}
    OBVIOUS
  <2>1. y \in Entries(g, d) <=> \E c \in Held(f, d) : y \in Used(g.blk[c].ents)
    BY <1>10, EntriesAre
  <2>2. y \in Entries(f, d) <=> \E c \in Held(f, d) : y \in Used(f.blk[c].ents)
    BY EntriesAre
  <2>3. y \in Used(g.blk[b].ents) <=> y \in Used(f.blk[b].ents) \/ y = e
    BY <1>6, <1>12 DEF ents
  <2> QED BY <1>1, <1>11, <2>1, <2>2, <2>3
<1>14. ASSUME NamesOnce(f, d), \A y \in Entries(f, d) : y.name # e.name
       PROVE  NamesOnce(g, d)
  <2>1. \A c \in Held(f, d) : \A y \in Used(f.blk[c].ents) : y.name # e.name
    BY <1>14, EntriesAre
  <2>2. \A c \in Held(f, d) : Uniq(g.blk[c].ents)
    BY <1>6, <1>11, <1>12, <1>14, <2>1 DEF NamesOnce, ents
  <2>3. ASSUME NEW c \in Held(f, d), NEW k \in Held(f, d), c # k,
               NEW y \in Used(g.blk[c].ents), NEW z \in Used(g.blk[k].ents)
        PROVE  y.name # z.name
    <3>1. y \in Used(f.blk[c].ents) \/ (c = b /\ y = e)
      BY <1>6, <1>11, <1>12 DEF ents
    <3>2. z \in Used(f.blk[k].ents) \/ (k = b /\ z = e)
      BY <1>6, <1>11, <1>12 DEF ents
    <3> QED BY <1>14, <2>1, <2>3, <3>1, <3>2 DEF NamesOnce
  <2> QED BY <1>10, <2>2, <2>3 DEF NamesOnce
<1>15. \A c \in f.bused \ Held(f, d) : g.blk[c] = f.blk[c]
  <2>1. f.bused \subseteq Blk BY <1>3 DEF FsType
  <2> QED BY <1>1, <1>8, <1>9, <2>1
<1>16. Added(f, g, d, e)
  BY <1>9, <1>13, <1>14, <1>15 DEF Added, SameBlockCounts, SameInodeCounts
<1>17. PutEntry(f, d, s, i, n, ft).res = "ok" /\ PutEntry(f, d, s, i, n, ft).fs = g
  BY <1>4 DEF Ok, Ret
<1> QED BY <1>9, <1>16, <1>17 DEF e, SameBlockCounts

\* dir_add finds no room: the directory gets an empty block, or dir_add fails and all
\* that may be lost is the block.
LEMMA DirGrowFacts ==
  ASSUME NEW f, Sane(f), NEW d \in Ino
  PROVE  LET r == DirGrow(f, d) IN
         \/ r.res # "ok" /\ Kept(f, r.fs)
         \/ r.res = "ok" /\ Grown(f, r.fs, d)
<1> DEFINE a == AllocBlock(f)
           b == a.val
           ext == f.ino[d].ext
           x == [a.fs.blk EXCEPT ![b] = DirBlock(<<Free(SLOTS)>>)]
           f2 == [a.fs EXCEPT !.blk = x]
           y == [f2.ino EXCEPT ![d] = [f2.ino[d] EXCEPT !.ext = Append(f2.ino[d].ext, b)]]
           f3 == [f2 EXCEPT !.ino = y]
<1>0. Kept(f, f)
  BY DEF Kept
<1>1. CASE a = Err(f, "NoSpace")
  <2>1. DirGrow(f, d) = a
    BY <1>1 DEF DirGrow, Then, Err, Ret
  <2> QED BY <1>0, <1>1, <2>1 DEF Err, Ret
<1>2. CASE /\ a.res = "ok" /\ b \in Blk \ f.bused
           /\ Sane(a.fs) /\ SameNodes(f, a.fs) /\ a.fs.bused = f.bused \cup {b}
           /\ a.fs.dirs = f.dirs
  <2>1. a.fs \in FsType
    BY <1>2 DEF Sane
  <2>2. DirGrow(f, d) = IF ~CanAppend(ext, b) THEN Err(f2, "Unsupported") ELSE Ok(f3)
    <3>1. DirGrow(f, d) =
            (IF ~CanAppend(ext, b)
             THEN Err([a.fs EXCEPT !.blk[b] = DirBlock(<<Free(SLOTS)>>)], "Unsupported")
             ELSE Ok([[a.fs EXCEPT !.blk[b] = DirBlock(<<Free(SLOTS)>>)]
                        EXCEPT !.ino[d].ext = Append(@, b)]))
      BY <1>2 DEF DirGrow, Then
    <3>2. [a.fs EXCEPT !.blk[b] = DirBlock(<<Free(SLOTS)>>)] = f2
      <4> HIDE DEF a
      <4> QED BY SetBlk
    <3>3. [f2 EXCEPT !.ino[d].ext = Append(@, b)] = f3
      <4>1. PICK h : h = f2 OBVIOUS
      <4> HIDE DEF f2
      <4> QED OBVIOUS
    <3> QED BY <3>1, <3>2, <3>3
  <2> HIDE DEF a
  <2>3. DirBlock(<<Free(SLOTS)>>) \in BlockType /\ DirBlock(<<Free(SLOTS)>>).ents = <<Free(SLOTS)>>
    <3>1. PICK u : u = Free(SLOTS) OBVIOUS
    <3>2. u \in EntryType BY Consts, FreeType, <3>1
    <3>3. <<u>> \in Seq(EntryType) BY <3>2
    <3> QED BY <3>1, <3>3, DirBlockType
  <2>4. /\ x \in [Blk -> BlockType] /\ x[b].ents = <<Free(SLOTS)>>
        /\ \A c \in Blk : c # b => x[c] = f.blk[c]
    <3>1. a.fs.blk \in [Blk -> BlockType] /\ a.fs.blk = f.blk
      BY <1>2, <2>1 DEF FsType, SameNodes
    <3> QED BY <1>2, <2>3, <3>1
  <2> HIDE DEF x
  <2>5. /\ Sane(f2) /\ SameBlockCounts(a.fs, f2) /\ SameInodeCounts(a.fs, f2)
        /\ f2.ino = a.fs.ino /\ f2.blk = x /\ f2.dirs = a.fs.dirs
    BY <1>2, <2>4, SetBlkFacts
  <2> HIDE DEF f2
  <2>6. /\ f2.ino = f.ino /\ f2.iused = f.iused /\ f2.bused = f.bused \cup {b}
        /\ f2.dirs = f.dirs
    BY <1>2, <2>5 DEF SameNodes, SameBlockCounts, SameInodeCounts
  <2>7. CASE ~CanAppend(ext, b)
    <3>1. DirGrow(f, d).res = "Unsupported" /\ DirGrow(f, d).fs = f2
      BY <2>2, <2>7 DEF Err, Ret
    <3>2. f.bused \subseteq Blk
      BY DEF Sane, FsType
    <3>3. Kept(f, f2)
      BY <1>2, <2>4, <2>5, <2>6, <3>2 DEF Kept
    <3> QED BY <3>1, <3>3
  <2>8. CASE CanAppend(ext, b)
    <3>1. DirGrow(f, d).res = "ok" /\ DirGrow(f, d).fs = f3
      BY <2>2, <2>8 DEF Ok, Ret
    <3>2. /\ f.ino \in [Ino -> InodeType] /\ f.ino[d] \in InodeType
          /\ ext \in Seq(Blk) /\ \A i \in Ino : Extents(f.ino[i].ext) <= MaxExtents
      BY TypesAt DEF Sane, FsType
    <3>3. y[d] = [f.ino[d] EXCEPT !.ext = Append(ext, b)] /\ y[d] \in InodeType
      <4>1. Append(ext, b) \in Seq(Blk) BY <1>2, <3>2
      <4>2. y[d] = [f.ino[d] EXCEPT !.ext = Append(ext, b)] BY <2>6, <3>2
      <4> HIDE DEF y, ext
      <4> QED BY <3>2, <4>1, <4>2 DEF InodeType
    <3>4. \A i \in Ino : i # d => y[i] = f.ino[i]
      BY <2>6, <3>2
    <3>5. DOMAIN y = Ino /\ y = [i \in Ino |-> y[i]]
      BY <2>6, <3>2
    <3>6. /\ y[d].ext = Append(ext, b) /\ y[d].mode = f.ino[d].mode
          /\ y[d].links = f.ino[d].links
      BY <3>2, <3>3 DEF InodeType
    <3> HIDE DEF y
    <3>7. y \in [Ino -> InodeType]
      BY <3>2, <3>3, <3>4, <3>5
    <3>8. \A i \in Ino : Extents(y[i].ext) <= MaxExtents
      BY <2>8, <3>2, <3>4, <3>6 DEF CanAppend
    <3>9. /\ Sane(f3) /\ SameBlockCounts(f2, f3) /\ SameInodeCounts(f2, f3)
          /\ f3.ino = y /\ f3.blk = f2.blk /\ f3.dirs = f2.dirs
      BY <2>5, <3>7, <3>8, SetInoFacts
    <3> HIDE DEF f3
    <3>10. /\ f3.bused = f.bused \cup {b} /\ f3.iused = f.iused /\ f3.blk = x
           /\ f3.dirs = f.dirs
      BY <2>5, <2>6, <3>9 DEF SameBlockCounts, SameInodeCounts
    <3>11. Grown(f, f3, d)
      BY <1>2, <2>4, <3>4, <3>6, <3>9, <3>10 DEF Grown
    <3> QED BY <3>1, <3>11
  <2> QED BY <2>7, <2>8
<1> QED BY <1>1, <1>2, AllocBlockFacts

\* A new entry goes into an unused slot or into a new block; if there is none,
\* the directory stays as it is.
LEMMA DirAddFacts ==
  ASSUME NEW f, Sane(f), NEW d \in Ino, Held(f, d) \subseteq f.bused, NEW i, NEW n, NEW ft,
         Entry(i, n, ft, 1) \in EntryType, i # NoIno
  PROVE  LET r == DirAdd(f, d, n, i, ft) IN
         \/ r.res # "ok" /\ Kept(f, r.fs)
         \/ r.res = "ok" /\ Added(f, r.fs, d, Entry(i, n, ft, 1))
<1> DEFINE e == Entry(i, n, ft, 1)
           p(h) == PutEntry(h, d, First(Unused(h, d)), i, n, ft)
<1>1. ASSUME NEW h, Sane(h), Unused(h, d) # {}
      PROVE  p(h).res = "ok" /\ Added(h, p(h).fs, d, e) /\ p(h).fs.bused = h.bused
             /\ p(h).fs.ino = h.ino
  <2>1. Unused(h, d) \in SUBSET (Nat \X Nat)
    BY <1>1, SlotFacts DEF Unused
  <2>2. First(Unused(h, d)) \in Unused(h, d)
    BY <1>1, <2>1, FirstIn
  <2>3. PICK s : s = First(Unused(h, d))
    OBVIOUS
  <2>4. s \in Unused(h, d) /\ Sane(h) /\ e \in EntryType /\ d \in Ino /\ i # NoIno
    BY <1>1, <2>2, <2>3
  <2>5. /\ PutEntry(h, d, s, i, n, ft).res = "ok"
        /\ Added(h, PutEntry(h, d, s, i, n, ft).fs, d, e)
        /\ PutEntry(h, d, s, i, n, ft).fs.bused = h.bused
        /\ PutEntry(h, d, s, i, n, ft).fs.ino = h.ino
    BY <2>4, PutEntryFacts
  <2> QED BY <2>3, <2>5
<1>2. CASE Unused(f, d) # {}
  <2>1. DirAdd(f, d, n, i, ft) = p(f)
    BY <1>2 DEF DirAdd, Then, Ok, Ret
  <2> HIDE DEF p, e
  <2>2. p(f).res = "ok" /\ Added(f, p(f).fs, d, e)
    BY <1>1, <1>2
  <2> QED BY <2>1, <2>2 DEF e
<1>3. CASE Unused(f, d) = {} /\ DirGrow(f, d).res # "ok"
  <2>1. DirAdd(f, d, n, i, ft) = DirGrow(f, d)
    BY <1>3 DEF DirAdd, Then
  <2>2. Kept(f, DirGrow(f, d).fs)
    BY <1>3, DirGrowFacts
  <2> QED BY <1>3, <2>1, <2>2
<1>4. CASE Unused(f, d) = {} /\ DirGrow(f, d).res = "ok"
  <2>1. PICK h : h = DirGrow(f, d).fs
    OBVIOUS
  <2>2. DirAdd(f, d, n, i, ft) = p(h)
    BY <1>4, <2>1 DEF DirAdd, Then
  <2>3. /\ Sane(h) /\ h.iused = f.iused /\ h.dirs = f.dirs
        /\ \A k \in Ino : k # d => h.ino[k] = f.ino[k]
        /\ h.ino[d].mode = f.ino[d].mode /\ h.ino[d].links = f.ino[d].links
        /\ \E b \in Blk \ f.bused :
             /\ h.bused = f.bused \cup {b}
             /\ h.ino[d].ext = Append(f.ino[d].ext, b)
             /\ h.blk[b].ents = <<Free(SLOTS)>>
             /\ \A c \in Blk : c # b => h.blk[c] = f.blk[c]
    <3>1. Grown(f, DirGrow(f, d).fs, d) BY <1>4, DirGrowFacts
    <3>2. Grown(f, h, d) BY <2>1, <3>1
    <3> QED BY <3>2 DEF Grown
  <2>4. PICK b \in Blk \ f.bused :
             /\ h.bused = f.bused \cup {b}
             /\ h.ino[d].ext = Append(f.ino[d].ext, b)
             /\ h.blk[b].ents = <<Free(SLOTS)>>
             /\ \A c \in Blk : c # b => h.blk[c] = f.blk[c]
    BY <2>3
  <2>5. Held(h, d) = Held(f, d) \cup {b} /\ b \notin Held(f, d) /\ Held(f, d) \subseteq Blk
    <3>1. f.ino[d].ext \in Seq(Blk) /\ Held(f, d) \subseteq Blk BY TypesAt
    <3>2. PICK x : x = f.ino[d].ext OBVIOUS
    <3>3. Len(Append(x, b)) = Len(x) + 1 /\ Append(x, b)[Len(x) + 1] = b
          /\ \A k \in 1 .. Len(x) : Append(x, b)[k] = x[k]
      BY <3>1, <3>2
    <3>4. DOMAIN Append(x, b) = 1 .. Len(x) + 1 /\ DOMAIN x = 1 .. Len(x)
      BY <3>1, <3>2
    <3>5. /\ Len(x) + 1 \in 1 .. Len(x) + 1
          /\ \A k \in 1 .. Len(x) + 1 : k = Len(x) + 1 \/ k \in 1 .. Len(x)
      BY <3>1, <3>2
    <3>6. ToSet(Append(x, b)) = ToSet(x) \cup {b}
      BY <3>3, <3>4, <3>5 DEF ToSet
    <3> QED BY <2>4, <3>1, <3>2, <3>6 DEF Held
  <2>6. /\ Used(h.blk[b].ents) = {} /\ Uniq(h.blk[b].ents)
        /\ Len(h.blk[b].ents) = 1 /\ h.blk[b].ents[1].ino = NoIno
    <3>1. Free(SLOTS).ino = NoIno BY Consts, FreeType
    <3>2. PICK u : u = Free(SLOTS) OBVIOUS
    <3>3. Len(<<u>>) = 1 /\ <<u>>[1] = u /\ DOMAIN <<u>> = {1} OBVIOUS
    <3>4. ToSet(<<u>>) = {u} BY <3>3 DEF ToSet
    <3>5. Used(<<u>>) = {} BY <3>1, <3>2, <3>4 DEF Used
    <3>6. Uniq(<<u>>) BY <3>3 DEF Uniq
    <3> QED BY <2>4, <3>1, <3>2, <3>3, <3>5, <3>6
  <2>7. \A c \in Held(f, d) : h.blk[c] = f.blk[c]
    BY <2>4, <2>5
  <2>8. Unused(h, d) # {}
    <3>1. PICK s \in Slots(h, d) : At(h, d, s) = h.blk[b].ents[1]
      <4>1. b \in Held(h, d) /\ 1 \in 1 .. Len(h.blk[b].ents) BY <2>5, <2>6
      <4> QED BY <2>3, <4>1, SlotFacts
    <3> QED BY <2>6, <3>1 DEF Unused
  <2>9. p(h).res = "ok" /\ Added(h, p(h).fs, d, e) /\ p(h).fs.bused = h.bused
        /\ p(h).fs.ino = h.ino
    <3> HIDE DEF p, e
    <3> QED BY <1>1, <2>3, <2>8
  <2>10. PICK g : g = p(h).fs
    OBVIOUS
  <2> HIDE DEF p, e
  <2>11. Added(h, g, d, e) /\ g.bused = h.bused /\ g.ino = h.ino /\ p(h).res = "ok"
    BY <2>9, <2>10
  <2>12. Entries(h, d) = Entries(f, d)
    <3>1. \A y : y \in Entries(h, d) <=> y \in Entries(f, d)
      BY <2>5, <2>6, <2>7, EntriesAre
    <3> QED BY <3>1
  <2>13. NamesOnce(f, d) => NamesOnce(h, d)
    BY <2>5, <2>6, <2>7 DEF NamesOnce
  <2>14. \A c \in f.bused \ Held(f, d) : g.blk[c] = f.blk[c]
    <3> SUFFICES ASSUME NEW c \in f.bused \ Held(f, d) PROVE g.blk[c] = f.blk[c]
      OBVIOUS
    <3>1. c \in Blk BY DEF Sane, FsType
    <3>2. c # b /\ c \in h.bused \ Held(h, d) BY <2>4, <2>5
    <3>3. g.blk[c] = h.blk[c] BY ONLY <2>11, <3>2 DEF Added
    <3>4. h.blk[c] = f.blk[c] BY ONLY <2>4, <3>1, <3>2
    <3> QED BY ONLY <3>3, <3>4
  <2>15. /\ Sane(g) /\ g.iused = f.iused /\ f.bused \subseteq g.bused /\ g.dirs = f.dirs
         /\ \A k \in Ino : k # d => g.ino[k] = f.ino[k]
         /\ g.ino[d].mode = f.ino[d].mode /\ g.ino[d].links = f.ino[d].links
         /\ b \in g.bused \ f.bused /\ g.ino[d].ext = Append(f.ino[d].ext, b)
    <3>1. Sane(g) /\ g.iused = h.iused /\ g.dirs = h.dirs BY ONLY <2>11 DEF Added
    <3>2. g.iused = f.iused /\ g.dirs = f.dirs BY ONLY <2>3, <3>1
    <3>3. f.bused \subseteq g.bused /\ b \in g.bused \ f.bused BY ONLY <2>4, <2>11
    <3>4. \A k \in Ino : k # d => g.ino[k] = f.ino[k] BY ONLY <2>3, <2>11
    <3>5. g.ino[d].mode = f.ino[d].mode /\ g.ino[d].links = f.ino[d].links BY ONLY <2>3, <2>11
    <3>6. g.ino[d].ext = Append(f.ino[d].ext, b) BY ONLY <2>4, <2>11
    <3> QED BY ONLY <3>1, <3>2, <3>3, <3>4, <3>5, <3>6
  <2>16. /\ Entries(g, d) = Entries(f, d) \cup {e}
         /\ NamesOnce(f, d) /\ (\A x \in Entries(f, d) : x.name # e.name) => NamesOnce(g, d)
    <3>1. Entries(g, d) = Entries(h, d) \cup {e} BY ONLY <2>11 DEF Added
    <3>2. NamesOnce(h, d) /\ (\A x \in Entries(h, d) : x.name # e.name) => NamesOnce(g, d)
      BY ONLY <2>11 DEF Added
    <3> QED BY ONLY <2>12, <2>13, <3>1, <3>2
  <2>17. Added(f, g, d, e)
    BY ONLY <2>14, <2>15, <2>16 DEF Added
  <2> QED BY <2>2, <2>10, <2>11, <2>17 DEF e
<1> QED BY <1>2, <1>3, <1>4

\* The entry named n is gone from the directory d.
Removed(f, g, d, n) ==
  /\ Sane(g) /\ SameBlockCounts(f, g) /\ SameInodeCounts(f, g) /\ g.ino = f.ino
  /\ g.dirs = f.dirs
  /\ \A c \in Blk \ Held(f, d) : g.blk[c] = f.blk[c]
  /\ Entries(g, d) = {e \in Entries(f, d) : e.name # n}
  /\ NamesOnce(g, d)

\* dir_del removes the entry, or there is none of that name.
LEMMA DirDelFacts ==
  ASSUME NEW f, Sane(f), NEW d \in Ino, NamesOnce(f, d), NEW n
  PROVE  LET r == DirDel(f, d, n) IN
         \/ r = Err(f, "NoPath") /\ \A e \in Entries(f, d) : e.name # n
         \/ r.res = "ok" /\ Removed(f, r.fs, d, n)
<1> DEFINE s == First(Named(f, d, n))
           b == f.ino[d].ext[s[1]]
           j == s[2]
           ents == f.blk[b].ents
           new == [ents EXCEPT ![j] = Free(@.rec)]
           x == [f.blk EXCEPT ![b] = [f.blk[b] EXCEPT !.ents = new]]
           g == [f EXCEPT !.blk = x]
<1>1. CASE Named(f, d, n) = {}
  <2>1. DirDel(f, d, n) = Err(f, "NoPath") BY <1>1 DEF DirDel
  <2> QED BY <1>1, <2>1, NamedFacts
<1>2. CASE Named(f, d, n) # {}
  <2>1. s \in Named(f, d, n)
    BY <1>2, NamedFacts
  <2> HIDE DEF s
  <2>2. /\ b \in Held(f, d) /\ b \in Blk /\ j \in 1 .. Len(ents)
        /\ ents \in Seq(EntryType) /\ ents[j].ino # NoIno /\ ents[j].name = n
    <3>1. s \in Slots(f, d) /\ At(f, d, s).ino # NoIno /\ At(f, d, s).name = n
      BY <2>1 DEF Named
    <3>2. At(f, d, s) = ents[j] BY DEF At
    <3>3. b \in Held(f, d) /\ j \in 1 .. Len(ents) BY <3>1, SlotFacts
    <3> QED BY <3>1, <3>2, <3>3, TypesAt
  <2>3. DirDel(f, d, n) = Ok(g)
    <3>1. DirDel(f, d, n) = Ok([f EXCEPT !.blk[b].ents[j] = Free(@.rec)])
      BY <1>2 DEF DirDel, s
    <3>2. [f EXCEPT !.blk[b].ents[j] = Free(@.rec)] = g
      OBVIOUS
    <3> QED BY <3>1, <3>2
  <2> HIDE DEF b, j
  <2>4. Uniq(ents)
    BY <2>2 DEF NamesOnce
  <2>5. new \in Seq(EntryType) /\ Uniq(new) /\ Used(new) = Used(ents) \ {ents[j]}
    <3> HIDE DEF ents
    <3> QED BY <2>2, <2>4, DelFacts
  <2>6. ents[j] \in Used(ents)
    <3> HIDE DEF ents
    <3> QED BY <2>2 DEF Used, ToSet
  <2>7. \A y \in Used(ents) : y.name = n => y = ents[j]
    <3> HIDE DEF ents
    <3> SUFFICES ASSUME NEW y \in Used(ents), y.name = n PROVE y = ents[j]
      OBVIOUS
    <3>1. PICK k \in 1 .. Len(ents) : ents[k] = y /\ y.ino # NoIno
      BY <2>2 DEF Used, ToSet
    <3>2. k = j BY <2>2, <2>4, <3>1 DEF Uniq
    <3> QED BY <3>1, <3>2
  <2>8. f \in FsType /\ f.blk \in [Blk -> BlockType] /\ f.blk[b] \in BlockType
    BY <2>2 DEF Sane, FsType
  <2>9. f.ino[d].ext \in Seq(Blk) /\ Held(f, d) \subseteq Blk
    BY TypesAt
  <2> DEFINE blk == [f.blk[b] EXCEPT !.ents = new]
  <2>10. blk \in BlockType /\ blk.ents = new
    <3> HIDE DEF new
    <3> QED BY <2>5, <2>8 DEF BlockType
  <2>11. x \in [Blk -> BlockType] /\ x[b] = blk /\ \A c \in Blk : c # b => x[c] = f.blk[c]
    <3> HIDE DEF blk
    <3>1. x = [f.blk EXCEPT ![b] = blk] BY DEF blk
    <3> HIDE DEF x
    <3> QED BY <2>2, <2>8, <2>10, <3>1
  <2> HIDE DEF x, blk
  <2>12. /\ Sane(g) /\ SameBlockCounts(f, g) /\ SameInodeCounts(f, g) /\ g.ino = f.ino
         /\ g.blk = x /\ g.dirs = f.dirs
    BY <2>11, SetBlkFacts
  <2> HIDE DEF g
  <2>13. Held(g, d) = Held(f, d) BY <2>12 DEF Held
  <2>14. \A c \in Held(f, d) : c # b => g.blk[c] = f.blk[c]
    BY <2>9, <2>11, <2>12
  <2>15. g.blk[b].ents = new
    BY <2>10, <2>11, <2>12
  <2> HIDE DEF new
  <2>16. \A c \in Held(f, d) : c # b => \A y \in Used(f.blk[c].ents) : y.name # n
    BY <2>2, <2>6 DEF NamesOnce
  <2>17. \A y : y \in Entries(g, d) <=> y \in Entries(f, d) /\ y.name # n
    <3> SUFFICES ASSUME NEW y
                 PROVE  y \in Entries(g, d) <=> y \in Entries(f, d) /\ y.name # n
      OBVIOUS
    <3>1. y \in Entries(g, d) <=> \E c \in Held(f, d) : y \in Used(g.blk[c].ents)
      BY <2>13, EntriesAre
    <3>2. y \in Entries(f, d) <=> \E c \in Held(f, d) : y \in Used(f.blk[c].ents)
      BY EntriesAre
    <3>3. y \in Used(g.blk[b].ents) <=> y \in Used(f.blk[b].ents) /\ y.name # n
      BY <2>2, <2>5, <2>7, <2>15
    <3> QED BY <2>2, <2>14, <2>16, <3>1, <3>2, <3>3
  <2>18. NamesOnce(g, d)
    <3>1. \A c \in Held(f, d) : Uniq(g.blk[c].ents)
      BY <2>5, <2>14, <2>15 DEF NamesOnce
    <3>2. \A c \in Held(f, d) : Used(g.blk[c].ents) \subseteq Used(f.blk[c].ents)
      BY <2>5, <2>14, <2>15
    <3> QED BY <2>13, <3>1, <3>2 DEF NamesOnce
  <2>19. \A c \in Blk \ Held(f, d) : g.blk[c] = f.blk[c]
    BY <2>2, <2>11, <2>12
  <2>20. Entries(g, d) = {e \in Entries(f, d) : e.name # n}
    BY <2>17
  <2>21. Removed(f, g, d, n)
    BY <2>12, <2>18, <2>19, <2>20 DEF Removed
  <2>22. DirDel(f, d, n).res = "ok" /\ DirDel(f, d, n).fs = g
    BY <2>3 DEF Ok, Ret
  <2> QED BY <2>21, <2>22
<1> QED BY <1>1, <1>2

-----------------------------------------------------------------------------
(* The inodes of the tree *)

\* The names that mkdir gives to the directory and its parent.
Dots == {".", ".."}

\* What an inode is, and what entries it has.
Modes(f) == [i \in Ino |-> f.ino[i].mode]
Ents(f) == [i \in Ino |-> Entries(f, i)]

\* The directories among the inodes L, which have the modes M.
DirsOf(L, M) == {d \in L : M[d] = "dir"}

\* The blocks of the inodes K are theirs alone.
Owns(f, K) ==
  /\ K \subseteq f.iused
  /\ \A i \in K : Held(f, i) \subseteq f.bused /\ IsInjective(f.ino[i].ext)
  /\ \A i, j \in K : i # j => Held(f, i) \cap Held(f, j) = {}

\* Where the entries E of the inodes L lead: names to inodes of L and of their
\* type, each inode but the root has one name, dots lead to the directory itself
\* and, unless one has moved, to a directory that names it.
Closed(L, M, E) ==
  \A d \in DirsOf(L, M) : \A e \in E[d] :
    e.name \notin Dots => e.ino \in L \ {Root} /\ e.ft = M[e.ino]
\* A name other than the dots is found in one directory, and is the only one of its inode.
OneName(L, M, E) ==
  \A d, c \in DirsOf(L, M) : \A e \in E[d], x \in E[c] :
    e.name \notin Dots /\ x.name \notin Dots /\ e.ino = x.ino => d = c /\ e = x
\* The dots of a directory lead to itself and, unless one has moved, to the directory
\* that names it.
DotsLead(L, M, E, mvd) ==
  \A d \in DirsOf(L, M) : \A e \in E[d] :
    /\ e.name \in Dots => e.ft = "dir"
    /\ e.name = "." => e.ino = d
    /\ e.name = ".." /\ ~mvd =>
         e.ino \in DirsOf(L, M) /\ \E x \in E[e.ino] : x.name \notin Dots /\ x.ino = d
\* They are there in every directory but the root, which mkfs makes without.
DotsThere(L, M, E) ==
  \A d \in DirsOf(L, M) \ {Root} : \A n \in Dots : \E e \in E[d] : e.name = n

\* What the entries of the directories of L make of it: a graph in which every inode but
\* the root is named once.
Graph(L, M, E, mvd) ==
  /\ L \subseteq Ino /\ Root \in DirsOf(L, M)
  /\ Closed(L, M, E) /\ OneName(L, M, E) /\ DotsLead(L, M, E, mvd) /\ DotsThere(L, M, E)

\* The names of other directories among the entries S.
Subs(S) == {e \in S : e.ft = "dir" /\ e.name \notin Dots}
\* The link counts.
Links(f) == [i \in Ino |-> f.ino[i].links]
\* The directories in the group g.
DirsIn(L, M, g) == {i \in DirsOf(L, M) : GroupOfIno(i) = g}

\* The names lead from the root to every inode of L: some inode of every set without
\* the root is named by a directory outside of the set.
Rooted(L, M, E) ==
  \A S \in SUBSET (L \ {Root}) : S # {} =>
    \E i \in S : \E d \in DirsOf(L, M) \ S : \E e \in E[d] : e.ino = i /\ e.name \notin Dots
\* D counts the directories of L, group by group.
CountsDirs(D, L, M) ==
  D \in [Group -> Int] /\ \A g \in Group : D[g] = Cardinality(DirsIn(L, M, g))
\* N counts the links: one of a file and, unless a directory has moved, two of a
\* directory and one more of each directory in it.
CountsLinks(N, L, M, E, mvd) ==
  \A i \in L :
    /\ M[i] = "file" => N[i] = 1
    /\ M[i] = "dir" /\ ~mvd => IsFiniteSet(Subs(E[i])) /\ N[i] = 2 + Cardinality(Subs(E[i]))

\* The names lead from the root to the inodes L of f, and the counts of f count them.
Tally(f, L, mvd) ==
  /\ Rooted(L, Modes(f), Ents(f))
  /\ CountsDirs(f.dirs, L, Modes(f))
  /\ CountsLinks(Links(f), L, Modes(f), Ents(f), mvd)

\* The inodes L form the tree of f.
Good(f, L, mvd) ==
  /\ Owns(f, L)
  /\ \A d \in DirsOf(L, Modes(f)) : NamesOnce(f, d)
  /\ Graph(L, Modes(f), Ents(f), mvd)

\* What a path may lead to.
Places(f, L) == {NoIno} \cup DirsOf(L, Modes(f))

\* The inodes of the tree are inodes, the root is one of them.
LEMMA PlaceFacts ==
  ASSUME NEW f, NEW L, NEW mvd, Good(f, L, mvd)
  PROVE  /\ L \subseteq Ino /\ DirsOf(L, Modes(f)) \subseteq L
         /\ Places(f, L) \subseteq Ino \cup {NoIno} /\ Root \in Places(f, L)
         /\ \A i \in Ino : Modes(f)[i] = f.ino[i].mode /\ Ents(f)[i] = Entries(f, i)
BY DEF Good, Graph, DirsOf, Places, Modes, Ents

\* resolve by one component: it stays within the directories of the tree.
LEMMA EnterFacts ==
  ASSUME NEW f, Sane(f), NEW L, NEW mvd, Good(f, L, mvd), NEW i \in Places(f, L), NEW c,
         mvd => c \notin Dots
  PROVE  Enter(f, i, c) \in Places(f, L)
<1>1. i \in Ino \cup {NoIno} /\ L \subseteq Ino
  BY PlaceFacts
<1>2. PICK e : e = Lookup(f, i, c)
  OBVIOUS
<1>3. \/ e = Free(0)
      \/ i \in Ino /\ e \in Entries(f, i) /\ e.name = c
  BY <1>1, <1>2, LookupFacts
<1>4. Enter(f, i, c) = IF e.ft = "dir" THEN e.ino ELSE NoIno
  BY <1>2 DEF Enter
<1>5. CASE e = Free(0)
  BY <1>4, <1>5 DEF Free, Places
<1>6. CASE i \in Ino /\ e \in Entries(f, i) /\ e.name = c /\ e.ft = "dir"
  <2>1. i \in DirsOf(L, Modes(f)) /\ e \in Ents(f)[i]
    <3>1. i # NoIno BY <1>6, InoFacts
    <3> QED BY <1>6, <3>1, PlaceFacts DEF Places
  <2>2. e.ino \in DirsOf(L, Modes(f))
    <3>1. CASE c \notin Dots
      <4>1. e.ino \in L /\ e.ft = Modes(f)[e.ino]
        BY <1>6, <2>1, <3>1 DEF Good, Graph, Closed
      <4> QED BY <1>6, <4>1 DEF DirsOf
    <3>2. CASE c = "."
      <4>1. e.ino = i BY <1>6, <2>1, <3>2 DEF Good, Graph, DotsLead
      <4> QED BY <2>1, <4>1
    <3>3. CASE c = ".."
      <4>1. ~mvd BY <3>3 DEF Dots
      <4> QED BY <1>6, <2>1, <3>3, <4>1 DEF Good, Graph, DotsLead
    <3> QED BY <3>1, <3>2, <3>3 DEF Dots
  <2> QED BY <1>4, <1>6, <2>2 DEF Places
<1>7. CASE e.ft # "dir"
  BY <1>4, <1>7 DEF Places
<1> QED BY <1>3, <1>5, <1>6, <1>7

\* Paths lead to directories of the tree or nowhere.
LEMMA DescendFacts ==
  ASSUME NEW f, Sane(f), NEW L, NEW mvd, Good(f, L, mvd), NEW d \in Places(f, L),
         NEW comps \in Seq(Names \cup Dots),
         mvd => \A k \in 1 .. Len(comps) : comps[k] \notin Dots
  PROVE  Descend(f, d, comps) \in Places(f, L)
<1> DEFINE N == Len(comps)
           P == Places(f, L)
           Q == [n \in 0 .. N |-> P]
           step == [n \in 1 .. N |-> [i \in P |-> Enter(f, i, comps[n])]]
           Is(h) == h = [k \in 0 .. N |-> IF k = 0 THEN d ELSE Enter(f, h[k - 1], comps[k])]
           dir == CHOOSE h : Is(h)
<1>1. N \in Nat /\ \A n \in 0 .. N : Q[n] = P
  <2>1. N \in Nat OBVIOUS
  <2> HIDE DEF P, N
  <2> QED BY <2>1
<1>2. \A n \in 1 .. N : \A i \in Q[n - 1] :
        step[n][i] = Enter(f, i, comps[n]) /\ step[n][i] \in Q[n]
  <2> SUFFICES ASSUME NEW n \in 1 .. N, NEW i \in Q[n - 1]
               PROVE  step[n][i] = Enter(f, i, comps[n]) /\ step[n][i] \in Q[n]
    OBVIOUS
  <2>1. n - 1 \in 0 .. N /\ n \in 0 .. N BY <1>1
  <2>2. Q[n - 1] = P /\ Q[n] = P BY <1>1, <2>1
  <2>3. i \in P /\ (mvd => comps[n] \notin Dots) BY <2>2
  <2>4. Enter(f, i, comps[n]) \in P BY <2>3, EnterFacts
  <2> HIDE DEF Q, P
  <2>5. step[n][i] = Enter(f, i, comps[n]) BY <2>3
  <2> HIDE DEF step
  <2> QED BY <2>2, <2>4, <2>5
<1> HIDE DEF Q, step, N, P
<1>3. d \in P
  BY DEF P
<1>4. \E h : IsLoop(h, N, d, step) /\ Within(h, N, Q)
  <2>1. N \in Nat /\ d \in Q[0] /\ Leads(N, Q, step)
    <3>1. 0 \in 0 .. N BY <1>1
    <3> QED BY <1>1, <1>2, <1>3, <3>1 DEF Leads
  <2> QED BY ONLY <2>1, LoopWithin
<1>5. PICK h : /\ h = [n \in 0 .. N |-> IF n = 0 THEN d ELSE step[n][h[n - 1]]]
               /\ \A n \in 0 .. N : h[n] \in Q[n]
  BY <1>4 DEF IsLoop, Within
<1>6. Is(h)
  <2>1. \A n \in 0 .. N : n # 0 => n \in 1 .. N /\ n - 1 \in 0 .. N BY <1>1
  <2>2. \A n \in 0 .. N : n # 0 => step[n][h[n - 1]] = Enter(f, h[n - 1], comps[n])
    BY <1>2, <1>5, <2>1
  <2>3. \A n \in 0 .. N : (IF n = 0 THEN d ELSE step[n][h[n - 1]])
                         = (IF n = 0 THEN d ELSE Enter(f, h[n - 1], comps[n]))
    BY <2>2
  <2>4. [n \in 0 .. N |-> IF n = 0 THEN d ELSE step[n][h[n - 1]]]
          = [n \in 0 .. N |-> IF n = 0 THEN d ELSE Enter(f, h[n - 1], comps[n])]
    BY ONLY <2>3
  <2>5. h = [n \in 0 .. N |-> IF n = 0 THEN d ELSE Enter(f, h[n - 1], comps[n])]
    BY <1>5, <2>4
  <2> QED BY <2>5
<1>7. PICK c : c = dir
  OBVIOUS
<1>8. Is(c)
  BY <1>6, <1>7
<1> HIDE DEF dir
<1>9. c[0] = d /\ \A n \in 1 .. N : c[n] = Enter(f, c[n - 1], comps[n])
  <2>1. c = [k \in 0 .. N |-> IF k = 0 THEN d ELSE Enter(f, c[k - 1], comps[k])]
    BY <1>8
  <2>2. 0 \in 0 .. N /\ \A n \in 1 .. N : n \in 0 .. N /\ n # 0 BY <1>1
  <2> HIDE DEF Is
  <2> QED BY <2>1, <2>2
<1>10. \A n \in 0 .. N : c[n] \in Q[n]
  <2>1. N \in Nat /\ c[0] \in Q[0]
    <3>1. 0 \in 0 .. N BY <1>1
    <3> QED BY <1>1, <1>3, <1>9, <3>1
  <2>2. \A n \in 1 .. N : c[n - 1] \in Q[n - 1] => c[n] \in Q[n]
    BY <1>2, <1>9
  <2> QED BY ONLY <2>1, <2>2, LoopStays
<1>11. c[N] \in P
  <2>1. N \in 0 .. N BY <1>1
  <2> QED BY <1>1, <1>10, <2>1
<1>12. Descend(f, d, comps) = c[N]
  BY <1>7 DEF Descend, dir, N
<1> QED BY <1>11, <1>12 DEF P

\* The components of a path, and all but the last.
LEMMA PathFacts ==
  ASSUME NEW p \in Paths
  PROVE  /\ p.comps \in Seq(Names \cup Dots) /\ Len(p.comps) > 0
         /\ Front(p.comps) \in Seq(Names \cup Dots)
         /\ Leaf(p) \in Names \cup Dots
         /\ ~Dotted(p) => Leaf(p) \notin Dots
         /\ ~Dotted(p) => \A k \in 1 .. Len(Front(p.comps)) : Front(p.comps)[k] \notin Dots
<1>1. PICK c : c = p.comps
  OBVIOUS
<1>2. c \in Seq(Names \cup Dots) /\ c # << >>
  BY <1>1, FsConstants DEF Dots
<1>3. Len(c) \in Nat /\ Len(c) > 0 /\ DOMAIN c = 1 .. Len(c)
  BY <1>2
<1>4. /\ Front(c) \in Seq(Names \cup Dots) /\ Len(Front(c)) = Len(c) - 1
      /\ \A k \in 1 .. Len(c) - 1 : Front(c)[k] = c[k]
  <2>1. Front(c) = SubSeq(c, 1, Len(c) - 1) BY DEF Front
  <2>2. /\ SubSeq(c, 1, Len(c) - 1) \in Seq(Names \cup Dots)
        /\ Len(SubSeq(c, 1, Len(c) - 1)) = Len(c) - 1
        /\ \A k \in 1 .. Len(c) - 1 : SubSeq(c, 1, Len(c) - 1)[k] = c[k]
    BY <1>2, <1>3
  <2> QED BY <2>1, <2>2
<1>5. Last(c) = c[Len(c)] /\ Last(c) \in Names \cup Dots /\ Len(c) \in 1 .. Len(c)
  BY <1>2, <1>3 DEF Last
<1>6. Dotted(p) <=> Dots \cap ToSet(c) # {}
  BY <1>1 DEF Dotted, Dots
<1>7. \A k \in 1 .. Len(c) : c[k] \in ToSet(c)
  BY <1>3 DEF ToSet
<1>8. ~Dotted(p) => \A k \in 1 .. Len(c) : c[k] \notin Dots
  BY <1>6, <1>7
<1>9. ~Dotted(p) => \A k \in 1 .. Len(Front(c)) : Front(c)[k] \notin Dots
  BY <1>3, <1>4, <1>8
<1> QED BY <1>1, <1>2, <1>3, <1>4, <1>5, <1>8, <1>9 DEF Leaf

\* The parent that a command works in is a directory of the tree or not there.
LEMMA ParentFacts ==
  ASSUME NEW f, Sane(f), NEW L, NEW mvd, Good(f, L, mvd), NEW p \in Paths,
         mvd => ~Dotted(p), cwd \in Seq(Names)
  PROVE  ParentOf(f, p) \in Places(f, L)
<1>1. CwdIno(f) \in Places(f, L)
  <2>1. cwd \in Seq(Names \cup Dots) /\ \A k \in 1 .. Len(cwd) : cwd[k] \notin Dots
    <3>1. \A k \in 1 .. Len(cwd) : cwd[k] \in Names OBVIOUS
    <3>2. Names \cap Dots = {} BY FsConstants DEF Dots
    <3> QED BY <3>1, <3>2
  <2>2. Root \in Places(f, L) BY PlaceFacts
  <2>3. Descend(f, Root, cwd) \in Places(f, L)
    BY <2>1, <2>2, DescendFacts
  <2> QED BY <2>3 DEF CwdIno
<1>2. Root \in Places(f, L)
  BY PlaceFacts
<1>3. PICK d : d = IF p.abs /\ Front(p.comps) # << >> THEN Root ELSE CwdIno(f)
  OBVIOUS
<1>4. d \in Places(f, L)
  BY <1>1, <1>2, <1>3
<1>5. Descend(f, d, Front(p.comps)) \in Places(f, L)
  BY <1>4, PathFacts, DescendFacts
<1> QED BY <1>3, <1>5 DEF ParentOf

-----------------------------------------------------------------------------
(* One change of the tree *)

\* Only the modes of L and the entries of its directories matter.
LEMMA GraphSame ==
  ASSUME NEW L, NEW M, NEW E, NEW mvd, Graph(L, M, E, mvd), NEW M2, NEW E2,
         \A j \in L : M2[j] = M[j], \A j \in DirsOf(L, M) : E2[j] = E[j]
  PROVE  Graph(L, M2, E2, mvd)
<1>1. DirsOf(L, M2) = DirsOf(L, M) /\ DirsOf(L, M) \subseteq L
  BY DEF DirsOf
<1>2. Closed(L, M2, E2)
  BY <1>1 DEF Graph, Closed
<1>3. OneName(L, M2, E2)
  BY <1>1 DEF Graph, OneName
<1>4. DotsLead(L, M2, E2, mvd)
  BY <1>1 DEF Graph, DotsLead
<1>5. DotsThere(L, M2, E2)
  BY <1>1 DEF Graph, DotsThere
<1> QED BY <1>1, <1>2, <1>3, <1>4, <1>5 DEF Graph

\* The entries S of an empty directory i in the directory d.
OnlyDots(S, i, d) ==
  /\ \A x \in S : /\ x.name \in Dots /\ x.ft = "dir"
                  /\ x.name = "." => x.ino = i
                  /\ x.name = ".." => x.ino = d
  /\ \A n \in Dots : \E x \in S : x.name = n

\* A new inode i gets an entry in the directory d.
LEMMA GraphAdd ==
  ASSUME NEW L, NEW M, NEW E, NEW mvd, Graph(L, M, E, mvd), NEW i \in Ino \ L,
         NEW d \in DirsOf(L, M), NEW e, e.ino = i, e.name \notin Dots, NEW M2, NEW E2,
         \A j \in L : M2[j] = M[j], \A j \in L \ {d} : E2[j] = E[j],
         E2[d] = E[d] \cup {e}, e.ft = M2[i],
         M2[i] = "dir" => OnlyDots(E2[i], i, d)
  PROVE  Graph(L \cup {i}, M2, E2, mvd)
<1> DEFINE L2 == L \cup {i}
           D == DirsOf(L, M)
           D2 == DirsOf(L2, M2)
<1>1. /\ D \subseteq L /\ D \subseteq D2 /\ Root \in D
      /\ \A c \in D2 : c \in D \/ (c = i /\ M2[i] = "dir")
  BY DEF DirsOf, Graph
<1>2. \A c \in D : \A x \in E2[c] : x \in E[c] \/ (c = d /\ x = e)
  BY <1>1
<1>3. \A c \in D : \A x \in E[c] : x \in E2[c]
  BY <1>1
<1> HIDE DEF D, D2
<1>4. Closed(L2, M2, E2)
  <2> SUFFICES ASSUME NEW c \in D2, NEW x \in E2[c], x.name \notin Dots
               PROVE  x.ino \in L2 \ {Root} /\ x.ft = M2[x.ino]
    BY DEF Closed, D2
  <2>1. c \in D
    BY <1>1 DEF OnlyDots
  <2>2. CASE x \in E[c]
    BY <2>1, <2>2 DEF Graph, Closed, D
  <2>3. CASE x = e
    BY <1>1, <2>3
  <2> QED BY <1>2, <2>1, <2>2, <2>3
<1>5. ASSUME NEW b \in D2, NEW c \in D2, NEW x \in E2[b], NEW y \in E2[c],
             x.name \notin Dots, y.name \notin Dots, x.ino = y.ino
      PROVE  b = c /\ x = y
  <2>1. b \in D /\ c \in D
    BY <1>1, <1>5 DEF OnlyDots
  <2>2. \A a \in D : \A z \in E[a] : z.name \notin Dots => z.ino # i
    BY DEF Graph, Closed, D
  <2>3. CASE x \in E[b] /\ y \in E[c]
    BY <1>5, <2>1, <2>3 DEF Graph, OneName, D
  <2>4. CASE ~(x \in E[b] /\ y \in E[c])
    BY <1>2, <1>5, <2>1, <2>2, <2>4
  <2> QED BY <2>3, <2>4
<1>6. DotsLead(L2, M2, E2, mvd)
  <2> SUFFICES ASSUME NEW c \in D2, NEW x \in E2[c]
               PROVE  /\ x.name \in Dots => x.ft = "dir"
                      /\ x.name = "." => x.ino = c
                      /\ x.name = ".." /\ ~mvd =>
                           x.ino \in D2 /\ \E y \in E2[x.ino] : y.name \notin Dots /\ y.ino = c
    BY DEF DotsLead, D2
  <2>1. CASE c \in D /\ x \in E[c]
    <3>1. /\ x.name \in Dots => x.ft = "dir"
          /\ x.name = "." => x.ino = c
          /\ x.name = ".." /\ ~mvd =>
               x.ino \in D /\ \E y \in E[x.ino] : y.name \notin Dots /\ y.ino = c
      BY <2>1 DEF Graph, DotsLead, D
    <3> QED BY <1>1, <1>3, <3>1
  <2>2. CASE c = d /\ x = e
    BY <2>2 DEF Dots
  <2>3. CASE c = i /\ M2[i] = "dir"
    <3>1. x.name = ".." => x.ino = d /\ d \in D2
      BY <1>1, <2>3 DEF D, OnlyDots
    <3>2. e \in E2[d] OBVIOUS
    <3> QED BY <2>3, <3>1, <3>2 DEF OnlyDots
  <2> QED BY <1>1, <1>2, <2>1, <2>2, <2>3
<1>7. DotsThere(L2, M2, E2)
  <2> SUFFICES ASSUME NEW c \in D2 \ {Root}, NEW n \in Dots PROVE \E x \in E2[c] : x.name = n
    BY DEF DotsThere, D2
  <2>1. CASE c \in D
    BY <1>3, <2>1 DEF Graph, DotsThere, D
  <2>2. CASE c = i /\ M2[i] = "dir"
    BY <2>2 DEF OnlyDots
  <2> QED BY <1>1, <2>1, <2>2
<1>8. L2 \subseteq Ino /\ Root \in D2
  BY <1>1 DEF Graph
<1>9. OneName(L2, M2, E2)
  <2>1. \A b, c \in D2 : \A x \in E2[b], y \in E2[c] :
          x.name \notin Dots /\ y.name \notin Dots /\ x.ino = y.ino => b = c /\ x = y
    BY ONLY <1>5
  <2> QED BY ONLY <2>1 DEF OneName, D2
<1> QED BY <1>4, <1>6, <1>7, <1>8, <1>9 DEF Graph, D2

\* The entry e goes, and the inode i it leads to, a file or an empty directory.
LEMMA GraphRemove ==
  ASSUME NEW L, NEW M, NEW E, NEW mvd, Graph(L, M, E, mvd),
         NEW d \in DirsOf(L, M), NEW e \in E[d], e.name \notin Dots, NEW i, i = e.ino,
         M[i] = "dir" => \A x \in E[i] : x.name \in Dots,
         NEW M2, NEW E2, \A j \in L : M2[j] = M[j],
         \A j \in L \ {i, d} : E2[j] = E[j], E2[d] = E[d] \ {e}
  PROVE  Graph(L \ {i}, M2, E2, mvd) /\ i \in L \ {Root, d}
<1> DEFINE L2 == L \ {i}
           D == DirsOf(L, M)
           D2 == DirsOf(L2, M2)
<1>1. i \in L \ {Root, d} /\ e.ft = M[i]
  <2>1. i \in L \ {Root} /\ e.ft = M[i] BY DEF Graph, Closed
  <2>2. M[d] = "dir" BY DEF DirsOf
  <2> QED BY <2>1, <2>2
<1>2. D \subseteq L /\ D2 = D \ {i} /\ Root \in D
  BY DEF DirsOf, Graph
<1>3. d \in D2
  BY <1>1, <1>2
<1>4. \A c \in D2 : \A x : x \in E2[c] <=> x \in E[c] /\ ~(c = d /\ x = e)
  BY <1>2
<1>5. \A c \in D2 : \A x \in E[c] : x.name \notin Dots /\ x.ino = i => c = d /\ x = e
  BY <1>2 DEF Graph, OneName
<1>6. i \in D => \A x \in E[i] : x.name \in Dots
  BY DEF DirsOf
<1> HIDE DEF D, D2
<1>7. Closed(L2, M2, E2)
  <2> SUFFICES ASSUME NEW c \in D2, NEW x \in E2[c], x.name \notin Dots
               PROVE  x.ino \in L2 \ {Root} /\ x.ft = M2[x.ino]
    BY DEF Closed, D2
  <2>1. c \in D /\ x \in E[c] /\ x.ino # i
    BY <1>2, <1>4, <1>5
  <2>2. x.ino \in L \ {Root} /\ x.ft = M[x.ino]
    BY <2>1 DEF Graph, Closed, D
  <2> QED BY <2>1, <2>2
<1>8. OneName(L2, M2, E2)
  <2> SUFFICES ASSUME NEW b \in D2, NEW c \in D2, NEW x \in E2[b], NEW y \in E2[c],
                      x.name \notin Dots, y.name \notin Dots, x.ino = y.ino
               PROVE  b = c /\ x = y
    BY DEF OneName, D2
  <2>1. b \in D /\ c \in D /\ x \in E[b] /\ y \in E[c]
    BY <1>2, <1>4
  <2> QED BY <2>1 DEF Graph, OneName, D
<1>9. DotsLead(L2, M2, E2, mvd)
  <2> SUFFICES ASSUME NEW c \in D2, NEW x \in E2[c]
               PROVE  /\ x.name \in Dots => x.ft = "dir"
                      /\ x.name = "." => x.ino = c
                      /\ x.name = ".." /\ ~mvd =>
                           x.ino \in D2 /\ \E y \in E2[x.ino] : y.name \notin Dots /\ y.ino = c
    BY DEF DotsLead, D2
  <2>1. c \in D /\ c # i /\ x \in E[c]
    BY <1>2, <1>4
  <2>2. /\ x.name \in Dots => x.ft = "dir"
        /\ x.name = "." => x.ino = c
        /\ x.name = ".." /\ ~mvd =>
             x.ino \in D /\ \E y \in E[x.ino] : y.name \notin Dots /\ y.ino = c
    BY <2>1 DEF Graph, DotsLead, D
  <2>3. ASSUME x.name = "..", ~mvd
        PROVE  x.ino \in D2 /\ \E y \in E2[x.ino] : y.name \notin Dots /\ y.ino = c
    <3>1. PICK y \in E[x.ino] : y.name \notin Dots /\ y.ino = c
      BY <2>2, <2>3
    <3>2. x.ino \in D /\ x.ino # i
      BY <1>6, <2>2, <2>3, <3>1
    <3>3. x.ino \in D2 BY <1>2, <3>2
    <3>4. y # e BY <2>1, <3>1
    <3>5. y \in E2[x.ino] BY <1>4, <3>3, <3>4
    <3> QED BY <3>1, <3>3, <3>5
  <2> QED BY <2>2, <2>3
<1>10. DotsThere(L2, M2, E2)
  <2> SUFFICES ASSUME NEW c \in D2 \ {Root}, NEW n \in Dots PROVE \E x \in E2[c] : x.name = n
    BY DEF DotsThere, D2
  <2>1. PICK x \in E[c] : x.name = n
    BY <1>2 DEF Graph, DotsThere, D
  <2>2. x \in E2[c] BY <1>4, <2>1
  <2> QED BY <2>1, <2>2
<1>11. L2 \subseteq Ino /\ Root \in D2
  BY <1>1, <1>2 DEF Graph
<1> QED BY <1>1, <1>7, <1>8, <1>9, <1>10, <1>11 DEF Graph, D2

\* The entry e of the directory d becomes the entry x of the directory t.
LEMMA GraphMove ==
  ASSUME NEW L, NEW M, NEW E, NEW mvd, Graph(L, M, E, mvd),
         NEW d \in DirsOf(L, M), NEW t \in DirsOf(L, M), NEW e \in E[d], e.name \notin Dots,
         NEW z, z.ino = e.ino, z.ft = e.ft, z.name \notin Dots,
         NEW M2, NEW E2, \A j \in L : M2[j] = M[j],
         \A j \in L : \A x : x \in E2[j] <=>
           (x \in E[j] /\ ~(j = d /\ x = e)) \/ (j = t /\ x = z)
  PROVE  Graph(L, M2, E2, mvd \/ (e.ft = "dir" /\ d # t))
<1> DEFINE D == DirsOf(L, M)
           D2 == DirsOf(L, M2)
<1>1. D \subseteq L /\ D2 = D /\ Root \in D /\ d \in D /\ t \in D
  BY DEF DirsOf, Graph
<1>2. e.ino \in L \ {Root} /\ e.ft = M[e.ino]
  BY DEF Graph, Closed
<1>3. \A c \in D : \A x : x \in E2[c] <=> (x \in E[c] /\ ~(c = d /\ x = e)) \/ (c = t /\ x = z)
  BY <1>1
<1>4. \A c \in D : \A x \in E[c] : x.name \notin Dots /\ x.ino = e.ino => c = d /\ x = e
  BY DEF Graph, OneName
<1> HIDE DEF D, D2
<1>5. Closed(L, M2, E2)
  <2> SUFFICES ASSUME NEW c \in D, NEW x \in E2[c], x.name \notin Dots
               PROVE  x.ino \in L \ {Root} /\ x.ft = M2[x.ino]
    BY <1>1 DEF Closed, D2
  <2>1. CASE x \in E[c]
    <3>1. x.ino \in L \ {Root} /\ x.ft = M[x.ino]
      BY <2>1 DEF Graph, Closed, D
    <3> QED BY <3>1
  <2>2. CASE x = z
    BY <1>2, <2>2
  <2> QED BY <1>3, <2>1, <2>2
<1>6. OneName(L, M2, E2)
  <2> SUFFICES ASSUME NEW b \in D, NEW c \in D, NEW x \in E2[b], NEW y \in E2[c],
                      x.name \notin Dots, y.name \notin Dots, x.ino = y.ino
               PROVE  b = c /\ x = y
    BY <1>1 DEF OneName, D2
  <2>1. CASE x.ino # e.ino
    <3>1. x \in E[b] /\ y \in E[c]
      BY <1>3, <2>1
    <3> QED BY <3>1 DEF Graph, OneName, D
  <2>2. CASE x.ino = e.ino
    <3>1. \A a \in D : \A y2 \in E2[a] : y2.name \notin Dots /\ y2.ino = e.ino => a = t /\ y2 = z
      BY <1>3, <1>4
    <3> QED BY <2>2, <3>1
  <2> QED BY <2>1, <2>2
<1>7. DotsLead(L, M2, E2, mvd \/ (e.ft = "dir" /\ d # t))
  <2> SUFFICES ASSUME NEW c \in D, NEW x \in E2[c]
               PROVE  /\ x.name \in Dots => x.ft = "dir"
                      /\ x.name = "." => x.ino = c
                      /\ x.name = ".." /\ ~(mvd \/ (e.ft = "dir" /\ d # t)) =>
                           x.ino \in D /\ \E y \in E2[x.ino] : y.name \notin Dots /\ y.ino = c
    BY <1>1 DEF DotsLead, D2
  <2>1. CASE x = z
    BY <2>1 DEF Dots
  <2>2. CASE x \in E[c]
    <3>2. /\ x.name \in Dots => x.ft = "dir"
          /\ x.name = "." => x.ino = c
          /\ x.name = ".." /\ ~mvd =>
               x.ino \in D /\ \E y \in E[x.ino] : y.name \notin Dots /\ y.ino = c
      BY <2>2 DEF Graph, DotsLead, D
    <3>3. ASSUME x.name = "..", ~mvd, ~(e.ft = "dir" /\ d # t)
          PROVE  x.ino \in D /\ \E y \in E2[x.ino] : y.name \notin Dots /\ y.ino = c
      <4>1. PICK y \in E[x.ino] : y.name \notin Dots /\ y.ino = c
        BY <3>2, <3>3
      <4>2. x.ino \in D BY <3>2, <3>3
      <4>3. CASE c # e.ino
        <5>1. y \in E2[x.ino] BY <1>3, <4>1, <4>2, <4>3
        <5> QED BY <4>1, <4>2, <5>1
      <4>4. CASE c = e.ino
        <5>1. M[c] = "dir" BY DEF D, DirsOf
        <5>2. d = t BY <1>2, <3>3, <4>4, <5>1
        <5>3. x.ino = d BY <1>4, <4>1, <4>2, <4>4
        <5>4. z \in E2[x.ino] BY <1>1, <1>3, <5>2, <5>3
        <5> QED BY <4>2, <4>4, <5>4
      <4> QED BY <4>3, <4>4
    <3> QED BY <3>2, <3>3
  <2> QED BY <1>3, <2>1, <2>2
<1>8. DotsThere(L, M2, E2)
  <2> SUFFICES ASSUME NEW c \in D \ {Root}, NEW n \in Dots PROVE \E x \in E2[c] : x.name = n
    BY <1>1 DEF DotsThere, D2
  <2>1. PICK x \in E[c] : x.name = n
    BY DEF Graph, DotsThere, D
  <2>2. x \in E2[c] BY <1>3, <2>1
  <2> QED BY <2>1, <2>2
<1> QED BY <1>1, <1>5, <1>6, <1>7, <1>8 DEF Graph, D2

-----------------------------------------------------------------------------
(* One change of the tree, and the counts *)

\* The directory d gets the entry e of the new inode i.
Gets(L, M, E, M2, E2, d, i, e) ==
  /\ i \in Ino \ L /\ d \in DirsOf(L, M)
  /\ e.ino = i /\ e.name \notin Dots /\ e.ft = M2[i] /\ e \notin E[d]
  /\ \A j \in L : M2[j] = M[j]
  /\ \A j \in L \ {d} : E2[j] = E[j]
  /\ E2[d] = E[d] \cup {e}
  /\ M2[i] = "dir" => OnlyDots(E2[i], i, d)

\* The directory d loses the entry e of the inode i, a file or an empty directory.
Loses(L, M, E, M2, E2, d, i, e) ==
  /\ d \in DirsOf(L, M) /\ i \in L \ {Root, d} /\ e \in E[d]
  /\ e.ino = i /\ e.name \notin Dots /\ e.ft = M[i]
  /\ M[i] = "dir" => \A x \in E[i] : x.name \in Dots
  /\ \A j \in L \ {i} : M2[j] = M[j]
  /\ \A j \in L \ {i, d} : E2[j] = E[j]
  /\ E2[d] = E[d] \ {e}

\* The entry e of the directory d becomes the entry z of the directory t.
Moves(L, M, E, M2, E2, d, t, e, z) ==
  /\ d \in DirsOf(L, M) /\ t \in DirsOf(L, M) /\ e \in E[d] /\ z \notin E[t]
  /\ e.name \notin Dots /\ z.ino = e.ino /\ z.ft = e.ft /\ z.name \notin Dots
  /\ \A j \in L : M2[j] = M[j]
  /\ \A j \in L : \A x : x \in E2[j] <=>
       (x \in E[j] /\ ~(j = d /\ x = e)) \/ (j = t /\ x = z)

\* Nothing of the tree changes.
Stays(L, M, E, M2, E2) == \A j \in L : M2[j] = M[j] /\ E2[j] = E[j]
\* Nor if the blocks of a file do.
TreeStays(L, M, E, M2, E2) ==
  \A j \in L : M2[j] = M[j] /\ (M[j] = "dir" => E2[j] = E[j])

\* A tree that stays is as good as before.
LEMMA TallyStays ==
  ASSUME NEW L, NEW M, NEW E, NEW M2, NEW E2, TreeStays(L, M, E, M2, E2), NEW D, NEW N, NEW mvd,
         NEW N2, \A j \in L : N2[j] = N[j]
  PROVE  /\ Rooted(L, M, E) => Rooted(L, M2, E2)
         /\ CountsDirs(D, L, M) => CountsDirs(D, L, M2)
         /\ CountsLinks(N, L, M, E, mvd) => CountsLinks(N2, L, M2, E2, mvd)
<1>1. DirsOf(L, M2) = DirsOf(L, M) /\ DirsOf(L, M) \subseteq L
  BY DEF DirsOf, TreeStays
<1>2. Rooted(L, M, E) => Rooted(L, M2, E2)
  <2>1. \A c \in DirsOf(L, M) : E2[c] = E[c] BY <1>1 DEF TreeStays, DirsOf
  <2> QED BY <1>1, <2>1 DEF Rooted
<1>3. CountsDirs(D, L, M) => CountsDirs(D, L, M2)
  BY <1>1 DEF CountsDirs, DirsIn
<1>4. CountsLinks(N, L, M, E, mvd) => CountsLinks(N2, L, M2, E2, mvd)
  BY DEF CountsLinks, TreeStays
<1> QED BY <1>2, <1>3, <1>4

\* A new inode is reached by its entry.
LEMMA RootedAdd ==
  ASSUME NEW L, NEW M, NEW E, Rooted(L, M, E), NEW M2, NEW E2, NEW d, NEW i, NEW e,
         Gets(L, M, E, M2, E2, d, i, e)
  PROVE  Rooted(L \cup {i}, M2, E2)
<1>1. /\ DirsOf(L, M) \subseteq L /\ DirsOf(L, M) \subseteq DirsOf(L \cup {i}, M2)
      /\ d \in DirsOf(L, M) /\ i \notin L
      /\ \A c \in DirsOf(L, M) : \A x \in E[c] : x \in E2[c]
      /\ e \in E2[d] /\ e.ino = i /\ e.name \notin Dots
  BY DEF Gets, DirsOf
<1> SUFFICES ASSUME NEW S \in SUBSET ((L \cup {i}) \ {Root}), S # {}
             PROVE  \E j \in S : \E c \in DirsOf(L \cup {i}, M2) \ S : \E x \in E2[c] :
                      x.ino = j /\ x.name \notin Dots
  BY DEF Rooted
<1>2. CASE S \ {i} = {}
  <2>1. i \in S /\ d \in DirsOf(L \cup {i}, M2) \ S BY <1>1, <1>2
  <2> QED BY <1>1, <2>1
<1>3. CASE S \ {i} # {}
  <2>1. S \ {i} \in SUBSET (L \ {Root}) OBVIOUS
  <2>2. PICK j \in S \ {i} : \E c \in DirsOf(L, M) \ (S \ {i}) : \E x \in E[c] :
          x.ino = j /\ x.name \notin Dots
    BY <1>3, <2>1 DEF Rooted
  <2>3. PICK c \in DirsOf(L, M) \ (S \ {i}) : \E x \in E[c] : x.ino = j /\ x.name \notin Dots
    BY <2>2
  <2>4. c \in DirsOf(L \cup {i}, M2) \ S BY <1>1, <2>3
  <2> QED BY <1>1, <2>2, <2>3, <2>4
<1> QED BY <1>2, <1>3

\* What is left is reached without an inode that leads nowhere.
LEMMA RootedRemove ==
  ASSUME NEW L, NEW M, NEW E, Rooted(L, M, E), NEW M2, NEW E2, NEW d, NEW i, NEW e,
         Loses(L, M, E, M2, E2, d, i, e)
  PROVE  Rooted(L \ {i}, M2, E2)
<1>1. DirsOf(L, M) \subseteq L /\ DirsOf(L \ {i}, M2) = DirsOf(L, M) \ {i}
  BY DEF Loses, DirsOf
<1>2. /\ \A c \in DirsOf(L, M) \ {i} : \A x \in E[c] : x.ino # i => x \in E2[c]
      /\ i \in DirsOf(L, M) => \A x \in E[i] : x.name \in Dots
  BY <1>1 DEF Loses, DirsOf
<1> SUFFICES ASSUME NEW S \in SUBSET ((L \ {i}) \ {Root}), S # {}
             PROVE  \E j \in S : \E c \in DirsOf(L \ {i}, M2) \ S : \E x \in E2[c] :
                      x.ino = j /\ x.name \notin Dots
  BY DEF Rooted
<1>3. S \in SUBSET (L \ {Root}) /\ i \notin S
  OBVIOUS
<1>4. PICK j \in S : \E c \in DirsOf(L, M) \ S : \E x \in E[c] : x.ino = j /\ x.name \notin Dots
  BY <1>3 DEF Rooted
<1>5. PICK c \in DirsOf(L, M) \ S : \E x \in E[c] : x.ino = j /\ x.name \notin Dots
  BY <1>4
<1>6. PICK x \in E[c] : x.ino = j /\ x.name \notin Dots
  BY <1>5
<1>7. c # i /\ x.ino # i
  BY <1>2, <1>3, <1>5, <1>6
<1>8. x \in E2[c] /\ c \in DirsOf(L \ {i}, M2) \ S
  BY <1>1, <1>2, <1>5, <1>7
<1> QED BY <1>4, <1>6, <1>8

\* The directories A are above t: whoever names one of them is one of them.
Upward(A, L, M, E, t) ==
  /\ t \in A
  /\ \A c \in DirsOf(L, M) : \A x \in E[c] : x.name \notin Dots /\ x.ino \in A => c \in A

\* A directory that does not go below itself takes all with it that is reached over it.
LEMMA RootedMove ==
  ASSUME NEW L, NEW M, NEW E, Rooted(L, M, E), NEW M2, NEW E2, NEW d, NEW t, NEW e, NEW z,
         Moves(L, M, E, M2, E2, d, t, e, z), NEW A, Upward(A, L, M, E, t), e.ino \notin A
  PROVE  Rooted(L, M2, E2)
<1>1. DirsOf(L, M) \subseteq L /\ DirsOf(L, M2) = DirsOf(L, M)
  BY DEF Moves, DirsOf
<1>2. /\ \A c \in DirsOf(L, M) : \A x \in E[c] : x.ino # e.ino => x \in E2[c]
      /\ t \in DirsOf(L, M) /\ z \in E2[t] /\ z.ino = e.ino /\ z.name \notin Dots
  BY <1>1 DEF Moves
<1> SUFFICES ASSUME NEW S \in SUBSET (L \ {Root}), S # {}
             PROVE  \E j \in S : \E c \in DirsOf(L, M) \ S : \E x \in E2[c] :
                      x.ino = j /\ x.name \notin Dots
  BY <1>1 DEF Rooted
<1>3. CASE e.ino \notin S
  <2>1. PICK j \in S : \E c \in DirsOf(L, M) \ S : \E x \in E[c] : x.ino = j /\ x.name \notin Dots
    BY DEF Rooted
  <2> QED BY <1>2, <1>3, <2>1
<1>4. CASE e.ino \in S /\ S \cap A = {}
  <2>1. t \notin S BY <1>4 DEF Upward
  <2> QED BY <1>2, <1>4, <2>1
<1>5. CASE S \cap A # {}
  <2>1. S \cap A \in SUBSET (L \ {Root}) OBVIOUS
  <2>2. PICK j \in S \cap A : \E c \in DirsOf(L, M) \ (S \cap A) : \E x \in E[c] :
          x.ino = j /\ x.name \notin Dots
    BY <1>5, <2>1 DEF Rooted
  <2>3. PICK c \in DirsOf(L, M) \ (S \cap A) : \E x \in E[c] : x.ino = j /\ x.name \notin Dots
    BY <2>2
  <2>4. c \in A BY <2>2, <2>3 DEF Upward
  <2>5. c \in DirsOf(L, M) \ S BY <2>3, <2>4
  <2>6. j # e.ino BY <2>2
  <2> QED BY <1>2, <2>2, <2>3, <2>5, <2>6
<1> QED BY <1>3, <1>4, <1>5

\* The counts when d gets a new inode i of type ft.
NodeCounted(D, N, D2, N2, L, d, i, ft) ==
  /\ \A j \in L \ {d} : N2[j] = N[j]
  /\ ft = "file" => N2[i] = 1 /\ N2[d] = N[d] /\ D2 = D
  /\ ft = "dir" => N2[i] = 2 /\ N2[d] = N[d] + 1
                   /\ D2 = [D EXCEPT ![GroupOfIno(i)] = Max({@ + 1, 0})]

\* The counts when d loses the inode i of type ft.
NodeUncounted(D, N, D2, N2, L, d, i, ft) ==
  /\ \A j \in L \ {i, d} : N2[j] = N[j]
  /\ ft = "file" => N2[d] = N[d] /\ D2 = D
  /\ ft = "dir" => N2[d] = Max({N[d] - 1, 0})
                   /\ D2 = [D EXCEPT ![GroupOfIno(i)] = Max({@ - 1, 0})]

\* One more of a group, or of none.
LEMMA DirsInMore ==
  ASSUME NEW L \in SUBSET Ino, NEW M, NEW M2, NEW i \in Ino \ L, \A j \in L : M2[j] = M[j],
         NEW g \in Group
  PROVE  /\ IsFiniteSet(DirsIn(L, M, g)) /\ Cardinality(DirsIn(L, M, g)) \in Nat
         /\ Cardinality(DirsIn(L \cup {i}, M2, g)) =
              IF M2[i] = "dir" /\ GroupOfIno(i) = g
              THEN Cardinality(DirsIn(L, M, g)) + 1 ELSE Cardinality(DirsIn(L, M, g))
<1>1. IsFiniteSet(DirsIn(L, M, g)) /\ Cardinality(DirsIn(L, M, g)) \in Nat
  <2>1. DirsIn(L, M, g) \in SUBSET Ino BY DEF DirsIn, DirsOf
  <2>2. IsFiniteSet(DirsIn(L, M, g)) BY <2>1, InoFacts, FS_Subset
  <2> QED BY <2>2, FS_CardinalityType
<1>2. i \notin DirsIn(L, M, g)
  BY DEF DirsIn, DirsOf
<1>3. CASE M2[i] = "dir" /\ GroupOfIno(i) = g
  <2>1. DirsIn(L \cup {i}, M2, g) = DirsIn(L, M, g) \cup {i} BY <1>3 DEF DirsIn, DirsOf
  <2> QED BY <1>1, <1>2, <1>3, <2>1, FS_AddElement
<1>4. CASE ~(M2[i] = "dir" /\ GroupOfIno(i) = g)
  <2>1. DirsIn(L \cup {i}, M2, g) = DirsIn(L, M, g) BY <1>4 DEF DirsIn, DirsOf
  <2> QED BY <1>1, <1>4, <2>1
<1> QED BY <1>3, <1>4

\* A new inode is counted in its group if it is a directory.
LEMMA CountsDirsAdd ==
  ASSUME NEW L \in SUBSET Ino, NEW M, NEW E, NEW M2, NEW E2, NEW d, NEW i, NEW e,
         Gets(L, M, E, M2, E2, d, i, e), M2[i] \in {"dir", "file"}, NEW D, NEW N, NEW D2, NEW N2,
         CountsDirs(D, L, M), NodeCounted(D, N, D2, N2, L, d, i, M2[i])
  PROVE  CountsDirs(D2, L \cup {i}, M2)
<1>1. i \in Ino \ L /\ \A j \in L : M2[j] = M[j]
  BY DEF Gets
<1>2. GroupOfIno(i) \in Group
  BY <1>1, InoFacts
<1>3. D \in [Group -> Int] /\ \A g \in Group : D[g] = Cardinality(DirsIn(L, M, g))
  BY DEF CountsDirs
<1>4. ASSUME NEW g \in Group
      PROVE  /\ D[g] \in Nat
             /\ Cardinality(DirsIn(L \cup {i}, M2, g)) =
                  IF M2[i] = "dir" /\ GroupOfIno(i) = g THEN D[g] + 1 ELSE D[g]
  BY <1>1, <1>3, DirsInMore
<1>5. CASE M2[i] = "file"
  BY <1>3, <1>4, <1>5 DEF NodeCounted, CountsDirs
<1>6. CASE M2[i] = "dir"
  <2>1. PICK k : k = GroupOfIno(i) OBVIOUS
  <2>2. D[k] \in Nat /\ k \in Group BY <1>2, <1>4, <2>1
  <2>3. PICK n \in Int : n = D[k] + 1 BY <2>2
  <2>4. Max({n, 0}) = n BY <2>2, <2>3, MaxZero
  <2>5. D2 = [D EXCEPT ![k] = n] BY <1>3, <1>6, <2>1, <2>2, <2>3, <2>4 DEF NodeCounted
  <2>6. D2 \in [Group -> Int] BY <1>3, <2>2, <2>5
  <2>7. \A g \in Group : D2[g] = IF k = g THEN D[g] + 1 ELSE D[g] BY <1>3, <2>2, <2>3, <2>5
  <2>8. \A g \in Group : D2[g] = Cardinality(DirsIn(L \cup {i}, M2, g))
    BY ONLY <1>4, <1>6, <2>1, <2>7
  <2> QED BY <2>6, <2>8 DEF CountsDirs
<1> QED BY <1>5, <1>6

\* A directory that goes is no longer counted.
LEMMA CountsDirsRemove ==
  ASSUME NEW L \in SUBSET Ino, NEW M, NEW E, NEW M2, NEW E2, NEW d, NEW i, NEW e,
         Loses(L, M, E, M2, E2, d, i, e), M[i] \in {"dir", "file"}, NEW D, NEW N, NEW D2, NEW N2,
         CountsDirs(D, L, M), NodeUncounted(D, N, D2, N2, L, d, i, M[i])
  PROVE  CountsDirs(D2, L \ {i}, M2)
<1>1. i \in L /\ (L \ {i}) \cup {i} = L /\ \A j \in L \ {i} : M[j] = M2[j]
  BY DEF Loses
<1>2. GroupOfIno(i) \in Group
  BY <1>1, InoFacts
<1>3. D \in [Group -> Int] /\ \A g \in Group : D[g] = Cardinality(DirsIn(L, M, g))
  BY DEF CountsDirs
<1>4. ASSUME NEW g \in Group
      PROVE  /\ Cardinality(DirsIn(L \ {i}, M2, g)) \in Nat
             /\ D[g] = IF M[i] = "dir" /\ GroupOfIno(i) = g
                       THEN Cardinality(DirsIn(L \ {i}, M2, g)) + 1
                       ELSE Cardinality(DirsIn(L \ {i}, M2, g))
  <2>1. PICK K : K = L \ {i} OBVIOUS
  <2>2. K \in SUBSET Ino /\ i \in Ino \ K /\ \A j \in K : M[j] = M2[j] BY <1>1, <2>1
  <2>3. /\ Cardinality(DirsIn(K, M2, g)) \in Nat
        /\ Cardinality(DirsIn(K \cup {i}, M, g)) =
             IF M[i] = "dir" /\ GroupOfIno(i) = g
             THEN Cardinality(DirsIn(K, M2, g)) + 1 ELSE Cardinality(DirsIn(K, M2, g))
    BY <2>2, DirsInMore
  <2> QED BY <1>1, <1>3, <2>1, <2>3
<1>5. CASE M[i] = "file"
  BY <1>3, <1>4, <1>5 DEF NodeUncounted, CountsDirs
<1>6. CASE M[i] = "dir"
  <2>1. PICK k : k = GroupOfIno(i) OBVIOUS
  <2>2. D[k] \in Nat /\ D[k] > 0 /\ k \in Group BY <1>2, <1>4, <1>6, <2>1
  <2>3. PICK n \in Int : n = D[k] - 1 BY <2>2
  <2>4. Max({n, 0}) = n BY <2>2, <2>3, MaxZero
  <2>5. D2 = [D EXCEPT ![k] = n] BY <1>3, <1>6, <2>1, <2>2, <2>3, <2>4 DEF NodeUncounted
  <2>6. D2 \in [Group -> Int] BY <1>3, <2>2, <2>5
  <2>7. \A g \in Group : D2[g] = IF k = g THEN D[g] - 1 ELSE D[g] BY <1>3, <2>2, <2>3, <2>5
  <2>8. ASSUME NEW g \in Group PROVE D2[g] = Cardinality(DirsIn(L \ {i}, M2, g))
    <3>1. PICK c : c = Cardinality(DirsIn(L \ {i}, M2, g)) OBVIOUS
    <3>2. c \in Nat /\ D[g] = IF k = g THEN c + 1 ELSE c BY <1>4, <1>6, <2>1, <3>1
    <3> QED BY <2>7, <3>1, <3>2
  <2> QED BY <2>6, <2>8 DEF CountsDirs
<1> QED BY ONLY M[i] \in {"dir", "file"}, <1>5, <1>6

\* One entry more, or one less, or none.
LEMMA SubsMore ==
  ASSUME NEW S, NEW e, e \notin S, e.name \notin Dots, NEW T, \A x : x \in T <=> x \in S \/ x = e
  PROVE  /\ IsFiniteSet(Subs(S)) =>
              /\ IsFiniteSet(Subs(T)) /\ Cardinality(Subs(S)) \in Nat
              /\ Cardinality(Subs(T)) =
                   IF e.ft = "dir" THEN Cardinality(Subs(S)) + 1 ELSE Cardinality(Subs(S))
         /\ IsFiniteSet(Subs(T)) =>
              /\ IsFiniteSet(Subs(S)) /\ Cardinality(Subs(S)) \in Nat
              /\ Cardinality(Subs(T)) =
                   IF e.ft = "dir" THEN Cardinality(Subs(S)) + 1 ELSE Cardinality(Subs(S))
<1>1. e \notin Subs(S)
  BY DEF Subs
<1>2. CASE e.ft = "dir"
  <2>1. Subs(T) = Subs(S) \cup {e} /\ Subs(S) = Subs(T) \ {e} BY <1>2 DEF Subs
  <2>2. IsFiniteSet(Subs(T)) => IsFiniteSet(Subs(S)) BY <2>1, FS_RemoveElement
  <2>3. IsFiniteSet(Subs(S)) => /\ IsFiniteSet(Subs(T)) /\ Cardinality(Subs(S)) \in Nat
                                /\ Cardinality(Subs(T)) = Cardinality(Subs(S)) + 1
    BY <1>1, <2>1, FS_AddElement, FS_CardinalityType
  <2> QED BY <1>2, <2>2, <2>3
<1>3. CASE e.ft # "dir"
  <2>1. Subs(T) = Subs(S) BY <1>3 DEF Subs
  <2> QED BY <1>3, <2>1, FS_CardinalityType
<1> QED BY <1>2, <1>3

\* The links of a directory and of the inode it gets.
LEMMA CountsLinksAdd ==
  ASSUME NEW L, NEW M, NEW E, NEW M2, NEW E2, NEW d, NEW i, NEW e,
         Gets(L, M, E, M2, E2, d, i, e), M2[i] \in {"dir", "file"}, NEW D, NEW N, NEW D2, NEW N2,
         NEW mvd, CountsLinks(N, L, M, E, mvd), NodeCounted(D, N, D2, N2, L, d, i, M2[i])
  PROVE  CountsLinks(N2, L \cup {i}, M2, E2, mvd)
<1> DEFINE Right(j) ==
      /\ M2[j] = "file" => N2[j] = 1
      /\ M2[j] = "dir" /\ ~mvd => IsFiniteSet(Subs(E2[j])) /\ N2[j] = 2 + Cardinality(Subs(E2[j]))
<1>1. ASSUME NEW j \in L \ {d} PROVE Right(j)
  <2>1. M2[j] = M[j] /\ E2[j] = E[j] /\ N2[j] = N[j] BY DEF Gets, NodeCounted
  <2> QED BY <2>1 DEF CountsLinks
<1>2. Right(d)
  <2>1. d \in L /\ M[d] = "dir" /\ M2[d] = "dir" BY DEF Gets, DirsOf
  <2>2. e \notin E[d] /\ e.name \notin Dots /\ e.ft = M2[i] /\ E2[d] = E[d] \cup {e} BY DEF Gets
  <2>3. ~mvd => IsFiniteSet(Subs(E[d])) /\ N[d] = 2 + Cardinality(Subs(E[d]))
    BY <2>1 DEF CountsLinks
  <2>4. N2[d] = IF e.ft = "dir" THEN N[d] + 1 ELSE N[d]
    BY <2>2 DEF NodeCounted
  <2>5. \A x : x \in E2[d] <=> x \in E[d] \/ x = e BY <2>2
  <2>6. IsFiniteSet(Subs(E[d])) =>
          /\ IsFiniteSet(Subs(E2[d])) /\ Cardinality(Subs(E[d])) \in Nat
          /\ Cardinality(Subs(E2[d])) =
               IF e.ft = "dir" THEN Cardinality(Subs(E[d])) + 1 ELSE Cardinality(Subs(E[d]))
    BY ONLY <2>2, <2>5, SubsMore
  <2> QED BY ONLY <2>1, <2>3, <2>4, <2>6
<1>3. Right(i)
  <2>1. M2[i] = "file" => N2[i] = 1 BY DEF NodeCounted
  <2>2. ASSUME M2[i] = "dir"
        PROVE  IsFiniteSet(Subs(E2[i])) /\ N2[i] = 2 + Cardinality(Subs(E2[i]))
    <3>1. Subs(E2[i]) = {} BY <2>2 DEF Gets, OnlyDots, Subs
    <3>2. N2[i] = 2 BY <2>2 DEF NodeCounted
    <3> QED BY <3>1, <3>2, FS_EmptySet
  <2> QED BY <2>1, <2>2
<1>4. \A j \in L \cup {i} : Right(j)
  BY <1>1, <1>2, <1>3
<1> QED BY <1>4 DEF CountsLinks

\* The links of a directory that loses an inode.
LEMMA CountsLinksRemove ==
  ASSUME NEW L, NEW M, NEW E, NEW M2, NEW E2, NEW d, NEW i, NEW e,
         Loses(L, M, E, M2, E2, d, i, e), M[i] \in {"dir", "file"}, NEW D, NEW N, NEW D2, NEW N2,
         NEW mvd, CountsLinks(N, L, M, E, mvd), NodeUncounted(D, N, D2, N2, L, d, i, M[i])
  PROVE  CountsLinks(N2, L \ {i}, M2, E2, mvd)
<1> DEFINE Right(j) ==
      /\ M2[j] = "file" => N2[j] = 1
      /\ M2[j] = "dir" /\ ~mvd => IsFiniteSet(Subs(E2[j])) /\ N2[j] = 2 + Cardinality(Subs(E2[j]))
<1>1. ASSUME NEW j \in L \ {i, d} PROVE Right(j)
  <2>1. M2[j] = M[j] /\ E2[j] = E[j] /\ N2[j] = N[j] BY DEF Loses, NodeUncounted
  <2> QED BY <2>1 DEF CountsLinks
<1>2. Right(d)
  <2>1. d \in L /\ M[d] = "dir" /\ M2[d] = "dir" BY DEF Loses, DirsOf
  <2>2. /\ e \notin E2[d] /\ e.name \notin Dots /\ e.ft = M[i]
        /\ \A x : x \in E[d] <=> x \in E2[d] \/ x = e
    BY DEF Loses
  <2>3. ~mvd => IsFiniteSet(Subs(E[d])) /\ N[d] = 2 + Cardinality(Subs(E[d]))
    BY <2>1 DEF CountsLinks
  <2>4. IsFiniteSet(Subs(E[d])) =>
          /\ IsFiniteSet(Subs(E2[d])) /\ Cardinality(Subs(E2[d])) \in Nat
          /\ Cardinality(Subs(E[d])) =
               IF e.ft = "dir" THEN Cardinality(Subs(E2[d])) + 1 ELSE Cardinality(Subs(E2[d]))
    BY ONLY <2>2, SubsMore
  <2>5. CASE M[i] = "file"
    <3>1. N2[d] = N[d] BY <2>5 DEF NodeUncounted
    <3>2. e.ft # "dir" BY <2>2, <2>5
    <3> QED BY ONLY <2>1, <2>3, <2>4, <3>1, <3>2
  <2>6. CASE M[i] = "dir"
    <3>1. e.ft = "dir" BY <2>2, <2>6
    <3>2. ASSUME ~mvd PROVE IsFiniteSet(Subs(E2[d])) /\ N2[d] = 2 + Cardinality(Subs(E2[d]))
      <4>1. PICK c : c = Cardinality(Subs(E2[d])) OBVIOUS
      <4>2. /\ IsFiniteSet(Subs(E2[d])) /\ c \in Nat /\ N[d] = 2 + (c + 1)
        BY ONLY <2>3, <2>4, <3>1, <3>2, <4>1
      <4>3. PICK n \in Int : n = 2 + c BY <4>2
      <4>4. N[d] - 1 = n /\ n > 0 BY ONLY <4>2, <4>3
      <4>5. Max({n, 0}) = n BY <4>4, MaxZero
      <4>6. N2[d] = n BY <2>6, <4>4, <4>5 DEF NodeUncounted
      <4> QED BY <4>1, <4>2, <4>3, <4>6
    <3> QED BY <2>1, <3>2
  <2> QED BY ONLY M[i] \in {"dir", "file"}, <2>5, <2>6
<1>3. \A j \in L \ {i} : Right(j)
  BY <1>1, <1>2
<1> QED BY <1>3 DEF CountsLinks

\* No link count changes when an entry moves within a directory, or a file moves.
LEMMA CountsLinksMove ==
  ASSUME NEW L, NEW M, NEW E, NEW M2, NEW E2, NEW d, NEW t, NEW e, NEW z,
         Moves(L, M, E, M2, E2, d, t, e, z), NEW N, NEW N2, \A j \in L : N2[j] = N[j],
         NEW mvd, CountsLinks(N, L, M, E, mvd), NEW m2, ~m2 => ~mvd /\ (e.ft = "dir" => d = t)
  PROVE  CountsLinks(N2, L, M2, E2, m2)
<1>0. /\ \A j \in L : M2[j] = M[j]
      /\ \A j \in L : \A x : x \in E2[j] <=>
           (x \in E[j] /\ ~(j = d /\ x = e)) \/ (j = t /\ x = z)
      /\ e \in E[d] /\ z \notin E[t] /\ e.name \notin Dots /\ z.name \notin Dots /\ z.ft = e.ft
  BY DEF Moves
<1> SUFFICES ASSUME NEW j \in L
             PROVE  /\ M2[j] = "file" => N2[j] = 1
                    /\ M2[j] = "dir" /\ ~m2 =>
                         IsFiniteSet(Subs(E2[j])) /\ N2[j] = 2 + Cardinality(Subs(E2[j]))
  BY DEF CountsLinks
<1>1. M2[j] = "file" => N2[j] = 1
  BY <1>0 DEF CountsLinks
<1>2. ASSUME M2[j] = "dir", ~m2
      PROVE  IsFiniteSet(Subs(E2[j])) /\ N2[j] = 2 + Cardinality(Subs(E2[j]))
  <2>1. IsFiniteSet(Subs(E[j])) /\ N2[j] = 2 + Cardinality(Subs(E[j]))
    BY <1>0, <1>2 DEF CountsLinks
  <2>2. CASE e.ft # "dir" \/ j # t
    <3>1. \A x : x \in Subs(E2[j]) <=> x \in Subs(E[j]) BY <1>0, <1>2, <2>2 DEF Subs
    <3>2. Subs(E2[j]) = Subs(E[j]) BY <3>1
    <3> QED BY <2>1, <3>2
  <2>3. CASE e.ft = "dir" /\ j = t
    <3>1. d = t BY <1>2, <2>3
    <3>2. PICK S : S = E[j] \ {e} OBVIOUS
    <3>3. /\ e \notin S /\ z \notin S /\ e.name \notin Dots /\ z.name \notin Dots /\ z.ft = "dir"
          /\ e.ft = "dir" /\ \A x : x \in E[j] <=> x \in S \/ x = e
      BY <1>0, <2>3, <3>1, <3>2
    <3>4. \A x : x \in E2[j] <=> x \in S \/ x = z BY <1>0, <2>3, <3>1, <3>2
    <3>5. IsFiniteSet(Subs(S)) /\ Cardinality(Subs(E[j])) = Cardinality(Subs(S)) + 1
      BY ONLY <2>1, <3>3, SubsMore
    <3>6. IsFiniteSet(Subs(E2[j])) /\ Cardinality(Subs(E2[j])) = Cardinality(Subs(S)) + 1
      BY ONLY <3>3, <3>4, <3>5, SubsMore
    <3> QED BY ONLY <2>1, <3>5, <3>6
  <2> QED BY <2>2, <2>3
<1> QED BY <1>1, <1>2

\* The disks before and after: the tree of one against the tree of the other.
GetsNode(f, h, L, d, i, e) ==
  /\ Gets(L, Modes(f), Ents(f), Modes(h), Ents(h), d, i, e)
  /\ NodeCounted(f.dirs, Links(f), h.dirs, Links(h), L, d, i, e.ft)
LosesNode(f, h, L, d, i, e) ==
  /\ Loses(L, Modes(f), Ents(f), Modes(h), Ents(h), d, i, e)
  /\ NodeUncounted(f.dirs, Links(f), h.dirs, Links(h), L, d, i, e.ft)
MovesNode(f, h, L, d, t, e, z) ==
  /\ Moves(L, Modes(f), Ents(f), Modes(h), Ents(h), d, t, e, z)
  /\ h.dirs = f.dirs /\ \A j \in L : Links(h)[j] = Links(f)[j]
KeepsNodes(f, h, L) ==
  /\ TreeStays(L, Modes(f), Ents(f), Modes(h), Ents(h))
  /\ h.dirs = f.dirs /\ \A j \in L : Links(h)[j] = Links(f)[j]

\* A change after which the tree stays is the whole change.
LEMMA GetsKept ==
  ASSUME NEW L, NEW M, NEW E, NEW M2, NEW E2, NEW d, NEW i, NEW e,
         Gets(L, M, E, M2, E2, d, i, e), NEW M3, NEW E3, Stays(L \cup {i}, M2, E2, M3, E3)
  PROVE  Gets(L, M, E, M3, E3, d, i, e)
<1>1. d \in L /\ M3[i] = M2[i] /\ E3[i] = E2[i] /\ E3[d] = E2[d]
  BY DEF Gets, Stays, DirsOf
<1>2. \A j \in L : M3[j] = M2[j] /\ E3[j] = E2[j]
  BY DEF Stays
<1> QED BY <1>1, <1>2 DEF Gets

\* And so for a removal.
LEMMA LosesKept ==
  ASSUME NEW L, NEW M, NEW E, NEW M2, NEW E2, NEW d, NEW i, NEW e,
         Loses(L, M, E, M2, E2, d, i, e), NEW M3, NEW E3, Stays(L \ {i}, M2, E2, M3, E3)
  PROVE  Loses(L, M, E, M3, E3, d, i, e)
<1>1. d \in L \ {i}
  BY DEF Loses, DirsOf
<1>2. \A j \in L \ {i} : M3[j] = M2[j] /\ E3[j] = E2[j]
  BY DEF Stays
<1> QED BY <1>1, <1>2 DEF Loses

\* The counts when nothing changes.
LEMMA TallyKept ==
  ASSUME NEW f, NEW h, NEW L, NEW mvd, Tally(f, L, mvd), KeepsNodes(f, h, L)
  PROVE  Tally(h, L, mvd)
<1>1. PICK M : M = Modes(f) OBVIOUS
<1>2. PICK E : E = Ents(f) OBVIOUS
<1>3. PICK M2 : M2 = Modes(h) OBVIOUS
<1>4. PICK E2 : E2 = Ents(h) OBVIOUS
<1>5. PICK N : N = Links(f) OBVIOUS
<1>6. PICK N2 : N2 = Links(h) OBVIOUS
<1>7. PICK D : D = f.dirs OBVIOUS
<1>8. TreeStays(L, M, E, M2, E2) /\ h.dirs = D /\ \A j \in L : N2[j] = N[j]
  BY <1>1, <1>2, <1>3, <1>4, <1>5, <1>6, <1>7 DEF KeepsNodes
<1>9. Rooted(L, M, E) /\ CountsDirs(D, L, M) /\ CountsLinks(N, L, M, E, mvd)
  BY <1>1, <1>2, <1>5, <1>7 DEF Tally
<1>10. Rooted(L, M2, E2) /\ CountsDirs(D, L, M2) /\ CountsLinks(N2, L, M2, E2, mvd)
  BY ONLY <1>8, <1>9, TallyStays
<1> QED BY <1>3, <1>4, <1>6, <1>8, <1>10 DEF Tally

\* The counts when a node is made.
LEMMA TallyAdded ==
  ASSUME NEW f, NEW h, Sane(h), NEW L \in SUBSET Ino, NEW mvd, Tally(f, L, mvd),
         NEW d, NEW i, NEW e, GetsNode(f, h, L, d, i, e)
  PROVE  Tally(h, L \cup {i}, mvd)
<1>1. PICK M : M = Modes(f) OBVIOUS
<1>2. PICK E : E = Ents(f) OBVIOUS
<1>3. PICK M2 : M2 = Modes(h) OBVIOUS
<1>4. PICK E2 : E2 = Ents(h) OBVIOUS
<1>5. PICK N : N = Links(f) OBVIOUS
<1>6. PICK N2 : N2 = Links(h) OBVIOUS
<1>7. PICK D : D = f.dirs OBVIOUS
<1>8. PICK D2 : D2 = h.dirs OBVIOUS
<1>9. Gets(L, M, E, M2, E2, d, i, e) /\ NodeCounted(D, N, D2, N2, L, d, i, M2[i])
  <2>1. Gets(L, M, E, M2, E2, d, i, e) /\ NodeCounted(D, N, D2, N2, L, d, i, e.ft)
    BY <1>1, <1>2, <1>3, <1>4, <1>5, <1>6, <1>7, <1>8 DEF GetsNode
  <2>2. e.ft = M2[i] BY <2>1 DEF Gets
  <2> QED BY <2>1, <2>2
<1>10. Rooted(L, M, E) /\ CountsDirs(D, L, M) /\ CountsLinks(N, L, M, E, mvd)
  BY <1>1, <1>2, <1>5, <1>7 DEF Tally
<1>11. M2[i] \in {"dir", "file"}
  <2>1. i \in Ino BY <1>9 DEF Gets
  <2>2. h.ino[i] \in InodeType BY <2>1, TypesAt
  <2>3. h.ino[i].mode \in {"dir", "file"} BY <2>2 DEF InodeType
  <2> QED BY <1>3, <2>1, <2>3 DEF Modes
<1>12. Rooted(L \cup {i}, M2, E2)
  BY ONLY <1>9, <1>10, RootedAdd
<1>13. CountsDirs(D2, L \cup {i}, M2)
  BY ONLY L \in SUBSET Ino, <1>9, <1>10, <1>11, CountsDirsAdd
<1>14. CountsLinks(N2, L \cup {i}, M2, E2, mvd)
  BY ONLY <1>9, <1>10, <1>11, CountsLinksAdd
<1> QED BY <1>3, <1>4, <1>6, <1>8, <1>12, <1>13, <1>14 DEF Tally

\* The counts when a node is taken away.
LEMMA TallyRemoved ==
  ASSUME NEW f, Sane(f), NEW h, NEW L \in SUBSET Ino, NEW mvd, Tally(f, L, mvd),
         NEW d, NEW i, NEW e, LosesNode(f, h, L, d, i, e)
  PROVE  Tally(h, L \ {i}, mvd)
<1>1. PICK M : M = Modes(f) OBVIOUS
<1>2. PICK E : E = Ents(f) OBVIOUS
<1>3. PICK M2 : M2 = Modes(h) OBVIOUS
<1>4. PICK E2 : E2 = Ents(h) OBVIOUS
<1>5. PICK N : N = Links(f) OBVIOUS
<1>6. PICK N2 : N2 = Links(h) OBVIOUS
<1>7. PICK D : D = f.dirs OBVIOUS
<1>8. PICK D2 : D2 = h.dirs OBVIOUS
<1>9. Loses(L, M, E, M2, E2, d, i, e) /\ NodeUncounted(D, N, D2, N2, L, d, i, M[i])
  <2>1. Loses(L, M, E, M2, E2, d, i, e) /\ NodeUncounted(D, N, D2, N2, L, d, i, e.ft)
    BY <1>1, <1>2, <1>3, <1>4, <1>5, <1>6, <1>7, <1>8 DEF LosesNode
  <2>2. e.ft = M[i] BY <2>1 DEF Loses
  <2> QED BY <2>1, <2>2
<1>10. Rooted(L, M, E) /\ CountsDirs(D, L, M) /\ CountsLinks(N, L, M, E, mvd)
  BY <1>1, <1>2, <1>5, <1>7 DEF Tally
<1>11. M[i] \in {"dir", "file"}
  <2>1. i \in Ino BY <1>9 DEF Loses
  <2>2. f.ino[i] \in InodeType BY <2>1, TypesAt
  <2>3. f.ino[i].mode \in {"dir", "file"} BY <2>2 DEF InodeType
  <2> QED BY <1>1, <2>1, <2>3 DEF Modes
<1>12. Rooted(L \ {i}, M2, E2)
  BY ONLY <1>9, <1>10, RootedRemove
<1>13. CountsDirs(D2, L \ {i}, M2)
  BY ONLY L \in SUBSET Ino, <1>9, <1>10, <1>11, CountsDirsRemove
<1>14. CountsLinks(N2, L \ {i}, M2, E2, mvd)
  BY ONLY <1>9, <1>10, <1>11, CountsLinksRemove
<1> QED BY <1>3, <1>4, <1>6, <1>8, <1>12, <1>13, <1>14 DEF Tally

\* The counts when an entry moves, but no directory below itself.
LEMMA TallyMoved ==
  ASSUME NEW f, NEW h, NEW L, NEW mvd, Tally(f, L, mvd), NEW d, NEW t, NEW e, NEW z,
         MovesNode(f, h, L, d, t, e, z), NEW A, Upward(A, L, Modes(f), Ents(f), t), e.ino \notin A,
         NEW m2, ~m2 => ~mvd /\ (e.ft = "dir" => d = t)
  PROVE  Tally(h, L, m2)
<1>1. PICK M : M = Modes(f) OBVIOUS
<1>2. PICK E : E = Ents(f) OBVIOUS
<1>3. PICK M2 : M2 = Modes(h) OBVIOUS
<1>4. PICK E2 : E2 = Ents(h) OBVIOUS
<1>5. PICK N : N = Links(f) OBVIOUS
<1>6. PICK N2 : N2 = Links(h) OBVIOUS
<1>7. PICK D : D = f.dirs OBVIOUS
<1>8. /\ Moves(L, M, E, M2, E2, d, t, e, z) /\ h.dirs = D /\ \A j \in L : N2[j] = N[j]
      /\ Upward(A, L, M, E, t) /\ e.ino \notin A
  BY <1>1, <1>2, <1>3, <1>4, <1>5, <1>6, <1>7 DEF MovesNode
<1>9. Rooted(L, M, E) /\ CountsDirs(D, L, M) /\ CountsLinks(N, L, M, E, mvd)
  BY <1>1, <1>2, <1>5, <1>7 DEF Tally
<1>10. Rooted(L, M2, E2)
  BY ONLY <1>8, <1>9, RootedMove
<1>11. CountsDirs(D, L, M2)
  <2>1. DirsOf(L, M2) = DirsOf(L, M) BY <1>8 DEF Moves, DirsOf
  <2> QED BY <1>9, <2>1 DEF CountsDirs, DirsIn
<1>12. CountsLinks(N2, L, M2, E2, m2)
  BY ONLY ~m2 => ~mvd /\ (e.ft = "dir" => d = t), <1>8, <1>9, CountsLinksMove
<1> QED BY <1>3, <1>4, <1>6, <1>8, <1>10, <1>11, <1>12 DEF Tally

-----------------------------------------------------------------------------
(* What is reached over and over *)

\* S and what it leads to by one step of the relation R on U.
Leading(U, R, S) == S \cup {y \in U : \E x \in S : <<x, y>> \in R}

\* After as many turns as there are elements nothing more is reached.
LEMMA Saturates ==
  ASSUME NEW U, IsFiniteSet(U), NEW R, NEW h, h[0] \in SUBSET U, h[0] # {},
         \A n \in 1 .. Cardinality(U) : h[n] = Leading(U, R, h[n - 1])
  PROVE  LET C == Cardinality(U) IN
         h[0] \subseteq h[C] /\ h[C] \subseteq U /\ Leading(U, R, h[C]) = h[C]
<1>1. PICK C \in Nat : C = Cardinality(U)
  BY FS_CardinalityType
<1> DEFINE Far(n) == /\ h[0] \subseteq h[n] /\ h[n] \in SUBSET U
                     /\ Cardinality(h[n]) > n \/ Leading(U, R, h[n]) = h[n]
           T == {n \in Nat : n <= C => Far(n)}
<1>2. \A S \in SUBSET U : IsFiniteSet(S) /\ Cardinality(S) \in Nat /\ Cardinality(S) <= C
  BY <1>1, FS_Subset, FS_CardinalityType
<1>3. 0 \in T
  <2>1. Cardinality(h[0]) # 0 BY <1>2, FS_EmptySet
  <2> QED BY <1>2, <2>1
<1>4. ASSUME NEW n \in Nat, n \in T PROVE n + 1 \in T
  <2> SUFFICES ASSUME n + 1 <= C PROVE Far(n + 1)
    OBVIOUS
  <2>1. Far(n) BY <1>4
  <2>2. n + 1 \in 1 .. C /\ (n + 1) - 1 = n OBVIOUS
  <2>3. PICK m : m = n + 1 OBVIOUS
  <2>4. h[m] = Leading(U, R, h[n])
    <3>1. m \in 1 .. C /\ m - 1 = n BY <2>2, <2>3
    <3> QED BY <1>1, <3>1
  <2>5. h[0] \subseteq h[m] /\ h[n] \subseteq h[m] /\ h[m] \in SUBSET U BY <2>1, <2>4 DEF Leading
  <2>6. CASE Leading(U, R, h[n]) = h[n]
    BY <2>3, <2>4, <2>5, <2>6
  <2>7. CASE Leading(U, R, h[n]) # h[n]
    <3>1. Cardinality(h[n]) > n BY <2>1, <2>7
    <3>2. PICK S : S = h[n] OBVIOUS
    <3>3. PICK T2 : T2 = h[m] OBVIOUS
    <3>4. S \in SUBSET T2 /\ S # T2 /\ IsFiniteSet(T2) /\ Cardinality(T2) \in Nat
          /\ Cardinality(S) \in Nat
      BY <1>2, <2>1, <2>4, <2>5, <2>7, <3>2, <3>3
    <3>5. Cardinality(S) < Cardinality(T2)
      <4>1. Cardinality(S) <= Cardinality(T2) /\ (Cardinality(T2) = Cardinality(S) => T2 = S)
        BY <3>4, FS_Subset
      <4> QED BY <3>4, <4>1
    <3>6. Cardinality(h[m]) > m BY <2>3, <3>1, <3>2, <3>3, <3>4, <3>5
    <3> QED BY <2>3, <2>5, <3>6
  <2> QED BY <2>6, <2>7
<1> HIDE DEF T
<1>5. Nat \subseteq T
  BY <1>3, <1>4, InductionOnNat
<1>6. Far(C)
  BY <1>1, <1>5 DEF T
<1>7. h[0] \subseteq h[C] /\ h[C] \subseteq U /\ Leading(U, R, h[C]) = h[C]
  BY <1>1, <1>2, <1>6
<1> QED BY <1>1, <1>7

\* Who names whom: p[2] is a directory with an entry of p[1].
Namers(f) ==
  {p \in Ino \X Ino : f.ino[p[2]].mode = "dir"
                      /\ \E e \in Entries(f, p[2]) : e.ino = p[1] /\ e.name \notin Dots}

\* One turn of Above.
LEMMA OneAbove ==
  ASSUME NEW f, NEW S \in SUBSET Ino
  PROVE  Leading(Ino, Namers(f), S) =
           S \cup {d \in Ino : \E e \in Entries(f, d) :
                     e.ino \in S /\ f.ino[d].mode = "dir" /\ e.name \notin {".", ".."}}
<1>1. ASSUME NEW d \in Ino
      PROVE  (\E x \in S : <<x, d>> \in Namers(f)) <=>
               \E e \in Entries(f, d) :
                 e.ino \in S /\ f.ino[d].mode = "dir" /\ e.name \notin {".", ".."}
  <2>1. \A x \in S : <<x, d>> \in Ino \X Ino /\ <<x, d>>[1] = x /\ <<x, d>>[2] = d
    OBVIOUS
  <2>2. \A x \in S : <<x, d>> \in Namers(f) <=>
          f.ino[d].mode = "dir" /\ \E e \in Entries(f, d) : e.ino = x /\ e.name \notin Dots
    BY <2>1 DEF Namers
  <2> QED BY <2>2 DEF Dots
<1> QED BY <1>1 DEF Leading

\* Above follows the names upwards to the end, and finds directories only.
LEMMA AboveFacts ==
  ASSUME NEW f, NEW t \in Ino, f.ino[t].mode = "dir"
  PROVE  /\ \A L, E : L \subseteq Ino /\ E = Ents(f) => Upward(Above(f, t), L, Modes(f), E, t)
         /\ \A j \in Above(f, t) : j \in Ino /\ f.ino[j].mode = "dir"
<1> DEFINE N == Cardinality(Ino)
           D == {d \in Ino : f.ino[d].mode = "dir"}
           more(S) == S \cup {d \in Ino : \E e \in Entries(f, d) :
                        e.ino \in S /\ f.ino[d].mode = "dir" /\ e.name \notin {".", ".."}}
           base == {t}
           Q == [n \in 0 .. N |-> SUBSET D]
           step == [n \in 1 .. N |-> [S \in SUBSET D |-> more(S)]]
           Is(h) == h = [k \in 0 .. N |-> IF k = 0 THEN base ELSE more(h[k - 1])]
           up == CHOOSE h : Is(h)
<1>1. N \in Nat /\ IsFiniteSet(Ino)
  BY InoFacts, FS_CardinalityType
<1>2. base \in SUBSET D
  OBVIOUS
<1>3. \A n \in 0 .. N : Q[n] = SUBSET D
  <2> HIDE DEF D, N
  <2> QED OBVIOUS
<1>4. \A n \in 1 .. N : \A S \in SUBSET D : step[n][S] = more(S) /\ step[n][S] \in SUBSET D
  <2>1. \A S \in SUBSET D : more(S) \in SUBSET D OBVIOUS
  <2> HIDE DEF D, N, more
  <2> QED BY <2>1
<1>5. \A n \in 1 .. N : n - 1 \in 0 .. N /\ n \in 0 .. N
  BY <1>1
<1> HIDE DEF Q, step, D, N, base, more
<1>6. \E h : IsLoop(h, N, base, step) /\ Within(h, N, Q)
  <2>1. N \in Nat /\ base \in Q[0] /\ Leads(N, Q, step)
    <3>1. 0 \in 0 .. N BY <1>1
    <3> QED BY <1>1, <1>2, <1>3, <1>4, <1>5, <3>1 DEF Leads
  <2> QED BY ONLY <2>1, LoopWithin
<1>7. PICK h : /\ h = [n \in 0 .. N |-> IF n = 0 THEN base ELSE step[n][h[n - 1]]]
               /\ \A n \in 0 .. N : h[n] \in Q[n]
  BY <1>6 DEF IsLoop, Within
<1>8. Is(h)
  <2>1. \A n \in 0 .. N : n # 0 => n \in 1 .. N /\ n - 1 \in 0 .. N BY <1>1
  <2>2. \A n \in 0 .. N : n # 0 => step[n][h[n - 1]] = more(h[n - 1])
    BY <1>3, <1>4, <1>7, <2>1
  <2>3. \A n \in 0 .. N : (IF n = 0 THEN base ELSE step[n][h[n - 1]])
                         = (IF n = 0 THEN base ELSE more(h[n - 1]))
    BY <2>2
  <2>4. [n \in 0 .. N |-> IF n = 0 THEN base ELSE step[n][h[n - 1]]]
          = [n \in 0 .. N |-> IF n = 0 THEN base ELSE more(h[n - 1])]
    BY <2>3
  <2> QED BY <1>7, <2>4
<1>9. Is(up)
  BY <1>8
<1>10. Above(f, t) = up[N]
  BY DEF Above, N, base, more
<1> HIDE DEF up
<1>11. PICK U : U = up
  OBVIOUS
<1>12. U[0] = {t} /\ \A n \in 1 .. N : U[n] = more(U[n - 1])
  <2>1. U = [k \in 0 .. N |-> IF k = 0 THEN base ELSE more(U[k - 1])] BY <1>9, <1>11
  <2>2. 0 \in 0 .. N /\ \A n \in 1 .. N : n \in 0 .. N /\ n # 0 BY <1>1
  <2> QED BY <2>1, <2>2 DEF base
<1>13. \A n \in 0 .. N : U[n] \in Q[n]
  <2>1. \A n \in 1 .. N : U[n - 1] \in Q[n - 1] => U[n] \in Q[n]
    BY <1>3, <1>4, <1>5, <1>12
  <2>2. U[0] \in Q[0] /\ N \in Nat
    <3>1. 0 \in 0 .. N BY <1>1
    <3> QED BY <1>1, <1>2, <1>3, <1>12, <3>1 DEF base
  <2> QED BY ONLY <2>1, <2>2, LoopStays
<1>14. \A n \in 0 .. N : U[n] \subseteq D
  BY <1>3, <1>13
<1>15. D \subseteq Ino /\ \A d \in D : f.ino[d].mode = "dir"
  BY DEF D
<1>16. PICK R : R = Namers(f)
  OBVIOUS
<1>17. \A S \in SUBSET Ino : Leading(Ino, R, S) = more(S)
  BY <1>16, OneAbove DEF more
<1>18. U[0] \subseteq U[N] /\ Leading(Ino, R, U[N]) = U[N]
  <2>1. U[0] \in SUBSET Ino /\ U[0] # {} BY <1>12
  <2>2. \A n \in 1 .. Cardinality(Ino) : U[n] = Leading(Ino, R, U[n - 1])
    <3>1. \A n \in 1 .. N : U[n] = Leading(Ino, R, U[n - 1])
      <4>1. \A n \in 1 .. N : U[n - 1] \in SUBSET Ino BY <1>5, <1>14, <1>15
      <4> QED BY <1>12, <1>17, <4>1
    <3> QED BY <3>1 DEF N
  <2>3. U[0] \subseteq U[Cardinality(Ino)]
        /\ Leading(Ino, R, U[Cardinality(Ino)]) = U[Cardinality(Ino)]
    BY ONLY <1>1, <2>1, <2>2, Saturates
  <2> QED BY <2>3 DEF N
<1>19. PICK A : A = Above(f, t)
  OBVIOUS
<1>20. t \in A /\ A \subseteq D /\ more(A) = A
  <2>1. N \in 0 .. N /\ A = U[N] BY <1>1, <1>10, <1>11, <1>19
  <2>2. t \in A /\ A \subseteq D BY <1>12, <1>14, <1>18, <2>1
  <2>3. A \in SUBSET Ino BY <1>15, <2>2
  <2> QED BY <1>17, <1>18, <2>1, <2>2, <2>3
<1>21. ASSUME NEW L, NEW E, L \subseteq Ino, E = Ents(f) PROVE Upward(A, L, Modes(f), E, t)
  <2>1. ASSUME NEW c \in DirsOf(L, Modes(f)), NEW x \in E[c], x.name \notin Dots, x.ino \in A
        PROVE  c \in A
    <3>1. c \in Ino /\ f.ino[c].mode = "dir" /\ x \in Entries(f, c)
      BY <1>21, <2>1 DEF DirsOf, Modes, Ents
    <3>2. c \in more(A) BY <2>1, <3>1 DEF more, Dots
    <3> QED BY <1>20, <3>2
  <2> QED BY <1>20, <2>1 DEF Upward
<1> QED BY <1>15, <1>19, <1>20, <1>21

-----------------------------------------------------------------------------
(* What is left alone *)

\* The inodes K of f are the same in g.
Leaves(f, g, K) ==
  /\ K \subseteq g.iused
  /\ \A i \in K : /\ g.ino[i].mode = f.ino[i].mode /\ g.ino[i].ext = f.ino[i].ext
                  /\ Held(f, i) \subseteq g.bused
                  /\ \A b \in Held(f, i) : g.blk[b] = f.blk[b]

\* Whoever is left alone has the same entries and keeps its blocks.
LEMMA LeavesFacts ==
  ASSUME NEW f, NEW g, NEW K, Leaves(f, g, K)
  PROVE  /\ \A d \in K : /\ g.ino[d].mode = f.ino[d].mode /\ Held(g, d) = Held(f, d)
                         /\ Entries(g, d) = Entries(f, d)
                         /\ NamesOnce(f, d) => NamesOnce(g, d)
         /\ Owns(f, K) => Owns(g, K)
<1>1. \A d \in K : Held(g, d) = Held(f, d)
  BY DEF Leaves, Held
<1>2. \A d \in K : Entries(g, d) = Entries(f, d) /\ (NamesOnce(f, d) => NamesOnce(g, d))
  BY SameDir DEF Leaves
<1>3. Owns(f, K) => Owns(g, K)
  BY <1>1 DEF Leaves, Owns
<1> QED BY <1>1, <1>2, <1>3 DEF Leaves

\* The directory counts and the links of K are the same.
SameTallies(f, g, K) == g.dirs = f.dirs /\ \A j \in K : g.ino[j].links = f.ino[j].links

\* Whoever is left alone keeps its mode and its entries.
LEMMA LeavesStays ==
  ASSUME NEW f, NEW g, NEW K \in SUBSET Ino, Leaves(f, g, K)
  PROVE  Stays(K, Modes(f), Ents(f), Modes(g), Ents(g))
BY LeavesFacts DEF Stays, Modes, Ents

\* The counts stay right when the tree and the counts are left alone.
LEMMA LeavesTally ==
  ASSUME NEW f, NEW g, NEW K \in SUBSET Ino, NEW mvd, Tally(f, K, mvd), Leaves(f, g, K),
         SameTallies(f, g, K)
  PROVE  Tally(g, K, mvd)
<1>1. TreeStays(K, Modes(f), Ents(f), Modes(g), Ents(g))
  BY LeavesStays DEF Stays, TreeStays
<1>2. g.dirs = f.dirs /\ \A j \in K : Links(g)[j] = Links(f)[j]
  BY DEF SameTallies, Links
<1>3. KeepsNodes(f, g, K)
  BY <1>1, <1>2 DEF KeepsNodes
<1> QED BY <1>3, TallyKept

\* Two changes that both leave K alone.
LEMMA LeavesTrans ==
  ASSUME NEW f, NEW g, NEW h, NEW K, Leaves(f, g, K), Leaves(g, h, K)
  PROVE  Leaves(f, h, K)
<1>1. \A d \in K : Held(g, d) = Held(f, d)
  BY LeavesFacts
<1> QED BY <1>1 DEF Leaves

\* Who leaves K alone leaves fewer alone.
LEMMA LeavesFewer ==
  ASSUME NEW f, NEW g, NEW K, Leaves(f, g, K), NEW J \in SUBSET K
  PROVE  Leaves(f, g, J)
BY DEF Leaves

\* A change that leaves the whole tree alone leaves a tree.
LEMMA LeavesGood ==
  ASSUME NEW f, NEW g, NEW K, NEW mvd, Good(f, K, mvd), Leaves(f, g, K)
  PROVE  Good(g, K, mvd)
<1>1. K \subseteq Ino
  BY DEF Good, Graph
<1>2. \A i \in K : Modes(g)[i] = Modes(f)[i] /\ Ents(g)[i] = Ents(f)[i]
  BY <1>1, LeavesFacts DEF Modes, Ents
<1>3. Graph(K, Modes(g), Ents(g), mvd)
  <2>1. Graph(K, Modes(f), Ents(f), mvd) BY DEF Good
  <2>2. DirsOf(K, Modes(f)) \subseteq K BY DEF DirsOf
  <2> QED BY <1>2, <2>1, <2>2, GraphSame
<1>4. Owns(g, K)
  BY LeavesFacts DEF Good
<1>5. \A d \in DirsOf(K, Modes(g)) : NamesOnce(g, d)
  <2>1. \A d \in DirsOf(K, Modes(g)) : d \in DirsOf(K, Modes(f)) /\ d \in K
    BY <1>2 DEF DirsOf
  <2> QED BY <2>1, LeavesFacts DEF Good
<1> QED BY <1>3, <1>4, <1>5 DEF Good

\* One more inode with blocks that nobody else has.
LEMMA OwnsMore ==
  ASSUME NEW g, NEW K, Owns(g, K), NEW i \in g.iused, Held(g, i) \subseteq g.bused,
         IsInjective(g.ino[i].ext), \A j \in K : Held(g, i) \cap Held(g, j) = {}
  PROVE  Owns(g, K \cup {i})
BY DEF Owns

\* Fewer inodes own their blocks too.
LEMMA OwnsFewer ==
  ASSUME NEW g, NEW K, Owns(g, K), NEW J \in SUBSET K
  PROVE  Owns(g, J)
BY DEF Owns

\* One block more at the end of an inode.
LEMMA AppendFacts ==
  ASSUME NEW T, NEW s \in Seq(T), NEW b
  PROVE  /\ ToSet(Append(s, b)) = ToSet(s) \cup {b}
         /\ IsInjective(s) /\ b \notin ToSet(s) => IsInjective(Append(s, b))
<1>1. /\ Len(s) \in Nat /\ DOMAIN s = 1 .. Len(s) /\ DOMAIN Append(s, b) = 1 .. Len(s) + 1
      /\ Append(s, b)[Len(s) + 1] = b /\ \A k \in 1 .. Len(s) : Append(s, b)[k] = s[k]
  OBVIOUS
<1>2. /\ Len(s) + 1 \in 1 .. Len(s) + 1
      /\ \A k \in 1 .. Len(s) + 1 : k = Len(s) + 1 \/ k \in 1 .. Len(s)
      /\ \A k \in 1 .. Len(s) : k \in 1 .. Len(s) + 1
  BY <1>1
<1>3. ToSet(Append(s, b)) = ToSet(s) \cup {b}
  BY <1>1, <1>2 DEF ToSet
<1>4. ASSUME IsInjective(s), b \notin ToSet(s) PROVE IsInjective(Append(s, b))
  BY <1>1, <1>2, <1>4 DEF ToSet, IsInjective
<1> QED BY <1>3, <1>4

\* A failed operation leaves everybody alone.
LEMMA KeptLeaves ==
  ASSUME NEW f, NEW g, NEW K, Owns(f, K), Kept(f, g)
  PROVE  Leaves(f, g, K)
BY DEF Owns, Kept, Leaves

\* dir_add changes one directory, which still owns its blocks.
LEMMA AddedOwns ==
  ASSUME NEW f, Sane(f), NEW g, NEW K \in SUBSET Ino, Owns(f, K), NEW d \in K, NEW e,
         Added(f, g, d, e)
  PROVE  Leaves(f, g, K \ {d}) /\ Owns(g, K)
<1>1. Leaves(f, g, K \ {d})
  <2>1. \A i \in K \ {d} : Held(f, i) \subseteq f.bused \ Held(f, d)
    BY DEF Owns
  <2> QED BY <2>1 DEF Added, Leaves, Owns
<1>2. Owns(g, K \ {d})
  BY <1>1, LeavesFacts, OwnsFewer
<1>3. /\ Held(g, d) \subseteq g.bused /\ IsInjective(g.ino[d].ext) /\ d \in g.iused
      /\ \A j \in K \ {d} : Held(g, d) \cap Held(f, j) = {}
  <2>1. CASE g.ino[d].ext = f.ino[d].ext
    BY <2>1 DEF Held, Owns, Added
  <2>2. CASE \E b \in g.bused \ f.bused : g.ino[d].ext = Append(f.ino[d].ext, b)
    <3>1. PICK b \in g.bused \ f.bused : g.ino[d].ext = Append(f.ino[d].ext, b)
      BY <2>2
    <3>2. f.ino[d].ext \in Seq(Blk)
      BY TypesAt
    <3>3. Held(f, d) \subseteq f.bused /\ IsInjective(f.ino[d].ext) /\ b \notin Held(f, d)
      BY <3>1 DEF Owns
    <3>4. Held(g, d) = Held(f, d) \cup {b} /\ IsInjective(g.ino[d].ext)
      BY <3>1, <3>2, <3>3, AppendFacts DEF Held
    <3>5. \A j \in K \ {d} : Held(f, j) \subseteq f.bused /\ Held(f, d) \cap Held(f, j) = {}
      BY DEF Owns
    <3> QED BY <3>1, <3>3, <3>4, <3>5 DEF Added, Owns
  <2> QED BY <2>1, <2>2 DEF Added
<1>4. \A j \in K \ {d} : Held(g, j) = Held(f, j)
  BY <1>1, LeavesFacts
<1>5. Owns(g, (K \ {d}) \cup {d})
  BY <1>2, <1>3, <1>4, OwnsMore
<1>6. (K \ {d}) \cup {d} = K
  OBVIOUS
<1> QED BY <1>1, <1>5, <1>6

\* dir_del changes one directory, which still owns its blocks.
LEMMA RemovedOwns ==
  ASSUME NEW f, Sane(f), NEW g, NEW K \in SUBSET Ino, Owns(f, K), NEW d \in Ino,
         \A i \in K \ {d} : Held(f, d) \cap Held(f, i) = {}, NEW n, Removed(f, g, d, n)
  PROVE  Leaves(f, g, K \ {d}) /\ Owns(g, K)
<1>1. f.bused \subseteq Blk
  BY DEF Sane, FsType
<1>2. /\ g.bused = f.bused /\ g.iused = f.iused /\ g.ino = f.ino
      /\ \A c \in Blk \ Held(f, d) : g.blk[c] = f.blk[c]
  BY DEF Removed, SameBlockCounts, SameInodeCounts
<1>3. \A i \in K \ {d} : Held(f, i) \subseteq Blk \ Held(f, d)
  BY <1>1 DEF Owns
<1>4. Leaves(f, g, K \ {d})
  BY <1>2, <1>3 DEF Leaves, Owns
<1>5. Owns(g, K)
  BY <1>2 DEF Owns, Held
<1> QED BY <1>4, <1>5

\* A name stands for one entry.
LEMMA OncePerName ==
  ASSUME NEW f, Sane(f), NEW d \in Ino, NamesOnce(f, d),
         NEW x \in Entries(f, d), NEW y \in Entries(f, d), x.name = y.name
  PROVE  x = y
<1>1. PICK b \in Held(f, d) : x \in Used(f.blk[b].ents)
  BY EntriesAre
<1>2. PICK c \in Held(f, d) : y \in Used(f.blk[c].ents)
  BY EntriesAre
<1>3. b = c /\ Uniq(f.blk[b].ents)
  BY <1>1, <1>2 DEF NamesOnce
<1>4. PICK s : s = f.blk[b].ents
  OBVIOUS
<1>5. DOMAIN s = 1 .. Len(s)
  BY <1>4, TypesAt
<1> QED BY <1>1, <1>2, <1>3, <1>4, <1>5 DEF Uniq, Used, ToSet

-----------------------------------------------------------------------------
(* One change of the disk *)

\* A new inode i gets an entry in the directory d, and then perhaps its contents.
LEMMA AddedGood ==
  ASSUME NEW f, Sane(f), NEW L, NEW mvd, Good(f, L, mvd), NEW d \in DirsOf(L, Modes(f)),
         NEW i \in Ino \ L, NEW e, e.ino = i, e.name \notin Dots,
         \A x \in Entries(f, d) : x.name # e.name, NEW g, Added(f, g, d, e),
         NEW h, Leaves(g, h, L), Owns(h, L \cup {i}), h.ino[i].mode = e.ft,
         e.ft = "dir" => NamesOnce(h, i) /\ OnlyDots(Entries(h, i), i, d)
  PROVE  /\ Good(h, L \cup {i}, mvd)
         /\ Gets(L, Modes(f), Ents(f), Modes(h), Ents(h), d, i, e)
<1>1. L \subseteq Ino /\ d \in L /\ Owns(f, L)
  BY PlaceFacts DEF Good
<1>2. Leaves(f, g, L \ {d})
  <2>1. L \in SUBSET Ino BY <1>1
  <2> QED BY <1>1, <2>1, AddedOwns
<1>3. \A j \in L \ {d} : Modes(h)[j] = Modes(f)[j] /\ Ents(h)[j] = Ents(f)[j]
  <2>1. \A j \in L \ {d} : g.ino[j].mode = f.ino[j].mode /\ Entries(g, j) = Entries(f, j)
    BY <1>2, LeavesFacts
  <2>2. \A j \in L : h.ino[j].mode = g.ino[j].mode /\ Entries(h, j) = Entries(g, j)
    BY LeavesFacts
  <2> QED BY <1>1, <2>1, <2>2 DEF Modes, Ents
<1>4. Modes(h)[d] = Modes(f)[d] /\ Ents(h)[d] = Ents(f)[d] \cup {e}
  <2>1. g.ino[d].mode = f.ino[d].mode /\ Entries(g, d) = Entries(f, d) \cup {e}
    BY DEF Added
  <2>2. h.ino[d].mode = g.ino[d].mode /\ Entries(h, d) = Entries(g, d)
    BY <1>1, LeavesFacts
  <2> QED BY <1>1, <2>1, <2>2 DEF Modes, Ents
<1>5. /\ Graph(L \cup {i}, Modes(h), Ents(h), mvd)
      /\ Gets(L, Modes(f), Ents(f), Modes(h), Ents(h), d, i, e)
  <2>1. \A j \in L : Modes(h)[j] = Modes(f)[j] BY <1>3, <1>4
  <2>2. Modes(h)[i] = e.ft /\ Ents(h)[i] = Entries(h, i) BY DEF Modes, Ents
  <2>3. Graph(L, Modes(f), Ents(f), mvd) BY DEF Good
  <2>4. Modes(h)[i] = "dir" => OnlyDots(Ents(h)[i], i, d)
    BY <2>2
  <2>5. /\ \A j \in L \ {d} : Ents(h)[j] = Ents(f)[j]
        /\ Ents(h)[d] = Ents(f)[d] \cup {e} /\ e.ft = Modes(h)[i]
        /\ e.ino = i /\ e.name \notin Dots /\ i \in Ino \ L /\ d \in DirsOf(L, Modes(f))
    BY <1>3, <1>4, <2>2
  <2>6. PICK M : M = Modes(f) OBVIOUS
  <2>7. PICK E : E = Ents(f) OBVIOUS
  <2>8. PICK M2 : M2 = Modes(h) OBVIOUS
  <2>9. PICK E2 : E2 = Ents(h) OBVIOUS
  <2>10. /\ Graph(L, M, E, mvd) /\ \A j \in L : M2[j] = M[j]
         /\ \A j \in L \ {d} : E2[j] = E[j]
         /\ E2[d] = E[d] \cup {e} /\ e.ft = M2[i]
         /\ e.ino = i /\ e.name \notin Dots /\ i \in Ino \ L /\ d \in DirsOf(L, M)
    BY <2>1, <2>3, <2>5, <2>6, <2>7, <2>8, <2>9
  <2>11. M2[i] = "dir" => OnlyDots(E2[i], i, d)
    BY <2>4, <2>8, <2>9
  <2>12. Graph(L \cup {i}, M2, E2, mvd)
    BY ONLY <2>10, <2>11, GraphAdd
  <2>13. e \notin E[d] BY <1>1, <2>7 DEF Ents
  <2>14. Gets(L, M, E, M2, E2, d, i, e)
    BY ONLY <2>10, <2>11, <2>13 DEF Gets
  <2> QED BY <2>6, <2>7, <2>8, <2>9, <2>12, <2>14
<1>6. ASSUME NEW c \in DirsOf(L \cup {i}, Modes(h)) PROVE NamesOnce(h, c)
  <2>1. CASE c = i
    <3>1. e.ft = "dir" BY <1>6, <2>1 DEF DirsOf, Modes
    <3> QED BY <2>1, <3>1
  <2>2. CASE c \in L
    <3>1. c \in DirsOf(L, Modes(f)) BY <1>3, <1>4, <1>6, <2>2 DEF DirsOf
    <3>2. NamesOnce(f, c) BY <3>1 DEF Good
    <3>3. NamesOnce(g, c)
      <4>1. CASE c = d BY <3>2, <4>1 DEF Added
      <4>2. CASE c # d BY <1>2, <2>2, <3>2, <4>2, LeavesFacts
      <4> QED BY <4>1, <4>2
    <3> QED BY <2>2, <3>3, LeavesFacts
  <2> QED BY <2>1, <2>2 DEF DirsOf
<1> QED BY <1>5, <1>6 DEF Good

\* What the entry e leads to is given back and the entry removed.
LEMMA RemovedGood ==
  ASSUME NEW f, Sane(f), NEW L, NEW mvd, Good(f, L, mvd), NEW d \in DirsOf(L, Modes(f)),
         NEW e \in Entries(f, d), e.name \notin Dots, NEW i, i = e.ino,
         f.ino[i].mode = "dir" => \A x \in Entries(f, i) : x.name \in Dots,
         NEW g, Sane(g), Leaves(f, g, L \ {i}), NEW h,
         \A j \in L \ {i, d} : Held(g, d) \cap Held(g, j) = {},
         Removed(g, h, d, e.name)
  PROVE  /\ Good(h, L \ {i}, mvd) /\ i \in L \ {Root, d}
         /\ Loses(L, Modes(f), Ents(f), Modes(h), Ents(h), d, i, e)
<1> DEFINE K == L \ {i}
<1>1. L \subseteq Ino /\ d \in L /\ Owns(f, L) /\ NamesOnce(f, d)
  BY PlaceFacts DEF Good
<1>2. i \in L \ {Root, d}
  <2>1. Modes(f)[d] = "dir" BY DEF DirsOf
  <2>2. e \in Ents(f)[d] BY <1>1 DEF Ents
  <2>3. i \in L \ {Root} BY <2>2 DEF Good, Graph, Closed
  <2>4. i # d BY <1>1, <2>1 DEF Modes
  <2> QED BY <2>3, <2>4
<1>3. d \in K
  BY <1>1, <1>2
<1>4. Owns(g, K) /\ Entries(g, d) = Entries(f, d)
  <2>1. Owns(f, K) BY <1>1, OwnsFewer
  <2> QED BY <1>3, <2>1, LeavesFacts
<1>5. Leaves(g, h, K \ {d}) /\ Owns(h, K)
  <2>1. K \in SUBSET Ino /\ d \in Ino BY <1>1
  <2>2. \A j \in K \ {d} : Held(g, d) \cap Held(g, j) = {} OBVIOUS
  <2> HIDE DEF K
  <2> QED BY <1>4, <2>1, <2>2, RemovedOwns
<1>6. \A j \in K : h.ino[j].mode = f.ino[j].mode
  <2>1. \A j \in K : g.ino[j].mode = f.ino[j].mode BY LeavesFacts
  <2>2. h.ino = g.ino BY DEF Removed
  <2> QED BY <2>1, <2>2
<1>7. \A j \in K \ {d} : Entries(h, j) = Entries(f, j)
  <2>1. \A j \in K : Entries(g, j) = Entries(f, j) BY LeavesFacts
  <2>2. \A j \in K \ {d} : Entries(h, j) = Entries(g, j) BY <1>5, LeavesFacts
  <2> QED BY <2>1, <2>2
<1>8. Entries(h, d) = Entries(f, d) \ {e}
  <2>1. Entries(h, d) = {x \in Entries(f, d) : x.name # e.name} BY <1>4 DEF Removed
  <2>2. \A x \in Entries(f, d) : x.name = e.name => x = e
    BY <1>1, OncePerName
  <2> QED BY <2>1, <2>2
<1>9. Graph(K, Modes(h), Ents(h), mvd)
  <2> DEFINE M2 == [j \in Ino |-> IF j = i THEN f.ino[i].mode ELSE h.ino[j].mode]
  <2>1. Graph(L, Modes(f), Ents(f), mvd) BY DEF Good
  <2>2. \A j \in L : M2[j] = Modes(f)[j] BY <1>1, <1>6 DEF Modes
  <2>3. /\ \A j \in L \ {i, d} : Ents(h)[j] = Ents(f)[j]
        /\ Ents(h)[d] = Ents(f)[d] \ {e}
    BY <1>1, <1>7, <1>8 DEF Ents
  <2>4. /\ e \in Ents(f)[d] /\ e.name \notin Dots /\ i = e.ino /\ d \in DirsOf(L, Modes(f))
        /\ Modes(f)[i] = "dir" => \A x \in Ents(f)[i] : x.name \in Dots
    BY <1>1, <1>2 DEF Modes, Ents
  <2> HIDE DEF M2
  <2>5. Graph(L \ {i}, M2, Ents(h), mvd)
    BY ONLY <2>1, <2>2, <2>3, <2>4, GraphRemove
  <2>6. \A j \in K : Modes(h)[j] = M2[j] /\ Ents(h)[j] = Ents(h)[j]
    BY <1>1 DEF Modes, M2
  <2> QED BY <2>5, <2>6, GraphSame
<1>11. Loses(L, Modes(f), Ents(f), Modes(h), Ents(h), d, i, e)
  <2>1. \A j \in L \ {i} : Modes(h)[j] = Modes(f)[j] BY <1>1, <1>6 DEF Modes
  <2>2. /\ \A j \in L \ {i, d} : Ents(h)[j] = Ents(f)[j]
        /\ Ents(h)[d] = Ents(f)[d] \ {e}
    BY <1>1, <1>7, <1>8 DEF Ents
  <2>3. /\ e \in Ents(f)[d]
        /\ Modes(f)[i] = "dir" => \A x \in Ents(f)[i] : x.name \in Dots
    BY <1>1, <1>2 DEF Modes, Ents
  <2>4. e.ft = Modes(f)[i] BY <2>3 DEF Good, Graph, Closed
  <2>5. d \in DirsOf(L, Modes(f)) /\ i = e.ino /\ e.name \notin Dots OBVIOUS
  <2> QED BY ONLY <1>2, <2>1, <2>2, <2>3, <2>4, <2>5 DEF Loses
<1>10. ASSUME NEW c \in DirsOf(K, Modes(h)) PROVE NamesOnce(h, c)
  <2>1. CASE c = d BY <2>1 DEF Removed
  <2>2. CASE c # d
    <3>1. c \in K \ {d} BY <1>10, <2>2 DEF DirsOf
    <3>2. c \in DirsOf(L, Modes(f)) BY <1>1, <1>6, <1>10, <3>1 DEF DirsOf, Modes
    <3>3. NamesOnce(f, c) BY <3>2 DEF Good
    <3>4. NamesOnce(g, c) BY <3>1, <3>3, LeavesFacts
    <3> QED BY <1>5, <3>1, <3>4, LeavesFacts
  <2> QED BY <2>1, <2>2
<1> QED BY <1>2, <1>5, <1>9, <1>10, <1>11 DEF Good

\* The entry e of d becomes the entry z of t.
LEMMA MovedGood ==
  ASSUME NEW f, Sane(f), NEW L, NEW mvd, Good(f, L, mvd), NEW d \in DirsOf(L, Modes(f)),
         NEW t \in DirsOf(L, Modes(f)), NEW e \in Entries(f, d), e.name \notin Dots,
         NEW z, z.ino = e.ino, z.ft = e.ft, z.name \notin Dots,
         \A x \in Entries(f, t) : x.name # z.name,
         NEW g, Added(f, g, t, z), NEW h, Removed(g, h, d, e.name)
  PROVE  Good(h, L, mvd \/ (e.ft = "dir" /\ d # t)) /\ MovesNode(f, h, L, d, t, e, z)
<1>1. L \subseteq Ino /\ d \in L /\ t \in L /\ Owns(f, L) /\ NamesOnce(f, d) /\ Sane(g)
  BY PlaceFacts DEF Good, Added
<1>2. Leaves(f, g, L \ {t}) /\ Owns(g, L)
  BY <1>1, AddedOwns
<1>3. Leaves(g, h, L \ {d}) /\ Owns(h, L)
  <2>1. \A j \in L \ {d} : Held(g, d) \cap Held(g, j) = {} BY <1>1, <1>2 DEF Owns
  <2> QED BY <1>1, <1>2, <2>1, RemovedOwns
<1>4. \A j \in L : h.ino[j].mode = f.ino[j].mode
  <2>1. \A j \in L : g.ino[j].mode = f.ino[j].mode BY <1>1, <1>2, LeavesFacts DEF Added
  <2>2. h.ino = g.ino BY DEF Removed
  <2> QED BY <2>1, <2>2
<1>5. \A j \in L \ {t} : Entries(g, j) = Entries(f, j)
  BY <1>2, LeavesFacts
<1>6. Entries(g, t) = Entries(f, t) \cup {z}
  BY DEF Added
<1>7. \A j \in L \ {d} : Entries(h, j) = Entries(g, j)
  BY <1>3, LeavesFacts
<1>8. Entries(h, d) = {x \in Entries(g, d) : x.name # e.name}
  BY DEF Removed
<1>9. \A x \in Entries(f, d) : x.name = e.name => x = e
  BY <1>1, OncePerName
<1>10. d = t => z.name # e.name
  OBVIOUS
<1>11. \A j \in L : \A x : x \in Ents(h)[j] <=>
           (x \in Ents(f)[j] /\ ~(j = d /\ x = e)) \/ (j = t /\ x = z)
  <2> SUFFICES ASSUME NEW j \in L, NEW x
               PROVE  x \in Entries(h, j) <=>
                        (x \in Entries(f, j) /\ ~(j = d /\ x = e)) \/ (j = t /\ x = z)
    BY <1>1 DEF Ents
  <2>1. x \in Entries(g, j) <=> x \in Entries(f, j) \/ (j = t /\ x = z)
    BY <1>5, <1>6
  <2>2. x \in Entries(h, j) <=> x \in Entries(g, j) /\ (j = d => x.name # e.name)
    BY <1>7, <1>8
  <2>3. j = d /\ x \in Entries(f, j) => (x.name # e.name <=> x # e)
    BY <1>9
  <2>4. j = d /\ j = t /\ x = z => x.name # e.name
    BY <1>10
  <2> QED BY <2>1, <2>2, <2>3, <2>4
<1>12. Graph(L, Modes(h), Ents(h), mvd \/ (e.ft = "dir" /\ d # t))
  <2>1. Graph(L, Modes(f), Ents(f), mvd) BY DEF Good
  <2>2. \A j \in L : Modes(h)[j] = Modes(f)[j] BY <1>1, <1>4 DEF Modes
  <2>3. e \in Ents(f)[d] BY <1>1 DEF Ents
  <2>4. /\ e.name \notin Dots /\ z.ino = e.ino /\ z.ft = e.ft /\ z.name \notin Dots
        /\ d \in DirsOf(L, Modes(f)) /\ t \in DirsOf(L, Modes(f))
    OBVIOUS
  <2> QED BY ONLY <1>11, <2>1, <2>2, <2>3, <2>4, GraphMove
<1>14. MovesNode(f, h, L, d, t, e, z)
  <2>1. \A j \in L : Modes(h)[j] = Modes(f)[j] BY <1>1, <1>4 DEF Modes
  <2>2. e \in Ents(f)[d] /\ z \notin Ents(f)[t] BY <1>1 DEF Ents
  <2>3. /\ e.name \notin Dots /\ z.ino = e.ino /\ z.ft = e.ft /\ z.name \notin Dots
        /\ d \in DirsOf(L, Modes(f)) /\ t \in DirsOf(L, Modes(f))
    OBVIOUS
  <2>4. Moves(L, Modes(f), Ents(f), Modes(h), Ents(h), d, t, e, z)
    BY ONLY <1>11, <2>1, <2>2, <2>3 DEF Moves
  <2>5. h.dirs = f.dirs /\ \A j \in L : h.ino[j].links = f.ino[j].links
    <3>1. g.dirs = f.dirs /\ \A j \in L : g.ino[j].links = f.ino[j].links
      BY <1>1 DEF Added
    <3>2. h.ino = g.ino /\ h.dirs = g.dirs BY DEF Removed
    <3> QED BY <3>1, <3>2
  <2>6. \A j \in L : Links(h)[j] = Links(f)[j] BY <1>1, <2>5 DEF Links
  <2> QED BY <2>4, <2>5, <2>6 DEF MovesNode
<1>13. ASSUME NEW c \in DirsOf(L, Modes(h)) PROVE NamesOnce(h, c)
  <2>0. c \in L /\ NamesOnce(f, c) BY <1>1, <1>4, <1>13 DEF DirsOf, Modes, Good
  <2>1. CASE c = d BY <2>1 DEF Removed
  <2>2. CASE c # d
    <3>1. NamesOnce(g, c)
      <4>1. CASE c = t BY <2>0, <4>1 DEF Added
      <4>2. CASE c # t BY <1>2, <2>0, <4>2, LeavesFacts
      <4> QED BY <4>1, <4>2
    <3> QED BY <1>3, <2>0, <2>2, <3>1, LeavesFacts
  <2> QED BY <2>1, <2>2
<1> QED BY <1>3, <1>12, <1>13, <1>14 DEF Good

\* The disk with another link count of d.
WithLinks(f, d, n) == [f EXCEPT !.ino[d].links = n]

\* Link counts and used-directory counts are not read by anybody.
LEMMA LinksFacts ==
  ASSUME NEW f, Sane(f), NEW d \in Ino, NEW n \in Int, NEW g, g = WithLinks(f, d, n)
  PROVE  /\ Sane(g)
         /\ \A K : K \subseteq Ino /\ Owns(f, K) => Leaves(f, g, K)
         /\ g.dirs = f.dirs /\ g.ino[d].links = n
         /\ \A j \in Ino \ {d} : g.ino[j].links = f.ino[j].links
<1> DEFINE x == [f.ino EXCEPT ![d] = [f.ino[d] EXCEPT !.links = n]]
<1>1. /\ f \in FsType /\ f.ino \in [Ino -> InodeType] /\ f.ino[d] \in InodeType
      /\ \A i \in Ino : Extents(f.ino[i].ext) <= MaxExtents
  BY TypesAt DEF Sane, FsType
<1>2. g = [f EXCEPT !.ino = x]
  BY <1>1 DEF WithLinks
<1>3. x \in [Ino -> InodeType]
  <2>1. [f.ino[d] EXCEPT !.links = n] \in InodeType BY <1>1 DEF InodeType
  <2> QED BY <1>1, <2>1
<1>4. \A i \in Ino : /\ x[i].ext = f.ino[i].ext /\ x[i].mode = f.ino[i].mode
                     /\ x[i].links = IF i = d THEN n ELSE f.ino[i].links
  BY <1>1 DEF InodeType
<1> HIDE DEF x
<1>5. \A i \in Ino : Extents(x[i].ext) <= MaxExtents
  BY <1>1, <1>4
<1>6. /\ Sane(g) /\ SameBlockCounts(f, g) /\ SameInodeCounts(f, g)
      /\ g.ino = x /\ g.blk = f.blk /\ g.dirs = f.dirs
  <2>1. PICK y : y = x OBVIOUS
  <2>2. Sane(f) /\ y \in [Ino -> InodeType] /\ \A i \in Ino : Extents(y[i].ext) <= MaxExtents
    BY <1>3, <1>5, <2>1
  <2>3. g = [f EXCEPT !.ino = y] BY <1>2, <2>1
  <2> QED BY ONLY <2>1, <2>2, <2>3, SetInoFacts
<1>7. ASSUME NEW K, K \subseteq Ino, Owns(f, K) PROVE Leaves(f, g, K)
  <2>1. \A i \in K : g.ino[i].ext = f.ino[i].ext /\ g.ino[i].mode = f.ino[i].mode
    BY <1>4, <1>6, <1>7
  <2> QED BY <1>6, <1>7, <2>1 DEF Leaves, Owns, SameBlockCounts, SameInodeCounts
<1> QED BY <1>4, <1>6, <1>7

\* bump_used_dirs changes a counter that no inode depends on.
LEMMA BumpLeaves ==
  ASSUME NEW f, Sane(f), NEW i \in Ino, NEW delta \in Int, NEW g,
         g = BumpUsedDirs(f, i, delta)
  PROVE  /\ Sane(g) /\ (\A K : Owns(f, K) => Leaves(f, g, K)) /\ g.ino = f.ino
         /\ g.dirs = MoreDirs(f.dirs, i, delta)
<1>1. /\ Sane(g) /\ SameBlockCounts(f, g) /\ SameInodeCounts(f, g)
      /\ g.ino = f.ino /\ g.blk = f.blk
      /\ g.dirs = MoreDirs(f.dirs, i, delta)
  BY ONLY Sane(f), i \in Ino, delta \in Int, g = BumpUsedDirs(f, i, delta), BumpFacts
<1> QED BY <1>1 DEF Leaves, Owns, SameBlockCounts, SameInodeCounts

-----------------------------------------------------------------------------
(* Steps of the commands *)

\* What holds when nothing has moved holds when something may have.
LEMMA GoodMono ==
  ASSUME NEW f, NEW K, NEW m, NEW n, Good(f, K, m), m => n
  PROVE  Good(f, K, n)
BY DEF Good, Graph, DotsLead

\* So with the counts.
LEMMA TallyMono ==
  ASSUME NEW f, NEW K, NEW m, NEW n, Tally(f, K, m), m => n
  PROVE  Tally(f, K, n)
BY DEF Tally, CountsLinks

\* What lookup does not find is not there.
LEMMA NoSuch ==
  ASSUME NEW f, Sane(f), NEW d \in Ino, NEW n, ~Has(f, d, n)
  PROVE  \A x \in Entries(f, d) : x.name # n
<1>1. PICK e : e = Lookup(f, d, n)
  OBVIOUS
<1>2. e.ino = NoIno
  BY <1>1 DEF Has
<1>3. e \notin Entries(f, d)
  BY <1>2, InoFacts, TypesAt
<1>4. d # NoIno
  BY InoFacts
<1> QED BY <1>1, <1>3, <1>4, LookupFacts

\* The entry of a name that a path may end with leads to an inode of the tree.
LEMMA EntryLeads ==
  ASSUME NEW f, NEW L, NEW mvd, Good(f, L, mvd), NEW d \in DirsOf(L, Modes(f)),
         NEW e \in Entries(f, d), mvd => e.name \notin Dots
  PROVE  /\ e.ino \in L
         /\ e.name \notin Dots => e.ino # Root /\ e.ft = f.ino[e.ino].mode
         /\ e.name \in Dots => e.ft = "dir"
<1>1. e \in Ents(f)[d] /\ L \subseteq Ino /\ d \in L
  BY PlaceFacts
<1>2. CASE e.name \notin Dots
  <2>1. e.ino \in L \ {Root} /\ e.ft = Modes(f)[e.ino]
    BY <1>1, <1>2 DEF Good, Graph, Closed
  <2> QED BY <1>1, <1>2, <2>1 DEF Modes
<1>3. CASE e.name = "."
  BY <1>1, <1>3 DEF Good, Graph, DotsLead, Dots
<1>4. CASE e.name = ".."
  <2>1. ~mvd BY <1>4 DEF Dots
  <2>2. e.ino \in DirsOf(L, Modes(f)) /\ e.ft = "dir"
    BY <1>1, <1>4, <2>1 DEF Good, Graph, DotsLead, Dots
  <2> QED BY <1>4, <2>2, PlaceFacts DEF Dots
<1> QED BY <1>2, <1>3, <1>4 DEF Dots

\* The inode i, the block b is written.
WithInode(f, i, v) == [f EXCEPT !.ino[i] = v]
WithBlock(f, b, v) == [f EXCEPT !.blk[b] = v]

\* write_inode: one inode changes.
LEMMA SetInodeFacts ==
  ASSUME NEW f, Sane(f), NEW i \in Ino, NEW v \in InodeType, Extents(v.ext) <= MaxExtents,
         NEW g, g = WithInode(f, i, v)
  PROVE  /\ Sane(g) /\ SameBlockCounts(f, g) /\ SameInodeCounts(f, g)
         /\ g.blk = f.blk /\ g.ino[i] = v /\ g.dirs = f.dirs
         /\ \A j \in Ino \ {i} : g.ino[j] = f.ino[j]
<1>1. PICK x : x = [f.ino EXCEPT ![i] = v]
  OBVIOUS
<1>2. f.ino \in [Ino -> InodeType] /\ \A j \in Ino : Extents(f.ino[j].ext) <= MaxExtents
  BY DEF Sane, FsType
<1>3. x \in [Ino -> InodeType] /\ x[i] = v /\ \A j \in Ino \ {i} : x[j] = f.ino[j]
  BY <1>1, <1>2
<1>4. Sane(f) /\ x \in [Ino -> InodeType] /\ \A j \in Ino : Extents(x[j].ext) <= MaxExtents
  BY <1>2, <1>3
<1>5. g = [f EXCEPT !.ino = x]
  BY <1>1 DEF WithInode
<1>6. /\ Sane(g) /\ SameBlockCounts(f, g) /\ SameInodeCounts(f, g)
      /\ g.dirs = f.dirs /\ g.ino = x /\ g.blk = f.blk
  BY ONLY <1>4, <1>5, SetInoFacts
<1> QED BY <1>3, <1>6

\* write_block: one block changes.
LEMMA SetBlockFacts ==
  ASSUME NEW f, Sane(f), NEW b \in Blk, NEW v \in BlockType, NEW g, g = WithBlock(f, b, v)
  PROVE  /\ Sane(g) /\ SameBlockCounts(f, g) /\ SameInodeCounts(f, g)
         /\ g.ino = f.ino /\ g.blk[b] = v /\ g.dirs = f.dirs
         /\ \A c \in Blk \ {b} : g.blk[c] = f.blk[c]
<1>1. PICK x : x = [f.blk EXCEPT ![b] = v]
  OBVIOUS
<1>2. f.blk \in [Blk -> BlockType]
  BY DEF Sane, FsType
<1>3. x \in [Blk -> BlockType] /\ x[b] = v /\ \A c \in Blk \ {b} : x[c] = f.blk[c]
  BY <1>1, <1>2
<1>4. g = [f EXCEPT !.blk = x]
  BY <1>1 DEF WithBlock
<1>5. /\ Sane(g) /\ SameBlockCounts(f, g) /\ SameInodeCounts(f, g)
      /\ g.dirs = f.dirs /\ g.ino = f.ino /\ g.blk = x
  BY ONLY Sane(f), <1>3, <1>4, SetBlkFacts
<1> QED BY <1>3, <1>5

\* A record made of an inode's parts is one.
LEMMA InodeIn ==
  ASSUME NEW mode \in {"dir", "file"}, NEW links \in Int, NEW ext \in Seq(Blk)
  PROVE  /\ Inode(mode, links, ext) \in InodeType
         /\ Inode(mode, links, ext).mode = mode /\ Inode(mode, links, ext).ext = ext
         /\ Inode(mode, links, ext).links = links
BY DEF Inode, InodeType

\* A new inode is nobody's.
LEMMA NewInode ==
  ASSUME NEW f, Sane(f), NEW L, NEW mvd, Good(f, L, mvd), NEW r, r = AllocInode(f)
  PROVE  \/ r = Err(f, "NoSpace")
         \/ /\ r.res = "ok" /\ Sane(r.fs) /\ r.val \in Ino \ L /\ r.val \in r.fs.iused
            /\ Leaves(f, r.fs, L) /\ Good(r.fs, L, mvd) /\ SameTallies(f, r.fs, Ino)
<1>1. CASE r = Err(f, "NoSpace")
  BY <1>1
<1>2. CASE /\ r.res = "ok" /\ r.val \in Ino \ f.iused
           /\ Sane(r.fs) /\ SameBlockCounts(f, r.fs) /\ r.fs.iused = f.iused \cup {r.val}
           /\ r.fs.ino = f.ino /\ r.fs.blk = f.blk /\ r.fs.dirs = f.dirs
  <2>1. Owns(f, L) BY DEF Good
  <2>2. r.val \notin L /\ SameTallies(f, r.fs, Ino) BY <1>2, <2>1 DEF Owns, SameTallies
  <2>3. Leaves(f, r.fs, L) BY <1>2, <2>1 DEF Leaves, Owns, SameBlockCounts
  <2>4. Good(r.fs, L, mvd) BY <2>3, LeavesGood
  <2> QED BY <1>2, <2>2, <2>3, <2>4
<1> QED BY <1>1, <1>2, AllocInodeFacts

\* A file without blocks.
Emptied(f, i) == WithInode(f, i, Inode("file", 1, << >>))

\* In g the inode i is one, and nobody of K has changed.
FileMade(f, g, i, K) ==
  /\ Sane(g) /\ SameBlockCounts(f, g) /\ SameInodeCounts(f, g) /\ g.blk = f.blk
  /\ g.ino[i].mode = "file" /\ g.ino[i].links = 1 /\ g.ino[i].ext = << >> /\ Held(g, i) = {}
  /\ g.dirs = f.dirs
  /\ Leaves(f, g, K \ {i}) /\ Owns(g, K \cup {i})
  /\ \A j \in Ino \ {i} : g.ino[j] = f.ino[j]

\* The new inode of touch and write_file is an empty file.
LEMMA EmptyFile ==
  ASSUME NEW f, Sane(f), NEW i \in f.iused, NEW K, Owns(f, K),
         NEW g, g = Emptied(f, i)
  PROVE  FileMade(f, g, i, K)
<1>1. i \in Ino /\ f.iused \subseteq Ino
  BY DEF Sane, FsType
<1>2. PICK v : v = Inode("file", 1, << >>)
  OBVIOUS
<1>3. /\ v \in InodeType /\ v.mode = "file" /\ v.links = 1 /\ v.ext = << >>
      /\ Extents(v.ext) <= MaxExtents
  <2>1. PICK s : s = << >> OBVIOUS
  <2>2. "file" \in {"dir", "file"} /\ 1 \in Int /\ s \in Seq(Blk) BY <2>1
  <2>3. /\ Inode("file", 1, s) \in InodeType
        /\ Inode("file", 1, s).mode = "file" /\ Inode("file", 1, s).ext = s
        /\ Inode("file", 1, s).links = 1
    BY ONLY <2>2, InodeIn
  <2> QED BY <1>2, <2>1, <2>3, FewExtents
<1>4. /\ Sane(g) /\ SameBlockCounts(f, g) /\ SameInodeCounts(f, g)
      /\ g.blk = f.blk /\ g.ino[i] = v /\ g.dirs = f.dirs
      /\ \A j \in Ino \ {i} : g.ino[j] = f.ino[j]
  <2>1. g = WithInode(f, i, v) BY <1>2 DEF Emptied
  <2> QED BY ONLY Sane(f), <1>1, <1>3, <2>1, SetInodeFacts
<1>5. Leaves(f, g, K \ {i})
  <2>1. K \subseteq Ino BY <1>1 DEF Owns
  <2> QED BY <1>4, <2>1 DEF Leaves, Owns, SameBlockCounts, SameInodeCounts
<1>6. Held(g, i) = {} /\ IsInjective(g.ino[i].ext)
  <2>1. DOMAIN << >> = {} OBVIOUS
  <2> QED BY <1>3, <1>4, <2>1 DEF Held, ToSet, IsInjective
<1>7. Owns(g, K \cup {i})
  <2>1. Owns(g, K \ {i}) BY <1>5, LeavesFacts, OwnsFewer
  <2>2. i \in g.iused BY <1>4 DEF SameInodeCounts
  <2>3. Owns(g, (K \ {i}) \cup {i}) BY <1>6, <2>1, <2>2, OwnsMore
  <2>4. (K \ {i}) \cup {i} = K \cup {i} OBVIOUS
  <2> QED BY <2>3, <2>4
<1> QED BY <1>3, <1>4, <1>5, <1>6, <1>7 DEF FileMade

\* The directory d of f has the new inode i under the name n in g.
NewEntry(f, g, L, d, i, n, ft) ==
  \E e : e.name = n /\ e.ft = ft /\ Gets(L, Modes(f), Ents(f), Modes(g), Ents(g), d, i, e)

\* A new node gets its entry, or the directory has no room for it.
LEMMA NewNode ==
  ASSUME NEW f, Sane(f), NEW L, NEW mvd, Good(f, L, mvd), NEW d \in DirsOf(L, Modes(f)),
         NEW i \in Ino \ L, Owns(f, L \cup {i}), NEW n \in Names \cup Dots,
         \A x \in Entries(f, d) : x.name # n, NEW ft \in {"dir", "file"},
         f.ino[i].mode = ft,
         ft = "dir" => NamesOnce(f, i) /\ OnlyDots(Entries(f, i), i, d),
         NEW r, r = DirAdd(f, d, n, i, ft)
  PROVE  /\ Sane(r.fs) /\ SameTallies(f, r.fs, Ino)
         /\ r.res # "ok" => Good(r.fs, L, mvd) /\ Leaves(f, r.fs, L)
         /\ r.res = "ok" /\ n \notin Dots =>
              /\ Good(r.fs, L \cup {i}, mvd)
              /\ NewEntry(f, r.fs, L, d, i, n, ft)
<1> DEFINE e == Entry(i, n, ft, 1)
<1>1. /\ d \in Ino /\ d \in L /\ L \subseteq Ino /\ Owns(f, L) /\ Held(f, d) \subseteq f.bused
      /\ i # NoIno
  BY PlaceFacts, InoFacts DEF Good, Owns
<1>2. e \in EntryType /\ e.ino = i /\ e.name = n /\ e.ft = ft
  <2>1. ft \in {"", "dir", "file"}
    BY ONLY ft \in {"dir", "file"}
  <2>2. i \in Ino BY ONLY i \in Ino \ L
  <2>3. n \in Names \cup Dots BY ONLY n \in Names \cup Dots
  <2>4. PICK one \in Int : one = 1 OBVIOUS
  <2>5. PICK k : k = Entry(i, n, ft, one) OBVIOUS
  <2>6. k \in EntryType /\ k.ino = i /\ k.name = n /\ k.ft = ft
    BY ONLY <2>1, <2>2, <2>3, one \in Int, <2>5 DEF Entry, EntryType, Dots
  <2>7. e = k BY <2>4, <2>5
  <2> HIDE DEF e
  <2> QED BY <2>6, <2>7
<1> HIDE DEF e
<1>3. (r.res # "ok" /\ Kept(f, r.fs)) \/ (r.res = "ok" /\ Added(f, r.fs, d, e))
  BY <1>1, <1>2, DirAddFacts DEF e
<1>4. CASE r.res # "ok" /\ Kept(f, r.fs)
  <2>1. Leaves(f, r.fs, L) BY <1>1, <1>4, KeptLeaves
  <2>2. Good(r.fs, L, mvd) BY <2>1, LeavesGood
  <2> QED BY <1>4, <2>1, <2>2 DEF Kept, SameTallies
<1>5. CASE r.res = "ok" /\ Added(f, r.fs, d, e)
  <2>1. PICK g : g = r.fs OBVIOUS
  <2>2. Added(f, g, d, e) BY <1>5, <2>1
  <2>3. Leaves(f, g, (L \cup {i}) \ {d}) /\ Owns(g, L \cup {i})
    BY <1>1, <2>2, AddedOwns
  <2>4. Leaves(g, g, L)
    BY <2>3 DEF Leaves, Owns
  <2>5. i # d BY <1>1
  <2>6. /\ g.ino[i].mode = e.ft
        /\ e.ft = "dir" => NamesOnce(g, i) /\ OnlyDots(Entries(g, i), i, d)
    BY <1>2, <2>3, <2>5, LeavesFacts
  <2>7. ASSUME n \notin Dots
        PROVE  Good(g, L \cup {i}, mvd) /\ NewEntry(f, g, L, d, i, n, ft)
    <3>1. e.ino = i /\ e.name \notin Dots /\ \A x \in Entries(f, d) : x.name # e.name
      BY <1>2, <2>7
    <3>2. /\ Good(g, L \cup {i}, mvd)
          /\ Gets(L, Modes(f), Ents(f), Modes(g), Ents(g), d, i, e)
      BY ONLY Sane(f), Good(f, L, mvd), d \in DirsOf(L, Modes(f)), i \in Ino \ L, <2>2, <2>3,
              <2>4, <2>6, <3>1, AddedGood
    <3> QED BY <1>2, <3>2 DEF NewEntry
  <2>8. SameTallies(f, g, Ino)
    BY <2>2 DEF Added, SameTallies
  <2> QED BY <1>5, <2>1, <2>7, <2>8 DEF Added
<1> QED BY <1>3, <1>4, <1>5

\* The new node is counted: what the command did after the entry was there did
\* not touch the tree.
LEMMA TallyNew ==
  ASSUME NEW f, NEW L \in SUBSET Ino, NEW mvd, Tally(f, L, mvd), NEW h, NEW d, NEW i, NEW n,
         NEW ft, NewEntry(f, h, L, d, i, n, ft), NEW u, Sane(u),
         Stays(L \cup {i}, Modes(h), Ents(h), Modes(u), Ents(u)),
         NodeCounted(f.dirs, Links(f), u.dirs, Links(u), L, d, i, ft)
  PROVE  Tally(u, L \cup {i}, mvd)
<1>1. PICK e : e.ft = ft /\ Gets(L, Modes(f), Ents(f), Modes(h), Ents(h), d, i, e)
  BY DEF NewEntry
<1>2. PICK M : M = Modes(f) OBVIOUS
<1>3. PICK E : E = Ents(f) OBVIOUS
<1>4. PICK M2 : M2 = Modes(h) OBVIOUS
<1>5. PICK E2 : E2 = Ents(h) OBVIOUS
<1>6. PICK M3 : M3 = Modes(u) OBVIOUS
<1>7. PICK E3 : E3 = Ents(u) OBVIOUS
<1>8. Gets(L, M, E, M2, E2, d, i, e) /\ Stays(L \cup {i}, M2, E2, M3, E3)
  BY <1>1, <1>2, <1>3, <1>4, <1>5, <1>6, <1>7
<1>9. Gets(L, M, E, M3, E3, d, i, e)
  BY ONLY <1>8, GetsKept
<1>10. GetsNode(f, u, L, d, i, e)
  BY <1>1, <1>2, <1>3, <1>6, <1>7, <1>9 DEF GetsNode
<1> QED BY <1>10, TallyAdded

\* A new file is counted by its one link.
LEMMA TallyNewFile ==
  ASSUME NEW f, NEW L \in SUBSET Ino, NEW mvd, Tally(f, L, mvd), NEW d, NEW i, NEW n,
         NEW u, Sane(u), NewEntry(f, u, L, d, i, n, "file"),
         SameTallies(f, u, L \cup {i}), f.ino[i].links = 1
  PROVE  Tally(u, L \cup {i}, mvd)
<1>1. i \in Ino /\ d \in L
  BY DEF NewEntry, Gets, DirsOf
<1>2. Stays(L \cup {i}, Modes(u), Ents(u), Modes(u), Ents(u))
  BY DEF Stays
<1>3. \A j \in L \cup {i} : Links(u)[j] = Links(f)[j]
  BY <1>1 DEF SameTallies, Links
<1>4. Links(f)[i] = 1 /\ u.dirs = f.dirs
  BY <1>1 DEF SameTallies, Links
<1>5. NodeCounted(f.dirs, Links(f), u.dirs, Links(u), L, d, i, "file")
  BY <1>1, <1>3, <1>4 DEF NodeCounted
<1> QED BY <1>2, <1>5, TallyNew

-----------------------------------------------------------------------------
(* The commands *)

\* What a command with a last name n leaves: the structures are sound, and there
\* is a tree, rightly counted, unless the name is "." or "..".
Fine(g, n, mvd) == Sane(g) /\ (n \notin Dots => \E K : Good(g, K, mvd) /\ Tally(g, K, mvd))

\* A path leads nowhere or to a directory, and then to an entry or to none.
LEMMA PlaceCases ==
  ASSUME NEW f, Sane(f), NEW L, NEW mvd, Good(f, L, mvd), NEW p \in Paths,
         mvd => ~Dotted(p), cwd \in Seq(Names)
  PROVE  /\ Leaf(p) \in Names \cup Dots /\ (mvd => Leaf(p) \notin Dots)
         /\ \/ ParentOf(f, p) = NoIno /\ Lookup(f, ParentOf(f, p), Leaf(p)) = Free(0)
            \/ /\ ParentOf(f, p) \in DirsOf(L, Modes(f)) /\ ParentOf(f, p) # NoIno
               /\ \/ /\ Lookup(f, ParentOf(f, p), Leaf(p)) = Free(0)
                     /\ \A x \in Entries(f, ParentOf(f, p)) : x.name # Leaf(p)
                  \/ /\ Lookup(f, ParentOf(f, p), Leaf(p)) \in Entries(f, ParentOf(f, p))
                     /\ Lookup(f, ParentOf(f, p), Leaf(p)).name = Leaf(p)
                     /\ Lookup(f, ParentOf(f, p), Leaf(p)).ino # NoIno
<1>1. Leaf(p) \in Names \cup Dots /\ (mvd => Leaf(p) \notin Dots)
  BY PathFacts
<1>2. PICK d : d = ParentOf(f, p)
  OBVIOUS
<1>3. PICK n : n = Leaf(p)
  OBVIOUS
<1>4. d \in Places(f, L) /\ L \subseteq Ino
  BY <1>2, ParentFacts, PlaceFacts
<1>5. CASE d = NoIno
  <2>1. Lookup(f, d, n) = Free(0) BY <1>5 DEF Lookup
  <2> QED BY <1>1, <1>2, <1>3, <1>5, <2>1
<1>6. CASE d # NoIno
  <2>1. d \in DirsOf(L, Modes(f)) /\ d \in Ino BY <1>4, <1>6, PlaceFacts DEF Places
  <2>2. \/ Lookup(f, d, n) = Free(0) /\ \A x \in Entries(f, d) : x.name # n
        \/ Lookup(f, d, n) \in Entries(f, d) /\ Lookup(f, d, n).name = n
    BY <1>6, <2>1, LookupFacts
  <2>3. \A x \in Entries(f, d) : x.ino # NoIno BY <2>1, TypesAt, InoFacts
  <2> QED BY <1>1, <1>2, <1>3, <1>6, <2>1, <2>2, <2>3
<1> QED BY <1>5, <1>6

\* touch leaves a tree.
LEMMA TouchFine ==
  ASSUME NEW f, Sane(f), NEW L, NEW mvd, Good(f, L, mvd), Tally(f, L, mvd),
         NEW p \in Paths,
         mvd => ~Dotted(p), cwd \in Seq(Names)
  PROVE  Fine(Touch(f, p).fs, Leaf(p), mvd)
<1> DEFINE d == ParentOf(f, p)
           n == Leaf(p)
           a == AllocInode(f)
           f2 == Emptied(a.fs, a.val)
           r == DirAdd(f2, d, n, a.val, "file")
<1>1. Fine(f, n, mvd)
  BY DEF Fine
<1>2. CASE d = NoIno \/ Has(f, d, n)
  <2>1. Touch(f, p).fs = f BY <1>2 DEF Touch, Err, Ok, Ret
  <2> QED BY <1>1, <2>1
<1>3. CASE d # NoIno /\ ~Has(f, d, n) /\ a.res # "ok"
  <2>1. Touch(f, p) = a BY <1>3 DEF Touch, Then
  <2> HIDE DEF a
  <2>2. a = Err(f, "NoSpace") BY <1>3, NewInode DEF a
  <2> QED BY <1>1, <2>1, <2>2 DEF Err, Ret
<1>4. CASE d # NoIno /\ ~Has(f, d, n) /\ a.res = "ok"
  <2>1. Touch(f, p) = r
    BY <1>4 DEF Touch, Then, WithInode, Emptied
  <2>2. /\ Sane(a.fs) /\ a.val \in Ino \ L /\ a.val \in a.fs.iused
        /\ Leaves(f, a.fs, L) /\ Good(a.fs, L, mvd) /\ SameTallies(f, a.fs, Ino)
    <3>1. \/ a = Err(f, "NoSpace")
          \/ /\ a.res = "ok" /\ Sane(a.fs) /\ a.val \in Ino \ L /\ a.val \in a.fs.iused
             /\ Leaves(f, a.fs, L) /\ Good(a.fs, L, mvd) /\ SameTallies(f, a.fs, Ino)
      BY NewInode
    <3> HIDE DEF a
    <3> QED BY <1>4, <3>1 DEF Err, Ret
  <2>3. d \in DirsOf(L, Modes(f)) /\ n \in Names \cup Dots /\ d \in L /\ L \subseteq Ino
    BY <1>4, PlaceCases, PlaceFacts
  <2>4. \A x \in Entries(f, d) : x.name # n
    BY <1>4, <2>3, NoSuch
  <2> HIDE DEF a, d, n
  <2>5. PICK i : i = a.val OBVIOUS
  <2>6. PICK g : g = f2 OBVIOUS
  <2>7. /\ Sane(g) /\ g.ino[i].mode = "file" /\ Leaves(a.fs, g, L) /\ Owns(g, L \cup {i})
        /\ SameTallies(a.fs, g, L) /\ g.ino[i].links = 1
    <3>1. Sane(a.fs) /\ i \in a.fs.iused /\ Owns(a.fs, L)
          /\ g = Emptied(a.fs, i)
      BY <2>2, <2>5, <2>6 DEF Good
    <3>2. PICK h : h = a.fs OBVIOUS
    <3>3. Sane(h) /\ i \in h.iused /\ Owns(h, L) /\ g = Emptied(h, i)
      BY <3>1, <3>2
    <3>4. FileMade(h, g, i, L)
      BY ONLY <3>3, EmptyFile
    <3>5. L \ {i} = L BY <2>2, <2>5
    <3>6. SameTallies(h, g, L) BY <2>3, <3>4, <3>5 DEF FileMade, SameTallies
    <3> QED BY <3>2, <3>4, <3>5, <3>6 DEF FileMade
  <2>8. Leaves(f, g, L) /\ Good(g, L, mvd) /\ Tally(g, L, mvd)
    <3>1. Leaves(f, g, L) /\ Good(g, L, mvd) BY <2>2, <2>7, LeavesTrans, LeavesGood
    <3>2. SameTallies(f, g, L) /\ L \in SUBSET Ino BY <2>2, <2>3, <2>7 DEF SameTallies
    <3> QED BY <3>1, <3>2, LeavesTally
  <2>9. d \in DirsOf(L, Modes(g)) /\ \A x \in Entries(g, d) : x.name # n
    <3>1. g.ino[d].mode = f.ino[d].mode /\ Entries(g, d) = Entries(f, d)
      BY <2>3, <2>8, LeavesFacts
    <3> QED BY <2>3, <2>4, <3>1 DEF DirsOf, Modes
  <2>10. PICK ft : ft = "file" OBVIOUS
  <2>11. PICK s : s = r OBVIOUS
  <2>12. /\ i \in Ino \ L /\ ft \in {"dir", "file"} /\ g.ino[i].mode = ft
         /\ ft = "dir" => NamesOnce(g, i) /\ OnlyDots(Entries(g, i), i, d)
         /\ s = DirAdd(g, d, n, i, ft)
    BY <2>2, <2>5, <2>6, <2>7, <2>10, <2>11
  <2>13. /\ Sane(s.fs) /\ SameTallies(g, s.fs, Ino)
         /\ s.res # "ok" => Good(s.fs, L, mvd) /\ Leaves(g, s.fs, L)
         /\ s.res = "ok" /\ n \notin Dots =>
              Good(s.fs, L \cup {i}, mvd) /\ NewEntry(g, s.fs, L, d, i, n, ft)
    BY ONLY <2>3, <2>7, <2>8, <2>9, <2>12, NewNode
  <2>14. CASE s.res # "ok"
    <3>1. SameTallies(g, s.fs, L) /\ L \in SUBSET Ino BY <2>3, <2>13 DEF SameTallies
    <3>2. Tally(s.fs, L, mvd) BY <2>8, <2>13, <2>14, <3>1, LeavesTally
    <3> QED BY <2>1, <2>11, <2>13, <2>14, <3>2 DEF Fine, n
  <2>15. CASE s.res = "ok" /\ n \notin Dots
    <3>1. SameTallies(g, s.fs, L \cup {i}) /\ L \in SUBSET Ino
      BY <2>3, <2>12, <2>13 DEF SameTallies
    <3>2. NewEntry(g, s.fs, L, d, i, n, "file") BY <2>10, <2>13, <2>15
    <3>3. Tally(s.fs, L \cup {i}, mvd)
      BY <2>7, <2>8, <2>13, <3>1, <3>2, TallyNewFile
    <3> QED BY <2>1, <2>11, <2>13, <2>15, <3>3 DEF Fine, n
  <2>16. CASE s.res = "ok" /\ n \in Dots
    BY <2>1, <2>11, <2>13, <2>16 DEF Fine, n
  <2> QED BY <2>14, <2>15, <2>16
<1> QED BY <1>2, <1>3, <1>4

\* The first block of a directory: itself and its parent.
LEMMA DotBlockFacts ==
  ASSUME NEW i \in Ino, NEW p \in Ino
  PROVE  LET b == DotEntries(i, p) IN
         /\ b \in BlockType /\ Uniq(b.ents) /\ OnlyDots(Used(b.ents), i, p)
<1>1. PICK x : x = Entry(i, ".", "dir", 1)
  OBVIOUS
<1>2. PICK y : y = Entry(p, "..", "dir", SLOTS - 1)
  OBVIOUS
<1>3. SLOTS - 1 \in Int /\ i # NoIno /\ p # NoIno
  BY Consts, InoFacts
<1>4. /\ x \in EntryType /\ x.ino = i /\ x.name = "." /\ x.ft = "dir"
      /\ y \in EntryType /\ y.ino = p /\ y.name = ".." /\ y.ft = "dir"
  <2>1. x \in EntryType BY <1>1 DEF Entry, EntryType
  <2>2. y \in EntryType BY <1>2, <1>3 DEF Entry, EntryType
  <2> QED BY <1>1, <1>2, <2>1, <2>2 DEF Entry
<1>5. PICK s : s = <<x, y>>
  OBVIOUS
<1>6. s \in Seq(EntryType) /\ Len(s) = 2 /\ DOMAIN s = 1 .. 2 /\ s[1] = x /\ s[2] = y
  BY <1>4, <1>5
<1>7. DotEntries(i, p) = DirBlock(s)
  BY <1>1, <1>2, <1>5 DEF DotEntries
<1>8. DirBlock(s) \in BlockType /\ DirBlock(s).ents = s
  BY <1>6, DirBlockType
<1>9. Uniq(s)
  BY <1>4, <1>6 DEF Uniq
<1>10. \A z : z \in Used(s) <=> z = x \/ z = y
  <2>1. 1 \in 1 .. 2 /\ 2 \in 1 .. 2 /\ \A k \in 1 .. 2 : k = 1 \/ k = 2 OBVIOUS
  <2>2. \A z : z \in ToSet(s) <=> z = x \/ z = y BY <1>6, <2>1 DEF ToSet
  <2> QED BY <1>3, <1>4, <2>2 DEF Used
<1>11. OnlyDots(Used(s), i, p)
  BY <1>4, <1>10 DEF OnlyDots, Dots
<1> QED BY <1>7, <1>8, <1>9, <1>11

\* In g the inode i is an empty directory in p, with a block that was free.
DirMade(f, g, i, p) ==
  /\ Sane(g) /\ g.iused = f.iused /\ g.dirs = f.dirs
  /\ \A j \in Ino \ {i} : g.ino[j] = f.ino[j]
  /\ g.ino[i].mode = "dir" /\ g.ino[i].links = 2 /\ NamesOnce(g, i) /\ OnlyDots(Entries(g, i), i, p)
  /\ \E b \in Blk \ f.bused :
       /\ \A c \in Blk \ f.bused : b <= c
       /\ g.bused = f.bused \cup {b} /\ Held(g, i) = {b} /\ IsInjective(g.ino[i].ext)
       /\ \A c \in Blk \ {b} : g.blk[c] = f.blk[c]

\* mkdir's directory: there is no block for it, or it is there and empty.
LEMMA NewDirFacts ==
  ASSUME NEW f, Sane(f), NEW i \in Ino, NEW p \in Ino, NEW r, r = NewDir(f, i, p)
  PROVE  \/ r = Err(f, "NoSpace") /\ Blk \subseteq f.bused
         \/ r.res = "ok" /\ DirMade(f, r.fs, i, p)
<1>1. PICK a : a = AllocBlock(f)
  OBVIOUS
<1>2. CASE a = Err(f, "NoSpace") /\ Blk \subseteq f.bused
  <2>1. r = a BY <1>1, <1>2 DEF NewDir, Then, Err, Ret
  <2> QED BY <1>2, <2>1
<1>3. CASE /\ a.res = "ok" /\ a.val \in Blk \ f.bused
           /\ \A c \in Blk \ f.bused : a.val <= c
           /\ Sane(a.fs) /\ SameNodes(f, a.fs)
           /\ a.fs.bused = f.bused \cup {a.val} /\ a.fs.dirs = f.dirs
  <2>1. PICK b : b = a.val OBVIOUS
  <2>2. PICK v : v = DotEntries(i, p) OBVIOUS
  <2>3. v \in BlockType /\ Uniq(v.ents) /\ OnlyDots(Used(v.ents), i, p)
    BY <2>2, DotBlockFacts
  <2>4. PICK h : h = a.fs OBVIOUS
  <2>5. PICK f2 : f2 = WithBlock(h, b, v) OBVIOUS
  <2>6. /\ Sane(f2) /\ SameBlockCounts(h, f2) /\ SameInodeCounts(h, f2)
        /\ f2.ino = h.ino /\ f2.blk[b] = v /\ f2.dirs = h.dirs
        /\ \A c \in Blk \ {b} : f2.blk[c] = h.blk[c]
    <3>1. Sane(h) /\ b \in Blk BY <1>3, <2>1, <2>4
    <3> QED BY ONLY <3>1, <2>3, <2>5, SetBlockFacts
  <2>7. PICK s : s = <<b>> OBVIOUS
  <2>8. s \in Seq(Blk) /\ DOMAIN s = {1} /\ s[1] = b /\ Extents(s) <= MaxExtents
    BY <1>3, <2>1, <2>7, FewExtents
  <2>9. PICK w : w = Inode("dir", 2, s) OBVIOUS
  <2>10. w \in InodeType /\ w.mode = "dir" /\ w.ext = s /\ w.links = 2
    BY <2>8, <2>9 DEF Inode, InodeType
  <2>11. PICK g : g = WithInode(f2, i, w) OBVIOUS
  <2>12. /\ Sane(g) /\ SameBlockCounts(f2, g) /\ SameInodeCounts(f2, g)
         /\ g.blk = f2.blk /\ g.ino[i] = w /\ g.dirs = f2.dirs
         /\ \A j \in Ino \ {i} : g.ino[j] = f2.ino[j]
    <3>1. Sane(f2) /\ Extents(w.ext) <= MaxExtents BY <2>6, <2>8, <2>10
    <3> QED BY ONLY <3>1, <2>10, <2>11, i \in Ino, SetInodeFacts
  <2>13. r.res = "ok" /\ r.fs = g
    <3>1. r = Ok([a.fs EXCEPT !.blk[a.val] = DotEntries(i, p),
                              !.ino[i] = Inode("dir", 2, <<a.val>>)])
      BY <1>1, <1>3 DEF NewDir, Then
    <3>2. r = Ok([h EXCEPT !.blk[b] = v, !.ino[i] = w])
      BY <2>1, <2>2, <2>4, <2>7, <2>9, <3>1
    <3>3. [h EXCEPT !.blk[b] = v, !.ino[i] = w] = g
      BY <2>5, <2>11 DEF WithBlock, WithInode
    <3> QED BY <3>2, <3>3 DEF Ok, Ret
  <2>14. Held(g, i) = {b} /\ IsInjective(g.ino[i].ext)
    <3>1. ToSet(s) = {b} /\ IsInjective(s) BY <2>8 DEF ToSet, IsInjective
    <3> QED BY <2>10, <2>12, <3>1 DEF Held
  <2>15. NamesOnce(g, i) /\ Entries(g, i) = Used(v.ents)
    <3>1. g.blk[b] = v BY <2>6, <2>12
    <3>2. \A e : e \in Entries(g, i) <=> e \in Used(v.ents) BY <2>14, <3>1, EntriesAre
    <3>3. NamesOnce(g, i) BY <2>3, <2>14, <3>1 DEF NamesOnce
    <3> QED BY <3>2, <3>3
  <2>16. \E c \in Blk \ f.bused :
           /\ \A k \in Blk \ f.bused : c <= k
           /\ g.bused = f.bused \cup {c} /\ Held(g, i) = {c} /\ IsInjective(g.ino[i].ext)
           /\ \A k \in Blk \ {c} : g.blk[k] = f.blk[k]
    <3>1. b \in Blk \ f.bused /\ (\A k \in Blk \ f.bused : b <= k)
      BY <1>3, <2>1
    <3>2. g.bused = f.bused \cup {b}
      BY <1>3, <2>1, <2>4, <2>6, <2>12 DEF SameBlockCounts
    <3>3. \A k \in Blk \ {b} : g.blk[k] = f.blk[k]
      BY <1>3, <2>4, <2>6, <2>12 DEF SameNodes
    <3> QED BY <2>14, <3>1, <3>2, <3>3
  <2>17. g.iused = f.iused
    BY <1>3, <2>4, <2>6, <2>12 DEF SameNodes, SameInodeCounts
  <2>18. \A j \in Ino \ {i} : g.ino[j] = f.ino[j]
    BY <1>3, <2>4, <2>6, <2>12 DEF SameNodes
  <2>19. g.dirs = f.dirs
    BY <1>3, <2>4, <2>6, <2>12
  <2>20. g.ino[i].mode = "dir" /\ g.ino[i].links = 2
    BY <2>10, <2>12
  <2>21. OnlyDots(Entries(g, i), i, p)
    BY <2>3, <2>15
  <2>22. DirMade(f, g, i, p)
    BY <2>12, <2>15, <2>16, <2>17, <2>18, <2>19, <2>20, <2>21 DEF DirMade
  <2> QED BY <2>13, <2>22
<1> QED BY <1>1, <1>2, <1>3, AllocBlockFacts

\* The new directory owns its block; the others are left alone.
LEMMA DirMadeOwns ==
  ASSUME NEW f, Sane(f), NEW K \in SUBSET Ino, Owns(f, K), NEW i \in f.iused, i \notin K, NEW p,
         NEW g, DirMade(f, g, i, p)
  PROVE  Leaves(f, g, K) /\ Owns(g, K \cup {i})
<1>1. f.bused \subseteq Blk
  BY DEF Sane, FsType
<1>2. PICK b \in Blk \ f.bused :
        /\ g.bused = f.bused \cup {b} /\ Held(g, i) = {b} /\ IsInjective(g.ino[i].ext)
        /\ \A c \in Blk \ {b} : g.blk[c] = f.blk[c]
  BY DEF DirMade
<1>3. g.iused = f.iused /\ \A j \in K : g.ino[j] = f.ino[j]
  BY DEF DirMade
<1>4. \A j \in K : Held(f, j) \subseteq f.bused
  BY DEF Owns
<1>5. Leaves(f, g, K)
  BY <1>1, <1>2, <1>3, <1>4 DEF Leaves, Owns
<1>6. Owns(g, K) /\ \A j \in K : Held(g, i) \cap Held(g, j) = {}
  BY <1>2, <1>4, <1>5, LeavesFacts
<1>7. Owns(g, K \cup {i})
  BY <1>2, <1>3, <1>6, OwnsMore
<1> QED BY <1>5, <1>7

\* In h the links of d are n, delta more directories are counted in the group of i,
\* and the tree is that of f.
Recounted(f, h, d, n, i, delta) ==
  /\ Sane(h) /\ h.ino[d].links = n
  /\ \A j \in Ino \ {d} : h.ino[j].links = f.ino[j].links
  /\ h.dirs = MoreDirs(f.dirs, i, delta)
  /\ \A K, mvd : Good(f, K, mvd) =>
       Good(h, K, mvd) /\ Stays(K, Modes(f), Ents(f), Modes(h), Ents(h))

\* A change of the counts after a command changes nothing else.
LEMMA CountsFine ==
  ASSUME NEW f, Sane(f), NEW d \in Ino, NEW n \in Int, NEW i \in Ino, NEW delta \in Int,
         NEW h, h = BumpUsedDirs([f EXCEPT !.ino[d].links = n], i, delta)
  PROVE  Recounted(f, h, d, n, i, delta)
<1>1. PICK g : g = WithLinks(f, d, n)
  OBVIOUS
<1>2. /\ Sane(g) /\ \A K : K \subseteq Ino /\ Owns(f, K) => Leaves(f, g, K)
      /\ g.dirs = f.dirs /\ g.ino[d].links = n
      /\ \A j \in Ino \ {d} : g.ino[j].links = f.ino[j].links
  BY ONLY <1>1, Sane(f), d \in Ino, n \in Int, LinksFacts
<1>3. /\ Sane(h) /\ (\A K : Owns(g, K) => Leaves(g, h, K)) /\ h.ino = g.ino
      /\ h.dirs = MoreDirs(g.dirs, i, delta)
  <2>1. h = BumpUsedDirs(g, i, delta) BY <1>1 DEF WithLinks
  <2>2. Sane(g) BY <1>2
  <2> QED BY ONLY <2>1, <2>2, i \in Ino, delta \in Int, BumpLeaves
<1>4. ASSUME NEW K, NEW mvd, Good(f, K, mvd)
      PROVE  Good(h, K, mvd) /\ Stays(K, Modes(f), Ents(f), Modes(h), Ents(h))
  <2>1. K \in SUBSET Ino /\ Owns(f, K) BY <1>4 DEF Good, Graph
  <2>2. Leaves(f, g, K) BY <1>2, <2>1
  <2>3. Leaves(g, h, K) BY <1>3, <2>1, <2>2, LeavesFacts
  <2>4. Leaves(f, h, K) BY <2>2, <2>3, LeavesTrans
  <2> QED BY <1>4, <2>1, <2>4, LeavesGood, LeavesStays
<1>5. h.dirs = MoreDirs(f.dirs, i, delta)
  <2>1. g.dirs = f.dirs BY <1>2
  <2> QED BY ONLY <1>3, <2>1
<1> QED BY <1>2, <1>3, <1>4, <1>5 DEF Recounted

\* mkdir leaves a tree.
LEMMA MkdirFine ==
  ASSUME NEW f, Sane(f), NEW L, NEW mvd, Good(f, L, mvd), Tally(f, L, mvd),
         NEW p \in Paths,
         mvd => ~Dotted(p), cwd \in Seq(Names)
  PROVE  Fine(Mkdir(f, p).fs, Leaf(p), mvd)
<1> DEFINE d == ParentOf(f, p)
           n == Leaf(p)
           a == AllocInode(f)
           m == NewDir(a.fs, a.val, d)
           r == DirAdd(m.fs, d, n, a.val, "dir")
<1>1. Fine(f, n, mvd)
  BY DEF Fine
<1>2. CASE d = NoIno \/ Has(f, d, n)
  <2>1. Mkdir(f, p).fs = f BY <1>2 DEF Mkdir, Err, Ok, Ret
  <2> QED BY <1>1, <2>1
<1>3. CASE d # NoIno /\ ~Has(f, d, n) /\ a.res # "ok"
  <2>1. Mkdir(f, p) = a BY <1>3 DEF Mkdir, Then
  <2> HIDE DEF a
  <2>2. a = Err(f, "NoSpace") BY <1>3, NewInode DEF a
  <2> QED BY <1>1, <2>1, <2>2 DEF Err, Ret
<1>4. CASE d # NoIno /\ ~Has(f, d, n) /\ a.res = "ok"
  <2>1. Mkdir(f, p) =
          Then(m, LAMBDA f2, x :
          Then(DirAdd(f2, d, n, a.val, "dir"), LAMBDA f3, y :
            Ok(BumpUsedDirs([f3 EXCEPT !.ino[d].links = @ + 1], a.val, 1))))
    BY <1>4 DEF Mkdir, Then
  <2>2. /\ Sane(a.fs) /\ a.val \in Ino \ L /\ a.val \in a.fs.iused
        /\ Leaves(f, a.fs, L) /\ Good(a.fs, L, mvd) /\ SameTallies(f, a.fs, Ino)
    <3>1. \/ a = Err(f, "NoSpace")
          \/ /\ a.res = "ok" /\ Sane(a.fs) /\ a.val \in Ino \ L /\ a.val \in a.fs.iused
             /\ Leaves(f, a.fs, L) /\ Good(a.fs, L, mvd) /\ SameTallies(f, a.fs, Ino)
      BY NewInode
    <3> HIDE DEF a
    <3> QED BY <1>4, <3>1 DEF Err, Ret
  <2>3. d \in DirsOf(L, Modes(f)) /\ n \in Names \cup Dots /\ d \in L /\ L \subseteq Ino
    BY <1>4, PlaceCases, PlaceFacts
  <2>4. \A x \in Entries(f, d) : x.name # n
    BY <1>4, <2>3, NoSuch
  <2> HIDE DEF a, d, n
  <2>5. PICK i : i = a.val OBVIOUS
  <2>6. PICK f1 : f1 = a.fs OBVIOUS
  <2>7. m = Err(f1, "NoSpace") \/ (m.res = "ok" /\ DirMade(f1, m.fs, i, d))
    <3>1. Sane(f1) /\ i \in Ino /\ d \in Ino BY <2>2, <2>3, <2>5, <2>6
    <3>2. PICK q : q = NewDir(f1, i, d) OBVIOUS
    <3>3. q = Err(f1, "NoSpace") \/ (q.res = "ok" /\ DirMade(f1, q.fs, i, d))
      BY <3>1, <3>2, NewDirFacts
    <3> QED BY <2>5, <2>6, <3>2, <3>3
  <2>8. CASE m = Err(f1, "NoSpace")
    <3>1. Mkdir(f, p) = m
      <4> HIDE DEF m
      <4>1. m.res # "ok" BY <2>8 DEF Err, Ret
      <4> QED BY <2>1, <4>1 DEF Then
    <3>2. m.fs = f1
      <4> HIDE DEF m
      <4> QED BY <2>8 DEF Err, Ret
    <3>3. Fine(f1, n, mvd)
      <4>1. SameTallies(f, f1, L) /\ L \in SUBSET Ino BY <2>2, <2>3, <2>6 DEF SameTallies
      <4>2. Tally(f1, L, mvd) BY <2>2, <2>6, <4>1, LeavesTally
      <4> QED BY <2>2, <2>6, <4>2 DEF Fine
    <3> QED BY <3>1, <3>2, <3>3 DEF n
  <2>9. CASE m.res = "ok" /\ DirMade(f1, m.fs, i, d)
    <3>1. Mkdir(f, p) =
            Then(r, LAMBDA f3, y :
              Ok(BumpUsedDirs([f3 EXCEPT !.ino[d].links = @ + 1], i, 1)))
      BY <2>1, <2>5, <2>9 DEF Then
    <3>2. PICK g : g = m.fs OBVIOUS
    <3>3. DirMade(f1, g, i, d) BY <2>9, <3>2
    <3>4. /\ Sane(f1) /\ i \in f1.iused /\ i \in Ino \ L /\ L \in SUBSET Ino /\ Owns(f1, L)
          /\ Good(f1, L, mvd) /\ Leaves(f, f1, L)
      BY <2>2, <2>3, <2>5, <2>6 DEF Good
    <3>5. Leaves(f1, g, L) /\ Owns(g, L \cup {i})
      BY ONLY <3>3, <3>4, DirMadeOwns
    <3>6. /\ Sane(g) /\ g.ino[i].mode = "dir" /\ g.ino[i].links = 2 /\ NamesOnce(g, i)
          /\ OnlyDots(Entries(g, i), i, d)
      BY <3>3 DEF DirMade
    <3>7. Leaves(f, g, L) /\ Good(g, L, mvd) /\ Tally(g, L, mvd)
      <4>1. Leaves(f, g, L) /\ Good(g, L, mvd) BY <3>4, <3>5, LeavesTrans, LeavesGood
      <4>2. SameTallies(f1, g, L)
        <5>1. L \subseteq Ino \ {i} BY <3>4
        <5> QED BY <3>3, <5>1 DEF DirMade, SameTallies
      <4>3. SameTallies(f, g, L) BY <2>2, <2>3, <2>6, <4>2 DEF SameTallies
      <4> QED BY <3>4, <4>1, <4>3, LeavesTally
    <3>8. d \in DirsOf(L, Modes(g)) /\ \A x \in Entries(g, d) : x.name # n
      <4>1. g.ino[d].mode = f.ino[d].mode /\ Entries(g, d) = Entries(f, d)
        BY <2>3, <3>7, LeavesFacts
      <4> QED BY <2>3, <2>4, <4>1 DEF DirsOf, Modes
    <3>9. PICK ft : ft = "dir" OBVIOUS
    <3>10. PICK s : s = r OBVIOUS
    <3>11. /\ ft \in {"dir", "file"} /\ g.ino[i].mode = ft
           /\ ft = "dir" => NamesOnce(g, i) /\ OnlyDots(Entries(g, i), i, d)
           /\ s = DirAdd(g, d, n, i, ft)
      BY <2>5, <3>2, <3>6, <3>9, <3>10
    <3>12. /\ Sane(s.fs) /\ SameTallies(g, s.fs, Ino)
           /\ s.res # "ok" => Good(s.fs, L, mvd) /\ Leaves(g, s.fs, L)
           /\ s.res = "ok" /\ n \notin Dots =>
                Good(s.fs, L \cup {i}, mvd) /\ NewEntry(g, s.fs, L, d, i, n, ft)
      BY ONLY <2>3, <3>4, <3>5, <3>6, <3>7, <3>8, <3>11, NewNode
    <3> HIDE DEF r
    <3>13. CASE s.res # "ok"
      <4>1. Mkdir(f, p) = s BY <3>1, <3>10, <3>13 DEF Then
      <4>2. Fine(s.fs, n, mvd)
        <5>1. SameTallies(g, s.fs, L) /\ L \in SUBSET Ino BY <2>3, <3>12 DEF SameTallies
        <5>2. Tally(s.fs, L, mvd) BY <3>7, <3>12, <3>13, <5>1, LeavesTally
        <5> QED BY <3>12, <3>13, <5>2 DEF Fine
      <4> QED BY <4>1, <4>2 DEF n
    <3>14. CASE s.res = "ok"
      <4>1. PICK h : h = s.fs OBVIOUS
      <4>2. PICK k : k = h.ino[d].links + 1 OBVIOUS
      <4>3. PICK u : u = BumpUsedDirs([h EXCEPT !.ino[d].links = k], i, 1) OBVIOUS
      <4>4. Mkdir(f, p) = Ok(u)
        <5>1. Mkdir(f, p) = Ok(BumpUsedDirs([h EXCEPT !.ino[d].links = @ + 1], i, 1))
          BY <3>1, <3>10, <3>14, <4>1 DEF Then
        <5>2. [h EXCEPT !.ino[d].links = @ + 1] = [h EXCEPT !.ino[d].links = k]
          BY <4>2
        <5> QED BY <4>3, <5>1, <5>2
      <4>5. Sane(h) /\ d \in Ino /\ k \in Int /\ i \in Ino /\ 1 \in Int
        <5>1. Sane(h) /\ d \in Ino BY <2>3, <3>12, <4>1
        <5>2. h.ino[d] \in InodeType BY <5>1, TypesAt
        <5>3. k \in Int BY <4>2, <5>2 DEF InodeType
        <5> QED BY <3>4, <5>1, <5>3
      <4>6. Recounted(h, u, d, k, i, 1)
        BY ONLY <4>3, <4>5, CountsFine
      <4>7. Fine(u, n, mvd)
        <5>1. CASE n \in Dots
          BY <4>6, <5>1 DEF Fine, Recounted
        <5>2. CASE n \notin Dots
          <6>1. /\ Good(h, L \cup {i}, mvd) /\ NewEntry(g, h, L, d, i, n, ft)
                /\ SameTallies(g, h, Ino)
            BY <3>12, <3>14, <4>1, <5>2
          <6>2. /\ Sane(u) /\ Good(u, L \cup {i}, mvd)
                /\ Stays(L \cup {i}, Modes(h), Ents(h), Modes(u), Ents(u))
            BY <4>6, <6>1 DEF Recounted
          <6>3. d \in L /\ i # d /\ L \cup {i} \subseteq Ino BY <2>3, <3>4
          <6>4. \A j \in L \ {d} : Links(u)[j] = Links(g)[j]
            BY <4>6, <6>1, <6>3 DEF Recounted, SameTallies, Links
          <6>5. Links(u)[i] = 2 /\ Links(u)[d] = Links(g)[d] + 1
            BY <3>6, <4>2, <4>6, <6>1, <6>3 DEF Recounted, SameTallies, Links
          <6>6. u.dirs = [g.dirs EXCEPT ![GroupOfIno(i)] = Max({@ + 1, 0})]
            BY <4>6, <6>1 DEF Recounted, SameTallies, MoreDirs
          <6>7. NodeCounted(g.dirs, Links(g), u.dirs, Links(u), L, d, i, ft)
            BY <3>9, <6>4, <6>5, <6>6 DEF NodeCounted
          <6>8. Tally(u, L \cup {i}, mvd)
            BY <3>4, <3>7, <6>1, <6>2, <6>7, TallyNew
          <6> QED BY <6>2, <6>8 DEF Fine
        <5> QED BY <5>1, <5>2
      <4>8. Mkdir(f, p).fs = u BY <4>4 DEF Ok, Ret
      <4> QED BY <4>7, <4>8 DEF n
    <3> QED BY <3>13, <3>14
  <2> QED BY <2>7, <2>8, <2>9
<1> QED BY <1>2, <1>3, <1>4

\* What rm and rmdir do to an inode of the tree before its entry goes.
FreeNode(f, i) == FreeInode(FreeExtents(f, f.ino[i].ext), i)

\* The blocks and the inode of a node are given back and everybody else left alone.
LEMMA FreeNodeFacts ==
  ASSUME NEW f, Sane(f), NEW L, NEW mvd, Good(f, L, mvd), NEW i \in L, NEW g, g = FreeNode(f, i)
  PROVE  Sane(g) /\ Leaves(f, g, L \ {i}) /\ g.ino = f.ino /\ g.blk = f.blk
         /\ g.dirs = f.dirs
<1>1. L \subseteq Ino /\ Owns(f, L)
  BY PlaceFacts DEF Good
<1>2. PICK s : s = f.ino[i].ext
  OBVIOUS
<1>3. PICK h : h = FreeExtents(f, s)
  OBVIOUS
<1>4. Sane(h) /\ SameNodes(f, h) /\ h.bused = f.bused \ Held(f, i) /\ h.dirs = f.dirs
  <2>1. s \in Seq(Blk) /\ IsInjective(s) /\ ToSet(s) \subseteq f.bused /\ ToSet(s) = Held(f, i)
    BY <1>1, <1>2, TypesAt DEF Owns, Held
  <2> QED BY <1>3, <2>1, FreeExtentsFacts
<1>5. /\ Sane(g) /\ SameBlockCounts(h, g) /\ g.iused = h.iused \ {i}
      /\ g.ino = h.ino /\ g.blk = h.blk /\ g.dirs = h.dirs
  <2>1. i \in h.iused BY <1>1, <1>4 DEF Owns, SameNodes
  <2>2. g = FreeInode(h, i) BY <1>2, <1>3 DEF FreeNode
  <2> QED BY <1>4, <2>1, <2>2, FreeInodeFacts
<1>6. Leaves(f, g, L \ {i})
  <2>1. \A j \in L \ {i} : Held(f, j) \subseteq f.bused \ Held(f, i) /\ j \in f.iused \ {i}
    BY <1>1 DEF Owns
  <2> QED BY <1>4, <1>5, <2>1 DEF Leaves, SameNodes, SameBlockCounts
<1> QED BY <1>4, <1>5, <1>6 DEF SameNodes

\* The entry of a node that has been given back goes.
LEMMA DeleteFacts ==
  ASSUME NEW f, Sane(f), NEW L, NEW mvd, Good(f, L, mvd), NEW d \in DirsOf(L, Modes(f)),
         NEW e \in Entries(f, d), NEW i \in L, i = e.ino, NEW n, n = e.name,
         NEW r, r = DirDel(FreeNode(f, i), d, n)
  PROVE  /\ r.res = "ok" /\ Sane(r.fs) /\ SameTallies(f, r.fs, Ino)
         /\ n \notin Dots /\ (f.ino[i].mode = "dir" => \A x \in Entries(f, i) : x.name \in Dots)
              => /\ Good(r.fs, L \ {i}, mvd)
                 /\ Loses(L, Modes(f), Ents(f), Modes(r.fs), Ents(r.fs), d, i, e)
<1>1. PICK g : g = FreeNode(f, i)
  OBVIOUS
<1>2. Sane(g) /\ Leaves(f, g, L \ {i}) /\ g.ino = f.ino /\ g.blk = f.blk /\ g.dirs = f.dirs
  BY ONLY <1>1, Sane(f), Good(f, L, mvd), i \in L, FreeNodeFacts
<1>3. L \subseteq Ino /\ d \in L /\ d \in Ino /\ Owns(f, L) /\ NamesOnce(f, d)
  BY PlaceFacts DEF Good
<1>4. Entries(g, d) = Entries(f, d) /\ NamesOnce(g, d)
  BY <1>2, <1>3, SameDir
<1>5. r.res = "ok" /\ Removed(g, r.fs, d, n)
  <2>1. r = DirDel(g, d, n) BY <1>1
  <2>2. (r = Err(g, "NoPath") /\ \A x \in Entries(g, d) : x.name # n)
          \/ (r.res = "ok" /\ Removed(g, r.fs, d, n))
    BY <1>2, <1>3, <1>4, <2>1, DirDelFacts
  <2> QED BY <1>4, <2>2
<1>6. ASSUME n \notin Dots, f.ino[i].mode = "dir" => \A x \in Entries(f, i) : x.name \in Dots
      PROVE  /\ Good(r.fs, L \ {i}, mvd)
             /\ Loses(L, Modes(f), Ents(f), Modes(r.fs), Ents(r.fs), d, i, e)
  <2>1. PICK h : h = r.fs OBVIOUS
  <2>2. \A j \in L \ {i, d} : Held(g, d) \cap Held(g, j) = {}
    BY <1>2, <1>3 DEF Owns, Held
  <2>3. Removed(g, h, d, e.name) /\ e.name \notin Dots BY <1>5, <1>6, <2>1
  <2>4. /\ Good(h, L \ {i}, mvd)
        /\ Loses(L, Modes(f), Ents(f), Modes(h), Ents(h), d, i, e)
    BY ONLY Sane(f), Good(f, L, mvd), d \in DirsOf(L, Modes(f)), e \in Entries(f, d), i = e.ino,
            <1>2, <1>6, <2>2, <2>3, RemovedGood
  <2> QED BY <2>1, <2>4
<1>7. SameTallies(f, r.fs, Ino)
  BY <1>2, <1>5 DEF Removed, SameTallies
<1> QED BY <1>5, <1>6, <1>7 DEF Removed

\* rm leaves a tree.
LEMMA RmFine ==
  ASSUME NEW f, Sane(f), NEW L, NEW mvd, Good(f, L, mvd), Tally(f, L, mvd),
         NEW p \in Paths,
         mvd => ~Dotted(p), cwd \in Seq(Names)
  PROVE  Fine(Rm(f, p).fs, Leaf(p), mvd)
<1>1. PICK d : d = ParentOf(f, p)
  OBVIOUS
<1>2. PICK n : n = Leaf(p)
  OBVIOUS
<1>3. PICK e : e = Lookup(f, d, n)
  OBVIOUS
<1>4. Fine(f, n, mvd)
  BY DEF Fine
<1>5. Rm(f, p) = IF e.ino = NoIno THEN Err(f, "NoPath")
                 ELSE IF e.ft # "file" THEN Err(f, "IsDir")
                 ELSE DirDel(FreeNode(f, e.ino), d, n)
  BY <1>1, <1>2, <1>3 DEF Rm, FreeNode
<1>6. CASE e.ino = NoIno \/ e.ft # "file"
  <2>1. Rm(f, p).fs = f BY <1>5, <1>6 DEF Err, Ret
  <2> QED BY <1>2, <1>4, <2>1
<1>7. CASE e.ino # NoIno /\ e.ft = "file"
  <2>1. Free(0).ino = NoIno BY FreeType
  <2>2. d \in DirsOf(L, Modes(f)) /\ e \in Entries(f, d) /\ e.name = n /\ (mvd => n \notin Dots)
    BY <1>1, <1>2, <1>3, <1>7, <2>1, PlaceCases
  <2>3. e.ino \in L /\ n \notin Dots /\ f.ino[e.ino].mode = "file"
    BY <1>7, <2>2, EntryLeads
  <2>4. PICK i : i = e.ino OBVIOUS
  <2>5. PICK r : r = DirDel(FreeNode(f, i), d, n) OBVIOUS
  <2>6. i \in L /\ i = e.ino /\ n = e.name BY <2>2, <2>3, <2>4
  <2>7. /\ r.res = "ok" /\ Sane(r.fs) /\ SameTallies(f, r.fs, Ino)
        /\ n \notin Dots /\ (f.ino[i].mode = "dir" => \A x \in Entries(f, i) : x.name \in Dots)
              => /\ Good(r.fs, L \ {i}, mvd)
                 /\ Loses(L, Modes(f), Ents(f), Modes(r.fs), Ents(r.fs), d, i, e)
    BY ONLY Sane(f), Good(f, L, mvd), <2>2, <2>5, <2>6, DeleteFacts
  <2>8. Fine(r.fs, n, mvd)
    <3>1. /\ Good(r.fs, L \ {i}, mvd)
          /\ Loses(L, Modes(f), Ents(f), Modes(r.fs), Ents(r.fs), d, i, e)
      BY <2>3, <2>4, <2>7
    <3>2. L \in SUBSET Ino /\ d \in Ino BY <2>2, PlaceFacts
    <3>3. \A j \in Ino : Links(r.fs)[j] = Links(f)[j] BY <2>7 DEF SameTallies, Links
    <3>4. r.fs.dirs = f.dirs BY <2>7 DEF SameTallies
    <3>5. NodeUncounted(f.dirs, Links(f), r.fs.dirs, Links(r.fs), L, d, i, e.ft)
      BY <1>7, <3>2, <3>3, <3>4 DEF NodeUncounted
    <3>6. LosesNode(f, r.fs, L, d, i, e) BY <3>1, <3>5 DEF LosesNode
    <3>7. Tally(r.fs, L \ {i}, mvd) BY <3>2, <3>6, TallyRemoved
    <3> QED BY <2>7, <3>1, <3>7 DEF Fine
  <2>9. Rm(f, p) = r BY <1>5, <1>7, <2>4, <2>5
  <2> QED BY <1>2, <2>8, <2>9
<1> QED BY <1>6, <1>7

\* rmdir leaves a tree.
LEMMA RmdirFine ==
  ASSUME NEW f, Sane(f), NEW L, NEW mvd, Good(f, L, mvd), Tally(f, L, mvd),
         NEW p \in Paths,
         mvd => ~Dotted(p), cwd \in Seq(Names)
  PROVE  Fine(Rmdir(f, p).fs, Leaf(p), mvd)
<1>1. PICK d : d = ParentOf(f, p)
  OBVIOUS
<1>2. PICK n : n = Leaf(p)
  OBVIOUS
<1>3. PICK e : e = Lookup(f, d, n)
  OBVIOUS
<1>4. Fine(f, n, mvd)
  BY DEF Fine
<1> DEFINE full == \E c \in Entries(f, e.ino) : c.name \notin {".", ".."}
           q == DirDel(FreeNode(f, e.ino), d, n)
           v == BumpUsedDirs([q.fs EXCEPT !.ino[d].links = Max({@ - 1, 0})], e.ino, -1)
<1>5. Rmdir(f, p) =
        IF e.ino = NoIno THEN Err(f, "NoPath")
        ELSE IF e.ft # "dir" THEN Err(f, "NotDir")
        ELSE IF full THEN Err(f, "NotEmpty")
        ELSE IF q.res = "ok" THEN Ok(v) ELSE q
  BY <1>1, <1>2, <1>3 DEF Rmdir, FreeNode, Then
<1>6. CASE e.ino = NoIno \/ e.ft # "dir" \/ full
  <2> HIDE DEF q, full, v
  <2>1. Rmdir(f, p).fs = f BY <1>5, <1>6 DEF Err, Ret
  <2> QED BY <1>2, <1>4, <2>1
<1>7. CASE e.ino # NoIno /\ e.ft = "dir" /\ ~full
  <2>1. Free(0).ino = NoIno BY FreeType
  <2>2. d \in DirsOf(L, Modes(f)) /\ e \in Entries(f, d) /\ e.name = n /\ (mvd => n \notin Dots)
    BY <1>1, <1>2, <1>3, <1>7, <2>1, PlaceCases
  <2>3. e.ino \in L
    BY <2>2, EntryLeads
  <2>4. PICK i : i = e.ino OBVIOUS
  <2>5. PICK r : r = DirDel(FreeNode(f, i), d, n) OBVIOUS
  <2>6. i \in L /\ i = e.ino /\ n = e.name BY <2>2, <2>3, <2>4
  <2>7. /\ r.res = "ok" /\ Sane(r.fs) /\ SameTallies(f, r.fs, Ino)
        /\ n \notin Dots /\ (f.ino[i].mode = "dir" => \A x \in Entries(f, i) : x.name \in Dots)
              => /\ Good(r.fs, L \ {i}, mvd)
                 /\ Loses(L, Modes(f), Ents(f), Modes(r.fs), Ents(r.fs), d, i, e)
    BY ONLY Sane(f), Good(f, L, mvd), <2>2, <2>5, <2>6, DeleteFacts
  <2>8. n \notin Dots => /\ Good(r.fs, L \ {i}, mvd)
                         /\ Loses(L, Modes(f), Ents(f), Modes(r.fs), Ents(r.fs), d, i, e)
    BY <1>7, <2>4, <2>7 DEF Dots
  <2>9. PICK h : h = r.fs OBVIOUS
  <2>10. PICK k : k = Max({h.ino[d].links - 1, 0}) OBVIOUS
  <2>11. PICK u : u = BumpUsedDirs([h EXCEPT !.ino[d].links = k], i, -1) OBVIOUS
  <2>12. Rmdir(f, p) = Ok(u)
    <3>1. q = r BY <2>4, <2>5
    <3>2. Rmdir(f, p) = Ok(v)
      <4> HIDE DEF full, q, v
      <4> QED BY <1>5, <1>7, <2>7, <3>1
    <3>3. v = BumpUsedDirs([h EXCEPT !.ino[d].links = Max({@ - 1, 0})], i, -1)
      <4> HIDE DEF q
      <4> QED BY <2>4, <2>9, <3>1
    <3>4. [h EXCEPT !.ino[d].links = Max({@ - 1, 0})] = [h EXCEPT !.ino[d].links = k]
      BY <2>10
    <3> QED BY <2>11, <3>2, <3>3, <3>4
  <2>13. Sane(h) /\ d \in Ino /\ k \in Int /\ i \in Ino /\ -1 \in Int
    <3>1. Sane(h) /\ d \in Ino /\ i \in Ino BY <2>2, <2>6, <2>7, <2>9, PlaceFacts
    <3>2. h.ino[d] \in InodeType BY <3>1, TypesAt
    <3>3. h.ino[d].links - 1 \in Int BY <3>2 DEF InodeType
    <3>4. k \in Int BY <2>10, <3>3, MaxZero
    <3> QED BY <3>1, <3>4
  <2>14. Recounted(h, u, d, k, i, -1)
    BY ONLY <2>11, <2>13, CountsFine
  <2>15. Fine(u, n, mvd)
    <3>1. CASE n \in Dots
      BY <2>14, <3>1 DEF Fine, Recounted
    <3>2. CASE n \notin Dots
      <4>1. /\ Good(h, L \ {i}, mvd) /\ SameTallies(f, h, Ino)
            /\ Loses(L, Modes(f), Ents(f), Modes(h), Ents(h), d, i, e)
        BY <2>7, <2>8, <2>9, <3>2
      <4>2. /\ Sane(u) /\ Good(u, L \ {i}, mvd)
            /\ Stays(L \ {i}, Modes(h), Ents(h), Modes(u), Ents(u))
        BY <2>14, <4>1 DEF Recounted
      <4>3. Loses(L, Modes(f), Ents(f), Modes(u), Ents(u), d, i, e)
        BY <4>1, <4>2, LosesKept
      <4>4. L \in SUBSET Ino /\ d \in Ino BY <2>2, PlaceFacts
      <4>5. /\ \A j \in L \ {i, d} : Links(u)[j] = Links(f)[j]
            /\ Links(u)[d] = k /\ Links(f)[d] = h.ino[d].links
        BY <2>14, <4>1, <4>4 DEF Recounted, SameTallies, Links
      <4>6. u.dirs = [f.dirs EXCEPT ![GroupOfIno(i)] = Max({@ - 1, 0})]
        <5>1. u.dirs = [f.dirs EXCEPT ![GroupOfIno(i)] = Max({@ + (-1), 0})]
          BY <2>14, <4>1 DEF Recounted, SameTallies, MoreDirs
        <5>2. PICK c : c = f.dirs[GroupOfIno(i)] OBVIOUS
        <5>3. c \in Int
          <6>1. GroupOfIno(i) \in Group BY <2>13, InoFacts
          <6> QED BY <5>2, <6>1 DEF Sane, FsType
        <5>4. c + (-1) = c - 1 BY <5>3
        <5>5. u.dirs = [f.dirs EXCEPT ![GroupOfIno(i)] = Max({c + (-1), 0})]
          BY <5>1, <5>2
        <5>6. u.dirs = [f.dirs EXCEPT ![GroupOfIno(i)] = Max({c - 1, 0})]
          BY ONLY <5>4, <5>5
        <5> QED BY ONLY <5>2, <5>6
      <4>7. NodeUncounted(f.dirs, Links(f), u.dirs, Links(u), L, d, i, e.ft)
        BY <1>7, <2>10, <4>5, <4>6 DEF NodeUncounted
      <4>8. LosesNode(f, u, L, d, i, e) BY <4>3, <4>7 DEF LosesNode
      <4>9. Tally(u, L \ {i}, mvd) BY <4>4, <4>8, TallyRemoved
      <4> QED BY <4>2, <4>9 DEF Fine
    <3> QED BY <3>1, <3>2
  <2>16. Rmdir(f, p).fs = u BY <2>12 DEF Ok, Ret
  <2> QED BY <1>2, <2>15, <2>16
<1> QED BY <1>6, <1>7

\* mv leaves a tree. After a directory has moved to another one its ".." may lie;
\* after it has moved below itself nothing leads to it any more.
LEMMA MvFine ==
  ASSUME NEW f, Sane(f), NEW L, NEW mvd, Good(f, L, mvd), Tally(f, L, mvd),
         NEW p \in Paths, NEW q \in Paths,
         mvd => ~Dotted(p) /\ ~Dotted(q), cwd \in Seq(Names)
  PROVE  LET r == Mv(f, p, q)
             e == Lookup(f, ParentOf(f, p), Leaf(p))
             far == r.res = "ok" /\ e.ft = "dir" /\ ParentOf(f, p) # ParentOf(f, q)
             loop == r.res = "ok" /\ e.ft = "dir" /\ e.ino \in Above(f, ParentOf(f, q))
         IN  /\ Sane(r.fs)
             /\ Leaf(p) \notin Dots /\ Leaf(q) \notin Dots /\ ~loop =>
                  \E K : Good(r.fs, K, mvd \/ far) /\ Tally(r.fs, K, mvd \/ far)
<1>1. PICK d : d = ParentOf(f, p)
  OBVIOUS
<1>2. PICK n : n = Leaf(p)
  OBVIOUS
<1>3. PICK e : e = Lookup(f, d, n)
  OBVIOUS
<1>4. PICK t : t = ParentOf(f, q)
  OBVIOUS
<1>5. PICK m : m = Leaf(q)
  OBVIOUS
<1>6. PICK a : a = DirAdd(f, t, m, e.ino, e.ft)
  OBVIOUS
<1> DEFINE r == Mv(f, p, q)
           b == DirDel(a.fs, d, n)
           far == r.res = "ok" /\ e.ft = "dir" /\ d # t
           loop == r.res = "ok" /\ e.ft = "dir" /\ e.ino \in Above(f, t)
<1>7. r = IF e.ino = NoIno \/ t = NoIno THEN Err(f, "NoPath")
          ELSE IF Has(f, t, m) THEN Err(f, "Exists")
          ELSE IF a.res = "ok" THEN b ELSE a
  BY <1>1, <1>2, <1>3, <1>4, <1>5, <1>6 DEF Mv, Then
<1> HIDE DEF r, b
<1> SUFFICES /\ Sane(r.fs)
             /\ n \notin Dots /\ m \notin Dots /\ ~loop =>
                  \E K : Good(r.fs, K, mvd \/ far) /\ Tally(r.fs, K, mvd \/ far)
  BY <1>1, <1>2, <1>3, <1>4, <1>5 DEF r
<1>8. ASSUME NEW g, Good(g, L, mvd), Tally(g, L, mvd)
      PROVE  Good(g, L, mvd \/ far) /\ Tally(g, L, mvd \/ far)
  <2> HIDE DEF far
  <2>1. CASE far
    BY <1>8, <2>1 DEF Good, Graph, DotsLead, Tally, CountsLinks
  <2>2. CASE ~far
    BY <1>8, <2>2 DEF Good, Graph, DotsLead, Tally, CountsLinks
  <2> QED BY <2>1, <2>2
<1>9. CASE e.ino = NoIno \/ t = NoIno \/ Has(f, t, m)
  <2>1. r.fs = f BY <1>7, <1>9 DEF Err, Ret
  <2> QED BY <1>8, <2>1
<1>10. CASE e.ino # NoIno /\ t # NoIno /\ ~Has(f, t, m)
  <2>1. Free(0).ino = NoIno BY FreeType
  <2>2. d \in DirsOf(L, Modes(f)) /\ e \in Entries(f, d) /\ e.name = n
    BY <1>1, <1>2, <1>3, <1>10, <2>1, PlaceCases
  <2>3. t \in DirsOf(L, Modes(f)) /\ m \in Names \cup Dots
    BY <1>4, <1>5, <1>10, PlaceCases
  <2>4. /\ t \in Ino /\ t \in L /\ d \in L /\ d \in Ino /\ L \in SUBSET Ino /\ Owns(f, L)
        /\ NamesOnce(f, d) /\ Held(f, t) \subseteq f.bused
    BY <2>2, <2>3, PlaceFacts DEF Good, Owns
  <2>5. \A x \in Entries(f, t) : x.name # m
    BY <1>10, <2>4, NoSuch
  <2>6. e \in EntryType /\ e.ino \in Ino
    BY <2>2, <2>4, TypesAt
  <2>7. PICK i : i = e.ino OBVIOUS
  <2>8. PICK ft : ft = e.ft OBVIOUS
  <2>9. PICK z : z = Entry(i, m, ft, 1) OBVIOUS
  <2>10. z \in EntryType /\ z.ino = i /\ z.name = m /\ z.ft = ft
    <3>1. ft \in {"", "dir", "file"}
      <4>1. e \in EntryType BY <2>6
      <4> QED BY ONLY <4>1, <2>8 DEF EntryType
    <3>2. i \in Ino BY ONLY <2>6, <2>7
    <3>3. m \in Names \cup Dots BY ONLY <2>3
    <3>4. PICK one \in Int : one = 1 OBVIOUS
    <3>5. PICK k : k = Entry(i, m, ft, one) OBVIOUS
    <3>6. k \in EntryType /\ k.ino = i /\ k.name = m /\ k.ft = ft
      BY ONLY <3>1, <3>2, <3>3, one \in Int, <3>5 DEF Entry, EntryType, Dots
    <3>7. z = k BY <2>9, <3>4, <3>5
    <3> QED BY <3>6, <3>7
  <2>11. (a.res # "ok" /\ Kept(f, a.fs)) \/ (a.res = "ok" /\ Added(f, a.fs, t, z))
    <3>1. Entry(i, m, ft, 1) \in EntryType /\ i # NoIno /\ a = DirAdd(f, t, m, i, ft)
      BY <1>6, <1>10, <2>7, <2>8, <2>9, <2>10
    <3> QED BY ONLY Sane(f), <2>4, <2>9, <3>1, DirAddFacts
  <2>12. CASE a.res # "ok" /\ Kept(f, a.fs)
    <3>1. r = a BY <1>7, <1>10, <2>12
    <3>2. Leaves(f, a.fs, L) BY <2>4, <2>12, KeptLeaves
    <3>3. Good(a.fs, L, mvd) BY <3>2, LeavesGood
    <3>4. SameTallies(f, a.fs, L) BY <2>12 DEF Kept, SameTallies
    <3>5. Tally(a.fs, L, mvd) BY <2>4, <3>2, <3>4, LeavesTally
    <3> QED BY <1>8, <2>12, <3>1, <3>3, <3>5 DEF Kept
  <2>13. CASE a.res = "ok" /\ Added(f, a.fs, t, z)
    <3>1. r = b BY <1>7, <1>10, <2>13
    <3>2. PICK g : g = a.fs OBVIOUS
    <3>3. Added(f, g, t, z) /\ Sane(g) BY <2>13, <3>2 DEF Added
    <3>4. Leaves(f, g, L \ {t}) BY <2>4, <3>3, AddedOwns
    <3>5. NamesOnce(g, d) /\ e \in Entries(g, d)
      <4>1. CASE d = t
        BY <2>2, <2>4, <2>5, <2>10, <3>3, <4>1 DEF Added
      <4>2. CASE d # t
        BY <2>2, <2>4, <3>4, <4>2, LeavesFacts
      <4> QED BY <4>1, <4>2
    <3>6. b.res = "ok" /\ Removed(g, b.fs, d, n)
      <4>1. b = DirDel(g, d, n) BY <3>2 DEF b
      <4>2. (b = Err(g, "NoPath") /\ \A x \in Entries(g, d) : x.name # n)
              \/ (b.res = "ok" /\ Removed(g, b.fs, d, n))
        BY <2>4, <3>3, <3>5, <4>1, DirDelFacts
      <4> QED BY <2>2, <3>5, <4>2
    <3>7. ASSUME n \notin Dots, m \notin Dots, ~loop
          PROVE  Good(r.fs, L, mvd \/ far) /\ Tally(r.fs, L, mvd \/ far)
      <4>1. PICK h : h = b.fs OBVIOUS
      <4>2. Removed(g, h, d, e.name) /\ e.name \notin Dots
        BY <2>2, <3>6, <3>7, <4>1
      <4>3. /\ z.ino = e.ino /\ z.ft = e.ft /\ z.name \notin Dots
            /\ \A x \in Entries(f, t) : x.name # z.name
        BY <2>5, <2>7, <2>8, <2>10, <3>7
      <4>4. Good(h, L, mvd \/ (e.ft = "dir" /\ d # t)) /\ MovesNode(f, h, L, d, t, e, z)
        BY ONLY Sane(f), Good(f, L, mvd), <2>2, <2>3, <3>3, <4>2, <4>3, MovedGood
      <4>5. mvd \/ (e.ft = "dir" /\ d # t) => mvd \/ far
        BY <3>1, <3>6
      <4>6. Good(h, L, mvd \/ far)
        BY <4>4, <4>5, GoodMono
      <4>7. PICK A : A = Above(f, t) OBVIOUS
      <4>8. Upward(A, L, Modes(f), Ents(f), t) /\ \A j \in A : f.ino[j].mode = "dir"
        <5>1. t \in Ino /\ f.ino[t].mode = "dir" BY <2>3, <2>4 DEF DirsOf, Modes
        <5> QED BY <2>4, <4>7, <5>1, AboveFacts
      <4>9. e.ino \notin A
        <5>1. e.ft = f.ino[e.ino].mode BY <2>2, <4>2, EntryLeads
        <5>2. e.ft = "dir" => e.ino \notin A BY <3>1, <3>6, <3>7, <4>7
        <5> QED BY <4>8, <5>1, <5>2
      <4>10. PICK m2 : m2 = (mvd \/ far) OBVIOUS
      <4>11. ~m2 => ~mvd /\ (e.ft = "dir" => d = t)
        <5>1. r.res = "ok" BY <3>1, <3>6
        <5> QED BY <4>10, <5>1
      <4>12. Tally(h, L, m2)
        BY ONLY Tally(f, L, mvd), <4>4, <4>8, <4>9, <4>11, TallyMoved
      <4>13. Tally(h, L, mvd \/ far) BY <4>10, <4>12
      <4> QED BY <3>1, <4>1, <4>6, <4>13
    <3> QED BY <3>1, <3>6, <3>7 DEF Removed
  <2> QED BY <2>11, <2>12, <2>13
<1> QED BY <1>9, <1>10

-----------------------------------------------------------------------------
(* The loop of write_file *)

\* r is what the loop has done to f: the blocks of r.val are new ones.
Written(f, r) ==
  /\ Sane(r.fs) /\ r.val \in Seq(Blk) /\ IsInjective(r.val) /\ Extents(r.val) <= MaxExtents
  /\ f.bused \subseteq r.fs.bused /\ ToSet(r.val) \subseteq r.fs.bused \ f.bused
  /\ r.fs.iused = f.iused /\ r.fs.ino = f.ino /\ r.fs.dirs = f.dirs
  /\ \A c \in f.bused : r.fs.blk[c] = f.blk[c]

\* What the loop may have done so far.
Writes(f) ==
  {r \in [fs : FsType, res : {"ok", "NoSpace", "Unsupported"}, val : Seq(Blk)] : Written(f, r)}

\* A block of data is a block.
LEMMA DataBlockType == \A d \in Payloads : DataBlock(d) \in BlockType
BY DEF DataBlock, BlockType

\* One turn of it: one block more, or the disk is full.
LEMMA WriteOneFacts ==
  ASSUME NEW f, Sane(f), NEW d \in Payloads, NEW r \in Writes(f)
  PROVE  WriteOne(r, d) \in Writes(f)
<1>1. Written(f, r) /\ r.res \in {"ok", "NoSpace", "Unsupported"}
  BY DEF Writes
<1>2. PICK a : a = AllocBlock(r.fs)
  OBVIOUS
<1>3. PICK b : b = a.val
  OBVIOUS
<1>4. PICK v : v = DataBlock(d)
  OBVIOUS
<1>5. PICK h : h = WithBlock(a.fs, b, v)
  OBVIOUS
<1>6. WriteOne(r, d) =
        IF r.res # "ok" THEN r
        ELSE IF a.res # "ok" THEN Ret(a.fs, a.res, r.val)
        ELSE IF CanAppend(r.val, b) THEN Ret(h, "ok", Append(r.val, b))
        ELSE Ret(h, "Unsupported", r.val)
  BY <1>2, <1>3, <1>4, <1>5 DEF WriteOne, WithBlock
<1>7. \A g, res, val : /\ g \in FsType /\ res \in {"ok", "NoSpace", "Unsupported"}
                       /\ val \in Seq(Blk) /\ Written(f, Ret(g, res, val))
                       => Ret(g, res, val) \in Writes(f)
  BY DEF Writes, Ret
<1>8. CASE r.res # "ok"
  BY <1>6, <1>8
<1>9. CASE r.res = "ok" /\ a = Err(r.fs, "NoSpace")
  <2>1. a.res = "NoSpace" /\ a.fs = r.fs
    BY <1>9 DEF Err, Ret
  <2>2. WriteOne(r, d) = Ret(r.fs, "NoSpace", r.val)
    BY <1>6, <1>9, <2>1
  <2>3. Ret(r.fs, "NoSpace", r.val).fs = r.fs /\ Ret(r.fs, "NoSpace", r.val).val = r.val
    BY DEF Ret
  <2>4. Written(f, Ret(r.fs, "NoSpace", r.val))
    BY <1>1, <2>3 DEF Written
  <2>5. r.fs \in FsType /\ r.val \in Seq(Blk)
    BY <1>1 DEF Written, Sane
  <2> QED BY <1>7, <2>2, <2>4, <2>5
<1>10. CASE /\ r.res = "ok" /\ a.res = "ok" /\ b \in Blk \ r.fs.bused
            /\ Sane(a.fs) /\ SameNodes(r.fs, a.fs) /\ a.fs.bused = r.fs.bused \cup {b}
            /\ a.fs.dirs = r.fs.dirs
  <2>1. v \in BlockType BY <1>4, DataBlockType
  <2>2. /\ Sane(h) /\ SameBlockCounts(a.fs, h) /\ SameInodeCounts(a.fs, h)
        /\ h.ino = a.fs.ino /\ h.dirs = a.fs.dirs
        /\ \A c \in Blk \ {b} : h.blk[c] = a.fs.blk[c]
    BY ONLY <1>5, <1>10, <2>1, SetBlockFacts
  <2>3. /\ h.iused = f.iused /\ h.ino = f.ino /\ h.bused = r.fs.bused \cup {b}
        /\ f.bused \subseteq h.bused /\ b \in h.bused \ f.bused /\ h.dirs = f.dirs
    BY <1>1, <1>10, <2>2 DEF Written, SameNodes, SameBlockCounts, SameInodeCounts
  <2>4. \A c \in f.bused : h.blk[c] = f.blk[c]
    <3>1. \A c \in f.bused : c \in Blk \ {b}
      BY <1>10, <2>3 DEF Sane, FsType
    <3> QED BY <1>1, <1>10, <2>2, <3>1 DEF Written, SameNodes
  <2>5. h \in FsType BY <2>2 DEF Sane
  <2>6. r.val \in Seq(Blk) /\ ToSet(r.val) \subseteq h.bused \ f.bused
    BY <1>1, <2>3 DEF Written
  <2>7. CASE CanAppend(r.val, b)
    <3>1. PICK s : s = Append(r.val, b) OBVIOUS
    <3>2. s \in Seq(Blk) BY <1>10, <2>6, <3>1
    <3>3. ToSet(s) = ToSet(r.val) \cup {b} /\ IsInjective(s)
      <4>1. b \notin ToSet(r.val) BY <1>1, <1>10 DEF Written
      <4> QED BY <1>1, <2>6, <3>1, <4>1, AppendFacts DEF Written
    <3>4. Extents(s) <= MaxExtents BY <2>7, <3>1 DEF CanAppend
    <3>5. Ret(h, "ok", s).fs = h /\ Ret(h, "ok", s).val = s BY DEF Ret
    <3>6. ToSet(s) \subseteq h.bused \ f.bused BY <2>3, <2>6, <3>3
    <3>7. Written(f, Ret(h, "ok", s))
      BY <2>2, <2>3, <2>4, <3>2, <3>3, <3>4, <3>5, <3>6 DEF Written
    <3>8. WriteOne(r, d) = Ret(h, "ok", s) BY <1>6, <1>10, <2>7, <3>1
    <3> QED BY <1>7, <2>5, <3>2, <3>7, <3>8
  <2>8. CASE ~CanAppend(r.val, b)
    <3>1. Ret(h, "Unsupported", r.val).fs = h /\ Ret(h, "Unsupported", r.val).val = r.val
      BY DEF Ret
    <3>2. Written(f, Ret(h, "Unsupported", r.val))
      BY <1>1, <2>2, <2>3, <2>4, <2>6, <3>1 DEF Written
    <3>3. WriteOne(r, d) = Ret(h, "Unsupported", r.val) BY <1>6, <1>10, <2>8
    <3> QED BY <1>7, <2>5, <2>6, <3>2, <3>3
  <2> QED BY <2>7, <2>8
<1> QED BY <1>1, <1>2, <1>3, <1>8, <1>9, <1>10, AllocBlockFacts DEF Written

\* All turns: LoopWithin over the blocks to write.
LEMMA WriteBlocksFacts ==
  ASSUME NEW f, Sane(f), NEW d \in Payloads
  PROVE  WriteBlocks(f, d) \in Writes(f)
<1> DEFINE N == Size(d)
           W == Writes(f)
           base == Ret(f, "ok", << >>)
           Q == [n \in 0 .. N |-> W]
           step == [n \in 1 .. N |-> [r \in W |-> WriteOne(r, d)]]
           Is(h) == h = [k \in 0 .. N |-> IF k = 0 THEN base ELSE WriteOne(h[k - 1], d)]
           after == CHOOSE h : Is(h)
<1>1. N \in Nat
  BY FsConstants
<1>2. base \in W
  <2>1. PICK s : s = << >> OBVIOUS
  <2>2. s \in Seq(Blk) /\ ToSet(s) = {} /\ IsInjective(s) /\ Extents(s) <= MaxExtents
    <3>1. DOMAIN << >> = {} OBVIOUS
    <3> QED BY <2>1, <3>1, FewExtents DEF ToSet, IsInjective
  <2>3. PICK r : r = Ret(f, "ok", s) OBVIOUS
  <2>4. r.fs = f /\ r.val = s BY <2>3 DEF Ret
  <2>5. Written(f, r) BY <2>2, <2>4 DEF Written
  <2>6. r \in [fs : FsType, res : {"ok", "NoSpace", "Unsupported"}, val : Seq(Blk)]
    <3>1. f \in FsType BY DEF Sane
    <3> QED BY <2>2, <2>3, <3>1 DEF Ret
  <2> QED BY <2>1, <2>3, <2>5, <2>6 DEF Writes
<1>3. \A n \in 0 .. N : Q[n] = W
  <2> HIDE DEF W, N
  <2> QED OBVIOUS
<1>4. \A n \in 1 .. N : \A r \in Q[n - 1] :
        step[n][r] = WriteOne(r, d) /\ step[n][r] \in Q[n]
  <2> SUFFICES ASSUME NEW n \in 1 .. N, NEW r \in Q[n - 1]
               PROVE  step[n][r] = WriteOne(r, d) /\ step[n][r] \in Q[n]
    OBVIOUS
  <2>1. n - 1 \in 0 .. N /\ n \in 0 .. N BY <1>1
  <2>2. Q[n - 1] = W /\ Q[n] = W BY <1>3, <2>1
  <2>3. r \in W BY <2>2
  <2>4. WriteOne(r, d) \in W BY <2>3, WriteOneFacts
  <2> HIDE DEF Q, W
  <2>5. step[n][r] = WriteOne(r, d) BY <2>3
  <2> QED BY <2>2, <2>4, <2>5
<1> HIDE DEF Q, step, W, N, base
<1>5. \E h : IsLoop(h, N, base, step) /\ Within(h, N, Q)
  <2>1. N \in Nat /\ base \in Q[0] /\ Leads(N, Q, step)
    <3>1. 0 \in 0 .. N BY <1>1
    <3> QED BY <1>1, <1>2, <1>3, <1>4, <3>1 DEF Leads
  <2> QED BY ONLY <2>1, LoopWithin
<1>6. PICK h : /\ h = [n \in 0 .. N |-> IF n = 0 THEN base ELSE step[n][h[n - 1]]]
               /\ \A n \in 0 .. N : h[n] \in Q[n]
  BY <1>5 DEF IsLoop, Within
<1>7. Is(h)
  <2>1. \A n \in 0 .. N : n # 0 => n \in 1 .. N /\ n - 1 \in 0 .. N BY <1>1
  <2>2. \A n \in 0 .. N : n # 0 => step[n][h[n - 1]] = WriteOne(h[n - 1], d)
    BY <1>4, <1>6, <2>1
  <2>3. \A n \in 0 .. N : (IF n = 0 THEN base ELSE step[n][h[n - 1]])
                         = (IF n = 0 THEN base ELSE WriteOne(h[n - 1], d))
    BY <2>2
  <2>4. [n \in 0 .. N |-> IF n = 0 THEN base ELSE step[n][h[n - 1]]]
          = [n \in 0 .. N |-> IF n = 0 THEN base ELSE WriteOne(h[n - 1], d)]
    BY ONLY <2>3
  <2>5. h = [n \in 0 .. N |-> IF n = 0 THEN base ELSE WriteOne(h[n - 1], d)]
    BY <1>6, <2>4
  <2> QED BY <2>5
<1>8. PICK c : c = after
  OBVIOUS
<1>9. Is(c)
  BY <1>7, <1>8
<1> HIDE DEF after
<1>10. c[0] = base /\ \A n \in 1 .. N : c[n] = WriteOne(c[n - 1], d)
  <2>1. c = [k \in 0 .. N |-> IF k = 0 THEN base ELSE WriteOne(c[k - 1], d)]
    BY <1>9
  <2>2. 0 \in 0 .. N /\ \A n \in 1 .. N : n \in 0 .. N /\ n # 0 BY <1>1
  <2> HIDE DEF Is
  <2> QED BY <2>1, <2>2
<1>11. \A n \in 0 .. N : c[n] \in Q[n]
  <2>1. N \in Nat /\ c[0] \in Q[0]
    <3>1. 0 \in 0 .. N BY <1>1
    <3> QED BY <1>1, <1>2, <1>3, <1>10, <3>1
  <2>2. \A n \in 1 .. N : c[n - 1] \in Q[n - 1] => c[n] \in Q[n]
    BY <1>4, <1>10
  <2> QED BY ONLY <2>1, <2>2, LoopStays
<1>12. c[N] \in W
  <2>1. N \in 0 .. N BY <1>1
  <2> QED BY <1>3, <1>11, <2>1
<1>13. WriteBlocks(f, d) = c[N]
  BY <1>8 DEF WriteBlocks, after, N, base
<1> QED BY <1>12, <1>13 DEF W

\* What write_file leaves of the file i, whether it got through or not.
Filled(f, g, i, K) ==
  /\ Sane(g) /\ Leaves(f, g, K \ {i}) /\ Owns(g, K \cup {i}) /\ g.ino[i].mode = "file"
  /\ g.ino[i].links = 1 /\ SameTallies(f, g, K \ {i})

\* The blocks were free, so nobody of K had them.
LEMMA WrittenLeaves ==
  ASSUME NEW f, NEW K, Owns(f, K), NEW r, Written(f, r)
  PROVE  Leaves(f, r.fs, K)
BY DEF Written, Leaves, Owns

\* write_file's way with an inode: the old blocks are given back, the new ones written.
LEMMA FillFacts ==
  ASSUME NEW f, Sane(f), NEW i \in f.iused, NEW K, Owns(f, K), NEW d \in Payloads,
         NEW r, r = Fill(f, i, d)
  PROVE  Filled(f, r.fs, i, K)
<1>1. PICK g : g = Emptied(f, i)
  OBVIOUS
<1>2. PICK w : w = WriteBlocks(g, d)
  OBVIOUS
<1>3. PICK h : h = [w.fs EXCEPT !.ino[i].ext = w.val]
  OBVIOUS
<1>4. r = IF w.res = "ok" THEN Ok(h) ELSE Err(FreeExtents(w.fs, w.val), w.res)
  BY <1>1, <1>2, <1>3 DEF Fill, Emptied, WithInode
<1>5. i \in Ino /\ f.iused \subseteq Ino /\ K \subseteq Ino
  BY DEF Sane, FsType, Owns
<1>6. FileMade(f, g, i, K)
  BY <1>1, EmptyFile
<1>7. /\ Sane(g) /\ g.ino[i].mode = "file" /\ Held(g, i) = {} /\ i \in g.iused
      /\ Leaves(f, g, K \ {i}) /\ Owns(g, K \cup {i})
      /\ g.ino[i].links = 1 /\ SameTallies(f, g, K \ {i})
  BY <1>5, <1>6 DEF FileMade, SameInodeCounts, SameTallies
<1>8. Written(g, w) /\ w.val \in Seq(Blk)
  <2>1. WriteBlocks(g, d) \in Writes(g) BY <1>7, WriteBlocksFacts
  <2> QED BY <1>2, <2>1 DEF Writes
<1>9. /\ Sane(w.fs) /\ w.fs.ino = g.ino /\ w.fs.iused = g.iused
      /\ Leaves(g, w.fs, K \cup {i}) /\ Owns(w.fs, K \cup {i}) /\ w.fs.dirs = g.dirs
  <2>1. Leaves(g, w.fs, K \cup {i}) BY <1>7, <1>8, WrittenLeaves
  <2>2. Owns(w.fs, K \cup {i}) BY <1>7, <2>1, LeavesFacts
  <2> QED BY <1>8, <2>1, <2>2 DEF Written
<1>10. CASE w.res = "ok"
  <2>1. PICK v : v = [w.fs.ino[i] EXCEPT !.ext = w.val]
    OBVIOUS
  <2>2. w.fs.ino[i] \in InodeType /\ w.fs \in FsType
    BY <1>5, <1>9 DEF Sane, FsType
  <2>3. v \in InodeType /\ v.ext = w.val /\ v.mode = "file" /\ v.links = 1
    BY <1>7, <1>8, <1>9, <2>1, <2>2 DEF InodeType
  <2>4. h = WithInode(w.fs, i, v)
    BY <1>3, <2>1 DEF WithInode
  <2>5. Extents(v.ext) <= MaxExtents
    BY <1>8, <2>3 DEF Written
  <2>6. /\ Sane(h) /\ SameBlockCounts(w.fs, h) /\ SameInodeCounts(w.fs, h)
        /\ h.blk = w.fs.blk /\ h.ino[i] = v /\ h.dirs = w.fs.dirs
        /\ \A j \in Ino \ {i} : h.ino[j] = w.fs.ino[j]
    BY ONLY <1>5, <1>9, <2>3, <2>4, <2>5, SetInodeFacts
  <2>7. Leaves(w.fs, h, K \ {i})
    <3>1. \A j \in K \ {i} : h.ino[j] = w.fs.ino[j] BY <1>5, <2>6
    <3> QED BY <1>9, <2>6, <3>1 DEF Leaves, Owns, SameBlockCounts, SameInodeCounts
  <2>8. Leaves(f, h, K \ {i})
    <3>1. Leaves(g, w.fs, K \ {i}) BY <1>9, LeavesFewer
    <3>2. Leaves(f, w.fs, K \ {i}) BY ONLY <1>7, <3>1, LeavesTrans
    <3> QED BY ONLY <2>7, <3>2, LeavesTrans
  <2>9. Owns(h, K \cup {i})
    <3>1. Owns(w.fs, K \ {i}) BY <1>9, OwnsFewer
    <3>2. Owns(h, K \ {i}) BY <2>7, <3>1, LeavesFacts
    <3>3. i \in h.iused BY <1>7, <1>9, <2>6 DEF SameInodeCounts
    <3>4. Held(h, i) = ToSet(w.val) /\ h.ino[i].ext = w.val
      BY <2>3, <2>6 DEF Held
    <3>5. Held(h, i) \subseteq h.bused /\ IsInjective(h.ino[i].ext)
      BY <1>8, <2>6, <3>4 DEF Written, SameBlockCounts
    <3>6. \A j \in K \ {i} : Held(h, i) \cap Held(h, j) = {}
      <4> SUFFICES ASSUME NEW j \in K \ {i} PROVE Held(h, i) \cap Held(h, j) = {}
        OBVIOUS
      <4>1. Held(h, j) = Held(g, j)
        <5>1. h.ino[j] = g.ino[j] BY <1>5, <1>9, <2>6
        <5> QED BY <5>1 DEF Held
      <4>2. Held(g, j) \subseteq g.bused BY <1>7 DEF Owns
      <4> QED BY <1>8, <3>4, <4>1, <4>2 DEF Written
    <3>7. Owns(h, (K \ {i}) \cup {i}) BY <3>2, <3>3, <3>5, <3>6, OwnsMore
    <3>8. (K \ {i}) \cup {i} = K \cup {i} OBVIOUS
    <3> QED BY <3>7, <3>8
  <2>10. r.fs = h BY <1>4, <1>10 DEF Ok, Ret
  <2>11. h.ino[i].links = 1 /\ SameTallies(f, h, K \ {i})
    BY <1>5, <1>7, <1>9, <2>3, <2>6 DEF SameTallies
  <2> QED BY <2>3, <2>6, <2>8, <2>9, <2>10, <2>11 DEF Filled
<1>11. CASE w.res # "ok"
  <2>1. PICK x : x = FreeExtents(w.fs, w.val)
    OBVIOUS
  <2>2. /\ Sane(x) /\ SameNodes(w.fs, x) /\ x.bused = w.fs.bused \ ToSet(w.val)
        /\ x.dirs = w.fs.dirs
    <3>1. /\ Sane(w.fs) /\ w.val \in Seq(Blk) /\ IsInjective(w.val)
          /\ ToSet(w.val) \subseteq w.fs.bused
      BY <1>8 DEF Written
    <3> QED BY ONLY <2>1, <3>1, FreeExtentsFacts
  <2>3. Leaves(w.fs, x, K \cup {i})
    <3>1. \A j \in K \cup {i} : Held(w.fs, j) \subseteq x.bused
      <4> SUFFICES ASSUME NEW j \in K \cup {i} PROVE Held(w.fs, j) \subseteq x.bused
        OBVIOUS
      <4>1. Held(w.fs, j) = Held(g, j) BY <1>9 DEF Held
      <4>2. Held(g, j) \subseteq g.bused BY <1>7 DEF Owns
      <4>3. g.bused \subseteq x.bused BY <1>8, <2>2 DEF Written
      <4> QED BY <4>1, <4>2, <4>3
    <3> QED BY <1>9, <2>2, <3>1 DEF Leaves, Owns, SameNodes
  <2>4. Leaves(f, x, K \ {i})
    <3>1. Leaves(g, w.fs, K \ {i}) /\ Leaves(w.fs, x, K \ {i}) BY <1>9, <2>3, LeavesFewer
    <3>2. Leaves(f, w.fs, K \ {i}) BY ONLY <1>7, <3>1, LeavesTrans
    <3> QED BY ONLY <3>1, <3>2, LeavesTrans
  <2>5. Owns(x, K \cup {i}) BY <1>9, <2>3, LeavesFacts
  <2>6. x.ino[i].mode = "file" BY <1>7, <1>9, <2>2 DEF SameNodes
  <2>7. r.fs = x BY <1>4, <1>11, <2>1 DEF Err, Ret
  <2>8. x.ino[i].links = 1 /\ SameTallies(f, x, K \ {i})
    BY <1>7, <1>9, <2>2 DEF SameNodes, SameTallies
  <2> QED BY <2>2, <2>4, <2>5, <2>6, <2>7, <2>8 DEF Filled
<1> QED BY <1>10, <1>11

\* A file may change as it likes if it keeps to its blocks.
LEMMA RefilledGood ==
  ASSUME NEW f, NEW L, NEW mvd, Good(f, L, mvd), NEW i \in L, f.ino[i].mode = "file",
         NEW h, Leaves(f, h, L \ {i}), Owns(h, L), h.ino[i].mode = "file"
  PROVE  Good(h, L, mvd)
<1>1. L \subseteq Ino
  BY PlaceFacts
<1>2. \A j \in L : Modes(h)[j] = Modes(f)[j]
  <2>1. \A j \in L \ {i} : h.ino[j].mode = f.ino[j].mode BY LeavesFacts
  <2> QED BY <1>1, <2>1 DEF Modes
<1>3. DirsOf(L, Modes(h)) = DirsOf(L, Modes(f)) /\ DirsOf(L, Modes(f)) \subseteq L \ {i}
  BY <1>1, <1>2 DEF DirsOf, Modes
<1>4. \A j \in DirsOf(L, Modes(f)) : Ents(h)[j] = Ents(f)[j]
  <2>1. \A j \in L \ {i} : Entries(h, j) = Entries(f, j) BY LeavesFacts
  <2> QED BY <1>1, <1>3, <2>1 DEF Ents
<1>5. Graph(L, Modes(h), Ents(h), mvd)
  <2>1. Graph(L, Modes(f), Ents(f), mvd) BY DEF Good
  <2> QED BY <1>2, <1>4, <2>1, GraphSame
<1>6. \A d \in DirsOf(L, Modes(h)) : NamesOnce(h, d)
  BY <1>3, LeavesFacts DEF Good
<1> QED BY <1>5, <1>6 DEF Good

\* And if it keeps its one link.
LEMMA RefilledTally ==
  ASSUME NEW f, NEW L \in SUBSET Ino, NEW mvd, Tally(f, L, mvd), NEW i \in L,
         f.ino[i].mode = "file",
         NEW h, Leaves(f, h, L \ {i}), SameTallies(f, h, L \ {i}), h.ino[i].mode = "file",
         h.ino[i].links = 1
  PROVE  Tally(h, L, mvd)
<1>1. \A j \in L \ {i} : h.ino[j].mode = f.ino[j].mode /\ Entries(h, j) = Entries(f, j)
  BY LeavesFacts
<1>2. TreeStays(L, Modes(f), Ents(f), Modes(h), Ents(h))
  BY <1>1 DEF TreeStays, Modes, Ents
<1>3. Links(f)[i] = 1
  <2>1. Modes(f)[i] = "file" BY DEF Modes
  <2> QED BY <2>1 DEF Tally, CountsLinks
<1>4. h.dirs = f.dirs /\ \A j \in L : Links(h)[j] = Links(f)[j]
  BY <1>3 DEF SameTallies, Links
<1>5. KeepsNodes(f, h, L)
  BY <1>2, <1>4 DEF KeepsNodes
<1> QED BY <1>5, TallyKept

\* write_file over a file of the tree.
LEMMA OverwriteGood ==
  ASSUME NEW f, Sane(f), NEW L, NEW mvd, Good(f, L, mvd), Tally(f, L, mvd),
         NEW i \in L, f.ino[i].mode = "file",
         NEW dd \in Payloads, NEW r, r = Fill(FreeExtents(f, f.ino[i].ext), i, dd)
  PROVE  Sane(r.fs) /\ Good(r.fs, L, mvd) /\ Tally(r.fs, L, mvd)
<1>1. L \subseteq Ino /\ Owns(f, L)
  BY PlaceFacts DEF Good
<1>2. PICK s : s = f.ino[i].ext
  OBVIOUS
<1>3. PICK g : g = FreeExtents(f, s)
  OBVIOUS
<1>4. Sane(g) /\ SameNodes(f, g) /\ g.bused = f.bused \ Held(f, i) /\ g.dirs = f.dirs
  <2>1. s \in Seq(Blk) /\ IsInjective(s) /\ ToSet(s) \subseteq f.bused /\ ToSet(s) = Held(f, i)
    BY <1>1, <1>2, TypesAt DEF Owns, Held
  <2> QED BY <1>3, <2>1, FreeExtentsFacts
<1>5. Leaves(f, g, L \ {i})
  <2>1. \A j \in L \ {i} : Held(f, j) \subseteq f.bused \ Held(f, i) /\ j \in f.iused
    BY <1>1 DEF Owns
  <2> QED BY <1>4, <2>1 DEF Leaves, SameNodes
<1>6. Owns(g, L \ {i}) /\ i \in g.iused
  <2>1. Owns(f, L \ {i}) BY <1>1, OwnsFewer
  <2> QED BY <1>1, <1>4, <1>5, <2>1, LeavesFacts DEF Owns, SameNodes
<1>7. PICK h : h = r.fs
  OBVIOUS
<1>8. Filled(g, h, i, L \ {i})
  <2>1. r = Fill(g, i, dd) BY <1>2, <1>3
  <2>2. Filled(g, r.fs, i, L \ {i})
    BY ONLY <1>4, <1>6, <2>1, dd \in Payloads, FillFacts
  <2> QED BY <1>7, <2>2
<1>9. (L \ {i}) \ {i} = L \ {i} /\ (L \ {i}) \cup {i} = L
  OBVIOUS
<1>10. Sane(h) /\ Leaves(g, h, L \ {i}) /\ Owns(h, L) /\ h.ino[i].mode = "file"
      /\ h.ino[i].links = 1 /\ SameTallies(g, h, L \ {i})
  BY <1>8, <1>9 DEF Filled
<1>11. Leaves(f, h, L \ {i})
  BY ONLY <1>5, <1>10, LeavesTrans
<1>12. SameTallies(f, h, L \ {i})
  BY <1>4, <1>10 DEF SameTallies, SameNodes
<1> QED BY <1>1, <1>7, <1>10, <1>11, <1>12, RefilledGood, RefilledTally

\* write_file of a new name: the entry comes first and leads to whatever the
\* inode was before; then the file is filled.
LEMMA NewFile ==
  ASSUME NEW f, Sane(f), NEW L, NEW mvd, Good(f, L, mvd), Tally(f, L, mvd),
         NEW d \in DirsOf(L, Modes(f)),
         NEW i \in Ino \ L, i \in f.iused, NEW n \in Names \cup Dots,
         \A x \in Entries(f, d) : x.name # n, NEW dd \in Payloads,
         NEW a, a = DirAdd(f, d, n, i, "file"),
         NEW r, r = IF a.res = "ok" THEN Fill(a.fs, i, dd) ELSE a
  PROVE  Fine(r.fs, n, mvd)
<1>1. /\ d \in Ino /\ d \in L /\ L \in SUBSET Ino /\ Owns(f, L) /\ Held(f, d) \subseteq f.bused
      /\ i # NoIno
  BY PlaceFacts, InoFacts DEF Good, Owns
<1>2. PICK ft : ft = "file"
  OBVIOUS
<1>3. PICK e : e = Entry(i, n, ft, 1)
  OBVIOUS
<1>4. e \in EntryType /\ e.ino = i /\ e.name = n /\ e.ft = ft
  <2>1. ft \in {"", "dir", "file"} BY <1>2
  <2>2. i \in Ino BY ONLY i \in Ino \ L
  <2>3. n \in Names \cup Dots BY ONLY n \in Names \cup Dots
  <2>4. PICK one \in Int : one = 1 OBVIOUS
  <2>5. PICK k : k = Entry(i, n, ft, one) OBVIOUS
  <2>6. k \in EntryType /\ k.ino = i /\ k.name = n /\ k.ft = ft
    BY ONLY <2>1, <2>2, <2>3, one \in Int, <2>5 DEF Entry, EntryType, Dots
  <2>7. e = k BY <1>3, <2>4, <2>5
  <2> QED BY <2>6, <2>7
<1>5. (a.res # "ok" /\ Kept(f, a.fs)) \/ (a.res = "ok" /\ Added(f, a.fs, d, e))
  <2>1. Entry(i, n, ft, 1) \in EntryType /\ a = DirAdd(f, d, n, i, ft)
    BY <1>2, <1>3, <1>4
  <2> QED BY ONLY Sane(f), <1>1, <1>3, <2>1, DirAddFacts
<1>6. CASE a.res # "ok" /\ Kept(f, a.fs)
  <2>1. Leaves(f, a.fs, L) BY <1>1, <1>6, KeptLeaves
  <2>2. Good(a.fs, L, mvd) BY <2>1, LeavesGood
  <2>3. r = a BY <1>6
  <2>4. SameTallies(f, a.fs, L) BY <1>6 DEF Kept, SameTallies
  <2>5. Tally(a.fs, L, mvd) BY <1>1, <2>1, <2>4, LeavesTally
  <2> QED BY <1>6, <2>2, <2>3, <2>5 DEF Kept, Fine
<1>7. CASE a.res = "ok" /\ Added(f, a.fs, d, e)
  <2>1. PICK g : g = a.fs OBVIOUS
  <2>2. Added(f, g, d, e) /\ Sane(g) /\ i \in g.iused BY <1>7, <2>1 DEF Added
  <2>3. Owns(g, L) BY <1>1, <2>2, AddedOwns
  <2>4. PICK h : h = r.fs OBVIOUS
  <2>5. Filled(g, h, i, L)
    <3>1. r = Fill(g, i, dd) BY <1>7, <2>1
    <3>2. Filled(g, r.fs, i, L)
      BY ONLY <2>2, <2>3, <3>1, dd \in Payloads, FillFacts
    <3> QED BY <2>4, <3>2
  <2>6. L \ {i} = L OBVIOUS
  <2>7. /\ Sane(h) /\ Leaves(g, h, L) /\ Owns(h, L \cup {i}) /\ h.ino[i].mode = e.ft
        /\ h.ino[i].links = 1 /\ SameTallies(g, h, L)
    BY <1>2, <1>4, <2>5, <2>6 DEF Filled
  <2>8. ASSUME n \notin Dots PROVE Good(h, L \cup {i}, mvd) /\ Tally(h, L \cup {i}, mvd)
    <3>1. e.ino = i /\ e.name \notin Dots /\ (\A x \in Entries(f, d) : x.name # e.name)
          /\ e.ft # "dir"
      BY <1>2, <1>4, <2>8
    <3>2. /\ Good(h, L \cup {i}, mvd)
          /\ Gets(L, Modes(f), Ents(f), Modes(h), Ents(h), d, i, e)
      BY ONLY Sane(f), Good(f, L, mvd), d \in DirsOf(L, Modes(f)), i \in Ino \ L, <2>2, <2>7,
              <3>1, AddedGood
    <3>3. SameTallies(f, h, L) BY <1>1, <2>2, <2>7 DEF Added, SameTallies
    <3>4. Links(h)[i] = 1 /\ h.dirs = f.dirs /\ \A j \in L : Links(h)[j] = Links(f)[j]
      BY <1>1, <2>7, <3>3 DEF SameTallies, Links
    <3>5. NodeCounted(f.dirs, Links(f), h.dirs, Links(h), L, d, i, e.ft)
      BY <1>1, <1>2, <1>4, <3>4 DEF NodeCounted
    <3>6. GetsNode(f, h, L, d, i, e) BY <3>2, <3>5 DEF GetsNode
    <3>7. Tally(h, L \cup {i}, mvd)
      BY <1>1, <2>7, <3>6, TallyAdded
    <3> QED BY <3>2, <3>7
  <2> QED BY <2>4, <2>7, <2>8 DEF Fine
<1> QED BY <1>5, <1>6, <1>7

\* write_file leaves a tree.
LEMMA WriteFine ==
  ASSUME NEW f, Sane(f), NEW L, NEW mvd, Good(f, L, mvd), Tally(f, L, mvd),
         NEW p \in Paths,
         mvd => ~Dotted(p), cwd \in Seq(Names), NEW dd \in Payloads
  PROVE  Fine(WriteFile(f, p, dd).fs, Leaf(p), mvd)
<1>1. PICK d : d = ParentOf(f, p)
  OBVIOUS
<1>2. PICK n : n = Leaf(p)
  OBVIOUS
<1>3. PICK e : e = Lookup(f, d, n)
  OBVIOUS
<1>4. PICK b : b = AllocInode(f)
  OBVIOUS
<1>5. PICK a : a = DirAdd(b.fs, d, n, b.val, "file")
  OBVIOUS
<1>6. PICK r : r = IF a.res = "ok" THEN Fill(a.fs, b.val, dd) ELSE a
  OBVIOUS
<1>7. PICK w : w = Fill(FreeExtents(f, f.ino[e.ino].ext), e.ino, dd)
  OBVIOUS
<1>8. WriteFile(f, p, dd) =
        IF d = NoIno THEN Err(f, "NoPath")
        ELSE IF e.ft = "dir" THEN Err(f, "IsDir")
        ELSE IF e.ft = "file" THEN w
        ELSE IF b.res = "ok" THEN r ELSE b
  BY <1>1, <1>2, <1>3, <1>4, <1>5, <1>6, <1>7 DEF WriteFile, Then
<1>9. Fine(f, n, mvd)
  BY DEF Fine
<1>10. CASE d = NoIno \/ e.ft = "dir"
  <2>1. WriteFile(f, p, dd).fs = f BY <1>8, <1>10 DEF Err, Ret
  <2> QED BY <1>2, <1>9, <2>1
<1>11. CASE d # NoIno /\ e.ft = "file"
  <2>1. Free(0).ft = "" BY DEF Free
  <2>2. d \in DirsOf(L, Modes(f)) /\ e \in Entries(f, d) /\ e.name = n /\ (mvd => n \notin Dots)
    BY <1>1, <1>2, <1>3, <1>11, <2>1, PlaceCases
  <2>3. PICK i : i = e.ino OBVIOUS
  <2>4. i \in L /\ f.ino[i].mode = "file"
    <3>1. mvd => e.name \notin Dots BY <2>2
    <3>2. /\ e.ino \in L
          /\ e.name \notin Dots => e.ino # Root /\ e.ft = f.ino[e.ino].mode
          /\ e.name \in Dots => e.ft = "dir"
      BY <2>2, <3>1, EntryLeads
    <3> QED BY <1>11, <2>3, <3>2
  <2>5. w = Fill(FreeExtents(f, f.ino[i].ext), i, dd) BY <1>7, <2>3
  <2>6. Sane(w.fs) /\ Good(w.fs, L, mvd) /\ Tally(w.fs, L, mvd)
    BY <2>4, <2>5, OverwriteGood
  <2>7. WriteFile(f, p, dd) = w BY <1>8, <1>11
  <2> QED BY <2>6, <2>7 DEF Fine
<1>12. CASE d # NoIno /\ e.ft # "dir" /\ e.ft # "file"
  <2>1. /\ d \in DirsOf(L, Modes(f)) /\ n \in Names \cup Dots
        /\ \A x \in Entries(f, d) : x.name # n
    <3>1. /\ n \in Names \cup Dots /\ (mvd => n \notin Dots)
          /\ d \in DirsOf(L, Modes(f))
          /\ \/ \A x \in Entries(f, d) : x.name # n
             \/ e \in Entries(f, d) /\ e.name = n
      BY <1>1, <1>2, <1>3, <1>12, PlaceCases
    <3>2. ASSUME e \in Entries(f, d), e.name = n PROVE FALSE
      <4>1. mvd => e.name \notin Dots BY <3>1, <3>2
      <4>2. /\ e.ino \in L
            /\ e.name \notin Dots => e.ft = f.ino[e.ino].mode
            /\ e.name \in Dots => e.ft = "dir"
        BY <3>1, <3>2, <4>1, EntryLeads
      <4>3. f.ino[e.ino] \in InodeType
        <5>1. L \subseteq Ino BY PlaceFacts
        <5> QED BY <4>2, <5>1, TypesAt
      <4> QED BY <1>12, <4>2, <4>3 DEF InodeType
    <3> QED BY <3>1, <3>2
  <2>2. \/ b = Err(f, "NoSpace")
        \/ /\ b.res = "ok" /\ Sane(b.fs) /\ b.val \in Ino \ L /\ b.val \in b.fs.iused
           /\ Leaves(f, b.fs, L) /\ Good(b.fs, L, mvd) /\ SameTallies(f, b.fs, Ino)
    BY <1>4, NewInode
  <2>3. CASE b = Err(f, "NoSpace")
    <3>1. b.res # "ok" /\ b.fs = f BY <2>3 DEF Err, Ret
    <3>2. WriteFile(f, p, dd).fs = f BY <1>8, <1>12, <3>1
    <3> QED BY <1>2, <1>9, <3>2
  <2>4. CASE /\ b.res = "ok" /\ Sane(b.fs) /\ b.val \in Ino \ L /\ b.val \in b.fs.iused
             /\ Leaves(f, b.fs, L) /\ Good(b.fs, L, mvd) /\ SameTallies(f, b.fs, Ino)
    <3>1. WriteFile(f, p, dd) = r BY <1>8, <1>12, <2>4
    <3>2. PICK g : g = b.fs OBVIOUS
    <3>3. PICK i : i = b.val OBVIOUS
    <3>4. /\ Sane(g) /\ i \in Ino \ L /\ i \in g.iused /\ Leaves(f, g, L) /\ Good(g, L, mvd)
          /\ a = DirAdd(g, d, n, i, "file")
          /\ r = IF a.res = "ok" THEN Fill(a.fs, i, dd) ELSE a
      BY <1>5, <1>6, <2>4, <3>2, <3>3
    <3>5. d \in DirsOf(L, Modes(g)) /\ \A x \in Entries(g, d) : x.name # n
      <4>1. d \in L /\ L \subseteq Ino BY <2>1, PlaceFacts
      <4>2. g.ino[d].mode = f.ino[d].mode /\ Entries(g, d) = Entries(f, d)
        BY <3>4, <4>1, LeavesFacts
      <4> QED BY <2>1, <4>1, <4>2 DEF DirsOf, Modes
    <3>6. Tally(g, L, mvd)
      <4>1. L \in SUBSET Ino BY PlaceFacts
      <4>2. SameTallies(f, g, L) BY <2>4, <3>2, <4>1 DEF SameTallies
      <4> QED BY <3>4, <4>1, <4>2, LeavesTally
    <3>7. Fine(r.fs, n, mvd)
      BY ONLY <2>1, <3>4, <3>5, <3>6, dd \in Payloads, NewFile
    <3> QED BY <1>2, <3>1, <3>7
  <2> QED BY <2>2, <2>3, <2>4
<1> QED BY <1>10, <1>11, <1>12

-----------------------------------------------------------------------------
(* cd *)

\* What cd may have in hand: an absolute path of names, not too long, or an error.
Cds ==
  {r \in [dir : Seq(Names), res : {"ok", "TooBig"}] : Len(r.dir) <= MAX_DEPTH}

\* A path without its last component.
LEMMA FrontFacts ==
  ASSUME NEW T, NEW c \in Seq(T), c # << >>
  PROVE  /\ Front(c) \in Seq(T) /\ Len(Front(c)) = Len(c) - 1
         /\ \A k \in 1 .. Len(c) - 1 : Front(c)[k] = c[k]
<1>1. Len(c) \in Nat /\ Len(c) > 0
  OBVIOUS
<1>2. /\ SubSeq(c, 1, Len(c) - 1) \in Seq(T)
      /\ Len(SubSeq(c, 1, Len(c) - 1)) = Len(c) - 1
      /\ \A k \in 1 .. Len(c) - 1 : SubSeq(c, 1, Len(c) - 1)[k] = c[k]
  <2>1. PICK m \in Int : m = Len(c) - 1
    BY <1>1
  <2>2. \A i \in 1 .. m : c[i] \in T
    BY <1>1, <2>1
  <2>3. m >= 0 BY <1>1, <2>1
  <2>4. SubSeq(c, 1, m) \in Seq(T)
    BY <2>2, <2>3
  <2>5. Len(SubSeq(c, 1, m)) = m
    BY <2>2, <2>3
  <2>6. \A k \in 1 .. m : SubSeq(c, 1, m)[k] = c[k]
    BY <2>2, <2>3
  <2> QED BY ONLY <2>1, <2>4, <2>5, <2>6
<1>3. Front(c) = SubSeq(c, 1, Len(c) - 1)
  BY DEF Front
<1> QED BY <1>2, <1>3

\* One component of the argument.
LEMMA CdStepFacts ==
  ASSUME NEW r \in Cds, NEW c \in Names \cup Dots
  PROVE  CdStep(r, c) \in Cds
<1>1. /\ r \in [dir : Seq(Names), res : {"ok", "TooBig"}] /\ r.dir \in Seq(Names)
      /\ Len(r.dir) <= MAX_DEPTH /\ Len(r.dir) \in Nat /\ MAX_DEPTH \in Nat
  BY Consts DEF Cds
<1>2. CASE c = "." \/ r.res # "ok"
  BY <1>2 DEF CdStep
<1>3. CASE c = ".." /\ ~(c = "." \/ r.res # "ok")
  <2>1. PICK s : s = IF r.dir = << >> THEN r.dir ELSE Front(r.dir)
    OBVIOUS
  <2>2. CdStep(r, c) = [r EXCEPT !.dir = s]
    BY <1>1, <1>3, <2>1 DEF CdStep
  <2>3. s \in Seq(Names) /\ Len(s) <= MAX_DEPTH
    <3>1. CASE r.dir = << >> BY <1>1, <2>1, <3>1
    <3>2. CASE r.dir # << >>
      <4>1. s \in Seq(Names) /\ Len(s) = Len(r.dir) - 1 BY <1>1, <2>1, <3>2, FrontFacts
      <4> QED BY <1>1, <4>1
    <3> QED BY <3>1, <3>2
  <2>4. PICK x : x = [r EXCEPT !.dir = s] OBVIOUS
  <2>5. x \in [dir : Seq(Names), res : {"ok", "TooBig"}] /\ x.dir = s
    BY <1>1, <2>3, <2>4
  <2> QED BY <2>2, <2>3, <2>4, <2>5 DEF Cds
<1>4. CASE c # ".." /\ ~(c = "." \/ r.res # "ok") /\ Len(r.dir) >= MAX_DEPTH
  <2>1. PICK x : x = [r EXCEPT !.res = "TooBig"] OBVIOUS
  <2>2. x \in [dir : Seq(Names), res : {"ok", "TooBig"}] /\ x.dir = r.dir
    BY <1>1, <2>1
  <2>3. CdStep(r, c) = x BY <1>4, <2>1 DEF CdStep
  <2> QED BY <1>1, <2>2, <2>3 DEF Cds
<1>5. CASE c # ".." /\ ~(c = "." \/ r.res # "ok") /\ ~(Len(r.dir) >= MAX_DEPTH)
  <2>1. PICK s : s = Append(r.dir, Cut(c)) OBVIOUS
  <2>2. Cut(c) \in Names
    BY <1>5, FsConstants DEF Cut, Dots
  <2>3. s \in Seq(Names) /\ Len(s) <= MAX_DEPTH
    BY <1>1, <1>5, <2>1, <2>2
  <2>4. PICK x : x = [r EXCEPT !.dir = s] OBVIOUS
  <2>5. x \in [dir : Seq(Names), res : {"ok", "TooBig"}] /\ x.dir = s
    BY <1>1, <2>3, <2>4
  <2>6. CdStep(r, c) = x BY <1>1, <1>5, <2>1, <2>4 DEF CdStep
  <2> QED BY <2>3, <2>5, <2>6 DEF Cds
<1> QED BY <1>2, <1>3, <1>4, <1>5

\* All of them: LoopWithin over the components.
LEMMA CandidateFacts ==
  ASSUME cwd \in Seq(Names), Len(cwd) <= MAX_DEPTH, NEW p \in Paths
  PROVE  Candidate(p) \in Cds
<1> DEFINE N == Len(p.comps)
           W == Cds
           base == [dir |-> IF p.abs THEN << >> ELSE cwd, res |-> "ok"]
           Q == [n \in 0 .. N |-> W]
           step == [n \in 1 .. N |-> [r \in W |-> CdStep(r, p.comps[n])]]
           Is(h) == h = [k \in 0 .. N |-> IF k = 0 THEN base ELSE CdStep(h[k - 1], p.comps[k])]
           after == CHOOSE h : Is(h)
<1>1. N \in Nat /\ \A n \in 1 .. N : p.comps[n] \in Names \cup Dots
  <2>1. p.comps \in Seq(Names \cup Dots) BY FsConstants DEF Dots
  <2> QED BY <2>1
<1>2. base \in W
  <2>1. PICK s : s = IF p.abs THEN << >> ELSE cwd OBVIOUS
  <2>2. s \in Seq(Names) /\ Len(s) <= MAX_DEPTH
    <3>1. MAX_DEPTH \in Nat BY Consts
    <3>2. Len(<< >>) = 0 /\ << >> \in Seq(Names) OBVIOUS
    <3> QED BY <2>1, <3>1, <3>2
  <2>3. PICK x : x = [dir |-> s, res |-> "ok"] OBVIOUS
  <2>4. x \in [dir : Seq(Names), res : {"ok", "TooBig"}] /\ x.dir = s BY <2>2, <2>3
  <2>5. x \in Cds BY <2>2, <2>4 DEF Cds
  <2> QED BY <2>1, <2>3, <2>5
<1>3. \A n \in 0 .. N : Q[n] = W
  <2> HIDE DEF W, N
  <2> QED OBVIOUS
<1>4. \A n \in 1 .. N : \A r \in Q[n - 1] :
        step[n][r] = CdStep(r, p.comps[n]) /\ step[n][r] \in Q[n]
  <2> SUFFICES ASSUME NEW n \in 1 .. N, NEW r \in Q[n - 1]
               PROVE  step[n][r] = CdStep(r, p.comps[n]) /\ step[n][r] \in Q[n]
    OBVIOUS
  <2>1. n - 1 \in 0 .. N /\ n \in 0 .. N BY <1>1
  <2>2. Q[n - 1] = W /\ Q[n] = W BY <1>3, <2>1
  <2>3. r \in W BY <2>2
  <2>4. CdStep(r, p.comps[n]) \in W BY <1>1, <2>3, CdStepFacts
  <2> HIDE DEF Q, W
  <2>5. step[n][r] = CdStep(r, p.comps[n]) BY <2>3
  <2> QED BY <2>2, <2>4, <2>5
<1> HIDE DEF Q, step, W, N, base
<1>5. \E h : IsLoop(h, N, base, step) /\ Within(h, N, Q)
  <2>1. N \in Nat /\ base \in Q[0] /\ Leads(N, Q, step)
    <3>1. 0 \in 0 .. N BY <1>1
    <3> QED BY <1>1, <1>2, <1>3, <1>4, <3>1 DEF Leads
  <2> QED BY ONLY <2>1, LoopWithin
<1>6. PICK h : /\ h = [n \in 0 .. N |-> IF n = 0 THEN base ELSE step[n][h[n - 1]]]
               /\ \A n \in 0 .. N : h[n] \in Q[n]
  BY <1>5 DEF IsLoop, Within
<1>7. Is(h)
  <2>1. \A n \in 0 .. N : n # 0 => n \in 1 .. N /\ n - 1 \in 0 .. N BY <1>1
  <2>2. \A n \in 0 .. N : n # 0 => step[n][h[n - 1]] = CdStep(h[n - 1], p.comps[n])
    BY <1>4, <1>6, <2>1
  <2>3. \A n \in 0 .. N : (IF n = 0 THEN base ELSE step[n][h[n - 1]])
                         = (IF n = 0 THEN base ELSE CdStep(h[n - 1], p.comps[n]))
    BY <2>2
  <2>4. [n \in 0 .. N |-> IF n = 0 THEN base ELSE step[n][h[n - 1]]]
          = [n \in 0 .. N |-> IF n = 0 THEN base ELSE CdStep(h[n - 1], p.comps[n])]
    BY ONLY <2>3
  <2>5. h = [n \in 0 .. N |-> IF n = 0 THEN base ELSE CdStep(h[n - 1], p.comps[n])]
    BY <1>6, <2>4
  <2> QED BY <2>5
<1>8. PICK c : c = after
  OBVIOUS
<1>9. Is(c)
  BY <1>7, <1>8
<1> HIDE DEF after
<1>10. c[0] = base /\ \A n \in 1 .. N : c[n] = CdStep(c[n - 1], p.comps[n])
  <2>1. c = [k \in 0 .. N |-> IF k = 0 THEN base ELSE CdStep(c[k - 1], p.comps[k])]
    BY <1>9
  <2>2. 0 \in 0 .. N /\ \A n \in 1 .. N : n \in 0 .. N /\ n # 0 BY <1>1
  <2> HIDE DEF Is
  <2> QED BY <2>1, <2>2
<1>11. \A n \in 0 .. N : c[n] \in Q[n]
  <2>1. N \in Nat /\ c[0] \in Q[0]
    <3>1. 0 \in 0 .. N BY <1>1
    <3> QED BY <1>1, <1>2, <1>3, <1>10, <3>1
  <2>2. \A n \in 1 .. N : c[n - 1] \in Q[n - 1] => c[n] \in Q[n]
    BY <1>4, <1>10
  <2> QED BY ONLY <2>1, <2>2, LoopStays
<1>12. c[N] \in W
  <2>1. N \in 0 .. N BY <1>1
  <2> QED BY <1>3, <1>11, <2>1
<1>13. Candidate(p) = c[N]
  BY <1>8 DEF Candidate, after, N, base
<1> QED BY <1>12, <1>13 DEF W

-----------------------------------------------------------------------------
(* mkfs *)

\* There are inodes and blocks enough for the seed directories and the root.
LEMMA SeedConsts ==
  /\ Len(Seeds) \in Nat /\ DOMAIN Seeds = 1 .. Len(Seeds)
  /\ \A k \in 1 .. Len(Seeds) : Seeds[k] \in Names
  /\ 1 .. Len(Seeds) + 1 \subseteq Ino /\ 1 .. Len(Seeds) + 1 \subseteq Blk
<1>1. Seeds \in Seq(Names)
  BY FsConstants
<1>2. Len(Seeds) \in Nat /\ DOMAIN Seeds = 1 .. Len(Seeds)
      /\ \A k \in 1 .. Len(Seeds) : Seeds[k] \in Names
  BY <1>1
<1>3. PICK I \in Nat : I = Groups * IPG
  BY Consts, Product
<1>4. PICK B \in Nat : B = Groups * BPG
  BY Consts, Product
<1>5. I > Len(Seeds) /\ B > Len(Seeds)
  <2>1. B > Len(Seeds) BY <1>4, FsConstants
  <2>2. IPG \in Nat /\ Groups \in Nat /\ Groups > 0 /\ IPG > Len(Seeds) BY FsConstants
  <2>3. Groups * IPG >= IPG BY ONLY <2>2
  <2> QED BY <1>2, <1>3, <2>1, <2>2, <2>3
<1>6. 1 .. Len(Seeds) + 1 \subseteq 1 .. I /\ 1 .. Len(Seeds) + 1 \subseteq 1 .. B
  BY <1>2, <1>5
<1> QED BY <1>2, <1>3, <1>4, <1>6 DEF Ino, Blk

\* They are all in the first group.
LEMMA SeedGroup ==
  0 \in Group /\ GroupOfIno(Root) = 0 /\ \A j \in 1 .. Len(Seeds) + 1 : GroupOfIno(j) = 0
<1>1. 0 \in Group
  BY Consts DEF Group
<1>2. ASSUME NEW j \in 1 .. Len(Seeds) + 1 PROVE GroupOfIno(j) = 0
  <2>1. j \in 1 .. Groups * IPG BY SeedConsts DEF Ino
  <2>2. Groups \in Nat /\ IPG \in Nat /\ Groups > 0 /\ IPG > 0 /\ 0 \in 0 .. Groups - 1
    BY Consts
  <2>3. (j - 1) \div IPG = 0 <=> 0 * IPG + 1 <= j /\ j <= 0 * IPG + IPG
    BY ONLY <2>1, <2>2, Quotient
  <2>4. j \in Nat /\ 1 <= j /\ j <= IPG
    <3>1. IPG > Len(Seeds) BY FsConstants
    <3> QED BY <2>2, <3>1, SeedConsts
  <2>5. 0 * IPG = 0 BY <2>2
  <2> QED BY <2>2, <2>3, <2>4, <2>5 DEF GroupOfIno
<1>3. Root \in 1 .. Len(Seeds) + 1
  BY SeedConsts DEF Root
<1> QED BY <1>1, <1>2, <1>3

\* The first group has k directories, the others have none.
FirstHas(k) == [g \in Group |-> IF g = 0 THEN k ELSE 0]

\* mkfs counts one more.
LEMMA BumpFirst ==
  ASSUME NEW k \in Nat, NEW D, D = FirstHas(k)
  PROVE  MoreDirs(D, Root, 1) = FirstHas(k + 1)
<1>1. GroupOfIno(Root) = 0 /\ 0 \in Group
  BY SeedGroup
<1>2. PICK n \in Int : n = k + 1
  OBVIOUS
<1>3. Max({n, 0}) = n
  <2>1. n > 0 BY <1>2
  <2> QED BY <2>1, MaxZero
<1>4. D[0] = k
  BY <1>1 DEF FirstHas
<1>5. Max({D[0] + 1, 0}) = n
  <2>1. D[0] + 1 = n BY <1>2, <1>4
  <2> QED BY <1>3, <2>1
<1>6. MoreDirs(D, Root, 1) = [D EXCEPT ![0] = n]
  BY <1>1, <1>5 DEF MoreDirs
<1>7. [D EXCEPT ![0] = n] = FirstHas(n)
  BY <1>1 DEF FirstHas
<1> QED BY <1>2, <1>6, <1>7

\* In every group there are as many numbers as it is large.
LEMMA GroupSize ==
  ASSUME NEW S \in Nat, S > 0, NEW g \in Group
  PROVE  Cardinality({b \in 1 .. Groups * S : (b - 1) \div S = g}) = S
<1>1. PICK lo \in Nat : lo = g * S
  BY Consts DEF Group
<1>2. \A b : b \in {c \in 1 .. Groups * S : (c - 1) \div S = g} <=> b \in lo + 1 .. lo + S
  <2>1. PICK n \in Nat : n = Groups * S BY Consts, Product
  <2>2. lo + S <= n
    <3>1. g \in Nat /\ Groups \in Nat /\ g + 1 <= Groups BY Consts DEF Group
    <3>2. (g + 1) * S <= Groups * S BY <3>1
    <3>3. (g + 1) * S = g * S + S BY <3>1
    <3> QED BY <1>1, <2>1, <3>2, <3>3
  <2>3. \A b \in 1 .. n : (b - 1) \div S = g <=> lo + 1 <= b /\ b <= lo + S
    <3>1. \A b \in 1 .. Groups * S : (b - 1) \div S = g <=> g * S + 1 <= b /\ b <= g * S + S
      <4> SUFFICES ASSUME NEW b \in 1 .. Groups * S
                   PROVE  (b - 1) \div S = g <=> g * S + 1 <= b /\ b <= g * S + S
        OBVIOUS
      <4>1. Groups \in Nat /\ S \in Nat /\ Groups > 0 /\ S > 0 /\ g \in 0 .. Groups - 1
            /\ b \in 1 .. Groups * S
        BY Consts DEF Group
      <4> QED BY ONLY <4>1, Quotient
    <3> QED BY ONLY <1>1, <2>1, <3>1
  <2>4. \A b : b \in lo + 1 .. lo + S => b \in 1 .. n
    BY ONLY lo \in Nat, S \in Nat, n \in Nat, <2>2
  <2>5. \A b : b \in {c \in 1 .. n : (c - 1) \div S = g} <=> b \in lo + 1 .. lo + S
    <3>1. \A b \in 1 .. n : b \in lo + 1 .. lo + S <=> lo + 1 <= b /\ b <= lo + S
      BY ONLY lo \in Nat, S \in Nat, n \in Nat
    <3>2. \A b \in 1 .. n : (b - 1) \div S = g <=> b \in lo + 1 .. lo + S
      BY <2>3, <3>1
    <3> QED BY <2>4, <3>2
  <2> QED BY <2>1, <2>5
<1>3. {c \in 1 .. Groups * S : (c - 1) \div S = g} = lo + 1 .. lo + S
  BY <1>2
<1>4. Cardinality(lo + 1 .. lo + S) = S
  <2>1. PICK a \in Int : a = lo + 1 OBVIOUS
  <2>2. PICK b \in Int : b = lo + S OBVIOUS
  <2>3. ~(a > b) /\ b - a + 1 = S BY <2>1, <2>2
  <2>4. Cardinality(a .. b) = b - a + 1 BY <2>3, FS_Interval
  <2> QED BY <2>1, <2>2, <2>3, <2>4
<1> QED BY <1>3, <1>4

\* The disk that mkfs starts from has its counters right.
LEMMA BlankSane ==
  /\ Sane(BlankFs) /\ BlankFs.bused = {} /\ BlankFs.iused = {Root}
  /\ BlankFs.dirs = FirstHas(0)
<1> DEFINE f == BlankFs
           c == [g \in Group |-> BPG]
           d == [g \in Group |-> IPG]
<1>1. Counted(Blk, BlkGroup, {}, c, Groups * BPG)
  <2>1. \A g \in Group : c[g] = Cardinality({x \in Blk \ {} : BlkGroup[x] = g})
    <3> SUFFICES ASSUME NEW g \in Group
                 PROVE  BPG = Cardinality({x \in Blk \ {} : BlkGroup[x] = g})
      OBVIOUS
    <3>1. {x \in Blk \ {} : BlkGroup[x] = g} = {b \in 1 .. Groups * BPG : (b - 1) \div BPG = g}
      BY DEF Blk, BlkGroup, GroupOfBlk
    <3> QED BY <3>1, Consts, GroupSize
  <2>2. Groups * BPG = Cardinality(Blk \ {})
    <3>1. Blk \ {} = Blk OBVIOUS
    <3> QED BY <3>1, BlkFacts
  <2> QED BY <2>1, <2>2 DEF Counted
<1>2. Counted(Ino, InoGroup, {}, d, Groups * IPG)
  <2>1. \A g \in Group : d[g] = Cardinality({x \in Ino \ {} : InoGroup[x] = g})
    <3> SUFFICES ASSUME NEW g \in Group
                 PROVE  IPG = Cardinality({x \in Ino \ {} : InoGroup[x] = g})
      OBVIOUS
    <3>1. {x \in Ino \ {} : InoGroup[x] = g} = {b \in 1 .. Groups * IPG : (b - 1) \div IPG = g}
      BY DEF Ino, InoGroup, GroupOfIno
    <3> QED BY <3>1, Consts, GroupSize
  <2>2. Groups * IPG = Cardinality(Ino \ {})
    <3>1. Ino \ {} = Ino OBVIOUS
    <3> QED BY <3>1, InoFacts
  <2> QED BY <2>1, <2>2 DEF Counted
<1>3. d \in [Group -> Int] /\ c \in [Group -> Int]
  BY Consts
<1>4. Counted(Ino, InoGroup, {Root}, [d EXCEPT ![InoGroup[Root]] = @ - 1], Groups * IPG - 1)
  <2>1. IsFiniteSet(Ino) /\ InoGroup \in [Ino -> Group] /\ Root \in Ino \ {}
    BY InoFacts, GroupTypes
  <2>2. PICK n : n = Groups * IPG OBVIOUS
  <2>3. PICK e : e = d OBVIOUS
  <2>4. Counted(Ino, InoGroup, {}, e, n) /\ e \in [Group -> Int] BY <1>2, <1>3, <2>2, <2>3
  <2>5. Counted(Ino, InoGroup, {} \cup {Root}, [e EXCEPT ![InoGroup[Root]] = @ - 1], n - 1)
    BY ONLY <2>1, <2>4, CountTake
  <2>6. {} \cup {Root} = {Root} OBVIOUS
  <2> HIDE DEF d
  <2> QED BY <2>2, <2>3, <2>5, <2>6
<1>5. [d EXCEPT ![InoGroup[Root]] = @ - 1] = [g \in Group |-> IF g = 0 THEN IPG - 1 ELSE IPG]
  <2>1. InoGroup[Root] = 0 /\ 0 \in Group
    <3>1. (Root - 1) \div IPG = 0
      <4>1. IPG \in Nat /\ IPG > 0 BY Consts
      <4> QED BY <4>1 DEF Root
    <3> QED BY <3>1, Consts, InoFacts DEF InoGroup, GroupOfIno, Group
  <2> QED BY <2>1
<1>6. f \in FsType
  <2>1. Inode("file", 0, << >>) \in InodeType
    BY DEF Inode, InodeType
  <2>2. DirBlock(<<Free(SLOTS)>>) \in BlockType
    <3>1. PICK e : e = Free(SLOTS) OBVIOUS
    <3>2. e \in EntryType BY <3>1, Consts, FreeType
    <3>3. <<e>> \in Seq(EntryType) BY <3>2
    <3> QED BY <3>1, <3>3, DirBlockType
  <2>3. Groups * BPG \in Int /\ Groups * IPG - 1 \in Int /\ IPG \in Int
    BY Consts, Product
  <2>4. Root \in Ino BY InoFacts
  <2>5. [g \in Group |-> IF g = 0 THEN IPG - 1 ELSE IPG] \in [Group -> Int] BY <2>3
  <2>6. [g \in Group |-> 0] \in [Group -> Int] OBVIOUS
  <2>7. [i \in Ino |-> Inode("file", 0, << >>)] \in [Ino -> InodeType] BY <2>1
  <2>8. [b \in Blk |-> DirBlock(<<Free(SLOTS)>>)] \in [Blk -> BlockType] BY <2>2
  <2> QED BY <1>3, <2>3, <2>4, <2>5, <2>6, <2>7, <2>8 DEF BlankFs, FsType
<1>7. /\ f.bused = {} /\ f.iused = {Root} /\ f.bfree = c
      /\ f.ifree = [g \in Group |-> IF g = 0 THEN IPG - 1 ELSE IPG]
      /\ f.sbBlocks = Groups * BPG /\ f.sbInodes = Groups * IPG - 1
      /\ f.ino = [i \in Ino |-> Inode("file", 0, << >>)]
  BY DEF BlankFs
<1>8. \A i \in Ino : Extents(f.ino[i].ext) <= MaxExtents
  <2>1. Inode("file", 0, << >>).ext = << >> BY DEF Inode
  <2> QED BY <1>7, <2>1, FewExtents
<1>9. f.dirs = FirstHas(0)
  <2>1. [g \in Group |-> 0] = FirstHas(0) BY DEF FirstHas
  <2> QED BY <2>1 DEF BlankFs
<1> HIDE DEF f, c, d
<1> QED BY <1>1, <1>4, <1>5, <1>6, <1>7, <1>8, <1>9 DEF Sane, f

\* The j-th seed directory is there, empty, in the block j.
IsSeed(f, j) ==
  /\ f.ino[j + 1].mode = "dir" /\ f.ino[j + 1].links = 2 /\ NamesOnce(f, j + 1)
  /\ OnlyDots(Entries(f, j + 1), j + 1, Root)
  /\ Held(f, j + 1) = {j} /\ IsInjective(f.ino[j + 1].ext)

\* mkfs has made k of them.
Seeded(f, k) ==
  /\ Sane(f) /\ f.bused = 1 .. k /\ f.iused = 1 .. k + 1 /\ \A j \in 1 .. k : IsSeed(f, j)
  /\ f.dirs = FirstHas(k)

\* The least number that is not among the first ones.
LEMMA NextNumber ==
  ASSUME NEW S \in SUBSET (Nat \ {0}), NEW k \in Nat, k + 1 \in S, NEW b \in S \ (1 .. k),
         \A c \in S \ (1 .. k) : b <= c
  PROVE  b = k + 1
<1>1. k + 1 \notin 1 .. k
  OBVIOUS
<1>2. b <= k + 1
  BY <1>1
<1>3. b \in Nat /\ b # 0 /\ ~(b <= k)
  OBVIOUS
<1> QED BY <1>2, <1>3

\* One turn of mkfs's loop makes the next seed directory, at the next inode and block.
LEMMA SeedDirFacts ==
  ASSUME NEW k \in Nat, k < Len(Seeds), NEW f, Seeded(f, k)
  PROVE  Seeded(SeedDir(f), k + 1)
<1>1. k + 1 \in Blk /\ k + 2 \in Ino /\ k + 1 \in Ino /\ Root \in Ino
  <2>1. k + 1 \in 1 .. Len(Seeds) + 1 /\ k + 2 \in 1 .. Len(Seeds) + 1
    BY SeedConsts
  <2> QED BY <2>1, SeedConsts, InoFacts
<1>2. PICK a : a = AllocInode(f)
  OBVIOUS
<1>3. PICK g : g = a.fs
  OBVIOUS
<1>4. PICK i : i = k + 2
  OBVIOUS
<1>5. /\ a.val = i /\ Sane(g) /\ SameBlockCounts(f, g) /\ g.iused = f.iused \cup {i}
      /\ g.ino = f.ino /\ g.blk = f.blk /\ g.dirs = f.dirs
  <2>1. ~(Ino \subseteq f.iused)
    <3>1. k + 2 \notin 1 .. k + 1 OBVIOUS
    <3> QED BY <1>1, <3>1 DEF Seeded
  <2>2. /\ a.val \in Ino \ f.iused
        /\ \A j \in Ino \ f.iused : a.val <= j
        /\ Sane(a.fs) /\ SameBlockCounts(f, a.fs)
        /\ a.fs.iused = f.iused \cup {a.val}
        /\ a.fs.ino = f.ino /\ a.fs.blk = f.blk /\ a.fs.dirs = f.dirs
    <3>1. Sane(f) BY DEF Seeded
    <3> QED BY <1>2, <2>1, <3>1, AllocInodeFacts
  <2>3. a.val = (k + 1) + 1
    <3>1. PICK m \in Nat : m = k + 1 OBVIOUS
    <3>2. m + 1 = k + 2 BY <3>1
    <3>3. PICK b : b = a.val OBVIOUS
    <3>4. f.iused = 1 .. m BY <3>1 DEF Seeded
    <3>5. Ino \in SUBSET (Nat \ {0}) /\ m + 1 \in Ino /\ b \in Ino \ (1 .. m)
          /\ \A c \in Ino \ (1 .. m) : b <= c
      BY <1>1, <2>2, <3>2, <3>3, <3>4, InoFacts
    <3>6. b = m + 1 BY ONLY m \in Nat, <3>5, NextNumber
    <3> QED BY <3>1, <3>3, <3>6
  <2>4. a.val = i BY <1>4, <2>3
  <2> QED BY <1>3, <2>2, <2>4
<1>6. PICK r : r = NewDir(g, i, Root)
  OBVIOUS
<1>7. i \in Ino /\ g.bused = 1 .. k /\ k + 1 \notin 1 .. k
  BY <1>1, <1>4, <1>5 DEF Seeded, SameBlockCounts
<1>8. r.res = "ok" /\ DirMade(g, r.fs, i, Root)
  <2>1. ~(Blk \subseteq g.bused) BY <1>1, <1>7
  <2>2. (r = Err(g, "NoSpace") /\ Blk \subseteq g.bused)
          \/ (r.res = "ok" /\ DirMade(g, r.fs, i, Root))
    BY ONLY <1>1, <1>5, <1>6, <1>7, NewDirFacts
  <2> QED BY <2>1, <2>2
<1>9. PICK h : h = r.fs
  OBVIOUS
<1>10. /\ Sane(h) /\ h.iused = g.iused /\ \A j \in Ino \ {i} : h.ino[j] = g.ino[j]
       /\ h.ino[i].mode = "dir" /\ NamesOnce(h, i) /\ OnlyDots(Entries(h, i), i, Root)
       /\ h.bused = g.bused \cup {k + 1} /\ Held(h, i) = {k + 1} /\ IsInjective(h.ino[i].ext)
       /\ \A c \in Blk \ {k + 1} : h.blk[c] = g.blk[c]
       /\ h.dirs = g.dirs /\ h.ino[i].links = 2
  <2>1. DirMade(g, h, i, Root) BY <1>8, <1>9
  <2>2. PICK b \in Blk \ g.bused :
          /\ \A c \in Blk \ g.bused : b <= c
          /\ h.bused = g.bused \cup {b} /\ Held(h, i) = {b} /\ IsInjective(h.ino[i].ext)
          /\ \A c \in Blk \ {b} : h.blk[c] = g.blk[c]
    BY <2>1 DEF DirMade
  <2>3. b = k + 1
    <3>1. Blk \in SUBSET (Nat \ {0}) BY BlkFacts
    <3>2. b \in Blk \ (1 .. k) /\ \A c \in Blk \ (1 .. k) : b <= c BY <1>7, <2>2
    <3> QED BY ONLY k \in Nat, <1>1, <3>1, <3>2, NextNumber
  <2> QED BY <2>1, <2>2, <2>3 DEF DirMade
<1>11. PICK x : x = BumpUsedDirs(h, Root, 1)
  OBVIOUS
<1>12. /\ Sane(x) /\ SameBlockCounts(h, x) /\ SameInodeCounts(h, x)
       /\ x.ino = h.ino /\ x.blk = h.blk
  <2>1. 1 \in Int OBVIOUS
  <2>2. Root \in Ino /\ Sane(h) BY <1>1, <1>10
  <2> QED BY ONLY <1>11, <2>1, <2>2, BumpFacts
<1>18. x.dirs = FirstHas(k + 1)
  <2>1. x.dirs = MoreDirs(h.dirs, Root, 1)
    <3>1. 1 \in Int /\ Root \in Ino /\ Sane(h) BY <1>1, <1>10
    <3> QED BY ONLY <1>11, <3>1, BumpLeaves
  <2>2. h.dirs = FirstHas(k) BY <1>5, <1>10 DEF Seeded
  <2>3. MoreDirs(h.dirs, Root, 1) = FirstHas(k + 1) BY ONLY k \in Nat, <2>2, BumpFirst
  <2> QED BY <2>1, <2>3
<1>13. x = SeedDir(f)
  BY <1>2, <1>3, <1>5, <1>6, <1>9, <1>11 DEF SeedDir
<1>14. x.bused = 1 .. k + 1
  <2>1. 1 .. k + 1 = (1 .. k) \cup {k + 1} OBVIOUS
  <2> QED BY <1>7, <1>10, <1>12, <2>1 DEF SameBlockCounts
<1>15. x.iused = 1 .. (k + 1) + 1
  <2>1. 1 .. (k + 1) + 1 = (1 .. k + 1) \cup {k + 2} OBVIOUS
  <2>2. f.iused = 1 .. k + 1 BY DEF Seeded
  <2> QED BY <1>4, <1>5, <1>10, <1>12, <2>1, <2>2 DEF SameInodeCounts
<1>16. ASSUME NEW j \in 1 .. k + 1 PROVE IsSeed(x, j)
  <2>1. CASE j = k + 1
    <3>1. j + 1 = i BY <1>4, <2>1
    <3>2. Held(x, i) = {j} /\ x.ino[i].mode = "dir" /\ IsInjective(x.ino[i].ext)
          /\ x.ino[i].links = 2
      BY <1>10, <1>12, <2>1 DEF Held
    <3>3. Entries(x, i) = Entries(h, i) /\ NamesOnce(x, i)
      <4>1. x.ino[i].ext = h.ino[i].ext /\ \A b \in Held(h, i) : x.blk[b] = h.blk[b]
        BY <1>12
      <4> QED BY <1>10, <4>1, SameDir
    <3>4. OnlyDots(Entries(x, i), i, Root) BY <1>10, <3>3
    <3> QED BY <3>1, <3>2, <3>3, <3>4 DEF IsSeed
  <2>2. CASE j # k + 1
    <3>1. j \in 1 .. k BY <2>2
    <3>2. IsSeed(f, j) BY <3>1 DEF Seeded
    <3>3. PICK d : d = j + 1 OBVIOUS
    <3>4. d \in Ino \ {i} /\ j \in Blk \ {k + 1}
      <4>1. j \in 1 .. Len(Seeds) + 1 /\ j + 1 \in 1 .. Len(Seeds) + 1 /\ j + 1 # k + 2
        BY <3>1, SeedConsts
      <4> QED BY <1>4, <2>2, <3>3, <4>1, SeedConsts
    <3>5. x.ino[d] = f.ino[d] BY <1>5, <1>10, <1>12, <3>4
    <3>6. Held(f, d) = {j} /\ NamesOnce(f, d) /\ OnlyDots(Entries(f, d), d, Root)
          /\ f.ino[d].mode = "dir" /\ IsInjective(f.ino[d].ext) /\ f.ino[d].links = 2
      BY <3>2, <3>3 DEF IsSeed
    <3>7. x.blk[j] = f.blk[j] BY <1>5, <1>10, <1>12, <3>4
    <3>8. Entries(x, d) = Entries(f, d) /\ NamesOnce(x, d)
      <4>1. x.ino[d].ext = f.ino[d].ext /\ \A b \in Held(f, d) : x.blk[b] = f.blk[b]
        BY <3>5, <3>6, <3>7
      <4> QED BY <3>6, <4>1, SameDir
    <3>9. Held(x, d) = {j} BY <3>5, <3>6 DEF Held
    <3>10. x.ino[d].mode = "dir" /\ IsInjective(x.ino[d].ext)
           /\ OnlyDots(Entries(x, d), d, Root) /\ x.ino[d].links = 2
      BY <3>5, <3>6, <3>8
    <3> QED BY <3>3, <3>8, <3>9, <3>10 DEF IsSeed
  <2> QED BY <2>1, <2>2
<1>17. Seeded(x, k + 1)
  BY <1>12, <1>14, <1>15, <1>16, <1>18 DEF Seeded
<1> QED BY <1>13, <1>17

\* The loop of mkfs over the seed directories, and what comes after it.
RootBlock ==
  DirBlock(IF Len(Seeds) = 0 THEN <<Free(SLOTS)>>
           ELSE [k \in 1 .. Len(Seeds) |->
                   Entry(Root + k, Seeds[k], "dir",
                         IF k = Len(Seeds) THEN SLOTS - Len(Seeds) + 1 ELSE 1)])
\* The root directory, written last.
RootMade(f) ==
  LET a == AllocBlock(f)
  IN  BumpUsedDirs([a.fs EXCEPT !.blk[a.val] = RootBlock,
                                !.ino[Root] = Inode("dir", 2 + Len(Seeds), <<a.val>>)], Root, 1)

\* All turns, one after the other.
LEMMA SeededFs == \E f : Seeded(f, Len(Seeds)) /\ MkfsFs = RootMade(f)
<1> DEFINE N == Len(Seeds)
           W(n) == {f \in FsType : Seeded(f, n)}
           base == BlankFs
           Q == [n \in 0 .. N |-> W(n)]
           step == [n \in 1 .. N |-> [f \in W(n - 1) |-> SeedDir(f)]]
           Is(h) == h = [k \in 0 .. N |-> IF k = 0 THEN base ELSE SeedDir(h[k - 1])]
           seeded == CHOOSE h : Is(h)
<1>1. N \in Nat
  BY SeedConsts
<1>2. base \in W(0)
  <2>1. 1 .. 0 = {} /\ 1 .. 0 + 1 = {Root} BY DEF Root
  <2>2. Seeded(base, 0) BY <2>1, BlankSane DEF Seeded
  <2> QED BY <2>2 DEF Seeded, Sane
<1>3. \A n \in 0 .. N : Q[n] = W(n)
  <2> HIDE DEF W, N
  <2> QED OBVIOUS
<1>4. \A n \in 1 .. N : \A f \in Q[n - 1] :
        step[n][f] = SeedDir(f) /\ step[n][f] \in Q[n]
  <2> SUFFICES ASSUME NEW n \in 1 .. N, NEW f \in Q[n - 1]
               PROVE  step[n][f] = SeedDir(f) /\ step[n][f] \in Q[n]
    OBVIOUS
  <2>1. n - 1 \in 0 .. N /\ n \in 0 .. N /\ n - 1 \in Nat /\ n - 1 < N /\ (n - 1) + 1 = n BY <1>1
  <2>2. Q[n - 1] = W(n - 1) /\ Q[n] = W(n) BY <1>3, <2>1
  <2>3. f \in W(n - 1) BY <2>2
  <2>4. SeedDir(f) \in W(n)
    <3>1. PICK m : m = n - 1 OBVIOUS
    <3>2. m \in Nat /\ m < Len(Seeds) /\ Seeded(f, m) /\ m + 1 = n
      BY <2>1, <2>3, <3>1
    <3>3. Seeded(SeedDir(f), m + 1) BY ONLY <3>2, SeedDirFacts
    <3> QED BY <3>2, <3>3 DEF Seeded, Sane
  <2> HIDE DEF Q, W
  <2>5. step[n][f] = SeedDir(f) BY <2>3
  <2> QED BY <2>2, <2>4, <2>5
<1> HIDE DEF Q, step, W, N, base
<1>5. \E h : IsLoop(h, N, base, step) /\ Within(h, N, Q)
  <2>1. N \in Nat /\ base \in Q[0] /\ Leads(N, Q, step)
    <3>1. 0 \in 0 .. N BY <1>1
    <3> QED BY <1>1, <1>2, <1>3, <1>4, <3>1 DEF Leads
  <2> QED BY ONLY <2>1, LoopWithin
<1>6. PICK h : /\ h = [n \in 0 .. N |-> IF n = 0 THEN base ELSE step[n][h[n - 1]]]
               /\ \A n \in 0 .. N : h[n] \in Q[n]
  BY <1>5 DEF IsLoop, Within
<1>7. Is(h)
  <2>1. \A n \in 0 .. N : n # 0 => n \in 1 .. N /\ n - 1 \in 0 .. N BY <1>1
  <2>2. \A n \in 0 .. N : n # 0 => step[n][h[n - 1]] = SeedDir(h[n - 1])
    BY <1>4, <1>6, <2>1
  <2>3. \A n \in 0 .. N : (IF n = 0 THEN base ELSE step[n][h[n - 1]])
                         = (IF n = 0 THEN base ELSE SeedDir(h[n - 1]))
    BY <2>2
  <2>4. [n \in 0 .. N |-> IF n = 0 THEN base ELSE step[n][h[n - 1]]]
          = [n \in 0 .. N |-> IF n = 0 THEN base ELSE SeedDir(h[n - 1])]
    BY ONLY <2>3
  <2>5. h = [n \in 0 .. N |-> IF n = 0 THEN base ELSE SeedDir(h[n - 1])]
    BY <1>6, <2>4
  <2> QED BY <2>5
<1>8. PICK c : c = seeded
  OBVIOUS
<1>9. Is(c)
  BY <1>7, <1>8
<1> HIDE DEF seeded
<1>10. c[0] = base /\ \A n \in 1 .. N : c[n] = SeedDir(c[n - 1])
  <2>1. c = [k \in 0 .. N |-> IF k = 0 THEN base ELSE SeedDir(c[k - 1])]
    BY <1>9
  <2>2. 0 \in 0 .. N /\ \A n \in 1 .. N : n \in 0 .. N /\ n # 0 BY <1>1
  <2> HIDE DEF Is
  <2> QED BY <2>1, <2>2
<1>11. \A n \in 0 .. N : c[n] \in Q[n]
  <2>1. N \in Nat /\ c[0] \in Q[0]
    <3>1. 0 \in 0 .. N BY <1>1
    <3> QED BY <1>1, <1>2, <1>3, <1>10, <3>1
  <2>2. \A n \in 1 .. N : c[n - 1] \in Q[n - 1] => c[n] \in Q[n]
    BY <1>4, <1>10
  <2> QED BY ONLY <2>1, <2>2, LoopStays
<1>12. c[N] \in W(N)
  <2>1. N \in 0 .. N BY <1>1
  <2> QED BY <1>3, <1>11, <2>1
<1>13. MkfsFs = RootMade(c[N])
  BY <1>8 DEF MkfsFs, RootMade, RootBlock, seeded, N, base
<1> QED BY <1>12, <1>13 DEF W, N

\* The entries of the root, the last of which takes the rest of the block.
SeedRec(k) == IF k = Len(Seeds) THEN SLOTS - Len(Seeds) + 1 ELSE 1
SeedEntry(k) == Entry(Root + k, Seeds[k], "dir", SeedRec(k))

\* They are entries in use.
LEMMA SeedEntryFacts ==
  ASSUME NEW k \in 1 .. Len(Seeds)
  PROVE  /\ SeedEntry(k) \in EntryType /\ SeedEntry(k).ino = k + 1 /\ SeedEntry(k).ino # NoIno
         /\ SeedEntry(k).name = Seeds[k] /\ SeedEntry(k).ft = "dir"
<1>1. PICK i : i = k + 1
  OBVIOUS
<1>2. i \in Ino /\ i # NoIno
  <2>1. k + 1 \in 1 .. Len(Seeds) + 1 BY SeedConsts
  <2> QED BY <1>1, <2>1, SeedConsts, InoFacts
<1>3. PICK n : n = Seeds[k]
  OBVIOUS
<1>4. n \in Names \cup {".", "..", ""}
  BY <1>3, SeedConsts
<1>5. PICK rec \in Int : rec = SeedRec(k)
  <2>1. SLOTS \in Int /\ Len(Seeds) \in Int /\ 1 \in Int BY SeedConsts, Consts
  <2>2. SLOTS - Len(Seeds) + 1 \in Int BY <2>1
  <2>3. SeedRec(k) \in Int BY <2>1, <2>2 DEF SeedRec
  <2> QED BY <2>3
<1>6. PICK e : e = Entry(i, n, "dir", rec)
  OBVIOUS
<1>7. e \in EntryType
  BY ONLY <1>2, <1>4, rec \in Int, <1>6 DEF Entry, EntryType
<1>8. e.ino = i /\ e.name = n /\ e.ft = "dir"
  BY ONLY <1>6 DEF Entry
<1>9. e = SeedEntry(k)
  <2>1. Root + k = i BY <1>1, SeedConsts DEF Root
  <2> QED BY <1>3, <1>5, <1>6, <2>1 DEF SeedEntry
<1> QED BY <1>1, <1>2, <1>3, <1>7, <1>8, <1>9

\* The root has these and no others, under different names.
LEMMA RootBlockFacts ==
  /\ RootBlock \in BlockType /\ Uniq(RootBlock.ents)
  /\ \A e : e \in Used(RootBlock.ents) <=> \E k \in 1 .. Len(Seeds) : e = SeedEntry(k)
<1>1. PICK s : s = IF Len(Seeds) = 0 THEN <<Free(SLOTS)>>
                   ELSE [k \in 1 .. Len(Seeds) |-> SeedEntry(k)]
  OBVIOUS
<1>2. RootBlock = DirBlock(s)
  BY <1>1 DEF RootBlock, SeedEntry, SeedRec
<1>3. CASE Len(Seeds) = 0
  <2>1. PICK r : r = Free(SLOTS) OBVIOUS
  <2>2. r \in EntryType /\ r.ino = NoIno BY <2>1, Consts, FreeType
  <2>3. s = <<r>> BY <1>1, <1>3, <2>1
  <2>4. s \in Seq(EntryType) /\ Len(s) = 1 /\ DOMAIN s = 1 .. 1 /\ s[1] = r BY <2>2, <2>3
  <2>5. Uniq(s) BY <2>2, <2>4 DEF Uniq
  <2>6. \A e : e \notin Used(s)
    <3>1. \A e \in ToSet(s) : e = r BY <2>4 DEF ToSet
    <3> QED BY <2>2, <3>1 DEF Used
  <2>7. \A k : k \notin 1 .. Len(Seeds) BY <1>3
  <2>8. DirBlock(s) \in BlockType /\ DirBlock(s).ents = s BY <2>4, DirBlockType
  <2> QED BY <1>2, <2>5, <2>6, <2>7, <2>8
<1>4. CASE Len(Seeds) # 0
  <2>1. PICK n \in Nat : n = Len(Seeds) BY SeedConsts
  <2>2. s = [k \in 1 .. n |-> SeedEntry(k)] BY <1>1, <1>4, <2>1
  <2>3. \A k \in 1 .. n :
          /\ SeedEntry(k) \in EntryType /\ SeedEntry(k).ino # NoIno
          /\ SeedEntry(k).name = Seeds[k]
    BY <2>1, SeedEntryFacts
  <2>4. s \in Seq(EntryType) /\ Len(s) = n /\ DOMAIN s = 1 .. n
        /\ \A k \in 1 .. n : s[k] = SeedEntry(k)
    BY ONLY <2>2, <2>3, n \in Nat
  <2>5. Uniq(s)
    <3>1. \A j, k \in 1 .. n : Seeds[j] = Seeds[k] => j = k
      BY <2>1, SeedConsts, FsConstants DEF IsInjective
    <3> QED BY <2>3, <2>4, <3>1 DEF Uniq
  <2>6. \A e : e \in Used(s) <=> \E k \in 1 .. n : e = SeedEntry(k)
    BY <2>3, <2>4 DEF Used, ToSet
  <2>7. DirBlock(s) \in BlockType /\ DirBlock(s).ents = s BY <2>4, DirBlockType
  <2> QED BY <1>2, <2>1, <2>5, <2>6, <2>7
<1> QED BY <1>3, <1>4

\* What mkfs makes of the disk whose seed directories are there.
Mkd(f, x) ==
  LET N == Len(Seeds)
  IN  /\ Sane(x) /\ x.iused = f.iused /\ x.bused = f.bused \cup {N + 1}
      /\ \A j \in Ino \ {Root} : x.ino[j] = f.ino[j]
      /\ \A c \in Blk \ {N + 1} : x.blk[c] = f.blk[c]
      /\ x.ino[Root].mode = "dir" /\ Held(x, Root) = {N + 1} /\ IsInjective(x.ino[Root].ext)
      /\ NamesOnce(x, Root) /\ x.ino[Root].links = 2 + N /\ x.dirs = FirstHas(N + 1)
      /\ \A e : e \in Entries(x, Root) <=> \E k \in 1 .. N : e = SeedEntry(k)

\* The root directory takes the block after the seed directories'.
LEMMA RootMadeFacts ==
  ASSUME NEW f, Seeded(f, Len(Seeds))
  PROVE  Mkd(f, RootMade(f))
<1>1. PICK N \in Nat : N = Len(Seeds)
  BY SeedConsts
<1>2. N + 1 \in Blk /\ N + 1 \notin 1 .. N /\ Root \in Ino
  BY <1>1, SeedConsts, InoFacts
<1>3. PICK a : a = AllocBlock(f)
  OBVIOUS
<1>4. PICK g : g = a.fs
  OBVIOUS
<1>5. Sane(f) /\ f.bused = 1 .. N
  BY <1>1 DEF Seeded
<1>6. /\ a.val = N + 1 /\ Sane(g) /\ SameNodes(f, g) /\ g.bused = f.bused \cup {N + 1}
      /\ g.dirs = f.dirs
  <2>1. ~(Blk \subseteq f.bused) BY <1>2, <1>5
  <2>2. /\ a.val \in Blk \ f.bused /\ \A b \in Blk \ f.bused : a.val <= b
        /\ Sane(a.fs) /\ SameNodes(f, a.fs) /\ a.fs.bused = f.bused \cup {a.val}
        /\ a.fs.dirs = f.dirs
    BY <1>3, <1>5, <2>1, AllocBlockFacts
  <2>3. PICK b : b = a.val OBVIOUS
  <2>4. b = N + 1
    <3>1. Blk \in SUBSET (Nat \ {0}) BY BlkFacts
    <3>2. b \in Blk \ (1 .. N) /\ \A c \in Blk \ (1 .. N) : b <= c BY <1>5, <2>2, <2>3
    <3> QED BY ONLY N \in Nat, <1>2, <3>1, <3>2, NextNumber
  <2> QED BY <1>4, <2>2, <2>3, <2>4
<1>7. PICK b : b = N + 1
  OBVIOUS
<1>8. PICK v : v = RootBlock
  OBVIOUS
<1>9. PICK h : h = WithBlock(g, b, v)
  OBVIOUS
<1>10. /\ Sane(h) /\ SameBlockCounts(g, h) /\ SameInodeCounts(g, h)
       /\ h.ino = g.ino /\ h.blk[b] = v /\ h.dirs = g.dirs
       /\ \A c \in Blk \ {b} : h.blk[c] = g.blk[c]
  <2>1. b \in Blk /\ v \in BlockType BY <1>2, <1>7, <1>8, RootBlockFacts
  <2> QED BY ONLY <1>6, <1>9, <2>1, SetBlockFacts
<1>11. PICK s : s = <<b>>
  OBVIOUS
<1>12. s \in Seq(Blk) /\ DOMAIN s = {1} /\ s[1] = b /\ Extents(s) <= MaxExtents
  BY <1>2, <1>7, <1>11, FewExtents
<1>13. PICK w : w = Inode("dir", 2 + N, s)
  OBVIOUS
<1>14. w \in InodeType /\ w.mode = "dir" /\ w.ext = s /\ w.links = 2 + N
  BY <1>12, <1>13 DEF Inode, InodeType
<1>15. PICK y : y = WithInode(h, Root, w)
  OBVIOUS
<1>16. /\ Sane(y) /\ SameBlockCounts(h, y) /\ SameInodeCounts(h, y)
       /\ y.blk = h.blk /\ y.ino[Root] = w /\ y.dirs = h.dirs
       /\ \A j \in Ino \ {Root} : y.ino[j] = h.ino[j]
  <2>1. Extents(w.ext) <= MaxExtents BY <1>12, <1>14
  <2> QED BY ONLY <1>2, <1>10, <1>14, <1>15, <2>1, SetInodeFacts
<1>17. PICK x : x = BumpUsedDirs(y, Root, 1)
  OBVIOUS
<1>18. /\ Sane(x) /\ SameBlockCounts(y, x) /\ SameInodeCounts(y, x)
       /\ x.ino = y.ino /\ x.blk = y.blk
  <2>1. 1 \in Int OBVIOUS
  <2>2. Root \in Ino /\ Sane(y) BY <1>2, <1>16
  <2> QED BY ONLY <1>17, <2>1, <2>2, BumpFacts
<1>19. x = RootMade(f)
  <2>1. [g EXCEPT !.blk[b] = v, !.ino[Root] = w] = y
    BY <1>9, <1>15 DEF WithBlock, WithInode
  <2>2. RootMade(f) =
          BumpUsedDirs([g EXCEPT !.blk[b] = v, !.ino[Root] = w], Root, 1)
    BY <1>1, <1>3, <1>4, <1>6, <1>7, <1>8, <1>11, <1>13 DEF RootMade
  <2> QED BY <1>17, <2>1, <2>2
<1>20. x.iused = f.iused /\ x.bused = f.bused \cup {b}
  BY <1>6, <1>7, <1>10, <1>16, <1>18 DEF SameNodes, SameBlockCounts, SameInodeCounts
<1>21. \A j \in Ino \ {Root} : x.ino[j] = f.ino[j]
  BY <1>6, <1>10, <1>16, <1>18 DEF SameNodes
<1>22. \A c \in Blk \ {b} : x.blk[c] = f.blk[c]
  BY <1>6, <1>10, <1>16, <1>18 DEF SameNodes
<1>23. x.ino[Root].mode = "dir" /\ Held(x, Root) = {b} /\ IsInjective(x.ino[Root].ext)
  <2>1. ToSet(s) = {b} /\ IsInjective(s) BY <1>12 DEF ToSet, IsInjective
  <2> QED BY <1>14, <1>16, <1>18, <2>1 DEF Held
<1>24. x.blk[b] = v
  BY <1>10, <1>16, <1>18
<1>25. NamesOnce(x, Root)
  BY <1>8, <1>23, <1>24, RootBlockFacts DEF NamesOnce
<1>26. \A e : e \in Entries(x, Root) <=> \E k \in 1 .. N : e = SeedEntry(k)
  <2>1. \A e : e \in Entries(x, Root) <=> e \in Used(v.ents)
    BY <1>23, <1>24, EntriesAre
  <2> QED BY <1>1, <1>8, <2>1, RootBlockFacts
<1>27. x.ino[Root].links = 2 + N
  BY <1>14, <1>16, <1>18
<1>28. x.dirs = FirstHas(N + 1)
  <2>1. x.dirs = MoreDirs(y.dirs, Root, 1)
    <3>1. 1 \in Int /\ Root \in Ino /\ Sane(y) BY <1>2, <1>16
    <3> QED BY ONLY <1>17, <3>1, BumpLeaves
  <2>2. y.dirs = FirstHas(N) BY <1>1, <1>6, <1>10, <1>16 DEF Seeded
  <2>3. MoreDirs(y.dirs, Root, 1) = FirstHas(N + 1) BY ONLY N \in Nat, <2>2, BumpFirst
  <2> QED BY <2>1, <2>3
<1>29. Mkd(f, x)
  BY <1>1, <1>7, <1>18, <1>20, <1>21, <1>22, <1>23, <1>25, <1>26, <1>27, <1>28 DEF Mkd
<1> QED BY <1>19, <1>29

\* A root with N directories, all of them empty, and the counts of mkfs.
SeedTree(N, K, M, E) ==
  /\ N = Len(Seeds) /\ K = 1 .. N + 1
  /\ \A d \in K : M[d] = "dir"
  /\ \A e : e \in E[Root] <=> \E k \in 1 .. N : e = SeedEntry(k)
  /\ \A d \in K : d # Root => \A e \in E[d] : e.name \in Dots
SeedCounts(N, K, D, links) ==
  D = FirstHas(N + 1) /\ \A d \in K : links[d] = IF d = Root THEN 2 + N ELSE 2

\* The root names N directories.
LEMMA SeedSubs ==
  ASSUME NEW N \in Nat, NEW K, NEW M, NEW E, SeedTree(N, K, M, E)
  PROVE  IsFiniteSet(Subs(E[Root])) /\ Cardinality(Subs(E[Root])) = N
<1>1. \A k \in 1 .. N : /\ SeedEntry(k).ino = k + 1 /\ SeedEntry(k).ft = "dir"
                        /\ SeedEntry(k).name \notin Dots
  <2> SUFFICES ASSUME NEW k \in 1 .. N
               PROVE  /\ SeedEntry(k).ino = k + 1 /\ SeedEntry(k).ft = "dir"
                      /\ SeedEntry(k).name \notin Dots
    OBVIOUS
  <2>1. k \in 1 .. Len(Seeds) BY DEF SeedTree
  <2>2. SeedEntry(k).ino = k + 1 /\ SeedEntry(k).name = Seeds[k] /\ SeedEntry(k).ft = "dir"
    BY <2>1, SeedEntryFacts
  <2>3. Seeds[k] \in Names BY <2>1, SeedConsts
  <2> QED BY <2>2, <2>3, FsConstants DEF Dots
<1>2. PICK T : T = Subs(E[Root])
  OBVIOUS
<1>3. \A e : e \in T <=> \E k \in 1 .. N : e = SeedEntry(k)
  BY <1>1, <1>2 DEF SeedTree, Subs
<1>4. PICK s : s = [k \in 1 .. N |-> SeedEntry(k)]
  OBVIOUS
<1>5. s \in [1 .. N -> T] /\ \A k \in 1 .. N : s[k] = SeedEntry(k)
  BY <1>3, <1>4
<1>6. \A j, k \in 1 .. N : s[j] = s[k] => j = k
  <2> SUFFICES ASSUME NEW j \in 1 .. N, NEW k \in 1 .. N, s[j] = s[k] PROVE j = k
    OBVIOUS
  <2>1. j + 1 = k + 1 BY <1>1, <1>5
  <2> QED BY <2>1
<1>7. s \in Bijection(1 .. N, T)
  <2>1. s \in Injection(1 .. N, T) BY <1>5, <1>6 DEF Injection, IsInjective
  <2>2. s \in Surjection(1 .. N, T) BY <1>3, <1>5 DEF Surjection
  <2> QED BY <2>1, <2>2 DEF Bijection
<1>8. ExistsBijection(1 .. N, T)
  BY <1>7 DEF ExistsBijection
<1>9. IsFiniteSet(1 .. N) /\ Cardinality(1 .. N) = N
  <2>1. PICK one \in Int : one = 1 OBVIOUS
  <2>2. IsFiniteSet(one .. N) /\ Cardinality(one .. N) = IF one > N THEN 0 ELSE N - one + 1
    BY FS_Interval
  <2> QED BY <2>1, <2>2
<1> QED BY <1>2, <1>8, <1>9, FS_Bijection

\* mkfs counts what it makes.
LEMMA SeedTally ==
  ASSUME NEW N \in Nat, NEW K, NEW M, NEW E, SeedTree(N, K, M, E), NEW D, NEW links,
         SeedCounts(N, K, D, links), NEW mvd
  PROVE  Rooted(K, M, E) /\ CountsDirs(D, K, M) /\ CountsLinks(links, K, M, E, mvd)
<1>1. /\ Root \in K /\ DirsOf(K, M) = K /\ K = 1 .. N + 1 /\ N = Len(Seeds)
      /\ \A d \in K : d # Root => d - 1 \in 1 .. N /\ (d - 1) + 1 = d
  BY DEF SeedTree, DirsOf, Root
<1>2. Rooted(K, M, E)
  <2> SUFFICES ASSUME NEW S \in SUBSET (K \ {Root}), S # {}
               PROVE  \E i \in S : \E d \in DirsOf(K, M) \ S : \E e \in E[d] :
                        e.ino = i /\ e.name \notin Dots
    BY DEF Rooted
  <2>1. PICK i \in S : i \in K /\ i # Root OBVIOUS
  <2>2. PICK k \in 1 .. N : k + 1 = i BY <1>1, <2>1
  <2>3. PICK e : e = SeedEntry(k) OBVIOUS
  <2>4. e \in E[Root] BY <2>3 DEF SeedTree
  <2>5. e.ino = i /\ e.name = Seeds[k] BY <1>1, <2>2, <2>3, SeedEntryFacts
  <2>6. e.name \notin Dots
    <3>1. Seeds[k] \in Names BY <1>1, SeedConsts
    <3> QED BY <2>5, <3>1, FsConstants DEF Dots
  <2>7. Root \in DirsOf(K, M) \ S BY <1>1
  <2> QED BY <2>4, <2>5, <2>6, <2>7
<1>3. CountsDirs(D, K, M)
  <2>1. \A j \in K : GroupOfIno(j) = 0 BY <1>1, SeedGroup
  <2>2. Cardinality(K) = N + 1
    <3>1. PICK one \in Int : one = 1 OBVIOUS
    <3>2. PICK n \in Int : n = N + 1 OBVIOUS
    <3>3. Cardinality(one .. n) = IF one > n THEN 0 ELSE n - one + 1 BY FS_Interval
    <3> QED BY <1>1, <3>1, <3>2, <3>3
  <2>3. D \in [Group -> Int] /\ \A g \in Group : D[g] = IF g = 0 THEN N + 1 ELSE 0
    BY DEF SeedCounts, FirstHas
  <2>4. ASSUME NEW g \in Group PROVE D[g] = Cardinality(DirsIn(K, M, g))
    <3>1. CASE g = 0
      <4>1. DirsIn(K, M, g) = K BY <1>1, <2>1, <3>1 DEF DirsIn
      <4> QED BY <2>2, <2>3, <3>1, <4>1
    <3>2. CASE g # 0
      <4>1. DirsIn(K, M, g) = {} BY <1>1, <2>1, <3>2 DEF DirsIn
      <4> QED BY <2>3, <3>2, <4>1, FS_EmptySet
    <3> QED BY <3>1, <3>2
  <2> QED BY <2>3, <2>4 DEF CountsDirs
<1>4. CountsLinks(links, K, M, E, mvd)
  <2>1. ASSUME NEW i \in K
        PROVE  /\ IsFiniteSet(Subs(E[i])) /\ links[i] = 2 + Cardinality(Subs(E[i]))
               /\ M[i] # "file"
    <3>1. M[i] = "dir" BY DEF SeedTree
    <3>2. CASE i = Root
      BY <1>1, <3>1, <3>2, SeedSubs DEF SeedCounts
    <3>3. CASE i # Root
      <4>1. Subs(E[i]) = {} BY <3>3 DEF SeedTree, Subs
      <4>2. links[i] = 2 BY <3>3 DEF SeedCounts
      <4> QED BY <3>1, <4>1, <4>2, FS_EmptySet
    <3> QED BY <3>2, <3>3
  <2> QED BY <2>1 DEF CountsLinks
<1> QED BY <1>2, <1>3, <1>4

\* mkfs leaves a tree.
LEMMA MkfsGood ==
  Sane(MkfsFs) /\ \E K : Good(MkfsFs, K, FALSE) /\ Tally(MkfsFs, K, FALSE)
<1>1. PICK f : Seeded(f, Len(Seeds)) /\ MkfsFs = RootMade(f)
  BY SeededFs
<1>2. PICK x : x = MkfsFs
  OBVIOUS
<1>3. Mkd(f, x)
  BY <1>1, <1>2, RootMadeFacts
<1>4. PICK N \in Nat : N = Len(Seeds)
  BY SeedConsts
<1>5. PICK K : K = 1 .. N + 1
  OBVIOUS
<1>6. /\ K \subseteq Ino /\ 1 .. N + 1 \subseteq Blk /\ Root \in K
      /\ \A d \in K : d # Root => d - 1 \in 1 .. N /\ (d - 1) + 1 = d
  BY <1>4, <1>5, SeedConsts DEF Root
<1>7. /\ Sane(x) /\ x.iused = K /\ x.bused = 1 .. N + 1
      /\ \A j \in Ino \ {Root} : x.ino[j] = f.ino[j]
      /\ \A c \in Blk \ {N + 1} : x.blk[c] = f.blk[c]
      /\ x.ino[Root].mode = "dir" /\ Held(x, Root) = {N + 1} /\ IsInjective(x.ino[Root].ext)
      /\ NamesOnce(x, Root)
      /\ \A e : e \in Entries(x, Root) <=> \E k \in 1 .. N : e = SeedEntry(k)
      /\ x.ino[Root].links = 2 + N /\ x.dirs = FirstHas(N + 1)
  <2>1. f.iused = K /\ f.bused = 1 .. N BY <1>1, <1>4, <1>5 DEF Seeded
  <2>2. 1 .. N + 1 = (1 .. N) \cup {N + 1} OBVIOUS
  <2> QED BY <1>3, <1>4, <2>1, <2>2 DEF Mkd
<1>8. ASSUME NEW d \in K, d # Root
      PROVE  /\ x.ino[d].mode = "dir" /\ NamesOnce(x, d) /\ OnlyDots(Entries(x, d), d, Root)
             /\ Held(x, d) = {d - 1} /\ IsInjective(x.ino[d].ext) /\ x.ino[d].links = 2
  <2>1. PICK j : j = d - 1 OBVIOUS
  <2>2. j \in 1 .. N /\ j + 1 = d BY <1>6, <1>8, <2>1
  <2>3. IsSeed(f, j) BY <1>1, <1>4, <2>2 DEF Seeded
  <2>4. /\ f.ino[d].mode = "dir" /\ NamesOnce(f, d) /\ OnlyDots(Entries(f, d), d, Root)
        /\ Held(f, d) = {j} /\ IsInjective(f.ino[d].ext) /\ f.ino[d].links = 2
    BY <2>2, <2>3 DEF IsSeed
  <2>5. x.ino[d] = f.ino[d] BY <1>6, <1>7, <1>8
  <2>6. x.blk[j] = f.blk[j]
    <3>1. j \in 1 .. N + 1 /\ j # N + 1 BY <2>2
    <3> QED BY <1>6, <1>7, <3>1
  <2>7. Entries(x, d) = Entries(f, d) /\ NamesOnce(x, d)
    <3>1. x.ino[d].ext = f.ino[d].ext /\ \A b \in Held(f, d) : x.blk[b] = f.blk[b]
      BY <2>4, <2>5, <2>6
    <3> QED BY <2>4, <3>1, SameDir
  <2>8. Held(x, d) = {j} BY <2>4, <2>5 DEF Held
  <2> QED BY <2>1, <2>4, <2>5, <2>7, <2>8
<1>9. Owns(x, K)
  <2>1. \A i \in K : IsInjective(x.ino[i].ext) BY <1>7, <1>8
  <2>2. \A i \in K : \E b : Held(x, i) = {b} /\ b \in 1 .. N + 1
                            /\ b = IF i = Root THEN N + 1 ELSE i - 1
    <3> SUFFICES ASSUME NEW i \in K
                 PROVE  \E b : Held(x, i) = {b} /\ b \in 1 .. N + 1
                               /\ b = IF i = Root THEN N + 1 ELSE i - 1
      OBVIOUS
    <3>1. CASE i = Root
      <4>1. N + 1 \in 1 .. N + 1 OBVIOUS
      <4> QED BY <1>7, <3>1, <4>1
    <3>2. CASE i # Root
      <4>1. i - 1 \in 1 .. N + 1 BY <1>6, <3>2
      <4> QED BY <1>8, <3>2, <4>1
    <3> QED BY <3>1, <3>2
  <2>3. \A i \in K : Held(x, i) \subseteq x.bused BY <1>7, <2>2
  <2>4. \A i, j \in K : i # j => Held(x, i) \cap Held(x, j) = {}
    <3> SUFFICES ASSUME NEW i \in K, NEW j \in K, i # j
                 PROVE  Held(x, i) \cap Held(x, j) = {}
      OBVIOUS
    <3>1. PICK b : Held(x, i) = {b} /\ b = IF i = Root THEN N + 1 ELSE i - 1
      BY <2>2
    <3>2. PICK c : Held(x, j) = {c} /\ c = IF j = Root THEN N + 1 ELSE j - 1
      BY <2>2
    <3>3. b # c
      <4>1. i \in 1 .. N + 1 /\ j \in 1 .. N + 1 BY <1>5
      <4>2. i # Root => i - 1 # N + 1 BY <4>1
      <4>3. j # Root => j - 1 # N + 1 BY <4>1
      <4>4. i - 1 # j - 1 BY <4>1
      <4> QED BY <3>1, <3>2, <4>2, <4>3, <4>4
    <3> QED BY <3>1, <3>2, <3>3
  <2> QED BY <1>7, <2>1, <2>3, <2>4 DEF Owns
<1>10. \A d \in DirsOf(K, Modes(x)) : NamesOnce(x, d)
  BY <1>7, <1>8 DEF DirsOf
<1>11. PICK M : M = Modes(x)
  OBVIOUS
<1>12. PICK E : E = Ents(x)
  OBVIOUS
<1>13. DirsOf(K, M) = K
  <2>1. \A d \in K : M[d] = "dir" BY <1>6, <1>7, <1>8, <1>11 DEF Modes
  <2> QED BY <2>1 DEF DirsOf
<1>14. \A e : e \in E[Root] => /\ e.name \notin Dots /\ e.ino \in K \ {Root} /\ e.ft = "dir"
                               /\ \E k \in 1 .. N : e = SeedEntry(k) /\ e.ino = k + 1
  <2> SUFFICES ASSUME NEW e, e \in E[Root]
               PROVE  /\ e.name \notin Dots /\ e.ino \in K \ {Root} /\ e.ft = "dir"
                      /\ \E k \in 1 .. N : e = SeedEntry(k) /\ e.ino = k + 1
    OBVIOUS
  <2>1. e \in Entries(x, Root) BY <1>6, <1>12 DEF Ents
  <2>2. PICK k \in 1 .. N : e = SeedEntry(k) BY <1>7, <2>1
  <2>3. e.ino = k + 1 /\ e.name = Seeds[k] /\ e.ft = "dir" BY <1>4, <2>2, SeedEntryFacts
  <2>4. e.name \notin Dots
    <3>1. Seeds[k] \in Names BY <1>4, SeedConsts
    <3> QED BY <2>3, <3>1, FsConstants DEF Dots
  <2>5. k + 1 \in K /\ k + 1 # Root BY <1>5 DEF Root
  <2> QED BY <2>2, <2>3, <2>4, <2>5
<1>15. \A d \in K : d # Root => OnlyDots(E[d], d, Root)
  BY <1>6, <1>8, <1>12 DEF Ents
<1>16. \A d \in K : d # Root => \E e \in E[Root] : e.name \notin Dots /\ e.ino = d
  <2> SUFFICES ASSUME NEW d \in K, d # Root
               PROVE  \E e \in E[Root] : e.name \notin Dots /\ e.ino = d
    OBVIOUS
  <2>1. PICK k \in 1 .. N : k + 1 = d BY <1>6
  <2>2. SeedEntry(k) \in E[Root] BY <1>6, <1>7, <1>12 DEF Ents
  <2>3. SeedEntry(k).ino = d BY <1>4, <2>1, SeedEntryFacts
  <2> QED BY <1>14, <2>2, <2>3
<1>17. Closed(K, M, E)
  <2>1. \A d \in K : M[d] = "dir" BY <1>13 DEF DirsOf
  <2>2. \A d \in K : d # Root => \A e \in E[d] : e.name \in Dots
    BY <1>15 DEF OnlyDots
  <2> QED BY <1>13, <1>14, <2>1, <2>2 DEF Closed
<1>18. OneName(K, M, E)
  <2>1. \A d \in K : d # Root => \A e \in E[d] : e.name \in Dots
    BY <1>15 DEF OnlyDots
  <2>2. \A e \in E[Root], z \in E[Root] : e.ino = z.ino => e = z
    <3> SUFFICES ASSUME NEW e \in E[Root], NEW z \in E[Root], e.ino = z.ino
                 PROVE  e = z
      OBVIOUS
    <3>1. PICK k \in 1 .. N : e = SeedEntry(k) /\ e.ino = k + 1 BY <1>14
    <3>2. PICK j \in 1 .. N : z = SeedEntry(j) /\ z.ino = j + 1 BY <1>14
    <3>3. k = j BY <3>1, <3>2
    <3> QED BY <3>1, <3>2, <3>3
  <2> QED BY <1>13, <2>1, <2>2 DEF OneName
<1>19. DotsLead(K, M, E, FALSE)
  <2> SUFFICES ASSUME NEW d \in K, NEW e \in E[d]
               PROVE  /\ e.name \in Dots => e.ft = "dir"
                      /\ e.name = "." => e.ino = d
                      /\ e.name = ".." =>
                           e.ino \in K /\ \E z \in E[e.ino] : z.name \notin Dots /\ z.ino = d
    BY <1>13 DEF DotsLead
  <2>1. CASE d = Root
    BY <1>14, <2>1 DEF Dots
  <2>2. CASE d # Root
    BY <1>6, <1>15, <1>16, <2>2 DEF OnlyDots
  <2> QED BY <2>1, <2>2
<1>20. DotsThere(K, M, E)
  BY <1>13, <1>15 DEF DotsThere, OnlyDots
<1>21. Graph(K, M, E, FALSE)
  BY <1>6, <1>13, <1>17, <1>18, <1>19, <1>20 DEF Graph
<1>22. Tally(x, K, FALSE)
  <2>1. \A e : e \in E[Root] <=> \E k \in 1 .. N : e = SeedEntry(k)
    BY <1>6, <1>7, <1>12 DEF Ents
  <2>2. SeedTree(N, K, M, E)
    <3>1. \A d \in K : M[d] = "dir" BY <1>13 DEF DirsOf
    <3>2. \A d \in K : d # Root => \A e \in E[d] : e.name \in Dots BY <1>15 DEF OnlyDots
    <3> QED BY <1>4, <1>5, <2>1, <3>1, <3>2 DEF SeedTree
  <2>3. PICK links : links = Links(x) OBVIOUS
  <2>4. SeedCounts(N, K, x.dirs, links)
    <3>1. links[Root] = 2 + N BY <1>6, <1>7, <2>3 DEF Links
    <3>2. \A d \in K : d # Root => links[d] = 2 BY <1>6, <1>8, <2>3 DEF Links
    <3> QED BY <1>7, <3>1, <3>2 DEF SeedCounts
  <2>5. /\ Rooted(K, M, E) /\ CountsDirs(x.dirs, K, M)
        /\ CountsLinks(links, K, M, E, FALSE)
    BY ONLY N \in Nat, <2>2, <2>4, SeedTally
  <2> QED BY <1>11, <1>12, <2>3, <2>5 DEF Tally
<1> QED BY <1>2, <1>7, <1>9, <1>10, <1>11, <1>12, <1>21, <1>22 DEF Good

-----------------------------------------------------------------------------
(* The invariant *)

\* The inductive invariant: the disk is sane, some inodes of it form a tree that its counts
\* count (unless a path that ends with a dot, or a loop, has broken it), and the current
\* directory is a short path of names.
FsInv ==
  /\ Sane(fs) /\ nodes = Nodes(fs)
  /\ cwd \in Seq(Names) /\ Len(cwd) <= MAX_DEPTH
  /\ moved \in BOOLEAN /\ broken \in BOOLEAN
  /\ ~broken => \E L : Good(fs, L, moved) /\ Tally(fs, L, moved)

\* The machine starts with what mkfs has written.
LEMMA InitFs == Init => FsInv
<1> SUFFICES ASSUME Init PROVE FsInv
  OBVIOUS
<1>1. Sane(fs) /\ \E L : Good(fs, L, moved) /\ Tally(fs, L, moved)
  BY MkfsGood DEF Init
<1>2. MAX_DEPTH \in Nat
  BY Consts
<1>3. cwd \in Seq(Names) /\ Len(cwd) <= MAX_DEPTH
  BY <1>2 DEF Init
<1> QED BY <1>1, <1>3 DEF Init, FsInv

\* A command keeps the invariant if what it makes of the disk is fine.
LEMMA ChangesFs ==
  ASSUME FsInv, NEW p \in Paths, NEW cmd, NEW r, Changes(cmd, p, r),
         Fine(r.fs, Leaf(p), moved)
  PROVE  FsInv'
<1>1. fs' = r.fs /\ cwd' = cwd /\ moved' = moved /\ ~broken
      /\ nodes' = (IF fs' = fs THEN nodes ELSE Nodes(fs'))
      /\ broken' = (fs' # fs /\ DotLeaf(p))
  BY DEF Changes, Does, Runs
<1>2. Sane(fs') /\ nodes' = Nodes(fs')
  BY <1>1 DEF FsInv, Fine
<1>3. broken' \in BOOLEAN
  BY <1>1
<1>4. ASSUME ~broken' PROVE \E L : Good(fs', L, moved') /\ Tally(fs', L, moved')
  <2>1. CASE fs' = fs
    BY <1>1, <2>1 DEF FsInv
  <2>2. CASE ~DotLeaf(p)
    <3>1. Leaf(p) \notin Dots BY <2>2 DEF DotLeaf, Dots
    <3> QED BY <1>1, <3>1 DEF Fine
  <2> QED BY <1>1, <1>4, <2>1, <2>2
<1> QED BY <1>1, <1>2, <1>3, <1>4 DEF FsInv

\* One lemma per command.
LEMMA TouchFs == ASSUME FsInv, NEW p \in Paths, DoTouch(p) PROVE FsInv'
<1>1. PICK r : r = Touch(fs, p)
  OBVIOUS
<1>2. Changes("touch", p, r) /\ ~broken /\ (moved => ~Dotted(p))
  BY <1>1 DEF DoTouch, Changes, Runs
<1>3. PICK L : Good(fs, L, moved) /\ Tally(fs, L, moved)
  BY <1>2 DEF FsInv
<1>4. Fine(r.fs, Leaf(p), moved)
  BY <1>1, <1>2, <1>3, TouchFine DEF FsInv
<1> QED BY <1>2, <1>4, ChangesFs

\* mkdir.
LEMMA MkdirFs == ASSUME FsInv, NEW p \in Paths, DoMkdir(p) PROVE FsInv'
<1>1. PICK r : r = Mkdir(fs, p)
  OBVIOUS
<1>2. Changes("mkdir", p, r) /\ ~broken /\ (moved => ~Dotted(p))
  BY <1>1 DEF DoMkdir, Changes, Runs
<1>3. PICK L : Good(fs, L, moved) /\ Tally(fs, L, moved)
  BY <1>2 DEF FsInv
<1>4. Fine(r.fs, Leaf(p), moved)
  BY <1>1, <1>2, <1>3, MkdirFine DEF FsInv
<1> QED BY <1>2, <1>4, ChangesFs

\* write_file.
LEMMA WriteFs ==
  ASSUME FsInv, NEW p \in Paths, NEW d \in Payloads, DoWrite(p, d) PROVE FsInv'
<1>1. PICK r : r = WriteFile(fs, p, d)
  OBVIOUS
<1>2. Changes("write", p, r) /\ ~broken /\ (moved => ~Dotted(p))
  BY <1>1 DEF DoWrite, Changes, Runs
<1>3. PICK L : Good(fs, L, moved) /\ Tally(fs, L, moved)
  BY <1>2 DEF FsInv
<1>4. Fine(r.fs, Leaf(p), moved)
  BY <1>1, <1>2, <1>3, WriteFine DEF FsInv
<1> QED BY <1>2, <1>4, ChangesFs

\* rm.
LEMMA RmFs == ASSUME FsInv, NEW p \in Paths, DoRm(p) PROVE FsInv'
<1>1. PICK r : r = Rm(fs, p)
  OBVIOUS
<1>2. Changes("rm", p, r) /\ ~broken /\ (moved => ~Dotted(p))
  BY <1>1 DEF DoRm, Changes, Runs
<1>3. PICK L : Good(fs, L, moved) /\ Tally(fs, L, moved)
  BY <1>2 DEF FsInv
<1>4. Fine(r.fs, Leaf(p), moved)
  BY <1>1, <1>2, <1>3, RmFine DEF FsInv
<1> QED BY <1>2, <1>4, ChangesFs

\* rmdir.
LEMMA RmdirFs == ASSUME FsInv, NEW p \in Paths, DoRmdir(p) PROVE FsInv'
<1>1. PICK r : r = Rmdir(fs, p)
  OBVIOUS
<1>2. Changes("rmdir", p, r) /\ ~broken /\ (moved => ~Dotted(p))
  BY <1>1 DEF DoRmdir, Changes, Runs
<1>3. PICK L : Good(fs, L, moved) /\ Tally(fs, L, moved)
  BY <1>2 DEF FsInv
<1>4. Fine(r.fs, Leaf(p), moved)
  BY <1>1, <1>2, <1>3, RmdirFine DEF FsInv
<1> QED BY <1>2, <1>4, ChangesFs

\* mv.
LEMMA MvFs == ASSUME FsInv, NEW p \in Paths, NEW q \in Paths, DoMv(p, q) PROVE FsInv'
<1>1. PICK r : r = Mv(fs, p, q)
  OBVIOUS
<1>2. PICK e : e = Lookup(fs, ParentOf(fs, p), Leaf(p))
  OBVIOUS
<1>3. PICK far \in BOOLEAN :
        far = (r.res = "ok" /\ e.ft = "dir" /\ ParentOf(fs, p) # ParentOf(fs, q))
  OBVIOUS
<1>11. PICK loop \in BOOLEAN :
         loop = (r.res = "ok" /\ e.ft = "dir" /\ e.ino \in Above(fs, ParentOf(fs, q)))
  OBVIOUS
<1>4. /\ ~broken /\ (moved => ~Dotted(p) /\ ~Dotted(q))
      /\ fs' = r.fs /\ cwd' = cwd /\ last'.res = r.res
      /\ nodes' = (IF fs' = fs THEN nodes ELSE Nodes(fs'))
  BY <1>1 DEF DoMv, Does, Runs
<1>5. moved' = (moved \/ far) /\ broken' \in BOOLEAN
      /\ (~broken' => ~loop /\ (fs' = fs \/ (~DotLeaf(p) /\ ~DotLeaf(q))))
  <2>1. moved' = (moved \/ ((last'.res = "ok" /\ e.ft = "dir")
                              /\ ParentOf(fs, p) # ParentOf(fs, q)))
    BY <1>2 DEF DoMv
  <2>2. broken' = (\/ fs' # fs /\ (DotLeaf(p) \/ DotLeaf(q))
                   \/ (last'.res = "ok" /\ e.ft = "dir")
                        /\ e.ino \in Above(fs, ParentOf(fs, q)))
    BY <1>2 DEF DoMv
  <2>3. moved' = (moved \/ far) BY <1>3, <1>4, <2>1
  <2>4. broken' = ((fs' # fs /\ (DotLeaf(p) \/ DotLeaf(q))) \/ loop)
    BY <1>4, <1>11, <2>2
  <2> QED BY <2>3, <2>4
<1>6. PICK L : Good(fs, L, moved) /\ Tally(fs, L, moved)
  BY <1>4 DEF FsInv
<1>7. /\ Sane(r.fs)
      /\ Leaf(p) \notin Dots /\ Leaf(q) \notin Dots /\ ~loop =>
           \E K : Good(r.fs, K, moved \/ far) /\ Tally(r.fs, K, moved \/ far)
  <2>1. /\ Sane(fs) /\ cwd \in Seq(Names) BY DEF FsInv
  <2>2. /\ Sane(r.fs)
        /\ /\ Leaf(p) \notin Dots /\ Leaf(q) \notin Dots
           /\ ~(r.res = "ok" /\ e.ft = "dir" /\ e.ino \in Above(fs, ParentOf(fs, q)))
           => \E K :
                /\ Good(r.fs, K, moved \/ (r.res = "ok" /\ e.ft = "dir"
                                             /\ ParentOf(fs, p) # ParentOf(fs, q)))
                /\ Tally(r.fs, K, moved \/ (r.res = "ok" /\ e.ft = "dir"
                                              /\ ParentOf(fs, p) # ParentOf(fs, q)))
    <3>1. LET x == Mv(fs, p, q)
              y == Lookup(fs, ParentOf(fs, p), Leaf(p))
              far2 == x.res = "ok" /\ y.ft = "dir" /\ ParentOf(fs, p) # ParentOf(fs, q)
              loop2 == x.res = "ok" /\ y.ft = "dir" /\ y.ino \in Above(fs, ParentOf(fs, q))
          IN  /\ Sane(x.fs)
              /\ Leaf(p) \notin Dots /\ Leaf(q) \notin Dots /\ ~loop2 =>
                   \E K : Good(x.fs, K, moved \/ far2) /\ Tally(x.fs, K, moved \/ far2)
      BY ONLY <1>4, <1>6, <2>1, p \in Paths, q \in Paths, MvFine
    <3> QED BY ONLY <1>1, <1>2, <3>1
  <2> QED BY <1>3, <1>11, <2>2
<1>8. Sane(fs') /\ nodes' = Nodes(fs')
  BY <1>4, <1>7 DEF FsInv
<1>9. ASSUME ~broken' PROVE \E K : Good(fs', K, moved') /\ Tally(fs', K, moved')
  <2>1. CASE fs' = fs
    <3>1. Good(fs', L, moved) /\ Tally(fs', L, moved) BY <1>6, <2>1
    <3>2. moved => moved' BY <1>5
    <3> QED BY <3>1, <3>2, GoodMono, TallyMono
  <2>2. CASE ~DotLeaf(p) /\ ~DotLeaf(q)
    <3>1. Leaf(p) \notin Dots /\ Leaf(q) \notin Dots BY <2>2 DEF DotLeaf, Dots
    <3>2. ~loop BY <1>5, <1>9
    <3> QED BY <1>4, <1>5, <1>7, <3>1, <3>2
  <2> QED BY <1>5, <1>9, <2>1, <2>2
<1>10. moved' \in BOOLEAN
  BY <1>5 DEF FsInv
<1> QED BY <1>4, <1>5, <1>8, <1>9, <1>10 DEF FsInv

\* cd changes the current directory only.
LEMMA CdFs == ASSUME FsInv, NEW p \in Paths, DoCd(p) PROVE FsInv'
<1>1. Candidate(p) \in Cds
  BY CandidateFacts DEF FsInv
<1>2. cwd' \in Seq(Names) /\ Len(cwd') <= MAX_DEPTH
  BY <1>1 DEF DoCd, Cds, FsInv
<1> QED BY <1>2 DEF DoCd, FsInv

\* A look changes nothing.
LEMMA ReadFs == ASSUME FsInv, NEW p \in Paths, DoRead(p) PROVE FsInv'
BY DEF FsInv, DoRead

\* mkfs again: nothing of the old disk is left.
LEMMA ReformatFs == ASSUME FsInv, DoMkfs PROVE FsInv'
<1>1. fs' = MkfsFs /\ nodes' = Nodes(fs') /\ moved' = FALSE /\ broken' = FALSE /\ cwd' = cwd
  BY DEF DoMkfs
<1>2. Sane(fs') /\ \E K : Good(fs', K, moved') /\ Tally(fs', K, moved')
  BY <1>1, MkfsGood
<1> QED BY <1>1, <1>2 DEF FsInv

\* Every step keeps the invariant.
LEMMA StepFs == FsInv /\ [Next]_vars => FsInv'
<1> SUFFICES ASSUME FsInv, [Next]_vars PROVE FsInv'
  OBVIOUS
<1>1. CASE \E p \in Paths : DoTouch(p) BY <1>1, TouchFs
<1>2. CASE \E p \in Paths : DoMkdir(p) BY <1>2, MkdirFs
<1>3. CASE \E p \in Paths : DoRm(p) BY <1>3, RmFs
<1>4. CASE \E p \in Paths : DoRmdir(p) BY <1>4, RmdirFs
<1>5. CASE \E p \in Paths : DoRead(p) BY <1>5, ReadFs
<1>6. CASE \E p \in Paths : DoCd(p) BY <1>6, CdFs
<1>7. CASE \E p \in Paths : \E d \in Payloads \ {Empty} : DoWrite(p, d) BY <1>7, WriteFs
<1>8. CASE \E p, q \in Paths : DoMv(p, q) BY <1>8, MvFs
<1>9. CASE DoMkfs BY <1>9, ReformatFs
<1>10. CASE UNCHANGED vars BY <1>10 DEF vars, FsInv
<1> QED BY <1>1, <1>2, <1>3, <1>4, <1>5, <1>6, <1>7, <1>8, <1>9, <1>10 DEF Next

\* Whatever commands are given, on a disk of any size: the free counters of the groups and
\* of the super block follow the bitmaps (alloc_block to free_inode), no extent list is
\* longer than an inode holds, no block belongs to two inodes of the tree, and every inode
\* of it but the root is named by one entry of one directory - the last two until a command
\* has made or removed an entry "." or ".." or mv has put a directory below itself.
THEOREM Ext4FsInvariant == Spec => []FsInv
<1>1. FsInv /\ [Next]_vars => FsInv'
  BY StepFs
<1> QED BY InitFs, <1>1, PTL DEF Spec

\* The invariant contains the types.
LEMMA FsTypes == FsInv => TypeOK
BY DEF FsInv, Sane, FsType, InodeType, TypeOK

\* The counters of the free blocks and inodes are what the bitmaps say.
LEMMA FsCounters == FsInv => Counters
<1> SUFFICES ASSUME FsInv PROVE Counters
  OBVIOUS
<1>1. /\ Counted(Blk, BlkGroup, fs.bused, fs.bfree, fs.sbBlocks)
      /\ Counted(Ino, InoGroup, fs.iused, fs.ifree, fs.sbInodes)
  BY DEF FsInv, Sane
<1>2. ASSUME NEW g \in Group
      PROVE  /\ fs.bfree[g] = Cardinality({b \in Blk \ fs.bused : GroupOfBlk(b) = g})
             /\ fs.ifree[g] = Cardinality({i \in Ino \ fs.iused : GroupOfIno(i) = g})
  <2>1. {b \in Blk \ fs.bused : GroupOfBlk(b) = g} = {b \in Blk \ fs.bused : BlkGroup[b] = g}
    BY DEF BlkGroup
  <2>2. {i \in Ino \ fs.iused : GroupOfIno(i) = g} = {i \in Ino \ fs.iused : InoGroup[i] = g}
    BY DEF InoGroup
  <2> QED BY <1>1, <2>1, <2>2 DEF Counted
<1> QED BY <1>1, <1>2 DEF Counters, Counted

-----------------------------------------------------------------------------
(* The walk from the root *)

\* What is found n entries below the root of f.
Walks(f, L, n) ==
  {x \in [path : Seq(Names \cup {""}), ino : L, ft : {"dir", "file"}] :
     /\ x.ft = f.ino[x.ino].mode
     /\ n = 0 => x.path = << >> /\ x.ino = Root /\ x.ft = "dir"
     /\ n # 0 => x.ino # Root}

\* A child is found by one entry more, in a directory of the tree, under a name.
LEMMA ChildFacts ==
  ASSUME NEW f, Sane(f), NEW L, NEW mvd, Good(f, L, mvd), NEW k \in Nat,
         NEW x \in Walks(f, L, k), NEW y \in Children(f, x)
  PROVE  /\ \A n \in Nat : n # 0 => y \in Walks(f, L, n)
         /\ x.ino \in DirsOf(L, Modes(f)) /\ x.ft = "dir"
         /\ \E e \in Ents(f)[x.ino] :
              /\ e.name \notin Dots
              /\ y = [path |-> Append(x.path, e.name), ino |-> e.ino, ft |-> e.ft]
<1>1. x.ino \in L /\ x.ft = f.ino[x.ino].mode /\ x.path \in Seq(Names \cup {""})
  BY DEF Walks
<1>2. x.ft = "dir"
  BY DEF Children
<1>3. x.ino \in DirsOf(L, Modes(f)) /\ x.ino \in Ino /\ Ents(f)[x.ino] = Entries(f, x.ino)
  <2>1. L \subseteq Ino BY PlaceFacts
  <2> QED BY <1>1, <1>2, <2>1 DEF DirsOf, Modes, Ents
<1>4. PICK e \in Entries(f, x.ino) :
        /\ e.name \notin Dots
        /\ y = [path |-> Append(x.path, e.name), ino |-> e.ino, ft |-> e.ft]
  BY <1>2 DEF Children, Dots
<1>5. e.ino \in L /\ e.ino # Root /\ e.ft = f.ino[e.ino].mode
  BY <1>3, <1>4, EntryLeads
<1>6. e \in EntryType /\ f.ino[e.ino] \in InodeType
  <2>1. L \subseteq Ino BY PlaceFacts
  <2> QED BY <1>3, <1>4, <1>5, <2>1, TypesAt
<1>7. e.name \in Names \cup {""} /\ e.ft \in {"dir", "file"}
  <2>1. e.ft \in {"dir", "file"} BY <1>5, <1>6 DEF InodeType
  <2>2. e.name \in Names \cup {".", "..", ""} BY <1>6 DEF EntryType
  <2> QED BY <1>4, <2>1, <2>2 DEF Dots
<1>8. Append(x.path, e.name) \in Seq(Names \cup {""})
  <2>1. PICK T : T = Names \cup {""} OBVIOUS
  <2>2. PICK s : s = x.path OBVIOUS
  <2>3. PICK n : n = e.name OBVIOUS
  <2>4. s \in Seq(T) /\ n \in T BY <1>1, <1>7, <2>1, <2>2, <2>3
  <2>5. Append(s, n) \in Seq(T) BY ONLY <2>4
  <2> QED BY <2>1, <2>2, <2>3, <2>5
<1>9. y \in [path : Seq(Names \cup {""}), ino : L, ft : {"dir", "file"}]
      /\ y.ino = e.ino /\ y.ft = e.ft
  <2>1. PICK s : s = Append(x.path, e.name) OBVIOUS
  <2>2. PICK i : i = e.ino OBVIOUS
  <2>3. PICK ft : ft = e.ft OBVIOUS
  <2>4. s \in Seq(Names \cup {""}) /\ i \in L /\ ft \in {"dir", "file"}
    BY ONLY <1>5, <1>7, <1>8, <2>1, <2>2, <2>3
  <2>5. y = [path |-> s, ino |-> i, ft |-> ft] BY <1>4, <2>1, <2>2, <2>3
  <2> QED BY ONLY <2>2, <2>3, <2>4, <2>5
<1>10. \A n \in Nat : n # 0 => y \in Walks(f, L, n)
  BY <1>5, <1>9 DEF Walks
<1> QED BY <1>2, <1>3, <1>4, <1>10

\* The levels of the walk.
RootNode == [path |-> << >>, ino |-> Root, ft |-> "dir"]
\* What is found by one entry more.
Below(f, S) == UNION {Children(f, x) : x \in S}
\* lev[n] is what is found by n entries, and all levels together are the nodes.
Levels(f, L, lev) ==
  LET C == Cardinality(Ino)
  IN  /\ lev[0] = {RootNode} /\ \A n \in 1 .. C : lev[n] = Below(f, lev[n - 1])
      /\ \A n \in 0 .. C : lev[n] \subseteq Walks(f, L, n)
      /\ Nodes(f) = UNION {lev[n] : n \in 0 .. C}

\* The walk starts at the root.
LEMMA RootWalks ==
  ASSUME NEW f, NEW L, NEW mvd, Good(f, L, mvd)
  PROVE  RootNode \in Walks(f, L, 0)
<1>1. Root \in L /\ f.ino[Root].mode = "dir"
  BY InoFacts DEF Good, Graph, DirsOf, Modes
<1>2. << >> \in Seq(Names \cup {""})
  OBVIOUS
<1>3. RootNode \in [path : Seq(Names \cup {""}), ino : L, ft : {"dir", "file"}]
  BY <1>1, <1>2 DEF RootNode
<1> QED BY <1>1, <1>3 DEF RootNode, Walks

\* There are such levels.
LEMMA LevelsFacts ==
  ASSUME NEW f, Sane(f), NEW L, NEW mvd, Good(f, L, mvd)
  PROVE  \E lev : Levels(f, L, lev)
<1> DEFINE N == Cardinality(Ino)
           W(n) == SUBSET Walks(f, L, n)
           base == {RootNode}
           Q == [n \in 0 .. N |-> W(n)]
           step == [n \in 1 .. N |-> [S \in W(n - 1) |-> Below(f, S)]]
           Is(h) == h = [k \in 0 .. N |-> IF k = 0 THEN base ELSE Below(f, h[k - 1])]
           lev == CHOOSE h : Is(h)
<1>1. N \in Nat
  BY InoFacts, FS_CardinalityType
<1>2. base \in W(0)
  BY RootWalks
<1>3. \A n \in 0 .. N : Q[n] = W(n)
  <2> HIDE DEF W, N
  <2> QED OBVIOUS
<1>4. \A n \in 1 .. N : \A S \in Q[n - 1] :
        step[n][S] = Below(f, S) /\ step[n][S] \in Q[n]
  <2> SUFFICES ASSUME NEW n \in 1 .. N, NEW S \in Q[n - 1]
               PROVE  step[n][S] = Below(f, S) /\ step[n][S] \in Q[n]
    OBVIOUS
  <2>1. n - 1 \in 0 .. N /\ n \in 0 .. N /\ n - 1 \in Nat /\ n \in Nat /\ n # 0 BY <1>1
  <2>2. Q[n - 1] = W(n - 1) /\ Q[n] = W(n) BY <1>3, <2>1
  <2>3. S \in W(n - 1) BY <2>2
  <2>4. Below(f, S) \in W(n)
    <3>1. PICK k \in Nat : k = n - 1 BY <2>1
    <3>2. S \subseteq Walks(f, L, k) BY <2>3, <3>1
    <3>3. \A x \in S : \A y \in Children(f, x) : y \in Walks(f, L, n)
      BY <2>1, <3>2, ChildFacts
    <3> QED BY <3>3 DEF Below
  <2> HIDE DEF Q, W
  <2>5. step[n][S] = Below(f, S) BY <2>3
  <2> QED BY <2>2, <2>4, <2>5
<1> HIDE DEF Q, step, W, N, base
<1>5. \E h : IsLoop(h, N, base, step) /\ Within(h, N, Q)
  <2>1. N \in Nat /\ base \in Q[0] /\ Leads(N, Q, step)
    <3>1. 0 \in 0 .. N BY <1>1
    <3> QED BY <1>1, <1>2, <1>3, <1>4, <3>1 DEF Leads
  <2> QED BY ONLY <2>1, LoopWithin
<1>6. PICK h : /\ h = [n \in 0 .. N |-> IF n = 0 THEN base ELSE step[n][h[n - 1]]]
               /\ \A n \in 0 .. N : h[n] \in Q[n]
  BY <1>5 DEF IsLoop, Within
<1>7. Is(h)
  <2>1. \A n \in 0 .. N : n # 0 => n \in 1 .. N /\ n - 1 \in 0 .. N BY <1>1
  <2>2. \A n \in 0 .. N : n # 0 => step[n][h[n - 1]] = Below(f, h[n - 1])
    BY <1>4, <1>6, <2>1
  <2>3. \A n \in 0 .. N : (IF n = 0 THEN base ELSE step[n][h[n - 1]])
                         = (IF n = 0 THEN base ELSE Below(f, h[n - 1]))
    BY <2>2
  <2>4. [n \in 0 .. N |-> IF n = 0 THEN base ELSE step[n][h[n - 1]]]
          = [n \in 0 .. N |-> IF n = 0 THEN base ELSE Below(f, h[n - 1])]
    BY ONLY <2>3
  <2>5. h = [n \in 0 .. N |-> IF n = 0 THEN base ELSE Below(f, h[n - 1])]
    BY <1>6, <2>4
  <2> QED BY <2>5
<1>8. PICK c : c = lev
  OBVIOUS
<1>9. Is(c)
  BY <1>7, <1>8
<1> HIDE DEF lev
<1>10. c[0] = base /\ \A n \in 1 .. N : c[n] = Below(f, c[n - 1])
  <2>1. c = [k \in 0 .. N |-> IF k = 0 THEN base ELSE Below(f, c[k - 1])]
    BY <1>9
  <2>2. 0 \in 0 .. N /\ \A n \in 1 .. N : n \in 0 .. N /\ n # 0 BY <1>1
  <2> HIDE DEF Is
  <2> QED BY <2>1, <2>2
<1>11. \A n \in 0 .. N : c[n] \in Q[n]
  <2>1. N \in Nat /\ c[0] \in Q[0]
    <3>1. 0 \in 0 .. N BY <1>1
    <3> QED BY <1>1, <1>2, <1>3, <1>10, <3>1
  <2>2. \A n \in 1 .. N : c[n - 1] \in Q[n - 1] => c[n] \in Q[n]
    BY <1>4, <1>10
  <2> QED BY ONLY <2>1, <2>2, LoopStays
<1>12. Nodes(f) = UNION {c[n] : n \in 0 .. N}
  BY <1>8 DEF Nodes, lev, N, base, Below, RootNode
<1>13. \A n \in 0 .. N : c[n] \subseteq Walks(f, L, n)
  BY <1>3, <1>11 DEF W
<1>14. Levels(f, L, c)
  BY <1>10, <1>12, <1>13 DEF Levels, N, base
<1> QED BY <1>14

\* x is found through the entry e of y.
ChildBy(x, y, e) ==
  x = [path |-> Append(y.path, e.name), ino |-> e.ino, ft |-> e.ft]

\* The nodes of the tree, and how they are found.
Tidy(f, L, N) ==
  /\ RootNode \in N
  /\ \A x \in N : /\ x \in [path : Seq(Names \cup {""}), ino : L, ft : {"dir", "file"}]
                  /\ x.ft = f.ino[x.ino].mode
                  /\ x.ino # Root =>
                       \E y \in N : /\ y.ft = "dir" /\ y.ino \in DirsOf(L, Modes(f))
                                    /\ \E e \in Ents(f)[y.ino] :
                                         e.name \notin Dots /\ ChildBy(x, y, e)
  /\ \A x, y \in N : x.ino = y.ino => x = y

\* Only the root is found by no entry.
LEMMA RootOnly ==
  ASSUME NEW f, NEW L, NEW x \in Walks(f, L, 0)
  PROVE  x = RootNode
BY DEF Walks, RootNode

\* Different nodes are different inodes: a file that is found twice has two names, or its
\* directory is found twice, one level up. By induction over the levels.
LEMMA OneNode ==
  ASSUME NEW f, Sane(f), NEW L, NEW mvd, Good(f, L, mvd), NEW lev, Levels(f, L, lev)
  PROVE  \A n, m \in 0 .. Cardinality(Ino) :
           \A x \in lev[n], y \in lev[m] : x.ino = y.ino => x = y
<1>1. PICK C \in Nat : C = Cardinality(Ino)
  BY InoFacts, FS_CardinalityType
<1>2. /\ \A n \in 1 .. C : lev[n] = Below(f, lev[n - 1])
      /\ \A n \in 0 .. C : lev[n] \subseteq Walks(f, L, n)
  BY <1>1 DEF Levels
<1> DEFINE Same(n) == \A m \in 0 .. C : \A x \in lev[n], y \in lev[m] : x.ino = y.ino => x = y
           S == {n \in Nat : n <= C => Same(n)}
<1>3. \A n \in 1 .. C : \A x \in lev[n] : \E z \in lev[n - 1] :
        /\ z.ino \in DirsOf(L, Modes(f))
        /\ \E e \in Ents(f)[z.ino] : e.name \notin Dots /\ ChildBy(x, z, e)
  <2> SUFFICES ASSUME NEW n \in 1 .. C, NEW x \in lev[n]
               PROVE  \E z \in lev[n - 1] :
                        /\ z.ino \in DirsOf(L, Modes(f))
                        /\ \E e \in Ents(f)[z.ino] : e.name \notin Dots /\ ChildBy(x, z, e)
    OBVIOUS
  <2>1. PICK k \in Nat : k = n - 1 OBVIOUS
  <2>2. PICK z \in lev[k] : x \in Children(f, z) BY <1>2, <2>1 DEF Below
  <2>3. z \in Walks(f, L, k)
    <3>1. k \in 0 .. C BY <2>1
    <3> QED BY <1>2, <2>2, <3>1
  <2>4. /\ z.ino \in DirsOf(L, Modes(f))
        /\ \E e \in Ents(f)[z.ino] :
             /\ e.name \notin Dots
             /\ x = [path |-> Append(z.path, e.name), ino |-> e.ino, ft |-> e.ft]
    BY <2>2, <2>3, ChildFacts
  <2> QED BY <2>1, <2>2, <2>4 DEF ChildBy
<1>4. \A n \in 1 .. C : \A x \in lev[n] : x.ino # Root
  <2>1. \A n \in 1 .. C : n \in 0 .. C /\ n # 0 OBVIOUS
  <2>2. \A n : n # 0 => \A x \in Walks(f, L, n) : x.ino # Root BY DEF Walks
  <2> QED BY <1>2, <2>1, <2>2
<1>5. \A x \in lev[0] : x = RootNode /\ x.ino = Root
  <2>1. 0 \in 0 .. C OBVIOUS
  <2>2. RootNode.ino = Root BY DEF RootNode
  <2> QED BY <1>2, <2>1, <2>2, RootOnly
<1>6. 0 \in S
  <2> SUFFICES ASSUME NEW m \in 0 .. C, NEW x \in lev[0], NEW y \in lev[m], x.ino = y.ino
               PROVE  x = y
    OBVIOUS
  <2>1. m = 0
    <3> SUFFICES ASSUME m # 0 PROVE FALSE OBVIOUS
    <3>1. m \in 1 .. C OBVIOUS
    <3> QED BY <1>4, <1>5, <3>1
  <2> QED BY <1>5, <2>1
<1>7. ASSUME NEW n \in Nat, n \in S PROVE n + 1 \in S
  <2> SUFFICES ASSUME n + 1 <= C, NEW m \in 0 .. C, NEW x \in lev[n + 1], NEW y \in lev[m],
                      x.ino = y.ino
               PROVE  x = y
    OBVIOUS
  <2>1. n + 1 \in 1 .. C /\ (n + 1) - 1 = n /\ n \in 0 .. C OBVIOUS
  <2>2. Same(n) BY <1>7, <2>1
  <2>3. PICK z \in lev[n] :
          /\ z.ino \in DirsOf(L, Modes(f))
          /\ \E e \in Ents(f)[z.ino] : e.name \notin Dots /\ ChildBy(x, z, e)
    BY <1>3, <2>1
  <2>4. PICK e \in Ents(f)[z.ino] : e.name \notin Dots /\ ChildBy(x, z, e)
    BY <2>3
  <2>5. m # 0
    BY <1>4, <1>5, <2>1
  <2>6. m \in 1 .. C /\ m - 1 \in 0 .. C BY <2>5
  <2>7. PICK w \in lev[m - 1] :
          /\ w.ino \in DirsOf(L, Modes(f))
          /\ \E d \in Ents(f)[w.ino] : d.name \notin Dots /\ ChildBy(y, w, d)
    BY <1>3, <2>6
  <2>8. PICK d \in Ents(f)[w.ino] : d.name \notin Dots /\ ChildBy(y, w, d)
    BY <2>7
  <2>9. e.ino = d.ino
    <3>1. x.ino = e.ino /\ y.ino = d.ino BY <2>4, <2>8 DEF ChildBy
    <3> QED BY <3>1
  <2>10. z.ino = w.ino /\ e = d
    <3>1. OneName(L, Modes(f), Ents(f)) BY DEF Good, Graph
    <3> QED BY <2>3, <2>4, <2>7, <2>8, <2>9, <3>1 DEF OneName
  <2>11. z = w BY <2>2, <2>6, <2>10
  <2> QED BY <2>4, <2>8, <2>10, <2>11 DEF ChildBy
<1> HIDE DEF S
<1>8. Nat \subseteq S
  BY <1>6, <1>7, InductionOnNat
<1>9. \A n \in 0 .. C : Same(n)
  <2>1. \A n \in 0 .. C : n \in S /\ n <= C BY <1>8
  <2> QED BY <2>1 DEF S
<1> QED BY <1>1, <1>9

\* So the walk finds every inode by one path, each through an entry of a directory.
LEMMA NodesTidy ==
  ASSUME NEW f, Sane(f), NEW L, NEW mvd, Good(f, L, mvd)
  PROVE  Tidy(f, L, Nodes(f))
<1>1. PICK lev : Levels(f, L, lev)
  BY LevelsFacts
<1>2. PICK C \in Nat : C = Cardinality(Ino)
  BY InoFacts, FS_CardinalityType
<1>3. PICK N : N = Nodes(f)
  OBVIOUS
<1>4. /\ lev[0] = {RootNode}
      /\ \A n \in 1 .. C : lev[n] = Below(f, lev[n - 1])
      /\ \A n \in 0 .. C : lev[n] \subseteq Walks(f, L, n)
      /\ N = UNION {lev[n] : n \in 0 .. C}
  BY <1>1, <1>2, <1>3 DEF Levels
<1>5. RootNode \in N
  <2>1. 0 \in 0 .. C OBVIOUS
  <2> QED BY <1>4, <2>1
<1>6. ASSUME NEW x \in N
      PROVE  /\ x \in [path : Seq(Names \cup {""}), ino : L, ft : {"dir", "file"}]
             /\ x.ft = f.ino[x.ino].mode
             /\ x.ino # Root =>
                  \E y \in N : /\ y.ft = "dir" /\ y.ino \in DirsOf(L, Modes(f))
                               /\ \E e \in Ents(f)[y.ino] :
                                    e.name \notin Dots /\ ChildBy(x, y, e)
  <2>1. PICK n \in 0 .. C : x \in lev[n] BY <1>4
  <2>2. x \in Walks(f, L, n) BY <1>4, <2>1
  <2>3. /\ x \in [path : Seq(Names \cup {""}), ino : L, ft : {"dir", "file"}]
        /\ x.ft = f.ino[x.ino].mode
    BY <2>2 DEF Walks
  <2>4. ASSUME x.ino # Root
        PROVE  \E y \in N : /\ y.ft = "dir" /\ y.ino \in DirsOf(L, Modes(f))
                            /\ \E e \in Ents(f)[y.ino] :
                                 e.name \notin Dots /\ ChildBy(x, y, e)
    <3>1. n # 0 BY <2>2, <2>4 DEF Walks
    <3>2. n \in 1 .. C BY <3>1
    <3>3. PICK k \in Nat : k = n - 1 BY <3>2
    <3>4. k \in 0 .. C BY <3>2, <3>3
    <3>5. PICK y \in lev[k] : x \in Children(f, y) BY <1>4, <2>1, <3>2, <3>3 DEF Below
    <3>6. y \in Walks(f, L, k) /\ y \in N BY <1>4, <3>4, <3>5
    <3>7. /\ y.ino \in DirsOf(L, Modes(f)) /\ y.ft = "dir"
          /\ \E e \in Ents(f)[y.ino] :
               /\ e.name \notin Dots
               /\ x = [path |-> Append(y.path, e.name), ino |-> e.ino, ft |-> e.ft]
      BY <3>5, <3>6, ChildFacts
    <3> QED BY <3>6, <3>7 DEF ChildBy
  <2> QED BY <2>3, <2>4
<1>7. \A x, y \in N : x.ino = y.ino => x = y
  <2>1. \A n, m \in 0 .. C : \A x \in lev[n], y \in lev[m] : x.ino = y.ino => x = y
    BY <1>1, <1>2, OneNode
  <2> QED BY <1>4, <2>1
<1>8. Tidy(f, L, N)
  BY <1>5, <1>6, <1>7 DEF Tidy
<1> QED BY <1>3, <1>8

\* A directory leads to what it names.
Naming(f) ==
  {p \in Ino \X Ino :
     f.ino[p[1]].mode = "dir" /\ \E e \in Entries(f, p[1]) : e.ino = p[2] /\ e.name \notin Dots}
\* The inodes that the first n levels have found.
FoundBy(f, lev) ==
  [n \in 0 .. Cardinality(Ino) |-> {i \in Ino : \E m \in 0 .. n : \E x \in lev[m] : x.ino = i}]
\* One level more finds what is named in those before.
Finds(f, h) ==
  /\ h[0] \in SUBSET Ino /\ Root \in h[0]
  /\ \A n \in 1 .. Cardinality(Ino) : h[n] = Leading(Ino, Naming(f), h[n - 1])
\* Every inode of L is found.
AllFound(L, N) == \A i \in L : \E x \in N : x.ino = i

\* What a level finds is named by what the one before has found.
LEMMA LevelNamed ==
  ASSUME NEW f, Sane(f), NEW L, NEW mvd, Good(f, L, mvd), NEW k \in Nat,
         NEW z \in Walks(f, L, k), NEW x \in Children(f, z)
  PROVE  z.ino \in Ino /\ x.ino \in Ino /\ <<z.ino, x.ino>> \in Naming(f)
<1>1. /\ z.ino \in DirsOf(L, Modes(f))
      /\ \E e \in Ents(f)[z.ino] :
           /\ e.name \notin Dots
           /\ x = [path |-> Append(z.path, e.name), ino |-> e.ino, ft |-> e.ft]
  BY ChildFacts
<1>2. PICK e \in Ents(f)[z.ino] :
        /\ e.name \notin Dots
        /\ x = [path |-> Append(z.path, e.name), ino |-> e.ino, ft |-> e.ft]
  BY <1>1
<1>3. z.ino \in Ino /\ f.ino[z.ino].mode = "dir" /\ e \in Entries(f, z.ino)
  BY <1>1, <1>2, PlaceFacts DEF DirsOf
<1>4. x.ino = e.ino
  BY <1>2
<1>5. x.ino \in Ino
  <2>1. 1 \in Nat /\ 1 # 0 OBVIOUS
  <2>2. x \in Walks(f, L, 1) BY <2>1, ChildFacts
  <2>3. x.ino \in L BY <2>2 DEF Walks
  <2> QED BY <2>3, PlaceFacts
<1>6. PICK a \in Ino : a = z.ino
  BY <1>3
<1>7. PICK b \in Ino : b = x.ino
  BY <1>5
<1>8. <<a, b>> \in Naming(f)
  <2>1. PICK p : p = <<a, b>> OBVIOUS
  <2>2. p \in Ino \X Ino /\ p[1] = a /\ p[2] = b BY <2>1
  <2>3. p \in Naming(f) BY <1>2, <1>3, <1>4, <1>6, <1>7, <2>2 DEF Naming
  <2> QED BY <2>1, <2>3
<1> QED BY <1>3, <1>5, <1>6, <1>7, <1>8

\* And the other way round: what is named by a node is its child.
LEMMA NamedFound ==
  ASSUME NEW f, NEW L, NEW k, NEW z \in Walks(f, L, k), NEW i \in Ino,
         <<z.ino, i>> \in Naming(f)
  PROVE  \E x \in Children(f, z) : x.ino = i
<1>1. PICK p : p = <<z.ino, i>>
  OBVIOUS
<1>2. p \in Naming(f) /\ p[1] = z.ino /\ p[2] = i
  BY <1>1
<1>3. PICK e \in Entries(f, z.ino) : e.ino = i /\ e.name \notin Dots /\ f.ino[z.ino].mode = "dir"
  BY <1>2 DEF Naming
<1>4. z.ft = "dir"
  BY <1>3 DEF Walks
<1>5. PICK x : x = [path |-> Append(z.path, e.name), ino |-> e.ino, ft |-> e.ft]
  OBVIOUS
<1>6. x \in Children(f, z)
  BY <1>3, <1>4, <1>5 DEF Children, Dots
<1>7. x.ino = e.ino
  BY <1>5
<1> QED BY <1>3, <1>6, <1>7

\* So level after level the walk finds what can be reached in as many steps.
LEMMA FoundSteps ==
  ASSUME NEW f, Sane(f), NEW L, NEW mvd, Good(f, L, mvd), NEW lev, Levels(f, L, lev)
  PROVE  Finds(f, FoundBy(f, lev))
<1>1. PICK C \in Nat : C = Cardinality(Ino)
  BY InoFacts, FS_CardinalityType
<1>2. /\ lev[0] = {RootNode}
      /\ \A n \in 1 .. C : lev[n] = Below(f, lev[n - 1])
      /\ \A n \in 0 .. C : lev[n] \subseteq Walks(f, L, n)
  BY <1>1 DEF Levels
<1>3. PICK h : h = FoundBy(f, lev)
  OBVIOUS
<1>4. \A n \in 0 .. C : h[n] = {i \in Ino : \E m \in 0 .. n : \E x \in lev[m] : x.ino = i}
  BY <1>1, <1>3 DEF FoundBy
<1>5. h[0] \in SUBSET Ino /\ Root \in h[0]
  <2>1. 0 \in 0 .. C /\ 0 \in 0 .. 0 OBVIOUS
  <2>2. RootNode \in lev[0] /\ RootNode.ino = Root BY <1>2 DEF RootNode
  <2> QED BY <1>4, <2>1, <2>2, InoFacts
<1>6. ASSUME NEW n \in 1 .. C, NEW i \in h[n]
      PROVE  i \in Ino /\ (i \in h[n - 1] \/ \E d \in h[n - 1] : <<d, i>> \in Naming(f))
  <2>1. n \in 0 .. C /\ n - 1 \in 0 .. C /\ n - 1 \in 0 .. n - 1 OBVIOUS
  <2>2. i \in Ino BY <1>4, <2>1
  <2>3. PICK m \in 0 .. n : \E x \in lev[m] : x.ino = i BY <1>4, <2>1
  <2>4. CASE m \in 0 .. n - 1
    BY <1>4, <2>1, <2>2, <2>3, <2>4
  <2>5. CASE m = n
    <3>1. PICK x \in lev[n] : x.ino = i BY <2>3, <2>5
    <3>2. PICK k \in Nat : k = n - 1 BY <2>1
    <3>3. PICK z \in lev[k] : x \in Children(f, z) BY <1>2, <3>1, <3>2 DEF Below
    <3>4. z \in Walks(f, L, k) BY <1>2, <2>1, <3>2, <3>3
    <3>5. z.ino \in Ino /\ <<z.ino, x.ino>> \in Naming(f)
      BY <3>3, <3>4, LevelNamed
    <3>6. z.ino \in h[n - 1] BY <1>4, <2>1, <3>2, <3>3, <3>5
    <3> QED BY <2>2, <3>1, <3>5, <3>6
  <2>6. m \in 0 .. n - 1 \/ m = n OBVIOUS
  <2> QED BY <2>4, <2>5, <2>6
<1>7. ASSUME NEW n \in 1 .. C, NEW i \in h[n - 1] PROVE i \in h[n]
  <2>1. n \in 0 .. C /\ n - 1 \in 0 .. C /\ \A m \in 0 .. n - 1 : m \in 0 .. n OBVIOUS
  <2> QED BY <1>4, <2>1
<1>8. ASSUME NEW n \in 1 .. C, NEW d \in h[n - 1], NEW i \in Ino, <<d, i>> \in Naming(f)
      PROVE  i \in h[n]
  <2>1. n \in 0 .. C /\ n - 1 \in 0 .. C OBVIOUS
  <2>2. PICK m \in 0 .. n - 1 : \E x \in lev[m] : x.ino = d BY <1>4, <2>1
  <2>3. PICK z \in lev[m] : z.ino = d BY <2>2
  <2>4. m \in 0 .. C /\ m + 1 \in 1 .. C /\ m + 1 \in 0 .. n /\ (m + 1) - 1 = m OBVIOUS
  <2>5. z \in Walks(f, L, m) BY <1>2, <2>3, <2>4
  <2>6. PICK x \in Children(f, z) : x.ino = i BY <1>8, <2>3, <2>5, NamedFound
  <2>7. x \in lev[m + 1]
    <3>1. PICK k : k = m + 1 OBVIOUS
    <3>2. k \in 1 .. C /\ k - 1 = m BY <2>4, <3>1
    <3>3. lev[k] = Below(f, lev[m]) BY <1>2, <3>2
    <3> QED BY <2>3, <2>6, <3>1, <3>3 DEF Below
  <2> QED BY <1>4, <2>1, <2>4, <2>6, <2>7
<1>9. ASSUME NEW n \in 1 .. C PROVE h[n] = Leading(Ino, Naming(f), h[n - 1])
  <2>1. h[n - 1] \subseteq Ino
    <3>1. n - 1 \in 0 .. C OBVIOUS
    <3> QED BY <1>4, <3>1
  <2>2. \A i \in h[n] : i \in Leading(Ino, Naming(f), h[n - 1])
    BY <1>6 DEF Leading
  <2>3. \A i \in Leading(Ino, Naming(f), h[n - 1]) : i \in h[n]
    BY <1>7, <1>8 DEF Leading
  <2> QED BY <2>2, <2>3
<1>10. Finds(f, h)
  BY <1>1, <1>5, <1>9 DEF Finds
<1> QED BY <1>3, <1>10

\* The walk finds every inode of the tree: as many levels as there are inodes are enough.
LEMMA WalkFindsAll ==
  ASSUME NEW f, Sane(f), NEW L, NEW mvd, Good(f, L, mvd), Tally(f, L, mvd)
  PROVE  AllFound(L, Nodes(f))
<1>1. PICK lev : Levels(f, L, lev)
  BY LevelsFacts
<1>2. PICK C \in Nat : C = Cardinality(Ino)
  BY InoFacts, FS_CardinalityType
<1>3. PICK h : h = FoundBy(f, lev)
  OBVIOUS
<1>4. PICK R : R = Naming(f)
  OBVIOUS
<1>5. /\ h[0] \in SUBSET Ino /\ Root \in h[0]
      /\ \A n \in 1 .. C : h[n] = Leading(Ino, R, h[n - 1])
  BY <1>1, <1>2, <1>3, <1>4, FoundSteps DEF Finds
<1>6. h[0] \subseteq h[C] /\ Leading(Ino, R, h[C]) = h[C]
  <2>1. h[0] # {} BY <1>5
  <2> QED BY <1>2, <1>5, <2>1, InoFacts, Saturates
<1>7. \A i \in L : i \in h[C]
  <2> SUFFICES ASSUME L \ h[C] # {} PROVE FALSE
    OBVIOUS
  <2>1. PICK S : S = L \ h[C] OBVIOUS
  <2>2. S \in SUBSET (L \ {Root}) /\ S # {} BY <1>5, <1>6, <2>1
  <2>3. PICK i \in S : \E d \in DirsOf(L, Modes(f)) \ S : \E e \in Ents(f)[d] :
          e.ino = i /\ e.name \notin Dots
    BY <2>2 DEF Tally, Rooted
  <2>4. PICK d \in DirsOf(L, Modes(f)) \ S : \E e \in Ents(f)[d] :
          e.ino = i /\ e.name \notin Dots
    BY <2>3
  <2>5. d \in Ino /\ d \in h[C] /\ i \in Ino /\ i \notin h[C]
    BY <2>1, <2>3, <2>4, PlaceFacts DEF DirsOf
  <2>6. f.ino[d].mode = "dir" /\ \E e \in Entries(f, d) : e.ino = i /\ e.name \notin Dots
    BY <2>4, <2>5, PlaceFacts DEF DirsOf
  <2>7. <<d, i>> \in R
    <3>1. PICK p : p = <<d, i>> OBVIOUS
    <3>2. p \in Ino \X Ino /\ p[1] = d /\ p[2] = i BY <2>5, <3>1
    <3>3. p \in R BY <1>4, <2>6, <3>2 DEF Naming
    <3> QED BY <3>1, <3>3
  <2>8. i \in Leading(Ino, R, h[C]) BY <2>5, <2>7 DEF Leading
  <2> QED BY <1>6, <2>5, <2>8
<1>8. ASSUME NEW i \in L PROVE \E x \in Nodes(f) : x.ino = i
  <2>1. C \in 0 .. C BY <1>2
  <2>2. h[C] = {j \in Ino : \E m \in 0 .. C : \E x \in lev[m] : x.ino = j}
    BY <1>2, <1>3, <2>1 DEF FoundBy
  <2>3. PICK m \in 0 .. C : \E x \in lev[m] : x.ino = i BY <1>7, <2>2
  <2>4. Nodes(f) = UNION {lev[n] : n \in 0 .. C} BY <1>1, <1>2 DEF Levels
  <2> QED BY <2>3, <2>4
<1> QED BY <1>8 DEF AllFound

-----------------------------------------------------------------------------
(* What the invariant says of the tree *)

\* The inodes of the tree are among those that the invariant is about.
LEMMA FsTidy ==
  ASSUME FsInv, ~broken
  PROVE  \E L : /\ Good(fs, L, moved) /\ Tally(fs, L, moved)
                /\ Tidy(fs, L, nodes) /\ AllFound(L, nodes)
BY NodesTidy, WalkFindsAll DEF FsInv

\* No block has two owners: those that are linked are in the tree.
LEMMA FsOneOwner == FsInv => OneOwner
<1> SUFFICES ASSUME FsInv, ~broken
             PROVE  /\ Linked \subseteq fs.iused
                    /\ \A i \in Linked :
                         /\ ToSet(fs.ino[i].ext) \subseteq fs.bused
                         /\ IsInjective(fs.ino[i].ext)
                         /\ \A j \in Linked \ {i} :
                              ToSet(fs.ino[i].ext) \cap ToSet(fs.ino[j].ext) = {}
  BY DEF OneOwner
<1>1. PICK L : Good(fs, L, moved) /\ Tidy(fs, L, nodes)
  BY FsTidy
<1>2. Linked \subseteq L
  <2>1. \A x \in nodes : x.ino \in L
    BY ONLY <1>1 DEF Tidy
  <2> QED BY ONLY <2>1 DEF Linked
<1>3. /\ L \subseteq fs.iused
      /\ \A i \in L : ToSet(fs.ino[i].ext) \subseteq fs.bused /\ IsInjective(fs.ino[i].ext)
      /\ \A i, j \in L : i # j => ToSet(fs.ino[i].ext) \cap ToSet(fs.ino[j].ext) = {}
  BY ONLY <1>1 DEF Good, Owns, Held
<1> QED BY ONLY <1>2, <1>3

\* Different slots hold different names.
LEMMA NamedOnce ==
  ASSUME NEW f, Sane(f), NEW d \in Ino, NamesOnce(f, d), IsInjective(f.ino[d].ext), NEW n
  PROVE  Cardinality(Named(f, d, n)) <= 1
<1>1. \A s, t \in Named(f, d, n) : s = t
  <2> SUFFICES ASSUME NEW s \in Named(f, d, n), NEW t \in Named(f, d, n) PROVE s = t
    OBVIOUS
  <2>1. PICK ext : ext = f.ino[d].ext OBVIOUS
  <2>2. /\ s \in Nat \X Nat /\ t \in Nat \X Nat
        /\ s[1] \in 1 .. Len(ext) /\ t[1] \in 1 .. Len(ext)
        /\ ext[s[1]] \in Held(f, d) /\ ext[t[1]] \in Held(f, d)
        /\ s[2] \in 1 .. Len(f.blk[ext[s[1]]].ents) /\ t[2] \in 1 .. Len(f.blk[ext[t[1]]].ents)
    BY <2>1, SlotFacts DEF Named
  <2>3. PICK b : b = ext[s[1]] OBVIOUS
  <2>4. PICK c : c = ext[t[1]] OBVIOUS
  <2>5. PICK x : x = f.blk[b].ents[s[2]] OBVIOUS
  <2>6. PICK y : y = f.blk[c].ents[t[2]] OBVIOUS
  <2>7. x.ino # NoIno /\ x.name = n /\ y.ino # NoIno /\ y.name = n
    BY <2>1, <2>3, <2>4, <2>5, <2>6 DEF Named, At
  <2>8. b \in Blk /\ c \in Blk /\ ext \in Seq(Blk)
        /\ f.blk[b].ents \in Seq(EntryType) /\ f.blk[c].ents \in Seq(EntryType)
    BY <2>1, <2>2, <2>3, <2>4, TypesAt
  <2>9. x \in Used(f.blk[b].ents) /\ y \in Used(f.blk[c].ents)
    <3>1. PICK u : u = f.blk[b].ents OBVIOUS
    <3>2. PICK v : v = f.blk[c].ents OBVIOUS
    <3>3. PICK k : k = s[2] OBVIOUS
    <3>4. PICK l : l = t[2] OBVIOUS
    <3>5. k \in 1 .. Len(u) /\ l \in 1 .. Len(v) BY <2>2, <2>3, <2>4, <3>1, <3>2, <3>3, <3>4
    <3>6. u \in Seq(EntryType) /\ v \in Seq(EntryType) BY <2>8, <3>1, <3>2
    <3>7. x = u[k] /\ y = v[l] BY <2>5, <2>6, <3>1, <3>2, <3>3, <3>4
    <3>8. k \in DOMAIN u /\ l \in DOMAIN v BY ONLY <3>5, <3>6
    <3>9. x \in ToSet(u) /\ y \in ToSet(v) BY <3>7, <3>8 DEF ToSet
    <3>10. x \in Used(u) BY <2>7, <3>9 DEF Used
    <3>11. y \in Used(v) BY <2>7, <3>9 DEF Used
    <3> QED BY <3>1, <3>2, <3>10, <3>11
  <2>10. b = c
    BY <2>2, <2>3, <2>4, <2>7, <2>9 DEF NamesOnce
  <2>11. s[1] = t[1]
    <3>1. DOMAIN ext = 1 .. Len(ext) BY <2>8
    <3> QED BY <2>1, <2>2, <2>3, <2>4, <2>10, <3>1 DEF IsInjective
  <2>12. s[2] = t[2]
    <3>1. Uniq(f.blk[b].ents) BY <2>2, <2>3 DEF NamesOnce
    <3> QED BY <2>2, <2>3, <2>4, <2>5, <2>6, <2>7, <2>10, <3>1 DEF Uniq
  <2> QED BY <2>2, <2>11, <2>12
<1>2. CASE Named(f, d, n) = {}
  <2>1. Cardinality({}) = 0 BY FS_EmptySet
  <2> QED BY <1>2, <2>1
<1>3. CASE Named(f, d, n) # {}
  <2>1. PICK s : s \in Named(f, d, n) BY <1>3
  <2>2. Named(f, d, n) = {s} BY <1>1, <2>1
  <2>3. Cardinality({s}) = 1 BY FS_Singleton
  <2> QED BY <2>2, <2>3
<1> QED BY <1>2, <1>3

\* As many nodes as inodes.
LEMMA AsMany ==
  ASSUME NEW f, NEW L \in SUBSET Ino, NEW T, Tidy(f, L, T), NEW N \in SUBSET T
  PROVE  Cardinality({x.ino : x \in N}) = Cardinality(N)
<1> DEFINE I == {x.ino : x \in N}
           node == [i \in I |-> CHOOSE x \in N : x.ino = i]
<1>1. \A x \in N : x.ino \in L
  BY DEF Tidy
<1>2. IsFiniteSet(I)
  <2>1. I \subseteq Ino BY <1>1
  <2> HIDE DEF I
  <2> QED BY <2>1, InoFacts, FS_Subset
<1>3. \A i \in I : node[i] \in N /\ node[i].ino = i
  <2> SUFFICES ASSUME NEW i \in I PROVE node[i] \in N /\ node[i].ino = i
    OBVIOUS
  <2>1. \E x \in N : x.ino = i OBVIOUS
  <2> QED BY <2>1
<1>4. \A x \in N : x.ino \in I /\ node[x.ino] = x
  <2> SUFFICES ASSUME NEW x \in N PROVE x.ino \in I /\ node[x.ino] = x
    OBVIOUS
  <2>1. x.ino \in I OBVIOUS
  <2>2. node[x.ino] \in N /\ node[x.ino].ino = x.ino BY <1>3, <2>1
  <2> HIDE DEF node, I
  <2> QED BY <2>1, <2>2 DEF Tidy
<1>5. node \in [I -> N]
  <2>1. DOMAIN node = I /\ node = [i \in I |-> node[i]] OBVIOUS
  <2> HIDE DEF node, I
  <2> QED BY <1>3, <2>1
<1> HIDE DEF node, I
<1>6. node \in Bijection(I, N)
  <2>1. DOMAIN node = I BY <1>5
  <2>2. \A a, b \in I : node[a] = node[b] => a = b BY <1>3
  <2>3. IsInjective(node) BY <2>1, <2>2 DEF IsInjective
  <2>4. node \in Injection(I, N) BY <1>5, <2>3 DEF Injection
  <2>5. \A x \in N : \E i \in I : node[i] = x BY <1>4
  <2>6. node \in Surjection(I, N) BY <1>5, <2>5 DEF Surjection
  <2> QED BY <2>4, <2>6 DEF Bijection
<1>7. ExistsBijection(I, N)
  BY <1>6 DEF ExistsBijection
<1>8. Cardinality(N) = Cardinality(I)
  BY <1>2, <1>7, FS_Bijection
<1> QED BY <1>8 DEF I

\* The linked inodes are a tree.
LEMMA FsTreeShape == FsInv => TreeShape
<1> SUFFICES ASSUME FsInv, ~broken
             PROVE  /\ Cardinality(Linked) = Cardinality(nodes)
                    /\ \A x \in nodes :
                         /\ fs.ino[x.ino].mode = x.ft
                         /\ x.ft = "dir" =>
                              \A n \in Names : Cardinality(Named(fs, x.ino, n)) <= 1
                         /\ x.ft = "dir" /\ x.ino # Root =>
                              /\ Lookup(fs, x.ino, ".").ino = x.ino
                              /\ moved \/ [path |-> Front(x.path),
                                           ino |-> Lookup(fs, x.ino, "..").ino,
                                           ft |-> "dir"] \in nodes
  BY DEF TreeShape
<1>1. PICK L : Good(fs, L, moved) /\ Tidy(fs, L, nodes)
  BY FsTidy
<1>2. L \subseteq Ino /\ Sane(fs)
  BY <1>1, PlaceFacts DEF FsInv
<1>3. Cardinality(Linked) = Cardinality(nodes)
  <2>1. nodes \in SUBSET nodes OBVIOUS
  <2> QED BY <1>1, <1>2, <2>1, AsMany DEF Linked
<1>4. PICK f : f = fs
  OBVIOUS
<1>5. PICK N : N = nodes
  OBVIOUS
<1>6. PICK M : M = Modes(f)
  OBVIOUS
<1>7. PICK E : E = Ents(f)
  OBVIOUS
<1>8. PICK mvd : mvd = moved
  OBVIOUS
<1>9. Good(f, L, mvd) /\ Sane(f) /\ Tidy(f, L, N) /\ Graph(L, M, E, mvd)
  BY <1>1, <1>2, <1>4, <1>5, <1>6, <1>7, <1>8 DEF Good
<1>10. ASSUME NEW x \in N, x.ft = "dir"
       PROVE  x.ino \in DirsOf(L, M) /\ x.ino \in Ino /\ E[x.ino] = Entries(f, x.ino)
  <2>1. x.ino \in L /\ x.ft = f.ino[x.ino].mode BY <1>9 DEF Tidy
  <2> QED BY <1>2, <1>6, <1>7, <1>10, <2>1 DEF DirsOf, Modes, Ents
<1>11. ASSUME NEW x \in N, x.ft = "dir", NEW n
       PROVE  Cardinality(Named(f, x.ino, n)) <= 1
  <2>1. PICK d : d = x.ino OBVIOUS
  <2>2. d \in DirsOf(L, Modes(f)) /\ d \in Ino /\ d \in L
    BY <1>6, <1>10, <1>11, <2>1 DEF DirsOf
  <2>3. NamesOnce(f, d) /\ IsInjective(f.ino[d].ext)
    BY <1>9, <2>2 DEF Good, Owns
  <2>4. Cardinality(Named(f, d, n)) <= 1
    BY ONLY <1>9, <2>2, <2>3, NamedOnce
  <2> QED BY <2>1, <2>4
<1>12. ASSUME NEW x \in N, x.ft = "dir", x.ino # Root, NEW n \in Dots
       PROVE  \E e \in E[x.ino] : e.name = n /\ Lookup(f, x.ino, n) = e
  <2>1. PICK e \in E[x.ino] : e.name = n
    BY <1>9, <1>10, <1>12 DEF Graph, DotsThere
  <2>2. x.ino \in Ino /\ e \in Entries(f, x.ino) /\ E[x.ino] = Entries(f, x.ino)
    BY <1>10, <1>12, <2>1
  <2>3. x.ino # NoIno BY <2>2, InoFacts
  <2>4. Lookup(f, x.ino, n) \in Entries(f, x.ino) /\ Lookup(f, x.ino, n).name = n
    BY <1>9, <2>1, <2>2, <2>3, LookupFacts
  <2> QED BY <2>2, <2>4
<1>13. ASSUME NEW x \in N, x.ft = "dir", x.ino # Root
       PROVE  Lookup(f, x.ino, ".").ino = x.ino
  <2>1. "." \in Dots BY DEF Dots
  <2>2. PICK e \in E[x.ino] : e.name = "." /\ Lookup(f, x.ino, ".") = e
    BY <1>12, <1>13, <2>1
  <2>3. x.ino \in DirsOf(L, M) BY <1>10, <1>13
  <2> QED BY <1>9, <2>2, <2>3 DEF Graph, DotsLead
<1>14. ASSUME NEW x \in N, x.ft = "dir", x.ino # Root, ~mvd
       PROVE  [path |-> Front(x.path), ino |-> Lookup(f, x.ino, "..").ino, ft |-> "dir"] \in N
  <2>1. ".." \in Dots BY DEF Dots
  <2>2. PICK e \in E[x.ino] : e.name = ".." /\ Lookup(f, x.ino, "..") = e
    BY <1>12, <1>14, <2>1
  <2>3. x.ino \in DirsOf(L, M) BY <1>10, <1>14
  <2>4. e.ino \in DirsOf(L, M) /\ \E z \in E[e.ino] : z.name \notin Dots /\ z.ino = x.ino
    BY <1>9, <1>14, <2>2, <2>3 DEF Graph, DotsLead
  <2>5. PICK z \in E[e.ino] : z.name \notin Dots /\ z.ino = x.ino
    BY <2>4
  <2>6. PICK y \in N : /\ y.ft = "dir" /\ y.ino \in DirsOf(L, M)
                       /\ \E d \in E[y.ino] : d.name \notin Dots /\ ChildBy(x, y, d)
    BY <1>6, <1>7, <1>9, <1>14 DEF Tidy
  <2>7. PICK d \in E[y.ino] : d.name \notin Dots /\ ChildBy(x, y, d)
    BY <2>6
  <2>8. d.ino = x.ino /\ x.path = Append(y.path, d.name)
    BY <2>7 DEF ChildBy
  <2>9. e.ino = y.ino
    BY <1>9, <2>4, <2>5, <2>6, <2>7, <2>8 DEF Graph, OneName
  <2>10. y \in [path : Seq(Names \cup {""}), ino : L, ft : {"dir", "file"}]
         /\ x \in [path : Seq(Names \cup {""}), ino : L, ft : {"dir", "file"}]
    BY <1>9 DEF Tidy
  <2>11. Front(x.path) = y.path
    <3>1. PICK T : T = Names \cup {""} OBVIOUS
    <3>2. PICK s : s = y.path OBVIOUS
    <3>3. PICK c : c = x.path OBVIOUS
    <3>4. PICK m : m = d.name OBVIOUS
    <3>5. s \in Seq(T) /\ c \in Seq(T) /\ c = Append(s, m)
      BY <2>8, <2>10, <3>1, <3>2, <3>3, <3>4
    <3>6. c # << >> /\ Len(c) = Len(s) + 1 /\ Len(s) \in Nat
          /\ \A k \in 1 .. Len(s) : c[k] = s[k]
      BY ONLY <3>5
    <3>7. /\ Front(c) \in Seq(T) /\ Len(Front(c)) = Len(c) - 1
          /\ \A k \in 1 .. Len(c) - 1 : Front(c)[k] = c[k]
      BY <3>5, <3>6, FrontFacts
    <3>8. Front(c) = s
      <4>1. PICK r : r = Front(c) OBVIOUS
      <4>2. r \in Seq(T) /\ Len(r) = Len(s) /\ \A k \in 1 .. Len(s) : r[k] = s[k]
        BY <3>6, <3>7, <4>1
      <4>3. r = s BY ONLY <3>5, <4>2
      <4> QED BY <4>1, <4>3
    <3> QED BY <3>2, <3>3, <3>8
  <2>12. y = [path |-> y.path, ino |-> y.ino, ft |-> y.ft]
    BY <2>10
  <2> QED BY <2>2, <2>6, <2>9, <2>11, <2>12
<1>15. \A x \in N : f.ino[x.ino].mode = x.ft
  BY <1>9 DEF Tidy
<1> QED BY <1>3, <1>4, <1>5, <1>8, <1>11, <1>13, <1>14, <1>15

\* What is counted is the tree that the walk finds.
LEMMA FsDirCounts == FsInv => DirCounts
<1> SUFFICES ASSUME FsInv, ~broken
             PROVE  /\ \A g \in Group :
                         fs.dirs[g] =
                           Cardinality({x \in nodes : x.ft = "dir" /\ GroupOfIno(x.ino) = g})
                    /\ \A x \in nodes : x.ft = "file" => fs.ino[x.ino].links = 1
                    /\ ~moved => \A x \in nodes : x.ft = "dir" =>
                         fs.ino[x.ino].links = 2 + Cardinality(SubDirs(fs, x.ino))
  BY DEF DirCounts
<1>1. PICK L : /\ Good(fs, L, moved) /\ Tally(fs, L, moved)
               /\ Tidy(fs, L, nodes) /\ AllFound(L, nodes)
  BY FsTidy
<1>2. PICK f : f = fs
  OBVIOUS
<1>3. PICK T : T = nodes
  OBVIOUS
<1>4. PICK mvd : mvd = moved
  OBVIOUS
<1>5. Good(f, L, mvd) /\ Tally(f, L, mvd) /\ Tidy(f, L, T) /\ AllFound(L, T)
  BY <1>1, <1>2, <1>3, <1>4
<1>6. L \subseteq Ino
  BY <1>5, PlaceFacts
<1>7. \A x \in T : x.ino \in L /\ x.ft = f.ino[x.ino].mode
  BY <1>5 DEF Tidy
<1>8. \A i \in Ino : Modes(f)[i] = f.ino[i].mode /\ Ents(f)[i] = Entries(f, i)
                     /\ Links(f)[i] = f.ino[i].links
  BY <1>5, PlaceFacts DEF Links
<1>9. ASSUME NEW g \in Group
      PROVE  f.dirs[g] = Cardinality({x \in T : x.ft = "dir" /\ GroupOfIno(x.ino) = g})
  <2>1. PICK N : N = {x \in T : x.ft = "dir" /\ GroupOfIno(x.ino) = g}
    OBVIOUS
  <2>2. {x.ino : x \in N} = DirsIn(L, Modes(f), g)
    <3>1. \A x \in N : x.ino \in DirsIn(L, Modes(f), g)
      BY <1>6, <1>7, <1>8, <2>1 DEF DirsIn, DirsOf
    <3>2. \A i \in DirsIn(L, Modes(f), g) : \E x \in N : x.ino = i
      <4> SUFFICES ASSUME NEW i \in DirsIn(L, Modes(f), g) PROVE \E x \in N : x.ino = i
        OBVIOUS
      <4>1. i \in L /\ Modes(f)[i] = "dir" /\ GroupOfIno(i) = g BY DEF DirsIn, DirsOf
      <4>2. PICK x \in T : x.ino = i BY <1>5, <4>1 DEF AllFound
      <4>3. x.ft = "dir" BY <1>6, <1>7, <1>8, <4>1, <4>2
      <4> QED BY <2>1, <4>1, <4>2, <4>3
    <3> QED BY <3>1, <3>2
  <2>3. Cardinality({x.ino : x \in N}) = Cardinality(N)
    <3>1. N \in SUBSET T BY <2>1
    <3> QED BY <1>5, <1>6, <3>1, AsMany
  <2>4. f.dirs[g] = Cardinality(DirsIn(L, Modes(f), g))
    BY <1>5 DEF Tally, CountsDirs
  <2> QED BY <2>1, <2>2, <2>3, <2>4
<1>10. CountsLinks(Links(f), L, Modes(f), Ents(f), mvd)
  BY <1>5 DEF Tally
<1>11. ASSUME NEW x \in T, x.ft = "file" PROVE f.ino[x.ino].links = 1
  <2>1. x.ino \in L /\ x.ino \in Ino /\ Modes(f)[x.ino] = "file"
    BY <1>6, <1>7, <1>8, <1>11
  <2> QED BY <1>8, <1>10, <2>1 DEF CountsLinks
<1>12. ASSUME NEW x \in T, x.ft = "dir", ~mvd
       PROVE  f.ino[x.ino].links = 2 + Cardinality(SubDirs(f, x.ino))
  <2>1. x.ino \in L /\ x.ino \in Ino /\ Modes(f)[x.ino] = "dir"
    BY <1>6, <1>7, <1>8, <1>12
  <2>2. SubDirs(f, x.ino) = Subs(Ents(f)[x.ino])
    BY <1>8, <2>1 DEF SubDirs, Subs, Dots
  <2> QED BY <1>8, <1>10, <1>12, <2>1, <2>2 DEF CountsLinks
<1> QED BY <1>2, <1>3, <1>4, <1>9, <1>11, <1>12

\* The state of ext4.rs has the shape that its readers expect: inodes with at most
\* MaxExtents extents, entries that lead to inodes, a current directory at most MAX_DEPTH deep.
THEOREM Ext4FsTypes == Spec => []TypeOK
BY Ext4FsInvariant, FsTypes, PTL

\* alloc_block, free_block, alloc_inode and free_inode keep the free counts of the group
\* descriptors and of the super block at what the bitmaps say, on every path of every
\* command, also where one gives up half-way.
THEOREM Ext4FsCounters == Spec => []Counters
BY Ext4FsInvariant, FsCounters, PTL

\* No block is in two files: whatever is linked is marked as used, and its blocks are
\* marked as used, occur once in it and in no other inode (write_file, dir_add, dir_grow
\* and the error paths of touch and mkdir never hand out a block that somebody has), unless
\* the tree is broken.
THEOREM Ext4FsOneOwner == Spec => []OneOwner
BY Ext4FsInvariant, FsOneOwner, PTL

\* The directories form a tree: every linked inode is found by one path, its entry says what
\* it is, no directory has a name twice (touch, mkdir, mv and write_file look before they
\* add), and the dots lead to the directory and, until mv takes one elsewhere, its
\* parent - unless the tree is broken.
THEOREM Ext4FsTreeShape == Spec => []TreeShape
BY Ext4FsInvariant, FsTreeShape, PTL

\* The counts follow the tree: mkdir, rmdir and mkfs keep the used-directory count of every
\* group at the directories that the walk from the root finds in it, a file has one link, and
\* a directory has two and one more for each directory in it until mv takes one elsewhere -
\* also after a mkdir that failed half-way, unless the tree is broken.
THEOREM Ext4FsDirCounts == Spec => []DirCounts
BY Ext4FsInvariant, FsDirCounts, PTL
=============================================================================
