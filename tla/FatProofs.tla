----------------------------- MODULE FatProofs -----------------------------
(***************************************************************************)
(* The FAT driver, for disks, directories, files and paths of every size,  *)
(* and for a power failure after every write.                              *)
(*                                                                         *)
(* A set O of objects (the entries of files and directories, and the       *)
(* root's) is Good on a disk if every one of them has a sound chain of its *)
(* own, of the length it asks for (Base), and if the entries of the        *)
(* directories are the objects and the dots are right (Hangs).  A command  *)
(* makes the next O from the last: by an object more, one less, or one in  *)
(* another place.  That clusters are lost does no harm to it.              *)
(*                                                                         *)
(* Good does not ask that the objects are found from the root; the walk of *)
(* Nodes finds some of them, and so GoodSound says that what is found is   *)
(* Sound.  The way back, SoundGood, is for the power failures: the disk    *)
(* that is left is somewhere in the middle of a command, and if Sound      *)
(* says that it is well, what the walk finds is the next O.  It finds all  *)
(* that there is in the directories it comes to, for if one were as deep   *)
(* as there are clusters, it and those above it would have more of them    *)
(* than there are (NotSoDeep).                                             *)
(*                                                                         *)
(* The loops (Chain, FreeChain, AllocChain, WriteData, Descend, Candidate, *)
(* mkfs and Nodes) are recursive functions; LoopWithin of Induction says   *)
(* that they stay within what their turns keep.                            *)
(*                                                                         *)
(* The order of the parts: the disk and its changes; chains; directories,  *)
(* entries and look_up; objects, and what a change of the disk does to     *)
(* them; the FAT's helpers; free slots; paths; the commands; mkfs; cd; the *)
(* walk; and the invariant.                                                *)
(***************************************************************************)
EXTENDS Fat, Induction

-----------------------------------------------------------------------------
(* The constants, the slots of a directory and the disk *)

\* The sizes of FatConstants, one by one, and the clusters.
LEMMA Consts ==
  /\ ClusterCount \in Nat /\ ClusterCount > 0 /\ SLOTS \in Nat /\ SLOTS > 2
  /\ MAX_DEPTH \in Nat /\ MAX_DEPTH > 0
<1>1. {ClusterCount, SLOTS, MAX_DEPTH, MaxFile} \subseteq Nat \ {0} /\ SLOTS > 2
  BY FatConstants
<1> QED BY ONLY <1>1

\* The clusters: finitely many, the root is one, Unused and Eoc are none.
LEMMA Clusters ==
  /\ Cluster \subseteq Nat /\ Root \in Cluster /\ Unused \notin Cluster /\ Eoc \notin Cluster
  /\ IsFiniteSet(Cluster) /\ Cardinality(Cluster) = ClusterCount
<1>1. 2 \in Int /\ ClusterCount + 1 \in Int /\ ~(2 > ClusterCount + 1)
      /\ (ClusterCount + 1) - 2 + 1 = ClusterCount
  BY Consts
<1> DEFINE n == ClusterCount + 1
<1>2. IsFiniteSet(2 .. n) /\ Cardinality(2 .. n) = n - 2 + 1
  <2> HIDE DEF n
  <2>1. 2 \in Int /\ n \in Int /\ ~(2 > n) BY <1>1 DEF n
  <2> QED BY <2>1, FS_Interval
<1>3. IsFiniteSet(Cluster) /\ Cardinality(Cluster) = ClusterCount
  BY <1>1, <1>2 DEF Cluster
<1>4. Cluster \subseteq Nat /\ Root \in Cluster /\ Unused \notin Cluster /\ Eoc \notin Cluster
  BY Consts DEF Cluster, Root, Unused, Eoc
<1> QED BY <1>3, <1>4

Place == Nat \X Nat

\* The places are in one order.
LEMMA Order ==
  /\ \A s \in Place : ~Before(s, s)
  /\ \A s, t, u \in Place : Before(s, t) /\ Before(t, u) => Before(s, u)
  /\ \A s, t \in Place : s = t \/ Before(s, t) \/ Before(t, s)
  /\ \A s, t \in Place : ~(Before(s, t) /\ Before(t, s))
<1>1. \A s \in Place : s[1] \in Nat /\ s[2] \in Nat /\ s = <<s[1], s[2]>>
  BY DEF Place
<1>2. \A s, t \in Place : s[1] = t[1] /\ s[2] = t[2] => s = t
  BY <1>1
<1> QED BY <1>1, <1>2 DEF Before

\* The first of some places is one of them and before the others.
LEMMA FirstIn ==
  ASSUME NEW S \in SUBSET Place, S # {}
  PROVE  First(S) \in S /\ \A t \in S : t = First(S) \/ Before(First(S), t)
<1> DEFINE K == {s[1] : s \in S}
<1>0. \A t \in S : t = <<t[1], t[2]>> /\ t[1] \in Nat /\ t[2] \in Nat
  BY DEF Place
<1>1. K \in SUBSET Nat /\ K # {}
  BY <1>0
<1>2. PICK k \in K : \A l \in K : k <= l
  BY <1>1, LeastOf
<1> DEFINE J == {j \in Nat : <<k, j>> \in S}
<1>3. J \in SUBSET Nat /\ J # {}
  <2>1. PICK s \in S : s[1] = k BY <1>2
  <2>2. s[2] \in J BY <1>0, <2>1
  <2> QED BY <2>2
<1>4. PICK j \in J : \A l \in J : j <= l
  BY <1>3, LeastOf
<1>5. ASSUME NEW t \in S PROVE t = <<k, j>> \/ Before(<<k, j>>, t)
  <2>1. t[1] \in Nat /\ t[2] \in Nat /\ t = <<t[1], t[2]>> BY <1>0
  <2>2. k <= t[1] /\ k \in Nat BY <1>1, <1>2
  <2>3. k = t[1] => t[2] \in J BY <2>1
  <2>4. k = t[1] => j <= t[2] BY <1>4, <2>3
  <2>5. j \in Nat OBVIOUS
  <2>6. k < t[1] \/ (k = t[1] /\ j < t[2]) \/ (k = t[1] /\ j = t[2])
    BY ONLY <2>1, <2>2, <2>4, <2>5
  <2>7. k = t[1] /\ j = t[2] => t = <<k, j>> BY <2>1
  <2> QED BY <2>6, <2>7 DEF Before
<1>6. <<k, j>> \in S
  BY <1>4
<1>7. \E s \in S : \A t \in S : t = s \/ Before(s, t)
  BY <1>5, <1>6
<1> QED BY <1>7 DEF First

\* Its parts have their types.
LEMMA DiskTypes ==
  ASSUME NEW d \in Disk
  PROVE  /\ d.fat \in [Cluster -> Cluster \cup {Unused, Eoc}]
         /\ d.blk \in [Cluster -> BlockType]
         /\ \A c \in Cluster : d.blk[c].ents \in [1 .. SLOTS -> EntryType]
         /\ d = [fat |-> d.fat, blk |-> d.blk]
<1>1. d.fat \in [Cluster -> Cluster \cup {Unused, Eoc}] /\ d.blk \in [Cluster -> BlockType]
      /\ d = [fat |-> d.fat, blk |-> d.blk]
  BY DEF Disk
<1>2. \A c \in Cluster : d.blk[c] \in BlockType
  BY <1>1
<1>3. \A b \in BlockType : b.ents \in [1 .. SLOTS -> EntryType]
  BY DEF BlockType
<1> QED BY <1>1, <1>2, <1>3

\* A disk on which the root directory has its cluster.
Tame == {d \in Disk : d.fat[Root] # Unused}

\* One entry of the FAT.
PutFat(d, c, v) == [d EXCEPT !.fat[c] = v]

\* One value of the FAT changes.
LEMMA SetFat ==
  ASSUME NEW d \in Tame, NEW c \in Cluster, NEW v \in Cluster \cup {Unused, Eoc},
         c = Root => v # Unused
  PROVE  /\ PutFat(d, c, v) \in Tame /\ PutFat(d, c, v).fat[c] = v
         /\ PutFat(d, c, v).blk = d.blk
         /\ \A x \in Cluster : x # c => PutFat(d, c, v).fat[x] = d.fat[x]
<1> DEFINE F == [d.fat EXCEPT ![c] = v]
<1>1. PICK d2 : d2 = [d EXCEPT !.fat = F]
  OBVIOUS
<1>2. d2 = PutFat(d, c, v)
  BY <1>1 DEF PutFat
<1>3. d \in Disk
  BY DEF Tame
<1>4. F \in [Cluster -> Cluster \cup {Unused, Eoc}] /\ F[c] = v
      /\ \A x \in Cluster : x # c => F[x] = d.fat[x]
  BY <1>3, DiskTypes
<1> HIDE DEF F
<1>5. d2 \in Disk /\ d2.fat = F /\ d2.blk = d.blk
  BY <1>1, <1>3, <1>4 DEF Disk
<1>6. d2 \in Tame
  BY <1>4, <1>5, Clusters DEF Tame
<1> QED BY <1>2, <1>4, <1>5, <1>6

\* One cluster.
PutBlk(d, c, b) == [d EXCEPT !.blk[c] = b]

\* The contents of one cluster change.
LEMMA SetBlk ==
  ASSUME NEW d \in Tame, NEW c \in Cluster, NEW b \in BlockType
  PROVE  /\ PutBlk(d, c, b) \in Tame /\ PutBlk(d, c, b).blk[c] = b
         /\ PutBlk(d, c, b).fat = d.fat
         /\ \A x \in Cluster : x # c => PutBlk(d, c, b).blk[x] = d.blk[x]
<1> DEFINE F == [d.blk EXCEPT ![c] = b]
<1>1. PICK d2 : d2 = [d EXCEPT !.blk = F]
  OBVIOUS
<1>2. d2 = PutBlk(d, c, b)
  BY <1>1 DEF PutBlk
<1>3. d \in Disk
  BY DEF Tame
<1>4. F \in [Cluster -> BlockType] /\ F[c] = b /\ \A x \in Cluster : x # c => F[x] = d.blk[x]
  BY <1>3, DiskTypes
<1> HIDE DEF F
<1>5. d2 \in Disk /\ d2.blk = F /\ d2.fat = d.fat
  BY <1>1, <1>3, <1>4 DEF Disk
<1>6. d2 \in Tame
  BY <1>5 DEF Tame
<1> QED BY <1>2, <1>4, <1>5, <1>6

\* One entry of a directory.
Put(d, p, e) == [d EXCEPT !.blk[p[1]].ents[p[2]] = e]

\* One entry of one cluster changes.
LEMMA SetEnt ==
  ASSUME NEW d \in Disk, NEW c \in Cluster, NEW k \in 1 .. SLOTS, NEW e \in EntryType,
         NEW pos, pos = <<c, k>>,
         NEW d2, d2 = Put(d, pos, e)
  PROVE  /\ d2 \in Disk /\ d2.fat = d.fat
         /\ d2.blk[c].ents[k] = e
         /\ \A x \in Cluster : \A j \in 1 .. SLOTS :
              <<x, j>> # pos => d2.blk[x].ents[j] = d.blk[x].ents[j]
         /\ \A x \in Cluster : x # c => d2.blk[x] = d.blk[x]
         /\ d \in Tame => d2 \in Tame
<1> DEFINE N == [d.blk[c].ents EXCEPT ![k] = e]
           B == [d.blk[c] EXCEPT !.ents = N]
           F == [d.blk EXCEPT ![c] = B]
<1>0. pos[1] = c /\ pos[2] = k
  OBVIOUS
<1>1. d2 = [d EXCEPT !.blk = F]
  BY <1>0 DEF Put
<1>2. d.blk[c] \in BlockType /\ d.blk[c].ents \in [1 .. SLOTS -> EntryType]
  BY DiskTypes
<1>3. N \in [1 .. SLOTS -> EntryType] /\ N[k] = e
      /\ \A j \in 1 .. SLOTS : j # k => N[j] = d.blk[c].ents[j]
  BY <1>2
<1> HIDE DEF N
<1>4. B \in BlockType /\ B.ents = N
  BY <1>2, <1>3 DEF BlockType
<1> HIDE DEF B
<1>5. F \in [Cluster -> BlockType] /\ F[c] = B /\ \A x \in Cluster : x # c => F[x] = d.blk[x]
  BY <1>4, DiskTypes
<1> HIDE DEF F
<1>6. d2 \in Disk /\ d2.blk = F /\ d2.fat = d.fat
  BY <1>1, <1>5 DEF Disk
<1>7. ASSUME NEW x \in Cluster, NEW j \in 1 .. SLOTS, <<x, j>> # pos
      PROVE  d2.blk[x].ents[j] = d.blk[x].ents[j]
  <2>1. CASE x = c
    <3>1. j # k BY <1>7, <2>1
    <3> QED BY <1>3, <1>4, <1>5, <1>6, <2>1, <3>1
  <2>2. CASE x # c
    BY <1>5, <1>6, <2>2
  <2> QED BY <2>1, <2>2
<1>8. d2.blk[c].ents[k] = e
  BY <1>3, <1>4, <1>5, <1>6
<1>9. d \in Tame => d2 \in Tame
  BY <1>6 DEF Tame
<1>10. \A x \in Cluster : x # c => d2.blk[x] = d.blk[x]
  BY <1>5, <1>6
<1> QED BY <1>6, <1>7, <1>8, <1>9, <1>10

\* What the commands write.
LEMMA EntryTypes ==
  /\ End \in EntryType /\ Wiped \in EntryType
  /\ \A c \in Cluster : Dot(c) \in EntryType /\ DotDot(c) \in EntryType
  /\ \A n \in Names : \A ft \in {"dir", "file"} : \A c \in Cluster \cup {Unused} :
       \A size \in Nat : Entry(n, ft, c, size) \in EntryType
<1>1. "" \in Names \cup Dots \cup {"", "stale"} /\ "." \in Names \cup Dots \cup {"", "stale"}
      /\ ".." \in Names \cup Dots \cup {"", "stale"}
      /\ \A n \in Names : n \in Names \cup Dots \cup {"", "stale"}
  BY DEF Dots
<1>2. Unused \in Cluster \cup {Unused} /\ \A c \in Cluster : c \in Cluster \cup {Unused}
  OBVIOUS
<1>3. End \in EntryType /\ Wiped \in EntryType
  BY <1>1, <1>2 DEF EntryType, End, Wiped, Entry
<1>4. \A c \in Cluster : Dot(c) \in EntryType /\ DotDot(c) \in EntryType
  BY <1>1, <1>2 DEF EntryType, Dot, DotDot, Entry
<1> QED BY <1>1, <1>2, <1>3, <1>4 DEF EntryType, Entry

\* The blocks that the code writes have their type.
LEMMA BlockTypes ==
  /\ ZeroBlock \in BlockType /\ StaleBlock \in BlockType
  /\ \A x \in Payloads : DataBlock(x) \in BlockType
<1>1. Empty \in Payloads
  BY FatConstants
<1>2. Entry("stale", "file", Root, 1) \in EntryType
  BY Clusters DEF EntryType, Entry
<1>3. [k \in 1 .. SLOTS |-> End] \in [1 .. SLOTS -> EntryType]
      /\ [k \in 1 .. SLOTS |-> Entry("stale", "file", Root, 1)] \in [1 .. SLOTS -> EntryType]
  BY <1>2, EntryTypes
<1> QED BY <1>1, <1>3 DEF ZeroBlock, StaleBlock, DataBlock, BlockType

-----------------------------------------------------------------------------
(* Chains *)

\* One link more.
LEMMA FollowFacts ==
  ASSUME NEW d \in Disk, NEW s \in Seq(Cluster), Len(s) > 0
  PROVE  /\ Follow(d, s) \in Seq(Cluster) /\ Len(Follow(d, s)) > 0
         /\ Follow(d, s) = IF d.fat[s[Len(s)]] \in Cluster
                           THEN Append(s, d.fat[s[Len(s)]]) ELSE s
<1>1. Last(s) = s[Len(s)]
  BY DEF Last
<1>2. PICK n : n = d.fat[s[Len(s)]]
  OBVIOUS
<1>3. Follow(d, s) = IF n \in Cluster THEN Append(s, n) ELSE s
  BY <1>1, <1>2 DEF Follow
<1>4. n \in Cluster => Append(s, n) \in Seq(Cluster) /\ Len(Append(s, n)) = Len(s) + 1
  OBVIOUS
<1>5. Len(s) \in Nat
  OBVIOUS
<1> QED BY <1>2, <1>3, <1>4, <1>5

\* The turns of Chain, from the first cluster.
LEMMA ChainLoop ==
  ASSUME NEW d \in Disk, NEW c \in Cluster
  PROVE  \E f : /\ f[0] = <<c>>
                /\ \A n \in 1 .. ClusterCount - 1 : f[n] = Follow(d, f[n - 1])
                /\ \A n \in 0 .. ClusterCount - 1 : f[n] \in Seq(Cluster) /\ Len(f[n]) > 0
                /\ Chain(d, c) = f[ClusterCount - 1]
<1> DEFINE N == ClusterCount - 1
           P(n) == {s \in Seq(Cluster) : Len(s) > 0}
<1>1. N \in Nat
  BY Consts
<1>3. <<c>> \in P(0)
  OBVIOUS
<1>4. \A n \in 1 .. N : \A x \in P(n - 1) : Follow(d, x) \in P(n)
  BY FollowFacts
<1>5. \A n : \A x \in P(n) : x \in Seq(Cluster) /\ Len(x) > 0
  OBVIOUS
<1> DEFINE Q == [n \in 0 .. N |-> P(n)]
           step == [n \in 1 .. N |-> [x \in P(n - 1) |-> Follow(d, x)]]
           Is(h) == h = [k \in 0 .. N |-> IF k = 0 THEN <<c>> ELSE Follow(d, h[k - 1])]
           it == CHOOSE h : Is(h)
<1>6. \A n \in 0 .. N : Q[n] = P(n)
  <2> HIDE DEF P
  <2> QED OBVIOUS
<1>7. \A n \in 1 .. N : \A x \in Q[n - 1] :
        step[n][x] = Follow(d, x) /\ step[n][x] \in Q[n]
  <2> SUFFICES ASSUME NEW n \in 1 .. N, NEW x \in Q[n - 1]
               PROVE  step[n][x] = Follow(d, x) /\ step[n][x] \in Q[n]
    OBVIOUS
  <2>1. n - 1 \in 0 .. N /\ n \in 0 .. N BY <1>1
  <2>2. Q[n - 1] = P(n - 1) /\ Q[n] = P(n)
    BY <1>6, <2>1
  <2> HIDE DEF Q, P
  <2>3. step[n][x] = Follow(d, x) BY <2>2
  <2> HIDE DEF step
  <2> QED BY <1>4, <2>2, <2>3
<1> HIDE DEF Q, step, P, N
<1>8. \E h : IsLoop(h, N, <<c>>, step) /\ Within(h, N, Q)
  <2>1. N \in Nat /\ <<c>> \in Q[0] /\ Leads(N, Q, step)
    <3>1. 0 \in 0 .. N BY <1>1
    <3> QED BY <1>1, <1>3, <1>6, <1>7, <3>1 DEF Leads
  <2> QED BY ONLY <2>1, LoopWithin
<1>9. PICK h : /\ h = [n \in 0 .. N |-> IF n = 0 THEN <<c>> ELSE step[n][h[n - 1]]]
               /\ \A n \in 0 .. N : h[n] \in Q[n]
  BY <1>8 DEF IsLoop, Within
<1>10. Is(h)
  <2>1. \A n \in 0 .. N : n # 0 => n \in 1 .. N /\ n - 1 \in 0 .. N BY <1>1
  <2>2. \A n \in 0 .. N : n # 0 => step[n][h[n - 1]] = Follow(d, h[n - 1])
    BY <1>7, <1>9, <2>1
  <2>3. \A n \in 0 .. N : (IF n = 0 THEN <<c>> ELSE step[n][h[n - 1]])
                         = (IF n = 0 THEN <<c>> ELSE Follow(d, h[n - 1]))
    BY <2>2
  <2>4. [n \in 0 .. N |-> IF n = 0 THEN <<c>> ELSE step[n][h[n - 1]]]
          = [n \in 0 .. N |-> IF n = 0 THEN <<c>> ELSE Follow(d, h[n - 1])]
    BY ONLY <2>3
  <2>5. h = [n \in 0 .. N |-> IF n = 0 THEN <<c>> ELSE Follow(d, h[n - 1])]
    BY <1>9, <2>4
  <2> QED BY <2>5
<1>11. PICK f : f = it
  OBVIOUS
<1>12. Is(f)
  BY <1>10, <1>11
<1> HIDE DEF it
<1>13. f[0] = <<c>> /\ \A n \in 1 .. N : f[n] = Follow(d, f[n - 1])
  <2>1. f = [k \in 0 .. N |-> IF k = 0 THEN <<c>> ELSE Follow(d, f[k - 1])]
    BY <1>12
  <2>2. 0 \in 0 .. N /\ \A n \in 1 .. N : n \in 0 .. N /\ n # 0 BY <1>1
  <2> HIDE DEF Is
  <2> QED BY <2>1, <2>2
<1>14. \A n \in 0 .. N : f[n] \in P(n)
  <2>1. N \in Nat /\ f[0] \in Q[0]
    <3>1. 0 \in 0 .. N BY <1>1
    <3> QED BY <1>1, <1>3, <1>6, <1>13, <3>1
  <2>2. \A n \in 1 .. N : f[n - 1] \in Q[n - 1] => f[n] \in Q[n]
    BY <1>7, <1>13
  <2>3. \A n \in 0 .. N : f[n] \in Q[n]
    BY ONLY <2>1, <2>2, LoopStays
  <2> QED BY <1>6, <2>3
<1>15. Chain(d, c) = f[N]
  BY <1>11 DEF Chain, it, N
<1> QED BY <1>5, <1>13, <1>14, <1>15 DEF N

\* The clusters of s lead from one to the next.
Links(fat, s) == \A i \in 1 .. Len(s) - 1 : fat[s[i]] = s[i + 1]

\* The chain starts where it is told, follows the links, and goes on as long as
\* they lead to clusters.
LEMMA ChainFacts ==
  ASSUME NEW d \in Disk, NEW c \in Cluster
  PROVE  LET ch == Chain(d, c) IN
         /\ ch \in Seq(Cluster) /\ Len(ch) \in 1 .. ClusterCount /\ ch[1] = c
         /\ Links(d.fat, ch)
         /\ Len(ch) < ClusterCount => d.fat[ch[Len(ch)]] \notin Cluster
<1> DEFINE N == ClusterCount - 1
           P(n) == {s \in Seq(Cluster) :
                      /\ Len(s) > 0 /\ Len(s) <= n + 1 /\ s[1] = c /\ Links(d.fat, s)
                      /\ Len(s) < n + 1 => d.fat[s[Len(s)]] \notin Cluster}
           Q == [n \in 0 .. N |-> P(n)]
<1>1. N \in Nat /\ N + 1 = ClusterCount /\ N \in 0 .. N /\ 0 \in 0 .. N
  BY Consts
<1>2. PICK f : /\ f[0] = <<c>>
               /\ \A n \in 1 .. N : f[n] = Follow(d, f[n - 1])
               /\ Chain(d, c) = f[N]
  BY ChainLoop
<1>3. <<c>> \in P(0)
  <2>1. <<c>> \in Seq(Cluster) /\ Len(<<c>>) = 1 /\ <<c>>[1] = c OBVIOUS
  <2>2. Links(d.fat, <<c>>) BY <2>1 DEF Links
  <2> QED BY <2>1, <2>2
<1>4. ASSUME NEW n \in 1 .. N, NEW s \in P(n - 1) PROVE Follow(d, s) \in P(n)
  <2>1. /\ s \in Seq(Cluster) /\ Len(s) > 0 /\ Len(s) <= n /\ s[1] = c /\ Links(d.fat, s)
        /\ Len(s) < n => d.fat[s[Len(s)]] \notin Cluster
    BY <1>1
  <2>2. PICK v : v = d.fat[s[Len(s)]] OBVIOUS
  <2>3. CASE v \notin Cluster
    <3>1. Follow(d, s) = s BY <2>1, <2>2, <2>3, FollowFacts
    <3>2. Len(s) < n + 1 => d.fat[s[Len(s)]] \notin Cluster BY <2>2, <2>3
    <3>3. Len(s) <= n + 1 BY <2>1, <1>1
    <3> QED BY <2>1, <3>1, <3>2, <3>3
  <2>4. CASE v \in Cluster
    <3>1. PICK t : t = Append(s, v) OBVIOUS
    <3>2. Follow(d, s) = t BY <2>1, <2>2, <2>4, <3>1, FollowFacts
    <3>3. Len(s) = n
      <4>1. Len(s) \in Nat /\ ~(Len(s) < n) BY <2>1, <2>2, <2>4
      <4> QED BY ONLY <2>1, <4>1, <1>1
    <3>4. /\ t \in Seq(Cluster) /\ Len(t) = n + 1 /\ t[n + 1] = v
          /\ \A i \in 1 .. n : t[i] = s[i]
      BY ONLY <2>1, <2>4, <3>1, <3>3
    <3>5. Links(d.fat, t)
      <4> SUFFICES ASSUME NEW i \in 1 .. n PROVE d.fat[t[i]] = t[i + 1]
        <5>1. (n + 1) - 1 = n OBVIOUS
        <5> QED BY <3>4, <5>1 DEF Links
      <4>1. CASE i = n
        BY <2>2, <3>3, <3>4, <4>1
      <4>2. CASE i # n
        <5>1. i \in 1 .. Len(s) - 1 /\ i + 1 \in 1 .. n BY <3>3, <4>2
        <5> QED BY <2>1, <3>4, <5>1 DEF Links
      <4> QED BY <4>1, <4>2
    <3>6. Len(t) > 0 /\ t[1] = c
      <4>1. n \in Nat /\ 1 \in 1 .. n OBVIOUS
      <4> QED BY <2>1, <3>4, <4>1
    <3>7. Len(t) <= n + 1 /\ ~(Len(t) < n + 1) BY <3>4
    <3> QED BY <3>2, <3>4, <3>5, <3>6, <3>7
  <2> QED BY <2>3, <2>4
<1>5. \A n \in 0 .. N : Q[n] = P(n)
  <2> HIDE DEF P
  <2> QED OBVIOUS
<1>6. \A n \in 1 .. N : n - 1 \in 0 .. N /\ n \in 0 .. N
  BY <1>1
<1> HIDE DEF P, Q
<1>7. f[0] \in Q[0] /\ \A n \in 1 .. N : f[n - 1] \in Q[n - 1] => f[n] \in Q[n]
  BY <1>1, <1>2, <1>3, <1>4, <1>5, <1>6
<1>8. \A n \in 0 .. N : f[n] \in Q[n]
  <2> HIDE DEF N
  <2> QED BY ONLY <1>1, <1>7, LoopStays
<1>9. f[N] \in P(N)
  BY <1>1, <1>5, <1>8
<1>10. PICK ch : ch = Chain(d, c)
  OBVIOUS
<1>11. /\ ch \in Seq(Cluster) /\ Len(ch) > 0 /\ Len(ch) <= N + 1 /\ ch[1] = c
       /\ Links(d.fat, ch) /\ (Len(ch) < N + 1 => d.fat[ch[Len(ch)]] \notin Cluster)
  BY <1>2, <1>9, <1>10 DEF P
<1>12. Len(ch) \in 1 .. ClusterCount
  <2>1. Len(ch) \in Nat BY <1>11
  <2> QED BY <1>1, <1>11, <2>1
<1> QED BY <1>1, <1>10, <1>11, <1>12

\* Linked clusters of which the last one leads nowhere are a chain.
LEMMA ChainIs ==
  ASSUME NEW d \in Disk, NEW s \in Seq(Cluster), Len(s) \in 1 .. ClusterCount,
         Links(d.fat, s), d.fat[s[Len(s)]] \notin Cluster
  PROVE  Chain(d, s[1]) = s
<1> DEFINE N == ClusterCount - 1
           P(n) == {t \in Seq(Cluster) :
                      /\ Len(t) = IF n + 1 < Len(s) THEN n + 1 ELSE Len(s)
                      /\ \A i \in 1 .. Len(t) : t[i] = s[i]}
           Q == [n \in 0 .. N |-> P(n)]
<1>1. /\ N \in Nat /\ N + 1 = ClusterCount /\ N \in 0 .. N /\ 0 \in 0 .. N
      /\ Len(s) \in Nat /\ Len(s) > 0 /\ Len(s) <= N + 1
  BY Consts
<1>2. s[1] \in Cluster
  BY <1>1
<1>3. PICK f : /\ f[0] = <<s[1]>>
               /\ \A n \in 1 .. N : f[n] = Follow(d, f[n - 1])
               /\ Chain(d, s[1]) = f[N]
  BY <1>2, ChainLoop
<1>4. <<s[1]>> \in P(0)
  <2>1. PICK t : t = <<s[1]>> OBVIOUS
  <2>2. t \in Seq(Cluster) /\ Len(t) = 1 /\ t[1] = s[1] BY <1>2, <2>1
  <2>3. 1 = IF 0 + 1 < Len(s) THEN 0 + 1 ELSE Len(s)
    <3>1. PICK k : k = Len(s) OBVIOUS
    <3>2. k \in Nat /\ k > 0 BY <1>1, <3>1
    <3>3. 1 = IF 0 + 1 < k THEN 0 + 1 ELSE k BY ONLY <3>2
    <3> QED BY <3>1, <3>3
  <2>4. \A i \in 1 .. 1 : i = 1 OBVIOUS
  <2> QED BY <2>1, <2>2, <2>3, <2>4
<1>5. ASSUME NEW n \in 1 .. N, NEW t \in P(n - 1) PROVE Follow(d, t) \in P(n)
  <2>1. /\ t \in Seq(Cluster) /\ Len(t) = IF n < Len(s) THEN n ELSE Len(s)
        /\ \A i \in 1 .. Len(t) : t[i] = s[i]
    BY <1>1
  <2>2. PICK v : v = d.fat[s[Len(t)]] OBVIOUS
  <2>3. Len(t) \in 1 .. Len(s) /\ Len(t) > 0 BY <1>1, <2>1
  <2>4. t[Len(t)] = s[Len(t)] BY <2>1, <2>3
  <2>5. Follow(d, t) = IF v \in Cluster THEN Append(t, v) ELSE t
    BY <2>1, <2>2, <2>3, <2>4, FollowFacts
  <2>6. CASE n < Len(s)
    <3>1. Len(t) = n /\ n \in 1 .. Len(s) - 1 BY <1>1, <2>1, <2>6
    <3>2. v = s[n + 1] /\ s[n + 1] \in Cluster
      <4>1. n + 1 \in 1 .. Len(s) BY <1>1, <3>1
      <4> QED BY <2>2, <3>1, <4>1 DEF Links
    <3>3. PICK u : u = Append(t, v) OBVIOUS
    <3>4. /\ u \in Seq(Cluster) /\ Len(u) = n + 1 /\ u[n + 1] = v
          /\ \A i \in 1 .. n : u[i] = t[i]
      BY ONLY <2>1, <3>1, <3>2, <3>3
    <3>5. \A i \in 1 .. n + 1 : u[i] = s[i]
      <4>1. \A i \in 1 .. n + 1 : i = n + 1 \/ i \in 1 .. n OBVIOUS
      <4> QED BY <2>1, <3>1, <3>2, <3>4, <4>1
    <3>6. n + 1 = IF n + 1 < Len(s) THEN n + 1 ELSE Len(s) BY <1>1, <3>1
    <3>7. Follow(d, t) = u BY <2>5, <3>2, <3>3
    <3> QED BY <3>4, <3>5, <3>6, <3>7
  <2>7. CASE ~(n < Len(s))
    <3>1. Len(t) = Len(s) BY <2>1, <2>7
    <3>2. Follow(d, t) = t BY <2>2, <2>5, <3>1
    <3>3. Len(s) = IF n + 1 < Len(s) THEN n + 1 ELSE Len(s) BY <1>1, <2>7
    <3> QED BY <2>1, <3>1, <3>2, <3>3
  <2> QED BY <2>6, <2>7
<1>6. \A n \in 0 .. N : Q[n] = P(n)
  <2> HIDE DEF P
  <2> QED OBVIOUS
<1>7. \A n \in 1 .. N : n - 1 \in 0 .. N /\ n \in 0 .. N
  BY <1>1
<1> HIDE DEF P, Q
<1>8. f[0] \in Q[0] /\ \A n \in 1 .. N : f[n - 1] \in Q[n - 1] => f[n] \in Q[n]
  BY <1>1, <1>3, <1>4, <1>5, <1>6, <1>7
<1>9. \A n \in 0 .. N : f[n] \in Q[n]
  <2> HIDE DEF N
  <2> QED BY ONLY <1>1, <1>8, LoopStays
<1>10. f[N] \in P(N)
  BY <1>1, <1>6, <1>9
<1>11. PICK t : t = f[N]
  OBVIOUS
<1>12. t \in Seq(Cluster) /\ Len(t) = Len(s) /\ \A i \in 1 .. Len(t) : t[i] = s[i]
  <2>1. ~(N + 1 < Len(s)) BY <1>1
  <2> QED BY <1>10, <1>11, <2>1 DEF P
<1>13. t = s
  BY ONLY <1>12, s \in Seq(Cluster)
<1> QED BY <1>3, <1>11, <1>13

\* The clusters of a file or directory.
Held(d, c) == ToSet(Chain(d, c))

\* They are clusters; there are none if there is no first one, else it is one of them.
LEMMA HeldFacts ==
  ASSUME NEW d \in Disk, NEW c
  PROVE  /\ Chain(d, c) \in Seq(Cluster) /\ Held(d, c) \subseteq Cluster
         /\ Held(d, c) = {Chain(d, c)[i] : i \in 1 .. Len(Chain(d, c))}
         /\ c \in Cluster => /\ c \in Held(d, c) /\ Chain(d, c)[1] = c
                             /\ Len(Chain(d, c)) \in 1 .. ClusterCount
         /\ c \notin Cluster => Chain(d, c) = << >> /\ Held(d, c) = {}
         /\ SoundChain(d, c) => \A x \in Held(d, c) : d.fat[x] # Unused
<1> DEFINE ch == Chain(d, c)
<1>1. CASE c \in Cluster
  <2>1. /\ ch \in Seq(Cluster) /\ Len(ch) \in 1 .. ClusterCount /\ ch[1] = c
        /\ Links(d.fat, ch)
    BY <1>1, ChainFacts
  <2> HIDE DEF ch
  <2>2. Len(ch) \in Nat /\ DOMAIN ch = 1 .. Len(ch) /\ 1 \in 1 .. Len(ch) BY <2>1
  <2>3. ToSet(ch) = {ch[i] : i \in 1 .. Len(ch)} BY <2>2 DEF ToSet
  <2>4. ToSet(ch) \subseteq Cluster /\ c \in ToSet(ch) BY <2>1, <2>2, <2>3
  <2>5. ASSUME SoundChain(d, c), NEW x \in ToSet(ch) PROVE d.fat[x] # Unused
    <3>1. PICK i \in 1 .. Len(ch) : x = ch[i] BY <2>3, <2>5
    <3>2. ch # << >> /\ Last(ch) = ch[Len(ch)] BY <2>2 DEF Last
    <3>3. CASE i = Len(ch)
      <4>1. d.fat[x] = Eoc BY <2>5, <3>1, <3>2, <3>3 DEF SoundChain, ch
      <4> QED BY <4>1 DEF Eoc, Unused
    <3>4. CASE i # Len(ch)
      <4>1. i \in 1 .. Len(ch) - 1 /\ i + 1 \in 1 .. Len(ch)
        <5>1. Len(ch) \in Nat BY <2>2
        <5> QED BY ONLY <5>1, <3>4, i \in 1 .. Len(ch)
      <4>2. d.fat[x] = ch[i + 1] BY <2>1, <3>1, <4>1 DEF Links
      <4>3. ch[i + 1] \in Cluster BY <2>1, <4>1
      <4> QED BY <4>2, <4>3, Clusters
    <3> QED BY <3>3, <3>4
  <2> QED BY <1>1, <2>1, <2>3, <2>4, <2>5 DEF Held, ch
<1>2. CASE c \notin Cluster
  <2>1. ch = << >> BY <1>2 DEF Chain
  <2>2. ToSet(<< >>) = {} /\ << >> \in Seq(Cluster) /\ {<< >>[i] : i \in 1 .. Len(<< >>)} = {}
    <3>1. DOMAIN << >> = {} /\ Len(<< >>) = 0 /\ 1 .. 0 = {} /\ << >> \in Seq(Cluster) OBVIOUS
    <3> QED BY <3>1 DEF ToSet
  <2> QED BY <1>2, <2>1, <2>2 DEF Held, ch
<1> QED BY <1>1, <1>2

\* A chain of clusters that the FAT still has is the same.
LEMMA ChainSpared ==
  ASSUME NEW d \in Disk, NEW d2 \in Disk, NEW c, SoundChain(d, c),
         \A x \in Held(d, c) : d2.fat[x] = d.fat[x]
  PROVE  Chain(d2, c) = Chain(d, c) /\ SoundChain(d2, c)
<1>1. CASE c \in Cluster
  <2>1. PICK ch : ch = Chain(d, c) OBVIOUS
  <2>2. /\ ch \in Seq(Cluster) /\ Len(ch) \in 1 .. ClusterCount /\ ch[1] = c
        /\ Links(d.fat, ch)
    BY <1>1, <2>1, ChainFacts
  <2>3. Len(ch) \in Nat /\ ch # << >> /\ Last(ch) = ch[Len(ch)] /\ Len(ch) \in 1 .. Len(ch)
    BY <2>2 DEF Last
  <2>4. IsInjective(ch) /\ d.fat[ch[Len(ch)]] = Eoc
    BY <2>1, <2>3 DEF SoundChain
  <2>5. \A i \in 1 .. Len(ch) : d2.fat[ch[i]] = d.fat[ch[i]]
    <3>1. Held(d, c) = {Chain(d, c)[i] : i \in 1 .. Len(Chain(d, c))} BY ONLY HeldFacts, d \in Disk
    <3>2. Held(d, c) = {ch[i] : i \in 1 .. Len(ch)} BY ONLY <2>1, <3>1
    <3> QED BY <3>2
  <2>6. Links(d2.fat, ch)
    <3>1. \A i \in 1 .. Len(ch) - 1 : i \in 1 .. Len(ch) BY <2>3
    <3> QED BY <2>2, <2>5, <3>1 DEF Links
  <2>7. d2.fat[ch[Len(ch)]] = Eoc /\ Eoc \notin Cluster
    BY <2>3, <2>4, <2>5, Clusters
  <2>8. Chain(d2, ch[1]) = ch
    BY <2>2, <2>6, <2>7, ChainIs
  <2>9. Chain(d2, c) = ch BY <2>2, <2>8
  <2>10. SoundChain(d2, c) BY <2>3, <2>4, <2>7, <2>9 DEF SoundChain
  <2> QED BY <2>1, <2>9, <2>10
<1>2. CASE c \notin Cluster
  <2>1. Chain(d, c) = << >> /\ Chain(d2, c) = << >> BY <1>2, HeldFacts
  <2> QED BY <2>1 DEF SoundChain
<1> QED BY <1>1, <1>2

\* No more clusters than there are.
LEMMA NoLonger ==
  ASSUME NEW s \in Seq(Cluster), IsInjective(s)
  PROVE  Len(s) <= ClusterCount
<1>1. Len(s) \in Nat /\ DOMAIN s = 1 .. Len(s) /\ s \in [1 .. Len(s) -> Cluster]
  OBVIOUS
<1>2. SUFFICES ASSUME Len(s) > ClusterCount PROVE FALSE
  BY <1>1, Consts
<1> DEFINE n == Len(s)
<1>3. IsFiniteSet(1 .. n) /\ Cardinality(1 .. n) = n
  <2>1. n \in Int /\ 1 \in Int /\ ~(1 > n) /\ n - 1 + 1 = n BY <1>1, <1>2, Consts
  <2> HIDE DEF n
  <2>2. IsFiniteSet(1 .. n) /\ Cardinality(1 .. n) = n - 1 + 1 BY <2>1, FS_Interval
  <2> QED BY <2>1, <2>2
<1>4. Cardinality(Cluster) < Cardinality(1 .. n) /\ IsFiniteSet(Cluster)
  BY <1>2, <1>3, Clusters
<1>5. \E x, y \in 1 .. n : x # y /\ s[x] = s[y]
  <2> HIDE DEF n
  <2>1. s \in [1 .. n -> Cluster] BY <1>1 DEF n
  <2> QED BY <1>3, <1>4, <2>1, FS_PigeonHole
<1> QED BY <1>1, <1>5 DEF IsInjective

\* A new chain.
LEMMA NewChain ==
  ASSUME NEW d \in Disk, NEW s \in Seq(Cluster), IsInjective(s), Len(s) > 0,
         Links(d.fat, s), d.fat[s[Len(s)]] = Eoc
  PROVE  Chain(d, s[1]) = s /\ SoundChain(d, s[1])
<1>1. Len(s) \in 1 .. ClusterCount /\ s # << >> /\ Last(s) = s[Len(s)]
  <2>1. Len(s) \in Nat /\ Len(s) <= ClusterCount BY NoLonger
  <2> QED BY <2>1, Consts DEF Last
<1>2. d.fat[s[Len(s)]] \notin Cluster
  BY Clusters
<1>3. Chain(d, s[1]) = s
  BY <1>1, <1>2, ChainIs
<1> QED BY <1>1, <1>3 DEF SoundChain

-----------------------------------------------------------------------------
(* Directories *)

\* The entry at a place, the places of some clusters, and what is listed there.
At(d, p) == d.blk[p[1]].ents[p[2]]
Places(H) == H \X (1 .. SLOTS)
Named(e) == InUse(e) /\ e.name \notin Dots
Plain(d, H) == {p \in Places(H) : Named(At(d, p))}
Listed(d, H) == {Placed(p, At(d, p)) : p \in Plain(d, H)}

\* The slots of a chain are the places of its clusters.
LEMMA SlotPlaces ==
  ASSUME NEW ch \in Seq(Cluster)
  PROVE  /\ Slots(ch) \subseteq Place
         /\ \A s \in Slots(ch) : /\ Pos(ch, s) \in Places(ToSet(ch))
                                 /\ ch[s[1]] \in ToSet(ch) /\ ch[s[1]] \in Cluster
                                 /\ s[1] \in 1 .. Len(ch) /\ s[2] \in 1 .. SLOTS
                                 /\ s = <<s[1], s[2]>>
         /\ \A p \in Places(ToSet(ch)) : \E s \in Slots(ch) : p = Pos(ch, s)
         /\ IsInjective(ch) =>
              \A s, t \in Slots(ch) : Pos(ch, s) = Pos(ch, t) => s = t
<1>1. Len(ch) \in Nat /\ DOMAIN ch = 1 .. Len(ch) /\ \A i \in 1 .. Len(ch) : ch[i] \in Cluster
  OBVIOUS
<1>2. ToSet(ch) = {ch[i] : i \in 1 .. Len(ch)}
  BY <1>1 DEF ToSet
<1>3. \A s \in Slots(ch) : s[1] \in 1 .. Len(ch) /\ s[2] \in 1 .. SLOTS /\ s = <<s[1], s[2]>>
  BY DEF Slots
<1>4. Slots(ch) \subseteq Place
  <2>1. 1 .. Len(ch) \subseteq Nat /\ 1 .. SLOTS \subseteq Nat BY <1>1, Consts
  <2> QED BY <2>1 DEF Slots, Place
<1>5. ASSUME NEW s \in Slots(ch)
      PROVE  /\ Pos(ch, s) \in Places(ToSet(ch))
             /\ ch[s[1]] \in ToSet(ch) /\ ch[s[1]] \in Cluster
  <2>1. ch[s[1]] \in ToSet(ch) /\ ch[s[1]] \in Cluster BY <1>1, <1>2, <1>3
  <2> QED BY <1>3, <2>1 DEF Pos, Places
<1>6. ASSUME NEW p \in Places(ToSet(ch)) PROVE \E s \in Slots(ch) : p = Pos(ch, s)
  <2>1. p[1] \in ToSet(ch) /\ p[2] \in 1 .. SLOTS /\ p = <<p[1], p[2]>> BY DEF Places
  <2>2. PICK i \in 1 .. Len(ch) : p[1] = ch[i] BY <1>2, <2>1
  <2>3. PICK s : s = <<i, p[2]>> OBVIOUS
  <2>4. s \in Slots(ch) /\ s[1] = i /\ s[2] = p[2] BY <2>1, <2>3 DEF Slots
  <2>5. Pos(ch, s) = <<ch[i], p[2]>> BY <2>4 DEF Pos
  <2>6. Pos(ch, s) = p BY <2>1, <2>2, <2>5
  <2> QED BY <2>4, <2>6
<1>7. ASSUME IsInjective(ch), NEW s \in Slots(ch), NEW t \in Slots(ch), Pos(ch, s) = Pos(ch, t)
      PROVE  s = t
  <2>1. ch[s[1]] = ch[t[1]] /\ s[2] = t[2] BY <1>7 DEF Pos
  <2>2. s[1] = t[1] BY <1>1, <1>3, <1>7, <2>1 DEF IsInjective
  <2> QED BY <1>3, <2>1, <2>2
<1> QED BY <1>3, <1>4, <1>5, <1>6, <1>7

\* The entry of a slot.
LEMMA InAt ==
  ASSUME NEW d, NEW ch, NEW s
  PROVE  In(d, ch, s) = At(d, Pos(ch, s)) /\ Shown(d, ch, s) = Placed(Pos(ch, s), At(d, Pos(ch, s)))
<1>1. Pos(ch, s)[1] = ch[s[1]] /\ Pos(ch, s)[2] = s[2]
  BY DEF Pos
<1>2. In(d, ch, s) = At(d, Pos(ch, s))
  BY <1>1 DEF In, At
<1> QED BY <1>2 DEF Shown

\* The entries of a disk have their type.
LEMMA AtType ==
  ASSUME NEW d \in Disk, NEW H \in SUBSET Cluster, NEW p \in Places(H)
  PROVE  /\ At(d, p) \in EntryType /\ p[1] \in H /\ p[2] \in 1 .. SLOTS /\ p = <<p[1], p[2]>>
         /\ At(d, p).clu \in Cluster \cup {Unused} /\ At(d, p).size \in Nat
         /\ At(d, p).ft \in {"end", "wiped", "dir", "file"}
         /\ p # <<Unused, 0>>
<1>1. p[1] \in H /\ p[2] \in 1 .. SLOTS /\ p = <<p[1], p[2]>>
  BY DEF Places
<1>2. d.blk[p[1]].ents \in [1 .. SLOTS -> EntryType]
  BY <1>1, DiskTypes
<1>3. At(d, p) \in EntryType
  BY <1>1, <1>2 DEF At
<1>4. \A e \in EntryType : /\ e.clu \in Cluster \cup {Unused} /\ e.size \in Nat
                           /\ e.ft \in {"end", "wiped", "dir", "file"}
  BY DEF EntryType
<1>5. p # <<Unused, 0>>
  <2>1. p[1] # Unused BY <1>1, Clusters
  <2> QED BY <2>1
<1> QED BY <1>1, <1>3, <1>4, <1>5

\* A listed entry.
LEMMA PlacedFacts ==
  ASSUME NEW p, NEW e
  PROVE  /\ Placed(p, e).pos = p /\ Placed(p, e).name = e.name /\ Placed(p, e).ft = e.ft
         /\ Placed(p, e).clu = e.clu /\ Placed(p, e).size = e.size
BY DEF Placed

\* A listed entry and the one it shows.
LEMMA ListedFacts ==
  ASSUME NEW d \in Disk, NEW H \in SUBSET Cluster, NEW x \in Listed(d, H)
  PROVE  /\ x.pos \in Places(H) /\ x.pos[1] \in H /\ x = Placed(x.pos, At(d, x.pos))
         /\ Named(At(d, x.pos)) /\ x.ft \in {"dir", "file"} /\ x.name \notin Dots
         /\ x.name = At(d, x.pos).name /\ x.ft = At(d, x.pos).ft
         /\ x.clu = At(d, x.pos).clu /\ x.size = At(d, x.pos).size
         /\ x.clu \in Cluster \cup {Unused} /\ x.size \in Nat
         /\ x # RootEntry /\ x # NoEntry
<1>1. PICK p \in Plain(d, H) : x = Placed(p, At(d, p))
  BY DEF Listed
<1>2. p \in Places(H) /\ Named(At(d, p))
  BY DEF Plain
<1>3. /\ x.pos = p /\ x.name = At(d, p).name /\ x.ft = At(d, p).ft
      /\ x.clu = At(d, p).clu /\ x.size = At(d, p).size
  BY <1>1, PlacedFacts
<1>4. x.ft \in {"dir", "file"} /\ x.name \notin Dots
  BY <1>2, <1>3 DEF Named, InUse
<1>5. /\ p[1] \in H /\ p # <<Unused, 0>> /\ x.clu \in Cluster \cup {Unused} /\ x.size \in Nat
  BY <1>2, <1>3, AtType
<1>6. RootEntry.pos = <<Unused, 0>> /\ NoEntry.pos = <<Unused, 0>>
  BY PlacedFacts DEF RootEntry, NoEntry
<1>7. x # RootEntry /\ x # NoEntry
  BY <1>3, <1>5, <1>6
<1> QED BY <1>1, <1>2, <1>3, <1>4, <1>5, <1>7

\* What a walk finds is listed, and in a sound directory all of it is found.
LEMMA EntriesAre ==
  ASSUME NEW d \in Disk, NEW c
  PROVE  /\ Entries(d, c) \subseteq Listed(d, Held(d, c))
         /\ SoundSlots(d, Chain(d, c)) => Entries(d, c) = Listed(d, Held(d, c))
<1>1. PICK ch : ch = Chain(d, c)
  OBVIOUS
<1>2. ch \in Seq(Cluster) /\ Held(d, c) = ToSet(ch)
  <2>1. Chain(d, c) \in Seq(Cluster) BY HeldFacts
  <2> QED BY <1>1, <2>1 DEF Held
<1>3. Entries(d, c) = {Shown(d, ch, s) : s \in Walk(d, ch)}
  BY <1>1 DEF Entries
<1>4. \A s \in Walk(d, ch) : s \in Slots(ch) /\ Named(In(d, ch, s))
  BY DEF Walk, Named
<1>5. ASSUME NEW s \in Slots(ch), Named(In(d, ch, s))
      PROVE  Shown(d, ch, s) \in Listed(d, Held(d, c))
  <2>1. Pos(ch, s) \in Places(Held(d, c)) BY <1>2, SlotPlaces
  <2>2. Pos(ch, s) \in Plain(d, Held(d, c)) BY <1>5, <2>1, InAt DEF Plain
  <2> QED BY <2>2, InAt DEF Listed
<1>6. Entries(d, c) \subseteq Listed(d, Held(d, c))
  BY <1>3, <1>4, <1>5
<1>7. ASSUME SoundSlots(d, ch), NEW x \in Listed(d, Held(d, c)) PROVE x \in Entries(d, c)
  <2>1. PICK p \in Plain(d, Held(d, c)) : x = Placed(p, At(d, p)) BY DEF Listed
  <2>2. p \in Places(ToSet(ch)) /\ Named(At(d, p)) BY <1>2 DEF Plain
  <2>3. PICK s \in Slots(ch) : p = Pos(ch, s) BY <1>2, <2>2, SlotPlaces
  <2>4. Named(In(d, ch, s)) /\ x = Shown(d, ch, s) BY <2>1, <2>2, <2>3, InAt
  <2>5. \A t \in Slots(ch) : Before(t, s) => In(d, ch, t).ft # "end"
    BY <1>7, <2>4 DEF SoundSlots, Named, InUse
  <2>6. s \in Walk(d, ch) BY <2>4, <2>5 DEF Walk, Named
  <2> QED BY <1>3, <2>4, <2>6
<1> QED BY <1>1, <1>6, <1>7

\* In a sound directory a name is there once.
LEMMA NameOnce ==
  ASSUME NEW d \in Disk, NEW c, SoundSlots(d, Chain(d, c)),
         NEW p \in Places(Held(d, c)), NEW q \in Places(Held(d, c)),
         InUse(At(d, p)), InUse(At(d, q)), At(d, p).name = At(d, q).name
  PROVE  p = q
<1>1. PICK ch : ch = Chain(d, c)
  OBVIOUS
<1>2. ch \in Seq(Cluster) /\ Held(d, c) = ToSet(ch)
  <2>1. Chain(d, c) \in Seq(Cluster) BY HeldFacts
  <2> QED BY <1>1, <2>1 DEF Held
<1>3. PICK s \in Slots(ch), t \in Slots(ch) : p = Pos(ch, s) /\ q = Pos(ch, t)
  BY <1>2, SlotPlaces
<1>4. /\ InUse(In(d, ch, s)) /\ InUse(In(d, ch, t)) /\ In(d, ch, s).name = In(d, ch, t).name
  BY <1>3, InAt
<1>5. ~Before(s, t) /\ ~Before(t, s)
  BY <1>1, <1>4 DEF SoundSlots
<1>6. s \in Place /\ t \in Place
  BY <1>2, SlotPlaces
<1>7. s = t
  BY <1>5, <1>6, Order
<1> QED BY <1>3, <1>7

\* look_up finds an entry with the name, if there is one.
LEMMA LookUpFacts ==
  ASSUME NEW d \in Disk, NEW c, NEW n
  PROVE  \/ LookUp(d, c, n) = NoEntry /\ \A x \in Entries(d, c) : x.name # n
         \/ LookUp(d, c, n) \in Entries(d, c) /\ LookUp(d, c, n).name = n
<1>1. PICK ch : ch = Chain(d, c)
  OBVIOUS
<1>2. ch \in Seq(Cluster)
  BY <1>1, HeldFacts
<1>3. PICK S : S = {s \in Walk(d, ch) : In(d, ch, s).name = n}
  OBVIOUS
<1>4. LookUp(d, c, n) = IF S = {} THEN NoEntry ELSE Shown(d, ch, First(S))
  BY <1>1, <1>3 DEF LookUp
<1>5. Entries(d, c) = {Shown(d, ch, s) : s \in Walk(d, ch)}
  BY <1>1 DEF Entries
<1>6. \A s : Shown(d, ch, s).name = In(d, ch, s).name
  BY PlacedFacts DEF Shown
<1>7. CASE S = {}
  BY <1>3, <1>4, <1>5, <1>6, <1>7
<1>8. CASE S # {}
  <2>1. S \in SUBSET Place BY <1>2, <1>3, SlotPlaces DEF Walk
  <2>2. First(S) \in S BY <1>8, <2>1, FirstIn
  <2> QED BY <1>3, <1>4, <1>5, <1>6, <1>8, <2>2
<1> QED BY <1>7, <1>8

\* A place that no end mark of its directory hides, and the only one there that
\* may have the name n.
Open(d, c, p) ==
  \E s \in Slots(Chain(d, c)) :
    /\ p = Pos(Chain(d, c), s)
    /\ \A t \in Slots(Chain(d, c)) : Before(t, s) => In(d, Chain(d, c), t).ft # "end"
Only(d, c, p, n) ==
  \A q \in Places(Held(d, c)) : q # p /\ InUse(At(d, q)) => At(d, q).name # n

\* A directory whose clusters are as they were.
LEMMA SparedDir ==
  ASSUME NEW d \in Disk, NEW d2 \in Disk, NEW c, SoundChain(d, c),
         \A x \in Held(d, c) : d2.fat[x] = d.fat[x] /\ d2.blk[x] = d.blk[x]
  PROVE  /\ Chain(d2, c) = Chain(d, c) /\ Held(d2, c) = Held(d, c) /\ SoundChain(d2, c)
         /\ SoundSlots(d, Chain(d, c)) => SoundSlots(d2, Chain(d2, c))
         /\ Entries(d2, c) = Entries(d, c)
         /\ \A p : Open(d, c, p) => Open(d2, c, p)
         /\ \A p \in Places(Held(d, c)) : At(d2, p) = At(d, p)
         /\ \A p, n : Only(d, c, p, n) => Only(d2, c, p, n)
<1>1. PICK ch : ch = Chain(d, c)
  OBVIOUS
<1>2. Chain(d2, c) = ch /\ SoundChain(d2, c)
  BY <1>1, ChainSpared
<1>3. ch \in Seq(Cluster) /\ Held(d, c) = ToSet(ch)
  <2>1. Chain(d, c) \in Seq(Cluster) BY HeldFacts
  <2> QED BY <1>1, <2>1 DEF Held
<1>4. Held(d2, c) = Held(d, c)
  BY <1>1, <1>2 DEF Held
<1>5. ASSUME NEW p \in Places(Held(d, c)) PROVE At(d2, p) = At(d, p)
  <2>1. p[1] \in Held(d, c) BY DEF Places
  <2>2. d2.blk[p[1]] = d.blk[p[1]] BY <2>1
  <2> QED BY <2>2 DEF At
<1>6. ASSUME NEW s \in Slots(ch)
      PROVE  In(d2, ch, s) = In(d, ch, s) /\ Shown(d2, ch, s) = Shown(d, ch, s)
  <2>1. Pos(ch, s) \in Places(Held(d, c)) BY <1>3, SlotPlaces
  <2>2. At(d2, Pos(ch, s)) = At(d, Pos(ch, s)) BY <1>5, <2>1
  <2> QED BY <2>2, InAt
<1>7. SoundSlots(d, ch) => SoundSlots(d2, ch)
  BY <1>6 DEF SoundSlots
<1>8. Walk(d2, ch) = Walk(d, ch) /\ Walk(d, ch) \subseteq Slots(ch)
  BY <1>6 DEF Walk
<1>9. Entries(d2, c) = Entries(d, c)
  <2>1. Entries(d2, c) = {Shown(d2, ch, s) : s \in Walk(d2, ch)} BY <1>2 DEF Entries
  <2>2. Entries(d, c) = {Shown(d, ch, s) : s \in Walk(d, ch)} BY <1>1 DEF Entries
  <2>3. {Shown(d2, ch, s) : s \in Walk(d, ch)} = {Shown(d, ch, s) : s \in Walk(d, ch)}
    BY <1>6, <1>8
  <2> QED BY <1>8, <2>1, <2>2, <2>3
<1>10. ASSUME NEW p, Open(d, c, p) PROVE Open(d2, c, p)
  <2>1. PICK s \in Slots(ch) : /\ p = Pos(ch, s)
                               /\ \A t \in Slots(ch) : Before(t, s) => In(d, ch, t).ft # "end"
    BY <1>1, <1>10 DEF Open
  <2>2. \A t \in Slots(ch) : Before(t, s) => In(d2, ch, t).ft # "end"
    BY <1>6, <2>1
  <2> QED BY <1>2, <2>1, <2>2 DEF Open
<1>11. ASSUME NEW p, NEW n, Only(d, c, p, n) PROVE Only(d2, c, p, n)
  BY <1>4, <1>5, <1>11 DEF Only
<1> QED BY <1>1, <1>2, <1>4, <1>5, <1>7, <1>9, <1>10, <1>11

\* One entry is written.
LEMMA PutFacts ==
  ASSUME NEW d \in Disk, NEW p \in Places(Cluster), NEW e \in EntryType
  PROVE  /\ Put(d, p, e) \in Disk /\ Put(d, p, e).fat = d.fat
         /\ d \in Tame => Put(d, p, e) \in Tame
         /\ At(Put(d, p, e), p) = e
         /\ \A q \in Places(Cluster) : q # p => At(Put(d, p, e), q) = At(d, q)
         /\ \A x \in Cluster : x # p[1] => Put(d, p, e).blk[x] = d.blk[x]
<1>1. p[1] \in Cluster /\ p[2] \in 1 .. SLOTS /\ p = <<p[1], p[2]>>
  BY DEF Places
<1>2. PICK g : g = Put(d, p, e)
  OBVIOUS
<1>3. PICK c \in Cluster, k \in 1 .. SLOTS : c = p[1] /\ k = p[2]
  BY <1>1
<1>4. /\ g \in Disk /\ g.fat = d.fat /\ g.blk[c].ents[k] = e
      /\ \A x \in Cluster : \A j \in 1 .. SLOTS :
           <<x, j>> # p => g.blk[x].ents[j] = d.blk[x].ents[j]
      /\ \A x \in Cluster : x # c => g.blk[x] = d.blk[x]
      /\ d \in Tame => g \in Tame
  <2>1. p = <<c, k>> BY <1>1, <1>3
  <2> QED BY ONLY <1>2, <2>1, SetEnt, d \in Disk, e \in EntryType, c \in Cluster, k \in 1 .. SLOTS
<1>5. At(g, p) = e
  BY <1>3, <1>4 DEF At
<1>6. ASSUME NEW q \in Places(Cluster), q # p PROVE At(g, q) = At(d, q)
  <2>1. q[1] \in Cluster /\ q[2] \in 1 .. SLOTS /\ q = <<q[1], q[2]>> BY DEF Places
  <2> QED BY <1>4, <1>6, <2>1 DEF At
<1> QED BY <1>2, <1>3, <1>4, <1>5, <1>6

\* No chain changes, and what was open stays open.
LEMMA PutOpen ==
  ASSUME NEW d \in Disk, NEW p \in Places(Cluster), NEW e \in EntryType,
         NEW c, SoundChain(d, c)
  PROVE  /\ Chain(Put(d, p, e), c) = Chain(d, c) /\ Held(Put(d, p, e), c) = Held(d, c)
         /\ SoundChain(Put(d, p, e), c)
         /\ \A q : e.ft # "end" /\ Open(d, c, q) => Open(Put(d, p, e), c, q)
<1>1. PICK g : g = Put(d, p, e)
  OBVIOUS
<1>2. /\ g \in Disk /\ g.fat = d.fat /\ At(g, p) = e
      /\ \A q \in Places(Cluster) : q # p => At(g, q) = At(d, q)
  BY <1>1, PutFacts
<1>3. PICK ch : ch = Chain(d, c)
  OBVIOUS
<1>4. Chain(g, c) = ch /\ SoundChain(g, c)
  BY <1>2, <1>3, ChainSpared
<1>5. Held(g, c) = Held(d, c)
  BY <1>3, <1>4 DEF Held
<1>6. ch \in Seq(Cluster)
  BY <1>3, HeldFacts
<1>7. ASSUME NEW q, e.ft # "end", Open(d, c, q) PROVE Open(g, c, q)
  <2>1. PICK s \in Slots(ch) : /\ q = Pos(ch, s)
                               /\ \A t \in Slots(ch) : Before(t, s) => In(d, ch, t).ft # "end"
    BY <1>3, <1>7 DEF Open
  <2>2. ASSUME NEW t \in Slots(ch), Before(t, s) PROVE In(g, ch, t).ft # "end"
    <3>1. Pos(ch, t) \in Places(Cluster)
      <4>1. ToSet(ch) \subseteq Cluster /\ Pos(ch, t) \in Places(ToSet(ch))
        <5>1. Held(d, c) \subseteq Cluster BY HeldFacts
        <5> QED BY <1>3, <1>6, <5>1, SlotPlaces DEF Held
      <4> QED BY <4>1 DEF Places
    <3>2. CASE Pos(ch, t) = p
      BY <1>2, <1>7, <3>2, InAt
    <3>3. CASE Pos(ch, t) # p
      BY <1>2, <2>1, <2>2, <3>1, <3>3, InAt
    <3> QED BY <3>2, <3>3
  <2> QED BY <1>4, <2>1, <2>2 DEF Open
<1> QED BY <1>1, <1>3, <1>4, <1>5, <1>7

\* An entry is written into a sound directory.
LEMMA PutSound ==
  ASSUME NEW d \in Disk, NEW c, SoundChain(d, c), SoundSlots(d, Chain(d, c)),
         NEW p, Open(d, c, p), NEW e \in EntryType, e.ft # "end",
         InUse(e) => Only(d, c, p, e.name)
  PROVE  /\ p \in Places(Held(d, c)) /\ p \in Places(Cluster)
         /\ SoundSlots(Put(d, p, e), Chain(Put(d, p, e), c))
         /\ Entries(Put(d, p, e), c) = (Entries(d, c) \ {Placed(p, At(d, p))})
                                         \cup (IF Named(e) THEN {Placed(p, e)} ELSE {})
<1>1. PICK ch : ch = Chain(d, c)
  OBVIOUS
<1>2. /\ ch \in Seq(Cluster) /\ IsInjective(ch)
      /\ Held(d, c) = ToSet(ch) /\ Held(d, c) \subseteq Cluster
  <2>1. Chain(d, c) \in Seq(Cluster) /\ Held(d, c) \subseteq Cluster BY HeldFacts
  <2> QED BY <1>1, <2>1 DEF Held, SoundChain
<1>3. PICK s \in Slots(ch) : /\ p = Pos(ch, s)
                             /\ \A t \in Slots(ch) : Before(t, s) => In(d, ch, t).ft # "end"
  BY <1>1 DEF Open
<1>4. p \in Places(Held(d, c)) /\ \A q \in Places(Held(d, c)) : q \in Places(Cluster)
  <2>1. p \in Places(Held(d, c)) BY <1>2, <1>3, SlotPlaces
  <2>2. \A q \in Places(Held(d, c)) : q \in Places(Cluster) BY <1>2 DEF Places
  <2> QED BY <2>1, <2>2
<1>5. PICK g : g = Put(d, p, e)
  OBVIOUS
<1>6. /\ g \in Disk /\ g.fat = d.fat /\ At(g, p) = e
      /\ \A q \in Places(Cluster) : q # p => At(g, q) = At(d, q)
  BY <1>4, <1>5, PutFacts
<1>7. Chain(g, c) = ch /\ SoundChain(g, c) /\ Held(g, c) = Held(d, c)
  BY <1>1, <1>4, <1>5, PutOpen
<1>8. In(g, ch, s) = e
  BY <1>3, <1>6, InAt
<1>9. ASSUME NEW t \in Slots(ch), t # s
      PROVE  In(g, ch, t) = In(d, ch, t) /\ (InUse(e) /\ InUse(In(d, ch, t)) => In(d, ch, t).name # e.name)
  <2>1. Pos(ch, t) \in Places(Held(d, c)) /\ Pos(ch, t) # p
    BY <1>2, <1>3, <1>9, SlotPlaces
  <2>2. In(g, ch, t) = In(d, ch, t) BY <1>4, <1>6, <2>1, InAt
  <2>3. InUse(e) /\ InUse(In(d, ch, t)) => In(d, ch, t).name # e.name
    BY <2>1, InAt DEF Only
  <2> QED BY <2>2, <2>3
<1>10. ASSUME NEW t \in Slots(ch), NEW u \in Slots(ch), Before(t, u)
       PROVE  /\ In(g, ch, t).ft = "end" => In(g, ch, u).ft = "end"
              /\ InUse(In(g, ch, t)) /\ InUse(In(g, ch, u)) => In(g, ch, t).name # In(g, ch, u).name
  <2>1. t # u
    <3>1. t \in Place /\ u \in Place BY <1>2, SlotPlaces
    <3> QED BY <1>10, <3>1, Order
  <2>2. /\ In(d, ch, t).ft = "end" => In(d, ch, u).ft = "end"
        /\ InUse(In(d, ch, t)) /\ InUse(In(d, ch, u)) => In(d, ch, t).name # In(d, ch, u).name
    BY <1>1, <1>10 DEF SoundSlots
  <2>3. CASE t = s
    BY <1>8, <1>9, <2>1, <2>3
  <2>4. CASE u = s
    BY <1>3, <1>8, <1>9, <1>10, <2>1, <2>4
  <2>5. CASE t # s /\ u # s
    BY <1>9, <2>2, <2>5
  <2> QED BY <2>3, <2>4, <2>5
<1>11. SoundSlots(g, ch)
  BY <1>10 DEF SoundSlots
<1>12. PICK H : H = Held(d, c)
  OBVIOUS
<1>13. Entries(d, c) = Listed(d, H) /\ Entries(g, c) = Listed(g, H)
  BY <1>1, <1>6, <1>7, <1>11, <1>12, EntriesAre
<1>14. Listed(g, H) = (Listed(d, H) \ {Placed(p, At(d, p))})
                        \cup (IF Named(e) THEN {Placed(p, e)} ELSE {})
  <2>1. H \in SUBSET Cluster /\ p \in Places(H) BY <1>2, <1>4, <1>12
  <2>2. ASSUME NEW x \in Listed(g, H)
        PROVE  \/ x \in Listed(d, H) /\ x # Placed(p, At(d, p))
               \/ Named(e) /\ x = Placed(p, e)
    <3>1. x.pos \in Places(H) /\ x = Placed(x.pos, At(g, x.pos)) /\ Named(At(g, x.pos))
      BY <1>6, <2>1, ListedFacts
    <3>2. CASE x.pos = p
      BY <1>6, <3>1, <3>2
    <3>3. CASE x.pos # p
      <4>1. At(g, x.pos) = At(d, x.pos) BY <1>4, <1>6, <1>12, <3>1, <3>3
      <4>2. x \in Listed(d, H) BY <3>1, <4>1 DEF Listed, Plain
      <4> QED BY <3>3, <4>2, PlacedFacts
    <3> QED BY <3>2, <3>3
  <2>3. ASSUME NEW x \in Listed(d, H), x # Placed(p, At(d, p)) PROVE x \in Listed(g, H)
    <3>1. x.pos \in Places(H) /\ x = Placed(x.pos, At(d, x.pos)) /\ Named(At(d, x.pos))
      BY <2>1, ListedFacts
    <3>2. x.pos # p BY <2>3, <3>1
    <3>3. At(g, x.pos) = At(d, x.pos) BY <1>4, <1>6, <1>12, <3>1, <3>2
    <3> QED BY <3>1, <3>3 DEF Listed, Plain
  <2>4. Named(e) => Placed(p, e) \in Listed(g, H)
    BY <1>6, <2>1 DEF Listed, Plain
  <2> QED BY <2>2, <2>3, <2>4
<1> QED BY <1>4, <1>5, <1>7, <1>11, <1>13, <1>14

-----------------------------------------------------------------------------
(* Files and directories on a disk *)

\* A sound file or directory, and some of them with no cluster in common.
Obj(d, x) ==
  /\ x.ft \in {"dir", "file"} /\ x.clu \in Cluster \cup {Unused}
  /\ SoundChain(d, x.clu) /\ SoundSize(d, x)
  /\ x.ft = "dir" => SoundSlots(d, Chain(d, x.clu))
Apart(d, O) == \A x, y \in O : x # y => Held(d, x.clu) \cap Held(d, y.clu) = {}
Base(d, O) == d \in Tame /\ (\A x \in O : Obj(d, x)) /\ Apart(d, O)

\* The first clusters of the directories.
DirsOf(O) == {x.clu : x \in {y \in O : y.ft = "dir"}}

\* A directory of them.
LEMMA DirFacts ==
  ASSUME NEW d, NEW O, Base(d, O), NEW c \in DirsOf(O)
  PROVE  /\ d \in Disk /\ c \in Cluster /\ SoundChain(d, c) /\ SoundSlots(d, Chain(d, c))
         /\ c \in Held(d, c) /\ Held(d, c) \subseteq Cluster
         /\ Entries(d, c) = Listed(d, Held(d, c))
         /\ \E x \in O : x.ft = "dir" /\ x.clu = c
         /\ \A y \in DirsOf(O) : y # c => Held(d, y) \cap Held(d, c) = {}
<1>1. PICK x \in O : x.ft = "dir" /\ x.clu = c
  BY DEF DirsOf
<1>2. d \in Disk /\ Obj(d, x)
  BY DEF Base, Tame
<1>3. c \in Cluster /\ SoundChain(d, c) /\ SoundSlots(d, Chain(d, c))
  BY <1>1, <1>2 DEF Obj, SoundSize
<1>4. c \in Held(d, c) /\ Held(d, c) \subseteq Cluster
  BY <1>2, <1>3, HeldFacts
<1>5. Entries(d, c) = Listed(d, Held(d, c))
  BY <1>2, <1>3, EntriesAre
<1>6. ASSUME NEW y \in DirsOf(O), y # c PROVE Held(d, y) \cap Held(d, c) = {}
  <2>1. PICK z \in O : z.ft = "dir" /\ z.clu = y BY DEF DirsOf
  <2>2. z # x BY <1>1, <1>6, <2>1
  <2> QED BY <1>1, <2>1, <2>2 DEF Base, Apart
<1> QED BY <1>1, <1>2, <1>3, <1>4, <1>5, <1>6

\* An object of them.
LEMMA ObjFacts ==
  ASSUME NEW d, NEW O, Base(d, O), NEW x \in O
  PROVE  /\ d \in Disk /\ d \in Tame /\ x.ft \in {"dir", "file"} /\ x.clu \in Cluster \cup {Unused}
         /\ SoundChain(d, x.clu) /\ SoundSize(d, x) /\ Obj(d, x)
         /\ Held(d, x.clu) \subseteq Cluster
         /\ \A c \in Held(d, x.clu) : d.fat[c] # Unused
         /\ \A y \in O : y # x => Held(d, x.clu) \cap Held(d, y.clu) = {}
         /\ x.ft = "dir" => x.clu \in DirsOf(O)
<1>1. d \in Disk /\ d \in Tame /\ Obj(d, x)
  BY DEF Base, Tame
<1>2. SoundChain(d, x.clu) /\ SoundSize(d, x) /\ x.ft \in {"dir", "file"}
      /\ x.clu \in Cluster \cup {Unused}
  BY <1>1 DEF Obj
<1>3. Held(d, x.clu) \subseteq Cluster /\ \A c \in Held(d, x.clu) : d.fat[c] # Unused
  BY <1>1, <1>2, HeldFacts
<1>4. \A y \in O : y # x => Held(d, x.clu) \cap Held(d, y.clu) = {}
  BY DEF Base, Apart
<1>5. x.ft = "dir" => x.clu \in DirsOf(O)
  BY DEF DirsOf
<1> QED BY <1>1, <1>2, <1>3, <1>4, <1>5

\* Fewer, the same under another name, and one more.
LEMMA BaseSub ==
  ASSUME NEW d, NEW O, Base(d, O), NEW B \in SUBSET O
  PROVE  Base(d, B) /\ DirsOf(B) \subseteq DirsOf(O)
BY DEF Base, Apart, DirsOf

\* One object more.
LEMMA BaseAdd ==
  ASSUME NEW d, NEW O, Base(d, O), NEW y, Obj(d, y),
         \A x \in O : Held(d, x.clu) \cap Held(d, y.clu) = {}
  PROVE  /\ Base(d, O \cup {y})
         /\ y.ft = "dir" => DirsOf(O \cup {y}) = DirsOf(O) \cup {y.clu}
         /\ y.ft # "dir" => DirsOf(O \cup {y}) = DirsOf(O)
<1>1. \A x \in O \cup {y} : Obj(d, x)
  BY DEF Base
<1>2. Apart(d, O \cup {y})
  BY DEF Base, Apart
<1>3. Base(d, O \cup {y})
  BY <1>1, <1>2 DEF Base
<1>4. y.ft = "dir" => DirsOf(O \cup {y}) = DirsOf(O) \cup {y.clu}
  BY DEF DirsOf
<1>5. y.ft # "dir" => DirsOf(O \cup {y}) = DirsOf(O)
  BY DEF DirsOf
<1> QED BY <1>3, <1>4, <1>5

\* An object under another name or at another place.
LEMMA BaseSwap ==
  ASSUME NEW d, NEW O, Base(d, O), NEW x \in O,
         NEW y, y.ft = x.ft, y.clu = x.clu, y.size = x.size
  PROVE  /\ Base(d, (O \ {x}) \cup {y})
         /\ DirsOf((O \ {x}) \cup {y}) = DirsOf(O)
<1>1. Obj(d, y)
  BY DEF Base, Obj, SoundSize
<1>2. Base(d, O \ {x})
  BY BaseSub
<1>3. \A z \in O \ {x} : Held(d, z.clu) \cap Held(d, y.clu) = {}
  BY DEF Base, Apart
<1>4. Base(d, (O \ {x}) \cup {y})
  BY <1>1, <1>2, <1>3, BaseAdd
<1>5. DirsOf((O \ {x}) \cup {y}) = DirsOf(O)
  BY DEF DirsOf
<1> QED BY <1>4, <1>5

\* The directories without one of the objects.
LEMMA DirsLess ==
  ASSUME NEW d, NEW O, Base(d, O), NEW x \in O
  PROVE  /\ x.ft = "dir" => DirsOf(O \ {x}) = DirsOf(O) \ {x.clu}
         /\ x.ft # "dir" => DirsOf(O \ {x}) = DirsOf(O)
<1>1. DirsOf(O \ {x}) \subseteq DirsOf(O)
  BY DEF DirsOf
<1>2. x.ft # "dir" => DirsOf(O) \subseteq DirsOf(O \ {x})
  BY DEF DirsOf
<1>3. x.ft = "dir" => DirsOf(O) \ {x.clu} \subseteq DirsOf(O \ {x})
  BY DEF DirsOf
<1>4. ASSUME x.ft = "dir", x.clu \in DirsOf(O \ {x}) PROVE FALSE
  <2>1. PICK y \in O \ {x} : y.ft = "dir" /\ y.clu = x.clu BY <1>4 DEF DirsOf
  <2>2. x.clu \in DirsOf(O) BY <1>4, ObjFacts
  <2>3. x.clu \in Held(d, x.clu) BY <2>2, DirFacts
  <2> QED BY <2>1, <2>3, ObjFacts
<1> QED BY <1>1, <1>2, <1>3, <1>4

\* The disk changes where they have nothing.
Spares(d, d2, O) ==
  /\ \A x \in O : \A c \in Held(d, x.clu) : d2.fat[c] = d.fat[c]
  /\ \A x \in DirsOf(O) : \A c \in Held(d, x) : d2.blk[c] = d.blk[c]

\* A change elsewhere leaves the objects and their entries.
LEMMA BaseSpare ==
  ASSUME NEW d, NEW O, Base(d, O), NEW d2 \in Tame, Spares(d, d2, O)
  PROVE  /\ Base(d2, O)
         /\ \A x \in O : Chain(d2, x.clu) = Chain(d, x.clu) /\ Held(d2, x.clu) = Held(d, x.clu)
         /\ \A c \in DirsOf(O) : Entries(d2, c) = Entries(d, c)
         /\ \A c \in DirsOf(O) : \A p : Open(d, c, p) => Open(d2, c, p)
         /\ \A c \in DirsOf(O) : \A p, n : Only(d, c, p, n) => Only(d2, c, p, n)
         /\ \A c \in DirsOf(O) : Held(d2, c) = Held(d, c)
                                 /\ \A p \in Places(Held(d, c)) : At(d2, p) = At(d, p)
<1>1. d \in Disk /\ d2 \in Disk
  BY DEF Base, Tame
<1>2. ASSUME NEW x \in O
      PROVE  /\ Chain(d2, x.clu) = Chain(d, x.clu) /\ Held(d2, x.clu) = Held(d, x.clu)
             /\ SoundChain(d2, x.clu)
  <2>1. SoundChain(d, x.clu) BY ObjFacts
  <2>2. \A c \in Held(d, x.clu) : d2.fat[c] = d.fat[c] BY DEF Spares
  <2>3. Chain(d2, x.clu) = Chain(d, x.clu) /\ SoundChain(d2, x.clu)
    BY <1>1, <2>1, <2>2, ChainSpared
  <2> QED BY <2>3 DEF Held
<1>3. ASSUME NEW c \in DirsOf(O)
      PROVE  /\ SoundSlots(d2, Chain(d2, c))
             /\ Entries(d2, c) = Entries(d, c)
             /\ \A p : Open(d, c, p) => Open(d2, c, p)
             /\ \A p \in Places(Held(d, c)) : At(d2, p) = At(d, p)
             /\ \A p, n : Only(d, c, p, n) => Only(d2, c, p, n)
             /\ Held(d2, c) = Held(d, c)
  <2>1. PICK x \in O : x.clu = c BY DirFacts
  <2>2. SoundChain(d, c) /\ SoundSlots(d, Chain(d, c)) BY DirFacts
  <2>3. \A y \in Held(d, c) : d2.fat[y] = d.fat[y] /\ d2.blk[y] = d.blk[y]
    BY <2>1 DEF Spares
  <2> QED BY <1>1, <2>2, <2>3, SparedDir
<1>4. ASSUME NEW x \in O PROVE Obj(d2, x)
  <2>1. Obj(d, x) BY ObjFacts
  <2>2. SoundSize(d2, x) BY <1>2, <2>1 DEF Obj, SoundSize
  <2>3. x.ft = "dir" => SoundSlots(d2, Chain(d2, x.clu)) BY <1>3, ObjFacts
  <2> QED BY <1>2, <2>1, <2>2, <2>3 DEF Obj
<1>5. Apart(d2, O)
  BY <1>2 DEF Base, Apart
<1>6. Base(d2, O)
  BY <1>4, <1>5 DEF Base
<1> QED BY <1>2, <1>3, <1>6

\* An entry is written into one of the directories.
LEMMA BasePut ==
  ASSUME NEW d, NEW O, Base(d, O), NEW c \in DirsOf(O), NEW p, Open(d, c, p),
         NEW e \in EntryType, e.ft # "end", InUse(e) => Only(d, c, p, e.name)
  PROVE  /\ Base(Put(d, p, e), O) /\ p \in Places(Held(d, c)) /\ p \in Places(Cluster)
         /\ \A x \in O : /\ Chain(Put(d, p, e), x.clu) = Chain(d, x.clu)
                         /\ Held(Put(d, p, e), x.clu) = Held(d, x.clu)
         /\ \A c2 \in DirsOf(O) :
              Entries(Put(d, p, e), c2) =
                (Entries(d, c2) \ {Placed(p, At(d, p))})
                  \cup (IF c2 = c /\ Named(e) THEN {Placed(p, e)} ELSE {})
         /\ \A c2 \in DirsOf(O) : \A q : Open(d, c2, q) => Open(Put(d, p, e), c2, q)
<1>1. PICK g : g = Put(d, p, e)
  OBVIOUS
<1>2. /\ d \in Disk /\ d \in Tame /\ c \in Cluster /\ SoundChain(d, c)
      /\ SoundSlots(d, Chain(d, c)) /\ Held(d, c) \subseteq Cluster
  BY DirFacts DEF Base
<1>3. /\ p \in Places(Held(d, c)) /\ p \in Places(Cluster)
      /\ SoundSlots(g, Chain(g, c))
      /\ Entries(g, c) = (Entries(d, c) \ {Placed(p, At(d, p))})
                           \cup (IF Named(e) THEN {Placed(p, e)} ELSE {})
  BY <1>1, <1>2, PutSound
<1>4. /\ g \in Disk /\ g \in Tame /\ g.fat = d.fat
      /\ \A x \in Cluster : x # p[1] => g.blk[x] = d.blk[x]
  BY <1>1, <1>2, <1>3, PutFacts
<1>5. p[1] \in Held(d, c)
  BY <1>3 DEF Places
<1>6. ASSUME NEW x \in O
      PROVE  Chain(g, x.clu) = Chain(d, x.clu) /\ Held(g, x.clu) = Held(d, x.clu)
             /\ SoundChain(g, x.clu)
  <2>1. SoundChain(d, x.clu) BY ObjFacts
  <2> QED BY <1>1, <1>2, <1>3, <2>1, PutOpen
<1>7. ASSUME NEW c2 \in DirsOf(O), c2 # c
      PROVE  SoundSlots(g, Chain(g, c2)) /\ Entries(g, c2) = Entries(d, c2)
             /\ Placed(p, At(d, p)) \notin Entries(d, c2)
  <2>1. /\ SoundChain(d, c2) /\ SoundSlots(d, Chain(d, c2)) /\ Held(d, c2) \subseteq Cluster
        /\ Entries(d, c2) = Listed(d, Held(d, c2))
    BY DirFacts
  <2>2. Held(d, c2) \cap Held(d, c) = {}
    BY <1>7, DirFacts
  <2>3. \A x \in Held(d, c2) : g.fat[x] = d.fat[x] /\ g.blk[x] = d.blk[x]
    BY <1>4, <1>5, <2>1, <2>2
  <2>4. SoundSlots(g, Chain(g, c2)) /\ Entries(g, c2) = Entries(d, c2)
    BY <1>2, <1>4, <2>1, <2>3, SparedDir
  <2>5. Placed(p, At(d, p)) \notin Entries(d, c2)
    <3> SUFFICES ASSUME Placed(p, At(d, p)) \in Listed(d, Held(d, c2)) PROVE FALSE
      BY <2>1
    <3>1. Placed(p, At(d, p)).pos[1] \in Held(d, c2) BY <1>2, <2>1, ListedFacts
    <3>2. Placed(p, At(d, p)).pos = p BY PlacedFacts
    <3> QED BY <1>5, <2>2, <3>1, <3>2
  <2> QED BY <2>4, <2>5
<1>8. ASSUME NEW x \in O PROVE Obj(g, x)
  <2>1. Obj(d, x) BY ObjFacts
  <2>2. SoundSize(g, x) BY <1>6, <2>1 DEF Obj, SoundSize
  <2>3. x.ft = "dir" => SoundSlots(g, Chain(g, x.clu)) BY <1>3, <1>7, ObjFacts
  <2> QED BY <1>6, <2>1, <2>2, <2>3 DEF Obj
<1>9. Base(g, O)
  <2>1. Apart(g, O) BY <1>6 DEF Base, Apart
  <2> QED BY <1>4, <1>8, <2>1 DEF Base
<1>10. ASSUME NEW c2 \in DirsOf(O)
       PROVE  Entries(g, c2) = (Entries(d, c2) \ {Placed(p, At(d, p))})
                                 \cup (IF c2 = c /\ Named(e) THEN {Placed(p, e)} ELSE {})
  <2>1. CASE c2 = c
    BY <1>3, <2>1
  <2>2. CASE c2 # c
    BY <1>7, <2>2
  <2> QED BY <2>1, <2>2
<1>11. ASSUME NEW c2 \in DirsOf(O), NEW q, Open(d, c2, q) PROVE Open(g, c2, q)
  <2>1. SoundChain(d, c2) BY DirFacts
  <2> QED BY <1>1, <1>2, <1>3, <1>11, <2>1, PutOpen
<1> QED BY <1>1, <1>3, <1>6, <1>9, <1>10, <1>11

\* The objects make a tree, or would but for moves: the entries of the
\* directories are the objects, and subdirectories have their dot entries.
Hangs(d, O, mvd) ==
  /\ RootEntry \in O
  /\ \A c \in DirsOf(O) : Entries(d, c) \subseteq O
  /\ \A x \in O \ {RootEntry} : \E c \in DirsOf(O) : x \in Entries(d, c)
  /\ \A c \in DirsOf(O) : \A x \in Entries(d, c) : x.ft = "dir" => SoundDots(d, x, c, mvd)
Good(d, O, mvd) == Base(d, O) /\ Hangs(d, O, mvd)

\* Entries go and come: out, and in in the directory t.
Changed(d, O, d2, B, out, in, t, mvd2) ==
  /\ B = (O \ out) \cup in /\ RootEntry \notin out
  /\ t \in DirsOf(O) /\ t \in DirsOf(B)
  /\ \A c \in DirsOf(O) \cap DirsOf(B) :
       Entries(d2, c) = (Entries(d, c) \ out) \cup (IF c = t THEN in ELSE {})
  /\ \A c \in DirsOf(O) \ DirsOf(B) : Entries(d, c) = {}
  /\ \A c \in DirsOf(B) \ DirsOf(O) : Entries(d2, c) = {}
  /\ \A c \in DirsOf(O) \cap DirsOf(B) : \A x \in Entries(d, c) \ out :
       x.ft = "dir" => SoundDots(d2, x, c, mvd2)
  /\ \A x \in in : x.ft = "dir" => SoundDots(d2, x, t, mvd2)

\* A change of the objects and of the entries of one directory keeps them together.
LEMMA HangsChange ==
  ASSUME NEW d, NEW O, NEW mvd, Hangs(d, O, mvd), NEW out, NEW in, NEW t,
         NEW B, NEW d2, NEW mvd2, Changed(d, O, d2, B, out, in, t, mvd2)
  PROVE  Hangs(d2, B, mvd2)
<1>0. /\ B = (O \ out) \cup in /\ RootEntry \notin out
      /\ t \in DirsOf(O) /\ t \in DirsOf(B)
      /\ \A c \in DirsOf(O) \cap DirsOf(B) :
           Entries(d2, c) = (Entries(d, c) \ out) \cup (IF c = t THEN in ELSE {})
      /\ \A c \in DirsOf(O) \ DirsOf(B) : Entries(d, c) = {}
      /\ \A c \in DirsOf(B) \ DirsOf(O) : Entries(d2, c) = {}
      /\ \A c \in DirsOf(O) \cap DirsOf(B) : \A x \in Entries(d, c) \ out :
           x.ft = "dir" => SoundDots(d2, x, c, mvd2)
      /\ \A x \in in : x.ft = "dir" => SoundDots(d2, x, t, mvd2)
  BY DEF Changed
<1>1. RootEntry \in B
  BY <1>0 DEF Hangs
<1>2. ASSUME NEW c \in DirsOf(B)
      PROVE  /\ Entries(d2, c) \subseteq B
             /\ \A x \in Entries(d2, c) : x.ft = "dir" => SoundDots(d2, x, c, mvd2)
  <2>1. CASE c \in DirsOf(O)
    <3>1. Entries(d, c) \subseteq O BY <2>1 DEF Hangs
    <3> QED BY <1>0, <2>1, <3>1
  <2>2. CASE c \notin DirsOf(O)
    BY <1>0, <2>2
  <2> QED BY <2>1, <2>2
<1>3. ASSUME NEW x \in B \ {RootEntry} PROVE \E c \in DirsOf(B) : x \in Entries(d2, c)
  <2>1. CASE x \in in
    BY <1>0, <2>1
  <2>2. CASE x \notin in
    <3>1. x \in O \ {RootEntry} /\ x \notin out BY <1>0, <2>2
    <3>2. PICK c \in DirsOf(O) : x \in Entries(d, c) BY <3>1 DEF Hangs
    <3>3. c \in DirsOf(B) BY <1>0, <3>2
    <3> QED BY <1>0, <3>1, <3>2, <3>3
  <2> QED BY <2>1, <2>2
<1> QED BY <1>1, <1>2, <1>3 DEF Hangs

\* The dot entries of a directory.
LEMMA DotsAt ==
  ASSUME NEW d, NEW x, NEW c, NEW mvd
  PROVE  SoundDots(d, x, c, mvd) <=> /\ At(d, <<x.clu, 1>>) = Dot(x.clu)
                                     /\ mvd \/ At(d, <<x.clu, 2>>) = DotDot(c)
BY DEF SoundDots, At

\* They stay when other directories or entries are written.
LEMMA DotsSpared ==
  ASSUME NEW d, NEW d2, NEW x, NEW c, NEW mvd, NEW mvd2, mvd => mvd2,
         SoundDots(d, x, c, mvd),
         \A k \in {1, 2} : InUse(At(d, <<x.clu, k>>)) /\ At(d, <<x.clu, k>>).name \in Dots
                              => At(d2, <<x.clu, k>>) = At(d, <<x.clu, k>>)
  PROVE  SoundDots(d2, x, c, mvd2)
<1>1. \A y : InUse(Dot(y)) /\ Dot(y).name \in Dots /\ InUse(DotDot(y)) /\ DotDot(y).name \in Dots
  BY DEF Dot, DotDot, InUse, Entry, Dots
<1>2. At(d, <<x.clu, 1>>) = Dot(x.clu) /\ (mvd \/ At(d, <<x.clu, 2>>) = DotDot(c))
  BY DotsAt
<1>3. At(d2, <<x.clu, 1>>) = Dot(x.clu)
  BY <1>1, <1>2
<1>4. ~mvd2 => At(d2, <<x.clu, 2>>) = DotDot(c)
  BY <1>1, <1>2
<1> QED BY <1>3, <1>4, DotsAt

\* The tree stays as it is while its directories do.
LEMMA HangsSpare ==
  ASSUME NEW d, NEW O, NEW mvd, Base(d, O), Hangs(d, O, mvd), NEW d2,
         \A c \in DirsOf(O) : /\ Entries(d2, c) = Entries(d, c)
                              /\ \A p \in Places(Held(d, c)) : At(d2, p) = At(d, p)
  PROVE  Hangs(d2, O, mvd)
<1>1. ASSUME NEW c \in DirsOf(O), NEW x \in Entries(d, c), x.ft = "dir"
      PROVE  SoundDots(d2, x, c, mvd)
  <2>1. SoundDots(d, x, c, mvd) /\ x \in O BY <1>1 DEF Hangs
  <2>2. x.clu \in DirsOf(O) BY <1>1, <2>1 DEF DirsOf
  <2>3. x.clu \in Held(d, x.clu) BY <2>2, DirFacts
  <2>4. \A k \in {1, 2} : <<x.clu, k>> \in Places(Held(d, x.clu))
    <3>1. {1, 2} \subseteq 1 .. SLOTS BY Consts
    <3> QED BY <2>3, <3>1 DEF Places
  <2>5. \A k \in {1, 2} : At(d2, <<x.clu, k>>) = At(d, <<x.clu, k>>) BY <2>2, <2>4
  <2> QED BY <2>1, <2>5, DotsSpared
<1>2. \A c \in DirsOf(O) : Entries(d2, c) \subseteq O
  BY DEF Hangs
<1>3. \A x \in O \ {RootEntry} : \E c \in DirsOf(O) : x \in Entries(d2, c)
  BY DEF Hangs
<1>4. RootEntry \in O
  BY DEF Hangs
<1>5. \A c \in DirsOf(O) : \A x \in Entries(d2, c) : x.ft = "dir" => SoundDots(d2, x, c, mvd)
  BY <1>1
<1> QED BY ONLY <1>2, <1>3, <1>4, <1>5 DEF Hangs

\* A change that spares everything.
LEMMA GoodSpare ==
  ASSUME NEW d, NEW O, NEW mvd, Good(d, O, mvd), NEW d2 \in Tame, Spares(d, d2, O)
  PROVE  Good(d2, O, mvd)
<1>1. Base(d, O) /\ Hangs(d, O, mvd)
  BY DEF Good
<1>2. Base(d2, O)
  BY <1>1, BaseSpare
<1>3. \A c \in DirsOf(O) : /\ Entries(d2, c) = Entries(d, c)
                           /\ \A p \in Places(Held(d, c)) : At(d2, p) = At(d, p)
  BY <1>1, BaseSpare
<1>4. Hangs(d2, O, mvd)
  BY <1>1, <1>3, HangsSpare
<1> QED BY <1>2, <1>4 DEF Good

\* No file or directory has a free cluster.
LEMMA FreeSpared ==
  ASSUME NEW d, NEW O, Base(d, O), NEW d2,
         \A c \in Cluster : d.fat[c] # Unused => d2.fat[c] = d.fat[c] /\ d2.blk[c] = d.blk[c]
  PROVE  Spares(d, d2, O)
<1>1. ASSUME NEW x \in O, NEW c \in Held(d, x.clu)
      PROVE  c \in Cluster /\ d.fat[c] # Unused
  BY ObjFacts
<1>2. ASSUME NEW y \in DirsOf(O), NEW c \in Held(d, y) PROVE c \in Cluster /\ d.fat[c] # Unused
  <2>1. PICK x \in O : x.clu = y BY DirFacts
  <2> QED BY <1>1, <2>1
<1> QED BY <1>1, <1>2 DEF Spares

-----------------------------------------------------------------------------
(* Running commands *)

\* A run whose disks so far all have their root directory.
Okay(r) ==
  r = Run(r.d, r.log, r.res, r.val) /\ r.d \in Tame /\ r.log \in SUBSET Tame

\* The fields of a running command.
LEMMA RunFacts ==
  ASSUME NEW D, NEW L, NEW a, NEW v
  PROVE  /\ Run(D, L, a, v).d = D /\ Run(D, L, a, v).log = L
         /\ Run(D, L, a, v).res = a /\ Run(D, L, a, v).val = v
BY DEF Run

\* Its steps.
LEMMA Steps ==
  ASSUME NEW r, Okay(r)
  PROVE  /\ r.d \in Tame /\ r.d \in Disk
         /\ \A v : /\ Okay(Gives(r, v)) /\ Gives(r, v).d = r.d /\ Gives(r, v).log = r.log
                   /\ Gives(r, v).res = r.res /\ Gives(r, v).val = v
         /\ \A e : /\ Okay(Refuses(r, e)) /\ Refuses(r, e).d = r.d /\ Refuses(r, e).log = r.log
                   /\ Refuses(r, e).res = e /\ Refuses(r, e).val = r.val
         /\ \A g \in Tame : /\ Okay(Puts(r, g)) /\ Puts(r, g).d = g
                            /\ Puts(r, g).res = r.res /\ Puts(r, g).val = r.val
<1>1. r.d \in Tame /\ r.d \in Disk /\ r.log \in SUBSET Tame
  BY DEF Okay, Tame
<1>2. ASSUME NEW v
      PROVE  /\ Okay(Gives(r, v)) /\ Gives(r, v).d = r.d /\ Gives(r, v).log = r.log
             /\ Gives(r, v).res = r.res /\ Gives(r, v).val = v
  BY <1>1, RunFacts DEF Okay, Gives
<1>3. ASSUME NEW e
      PROVE  /\ Okay(Refuses(r, e)) /\ Refuses(r, e).d = r.d /\ Refuses(r, e).log = r.log
             /\ Refuses(r, e).res = e /\ Refuses(r, e).val = r.val
  BY <1>1, RunFacts DEF Okay, Refuses
<1>4. ASSUME NEW g \in Tame
      PROVE  /\ Okay(Puts(r, g)) /\ Puts(r, g).d = g
             /\ Puts(r, g).res = r.res /\ Puts(r, g).val = r.val
  <2>1. r.log \cup {g} \in SUBSET Tame BY <1>1
  <2> QED BY <2>1, RunFacts DEF Okay, Puts
<1> QED BY <1>1, <1>2, <1>3, <1>4

\* A write to the FAT.
LEMMA FatStep ==
  ASSUME NEW r, Okay(r), NEW c \in Cluster, NEW v \in Cluster \cup {Unused, Eoc},
         c = Root => v # Unused
  PROVE  /\ Okay(WriteFat(r, c, v)) /\ WriteFat(r, c, v).res = r.res
         /\ WriteFat(r, c, v).val = r.val
         /\ WriteFat(r, c, v).d.fat[c] = v /\ WriteFat(r, c, v).d.blk = r.d.blk
         /\ \A x \in Cluster : x # c => WriteFat(r, c, v).d.fat[x] = r.d.fat[x]
<1>1. PICK g : g = PutFat(r.d, c, v)
  OBVIOUS
<1>2. r.d \in Tame /\ r.d \in Disk
  BY Steps
<1>3. /\ g \in Tame /\ g.fat[c] = v /\ g.blk = r.d.blk
      /\ \A x \in Cluster : x # c => g.fat[x] = r.d.fat[x]
  BY <1>1, <1>2, SetFat
<1>4. WriteFat(r, c, v) = Puts(r, g)
  BY <1>1 DEF WriteFat, PutFat
<1> QED BY <1>3, <1>4, Steps

\* A write of a block.
LEMMA BlockStep ==
  ASSUME NEW r, Okay(r), NEW c \in Cluster, NEW b \in BlockType
  PROVE  /\ Okay(WriteBlock(r, c, b)) /\ WriteBlock(r, c, b).res = r.res
         /\ WriteBlock(r, c, b).val = r.val
         /\ WriteBlock(r, c, b).d.blk[c] = b /\ WriteBlock(r, c, b).d.fat = r.d.fat
         /\ \A x \in Cluster : x # c => WriteBlock(r, c, b).d.blk[x] = r.d.blk[x]
<1>1. PICK g : g = PutBlk(r.d, c, b)
  OBVIOUS
<1>2. r.d \in Tame /\ r.d \in Disk
  BY Steps
<1>3. /\ g \in Tame /\ g.blk[c] = b /\ g.fat = r.d.fat
      /\ \A x \in Cluster : x # c => g.blk[x] = r.d.blk[x]
  BY <1>1, <1>2, SetBlk
<1>4. WriteBlock(r, c, b) = Puts(r, g)
  BY <1>1 DEF WriteBlock, PutBlk
<1> QED BY <1>3, <1>4, Steps

\* A write of an entry.
LEMMA EntryStep ==
  ASSUME NEW r, Okay(r), NEW p \in Places(Cluster), NEW e \in EntryType
  PROVE  /\ Okay(WriteEntry(r, p, e)) /\ WriteEntry(r, p, e).res = r.res
         /\ WriteEntry(r, p, e).val = r.val
         /\ WriteEntry(r, p, e).d = Put(r.d, p, e)
<1>1. PICK g : g = Put(r.d, p, e)
  OBVIOUS
<1>2. r.d \in Tame /\ r.d \in Disk
  BY Steps
<1>3. g \in Tame
  BY <1>1, <1>2, PutFacts
<1>4. WriteEntry(r, p, e) = Puts(r, g)
  BY <1>1 DEF WriteEntry, Put
<1> QED BY <1>1, <1>3, <1>4, Steps

\* What was in use is as it was.
Keeps(d, d2) ==
  \A c \in Cluster : d.fat[c] # Unused => d2.fat[c] = d.fat[c] /\ d2.blk[c] = d.blk[c]

\* A cluster is taken from the free ones.
Takes(d, d2, n) ==
  /\ n \in Cluster /\ d.fat[n] = Unused /\ d2.fat[n] = Eoc
  /\ \A c \in Cluster : c # n => d2.fat[c] = d.fat[c] /\ d2.blk[c] = d.blk[c]

\* alloc_cluster fails and changes nothing, or takes a free cluster.
LEMMA AllocFacts ==
  ASSUME NEW r, Okay(r)
  PROVE  /\ Okay(AllocCluster(r))
         /\ \/ /\ AllocCluster(r).res = "NoSpace" /\ AllocCluster(r).d = r.d
               /\ AllocCluster(r).val = r.val
            \/ /\ AllocCluster(r).res = r.res
               /\ Takes(r.d, AllocCluster(r).d, AllocCluster(r).val)
<1>1. PICK F : F = {c \in Cluster : r.d.fat[c] = Unused}
  OBVIOUS
<1>2. CASE F = {}
  <2>1. AllocCluster(r) = Refuses(r, "NoSpace") BY <1>1, <1>2 DEF AllocCluster
  <2> QED BY <2>1, Steps
<1>3. CASE F # {}
  <2>1. \E m \in F : \A n \in F : m <= n
    <3>1. F \in SUBSET Nat BY <1>1, Clusters
    <3> QED BY <1>3, <3>1, LeastOf
  <2>2. PICK c : c = Min(F) OBVIOUS
  <2>3. c \in F
    BY <2>1, <2>2 DEF Min
  <2>4. c \in Cluster /\ r.d.fat[c] = Unused BY <1>1, <2>3
  <2>5. PICK g : g = [r.d EXCEPT !.fat[c] = Eoc, !.blk[c] = StaleBlock] OBVIOUS
  <2>6. AllocCluster(r) = Gives(Puts(r, g), c)
    BY <1>1, <1>3, <2>2, <2>5 DEF AllocCluster
  <2>7. PICK d1 : d1 = PutFat(r.d, c, Eoc) OBVIOUS
  <2>8. g = PutBlk(d1, c, StaleBlock)
    <3>1. PICK A, B : A = r.d.fat /\ B = r.d.blk OBVIOUS
    <3>2. r.d = [fat |-> A, blk |-> B]
      <4>1. r.d \in Disk BY Steps
      <4> QED BY <3>1, <4>1, DiskTypes
    <3>3. PICK e : e = r.d OBVIOUS
    <3>4. e = [fat |-> A, blk |-> B] BY <3>2, <3>3
    <3>5. g = [e EXCEPT !.fat[c] = Eoc, !.blk[c] = StaleBlock] BY <2>5, <3>3
    <3>6. PICK A2, B2 : A2 = [A EXCEPT ![c] = Eoc] /\ B2 = [B EXCEPT ![c] = StaleBlock]
      OBVIOUS
    <3>7. g = [fat |-> A2, blk |-> B2] BY ONLY <3>4, <3>5, <3>6
    <3>8. d1 = [fat |-> A2, blk |-> B] BY <2>7, <3>3, <3>4, <3>6 DEF PutFat
    <3>9. PutBlk(d1, c, StaleBlock) = [fat |-> A2, blk |-> B2] BY <3>6, <3>8 DEF PutBlk
    <3> QED BY <3>7, <3>9
  <2>9. r.d \in Tame /\ r.d \in Disk /\ Eoc # Unused
    BY Steps DEF Eoc, Unused
  <2>10. /\ d1 \in Tame /\ d1.fat[c] = Eoc /\ d1.blk = r.d.blk
         /\ \A x \in Cluster : x # c => d1.fat[x] = r.d.fat[x]
    BY <2>4, <2>7, <2>9, SetFat
  <2>11. /\ g \in Tame /\ g.fat = d1.fat
         /\ \A x \in Cluster : x # c => g.blk[x] = d1.blk[x]
    <3>1. StaleBlock \in BlockType BY BlockTypes
    <3> QED BY <2>4, <2>8, <2>10, <3>1, SetBlk
  <2>12. Takes(r.d, g, c)
    BY <2>4, <2>10, <2>11 DEF Takes
  <2>13. Okay(Puts(r, g)) /\ Puts(r, g).d = g /\ Puts(r, g).res = r.res
    BY <2>11, Steps
  <2>14. /\ Okay(Gives(Puts(r, g), c)) /\ Gives(Puts(r, g), c).d = g
         /\ Gives(Puts(r, g), c).res = r.res /\ Gives(Puts(r, g), c).val = c
    BY <2>13, Steps
  <2> QED BY <2>6, <2>12, <2>14
<1> QED BY <1>2, <1>3

\* What was in use stays as it was.
LEMMA TakesKeeps ==
  ASSUME NEW d, NEW d2, NEW n, Takes(d, d2, n)
  PROVE  Keeps(d, d2)
BY DEF Takes, Keeps

\* All clusters of a chain are freed.
LEMMA FreeFacts ==
  ASSUME NEW r, Okay(r), NEW c, Root \notin Held(r.d, c)
  PROVE  /\ Okay(FreeChain(r, c)) /\ FreeChain(r, c).res = r.res /\ FreeChain(r, c).val = r.val
         /\ FreeChain(r, c).d.blk = r.d.blk
         /\ \A x \in Held(r.d, c) : FreeChain(r, c).d.fat[x] = Unused
         /\ \A x \in Cluster \ Held(r.d, c) : FreeChain(r, c).d.fat[x] = r.d.fat[x]
<1> DEFINE ch == Chain(r.d, c)
           N == Len(ch)
           P(n) == {q \in [d : Tame, log : SUBSET Tame, res : {r.res}, val : {r.val}] :
                      /\ q.d.blk = r.d.blk
                      /\ \A x \in Cluster : q.d.fat[x] =
                           IF \E i \in 1 .. n : ch[i] = x THEN Unused ELSE r.d.fat[x]}
<1>1. /\ r.d \in Disk /\ N \in Nat /\ Held(r.d, c) = {ch[i] : i \in 1 .. N}
      /\ \A i \in 1 .. N : ch[i] \in Cluster /\ ch[i] # Root
  <2>1. r.d \in Disk BY Steps
  <2>2. ch \in Seq(Cluster) /\ Held(r.d, c) = {ch[i] : i \in 1 .. Len(ch)}
    BY <2>1, HeldFacts
  <2>3. \A i \in 1 .. Len(ch) : ch[i] \in Cluster BY <2>2
  <2>4. Len(ch) \in Nat BY <2>2
  <2> HIDE DEF ch
  <2> QED BY <2>1, <2>2, <2>3, <2>4
<1>2. \A q : q \in [d : Tame, log : SUBSET Tame, res : {r.res}, val : {r.val}]
                <=> Okay(q) /\ q.res = r.res /\ q.val = r.val
  BY DEF Okay, Run
<1>3. r \in P(0)
  <2>1. \A x \in Cluster : ~ \E i \in 1 .. 0 : ch[i] = x OBVIOUS
  <2>2. r \in [d : Tame, log : SUBSET Tame, res : {r.res}, val : {r.val}] BY <1>2
  <2> HIDE DEF ch
  <2> QED BY <2>1, <2>2
<1>4. \A n \in 1 .. N : \A x \in P(n - 1) : WriteFat(x, ch[n], Unused) \in P(n)
  <2> SUFFICES ASSUME NEW n \in 1 .. N, NEW q \in P(n - 1)
               PROVE  WriteFat(q, ch[n], Unused) \in P(n)
    OBVIOUS
  <2>1. /\ Okay(q) /\ q.res = r.res /\ q.val = r.val /\ q.d.blk = r.d.blk
        /\ \A x \in Cluster : q.d.fat[x] =
             IF \E i \in 1 .. n - 1 : ch[i] = x THEN Unused ELSE r.d.fat[x]
    BY <1>2
  <2> HIDE DEF P
  <2>2. PICK k : k = ch[n] OBVIOUS
  <2>3. k \in Cluster /\ k # Root BY <1>1, <2>2
  <2>4. PICK w : w = WriteFat(q, k, Unused) OBVIOUS
  <2>5. /\ Okay(w) /\ w.res = r.res /\ w.val = r.val /\ w.d.blk = r.d.blk
        /\ w.d.fat[k] = Unused
        /\ \A x \in Cluster : x # k => w.d.fat[x] = q.d.fat[x]
    BY <2>1, <2>3, <2>4, FatStep
  <2>6. \A x \in Cluster : w.d.fat[x] =
          IF \E i \in 1 .. n : ch[i] = x THEN Unused ELSE r.d.fat[x]
    <3> HIDE DEF ch, N
    <3> SUFFICES ASSUME NEW x \in Cluster
                 PROVE  w.d.fat[x] = IF \E i \in 1 .. n : ch[i] = x THEN Unused ELSE r.d.fat[x]
      OBVIOUS
    <3>1. n \in 1 .. n /\ \A i \in 1 .. n - 1 : i \in 1 .. n BY <1>1
    <3>2. \A i \in 1 .. n : i = n \/ i \in 1 .. n - 1 BY <1>1
    <3>3. CASE x = k
      BY <2>2, <2>5, <3>1, <3>3
    <3>4. CASE x # k
      <4>1. (\E i \in 1 .. n : ch[i] = x) <=> (\E i \in 1 .. n - 1 : ch[i] = x)
        BY <2>2, <3>1, <3>2, <3>4
      <4>2. w.d.fat[x] = q.d.fat[x] BY <2>5, <3>4
      <4> QED BY <2>1, <4>1, <4>2
    <3> QED BY <3>3, <3>4
  <2>7. w \in [d : Tame, log : SUBSET Tame, res : {r.res}, val : {r.val}]
    BY <1>2, <2>5
  <2>8. w \in P(n)
    BY <2>5, <2>6, <2>7 DEF P
  <2> QED BY <2>2, <2>4, <2>8
<1>5. \A q \in P(N) : /\ Okay(q) /\ q.res = r.res /\ q.val = r.val /\ q.d.blk = r.d.blk
                      /\ \A x \in Cluster : q.d.fat[x] =
                           IF \E i \in 1 .. N : ch[i] = x THEN Unused ELSE r.d.fat[x]
  BY <1>2
<1>6. N \in Nat /\ N \in 0 .. N
  BY <1>1
<1> DEFINE Q == [n \in 0 .. N |-> P(n)]
           step == [n \in 1 .. N |-> [x \in P(n - 1) |-> WriteFat(x, ch[n], Unused)]]
           Is(h) == h = [k \in 0 .. N |-> IF k = 0 THEN r ELSE WriteFat(h[k - 1], ch[k], Unused)]
           it == CHOOSE h : Is(h)
<1>7. \A n \in 0 .. N : Q[n] = P(n)
  <2> HIDE DEF P
  <2> QED OBVIOUS
<1>8. \A n \in 1 .. N : \A x \in Q[n - 1] :
        step[n][x] = WriteFat(x, ch[n], Unused) /\ step[n][x] \in Q[n]
  <2> SUFFICES ASSUME NEW n \in 1 .. N, NEW x \in Q[n - 1]
               PROVE  step[n][x] = WriteFat(x, ch[n], Unused) /\ step[n][x] \in Q[n]
    OBVIOUS
  <2>1. n - 1 \in 0 .. N /\ n \in 0 .. N BY <1>6
  <2>2. Q[n - 1] = P(n - 1) /\ Q[n] = P(n)
    BY <1>7, <2>1
  <2> HIDE DEF Q, P
  <2>3. step[n][x] = WriteFat(x, ch[n], Unused) BY <2>2
  <2> HIDE DEF step
  <2> QED BY <1>4, <2>2, <2>3
<1> HIDE DEF Q, step, P, N
<1>9. \E h : IsLoop(h, N, r, step) /\ Within(h, N, Q)
  <2>1. N \in Nat /\ r \in Q[0] /\ Leads(N, Q, step)
    <3>1. 0 \in 0 .. N BY <1>6
    <3> QED BY <1>6, <1>3, <1>7, <1>8, <3>1 DEF Leads
  <2> QED BY ONLY <2>1, LoopWithin
<1>10. PICK h : /\ h = [n \in 0 .. N |-> IF n = 0 THEN r ELSE step[n][h[n - 1]]]
               /\ \A n \in 0 .. N : h[n] \in Q[n]
  BY <1>9 DEF IsLoop, Within
<1>11. Is(h)
  <2>1. \A n \in 0 .. N : n # 0 => n \in 1 .. N /\ n - 1 \in 0 .. N BY <1>6
  <2>2. \A n \in 0 .. N : n # 0 => step[n][h[n - 1]] = WriteFat(h[n - 1], ch[n], Unused)
    BY <1>8, <1>10, <2>1
  <2>3. \A n \in 0 .. N : (IF n = 0 THEN r ELSE step[n][h[n - 1]])
                         = (IF n = 0 THEN r ELSE WriteFat(h[n - 1], ch[n], Unused))
    BY <2>2
  <2>4. [n \in 0 .. N |-> IF n = 0 THEN r ELSE step[n][h[n - 1]]]
          = [n \in 0 .. N |-> IF n = 0 THEN r ELSE WriteFat(h[n - 1], ch[n], Unused)]
    BY ONLY <2>3
  <2>5. h = [n \in 0 .. N |-> IF n = 0 THEN r ELSE WriteFat(h[n - 1], ch[n], Unused)]
    BY <1>10, <2>4
  <2> QED BY <2>5
<1>12. PICK f : f = it
  OBVIOUS
<1>13. Is(f)
  BY <1>11, <1>12
<1> HIDE DEF it
<1>14. f[0] = r /\ \A n \in 1 .. N : f[n] = WriteFat(f[n - 1], ch[n], Unused)
  <2>1. f = [k \in 0 .. N |-> IF k = 0 THEN r ELSE WriteFat(f[k - 1], ch[k], Unused)]
    BY <1>13
  <2>2. 0 \in 0 .. N /\ \A n \in 1 .. N : n \in 0 .. N /\ n # 0 BY <1>6
  <2> HIDE DEF Is
  <2> QED BY <2>1, <2>2
<1>15. \A n \in 0 .. N : f[n] \in P(n)
  <2>1. N \in Nat /\ f[0] \in Q[0]
    <3>1. 0 \in 0 .. N BY <1>6
    <3> QED BY <1>6, <1>3, <1>7, <1>14, <3>1
  <2>2. \A n \in 1 .. N : f[n - 1] \in Q[n - 1] => f[n] \in Q[n]
    BY <1>8, <1>14
  <2>3. \A n \in 0 .. N : f[n] \in Q[n]
    BY ONLY <2>1, <2>2, LoopStays
  <2> QED BY <1>7, <2>3
<1>16. FreeChain(r, c) = f[N]
  BY <1>12 DEF FreeChain, it, N
<1>20. PICK q : q = FreeChain(r, c)
  OBVIOUS
<1>21. /\ Okay(q) /\ q.res = r.res /\ q.val = r.val /\ q.d.blk = r.d.blk
       /\ \A x \in Cluster : q.d.fat[x] =
            IF \E i \in 1 .. N : ch[i] = x THEN Unused ELSE r.d.fat[x]
  <2>1. q \in P(N) BY <1>6, <1>20, <1>15, <1>16
  <2> QED BY <1>5, <2>1
<1> HIDE DEF ch
<1>22. \A x \in Cluster : x \in Held(r.d, c) <=> \E i \in 1 .. N : ch[i] = x
  BY <1>1
<1>23. Held(r.d, c) \subseteq Cluster
  BY <1>1
<1> QED BY <1>20, <1>21, <1>22, <1>23

\* A directory of a disk, and the same with a new cluster at its end.
Grown(d, d2, c, n) ==
  /\ n \in Cluster /\ d.fat[n] = Unused
  /\ d2.fat[n] = Eoc /\ d2.fat[Last(Chain(d, c))] = n
  /\ \A x \in Cluster : x # n /\ x # Last(Chain(d, c)) => d2.fat[x] = d.fat[x]
  /\ d2.blk[n] = ZeroBlock
  /\ \A x \in Cluster : x # n => d2.blk[x] = d.blk[x]

\* Its chain.
LEMMA GrownChain ==
  ASSUME NEW d \in Disk, NEW d2 \in Disk, NEW c \in Cluster, SoundChain(d, c),
         NEW n, Grown(d, d2, c, n), NEW ch, ch = Chain(d, c)
  PROVE  /\ Chain(d2, c) = Append(ch, n) /\ SoundChain(d2, c)
         /\ Append(ch, n) \in Seq(Cluster) /\ Len(Append(ch, n)) = Len(ch) + 1
         /\ Append(ch, n)[Len(ch) + 1] = n
         /\ \A i \in 1 .. Len(ch) : Append(ch, n)[i] = ch[i]
         /\ n \notin Held(d, c) /\ Held(d2, c) = Held(d, c) \cup {n}
         /\ Last(ch) \in Held(d, c)
<1>1. /\ ch \in Seq(Cluster) /\ Len(ch) \in 1 .. ClusterCount /\ ch[1] = c
      /\ Links(d.fat, ch)
  BY ChainFacts
<1>2. Len(ch) \in Nat /\ Len(ch) > 0 /\ 1 \in 1 .. Len(ch) /\ Len(ch) \in 1 .. Len(ch)
      /\ ch # << >> /\ Last(ch) = ch[Len(ch)]
  BY <1>1 DEF Last
<1>3. IsInjective(ch) /\ d.fat[Last(ch)] = Eoc
  BY <1>2 DEF SoundChain
<1>4. Held(d, c) = {ch[i] : i \in 1 .. Len(ch)} /\ \A x \in Held(d, c) : d.fat[x] # Unused
  <2>1. Held(d, c) = {Chain(d, c)[i] : i \in 1 .. Len(Chain(d, c))}
    BY ONLY HeldFacts, d \in Disk
  <2>2. \A x \in Held(d, c) : d.fat[x] # Unused
    BY HeldFacts
  <2> QED BY <2>1, <2>2
<1>5. n \in Cluster /\ n \notin Held(d, c) /\ d2.fat[n] = Eoc
  BY <1>4 DEF Grown
<1>6. PICK t : t = Append(ch, n)
  OBVIOUS
<1>7. /\ t \in Seq(Cluster) /\ Len(t) = Len(ch) + 1 /\ t[Len(ch) + 1] = n
      /\ \A i \in 1 .. Len(ch) : t[i] = ch[i]
  BY ONLY <1>1, <1>5, <1>6
<1>8. \A i \in 1 .. Len(ch) + 1 : i = Len(ch) + 1 \/ i \in 1 .. Len(ch)
  BY <1>2
<1>9. DOMAIN ch = 1 .. Len(ch) /\ DOMAIN t = 1 .. Len(ch) + 1
  BY <1>1, <1>7
<1>10. IsInjective(t)
  <2> SUFFICES ASSUME NEW i \in 1 .. Len(ch) + 1, NEW j \in 1 .. Len(ch) + 1, t[i] = t[j]
               PROVE  i = j
    BY <1>9 DEF IsInjective
  <2>1. CASE i \in 1 .. Len(ch) /\ j \in 1 .. Len(ch)
    <3>1. ch[i] = ch[j] BY <1>7, <2>1
    <3> QED BY <1>3, <1>9, <2>1, <3>1 DEF IsInjective
  <2>2. CASE i \in 1 .. Len(ch) /\ j = Len(ch) + 1
    <3>1. ch[i] = n BY <1>7, <2>2
    <3> QED BY <1>4, <1>5, <2>2, <3>1
  <2>3. CASE j \in 1 .. Len(ch) /\ i = Len(ch) + 1
    <3>1. ch[j] = n BY <1>7, <2>3
    <3> QED BY <1>4, <1>5, <2>3, <3>1
  <2> QED BY <1>8, <2>1, <2>2, <2>3
<1>11. Links(d2.fat, t)
  <2> SUFFICES ASSUME NEW i \in 1 .. Len(ch) PROVE d2.fat[t[i]] = t[i + 1]
    <3>1. (Len(ch) + 1) - 1 = Len(ch) BY <1>2
    <3> QED BY <1>7, <3>1 DEF Links
  <2>1. CASE i = Len(ch)
    <3>1. t[i] = Last(ch) BY <1>2, <1>7, <2>1
    <3>2. d2.fat[Last(ch)] = n BY DEF Grown
    <3> QED BY <1>7, <2>1, <3>1, <3>2
  <2>2. CASE i # Len(ch)
    <3>1. i \in 1 .. Len(ch) - 1 /\ i + 1 \in 1 .. Len(ch) BY <1>2, <2>2
    <3>2. d.fat[ch[i]] = ch[i + 1] /\ t[i] = ch[i] /\ t[i + 1] = ch[i + 1]
      BY <1>1, <1>7, <3>1 DEF Links
    <3>3. ch[i] # Last(ch)
      BY <1>2, <1>3, <1>9, <2>2 DEF IsInjective
    <3>4. ch[i] \in Cluster /\ ch[i] # n BY <1>1, <1>4, <1>5
    <3>5. d2.fat[ch[i]] = d.fat[ch[i]] BY <3>3, <3>4 DEF Grown
    <3> QED BY <3>2, <3>5
  <2> QED BY <2>1, <2>2
<1>12. Chain(d2, c) = t /\ SoundChain(d2, c)
  <2>1. Len(t) > 0 /\ t[1] = c /\ d2.fat[t[Len(t)]] = Eoc BY <1>1, <1>2, <1>5, <1>7
  <2>2. Chain(d2, t[1]) = t /\ SoundChain(d2, t[1])
    BY <1>7, <1>10, <1>11, <2>1, NewChain
  <2> QED BY <2>1, <2>2
<1>13. Held(d2, c) = Held(d, c) \cup {n}
  <2>1. Held(d2, c) = {t[i] : i \in 1 .. Len(t)}
    <3>1. Held(d2, c) = {Chain(d2, c)[i] : i \in 1 .. Len(Chain(d2, c))}
      BY ONLY HeldFacts, d2 \in Disk
    <3> QED BY <1>12, <3>1
  <2>2. \A x \in Held(d2, c) : x \in Held(d, c) \cup {n} BY <1>4, <1>7, <1>8, <2>1
  <2>3. \A x \in Held(d, c) : x \in Held(d2, c)
    <3>1. \A i \in 1 .. Len(ch) : i \in 1 .. Len(ch) + 1 BY <1>2
    <3> QED BY <1>4, <1>7, <2>1, <3>1
  <2>4. n \in Held(d2, c)
    <3>1. Len(ch) + 1 \in 1 .. Len(ch) + 1 BY <1>2
    <3> QED BY <1>7, <2>1, <3>1
  <2> QED BY <2>2, <2>3, <2>4
<1>14. Last(ch) \in Held(d, c)
  BY <1>2, <1>4
<1> QED BY <1>5, <1>6, <1>7, <1>12, <1>13, <1>14

\* Its entries, if it was full.
LEMMA GrownDir ==
  ASSUME NEW d \in Disk, NEW d2 \in Disk, NEW c \in Cluster, SoundChain(d, c),
         SoundSlots(d, Chain(d, c)), FreeSlots(d, Chain(d, c)) = {},
         NEW n, Grown(d, d2, c, n)
  PROVE  /\ SoundSlots(d2, Chain(d2, c)) /\ Entries(d2, c) = Entries(d, c)
         /\ Open(d2, c, <<n, 1>>) /\ ~InUse(At(d2, <<n, 1>>))
         /\ \A p : Open(d, c, p) => Open(d2, c, p)
         /\ \A p \in Places(Held(d, c)) : At(d2, p) = At(d, p)
<1>1. PICK ch : ch = Chain(d, c)
  OBVIOUS
<1>2. PICK t : t = Append(ch, n)
  OBVIOUS
<1>3. /\ Chain(d2, c) = t /\ SoundChain(d2, c)
      /\ t \in Seq(Cluster) /\ Len(t) = Len(ch) + 1 /\ t[Len(ch) + 1] = n
      /\ \A i \in 1 .. Len(ch) : t[i] = ch[i]
      /\ n \notin Held(d, c) /\ Held(d2, c) = Held(d, c) \cup {n}
  BY <1>1, <1>2, GrownChain
<1>4. ch \in Seq(Cluster) /\ Held(d, c) \subseteq Cluster /\ Len(ch) \in Nat /\ n \in Cluster
  <2>1. Chain(d, c) \in Seq(Cluster) /\ Held(d, c) \subseteq Cluster BY HeldFacts
  <2>2. n \in Cluster BY DEF Grown
  <2> QED BY <1>1, <2>1, <2>2
<1>5. \A x \in Cluster : x # n => d2.blk[x] = d.blk[x]
  BY DEF Grown
<1>6. d2.blk[n] = ZeroBlock /\ \A k \in 1 .. SLOTS : d2.blk[n].ents[k] = End
  <2>1. d2.blk[n] = ZeroBlock BY DEF Grown
  <2>2. \A k \in 1 .. SLOTS : ZeroBlock.ents[k] = End BY DEF ZeroBlock
  <2> QED BY <2>1, <2>2
<1>7. ASSUME NEW p \in Places(Held(d, c)) PROVE At(d2, p) = At(d, p)
  <2>1. p[1] \in Held(d, c) BY DEF Places
  <2>2. d2.blk[p[1]] = d.blk[p[1]] BY <1>3, <1>4, <1>5, <2>1
  <2> QED BY <2>2 DEF At
<1>8. \A k \in 1 .. SLOTS : At(d2, <<n, k>>) = End
  BY <1>6 DEF At
<1>9. ~InUse(End) /\ End.ft = "end"
  BY DEF End, Entry, InUse
<1>10. ASSUME NEW s \in Slots(t), s[1] # Len(ch) + 1
       PROVE  /\ s \in Slots(ch) /\ Pos(t, s) = Pos(ch, s) /\ In(d2, t, s) = In(d, ch, s)
              /\ InUse(In(d, ch, s)) /\ In(d2, t, s).ft # "end"
  <2>1. s[1] \in 1 .. Len(ch) + 1 /\ s[2] \in 1 .. SLOTS /\ s = <<s[1], s[2]>>
    BY <1>3, SlotPlaces
  <2>2. s[1] \in 1 .. Len(ch) BY <1>4, <1>10, <2>1
  <2>3. s \in Slots(ch) BY <2>1, <2>2 DEF Slots
  <2>4. Pos(t, s) = Pos(ch, s) BY <1>3, <2>2 DEF Pos
  <2>5. Pos(ch, s) \in Places(Held(d, c)) BY <1>1, <1>4, <2>3, SlotPlaces DEF Held
  <2>6. In(d2, t, s) = In(d, ch, s) BY <1>7, <2>4, <2>5, InAt
  <2>7. InUse(In(d, ch, s)) BY <1>1, <2>3 DEF FreeSlots
  <2>8. In(d, ch, s).ft # "end" BY <2>7 DEF InUse
  <2> QED BY <2>3, <2>4, <2>6, <2>7, <2>8
<1>11. ASSUME NEW s \in Slots(t), s[1] = Len(ch) + 1 PROVE In(d2, t, s) = End
  <2>1. s[2] \in 1 .. SLOTS BY <1>3, SlotPlaces
  <2>2. Pos(t, s) = <<n, s[2]>> BY <1>3, <1>11 DEF Pos
  <2> QED BY <1>8, <2>1, <2>2, InAt
<1>12. \A s \in Slots(t) : s[1] \in Nat /\ s[2] \in Nat /\ s[1] <= Len(ch) + 1 /\ s[2] >= 1
  <2>1. \A s \in Slots(t) : s[1] \in 1 .. Len(ch) + 1 /\ s[2] \in 1 .. SLOTS BY <1>3, SlotPlaces
  <2> QED BY <1>4, <2>1, Consts
<1>13. ASSUME NEW s \in Slots(t), NEW u \in Slots(t), Before(s, u)
       PROVE  /\ In(d2, t, s).ft = "end" => In(d2, t, u).ft = "end"
              /\ InUse(In(d2, t, s)) /\ InUse(In(d2, t, u))
                   => In(d2, t, s).name # In(d2, t, u).name
  <2>1. CASE s[1] = Len(ch) + 1
    <3>1. u[1] = Len(ch) + 1 BY <1>4, <1>12, <1>13, <2>1 DEF Before
    <3> QED BY <1>9, <1>11, <2>1, <3>1
  <2>2. CASE s[1] # Len(ch) + 1 /\ u[1] = Len(ch) + 1
    BY <1>9, <1>10, <1>11, <2>2
  <2>3. CASE s[1] # Len(ch) + 1 /\ u[1] # Len(ch) + 1
    <3>1. /\ s \in Slots(ch) /\ u \in Slots(ch) /\ In(d2, t, s) = In(d, ch, s)
          /\ In(d2, t, u) = In(d, ch, u) /\ In(d2, t, s).ft # "end"
      BY <1>10, <2>3
    <3>2. InUse(In(d, ch, s)) /\ InUse(In(d, ch, u)) => In(d, ch, s).name # In(d, ch, u).name
      BY <1>1, <1>13, <3>1 DEF SoundSlots
    <3> QED BY <3>1, <3>2
  <2> QED BY <2>1, <2>2, <2>3
<1>14. SoundSlots(d2, t)
  BY <1>13 DEF SoundSlots
<1>15. Open(d2, c, <<n, 1>>)
  <2>1. PICK s : s = <<Len(ch) + 1, 1>> OBVIOUS
  <2>2. s[1] = Len(ch) + 1 /\ s[2] = 1 BY <2>1
  <2>3. s \in Slots(t)
    <3>1. Len(ch) + 1 \in 1 .. Len(t) /\ 1 \in 1 .. SLOTS BY <1>3, <1>4, Consts
    <3> QED BY <2>1, <3>1 DEF Slots
  <2>4. Pos(t, s) = <<n, 1>> BY <1>3, <2>2 DEF Pos
  <2>5. ASSUME NEW u \in Slots(t), Before(u, s) PROVE In(d2, t, u).ft # "end"
    <3>1. u[1] # Len(ch) + 1 BY <1>4, <1>12, <2>2, <2>5 DEF Before
    <3> QED BY <1>10, <3>1
  <2> QED BY <1>3, <2>3, <2>4, <2>5 DEF Open
<1>16. ASSUME NEW p, Open(d, c, p) PROVE Open(d2, c, p)
  <2>1. PICK s \in Slots(ch) : p = Pos(ch, s) BY <1>1, <1>16 DEF Open
  <2>2. s[1] \in 1 .. Len(ch) /\ s[2] \in 1 .. SLOTS /\ s = <<s[1], s[2]>>
    BY <1>4, SlotPlaces
  <2>3. s \in Slots(t)
    <3>1. s[1] \in 1 .. Len(t) BY <1>3, <1>4, <2>2
    <3> QED BY <2>2, <3>1 DEF Slots
  <2>4. s[1] # Len(ch) + 1 /\ s[1] \in Nat /\ s[1] < Len(ch) + 1 BY <1>4, <2>2
  <2>5. p = Pos(t, s) BY <1>10, <2>1, <2>3, <2>4
  <2>6. ASSUME NEW u \in Slots(t), Before(u, s) PROVE In(d2, t, u).ft # "end"
    <3>1. u[1] # Len(ch) + 1 BY <1>4, <1>12, <2>4, <2>6 DEF Before
    <3> QED BY <1>10, <3>1
  <2> QED BY <1>3, <2>3, <2>5, <2>6 DEF Open
<1>17. Entries(d2, c) = Entries(d, c)
  <2>1. PICK H : H = Held(d, c) OBVIOUS
  <2>2. PICK K : K = Held(d2, c) OBVIOUS
  <2>3. Entries(d, c) = Listed(d, H) /\ Entries(d2, c) = Listed(d2, K)
    BY <1>3, <1>14, <2>1, <2>2, EntriesAre
  <2>4. K = H \cup {n} /\ K \in SUBSET Cluster /\ H \in SUBSET Cluster
    BY <1>3, <1>4, <2>1, <2>2
  <2>5. ASSUME NEW x \in Listed(d, H) PROVE x \in Listed(d2, K)
    <3>1. x.pos \in Places(H) /\ x = Placed(x.pos, At(d, x.pos)) /\ Named(At(d, x.pos))
      BY <2>4, ListedFacts
    <3>2. x.pos \in Places(K) BY <2>4, <3>1 DEF Places
    <3>3. At(d2, x.pos) = At(d, x.pos) BY <1>7, <2>1, <3>1
    <3> QED BY <3>1, <3>2, <3>3 DEF Listed, Plain
  <2>6. ASSUME NEW x \in Listed(d2, K) PROVE x \in Listed(d, H)
    <3>1. x.pos \in Places(K) /\ x = Placed(x.pos, At(d2, x.pos)) /\ Named(At(d2, x.pos))
      BY <2>4, ListedFacts
    <3>2. x.pos[1] \in K /\ x.pos[2] \in 1 .. SLOTS /\ x.pos = <<x.pos[1], x.pos[2]>>
      BY <3>1 DEF Places
    <3>3. x.pos[1] # n
      <4> SUFFICES ASSUME x.pos[1] = n PROVE FALSE OBVIOUS
      <4>1. PICK k \in 1 .. SLOTS : x.pos = <<n, k>> BY <3>2
      <4>2. At(d2, x.pos) = End BY <1>8, <4>1
      <4> QED BY <1>9, <3>1, <4>2 DEF Named
    <3>4. x.pos \in Places(H) BY <2>4, <3>2, <3>3 DEF Places
    <3>5. At(d2, x.pos) = At(d, x.pos) BY <1>7, <2>1, <3>4
    <3> QED BY <3>1, <3>4, <3>5 DEF Listed, Plain
  <2> QED BY <2>3, <2>5, <2>6
<1>18. ~InUse(At(d2, <<n, 1>>))
  <2>1. 1 \in 1 .. SLOTS BY Consts
  <2> QED BY <1>8, <1>9, <2>1
<1> QED BY <1>3, <1>7, <1>14, <1>15, <1>16, <1>17, <1>18

\* A free slot of the directory c was found, at p; the directory may have grown.
Found(d, d2, B, c, p) ==
  /\ Base(d2, B) /\ p \in Places(Held(d2, c)) /\ Open(d2, c, p) /\ ~InUse(At(d2, p))
  /\ \A x \in DirsOf(B) : /\ Entries(d2, x) = Entries(d, x)
                          /\ \A q \in Places(Held(d, x)) : At(d2, q) = At(d, q)
                          /\ \A q : Open(d, x, q) => Open(d2, x, q)
  /\ \A x \in B : x.ft # "dir" => Chain(d2, x.clu) = Chain(d, x.clu)
  /\ \A x \in B : x.ft = "dir" => Held(d, x.clu) \subseteq Held(d2, x.clu)

\* In a directory with a free slot.
LEMMA FoundFirst ==
  ASSUME NEW d, NEW B, Base(d, B), NEW c \in DirsOf(B),
         NEW S, S = FreeSlots(d, Chain(d, c)), S # {}
  PROVE  Found(d, d, B, c, Pos(Chain(d, c), First(S)))
<1>1. PICK ch : ch = Chain(d, c)
  OBVIOUS
<1>2. d \in Disk /\ ch \in Seq(Cluster) /\ Held(d, c) = ToSet(ch)
  <2>1. d \in Disk BY DirFacts
  <2>2. Chain(d, c) \in Seq(Cluster) BY <2>1, HeldFacts
  <2> QED BY <1>1, <2>1, <2>2 DEF Held
<1>3. S \subseteq Slots(ch) /\ \A s \in Slots(ch) : s \in S <=> ~InUse(In(d, ch, s))
  BY <1>1 DEF FreeSlots
<1>4. Slots(ch) \subseteq Place
  BY <1>2, SlotPlaces
<1>5. PICK s \in S : s = First(S) /\ \A t \in S : t = s \/ Before(s, t)
  BY <1>3, <1>4, FirstIn
<1>6. s \in Slots(ch) /\ ~InUse(In(d, ch, s))
  BY <1>3
<1>7. ASSUME NEW t \in Slots(ch), Before(t, s) PROVE In(d, ch, t).ft # "end"
  <2>1. t \notin S
    <3>1. t \in Place /\ s \in Place BY <1>4, <1>6
    <3> QED BY <1>5, <1>7, <3>1, Order
  <2> QED BY <1>3, <2>1 DEF InUse
<1>8. PICK p : p = Pos(ch, s)
  OBVIOUS
<1>9. Open(d, c, p)
  BY <1>1, <1>6, <1>7, <1>8 DEF Open
<1>10. p \in Places(Held(d, c)) /\ ~InUse(At(d, p))
  BY <1>2, <1>6, <1>8, InAt, SlotPlaces
<1> QED BY <1>1, <1>5, <1>8, <1>9, <1>10 DEF Found

\* In a directory that grows.
LEMMA FoundGrown ==
  ASSUME NEW d, NEW B, Base(d, B), NEW c \in DirsOf(B),
         FreeSlots(d, Chain(d, c)) = {}, NEW d2 \in Tame, NEW n, Grown(d, d2, c, n)
  PROVE  Found(d, d2, B, c, <<n, 1>>)
<1>1. /\ d \in Disk /\ d2 \in Disk /\ c \in Cluster
      /\ SoundChain(d, c) /\ SoundSlots(d, Chain(d, c))
  BY DirFacts DEF Tame
<1>2. PICK a \in B : a.ft = "dir" /\ a.clu = c
  BY DirFacts
<1>3. /\ SoundChain(d2, c) /\ n \notin Held(d, c) /\ Held(d2, c) = Held(d, c) \cup {n}
      /\ Last(Chain(d, c)) \in Held(d, c)
  BY <1>1, GrownChain
<1>4. /\ SoundSlots(d2, Chain(d2, c)) /\ Entries(d2, c) = Entries(d, c)
      /\ Open(d2, c, <<n, 1>>) /\ ~InUse(At(d2, <<n, 1>>))
      /\ \A p : Open(d, c, p) => Open(d2, c, p)
      /\ \A p \in Places(Held(d, c)) : At(d2, p) = At(d, p)
  BY <1>1, GrownDir
<1>5. PICK A : A = B \ {a}
  OBVIOUS
<1>6. Base(d, A) /\ DirsOf(A) = DirsOf(B) \ {c}
  BY <1>2, <1>5, BaseSub, DirsLess
<1>7. n \in Cluster /\ d.fat[n] = Unused
  BY DEF Grown
<1>8. ASSUME NEW x \in A, NEW k \in Held(d, x.clu)
      PROVE  k \in Cluster /\ k # n /\ k # Last(Chain(d, c))
  <2>1. k \in Cluster /\ d.fat[k] # Unused /\ Held(d, x.clu) \cap Held(d, a.clu) = {}
    BY <1>5, ObjFacts
  <2> QED BY <1>2, <1>3, <1>7, <2>1
<1>9. Spares(d, d2, A)
  <2>1. \A x \in A : \A k \in Held(d, x.clu) : d2.fat[k] = d.fat[k] /\ d2.blk[k] = d.blk[k]
    BY <1>8 DEF Grown
  <2>2. \A y \in DirsOf(A) : \E x \in A : x.clu = y BY DEF DirsOf
  <2> QED BY <2>1, <2>2 DEF Spares
<1>10. /\ Base(d2, A)
       /\ \A x \in A : Chain(d2, x.clu) = Chain(d, x.clu) /\ Held(d2, x.clu) = Held(d, x.clu)
       /\ \A y \in DirsOf(A) : Entries(d2, y) = Entries(d, y)
       /\ \A y \in DirsOf(A) : \A p : Open(d, y, p) => Open(d2, y, p)
       /\ \A y \in DirsOf(A) : \A p \in Places(Held(d, y)) : At(d2, p) = At(d, p)
  BY <1>6, <1>9, BaseSpare
<1>11. Obj(d2, a)
  <2>1. SoundSize(d2, a) BY <1>1, <1>2 DEF SoundSize
  <2> QED BY <1>1, <1>2, <1>3, <1>4, <2>1 DEF Obj
<1>12. ASSUME NEW x \in A PROVE Held(d2, x.clu) \cap Held(d2, a.clu) = {}
  <2>1. Held(d, x.clu) \cap Held(d, a.clu) = {} BY <1>2, <1>5, ObjFacts
  <2>2. n \notin Held(d, x.clu) BY <1>8
  <2> QED BY <1>2, <1>3, <1>10, <2>1, <2>2
<1>13. Base(d2, B)
  <2>1. Base(d2, A \cup {a}) BY <1>10, <1>11, <1>12, BaseAdd
  <2>2. A \cup {a} = B BY <1>5
  <2> QED BY <2>1, <2>2
<1>14. <<n, 1>> \in Places(Held(d2, c))
  <2>1. 1 \in 1 .. SLOTS BY Consts
  <2> QED BY <1>3, <2>1 DEF Places
<1>15. \A x \in DirsOf(B) : /\ Entries(d2, x) = Entries(d, x)
                            /\ \A q \in Places(Held(d, x)) : At(d2, q) = At(d, q)
                            /\ \A q : Open(d, x, q) => Open(d2, x, q)
  BY <1>4, <1>6, <1>10
<1>16. \A x \in B : x.ft # "dir" => Chain(d2, x.clu) = Chain(d, x.clu)
  BY <1>2, <1>5, <1>10
<1>17. \A x \in B : x.ft = "dir" => Held(d, x.clu) \subseteq Held(d2, x.clu)
  BY <1>2, <1>3, <1>5, <1>10
<1> QED BY <1>4, <1>13, <1>14, <1>15, <1>16, <1>17 DEF Found

\* find_free_slot.
LEMMA FindFacts ==
  ASSUME NEW r, Okay(r), r.res = "ok", NEW B, Base(r.d, B), NEW c \in DirsOf(B)
  PROVE  /\ Okay(FindFreeSlot(r, c))
         /\ \/ FindFreeSlot(r, c).res = "NoSpace" /\ FindFreeSlot(r, c).d = r.d
            \/ /\ FindFreeSlot(r, c).res = "ok"
               /\ Found(r.d, FindFreeSlot(r, c).d, B, c, FindFreeSlot(r, c).val)
<1>1. PICK S : S = FreeSlots(r.d, Chain(r.d, c))
  OBVIOUS
<1>2. PICK L : L = Last(Chain(r.d, c))
  OBVIOUS
<1>3. PICK u : u = FindFreeSlot(r, c)
  OBVIOUS
<1>4. u = IF S # {} THEN Gives(r, Pos(Chain(r.d, c), First(S)))
          ELSE IF AllocCluster(r).res = "ok"
               THEN Zeroed(AllocCluster(r), L, AllocCluster(r).val) ELSE AllocCluster(r)
  BY <1>1, <1>2, <1>3 DEF FindFreeSlot, Then
<1>5. CASE S # {}
  <2>1. Found(r.d, r.d, B, c, Pos(Chain(r.d, c), First(S))) BY <1>1, <1>5, FoundFirst
  <2>2. u = Gives(r, Pos(Chain(r.d, c), First(S))) BY <1>4, <1>5
  <2>3. Okay(u) /\ u.d = r.d /\ u.res = r.res /\ u.val = Pos(Chain(r.d, c), First(S))
    BY <2>2, Steps
  <2> QED BY <1>3, <2>1, <2>3
<1>6. CASE S = {}
  <2>1. PICK a : a = AllocCluster(r) OBVIOUS
  <2>2. u = IF a.res = "ok" THEN Zeroed(a, L, a.val) ELSE a
    BY <1>4, <1>6, <2>1
  <2>3. /\ Okay(a)
        /\ \/ a.res = "NoSpace" /\ a.d = r.d
           \/ a.res = "ok" /\ Takes(r.d, a.d, a.val)
    BY <2>1, AllocFacts
  <2>4. CASE a.res = "NoSpace"
    <3>1. u = a BY <2>2, <2>4
    <3> QED BY <1>3, <2>3, <2>4, <3>1
  <2>5. CASE a.res = "ok"
    <3>1. PICK n : n = a.val OBVIOUS
    <3>2. Takes(r.d, a.d, n) /\ n \in Cluster /\ r.d.fat[n] = Unused
      BY <2>3, <2>5, <3>1 DEF Takes
    <3>3. r.d \in Disk /\ c \in Cluster /\ SoundChain(r.d, c) BY DirFacts
    <3>4. L \in Held(r.d, c) /\ L \in Cluster /\ L # n
      <4>1. PICK ch : ch = Chain(r.d, c) OBVIOUS
      <4>2. ch \in Seq(Cluster) /\ Len(ch) \in 1 .. ClusterCount
        BY <3>3, <4>1, ChainFacts
      <4>3. Held(r.d, c) = {Chain(r.d, c)[i] : i \in 1 .. Len(Chain(r.d, c))}
        BY ONLY HeldFacts, <3>3
      <4>4. Len(ch) \in 1 .. Len(ch) /\ L = ch[Len(ch)] BY <1>2, <4>1, <4>2 DEF Last
      <4>5. L \in Held(r.d, c) BY <4>1, <4>3, <4>4
      <4>6. Held(r.d, c) \subseteq Cluster /\ \A x \in Held(r.d, c) : r.d.fat[x] # Unused
        BY <3>3, HeldFacts
      <4> QED BY <3>2, <4>5, <4>6
    <3>5. PICK w : w = WriteFat(a, L, n) OBVIOUS
    <3>6. /\ Okay(w) /\ w.res = "ok" /\ w.d.fat[L] = n /\ w.d.blk = a.d.blk
          /\ \A x \in Cluster : x # L => w.d.fat[x] = a.d.fat[x]
      <4>1. n # Unused /\ n \in Cluster \cup {Unused, Eoc} BY <3>2, Clusters
      <4> QED BY <2>3, <2>5, <3>4, <3>5, <4>1, FatStep
    <3>7. PICK z : z = WriteBlock(w, n, ZeroBlock) OBVIOUS
    <3>8. /\ Okay(z) /\ z.res = "ok" /\ z.d.blk[n] = ZeroBlock /\ z.d.fat = w.d.fat
          /\ \A x \in Cluster : x # n => z.d.blk[x] = w.d.blk[x]
      <4>1. ZeroBlock \in BlockType BY BlockTypes
      <4> QED BY <3>2, <3>6, <3>7, <4>1, BlockStep
    <3>9. u = Gives(z, <<n, 1>>)
      BY <2>2, <2>5, <3>1, <3>5, <3>7 DEF Zeroed
    <3>10. Okay(u) /\ u.d = z.d /\ u.res = "ok" /\ u.val = <<n, 1>>
      BY <3>8, <3>9, Steps
    <3>11. Grown(r.d, z.d, c, n)
      BY <1>2, <3>2, <3>4, <3>6, <3>8 DEF Grown, Takes
    <3>12. z.d \in Tame BY <3>8, Steps
    <3>13. Found(r.d, z.d, B, c, <<n, 1>>) BY <1>1, <1>6, <3>11, <3>12, FoundGrown
    <3> QED BY <1>3, <3>10, <3>13
  <2> QED BY <2>3, <2>4, <2>5
<1> QED BY <1>5, <1>6

\* A name that no entry has may be written anywhere.
LEMMA NameFree ==
  ASSUME NEW d, NEW B, Base(d, B), NEW c \in DirsOf(B), NEW n, n \notin Dots,
         \A x \in Entries(d, c) : x.name # n
  PROVE  \A p : Only(d, c, p, n)
<1>1. /\ d \in Disk /\ Held(d, c) \subseteq Cluster /\ Entries(d, c) = Listed(d, Held(d, c))
  BY DirFacts
<1>2. ASSUME NEW q \in Places(Held(d, c)), InUse(At(d, q)) PROVE At(d, q).name # n
  <2>1. CASE At(d, q).name \in Dots
    BY <2>1
  <2>2. CASE At(d, q).name \notin Dots
    <3>1. Placed(q, At(d, q)) \in Entries(d, c)
      BY <1>1, <1>2, <2>2 DEF Listed, Plain, Named
    <3> QED BY <3>1, PlacedFacts
  <2> QED BY <2>1, <2>2
<1> QED BY <1>2 DEF Only

-----------------------------------------------------------------------------
(* Entries come, go and move *)

\* No end mark hides an entry.
LEMMA EntryOpen ==
  ASSUME NEW d \in Disk, NEW c, NEW x \in Entries(d, c)
  PROVE  /\ Open(d, c, x.pos) /\ x.pos \in Places(Held(d, c)) /\ x.pos \in Places(Cluster)
         /\ x = Placed(x.pos, At(d, x.pos)) /\ Named(At(d, x.pos))
         /\ x.name = At(d, x.pos).name
<1>1. PICK ch : ch = Chain(d, c)
  OBVIOUS
<1>2. PICK s \in Walk(d, ch) : x = Shown(d, ch, s)
  BY <1>1 DEF Entries
<1>3. /\ s \in Slots(ch)
      /\ \A t \in Slots(ch) : Before(t, s) => In(d, ch, t).ft # "end"
  BY DEF Walk
<1>4. x.pos = Pos(ch, s)
  BY <1>2, PlacedFacts DEF Shown
<1>5. Open(d, c, x.pos)
  BY <1>1, <1>3, <1>4 DEF Open
<1>6. Held(d, c) \subseteq Cluster
  BY HeldFacts
<1>7. x \in Listed(d, Held(d, c))
  BY EntriesAre
<1>8. /\ x.pos \in Places(Held(d, c)) /\ x = Placed(x.pos, At(d, x.pos))
      /\ Named(At(d, x.pos)) /\ x.name = At(d, x.pos).name
  BY <1>6, <1>7, ListedFacts
<1>9. x.pos \in Places(Cluster)
  BY <1>6, <1>8 DEF Places
<1> QED BY <1>5, <1>8, <1>9

\* The dot entries of the directories are where no command writes.
LEMMA DotPlaces ==
  ASSUME NEW d, NEW O, Base(d, O), NEW y \in O, y.ft = "dir"
  PROVE  \A k \in {1, 2} : /\ <<y.clu, k>> \in Places(Held(d, y.clu))
                           /\ <<y.clu, k>> \in Places(Cluster)
<1>1. y.clu \in DirsOf(O)
  BY DEF DirsOf
<1>2. y.clu \in Held(d, y.clu) /\ Held(d, y.clu) \subseteq Cluster
  BY <1>1, DirFacts
<1>3. {1, 2} \subseteq 1 .. SLOTS
  BY Consts
<1> QED BY <1>2, <1>3 DEF Places

\* An entry written elsewhere leaves the dots of a directory.
LEMMA PutDots ==
  ASSUME NEW d \in Disk, NEW p \in Places(Cluster), NEW e \in EntryType,
         ~(InUse(At(d, p)) /\ At(d, p).name \in Dots),
         NEW x, NEW c, NEW mvd, SoundDots(d, x, c, mvd),
         \A k \in {1, 2} : <<x.clu, k>> \in Places(Cluster)
  PROVE  SoundDots(Put(d, p, e), x, c, mvd)
<1>1. PICK g : g = Put(d, p, e)
  OBVIOUS
<1>2. ASSUME NEW k \in {1, 2}, InUse(At(d, <<x.clu, k>>)), At(d, <<x.clu, k>>).name \in Dots
      PROVE  At(g, <<x.clu, k>>) = At(d, <<x.clu, k>>)
  <2>1. <<x.clu, k>> # p BY <1>2
  <2> QED BY <1>1, <2>1, PutFacts
<1>3. \A k \in {1, 2} : InUse(At(d, <<x.clu, k>>)) /\ At(d, <<x.clu, k>>).name \in Dots
                            => At(g, <<x.clu, k>>) = At(d, <<x.clu, k>>)
  BY <1>2
<1>4. SoundDots(g, x, c, mvd)
  <2>1. At(d, <<x.clu, 1>>) = Dot(x.clu) /\ (mvd \/ At(d, <<x.clu, 2>>) = DotDot(c))
    BY DotsAt
  <2>2. \A y : InUse(Dot(y)) /\ Dot(y).name \in Dots /\ InUse(DotDot(y)) /\ DotDot(y).name \in Dots
    BY DEF Dot, DotDot, InUse, Entry, Dots
  <2>3. 1 \in {1, 2} /\ 2 \in {1, 2} OBVIOUS
  <2>4. At(g, <<x.clu, 1>>) = Dot(x.clu) BY <1>3, <2>1, <2>2, <2>3
  <2>5. ~mvd => At(g, <<x.clu, 2>>) = DotDot(c) BY <1>3, <2>1, <2>2, <2>3
  <2> QED BY <2>4, <2>5, DotsAt
<1> QED BY <1>1, <1>4

\* A new entry, for a file or an empty directory.
LEMMA PutNew ==
  ASSUME NEW d, NEW O, NEW mvd, Hangs(d, O, mvd), NEW c \in DirsOf(O), NEW p, Open(d, c, p),
         ~InUse(At(d, p)), NEW e \in EntryType, Named(e), Only(d, c, p, e.name),
         NEW x, x = Placed(p, e), Base(d, O \cup {x}), Base(d, O),
         e.ft = "dir" => /\ Entries(d, e.clu) = {} /\ e.clu \notin DirsOf(O)
                         /\ SoundDots(d, x, c, mvd)
  PROVE  Good(Put(d, p, e), O \cup {x}, mvd)
<1>1. PICK g : g = Put(d, p, e)
  OBVIOUS
<1>2. PICK B : B = O \cup {x}
  OBVIOUS
<1>3. d \in Disk /\ x.ft = e.ft /\ x.clu = e.clu /\ e.ft # "end" /\ InUse(e)
  BY PlacedFacts, DirFacts DEF Named, InUse
<1>4. /\ DirsOf(O) \subseteq DirsOf(B) /\ \A y \in DirsOf(B) : y \in DirsOf(O) \/ y = e.clu
      /\ e.ft # "dir" => DirsOf(B) = DirsOf(O)
  BY <1>2, <1>3 DEF DirsOf
<1>5. Base(d, B) /\ c \in DirsOf(B)
  BY <1>2, <1>4
<1>6. /\ Base(g, B) /\ p \in Places(Held(d, c)) /\ p \in Places(Cluster)
      /\ \A c2 \in DirsOf(B) :
           Entries(g, c2) = (Entries(d, c2) \ {Placed(p, At(d, p))})
                              \cup (IF c2 = c /\ Named(e) THEN {Placed(p, e)} ELSE {})
  <2>1. /\ Base(Put(d, p, e), B) /\ p \in Places(Held(d, c)) /\ p \in Places(Cluster)
        /\ \A c2 \in DirsOf(B) :
             Entries(Put(d, p, e), c2) =
               (Entries(d, c2) \ {Placed(p, At(d, p))})
                 \cup (IF c2 = c /\ Named(e) THEN {Placed(p, e)} ELSE {})
    BY <1>3, <1>5, BasePut
  <2> QED BY <1>1, <2>1
<1>7. \A c2 : Placed(p, At(d, p)) \notin Entries(d, c2)
  <2> SUFFICES ASSUME NEW c2, Placed(p, At(d, p)) \in Entries(d, c2) PROVE FALSE
    OBVIOUS
  <2>1. Placed(p, At(d, p)).pos = p BY PlacedFacts
  <2>2. Named(At(d, p)) BY <1>3, <2>1, EntryOpen
  <2> QED BY <2>2 DEF Named
<1>8. ASSUME NEW y \in O, NEW c2, NEW z, z.clu = y.clu, y.ft = "dir", SoundDots(d, z, c2, mvd)
      PROVE  SoundDots(g, z, c2, mvd)
  <2>1. \A k \in {1, 2} : <<z.clu, k>> \in Places(Cluster) BY <1>8, DotPlaces
  <2> QED BY <1>1, <1>3, <1>6, <1>8, <2>1, PutDots
<1>9. Hangs(g, B, mvd)
  <2>1. B = (O \ {}) \cup {x} /\ RootEntry \notin {} BY <1>2
  <2>2. ASSUME NEW c2 \in DirsOf(O) \cap DirsOf(B)
        PROVE  Entries(g, c2) = (Entries(d, c2) \ {}) \cup (IF c2 = c THEN {x} ELSE {})
    BY <1>6, <1>7
  <2>3. \A c2 \in DirsOf(O) \ DirsOf(B) : Entries(d, c2) = {} BY <1>4
  <2>4. ASSUME NEW c2 \in DirsOf(B) \ DirsOf(O) PROVE Entries(g, c2) = {}
    <3>1. c2 = e.clu /\ e.ft = "dir" /\ c2 # c BY <1>4
    <3>2. Entries(d, c2) = {} BY <3>1
    <3> QED BY <1>6, <3>1, <3>2
  <2>5. ASSUME NEW c2 \in DirsOf(O) \cap DirsOf(B), NEW y \in Entries(d, c2) \ {}, y.ft = "dir"
        PROVE  SoundDots(g, y, c2, mvd)
    <3>1. y \in O /\ SoundDots(d, y, c2, mvd) BY <2>5 DEF Hangs
    <3> QED BY <1>8, <2>5, <3>1
  <2>6. ASSUME NEW y \in {x}, y.ft = "dir" PROVE SoundDots(g, y, c, mvd)
    <3>1. x \in B BY <1>2
    <3>2. \A k \in {1, 2} : <<x.clu, k>> \in Places(Cluster) BY <1>5, <2>6, <3>1, DotPlaces
    <3>3. SoundDots(d, x, c, mvd) BY <1>3, <2>6
    <3>4. SoundDots(g, x, c, mvd) BY <1>1, <1>3, <1>6, <3>2, <3>3, PutDots
    <3> QED BY <3>4
  <2>7. c \in DirsOf(B) BY <1>5
  <2>8. \A c2 \in DirsOf(O) \cap DirsOf(B) : \A z \in Entries(d, c2) \ {} :
          z.ft = "dir" => SoundDots(g, z, c2, mvd)
    BY <2>5
  <2>9. \A z \in {x} : z.ft = "dir" => SoundDots(g, z, c, mvd)
    BY <2>6
  <2>10. Changed(d, O, g, B, {}, {x}, c, mvd)
    BY <2>1, <2>2, <2>3, <2>4, <2>7, <2>8, <2>9 DEF Changed
  <2> QED BY <2>10, HangsChange
<1> QED BY <1>1, <1>2, <1>6, <1>9 DEF Good

\* The entry x, of a file or an empty directory, is wiped or becomes a file's,
\* after its clusters were freed.
LEMMA PutOver ==
  ASSUME NEW d, NEW O, NEW mvd, Good(d, O, mvd), NEW x \in O, x # RootEntry,
         NEW c \in DirsOf(O), x \in Entries(d, c),
         x.ft = "dir" => Entries(d, x.clu) = {},
         NEW g \in Tame, Spares(d, g, O \ {x}),
         NEW e \in EntryType, NEW in,
         \/ e = Wiped /\ in = {}
         \/ e.ft = "file" /\ e.name = x.name /\ in = {Placed(x.pos, e)},
         Base(g, (O \ {x}) \cup in)
  PROVE  Good(Put(g, x.pos, e), (O \ {x}) \cup in, mvd)
<1>1. PICK h : h = Put(g, x.pos, e)
  OBVIOUS
<1>2. PICK A : A = O \ {x}
  OBVIOUS
<1>3. PICK B : B = A \cup in
  OBVIOUS
<1>4. Base(d, O) /\ Hangs(d, O, mvd)
  BY DEF Good
<1>5. d \in Disk /\ g \in Disk /\ Base(d, A)
  BY <1>2, <1>4, DirFacts, BaseSub DEF Tame
<1>6. /\ Open(d, c, x.pos) /\ x.pos \in Places(Held(d, c)) /\ x.pos \in Places(Cluster)
      /\ x = Placed(x.pos, At(d, x.pos)) /\ Named(At(d, x.pos)) /\ x.name = At(d, x.pos).name
  BY <1>5, EntryOpen
<1>7. DirsOf(A) = DirsOf(O) \/ (x.ft = "dir" /\ DirsOf(A) = DirsOf(O) \ {x.clu})
  BY <1>2, <1>4, DirsLess
<1>8. c \in DirsOf(A)
  BY <1>7
<1>9. DirsOf(B) = DirsOf(A)
  <2>1. \A y \in in : y.ft # "dir" BY PlacedFacts
  <2> QED BY <1>3, <2>1 DEF DirsOf
<1>10. /\ \A y \in DirsOf(A) : Entries(g, y) = Entries(d, y)
       /\ \A y \in DirsOf(A) : \A p : Open(d, y, p) => Open(g, y, p)
       /\ \A y \in DirsOf(A) : Held(g, y) = Held(d, y)
                               /\ \A p \in Places(Held(d, y)) : At(g, p) = At(d, p)
  BY <1>2, <1>5, BaseSpare
<1>11. At(g, x.pos) = At(d, x.pos)
  <2>1. \A p \in Places(Held(d, c)) : At(g, p) = At(d, p) BY <1>8, <1>10
  <2>2. PICK p : p = x.pos OBVIOUS
  <2>3. p \in Places(Held(d, c)) BY <1>6, <2>2
  <2>4. At(g, p) = At(d, p) BY ONLY <2>1, <2>3
  <2> QED BY <2>2, <2>4
<1>12. e.ft # "end" /\ (InUse(e) => e.name = x.name)
  <2>1. CASE e = Wiped BY <2>1 DEF Wiped, Entry, InUse
  <2>2. CASE e.ft = "file" /\ e.name = x.name BY <2>2
  <2> QED BY <2>1, <2>2
<1>13. InUse(e) => Only(g, c, x.pos, e.name)
  <2> SUFFICES ASSUME InUse(e), NEW q \in Places(Held(g, c)), q # x.pos, InUse(At(g, q))
               PROVE  At(g, q).name # e.name
    BY DEF Only
  <2>1. e.name = At(d, x.pos).name BY <1>6, <1>12
  <2>2. q \in Places(Held(d, c)) /\ InUse(At(d, q)) /\ At(g, q) = At(d, q)
    BY <1>8, <1>10
  <2>3. SoundSlots(d, Chain(d, c)) BY <1>4, DirFacts
  <2>4. InUse(At(d, x.pos)) BY <1>6 DEF Named
  <2>5. At(d, q).name # At(d, x.pos).name BY <1>5, <1>6, <2>2, <2>3, <2>4, NameOnce
  <2> QED BY <2>1, <2>2, <2>5
<1>14. /\ Base(h, B)
       /\ \A c2 \in DirsOf(B) :
            Entries(h, c2) = (Entries(g, c2) \ {Placed(x.pos, At(g, x.pos))})
                               \cup (IF c2 = c /\ Named(e) THEN {Placed(x.pos, e)} ELSE {})
  <2>1. Base(g, B) /\ c \in DirsOf(B) /\ Open(g, c, x.pos)
    BY <1>2, <1>3, <1>6, <1>8, <1>9, <1>10
  <2>2. /\ Base(Put(g, x.pos, e), B)
        /\ \A c2 \in DirsOf(B) :
             Entries(Put(g, x.pos, e), c2) =
               (Entries(g, c2) \ {Placed(x.pos, At(g, x.pos))})
                 \cup (IF c2 = c /\ Named(e) THEN {Placed(x.pos, e)} ELSE {})
    BY <1>12, <1>13, <2>1, BasePut
  <2> QED BY <1>1, <2>2
<1>15. (IF Named(e) THEN {Placed(x.pos, e)} ELSE {}) = in
  <2>1. ~Named(Wiped) BY DEF Wiped, Entry, Named, InUse
  <2>2. e.ft = "file" /\ e.name = x.name => Named(e) BY <1>6 DEF Named, InUse
  <2> QED BY <2>1, <2>2
<1>16. ASSUME NEW y \in O \ {x}, y.ft = "dir", NEW c2, SoundDots(d, y, c2, mvd)
       PROVE  SoundDots(h, y, c2, mvd)
  <2>1. y \in A BY <1>2
  <2>2. \A k \in {1, 2} : /\ <<y.clu, k>> \in Places(Held(d, y.clu))
                          /\ <<y.clu, k>> \in Places(Cluster)
    BY <1>5, <1>16, <2>1, DotPlaces
  <2>3. y.clu \in DirsOf(A) BY <1>16, <2>1 DEF DirsOf
  <2>4. \A k \in {1, 2} : At(g, <<y.clu, k>>) = At(d, <<y.clu, k>>)
    BY <1>10, <2>2, <2>3
  <2>5. SoundDots(g, y, c2, mvd) BY <1>16, <2>4, DotsSpared
  <2>6. ~(InUse(At(g, x.pos)) /\ At(g, x.pos).name \in Dots) BY <1>6, <1>11 DEF Named
  <2> QED BY <1>1, <1>5, <1>6, <2>2, <2>5, <2>6, PutDots
<1>17. Hangs(h, B, mvd)
  <2>1. B = (O \ {x}) \cup in /\ RootEntry \notin {x} BY <1>2, <1>3
  <2>2. ASSUME NEW c2 \in DirsOf(O) \cap DirsOf(B)
        PROVE  Entries(h, c2) = (Entries(d, c2) \ {x}) \cup (IF c2 = c THEN in ELSE {})
    <3>1. Entries(g, c2) = Entries(d, c2) BY <1>9, <1>10
    <3>2. Placed(x.pos, At(g, x.pos)) = x BY <1>6, <1>11
    <3> QED BY <1>14, <1>15, <3>1, <3>2
  <2>3. \A c2 \in DirsOf(O) \ DirsOf(B) : Entries(d, c2) = {} BY <1>7, <1>9
  <2>4. \A c2 \in DirsOf(B) \ DirsOf(O) : Entries(h, c2) = {} BY <1>7, <1>9
  <2>5. ASSUME NEW c2 \in DirsOf(O) \cap DirsOf(B), NEW y \in Entries(d, c2) \ {x}, y.ft = "dir"
        PROVE  SoundDots(h, y, c2, mvd)
    <3>1. y \in O \ {x} /\ SoundDots(d, y, c2, mvd) BY <1>4, <2>5 DEF Hangs
    <3> QED BY <1>16, <2>5, <3>1
  <2>6. \A y \in in : y.ft = "dir" => SoundDots(h, y, c, mvd) BY PlacedFacts
  <2>7. c \in DirsOf(B) BY <1>8, <1>9
  <2>8. \A c2 \in DirsOf(O) \cap DirsOf(B) : \A z \in Entries(d, c2) \ {x} :
          z.ft = "dir" => SoundDots(h, z, c2, mvd)
    BY <2>5
  <2>9. \A z \in in : z.ft = "dir" => SoundDots(h, z, c, mvd)
    BY <2>6
  <2>10. Changed(d, O, h, B, {x}, in, c, mvd)
    BY <2>1, <2>2, <2>3, <2>4, <2>7, <2>8, <2>9 DEF Changed
  <2> QED BY <1>4, <2>10, HangsChange
<1> QED BY <1>1, <1>2, <1>3, <1>14, <1>17 DEF Good

\* The entry x of the directory c gets a new place and name in the directory t.
LEMMA PutMoved ==
  ASSUME NEW d, NEW O, NEW mvd, Good(d, O, mvd), NEW x \in O, x # RootEntry,
         NEW c \in DirsOf(O), x \in Entries(d, c),
         NEW t \in DirsOf(O), NEW p, Open(d, t, p), ~InUse(At(d, p)),
         NEW e \in EntryType, e.ft = x.ft, e.clu = x.clu, e.size = x.size,
         e.name \notin Dots, Only(d, t, p, e.name),
         NEW mvd2, mvd => mvd2, x.ft = "dir" /\ c # t => mvd2
  PROVE  Good(Put(Put(d, p, e), x.pos, Wiped), (O \ {x}) \cup {Placed(p, e)}, mvd2)
<1>1. PICK g : g = Put(d, p, e)
  OBVIOUS
<1>2. PICK h : h = Put(g, x.pos, Wiped)
  OBVIOUS
<1>3. PICK y : y = Placed(p, e)
  OBVIOUS
<1>4. PICK B : B = (O \ {x}) \cup {y}
  OBVIOUS
<1>5. Base(d, O) /\ Hangs(d, O, mvd) /\ d \in Disk
  <2>1. Base(d, O) /\ Hangs(d, O, mvd) BY DEF Good
  <2> QED BY <2>1, DirFacts
<1>6. /\ Open(d, c, x.pos) /\ x.pos \in Places(Held(d, c)) /\ x.pos \in Places(Cluster)
      /\ x = Placed(x.pos, At(d, x.pos)) /\ Named(At(d, x.pos))
  BY <1>5, EntryOpen
<1>7. x.ft \in {"dir", "file"}
  BY <1>5, ObjFacts
<1>8. e.ft # "end" /\ Named(e) /\ InUse(e)
  BY <1>7 DEF Named, InUse
<1>9. y.pos = p /\ y.ft = x.ft /\ y.clu = x.clu /\ y.size = x.size
  BY <1>3, PlacedFacts
<1>10. /\ Base(g, O) /\ p \in Places(Held(d, t)) /\ p \in Places(Cluster)
       /\ \A c2 \in DirsOf(O) :
            Entries(g, c2) = (Entries(d, c2) \ {Placed(p, At(d, p))})
                               \cup (IF c2 = t /\ Named(e) THEN {Placed(p, e)} ELSE {})
       /\ \A c2 \in DirsOf(O) : \A q : Open(d, c2, q) => Open(g, c2, q)
  <2>1. /\ Base(Put(d, p, e), O) /\ p \in Places(Held(d, t)) /\ p \in Places(Cluster)
        /\ \A c2 \in DirsOf(O) :
             Entries(Put(d, p, e), c2) =
               (Entries(d, c2) \ {Placed(p, At(d, p))})
                 \cup (IF c2 = t /\ Named(e) THEN {Placed(p, e)} ELSE {})
        /\ \A c2 \in DirsOf(O) : \A q : Open(d, c2, q) => Open(Put(d, p, e), c2, q)
    BY <1>5, <1>8, BasePut
  <2> QED BY <1>1, <2>1
<1>11. \A c2 : Placed(p, At(d, p)) \notin Entries(d, c2)
  <2> SUFFICES ASSUME NEW c2, Placed(p, At(d, p)) \in Entries(d, c2) PROVE FALSE
    OBVIOUS
  <2>1. Placed(p, At(d, p)).pos = p BY PlacedFacts
  <2>2. Named(At(d, p)) BY <1>5, <2>1, EntryOpen
  <2> QED BY <2>2 DEF Named
<1>12. p # x.pos /\ y # x
  BY <1>6, <1>9 DEF Named
<1>13. At(g, x.pos) = At(d, x.pos) /\ g \in Disk
  BY <1>1, <1>5, <1>6, <1>10, <1>12, PutFacts
<1>14. /\ Base(h, O)
       /\ \A c2 \in DirsOf(O) : Entries(h, c2) = Entries(g, c2) \ {x}
  <2>1. Wiped \in EntryType /\ Wiped.ft # "end" /\ ~InUse(Wiped) /\ ~Named(Wiped)
    BY EntryTypes DEF Wiped, Entry, InUse, Named
  <2>2. Open(g, c, x.pos) BY <1>6, <1>10
  <2>3. /\ Base(Put(g, x.pos, Wiped), O)
        /\ \A c2 \in DirsOf(O) :
             Entries(Put(g, x.pos, Wiped), c2) =
               (Entries(g, c2) \ {Placed(x.pos, At(g, x.pos))})
                 \cup (IF c2 = c /\ Named(Wiped) THEN {Placed(x.pos, Wiped)} ELSE {})
    BY <1>10, <2>1, <2>2, BasePut
  <2>4. Placed(x.pos, At(g, x.pos)) = x BY <1>6, <1>13
  <2> QED BY <1>2, <2>1, <2>3, <2>4
<1>15. Base(h, B) /\ DirsOf(B) = DirsOf(O)
  BY <1>4, <1>9, <1>14, BaseSwap
<1>16. ASSUME NEW z \in O, z.ft = "dir", NEW c2, SoundDots(d, z, c2, mvd)
       PROVE  SoundDots(h, z, c2, mvd)
  <2>1. \A k \in {1, 2} : <<z.clu, k>> \in Places(Cluster)
    BY <1>5, <1>16, DotPlaces
  <2>2. SoundDots(g, z, c2, mvd) BY <1>1, <1>5, <1>10, <1>16, <2>1, PutDots
  <2>3. ~(InUse(At(g, x.pos)) /\ At(g, x.pos).name \in Dots) BY <1>6, <1>13 DEF Named
  <2>4. Wiped \in EntryType BY EntryTypes
  <2> QED BY <1>2, <1>6, <1>13, <2>1, <2>2, <2>3, <2>4, PutDots
<1>17. \A z, c2 : SoundDots(h, z, c2, mvd) => SoundDots(h, z, c2, mvd2)
  BY DEF SoundDots
<1>18. Hangs(h, B, mvd2)
  <2>1. B = (O \ {x}) \cup {y} /\ RootEntry \notin {x} BY <1>4
  <2>2. ASSUME NEW c2 \in DirsOf(O) \cap DirsOf(B)
        PROVE  Entries(h, c2) = (Entries(d, c2) \ {x}) \cup (IF c2 = t THEN {y} ELSE {})
    <3>1. Entries(g, c2) = Entries(d, c2) \cup (IF c2 = t THEN {y} ELSE {})
      BY <1>3, <1>8, <1>10, <1>11
    <3> QED BY <1>12, <1>14, <3>1
  <2>3. \A c2 \in DirsOf(O) \ DirsOf(B) : Entries(d, c2) = {} BY <1>15
  <2>4. \A c2 \in DirsOf(B) \ DirsOf(O) : Entries(h, c2) = {} BY <1>15
  <2>5. ASSUME NEW c2 \in DirsOf(O) \cap DirsOf(B), NEW z \in Entries(d, c2) \ {x}, z.ft = "dir"
        PROVE  SoundDots(h, z, c2, mvd2)
    <3>1. z \in O /\ SoundDots(d, z, c2, mvd) BY <1>5, <2>5 DEF Hangs
    <3> QED BY <1>16, <1>17, <2>5, <3>1
  <2>6. ASSUME NEW z \in {y}, z.ft = "dir" PROVE SoundDots(h, z, t, mvd2)
    <3>1. x.ft = "dir" BY <1>9, <2>6
    <3>2. SoundDots(d, x, c, mvd) BY <1>5, <3>1 DEF Hangs
    <3>3. SoundDots(h, x, c, mvd2) BY <1>16, <1>17, <3>1, <3>2
    <3>4. SoundDots(h, y, c, mvd2) BY <1>9, <3>3 DEF SoundDots
    <3>5. c # t => mvd2 BY <3>1
    <3>6. SoundDots(h, y, t, mvd2)
      <4>1. CASE c = t BY <3>4, <4>1
      <4>2. CASE mvd2 BY <3>4, <4>2 DEF SoundDots
      <4> QED BY <3>5, <4>1, <4>2
    <3> QED BY <3>6
  <2>7. t \in DirsOf(B) BY <1>15
  <2>8. \A c2 \in DirsOf(O) \cap DirsOf(B) : \A z \in Entries(d, c2) \ {x} :
          z.ft = "dir" => SoundDots(h, z, c2, mvd2)
    BY <2>5
  <2>9. \A z \in {y} : z.ft = "dir" => SoundDots(h, z, t, mvd2)
    BY <2>6
  <2>10. Changed(d, O, h, B, {x}, {y}, t, mvd2)
    BY <2>1, <2>2, <2>3, <2>4, <2>7, <2>8, <2>9 DEF Changed
  <2> QED BY <1>5, <2>10, HangsChange
<1> QED BY <1>1, <1>2, <1>3, <1>4, <1>15, <1>18 DEF Good

-----------------------------------------------------------------------------
(* Paths *)

\* What look_up finds in a directory.
LEMMA LookedUp ==
  ASSUME NEW d, NEW O, NEW mvd, Good(d, O, mvd), NEW c \in DirsOf(O) \cup {Unused}, NEW n,
         NEW x, x = LookUp(d, c, n)
  PROVE  \/ x = NoEntry /\ \A y \in Entries(d, c) : y.name # n
         \/ /\ x \in Entries(d, c) /\ c \in DirsOf(O) /\ x \in O /\ x.name = n
            /\ x # NoEntry /\ x # RootEntry /\ x.ft \in {"dir", "file"}
            /\ x.ft = "dir" => x.clu \in DirsOf(O)
<1>1. Base(d, O) /\ Hangs(d, O, mvd) /\ d \in Disk
  BY DEF Good, Base, Tame
<1>2. \/ x = NoEntry /\ \A y \in Entries(d, c) : y.name # n
      \/ x \in Entries(d, c) /\ x.name = n
  BY <1>1, LookUpFacts
<1>3. ASSUME x \in Entries(d, c)
      PROVE  /\ c \in DirsOf(O) /\ x \in O /\ x # NoEntry /\ x # RootEntry
             /\ x.ft \in {"dir", "file"} /\ (x.ft = "dir" => x.clu \in DirsOf(O))
  <2>1. x \in Listed(d, Held(d, c)) /\ Held(d, c) \subseteq Cluster BY <1>1, <1>3, EntriesAre, HeldFacts
  <2>2. /\ x.pos[1] \in Held(d, c) /\ x.ft \in {"dir", "file"} /\ x # RootEntry /\ x # NoEntry
    BY <1>1, <2>1, ListedFacts
  <2>3. c # Unused
    <3> SUFFICES ASSUME c = Unused PROVE FALSE OBVIOUS
    <3>1. c \notin Cluster BY Clusters
    <3>2. Held(d, c) = {} BY <1>1, <3>1, HeldFacts
    <3> QED BY <2>2, <3>2
  <2>4. c \in DirsOf(O) BY <2>3
  <2>5. x \in O BY <1>1, <1>3, <2>4 DEF Hangs
  <2>6. x.ft = "dir" => x.clu \in DirsOf(O) BY <2>5 DEF DirsOf
  <2> QED BY <2>2, <2>4, <2>5, <2>6
<1> QED BY <1>2, <1>3

\* The entry of the root, which lies nowhere, and no entry.
LEMMA RootFacts ==
  /\ RootEntry.ft = "dir" /\ RootEntry.clu = Root /\ RootEntry.size = 0
  /\ NoEntry.ft = "end"
BY DEF RootEntry, NoEntry, Placed, End, Entry

\* The root is a directory of every good disk.
LEMMA RootIsDir ==
  ASSUME NEW d, NEW O, NEW mvd, Good(d, O, mvd)
  PROVE  Root \in DirsOf(O) /\ Root \in Cluster
<1>1. RootEntry \in O
  BY DEF Good, Hangs
<1>2. RootEntry.ft = "dir" /\ RootEntry.clu = Root
  BY RootFacts
<1> QED BY <1>1, <1>2, Clusters DEF DirsOf

\* A component of a path leads to a directory or nowhere.
LEMMA EnterFacts ==
  ASSUME NEW d, NEW O, NEW mvd, Good(d, O, mvd), NEW c \in DirsOf(O) \cup {Unused}, NEW n
  PROVE  Enter(d, c, n) \in DirsOf(O) \cup {Unused} /\ EnterCwd(d, c, n) \in DirsOf(O) \cup {Unused}
<1>1. PICK x : x = LookUp(d, c, n)
  OBVIOUS
<1>2. Enter(d, c, n) = IF x.ft = "dir" THEN x.clu ELSE Unused
  BY <1>1 DEF Enter
<1>3. NoEntry.ft = "end"
  BY RootFacts
<1>4. x = NoEntry \/ (x.ft = "dir" => x.clu \in DirsOf(O))
  BY <1>1, LookedUp
<1>5. Enter(d, c, n) \in DirsOf(O) \cup {Unused}
  BY <1>2, <1>3, <1>4
<1> QED BY <1>5 DEF EnterCwd

\* A directory's ".." leads to a directory, as long as none was moved.
LEMMA ParentFacts ==
  ASSUME NEW d, NEW O, Good(d, O, FALSE), NEW c \in DirsOf(O)
  PROVE  ParentDir(d, c) \in DirsOf(O)
<1>1. CASE c = Root
  BY <1>1, RootIsDir DEF ParentDir
<1>2. CASE c # Root
  <2>1. Base(d, O) /\ Hangs(d, O, FALSE) BY DEF Good
  <2>2. PICK y \in O : y.ft = "dir" /\ y.clu = c BY <2>1, DirFacts
  <2>3. y # RootEntry
    <3>1. RootEntry.clu = Root BY RootFacts
    <3> QED BY <1>2, <2>2, <3>1
  <2>4. PICK u \in DirsOf(O) : y \in Entries(d, u) BY <2>1, <2>3 DEF Hangs
  <2>5. SoundDots(d, y, u, FALSE) BY <2>1, <2>2, <2>4 DEF Hangs
  <2>6. At(d, <<c, 2>>) = DotDot(u) BY <2>2, <2>5, DotsAt
  <2>7. /\ d \in Disk /\ c \in Cluster /\ SoundSlots(d, Chain(d, c)) /\ u \in Cluster
        /\ SoundChain(d, c)
    BY <2>1, DirFacts
  <2>8. PICK ch : ch = Chain(d, c) OBVIOUS
  <2>9. ch \in Seq(Cluster) /\ Len(ch) \in 1 .. ClusterCount /\ ch[1] = c
        /\ Held(d, c) = ToSet(ch)
    BY <2>7, <2>8, ChainFacts DEF Held
  <2>10. PICK S : S = {s \in Slots(ch) : InUse(In(d, ch, s)) /\ In(d, ch, s).name = ".."}
    OBVIOUS
  <2>11. ParentDir(d, c) = IF S = {} THEN Root ELSE RootIf0(In(d, ch, First(S)).clu)
    BY <1>2, <2>8, <2>10 DEF ParentDir
  <2>12. <<1, 2>> \in Slots(ch) /\ Pos(ch, <<1, 2>>) = <<c, 2>>
    <3>1. 1 \in 1 .. Len(ch) /\ 2 \in 1 .. SLOTS BY <2>9, Consts
    <3> QED BY <2>9, <3>1 DEF Slots, Pos
  <2>13. InUse(DotDot(u)) /\ DotDot(u).name = ".."
         /\ DotDot(u).clu = IF u = Root THEN Unused ELSE u
    BY DEF DotDot, InUse, Entry
  <2>14. In(d, ch, <<1, 2>>) = DotDot(u) BY <2>6, <2>12, InAt
  <2>15. S # {} BY <2>10, <2>12, <2>13, <2>14
  <2>16. First(S) \in S
    <3>1. S \in SUBSET Place BY <2>9, <2>10, SlotPlaces
    <3> QED BY <2>15, <3>1, FirstIn
  <2>17. PICK s : s = First(S) OBVIOUS
  <2>18. s \in Slots(ch) /\ InUse(In(d, ch, s)) /\ In(d, ch, s).name = ".."
    BY <2>10, <2>16, <2>17
  <2>19. In(d, ch, s) = DotDot(u)
    <3>1. Pos(ch, s) \in Places(Held(d, c)) /\ Pos(ch, <<1, 2>>) \in Places(Held(d, c))
      BY <2>9, <2>12, <2>18, SlotPlaces
    <3>2. Pos(ch, s) = Pos(ch, <<1, 2>>)
      <4>1. PICK p, q : p = Pos(ch, s) /\ q = Pos(ch, <<1, 2>>) OBVIOUS
      <4>2. /\ InUse(At(d, p)) /\ InUse(At(d, q)) /\ At(d, p).name = At(d, q).name
        BY <2>13, <2>14, <2>18, <4>1, InAt
      <4>3. p = q BY <2>7, <3>1, <4>1, <4>2, NameOnce
      <4> QED BY <4>1, <4>3
    <3> QED BY <2>14, <3>2, InAt
  <2>20. ParentDir(d, c) = RootIf0(DotDot(u).clu) BY <2>11, <2>15, <2>17, <2>19
  <2>21. RootIf0(DotDot(u).clu) = u BY <2>7, <2>13, Clusters DEF RootIf0
  <2> QED BY <2>20, <2>21
<1> QED BY <1>1, <1>2

\* So does a component of resolve, which knows the dots.
LEMMA IntoFacts ==
  ASSUME NEW d, NEW O, NEW mvd \in BOOLEAN, Good(d, O, mvd),
         NEW c \in DirsOf(O) \cup {Unused}, NEW n, mvd => n \notin Dots
  PROVE  Into(d, c, n) \in DirsOf(O) \cup {Unused}
<1>1. CASE c = Unused \/ n = "."
  BY <1>1 DEF Into
<1>2. CASE c # Unused /\ n = ".."
  <2>1. mvd = FALSE BY <1>2 DEF Dots
  <2>2. ParentDir(d, c) \in DirsOf(O) BY <1>2, <2>1, ParentFacts
  <2>3. Into(d, c, n) = ParentDir(d, c) BY <1>2 DEF Into
  <2> QED BY <2>2, <2>3
<1>3. CASE c # Unused /\ n # "." /\ n # ".."
  <2>1. Into(d, c, n) = Enter(d, c, n) BY <1>3 DEF Into
  <2> QED BY <2>1, EnterFacts
<1> QED BY <1>1, <1>2, <1>3

\* resolve and cluster_from_cwd end in a directory, if anywhere.
LEMMA DescendFacts ==
  ASSUME NEW d, NEW O, NEW mvd \in BOOLEAN, Good(d, O, mvd),
         NEW c \in DirsOf(O) \cup {Unused}, NEW comps, Len(comps) \in Nat,
         mvd => \A i \in 1 .. Len(comps) : comps[i] \notin Dots
  PROVE  Descend(d, c, comps) \in DirsOf(O) \cup {Unused}
<1> DEFINE N == Len(comps)
           P(n) == DirsOf(O) \cup {Unused}
<1>1. N \in Nat /\ N \in 0 .. N
  OBVIOUS
<1>2. c \in P(0)
  OBVIOUS
<1>3. \A n \in 1 .. N : \A x \in P(n - 1) : Into(d, x, comps[n]) \in P(n)
  BY IntoFacts
<1>4. \A x \in P(N) : x \in DirsOf(O) \cup {Unused}
  OBVIOUS
<1> DEFINE Q == [n \in 0 .. N |-> P(n)]
           step == [n \in 1 .. N |-> [x \in P(n - 1) |-> Into(d, x, comps[n])]]
           Is(h) == h = [k \in 0 .. N |-> IF k = 0 THEN c ELSE Into(d, h[k - 1], comps[k])]
           it == CHOOSE h : Is(h)
<1>5. \A n \in 0 .. N : Q[n] = P(n)
  <2> HIDE DEF P
  <2> QED OBVIOUS
<1>6. \A n \in 1 .. N : \A x \in Q[n - 1] :
        step[n][x] = Into(d, x, comps[n]) /\ step[n][x] \in Q[n]
  <2> SUFFICES ASSUME NEW n \in 1 .. N, NEW x \in Q[n - 1]
               PROVE  step[n][x] = Into(d, x, comps[n]) /\ step[n][x] \in Q[n]
    OBVIOUS
  <2>1. n - 1 \in 0 .. N /\ n \in 0 .. N BY <1>1
  <2>2. Q[n - 1] = P(n - 1) /\ Q[n] = P(n)
    BY <1>5, <2>1
  <2> HIDE DEF Q, P
  <2>3. step[n][x] = Into(d, x, comps[n]) BY <2>2
  <2> HIDE DEF step
  <2> QED BY <1>3, <2>2, <2>3
<1> HIDE DEF Q, step, P, N
<1>7. \E h : IsLoop(h, N, c, step) /\ Within(h, N, Q)
  <2>1. N \in Nat /\ c \in Q[0] /\ Leads(N, Q, step)
    <3>1. 0 \in 0 .. N BY <1>1
    <3> QED BY <1>1, <1>2, <1>5, <1>6, <3>1 DEF Leads
  <2> QED BY ONLY <2>1, LoopWithin
<1>8. PICK h : /\ h = [n \in 0 .. N |-> IF n = 0 THEN c ELSE step[n][h[n - 1]]]
               /\ \A n \in 0 .. N : h[n] \in Q[n]
  BY <1>7 DEF IsLoop, Within
<1>9. Is(h)
  <2>1. \A n \in 0 .. N : n # 0 => n \in 1 .. N /\ n - 1 \in 0 .. N BY <1>1
  <2>2. \A n \in 0 .. N : n # 0 => step[n][h[n - 1]] = Into(d, h[n - 1], comps[n])
    BY <1>6, <1>8, <2>1
  <2>3. \A n \in 0 .. N : (IF n = 0 THEN c ELSE step[n][h[n - 1]])
                         = (IF n = 0 THEN c ELSE Into(d, h[n - 1], comps[n]))
    BY <2>2
  <2>4. [n \in 0 .. N |-> IF n = 0 THEN c ELSE step[n][h[n - 1]]]
          = [n \in 0 .. N |-> IF n = 0 THEN c ELSE Into(d, h[n - 1], comps[n])]
    BY ONLY <2>3
  <2>5. h = [n \in 0 .. N |-> IF n = 0 THEN c ELSE Into(d, h[n - 1], comps[n])]
    BY <1>8, <2>4
  <2> QED BY <2>5
<1>10. PICK f : f = it
  OBVIOUS
<1>11. Is(f)
  BY <1>9, <1>10
<1> HIDE DEF it
<1>12. f[0] = c /\ \A n \in 1 .. N : f[n] = Into(d, f[n - 1], comps[n])
  <2>1. f = [k \in 0 .. N |-> IF k = 0 THEN c ELSE Into(d, f[k - 1], comps[k])]
    BY <1>11
  <2>2. 0 \in 0 .. N /\ \A n \in 1 .. N : n \in 0 .. N /\ n # 0 BY <1>1
  <2> HIDE DEF Is
  <2> QED BY <2>1, <2>2
<1>13. \A n \in 0 .. N : f[n] \in P(n)
  <2>1. N \in Nat /\ f[0] \in Q[0]
    <3>1. 0 \in 0 .. N BY <1>1
    <3> QED BY <1>1, <1>2, <1>5, <1>12, <3>1
  <2>2. \A n \in 1 .. N : f[n - 1] \in Q[n - 1] => f[n] \in Q[n]
    BY <1>6, <1>12
  <2>3. \A n \in 0 .. N : f[n] \in Q[n]
    BY ONLY <2>1, <2>2, LoopStays
  <2> QED BY <1>5, <2>3
<1>14. Descend(d, c, comps) = f[N]
  BY <1>10 DEF Descend, it, N
<1> QED BY <1>1, <1>4, <1>13, <1>14

\* The current directory is a directory or nowhere.
LEMMA CwdFacts ==
  ASSUME NEW d, NEW O, NEW mvd, Good(d, O, mvd), NEW names, Len(names) \in Nat
  PROVE  CwdCluster(d, names) \in DirsOf(O) \cup {Unused}
<1> DEFINE N == Len(names)
           P(n) == DirsOf(O) \cup {Unused}
<1>1. N \in Nat /\ N \in 0 .. N
  OBVIOUS
<1>2. Root \in P(0)
  BY RootIsDir
<1>3. \A n \in 1 .. N : \A x \in P(n - 1) : EnterCwd(d, x, names[n]) \in P(n)
  BY EnterFacts
<1>4. \A x \in P(N) : x \in DirsOf(O) \cup {Unused}
  OBVIOUS
<1> DEFINE Q == [n \in 0 .. N |-> P(n)]
           step == [n \in 1 .. N |-> [x \in P(n - 1) |-> EnterCwd(d, x, names[n])]]
           Is(h) == h = [k \in 0 .. N |-> IF k = 0 THEN Root ELSE EnterCwd(d, h[k - 1], names[k])]
           it == CHOOSE h : Is(h)
<1>5. \A n \in 0 .. N : Q[n] = P(n)
  <2> HIDE DEF P
  <2> QED OBVIOUS
<1>6. \A n \in 1 .. N : \A x \in Q[n - 1] :
        step[n][x] = EnterCwd(d, x, names[n]) /\ step[n][x] \in Q[n]
  <2> SUFFICES ASSUME NEW n \in 1 .. N, NEW x \in Q[n - 1]
               PROVE  step[n][x] = EnterCwd(d, x, names[n]) /\ step[n][x] \in Q[n]
    OBVIOUS
  <2>1. n - 1 \in 0 .. N /\ n \in 0 .. N BY <1>1
  <2>2. Q[n - 1] = P(n - 1) /\ Q[n] = P(n)
    BY <1>5, <2>1
  <2> HIDE DEF Q, P
  <2>3. step[n][x] = EnterCwd(d, x, names[n]) BY <2>2
  <2> HIDE DEF step
  <2> QED BY <1>3, <2>2, <2>3
<1> HIDE DEF Q, step, P, N
<1>7. \E h : IsLoop(h, N, Root, step) /\ Within(h, N, Q)
  <2>1. N \in Nat /\ Root \in Q[0] /\ Leads(N, Q, step)
    <3>1. 0 \in 0 .. N BY <1>1
    <3> QED BY <1>1, <1>2, <1>5, <1>6, <3>1 DEF Leads
  <2> QED BY ONLY <2>1, LoopWithin
<1>8. PICK h : /\ h = [n \in 0 .. N |-> IF n = 0 THEN Root ELSE step[n][h[n - 1]]]
               /\ \A n \in 0 .. N : h[n] \in Q[n]
  BY <1>7 DEF IsLoop, Within
<1>9. Is(h)
  <2>1. \A n \in 0 .. N : n # 0 => n \in 1 .. N /\ n - 1 \in 0 .. N BY <1>1
  <2>2. \A n \in 0 .. N : n # 0 => step[n][h[n - 1]] = EnterCwd(d, h[n - 1], names[n])
    BY <1>6, <1>8, <2>1
  <2>3. \A n \in 0 .. N : (IF n = 0 THEN Root ELSE step[n][h[n - 1]])
                         = (IF n = 0 THEN Root ELSE EnterCwd(d, h[n - 1], names[n]))
    BY <2>2
  <2>4. [n \in 0 .. N |-> IF n = 0 THEN Root ELSE step[n][h[n - 1]]]
          = [n \in 0 .. N |-> IF n = 0 THEN Root ELSE EnterCwd(d, h[n - 1], names[n])]
    BY ONLY <2>3
  <2>5. h = [n \in 0 .. N |-> IF n = 0 THEN Root ELSE EnterCwd(d, h[n - 1], names[n])]
    BY <1>8, <2>4
  <2> QED BY <2>5
<1>10. PICK f : f = it
  OBVIOUS
<1>11. Is(f)
  BY <1>9, <1>10
<1> HIDE DEF it
<1>12. f[0] = Root /\ \A n \in 1 .. N : f[n] = EnterCwd(d, f[n - 1], names[n])
  <2>1. f = [k \in 0 .. N |-> IF k = 0 THEN Root ELSE EnterCwd(d, f[k - 1], names[k])]
    BY <1>11
  <2>2. 0 \in 0 .. N /\ \A n \in 1 .. N : n \in 0 .. N /\ n # 0 BY <1>1
  <2> HIDE DEF Is
  <2> QED BY <2>1, <2>2
<1>13. \A n \in 0 .. N : f[n] \in P(n)
  <2>1. N \in Nat /\ f[0] \in Q[0]
    <3>1. 0 \in 0 .. N BY <1>1
    <3> QED BY <1>1, <1>2, <1>5, <1>12, <3>1
  <2>2. \A n \in 1 .. N : f[n - 1] \in Q[n - 1] => f[n] \in Q[n]
    BY <1>6, <1>12
  <2>3. \A n \in 0 .. N : f[n] \in Q[n]
    BY ONLY <2>1, <2>2, LoopStays
  <2> QED BY <1>5, <2>3
<1>14. CwdCluster(d, names) = f[N]
  BY <1>10 DEF CwdCluster, it, N
<1> QED BY <1>1, <1>4, <1>13, <1>14

\* What the commands know of a path.
LEMMA PathFacts ==
  ASSUME NEW p \in Paths
  PROVE  /\ p.comps \in Seq(Names \cup Dots) /\ Len(p.comps) \in Nat /\ Len(p.comps) > 0
         /\ Len(Front(p.comps)) = Len(p.comps) - 1
         /\ \A i \in 1 .. Len(p.comps) - 1 : Front(p.comps)[i] = p.comps[i]
         /\ Leaf(p) = p.comps[Len(p.comps)] /\ Leaf(p) \in Names \cup Dots
         /\ ~DotLeaf(p) => Leaf(p) \in Names /\ Leaf(p) \notin Dots
         /\ ~ThroughDots(p) => \A i \in 1 .. Len(p.comps) : p.comps[i] \notin Dots
<1>1. PICK s : s = p.comps
  OBVIOUS
<1>2. s \in Seq(Names \cup Dots) /\ s # << >>
  BY <1>1, FatConstants
<1>3. Len(s) \in Nat /\ Len(s) > 0 /\ DOMAIN s = 1 .. Len(s)
  BY <1>2
<1>4. Front(s) = SubSeq(s, 1, Len(s) - 1)
  BY DEF Front
<1>5. PICK k : k = Len(s)
  OBVIOUS
<1>6. Len(Front(s)) = k - 1 /\ \A i \in 1 .. k - 1 : Front(s)[i] = s[i]
  BY ONLY <1>2, <1>3, <1>4, <1>5
<1>7. Leaf(p) = s[Len(s)]
  BY <1>1 DEF Leaf, Last
<1>8. s[Len(s)] \in Names \cup Dots
  BY <1>2, <1>3
<1>9. ToSet(s) = {s[i] : i \in 1 .. Len(s)}
  BY <1>3 DEF ToSet
<1>10. ~ThroughDots(p) => \A i \in 1 .. Len(s) : s[i] \notin Dots
  BY <1>1, <1>9 DEF ThroughDots
<1> QED BY <1>1, <1>2, <1>3, <1>5, <1>6, <1>7, <1>8, <1>10 DEF DotLeaf

\* A command works in a directory or nowhere.
LEMMA ParentOfFacts ==
  ASSUME NEW d, NEW O, NEW mvd \in BOOLEAN, Good(d, O, mvd), NEW p \in Paths,
         mvd => ~ThroughDots(p), cwd \in Seq(Names)
  PROVE  ParentOf(d, p) \in DirsOf(O) \cup {Unused}
<1>1. PICK f : f = Front(p.comps)
  OBVIOUS
<1>2. Len(f) \in Nat /\ (mvd => \A i \in 1 .. Len(f) : f[i] \notin Dots)
  <2>1. PICK k : k = Len(p.comps) OBVIOUS
  <2>2. /\ k \in Nat /\ k > 0 /\ Len(f) = k - 1
        /\ \A i \in 1 .. k - 1 : f[i] = p.comps[i]
        /\ ~ThroughDots(p) => \A i \in 1 .. k : p.comps[i] \notin Dots
    BY <1>1, <2>1, PathFacts
  <2>3. \A i \in 1 .. k - 1 : i \in 1 .. k BY <2>2
  <2> QED BY <2>2, <2>3
<1>3. PICK c : c = IF p.abs /\ Len(p.comps) > 1 THEN Root ELSE CwdCluster(d, cwd)
  OBVIOUS
<1>4. c \in DirsOf(O) \cup {Unused}
  <2>1. Len(cwd) \in Nat OBVIOUS
  <2> QED BY <1>3, <2>1, RootIsDir, CwdFacts
<1>5. ParentOf(d, p) = Descend(d, c, f)
  BY <1>1, <1>3 DEF ParentOf
<1> QED BY <1>2, <1>4, <1>5, DescendFacts

-----------------------------------------------------------------------------
(* The commands *)

\* A command starts with a path it can follow on a good disk.
Stands(d, O, mvd, p) ==
  /\ mvd \in BOOLEAN /\ Good(d, O, mvd) /\ p \in Paths /\ (mvd => ~ThroughDots(p))
  /\ cwd \in Seq(Names)

\* It leaves a good disk, and whatever it is cut at keeps the root directory.
Fine(q, mvd) == Okay(q) /\ \E O : Good(q.d, O, mvd)

\* A command that starts.
LEMMA StartFacts ==
  ASSUME NEW d \in Tame
  PROVE  Okay(Starts(d)) /\ Starts(d).d = d /\ Starts(d).res = "ok"
<1>1. Starts(d) = Run(d, {}, "ok", << >>)
  BY DEF Starts
<1> QED BY <1>1, RunFacts DEF Okay

\* What the commands find under the name they are given.
Meets(d, O, mvd, p, c, e) ==
  /\ Stands(d, O, mvd, p) /\ c = ParentOf(d, p) /\ c # Unused /\ ~DotLeaf(p)
  /\ e = LookUp(d, c, Leaf(p))

\* Its directory is one, its name is fit, and what is there is an object.
LEMMA GivenFacts ==
  ASSUME NEW d, NEW O, NEW mvd, NEW p, NEW c, NEW e, Meets(d, O, mvd, p, c, e)
  PROVE  /\ Good(d, O, mvd) /\ Base(d, O) /\ Hangs(d, O, mvd) /\ d \in Tame /\ d \in Disk
         /\ c \in DirsOf(O) /\ Leaf(p) \in Names /\ Leaf(p) \notin Dots
         /\ \/ e = NoEntry /\ \A y \in Entries(d, c) : y.name # Leaf(p)
            \/ /\ e \in Entries(d, c) /\ e \in O /\ e.name = Leaf(p)
               /\ e # NoEntry /\ e # RootEntry /\ e.ft \in {"dir", "file"}
               /\ e.ft = "dir" => e.clu \in DirsOf(O)
<1> USE DEF Meets
<1>1. Good(d, O, mvd) /\ Base(d, O) /\ Hangs(d, O, mvd) /\ d \in Tame /\ d \in Disk
  BY DEF Stands, Good, Base, Tame
<1>2. c \in DirsOf(O) \cup {Unused}
  BY ParentOfFacts DEF Stands
<1>3. c \in DirsOf(O)
  BY <1>2
<1>4. Leaf(p) \in Names /\ Leaf(p) \notin Dots
  BY PathFacts DEF Stands
<1>5. \/ e = NoEntry /\ \A y \in Entries(d, c) : y.name # Leaf(p)
      \/ /\ e \in Entries(d, c) /\ e \in O /\ e.name = Leaf(p)
         /\ e # NoEntry /\ e # RootEntry /\ e.ft \in {"dir", "file"}
         /\ e.ft = "dir" => e.clu \in DirsOf(O)
  BY <1>1, <1>2, LookedUp
<1> QED BY <1>1, <1>3, <1>4, <1>5

\* No entry of the disk lies outside of its clusters.
Aside(e) == Placed(<<Unused, 1>>, e)

\* Such an entry is no object.
LEMMA AsideFacts ==
  ASSUME NEW d, NEW O, NEW mvd, Good(d, O, mvd), NEW e
  PROVE  Aside(e) \notin O
<1> SUFFICES ASSUME Aside(e) \in O
             PROVE  FALSE
  OBVIOUS
<1>1. Base(d, O) /\ Hangs(d, O, mvd)
  BY DEF Good
<1>2. PICK x \in O : x = Aside(e)
  OBVIOUS
<1>3. x.pos = <<Unused, 1>>
  BY <1>2, PlacedFacts DEF Aside
<1>4. CASE x = RootEntry
  <2>1. RootEntry.pos = <<Unused, 0>> BY DEF RootEntry, Placed
  <2> QED BY <1>3, <1>4, <2>1
<1>5. CASE x # RootEntry
  <2>1. PICK c \in DirsOf(O) : x \in Entries(d, c) BY <1>1, <1>5 DEF Hangs
  <2>2. d \in Disk BY <1>1 DEF Base, Tame
  <2>3. x.pos \in Places(Cluster) BY <2>1, <2>2, EntryOpen
  <2>4. Unused \in Cluster BY <1>3, <2>3 DEF Places
  <2> QED BY <2>4, Clusters
<1> QED BY <1>4, <1>5

\* A file with clusters that nobody has gets its entry.
Unheld(d, O, clu, size) ==
  /\ clu \in Cluster \cup {Unused} /\ size \in Nat
  /\ SoundChain(d, clu) /\ Len(Chain(d, clu)) = size
  /\ \A x \in O : Held(d, x.clu) \cap Held(d, clu) = {}
NewName(d, O, c, n) ==
  /\ c \in DirsOf(O) /\ n \in Names /\ n \notin Dots
  /\ \A x \in Entries(d, c) : x.name # n
NewFile(r, O, mvd, clu, q) ==
  \/ q.res = "NoSpace" /\ Good(q.d, O, mvd)
  \/ /\ q.res = "ok" /\ Chain(q.d, clu) = Chain(r.d, clu)
     /\ \E x : x.ft = "file" /\ x.clu = clu /\ Good(q.d, O \cup {x}, mvd)

\* The entry is written, with or without a new cluster for the directory, or nothing is.
LEMMA NewEntryFacts ==
  ASSUME NEW r, Okay(r), r.res = "ok", NEW O, NEW mvd, Good(r.d, O, mvd),
         NEW c, NEW n, NewName(r.d, O, c, n), NEW clu, NEW size, Unheld(r.d, O, clu, size)
  PROVE  /\ Okay(NewEntry(r, c, Entry(n, "file", clu, size)))
         /\ NewFile(r, O, mvd, clu, NewEntry(r, c, Entry(n, "file", clu, size)))
<1> USE DEF NewName, Unheld
<1> PICK q : q = NewEntry(r, c, Entry(n, "file", clu, size))
  OBVIOUS
<1>1. PICK e : e = Entry(n, "file", clu, size)
  OBVIOUS
<1>2. /\ e \in EntryType /\ e.ft = "file" /\ e.clu = clu /\ e.size = size /\ e.name = n
      /\ Named(e)
  BY <1>1, EntryTypes DEF Entry, Named, InUse
<1>3. PICK F : F = Aside(e)
  OBVIOUS
<1>4. F.ft = "file" /\ F.clu = clu /\ F.size = size /\ F \notin O
  BY <1>2, <1>3, PlacedFacts, AsideFacts DEF Aside
<1>5. Base(r.d, O) /\ Hangs(r.d, O, mvd) /\ r.d \in Disk
  BY Steps DEF Good
<1>6. Obj(r.d, F)
  BY <1>4 DEF Obj, SoundSize
<1>7. PICK B : B = O \cup {F}
  OBVIOUS
<1>8. Base(r.d, B) /\ DirsOf(B) = DirsOf(O)
  <2>1. \A x \in O : Held(r.d, x.clu) \cap Held(r.d, F.clu) = {} BY <1>4
  <2>2. F.ft # "dir" BY <1>4
  <2> QED BY <1>5, <1>6, <1>7, <2>1, <2>2, BaseAdd
<1>9. PICK u : u = FindFreeSlot(r, c)
  OBVIOUS
<1>10. /\ Okay(u)
       /\ \/ u.res = "NoSpace" /\ u.d = r.d
          \/ u.res = "ok" /\ Found(r.d, u.d, B, c, u.val)
  BY <1>8, <1>9, FindFacts
<1>11. q = IF u.res = "ok" THEN WriteEntry(u, u.val, e) ELSE u
  BY <1>1, <1>9 DEF NewEntry, Then
<1>12. CASE u.res = "NoSpace" /\ u.d = r.d
  BY <1>10, <1>11, <1>12 DEF NewFile
<1>13. CASE u.res = "ok" /\ Found(r.d, u.d, B, c, u.val)
  <2>1. PICK g, p : g = u.d /\ p = u.val OBVIOUS
  <2>2. /\ Base(g, B) /\ p \in Places(Held(g, c)) /\ Open(g, c, p) /\ ~InUse(At(g, p))
        /\ \A x \in DirsOf(B) : /\ Entries(g, x) = Entries(r.d, x)
                                /\ \A y \in Places(Held(r.d, x)) : At(g, y) = At(r.d, y)
        /\ \A x \in B : x.ft # "dir" => Chain(g, x.clu) = Chain(r.d, x.clu)
    BY <1>13, <2>1 DEF Found
  <2>3. Hangs(g, O, mvd)
    BY <1>5, <1>8, <2>2, HangsSpare
  <2>4. Base(g, O) BY <1>7, <2>2, BaseSub
  <2>5. PICK x : x = Placed(p, e) OBVIOUS
  <2>6. x.ft = "file" /\ x.clu = clu /\ x.size = size BY <1>2, <2>5, PlacedFacts
  <2>7. Base(g, O \cup {x})
    <3>1. F \in B /\ (B \ {F}) \cup {x} = O \cup {x} BY <1>4, <1>7
    <3>2. x.ft = F.ft /\ x.clu = F.clu /\ x.size = F.size BY <1>4, <2>6
    <3>3. Base(g, (B \ {F}) \cup {x}) BY <2>2, <3>1, <3>2, BaseSwap
    <3> QED BY <3>1, <3>3
  <2>8. Only(g, c, p, e.name)
    <3>1. \A y \in Entries(g, c) : y.name # n BY <1>8, <2>2
    <3> QED BY <1>2, <2>4, <3>1, NameFree
  <2>9. Good(Put(g, p, e), O \cup {x}, mvd)
    <3>1. e.ft # "dir" BY <1>2
    <3> QED BY <1>2, <2>2, <2>3, <2>4, <2>5, <2>7, <2>8, <3>1, PutNew
  <2>10. p \in Places(Cluster) /\ g \in Disk
    <3>1. Held(g, c) \subseteq Cluster /\ g \in Disk BY <2>4, DirFacts
    <3> QED BY <2>2, <3>1 DEF Places
  <2>11. /\ Okay(q) /\ q.res = "ok" /\ q.d = Put(g, p, e)
    BY <1>2, <1>10, <1>11, <1>13, <2>1, <2>10, EntryStep
  <2>12. Chain(q.d, clu) = Chain(r.d, clu)
    <3>1. F \in B BY <1>7
    <3>2. SoundChain(g, clu) BY <1>4, <2>2, <3>1, ObjFacts
    <3>3. Chain(Put(g, p, e), clu) = Chain(g, clu) BY <1>2, <2>10, <3>2, PutOpen
    <3>4. Chain(g, clu) = Chain(r.d, clu)
      <4>1. F.ft # "dir" BY <1>4
      <4> QED BY <1>4, <2>2, <3>1, <4>1
    <3> QED BY <2>11, <3>3, <3>4
  <2>13. NewFile(r, O, mvd, clu, q) BY <2>6, <2>9, <2>11, <2>12 DEF NewFile
  <2> QED BY <2>11, <2>13
<1> QED BY <1>10, <1>12, <1>13

\* touch.
LEMMA TouchFine ==
  ASSUME NEW d, NEW O, NEW mvd, NEW p, Stands(d, O, mvd, p)
  PROVE  Fine(Touch(Starts(d), p), mvd)
<1>1. Good(d, O, mvd) /\ d \in Tame
  BY DEF Stands, Good, Base
<1>2. PICK r : r = Starts(d)
  OBVIOUS
<1>3. Okay(r) /\ r.d = d /\ r.res = "ok"
  BY <1>1, <1>2, StartFacts
<1>4. PICK c : c = ParentOf(d, p)
  OBVIOUS
<1>5. PICK e : e = LookUp(d, c, Leaf(p))
  OBVIOUS
<1>6. PICK q : q = Touch(r, p)
  OBVIOUS
<1>7. q = IF c = Unused THEN Refuses(r, "NoPath")
          ELSE IF DotLeaf(p) THEN Refuses(r, "BadName")
          ELSE IF e # NoEntry THEN r ELSE NewEntry(r, c, Entry(Leaf(p), "file", Unused, 0))
  BY <1>3, <1>4, <1>5, <1>6 DEF Touch, InParent, InDir
<1>8. \A s : Okay(Refuses(r, s)) /\ Refuses(r, s).d = d
  BY <1>3, Steps
<1>9. CASE c = Unused \/ DotLeaf(p)
  BY <1>1, <1>2, <1>6, <1>7, <1>8, <1>9 DEF Fine
<1>10. CASE c # Unused /\ ~DotLeaf(p) /\ e # NoEntry
  BY <1>1, <1>2, <1>3, <1>6, <1>7, <1>10 DEF Fine
<1>11. CASE c # Unused /\ ~DotLeaf(p) /\ e = NoEntry
  <2>1. NewName(d, O, c, Leaf(p)) /\ d \in Disk
    <3>1. Meets(d, O, mvd, p, c, e) BY <1>4, <1>5, <1>11 DEF Meets
    <3> QED BY <1>11, <3>1, GivenFacts DEF NewName
  <2>2. q = NewEntry(r, c, Entry(Leaf(p), "file", Unused, 0)) BY <1>7, <1>11
  <2>3. Unheld(d, O, Unused, 0)
    <3>1. Unused \notin Cluster BY Clusters
    <3>2. Chain(d, Unused) = << >> /\ Held(d, Unused) = {} BY <2>1, <3>1, HeldFacts
    <3>3. SoundChain(d, Unused) /\ Len(Chain(d, Unused)) = 0
      BY <3>2 DEF SoundChain, IsInjective
    <3> QED BY <3>2, <3>3 DEF Unheld
  <2>4. Okay(q) /\ NewFile(r, O, mvd, Unused, q)
    BY <1>1, <1>3, <2>1, <2>2, <2>3, NewEntryFacts
  <2> QED BY <1>2, <1>6, <2>4 DEF Fine, NewFile
<1> QED BY <1>9, <1>10, <1>11

\* A directory of one cluster with its two dot entries and nothing else.
DotsOnly(d, n, c) ==
  /\ n \in Cluster /\ d.fat[n] = Eoc
  /\ At(d, <<n, 1>>) = Dot(n) /\ At(d, <<n, 2>>) = DotDot(c)
  /\ \A k \in 1 .. SLOTS : k > 2 => At(d, <<n, k>>) = End

\* The chain of a directory of one cluster.
LEMMA OneCluster ==
  ASSUME NEW d \in Disk, NEW n \in Cluster, d.fat[n] = Eoc
  PROVE  /\ Chain(d, n) = <<n>> /\ SoundChain(d, n) /\ Held(d, n) = {n}
         /\ Slots(<<n>>) = {1} \X (1 .. SLOTS)
         /\ \A k \in 1 .. SLOTS : In(d, <<n>>, <<1, k>>) = At(d, <<n, k>>)
<1>1. PICK s : s = <<n>>
  OBVIOUS
<1>2. s \in Seq(Cluster) /\ Len(s) = 1 /\ s[1] = n
  BY <1>1
<1>3. IsInjective(s) /\ Links(d.fat, s)
  <2>1. DOMAIN s = {1} BY <1>2
  <2> QED BY <1>2, <2>1 DEF IsInjective, Links
<1>4. Chain(d, n) = s /\ SoundChain(d, n)
  <2>1. Len(s) > 0 /\ d.fat[s[Len(s)]] = Eoc BY <1>2
  <2> QED BY <1>2, <1>3, <2>1, NewChain
<1>5. Held(d, n) = {n}
  <2>1. Held(d, n) = ToSet(s) BY <1>4 DEF Held
  <2>2. DOMAIN s = {1} BY <1>2
  <2> QED BY <1>2, <2>1, <2>2 DEF ToSet
<1>6. Slots(s) = {1} \X (1 .. SLOTS)
  <2>1. 1 .. Len(s) = {1} BY <1>2
  <2> QED BY <2>1 DEF Slots
<1>7. \A k \in 1 .. SLOTS : In(d, s, <<1, k>>) = At(d, <<n, k>>)
  BY <1>2 DEF In, At
<1> QED BY <1>1, <1>4, <1>5, <1>6, <1>7

\* It is sound and has no entries.
LEMMA FreshDir ==
  ASSUME NEW d \in Disk, NEW n, NEW c, DotsOnly(d, n, c)
  PROVE  /\ Chain(d, n) = <<n>> /\ SoundChain(d, n) /\ Held(d, n) = {n}
         /\ SoundSlots(d, Chain(d, n)) /\ Entries(d, n) = {}
<1>1. n \in Cluster /\ d.fat[n] = Eoc
  BY DEF DotsOnly
<1>2. /\ Chain(d, n) = <<n>> /\ SoundChain(d, n) /\ Held(d, n) = {n}
      /\ Slots(<<n>>) = {1} \X (1 .. SLOTS)
      /\ \A k \in 1 .. SLOTS : In(d, <<n>>, <<1, k>>) = At(d, <<n, k>>)
  BY <1>1, OneCluster
<1>3. /\ Dot(n).ft = "dir" /\ Dot(n).name = "." /\ DotDot(c).ft = "dir" /\ DotDot(c).name = ".."
      /\ End.ft = "end"
  BY DEF Dot, DotDot, End, Entry
<1>4. \A k \in 1 .. SLOTS : \/ k = 1 /\ At(d, <<n, k>>) = Dot(n)
                            \/ k = 2 /\ At(d, <<n, k>>) = DotDot(c)
                            \/ k > 2 /\ At(d, <<n, k>>) = End
  BY Consts DEF DotsOnly
<1>5. SoundSlots(d, <<n>>)
  <2> SUFFICES ASSUME NEW s \in Slots(<<n>>), NEW t \in Slots(<<n>>), Before(s, t)
               PROVE  /\ In(d, <<n>>, s).ft = "end" => In(d, <<n>>, t).ft = "end"
                      /\ InUse(In(d, <<n>>, s)) /\ InUse(In(d, <<n>>, t)) =>
                           In(d, <<n>>, s).name # In(d, <<n>>, t).name
    BY DEF SoundSlots
  <2>1. PICK j \in 1 .. SLOTS : s = <<1, j>> BY <1>2
  <2>2. PICK k \in 1 .. SLOTS : t = <<1, k>> BY <1>2
  <2>3. j < k BY <2>1, <2>2 DEF Before
  <2>4. In(d, <<n>>, s) = At(d, <<n, j>>) /\ In(d, <<n>>, t) = At(d, <<n, k>>)
    BY <1>2, <2>1, <2>2
  <2>5. j \in Int /\ k \in Int BY Consts
  <2>6. PICK a, b : a = At(d, <<n, j>>) /\ b = At(d, <<n, k>>) OBVIOUS
  <2>7. \/ b = End /\ (a = Dot(n) \/ a = DotDot(c) \/ a = End)
        \/ b = DotDot(c) /\ a = Dot(n)
    BY <1>4, <2>3, <2>5, <2>6
  <2>8. /\ a.ft = "end" => b.ft = "end"
        /\ InUse(a) /\ InUse(b) => a.name # b.name
    BY <1>3, <2>7 DEF InUse
  <2> QED BY <2>4, <2>6, <2>8
<1>6. Entries(d, n) = {}
  <2> SUFFICES ASSUME NEW x \in Entries(d, n) PROVE FALSE
    OBVIOUS
  <2>1. x.pos \in Places({n}) /\ Named(At(d, x.pos)) BY <1>2, EntryOpen
  <2>2. PICK k \in 1 .. SLOTS : x.pos = <<n, k>> BY <2>1 DEF Places
  <2>3. ~Named(Dot(n)) /\ ~Named(DotDot(c)) /\ ~Named(End) BY <1>3 DEF Named, InUse, Dots
  <2> QED BY <1>4, <2>1, <2>2, <2>3
<1> QED BY <1>2, <1>5, <1>6

\* The new directory is made before its entry.
NewDirAt(r, O, mvd, n, c, q) ==
  /\ q.res = r.res /\ q.val = r.val /\ q.d.fat = r.d.fat
  /\ \E x : x.ft = "dir" /\ x.clu = n /\ Good(q.d, O \cup {x}, mvd)

EntryAt(r, pos, n, name, q) ==
  /\ At(q.d, pos) = Entry(name, "dir", n, 0)
  /\ \A p \in Places(Cluster) : p # pos /\ p[1] # n => At(q.d, p) = At(r.d, p)

Apply(d, O, c, pos, n, name) ==
  /\ NewName(d, O, c, name) /\ Open(d, c, pos) /\ ~InUse(At(d, pos))
  /\ n \in Cluster /\ d.fat[n] = Eoc /\ \A x \in O : n \notin Held(d, x.clu)

\* new_dir writes it, and then its entry is written.
LEMMA MkdirAtFacts ==
  ASSUME NEW r, Okay(r), NEW O, NEW mvd, Good(r.d, O, mvd),
         NEW c, NEW pos, NEW n, NEW name, Apply(r.d, O, c, pos, n, name)
  PROVE  /\ Okay(MkdirAt(r, pos, n, c, name))
         /\ NewDirAt(r, O, mvd, n, c, MkdirAt(r, pos, n, c, name))
         /\ EntryAt(r, pos, n, name, MkdirAt(r, pos, n, c, name))
<1>1. /\ NewName(r.d, O, c, name) /\ Open(r.d, c, pos) /\ ~InUse(At(r.d, pos))
      /\ n \in Cluster /\ r.d.fat[n] = Eoc /\ \A x \in O : n \notin Held(r.d, x.clu)
  BY DEF Apply
<1>2. /\ Base(r.d, O) /\ Hangs(r.d, O, mvd) /\ c \in DirsOf(O) /\ name \in Names
      /\ name \notin Dots /\ \A x \in Entries(r.d, c) : x.name # name
  BY <1>1 DEF Good, NewName
<1>3. c \in Cluster
  BY <1>2, DirFacts
<1>4. PICK s1, s2, e1, e2 : s1 = <<n, 1>> /\ s2 = <<n, 2>> /\ e1 = Dot(n) /\ e2 = DotDot(c)
  OBVIOUS
<1>5. s1[1] = n /\ s2[1] = n /\ s1 # s2
  BY <1>4
<1>6. PICK r1 : r1 = WriteBlock(r, n, ZeroBlock)
  OBVIOUS
<1>7. PICK r2 : r2 = WriteEntry(r1, s1, e1)
  OBVIOUS
<1>8. PICK r3 : r3 = WriteEntry(r2, s2, e2)
  OBVIOUS
<1>9. PICK e : e = Entry(name, "dir", n, 0)
  OBVIOUS
<1>10. PICK q : q = MkdirAt(r, pos, n, c, name)
  OBVIOUS
<1>11. q = WriteEntry(r3, pos, e)
  BY <1>4, <1>6, <1>7, <1>8, <1>9, <1>10 DEF MkdirAt, NewDir
<1>12. /\ e \in EntryType /\ e1 \in EntryType /\ e2 \in EntryType
       /\ e.ft = "dir" /\ e.clu = n /\ e.name = name /\ Named(e)
  BY <1>1, <1>2, <1>3, <1>4, <1>9, EntryTypes DEF Entry, Named, InUse
<1>13. /\ Okay(r1) /\ r1.res = r.res /\ r1.val = r.val /\ r1.d.fat = r.d.fat
       /\ r1.d.blk[n] = ZeroBlock /\ \A x \in Cluster : x # n => r1.d.blk[x] = r.d.blk[x]
  BY <1>1, <1>6, BlockStep, BlockTypes
<1>14. s1 \in Places(Cluster) /\ s2 \in Places(Cluster)
  <2>1. 1 \in 1 .. SLOTS /\ 2 \in 1 .. SLOTS BY Consts
  <2> QED BY <1>1, <1>4, <2>1 DEF Places
<1>15. Okay(r2) /\ r2.res = r.res /\ r2.val = r.val /\ r2.d = Put(r1.d, s1, e1)
  BY <1>7, <1>12, <1>13, <1>14, EntryStep
<1>16. Okay(r3) /\ r3.res = r.res /\ r3.val = r.val /\ r3.d = Put(r2.d, s2, e2)
  BY <1>8, <1>12, <1>14, <1>15, EntryStep
<1>17. PICK d1, d2, g : d1 = r1.d /\ d2 = r2.d /\ g = r3.d
  OBVIOUS
<1>18. d1 \in Tame /\ d2 \in Tame /\ g \in Tame /\ d1 \in Disk /\ d2 \in Disk /\ g \in Disk
       /\ r.d \in Disk /\ r.d \in Tame
  BY <1>13, <1>15, <1>16, <1>17, Steps
<1>19. /\ d2.fat = d1.fat /\ At(d2, s1) = e1
       /\ \A z \in Places(Cluster) : z # s1 => At(d2, z) = At(d1, z)
       /\ \A x \in Cluster : x # n => d2.blk[x] = d1.blk[x]
  <2>1. d2 = Put(d1, s1, e1) BY <1>15, <1>17
  <2>2. d1 \in Disk /\ s1 \in Places(Cluster) /\ e1 \in EntryType BY <1>12, <1>14, <1>18
  <2>3. d2.fat = d1.fat BY ONLY <2>1, <2>2, PutFacts
  <2>4. At(d2, s1) = e1 BY ONLY <2>1, <2>2, PutFacts
  <2>5. \A z \in Places(Cluster) : z # s1 => At(d2, z) = At(d1, z)
    BY ONLY <2>1, <2>2, PutFacts
  <2>6. \A x \in Cluster : x # s1[1] => d2.blk[x] = d1.blk[x]
    BY ONLY <2>1, <2>2, PutFacts
  <2> QED BY <1>5, <2>3, <2>4, <2>5, <2>6
<1>20. /\ g.fat = d2.fat /\ At(g, s2) = e2
       /\ \A z \in Places(Cluster) : z # s2 => At(g, z) = At(d2, z)
       /\ \A x \in Cluster : x # n => g.blk[x] = d2.blk[x]
  <2>1. g = Put(d2, s2, e2) BY <1>16, <1>17
  <2>2. d2 \in Disk /\ s2 \in Places(Cluster) /\ e2 \in EntryType BY <1>12, <1>14, <1>18
  <2>3. g.fat = d2.fat BY ONLY <2>1, <2>2, PutFacts
  <2>4. At(g, s2) = e2 BY ONLY <2>1, <2>2, PutFacts
  <2>5. \A z \in Places(Cluster) : z # s2 => At(g, z) = At(d2, z)
    BY ONLY <2>1, <2>2, PutFacts
  <2>6. \A x \in Cluster : x # s2[1] => g.blk[x] = d2.blk[x]
    BY ONLY <2>1, <2>2, PutFacts
  <2> QED BY <1>5, <2>3, <2>4, <2>5, <2>6
<1>21. g.fat = r.d.fat /\ \A x \in Cluster : x # n => g.blk[x] = r.d.blk[x]
  <2>1. d1.fat = r.d.fat /\ \A x \in Cluster : x # n => d1.blk[x] = r.d.blk[x]
    BY <1>13, <1>17
  <2>2. \A x \in Cluster : x # n => d2.blk[x] = d1.blk[x] BY <1>19
  <2>3. \A x \in Cluster : x # n => g.blk[x] = d2.blk[x] BY <1>20
  <2>4. \A x \in Cluster : x # n => g.blk[x] = r.d.blk[x] BY ONLY <2>1, <2>2, <2>3
  <2>5. g.fat = r.d.fat BY <1>19, <1>20, <2>1
  <2> QED BY <2>4, <2>5
<1>22. /\ At(g, <<n, 1>>) = Dot(n) /\ At(g, <<n, 2>>) = DotDot(c)
       /\ \A k \in 1 .. SLOTS : k > 2 => At(g, <<n, k>>) = End
  <2>1. At(g, s1) = e1 BY <1>5, <1>14, <1>19, <1>20
  <2>2. ASSUME NEW k \in 1 .. SLOTS, k > 2 PROVE At(g, <<n, k>>) = End
    <3>1. PICK z : z = <<n, k>> OBVIOUS
    <3>2. z \in Places(Cluster) /\ z # s1 /\ z # s2
      <4>1. k # 1 /\ k # 2 BY <2>2
      <4> QED BY <1>1, <1>4, <3>1, <4>1 DEF Places
    <3>3. At(g, z) = At(d1, z) BY <1>19, <1>20, <3>2
    <3>4. At(d1, z) = End
      <4>1. z[1] = n /\ z[2] = k BY <3>1
      <4>2. d1.blk[n] = ZeroBlock BY <1>13, <1>17
      <4>3. ZeroBlock.ents[k] = End BY DEF ZeroBlock
      <4> QED BY <4>1, <4>2, <4>3 DEF At
    <3> QED BY <3>1, <3>3, <3>4
  <2> QED BY <1>4, <1>20, <2>1, <2>2
<1>23. DotsOnly(g, n, c)
  BY <1>1, <1>21, <1>22 DEF DotsOnly
<1>24. /\ Chain(g, n) = <<n>> /\ SoundChain(g, n) /\ Held(g, n) = {n}
       /\ SoundSlots(g, Chain(g, n)) /\ Entries(g, n) = {}
  BY <1>18, <1>23, FreshDir
<1>25. Spares(r.d, g, O)
  <2>1. \A x \in O : \A k \in Held(r.d, x.clu) : g.fat[k] = r.d.fat[k] BY <1>21
  <2>2. ASSUME NEW x \in DirsOf(O), NEW k \in Held(r.d, x) PROVE g.blk[k] = r.d.blk[k]
    <3>1. Held(r.d, x) \subseteq Cluster /\ \E y \in O : y.clu = x BY <1>2, DirFacts
    <3>2. k \in Cluster /\ k # n BY <1>1, <3>1
    <3> QED BY <1>21, <3>2
  <2> QED BY <2>1, <2>2 DEF Spares
<1>26. Good(g, O, mvd)
  BY <1>18, <1>25, GoodSpare
<1>27. Base(g, O) /\ Hangs(g, O, mvd)
  BY <1>26 DEF Good
<1>28. /\ \A x \in O : Held(g, x.clu) = Held(r.d, x.clu)
       /\ Entries(g, c) = Entries(r.d, c) /\ Open(g, c, pos) /\ Held(g, c) = Held(r.d, c)
       /\ \A p \in Places(Held(r.d, c)) : At(g, p) = At(r.d, p)
  BY <1>1, <1>2, <1>18, <1>25, BaseSpare
<1>29. pos \in Places(Held(r.d, c)) /\ pos \in Places(Cluster) /\ pos[1] # n
  <2>1. PICK s \in Slots(Chain(r.d, c)) : pos = Pos(Chain(r.d, c), s) BY <1>1 DEF Open
  <2>2. Chain(r.d, c) \in Seq(Cluster) /\ Held(r.d, c) \subseteq Cluster
    BY <1>18, HeldFacts
  <2>3. pos \in Places(Held(r.d, c)) BY <2>1, <2>2, SlotPlaces DEF Held
  <2>4. \E y \in O : y.clu = c BY <1>2, DirFacts
  <2> QED BY <1>1, <2>2, <2>3, <2>4 DEF Places
<1>30. ~InUse(At(g, pos))
  BY <1>1, <1>28, <1>29
<1>31. PICK x : x = Placed(pos, e)
  OBVIOUS
<1>32. x.ft = "dir" /\ x.clu = n
  BY <1>12, <1>31, PlacedFacts
<1>33. Base(g, O \cup {x})
  <2>1. Obj(g, x) BY <1>1, <1>24, <1>32 DEF Obj, SoundSize
  <2>2. \A y \in O : Held(g, y.clu) \cap Held(g, x.clu) = {} BY <1>1, <1>24, <1>28, <1>32
  <2> QED BY <1>27, <2>1, <2>2, BaseAdd
<1>34. n \notin DirsOf(O)
  <2> SUFFICES ASSUME n \in DirsOf(O) PROVE FALSE OBVIOUS
  <2>1. n \in Held(r.d, n) /\ \E y \in O : y.clu = n BY <1>2, DirFacts
  <2> QED BY <1>1, <2>1
<1>35. SoundDots(g, x, c, mvd)
  BY <1>22, <1>32, DotsAt
<1>36. Only(g, c, pos, e.name)
  <2>1. \A y \in Entries(g, c) : y.name # name BY <1>2, <1>28
  <2> QED BY <1>2, <1>12, <1>27, <2>1, NameFree
<1>37. Good(Put(g, pos, e), O \cup {x}, mvd)
  <2>1. e.ft = "dir" => /\ Entries(g, e.clu) = {} /\ e.clu \notin DirsOf(O)
                        /\ SoundDots(g, x, c, mvd)
    BY <1>12, <1>24, <1>34, <1>35
  <2> QED BY <1>2, <1>12, <1>27, <1>28, <1>30, <1>31, <1>33, <1>36, <2>1, PutNew
<1>38. /\ Okay(q) /\ q.res = r.res /\ q.val = r.val /\ q.d = Put(g, pos, e)
  BY <1>11, <1>12, <1>16, <1>17, <1>29, EntryStep
<1>39. /\ q.d.fat = g.fat /\ At(q.d, pos) = e
       /\ \A p \in Places(Cluster) : p # pos => At(q.d, p) = At(g, p)
  BY <1>12, <1>18, <1>29, <1>38, PutFacts
<1>40. ASSUME NEW p \in Places(Cluster), p # pos, p[1] # n PROVE At(q.d, p) = At(r.d, p)
  <2>1. p[1] \in Cluster BY DEF Places
  <2>2. At(g, p) = At(r.d, p) BY <1>21, <1>40, <2>1 DEF At
  <2> QED BY <1>39, <1>40, <2>2
<1>41. NewDirAt(r, O, mvd, n, c, q)
  <2>1. q.d.fat = r.d.fat BY <1>21, <1>39
  <2> QED BY <1>32, <1>37, <1>38, <2>1 DEF NewDirAt
<1>42. EntryAt(r, pos, n, name, q)
  BY <1>9, <1>39, <1>40 DEF EntryAt
<1> QED BY <1>10, <1>38, <1>41, <1>42

\* The disk stays good while a slot is looked for and a cluster is taken.
LEMMA FoundGood ==
  ASSUME NEW d, NEW O, NEW mvd, Good(d, O, mvd), NEW d2, NEW c, NEW p, Found(d, d2, O, c, p)
  PROVE  Good(d2, O, mvd)
<1>1. Base(d, O) /\ Hangs(d, O, mvd)
  BY DEF Good
<1>2. /\ Base(d2, O)
      /\ \A x \in DirsOf(O) : /\ Entries(d2, x) = Entries(d, x)
                              /\ \A q \in Places(Held(d, x)) : At(d2, q) = At(d, q)
  BY DEF Found
<1>3. Hangs(d2, O, mvd)
  BY <1>1, <1>2, HangsSpare
<1> QED BY <1>2, <1>3 DEF Good

\* A cluster that is taken does no harm to the objects.
LEMMA TakesGood ==
  ASSUME NEW d, NEW O, NEW mvd, Good(d, O, mvd), NEW d2 \in Tame, NEW n, Takes(d, d2, n)
  PROVE  /\ Spares(d, d2, O) /\ Good(d2, O, mvd)
         /\ \A x \in O : n \notin Held(d2, x.clu)
<1>1. Base(d, O)
  BY DEF Good
<1>2. Keeps(d, d2)
  BY TakesKeeps
<1>3. Spares(d, d2, O)
  BY <1>1, <1>2, FreeSpared DEF Keeps
<1>4. Good(d2, O, mvd)
  BY <1>3, GoodSpare
<1>5. \A x \in O : Held(d2, x.clu) = Held(d, x.clu)
  BY <1>1, <1>3, BaseSpare
<1>6. ASSUME NEW x \in O, n \in Held(d, x.clu) PROVE FALSE
  <2>1. d.fat[n] # Unused BY <1>1, <1>6, ObjFacts
  <2> QED BY <2>1 DEF Takes
<1> QED BY <1>3, <1>4, <1>5, <1>6

\* The answers of the commands that do nothing.
LEMMA RefusedFine ==
  ASSUME NEW r, Okay(r), NEW O, NEW mvd, Good(r.d, O, mvd), NEW s
  PROVE  Fine(Refuses(r, s), mvd)
BY Steps DEF Fine

\* mkdir.
LEMMA MkdirFine ==
  ASSUME NEW d, NEW O, NEW mvd, NEW p, Stands(d, O, mvd, p)
  PROVE  Fine(Mkdir(Starts(d), p), mvd)
<1>1. Good(d, O, mvd) /\ d \in Tame
  BY DEF Stands, Good, Base
<1>2. PICK r : r = Starts(d)
  OBVIOUS
<1>3. Okay(r) /\ r.d = d /\ r.res = "ok"
  BY <1>1, <1>2, StartFacts
<1>4. PICK c : c = ParentOf(d, p)
  OBVIOUS
<1>5. PICK e : e = LookUp(d, c, Leaf(p))
  OBVIOUS
<1>6. PICK n : n = Leaf(p)
  OBVIOUS
<1>7. PICK q : q = Mkdir(r, p)
  OBVIOUS
<1>8. PICK u : u = FindFreeSlot(r, c)
  OBVIOUS
<1>9. PICK a : a = AllocCluster(u)
  OBVIOUS
<1>10. q = IF c = Unused THEN Refuses(r, "NoPath")
           ELSE IF DotLeaf(p) THEN Refuses(r, "BadName")
           ELSE IF e # NoEntry THEN Refuses(r, "Exists")
           ELSE IF u.res = "ok"
                THEN IF a.res = "ok" THEN MkdirAt(a, u.val, a.val, c, n) ELSE a
                ELSE u
  BY <1>3, <1>4, <1>5, <1>6, <1>7, <1>8, <1>9 DEF Mkdir, InParent, InDir, Then
<1>11. CASE c = Unused \/ DotLeaf(p) \/ e # NoEntry
  <2>1. \A s : Fine(Refuses(r, s), mvd) BY <1>1, <1>3, RefusedFine
  <2> QED BY <1>2, <1>7, <1>10, <1>11, <2>1
<1>12. CASE c # Unused /\ ~DotLeaf(p) /\ e = NoEntry
  <2>1. NewName(d, O, c, n) /\ c \in DirsOf(O)
    <3>1. Meets(d, O, mvd, p, c, e) BY <1>4, <1>5, <1>12 DEF Meets
    <3> QED BY <1>6, <1>12, <3>1, GivenFacts DEF NewName
  <2>2. Base(d, O) BY <1>1 DEF Good
  <2>3. /\ Okay(u)
        /\ \/ u.res = "NoSpace" /\ u.d = d
           \/ u.res = "ok" /\ Found(d, u.d, O, c, u.val)
    BY <1>3, <1>8, <2>1, <2>2, FindFacts
  <2>4. CASE u.res = "NoSpace" /\ u.d = d
    BY <1>1, <1>2, <1>7, <1>10, <1>12, <2>3, <2>4 DEF Fine
  <2>5. CASE u.res = "ok" /\ Found(d, u.d, O, c, u.val)
    <3>1. PICK g, pos : g = u.d /\ pos = u.val OBVIOUS
    <3>2. /\ Good(g, O, mvd) /\ Base(g, O) /\ Open(g, c, pos) /\ ~InUse(At(g, pos))
          /\ pos \in Places(Held(g, c)) /\ Entries(g, c) = Entries(d, c)
      BY <1>1, <2>1, <2>5, <3>1, FoundGood DEF Found
    <3>3. /\ Okay(a)
          /\ \/ a.res = "NoSpace" /\ a.d = g
             \/ a.res = "ok" /\ Takes(g, a.d, a.val)
      BY <1>9, <2>3, <2>5, <3>1, AllocFacts
    <3>4. CASE a.res = "NoSpace" /\ a.d = g
      BY <1>2, <1>7, <1>10, <1>12, <2>5, <3>2, <3>3, <3>4 DEF Fine
    <3>5. CASE a.res = "ok" /\ Takes(g, a.d, a.val)
      <4>1. PICK h, k : h = a.d /\ k = a.val OBVIOUS
      <4>2. h \in Tame /\ Takes(g, h, k) BY <3>3, <3>5, <4>1, Steps
      <4>3. Spares(g, h, O) /\ Good(h, O, mvd) /\ \A x \in O : k \notin Held(h, x.clu)
        BY <3>2, <4>2, TakesGood
      <4>4. /\ Entries(h, c) = Entries(g, c) /\ Open(h, c, pos)
            /\ \A z \in Places(Held(g, c)) : At(h, z) = At(g, z)
        BY <2>1, <3>2, <4>2, <4>3, BaseSpare
      <4>5. k \in Cluster /\ h.fat[k] = Eoc BY <4>2 DEF Takes
      <4>6. NewName(h, O, c, n) BY <2>1, <3>2, <4>4 DEF NewName
      <4>7. Apply(h, O, c, pos, k, n) BY <3>2, <4>3, <4>4, <4>5, <4>6 DEF Apply
      <4>8. q = MkdirAt(a, pos, k, c, n) BY <1>10, <1>12, <2>5, <3>1, <3>5, <4>1
      <4>9. Apply(a.d, O, c, pos, k, n) /\ Good(a.d, O, mvd) BY <4>1, <4>3, <4>7
      <4>10. Okay(q) /\ NewDirAt(a, O, mvd, k, c, q)
        BY ONLY <3>3, <4>8, <4>9, MkdirAtFacts
      <4> QED BY <1>2, <1>7, <4>10 DEF Fine, NewDirAt
    <3> QED BY <3>3, <3>4, <3>5
  <2> QED BY <2>3, <2>4, <2>5
<1> QED BY <1>11, <1>12

\* The clusters of a file or directory are freed; the others are as they were.
Others(d, g, H) == \A k \in Cluster \ H : g.fat[k] = d.fat[k]

LEMMA Freed ==
  ASSUME NEW r, Okay(r), NEW O, NEW mvd, Good(r.d, O, mvd), NEW x \in O, x # RootEntry
  PROVE  /\ Okay(FreeChain(r, x.clu)) /\ FreeChain(r, x.clu).res = r.res
         /\ FreeChain(r, x.clu).val = r.val /\ FreeChain(r, x.clu).d.blk = r.d.blk
         /\ Others(r.d, FreeChain(r, x.clu).d, Held(r.d, x.clu))
         /\ FreeChain(r, x.clu).d \in Tame
         /\ Spares(r.d, FreeChain(r, x.clu).d, O \ {x})
         /\ Base(FreeChain(r, x.clu).d, O \ {x})
<1>1. Base(r.d, O) /\ Hangs(r.d, O, mvd)
  BY DEF Good
<1>2. PICK u : u = FreeChain(r, x.clu)
  OBVIOUS
<1>3. Root \notin Held(r.d, x.clu)
  <2>1. RootEntry \in O /\ RootEntry.clu = Root BY <1>1, RootFacts DEF Hangs
  <2>2. Held(r.d, x.clu) \cap Held(r.d, Root) = {} BY <1>1, <2>1, ObjFacts
  <2>3. Root \in Held(r.d, Root)
    <3>1. Root \in DirsOf(O) BY RootIsDir
    <3> QED BY <1>1, <3>1, DirFacts
  <2> QED BY <2>2, <2>3
<1>4. /\ Okay(u) /\ u.res = r.res /\ u.val = r.val /\ u.d.blk = r.d.blk
      /\ \A k \in Cluster \ Held(r.d, x.clu) : u.d.fat[k] = r.d.fat[k]
  BY <1>2, <1>3, FreeFacts
<1>5. u.d \in Tame
  BY <1>4, Steps
<1>6. ASSUME NEW y \in O \ {x}, NEW k \in Held(r.d, y.clu)
      PROVE  u.d.fat[k] = r.d.fat[k]
  <2>1. k \in Cluster /\ k \notin Held(r.d, x.clu) BY <1>1, <1>6, ObjFacts
  <2> QED BY <1>4, <2>1
<1>7. Spares(r.d, u.d, O \ {x})
  BY <1>4, <1>6 DEF Spares
<1>8. Base(r.d, O \ {x})
  BY <1>1, BaseSub
<1>9. Base(u.d, O \ {x})
  BY <1>5, <1>7, <1>8, BaseSpare
<1>10. Others(r.d, u.d, Held(r.d, x.clu))
  BY <1>4 DEF Others
<1> QED BY <1>2, <1>4, <1>5, <1>7, <1>9, <1>10

\* An entry and what it leads to are removed.
LEMMA RemoveFine ==
  ASSUME NEW r, Okay(r), NEW O, NEW mvd, Good(r.d, O, mvd), NEW e \in O, e # RootEntry,
         NEW c \in DirsOf(O), e \in Entries(r.d, c),
         e.ft = "dir" => Entries(r.d, e.clu) = {}
  PROVE  Fine(RemoveNode(r, e), mvd)
<1>1. PICK u : u = FreeChain(r, e.clu)
  OBVIOUS
<1>2. PICK q : q = RemoveNode(r, e)
  OBVIOUS
<1>3. q = WriteEntry(u, e.pos, Wiped)
  BY <1>1, <1>2 DEF RemoveNode, Wipe
<1>4. PICK g : g = u.d
  OBVIOUS
<1>5. Okay(u) /\ g \in Tame /\ Spares(r.d, g, O \ {e}) /\ Base(g, O \ {e})
  BY <1>1, <1>4, Freed
<1>6. r.d \in Disk /\ e.pos \in Places(Cluster)
  BY Steps, EntryOpen
<1>7. Okay(q) /\ q.d = Put(g, e.pos, Wiped)
  BY <1>3, <1>4, <1>5, <1>6, EntryStep, EntryTypes
<1>8. Good(Put(g, e.pos, Wiped), (O \ {e}) \cup {}, mvd)
  <2>1. PICK w, in : w = Wiped /\ in = {} OBVIOUS
  <2>2. w \in EntryType BY <2>1, EntryTypes
  <2>3. Base(g, (O \ {e}) \cup in) BY <1>5, <2>1
  <2>4. Good(Put(g, e.pos, w), (O \ {e}) \cup in, mvd)
    BY <1>5, <2>1, <2>2, <2>3, PutOver
  <2> QED BY <2>1, <2>4
<1> QED BY <1>2, <1>7, <1>8 DEF Fine

\* rm and rmdir: the object goes, and its clusters are free.
LEMMA RmFine ==
  ASSUME NEW d, NEW O, NEW mvd, NEW p, Stands(d, O, mvd, p)
  PROVE  Fine(Rm(Starts(d), p), mvd) /\ Fine(Rmdir(Starts(d), p), mvd)
<1>1. Good(d, O, mvd) /\ d \in Tame
  BY DEF Stands, Good, Base
<1>2. PICK r : r = Starts(d)
  OBVIOUS
<1>3. Okay(r) /\ r.d = d /\ r.res = "ok"
  BY <1>1, <1>2, StartFacts
<1>4. PICK c : c = ParentOf(d, p)
  OBVIOUS
<1>5. PICK e : e = LookUp(d, c, Leaf(p))
  OBVIOUS
<1>6. PICK q, s : q = Rm(r, p) /\ s = Rmdir(r, p)
  OBVIOUS
<1>7. q = IF c = Unused THEN Refuses(r, "NoPath")
          ELSE IF DotLeaf(p) THEN Refuses(r, "BadName")
          ELSE IF e = NoEntry THEN Refuses(r, "NoPath")
          ELSE IF e.ft = "dir" THEN Refuses(r, "IsDir") ELSE RemoveNode(r, e)
  BY <1>3, <1>4, <1>5, <1>6 DEF Rm, InParent, InDir
<1>8. s = IF c = Unused THEN Refuses(r, "NoPath")
          ELSE IF DotLeaf(p) THEN Refuses(r, "BadName")
          ELSE IF e = NoEntry THEN Refuses(r, "NoPath")
          ELSE IF e.ft # "dir" THEN Refuses(r, "NotDir")
          ELSE IF Entries(d, e.clu) # {} THEN Refuses(r, "NotEmpty") ELSE RemoveNode(r, e)
  BY <1>3, <1>4, <1>5, <1>6 DEF Rmdir, InParent, InDir
<1>9. \A t : Fine(Refuses(r, t), mvd)
  BY <1>1, <1>3, RefusedFine
<1>10. ASSUME c # Unused, ~DotLeaf(p), e # NoEntry,
              e.ft = "dir" => Entries(d, e.clu) = {}
       PROVE  Fine(RemoveNode(r, e), mvd)
  <2>1. /\ e \in O /\ e # RootEntry /\ c \in DirsOf(O) /\ e \in Entries(d, c)
    <3>1. Meets(d, O, mvd, p, c, e) BY <1>4, <1>5, <1>10 DEF Meets
    <3> QED BY <1>10, <3>1, GivenFacts
  <2> QED BY <1>1, <1>3, <1>10, <2>1, RemoveFine
<1>11. Fine(q, mvd)
  BY <1>7, <1>9, <1>10
<1>12. Fine(s, mvd)
  BY <1>8, <1>9, <1>10
<1> QED BY <1>2, <1>6, <1>11, <1>12

\* A chain of clusters that were free in d, and that nobody else has in d2.
Loose(d, d2, s) ==
  /\ s \in Seq(Cluster) /\ IsInjective(s) /\ Links(d2.fat, s)
  /\ Len(s) > 0 => d2.fat[s[Len(s)]] = Eoc
  /\ \A i \in 1 .. Len(s) : d.fat[s[i]] = Unused /\ d2.fat[s[i]] # Unused

\* What one more cluster does to it.
LEMMA LooseGrows ==
  ASSUME NEW d \in Disk, NEW d1 \in Disk, NEW d2 \in Disk, NEW g \in Disk, NEW s, NEW n,
         Loose(d, d1, s), Keeps(d, d1), Takes(d1, d2, n),
         g.blk = d2.blk, Len(s) = 0 => g.fat = d2.fat,
         Len(s) > 0 => /\ g.fat[s[Len(s)]] = n
                       /\ \A x \in Cluster : x # s[Len(s)] => g.fat[x] = d2.fat[x]
  PROVE  Loose(d, g, Append(s, n)) /\ Keeps(d, g) /\ Len(Append(s, n)) = Len(s) + 1
<1>1. /\ s \in Seq(Cluster) /\ IsInjective(s) /\ Links(d1.fat, s)
      /\ \A i \in 1 .. Len(s) : d.fat[s[i]] = Unused /\ d1.fat[s[i]] # Unused
  BY DEF Loose
<1>2. /\ n \in Cluster /\ d1.fat[n] = Unused /\ d2.fat[n] = Eoc
      /\ \A c \in Cluster : c # n => d2.fat[c] = d1.fat[c] /\ d2.blk[c] = d1.blk[c]
  BY DEF Takes
<1>3. PICK k : k = Len(s)
  OBVIOUS
<1>4. k \in Nat
  BY <1>1, <1>3
<1>5. PICK t : t = Append(s, n)
  OBVIOUS
<1>6. /\ t \in Seq(Cluster) /\ Len(t) = k + 1 /\ t[k + 1] = n
      /\ \A i \in 1 .. k : t[i] = s[i] /\ t[i] \in Cluster
  BY ONLY <1>1, <1>2, <1>3, <1>4, <1>5
<1>7. \A i \in 1 .. k : t[i] # n
  BY <1>1, <1>2, <1>3, <1>6
<1>8. \A i, j \in 1 .. k : t[i] = t[j] => i = j
  <2>1. DOMAIN s = 1 .. k BY <1>1, <1>3
  <2>2. \A i, j \in 1 .. k : s[i] = s[j] => i = j BY <1>1, <2>1 DEF IsInjective
  <2> QED BY <1>6, <2>2
<1>9. \A i \in 1 .. k + 1 : i = k + 1 \/ i \in 1 .. k
  BY <1>4
<1>10. IsInjective(t)
  <2>1. DOMAIN t = 1 .. k + 1 BY <1>4, <1>6
  <2>2. ASSUME NEW i \in 1 .. k + 1, NEW j \in 1 .. k + 1, t[i] = t[j] PROVE i = j
    <3>1. CASE i = k + 1 /\ j = k + 1 BY <3>1
    <3>2. CASE i = k + 1 /\ j \in 1 .. k BY <1>6, <1>7, <2>2, <3>2
    <3>3. CASE j = k + 1 /\ i \in 1 .. k BY <1>6, <1>7, <2>2, <3>3
    <3>4. CASE i \in 1 .. k /\ j \in 1 .. k BY <1>8, <2>2, <3>4
    <3> QED BY <1>9, <3>1, <3>2, <3>3, <3>4
  <2> QED BY <2>1, <2>2 DEF IsInjective
<1>11. k > 0 => t[k] = s[k] /\ k \in 1 .. k
  BY <1>4, <1>6
<1>12. \A x \in Cluster : (k = 0 \/ x # t[k]) => g.fat[x] = d2.fat[x]
  BY <1>3, <1>4, <1>11
<1>13. g.fat[n] = Eoc
  <2>1. k = 0 \/ n # t[k] BY <1>4, <1>7, <1>11
  <2> QED BY <1>2, <1>12, <2>1
<1>14. \A i \in 1 .. k : i < k => g.fat[t[i]] = d1.fat[t[i]]
  <2> SUFFICES ASSUME NEW i \in 1 .. k, i < k PROVE g.fat[t[i]] = d1.fat[t[i]]
    OBVIOUS
  <2>1. k > 0 /\ k \in 1 .. k /\ i # k BY <1>4
  <2>2. t[i] # t[k] BY <1>8, <2>1
  <2>3. t[i] \in Cluster /\ t[i] # n BY <1>6, <1>7
  <2> QED BY <1>2, <1>12, <2>2, <2>3
<1>15. k > 0 => g.fat[t[k]] = n
  BY <1>3, <1>11
<1>16. Links(g.fat, t)
  <2> SUFFICES ASSUME NEW i \in 1 .. k PROVE g.fat[t[i]] = t[i + 1]
    <3>1. 1 .. Len(t) - 1 = 1 .. k BY <1>4, <1>6
    <3> QED BY <3>1 DEF Links
  <2>1. CASE i = k
    <3>1. k > 0 BY <2>1
    <3> QED BY <1>6, <1>15, <2>1, <3>1
  <2>2. CASE i # k
    <3>1. i < k /\ i + 1 \in 1 .. k /\ i \in 1 .. k - 1 BY <1>4, <2>2
    <3>2. g.fat[t[i]] = d1.fat[t[i]] BY <1>14, <3>1
    <3>3. d1.fat[s[i]] = s[i + 1] BY <1>1, <1>3, <3>1 DEF Links
    <3> QED BY <1>6, <3>1, <3>2, <3>3
  <2> QED BY <2>1, <2>2
<1>17. \A i \in 1 .. k + 1 : d.fat[t[i]] = Unused /\ g.fat[t[i]] # Unused
  <2> SUFFICES ASSUME NEW i \in 1 .. k + 1 PROVE d.fat[t[i]] = Unused /\ g.fat[t[i]] # Unused
    OBVIOUS
  <2>1. CASE i = k + 1
    <3>1. d.fat[n] = Unused BY <1>2 DEF Keeps
    <3>2. Eoc # Unused BY DEF Eoc, Unused
    <3> QED BY <1>6, <1>13, <2>1, <3>1, <3>2
  <2>2. CASE i \in 1 .. k
    <3>1. d.fat[t[i]] = Unused /\ d1.fat[t[i]] # Unused BY <1>1, <1>3, <1>6, <2>2
    <3>2. CASE i = k
      <4>1. k > 0 BY <2>2, <3>2
      <4>2. n # Unused BY <1>2, Clusters
      <4> QED BY <1>15, <3>1, <3>2, <4>1, <4>2
    <3>3. CASE i # k
      <4>1. i < k BY <1>4, <2>2, <3>3
      <4> QED BY <1>14, <2>2, <3>1, <4>1
    <3> QED BY <3>2, <3>3
  <2> QED BY <1>9, <2>1, <2>2
<1>18. Loose(d, g, t)
  <2>1. Len(t) = k + 1 /\ g.fat[t[k + 1]] = Eoc BY <1>6, <1>13
  <2> QED BY <1>6, <1>10, <1>16, <1>17, <2>1 DEF Loose
<1>19. Keeps(d, g)
  <2> SUFFICES ASSUME NEW c \in Cluster, d.fat[c] # Unused
               PROVE  g.fat[c] = d.fat[c] /\ g.blk[c] = d.blk[c]
    BY DEF Keeps
  <2>1. d1.fat[c] = d.fat[c] /\ d1.blk[c] = d.blk[c] BY DEF Keeps
  <2>2. c # n BY <1>2, <2>1
  <2>3. k = 0 \/ c # t[k]
    <3>1. k > 0 => d.fat[t[k]] = Unused BY <1>1, <1>3, <1>11
    <3> QED BY <1>4, <3>1
  <2>4. g.fat[c] = d2.fat[c] BY <1>12, <2>3
  <2> QED BY <1>2, <2>1, <2>2, <2>4
<1> QED BY <1>3, <1>5, <1>6, <1>18, <1>19

\* A run that takes a chain of n clusters.
Took(d, q, n) ==
  /\ Okay(q) /\ Keeps(d, q.d) /\ q.val \in Seq(Cluster)
  /\ \/ q.res = "NoSpace"
     \/ q.res = "ok" /\ Loose(d, q.d, q.val) /\ Len(q.val) = n

\* One turn of the loop of write_file.
LEMMA AllocOneFacts ==
  ASSUME NEW d \in Disk, NEW q, NEW n \in Nat, Took(d, q, n)
  PROVE  Took(d, AllocOne(q), n + 1)
<1>1. /\ Okay(q) /\ Keeps(d, q.d) /\ q.val \in Seq(Cluster)
      /\ \/ q.res = "NoSpace"
         \/ q.res = "ok" /\ Loose(d, q.d, q.val) /\ Len(q.val) = n
  BY DEF Took
<1>2. PICK a : a = AllocCluster(q)
  OBVIOUS
<1>3. PICK y : y = AllocOne(q)
  OBVIOUS
<1>4. y = IF q.res = "ok" THEN IF a.res = "ok" THEN Linked(a, q.val, a.val) ELSE a ELSE q
  BY <1>2, <1>3 DEF AllocOne, Then
<1>5. CASE q.res = "NoSpace"
  BY <1>1, <1>3, <1>4, <1>5 DEF Took
<1>6. CASE q.res = "ok" /\ Loose(d, q.d, q.val) /\ Len(q.val) = n
  <2>1. /\ Okay(a)
        /\ \/ a.res = "NoSpace" /\ a.d = q.d /\ a.val = q.val
           \/ a.res = "ok" /\ Takes(q.d, a.d, a.val)
    BY <1>1, <1>2, <1>6, AllocFacts
  <2>2. CASE a.res = "NoSpace" /\ a.d = q.d /\ a.val = q.val
    BY <1>1, <1>3, <1>4, <1>6, <2>1, <2>2 DEF Took
  <2>3. CASE a.res = "ok" /\ Takes(q.d, a.d, a.val)
    <3>1. PICK s, m : s = q.val /\ m = a.val OBVIOUS
    <3>2. y = Linked(a, s, m) BY <1>4, <1>6, <2>3, <3>1
    <3>3. PICK w : w = IF s = << >> THEN a ELSE WriteFat(a, Last(s), m) OBVIOUS
    <3>4. y = Gives(w, Append(s, m)) BY <3>2, <3>3 DEF Linked
    <3>5. /\ s \in Seq(Cluster) /\ Len(s) = n /\ Loose(d, q.d, s) /\ m \in Cluster
          /\ Takes(q.d, a.d, m) /\ (n > 0 => s[n] \in Cluster /\ s # << >> /\ Last(s) = s[n])
          /\ (n = 0 => s = << >>)
      <4>1. s \in Seq(Cluster) /\ Len(s) = n BY <1>1, <1>6, <3>1
      <4>2. n > 0 => s[n] \in Cluster /\ s # << >> BY <4>1
      <4>3. n = 0 => s = << >> BY <4>1
      <4>4. Last(s) = s[n] BY <4>1 DEF Last
      <4> QED BY <1>6, <2>3, <3>1, <4>1, <4>2, <4>3, <4>4 DEF Takes
    <3>6. /\ Okay(w) /\ w.res = "ok" /\ w.d.blk = a.d.blk /\ (n = 0 => w.d.fat = a.d.fat)
          /\ n > 0 => /\ w.d.fat[s[n]] = m
                      /\ \A x \in Cluster : x # s[n] => w.d.fat[x] = a.d.fat[x]
      <4>1. CASE n = 0
        BY <2>1, <2>3, <3>3, <3>5, <4>1
      <4>2. CASE n > 0
        <5>1. PICK l : l = s[n] OBVIOUS
        <5>2. l \in Cluster /\ w = WriteFat(a, l, m) BY <3>3, <3>5, <4>2, <5>1
        <5>3. m # Unused /\ m \in Cluster \cup {Unused, Eoc} BY <3>5, Clusters
        <5>4. /\ Okay(w) /\ w.res = a.res /\ w.d.fat[l] = m /\ w.d.blk = a.d.blk
              /\ \A x \in Cluster : x # l => w.d.fat[x] = a.d.fat[x]
          BY <2>1, <5>2, <5>3, FatStep
        <5> QED BY <2>3, <4>2, <5>1, <5>4
      <4> QED BY <4>1, <4>2
    <3>7. PICK d1, d2, g : d1 = q.d /\ d2 = a.d /\ g = w.d OBVIOUS
    <3>8. d1 \in Disk /\ d2 \in Disk /\ g \in Disk BY <1>1, <2>1, <3>6, <3>7, Steps
    <3>9. Loose(d, g, Append(s, m)) /\ Keeps(d, g) /\ Len(Append(s, m)) = n + 1
      <4>1. /\ Loose(d, d1, s) /\ Keeps(d, d1) /\ Takes(d1, d2, m)
            /\ g.blk = d2.blk /\ (Len(s) = 0 => g.fat = d2.fat)
        BY <1>1, <3>5, <3>6, <3>7
      <4>2. Len(s) > 0 => /\ g.fat[s[Len(s)]] = m
                          /\ \A x \in Cluster : x # s[Len(s)] => g.fat[x] = d2.fat[x]
        BY <3>5, <3>6, <3>7
      <4>3. Loose(d, g, Append(s, m)) /\ Keeps(d, g) /\ Len(Append(s, m)) = Len(s) + 1
        BY <3>8, <4>1, <4>2, LooseGrows
      <4> QED BY <3>5, <4>3
    <3>10. Okay(y) /\ y.d = g /\ y.res = "ok" /\ y.val = Append(s, m)
      <4>1. PICK t : t = Append(s, m) OBVIOUS
      <4>2. y = Gives(w, t) BY <3>4, <4>1
      <4>3. Okay(w) /\ w.res = "ok" BY <3>6
      <4>4. Okay(y) /\ y.d = w.d /\ y.res = w.res /\ y.val = t BY <4>2, <4>3, Steps
      <4> QED BY <3>7, <4>1, <4>3, <4>4
    <3>11. Append(s, m) \in Seq(Cluster) BY <3>9 DEF Loose
    <3> QED BY <1>3, <3>9, <3>10, <3>11 DEF Took
  <2> QED BY <2>1, <2>2, <2>3
<1> QED BY <1>1, <1>5, <1>6

\* All of its turns.
LEMMA AllocChainFacts ==
  ASSUME NEW r, Okay(r), r.res = "ok", NEW size \in Nat
  PROVE  Took(r.d, AllocChain(r, size), size)
<1> DEFINE N == size
           P(n) == {q \in [d : Tame, log : SUBSET Tame, res : {"ok", "NoSpace"}, val : Seq(Cluster)] :
                      Took(r.d, q, n)}
<1>1. N \in Nat /\ N \in 0 .. N
  OBVIOUS
<1>2. r.d \in Disk
  BY Steps
<1>3. \A q : \A n \in Nat : q \in P(n) <=> Took(r.d, q, n)
  <2> SUFFICES ASSUME NEW q, NEW n \in Nat, Took(r.d, q, n)
               PROVE  q \in [d : Tame, log : SUBSET Tame, res : {"ok", "NoSpace"}, val : Seq(Cluster)]
    OBVIOUS
  <2> QED BY DEF Took, Okay, Run
<1>4. Gives(r, << >>) \in P(0)
  <2>1. PICK q, s : q = Gives(r, s) /\ s = << >> OBVIOUS
  <2>2. Okay(q) /\ q.d = r.d /\ q.res = "ok" /\ q.val = s BY <2>1, Steps
  <2>3. s \in Seq(Cluster) /\ Len(s) = 0 BY <2>1
  <2>4. Loose(r.d, q.d, s) BY <2>3 DEF Loose, Links, IsInjective
  <2>5. Keeps(r.d, q.d) BY <2>2 DEF Keeps
  <2>6. Took(r.d, q, 0) BY <2>2, <2>3, <2>4, <2>5 DEF Took
  <2> QED BY <1>3, <2>1, <2>6
<1>5. \A n \in 1 .. N : \A x \in P(n - 1) : AllocOne(x) \in P(n)
  <2> SUFFICES ASSUME NEW n \in 1 .. N, NEW x \in P(n - 1) PROVE AllocOne(x) \in P(n)
    OBVIOUS
  <2>1. Took(r.d, x, n - 1) OBVIOUS
  <2>2. n - 1 \in Nat /\ n \in Nat /\ (n - 1) + 1 = n OBVIOUS
  <2>3. Took(r.d, AllocOne(x), (n - 1) + 1) BY <1>2, <2>1, <2>2, AllocOneFacts
  <2>4. Took(r.d, AllocOne(x), n) BY <2>2, <2>3
  <2> HIDE DEF P
  <2> QED BY <1>3, <2>2, <2>4
<1> DEFINE Q == [n \in 0 .. N |-> P(n)]
           step == [n \in 1 .. N |-> [x \in P(n - 1) |-> AllocOne(x)]]
           Is(h) == h = [k \in 0 .. N |-> IF k = 0 THEN Gives(r, << >>) ELSE AllocOne(h[k - 1])]
           it == CHOOSE h : Is(h)
<1>6. \A n \in 0 .. N : Q[n] = P(n)
  <2> HIDE DEF P
  <2> QED OBVIOUS
<1>7. \A n \in 1 .. N : \A x \in Q[n - 1] :
        step[n][x] = AllocOne(x) /\ step[n][x] \in Q[n]
  <2> SUFFICES ASSUME NEW n \in 1 .. N, NEW x \in Q[n - 1]
               PROVE  step[n][x] = AllocOne(x) /\ step[n][x] \in Q[n]
    OBVIOUS
  <2>1. n - 1 \in 0 .. N /\ n \in 0 .. N BY <1>1
  <2>2. Q[n - 1] = P(n - 1) /\ Q[n] = P(n)
    BY <1>6, <2>1
  <2> HIDE DEF Q, P
  <2>3. step[n][x] = AllocOne(x) BY <2>2
  <2> HIDE DEF step
  <2> QED BY <1>5, <2>2, <2>3
<1> HIDE DEF Q, step, P, N
<1>8. \E h : IsLoop(h, N, Gives(r, << >>), step) /\ Within(h, N, Q)
  <2>1. N \in Nat /\ Gives(r, << >>) \in Q[0] /\ Leads(N, Q, step)
    <3>1. 0 \in 0 .. N BY <1>1
    <3> QED BY <1>1, <1>4, <1>6, <1>7, <3>1 DEF Leads
  <2> QED BY ONLY <2>1, LoopWithin
<1>9. PICK h : /\ h = [n \in 0 .. N |-> IF n = 0 THEN Gives(r, << >>) ELSE step[n][h[n - 1]]]
               /\ \A n \in 0 .. N : h[n] \in Q[n]
  BY <1>8 DEF IsLoop, Within
<1>10. Is(h)
  <2>1. \A n \in 0 .. N : n # 0 => n \in 1 .. N /\ n - 1 \in 0 .. N BY <1>1
  <2>2. \A n \in 0 .. N : n # 0 => step[n][h[n - 1]] = AllocOne(h[n - 1])
    BY <1>7, <1>9, <2>1
  <2>3. \A n \in 0 .. N : (IF n = 0 THEN Gives(r, << >>) ELSE step[n][h[n - 1]])
                         = (IF n = 0 THEN Gives(r, << >>) ELSE AllocOne(h[n - 1]))
    BY <2>2
  <2>4. [n \in 0 .. N |-> IF n = 0 THEN Gives(r, << >>) ELSE step[n][h[n - 1]]]
          = [n \in 0 .. N |-> IF n = 0 THEN Gives(r, << >>) ELSE AllocOne(h[n - 1])]
    BY ONLY <2>3
  <2>5. h = [n \in 0 .. N |-> IF n = 0 THEN Gives(r, << >>) ELSE AllocOne(h[n - 1])]
    BY <1>9, <2>4
  <2> QED BY <2>5
<1>11. PICK f : f = it
  OBVIOUS
<1>12. Is(f)
  BY <1>10, <1>11
<1> HIDE DEF it
<1>13. f[0] = Gives(r, << >>) /\ \A n \in 1 .. N : f[n] = AllocOne(f[n - 1])
  <2>1. f = [k \in 0 .. N |-> IF k = 0 THEN Gives(r, << >>) ELSE AllocOne(f[k - 1])]
    BY <1>12
  <2>2. 0 \in 0 .. N /\ \A n \in 1 .. N : n \in 0 .. N /\ n # 0 BY <1>1
  <2> HIDE DEF Is
  <2> QED BY <2>1, <2>2
<1>14. \A n \in 0 .. N : f[n] \in P(n)
  <2>1. N \in Nat /\ f[0] \in Q[0]
    <3>1. 0 \in 0 .. N BY <1>1
    <3> QED BY <1>1, <1>4, <1>6, <1>13, <3>1
  <2>2. \A n \in 1 .. N : f[n - 1] \in Q[n - 1] => f[n] \in Q[n]
    BY <1>7, <1>13
  <2>3. \A n \in 0 .. N : f[n] \in Q[n]
    BY ONLY <2>1, <2>2, LoopStays
  <2> QED BY <1>6, <2>3
<1>15. AllocChain(r, size) = f[N]
  BY <1>11 DEF AllocChain, it, N
<1> QED
  <2>1. AllocChain(r, size) \in P(N) BY <1>1, <1>14, <1>15
  <2> QED BY <1>1, <1>3, <2>1 DEF N

\* The contents of a chain are written, and nothing else.
LEMMA WriteDataFacts ==
  ASSUME NEW r, Okay(r), NEW s \in Seq(Cluster), NEW x \in Payloads
  PROVE  /\ Okay(WriteData(r, s, x)) /\ WriteData(r, s, x).res = r.res
         /\ WriteData(r, s, x).d.fat = r.d.fat
         /\ \A c \in Cluster \ ToSet(s) : WriteData(r, s, x).d.blk[c] = r.d.blk[c]
<1> DEFINE N == Len(s)
           P(n) == {q \in [d : Tame, log : SUBSET Tame, res : {r.res}, val : {r.val}] :
                      /\ q.d.fat = r.d.fat
                      /\ \A c \in Cluster \ ToSet(s) : q.d.blk[c] = r.d.blk[c]}
<1>1. N \in Nat /\ N \in 0 .. N
  OBVIOUS
<1>2. \A q : q \in [d : Tame, log : SUBSET Tame, res : {r.res}, val : {r.val}]
                <=> Okay(q) /\ q.res = r.res /\ q.val = r.val
  BY DEF Okay, Run
<1>3. r \in P(0)
  BY <1>2
<1>4. \A n \in 1 .. N : \A q \in P(n - 1) : WriteBlock(q, s[n], DataBlock(x)) \in P(n)
  <2> SUFFICES ASSUME NEW n \in 1 .. N, NEW q \in P(n - 1)
               PROVE  WriteBlock(q, s[n], DataBlock(x)) \in P(n)
    OBVIOUS
  <2>1. /\ Okay(q) /\ q.res = r.res /\ q.val = r.val /\ q.d.fat = r.d.fat
        /\ \A c \in Cluster \ ToSet(s) : q.d.blk[c] = r.d.blk[c]
    BY <1>2
  <2> HIDE DEF P
  <2>2. PICK k, w, b : k = s[n] /\ b = DataBlock(x) /\ w = WriteBlock(q, k, b) OBVIOUS
  <2>3. k \in Cluster /\ k \in ToSet(s) /\ b \in BlockType
    <3>1. DOMAIN s = 1 .. N OBVIOUS
    <3> QED BY <2>2, <3>1, BlockTypes DEF ToSet
  <2>4. /\ Okay(w) /\ w.res = r.res /\ w.val = r.val /\ w.d.fat = r.d.fat
        /\ \A c \in Cluster : c # k => w.d.blk[c] = q.d.blk[c]
    BY <2>1, <2>2, <2>3, BlockStep
  <2>5. \A c \in Cluster \ ToSet(s) : w.d.blk[c] = r.d.blk[c]
    BY <2>1, <2>3, <2>4
  <2>6. w \in [d : Tame, log : SUBSET Tame, res : {r.res}, val : {r.val}]
    BY <1>2, <2>4
  <2>7. w \in P(n) BY <2>4, <2>5, <2>6 DEF P
  <2> QED BY <2>2, <2>7
<1>5. \A q \in P(N) : /\ Okay(q) /\ q.res = r.res /\ q.d.fat = r.d.fat
                      /\ \A c \in Cluster \ ToSet(s) : q.d.blk[c] = r.d.blk[c]
  BY <1>2
<1> DEFINE Q == [n \in 0 .. N |-> P(n)]
           step == [n \in 1 .. N |-> [y \in P(n - 1) |-> WriteBlock(y, s[n], DataBlock(x))]]
           Is(h) == h = [k \in 0 .. N |-> IF k = 0 THEN r ELSE WriteBlock(h[k - 1], s[k], DataBlock(x))]
           it == CHOOSE h : Is(h)
<1>6. \A n \in 0 .. N : Q[n] = P(n)
  <2> HIDE DEF P
  <2> QED OBVIOUS
<1>7. \A n \in 1 .. N : \A y \in Q[n - 1] :
        step[n][y] = WriteBlock(y, s[n], DataBlock(x)) /\ step[n][y] \in Q[n]
  <2> SUFFICES ASSUME NEW n \in 1 .. N, NEW y \in Q[n - 1]
               PROVE  step[n][y] = WriteBlock(y, s[n], DataBlock(x)) /\ step[n][y] \in Q[n]
    OBVIOUS
  <2>1. n - 1 \in 0 .. N /\ n \in 0 .. N BY <1>1
  <2>2. Q[n - 1] = P(n - 1) /\ Q[n] = P(n)
    BY <1>6, <2>1
  <2> HIDE DEF Q, P
  <2>3. step[n][y] = WriteBlock(y, s[n], DataBlock(x)) BY <2>2
  <2> HIDE DEF step
  <2> QED BY <1>4, <2>2, <2>3
<1> HIDE DEF Q, step, P, N
<1>8. \E h : IsLoop(h, N, r, step) /\ Within(h, N, Q)
  <2>1. N \in Nat /\ r \in Q[0] /\ Leads(N, Q, step)
    <3>1. 0 \in 0 .. N BY <1>1
    <3> QED BY <1>1, <1>3, <1>6, <1>7, <3>1 DEF Leads
  <2> QED BY ONLY <2>1, LoopWithin
<1>9. PICK h : /\ h = [n \in 0 .. N |-> IF n = 0 THEN r ELSE step[n][h[n - 1]]]
               /\ \A n \in 0 .. N : h[n] \in Q[n]
  BY <1>8 DEF IsLoop, Within
<1>10. Is(h)
  <2>1. \A n \in 0 .. N : n # 0 => n \in 1 .. N /\ n - 1 \in 0 .. N BY <1>1
  <2>2. \A n \in 0 .. N : n # 0 => step[n][h[n - 1]] = WriteBlock(h[n - 1], s[n], DataBlock(x))
    BY <1>7, <1>9, <2>1
  <2>3. \A n \in 0 .. N : (IF n = 0 THEN r ELSE step[n][h[n - 1]])
                         = (IF n = 0 THEN r ELSE WriteBlock(h[n - 1], s[n], DataBlock(x)))
    BY <2>2
  <2>4. [n \in 0 .. N |-> IF n = 0 THEN r ELSE step[n][h[n - 1]]]
          = [n \in 0 .. N |-> IF n = 0 THEN r ELSE WriteBlock(h[n - 1], s[n], DataBlock(x))]
    BY ONLY <2>3
  <2>5. h = [n \in 0 .. N |-> IF n = 0 THEN r ELSE WriteBlock(h[n - 1], s[n], DataBlock(x))]
    BY <1>9, <2>4
  <2> QED BY <2>5
<1>11. PICK f : f = it
  OBVIOUS
<1>12. Is(f)
  BY <1>10, <1>11
<1> HIDE DEF it
<1>13. f[0] = r /\ \A n \in 1 .. N : f[n] = WriteBlock(f[n - 1], s[n], DataBlock(x))
  <2>1. f = [k \in 0 .. N |-> IF k = 0 THEN r ELSE WriteBlock(f[k - 1], s[k], DataBlock(x))]
    BY <1>12
  <2>2. 0 \in 0 .. N /\ \A n \in 1 .. N : n \in 0 .. N /\ n # 0 BY <1>1
  <2> HIDE DEF Is
  <2> QED BY <2>1, <2>2
<1>14. \A n \in 0 .. N : f[n] \in P(n)
  <2>1. N \in Nat /\ f[0] \in Q[0]
    <3>1. 0 \in 0 .. N BY <1>1
    <3> QED BY <1>1, <1>3, <1>6, <1>13, <3>1
  <2>2. \A n \in 1 .. N : f[n - 1] \in Q[n - 1] => f[n] \in Q[n]
    BY <1>7, <1>13
  <2>3. \A n \in 0 .. N : f[n] \in Q[n]
    BY ONLY <2>1, <2>2, LoopStays
  <2> QED BY <1>6, <2>3
<1>15. WriteData(r, s, x) = f[N]
  BY <1>11 DEF WriteData, it, N
<1> QED
  <2>1. PICK q : q = WriteData(r, s, x) OBVIOUS
  <2>2. q \in P(N) BY <1>1, <2>1, <1>14, <1>15
  <2> QED BY <1>5, <2>1, <2>2

\* A good disk where a file has the chain s.
HasFile(d, mvd, clu, s) ==
  /\ Chain(d, clu) = s
  /\ \E O : /\ Good(d, O, mvd)
            /\ \E x \in O : x.ft = "file" /\ x.clu = clu

\* The data of a file go to its own clusters.
LEMMA WriteDataFine ==
  ASSUME NEW r, Okay(r), NEW mvd, NEW clu, NEW s, HasFile(r.d, mvd, clu, s), NEW x \in Payloads
  PROVE  Fine(WriteData(r, s, x), mvd)
<1>1. PICK d : d = r.d
  OBVIOUS
<1>2. d \in Disk /\ d \in Tame
  BY <1>1, Steps
<1>3. PICK O : Good(d, O, mvd) /\ \E y \in O : y.ft = "file" /\ y.clu = clu
  BY <1>1 DEF HasFile
<1>4. PICK y \in O : y.ft = "file" /\ y.clu = clu
  BY <1>3
<1>5. Chain(d, clu) = s
  BY <1>1 DEF HasFile
<1>6. s \in Seq(Cluster) /\ Held(d, y.clu) = ToSet(s)
  BY <1>2, <1>4, <1>5, HeldFacts DEF Held
<1>7. PICK q : q = WriteData(r, s, x)
  OBVIOUS
<1>8. /\ Okay(q) /\ q.d.fat = d.fat
      /\ \A c \in Cluster \ ToSet(s) : q.d.blk[c] = d.blk[c]
  BY <1>1, <1>6, <1>7, WriteDataFacts
<1>9. Base(d, O)
  BY <1>3 DEF Good
<1>10. ASSUME NEW c \in DirsOf(O), NEW k \in Held(d, c) PROVE q.d.blk[k] = d.blk[k]
  <2>1. PICK z \in O : z.ft = "dir" /\ z.clu = c BY <1>9, DirFacts
  <2>2. z # y BY <1>4, <2>1
  <2>3. Held(d, z.clu) \cap Held(d, y.clu) = {} /\ Held(d, z.clu) \subseteq Cluster
    BY <1>9, <2>2, ObjFacts
  <2>4. k \in Cluster \ ToSet(s) BY <1>6, <2>1, <2>3
  <2> QED BY <1>8, <2>4
<1>11. Spares(d, q.d, O)
  BY <1>8, <1>10 DEF Spares
<1>12. q.d \in Tame
  BY <1>8, Steps
<1>13. Good(q.d, O, mvd)
  BY <1>3, <1>11, <1>12, GoodSpare
<1> QED BY <1>7, <1>8, <1>13 DEF Fine

\* A chain was taken for a file, and the disk is as good as before.
LEMMA TookGood ==
  ASSUME NEW d \in Disk, NEW O, NEW mvd, Good(d, O, mvd), NEW q, NEW n, Took(d, q, n)
  PROVE  /\ Good(q.d, O, mvd)
         /\ \A x \in O : Held(q.d, x.clu) = Held(d, x.clu)
         /\ \A c \in DirsOf(O) : Entries(q.d, c) = Entries(d, c)
<1>1. Okay(q) /\ Keeps(d, q.d) /\ Base(d, O)
  BY DEF Took, Good
<1>2. q.d \in Tame
  BY <1>1, Steps
<1>3. Spares(d, q.d, O)
  BY <1>1, FreeSpared DEF Keeps
<1>4. Good(q.d, O, mvd)
  BY <1>2, <1>3, GoodSpare
<1>5. /\ \A x \in O : Held(q.d, x.clu) = Held(d, x.clu)
      /\ \A c \in DirsOf(O) : Entries(q.d, c) = Entries(d, c)
  BY <1>1, <1>2, <1>3, BaseSpare
<1> QED BY <1>4, <1>5

\* The chain that was made is one.
LEMMA TookChain ==
  ASSUME NEW d \in Disk, NEW O, NEW mvd, Good(d, O, mvd), NEW q, NEW n \in Nat, n > 0,
         Took(d, q, n), q.res = "ok", NEW s, s = q.val
  PROVE  /\ s \in Seq(Cluster) /\ s[1] \in Cluster
         /\ Chain(q.d, s[1]) = s /\ Unheld(q.d, O, s[1], n)
<1>1. /\ Okay(q) /\ Loose(d, q.d, s) /\ Len(s) = n
  BY DEF Took
<1>2. PICK g : g = q.d
  OBVIOUS
<1>3. g \in Disk
  BY <1>1, <1>2, Steps
<1>4. /\ s \in Seq(Cluster) /\ IsInjective(s) /\ Links(g.fat, s) /\ g.fat[s[Len(s)]] = Eoc
      /\ \A i \in 1 .. Len(s) : d.fat[s[i]] = Unused
  BY <1>1, <1>2 DEF Loose
<1>5. s[1] \in Cluster /\ Len(s) > 0
  BY <1>1, <1>4
<1>6. Chain(g, s[1]) = s /\ SoundChain(g, s[1])
  BY <1>3, <1>4, <1>5, NewChain
<1>7. Held(g, s[1]) = ToSet(s)
  BY <1>6 DEF Held
<1>8. ASSUME NEW x \in O, NEW k \in Held(g, x.clu), k \in ToSet(s) PROVE FALSE
  <2>1. k \in Held(d, x.clu) BY <1>2, <1>8, TookGood
  <2>2. Base(d, O) BY DEF Good
  <2>3. d.fat[k] # Unused BY <2>1, <2>2, ObjFacts
  <2>4. \E i \in 1 .. Len(s) : s[i] = k
    <3>1. DOMAIN s = 1 .. Len(s) BY <1>4
    <3> QED BY <1>8, <3>1 DEF ToSet
  <2> QED BY <1>4, <2>3, <2>4
<1>9. \A x \in O : Held(g, x.clu) \cap Held(g, s[1]) = {}
  BY <1>7, <1>8
<1>10. Unheld(g, O, s[1], n)
  BY <1>1, <1>5, <1>6, <1>9 DEF Unheld
<1> QED BY <1>2, <1>4, <1>5, <1>6, <1>10

\* The entry e is given the clusters that were taken, and its own are freed.  What
\* is left is a good disk if e was a file.
Over(r, O, mvd, c, e, clu, size) ==
  /\ Good(r.d, O, mvd) /\ e \in O /\ e # RootEntry /\ e.name \in Names
  /\ e.ft \in {"dir", "file"}
  /\ c \in DirsOf(O) /\ e \in Entries(r.d, c)
  /\ clu \in Cluster /\ Unheld(r.d, O, clu, size)

\* A file that is replaced gets the new chain and gives back the old one.
LEMMA ReplaceFacts ==
  ASSUME NEW r, Okay(r), NEW O, NEW mvd, NEW c, NEW e, NEW s, NEW x,
         Over(r, O, mvd, c, e, s[1], Size(x))
  PROVE  /\ Okay(Replace(r, e, s, x)) /\ Replace(r, e, s, x).res = r.res
         /\ e.ft = "file" => HasFile(Replace(r, e, s, x).d, mvd, s[1], Chain(r.d, s[1]))
<1>1. PICK clu, size : clu = s[1] /\ size = Size(x)
  OBVIOUS
<1>2. /\ Good(r.d, O, mvd) /\ e \in O /\ e # RootEntry /\ e.name \in Names
      /\ e.ft \in {"dir", "file"}
      /\ c \in DirsOf(O) /\ e \in Entries(r.d, c)
      /\ clu \in Cluster /\ size \in Nat
      /\ SoundChain(r.d, clu) /\ Len(Chain(r.d, clu)) = size
      /\ \A y \in O : Held(r.d, y.clu) \cap Held(r.d, clu) = {}
  BY <1>1 DEF Over, Unheld
<1>3. PICK q : q = Replace(r, e, s, x)
  OBVIOUS
<1>4. PICK u : u = FreeChain(r, e.clu)
  OBVIOUS
<1>5. PICK ne : ne = Entry(e.name, e.ft, clu, size)
  OBVIOUS
<1>6. q = WriteEntry(u, e.pos, ne)
  BY <1>1, <1>3, <1>4, <1>5 DEF Replace
<1>7. PICK d, g : d = r.d /\ g = u.d
  OBVIOUS
<1>8. /\ Okay(u) /\ u.res = r.res /\ g \in Tame
      /\ \A k \in Cluster \ Held(d, e.clu) : g.fat[k] = d.fat[k]
      /\ Spares(d, g, O \ {e}) /\ Base(g, O \ {e})
  <2>1. Okay(r) /\ Good(r.d, O, mvd) /\ e \in O /\ e # RootEntry BY <1>2
  <2>2. Okay(u) /\ u.res = r.res /\ u.d \in Tame BY ONLY <1>4, <2>1, Freed
  <2>3. Others(r.d, u.d, Held(r.d, e.clu)) BY ONLY <1>4, <2>1, Freed
  <2>4. Spares(r.d, u.d, O \ {e}) /\ Base(u.d, O \ {e}) BY ONLY <1>4, <2>1, Freed
  <2>5. \A k \in Cluster \ Held(d, e.clu) : g.fat[k] = d.fat[k] BY <1>7, <2>3 DEF Others
  <2> QED BY <1>7, <2>2, <2>4, <2>5
<1>9. d \in Disk /\ g \in Disk
  BY <1>7, <1>8, Steps
<1>10. e.pos \in Places(Cluster)
  BY <1>2, <1>7, <1>9, EntryOpen
<1>11. ne \in EntryType /\ ne.ft = e.ft /\ ne.name = e.name /\ ne.clu = clu /\ ne.size = size
  <2>1. clu \in Cluster \cup {Unused} BY <1>2
  <2> QED BY <1>2, <1>5, <2>1, EntryTypes DEF Entry
<1>12. Okay(q) /\ q.res = r.res /\ q.d = Put(g, e.pos, ne)
  BY <1>6, <1>7, <1>8, <1>10, <1>11, EntryStep
<1>13. ASSUME e.ft = "file"
       PROVE  HasFile(q.d, mvd, clu, Chain(d, clu))
  <2>1. PICK y, in : y = Placed(e.pos, ne) /\ in = {y} OBVIOUS
  <2>2. y.ft = "file" /\ y.clu = clu /\ y.size = size BY <1>11, <1>13, <2>1, PlacedFacts
  <2>3. \A k \in Held(d, clu) : g.fat[k] = d.fat[k]
    <3>1. Held(d, clu) \subseteq Cluster BY <1>9, HeldFacts
    <3>2. Held(d, e.clu) \cap Held(d, clu) = {} BY <1>2, <1>7
    <3> QED BY <1>8, <3>1, <3>2
  <2>4. Chain(g, clu) = Chain(d, clu) /\ SoundChain(g, clu)
    BY <1>2, <1>7, <1>9, <2>3, ChainSpared
  <2>5. Held(g, clu) = Held(d, clu) BY <2>4 DEF Held
  <2>6. Base(d, O \ {e})
    <3>1. Base(d, O) BY <1>2, <1>7 DEF Good
    <3> QED BY <3>1, BaseSub
  <2>7. \A z \in O \ {e} : Held(g, z.clu) = Held(d, z.clu)
    BY <1>8, <2>6, BaseSpare
  <2>8. Obj(g, y)
    <3>1. Len(Chain(g, clu)) = size /\ clu \in Cluster \cup {Unused} BY <1>2, <1>7, <2>4
    <3> QED BY <2>2, <2>4, <3>1 DEF Obj, SoundSize
  <2>9. \A z \in O \ {e} : Held(g, z.clu) \cap Held(g, y.clu) = {}
    BY <1>2, <1>7, <2>2, <2>5, <2>7
  <2>10. Base(g, (O \ {e}) \cup in)
    BY <1>8, <2>1, <2>8, <2>9, BaseAdd
  <2>11. Good(Put(g, e.pos, ne), (O \ {e}) \cup in, mvd)
    <3>1. ne.ft = "file" /\ ne.name = e.name /\ in = {Placed(e.pos, ne)}
      BY <1>11, <1>13, <2>1
    <3>2. e.ft # "dir" BY <1>13
    <3> QED BY <1>2, <1>7, <1>8, <1>11, <2>10, <3>1, <3>2, PutOver
  <2>12. Chain(Put(g, e.pos, ne), clu) = Chain(g, clu)
    BY <1>9, <1>10, <1>11, <2>4, PutOpen
  <2>13. y \in (O \ {e}) \cup in BY <2>1
  <2> QED BY <1>12, <2>2, <2>4, <2>11, <2>12, <2>13 DEF HasFile
<1> QED BY <1>1, <1>3, <1>7, <1>12, <1>13

\* write_file.
LEMMA WriteFine ==
  ASSUME NEW d, NEW O, NEW mvd, NEW p, Stands(d, O, mvd, p), NEW x \in Payloads \ {Empty}
  PROVE  /\ Okay(WriteFile(Starts(d), p, x))
         /\ \/ Fine(WriteFile(Starts(d), p, x), mvd)
            \/ /\ WriteFile(Starts(d), p, x).res = "ok"
               /\ LookUp(d, ParentOf(d, p), Leaf(p)).ft = "dir"
<1>1. Good(d, O, mvd) /\ d \in Tame /\ d \in Disk
  BY DEF Stands, Good, Base, Tame
<1>2. PICK r : r = Starts(d)
  OBVIOUS
<1>3. Okay(r) /\ r.d = d /\ r.res = "ok"
  BY <1>1, <1>2, StartFacts
<1>4. PICK c : c = ParentOf(d, p)
  OBVIOUS
<1>5. PICK e : e = LookUp(d, c, Leaf(p))
  OBVIOUS
<1>6. PICK n : n = Leaf(p)
  OBVIOUS
<1>7. PICK q : q = WriteFile(r, p, x)
  OBVIOUS
<1>8. PICK size : size = Size(x)
  OBVIOUS
<1>9. size \in Nat /\ size > 0
  BY <1>8, FatConstants
<1>10. PICK a : a = AllocChain(r, size)
  OBVIOUS
<1>11. PICK s : s = a.val
  OBVIOUS
<1>12. PICK w : w = IF e # NoEntry THEN Replace(a, e, s, x)
                    ELSE NewEntry(a, c, Entry(n, "file", s[1], size))
  OBVIOUS
<1>13. q = IF size > MaxFile THEN Refuses(r, "TooBig")
           ELSE IF c = Unused THEN Refuses(r, "NoPath")
           ELSE IF DotLeaf(p) THEN Refuses(r, "BadName")
           ELSE IF a.res = "ok" THEN IF w.res = "ok" THEN WriteData(w, s, x) ELSE w
           ELSE a
  BY <1>3, <1>4, <1>5, <1>6, <1>7, <1>8, <1>10, <1>11, <1>12
     DEF WriteFile, InParent, InDir, Then
<1>14. CASE size > MaxFile \/ c = Unused \/ DotLeaf(p)
  <2>1. \A t : Fine(Refuses(r, t), mvd) BY <1>1, <1>3, RefusedFine
  <2>2. Fine(q, mvd) BY <1>13, <1>14, <2>1
  <2> QED BY <1>2, <1>7, <2>2 DEF Fine
<1>15. CASE ~(size > MaxFile) /\ c # Unused /\ ~DotLeaf(p)
  <2>1. Took(d, a, size) BY <1>3, <1>9, <1>10, AllocChainFacts
  <2>2. Okay(a) /\ (a.res = "ok" \/ a.res = "NoSpace") BY <2>1 DEF Took
  <2>3. /\ Good(a.d, O, mvd)
        /\ \A y \in DirsOf(O) : Entries(a.d, y) = Entries(d, y)
    BY <1>1, <2>1, TookGood
  <2>4. CASE a.res = "NoSpace"
    <3>1. q = a BY <1>13, <1>15, <2>4
    <3> QED BY <1>2, <1>7, <2>2, <2>3, <3>1 DEF Fine
  <2>5. CASE a.res = "ok"
    <3>1. s[1] \in Cluster /\ s \in Seq(Cluster) /\ Chain(a.d, s[1]) = s /\ Unheld(a.d, O, s[1], size)
      BY <1>1, <1>9, <1>11, <2>1, <2>5, TookChain
    <3>2. q = IF w.res = "ok" THEN WriteData(w, s, x) ELSE w BY <1>13, <1>15, <2>5
    <3>3. /\ c \in DirsOf(O) /\ n \in Names /\ n \notin Dots
          /\ \/ e = NoEntry /\ \A y \in Entries(d, c) : y.name # n
             \/ /\ e \in Entries(d, c) /\ e \in O /\ e.name = n
                /\ e # NoEntry /\ e # RootEntry /\ e.ft \in {"dir", "file"}
      <4>1. Meets(d, O, mvd, p, c, e) BY <1>4, <1>5, <1>15 DEF Meets
      <4> QED BY <1>6, <4>1, GivenFacts
    <3>4. CASE e = NoEntry
      <4>1. NewName(a.d, O, c, n) BY <2>3, <3>3, <3>4 DEF NewName
      <4>2. w = NewEntry(a, c, Entry(n, "file", s[1], size)) BY <1>12, <3>4
      <4>3. Okay(w) /\ NewFile(a, O, mvd, s[1], w)
        BY <2>2, <2>3, <2>5, <3>1, <4>1, <4>2, NewEntryFacts
      <4>4. CASE w.res = "NoSpace" /\ Good(w.d, O, mvd)
        BY <1>2, <1>7, <3>2, <4>3, <4>4 DEF Fine
      <4>5. CASE w.res = "ok" /\ HasFile(w.d, mvd, s[1], s)
        <5>1. Fine(WriteData(w, s, x), mvd) BY <4>3, <4>5, WriteDataFine
        <5> QED BY <1>2, <1>7, <3>2, <4>5, <5>1 DEF Fine
      <4>6. \/ w.res = "NoSpace" /\ Good(w.d, O, mvd)
            \/ w.res = "ok" /\ HasFile(w.d, mvd, s[1], s)
        <5>1. ASSUME NEW y, y.ft = "file", y.clu = s[1], Good(w.d, O \cup {y}, mvd),
                     Chain(w.d, s[1]) = s
              PROVE  HasFile(w.d, mvd, s[1], s)
          BY <5>1 DEF HasFile
        <5> QED BY <3>1, <4>3, <5>1 DEF NewFile
      <4> QED BY <4>4, <4>5, <4>6
    <3>5. CASE e # NoEntry
      <4>1. /\ e \in Entries(d, c) /\ e \in O /\ e.name = n /\ e # RootEntry
            /\ e.ft \in {"dir", "file"}
        BY <3>3, <3>5
      <4>2. Over(a, O, mvd, c, e, s[1], Size(x))
        BY <1>8, <2>3, <3>1, <3>3, <4>1 DEF Over
      <4>3. w = Replace(a, e, s, x) BY <1>12, <3>5
      <4>4. /\ Okay(w) /\ w.res = "ok"
            /\ e.ft = "file" => HasFile(w.d, mvd, s[1], s)
        <5>1. Okay(w) /\ w.res = a.res BY <2>2, <4>2, <4>3, ReplaceFacts
        <5>2. e.ft = "file" => HasFile(w.d, mvd, s[1], Chain(a.d, s[1]))
          BY <2>2, <4>2, <4>3, ReplaceFacts
        <5> QED BY <2>5, <3>1, <5>1, <5>2
      <4>5. q = WriteData(w, s, x) BY <3>2, <4>4
      <4>6. CASE e.ft = "file"
        <5>1. Fine(q, mvd) BY <4>4, <4>5, <4>6, WriteDataFine
        <5> QED BY <1>2, <1>7, <5>1 DEF Fine
      <4>7. CASE e.ft = "dir"
        <5>1. Okay(q) /\ q.res = "ok" BY <3>1, <4>4, <4>5, WriteDataFacts
        <5> QED BY <1>2, <1>4, <1>5, <1>7, <4>7, <5>1
      <4> QED BY <4>1, <4>6, <4>7
    <3> QED BY <3>4, <3>5
  <2> QED BY <2>2, <2>4, <2>5
<1> QED BY <1>14, <1>15

\* A disk that is good with the ".." of its directories is good without.
LEMMA GoodMono ==
  ASSUME NEW d, NEW O, NEW mvd, Good(d, O, mvd), NEW mvd2, mvd => mvd2
  PROVE  Good(d, O, mvd2)
<1>1. \A x, c : SoundDots(d, x, c, mvd) => SoundDots(d, x, c, mvd2)
  BY DEF SoundDots
<1>2. Base(d, O) /\ Hangs(d, O, mvd)
  BY DEF Good
<1>3. Hangs(d, O, mvd2)
  BY <1>1, <1>2 DEF Hangs
<1> QED BY <1>2, <1>3 DEF Good

\* The entry e of the directory c goes to the directory t, under the name n.
Moves(r, O, mvd, c, e, t, n) ==
  /\ Good(r.d, O, mvd) /\ c \in DirsOf(O) /\ e \in Entries(r.d, c) /\ e \in O /\ e # RootEntry
  /\ t \in DirsOf(O) /\ n \in Names /\ n \notin Dots

\* The new entry is written and the old one wiped.
LEMMA MvEntryFine ==
  ASSUME NEW r, Okay(r), r.res = "ok", NEW O, NEW mvd, NEW c, NEW e, NEW t, NEW n,
         Moves(r, O, mvd, c, e, t, n), NEW mvd2, mvd => mvd2,
         MvEntry(r, e, t, n).res = "ok" /\ e.ft = "dir" /\ c # t => mvd2
  PROVE  Fine(MvEntry(r, e, t, n), mvd2)
<1>1. /\ Good(r.d, O, mvd) /\ c \in DirsOf(O) /\ e \in Entries(r.d, c) /\ e \in O
      /\ e # RootEntry /\ t \in DirsOf(O) /\ n \in Names /\ n \notin Dots
  BY DEF Moves
<1>2. Base(r.d, O) /\ r.d \in Disk
  BY <1>1, Steps DEF Good
<1>3. PICK d : d = r.d
  OBVIOUS
<1>4. PICK q : q = MvEntry(r, e, t, n)
  OBVIOUS
<1>5. PICK u : u = FindFreeSlot(r, t)
  OBVIOUS
<1>6. PICK ne : ne = Entry(n, e.ft, e.clu, e.size)
  OBVIOUS
<1>7. q = IF LookUp(d, t, n) # NoEntry THEN Refuses(r, "Exists")
          ELSE IF u.res = "ok" THEN WriteEntry(WriteEntry(u, u.val, ne), e.pos, Wiped)
          ELSE u
  BY <1>3, <1>4, <1>5, <1>6 DEF MvEntry, Then, Has, Wipe
<1>8. CASE LookUp(d, t, n) # NoEntry
  <2>1. Fine(q, mvd) BY <1>1, <1>7, <1>8, RefusedFine
  <2> QED BY <1>4, <2>1, GoodMono DEF Fine
<1>9. CASE LookUp(d, t, n) = NoEntry
  <2>1. \A y \in Entries(d, t) : y.name # n
    <3>1. t \in DirsOf(O) \cup {Unused} BY <1>1
    <3>2. PICK x : x = LookUp(d, t, n) OBVIOUS
    <3>3. \/ x = NoEntry /\ \A y \in Entries(d, t) : y.name # n
          \/ x # NoEntry
      BY <1>1, <1>3, <3>1, <3>2, LookedUp
    <3> QED BY <1>9, <3>2, <3>3
  <2>2. /\ Okay(u)
        /\ \/ u.res = "NoSpace" /\ u.d = d
           \/ u.res = "ok" /\ Found(d, u.d, O, t, u.val)
    BY <1>1, <1>2, <1>3, <1>5, FindFacts
  <2>3. CASE u.res = "NoSpace" /\ u.d = d
    <3>1. q = u BY <1>7, <1>9, <2>3
    <3> QED BY <1>1, <1>3, <1>4, <2>2, <2>3, <3>1, GoodMono DEF Fine
  <2>4. CASE u.res = "ok" /\ Found(d, u.d, O, t, u.val)
    <3>1. PICK g, p : g = u.d /\ p = u.val OBVIOUS
    <3>2. /\ Good(g, O, mvd) /\ Base(g, O) /\ Open(g, t, p) /\ ~InUse(At(g, p))
          /\ p \in Places(Held(g, t))
          /\ \A y \in DirsOf(O) : Entries(g, y) = Entries(d, y)
      <4>1. Good(d, O, mvd) /\ Found(d, g, O, t, p) BY <1>1, <1>3, <2>4, <3>1
      <4>2. Good(g, O, mvd) BY <4>1, FoundGood
      <4> QED BY <4>1, <4>2 DEF Found
    <3>3. e \in Entries(g, c) /\ g \in Disk BY <1>1, <1>3, <3>2, DirFacts
    <3>4. /\ e.ft \in {"dir", "file"} /\ e.clu \in Cluster \cup {Unused} /\ e.size \in Nat
      <4>1. e \in Listed(g, Held(g, c)) /\ Held(g, c) \subseteq Cluster
        BY <3>3, EntriesAre, HeldFacts
      <4> QED BY <3>3, <4>1, ListedFacts
    <3>5. /\ ne \in EntryType /\ ne.ft = e.ft /\ ne.clu = e.clu /\ ne.size = e.size
          /\ ne.name = n
      BY <1>1, <1>6, <3>4, EntryTypes DEF Entry
    <3>6. Only(g, t, p, ne.name)
      <4>1. \A y \in Entries(g, t) : y.name # n BY <1>1, <2>1, <3>2
      <4> QED BY <1>1, <3>2, <3>5, <4>1, NameFree
    <3>7. p \in Places(Cluster) /\ e.pos \in Places(Cluster)
      <4>1. Held(g, t) \subseteq Cluster BY <3>3, HeldFacts
      <4> QED BY <3>2, <3>3, <4>1, EntryOpen DEF Places
    <3>8. PICK w : w = WriteEntry(u, p, ne) OBVIOUS
    <3>9. Okay(w) /\ w.res = "ok" /\ w.d = Put(g, p, ne)
      BY <2>2, <2>4, <3>1, <3>5, <3>7, <3>8, EntryStep
    <3>10. q = WriteEntry(w, e.pos, Wiped) BY <1>7, <1>9, <2>4, <3>1, <3>8
    <3>11. Okay(q) /\ q.res = "ok" /\ q.d = Put(Put(g, p, ne), e.pos, Wiped)
      <4>1. Wiped \in EntryType BY EntryTypes
      <4> QED BY <3>7, <3>9, <3>10, <4>1, EntryStep
    <3>12. e.ft = "dir" /\ c # t => mvd2 BY <1>4, <3>11
    <3>13. Good(Put(Put(g, p, ne), e.pos, Wiped), (O \ {e}) \cup {Placed(p, ne)}, mvd2)
      BY <1>1, <3>2, <3>3, <3>5, <3>6, <3>12, PutMoved
    <3> QED BY <1>4, <3>11, <3>13 DEF Fine
  <2> QED BY <2>2, <2>3, <2>4
<1> QED BY <1>8, <1>9

\* mv.
LEMMA MvFine ==
  ASSUME NEW d, NEW O, NEW mvd, NEW p, NEW p2, Stands(d, O, mvd, p), Stands(d, O, mvd, p2),
         NEW mvd2, mvd => mvd2,
         (/\ Mv(Starts(d), p, p2).res = "ok"
          /\ LookUp(d, ParentOf(d, p), Leaf(p)).ft = "dir"
          /\ ParentOf(d, p) # ParentOf(d, p2)) => mvd2
  PROVE  Fine(Mv(Starts(d), p, p2), mvd2)
<1>1. Good(d, O, mvd) /\ d \in Tame
  BY DEF Stands, Good, Base
<1>2. PICK r : r = Starts(d)
  OBVIOUS
<1>3. Okay(r) /\ r.d = d /\ r.res = "ok"
  BY <1>1, <1>2, StartFacts
<1>4. PICK c, t : c = ParentOf(d, p) /\ t = ParentOf(d, p2)
  OBVIOUS
<1>5. PICK e : e = LookUp(d, c, Leaf(p))
  OBVIOUS
<1>6. PICK n : n = Leaf(p2)
  OBVIOUS
<1>7. PICK q : q = Mv(r, p, p2)
  OBVIOUS
<1>8. q = IF c = Unused THEN Refuses(r, "NoPath")
          ELSE IF DotLeaf(p) THEN Refuses(r, "BadName")
          ELSE IF e = NoEntry THEN Refuses(r, "NoPath")
          ELSE IF DotLeaf(p2) THEN Refuses(r, "BadName")
          ELSE IF t = Unused THEN Refuses(r, "NoPath")
          ELSE MvEntry(r, e, t, n)
  BY <1>3, <1>4, <1>5, <1>6, <1>7 DEF Mv, InParent, InDir
<1>9. \A s : Fine(Refuses(r, s), mvd2)
  <2>1. Good(r.d, O, mvd2) BY <1>1, <1>3, GoodMono
  <2> QED BY <1>3, <2>1, RefusedFine
<1>10. CASE c # Unused /\ ~DotLeaf(p) /\ e # NoEntry /\ ~DotLeaf(p2) /\ t # Unused
  <2>1. q = MvEntry(r, e, t, n) BY <1>8, <1>10
  <2>2. c \in DirsOf(O) /\ e \in Entries(d, c) /\ e \in O /\ e # RootEntry
    <3>1. Meets(d, O, mvd, p, c, e) BY <1>4, <1>5, <1>10 DEF Meets
    <3> QED BY <1>10, <3>1, GivenFacts
  <2>3. t \in DirsOf(O) /\ n \in Names /\ n \notin Dots
    <3>1. PICK y : y = LookUp(d, t, Leaf(p2)) OBVIOUS
    <3>2. Meets(d, O, mvd, p2, t, y) BY <1>4, <1>10, <3>1 DEF Meets
    <3> QED BY <1>6, <3>2, GivenFacts
  <2>4. Moves(r, O, mvd, c, e, t, n) BY <1>1, <1>3, <2>2, <2>3 DEF Moves
  <2>5. MvEntry(r, e, t, n).res = "ok" /\ e.ft = "dir" /\ c # t => mvd2
    BY <1>2, <1>4, <1>5, <1>7, <2>1
  <2>6. Fine(MvEntry(r, e, t, n), mvd2) BY <1>3, <2>4, <2>5, MvEntryFine
  <2> QED BY <1>2, <1>7, <2>1, <2>6
<1>11. CASE ~(c # Unused /\ ~DotLeaf(p) /\ e # NoEntry /\ ~DotLeaf(p2) /\ t # Unused)
  <2>1. Fine(q, mvd2) BY <1>8, <1>9, <1>11
  <2> QED BY <1>2, <1>7, <2>1
<1> QED BY <1>10, <1>11

-----------------------------------------------------------------------------
(* mkfs *)

\* An empty disk.
LEMMA BlankFacts ==
  /\ BlankDisk \in Tame /\ BlankDisk.fat[Root] = Eoc
  /\ \A k \in 1 .. SLOTS : At(BlankDisk, <<Root, k>>) = End
  /\ \E O : Good(BlankDisk, O, FALSE)
<1>1. PICK F, B : /\ F = [c \in Cluster |-> IF c = Root THEN Eoc ELSE Unused]
                  /\ B = [c \in Cluster |-> ZeroBlock]
  OBVIOUS
<1>2. PICK d : d = BlankDisk
  OBVIOUS
<1>3. d = [fat |-> F, blk |-> B]
  BY <1>1, <1>2 DEF BlankDisk
<1>4. F \in [Cluster -> Cluster \cup {Unused, Eoc}] /\ B \in [Cluster -> BlockType]
  BY <1>1, BlockTypes
<1>5. F[Root] = Eoc /\ Eoc # Unused
  BY <1>1, Clusters DEF Eoc, Unused
<1>6. d \in Disk /\ d.fat = F /\ d.blk = B
  BY <1>3, <1>4 DEF Disk
<1>7. d \in Tame
  BY <1>5, <1>6 DEF Tame
<1>8. \A k \in 1 .. SLOTS : At(d, <<Root, k>>) = End
  <2> SUFFICES ASSUME NEW k \in 1 .. SLOTS PROVE At(d, <<Root, k>>) = End OBVIOUS
  <2>1. d.blk[Root] = ZeroBlock BY <1>1, <1>6, Clusters
  <2>2. ZeroBlock.ents[k] = End BY DEF ZeroBlock
  <2>3. At(d, <<Root, k>>) = d.blk[Root].ents[k] BY DEF At
  <2> QED BY <2>1, <2>2, <2>3
<1>9. /\ Chain(d, Root) = <<Root>> /\ SoundChain(d, Root) /\ Held(d, Root) = {Root}
      /\ Slots(<<Root>>) = {1} \X (1 .. SLOTS)
      /\ \A k \in 1 .. SLOTS : In(d, <<Root>>, <<1, k>>) = At(d, <<Root, k>>)
  BY <1>5, <1>6, Clusters, OneCluster
<1>10. ~InUse(End)
  BY DEF InUse, End, Entry
<1>11. SoundSlots(d, Chain(d, Root))
  <2>1. ASSUME NEW s \in Slots(<<Root>>) PROVE In(d, <<Root>>, s) = End
    <3>1. PICK k \in 1 .. SLOTS : s = <<1, k>> BY <1>9
    <3> QED BY <1>8, <1>9, <3>1
  <2> QED BY <1>9, <1>10, <2>1 DEF SoundSlots
<1>12. Entries(d, Root) = {}
  <2> SUFFICES ASSUME NEW x \in Entries(d, Root) PROVE FALSE OBVIOUS
  <2>1. x.pos \in Places({Root}) /\ Named(At(d, x.pos)) BY <1>6, <1>9, EntryOpen
  <2>2. PICK k \in 1 .. SLOTS : x.pos = <<Root, k>> BY <2>1 DEF Places
  <2> QED BY <1>8, <1>10, <2>1, <2>2 DEF Named
<1>13. PICK O : O = {RootEntry}
  OBVIOUS
<1>14. Obj(d, RootEntry)
  BY <1>9, <1>11, RootFacts, Clusters DEF Obj, SoundSize
<1>15. Base(d, O)
  BY <1>7, <1>13, <1>14 DEF Base, Apart
<1>16. DirsOf(O) = {Root}
  BY <1>13, RootFacts DEF DirsOf
<1>17. Hangs(d, O, FALSE)
  BY <1>12, <1>13, <1>16 DEF Hangs
<1>18. Good(d, O, FALSE)
  BY <1>15, <1>17 DEF Good
<1> QED BY <1>2, <1>5, <1>6, <1>7, <1>8, <1>18

\* The root directory of a disk with its first n seeds.
RootHas(d, n) ==
  /\ d.fat[Root] = Eoc
  /\ \A j \in 1 .. SLOTS :
       /\ j <= n => InUse(At(d, <<Root, j>>)) /\ At(d, <<Root, j>>).name = Seeds[j]
       /\ j > n => At(d, <<Root, j>>) = End

Seeded(q, n) ==
  /\ Okay(q) /\ q.res \in {"ok", "NoSpace"} /\ q.val \in Cluster \cup {<< >>}
  /\ \E O : Good(q.d, O, FALSE)
  /\ q.res = "ok" => RootHas(q.d, n)

\* The next seed has a place and a name of its own.
LEMMA SeedFits ==
  ASSUME NEW d \in Disk, NEW O, Good(d, O, FALSE), NEW k \in 1 .. Len(Seeds), RootHas(d, k - 1)
  PROVE  /\ NewName(d, O, Root, Seeds[k]) /\ Open(d, Root, <<Root, k>>)
         /\ ~InUse(At(d, <<Root, k>>)) /\ k \in 1 .. SLOTS
<1>1. /\ k \in Nat /\ k > 0 /\ k \in 1 .. SLOTS
      /\ \A j \in 1 .. k - 1 : j \in 1 .. SLOTS /\ j \in 1 .. Len(Seeds)
  <2>1. SLOTS \in Nat /\ Len(Seeds) \in Nat /\ SLOTS >= Len(Seeds) BY FatConstants, Consts
  <2> QED BY <2>1
<1>2. /\ d.fat[Root] = Eoc
      /\ \A j \in 1 .. SLOTS : j <= k - 1 => InUse(At(d, <<Root, j>>)) /\ At(d, <<Root, j>>).name = Seeds[j]
      /\ \A j \in 1 .. SLOTS : j > k - 1 => At(d, <<Root, j>>) = End
  BY DEF RootHas
<1>3. /\ Chain(d, Root) = <<Root>> /\ Held(d, Root) = {Root}
      /\ Slots(<<Root>>) = {1} \X (1 .. SLOTS)
      /\ \A j \in 1 .. SLOTS : In(d, <<Root>>, <<1, j>>) = At(d, <<Root, j>>)
  BY <1>2, Clusters, OneCluster
<1>4. ~InUse(End)
  BY DEF InUse, End, Entry
<1>5. ~InUse(At(d, <<Root, k>>))
  <2>1. k > k - 1 BY <1>1
  <2> QED BY <1>1, <1>2, <1>4, <2>1
<1>6. Open(d, Root, <<Root, k>>)
  <2>1. PICK s : s = <<1, k>> OBVIOUS
  <2>2. s \in Slots(<<Root>>) /\ Pos(<<Root>>, s) = <<Root, k>> BY <1>1, <1>3, <2>1 DEF Pos
  <2>3. ASSUME NEW t \in Slots(<<Root>>), Before(t, s) PROVE In(d, <<Root>>, t).ft # "end"
    <3>1. PICK j \in 1 .. SLOTS : t = <<1, j>> BY <1>3
    <3>2. j < k BY <2>1, <2>3, <3>1 DEF Before
    <3>3. j <= k - 1 BY <1>1, <3>2
    <3>4. InUse(At(d, <<Root, j>>)) BY <1>2, <3>3
    <3>5. In(d, <<Root>>, t) = At(d, <<Root, j>>) BY <1>3, <3>1
    <3> QED BY <3>4, <3>5 DEF InUse
  <2> QED BY <1>3, <2>2, <2>3 DEF Open
<1>7. Seeds[k] \in Names /\ Seeds[k] \notin Dots
  <2>1. Seeds[k] \in Names BY FatConstants
  <2> QED BY <2>1, FatConstants
<1>8. ASSUME NEW x \in Entries(d, Root) PROVE x.name # Seeds[k]
  <2>1. x.pos \in Places({Root}) /\ Named(At(d, x.pos)) /\ x.name = At(d, x.pos).name
    BY <1>3, EntryOpen
  <2>2. PICK j \in 1 .. SLOTS : x.pos = <<Root, j>> BY <2>1 DEF Places
  <2>3. InUse(At(d, <<Root, j>>)) BY <2>1, <2>2 DEF Named
  <2>4. j <= k - 1
    <3>1. j \in Nat OBVIOUS
    <3>2. ~(j > k - 1) BY <1>2, <1>4, <2>3
    <3> QED BY <1>1, <3>1, <3>2
  <2>5. x.name = Seeds[j] BY <1>2, <2>1, <2>2, <2>4
  <2>6. j # k /\ j \in 1 .. Len(Seeds) BY <1>1, <2>4
  <2>7. DOMAIN Seeds = 1 .. Len(Seeds) BY FatConstants
  <2>8. Seeds[j] # Seeds[k] BY <2>6, <2>7, FatConstants DEF IsInjective
  <2> QED BY <2>5, <2>8
<1>9. Root \in DirsOf(O)
  BY RootIsDir
<1> QED BY <1>1, <1>5, <1>6, <1>7, <1>8, <1>9 DEF NewName

\* One seed directory more.
LEMMA SeedStep ==
  ASSUME NEW k \in 1 .. Len(Seeds), NEW r, Seeded(r, k - 1)
  PROVE  Seeded(Seed(r, k), k)
<1>1. /\ Okay(r) /\ r.res \in {"ok", "NoSpace"} /\ r.val \in Cluster \cup {<< >>}
      /\ r.res = "ok" => RootHas(r.d, k - 1)
  BY DEF Seeded
<1>2. PICK O : Good(r.d, O, FALSE)
  BY DEF Seeded
<1>3. PICK a : a = AllocCluster(r)
  OBVIOUS
<1>4. PICK q : q = Seed(r, k)
  OBVIOUS
<1>5. q = IF a.res = "ok" THEN MkdirAt(a, <<Root, k>>, a.val, Root, Seeds[k]) ELSE a
  BY <1>3, <1>4 DEF Seed, Then
<1>6. /\ Okay(a)
      /\ \/ a.res = "NoSpace" /\ a.d = r.d /\ a.val = r.val
         \/ a.res = r.res /\ Takes(r.d, a.d, a.val)
  BY <1>1, <1>3, AllocFacts
<1>7. CASE a.res = "NoSpace" /\ a.d = r.d /\ a.val = r.val
  BY <1>1, <1>2, <1>4, <1>5, <1>6, <1>7 DEF Seeded
<1>8. CASE a.res = r.res /\ Takes(r.d, a.d, a.val)
  <2>1. PICK d, g, m : d = r.d /\ g = a.d /\ m = a.val OBVIOUS
  <2>2. g \in Tame /\ d \in Tame /\ d \in Disk /\ g \in Disk BY <1>1, <1>6, <2>1, Steps
  <2>3. Takes(d, g, m) /\ m \in Cluster /\ g.fat[m] = Eoc BY <1>8, <2>1 DEF Takes
  <2>4. Spares(d, g, O) /\ Good(g, O, FALSE) /\ \A x \in O : m \notin Held(g, x.clu)
    BY <1>2, <2>1, <2>2, <2>3, TakesGood
  <2>5. CASE r.res = "NoSpace"
    <3>1. q = a BY <1>5, <1>8, <2>5
    <3> QED BY <1>4, <1>6, <1>8, <2>1, <2>3, <2>4, <2>5, <3>1 DEF Seeded
  <2>6. CASE r.res = "ok"
    <3>1. Root # m
      <4>1. Root \in DirsOf(O) BY <2>4, RootIsDir
      <4>2. Base(g, O) BY <2>4 DEF Good
      <4>3. Root \in Held(g, Root) /\ \E x \in O : x.clu = Root BY <4>1, <4>2, DirFacts
      <4> QED BY <2>4, <4>3
    <3>2. /\ g.fat[Root] = d.fat[Root] /\ g.blk[Root] = d.blk[Root]
      BY <2>3, <3>1, Clusters DEF Takes
    <3>3. \A j : At(g, <<Root, j>>) = At(d, <<Root, j>>) BY <3>2 DEF At
    <3>4. RootHas(g, k - 1)
      <4>1. RootHas(d, k - 1) BY <1>1, <2>1, <2>6
      <4> QED BY <3>2, <3>3, <4>1 DEF RootHas
    <3>5. PICK pos, name : pos = <<Root, k>> /\ name = Seeds[k] OBVIOUS
    <3>6. /\ NewName(g, O, Root, name) /\ Open(g, Root, pos) /\ ~InUse(At(g, pos))
          /\ k \in 1 .. SLOTS
      BY <2>2, <2>4, <3>4, <3>5, SeedFits
    <3>7. Apply(g, O, Root, pos, m, name) BY <2>3, <2>4, <3>6 DEF Apply
    <3>8. q = MkdirAt(a, pos, m, Root, name) BY <1>5, <1>8, <2>1, <2>6, <3>5
    <3>9. Apply(a.d, O, Root, pos, m, name) /\ Good(a.d, O, FALSE) BY <2>1, <2>4, <3>7
    <3>10. Okay(q) /\ NewDirAt(a, O, FALSE, m, Root, q)
      BY ONLY <1>6, <3>8, <3>9, MkdirAtFacts
    <3>11. EntryAt(a, pos, m, name, q)
      BY ONLY <1>6, <3>8, <3>9, MkdirAtFacts
    <3>12. /\ At(q.d, pos) = Entry(name, "dir", m, 0)
           /\ \A p \in Places(Cluster) : p # pos /\ p[1] # m => At(q.d, p) = At(a.d, p)
      BY <3>11 DEF EntryAt
    <3>13. /\ q.res = "ok" /\ q.val = m /\ q.d.fat = g.fat /\ \E B : Good(q.d, B, FALSE)
      BY <1>8, <2>1, <2>6, <3>10 DEF NewDirAt
    <3>14. InUse(At(q.d, pos)) /\ At(q.d, pos).name = name
      BY <3>12 DEF InUse, Entry
    <3>15. \A j \in 1 .. SLOTS : j # k => At(q.d, <<Root, j>>) = At(g, <<Root, j>>)
      <4> SUFFICES ASSUME NEW j \in 1 .. SLOTS, j # k
                   PROVE  At(q.d, <<Root, j>>) = At(g, <<Root, j>>)
        OBVIOUS
      <4>1. PICK z : z = <<Root, j>> OBVIOUS
      <4>2. z \in Places(Cluster) /\ z # pos /\ z[1] # m
        BY <3>1, <3>5, <4>1, Clusters DEF Places
      <4> QED BY <2>1, <3>12, <4>1, <4>2
    <3>16. RootHas(q.d, k)
      <4>1. q.d.fat[Root] = Eoc BY <3>4, <3>13 DEF RootHas
      <4>2. ASSUME NEW j \in 1 .. SLOTS
            PROVE  /\ j <= k => InUse(At(q.d, <<Root, j>>)) /\ At(q.d, <<Root, j>>).name = Seeds[j]
                   /\ j > k => At(q.d, <<Root, j>>) = End
        <5>1. CASE j = k
          <6>1. ~(j > k) BY <5>1
          <6> QED BY <3>5, <3>14, <5>1, <6>1
        <5>2. CASE j # k
          <6>1. (j <= k => j <= k - 1) /\ (j > k => j > k - 1) BY <3>6, <5>2
          <6> QED BY <3>4, <3>15, <5>2, <6>1 DEF RootHas
        <5> QED BY <5>1, <5>2
      <4> QED BY <4>1, <4>2 DEF RootHas
    <3>17. q.val \in Cluster \cup {<< >>} BY <2>3, <3>13
    <3> QED BY <1>4, <3>10, <3>13, <3>16, <3>17 DEF Seeded
  <2> QED BY <1>1, <2>5, <2>6
<1> QED BY <1>6, <1>7, <1>8

\* The disk that mkfs makes is good.
LEMMA MkfsGood == MkfsDisk \in Tame /\ \E O : Good(MkfsDisk, O, FALSE)
<1> DEFINE N == Len(Seeds)
           P(n) == {q \in [d : Tame, log : SUBSET Tame, res : {"ok", "NoSpace"}, val : Cluster \cup {<< >>}] :
                      Seeded(q, n)}
<1>1. N \in Nat /\ N \in 0 .. N
  BY FatConstants
<1>2. \A q, n : q \in P(n) <=> Seeded(q, n)
  <2> SUFFICES ASSUME NEW q, NEW n, Seeded(q, n)
               PROVE  q \in [d : Tame, log : SUBSET Tame, res : {"ok", "NoSpace"}, val : Cluster \cup {<< >>}]
    OBVIOUS
  <2> QED BY DEF Seeded, Okay, Run
<1>3. Starts(BlankDisk) \in P(0)
  <2>1. PICK d, q : d = BlankDisk /\ q = Starts(d) OBVIOUS
  <2>2. d \in Tame /\ d.fat[Root] = Eoc /\ (\A k \in 1 .. SLOTS : At(d, <<Root, k>>) = End)
        /\ \E O : Good(d, O, FALSE)
    BY <2>1, BlankFacts
  <2>3. Okay(q) /\ q.d = d /\ q.res = "ok" BY <2>1, <2>2, StartFacts
  <2>4. q.val = << >> BY <2>1, RunFacts DEF Starts
  <2>5. RootHas(d, 0)
    <3>1. \A j \in 1 .. SLOTS : ~(j <= 0) BY Consts
    <3> QED BY <2>2, <3>1 DEF RootHas
  <2>6. Seeded(q, 0) BY <2>2, <2>3, <2>4, <2>5 DEF Seeded
  <2> HIDE DEF P
  <2> QED BY <1>2, <2>1, <2>6
<1>4. \A n \in 1 .. N : \A x \in P(n - 1) : Seed(x, n) \in P(n)
  <2> SUFFICES ASSUME NEW n \in 1 .. N, NEW x \in P(n - 1) PROVE Seed(x, n) \in P(n)
    OBVIOUS
  <2> HIDE DEF P
  <2>1. Seeded(x, n - 1) BY <1>2
  <2>2. Seeded(Seed(x, n), n) BY <2>1, SeedStep
  <2> QED BY <1>2, <2>2
<1> DEFINE Q == [n \in 0 .. N |-> P(n)]
           step == [n \in 1 .. N |-> [x \in P(n - 1) |-> Seed(x, n)]]
           Is(h) == h = [k \in 0 .. N |-> IF k = 0 THEN Starts(BlankDisk) ELSE Seed(h[k - 1], k)]
           it == CHOOSE h : Is(h)
<1>5. \A n \in 0 .. N : Q[n] = P(n)
  <2> HIDE DEF P
  <2> QED OBVIOUS
<1>6. \A n \in 1 .. N : \A x \in Q[n - 1] :
        step[n][x] = Seed(x, n) /\ step[n][x] \in Q[n]
  <2> SUFFICES ASSUME NEW n \in 1 .. N, NEW x \in Q[n - 1]
               PROVE  step[n][x] = Seed(x, n) /\ step[n][x] \in Q[n]
    OBVIOUS
  <2>1. n - 1 \in 0 .. N /\ n \in 0 .. N BY <1>1
  <2>2. Q[n - 1] = P(n - 1) /\ Q[n] = P(n)
    BY <1>5, <2>1
  <2> HIDE DEF Q, P
  <2>3. step[n][x] = Seed(x, n) BY <2>2
  <2> HIDE DEF step
  <2> QED BY <1>4, <2>2, <2>3
<1> HIDE DEF Q, step, P, N
<1>7. \E h : IsLoop(h, N, Starts(BlankDisk), step) /\ Within(h, N, Q)
  <2>1. N \in Nat /\ Starts(BlankDisk) \in Q[0] /\ Leads(N, Q, step)
    <3>1. 0 \in 0 .. N BY <1>1
    <3> QED BY <1>1, <1>3, <1>5, <1>6, <3>1 DEF Leads
  <2> QED BY ONLY <2>1, LoopWithin
<1>8. PICK h : /\ h = [n \in 0 .. N |-> IF n = 0 THEN Starts(BlankDisk) ELSE step[n][h[n - 1]]]
               /\ \A n \in 0 .. N : h[n] \in Q[n]
  BY <1>7 DEF IsLoop, Within
<1>9. Is(h)
  <2>1. \A n \in 0 .. N : n # 0 => n \in 1 .. N /\ n - 1 \in 0 .. N BY <1>1
  <2>2. \A n \in 0 .. N : n # 0 => step[n][h[n - 1]] = Seed(h[n - 1], n)
    BY <1>6, <1>8, <2>1
  <2>3. \A n \in 0 .. N : (IF n = 0 THEN Starts(BlankDisk) ELSE step[n][h[n - 1]])
                         = (IF n = 0 THEN Starts(BlankDisk) ELSE Seed(h[n - 1], n))
    BY <2>2
  <2>4. [n \in 0 .. N |-> IF n = 0 THEN Starts(BlankDisk) ELSE step[n][h[n - 1]]]
          = [n \in 0 .. N |-> IF n = 0 THEN Starts(BlankDisk) ELSE Seed(h[n - 1], n)]
    BY ONLY <2>3
  <2>5. h = [n \in 0 .. N |-> IF n = 0 THEN Starts(BlankDisk) ELSE Seed(h[n - 1], n)]
    BY <1>8, <2>4
  <2> QED BY <2>5
<1>10. PICK f : f = it
  OBVIOUS
<1>11. Is(f)
  BY <1>9, <1>10
<1> HIDE DEF it
<1>12. f[0] = Starts(BlankDisk) /\ \A n \in 1 .. N : f[n] = Seed(f[n - 1], n)
  <2>1. f = [k \in 0 .. N |-> IF k = 0 THEN Starts(BlankDisk) ELSE Seed(f[k - 1], k)]
    BY <1>11
  <2>2. 0 \in 0 .. N /\ \A n \in 1 .. N : n \in 0 .. N /\ n # 0 BY <1>1
  <2> HIDE DEF Is
  <2> QED BY <2>1, <2>2
<1>13. \A n \in 0 .. N : f[n] \in P(n)
  <2>1. N \in Nat /\ f[0] \in Q[0]
    <3>1. 0 \in 0 .. N BY <1>1
    <3> QED BY <1>1, <1>3, <1>5, <1>12, <3>1
  <2>2. \A n \in 1 .. N : f[n - 1] \in Q[n - 1] => f[n] \in Q[n]
    BY <1>6, <1>12
  <2>3. \A n \in 0 .. N : f[n] \in Q[n]
    BY ONLY <2>1, <2>2, LoopStays
  <2> QED BY <1>5, <2>3
<1>14. MkfsDisk = f[N].d
  BY <1>10 DEF MkfsDisk, it, N
<1> QED
  <2>1. PICK q : q = f[N] OBVIOUS
  <2>2. Seeded(q, N) BY <1>1, <1>2, <2>1, <1>13
  <2>3. MkfsDisk = q.d BY <2>1, <1>14
  <2>4. q.d \in Tame BY <2>2, Steps DEF Seeded
  <2> QED BY <2>2, <2>3, <2>4 DEF Seeded

-----------------------------------------------------------------------------
(* cd *)

\* What cd may have in hand: a path of names, not too long, or an error.
Cds ==
  {r \in [dir : Seq(Names), res : {"ok", "TooBig"}] : Len(r.dir) <= MAX_DEPTH}

\* A path without its last component.
LEMMA FrontFacts ==
  ASSUME NEW T, NEW c \in Seq(T), c # << >>
  PROVE  /\ Front(c) \in Seq(T) /\ Len(Front(c)) = Len(c) - 1
         /\ \A k \in 1 .. Len(c) - 1 : Front(c)[k] = c[k]
<1>1. Len(c) \in Nat /\ Len(c) > 0
  OBVIOUS
<1>2. /\ SubSeq(c, 1, Len(c) - 1) \in Seq(T)
      /\ Len(SubSeq(c, 1, Len(c) - 1)) = Len(c) - 1
      /\ \A k \in 1 .. Len(c) - 1 : SubSeq(c, 1, Len(c) - 1)[k] = c[k]
  <2>1. PICK m \in Int : m = Len(c) - 1
    BY <1>1
  <2>2. \A i \in 1 .. m : c[i] \in T
    BY <1>1, <2>1
  <2>3. m >= 0 BY <1>1, <2>1
  <2>4. SubSeq(c, 1, m) \in Seq(T)
    BY <2>2, <2>3
  <2>5. Len(SubSeq(c, 1, m)) = m
    BY <2>2, <2>3
  <2>6. \A k \in 1 .. m : SubSeq(c, 1, m)[k] = c[k]
    BY <2>2, <2>3
  <2> QED BY ONLY <2>1, <2>4, <2>5, <2>6
<1>3. Front(c) = SubSeq(c, 1, Len(c) - 1)
  BY DEF Front
<1> QED BY <1>2, <1>3

\* One component of the argument.
LEMMA CdStepFacts ==
  ASSUME NEW r \in Cds, NEW c \in Names \cup Dots
  PROVE  CdStep(r, c) \in Cds
<1>1. /\ r \in [dir : Seq(Names), res : {"ok", "TooBig"}] /\ r.dir \in Seq(Names)
      /\ Len(r.dir) <= MAX_DEPTH /\ Len(r.dir) \in Nat /\ MAX_DEPTH \in Nat
  BY Consts DEF Cds
<1>2. CASE c = "." \/ r.res # "ok"
  BY <1>2 DEF CdStep
<1>3. CASE c = ".." /\ ~(c = "." \/ r.res # "ok")
  <2>1. PICK s : s = IF r.dir = << >> THEN r.dir ELSE Front(r.dir)
    OBVIOUS
  <2>2. CdStep(r, c) = [r EXCEPT !.dir = s]
    BY <1>1, <1>3, <2>1 DEF CdStep
  <2>3. s \in Seq(Names) /\ Len(s) <= MAX_DEPTH
    <3>1. CASE r.dir = << >> BY <1>1, <2>1, <3>1
    <3>2. CASE r.dir # << >>
      <4>1. s \in Seq(Names) /\ Len(s) = Len(r.dir) - 1 BY <1>1, <2>1, <3>2, FrontFacts
      <4> QED BY <1>1, <4>1
    <3> QED BY <3>1, <3>2
  <2>4. PICK x : x = [r EXCEPT !.dir = s] OBVIOUS
  <2>5. x \in [dir : Seq(Names), res : {"ok", "TooBig"}] /\ x.dir = s
    BY <1>1, <2>3, <2>4
  <2> QED BY <2>2, <2>3, <2>4, <2>5 DEF Cds
<1>4. CASE c # ".." /\ ~(c = "." \/ r.res # "ok") /\ Len(r.dir) >= MAX_DEPTH
  <2>1. PICK x : x = [r EXCEPT !.res = "TooBig"] OBVIOUS
  <2>2. x \in [dir : Seq(Names), res : {"ok", "TooBig"}] /\ x.dir = r.dir
    BY <1>1, <2>1
  <2>3. CdStep(r, c) = x BY <1>4, <2>1 DEF CdStep
  <2> QED BY <1>1, <2>2, <2>3 DEF Cds
<1>5. CASE c # ".." /\ ~(c = "." \/ r.res # "ok") /\ ~(Len(r.dir) >= MAX_DEPTH)
  <2>1. PICK s : s = Append(r.dir, c) OBVIOUS
  <2>2. c \in Names
    BY <1>5 DEF Dots
  <2>3. s \in Seq(Names) /\ Len(s) <= MAX_DEPTH
    BY <1>1, <1>5, <2>1, <2>2
  <2>4. PICK x : x = [r EXCEPT !.dir = s] OBVIOUS
  <2>5. x \in [dir : Seq(Names), res : {"ok", "TooBig"}] /\ x.dir = s
    BY <1>1, <2>3, <2>4
  <2>6. CdStep(r, c) = x BY <1>1, <1>5, <2>1, <2>4 DEF CdStep
  <2> QED BY <2>3, <2>5, <2>6 DEF Cds
<1> QED BY <1>2, <1>3, <1>4, <1>5

\* All of them.
LEMMA CandidateFacts ==
  ASSUME cwd \in Seq(Names), Len(cwd) <= MAX_DEPTH, NEW p \in Paths
  PROVE  Candidate(p) \in Cds
<1> DEFINE N == Len(p.comps)
           P(n) == Cds
           base == [dir |-> IF p.abs THEN << >> ELSE cwd, res |-> "ok"]
<1>1. N \in Nat /\ \A n \in 1 .. N : p.comps[n] \in Names \cup Dots
  <2>1. p.comps \in Seq(Names \cup Dots) BY FatConstants
  <2> QED BY <2>1
<1>2. base \in P(0)
  <2>1. PICK s : s = IF p.abs THEN << >> ELSE cwd OBVIOUS
  <2>2. s \in Seq(Names) /\ Len(s) <= MAX_DEPTH
    <3>1. MAX_DEPTH \in Nat BY Consts
    <3>2. Len(<< >>) = 0 /\ << >> \in Seq(Names) OBVIOUS
    <3> QED BY <2>1, <3>1, <3>2
  <2>3. PICK x : x = [dir |-> s, res |-> "ok"] OBVIOUS
  <2>4. x \in [dir : Seq(Names), res : {"ok", "TooBig"}] /\ x.dir = s BY <2>2, <2>3
  <2>5. x \in Cds BY <2>2, <2>4 DEF Cds
  <2> QED BY <2>1, <2>3, <2>5
<1>3. \A n \in 1 .. N : \A x \in P(n - 1) : CdStep(x, p.comps[n]) \in P(n)
  BY <1>1, CdStepFacts
<1>4. \A n \in 0 .. N : \A x : x \in P(n) => x \in Cds
  OBVIOUS
<1> HIDE DEF base
<1> DEFINE Q == [n \in 0 .. N |-> P(n)]
           step == [n \in 1 .. N |-> [x \in P(n - 1) |-> CdStep(x, p.comps[n])]]
           Is(h) == h = [k \in 0 .. N |-> IF k = 0 THEN base ELSE CdStep(h[k - 1], p.comps[k])]
           it == CHOOSE h : Is(h)
<1>5. \A n \in 0 .. N : Q[n] = P(n)
  <2> HIDE DEF P
  <2> QED OBVIOUS
<1>6. \A n \in 1 .. N : \A x \in Q[n - 1] :
        step[n][x] = CdStep(x, p.comps[n]) /\ step[n][x] \in Q[n]
  <2> SUFFICES ASSUME NEW n \in 1 .. N, NEW x \in Q[n - 1]
               PROVE  step[n][x] = CdStep(x, p.comps[n]) /\ step[n][x] \in Q[n]
    OBVIOUS
  <2>1. n - 1 \in 0 .. N /\ n \in 0 .. N BY <1>1
  <2>2. Q[n - 1] = P(n - 1) /\ Q[n] = P(n)
    BY <1>5, <2>1
  <2> HIDE DEF Q, P
  <2>3. step[n][x] = CdStep(x, p.comps[n]) BY <2>2
  <2> HIDE DEF step
  <2> QED BY <1>3, <2>2, <2>3
<1> HIDE DEF Q, step, P, N
<1>7. \E h : IsLoop(h, N, base, step) /\ Within(h, N, Q)
  <2>1. N \in Nat /\ base \in Q[0] /\ Leads(N, Q, step)
    <3>1. 0 \in 0 .. N BY <1>1
    <3> QED BY <1>1, <1>2, <1>5, <1>6, <3>1 DEF Leads
  <2> QED BY ONLY <2>1, LoopWithin
<1>8. PICK h : /\ h = [n \in 0 .. N |-> IF n = 0 THEN base ELSE step[n][h[n - 1]]]
               /\ \A n \in 0 .. N : h[n] \in Q[n]
  BY <1>7 DEF IsLoop, Within
<1>9. Is(h)
  <2>1. \A n \in 0 .. N : n # 0 => n \in 1 .. N /\ n - 1 \in 0 .. N BY <1>1
  <2>2. \A n \in 0 .. N : n # 0 => step[n][h[n - 1]] = CdStep(h[n - 1], p.comps[n])
    BY <1>6, <1>8, <2>1
  <2>3. \A n \in 0 .. N : (IF n = 0 THEN base ELSE step[n][h[n - 1]])
                         = (IF n = 0 THEN base ELSE CdStep(h[n - 1], p.comps[n]))
    BY <2>2
  <2>4. [n \in 0 .. N |-> IF n = 0 THEN base ELSE step[n][h[n - 1]]]
          = [n \in 0 .. N |-> IF n = 0 THEN base ELSE CdStep(h[n - 1], p.comps[n])]
    BY ONLY <2>3
  <2>5. h = [n \in 0 .. N |-> IF n = 0 THEN base ELSE CdStep(h[n - 1], p.comps[n])]
    BY <1>8, <2>4
  <2> QED BY <2>5
<1>10. PICK f : f = it
  OBVIOUS
<1>11. Is(f)
  BY <1>9, <1>10
<1> HIDE DEF it
<1>12. f[0] = base /\ \A n \in 1 .. N : f[n] = CdStep(f[n - 1], p.comps[n])
  <2>1. f = [k \in 0 .. N |-> IF k = 0 THEN base ELSE CdStep(f[k - 1], p.comps[k])]
    BY <1>11
  <2>2. 0 \in 0 .. N /\ \A n \in 1 .. N : n \in 0 .. N /\ n # 0 BY <1>1
  <2> HIDE DEF Is
  <2> QED BY <2>1, <2>2
<1>13. \A n \in 0 .. N : f[n] \in P(n)
  <2>1. N \in Nat /\ f[0] \in Q[0]
    <3>1. 0 \in 0 .. N BY <1>1
    <3> QED BY <1>1, <1>2, <1>5, <1>12, <3>1
  <2>2. \A n \in 1 .. N : f[n - 1] \in Q[n - 1] => f[n] \in Q[n]
    BY <1>6, <1>12
  <2>3. \A n \in 0 .. N : f[n] \in Q[n]
    BY ONLY <2>1, <2>2, LoopStays
  <2> QED BY <1>5, <2>3
<1>14. Candidate(p) = f[N]
  BY <1>10 DEF Candidate, base, it, N
<1> QED
  <2>1. N \in 0 .. N BY <1>1
  <2> QED BY <1>4, <2>1, <1>13, <1>14

-----------------------------------------------------------------------------
(* The walk from the root *)

\* The names and the entries there may be, and the nodes at a depth of n.
AnyName == Names \cup Dots \cup {"", "stale"}
AnyEntry(d) == {RootEntry} \cup UNION {Entries(d, c) : c \in Cluster \cup {Unused}}
AnyPath(n) == {p \in Seq(AnyName) : Len(p) = n}
Level(d, n) == UNION {{Node(d, p, e) : e \in AnyEntry(d)} : p \in AnyPath(n)}

\* The fields of a node.
LEMMA NodeFacts ==
  ASSUME NEW d, NEW p, NEW e
  PROVE  Node(d, p, e).path = p /\ Node(d, p, e).e = e
BY DEF Node

\* An entry of any directory leads to a cluster or nowhere.
LEMMA AnyEntryFacts ==
  ASSUME NEW d \in Disk, NEW e \in AnyEntry(d)
  PROVE  e.ft \in {"dir", "file"} /\ e.clu \in Cluster \cup {Unused}
<1>1. CASE e = RootEntry
  BY <1>1, RootFacts, Clusters
<1>2. ASSUME NEW c \in Cluster \cup {Unused}, e \in Entries(d, c)
      PROVE  e.ft \in {"dir", "file"} /\ e.clu \in Cluster \cup {Unused}
  <2>1. e \in Listed(d, Held(d, c)) /\ Held(d, c) \in SUBSET Cluster
    BY <1>2, EntriesAre, HeldFacts
  <2> QED BY <2>1, ListedFacts
<1> QED BY <1>1, <1>2 DEF AnyEntry

\* A node at a depth of n.
LEMMA LevelFacts ==
  ASSUME NEW d, NEW n, NEW x \in Level(d, n)
  PROVE  /\ x.path \in Seq(AnyName) /\ Len(x.path) = n /\ x.e \in AnyEntry(d)
         /\ x = Node(d, x.path, x.e)
<1>1. PICK p \in AnyPath(n), e \in AnyEntry(d) : x = Node(d, p, e)
  BY DEF Level
<1>2. x.path = p /\ x.e = e
  BY <1>1, NodeFacts
<1> QED BY <1>1, <1>2 DEF AnyPath

\* Every path with every entry is one.
LEMMA LevelHas ==
  ASSUME NEW d, NEW n, NEW p \in Seq(AnyName), Len(p) = n, NEW e \in AnyEntry(d)
  PROVE  Node(d, p, e) \in Level(d, n)
<1>1. p \in AnyPath(n)
  BY DEF AnyPath
<1> QED BY <1>1 DEF Level

\* An entry is not the root.
LEMMA EntryFacts ==
  ASSUME NEW d \in Disk, NEW c, NEW e \in Entries(d, c)
  PROVE  /\ e # RootEntry /\ e.name \in AnyName /\ e.pos \in Places(Held(d, c))
         /\ e.ft \in {"dir", "file"} /\ e.clu \in Cluster \cup {Unused}
<1>1. e \in Listed(d, Held(d, c)) /\ Held(d, c) \in SUBSET Cluster
  BY EntriesAre, HeldFacts
<1>2. /\ e.pos \in Places(Held(d, c)) /\ e.name = At(d, e.pos).name /\ e # RootEntry
      /\ e.ft \in {"dir", "file"} /\ e.clu \in Cluster \cup {Unused}
  BY <1>1, ListedFacts
<1>3. At(d, e.pos) \in EntryType
  BY <1>1, <1>2, AtType
<1>4. At(d, e.pos).name \in AnyName
  BY <1>3 DEF EntryType, AnyName
<1> QED BY <1>2, <1>4

\* The children of a node are one level below.
LEMMA ChildFacts ==
  ASSUME NEW d \in Disk, NEW x
  PROVE  /\ \A y \in Children(d, x) :
              /\ x.e.ft = "dir" /\ y.e \in Entries(d, x.e.clu)
              /\ y = Node(d, Append(x.path, y.e.name), y.e)
         /\ x.e.ft = "dir" =>
              \A e \in Entries(d, x.e.clu) : \E y \in Children(d, x) : y.e = e
         /\ \A n \in Nat : x \in Level(d, n) => Children(d, x) \subseteq Level(d, n + 1)
<1>1. ASSUME NEW y \in Children(d, x)
      PROVE  /\ x.e.ft = "dir" /\ y.e \in Entries(d, x.e.clu)
             /\ y = Node(d, Append(x.path, y.e.name), y.e)
  <2>1. x.e.ft = "dir" BY DEF Children
  <2>2. PICK e \in Entries(d, x.e.clu) : y = Node(d, Append(x.path, e.name), e)
    BY <2>1 DEF Children
  <2>3. y.e = e BY <2>2, NodeFacts
  <2> QED BY <2>1, <2>2, <2>3
<1>2. ASSUME x.e.ft = "dir", NEW e \in Entries(d, x.e.clu)
      PROVE  \E y \in Children(d, x) : y.e = e
  <2>1. Node(d, Append(x.path, e.name), e) \in Children(d, x) BY <1>2 DEF Children
  <2> QED BY <2>1, NodeFacts
<1>3. ASSUME NEW n \in Nat, x \in Level(d, n), NEW y \in Children(d, x)
      PROVE  y \in Level(d, n + 1)
  <2>1. x.path \in Seq(AnyName) /\ Len(x.path) = n /\ x.e \in AnyEntry(d)
    BY <1>3, LevelFacts
  <2>2. y.e \in Entries(d, x.e.clu) /\ y = Node(d, Append(x.path, y.e.name), y.e)
    BY <1>1
  <2>3. x.e.clu \in Cluster \cup {Unused} BY <2>1, AnyEntryFacts
  <2>4. y.e \in AnyEntry(d) BY <2>2, <2>3 DEF AnyEntry
  <2>5. y.e.name \in AnyName BY <2>2, EntryFacts
  <2>6. PICK s, m : s = x.path /\ m = y.e.name OBVIOUS
  <2>7. s \in Seq(AnyName) /\ Len(s) = n /\ m \in AnyName BY <2>1, <2>5, <2>6
  <2>8. Append(s, m) \in Seq(AnyName) /\ Len(Append(s, m)) = n + 1 BY ONLY <2>7
  <2>9. Node(d, Append(s, m), y.e) \in Level(d, n + 1) BY <2>4, <2>8, LevelHas
  <2> QED BY <2>2, <2>6, <2>9
<1> QED BY <1>1, <1>2, <1>3

\* The levels of the walk.
Levels(d, f) ==
  /\ f[0] = {Node(d, << >>, RootEntry)}
  /\ \A n \in 1 .. ClusterCount : f[n] = UNION {Children(d, x) : x \in f[n - 1]}
  /\ \A n \in 0 .. ClusterCount : f[n] \in SUBSET Level(d, n)
  /\ Nodes(d) = UNION {f[n] : n \in 0 .. ClusterCount}

\* The walk has them.
LEMMA NodesLoop ==
  ASSUME NEW d \in Disk
  PROVE  \E f : Levels(d, f)
<1> DEFINE N == ClusterCount
           P(n) == SUBSET Level(d, n)
           base == {Node(d, << >>, RootEntry)}
<1>1. N \in Nat
  BY Consts
<1>2. base \in P(0)
  <2>1. PICK s : s = << >> OBVIOUS
  <2>2. s \in Seq(AnyName) /\ Len(s) = 0 BY <2>1
  <2>3. RootEntry \in AnyEntry(d) BY DEF AnyEntry
  <2>4. Node(d, s, RootEntry) \in Level(d, 0) BY <2>2, <2>3, LevelHas
  <2> QED BY <2>1, <2>4
<1>3. \A n \in 1 .. N : \A x \in P(n - 1) : UNION {Children(d, z) : z \in x} \in P(n)
  <2> SUFFICES ASSUME NEW n \in 1 .. N, NEW x \in P(n - 1), NEW z \in x
               PROVE  Children(d, z) \subseteq Level(d, n)
    OBVIOUS
  <2>1. PICK m : m = n - 1 OBVIOUS
  <2>2. m \in Nat /\ m + 1 = n BY <1>1, <2>1
  <2>3. z \in Level(d, m) BY <2>1
  <2>4. Children(d, z) \subseteq Level(d, m + 1) BY <2>2, <2>3, ChildFacts
  <2> QED BY <2>2, <2>4
<1>4. base = {Node(d, << >>, RootEntry)} /\ \A n : P(n) = SUBSET Level(d, n)
  OBVIOUS
<1> HIDE DEF base
<1> DEFINE Q == [n \in 0 .. N |-> P(n)]
           step == [n \in 1 .. N |-> [x \in P(n - 1) |-> UNION {Children(d, z) : z \in x}]]
           Is(h) == h = [k \in 0 .. N |-> IF k = 0 THEN base ELSE UNION {Children(d, z) : z \in h[k - 1]}]
           it == CHOOSE h : Is(h)
<1>5. \A n \in 0 .. N : Q[n] = P(n)
  <2> HIDE DEF P
  <2> QED OBVIOUS
<1>6. \A n \in 1 .. N : \A x \in Q[n - 1] :
        step[n][x] = UNION {Children(d, z) : z \in x} /\ step[n][x] \in Q[n]
  <2> SUFFICES ASSUME NEW n \in 1 .. N, NEW x \in Q[n - 1]
               PROVE  step[n][x] = UNION {Children(d, z) : z \in x} /\ step[n][x] \in Q[n]
    OBVIOUS
  <2>1. n - 1 \in 0 .. N /\ n \in 0 .. N BY <1>1
  <2>2. Q[n - 1] = P(n - 1) /\ Q[n] = P(n)
    BY <1>5, <2>1
  <2> HIDE DEF Q, P
  <2>3. step[n][x] = UNION {Children(d, z) : z \in x} BY <2>2
  <2> HIDE DEF step
  <2> QED BY <1>3, <2>2, <2>3
<1> HIDE DEF Q, step, P, N
<1>7. \E h : IsLoop(h, N, base, step) /\ Within(h, N, Q)
  <2>1. N \in Nat /\ base \in Q[0] /\ Leads(N, Q, step)
    <3>1. 0 \in 0 .. N BY <1>1
    <3> QED BY <1>1, <1>2, <1>5, <1>6, <3>1 DEF Leads
  <2> QED BY ONLY <2>1, LoopWithin
<1>8. PICK h : /\ h = [n \in 0 .. N |-> IF n = 0 THEN base ELSE step[n][h[n - 1]]]
               /\ \A n \in 0 .. N : h[n] \in Q[n]
  BY <1>7 DEF IsLoop, Within
<1>9. Is(h)
  <2>1. \A n \in 0 .. N : n # 0 => n \in 1 .. N /\ n - 1 \in 0 .. N BY <1>1
  <2>2. \A n \in 0 .. N : n # 0 => step[n][h[n - 1]] = UNION {Children(d, z) : z \in h[n - 1]}
    BY <1>6, <1>8, <2>1
  <2>3. \A n \in 0 .. N : (IF n = 0 THEN base ELSE step[n][h[n - 1]])
                         = (IF n = 0 THEN base ELSE UNION {Children(d, z) : z \in h[n - 1]})
    BY <2>2
  <2>4. [n \in 0 .. N |-> IF n = 0 THEN base ELSE step[n][h[n - 1]]]
          = [n \in 0 .. N |-> IF n = 0 THEN base ELSE UNION {Children(d, z) : z \in h[n - 1]}]
    BY ONLY <2>3
  <2>5. h = [n \in 0 .. N |-> IF n = 0 THEN base ELSE UNION {Children(d, z) : z \in h[n - 1]}]
    BY <1>8, <2>4
  <2> QED BY <2>5
<1>10. PICK f : f = it
  OBVIOUS
<1>11. Is(f)
  BY <1>9, <1>10
<1> HIDE DEF it
<1>12. f[0] = base /\ \A n \in 1 .. N : f[n] = UNION {Children(d, z) : z \in f[n - 1]}
  <2>1. f = [k \in 0 .. N |-> IF k = 0 THEN base ELSE UNION {Children(d, z) : z \in f[k - 1]}]
    BY <1>11
  <2>2. 0 \in 0 .. N /\ \A n \in 1 .. N : n \in 0 .. N /\ n # 0 BY <1>1
  <2> HIDE DEF Is
  <2> QED BY <2>1, <2>2
<1>13. \A n \in 0 .. N : f[n] \in P(n)
  <2>1. N \in Nat /\ f[0] \in Q[0]
    <3>1. 0 \in 0 .. N BY <1>1
    <3> QED BY <1>1, <1>2, <1>5, <1>12, <3>1
  <2>2. \A n \in 1 .. N : f[n - 1] \in Q[n - 1] => f[n] \in Q[n]
    BY <1>6, <1>12
  <2>3. \A n \in 0 .. N : f[n] \in Q[n]
    BY ONLY <2>1, <2>2, LoopStays
  <2> QED BY <1>5, <2>3
<1>14. Nodes(d) = UNION {f[n] : n \in 0 .. N}
  BY <1>10 DEF Nodes, base, it, N
<1> QED
  <2>1. N = ClusterCount BY DEF N
  <2> QED BY <1>4, <2>1, <1>12, <1>13, <1>14 DEF Levels

\* A node of the walk: it is the root or has a parent one level above.
LEMMA LevelStep ==
  ASSUME NEW d \in Disk, NEW f, Levels(d, f), NEW n \in 0 .. ClusterCount, NEW x \in f[n]
  PROVE  /\ x \in Level(d, n) /\ x \in Nodes(d)
         /\ n = 0 => x = Node(d, << >>, RootEntry) /\ x.e = RootEntry
         /\ n # 0 => \E m \in 0 .. ClusterCount : \E y \in f[m] :
                       m = n - 1 /\ x \in Children(d, y)
         /\ n # ClusterCount => Children(d, x) \subseteq Nodes(d)
<1>1. n \in Nat /\ n <= ClusterCount /\ ClusterCount \in Nat
  BY Consts
<1>2. /\ f[0] = {Node(d, << >>, RootEntry)}
      /\ \A k \in 1 .. ClusterCount : f[k] = UNION {Children(d, z) : z \in f[k - 1]}
      /\ \A k \in 0 .. ClusterCount : f[k] \in SUBSET Level(d, k)
      /\ Nodes(d) = UNION {f[k] : k \in 0 .. ClusterCount}
  BY DEF Levels
<1>3. x \in Level(d, n) /\ x \in Nodes(d)
  BY <1>2
<1>4. n = 0 => x = Node(d, << >>, RootEntry) /\ x.e = RootEntry
  BY <1>2, NodeFacts
<1>5. ASSUME n # 0
      PROVE  \E m \in 0 .. ClusterCount : \E y \in f[m] : m = n - 1 /\ x \in Children(d, y)
  <2>1. PICK m : m = n - 1 OBVIOUS
  <2>2. n \in 1 .. ClusterCount /\ m \in 0 .. ClusterCount BY <1>1, <1>5, <2>1
  <2>3. f[n] = UNION {Children(d, z) : z \in f[m]} BY <1>2, <2>1, <2>2
  <2> QED BY <2>1, <2>2, <2>3
<1>6. ASSUME n # ClusterCount PROVE Children(d, x) \subseteq Nodes(d)
  <2>1. PICK m : m = n + 1 OBVIOUS
  <2>2. m \in 1 .. ClusterCount /\ m \in 0 .. ClusterCount /\ m - 1 = n BY <1>1, <1>6, <2>1
  <2>3. f[m] = UNION {Children(d, z) : z \in f[n]} BY <1>2, <2>2
  <2>4. Children(d, x) \subseteq f[m] BY <2>3
  <2> QED BY <1>2, <2>2, <2>4
<1> QED BY <1>3, <1>4, <1>5, <1>6

\* A node is at some level.
LEMMA NodeLevel ==
  ASSUME NEW d, NEW f, Levels(d, f), NEW x \in Nodes(d)
  PROVE  \E n \in 0 .. ClusterCount : x \in f[n]
BY DEF Levels

\* On a good disk the nodes are objects.
LEMMA NodesAre ==
  ASSUME NEW d, NEW O, NEW mvd, Good(d, O, mvd), NEW f, Levels(d, f)
  PROVE  \A n \in 0 .. ClusterCount : \A x \in f[n] : x.e \in O
<1> DEFINE S == {n \in Nat : n <= ClusterCount => \A x \in f[n] : x.e \in O}
<1>1. /\ Base(d, O) /\ RootEntry \in O /\ \A c \in DirsOf(O) : Entries(d, c) \subseteq O
      /\ d \in Disk /\ ClusterCount \in Nat
  BY Consts DEF Good, Hangs, Base, Tame
<1>2. 0 \in S
  <2>1. 0 \in 0 .. ClusterCount BY <1>1
  <2> QED BY <1>1, <2>1, LevelStep
<1>3. ASSUME NEW n \in Nat, n \in S PROVE n + 1 \in S
  <2> SUFFICES ASSUME n + 1 <= ClusterCount, NEW x \in f[n + 1] PROVE x.e \in O
    OBVIOUS
  <2>1. PICK k : k = n + 1 OBVIOUS
  <2>2. k \in 0 .. ClusterCount /\ k # 0 /\ k - 1 = n /\ n <= ClusterCount /\ x \in f[k]
    BY <1>1, <2>1
  <2>3. PICK y \in f[n] : x \in Children(d, y) BY <1>1, <2>2, LevelStep
  <2>4. y.e \in O BY <1>3, <2>2
  <2>5. y.e.ft = "dir" /\ x.e \in Entries(d, y.e.clu) BY <1>1, <2>3, ChildFacts
  <2>6. y.e.clu \in DirsOf(O) BY <1>1, <2>4, <2>5, ObjFacts
  <2> QED BY <1>1, <2>5, <2>6
<1> HIDE DEF S
<1>4. Nat \subseteq S
  BY <1>2, <1>3, InductionOnNat
<1>5. ASSUME NEW n \in 0 .. ClusterCount, NEW x \in f[n] PROVE x.e \in O
  <2>1. n \in Nat /\ n <= ClusterCount BY <1>1
  <2> QED BY <1>4, <2>1 DEF S
<1> QED BY <1>5

\* No object is an entry of two directories.
LEMMA OneParent ==
  ASSUME NEW d, NEW O, Base(d, O), NEW x \in O, NEW y \in O, x.ft = "dir", y.ft = "dir",
         NEW e \in Entries(d, x.clu), e \in Entries(d, y.clu)
  PROVE  x = y
<1>1. /\ d \in Disk /\ x.clu \in DirsOf(O) /\ y.clu \in DirsOf(O)
      /\ (x # y => Held(d, x.clu) \cap Held(d, y.clu) = {})
  BY ObjFacts
<1>2. e.pos \in Places(Held(d, x.clu)) /\ e.pos \in Places(Held(d, y.clu))
  BY <1>1, EntryFacts
<1>3. e.pos[1] \in Held(d, x.clu) \cap Held(d, y.clu)
  BY <1>2 DEF Places
<1> QED BY <1>1, <1>3

\* A node is known by its entry.
LEMMA OneNode ==
  ASSUME NEW d, NEW O, NEW mvd, Good(d, O, mvd), NEW x \in Nodes(d), NEW y \in Nodes(d), x.e = y.e
  PROVE  x = y
<1>1. /\ Base(d, O) /\ d \in Disk /\ ClusterCount \in Nat
  BY Consts DEF Good, Base, Tame
<1>2. PICK f : Levels(d, f)
  BY <1>1, NodesLoop
<1>3. \A n \in 0 .. ClusterCount : \A z \in f[n] : z.e \in O
  BY <1>2, NodesAre
<1> DEFINE S == {n \in Nat : n <= ClusterCount =>
                   \A m \in 0 .. ClusterCount : \A u \in f[n], v \in f[m] : u.e = v.e => u = v}
<1>4. 0 \in S
  <2> SUFFICES ASSUME NEW m \in 0 .. ClusterCount, NEW u \in f[0], NEW v \in f[m], u.e = v.e
               PROVE  u = v
    OBVIOUS
  <2>1. 0 \in 0 .. ClusterCount BY <1>1
  <2>2. u = Node(d, << >>, RootEntry) /\ u.e = RootEntry BY <1>1, <1>2, <2>1, LevelStep
  <2>3. CASE m = 0 BY <1>1, <1>2, <2>2, <2>3, LevelStep
  <2>4. CASE m # 0
    <3>0. PICK k \in 0 .. ClusterCount : \E w \in f[k] : v \in Children(d, w)
      BY <1>1, <1>2, <2>4, LevelStep
    <3>1. PICK w \in f[k] : v \in Children(d, w) BY <3>0
    <3>2. v.e \in Entries(d, w.e.clu) BY <1>1, <3>1, ChildFacts
    <3>3. v.e # RootEntry BY <1>1, <3>2, EntryFacts
    <3> QED BY <2>2, <3>3
  <2> QED BY <2>3, <2>4
<1>5. ASSUME NEW n \in Nat, n \in S PROVE n + 1 \in S
  <2> SUFFICES ASSUME n + 1 <= ClusterCount, NEW m \in 0 .. ClusterCount,
                      NEW u \in f[n + 1], NEW v \in f[m], u.e = v.e
               PROVE  u = v
    OBVIOUS
  <2>1. PICK k : k = n + 1 OBVIOUS
  <2>2. k \in 0 .. ClusterCount /\ k # 0 /\ k - 1 = n /\ n <= ClusterCount /\ u \in f[k]
        /\ n \in 0 .. ClusterCount
    BY <1>1, <2>1
  <2>3. PICK a \in f[n] : u \in Children(d, a) BY <1>1, <1>2, <2>2, LevelStep
  <2>4. a.e.ft = "dir" /\ u.e \in Entries(d, a.e.clu) /\ u = Node(d, Append(a.path, u.e.name), u.e)
    BY <1>1, <2>3, ChildFacts
  <2>5. CASE m = 0
    <3>1. v.e = RootEntry BY <1>1, <1>2, <2>5, LevelStep
    <3>2. u.e # RootEntry BY <1>1, <2>4, EntryFacts
    <3> QED BY <3>1, <3>2
  <2>6. CASE m # 0
    <3>0. PICK j \in 0 .. ClusterCount : \E b \in f[j] : v \in Children(d, b)
      BY <1>1, <1>2, <2>6, LevelStep
    <3>1. PICK b \in f[j] : v \in Children(d, b) BY <3>0
    <3>2. b.e.ft = "dir" /\ v.e \in Entries(d, b.e.clu) /\ v = Node(d, Append(b.path, v.e.name), v.e)
      BY <1>1, <3>1, ChildFacts
    <3>3. a.e \in O /\ b.e \in O BY <1>3, <2>2, <2>3, <3>1
    <3>4. PICK e : e = u.e OBVIOUS
    <3>5. e \in Entries(d, a.e.clu) /\ e \in Entries(d, b.e.clu) BY <2>4, <3>2, <3>4
    <3>6. a.e = b.e BY <1>1, <2>4, <3>2, <3>3, <3>5, OneParent
    <3>7. a = b BY <1>5, <2>2, <2>3, <3>1, <3>6
    <3> QED BY <2>4, <3>2, <3>7
  <2> QED BY <2>5, <2>6
<1>6. PICK T : T = S
  OBVIOUS
<1>7. Nat \subseteq T
  <2> HIDE DEF S
  <2> QED BY <1>4, <1>5, <1>6, InductionOnNat
<1>8. PICK n \in 0 .. ClusterCount, m \in 0 .. ClusterCount : x \in f[n] /\ y \in f[m]
  BY <1>2, NodeLevel
<1>9. n \in T /\ n <= ClusterCount
  BY <1>1, <1>7, <1>8
<1> QED BY <1>6, <1>8, <1>9

\* A good disk is sound.
LEMMA GoodSound ==
  ASSUME NEW d, NEW O, NEW mvd, Good(d, O, mvd)
  PROVE  Sound(d, Nodes(d), mvd)
<1>1. /\ Base(d, O) /\ d \in Disk
      /\ \A c \in DirsOf(O) : \A x \in Entries(d, c) : x.ft = "dir" => SoundDots(d, x, c, mvd)
  BY DEF Good, Base, Hangs, Tame
<1>2. PICK f : Levels(d, f)
  BY <1>1, NodesLoop
<1>3. ASSUME NEW x \in Nodes(d) PROVE x.e \in O
  <2>1. PICK n \in 0 .. ClusterCount : x \in f[n] BY <1>2, NodeLevel
  <2> QED BY <1>2, <2>1, NodesAre
<1>4. SoundChains(d, Nodes(d))
  <2>1. ASSUME NEW x \in Nodes(d) PROVE SoundChain(d, x.e.clu) BY <1>1, <1>3, ObjFacts
  <2>2. ASSUME NEW x \in Nodes(d), NEW y \in Nodes(d) \ {x}
        PROVE  ToSet(Chain(d, x.e.clu)) \cap ToSet(Chain(d, y.e.clu)) = {}
    <3>1. x.e # y.e BY OneNode
    <3>2. Held(d, x.e.clu) \cap Held(d, y.e.clu) = {} BY <1>1, <1>3, <3>1, ObjFacts
    <3> QED BY <3>2 DEF Held
  <2> QED BY <2>1, <2>2 DEF SoundChains
<1>5. SoundSizes(d, Nodes(d))
  <2>1. ASSUME NEW x \in Nodes(d) PROVE SoundSize(d, x.e) BY <1>1, <1>3, ObjFacts
  <2> QED BY <2>1 DEF SoundSizes
<1>6. SoundDirs(d, Nodes(d), mvd)
  <2> SUFFICES ASSUME NEW x \in Nodes(d), x.e.ft = "dir"
               PROVE  /\ SoundSlots(d, Chain(d, x.e.clu))
                      /\ \A e \in Entries(d, x.e.clu) :
                           e.ft = "dir" => SoundDots(d, e, x.e.clu, mvd)
    BY DEF SoundDirs
  <2>1. x.e.clu \in DirsOf(O) BY <1>1, <1>3, ObjFacts
  <2>2. SoundSlots(d, Chain(d, x.e.clu)) BY <1>1, <2>1, DirFacts
  <2> QED BY <1>1, <2>1, <2>2
<1> QED BY <1>4, <1>5, <1>6 DEF Sound

\* There is no directory at the last level: it and those above it would have more
\* first clusters than there are.
LEMMA NotSoDeep ==
  ASSUME NEW d \in Disk, NEW mvd, Sound(d, Nodes(d), mvd), NEW f, Levels(d, f), NEW x \in f[ClusterCount]
  PROVE  x.e.ft # "dir"
<1>1. SUFFICES ASSUME x.e.ft = "dir" PROVE FALSE
  OBVIOUS
<1>2. ClusterCount \in Nat
  BY Consts
<1> DEFINE S == {j \in Nat : j <= ClusterCount => \E y \in f[ClusterCount - j] : y.e.ft = "dir"}
<1>3. 0 \in S
  BY <1>1, <1>2
<1>4. ASSUME NEW j \in Nat, j \in S PROVE j + 1 \in S
  <2> SUFFICES ASSUME j + 1 <= ClusterCount
               PROVE  \E y \in f[ClusterCount - (j + 1)] : y.e.ft = "dir"
    OBVIOUS
  <2>1. PICK n : n = ClusterCount - j OBVIOUS
  <2>2. PICK m : m = ClusterCount - (j + 1) OBVIOUS
  <2>3. n \in 0 .. ClusterCount /\ n # 0 /\ n - 1 = m /\ j <= ClusterCount BY <1>2, <2>1, <2>2
  <2>4. PICK y \in f[n] : y.e.ft = "dir" BY <1>4, <2>1, <2>3
  <2>5. PICK z \in f[m] : y \in Children(d, z) BY <2>3, <2>4, LevelStep
  <2>6. z.e.ft = "dir" BY <2>5, ChildFacts
  <2> QED BY <2>2, <2>5, <2>6
<1>5. PICK T : T = S
  OBVIOUS
<1>6. Nat \subseteq T
  <2> HIDE DEF S
  <2> QED BY <1>3, <1>4, <1>5, InductionOnNat
<1>7. ASSUME NEW n \in 0 .. ClusterCount PROVE \E y \in f[n] : y.e.ft = "dir"
  <2>1. PICK j : j = ClusterCount - n OBVIOUS
  <2>2. j \in Nat /\ j <= ClusterCount /\ ClusterCount - j = n BY <1>2, <2>1
  <2>3. j \in S BY <1>5, <1>6, <2>2
  <2> QED BY <2>2, <2>3
<1> HIDE DEF S
<1>8. PICK g : g = [n \in 0 .. ClusterCount |-> CHOOSE y \in f[n] : y.e.ft = "dir"]
  OBVIOUS
<1>9. \A n \in 0 .. ClusterCount : g[n] \in f[n] /\ g[n].e.ft = "dir"
  BY <1>7, <1>8
<1>10. PICK h : h = [n \in 0 .. ClusterCount |-> g[n].e.clu]
  OBVIOUS
<1>11. ASSUME NEW n \in 0 .. ClusterCount
       PROVE  /\ h[n] \in Cluster /\ h[n] \in ToSet(Chain(d, g[n].e.clu))
              /\ g[n] \in Nodes(d) /\ Len(g[n].path) = n
  <2>1. g[n] \in Nodes(d) /\ g[n] \in Level(d, n) BY <1>9, LevelStep
  <2>2. SoundSize(d, g[n].e) BY <2>1 DEF Sound, SoundSizes
  <2>3. g[n].e.clu \in Cluster BY <1>9, <2>2 DEF SoundSize
  <2>4. g[n].e.clu \in Held(d, g[n].e.clu) BY <2>3, HeldFacts
  <2>5. Len(g[n].path) = n BY <2>1, LevelFacts
  <2> QED BY <1>10, <2>1, <2>3, <2>4, <2>5 DEF Held
<1>12. h \in [0 .. ClusterCount -> Cluster]
  BY <1>10, <1>11
<1>13. IsFiniteSet(0 .. ClusterCount) /\ Cardinality(0 .. ClusterCount) = ClusterCount + 1
  <2>1. 0 \in Int /\ ClusterCount \in Int /\ ~(0 > ClusterCount) BY <1>2
  <2>2. /\ IsFiniteSet(0 .. ClusterCount)
        /\ Cardinality(0 .. ClusterCount) = ClusterCount - 0 + 1
    BY <2>1, FS_Interval
  <2> QED BY <1>2, <2>2
<1>14. IsFiniteSet(Cluster) /\ Cardinality(Cluster) < Cardinality(0 .. ClusterCount)
  BY <1>2, <1>13, Clusters
<1>15. PICK n \in 0 .. ClusterCount, m \in 0 .. ClusterCount : n # m /\ h[n] = h[m]
  BY <1>12, <1>13, <1>14, FS_PigeonHole
<1>16. g[n] # g[m]
  BY <1>11, <1>15
<1>17. ToSet(Chain(d, g[n].e.clu)) \cap ToSet(Chain(d, g[m].e.clu)) = {}
  BY <1>11, <1>16 DEF Sound, SoundChains
<1> QED BY <1>11, <1>15, <1>17

\* A sound disk is good.
LEMMA SoundGood ==
  ASSUME NEW d \in Tame, NEW mvd, Sound(d, Nodes(d), mvd)
  PROVE  \E O : Good(d, O, mvd)
<1>1. d \in Disk /\ ClusterCount \in Nat
  BY Consts DEF Tame
<1>2. PICK f : Levels(d, f)
  BY <1>1, NodesLoop
<1>3. PICK O : O = {x.e : x \in Nodes(d)}
  OBVIOUS
<1>4. ASSUME NEW x \in Nodes(d)
      PROVE  \E n \in 0 .. ClusterCount : x \in f[n] /\ x \in Level(d, n)
  <2>1. PICK n \in 0 .. ClusterCount : x \in f[n] BY <1>2, NodeLevel
  <2> QED BY <1>1, <1>2, <2>1, LevelStep
<1>5. ASSUME NEW x \in Nodes(d) PROVE Obj(d, x.e)
  <2>1. x.e \in AnyEntry(d) BY <1>4, LevelFacts
  <2>2. x.e.ft \in {"dir", "file"} /\ x.e.clu \in Cluster \cup {Unused}
    BY <1>1, <2>1, AnyEntryFacts
  <2>3. SoundChain(d, x.e.clu) BY DEF Sound, SoundChains
  <2>4. SoundSize(d, x.e) BY DEF Sound, SoundSizes
  <2>5. x.e.ft = "dir" => SoundSlots(d, Chain(d, x.e.clu)) BY DEF Sound, SoundDirs
  <2> QED BY <2>2, <2>3, <2>4, <2>5 DEF Obj
<1>6. Apart(d, O)
  <2> SUFFICES ASSUME NEW a \in O, NEW b \in O, a # b PROVE Held(d, a.clu) \cap Held(d, b.clu) = {}
    BY DEF Apart
  <2>1. PICK x \in Nodes(d), y \in Nodes(d) : a = x.e /\ b = y.e BY <1>3
  <2>2. x # y BY <2>1
  <2>3. ToSet(Chain(d, x.e.clu)) \cap ToSet(Chain(d, y.e.clu)) = {}
    BY <2>2 DEF Sound, SoundChains
  <2> QED BY <2>1, <2>3 DEF Held
<1>7. Base(d, O)
  BY <1>3, <1>5, <1>6 DEF Base
<1>8. ASSUME NEW c \in DirsOf(O) PROVE \E x \in Nodes(d) : x.e.ft = "dir" /\ x.e.clu = c
  BY <1>3 DEF DirsOf
<1>9. RootEntry \in O
  <2>1. PICK x : x = Node(d, << >>, RootEntry) OBVIOUS
  <2>2. x \in f[0] /\ 0 \in 0 .. ClusterCount BY <1>1, <1>2, <2>1 DEF Levels
  <2>3. x \in Nodes(d) /\ x.e = RootEntry BY <1>1, <1>2, <2>2, LevelStep
  <2> QED BY <1>3, <2>3
<1>10. ASSUME NEW c \in DirsOf(O), NEW e \in Entries(d, c) PROVE e \in O
  <2>1. PICK x \in Nodes(d) : x.e.ft = "dir" /\ x.e.clu = c BY <1>8
  <2>2. PICK n \in 0 .. ClusterCount : x \in f[n] BY <1>4
  <2>3. n # ClusterCount BY <1>1, <1>2, <2>1, <2>2, NotSoDeep
  <2>4. Children(d, x) \subseteq Nodes(d) BY <1>1, <1>2, <2>2, <2>3, LevelStep
  <2>5. PICK y \in Children(d, x) : y.e = e BY <1>1, <2>1, ChildFacts
  <2> QED BY <1>3, <2>4, <2>5
<1>11. ASSUME NEW e \in O \ {RootEntry} PROVE \E c \in DirsOf(O) : e \in Entries(d, c)
  <2>1. PICK x \in Nodes(d) : x.e = e BY <1>3
  <2>2. PICK n \in 0 .. ClusterCount : x \in f[n] BY <1>4
  <2>3. n # 0 BY <1>1, <1>2, <2>1, <2>2, LevelStep
  <2>9. PICK m \in 0 .. ClusterCount : \E y \in f[m] : x \in Children(d, y)
    BY <1>1, <1>2, <2>2, <2>3, LevelStep
  <2>4. PICK y \in f[m] : x \in Children(d, y) BY <2>9
  <2>5. y.e.ft = "dir" /\ x.e \in Entries(d, y.e.clu) BY <1>1, <2>4, ChildFacts
  <2>6. y \in Nodes(d) BY <1>1, <1>2, <2>4, LevelStep
  <2>7. y.e \in O BY <1>3, <2>6
  <2>8. y.e.clu \in DirsOf(O) BY <2>5, <2>7 DEF DirsOf
  <2> QED BY <2>1, <2>5, <2>8
<1>12. ASSUME NEW c \in DirsOf(O), NEW e \in Entries(d, c), e.ft = "dir" PROVE SoundDots(d, e, c, mvd)
  <2>1. PICK x \in Nodes(d) : x.e.ft = "dir" /\ x.e.clu = c BY <1>8
  <2>2. \A z \in Entries(d, x.e.clu) : z.ft = "dir" => SoundDots(d, z, x.e.clu, mvd)
    BY <2>1 DEF Sound, SoundDirs
  <2> QED BY <1>12, <2>1, <2>2
<1>13. Hangs(d, O, mvd)
  BY <1>9, <1>10, <1>11, <1>12 DEF Hangs
<1> QED BY <1>7, <1>13 DEF Good

-----------------------------------------------------------------------------
(* The invariant *)

\* The inductive invariant: the disk has its type and a root directory, the nodes are
\* those of a walk on it, the current directory is a short path of names, and unless
\* something has broken the tree there are objects that make the disk good.
FatInv ==
  /\ disk \in Tame /\ nodes = Nodes(disk)
  /\ cwd \in Seq(Names) /\ Len(cwd) <= MAX_DEPTH
  /\ moved \in BOOLEAN /\ broken \in BOOLEAN
  /\ ~broken => \E O : Good(disk, O, moved)

\* The machine starts with what mkfs has written.
LEMMA InitFat == Init => FatInv
<1> SUFFICES ASSUME Init PROVE FatInv
  OBVIOUS
<1>1. disk \in Tame /\ \E O : Good(disk, O, moved)
  BY MkfsGood DEF Init
<1>2. cwd \in Seq(Names) /\ Len(cwd) <= MAX_DEPTH
  BY Consts DEF Init
<1> QED BY <1>1, <1>2 DEF Init, FatInv

\* A command runs to its end or is cut at one of its writes.
LEMMA DoesFacts ==
  ASSUME FatInv, NEW cmd, NEW on, NEW r, Okay(r), Does(cmd, on, r), cmd # "crash"
  PROVE  /\ disk' \in Tame /\ nodes' = Nodes(disk')
         /\ cwd' \in Seq(Names) /\ Len(cwd') <= MAX_DEPTH
         /\ disk' = r.d \/ Crashed
<1>1. r.d \in Tame /\ r.log \in SUBSET Tame
  BY DEF Okay
<1>2. nodes' = Nodes(disk')
  BY DEF Does, FatInv
<1>3. CASE disk' = r.d /\ UNCHANGED cwd
  BY <1>1, <1>2, <1>3 DEF FatInv
<1>4. CASE disk' \in r.log /\ cwd' = << >> /\ last' = [cmd |-> "crash", res |-> cmd, on |-> on]
  <2>1. disk' \in Tame BY <1>1, <1>4
  <2>2. cwd' \in Seq(Names) /\ Len(cwd') <= MAX_DEPTH BY <1>4, Consts
  <2>3. last'.cmd = "crash" BY <1>4
  <2> QED BY <1>2, <2>1, <2>2, <2>3 DEF Crashed
<1> QED BY <1>3, <1>4 DEF Does

\* It keeps the invariant if what it makes of the disk is good, or is called broken.
LEMMA KeepsFat ==
  ASSUME FatInv, NEW cmd, NEW on, NEW r, Okay(r), Does(cmd, on, r), cmd # "crash",
         moved' \in BOOLEAN, broken' \in BOOLEAN,
         ~broken' => Fine(r, moved'),
         ~broken' /\ Crashed => Sound(disk', nodes', moved')
  PROVE  FatInv'
<1>1. /\ disk' \in Tame /\ nodes' = Nodes(disk')
      /\ cwd' \in Seq(Names) /\ Len(cwd') <= MAX_DEPTH
      /\ disk' = r.d \/ Crashed
  BY DoesFacts
<1>2. ASSUME ~broken' PROVE \E O : Good(disk', O, moved')
  <2>1. CASE disk' = r.d
    BY <1>2, <2>1 DEF Fine
  <2>2. CASE Crashed
    <3>1. Sound(disk', nodes', moved') BY <1>2, <2>2
    <3>2. PICK d, m : d = disk' /\ m = moved' OBVIOUS
    <3>3. d \in Tame /\ Sound(d, Nodes(d), m) BY <1>1, <3>1, <3>2
    <3>4. \E O : Good(d, O, m) BY <3>3, SoundGood
    <3> QED BY <3>2, <3>4
  <2> QED BY <1>1, <2>1, <2>2
<1> QED BY <1>1, <1>2 DEF FatInv

\* The commands on one path.
LEMMA ChangesFat ==
  ASSUME FatInv, NEW cmd, cmd # "crash", NEW p \in Paths, NEW r, NEW harm, Changes(cmd, p, r, harm),
         Okay(r), Fine(r, moved) \/ (harm /\ r.res = "ok")
  PROVE  FatInv'
<1>1. /\ Does(cmd, {Abs!Target(p)}, r) /\ moved' = moved
      /\ broken' = (\/ harm /\ r.res = "ok"
                    \/ Crashed /\ ~Sound(disk', nodes', moved'))
  BY DEF Changes
<1>2. moved' \in BOOLEAN /\ broken' \in BOOLEAN
  BY <1>1 DEF FatInv
<1>3. ~broken' => Fine(r, moved')
  BY <1>1
<1>4. ~broken' /\ Crashed => Sound(disk', nodes', moved')
  BY <1>1
<1>5. PICK on : on = {Abs!Target(p)}
  OBVIOUS
<1>6. Does(cmd, on, r)
  BY <1>1, <1>5
<1> QED BY ONLY FatInv, cmd # "crash", Okay(r), <1>2, <1>3, <1>4, <1>6, KeepsFat

\* What a command may rely on when it starts.
LEMMA StandsFat ==
  ASSUME FatInv, NEW p \in Paths, Runs(p)
  PROVE  /\ ~broken /\ disk \in Tame
         /\ \A O : Good(disk, O, moved) => Stands(disk, O, moved, p)
         /\ \E O : Good(disk, O, moved)
BY DEF FatInv, Runs, Stands

\* One lemma per command.
LEMMA TouchFat == ASSUME FatInv, NEW p \in Paths, DoTouch(p) PROVE FatInv'
<1>1. PICK r : r = Touch(Starts(disk), p)
  OBVIOUS
<1>2. Changes("touch", p, r, FALSE) /\ Runs(p)
  BY <1>1 DEF DoTouch, Changes
<1>3. PICK O : Stands(disk, O, moved, p)
  BY <1>2, StandsFat
<1>4. Fine(r, moved)
  BY <1>1, <1>3, TouchFine
<1> QED BY <1>2, <1>4, ChangesFat DEF Fine

\* mkdir.
LEMMA MkdirFat == ASSUME FatInv, NEW p \in Paths, DoMkdir(p) PROVE FatInv'
<1>1. PICK r : r = Mkdir(Starts(disk), p)
  OBVIOUS
<1>2. Changes("mkdir", p, r, FALSE) /\ Runs(p)
  BY <1>1 DEF DoMkdir, Changes
<1>3. PICK O : Stands(disk, O, moved, p)
  BY <1>2, StandsFat
<1>4. Fine(r, moved)
  BY <1>1, <1>3, MkdirFine
<1> QED BY <1>2, <1>4, ChangesFat DEF Fine

\* write_file.
LEMMA WriteFileFat ==
  ASSUME FatInv, NEW p \in Paths, NEW x \in Payloads \ {Empty}, DoWrite(p, x) PROVE FatInv'
<1>1. PICK r, h : r = WriteFile(Starts(disk), p, x) /\ h = (Given(p).ft = "dir")
  OBVIOUS
<1>2. Changes("write", p, r, h) /\ Runs(p)
  BY <1>1 DEF DoWrite, Changes
<1>3. PICK O : Stands(disk, O, moved, p)
  BY <1>2, StandsFat
<1>4. Okay(r) /\ (Fine(r, moved) \/ (r.res = "ok" /\ h))
  BY <1>1, <1>3, WriteFine DEF Given
<1> QED BY <1>2, <1>4, ChangesFat

\* rm.
LEMMA RmFat == ASSUME FatInv, NEW p \in Paths, DoRm(p) PROVE FatInv'
<1>1. PICK r : r = Rm(Starts(disk), p)
  OBVIOUS
<1>2. Changes("rm", p, r, FALSE) /\ Runs(p)
  BY <1>1 DEF DoRm, Changes
<1>3. PICK O : Stands(disk, O, moved, p)
  BY <1>2, StandsFat
<1>4. Fine(r, moved)
  BY <1>1, <1>3, RmFine
<1> QED BY <1>2, <1>4, ChangesFat DEF Fine

\* rmdir.
LEMMA RmdirFat == ASSUME FatInv, NEW p \in Paths, DoRmdir(p) PROVE FatInv'
<1>1. PICK r : r = Rmdir(Starts(disk), p)
  OBVIOUS
<1>2. Changes("rmdir", p, r, FALSE) /\ Runs(p)
  BY <1>1 DEF DoRmdir, Changes
<1>3. PICK O : Stands(disk, O, moved, p)
  BY <1>2, StandsFat
<1>4. Fine(r, moved)
  BY <1>1, <1>3, RmFine
<1> QED BY <1>2, <1>4, ChangesFat DEF Fine

\* mv.
LEMMA MvFat == ASSUME FatInv, NEW p \in Paths, NEW q \in Paths, DoMv(p, q) PROVE FatInv'
<1>1. PICK r : r = Mv(Starts(disk), p, q)
  OBVIOUS
<1>2. PICK e, c, t : e = Given(p) /\ c = ParentOf(disk, p) /\ t = ParentOf(disk, q)
  OBVIOUS
<1>3. PICK on : on = {Abs!Target(p), Abs!Target(q)}
  OBVIOUS
<1>4. Runs(p) /\ Runs(q) /\ Does("mv", on, r) /\ MovesDir(p, q, r, e, c, t)
  BY <1>1, <1>2, <1>3 DEF DoMv
<1>5. /\ moved' = (moved \/ ((r.res = "ok" /\ e.ft = "dir") /\ c # t))
      /\ broken' = (\/ (r.res = "ok" /\ e.ft = "dir") /\ IsPrefix(Abs!Target(p), Abs!Target(q))
                    \/ Crashed /\ ~Sound(disk', nodes', moved'))
  BY <1>4 DEF MovesDir
<1>6. moved' \in BOOLEAN /\ broken' \in BOOLEAN
  BY <1>5 DEF FatInv
<1>7. ~broken' /\ Crashed => Sound(disk', nodes', moved')
  BY <1>5
<1>8. PICK O : Stands(disk, O, moved, p) /\ Stands(disk, O, moved, q)
  BY <1>4, StandsFat
<1>9. moved => moved'
  BY <1>5
<1>10. r.res = "ok" /\ e.ft = "dir" /\ c # t => moved'
  BY <1>5
<1>11. Fine(r, moved')
  <2>1. PICK d, m, m2 : d = disk /\ m = moved /\ m2 = moved' OBVIOUS
  <2>2. Stands(d, O, m, p) /\ Stands(d, O, m, q) /\ (m => m2) BY <1>8, <1>9, <2>1
  <2>3. (/\ Mv(Starts(d), p, q).res = "ok"
         /\ LookUp(d, ParentOf(d, p), Leaf(p)).ft = "dir"
         /\ ParentOf(d, p) # ParentOf(d, q)) => m2
    BY <1>1, <1>2, <1>10, <2>1 DEF Given
  <2>4. Fine(Mv(Starts(d), p, q), m2) BY ONLY <2>2, <2>3, MvFine
  <2> QED BY <1>1, <2>1, <2>4
<1>12. Okay(r)
  BY <1>11 DEF Fine
<1>13. "mv" # "crash"
  OBVIOUS
<1> QED BY ONLY FatInv, <1>4, <1>6, <1>7, <1>11, <1>12, <1>13, KeepsFat

\* cd changes the current directory only.
LEMMA CdFat == ASSUME FatInv, NEW p \in Paths, DoCd(p) PROVE FatInv'
<1>1. Candidate(p) \in Cds
  BY CandidateFacts DEF FatInv
<1>2. cwd' \in Seq(Names) /\ Len(cwd') <= MAX_DEPTH
  BY <1>1 DEF DoCd, Cds, FatInv
<1> QED BY <1>2 DEF DoCd, FatInv

\* A look changes nothing.
LEMMA ReadFat == ASSUME FatInv, NEW p \in Paths, DoRead(p) PROVE FatInv'
BY DEF FatInv, DoRead

\* mkfs again: nothing of the old disk is left.
LEMMA MkfsFat == ASSUME FatInv, DoMkfs PROVE FatInv'
<1>1. disk' = MkfsDisk /\ nodes' = Nodes(disk') /\ moved' = FALSE /\ broken' = FALSE /\ cwd' = cwd
  BY DEF DoMkfs
<1>2. disk' \in Tame /\ \E O : Good(disk', O, moved')
  BY <1>1, MkfsGood
<1> QED BY <1>1, <1>2 DEF FatInv

\* Every step keeps the invariant.
LEMMA StepFat == FatInv /\ [Next]_vars => FatInv'
<1> SUFFICES ASSUME FatInv, [Next]_vars PROVE FatInv'
  OBVIOUS
<1>1. CASE \E p \in Paths : DoTouch(p) BY <1>1, TouchFat
<1>2. CASE \E p \in Paths : DoMkdir(p) BY <1>2, MkdirFat
<1>3. CASE \E p \in Paths : DoRm(p) BY <1>3, RmFat
<1>4. CASE \E p \in Paths : DoRmdir(p) BY <1>4, RmdirFat
<1>5. CASE \E p \in Paths : DoRead(p) BY <1>5, ReadFat
<1>6. CASE \E p \in Paths : DoCd(p) BY <1>6, CdFat
<1>7. CASE \E p \in Paths : \E d \in Payloads \ {Empty} : DoWrite(p, d) BY <1>7, WriteFileFat
<1>8. CASE \E p, q \in Paths : DoMv(p, q) BY <1>8, MvFat
<1>9. CASE DoMkfs BY <1>9, MkfsFat
<1>10. CASE UNCHANGED vars
  BY <1>10 DEF vars, FatInv
<1> QED BY <1>1, <1>2, <1>3, <1>4, <1>5, <1>6, <1>7, <1>8, <1>9, <1>10 DEF Next

\* FatInv holds in every state.
THEOREM FatInvariant == Spec => []FatInv
BY InitFat, StepFat, PTL DEF Spec

\* What it says of the properties.
LEMMA FatSound ==
  ASSUME FatInv
  PROVE  TypeOK /\ ChainsSound /\ DirsSound
<1>1. TypeOK
  BY DEF FatInv, TypeOK, Tame
<1>2. ASSUME ~broken PROVE Sound(disk, nodes, moved)
  <2>1. PICK O : Good(disk, O, moved) BY <1>2 DEF FatInv
  <2>2. Sound(disk, Nodes(disk), moved) BY <2>1, GoodSound
  <2> QED BY <2>2 DEF FatInv
<1> QED BY <1>1, <1>2 DEF ChainsSound, DirsSound, Sound

\* The disk keeps the shape that its readers expect, in every state that a command or a
\* power failure may leave: links lead to clusters, entries have their fields, the root
\* directory is never freed; the current directory is at most MAX_DEPTH deep.
THEOREM FatTypes == Spec => []TypeOK
BY FatInvariant, FatSound, PTL

\* No cluster belongs to two files or directories and none that is in use is free, every
\* chain ends, and a file has the clusters its size asks for: alloc_cluster, free_chain,
\* write_file, the directory that grows, mv and mkfs never share or lose one, nor do the
\* commands that fail or are cut without harm.
THEOREM FatChainsSound == Spec => []ChainsSound
BY FatInvariant, FatSound, PTL

\* No directory has an entry behind its end mark or a name twice, and the dot entries lead
\* to the directory and, until mv takes one elsewhere, to its parent, across wiped slots,
\* new clusters and moves.
THEOREM FatDirsSound == Spec => []DirsSound
BY FatInvariant, FatSound, PTL
=============================================================================
