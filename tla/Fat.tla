-------------------------------- MODULE Fat --------------------------------
(***************************************************************************)
(* The FAT32 file system (fat.rs) with the current directory that the      *)
(* front end keeps (fs.rs).  It has no journal: a command is the sequence  *)
(* of its sector writes, and the power may fail after each of them.  The   *)
(* helpers run one after the other on a record of the disk and remember    *)
(* every state the disk went through; a command that runs to its end       *)
(* leaves the last of them and a command that is cut any other.            *)
(*                                                                         *)
(* Writes reach the disk whole and in order.  Of the copies of the FAT,    *)
(* only the first is read and only the first is modelled.  A directory     *)
(* cluster holds SLOTS entries (sixteen in the code, one sector).          *)
(***************************************************************************)
EXTENDS Integers, FiniteSets, Sequences, SequencesExt, FiniteSetsExt

CONSTANTS
  Names,      \* entry names
  Dotted,     \* a name with an extension
  Paths,      \* what a command is given: [abs |-> BOOLEAN, comps |-> names]
  Payloads, Empty, Size(_), \* file contents, the empty one, and the clusters they take
  MaxFile,    \* clusters of the largest file (128)
  Seeds,      \* the directories mkfs makes (six in the code)
  ClusterCount, SLOTS,
  MAX_DEPTH   \* components of the current directory (16)

Cluster == 2 .. ClusterCount + 1
Root == 2      \* root_clus
Unused == 0    \* the FAT's value of a free cluster, and the first cluster of an empty file
Eoc == 1       \* the end of a chain; any value of the code's that is not a cluster
Dots == {".", ".."}

ASSUME FatConstants ==
  /\ {ClusterCount, SLOTS, MAX_DEPTH, MaxFile} \subseteq Nat \ {0}
  /\ Seeds \in Seq(Names) /\ IsInjective(Seeds)
  /\ SLOTS > 2 /\ SLOTS >= Len(Seeds) /\ ClusterCount > Len(Seeds)
  /\ Names \cap Dots = {}
  /\ \A p \in Paths : p.comps \in Seq(Names \cup Dots) /\ p.comps # << >>
  /\ Empty \in Payloads /\ Size(Empty) = 0
  /\ \A d \in Payloads \ {Empty} : Size(d) \in Nat \ {0}

VARIABLES
  disk,   \* [fat |-> the FAT, blk |-> the contents of the clusters]
  cwd,    \* CWD: the names of the current directory
  last,   \* history: the command that ran last, its answer, and the nodes it was given
  nodes,  \* history: what a walk from the root finds, recomputed at every step
  moved,  \* history: a directory went to another parent (mv leaves its "..")
  broken  \* history: mv put a directory below itself, a write replaced a directory
          \* or a power failure left the structures inconsistent

vars == <<disk, cwd, last, nodes, moved, broken>>

-----------------------------------------------------------------------------
(* The disk, and a command that runs on it *)

Entry(n, ft, c, size) == [name |-> n, ft |-> ft, clu |-> c, size |-> size]
End == Entry("", "end", Unused, 0)       \* first byte 0x00: the walks stop here
Wiped == Entry("", "wiped", Unused, 0)   \* first byte 0xE5
ZeroBlock == [ents |-> [k \in 1 .. SLOTS |-> End], data |-> Empty]
DataBlock(d) == [ents |-> [k \in 1 .. SLOTS |-> End], data |-> d]

\* What is left in a cluster that was used before: anything.  This stands for
\* it: the contents of nobody's file, an entry that nobody made.
StaleBlock == [ents |-> [k \in 1 .. SLOTS |-> Entry("stale", "file", Root, 1)],
               data |-> "stale"]

EntryType == [name : Names \cup Dots \cup {"", "stale"}, ft : {"end", "wiped", "dir", "file"},
              clu : Cluster \cup {Unused}, size : Nat]
BlockType == [ents : [1 .. SLOTS -> EntryType], data : Payloads \cup {"stale"}]
Disk == [fat : [Cluster -> Cluster \cup {Unused, Eoc}], blk : [Cluster -> BlockType]]

\* A running command: the disk, the states it went through, the answer so far
\* and what the last helper returns.
Run(d, log, res, val) == [d |-> d, log |-> log, res |-> res, val |-> val]
Starts(d) == Run(d, {}, "ok", << >>)
Puts(r, d) == Run(d, r.log \cup {d}, r.res, r.val)
Gives(r, v) == Run(r.d, r.log, r.res, v)
Refuses(r, e) == Run(r.d, r.log, e, r.val)
Then(r, Op(_, _)) == IF r.res = "ok" THEN Op(r, r.val) ELSE r

WriteFat(r, c, v) == Puts(r, [r.d EXCEPT !.fat[c] = v])
WriteBlock(r, c, b) == Puts(r, [r.d EXCEPT !.blk[c] = b])
WriteEntry(r, pos, e) == Puts(r, [r.d EXCEPT !.blk[pos[1]].ents[pos[2]] = e])
Wipe(r, pos) == WriteEntry(r, pos, Wiped)

\* The first free cluster, marked as the end of a chain; its contents stay.
AllocCluster(r) ==
  LET free == {c \in Cluster : r.d.fat[c] = Unused}
      c    == Min(free)
  IN  IF free = {} THEN Refuses(r, "NoSpace")
      ELSE Gives(Puts(r, [r.d EXCEPT !.fat[c] = Eoc, !.blk[c] = StaleBlock]), c)

\* The chain from c, as far as it leads to clusters, no longer than the disk.
Follow(d, s) == LET n == d.fat[Last(s)] IN IF n \in Cluster THEN Append(s, n) ELSE s
Chain(d, c) ==
  LET upTo[k \in 0 .. ClusterCount - 1] == IF k = 0 THEN <<c>> ELSE Follow(d, upTo[k - 1])
  IN  IF c \in Cluster THEN upTo[ClusterCount - 1] ELSE << >>

\* Mutant of FreeChain: the last cluster of the chain is forgotten.
FreeChainButLast(r, c) ==
  LET ch == Chain(r.d, c)
      n  == IF ch = << >> THEN 0 ELSE Len(ch) - 1
      freed[k \in 0 .. n] == IF k = 0 THEN r ELSE WriteFat(freed[k - 1], ch[k], Unused)
  IN  freed[n]

\* free_chain reads the link of a cluster before it zeroes it.
FreeChain(r, c) ==
  LET ch == Chain(r.d, c)
      freed[k \in 0 .. Len(ch)] ==
        IF k = 0 THEN r ELSE WriteFat(freed[k - 1], ch[k], Unused)
  IN  freed[Len(ch)]

-----------------------------------------------------------------------------
(* Directories *)

\* The slots of a directory with the chain ch: the number of the cluster in the
\* chain and the place in it.  They are read in this order.
Slots(ch) == (1 .. Len(ch)) \X (1 .. SLOTS)
Before(s, t) == s[1] < t[1] \/ (s[1] = t[1] /\ s[2] < t[2])
First(S) == CHOOSE s \in S : \A t \in S : t = s \/ Before(s, t)
Pos(ch, s) == <<ch[s[1]], s[2]>>
In(d, ch, s) == d.blk[ch[s[1]]].ents[s[2]]

\* An entry with its position on the disk.
Placed(pos, e) ==
  [pos |-> pos, name |-> e.name, ft |-> e.ft, clu |-> e.clu, size |-> e.size]
NoEntry == Placed(<<Unused, 0>>, End)
RootEntry == Placed(<<Unused, 0>>, Entry("", "dir", Root, 0))

\* walk_dir: the entries in use before the first end mark.
InUse(e) == e.ft \in {"dir", "file"}
Walk(d, ch) ==
  {s \in Slots(ch) :
     /\ InUse(In(d, ch, s)) /\ In(d, ch, s).name \notin Dots
     /\ \A t \in Slots(ch) : Before(t, s) => In(d, ch, t).ft # "end"}
Shown(d, ch, s) == Placed(Pos(ch, s), In(d, ch, s))
Entries(d, c) == LET ch == Chain(d, c) IN {Shown(d, ch, s) : s \in Walk(d, ch)}

\* look_up and find_pos.
LookUp(d, c, n) ==
  LET ch == Chain(d, c)
      S  == {s \in Walk(d, ch) : In(d, ch, s).name = n}
  IN  IF S = {} THEN NoEntry ELSE Shown(d, ch, First(S))
Has(d, c, n) == LookUp(d, c, n) # NoEntry

\* parent_of: the root is its own parent, and the parent of a directory that
\* has no "..".
RootIf0(c) == IF c = Unused THEN Root ELSE c
ParentDir(d, c) ==
  LET ch == Chain(d, c)
      S  == {s \in Slots(ch) : InUse(In(d, ch, s)) /\ In(d, ch, s).name = ".."}
  IN  IF c = Root \/ S = {} THEN Root ELSE RootIf0(In(d, ch, First(S)).clu)

\* resolve; Unused if a component is not a directory.
Enter(d, c, n) == IF LookUp(d, c, n).ft = "dir" THEN LookUp(d, c, n).clu ELSE Unused
Into(d, c, n) ==
  IF c = Unused \/ n = "." THEN c ELSE IF n = ".." THEN ParentDir(d, c) ELSE Enter(d, c, n)
Descend(d, c, comps) ==
  LET dir[k \in 0 .. Len(comps)] == IF k = 0 THEN c ELSE Into(d, dir[k - 1], comps[k])
  IN  dir[Len(comps)]

\* cluster_from_cwd compares the characters of a component with the eleven of
\* an entry as they are: one with an extension is never found.
EnterCwd(d, c, n) == IF n = Dotted THEN Unused ELSE Enter(d, c, n)
CwdCluster(d, names) ==
  LET dir[k \in 0 .. Len(names)] ==
        IF k = 0 THEN Root ELSE EnterCwd(d, dir[k - 1], names[k])
  IN  dir[Len(names)]

\* split_parent and resolve_from_cwd: as in ext4, a path of one component is
\* taken in the current directory, with a leading slash or without.
ParentOf(d, p) ==
  Descend(d, IF p.abs /\ Len(p.comps) > 1 THEN Root ELSE CwdCluster(d, cwd), Front(p.comps))
Leaf(p) == Last(p.comps)
DotLeaf(p) == Leaf(p) \in Dots   \* make_83 refuses them

\* Mutant of Zeroed: the cluster that was full is zeroed, not the new one.
ZeroedWrong(r, last_, n) ==
  Gives(WriteBlock(WriteFat(r, last_, n), last_, ZeroBlock), <<n, 1>>)

\* A slot that is wiped or past the end, else the first of a new cluster, which
\* is linked before it is zeroed.
Zeroed(r, last_, n) == Gives(WriteBlock(WriteFat(r, last_, n), n, ZeroBlock), <<n, 1>>)
FreeSlots(d, ch) == {s \in Slots(ch) : ~InUse(In(d, ch, s))}
FindFreeSlot(r, c) ==
  LET ch == Chain(r.d, c)
      S  == FreeSlots(r.d, ch)
  IN  IF S # {} THEN Gives(r, Pos(ch, First(S)))
      ELSE Then(AllocCluster(r), LAMBDA r1, n : Zeroed(r1, Last(ch), n))

\* A command works in the directory c on what is there under its name.
InDir(r, c, p, Op(_, _)) ==
  IF c = Unused THEN Refuses(r, "NoPath")
  ELSE IF DotLeaf(p) THEN Refuses(r, "BadName") ELSE Op(c, LookUp(r.d, c, Leaf(p)))
InParent(r, p, Op(_, _)) == InDir(r, ParentOf(r.d, p), p, Op)

-----------------------------------------------------------------------------
(* The commands *)

NewEntry(r, c, e) == Then(FindFreeSlot(r, c), LAMBDA r1, pos : WriteEntry(r1, pos, e))

Touch(r, p) ==
  InParent(r, p, LAMBDA c, e :
    IF e # NoEntry THEN r ELSE NewEntry(r, c, Entry(Leaf(p), "file", Unused, 0)))

Dot(c) == Entry(".", "dir", c, 0)
DotDot(c) == Entry("..", "dir", IF c = Root THEN Unused ELSE c, 0)
NewDir(r, c, p) ==
  WriteEntry(WriteEntry(WriteBlock(r, c, ZeroBlock), <<c, 1>>, Dot(c)), <<c, 2>>, DotDot(p))

\* Mutant of MkdirAt: the entry is written before the directory it leads to.
MkdirEarly(r, pos, n, c, name) == NewDir(WriteEntry(r, pos, Entry(name, "dir", n, 0)), n, c)

MkdirAt(r, pos, n, c, name) == WriteEntry(NewDir(r, n, c), pos, Entry(name, "dir", n, 0))
Mkdir(r, p) ==
  InParent(r, p, LAMBDA c, e :
    IF e # NoEntry THEN Refuses(r, "Exists")
    ELSE Then(FindFreeSlot(r, c), LAMBDA r1, pos :
         Then(AllocCluster(r1), LAMBDA r2, n : MkdirAt(r2, pos, n, c, Leaf(p)))))

\* Mutant of Linked: the clusters are not linked to each other.
LinkedNot(r, chain, n) == Gives(r, Append(chain, n))

\* The new chain of write_file, all of it, before anything else changes.
Linked(r, chain, n) ==
  Gives(IF chain = << >> THEN r ELSE WriteFat(r, Last(chain), n), Append(chain, n))
AllocOne(r) ==
  Then(r, LAMBDA r1, chain : Then(AllocCluster(r1), LAMBDA r2, n : Linked(r2, chain, n)))
AllocChain(r, size) ==
  LET got[k \in 0 .. size] == IF k = 0 THEN Gives(r, << >>) ELSE AllocOne(got[k - 1])
  IN  got[size]

\* The data come last.
WriteData(r, chain, d) ==
  LET wrote[k \in 0 .. Len(chain)] ==
        IF k = 0 THEN r ELSE WriteBlock(wrote[k - 1], chain[k], DataBlock(d))
  IN  wrote[Len(chain)]

\* The existing entry keeps its attribute: a directory stays one.
Replace(r, e, chain, d) ==
  WriteEntry(FreeChain(r, e.clu), e.pos, Entry(e.name, e.ft, chain[1], Size(d)))

WriteFile(r, p, d) ==
  IF Size(d) > MaxFile THEN Refuses(r, "TooBig")
  ELSE InParent(r, p, LAMBDA c, e :
    Then(AllocChain(r, Size(d)), LAMBDA r1, chain :
    Then(IF e # NoEntry THEN Replace(r1, e, chain, d)
         ELSE NewEntry(r1, c, Entry(Leaf(p), "file", chain[1], Size(d))),
         LAMBDA r2, x : WriteData(r2, chain, d))))

\* rm and rmdir: the chain is freed before the entry is wiped.
RemoveNode(r, e) == Wipe(FreeChain(r, e.clu), e.pos)

Rm(r, p) ==
  InParent(r, p, LAMBDA c, e :
    IF e = NoEntry THEN Refuses(r, "NoPath")
    ELSE IF e.ft = "dir" THEN Refuses(r, "IsDir")
    ELSE RemoveNode(r, e))

\* Mutant of Rmdir: the directory may have entries.
RmdirFull(r, p) ==
  InParent(r, p, LAMBDA c, e :
    IF e = NoEntry THEN Refuses(r, "NoPath")
    ELSE IF e.ft # "dir" THEN Refuses(r, "NotDir")
    ELSE RemoveNode(r, e))

Rmdir(r, p) ==
  InParent(r, p, LAMBDA c, e :
    IF e = NoEntry THEN Refuses(r, "NoPath")
    ELSE IF e.ft # "dir" THEN Refuses(r, "NotDir")
    ELSE IF Entries(r.d, e.clu) # {} THEN Refuses(r, "NotEmpty")
    ELSE RemoveNode(r, e))

\* Mutant of MvEntry: the new name may be taken.
MvOver(r, e, t, n) ==
  Then(FindFreeSlot(r, t), LAMBDA r1, pos :
    Wipe(WriteEntry(r1, pos, Entry(n, e.ft, e.clu, e.size)), e.pos))

\* The new entry is written before the old one is wiped.
MvEntry(r, e, t, n) ==
  IF Has(r.d, t, n) THEN Refuses(r, "Exists")
  ELSE Then(FindFreeSlot(r, t), LAMBDA r1, pos :
         Wipe(WriteEntry(r1, pos, Entry(n, e.ft, e.clu, e.size)), e.pos))
Mv(r, p, q) ==
  InParent(r, p, LAMBDA c, e :
    IF e = NoEntry THEN Refuses(r, "NoPath")
    ELSE IF DotLeaf(q) THEN Refuses(r, "BadName")
    ELSE IF ParentOf(r.d, q) = Unused THEN Refuses(r, "NoPath")
    ELSE MvEntry(r, e, ParentOf(r.d, q), Leaf(q)))

\* read_file and cat: as many clusters as the size says, along the chain.
IsWritten(d, ch, size, x) ==
  size = Size(x) /\ \A k \in 1 .. size : d.blk[ch[k]] = DataBlock(x)
Read(d, ch, size) ==
  IF size = 0 \/ ch = << >> THEN Empty
  ELSE IF Len(ch) >= size /\ IsWritten(d, ch, size, d.blk[ch[1]].data) THEN d.blk[ch[1]].data
  ELSE "garbage"
Contents(d, e) == Read(d, Chain(d, e.clu), e.size)

ReadFile(d, p) ==
  InParent(Starts(d), p, LAMBDA c, e :
    Refuses(Starts(d), IF e = NoEntry THEN "NoPath" ELSE IF e.ft = "dir" THEN "IsDir"
                       ELSE Contents(d, e))).res

\* Mutant of CdStep: no limit.
CdStepAny(r, c) ==
  IF c = "." THEN r
  ELSE IF c = ".." THEN [r EXCEPT !.dir = IF @ = << >> THEN @ ELSE Front(@)]
  ELSE [r EXCEPT !.dir = Append(@, c)]

\* cd of fs.rs, and check_dir.
CdStep(r, c) ==
  IF c = "." \/ r.res # "ok" THEN r
  ELSE IF c = ".." THEN [r EXCEPT !.dir = IF @ = << >> THEN @ ELSE Front(@)]
  ELSE IF Len(r.dir) >= MAX_DEPTH THEN [r EXCEPT !.res = "TooBig"]
  ELSE [r EXCEPT !.dir = Append(@, c)]
Candidate(p) ==
  LET after[k \in 0 .. Len(p.comps)] ==
        IF k = 0 THEN [dir |-> IF p.abs THEN << >> ELSE cwd, res |-> "ok"]
        ELSE CdStep(after[k - 1], p.comps[k])
  IN  after[Len(p.comps)]

CdAnswer(d, r) ==
  IF r.res # "ok" THEN r.res
  ELSE IF CwdCluster(d, r.dir) = Unused THEN "NoPath" ELSE "ok"

\* mkfs: an empty FAT but for the root, and the seed directories.
BlankDisk == [fat |-> [c \in Cluster |-> IF c = Root THEN Eoc ELSE Unused],
              blk |-> [c \in Cluster |-> ZeroBlock]]
Seed(r, k) ==
  Then(AllocCluster(r), LAMBDA r1, n : MkdirAt(r1, <<Root, k>>, n, Root, Seeds[k]))
MkfsDisk ==
  LET seeded[k \in 0 .. Len(Seeds)] ==
        IF k = 0 THEN Starts(BlankDisk) ELSE Seed(seeded[k - 1], k)
  IN  seeded[Len(Seeds)].d

-----------------------------------------------------------------------------
(* The actions *)

\* What a walk from the root finds: paths, their entries and the files' contents.
NodeVal(d, e) == IF e.ft = "dir" THEN "dir" ELSE Contents(d, e)
Node(d, path, e) == [path |-> path, e |-> e, val |-> NodeVal(d, e)]
Children(d, x) ==
  IF x.e.ft = "dir" THEN {Node(d, Append(x.path, e.name), e) : e \in Entries(d, x.e.clu)}
  ELSE {}

Nodes(d) ==
  LET lev[n \in 0 .. ClusterCount] ==
        IF n = 0 THEN {Node(d, << >>, RootEntry)}
        ELSE UNION {Children(d, x) : x \in lev[n - 1]}
  IN  UNION {lev[n] : n \in 0 .. ClusterCount}

Tree ==
  [n \in {x.path : x \in nodes} |-> (CHOOSE y \in nodes : y.path = n).val]

Abs == INSTANCE AbstractTree WITH
         tree <- Tree, last <- [cmd |-> last.cmd, res |-> last.res],
         RootDots <- TRUE, Cut <- LAMBDA n : IF n = Dotted THEN "no such name" ELSE n

\* A chain that ends, and does not come back to itself.
SoundChain(d, c) ==
  LET ch == Chain(d, c) IN IsInjective(ch) /\ (ch # << >> => d.fat[Last(ch)] = Eoc)

\* The chains of two nodes have no cluster in common.
SoundChains(d, ns) ==
  \A x \in ns :
    /\ SoundChain(d, x.e.clu)
    /\ \A y \in ns \ {x} : ToSet(Chain(d, x.e.clu)) \cap ToSet(Chain(d, y.e.clu)) = {}

\* A file has the clusters its size asks for, a directory has one.
SoundSize(d, e) ==
  IF e.ft = "file" THEN Len(Chain(d, e.clu)) = e.size ELSE e.clu \in Cluster
SoundSizes(d, ns) == \A x \in ns : SoundSize(d, x.e)

\* No entry lies after an end mark, and no name is there twice.
SoundSlots(d, ch) ==
  \A s, t \in Slots(ch) : Before(s, t) =>
    /\ In(d, ch, s).ft = "end" => In(d, ch, t).ft = "end"
    /\ InUse(In(d, ch, s)) /\ InUse(In(d, ch, t)) => In(d, ch, s).name # In(d, ch, t).name

\* The directory e of the directory c knows itself and, until one is moved, its
\* parent.
SoundDots(d, e, c, mvd) ==
  d.blk[e.clu].ents[1] = Dot(e.clu) /\ (mvd \/ d.blk[e.clu].ents[2] = DotDot(c))

SoundDirs(d, ns, mvd) ==
  \A x \in ns : x.e.ft = "dir" =>
    /\ SoundSlots(d, Chain(d, x.e.clu))
    /\ \A e \in Entries(d, x.e.clu) : e.ft = "dir" => SoundDots(d, e, x.e.clu, mvd)

Sound(d, ns, mvd) == SoundChains(d, ns) /\ SoundSizes(d, ns) /\ SoundDirs(d, ns, mvd)

\* The command ends and gives its answer, or the power fails after one of its
\* writes and the machine starts again in the root directory.
Does(cmd, on, r) ==
  /\ \/ disk' = r.d /\ last' = [cmd |-> cmd, res |-> r.res, on |-> on] /\ UNCHANGED cwd
     \/ /\ disk' \in r.log /\ cwd' = << >>
        /\ last' = [cmd |-> "crash", res |-> cmd, on |-> on]
  /\ nodes' = IF disk' = disk THEN nodes ELSE Nodes(disk')

Crashed == last'.cmd = "crash"
Given(p) == LookUp(disk, ParentOf(disk, p), Leaf(p))

\* Once a directory has gone to another parent no path of the model goes
\* through a ".."; once broken, the model ends but for mkfs.
ThroughDots(p) == Dots \cap ToSet(p.comps) # {}
Runs(p) == ~broken /\ (moved => ~ThroughDots(p))

Changes(cmd, p, r, harm) ==
  /\ Runs(p) /\ Does(cmd, {Abs!Target(p)}, r) /\ UNCHANGED moved
  /\ broken' = \/ harm /\ r.res = "ok"
               \/ Crashed /\ ~Sound(disk', nodes', moved')

Init ==
  /\ disk = MkfsDisk /\ cwd = << >> /\ last = [cmd |-> "mkfs", res |-> "ok", on |-> {}]
  /\ nodes = Nodes(disk) /\ moved = FALSE /\ broken = FALSE

DoTouch(p) == Changes("touch", p, Touch(Starts(disk), p), FALSE)
DoMkdir(p) == Changes("mkdir", p, Mkdir(Starts(disk), p), FALSE)
DoWrite(p, d) == Changes("write", p, WriteFile(Starts(disk), p, d), Given(p).ft = "dir")
DoRm(p) == Changes("rm", p, Rm(Starts(disk), p), FALSE)
DoRmdir(p) == Changes("rmdir", p, Rmdir(Starts(disk), p), FALSE)

MovesDir(p, q, r, e, d, t) ==
  LET dir == r.res = "ok" /\ e.ft = "dir"
  IN  /\ moved' = (moved \/ (dir /\ d # t))
      /\ broken' = \/ dir /\ IsPrefix(Abs!Target(p), Abs!Target(q))
                   \/ Crashed /\ ~Sound(disk', nodes', moved')

DoMv(p, q) ==
  /\ Runs(p) /\ Runs(q)
  /\ \E r \in {Mv(Starts(disk), p, q)} :
       /\ Does("mv", {Abs!Target(p), Abs!Target(q)}, r)
       /\ MovesDir(p, q, r, Given(p), ParentOf(disk, p), ParentOf(disk, q))

DoRead(p) ==
  /\ Runs(p) /\ last' = [cmd |-> "read", res |-> ReadFile(disk, p), on |-> {}]
  /\ UNCHANGED <<disk, nodes, cwd, moved, broken>>

DoCd(p) ==
  /\ ~broken /\ last' = [cmd |-> "cd", res |-> CdAnswer(disk, Candidate(p)), on |-> {}]
  /\ cwd' = IF last'.res = "ok" THEN Candidate(p).dir ELSE cwd
  /\ UNCHANGED <<disk, nodes, moved, broken>>

\* mkfs leaves the current directory as it was; its own writes are not cut.
DoMkfs ==
  /\ disk' = MkfsDisk /\ last' = [cmd |-> "mkfs", res |-> "ok", on |-> {}]
  /\ nodes' = Nodes(disk') /\ moved' = FALSE /\ broken' = FALSE /\ UNCHANGED cwd

Next ==
  \/ \E p \in Paths :
       \/ DoTouch(p) \/ DoMkdir(p) \/ DoRm(p) \/ DoRmdir(p) \/ DoRead(p) \/ DoCd(p)
       \/ \E d \in Payloads \ {Empty} : DoWrite(p, d)
       \/ \E q \in Paths : DoMv(p, q)
  \/ DoMkfs

Spec == Init /\ [][Next]_vars

-----------------------------------------------------------------------------
(* Properties *)

TypeOK ==
  /\ disk \in Disk /\ disk.fat[Root] # Unused
  /\ cwd \in Seq(Names) /\ Len(cwd) <= MAX_DEPTH
  /\ moved \in BOOLEAN /\ broken \in BOOLEAN

(* No cluster belongs to two files or directories, or to a chain and to    *)
(* the free ones, every chain ends, and a file has as many clusters as its *)
(* size: no read and no free_chain runs into somebody else's data, in any  *)
(* order of commands, failed ones and harmless power failures included.    *)
ChainsSound == ~broken => SoundChains(disk, nodes) /\ SoundSizes(disk, nodes)

(* A directory never hides an entry behind an end mark or holds a name     *)
(* twice, across wiped slots, new clusters and moves.                      *)
DirsSound == ~broken => SoundDirs(disk, nodes, moved)

Leaked(d, ns) ==
  {c \in Cluster : d.fat[c] # Unused} \ UNION {ToSet(Chain(d, x.e.clu)) : x \in ns}

(* Only write_file leaks when it fails (it has the whole chain before it   *)
(* looks for a slot); every other command gives back what it does not use, *)
(* and a command that succeeds leaks nothing.                              *)
NoLeak ==
  [][~Crashed /\ ~broken' /\ (last'.res = "ok" \/ last'.cmd # "write")
       => Leaked(disk', nodes') \subseteq Leaked(disk, nodes)]_vars

(* A power failure in the middle of a command hurts only the nodes the     *)
(* command was given: every other file is there with its contents, and     *)
(* every other directory.                                                  *)
CrashContained ==
  [][Crashed => \A n \in DOMAIN Tree :
       \/ \E t \in last'.on : IsPrefix(t, n)
       \/ n \in DOMAIN Tree' /\ Tree'[n] = Tree[n]]_vars

Grew == \E x \in nodes : x.e.ft = "dir" /\ Chain(disk', x.e.clu) # Chain(disk, x.e.clu)

(* A new file or directory may be cut at any write: its entry is written   *)
(* when all it leads to is there, so that the disk stays sound and at most *)
(* clusters are lost.  (Not so when the directory grows, for its new       *)
(* cluster is linked before it is zeroed, and not so for the commands that *)
(* remove, replace or move.)                                               *)
NewNamesSurvive ==
  [][Crashed /\ last'.res # "mv" /\ last'.on \cap DOMAIN Tree = {} /\ ~Grew =>
       Sound(disk', nodes', moved')]_vars

(* Commands that are not cut do to the tree of names what AbstractTree     *)
(* says, until the tree is broken.                                         *)
ImplementsTree ==
  Abs!Init /\ [][broken' \/ Crashed \/ Abs!Next]_<<Tree, cwd, last>>
=============================================================================
