------------------------------- MODULE Ext4Fs -------------------------------
(***************************************************************************)
(* The ext4 file system above its journal (ext4.rs): block and inode       *)
(* allocation with its bitmaps and three sets of counters, extents,        *)
(* directories, the commands of the shell and mkfs, with the current       *)
(* directory the front end keeps (fs.rs).                                  *)
(*                                                                         *)
(* A command is one step: the journal commits its blocks together          *)
(* (commit_after; the module Journal is about that), and only the shell's  *)
(* task runs commands.  Inside a step the helpers run one after the other  *)
(* on a record of the on-disk structures, and an error leaves done what    *)
(* they have done so far.  Errors of the disk itself are left out.         *)
(*                                                                         *)
(* A block is a data block or a block that group metadata and the journal  *)
(* do not use; a directory block holds SLOTS entries of the model's names. *)
(***************************************************************************)
EXTENDS Integers, FiniteSets, Sequences, SequencesExt, FiniteSetsExt

CONSTANTS
  Names,      \* entry names other than "." and ".."
  LongName, ShortName, \* LongName has more than 12 characters and ShortName is its first 12
  Paths,      \* what a command is given: [abs |-> BOOLEAN, comps |-> names]
  Payloads, Empty, Size(_), \* file contents, the empty one, and how many blocks they take
  Seeds,      \* the directories mkfs makes (six in the code)
  Groups, BPG, IPG, \* groups, and the blocks and inodes of a group
  SLOTS,      \* entries of a directory block
  MaxExtents, \* extents in an inode (4)
  MAX_DEPTH   \* components of the current directory (16)

\* mkfs has room for its directories, and their inodes in group 0, where it counts them.
ASSUME FsConstants ==
  /\ {Groups, BPG, IPG, SLOTS, MaxExtents, MAX_DEPTH} \subseteq Nat \ {0}
  /\ Seeds \in Seq(Names) /\ IsInjective(Seeds)
  /\ SLOTS > 1 /\ SLOTS >= Len(Seeds)
  /\ IPG > Len(Seeds) /\ Groups * BPG > Len(Seeds)
  /\ ShortName \in Names /\ Names \cap {".", ".."} = {}
  /\ \A p \in Paths : p.comps \in Seq(Names \cup {".", ".."}) /\ p.comps # << >>
  /\ Empty \in Payloads /\ Size(Empty) = 0
  /\ \A d \in Payloads : Size(d) \in Nat

Ino == 1 .. Groups * IPG
Blk == 1 .. Groups * BPG
Group == 0 .. Groups - 1
Root == 1    \* INODE_ROOT, the one reserved inode of the model
NoIno == 0
GroupOfBlk(b) == (b - 1) \div BPG
GroupOfIno(i) == (i - 1) \div IPG

VARIABLES
  fs,     \* the on-disk structures
  cwd,    \* CWD: the names of the current directory
  last,   \* history: the command that ran last and its answer
  nodes,  \* history: what a walk from the root finds, recomputed at every step
  moved,  \* history: a directory went to another parent (mv leaves its ".." and the link counts)
  broken  \* history: a command made or removed an entry "." or "..", or mv put a
          \* directory below itself

vars == <<fs, cwd, last, nodes, moved, broken>>

-----------------------------------------------------------------------------
(* The on-disk structures *)

Free(rec) == [ino |-> NoIno, name |-> "", ft |-> "", rec |-> rec]
Entry(i, n, ft, rec) == [ino |-> i, name |-> n, ft |-> ft, rec |-> rec]
DirBlock(ents) == [ents |-> ents, data |-> Empty]
DataBlock(d) == [ents |-> << >>, data |-> d]
Inode(mode, links, ext) == [mode |-> mode, links |-> links, ext |-> ext]

\* "." and the ".." that takes the rest of the block.
DotEntries(i, p) == DirBlock(<<Entry(i, ".", "dir", 1), Entry(p, "..", "dir", SLOTS - 1)>>)

\* What a helper leaves on the disk and returns; "NoPath" is NotFound or NotDir.
Ret(f, res, val) == [fs |-> f, res |-> res, val |-> val]
Ok(f) == Ret(f, "ok", NoIno)
Err(f, e) == Ret(f, e, NoIno)

\* The next operation, unless this one failed.
Then(r, Op(_, _)) == IF r.res = "ok" THEN Op(r.fs, r.val) ELSE r

\* The first free block of the first group that has one.
AllocBlock(f) ==
  LET free == Blk \ f.bused
      b    == Min(free)
      g    == GroupOfBlk(b)
      f1   == [f EXCEPT !.bused = @ \cup {b}]
  IN  IF free = {} THEN Err(f, "NoSpace")
      ELSE IF f.bfree[g] = 0 THEN Err(f1, "NoSpace")
      ELSE Ret([f1 EXCEPT !.bfree[g] = @ - 1, !.sbBlocks = Max({@ - 1, 0})], "ok", b)

\* Mutant of FreeBlock: the superblock's count is left alone.
FreeBlockKeepsSb(f, b) ==
  [f EXCEPT !.bused = @ \ {b}, !.bfree[GroupOfBlk(b)] = @ + 1]

FreeBlock(f, b) ==
  [f EXCEPT !.bused = @ \ {b}, !.bfree[GroupOfBlk(b)] = @ + 1, !.sbBlocks = @ + 1]

FreeExtents(f, ext) ==
  LET freed[k \in 0 .. Len(ext)] == IF k = 0 THEN f ELSE FreeBlock(freed[k - 1], ext[k])
  IN  freed[Len(ext)]

AllocInode(f) ==
  LET free == Ino \ f.iused
      i    == Min(free)
  IN  IF free = {} THEN Err(f, "NoSpace")
      ELSE Ret([f EXCEPT !.iused = @ \cup {i}, !.ifree[GroupOfIno(i)] = @ - 1,
                         !.sbInodes = @ - 1], "ok", i)

\* The inode's contents stay in the table.
FreeInode(f, i) ==
  [f EXCEPT !.iused = @ \ {i}, !.ifree[GroupOfIno(i)] = @ + 1, !.sbInodes = @ + 1]

BumpUsedDirs(f, i, delta) ==
  [f EXCEPT !.dirs[GroupOfIno(i)] = Max({@ + delta, 0})]

\* Metadata lies between the last block of a group and the first of the next.
Adjacent(b, c) == c = b + 1 /\ GroupOfBlk(b) = GroupOfBlk(c)
Extents(ext) ==
  Cardinality({k \in 1 .. Len(ext) : k = 1 \/ ~Adjacent(ext[k - 1], ext[k])})

\* Mutant of CanAppend: no limit.
CanAppendAny(ext, b) == Len(ext) < Cardinality(Blk)

\* extent_append: into the last extent if adjacent, else into a new one.
CanAppend(ext, b) == Extents(Append(ext, b)) <= MaxExtents

-----------------------------------------------------------------------------
(* Directories *)

At(f, d, s) == f.blk[f.ino[d].ext[s[1]]].ents[s[2]]

\* The slots of a directory: the number of the block and the place in it.
Slots(f, d) ==
  UNION {{<<k, j>> : j \in DOMAIN f.blk[f.ino[d].ext[k]].ents} : k \in DOMAIN f.ino[d].ext}
First(S) == CHOOSE s \in S : \A t \in S : s[1] < t[1] \/ (s[1] = t[1] /\ s[2] <= t[2])
Named(f, d, n) == {s \in Slots(f, d) : At(f, d, s).ino # NoIno /\ At(f, d, s).name = n}

\* walk_dir shows the entries in use.
Entries(f, d) ==
  {e \in UNION {ToSet(f.blk[b].ents) : b \in ToSet(f.ino[d].ext)} : e.ino # NoIno}

\* lookup_dir: the first entry of that name; there may be none.
Lookup(f, d, n) ==
  IF d = NoIno \/ \A e \in Entries(f, d) : e.name # n THEN Free(0)
  ELSE At(f, d, First(Named(f, d, n)))
Has(f, d, n) == Lookup(f, d, n).ino # NoIno

\* resolve: every component must name a directory; NoIno if one does not.
Enter(f, i, c) == IF Lookup(f, i, c).ft = "dir" THEN Lookup(f, i, c).ino ELSE NoIno
Descend(f, d, comps) ==
  LET dir[k \in 0 .. Len(comps)] == IF k = 0 THEN d ELSE Enter(f, dir[k - 1], comps[k])
  IN  dir[Len(comps)]

CwdIno(f) == Descend(f, Root, cwd)

\* split_parent and resolve_from_cwd: what is before the last slash, which is
\* nothing at all for a path of one component, with a leading slash or without.
ParentOf(f, p) ==
  LET up == Front(p.comps)
  IN  Descend(f, IF p.abs /\ up # << >> THEN Root ELSE CwdIno(f), up)
Leaf(p) == Last(p.comps)

\* dir_find_slot takes the first unused entry, put there by a split, a deletion
\* or dir_grow; what is left of it stays unused.
Unused(f, d) == {s \in Slots(f, d) : At(f, d, s).ino = NoIno}

PutEntry(f, d, s, i, n, ft) ==
  LET b    == f.ino[d].ext[s[1]]
      rest == At(f, d, s).rec - 1
      put  == ReplaceAt(f.blk[b].ents, s[2], Entry(i, n, ft, 1))
  IN  Ok([f EXCEPT !.blk[b] = DirBlock(
              IF rest > 0 THEN InsertAt(put, s[2] + 1, Free(rest)) ELSE put)])

DirGrow(f, d) ==
  Then(AllocBlock(f), LAMBDA f1, b :
    LET f2 == [f1 EXCEPT !.blk[b] = DirBlock(<<Free(SLOTS)>>)]
    IN  IF ~CanAppend(f.ino[d].ext, b) THEN Err(f2, "Unsupported")
        ELSE Ok([f2 EXCEPT !.ino[d].ext = Append(@, b)]))

DirAdd(f, d, n, i, ft) ==
  Then(IF Unused(f, d) # {} THEN Ok(f) ELSE DirGrow(f, d), LAMBDA f1, x :
    PutEntry(f1, d, First(Unused(f1, d)), i, n, ft))

DirDel(f, d, n) ==
  IF Named(f, d, n) = {} THEN Err(f, "NoPath")
  ELSE LET s == First(Named(f, d, n))
       IN  Ok([f EXCEPT !.blk[f.ino[d].ext[s[1]]].ents[s[2]] = Free(@.rec)])

-----------------------------------------------------------------------------
(* The commands *)

\* Mutant of Touch: the lookup is forgotten.
TouchTwice(f, p) ==
  LET d == ParentOf(f, p)
  IN  IF d = NoIno THEN Err(f, "NoPath")
      ELSE Then(AllocInode(f), LAMBDA f1, i :
             DirAdd([f1 EXCEPT !.ino[i] = Inode("file", 1, << >>)], d, Leaf(p), i, "file"))

Touch(f, p) ==
  LET d == ParentOf(f, p)
  IN  IF d = NoIno THEN Err(f, "NoPath")
      ELSE IF Has(f, d, Leaf(p)) THEN Ok(f)
      ELSE Then(AllocInode(f), LAMBDA f1, i :
             DirAdd([f1 EXCEPT !.ino[i] = Inode("file", 1, << >>)], d, Leaf(p), i, "file"))

NewDir(f, i, p) ==
  Then(AllocBlock(f), LAMBDA f1, b :
    Ok([f1 EXCEPT !.blk[b] = DotEntries(i, p), !.ino[i] = Inode("dir", 2, <<b>>)]))

\* Mutant of Mkdir: the counts are bumped before the entry is there.
MkdirEarly(f, p) ==
  LET d == ParentOf(f, p)
  IN  IF d = NoIno THEN Err(f, "NoPath")
      ELSE IF Has(f, d, Leaf(p)) THEN Err(f, "Exists")
      ELSE Then(AllocInode(f), LAMBDA f1, i :
           Then(NewDir(f1, i, d), LAMBDA f2, x :
             DirAdd(BumpUsedDirs([f2 EXCEPT !.ino[d].links = @ + 1], i, 1), d, Leaf(p), i,
                    "dir")))

Mkdir(f, p) ==
  LET d == ParentOf(f, p)
  IN  IF d = NoIno THEN Err(f, "NoPath")
      ELSE IF Has(f, d, Leaf(p)) THEN Err(f, "Exists")
      ELSE Then(AllocInode(f), LAMBDA f1, i :
           Then(NewDir(f1, i, d), LAMBDA f2, x :
           Then(DirAdd(f2, d, Leaf(p), i, "dir"), LAMBDA f3, y :
             Ok(BumpUsedDirs([f3 EXCEPT !.ino[d].links = @ + 1], i, 1)))))

\* The loop of write_file: block after block, each appended to the inode in
\* memory; r.val is that inode's extents.
WriteOne(r, d) ==
  LET a  == AllocBlock(r.fs)
      f1 == [a.fs EXCEPT !.blk[a.val] = DataBlock(d)]
  IN  IF r.res # "ok" THEN r
      ELSE IF a.res # "ok" THEN Ret(a.fs, a.res, r.val)
      ELSE IF CanAppend(r.val, a.val) THEN Ret(f1, "ok", Append(r.val, a.val))
      ELSE Ret(f1, "Unsupported", r.val)
WriteBlocks(f, d) ==
  LET after[k \in 0 .. Size(d)] ==
        IF k = 0 THEN Ret(f, "ok", << >>) ELSE WriteOne(after[k - 1], d)
  IN  after[Size(d)]

\* Mutant of Fill: an aborted write keeps the blocks it got.
FillKeeps(f, i, d) ==
  LET w == WriteBlocks([f EXCEPT !.ino[i] = Inode("file", 1, << >>)], d)
  IN  IF w.res = "ok" THEN Ok([w.fs EXCEPT !.ino[i].ext = w.val])
      ELSE Err(w.fs, w.res)

\* Mutant of Fill: the blocks are given back and stay in the inode.
FillStale(f, i, d) ==
  LET w  == WriteBlocks([f EXCEPT !.ino[i] = Inode("file", 1, << >>)], d)
      f1 == [w.fs EXCEPT !.ino[i].ext = w.val]
  IN  IF w.res = "ok" THEN Ok(f1) ELSE Err(FreeExtents(f1, w.val), w.res)

\* The rest of write_file once the inode has no blocks: an aborted write gives
\* back what the inode in memory holds and leaves the file empty.
Fill(f, i, d) ==
  LET w == WriteBlocks([f EXCEPT !.ino[i] = Inode("file", 1, << >>)], d)
  IN  IF w.res = "ok" THEN Ok([w.fs EXCEPT !.ino[i].ext = w.val])
      ELSE Err(FreeExtents(w.fs, w.val), w.res)

WriteFile(f, p, d) ==
  LET dir == ParentOf(f, p)
      e   == Lookup(f, dir, Leaf(p))
  IN  IF dir = NoIno THEN Err(f, "NoPath")
      ELSE IF e.ft = "dir" THEN Err(f, "IsDir")
      ELSE IF e.ft = "file" THEN Fill(FreeExtents(f, f.ino[e.ino].ext), e.ino, d)
      ELSE Then(AllocInode(f), LAMBDA f1, i :
           Then(DirAdd(f1, dir, Leaf(p), i, "file"), LAMBDA f2, x : Fill(f2, i, d)))

Rm(f, p) ==
  LET d == ParentOf(f, p)
      e == Lookup(f, d, Leaf(p))
  IN  IF e.ino = NoIno THEN Err(f, "NoPath")
      ELSE IF e.ft # "file" THEN Err(f, "IsDir")
      ELSE DirDel(FreeInode(FreeExtents(f, f.ino[e.ino].ext), e.ino), d, Leaf(p))

Rmdir(f, p) ==
  LET d == ParentOf(f, p)
      e == Lookup(f, d, Leaf(p))
  IN  IF e.ino = NoIno THEN Err(f, "NoPath")
      ELSE IF e.ft # "dir" THEN Err(f, "NotDir")
      ELSE IF \E c \in Entries(f, e.ino) : c.name \notin {".", ".."} THEN Err(f, "NotEmpty")
      ELSE Then(DirDel(FreeInode(FreeExtents(f, f.ino[e.ino].ext), e.ino), d, Leaf(p)),
             LAMBDA f1, x :
               Ok(BumpUsedDirs([f1 EXCEPT !.ino[d].links = Max({@ - 1, 0})], e.ino, -1)))

\* Mutant of Mv: the new name may be taken.
MvOver(f, p, q) ==
  LET d == ParentOf(f, p)
      e == Lookup(f, d, Leaf(p))
      t == ParentOf(f, q)
  IN  IF e.ino = NoIno \/ t = NoIno THEN Err(f, "NoPath")
      ELSE Then(DirAdd(f, t, Leaf(q), e.ino, e.ft), LAMBDA f1, x : DirDel(f1, d, Leaf(p)))

Mv(f, p, q) ==
  LET d == ParentOf(f, p)
      e == Lookup(f, d, Leaf(p))
      t == ParentOf(f, q)
  IN  IF e.ino = NoIno \/ t = NoIno THEN Err(f, "NoPath")
      ELSE IF Has(f, t, Leaf(q)) THEN Err(f, "Exists")
      ELSE Then(DirAdd(f, t, Leaf(q), e.ino, e.ft), LAMBDA f1, x : DirDel(f1, d, Leaf(p)))

\* read_file_data: the blocks of the file, in order.
Contents(f, i) ==
  LET ext == f.ino[i].ext
      d   == f.blk[ext[1]].data
  IN  IF ext = << >> THEN Empty
      ELSE IF Len(ext) = Size(d) /\ \A k \in 1 .. Len(ext) : f.blk[ext[k]] = DataBlock(d)
      THEN d ELSE "garbage"

\* read_file and cat.
ReadFile(f, p) ==
  LET e == Lookup(f, ParentOf(f, p), Leaf(p))
  IN  IF e.ino = NoIno THEN "NoPath"
      ELSE IF e.ft # "file" THEN "IsDir"
      ELSE Contents(f, e.ino)

\* cd works on the names of the path, keeps 12 characters of each, and only
\* then looks whether the directory is there (check_dir).
Cut(n) == IF n = LongName THEN ShortName ELSE n

CdStep(r, c) ==
  IF c = "." \/ r.res # "ok" THEN r
  ELSE IF c = ".." THEN [r EXCEPT !.dir = IF @ = << >> THEN @ ELSE Front(@)]
  ELSE IF Len(r.dir) >= MAX_DEPTH THEN [r EXCEPT !.res = "TooBig"]
  ELSE [r EXCEPT !.dir = Append(@, Cut(c))]
Candidate(p) ==
  LET after[k \in 0 .. Len(p.comps)] ==
        IF k = 0 THEN [dir |-> IF p.abs THEN << >> ELSE cwd, res |-> "ok"]
        ELSE CdStep(after[k - 1], p.comps[k])
  IN  after[Len(p.comps)]

CdAnswer(f, p) ==
  LET r == Candidate(p)
  IN  IF r.res # "ok" THEN r.res
      ELSE IF Descend(f, Root, r.dir) = NoIno THEN "NoPath" ELSE "ok"

\* mkfs: bitmaps and counters, the seed directories, and the root directory
\* whose last entry takes the rest of its block.
BlankFs ==
  [bused |-> {}, iused |-> {Root},
   bfree |-> [g \in Group |-> BPG],
   ifree |-> [g \in Group |-> IF g = 0 THEN IPG - 1 ELSE IPG],
   dirs |-> [g \in Group |-> 0],
   sbBlocks |-> Groups * BPG, sbInodes |-> Groups * IPG - 1,
   ino |-> [i \in Ino |-> Inode("file", 0, << >>)],
   blk |-> [b \in Blk |-> DirBlock(<<Free(SLOTS)>>)]]

\* One turn of mkfs's loop over the directories, which it counts in group 0.
SeedDir(f) ==
  LET a == AllocInode(f) IN BumpUsedDirs(NewDir(a.fs, a.val, Root).fs, Root, 1)

MkfsFs ==
  LET n    == Len(Seeds)
      seeded[k \in 0 .. n] == IF k = 0 THEN BlankFs ELSE SeedDir(seeded[k - 1])
      ents == [k \in 1 .. n |->
                 Entry(Root + k, Seeds[k], "dir", IF k = n THEN SLOTS - n + 1 ELSE 1)]
      a    == AllocBlock(seeded[n])
  IN  BumpUsedDirs(
        [a.fs EXCEPT !.blk[a.val] = DirBlock(IF n = 0 THEN <<Free(SLOTS)>> ELSE ents),
                     !.ino[Root] = Inode("dir", 2 + n, <<a.val>>)], Root, 1)

-----------------------------------------------------------------------------
(* The actions *)

\* What a walk from the root finds: a node is a path, its inode and its type.
Children(f, x) ==
  IF x.ft # "dir" THEN {}
  ELSE {[path |-> Append(x.path, e.name), ino |-> e.ino, ft |-> e.ft] :
          e \in {e \in Entries(f, x.ino) : e.name \notin {".", ".."}}}

Nodes(f) ==
  LET lev[n \in 0 .. Cardinality(Ino)] ==
        IF n = 0 THEN {[path |-> << >>, ino |-> Root, ft |-> "dir"]}
        ELSE UNION {Children(f, x) : x \in lev[n - 1]}
  IN  UNION {lev[n] : n \in 0 .. Cardinality(Ino)}

Dotted(p) == {".", ".."} \cap ToSet(p.comps) # {}
DotLeaf(p) == Leaf(p) \in {".", ".."}

\* Once a directory has gone to another parent its ".." on the disk is wrong:
\* from then on no path of the model goes through one.  Once broken, the disk
\* holds no tree, and the model ends but for mkfs.
Runs(p) == ~broken /\ (moved => ~Dotted(p))

\* fs.rs runs the command of the mounted file system and commits what it did,
\* also when it failed.
Does(cmd, r) ==
  /\ fs' = r.fs /\ nodes' = IF fs' = fs THEN nodes ELSE Nodes(fs')
  /\ last' = [cmd |-> cmd, res |-> r.res]
  /\ UNCHANGED cwd

Changes(cmd, p, r) ==
  /\ Runs(p) /\ Does(cmd, r)
  /\ broken' = (fs' # fs /\ DotLeaf(p))
  /\ UNCHANGED moved

Init ==
  /\ fs = MkfsFs /\ cwd = << >> /\ last = [cmd |-> "mkfs", res |-> "ok"]
  /\ nodes = Nodes(fs) /\ moved = FALSE /\ broken = FALSE

DoTouch(p) == Changes("touch", p, Touch(fs, p))
DoMkdir(p) == Changes("mkdir", p, Mkdir(fs, p))
DoWrite(p, d) == Changes("write", p, WriteFile(fs, p, d))
DoRm(p) == Changes("rm", p, Rm(fs, p))
DoRmdir(p) == Changes("rmdir", p, Rmdir(fs, p))

\* The directories that the directory i is in, itself included.
Above(f, i) ==
  LET up[n \in 0 .. Cardinality(Ino)] ==
        IF n = 0 THEN {i}
        ELSE up[n - 1] \cup {d \in Ino : \E e \in Entries(f, d) :
               e.ino \in up[n - 1] /\ f.ino[d].mode = "dir" /\ e.name \notin {".", ".."}}
  IN  up[Cardinality(Ino)]

DoMv(p, q) ==
  /\ Runs(p) /\ Runs(q) /\ Does("mv", Mv(fs, p, q))
  /\ LET e   == Lookup(fs, ParentOf(fs, p), Leaf(p))
         dir == last'.res = "ok" /\ e.ft = "dir"
     IN  /\ moved' = (moved \/ (dir /\ ParentOf(fs, p) # ParentOf(fs, q)))
         /\ broken' = \/ fs' # fs /\ (DotLeaf(p) \/ DotLeaf(q))
                      \/ dir /\ e.ino \in Above(fs, ParentOf(fs, q))

DoRead(p) ==
  /\ Runs(p) /\ last' = [cmd |-> "read", res |-> ReadFile(fs, p)]
  /\ UNCHANGED <<fs, nodes, cwd, moved, broken>>

DoCd(p) ==
  /\ ~broken /\ last' = [cmd |-> "cd", res |-> CdAnswer(fs, p)]
  /\ cwd' = IF last'.res = "ok" THEN Candidate(p).dir ELSE cwd
  /\ UNCHANGED <<fs, nodes, moved, broken>>

\* mkfs leaves the current directory as it was.
DoMkfs ==
  /\ fs' = MkfsFs /\ last' = [cmd |-> "mkfs", res |-> "ok"]
  /\ nodes' = Nodes(fs') /\ moved' = FALSE /\ broken' = FALSE /\ UNCHANGED cwd

Next ==
  \/ \E p \in Paths :
       \/ DoTouch(p) \/ DoMkdir(p) \/ DoRm(p) \/ DoRmdir(p) \/ DoRead(p) \/ DoCd(p)
       \/ \E d \in Payloads \ {Empty} : DoWrite(p, d)
       \/ \E q \in Paths : DoMv(p, q)
  \/ DoMkfs

Spec == Init /\ [][Next]_vars

-----------------------------------------------------------------------------
(* Properties *)

Linked == {x.ino : x \in nodes}
SubDirs(f, d) == {e \in Entries(f, d) : e.ft = "dir" /\ e.name \notin {".", ".."}}

TypeOK ==
  /\ fs.bused \subseteq Blk /\ fs.iused \subseteq Ino
  /\ \A i \in Ino : fs.ino[i].ext \in Seq(Blk) /\ Extents(fs.ino[i].ext) <= MaxExtents
  /\ cwd \in Seq(Names) /\ Len(cwd) <= MAX_DEPTH
  /\ moved \in BOOLEAN /\ broken \in BOOLEAN

(* The free counts are kept three times - in the bitmaps, in the group     *)
(* descriptors and in the superblock - by different statements of          *)
(* alloc_block, free_block, alloc_inode, free_inode and mkfs, and in every *)
(* order of commands, failed ones included, they agree.                    *)
Counters ==
  /\ \A g \in Group :
       /\ fs.bfree[g] = Cardinality({b \in Blk \ fs.bused : GroupOfBlk(b) = g})
       /\ fs.ifree[g] = Cardinality({i \in Ino \ fs.iused : GroupOfIno(i) = g})
  /\ fs.sbBlocks = Cardinality(Blk \ fs.bused)
  /\ fs.sbInodes = Cardinality(Ino \ fs.iused)

(* No block belongs to two files or directories of the tree, or twice to   *)
(* one, and what they hold is marked used: what write_file frees and       *)
(* allocates again, and what an aborted command leaves, never ends up in   *)
(* somebody else's file.                                                   *)
OneOwner ==
  ~broken =>
    /\ Linked \subseteq fs.iused
    /\ \A i \in Linked :
         /\ ToSet(fs.ino[i].ext) \subseteq fs.bused
         /\ IsInjective(fs.ino[i].ext)
         /\ \A j \in Linked \ {i} : ToSet(fs.ino[i].ext) \cap ToSet(fs.ino[j].ext) = {}

(* Every inode of the tree has one entry, of its own type, directories     *)
(* know themselves and (until one is moved) their parent, and no two       *)
(* entries of a directory share a name - across slots that are split,      *)
(* freed and used again.                                                   *)
TreeShape ==
  ~broken =>
    /\ Cardinality(Linked) = Cardinality(nodes)
    /\ \A x \in nodes :
         /\ fs.ino[x.ino].mode = x.ft
         /\ x.ft = "dir" => \A n \in Names : Cardinality(Named(fs, x.ino, n)) <= 1
         /\ x.ft = "dir" /\ x.ino # Root =>
              /\ Lookup(fs, x.ino, ".").ino = x.ino
              /\ moved \/ [path |-> Front(x.path), ino |-> Lookup(fs, x.ino, "..").ino,
                           ft |-> "dir"] \in nodes

(* The link count of a directory and the groups' used-directory counts are *)
(* bumped by mkdir and rmdir in separate inodes and descriptors; they      *)
(* count the tree, also after mkdir failed half way, as long as no         *)
(* directory has gone to another parent.                                   *)
DirCounts ==
  ~broken =>
    /\ \A g \in Group :
         fs.dirs[g] = Cardinality({x \in nodes : x.ft = "dir" /\ GroupOfIno(x.ino) = g})
    /\ \A x \in nodes : x.ft = "file" => fs.ino[x.ino].links = 1
    /\ ~moved => \A x \in nodes : x.ft = "dir" =>
         fs.ino[x.ino].links = 2 + Cardinality(SubDirs(fs, x.ino))

LeakedInodes == fs.iused \ Linked
LeakedBlocks == fs.bused \ UNION {ToSet(fs.ino[i].ext) : i \in Linked}

(* Disk full, NoSpace, rm, space reclaimed: a command that succeeds never  *)
(* leaves a block or an inode behind that no file holds, and a write over  *)
(* an existing file gives everything back when the space runs out.         *)
(* (mkdir, touch and the writing of a new file do leak when they fail.)    *)
Reclaims ==
  \/ last'.res = "ok"
  \/ last'.cmd = "write" /\ last'.res = "NoSpace" /\ fs'.iused = fs.iused
SpaceReclaimed ==
  [][Reclaims /\ ~broken' =>
       /\ LeakedInodes' \subseteq LeakedInodes
       /\ LeakedBlocks' \subseteq LeakedBlocks]_vars

Tree ==
  [n \in {x.path : x \in nodes} |->
     LET x == CHOOSE y \in nodes : y.path = n
     IN  IF x.ft = "dir" THEN "dir" ELSE Contents(fs, x.ino)]

\* The root of ext4's mkfs has no entries "." and "..".
Abs == INSTANCE AbstractTree WITH tree <- Tree, RootDots <- FALSE

(* The commands on inodes, extents and directory slots do to the tree of   *)
(* names what AbstractTree says - one node changes and every other file    *)
(* keeps its contents - until the tree is broken.                          *)
ImplementsTree == Abs!Init /\ [][broken' \/ Abs!Next]_<<Tree, cwd, last>>
=============================================================================
