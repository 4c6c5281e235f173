------------------------------- MODULE Journal -------------------------------
(***************************************************************************)
(* The write-ahead journal under the ext4 file system (ext4.rs): the       *)
(* deferred write path (write_block, read_block), the commit of a          *)
(* transaction (jbd_commit_locked), the replay at mount (jbd_init,         *)
(* jbd_replay) and mkfs, over a disk that can lose power between any two   *)
(* block writes, or in the middle of one.                                  *)
(*                                                                         *)
(* A step writes at most one block.  What the file system puts in a block  *)
(* is abstracted to the number of the write that produced it.  Block       *)
(* addresses are relative to the start of the journal: 0 is its superblock *)
(* (the variable super), 1 .. JB - 1 the ring, and the blocks that follow  *)
(* are file system blocks; so a slot number past the ring is the address   *)
(* of one of them, as it is on the disk.  Block 0 of the disk, with the    *)
(* superblock of ext4, lies in front of the journal; it is the last of the *)
(* file system blocks here, which no slot number reaches.                  *)
(***************************************************************************)
EXTENDS Naturals, Sequences, FiniteSets

CONSTANTS
  JB,          \* JOURNAL_BLOCKS (1024)
  Blocks,      \* bound: the number of file system blocks
  MaxWrites,   \* bound: calls of write_block that log a block
  MaxCrashes,  \* bound: power failures
  MaxMkfs      \* bound: mkfs commands after the first

ASSUME JournalConstants ==
  /\ JB \in Nat /\ JB > 5
  /\ Blocks \in Nat /\ Blocks > 1
  /\ MaxWrites \in Nat
  /\ MaxCrashes \in Nat
  /\ MaxMkfs \in Nat

MAX_PEND == JB - 4

Ring == 1 .. JB - 1
Home == JB .. JB + Blocks - 1
Block0 == JB + Blocks - 1
NoBlock == 0

VARIABLES
  \* the disk
  disk,     \* contents of the ring and of the file system blocks
  super,    \* the journal superblock: seq and start
  \* JbdState
  start,    \* slot of the next descriptor
  seq,      \* sequence number of the next transaction
  pend,     \* the blocks logged so far: final block and slot of the copy
  \* where the code is
  op,       \* "run": between two write_block calls or commands
  k,        \* loop variable: the next logged block to apply
  waiting,  \* the block whose write_block call forced the commit
  \* history
  img,      \* what the file system has written: the number of each block
  stable,   \* img when the last transaction was sealed
  prev,     \* stable before that
  wrapped,  \* this transaction moved to slot 1 only in memory
  overrun,  \* a transaction overwrote a log the superblock points to
  spilled,  \* some transaction left the ring
  writes, crashes, mkfss

diskVars == <<disk, super>>
memVars == <<start, seq, pend>>
opVars == <<op, k, waiting>>
imgVars == <<img, stable, prev>>
flagVars == <<wrapped, overrun, spilled>>
countVars == <<writes, crashes, mkfss>>
vars == <<diskVars, memVars, opVars, imgVars, flagVars, countVars>>

-----------------------------------------------------------------------------
(* Block contents and the state of a fresh file system *)

Block == [kind : {"data", "desc", "commit", "torn"}, num : Nat, list : Seq(Nat)]

Data(n) == [kind |-> "data", num |-> n, list |-> << >>]
Torn == [kind |-> "torn", num |-> 0, list |-> << >>]
Desc(s, blks) == [kind |-> "desc", num |-> s, list |-> blks]
Seal(s, chk) == [kind |-> "commit", num |-> s, list |-> chk]

\* crc32c over the descriptor and the n copies behind it: what it covers.  A
\* copy has a number above 0; 0 stands for any block that is none.
Copy(b) == IF b.kind = "data" THEN b.num ELSE 0
Checksum(d, st) ==
  d.list \o [i \in 1 .. Len(d.list) |-> Copy(disk[st + i])]

Image(dk) == [b \in Home |-> dk[b].num]

\* mount_at compares the checksum of the ext4 superblock.  The free counts and
\* the checksum lie in two sectors of block 0, which a failure may part.
SuperIntact == disk[Block0].kind # "torn"
Fresh == [b \in Home |-> 0]

\* jbd_init: a start outside the ring stands for its first slot.
FirstSlot(st) == IF st = 0 \/ st >= JB THEN 1 ELSE st

\* Mutant of NextSlot: the ring is taken to have one slot more.
NextSlotOffByOne(st) == IF st > JB THEN 1 ELSE st

\* The slot after a transaction; the ring wraps.
NextSlot(st) == IF st > JB - 1 THEN 1 ELSE st

Init ==
  /\ disk = [a \in Ring \cup Home |-> Data(0)]
  /\ super = [seq |-> 1, start |-> 0]
  /\ start = 1
  /\ seq = 1
  /\ pend = << >>
  /\ op = "run"
  /\ k = 0
  /\ waiting = NoBlock
  /\ img = Fresh
  /\ stable = Fresh
  /\ prev = Fresh
  /\ wrapped = FALSE
  /\ overrun = FALSE
  /\ spilled = FALSE
  /\ writes = 0
  /\ crashes = 0
  /\ mkfss = 0

-----------------------------------------------------------------------------
(* read_block and write_block *)

Logged(b) == {i \in 1 .. Len(pend) : pend[i].blk = b}

\* Mutant of ReadBlock: the logged copy is not looked for.
ReadBlockHome(b) == disk[b].num

\* read_block: the logged copy if there is one.
ReadBlock(b) ==
  IF Logged(b) = {} THEN disk[b].num
  ELSE disk[pend[CHOOSE i \in Logged(b) : \A j \in Logged(b) : i <= j].pos].num

\* The superblock still names a replayed transaction, and a write to slot p
\* destroys it: the ring has come round to it.
Destroys(st, p) ==
  super.seq # seq /\ st <= FirstSlot(super.start) /\ FirstSlot(super.start) <= p

\* The new copy goes to slot p, the transaction begins at slot st.
Log(b, st, p) ==
  /\ writes < MaxWrites
  /\ writes' = writes + 1
  /\ disk' = [disk EXCEPT ![p] = Data(writes + 1)]
  /\ img' = [img EXCEPT ![b] = writes + 1]
  /\ pend' = Append(pend, [blk |-> b, pos |-> p])
  /\ start' = st
  /\ overrun' = (overrun \/ Destroys(st, p))
  /\ UNCHANGED <<super, seq, k, stable, prev, crashes, mkfss>>

\* The block is in the transaction already: its copy is overwritten.
Relog(b) ==
  /\ op = "run" /\ Logged(b) # {}
  /\ writes < MaxWrites
  /\ writes' = writes + 1
  /\ \E i \in Logged(b) : disk' = [disk EXCEPT ![pend[i].pos] = Data(writes + 1)]
  /\ img' = [img EXCEPT ![b] = writes + 1]
  /\ UNCHANGED <<super, memVars, opVars, stable, prev, flagVars, crashes, mkfss>>

\* The next transaction begins at slot 1 if not even three blocks fit before
\* the end of the ring.
Wraps == start + 2 > JB - 1
FirstStart == IF Wraps THEN 1 ELSE start

\* The first block of a transaction.  The superblock is not told of a wrap.
LogFirst(b) ==
  /\ op = "run" /\ pend = << >>
  /\ Log(b, FirstStart, FirstStart + 1)
  /\ wrapped' = Wraps
  /\ UNCHANGED <<op, waiting, spilled>>

\* No room for another block and the seal, or in the descriptor.
Full == Len(pend) = MAX_PEND \/ start + Len(pend) + 2 > JB - 1

LogNext(b) ==
  /\ op = "run" /\ pend # << >> /\ Logged(b) = {} /\ ~Full
  /\ Log(b, start, start + 1 + Len(pend))
  /\ UNCHANGED <<op, waiting, wrapped, spilled>>

\* The transaction is full: it is committed before the block is logged.
ForceCommit(b) ==
  /\ op = "run" /\ pend # << >> /\ Logged(b) = {} /\ Full
  /\ writes < MaxWrites
  /\ op' = "desc"
  /\ waiting' = b
  /\ UNCHANGED <<diskVars, memVars, k, imgVars, flagVars, countVars>>

\* write_block after the forced commit: the block opens the next transaction
\* wherever that commit left start.
LogForced ==
  /\ op = "resume"
  /\ Log(waiting, start, start + 1)
  /\ op' = "run"
  /\ waiting' = NoBlock
  /\ wrapped' = FALSE
  /\ spilled' = (spilled \/ start + 2 > JB - 1)

-----------------------------------------------------------------------------
(* jbd_commit_locked, one block write at a time *)

\* commit_after, at the end of a command that wrote something.
Commit ==
  /\ op = "run" /\ pend # << >>
  /\ op' = "desc"
  /\ UNCHANGED <<diskVars, memVars, k, waiting, imgVars, flagVars, countVars>>

Count == Len(pend)
SealSlot == start + 1 + Count
Targets == [i \in 1 .. Count |-> pend[i].blk]

\* 1. descriptor.  Both it and the seal are computed first, from the copies
\* in the log.
WriteDesc ==
  /\ op = "desc"
  /\ disk' = [disk EXCEPT ![start] = Desc(seq, Targets)]
  /\ op' = "seal"
  /\ overrun' = (overrun \/ Destroys(start, start))
  /\ UNCHANGED <<super, memVars, k, waiting, imgVars, wrapped, spilled,
                 countVars>>

\* 2. commit block.
WriteSeal ==
  /\ op = "seal"
  /\ disk' = [disk EXCEPT
                ![SealSlot] = Seal(seq, Checksum(Desc(seq, Targets), start))]
  /\ op' = "apply"
  /\ k' = 1
  /\ stable' = img
  /\ prev' = stable
  /\ overrun' = (overrun \/ Destroys(start, SealSlot))
  /\ UNCHANGED <<super, memVars, waiting, img, wrapped, spilled, countVars>>

\* 3. redo: the copies go to their final blocks.
Apply ==
  /\ op = "apply" /\ k <= Count
  /\ disk' = [disk EXCEPT ![pend[k].blk] = disk[start + k]]
  /\ k' = k + 1
  /\ UNCHANGED <<super, memVars, op, waiting, imgVars, flagVars, countVars>>

\* 4. advance, and jbd_write_super.
Advance ==
  /\ op = "apply" /\ k > Count
  /\ start' = NextSlot(start + 2 + Count)
  /\ seq' = seq + 1
  /\ pend' = << >>
  /\ super' = [seq |-> seq', start |-> start']
  /\ op' = IF waiting = NoBlock THEN "run" ELSE "resume"
  /\ k' = 0
  /\ wrapped' = FALSE
  /\ UNCHANGED <<disk, waiting, imgVars, overrun, spilled, countVars>>

-----------------------------------------------------------------------------
(* Power failure *)

\* The block a write is going to next: the write the failure may tear.  The
\* fields of a seal and of the superblock lie in one sector and are not torn.
InFlight ==
  CASE op = "run" ->
         IF pend = << >>
           THEN {FirstStart + 1}
           ELSE IF Full THEN {} ELSE {start + 1 + Count}
    [] op = "resume" -> {start + 1}
    [] op = "desc" -> {start}
    [] op = "apply" -> IF k <= Count THEN {pend[k].blk} ELSE {}
    [] op = "reapply" -> {disk[start].list[k]}
    [] OTHER -> {}

InFlightStart == IF op = "run" /\ pend = << >> THEN FirstStart ELSE start

Crash ==
  /\ op # "down"
  /\ crashes < MaxCrashes
  /\ crashes' = crashes + 1
  /\ \E torn \in {{}, InFlight} :
       /\ disk' = [a \in DOMAIN disk |-> IF a \in torn THEN Torn ELSE disk[a]]
       /\ overrun' = (overrun \/ \E a \in torn \cap Ring : Destroys(InFlightStart, a))
       /\ spilled' = (spilled \/ (op = "resume" /\ torn \cap Home # {}))
  /\ start' = 1
  /\ seq' = 1
  /\ pend' = << >>
  /\ op' = "down"
  /\ k' = 0
  /\ waiting' = NoBlock
  /\ UNCHANGED <<super, imgVars, wrapped, writes, mkfss>>

-----------------------------------------------------------------------------
(* mount_at: jbd_init and jbd_replay; the mount command runs it again *)

Mount ==
  /\ op = "down" \/ (op = "run" /\ pend = << >>)
  /\ SuperIntact
  /\ start' = FirstSlot(super.start)
  /\ seq' = super.seq
  /\ op' = "replay"
  /\ UNCHANGED <<diskVars, pend, k, waiting, imgVars, flagVars, countVars>>

\* The checksum is wrong: mount_at returns Io before it looks at the journal,
\* now and whenever it is called again.
MountRefused ==
  /\ op \in {"down", "refused"} /\ ~SuperIntact
  /\ op' = "refused"
  /\ UNCHANGED <<diskVars, memVars, k, waiting, imgVars, flagVars, countVars>>

\* Mutant of Sealed: the commit block is not looked at.
SealedNoCommit ==
  LET d == disk[start] IN
    /\ start + 2 <= JB
    /\ d.kind = "desc" /\ d.num = seq
    /\ Len(d.list) <= MAX_PEND /\ start + 2 + Len(d.list) <= JB

\* The log holds transaction n at slot s: descriptor, copies and seal.
SealedAt(s, n) ==
  LET d == disk[s]
      c == disk[s + 1 + Len(d.list)]
  IN  /\ s + 2 <= JB
      /\ d.kind = "desc" /\ d.num = n
      /\ Len(d.list) <= MAX_PEND /\ s + 2 + Len(d.list) <= JB
      /\ c.kind = "commit" /\ c.num = n
      /\ c.list = Checksum(d, s)

Sealed == SealedAt(start, seq)

ReplayFound ==
  /\ op = "replay" /\ Sealed
  /\ op' = "reapply"
  /\ k' = 1
  /\ UNCHANGED <<diskVars, memVars, waiting, imgVars, flagVars, countVars>>

\* Mutant of ReplayNext: start and seq stay at the transaction just applied.
ReplayNextStays ==
  /\ op = "reapply"
  /\ LET d == disk[start] IN
       /\ disk' = [disk EXCEPT ![d.list[k]] = disk[start + k]]
       /\ IF k < Len(d.list)
            THEN k' = k + 1 /\ UNCHANGED op
            ELSE k' = 0 /\ op' = "replay"
  /\ UNCHANGED <<super, memVars, waiting, imgVars, flagVars, countVars>>

\* The copies are applied again; after the last one the next transaction is
\* looked for.  The superblock on the disk is left as it was.
ReplayNext ==
  /\ op = "reapply"
  /\ LET d == disk[start] IN
       /\ disk' = [disk EXCEPT ![d.list[k]] = disk[start + k]]
       /\ IF k < Len(d.list)
            THEN k' = k + 1 /\ UNCHANGED <<start, seq, op>>
            ELSE /\ k' = 0
                 /\ op' = "replay"
                 /\ start' = NextSlot(start + 2 + Len(d.list))
                 /\ seq' = seq + 1
  /\ UNCHANGED <<super, pend, waiting, imgVars, flagVars, countVars>>

\* No further transaction: the file system is mounted as the disk now is.
ReplayEnd ==
  /\ op = "replay" /\ ~Sealed
  /\ op' = "run"
  /\ img' = Image(disk)
  /\ stable' = Image(disk)
  /\ prev' = Image(disk)
  /\ wrapped' = FALSE
  /\ UNCHANGED <<diskVars, memVars, k, waiting, overrun, spilled, countVars>>

\* mkfs_at: a new file system of the same layout and a new journal superblock;
\* the ring keeps its old contents; then mount_at.  The many block writes of
\* mkfs are one step.  A disk that mount refuses can be formatted.
Mkfs ==
  /\ (op = "run" /\ pend = << >>) \/ op = "refused"
  /\ mkfss < MaxMkfs
  /\ mkfss' = mkfss + 1
  /\ disk' = [a \in DOMAIN disk |-> IF a \in Home THEN Data(0) ELSE disk[a]]
  /\ super' = [seq |-> 1, start |-> 0]
  /\ start' = 1
  /\ seq' = 1
  /\ op' = "replay"
  /\ img' = Fresh
  /\ stable' = Fresh
  /\ prev' = Fresh
  /\ UNCHANGED <<pend, k, waiting, flagVars, writes, crashes>>

-----------------------------------------------------------------------------
WriteBlock(b) == Relog(b) \/ LogFirst(b) \/ LogNext(b) \/ ForceCommit(b)

CommitStep == WriteDesc \/ WriteSeal \/ Apply \/ Advance \/ LogForced

ReplayStep == ReplayFound \/ ReplayNext \/ ReplayEnd

Next ==
  \/ \E b \in Home : WriteBlock(b)
  \/ Commit
  \/ CommitStep
  \/ Crash
  \/ Mount
  \/ MountRefused
  \/ ReplayStep
  \/ Mkfs

Spec == Init /\ [][Next]_vars

\* The kernel runs a commit or a replay it has begun; nothing makes it mount,
\* write or lose power.
Fairness == WF_vars(CommitStep) /\ WF_vars(ReplayStep)

FairSpec == Spec /\ Fairness

-----------------------------------------------------------------------------
(* Properties *)

TypeOK ==
  /\ disk \in [Ring \cup Home -> Block]
  /\ super \in [seq : Nat, start : 0 .. JB - 1]
  /\ start \in Ring
  /\ seq \in Nat
  /\ pend \in Seq([blk : Home, pos : 2 .. JB])
  /\ Len(pend) <= MAX_PEND
  /\ op \in {"run", "desc", "seal", "apply", "resume", "down", "refused",
            "replay", "reapply"}
  /\ k \in 0 .. MAX_PEND + 1
  /\ waiting \in Home \cup {NoBlock}
  /\ img \in [Home -> Nat] /\ stable \in [Home -> Nat] /\ prev \in [Home -> Nat]
  /\ wrapped \in BOOLEAN /\ overrun \in BOOLEAN /\ spilled \in BOOLEAN
  /\ writes \in 0 .. MaxWrites
  /\ crashes \in 0 .. MaxCrashes
  /\ mkfss \in 0 .. MaxMkfs

\* A mount reaches its end and the file system comes up.
Recovered == op = "replay" /\ op' = "run"

\* A mount returns Io for the checksum of the ext4 superblock.
Refused == op = "down" /\ op' = "refused"

\* A sealed transaction of the log has the last sealed content of block b.
InLog(b) ==
  \E s \in Ring :
    /\ SealedAt(s, disk[s].num) /\ disk[s].num >= super.seq
    /\ \E m \in 1 .. Len(disk[s].list) :
         disk[s].list[m] = b /\ disk[s + m].num = stable[b]

(* Redo logging: whatever block write a power failure interrupts, and      *)
(* however often replay itself is interrupted, the mount that completes    *)
(* finds exactly the last sealed transaction - provided the transaction in *)
(* progress was not one the superblock cannot lead to (wrapped), did not   *)
(* destroy a replayed log (overrun), none has left the ring (spilled) and  *)
(* the ring was never reformatted.  The four exceptions are findings.  The *)
(* fifth is a mount that does not complete: it is refused when the failure *)
(* parts the two sectors of the ext4 superblock.  The file system is then  *)
(* out of reach, but not lost: each block is in place or in the log.       *)
CrashAtomic ==
  [][~wrapped /\ ~overrun /\ ~spilled /\ mkfss = 0
       => /\ Recovered => Image(disk) = stable
          /\ Refused => \A b \in Home : disk[b].num = stable[b] \/ InLog(b)]_vars

(* The file system reads what it wrote: through the log before the commit, *)
(* from the final block after it, in the middle of a forced commit and     *)
(* after a mount, mkfs included.                                           *)
ReadsSeeWrites ==
  op \in {"run", "desc", "seal", "apply", "resume"} /\ ~spilled
    => \A b \in Home : ReadBlock(b) = img[b]

(* No commit and no replay goes on for ever: the replay loop has an end    *)
(* although it runs until it meets a slot that is not a transaction.       *)
JournalSettles == []<>(op \in {"run", "down", "refused"})

(* "each command is crash-atomic": a mount that completes finds the state  *)
(* before or after the transaction in progress when a transaction began by *)
(* moving to slot 1.                                                       *)
WrappedAtomic ==
  [][Recovered /\ ~overrun /\ ~spilled /\ mkfss = 0
       => Image(disk) \in {prev, stable}]_vars

(* The same when the log of a transaction replayed earlier is overwritten  *)
(* before the superblock moves on.                                         *)
OverrunAtomic ==
  [][Recovered /\ ~wrapped /\ ~spilled /\ mkfss = 0
       => Image(disk) \in {prev, stable}]_vars

(* "The whole transaction ... must fit in ring slots [1..JOURNAL_BLOCKS-1]  *)
(* from the current start."                                                *)
TransactionFitsRing ==
  op \in {"desc", "seal", "apply"} => SealSlot <= JB - 1

(* "apply any committed-but-not-checkpointed transaction found in the      *)
(* log": after mkfs there is none, so the new file system comes up fresh.  *)
MkfsReplaysNothing ==
  [][Recovered /\ mkfss > 0 /\ crashes = 0 => Image(disk) = stable]_vars

=============================================================================
