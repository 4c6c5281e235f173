---------------------------- MODULE JournalProofs ----------------------------
(***************************************************************************)
(* Type correctness of the journal, that a transaction stays inside the    *)
(* ring until one is forced out of it, that reads see writes, and that the *)
(* mount that completes finds exactly the last sealed transaction, for     *)
(* every size of the ring and every number of blocks, writes and power     *)
(* failures.                                                               *)
(***************************************************************************)
EXTENDS Journal, TLAPS, Induction

\* The copies of a transaction lie behind its descriptor, one per block.
PendInv ==
  \A i \in 1 .. Len(pend) :
    /\ pend[i].pos = start + i
    /\ \A j \in 1 .. Len(pend) : pend[i].blk = pend[j].blk => i = j

\* A transaction and its seal lie in the ring.  The one exception has a single
\* block: it was opened in the last slot by a forced commit.
Room ==
  pend # << >> =>
    \/ start + 1 + Len(pend) <= JB - 1
    \/ spilled /\ Len(pend) = 1

\* What each part of the code may rely on.
OpInv ==
  /\ op \in {"desc", "seal", "apply"} => pend # << >>
  /\ op \in {"resume", "down", "refused", "replay", "reapply"} => pend = << >>
  /\ op = "resume" => waiting \in Home
  /\ op \in {"run", "down", "refused", "replay", "reapply"} => waiting = NoBlock
  /\ op = "apply" => k \in 1 .. Len(pend) + 1

\* Descriptors in the ring name one or more file system blocks.
DescInv ==
  \A a \in Ring : disk[a].kind = "desc" =>
    /\ disk[a].list # << >>
    /\ \A i \in 1 .. Len(disk[a].list) : disk[a].list[i] \in Home

\* A transaction that is being replayed is in the ring and stays as it is.
ReplayInv ==
  op = "reapply" =>
    /\ disk[start].kind = "desc"
    /\ k \in 1 .. Len(disk[start].list)
    /\ start + 2 + Len(disk[start].list) <= JB
    /\ Len(disk[start].list) <= MAX_PEND

\* While the file system is up the newest content of a block is its copy, or
\* its final block if there is none; the blocks applied so far have both.
NewestInv ==
  op \in {"run", "desc", "seal", "apply", "resume"} /\ ~spilled =>
    /\ \A i \in 1 .. Len(pend) : disk[start + i].num = img[pend[i].blk]
    /\ \A b \in Home : Logged(b) = {} => disk[b].num = img[b]
    /\ op = "apply" =>
         \A i \in 1 .. k - 1 : disk[pend[i].blk].num = img[pend[i].blk]

IInv ==
  TypeOK /\ PendInv /\ Room /\ OpInv /\ DescInv /\ ReplayInv /\ NewestInv


(***************************************************************************)
(* Data                                                                    *)
(***************************************************************************)

\* The address space: the ring, and behind it the file system blocks.
LEMMA Addresses ==
  /\ JB \in Nat /\ JB > 5 /\ MAX_PEND \in Nat /\ MAX_PEND = JB - 4
  /\ Ring \subseteq Nat /\ Home \subseteq Nat \ {0}
  /\ Ring \cap Home = {}
  /\ JB \in Home /\ 1 \in Ring
  /\ \A a : a \in Ring \cup Home => a > 0
BY JournalConstants DEF Ring, Home, MAX_PEND

\* Contents written to the disk are blocks.
LEMMA Contents ==
  /\ \A n \in Nat : Data(n) \in Block
  /\ Torn \in Block
  /\ \A n \in Nat, l \in Seq(Nat) : Desc(n, l) \in Block /\ Seal(n, l) \in Block
BY DEF Data, Torn, Desc, Seal, Block

\* NextSlot stays in the ring.
LEMMA NextSlotInRing == ASSUME NEW s \in Nat, s > 0 PROVE NextSlot(s) \in Ring
BY Addresses DEF NextSlot, Ring

\* So does the slot a mount starts from.
LEMMA FirstSlotInRing == ASSUME NEW s \in Nat PROVE FirstSlot(s) \in Ring
BY Addresses DEF FirstSlot, Ring

\* The elements of a sequence.
LEMMA Elements ==
  ASSUME NEW S, NEW s \in Seq(S)
  PROVE  Len(s) \in Nat /\ \A i \in 1 .. Len(s) : s[i] \in S
OBVIOUS

\* What TypeOK says of the slots and of the transaction.
LEMMA Typed ==
  ASSUME TypeOK
  PROVE  /\ start \in Nat /\ start >= 1 /\ start <= JB - 1
         /\ Len(pend) \in Nat /\ Len(pend) <= MAX_PEND
         /\ pend \in Seq([blk : Home, pos : 2 .. JB])
         /\ \A i \in 1 .. Len(pend) : pend[i].blk \in Home /\ pend[i].pos \in 2 .. JB
         /\ pend # << >> => Len(pend) > 0
         /\ DOMAIN disk = Ring \cup Home
<1>1. pend \in Seq([blk : Home, pos : 2 .. JB]) /\ Len(pend) <= MAX_PEND
  BY DEF TypeOK
<1>2. Len(pend) \in Nat /\ \A i \in 1 .. Len(pend) : pend[i] \in [blk : Home, pos : 2 .. JB]
  BY <1>1, Elements
<1>3. pend # << >> => Len(pend) > 0
  BY <1>1
<1>4. start \in Nat /\ start >= 1 /\ start <= JB - 1 /\ DOMAIN disk = Ring \cup Home
  BY Addresses DEF TypeOK, Ring
<1> QED BY <1>1, <1>2, <1>3, <1>4

-----------------------------------------------------------------------------
(* The initial states *)

LEMMA InitIInv == Init => IInv
<1> SUFFICES ASSUME Init PROVE IInv OBVIOUS
<1>0. MaxWrites \in Nat /\ MaxCrashes \in Nat /\ MaxMkfs \in Nat
  BY JournalConstants
<1>1. TypeOK
  <2>1. disk \in [Ring \cup Home -> Block]
    BY Contents DEF Init
  <2>2. super \in [seq : Nat, start : 0 .. JB - 1] /\ start \in Ring
    BY Addresses DEF Init
  <2>3. pend \in Seq([blk : Home, pos : 2 .. JB]) /\ Len(pend) <= MAX_PEND
    BY Addresses DEF Init
  <2>4. Fresh \in [Home -> Nat]
    BY DEF Fresh
  <2>5. k \in 0 .. MAX_PEND + 1
    BY Addresses DEF Init
  <2>6. /\ seq \in Nat /\ writes \in 0 .. MaxWrites
        /\ crashes \in 0 .. MaxCrashes /\ mkfss \in 0 .. MaxMkfs
    BY <1>0 DEF Init
  <2>7. /\ op \in {"run", "desc", "seal", "apply", "resume", "down", "refused",
                   "replay", "reapply"}
        /\ waiting \in Home \cup {NoBlock}
        /\ img \in [Home -> Nat] /\ stable \in [Home -> Nat] /\ prev \in [Home -> Nat]
        /\ wrapped \in BOOLEAN /\ overrun \in BOOLEAN /\ spilled \in BOOLEAN
    BY <2>4 DEF Init
  <2> QED BY <2>1, <2>2, <2>3, <2>5, <2>6, <2>7 DEF TypeOK
<1>2. PendInv /\ Room /\ OpInv /\ ReplayInv
  BY DEF Init, PendInv, Room, OpInv, ReplayInv
<1>3. DescInv
  BY Addresses DEF Init, DescInv, Data
<1>4. NewestInv
  BY Addresses DEF Init, NewestInv, Data, Fresh
<1> QED BY <1>1, <1>2, <1>3, <1>4 DEF IInv

-----------------------------------------------------------------------------
(* write_block *)

\* A new copy, at the end of a transaction that has room for it or, after a
\* forced commit, as the first block of one that may have none.
LEMMA LogIInv ==
  ASSUME IInv, NEW b \in Home, NEW st \in Ring,
         op \in {"run", "resume"}, Logged(b) = {},
         pend # << >> => st = start,
         Len(pend) < MAX_PEND,
         st + 2 + Len(pend) <= JB - 1 \/ (spilled' /\ pend = << >>),
         spilled => spilled', spilled' \in BOOLEAN, wrapped' \in BOOLEAN,
         Log(b, st, st + 1 + Len(pend)), op' = "run", waiting' = NoBlock
  PROVE  IInv'
<1> USE Addresses
<1> DEFINE p == st + 1 + Len(pend)
           n == Len(pend)
<1>1. /\ writes + 1 \in 0 .. MaxWrites /\ writes + 1 \in Nat
      /\ disk' = [disk EXCEPT ![p] = Data(writes + 1)]
      /\ img' = [img EXCEPT ![b] = writes + 1]
      /\ pend' = Append(pend, [blk |-> b, pos |-> p])
      /\ start' = st /\ seq' = seq /\ super' = super /\ k' = k
      /\ stable' = stable /\ prev' = prev
      /\ crashes' = crashes /\ mkfss' = mkfss
      /\ writes' = writes + 1
      /\ overrun' \in BOOLEAN
  BY JournalConstants DEF Log, IInv, TypeOK, Destroys
<1>2. n \in Nat /\ st \in Nat /\ p \in Nat /\ p \in 2 .. JB /\ pend \in Seq([blk : Home, pos : 2 .. JB])
  <2>1. TypeOK BY DEF IInv
  <2>2. n \in Nat /\ pend \in Seq([blk : Home, pos : 2 .. JB]) BY <2>1, Typed
  <2>3. st \in Nat /\ st >= 1 /\ st <= JB - 1 BY DEF Ring
  <2>4. pend = << >> => n = 0 OBVIOUS
  <2> QED BY <2>2, <2>3, <2>4
<1>3. /\ Len(pend') = n + 1
      /\ \A i \in 1 .. n : pend'[i] = pend[i]
      /\ pend'[n + 1] = [blk |-> b, pos |-> p]
  BY <1>1, <1>2
<1>4. \A i \in 1 .. n : pend[i].blk \in Home /\ pend[i].blk # b
  BY Typed DEF Logged, IInv
<1>5. TypeOK'
  <2>1. disk' \in [Ring \cup Home -> Block]
    BY <1>1, Contents DEF IInv, TypeOK
  <2>2. pend' \in Seq([blk : Home, pos : 2 .. JB]) /\ Len(pend') <= MAX_PEND
    BY <1>1, <1>2, <1>3
  <2>3. img' \in [Home -> Nat]
    BY <1>1 DEF IInv, TypeOK
  <2> QED BY <1>1, <2>1, <2>2, <2>3 DEF IInv, TypeOK
<1>6. PendInv'
  <2>1. \A i \in 1 .. n : pend[i].pos = st + i
    <3>1. CASE pend = << >>
      <4>1. n = 0 BY <3>1
      <4> QED BY <4>1
    <3>2. CASE pend # << >>
      BY <3>2 DEF IInv, PendInv
    <3> QED BY <3>1, <3>2
  <2>2. \A i \in 1 .. n + 1 : pend'[i].pos = st + i
    <3> TAKE i \in 1 .. n + 1
    <3>1. CASE i = n + 1 BY <3>1, <1>2, <1>3
    <3>2. CASE i # n + 1
      <4>1. i \in 1 .. n BY <3>2, <1>2
      <4> QED BY <4>1, <2>1, <1>3
    <3> QED BY <3>1, <3>2
  <2>3. \A i, j \in 1 .. n + 1 : pend'[i].blk = pend'[j].blk => i = j
    <3> SUFFICES ASSUME NEW i \in 1 .. n + 1, NEW j \in 1 .. n + 1,
                        pend'[i].blk = pend'[j].blk
                 PROVE  i = j
      OBVIOUS
    <3>1. \A h \in 1 .. n + 1 : h = n + 1 \/ h \in 1 .. n BY <1>2
    <3>2. pend'[n + 1].blk = b BY <1>3
    <3>3. \A h \in 1 .. n : pend'[h].blk = pend[h].blk /\ pend[h].blk # b BY <1>3, <1>4
    <3>4. \A h, g \in 1 .. n : pend[h].blk = pend[g].blk => h = g BY DEF IInv, PendInv
    <3> QED BY <3>1, <3>2, <3>3, <3>4
  <2> QED BY <1>1, <1>3, <2>2, <2>3 DEF PendInv
<1>7. Room'
  BY <1>1, <1>2, <1>3 DEF Room
<1>8. OpInv' /\ ReplayInv'
  BY DEF OpInv, ReplayInv
<1>9. DescInv'
  <2>1. \A a \in Ring : disk'[a].kind = "desc" => disk'[a] = disk[a]
    BY <1>1 DEF IInv, TypeOK, Data
  <2> QED BY <2>1 DEF IInv, DescInv
<1>10. NewestInv'
  <2> SUFFICES ASSUME ~spilled'
               PROVE /\ \A i \in 1 .. Len(pend') : disk'[st + i].num = img'[pend'[i].blk]
                     /\ \A c \in Home : Logged(c)' = {} => disk'[c].num = img'[c]
    BY <1>1 DEF NewestInv
  <2>1. p \in Ring
    BY <1>2 DEF Ring
  <2>2. /\ \A i \in 1 .. n : disk[st + i].num = img[pend[i].blk]
        /\ \A c \in Home : Logged(c) = {} => disk[c].num = img[c]
    <3>1. ~spilled OBVIOUS
    <3>2. /\ \A i \in 1 .. n : disk[start + i].num = img[pend[i].blk]
          /\ \A c \in Home : Logged(c) = {} => disk[c].num = img[c]
      BY <3>1 DEF IInv, NewestInv
    <3>3. CASE pend = << >>
      <4>1. n = 0 BY <3>3
      <4> QED BY <4>1, <3>2
    <3>4. CASE pend # << >>
      BY <3>2, <3>4
    <3> QED BY <3>3, <3>4
  <2>3. \A i \in 1 .. n : disk'[st + i].num = img'[pend'[i].blk]
    <3> TAKE i \in 1 .. n
    <3>1. st + i # p BY <1>2
    <3>2. disk'[st + i] = disk[st + i] BY <3>1, <1>1 DEF IInv, TypeOK
    <3>3. img'[pend[i].blk] = img[pend[i].blk] BY <1>1, <1>4 DEF IInv, TypeOK
    <3> QED BY <1>3, <2>2, <3>2, <3>3
  <2>4. disk'[st + (n + 1)].num = img'[pend'[n + 1].blk]
    <3>1. disk'[p] = Data(writes + 1) BY <1>1, <2>1 DEF IInv, TypeOK
    <3>2. img'[b] = writes + 1 BY <1>1 DEF IInv, TypeOK
    <3>3. st + (n + 1) = p BY <1>2
    <3> QED BY <1>3, <3>1, <3>2, <3>3 DEF Data
  <2>5. ASSUME NEW c \in Home, Logged(c)' = {} PROVE disk'[c].num = img'[c]
    <3>0. \A i \in 1 .. Len(pend') : pend'[i].blk # c BY ONLY <2>5 DEF Logged
    <3>1. c # b
      <4>1. n + 1 \in 1 .. Len(pend') /\ pend'[n + 1].blk = b BY ONLY <1>2, <1>3
      <4> QED BY ONLY <3>0, <4>1
    <3>2. Logged(c) = {}
      <4>1. \A i \in 1 .. n : i \in 1 .. Len(pend') /\ pend'[i] = pend[i]
        BY ONLY <1>2, <1>3
      <4>2. \A i \in 1 .. n : pend[i].blk # c BY ONLY <3>0, <4>1
      <4> QED BY ONLY <4>2 DEF Logged
    <3>3. c # p BY <2>1
    <3> QED BY <1>1, <2>2, <3>1, <3>2, <3>3 DEF IInv, TypeOK
  <2>6. \A i \in 1 .. n + 1 : i = n + 1 \/ i \in 1 .. n
    BY <1>2
  <2> QED BY <1>3, <2>3, <2>4, <2>5, <2>6
<1> QED BY <1>5, <1>6, <1>7, <1>8, <1>9, <1>10 DEF IInv

LEMMA LogFirstIInv == ASSUME IInv, NEW b \in Home, LogFirst(b) PROVE IInv'
<1> USE Addresses
<1>1. /\ op = "run" /\ pend = << >> /\ Log(b, FirstStart, FirstStart + 1)
      /\ wrapped' = Wraps /\ op' = op /\ waiting' = waiting /\ spilled' = spilled
  BY DEF LogFirst
<1>2. FirstStart \in Ring /\ FirstStart + 2 <= JB - 1
  BY DEF FirstStart, Wraps, IInv, TypeOK, Ring
<1>3. Len(pend) = 0 /\ Logged(b) = {}
  BY <1>1 DEF Logged
<1>4. FirstStart + 1 + Len(pend) = FirstStart + 1 /\ FirstStart + 2 + Len(pend) <= JB - 1
  BY <1>2, <1>3 DEF Ring
<1>5. waiting = NoBlock /\ spilled \in BOOLEAN /\ Wraps \in BOOLEAN
  BY <1>1 DEF IInv, TypeOK, OpInv, Wraps
<1> HIDE DEF FirstStart, Wraps
<1> QED BY <1>1, <1>2, <1>3, <1>4, <1>5, LogIInv

LEMMA LogNextIInv == ASSUME IInv, NEW b \in Home, LogNext(b) PROVE IInv'
<1> USE Addresses
<1>1. /\ op = "run" /\ pend # << >> /\ Logged(b) = {} /\ ~Full
      /\ Log(b, start, start + 1 + Len(pend))
      /\ op' = op /\ waiting' = waiting /\ wrapped' = wrapped /\ spilled' = spilled
  BY DEF LogNext
<1>2. Len(pend) < MAX_PEND /\ start + 2 + Len(pend) <= JB - 1 /\ start \in Ring
  <2>1. TypeOK BY DEF IInv
  <2>2. Len(pend) \in Nat /\ Len(pend) <= MAX_PEND /\ start \in Nat BY <2>1, Typed
  <2>3. Len(pend) # MAX_PEND /\ ~(start + Len(pend) + 2 > JB - 1) BY <1>1 DEF Full
  <2>4. start \in Ring BY <2>1 DEF TypeOK
  <2> QED BY <2>2, <2>3, <2>4
<1>3. waiting = NoBlock /\ spilled \in BOOLEAN /\ wrapped \in BOOLEAN
  BY <1>1 DEF IInv, TypeOK, OpInv
<1> QED BY <1>1, <1>2, <1>3, LogIInv

LEMMA LogForcedIInv == ASSUME IInv, LogForced PROVE IInv'
<1> USE Addresses
<1>1. /\ op = "resume" /\ Log(waiting, start, start + 1) /\ op' = "run"
      /\ waiting' = NoBlock /\ wrapped' = FALSE
      /\ spilled' = (spilled \/ start + 2 > JB - 1)
  BY DEF LogForced
<1>2. waiting \in Home /\ pend = << >> /\ start \in Ring /\ spilled \in BOOLEAN
  BY <1>1 DEF IInv, OpInv, TypeOK
<1>3. Len(pend) = 0 /\ Logged(waiting) = {}
  BY <1>2 DEF Logged
<1>4. start + 1 + Len(pend) = start + 1 /\ start + 2 + Len(pend) = start + 2
  BY <1>2, <1>3 DEF Ring
<1>5. start + 2 + Len(pend) <= JB - 1 \/ (spilled' /\ pend = << >>)
  <2>1. CASE start + 2 > JB - 1 BY <2>1, <1>1, <1>2
  <2>2. CASE ~(start + 2 > JB - 1) BY <2>2, <1>2, <1>4 DEF Ring
  <2> QED BY <2>1, <2>2
<1>6. spilled' \in BOOLEAN /\ wrapped' \in BOOLEAN /\ (spilled => spilled')
  BY <1>1, <1>2
<1> QED BY <1>1, <1>2, <1>3, <1>4, <1>5, <1>6, LogIInv

\* A copy is overwritten in its slot.
LEMMA RelogIInv == ASSUME IInv, NEW b \in Home, Relog(b) PROVE IInv'
<1> USE Addresses
<1>1. PICK l \in Logged(b) : disk' = [disk EXCEPT ![pend[l].pos] = Data(writes + 1)]
  BY DEF Relog
<1>2. /\ op = "run" /\ writes + 1 \in 0 .. MaxWrites /\ writes + 1 \in Nat
      /\ img' = [img EXCEPT ![b] = writes + 1] /\ writes' = writes + 1
      /\ UNCHANGED <<super, memVars, opVars, stable, prev, flagVars, crashes, mkfss>>
  BY JournalConstants DEF Relog, IInv, TypeOK
<1> USE <1>2 DEF memVars, opVars, flagVars
<1>3. l \in 1 .. Len(pend) /\ pend[l].blk = b /\ pend[l].pos = start + l
  BY DEF Logged, IInv, PendInv
<1>4. Len(pend) \in Nat /\ start \in Nat /\ pend # << >>
  <2>1. pend \in Seq([blk : Home, pos : 2 .. JB]) /\ start \in Nat
    BY DEF IInv, TypeOK, Ring
  <2>2. Len(pend) \in Nat /\ 1 <= Len(pend)
    BY ONLY <1>3, <2>1
  <2> QED BY ONLY <2>1, <2>2
<1>5. TypeOK'
  <2>1. disk \in [Ring \cup Home -> Block] /\ Data(writes + 1) \in Block
    BY <1>2, Contents DEF IInv, TypeOK
  <2>2. disk' \in [Ring \cup Home -> Block]
    BY ONLY <1>1, <2>1
  <2>3. TypeOK
    BY DEF IInv
  <2>4. img' \in [Home -> Nat] /\ writes' \in 0 .. MaxWrites
    BY ONLY <1>2, <2>3 DEF TypeOK
  <2>5. /\ super' = super /\ stable' = stable /\ prev' = prev /\ op' = op
        /\ UNCHANGED <<start, seq, pend, k, waiting, wrapped, overrun, spilled>>
        /\ UNCHANGED <<crashes, mkfss>>
    BY ONLY <1>2 DEF memVars, opVars, flagVars
  <2> QED BY ONLY <2>2, <2>3, <2>4, <2>5 DEF TypeOK
<1>6. PendInv' /\ Room' /\ OpInv' /\ ReplayInv'
  BY DEF IInv, PendInv, Room, OpInv, ReplayInv
<1>7. DescInv'
  <2>1. \A a \in Ring : disk'[a].kind = "desc" => disk'[a] = disk[a]
    BY <1>1 DEF IInv, TypeOK, Data
  <2> QED BY <2>1 DEF IInv, DescInv
<1>8. NewestInv'
  <2> SUFFICES ASSUME ~spilled
               PROVE /\ \A i \in 1 .. Len(pend) : disk'[start + i].num = img'[pend[i].blk]
                     /\ \A c \in Home : Logged(c) = {} => disk'[c].num = img'[c]
    BY DEF NewestInv, Logged
  <2>1. start + l \in Ring
    BY <1>3, <1>4 DEF IInv, Room, Ring
  <2>2. /\ \A i \in 1 .. Len(pend) : disk[start + i].num = img[pend[i].blk]
        /\ \A c \in Home : Logged(c) = {} => disk[c].num = img[c]
    BY DEF IInv, NewestInv
  <2>3. disk' = [disk EXCEPT ![start + l] = Data(writes + 1)]
    BY <1>1, <1>3
  <2>4. ASSUME NEW i \in 1 .. Len(pend) PROVE disk'[start + i].num = img'[pend[i].blk]
    <3>1. CASE i = l
      BY <3>1, <1>3, <2>1, <2>3 DEF IInv, TypeOK, Data
    <3>2. CASE i # l
      <4>1. pend[i].blk # b /\ pend[i].blk \in Home
        <5>1. pend[i].blk # b BY <3>2, <1>3 DEF IInv, PendInv
        <5> QED BY <5>1, Typed DEF IInv
      <4>2. start + i # start + l BY <3>2, <1>3, <1>4
      <4>3. disk'[start + i] = disk[start + i] BY <4>2, <2>3 DEF IInv, TypeOK
      <4>4. img'[pend[i].blk] = img[pend[i].blk] BY <4>1 DEF IInv, TypeOK
      <4> QED BY <4>3, <4>4, <2>2
    <3> QED BY <3>1, <3>2
  <2>5. ASSUME NEW c \in Home, Logged(c) = {} PROVE disk'[c].num = img'[c]
    <3>1. c # b BY <2>5, <1>3
    <3>2. c # start + l BY <2>1
    <3> QED BY <2>2, <2>3, <2>5, <3>1, <3>2 DEF IInv, TypeOK
  <2> QED BY <2>4, <2>5
<1> QED BY <1>5, <1>6, <1>7, <1>8 DEF IInv

LEMMA WriteBlockIInv == ASSUME IInv, NEW b \in Home, WriteBlock(b) PROVE IInv'
<1>1. CASE Relog(b)
  BY <1>1, RelogIInv
<1>2. CASE LogFirst(b)
  BY <1>2, LogFirstIInv
<1>3. CASE LogNext(b)
  BY <1>3, LogNextIInv
<1>4. CASE ForceCommit(b)
  <2> USE <1>4 DEF ForceCommit, diskVars, memVars, imgVars, flagVars, countVars
  <2>1. TypeOK' BY DEF IInv, TypeOK
  <2>2. PendInv' /\ Room' /\ OpInv' BY DEF IInv, PendInv, Room, OpInv
  <2>3. DescInv' /\ ReplayInv' /\ NewestInv'
    BY DEF IInv, DescInv, ReplayInv, NewestInv, Logged
  <2> QED BY <2>1, <2>2, <2>3 DEF IInv
<1> QED BY <1>1, <1>2, <1>3, <1>4 DEF WriteBlock

-----------------------------------------------------------------------------
(* The commit *)

LEMMA CommitIInv == ASSUME IInv, Commit PROVE IInv'
<1> USE DEF Commit, diskVars, memVars, imgVars, flagVars, countVars
<1>1. TypeOK' BY DEF IInv, TypeOK
<1>2. PendInv' /\ Room' /\ OpInv' BY DEF IInv, PendInv, Room, OpInv
<1>3. DescInv' /\ ReplayInv' /\ NewestInv'
  BY DEF IInv, DescInv, ReplayInv, NewestInv, Logged
<1> QED BY <1>1, <1>2, <1>3 DEF IInv

\* The blocks a descriptor names.
LEMMA TargetsType ==
  ASSUME TypeOK
  PROVE  /\ Targets \in Seq(Nat) /\ Len(Targets) = Len(pend)
         /\ \A i \in 1 .. Len(pend) : Targets[i] \in Home
<1>1. \A i \in 1 .. Len(pend) : pend[i].blk \in Home /\ pend[i].blk \in Nat
  BY Typed, Addresses
<1>2. Len(pend) \in Nat
  BY Typed
<1> QED BY <1>1, <1>2 DEF Targets, Count

LEMMA WriteDescIInv == ASSUME IInv, WriteDesc PROVE IInv'
<1> USE Addresses DEF imgVars, countVars, memVars
<1>1. /\ op = "desc" /\ op' = "seal"
      /\ disk' = [disk EXCEPT ![start] = Desc(seq, Targets)]
      /\ UNCHANGED <<super, memVars, k, waiting, imgVars, wrapped, spilled, countVars>>
  BY DEF WriteDesc
<1> USE <1>1
<1>2. overrun' \in BOOLEAN
  BY DEF WriteDesc, IInv, TypeOK, Destroys
<1>3. TypeOK /\ start \in Ring /\ pend # << >>
  BY DEF IInv, TypeOK, OpInv
<1>4. Targets \in Seq(Nat) /\ Len(Targets) = Len(pend)
      /\ \A i \in 1 .. Len(pend) : Targets[i] \in Home
  BY <1>3, TargetsType
<1>5. TypeOK'
  <2>1. Desc(seq, Targets) \in Block BY <1>4, Contents DEF IInv, TypeOK
  <2>2. disk' \in [Ring \cup Home -> Block] BY <2>1 DEF IInv, TypeOK
  <2> QED BY <1>2, <2>2 DEF IInv, TypeOK
<1>6. PendInv' /\ Room' /\ OpInv' /\ ReplayInv'
  BY DEF IInv, PendInv, Room, OpInv, ReplayInv
<1>7. DescInv'
  <2>1. \A a \in Ring : a # start => disk'[a] = disk[a] BY DEF IInv, TypeOK
  <2>2. disk'[start].list = Targets BY <1>3 DEF TypeOK, Desc
  <2>3. Targets # << >>
    <3>1. Len(pend) > 0 BY <1>3, Typed
    <3> QED BY <3>1, <1>4
  <2>4. \A i \in 1 .. Len(Targets) : Targets[i] \in Home BY <1>4
  <2> QED BY <2>1, <2>2, <2>3, <2>4 DEF IInv, DescInv
<1>8. NewestInv'
  <2>1. \A i \in 1 .. Len(pend) : disk'[start + i] = disk[start + i]
    <3>1. \A i \in 1 .. Len(pend) : start + i # start BY <1>3, Typed
    <3> QED BY <3>1 DEF IInv, TypeOK
  <2>2. \A b \in Home : disk'[b] = disk[b]
    <3>1. \A b \in Home : b # start BY <1>3
    <3> QED BY <3>1 DEF IInv, TypeOK
  <2> QED BY <2>1, <2>2 DEF IInv, NewestInv, Logged
<1> QED BY <1>5, <1>6, <1>7, <1>8 DEF IInv

\* What the seal covers.
LEMMA ChecksumType ==
  ASSUME TypeOK, NEW l \in Seq(Nat), NEW d, d.list = l,
         \A i \in 1 .. Len(l) : start + i \in Ring \cup Home
  PROVE  Checksum(d, start) \in Seq(Nat)
<1>1. \A b \in Block : Copy(b) \in Nat
  BY DEF Block, Copy
<1>2. \A i \in 1 .. Len(l) : Copy(disk[start + i]) \in Nat
  BY <1>1 DEF TypeOK
<1>3. Len(l) \in Nat
  OBVIOUS
<1>4. [i \in 1 .. Len(l) |-> Copy(disk[start + i])] \in Seq(Nat)
  BY <1>2, <1>3
<1>5. Checksum(d, start) = l \o [i \in 1 .. Len(l) |-> Copy(disk[start + i])]
  BY DEF Checksum
<1> QED BY <1>4, <1>5

\* The copies of a transaction have addresses, none of them that of its seal.
LEMMA CopiesOnDisk ==
  ASSUME IInv, pend # << >>
  PROVE  /\ \A i \in 1 .. Len(pend) : start + i \in Ring \cup Home /\ start + i < SealSlot
         /\ ~spilled => SealSlot \in Ring /\ \A i \in 1 .. Len(pend) : start + i \in Ring
<1>1. TypeOK
  BY DEF IInv
<1>2. /\ start \in Nat /\ start >= 1 /\ start <= JB - 1
      /\ Len(pend) \in Nat /\ Len(pend) > 0
  BY <1>1, Typed
<1>3. SealSlot = start + 1 + Len(pend)
  BY DEF SealSlot, Count
<1>4. CASE start + 1 + Len(pend) <= JB - 1
  BY <1>2, <1>3, <1>4, Addresses DEF Ring
<1>5. CASE spilled /\ Len(pend) = 1
  <2>1. \A i \in 1 .. Len(pend) : start + i = start + 1 /\ start + 1 < SealSlot
    BY <1>2, <1>3, <1>5
  <2>2. start + 1 \in Ring \/ start + 1 = JB
    BY <1>2, Addresses DEF Ring
  <2> QED BY <1>5, <2>1, <2>2, Addresses
<1> QED BY <1>4, <1>5 DEF IInv, Room

LEMMA WriteSealIInv == ASSUME IInv, WriteSeal PROVE IInv'
<1> USE Addresses DEF countVars, memVars
<1> DEFINE c == Seal(seq, Checksum(Desc(seq, Targets), start))
<1>1. /\ op = "seal" /\ op' = "apply" /\ k' = 1 /\ stable' = img /\ prev' = stable
      /\ disk' = [disk EXCEPT ![SealSlot] = c]
      /\ UNCHANGED <<super, memVars, waiting, img, wrapped, spilled, countVars>>
  BY DEF WriteSeal
<1>2. overrun' \in BOOLEAN
  BY DEF WriteSeal, IInv, TypeOK, Destroys
<1>3. TypeOK /\ pend # << >> /\ start \in Ring
  BY <1>1 DEF IInv, TypeOK, OpInv
<1>4. /\ \A i \in 1 .. Len(pend) : start + i \in Ring \cup Home /\ start + i < SealSlot
      /\ ~spilled => SealSlot \in Ring /\ \A i \in 1 .. Len(pend) : start + i \in Ring
  BY <1>3, CopiesOnDisk
<1>5. Targets \in Seq(Nat) /\ Len(Targets) = Len(pend)
  BY <1>3, TargetsType
<1>6. c \in Block
  <2>1. Desc(seq, Targets).list = Targets BY DEF Desc
  <2>2. Checksum(Desc(seq, Targets), start) \in Seq(Nat)
    BY <1>3, <1>4, <1>5, <2>1, ChecksumType
  <2> QED BY <2>2, <1>3, Contents DEF TypeOK
<1>7. c.kind = "commit"
  BY DEF Seal
<1> HIDE DEF c
<1>8. Len(pend) \in Nat /\ Len(pend) > 0
  BY <1>3, Typed
<1>9. TypeOK'
  <2>1. disk \in [Ring \cup Home -> Block] BY ONLY <1>3 DEF TypeOK
  <2>2. disk' \in [Ring \cup Home -> Block] BY ONLY <1>1, <1>6, <2>1
  <2>3. op' = "apply" /\ k' \in 0 .. MAX_PEND + 1
    BY ONLY <1>1, Addresses
  <2>4. stable' \in [Home -> Nat] /\ prev' \in [Home -> Nat]
    BY ONLY <1>1, <1>3 DEF TypeOK
  <2>5. /\ super' = super /\ img' = img
        /\ UNCHANGED <<start, seq, pend, waiting, wrapped, spilled>>
        /\ UNCHANGED <<writes, crashes, mkfss>>
    BY ONLY <1>1 DEF memVars, countVars
  <2> QED BY ONLY <1>2, <1>3, <2>2, <2>3, <2>4, <2>5 DEF TypeOK
<1>10. PendInv' /\ Room' /\ OpInv' /\ ReplayInv'
  BY <1>1, <1>3, <1>8 DEF IInv, PendInv, Room, OpInv, ReplayInv
<1>11. DescInv'
  <2>1. \A a \in Ring : disk'[a].kind = "desc" => disk'[a] = disk[a]
    BY <1>1, <1>7 DEF IInv, TypeOK
  <2> QED BY <2>1 DEF IInv, DescInv
<1>12. NewestInv'
  <2> SUFFICES ASSUME ~spilled
               PROVE /\ \A i \in 1 .. Len(pend) : disk'[start + i].num = img[pend[i].blk]
                     /\ \A b \in Home : Logged(b) = {} => disk'[b].num = img[b]
    BY <1>1 DEF NewestInv, Logged
  <2>1. \A i \in 1 .. Len(pend) : disk'[start + i] = disk[start + i]
    <3>1. \A i \in 1 .. Len(pend) : start + i # SealSlot
      BY <1>3, <1>4, <1>8 DEF Ring, SealSlot, Count
    <3> QED BY <1>1, <1>4, <3>1 DEF IInv, TypeOK
  <2>2. \A b \in Home : disk'[b] = disk[b]
    <3>1. \A b \in Home : b # SealSlot BY <1>4
    <3> QED BY <1>1, <3>1 DEF IInv, TypeOK
  <2> QED BY <1>1, <2>1, <2>2 DEF IInv, NewestInv
<1> QED BY <1>9, <1>10, <1>11, <1>12 DEF IInv

LEMMA ApplyIInv == ASSUME IInv, Apply PROVE IInv'
<1> USE Addresses DEF countVars, memVars, imgVars, flagVars
<1>1. /\ op = "apply" /\ k <= Len(pend) /\ k' = k + 1
      /\ disk' = [disk EXCEPT ![pend[k].blk] = disk[start + k]]
      /\ UNCHANGED <<super, memVars, op, waiting, imgVars, flagVars, countVars>>
  BY DEF Apply, Count
<1>2. TypeOK /\ pend # << >> /\ k \in 1 .. Len(pend) + 1
  BY <1>1 DEF IInv, OpInv
<1>3. Len(pend) \in Nat /\ Len(pend) <= MAX_PEND
  BY <1>2, Typed
<1>4. k \in 1 .. Len(pend) /\ k \in Nat
  BY <1>1, <1>2, <1>3
<1>5. pend[k].blk \in Home /\ \A i \in 1 .. Len(pend) : pend[i].blk \in Home
  BY <1>2, <1>4, Typed
<1>6. start + k \in Ring \cup Home
  BY <1>2, <1>4, CopiesOnDisk
<1>7. TypeOK'
  <2>1. disk' \in [Ring \cup Home -> Block] BY <1>1, <1>6 DEF IInv, TypeOK
  <2>2. k' \in 0 .. MAX_PEND + 1 BY <1>1, <1>3, <1>4
  <2> QED BY <1>1, <2>1, <2>2 DEF IInv, TypeOK
<1>8. PendInv' /\ Room' /\ OpInv' /\ ReplayInv'
  <2>1. k' \in 1 .. Len(pend) + 1 BY <1>1, <1>3, <1>4
  <2> QED BY <1>1, <2>1 DEF IInv, PendInv, Room, OpInv, ReplayInv
<1>9. \A a \in Ring : disk'[a] = disk[a]
  BY <1>1, <1>5 DEF IInv, TypeOK
<1>10. DescInv'
  BY <1>9 DEF IInv, DescInv
<1>11. NewestInv'
  <2> SUFFICES ASSUME ~spilled
               PROVE /\ \A i \in 1 .. Len(pend) : disk'[start + i].num = img[pend[i].blk]
                     /\ \A b \in Home : Logged(b) = {} => disk'[b].num = img[b]
                     /\ \A i \in 1 .. k : disk'[pend[i].blk].num = img[pend[i].blk]
    BY <1>1, <1>4 DEF NewestInv, Logged
  <2>1. \A i \in 1 .. Len(pend) : start + i \in Ring
    BY <1>2, CopiesOnDisk
  <2>2. /\ \A i \in 1 .. Len(pend) : disk[start + i].num = img[pend[i].blk]
        /\ \A b \in Home : Logged(b) = {} => disk[b].num = img[b]
        /\ \A i \in 1 .. k - 1 : disk[pend[i].blk].num = img[pend[i].blk]
    BY <1>1 DEF IInv, NewestInv
  <2>3. \A b \in Home : Logged(b) = {} => disk'[b] = disk[b]
    <3>1. \A b \in Home : Logged(b) = {} => b # pend[k].blk BY <1>4 DEF Logged
    <3> QED BY <1>1, <3>1 DEF IInv, TypeOK
  <2>4. ASSUME NEW i \in 1 .. k PROVE disk'[pend[i].blk].num = img[pend[i].blk]
    <3>1. CASE i = k
      <4>1. disk'[pend[k].blk] = disk[start + k] BY <1>1, <1>5 DEF IInv, TypeOK
      <4> QED BY <3>1, <4>1, <1>4, <2>2
    <3>2. CASE i # k
      <4>1. i \in 1 .. k - 1 /\ i \in 1 .. Len(pend) BY <3>2, <1>3, <1>4
      <4>2. pend[i].blk # pend[k].blk BY <3>2, <4>1, <1>4 DEF IInv, PendInv
      <4>3. disk'[pend[i].blk] = disk[pend[i].blk]
        BY <1>1, <1>5, <4>1, <4>2 DEF IInv, TypeOK
      <4> QED BY <4>1, <4>3, <2>2
    <3> QED BY <3>1, <3>2
  <2> QED BY <1>9, <2>1, <2>2, <2>3, <2>4
<1> QED BY <1>7, <1>8, <1>10, <1>11 DEF IInv

LEMMA AdvanceIInv == ASSUME IInv, Advance PROVE IInv'
<1> USE Addresses DEF countVars, imgVars
<1>1. /\ op = "apply" /\ k > Len(pend) /\ k' = 0 /\ pend' = << >> /\ wrapped' = FALSE
      /\ start' = NextSlot(start + 2 + Len(pend)) /\ seq' = seq + 1
      /\ super' = [seq |-> seq', start |-> start']
      /\ op' = IF waiting = NoBlock THEN "run" ELSE "resume"
      /\ UNCHANGED <<disk, waiting, imgVars, overrun, spilled, countVars>>
  BY DEF Advance, Count
<1>2. TypeOK /\ pend # << >> /\ k \in 1 .. Len(pend) + 1
  BY <1>1 DEF IInv, OpInv
<1>3. start \in Nat /\ Len(pend) \in Nat
  BY <1>2, Typed
<1>4. start' \in Ring
  <2>1. start + 2 + Len(pend) \in Nat /\ start + 2 + Len(pend) > 0 BY <1>3
  <2> QED BY <1>1, <2>1, NextSlotInRing
<1>5. k = Len(pend) + 1
  BY <1>1, <1>2, <1>3
<1>6. TypeOK'
  <2>1. super' \in [seq : Nat, start : 0 .. JB - 1]
    BY <1>1, <1>4 DEF Ring, IInv, TypeOK
  <2>2. pend' \in Seq([blk : Home, pos : 2 .. JB]) /\ Len(pend') <= MAX_PEND
    BY <1>1
  <2>3. op' \in {"run", "resume"} /\ k' \in 0 .. MAX_PEND + 1 /\ seq' \in Nat
    BY <1>1 DEF IInv, TypeOK
  <2>4. /\ disk' \in [Ring \cup Home -> Block] /\ waiting' \in Home \cup {NoBlock}
        /\ img' \in [Home -> Nat] /\ stable' \in [Home -> Nat] /\ prev' \in [Home -> Nat]
        /\ wrapped' \in BOOLEAN /\ overrun' \in BOOLEAN /\ spilled' \in BOOLEAN
        /\ writes' \in 0 .. MaxWrites /\ crashes' \in 0 .. MaxCrashes
        /\ mkfss' \in 0 .. MaxMkfs
    BY <1>1 DEF IInv, TypeOK
  <2> QED BY <1>4, <2>1, <2>2, <2>3, <2>4 DEF TypeOK
<1>7. PendInv' /\ Room' /\ ReplayInv'
  BY <1>1 DEF PendInv, Room, ReplayInv
<1>8. OpInv'
  BY <1>1 DEF OpInv, IInv, TypeOK
<1>9. DescInv'
  BY <1>1 DEF IInv, DescInv
<1>10. NewestInv'
  <2> SUFFICES ASSUME ~spilled
               PROVE \A b \in Home : disk[b].num = img[b]
    BY <1>1 DEF NewestInv
  <2>1. /\ \A b \in Home : Logged(b) = {} => disk[b].num = img[b]
        /\ \A i \in 1 .. k - 1 : disk[pend[i].blk].num = img[pend[i].blk]
    BY <1>1 DEF IInv, NewestInv
  <2>2. \A b \in Home : Logged(b) # {} => \E i \in 1 .. k - 1 : pend[i].blk = b
    BY <1>3, <1>5 DEF Logged
  <2> QED BY <2>1, <2>2
<1> QED BY <1>6, <1>7, <1>8, <1>9, <1>10 DEF IInv

LEMMA CommitStepIInv == ASSUME IInv, CommitStep PROVE IInv'
BY WriteDescIInv, WriteSealIInv, ApplyIInv, AdvanceIInv, LogForcedIInv DEF CommitStep

-----------------------------------------------------------------------------
(* Power failure, mount and mkfs *)

LEMMA CrashIInv == ASSUME IInv, Crash PROVE IInv'
<1> USE Addresses DEF imgVars
<1>1. PICK torn \in {{}, InFlight} :
        /\ disk' = [a \in DOMAIN disk |-> IF a \in torn THEN Torn ELSE disk[a]]
        /\ overrun' = (overrun \/ \E a \in torn \cap Ring : Destroys(InFlightStart, a))
        /\ spilled' = (spilled \/ (op = "resume" /\ torn \cap Home # {}))
  BY DEF Crash
<1>2. /\ crashes' = crashes + 1 /\ crashes < MaxCrashes
      /\ start' = 1 /\ seq' = 1 /\ pend' = << >> /\ op' = "down" /\ k' = 0
      /\ waiting' = NoBlock
      /\ UNCHANGED <<super, imgVars, wrapped, writes, mkfss>>
  BY DEF Crash
<1>3. DOMAIN disk = Ring \cup Home
  BY DEF IInv, TypeOK
<1>4. TypeOK'
  <2>1. disk' \in [Ring \cup Home -> Block]
    BY <1>1, <1>3, Contents DEF IInv, TypeOK
  <2>2. overrun' \in BOOLEAN /\ spilled' \in BOOLEAN
    BY <1>1 DEF IInv, TypeOK
  <2>3. pend' \in Seq([blk : Home, pos : 2 .. JB]) /\ Len(pend') <= MAX_PEND
    BY <1>2
  <2>4. crashes' \in 0 .. MaxCrashes
    BY <1>2, JournalConstants DEF IInv, TypeOK
  <2>5. k' \in 0 .. MAX_PEND + 1 /\ seq' \in Nat /\ start' \in Ring
    BY <1>2
  <2>6. /\ super' \in [seq : Nat, start : 0 .. JB - 1]
        /\ op' = "down" /\ waiting' \in Home \cup {NoBlock}
        /\ img' \in [Home -> Nat] /\ stable' \in [Home -> Nat] /\ prev' \in [Home -> Nat]
        /\ wrapped' \in BOOLEAN
        /\ writes' \in 0 .. MaxWrites /\ mkfss' \in 0 .. MaxMkfs
    BY <1>2 DEF IInv, TypeOK
  <2> QED BY <2>1, <2>2, <2>3, <2>4, <2>5, <2>6 DEF TypeOK
<1>5. PendInv' /\ Room' /\ OpInv' /\ ReplayInv' /\ NewestInv'
  BY <1>2 DEF PendInv, Room, OpInv, ReplayInv, NewestInv
<1>6. DescInv'
  <2>1. \A a \in Ring : disk'[a].kind = "desc" => disk'[a] = disk[a]
    BY <1>1, <1>3 DEF Torn
  <2> QED BY <2>1 DEF IInv, DescInv
<1> QED BY <1>4, <1>5, <1>6 DEF IInv

LEMMA MountIInv == ASSUME IInv, Mount PROVE IInv'
<1> USE Addresses DEF diskVars, imgVars, flagVars, countVars
<1>1. /\ start' = FirstSlot(super.start) /\ seq' = super.seq /\ op' = "replay"
      /\ op = "down" \/ (op = "run" /\ pend = << >>)
      /\ UNCHANGED <<diskVars, pend, k, waiting, imgVars, flagVars, countVars>>
  BY DEF Mount
<1>2. start' \in Ring /\ seq' \in Nat
  <2>1. super.start \in Nat /\ super.seq \in Nat BY DEF IInv, TypeOK
  <2> QED BY <1>1, <2>1, FirstSlotInRing
<1>3. pend = << >> /\ waiting = NoBlock
  BY <1>1 DEF IInv, OpInv
<1>4. TypeOK'
  BY <1>1, <1>2 DEF IInv, TypeOK
<1>5. PendInv' /\ Room' /\ OpInv' /\ ReplayInv' /\ NewestInv'
  BY <1>1, <1>3 DEF PendInv, Room, OpInv, ReplayInv, NewestInv
<1>6. DescInv'
  BY <1>1 DEF IInv, DescInv
<1> QED BY <1>4, <1>5, <1>6 DEF IInv

LEMMA MountRefusedIInv == ASSUME IInv, MountRefused PROVE IInv'
<1> USE DEF diskVars, memVars, imgVars, flagVars, countVars
<1>1. /\ op \in {"down", "refused"} /\ op' = "refused"
      /\ UNCHANGED <<diskVars, memVars, k, waiting, imgVars, flagVars, countVars>>
  BY DEF MountRefused
<1>2. pend = << >> /\ waiting = NoBlock
  BY <1>1 DEF IInv, OpInv
<1>3. TypeOK'
  BY <1>1 DEF IInv, TypeOK
<1>4. PendInv' /\ Room' /\ OpInv' /\ ReplayInv' /\ NewestInv'
  BY <1>1, <1>2, Addresses DEF PendInv, Room, OpInv, ReplayInv, NewestInv
<1>5. DescInv'
  BY <1>1 DEF IInv, DescInv
<1> QED BY <1>3, <1>4, <1>5 DEF IInv

LEMMA ReplayFoundIInv == ASSUME IInv, ReplayFound PROVE IInv'
<1> USE Addresses DEF diskVars, memVars, imgVars, flagVars, countVars
<1>1. /\ op = "replay" /\ op' = "reapply" /\ k' = 1
      /\ UNCHANGED <<diskVars, memVars, waiting, imgVars, flagVars, countVars>>
  BY DEF ReplayFound
<1>2. /\ disk[start].kind = "desc" /\ Len(disk[start].list) <= MAX_PEND
      /\ start + 2 + Len(disk[start].list) <= JB
  BY DEF ReplayFound, Sealed, SealedAt
<1>3. start \in Ring /\ disk[start] \in Block
  BY DEF IInv, TypeOK
<1>4. disk[start].list \in Seq(Nat) /\ disk[start].list # << >>
  BY <1>2, <1>3 DEF IInv, DescInv, Block
<1>5. Len(disk[start].list) \in Nat /\ Len(disk[start].list) > 0
  BY <1>4
<1>6. TypeOK'
  <2>1. op' = "reapply" /\ k' \in 0 .. MAX_PEND + 1
    BY ONLY <1>1, Addresses
  <2>2. /\ UNCHANGED <<disk, super, start, seq, pend, waiting, img, stable, prev>>
        /\ UNCHANGED <<wrapped, overrun, spilled, writes, crashes, mkfss>>
    BY ONLY <1>1 DEF diskVars, memVars, imgVars, flagVars, countVars
  <2>3. TypeOK
    BY DEF IInv
  <2> QED BY ONLY <2>1, <2>2, <2>3 DEF TypeOK
<1>7. PendInv' /\ Room' /\ OpInv' /\ NewestInv'
  BY <1>1 DEF IInv, PendInv, Room, OpInv, NewestInv
<1>8. ReplayInv'
  BY <1>1, <1>2, <1>5 DEF ReplayInv
<1>9. DescInv'
  BY <1>1 DEF IInv, DescInv
<1> QED BY <1>6, <1>7, <1>8, <1>9 DEF IInv

\* The slots of a transaction of n blocks at s that ends in the ring.
LEMMA TransactionSlots ==
  ASSUME NEW s \in Ring, NEW n \in Nat, NEW i \in 1 .. n, s + 2 + n <= JB
  PROVE  s + i \in Ring /\ s + 2 + n \in Nat /\ s + 2 + n > 0
BY Addresses DEF Ring

LEMMA ReplayNextIInv == ASSUME IInv, ReplayNext PROVE IInv'
<1> USE Addresses DEF imgVars, flagVars, countVars
<1> DEFINE d == disk[start]
<1>1. /\ op = "reapply" /\ disk' = [disk EXCEPT ![d.list[k]] = disk[start + k]]
      /\ IF k < Len(d.list)
           THEN k' = k + 1 /\ UNCHANGED <<start, seq, op>>
           ELSE /\ k' = 0 /\ op' = "replay"
                /\ start' = NextSlot(start + 2 + Len(d.list)) /\ seq' = seq + 1
      /\ UNCHANGED <<super, pend, waiting, imgVars, flagVars, countVars>>
  BY DEF ReplayNext
<1>2. /\ start \in Ring /\ start \in Nat /\ start > 0 /\ d.kind = "desc"
      /\ k \in 1 .. Len(d.list)
      /\ start + 2 + Len(d.list) <= JB /\ Len(d.list) <= MAX_PEND
      /\ d.list \in Seq(Nat)
  BY <1>1 DEF IInv, TypeOK, ReplayInv, Block, Ring
<1>3. Len(d.list) \in Nat
  BY <1>2
<1>4. d.list[k] \in Home
  BY <1>2 DEF IInv, DescInv
<1>5. /\ start + k \in Ring
      /\ start + 2 + Len(d.list) \in Nat /\ start + 2 + Len(d.list) > 0
  <2> HIDE DEF d
  <2> QED BY <1>2, <1>3, TransactionSlots
<1>6. \A a \in Ring : disk'[a] = disk[a]
  BY <1>1, <1>4 DEF IInv, TypeOK
<1>7. disk' \in [Ring \cup Home -> Block]
  BY <1>1, <1>5 DEF IInv, TypeOK
<1>8. pend = << >> /\ waiting = NoBlock
  BY <1>1 DEF IInv, OpInv
<1>9. DescInv'
  BY <1>6 DEF IInv, DescInv
<1>10. CASE k < Len(d.list)
  <2>1. k' = k + 1 /\ start' = start /\ seq' = seq /\ op' = op
    BY <1>1, <1>10
  <2>2. k' \in 0 .. MAX_PEND + 1 /\ k' \in 1 .. Len(d.list)
    BY <2>1, <1>2, <1>3, <1>10
  <2>3. TypeOK'
    BY <1>1, <1>7, <2>1, <2>2 DEF IInv, TypeOK
  <2>4. disk'[start'] = d
    BY <1>2, <1>6, <2>1
  <2>5. ReplayInv'
    BY <1>2, <2>1, <2>2, <2>4 DEF ReplayInv
  <2>6. PendInv' /\ Room' /\ OpInv' /\ NewestInv'
    BY <1>1, <1>8, <2>1 DEF PendInv, Room, OpInv, NewestInv
  <2> QED BY <1>9, <2>3, <2>5, <2>6 DEF IInv
<1>11. CASE ~(k < Len(d.list))
  <2>1. /\ k' = 0 /\ op' = "replay" /\ seq' = seq + 1
        /\ start' = NextSlot(start + 2 + Len(d.list))
    BY <1>1, <1>11
  <2>2. start' \in Ring
    BY <1>5, <2>1, NextSlotInRing
  <2>3. TypeOK'
    <3>1. /\ k' \in 0 .. MAX_PEND + 1 /\ seq' \in Nat
          /\ op' \in {"run", "desc", "seal", "apply", "resume", "down", "refused",
                      "replay", "reapply"}
      <4>1. seq \in Nat BY DEF IInv, TypeOK
      <4> QED BY <2>1, <4>1
    <3>2. /\ super' \in [seq : Nat, start : 0 .. JB - 1]
          /\ pend' \in Seq([blk : Home, pos : 2 .. JB]) /\ Len(pend') <= MAX_PEND
          /\ waiting' \in Home \cup {NoBlock}
      BY <1>1 DEF IInv, TypeOK
    <3>3. /\ img' \in [Home -> Nat] /\ stable' \in [Home -> Nat] /\ prev' \in [Home -> Nat]
          /\ wrapped' \in BOOLEAN /\ overrun' \in BOOLEAN /\ spilled' \in BOOLEAN
          /\ writes' \in 0 .. MaxWrites /\ crashes' \in 0 .. MaxCrashes
          /\ mkfss' \in 0 .. MaxMkfs
      BY <1>1 DEF IInv, TypeOK
    <3> QED BY <1>7, <2>2, <3>1, <3>2, <3>3 DEF TypeOK
  <2>4. PendInv' /\ Room' /\ OpInv' /\ ReplayInv' /\ NewestInv'
    BY <1>1, <1>8, <2>1 DEF PendInv, Room, OpInv, ReplayInv, NewestInv
  <2> QED BY <1>9, <2>3, <2>4 DEF IInv
<1> QED BY <1>10, <1>11

LEMMA ReplayEndIInv == ASSUME IInv, ReplayEnd PROVE IInv'
<1> USE Addresses DEF diskVars, memVars, countVars
<1>1. /\ op = "replay" /\ op' = "run" /\ wrapped' = FALSE
      /\ img' = Image(disk) /\ stable' = Image(disk) /\ prev' = Image(disk)
      /\ UNCHANGED <<diskVars, memVars, k, waiting, overrun, spilled, countVars>>
  BY DEF ReplayEnd
<1>2. pend = << >> /\ waiting = NoBlock
  BY <1>1 DEF IInv, OpInv
<1>3. Image(disk) \in [Home -> Nat]
  <2>1. \A b \in Home : disk[b].num \in Nat BY DEF IInv, TypeOK, Block
  <2> QED BY <2>1 DEF Image
<1>4. TypeOK'
  BY <1>1, <1>3 DEF IInv, TypeOK
<1>5. PendInv' /\ Room' /\ OpInv' /\ ReplayInv'
  BY <1>1, <1>2 DEF PendInv, Room, OpInv, ReplayInv
<1>6. NewestInv'
  BY <1>1, <1>2 DEF NewestInv, Image
<1>7. DescInv'
  BY <1>1 DEF IInv, DescInv
<1> QED BY <1>4, <1>5, <1>6, <1>7 DEF IInv

LEMMA MkfsIInv == ASSUME IInv, Mkfs PROVE IInv'
<1> USE Addresses DEF flagVars
<1>1. /\ (op = "run" /\ pend = << >>) \/ op = "refused"
      /\ mkfss < MaxMkfs /\ mkfss' = mkfss + 1
      /\ disk' = [a \in DOMAIN disk |-> IF a \in Home THEN Data(0) ELSE disk[a]]
      /\ super' = [seq |-> 1, start |-> 0] /\ start' = 1 /\ seq' = 1
      /\ op' = "replay" /\ img' = Fresh /\ stable' = Fresh /\ prev' = Fresh
      /\ UNCHANGED <<pend, k, waiting, flagVars, writes, crashes>>
  BY DEF Mkfs
<1>2. pend = << >> /\ waiting = NoBlock /\ DOMAIN disk = Ring \cup Home
  BY <1>1 DEF IInv, OpInv, TypeOK
<1>3. TypeOK'
  <2>1. disk' \in [Ring \cup Home -> Block]
    BY <1>1, <1>2, Contents DEF IInv, TypeOK
  <2>2. super' \in [seq : Nat, start : 0 .. JB - 1] /\ start' \in Ring /\ seq' \in Nat
    BY <1>1
  <2>3. Fresh \in [Home -> Nat] BY DEF Fresh
  <2>4. mkfss' \in 0 .. MaxMkfs BY <1>1, JournalConstants DEF IInv, TypeOK
  <2> QED BY <1>1, <2>1, <2>2, <2>3, <2>4 DEF IInv, TypeOK
<1>4. PendInv' /\ Room' /\ OpInv' /\ ReplayInv' /\ NewestInv'
  BY <1>1, <1>2 DEF PendInv, Room, OpInv, ReplayInv, NewestInv
<1>5. DescInv'
  <2>1. \A a \in Ring : disk'[a] = disk[a] BY <1>1, <1>2
  <2> QED BY <2>1 DEF IInv, DescInv
<1> QED BY <1>3, <1>4, <1>5 DEF IInv

-----------------------------------------------------------------------------
(* Every step *)

LEMMA StepIInv == IInv /\ [Next]_vars => IInv'
<1> SUFFICES ASSUME IInv, [Next]_vars PROVE IInv' OBVIOUS
<1>1. ASSUME NEW b \in Home, WriteBlock(b) PROVE IInv'
  BY <1>1, WriteBlockIInv
<1>2. CASE Commit BY <1>2, CommitIInv
<1>3. CASE CommitStep BY <1>3, CommitStepIInv
<1>4. CASE Crash BY <1>4, CrashIInv
<1>5. CASE Mount BY <1>5, MountIInv
<1>6. CASE ReplayStep
  BY <1>6, ReplayFoundIInv, ReplayNextIInv, ReplayEndIInv DEF ReplayStep
<1>7. CASE Mkfs BY <1>7, MkfsIInv
<1>8. CASE UNCHANGED vars
  <2> USE <1>8 DEF vars, diskVars, memVars, opVars, imgVars, flagVars, countVars
  <2>1. TypeOK' BY DEF IInv, TypeOK
  <2>2. PendInv' /\ Room' /\ OpInv' BY DEF IInv, PendInv, Room, OpInv
  <2>3. DescInv' /\ ReplayInv' /\ NewestInv'
    BY DEF IInv, DescInv, ReplayInv, NewestInv, Logged
  <2> QED BY <2>1, <2>2, <2>3 DEF IInv
<1>9. CASE MountRefused BY <1>9, MountRefusedIInv
<1> QED BY <1>1, <1>2, <1>3, <1>4, <1>5, <1>6, <1>7, <1>8, <1>9 DEF Next

(* The journal's invariant: where the copies of a transaction lie, what    *)
(* they hold, and what replay may rely on.                                 *)
THEOREM JournalInvariant == Spec => []IInv
<1>1. Init => IInv BY InitIInv
<1>2. IInv /\ [Next]_vars => IInv' BY StepIInv
<1> QED BY <1>1, <1>2, PTL DEF Spec

(* Type correctness: slots stay in the ring, a transaction never holds     *)
(* more blocks than a descriptor can name.                                 *)
THEOREM JournalTypes == Spec => []TypeOK
<1>1. IInv => TypeOK BY DEF IInv
<1> QED BY <1>1, JournalInvariant, PTL

(* read_block returns what write_block wrote last: through the log, in the *)
(* middle of a commit or a forced commit, and after a mount.               *)
THEOREM ReadsReturnNewest == Spec => []ReadsSeeWrites
<1>1. IInv => ReadsSeeWrites
  <2> SUFFICES ASSUME IInv, op \in {"run", "desc", "seal", "apply", "resume"}, ~spilled,
                      NEW b \in Home
               PROVE  ReadBlock(b) = img[b]
    BY DEF ReadsSeeWrites
  <2>1. /\ \A i \in 1 .. Len(pend) : disk[start + i].num = img[pend[i].blk]
        /\ Logged(b) = {} => disk[b].num = img[b]
    BY DEF IInv, NewestInv
  <2>2. CASE Logged(b) = {}
    BY <2>1, <2>2 DEF ReadBlock
  <2>3. CASE Logged(b) # {}
    <3>1. PICK l \in Logged(b) : TRUE BY <2>3
    <3>2. l \in 1 .. Len(pend) /\ pend[l].blk = b /\ pend[l].pos = start + l
      BY <3>1 DEF Logged, IInv, PendInv
    <3>3. \A i \in Logged(b) : i = l
      BY <3>2 DEF Logged, IInv, PendInv
    <3>4. l <= l
      <4>1. Len(pend) \in Nat BY Typed DEF IInv
      <4> QED BY <3>2, <4>1
    <3>5. (CHOOSE i \in Logged(b) : \A j \in Logged(b) : i <= j) = l
      BY <3>1, <3>3, <3>4, Zenon
    <3> QED BY <2>1, <2>3, <3>2, <3>5 DEF ReadBlock
  <2> QED BY <2>2, <2>3
<1> QED BY <1>1, JournalInvariant, PTL

(* Only a forced commit can push a transaction out of the ring: until one  *)
(* has, descriptor, copies and seal fit in front of its end.               *)
FitsUnlessSpilled ==
  op \in {"desc", "seal", "apply"} /\ ~spilled => SealSlot <= JB - 1

THEOREM RingHolds == Spec => []FitsUnlessSpilled
<1>1. IInv => FitsUnlessSpilled
  <2> SUFFICES ASSUME IInv, op \in {"desc", "seal", "apply"}, ~spilled
               PROVE  SealSlot <= JB - 1
    BY DEF FitsUnlessSpilled
  <2>1. pend # << >> BY DEF IInv, OpInv
  <2> QED BY <2>1 DEF IInv, Room, SealSlot, Count
<1> QED BY <1>1, JournalInvariant, PTL

(***************************************************************************)
(* CrashAtomic, from here to the end.                                      *)
(*                                                                         *)
(* jbd_replay walks from the slot and number of the superblock over        *)
(* transactions that are sealed with consecutive numbers.  The invariant   *)
(* names that walk before anyone makes it: a chain ch of descriptor slots, *)
(* each where the one before it ends, that stays inside one turn of the    *)
(* ring.  It says what the newest copy of each block in the chain holds    *)
(* (Gives), that the chain ends where it is said to end because no seal    *)
(* with the next number lies behind it (Commits), and how far the memory,  *)
(* a commit or a replay has got with it (Memory).                          *)
(***************************************************************************)

\* The slot behind the transaction at slot s.
After(s) == s + 2 + Len(disk[s].list)

\* The slot a mount begins at.
First == FirstSlot(super.start)

\* Where the j-th transaction of the chain begins: where the one before ends.
Slot(ch, j) == IF j = 1 THEN First ELSE NextSlot(After(ch[j - 1]))

End(ch) == Slot(ch, Len(ch) + 1)

\* The chain is what replay finds: sealed transactions, numbered on from the
\* superblock, each where the one before it ends.
Links(ch) ==
  \A i \in 1 .. Len(ch) : ch[i] = Slot(ch, i) /\ SealedAt(ch[i], super.seq + i - 1)

\* The chain takes no more than one turn of the ring: either all of it lies
\* between First and its end, or it has come round, its end is in front of First
\* and each transaction is behind First or in front of the end.
Arc(ch) ==
  \/ \A i \in 1 .. Len(ch) : First <= ch[i] /\ After(ch[i]) <= End(ch)
  \/ End(ch) <= First /\ \A i \in 1 .. Len(ch) : First <= ch[i] \/ After(ch[i]) <= End(ch)

\* No seal in the ring has a number behind the chain, and one that has the next
\* number (a transaction that moved to slot 1 unannounced) is not where replay
\* looks for it: the chain ends too close to the end of the ring.
Commits(ch) ==
  \A a \in Ring : disk[a].kind = "commit" =>
    \/ disk[a].num < super.seq + Len(ch)
    \/ disk[a].num = super.seq + Len(ch) /\ End(ch) >= JB - 2

\* Slot a belongs to none of the transactions of the chain.
Apart(ch, a) == \A i \in 1 .. Len(ch) : a < ch[i] \/ After(ch[i]) <= a

\* The descriptor at slot s has a copy of block b.
Names(s, b) == \E m \in 1 .. Len(disk[s].list) : disk[s].list[m] = b

\* The last copy of block b in the chain is the m-th of the i-th transaction.
Newest(ch, b, i, m) ==
  /\ i \in 1 .. Len(ch) /\ m \in 1 .. Len(disk[ch[i]].list)
  /\ disk[ch[i]].list[m] = b
  /\ \A j \in i + 1 .. Len(ch) : ~Names(ch[j], b)

Unnamed(ch, b) == \A i \in 1 .. Len(ch) : ~Names(ch[i], b)

\* Applying the whole chain gives the last sealed state.
Gives(ch) ==
  \A b \in Home :
    /\ \A i, m \in Nat : Newest(ch, b, i, m) => disk[ch[i] + m].num = stable[b]
    /\ Unnamed(ch, b) => disk[b].num = stable[b]

\* Replay, or the commits themselves, have applied the chain up to copy l of
\* transaction j: blocks whose newest copy lies in front of it have it.
Done(ch, j, l) ==
  \A b \in Home : \A i, m \in Nat :
    Newest(ch, b, i, m) /\ (i < j \/ (i = j /\ m < l)) => disk[b].num = disk[ch[i] + m].num

\* What the code in progress knows of the chain.  A transaction being written
\* follows it or has moved to slot 1; one being applied is the last of it; replay
\* stands at its j-th transaction with all before it applied.
Memory(ch) ==
  /\ op \in {"run", "desc", "seal", "resume"} =>
       /\ seq = super.seq + Len(ch)
       /\ ~wrapped => start = End(ch)
       /\ wrapped => start = 1 /\ End(ch) >= JB - 2 /\ pend # << >>
       /\ \A i \in 1 .. Len(pend) : Apart(ch, start + i)
       /\ Done(ch, Len(ch) + 1, 1)
  /\ op = "apply" /\ ~wrapped =>
       /\ seq + 1 = super.seq + Len(ch) /\ Len(ch) > 0 /\ ch[Len(ch)] = start
  /\ op = "apply" /\ wrapped =>
       seq = super.seq + Len(ch) /\ End(ch) >= JB - 2
  /\ op = "replay" =>
       \E j \in 1 .. Len(ch) + 1 :
         start = Slot(ch, j) /\ seq + 1 = super.seq + j /\ Done(ch, j, 1)
  /\ op = "reapply" =>
       \E j \in 1 .. Len(ch) :
         start = ch[j] /\ seq + 1 = super.seq + j /\ Done(ch, j, k)

\* ch is the chain.
Chained(ch) ==
  /\ ch \in Seq(Ring) /\ Links(ch) /\ Arc(ch) /\ Commits(ch)
  /\ ~wrapped => Gives(ch)
  /\ Memory(ch)

\* The exceptions of CrashAtomic that last.
Excepted == overrun \/ spilled \/ mkfss # 0

\* Descriptors name a block once.
ListsInv ==
  \A a \in Ring : disk[a].kind = "desc" =>
    \A m, l \in 1 .. Len(disk[a].list) : disk[a].list[m] = disk[a].list[l] => m = l

\* While a transaction is sealed and applied its descriptor is on the disk, and
\* what it seals is what the file system has written.
SealInv ==
  /\ op \in {"seal", "apply"} /\ ~spilled => disk[start] = Desc(seq, Targets)
  /\ op = "apply" => stable = img

\* There is always a chain.
ChainInv == ~Excepted => \E ch : Chained(ch)

\* The invariant of the journal across power failures.
CInv == ListsInv /\ SealInv /\ ChainInv

-----------------------------------------------------------------------------
\* What the links say of a transaction: its place and its list.
LEMMA LinkFacts ==
  ASSUME TypeOK, NEW ch, ch \in Seq(Ring), Links(ch), NEW i \in 1 .. Len(ch)
  PROVE  /\ Len(ch) \in Nat /\ i \in Nat /\ ch[i] \in Ring /\ ch[i] \in Nat /\ ch[i] >= 1
         /\ disk[ch[i]].kind = "desc" /\ disk[ch[i]].list \in Seq(Nat)
         /\ Len(disk[ch[i]].list) \in Nat
         /\ After(ch[i]) = ch[i] + 2 + Len(disk[ch[i]].list)
         /\ After(ch[i]) \in Nat /\ After(ch[i]) <= JB
<1>1. Len(ch) \in Nat /\ i \in Nat /\ ch[i] \in Ring
  OBVIOUS
<1>2. ch[i] \in Nat /\ ch[i] >= 1
  BY <1>1 DEF Ring
<1>3. disk[ch[i]] \in Block
  BY <1>1 DEF TypeOK
<1>4. disk[ch[i]].list \in Seq(Nat)
  BY <1>3 DEF Block
<1>5. Len(disk[ch[i]].list) \in Nat
  BY <1>4
<1>6. disk[ch[i]].kind = "desc" /\ ch[i] + 2 + Len(disk[ch[i]].list) <= JB
  BY DEF Links, SealedAt
<1> QED BY <1>1, <1>2, <1>4, <1>5, <1>6 DEF After

\* The places of the transactions, and the end of the chain, are in the ring.
LEMMA SlotInRing ==
  ASSUME TypeOK, NEW ch, ch \in Seq(Ring), Links(ch), NEW j \in 1 .. Len(ch) + 1
  PROVE  Slot(ch, j) \in Ring /\ First \in Ring
<1>1. First \in Ring
  <2>1. super.start \in Nat BY DEF TypeOK
  <2> QED BY <2>1, FirstSlotInRing DEF First
<1>2. CASE j = 1
  BY <1>1, <1>2 DEF Slot
<1>3. CASE j # 1
  <2>1. PICK i \in 1 .. Len(ch) : i = j - 1
    BY <1>3
  <2>2. /\ ch[i] \in Nat /\ Len(disk[ch[i]].list) \in Nat
        /\ After(ch[i]) = ch[i] + 2 + Len(disk[ch[i]].list)
    BY LinkFacts
  <2>3. After(ch[i]) \in Nat /\ After(ch[i]) > 0
    BY ONLY <2>2
  <2>4. Slot(ch, j) = NextSlot(After(ch[i]))
    BY <1>3, <2>1 DEF Slot
  <2> QED BY <1>1, <2>3, <2>4, NextSlotInRing
<1> QED BY <1>2, <1>3

\* The slots of a chained transaction are not apart from it.
LEMMA Inside ==
  ASSUME TypeOK, NEW ch, ch \in Seq(Ring), Links(ch), NEW i \in 1 .. Len(ch),
         NEW a \in Nat, ch[i] <= a, a < After(ch[i])
  PROVE  a \in Ring /\ ~Apart(ch, a)
<1>1. ch[i] \in Nat /\ ch[i] >= 1 /\ After(ch[i]) \in Nat /\ After(ch[i]) <= JB
  BY LinkFacts
<1>2. a \in Ring
  BY <1>1, Addresses DEF Ring
<1>3. ~(a < ch[i]) /\ ~(After(ch[i]) <= a)
  <2>1. PICK c, e : c = ch[i] /\ e = After(ch[i])
    OBVIOUS
  <2>2. c \in Nat /\ e \in Nat /\ c <= a /\ a < e
    BY <1>1, <2>1
  <2>3. ~(a < c) /\ ~(e <= a)
    BY ONLY a \in Nat, <2>2
  <2> QED BY <2>1, <2>3
<1> QED BY <1>2, <1>3 DEF Apart

-----------------------------------------------------------------------------
\* A step that leaves the descriptors and copies of the chain alone.
SameLog(ch) ==
  \A i \in 1 .. Len(ch) :
    /\ disk'[ch[i]] = disk[ch[i]]
    /\ \A m \in 1 .. Len(disk[ch[i]].list) : disk'[ch[i] + m] = disk[ch[i] + m]

\* A step that writes only apart from the chain leaves it as it is.
LEMMA ChainKept ==
  ASSUME TypeOK, NEW ch, ch \in Seq(Ring), Links(ch), super' = super,
         \A a \in Ring : ~Apart(ch, a) => disk'[a] = disk[a]
  PROVE  /\ SameLog(ch) /\ Links(ch)' /\ First' = First /\ End(ch)' = End(ch)
         /\ \A j \in 1 .. Len(ch) + 1 : Slot(ch, j)' = Slot(ch, j)
         /\ \A i \in 1 .. Len(ch) : After(ch[i])' = After(ch[i])
         /\ \A a : Apart(ch, a)' <=> Apart(ch, a)
         /\ Arc(ch) => Arc(ch)'
<1> DEFINE L(i) == Len(disk[ch[i]].list)
<1>1. ASSUME NEW i \in 1 .. Len(ch)
      PROVE  /\ disk'[ch[i]] = disk[ch[i]]
             /\ \A m \in 1 .. L(i) + 1 : disk'[ch[i] + m] = disk[ch[i] + m]
             /\ SealedAt(ch[i], super.seq + i - 1)'
             /\ After(ch[i])' = After(ch[i])
  <2>1. /\ ch[i] \in Ring /\ ch[i] \in Nat /\ ch[i] >= 1
        /\ L(i) \in Nat /\ After(ch[i]) = ch[i] + 2 + L(i) /\ i \in Nat
        /\ disk[ch[i]].list \in Seq(Nat)
    BY LinkFacts
  <2> DEFINE n == L(i)  c == ch[i]
  <2> HIDE DEF L, n, c
  <2>2. ASSUME NEW m \in 0 .. n + 1 PROVE disk'[c + m] = disk[c + m]
    <3>1. c + m \in Nat /\ c <= c + m /\ c + m < After(c)
      BY <2>1 DEF n, c
    <3>2. c + m \in Ring /\ ~Apart(ch, c + m)
      BY <3>1, Inside DEF c
    <3> QED BY <3>2
  <2>3. disk'[c] = disk[c]
    <3>1. c + 0 = c /\ 0 \in 0 .. n + 1
      BY <2>1 DEF n, c
    <3> QED BY <2>2, <3>1
  <2>4. \A m \in 1 .. n + 1 : disk'[c + m] = disk[c + m]
    <3>1. 1 .. n + 1 \subseteq 0 .. n + 1 OBVIOUS
    <3> QED BY <2>2, <3>1
  <2>5. SealedAt(c, super.seq + i - 1)
    BY DEF Links, c
  <2>6. Checksum(disk[c], c)' = Checksum(disk[c], c)
    <3>1. \A m \in 1 .. n : disk'[c + m] = disk[c + m]
      <4>1. 1 .. n \subseteq 1 .. n + 1 BY <2>1 DEF n
      <4> QED BY <2>4, <4>1
    <3>2. n = Len(disk[c].list) BY DEF n, L, c
    <3> QED BY <2>3, <3>1, <3>2 DEF Checksum
  <2>7. disk'[c + 1 + n] = disk[c + 1 + n]
    <3>1. c + 1 + n = c + (n + 1) /\ n + 1 \in 1 .. n + 1 BY <2>1 DEF n, c
    <3> QED BY <2>4, <3>1
  <2>8. SealedAt(c, super.seq + i - 1)'
    <3>1. n = Len(disk[c].list) BY DEF n, L, c
    <3> QED BY <2>3, <2>5, <2>6, <2>7, <3>1 DEF SealedAt
  <2>9. After(c)' = After(c)
    BY <2>3 DEF After
  <2> QED BY <2>3, <2>4, <2>8, <2>9 DEF n, c
<1>2. First' = First
  BY DEF First, FirstSlot
<1>3. Len(ch) \in Nat
  OBVIOUS
<1>4. ASSUME NEW j \in 1 .. Len(ch) + 1 PROVE Slot(ch, j)' = Slot(ch, j)
  <2>1. CASE j = 1
    BY <1>2, <2>1 DEF Slot
  <2>2. CASE j # 1
    <3>1. j - 1 \in 1 .. Len(ch) BY <2>2, <1>3
    <3>2. After(ch[j - 1])' = After(ch[j - 1]) BY <1>1, <3>1
    <3> QED BY <2>2, <3>2 DEF Slot, NextSlot
  <2> QED BY <2>1, <2>2
<1>5. End(ch)' = End(ch)
  BY <1>3, <1>4 DEF End
<1>6. SameLog(ch)
  <2> SUFFICES ASSUME NEW i \in 1 .. Len(ch)
               PROVE  /\ disk'[ch[i]] = disk[ch[i]]
                      /\ \A m \in 1 .. L(i) : disk'[ch[i] + m] = disk[ch[i] + m]
    BY DEF SameLog
  <2>1. L(i) \in Nat BY LinkFacts
  <2>2. 1 .. L(i) \subseteq 1 .. L(i) + 1 BY <2>1
  <2> QED BY <1>1, <2>2
<1>7. Links(ch)'
  <2>1. \A i \in 1 .. Len(ch) : i \in 1 .. Len(ch) + 1 BY <1>3
  <2>2. \A i \in 1 .. Len(ch) : ch[i] = Slot(ch, i) BY DEF Links
  <2>3. \A i \in 1 .. Len(ch) : ch[i] = Slot(ch, i)' BY <1>4, <2>1, <2>2
  <2> QED BY <1>1, <2>3 DEF Links
<1>8. \A i \in 1 .. Len(ch) : After(ch[i])' = After(ch[i])
  BY <1>1
<1>9. \A a : Apart(ch, a)' <=> Apart(ch, a)
  BY <1>8 DEF Apart
<1>10. Arc(ch) => Arc(ch)'
  BY <1>2, <1>5, <1>8 DEF Arc
<1> QED BY <1>2, <1>4, <1>5, <1>6, <1>7, <1>8, <1>9, <1>10

\* Which copy of a block is the newest stays the same.
LEMMA NamesKept ==
  ASSUME NEW ch, SameLog(ch)
  PROVE  /\ \A b, i, m : Newest(ch, b, i, m)' <=> Newest(ch, b, i, m)
         /\ \A b : Unnamed(ch, b)' <=> Unnamed(ch, b)
         /\ \A b, i, m : Newest(ch, b, i, m) => disk'[ch[i] + m] = disk[ch[i] + m]
<1>1. \A i \in 1 .. Len(ch) : disk'[ch[i]] = disk[ch[i]]
  BY DEF SameLog
<1>2. \A i \in 1 .. Len(ch) : \A b : Names(ch[i], b)' <=> Names(ch[i], b)
  BY <1>1 DEF Names
<1>3. \A b : Unnamed(ch, b)' <=> Unnamed(ch, b)
  BY <1>2 DEF Unnamed
<1>4. ASSUME NEW b, NEW i \in 1 .. Len(ch)
      PROVE  (\A j \in i + 1 .. Len(ch) : ~Names(ch[j], b))'
             <=> \A j \in i + 1 .. Len(ch) : ~Names(ch[j], b)
  <2>1. \A j \in i + 1 .. Len(ch) : j \in 1 .. Len(ch)
    OBVIOUS
  <2> QED BY <1>2, <2>1
<1>5. ASSUME NEW b, NEW i, NEW m PROVE Newest(ch, b, i, m)' <=> Newest(ch, b, i, m)
  BY <1>1, <1>4 DEF Newest
<1>6. \A b, i, m : Newest(ch, b, i, m) => disk'[ch[i] + m] = disk[ch[i] + m]
  BY DEF Newest, SameLog
<1> QED BY <1>3, <1>5, <1>6

\* What the log gives stays, if only blocks it names are written.
LEMMA GivesKept ==
  ASSUME NEW ch, SameLog(ch), Gives(ch), stable' = stable,
         \A b \in Home : Unnamed(ch, b) => disk'[b].num = disk[b].num
  PROVE  Gives(ch)'
BY NamesKept DEF Gives

\* What has been applied stays applied.
LEMMA DoneKept ==
  ASSUME NEW ch, NEW j, NEW l, SameLog(ch), Done(ch, j, l),
         \A b \in Home : disk'[b].num = disk[b].num
  PROVE  Done(ch, j, l)'
BY NamesKept DEF Done

-----------------------------------------------------------------------------
\* The log a mount would find, whatever the memory knows of it.
Core(ch) ==
  /\ ch \in Seq(Ring) /\ Links(ch) /\ Arc(ch) /\ Commits(ch)
  /\ ~wrapped => Gives(ch)

\* A step that seals nothing, writes apart from the chain and, unless the
\* transaction in progress has moved, overwrites no block the chain does not name.
LEMMA CoreKept ==
  ASSUME IInv, NEW ch, Core(ch), super' = super, stable' = stable, wrapped => wrapped',
         \A a \in Ring : ~Apart(ch, a) => disk'[a] = disk[a],
         \A a \in Ring : disk'[a].kind = "commit" => disk'[a] = disk[a],
         ~wrapped => \A b \in Home : Unnamed(ch, b) => disk'[b].num = disk[b].num
  PROVE  /\ Core(ch)' /\ SameLog(ch) /\ End(ch)' = End(ch)
         /\ \A j \in 1 .. Len(ch) + 1 : Slot(ch, j)' = Slot(ch, j)
         /\ \A a : Apart(ch, a)' <=> Apart(ch, a)
<1>1. TypeOK /\ ch \in Seq(Ring) /\ Links(ch) /\ Arc(ch) /\ Commits(ch)
  BY DEF Core, IInv
<1>2. /\ SameLog(ch) /\ Links(ch)' /\ End(ch)' = End(ch) /\ Arc(ch)'
      /\ \A j \in 1 .. Len(ch) + 1 : Slot(ch, j)' = Slot(ch, j)
      /\ \A a : Apart(ch, a)' <=> Apart(ch, a)
  BY <1>1, ChainKept
<1>3. Commits(ch)'
  BY <1>1, <1>2 DEF Commits
<1>4. ~wrapped' => Gives(ch)'
  BY <1>2, GivesKept DEF Core
<1> QED BY <1>1, <1>2, <1>3, <1>4 DEF Core

\* A descriptor names a block: a transaction takes three slots at least.
LEMMA ThreeSlots ==
  ASSUME IInv, NEW s \in Ring, NEW n, SealedAt(s, n)
  PROVE  s \in Nat /\ s + 3 <= After(s) /\ After(s) <= JB /\ After(s) \in Nat
<1>1. /\ disk[s].kind = "desc" /\ s + 2 + Len(disk[s].list) <= JB
  BY DEF SealedAt
<1>2. disk[s].list # << >> /\ disk[s] \in Block
  BY <1>1 DEF IInv, DescInv, TypeOK
<1>3. disk[s].list \in Seq(Nat)
  BY <1>2 DEF Block
<1>4. Len(disk[s].list) \in Nat /\ Len(disk[s].list) > 0
  BY <1>2, <1>3
<1>5. s \in Nat /\ JB \in Nat
  BY Addresses DEF Ring
<1> DEFINE len == Len(disk[s].list)
<1>6. After(s) = s + 2 + len /\ len \in Nat /\ len > 0 /\ s + 2 + len <= JB
  BY <1>1, <1>4 DEF After
<1> HIDE DEF len
<1> QED BY <1>5, <1>6

\* Unless it comes round to the log the superblock points to, a transaction
\* that follows the chain, or that moves to slot 1, leaves the chain alone.
LEMMA WriteIsApart ==
  ASSUME IInv, NEW ch, Core(ch), NEW st \in Ring, NEW p \in Nat, st <= p,
         st = End(ch) \/ (st = 1 /\ End(ch) >= JB - 2),
         seq = super.seq + Len(ch), ~Destroys(st, p)
  PROVE  Apart(ch, p)
<1> SUFFICES ASSUME NEW i \in 1 .. Len(ch) PROVE p < ch[i] \/ After(ch[i]) <= p
  BY DEF Apart
<1>1. TypeOK /\ ch \in Seq(Ring) /\ Links(ch) /\ Arc(ch)
  BY DEF Core, IInv
<1>2. Len(ch) \in Nat /\ Len(ch) > 0 /\ 1 \in 1 .. Len(ch)
  BY <1>1
<1>3. super.seq # seq
  <2>1. super.seq \in Nat BY <1>1 DEF TypeOK
  <2> QED BY <1>2, <2>1
<1>4. ch[1] = First /\ First \in Ring /\ SealedAt(First, super.seq + 1 - 1)
  BY <1>1, <1>2 DEF Links, Slot
<1>5. First \in Nat /\ First >= 1 /\ First + 3 <= JB
  <2>1. First + 3 <= After(First) /\ After(First) <= JB /\ After(First) \in Nat
    BY <1>4, ThreeSlots
  <2> QED BY <1>4, <2>1, Addresses DEF Ring
<1>6. ~(st <= First /\ First <= p)
  BY <1>3 DEF Destroys, First
<1>7. ch[i] \in Nat /\ After(ch[i]) \in Nat
  BY <1>1, LinkFacts
<1>8. End(ch) \in Nat /\ st \in Nat
  <2>1. Len(ch) + 1 \in 1 .. Len(ch) + 1 BY <1>2
  <2> QED BY <1>1, <2>1, SlotInRing DEF End, Ring
<1>9. \/ First <= ch[i] /\ After(ch[i]) <= End(ch)
      \/ End(ch) <= First /\ (First <= ch[i] \/ After(ch[i]) <= End(ch))
  BY <1>1 DEF Arc
<1> HIDE DEF First
<1> QED BY <1>5, <1>6, <1>7, <1>8, <1>9, Addresses

\* Behind the chain there is no transaction with the next number.
LEMMA NothingAtEnd ==
  ASSUME IInv, NEW ch, Core(ch)
  PROVE  ~SealedAt(End(ch), super.seq + Len(ch))
<1> SUFFICES ASSUME SealedAt(End(ch), super.seq + Len(ch)) PROVE FALSE OBVIOUS
<1>1. TypeOK /\ ch \in Seq(Ring) /\ Links(ch) /\ Commits(ch)
  BY DEF Core, IInv
<1>2. End(ch) \in Ring
  <2>1. Len(ch) \in Nat BY <1>1
  <2> QED BY <1>1, <2>1, SlotInRing DEF End
<1> DEFINE s == End(ch)  a == s + 1 + Len(disk[s].list)
<1>3. s + 3 <= After(s) /\ After(s) <= JB /\ After(s) \in Nat /\ s \in Nat
  BY <1>2, ThreeSlots
<1>4. a = After(s) - 1
  <2>1. disk[s] \in Block BY <1>1, <1>2 DEF TypeOK
  <2>2. disk[s].list \in Seq(Nat) BY <2>1 DEF Block
  <2> DEFINE len == Len(disk[s].list)
  <2>3. len \in Nat /\ After(s) = s + 2 + len /\ a = s + 1 + len BY <2>2 DEF After
  <2> HIDE DEF len, s, a
  <2> QED BY <1>3, <2>3
<1>5. a \in Ring
  BY <1>3, <1>4, Addresses DEF Ring
<1>6. disk[a].kind = "commit" /\ disk[a].num = super.seq + Len(ch)
  BY DEF SealedAt
<1>7. End(ch) >= JB - 2
  <2>1. super.seq \in Nat /\ Len(ch) \in Nat BY <1>1 DEF TypeOK
  <2> QED BY <1>1, <1>5, <1>6, <2>1 DEF Commits
<1> QED BY <1>3, <1>7, Addresses

-----------------------------------------------------------------------------
(* Logging *)

\* A new copy goes to a slot apart from the chain.
LEMMA LogChain ==
  ASSUME IInv, NEW ch, Chained(ch), NEW b \in Home, NEW st \in Ring,
         op \in {"run", "resume"}, ~Excepted', wrapped' \in BOOLEAN,
         pend # << >> => st = start /\ wrapped' = wrapped,
         pend = << >> => IF wrapped' THEN st = 1 /\ End(ch) >= JB - 2 ELSE st = End(ch),
         st + 1 + Len(pend) \in Ring,
         Log(b, st, st + 1 + Len(pend)), op' = "run"
  PROVE  Chained(ch)'
<1> DEFINE p == st + 1 + Len(pend)
<1>1. /\ disk' = [disk EXCEPT ![p] = Data(writes + 1)]
      /\ pend' = Append(pend, [blk |-> b, pos |-> p])
      /\ start' = st /\ seq' = seq /\ super' = super /\ stable' = stable
      /\ overrun' = (overrun \/ Destroys(st, p))
  BY DEF Log
<1>2. /\ seq = super.seq + Len(ch)
      /\ ~wrapped => start = End(ch)
      /\ wrapped => start = 1 /\ End(ch) >= JB - 2 /\ pend # << >>
      /\ \A i \in 1 .. Len(pend) : Apart(ch, start + i)
      /\ Done(ch, Len(ch) + 1, 1)
  BY DEF Chained, Memory
<1>3. TypeOK /\ Core(ch) /\ Len(ch) \in Nat
  BY DEF IInv, Chained, Core
<1>4. st \in Nat /\ Len(pend) \in Nat /\ st <= p
  <2>1. Len(pend) \in Nat BY <1>3, Typed
  <2> QED BY <2>1 DEF Ring
<1>5. st = End(ch) \/ (st = 1 /\ End(ch) >= JB - 2)
  BY <1>2
<1>6. ~Destroys(st, p)
  BY <1>1 DEF Excepted
<1>7. Apart(ch, p)
  <2>1. p \in Nat BY <1>4
  <2> QED BY <1>2, <1>3, <1>4, <1>5, <1>6, <2>1, WriteIsApart
<1>8. disk \in [Ring \cup Home -> Block]
  BY <1>3 DEF TypeOK
<1>9. \A a \in Ring \cup Home : a # p => disk'[a] = disk[a]
  BY <1>1, <1>8
<1>10. p \in Ring /\ disk'[p] = Data(writes + 1)
  BY <1>1, <1>8
<1> HIDE DEF p
<1>11. /\ Core(ch)' /\ SameLog(ch) /\ End(ch)' = End(ch)
       /\ \A a : Apart(ch, a)' <=> Apart(ch, a)
  <2>1. \A a \in Ring : ~Apart(ch, a) => disk'[a] = disk[a]
    BY <1>7, <1>9
  <2>2. \A a \in Ring : disk'[a].kind = "commit" => disk'[a] = disk[a]
    BY <1>9, <1>10 DEF Data
  <2>3. \A x \in Home : disk'[x].num = disk[x].num
    BY <1>9, <1>10, Addresses
  <2>4. wrapped => wrapped'
    BY <1>2
  <2> QED BY <1>1, <1>3, <2>1, <2>2, <2>3, <2>4, CoreKept
<1>12. Done(ch, Len(ch) + 1, 1)'
  <2>1. \A x \in Home : disk'[x].num = disk[x].num
    BY <1>9, <1>10, Addresses
  <2> QED BY <1>2, <1>11, <2>1, DoneKept
<1>13. \A i \in 1 .. Len(pend') : Apart(ch, st + i)'
  <2>1. Len(pend') = Len(pend) + 1
    <3>1. pend \in Seq([blk : Home, pos : 2 .. JB]) BY <1>3, Typed
    <3> QED BY <1>1, <3>1
  <2> SUFFICES ASSUME NEW i \in 1 .. Len(pend) + 1 PROVE Apart(ch, st + i)
    BY <1>11, <2>1
  <2>2. CASE i = Len(pend) + 1
    <3>1. st + i = p BY <1>4, <2>2 DEF p
    <3> QED BY <1>7, <3>1
  <2>3. CASE i \in 1 .. Len(pend)
    <3>1. pend # << >> BY <2>3
    <3> QED BY <1>2, <2>3, <3>1
  <2> QED BY <1>4, <2>2, <2>3
<1>14. pend' # << >>
  <2>1. pend \in Seq([blk : Home, pos : 2 .. JB]) BY <1>3, Typed
  <2> QED BY <1>1, <2>1
<1>15. /\ ~wrapped' => st = End(ch)
       /\ wrapped' => st = 1 /\ End(ch) >= JB - 2
  BY <1>2
<1>16. Memory(ch)'
  BY <1>1, <1>2, <1>11, <1>12, <1>13, <1>14, <1>15 DEF Memory
<1> QED BY <1>11, <1>16 DEF Chained, Core

\* Writes to other slots leave the descriptors distinct.
LEMMA ListsKept ==
  ASSUME ListsInv, \A a \in Ring : disk'[a].kind = "desc" => disk'[a] = disk[a]
  PROVE  ListsInv'
BY DEF ListsInv

\* The three ways of write_block to log a block.
LEMMA LogCInv ==
  ASSUME IInv, CInv, NEW b \in Home, NEW st \in Ring,
         op \in {"run", "resume"}, wrapped' \in BOOLEAN,
         pend # << >> => st = start /\ wrapped' = wrapped,
         pend = << >> => IF wrapped' THEN st = 1 /\ start >= JB - 2 ELSE st = start,
         spilled' = FALSE => spilled = FALSE /\ st + 1 + Len(pend) \in Ring,
         st + 1 + Len(pend) \in Ring \cup Home, spilled' \in BOOLEAN,
         Log(b, st, st + 1 + Len(pend)), op' = "run"
  PROVE  CInv'
<1> DEFINE p == st + 1 + Len(pend)
<1>1. /\ disk' = [disk EXCEPT ![p] = Data(writes + 1)] /\ mkfss' = mkfss
      /\ overrun' = (overrun \/ Destroys(st, p))
  BY DEF Log
<1>2. ListsInv'
  <2>1. disk \in [Ring \cup Home -> Block] BY DEF IInv, TypeOK
  <2> HIDE DEF p
  <2>2. \A a \in Ring : disk'[a].kind = "desc" => disk'[a] = disk[a]
    BY <1>1, <2>1 DEF Data
  <2> QED BY <2>2, ListsKept DEF CInv
<1>3. SealInv'
  BY DEF SealInv
<1>4. ChainInv'
  <2> SUFFICES ASSUME ~Excepted' PROVE \E ch : Chained(ch)'
    BY DEF ChainInv
  <2>1. ~Excepted /\ p \in Ring
    BY <1>1 DEF Excepted, IInv, TypeOK
  <2>2. PICK ch : Chained(ch)
    BY <2>1 DEF CInv, ChainInv
  <2>3. pend = << >> => start = End(ch)
    BY <2>2 DEF Chained, Memory
  <2>4. Chained(ch)'
    BY <2>1, <2>2, <2>3, LogChain
  <2> QED BY <2>4
<1> QED BY <1>2, <1>3, <1>4 DEF CInv

LEMMA LogFirstCInv == ASSUME IInv, CInv, NEW b \in Home, LogFirst(b) PROVE CInv'
<1>1. /\ op = "run" /\ pend = << >> /\ Log(b, FirstStart, FirstStart + 1)
      /\ wrapped' = Wraps /\ op' = op /\ spilled' = spilled
  BY DEF LogFirst
<1>2. start \in Nat /\ start >= 1 /\ start <= JB - 1
  BY Typed DEF IInv
<1>3. /\ FirstStart \in Ring /\ FirstStart + 1 \in Ring
      /\ Wraps \in BOOLEAN /\ FirstStart = (IF Wraps THEN 1 ELSE start)
      /\ Wraps => start >= JB - 2
  BY <1>2, Addresses DEF FirstStart, Wraps, Ring
<1>4. Len(pend) = 0 /\ FirstStart \in Nat
  BY <1>1, <1>3 DEF Ring
<1>5. FirstStart + 1 + Len(pend) = FirstStart + 1 /\ FirstStart + 1 \in Ring \cup Home
  BY <1>3, <1>4
<1>6. spilled' \in BOOLEAN /\ (spilled' = FALSE => spilled = FALSE)
  BY <1>1 DEF IInv, TypeOK
<1>7. /\ IF wrapped' THEN FirstStart = 1 /\ start >= JB - 2 ELSE FirstStart = start
      /\ wrapped' \in BOOLEAN
  BY <1>1, <1>3
<1> HIDE DEF FirstStart, Wraps
<1>8. Log(b, FirstStart, FirstStart + 1 + Len(pend)) /\ op' = "run" /\ op \in {"run", "resume"}
  BY <1>1, <1>5
<1> QED BY <1>1, <1>3, <1>5, <1>6, <1>7, <1>8, LogCInv

LEMMA LogNextCInv == ASSUME IInv, CInv, NEW b \in Home, LogNext(b) PROVE CInv'
<1>1. /\ op = "run" /\ pend # << >> /\ ~Full
      /\ Log(b, start, start + 1 + Len(pend))
      /\ op' = op /\ wrapped' = wrapped /\ spilled' = spilled
  BY DEF LogNext
<1>2. start \in Nat /\ start >= 1 /\ Len(pend) \in Nat /\ start \in Ring
  BY Typed DEF IInv, TypeOK
<1>3. start + 1 + Len(pend) \in Ring
  BY <1>1, <1>2, Addresses DEF Full, Ring
<1>4. /\ wrapped' \in BOOLEAN /\ spilled' \in BOOLEAN
      /\ spilled' = FALSE => spilled = FALSE
  BY <1>1 DEF IInv, TypeOK
<1> QED BY <1>1, <1>2, <1>3, <1>4, LogCInv

LEMMA LogForcedCInv == ASSUME IInv, CInv, LogForced PROVE CInv'
<1>1. /\ op = "resume" /\ Log(waiting, start, start + 1) /\ op' = "run"
      /\ wrapped' = FALSE
      /\ spilled' = (spilled \/ start + 2 > JB - 1)
  BY DEF LogForced
<1>2. waiting \in Home /\ pend = << >> /\ start \in Ring /\ spilled \in BOOLEAN
  BY <1>1 DEF IInv, OpInv, TypeOK
<1>3. Len(pend) = 0 /\ start \in Nat /\ start >= 1 /\ start <= JB - 1
  BY <1>2, Addresses DEF Ring
<1>4. start + 1 + Len(pend) = start + 1 /\ start + 1 \in Ring \cup Home
  BY <1>3, Addresses DEF Ring
<1>5. spilled' = FALSE => spilled = FALSE /\ start + 1 \in Ring
  <2> SUFFICES ASSUME spilled' = FALSE PROVE spilled = FALSE /\ start + 1 \in Ring
    OBVIOUS
  <2>1. spilled = FALSE /\ ~(start + 2 > JB - 1)
    BY <1>1, <1>2
  <2> QED BY <1>3, <2>1, Addresses DEF Ring
<1>6. spilled' \in BOOLEAN /\ Log(waiting, start, start + 1 + Len(pend))
  BY <1>1, <1>2, <1>4
<1> QED BY <1>1, <1>2, <1>4, <1>5, <1>6, LogCInv

LEMMA RelogCInv == ASSUME IInv, CInv, NEW b \in Home, Relog(b) PROVE CInv'
<1>1. PICK l \in Logged(b) : disk' = [disk EXCEPT ![pend[l].pos] = Data(writes + 1)]
  BY DEF Relog
<1>2. /\ op = "run"
      /\ UNCHANGED <<super, memVars, opVars, stable, prev, flagVars, crashes, mkfss>>
  BY DEF Relog
<1>3. l \in 1 .. Len(pend) /\ pend[l].pos = start + l
  BY DEF Logged, IInv, PendInv
<1> DEFINE p == start + l
<1>4. disk \in [Ring \cup Home -> Block] /\ disk' = [disk EXCEPT ![p] = Data(writes + 1)]
  BY <1>1, <1>3 DEF IInv, TypeOK
<1>5. UNCHANGED <<super, start, seq, pend, op, stable, wrapped, overrun, spilled, mkfss>>
  BY <1>2 DEF memVars, opVars, flagVars
<1> HIDE DEF p
<1>6. ListsInv'
  <2>1. \A a \in Ring : disk'[a].kind = "desc" => disk'[a] = disk[a]
    BY <1>4 DEF Data
  <2> QED BY <2>1, ListsKept DEF CInv
<1>7. SealInv'
  BY <1>2, <1>5 DEF SealInv
<1>8. ChainInv'
  <2> SUFFICES ASSUME ~Excepted' PROVE \E ch : Chained(ch)'
    BY DEF ChainInv
  <2>1. ~Excepted
    BY <1>5 DEF Excepted
  <2>2. PICK ch : Chained(ch)
    BY <2>1 DEF CInv, ChainInv
  <2>3. /\ Apart(ch, p) /\ Done(ch, Len(ch) + 1, 1) /\ Core(ch) /\ Memory(ch)
    BY <1>2, <1>3, <2>2 DEF Chained, Memory, Core, p
  <2>4. p \in Ring
    <3>1. pend # << >> /\ ~spilled BY <1>3, <2>1 DEF Excepted
    <3> QED BY <1>3, <3>1, CopiesOnDisk DEF p
  <2>5. \A x \in Home : disk'[x].num = disk[x].num
    BY <1>4, <2>4, Addresses
  <2>6. /\ Core(ch)' /\ SameLog(ch) /\ End(ch)' = End(ch)
        /\ \A a : Apart(ch, a)' <=> Apart(ch, a)
    <3>1. \A a \in Ring : ~Apart(ch, a) => disk'[a] = disk[a]
      BY <1>4, <2>3
    <3>2. \A a \in Ring : disk'[a].kind = "commit" => disk'[a] = disk[a]
      BY <1>4 DEF Data
    <3> QED BY <1>5, <2>3, <2>5, <3>1, <3>2, CoreKept
  <2>7. Done(ch, Len(ch) + 1, 1)'
    BY <2>3, <2>5, <2>6, DoneKept
  <2>8. Memory(ch)'
    BY <1>2, <1>5, <2>3, <2>6, <2>7 DEF Memory
  <2> QED BY <2>6, <2>8 DEF Chained, Core
<1> QED BY <1>6, <1>7, <1>8 DEF CInv

\* A step that writes nothing and only moves to the commit.
LEMMA QuietCInv ==
  ASSUME IInv, CInv, op = "run", op' = "desc",
         UNCHANGED <<disk, super, start, seq, pend, stable, img, wrapped, overrun, spilled, mkfss>>
  PROVE  CInv'
<1>1. ListsInv' /\ SealInv'
  BY DEF CInv, ListsInv, SealInv
<1>2. ASSUME NEW ch, Chained(ch) PROVE Chained(ch)'
  <2>1. Core(ch) /\ Memory(ch)
    BY <1>2 DEF Chained, Core
  <2>2. /\ Core(ch)' /\ SameLog(ch) /\ End(ch)' = End(ch)
        /\ \A a : Apart(ch, a)' <=> Apart(ch, a)
    BY <2>1, CoreKept
  <2>3. Done(ch, Len(ch) + 1, 1)'
    BY <2>1, <2>2, DoneKept DEF Memory
  <2>4. Memory(ch)'
    BY <2>1, <2>2, <2>3 DEF Memory
  <2> QED BY <2>2, <2>4 DEF Chained, Core
<1>3. ~Excepted' => ~Excepted
  BY DEF Excepted
<1> QED BY <1>1, <1>2, <1>3 DEF CInv, ChainInv

LEMMA WriteBlockCInv == ASSUME IInv, CInv, NEW b \in Home, WriteBlock(b) PROVE CInv'
<1>1. CASE Relog(b) BY <1>1, RelogCInv
<1>2. CASE LogFirst(b) BY <1>2, LogFirstCInv
<1>3. CASE LogNext(b) BY <1>3, LogNextCInv
<1>4. CASE ForceCommit(b)
  BY <1>4, QuietCInv DEF ForceCommit, diskVars, memVars, imgVars, flagVars, countVars
<1> QED BY <1>1, <1>2, <1>3, <1>4 DEF WriteBlock

LEMMA CommitCInv == ASSUME IInv, CInv, Commit PROVE CInv'
BY QuietCInv DEF Commit, diskVars, memVars, imgVars, flagVars, countVars

-----------------------------------------------------------------------------
(* Commit *)

LEMMA WriteDescCInv == ASSUME IInv, CInv, WriteDesc PROVE CInv'
<1>1. /\ op = "desc" /\ op' = "seal"
      /\ disk' = [disk EXCEPT ![start] = Desc(seq, Targets)]
      /\ overrun' = (overrun \/ Destroys(start, start))
      /\ UNCHANGED <<super, start, seq, pend, stable, wrapped, spilled, mkfss>>
  BY DEF WriteDesc, memVars, imgVars, countVars
<1>2. TypeOK /\ start \in Ring /\ pend # << >> /\ start \in Nat
  BY <1>1, Addresses DEF IInv, TypeOK, OpInv
<1>3. disk'[start] = Desc(seq, Targets) /\ \A a \in Ring \cup Home : a # start => disk'[a] = disk[a]
  BY <1>1, <1>2 DEF TypeOK
<1>4. Targets' = Targets /\ Len(Targets) = Len(pend)
  <2>1. Targets' = Targets BY <1>1 DEF Targets, Count
  <2> QED BY <1>2, <2>1, TargetsType
<1>5. ListsInv'
  <2> SUFFICES ASSUME NEW a \in Ring, disk'[a].kind = "desc",
                      NEW m \in 1 .. Len(disk'[a].list), NEW l \in 1 .. Len(disk'[a].list),
                      disk'[a].list[m] = disk'[a].list[l]
               PROVE  m = l
    BY DEF ListsInv
  <2>1. CASE a # start
    BY <1>3, <2>1 DEF CInv, ListsInv
  <2>2. CASE a = start
    <3>1. disk'[a].list = Targets BY <1>3, <2>2 DEF Desc
    <3>2. m \in 1 .. Len(pend) /\ l \in 1 .. Len(pend) /\ pend[m].blk = pend[l].blk
      BY <1>4, <3>1 DEF Targets, Count
    <3> QED BY <3>2 DEF IInv, PendInv
  <2> QED BY <2>1, <2>2
<1>6. SealInv'
  BY <1>1, <1>3, <1>4 DEF SealInv
<1>7. ChainInv'
  <2> SUFFICES ASSUME ~Excepted' PROVE \E ch : Chained(ch)'
    BY DEF ChainInv
  <2>1. ~Excepted /\ ~Destroys(start, start)
    BY <1>1 DEF Excepted
  <2>2. PICK ch : Chained(ch)
    BY <2>1 DEF CInv, ChainInv
  <2>3. Core(ch) /\ Memory(ch) /\ Done(ch, Len(ch) + 1, 1)
    BY <1>1, <2>2 DEF Chained, Core, Memory
  <2>4. Apart(ch, start)
    <3>1. /\ seq = super.seq + Len(ch)
          /\ start = End(ch) \/ (start = 1 /\ End(ch) >= JB - 2)
      BY <1>1, <2>3 DEF Memory
    <3>2. start <= start BY <1>2
    <3> QED BY <1>2, <2>1, <2>3, <3>1, <3>2, WriteIsApart
  <2>5. \A x \in Home : disk'[x].num = disk[x].num
    BY <1>2, <1>3, Addresses
  <2>6. /\ Core(ch)' /\ SameLog(ch) /\ End(ch)' = End(ch)
        /\ \A a : Apart(ch, a)' <=> Apart(ch, a)
    <3>1. \A a \in Ring : ~Apart(ch, a) => disk'[a] = disk[a]
      BY <1>3, <2>4
    <3>2. \A a \in Ring : disk'[a].kind = "commit" => disk'[a] = disk[a]
      BY <1>3 DEF Desc
    <3> QED BY <1>1, <2>3, <2>5, <3>1, <3>2, CoreKept
  <2>7. Done(ch, Len(ch) + 1, 1)'
    BY <2>3, <2>5, <2>6, DoneKept
  <2>8. Memory(ch)'
    BY <1>1, <2>3, <2>6, <2>7 DEF Memory
  <2> QED BY <2>6, <2>8 DEF Chained, Core
<1> QED BY <1>5, <1>6, <1>7 DEF CInv

\* The seal of a transaction that has moved to slot 1 adds nothing to what the
\* superblock leads to.
LEMMA WrappedSeal ==
  ASSUME IInv, NEW ch, Chained(ch), WriteSeal, wrapped, ~Excepted'
  PROVE  Chained(ch)'
<1> DEFINE c == Seal(seq, Checksum(Desc(seq, Targets), start))
<1>1. /\ op = "seal" /\ op' = "apply"
      /\ disk' = [disk EXCEPT ![SealSlot] = c]
      /\ overrun' = (overrun \/ Destroys(start, SealSlot))
      /\ UNCHANGED <<super, start, seq, pend, wrapped, spilled, mkfss>>
  BY DEF WriteSeal, memVars, countVars
<1>2. c.kind = "commit" /\ c.num = seq
  BY DEF Seal
<1> HIDE DEF c
<1>3. TypeOK /\ start \in Ring /\ start \in Nat /\ pend # << >> /\ ~spilled
  BY <1>1, Addresses DEF IInv, TypeOK, OpInv, Excepted
<1>4. SealSlot \in Ring /\ SealSlot \in Nat /\ start <= SealSlot
  <2>1. SealSlot \in Ring /\ Len(pend) \in Nat BY <1>3, CopiesOnDisk, Typed
  <2> QED BY <1>3, <2>1, Addresses DEF SealSlot, Count
<1>5. /\ Core(ch) /\ seq = super.seq + Len(ch) /\ start = 1 /\ End(ch) >= JB - 2
  BY <1>1 DEF Chained, Core, Memory
<1>6. Apart(ch, SealSlot)
  <2>1. ~Destroys(start, SealSlot) BY <1>1 DEF Excepted
  <2> QED BY <1>3, <1>4, <1>5, <2>1, WriteIsApart
<1>7. disk'[SealSlot] = c /\ \A a \in Ring \cup Home : a # SealSlot => disk'[a] = disk[a]
  BY <1>1, <1>3, <1>4 DEF TypeOK
<1>8. TypeOK /\ ch \in Seq(Ring) /\ Links(ch) /\ Arc(ch) /\ Commits(ch)
  BY <1>3, <1>5 DEF Core
<1>9. Links(ch)' /\ Arc(ch)' /\ End(ch)' = End(ch)
  <2>1. \A a \in Ring : ~Apart(ch, a) => disk'[a] = disk[a]
    BY <1>6, <1>7
  <2> QED BY <1>1, <1>8, <2>1, ChainKept
<1>10. Commits(ch)'
  <2> SUFFICES ASSUME NEW a \in Ring, disk'[a].kind = "commit"
               PROVE  \/ disk'[a].num < super.seq + Len(ch)
                      \/ disk'[a].num = super.seq + Len(ch) /\ End(ch) >= JB - 2
    BY <1>1, <1>9 DEF Commits
  <2>1. CASE a = SealSlot BY <1>2, <1>5, <1>7, <2>1
  <2>2. CASE a # SealSlot BY <1>7, <1>8, <2>2 DEF Commits
  <2> QED BY <2>1, <2>2
<1>11. Memory(ch)'
  BY <1>1, <1>5, <1>9 DEF Memory
<1> QED BY <1>1, <1>8, <1>9, <1>10, <1>11 DEF Chained

\* One transaction more: the same slots, and the next begins behind it.
LEMMA Extended ==
  ASSUME NEW ch, ch \in Seq(Ring), NEW s \in Ring, NEW c2, c2 = Append(ch, s)
  PROVE  /\ c2 \in Seq(Ring) /\ Len(ch) \in Nat /\ Len(c2) = Len(ch) + 1
         /\ c2[Len(ch) + 1] = s
         /\ \A i \in 1 .. Len(ch) : c2[i] = ch[i]
         /\ \A j \in 1 .. Len(ch) + 1 : Slot(c2, j)' = Slot(ch, j)'
         /\ End(c2)' = NextSlot(After(s)')
<1>1. /\ c2 \in Seq(Ring) /\ Len(ch) \in Nat /\ Len(c2) = Len(ch) + 1
      /\ c2[Len(ch) + 1] = s
      /\ \A i \in 1 .. Len(ch) : c2[i] = ch[i]
  OBVIOUS
<1>2. ASSUME NEW j \in 1 .. Len(ch) + 1 PROVE Slot(c2, j)' = Slot(ch, j)'
  <2>1. j = 1 \/ j - 1 \in 1 .. Len(ch) BY <1>1
  <2> QED BY <1>1, <2>1 DEF Slot
<1>3. End(c2)' = NextSlot(After(s)')
  <2>1. Len(c2) + 1 # 1 /\ Len(c2) + 1 - 1 = Len(ch) + 1 BY <1>1
  <2> QED BY <1>1, <2>1 DEF End, Slot, NextSlot
<1> QED BY <1>1, <1>2, <1>3

\* The last transaction of the chain gets a place on the arc.  The n chained
\* transactions lie in [a[i], b[i]), the first of them at F; the new one is in
\* [T, S + 1), and the next begins at T2.
ArcData(n, F, T, T2, S, a, b, a2, b2) ==
  /\ n \in Nat /\ F \in Ring /\ T \in Ring /\ S \in Ring /\ T < S
  /\ \A i \in 1 .. n : a[i] \in Nat /\ b[i] \in Nat /\ a[i] < b[i]
  /\ n = 0 => F = T
  /\ n > 0 => a[1] = F /\ ~(T <= F /\ F <= S)
  /\ \A i \in 1 .. n : a2[i] = a[i] /\ b2[i] = b[i]
  /\ a2[n + 1] = T /\ b2[n + 1] = S + 1 /\ T2 = NextSlot(S + 1)
  /\ \/ \A i \in 1 .. n : F <= a[i] /\ b[i] <= T
     \/ T <= F /\ \A i \in 1 .. n : F <= a[i] \/ b[i] <= T

\* The chain with one transaction more still takes one turn of the ring.
LEMMA ArcExtended ==
  ASSUME NEW n, NEW F, NEW T, NEW T2, NEW S, NEW a, NEW b, NEW a2, NEW b2,
         ArcData(n, F, T, T2, S, a, b, a2, b2)
  PROVE  \/ \A i \in 1 .. n + 1 : F <= a2[i] /\ b2[i] <= T2
         \/ T2 <= F /\ \A i \in 1 .. n + 1 : F <= a2[i] \/ b2[i] <= T2
<1> USE DEF ArcData
<1>1. F \in Nat /\ T \in Nat /\ S \in Nat /\ F >= 1 /\ S <= JB - 1 /\ JB \in Nat /\ F <= JB - 1
  BY Addresses DEF Ring
<1>2. IF S = JB - 1 THEN T2 = 1 ELSE T2 = S + 1
  BY <1>1 DEF NextSlot
<1>3. n \in Nat /\ 1 .. n + 1 = 1 .. n \cup {n + 1} OBVIOUS
<1>4. CASE \A i \in 1 .. n : F <= a[i] /\ b[i] <= T
  <2>1. F <= T
    <3>1. CASE n = 0 BY <1>1, <3>1
    <3>2. CASE n > 0
      <4>1. 1 \in 1 .. n BY <3>2
      <4>2. a[1] = F /\ a[1] < b[1] /\ b[1] <= T /\ b[1] \in Nat /\ a[1] \in Nat BY <1>4, <3>2, <4>1
      <4> HIDE DEF NextSlot
      <4> QED BY <1>1, <4>2
    <3> QED BY <3>1, <3>2
  <2>2. CASE S = JB - 1
    <3>1. \A i \in 1 .. n + 1 : F <= a2[i] BY <1>3, <1>4, <2>1
    <3>2. T2 <= F BY <1>1, <1>2, <2>2
    <3> QED BY <3>1, <3>2
  <2>3. CASE S # JB - 1
    <3>1. T2 = S + 1 BY <1>2, <2>3
    <3>2. \A i \in 1 .. n : F <= a2[i] /\ b2[i] <= T2 BY <1>1, <1>4, <3>1
    <3>3. F <= a2[n + 1] /\ b2[n + 1] <= T2 BY <1>1, <2>1, <3>1
    <3> QED BY <1>3, <3>2, <3>3
  <2> QED BY <2>2, <2>3
<1>5. CASE n > 0 /\ T <= F /\ \A i \in 1 .. n : F <= a[i] \/ b[i] <= T
  <2>1. S < F BY <1>1, <1>5
  <2>2. T2 = S + 1 BY <1>1, <1>2, <2>1
  <2>3. T2 <= F BY <1>1, <2>1, <2>2
  <2>4. \A i \in 1 .. n : F <= a2[i] \/ b2[i] <= T2 BY <1>1, <1>5, <2>2
  <2>5. b2[n + 1] <= T2 BY <1>1, <2>2
  <2> QED BY <1>3, <2>3, <2>4, <2>5
<1> QED BY <1>4, <1>5

\* The seal makes the transaction the last one of the chain.
LEMMA SealExtends ==
  ASSUME IInv, SealInv, NEW ch, Chained(ch), WriteSeal, ~wrapped, ~Excepted'
  PROVE  \E c2 : Chained(c2)'
<1> DEFINE c == Seal(seq, Checksum(Desc(seq, Targets), start))
           n == Len(ch)
<1>s. PICK s : s = start OBVIOUS
<1>e. PICK c2 : c2 = Append(ch, s) OBVIOUS
<1>1. /\ op = "seal" /\ op' = "apply" /\ stable' = img
      /\ disk' = [disk EXCEPT ![SealSlot] = c]
      /\ overrun' = (overrun \/ Destroys(start, SealSlot))
      /\ UNCHANGED <<super, start, seq, pend, wrapped, spilled, mkfss>>
  BY DEF WriteSeal, memVars, countVars
<1>2. c.kind = "commit" /\ c.num = seq /\ c.list = Checksum(Desc(seq, Targets), start)
  BY DEF Seal
<1> HIDE DEF c
<1>3. /\ TypeOK /\ start \in Ring /\ start \in Nat /\ start >= 1 /\ pend # << >> /\ ~spilled
      /\ seq \in Nat /\ super.seq \in Nat
  <2>1. TypeOK /\ pend # << >> /\ ~spilled
    BY <1>1 DEF IInv, OpInv, Excepted
  <2>2. start \in Ring /\ seq \in Nat /\ super.seq \in Nat
    BY <2>1 DEF TypeOK
  <2> QED BY <2>1, <2>2, Addresses DEF Ring
<1>4. /\ SealSlot \in Ring /\ SealSlot \in Nat /\ start < SealSlot
      /\ SealSlot = start + 1 + Len(pend) /\ Len(pend) \in Nat /\ Len(pend) > 0
      /\ Len(pend) <= MAX_PEND
      /\ \A m \in 1 .. Len(pend) : start + m \in Ring /\ start + m < SealSlot
  <2>1. SealSlot \in Ring /\ Len(pend) \in Nat /\ Len(pend) > 0 /\ Len(pend) <= MAX_PEND
    BY <1>3, CopiesOnDisk, Typed
  <2>2. \A m \in 1 .. Len(pend) : start + m \in Ring /\ start + m < SealSlot
    BY <1>3, CopiesOnDisk
  <2>3. SealSlot = start + 1 + Len(pend) BY DEF SealSlot, Count
  <2> QED BY <1>3, <2>1, <2>2, <2>3
<1>5. /\ Core(ch) /\ seq = super.seq + n /\ start = End(ch) /\ Done(ch, n + 1, 1)
  BY <1>1 DEF Chained, Core, Memory
<1>6. /\ ch \in Seq(Ring) /\ Links(ch) /\ Arc(ch) /\ Commits(ch) /\ n \in Nat
  BY <1>5 DEF Core
<1>7. ~Destroys(start, SealSlot)
  BY <1>1 DEF Excepted
<1>8. Apart(ch, SealSlot)
  <2>1. start <= SealSlot BY <1>4, <1>3
  <2> QED BY <1>3, <1>4, <1>5, <1>7, <2>1, WriteIsApart
<1>9. disk'[SealSlot] = c /\ \A a \in Ring \cup Home : a # SealSlot => disk'[a] = disk[a]
  BY <1>1, <1>3, <1>4 DEF TypeOK
<1>10. /\ Links(ch)' /\ End(ch)' = start /\ SameLog(ch) /\ First' = First
       /\ \A j \in 1 .. n + 1 : Slot(ch, j)' = Slot(ch, j)
       /\ \A i \in 1 .. n : After(ch[i])' = After(ch[i])
  <2>1. \A a \in Ring : ~Apart(ch, a) => disk'[a] = disk[a]
    BY <1>8, <1>9
  <2> QED BY <1>1, <1>3, <1>5, <1>6, <2>1, ChainKept
<1>11. /\ c2 \in Seq(Ring) /\ Len(c2) = n + 1 /\ c2[n + 1] = start
       /\ \A i \in 1 .. n : c2[i] = ch[i]
       /\ \A j \in 1 .. n + 1 : Slot(c2, j)' = Slot(ch, j)'
       /\ End(c2)' = NextSlot(After(s)')
  <2>1. s \in Ring BY <1>s, <1>3
  <2>2. ch \in Seq(Ring) BY <1>6
  <2> HIDE DEF n
  <2>3. c2 \in Seq(Ring) /\ Len(c2) = Len(ch) + 1 /\ c2[Len(ch) + 1] = s
        /\ \A i \in 1 .. Len(ch) : c2[i] = ch[i]
    BY ONLY <1>e, <2>1, <2>2, Extended
  <2>4. \A j \in 1 .. Len(ch) + 1 : Slot(c2, j)' = Slot(ch, j)'
    BY ONLY <1>e, <2>1, <2>2, Extended
  <2>5. End(c2)' = NextSlot(After(s)')
    BY ONLY <1>e, <2>1, <2>2, Extended
  <2> QED BY <2>3, <2>4, <2>5, <1>s DEF n
<1>12. disk[start] = Desc(seq, Targets) /\ disk'[start] = disk[start] /\ Len(Targets) = Len(pend)
       /\ disk[start].list = Targets /\ disk[start].kind = "desc" /\ disk[start].num = seq
  <2>1. disk[start] = Desc(seq, Targets) BY <1>1, <1>3 DEF SealInv
  <2>2. disk'[start] = disk[start] BY <1>3, <1>4, <1>9
  <2>3. Len(Targets) = Len(pend) BY <1>3, TargetsType
  <2> QED BY <2>1, <2>2, <2>3 DEF Desc
<1>13. After(s)' = SealSlot + 1
  <2>1. After(s)' = start + 2 + Len(pend) BY <1>s, <1>12 DEF After
  <2> QED BY <1>3, <1>4, <2>1
<1>14. \A m \in 1 .. Len(pend) : disk'[start + m] = disk[start + m]
  <2>1. \A m \in 1 .. Len(pend) : start + m # SealSlot BY <1>4, <1>3 DEF Ring
  <2> QED BY <1>4, <1>9, <2>1
<1>15. SealedAt(start, seq)'
  <2>1. /\ disk'[start].kind = "desc" /\ disk'[start].num = seq
        /\ disk'[start].list = Targets /\ Len(disk'[start].list) = Len(pend)
    BY <1>12
  <2>2. start + 2 <= JB /\ start + 2 + Len(pend) <= JB
    BY <1>3, <1>4, Addresses DEF Ring
  <2>3. start + 1 + Len(disk'[start].list) = SealSlot
    BY <1>4, <2>1
  <2>4. Checksum(disk[start], start)' = Checksum(Desc(seq, Targets), start)
    <3>1. disk'[start] = Desc(seq, Targets) BY <1>12
    <3>2. \A m \in 1 .. Len(Targets) : disk'[start + m] = disk[start + m] BY <1>12, <1>14
    <3>3. Desc(seq, Targets).list = Targets BY DEF Desc
    <3>4. [i \in 1 .. Len(Targets) |-> Copy(disk'[start + i])]
          = [i \in 1 .. Len(Targets) |-> Copy(disk[start + i])]
      BY <3>2
    <3>5. start' = start BY <1>1
    <3>6. Checksum(disk[start], start)'
          = Targets \o [i \in 1 .. Len(Targets) |-> Copy(disk'[start + i])]
      BY <3>1, <3>3, <3>5 DEF Checksum
    <3>7. Checksum(Desc(seq, Targets), start)
          = Targets \o [i \in 1 .. Len(Targets) |-> Copy(disk[start + i])]
      BY <3>3 DEF Checksum
    <3> QED BY <3>4, <3>6, <3>7
  <2>5. start' = start /\ seq' = seq
    BY <1>1
  <2> QED BY <1>2, <1>4, <1>9, <2>1, <2>2, <2>3, <2>4, <2>5 DEF SealedAt
<1>16. Links(c2)'
  <2> SUFFICES ASSUME NEW i \in 1 .. n + 1
               PROVE  c2[i] = Slot(c2, i)' /\ SealedAt(c2[i], super.seq + i - 1)'
    BY <1>11 DEF Links
  <2>1. Slot(c2, i)' = Slot(ch, i) BY <1>10, <1>11
  <2>2. CASE i \in 1 .. n
    <3>1. c2[i] = ch[i] BY <1>11, <2>2
    <3>2. ch[i] = Slot(ch, i) BY <1>6, <2>2 DEF Links
    <3>3. SealedAt(ch[i], super.seq + i - 1)' BY <1>10, <2>2 DEF Links
    <3> QED BY <2>1, <3>1, <3>2, <3>3
  <2>3. CASE i = n + 1
    <3>1. c2[i] = start /\ Slot(ch, i) = start BY <1>5, <1>11, <2>3 DEF End
    <3>2. super'.seq + i - 1 = seq BY <1>1, <1>3, <1>5, <1>6, <2>3
    <3> QED BY <1>15, <2>1, <3>1, <3>2, <1>1, <1>s
  <2> QED BY <1>6, <2>2, <2>3
<1>17. Arc(c2)'
  <2> DEFINE a == [i \in 1 .. n |-> ch[i]]
             b == [i \in 1 .. n |-> After(ch[i])]
             a2 == [i \in 1 .. n + 1 |-> c2[i]]
             b2 == [i \in 1 .. n + 1 |-> After(c2[i])']
  <2>1. ASSUME NEW i \in 1 .. n PROVE a[i] \in Nat /\ b[i] \in Nat /\ a[i] < b[i]
    <3>1. ch[i] \in Nat /\ After(ch[i]) \in Nat /\ Len(disk[ch[i]].list) \in Nat
          /\ After(ch[i]) = ch[i] + 2 + Len(disk[ch[i]].list)
      BY <1>3, <1>6, LinkFacts
    <3> QED BY <3>1
  <2>2. First \in Ring /\ End(ch) \in Ring
    BY <1>3, <1>6, SlotInRing DEF End
  <2>3. n = 0 => First = start
    BY <1>5 DEF End, Slot
  <2>4. n > 0 => a[1] = First
    <3>1. ASSUME n > 0 PROVE a[1] = First
      <4>1. 1 \in 1 .. n BY <1>6, <3>1
      <4> QED BY <1>6, <4>1 DEF Links, Slot
    <3> QED BY <3>1
  <2>5. \A i \in 1 .. n : a2[i] = a[i] /\ b2[i] = b[i]
    BY <1>6, <1>10, <1>11
  <2>6. a2[n + 1] = start /\ b2[n + 1] = SealSlot + 1
    BY <1>6, <1>11, <1>13, <1>s
  <2>7. End(c2)' = NextSlot(SealSlot + 1)
    BY <1>11, <1>13
  <2>8. n > 0 => ~(start <= First /\ First <= SealSlot)
    <3>1. n > 0 => super.seq # seq BY <1>3, <1>5, <1>6
    <3> QED BY <1>7, <3>1 DEF Destroys, First
  <2>9. \/ \A i \in 1 .. n : First <= a[i] /\ b[i] <= start
        \/ start <= First /\ \A i \in 1 .. n : First <= a[i] \/ b[i] <= start
    BY <1>5, <1>6 DEF Arc
  <2>10. \/ \A i \in 1 .. n + 1 : First <= a2[i] /\ b2[i] <= End(c2)'
         \/ End(c2)' <= First /\ \A i \in 1 .. n + 1 : First <= a2[i] \/ b2[i] <= End(c2)'
    <3>1. n \in Nat /\ First \in Ring /\ start \in Ring /\ SealSlot \in Ring /\ start < SealSlot
      BY <1>3, <1>4, <1>6, <2>2
    <3> HIDE DEF n, a, b, a2, b2
    <3>2. ArcData(n, First, start, End(c2)', SealSlot, a, b, a2, b2)
      BY ONLY <2>1, <2>3, <2>4, <2>5, <2>6, <2>7, <2>8, <2>9, <3>1 DEF ArcData
    <3> QED BY ONLY <3>2, ArcExtended
  <2>11. \A i \in 1 .. n + 1 : a2[i] = c2[i] /\ b2[i] = After(c2[i])'
    OBVIOUS
  <2> HIDE DEF a, b, a2, b2
  <2>12. CASE \A i \in 1 .. n + 1 : First <= a2[i] /\ b2[i] <= End(c2)'
    <3>1. \A i \in 1 .. n + 1 : First <= c2[i] /\ After(c2[i])' <= End(c2)'
      BY <2>11, <2>12
    <3> QED BY <1>10, <1>11, <3>1 DEF Arc
  <2>13. CASE End(c2)' <= First /\ \A i \in 1 .. n + 1 : First <= a2[i] \/ b2[i] <= End(c2)'
    <3>1. \A i \in 1 .. n + 1 : First <= c2[i] \/ After(c2[i])' <= End(c2)'
      BY <2>11, <2>13
    <3> QED BY <1>10, <1>11, <2>13, <3>1 DEF Arc
  <2> QED BY <2>10, <2>12, <2>13
<1>18. Commits(c2)'
  <2> SUFFICES ASSUME NEW a \in Ring, disk'[a].kind = "commit"
               PROVE  disk'[a].num < super.seq + (n + 1)
    BY <1>1, <1>11 DEF Commits
  <2>1. CASE a = SealSlot BY <1>2, <1>3, <1>5, <1>6, <1>9, <2>1
  <2>2. CASE a # SealSlot
    <3>1. disk'[a] = disk[a] BY <1>9, <2>2
    <3>2. disk[a].num \in Nat BY <1>3 DEF TypeOK, Block
    <3>3. disk[a].num < super.seq + n \/ disk[a].num = super.seq + n
      BY <1>6, <3>1 DEF Commits
    <3> QED BY <1>3, <1>6, <3>1, <3>2, <3>3
  <2> QED BY <2>1, <2>2
<1>19. \A b \in Home : disk'[b] = disk[b]
  <2>1. \A b \in Home : b # SealSlot BY <1>4, Addresses
  <2> QED BY <1>9, <2>1
<1>20. Done(ch, n + 1, 1)'
  <2>1. PICK j : j = n + 1 OBVIOUS
  <2> QED BY <1>5, <1>10, <1>19, <2>1, DoneKept
<1>21. \A b \in Home : ~Names(start, b)' => disk'[b].num = img[b]
  <2> SUFFICES ASSUME NEW b \in Home, ~Names(start, b)' PROVE disk[b].num = img[b]
    BY <1>19
  <2>1. Logged(b) = {}
    <3>1. ASSUME NEW l \in 1 .. Len(pend), pend[l].blk = b PROVE FALSE
      <4>1. Targets[l] = b BY <3>1 DEF Targets, Count
      <4>2. l \in 1 .. Len(disk'[start].list) /\ disk'[start].list[l] = b BY <1>12, <4>1
      <4> QED BY <1>1, <4>2 DEF Names
    <3> QED BY <3>1 DEF Logged
  <2> QED BY <1>1, <1>3, <2>1 DEF IInv, NewestInv
<1>22. \A m \in 1 .. Len(pend) : disk'[start + m].num = img[pend[m].blk]
  BY <1>1, <1>3, <1>14 DEF IInv, NewestInv
<1>23. Gives(c2)'
  <2> SUFFICES ASSUME NEW b \in Home
               PROVE  /\ \A i, m \in Nat : Newest(c2, b, i, m)' => disk'[c2[i] + m].num = img[b]
                      /\ Unnamed(c2, b)' => disk'[b].num = img[b]
    BY <1>1 DEF Gives
  <2>1. n + 1 \in 1 .. Len(c2) /\ Len(c2) = n + 1 BY <1>6, <1>11
  <2>2. Unnamed(c2, b)' => disk'[b].num = img[b]
    <3>1. Unnamed(c2, b)' => ~Names(s, b)' BY <1>11, <2>1, <1>s DEF Unnamed
    <3>2. Names(start, b)' <=> Names(s, b)' BY <1>1, <1>s DEF Names
    <3> QED BY <1>21, <3>1, <3>2
  <2>3. ASSUME NEW i \in Nat, NEW m \in Nat, Newest(c2, b, i, m)'
        PROVE  disk'[c2[i] + m].num = img[b]
    <3>1. /\ i \in 1 .. n + 1 /\ m \in 1 .. Len(disk'[c2[i]].list)
          /\ disk'[c2[i]].list[m] = b
          /\ \A j \in i + 1 .. n + 1 : ~Names(c2[j], b)'
      BY <2>1, <2>3 DEF Newest
    <3>2. CASE i = n + 1
      <4>1. c2[i] = start BY <1>11, <3>2
      <4>2. m \in 1 .. Len(pend) /\ Targets[m] = b BY <1>12, <3>1, <4>1
      <4>3. pend[m].blk = b BY <4>2 DEF Targets, Count
      <4> QED BY <1>22, <4>1, <4>2, <4>3
    <3>3. CASE i \in 1 .. n
      <4>1. c2[i] = ch[i] /\ n + 1 \in i + 1 .. n + 1 BY <1>6, <1>11, <3>3
      <4>2. ~Names(s, b)' BY <1>11, <1>s, <3>1, <4>1
      <4>3. \A j \in i + 1 .. n : ~Names(ch[j], b)'
        <5>1. \A j \in i + 1 .. n : j \in i + 1 .. n + 1 /\ c2[j] = ch[j]
          BY <1>6, <1>11, <3>3
        <5> QED BY <3>1, <5>1
      <4>4. Newest(ch, b, i, m)'
        BY <3>1, <3>3, <4>1, <4>3 DEF Newest
      <4>5. disk'[b].num = disk'[ch[i] + m].num
        <5>1. i < n + 1 BY <1>6, <3>3
        <5> QED BY <1>20, <4>4, <5>1 DEF Done
      <4>6. Names(start, b)' <=> Names(s, b)' BY <1>1, <1>s DEF Names
      <4> QED BY <1>21, <4>1, <4>2, <4>5, <4>6
    <3> QED BY <1>6, <3>1, <3>2, <3>3
  <2> QED BY <2>2, <2>3
<1>24. Memory(c2)'
  <2>1. op' = "apply" /\ ~wrapped' /\ start' = start
    BY <1>1
  <2>2. c2[Len(c2)] = start /\ Len(c2) > 0
    BY <1>6, <1>11
  <2>3. seq' + 1 = super'.seq + Len(c2)
    <3>1. seq' = seq /\ super'.seq = super.seq BY <1>1
    <3>2. seq = super.seq + n BY <1>5
    <3> HIDE DEF n
    <3>3. Len(c2) = n + 1 /\ n \in Nat /\ super.seq \in Nat BY <1>3, <1>6, <1>11
    <3> QED BY ONLY <3>1, <3>2, <3>3
  <2> QED BY <2>1, <2>2, <2>3 DEF Memory
<1> QED BY <1>11, <1>16, <1>17, <1>18, <1>23, <1>24 DEF Chained

LEMMA WriteSealCInv == ASSUME IInv, CInv, WriteSeal PROVE CInv'
<1> DEFINE c == Seal(seq, Checksum(Desc(seq, Targets), start))
<1>1. /\ op = "seal" /\ op' = "apply" /\ stable' = img
      /\ disk' = [disk EXCEPT ![SealSlot] = c]
      /\ overrun' = (overrun \/ Destroys(start, SealSlot))
      /\ UNCHANGED <<super, start, seq, pend, wrapped, spilled, mkfss, img>>
  BY DEF WriteSeal, memVars, countVars
<1>2. c.kind = "commit"
  BY DEF Seal
<1> HIDE DEF c
<1>3. TypeOK /\ start \in Ring /\ pend # << >> /\ disk \in [Ring \cup Home -> Block]
  BY <1>1 DEF IInv, TypeOK, OpInv
<1>4. ListsInv'
  <2>1. \A a \in Ring : disk'[a].kind = "desc" => disk'[a] = disk[a]
    BY <1>1, <1>2, <1>3
  <2> QED BY <2>1, ListsKept DEF CInv
<1>5. SealInv'
  <2>1. start # SealSlot
    <3>1. Len(pend) \in Nat /\ start \in Nat BY <1>3, Typed
    <3> QED BY <3>1 DEF SealSlot, Count
  <2>2. disk'[start] = disk[start] BY <1>1, <1>3, <2>1
  <2>3. Targets' = Targets BY <1>1 DEF Targets, Count
  <2> QED BY <1>1, <2>2, <2>3 DEF CInv, SealInv
<1>6. ChainInv'
  <2> SUFFICES ASSUME ~Excepted' PROVE \E ch : Chained(ch)'
    BY DEF ChainInv
  <2>1. ~Excepted
    BY <1>1 DEF Excepted
  <2>2. PICK ch : Chained(ch)
    BY <2>1 DEF CInv, ChainInv
  <2>3. CASE wrapped
    <3>1. Chained(ch)' BY <2>2, <2>3, WrappedSeal
    <3> QED BY <3>1
  <2>4. CASE ~wrapped
    BY <2>2, <2>4, SealExtends DEF CInv
  <2> QED BY <2>3, <2>4
<1> QED BY <1>4, <1>5, <1>6 DEF CInv

LEMMA ApplyCInv == ASSUME IInv, CInv, Apply PROVE CInv'
<1>1. /\ op = "apply" /\ op' = "apply" /\ k <= Len(pend)
      /\ disk' = [disk EXCEPT ![pend[k].blk] = disk[start + k]]
      /\ UNCHANGED <<super, start, seq, pend, wrapped, overrun, spilled, mkfss, img, stable>>
  BY DEF Apply, Count, memVars, imgVars, flagVars, countVars
<1>2. TypeOK /\ pend # << >> /\ start \in Ring /\ k \in 1 .. Len(pend)
  <2>1. TypeOK /\ pend # << >> /\ k \in 1 .. Len(pend) + 1 BY <1>1 DEF IInv, OpInv
  <2>2. Len(pend) \in Nat /\ start \in Ring BY <2>1, Typed DEF TypeOK
  <2> QED BY <1>1, <2>1, <2>2
<1>3. pend[k].blk \in Home
  BY <1>2, Typed
<1>4. \A a \in Ring \cup Home : a # pend[k].blk => disk'[a] = disk[a]
  BY <1>1, <1>2 DEF TypeOK
<1>5. \A a \in Ring : disk'[a] = disk[a]
  BY <1>3, <1>4, Addresses
<1>6. ListsInv'
  BY <1>5 DEF CInv, ListsInv
<1>7. SealInv'
  <2>1. Targets' = Targets BY <1>1 DEF Targets, Count
  <2> QED BY <1>1, <1>2, <1>5, <2>1 DEF CInv, SealInv
<1>8. ChainInv'
  <2> SUFFICES ASSUME ~Excepted' PROVE \E ch : Chained(ch)'
    BY DEF ChainInv
  <2>1. ~Excepted
    BY <1>1 DEF Excepted
  <2>2. PICK ch : Chained(ch)
    BY <2>1 DEF CInv, ChainInv
  <2>3. Core(ch) /\ Memory(ch)
    BY <2>2 DEF Chained, Core
  <2>4. ~wrapped => \A b \in Home : Unnamed(ch, b) => disk'[b].num = disk[b].num
    <3> SUFFICES ASSUME ~wrapped, NEW b \in Home, Unnamed(ch, b) PROVE b # pend[k].blk
      BY <1>4
    <3>1. Len(ch) \in Nat /\ Len(ch) > 0 /\ ch[Len(ch)] = start
      <4>1. ch \in Seq(Ring) BY <2>3 DEF Core
      <4> QED BY <1>1, <2>3, <4>1 DEF Memory
    <3>2. ~Names(start, b)
      <4>1. Len(ch) \in 1 .. Len(ch) BY <3>1
      <4> QED BY <3>1, <4>1 DEF Unnamed
    <3>3. disk[start].list = Targets /\ Len(Targets) = Len(pend)
      BY <1>1, <1>2, <2>1, TargetsType DEF CInv, SealInv, Excepted, Desc
    <3>4. Targets[k] # b
      BY <1>2, <3>2, <3>3 DEF Names
    <3> QED BY <1>2, <3>4 DEF Targets, Count
  <2>5. /\ Core(ch)' /\ End(ch)' = End(ch)
    <3>1. \A a \in Ring : ~Apart(ch, a) => disk'[a] = disk[a]
      BY <1>5
    <3>2. \A a \in Ring : disk'[a].kind = "commit" => disk'[a] = disk[a]
      BY <1>5
    <3> QED BY <1>1, <2>3, <2>4, <3>1, <3>2, CoreKept
  <2>6. Memory(ch)'
    BY <1>1, <2>3, <2>5 DEF Memory
  <2> QED BY <2>5, <2>6 DEF Chained, Core
<1> QED BY <1>6, <1>7, <1>8 DEF CInv

\* The superblock has the position of the next transaction: nothing is left to
\* replay, and no seal in the ring has the number of the next one.
NothingToReplay ==
  /\ TypeOK /\ First = start /\ seq = super.seq /\ op \in {"run", "resume"}
  /\ pend = << >> /\ wrapped = FALSE
  /\ \A b \in Home : disk[b].num = stable[b]
  /\ \A a \in Ring : disk[a].kind = "commit" =>
       disk[a].num < seq \/ (disk[a].num = seq /\ start >= JB - 2)

\* Then the chain is empty.
LEMMA EmptyChain == NothingToReplay => Chained(<< >>)
<1> SUFFICES ASSUME NothingToReplay PROVE Chained(<< >>) OBVIOUS
<1> USE DEF NothingToReplay
<1>1. << >> \in Seq(Ring) /\ Len(<< >>) = 0
  OBVIOUS
<1>2. super.seq + 0 = super.seq
  BY DEF TypeOK
<1>3. End(<< >>) = start
  BY <1>1 DEF End, Slot
<1>4. Links(<< >>) /\ Arc(<< >>)
  BY <1>1 DEF Links, Arc
<1>5. Commits(<< >>)
  BY <1>1, <1>2, <1>3 DEF Commits
<1>6. Gives(<< >>)
  BY <1>1 DEF Gives, Newest
<1>7. Memory(<< >>)
  BY <1>1, <1>2, <1>3 DEF Memory, Done, Newest
<1> QED BY <1>1, <1>4, <1>5, <1>6, <1>7 DEF Chained

LEMMA AdvanceCInv == ASSUME IInv, CInv, Advance PROVE CInv'
<1>1. /\ op = "apply" /\ k > Len(pend) /\ pend' = << >> /\ wrapped' = FALSE
      /\ start' = NextSlot(start + 2 + Len(pend)) /\ seq' = seq + 1
      /\ super' = [seq |-> seq', start |-> start']
      /\ op' \in {"run", "resume"}
      /\ UNCHANGED <<disk, stable, img, overrun, spilled, mkfss>>
  BY DEF Advance, Count, imgVars, countVars
<1>2. TypeOK /\ pend # << >> /\ start \in Ring /\ start \in Nat /\ start >= 1 /\ seq \in Nat
      /\ Len(pend) \in Nat /\ super.seq \in Nat
  <2>1. TypeOK /\ pend # << >> BY <1>1 DEF IInv, OpInv
  <2> QED BY <2>1, Typed DEF TypeOK
<1>3. IInv'
  BY AdvanceIInv
<1>4. ListsInv' /\ SealInv'
  BY <1>1 DEF CInv, ListsInv, SealInv
<1>5. ChainInv'
  <2> SUFFICES ASSUME ~Excepted' PROVE \E ch : Chained(ch)'
    BY DEF ChainInv
  <2>1. ~Excepted
    BY <1>1 DEF Excepted
  <2>2. PICK ch : Chained(ch)
    BY <2>1 DEF CInv, ChainInv
  <2>3. ch \in Seq(Ring) /\ Len(ch) \in Nat /\ Memory(ch) /\ Commits(ch)
    BY <2>2 DEF Chained
  <2>4. First' = start' /\ start' \in Ring
    <3>1. start' \in Ring BY <1>3 DEF IInv, TypeOK
    <3>2. super'.start = start' BY <1>1
    <3> QED BY <3>1, <3>2, Addresses DEF First, FirstSlot, Ring
  <2>5. \A b \in Home : disk'[b].num = stable'[b]
    <3>1. \A b \in Home : disk'[b].num = img'[b]
      <4>1. ~spilled' /\ op' \in {"run", "desc", "seal", "apply", "resume"} BY <1>1 DEF Excepted
      <4>2. \A b \in Home : Logged(b)' = {} BY <1>1 DEF Logged
      <4> QED BY <1>3, <4>1, <4>2 DEF IInv, NewestInv
    <3>2. stable' = img' BY <1>1 DEF CInv, SealInv
    <3> QED BY <3>1, <3>2
  <2>6. ASSUME NEW a \in Ring, disk'[a].kind = "commit"
        PROVE  disk'[a].num < seq' \/ (disk'[a].num = seq' /\ start' >= JB - 2)
    <3>1. disk[a].num \in Nat BY <1>2 DEF TypeOK, Block
    <3>2. CASE wrapped
      <4>1. seq = super.seq + Len(ch) BY <1>1, <2>3, <3>2 DEF Memory
      <4>2. disk[a].num < super.seq + Len(ch) \/ disk[a].num = super.seq + Len(ch)
        BY <1>1, <2>3, <2>6 DEF Commits
      <4>3. disk[a].num < seq + 1
        BY ONLY <1>2, <3>1, <4>1, <4>2
      <4> QED BY <1>1, <4>3
    <3>3. CASE ~wrapped
      <4>1. seq + 1 = super.seq + Len(ch) /\ Len(ch) > 0 /\ ch[Len(ch)] = start
        BY <1>1, <2>3, <3>3 DEF Memory
      <4>2. End(ch) = start'
        <5>1. disk[start].list = Targets /\ Len(Targets) = Len(pend)
          BY <1>1, <1>2, <2>1, TargetsType DEF CInv, SealInv, Excepted, Desc
        <5>2. Len(ch) + 1 # 1 /\ Len(ch) + 1 - 1 = Len(ch) BY <2>3, <4>1
        <5>3. End(ch) = NextSlot(After(start)) BY <4>1, <5>2 DEF End, Slot
        <5> QED BY <1>1, <5>1, <5>3 DEF After
      <4>3. disk[a].num < super.seq + Len(ch)
            \/ (disk[a].num = super.seq + Len(ch) /\ End(ch) >= JB - 2)
        BY <1>1, <2>3, <2>6 DEF Commits
      <4> QED BY <1>1, <4>1, <4>2, <4>3
    <3> QED BY <3>2, <3>3
  <2>7. NothingToReplay'
    <3>1. TypeOK' BY <1>3 DEF IInv
    <3>2. seq' = super'.seq BY <1>1
    <3> QED BY <1>1, <2>4, <2>5, <2>6, <3>1, <3>2 DEF NothingToReplay
  <2>8. (NothingToReplay => Chained(<< >>))'
    BY EmptyChain, PTL
  <2>9. Chained(<< >>)'
    BY <2>7, <2>8
  <2> QED BY <2>9
<1> QED BY <1>4, <1>5 DEF CInv

LEMMA CommitStepCInv == ASSUME IInv, CInv, CommitStep PROVE CInv'
BY WriteDescCInv, WriteSealCInv, ApplyCInv, AdvanceCInv, LogForcedCInv DEF CommitStep

-----------------------------------------------------------------------------
(* Power failure *)

\* The blocks a failure can tear.
LEMMA TornBlocks ==
  /\ op = "run" /\ pend = << >> => InFlight = {FirstStart + 1} /\ InFlightStart = FirstStart
  /\ op = "run" /\ pend # << >> /\ Full => InFlight = {}
  /\ op = "run" /\ pend # << >> /\ ~Full =>
       InFlight = {start + 1 + Len(pend)} /\ InFlightStart = start
  /\ op = "resume" => InFlight = {start + 1} /\ InFlightStart = start
  /\ op = "desc" => InFlight = {start} /\ InFlightStart = start
  /\ op = "apply" /\ k <= Len(pend) => InFlight = {pend[k].blk}
  /\ op = "apply" /\ ~(k <= Len(pend)) => InFlight = {}
  /\ op = "reapply" => InFlight = {disk[start].list[k]}
  /\ op \in {"seal", "down", "refused", "replay"} => InFlight = {}
BY DEF InFlight, InFlightStart, Count

\* A torn slot of the ring is apart from the chain.
LEMMA TornRing ==
  ASSUME IInv, NEW ch, Chained(ch), NEW a \in Ring, a \in InFlight,
         ~Destroys(InFlightStart, a)
  PROVE  Apart(ch, a)
<1>1. TypeOK /\ Core(ch) /\ Memory(ch)
  BY DEF IInv, Chained, Core
<1>2. start \in Ring /\ start \in Nat /\ start >= 1 /\ start <= JB - 1 /\ Len(pend) \in Nat
  BY <1>1, Typed DEF TypeOK
<1>3. op \in {"run", "desc", "seal", "apply", "resume", "down", "refused",
              "replay", "reapply"}
  BY <1>1 DEF TypeOK
<1>4. CASE op \in {"run", "resume", "desc"}
  <2>1. PICK st : st = InFlightStart
    OBVIOUS
  <2>2. /\ seq = super.seq + Len(ch)
        /\ ~wrapped => start = End(ch)
        /\ wrapped => start = 1 /\ End(ch) >= JB - 2 /\ pend # << >>
    BY <1>1, <1>4 DEF Memory
  <2>3. a \in Nat /\ st \in Ring /\ st <= a /\ (st = End(ch) \/ (st = 1 /\ End(ch) >= JB - 2))
    <3>1. CASE op = "run" /\ pend = << >>
      <4>1. a = FirstStart + 1 /\ st = FirstStart BY <2>1, <3>1, TornBlocks
      <4>2. start = End(ch) BY <2>2, <3>1
      <4> QED BY <1>2, <4>1, <4>2, Addresses DEF FirstStart, Wraps, Ring
    <3>2. CASE op = "run" /\ pend # << >>
      <4>1. a = start + 1 + Len(pend) /\ st = start BY <2>1, <3>2, TornBlocks
      <4> QED BY <1>2, <2>2, <4>1
    <3>3. CASE op = "resume"
      <4>1. a = start + 1 /\ st = start BY <2>1, <3>3, TornBlocks
      <4> QED BY <1>2, <2>2, <4>1
    <3>4. CASE op = "desc"
      <4>1. a = start /\ st = start BY <2>1, <3>4, TornBlocks
      <4> QED BY <1>2, <2>2, <4>1
    <3> QED BY <1>4, <3>1, <3>2, <3>3, <3>4
  <2> QED BY <1>1, <2>1, <2>2, <2>3, WriteIsApart
<1>5. CASE op = "apply"
  <2>1. k <= Len(pend) /\ a = pend[k].blk /\ k \in 1 .. Len(pend) + 1
    BY <1>5, TornBlocks DEF IInv, OpInv
  <2>2. pend[k].blk \in Home BY <1>1, <1>2, <2>1, Typed
  <2> QED BY <2>1, <2>2, Addresses
<1>6. CASE op = "reapply"
  <2>1. a = disk[start].list[k] BY <1>6, TornBlocks
  <2>2. a \in Home BY <1>2, <1>6, <2>1 DEF IInv, ReplayInv, DescInv
  <2> QED BY <2>2, Addresses
<1> QED BY <1>3, <1>4, <1>5, <1>6, TornBlocks

\* A torn file system block is one the chain has a copy of.
LEMMA TornHome ==
  ASSUME IInv, CInv, NEW ch, Chained(ch), ~wrapped, ~spilled, NEW b \in Home, b \in InFlight,
         op # "resume"
  PROVE  ~Unnamed(ch, b)
<1>1. TypeOK /\ Core(ch) /\ Memory(ch) /\ ch \in Seq(Ring)
  BY DEF IInv, Chained, Core
<1>2. start \in Ring /\ start \in Nat /\ start >= 1 /\ start <= JB - 1 /\ Len(pend) \in Nat
  BY <1>1, Typed DEF TypeOK
<1>3. op \in {"run", "desc", "seal", "apply", "resume", "down", "refused",
              "replay", "reapply"}
  BY <1>1 DEF TypeOK
<1>4. CASE op \in {"run", "desc"}
  <2>1. b \in Ring
    <3>1. CASE op = "run" /\ pend = << >>
      <4>1. b = FirstStart + 1 BY <3>1, TornBlocks
      <4> QED BY <1>2, <4>1, Addresses DEF FirstStart, Wraps, Ring
    <3>2. CASE op = "run" /\ pend # << >>
      <4>1. b = start + 1 + Len(pend) /\ ~Full BY <3>2, TornBlocks
      <4> QED BY <1>2, <4>1, Addresses DEF Full, Ring
    <3>3. CASE op = "desc"
      <4>1. b = start BY <3>3, TornBlocks
      <4> QED BY <1>2, <4>1
    <3> QED BY <1>4, <3>1, <3>2, <3>3
  <2> QED BY <2>1, Addresses
<1>5. CASE op = "apply"
  <2>1. k \in 1 .. Len(pend) /\ b = pend[k].blk /\ pend # << >>
    BY <1>2, <1>5, TornBlocks DEF IInv, OpInv
  <2>2. Len(ch) \in Nat /\ Len(ch) > 0 /\ ch[Len(ch)] = start
    BY <1>1, <1>5 DEF Memory
  <2>3. disk[start].list = Targets /\ Len(Targets) = Len(pend)
    BY <1>1, <1>5, <2>1, TargetsType DEF CInv, SealInv, Desc
  <2>4. Targets[k] = b
    BY <2>1 DEF Targets, Count
  <2>5. Names(start, b)
    BY <2>1, <2>3, <2>4 DEF Names
  <2>6. Len(ch) \in 1 .. Len(ch)
    BY <2>2
  <2> QED BY <2>2, <2>5, <2>6 DEF Unnamed
<1>6. CASE op = "reapply"
  <2>1. PICK j \in 1 .. Len(ch) : start = ch[j]
    BY <1>1, <1>6 DEF Memory
  <2>2. b = disk[start].list[k] /\ k \in 1 .. Len(disk[start].list)
    BY <1>6, TornBlocks DEF IInv, ReplayInv
  <2> QED BY <2>1, <2>2 DEF Unnamed, Names
<1> QED BY <1>3, <1>4, <1>5, <1>6, TornBlocks

LEMMA CrashCInv == ASSUME IInv, CInv, Crash PROVE CInv'
<1>1. PICK torn \in {{}, InFlight} :
        /\ disk' = [a \in DOMAIN disk |-> IF a \in torn THEN Torn ELSE disk[a]]
        /\ overrun' = (overrun \/ \E a \in torn \cap Ring : Destroys(InFlightStart, a))
        /\ spilled' = (spilled \/ (op = "resume" /\ torn \cap Home # {}))
  BY DEF Crash
<1>2. /\ op' = "down"
      /\ UNCHANGED <<super, stable, wrapped, mkfss>>
  BY DEF Crash, imgVars
<1>3. TypeOK /\ DOMAIN disk = Ring \cup Home
  BY DEF IInv, TypeOK
<1>4. \A a \in Ring \cup Home : disk'[a] = IF a \in torn THEN Torn ELSE disk[a]
  BY <1>1, <1>3
<1>5. ListsInv'
  <2>1. \A a \in Ring : disk'[a].kind = "desc" => disk'[a] = disk[a]
    BY <1>4 DEF Torn
  <2> QED BY <2>1, ListsKept DEF CInv
<1>6. SealInv'
  BY <1>2 DEF SealInv
<1>7. ChainInv'
  <2> SUFFICES ASSUME ~Excepted' PROVE \E ch : Chained(ch)'
    BY DEF ChainInv
  <2>1. ~Excepted /\ (op = "resume" => torn \cap Home = {})
        /\ \A a \in torn \cap Ring : ~Destroys(InFlightStart, a)
    BY <1>1, <1>2 DEF Excepted
  <2>2. PICK ch : Chained(ch)
    BY <2>1 DEF CInv, ChainInv
  <2>3. \A a \in Ring : ~Apart(ch, a) => disk'[a] = disk[a]
    <3> SUFFICES ASSUME NEW a \in Ring, a \in torn PROVE Apart(ch, a)
      BY <1>4
    <3>1. a \in InFlight /\ ~Destroys(InFlightStart, a) BY <2>1
    <3> QED BY <2>2, <3>1, TornRing
  <2>4. \A a \in Ring : disk'[a].kind = "commit" => disk'[a] = disk[a]
    BY <1>4 DEF Torn
  <2>5. ~wrapped => \A b \in Home : Unnamed(ch, b) => disk'[b].num = disk[b].num
    <3> SUFFICES ASSUME ~wrapped, NEW b \in Home, b \in torn PROVE ~Unnamed(ch, b)
      BY <1>4
    <3>1. b \in InFlight /\ op # "resume" BY <2>1
    <3>2. ~spilled BY <2>1 DEF Excepted
    <3> QED BY <2>2, <3>1, <3>2, TornHome
  <2>6. Core(ch)
    BY <2>2 DEF Chained, Core
  <2>7. Core(ch)'
    BY <1>2, <2>3, <2>4, <2>5, <2>6, CoreKept
  <2>8. Memory(ch)'
    BY <1>2 DEF Memory
  <2> QED BY <2>7, <2>8 DEF Chained, Core
<1> QED BY <1>5, <1>6, <1>7 DEF CInv

-----------------------------------------------------------------------------
(* Mount *)

LEMMA MountCInv == ASSUME IInv, CInv, Mount PROVE CInv'
<1>1. /\ start' = First /\ seq' = super.seq /\ op' = "replay"
      /\ UNCHANGED <<disk, super, stable, wrapped, overrun, spilled, mkfss>>
  BY DEF Mount, First, diskVars, imgVars, flagVars, countVars
<1>2. ListsInv' /\ SealInv'
  BY <1>1 DEF CInv, ListsInv, SealInv
<1>3. ChainInv'
  <2> SUFFICES ASSUME ~Excepted' PROVE \E ch : Chained(ch)'
    BY DEF ChainInv
  <2>1. ~Excepted
    BY <1>1 DEF Excepted
  <2>2. PICK ch : Chained(ch)
    BY <2>1 DEF CInv, ChainInv
  <2>3. Core(ch) /\ ch \in Seq(Ring) /\ super.seq \in Nat
    BY <2>2 DEF Chained, Core, IInv, TypeOK
  <2>4. Core(ch)' /\ \A j \in 1 .. Len(ch) + 1 : Slot(ch, j)' = Slot(ch, j)
    BY <1>1, <2>3, CoreKept
  <2>5. 1 \in 1 .. Len(ch) + 1
    BY <2>3
  <2>6. start' = Slot(ch, 1)' /\ seq' + 1 = super'.seq + 1
    BY <1>1, <2>4, <2>5 DEF Slot
  <2>7. Done(ch, 1, 1)'
    <3> SUFFICES ASSUME NEW b \in Home, NEW i \in Nat, NEW m \in Nat, Newest(ch, b, i, m)'
                 PROVE  ~(i < 1 \/ (i = 1 /\ m < 1))
      BY DEF Done
    <3>1. i \in 1 .. Len(ch) /\ m \in 1 .. Len(disk'[ch[i]].list) BY DEF Newest
    <3> QED BY <3>1
  <2>8. Memory(ch)'
    BY <1>1, <2>5, <2>6, <2>7 DEF Memory
  <2> QED BY <2>4, <2>8 DEF Chained, Core
<1> QED BY <1>2, <1>3 DEF CInv

LEMMA MountRefusedCInv == ASSUME IInv, CInv, MountRefused PROVE CInv'
<1>1. /\ op' = "refused"
      /\ UNCHANGED <<disk, super, stable, wrapped, overrun, spilled, mkfss>>
  BY DEF MountRefused, diskVars, imgVars, flagVars, countVars
<1>2. ListsInv' /\ SealInv'
  BY <1>1 DEF CInv, ListsInv, SealInv
<1>3. ChainInv'
  <2> SUFFICES ASSUME ~Excepted' PROVE \E ch : Chained(ch)'
    BY DEF ChainInv
  <2>1. ~Excepted
    BY <1>1 DEF Excepted
  <2>2. PICK ch : Chained(ch)
    BY <2>1 DEF CInv, ChainInv
  <2>3. Core(ch)
    BY <2>2 DEF Chained, Core
  <2>4. Core(ch)'
    BY <1>1, <2>3, CoreKept
  <2>5. Memory(ch)'
    BY <1>1 DEF Memory
  <2> QED BY <2>4, <2>5 DEF Chained, Core
<1> QED BY <1>2, <1>3 DEF CInv

\* Sealed is SealedAt the place replay stands.
LEMMA SealedIs == Sealed <=> SealedAt(start, seq)
BY DEF Sealed

\* Where replay stands: at a transaction of the chain if it finds one sealed,
\* at the end of the chain if it does not.
LEMMA ReplayPlace ==
  ASSUME IInv, NEW ch, Chained(ch), NEW j \in 1 .. Len(ch) + 1,
         start = Slot(ch, j), seq + 1 = super.seq + j
  PROVE  /\ Sealed => j \in 1 .. Len(ch) /\ start = ch[j]
         /\ ~Sealed => j = Len(ch) + 1
<1>1. /\ Core(ch) /\ Links(ch) /\ Len(ch) \in Nat /\ j \in Nat
      /\ super.seq \in Nat /\ seq \in Nat
  BY DEF Chained, Core, IInv, TypeOK
<1>2. CASE j = Len(ch) + 1
  <2>1. start = End(ch) /\ seq = super.seq + Len(ch)
    BY <1>1, <1>2 DEF End
  <2>2. ~Sealed
    BY <1>1, <2>1, NothingAtEnd, SealedIs
  <2> QED BY <1>2, <2>2
<1>3. CASE j # Len(ch) + 1
  <2>1. j \in 1 .. Len(ch) /\ seq = super.seq + j - 1
    BY <1>1, <1>3
  <2>2. ch[j] = start /\ SealedAt(ch[j], super.seq + j - 1)
    BY <1>1, <2>1 DEF Links
  <2> QED BY <2>1, <2>2, SealedIs
<1> QED BY <1>2, <1>3

LEMMA ReplayFoundCInv == ASSUME IInv, CInv, ReplayFound PROVE CInv'
<1>1. /\ op = "replay" /\ Sealed /\ op' = "reapply" /\ k' = 1
      /\ UNCHANGED <<disk, super, start, seq, stable, wrapped, overrun, spilled, mkfss>>
  BY DEF ReplayFound, diskVars, memVars, imgVars, flagVars, countVars
<1>2. ListsInv' /\ SealInv'
  BY <1>1 DEF CInv, ListsInv, SealInv
<1>3. ChainInv'
  <2> SUFFICES ASSUME ~Excepted' PROVE \E ch : Chained(ch)'
    BY DEF ChainInv
  <2>1. ~Excepted
    BY <1>1 DEF Excepted
  <2>2. PICK ch : Chained(ch)
    BY <2>1 DEF CInv, ChainInv
  <2>3. PICK j \in 1 .. Len(ch) + 1 :
          start = Slot(ch, j) /\ seq + 1 = super.seq + j /\ Done(ch, j, 1)
    BY <1>1, <2>2 DEF Chained, Memory
  <2>4. j \in 1 .. Len(ch) /\ start = ch[j]
    BY <1>1, <2>2, <2>3, ReplayPlace
  <2>5. Core(ch)
    BY <2>2 DEF Chained, Core
  <2>6. Core(ch)' /\ SameLog(ch)
    BY <1>1, <2>5, CoreKept
  <2>7. Done(ch, j, 1)'
    BY <1>1, <2>3, <2>6, DoneKept
  <2>8. Done(ch, j, k)'
    BY <1>1, <2>7 DEF Done
  <2>9. Memory(ch)'
    BY <1>1, <2>3, <2>4, <2>8 DEF Memory
  <2> QED BY <2>6, <2>9 DEF Chained, Core
<1> QED BY <1>2, <1>3 DEF CInv

LEMMA ReplayNextCInv == ASSUME IInv, CInv, ReplayNext PROVE CInv'
<1> DEFINE d == disk[start]
<1>1. /\ op = "reapply" /\ disk' = [disk EXCEPT ![d.list[k]] = disk[start + k]]
      /\ k < Len(d.list) => k' = k + 1 /\ start' = start /\ seq' = seq /\ op' = "reapply"
      /\ ~(k < Len(d.list)) =>
           op' = "replay" /\ start' = NextSlot(start + 2 + Len(d.list)) /\ seq' = seq + 1
      /\ UNCHANGED <<super, stable, wrapped, overrun, spilled, mkfss>>
  BY DEF ReplayNext, imgVars, flagVars, countVars
<1>2. TypeOK /\ start \in Ring /\ d.kind = "desc" /\ k \in 1 .. Len(d.list) /\ d.list \in Seq(Nat)
      /\ start + 2 + Len(d.list) <= JB
  BY <1>1 DEF IInv, TypeOK, ReplayInv, Block
<1>3. Len(d.list) \in Nat /\ k \in Nat
  BY <1>2
<1>4. PICK h \in Home : h = d.list[k]
  BY <1>2 DEF IInv, DescInv
<1>5. start + k \in Ring
  <2> HIDE DEF d
  <2> QED BY <1>2, <1>3, TransactionSlots
<1>6. disk'[h] = disk[start + k] /\ \A a \in Ring \cup Home : a # h => disk'[a] = disk[a]
  BY <1>1, <1>2, <1>4 DEF TypeOK
<1>7. \A a \in Ring : disk'[a] = disk[a]
  BY <1>6, Addresses
<1>8. ListsInv' /\ SealInv'
  <2>1. ListsInv' BY <1>7 DEF CInv, ListsInv
  <2>2. op' \in {"reapply", "replay"} BY <1>1
  <2> QED BY <2>1, <2>2 DEF SealInv
<1>9. ChainInv'
  <2> SUFFICES ASSUME ~Excepted' PROVE \E ch : Chained(ch)'
    BY DEF ChainInv
  <2>1. ~Excepted
    BY <1>1 DEF Excepted
  <2>2. PICK ch : Chained(ch)
    BY <2>1 DEF CInv, ChainInv
  <2>3. PICK j \in 1 .. Len(ch) :
          start = ch[j] /\ seq + 1 = super.seq + j /\ Done(ch, j, k)
    BY <1>1, <2>2 DEF Chained, Memory
  <2>4. Core(ch) /\ ch \in Seq(Ring) /\ Len(ch) \in Nat /\ j \in Nat
    BY <2>2 DEF Chained, Core
  <2>5. Names(ch[j], h)
    BY <1>2, <1>4, <2>3 DEF Names
  <2>6. /\ Core(ch)' /\ SameLog(ch)
        /\ \A l \in 1 .. Len(ch) + 1 : Slot(ch, l)' = Slot(ch, l)
    <3>1. \A a \in Ring : ~Apart(ch, a) => disk'[a] = disk[a]
      BY <1>7
    <3>2. \A a \in Ring : disk'[a].kind = "commit" => disk'[a] = disk[a]
      BY <1>7
    <3>3. \A b \in Home : Unnamed(ch, b) => disk'[b].num = disk[b].num
      BY <1>6, <2>5 DEF Unnamed
    <3> QED BY <1>1, <2>4, <3>1, <3>2, <3>3, CoreKept
  <2>7. PICK q : q = k
    OBVIOUS
  <2>8. Done(ch, j, q + 1)'
    <3> SUFFICES ASSUME NEW b \in Home, NEW i \in Nat, NEW m \in Nat, Newest(ch, b, i, m),
                        i < j \/ (i = j /\ m < q + 1)
                 PROVE  disk'[b].num = disk'[ch[i] + m].num
      BY <2>6, NamesKept DEF Done
    <3>1. disk'[ch[i] + m] = disk[ch[i] + m]
      BY <2>6, NamesKept
    <3>2. /\ i \in 1 .. Len(ch) /\ m \in 1 .. Len(disk[ch[i]].list)
          /\ disk[ch[i]].list[m] = b
          /\ \A l \in i + 1 .. Len(ch) : ~Names(ch[l], b)
      BY DEF Newest
    <3>3. CASE b = h
      <4>1. i = j
        <5>1. j \notin i + 1 .. Len(ch) BY <2>5, <3>2, <3>3
        <5> QED BY <2>4, <5>1
      <4>2. m = k
        BY <1>2, <1>4, <2>3, <3>2, <3>3, <4>1 DEF CInv, ListsInv
      <4> QED BY <1>6, <2>3, <3>1, <3>3, <4>1, <4>2
    <3>4. CASE b # h
      <4>1. disk'[b] = disk[b] BY <1>6, <3>4
      <4>2. ~(i = j /\ m = k) BY <1>4, <2>3, <3>2, <3>4
      <4>3. i < j \/ (i = j /\ m < k) BY <1>3, <2>7, <4>2
      <4> QED BY <2>3, <3>1, <4>1, <4>3 DEF Done
    <3> QED BY <3>3, <3>4
  <2>9. CASE k < Len(d.list)
    <3>1. k' = q + 1 /\ op' = "reapply" /\ start' = ch[j] /\ seq' + 1 = super'.seq + j
      BY <1>1, <2>3, <2>7, <2>9
    <3>2. Done(ch, j, k)'
      BY <2>8, <3>1 DEF Done
    <3>3. Memory(ch)'
      BY <3>1, <3>2 DEF Memory
    <3> QED BY <2>6, <3>3 DEF Chained, Core
  <2>10. CASE ~(k < Len(d.list))
    <3>1. op' = "replay" /\ start' = NextSlot(start + 2 + Len(d.list)) /\ seq' = seq + 1
      BY <1>1, <2>10
    <3>2. j + 1 \in 1 .. Len(ch) + 1 /\ j + 1 # 1 /\ j + 1 - 1 = j
      BY <2>4
    <3>3. start' = Slot(ch, j + 1)'
      <4>1. Slot(ch, j + 1) = NextSlot(After(ch[j])) BY <3>2 DEF Slot
      <4>2. Slot(ch, j + 1)' = Slot(ch, j + 1) BY <2>6, <3>2
      <4> QED BY <2>3, <3>1, <4>1, <4>2 DEF After
    <3>4. seq' + 1 = super'.seq + (j + 1)
      <4>1. super.seq \in Nat /\ seq \in Nat BY <1>2 DEF TypeOK
      <4> QED BY <1>1, <2>3, <2>4, <3>1, <4>1
    <3>5. Done(ch, j + 1, 1)'
      <4> SUFFICES ASSUME NEW b \in Home, NEW i \in Nat, NEW m \in Nat, Newest(ch, b, i, m)',
                          i < j + 1 \/ (i = j + 1 /\ m < 1)
                   PROVE  disk'[b].num = disk'[ch[i] + m].num
        BY DEF Done
      <4>1. m \in 1 .. Len(disk'[ch[i]].list) BY DEF Newest
      <4>2. i < j \/ i = j BY <2>4, <4>1
      <4>3. i = j => m < q + 1
        <5>1. disk'[ch[j]] = d BY <1>2, <1>7, <2>3
        <5> HIDE DEF d
        <5> QED BY <1>2, <1>3, <2>7, <2>10, <4>1, <5>1
      <4> QED BY <2>8, <4>2, <4>3 DEF Done
    <3>6. Memory(ch)'
      BY <3>1, <3>2, <3>3, <3>4, <3>5 DEF Memory
    <3> QED BY <2>6, <3>6 DEF Chained, Core
  <2> QED BY <2>9, <2>10
<1> QED BY <1>8, <1>9 DEF CInv

LEMMA ReplayEndCInv == ASSUME IInv, CInv, ReplayEnd PROVE CInv'
<1>1. /\ op = "replay" /\ ~Sealed /\ op' = "run" /\ wrapped' = FALSE /\ stable' = Image(disk)
      /\ UNCHANGED <<disk, super, start, seq, pend, overrun, spilled, mkfss>>
  BY DEF ReplayEnd, diskVars, memVars, countVars
<1>2. pend = << >>
  BY <1>1 DEF IInv, OpInv
<1>3. ListsInv' /\ SealInv'
  BY <1>1 DEF CInv, ListsInv, SealInv
<1>4. ChainInv'
  <2> SUFFICES ASSUME ~Excepted' PROVE \E ch : Chained(ch)'
    BY DEF ChainInv
  <2>1. ~Excepted
    BY <1>1 DEF Excepted
  <2>2. PICK ch : Chained(ch)
    BY <2>1 DEF CInv, ChainInv
  <2>3. PICK j \in 1 .. Len(ch) + 1 :
          start = Slot(ch, j) /\ seq + 1 = super.seq + j /\ Done(ch, j, 1)
    BY <1>1, <2>2 DEF Chained, Memory
  <2>4. j = Len(ch) + 1
    BY <1>1, <2>2, <2>3, ReplayPlace
  <2>5. /\ TypeOK /\ ch \in Seq(Ring) /\ Len(ch) \in Nat /\ Links(ch) /\ Arc(ch) /\ Commits(ch)
    BY <2>2 DEF Chained, IInv
  <2>6. SameLog(ch) /\ Links(ch)' /\ End(ch)' = End(ch) /\ Arc(ch)'
    BY <1>1, <2>5, ChainKept
  <2>7. Commits(ch)'
    BY <1>1, <2>5, <2>6 DEF Commits
  <2>8. Done(ch, j, 1)'
    BY <1>1, <2>3, <2>6, DoneKept
  <2>9. Gives(ch)'
    <3> SUFFICES ASSUME NEW b \in Home
                 PROVE  \A i, m \in Nat : Newest(ch, b, i, m)' => disk'[ch[i] + m].num = disk'[b].num
      BY <1>1 DEF Gives, Image
    <3> SUFFICES ASSUME NEW i \in Nat, NEW m \in Nat, Newest(ch, b, i, m)'
                 PROVE  disk'[ch[i] + m].num = disk'[b].num
      OBVIOUS
    <3>1. i < j BY <2>4, <2>5 DEF Newest
    <3> QED BY <2>8, <3>1 DEF Done
  <2>10. Memory(ch)'
    <3>1. start' = End(ch)' BY <1>1, <2>3, <2>4, <2>6 DEF End
    <3>2. seq' = super'.seq + Len(ch)
      <4>1. super.seq \in Nat /\ seq \in Nat BY <2>5 DEF TypeOK
      <4> QED BY <1>1, <2>3, <2>4, <2>5, <4>1
    <3>3. Done(ch, Len(ch) + 1, 1)' BY <2>4, <2>8
    <3>4. \A i \in 1 .. Len(pend') : Apart(ch, start + i)'
      <4>1. Len(pend') = 0 BY <1>1, <1>2
      <4> QED BY <4>1
    <3>5. op' = "run" /\ ~wrapped' BY <1>1
    <3> QED BY <3>1, <3>2, <3>3, <3>4, <3>5 DEF Memory
  <2> QED BY <1>1, <2>5, <2>6, <2>7, <2>9, <2>10 DEF Chained
<1> QED BY <1>3, <1>4 DEF CInv

LEMMA MkfsCInv == ASSUME IInv, CInv, Mkfs PROVE CInv'
<1>1. /\ mkfss' = mkfss + 1 /\ op' = "replay"
      /\ disk' = [a \in DOMAIN disk |-> IF a \in Home THEN Data(0) ELSE disk[a]]
  BY DEF Mkfs
<1>2. mkfss \in Nat /\ DOMAIN disk = Ring \cup Home
  BY JournalConstants DEF IInv, TypeOK
<1>3. \A a \in Ring : disk'[a] = disk[a]
  BY <1>1, <1>2, Addresses
<1>4. ListsInv'
  BY <1>3 DEF CInv, ListsInv
<1>5. SealInv'
  BY <1>1 DEF SealInv
<1>6. Excepted'
  BY <1>1, <1>2 DEF Excepted
<1> QED BY <1>4, <1>5, <1>6 DEF CInv, ChainInv

-----------------------------------------------------------------------------
(* The initial states and every step *)

LEMMA InitCInv == Init => CInv
<1> SUFFICES ASSUME Init PROVE CInv OBVIOUS
<1>1. TypeOK
  BY InitIInv DEF IInv
<1>2. disk = [a \in Ring \cup Home |-> Data(0)]
  BY DEF Init
<1>3. ListsInv
  BY <1>2 DEF ListsInv, Data
<1>4. SealInv
  BY DEF Init, SealInv
<1>5. NothingToReplay
  <2>1. First = start /\ seq = super.seq
    BY DEF Init, First, FirstSlot
  <2>2. \A b \in Home : disk[b].num = stable[b]
    BY <1>2 DEF Init, Fresh, Data
  <2>3. \A a \in Ring : disk[a].kind # "commit"
    BY <1>2 DEF Data
  <2> QED BY <1>1, <2>1, <2>2, <2>3 DEF NothingToReplay, Init
<1>6. Chained(<< >>)
  BY <1>5, EmptyChain
<1> QED BY <1>3, <1>4, <1>6 DEF CInv, ChainInv

LEMMA StutterCInv == ASSUME IInv, CInv, UNCHANGED vars PROVE CInv'
<1>1. UNCHANGED <<disk, super, start, seq, pend, op, k, img, stable, wrapped, overrun, spilled, mkfss>>
  BY DEF vars, diskVars, memVars, opVars, imgVars, flagVars, countVars
<1>2. ListsInv'
  BY <1>1 DEF CInv, ListsInv
<1>3. SealInv'
  <2>1. Targets' = Targets BY <1>1 DEF Targets, Count
  <2> QED BY <1>1, <2>1 DEF CInv, SealInv
<1>4. ASSUME NEW ch, Chained(ch) PROVE Chained(ch)'
  <2>1. Core(ch) /\ Memory(ch)
    BY <1>4 DEF Chained, Core
  <2>2. /\ Core(ch)' /\ SameLog(ch) /\ End(ch)' = End(ch)
        /\ \A j \in 1 .. Len(ch) + 1 : Slot(ch, j)' = Slot(ch, j)
        /\ \A a : Apart(ch, a)' <=> Apart(ch, a)
    BY <1>1, <2>1, CoreKept
  <2>3. ASSUME NEW j, NEW l, Done(ch, j, l) PROVE Done(ch, j, l)'
    BY <1>1, <2>2, <2>3, DoneKept
  <2>4. op \in {"run", "desc", "seal", "resume"} => Memory(ch)'
    BY <1>1, <2>1, <2>2, <2>3 DEF Memory
  <2>5. op \in {"apply", "down", "refused"} => Memory(ch)'
    BY <1>1, <2>1, <2>2 DEF Memory
  <2>6. op = "replay" => Memory(ch)'
    BY <1>1, <2>1, <2>2, <2>3 DEF Memory
  <2>7. op = "reapply" => Memory(ch)'
    <3> SUFFICES ASSUME op = "reapply" PROVE Memory(ch)' OBVIOUS
    <3>1. PICK j \in 1 .. Len(ch) : start = ch[j] /\ seq + 1 = super.seq + j /\ Done(ch, j, k)
      BY <2>1 DEF Memory
    <3>2. PICK l : l = k OBVIOUS
    <3>3. Done(ch, j, l)' BY <2>3, <3>1, <3>2
    <3>4. Done(ch, j, k)' BY <1>1, <3>2, <3>3 DEF Done
    <3> QED BY <1>1, <3>1, <3>4 DEF Memory
  <2>8. op \in {"run", "desc", "seal", "apply", "resume", "down", "refused",
                "replay", "reapply"}
    BY DEF IInv, TypeOK
  <2>9. Memory(ch)'
    BY <2>4, <2>5, <2>6, <2>7, <2>8
  <2> QED BY <2>2, <2>9 DEF Chained, Core
<1>5. ChainInv'
  BY <1>1, <1>4 DEF CInv, ChainInv, Excepted
<1> QED BY <1>2, <1>3, <1>5 DEF CInv

LEMMA StepCInv == IInv /\ CInv /\ [Next]_vars => CInv'
<1> SUFFICES ASSUME IInv, CInv, [Next]_vars PROVE CInv' OBVIOUS
<1>1. ASSUME NEW b \in Home, WriteBlock(b) PROVE CInv'
  BY <1>1, WriteBlockCInv
<1>2. CASE Commit BY <1>2, CommitCInv
<1>3. CASE CommitStep BY <1>3, CommitStepCInv
<1>4. CASE Crash BY <1>4, CrashCInv
<1>5. CASE Mount BY <1>5, MountCInv
<1>6. CASE ReplayStep
  BY <1>6, ReplayFoundCInv, ReplayNextCInv, ReplayEndCInv DEF ReplayStep
<1>7. CASE Mkfs BY <1>7, MkfsCInv
<1>8. CASE UNCHANGED vars BY <1>8, StutterCInv
<1>9. CASE MountRefused BY <1>9, MountRefusedCInv
<1> QED BY <1>1, <1>2, <1>3, <1>4, <1>5, <1>6, <1>7, <1>8, <1>9 DEF Next

\* A block the log names has a newest copy in it.
LEMMA NewestExists ==
  ASSUME NEW ch, Len(ch) \in Nat, NEW b, ~Unnamed(ch, b)
  PROVE  \E i, m \in Nat : Newest(ch, b, i, m)
<1> DEFINE n == Len(ch)
           S == {g \in 0 .. n : n - g \in 1 .. n /\ Names(ch[n - g], b)}
<1>1. PICK i \in 1 .. n : Names(ch[i], b)
  BY DEF Unnamed
<1>2. n - i \in S /\ S \in SUBSET Nat
  <2>1. n - i \in 0 .. n /\ n - (n - i) = i BY <1>1
  <2> QED BY <1>1, <2>1
<1>3. PICK g \in S : \A f \in S : g <= f
  <2> HIDE DEF S
  <2> QED BY <1>2, LeastOf
<1>4. PICK j : j = n - g
  OBVIOUS
<1>5. j \in 1 .. n /\ Names(ch[j], b) /\ g \in 0 .. n
  BY <1>3, <1>4
<1>6. ASSUME NEW l \in j + 1 .. n PROVE ~Names(ch[l], b)
  <2> SUFFICES ASSUME Names(ch[l], b) PROVE FALSE OBVIOUS
  <2>1. n - l \in 0 .. n /\ n - (n - l) = l /\ l \in 1 .. n BY <1>5
  <2>2. n - l \in S BY <2>1
  <2>3. g <= n - l BY <1>3, <2>2
  <2> QED BY <1>4, <1>5, <2>1, <2>3
<1>7. PICK m \in 1 .. Len(disk[ch[j]].list) : disk[ch[j]].list[m] = b
  BY <1>5 DEF Names
<1>8. Newest(ch, b, j, m) /\ j \in Nat /\ m \in Nat
  BY <1>5, <1>6, <1>7 DEF Newest
<1> QED BY <1>8

(* There is always a chain, and the memory of the code agrees with it. *)
THEOREM JournalChain == Spec => [](IInv /\ CInv)
<1>1. Init => CInv BY InitCInv
<1>2. IInv /\ CInv /\ [Next]_vars => CInv' BY StepCInv
<1> QED BY <1>1, <1>2, InitIInv, StepIInv, PTL DEF Spec

(* Redo logging is atomic: whatever block write a power failure interrupts  *)
(* and however often replay is interrupted, the mount that completes finds  *)
(* the last sealed transaction, provided none of the four exceptions that   *)
(* lose content (wrapped, overrun, spilled, mkfs) has come to pass.  In the *)
(* fifth, a failure between the sectors of the ext4 superblock, the mount   *)
(* is refused and replays nothing: then each block has its last sealed      *)
(* content or a sealed transaction of the log has it.                       *)
THEOREM RedoIsAtomic == Spec => CrashAtomic
<1>1. ASSUME IInv, CInv, Next, Recovered, ~wrapped, ~overrun, ~spilled, mkfss = 0
      PROVE  Image(disk) = stable
  <2>1. op = "replay" /\ op' = "run"
    BY <1>1 DEF Recovered
  <2>2. ~Sealed
    <3>1. ~(\E b \in Home : WriteBlock(b))
      BY <2>1 DEF WriteBlock, Relog, LogFirst, LogNext, ForceCommit
    <3>2. ~Commit /\ ~Crash /\ ~Mount /\ ~MountRefused /\ ~Mkfs
      BY <2>1 DEF Commit, Crash, Mount, MountRefused, Mkfs
    <3>3. ~CommitStep
      BY <2>1 DEF CommitStep, WriteDesc, WriteSeal, Apply, Advance, LogForced
    <3>4. ReplayEnd
      BY <1>1, <2>1, <3>1, <3>2, <3>3 DEF Next, ReplayStep, ReplayFound, ReplayNext
    <3> QED BY <3>4 DEF ReplayEnd
  <2>3. PICK ch : Chained(ch)
    BY <1>1 DEF CInv, ChainInv, Excepted
  <2>4. PICK j \in 1 .. Len(ch) + 1 :
          start = Slot(ch, j) /\ seq + 1 = super.seq + j /\ Done(ch, j, 1)
    BY <2>1, <2>3 DEF Chained, Memory
  <2>5. j = Len(ch) + 1
    BY <1>1, <2>2, <2>3, <2>4, ReplayPlace
  <2>6. Gives(ch) /\ ch \in Seq(Ring) /\ Len(ch) \in Nat
    BY <1>1, <2>3 DEF Chained
  <2>7. ASSUME NEW b \in Home PROVE disk[b].num = stable[b]
    <3>1. CASE Unnamed(ch, b)
      BY <2>6, <3>1 DEF Gives
    <3>2. CASE ~Unnamed(ch, b)
      <4>1. PICK i \in Nat, m \in Nat : Newest(ch, b, i, m)
        BY <2>6, <3>2, NewestExists
      <4>2. i < j
        BY <2>5, <2>6, <4>1 DEF Newest
      <4>3. disk[b].num = disk[ch[i] + m].num
        BY <2>4, <4>1, <4>2 DEF Done
      <4> QED BY <2>6, <4>1, <4>3 DEF Gives
    <3> QED BY <3>1, <3>2
  <2>8. stable \in [Home -> Nat]
    BY <1>1 DEF IInv, TypeOK
  <2> QED BY <2>7, <2>8 DEF Image
<1>2. ASSUME IInv, CInv, ~wrapped, ~overrun, ~spilled, mkfss = 0, NEW b \in Home
      PROVE  disk[b].num = stable[b] \/ InLog(b)
  <2>1. PICK ch : Chained(ch)
    BY <1>2 DEF CInv, ChainInv, Excepted
  <2>2. Gives(ch) /\ ch \in Seq(Ring) /\ Len(ch) \in Nat /\ Links(ch)
    BY <1>2, <2>1 DEF Chained
  <2>3. CASE Unnamed(ch, b)
    BY <2>2, <2>3 DEF Gives
  <2>4. CASE ~Unnamed(ch, b)
    <3>1. PICK i \in Nat, m \in Nat : Newest(ch, b, i, m)
      BY <2>2, <2>4, NewestExists
    <3>2. PICK s : s = ch[i]
      OBVIOUS
    <3>3. /\ i \in 1 .. Len(ch) /\ m \in 1 .. Len(disk[s].list) /\ disk[s].list[m] = b
          /\ disk[s + m].num = stable[b]
      BY <2>2, <3>1, <3>2 DEF Newest, Gives
    <3>4. s \in Ring /\ SealedAt(s, super.seq + i - 1)
      BY <2>2, <3>2, <3>3 DEF Links
    <3>5. disk[s].num = super.seq + i - 1
      BY <3>4 DEF SealedAt
    <3>6. super.seq \in Nat
      BY <1>2 DEF IInv, TypeOK
    <3>7. disk[s].num >= super.seq
      BY <3>1, <3>3, <3>5, <3>6
    <3>8. SealedAt(s, disk[s].num)
      BY <3>4, <3>5
    <3> QED BY <3>3, <3>4, <3>7, <3>8 DEF InLog
  <2> QED BY <2>3, <2>4
<1>3. IInv /\ CInv /\ [Next]_vars
        => [~wrapped /\ ~overrun /\ ~spilled /\ mkfss = 0
              => /\ Recovered => Image(disk) = stable
                 /\ Refused => \A b \in Home : disk[b].num = stable[b] \/ InLog(b)]_vars
  BY <1>1, <1>2
<1> QED BY <1>3, JournalChain, PTL DEF Spec, CrashAtomic
=============================================================================
