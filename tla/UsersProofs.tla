----------------------------- MODULE UsersProofs -----------------------------
(***************************************************************************)
(* The user table and /etc/passwd, for tables, passwords, files and        *)
(* accounts of every size.                                                 *)
(*                                                                         *)
(* The heart is RoundTrip: a table that is saved and loaded again has the  *)
(* same names and numbers, and every password that is plain.  It needs the *)
(* loop of load_from_fs (AcceptedLoop), which takes every line of a saved  *)
(* table (AcceptedAll).  The invariant adds what the disk holds as long as *)
(* something is promised (Kept), that nothing is promised of a harmed file *)
(* system, and that a file marked as the kernel's own is one it has        *)
(* written whole (OwnLines), whatever cut saves and harm did before.       *)
(***************************************************************************)
EXTENDS Users, Induction

-----------------------------------------------------------------------------
(* The constants *)

\* The sizes of the table and of a password are numbers, the table has a slot.
LEMMA Sizes == MAX_USERS \in Nat /\ MAX_USERS > 0 /\ PASS_CAP \in Nat
<1>1. MAX_USERS \in Nat \ {0} /\ PASS_CAP \in Nat
  BY UsersConstants
<1> QED BY ONLY <1>1

\* `as u8 as char` makes a character of a character, and keeps one of Latin-1.
LEMMA Bytes ==
  /\ \A c \in STRING : Byte(c) \in STRING
  /\ \A c : c \notin Wide => Byte(c) = c
<1>1. LowByte \in [Wide -> STRING \ {":"}]
  BY UsersConstants
<1> QED BY ONLY <1>1 DEF Byte

\* The name of root and the empty name are strings.
LEMMA Literals == "root" \in STRING /\ "" \in STRING
<1>1. ValidNames \cup OtherNames \cup {""} \subseteq STRING /\ "root" \in ValidNames
  BY UsersConstants
<1> QED BY ONLY <1>1

-----------------------------------------------------------------------------
(* The loop over the lines of the file *)

\* One turn of the loop of load_from_fs.
Taken(before, line) ==
  IF Good(line) /\ Len(before) < MAX_USERS THEN Append(before, line) ELSE before

\* What Accepted computes.
LEMMA AcceptedLoop ==
  ASSUME NEW lines \in Seq(PasswdLine)
  PROVE  \E f \in [0 .. Len(lines) -> Seq(PasswdLine)] :
           /\ f[0] = << >>
           /\ \A n \in 1 .. Len(lines) : f[n] = Taken(f[n - 1], lines[n])
           /\ Accepted(lines) = f[Len(lines)]
<1> DEFINE S == Seq(PasswdLine)
           N == Len(lines)
           step == [n \in 1 .. N |-> [before \in S |-> Taken(before, lines[n])]]
           Is(f) == f = [n \in 0 .. N |->
                          IF n = 0 THEN << >>
                          ELSE LET before == f[n - 1] IN
                               IF Good(lines[n]) /\ Len(before) < MAX_USERS
                                 THEN Append(before, lines[n]) ELSE before]
           taken == CHOOSE f : Is(f)
<1>1. step \in [1 .. N -> [S -> S]]
  <2>1. ASSUME NEW n \in 1 .. N, NEW before \in S PROVE Taken(before, lines[n]) \in S
    <3>1. lines[n] \in PasswdLine OBVIOUS
    <3>2. Append(before, lines[n]) \in S BY <3>1
    <3> QED BY <3>2 DEF Taken
  <2> QED BY <2>1
<1>2. PICK f \in [0 .. N -> S] : f[0] = << >> /\ \A n \in 1 .. N : f[n] = step[n][f[n - 1]]
  <2>1. PICK e : e = << >> OBVIOUS
  <2>2. PICK c : c = step
    <3> HIDE DEF step
    <3> QED OBVIOUS
  <2>3. e \in S /\ N \in Nat /\ c \in [1 .. N -> [S -> S]] BY <1>1, <2>2, <2>1
  <2> HIDE DEF step, S, N, Is, taken
  <2>4. \E f \in [0 .. N -> S] : f[0] = e /\ \A n \in 1 .. N : f[n] = c[n][f[n - 1]]
    BY ONLY <2>3, LoopExists
  <2> QED BY <2>2, <2>1, <2>4
<1>3. \A n \in 1 .. N : f[n] = Taken(f[n - 1], lines[n])
  <2> SUFFICES ASSUME NEW n \in 1 .. N PROVE f[n] = Taken(f[n - 1], lines[n]) OBVIOUS
  <2>1. n - 1 \in 0 .. N OBVIOUS
  <2>2. f[n - 1] \in S BY <2>1
  <2> QED BY <1>2, <2>2
<1>4. Is(f)
  <2>1. \A n \in 0 .. N : n # 0 => n \in 1 .. N OBVIOUS
  <2>2. f = [n \in 0 .. N |-> f[n]] OBVIOUS
  <2> QED BY <1>2, <1>3, <2>1, <2>2 DEF Taken
<1>5. Is(taken)
  BY <1>4
<1>6. Accepted(lines) = taken[N]
  BY DEF Accepted
<1>7. PICK g : g = taken
  OBVIOUS
<1>8. g[0] = << >> /\ \A n \in 1 .. N : g[n] = Taken(g[n - 1], lines[n])
  <2>1. g = [n \in 0 .. N |->
              IF n = 0 THEN << >>
              ELSE LET before == g[n - 1] IN
                   IF Good(lines[n]) /\ Len(before) < MAX_USERS
                     THEN Append(before, lines[n]) ELSE before]
    <3>1. Is(g) BY <1>5, <1>7
    <3> HIDE DEF taken
    <3> QED BY <3>1
  <2>2. N \in Nat OBVIOUS
  <2>3. 0 \in 0 .. N /\ \A n \in 1 .. N : n \in 0 .. N /\ n # 0 BY <2>2
  <2> HIDE DEF N
  <2> QED BY <2>1, <2>3 DEF Taken
<1>9. g[N] = f[N]
  <2> DEFINE Same == {n \in Nat : n <= N => g[n] = f[n]}
  <2> HIDE DEF taken
  <2>1. 0 \in Same
    BY <1>2, <1>8
  <2>2. ASSUME NEW n \in Nat, n \in Same PROVE n + 1 \in Same
    <3>1. SUFFICES ASSUME n + 1 <= N PROVE g[n + 1] = f[n + 1]
      OBVIOUS
    <3>2. g[n] = f[n]
      BY <2>2, <3>1
    <3>3. n + 1 \in 1 .. N /\ n + 1 - 1 = n
      BY <3>1
    <3> QED BY <1>3, <1>8, <3>2, <3>3
  <2> HIDE DEF Same
  <2>3. Nat \subseteq Same
    BY <2>1, <2>2, InductionOnNat
  <2>4. N \in Same /\ N <= N
    BY <2>3
  <2> QED BY <2>4 DEF Same
<1> QED BY <1>2, <1>3, <1>6, <1>7, <1>9

\* The lines taken are good and no more than the table holds.
LEMMA AcceptedGood ==
  ASSUME NEW lines \in Seq(PasswdLine)
  PROVE  /\ Accepted(lines) \in Seq(PasswdLine) /\ Len(Accepted(lines)) \in Nat
         /\ Len(Accepted(lines)) <= MAX_USERS
         /\ \A i \in 1 .. Len(Accepted(lines)) : Good(Accepted(lines)[i])
<1>1. PICK f \in [0 .. Len(lines) -> Seq(PasswdLine)] :
        /\ f[0] = << >>
        /\ \A n \in 1 .. Len(lines) : f[n] = Taken(f[n - 1], lines[n])
        /\ Accepted(lines) = f[Len(lines)]
  BY AcceptedLoop
<1> DEFINE Fine(s) == Len(s) <= MAX_USERS /\ \A i \in 1 .. Len(s) : Good(s[i])
           Ok == {n \in Nat : n <= Len(lines) => Fine(f[n])}
<1>2. MAX_USERS \in Nat
  BY Sizes
<1>3. 0 \in Ok
  BY <1>1, <1>2
<1>4. ASSUME NEW n \in Nat, n \in Ok PROVE n + 1 \in Ok
  <2>1. SUFFICES ASSUME n + 1 <= Len(lines) PROVE Fine(f[n + 1])
    OBVIOUS
  <2>2. n \in 0 .. Len(lines) /\ n + 1 \in 1 .. Len(lines) /\ n + 1 - 1 = n
    BY <2>1
  <2>3. PICK s \in Seq(PasswdLine) : s = f[n]
    BY <2>2
  <2>4. PICK l \in PasswdLine : l = lines[n + 1]
    BY <2>2
  <2>5. f[n + 1] = Taken(s, l) /\ Fine(s)
    BY <1>1, <1>4, <2>1, <2>2, <2>3, <2>4
  <2>6. Fine(Taken(s, l))
    <3>1. CASE Good(l) /\ Len(s) < MAX_USERS
      <4>1. PICK t : t = Append(s, l) OBVIOUS
      <4>2. Taken(s, l) = t BY <3>1, <4>1 DEF Taken
      <4>3. Len(s) \in Nat /\ Len(t) = Len(s) + 1 /\ t[Len(s) + 1] = l
            /\ \A i \in 1 .. Len(s) : t[i] = s[i]
        BY <4>1
      <4>4. Len(t) <= MAX_USERS BY <1>2, <3>1, <4>3
      <4>5. ASSUME NEW i \in 1 .. Len(t) PROVE Good(t[i])
        <5>1. i = Len(s) + 1 \/ i \in 1 .. Len(s) BY <4>3
        <5> QED BY <2>5, <3>1, <4>3, <5>1
      <4> QED BY <4>2, <4>4, <4>5
    <3>2. CASE ~(Good(l) /\ Len(s) < MAX_USERS)
      BY <2>5, <3>2 DEF Taken
    <3> QED BY <3>1, <3>2
  <2> QED BY <2>5, <2>6
<1> HIDE DEF Ok
<1>5. Nat \subseteq Ok
  BY <1>3, <1>4, InductionOnNat
<1>6. Fine(f[Len(lines)])
  BY <1>5 DEF Ok
<1> QED BY <1>1, <1>6

\* Of a file of good lines that fit, every line is taken.
LEMMA AcceptedAll ==
  ASSUME NEW lines \in Seq(PasswdLine), Len(lines) <= MAX_USERS,
         \A i \in 1 .. Len(lines) : Good(lines[i])
  PROVE  Accepted(lines) = lines
<1>1. PICK f \in [0 .. Len(lines) -> Seq(PasswdLine)] :
        /\ f[0] = << >>
        /\ \A n \in 1 .. Len(lines) : f[n] = Taken(f[n - 1], lines[n])
        /\ Accepted(lines) = f[Len(lines)]
  BY AcceptedLoop
<1> DEFINE Same(s, n) == Len(s) = n /\ \A i \in 1 .. n : s[i] = lines[i]
           Ok == {n \in Nat : n <= Len(lines) => Same(f[n], n)}
<1>2. MAX_USERS \in Nat /\ Len(lines) \in Nat
  BY Sizes
<1>3. 0 \in Ok
  BY <1>1
<1>4. ASSUME NEW n \in Nat, n \in Ok PROVE n + 1 \in Ok
  <2>1. SUFFICES ASSUME n + 1 <= Len(lines) PROVE Same(f[n + 1], n + 1)
    OBVIOUS
  <2>2. n \in 0 .. Len(lines) /\ n + 1 \in 1 .. Len(lines) /\ n + 1 - 1 = n
    BY <2>1
  <2>3. PICK s \in Seq(PasswdLine) : s = f[n]
    BY <2>2
  <2>4. PICK l \in PasswdLine : l = lines[n + 1]
    BY <2>2
  <2>5. f[n + 1] = Taken(s, l) /\ Same(s, n)
    BY <1>1, <1>4, <2>1, <2>2, <2>3, <2>4
  <2>6. Good(l) /\ Len(s) < MAX_USERS
    BY <1>2, <2>1, <2>2, <2>4, <2>5
  <2>7. PICK t : t = Append(s, l) OBVIOUS
  <2>8. f[n + 1] = t BY <2>5, <2>6, <2>7 DEF Taken
  <2>9. Len(t) = n + 1 /\ t[n + 1] = l /\ \A i \in 1 .. n : t[i] = s[i]
    BY <2>5, <2>7
  <2>10. ASSUME NEW i \in 1 .. n + 1 PROVE t[i] = lines[i]
    <3>1. i = n + 1 \/ i \in 1 .. n OBVIOUS
    <3> QED BY <2>4, <2>5, <2>9, <3>1
  <2> QED BY <2>8, <2>9, <2>10
<1> HIDE DEF Ok
<1>5. Nat \subseteq Ok
  BY <1>3, <1>4, InductionOnNat
<1>6. Same(f[Len(lines)], Len(lines))
  <2>1. Len(lines) \in Ok /\ Len(lines) <= Len(lines) BY <1>2, <1>5
  <2> QED BY <2>1 DEF Ok
<1>7. f[Len(lines)] \in Seq(PasswdLine)
  BY <1>2
<1> QED BY <1>1, <1>6, <1>7

-----------------------------------------------------------------------------
(* The invariant *)

\* A user of the table.
UserRecord == [name : STRING, uid : Nat, gid : Nat, pass : Seq(STRING)]

\* What USERS can hold.
IsTable(us) ==
  /\ us \in Seq(UserRecord) /\ Len(us) > 0 /\ Len(us) <= MAX_USERS
  /\ \A i \in 1 .. Len(us) : Len(us[i].pass) <= PASS_CAP

\* load_from_fs has added root, unless there was no room.
Rooted(us) == "root" \in NamesOf(us) \/ Len(us) = MAX_USERS

\* A table the kernel has made itself: root first, no name and no number twice.
Own(us) ==
  /\ IsTable(us) /\ us[1].name = "root" /\ us[1].uid = 0
  /\ \A i, j \in 1 .. Len(us) : us[i].name = us[j].name \/ us[i].uid = us[j].uid => i = j

\* The lines of a file the kernel has made itself: none, a wtest pattern, or the
\* whole of a table of its own.
OwnLines(lines) ==
  \/ lines = << >> \/ lines = <<Junk>>
  \/ \E us : Own(us) /\ lines = Text(us)

\* A file, with the mark that is history.
FileRecord == [there : BOOLEAN, dir : BOOLEAN, lines : Seq(PasswdLine), own : BOOLEAN]
IsFile(f) == f \in FileRecord /\ (f.own => OwnLines(f.lines))

\* The types of what is not the table.
Types ==
  /\ up \in BOOLEAN /\ etc \in BOOLEAN /\ foreign \in BOOLEAN /\ sound \in BOOLEAN
  /\ kind \in {"none", "fat", "ext4"}
  /\ IsFile(file)
  /\ file.there => etc

\* The table while the machine runs, and that a machine without power has none.
Memory ==
  /\ up => IsTable(users) /\ Rooted(users) /\ current \in 1 .. Len(users)
  /\ ~up => users = << >>

\* f is a file that read_file reads, with the whole of a table in it.
Holds(f, vs) == f.there /\ ~f.dir /\ f.lines = Text(vs)

\* The file holds the accounts of a promised table, if not its passwords to the
\* letter: a boot that lost power has written back what it read.  Nothing is
\* promised once the file system is harmed.
Kept ==
  promised # {} =>
    /\ sound
    /\ \E us \in promised : \E vs :
         IsTable(vs) /\ Rooted(vs) /\ Holds(file, vs) /\ SameAccounts(vs, us)

\* The inductive invariant.
UInv ==
  /\ Types /\ Memory /\ Kept
  /\ up /\ ~foreign => Own(users)

-----------------------------------------------------------------------------
(* The trip through the file *)

\* Min finds the least of a set of numbers.
LEMMA MinOf ==
  ASSUME NEW S \in SUBSET Nat, S # {}
  PROVE  Min(S) \in S /\ \A n \in S : Min(S) <= n
<1>1. \E m \in S : \A n \in S : m <= n
  BY LeastOf
<1> QED BY <1>1 DEF Min

\* The first n elements of a sequence.
LEMMA FirstOf ==
  ASSUME NEW S, NEW s \in Seq(S), NEW n \in 0 .. Len(s)
  PROVE  SubSeq(s, 1, n) \in Seq(S) /\ Len(SubSeq(s, 1, n)) = n
<1>1. n \in Nat /\ 1 .. n \subseteq 1 .. Len(s)
  OBVIOUS
<1>2. \A i \in 1 .. n : s[i] \in S
  BY <1>1
<1>3. SubSeq(s, 1, n) = [i \in 1 .. n |-> s[i]]
  OBVIOUS
<1> QED BY <1>1, <1>2, <1>3

\* A field of a line ends at a colon, or with the line.
LEMMA FieldFacts ==
  ASSUME NEW p \in Seq(STRING)
  PROVE  /\ Field(p) \in Seq(STRING) /\ Len(Field(p)) \in Nat /\ Len(Field(p)) <= Len(p)
         /\ (\A i \in 1 .. Len(p) : p[i] # ":") => Field(p) = p
<1> DEFINE colons == {i \in DOMAIN p : p[i] = ":"}
<1>1. Len(p) \in Nat /\ DOMAIN p = 1 .. Len(p)
  OBVIOUS
<1>2. CASE colons = {}
  <2>1. Field(p) = SubSeq(p, 1, Len(p)) BY <1>2 DEF Field
  <2>2. SubSeq(p, 1, Len(p)) = p OBVIOUS
  <2> QED BY <1>1, <2>1, <2>2
<1>3. CASE colons # {}
  <2>1. colons \in SUBSET Nat /\ colons \subseteq 1 .. Len(p) BY <1>1
  <2>2. PICK m \in 1 .. Len(p) : m = Min(colons)
    <3> HIDE DEF colons
    <3> QED BY <1>3, <2>1, MinOf
  <2>3. Field(p) = SubSeq(p, 1, m - 1)
    <3>1. Field(p) = SubSeq(p, 1, IF colons = {} THEN Len(p) ELSE Min(colons) - 1)
      BY DEF Field
    <3> HIDE DEF colons
    <3> QED BY <1>3, <2>2, <3>1
  <2>4. SubSeq(p, 1, m - 1) \in Seq(STRING) /\ Len(SubSeq(p, 1, m - 1)) = m - 1
    <3>0. m - 1 \in 0 .. Len(p) BY <1>1, <2>2
    <3>1. PICK n \in 0 .. Len(p) : n = m - 1 BY <3>0
    <3>2. SubSeq(p, 1, n) \in Seq(STRING) /\ Len(SubSeq(p, 1, n)) = n
      BY <3>1, FirstOf
    <3> QED BY <3>1, <3>2
  <2>5. \E i \in 1 .. Len(p) : p[i] = ":" BY <1>1, <1>3
  <2> QED BY <1>1, <2>2, <2>3, <2>4, <2>5
<1> QED BY <1>2, <1>3

\* The line written for a user, and the user made of it.
LEMMA LineFacts ==
  ASSUME NEW u \in UserRecord, Len(u.pass) <= PASS_CAP
  PROVE  /\ Line(u) \in PasswdLine /\ Good(Line(u))
         /\ Parsed(Line(u)) \in UserRecord
         /\ Len(Parsed(Line(u)).pass) <= PASS_CAP
         /\ Parsed(Line(u)).name = u.name
         /\ Parsed(Line(u)).uid = u.uid /\ Parsed(Line(u)).gid = u.gid
         /\ Plain(u.pass) => Parsed(Line(u)).pass = u.pass
<1> DEFINE bytes == [i \in DOMAIN u.pass |-> Byte(u.pass[i])]
<1>1. /\ u.name \in STRING /\ u.uid \in Nat /\ u.gid \in Nat /\ u.pass \in Seq(STRING)
      /\ Len(u.pass) \in Nat /\ DOMAIN u.pass = 1 .. Len(u.pass) /\ PASS_CAP \in Nat
  BY Sizes DEF UserRecord
<1>2. \A i \in 1 .. Len(u.pass) : Byte(u.pass[i]) \in STRING
  <2>1. \A i \in 1 .. Len(u.pass) : u.pass[i] \in STRING BY <1>1
  <2> QED BY ONLY <2>1, Bytes
<1>3. bytes \in Seq(STRING) /\ Len(bytes) = Len(u.pass) /\ DOMAIN bytes = 1 .. Len(u.pass)
  BY <1>1, <1>2
<1>4. Line(u) = [fields |-> 4, name |-> u.name, uid |-> {u.uid}, gid |-> {u.gid}, pass |-> bytes]
  BY DEF Line
<1>5. Plain(u.pass) => bytes = u.pass /\ \A i \in 1 .. Len(bytes) : bytes[i] # ":"
  <2> SUFFICES ASSUME Plain(u.pass)
               PROVE  bytes = u.pass /\ \A i \in 1 .. Len(bytes) : bytes[i] # ":"
    OBVIOUS
  <2>1. \A i \in 1 .. Len(u.pass) : bytes[i] = u.pass[i] /\ u.pass[i] # ":"
    BY <1>1, Bytes DEF Plain
  <2>2. u.pass = [i \in 1 .. Len(u.pass) |-> u.pass[i]]
    BY <1>1
  <2>3. bytes = u.pass
    BY <1>1, <2>1, <2>2
  <2> HIDE DEF bytes
  <2> QED BY <2>1, <2>3
<1> HIDE DEF bytes
<1>6. Line(u) \in PasswdLine
  BY <1>1, <1>3, <1>4 DEF PasswdLine
<1>7. /\ Field(bytes) \in Seq(STRING) /\ Len(Field(bytes)) \in Nat
      /\ Len(Field(bytes)) <= Len(bytes)
      /\ (\A i \in 1 .. Len(bytes) : bytes[i] # ":") => Field(bytes) = bytes
  BY <1>3, FieldFacts
<1>8. Len(Field(bytes)) <= PASS_CAP
  BY <1>1, <1>3, <1>7
<1>9. Good(Line(u))
  BY <1>4, <1>8 DEF Good
<1>10. Parsed(Line(u)) = [name |-> u.name, uid |-> u.uid, gid |-> u.gid, pass |-> Field(bytes)]
  BY <1>4 DEF Parsed, NumberOr, User
<1> QED BY <1>1, <1>5, <1>6, <1>7, <1>8, <1>9, <1>10 DEF UserRecord

\* Any good line makes a user.
LEMMA ParsedFacts ==
  ASSUME NEW l \in PasswdLine, Good(l)
  PROVE  Parsed(l) \in UserRecord /\ Len(Parsed(l).pass) <= PASS_CAP
<1>1. l.name \in STRING /\ l.uid \in SUBSET Nat /\ l.gid \in SUBSET Nat /\ l.pass \in Seq(STRING)
  BY DEF PasswdLine
<1>2. Field(l.pass) \in Seq(STRING) /\ Len(Field(l.pass)) <= PASS_CAP
  BY <1>1, FieldFacts DEF Good
<1>3. \A n \in SUBSET Nat, d \in Nat : NumberOr(n, d) \in Nat
  BY DEF NumberOr
<1>4. PICK uid \in Nat : uid = NumberOr(l.uid, 0)
  BY <1>1, <1>3
<1>5. PICK gid \in Nat : gid = NumberOr(l.gid, uid)
  BY <1>1, <1>3
<1>6. Parsed(l) = [name |-> l.name, uid |-> uid, gid |-> gid, pass |-> Field(l.pass)]
  BY <1>4, <1>5 DEF Parsed, User
<1> QED BY <1>1, <1>2, <1>6 DEF UserRecord

\* What save_to_fs writes for a table.
LEMMA TextFacts ==
  ASSUME NEW us, IsTable(us)
  PROVE  /\ Text(us) \in Seq(PasswdLine) /\ Len(Text(us)) = Len(us) /\ Text(us) # << >>
         /\ \A i \in 1 .. Len(us) : Text(us)[i] = Line(us[i]) /\ Good(Text(us)[i])
<1>1. us \in Seq(UserRecord) /\ DOMAIN us = 1 .. Len(us) /\ Len(us) \in Nat /\ Len(us) > 0
  BY DEF IsTable
<1>2. \A i \in 1 .. Len(us) : Line(us[i]) \in PasswdLine /\ Good(Line(us[i]))
  <2> SUFFICES ASSUME NEW i \in 1 .. Len(us)
               PROVE  Line(us[i]) \in PasswdLine /\ Good(Line(us[i]))
    OBVIOUS
  <2>1. PICK u \in UserRecord : u = us[i] /\ Len(u.pass) <= PASS_CAP
    BY <1>1 DEF IsTable
  <2> QED BY <2>1, LineFacts
<1>3. Text(us) = [i \in 1 .. Len(us) |-> Line(us[i])]
  BY <1>1 DEF Text
<1> QED BY <1>1, <1>2, <1>3

\* The empty sequence is one of anything.
LEMMA EmptyIsSeq == ASSUME NEW S PROVE << >> \in Seq(S) /\ Len(<< >>) = 0
OBVIOUS

\* The record users::init makes for root.
LEMMA RootRecord ==
  Root \in UserRecord /\ Root.name = "root" /\ Root.uid = 0 /\ Len(Root.pass) = 0
<1>1. PICK e : e = << >>
  OBVIOUS
<1>2. e \in Seq(STRING) /\ Len(e) = 0
  BY <1>1, EmptyIsSeq
<1>3. "root" \in STRING
  BY Literals
<1>4. Root = [name |-> "root", uid |-> 0, gid |-> 0, pass |-> e]
  BY <1>1 DEF Root, User
<1>5. Root \in UserRecord
  BY <1>2, <1>3, <1>4 DEF UserRecord
<1> QED BY <1>2, <1>4, <1>5

\* Whatever the file holds, the table made of it has root, or no room for it.
LEMMA TableFacts ==
  ASSUME NEW lines \in Seq(PasswdLine)
  PROVE  IsTable(Table(lines)) /\ Rooted(Table(lines))
<1>1. PICK acc : acc = Accepted(lines)
  OBVIOUS
<1>2. /\ acc \in Seq(PasswdLine) /\ Len(acc) \in Nat /\ Len(acc) <= MAX_USERS
      /\ DOMAIN acc = 1 .. Len(acc)
      /\ \A i \in 1 .. Len(acc) : Good(acc[i])
  BY <1>1, AcceptedGood
<1>3. PICK us : us = [i \in DOMAIN acc |-> Parsed(acc[i])]
  OBVIOUS
<1>4. \A i \in 1 .. Len(acc) : Parsed(acc[i]) \in UserRecord /\ Len(Parsed(acc[i]).pass) <= PASS_CAP
  BY <1>2, ParsedFacts
<1>5. /\ us \in Seq(UserRecord) /\ Len(us) = Len(acc) /\ DOMAIN us = 1 .. Len(us)
      /\ \A i \in 1 .. Len(us) : Len(us[i].pass) <= PASS_CAP
  BY <1>2, <1>3, <1>4
<1>6. MAX_USERS \in Nat /\ MAX_USERS > 0 /\ PASS_CAP \in Nat
  BY Sizes
<1>7. Table(lines) = IF "root" \in NamesOf(us) \/ Len(us) >= MAX_USERS THEN us ELSE Append(us, Root)
  BY <1>1, <1>3 DEF Table
<1>8. CASE "root" \in NamesOf(us) \/ Len(us) >= MAX_USERS
  <2>1. Len(us) > 0
    <3>1. CASE "root" \in NamesOf(us)
      BY <1>2, <1>5, <3>1 DEF NamesOf
    <3>2. CASE Len(us) >= MAX_USERS
      BY <1>2, <1>5, <1>6, <3>2
    <3> QED BY <1>8, <3>1, <3>2
  <2>2. Len(us) <= MAX_USERS /\ (Len(us) >= MAX_USERS => Len(us) = MAX_USERS)
    <3>1. PICK n \in Nat : n = Len(us) /\ n <= MAX_USERS BY <1>2, <1>5
    <3>2. n >= MAX_USERS => n = MAX_USERS BY ONLY <1>6, <3>1
    <3> QED BY <3>1, <3>2
  <2> QED BY <1>5, <1>7, <1>8, <2>1, <2>2 DEF IsTable, Rooted
<1>9. CASE ~("root" \in NamesOf(us) \/ Len(us) >= MAX_USERS)
  <2>1. PICK ts : ts = Append(us, Root)
    OBVIOUS
  <2>2. /\ ts \in Seq(UserRecord) /\ Len(ts) = Len(us) + 1 /\ DOMAIN ts = 1 .. Len(us) + 1
        /\ ts[Len(us) + 1] = Root /\ \A i \in 1 .. Len(us) : ts[i] = us[i]
    BY <1>5, <2>1, RootRecord
  <2>3. Len(us) \in Nat /\ Len(ts) > 0 /\ Len(ts) <= MAX_USERS
    BY <1>2, <1>5, <1>6, <1>9, <2>2
  <2>4. \A i \in 1 .. Len(ts) : Len(ts[i].pass) <= PASS_CAP
    <3> SUFFICES ASSUME NEW i \in 1 .. Len(ts) PROVE Len(ts[i].pass) <= PASS_CAP OBVIOUS
    <3>1. i = Len(us) + 1 \/ i \in 1 .. Len(us) BY <2>2, <2>3
    <3> QED BY <1>5, <1>6, <2>2, <3>1, RootRecord
  <2>5. "root" \in NamesOf(ts)
    <3>1. Len(us) + 1 \in DOMAIN ts /\ ts[Len(us) + 1].name = "root" BY <2>2, <2>3, RootRecord
    <3> QED BY <3>1 DEF NamesOf
  <2> QED BY <1>7, <1>9, <2>1, <2>2, <2>3, <2>4, <2>5 DEF IsTable, Rooted
<1> QED BY <1>8, <1>9

\* A table that is written and read again is the same but for passwords that
\* are not plain.
LEMMA RoundTrip ==
  ASSUME NEW us, IsTable(us), Rooted(us)
  PROVE  /\ SameAccounts(Table(Text(us)), us)
         /\ Own(us) => Own(Table(Text(us)))
<1>1. /\ us \in Seq(UserRecord) /\ DOMAIN us = 1 .. Len(us) /\ Len(us) \in Nat /\ Len(us) > 0
      /\ Len(us) <= MAX_USERS /\ MAX_USERS \in Nat
  BY Sizes DEF IsTable
<1>2. PICK lines : lines = Text(us)
  OBVIOUS
<1>3. /\ lines \in Seq(PasswdLine) /\ Len(lines) = Len(us) /\ DOMAIN lines = 1 .. Len(us)
      /\ \A i \in 1 .. Len(us) : lines[i] = Line(us[i]) /\ Good(lines[i])
  BY <1>2, TextFacts
<1>4. Accepted(lines) = lines
  BY <1>1, <1>3, AcceptedAll
<1>5. PICK ts : ts = [i \in DOMAIN lines |-> Parsed(lines[i])]
  OBVIOUS
<1>6. ASSUME NEW i \in 1 .. Len(us)
      PROVE  /\ ts[i].name = us[i].name /\ ts[i].uid = us[i].uid /\ ts[i].gid = us[i].gid
             /\ Plain(us[i].pass) => ts[i].pass = us[i].pass
             /\ ts[i] \in UserRecord
  <2>1. PICK u \in UserRecord : u = us[i] /\ Len(u.pass) <= PASS_CAP
    BY <1>1 DEF IsTable
  <2>2. ts[i] = Parsed(Line(u))
    BY <1>3, <1>5, <2>1
  <2> QED BY <2>1, <2>2, LineFacts
<1>7. ts \in Seq(UserRecord) /\ Len(ts) = Len(us) /\ DOMAIN ts = 1 .. Len(us)
  BY <1>1, <1>3, <1>5, <1>6
<1>8. "root" \in NamesOf(ts) \/ Len(ts) >= MAX_USERS
  <2>1. CASE "root" \in NamesOf(us)
    <3>1. PICK i \in 1 .. Len(us) : us[i].name = "root" BY <1>1, <2>1 DEF NamesOf
    <3>2. ts[i].name = "root" BY <1>6, <3>1
    <3> QED BY <1>7, <3>2 DEF NamesOf
  <2>2. CASE Len(us) = MAX_USERS
    BY <1>1, <1>7, <2>2
  <2> QED BY <2>1, <2>2 DEF Rooted
<1>9. Table(Text(us)) = ts
  BY <1>2, <1>4, <1>5, <1>8 DEF Table
<1>10. SameAccounts(ts, us)
  BY <1>6, <1>7 DEF SameAccounts
<1>11. Own(us) => Own(ts)
  <2> SUFFICES ASSUME Own(us) PROVE Own(ts) OBVIOUS
  <2>1. IsTable(ts) BY <1>2, <1>3, <1>9, TableFacts
  <2>2. 1 \in 1 .. Len(us) BY <1>1
  <2>3. ts[1].name = "root" /\ ts[1].uid = 0 BY <1>6, <2>2 DEF Own
  <2>4. \A i, j \in 1 .. Len(ts) : ts[i].name = ts[j].name \/ ts[i].uid = ts[j].uid => i = j
    BY <1>6, <1>7 DEF Own
  <2> QED BY <2>1, <2>3, <2>4 DEF Own
<1> QED BY <1>9, <1>10, <1>11

\* A file that is no passwd file brings back the table of users::init.
LEMMA JunkTable == Own(Table(<<Junk>>)) /\ <<Junk>> \in Seq(PasswdLine)
<1>1. Junk \in PasswdLine /\ ~Good(Junk)
  <2>1. "" \in STRING BY Literals
  <2>2. << >> \in Seq(STRING) BY EmptyIsSeq
  <2>3. Junk \in PasswdLine BY <2>1, <2>2 DEF Junk, PasswdLine
  <2>4. Junk.fields = 1 BY DEF Junk
  <2> QED BY <2>3, <2>4 DEF Good
<1>2. PICK lines : lines = <<Junk>>
  OBVIOUS
<1>3. lines \in Seq(PasswdLine) /\ Len(lines) = 1 /\ lines[1] = Junk
  BY <1>1, <1>2
<1>4. PICK f \in [0 .. Len(lines) -> Seq(PasswdLine)] :
        /\ f[0] = << >>
        /\ \A n \in 1 .. Len(lines) : f[n] = Taken(f[n - 1], lines[n])
        /\ Accepted(lines) = f[Len(lines)]
  BY <1>3, AcceptedLoop
<1>5. Accepted(lines) = << >>
  <2>1. 1 \in 1 .. Len(lines) /\ 1 - 1 = 0 BY <1>3
  <2>2. f[1] = Taken(f[0], Junk) BY <1>3, <1>4, <2>1
  <2> QED BY <1>1, <1>3, <1>4, <2>2 DEF Taken
<1>6. PICK ts : ts = Table(lines)
  OBVIOUS
<1>7. ts = <<Root>>
  <2>1. PICK us : us = [i \in DOMAIN Accepted(lines) |-> Parsed(Accepted(lines)[i])]
    OBVIOUS
  <2>2. us = << >> BY <1>5, <2>1
  <2>3. NamesOf(us) = {} /\ Len(us) = 0 /\ Append(us, Root) = <<Root>>
    BY <2>2 DEF NamesOf
  <2>4. ~(0 >= MAX_USERS) BY Sizes
  <2> QED BY <1>6, <2>1, <2>3, <2>4 DEF Table
<1>8. IsTable(ts)
  BY <1>3, <1>6, TableFacts
<1>9. ts[1] = Root /\ Len(ts) = 1
  BY <1>7
<1>10. Own(ts)
  BY <1>8, <1>9, RootRecord DEF Own
<1> QED BY <1>2, <1>3, <1>6, <1>10

\* The table of users::init.
LEMMA RootTable == Own(<<Root>>)
<1>1. Root \in UserRecord /\ Root.name = "root" /\ Root.uid = 0 /\ Len(Root.pass) = 0
  BY RootRecord
<1>2. PICK us : us = <<Root>>
  OBVIOUS
<1>3. us \in Seq(UserRecord) /\ Len(us) = 1 /\ us[1] = Root
  BY <1>1, <1>2
<1>4. \A i \in 1 .. Len(us) : i = 1
  BY <1>3
<1>5. IsTable(us)
  BY <1>1, <1>3, <1>4, Sizes DEF IsTable
<1>6. Own(us)
  BY <1>1, <1>3, <1>4, <1>5 DEF Own
<1> QED BY <1>2, <1>6

\* A table of the kernel's own has its root.
LEMMA OwnIsRooted == ASSUME NEW us, Own(us) PROVE IsTable(us) /\ Rooted(us)
<1>1. IsTable(us) /\ us[1].name = "root"
  BY DEF Own
<1>2. 1 \in DOMAIN us
  BY <1>1 DEF IsTable
<1> QED BY <1>1, <1>2 DEF Rooted, NamesOf

-----------------------------------------------------------------------------
(* next_uid and add_user_core *)

\* n users cannot have n + 1 numbers.
LEMMA TooManyNumbers ==
  ASSUME NEW n \in Nat, NEW us
  PROVE  \E u \in 1000 .. 1000 + n : \A i \in 1 .. n : us[i].uid # u
<1> DEFINE S == 1000 .. 1000 + n
           Has(u, i) == us[i].uid = u
<1>1. IsFiniteSet(S) /\ Cardinality(S) = n + 1
  <2>1. 1000 \in Int /\ 1000 + n \in Int OBVIOUS
  <2>2. IsFiniteSet(S) /\ Cardinality(S) = IF 1000 > 1000 + n THEN 0 ELSE 1000 + n - 1000 + 1
    BY ONLY <2>1, FS_Interval
  <2> QED BY <2>2
<1>2. IsFiniteSet(1 .. n) /\ Cardinality(1 .. n) = n
  <2>1. 1 \in Int /\ n \in Int OBVIOUS
  <2>2. IsFiniteSet(1 .. n) /\ Cardinality(1 .. n) = IF 1 > n THEN 0 ELSE n - 1 + 1
    BY ONLY <2>1, FS_Interval
  <2> QED BY <2>2
<1>3. Cardinality(1 .. n) < Cardinality(S)
  BY <1>1, <1>2
<1>4. \A u, v, i : Has(u, i) /\ Has(v, i) => u = v
  OBVIOUS
<1> SUFFICES ASSUME \A u \in S : \E i \in 1 .. n : Has(u, i)
             PROVE  FALSE
  OBVIOUS
<1> HIDE DEF S, Has
<1> DEFINE who == [u \in S |-> CHOOSE i \in 1 .. n : Has(u, i)]
<1>5. \A u \in S : who[u] \in 1 .. n /\ Has(u, who[u])
  OBVIOUS
<1>6. who \in [S -> 1 .. n]
  BY <1>5
<1> HIDE DEF who
<1>7. \E u, v \in S : u # v /\ who[u] = who[v]
  BY ONLY <1>1, <1>2, <1>3, <1>6, FS_PigeonHole
<1> QED BY <1>4, <1>5, <1>7

\* next_uid finds a number: there is one more candidate than there are users.
LEMMA NextUidIsFree ==
  ASSUME IsTable(users)
  PROVE  /\ NextUid \in Nat /\ NextUid >= 1000
         /\ \A i \in 1 .. Len(users) : users[i].uid # NextUid
<1> DEFINE Free == {u \in 1000 .. 1000 + Len(users) : \A i \in DOMAIN users : users[i].uid # u}
<1>1. Len(users) \in Nat /\ DOMAIN users = 1 .. Len(users)
  BY DEF IsTable
<1>2. PICK n, us : n \in Nat /\ n = Len(users) /\ us = users
  BY <1>1
<1>3. \E u \in 1000 .. 1000 + n : \A i \in 1 .. n : us[i].uid # u
  BY ONLY <1>2, TooManyNumbers
<1>4. Free # {}
  BY <1>1, <1>2, <1>3
<1>5. Free \in SUBSET Nat
  BY <1>1
<1>6. NextUid = Min(Free)
  BY DEF NextUid
<1>7. Min(Free) \in Free
  <2> HIDE DEF Free
  <2> QED BY <1>4, <1>5, MinOf
<1> QED BY <1>1, <1>6, <1>7

\* The new user has a name and a number of its own.
LEMMA AddedTable ==
  ASSUME IsTable(users), Rooted(users), Room, NEW name \in ValidNames, name \notin NamesOf(users),
         NEW us, us = Append(users, User(name, NextUid, NextUid, << >>))
  PROVE  IsTable(us) /\ Rooted(us) /\ Len(us) = Len(users) + 1 /\ (Own(users) => Own(us))
<1> DEFINE n == Len(users)
<1>1. PICK new : new = User(name, NextUid, NextUid, << >>)
  OBVIOUS
<1>2. /\ NextUid \in Nat /\ NextUid >= 1000
      /\ \A i \in 1 .. n : users[i].uid # NextUid
  BY NextUidIsFree
<1>3. /\ new \in UserRecord /\ new.name = name /\ new.uid = NextUid /\ Len(new.pass) = 0
  <2>1. PICK e : e = << >> OBVIOUS
  <2>2. e \in Seq(STRING) /\ Len(e) = 0 BY <2>1, EmptyIsSeq
  <2>3. ValidNames \cup OtherNames \cup {""} \subseteq STRING BY UsersConstants
  <2>4. name \in STRING BY <2>3
  <2>5. new = [name |-> name, uid |-> NextUid, gid |-> NextUid, pass |-> e]
    BY <1>1, <2>1 DEF User
  <2> QED BY <1>2, <2>2, <2>4, <2>5 DEF UserRecord
<1>4. users \in Seq(UserRecord) /\ n \in Nat /\ n > 0 /\ DOMAIN users = 1 .. n
  BY DEF IsTable
<1>5. /\ us \in Seq(UserRecord) /\ Len(us) = n + 1 /\ DOMAIN us = 1 .. n + 1
      /\ us[n + 1] = new /\ \A i \in 1 .. n : us[i] = users[i]
  BY <1>1, <1>3, <1>4
<1>6. n + 1 <= MAX_USERS
  BY <1>4, Sizes DEF Room
<1> HIDE DEF n
<1>7. \A i \in 1 .. n + 1 : i = n + 1 \/ i \in 1 .. n
  BY <1>4
<1>8. \A i \in 1 .. n + 1 : Len(us[i].pass) <= PASS_CAP
  <2>1. \A i \in 1 .. n : Len(users[i].pass) <= PASS_CAP BY DEF IsTable, n
  <2>2. Len(new.pass) <= PASS_CAP BY <1>3, Sizes
  <2> QED BY <1>5, <1>7, <2>1, <2>2
<1>9. IsTable(us)
  BY <1>4, <1>5, <1>6, <1>8 DEF IsTable
<1>10. Rooted(us)
  <2>1. "root" \in NamesOf(users)
    <3>1. n # MAX_USERS BY ONLY <1>4, <1>6, Sizes
    <3> QED BY <3>1 DEF Rooted, n
  <2>2. PICK i \in 1 .. n : users[i].name = "root" BY <1>4, <2>1 DEF NamesOf
  <2>3. i \in DOMAIN us /\ us[i].name = "root" BY <1>4, <1>5, <2>2
  <2> QED BY <2>3 DEF Rooted, NamesOf
<1>11. Own(users) => Own(us)
  <2> SUFFICES ASSUME Own(users) PROVE Own(us) OBVIOUS
  <2>1. us[1].name = "root" /\ us[1].uid = 0
    <3>1. 1 \in 1 .. n BY <1>4
    <3> QED BY <1>5, <3>1 DEF Own
  <2>2. ASSUME NEW i \in 1 .. n PROVE us[i].name # name /\ us[i].uid # NextUid
    <3>1. users[i].name \in NamesOf(users) BY <1>4 DEF NamesOf
    <3>2. users[i].uid # NextUid BY <1>2 DEF n
    <3> QED BY <1>5, <3>1, <3>2
  <2>3. \A i, j \in 1 .. n : us[i].name = us[j].name \/ us[i].uid = us[j].uid => i = j
    BY <1>5 DEF Own, n
  <2>4. \A i, j \in 1 .. n + 1 : us[i].name = us[j].name \/ us[i].uid = us[j].uid => i = j
    BY <1>3, <1>5, <1>7, <2>2, <2>3
  <2> QED BY <1>5, <1>9, <2>1, <2>4 DEF Own
<1> QED BY <1>5, <1>9, <1>10, <1>11 DEF n

-----------------------------------------------------------------------------
(* save_to_fs *)

\* The files the commands leave have their types.
LEMMA FileTypes ==
  /\ IsFile(Absent) /\ ~Absent.there
  /\ IsFile(Directory) /\ Directory.there
  /\ \A lines \in Seq(PasswdLine), own \in BOOLEAN :
       (own => OwnLines(lines)) => IsFile(File(lines, own))
  /\ << >> \in Seq(PasswdLine) /\ <<Junk>> \in Seq(PasswdLine)
<1>1. PICK e : e = << >>
  OBVIOUS
<1>2. e \in Seq(PasswdLine) /\ <<Junk>> \in Seq(PasswdLine) /\ OwnLines(e)
  BY <1>1, EmptyIsSeq, JunkTable DEF OwnLines
<1>3. Absent = [there |-> FALSE, dir |-> FALSE, lines |-> e, own |-> TRUE]
  BY <1>1 DEF Absent
<1>4. Directory = [there |-> TRUE, dir |-> TRUE, lines |-> e, own |-> FALSE]
  BY <1>1 DEF Directory
<1>5. IsFile(Absent) /\ ~Absent.there
  BY <1>2, <1>3 DEF IsFile, FileRecord
<1>6. IsFile(Directory) /\ Directory.there
  BY <1>2, <1>4 DEF IsFile, FileRecord
<1>7. ASSUME NEW lines \in Seq(PasswdLine), NEW own \in BOOLEAN, own => OwnLines(lines)
      PROVE  IsFile(File(lines, own))
  BY <1>7 DEF IsFile, FileRecord, File
<1> QED BY <1>1, <1>2, <1>5, <1>6, <1>7

\* A file that is own in part, with something of an older one behind.
LEMMA RaggedFacts ==
  ASSUME Types, NEW lines \in Seq(PasswdLine), NEW f \in Ragged(lines)
  PROVE  IsFile(f)
<1>1. PICK p \in (0 .. Len(lines)) \X Rests :
        f = [there |-> TRUE, dir |-> file.dir, lines |-> SubSeq(lines, 1, p[1]) \o p[2],
             own |-> FALSE]
  BY DEF Ragged
<1>2. PICK n \in 0 .. Len(lines), rest \in Rests : n = p[1] /\ rest = p[2]
  OBVIOUS
<1>3. PICK begin : begin = SubSeq(lines, 1, n)
  OBVIOUS
<1>4. begin \in Seq(PasswdLine)
  BY <1>3, FirstOf
<1>5. rest \in Seq(PasswdLine)
  BY UsersConstants
<1>6. begin \o rest \in Seq(PasswdLine)
  BY <1>4, <1>5
<1>7. PICK ls \in Seq(PasswdLine) : ls = begin \o rest
  BY <1>6
<1>8. file.dir \in BOOLEAN
  BY DEF Types, IsFile, FileRecord
<1>9. f = [there |-> TRUE, dir |-> file.dir, lines |-> ls, own |-> FALSE]
  BY <1>1, <1>2, <1>3, <1>7
<1> QED BY <1>8, <1>9 DEF IsFile, FileRecord

\* What a save leaves in the file; a sound ext4 keeps a file with lines or has all
\* of the new ones.
LEMMA SaveFacts ==
  ASSUME Types, NEW us, IsTable(us), NEW own \in BOOLEAN, own => Own(us),
         NEW f, f \in Saved(us, own)
  PROVE  /\ IsFile(f) /\ (f.there => etc)
         /\ kind = "ext4" /\ sound /\ file.there /\ ~file.dir /\ file.lines # << >>
              => f = file \/ Holds(f, us)
<1>1. IsFile(file) /\ (file.there => etc)
  BY DEF Types
<1>2. CASE ~CanSave
  BY <1>1, <1>2 DEF Saved
<1>3. CASE CanSave
  <2>1. etc BY <1>3 DEF CanSave
  <2>2. Text(us) \in Seq(PasswdLine) BY TextFacts
  <2>3. IsFile(Whole(us, own))
    <3>1. PICK ls \in Seq(PasswdLine) : ls = Text(us) BY <2>2
    <3>2. file.dir \in BOOLEAN BY <1>1 DEF IsFile, FileRecord
    <3>3. own /\ ~file.dir => OwnLines(ls) BY <3>1 DEF OwnLines
    <3>4. Whole(us, own) = [there |-> TRUE, dir |-> file.dir, lines |-> ls,
                            own |-> own /\ ~file.dir]
      BY <3>1 DEF Whole
    <3>5. PICK mine : mine = (own /\ ~file.dir) OBVIOUS
    <3>6. mine \in BOOLEAN /\ (mine => OwnLines(ls)) BY <3>2, <3>3, <3>5
    <3>7. PICK d \in BOOLEAN : d = file.dir BY <3>2
    <3>8. Whole(us, own) = [there |-> TRUE, dir |-> d, lines |-> ls, own |-> mine]
      BY <3>4, <3>5, <3>7
    <3> QED BY <3>6, <3>8 DEF IsFile, FileRecord
  <2>4. ~file.dir => Holds(Whole(us, own), us)
    BY DEF Holds, Whole
  <2>5. \A g \in Failed : IsFile(g)
    <3>1. IsFile(File(<< >>, TRUE))
      <4>1. << >> \in Seq(PasswdLine) /\ OwnLines(<< >>) BY FileTypes DEF OwnLines
      <4> QED BY <4>1, FileTypes
    <3>2. kind = "fat" => Failed = {file} BY DEF Failed
    <3>3. kind = "ext4" => Failed \subseteq {file, File(<< >>, TRUE)} BY DEF Failed
    <3>4. kind \in {"fat", "ext4"} BY <1>3 DEF CanSave, Types
    <3> QED BY <1>1, <3>1, <3>2, <3>3, <3>4
  <2>6. \A g \in Ragged(Text(us)) : IsFile(g)
    BY <2>2, RaggedFacts
  <2>7. f \in {file, Whole(us, own)} \cup Failed \cup Ragged(Text(us))
    BY <1>3 DEF Saved
  <2>8. IsFile(f)
    BY <1>1, <2>3, <2>5, <2>6, <2>7
  <2>9. kind = "ext4" /\ sound /\ file.there /\ ~file.dir /\ file.lines # << >>
          => f = Whole(us, own)
    <3> SUFFICES ASSUME kind = "ext4", sound, file.there, ~file.dir, file.lines # << >>
                 PROVE  f = Whole(us, own)
      OBVIOUS
    <3>1. Failed = {} BY DEF Failed
    <3>2. Saved(us, own) = {Whole(us, own)} BY <1>3, <3>1 DEF Saved
    <3> QED BY <3>2
  <2> QED BY <2>1, <2>4, <2>8, <2>9
<1> QED BY <1>2, <1>3

\* What a power failure during a save leaves of the disk; what is still promised
\* then is so of the file as it was or of the new one.
LEMMA CutFacts ==
  ASSUME Types, NEW us, IsTable(us), NEW own \in BOOLEAN, own => Own(us),
         NEW before, Cut(us, own, before)
  PROVE  /\ IsFile(file') /\ (file'.there => etc') /\ sound' \in BOOLEAN
         /\ UNCHANGED <<kind, etc>>
         /\ promised' # {} =>
              /\ kind = "ext4" /\ promised' = before /\ UNCHANGED sound
              /\ sound /\ file.there /\ ~file.dir /\ file.lines # << >>
                   => file' = file \/ Holds(file', us)
<1>1. IsFile(file) /\ (file.there => etc) /\ sound \in BOOLEAN
  BY DEF Types
<1>2. UNCHANGED <<kind, etc>>
  BY DEF Cut
<1>3. PICK f : f = file'
  OBVIOUS
<1>4. CASE /\ f \in {file} \cup Saved(us, own)
           /\ promised' = IF kind = "ext4" THEN before ELSE {}
           /\ UNCHANGED sound
  <2>1. IsFile(f) /\ (f.there => etc)
    BY <1>1, <1>4, SaveFacts
  <2>2. kind = "ext4" /\ sound /\ file.there /\ ~file.dir /\ file.lines # << >>
          => f = file \/ Holds(f, us)
    BY <1>4, SaveFacts
  <2> QED BY <1>1, <1>2, <1>3, <1>4, <2>1, <2>2
<1>5. CASE CanSave /\ f \in Ragged(Text(us)) /\ promised' = {}
           /\ sound' = (sound /\ kind = "fat")
  <2>1. Text(us) \in Seq(PasswdLine) BY TextFacts
  <2>2. IsFile(f) BY <1>5, <2>1, RaggedFacts
  <2>3. etc BY <1>5 DEF CanSave
  <2> QED BY <1>1, <1>2, <1>3, <1>5, <2>2, <2>3
<1> QED BY <1>3, <1>4, <1>5 DEF Cut

\* Whatever harm the file system takes, the file stays one of those described and
\* nothing is promised of it.
LEMMA HarmFacts ==
  ASSUME Types, Harm
  PROVE  /\ IsFile(file') /\ etc' \in BOOLEAN /\ (file'.there => etc')
         /\ kind' \in {"none", "fat", "ext4"} /\ sound' = FALSE /\ promised' = {}
<1>1. sound' = FALSE /\ promised' = {} /\ (Harmed \/ Lost)
  BY DEF Harm
<1>2. IsFile(file) /\ file.lines \in Seq(PasswdLine) /\ etc \in BOOLEAN
      /\ kind \in {"none", "fat", "ext4"}
  BY DEF Types, IsFile, FileRecord
<1>3. PICK f : f = file'
  OBVIOUS
<1>4. CASE Harmed
  <2>1. /\ f \in {file, Absent} \cup Ragged(file.lines)
        /\ etc' \in {etc, f.there} /\ (f.there => etc') /\ kind' = kind
    BY <1>3, <1>4 DEF Harmed
  <2>2. IsFile(f) BY <1>2, <2>1, FileTypes, RaggedFacts
  <2>3. f.there \in BOOLEAN BY <2>2 DEF IsFile, FileRecord
  <2> QED BY <1>1, <1>2, <1>3, <2>1, <2>2, <2>3
<1>5. CASE Lost
  BY <1>1, <1>5, FileTypes DEF Lost
<1> QED BY <1>1, <1>4, <1>5

\* Accounts are the same as themselves, and as what is the same as the same.
LEMMA SameIsSame ==
  /\ \A us : SameAccounts(us, us)
  /\ \A us, vs, ws : /\ DOMAIN us = 1 .. Len(us) /\ DOMAIN vs = 1 .. Len(vs)
                     /\ SameAccounts(us, vs) /\ SameAccounts(vs, ws)
                       => SameAccounts(us, ws)
<1>1. \A us : SameAccounts(us, us)
  BY DEF SameAccounts
<1>2. ASSUME NEW us, NEW vs, NEW ws, DOMAIN us = 1 .. Len(us), DOMAIN vs = 1 .. Len(vs),
             SameAccounts(us, vs), SameAccounts(vs, ws)
      PROVE  SameAccounts(us, ws)
  <2>1. Len(us) = Len(vs) /\ Len(vs) = Len(ws) /\ DOMAIN us = DOMAIN vs
    BY <1>2 DEF SameAccounts
  <2>2. ASSUME NEW i \in DOMAIN us
        PROVE  /\ us[i].name = ws[i].name /\ us[i].uid = ws[i].uid /\ us[i].gid = ws[i].gid
               /\ Plain(ws[i].pass) => us[i].pass = ws[i].pass
    <3>1. /\ us[i].name = vs[i].name /\ us[i].uid = vs[i].uid /\ us[i].gid = vs[i].gid
          /\ Plain(vs[i].pass) => us[i].pass = vs[i].pass
      BY <1>2 DEF SameAccounts
    <3>2. /\ vs[i].name = ws[i].name /\ vs[i].uid = ws[i].uid /\ vs[i].gid = ws[i].gid
          /\ Plain(ws[i].pass) => vs[i].pass = ws[i].pass
      BY <1>2, <2>1 DEF SameAccounts
    <3> QED BY <3>1, <3>2
  <2> QED BY <2>1, <2>2 DEF SameAccounts
<1> QED BY <1>1, <1>2

\* A change of the table and its save, or the power failure that cuts it.
LEMMA ChangeUInv ==
  ASSUME UInv, up, NEW us, IsTable(us), Rooted(us), Len(users) <= Len(us),
         ~foreign => Own(us), Change(us)
  PROVE  UInv'
<1>1. Types /\ Memory /\ IsTable(users) /\ Rooted(users) /\ current \in 1 .. Len(users)
  BY DEF UInv, Memory
<1>2. PICK own \in BOOLEAN : own = ~foreign
  BY <1>1 DEF Types
<1>3. own => Own(us)
  BY <1>2
<1>4. UNCHANGED foreign
  BY DEF Change
<1>5. current \in 1 .. Len(us)
  <2>1. Len(users) \in Nat /\ Len(us) \in Nat BY <1>1 DEF IsTable
  <2> QED BY <1>1, <2>1
<1>6. CASE /\ \E f \in Saved(us, own) : file' = f /\ promised' = Promise(us, f)
           /\ users' = us /\ UNCHANGED <<up, current, kind, etc, sound>>
  <2>1. PICK f \in Saved(us, own) : file' = f /\ promised' = Promise(us, f)
    BY <1>6
  <2>2. IsFile(f) /\ (f.there => etc)
    BY <1>1, <1>3, SaveFacts
  <2>3. Types'
    BY <1>1, <1>4, <1>6, <2>1, <2>2 DEF Types
  <2>4. Memory'
    BY <1>5, <1>6 DEF Memory
  <2>5. promised' # {} => sound /\ promised' = {us} /\ Holds(f, us)
    BY <2>1 DEF Promise, Holds
  <2>6. Kept'
    <3> SUFFICES ASSUME promised' # {}
                 PROVE  /\ sound'
                        /\ \E t \in promised' : \E vs :
                             IsTable(vs) /\ Rooted(vs) /\ Holds(file', vs) /\ SameAccounts(vs, t)
      BY DEF Kept
    <3> QED BY <1>6, <2>1, <2>5, SameIsSame
  <2>7. up' /\ ~foreign' => Own(users')
    BY <1>4, <1>6
  <2> QED BY <2>3, <2>4, <2>6, <2>7 DEF UInv
<1>7. CASE /\ Cut(us, own, IF promised = {users} THEN {users, us} ELSE {})
           /\ up' = FALSE /\ users' = << >> /\ current' = 1
  <2>1. PICK before : before = IF promised = {users} THEN {users, us} ELSE {}
    OBVIOUS
  <2>2. Cut(us, own, before)
    BY <1>7, <2>1
  <2>3. /\ IsFile(file') /\ (file'.there => etc') /\ sound' \in BOOLEAN
        /\ UNCHANGED <<kind, etc>>
        /\ promised' # {} =>
             /\ kind = "ext4" /\ promised' = before /\ UNCHANGED sound
             /\ sound /\ file.there /\ ~file.dir /\ file.lines # << >>
                  => file' = file \/ Holds(file', us)
    BY <1>1, <1>3, <2>2, CutFacts
  <2>4. Types'
    BY <1>1, <1>4, <1>7, <2>3 DEF Types
  <2>5. Memory'
    BY <1>7 DEF Memory
  <2>6. Kept'
    <3> SUFFICES ASSUME promised' # {}
                 PROVE  /\ sound'
                        /\ \E t \in promised' : \E vs :
                             IsTable(vs) /\ Rooted(vs) /\ Holds(file', vs) /\ SameAccounts(vs, t)
      BY DEF Kept
    <3>1. promised = {users} /\ promised' = {users, us}
      BY <2>1, <2>3
    <3>2. sound /\ sound' = sound
      BY <2>3, <3>1 DEF UInv, Kept
    <3>3. PICK vs : IsTable(vs) /\ Rooted(vs) /\ Holds(file, vs) /\ SameAccounts(vs, users)
      BY <3>1 DEF UInv, Kept
    <3>4. file.there /\ ~file.dir /\ file.lines # << >>
      BY <3>3, TextFacts DEF Holds
    <3>5. file' = file \/ Holds(file', us)
      BY <2>3, <3>2, <3>4
    <3>6. CASE file' = file
      BY <3>1, <3>2, <3>3, <3>6 DEF Holds
    <3>7. CASE Holds(file', us)
      BY <3>1, <3>2, <3>7, SameIsSame
    <3> QED BY <3>5, <3>6, <3>7
  <2> QED BY <1>7, <2>4, <2>5, <2>6 DEF UInv
<1> QED BY <1>2, <1>6, <1>7 DEF Change

-----------------------------------------------------------------------------
(* Every action keeps the invariant *)

\* adduser keeps the invariant.
LEMMA AdduserUInv ==
  ASSUME UInv, NEW name \in ValidNames \cup OtherNames, Adduser(name)
  PROVE  UInv'
<1>1. up /\ IsTable(users) /\ Rooted(users) /\ (~foreign => Own(users))
  BY DEF Adduser, UInv, Memory
<1>2. PICK us : us = Append(users, User(name, NextUid, NextUid, << >>))
  OBVIOUS
<1>3. /\ name \in ValidNames /\ Room /\ name \notin NamesOf(users)
      /\ Change(us)
  BY <1>2 DEF Adduser
<1>4. IsTable(us) /\ Rooted(us) /\ Len(us) = Len(users) + 1 /\ (Own(users) => Own(us))
  BY <1>1, <1>2, <1>3, AddedTable
<1>5. Len(users) <= Len(us)
  <2>1. Len(users) \in Nat BY <1>1 DEF IsTable
  <2> QED BY <1>4, <2>1
<1>6. ~foreign => Own(us)
  BY <1>1, <1>4
<1> QED BY <1>1, <1>3, <1>4, <1>5, <1>6, ChangeUInv

\* A password changes no name and no number.
LEMMA PasswordTable ==
  ASSUME IsTable(users), Rooted(users), NEW i \in DOMAIN users, NEW text \in Seq(STRING),
         Len(text) <= PASS_CAP, NEW us, us = [users EXCEPT ![i].pass = text]
  PROVE  IsTable(us) /\ Rooted(us) /\ Len(us) = Len(users) /\ (Own(users) => Own(us))
<1>1. /\ users \in Seq(UserRecord) /\ DOMAIN users = 1 .. Len(users) /\ Len(users) \in Nat
      /\ \A j \in 1 .. Len(users) : Len(users[j].pass) <= PASS_CAP
  BY DEF IsTable
<1>2. PICK new : new = [users[i] EXCEPT !.pass = text]
  OBVIOUS
<1>3. new \in UserRecord /\ new.name = users[i].name /\ new.uid = users[i].uid /\ new.pass = text
  <2>1. PICK u \in UserRecord : u = users[i] BY <1>1
  <2> QED BY <1>2, <2>1 DEF UserRecord
<1>4. us = [users EXCEPT ![i] = new]
  BY <1>2
<1>5. us \in Seq(UserRecord) /\ Len(us) = Len(users) /\ DOMAIN us = 1 .. Len(users)
  BY <1>1, <1>3, <1>4
<1>6. ASSUME NEW j \in 1 .. Len(users)
      PROVE  us[j].name = users[j].name /\ us[j].uid = users[j].uid /\ Len(us[j].pass) <= PASS_CAP
  <2>1. CASE j = i
    <3>1. us[j] = new BY <1>1, <1>4, <2>1
    <3> QED BY <1>3, <2>1, <3>1
  <2>2. CASE j # i
    <3>1. us[j] = users[j] BY <1>1, <1>4, <2>2
    <3> QED BY <1>1, <3>1
  <2> QED BY <2>1, <2>2
<1>7. IsTable(us)
  BY <1>5, <1>6 DEF IsTable
<1>8. Rooted(us)
  <2>1. NamesOf(us) = NamesOf(users) BY <1>1, <1>5, <1>6 DEF NamesOf
  <2> QED BY <1>5, <2>1 DEF Rooted
<1>9. Own(users) => Own(us)
  <2> SUFFICES ASSUME Own(users) PROVE Own(us) OBVIOUS
  <2>1. 1 \in 1 .. Len(users) BY DEF IsTable
  <2>2. us[1].name = "root" /\ us[1].uid = 0 BY <1>6, <2>1 DEF Own
  <2>3. \A j, k \in 1 .. Len(us) : us[j].name = us[k].name \/ us[j].uid = us[k].uid => j = k
    BY <1>5, <1>6 DEF Own
  <2> QED BY <1>7, <2>2, <2>3 DEF Own
<1> QED BY <1>5, <1>7, <1>8, <1>9

\* passwd keeps the invariant.
LEMMA PasswdUInv ==
  ASSUME UInv, NEW i \in DOMAIN users, NEW first \in Typed, NEW second \in Typed,
         Passwd(i, first, second)
  PROVE  UInv'
<1>1. up /\ IsTable(users) /\ Rooted(users) /\ (~foreign => Own(users))
  BY DEF Passwd, UInv, Memory
<1>2. PICK us : us = [users EXCEPT ![i].pass = first.text]
  OBVIOUS
<1>3. Len(first.text) <= PASS_CAP /\ Change(us)
  BY <1>2 DEF Passwd
<1>4. first.text \in Seq(STRING)
  <2>1. Texts \subseteq Seq(STRING) BY UsersConstants
  <2> QED BY <2>1 DEF Typed
<1>5. PICK text : text = first.text
  OBVIOUS
<1>6. IsTable(us) /\ Rooted(us) /\ Len(us) = Len(users) /\ (Own(users) => Own(us))
  BY <1>1, <1>2, <1>3, <1>4, <1>5, PasswordTable
<1>7. Len(users) <= Len(us)
  <2>1. Len(users) \in Nat BY <1>1 DEF IsTable
  <2> QED BY <1>6, <2>1
<1>8. ~foreign => Own(us)
  BY <1>1, <1>6
<1> QED BY <1>1, <1>3, <1>6, <1>7, <1>8, ChangeUInv

\* A step that leaves the disk and the promise alone, and the table unless the
\* power fails.
LEMMA TableKept ==
  ASSUME UInv, UNCHANGED <<kind, etc, file, sound, promised, foreign>>, up' \in BOOLEAN,
         up' => up /\ users' = users /\ current' \in DOMAIN users,
         ~up' => users' = << >>
  PROVE  UInv'
<1>1. Types' /\ Kept'
  BY DEF UInv, Types, Kept
<1>2. Memory'
  BY DEF UInv, Memory, IsTable, Rooted
<1>3. up' /\ ~foreign' => Own(users')
  BY DEF UInv
<1> QED BY <1>1, <1>2, <1>3 DEF UInv

\* Another file, with nothing promised of it; the table stays, or is lost with the
\* power.
LEMMA FileChanged ==
  ASSUME UInv, UNCHANGED foreign, promised' = {}, sound' \in BOOLEAN,
         kind' \in {"none", "fat", "ext4"}, etc' \in BOOLEAN,
         IsFile(file'), file'.there => etc',
         UNCHANGED <<up, users, current>> \/ (up' = FALSE /\ users' = << >>)
  PROVE  UInv'
<1>1. Types' /\ Kept'
  BY DEF UInv, Types, Kept
<1>2. Memory'
  BY DEF UInv, Memory
<1>3. up' /\ ~foreign' => Own(users')
  BY DEF UInv
<1> QED BY <1>1, <1>2, <1>3 DEF UInv

\* login keeps the invariant.
LEMMA LoginUInv ==
  ASSUME UInv, NEW name, NEW text, Login(name, text)
  PROVE  UInv'
<1>1. /\ up /\ current' \in DOMAIN users
      /\ UNCHANGED <<up, users, kind, etc, file, sound, promised, foreign>>
  BY DEF Login, disk
<1> QED BY <1>1, TableKept DEF UInv, Types

\* A power failure keeps the invariant, with or without harm.
LEMMA PowerOffUInv == ASSUME UInv, PowerOff PROVE UInv'
<1>1. up' = FALSE /\ users' = << >> /\ UNCHANGED foreign /\ Types
  BY DEF PowerOff, UInv
<1>2. CASE up /\ UNCHANGED <<disk, sound, promised>>
  BY <1>1, <1>2, TableKept DEF disk
<1>3. CASE Harm
  BY <1>1, <1>3, HarmFacts, FileChanged
<1> QED BY <1>2, <1>3 DEF PowerOff

\* So does a command that harms the file system.
LEMMA BreakUInv == ASSUME UInv, Break PROVE UInv'
<1>1. UNCHANGED <<up, users, current, foreign>> /\ Harm /\ Types
  BY DEF Break, UInv
<1> QED BY <1>1, HarmFacts, FileChanged

\* mkfs keeps the invariant.
LEMMA MkfsUInv == ASSUME UInv, NEW k \in {"fat", "ext4"}, Mkfs(k) PROVE UInv'
<1>1. /\ kind' = k /\ etc' = TRUE /\ file' = Absent /\ promised' = {}
      /\ sound' \in BOOLEAN /\ UNCHANGED <<up, users, current, foreign>>
  BY DEF Mkfs
<1> QED BY <1>1, FileChanged, FileTypes

\* The commands of the file system keep the invariant.
LEMMA OnFileUInv == ASSUME UInv, OnFile PROVE UInv'
<1>1. /\ UNCHANGED <<up, users, current, kind, sound, foreign>> /\ promised' = {}
      /\ Mkdir \/ Rmdir \/ Rm \/ Touch \/ Wtest \/ MvAway \/ MvBack
  BY DEF OnFile
<1>2. Types /\ IsFile(file) /\ (file.there => etc)
  BY DEF UInv, Types
<1>3. SUFFICES etc' \in BOOLEAN /\ IsFile(file') /\ (file'.there => etc')
  BY <1>1, <1>2, FileChanged DEF Types
<1>4. CASE Mkdir
  BY <1>2, <1>4, FileTypes DEF Mkdir, Types
<1>5. CASE Rmdir \/ Rm \/ MvAway
  BY <1>2, <1>5, FileTypes DEF Rmdir, Rm, MvAway, Types
<1>6. CASE Touch
  <2>1. << >> \in Seq(PasswdLine) /\ OwnLines(<< >>) BY FileTypes DEF OwnLines
  <2>2. IsFile(File(<< >>, TRUE)) BY <2>1, FileTypes
  <2> QED BY <1>2, <1>6, <2>2 DEF Touch, Types
<1>7. CASE Wtest
  <2>1. PICK lines \in {<< >>, <<Junk>>} :
          file' = [there |-> TRUE, dir |-> file.dir, lines |-> lines, own |-> ~file.dir]
    BY <1>7 DEF Wtest
  <2>2. etc /\ etc' = etc BY <1>7 DEF Wtest
  <2>3. lines \in Seq(PasswdLine) /\ OwnLines(lines) BY FileTypes DEF OwnLines
  <2>4. file.dir \in BOOLEAN BY <1>2 DEF IsFile, FileRecord
  <2>5. PICK mine \in BOOLEAN : mine = ~file.dir BY <2>4
  <2>6. PICK f : f = [there |-> TRUE, dir |-> file.dir, lines |-> lines, own |-> mine]
    OBVIOUS
  <2>7. IsFile(f) BY <2>3, <2>4, <2>6 DEF IsFile, FileRecord
  <2> QED BY <2>1, <2>2, <2>5, <2>6, <2>7 DEF Types
<1>8. CASE MvBack
  <2>1. Foreign \subseteq Seq(PasswdLine) BY UsersConstants
  <2>2. PICK lines \in Foreign : file' = File(lines, FALSE) BY <1>8 DEF MvBack
  <2>3. IsFile(File(lines, FALSE)) BY <2>1, FileTypes
  <2> QED BY <1>8, <2>2, <2>3 DEF MvBack
<1> QED BY <1>1, <1>4, <1>5, <1>6, <1>7, <1>8

\* What a boot finds in the file: a table of which it brings back the accounts.
LEMMA BootTable ==
  ASSUME UInv, ~Unread, NEW us, us = Table(file.lines)
  PROVE  /\ IsTable(us) /\ Rooted(us)
         /\ file.own => Own(us)
         /\ promised # {} => \E t \in promised : SameAccounts(us, t)
<1>1. Types /\ Kept /\ IsFile(file) /\ file.lines # << >>
  BY DEF UInv, Types, Unread
<1>2. file.lines \in Seq(PasswdLine)
  BY <1>1 DEF IsFile, FileRecord
<1>3. IsTable(us) /\ Rooted(us)
  BY <1>2, TableFacts
<1>4. file.own => Own(us)
  <2> SUFFICES ASSUME file.own PROVE Own(us) OBVIOUS
  <2>1. file.lines = <<Junk>> \/ \E ts : Own(ts) /\ file.lines = Text(ts)
    BY <1>1 DEF IsFile, OwnLines
  <2>2. CASE file.lines = <<Junk>>
    BY <2>2, JunkTable
  <2>3. CASE \E ts : Own(ts) /\ file.lines = Text(ts)
    <3>1. PICK ts : Own(ts) /\ file.lines = Text(ts) BY <2>3
    <3>2. IsTable(ts) /\ Rooted(ts) BY <3>1, OwnIsRooted
    <3>3. Own(Table(Text(ts))) BY <3>1, <3>2, RoundTrip
    <3> QED BY <3>1, <3>3
  <2> QED BY <2>1, <2>2, <2>3
<1>5. ASSUME promised # {} PROVE \E t \in promised : SameAccounts(us, t)
  <2>1. PICK t \in promised : \E vs :
          IsTable(vs) /\ Rooted(vs) /\ Holds(file, vs) /\ SameAccounts(vs, t)
    BY <1>1, <1>5 DEF Kept
  <2>2. PICK vs : IsTable(vs) /\ Rooted(vs) /\ Holds(file, vs) /\ SameAccounts(vs, t)
    BY <2>1
  <2>3. us = Table(Text(vs))
    BY <2>2 DEF Holds
  <2>4. SameAccounts(us, vs)
    BY <2>2, <2>3, RoundTrip
  <2>5. DOMAIN us = 1 .. Len(us) /\ DOMAIN vs = 1 .. Len(vs)
    BY <1>3, <2>2 DEF IsTable
  <2> QED BY <2>2, <2>4, <2>5, SameIsSame
<1> QED BY <1>3, <1>4, <1>5

\* A boot, complete or cut by a power failure, keeps the invariant.
LEMMA BootUInv == ASSUME UInv, Boot PROVE UInv'
<1>1. ~up /\ Types /\ Kept /\ users = << >>
  BY DEF Boot, UInv, Memory
<1>2. CASE Unread
  <2>1. /\ up' = TRUE /\ users' = <<Root>> /\ current' = 1 /\ promised' = {}
        /\ foreign' = FALSE /\ UNCHANGED <<kind, etc, file, sound>>
    BY <1>2 DEF Boot, disk
  <2>2. IsTable(<<Root>>) /\ Rooted(<<Root>>) /\ Own(<<Root>>)
    BY RootTable, OwnIsRooted
  <2>3. Types' /\ Kept'
    BY <1>1, <2>1 DEF Types, Kept
  <2>4. Memory'
    <3>1. 1 \in 1 .. Len(<<Root>>) OBVIOUS
    <3> QED BY <2>1, <2>2, <3>1 DEF Memory
  <2>5. up' /\ ~foreign' => Own(users')
    BY <2>1, <2>2
  <2> QED BY <2>3, <2>4, <2>5 DEF UInv
<1>3. CASE ~Unread
  <2>1. PICK us : us = Table(file.lines)
    OBVIOUS
  <2>2. file.own \in BOOLEAN
    BY <1>1 DEF Types, IsFile, FileRecord
  <2>3. PICK own \in BOOLEAN : own = file.own
    BY <2>2
  <2>4. /\ foreign' = ~own
        /\ \/ /\ \E f \in Saved(us, own) : file' = f /\ promised' = Promise(us, f)
              /\ up' = TRUE /\ users' = us /\ current' = 1
              /\ UNCHANGED <<kind, etc, sound>>
           \/ /\ Cut(us, own, promised)
              /\ UNCHANGED <<up, users, current>>
    BY <1>3, <2>1, <2>3 DEF Boot
  <2>5. /\ IsTable(us) /\ Rooted(us) /\ (own => Own(us))
        /\ promised # {} => \E t \in promised : SameAccounts(us, t)
    BY <1>3, <2>1, <2>3, BootTable
  <2>6. CASE /\ \E f \in Saved(us, own) : file' = f /\ promised' = Promise(us, f)
             /\ up' = TRUE /\ users' = us /\ current' = 1
             /\ UNCHANGED <<kind, etc, sound>>
    <3>1. PICK f \in Saved(us, own) : file' = f /\ promised' = Promise(us, f)
      BY <2>6
    <3>2. IsFile(f) /\ (f.there => etc)
      BY <1>1, <2>5, SaveFacts
    <3>3. Types'
      BY <1>1, <2>4, <2>6, <3>1, <3>2 DEF Types
    <3>4. Memory'
      <4>1. 1 \in 1 .. Len(us) BY <2>5 DEF IsTable
      <4> QED BY <2>5, <2>6, <4>1 DEF Memory
    <3>5. promised' # {} => sound /\ promised' = {us} /\ Holds(f, us)
      BY <3>1 DEF Promise, Holds
    <3>6. Kept'
      <4> SUFFICES ASSUME promised' # {}
                   PROVE  /\ sound'
                          /\ \E t \in promised' : \E vs :
                               IsTable(vs) /\ Rooted(vs) /\ Holds(file', vs) /\ SameAccounts(vs, t)
        BY DEF Kept
      <4> QED BY <2>5, <2>6, <3>1, <3>5, SameIsSame
    <3>7. up' /\ ~foreign' => Own(users')
      BY <2>4, <2>5, <2>6
    <3> QED BY <3>3, <3>4, <3>6, <3>7 DEF UInv
  <2>7. CASE Cut(us, own, promised) /\ UNCHANGED <<up, users, current>>
    <3>1. /\ IsFile(file') /\ (file'.there => etc') /\ sound' \in BOOLEAN
          /\ UNCHANGED <<kind, etc>>
          /\ promised' # {} =>
               /\ kind = "ext4" /\ promised' = promised /\ UNCHANGED sound
               /\ sound /\ file.there /\ ~file.dir /\ file.lines # << >>
                    => file' = file \/ Holds(file', us)
      BY <1>1, <2>5, <2>7, CutFacts
    <3>2. Types'
      BY <1>1, <2>4, <2>7, <3>1 DEF Types
    <3>3. Memory'
      BY <1>1, <2>7 DEF Memory
    <3>4. Kept'
      <4> SUFFICES ASSUME promised' # {}
                   PROVE  /\ sound'
                          /\ \E t \in promised' : \E vs :
                               IsTable(vs) /\ Rooted(vs) /\ Holds(file', vs) /\ SameAccounts(vs, t)
        BY DEF Kept
      <4>1. promised' = promised /\ sound' = sound /\ sound
        BY <1>1, <3>1 DEF Kept
      <4>2. file.there /\ ~file.dir /\ file.lines # << >>
        BY <1>3 DEF Unread
      <4>3. file' = file \/ Holds(file', us)
        BY <3>1, <4>1, <4>2
      <4>4. CASE file' = file
        BY <1>1, <4>1, <4>4 DEF Kept
      <4>5. CASE Holds(file', us)
        BY <2>5, <4>1, <4>5
      <4> QED BY <4>3, <4>4, <4>5
    <3> QED BY <1>1, <2>7, <3>2, <3>3, <3>4 DEF UInv
  <2> QED BY <2>4, <2>6, <2>7
<1> QED BY <1>2, <1>3

\* The invariant holds of every disk the machine may find.
LEMMA InitUInv == Init => UInv
<1> SUFFICES ASSUME Init PROVE UInv OBVIOUS
<1>1. file \in {Absent} \cup {File(lines, FALSE) : lines \in Foreign}
  BY DEF Init
<1>2. Foreign \subseteq Seq(PasswdLine)
  BY UsersConstants
<1>3. IsFile(file)
  BY <1>1, <1>2, FileTypes
<1>4. Types
  BY <1>3 DEF Init, Types
<1> QED BY <1>4 DEF Init, UInv, Memory, Kept

\* The invariant is inductive.
LEMMA StepUInv == UInv /\ [Next]_vars => UInv'
<1> SUFFICES ASSUME UInv, [Next]_vars PROVE UInv' OBVIOUS
<1>1. CASE Boot
  BY <1>1, BootUInv
<1>2. CASE PowerOff
  BY <1>2, PowerOffUInv
<1>3. CASE OnFile
  BY <1>3, OnFileUInv
<1>4. ASSUME NEW name \in ValidNames \cup OtherNames, Adduser(name) PROVE UInv'
  BY <1>4, AdduserUInv
<1>5. ASSUME NEW i \in DOMAIN users, NEW first \in Typed, NEW second \in Typed,
             Passwd(i, first, second)
      PROVE  UInv'
  BY <1>5, PasswdUInv
<1>6. ASSUME NEW name \in ValidNames \cup OtherNames, NEW text \in Texts, Login(name, text)
      PROVE  UInv'
  BY <1>6, LoginUInv
<1>7. ASSUME NEW k \in {"fat", "ext4"}, Mkfs(k) PROVE UInv'
  BY <1>7, MkfsUInv
<1>8. CASE Break
  BY <1>8, BreakUInv
<1>9. CASE UNCHANGED vars
  <2>1. UNCHANGED <<up, users, current, kind, etc, file, sound, promised, foreign>>
    BY <1>9 DEF vars, disk
  <2> QED BY <2>1 DEF UInv, Types, Memory, Kept, IsTable, Rooted
<1> QED BY <1>1, <1>2, <1>3, <1>4, <1>5, <1>6, <1>7, <1>8, <1>9 DEF Next

-----------------------------------------------------------------------------
(* What follows *)

\* The inductive invariant holds in every behaviour of the commands, failed and
\* cut saves, power failures with and without harm, and boots.
THEOREM UsersInvariant == Spec => []UInv
<1>1. Init => UInv
  BY InitUInv
<1>2. UInv /\ [Next]_vars => UInv'
  BY StepUInv
<1> QED BY <1>1, <1>2, PTL DEF Spec

\* The invariant has the types in it.
LEMMA UInvTypes == UInv => TypeOK
<1> SUFFICES ASSUME UInv PROVE TypeOK OBVIOUS
<1>1. Types /\ Memory
  BY DEF UInv
<1>2. CASE up
  <2>1. IsTable(users) /\ current \in 1 .. Len(users)
    BY <1>1, <1>2 DEF Memory
  <2>2. /\ users \in Seq(UserRecord) /\ Len(users) <= MAX_USERS /\ DOMAIN users = 1 .. Len(users)
        /\ \A i \in 1 .. Len(users) : Len(users[i].pass) <= PASS_CAP
    BY <2>1 DEF IsTable
  <2>3. \A i \in 1 .. Len(users) : users[i].uid \in Nat
    <3>1. \A i \in 1 .. Len(users) : users[i] \in UserRecord BY <2>2
    <3>2. \A u \in UserRecord : u.uid \in Nat BY DEF UserRecord
    <3> QED BY <3>1, <3>2
  <2>4. \A i \in DOMAIN users : users[i].uid \in Nat /\ Len(users[i].pass) <= PASS_CAP
    BY ONLY <2>2, <2>3
  <2>5. Len(users) <= MAX_USERS /\ (up => current \in DOMAIN users)
    BY <2>1, <2>2
  <2> QED BY <1>1, <2>4, <2>5 DEF TypeOK, Types
<1>3. CASE ~up
  <2>1. users = << >>
    BY <1>1, <1>3 DEF Memory
  <2>2. Len(users) = 0 /\ DOMAIN users = {}
    BY <2>1
  <2> QED BY <1>1, <1>3, <2>2, Sizes DEF TypeOK, Types
<1> QED BY <1>2, <1>3

\* The table never outgrows USERS, nor a password its array, and CURRENT is a
\* user of the table.
THEOREM UsersTypes == Spec => []TypeOK
BY UsersInvariant, UInvTypes, PTL

\* The invariant has the identities in it.
LEMMA UInvIdentity == UInv => Identity
<1> SUFFICES ASSUME UInv, up PROVE Identity BY DEF Identity
<1>1. IsTable(users) /\ Rooted(users) /\ (~foreign => Own(users))
  BY DEF UInv, Memory
<1>2. DOMAIN users = 1 .. Len(users)
  BY <1>1 DEF IsTable
<1>3. ~foreign => "root" \in NamesOf(users)
  <2>1. ~foreign => users[1].name = "root" /\ 1 \in DOMAIN users BY <1>1 DEF Own, IsTable
  <2> QED BY <2>1 DEF NamesOf
<1>4. "root" \in NamesOf(users) \/ (foreign /\ Len(users) = MAX_USERS)
  BY <1>1, <1>3 DEF Rooted
<1> QED BY <1>1, <1>2, <1>4 DEF Identity, Own

\* A name and a number each mean one user and root stays the first with number 0,
\* unless the last boot read a file that is not a whole one of the kernel's own:
\* prepared elsewhere, moved, mixed by a cut save or by a harmed file system.
THEOREM OneMeaning == Spec => []Identity
BY UsersInvariant, UInvIdentity, PTL

\* A boot that completes while something is promised brings it back.
LEMMA StepAccounts ==
  UInv /\ [Next]_vars =>
    [Boot /\ up' /\ promised # {} => \E us \in promised : SameAccounts(users', us)]_vars
<1> SUFFICES ASSUME UInv, Boot, up', promised # {}
             PROVE  \E us \in promised : SameAccounts(users', us)
  OBVIOUS
<1>1. ~Unread
  <2>1. PICK vs : IsTable(vs) /\ Holds(file, vs) BY DEF UInv, Kept
  <2>2. Text(vs) # << >> BY <2>1, TextFacts
  <2> QED BY <2>1, <2>2 DEF Holds, Unread
<1>2. PICK us : us = Table(file.lines)
  OBVIOUS
<1>3. users' = us
  BY <1>1, <1>2 DEF Boot
<1>4. \E t \in promised : SameAccounts(us, t)
  BY <1>1, <1>2, BootTable
<1> QED BY <1>3, <1>4

\* What a save has promised, load_from_fs brings back, as long as nothing has
\* harmed the file system: the same names and numbers, and every plain password;
\* on ext4 also over power failures that cut a save or a boot without harm.
THEOREM AccountsAreKept == Spec => AccountsSurvive
BY UsersInvariant, StepAccounts, PTL DEF Spec, AccountsSurvive

=============================================================================
