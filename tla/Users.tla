-------------------------------- MODULE Users --------------------------------
(***************************************************************************)
(* The user table (users.rs) and /etc/passwd: the table lives in memory,   *)
(* every change rewrites the file, and only a boot reads it back, to write *)
(* it again at once.  The commands are adduser, passwd and login, with the *)
(* commands of the file system that touch /etc/passwd.                     *)
(*                                                                         *)
(* A file is a sequence of lines; a password is a sequence of characters,  *)
(* which the file keeps as bytes.  What the two file systems do with a     *)
(* write that fails or is cut by a power loss is taken from Fat, Ext4Fs    *)
(* and Journal: FAT frees the old chain, writes the entry and then the     *)
(* data, cluster by cluster; ext4 writes are atomic but for the exceptions *)
(* of CrashAtomic.  Once a power failure or a command has harmed the file  *)
(* system (sound is FALSE), the file may change under the table's feet.    *)
(***************************************************************************)
EXTENDS Naturals, FiniteSets, SequencesExt

CONSTANTS
  MAX_USERS,   \* slots of USERS (16)
  PASS_CAP,    \* characters of a password (32); read_line allows more
  ValidNames,  \* names that pass valid_name
  OtherNames,  \* names that do not
  Texts,       \* what is typed at a password prompt
  Residues,    \* what backspaces leave behind the end of read_line's array
  Wide,        \* characters outside Latin-1
  LowByte,     \* what is left of each of them in one byte
  Foreign,     \* passwd files that are not the kernel's own, or have been moved about
  Rests,       \* what a file may read like behind the last line that is its own:
               \* nothing, a piece of a line, lines of an older passwd
  MaxLines     \* bound: lines of such a file

\* A line of a passwd file: how many fields it has, and the first four.  The two
\* numbers are sets of one, or {} if the field is no number.
PasswdLine ==
  [fields : Nat, name : STRING, uid : SUBSET Nat, gid : SUBSET Nat, pass : Seq(STRING)]

ASSUME UsersConstants ==
  /\ MAX_USERS \in Nat \ {0} /\ PASS_CAP \in Nat
  /\ ValidNames \cup OtherNames \cup {""} \subseteq STRING
  /\ "root" \in ValidNames /\ ValidNames \cap OtherNames = {}
  /\ Texts \subseteq Seq(STRING) /\ Residues \subseteq Seq(STRING)
  /\ ":" \notin Wide /\ LowByte \in [Wide -> STRING \ {":"}]
  /\ Foreign \subseteq Seq(PasswdLine) /\ Rests \subseteq Seq(PasswdLine)
  /\ MaxLines \in Nat

VARIABLES
  \* memory
  up,       \* the machine runs
  users,    \* USERS[0 .. USER_COUNT)
  current,  \* CURRENT, counted from 1
  \* the disk
  kind,     \* the file system on it: "none", "fat" or "ext4"
  etc,      \* the directory /etc is there
  file,     \* /etc/passwd
  \* history
  sound,    \* nothing has harmed the file system since mkfs
  promised, \* tables of which a boot must bring back one; {}: nothing is promised
  foreign   \* the table came from a file that is not the kernel's own

disk == <<kind, etc, file>>
vars == <<up, users, current, disk, sound, promised, foreign>>

\* own is history: load_from_fs reads the whole of a table of the kernel's own in
\* the file, or no user at all.
Absent == [there |-> FALSE, dir |-> FALSE, lines |-> << >>, own |-> TRUE]
File(lines, own) == [there |-> TRUE, dir |-> FALSE, lines |-> lines, own |-> own]
Directory == [there |-> TRUE, dir |-> TRUE, lines |-> << >>, own |-> FALSE]

\* A line that load_from_fs makes nothing of.
Junk == [fields |-> 1, name |-> "", uid |-> {}, gid |-> {}, pass |-> << >>]

User(name, uid, gid, pass) == [name |-> name, uid |-> uid, gid |-> gid, pass |-> pass]
Root == User("root", 0, 0, << >>)
NamesOf(us) == {us[i].name : i \in DOMAIN us}

-----------------------------------------------------------------------------
(* /etc/passwd *)

\* `as u8` keeps the low byte of a character, `as char` makes it one again.
Byte(c) == IF c \in Wide THEN LowByte[c] ELSE c

\* What save_to_fs writes.
Line(u) == [fields |-> 4, name |-> u.name, uid |-> {u.uid}, gid |-> {u.gid},
            pass |-> [k \in DOMAIN u.pass |-> Byte(u.pass[k])]]
Text(us) == [i \in DOMAIN us |-> Line(us[i])]

\* The fourth field of a line ends at the next colon.
Field(pass) ==
  LET colons == {k \in DOMAIN pass : pass[k] = ":"} IN
  SubSeq(pass, 1, IF colons = {} THEN Len(pass) ELSE Min(colons) - 1)

\* parse_u32(..).unwrap_or(d); a field that is no number is {}.
NumberOr(n, d) == IF n = {} THEN d ELSE CHOOSE v \in n : TRUE

\* A parser that wants every field filled.
GoodFilled(l) == l.fields >= 4 /\ l.pass # << >>

Good(l) == l.fields >= 4 /\ Len(Field(l.pass)) <= PASS_CAP

Parsed(l) ==
  LET uid == NumberOr(l.uid, 0) IN
  User(l.name, uid, NumberOr(l.gid, uid), Field(l.pass))

\* The lines that make a user, as many as fit: what the loop over the file has
\* taken after n lines.
Accepted(lines) ==
  LET taken[n \in 0 .. Len(lines)] ==
        IF n = 0 THEN << >>
        ELSE LET before == taken[n - 1] IN
             IF Good(lines[n]) /\ Len(before) < MAX_USERS
               THEN Append(before, lines[n]) ELSE before
  IN taken[Len(lines)]

\* The table load_from_fs builds: a user for each line, and root if it is missing
\* and there is room.
Table(lines) ==
  LET us == [i \in DOMAIN Accepted(lines) |-> Parsed(Accepted(lines)[i])] IN
  IF "root" \in NamesOf(us) \/ Len(us) >= MAX_USERS THEN us ELSE Append(us, Root)

\* save_to_fs gives up without a file system, write_file without /etc.
CanSave == kind # "none" /\ etc

\* The new text.  FAT writes it under the entry of a directory as well, which
\* stays one.
Whole(us, own) ==
  [there |-> TRUE, dir |-> file.dir, lines |-> Text(us), own |-> own /\ ~file.dir]

\* A file of which the first lines are the ones given, up to some cluster.
Ragged(lines) ==
  {[there |-> TRUE, dir |-> file.dir, lines |-> SubSeq(lines, 1, p[1]) \o p[2], own |-> FALSE] :
     p \in {q \in (0 .. Len(lines)) \X Rests : q[1] + Len(q[2]) <= MaxLines}}

\* What is left on a full disk: FAT keeps the old file; ext4, which takes the old
\* blocks back first, can only fail to fill a new or empty one.
Failed ==
  CASE kind = "fat" -> {file}
    [] kind = "ext4" ->
         IF file.there /\ file.lines # << >> THEN {} ELSE {file, File(<< >>, TRUE)}

\* What save_to_fs leaves; it does not look at the result of write_file.  In a
\* file system that was harmed, the clusters it writes may have other owners.
Saved(us, own) ==
  IF ~CanSave THEN {file}
  ELSE (IF kind = "ext4" /\ file.dir THEN {file} ELSE {Whole(us, own)} \cup Failed)
         \cup (IF sound THEN {} ELSE Ragged(Text(us)))

\* What is promised of a table whose save has left f in the file.
Promise(us, f) ==
  IF sound /\ f.there /\ ~f.dir /\ f.lines = Text(us) THEN {us} ELSE {}

\* The file system has blocks with two owners or an entry without any: the file
\* is as it was, gone, or mixed from what its clusters held before or hold now.
Harmed ==
  /\ kind # "none"
  /\ file' \in {file, Absent} \cup Ragged(file.lines)
  /\ etc' \in {etc, file'.there} /\ (file'.there => etc')
  /\ UNCHANGED kind

\* There is no file system, or a new one with nothing in it: block 0 of ext4 is
\* torn, or mkfs was cut.
Lost == kind' \in {"none", "fat", "ext4"} /\ etc' = FALSE /\ file' = Absent

\* What a power failure may do: on FAT after a chain is freed and before its entry
\* says so, on ext4 where it meets an exception of CrashAtomic.  And a command, if
\* it breaks the tree (broken in Fat and Ext4Fs).
Harm == (Harmed \/ Lost) /\ sound' = FALSE /\ promised' = {}

\* The power fails in a save, which leaves the file as before or after, or some of
\* the new lines: FAT has written the entry but not all of the data, ext4 has met
\* an exception.  With more harm than that it is PowerOff.
Cut(us, own, before) ==
  /\ \/ /\ file' \in {file} \cup Saved(us, own)
        /\ promised' = IF kind = "ext4" THEN before ELSE {}
        /\ UNCHANGED sound
     \/ /\ CanSave
        /\ file' \in Ragged(Text(us))
        /\ promised' = {}
        /\ sound' = (sound /\ kind = "fat")
  /\ UNCHANGED <<kind, etc>>

-----------------------------------------------------------------------------
(* Commands *)

Init ==
  /\ kind \in {"none", "fat", "ext4"}
  /\ file \in {Absent} \cup {File(lines, FALSE) : lines \in Foreign}
  /\ etc \in BOOLEAN
  /\ (file.there => etc) /\ (etc => kind # "none")
  /\ sound = TRUE
  /\ up = FALSE /\ users = << >> /\ current = 1
  /\ promised = {} /\ foreign = FALSE

\* The change of a command and its save; or the power fails during the save,
\* and where writes are atomic the table before or after it is promised.
Change(us) ==
  /\ \/ /\ \E f \in Saved(us, ~foreign) : file' = f /\ promised' = Promise(us, f)
        /\ users' = us
        /\ UNCHANGED <<up, current, kind, etc, sound>>
     \/ /\ Cut(us, ~foreign, IF promised = {users} THEN {users, us} ELSE {})
        /\ up' = FALSE /\ users' = << >> /\ current' = 1
  /\ UNCHANGED foreign

\* read_file fails or has nothing to read: without a file, with an empty one, and
\* with a directory of that name.
Unread == ~file.there \/ file.dir \/ file.lines = << >>

\* users::init, mount and load_from_fs at boot.  The table of init is not saved.
Boot ==
  /\ ~up
  /\ IF Unread
       THEN /\ up' = TRUE /\ users' = <<Root>> /\ current' = 1
            /\ promised' = {} /\ foreign' = FALSE
            /\ UNCHANGED <<disk, sound>>
       ELSE LET us == Table(file.lines) IN
            /\ foreign' = ~file.own
            /\ \/ /\ \E f \in Saved(us, file.own) : file' = f /\ promised' = Promise(us, f)
                  /\ up' = TRUE /\ users' = us /\ current' = 1
                  /\ UNCHANGED <<kind, etc, sound>>
               \/ /\ Cut(us, file.own, promised)
                  /\ UNCHANGED <<up, users, current>>

\* The power fails between two commands, or in the middle of one or of a boot.
PowerOff ==
  /\ (up /\ UNCHANGED <<disk, sound, promised>>) \/ Harm
  /\ up' = FALSE /\ users' = << >> /\ current' = 1
  /\ UNCHANGED foreign

\* A command that breaks the tree, or any command once the file system is harmed.
Break == up /\ Harm /\ UNCHANGED <<up, users, current, foreign>>

\* The first number, without the search for one that is free.
NextUidFirst == 1000

\* The least number from 1000 on that no user has.
NextUid == Min({u \in 1000 .. 1000 + Len(users) : \A i \in DOMAIN users : users[i].uid # u})

\* add_user_core without the look at the count.
RoomAlways == TRUE
Room == Len(users) < MAX_USERS

Adduser(name) ==
  /\ up
  /\ name \in ValidNames /\ Room /\ name \notin NamesOf(users)
  /\ Change(Append(users, User(name, NextUid, NextUid, << >>)))

\* find returns the first user of that name.
IsFound(name, i) ==
  /\ i \in DOMAIN users /\ users[i].name = name
  /\ \A j \in 1 .. i - 1 : users[j].name # name

\* passwd, for the current user or a named one.  The two arrays are compared
\* whole, with what backspaces have left in them.
Passwd(i, first, second) ==
  /\ up
  /\ i = current \/ \E name \in ValidNames \cup OtherNames : IsFound(name, i)
  /\ first = second
  /\ Len(first.text) <= PASS_CAP
  /\ Change([users EXCEPT ![i].pass = first.text])

Login(name, text) ==
  /\ up
  /\ \E i \in DOMAIN users :
       /\ IsFound(name, i)
       /\ users[i].pass # << >> => text = users[i].pass
       /\ current' = i
  /\ UNCHANGED <<up, users, disk, sound, promised, foreign>>

\* mkfs makes /etc without a passwd file; the table stays as it is and unsaved.
\* On ext4 the mount that follows may replay transactions of an older one.
Mkfs(k) ==
  /\ up
  /\ kind' = k /\ etc' = TRUE /\ file' = Absent
  /\ sound' \in (IF k = "fat" THEN {TRUE} ELSE BOOLEAN)
  /\ promised' = {}
  /\ UNCHANGED <<up, users, current, foreign>>

\* mkdir and rmdir of /etc and of /etc/passwd; a directory with a text in it is
\* not empty.
Mkdir ==
  \/ ~etc /\ etc' = TRUE /\ UNCHANGED file
  \/ etc /\ ~file.there /\ file' = Directory /\ UNCHANGED etc

Rmdir ==
  \/ etc /\ ~file.there /\ etc' = FALSE /\ UNCHANGED file
  \/ file.dir /\ file.lines = << >> /\ file' = Absent /\ UNCHANGED etc

\* rm /etc/passwd, touch /etc/passwd, wtest /etc/passwd n
Rm == file.there /\ ~file.dir /\ file' = Absent /\ UNCHANGED etc
Touch == etc /\ ~file.there /\ file' = File(<< >>, TRUE) /\ UNCHANGED etc
Wtest ==
  /\ etc /\ (file.dir => kind = "fat")
  /\ \E lines \in {<< >>, <<Junk>>} :
       file' = [there |-> TRUE, dir |-> file.dir, lines |-> lines, own |-> ~file.dir]
  /\ UNCHANGED etc

\* mv of /etc/passwd, or of /etc with it, to another name; mv of another file to
\* it, which may be the one that was there before.
MvAway == file.there /\ file' = Absent /\ etc' \in {etc, FALSE}
MvBack == ~file.there /\ file' \in {File(lines, FALSE) : lines \in Foreign} /\ etc' = TRUE

OnFile ==
  /\ up /\ kind # "none"
  /\ Mkdir \/ Rmdir \/ Rm \/ Touch \/ Wtest \/ MvAway \/ MvBack
  /\ promised' = {}
  /\ UNCHANGED <<up, users, current, kind, sound, foreign>>

\* What read_line returns: the text, and its array to the last character.
Typed == {[text |-> t, array |-> t \o r] : t \in Texts, r \in Residues}

Next ==
  \/ Boot \/ PowerOff \/ Break \/ OnFile
  \/ \E name \in ValidNames \cup OtherNames : Adduser(name)
  \/ \E i \in DOMAIN users, first, second \in Typed : Passwd(i, first, second)
  \/ \E name \in ValidNames \cup OtherNames, text \in Texts : Login(name, text)
  \/ \E k \in {"fat", "ext4"} : Mkfs(k)

Spec == Init /\ [][Next]_vars

-----------------------------------------------------------------------------
(* Properties *)

\* The table never outgrows its array, nor a password its own, and the current
\* user is one of the table.
TypeOK ==
  /\ up \in BOOLEAN /\ etc \in BOOLEAN /\ foreign \in BOOLEAN /\ sound \in BOOLEAN
  /\ kind \in {"none", "fat", "ext4"}
  /\ Len(users) <= MAX_USERS
  /\ \A i \in DOMAIN users : users[i].uid \in Nat /\ Len(users[i].pass) <= PASS_CAP
  /\ up => current \in DOMAIN users
  /\ file.there => etc

\* A name and a number each mean one user, and root is there as the first with
\* number 0, over any sequence of commands, failed saves, power losses and boots
\* that read a whole file of the kernel's own or none.  Of another file, from a
\* disk prepared elsewhere or mixed by a power loss on FAT, only that root is
\* there, if it has room.
Identity ==
  up => /\ "root" \in NamesOf(users) \/ (foreign /\ Len(users) = MAX_USERS)
        /\ ~foreign => /\ users[1].name = "root" /\ users[1].uid = 0
                       /\ \A i, j \in DOMAIN users :
                            users[i].name = users[j].name \/ users[i].uid = users[j].uid
                              => i = j

\* A password that survives the trip through the file.
Plain(pass) == \A k \in DOMAIN pass : pass[k] # ":" /\ pass[k] \notin Wide

SameAccounts(us, vs) ==
  /\ Len(us) = Len(vs)
  /\ \A i \in DOMAIN us :
       /\ us[i].name = vs[i].name /\ us[i].uid = vs[i].uid /\ us[i].gid = vs[i].gid
       /\ Plain(vs[i].pass) => us[i].pass = vs[i].pass

\* A boot brings back the table of the last command whose save went through, as
\* long as nothing has harmed the file system; on ext4 a power loss during a save
\* that does no harm, also the save of an earlier boot, leaves the table before or
\* after it.  On FAT nothing is left of the promise then.
AccountsSurvive ==
  [][Boot /\ up' /\ promised # {} => \E us \in promised : SameAccounts(users', us)]_vars
=============================================================================
