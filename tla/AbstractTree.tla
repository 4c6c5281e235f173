---------------------------- MODULE AbstractTree ----------------------------
(***************************************************************************)
(* What the file systems promise the shell: a tree of named directories    *)
(* and files, a current directory, and commands that either do what they   *)
(* are asked or change nothing - except a write, which may lose the old    *)
(* contents of the file it fails to replace.                               *)
(*                                                                         *)
(* A node is the sequence of names that leads to it from the root.         *)
(***************************************************************************)
EXTENDS Sequences, SequencesExt

CONSTANTS
  Paths,     \* what a command is given: [abs |-> BOOLEAN, comps |-> names]
  Payloads,  \* file contents
  Empty,     \* the contents of an empty file
  Seeds,     \* the directories mkfs makes
  RootDots,  \* whether "." and ".." are understood in the root directory
  Cut(_)     \* what cd keeps of a name

VARIABLES
  tree,  \* node |-> Dir or the contents of a file
  cwd,   \* the current directory, a node; it need not exist any more
  last   \* the command that ran last and its answer

Dir == "dir"
NoNode == <<"no node">>   \* no path leads to it
vars == <<tree, cwd, last>>

IsDir(n) == n \in DOMAIN tree /\ tree[n] = Dir
Below(n) == {m \in DOMAIN tree : IsPrefix(n, m)}

\* One component of a path.
Enter(n, c) ==
  IF n = NoNode \/ ~IsDir(n) THEN NoNode
  ELSE IF c \notin {".", ".."} THEN Append(n, c)
  ELSE IF n = << >> THEN IF RootDots THEN n ELSE NoNode
  ELSE IF c = "." THEN n ELSE Front(n)

Walk(n, comps) == FoldLeft(Enter, n, comps)

\* A path of a single component is taken in the current directory, whether or
\* not it starts with a slash.
Target(p) ==
  LET from == IF p.abs /\ Len(p.comps) > 1 THEN << >> ELSE cwd
      up   == Walk(from, Front(p.comps))
  IN  Enter(IF up # NoNode /\ IsDir(up) THEN up ELSE NoNode, Last(p.comps))

Exists(n) == n # NoNode /\ n \in DOMAIN tree

Answers(c, r) == last' = [cmd |-> c, res |-> r]

\* The command is refused, or there is no space, and nothing changes.
Errors == {"NoPath", "IsDir", "NotDir", "Exists", "NotEmpty", "TooBig", "NoSpace",
           "Unsupported", "BadName"}
Fails(c) == (\E r \in Errors : Answers(c, r)) /\ UNCHANGED <<tree, cwd>>

Grow(n, x) == [m \in DOMAIN tree \cup {n} |-> IF m = n THEN x ELSE tree[m]]
Prune(N) == [m \in DOMAIN tree \ N |-> tree[m]]

Touch(p) ==
  /\ Answers("touch", "ok") /\ Target(p) # NoNode /\ UNCHANGED cwd
  /\ tree' = IF Exists(Target(p)) THEN tree ELSE Grow(Target(p), Empty)

Mkdir(p) ==
  /\ Answers("mkdir", "ok") /\ Target(p) # NoNode /\ ~Exists(Target(p))
  /\ tree' = Grow(Target(p), Dir) /\ UNCHANGED cwd

Write(p, d) ==
  /\ last'.cmd = "write" /\ Target(p) # NoNode /\ ~IsDir(Target(p)) /\ UNCHANGED cwd
  /\ \/ Answers("write", "ok") /\ tree' = Grow(Target(p), d)
     \/ /\ \E r \in {"NoSpace", "Unsupported"} : Answers("write", r)
        /\ tree' = Grow(Target(p), Empty)

Rm(p) ==
  /\ Answers("rm", "ok") /\ Exists(Target(p)) /\ ~IsDir(Target(p))
  /\ tree' = Prune({Target(p)}) /\ UNCHANGED cwd

Rmdir(p) ==
  /\ Answers("rmdir", "ok")
  /\ Exists(Target(p)) /\ Below(Target(p)) = {Target(p)} /\ IsDir(Target(p))
  /\ tree' = Prune({Target(p)}) /\ UNCHANGED cwd

\* The node moves with everything below it.
Mv(p, q) ==
  LET a == Target(p)
      b == Target(q)
      Moved(m) == b \o SubSeq(m, Len(a) + 1, Len(m))
  IN  /\ Answers("mv", "ok") /\ Exists(a) /\ b # NoNode /\ ~Exists(b)
      /\ tree' = [m \in (DOMAIN tree \ Below(a)) \cup {Moved(m) : m \in Below(a)} |->
                    IF IsPrefix(b, m) THEN tree[a \o SubSeq(m, Len(b) + 1, Len(m))]
                    ELSE tree[m]]
      /\ UNCHANGED cwd

\* cd takes "." and ".." as words of the path, not as entries.
Step(n, c) ==
  IF c = "." THEN n
  ELSE IF c = ".." THEN IF n = << >> THEN n ELSE Front(n)
  ELSE Append(n, Cut(c))

Cd(p) ==
  LET n == FoldLeft(Step, IF p.abs THEN << >> ELSE cwd, p.comps)
  IN  Answers("cd", "ok") /\ cwd' = n /\ IsDir(n) /\ UNCHANGED tree

Read(p) ==
  /\ last'.cmd = "read" /\ Exists(Target(p)) /\ ~IsDir(Target(p))
  /\ Answers("read", tree[Target(p)]) /\ UNCHANGED <<tree, cwd>>

SeedTree == [n \in {<< >>} \cup {<<Seeds[k]>> : k \in 1 .. Len(Seeds)} |-> Dir]

Mkfs == tree' = SeedTree /\ Answers("mkfs", "ok") /\ UNCHANGED cwd

Init == tree = SeedTree /\ cwd = << >> /\ last = [cmd |-> "mkfs", res |-> "ok"]

Next ==
  \/ \E c \in {"touch", "mkdir", "write", "rm", "rmdir", "mv", "cd", "read"} : Fails(c)
  \/ \E p \in Paths :
       \/ Touch(p) \/ Mkdir(p) \/ Rm(p) \/ Rmdir(p) \/ Cd(p) \/ Read(p)
       \/ \E d \in Payloads \ {Empty} : Write(p, d)
       \/ \E q \in Paths : Mv(p, q)
  \/ Mkfs

Spec == Init /\ [][Next]_vars
=============================================================================
