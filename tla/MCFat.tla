------------------------------- MODULE MCFat -------------------------------
(***************************************************************************)
(* A small disk for Fat: two names, one of them with an extension, and     *)
(* paths of one and of two components with and without dots.               *)
(***************************************************************************)
EXTENDS Fat

Path(abs, comps) == [abs |-> abs, comps |-> comps]

MCPaths ==
  {Path(TRUE, <<"a">>), Path(FALSE, <<"b.c">>), Path(TRUE, <<"a", "a">>),
   Path(FALSE, <<"..", "a">>), Path(FALSE, <<"..">>)}

MCSeeds == <<"a">>

\* States that differ only in what nothing reads are the same: the last command,
\* the contents of clusters that no file or directory holds, and everything
\* once the disk is broken.
MCView ==
  LET held == UNION {ToSet(Chain(disk, x.e.clu)) : x \in nodes}
  IN  IF broken THEN << >>
      ELSE <<disk.fat, [c \in held |-> disk.blk[c]], cwd, moved>>

MCSize(d) == CASE d = "" -> 0 [] d = "yy" -> 2 [] d = "zzz" -> 3 [] OTHER -> 9
=============================================================================
