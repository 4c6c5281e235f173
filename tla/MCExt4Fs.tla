------------------------------ MODULE MCExt4Fs ------------------------------
(***************************************************************************)
(* A small disk for Ext4Fs: two groups, few names, and paths of one and of *)
(* two components with and without dots.                                   *)
(***************************************************************************)
EXTENDS Ext4Fs

Path(abs, comps) == [abs |-> abs, comps |-> comps]

MCPaths ==
  {Path(TRUE, <<"a">>), Path(FALSE, <<"along">>), Path(TRUE, <<"a", "along">>),
   Path(FALSE, <<"a", "a">>), Path(FALSE, <<"..", "a">>), Path(FALSE, <<".">>),
   Path(FALSE, <<"..">>)}

MCSeeds == <<"a">>

\* States that differ only in what nothing reads are the same: the answer of
\* the last command; what the blocks and inodes hold that are free or leaked,
\* which an allocation overwrites; the link counts once they are wrong, which
\* would count up for ever.
MCView ==
  LET held == UNION {ToSet(fs.ino[i].ext) : i \in Linked}
      Seen(n) == IF moved THEN [n EXCEPT !.links = 0] ELSE n
  IN  <<[fs EXCEPT !.blk = [b \in held |-> @[b]], !.ino = [i \in Linked |-> Seen(@[i])]],
        cwd, moved, broken>>

MCSize(d) == CASE d = "" -> 0 [] d = "x" -> 1 [] d = "yy" -> 2
=============================================================================
