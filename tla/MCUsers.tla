------------------------------- MODULE MCUsers -------------------------------
(* A table of three: "1" and the Turkish dotless i share a byte.            *)
EXTENDS Users

MCTexts == {<< >>, <<"i", ":">>, <<"1", "1", "1">>}
MCResidues == {<< >>, <<"1">>}
MCLowByte == [c \in {"i"} |-> "1"]

Entry(name, uid, gid, pass) ==
  [fields |-> 4, name |-> name, uid |-> uid, gid |-> gid, pass |-> pass]

\* With bad numbers, a line too short, a name twice, without root and full.
MCForeign ==
  {<<Entry("x!", {}, {7}, << >>), Junk, Entry("a", {1001}, {}, << >>), Entry("a", {2}, {2}, << >>)>>}

\* Nothing; a user of an older table.
MCRests == {<< >>, <<Entry("a", {1000}, {1000}, << >>)>>}
=============================================================================
