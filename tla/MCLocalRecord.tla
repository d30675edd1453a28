--------------------------- MODULE MCLocalRecord ----------------------------
(* Instances of LocalRecord for TLC: files of up to MaxLines lines. *)
EXTENDS LocalRecord

CONSTANT MaxLines

W(k, v) == [kind |-> k, val |-> v]
Line(words) == [words |-> words, bare |-> FALSE]
N(n) == W("word", n)

\* The last two are a name without an address and a line with a remark.
MCLines ==
    { Line(<<W("v4", "1.1.1.1"), N("n1")>>),
      Line(<<W("v4", "2.2.2.2"), N("n1")>>),
      Line(<<W("v4", "1.1.1.1"), N("n2")>>),
      Line(<<W("v6", "1::1"), N("n1")>>),
      Line(<<W("v4zero", "0.0.0.0"), N("n2")>>),
      Line(<<W("v6zero", "::"), N("n1")>>),
      Line(<<N("n3"), W("v4", "1.1.1.1")>>),
      Line(<<>>),
      [words |-> <<>>, bare |-> TRUE],
      Line(<<N("n3")>>),
      Line(<<W("v4", "2.2.2.2"), N("n2"), N("n3")>>) }

MCFiles == BoundedSeq(MCLines, MaxLines)
=============================================================================
