----------------------------- MODULE MCLruCache -----------------------------
(***************************************************************************)
(* Constants of LruCache for TLC.                                          *)
(***************************************************************************)
EXTENDS LruCache

CONSTANTS a, b, c

\* Two labels share a chain, the third has its own.
MCHash == [l \in Labels |-> IF l = c THEN 2 ELSE 1]

\* One answer, or two of which the second expires first.
MCAnswers     == {<<0>>, <<1, 0>>}

=============================================================================
