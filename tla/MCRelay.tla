------------------------------ MODULE MCRelay -------------------------------
(***************************************************************************)
(* Constants of Relay for TLC.                                             *)
(***************************************************************************)
EXTENDS Relay

CONSTANTS black, local, x, y

Query(n, ty) == [name |-> n, qtype |-> ty, query |-> TRUE]

\* Two names of different types, a blacklisted and a local name, and a
\* datagram that is not a query, of a type that is not cached.
FormsAll ==
    {Query(x, 1), Query(y, 28), Query(black, 1), Query(local, 1),
     [Query(y, 15) EXCEPT !.query = FALSE]}

\* What the ring and the caches tell apart: two types of one name, and a second
\* name.
FormsCached == {Query(x, 1), Query(x, 28), Query(y, 1)}

\* A datagram that is not a query, and a query.
FormsOdd == {Query(x, 1), [Query(x, 1) EXCEPT !.query = FALSE]}

=============================================================================
