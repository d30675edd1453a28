--------------------------- MODULE SequenceFacts ----------------------------
(***************************************************************************)
(* What the proofs about names, messages and files need to know of         *)
(* sequences: induction over the naturals in terms of sets, and FlattenSeq *)
(* by its recursion.                                                       *)
(***************************************************************************)
EXTENDS Integers, Sequences, SequencesExt, WellFoundedInduction, TLAPS

\* A set of naturals has a least element.
LEMMA LeastNatural ==
    ASSUME NEW T \in SUBSET Nat, T # {}
    PROVE  \E x \in T : \A y \in T : x <= y
  <1> DEFINE R == {ss \in Nat \X Nat : ss[1] < ss[2]}
  <1>1. IsWellFoundedOn(R, Nat)
    BY NatLessThanWellFounded DEF OpToRel
  <1>2. \A i, j \in Nat : <<i, j>> \in R <=> i < j
    OBVIOUS
  <1> HIDE DEF R
  <1>3. PICK x \in T : \A y \in T : ~(<<y, x>> \in R)
    BY <1>1, WFMin
  <1>4. ASSUME NEW y \in T PROVE x <= y
    <2>1. x \in Nat /\ y \in Nat
      OBVIOUS
    <2>2. ~(<<y, x>> \in R)
      BY <1>3
    <2>3. ~(y < x)
      BY <2>1, <2>2, <1>2
    <2> QED BY <2>1, <2>3
  <1> QED BY <1>4

\* Induction: a set that holds 0, and with n also n + 1, holds every natural.
LEMMA InductiveSet ==
    ASSUME NEW S, 0 \in S, \A n \in Nat : n \in S => n + 1 \in S
    PROVE  \A n \in Nat : n \in S
  <1> SUFFICES ASSUME Nat \ S # {} PROVE FALSE
    OBVIOUS
  <1>1. PICK x \in Nat \ S : \A y \in Nat \ S : x <= y
    BY LeastNatural
  <1> QED BY <1>1

-----------------------------------------------------------------------------
LEMMA SameSequence ==
    ASSUME NEW S, NEW s \in Seq(S), NEW t \in Seq(S), Len(s) = Len(t),
           \A i \in 1..Len(s) : s[i] = t[i]
    PROVE  s = t
  OBVIOUS

LEMMA Join ==
    ASSUME NEW S, NEW s \in Seq(S), NEW t \in Seq(S)
    PROVE  /\ s \o t \in Seq(S) /\ Len(s \o t) = Len(s) + Len(t)
           /\ \A i \in 1..Len(s) : (s \o t)[i] = s[i]
           /\ \A i \in 1..Len(t) : (s \o t)[Len(s) + i] = t[i]
  OBVIOUS

LEMMA JoinEmpty ==
    ASSUME NEW S, NEW s \in Seq(S)
    PROVE  s \o <<>> = s /\ <<>> \o s = s
  OBVIOUS

LEMMA JoinAssociative ==
    ASSUME NEW S, NEW s \in Seq(S), NEW t \in Seq(S), NEW u \in Seq(S)
    PROVE  (s \o t) \o u = s \o (t \o u)
  OBVIOUS

LEMMA Prefix ==
    ASSUME NEW S, NEW s \in Seq(S), NEW n \in Nat, n <= Len(s)
    PROVE  /\ SubSeq(s, 1, n) \in Seq(S) /\ Len(SubSeq(s, 1, n)) = n
           /\ \A i \in 1..n : SubSeq(s, 1, n)[i] = s[i]
  OBVIOUS

LEMMA Suffix ==
    ASSUME NEW S, NEW s \in Seq(S), NEW m \in Nat, 1 <= m, m <= Len(s)
    PROVE  SubSeq(s, m, Len(s)) \in Seq(S) /\ Len(SubSeq(s, m, Len(s))) = Len(s) - m + 1
  OBVIOUS

LEMMA Appended ==
    ASSUME NEW S, NEW s \in Seq(S), NEW e \in S
    PROVE  /\ Append(s, e) \in Seq(S) /\ Len(Append(s, e)) = Len(s) + 1
           /\ Append(s, e)[Len(s) + 1] = e
           /\ \A i \in 1..Len(s) : Append(s, e)[i] = s[i]
           /\ s \o <<e>> = Append(s, e)
  OBVIOUS

LEMMA Replaced ==
    ASSUME NEW S, NEW s \in Seq(S), NEW k \in 1..Len(s), NEW e \in S
    PROVE  /\ [s EXCEPT ![k] = e] \in Seq(S) /\ Len([s EXCEPT ![k] = e]) = Len(s)
           /\ [s EXCEPT ![k] = e][k] = e
           /\ \A i \in 1..Len(s) : i # k => [s EXCEPT ![k] = e][i] = s[i]
  OBVIOUS

-----------------------------------------------------------------------------
\* f[k] is what the first k of the sequences make when put together.
Flattens(f, seqs) ==
    f = [i \in 1..Len(seqs) |-> IF i = 1 THEN seqs[i] ELSE f[i - 1] \o seqs[i]]

LEMMA FlattenExists ==
    ASSUME NEW S, NEW seqs \in Seq(Seq(S))
    PROVE  \E f : Flattens(f, seqs)
  <1> DEFINE Upto(n) == \E f : f = [i \in 1..n |-> IF i = 1 THEN seqs[i] ELSE f[i - 1] \o seqs[i]]
             Good == {n \in Nat : Upto(n)}
  <1>1. 0 \in Good
    <2> DEFINE f0 == [i \in 1..0 |-> seqs]
    <2>1. f0 = [i \in 1..0 |-> IF i = 1 THEN seqs[i] ELSE f0[i - 1] \o seqs[i]]
      OBVIOUS
    <2> QED BY <2>1
  <1>2. ASSUME NEW n \in Nat, n \in Good PROVE n + 1 \in Good
    <2>1. PICK f : f = [i \in 1..n |-> IF i = 1 THEN seqs[i] ELSE f[i - 1] \o seqs[i]]
      BY <1>2
    <2> DEFINE g == [i \in 1..(n + 1) |-> IF i <= n THEN f[i]
                                          ELSE IF i = 1 THEN seqs[i] ELSE f[i - 1] \o seqs[i]]
    <2>2. ASSUME NEW i \in 1..(n + 1)
          PROVE  g[i] = IF i = 1 THEN seqs[i] ELSE g[i - 1] \o seqs[i]
      <3>1. CASE i <= n
        <4>1. f[i] = IF i = 1 THEN seqs[i] ELSE f[i - 1] \o seqs[i]
          <5> DEFINE h == [j \in 1..n |-> IF j = 1 THEN seqs[j] ELSE f[j - 1] \o seqs[j]]
          <5>1. i \in 1..n
            BY <3>1
          <5>2. h[i] = IF i = 1 THEN seqs[i] ELSE f[i - 1] \o seqs[i]
            BY <5>1
          <5>3. f = h
            BY <2>1
          <5> HIDE DEF h
          <5> QED BY <5>2, <5>3
        <4>2. g[i] = f[i] /\ (i # 1 => g[i - 1] = f[i - 1])
          BY <3>1
        <4> QED BY <4>1, <4>2
      <3>2. CASE i = n + 1
        <4>1. i # 1 => g[i - 1] = f[i - 1]
          BY <3>2
        <4> QED BY <4>1, <3>2
      <3> QED BY <3>1, <3>2
    <2>3. g = [i \in 1..(n + 1) |-> IF i = 1 THEN seqs[i] ELSE g[i - 1] \o seqs[i]]
      BY <2>2
    <2> HIDE DEF g
    <2>4. Upto(n + 1)
      BY <2>3
    <2>5. n + 1 \in Nat
      OBVIOUS
    <2> QED BY <2>4, <2>5
  <1> HIDE DEF Good
  <1>3. Len(seqs) \in Good
    BY <1>1, <1>2, InductiveSet
  <1> QED BY <1>3 DEF Good, Flattens

LEMMA FlattenByRecursion ==
    ASSUME NEW S, NEW seqs \in Seq(Seq(S)), seqs # <<>>
    PROVE  \E f : Flattens(f, seqs) /\ FlattenSeq(seqs) = f[Len(seqs)]
  <1> DEFINE f == CHOOSE f : Flattens(f, seqs)
  <1>1. Flattens(f, seqs)
    BY FlattenExists
  <1>2. FlattenSeq(seqs) = f[Len(seqs)]
    BY DEF FlattenSeq, Flattens
  <1> QED BY <1>1, <1>2
LEMMA FlattensUnfold ==
    ASSUME NEW f, NEW seqs, Flattens(f, seqs), NEW i \in 1..Len(seqs)
    PROVE  f[i] = IF i = 1 THEN seqs[i] ELSE f[i - 1] \o seqs[i]
  <1> DEFINE h == [j \in 1..Len(seqs) |-> IF j = 1 THEN seqs[j] ELSE f[j - 1] \o seqs[j]]
  <1>1. h[i] = IF i = 1 THEN seqs[i] ELSE f[i - 1] \o seqs[i]
    OBVIOUS
  <1>2. f = h
    BY DEF Flattens
  <1> HIDE DEF h
  <1> QED BY <1>1, <1>2

LEMMA FlattensTyped ==
    ASSUME NEW S, NEW seqs \in Seq(Seq(S)), NEW f, Flattens(f, seqs)
    PROVE  \A i \in 1..Len(seqs) : f[i] \in Seq(S)
  <1> DEFINE Good == {n \in Nat : n \in 1..Len(seqs) => f[n] \in Seq(S)}
  <1>1. 0 \in Good
    OBVIOUS
  <1>2. ASSUME NEW n \in Nat, n \in Good PROVE n + 1 \in Good
    <2> SUFFICES ASSUME n + 1 \in 1..Len(seqs) PROVE f[n + 1] \in Seq(S)
      OBVIOUS
    <2>1. f[n + 1] = IF n + 1 = 1 THEN seqs[n + 1] ELSE f[(n + 1) - 1] \o seqs[n + 1]
      BY FlattensUnfold
    <2>2. seqs[n + 1] \in Seq(S)
      OBVIOUS
    <2>3. CASE n = 0
      BY <2>1, <2>2, <2>3
    <2>4. CASE n # 0
      <3>1. f[n] \in Seq(S) /\ (n + 1) - 1 = n /\ n + 1 # 1
        BY <1>2, <2>4
      <3> QED BY <3>1, <2>1, <2>2
    <2> QED BY <2>3, <2>4
  <1> HIDE DEF Good
  <1>3. \A n \in Nat : n \in Good
    BY <1>1, <1>2, InductiveSet
  <1> QED BY <1>3 DEF Good

\* FlattenSeq returns a sequence.
LEMMA FlattenTyped ==
    ASSUME NEW S, NEW seqs \in Seq(Seq(S))
    PROVE  FlattenSeq(seqs) \in Seq(S)
  <1>1. CASE seqs = <<>>
    BY <1>1 DEF FlattenSeq
  <1>2. CASE seqs # <<>>
    BY <1>2, FlattenByRecursion, FlattensTyped
  <1> QED BY <1>1, <1>2

LEMMA FlattenEmpty == FlattenSeq(<<>>) = <<>>
  BY DEF FlattenSeq

\* One more sequence is put at the end.
LEMMA FlattenAppend ==
    ASSUME NEW S, NEW seqs \in Seq(Seq(S)), NEW s \in Seq(S)
    PROVE  FlattenSeq(Append(seqs, s)) = FlattenSeq(seqs) \o s
  <1> DEFINE more == Append(seqs, s)
             n == Len(seqs)
  <1>1. more \in Seq(Seq(S)) /\ more # <<>> /\ Len(more) = n + 1 /\ more[n + 1] = s
    <2>1. more \in Seq(Seq(S)) /\ Len(more) = n + 1 /\ more[n + 1] = s
      OBVIOUS
    <2>2. n + 1 # 0
      OBVIOUS
    <2> HIDE DEF more, n
    <2> QED BY <2>1, <2>2
  <1>2. \A i \in 1..n : more[i] = seqs[i]
    OBVIOUS
  <1> HIDE DEF more
  <1>3. PICK g : Flattens(g, more) /\ FlattenSeq(more) = g[n + 1]
    BY <1>1, FlattenByRecursion
  <1>4. CASE n = 0
    <2>1. FlattenSeq(seqs) = <<>>
      BY <1>4, FlattenEmpty
    <2>2. g[1] = s
      BY <1>1, <1>3, <1>4, FlattensUnfold
    <2>3. FlattenSeq(more) = s
      BY <1>3, <1>4, <2>2
    <2> QED BY <2>1, <2>3 DEF more
  <1>5. CASE n # 0
    <2>1. PICK f : Flattens(f, seqs) /\ FlattenSeq(seqs) = f[n]
      BY <1>5, FlattenByRecursion
    <2> DEFINE Good == {i \in Nat : i \in 1..n => g[i] = f[i]}
    <2>2. 0 \in Good
      OBVIOUS
    <2>3. ASSUME NEW i \in Nat, i \in Good PROVE i + 1 \in Good
      <3> SUFFICES ASSUME i + 1 \in 1..n PROVE g[i + 1] = f[i + 1]
        OBVIOUS
      <3>0. i + 1 \in 1..Len(more)
        BY <1>1
      <3>1. g[i + 1] = IF i + 1 = 1 THEN more[i + 1] ELSE g[(i + 1) - 1] \o more[i + 1]
        BY <3>0, <1>3, FlattensUnfold
      <3>2. f[i + 1] = IF i + 1 = 1 THEN seqs[i + 1] ELSE f[(i + 1) - 1] \o seqs[i + 1]
        BY <2>1, FlattensUnfold
      <3>3. more[i + 1] = seqs[i + 1]
        BY <1>2
      <3>4. i + 1 # 1 => g[(i + 1) - 1] = f[(i + 1) - 1]
        BY <2>3
      <3> QED BY <3>1, <3>2, <3>3, <3>4
    <2> HIDE DEF Good
    <2>4. n \in Good
      <3>1. \A i \in Nat : i \in Good
        BY <2>2, <2>3, InductiveSet
      <3> QED BY <3>1
    <2>5. g[n] = f[n]
      BY <2>4, <1>5 DEF Good
    <2>6. g[n + 1] = g[n] \o s
      <3>1. n + 1 \in 1..Len(more) /\ n + 1 # 1 /\ (n + 1) - 1 = n
        BY <1>1, <1>5
      <3>2. g[n + 1] = IF n + 1 = 1 THEN more[n + 1] ELSE g[(n + 1) - 1] \o more[n + 1]
        BY <3>1, <1>3, FlattensUnfold
      <3> QED BY <3>1, <3>2, <1>1
    <2> QED BY <2>1, <2>5, <2>6, <1>3 DEF more
  <1> QED BY <1>4, <1>5

LEMMA FlattenPrefix ==
    ASSUME NEW S, NEW seqs \in Seq(Seq(S)), NEW k \in 0..(Len(seqs) - 1)
    PROVE  FlattenSeq(SubSeq(seqs, 1, k + 1)) = FlattenSeq(SubSeq(seqs, 1, k)) \o seqs[k + 1]
  <1>1. SubSeq(seqs, 1, k) \in Seq(Seq(S)) /\ seqs[k + 1] \in Seq(S)
    OBVIOUS
  <1>2. SubSeq(seqs, 1, k + 1) = Append(SubSeq(seqs, 1, k), seqs[k + 1])
    OBVIOUS
  <1> QED BY <1>1, <1>2, FlattenAppend
\* The first k sequences make the beginning of the whole.
LEMMA FlattenExtends ==
    ASSUME NEW S, NEW seqs \in Seq(Seq(S)), NEW k \in 0..Len(seqs)
    PROVE  LET head == FlattenSeq(SubSeq(seqs, 1, k))
           IN  /\ Len(head) <= Len(FlattenSeq(seqs))
               /\ \A j \in 1..Len(head) : FlattenSeq(seqs)[j] = head[j]
  <1> DEFINE Upto(n) == FlattenSeq(SubSeq(seqs, 1, n))
             Good == {d \in Nat : k + d <= Len(seqs) =>
                          /\ Len(Upto(k)) <= Len(Upto(k + d))
                          /\ \A j \in 1..Len(Upto(k)) : Upto(k + d)[j] = Upto(k)[j]}
  <1>1. ASSUME NEW n \in 0..Len(seqs) PROVE Upto(n) \in Seq(S)
    <2>1. SubSeq(seqs, 1, n) \in Seq(Seq(S))
      OBVIOUS
    <2> QED BY <2>1, FlattenTyped
  <1>2. ASSUME NEW n \in 0..(Len(seqs) - 1) PROVE Upto(n + 1) = Upto(n) \o seqs[n + 1]
    BY FlattenPrefix
  <1>3. Upto(Len(seqs)) = FlattenSeq(seqs)
    <2>1. SubSeq(seqs, 1, Len(seqs)) = seqs
      OBVIOUS
    <2> QED BY <2>1
  <1> HIDE DEF Upto
  <1>4. 0 \in Good
    <2>1. k + 0 = k /\ Upto(k) \in Seq(S)
      BY <1>1
    <2> QED BY <2>1
  <1>5. ASSUME NEW d \in Nat, d \in Good PROVE d + 1 \in Good
    <2> SUFFICES ASSUME k + (d + 1) <= Len(seqs)
                 PROVE  /\ Len(Upto(k)) <= Len(Upto(k + (d + 1)))
                        /\ \A j \in 1..Len(Upto(k)) : Upto(k + (d + 1))[j] = Upto(k)[j]
      OBVIOUS
    <2>1. k + d \in 0..(Len(seqs) - 1) /\ k + (d + 1) = (k + d) + 1
      OBVIOUS
    <2>2. Upto(k + (d + 1)) = Upto(k + d) \o seqs[(k + d) + 1]
      BY <1>2, <2>1
    <2>3. Upto(k) \in Seq(S) /\ Upto(k + d) \in Seq(S) /\ seqs[(k + d) + 1] \in Seq(S)
      BY <1>1, <2>1
    <2>4. /\ Len(Upto(k)) <= Len(Upto(k + d))
          /\ \A j \in 1..Len(Upto(k)) : Upto(k + d)[j] = Upto(k)[j]
      BY <1>5, <2>1
    <2>5. /\ Len(Upto(k + d)) <= Len(Upto(k + (d + 1)))
          /\ \A j \in 1..Len(Upto(k + d)) : Upto(k + (d + 1))[j] = Upto(k + d)[j]
      <3>1. PICK a \in Seq(S), b \in Seq(S) :
                a = Upto(k + d) /\ b = seqs[(k + d) + 1] /\ a \o b = Upto(k + (d + 1))
        BY <2>2, <2>3
      <3>2. Len(a) <= Len(a \o b) /\ \A j \in 1..Len(a) : (a \o b)[j] = a[j]
        OBVIOUS
      <3> QED BY <3>1, <3>2
    <2>6. Len(Upto(k)) \in Nat /\ Len(Upto(k + d)) \in Nat /\ Len(Upto(k + (d + 1))) \in Nat
      BY <2>2, <2>3
    <2> QED BY <2>4, <2>5, <2>6
  <1> HIDE DEF Good
  <1>6. (Len(seqs) - k) \in Good
    <2>1. \A d \in Nat : d \in Good
      BY <1>4, <1>5, InductiveSet
    <2> QED BY <2>1
  <1>7. k + (Len(seqs) - k) = Len(seqs)
    OBVIOUS
  <1>8. /\ Len(Upto(k)) <= Len(FlattenSeq(seqs))
        /\ \A j \in 1..Len(Upto(k)) : FlattenSeq(seqs)[j] = Upto(k)[j]
    BY <1>3, <1>6, <1>7 DEF Good
  <1> QED BY <1>8 DEF Upto

\* Where the bytes of the sequence after the first k are.
LEMMA FlattenAt ==
    ASSUME NEW S, NEW seqs \in Seq(Seq(S)), NEW k \in 0..(Len(seqs) - 1)
    PROVE  LET p == Len(FlattenSeq(SubSeq(seqs, 1, k)))
           IN  /\ p + Len(seqs[k + 1]) <= Len(FlattenSeq(seqs))
               /\ \A j \in 1..Len(seqs[k + 1]) : FlattenSeq(seqs)[p + j] = seqs[k + 1][j]
  <1> DEFINE head == FlattenSeq(SubSeq(seqs, 1, k))
             more == FlattenSeq(SubSeq(seqs, 1, k + 1))
  <1>1. more = head \o seqs[k + 1]
    BY FlattenPrefix
  <1>2. head \in Seq(S) /\ seqs[k + 1] \in Seq(S)
    <2>1. SubSeq(seqs, 1, k) \in Seq(Seq(S))
      OBVIOUS
    <2>2. head \in Seq(S)
      BY <2>1, FlattenTyped
    <2>3. k + 1 \in 1..Len(seqs)
      OBVIOUS
    <2>4. seqs[k + 1] \in Seq(S)
      BY <2>3
    <2> QED BY <2>2, <2>4
  <1>3. k + 1 \in 0..Len(seqs)
    OBVIOUS
  <1>4. /\ Len(more) <= Len(FlattenSeq(seqs))
        /\ \A j \in 1..Len(more) : FlattenSeq(seqs)[j] = more[j]
    BY <1>3, FlattenExtends
  <1> HIDE DEF head, more
  <1>5. /\ Len(more) = Len(head) + Len(seqs[k + 1])
        /\ \A j \in 1..Len(seqs[k + 1]) : more[Len(head) + j] = seqs[k + 1][j]
    BY <1>1, <1>2
  <1>6. /\ Len(head) + Len(seqs[k + 1]) <= Len(FlattenSeq(seqs))
        /\ \A j \in 1..Len(seqs[k + 1]) : FlattenSeq(seqs)[Len(head) + j] = seqs[k + 1][j]
    BY <1>2, <1>4, <1>5
  <1> QED BY <1>6 DEF head

-----------------------------------------------------------------------------
(***************************************************************************)
(* The elements of g at the positions up to n that are in S, in order.     *)
(***************************************************************************)
Picks(h, n, S, g) ==
    h = [i \in 0..n |-> IF i = 0 THEN <<>>
                        ELSE IF i \in S THEN Append(h[i - 1], g[i]) ELSE h[i - 1]]

Picked(n, S, g) == (CHOOSE h : Picks(h, n, S, g))[n]

LEMMA PicksUnfold ==
    ASSUME NEW h, NEW n \in Nat, NEW S, NEW g, Picks(h, n, S, g)
    PROVE  /\ h[0] = <<>>
           /\ \A i \in 1..n : h[i] = IF i \in S THEN Append(h[i - 1], g[i]) ELSE h[i - 1]
  <1> DEFINE k == [i \in 0..n |-> IF i = 0 THEN <<>>
                                  ELSE IF i \in S THEN Append(h[i - 1], g[i]) ELSE h[i - 1]]
  <1>1. k[0] = <<>>
    OBVIOUS
  <1>2. ASSUME NEW i \in 1..n
        PROVE  k[i] = IF i \in S THEN Append(h[i - 1], g[i]) ELSE h[i - 1]
    <2>1. i \in 0..n /\ i # 0
      OBVIOUS
    <2> QED BY <2>1
  <1>3. h = k
    BY DEF Picks
  <1> HIDE DEF k
  <1> QED BY <1>1, <1>2, <1>3

LEMMA PicksExists ==
    ASSUME NEW size \in Nat, NEW S, NEW g
    PROVE  \E h : Picks(h, size, S, g)
  <1> DEFINE Good == {n \in Nat : \E h : Picks(h, n, S, g)}
  <1>1. 0 \in Good
    <2> DEFINE h == [i \in 0..0 |-> <<>>]
    <2>1. h = [i \in 0..0 |-> IF i = 0 THEN <<>>
                              ELSE IF i \in S THEN Append(h[i - 1], g[i]) ELSE h[i - 1]]
      OBVIOUS
    <2> HIDE DEF h
    <2> QED BY <2>1 DEF Picks
  <1>2. ASSUME NEW n \in Nat, n \in Good PROVE n + 1 \in Good
    <2>1. PICK h : Picks(h, n, S, g)
      BY <1>2
    <2>2. /\ h[0] = <<>>
          /\ \A i \in 1..n : h[i] = IF i \in S THEN Append(h[i - 1], g[i]) ELSE h[i - 1]
      BY <2>1, PicksUnfold
    <2> DEFINE last == IF n + 1 \in S THEN Append(h[n], g[n + 1]) ELSE h[n]
               k == [i \in 0..(n + 1) |-> IF i = n + 1 THEN last ELSE h[i]]
    <2>3. ASSUME NEW i \in 0..(n + 1)
          PROVE  k[i] = IF i = 0 THEN <<>>
                        ELSE IF i \in S THEN Append(k[i - 1], g[i]) ELSE k[i - 1]
      <3>1. CASE i = 0
        BY <3>1, <2>2
      <3>2. CASE i = n + 1
        <4>1. k[i] = last /\ k[i - 1] = h[n] /\ i # 0
          BY <3>2
        <4> QED BY <4>1, <3>2
      <3>3. CASE i # 0 /\ i # n + 1
        <4>1. i \in 1..n /\ i - 1 \in 0..(n + 1) /\ i - 1 # n + 1
          BY <3>3
        <4>2. k[i] = h[i] /\ k[i - 1] = h[i - 1]
          BY <3>3, <4>1
        <4> HIDE DEF k
        <4> QED BY <4>1, <4>2, <2>2, <3>3
      <3> QED BY <3>1, <3>2, <3>3
    <2>4. k = [i \in 0..(n + 1) |-> IF i = 0 THEN <<>>
                                    ELSE IF i \in S THEN Append(k[i - 1], g[i]) ELSE k[i - 1]]
      BY <2>3
    <2> HIDE DEF k
    <2>5. Picks(k, n + 1, S, g)
      BY <2>4 DEF Picks
    <2>6. n + 1 \in Nat
      OBVIOUS
    <2> QED BY <2>5, <2>6
  <1> HIDE DEF Good
  <1>3. size \in Good
    BY <1>1, <1>2, InductiveSet
  <1> QED BY <1>3 DEF Good

\* Where two picks have the same to pick from, they agree.
LEMMA PicksAgree ==
    ASSUME NEW m \in Nat, NEW n \in Nat, m <= n, NEW S, NEW T, NEW f, NEW g, NEW h, NEW k,
           Picks(h, m, S, f), Picks(k, n, T, g),
           \A i \in 1..m : (i \in S <=> i \in T) /\ (i \in S => f[i] = g[i])
    PROVE  h[m] = k[m]
  <1>1. /\ h[0] = <<>>
        /\ \A i \in 1..m : h[i] = IF i \in S THEN Append(h[i - 1], f[i]) ELSE h[i - 1]
    BY PicksUnfold
  <1>2. /\ k[0] = <<>>
        /\ \A i \in 1..n : k[i] = IF i \in T THEN Append(k[i - 1], g[i]) ELSE k[i - 1]
    BY PicksUnfold
  <1> DEFINE Good == {i \in Nat : i <= m => h[i] = k[i]}
  <1>3. 0 \in Good
    BY <1>1, <1>2
  <1>4. ASSUME NEW i \in Nat, i \in Good PROVE i + 1 \in Good
    <2> SUFFICES ASSUME i + 1 <= m PROVE h[i + 1] = k[i + 1]
      OBVIOUS
    <2>1. i <= m /\ i + 1 \in 1..m /\ i + 1 \in 1..n /\ (i + 1) - 1 = i
      OBVIOUS
    <2>2. h[i] = k[i]
      BY <2>1, <1>4
    <2>3. h[i + 1] = IF i + 1 \in S THEN Append(h[i], f[i + 1]) ELSE h[i]
      BY <2>1, <1>1
    <2>4. k[i + 1] = IF i + 1 \in T THEN Append(k[i], g[i + 1]) ELSE k[i]
      BY <2>1, <1>2
    <2> QED BY <2>1, <2>2, <2>3, <2>4
  <1> HIDE DEF Good
  <1>5. m \in Good
    BY <1>3, <1>4, InductiveSet
  <1> QED BY <1>5 DEF Good

LEMMA PickedByRecursion ==
    ASSUME NEW n \in Nat, NEW S, NEW g
    PROVE  \E h : Picks(h, n, S, g) /\ Picked(n, S, g) = h[n]
  <1> DEFINE h == CHOOSE h : Picks(h, n, S, g)
  <1>1. Picks(h, n, S, g)
    BY PicksExists
  <1>2. Picked(n, S, g) = h[n]
    BY DEF Picked
  <1> QED BY <1>1, <1>2

\* Nothing is picked at first, and one more position adds its element or nothing.
LEMMA PickedNone == ASSUME NEW S, NEW g PROVE Picked(0, S, g) = <<>>
  <1>1. PICK h : Picks(h, 0, S, g) /\ Picked(0, S, g) = h[0]
    BY PickedByRecursion
  <1> QED BY <1>1, PicksUnfold

LEMMA PickedStep ==
    ASSUME NEW n \in Nat, NEW S, NEW g
    PROVE  Picked(n + 1, S, g) = IF n + 1 \in S THEN Append(Picked(n, S, g), g[n + 1])
                                 ELSE Picked(n, S, g)
  <1>0. PICK m \in Nat : m = n + 1
    OBVIOUS
  <1>1. PICK h : Picks(h, m, S, g) /\ Picked(m, S, g) = h[m]
    BY PickedByRecursion
  <1>2. PICK k : Picks(k, n, S, g) /\ Picked(n, S, g) = k[n]
    BY PickedByRecursion
  <1>3. h[n] = k[n]
    <2>1. n <= m
      BY <1>0
    <2>2. k[n] = h[n]
      BY <2>1, <1>1, <1>2, PicksAgree
    <2> QED BY <2>2
  <1>4. h[m] = IF m \in S THEN Append(h[m - 1], g[m]) ELSE h[m - 1]
    BY <1>0, <1>1, PicksUnfold
  <1>5. m - 1 = n
    BY <1>0
  <1> QED BY <1>0, <1>1, <1>2, <1>3, <1>4, <1>5
=============================================================================
