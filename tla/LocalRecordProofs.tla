-------------------------- MODULE LocalRecordProofs -------------------------
(***************************************************************************)
(* Proofs about load_local_record, for files of any length: the pass that  *)
(* stores fits into what the pass that counted made room for, and what it  *)
(* stores is what the file says.                                           *)
(***************************************************************************)
EXTENDS LocalRecord, SequenceFacts, FiniteSetTheorems, TLAPS

V4Kinds == {"v4"}
ZeroKinds == {"v4zero", "v6zero"}

\* How many of the first p pairs of file f have an address of these kinds.
Of(f, kinds, p) == {i \in 1..p : WordsOf(f)[2 * i - 1].kind \in kinds}
Amount(f, kinds, p) == Cardinality(Of(f, kinds, p))

-----------------------------------------------------------------------------
(***************************************************************************)
(* Counting pairs.                                                         *)
(***************************************************************************)
\* What a pass counts is a number.
LEMMA AmountType ==
    ASSUME NEW f, NEW kinds, NEW p \in Nat
    PROVE  IsFiniteSet(Of(f, kinds, p)) /\ Amount(f, kinds, p) \in Nat
  <1>1. IsFiniteSet(1..p)
    BY FS_Interval
  <1>2. Of(f, kinds, p) \in SUBSET (1..p)
    BY DEF Of
  <1>3. IsFiniteSet(Of(f, kinds, p))
    BY <1>1, <1>2, FS_Subset
  <1> QED BY <1>3, FS_CardinalityType DEF Amount

\* A pass begins with nothing counted.
LEMMA AmountZero ==
    ASSUME NEW f, NEW kinds
    PROVE  Amount(f, kinds, 0) = 0
  <1>1. Of(f, kinds, 0) = {}
    BY DEF Of
  <1> QED BY <1>1, FS_EmptySet DEF Amount

\* One more pair counts if it is of the kinds.
LEMMA AmountStep ==
    ASSUME NEW f, NEW kinds, NEW p \in Nat
    PROVE  Amount(f, kinds, p + 1) =
             IF WordsOf(f)[2 * (p + 1) - 1].kind \in kinds THEN Amount(f, kinds, p) + 1
             ELSE Amount(f, kinds, p)
  <1>1. CASE WordsOf(f)[2 * (p + 1) - 1].kind \in kinds
    <2>1. Of(f, kinds, p + 1) = Of(f, kinds, p) \cup {p + 1}
      BY <1>1 DEF Of
    <2>2. p + 1 \notin Of(f, kinds, p)
      BY DEF Of
    <2> QED BY <1>1, <2>1, <2>2, AmountType, FS_AddElement DEF Amount
  <1>2. CASE WordsOf(f)[2 * (p + 1) - 1].kind \notin kinds
    <2>1. Of(f, kinds, p + 1) = Of(f, kinds, p)
      BY <1>2 DEF Of
    <2> QED BY <1>2, <2>1 DEF Amount
  <1> QED BY <1>1, <1>2

\* A longer part of the file has at least as many.
LEMMA AmountGrows ==
    ASSUME NEW f, NEW kinds, NEW p \in Nat, NEW q \in Nat, p <= q
    PROVE  Amount(f, kinds, p) <= Amount(f, kinds, q)
  <1>1. Of(f, kinds, p) \in SUBSET Of(f, kinds, q)
    BY DEF Of
  <1> QED BY <1>1, AmountType, FS_Subset DEF Amount

-----------------------------------------------------------------------------
(***************************************************************************)
(* The static caches.                                                      *)
(***************************************************************************)
Entry == [label : STRING, ips : Seq(STRING)]

\* An initialised cache has room for size names and a chain for each.
CacheOK(c) ==
    /\ c \in [is_init : BOOLEAN, size : Nat, data : Seq(Entry), table : Nat]
    /\ \A i \in DOMAIN c.data : c.data[i].ips # <<>>
    /\ c.is_init => c.table > 0 /\ c.size <= c.table
    /\ Len(c.data) <= c.size

\* The caches before init_staticCache.
LEMMA NotInitOK == CacheOK(NotInit)
  BY DEF CacheOK, NotInit, Entry

\* find_smallest_prime returns a number that is not smaller than its argument.
LEMMA TableSize ==
    ASSUME NEW n \in Nat, n > 0
    PROVE  find_smallest_prime(n) \in Nat /\ find_smallest_prime(n) >= n
  <1> DEFINE taken(k) == k # 1 /\ (k = 0 \/ k % 2 # 0)
             first(k) == taken(k) /\ \A j \in n..(k - 1) : ~taken(j)
  <1>1. \E k \in n..(n + 2) : first(k)
    <2>1. CASE n # 1 /\ n % 2 # 0
      <3>1. first(n) /\ n \in n..(n + 2)
        BY <2>1
      <3> QED BY <3>1
    <2>2. CASE n = 1
      <3>1. first(3) /\ 3 \in n..(n + 2)
        BY <2>2
      <3> QED BY <3>1
    <2>3. CASE n # 1 /\ n % 2 = 0
      <3>1. first(n + 1) /\ n + 1 \in n..(n + 2)
        BY <2>3
      <3> QED BY <3>1
    <2> QED BY <2>1, <2>2, <2>3
  <1>2. find_smallest_prime(n) = CHOOSE k \in n..(n + 2) : first(k)
    BY DEF find_smallest_prime
  <1> HIDE DEF first
  <1>3. find_smallest_prime(n) \in n..(n + 2)
    BY <1>1, <1>2
  <1> QED BY <1>3

\* init_staticCache makes room for size names in as many chains or more.
LEMMA InitStaticCache ==
    ASSUME NEW c, CacheOK(c), NEW n \in Nat, n > 0
    PROVE  LET d == init_staticCache(c, n)
           IN  /\ CacheOK(d) /\ d.is_init
               /\ ~c.is_init => d.size = n /\ d.data = <<>>
               /\ c.is_init => d = c
  <1>1. CASE c.is_init
    BY <1>1 DEF init_staticCache
  <1>2. CASE ~c.is_init
    <2> DEFINE d == init_staticCache(c, n)
               m == (4 * n) \div 3
    <2>1. m \in Nat /\ m >= n
      OBVIOUS
    <2>2. d = [is_init |-> TRUE, size |-> n, data |-> <<>>, table |-> find_smallest_prime(m)]
      BY <1>2 DEF init_staticCache, init_hashtable
    <2> HIDE DEF m
    <2>3. find_smallest_prime(m) \in Nat /\ find_smallest_prime(m) >= n
      BY <2>1, TableSize
    <2>4. <<>> \in Seq(Entry) /\ Len(<<>>) = 0 /\ DOMAIN <<>> = {}
      OBVIOUS
    <2> HIDE DEF d
    <2>5. CacheOK(d)
      BY <2>2, <2>3, <2>4 DEF CacheOK
    <2> QED BY <1>2, <2>2, <2>5 DEF d
  <1> QED BY <1>1, <1>2

\* set_static_cache keeps a cache in order and adds at most one name.
LEMMA SetStaticCache ==
    ASSUME NEW c, CacheOK(c), NEW n \in STRING, NEW ip \in STRING
    PROVE  LET d == set_static_cache(c, n, ip)
           IN  /\ CacheOK(d)
               /\ d.is_init = c.is_init /\ d.size = c.size
               /\ Len(d.data) <= Len(c.data) + 1
  <1> DEFINE d == set_static_cache(c, n, ip)
             i == Find(c, n)
  <1>0. /\ c \in [is_init : BOOLEAN, size : Nat, data : Seq(Entry), table : Nat]
        /\ Len(c.data) \in Nat
    BY DEF CacheOK
  <1>1. CASE ~CanSet(c, n)
    <2>1. d = c
      BY <1>1 DEF set_static_cache
    <2> QED BY <1>0, <2>1
  <1>2. CASE CanSet(c, n) /\ i # 0
    <2>1. d = [c EXCEPT !.data = [c.data EXCEPT ![i] = [c.data[i] EXCEPT !.ips = Append(@, ip)]]]
      BY <1>2 DEF set_static_cache, AddressAdded
    <2> HIDE DEF i
    <2> DEFINE e == [c.data EXCEPT ![i] = [c.data[i] EXCEPT !.ips = Append(@, ip)]]
    <2>a. c.data \in [1..Len(c.data) -> Entry]
      BY <1>0
    <2>2. ASSUME NEW j \in 1..Len(c.data) PROVE e[j] \in Entry /\ e[j].ips # <<>>
      <3>1. c.data[j] \in Entry /\ c.data[j].ips # <<>> /\ c.data[j].ips \in Seq(STRING)
        BY <2>a DEF CacheOK, Entry
      <3>2. CASE j # i
        BY <2>a, <3>1, <3>2
      <3>3. CASE j = i
        <4> DEFINE y == Append(c.data[j].ips, ip)
        <4>1. y \in Seq(STRING) /\ y # <<>>
          BY <3>1
        <4>2. e[j] = [c.data[j] EXCEPT !.ips = y]
          BY <2>a, <3>3
        <4> HIDE DEF y, e
        <4> QED BY <3>1, <4>1, <4>2 DEF Entry
      <3> QED BY <3>2, <3>3
    <2>3. e \in [1..Len(c.data) -> Entry]
      <3>1. e = [j \in 1..Len(c.data) |-> e[j]]
        BY <2>a
      <3> HIDE DEF e
      <3> QED BY <2>2, <3>1
    <2>4. e \in Seq(Entry) /\ Len(e) = Len(c.data)
      BY <1>0, <2>3
    <2>5. d = [c EXCEPT !.data = e]
      BY <2>1
    <2> HIDE DEF e, d
    <2>6. d.data = e /\ d.is_init = c.is_init /\ d.size = c.size /\ d.table = c.table
      BY <1>0, <2>5
    <2>7. d \in [is_init : BOOLEAN, size : Nat, data : Seq(Entry), table : Nat]
      BY <1>0, <2>4, <2>5
    <2>8. CacheOK(d)
      BY <1>0, <2>2, <2>4, <2>6, <2>7 DEF CacheOK
    <2> QED BY <1>0, <2>4, <2>6, <2>8 DEF d
  <1>3. CASE CanSet(c, n) /\ i = 0
    <2> DEFINE x == [label |-> n, ips |-> <<ip>>]
               e == Append(c.data, x)
    <2>1. d = [c EXCEPT !.data = e]
      BY <1>3 DEF set_static_cache
    <2>2. c.is_init /\ Len(c.data) # c.size
      BY <1>3 DEF CanSet
    <2>3. x \in Entry /\ x.ips # <<>>
      BY DEF Entry
    <2> HIDE DEF x
    <2>4. e \in Seq(Entry) /\ Len(e) = Len(c.data) + 1 /\ DOMAIN e = 1..(Len(c.data) + 1)
      BY <1>0, <2>3
    <2>5. \A j \in DOMAIN e : e[j].ips # <<>>
      BY <1>0, <2>3, <2>4 DEF CacheOK
    <2> HIDE DEF e, d
    <2>6. d.data = e /\ d.is_init = c.is_init /\ d.size = c.size /\ d.table = c.table
      BY <1>0, <2>1
    <2>7. d \in [is_init : BOOLEAN, size : Nat, data : Seq(Entry), table : Nat]
      BY <1>0, <2>1, <2>4
    <2>8. CacheOK(d)
      BY <1>0, <2>2, <2>4, <2>5, <2>6, <2>7 DEF CacheOK
    <2> QED BY <1>0, <2>4, <2>6, <2>8 DEF d
  <1> QED BY <1>1, <1>2, <1>3

-----------------------------------------------------------------------------
(***************************************************************************)
(* The inductive invariant.                                                *)
(***************************************************************************)
Loaded == pc \in {"store", "done"}

\* Where both passes stop.
End == IF line <= NPairs THEN line ELSE NPairs

Types ==
    /\ pc \in {"open", "failed", "count", "store", "done"}
    /\ file \in Files \cup {NoFile}
    /\ pc \in {"count", "store", "done"} => file \in Files
    /\ line \in Nat /\ tries \in Nat /\ left \in Nat /\ pos \in Nat
    /\ v4 \in Nat /\ v6 \in Nat /\ black \in Nat
    /\ refused \subseteq Nat

\* As long as there are pairs each turn reads one, so `_' does not run out.
Progress ==
    pc \in {"count", "store", "done"} =>
        /\ left = line - pos /\ pos <= NPairs
        /\ pos < NPairs => tries = 2 * line - pos

Counted ==
    /\ pc = "open" => v4 = 0 /\ black = 0
    /\ pc = "count" => /\ v4 = Amount(file, V4Kinds, pos)
                       /\ black = Amount(file, ZeroKinds, pos)
    /\ Loaded => /\ v4 = Amount(file, V4Kinds, End)
                 /\ black = Amount(file, ZeroKinds, End)

\* A cache of the names of these kinds was given room for count of them.
Filled(c, count, kinds) ==
    /\ CacheOK(c)
    /\ ~Loaded => c = NotInit
    /\ Loaded => /\ count > 0 => c.is_init /\ c.size = count
                 /\ Len(c.data) <= Amount(file, kinds, pos)

IInv ==
    /\ Types /\ Progress /\ Counted
    /\ Filled(A, v4, V4Kinds) /\ Filled(blacklist, black, ZeroKinds)
    /\ AAAA = NotInit
    /\ NoOverflow

\* A file has a number of pairs, each an address and a name.
LEMMA Pairs ==
    ASSUME NEW f \in Files
    PROVE  /\ Len(WordsOf(f)) \div 2 \in Nat
           /\ \A i \in 1..(Len(WordsOf(f)) \div 2) :
                 WordsOf(f)[2 * i - 1] \in Word /\ WordsOf(f)[2 * i] \in Word
  <1>1. WordsOf(f) \in Seq(Word)
    <2> DEFINE ws == [i \in DOMAIN f |-> f[i].words]
               Line == [words : Seq(Word), bare : BOOLEAN]
    <2>1. f \in Seq(Line)
      BY FileAssumption
    <2> HIDE DEF Line
    <2>2. ws \in Seq(Seq(Word))
      <3>1. ASSUME NEW i \in 1..Len(f) PROVE f[i].words \in Seq(Word)
        <4>1. f[i] \in Line
          BY <2>1
        <4> QED BY <4>1 DEF Line
      <3>2. Len(f) \in Nat /\ ws = [i \in 1..Len(f) |-> f[i].words]
        BY <2>1
      <3> QED BY <3>1, <3>2
    <2> HIDE DEF ws
    <2>3. FlattenSeq(ws) \in Seq(Word)
      BY <2>2, FlattenTyped
    <2> QED BY <2>3 DEF WordsOf, ws
  <1>2. Len(WordsOf(f)) \in Nat /\ \A j \in 1..Len(WordsOf(f)) : WordsOf(f)[j] \in Word
    BY <1>1
  <1> DEFINE n == Len(WordsOf(f))
  <1>3. n \in Nat /\ \A i \in 1..(n \div 2) : 2 * i - 1 \in 1..n /\ 2 * i \in 1..n
    <2> HIDE DEF n
    <2>1. n \in Nat
      BY <1>2 DEF n
    <2> QED BY <2>1
  <1> QED BY <1>2, <1>3

\* Initially nothing is read.
LEMMA InitIInv == Init => IInv
  BY NotInitOK DEF Init, IInv, Types, Progress, Counted, Filled, Loaded, NoOverflow

\* What a turn of `while(_--)' that finds a pair does.
LEMMA NextPairKeeps ==
    ASSUME IInv, NextPair, pc \in {"count", "store"},
           UNCHANGED <<file, pc, line>>
    PROVE  /\ Progress'
           /\ tries' \in Nat /\ left' \in Nat /\ pos' \in Nat
           /\ pos' = pos + 1 /\ pos' <= End /\ End \in Nat
           /\ pos' \in 1..NPairs
  <1>1. NPairs \in Nat /\ NPairs' = NPairs
    BY Pairs DEF IInv, Types, NPairs, Words
  <1> QED BY <1>1 DEF IInv, Types, Progress, NextPair, More, End

\* Where a pass stops, every pair was read or as many as there are lines.
LEMMA StopsAtEnd ==
    ASSUME IInv, pc \in {"count", "store"}, ~More
    PROVE  pos = End /\ (pos = NPairs \/ pos = line)
  <1>1. NPairs \in Nat
    BY Pairs DEF IInv, Types, NPairs, Words
  <1> QED BY <1>1 DEF IInv, Types, Progress, More, End

-----------------------------------------------------------------------------
(***************************************************************************)
(* Each step keeps the invariant.                                          *)
(***************************************************************************)
\* The file cannot be opened.
LEMMA OpenFailsKeeps == IInv /\ OpenFails => IInv'
  BY DEF IInv, OpenFails, Types, Progress, Counted, Filled, Loaded, NoOverflow, counts, caches,
         CacheOK, Ip, Words

\* The lines are counted and the first pass begins.
LEMMA CountLinesKeeps == IInv /\ CountLines => IInv'
  <1> SUFFICES ASSUME IInv, CountLines PROVE IInv'
    OBVIOUS
  <1>1. file \in Files /\ file' = file /\ pc = "open" /\ pc' = "count"
    BY DEF CountLines, IInv, Types
  <1>2. NPairs' \in Nat
    BY <1>1, Pairs DEF NPairs, Words
  <1>3. line' \in Nat
    <2> DEFINE S == {i \in DOMAIN file : ~file[i].bare}
    <2>1. IsFiniteSet(DOMAIN file)
      <3>1. DOMAIN file = 1..Len(file) /\ Len(file) \in Nat
        BY <1>1, FileAssumption DEF FileAssumption
      <3> QED BY <3>1, FS_Interval
    <2>2. IsFiniteSet(S)
      BY <2>1, FS_Subset
    <2> QED BY <2>2, FS_CardinalityType DEF CountLines
  <1>4. Types'
    BY <1>1, <1>3 DEF IInv, Types, CountLines, Rewind, counts
  <1>5. Progress'
    BY <1>2, <1>3 DEF CountLines, Rewind, Progress
  <1>6. Counted'
    <2>1. pos' = 0 /\ v4' = 0 /\ black' = 0
      BY <1>1 DEF CountLines, Rewind, IInv, Counted, counts
    <2> QED BY <1>1, <2>1, AmountZero DEF Counted, Loaded
  <1>7. Filled(A, v4, V4Kinds)' /\ Filled(blacklist, black, ZeroKinds)' /\ AAAA' = NotInit
    BY <1>1 DEF IInv, Filled, Loaded, CountLines, caches, CacheOK
  <1>8. NoOverflow'
    BY DEF IInv, NoOverflow, CountLines, Ip, Words
  <1> QED BY <1>4, <1>5, <1>6, <1>7, <1>8 DEF IInv

\* The first pass finds a pair.
LEMMA CountPairKeeps == IInv /\ CountPair => IInv'
  <1> SUFFICES ASSUME IInv, CountPair PROVE IInv'
    OBVIOUS
  <1>1. pc = "count" /\ pc' = "count" /\ file' = file /\ line' = line /\ NextPair
    BY DEF CountPair
  <1>2. /\ Progress' /\ tries' \in Nat /\ left' \in Nat /\ pos' \in Nat
        /\ pos' = pos + 1
    BY <1>1, NextPairKeeps
  <1>3. Types'
    BY <1>1, <1>2 DEF IInv, Types, CountPair, counts
  <1>4. Counted'
    <2> DEFINE kind == Ip(pos').kind
    <2>0. pos \in Nat /\ kind = WordsOf(file)[2 * (pos + 1) - 1].kind
      BY <1>2 DEF IInv, Types, Ip, Words
    <2>1. v4' = (IF kind \in V4Kinds THEN v4 + 1 ELSE v4)
      BY DEF CountPair, V4Kinds
    <2>2. black' = (IF kind \in ZeroKinds THEN black + 1 ELSE black)
      BY DEF CountPair, ZeroKinds, IsBlack
    <2>3. v4 = Amount(file, V4Kinds, pos) /\ black = Amount(file, ZeroKinds, pos)
      BY <1>1 DEF IInv, Counted
    <2> HIDE DEF kind
    <2>4. v4' = Amount(file, V4Kinds, pos + 1)
      BY <2>0, <2>1, <2>3, AmountStep
    <2>5. black' = Amount(file, ZeroKinds, pos + 1)
      BY <2>0, <2>2, <2>3, AmountStep
    <2> QED BY <1>1, <1>2, <2>4, <2>5 DEF Counted, Loaded
  <1>5. Filled(A, v4, V4Kinds)' /\ Filled(blacklist, black, ZeroKinds)' /\ AAAA' = NotInit
    BY <1>1 DEF IInv, Filled, Loaded, CountPair, caches, CacheOK
  <1>6. NoOverflow'
    BY DEF IInv, NoOverflow, CountPair, Ip, Words
  <1> QED BY <1>2, <1>3, <1>4, <1>5, <1>6 DEF IInv

\* fscanf returns without a pair.
LEMMA ReadNothingKeeps == IInv /\ ReadNothing => IInv'
  <1> SUFFICES ASSUME IInv, ReadNothing PROVE IInv'
    OBVIOUS
  <1>1. /\ pc \in {"count", "store"} /\ pc' = pc /\ file' = file /\ line' = line /\ pos' = pos
        /\ left' = left /\ UNCHANGED <<v4, v6, black, A, AAAA, blacklist, refused>> /\ NoPair
    BY DEF ReadNothing, NoPair, counts, caches
  <1>2. NPairs \in Nat /\ NPairs' = NPairs /\ End' = End
    BY <1>1, Pairs DEF IInv, Types, NPairs, Words, End
  <1>3. tries' \in Nat
    BY <1>1 DEF IInv, Types, NoPair, More
  <1>4. Types'
    BY <1>1, <1>3 DEF IInv, Types
  <1>5. Progress'
    BY <1>1, <1>2 DEF IInv, Types, Progress, NoPair
  <1>6. Counted'
    BY <1>1, <1>2 DEF IInv, Counted, Loaded
  <1>7. Filled(A, v4, V4Kinds)' /\ Filled(blacklist, black, ZeroKinds)' /\ AAAA' = NotInit
    BY <1>1 DEF IInv, Filled, Loaded, CacheOK
  <1>8. NoOverflow'
    BY <1>1 DEF IInv, NoOverflow, Ip, Words
  <1> QED BY <1>4, <1>5, <1>6, <1>7, <1>8 DEF IInv

\* The caches get the room that was counted and the second pass begins.
LEMMA InitCachesKeeps == IInv /\ InitCaches => IInv'
  <1> SUFFICES ASSUME IInv, InitCaches PROVE IInv'
    OBVIOUS
  <1>1. /\ pc = "count" /\ pc' = "store" /\ file' = file /\ line' = line /\ pos' = 0 /\ ~More
        /\ tries' = 2 * line /\ left' = line
        /\ UNCHANGED <<v4, v6, black, AAAA, refused>>
    BY DEF InitCaches, Rewind, counts
  <1>2. NPairs \in Nat /\ NPairs' = NPairs /\ End' = End
    BY <1>1, Pairs DEF IInv, Types, NPairs, Words, End
  <1>3. pos = End
    BY <1>1, StopsAtEnd
  <1>4. Types'
    BY <1>1 DEF IInv, Types
  <1>5. Progress'
    BY <1>1, <1>2 DEF IInv, Types, Progress
  <1>6. Counted'
    BY <1>1, <1>2, <1>3 DEF IInv, Counted, Loaded
  <1>7. Amount(file, V4Kinds, 0) = 0 /\ Amount(file, ZeroKinds, 0) = 0
    BY AmountZero
  <1>8. A = NotInit /\ blacklist = NotInit /\ ~NotInit.is_init /\ NotInit.data = <<>>
        /\ v4 \in Nat /\ v6 \in Nat /\ black \in Nat
    BY <1>1 DEF IInv, Filled, Loaded, NotInit, Types
  <1>9. Filled(A, v4, V4Kinds)'
    <2> DEFINE A4 == IF v4 > 0 THEN init_staticCache(A, v4) ELSE A
    <2>1. /\ CacheOK(A4) /\ A4.data = <<>>
          /\ v4 > 0 => A4.is_init /\ A4.size = v4
          /\ v4 = 0 => A4 = NotInit
      BY <1>8, NotInitOK, InitStaticCache
    <2>2. A' = IF v6 > 0 THEN init_staticCache(A4, v6) ELSE A4
      BY DEF InitCaches
    <2> HIDE DEF A4
    <2>3. /\ CacheOK(A') /\ A'.data = <<>>
          /\ v4 > 0 => A'.is_init /\ A'.size = v4
      <3>1. CASE v6 > 0 /\ v4 > 0
        BY <1>8, <2>1, <2>2, <3>1, InitStaticCache
      <3>2. CASE v6 > 0 /\ v4 = 0
        BY <1>8, <2>1, <2>2, <3>2, InitStaticCache
      <3>3. CASE v6 = 0
        BY <1>8, <2>1, <2>2, <3>3
      <3> QED BY <1>8, <3>1, <3>2, <3>3
    <2>4. CacheOK(A)'
      BY <2>3 DEF CacheOK
    <2> QED BY <1>1, <1>7, <2>3, <2>4 DEF Filled, Loaded
  <1>10. Filled(blacklist, black, ZeroKinds)'
    <2>1. blacklist' = IF black > 0 THEN init_staticCache(blacklist, black) ELSE blacklist
      BY DEF InitCaches
    <2>2. /\ CacheOK(blacklist') /\ blacklist'.data = <<>>
          /\ black > 0 => blacklist'.is_init /\ blacklist'.size = black
      BY <1>8, <2>1, NotInitOK, InitStaticCache
    <2>3. CacheOK(blacklist)'
      BY <2>2 DEF CacheOK
    <2> QED BY <1>1, <1>7, <2>2, <2>3 DEF Filled, Loaded
  <1>11. AAAA' = NotInit /\ NoOverflow'
    BY <1>1 DEF IInv, NoOverflow, Ip, Words
  <1> QED BY <1>4, <1>5, <1>6, <1>9, <1>10, <1>11 DEF IInv

\* A cache that is not full for the pairs stored so far takes the next one.
LEMMA RoomForPair ==
    ASSUME NEW c, NEW count, NEW kinds, Filled(c, count, kinds), Loaded,
           NEW p \in Nat, NEW e \in Nat, pos = p, p + 1 <= e,
           count = Amount(file, kinds, e),
           WordsOf(file)[2 * (p + 1) - 1].kind \in kinds,
           NEW n
    PROVE  CanSet(c, n)
  <1>1. Amount(file, kinds, p + 1) = Amount(file, kinds, p) + 1
    BY AmountStep
  <1>2. Amount(file, kinds, p + 1) <= count
    BY AmountGrows
  <1>3. Amount(file, kinds, p) \in Nat /\ Amount(file, kinds, e) \in Nat
    BY AmountType
  <1>4. count > 0 /\ Amount(file, kinds, p) < count
    BY <1>1, <1>2, <1>3
  <1>5. c.is_init /\ c.size = count /\ Len(c.data) <= Amount(file, kinds, p)
    BY <1>4 DEF Filled
  <1>6. Len(c.data) \in Nat
    BY DEF Filled, CacheOK
  <1> QED BY <1>3, <1>4, <1>5, <1>6 DEF CanSet

\* The second pass finds a pair.
LEMMA StorePairKeeps == IInv /\ StorePair => IInv'
  <1> SUFFICES ASSUME IInv, StorePair PROVE IInv'
    OBVIOUS
  <1> DEFINE kind == Ip(pos').kind
             ip == Ip(pos').val
             n == Name(pos').val
  <1>1. /\ pc = "store" /\ pc' = "store" /\ file' = file /\ line' = line /\ NextPair
        /\ UNCHANGED <<v4, v6, black>>
    BY DEF StorePair, counts
  <1>2. /\ Progress' /\ tries' \in Nat /\ left' \in Nat /\ pos' \in Nat
        /\ pos' = pos + 1 /\ pos' <= End /\ End \in Nat /\ pos' \in 1..NPairs /\ pos \in Nat
    BY <1>1, NextPairKeeps DEF IInv, Types
  <1>3. NPairs' = NPairs /\ End' = End
    BY <1>1 DEF NPairs, Words, End
  <1>4. /\ kind = WordsOf(file)[2 * (pos + 1) - 1].kind
        /\ kind \in Kinds /\ ip \in STRING /\ n \in STRING
    <2>1. Ip(pos') \in Word /\ Name(pos') \in Word
      BY <1>1, <1>2, Pairs DEF IInv, Types, Ip, Name, NPairs, Words
    <2> QED BY <1>2, <2>1 DEF Word, Ip, Words
  <1>5. /\ A' = (IF kind = "v4" THEN set_static_cache(A, n, ip) ELSE A)
        /\ AAAA' = (IF kind = "v6" THEN set_static_cache(AAAA, n, ip) ELSE AAAA)
        /\ blacklist' = (IF kind \in {"v4zero", "v6zero"}
                         THEN set_static_cache(blacklist, n, ip) ELSE blacklist)
        /\ refused' = IF kind # "word" /\ ~CanSet(CASE kind = "v4" -> A [] kind = "v6" -> AAAA
                                                    [] OTHER -> blacklist, n)
                      THEN refused \cup {pos'} ELSE refused
    BY DEF StorePair
  <1> HIDE DEF kind, ip, n
  <1>6. v4 = Amount(file, V4Kinds, End) /\ black = Amount(file, ZeroKinds, End) /\ Loaded
    BY <1>1 DEF IInv, Counted, Loaded
  <1>7. ASSUME NEW c, NEW d, NEW count, NEW kinds, Filled(c, count, kinds),
               d = IF kind \in kinds THEN set_static_cache(c, n, ip) ELSE c
        PROVE  /\ CacheOK(d)
               /\ count > 0 => d.is_init /\ d.size = count
               /\ Len(d.data) <= Amount(file, kinds, pos + 1)
    <2>1. Amount(file, kinds, pos + 1) =
            IF kind \in kinds THEN Amount(file, kinds, pos) + 1 ELSE Amount(file, kinds, pos)
      BY <1>2, <1>4, AmountStep
    <2>2. Amount(file, kinds, pos) \in Nat
      BY <1>2, AmountType
    <2>3. /\ CacheOK(c)
          /\ count > 0 => c.is_init /\ c.size = count
          /\ Len(c.data) <= Amount(file, kinds, pos)
      BY <1>6, <1>7 DEF Filled
    <2>4. CASE kind \in kinds
      <3>1. /\ CacheOK(d) /\ d.is_init = c.is_init /\ d.size = c.size
            /\ Len(d.data) <= Len(c.data) + 1
        BY <1>4, <1>7, <2>3, <2>4, SetStaticCache
      <3>2. Len(c.data) \in Nat /\ Len(d.data) \in Nat
        BY <2>3, <3>1 DEF CacheOK
      <3> QED BY <2>1, <2>2, <2>3, <2>4, <3>1, <3>2
    <2>5. CASE kind \notin kinds
      BY <1>7, <2>1, <2>3, <2>5
    <2> QED BY <2>4, <2>5
  <1>8. Filled(A, v4, V4Kinds)'
    <2>1. A' = IF kind \in V4Kinds THEN set_static_cache(A, n, ip) ELSE A
      BY <1>5 DEF V4Kinds
    <2>2. /\ CacheOK(A')
          /\ v4 > 0 => A'.is_init /\ A'.size = v4
          /\ Len(A'.data) <= Amount(file, V4Kinds, pos + 1)
      BY <1>7, <2>1 DEF IInv
    <2>3. CacheOK(A)'
      BY <2>2 DEF CacheOK
    <2> QED BY <1>1, <1>2, <2>2, <2>3 DEF Filled, Loaded
  <1>9. Filled(blacklist, black, ZeroKinds)'
    <2>1. blacklist' = IF kind \in ZeroKinds THEN set_static_cache(blacklist, n, ip) ELSE blacklist
      BY <1>5 DEF ZeroKinds
    <2>2. /\ CacheOK(blacklist')
          /\ black > 0 => blacklist'.is_init /\ blacklist'.size = black
          /\ Len(blacklist'.data) <= Amount(file, ZeroKinds, pos + 1)
      BY <1>7, <2>1 DEF IInv
    <2>3. CacheOK(blacklist)'
      BY <2>2 DEF CacheOK
    <2> QED BY <1>1, <1>2, <2>2, <2>3 DEF Filled, Loaded
  <1>10. AAAA' = NotInit
    BY <1>5 DEF IInv, set_static_cache, CanSet, NotInit
  <1>11. NoOverflow'
    <2>1. kind \in V4Kinds => CanSet(A, n)
      BY <1>2, <1>4, <1>6, RoomForPair DEF IInv
    <2>2. kind \in ZeroKinds => CanSet(blacklist, n)
      BY <1>2, <1>4, <1>6, RoomForPair DEF IInv
    <2>3. refused' \subseteq refused \/ (refused' = refused \cup {pos'} /\ kind = "v6")
      BY <1>4, <1>5, <2>1, <2>2 DEF V4Kinds, ZeroKinds, Kinds
    <2>4. \A i : Ip(i)' = Ip(i)
      BY <1>1 DEF Ip, Words
    <2> QED BY <2>3, <2>4 DEF IInv, NoOverflow, kind
  <1>12. Types'
    BY <1>1, <1>2, <1>5 DEF IInv, Types
  <1>13. Counted'
    BY <1>1, <1>3 DEF IInv, Counted, Loaded
  <1> QED BY <1>2, <1>8, <1>9, <1>10, <1>11, <1>12, <1>13 DEF IInv

\* Loading is over.
LEMMA FinishKeeps == IInv /\ Finish => IInv'
  <1> SUFFICES ASSUME IInv, Finish PROVE IInv'
    OBVIOUS
  <1>1. /\ pc = "store" /\ pc' = "done"
        /\ UNCHANGED <<file, line, tries, left, pos, v4, v6, black, A, AAAA, blacklist, refused>>
    BY DEF Finish, counts, caches
  <1>2. NPairs' = NPairs /\ End' = End
    BY <1>1 DEF NPairs, Words, End
  <1>3. Types' /\ Progress' /\ Counted'
    BY <1>1, <1>2 DEF IInv, Types, Progress, Counted, Loaded
  <1>4. Filled(A, v4, V4Kinds)' /\ Filled(blacklist, black, ZeroKinds)'
    BY <1>1 DEF IInv, Filled, Loaded, CacheOK
  <1>5. AAAA' = NotInit /\ NoOverflow'
    BY <1>1 DEF IInv, NoOverflow, Ip, Words
  <1> QED BY <1>3, <1>4, <1>5 DEF IInv

\* Every step keeps the invariant.
LEMMA NextIInv == IInv /\ [Next]_vars => IInv'
  <1> SUFFICES ASSUME IInv, [Next]_vars PROVE IInv'
    OBVIOUS
  <1>1. CASE UNCHANGED vars
    <2>1. UNCHANGED <<file, pc, line, tries, left, pos, v4, v6, black, A, AAAA, blacklist, refused>>
      BY <1>1 DEF vars, counts, caches
    <2> QED BY <2>1 DEF IInv, Types, Progress, Counted, Filled, Loaded, NoOverflow, CacheOK,
                        NPairs, Words, End, Ip
  <1> QED BY <1>1, OpenFailsKeeps, CountLinesKeeps, CountPairKeeps, ReadNothingKeeps,
             InitCachesKeeps, StorePairKeeps, FinishKeeps DEF Next

\* IInv is an invariant of the loader.
LEMMA Invariance == Spec => []IInv
  BY InitIInv, NextIInv, PTL DEF Spec

-----------------------------------------------------------------------------
(***************************************************************************)
(* What follows, for every set of files.                                   *)
(***************************************************************************)

\* The counters stay numbers, and no name is kept without an address.
THEOREM TypesHold == Spec => []TypeOK
  <1>1. IInv => TypeOK
    BY NotInitOK DEF IInv, Types, Filled, CacheOK, TypeOK
  <1> QED BY Invariance, <1>1, PTL

\* set_static_cache never reports "static cache overflow" for what the first pass
\* of load_local_record counted: whatever the file looks like, only IPv6
\* records are dropped.
THEOREM StoreFits == Spec => []NoOverflow
  <1>1. IInv => NoOverflow
    BY DEF IInv
  <1> QED BY Invariance, <1>1, PTL

\* `int _ = _line*2', meant to prevent an endless loop, never cuts a pass short.
THEOREM PassesComplete == Spec => []ReadsToTheEnd
  <1>1. IInv => ReadsToTheEnd
    BY StopsAtEnd DEF ReadsToTheEnd
  <1> QED BY Invariance, <1>1, PTL

\* The table init_hashtable allocates is not empty and has a chain for every
\* name, although find_smallest_prime tries one divisor only.
THEOREM TablesSuffice == Spec => []ChainsSuffice
  <1>1. IInv => ChainsSuffice
    BY DEF IInv, Filled, CacheOK, ChainsSuffice
  <1> QED BY Invariance, <1>1, PTL

-----------------------------------------------------------------------------
(***************************************************************************)
(* What a lookup finds.                                                    *)
(***************************************************************************)
\* i is the first position of label n in data, or 0.
FirstAt(data, n, i) ==
    /\ i \in 0..Len(data)
    /\ i = 0 => \A j \in 1..Len(data) : data[j].label # n
    /\ i # 0 => data[i].label = n /\ \A j \in 1..Len(data) : j < i => data[j].label # n

LEMMA FindFirst ==
    ASSUME NEW c, c.data \in Seq(Entry), NEW n
    PROVE  FirstAt(c.data, n, Find(c, n))
  <1> DEFINE I == {i \in 1..Len(c.data) : c.data[i].label = n}
  <1>1. Find(c, n) = IF I # {} THEN Min(I) ELSE 0
    BY DEF Find, SelectInSeq
  <1>2. Len(c.data) \in Nat
    OBVIOUS
  <1>3. CASE I = {}
    BY <1>1, <1>2, <1>3 DEF FirstAt
  <1>4. CASE I # {}
    <2>1. I \in SUBSET Nat
      BY <1>2
    <2>2. Min(I) \in I /\ \A i \in I : Min(I) <= i
      <3>1. \E x \in I : \A y \in I : x <= y
        BY <2>1, <1>4, LeastNatural
      <3> HIDE DEF I
      <3> QED BY <3>1 DEF Min
    <2>3. PICK x \in 1..Len(c.data) : x = Min(I) /\ c.data[x].label = n
      BY <2>2
    <2>4. \A j \in 1..Len(c.data) : c.data[j].label = n => x <= j
      BY <2>2, <2>3
    <2>5. Find(c, n) = x
      BY <1>1, <1>4, <2>3
    <2> HIDE DEF I
    <2>6. x \in 0..Len(c.data) /\ x # 0
      BY <1>2
    <2>7. ASSUME NEW j \in 1..Len(c.data), j < x PROVE c.data[j].label # n
      BY <2>4, <2>7, <1>2
    <2> QED BY <2>3, <2>5, <2>6, <2>7 DEF FirstAt
  <1> QED BY <1>3, <1>4

LEMMA FirstIsOne ==
    ASSUME NEW data, Len(data) \in Nat, NEW n, NEW i, NEW j, FirstAt(data, n, i), FirstAt(data, n, j)
    PROVE  i = j
  <1>1. CASE i = 0
    BY <1>1 DEF FirstAt
  <1>2. CASE j = 0
    BY <1>2 DEF FirstAt
  <1>3. CASE i # 0 /\ j # 0
    <2>1. i \in 1..Len(data) /\ j \in 1..Len(data)
      BY <1>3 DEF FirstAt
    <2>2. ~(i < j) /\ ~(j < i)
      BY <2>1, <1>3 DEF FirstAt
    <2> QED BY <2>1, <2>2
  <1> QED BY <1>1, <1>2, <1>3

\* A name's list grows by what is stored under it, and no other list changes.
LEMMA SetThenGet ==
    ASSUME NEW c, CacheOK(c), NEW n \in STRING, NEW ip \in STRING, CanSet(c, n), NEW m
    PROVE  get_static_cache(set_static_cache(c, n, ip), m) =
               IF m = n THEN Append(get_static_cache(c, m), ip) ELSE get_static_cache(c, m)
  <1> DEFINE d == set_static_cache(c, n, ip)
             i == Find(c, n)
             k == Find(c, m)
             s == c.data
  <1>1. s \in Seq(Entry) /\ Len(s) \in Nat /\ s \in [1..Len(s) -> Entry]
        /\ c \in [is_init : BOOLEAN, size : Nat, data : Seq(Entry), table : Nat]
    BY DEF CacheOK
  <1>2. FirstAt(s, n, i) /\ FirstAt(s, m, k)
    BY <1>1, FindFirst
  <1>3. CacheOK(d)
    BY SetStaticCache
  <1>4. d.data \in Seq(Entry) /\ FirstAt(d.data, m, Find(d, m)) /\ Len(d.data) \in Nat
    BY <1>3, FindFirst DEF CacheOK
  <1>5. CASE i # 0
    <2>1. d = [c EXCEPT !.data = [s EXCEPT ![i] = [s[i] EXCEPT !.ips = Append(@, ip)]]]
      BY <1>5 DEF set_static_cache, AddressAdded
    <2>2. i \in 1..Len(s) /\ s[i].label = n /\ s[i] \in Entry
      BY <1>1, <1>2, <1>5 DEF FirstAt
    <2> HIDE DEF i, k, s, d
    <2>3. d.data = [s EXCEPT ![i] = [s[i] EXCEPT !.ips = Append(@, ip)]]
      BY <2>1, <1>1 DEF s
    <2> DEFINE e == [s[i] EXCEPT !.ips = Append(@, ip)]
    <2>4. e.label = n /\ e.ips = Append(s[i].ips, ip)
      BY <2>2 DEF Entry
    <2>5. d.data = [s EXCEPT ![i] = e]
      BY <2>3
    <2> HIDE DEF e
    <2>6. Len(d.data) = Len(s) /\ d.data[i] = e /\ \A j \in 1..Len(s) : j # i => d.data[j] = s[j]
      BY <2>5, <2>2, <1>1, <1>4
    <2>7. \A j \in 1..Len(s) : d.data[j].label = s[j].label
      BY <2>2, <2>4, <2>6
    <2>8. FirstAt(d.data, m, k)
      BY <2>6, <2>7, <1>1, <1>2 DEF FirstAt
    <2>9. Find(d, m) = k
      BY <2>8, <1>4, FirstIsOne
    <2>10. k # 0 => k \in 1..Len(s) /\ s[k].label = m
      BY <1>1, <1>2 DEF FirstAt
    <2>11. m = n => k = i
      BY <1>1, <1>2, FirstIsOne
    <2>12. m # n /\ k # 0 => k # i
      BY <2>2, <2>10
    <2>13. get_static_cache(d, m) = IF k = 0 THEN <<>> ELSE d.data[k].ips
      BY <2>9 DEF get_static_cache
    <2>14. get_static_cache(c, m) = IF k = 0 THEN <<>> ELSE s[k].ips
      BY DEF get_static_cache, k, s
    <2>15. CASE m = n
      BY <2>4, <2>6, <2>11, <2>13, <2>14, <2>15, <1>5 DEF d
    <2>16. CASE m # n
      BY <2>6, <2>10, <2>12, <2>13, <2>14, <2>16 DEF d
    <2> QED BY <2>15, <2>16 DEF d
  <1>6. CASE i = 0
    <2> DEFINE x == [label |-> n, ips |-> <<ip>>]
    <2>1. d = [c EXCEPT !.data = Append(s, x)]
      BY <1>6 DEF set_static_cache
    <2>2. x \in Entry /\ x.label = n /\ x.ips = <<ip>>
      BY DEF Entry
    <2> HIDE DEF i, k, s, d, x
    <2>3. d.data = Append(s, x)
      BY <2>1, <1>1 DEF s
    <2>4. Len(d.data) = Len(s) + 1 /\ d.data[Len(s) + 1] = x /\ \A j \in 1..Len(s) : d.data[j] = s[j]
      BY <2>2, <2>3, <1>1, Appended
    <2>5. get_static_cache(c, m) = IF k = 0 THEN <<>> ELSE s[k].ips
      BY DEF get_static_cache, k, s
    <2>6. get_static_cache(d, m) = IF Find(d, m) = 0 THEN <<>> ELSE d.data[Find(d, m)].ips
      BY DEF get_static_cache
    <2>7. CASE m = n
      <3>1. k = 0
        BY <2>7, <1>1, <1>2, <1>6, FirstIsOne
      <3>2. \A j \in 1..Len(s) : s[j].label # m
        BY <3>1, <1>2 DEF FirstAt
      <3>3. FirstAt(d.data, m, Len(s) + 1)
        BY <3>2, <2>2, <2>4, <2>7, <1>1 DEF FirstAt
      <3>4. Find(d, m) = Len(s) + 1 /\ Len(s) + 1 # 0
        BY <3>3, <1>1, <1>4, FirstIsOne
      <3>5. Append(<<>>, ip) = <<ip>>
        OBVIOUS
      <3> QED BY <3>1, <3>4, <3>5, <2>2, <2>4, <2>5, <2>6, <2>7 DEF d
    <2>8. CASE m # n
      <3>1. FirstAt(d.data, m, k)
        <4>1. k \in 0..Len(d.data) /\ k \in 0..Len(s)
          BY <1>1, <1>2, <2>4 DEF FirstAt
        <4>2. ASSUME NEW j \in 1..Len(d.data)
              PROVE  j = Len(s) + 1 \/ j \in 1..Len(s)
          BY <2>4, <1>1
        <4>3. CASE k = 0
          <5>1. \A j \in 1..Len(d.data) : d.data[j].label # m
            BY <4>2, <4>3, <2>2, <2>4, <2>8, <1>2 DEF FirstAt
          <5> QED BY <5>1, <4>1, <4>3 DEF FirstAt
        <4>4. CASE k # 0
          <5>1. k \in 1..Len(s) /\ s[k].label = m /\ \A j \in 1..Len(s) : j < k => s[j].label # m
            BY <4>4, <1>1, <1>2 DEF FirstAt
          <5>2. \A j \in 1..Len(d.data) : j < k => d.data[j].label # m
            BY <4>2, <5>1, <2>4, <1>1
          <5>3. d.data[k].label = m
            BY <5>1, <2>4
          <5> QED BY <5>2, <5>3, <4>1, <4>4 DEF FirstAt
        <4> QED BY <4>3, <4>4
      <3>2. Find(d, m) = k
        BY <3>1, <1>4, FirstIsOne
      <3>3. k # 0 => k \in 1..Len(s)
        BY <1>1, <1>2 DEF FirstAt
      <3> QED BY <3>2, <3>3, <2>4, <2>5, <2>6, <2>8 DEF d
    <2> QED BY <2>7, <2>8
  <1> QED BY <1>5, <1>6

-----------------------------------------------------------------------------
(***************************************************************************)
(* The file's lines and the pairs fscanf takes from it.                    *)
(***************************************************************************)
\* The pairs, and the lines, of file f that give name n an address of these
\* kinds; the addresses of pairs and of lines.
PairsGiving(f, kinds, n) ==
    {i \in Nat : WordsOf(f)[2 * i - 1].kind \in kinds /\ WordsOf(f)[2 * i].val = n}
PairAddress(f) == [i \in Nat |-> WordsOf(f)[2 * i - 1].val]
LinesGiving(f, kinds, n) == {i \in Nat : Gives(f[i], kinds, n)}
LineAddress(f) == [i \in Nat |-> f[i].words[1].val]

\* The first k lines that are counted.
CountedLines(f, k) == {i \in 1..k : ~f[i].bare}

\* The words of line i are l.
IsLine(f, i, l) == l = f[i].words

\* The words of each line.
LineWords(f) == [i \in DOMAIN f |-> f[i].words]

\* A file is a sequence of lines.
LEMMA Lines ==
    ASSUME NEW f \in Files
    PROVE  /\ Len(f) \in Nat /\ DOMAIN f = 1..Len(f)
           /\ LineWords(f) \in Seq(Seq(Word)) /\ Len(LineWords(f)) = Len(f)
           /\ \A i \in 1..Len(f) : /\ LineWords(f)[i] = f[i].words
                                   /\ f[i].bare => f[i].words = <<>>
  <1> DEFINE Line == [words : Seq(Word), bare : BOOLEAN]
  <1>1. f \in Seq(Line) /\ \A i \in DOMAIN f : f[i].bare => f[i].words = <<>>
    BY FileAssumption
  <1> HIDE DEF Line
  <1>2. Len(f) \in Nat /\ DOMAIN f = 1..Len(f)
    BY <1>1
  <1>3. ASSUME NEW i \in 1..Len(f) PROVE f[i].words \in Seq(Word)
    <2>1. f[i] \in Line
      BY <1>1
    <2> QED BY <2>1 DEF Line
  <1>4. LineWords(f) = [i \in 1..Len(f) |-> f[i].words]
    BY <1>2 DEF LineWords
  <1>5. LineWords(f) \in Seq(Seq(Word)) /\ Len(LineWords(f)) = Len(f)
    BY <1>2, <1>3, <1>4
  <1> QED BY <1>1, <1>2, <1>4, <1>5

\* What the file gives a name is picked from its lines.
LEMMA GivenPicked ==
    ASSUME file \in Files, NEW kinds, NEW n
    PROVE  Given(kinds, n) = Picked(Len(file), LinesGiving(file, kinds, n), LineAddress(file))
  <1> DEFINE S == LinesGiving(file, kinds, n)
             v == LineAddress(file)
             Is(g) == g = [i \in 0..Len(file) |->
                             IF i = 0 THEN <<>>
                             ELSE IF Gives(file[i], kinds, n)
                                  THEN Append(g[i - 1], file[i].words[1].val)
                             ELSE g[i - 1]]
  <1>1. Given(kinds, n) = (CHOOSE g : Is(g))[Len(file)]
    BY DEF Given
  <1>2. PICK len \in Nat : len = Len(file)
    BY Lines
  <1>3. ASSUME NEW g PROVE Picks(g, len, S, v) <=> Is(g)
    <2> DEFINE a == [i \in 0..len |-> IF i = 0 THEN <<>>
                                      ELSE IF i \in S THEN Append(g[i - 1], v[i]) ELSE g[i - 1]]
               b == [i \in 0..len |-> IF i = 0 THEN <<>>
                                      ELSE IF Gives(file[i], kinds, n)
                                           THEN Append(g[i - 1], file[i].words[1].val)
                                      ELSE g[i - 1]]
    <2>1. \A i \in 0..len : (i \in S <=> Gives(file[i], kinds, n)) /\ v[i] = file[i].words[1].val
      BY DEF LinesGiving, LineAddress
    <2> HIDE DEF S, v
    <2>2. a = b
      BY <2>1
    <2>3. Is(g) <=> g = b
      BY <1>2
    <2>4. Picks(g, len, S, v) <=> g = a
      BY DEF Picks
    <2> QED BY <2>2, <2>3, <2>4
  <1> HIDE DEF Is, S, v
  <1>4. \E g : Is(g)
    BY <1>2, <1>3, PicksExists
  <1>5. PICK g : g = (CHOOSE h : Is(h)) /\ Is(g)
    BY <1>4
  <1>6. PICK h : Picks(h, len, S, v) /\ Picked(len, S, v) = h[len]
    BY PickedByRecursion
  <1>7. Picks(g, len, S, v)
    BY <1>3, <1>5
  <1>8. g[len] = h[len]
    <2>1. len <= len
      OBVIOUS
    <2> QED BY <2>1, <1>6, <1>7, PicksAgree
  <1> QED BY <1>1, <1>2, <1>5, <1>6, <1>8 DEF S, v

LEMMA CountedLinesStep ==
    ASSUME NEW f, NEW k \in Nat
    PROVE  /\ Cardinality(CountedLines(f, k)) \in Nat
           /\ Cardinality(CountedLines(f, k + 1)) =
                 IF f[k + 1].bare THEN Cardinality(CountedLines(f, k))
                 ELSE Cardinality(CountedLines(f, k)) + 1
  <1>1. IsFiniteSet(CountedLines(f, k))
    <2>1. IsFiniteSet(1..k)
      BY FS_Interval
    <2>2. CountedLines(f, k) \in SUBSET (1..k)
      BY DEF CountedLines
    <2> QED BY <2>1, <2>2, FS_Subset
  <1>2. Cardinality(CountedLines(f, k)) \in Nat
    BY <1>1, FS_CardinalityType
  <1>3. CASE f[k + 1].bare
    <2>1. CountedLines(f, k + 1) = CountedLines(f, k)
      BY <1>3 DEF CountedLines
    <2> QED BY <1>2, <1>3, <2>1
  <1>4. CASE ~f[k + 1].bare
    <2>1. CountedLines(f, k + 1) = CountedLines(f, k) \cup {k + 1}
      BY <1>4 DEF CountedLines
    <2>2. k + 1 \notin CountedLines(f, k)
      BY DEF CountedLines
    <2> QED BY <1>1, <1>2, <1>4, <2>1, <2>2, FS_AddElement
  <1> QED BY <1>3, <1>4

\* The first k lines hold q pairs, which give what the lines give.
Holds(f, k, q, kinds, n) ==
    /\ Len(FlattenSeq(SubSeq(LineWords(f), 1, k))) = 2 * q
    /\ q <= Cardinality(CountedLines(f, k))
    /\ Picked(k, LinesGiving(f, kinds, n), LineAddress(f)) =
           Picked(q, PairsGiving(f, kinds, n), PairAddress(f))

\* A line without words changes nothing.
LEMMA HoldsEmpty ==
    ASSUME NEW f \in Files, NEW k \in Nat, k + 1 <= Len(f), f[k + 1].words = <<>>,
           NEW q \in Nat, NEW kinds, NEW n, Holds(f, k, q, kinds, n)
    PROVE  Holds(f, k + 1, q, kinds, n)
  <1> DEFINE ws == LineWords(f)
             before == FlattenSeq(SubSeq(ws, 1, k))
             after == FlattenSeq(SubSeq(ws, 1, k + 1))
  <1>1. /\ ws \in Seq(Seq(Word)) /\ Len(ws) = Len(f) /\ Len(f) \in Nat /\ k + 1 \in 1..Len(f)
        /\ ws[k + 1] = <<>>
    BY Lines
  <1>2. SubSeq(ws, 1, k) \in Seq(Seq(Word))
    BY <1>1, Prefix
  <1> HIDE DEF ws
  <1>3. before \in Seq(Word)
    BY <1>2, FlattenTyped
  <1>4. after = before \o <<>>
    <2>1. k \in 0..(Len(ws) - 1)
      BY <1>1
    <2> QED BY <2>1, <1>1, FlattenPrefix
  <1>5. Len(after) = Len(before)
    <2> HIDE DEF before, after
    <2> QED BY <1>3, <1>4, JoinEmpty
  <1>6. k + 1 \notin LinesGiving(f, kinds, n)
    BY DEF LinesGiving, Gives
  <1>7. Picked(k + 1, LinesGiving(f, kinds, n), LineAddress(f)) =
            Picked(k, LinesGiving(f, kinds, n), LineAddress(f))
    BY <1>6, PickedStep
  <1>8. q <= Cardinality(CountedLines(f, k + 1))
    <2>1. PICK a \in Nat : a = Cardinality(CountedLines(f, k)) /\ q <= a
      BY CountedLinesStep DEF Holds
    <2>2. Cardinality(CountedLines(f, k + 1)) \in {a, a + 1}
      BY <2>1, CountedLinesStep
    <2> QED BY <2>1, <2>2
  <1> QED BY <1>5, <1>7, <1>8 DEF Holds, ws

LEMMA TwoWords ==
    ASSUME NEW s \in Seq(Word), NEW t \in Seq(Word), Len(t) = 2
    PROVE  Len(s \o t) = Len(s) + 2 /\ t # <<>> /\ 1 \in 1..Len(t) /\ 2 \in 1..Len(t)
  <1>1. Len(s \o t) = Len(s) + 2
    <2>1. Len(s \o t) = Len(s) + Len(t)
      BY Join, Zenon
    <2> QED BY <2>1, Zenon
  <1>2. t # <<>>
    <2>1. Len(<<>>) # 2
      OBVIOUS
    <2> QED BY <2>1, Zenon
  <1>3. 1 \in 1..Len(t) /\ 2 \in 1..Len(t)
    OBVIOUS
  <1> QED BY <1>1, <1>2, <1>3

\* A line of two words is the next pair.
LEMMA HoldsPair ==
    ASSUME NEW f \in Files, NEW k \in Nat, k + 1 <= Len(f),
           NEW l \in Seq(Word), IsLine(f, k + 1, l), Len(l) = 2,
           NEW q \in Nat, NEW kinds, NEW n, Holds(f, k, q, kinds, n)
    PROVE  Holds(f, k + 1, q + 1, kinds, n)
  <1> DEFINE ws == LineWords(f)
             before == FlattenSeq(SubSeq(ws, 1, k))
             after == FlattenSeq(SubSeq(ws, 1, k + 1))
  <1>1. /\ ws \in Seq(Seq(Word)) /\ Len(ws) = Len(f) /\ Len(f) \in Nat /\ k + 1 \in 1..Len(f)
        /\ ws[k + 1] = l
    BY Lines DEF IsLine
  <1>2. SubSeq(ws, 1, k) \in Seq(Seq(Word))
    BY <1>1, Prefix
  <1>3. Len(before) = 2 * q /\ FlattenSeq(ws) = WordsOf(f)
    BY DEF Holds, WordsOf, LineWords
  <1> HIDE DEF ws
  <1>4. k \in 0..(Len(ws) - 1)
    BY <1>1
  <1>5. before \in Seq(Word)
    BY <1>2, FlattenTyped
  <1>6. Len(after) = 2 * (q + 1)
    <2>1. after = before \o l
      BY <1>1, <1>4, FlattenPrefix
    <2> HIDE DEF before, after
    <2>2. Len(after) = Len(before) + 2
      BY <2>1, <1>5, TwoWords
    <2> QED BY <2>2, <1>3
  <1>7. WordsOf(f)[2 * q + 1] = f[k + 1].words[1] /\ WordsOf(f)[2 * q + 2] = f[k + 1].words[2]
    <2>1. \A j \in 1..Len(ws[k + 1]) : FlattenSeq(ws)[Len(before) + j] = ws[k + 1][j]
      BY <1>1, <1>4, FlattenAt
    <2>2. 1 \in 1..Len(l) /\ 2 \in 1..Len(l)
      BY TwoWords
    <2> HIDE DEF before
    <2>3. WordsOf(f)[2 * q + 1] = l[1] /\ WordsOf(f)[2 * q + 2] = l[2]
      BY <2>1, <2>2, <1>1, <1>3
    <2> QED BY <2>3 DEF IsLine
  <1>8. 2 * (q + 1) - 1 = 2 * q + 1 /\ 2 * (q + 1) = 2 * q + 2 /\ q + 1 \in Nat /\ k + 1 \in Nat
    OBVIOUS
  <1>9. f[k + 1].words # <<>>
    <2>1. l # <<>>
      BY TwoWords
    <2> QED BY <2>1 DEF IsLine
  <1>10. k + 1 \in LinesGiving(f, kinds, n) <=> q + 1 \in PairsGiving(f, kinds, n)
    BY <1>7, <1>8, <1>9 DEF LinesGiving, PairsGiving, Gives
  <1>11. LineAddress(f)[k + 1] = PairAddress(f)[q + 1]
    BY <1>7, <1>8 DEF LineAddress, PairAddress
  <1>12. Picked(k + 1, LinesGiving(f, kinds, n), LineAddress(f)) =
             Picked(q + 1, PairsGiving(f, kinds, n), PairAddress(f))
    BY <1>10, <1>11, PickedStep DEF Holds
  <1>13. q + 1 <= Cardinality(CountedLines(f, k + 1))
    <2>1. ~f[k + 1].bare
      BY <1>1, <1>9, Lines
    <2>2. PICK a \in Nat : a = Cardinality(CountedLines(f, k)) /\ q <= a
      BY CountedLinesStep DEF Holds
    <2>3. Cardinality(CountedLines(f, k + 1)) = a + 1
      BY <2>1, <2>2, CountedLinesStep
    <2> QED BY <2>2, <2>3
  <1> QED BY <1>6, <1>12, <1>13 DEF Holds, ws

\* A file of address and name per line has no more pairs than counted lines,
\* and its pairs give what its lines give.
LEMMA PairsAreLines ==
    ASSUME NEW f \in Files, \A i \in DOMAIN f : Len(f[i].words) \in {0, 2}, NEW kinds, NEW n
    PROVE  /\ Len(WordsOf(f)) \div 2 <= Cardinality(CountedLines(f, Len(f)))
           /\ Picked(Len(f), LinesGiving(f, kinds, n), LineAddress(f)) =
                  Picked(Len(WordsOf(f)) \div 2, PairsGiving(f, kinds, n), PairAddress(f))
  <1>1. /\ Len(f) \in Nat /\ DOMAIN f = 1..Len(f)
        /\ LineWords(f) \in Seq(Seq(Word)) /\ Len(LineWords(f)) = Len(f)
    BY Lines
  <1> DEFINE Good == {k \in Nat : k <= Len(f) => \E q \in Nat : Holds(f, k, q, kinds, n)}
  <1>2. 0 \in Good
    <2>1. Len(FlattenSeq(SubSeq(LineWords(f), 1, 0))) = 2 * 0
      <3>1. SubSeq(LineWords(f), 1, 0) = <<>>
        BY <1>1
      <3>2. FlattenSeq(SubSeq(LineWords(f), 1, 0)) = <<>>
        BY <3>1, FlattenEmpty
      <3>3. Len(<<>>) = 2 * 0
        OBVIOUS
      <3> QED BY <3>2, <3>3
    <2>2. 0 <= Cardinality(CountedLines(f, 0))
      BY CountedLinesStep
    <2>3. Holds(f, 0, 0, kinds, n)
      BY <2>1, <2>2, PickedNone DEF Holds
    <2> QED BY <2>3
  <1>3. ASSUME NEW k \in Nat, k \in Good PROVE k + 1 \in Good
    <2> SUFFICES ASSUME k + 1 <= Len(f) PROVE \E q \in Nat : Holds(f, k + 1, q, kinds, n)
      OBVIOUS
    <2>1. PICK q \in Nat : Holds(f, k, q, kinds, n)
      BY <1>1, <1>3
    <2>2. k + 1 \in DOMAIN f
      BY <1>1
    <2>3. CASE Len(f[k + 1].words) = 2
      <3>1. Holds(f, k + 1, q + 1, kinds, n) /\ q + 1 \in Nat
        <4>1. PICK l \in Seq(Word) : IsLine(f, k + 1, l) /\ Len(l) = 2
          BY <1>1, <2>2, <2>3, Lines DEF IsLine
        <4> QED BY <4>1, <2>1, HoldsPair
      <3> QED BY <3>1
    <2>4. CASE Len(f[k + 1].words) = 0
      <3>1. f[k + 1].words = <<>>
        <4>1. LineWords(f)[k + 1] \in Seq(Word) /\ LineWords(f)[k + 1] = f[k + 1].words
          BY <1>1, <2>2, Lines
        <4> QED BY <4>1, <2>4
      <3> QED BY <3>1, <2>1, HoldsEmpty
    <2> QED BY <2>2, <2>3, <2>4
  <1> HIDE DEF Good
  <1>4. Len(f) \in Good
    BY <1>1, <1>2, <1>3, InductiveSet
  <1>5. PICK q \in Nat : Holds(f, Len(f), q, kinds, n)
    BY <1>1, <1>4 DEF Good
  <1>6. Len(WordsOf(f)) = 2 * q
    <2>1. SubSeq(LineWords(f), 1, Len(f)) = LineWords(f)
      BY <1>1
    <2> QED BY <2>1, <1>5 DEF Holds, WordsOf, LineWords
  <1>7. Len(WordsOf(f)) \div 2 = q
    <2>1. (2 * q) \div 2 = q
      OBVIOUS
    <2> QED BY <1>6, <2>1
  <1> QED BY <1>5, <1>7 DEF Holds

-----------------------------------------------------------------------------
(***************************************************************************)
(* What is stored is what the file gives.                                  *)
(***************************************************************************)
\* Cache c holds, for every name, what the first p pairs give it.
Stores(c, kinds, p) ==
    \A n : get_static_cache(c, n) = Picked(p, PairsGiving(file, kinds, n), PairAddress(file))

Stored ==
    /\ pc \in {"count", "store", "done"} => line = Cardinality(CountedLines(file, Len(file)))
    /\ pc = "done" => pos = End
    /\ Loaded => Stores(A, V4Kinds, pos) /\ Stores(blacklist, ZeroKinds, pos)

\* A cache without names stores what no pairs give.
LEMMA EmptyStores ==
    ASSUME NEW c, c.data = <<>>, NEW kinds
    PROVE  Stores(c, kinds, 0)
  <1> SUFFICES ASSUME NEW n
               PROVE  get_static_cache(c, n) =
                          Picked(0, PairsGiving(file, kinds, n), PairAddress(file))
    BY DEF Stores
  <1>1. FirstAt(c.data, n, Find(c, n))
    <2>1. c.data \in Seq(Entry)
      OBVIOUS
    <2> QED BY <2>1, FindFirst
  <1>2. Find(c, n) = 0
    <2>1. Len(<<>>) = 0
      OBVIOUS
    <2>2. Find(c, n) \in 0..0
      BY <1>1, <2>1 DEF FirstAt
    <2> QED BY <2>2
  <1>3. get_static_cache(c, n) = <<>>
    BY <1>2 DEF get_static_cache
  <1> QED BY <1>3, PickedNone

\* The next pair is stored if it is of the cache's kinds.
LEMMA PairStored ==
    ASSUME NEW c, NEW d, NEW kinds, NEW p \in Nat, CacheOK(c), Stores(c, kinds, p),
           NEW n \in STRING, NEW ip \in STRING, NEW kind,
           WordsOf(file)[2 * (p + 1) - 1].kind = kind,
           WordsOf(file)[2 * (p + 1) - 1].val = ip, WordsOf(file)[2 * (p + 1)].val = n,
           kind \in kinds => CanSet(c, n),
           d = IF kind \in kinds THEN set_static_cache(c, n, ip) ELSE c
    PROVE  Stores(d, kinds, p + 1)
  <1> SUFFICES ASSUME NEW m
               PROVE  get_static_cache(d, m) =
                          Picked(p + 1, PairsGiving(file, kinds, m), PairAddress(file))
    BY DEF Stores
  <1> DEFINE S == PairsGiving(file, kinds, m)
             v == PairAddress(file)
  <1>1. (p + 1 \in S <=> kind \in kinds /\ m = n) /\ v[p + 1] = ip
    BY DEF PairsGiving, PairAddress
  <1>2. get_static_cache(c, m) = Picked(p, S, v)
    BY DEF Stores
  <1>3. Picked(p + 1, S, v) = IF p + 1 \in S THEN Append(Picked(p, S, v), v[p + 1])
                              ELSE Picked(p, S, v)
    BY PickedStep
  <1> HIDE DEF S, v
  <1>4. CASE kind \in kinds
    <2>1. get_static_cache(d, m) = IF m = n THEN Append(get_static_cache(c, m), ip)
                                   ELSE get_static_cache(c, m)
      BY <1>4, SetThenGet
    <2> QED BY <2>1, <1>1, <1>2, <1>3, <1>4 DEF S, v
  <1>5. CASE kind \notin kinds
    BY <1>1, <1>2, <1>3, <1>5 DEF S, v
  <1> QED BY <1>4, <1>5

\* The second pass begins with empty caches.
LEMMA InitCachesStores == ASSUME IInv, Stored, InitCaches PROVE Stored'
  <1>1. /\ pc = "count" /\ pc' = "store" /\ file' = file /\ line' = line /\ pos' = 0
    BY DEF InitCaches, Rewind
  <1>2. A = NotInit /\ blacklist = NotInit /\ ~NotInit.is_init /\ NotInit.data = <<>>
        /\ v4 \in Nat /\ v6 \in Nat /\ black \in Nat
    BY <1>1 DEF IInv, Filled, Loaded, NotInit, Types
  <1>3. A'.data = <<>>
    <2> DEFINE A4 == IF v4 > 0 THEN init_staticCache(A, v4) ELSE A
    <2>1. A4.data = <<>> /\ CacheOK(A4)
      BY <1>2, NotInitOK, InitStaticCache
    <2>2. A' = IF v6 > 0 THEN init_staticCache(A4, v6) ELSE A4
      BY DEF InitCaches
    <2> HIDE DEF A4
    <2>3. CASE v6 > 0
      BY <1>2, <2>1, <2>2, <2>3, InitStaticCache
    <2> QED BY <2>1, <2>2, <2>3
  <1>4. blacklist'.data = <<>>
    <2>1. blacklist' = IF black > 0 THEN init_staticCache(blacklist, black) ELSE blacklist
      BY DEF InitCaches
    <2> QED BY <1>2, <2>1, NotInitOK, InitStaticCache
  <1>5. Stores(A, V4Kinds, pos)' /\ Stores(blacklist, ZeroKinds, pos)'
    <2>1. Stores(A', V4Kinds, 0) /\ Stores(blacklist', ZeroKinds, 0)
      BY <1>3, <1>4, EmptyStores
    <2> QED BY <1>1, <2>1 DEF Stores
  <1> QED BY <1>1, <1>5 DEF Stored, Loaded

\* The second pass finds a pair.
LEMMA StorePairStores == ASSUME IInv, Stored, StorePair PROVE Stored'
  <1> DEFINE kind == Ip(pos').kind
             ip == Ip(pos').val
             n == Name(pos').val
  <1>1. pc = "store" /\ pc' = "store" /\ file' = file /\ line' = line /\ NextPair
    BY DEF StorePair
  <1>2. pos' = pos + 1 /\ pos' <= End /\ End \in Nat /\ pos' \in 1..NPairs /\ pos \in Nat
    BY <1>1, NextPairKeeps DEF IInv, Types
  <1>3. /\ WordsOf(file)[2 * (pos + 1) - 1].kind = kind
        /\ WordsOf(file)[2 * (pos + 1) - 1].val = ip /\ WordsOf(file)[2 * (pos + 1)].val = n
        /\ ip \in STRING /\ n \in STRING
    <2>1. Ip(pos') \in Word /\ Name(pos') \in Word
      BY <1>1, <1>2, Pairs DEF IInv, Types, Ip, Name, NPairs, Words
    <2> QED BY <1>2, <2>1 DEF Word, Ip, Name, Words
  <1>4. /\ A' = (IF kind \in V4Kinds THEN set_static_cache(A, n, ip) ELSE A)
        /\ blacklist' = (IF kind \in ZeroKinds THEN set_static_cache(blacklist, n, ip) ELSE blacklist)
    BY DEF StorePair, V4Kinds, ZeroKinds
  <1> HIDE DEF kind, ip, n
  <1>5. v4 = Amount(file, V4Kinds, End) /\ black = Amount(file, ZeroKinds, End) /\ Loaded
    BY <1>1 DEF IInv, Counted, Loaded
  <1>6. /\ kind \in V4Kinds => CanSet(A, n)
        /\ kind \in ZeroKinds => CanSet(blacklist, n)
    BY <1>2, <1>3, <1>5, RoomForPair DEF IInv
  <1>7. CacheOK(A) /\ CacheOK(blacklist) /\ Stores(A, V4Kinds, pos) /\ Stores(blacklist, ZeroKinds, pos)
    BY <1>5 DEF IInv, Filled, Stored
  <1>8. Stores(A', V4Kinds, pos + 1)
    BY <1>2, <1>3, <1>4, <1>6, <1>7, PairStored
  <1>9. Stores(blacklist', ZeroKinds, pos + 1)
    BY <1>2, <1>3, <1>4, <1>6, <1>7, PairStored
  <1>10. Stores(A, V4Kinds, pos)' /\ Stores(blacklist, ZeroKinds, pos)'
    BY <1>1, <1>2, <1>8, <1>9 DEF Stores
  <1> QED BY <1>1, <1>10 DEF Stored

\* The other steps store nothing.
LEMMA NextStores == ASSUME IInv, Stored, [Next]_vars PROVE Stored'
  <1>1. CASE OpenFails
    BY <1>1 DEF OpenFails, Stored, Loaded
  <1>2. CASE CountLines
    <2>1. file \in Files /\ file' = file /\ pc' = "count"
      BY <1>2 DEF CountLines, IInv, Types
    <2>2. line' = Cardinality(CountedLines(file, Len(file)))
      <3>1. DOMAIN file = 1..Len(file)
        BY <2>1, Lines
      <3> QED BY <3>1, <1>2 DEF CountLines, CountedLines
    <2> QED BY <2>1, <2>2 DEF Stored, Loaded
  <1>3. CASE CountPair
    BY <1>3 DEF CountPair, Stored, Loaded
  <1>4. CASE ReadNothing
    <2>1. /\ pc \in {"count", "store"} /\ UNCHANGED <<file, pc, line, pos, A, blacklist>>
      BY <1>4 DEF ReadNothing, NoPair, caches
    <2> QED BY <2>1 DEF Stored, Loaded, Stores
  <1>5. CASE InitCaches
    BY <1>5, InitCachesStores
  <1>6. CASE StorePair
    BY <1>6, StorePairStores
  <1>7. CASE Finish
    <2>1. /\ pc = "store" /\ pc' = "done" /\ ~More /\ UNCHANGED <<file, line, pos, A, blacklist>>
      BY <1>7 DEF Finish, caches
    <2>2. pos = End /\ End' = End
      BY <2>1, StopsAtEnd DEF End, NPairs, Words
    <2> QED BY <2>1, <2>2 DEF Stored, Loaded, Stores
  <1>8. CASE UNCHANGED vars
    <2>1. UNCHANGED <<file, pc, line, pos, A, blacklist>>
      BY <1>8 DEF vars, caches
    <2> QED BY <2>1 DEF Stored, Loaded, Stores, End, NPairs, Words
  <1> QED BY <1>1, <1>2, <1>3, <1>4, <1>5, <1>6, <1>7, <1>8 DEF Next

\* Where load_local_record returns, every pair of a file of address and name per
\* line was read, and the caches answer what the lines say.
LEMMA StoredLoads == ASSUME IInv, Stored PROVE LoadsFile
  <1> SUFFICES ASSUME pc = "done", WellFormed, NEW n
               PROVE  /\ get_static_cache(A, n) = Given({"v4"}, n)
                      /\ get_static_cache(blacklist, n) = Given({"v4zero", "v6zero"}, n)
    BY DEF LoadsFile
  <1>1. file \in Files /\ NPairs \in Nat /\ NPairs = Len(WordsOf(file)) \div 2
    BY Pairs DEF IInv, Types, NPairs, Words
  <1>2. \A i \in DOMAIN file : Len(file[i].words) \in {0, 2}
    BY DEF WellFormed
  <1>3. NPairs <= line
    BY <1>1, <1>2, PairsAreLines DEF Stored
  <1>4. pos = NPairs
    <2>1. pos = End /\ line \in Nat
      BY DEF Stored, IInv, Types
    <2> QED BY <1>1, <1>3, <2>1 DEF End
  <1>5. ASSUME NEW kinds
        PROVE  Picked(pos, PairsGiving(file, kinds, n), PairAddress(file)) = Given(kinds, n)
    BY <1>1, <1>2, <1>4, PairsAreLines, GivenPicked
  <1>6. Stores(A, V4Kinds, pos) /\ Stores(blacklist, ZeroKinds, pos)
    BY DEF Stored, Loaded
  <1> QED BY <1>5, <1>6 DEF Stores, V4Kinds, ZeroKinds

\* load_local_record loads what the file says: after it, a lookup of a name in
\* A.local and in the blacklist gives the addresses of its lines, in their order,
\* for a file of any length with empty lines anywhere.
THEOREM FileIsLoaded == Spec => []LoadsFile
  <1>1. Init => Stored
    BY DEF Init, Stored, Loaded
  <1>2. Spec => []Stored
    BY <1>1, NextStores, Invariance, PTL DEF Spec
  <1> QED BY <1>2, StoredLoads, Invariance, PTL
=============================================================================
