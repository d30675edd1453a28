------------------------ MODULE LruCacheStoreProofs ------------------------
(***************************************************************************)
(* Proofs about what the records of LruCache hold: the types of the data,  *)
(* the agreement of the hash table with the list, and that the cache is a  *)
(* RecordStore.  They rest on the list proofs of LruCacheProofs.           *)
(***************************************************************************)
EXTENDS LruCacheProofs, FiniteSetTheorems

-----------------------------------------------------------------------------
(***************************************************************************)
(* Types.                                                                  *)
(***************************************************************************)
DataTypeOK ==
    /\ size \in [Records -> Nat]
    /\ data \in [Records -> DataBlocks]
    /\ used_size \in 0..(SizeMod - 1)
    /\ now \in 0..MaxNow
    /\ pc \in {"idle", "pop", "space"} /\ req \in Requests \cup {NoReq}
    /\ t \in 0..LRU_POP_ITEM
    /\ ret \in Seq(Nat)
    /\ fault \in Faults \cup {"none"}

\* The constants, as the proofs need them.
LEMMA ConstantTypes ==
    /\ SizeMod \in Nat /\ SizeMod > 0
    /\ SizeofRecordData \in Nat /\ LabelLen \in Nat
    /\ LRU_POP_ITEM \in Nat /\ LRU_POP_ITEM > 0
    /\ MaxNow \in Nat
    /\ Answers \subseteq Seq(Nat) /\ <<>> \notin Answers
    /\ NoLabel \notin Labels
    /\ MaxSize \in Nat /\ Reserve \in Nat /\ MaxSize + Reserve < SizeMod
  BY CacheAssumption DEF CacheAssumption

\* Positions of the list are records.
LEMMA SlotsAreRecords == Slots \subseteq Records /\ 0 \in Records /\ 0 \notin Slots
  BY MaxLengthType DEF Slots, Records

\* The k-th answer still alive exists for every k up to their number: ranks
\* are distinct, so none of the numbers is left out.
LEMMA RanksCover ==
    ASSUME req.ans \in Seq(Nat), now \in Nat
    PROVE  /\ IsFiniteSet(Alive) /\ Cardinality(Alive) \in Nat
           /\ \A k \in 1..Cardinality(Alive) : \E i \in Alive : Rank(i) = k
  <1> DEFINE n == Cardinality(Alive)
             Upto(i) == {j \in Alive : j <= i}
  <1>0. Len(req.ans) \in Nat
    OBVIOUS
  <1>1. IsFiniteSet(1..Len(req.ans))
    BY <1>0, FS_Interval
  <1>2. Alive \in SUBSET (1..Len(req.ans))
    BY DEF Alive
  <1>3. IsFiniteSet(Alive) /\ n \in Nat
    BY <1>1, <1>2, FS_Subset, FS_CardinalityType
  <1>4. ASSUME NEW i \in Alive
        PROVE  /\ IsFiniteSet(Upto(i)) /\ Upto(i) \in SUBSET Alive /\ i \in Upto(i)
               /\ Rank(i) = Cardinality(Upto(i)) /\ Rank(i) \in 1..n
    <2>1. Upto(i) \in SUBSET Alive /\ i \in Upto(i)
      BY <1>0, <1>2
    <2>2. IsFiniteSet(Upto(i)) /\ Cardinality(Upto(i)) <= n /\ Cardinality(Upto(i)) \in Nat
      BY <1>3, <2>1, FS_Subset, FS_CardinalityType
    <2>3. Cardinality(Upto(i)) # 0
      BY <2>1, <2>2, FS_EmptySet
    <2>4. Rank(i) = Cardinality(Upto(i))
      BY DEF Rank
    <2> HIDE DEF Upto
    <2> QED BY <1>3, <2>1, <2>2, <2>3, <2>4
  <1>5. ASSUME NEW i \in Alive, NEW j \in Alive, i < j
        PROVE  Rank(i) # Rank(j)
    <2>0. \A x \in Alive : x \in Nat
      BY <1>0, <1>2
    <2>1. Upto(i) \in SUBSET Upto(j) /\ j \notin Upto(i)
      <3>1. \A x \in Alive : x <= i => x <= j
        BY <1>5, <2>0
      <3>2. ~(j <= i)
        BY <1>5, <2>0
      <3> QED BY <3>1, <3>2
    <2>2. Upto(i) # Upto(j)
      BY <1>4, <2>1
    <2> HIDE DEF Upto
    <2> QED BY <1>4, <2>1, <2>2, FS_Subset
  <1>6. ASSUME NEW k \in 1..n, \A i \in Alive : Rank(i) # k
        PROVE  FALSE
    <2> DEFINE T == (1..n) \ {k}
               f == [i \in Alive |-> Rank(i)]
    <2>1. f \in [Alive -> T]
      BY <1>4, <1>6
    <2>2. IsFiniteSet(1..n) /\ Cardinality(1..n) = n
      BY <1>3, FS_Interval
    <2>3. IsFiniteSet(T) /\ Cardinality(T) = n - 1
      BY <2>2, FS_RemoveElement
    <2>4. Cardinality(T) < n
      BY <1>3, <2>3
    <2>5. \E i, j \in Alive : i # j /\ f[i] = f[j]
      <3> HIDE DEF f, T
      <3> QED BY <1>3, <2>1, <2>3, <2>4, FS_PigeonHole
    <2>6. PICK i \in Alive, j \in Alive : i # j /\ Rank(i) = Rank(j)
      BY <2>5
    <2>7. i < j \/ j < i
      BY <1>0, <1>2, <2>6
    <2> QED BY <1>5, <2>6, <2>7
  <1> QED BY <1>3, <1>6

\* add_A_multi_record stores expiry times.
LEMMA FreshType ==
    ASSUME req.ans \in Seq(Nat), now \in Nat
    PROVE  Fresh \in Seq(Nat) /\ Len(Fresh) \in Nat
  <1> DEFINE n == Cardinality(Alive)
             at(k) == CHOOSE i \in Alive : Rank(i) = k
  <1>1. n \in Nat /\ \A k \in 1..n : at(k) \in Alive
    BY RanksCover
  <1>2. \A i \in Alive : req.ans[i] \in Nat
    BY DEF Alive
  <1>3. Fresh = [k \in 1..n |-> req.ans[at(k)]]
    BY DEF Fresh
  <1> HIDE DEF n, at
  <1> QED BY <1>1, <1>2, <1>3

\* With no answer expired it stores them all.
LEMMA FreshIsAll ==
    ASSUME req.ans \in Seq(Nat), now \in Nat, \A i \in 1..Len(req.ans) : now <= req.ans[i]
    PROVE  Fresh = req.ans
  <1> DEFINE n == Len(req.ans)
  <1>1. n \in Nat /\ req.ans = [k \in 1..n |-> req.ans[k]]
    OBVIOUS
  <1>2. Alive = 1..n
    BY DEF Alive
  <1>3. Cardinality(Alive) = n
    BY <1>1, <1>2, FS_Interval
  <1>4. ASSUME NEW i \in 1..n PROVE Rank(i) = i
    <2>1. {j \in Alive : j <= i} = 1..i
      BY <1>1, <1>2
    <2>2. Cardinality(1..i) = i
      BY FS_Interval
    <2> QED BY <2>1, <2>2 DEF Rank
  <1>5. ASSUME NEW k \in 1..n PROVE (CHOOSE i \in Alive : Rank(i) = k) = k
    BY <1>2, <1>4
  <1> QED BY <1>1, <1>3, <1>5 DEF Fresh

\* What a block holds.
LEMMA BlockFacts ==
    ASSUME NEW d \in DataBlocks
    PROVE  /\ d.st \in {"null", "live", "freed"} /\ d.ans \in Seq(Nat)
           /\ d.st = "null" => d = NullData
           /\ d.st # "null" => d.label \in Labels
           /\ d.st # "null" => [d EXCEPT !.st = "freed"] \in DataBlocks
           /\ [d EXCEPT !.st = "freed"].st = "freed"
           /\ [d EXCEPT !.st = "freed"].label = d.label
           /\ [d EXCEPT !.st = "freed"].ans = d.ans
  <1>1. CASE d = NullData
    BY <1>1 DEF NullData
  <1>2. CASE d \in [st : {"live", "freed"}, label : Labels, ans : Seq(Nat)]
    BY <1>2 DEF DataBlocks
  <1> QED BY <1>1, <1>2 DEF DataBlocks

\* Freeing a record's block changes nothing else.
LEMMA ReleasedFacts ==
    ASSUME data \in [Records -> DataBlocks], NEW r \in Records
    PROVE  /\ Released(r) \in [Records -> DataBlocks]
           /\ \A x \in Records : Released(r)[x].label = data[x].label
                              /\ Released(r)[x].ans = data[x].ans
           /\ \A x \in Records : x # r => Released(r)[x] = data[x]
           /\ Released(r)[r].st = IF data[r].st = "null" THEN "null" ELSE "freed"
  <1> DEFINE e == [data[r] EXCEPT !.st = "freed"]
  <1>1. /\ data[r].st # "null" => e \in DataBlocks
        /\ e.st = "freed" /\ e.label = data[r].label /\ e.ans = data[r].ans
    BY BlockFacts
  <1>2. data[r].st # "null" => Released(r) = [data EXCEPT ![r] = e]
    BY DEF Released
  <1>3. data[r].st = "null" => Released(r) = data
    BY DEF Released
  <1> HIDE DEF e
  <1> QED BY <1>1, <1>2, <1>3

\* A request in progress has a label and expiry times.
LEMMA RequestType ==
    ASSUME DataTypeOK, Requesting, pc # "idle"
    PROVE  req.label \in Labels /\ req.ans \in Seq(Nat) /\ now \in Nat
  BY ConstantTypes DEF DataTypeOK, Requesting, Requests, NoReq

\* add_A_record and add_A_multi_record.
LEMMA AddKeepsTypes ==
    ASSUME DataTypeOK, Requesting, pc # "idle", NEW r \in Records,
           NEW d \in [Records -> DataBlocks], Add(r, d)
    PROVE  DataTypeOK'
  <1>1. req.label \in Labels /\ Fresh \in Seq(Nat) /\ Len(Fresh) \in Nat
    BY RequestType, FreshType
  <1>2. LiveData(req.label, Fresh) \in DataBlocks
    BY <1>1 DEF LiveData, DataBlocks
  <1>3. data' \in [Records -> DataBlocks]
    BY <1>2 DEF Add
  <1>4. StoredSize \in Nat
    BY <1>1, ConstantTypes DEF StoredSize
  <1>5. size' \in [Records -> Nat]
    BY <1>4 DEF Add, DataTypeOK
  <1>6. UNCHANGED <<used_size, now, t, ret, fault>> /\ pc' = "idle" /\ req' = NoReq
    BY DEF Add
  <1> QED BY <1>3, <1>5, <1>6 DEF DataTypeOK

\* A call that ends the process changes no data.
LEMMA FailKeepsTypes ==
    ASSUME DataTypeOK, NEW f \in Faults, Fail(f)
    PROVE  DataTypeOK'
  BY DEF Fail, DataTypeOK, memory

\* The record whose block is freed along with record r.
LEMMA TailIsRecord ==
    ASSUME Core, NEW r \in Slots, valid[r]
    PROVE  Cut(r).last \in Records
  <1>1. PICK p \in 1..length : lru[p] = r
    BY ValidIsListed DEF Core
  <1>2. length \in 1..length /\ length > 0 /\ last = lru[length]
    BY <1>1 DEF Core, ListTypeOK, ListMatches
  <1>3. rlast[r] \in Records /\ last \in Records
    BY <1>1, <1>2, Neighbours DEF Core
  <1>4. Cut(r).last = rlast[r] \/ Cut(r).last = last
    BY DEF Cut, linklist_remove_node
  <1> QED BY <1>3, <1>4

\* Every step keeps the types.
LEMMA NextTypes == IInv /\ DataTypeOK /\ [Next]_vars => DataTypeOK'
  <1> SUFFICES ASSUME IInv, DataTypeOK, [Next]_vars PROVE DataTypeOK'
    OBVIOUS
  <1>0. Core /\ Requesting
    BY DEF IInv
  <1>1. ASSUME NEW l \in Labels, NEW a \in Answers, NEW api \in Apis, SetCall(l, a, api)
        PROVE  DataTypeOK'
    <2>1. a \in Seq(Nat) /\ now \in Nat
      BY ConstantTypes DEF DataTypeOK
    <2>2. [i \in 1..Len(a) |-> now + a[i]] \in Seq(Nat)
      BY <2>1
    <2>3. req' \in Requests
      BY <1>1, <2>2 DEF SetCall, Requests
    <2>4. pc' \in {"idle", "pop", "space"} /\ t' \in 0..LRU_POP_ITEM
      BY <1>1, ConstantTypes DEF SetCall
    <2> QED BY <1>1, <2>3, <2>4 DEF SetCall, DataTypeOK, memory
  <1>2. CASE PopRecord
    <2>1. \/ \E f \in Faults : Fail(f)
          \/ /\ used_size' = SizeLess(last) /\ data' = Released(last)
             /\ size' = [size EXCEPT ![last] = 0] /\ t' = t - 1
             /\ UNCHANGED <<now, pc, req, ret, fault>>
      BY <1>2 DEF PopRecord, Faults, WalkFaults
    <2>2. t > 0 /\ length > 0
      BY <1>2 DEF PopRecord
    <2>3. CASE \E f \in Faults : Fail(f)
      BY <2>3, FailKeepsTypes
    <2>4. CASE /\ used_size' = SizeLess(last) /\ data' = Released(last)
               /\ size' = [size EXCEPT ![last] = 0] /\ t' = t - 1
               /\ UNCHANGED <<now, pc, req, ret, fault>>
      <3>1. length \in 1..length /\ last = lru[length]
        BY <1>0, <2>2 DEF Core, ListTypeOK, ListMatches
      <3>2. last \in Records
        BY <1>0, <3>1, Neighbours DEF Core
      <3>3. data' \in [Records -> DataBlocks]
        BY <2>4, <3>2, ReleasedFacts DEF DataTypeOK
      <3>4. used_size' \in 0..(SizeMod - 1)
        <4>1. used_size \in Nat /\ size[last] \in Nat
          BY <3>2, ConstantTypes DEF DataTypeOK
        <4> QED BY <2>4, <4>1, ConstantTypes DEF SizeLess
      <3>5. size' \in [Records -> Nat]
        BY <2>4 DEF DataTypeOK
      <3>6. t' \in 0..LRU_POP_ITEM
        BY <2>2, <2>4, ConstantTypes DEF DataTypeOK
      <3> QED BY <2>4, <3>3, <3>4, <3>5, <3>6 DEF DataTypeOK
    <2> QED BY <2>1, <2>3, <2>4
  <1>3. CASE PopReturn \/ PopAgain
    BY <1>3, ConstantTypes DEF PopReturn, PopAgain, DataTypeOK, memory
  <1>4. CASE InsertFound
    <2>1. PICK i \in 1..Len(Chain(req.label)) :
            /\ Finds(valid, req.label, i)
            /\ Add(Chain(req.label)[i],
                   IF size[Chain(req.label)[i]] > 0 THEN Released(Chain(req.label)[i]) ELSE data)
      BY <1>4 DEF InsertFound
    <2>2. pc # "idle"
      BY <1>4 DEF InsertFound, Inserting
    <2>3. Chain(req.label)[i] \in Records
      BY <1>0, <2>1, <2>2, FoundIsValid, RequestType, SlotsAreRecords DEF Core
    <2>4. (IF size[Chain(req.label)[i]] > 0 THEN Released(Chain(req.label)[i]) ELSE data)
            \in [Records -> DataBlocks]
      BY <2>3, ReleasedFacts DEF DataTypeOK
    <2> QED BY <1>0, <2>1, <2>2, <2>3, <2>4, AddKeepsTypes
  <1>5. CASE InsertNew
    <2>1. pc # "idle"
      BY <1>5 DEF InsertNew, Inserting
    <2>2. CASE Len(stack) > 1
      <3>1. Last(stack) \in Records
        BY <1>0, <2>2, TopIsFree, SlotsAreRecords DEF Core
      <3>2. Add(Last(stack), data)
        BY <1>5, <2>2 DEF InsertNew
      <3>3. data \in [Records -> DataBlocks]
        BY DEF DataTypeOK
      <3> QED BY <1>0, <2>1, <3>1, <3>2, <3>3, AddKeepsTypes
    <2>3. CASE ~(Len(stack) > 1)
      <3>1. Fail("exit_no_space") /\ "exit_no_space" \in Faults
        BY <1>5, <2>3 DEF InsertNew, Faults
      <3> QED BY <3>1, FailKeepsTypes
    <2> QED BY <2>2, <2>3
  <1>6. CASE InsertFails \/ \E l \in Labels : GetFails(l)
    <2>1. PICK f \in Faults : Fail(f)
      BY <1>6 DEF InsertFails, GetFails, Faults
    <2> QED BY <2>1, FailKeepsTypes
  <1>7. ASSUME NEW l \in Labels, GetHit(l) PROVE DataTypeOK'
    <2>1. PICK i \in 1..Len(Chain(l)) : Finds(valid, l, i) /\ ret' = data[Chain(l)[i]].ans
      BY <1>7 DEF GetHit
    <2>2. Chain(l)[i] \in Records
      BY <1>0, <2>1, FoundIsValid, SlotsAreRecords DEF Core
    <2>3. ret' \in Seq(Nat)
      BY <2>1, <2>2, BlockFacts DEF DataTypeOK
    <2> QED BY <1>7, <2>3 DEF GetHit, memory, DataTypeOK
  <1>8. ASSUME NEW l \in Labels, GetMiss(l) PROVE DataTypeOK'
    BY <1>8 DEF GetMiss, memory, DataTypeOK
  <1>9. ASSUME NEW l \in Labels, GetExpired(l) PROVE DataTypeOK'
    <2>1. PICK i \in 1..Len(Chain(l)) :
            /\ Finds(valid, l, i)
            /\ \/ Fail("use_after_free")
               \/ /\ used_size' = SizeLess(Cut(Chain(l)[i]).last)
                  /\ data' = Released(Cut(Chain(l)[i]).last)
                  /\ size' = [size EXCEPT ![Cut(Chain(l)[i]).last] = 0]
                  /\ ret' = <<>>
                  /\ UNCHANGED <<now, pc, req, t, fault>>
      BY <1>9 DEF GetExpired
    <2>2. PICK tail \in Records : tail = Cut(Chain(l)[i]).last
      BY <1>0, <2>1, FoundIsValid, TailIsRecord DEF Core
    <2>3. CASE Fail("use_after_free")
      BY <2>3, FailKeepsTypes DEF Faults, WalkFaults
    <2>4. CASE /\ used_size' = SizeLess(tail) /\ data' = Released(tail)
               /\ size' = [size EXCEPT ![tail] = 0]
               /\ ret' = <<>>
               /\ UNCHANGED <<now, pc, req, t, fault>>
      <3>1. data' \in [Records -> DataBlocks]
        BY <2>4, ReleasedFacts DEF DataTypeOK
      <3>2. used_size' \in 0..(SizeMod - 1)
        <4>1. used_size \in Nat /\ size[tail] \in Nat
          BY ConstantTypes DEF DataTypeOK
        <4> QED BY <2>4, <4>1, ConstantTypes DEF SizeLess
      <3>3. size' \in [Records -> Nat]
        BY <2>4 DEF DataTypeOK
      <3>4. ret' \in Seq(Nat)
        BY <2>4
      <3> QED BY <2>4, <3>1, <3>2, <3>3, <3>4 DEF DataTypeOK
    <2> QED BY <2>1, <2>2, <2>3, <2>4
  <1>10. CASE Tick
    BY <1>10, ConstantTypes DEF Tick, memory, DataTypeOK
  <1>11. CASE Stopped \/ UNCHANGED vars
    BY <1>11 DEF Stopped, vars, memory, DataTypeOK
  <1> QED BY <1>1, <1>2, <1>3, <1>4, <1>5, <1>6, <1>7, <1>8, <1>9, <1>10, <1>11
          DEF Next, StoreStep

\* init_cache establishes them.
LEMMA InitTypes == Init => DataTypeOK
  <1> SUFFICES ASSUME Init PROVE DataTypeOK
    OBVIOUS
  <1>1. size \in [Records -> Nat] /\ data \in [Records -> DataBlocks]
    BY DEF Init, DataBlocks
  <1>2. used_size \in 0..(SizeMod - 1) /\ now \in 0..MaxNow /\ t \in 0..LRU_POP_ITEM
    BY ConstantTypes DEF Init
  <1> QED BY <1>1, <1>2 DEF Init, DataTypeOK

\* Every variable of the cache keeps its type: used_size, which wraps, stays
\* a size_t, and no list of answers holds anything but expiry times,
\* whatever the clock does during a store.
THEOREM TypesHold == Spec => []TypeOK
  <1>1. IInv /\ DataTypeOK => TypeOK
    BY DEF IInv, Core, DataTypeOK, TypeOK
  <1>2. Init => IInv /\ DataTypeOK
    BY InitIInv, InitTypes
  <1>3. IInv /\ DataTypeOK /\ [Next]_vars => (IInv /\ DataTypeOK)'
    BY NextIInv, NextTypes
  <1> QED BY <1>1, <1>2, <1>3, PTL DEF Spec

-----------------------------------------------------------------------------
(***************************************************************************)
(* The hash table, when the clock does not move during a store.  Otherwise *)
(* a store may find all its answers expired, and leaves a record in the    *)
(* list and in a chain that has no label of its own.                       *)
(***************************************************************************)
\* The records in use, and IndexMatches in terms of them.
Cached == {r \in Slots : valid[r]}

Index ==
    /\ \A b \in Buckets : \A k \in 1..Len(label_hash[b]) :
        label_hash[b][k] \in Cached /\ Hash[data[label_hash[b][k]].label] = b
    /\ \A r \in Cached : \E k \in 1..Len(Chain(data[r].label)) : Chain(data[r].label)[k] = r
    /\ \A b \in Buckets : \A j, k \in 1..Len(label_hash[b]) :
        label_hash[b][j] = label_hash[b][k] => j = k
    /\ \A r, s \in Cached : data[r].label = data[s].label => r = s

\* Records in use have data, and the head record has none.
Filled ==
    /\ \A r \in Cached : data[r].st # "null"
    /\ data[0] = NullData /\ size[0] = 0

\* The answers of the store in progress expire now or later.
Asking == pc # "idle" =>
    \E a \in Answers : req.ans = [i \in 1..Len(a) |-> now + a[i]]

SInv == Index /\ Filled /\ Asking

\* The records in use are those of the list, each at one place.
LEMMA CachedIsListed ==
    ASSUME Core
    PROVE  /\ lru \in Seq(Slots) /\ Len(lru) \in Nat /\ Len(lru) = length
           /\ \A i \in 1..Len(lru) : lru[i] \in Cached
           /\ \A r \in Cached : \E i \in 1..Len(lru) : lru[i] = r
           /\ \A i, j \in 1..Len(lru) : lru[i] = lru[j] => i = j
  <1>1. lru \in Seq(Slots) /\ Len(lru) = length /\ Len(lru) \in Nat
    BY DEF Core, ListTypeOK, ListMatches
  <1>2. \A r \in 1..MaxLength : valid[r] <=> \E i \in 1..Len(lru) : lru[i] = r
    BY DEF Core, ListMatches
  <1>3. Slots \subseteq 1..MaxLength
    BY MaxLengthType DEF Slots
  <1>4. \A i, j \in 1..Len(lru) : lru[i] = lru[j] => i = j
    BY DEF Core, ListMatches, LinksMatch
  <1>5. \A i \in 1..Len(lru) : lru[i] \in Slots
    BY <1>1
  <1>6. \A i \in 1..Len(lru) : lru[i] \in Cached
    BY <1>2, <1>3, <1>5 DEF Cached
  <1>7. \A r \in Cached : \E i \in 1..Len(lru) : lru[i] = r
    BY <1>2, <1>3 DEF Cached
  <1> QED BY <1>1, <1>4, <1>6, <1>7

LEMMA IndexIsMatched ==
    ASSUME Core, Index
    PROVE  IndexMatches
  <1>1. \A b \in Buckets : \A k \in 1..Len(label_hash[b]) :
            \E i \in 1..Len(lru) : lru[i] = label_hash[b][k] /\ Hash[data[lru[i]].label] = b
    <2> SUFFICES ASSUME NEW b \in Buckets, NEW k \in 1..Len(label_hash[b])
                 PROVE  \E i \in 1..Len(lru) : lru[i] = label_hash[b][k]
                                            /\ Hash[data[lru[i]].label] = b
      OBVIOUS
    <2>1. label_hash[b][k] \in Cached /\ Hash[data[label_hash[b][k]].label] = b
      BY DEF Index
    <2>2. PICK i \in 1..Len(lru) : lru[i] = label_hash[b][k]
      BY <2>1, CachedIsListed
    <2> QED BY <2>1, <2>2
  <1>2. \A i \in 1..Len(lru) :
            \E k \in 1..Len(Chain(data[lru[i]].label)) : Chain(data[lru[i]].label)[k] = lru[i]
    BY CachedIsListed DEF Index
  <1>3. \A i, j \in 1..Len(lru) : data[lru[i]].label = data[lru[j]].label => i = j
    <2> SUFFICES ASSUME NEW i \in 1..Len(lru), NEW j \in 1..Len(lru),
                        data[lru[i]].label = data[lru[j]].label
                 PROVE  i = j
      OBVIOUS
    <2>1. lru[i] \in Cached /\ lru[j] \in Cached
      BY CachedIsListed
    <2>2. lru[i] = lru[j]
      BY <2>1 DEF Index
    <2> QED BY <2>2, CachedIsListed
  <1>4. \A b \in Buckets : \A j, k \in 1..Len(label_hash[b]) :
            label_hash[b][j] = label_hash[b][k] => j = k
    BY DEF Index
  <1> QED BY <1>1, <1>2, <1>3, <1>4 DEF IndexMatches

\* The chain of a label, and what a walk meets there.
LEMMA ChainFacts ==
    ASSUME PoolTypeOK, Index, NEW l \in Labels
    PROVE  /\ Hash[l] \in Buckets /\ Chain(l) = label_hash[Hash[l]]
           /\ Chain(l) \in Seq(Slots)
           /\ \A i \in 1..Len(Chain(l)) : Chain(l)[i] \in Cached
  <1>1. Hash[l] \in Buckets
    BY DEF Buckets
  <1> QED BY <1>1 DEF PoolTypeOK, Chain, Index

\* A walk that finds a record finds the one of its label.
LEMMA FoundIsCached ==
    ASSUME PoolTypeOK, DataTypeOK, Index, NEW l \in Labels, NEW i \in 1..Len(Chain(l)), NEW v,
           Finds(v, l, i)
    PROVE  /\ Chain(l)[i] \in Cached /\ v[Chain(l)[i]]
           /\ data[Chain(l)[i]].label = l /\ data[Chain(l)[i]].st = "live"
  <1>1. Chain(l)[i] \in Cached
    BY ChainFacts
  <1>2. compare(v, Chain(l)[i], l) = "equal"
    BY DEF Finds
  <1>3. data[Chain(l)[i]].st \in {"null", "live", "freed"}
    BY <1>1, SlotsAreRecords, BlockFacts DEF Cached, DataTypeOK
  <1> QED BY <1>1, <1>2, <1>3 DEF compare

\* A walk that finds none shows that the label is not cached.
LEMMA NotFoundIsAbsent ==
    ASSUME PoolTypeOK, DataTypeOK, Index, Filled, NEW l \in Labels, NotFound(valid, l),
           NEW r \in Cached
    PROVE  data[r].label # l
  <1> SUFFICES ASSUME data[r].label = l PROVE FALSE
    OBVIOUS
  <1>1. PICK k \in 1..Len(Chain(l)) : Chain(l)[k] = r
    BY DEF Index
  <1>2. compare(valid, r, l) = "differ"
    BY <1>1 DEF NotFound
  <1>3. valid[r] /\ r \in Records
    BY SlotsAreRecords DEF Cached
  <1>4. data[r].st \in {"live", "freed"}
    BY <1>3, BlockFacts DEF Filled, DataTypeOK
  <1> QED BY <1>2, <1>3, <1>4 DEF compare

\* A walk fails only at a block that was freed under a record in use.
LEMMA WalkFailsWhenFreed ==
    ASSUME PoolTypeOK, DataTypeOK, Index, Filled, NEW l \in Labels,
           NEW f \in WalkFaults, WalkFails(valid, l, f)
    PROVE  \E r \in Cached : data[r].st = "freed"
  <1>1. PICK i \in 1..Len(Chain(l)) : compare(valid, Chain(l)[i], l) = f
    BY DEF WalkFails
  <1>2. PICK r \in Cached : r = Chain(l)[i]
    BY ChainFacts
  <1>3. valid[r] /\ r \in Records
    BY SlotsAreRecords DEF Cached
  <1>4. data[r].st \in {"live", "freed"}
    BY <1>3, BlockFacts DEF Filled, DataTypeOK
  <1>5. compare(valid, r, l) \notin {"equal", "differ"}
    BY <1>1, <1>2 DEF WalkFaults
  <1>6. data[r].st = "freed"
    BY <1>3, <1>4, <1>5 DEF compare
  <1> QED BY <1>6

\* pop_back never gets past its first record: it marks the record invalid,
\* then walks the chain that leads to it.
LEMMA PopFails ==
    ASSUME Core, DataTypeOK, Index, Filled, PopRecord
    PROVE  \E f \in WalkFaults : Fail(f)
  <1>1. length > 0
    BY DEF PopRecord
  <1>2. length \in 1..Len(lru) /\ last = lru[length]
    BY <1>1, CachedIsListed DEF Core, ListMatches
  <1>3. last \in Cached
    BY <1>2, CachedIsListed
  <1>4. last \in Records /\ data[last].label \in Labels
    BY <1>3, SlotsAreRecords, BlockFacts DEF Cached, Filled, DataTypeOK
  <1> DEFINE l == data[last].label
             v == [valid EXCEPT ![last] = FALSE]
  <1>5. ~v[last]
    BY <1>4 DEF Core, ListTypeOK
  <1>6. PICK k \in 1..Len(Chain(l)) : Chain(l)[k] = last
    BY <1>3 DEF Index
  <1>7. compare(v, Chain(l)[k], l) = "exit_invalid_record"
    BY <1>5, <1>6 DEF compare
  <1>8. ~NotFound(v, l)
    BY <1>7 DEF NotFound
  <1>9. ASSUME NEW i \in 1..Len(Chain(l)), Finds(v, l, i) PROVE FALSE
    <2>1. Chain(l)[i] \in Cached /\ v[Chain(l)[i]] /\ data[Chain(l)[i]].label = l
      BY <1>4, <1>9, FoundIsCached DEF Core
    <2>2. Chain(l)[i] = last
      BY <1>3, <2>1 DEF Index
    <2> QED BY <1>5, <2>1, <2>2
  <1>10. \/ Fail("null_deref") \/ Fail("use_after_free")
         \/ NotFound(v, l)
         \/ \E i \in 1..Len(Chain(l)) : Finds(v, l, i)
         \/ \E f \in WalkFaults : Fail(f)
    BY DEF PopRecord
  <1> HIDE DEF l, v
  <1> QED BY <1>8, <1>9, <1>10 DEF WalkFaults

\* A step that touches neither the records in use, their labels nor the chains.
LEMMA IndexSame ==
    ASSUME Index, Cached' = Cached, label_hash' = label_hash,
           \A r \in Cached : data'[r].label = data[r].label
    PROVE  Index'
  <1>1. \A b \in Buckets : \A k \in 1..Len(label_hash[b]) :
            label_hash[b][k] \in Cached /\ Hash[data'[label_hash[b][k]].label] = b
    BY DEF Index
  <1>2. \A r \in Cached : \E k \in 1..Len(label_hash[Hash[data'[r].label]]) :
            label_hash[Hash[data'[r].label]][k] = r
    BY DEF Index, Chain
  <1>3. \A b \in Buckets : \A j, k \in 1..Len(label_hash[b]) :
            label_hash[b][j] = label_hash[b][k] => j = k
    BY DEF Index
  <1>4. \A r, s \in Cached : data'[r].label = data'[s].label => r = s
    BY DEF Index
  <1> QED BY <1>1, <1>2, <1>3, <1>4 DEF Index, Chain

\* set_hashnode for a record that comes into use under a new label.
LEMMA IndexGrows ==
    ASSUME PoolTypeOK, Index, NEW l \in Labels, NEW r \in Slots, r \notin Cached,
           Cached' = Cached \cup {r}, label_hash' = Linked(l, r), data'[r].label = l,
           \A x \in Cached : data'[x].label = data[x].label,
           \A x \in Cached : data[x].label # l,
           \A x \in Cached : data[x].label \in Labels
    PROVE  Index'
  <1> DEFINE old == label_hash[Hash[l]]
             n   == Len(old)
  <1>1. Hash[l] \in Buckets /\ old \in Seq(Slots) /\ n \in Nat
    BY DEF Buckets, PoolTypeOK
  <1>2. \A b \in Buckets : label_hash'[b] = IF b = Hash[l] THEN Append(old, r) ELSE label_hash[b]
    BY <1>1 DEF Linked, PoolTypeOK
  <1>3. /\ Len(Append(old, r)) = n + 1 /\ Append(old, r)[n + 1] = r
        /\ \A k \in 1..n : Append(old, r)[k] = old[k]
    BY <1>1
  <1>4. \A k \in 1..n : old[k] \in Cached /\ Hash[data[old[k]].label] = Hash[l]
    BY <1>1 DEF Index
  <1>5. ASSUME NEW b \in Buckets, NEW k \in 1..Len(label_hash'[b])
        PROVE  label_hash'[b][k] \in Cached' /\ Hash[data'[label_hash'[b][k]].label] = b
    <2>1. CASE b # Hash[l]
      <3>1. label_hash'[b] = label_hash[b]
        BY <1>2, <2>1
      <3>2. label_hash[b][k] \in Cached /\ Hash[data[label_hash[b][k]].label] = b
        BY <1>5, <3>1 DEF Index
      <3> QED BY <3>1, <3>2
    <2>2. CASE b = Hash[l] /\ k \in 1..n
      <3>1. label_hash'[b][k] = old[k]
        BY <1>2, <1>3, <2>2
      <3> QED BY <1>4, <2>2, <3>1
    <2>3. CASE b = Hash[l] /\ k = n + 1
      BY <1>2, <1>3, <2>3
    <2>4. b = Hash[l] => k \in 1..(n + 1)
      BY <1>2, <1>3
    <2> QED BY <1>1, <2>1, <2>2, <2>3, <2>4
  <1>6. ASSUME NEW x \in Cached'
        PROVE  \E k \in 1..Len(label_hash'[Hash[data'[x].label]]) :
                  label_hash'[Hash[data'[x].label]][k] = x
    <2>1. CASE x = r
      <3>1. Hash[data'[x].label] = Hash[l] /\ n + 1 \in 1..(n + 1)
        BY <1>1, <2>1
      <3> QED BY <1>1, <1>2, <1>3, <2>1, <3>1
    <2>2. CASE x \in Cached
      <3>1. PICK k \in 1..Len(label_hash[Hash[data[x].label]]) :
                label_hash[Hash[data[x].label]][k] = x
        BY <2>2 DEF Index, Chain
      <3>2. data'[x].label = data[x].label
        BY <2>2
      <3>3. CASE Hash[data[x].label] = Hash[l]
        <4>1. k \in 1..n /\ old[k] = x
          BY <3>1, <3>3
        <4>2. k \in 1..(n + 1) /\ Append(old, r)[k] = x
          BY <1>1, <1>3, <4>1
        <4>3. Hash[data'[x].label] = Hash[l] /\ label_hash'[Hash[l]] = Append(old, r)
          BY <1>1, <1>2, <3>2, <3>3
        <4> HIDE DEF old, n
        <4> QED BY <1>3, <4>2, <4>3
      <3>4. CASE Hash[data[x].label] # Hash[l]
        <4>1. Hash[data[x].label] \in Buckets
          BY <2>2 DEF Buckets
        <4> QED BY <1>2, <3>1, <3>2, <3>4, <4>1
      <3> QED BY <3>3, <3>4
    <2> QED BY <2>1, <2>2
  <1>7. ASSUME NEW b \in Buckets, NEW j \in 1..Len(label_hash'[b]), NEW k \in 1..Len(label_hash'[b]),
               label_hash'[b][j] = label_hash'[b][k]
        PROVE  j = k
    <2>1. CASE b # Hash[l]
      BY <1>2, <1>7, <2>1 DEF Index
    <2>2. CASE b = Hash[l]
      <3>1. j \in 1..(n + 1) /\ k \in 1..(n + 1) /\ Append(old, r)[j] = Append(old, r)[k]
        BY <1>2, <1>3, <1>7, <2>2
      <3>2. \A i \in 1..n : Append(old, r)[i] # r
        BY <1>3, <1>4
      <3>3. \A i, m \in 1..n : old[i] = old[m] => i = m
        BY <1>1 DEF Index
      <3> HIDE DEF old, n
      <3> QED BY <1>1, <1>3, <3>1, <3>2, <3>3
    <2> QED BY <2>1, <2>2
  <1>8. \A x, y \in Cached' : data'[x].label = data'[y].label => x = y
    BY DEF Index
  <1> HIDE DEF old, n
  <1> QED BY <1>5, <1>6, <1>7, <1>8 DEF Index, Chain

\* reset_hash_node for a record that goes out of use.
LEMMA IndexShrinks ==
    ASSUME PoolTypeOK, Index, NEW l \in Labels, NEW i \in 1..Len(Chain(l)), NEW r,
           r = Chain(l)[i], data[r].label = l,
           Cached' = Cached \ {r}, label_hash' = Unlinked(l, i),
           \A x \in Cached : data'[x].label = data[x].label,
           \A x \in Cached : data[x].label \in Labels
    PROVE  Index'
  <1> DEFINE old == label_hash[Hash[l]]
             n   == Len(old)
             new == RemoveAt(old, i)
  <1>1. Hash[l] \in Buckets /\ old \in Seq(Slots) /\ n \in Nat /\ i \in 1..n /\ old[i] = r
    BY DEF Buckets, PoolTypeOK, Chain
  <1>2. \A b \in Buckets : label_hash'[b] = IF b = Hash[l] THEN new ELSE label_hash[b]
    BY <1>1 DEF Unlinked, PoolTypeOK
  <1>3. /\ new \in Seq(Slots) /\ Len(new) = n - 1
        /\ \A k \in 1..(n - 1) : new[k] = IF k < i THEN old[k] ELSE old[k + 1]
    <2> HIDE DEF old
    <2> QED BY <1>1, RemoveAtFacts
  <1>4. /\ \A k \in 1..n : old[k] \in Cached /\ Hash[data[old[k]].label] = Hash[l]
        /\ \A j, k \in 1..n : old[j] = old[k] => j = k
    BY <1>1 DEF Index
  <1> HIDE DEF old, n, new
  <1>5. ASSUME NEW k \in 1..(n - 1)
        PROVE  /\ new[k] \in Cached \ {r} /\ Hash[data'[new[k]].label] = Hash[l]
    <2>1. PICK m \in 1..n : m # i /\ new[k] = old[m]
      <3>1. k \in 1..n /\ k + 1 \in 1..n
        BY <1>1
      <3>2. CASE k < i
        BY <1>1, <1>3, <3>1, <3>2
      <3>3. CASE ~(k < i)
        BY <1>1, <1>3, <3>1, <3>3
      <3> QED BY <3>2, <3>3
    <2>2. old[m] \in Cached /\ old[m] # r /\ Hash[data[old[m]].label] = Hash[l]
      BY <1>1, <1>4, <2>1
    <2> QED BY <2>1, <2>2
  <1>6. \A j, k \in 1..(n - 1) : new[j] = new[k] => j = k
    BY <1>1, <1>3, <1>4
  <1>7. ASSUME NEW b \in Buckets, NEW k \in 1..Len(label_hash'[b])
        PROVE  label_hash'[b][k] \in Cached' /\ Hash[data'[label_hash'[b][k]].label] = b
    <2>1. CASE b # Hash[l]
      <3>1. label_hash'[b] = label_hash[b]
        BY <1>2, <2>1
      <3>2. label_hash[b][k] \in Cached /\ Hash[data[label_hash[b][k]].label] = b
        BY <1>7, <3>1 DEF Index
      <3>3. label_hash[b][k] # r
        BY <2>1, <3>2
      <3> QED BY <3>1, <3>2, <3>3
    <2>2. CASE b = Hash[l]
      <3>1. label_hash'[b] = new /\ k \in 1..(n - 1)
        BY <1>2, <1>3, <2>2
      <3> QED BY <1>5, <2>2, <3>1
    <2> QED BY <2>1, <2>2
  <1>8. ASSUME NEW x \in Cached'
        PROVE  \E k \in 1..Len(label_hash'[Hash[data'[x].label]]) :
                  label_hash'[Hash[data'[x].label]][k] = x
    <2>1. x \in Cached /\ x # r /\ data'[x].label = data[x].label
      OBVIOUS
    <2>2. PICK k \in 1..Len(label_hash[Hash[data[x].label]]) :
              label_hash[Hash[data[x].label]][k] = x
      BY <2>1 DEF Index, Chain
    <2>3. CASE Hash[data[x].label] = Hash[l]
      <3>1. k \in 1..n /\ old[k] = x /\ k # i
        BY <1>1, <2>1, <2>2, <2>3 DEF old, n
      <3>2. PICK m \in 1..(n - 1) : new[m] = x
        <4>1. CASE k < i
          <5>1. k \in 1..(n - 1)
            BY <1>1, <3>1, <4>1
          <5> QED BY <1>3, <3>1, <4>1, <5>1
        <4>2. CASE k > i
          <5>1. k - 1 \in 1..(n - 1) /\ ~(k - 1 < i) /\ (k - 1) + 1 = k
            BY <1>1, <3>1, <4>2
          <5>2. new[k - 1] = old[(k - 1) + 1]
            BY <1>3, <5>1
          <5> QED BY <3>1, <5>1, <5>2
        <4> QED BY <1>1, <3>1, <4>1, <4>2
      <3> QED BY <1>1, <1>2, <1>3, <2>1, <2>3, <3>2
    <2>4. CASE Hash[data[x].label] # Hash[l]
      <3>1. Hash[data[x].label] \in Buckets
        BY <2>1 DEF Buckets
      <3> QED BY <1>2, <2>1, <2>2, <2>4, <3>1
    <2> QED BY <2>3, <2>4
  <1>9. ASSUME NEW b \in Buckets, NEW j \in 1..Len(label_hash'[b]), NEW k \in 1..Len(label_hash'[b]),
               label_hash'[b][j] = label_hash'[b][k]
        PROVE  j = k
    <2>1. CASE b # Hash[l]
      BY <1>2, <1>9, <2>1 DEF Index
    <2>2. CASE b = Hash[l]
      BY <1>2, <1>3, <1>6, <1>9, <2>2
    <2> QED BY <2>1, <2>2
  <1>10. \A x, y \in Cached' : data'[x].label = data'[y].label => x = y
    BY DEF Index
  <1> QED BY <1>7, <1>8, <1>9, <1>10 DEF Index, Chain

\* Records in use belong to labels.
LEMMA CachedFacts ==
    ASSUME DataTypeOK, Filled
    PROVE  \A r \in Cached : /\ r \in Slots /\ r \in Records /\ r # 0 /\ valid[r]
                             /\ data[r].label \in Labels
                             /\ data[r].st \in {"live", "freed"}
  BY SlotsAreRecords, BlockFacts DEF Cached, Filled, DataTypeOK

\* A position comes into use, or goes out of it.
LEMMA CachedGrows ==
    ASSUME Core, NEW r \in Slots, valid' = [valid EXCEPT ![r] = TRUE]
    PROVE  Cached' = Cached \cup {r}
  <1>1. \A x \in Slots : valid'[x] = IF x = r THEN TRUE ELSE valid[x]
    BY SlotsAreRecords DEF Core, ListTypeOK
  <1> QED BY <1>1 DEF Cached

LEMMA CachedShrinks ==
    ASSUME Core, NEW r \in Cached, valid' = [valid EXCEPT ![r] = FALSE]
    PROVE  Cached' = Cached \ {r}
  <1>1. \A x \in Slots : valid'[x] = IF x = r THEN FALSE ELSE valid[x]
    BY SlotsAreRecords DEF Core, ListTypeOK, Cached
  <1> QED BY <1>1 DEF Cached

\* The store in progress has answers to store.
LEMMA AskedIsNotEmpty ==
    ASSUME Asking, pc # "idle"
    PROVE  req.ans # <<>>
  <1>1. PICK a \in Answers : req.ans = [i \in 1..Len(a) |-> now + a[i]]
    BY DEF Asking
  <1>2. a \in Seq(Nat) /\ a # <<>>
    BY ConstantTypes
  <1>3. Len(a) \in Nat /\ Len(a) # 0
    BY <1>2
  <1> QED BY <1>1, <1>3

\* All the answers of a store are kept when the clock stood still.
LEMMA AddStoresAll ==
    ASSUME DataTypeOK, Requesting, Asking, pc # "idle", NEW r \in Records,
           NEW d \in [Records -> DataBlocks], Add(r, d)
    PROVE  /\ \A x \in Records : data'[x] = IF x = r THEN LiveData(req.label, req.ans) ELSE d[x]
           /\ \A x \in Records : x # r => size'[x] = size[x]
  <1>1. PICK a \in Answers : req.ans = [i \in 1..Len(a) |-> now + a[i]]
    BY DEF Asking
  <1>2. a \in Seq(Nat) /\ a # <<>> /\ now \in Nat /\ req.ans \in Seq(Nat)
    BY ConstantTypes, RequestType
  <1>3. Len(a) \in Nat /\ Len(a) # 0 /\ Len(req.ans) = Len(a)
    BY <1>1, <1>2
  <1>4. \A i \in 1..Len(req.ans) : now <= req.ans[i]
    BY <1>1, <1>2, <1>3
  <1>5. Fresh = req.ans /\ req.ans # <<>>
    BY <1>2, <1>3, <1>4, FreshIsAll
  <1>6. data' = [d EXCEPT ![r] = LiveData(req.label, req.ans)]
    BY <1>5 DEF Add
  <1>7. \A x \in Records : x # r => size'[x] = size[x]
    BY DEF Add, DataTypeOK
  <1> QED BY <1>5, <1>6, <1>7

\* What a store of a cached label does.
LEMMA FoundEffect ==
    ASSUME IInv, DataTypeOK, SInv, InsertFound
    PROVE  \E r \in Cached :
             /\ data[r].label = req.label /\ data[r].st = "live"
             /\ \A x \in Records : data'[x] = IF x = r THEN LiveData(req.label, req.ans)
                                                      ELSE data[x]
             /\ size'[0] = size[0]
             /\ IF r = first THEN UNCHANGED list ELSE MoveToFront(r) /\ UNCHANGED length
             /\ UNCHANGED <<valid, label_hash, used_size, now, ret, fault>>
             /\ pc' = "idle" /\ fault = "none" /\ pc = "space"
  <1>1. pc = "space" /\ fault = "none"
    BY DEF InsertFound, Inserting, Running
  <1>2. req.label \in Labels
    BY <1>1, RequestType DEF IInv
  <1>3. PICK i \in 1..Len(Chain(req.label)) :
            /\ Finds(valid, req.label, i)
            /\ IF Chain(req.label)[i] = first
               THEN UNCHANGED list ELSE MoveToFront(Chain(req.label)[i]) /\ UNCHANGED length
            /\ Add(Chain(req.label)[i],
                   IF size[Chain(req.label)[i]] > 0 THEN Released(Chain(req.label)[i]) ELSE data)
            /\ UNCHANGED <<valid, stack, label_hash>>
    BY DEF InsertFound
  <1>4. PICK r \in Cached : r = Chain(req.label)[i] /\ data[r].label = req.label
                                                    /\ data[r].st = "live"
    BY <1>2, <1>3, FoundIsCached DEF IInv, Core, SInv
  <1>5. r \in Records /\ r # 0 /\ 0 \in Records
    BY CachedFacts, SlotsAreRecords DEF SInv
  <1>6. PICK d \in [Records -> DataBlocks] :
            /\ d = IF size[r] > 0 THEN Released(r) ELSE data
            /\ \A x \in Records : x # r => d[x] = data[x]
    BY <1>5, ReleasedFacts DEF DataTypeOK
  <1>7. Add(r, d)
    BY <1>3, <1>4, <1>6
  <1>8. /\ \A x \in Records : data'[x] = IF x = r THEN LiveData(req.label, req.ans) ELSE d[x]
        /\ size'[0] = size[0]
    BY <1>1, <1>5, <1>7, AddStoresAll DEF IInv, SInv
  <1>9. UNCHANGED <<used_size, now, ret, fault>> /\ pc' = "idle"
    BY <1>7 DEF Add
  <1> QED BY <1>1, <1>3, <1>4, <1>6, <1>8, <1>9

\* What a store of a label that is not cached does.
LEMMA NewEffect ==
    ASSUME IInv, DataTypeOK, SInv, InsertNew, Len(stack) > 1
    PROVE  \E r \in Slots :
             /\ r \notin Cached /\ req.label \in Labels
             /\ \A x \in Cached : data[x].label # req.label
             /\ \A x \in Records : data'[x] = IF x = r THEN LiveData(req.label, req.ans)
                                                      ELSE data[x]
             /\ size'[0] = size[0]
             /\ PushFront(r)
             /\ label_hash' = Linked(req.label, r)
             /\ valid' = [valid EXCEPT ![r] = TRUE]
             /\ UNCHANGED <<used_size, now, ret, fault>>
             /\ pc' = "idle" /\ fault = "none" /\ pc = "space"
  <1>1. pc = "space" /\ fault = "none"
    BY DEF InsertNew, Inserting, Running
  <1>2. req.label \in Labels
    BY <1>1, RequestType DEF IInv
  <1>3. PICK r \in Slots : r = Last(stack) /\ \A i \in 1..Len(lru) : lru[i] # r
    BY TopIsFree DEF IInv, Core
  <1>4. r \notin Cached
    BY <1>3, CachedIsListed DEF IInv
  <1>5. /\ label_hash' = Linked(req.label, r) /\ valid' = [valid EXCEPT ![r] = TRUE]
        /\ PushFront(r) /\ Add(r, data) /\ NotFound(valid, req.label)
    BY <1>3 DEF InsertNew
  <1>6. \A x \in Cached : data[x].label # req.label
    BY <1>2, <1>5, NotFoundIsAbsent DEF IInv, Core, SInv
  <1>7. r \in Records /\ r # 0 /\ 0 \in Records /\ data \in [Records -> DataBlocks]
    BY SlotsAreRecords DEF DataTypeOK
  <1>8. /\ \A x \in Records : data'[x] = IF x = r THEN LiveData(req.label, req.ans) ELSE data[x]
        /\ size'[0] = size[0]
    BY <1>1, <1>5, <1>7, AddStoresAll DEF IInv, SInv
  <1>9. UNCHANGED <<used_size, now, ret, fault>> /\ pc' = "idle"
    BY <1>5 DEF Add
  <1> QED BY <1>1, <1>2, <1>4, <1>5, <1>6, <1>8, <1>9

\* The record whose block remove_record frees is another one in use, if any.
LEMMA TailFacts ==
    ASSUME Core, NEW r \in Cached
    PROVE  /\ Cut(r).last \in Records /\ Cut(r).last # r
           /\ IF length = 1 THEN Cut(r).last = 0 ELSE Cut(r).last \in Cached
  <1>1. PICK p \in 1..Len(lru) : lru[p] = r
    BY CachedIsListed
  <1>2. p \in 1..length /\ length \in Nat /\ length > 0 /\ length \in 1..Len(lru)
    BY <1>1, CachedIsListed
  <1>3. /\ rlast[r] = IF p > 1 THEN lru[p - 1] ELSE 0
        /\ p = length <=> r = last
        /\ p < length => rnext[r] > 0
        /\ r > 0
    BY <1>1, <1>2, Neighbours DEF Core
  <1>4. last = lru[length] /\ last \in Cached
    BY <1>2, CachedIsListed DEF Core, ListMatches
  <1>5. CASE r = last
    <2>1. Cut(r).last = rlast[r]
      BY <1>5 DEF Cut
    <2>2. CASE p = 1
      BY <1>2, <1>3, <1>5, <2>1, <2>2, SlotsAreRecords
    <2>3. CASE p > 1
      <3>1. p - 1 \in 1..Len(lru) /\ p - 1 # p /\ length # 1
        BY <1>2, <1>3, <1>5, <2>3
      <3>2. lru[p - 1] \in Cached /\ lru[p - 1] # r
        BY <1>1, <3>1, CachedIsListed
      <3> QED BY <1>3, <2>1, <2>3, <3>1, <3>2, SlotsAreRecords DEF Cached
    <2> QED BY <1>2, <2>2, <2>3
  <1>6. CASE r # last
    <2>1. p < length /\ length # 1
      BY <1>2, <1>3, <1>6
    <2>2. Cut(r).last = last
      BY <1>3, <1>6, <2>1 DEF Cut, linklist_remove_node
    <2> QED BY <1>4, <1>6, <2>1, <2>2, SlotsAreRecords DEF Cached
  <1> QED BY <1>5, <1>6

\* What a lookup of an expired record does.
LEMMA ExpiredEffect ==
    ASSUME IInv, DataTypeOK, SInv, NEW l \in Labels, GetExpired(l)
    PROVE  \E i \in 1..Len(Chain(l)) : \E r \in Cached, tail \in Records :
             /\ r = Chain(l)[i] /\ data[r].label = l /\ data[r].st = "live"
             /\ Expired(r) /\ fault = "none" /\ pc = "idle"
             /\ tail # r /\ IF length = 1 THEN tail = 0 ELSE tail \in Cached
             /\ \/ data[tail].st = "freed" /\ Fail("use_after_free")
                \/ /\ data' = Released(tail) /\ size' = [size EXCEPT ![tail] = 0]
                   /\ label_hash' = Unlinked(l, i) /\ used_size' = SizeLess(tail)
                   /\ valid' = [valid EXCEPT ![r] = FALSE]
                   /\ lru' = Without(lru, r) /\ ret' = <<>>
                   /\ UNCHANGED <<now, pc, req, t, fault>>
  <1>1. fault = "none" /\ pc = "idle"
    BY DEF GetExpired, Idle, Running
  <1>2. PICK i \in 1..Len(Chain(l)) :
            /\ Finds(valid, l, i) /\ Expired(Chain(l)[i])
            /\ \/ data[Cut(Chain(l)[i]).last].st = "freed" /\ Fail("use_after_free")
               \/ /\ data' = Released(Cut(Chain(l)[i]).last)
                  /\ size' = [size EXCEPT ![Cut(Chain(l)[i]).last] = 0]
                  /\ label_hash' = Unlinked(l, i)
                  /\ used_size' = SizeLess(Cut(Chain(l)[i]).last)
                  /\ valid' = [valid EXCEPT ![Chain(l)[i]] = FALSE]
                  /\ lru' = Without(lru, Chain(l)[i]) /\ ret' = <<>>
                  /\ UNCHANGED <<now, pc, req, t, fault>>
    BY DEF GetExpired
  <1>3. PICK r \in Cached : r = Chain(l)[i] /\ data[r].label = l /\ data[r].st = "live"
    BY <1>2, FoundIsCached DEF IInv, Core, SInv
  <1>4. PICK tail \in Records :
            /\ tail = Cut(r).last /\ tail # r
            /\ IF length = 1 THEN tail = 0 ELSE tail \in Cached
    BY TailFacts DEF IInv
  <1> QED BY <1>1, <1>2, <1>3, <1>4

\* What SInv is about.
LEMMA SInvSame ==
    ASSUME SInv, UNCHANGED <<valid, data, size, label_hash, now, pc, req>>
    PROVE  SInv'
  <1>1. Cached' = Cached
    BY DEF Cached
  <1>2. Index'
    BY <1>1, IndexSame DEF SInv
  <1> QED BY <1>1, <1>2 DEF SInv, Filled, Asking

\* init_cache establishes it.
LEMMA InitSInv == Init => SInv
  <1> SUFFICES ASSUME Init PROVE SInv
    OBVIOUS
  <1>1. Cached = {}
    <2>1. \A r \in Slots : r \in Records /\ r # 0
      BY SlotsAreRecords
    <2> QED BY <2>1 DEF Init, Cached, LRU_BUFFER_HEAD_POINT
  <1>2. \A b \in Buckets : label_hash[b] = <<>> /\ Len(label_hash[b]) = 0
    BY DEF Init
  <1>3. Index
    BY <1>1, <1>2 DEF Index
  <1>4. Filled
    BY <1>1, SlotsAreRecords DEF Init, Filled
  <1> QED BY <1>3, <1>4 DEF SInv, Asking, Init

\* Every step preserves it.
LEMMA NextSInv ==
    ASSUME SameSecond
    PROVE  IInv /\ DataTypeOK /\ SInv /\ [Next]_vars => SInv'
  <1> SUFFICES ASSUME IInv, DataTypeOK, SInv, [Next]_vars PROVE SInv'
    OBVIOUS
  <1>0. Core /\ PoolTypeOK /\ Requesting /\ Index /\ Filled
    BY DEF IInv, Core, SInv
  <1>1. \A x \in Cached : x \in Records /\ x # 0 /\ data[x].label \in Labels
                       /\ data[x].st \in {"live", "freed"}
    BY <1>0, CachedFacts
  <1>2. ASSUME NEW f, Fail(f) PROVE SInv'
    BY <1>2, SInvSame DEF Fail, memory
  <1>3. ASSUME NEW l \in Labels, NEW a \in Answers, NEW api \in Apis, SetCall(l, a, api)
        PROVE  SInv'
    <2>1. UNCHANGED <<valid, data, size, label_hash, now>>
      BY <1>3 DEF SetCall, memory
    <2>2. Cached' = Cached
      BY <2>1 DEF Cached
    <2>3. Index' /\ Filled'
      BY <1>0, <2>1, <2>2, IndexSame DEF Filled
    <2>4. Asking'
      BY <1>3, <2>1 DEF SetCall, Asking
    <2> QED BY <2>3, <2>4 DEF SInv
  <1>4. CASE PopRecord
    BY <1>0, <1>2, <1>4, PopFails
  <1>5. CASE PopReturn \/ PopAgain
    <2>1. UNCHANGED <<valid, data, size, label_hash, now, req>> /\ pc # "idle"
      BY <1>5 DEF PopReturn, PopAgain, memory
    <2>2. Cached' = Cached
      BY <2>1 DEF Cached
    <2>3. Index' /\ Filled'
      BY <1>0, <2>1, <2>2, IndexSame DEF Filled
    <2> QED BY <2>1, <2>3 DEF SInv, Asking
  <1>6. CASE InsertFound
    <2>1. PICK r \in Cached :
             /\ data[r].label = req.label /\ data[r].st = "live"
             /\ \A x \in Records : data'[x] = IF x = r THEN LiveData(req.label, req.ans)
                                                      ELSE data[x]
             /\ size'[0] = size[0]
             /\ UNCHANGED <<valid, label_hash>>
             /\ pc' = "idle"
      BY <1>6, FoundEffect
    <2>2. Cached' = Cached
      BY <2>1 DEF Cached
    <2>3. \A x \in Cached : data'[x].label = data[x].label /\ data'[x].st # "null"
      BY <1>1, <2>1 DEF LiveData
    <2>4. Index'
      BY <1>0, <2>1, <2>2, <2>3, IndexSame
    <2>5. data'[0] = data[0]
      BY <1>1, <2>1, SlotsAreRecords
    <2> QED BY <1>0, <2>1, <2>2, <2>3, <2>4, <2>5 DEF SInv, Filled, Asking
  <1>7. CASE InsertNew
    <2>1. CASE Len(stack) > 1
      <3>1. PICK r \in Slots :
             /\ r \notin Cached /\ req.label \in Labels
             /\ \A x \in Cached : data[x].label # req.label
             /\ \A x \in Records : data'[x] = IF x = r THEN LiveData(req.label, req.ans)
                                                      ELSE data[x]
             /\ size'[0] = size[0]
             /\ label_hash' = Linked(req.label, r)
             /\ valid' = [valid EXCEPT ![r] = TRUE]
             /\ pc' = "idle"
        BY <1>7, <2>1, NewEffect
      <3>2. Cached' = Cached \cup {r}
        BY <1>0, <3>1, CachedGrows
      <3>3. r \in Records /\ r # 0 /\ 0 \in Records
        BY SlotsAreRecords
      <3>4. \A x \in Cached : data'[x] = data[x]
        BY <1>1, <3>1
      <3>5. data'[r].label = req.label /\ data'[r].st = "live"
        BY <3>1, <3>3 DEF LiveData
      <3>6. Index'
        BY <1>0, <1>1, <3>1, <3>2, <3>4, <3>5, IndexGrows
      <3>7. data'[0] = data[0]
        BY <3>1, <3>3
      <3>8. Filled'
        BY <1>0, <3>1, <3>2, <3>4, <3>5, <3>7 DEF Filled
      <3> QED BY <3>1, <3>6, <3>8 DEF SInv, Asking
    <2>2. CASE ~(Len(stack) > 1)
      BY <1>2, <1>7, <2>2 DEF InsertNew
    <2> QED BY <2>1, <2>2
  <1>8. CASE InsertFails \/ \E l \in Labels : GetFails(l)
    BY <1>2, <1>8 DEF InsertFails, GetFails
  <1>9. CASE \E l \in Labels : GetHit(l) \/ GetMiss(l)
    <2>1. UNCHANGED <<valid, data, size, label_hash, now, pc, req>>
      BY <1>9 DEF GetHit, GetMiss, memory
    <2> QED BY <2>1, SInvSame
  <1>10. ASSUME NEW l \in Labels, GetExpired(l) PROVE SInv'
    <2>1. PICK i \in 1..Len(Chain(l)) : \E r \in Cached, tail \in Records :
             /\ r = Chain(l)[i] /\ data[r].label = l
             /\ IF length = 1 THEN tail = 0 ELSE tail \in Cached
             /\ pc = "idle"
             /\ \/ Fail("use_after_free")
                \/ /\ data' = Released(tail) /\ size' = [size EXCEPT ![tail] = 0]
                   /\ label_hash' = Unlinked(l, i)
                   /\ valid' = [valid EXCEPT ![r] = FALSE]
                   /\ UNCHANGED pc
      BY <1>10, ExpiredEffect
    <2>2. PICK r \in Cached, tail \in Records :
             /\ r = Chain(l)[i] /\ data[r].label = l
             /\ tail = 0 \/ tail \in Cached
             /\ pc = "idle"
             /\ \/ Fail("use_after_free")
                \/ /\ data' = Released(tail) /\ size' = [size EXCEPT ![tail] = 0]
                   /\ label_hash' = Unlinked(l, i)
                   /\ valid' = [valid EXCEPT ![r] = FALSE]
                   /\ UNCHANGED pc
      BY <2>1
    <2>3. CASE /\ data' = Released(tail) /\ size' = [size EXCEPT ![tail] = 0]
               /\ label_hash' = Unlinked(l, i)
               /\ valid' = [valid EXCEPT ![r] = FALSE]
               /\ UNCHANGED pc
      <3>1. Cached' = Cached \ {r}
        BY <1>0, <2>3, CachedShrinks
      <3>2. data \in [Records -> DataBlocks] /\ size \in [Records -> Nat] /\ 0 \in Records
        BY SlotsAreRecords DEF DataTypeOK
      <3>3. /\ \A x \in Records : data'[x].label = data[x].label
            /\ \A x \in Records : x # tail => data'[x] = data[x]
            /\ data'[tail].st = IF data[tail].st = "null" THEN "null" ELSE "freed"
        BY <2>3, <3>2, ReleasedFacts
      <3>4. Index'
        BY <1>0, <1>1, <2>2, <2>3, <3>1, <3>3, IndexShrinks
      <3>5. \A x \in Cached' : data'[x].st # "null"
        BY <1>1, <3>1, <3>3
      <3>6. size'[0] = 0
        BY <1>0, <2>3, <3>2 DEF Filled
      <3>7. data'[0] = NullData
        <4>1. CASE tail = 0
          <5>1. data[tail].st = "null"
            BY <1>0, <4>1 DEF Filled, NullData
          <5> QED BY <1>0, <2>3, <5>1 DEF Released, Filled
        <4>2. CASE tail # 0
          BY <1>0, <3>2, <3>3, <4>2 DEF Filled
        <4> QED BY <4>1, <4>2
      <3> QED BY <2>2, <2>3, <3>4, <3>5, <3>6, <3>7 DEF SInv, Filled, Asking
    <2> QED BY <1>2, <2>2, <2>3
  <1>11. CASE Tick
    <2>1. UNCHANGED <<valid, data, size, label_hash, pc>> /\ pc = "idle"
      BY <1>11 DEF Tick, memory
    <2>2. Cached' = Cached
      BY <2>1 DEF Cached
    <2>3. Index' /\ Filled'
      BY <1>0, <2>1, <2>2, IndexSame DEF Filled
    <2> QED BY <2>1, <2>3 DEF SInv, Asking
  <1>12. CASE Stopped \/ UNCHANGED vars
    BY <1>12, SInvSame DEF Stopped, vars, memory
  <1> QED BY <1>3, <1>4, <1>5, <1>6, <1>7, <1>8, <1>9, <1>10, <1>11, <1>12
          DEF Next, StoreStep

\* The hash table indexes exactly the list: set_hashnode, reset_hash_node and
\* the list are never out of step, in caches of any size and with any hash
\* function, as long as the clock does not pass an expiry time between the
\* caller's reading of it and the store's.
THEOREM IndexIsSound == SameSecond => (Spec => []IndexMatches)
  <1> SUFFICES ASSUME SameSecond PROVE Spec => []IndexMatches
    OBVIOUS
  <1>1. IInv /\ SInv => IndexMatches
    BY IndexIsMatched DEF IInv, SInv
  <1>2. Init => IInv /\ DataTypeOK /\ SInv
    BY InitIInv, InitTypes, InitSInv
  <1>3. IInv /\ DataTypeOK /\ SInv /\ [Next]_vars => (IInv /\ DataTypeOK /\ SInv)'
    BY NextIInv, NextTypes, NextSInv
  <1> QED BY <1>1, <1>2, <1>3, PTL DEF Spec

-----------------------------------------------------------------------------
(***************************************************************************)
(* The refinement of RecordStore: what else holds of the memory.           *)
(***************************************************************************)
\* A record in use has lost its block.
Broken == \E r \in Cached : data[r].st = "freed"

\* Records in use hold answers; used_size leaves 0 only when a block is freed
\* under a record in use; and pop_back runs only in a full or broken cache.
RInv ==
    /\ \A r \in Cached : data[r].ans # <<>>
    /\ used_size # 0 => Broken
    /\ pc = "pop" => Broken \/ length = MaxLength - 1

\* Memory is short only when used_size has wrapped.
LEMMA NeedsSpaceMeansBroken ==
    ASSUME DataTypeOK, RInv, Reserve <= MaxSize, NeedsSpace
    PROVE  Broken
  <1>1. used_size \in Nat /\ Reserve \in Nat /\ MaxSize \in Nat /\ SizeMod \in Nat
        /\ MaxSize + Reserve < SizeMod
    BY ConstantTypes DEF DataTypeOK
  <1>2. used_size # 0
    <2> SUFFICES ASSUME used_size = 0 PROVE FALSE
      OBVIOUS
    <2>1. (0 + Reserve) % SizeMod = Reserve
      BY <1>1
    <2> QED BY <1>1, <2>1 DEF NeedsSpace
  <1> QED BY <1>2 DEF RInv

\* What RInv is about.
LEMMA RInvSame ==
    ASSUME RInv, UNCHANGED <<valid, data, used_size, length, pc>>
    PROVE  RInv'
  <1>1. Cached' = Cached
    BY DEF Cached
  <1> QED BY <1>1 DEF RInv, Broken

LEMMA InitRInv == Init => RInv
  <1> SUFFICES ASSUME Init PROVE RInv
    OBVIOUS
  <1>1. Cached = {}
    <2>1. \A r \in Slots : r \in Records /\ r # 0
      BY SlotsAreRecords
    <2> QED BY <2>1 DEF Init, Cached, LRU_BUFFER_HEAD_POINT
  <1> QED BY <1>1 DEF Init, RInv

\* Every step preserves it.
LEMMA NextRInv ==
    ASSUME Reserve <= MaxSize
    PROVE  IInv /\ DataTypeOK /\ SInv /\ RInv /\ [Next]_vars => RInv'
  <1> SUFFICES ASSUME IInv, DataTypeOK, SInv, RInv, [Next]_vars PROVE RInv'
    OBVIOUS
  <1>0. Core /\ PoolTypeOK /\ Requesting /\ Index /\ Filled /\ length < MaxLength
        /\ length \in Nat
    BY DEF IInv, Core, SInv, SlotAccounting, ListTypeOK
  <1>1. \A x \in Cached : x \in Records /\ x # 0 /\ data[x].st \in {"live", "freed"}
    BY <1>0, CachedFacts
  <1>2. ASSUME NEW f, Fail(f) PROVE RInv'
    BY <1>2, RInvSame DEF Fail, memory, list
  <1>3. ASSUME NEW l \in Labels, NEW a \in Answers, NEW api \in Apis, SetCall(l, a, api)
        PROVE  RInv'
    <2>1. UNCHANGED <<valid, data, used_size, length>>
      BY <1>3 DEF SetCall, memory, list
    <2>2. Cached' = Cached
      BY <2>1 DEF Cached
    <2>3. pc' = "pop" => length >= MaxLength - 1
      BY <1>3 DEF SetCall, is_full
    <2>4. pc' = "pop" => length = MaxLength - 1
      BY <1>0, <2>3, MaxLengthType
    <2> QED BY <2>1, <2>2, <2>4 DEF RInv, Broken
  <1>4. CASE PopRecord
    BY <1>0, <1>2, <1>4, PopFails
  <1>5. CASE PopReturn
    <2>1. UNCHANGED <<valid, data, used_size, length>> /\ pc' = "space"
      BY <1>5 DEF PopReturn, memory, list
    <2>2. Cached' = Cached
      BY <2>1 DEF Cached
    <2> QED BY <2>1, <2>2 DEF RInv, Broken
  <1>6. CASE PopAgain
    <2>1. UNCHANGED <<valid, data, used_size, length>> /\ NeedsSpace
      BY <1>6 DEF PopAgain, memory, list
    <2>2. Cached' = Cached
      BY <2>1 DEF Cached
    <2>3. Broken
      BY <2>1, NeedsSpaceMeansBroken
    <2> QED BY <2>1, <2>2, <2>3 DEF RInv, Broken
  <1>7. CASE InsertFound
    <2>0. pc # "idle"
      BY <1>7 DEF InsertFound, Inserting
    <2>1. PICK r \in Cached :
             /\ data[r].st = "live"
             /\ \A x \in Records : data'[x] = IF x = r THEN LiveData(req.label, req.ans)
                                                      ELSE data[x]
             /\ UNCHANGED <<valid, used_size>>
             /\ pc' = "idle"
      BY <1>7, FoundEffect
    <2>2. Cached' = Cached
      BY <2>1 DEF Cached
    <2>3. req.ans # <<>>
      BY <2>0, AskedIsNotEmpty DEF SInv
    <2>4. \A x \in Cached : data'[x].ans # <<>>
      BY <1>1, <2>1, <2>3 DEF LiveData, RInv
    <2>5. Broken => Broken'
      BY <1>1, <2>1, <2>2 DEF Broken
    <2> QED BY <2>1, <2>2, <2>4, <2>5 DEF RInv
  <1>8. CASE InsertNew
    <2>1. CASE Len(stack) > 1
      <3>0. pc # "idle"
        BY <1>8 DEF InsertNew, Inserting
      <3>1. PICK r \in Slots :
             /\ r \notin Cached
             /\ \A x \in Records : data'[x] = IF x = r THEN LiveData(req.label, req.ans)
                                                      ELSE data[x]
             /\ valid' = [valid EXCEPT ![r] = TRUE]
             /\ UNCHANGED used_size
             /\ pc' = "idle"
        BY <1>8, <2>1, NewEffect
      <3>2. Cached' = Cached \cup {r}
        BY <1>0, <3>1, CachedGrows
      <3>3. req.ans # <<>>
        BY <3>0, AskedIsNotEmpty DEF SInv
      <3>4. \A x \in Cached' : data'[x].ans # <<>>
        BY <1>1, <3>1, <3>2, <3>3, SlotsAreRecords DEF LiveData, RInv
      <3>5. Broken => Broken'
        BY <1>1, <3>1, <3>2 DEF Broken
      <3> QED BY <3>1, <3>4, <3>5 DEF RInv
    <2>2. CASE ~(Len(stack) > 1)
      BY <1>2, <1>8, <2>2 DEF InsertNew
    <2> QED BY <2>1, <2>2
  <1>9. CASE InsertFails \/ \E l \in Labels : GetFails(l)
    BY <1>2, <1>9 DEF InsertFails, GetFails
  <1>10. CASE \E l \in Labels : GetHit(l) \/ GetMiss(l)
    <2>1. UNCHANGED <<valid, data, used_size, pc>> /\ pc = "idle"
      BY <1>10 DEF GetHit, GetMiss, memory, Idle
    <2>2. Cached' = Cached
      BY <2>1 DEF Cached
    <2> QED BY <2>1, <2>2 DEF RInv, Broken
  <1>11. ASSUME NEW l \in Labels, GetExpired(l) PROVE RInv'
    <2>1. PICK r \in Cached, tail \in Records :
             /\ data[r].st = "live" /\ tail # r
             /\ tail = 0 \/ tail \in Cached
             /\ pc = "idle"
             /\ \/ Fail("use_after_free")
                \/ /\ data' = Released(tail)
                   /\ used_size' = SizeLess(tail)
                   /\ valid' = [valid EXCEPT ![r] = FALSE]
                   /\ UNCHANGED pc
      <3>1. PICK i \in 1..Len(Chain(l)) : \E r \in Cached, tail \in Records :
             /\ data[r].st = "live" /\ tail # r
             /\ tail = 0 \/ tail \in Cached
             /\ pc = "idle"
             /\ \/ Fail("use_after_free")
                \/ /\ data' = Released(tail)
                   /\ used_size' = SizeLess(tail)
                   /\ valid' = [valid EXCEPT ![r] = FALSE]
                   /\ UNCHANGED pc
        BY <1>11, ExpiredEffect
      <3> QED BY <3>1
    <2>2. CASE /\ data' = Released(tail)
               /\ used_size' = SizeLess(tail)
               /\ valid' = [valid EXCEPT ![r] = FALSE]
               /\ UNCHANGED pc
      <3>1. Cached' = Cached \ {r}
        BY <1>0, <2>2, CachedShrinks
      <3>2. data \in [Records -> DataBlocks] /\ size \in [Records -> Nat]
        BY DEF DataTypeOK
      <3>3. /\ \A x \in Records : data'[x].ans = data[x].ans
            /\ \A x \in Records : x # tail => data'[x] = data[x]
            /\ data'[tail].st = IF data[tail].st = "null" THEN "null" ELSE "freed"
        BY <2>2, <3>2, ReleasedFacts
      <3>4. \A x \in Cached' : data'[x].ans # <<>>
        BY <1>1, <3>1, <3>3 DEF RInv
      <3>5. Broken => Broken'
        BY <1>1, <2>1, <3>1, <3>3 DEF Broken
      <3>6. used_size' # 0 => Broken'
        <4>1. CASE tail = 0
          <5>1. size[tail] = 0 /\ used_size \in 0..(SizeMod - 1)
            BY <1>0, <4>1 DEF Filled, DataTypeOK
          <5>2. used_size' = used_size
            BY <2>2, <5>1, ConstantTypes DEF SizeLess
          <5> QED BY <3>5, <5>2 DEF RInv
        <4>2. CASE tail \in Cached
          BY <1>1, <2>1, <3>1, <3>3, <4>2 DEF Broken
        <4> QED BY <2>1, <4>1, <4>2
      <3> QED BY <2>1, <2>2, <3>4, <3>6 DEF RInv
    <2> QED BY <1>2, <2>1, <2>2
  <1>12. CASE Tick \/ Stopped \/ UNCHANGED vars
    BY <1>12, RInvSame DEF Tick, Stopped, vars, memory, list
  <1> QED BY <1>3, <1>4, <1>5, <1>6, <1>7, <1>8, <1>9, <1>10, <1>11, <1>12
          DEF Next, StoreStep

-----------------------------------------------------------------------------
(***************************************************************************)
(* The refinement mapping: the labels in list order, and the answers of    *)
(* each label, for a list s (or a set C) of records with data d.           *)
(***************************************************************************)
Labs(s, d) == [i \in 1..Len(s) |-> d[s[i]].label]

Distinct(C, d) == \A x, y \in C : d[x].label = d[y].label => x = y

Table(C, d) ==
    [l \in Labels |-> IF \E r \in C : d[r].label = l
                      THEN d[CHOOSE r \in C : d[r].label = l].ans
                      ELSE <<>>]

\* The same for a list.
ListTable(s, d) ==
    [l \in Labels |-> IF \E i \in 1..Len(s) : d[s[i]].label = l
                      THEN d[s[CHOOSE i \in 1..Len(s) : d[s[i]].label = l]].ans
                      ELSE <<>>]

\* One entry of the table per record.
LEMMA TableFacts ==
    ASSUME NEW C, NEW d, Distinct(C, d)
    PROVE  /\ \A r \in C : d[r].label \in Labels => Table(C, d)[d[r].label] = d[r].ans
           /\ \A l \in Labels : (\A r \in C : d[r].label # l) => Table(C, d)[l] = <<>>
           /\ Table(C, d) = [l \in Labels |-> Table(C, d)[l]]
  <1>1. ASSUME NEW r \in C, d[r].label \in Labels
        PROVE  Table(C, d)[d[r].label] = d[r].ans
    <2> DEFINE x == CHOOSE y \in C : d[y].label = d[r].label
    <2>1. x \in C /\ d[x].label = d[r].label
      OBVIOUS
    <2>2. x = r
      <3> HIDE DEF x
      <3> QED BY <2>1 DEF Distinct
    <2> QED BY <1>1, <2>2 DEF Table
  <1>2. \A l \in Labels : (\A r \in C : d[r].label # l) => Table(C, d)[l] = <<>>
    BY DEF Table
  <1>3. Table(C, d) = [l \in Labels |-> Table(C, d)[l]]
    BY DEF Table
  <1> QED BY <1>1, <1>2, <1>3

\* The table of a list is that of its records.
LEMMA TableOfList ==
    ASSUME NEW s \in Seq(Slots), NEW C, NEW d, Distinct(C, d),
           \A i \in 1..Len(s) : s[i] \in C,
           \A r \in C : \E i \in 1..Len(s) : s[i] = r
    PROVE  ListTable(s, d) = Table(C, d)
  <1> DEFINE at(l) == CHOOSE i \in 1..Len(s) : d[s[i]].label = l
             has(l) == \E i \in 1..Len(s) : d[s[i]].label = l
             val(l) == IF has(l) THEN d[s[at(l)]].ans ELSE <<>>
  <1>1. ASSUME NEW l \in Labels PROVE val(l) = Table(C, d)[l]
    <2>1. CASE has(l)
      <3>1. at(l) \in 1..Len(s) /\ d[s[at(l)]].label = l
        BY <2>1
      <3>2. s[at(l)] \in C
        BY <3>1
      <3> HIDE DEF at, has
      <3>3. Table(C, d)[l] = d[s[at(l)]].ans
        BY <3>1, <3>2, TableFacts
      <3> QED BY <2>1, <3>3
    <2>2. CASE ~has(l)
      <3>1. \A r \in C : d[r].label # l
        BY <2>2
      <3>2. Table(C, d)[l] = <<>>
        BY <3>1, TableFacts
      <3> HIDE DEF has
      <3> QED BY <2>2, <3>2
    <2> QED BY <2>1, <2>2
  <1>2. [l \in Labels |-> val(l)] = [l \in Labels |-> Table(C, d)[l]]
    <2> HIDE DEF val
    <2> QED BY <1>1
  <1>3. Table(C, d) = [l \in Labels |-> Table(C, d)[l]]
    BY TableFacts
  <1>4. ListTable(s, d) = [l \in Labels |-> val(l)]
    BY DEF ListTable
  <1> HIDE DEF val
  <1> QED BY <1>2, <1>3, <1>4

\* Record r, in use before or not, gets the label l and the answers a; no
\* other record has or had that label.
PutsEntry(C, d, C2, d2, r, l, a) ==
    /\ C2 = C \cup {r} /\ Distinct(C, d) /\ Distinct(C2, d2)
    /\ \A x \in C : d[x].label \in Labels
    /\ \A x \in C : x # r => d2[x] = d[x]
    /\ d2[r].label = l /\ d2[r].ans = a
    /\ \A x \in C : d[x].label = l <=> x = r

\* A store changes one entry, that of a record in use or of a new one.
LEMMA TableAfterPut ==
    ASSUME NEW C, NEW d, NEW C2, NEW d2, NEW r, NEW l \in Labels, NEW a,
           PutsEntry(C, d, C2, d2, r, l, a)
    PROVE  Table(C2, d2) = [Table(C, d) EXCEPT ![l] = a]
  <1> USE DEF PutsEntry
  <1> DEFINE T == Table(C, d)
             T2 == Table(C2, d2)
  <1>1. T = [m \in Labels |-> T[m]] /\ T2 = [m \in Labels |-> T2[m]]
    BY TableFacts
  <1>2. T2[l] = a
    BY TableFacts
  <1>3. ASSUME NEW m \in Labels, m # l PROVE T2[m] = T[m]
    <2>1. CASE \E x \in C : d[x].label = m
      <3>1. PICK x \in C : d[x].label = m /\ x # r
        BY <1>3, <2>1
      <3>2. d2[x].label = m /\ d2[x].ans = d[x].ans /\ x \in C2
        BY <3>1
      <3>3. T[m] = d[x].ans
        BY <3>1, TableFacts
      <3>4. T2[m] = d2[x].ans
        BY <3>2, TableFacts
      <3> QED BY <3>2, <3>3, <3>4
    <2>2. CASE \A x \in C : d[x].label # m
      <3>2. \A x \in C2 : d2[x].label # m
        BY <1>3, <2>2
      <3>3. T[m] = <<>>
        BY <2>2, TableFacts
      <3>4. T2[m] = <<>>
        BY <3>2, TableFacts
      <3> QED BY <3>3, <3>4
    <2> QED BY <2>1, <2>2
  <1> HIDE DEF T, T2
  <1>4. T2 = [T EXCEPT ![l] = a]
    BY <1>1, <1>2, <1>3
  <1> QED BY <1>4 DEF T, T2

\* A removal empties one.
LEMMA TableAfterDrop ==
    ASSUME NEW C, NEW d, NEW r \in C, NEW d2, NEW l \in Labels,
           Distinct(C, d), Distinct(C \ {r}, d2),
           \A x \in C : d[x].label \in Labels,
           \A x \in C : d2[x].label = d[x].label /\ d2[x].ans = d[x].ans,
           d[r].label = l
    PROVE  Table(C \ {r}, d2) = [Table(C, d) EXCEPT ![l] = <<>>]
  <1> DEFINE T == Table(C, d)
             T2 == Table(C \ {r}, d2)
  <1>1. T = [m \in Labels |-> T[m]] /\ T2 = [m \in Labels |-> T2[m]]
    BY TableFacts
  <1>2. T2[l] = <<>>
    <2>1. \A x \in C \ {r} : d2[x].label # l
      BY DEF Distinct
    <2> QED BY <2>1, TableFacts
  <1>3. ASSUME NEW m \in Labels, m # l PROVE T2[m] = T[m]
    <2>1. CASE \E x \in C : d[x].label = m
      <3>1. PICK x \in C : d[x].label = m
        BY <2>1
      <3>2. x \in C \ {r} /\ d2[x].label = m /\ d2[x].ans = d[x].ans
        BY <1>3, <3>1
      <3>3. T[m] = d[x].ans
        BY <3>1, TableFacts
      <3>4. T2[m] = d2[x].ans
        BY <3>2, TableFacts
      <3> QED BY <3>2, <3>3, <3>4
    <2>2. CASE \A x \in C : d[x].label # m
      <3>1. \A x \in C \ {r} : d2[x].label # m
        BY <2>2
      <3>2. T[m] = <<>>
        BY <2>2, TableFacts
      <3>3. T2[m] = <<>>
        BY <3>1, TableFacts
      <3> QED BY <3>2, <3>3
    <2> QED BY <2>1, <2>2
  <1> HIDE DEF T, T2
  <1>4. T2 = [T EXCEPT ![l] = <<>>]
    BY <1>1, <1>2, <1>3
  <1> QED BY <1>4 DEF T, T2

\* The labels of a list, and of a list with a record in front.
LEMMA LabsFacts ==
    ASSUME NEW s \in Seq(Slots), NEW d, \A i \in 1..Len(s) : d[s[i]].label \in Labels
    PROVE  /\ Labs(s, d) \in Seq(Labels) /\ Len(Labs(s, d)) = Len(s)
           /\ \A i \in 1..Len(s) : Labs(s, d)[i] = d[s[i]].label
  BY DEF Labs

LEMMA LabsInFront ==
    ASSUME NEW s \in Seq(Slots), NEW d, \A i \in 1..Len(s) : d[s[i]].label \in Labels,
           NEW r \in Slots, d[r].label \in Labels
    PROVE  Labs(<<r>> \o s, d) = <<d[r].label>> \o Labs(s, d)
  <1> DEFINE n == Len(s)
             u == <<r>> \o s
             v == <<d[r].label>> \o Labs(s, d)
  <1>1. /\ u \in Seq(Slots) /\ n \in Nat /\ Len(u) = n + 1 /\ u[1] = r
        /\ \A i \in 2..(n + 1) : u[i] = s[i - 1]
    BY ConsFacts
  <1>2. /\ Labs(s, d) \in Seq(Labels) /\ Len(Labs(s, d)) = n
        /\ \A i \in 1..n : Labs(s, d)[i] = d[s[i]].label
    BY LabsFacts
  <1>3. /\ v \in Seq(Labels) /\ Len(v) = n + 1 /\ v[1] = d[r].label
        /\ \A i \in 2..(n + 1) : v[i] = Labs(s, d)[i - 1]
    BY <1>2, ConsFacts
  <1> HIDE DEF u, v, n
  <1>4. ASSUME NEW i \in 1..(n + 1) PROVE v[i] = d[u[i]].label
    <2>1. CASE i = 1
      BY <1>1, <1>3, <2>1
    <2>2. CASE i > 1
      <3>1. i \in 2..(n + 1) /\ i - 1 \in 1..n
        BY <1>1, <2>2
      <3> QED BY <1>1, <1>2, <1>3, <3>1
    <2> QED BY <1>1, <2>1, <2>2
  <1>5. v = [i \in 1..(n + 1) |-> v[i]]
    BY <1>3
  <1>6. Labs(u, d) = [i \in 1..(n + 1) |-> d[u[i]].label]
    BY <1>1 DEF Labs
  <1>7. Labs(u, d) = v
    BY <1>4, <1>5, <1>6
  <1> QED BY <1>7 DEF u, v

\* Taking a record out takes its label out.
LEMMA LabsWithout ==
    ASSUME NEW s \in Seq(Slots), NEW d, \A i \in 1..Len(s) : d[s[i]].label \in Labels,
           \A i, j \in 1..Len(s) : d[s[i]].label = d[s[j]].label => i = j,
           NEW p \in 1..Len(s)
    PROVE  /\ Labs(Without(s, s[p]), d) = Without(Labs(s, d), d[s[p]].label)
           /\ Without(s, s[p]) \in Seq(Slots)
           /\ \A i \in 1..Len(Without(s, s[p])) : d[Without(s, s[p])[i]].label \in Labels
  <1> DEFINE n == Len(s)
             u == Without(s, s[p])
             v == Without(Labs(s, d), d[s[p]].label)
  <1>0. n \in Nat
    OBVIOUS
  <1>1. /\ Labs(s, d) \in Seq(Labels) /\ Len(Labs(s, d)) = n
        /\ \A i \in 1..n : Labs(s, d)[i] = d[s[i]].label
    BY LabsFacts
  <1>2. PICK k \in 1..n :
            /\ s[k] = s[p] /\ u \in Seq(Slots) /\ Len(u) = n - 1
            /\ \A i \in 1..(n - 1) : u[i] = IF i < k THEN s[i] ELSE s[i + 1]
    BY WithoutFacts
  <1>3. \E j \in 1..Len(Labs(s, d)) : Labs(s, d)[j] = d[s[p]].label
    BY <1>1
  <1>4. PICK j \in 1..n :
            /\ Labs(s, d)[j] = d[s[p]].label /\ v \in Seq(Labels) /\ Len(v) = n - 1
            /\ \A i \in 1..(n - 1) : v[i] = IF i < j THEN Labs(s, d)[i] ELSE Labs(s, d)[i + 1]
    BY <1>1, <1>3, WithoutFacts
  <1>5. k = p /\ j = p
    BY <1>1, <1>2, <1>4
  <1> HIDE DEF u, v, n
  <1>6. ASSUME NEW i \in 1..(n - 1) PROVE v[i] = d[u[i]].label /\ d[u[i]].label \in Labels
    <2>1. i \in 1..n /\ i + 1 \in 1..n
      BY <1>0
    <2> QED BY <1>1, <1>2, <1>4, <1>5, <2>1 DEF n
  <1>7. v = [i \in 1..(n - 1) |-> v[i]]
    BY <1>4
  <1>8. Labs(u, d) = [i \in 1..(n - 1) |-> d[u[i]].label]
    BY <1>2 DEF Labs
  <1>9. Labs(u, d) = v
    BY <1>6, <1>7, <1>8
  <1>10. u \in Seq(Slots) /\ \A i \in 1..Len(u) : d[u[i]].label \in Labels
    BY <1>2, <1>6
  <1> QED BY <1>9, <1>10 DEF u, v

\* A label that is first already stays so.
LEMMA FrontStays ==
    ASSUME NEW S, NEW q \in Seq(S), Len(q) > 0,
           \A i, j \in 1..Len(q) : q[i] = q[j] => i = j
    PROVE  q = <<q[1]>> \o Without(q, q[1])
  <1> DEFINE n == Len(q)
             w == Without(q, q[1])
             v == <<q[1]>> \o w
  <1>1. n \in Nat /\ 1 \in 1..n /\ q[1] \in S
    OBVIOUS
  <1>2. PICK k \in 1..n :
            /\ q[k] = q[1] /\ w \in Seq(S) /\ Len(w) = n - 1
            /\ \A i \in 1..(n - 1) : w[i] = IF i < k THEN q[i] ELSE q[i + 1]
    BY <1>1, WithoutFacts
  <1>3. k = 1
    BY <1>1, <1>2
  <1> HIDE DEF w
  <1>4. v \in Seq(S) /\ Len(v) = n /\ v[1] = q[1] /\ \A i \in 2..n : v[i] = w[i - 1]
    BY <1>1, <1>2, ConsFacts
  <1> HIDE DEF v
  <1>5. ASSUME NEW i \in 1..n PROVE v[i] = q[i]
    <2>1. CASE i = 1
      BY <1>4, <2>1
    <2>2. CASE i > 1
      <3>1. i \in 2..n /\ i - 1 \in 1..(n - 1) /\ ~(i - 1 < 1) /\ (i - 1) + 1 = i
        BY <1>1, <2>2
      <3>2. w[i - 1] = q[(i - 1) + 1]
        BY <1>2, <1>3, <3>1
      <3> QED BY <1>4, <3>1, <3>2
    <2> QED BY <1>1, <2>1, <2>2
  <1>6. v = [i \in 1..n |-> v[i]] /\ q = [i \in 1..n |-> q[i]]
    BY <1>4
  <1> QED BY <1>5, <1>6 DEF v, w

-----------------------------------------------------------------------------
(***************************************************************************)
(* The refinement.                                                         *)
(***************************************************************************)
Inv == IInv /\ DataTypeOK /\ SInv /\ RInv

\* What the mapping relies on, in a form that is used before and after a step.
Mapping ==
    /\ lru \in Seq(Slots) /\ Len(lru) = length /\ length \in Nat /\ length < MaxLength
    /\ \A i \in 1..Len(lru) : lru[i] \in Cached
    /\ \A r \in Cached : r \in Slots /\ r \in Records /\ \E i \in 1..Len(lru) : lru[i] = r
    /\ \A r \in Cached : data[r].label \in Labels
    /\ \A i, j \in 1..Len(lru) : data[lru[i]].label = data[lru[j]].label => i = j
    /\ Distinct(Cached, data)
    /\ length > 0 => first = lru[1]

LEMMA MappingHolds == Inv => Mapping
  <1> SUFFICES ASSUME Inv PROVE Mapping
    OBVIOUS
  <1>1. Core /\ DataTypeOK /\ Index /\ Filled
    BY DEF Inv, IInv, SInv
  <1>2. /\ lru \in Seq(Slots) /\ Len(lru) = length /\ length \in Nat
        /\ \A i \in 1..Len(lru) : lru[i] \in Cached
        /\ \A r \in Cached : \E i \in 1..Len(lru) : lru[i] = r
        /\ \A i, j \in 1..Len(lru) : lru[i] = lru[j] => i = j
    BY <1>1, CachedIsListed
  <1>3. length < MaxLength /\ (length > 0 => first = lru[1])
    BY <1>1 DEF Core, SlotAccounting, ListMatches
  <1>4. \A r \in Cached : r \in Slots /\ r \in Records /\ data[r].label \in Labels
    BY <1>1, CachedFacts
  <1>5. Distinct(Cached, data)
    BY <1>1 DEF Index, Distinct
  <1>6. \A i, j \in 1..Len(lru) : data[lru[i]].label = data[lru[j]].label => i = j
    BY <1>2, <1>5 DEF Distinct
  <1> QED BY <1>2, <1>3, <1>4, <1>5, <1>6 DEF Mapping

\* The abstract variables.
MOrder  == [i \in 1..Len(lru) |-> data[lru[i]].label]
MStore  == ListTable(lru, data)
MBroken == \E i \in 1..Len(lru) : data[lru[i]].st = "freed"

Mapped ==
    /\ MOrder = Labs(lru, data)
    /\ MStore = Table(Cached, data)
    /\ MBroken <=> Broken

LEMMA MappedHolds == Mapping => Mapped
  <1> SUFFICES ASSUME Mapping PROVE Mapped
    OBVIOUS
  <1>1. MOrder = Labs(lru, data)
    BY DEF MOrder, Labs
  <1>2. MStore = Table(Cached, data)
    BY TableOfList DEF Mapping, MStore
  <1>3. MBroken <=> Broken
    BY DEF Mapping, MBroken, Broken
  <1> QED BY <1>1, <1>2, <1>3 DEF Mapped

\* Both hold after a step that keeps the invariant.
LEMMA MappedNext == Inv' => Mapping' /\ Mapped'
  BY MappingHolds, MappedHolds, PTL

\* The labels depend on the labels only.
LEMMA LabsSame ==
    ASSUME NEW s \in Seq(Slots), NEW d, NEW d2,
           \A i \in 1..Len(s) : d2[s[i]].label = d[s[i]].label
    PROVE  Labs(s, d2) = Labs(s, d)
  BY DEF Labs

\* A record that is used becomes the most recent one.
LEMMA LabsMoved ==
    ASSUME Mapping, NEW r \in Cached,
           IF r = first THEN lru' = lru ELSE lru' = <<r>> \o Without(lru, r)
    PROVE  Labs(lru', data) = <<data[r].label>> \o Without(Labs(lru, data), data[r].label)
  <1>1. /\ lru \in Seq(Slots) /\ \A i \in 1..Len(lru) : data[lru[i]].label \in Labels
        /\ \A i, j \in 1..Len(lru) : data[lru[i]].label = data[lru[j]].label => i = j
        /\ r \in Slots /\ data[r].label \in Labels
    BY DEF Mapping
  <1>2. PICK p \in 1..Len(lru) : lru[p] = r
    BY DEF Mapping
  <1>3. /\ Labs(lru, data) \in Seq(Labels) /\ Len(Labs(lru, data)) = Len(lru)
        /\ \A i \in 1..Len(lru) : Labs(lru, data)[i] = data[lru[i]].label
    BY <1>1, LabsFacts
  <1>4. CASE r = first
    <2>1. Len(lru) > 0 /\ r = lru[1] /\ 1 \in 1..Len(lru)
      BY <1>1, <1>2, <1>4 DEF Mapping
    <2>2. Labs(lru, data)[1] = data[r].label /\ Len(Labs(lru, data)) > 0
      BY <1>3, <2>1
    <2>3. \A i, j \in 1..Len(Labs(lru, data)) : Labs(lru, data)[i] = Labs(lru, data)[j] => i = j
      BY <1>1, <1>3
    <2> QED BY <1>3, <1>4, <2>2, <2>3, FrontStays
  <1>5. CASE r # first
    <2>1. /\ Labs(Without(lru, r), data) = Without(Labs(lru, data), data[r].label)
          /\ Without(lru, r) \in Seq(Slots)
          /\ \A i \in 1..Len(Without(lru, r)) : data[Without(lru, r)[i]].label \in Labels
      BY <1>1, <1>2, LabsWithout
    <2>2. Labs(<<r>> \o Without(lru, r), data) = <<data[r].label>> \o Labs(Without(lru, r), data)
      BY <1>1, <2>1, LabsInFront
    <2> QED BY <1>5, <2>1, <2>2
  <1> QED BY <1>4, <1>5

\* Removing an element is the same in both modules.
LEMMA StoreWithout == \A s, e : Store!Without(s, e) = Without(s, e)
  BY DEF Store!Without, Without, Store!RemoveAt, RemoveAt

\* A step that ends the process.
LEMMA FailHalts ==
    ASSUME Mapping, Mapped, NEW f, Fail(f), f # "none", fault = "none",
           Broken \/ length = MaxLength - 1
    PROVE  Store!StoreNext
  <1>1. UNCHANGED <<lru, data, now, ret>> /\ fault' = f
    BY DEF Fail, list, memory
  <1>2. MBroken \/ Len(MOrder) = MaxLength - 1
    <2>1. Len(MOrder) = length
      BY DEF Mapping, MOrder
    <2> QED BY <2>1 DEF Mapped
  <1>3. Store!Halt
    BY <1>1, <1>2 DEF Store!Halt, MBroken, MOrder
  <1> QED BY <1>3 DEF Store!StoreNext

\* The store in progress, as RecordStore sees it.
LEMMA AskedIsPayload ==
    ASSUME DataTypeOK, Requesting, Asking, pc # "idle"
    PROVE  \E l \in Labels, a \in Payloads : l = req.label /\ a = req.ans
  <1>1. PICK a \in Answers : req.ans = [i \in 1..Len(a) |-> now + a[i]]
    BY DEF Asking
  <1>2. now \in 0..MaxNow
    BY DEF DataTypeOK
  <1>3. req.ans \in Payloads
    BY <1>1, <1>2 DEF Payloads
  <1> QED BY <1>3, RequestType

\* A step that stores, in terms of the mapping.
Stores(l, a) ==
    /\ fault = "none" /\ length < MaxLength - 1
    /\ Labs(lru', data') = <<l>> \o Without(Labs(lru, data), l)
    /\ Table(Cached', data') = [Table(Cached, data) EXCEPT ![l] = a]
    /\ Broken' <=> Broken
    /\ UNCHANGED <<now, ret, fault>>

LEMMA PutRefines ==
    ASSUME NEW l \in Labels, NEW a \in Payloads, Mapping, Mapped, Mapped', Stores(l, a)
    PROVE  Store!StoreNext
  <1> USE DEF Stores
  <1>1. Len(MOrder) < MaxLength - 1
    <2>1. Len(MOrder) = length
      BY DEF Mapping, MOrder
    <2> QED BY <2>1
  <1>2. MOrder' = <<l>> \o Store!Without(MOrder, l)
    BY StoreWithout DEF Mapped
  <1>3. MStore' = [MStore EXCEPT ![l] = a]
    BY DEF Mapped
  <1>4. MBroken' = MBroken
    BY DEF Mapped, MBroken
  <1>5. Store!Put(l, a)
    BY <1>1, <1>2, <1>3, <1>4 DEF Store!Put, MOrder, MStore, MBroken, ListTable
  <1> QED BY <1>5 DEF Store!StoreNext

\* A label is stored in the abstract table when a record in use has it.
LEMMA StoredIsCached ==
    ASSUME Mapping, NEW l
    PROVE  Store!Stored(l) <=> \E r \in Cached : data[r].label = l
  <1>1. Store!Stored(l) <=> \E k \in 1..Len(MOrder) : MOrder[k] = l
    BY DEF Store!Stored, MOrder
  <1>2. Len(MOrder) = Len(lru) /\ \A k \in 1..Len(lru) : MOrder[k] = data[lru[k]].label
    BY DEF Mapping, MOrder
  <1> QED BY <1>1, <1>2 DEF Mapping

\* Every step of the cache is a step of the store or leaves it alone.
LEMMA NextRefines ==
    ASSUME SameSecond, Reserve <= MaxSize, DNS_CACHE_PERMANENT > MaxNow
    PROVE  Inv /\ Inv' /\ [Next]_vars => [Store!StoreNext]_(Store!svars)
  <1> SUFFICES ASSUME Inv, Inv', [Next]_vars
               PROVE  Store!StoreNext \/ UNCHANGED <<MOrder, MStore, now, ret, MBroken, fault>>
    BY DEF Store!svars, MOrder, MStore, MBroken, ListTable
  <1>0. /\ IInv /\ DataTypeOK /\ SInv /\ RInv
        /\ Core /\ PoolTypeOK /\ Requesting /\ Index /\ Filled /\ Asking
        /\ Mapping /\ Mapped /\ Mapping' /\ Mapped'
    BY MappingHolds, MappedHolds, MappedNext DEF Inv, IInv, SInv, Core
  <1>1. \A x \in Cached : x \in Records /\ x # 0 /\ data[x].st \in {"live", "freed"}
                       /\ data[x].label \in Labels /\ x \in Slots
    BY <1>0, CachedFacts
  <1>2. ASSUME UNCHANGED <<lru, data, now, ret, fault>>
        PROVE  UNCHANGED <<MOrder, MStore, now, ret, MBroken, fault>>
    BY <1>2 DEF MOrder, MStore, MBroken, ListTable
  <1>3. CASE \E l \in Labels, a \in Answers, api \in Apis : SetCall(l, a, api)
    BY <1>2, <1>3 DEF SetCall, list, memory
  <1>4. CASE PopRecord
    <2>1. PICK f \in WalkFaults : Fail(f)
      BY <1>0, <1>4, PopFails
    <2>2. fault = "none" /\ pc = "pop"
      BY <1>4 DEF PopRecord, Running
    <2>3. Broken \/ length = MaxLength - 1
      BY <1>0, <2>2 DEF RInv
    <2> QED BY <1>0, <2>1, <2>2, <2>3, FailHalts DEF WalkFaults
  <1>5. CASE PopReturn \/ PopAgain
    BY <1>2, <1>5 DEF PopReturn, PopAgain, list, memory
  <1>6. CASE InsertFound
    <2>0. pc # "idle" /\ fault = "none"
      BY <1>6 DEF InsertFound, Inserting, Running
    <2> PICK l \in Labels, a \in Payloads : l = req.label /\ a = req.ans
      BY <1>0, <2>0, AskedIsPayload
    <2>1. PICK r \in Cached :
             /\ data[r].label = l /\ data[r].st = "live"
             /\ \A x \in Records : data'[x] = IF x = r THEN LiveData(l, a)
                                                      ELSE data[x]
             /\ IF r = first THEN UNCHANGED list ELSE MoveToFront(r) /\ UNCHANGED length
             /\ UNCHANGED <<valid, now, ret, fault>>
             /\ pc = "space"
      BY <1>6, FoundEffect DEF Inv
    <2>2. Cached' = Cached
      BY <2>1 DEF Cached
    <2>3. /\ data'[r].label = l /\ data'[r].ans = a /\ data'[r].st = "live"
          /\ \A x \in Cached : x # r => data'[x] = data[x]
      BY <1>1, <2>1 DEF LiveData
    <2>4. Labs(lru', data) = <<l>> \o Without(Labs(lru, data), l)
      <3>1. IF r = first THEN lru' = lru ELSE lru' = <<r>> \o Without(lru, r)
        BY <2>1 DEF list, MoveToFront
      <3> QED BY <1>0, <2>1, <3>1, LabsMoved
    <2>5. Labs(lru', data') = Labs(lru', data)
      <3>1. lru' \in Seq(Slots) /\ \A i \in 1..Len(lru') : lru'[i] \in Cached
        BY <1>0, <2>2 DEF Mapping
      <3>2. \A i \in 1..Len(lru') : data'[lru'[i]].label = data[lru'[i]].label
        BY <2>1, <2>3, <3>1
      <3> QED BY <3>1, <3>2, LabsSame
    <2>6. Table(Cached', data') = [Table(Cached, data) EXCEPT ![l] = a]
      <3>1. Distinct(Cached, data) /\ Distinct(Cached', data') /\ Cached' = Cached \cup {r}
        BY <1>0, <2>2 DEF Mapping
      <3>2. \A x \in Cached : data[x].label = l <=> x = r
        BY <2>1, <3>1 DEF Distinct
      <3>3. PutsEntry(Cached, data, Cached', data', r, l, a)
        BY <1>1, <2>3, <3>1, <3>2 DEF PutsEntry
      <3> QED BY <3>3, TableAfterPut
    <2>7. Broken' <=> Broken
      BY <2>1, <2>2, <2>3 DEF Broken
    <2>8. length < MaxLength - 1
      <3>1. PICK i \in 1..Len(lru) : lru[i] = r
        BY <1>0 DEF Mapping
      <3>2. MaxLength > 1
        BY <1>0, <3>1, MaxLengthType DEF Mapping
      <3> QED BY <1>0, <2>1, <3>2 DEF IInv, RoomLeft
    <2>9. Stores(l, a)
      BY <2>0, <2>1, <2>4, <2>5, <2>6, <2>7, <2>8 DEF Stores
    <2> QED BY <1>0, <2>9, PutRefines
  <1>7. CASE InsertNew /\ Len(stack) > 1
    <2>0. pc # "idle" /\ fault = "none"
      BY <1>7 DEF InsertNew, Inserting, Running
    <2> PICK l \in Labels, a \in Payloads : l = req.label /\ a = req.ans
      BY <1>0, <2>0, AskedIsPayload
    <2>1. PICK r \in Slots :
             /\ r \notin Cached /\ l \in Labels
             /\ \A x \in Cached : data[x].label # l
             /\ \A x \in Records : data'[x] = IF x = r THEN LiveData(l, a)
                                                      ELSE data[x]
             /\ PushFront(r)
             /\ valid' = [valid EXCEPT ![r] = TRUE]
             /\ UNCHANGED <<now, ret, fault>>
      BY <1>7, NewEffect DEF Inv
    <2>2. Cached' = Cached \cup {r}
      BY <1>0, <2>1, CachedGrows
    <2>3. /\ data'[r].label = l /\ data'[r].ans = a /\ data'[r].st = "live"
          /\ \A x \in Cached : data'[x] = data[x]
      BY <1>1, <2>1, SlotsAreRecords DEF LiveData
    <2>4. /\ lru \in Seq(Slots) /\ \A i \in 1..Len(lru) : lru[i] \in Cached
          /\ lru' = <<r>> \o lru
      BY <1>0, <2>1 DEF Mapping, PushFront
    <2>5. Labs(lru', data') = <<l>> \o Labs(lru, data)
      <3>1. \A i \in 1..Len(lru) : data'[lru[i]].label \in Labels
                                /\ data'[lru[i]].label = data[lru[i]].label
        BY <1>1, <2>3, <2>4
      <3>2. Labs(<<r>> \o lru, data') = <<data'[r].label>> \o Labs(lru, data')
        BY <2>1, <2>3, <2>4, <3>1, LabsInFront
      <3>3. Labs(lru, data') = Labs(lru, data)
        BY <2>4, <3>1, LabsSame
      <3> QED BY <2>3, <2>4, <3>2, <3>3
    <2>6. Without(Labs(lru, data), l) = Labs(lru, data)
      <3>1. /\ Len(Labs(lru, data)) = Len(lru)
            /\ \A i \in 1..Len(lru) : Labs(lru, data)[i] = data[lru[i]].label
        BY <1>1, <2>4, LabsFacts
      <3>2. \A i \in 1..Len(Labs(lru, data)) : Labs(lru, data)[i] # l
        BY <2>1, <2>4, <3>1
      <3> QED BY <3>2 DEF Without
    <2>7. Table(Cached', data') = [Table(Cached, data) EXCEPT ![l] = a]
      <3>1. Distinct(Cached, data) /\ Distinct(Cached', data')
        BY <1>0 DEF Mapping
      <3>2. \A x \in Cached : data[x].label = l <=> x = r
        BY <2>1
      <3>3. PutsEntry(Cached, data, Cached', data', r, l, a)
        BY <1>1, <2>2, <2>3, <3>1, <3>2 DEF PutsEntry
      <3> QED BY <3>3, TableAfterPut
    <2>8. Broken' <=> Broken
      BY <2>2, <2>3 DEF Broken
    <2>9. length < MaxLength - 1
      <3>1. Len(stack) \in Nat /\ Len(stack) + length = MaxLength /\ length \in Nat
        BY <1>0 DEF Core, PoolTypeOK, SlotAccounting, ListTypeOK
      <3> QED BY <1>7, <3>1, MaxLengthType
    <2>10. Stores(l, a)
      BY <2>0, <2>1, <2>5, <2>6, <2>7, <2>8, <2>9 DEF Stores
    <2> QED BY <1>0, <2>10, PutRefines
  <1>8. CASE InsertNew /\ ~(Len(stack) > 1)
    <2>1. Fail("exit_no_space") /\ fault = "none"
      BY <1>8 DEF InsertNew, Inserting, Running
    <2>2. Len(stack) \in Nat /\ Len(stack) + length = MaxLength /\ length \in Nat
          /\ length < MaxLength
      BY <1>0 DEF Core, PoolTypeOK, SlotAccounting, ListTypeOK
    <2>3. length = MaxLength - 1
      BY <1>8, <2>2, MaxLengthType
    <2> QED BY <1>0, <2>1, <2>3, FailHalts
  <1>9. ASSUME NEW l \in Labels, NEW f \in WalkFaults, WalkFails(valid, l, f), Fail(f),
               fault = "none"
        PROVE  Store!StoreNext
    <2>1. Broken
      BY <1>0, <1>9, WalkFailsWhenFreed DEF Broken
    <2>2. f # "none"
      BY DEF WalkFaults
    <2> QED BY <1>0, <1>9, <2>1, <2>2, FailHalts
  <1>10. CASE InsertFails
    <2>1. req.label \in Labels /\ fault = "none"
      BY <1>0, <1>10, RequestType DEF InsertFails, Inserting, Running
    <2> QED BY <1>9, <1>10, <2>1 DEF InsertFails
  <1>11. CASE \E l \in Labels : GetFails(l)
    BY <1>9, <1>11 DEF GetFails, Idle, Running
  <1>12. ASSUME NEW l \in Labels, GetHit(l) PROVE Store!StoreNext
    <2>1. PICK i \in 1..Len(Chain(l)) :
             /\ Finds(valid, l, i) /\ ~Expired(Chain(l)[i])
             /\ IF Chain(l)[i] = first THEN UNCHANGED list
                                       ELSE MoveToFront(Chain(l)[i]) /\ UNCHANGED length
             /\ ret' = data[Chain(l)[i]].ans
      BY <1>12 DEF GetHit
    <2>2. UNCHANGED <<valid, data, now, fault>> /\ fault = "none"
      BY <1>12 DEF GetHit, memory, Idle, Running
    <2>3. PICK r \in Cached : r = Chain(l)[i] /\ data[r].label = l
      BY <1>0, <2>1, FoundIsCached
    <2>4. MOrder' = <<l>> \o Store!Without(MOrder, l)
      <3>1. IF r = first THEN lru' = lru ELSE lru' = <<r>> \o Without(lru, r)
        BY <2>1, <2>3 DEF list, MoveToFront
      <3>2. Labs(lru', data) = <<l>> \o Without(Labs(lru, data), l)
        BY <1>0, <2>3, <3>1, LabsMoved
      <3> QED BY <1>0, <2>2, <3>2, StoreWithout DEF Mapped
    <2>5. Cached' = Cached
      BY <2>2 DEF Cached
    <2>6. MStore' = MStore /\ MBroken' = MBroken
      BY <1>0, <2>2, <2>5 DEF Mapped, Broken, MBroken
    <2>7. MStore[l] = data[r].ans
      BY <1>0, <2>3, TableFacts DEF Mapped, Mapping
    <2>8. MStore[l][1] >= now
      <3>1. data[r].ans \in Seq(Nat) /\ data[r].ans # <<>>
        BY <1>0, <1>1, BlockFacts DEF DataTypeOK, RInv
      <3>2. data[r].ans[1] \in Nat
        BY <3>1
      <3>3. now \in Nat /\ now <= MaxNow /\ MaxNow \in Nat /\ DNS_CACHE_PERMANENT \in Nat
        BY <1>0, ConstantTypes, CacheAssumption DEF DataTypeOK, CacheAssumption
      <3>4. ~(data[r].ans[1] < now /\ data[r].ans[1] # DNS_CACHE_PERMANENT)
        BY <2>1, <2>3 DEF Expired
      <3> QED BY <2>7, <3>2, <3>3, <3>4
    <2>9. Store!Stored(l)
      BY <1>0, <2>3, StoredIsCached
    <2>10. Store!Hit(l)
      BY <2>1, <2>2, <2>3, <2>4, <2>6, <2>7, <2>8, <2>9
         DEF Store!Hit, MOrder, MStore, MBroken, ListTable
    <2> QED BY <2>10 DEF Store!StoreNext
  <1>13. ASSUME NEW l \in Labels, GetMiss(l) PROVE Store!StoreNext
    <2>1. UNCHANGED <<lru, data, now, fault>> /\ fault = "none" /\ ret' = <<>>
          /\ NotFound(valid, l)
      BY <1>13 DEF GetMiss, memory, list, Idle, Running
    <2>2. ~Store!Stored(l)
      BY <1>0, <2>1, NotFoundIsAbsent, StoredIsCached
    <2>3. UNCHANGED <<MOrder, MStore, MBroken>>
      BY <2>1 DEF MOrder, MStore, MBroken, ListTable
    <2>4. Store!Miss(l)
      BY <2>1, <2>2, <2>3 DEF Store!Miss, MOrder, MStore, MBroken, ListTable
    <2> QED BY <2>4 DEF Store!StoreNext
  <1>14. ASSUME NEW l \in Labels, GetExpired(l) PROVE Store!StoreNext
    <2>1. PICK i \in 1..Len(Chain(l)) : \E r \in Cached, tail \in Records :
             /\ r = Chain(l)[i] /\ data[r].label = l /\ data[r].st = "live"
             /\ Expired(r) /\ fault = "none" /\ pc = "idle"
             /\ tail # r /\ IF length = 1 THEN tail = 0 ELSE tail \in Cached
             /\ \/ data[tail].st = "freed" /\ Fail("use_after_free")
                \/ /\ data' = Released(tail) /\ size' = [size EXCEPT ![tail] = 0]
                   /\ label_hash' = Unlinked(l, i) /\ used_size' = SizeLess(tail)
                   /\ valid' = [valid EXCEPT ![r] = FALSE]
                   /\ lru' = Without(lru, r) /\ ret' = <<>>
                   /\ UNCHANGED <<now, pc, req, t, fault>>
      BY <1>14, ExpiredEffect DEF Inv
    <2>2. PICK r \in Cached, tail \in Records :
             /\ data[r].label = l /\ data[r].st = "live"
             /\ Expired(r) /\ fault = "none"
             /\ tail # r /\ IF length = 1 THEN tail = 0 ELSE tail \in Cached
             /\ \/ data[tail].st = "freed" /\ Fail("use_after_free")
                \/ /\ data' = Released(tail)
                   /\ valid' = [valid EXCEPT ![r] = FALSE]
                   /\ lru' = Without(lru, r) /\ ret' = <<>>
                   /\ UNCHANGED <<now, fault>>
      BY <2>1
    <2>3. CASE data[tail].st = "freed" /\ Fail("use_after_free")
      <3>1. tail # 0
        BY <1>0, <2>3 DEF Filled, NullData
      <3>2. Broken
        BY <2>2, <2>3, <3>1 DEF Broken
      <3> QED BY <1>0, <2>2, <2>3, <3>2, FailHalts
    <2>4. CASE /\ data' = Released(tail)
               /\ valid' = [valid EXCEPT ![r] = FALSE]
               /\ lru' = Without(lru, r) /\ ret' = <<>>
               /\ UNCHANGED <<now, fault>>
      <3>1. Cached' = Cached \ {r}
        BY <1>0, <2>4, CachedShrinks
      <3>2. data \in [Records -> DataBlocks]
        BY <1>0 DEF DataTypeOK
      <3>3. /\ \A x \in Records : data'[x].label = data[x].label /\ data'[x].ans = data[x].ans
            /\ \A x \in Records : x # tail => data'[x] = data[x]
            /\ data'[tail].st = IF data[tail].st = "null" THEN "null" ELSE "freed"
        BY <2>4, <3>2, ReleasedFacts
      <3>4. PICK p \in 1..Len(lru) : lru[p] = r
        BY <1>0 DEF Mapping
      <3>5. MOrder' = Store!Without(MOrder, l)
        <4>1. /\ lru \in Seq(Slots) /\ \A j \in 1..Len(lru) : data[lru[j]].label \in Labels
              /\ \A j, k \in 1..Len(lru) : data[lru[j]].label = data[lru[k]].label => j = k
          BY <1>0 DEF Mapping
        <4>2. Labs(lru', data) = Without(Labs(lru, data), l)
          BY <2>2, <2>4, <3>4, <4>1, LabsWithout
        <4>3. lru' \in Seq(Slots) /\ \A j \in 1..Len(lru') : lru'[j] \in Records
          BY <1>0 DEF Mapping
        <4>4. Labs(lru', data') = Labs(lru', data)
          BY <3>3, <4>3, LabsSame
        <4> QED BY <1>0, <4>2, <4>4, StoreWithout DEF Mapped
      <3>6. MStore' = [MStore EXCEPT ![l] = <<>>]
        <4>1. Distinct(Cached, data) /\ Distinct(Cached \ {r}, data')
          BY <1>0, <3>1 DEF Mapping
        <4>2. Table(Cached \ {r}, data') = [Table(Cached, data) EXCEPT ![l] = <<>>]
          BY <1>1, <2>2, <3>3, <4>1, TableAfterDrop
        <4> QED BY <1>0, <3>1, <4>2 DEF Mapped
      <3>7. MBroken' = (MBroken \/ Len(MOrder) > 1)
        <4>1. Len(MOrder) = length /\ length \in Nat /\ length > 0
          BY <1>0, <3>4 DEF Mapping, MOrder
        <4>2. CASE length = 1
          <5>1. Len(lru) = 1 /\ \A x \in Cached : x = r
            BY <1>0, <3>4, <4>2 DEF Mapping
          <5>2. ~Broken /\ ~Broken'
            BY <2>2, <3>1, <5>1 DEF Broken
          <5>3. MBroken = FALSE /\ MBroken' = FALSE
            BY <1>0, <5>2 DEF Mapped, MBroken
          <5>4. ~(Len(MOrder) > 1)
            BY <4>1, <4>2
          <5> QED BY <5>3, <5>4
        <4>3. CASE length # 1
          <5>1. tail \in Cached' /\ data'[tail].st = "freed"
            BY <1>1, <2>2, <3>1, <3>3, <4>3
          <5>2. Broken' /\ Len(MOrder) > 1
            BY <4>1, <4>3, <5>1 DEF Broken
          <5>3. MBroken' = TRUE
            BY <1>0, <5>2 DEF Mapped, MBroken
          <5> QED BY <5>2, <5>3
        <4> QED BY <4>2, <4>3
      <3>8. MStore[l] = data[r].ans
        BY <1>0, <2>2, TableFacts DEF Mapped, Mapping
      <3>9. MStore[l][1] < now
        BY <2>2, <3>8 DEF Expired
      <3>10. Store!Stored(l)
        BY <1>0, <2>2, StoredIsCached
      <3>11. Store!Drop(l)
        BY <2>2, <2>4, <3>5, <3>6, <3>7, <3>9, <3>10
           DEF Store!Drop, MOrder, MStore, MBroken, ListTable
      <3> QED BY <3>11 DEF Store!StoreNext
    <2> QED BY <2>2, <2>3, <2>4
  <1>15. CASE Tick
    <2>1. UNCHANGED <<lru, data, ret, fault>> /\ now' = now + 1
      BY <1>15 DEF Tick, memory, list
    <2>2. Store!Pass
      BY <2>1 DEF Store!Pass
    <2> QED BY <2>2 DEF Store!StoreNext
  <1>16. CASE Stopped \/ UNCHANGED vars
    BY <1>2, <1>16 DEF Stopped, vars, list, memory
  <1> QED BY <1>3, <1>4, <1>5, <1>6, <1>7, <1>8, <1>10, <1>11, <1>12, <1>13, <1>14, <1>15, <1>16
          DEF Next, StoreStep

\* The empty cache is the empty store.
LEMMA InitRefines == Init => Store!StoreInit
  BY DEF Init, Store!StoreInit

\* The cache is the store RecordStore describes: lookups return what was last
\* stored for the label, the list is in order of last use, only expired
\* entries are dropped, and nothing but a store into a full cache, or a use
\* after remove_record freed another record's block, ends the process.  The
\* reserve must fit into max_size, and the clock stay below the mark of
\* permanent records, 2^40 seconds.
THEOREM CacheIsStore ==
    SameSecond /\ Reserve <= MaxSize /\ DNS_CACHE_PERMANENT > MaxNow
        => (Spec => ImplementsStore)
  <1> SUFFICES ASSUME SameSecond, Reserve <= MaxSize, DNS_CACHE_PERMANENT > MaxNow
               PROVE  Spec => ImplementsStore
    OBVIOUS
  <1>1. Init => Inv
    BY InitIInv, InitTypes, InitSInv, InitRInv DEF Inv
  <1>2. Inv /\ [Next]_vars => Inv'
    BY NextIInv, NextTypes, NextSInv, NextRInv DEF Inv
  <1>3. Inv /\ Inv' /\ [Next]_vars => [Store!StoreNext]_(Store!svars)
    BY NextRefines
  <1> QED BY <1>1, <1>2, <1>3, InitRefines, PTL DEF Spec, ImplementsStore, Store!StoreSpec

=============================================================================
