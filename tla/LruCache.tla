------------------------------ MODULE LruCache ------------------------------
(***************************************************************************)
(* The record cache of src/src/cache.c: an LRU list threaded through an    *)
(* array of records by integer links, a stack of free array positions, and *)
(* a chained hash table (src/src/hash.c) from labels to records.           *)
(*                                                                         *)
(* get_cache_A_record and set_cache_A_(multi_)record hold Cache->lock from *)
(* their first line to their last, so calls do not interleave: a lookup is *)
(* one step.  A store is several (pc), because it may run pop_back any     *)
(* number of times before it inserts, and the clock moves meanwhile.       *)
(*                                                                         *)
(* `fault' is the first thing that ends the process or leaves C's defined  *)
(* behaviour: exit() called by the cache itself, or the use of a record    *)
(* whose data pointer is NULL or freed.  The process takes no step after   *)
(* it: what freed memory holds is up to the allocator, and nothing is      *)
(* claimed of an execution past that point.                                *)
(***************************************************************************)
EXTENDS Integers, FiniteSets, Sequences, SequencesExt

CONSTANTS
    Labels,            \* domain names
    NoLabel,           \* none of them
    Hash,              \* Hash[l]: _hash_label(l) % table->size
    MaxLength,         \* Cache->max_length (init_cache's record_length)
    LRU_POP_ITEM,      \* iterations of one pop_back
    SizeofRecordData,  \* sizeof(struct record_data)
    LabelLen,          \* strlen(label) + 1
    Reserve,           \* the 1024 bytes push_front keeps in reserve
    MaxSize,           \* Cache->max_size
    SizeMod,           \* 2^w for size_t's width w
    Answers,           \* what a caller stores: sequences of TTLs
    DNS_CACHE_PERMANENT,
    SameSecond,        \* TRUE: time(NULL) does not change during a store
    MaxNow             \* bound on the clock

ASSUME CacheAssumption ==
    /\ MaxLength \in Nat \ {0}
    /\ LRU_POP_ITEM \in Nat \ {0}
    /\ {SizeofRecordData, LabelLen, Reserve, MaxSize} \subseteq Nat \ {0}
    /\ SizeMod \in Nat /\ MaxSize + Reserve < SizeMod
    /\ DOMAIN Hash = Labels /\ NoLabel \notin Labels
    /\ Answers \subseteq Seq(Nat) /\ <<>> \notin Answers
    /\ DNS_CACHE_PERMANENT \in Nat
    /\ SameSecond \in BOOLEAN
    /\ MaxNow \in Nat

LRU_BUFFER_HEAD_POINT == 0

Slots   == 1..(MaxLength - 1)       \* positions that can hold a record
Records == 0..MaxLength             \* Cache->records
Buckets == {Hash[l] : l \in Labels}

\* A record's data pointer and the block it points to.  A freed block keeps
\* what it held, for the sake of stating properties; no step reads it.
NullData    == [st |-> "null", label |-> NoLabel, ans |-> <<>>]
LiveData(l, a) == [st |-> "live", label |-> l, ans |-> a]
DataBlocks  == {NullData} \cup [st : {"live", "freed"}, label : Labels, ans : Seq(Nat)]

Apis   == {"single", "multi"}       \* set_cache_A_record, ..._multi_record
\* What ends a walk along a hash chain, and what else ends the process.
WalkFaults == {"exit_invalid_record", "null_deref", "use_after_free"}
Faults     == WalkFaults \cup {"exit_no_space"}

VARIABLES
    rnext, rlast,      \* records[i].next, records[i].last
    valid,             \* records[i].valid
    size,              \* records[i].size
    data,              \* records[i].data
    stack,             \* Cache->stack[0..stack_top]
    length, used_size, first, last,
    label_hash,        \* the chains of Cache->label_hash: records in order
    now,               \* time(NULL)
    pc, req, t,        \* the store in progress: where, its arguments, pop_back's t
    ret,               \* what the last lookup returned, <<>> for NULL
    fault,
    lru                \* auxiliary: the records from most to least recent

list  == <<rnext, rlast, first, last, length, lru>>
memory == <<valid, size, data, stack, used_size, label_hash>>
vars  == <<list, memory, now, pc, req, t, ret, fault>>

NoReq == [label |-> NoLabel, ans |-> <<>>, api |-> "single"]
Requests == [label : Labels, ans : Seq(Nat), api : Apis]

(***************************************************************************)
(* init_cache.                                                             *)
(***************************************************************************)
Init ==
    /\ rnext = [i \in Records |-> IF i = LRU_BUFFER_HEAD_POINT THEN -1 ELSE 0]
    /\ rlast = [i \in Records |-> IF i = LRU_BUFFER_HEAD_POINT THEN -1 ELSE 0]
    /\ valid = [i \in Records |-> i = LRU_BUFFER_HEAD_POINT]
    /\ size  = [i \in Records |-> 0]
    /\ data  = [i \in Records |-> NullData]
    /\ stack = [i \in 1..MaxLength |-> MaxLength + 1 - i]
    /\ length = 0 /\ used_size = 0 /\ first = -1 /\ last = -1
    /\ label_hash = [b \in Buckets |-> <<>>]
    /\ now = 0
    /\ pc = "idle" /\ req = NoReq /\ t = 0
    /\ ret = <<>> /\ fault = "none"
    /\ lru = <<>>

-----------------------------------------------------------------------------
(***************************************************************************)
(* hash.c walks a chain with table->compare, here compare_record_with_label *)
(* which exits on a record that is not valid and otherwise reads the label *)
(* through the record's data pointer.  vld is valid[] as it then stands.   *)
(***************************************************************************)
compare(vld, r, l) ==
    IF ~vld[r] THEN "exit_invalid_record"
    ELSE CASE data[r].st = "null"  -> "null_deref"
           [] data[r].st = "freed" -> "use_after_free"
           [] data[r].st = "live"  -> IF data[r].label = l THEN "equal" ELSE "differ"

Chain(l) == label_hash[Hash[l]]

\* The walk for label l ends at the i-th node of the chain.
EndsAt(vld, l, i) ==
    /\ i \in 1..Len(Chain(l))
    /\ compare(vld, Chain(l)[i], l) # "differ"
    /\ \A j \in 1..(i - 1) : compare(vld, Chain(l)[j], l) = "differ"

Finds(vld, l, i)  == EndsAt(vld, l, i) /\ compare(vld, Chain(l)[i], l) = "equal"
NotFound(vld, l)  == \A i \in 1..Len(Chain(l)) : compare(vld, Chain(l)[i], l) = "differ"
WalkFails(vld, l, f) ==
    \E i \in 1..Len(Chain(l)) : EndsAt(vld, l, i) /\ compare(vld, Chain(l)[i], l) = f

\* Mutant: reset_hash_node forgets `last->next = node->next'.
UnlinkedMutant(l, i) == label_hash
Unlinked(l, i) == [label_hash EXCEPT ![Hash[l]] = RemoveAt(@, i)]

\* set_hashnode adds a node at the end of the chain.
Linked(l, r) == [label_hash EXCEPT ![Hash[l]] = Append(@, r)]

Fail(f) == fault' = f /\ UNCHANGED <<list, memory, now, pc, req, t, ret>>

-----------------------------------------------------------------------------
(***************************************************************************)
(* List surgery, as the pair of link arrays and Cache->last it leaves.     *)
(***************************************************************************)
\* Mutant: the case of the last node forgets Cache->last.
linklist_remove_nodeMutant(r) ==
    IF rnext[r] > 0
    THEN [rnext |-> [rnext EXCEPT ![rlast[r]] = rnext[r]],
          rlast |-> [rlast EXCEPT ![rnext[r]] = rlast[r]],
          last  |-> last]
    ELSE [rnext |-> [rnext EXCEPT ![rlast[r]] = -1],
          rlast |-> rlast,
          last  |-> last]

linklist_remove_node(r) ==
    IF rnext[r] > 0
    THEN [rnext |-> [rnext EXCEPT ![rlast[r]] = rnext[r]],
          rlast |-> [rlast EXCEPT ![rnext[r]] = rlast[r]],
          last  |-> last]
    ELSE [rnext |-> [rnext EXCEPT ![rlast[r]] = -1],
          rlast |-> rlast,
          last  |-> rlast[r]]

\* s without the element e, which occurs at most once.
Without(s, e) ==
    IF \E k \in 1..Len(s) : s[k] = e
    THEN RemoveAt(s, CHOOSE k \in 1..Len(s) : s[k] = e)
    ELSE s

\* Cut r out and make it the first node (tail of push_front and of get).
MoveToFront(r) ==
    LET cut == linklist_remove_node(r) IN
    /\ rnext' = [cut.rnext EXCEPT ![r] = first, ![LRU_BUFFER_HEAD_POINT] = r]
    /\ rlast' = [cut.rlast EXCEPT ![r] = LRU_BUFFER_HEAD_POINT, ![first] = r]
    /\ first' = r
    /\ last'  = cut.last
    /\ lru' = <<r>> \o Without(lru, r)

\* Link a record that was not in the list; length is already counted.
PushFront(r) ==
    /\ IF length > 0
       THEN /\ rnext' = [rnext EXCEPT ![r] = first, ![LRU_BUFFER_HEAD_POINT] = r]
            /\ rlast' = [rlast EXCEPT ![r] = LRU_BUFFER_HEAD_POINT, ![first] = r]
            /\ last'  = last
       ELSE /\ rnext' = [rnext EXCEPT ![r] = -1, ![LRU_BUFFER_HEAD_POINT] = r]
            /\ rlast' = [rlast EXCEPT ![r] = LRU_BUFFER_HEAD_POINT]
            /\ last'  = r
    /\ first' = r
    /\ length' = length + 1
    /\ lru' = <<r>> \o lru

\* Mutant: pop_back forgets `records[next_to_last].next = -1'.
CutLastMutant ==
    /\ last'  = IF length = 1 THEN LRU_BUFFER_HEAD_POINT ELSE rlast[last]
    /\ first' = CASE length = 1 -> LRU_BUFFER_HEAD_POINT
                  [] length = 2 -> rlast[last]
                  [] OTHER      -> first
    /\ length' = length - 1
    /\ lru' = Front(lru)
    /\ UNCHANGED <<rnext, rlast>>

\* Cut off the last node (tail of pop_back).
CutLast ==
    /\ rnext' = [rnext EXCEPT ![rlast[last]] = -1]
    /\ last'  = IF length = 1 THEN LRU_BUFFER_HEAD_POINT ELSE rlast[last]
    /\ first' = CASE length = 1 -> LRU_BUFFER_HEAD_POINT
                  [] length = 2 -> rlast[last]
                  [] OTHER      -> first
    /\ length' = length - 1
    /\ lru' = Front(lru)
    /\ UNCHANGED rlast

\* Mutants: the position is not given back; it is given back at stack_top,
\* which overwrites the position already there.
cache_stack_pushLeaks(x)      == stack
cache_stack_pushOverwrites(x) == Append(Front(stack), x)
cache_stack_push(x) == IF x >= 0 /\ x < MaxLength THEN Append(stack, x) ELSE stack

\* Mutant: used_size as a signed int.
SizeLessMutant(r) == used_size - size[r]
\* used_size is a size_t: nothing adds to it, so subtracting wraps around.
SizeLess(r) == (used_size - size[r]) % SizeMod

\* realse_A_record frees the block; the pointer stays.
Released(r) == IF data[r].st = "null" THEN data ELSE [data EXCEPT ![r].st = "freed"]

\* Mutant: expiry one second early.
ExpiredMutant(r) ==
    /\ data[r].ans[1] <= now
    /\ data[r].ans[1] # DNS_CACHE_PERMANENT

Expired(r) ==       \* check_A_record looks at the first answer only
    /\ data[r].ans[1] < now
    /\ data[r].ans[1] # DNS_CACHE_PERMANENT

Running == fault = "none"
Idle    == Running /\ pc = "idle"

-----------------------------------------------------------------------------
(***************************************************************************)
(* The store: set_cache_A_record and set_cache_A_multi_record.             *)
(***************************************************************************)
\* Mutant: stack[0] is taken for usable.
is_fullMutant == length >= MaxLength
is_full == length >= MaxLength - 1

\* Mutant: `>=' where max_size is exactly the reserve.
NeedsSpaceMutant == (used_size + Reserve) % SizeMod >= MaxSize
NeedsSpace == (used_size + Reserve) % SizeMod > MaxSize

\* The caller computed the expiry times from its own reading of the clock
\* (main.c:240-248) just before the call.  push_front first makes room.
SetCall(l, a, api) ==
    /\ Idle
    /\ api = "single" => Len(a) = 1
    /\ req' = [label |-> l, ans |-> [i \in 1..Len(a) |-> now + a[i]], api |-> api]
    /\ pc' = IF is_full THEN "pop" ELSE "space"
    /\ t'  = IF is_full THEN LRU_POP_ITEM ELSE 0
    /\ UNCHANGED <<list, memory, now, ret, fault>>

\* One iteration of pop_back's loop over a cache that is not empty.  The
\* record is marked invalid before reset_hash_node walks its chain.
PopRecord ==
    LET r   == last
        lbl == data[r].label
        vld == [valid EXCEPT ![r] = FALSE]
        keep(hash) ==
            /\ valid' = vld
            /\ stack' = cache_stack_push(r)
            /\ label_hash' = hash
            /\ used_size' = SizeLess(r)
            /\ data' = Released(r)
            /\ size' = [size EXCEPT ![r] = 0]
            /\ CutLast
            /\ t' = t - 1
            /\ UNCHANGED <<now, pc, req, ret, fault>>
    IN
    /\ Running /\ pc = "pop" /\ t > 0 /\ length > 0
    /\ \/ data[r].st = "null"  /\ Fail("null_deref")
       \/ data[r].st = "freed" /\ Fail("use_after_free")
       \/ /\ data[r].st = "live"
          /\ \/ \E i \in 1..Len(Chain(lbl)) : Finds(vld, lbl, i) /\ keep(Unlinked(lbl, i))
             \/ NotFound(vld, lbl) /\ keep(label_hash)
             \/ \E f \in WalkFaults : WalkFails(vld, lbl, f) /\ Fail(f)

\* pop_back returns: t iterations are done, or the rest find nothing.
PopReturn ==
    /\ Running /\ pc = "pop" /\ (t = 0 \/ length = 0)
    /\ pc' = "space" /\ t' = 0
    /\ UNCHANGED <<list, memory, now, req, ret, fault>>

\* The while of push_front goes round: still too little room.
PopAgain ==
    /\ Running /\ pc = "space" /\ NeedsSpace
    /\ pc' = "pop" /\ t' = LRU_POP_ITEM
    /\ UNCHANGED <<list, memory, now, req, ret, fault>>

\* add_A_record and add_A_multi_record keep the answers still alive; with
\* none left they leave the record's data pointer and its size as they are.
Alive == {i \in 1..Len(req.ans) : now <= req.ans[i]}
Rank(i) == Cardinality({j \in Alive : j <= i})
Fresh == [k \in 1..Cardinality(Alive) |-> req.ans[CHOOSE i \in Alive : Rank(i) = k]]

StoredSize == IF req.api = "single" THEN SizeofRecordData + LabelLen
                                    ELSE Len(Fresh) * SizeofRecordData

Add(r, d) ==
    /\ data' = IF Fresh = <<>> THEN d ELSE [d EXCEPT ![r] = LiveData(req.label, Fresh)]
    /\ size' = [size EXCEPT ![r] = IF Fresh = <<>> THEN 0 ELSE StoredSize]
    /\ pc' = "idle" /\ req' = NoReq
    /\ UNCHANGED <<used_size, now, t, ret, fault>>

Inserting == Running /\ pc = "space" /\ ~NeedsSpace

\* The label is cached: its record moves to the front, its data is replaced.
InsertFound ==
    /\ Inserting
    /\ \E i \in 1..Len(Chain(req.label)) :
        LET r == Chain(req.label)[i] IN
        /\ Finds(valid, req.label, i)
        /\ IF r = first THEN UNCHANGED list
                        ELSE MoveToFront(r) /\ UNCHANGED length
        /\ Add(r, IF size[r] > 0 THEN Released(r) ELSE data)
        /\ UNCHANGED <<valid, stack, label_hash>>

\* The label is not cached: a position is taken from the stack.  stack[0] is
\* never handed out: cache_stack_pop wants stack_top > 0.
InsertNew ==
    /\ Inserting
    /\ NotFound(valid, req.label)
    /\ IF Len(stack) > 1
       THEN LET r == Last(stack) IN
            /\ stack' = Front(stack)
            /\ label_hash' = Linked(req.label, r)
            /\ valid' = [valid EXCEPT ![r] = TRUE]
            /\ PushFront(r)
            /\ Add(r, data)
       ELSE Fail("exit_no_space")

InsertFails ==
    /\ Inserting
    /\ \E f \in WalkFaults : WalkFails(valid, req.label, f) /\ Fail(f)

-----------------------------------------------------------------------------
(***************************************************************************)
(* The lookup: get_cache_A_record.                                         *)
(***************************************************************************)
GetHit(l) ==
    /\ Idle
    /\ \E i \in 1..Len(Chain(l)) :
        LET r == Chain(l)[i] IN
        /\ Finds(valid, l, i)
        /\ ~Expired(r)
        /\ IF r = first THEN UNCHANGED list
                        ELSE MoveToFront(r) /\ UNCHANGED length
        /\ ret' = data[r].ans
    /\ UNCHANGED <<memory, now, pc, req, t, fault>>

GetMiss(l) ==
    /\ Idle
    /\ NotFound(valid, l)
    /\ ret' = <<>>
    /\ UNCHANGED <<list, memory, now, pc, req, t, fault>>

\* The list without r, in remove_record's three cases.
Cut(r) ==
    IF r = last
    THEN [rnext |-> [rnext EXCEPT ![rlast[r]] = -1], rlast |-> rlast,
          first |-> first, last |-> rlast[r]]
    ELSE IF r = first
    THEN [rnext |-> [rnext EXCEPT ![LRU_BUFFER_HEAD_POINT] = rnext[r]],
          rlast |-> [rlast EXCEPT ![rnext[r]] = LRU_BUFFER_HEAD_POINT],
          first |-> rnext[r], last |-> last]
    ELSE LET cut == linklist_remove_node(r) IN
         [rnext |-> cut.rnext, rlast |-> cut.rlast, first |-> first, last |-> cut.last]

\* remove_record.  The block it frees, and whose size it subtracts, is the
\* one of Cache->last after the list was cut: never the removed record's.
GetExpired(l) ==
    /\ Idle
    /\ \E i \in 1..Len(Chain(l)) :
        LET r    == Chain(l)[i]
            cut  == Cut(r)
            tail == cut.last
        IN
        /\ Finds(valid, l, i)
        /\ Expired(r)
        /\ IF data[tail].st = "freed"
           THEN Fail("use_after_free")
           ELSE /\ rnext' = cut.rnext /\ rlast' = cut.rlast
                /\ first' = cut.first /\ last' = cut.last
                /\ label_hash' = Unlinked(l, i)
                /\ used_size' = SizeLess(tail)
                /\ data' = Released(tail)
                /\ size' = [size EXCEPT ![tail] = 0]
                /\ valid' = [valid EXCEPT ![r] = FALSE]
                /\ length' = length - 1
                /\ stack' = cache_stack_push(r)
                /\ lru' = Without(lru, r)
                /\ ret' = <<>>
                /\ UNCHANGED <<now, pc, req, t, fault>>

GetFails(l) ==
    /\ Idle
    /\ \E f \in WalkFaults : WalkFails(valid, l, f) /\ Fail(f)

-----------------------------------------------------------------------------
Tick ==
    /\ Running
    /\ SameSecond => pc = "idle"
    /\ now < MaxNow
    /\ now' = now + 1
    /\ UNCHANGED <<list, memory, pc, req, t, ret, fault>>

\* The process has ended.
Stopped == ~Running /\ UNCHANGED vars

StoreStep ==
    \/ PopRecord
    \/ PopReturn
    \/ PopAgain
    \/ InsertFound
    \/ InsertNew
    \/ InsertFails

Next ==
    \/ \E l \in Labels, a \in Answers, api \in Apis : SetCall(l, a, api)
    \/ StoreStep
    \/ \E l \in Labels : GetHit(l)
    \/ \E l \in Labels : GetMiss(l)
    \/ \E l \in Labels : GetExpired(l)
    \/ \E l \in Labels : GetFails(l)
    \/ Tick
    \/ Stopped

\* A call that has begun runs on: nothing in it waits.
Spec == Init /\ [][Next]_vars /\ WF_vars(StoreStep)

-----------------------------------------------------------------------------
ListTypeOK ==
    /\ rnext \in [Records -> -1..MaxLength] /\ rlast \in [Records -> -1..MaxLength]
    /\ first \in -1..MaxLength /\ last \in -1..MaxLength
    /\ length \in 0..MaxLength
    /\ lru \in Seq(Slots)
    /\ valid \in [Records -> BOOLEAN]

PoolTypeOK ==
    /\ stack \in Seq(1..MaxLength)
    /\ label_hash \in [Buckets -> Seq(Slots)]

TypeOK ==
    /\ ListTypeOK /\ PoolTypeOK
    /\ size \in [Records -> Nat]
    /\ data \in [Records -> DataBlocks]
    /\ used_size \in 0..(SizeMod - 1)
    /\ now \in 0..MaxNow
    /\ pc \in {"idle", "pop", "space"} /\ req \in Requests \cup {NoReq}
    /\ t \in 0..LRU_POP_ITEM
    /\ ret \in Seq(Nat)
    /\ fault \in Faults \cup {"none"}

\* The links rn and rl lead through the records of s, each once, from the
\* head record to -1 and back to the head.
LinksMatch(rn, rl, s) ==
    /\ \A i, j \in 1..Len(s) : s[i] = s[j] => i = j
    /\ rn[LRU_BUFFER_HEAD_POINT] = IF Len(s) > 0 THEN s[1] ELSE -1
    /\ \A i \in 1..Len(s) :
        /\ rn[s[i]] = IF i < Len(s) THEN s[i + 1] ELSE -1
        /\ rl[s[i]] = IF i > 1 THEN s[i - 1] ELSE LRU_BUFFER_HEAD_POINT

\* The list is what test_normal walks: following next from the head record
\* visits `length' records without repetition, from Cache->first to
\* Cache->last, following last leads back to the head, and the valid records
\* are exactly those of the list.
ListMatches ==
    /\ Len(lru) = length
    /\ LinksMatch(rnext, rlast, lru)
    /\ length > 0 => first = lru[1] /\ last = lru[length]
    /\ \A r \in 1..MaxLength : valid[r] <=> \E i \in 1..Len(lru) : lru[i] = r

\* Every position is in the list or on the stack of free positions, never in
\* both and never twice: no record is lost or handed out while in use, and
\* stack_top stays within the array cache_stack_push writes to.
SlotAccounting ==
    /\ Len(stack) + length = MaxLength /\ length < MaxLength
    /\ stack[1] = MaxLength
    /\ \A i, j \in 1..Len(stack) : stack[i] = stack[j] => i = j
    /\ \A i \in 1..Len(stack) : \A j \in 1..Len(lru) : stack[i] # lru[j]

\* push_front never runs out of positions ("no remain space", which ends the
\* process): making room first always leaves one.
NeverOutOfSlots == fault # "exit_no_space"

\* The hash table indexes exactly the list: each listed record is at one
\* place of one chain, the chain of its own label, no chain names a record
\* that is not listed, and no label is cached twice.
IndexMatches ==
    LET label(i) == data[lru[i]].label IN
    /\ \A b \in Buckets : \A k \in 1..Len(label_hash[b]) :
        \E i \in 1..Len(lru) : lru[i] = label_hash[b][k] /\ Hash[label(i)] = b
    /\ \A i \in 1..Len(lru) :
        \E k \in 1..Len(Chain(label(i))) : Chain(label(i))[k] = lru[i]
    /\ \A b \in Buckets : \A j, k \in 1..Len(label_hash[b]) :
        label_hash[b][j] = label_hash[b][k] => j = k
    /\ \A i, j \in 1..Len(lru) : label(i) = label(j) => i = j

\* The answers a store can be called with, as expiry times.
Payloads == {[i \in 1..Len(a) |-> n + a[i]] : a \in Answers, n \in 0..MaxNow}

\* The cache implements the store RecordStore describes: lookups return the
\* answers last stored for the label, order is order of last use, only
\* expired answers are dropped, and the process ends only where Halt allows.
Store == INSTANCE RecordStore WITH
    Payloads <- Payloads,
    Capacity <- MaxLength - 1,
    order    <- [i \in 1..Len(lru) |-> data[lru[i]].label],
    store    <- [l \in Labels |->
                    IF \E i \in 1..Len(lru) : data[lru[i]].label = l
                    THEN data[lru[CHOOSE i \in 1..Len(lru) : data[lru[i]].label = l]].ans
                    ELSE <<>>],
    broken   <- \E i \in 1..Len(lru) : data[lru[i]].st = "freed",
    halted   <- fault # "none"

ImplementsStore == Store!StoreSpec

\* A store returns (or the process ends): the loop that makes room in
\* push_front, `while (used_size + 1024 > max_size)', does not run for ever.
StoreReturns == pc # "idle" ~> (pc = "idle" \/ fault # "none")

\* pop_back "removes some records" (cache.c:260) and the store goes on.
EvictionSurvives == fault # "exit_invalid_record"

=============================================================================
