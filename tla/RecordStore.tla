----------------------------- MODULE RecordStore -----------------------------
(***************************************************************************)
(* What the record cache of src/src/cache.c provides to its caller: a      *)
(* table from labels to answers kept in order of last use, from which an   *)
(* answer list is dropped when its first entry has expired.  It is bounded *)
(* by Capacity, and it also says when using it may end the process: when a *)
(* store finds it full, and at any call once an entry was dropped from     *)
(* among others.                                                           *)
(***************************************************************************)
EXTENDS Integers, Sequences, SequencesExt

CONSTANTS
    Labels,
    Payloads,     \* answer lists: non-empty sequences of expiry times
    Capacity

VARIABLES
    order,        \* the labels stored, most recently used first
    store,        \* the answers of each label, <<>> for none
    now,
    ret,          \* what the last lookup returned
    broken,       \* an expired label was dropped while others were stored
    halted        \* the process has ended

svars == <<order, store, now, ret, broken, halted>>

\* s without the element e, which occurs at most once.
Without(s, e) ==
    IF \E k \in 1..Len(s) : s[k] = e
    THEN RemoveAt(s, CHOOSE k \in 1..Len(s) : s[k] = e)
    ELSE s

Stored(l) == \E k \in 1..Len(order) : order[k] = l

StoreInit ==
    /\ order = <<>>
    /\ store = [l \in Labels |-> <<>>]
    /\ now = 0
    /\ ret = <<>>
    /\ broken = FALSE
    /\ halted = FALSE

Put(l, a) ==
    /\ ~halted
    /\ Len(order) < Capacity
    /\ order' = <<l>> \o Without(order, l)
    /\ store' = [store EXCEPT ![l] = a]
    /\ UNCHANGED <<now, ret, broken, halted>>

Hit(l) ==
    /\ ~halted
    /\ Stored(l) /\ store[l][1] >= now
    /\ order' = <<l>> \o Without(order, l)
    /\ ret' = store[l]
    /\ UNCHANGED <<store, now, broken, halted>>

Miss(l) ==
    /\ ~halted
    /\ ~Stored(l)
    /\ ret' = <<>>
    /\ UNCHANGED <<order, store, now, broken, halted>>

Drop(l) ==
    /\ ~halted
    /\ Stored(l) /\ store[l][1] < now
    /\ order' = Without(order, l)
    /\ store' = [store EXCEPT ![l] = <<>>]
    /\ ret' = <<>>
    /\ broken' = (broken \/ Len(order) > 1)
    /\ UNCHANGED <<now, halted>>

Halt ==
    /\ ~halted
    /\ broken \/ Len(order) = Capacity
    /\ halted' = TRUE
    /\ UNCHANGED <<order, store, now, ret, broken>>

Pass ==
    /\ now' = now + 1
    /\ UNCHANGED <<order, store, ret, broken, halted>>

StoreNext ==
    \/ \E l \in Labels, a \in Payloads : Put(l, a)
    \/ \E l \in Labels : Hit(l) \/ Miss(l) \/ Drop(l)
    \/ Halt
    \/ Pass

StoreSpec == StoreInit /\ [][StoreNext]_svars

=============================================================================
