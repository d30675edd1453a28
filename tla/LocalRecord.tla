---------------------------- MODULE LocalRecord -----------------------------
(***************************************************************************)
(* Loading the local records: load_local_record of src/src/local_record.c  *)
(* and the static caches of src/src/cache.c it fills.                      *)
(*                                                                         *)
(* The file is read three times: its lines are counted, its pairs (address *)
(* and name) are counted by kind to size the caches, and the pairs are     *)
(* stored.  The last two use fscanf("%s%s"), which knows no lines: it      *)
(* takes the file's words two by two.                                      *)
(*                                                                         *)
(* A line is [words, bare]: bare says it is the lone "\n" that is not      *)
(* counted; a line of blanks has no words and is.  A word is [kind, val],  *)
(* its kind being what inet_pton makes of it.  Words fit their buffers.    *)
(***************************************************************************)
EXTENDS Integers, Sequences, SequencesExt, FiniteSets

CONSTANTS
    Files,      \* the files that may be there
    NoFile      \* a file name that cannot be opened

Kinds == {"v4", "v4zero", "v6", "v6zero", "word"}

Word == [kind : Kinds, val : STRING]
WordsOf(f) == FlattenSeq([i \in DOMAIN f |-> f[i].words])

ASSUME FileAssumption ==
    /\ NoFile \notin Files
    /\ \A f \in Files :
           /\ f \in Seq([words : Seq(Word), bare : BOOLEAN])
           /\ \A i \in DOMAIN f : f[i].bare => f[i].words = <<>>

VARIABLES
    file,
    pc,
    line,           \* lines that count
    tries, left,    \* `_' and `_line' (or line, the second time)
    pos,            \* pairs read since the last rewind
    v4, v6, black,
    A, AAAA, blacklist,     \* cacheset->A.local, ->AAAA.local, ->blacklist
    refused         \* positions of pairs set_static_cache did not take

counts == <<v4, v6, black>>
caches == <<A, AAAA, blacklist>>
vars == <<file, pc, line, tries, left, pos, counts, caches, refused>>

-----------------------------------------------------------------------------
(***************************************************************************)
(* A static cache: data[0..top-1] and, behind each, the list of the other  *)
(* addresses of its name.  The hash table finds the element of a label.    *)
(***************************************************************************)
NotInit == [is_init |-> FALSE, size |-> 0, data |-> <<>>, table |-> 0]

\* The loop leaves after the first divisor, which is 2.
find_smallest_prime(n) ==
    LET taken(k) == k # 1 /\ (k = 0 \/ k % 2 # 0)
    IN  CHOOSE k \in n..(n + 2) : taken(k) /\ \A j \in n..(k - 1) : ~taken(j)

\* The table has size / filling_factor chains, the factor being 0.75.  Mutant:
\* times.
init_hashtableMutant(size) == find_smallest_prime((3 * size) \div 4)
init_hashtable(size) == find_smallest_prime((4 * size) \div 3)

init_staticCache(cache, size) ==
    IF cache.is_init THEN cache
    ELSE [is_init |-> TRUE, size |-> size, data |-> <<>>, table |-> init_hashtable(size)]

\* The index of the label's element, or 0.
Find(cache, label) == SelectInSeq(cache.data, LAMBDA d : d.label = label)

get_static_cache(cache, label) ==
    LET i == Find(cache, label) IN IF i = 0 THEN <<>> ELSE cache.data[i].ips

\* A further address goes to the end of the list.  Mutant: to its start.
AddressAddedMutant(ips, ip) == <<ip>> \o ips
AddressAdded(ips, ip) == Append(ips, ip)

CanSet(cache, label) == cache.is_init /\ (Find(cache, label) # 0 \/ Len(cache.data) # cache.size)

set_static_cache(cache, label, ip) ==
    LET i == Find(cache, label)
    IN  CASE ~CanSet(cache, label) -> cache
          [] CanSet(cache, label) /\ i # 0 ->
                [cache EXCEPT !.data[i].ips = AddressAdded(@, ip)]
          [] CanSet(cache, label) /\ i = 0 ->
                [cache EXCEPT !.data = Append(@, [label |-> label, ips |-> <<ip>>])]

-----------------------------------------------------------------------------
Words == WordsOf(file)
NPairs == Len(Words) \div 2
Ip(i) == Words[2 * i - 1]
Name(i) == Words[2 * i]

Init ==
    /\ file \in Files \cup {NoFile}
    /\ pc = "open"
    /\ line = 0 /\ tries = 0 /\ left = 0 /\ pos = 0
    /\ v4 = 0 /\ v6 = 0 /\ black = 0
    /\ A = NotInit /\ AAAA = NotInit /\ blacklist = NotInit
    /\ refused = {}

OpenFails ==
    /\ pc = "open" /\ file = NoFile
    /\ pc' = "failed"
    /\ UNCHANGED <<file, line, tries, left, pos, counts, caches, refused>>

\* Mutant: a bound that is one too low.
RewindMutant(n) == tries' = n - 1 /\ left' = n /\ pos' = 0
Rewind(n) == tries' = 2 * n /\ left' = n /\ pos' = 0

CountLines ==
    /\ pc = "open" /\ file # NoFile
    /\ line' = Cardinality({i \in DOMAIN file : ~file[i].bare})
    /\ Rewind(line')
    /\ pc' = "count"
    /\ UNCHANGED <<file, counts, caches, refused>>

\* One turn of `while(_--)': fscanf finds a pair, or less than one.
\* Mutant: one turn too many.
MoreMutant == tries >= 0 /\ left > 0
More == tries > 0 /\ left > 0

NextPair ==
    /\ More /\ tries' = tries - 1
    /\ pos < NPairs
    /\ pos' = pos + 1 /\ left' = left - 1

\* Mutant: `_' counts pairs only.
NoPairMutant == More /\ pos >= NPairs /\ UNCHANGED <<tries, pos, left>>
NoPair ==
    /\ More /\ tries' = tries - 1
    /\ pos >= NPairs
    /\ UNCHANGED <<pos, left>>

\* Mutant: a zero IPv6 address is not counted.
IsBlackMutant(kind) == kind = "v4zero"
IsBlack(kind) == kind \in {"v4zero", "v6zero"}

CountPair ==
    /\ pc = "count" /\ NextPair
    /\ LET kind == Ip(pos').kind
       IN  /\ v4' = IF kind = "v4" THEN v4 + 1 ELSE v4
           /\ v6' = IF kind = "v6" THEN v6 + 1 ELSE v6
           /\ black' = IF IsBlack(kind) THEN black + 1 ELSE black
    /\ UNCHANGED <<file, pc, line, caches, refused>>

StorePair ==
    /\ pc = "store" /\ NextPair
    /\ LET kind == Ip(pos').kind
           ip == Ip(pos').val
           n == Name(pos').val
           into == CASE kind = "v4" -> A [] kind = "v6" -> AAAA [] OTHER -> blacklist
       IN  /\ A' = IF kind = "v4" THEN set_static_cache(A, n, ip) ELSE A
           /\ AAAA' = IF kind = "v6" THEN set_static_cache(AAAA, n, ip) ELSE AAAA
           /\ blacklist' = IF kind \in {"v4zero", "v6zero"}
                           THEN set_static_cache(blacklist, n, ip) ELSE blacklist
           /\ refused' = IF kind # "word" /\ ~CanSet(into, n) THEN refused \cup {pos'} ELSE refused
    /\ UNCHANGED <<file, pc, line, counts>>

ReadNothing ==
    /\ pc \in {"count", "store"} /\ NoPair
    /\ UNCHANGED <<file, pc, line, counts, caches, refused>>

\* A.local is given the number of IPv6 records if there are no IPv4 ones.
InitCaches ==
    /\ pc = "count" /\ ~More
    /\ LET A4 == IF v4 > 0 THEN init_staticCache(A, v4) ELSE A
       IN  A' = IF v6 > 0 THEN init_staticCache(A4, v6) ELSE A4
    /\ blacklist' = IF black > 0 THEN init_staticCache(blacklist, black) ELSE blacklist
    /\ Rewind(line)
    /\ pc' = "store"
    /\ UNCHANGED <<file, line, counts, AAAA, refused>>

Finish ==
    /\ pc = "store" /\ ~More
    /\ pc' = "done"
    /\ UNCHANGED <<file, line, tries, left, pos, counts, caches, refused>>

Next == OpenFails \/ CountLines \/ CountPair \/ ReadNothing \/ InitCaches \/ StorePair \/ Finish

Spec == Init /\ [][Next]_vars /\ WF_vars(Next)

-----------------------------------------------------------------------------
(***************************************************************************)
(* Properties.                                                             *)
(***************************************************************************)
\* The state is of its type.
TypeOK ==
    /\ pc \in {"open", "failed", "count", "store", "done"}
    /\ {line, tries, left, pos, v4, v6, black} \subseteq Nat
    /\ \A c \in {A, AAAA, blacklist} :
           /\ c.is_init \in BOOLEAN /\ {c.size, c.table} \subseteq Nat
           /\ \A i \in DOMAIN c.data : c.data[i].ips # <<>>
    /\ refused \subseteq Nat

\* The pass that stores needs no more room than the pass that counted found:
\* "static cache overflow" is never reached, whatever the file looks like, and
\* only IPv6 records, whose cache is not initialised, are turned away.
NoOverflow == \A i \in refused : Ip(i).kind = "v6"

\* The bound on the turns of both loops (`_') never cuts them short: where they
\* stop, every pair was read or as many pairs as there are lines.
ReadsToTheEnd == pc \in {"count", "store"} /\ ~More => pos = NPairs \/ pos = line

\* No static cache divides by an empty table, and none has more names than
\* chains.
ChainsSuffice == \A c \in {A, blacklist} : c.is_init => c.table > 0 /\ Len(c.data) <= c.table

\* A line that gives name n an address of these kinds.
Gives(l, kinds, n) == l.words # <<>> /\ l.words[1].kind \in kinds /\ l.words[2].val = n

\* The addresses the file gives a name, in the file's order.
Given(kinds, n) ==
    LET given[i \in 0..Len(file)] ==
            IF i = 0 THEN <<>>
            ELSE IF Gives(file[i], kinds, n) THEN Append(given[i - 1], file[i].words[1].val)
            ELSE given[i - 1]
    IN  given[Len(file)]

WellFormed == \A i \in DOMAIN file : Len(file[i].words) \in {0, 2}

\* After loading a file of address and name per line, with empty lines anywhere,
\* a lookup of a name in A.local and in the blacklist gives what the file says.
LoadsFile ==
    pc = "done" /\ WellFormed =>
        \A i \in 1..NPairs :
            /\ get_static_cache(A, Name(i).val) = Given({"v4"}, Name(i).val)
            /\ get_static_cache(blacklist, Name(i).val) = Given({"v4zero", "v6zero"}, Name(i).val)

\* Loading ends: fscanf at the end of the file does not keep a loop going.
LoadEnds == <>(pc \in {"done", "failed"})
=============================================================================
