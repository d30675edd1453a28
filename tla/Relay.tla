------------------------------- MODULE Relay --------------------------------
(***************************************************************************)
(* The relay of src/src/main.c: one thread that selects on two UDP sockets *)
(* (server_sockfd for clients, query_sockfd for the upstream server), and  *)
(* the IDAdapter, a ring of slots that remembers which client asked what   *)
(* while the upstream server is being asked under the slot's number.       *)
(*                                                                         *)
(* A request is known by k, the order of its arrival: k stands for the     *)
(* client's address and the id the client chose, which is what the slot    *)
(* keeps and the reply is addressed with.  The upstream server may answer  *)
(* late, several times or never.                                           *)
(*                                                                         *)
(* The record caches are used as RecordStore describes them: a store that  *)
(* finds its cache full ends the process, and so may any use of a cache    *)
(* from which an entry was dropped from among others.  RecordStore stands  *)
(* for a clock that is still during a store.  Where it is not, a record is *)
(* left without data (CacheLapse), after which any use of the cache may    *)
(* end the process and a store may never return (RelayHangs).              *)
(***************************************************************************)
EXTENDS Integers, Sequences, FiniteSets

CONSTANTS
    Names,
    Blacklist, LocalA, LocalAAAA,   \* names of the three static caches
    Forms,          \* what clients send: see RelayAssumption
    MaxRequests,    \* bound: datagrams from clients
    SIZE,           \* IDAadpter_SIZE
    DNS_TTL,        \* slot age, in clock steps, at which a slot times out
    Capacity,       \* records a record cache holds when it is full
    MaxCopies,      \* bound: answers to one forwarded query
    MaxQueued,      \* bound: answers waiting in query_sockfd
    Upstream,       \* when answers come: "any", "timely", "awaited" (see InTime)
    Relock          \* what relocking a held rwlock may do: "returns", "blocks"

RRTYPE_A    == 1
RRTYPE_AAAA == 28
CacheTypes  == {RRTYPE_A, RRTYPE_AAAA}

ASSUME RelayAssumption ==
    /\ Blacklist \cup LocalA \cup LocalAAAA \subseteq Names
    /\ Forms \subseteq [name : Names, qtype : Nat, query : BOOLEAN]
    /\ {MaxRequests, SIZE, DNS_TTL, Capacity} \subseteq Nat \ {0}
    /\ {MaxCopies, MaxQueued} \subseteq Nat
    /\ Upstream \in {"any", "timely", "awaited"}
    /\ Relock \subseteq {"returns", "blocks"} /\ Relock # {}

Slots == 0..(SIZE - 1)
Ks    == 1..MaxRequests
None  == 0          \* no request

VARIABLES
    pc, rset,       \* where the loop is; the readable sockets of this round
    at,             \* the slot the scan for timed-out slots looks at next
    reqs,           \* the requests that ever arrived
    inbox,          \* server_sockfd's queue
    answers,        \* query_sockfd's queue
    valid, owner, type, age,    \* IDAdapter.data[i]: owner is addr and old_id
    next, rwlock,
    asked,          \* queries sent upstream: [id, k]
    copies,         \* how often each was answered
    cache,          \* cache[ty][n]: whose answer is stored, or None
    expired,        \* expired[ty]: names whose first answer is past its ttl
    broken,         \* broken[ty]: an entry was dropped from among others
    replies,        \* replies[k]: what was sent to the client of k, in order
    dropped         \* requests for which IDAdapter_push returned -1

adapter == <<valid, owner, type, age, next, rwlock>>
caches  == <<cache, expired, broken>>
network == <<reqs, asked, copies>>
vars == <<pc, rset, at, inbox, answers, adapter, caches, network, replies, dropped>>

Whats == {"refused", "name_error", "local", "cached", "answer", "timeout"}
Reply(w, j) == [what |-> w, of |-> j]

Init ==
    /\ pc = "select" /\ rset = {} /\ at = 0
    /\ reqs = <<>> /\ inbox = <<>> /\ answers = <<>>
    /\ valid = [i \in Slots |-> FALSE]
    /\ owner = [i \in Slots |-> None]
    /\ type  = [i \in Slots |-> 0]
    /\ age   = [i \in Slots |-> 0]
    /\ next = 0 /\ rwlock = "free"
    /\ asked = {} /\ copies = [k \in Ks |-> 0]
    /\ cache = [ty \in CacheTypes |-> [n \in Names |-> None]]
    /\ expired = [ty \in CacheTypes |-> {}]
    /\ broken = [ty \in CacheTypes |-> FALSE]
    /\ replies = [k \in Ks |-> <<>>]
    /\ dropped = {}

-----------------------------------------------------------------------------
(***************************************************************************)
(* The environment.                                                        *)
(***************************************************************************)
Alive == pc # "ended"

Arrive(f) ==
    /\ Alive /\ Len(reqs) < MaxRequests
    /\ reqs' = Append(reqs, f)
    /\ inbox' = Append(inbox, Len(reqs) + 1)
    /\ UNCHANGED <<pc, rset, at, answers, adapter, caches, asked, copies, replies, dropped>>

\* Whether an answer to q may come now.  "any": whenever and as often as it
\* likes.  "timely": once, while the slot is still the request's.  "awaited":
\* also not between a select that found nothing to read and the look the
\* scan that follows takes at the slot.
InTime(q) ==
    /\ Upstream # "any" => copies[q.k] = 0 /\ valid[q.id] /\ owner[q.id] = q.k
    /\ Upstream = "awaited" => ~(pc = "scan" /\ at <= q.id)

\* The upstream server answers a query, with addresses or with none.
UpstreamAnswer(q, addresses) ==
    /\ Alive /\ Len(answers) < MaxQueued
    /\ copies[q.k] < MaxCopies
    /\ InTime(q)
    /\ answers' = Append(answers, [id |-> q.id, k |-> q.k, addresses |-> addresses])
    /\ copies' = [copies EXCEPT ![q.k] = @ + 1]
    /\ UNCHANGED <<pc, rset, at, reqs, inbox, adapter, caches, asked, replies, dropped>>

\* clock() moves on; an age past DNS_TTL needs no telling from DNS_TTL.
ClockStep ==
    /\ Alive
    /\ \E i \in Slots : valid[i] /\ age[i] < DNS_TTL
    /\ age' = [i \in Slots |-> IF valid[i] /\ age[i] < DNS_TTL THEN age[i] + 1 ELSE age[i]]
    /\ UNCHANGED <<pc, rset, at, inbox, answers, valid, owner, type, next, rwlock,
                   caches, network, replies, dropped>>

\* time() passes the ttl of a cached name's first answer.
Expire(ty, n) ==
    /\ Alive
    /\ cache[ty][n] # None /\ n \notin expired[ty]
    /\ expired' = [expired EXCEPT ![ty] = @ \cup {n}]
    /\ UNCHANGED <<pc, rset, at, inbox, answers, adapter, cache, broken, network, replies, dropped>>

-----------------------------------------------------------------------------
(***************************************************************************)
(* The record caches, one handler's use of them at a time.                 *)
(***************************************************************************)
Stored(ty) == {n \in Names : cache[ty][n] # None}
IsFull(ty) == Cardinality(Stored(ty)) >= Capacity

CachePut(ty, n, k) ==       \* set_cache_A_multi_record returns
    /\ ~IsFull(ty)
    /\ cache' = [cache EXCEPT ![ty][n] = k]
    /\ expired' = [expired EXCEPT ![ty] = @ \ {n}]
    /\ UNCHANGED broken

\* The second turns between the handler's reading of the clock and the
\* store's: add_A_multi_record skips every address that expires by then and
\* the record stays in the list with a data pointer that is NULL or freed.
CacheLapse(ty, n) ==
    /\ ~IsFull(ty)
    /\ cache' = [cache EXCEPT ![ty][n] = None]
    /\ expired' = [expired EXCEPT ![ty] = @ \ {n}]
    /\ broken' = [broken EXCEPT ![ty] = TRUE]

CacheDrop(ty, n) ==         \* get_cache_A_record removes the record
    /\ cache' = [cache EXCEPT ![ty][n] = None]
    /\ expired' = [expired EXCEPT ![ty] = @ \ {n}]
    /\ broken' = [broken EXCEPT ![ty] = @ \/ Cardinality(Stored(ty)) > 1]

-----------------------------------------------------------------------------
(***************************************************************************)
(* The top of the loop: select, and the scan for slots that timed out,     *)
(* which is reached only when select found no socket readable.             *)
(***************************************************************************)
Readable == (IF answers # <<>> THEN {"query"} ELSE {}) \cup
            (IF inbox # <<>> THEN {"server"} ELSE {})

SelectReady ==
    /\ pc = "select" /\ Readable # {}
    /\ rset' = Readable
    /\ pc' = IF "query" \in Readable THEN "relay" ELSE "request"
    /\ UNCHANGED <<at, inbox, answers, adapter, caches, network, replies, dropped>>

SelectTimeout ==            \* select returns 0
    /\ pc = "select" /\ Readable = {}
    /\ pc' = "scan" /\ at' = 0 /\ rset' = {}
    /\ UNCHANGED <<inbox, answers, adapter, caches, network, replies, dropped>>

TimedOut(i) == valid[i] /\ age[i] >= DNS_TTL

\* The last slot the scan looks at.  Mutant: it stops one short.
ScanEndMutant == SIZE - 2
ScanEnd == SIZE - 1

\* rset is empty, so that the handlers are passed by after the last slot.
ScanOn ==
    IF at < ScanEnd THEN at' = at + 1 /\ pc' = pc
                    ELSE at' = 0 /\ pc' = "select"

\* The client gets a refusal made from the message the slot kept (as far as
\* strcpy copied it and strlen measures it), whether or not sendto succeeds.
ScanTimesOut ==
    /\ pc = "scan" /\ TimedOut(at)
    /\ replies' = [replies EXCEPT ![owner[at]] = Append(@, Reply("timeout", owner[at]))]
    /\ valid' = [valid EXCEPT ![at] = FALSE]
    /\ ScanOn
    /\ UNCHANGED <<rset, inbox, answers, owner, type, age, next, rwlock,
                   caches, network, dropped>>

ScanPasses ==
    /\ pc = "scan" /\ ~TimedOut(at)
    /\ ScanOn
    /\ UNCHANGED <<rset, inbox, answers, adapter, caches, network, replies, dropped>>

-----------------------------------------------------------------------------
(***************************************************************************)
(* handle_relay.                                                           *)
(***************************************************************************)
AfterRelay == IF "server" \in rset THEN "request" ELSE "select"

RelayRecvFails ==           \* recvfrom < 0: goto handle_request
    /\ pc = "relay"
    /\ pc' = AfterRelay
    /\ UNCHANGED <<rset, at, inbox, answers, adapter, caches, network, replies, dropped>>

\* IDAdapter_get returns the slot's info, not NULL.  Mutant: it does not ask
\* whether the slot is valid.
IDAdapter_getMutant(i) == TRUE
IDAdapter_get(i) == valid[i]

RelayUnknown ==             \* IDAdapter_get returns NULL: "invalid id"
    /\ pc = "relay" /\ answers # <<>> /\ ~IDAdapter_get(Head(answers).id)
    /\ answers' = Tail(answers)
    /\ pc' = AfterRelay
    /\ UNCHANGED <<rset, at, inbox, adapter, caches, network, replies, dropped>>

\* pthread_rwlock_(rd|wr)lock by the thread that may already hold the lock:
\* POSIX leaves open what happens then.
LockBlocks == rwlock = "held" /\ "blocks" \in Relock
LockReturns == rwlock = "free" \/ "returns" \in Relock

\* Mutant: the slot stays valid.
IDAdapter_popMutant(i) == rwlock' = "free" /\ UNCHANGED <<valid, owner, type, age, next>>
IDAdapter_pop(i) ==
    /\ valid' = [valid EXCEPT ![i] = FALSE]
    /\ rwlock' = "free"
    /\ UNCHANGED <<owner, type, age, next>>

\* Whether the answer is cached is decided by the slot's type, under the
\* name the answer itself asks about.
Caches(p) == p.addresses /\ type[p.id] \in CacheTypes

RelayAnswer ==
    LET p == Head(answers)
        k == owner[p.id]
    IN
    /\ pc = "relay" /\ answers # <<>> /\ IDAdapter_get(p.id)
    /\ \/ ~Caches(p) /\ UNCHANGED caches
       \/ Caches(p) /\ CachePut(type[p.id], reqs[p.k].name, p.k)
       \/ Caches(p) /\ CacheLapse(type[p.id], reqs[p.k].name)
    /\ replies' = [replies EXCEPT ![k] = Append(@, Reply("answer", p.k))]
    /\ answers' = Tail(answers)
    /\ \/ LockBlocks /\ pc' = "blocked" /\ UNCHANGED adapter
       \/ LockReturns /\ pc' = AfterRelay /\ IDAdapter_pop(p.id)
    /\ UNCHANGED <<rset, at, inbox, network, dropped>>

RelayEnds ==                \* the cache ends the process
    LET p == Head(answers) IN
    /\ pc = "relay" /\ answers # <<>> /\ IDAdapter_get(p.id)
    /\ Caches(p)
    /\ IsFull(type[p.id]) \/ broken[type[p.id]]
    /\ pc' = "ended"
    /\ answers' = Tail(answers)
    /\ UNCHANGED <<rset, at, inbox, adapter, caches, network, replies, dropped>>

\* The store does not return: records without data make used_size wrap, and
\* the loop that makes room spins over the empty cache.  A cache that is
\* broken is taken to be able to do so, whatever its sizes add up to.
RelayHangs ==
    LET p == Head(answers) IN
    /\ pc = "relay" /\ answers # <<>> /\ IDAdapter_get(p.id)
    /\ Caches(p) /\ broken[type[p.id]]
    /\ pc' = "hung"
    /\ answers' = Tail(answers)
    /\ UNCHANGED <<rset, at, inbox, adapter, caches, network, replies, dropped>>

-----------------------------------------------------------------------------
(***************************************************************************)
(* handle_request.                                                         *)
(***************************************************************************)
RequestRecvFails ==
    /\ pc = "request"
    /\ pc' = "select"
    /\ UNCHANGED <<rset, at, inbox, answers, adapter, caches, network, replies, dropped>>

\* A datagram that is not a query is refused, and then handled like one.
Refusal(k) == IF reqs[k].query THEN <<>> ELSE <<Reply("refused", k)>>

Answered(k, r) ==
    /\ replies' = [replies EXCEPT ![k] = @ \o Refusal(k) \o <<r>>]
    /\ inbox' = Tail(inbox)
    /\ pc' = "select"
    /\ UNCHANGED <<rset, at, answers, adapter, network, dropped>>

\* IDtoAddr's type is an unsigned char.  Mutant: it is not the request's.
SlotTypeMutant(k) == RRTYPE_A
SlotType(k) == reqs[k].qtype % 256

\* Mutant: the ring does not wrap.
NextSlotMutant == next + 1
NextSlot == (next + 1) % SIZE

\* Mutant: the slot keeps the start time of its last use.
IDAdapter_pushMutant(k) ==
    /\ ~valid[next]
    /\ valid' = [valid EXCEPT ![next] = TRUE]
    /\ owner' = [owner EXCEPT ![next] = k]
    /\ type'  = [type EXCEPT ![next] = SlotType(k)]
    /\ next'  = NextSlot
    /\ rwlock' = "free"
    /\ UNCHANGED age

IDAdapter_push(k) ==
    /\ ~valid[next]
    /\ valid' = [valid EXCEPT ![next] = TRUE]
    /\ owner' = [owner EXCEPT ![next] = k]
    /\ type'  = [type EXCEPT ![next] = SlotType(k)]
    /\ age'   = [age EXCEPT ![next] = 0]
    /\ next'  = NextSlot
    /\ rwlock' = "free"

\* The id the query goes upstream with.  Mutant: that of the slot after.
NewIdMutant == NextSlot
NewId == next

\* Nothing known about the name: ask upstream if the next slot is free.
\* If it is not, IDAdapter_push returns -1 with the lock held.
Forward(k) ==
    /\ replies' = [replies EXCEPT ![k] = @ \o Refusal(k)]
    /\ inbox' = Tail(inbox)
    /\ \/ LockBlocks /\ pc' = "blocked" /\ UNCHANGED <<adapter, asked, dropped>>
       \/ /\ LockReturns /\ pc' = "select"
          /\ IDAdapter_push(k)
          /\ asked' = asked \cup {[id |-> NewId, k |-> k]}
          /\ UNCHANGED dropped
       \/ /\ LockReturns /\ pc' = "select"
          /\ valid[next]
          /\ dropped' = dropped \cup {k}
          /\ rwlock' = "held"
          /\ UNCHANGED <<valid, owner, type, age, next, asked>>
    /\ UNCHANGED <<rset, at, answers, reqs, copies>>

Requested(k) == pc = "request" /\ inbox # <<>> /\ k = Head(inbox)

Local(f) == \/ f.qtype = RRTYPE_A /\ f.name \in LocalA
            \/ f.qtype = RRTYPE_AAAA /\ f.name \in LocalAAAA

RequestBlocked(k) ==
    /\ Requested(k) /\ reqs[k].name \in Blacklist
    /\ Answered(k, Reply("name_error", k))
    /\ UNCHANGED caches

RequestLocal(k) ==
    /\ Requested(k) /\ reqs[k].name \notin Blacklist /\ Local(reqs[k])
    /\ Answered(k, Reply("local", k))
    /\ UNCHANGED caches

\* Neither list has the name.  Mutant: a blocked name is looked up as well.
SearchesMutant(k) == Requested(k) /\ ~Local(reqs[k])
Searches(k) == Requested(k) /\ reqs[k].name \notin Blacklist /\ ~Local(reqs[k])

\* The cache that is asked.  Mutant: the A cache, for both types.
LookedUpMutant(ty) == RRTYPE_A
LookedUp(ty) == ty

RequestCached(k) ==
    LET ty == LookedUp(reqs[k].qtype)
        n  == reqs[k].name
    IN
    /\ Searches(k) /\ reqs[k].qtype \in CacheTypes
    /\ cache[ty][n] # None /\ n \notin expired[ty]
    /\ Answered(k, Reply("cached", cache[ty][n]))
    /\ UNCHANGED caches

RequestMissed(k) ==
    LET ty == reqs[k].qtype
        n  == reqs[k].name
    IN
    /\ Searches(k)
    /\ \/ ty \notin CacheTypes /\ UNCHANGED caches
       \/ ty \in CacheTypes /\ cache[ty][n] = None /\ UNCHANGED caches
       \/ ty \in CacheTypes /\ cache[ty][n] # None /\ n \in expired[ty] /\ CacheDrop(ty, n)
    /\ Forward(k)

RequestEnds(k) ==           \* the lookup ends the process
    /\ Searches(k) /\ reqs[k].qtype \in CacheTypes
    /\ broken[reqs[k].qtype]
    /\ pc' = "ended"
    /\ replies' = [replies EXCEPT ![k] = @ \o Refusal(k)]
    /\ inbox' = Tail(inbox)
    /\ UNCHANGED <<rset, at, answers, adapter, caches, network, dropped>>

-----------------------------------------------------------------------------
\* The loop runs; or the process has ended, its only thread waits for a lock
\* it holds itself, or it spins inside a store.
Running == pc \in {"select", "scan", "relay", "request"}
Stopped == ~Running /\ UNCHANGED vars

HandleRelay == RelayUnknown \/ RelayAnswer \/ RelayEnds \/ RelayHangs

HandleRequest ==
    \E k \in Ks :
        \/ RequestBlocked(k)
        \/ RequestLocal(k)
        \/ RequestCached(k)
        \/ RequestMissed(k)
        \/ RequestEnds(k)

Loop ==
    \/ SelectReady
    \/ SelectTimeout
    \/ ScanTimesOut
    \/ ScanPasses
    \/ RelayRecvFails
    \/ HandleRelay
    \/ RequestRecvFails
    \/ HandleRequest

Environment ==
    \/ \E f \in Forms : Arrive(f)
    \/ \E q \in asked, addresses \in BOOLEAN : UpstreamAnswer(q, addresses)
    \/ ClockStep
    \/ \E ty \in CacheTypes, n \in Names : Expire(ty, n)

Next == Loop \/ Environment \/ Stopped

Spec == Init /\ [][Next]_vars

-----------------------------------------------------------------------------
Packets == [id : Slots, k : Ks, addresses : BOOLEAN]

TypeOK ==
    /\ pc \in {"select", "scan", "relay", "request", "blocked", "ended", "hung"}
    /\ rset \subseteq {"query", "server"} /\ at \in Slots
    /\ reqs \in Seq(Forms) /\ Len(reqs) <= MaxRequests
    /\ inbox \in Seq(Ks) /\ answers \in Seq(Packets)
    /\ valid \in [Slots -> BOOLEAN] /\ owner \in [Slots -> Ks \cup {None}]
    /\ type \in [Slots -> 0..255] /\ age \in [Slots -> 0..DNS_TTL]
    /\ next \in Slots /\ rwlock \in {"free", "held"}
    /\ asked \subseteq [id : Slots, k : Ks] /\ copies \in [Ks -> 0..MaxCopies]
    /\ cache \in [CacheTypes -> [Names -> Ks \cup {None}]]
    /\ expired \in [CacheTypes -> SUBSET Names]
    /\ broken \in [CacheTypes -> BOOLEAN]
    /\ replies \in [Ks -> Seq([what : Whats, of : Ks])]
    /\ dropped \subseteq Ks

Waiting(k) == \E i \in Slots : valid[i] /\ owner[i] = k
Queued(k)  == \E j \in 1..Len(inbox) : inbox[j] = k
Settled(k) == \E j \in 1..Len(replies[k]) : replies[k][j].what # "refused"

\* No request is lost and none is in two places: while the loop runs, each
\* one that arrived is in the socket's queue, or waits in a slot, or had its
\* reply, or was dropped by a full ring; those that did not arrive are in no
\* place.  Holds whatever the upstream server repeats or delays.
Accounted ==
    Running =>
        \A k \in Ks :
            LET places == {p \in {<<"queued", Queued(k)>>, <<"waiting", Waiting(k)>>,
                                  <<"settled", Settled(k)>>, <<"dropped", k \in dropped>>} : p[2]}
            IN  Cardinality(places) = IF k <= Len(reqs) THEN 1 ELSE 0

\* A client gets at most one reply to a query: no duplicate answer, and no
\* answer after the timeout reply, is passed on to it.
OneReply ==
    \A k \in 1..Len(reqs) : reqs[k].query => Len(replies[k]) <= 1

\* What is not a query "is discarded too" (main.c:285): it is refused and that
\* is all.
NonQueriesDiscarded ==
    \A k \in 1..Len(reqs) : ~reqs[k].query =>
        Len(replies[k]) <= 1 /\ \A q \in asked : q.k # k

\* The ring hands out slots in turn, so counted from IDAdapter.next the
\* requests that wait are in order of arrival and of age: when a push fails
\* it is the oldest request that is in the way.
Turn(i) == (i - next) % SIZE
InRingOrder ==
    \A i, j \in Slots :
        valid[i] /\ valid[j] /\ Turn(i) < Turn(j) =>
            owner[i] < owner[j] /\ age[i] >= age[j]

\* A blacklisted name is never asked upstream, never cached and never
\* answered with anything but a refusal or a name error, even when answers
\* to other requests reach a slot they were not meant for.
BlacklistHolds ==
    /\ \A q \in asked : reqs[q.k].name \notin Blacklist
    /\ \A ty \in CacheTypes, n \in Blacklist : cache[ty][n] = None
    /\ \A k \in 1..Len(reqs) : reqs[k].name \in Blacklist =>
        \A j \in 1..Len(replies[k]) : replies[k][j].what \in {"refused", "name_error"}

SameQuestion(j, k) == reqs[j].name = reqs[k].name /\ reqs[j].qtype = reqs[k].qtype

\* However late or often upstream answers, a client gets no answer but its own
\* or one to an older request that was settled and had the same slot; and from
\* a cache none but for the name it asked about, for the cache goes by the
\* name in the answer.
StrayAnswersAreOld ==
    \A k \in Ks : \A j \in 1..Len(replies[k]) :
        LET o == replies[k][j].of IN
        /\ replies[k][j].what = "answer" /\ o # k =>
            /\ o < k /\ Settled(o)
            /\ \E i \in Slots : {[id |-> i, k |-> o], [id |-> i, k |-> k]} \subseteq asked
        /\ replies[k][j].what = "cached" => reqs[o].name = reqs[k].name

\* No client asks for a type that an unsigned char cannot hold.
OneByteTypes == \A f \in Forms : f.qtype < 256

\* What a client gets, from upstream or from a cache, answers its question.
RightAnswer ==
    \A k \in Ks : \A j \in 1..Len(replies[k]) :
        replies[k][j].what \in {"answer", "cached"} => SameQuestion(replies[k][j].of, k)

\* The A cache holds A answers and the AAAA cache AAAA answers, each under
\* the name it was asked for.
RightCache ==
    \A ty \in CacheTypes, n \in Names :
        cache[ty][n] # None => /\ reqs[cache[ty][n]].qtype = ty
                               /\ reqs[cache[ty][n]].name = n
=============================================================================
