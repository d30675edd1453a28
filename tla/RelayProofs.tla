----------------------------- MODULE RelayProofs ----------------------------
(***************************************************************************)
(* Proofs about the relay loop and the ID adapter, for rings of any size   *)
(* and any number of requests and answers.                                 *)
(***************************************************************************)
EXTENDS Relay, FiniteSetTheorems, TLAPS

-----------------------------------------------------------------------------
(***************************************************************************)
(* The inductive invariant.                                                *)
(***************************************************************************)
Replys == [what : Whats, of : Ks]

\* How many requests were taken from the socket's queue.
Handled == Len(reqs) - Len(inbox)

\* Every answer comes once and while it is awaited, and types fit their byte.
Benign == Upstream = "awaited" /\ OneByteTypes

\* Requests are taken in the order of their arrival.
InboxInOrder ==
    /\ Len(inbox) <= Len(reqs)
    /\ \A j \in 1..Len(inbox) : inbox[j] = Handled + j

\* A request that was not taken yet has left no trace.
Untouched == \A k \in Ks : k > Handled => replies[k] = <<>> /\ k \notin dropped

\* A slot in use stands for a query that was sent under its number.
SlotsAsked ==
    \A i \in Slots : valid[i] =>
        /\ owner[i] \in 1..Handled
        /\ [id |-> i, k |-> owner[i]] \in asked
        /\ type[i] = SlotType(owner[i])

\* A request that was taken is in one place.
Placed ==
    Running => \A k \in 1..Handled :
        /\ Waiting(k) \/ Settled(k) \/ k \in dropped
        /\ ~(Waiting(k) /\ Settled(k))
        /\ ~(Waiting(k) /\ k \in dropped)
        /\ ~(Settled(k) /\ k \in dropped)

\* A refusal comes first, to what is not a query, and any other reply last.
Shaped(s, query) ==
    \A j \in 1..Len(s) : IF s[j].what = "refused" THEN j = 1 /\ ~query ELSE j = Len(s)
RepliesShaped == \A k \in Ks : Shaped(replies[k], reqs[k].query)

\* What a reply to k may be.
Fits(k, r) ==
    /\ r.of \in 1..Handled
    /\ reqs[k].name \in Blacklist => r.what \in {"refused", "name_error"}
    /\ r.what = "cached" => reqs[r.of].name = reqs[k].name
    /\ Benign /\ r.what \in {"answer", "cached"} => SameQuestion(r.of, k)
RepliesFit == \A k \in Ks : \A j \in 1..Len(replies[k]) : Fits(k, replies[k][j])

QueriesAllowed == \A q \in asked : q.k \in 1..Handled /\ reqs[q.k].name \notin Blacklist

\* An answer in the queue is one to a query.  If it was awaited it is the only
\* one, the request still waits, and the scan is past its slot.
AnswersAsked ==
    \A j \in 1..Len(answers) :
        LET p == answers[j] IN
        /\ [id |-> p.id, k |-> p.k] \in asked
        /\ Benign => /\ valid[p.id] /\ owner[p.id] = p.k /\ copies[p.k] # 0
                     /\ \A i \in 1..Len(answers) : answers[i].k = p.k => i = j
                     /\ pc = "scan" => p.id < at

\* A record is kept under the name that was asked for, and if answers were
\* awaited in the cache of the type that was asked for.
CachesFit ==
    \A ty \in CacheTypes, n \in Names : cache[ty][n] # None =>
        /\ cache[ty][n] \in 1..Handled /\ n \notin Blacklist
        /\ reqs[cache[ty][n]].name = n
        /\ Benign => reqs[cache[ty][n]].qtype = ty

IInv ==
    /\ TypeOK /\ InboxInOrder /\ Untouched
    /\ SlotsAsked /\ InRingOrder /\ QueriesAllowed /\ AnswersAsked
    /\ Placed /\ RepliesShaped /\ RepliesFit
    /\ CachesFit

-----------------------------------------------------------------------------
(***************************************************************************)
(* The ring.                                                               *)
(***************************************************************************)
\* What the proofs use of the constants.
LEMMA Constants ==
    /\ SIZE \in Nat \ {0} /\ DNS_TTL \in Nat \ {0} /\ MaxRequests \in Nat \ {0}
    /\ MaxCopies \in Nat /\ 0 \in Slots
  BY RelayAssumption DEF RelayAssumption, Slots

\* The distance of one slot from another, round the ring.
LEMMA Distance ==
    ASSUME NEW i \in Slots, NEW n \in Slots
    PROVE  (i - n) % SIZE = IF n <= i THEN i - n ELSE i - n + SIZE
  <1>1. CASE n <= i
    <2>1. i - n \in 0..(SIZE - 1)
      BY <1>1, Constants DEF Slots
    <2> QED BY <1>1, <2>1, Constants
  <1>2. CASE n > i
    <2>1. i - n \in (-SIZE)..(-1)
      BY <1>2, Constants DEF Slots
    <2>2. (i - n) % SIZE = i - n + SIZE
      BY <2>1, Constants
    <2> QED BY <1>2, <2>2, Constants DEF Slots
  <1> QED BY <1>1, <1>2, Constants DEF Slots

\* Where IDAdapter_push moves `next' to.
LEMMA NextSlotValue ==
    ASSUME next \in Slots
    PROVE  NextSlot \in Slots /\ NextSlot = IF next + 1 = SIZE THEN 0 ELSE next + 1
  <1>1. CASE next + 1 = SIZE
    BY <1>1, Constants DEF Slots, NextSlot
  <1>2. CASE next + 1 # SIZE
    <2>1. next + 1 \in 0..(SIZE - 1)
      BY <1>2, Constants DEF Slots
    <2> QED BY <1>2, <2>1, Constants DEF Slots, NextSlot
  <1> QED BY <1>1, <1>2

\* A push makes the slot it takes the last in turn and moves the others up.
LEMMA TurnAfterPush ==
    ASSUME next \in Slots, next' = NextSlot, NEW i \in Slots
    PROVE  /\ Turn(i) \in Slots
           /\ Turn(i)' = IF i = next THEN SIZE - 1 ELSE Turn(i) - 1
  <1>1. Turn(i) = IF next <= i THEN i - next ELSE i - next + SIZE
    BY Distance DEF Turn
  <1>2. Turn(i)' = IF next' <= i THEN i - next' ELSE i - next' + SIZE
    BY NextSlotValue, Distance DEF Turn
  <1> QED BY <1>1, <1>2, NextSlotValue, Constants DEF Slots

\* No two slots have the same turn.
LEMMA TurnsDiffer ==
    ASSUME next \in Slots, NEW i \in Slots, NEW j \in Slots, i # j
    PROVE  Turn(i) \in Nat /\ Turn(j) \in Nat /\ Turn(i) # Turn(j)
  BY Distance, Constants DEF Turn, Slots

\* So no request is in two slots.
LEMMA OwnersDiffer ==
    ASSUME TypeOK, InRingOrder, NEW i \in Slots, NEW j \in Slots, valid[i], valid[j],
           owner[i] = owner[j]
    PROVE  i = j
  <1> SUFFICES ASSUME i # j PROVE FALSE
    OBVIOUS
  <1>1. Turn(i) < Turn(j) \/ Turn(j) < Turn(i)
    BY TurnsDiffer DEF TypeOK
  <1>2. owner[i] < owner[j] \/ owner[j] < owner[i]
    BY <1>1 DEF InRingOrder
  <1>3. owner[i] \in Int /\ owner[j] \in Int
    BY Constants DEF TypeOK, Ks, None
  <1> QED BY <1>2, <1>3

-----------------------------------------------------------------------------
(***************************************************************************)
(* Init and the environment.                                               *)
(***************************************************************************)
\* The relay starts with an empty ring and empty caches.
LEMMA InitIInv == Init => IInv
  <1> SUFFICES ASSUME Init PROVE IInv
    OBVIOUS
  <1>1. TypeOK
    BY Constants DEF Init, TypeOK, None, CacheTypes, Replys
  <1>2. Handled = 0 /\ Len(inbox) = 0 /\ Len(answers) = 0
    BY DEF Init, Handled
  <1>3. InboxInOrder /\ Untouched /\ Placed
    BY <1>2 DEF Init, InboxInOrder, Untouched, Placed
  <1>4. SlotsAsked /\ InRingOrder /\ QueriesAllowed /\ AnswersAsked
    BY <1>2 DEF Init, SlotsAsked, InRingOrder, QueriesAllowed, AnswersAsked
  <1>5. RepliesShaped /\ RepliesFit /\ CachesFit
    BY DEF Init, RepliesShaped, Shaped, RepliesFit, CachesFit, None
  <1> QED BY <1>1, <1>3, <1>4, <1>5 DEF IInv

\* A client sends a datagram.
LEMMA ArriveKeeps ==
    ASSUME IInv, NEW f \in Forms, Arrive(f)
    PROVE  IInv'
  <1>1. /\ reqs' = Append(reqs, f) /\ inbox' = Append(inbox, Len(reqs) + 1)
        /\ Len(reqs) < MaxRequests
        /\ UNCHANGED <<pc, rset, at, answers, valid, owner, type, age, next, rwlock, cache, expired,
                       broken, asked, copies, replies, dropped>>
    BY DEF Arrive, adapter, caches
  <1>2. /\ reqs \in Seq(Forms) /\ inbox \in Seq(Ks) /\ Len(reqs) \in Nat /\ Len(inbox) \in Nat
        /\ Len(inbox) <= Len(reqs)
    BY DEF IInv, TypeOK, InboxInOrder
  <1>3. /\ Len(reqs') = Len(reqs) + 1 /\ Len(inbox') = Len(inbox) + 1 /\ Handled' = Handled
        /\ Handled \in Nat /\ Handled <= Len(reqs)
        /\ \A k \in 1..Len(reqs) : reqs'[k] = reqs[k]
    BY <1>1, <1>2 DEF Handled
  <1>4. TypeOK'
    <2>1. Len(reqs) + 1 \in Ks
      BY <1>1, <1>2, Constants DEF Ks
    <2>2. reqs' \in Seq(Forms) /\ inbox' \in Seq(Ks)
      BY <1>1, <1>2, <2>1
    <2>3. Len(reqs') <= MaxRequests
      BY <1>1, <1>2, <1>3, Constants
    <2> QED BY <1>1, <2>2, <2>3 DEF IInv, TypeOK
  <1>5. InboxInOrder'
    <2>0. \A j \in 1..Len(inbox') : inbox'[j] = IF j <= Len(inbox) THEN inbox[j] ELSE Len(reqs) + 1
      BY <1>1, <1>2
    <2>1. \A j \in 1..Len(inbox) : inbox[j] = Handled + j
      BY DEF IInv, InboxInOrder
    <2>2. Handled = Len(reqs) - Len(inbox)
      BY DEF Handled
    <2>3. \A j \in 1..Len(inbox') : inbox'[j] = Handled + j
      BY <1>2, <1>3, <2>0, <2>1, <2>2
    <2> QED BY <1>2, <1>3, <2>3 DEF InboxInOrder
  <1>6. Untouched' /\ InRingOrder'
    BY <1>1, <1>3 DEF IInv, Untouched, InRingOrder, Turn
  <1>7. SlotsAsked'
    BY <1>1, <1>3 DEF IInv, SlotsAsked, SlotType
  <1>8. QueriesAllowed'
    BY <1>1, <1>3 DEF IInv, QueriesAllowed
  <1>9. AnswersAsked'
    <2>1. \A j \in 1..Len(answers) : answers[j].k \in 1..Len(reqs)
      <3> SUFFICES ASSUME NEW j \in 1..Len(answers) PROVE answers[j].k \in 1..Len(reqs)
        OBVIOUS
      <3>1. [id |-> answers[j].id, k |-> answers[j].k] \in asked
        BY DEF IInv, AnswersAsked
      <3>2. answers[j].k \in 1..Handled
        BY <3>1 DEF IInv, QueriesAllowed
      <3> QED BY <1>2, <1>3, <3>2
    <2> QED BY <1>1, <1>3, <2>1 DEF IInv, AnswersAsked
  <1>10. Placed'
    BY <1>1, <1>3 DEF IInv, Placed, Running, Waiting, Settled
  <1>11. \A k \in Ks : replies[k] # <<>> => k \in 1..Len(reqs)
    BY <1>3, Constants DEF IInv, Untouched, Ks
  <1>12. RepliesShaped'
    <2> SUFFICES ASSUME NEW k \in Ks PROVE Shaped(replies'[k], reqs'[k].query)
      BY DEF RepliesShaped
    <2>1. CASE replies[k] = <<>>
      BY <1>1, <2>1 DEF Shaped
    <2>2. CASE replies[k] # <<>>
      BY <1>1, <1>3, <1>11, <2>2 DEF IInv, RepliesShaped
    <2> QED BY <2>1, <2>2
  <1>13. RepliesFit'
    <2> SUFFICES ASSUME NEW k \in Ks, NEW j \in 1..Len(replies[k])
                 PROVE  Fits(k, replies[k][j])'
      BY <1>1 DEF RepliesFit
    <2>1. Fits(k, replies[k][j]) /\ k \in 1..Len(reqs)
      <3>1. replies[k] # <<>>
        OBVIOUS
      <3> QED BY <1>11, <3>1 DEF IInv, RepliesFit
    <2> QED BY <1>1, <1>3, <2>1 DEF Fits, SameQuestion
  <1>14. CachesFit'
    BY <1>1, <1>3 DEF IInv, CachesFit
  <1> QED BY <1>4, <1>5, <1>6, <1>7, <1>8, <1>9, <1>10, <1>12, <1>13, <1>14 DEF IInv

\* The upstream server sends an answer.
LEMMA UpstreamAnswerKeeps ==
    ASSUME IInv, NEW q \in asked, NEW addresses \in BOOLEAN, UpstreamAnswer(q, addresses)
    PROVE  IInv'
  <1> DEFINE p == [id |-> q.id, k |-> q.k, addresses |-> addresses]
  <1>1. /\ answers' = Append(answers, p)
        /\ copies' = [copies EXCEPT ![q.k] = @ + 1] /\ copies[q.k] < MaxCopies
        /\ Benign => /\ copies[q.k] = 0 /\ valid[q.id] /\ owner[q.id] = q.k
                     /\ ~(pc = "scan" /\ at <= q.id)
        /\ UNCHANGED <<pc, rset, at, reqs, inbox, valid, owner, type, age, next, rwlock, cache,
                       expired, broken, asked, replies, dropped>>
    BY DEF UpstreamAnswer, InTime, Benign, adapter, caches
  <1>2. /\ q.id \in Slots /\ q.k \in Ks /\ q = [id |-> q.id, k |-> q.k] /\ p \in Packets
        /\ answers \in Seq(Packets) /\ Len(answers) \in Nat
        /\ copies \in [Ks -> 0..MaxCopies]
    BY DEF IInv, TypeOK, Packets
  <1>3. copies' \in [Ks -> 0..MaxCopies] /\ answers' \in Seq(Packets)
    BY <1>1, <1>2, Constants
  <1>4. TypeOK'
    BY <1>1, <1>3 DEF IInv, TypeOK
  <1>5. /\ p.id = q.id /\ p.k = q.k /\ p.addresses = addresses
        /\ Len(answers') = Len(answers) + 1
        /\ \A j \in 1..Len(answers') : answers'[j] = IF j <= Len(answers) THEN answers[j] ELSE p
    BY <1>1, <1>2
  <1> HIDE DEF p
  <1>6. \A k \in Ks : copies'[k] = IF k = q.k THEN copies[k] + 1 ELSE copies[k]
    BY <1>1, <1>2
  <1>7. AnswersAsked'
    <2> SUFFICES ASSUME NEW j \in 1..Len(answers')
                 PROVE  LET r == answers'[j] IN
                        /\ [id |-> r.id, k |-> r.k] \in asked
                        /\ Benign => /\ valid[r.id] /\ owner[r.id] = r.k /\ copies'[r.k] # 0
                                     /\ \A i \in 1..Len(answers') : answers'[i].k = r.k => i = j
                                     /\ pc = "scan" => r.id < at
      BY <1>1 DEF AnswersAsked
    <2>1. CASE j <= Len(answers)
      <3>1. j \in 1..Len(answers) /\ answers'[j] = answers[j] /\ answers[j].k \in Ks
        <4>1. j \in 1..Len(answers) /\ answers'[j] = answers[j]
          BY <1>2, <1>5, <2>1
        <4>2. answers[j] \in Packets
          BY <1>2, <4>1
        <4> QED BY <4>1, <4>2 DEF Packets
      <3>2. Benign => copies'[answers[j].k] # 0 /\ answers[j].k # q.k
        BY <1>1, <1>2, <1>6, <3>1, Constants DEF IInv, AnswersAsked
      <3> QED BY <1>2, <1>5, <3>1, <3>2 DEF IInv, AnswersAsked
    <2>2. CASE j > Len(answers)
      <3>1. answers'[j] = p /\ j = Len(answers) + 1
        BY <1>2, <1>5, <2>2
      <3>2. Benign => copies'[q.k] # 0
        BY <1>1, <1>2, <1>6
      <3>3. Benign => \A i \in 1..Len(answers) : answers[i].k # q.k
        BY <1>1 DEF IInv, AnswersAsked
      <3>4. Benign => (pc = "scan" => q.id < at)
        <4>1. q.id \in Int /\ at \in Int
          BY <1>2, Constants DEF IInv, TypeOK, Slots
        <4> QED BY <1>1, <4>1
      <3> QED BY <1>1, <1>2, <1>5, <3>1, <3>2, <3>3, <3>4
    <2> QED BY <1>2, <1>5, <2>1, <2>2
  <1>8. Handled' = Handled
    BY <1>1 DEF Handled
  <1>9. InboxInOrder' /\ Untouched' /\ SlotsAsked' /\ InRingOrder' /\ QueriesAllowed'
    BY <1>1, <1>8 DEF IInv, InboxInOrder, Untouched, SlotsAsked, SlotType, InRingOrder, Turn,
                      QueriesAllowed
  <1>10. Placed' /\ RepliesShaped' /\ RepliesFit' /\ CachesFit'
    BY <1>1, <1>8 DEF IInv, Placed, Running, Waiting, Settled, RepliesShaped, Shaped,
                      RepliesFit, Fits, SameQuestion, CachesFit
  <1> QED BY <1>4, <1>7, <1>9, <1>10 DEF IInv

\* clock() moves on.
LEMMA ClockStepKeeps ==
    ASSUME IInv, ClockStep
    PROVE  IInv'
  <1>1. /\ age' = [i \in Slots |-> IF valid[i] /\ age[i] < DNS_TTL THEN age[i] + 1 ELSE age[i]]
        /\ UNCHANGED <<pc, rset, at, inbox, answers, valid, owner, type, next, rwlock, cache,
                       expired, broken, reqs, asked, copies, replies, dropped>>
    BY DEF ClockStep, caches, network
  <1>2. age \in [Slots -> 0..DNS_TTL]
    BY DEF IInv, TypeOK
  <1>3. age' \in [Slots -> 0..DNS_TTL]
    BY <1>1, <1>2, Constants
  <1>4. TypeOK'
    BY <1>1, <1>3 DEF IInv, TypeOK
  <1>5. InRingOrder'
    <2> SUFFICES ASSUME NEW i \in Slots, NEW j \in Slots, valid[i], valid[j], Turn(i) < Turn(j)
                 PROVE  owner[i] < owner[j] /\ age'[i] >= age'[j]
      BY <1>1 DEF InRingOrder, Turn
    <2>1. owner[i] < owner[j] /\ age[i] >= age[j]
      BY DEF IInv, InRingOrder
    <2> QED BY <1>1, <1>2, <2>1, Constants
  <1>6. Handled' = Handled
    BY <1>1 DEF Handled
  <1>7. InboxInOrder' /\ Untouched' /\ SlotsAsked' /\ QueriesAllowed' /\ AnswersAsked'
    BY <1>1, <1>6 DEF IInv, InboxInOrder, Untouched, SlotsAsked, SlotType, QueriesAllowed,
                      AnswersAsked
  <1>8. Placed' /\ RepliesShaped' /\ RepliesFit' /\ CachesFit'
    BY <1>1, <1>6 DEF IInv, Placed, Running, Waiting, Settled, RepliesShaped, Shaped,
                      RepliesFit, Fits, SameQuestion, CachesFit
  <1> QED BY <1>4, <1>5, <1>7, <1>8 DEF IInv

\* Steps that only move the loop on, and time() passing a record's ttl.
LEMMA MovesKeep ==
    ASSUME IInv, pc' = pc \/ Running,
           pc' \in {"select", "scan", "relay", "request", "blocked", "ended", "hung"},
           at' \in Slots, pc' = "scan" => answers = <<>> \/ (pc = "scan" /\ at <= at'),
           rset' \subseteq {"query", "server"}, expired' \in [CacheTypes -> SUBSET Names],
           UNCHANGED <<inbox, answers, valid, owner, type, age, next, rwlock, cache, broken,
                       reqs, asked, copies, replies, dropped>>
    PROVE  IInv'
  <1>1. TypeOK'
    BY DEF IInv, TypeOK
  <1>2. Handled' = Handled
    BY DEF Handled
  <1>3. InboxInOrder' /\ Untouched' /\ SlotsAsked' /\ QueriesAllowed'
    BY <1>2 DEF IInv, InboxInOrder, Untouched, SlotsAsked, SlotType, QueriesAllowed
  <1>4. AnswersAsked'
    <2> SUFFICES ASSUME NEW j \in 1..Len(answers), pc' = "scan", Benign
                 PROVE  answers[j].id < at'
      BY DEF IInv, AnswersAsked
    <2>1. answers # <<>>
      OBVIOUS
    <2>2. pc = "scan" /\ at <= at'
      BY <2>1
    <2>3. answers[j].id < at
      BY <2>2 DEF IInv, AnswersAsked
    <2>4. answers[j] \in Packets /\ at \in Slots
      BY DEF IInv, TypeOK
    <2>5. answers[j].id \in Int /\ at \in Int /\ at' \in Int
      BY <2>4, Constants DEF Packets, Slots
    <2> QED BY <2>2, <2>3, <2>5
  <1>5. InRingOrder'
    BY DEF IInv, InRingOrder, Turn
  <1>6. Placed'
    BY <1>2 DEF IInv, Placed, Running, Waiting, Settled
  <1>7. RepliesShaped' /\ RepliesFit' /\ CachesFit'
    BY <1>2 DEF IInv, RepliesShaped, Shaped, RepliesFit, Fits, SameQuestion, CachesFit
  <1> QED BY <1>1, <1>3, <1>4, <1>5, <1>6, <1>7 DEF IInv

\* The scan goes on to the next slot or ends.
LEMMA ScanOnFacts ==
    ASSUME pc = "scan", at \in Slots, ScanOn
    PROVE  /\ at' \in Slots /\ pc' \in {"scan", "select"}
           /\ pc' = "scan" => at < at'
  BY Constants DEF ScanOn, ScanEnd, Slots

\* The steps they are.
LEMMA SimpleStepsKeep ==
    ASSUME IInv
    PROVE  /\ SelectReady => IInv'
           /\ SelectTimeout => IInv'
           /\ ScanPasses => IInv'
           /\ RelayRecvFails => IInv'
           /\ RequestRecvFails => IInv'
           /\ \A ty \in CacheTypes, n \in Names : Expire(ty, n) => IInv'
           /\ UNCHANGED vars => IInv'
  <1>1. rset \subseteq {"query", "server"} /\ expired \in [CacheTypes -> SUBSET Names]
        /\ pc \in {"select", "scan", "relay", "request", "blocked", "ended", "hung"}
        /\ at \in Slots /\ at <= at
    BY Constants DEF IInv, TypeOK, Slots
  <1>2. ASSUME SelectReady PROVE IInv'
    BY <1>1, <1>2, MovesKeep DEF SelectReady, Readable, Running, adapter, caches, network
  <1>3. ASSUME RelayRecvFails PROVE IInv'
    BY <1>1, <1>3, MovesKeep DEF RelayRecvFails, AfterRelay, Running, adapter, caches, network
  <1>4. ASSUME RequestRecvFails PROVE IInv'
    BY <1>1, <1>4, MovesKeep DEF RequestRecvFails, Running, adapter, caches, network
  <1>5. ASSUME NEW ty \in CacheTypes, NEW n \in Names, Expire(ty, n) PROVE IInv'
    <2>1. expired' \in [CacheTypes -> SUBSET Names]
      BY <1>1, <1>5 DEF Expire
    <2> QED BY <1>1, <1>5, <2>1, MovesKeep DEF Expire, Running, adapter, network
  <1>6. ASSUME UNCHANGED vars PROVE IInv'
    BY <1>1, <1>6, MovesKeep DEF vars, Running, adapter, caches, network
  <1>7. ASSUME SelectTimeout PROVE IInv'
    BY <1>1, <1>7, MovesKeep, Constants DEF SelectTimeout, Readable, Running, adapter, caches, network
  <1>8. ASSUME ScanPasses PROVE IInv'
    <2>1. at' \in Slots /\ pc' \in {"scan", "select"} /\ (pc' = "scan" => at <= at')
      BY <1>1, <1>8, ScanOnFacts, Constants DEF ScanPasses, Slots
    <2> QED BY <1>1, <1>8, <2>1, MovesKeep DEF ScanPasses, Running, adapter, caches, network
  <1> QED BY <1>2, <1>3, <1>4, <1>5, <1>6, <1>7, <1>8

-----------------------------------------------------------------------------
(***************************************************************************)
(* Replies, and what waits for them.                                       *)
(***************************************************************************)
\* The requests that were taken from the queue.
LEMMA HandledFacts ==
    ASSUME IInv
    PROVE  /\ Handled \in Nat /\ Handled <= Len(reqs) /\ Len(reqs) \in Nat
           /\ \A k \in 1..Len(reqs) : k \in Ks /\ reqs[k] \in Forms
           /\ \A k \in 1..Handled : k \in 1..Len(reqs)
  <1>1. /\ reqs \in Seq(Forms) /\ Len(reqs) <= MaxRequests /\ inbox \in Seq(Ks)
        /\ Len(inbox) <= Len(reqs)
    BY DEF IInv, TypeOK, InboxInOrder
  <1>2. Len(reqs) \in Nat /\ Len(inbox) \in Nat
    BY <1>1
  <1>3. Handled \in Nat /\ Handled <= Len(reqs)
    BY <1>1, <1>2 DEF Handled
  <1> QED BY <1>1, <1>2, <1>3, Constants DEF Ks

\* The request of a slot in use.
LEMMA OwnerFacts ==
    ASSUME IInv, Running, NEW i \in Slots, valid[i]
    PROVE  /\ owner[i] \in 1..Handled /\ owner[i] \in Ks /\ reqs[owner[i]].name \notin Blacklist
           /\ ~Settled(owner[i]) /\ owner[i] \notin dropped
  <1>1. owner[i] \in 1..Handled /\ [id |-> i, k |-> owner[i]] \in asked /\ Waiting(owner[i])
    BY DEF IInv, SlotsAsked, Waiting
  <1>2. reqs[owner[i]].name \notin Blacklist
    BY <1>1 DEF IInv, QueriesAllowed
  <1>3. ~Settled(owner[i]) /\ owner[i] \notin dropped
    BY <1>1 DEF IInv, Placed
  <1> QED BY <1>1, <1>2, <1>3, HandledFacts

\* One more reply to a request that had none but a refusal.
LEMMA ReplyAppended ==
    ASSUME NEW s \in Seq(Replys), NEW query, Shaped(s, query),
           \A j \in 1..Len(s) : s[j].what = "refused",
           NEW r \in Replys, r.what # "refused"
    PROVE  /\ Append(s, r) \in Seq(Replys) /\ Len(Append(s, r)) = Len(s) + 1
           /\ \A j \in 1..Len(s) : Append(s, r)[j] = s[j]
           /\ Append(s, r)[Len(s) + 1] = r
           /\ Shaped(Append(s, r), query)
  <1>1. /\ Append(s, r) \in Seq(Replys) /\ Len(Append(s, r)) = Len(s) + 1 /\ Len(s) \in Nat
        /\ \A j \in 1..Len(s) : Append(s, r)[j] = s[j]
        /\ Append(s, r)[Len(s) + 1] = r
    OBVIOUS
  <1>2. Shaped(Append(s, r), query)
    BY <1>1 DEF Shaped
  <1> QED BY <1>1, <1>2

\* The same of replies[k]: it settles k and fits it.
LEMMA ReplySent ==
    ASSUME IInv, NEW k \in Ks, ~Settled(k), NEW r \in Replys, r.what # "refused", Fits(k, r),
           replies'[k] = Append(replies[k], r), reqs' = reqs, Handled' = Handled
    PROVE  /\ replies'[k] \in Seq(Replys) /\ Shaped(replies'[k], reqs[k].query)
           /\ Settled(k)'
           /\ \A j \in 1..Len(replies'[k]) : Fits(k, replies'[k][j])
  <1>1. replies[k] \in Seq(Replys) /\ Shaped(replies[k], reqs[k].query)
    BY DEF IInv, TypeOK, RepliesShaped, Replys
  <1>2. \A j \in 1..Len(replies[k]) : replies[k][j].what = "refused"
    BY DEF Settled
  <1>3. /\ replies'[k] \in Seq(Replys) /\ Len(replies'[k]) = Len(replies[k]) + 1
        /\ \A j \in 1..Len(replies[k]) : replies'[k][j] = replies[k][j]
        /\ replies'[k][Len(replies[k]) + 1] = r
        /\ Shaped(replies'[k], reqs[k].query)
    BY <1>1, <1>2, ReplyAppended
  <1>4. Len(replies[k]) \in Nat
    BY <1>1
  <1>5. Settled(k)'
    BY <1>3, <1>4 DEF Settled
  <1>6. \A j \in 1..Len(replies[k]) : Fits(k, replies[k][j])
    BY DEF IInv, RepliesFit
  <1>7. \A j \in 1..Len(replies'[k]) : Fits(k, replies'[k][j])
    BY <1>3, <1>4, <1>6
  <1> QED BY <1>3, <1>5, <1>7

\* A slot is given up and its client sent the last reply to its request.
LEMMA SlotGivenUp ==
    ASSUME IInv, NEW i \in Slots, valid[i], Running, NEW k, k = owner[i],
           NEW r \in Replys, r.what # "refused", Fits(k, r),
           replies' = [replies EXCEPT ![k] = Append(@, r)],
           valid' = [valid EXCEPT ![i] = FALSE],
           UNCHANGED <<inbox, reqs, owner, type, age, next, asked, dropped>>
    PROVE  /\ valid' \in [Slots -> BOOLEAN]
           /\ replies' \in [Ks -> Seq([what : Whats, of : Ks])]
           /\ InboxInOrder' /\ Untouched' /\ SlotsAsked' /\ InRingOrder' /\ QueriesAllowed'
           /\ Placed' /\ RepliesShaped' /\ RepliesFit'
  <1>1. Handled' = Handled
    BY DEF Handled
  <1>2. k \in 1..Handled /\ k \in Ks /\ ~Settled(k) /\ k \notin dropped
    BY OwnerFacts
  <1>3. /\ replies'[k] = Append(replies[k], r)
        /\ \A m \in Ks : m # k => replies'[m] = replies[m]
        /\ replies \in [Ks -> Seq(Replys)] /\ DOMAIN replies' = Ks
    BY <1>2 DEF IInv, TypeOK, Replys
  <1>4. /\ replies'[k] \in Seq(Replys) /\ Shaped(replies'[k], reqs[k].query)
        /\ Settled(k)'
        /\ \A j \in 1..Len(replies'[k]) : Fits(k, replies'[k][j])
    BY <1>1, <1>2, <1>3, ReplySent
  <1>5. /\ valid' \in [Slots -> BOOLEAN] /\ valid \in [Slots -> BOOLEAN]
        /\ \A j \in Slots : valid'[j] <=> valid[j] /\ j # i
    BY DEF IInv, TypeOK
  <1>6. replies' \in [Ks -> Seq([what : Whats, of : Ks])]
    BY <1>2, <1>3, <1>4 DEF Replys
  <1>7. InboxInOrder' /\ QueriesAllowed'
    BY <1>1 DEF IInv, InboxInOrder, QueriesAllowed
  <1>8. Untouched'
    BY <1>1, <1>2, <1>3, HandledFacts DEF IInv, Untouched
  <1>9. SlotsAsked' /\ InRingOrder'
    BY <1>1, <1>5 DEF IInv, SlotsAsked, SlotType, InRingOrder, Turn
  <1>10. Placed'
    <2> SUFFICES ASSUME NEW m \in 1..Handled
                 PROVE  /\ Waiting(m)' \/ Settled(m)' \/ m \in dropped
                        /\ ~(Waiting(m)' /\ Settled(m)')
                        /\ ~(Waiting(m)' /\ m \in dropped)
                        /\ ~(Settled(m)' /\ m \in dropped)
      BY <1>1 DEF Placed
    <2>1. m \in Ks
      BY HandledFacts
    <2>2. CASE m = k
      <3>1. ~Waiting(m)'
        <4> SUFFICES ASSUME NEW j \in Slots, valid'[j], owner'[j] = m PROVE FALSE
          BY DEF Waiting
        <4>1. j # i /\ valid[j] /\ owner[j] = owner[i]
          BY <1>5, <2>2
        <4> QED BY <4>1, OwnersDiffer DEF IInv
      <3> QED BY <1>2, <1>4, <2>2, <3>1
    <2>3. CASE m # k
      <3>1. Settled(m)' <=> Settled(m)
        BY <1>3, <2>1, <2>3 DEF Settled
      <3>2. Waiting(m)' <=> Waiting(m)
        BY <1>5, <2>3 DEF Waiting
      <3> QED BY <3>1, <3>2 DEF IInv, Placed
    <2> QED BY <2>2, <2>3
  <1>11. RepliesShaped' /\ RepliesFit'
    <2> SUFFICES ASSUME NEW m \in Ks
                 PROVE  /\ Shaped(replies'[m], reqs[m].query)
                        /\ \A j \in 1..Len(replies'[m]) : Fits(m, replies'[m][j])
      BY <1>1 DEF RepliesShaped, RepliesFit, Shaped, Fits, SameQuestion
    <2> QED BY <1>3, <1>4 DEF IInv, RepliesShaped, RepliesFit
  <1> QED BY <1>5, <1>6, <1>7, <1>8, <1>9, <1>10, <1>11

\* The scan gives up a slot that timed out.  No answer that was awaited is
\* left behind: those in the queue are for slots the scan has passed.
LEMMA ScanTimesOutKeeps ==
    ASSUME IInv, ScanTimesOut
    PROVE  IInv'
  <1> DEFINE r == Reply("timeout", owner[at])
  <1>1. /\ pc = "scan" /\ valid[at] /\ at \in Slots /\ Running /\ ScanOn
        /\ replies' = [replies EXCEPT ![owner[at]] = Append(@, r)]
        /\ valid' = [valid EXCEPT ![at] = FALSE]
        /\ UNCHANGED <<rset, inbox, answers, owner, type, age, next, rwlock, cache, expired,
                       broken, reqs, asked, copies, dropped>>
    BY DEF ScanTimesOut, TimedOut, Running, IInv, TypeOK, caches, network
  <1>2. owner[at] \in 1..Handled /\ owner[at] \in Ks /\ reqs[owner[at]].name \notin Blacklist
    BY <1>1, OwnerFacts
  <1>3. r \in Replys /\ r.what = "timeout" /\ r.of = owner[at]
    BY <1>2 DEF Reply, Replys, Whats
  <1>4. Fits(owner[at], r)
    BY <1>2, <1>3 DEF Fits
  <1> HIDE DEF r
  <1>5. /\ valid' \in [Slots -> BOOLEAN]
        /\ replies' \in [Ks -> Seq([what : Whats, of : Ks])]
        /\ InboxInOrder' /\ Untouched' /\ SlotsAsked' /\ InRingOrder' /\ QueriesAllowed'
        /\ Placed' /\ RepliesShaped' /\ RepliesFit'
    BY <1>1, <1>3, <1>4, SlotGivenUp
  <1>6. at' \in Slots /\ pc' \in {"scan", "select"} /\ (pc' = "scan" => at < at')
    BY <1>1, ScanOnFacts
  <1>7. TypeOK'
    BY <1>1, <1>5, <1>6 DEF IInv, TypeOK, Running
  <1>8. AnswersAsked'
    <2> SUFFICES ASSUME NEW j \in 1..Len(answers), Benign
                 PROVE  /\ valid'[answers[j].id]
                        /\ pc' = "scan" => answers[j].id < at'
      BY <1>1 DEF IInv, AnswersAsked
    <2>1. valid[answers[j].id] /\ answers[j].id < at
      BY <1>1 DEF IInv, AnswersAsked
    <2>2. answers[j] \in Packets
      BY DEF IInv, TypeOK
    <2>3. answers[j].id \in Slots /\ answers[j].id \in Int /\ at \in Int /\ at' \in Int
      BY <1>1, <1>6, <2>2, Constants DEF Packets, Slots
    <2>4. answers[j].id # at
      BY <2>1, <2>3
    <2>5. valid'[answers[j].id]
      BY <1>1, <2>1, <2>3, <2>4 DEF IInv, TypeOK
    <2> QED BY <1>6, <2>1, <2>3, <2>5
  <1>9. CachesFit'
    BY <1>1 DEF IInv, CachesFit, Handled
  <1> QED BY <1>5, <1>7, <1>8, <1>9 DEF IInv

-----------------------------------------------------------------------------
(***************************************************************************)
(* handle_relay.                                                           *)
(***************************************************************************)
\* The answer that is received.
LEMMA HeadAnswer ==
    ASSUME IInv, answers # <<>>
    PROVE  LET p == Head(answers) IN
           /\ p \in Packets /\ p.id \in Slots
           /\ p.k \in 1..Handled /\ p.k \in Ks /\ reqs[p.k] \in Forms
           /\ reqs[p.k].name \notin Blacklist
           /\ Benign => valid[p.id] /\ owner[p.id] = p.k
  <1> DEFINE p == Head(answers)
  <1>1. answers \in Seq(Packets)
    BY DEF IInv, TypeOK
  <1>2. p = answers[1] /\ p \in Packets /\ 1 \in 1..Len(answers)
    BY <1>1
  <1>3. /\ [id |-> p.id, k |-> p.k] \in asked
        /\ Benign => valid[p.id] /\ owner[p.id] = p.k
    BY <1>2 DEF IInv, AnswersAsked
  <1>4. p.k \in 1..Handled /\ reqs[p.k].name \notin Blacklist
    BY <1>3 DEF IInv, QueriesAllowed
  <1> QED BY <1>2, <1>3, <1>4, HandledFacts DEF Packets

\* The answers behind it are to other requests, if they were awaited.
LEMMA TailAnswers ==
    ASSUME IInv, answers # <<>>
    PROVE  /\ Tail(answers) \in Seq(Packets) /\ Len(Tail(answers)) = Len(answers) - 1
           /\ Len(answers) \in Nat
           /\ \A j \in 1..Len(Tail(answers)) :
                /\ j + 1 \in 1..Len(answers) /\ Tail(answers)[j] = answers[j + 1]
                /\ Benign => answers[j + 1].k # Head(answers).k
  <1>1. answers \in Seq(Packets)
    BY DEF IInv, TypeOK
  <1>2. /\ Tail(answers) \in Seq(Packets) /\ Len(Tail(answers)) = Len(answers) - 1
        /\ Len(answers) \in Nat /\ 1 \in 1..Len(answers) /\ Head(answers) = answers[1]
        /\ \A j \in 1..Len(Tail(answers)) :
                j + 1 \in 1..Len(answers) /\ Tail(answers)[j] = answers[j + 1]
    BY <1>1
  <1>3. ASSUME Benign, NEW j \in 1..Len(answers), answers[j].k = answers[1].k
        PROVE  j = 1
    BY <1>2, <1>3 DEF IInv, AnswersAsked
  <1> QED BY <1>2, <1>3

\* Taking an answer leaves the others what they were, if no slot but the
\* answer's was given up.
LEMMA AnswerTaken ==
    ASSUME IInv, answers # <<>>, answers' = Tail(answers),
           UNCHANGED <<reqs, asked, copies, owner>>,
           \A i \in Slots : valid'[i] = valid[i] \/ i = Head(answers).id, pc' # "scan"
    PROVE  AnswersAsked'
  <1> SUFFICES ASSUME NEW j \in 1..Len(Tail(answers))
               PROVE  LET p == Tail(answers)[j] IN
                      /\ [id |-> p.id, k |-> p.k] \in asked
                      /\ Benign => /\ valid'[p.id] /\ owner[p.id] = p.k /\ copies[p.k] # 0
                                   /\ \A i \in 1..Len(Tail(answers)) :
                                          Tail(answers)[i].k = p.k => i = j
    BY DEF AnswersAsked
  <1> DEFINE p == answers[j + 1]
  <1>1. /\ j + 1 \in 1..Len(answers) /\ Tail(answers)[j] = p /\ p \in Packets
        /\ Benign => p.k # Head(answers).k
    BY TailAnswers
  <1>2. /\ [id |-> p.id, k |-> p.k] \in asked
        /\ Benign => /\ valid[p.id] /\ owner[p.id] = p.k /\ copies[p.k] # 0
                     /\ \A i \in 1..Len(answers) : answers[i].k = p.k => i = j + 1
    BY <1>1 DEF IInv, AnswersAsked
  <1>3. Benign => p.id # Head(answers).id
    BY <1>1, <1>2, HeadAnswer
  <1>4. Benign => valid'[p.id]
    BY <1>1, <1>2, <1>3 DEF Packets
  <1>5. Benign => \A i \in 1..Len(Tail(answers)) : Tail(answers)[i].k = p.k => i = j
    BY <1>2, TailAnswers
  <1> HIDE DEF p
  <1> QED BY <1>1, <1>2, <1>4, <1>5

\* An answer is discarded, or the process ends or spins in the store.
LEMMA DiscardKeeps ==
    ASSUME IInv, RelayUnknown \/ RelayEnds \/ RelayHangs
    PROVE  IInv'
  <1>1. /\ pc = "relay" /\ answers # <<>> /\ answers' = Tail(answers)
        /\ pc' \in {"select", "request", "ended", "hung"}
        /\ UNCHANGED <<rset, at, inbox, valid, owner, type, age, next, rwlock, cache, expired,
                       broken, reqs, asked, copies, replies, dropped>>
    BY DEF RelayUnknown, RelayEnds, RelayHangs, AfterRelay, adapter, caches, network
  <1>2. TypeOK'
    BY <1>1, TailAnswers DEF IInv, TypeOK, Running
  <1>3. Handled' = Handled /\ Running
    BY <1>1 DEF Handled, Running
  <1>4. InboxInOrder' /\ Untouched' /\ SlotsAsked' /\ QueriesAllowed'
    BY <1>1, <1>3 DEF IInv, InboxInOrder, Untouched, SlotsAsked, SlotType, QueriesAllowed
  <1>5. AnswersAsked'
    BY <1>1, AnswerTaken
  <1>6. InRingOrder'
    BY <1>1 DEF IInv, InRingOrder, Turn
  <1>7. Placed'
    BY <1>1, <1>3 DEF IInv, Placed, Running, Waiting, Settled
  <1>8. RepliesShaped' /\ RepliesFit' /\ CachesFit'
    BY <1>1, <1>3 DEF IInv, RepliesShaped, Shaped, RepliesFit, Fits, SameQuestion, CachesFit
  <1> QED BY <1>2, <1>4, <1>5, <1>6, <1>7, <1>8 DEF IInv

\* A record that is stored has the name and, if awaited, the type.
LEMMA PutKeeps ==
    ASSUME IInv, answers # <<>>, NEW ty \in CacheTypes,
           CachePut(ty, reqs[Head(answers).k].name, Head(answers).k),
           Benign => reqs[Head(answers).k].qtype = ty,
           UNCHANGED <<reqs, inbox>>
    PROVE  /\ CachesFit'
           /\ cache' \in [CacheTypes -> [Names -> Ks \cup {None}]]
           /\ expired' \in [CacheTypes -> SUBSET Names]
           /\ broken' = broken
  <1> DEFINE k == Head(answers).k
             n == reqs[k].name
  <1>1. k \in 1..Handled /\ k \in Ks /\ n \in Names \ Blacklist
    BY HeadAnswer, RelayAssumption DEF RelayAssumption
  <1>2. /\ cache' = [cache EXCEPT ![ty][n] = k] /\ broken' = broken
        /\ expired' = [expired EXCEPT ![ty] = @ \ {n}]
    BY DEF CachePut
  <1>3. /\ cache \in [CacheTypes -> [Names -> Ks \cup {None}]]
        /\ expired \in [CacheTypes -> SUBSET Names]
    BY DEF IInv, TypeOK
  <1>4. Handled' = Handled
    BY DEF Handled
  <1> HIDE DEF k, n
  <1>5. cache' \in [CacheTypes -> [Names -> Ks \cup {None}]]
        /\ expired' \in [CacheTypes -> SUBSET Names]
    BY <1>1, <1>2, <1>3
  <1>6. CachesFit'
    <2> SUFFICES ASSUME NEW t \in CacheTypes, NEW m \in Names, cache'[t][m] # None
                 PROVE  /\ cache'[t][m] \in 1..Handled /\ m \notin Blacklist
                        /\ reqs[cache'[t][m]].name = m
                        /\ Benign => reqs[cache'[t][m]].qtype = t
      BY <1>4 DEF CachesFit
    <2>1. CASE t = ty /\ m = n
      <3>1. cache'[t][m] = k
        BY <1>1, <1>2, <1>3, <2>1
      <3> QED BY <1>1, <2>1, <3>1 DEF n, k
    <2>2. CASE ~(t = ty /\ m = n)
      <3>1. cache'[t][m] = cache[t][m]
        BY <1>1, <1>2, <1>3, <2>2
      <3> QED BY <3>1 DEF IInv, CachesFit
    <2> QED BY <2>1, <2>2
  <1> QED BY <1>2, <1>5, <1>6

\* A record left without data is no answer.
LEMMA LapseKeeps ==
    ASSUME IInv, NEW ty \in CacheTypes, NEW n \in Names, CacheLapse(ty, n), reqs' = reqs,
           Handled' = Handled
    PROVE  /\ CachesFit' /\ cache' \in [CacheTypes -> [Names -> Ks \cup {None}]]
           /\ expired' \in [CacheTypes -> SUBSET Names]
           /\ broken' \in [CacheTypes -> BOOLEAN]
  <1>1. /\ cache \in [CacheTypes -> [Names -> Ks \cup {None}]]
        /\ expired \in [CacheTypes -> SUBSET Names] /\ broken \in [CacheTypes -> BOOLEAN]
    BY DEF IInv, TypeOK
  <1>2. /\ cache' = [cache EXCEPT ![ty][n] = None]
        /\ expired' = [expired EXCEPT ![ty] = @ \ {n}]
        /\ broken' = [broken EXCEPT ![ty] = TRUE]
    BY DEF CacheLapse
  <1>3. /\ cache' \in [CacheTypes -> [Names -> Ks \cup {None}]]
        /\ expired' \in [CacheTypes -> SUBSET Names]
        /\ broken' \in [CacheTypes -> BOOLEAN]
    BY <1>1, <1>2
  <1>4. \A t \in CacheTypes, m \in Names : cache'[t][m] = cache[t][m] \/ cache'[t][m] = None
    BY <1>1, <1>2
  <1>5. CachesFit'
    BY <1>4 DEF IInv, CachesFit
  <1> QED BY <1>3, <1>5

\* An answer is stored and passed on to the slot's client, and the slot given
\* up unless the lock blocks.
LEMMA RelayAnswerKeeps ==
    ASSUME IInv, RelayAnswer
    PROVE  IInv'
  <1> DEFINE p == Head(answers)
             r == Reply("answer", p.k)
  <1>0. PICK k \in Ks : k = owner[p.id]
    <2>1. p.id \in Slots /\ valid[p.id] /\ Running
      BY HeadAnswer DEF RelayAnswer, IDAdapter_get, Running
    <2> QED BY <2>1, OwnerFacts
  <1>1. /\ pc = "relay" /\ answers # <<>> /\ valid[p.id]
        /\ \/ UNCHANGED <<cache, expired, broken>>
           \/ Caches(p) /\ CachePut(type[p.id], reqs[p.k].name, p.k)
           \/ Caches(p) /\ CacheLapse(type[p.id], reqs[p.k].name)
        /\ replies' = [replies EXCEPT ![k] = Append(@, r)]
        /\ answers' = Tail(answers)
        /\ \/ pc' = "blocked" /\ UNCHANGED <<valid, rwlock>>
           \/ /\ pc' \in {"select", "request"}
              /\ valid' = [valid EXCEPT ![p.id] = FALSE] /\ rwlock' = "free"
        /\ UNCHANGED <<rset, at, inbox, reqs, owner, type, age, next, asked, copies, dropped>>
    BY <1>0 DEF RelayAnswer, IDAdapter_get, IDAdapter_pop, AfterRelay, adapter, caches, network
  <1>2. Running /\ Handled' = Handled
    BY <1>1 DEF Running, Handled
  <1>3. /\ p.id \in Slots /\ p.k \in 1..Handled /\ p.k \in Ks /\ reqs[p.k] \in Forms
        /\ Benign => k = p.k
    BY <1>0, <1>1, HeadAnswer
  <1>4. k \in 1..Handled /\ k \in Ks /\ reqs[k].name \notin Blacklist
        /\ ~Settled(k) /\ k \notin dropped
    BY <1>0, <1>1, <1>2, <1>3, OwnerFacts
  <1>5. r \in Replys /\ r.what = "answer" /\ r.of = p.k
    BY <1>3 DEF Reply, Replys, Whats
  <1>6. Fits(k, r)
    BY <1>3, <1>4, <1>5 DEF Fits, SameQuestion
  <1>7. Caches(p) => type[p.id] \in CacheTypes /\ (Benign => reqs[p.k].qtype = type[p.id])
    <2> SUFFICES ASSUME Caches(p)
                 PROVE  type[p.id] \in CacheTypes /\ (Benign => reqs[p.k].qtype = type[p.id])
      OBVIOUS
    <2>1. type[p.id] \in CacheTypes
      BY DEF Caches
    <2>2. type[p.id] = reqs[k].qtype % 256
      BY <1>0, <1>1, <1>3 DEF IInv, SlotsAsked, SlotType
    <2>3. Benign => reqs[p.k].qtype \in 0..255
      BY <1>3, RelayAssumption DEF RelayAssumption, Benign, OneByteTypes
    <2>4. Benign => reqs[p.k].qtype % 256 = reqs[p.k].qtype
      BY <2>3
    <2> QED BY <1>3, <2>1, <2>2, <2>4
  <1>8. /\ replies'[k] = Append(replies[k], r)
        /\ \A j \in Ks : j # k => replies'[j] = replies[j]
        /\ replies \in [Ks -> Seq(Replys)]
    BY <1>1, <1>4 DEF IInv, TypeOK, Replys
  <1>9. /\ valid' \in [Slots -> BOOLEAN]
        /\ \A i \in Slots : valid'[i] = valid[i] \/ i = p.id
        /\ \A i \in Slots : valid'[i] => valid[i]
    BY <1>1, <1>3 DEF IInv, TypeOK
  <1> HIDE DEF r
  <1>10. /\ CachesFit' /\ cache' \in [CacheTypes -> [Names -> Ks \cup {None}]]
         /\ expired' \in [CacheTypes -> SUBSET Names] /\ broken' \in [CacheTypes -> BOOLEAN]
    <2>1. CASE Caches(p) /\ CachePut(type[p.id], reqs[p.k].name, p.k)
      BY <1>1, <1>7, <2>1, PutKeeps DEF IInv, TypeOK
    <2>2. CASE UNCHANGED <<cache, expired, broken>>
      BY <1>1, <1>2, <2>2 DEF IInv, TypeOK, CachesFit
    <2>3. CASE Caches(p) /\ CacheLapse(type[p.id], reqs[p.k].name)
      <3>1. reqs[p.k].name \in Names
        BY <1>3, RelayAssumption DEF RelayAssumption
      <3> QED BY <1>1, <1>2, <1>7, <2>3, <3>1, LapseKeeps
    <2> QED BY <1>1, <2>1, <2>2, <2>3
  <1>11. /\ replies'[k] \in Seq(Replys) /\ Shaped(replies'[k], reqs[k].query)
         /\ Settled(k)'
         /\ \A j \in 1..Len(replies'[k]) : Fits(k, replies'[k][j])
    BY <1>1, <1>2, <1>4, <1>5, <1>6, <1>8, ReplySent
  <1>12. AnswersAsked'
    BY <1>1, <1>9, AnswerTaken
  <1> HIDE DEF p
  <1>13. TypeOK'
    <2>1. replies' \in [Ks -> Seq(Replys)]
      BY <1>1, <1>4, <1>8, <1>11
    <2>2. Tail(answers) \in Seq(Packets)
      BY <1>1, TailAnswers
    <2>3. /\ pc' \in {"select", "request", "blocked"}
          /\ rwlock' \in {"free", "held"}
      BY <1>1 DEF IInv, TypeOK, Running
    <2> QED BY <1>1, <1>9, <1>10, <2>1, <2>2, <2>3 DEF IInv, TypeOK, Replys
  <1>14. InboxInOrder' /\ QueriesAllowed'
    BY <1>1, <1>2 DEF IInv, InboxInOrder, QueriesAllowed
  <1>15. Untouched'
    BY <1>1, <1>2, <1>4, <1>8, HandledFacts DEF IInv, Untouched
  <1>16. SlotsAsked' /\ InRingOrder'
    BY <1>1, <1>2, <1>9 DEF IInv, SlotsAsked, SlotType, InRingOrder, Turn
  <1>17. Placed'
    <2> SUFFICES ASSUME Running', NEW m \in 1..Handled
                 PROVE  /\ Waiting(m)' \/ Settled(m)' \/ m \in dropped
                        /\ ~(Waiting(m)' /\ Settled(m)')
                        /\ ~(Waiting(m)' /\ m \in dropped)
                        /\ ~(Settled(m)' /\ m \in dropped)
      BY <1>1, <1>2 DEF Placed
    <2>1. m \in Ks /\ valid' = [valid EXCEPT ![p.id] = FALSE] /\ valid \in [Slots -> BOOLEAN]
      BY <1>1, HandledFacts DEF Running, IInv, TypeOK
    <2>2. CASE m = k
      <3>1. ~Waiting(m)'
        <4> SUFFICES ASSUME NEW i \in Slots, valid'[i], owner'[i] = m PROVE FALSE
          BY DEF Waiting
        <4>1. i # p.id /\ valid[i] /\ owner[i] = owner[p.id]
          BY <1>0, <1>1, <1>3, <2>1, <2>2
        <4> QED BY <1>1, <1>3, <4>1, OwnersDiffer DEF IInv
      <3> QED BY <1>4, <1>11, <2>2, <3>1
    <2>3. CASE m # k
      <3>1. Settled(m)' <=> Settled(m)
        BY <1>8, <2>1, <2>3 DEF Settled
      <3>2. Waiting(m)' <=> Waiting(m)
        BY <1>0, <1>1, <1>3, <2>1, <2>3 DEF Waiting
      <3> QED BY <1>2, <3>1, <3>2 DEF IInv, Placed
    <2> QED BY <2>2, <2>3
  <1>18. RepliesShaped' /\ RepliesFit'
    <2> SUFFICES ASSUME NEW m \in Ks
                 PROVE  /\ Shaped(replies'[m], reqs[m].query)
                        /\ \A j \in 1..Len(replies'[m]) : Fits(m, replies'[m][j])
      BY <1>1, <1>2 DEF RepliesShaped, RepliesFit, Shaped, Fits, SameQuestion
    <2> QED BY <1>8, <1>11 DEF IInv, RepliesShaped, RepliesFit
  <1> QED BY <1>10, <1>12, <1>13, <1>14, <1>15, <1>16, <1>17, <1>18 DEF IInv

-----------------------------------------------------------------------------
(***************************************************************************)
(* handle_request.                                                         *)
(***************************************************************************)
\* The request that is received is the first that was not handled.
LEMMA HeadRequest ==
    ASSUME IInv, NEW k \in Ks, Requested(k)
    PROVE  /\ k = Handled + 1 /\ k \in 1..Len(reqs) /\ reqs[k] \in Forms /\ Running
           /\ replies[k] = <<>> /\ k \notin dropped /\ ~Waiting(k)
  <1>1. inbox \in Seq(Ks) /\ inbox # <<>> /\ k = Head(inbox) /\ Running
    BY DEF IInv, TypeOK, Requested, Running
  <1>2. k = inbox[1] /\ 1 \in 1..Len(inbox) /\ Len(inbox) \in Nat
    BY <1>1
  <1>3. k = Handled + 1
    BY <1>2 DEF IInv, InboxInOrder
  <1>4. k \in 1..Len(reqs)
    <2>1. Handled = Len(reqs) - Len(inbox)
      BY DEF Handled
    <2> QED BY <1>2, <1>3, <2>1, HandledFacts
  <1>5. replies[k] = <<>> /\ k \notin dropped
    BY <1>3, HandledFacts DEF IInv, Untouched
  <1>6. ~Waiting(k)
    <2>1. \A i \in Slots : valid[i] => owner[i] \in 1..Handled
      BY DEF IInv, SlotsAsked
    <2>2. k \notin 1..Handled
      BY <1>3, HandledFacts
    <2> QED BY <2>1, <2>2 DEF Waiting
  <1> QED BY <1>1, <1>3, <1>4, <1>5, <1>6, HandledFacts

\* Whatever becomes of it, it is taken from the queue and s sent to its client.
LEMMA RequestTaken ==
    ASSUME IInv, NEW k \in Ks, Requested(k), inbox' = Tail(inbox), reqs' = reqs,
           NEW s \in Seq(Replys), Shaped(s, reqs[k].query),
           \A j \in 1..Len(s) : Fits(k, s[j])',
           replies' = [replies EXCEPT ![k] = s],
           dropped' \subseteq dropped \cup {k}
    PROVE  /\ inbox' \in Seq(Ks) /\ replies' \in [Ks -> Seq([what : Whats, of : Ks])]
           /\ Handled' = k /\ \A m : m \in 1..k <=> m = k \/ m \in 1..Handled
           /\ \A m \in 1..Handled : m # k /\ replies'[m] = replies[m]
           /\ replies'[k] = s
           /\ InboxInOrder' /\ Untouched' /\ RepliesShaped' /\ RepliesFit'
  <1>1. /\ k = Handled + 1 /\ Handled \in Nat /\ Len(reqs) \in Nat /\ k \in 1..Len(reqs)
        /\ \A m \in 1..Handled : m \in Ks
    BY HeadRequest, HandledFacts
  <1>2. inbox \in Seq(Ks) /\ inbox # <<>>
    BY DEF IInv, TypeOK, Requested
  <1>3. /\ inbox' \in Seq(Ks) /\ Len(inbox') = Len(inbox) - 1 /\ Len(inbox) \in Nat
        /\ \A j \in 1..Len(inbox') : j + 1 \in 1..Len(inbox) /\ inbox'[j] = inbox[j + 1]
    BY <1>2
  <1>4. Handled = Len(reqs) - Len(inbox) /\ Handled' = Len(reqs) - Len(inbox')
    BY DEF Handled
  <1>5. Handled' = k /\ \A m : m \in 1..k <=> m = k \/ m \in 1..Handled
    BY <1>1, <1>3, <1>4
  <1>6. InboxInOrder'
    <2>1. \A j \in 1..Len(inbox) : inbox[j] = Handled + j
      BY DEF IInv, InboxInOrder
    <2>2. \A j \in 1..Len(inbox') : inbox'[j] = k + j
      BY <1>1, <1>3, <2>1
    <2> QED BY <1>1, <1>3, <1>4, <1>5, <2>2 DEF InboxInOrder
  <1>7. replies \in [Ks -> Seq(Replys)]
    BY DEF IInv, TypeOK, Replys
  <1>8. /\ replies' \in [Ks -> Seq(Replys)] /\ replies'[k] = s
        /\ \A m \in Ks : m # k => replies'[m] = replies[m]
    BY <1>7
  <1>9. Untouched'
    <2> SUFFICES ASSUME NEW m \in Ks, m > k PROVE replies'[m] = <<>> /\ m \notin dropped'
      BY <1>5 DEF Untouched
    <2>1. m > Handled /\ m # k
      BY <1>1, Constants DEF Ks
    <2> QED BY <1>8, <2>1 DEF IInv, Untouched
  <1>10. RepliesShaped'
    BY <1>8 DEF IInv, RepliesShaped
  <1>11. RepliesFit'
    <2> SUFFICES ASSUME NEW m \in Ks, m # k, NEW j \in 1..Len(replies'[m])
                 PROVE  Fits(m, replies[m][j])'
      BY <1>8 DEF RepliesFit, Fits
    <2>1. replies'[m] = replies[m] /\ Fits(m, replies[m][j])
      BY <1>8 DEF IInv, RepliesFit
    <2> QED BY <1>1, <1>5, <2>1 DEF Fits, SameQuestion
  <1>12. \A m \in 1..Handled : m # k
    BY <1>1
  <1>13. \A m \in 1..Handled : m # k /\ replies'[m] = replies[m]
    BY <1>1, <1>8, <1>12
  <1> QED BY <1>3, <1>5, <1>6, <1>8, <1>9, <1>10, <1>11, <1>13 DEF Replys

\* The refusal of what is not a query.
LEMMA RefusalFacts ==
    ASSUME IInv, NEW k \in Ks, k <= Handled'
    PROVE  /\ Refusal(k) \in Seq(Replys) /\ <<>> \o Refusal(k) = Refusal(k)
           /\ Shaped(Refusal(k), reqs[k].query)
           /\ \A j \in 1..Len(Refusal(k)) :
                  Refusal(k)[j].what = "refused" /\ Refusal(k)[j].of = k
  <1>1. /\ Reply("refused", k) \in Replys /\ Reply("refused", k).what = "refused"
        /\ Reply("refused", k).of = k
    BY DEF Reply, Replys, Whats
  <1>2. CASE reqs[k].query
    <2>1. Refusal(k) = <<>>
      BY <1>2 DEF Refusal
    <2> QED BY <2>1 DEF Shaped
  <1>3. CASE ~reqs[k].query
    <2>1. Refusal(k) = <<Reply("refused", k)>>
      BY <1>3 DEF Refusal
    <2>2. Refusal(k) \in Seq(Replys) /\ Len(Refusal(k)) = 1 /\ Refusal(k)[1] = Reply("refused", k)
      BY <1>1, <2>1
    <2> HIDE DEF Refusal
    <2> QED BY <1>1, <1>3, <2>2 DEF Shaped
  <1> QED BY <1>2, <1>3

\* Taking a request makes it the last one handled.
LEMMA NextHandled ==
    ASSUME IInv, NEW k \in Ks, Requested(k), inbox' = Tail(inbox), reqs' = reqs
    PROVE  Handled' = k /\ k \in Nat /\ \A m \in 1..Handled : m \in 1..k
  <1>1. k = Handled + 1 /\ Handled \in Nat
    BY HeadRequest, HandledFacts
  <1>2. inbox \in Seq(Ks) /\ inbox # <<>> /\ reqs \in Seq(Forms)
    BY DEF IInv, TypeOK, Requested
  <1>3. Len(inbox') = Len(inbox) - 1 /\ Len(inbox) \in Nat /\ Len(reqs) \in Nat
    BY <1>2
  <1>4. Handled = Len(reqs) - Len(inbox) /\ Handled' = Len(reqs) - Len(inbox')
    BY DEF Handled
  <1> QED BY <1>1, <1>3, <1>4

\* What a larger number of handled requests leaves true.
LEMMA HandledGrows ==
    ASSUME IInv, reqs' = reqs, NEW k \in Nat, Handled' = k,
           \A m \in 1..Handled : m \in 1..k
    PROVE  /\ asked' = asked => QueriesAllowed'
           /\ UNCHANGED <<valid, owner, type, asked>> => SlotsAsked'
           /\ cache' = cache => CachesFit'
  <1>1. ASSUME asked' = asked PROVE QueriesAllowed'
    BY <1>1 DEF IInv, QueriesAllowed
  <1>2. ASSUME UNCHANGED <<valid, owner, type, asked>> PROVE SlotsAsked'
    BY <1>2 DEF IInv, SlotsAsked, SlotType
  <1>3. ASSUME cache' = cache PROVE CachesFit'
    BY <1>3 DEF IInv, CachesFit
  <1> QED BY <1>1, <1>2, <1>3

\* A reply after the refusal, if there is one.
LEMMA AnsweredSeq ==
    ASSUME IInv, NEW k \in Ks, Requested(k), inbox' = Tail(inbox), reqs' = reqs,
           NEW r \in Replys, r.what # "refused", Fits(k, r)', Handled' = k
    PROVE  \E s \in Seq(Replys) :
              /\ replies[k] \o Refusal(k) \o <<r>> = s
              /\ Shaped(s, reqs[k].query)
              /\ \A j \in 1..Len(s) : Fits(k, s[j])'
              /\ Len(s) \in 1..Len(s) /\ s[Len(s)] = r
  <1>1. replies[k] = <<>> /\ k \in Nat /\ k \in 1..k
    BY HeadRequest, HandledFacts
  <1>2. PICK t \in Seq(Replys) : t = Refusal(k)
    BY <1>1, RefusalFacts
  <1>3. /\ replies[k] \o Refusal(k) = t /\ Shaped(t, reqs[k].query)
        /\ \A j \in 1..Len(t) : t[j].what = "refused" /\ t[j].of = k
    BY <1>1, <1>2, RefusalFacts
  <1>4. PICK s \in Seq(Replys) : s = Append(t, r)
    BY ReplyAppended, <1>3
  <1>5. /\ Len(s) = Len(t) + 1 /\ Len(t) \in Nat /\ Shaped(s, reqs[k].query)
        /\ \A j \in 1..Len(t) : s[j] = t[j]
        /\ s[Len(t) + 1] = r
    BY <1>3, <1>4, ReplyAppended
  <1>6. \A j \in 1..Len(t) : Fits(k, t[j])'
    BY <1>1, <1>3 DEF Fits
  <1>7. \A j \in 1..Len(s) : Fits(k, s[j])'
    <2> SUFFICES ASSUME NEW j \in 1..Len(s) PROVE Fits(k, s[j])'
      OBVIOUS
    <2>1. CASE j <= Len(t)
      <3>1. j \in 1..Len(t) /\ s[j] = t[j]
        BY <1>5, <2>1
      <3> QED BY <1>6, <3>1 DEF Fits
    <2>2. CASE j > Len(t)
      <3>1. s[j] = r
        BY <1>5, <2>2
      <3> QED BY <3>1 DEF Fits
    <2> QED BY <1>5, <2>1, <2>2
  <1>8. t \o <<r>> = s
    BY <1>4
  <1> QED BY <1>3, <1>5, <1>7, <1>8

\* A request is answered at once.
LEMMA AnsweredKeeps ==
    ASSUME IInv, NEW k \in Ks, Requested(k), NEW r \in Replys, r.what # "refused",
           r.of \in 1..k,
           reqs[k].name \in Blacklist => r.what = "name_error",
           r.what = "cached" => reqs[r.of].name = reqs[k].name,
           Benign /\ r.what \in {"answer", "cached"} => SameQuestion(r.of, k),
           Answered(k, r), UNCHANGED caches
    PROVE  IInv'
  <1>1. /\ replies' = [replies EXCEPT ![k] = @ \o Refusal(k) \o <<r>>]
        /\ inbox' = Tail(inbox) /\ pc' = "select"
        /\ UNCHANGED <<rset, at, answers, valid, owner, type, age, next, rwlock, cache, expired,
                       broken, reqs, asked, copies, dropped>>
    BY DEF Answered, adapter, network, caches
  <1>2. Handled' = k /\ k \in Nat /\ \A m \in 1..Handled : m \in 1..k
    BY <1>1, NextHandled
  <1>3. Fits(k, r)'
    BY <1>1, <1>2 DEF Fits, SameQuestion
  <1>4. PICK s \in Seq(Replys) :
              /\ replies[k] \o Refusal(k) \o <<r>> = s
              /\ Shaped(s, reqs[k].query)
              /\ \A j \in 1..Len(s) : Fits(k, s[j])'
              /\ Len(s) \in 1..Len(s) /\ s[Len(s)] = r
    BY <1>1, <1>2, <1>3, AnsweredSeq
  <1>5. replies' = [replies EXCEPT ![k] = s]
    BY <1>1, <1>4
  <1>6. /\ inbox' \in Seq(Ks) /\ replies' \in [Ks -> Seq([what : Whats, of : Ks])]
        /\ \A m : m \in 1..k <=> m = k \/ m \in 1..Handled
        /\ \A m \in 1..Handled : m # k /\ replies'[m] = replies[m]
        /\ replies'[k] = s
        /\ InboxInOrder' /\ Untouched' /\ RepliesShaped' /\ RepliesFit'
    BY <1>1, <1>4, <1>5, RequestTaken
  <1>7. TypeOK'
    BY <1>1, <1>6 DEF IInv, TypeOK
  <1>8. QueriesAllowed' /\ SlotsAsked' /\ CachesFit'
    BY <1>1, <1>2, HandledGrows
  <1>9. AnswersAsked' /\ InRingOrder'
    BY <1>1 DEF IInv, AnswersAsked, InRingOrder, Turn
  <1>10. Placed'
    <2> SUFFICES ASSUME NEW m \in 1..k
                 PROVE  /\ Waiting(m)' \/ Settled(m)' \/ m \in dropped
                        /\ ~(Waiting(m)' /\ Settled(m)')
                        /\ ~(Waiting(m)' /\ m \in dropped)
                        /\ ~(Settled(m)' /\ m \in dropped)
      BY <1>1, <1>2 DEF Placed
    <2>1. Waiting(m)' <=> Waiting(m)
      BY <1>1 DEF Waiting
    <2>2. CASE m = k
      <3>1. Settled(k)'
        BY <1>4, <1>6 DEF Settled
      <3> QED BY <2>1, <2>2, <3>1, HeadRequest
    <2>3. CASE m # k
      <3>1. m \in 1..Handled /\ replies'[m] = replies[m]
        BY <1>6, <2>3
      <3>2. Settled(m)' <=> Settled(m)
        BY <3>1 DEF Settled
      <3> QED BY <2>1, <3>1, <3>2, HeadRequest DEF IInv, Placed
    <2> QED BY <2>2, <2>3
  <1> QED BY <1>6, <1>7, <1>8, <1>9, <1>10 DEF IInv

\* The name is in a list, or in a cache.
LEMMA AnsweredStepsKeep ==
    ASSUME IInv, NEW k \in Ks, RequestBlocked(k) \/ RequestLocal(k) \/ RequestCached(k)
    PROVE  IInv'
  <1>1. k \in Nat /\ k \in 1..k /\ k > 0
    BY Constants DEF Ks
  <1>2. ASSUME NEW w \in {"name_error", "local"}
        PROVE  /\ Reply(w, k) \in Replys /\ Reply(w, k).what = w /\ Reply(w, k).of = k
    BY <1>1 DEF Reply, Replys, Whats
  <1>3. CASE RequestBlocked(k)
    <2>1. Requested(k) /\ Answered(k, Reply("name_error", k)) /\ UNCHANGED caches
      BY <1>3 DEF RequestBlocked
    <2> QED BY <1>1, <1>2, <2>1, AnsweredKeeps
  <1>4. CASE RequestLocal(k)
    <2>1. /\ Requested(k) /\ Answered(k, Reply("local", k)) /\ UNCHANGED caches
          /\ reqs[k].name \notin Blacklist
      BY <1>4 DEF RequestLocal
    <2> QED BY <1>1, <1>2, <2>1, AnsweredKeeps
  <1>5. CASE RequestCached(k)
    <2> DEFINE ty == reqs[k].qtype
               n == reqs[k].name
               c == cache[ty][n]
    <2>1. /\ Requested(k) /\ n \notin Blacklist /\ ty \in CacheTypes
          /\ c # None /\ Answered(k, Reply("cached", c)) /\ UNCHANGED caches
      BY <1>5 DEF RequestCached, Searches, LookedUp
    <2>2. n \in Names /\ k = Handled + 1
      BY <2>1, HeadRequest, RelayAssumption DEF RelayAssumption
    <2>3. /\ c \in 1..Handled /\ reqs[c].name = n
          /\ Benign => reqs[c].qtype = ty
      BY <2>1, <2>2 DEF IInv, CachesFit
    <2>4. c \in Ks /\ c \in 1..k
      BY <2>2, <2>3, HandledFacts
    <2>5. /\ Reply("cached", c) \in Replys /\ Reply("cached", c).what = "cached"
          /\ Reply("cached", c).of = c
      BY <2>4 DEF Reply, Replys, Whats
    <2>6. reqs[c].name = reqs[k].name /\ (Benign => SameQuestion(c, k))
      BY <2>3 DEF SameQuestion
    <2> HIDE DEF c, ty, n
    <2>7. PICK r \in Replys : r = Reply("cached", c)
      BY <2>5
    <2>8. reqs[k].name \notin Blacklist
      BY <2>1 DEF n
    <2> QED BY <2>1, <2>4, <2>5, <2>6, <2>7, <2>8, AnsweredKeeps
  <1> QED BY <1>3, <1>4, <1>5

\* A request that is not answered at once: only the refusal, if any, is sent.
LEMMA OnlyRefused ==
    ASSUME IInv, NEW k \in Ks, Requested(k), inbox' = Tail(inbox), reqs' = reqs,
           replies' = [replies EXCEPT ![k] = @ \o Refusal(k)],
           dropped' \subseteq dropped \cup {k}
    PROVE  /\ inbox' \in Seq(Ks) /\ replies' \in [Ks -> Seq([what : Whats, of : Ks])]
           /\ \A m : m \in 1..k <=> m = k \/ m \in 1..Handled
           /\ ~Settled(k)' /\ \A m \in 1..Handled : m # k /\ (Settled(m)' <=> Settled(m))
           /\ InboxInOrder' /\ Untouched' /\ RepliesShaped' /\ RepliesFit'
  <1>1. replies[k] = <<>> /\ Handled' = k /\ k \in 1..k /\ k \in Nat
    BY HeadRequest, NextHandled, Constants DEF Ks
  <1>2. PICK s \in Seq(Replys) : s = Refusal(k)
    BY <1>1, RefusalFacts
  <1>3. /\ replies[k] \o Refusal(k) = s /\ Shaped(s, reqs[k].query)
        /\ \A j \in 1..Len(s) : s[j].what = "refused" /\ s[j].of = k
    BY <1>1, <1>2, RefusalFacts
  <1>4. replies' = [replies EXCEPT ![k] = s]
    BY <1>3
  <1>5. \A j \in 1..Len(s) : Fits(k, s[j])'
    BY <1>1, <1>3 DEF Fits
  <1>6. /\ inbox' \in Seq(Ks) /\ replies' \in [Ks -> Seq([what : Whats, of : Ks])]
        /\ \A m : m \in 1..k <=> m = k \/ m \in 1..Handled
        /\ \A m \in 1..Handled : m # k /\ replies'[m] = replies[m]
        /\ replies'[k] = s
        /\ InboxInOrder' /\ Untouched' /\ RepliesShaped' /\ RepliesFit'
    BY <1>3, <1>4, <1>5, RequestTaken
  <1>7. ~Settled(k)' /\ \A m \in 1..Handled : Settled(m)' <=> Settled(m)
    BY <1>3, <1>6 DEF Settled
  <1> QED BY <1>6, <1>7

\* A lookup that misses leaves the caches or drops a record.
LEMMA MissKeeps ==
    ASSUME IInv, NEW k \in Nat, Handled' = k, \A m \in 1..Handled : m \in 1..k, reqs' = reqs,
           NEW ty, NEW n \in Names, UNCHANGED caches \/ (ty \in CacheTypes /\ CacheDrop(ty, n))
    PROVE  /\ CachesFit' /\ cache' \in [CacheTypes -> [Names -> Ks \cup {None}]]
           /\ expired' \in [CacheTypes -> SUBSET Names]
           /\ broken' \in [CacheTypes -> BOOLEAN]
  <1>1. /\ cache \in [CacheTypes -> [Names -> Ks \cup {None}]]
        /\ expired \in [CacheTypes -> SUBSET Names] /\ broken \in [CacheTypes -> BOOLEAN]
    BY DEF IInv, TypeOK
  <1>2. CASE UNCHANGED caches
    BY <1>1, <1>2, HandledGrows DEF caches
  <1>3. CASE ty \in CacheTypes /\ CacheDrop(ty, n)
    <2>1. /\ cache' = [cache EXCEPT ![ty][n] = None]
          /\ expired' = [expired EXCEPT ![ty] = @ \ {n}]
          /\ broken' = [broken EXCEPT ![ty] = @ \/ Cardinality(Stored(ty)) > 1]
      BY <1>3 DEF CacheDrop
    <2>2. /\ cache' \in [CacheTypes -> [Names -> Ks \cup {None}]]
          /\ expired' \in [CacheTypes -> SUBSET Names]
          /\ broken' \in [CacheTypes -> BOOLEAN]
      BY <1>1, <1>3, <2>1
    <2>3. \A t \in CacheTypes, m \in Names : cache'[t][m] = cache[t][m] \/ cache'[t][m] = None
      BY <1>1, <1>3, <2>1
    <2>4. CachesFit'
      <3> SUFFICES ASSUME NEW t \in CacheTypes, NEW m \in Names, cache'[t][m] # None
                   PROVE  /\ cache'[t][m] \in 1..k /\ m \notin Blacklist
                          /\ reqs[cache'[t][m]].name = m
                          /\ Benign => reqs[cache'[t][m]].qtype = t
        BY DEF CachesFit
      <3> QED BY <2>3 DEF IInv, CachesFit
    <2> QED BY <2>2, <2>4
  <1> QED BY <1>2, <1>3

\* IDAdapter_push gives the newest request the slot that is last in turn.
LEMMA PushInOrder ==
    ASSUME IInv, NEW k \in Ks, k = Handled + 1, IDAdapter_push(k)
    PROVE  InRingOrder'
  <1>1. /\ valid' = [valid EXCEPT ![next] = TRUE] /\ owner' = [owner EXCEPT ![next] = k]
        /\ age' = [age EXCEPT ![next] = 0] /\ next' = NextSlot
    BY DEF IDAdapter_push
  <1>2. /\ valid \in [Slots -> BOOLEAN] /\ owner \in [Slots -> Ks \cup {None}]
        /\ age \in [Slots -> 0..DNS_TTL] /\ next \in Slots
    BY DEF IInv, TypeOK
  <1> SUFFICES ASSUME NEW i \in Slots, NEW j \in Slots, valid'[i], valid'[j], Turn(i)' < Turn(j)'
               PROVE  owner'[i] < owner'[j] /\ age'[i] >= age'[j]
    BY DEF InRingOrder
  <1>3. /\ Turn(i) \in Slots /\ Turn(j) \in Slots
        /\ Turn(i)' = IF i = next THEN SIZE - 1 ELSE Turn(i) - 1
        /\ Turn(j)' = IF j = next THEN SIZE - 1 ELSE Turn(j) - 1
    BY <1>1, <1>2, TurnAfterPush
  <1>4. i # next
    BY <1>3, Constants DEF Slots
  <1>5. /\ valid[i] /\ owner'[i] = owner[i] /\ age'[i] = age[i] /\ age[i] \in 0..DNS_TTL
        /\ owner[i] \in 1..Handled
    BY <1>1, <1>2, <1>4 DEF IInv, SlotsAsked
  <1>6. CASE j = next
    <2>1. owner'[j] = k /\ age'[j] = 0
      BY <1>1, <1>2, <1>6
    <2> QED BY <1>5, <2>1, HandledFacts, Constants
  <1>7. CASE j # next
    <2>1. valid[j] /\ owner'[j] = owner[j] /\ age'[j] = age[j]
      BY <1>1, <1>2, <1>7
    <2>2. Turn(i) < Turn(j)
      BY <1>3, <1>4, <1>7, Constants DEF Slots
    <2> QED BY <1>5, <2>1, <2>2 DEF IInv, InRingOrder
  <1> QED BY <1>6, <1>7

\* What an unsigned char holds.
LEMMA LowByte == \A q \in Nat : q % 256 \in 0..255
  OBVIOUS

\* The slot it takes, and the query sent under its number.
LEMMA PushKeeps ==
    ASSUME IInv, NEW k \in Ks, Requested(k), inbox' = Tail(inbox), reqs' = reqs,
           reqs[k].name \notin Blacklist, IDAdapter_push(k),
           asked' = asked \cup {[id |-> next, k |-> k]}, pc' = "select",
           UNCHANGED <<answers, copies>>
    PROVE  /\ valid' \in [Slots -> BOOLEAN] /\ owner' \in [Slots -> Ks \cup {None}]
           /\ type' \in [Slots -> 0..255] /\ age' \in [Slots -> 0..DNS_TTL]
           /\ next' \in Slots /\ rwlock' = "free" /\ asked' \subseteq [id : Slots, k : Ks]
           /\ SlotsAsked' /\ InRingOrder' /\ QueriesAllowed' /\ AnswersAsked'
           /\ Waiting(k)' /\ \A m : m # k => (Waiting(m)' <=> Waiting(m))
  <1>1. /\ valid' = [valid EXCEPT ![next] = TRUE] /\ owner' = [owner EXCEPT ![next] = k]
        /\ type' = [type EXCEPT ![next] = SlotType(k)] /\ age' = [age EXCEPT ![next] = 0]
        /\ next' = NextSlot /\ rwlock' = "free" /\ ~valid[next]
    BY DEF IDAdapter_push
  <1>2. /\ valid \in [Slots -> BOOLEAN] /\ owner \in [Slots -> Ks \cup {None}]
        /\ type \in [Slots -> 0..255] /\ age \in [Slots -> 0..DNS_TTL] /\ next \in Slots
        /\ asked \subseteq [id : Slots, k : Ks]
    BY DEF IInv, TypeOK
  <1>3. /\ Handled' = k /\ k \in Nat /\ (\A m \in 1..Handled : m \in 1..k)
        /\ k = Handled + 1 /\ reqs[k] \in Forms /\ k \in 1..k
    BY NextHandled, HeadRequest, Constants DEF Ks
  <1>4. SlotType(k) \in 0..255
    <2>1. reqs[k].qtype \in Nat
      BY <1>3, RelayAssumption DEF RelayAssumption
    <2> QED BY <2>1, LowByte DEF SlotType
  <1>5. /\ valid' \in [Slots -> BOOLEAN] /\ owner' \in [Slots -> Ks \cup {None}]
        /\ type' \in [Slots -> 0..255] /\ age' \in [Slots -> 0..DNS_TTL]
        /\ next' \in Slots /\ asked' \subseteq [id : Slots, k : Ks]
    BY <1>1, <1>2, <1>4, NextSlotValue, Constants
  <1>6. /\ valid'[next] /\ owner'[next] = k /\ type'[next] = SlotType(k)
        /\ \A i \in Slots : i # next => valid'[i] = valid[i] /\ owner'[i] = owner[i]
                                        /\ type'[i] = type[i]
    BY <1>1, <1>2
  <1>7. SlotsAsked'
    <2> SUFFICES ASSUME NEW i \in Slots, valid'[i]
                 PROVE  /\ owner'[i] \in 1..k /\ [id |-> i, k |-> owner'[i]] \in asked'
                        /\ type'[i] = SlotType(owner'[i])
      BY <1>3 DEF SlotsAsked, SlotType
    <2>1. CASE i = next
      BY <1>3, <1>6, <2>1
    <2>2. CASE i # next
      BY <1>3, <1>6, <2>2 DEF IInv, SlotsAsked
    <2> QED BY <2>1, <2>2
  <1>8. InRingOrder'
    BY <1>3, PushInOrder
  <1>9. QueriesAllowed'
    BY <1>3 DEF IInv, QueriesAllowed
  <1>10. AnswersAsked'
    <2> SUFFICES ASSUME NEW j \in 1..Len(answers)
                 PROVE  LET p == answers[j] IN
                        /\ [id |-> p.id, k |-> p.k] \in asked'
                        /\ Benign => /\ valid'[p.id] /\ owner'[p.id] = p.k /\ copies[p.k] # 0
                                     /\ \A i \in 1..Len(answers) : answers[i].k = p.k => i = j
      BY DEF AnswersAsked
    <2>1. answers[j] \in Packets
      BY DEF IInv, TypeOK
    <2>2. answers[j].id \in Slots
      BY <2>1 DEF Packets
    <2> QED BY <1>1, <1>6, <2>2 DEF IInv, AnswersAsked
  <1>11. Waiting(k)'
    BY <1>2, <1>6 DEF Waiting
  <1>12. ASSUME NEW m, m # k PROVE Waiting(m)' <=> Waiting(m)
    BY <1>1, <1>2, <1>6, <1>12 DEF Waiting
  <1> QED BY <1>1, <1>5, <1>7, <1>8, <1>9, <1>10, <1>11, <1>12

\* No list and no cache has the name.
LEMMA RequestMissedKeeps ==
    ASSUME IInv, NEW k \in Ks, RequestMissed(k)
    PROVE  IInv'
  <1> DEFINE ty == reqs[k].qtype
             n == reqs[k].name
  <1>1. /\ Requested(k) /\ n \notin Blacklist
        /\ UNCHANGED caches \/ (ty \in CacheTypes /\ CacheDrop(ty, n))
        /\ replies' = [replies EXCEPT ![k] = @ \o Refusal(k)] /\ inbox' = Tail(inbox)
        /\ \/ pc' = "blocked" /\ UNCHANGED <<valid, owner, type, age, next, rwlock, asked, dropped>>
           \/ /\ pc' = "select" /\ IDAdapter_push(k)
              /\ asked' = asked \cup {[id |-> next, k |-> k]}
              /\ UNCHANGED dropped
           \/ /\ pc' = "select" /\ dropped' = dropped \cup {k} /\ rwlock' = "held"
              /\ UNCHANGED <<valid, owner, type, age, next, asked>>
        /\ UNCHANGED <<rset, at, answers, reqs, copies>>
    BY DEF RequestMissed, Searches, Forward, NewId, adapter
  <1>2. /\ n \in Names /\ k \notin dropped /\ ~Waiting(k) /\ Running
        /\ Handled' = k /\ k \in Nat /\ \A m \in 1..Handled : m \in 1..k
    BY <1>1, HeadRequest, NextHandled, RelayAssumption DEF RelayAssumption
  <1>3. dropped \subseteq Ks /\ dropped' \subseteq dropped \cup {k}
    BY <1>1 DEF IInv, TypeOK
  <1>4. /\ inbox' \in Seq(Ks) /\ replies' \in [Ks -> Seq([what : Whats, of : Ks])]
        /\ \A m : m \in 1..k <=> m = k \/ m \in 1..Handled
        /\ ~Settled(k)' /\ \A m \in 1..Handled : m # k /\ (Settled(m)' <=> Settled(m))
        /\ InboxInOrder' /\ Untouched' /\ RepliesShaped' /\ RepliesFit'
    BY <1>1, <1>3, OnlyRefused
  <1>5. /\ CachesFit' /\ cache' \in [CacheTypes -> [Names -> Ks \cup {None}]]
        /\ expired' \in [CacheTypes -> SUBSET Names]
        /\ broken' \in [CacheTypes -> BOOLEAN]
    BY <1>1, <1>2, MissKeeps
  <1> HIDE DEF ty
  <1>6. CASE IDAdapter_push(k) /\ asked' = asked \cup {[id |-> next, k |-> k]}
             /\ dropped' = dropped /\ pc' = "select"
    <2>1. /\ valid' \in [Slots -> BOOLEAN] /\ owner' \in [Slots -> Ks \cup {None}]
          /\ type' \in [Slots -> 0..255] /\ age' \in [Slots -> 0..DNS_TTL]
          /\ next' \in Slots /\ rwlock' = "free" /\ asked' \subseteq [id : Slots, k : Ks]
          /\ SlotsAsked' /\ InRingOrder' /\ QueriesAllowed' /\ AnswersAsked'
          /\ Waiting(k)' /\ \A m : m # k => (Waiting(m)' <=> Waiting(m))
      BY <1>1, <1>6, PushKeeps
    <2>2. TypeOK'
      BY <1>1, <1>4, <1>5, <1>6, <2>1 DEF IInv, TypeOK
    <2>3. Placed'
      BY <1>2, <1>4, <1>6, <2>1 DEF IInv, Placed
    <2> QED BY <1>4, <1>5, <2>1, <2>2, <2>3 DEF IInv
  <1>7. CASE UNCHANGED <<valid, owner, type, age, next, asked>>
             /\ \/ pc' = "blocked" /\ UNCHANGED <<rwlock, dropped>>
                \/ pc' = "select" /\ dropped' = dropped \cup {k} /\ rwlock' = "held"
    <2>1. TypeOK'
      BY <1>1, <1>3, <1>4, <1>5, <1>7 DEF IInv, TypeOK
    <2>2. SlotsAsked' /\ QueriesAllowed'
      BY <1>1, <1>2, <1>7, HandledGrows
    <2>3. InRingOrder' /\ AnswersAsked'
      BY <1>1, <1>7 DEF IInv, InRingOrder, Turn, AnswersAsked
    <2>4. \A m : Waiting(m)' <=> Waiting(m)
      BY <1>7 DEF Waiting
    <2>5. Placed'
      <3>1. CASE pc' = "blocked"
        BY <3>1 DEF Placed, Running
      <3>2. CASE dropped' = dropped \cup {k}
        BY <1>2, <1>4, <2>4, <3>2 DEF IInv, Placed
      <3> QED BY <1>7, <3>1, <3>2
    <2> QED BY <1>4, <1>5, <2>1, <2>2, <2>3, <2>5 DEF IInv
  <1> QED BY <1>1, <1>6, <1>7

\* The lookup ends the process.
LEMMA RequestEndsKeeps ==
    ASSUME IInv, NEW k \in Ks, RequestEnds(k)
    PROVE  IInv'
  <1>1. /\ Requested(k) /\ pc' = "ended" /\ inbox' = Tail(inbox)
        /\ replies' = [replies EXCEPT ![k] = @ \o Refusal(k)]
        /\ UNCHANGED <<rset, at, answers, valid, owner, type, age, next, rwlock, cache, expired,
                       broken, reqs, asked, copies, dropped>>
    BY DEF RequestEnds, Searches, adapter, caches, network
  <1>2. Handled' = k /\ k \in Nat /\ \A m \in 1..Handled : m \in 1..k
    BY <1>1, NextHandled
  <1>3. /\ inbox' \in Seq(Ks) /\ replies' \in [Ks -> Seq([what : Whats, of : Ks])]
        /\ InboxInOrder' /\ Untouched' /\ RepliesShaped' /\ RepliesFit'
    BY <1>1, OnlyRefused
  <1>4. TypeOK'
    BY <1>1, <1>3 DEF IInv, TypeOK
  <1>5. SlotsAsked' /\ QueriesAllowed' /\ CachesFit'
    BY <1>1, <1>2, HandledGrows
  <1>6. InRingOrder' /\ AnswersAsked' /\ Placed'
    BY <1>1 DEF IInv, InRingOrder, Turn, AnswersAsked, Placed, Running
  <1> QED BY <1>3, <1>4, <1>5, <1>6 DEF IInv

-----------------------------------------------------------------------------
(***************************************************************************)
(* Every step keeps the invariant.                                         *)
(***************************************************************************)
LEMMA NextIInv == IInv /\ [Next]_vars => IInv'
  <1> SUFFICES ASSUME IInv, [Next]_vars PROVE IInv'
    OBVIOUS
  <1>1. ASSUME Loop PROVE IInv'
    <2>1. ASSUME HandleRelay PROVE IInv'
      BY <2>1, DiscardKeeps, RelayAnswerKeeps DEF HandleRelay
    <2>2. ASSUME HandleRequest PROVE IInv'
      BY <2>2, AnsweredStepsKeep, RequestMissedKeeps, RequestEndsKeeps DEF HandleRequest
    <2> QED BY <1>1, <2>1, <2>2, SimpleStepsKeep, ScanTimesOutKeeps DEF Loop
  <1>2. ASSUME Environment PROVE IInv'
    BY <1>2, ArriveKeeps, UpstreamAnswerKeeps, ClockStepKeeps, SimpleStepsKeep DEF Environment
  <1>3. ASSUME Stopped \/ UNCHANGED vars PROVE IInv'
    BY <1>3, SimpleStepsKeep DEF Stopped
  <1> QED BY <1>1, <1>2, <1>3 DEF Next

\* IInv is an invariant of the relay.
LEMMA Invariance == Spec => []IInv
  BY InitIInv, NextIInv, PTL DEF Spec

-----------------------------------------------------------------------------
(***************************************************************************)
(* Where an answer that was not awaited may go.                            *)
(***************************************************************************)
\* o is k itself, or an older request that was settled and had a slot of k's.
Old(o, k) ==
    \/ o = k
    \/ /\ o < k /\ Settled(o)
       /\ \E i \in Slots : {[id |-> i, k |-> o], [id |-> i, k |-> k]} \subseteq asked

\* A query that was sent is that of the slot's owner, or an older one and
\* settled.
AskedOld ==
    \A q \in asked :
        q.k <= owner[q.id] /\ ((valid[q.id] /\ owner[q.id] = q.k) \/ Settled(q.k))

AnswersOld ==
    \A k \in Ks : \A j \in 1..Len(replies[k]) :
        replies[k][j].what = "answer" => Old(replies[k][j].of, k)

SInv == AskedOld /\ AnswersOld

\* The elements of a sequence that is added to.
LEMMA ConcatElements ==
    ASSUME NEW t \in Seq(Replys), NEW s \in Seq(Replys), NEW u, u = t \o s
    PROVE  /\ \A j \in 1..Len(t) : j \in 1..Len(u) /\ u[j] = t[j]
           /\ \A j \in 1..Len(u) : \/ j \in 1..Len(t) /\ u[j] = t[j]
                                   \/ \E i \in 1..Len(s) : u[j] = s[i]
  <1>1. /\ Len(t \o s) = Len(t) + Len(s) /\ Len(t) \in Nat /\ Len(s) \in Nat
        /\ \A j \in 1..Len(t) : (t \o s)[j] = t[j]
        /\ \A j \in 1..(Len(t) + Len(s)) : j > Len(t) => (t \o s)[j] = s[j - Len(t)]
    OBVIOUS
  <1>2. ASSUME NEW j \in 1..Len(u)
        PROVE  \/ j \in 1..Len(t) /\ u[j] = t[j]
               \/ \E i \in 1..Len(s) : u[j] = s[i]
    <2>1. CASE j <= Len(t)
      BY <1>1, <2>1
    <2>2. CASE j > Len(t)
      <3>1. j - Len(t) \in 1..Len(s) /\ u[j] = s[j - Len(t)]
        BY <1>1, <2>2
      <3> QED BY <3>1
    <2> QED BY <1>1, <2>1, <2>2
  <1>3. \A j \in 1..Len(t) : j \in 1..Len(u) /\ u[j] = t[j]
    BY <1>1
  <1> QED BY <1>2, <1>3

\* What is settled stays so as long as replies are only added to.
LEMMA SettledStays ==
    ASSUME NEW k \in Ks, NEW t, NEW u, replies[k] = t, replies'[k] = u,
           \A j \in 1..Len(t) : j \in 1..Len(u) /\ u[j] = t[j],
           \A m \in Ks : m # k => replies'[m] = replies[m]
    PROVE  \A m \in Ks : Settled(m) => Settled(m)'
  <1> SUFFICES ASSUME NEW m \in Ks, Settled(m) PROVE Settled(m)'
    OBVIOUS
  <1>1. CASE m = k
    BY <1>1 DEF Settled
  <1>2. CASE m # k
    BY <1>2 DEF Settled
  <1> QED BY <1>1, <1>2

\* Answers that were old stay old, and a new one has to be.
LEMMA AnswersStayOld ==
    ASSUME SInv, asked \subseteq asked', \A m \in Ks : Settled(m) => Settled(m)',
           \A k \in Ks : \A j \in 1..Len(replies[k]) : replies[k][j].of \in Ks,
           \A k \in Ks : \A j \in 1..Len(replies'[k]) :
                \/ j \in 1..Len(replies[k]) /\ replies'[k][j] = replies[k][j]
                \/ replies'[k][j].what = "answer" => Old(replies[k][j].of, k)'
    PROVE  AnswersOld'
  <1> SUFFICES ASSUME NEW k \in Ks, NEW j \in 1..Len(replies'[k]),
                      replies'[k][j].what = "answer"
               PROVE  Old(replies[k][j].of, k)'
    BY DEF AnswersOld
  <1>1. CASE j \in 1..Len(replies[k]) /\ replies'[k][j] = replies[k][j]
    <2>1. PICK o \in Ks : o = replies[k][j].of
      BY <1>1
    <2>2. Old(o, k)
      BY <1>1, <2>1 DEF SInv, AnswersOld
    <2>3. Old(o, k)'
      BY <2>2 DEF Old
    <2> QED BY <1>1, <2>1, <2>3 DEF Old
  <1>2. CASE ~(j \in 1..Len(replies[k]) /\ replies'[k][j] = replies[k][j])
    BY <1>2
  <1> QED BY <1>1, <1>2

\* Every reply is about a request.
LEMMA RepliesOf ==
    ASSUME IInv
    PROVE  \A k \in Ks : \A j \in 1..Len(replies[k]) : replies[k][j].of \in Ks
  BY HandledFacts DEF IInv, RepliesFit, Fits

\* Steps that send nothing.
LEMMA SilentStrays ==
    ASSUME IInv, SInv, UNCHANGED <<asked, owner, valid, replies>>
    PROVE  SInv'
  BY DEF SInv, AskedOld, AnswersOld, Old, Settled

\* A slot's owner is sent a reply, and the slot given up or not.
LEMMA OwnerReplied ==
    ASSUME IInv, SInv, NEW i \in Slots, valid[i], Running, NEW r \in Replys,
           r.what # "refused", r.what = "answer" => Old(r.of, owner[i]),
           replies' = [replies EXCEPT ![owner[i]] = Append(@, r)],
           \A j \in Slots : valid[j] => valid'[j] \/ j = i,
           UNCHANGED <<asked, owner>>
    PROVE  SInv'
  <1> DEFINE s == <<r>>
  <1>0. PICK k \in Ks : k = owner[i]
    BY OwnerFacts
  <1>1. replies \in [Ks -> Seq(Replys)]
    BY DEF IInv, TypeOK, Replys
  <1>2. s \in Seq(Replys) /\ Len(s) = 1 /\ s[1] = r /\ Append(replies[k], r) = replies[k] \o s
    BY <1>0, <1>1
  <1>3. replies' \in [Ks -> Seq(Replys)] /\ replies'[k] = Append(replies[k], r)
    <2>1. Append(replies[k], r) \in Seq(Replys)
      BY <1>1
    <2> QED BY <1>0, <1>1, <2>1
  <1> HIDE DEF s
  <1>4. replies'[k] = replies[k] \o s /\ \A m \in Ks : m # k => replies'[m] = replies[m]
    BY <1>0, <1>1, <1>2
  <1>5. /\ \A m \in Ks : Settled(m) => Settled(m)'
        /\ \A m \in Ks : \A j \in 1..Len(replies'[m]) :
                \/ j \in 1..Len(replies[m]) /\ replies'[m][j] = replies[m][j]
                \/ m = k /\ \E l \in 1..Len(s) : replies'[m][j] = s[l]
    <2>0. PICK t \in Seq(Replys) : t = replies[k]
      BY <1>1
    <2>1. PICK u \in Seq(Replys) : u = replies'[k] /\ u = t \o s
      <3>1. t \o s \in Seq(Replys)
        BY <1>2
      <3> QED BY <2>0, <3>1, <1>4
    <2>2. /\ \A j \in 1..Len(t) : j \in 1..Len(u) /\ u[j] = t[j]
          /\ \A j \in 1..Len(u) : \/ j \in 1..Len(t) /\ u[j] = t[j]
                                  \/ \E i1 \in 1..Len(s) : u[j] = s[i1]
      BY <1>2, <2>0, <2>1, ConcatElements
    <2>3. \A m \in Ks : Settled(m) => Settled(m)'
      BY <1>4, <2>0, <2>1, <2>2, SettledStays
    <2>4. ASSUME NEW m \in Ks, NEW j \in 1..Len(replies'[m])
          PROVE  \/ j \in 1..Len(replies[m]) /\ replies'[m][j] = replies[m][j]
                 \/ m = k /\ \E i1 \in 1..Len(s) : replies'[m][j] = s[i1]
      <3>1. CASE m = k
        <4>1. replies'[m] = u /\ replies[m] = t /\ j \in 1..Len(u)
          BY <2>0, <2>1, <2>4, <3>1
        <4> QED BY <2>2, <4>1, <3>1
      <3>2. CASE m # k
        BY <1>4, <2>4, <3>2
      <3> QED BY <3>1, <3>2
    <2> QED BY <2>3, <2>4
  <1>6. Settled(k)'
    <2>1. PICK t \in Seq(Replys) : t = replies[k]
      BY <1>1
    <2>2. Len(Append(t, r)) = Len(t) + 1 /\ Len(t) \in Nat /\ Append(t, r)[Len(t) + 1] = r
      BY <2>1
    <2>3. replies'[k] = Append(t, r)
      BY <1>3, <2>1
    <2> QED BY <2>2, <2>3 DEF Settled
  <1>7. \A o \in Ks : Old(o, k) => Old(o, k)'
    BY <1>5 DEF Old
  <1>8. AskedOld'
    <2> SUFFICES ASSUME NEW q \in asked
                 PROVE  /\ q.k <= owner[q.id]
                        /\ (valid'[q.id] /\ owner[q.id] = q.k) \/ Settled(q.k)'
      BY DEF AskedOld
    <2>1. q.id \in Slots /\ q.k \in Ks
      BY DEF IInv, TypeOK
    <2>2. q.k <= owner[q.id] /\ ((valid[q.id] /\ owner[q.id] = q.k) \/ Settled(q.k))
      BY DEF SInv, AskedOld
    <2> QED BY <1>0, <1>5, <1>6, <2>1, <2>2
  <1>9. AnswersOld'
    <2>1. \A m \in Ks : \A j \in 1..Len(replies'[m]) :
                \/ j \in 1..Len(replies[m]) /\ replies'[m][j] = replies[m][j]
                \/ replies'[m][j].what = "answer" => Old(replies[m][j].of, m)'
      <3> SUFFICES ASSUME NEW m \in Ks, NEW j \in 1..Len(replies'[m]), m = k,
                          replies'[m][j] = r, r.what = "answer"
                   PROVE  Old(replies[m][j].of, m)'
        BY <1>2, <1>5
      <3>1. PICK o \in Ks : o = r.of
        BY DEF Replys
      <3>2. Old(o, k)
        BY <1>0, <3>1
      <3>3. Old(o, k)'
        BY <1>7, <3>2
      <3> QED BY <3>1, <3>3 DEF Old
    <2> QED BY <1>5, <2>1, RepliesOf, AnswersStayOld
  <1> QED BY <1>8, <1>9 DEF SInv

\* The request received is sent something that is no answer from upstream, and
\* forwarded or not.
LEMMA RequestReplied ==
    ASSUME IInv, SInv, NEW k \in Ks, Requested(k), NEW s \in Seq(Replys),
           \A j \in 1..Len(s) : s[j].what # "answer",
           replies' = [replies EXCEPT ![k] = @ \o s],
           \/ UNCHANGED <<valid, owner, asked>>
           \/ IDAdapter_push(k) /\ asked' = asked \cup {[id |-> next, k |-> k]}
    PROVE  SInv'
  <1>1. /\ replies \in [Ks -> Seq(Replys)] /\ valid \in [Slots -> BOOLEAN]
        /\ owner \in [Slots -> Ks \cup {None}] /\ next \in Slots
        /\ asked \subseteq [id : Slots, k : Ks]
    BY DEF IInv, TypeOK, Replys
  <1>2. replies'[k] = replies[k] \o s /\ \A m \in Ks : m # k => replies'[m] = replies[m]
    BY <1>1
  <1>3. /\ \A m \in Ks : Settled(m) => Settled(m)'
        /\ \A m \in Ks : \A j \in 1..Len(replies'[m]) :
                \/ j \in 1..Len(replies[m]) /\ replies'[m][j] = replies[m][j]
                \/ m = k /\ \E i \in 1..Len(s) : replies'[m][j] = s[i]
    <2>0. PICK t \in Seq(Replys) : t = replies[k]
      BY <1>1
    <2>1. PICK u \in Seq(Replys) : u = replies'[k] /\ u = t \o s
      <3>1. t \o s \in Seq(Replys)
        BY <2>0
      <3> QED BY <2>0, <3>1, <1>2
    <2>2. /\ \A j \in 1..Len(t) : j \in 1..Len(u) /\ u[j] = t[j]
          /\ \A j \in 1..Len(u) : \/ j \in 1..Len(t) /\ u[j] = t[j]
                                  \/ \E i1 \in 1..Len(s) : u[j] = s[i1]
      BY <1>2, <2>0, <2>1, ConcatElements
    <2>3. \A m \in Ks : Settled(m) => Settled(m)'
      BY <1>2, <2>0, <2>1, <2>2, SettledStays
    <2>4. ASSUME NEW m \in Ks, NEW j \in 1..Len(replies'[m])
          PROVE  \/ j \in 1..Len(replies[m]) /\ replies'[m][j] = replies[m][j]
                 \/ m = k /\ \E i1 \in 1..Len(s) : replies'[m][j] = s[i1]
      <3>1. CASE m = k
        BY <2>0, <2>1, <2>2, <2>4, <3>1
      <3>2. CASE m # k
        BY <1>2, <2>4, <3>2
      <3> QED BY <3>1, <3>2
    <2> QED BY <2>3, <2>4
  <1>4. AnswersOld'
    <2>1. asked \subseteq asked'
      OBVIOUS
    <2>2. \A m \in Ks : \A j \in 1..Len(replies'[m]) :
                \/ j \in 1..Len(replies[m]) /\ replies'[m][j] = replies[m][j]
                \/ replies'[m][j].what = "answer" => Old(replies[m][j].of, m)'
      BY <1>3
    <2> QED BY <1>3, <2>1, <2>2, RepliesOf, AnswersStayOld
  <1>5. AskedOld'
    <2>1. CASE UNCHANGED <<valid, owner, asked>>
      BY <1>1, <1>3, <2>1 DEF SInv, AskedOld
    <2>2. CASE IDAdapter_push(k) /\ asked' = asked \cup {[id |-> next, k |-> k]}
      <3>1. /\ ~valid[next] /\ valid' = [valid EXCEPT ![next] = TRUE]
            /\ owner' = [owner EXCEPT ![next] = k]
        BY <2>2 DEF IDAdapter_push
      <3>2. k = Handled + 1 /\ Handled \in Nat
        BY HeadRequest, HandledFacts
      <3> SUFFICES ASSUME NEW q \in asked'
                   PROVE  /\ q.k <= owner'[q.id]
                          /\ (valid'[q.id] /\ owner'[q.id] = q.k) \/ Settled(q.k)'
        BY DEF AskedOld
      <3>3. CASE q = [id |-> next, k |-> k]
        BY <1>1, <3>1, <3>2, <3>3
      <3>4. CASE q \in asked
        <4>1. /\ q.id \in Slots /\ q.k \in Ks /\ q.k <= owner[q.id]
              /\ (valid[q.id] /\ owner[q.id] = q.k) \/ Settled(q.k)
          BY <1>1, <3>4 DEF SInv, AskedOld
        <4>2. q.k \in 1..Handled
          BY <3>4 DEF IInv, QueriesAllowed
        <4>3. CASE q.id = next
          BY <1>1, <1>3, <3>1, <3>2, <4>1, <4>2, <4>3
        <4>4. CASE q.id # next
          BY <1>1, <1>3, <3>1, <4>1, <4>4
        <4> QED BY <4>3, <4>4
      <3> QED BY <2>2, <3>3, <3>4
    <2> QED BY <2>1, <2>2
  <1> QED BY <1>4, <1>5 DEF SInv

\* The answer that is received is its slot's owner's own, or an older one.
LEMMA HeadIsOld ==
    ASSUME IInv, SInv, answers # <<>>, valid[Head(answers).id], Running
    PROVE  Old(Head(answers).k, owner[Head(answers).id])
  <1> DEFINE p == Head(answers)
             q == [id |-> p.id, k |-> p.k]
  <1>1. p.id \in Slots /\ p.k \in Ks
    BY HeadAnswer
  <1>2. q \in asked
    <2>1. answers \in Seq(Packets)
      BY DEF IInv, TypeOK
    <2>2. p = answers[1] /\ 1 \in 1..Len(answers)
      BY <2>1
    <2> QED BY <2>2 DEF IInv, AnswersAsked
  <1>3. q.k <= owner[q.id] /\ ((valid[q.id] /\ owner[q.id] = q.k) \/ Settled(q.k))
    BY <1>2 DEF SInv, AskedOld
  <1>4. [id |-> p.id, k |-> owner[p.id]] \in asked /\ owner[p.id] \in Ks
    BY <1>1, OwnerFacts DEF IInv, SlotsAsked
  <1>5. q.k = p.k /\ q.id = p.id
    OBVIOUS
  <1> HIDE DEF p
  <1>6. p.k \in Int /\ owner[p.id] \in Int
    BY <1>1, <1>4, Constants DEF Ks
  <1>7. CASE p.k = owner[p.id]
    BY <1>7 DEF Old, p
  <1>8. CASE p.k # owner[p.id]
    <2>1. p.k < owner[p.id] /\ Settled(p.k)
      BY <1>3, <1>5, <1>6, <1>8
    <2>2. {[id |-> p.id, k |-> p.k], [id |-> p.id, k |-> owner[p.id]]} \subseteq asked
      BY <1>2, <1>4
    <2>3. Old(p.k, owner[p.id])
      BY <1>1, <2>1, <2>2 DEF Old
    <2> QED BY <2>3 DEF p
  <1> QED BY <1>7, <1>8

LEMMA NextSInv == IInv /\ SInv /\ [Next]_vars => SInv'
  <1> SUFFICES ASSUME IInv, SInv, [Next]_vars PROVE SInv'
    OBVIOUS
  <1>1. ASSUME Environment \/ Stopped \/ UNCHANGED vars PROVE SInv'
    <2>1. UNCHANGED <<asked, owner, valid, replies>>
      BY <1>1 DEF Environment, Arrive, UpstreamAnswer, ClockStep, Expire, Stopped, vars,
                  adapter, network
    <2> QED BY <2>1, SilentStrays
  <1>2. ASSUME SelectReady \/ SelectTimeout \/ ScanPasses \/ RelayRecvFails \/ RequestRecvFails
               \/ RelayUnknown \/ RelayEnds \/ RelayHangs
        PROVE  SInv'
    <2>1. UNCHANGED <<asked, owner, valid, replies>>
      BY <1>2 DEF SelectReady, SelectTimeout, ScanPasses, RelayRecvFails, RequestRecvFails,
                  RelayUnknown, RelayEnds, RelayHangs, adapter, network
    <2> QED BY <2>1, SilentStrays
  <1>3. ASSUME ScanTimesOut PROVE SInv'
    <2> DEFINE r == Reply("timeout", owner[at])
    <2>1. /\ at \in Slots /\ valid[at] /\ Running /\ valid' = [valid EXCEPT ![at] = FALSE]
          /\ replies' = [replies EXCEPT ![owner[at]] = Append(@, r)]
          /\ UNCHANGED <<asked, owner>> /\ valid \in [Slots -> BOOLEAN]
      BY <1>3 DEF ScanTimesOut, TimedOut, Running, IInv, TypeOK, network
    <2>2. r \in Replys /\ r.what = "timeout"
      BY <2>1, OwnerFacts DEF Reply, Replys, Whats
    <2>3. \A j \in Slots : valid[j] => valid'[j] \/ j = at
      BY <2>1
    <2> HIDE DEF r
    <2> QED BY <2>1, <2>2, <2>3, OwnerReplied
  <1>4. ASSUME RelayAnswer PROVE SInv'
    <2> DEFINE p == Head(answers)
               r == Reply("answer", p.k)
    <2>1. /\ answers # <<>> /\ valid[p.id] /\ Running
          /\ replies' = [replies EXCEPT ![owner[p.id]] = Append(@, r)]
          /\ valid' = valid \/ valid' = [valid EXCEPT ![p.id] = FALSE]
          /\ UNCHANGED <<asked, owner>> /\ valid \in [Slots -> BOOLEAN]
      BY <1>4 DEF RelayAnswer, IDAdapter_get, IDAdapter_pop, Running, IInv, TypeOK, adapter, network
    <2>2. p.id \in Slots /\ p.k \in Ks
      BY <2>1, HeadAnswer
    <2>3. r \in Replys /\ r.what = "answer" /\ r.of = p.k
      BY <2>2 DEF Reply, Replys, Whats
    <2>4. Old(p.k, owner[p.id])
      BY <2>1, HeadIsOld
    <2>5. \A j \in Slots : valid[j] => valid'[j] \/ j = p.id
      BY <2>1, <2>2
    <2> HIDE DEF p, r
    <2> QED BY <2>1, <2>2, <2>3, <2>4, <2>5, OwnerReplied
  <1>5. ASSUME HandleRequest PROVE SInv'
    <2>1. PICK k \in Ks : \/ RequestBlocked(k) \/ RequestLocal(k) \/ RequestCached(k)
                          \/ RequestMissed(k) \/ RequestEnds(k)
      BY <1>5 DEF HandleRequest
    <2>2. Requested(k) /\ replies[k] = <<>> /\ reqs[k] \in Forms
      <3>1. Requested(k)
        BY <2>1 DEF RequestBlocked, RequestLocal, RequestCached, RequestMissed, RequestEnds, Searches
      <3> QED BY <3>1, HeadRequest
    <2>3. PICK f \in Seq(Replys) : f = Refusal(k) /\ \A j \in 1..Len(f) : f[j].what # "answer"
      <3>1. Reply("refused", k) \in Replys /\ Reply("refused", k).what = "refused"
        BY DEF Reply, Replys, Whats
      <3>2. CASE reqs[k].query
        <4>1. Refusal(k) = <<>> /\ <<>> \in Seq(Replys)
          BY <3>2 DEF Refusal
        <4>2. \A j \in 1..Len(<<>>) : <<>>[j].what # "answer"
          OBVIOUS
        <4> QED BY <4>1, <4>2, Zenon
      <3>3. CASE ~reqs[k].query
        <4>1. PICK r \in Replys : r = Reply("refused", k) /\ r.what = "refused"
          BY <3>1
        <4>2. Refusal(k) = <<r>>
          BY <3>3, <4>1 DEF Refusal
        <4>3. <<r>> \in Seq(Replys) /\ \A j \in 1..Len(<<r>>) : <<r>>[j].what # "answer"
          BY <4>1
        <4> QED BY <4>2, <4>3
      <3> QED BY <3>2, <3>3
    <2>4. ASSUME NEW r \in Replys, r.what # "answer", Answered(k, r) PROVE SInv'
      <3>1. /\ replies' = [replies EXCEPT ![k] = @ \o f \o <<r>>]
            /\ UNCHANGED <<valid, owner, asked>>
        BY <2>3, <2>4 DEF Answered, adapter, network
      <3>2. PICK s \in Seq(Replys) : s = Append(f, r)
        <4>1. Append(f, r) \in Seq(Replys)
          OBVIOUS
        <4> QED BY <4>1
      <3>3. \A j \in 1..Len(s) : s[j].what # "answer"
        <4>1. /\ Len(s) = Len(f) + 1 /\ Len(f) \in Nat /\ s[Len(f) + 1] = r
              /\ \A j \in 1..Len(f) : s[j] = f[j]
          BY <3>2
        <4>2. \A j \in 1..Len(s) : j \in 1..Len(f) \/ j = Len(f) + 1
          BY <4>1
        <4> QED BY <2>3, <2>4, <4>1, <4>2
      <3>4. replies[k] \o f \o <<r>> = replies[k] \o s
        BY <2>2, <3>2
      <3>5. replies' = [replies EXCEPT ![k] = @ \o s]
        BY <3>1, <3>4
      <3> QED BY <2>2, <3>1, <3>3, <3>5, RequestReplied
    <2>5. CASE RequestBlocked(k) \/ RequestLocal(k)
      <3>1. \E w \in {"name_error", "local"} : Answered(k, Reply(w, k))
        BY <2>5 DEF RequestBlocked, RequestLocal
      <3>2. PICK w \in {"name_error", "local"} : Answered(k, Reply(w, k))
        BY <3>1
      <3>3. Reply(w, k) \in Replys /\ Reply(w, k).what # "answer"
        BY DEF Reply, Replys, Whats
      <3> QED BY <2>4, <3>2, <3>3
    <2>6. CASE RequestCached(k)
      <3> DEFINE c == cache[reqs[k].qtype][reqs[k].name]
      <3>1. /\ Answered(k, Reply("cached", c)) /\ c # None
            /\ reqs[k].qtype \in CacheTypes
        BY <2>6 DEF RequestCached, LookedUp
      <3>2. c \in Ks
        BY <2>2, <3>1, HandledFacts, RelayAssumption DEF RelayAssumption, IInv, CachesFit
      <3> HIDE DEF c
      <3>3. Reply("cached", c) \in Replys /\ Reply("cached", c).what # "answer"
        BY <3>2 DEF Reply, Replys, Whats
      <3> QED BY <2>4, <3>1, <3>3
    <2>7. CASE RequestMissed(k) \/ RequestEnds(k)
      <3>1. /\ replies' = [replies EXCEPT ![k] = @ \o f]
            /\ \/ UNCHANGED <<valid, owner, asked>>
               \/ IDAdapter_push(k) /\ asked' = asked \cup {[id |-> next, k |-> k]}
        BY <2>3, <2>7 DEF RequestMissed, RequestEnds, Forward, NewId, adapter, network
      <3> QED BY <2>2, <2>3, <3>1, RequestReplied
    <2> QED BY <2>1, <2>5, <2>6, <2>7
  <1> QED BY <1>1, <1>2, <1>3, <1>4, <1>5 DEF Next, Loop, HandleRelay

-----------------------------------------------------------------------------
(***************************************************************************)
(* What follows.                                                           *)
(***************************************************************************)
\* One of four.
LEMMA OnlyOne ==
    ASSUME NEW x, NEW y, NEW z, NEW w, x[2], ~y[2], ~z[2], ~w[2]
    PROVE  /\ Cardinality({p \in {x, y, z, w} : p[2]}) = 1
           /\ Cardinality({p \in {y, x, z, w} : p[2]}) = 1
           /\ Cardinality({p \in {y, z, x, w} : p[2]}) = 1
           /\ Cardinality({p \in {y, z, w, x} : p[2]}) = 1
  <1>1. /\ {p \in {x, y, z, w} : p[2]} = {x} /\ {p \in {y, x, z, w} : p[2]} = {x}
        /\ {p \in {y, z, x, w} : p[2]} = {x} /\ {p \in {y, z, w, x} : p[2]} = {x}
    OBVIOUS
  <1> QED BY <1>1, FS_Singleton

\* Counting the places of a request.
LEMMA PlacesCount ==
    ASSUME NEW a \in BOOLEAN, NEW b \in BOOLEAN, NEW c \in BOOLEAN, NEW d \in BOOLEAN
    PROVE  LET places == {p \in {<<"queued", a>>, <<"waiting", b>>, <<"settled", c>>,
                                 <<"dropped", d>>} : p[2]}
           IN  /\ ~a /\ ~b /\ ~c /\ ~d => Cardinality(places) = 0
               /\ a /\ ~b /\ ~c /\ ~d => Cardinality(places) = 1
               /\ ~a /\ b /\ ~c /\ ~d => Cardinality(places) = 1
               /\ ~a /\ ~b /\ c /\ ~d => Cardinality(places) = 1
               /\ ~a /\ ~b /\ ~c /\ d => Cardinality(places) = 1
  <1> DEFINE Q == <<"queued", a>>
             W == <<"waiting", b>>
             S == <<"settled", c>>
             D == <<"dropped", d>>
  <1>1. (Q[2] <=> a) /\ (W[2] <=> b) /\ (S[2] <=> c) /\ (D[2] <=> d)
    OBVIOUS
  <1> HIDE DEF Q, W, S, D
  <1> DEFINE places == {p \in {Q, W, S, D} : p[2]}
  <1>2. ~a /\ ~b /\ ~c /\ ~d => Cardinality(places) = 0
    <2> SUFFICES ASSUME ~a, ~b, ~c, ~d PROVE Cardinality(places) = 0
      OBVIOUS
    <2>1. places = {}
      BY <1>1
    <2> QED BY <2>1, FS_EmptySet
  <1>3. a /\ ~b /\ ~c /\ ~d => Cardinality(places) = 1
    BY <1>1, OnlyOne
  <1>4. ~a /\ b /\ ~c /\ ~d => Cardinality(places) = 1
    BY <1>1, OnlyOne
  <1>5. ~a /\ ~b /\ c /\ ~d => Cardinality(places) = 1
    BY <1>1, OnlyOne
  <1>6. ~a /\ ~b /\ ~c /\ d => Cardinality(places) = 1
    BY <1>1, OnlyOne
  <1> QED BY <1>2, <1>3, <1>4, <1>5, <1>6 DEF Q, W, S, D

\* The variables keep their types: a slot number is one of the ring, and no
\* queue holds anything but requests and answers.
THEOREM TypesHold == Spec => []TypeOK
  <1>1. IInv => TypeOK
    BY DEF IInv
  <1> QED BY Invariance, <1>1, PTL

\* No request that handle_request received is lost, and none is in two places,
\* while the loop runs: whatever ring, requests, lost or repeated answers.
THEOREM RequestsAccounted == Spec => []Accounted
  <1>1. IInv => Accounted
    <2> SUFFICES ASSUME IInv, Running, NEW k \in Ks
                 PROVE  LET places == {p \in {<<"queued", Queued(k)>>, <<"waiting", Waiting(k)>>,
                                              <<"settled", Settled(k)>>,
                                              <<"dropped", k \in dropped>>} : p[2]}
                        IN  Cardinality(places) = IF k <= Len(reqs) THEN 1 ELSE 0
      BY DEF Accounted, Running
    <2>1. k \in Nat /\ k > 0
      BY Constants DEF Ks
    <2>2. Queued(k) \in BOOLEAN /\ Waiting(k) \in BOOLEAN /\ Settled(k) \in BOOLEAN
          /\ (k \in dropped) \in BOOLEAN
      BY DEF Queued, Waiting, Settled
    <2>3. Queued(k) <=> k > Handled /\ k <= Len(reqs)
      <3>1. /\ Handled = Len(reqs) - Len(inbox) /\ Len(inbox) <= Len(reqs)
            /\ \A j \in 1..Len(inbox) : inbox[j] = Handled + j
            /\ Len(inbox) \in Nat /\ Len(reqs) \in Nat
        BY HandledFacts DEF Handled, IInv, TypeOK, InboxInOrder
      <3>2. Queued(k) => k > Handled /\ k <= Len(reqs)
        BY <2>1, <3>1 DEF Queued
      <3>3. ASSUME k > Handled, k <= Len(reqs) PROVE Queued(k)
        <4>1. k - Handled \in 1..Len(inbox) /\ inbox[k - Handled] = k
          BY <2>1, <3>1, <3>3
        <4> QED BY <4>1 DEF Queued
      <3> QED BY <3>2, <3>3
    <2>4. CASE k > Handled
      <3>1. k \notin 1..Handled /\ replies[k] = <<>> /\ k \notin dropped
        BY <2>1, <2>4, HandledFacts DEF IInv, Untouched
      <3>2. ~Waiting(k)
        BY <3>1 DEF IInv, SlotsAsked, Waiting
      <3>3. ~Settled(k)
        BY <3>1 DEF Settled
      <3> QED BY <2>2, <2>3, <2>4, <3>1, <3>2, <3>3, PlacesCount
    <2>5. CASE k <= Handled
      <3>1. k \in 1..Handled /\ ~Queued(k) /\ k <= Len(reqs)
        BY <2>1, <2>3, <2>5, HandledFacts
      <3> QED BY <2>2, <3>1, PlacesCount DEF IInv, Placed
    <2> QED BY <2>1, <2>4, <2>5, HandledFacts
  <1> QED BY Invariance, <1>1, PTL

\* A client gets at most one reply to a query, although answers may be repeated
\* or come after the timeout.
THEOREM RepliedOnce == Spec => []OneReply
  <1>1. IInv => OneReply
    <2> SUFFICES ASSUME IInv, NEW k \in 1..Len(reqs), reqs[k].query
                 PROVE  Len(replies[k]) <= 1
      BY DEF OneReply
    <2>1. k \in Ks
      BY HandledFacts
    <2>2. Shaped(replies[k], reqs[k].query) /\ replies[k] \in Seq(Replys)
      BY <2>1 DEF IInv, RepliesShaped, TypeOK, Replys
    <2>3. \A j \in 1..Len(replies[k]) : j = Len(replies[k])
      BY <2>2 DEF Shaped
    <2>4. Len(replies[k]) \in Nat
      BY <2>2
    <2> QED BY <2>3, <2>4
  <1> QED BY Invariance, <1>1, PTL

\* The ring keeps requests in the order of their arrival and age, so that the
\* slot a push finds in use is the oldest request's.
THEOREM RingInOrder == Spec => []InRingOrder
  <1>1. IInv => InRingOrder
    BY DEF IInv
  <1> QED BY Invariance, <1>1, PTL

\* No blacklisted name is forwarded, cached or answered with an address.
THEOREM BlacklistIsKept == Spec => []BlacklistHolds
  <1>1. IInv => BlacklistHolds
    <2> SUFFICES ASSUME IInv PROVE BlacklistHolds
      OBVIOUS
    <2>1. \A q \in asked : reqs[q.k].name \notin Blacklist
      BY DEF IInv, QueriesAllowed
    <2>2. \A ty \in CacheTypes, n \in Blacklist : cache[ty][n] = None
      BY RelayAssumption DEF RelayAssumption, IInv, CachesFit
    <2>3. \A k \in 1..Len(reqs) : reqs[k].name \in Blacklist =>
              \A j \in 1..Len(replies[k]) : replies[k][j].what \in {"refused", "name_error"}
      BY HandledFacts DEF IInv, RepliesFit, Fits
    <2> QED BY <2>1, <2>2, <2>3 DEF BlacklistHolds
  <1> QED BY Invariance, <1>1, PTL

\* However late, often or early upstream answers, and whatever the ring: an
\* answer that is not a client's own is to an older request that was settled
\* and had the same slot, and no cache answers for another name.
THEOREM StraysAreOld == Spec => []StrayAnswersAreOld
  <1>1. Init => SInv
    BY DEF Init, SInv, AskedOld, AnswersOld
  <1>2. IInv /\ SInv => StrayAnswersAreOld
    BY DEF IInv, RepliesFit, Fits, SInv, AnswersOld, Old, StrayAnswersAreOld
  <1>3. IInv /\ SInv /\ [Next]_vars => SInv'
    BY NextSInv
  <1> QED BY Invariance, <1>1, <1>2, <1>3, PTL DEF Spec

\* If every answer comes once and while it is awaited, and no type asked for is
\* wider than a byte, every client gets the answer to its own question.
THEOREM AnswersRight == Upstream = "awaited" /\ OneByteTypes => (Spec => []RightAnswer)
  <1>1. Benign /\ IInv => RightAnswer
    BY DEF IInv, RepliesFit, Fits, RightAnswer
  <1>2. CASE Benign
    <2>1. IInv => RightAnswer
      BY <1>1, <1>2
    <2> QED BY Invariance, <2>1, PTL
  <1> QED BY <1>2 DEF Benign

\* And each cache then holds records of its own type, each under its name.
THEOREM CachesRight == Upstream = "awaited" /\ OneByteTypes => (Spec => []RightCache)
  <1>1. Benign /\ IInv => RightCache
    BY DEF IInv, CachesFit, RightCache
  <1>2. CASE Benign
    <2>1. IInv => RightCache
      BY <1>1, <1>2
    <2> QED BY Invariance, <2>1, PTL
  <1> QED BY <1>2 DEF Benign
=============================================================================
