--------------------------- MODULE LruCacheProofs ---------------------------
(***************************************************************************)
(* Proofs about the list, the stack of free positions and the hash chains  *)
(* of LruCache, for caches of any size.                                    *)
(***************************************************************************)
EXTENDS LruCache, SequenceTheorems, TLAPS

-----------------------------------------------------------------------------
(***************************************************************************)
(* The sequence operators the list is described with.                      *)
(***************************************************************************)

\* What the proofs use of the constants.
LEMMA MaxLengthType == MaxLength \in Nat /\ MaxLength > 0
  BY CacheAssumption DEF CacheAssumption

\* Dropping the last element.
LEMMA FrontFacts ==
    ASSUME NEW S, NEW s \in Seq(S), Len(s) > 0
    PROVE  /\ Front(s) \in Seq(S)
           /\ Len(Front(s)) = Len(s) - 1
           /\ \A i \in 1..(Len(s) - 1) : Front(s)[i] = s[i]
  <1> DEFINE n == Len(s) - 1
             a == SubSeq(s, 1, n)
  <1>1. n \in Nat /\ \A i \in 1..n : s[i] \in S
    OBVIOUS
  <1>2. Front(s) = a
    BY DEF Front
  <1>3. a \in Seq(S) /\ Len(a) = n /\ \A i \in 1..n : a[i] = s[i]
    <2> HIDE DEF n
    <2> QED BY <1>1, SubSeqProperties
  <1> QED BY <1>1, <1>2, <1>3

\* Putting an element in front.
LEMMA ConsFacts ==
    ASSUME NEW S, NEW s \in Seq(S), NEW e \in S
    PROVE  /\ <<e>> \o s \in Seq(S)
           /\ Len(<<e>> \o s) = Len(s) + 1
           /\ (<<e>> \o s)[1] = e
           /\ \A i \in 2..(Len(s) + 1) : (<<e>> \o s)[i] = s[i - 1]
  OBVIOUS

\* Removing the k-th element.
LEMMA RemoveAtFacts ==
    ASSUME NEW S, NEW s \in Seq(S), NEW k \in 1..Len(s)
    PROVE  /\ RemoveAt(s, k) \in Seq(S)
           /\ Len(RemoveAt(s, k)) = Len(s) - 1
           /\ \A i \in 1..(Len(s) - 1) :
                RemoveAt(s, k)[i] = IF i < k THEN s[i] ELSE s[i + 1]
  <1> DEFINE a == SubSeq(s, 1, k - 1)
             b == SubSeq(s, k + 1, Len(s))
  <1>1. a \in Seq(S) /\ Len(a) = k - 1 /\ \A i \in 1..(k - 1) : a[i] = s[i]
    OBVIOUS
  <1>2. b \in Seq(S) /\ Len(b) = Len(s) - k /\ \A i \in 1..(Len(s) - k) : b[i] = s[k + i]
    OBVIOUS
  <1>3. RemoveAt(s, k) = a \o b
    BY DEF RemoveAt
  <1> HIDE DEF a, b
  <1>4. a \o b \in Seq(S) /\ Len(a \o b) = Len(s) - 1
    <2>1. a \o b \in Seq(S) /\ Len(a \o b) = Len(a) + Len(b)
      BY <1>1, <1>2, ConcatProperties
    <2>2. Len(s) \in Nat
      OBVIOUS
    <2> QED BY <1>1, <1>2, <2>1, <2>2
  <1>5. \A i \in 1..(Len(s) - 1) : (a \o b)[i] = IF i < k THEN s[i] ELSE s[i + 1]
    BY <1>1, <1>2
  <1> QED BY <1>3, <1>4, <1>5

\* Removing an element that occurs, by value.
LEMMA WithoutFacts ==
    ASSUME NEW S, NEW s \in Seq(S), NEW e, \E k \in 1..Len(s) : s[k] = e
    PROVE  \E k \in 1..Len(s) :
             /\ s[k] = e
             /\ Without(s, e) \in Seq(S)
             /\ Len(Without(s, e)) = Len(s) - 1
             /\ \A i \in 1..(Len(s) - 1) :
                  Without(s, e)[i] = IF i < k THEN s[i] ELSE s[i + 1]
  <1> DEFINE k == CHOOSE j \in 1..Len(s) : s[j] = e
  <1>1. k \in 1..Len(s) /\ s[k] = e
    OBVIOUS
  <1>2. Without(s, e) = RemoveAt(s, k)
    BY DEF Without
  <1> HIDE DEF k
  <1> QED BY <1>1, <1>2, RemoveAtFacts

-----------------------------------------------------------------------------
(***************************************************************************)
(* List surgery.  Each lemma says that the list read through the links     *)
(* stays the sequence lru, and which records leave or enter it.            *)
(***************************************************************************)
\* A valid record other than the head record is at one position of the list.
LEMMA ValidIsListed ==
    ASSUME ListTypeOK, ListMatches, NEW r \in Slots, valid[r]
    PROVE  \E p \in 1..length : lru[p] = r
  BY MaxLengthType DEF ListTypeOK, ListMatches, Slots, Records

\* Taking a valid record out of the list by value.
LEMMA ListWithout ==
    ASSUME ListTypeOK, ListMatches, NEW r \in Slots, valid[r]
    PROVE  \E p \in 1..Len(lru) :
             /\ lru[p] = r
             /\ Without(lru, r) \in Seq(Slots)
             /\ Len(Without(lru, r)) = Len(lru) - 1
             /\ \A i \in 1..(Len(lru) - 1) :
                  Without(lru, r)[i] = IF i < p THEN lru[i] ELSE lru[i + 1]
  <1>1. \E k \in 1..Len(lru) : lru[k] = r
    BY ValidIsListed DEF ListMatches
  <1>2. lru \in Seq(Slots)
    BY DEF ListTypeOK
  <1> QED BY <1>1, <1>2, WithoutFacts

\* The links (rn2, rl2) are those of s with r in front.
PushesLinks(rn, rl, s, r, rn2, rl2) ==
    /\ \A i \in 1..Len(s) : s[i] # r
    /\ \A x \in Records : rn2[x] = IF x = 0 THEN r
                                  ELSE IF x = r THEN (IF Len(s) > 0 THEN s[1] ELSE -1)
                                  ELSE rn[x]
    /\ \A x \in Records : rl2[x] = IF x = r THEN 0
                                  ELSE IF Len(s) > 0 /\ x = s[1] THEN r
                                  ELSE rl[x]

\* The links (rn2, rl2) are those of s past its p-th record, which s2 lacks.
CutsLinks(rn, rl, s, p, rn2, rl2, s2) ==
    /\ p \in 1..Len(s)
    /\ Len(s2) = Len(s) - 1
    /\ \A i \in 1..(Len(s) - 1) : s2[i] = IF i < p THEN s[i] ELSE s[i + 1]
    /\ \A x \in Records : rn2[x] = IF x = rl[s[p]] THEN rn[s[p]] ELSE rn[x]
    /\ \A x \in Records : rl2[x] = IF p < Len(s) /\ x = rn[s[p]] THEN rl[s[p]] ELSE rl[x]

\* Linking in a record in front of all others.
LEMMA LinksAfterPush ==
    ASSUME NEW s \in Seq(Slots), NEW rn, NEW rl, NEW rn2, NEW rl2, NEW r \in Slots,
           LinksMatch(rn, rl, s), PushesLinks(rn, rl, s, r, rn2, rl2)
    PROVE  LinksMatch(rn2, rl2, <<r>> \o s)
  <1> USE DEF PushesLinks
  <1> DEFINE s2 == <<r>> \o s
             n  == Len(s)
  <1>1. /\ s2 \in Seq(Slots) /\ Len(s2) = n + 1 /\ n \in Nat
        /\ s2[1] = r /\ \A i \in 2..(n + 1) : s2[i] = s[i - 1]
    BY ConsFacts
  <1>2. \A i \in 1..n : s[i] \in Slots
    OBVIOUS
  <1>3. 0 \in Records /\ Slots \subseteq Records /\ 0 \notin Slots
    BY MaxLengthType DEF Records, Slots
  <1> HIDE DEF s2
  <1>4. \A i, j \in 1..(n + 1) : s2[i] = s2[j] => i = j
    <2> SUFFICES ASSUME NEW i \in 1..(n + 1), NEW j \in 1..(n + 1), s2[i] = s2[j]
                 PROVE  i = j
      OBVIOUS
    <2>1. i > 1 => i - 1 \in 1..n /\ s2[i] = s[i - 1] /\ s2[i] # r
      BY <1>1
    <2>2. j > 1 => j - 1 \in 1..n /\ s2[j] = s[j - 1] /\ s2[j] # r
      BY <1>1
    <2>3. CASE i = 1 \/ j = 1
      BY <1>1, <2>1, <2>2, <2>3
    <2>4. CASE i > 1 /\ j > 1
      <3>1. s[i - 1] = s[j - 1] /\ i - 1 \in 1..n /\ j - 1 \in 1..n
        BY <2>1, <2>2, <2>4
      <3>2. i - 1 = j - 1
        BY <3>1 DEF LinksMatch, LRU_BUFFER_HEAD_POINT
      <3> QED BY <3>2, <1>1
    <2> QED BY <2>3, <2>4, <1>1
  <1>5. rn2[0] = s2[1]
    BY <1>1, <1>3
  <1>6. \A i \in 1..(n + 1) :
          /\ rn2[s2[i]] = IF i < n + 1 THEN s2[i + 1] ELSE -1
          /\ rl2[s2[i]] = IF i > 1 THEN s2[i - 1] ELSE 0
    <2> SUFFICES ASSUME NEW i \in 1..(n + 1)
                 PROVE  /\ rn2[s2[i]] = IF i < n + 1 THEN s2[i + 1] ELSE -1
                        /\ rl2[s2[i]] = IF i > 1 THEN s2[i - 1] ELSE 0
      OBVIOUS
    <2>1. CASE i = 1
      BY <2>1, <1>1, <1>3
    <2>2. CASE i > 1
      <3> DEFINE j == i - 1
      <3>1. j \in 1..n /\ s2[i] = s[j] /\ s[j] \in Slots
        BY <2>2, <1>1, <1>2
      <3>2. s[j] # r /\ s[j] # 0 /\ s[j] \in Records
        BY <3>1, <1>3
      <3>3. /\ rn[s[j]] = IF j < n THEN s[j + 1] ELSE -1
            /\ rl[s[j]] = IF j > 1 THEN s[j - 1] ELSE 0
            /\ s[j] = s[1] <=> j = 1
        BY <3>1, <1>1 DEF LinksMatch, LRU_BUFFER_HEAD_POINT
      <3>4. rn2[s2[i]] = rn[s[j]]
        BY <3>1, <3>2
      <3>5. rl2[s2[i]] = IF j = 1 THEN r ELSE rl[s[j]]
        BY <3>1, <3>2, <3>3, <1>1
      <3>6. i < n + 1 => s2[i + 1] = s[j + 1]
        BY <2>2, <1>1
      <3>7. s2[i - 1] = IF j = 1 THEN r ELSE s[j - 1]
        BY <2>2, <1>1
      <3> QED BY <2>2, <3>1, <3>3, <3>4, <3>5, <3>6, <3>7, <1>1
    <2> QED BY <2>1, <2>2, <1>1
  <1>7. LinksMatch(rn2, rl2, s2)
    BY <1>1, <1>4, <1>5, <1>6 DEF LinksMatch, LRU_BUFFER_HEAD_POINT
  <1> QED BY <1>7 DEF s2

\* Linking past the p-th record.
LEMMA LinksAfterUnlink ==
    ASSUME NEW s \in Seq(Slots), NEW rn, NEW rl, NEW rn2, NEW rl2,
           NEW p, NEW s2 \in Seq(Slots),
           LinksMatch(rn, rl, s), CutsLinks(rn, rl, s, p, rn2, rl2, s2)
    PROVE  LinksMatch(rn2, rl2, s2)
  <1> USE DEF CutsLinks
  <1> DEFINE n == Len(s)
  <1>1. n \in Nat /\ \A i \in 1..n : s[i] \in Slots
    OBVIOUS
  <1>2. 0 \in Records /\ Slots \subseteq Records /\ 0 \notin Slots
    BY MaxLengthType DEF Records, Slots
  <1>3. /\ rn[s[p]] = IF p < n THEN s[p + 1] ELSE -1
        /\ rl[s[p]] = IF p > 1 THEN s[p - 1] ELSE 0
    BY DEF LinksMatch, LRU_BUFFER_HEAD_POINT
  <1>4. \A i, j \in 1..(n - 1) : s2[i] = s2[j] => i = j
    BY <1>1 DEF LinksMatch, LRU_BUFFER_HEAD_POINT
  <1>5. rn2[0] = IF n - 1 > 0 THEN s2[1] ELSE -1
    <2>1. CASE p = 1
      BY <2>1, <1>1, <1>2, <1>3 DEF LinksMatch, LRU_BUFFER_HEAD_POINT
    <2>2. CASE p > 1
      <3>1. rl[s[p]] \in Slots
        BY <2>2, <1>1, <1>3
      <3>2. rn2[0] = rn[0]
        BY <3>1, <1>2
      <3> QED BY <2>2, <3>2, <1>1 DEF LinksMatch, LRU_BUFFER_HEAD_POINT
    <2> QED BY <2>1, <2>2
  <1>6. \A i \in 1..(n - 1) :
          /\ rn2[s2[i]] = IF i < n - 1 THEN s2[i + 1] ELSE -1
          /\ rl2[s2[i]] = IF i > 1 THEN s2[i - 1] ELSE 0
    <2> SUFFICES ASSUME NEW i \in 1..(n - 1)
                 PROVE  /\ rn2[s2[i]] = IF i < n - 1 THEN s2[i + 1] ELSE -1
                        /\ rl2[s2[i]] = IF i > 1 THEN s2[i - 1] ELSE 0
      OBVIOUS
    <2> DEFINE j == IF i < p THEN i ELSE i + 1
    <2>1. j \in 1..n /\ j # p /\ s2[i] = s[j] /\ s[j] \in Slots /\ s[j] \in Records /\ s[j] # 0
      BY <1>1, <1>2
    <2>2. /\ rn[s[j]] = IF j < n THEN s[j + 1] ELSE -1
          /\ rl[s[j]] = IF j > 1 THEN s[j - 1] ELSE 0
      BY <2>1 DEF LinksMatch, LRU_BUFFER_HEAD_POINT
    <2>3. s[j] = rl[s[p]] <=> j = p - 1
      BY <1>1, <1>3, <2>1 DEF LinksMatch, LRU_BUFFER_HEAD_POINT
    <2>4. p < n => (s[j] = rn[s[p]] <=> j = p + 1)
      BY <1>1, <1>3, <2>1 DEF LinksMatch, LRU_BUFFER_HEAD_POINT
    <2>5. rn2[s[j]] = IF j = p - 1 THEN rn[s[p]] ELSE rn[s[j]]
      BY <2>1, <2>3
    <2>6. rl2[s[j]] = IF p < n /\ j = p + 1 THEN rl[s[p]] ELSE rl[s[j]]
      BY <2>1, <2>4
    <2>7. rn2[s2[i]] = IF i < n - 1 THEN s2[i + 1] ELSE -1
      BY <1>1, <1>3, <2>1, <2>2, <2>5
    <2>8. rl2[s2[i]] = IF i > 1 THEN s2[i - 1] ELSE 0
      BY <1>1, <1>3, <2>1, <2>2, <2>6
    <2> QED BY <2>7, <2>8
  <1> QED BY <1>1, <1>4, <1>5, <1>6 DEF LinksMatch, LRU_BUFFER_HEAD_POINT

\* A step that links past the p-th record and marks it invalid.
LEMMA UnlinkKeepsList ==
    ASSUME ListTypeOK, ListTypeOK', ListMatches, NEW p \in 1..length,
           length' = length - 1,
           CutsLinks(rnext, rlast, lru, p, rnext', rlast', lru'),
           length > 1 => /\ first' = IF p = 1 THEN lru[2] ELSE first
                         /\ last' = IF p = length THEN lru[length - 1] ELSE last,
           valid' = [valid EXCEPT ![lru[p]] = FALSE]
    PROVE  /\ ListMatches'
           /\ \A i \in 1..Len(lru') : lru'[i] # lru[p]
           /\ \A i \in 1..Len(lru') : \E j \in 1..Len(lru) : lru'[i] = lru[j]
  <1>1. length \in Nat /\ Len(lru) = length /\ lru \in Seq(Slots) /\ lru' \in Seq(Slots)
    BY DEF ListTypeOK, ListMatches
  <1>2. LinksMatch(rnext, rlast, lru)
    BY DEF ListMatches
  <1>3. LinksMatch(rnext', rlast', lru')
    BY <1>1, <1>2, LinksAfterUnlink
  <1>0. /\ Len(lru') = length - 1
        /\ \A i \in 1..(length - 1) : lru'[i] = IF i < p THEN lru[i] ELSE lru[i + 1]
    BY <1>1 DEF CutsLinks
  <1>4. \A i \in 1..Len(lru') : lru'[i] # lru[p]
    BY <1>0, <1>1, <1>2 DEF LinksMatch, LRU_BUFFER_HEAD_POINT
  <1>5. \A i \in 1..Len(lru') : \E j \in 1..Len(lru) : lru'[i] = lru[j]
    <2> SUFFICES ASSUME NEW i \in 1..(length - 1)
                 PROVE  \E j \in 1..length : lru'[i] = lru[j]
      BY <1>0, <1>0, <1>1
    <2>1. i \in 1..length /\ i + 1 \in 1..length
      BY <1>0, <1>0, <1>1
    <2>2. lru'[i] = lru[i] \/ lru'[i] = lru[i + 1]
      BY <1>0
    <2> QED BY <2>1, <2>2
  <1>6. length' > 0 => first' = lru'[1] /\ last' = lru'[length']
    BY <1>0, <1>1 DEF ListMatches
  <1>7. \A r \in 1..MaxLength : valid'[r] <=> \E i \in 1..Len(lru') : lru'[i] = r
    <2> SUFFICES ASSUME NEW r \in 1..MaxLength
                 PROVE  valid'[r] <=> \E i \in 1..Len(lru') : lru'[i] = r
      OBVIOUS
    <2>1. r \in Records /\ lru[p] \in Slots /\ Slots \subseteq Records
      BY <1>0, <1>1, MaxLengthType DEF Records, Slots
    <2>2. CASE r = lru[p]
      <3>1. ~valid'[r]
        BY <2>1, <2>2 DEF ListTypeOK
      <3> QED BY <3>1, <2>2, <1>4
    <2>3. CASE r # lru[p]
      <3>1. valid'[r] = valid[r]
        BY <2>1, <2>3 DEF ListTypeOK
      <3>2. ASSUME NEW i \in 1..length, lru[i] = r
            PROVE  \E j \in 1..Len(lru') : lru'[j] = r
        <4>1. CASE i < p
          <5>1. i \in 1..Len(lru') /\ lru'[i] = lru[i]
            BY <4>1, <1>0, <1>1
          <5> QED BY <3>2, <5>1
        <4>2. CASE i > p
          <5>1. i - 1 \in 1..Len(lru') /\ lru'[i - 1] = lru[i]
            BY <4>2, <1>0, <1>1
          <5> QED BY <3>2, <5>1
        <4>3. i # p
          BY <2>3, <3>2
        <4> QED BY <4>1, <4>2, <4>3, <1>0, <1>1
      <3>3. valid[r] <=> \E i \in 1..length : lru[i] = r
        BY <1>0, <1>1 DEF ListMatches
      <3>4. (\E j \in 1..Len(lru') : lru'[j] = r) => \E i \in 1..length : lru[i] = r
        BY <1>0, <1>1, <1>5
      <3> QED BY <3>1, <3>2, <3>3, <3>4
    <2> QED BY <2>2, <2>3
  <1>8. ListMatches'
    BY <1>0, <1>3, <1>6, <1>7 DEF ListMatches
  <1> QED BY <1>4, <1>5, <1>8

\* The neighbours of the p-th record.
LEMMA Neighbours ==
    ASSUME ListTypeOK, ListMatches, NEW p \in 1..length
    PROVE  /\ length \in Nat /\ Len(lru) = length /\ p \in 1..Len(lru)
           /\ lru[p] \in Slots /\ lru[p] \in Records /\ lru[p] > 0
           /\ rnext[lru[p]] = IF p < length THEN lru[p + 1] ELSE -1
           /\ rlast[lru[p]] = IF p > 1 THEN lru[p - 1] ELSE 0
           /\ p < length => rnext[lru[p]] \in Slots /\ rnext[lru[p]] > 0
           /\ rlast[lru[p]] \in Records /\ rlast[lru[p]] \in -1..MaxLength
           /\ p = 1 <=> lru[p] = first
           /\ p = length <=> lru[p] = last
           /\ 0 \in Records /\ Slots \subseteq Records /\ Slots \subseteq -1..MaxLength
  <1>1. length \in Nat /\ Len(lru) = length /\ lru \in Seq(Slots)
    BY DEF ListTypeOK, ListMatches
  <1>2. /\ 0 \in Records /\ Slots \subseteq Records /\ Slots \subseteq -1..MaxLength
        /\ Records \subseteq -1..MaxLength /\ \A x \in Slots : x > 0
    BY MaxLengthType DEF Records, Slots
  <1>3. \A i \in 1..length : lru[i] \in Slots
    BY <1>1
  <1>4. /\ rnext[lru[p]] = IF p < length THEN lru[p + 1] ELSE -1
        /\ rlast[lru[p]] = IF p > 1 THEN lru[p - 1] ELSE 0
    BY <1>1 DEF ListMatches, LinksMatch, LRU_BUFFER_HEAD_POINT
  <1>5. p < length => rnext[lru[p]] \in Slots
    BY <1>1, <1>3, <1>4
  <1>6. rlast[lru[p]] \in Records
    <2>1. CASE p > 1
      <3>1. p - 1 \in 1..length
        BY <2>1, <1>1
      <3> QED BY <2>1, <3>1, <1>2, <1>3, <1>4
    <2>2. CASE p = 1
      BY <2>2, <1>2, <1>4
    <2> QED BY <2>1, <2>2, <1>1
  <1>7. (p = 1 <=> lru[p] = first) /\ (p = length <=> lru[p] = last)
    <2>1. first = lru[1] /\ last = lru[length] /\ 1 \in 1..Len(lru) /\ length \in 1..Len(lru)
      BY <1>1 DEF ListMatches
    <2> QED BY <1>1, <2>1 DEF ListMatches, LinksMatch
  <1> QED BY <1>1, <1>2, <1>3, <1>4, <1>5, <1>6, <1>7

\* pop_back's relinking drops exactly the last record.
LEMMA CutLastKeepsList ==
    ASSUME ListTypeOK, ListMatches, length > 0,
           CutLast, valid' = [valid EXCEPT ![last] = FALSE]
    PROVE  /\ ListTypeOK' /\ ListMatches' /\ length' = length - 1
           /\ length \in 1..length /\ last = lru[length]
           /\ \A i \in 1..Len(lru') : lru'[i] # last
           /\ \A i \in 1..Len(lru') : \E j \in 1..Len(lru) : lru'[i] = lru[j]
  <1>1. length \in Nat /\ length \in 1..length /\ last = lru[length] /\ length' = length - 1
    BY DEF ListTypeOK, ListMatches, CutLast
  <1>2. /\ Len(lru) = length /\ last \in Slots /\ last \in Records
        /\ rnext[last] = -1 /\ rlast[last] = IF length > 1 THEN lru[length - 1] ELSE 0
        /\ rlast[last] \in Records /\ rlast[last] \in -1..MaxLength
    BY <1>1, Neighbours
  <1>3. /\ lru' \in Seq(Slots) /\ Len(lru') = length - 1
        /\ \A i \in 1..(length - 1) : lru'[i] = lru[i]
    BY <1>2, FrontFacts DEF CutLast, ListTypeOK
  <1>4. ListTypeOK'
    <2>1. rnext' \in [Records -> -1..MaxLength] /\ rlast' \in [Records -> -1..MaxLength]
      BY <1>2, MaxLengthType DEF ListTypeOK, CutLast
    <2>2. last' \in -1..MaxLength /\ first' \in -1..MaxLength
      <3>1. last' = 0 \/ last' = rlast[last]
        BY DEF CutLast, LRU_BUFFER_HEAD_POINT
      <3>2. first' = 0 \/ first' = rlast[last] \/ first' = first
        BY DEF CutLast, LRU_BUFFER_HEAD_POINT
      <3> QED BY <1>2, <3>1, <3>2, MaxLengthType DEF ListTypeOK
    <2>3. length' \in 0..MaxLength
      BY <1>1, MaxLengthType DEF ListTypeOK
    <2>4. valid' \in [Records -> BOOLEAN]
      BY <1>2 DEF ListTypeOK
    <2> QED BY <1>3, <2>1, <2>2, <2>3, <2>4 DEF ListTypeOK
  <1>5. CutsLinks(rnext, rlast, lru, length, rnext', rlast', lru')
    <2>1. \A x \in Records : rnext'[x] = IF x = rlast[last] THEN -1 ELSE rnext[x]
      BY <1>2 DEF CutLast, ListTypeOK
    <2>2. rlast' = rlast
      BY DEF CutLast
    <2> QED BY <1>1, <1>2, <1>3, <2>1, <2>2 DEF CutsLinks
  <1>6. length > 1 => /\ first' = IF length = 1 THEN lru[2] ELSE first
                      /\ last' = lru[length - 1]
    BY <1>1, <1>2 DEF CutLast, ListMatches
  <1> QED BY <1>1, <1>4, <1>5, <1>6, UnlinkKeepsList

\* remove_record's relinking drops exactly the record removed.
LEMMA CutKeepsList ==
    ASSUME ListTypeOK, ListMatches, NEW r \in Slots, valid[r],
           rnext' = Cut(r).rnext, rlast' = Cut(r).rlast,
           first' = Cut(r).first, last' = Cut(r).last,
           length' = length - 1, lru' = Without(lru, r),
           valid' = [valid EXCEPT ![r] = FALSE]
    PROVE  /\ ListTypeOK' /\ ListMatches' /\ length > 0
           /\ \A i \in 1..Len(lru') : lru'[i] # r
           /\ \A i \in 1..Len(lru') : \E j \in 1..Len(lru) : lru'[i] = lru[j]
  <1>2. PICK p \in 1..Len(lru) :
             /\ lru[p] = r
             /\ lru' \in Seq(Slots)
             /\ Len(lru') = Len(lru) - 1
             /\ \A i \in 1..(Len(lru) - 1) : lru'[i] = IF i < p THEN lru[i] ELSE lru[i + 1]
    BY ListWithout
  <1>3. length \in Nat /\ Len(lru) = length /\ p \in 1..length /\ length > 0
    BY <1>2 DEF ListTypeOK, ListMatches
  <1>4. /\ r \in Records /\ r > 0
        /\ rnext[r] = IF p < length THEN lru[p + 1] ELSE -1
        /\ rlast[r] = IF p > 1 THEN lru[p - 1] ELSE 0
        /\ p < length => rnext[r] \in Slots /\ rnext[r] > 0
        /\ rlast[r] \in Records /\ rlast[r] \in -1..MaxLength
        /\ p = 1 <=> r = first
        /\ p = length <=> r = last
        /\ 0 \in Records /\ Slots \subseteq Records /\ Slots \subseteq -1..MaxLength
    BY <1>2, <1>3, Neighbours
  <1>5. /\ rnext' = [rnext EXCEPT ![rlast[r]] = rnext[r]]
        /\ rlast' = IF p < length THEN [rlast EXCEPT ![rnext[r]] = rlast[r]] ELSE rlast
        /\ first' = IF p = 1 /\ p < length THEN rnext[r] ELSE first
        /\ last' = IF p = length THEN rlast[r] ELSE last
    <2> USE DEF Cut, linklist_remove_node, LRU_BUFFER_HEAD_POINT
    <2>1. CASE p = length
      <3>1. r = last /\ rnext[r] = -1
        BY <2>1, <1>3, <1>4
      <3> QED BY <3>1, <2>1, <1>3
    <2>2. CASE p < length /\ p = 1
      <3>1. r # last /\ r = first /\ rlast[r] = 0
        BY <2>2, <1>3, <1>4
      <3> QED BY <3>1, <2>2, <1>3
    <2>3. CASE p < length /\ p > 1
      <3>1. r # last /\ r # first /\ rnext[r] > 0
        BY <2>3, <1>3, <1>4
      <3> QED BY <3>1, <2>3, <1>3
    <2> QED BY <2>1, <2>2, <2>3, <1>3
  <1>6. ListTypeOK'
    <2>1. rnext' \in [Records -> -1..MaxLength]
      <3>1. rnext[r] \in -1..MaxLength
        BY <1>4 DEF ListTypeOK
      <3> QED BY <3>1, <1>5 DEF ListTypeOK
    <2>2. rlast' \in [Records -> -1..MaxLength]
      BY <1>4, <1>5 DEF ListTypeOK
    <2>3. last' \in -1..MaxLength /\ first' \in -1..MaxLength
      BY <1>4, <1>5 DEF ListTypeOK
    <2>4. length' \in 0..MaxLength
      BY <1>3, MaxLengthType DEF ListTypeOK
    <2>5. valid' \in [Records -> BOOLEAN]
      BY <1>4 DEF ListTypeOK
    <2> QED BY <1>2, <2>1, <2>2, <2>3, <2>4, <2>5 DEF ListTypeOK
  <1>7. CutsLinks(rnext, rlast, lru, p, rnext', rlast', lru')
    <2>1. \A x \in Records : rnext'[x] = IF x = rlast[r] THEN rnext[r] ELSE rnext[x]
      BY <1>4, <1>5 DEF ListTypeOK
    <2>2. \A x \in Records : rlast'[x] = IF p < length /\ x = rnext[r] THEN rlast[r] ELSE rlast[x]
      BY <1>4, <1>5 DEF ListTypeOK
    <2> QED BY <1>2, <1>3, <2>1, <2>2 DEF CutsLinks
  <1>8. length > 1 => /\ first' = IF p = 1 THEN lru[2] ELSE first
                      /\ last' = IF p = length THEN lru[length - 1] ELSE last
    BY <1>3, <1>4, <1>5
  <1>9. valid' = [valid EXCEPT ![lru[p]] = FALSE]
    BY <1>2
  <1> QED BY <1>2, <1>3, <1>6, <1>7, <1>8, <1>9, UnlinkKeepsList

\* push_front's linking of a record that was not in the list.
LEMMA PushFrontKeepsList ==
    ASSUME ListTypeOK, ListMatches, NEW r \in Slots, \A i \in 1..Len(lru) : lru[i] # r,
           length < MaxLength, PushFront(r), valid' = [valid EXCEPT ![r] = TRUE]
    PROVE  /\ ListTypeOK' /\ ListMatches' /\ length' = length + 1
           /\ \A i \in 1..Len(lru') : lru'[i] = r \/ \E j \in 1..Len(lru) : lru'[i] = lru[j]
  <1>1. /\ length \in Nat /\ Len(lru) = length /\ lru \in Seq(Slots)
        /\ length' = length + 1 /\ lru' = <<r>> \o lru /\ first' = r
    BY DEF ListTypeOK, ListMatches, PushFront
  <1>2. /\ 0 \in Records /\ Slots \subseteq Records /\ 0 \notin Slots
        /\ Slots \subseteq -1..MaxLength /\ 0 \in -1..MaxLength /\ -1 \in -1..MaxLength
    BY MaxLengthType DEF Records, Slots
  <1>3. /\ lru' \in Seq(Slots) /\ Len(lru') = length + 1 /\ lru'[1] = r
        /\ \A i \in 2..(length + 1) : lru'[i] = lru[i - 1]
    BY <1>1, ConsFacts
  <1>4. length > 0 => first = lru[1] /\ last = lru[length] /\ first \in Slots
    BY <1>1 DEF ListMatches
  <1>5. ListTypeOK'
    <2>1. rnext' \in [Records -> -1..MaxLength] /\ rlast' \in [Records -> -1..MaxLength]
      <3>1. CASE length > 0
        BY <3>1, <1>2 DEF PushFront, ListTypeOK, LRU_BUFFER_HEAD_POINT
      <3>2. CASE ~(length > 0)
        BY <3>2, <1>2 DEF PushFront, ListTypeOK, LRU_BUFFER_HEAD_POINT
      <3> QED BY <3>1, <3>2
    <2>2. last' \in -1..MaxLength /\ first' \in -1..MaxLength
      <3>1. last' = last \/ last' = r
        BY DEF PushFront
      <3> QED BY <3>1, <1>1, <1>2 DEF ListTypeOK
    <2>3. length' \in 0..MaxLength
      BY <1>1, MaxLengthType
    <2>4. valid' \in [Records -> BOOLEAN]
      BY <1>2 DEF ListTypeOK
    <2> QED BY <1>3, <2>1, <2>2, <2>3, <2>4 DEF ListTypeOK
  <1>6. LinksMatch(rnext', rlast', lru')
    <2>1. CASE length > 0
      <3>1. \A x \in Records : rnext'[x] = IF x = 0 THEN r ELSE IF x = r THEN lru[1] ELSE rnext[x]
        BY <2>1, <1>2, <1>4 DEF PushFront, ListTypeOK, LRU_BUFFER_HEAD_POINT
      <3>2. first # r
        BY <2>1, <1>1, <1>4
      <3>3. \A x \in Records : rlast'[x] = IF x = r THEN 0 ELSE IF x = lru[1] THEN r ELSE rlast[x]
        BY <2>1, <3>2, <1>2, <1>4 DEF PushFront, ListTypeOK, LRU_BUFFER_HEAD_POINT
      <3>4. PushesLinks(rnext, rlast, lru, r, rnext', rlast')
        BY <2>1, <3>1, <3>3, <1>1 DEF PushesLinks
      <3>5. LinksMatch(rnext, rlast, lru)
        BY DEF ListMatches
      <3> QED BY <3>4, <3>5, <1>1, LinksAfterPush
    <2>2. CASE ~(length > 0)
      <3>1. \A x \in Records : rnext'[x] = IF x = 0 THEN r ELSE IF x = r THEN -1 ELSE rnext[x]
        BY <2>2, <1>2 DEF PushFront, ListTypeOK, LRU_BUFFER_HEAD_POINT
      <3>2. \A x \in Records : rlast'[x] = IF x = r THEN 0 ELSE rlast[x]
        BY <2>2, <1>2 DEF PushFront, ListTypeOK, LRU_BUFFER_HEAD_POINT
      <3>3. PushesLinks(rnext, rlast, lru, r, rnext', rlast')
        BY <2>2, <3>1, <3>2, <1>1 DEF PushesLinks
      <3>4. LinksMatch(rnext, rlast, lru)
        BY DEF ListMatches
      <3> QED BY <3>3, <3>4, <1>1, LinksAfterPush
    <2> QED BY <2>1, <2>2
  <1>7. first' = lru'[1] /\ last' = lru'[length']
    <2>1. CASE length > 0
      BY <2>1, <1>1, <1>3, <1>4 DEF PushFront
    <2>2. CASE length = 0
      BY <2>2, <1>1, <1>3 DEF PushFront
    <2> QED BY <2>1, <2>2, <1>1
  <1>8. \A i \in 1..(length + 1) : lru'[i] = r \/ \E j \in 1..length : lru'[i] = lru[j]
    <2> SUFFICES ASSUME NEW i \in 1..(length + 1), i # 1
                 PROVE  \E j \in 1..length : lru'[i] = lru[j]
      BY <1>3
    <2>1. i - 1 \in 1..length /\ lru'[i] = lru[i - 1]
      BY <1>1, <1>3
    <2> QED BY <2>1
  <1>9. \A x \in 1..MaxLength : valid'[x] <=> \E i \in 1..Len(lru') : lru'[i] = x
    <2> SUFFICES ASSUME NEW x \in 1..MaxLength
                 PROVE  valid'[x] <=> \E i \in 1..(length + 1) : lru'[i] = x
      BY <1>3
    <2>1. x \in Records
      BY DEF Records
    <2>2. CASE x = r
      <3>1. valid'[x] /\ lru'[1] = x /\ 1 \in 1..(length + 1)
        BY <2>1, <2>2, <1>1, <1>3 DEF ListTypeOK
      <3> QED BY <3>1
    <2>3. CASE x # r
      <3>1. valid'[x] = valid[x]
        BY <2>1, <2>3 DEF ListTypeOK
      <3>2. valid[x] <=> \E j \in 1..length : lru[j] = x
        BY <1>1 DEF ListMatches
      <3>3. ASSUME NEW j \in 1..length, lru[j] = x
            PROVE  \E i \in 1..(length + 1) : lru'[i] = x
        <4>1. j + 1 \in 2..(length + 1) /\ j + 1 \in 1..(length + 1) /\ (j + 1) - 1 = j
          BY <1>1
        <4> QED BY <4>1, <3>3, <1>3
      <3>4. ASSUME NEW i \in 1..(length + 1), lru'[i] = x
            PROVE  \E j \in 1..length : lru[j] = x
        BY <3>4, <2>3, <1>8
      <3> QED BY <3>1, <3>2, <3>3, <3>4
    <2> QED BY <2>2, <2>3
  <1>10. ListMatches'
    BY <1>1, <1>3, <1>6, <1>7, <1>9 DEF ListMatches
  <1> QED BY <1>1, <1>3, <1>5, <1>8, <1>10

\* Moving a listed record to the front keeps the set of listed records.
LEMMA MoveToFrontKeepsList ==
    ASSUME ListTypeOK, ListMatches, NEW r \in Slots, valid[r], r # first,
           MoveToFront(r), UNCHANGED <<length, valid>>
    PROVE  /\ ListTypeOK' /\ ListMatches'
           /\ \A i \in 1..Len(lru') : \E j \in 1..Len(lru) : lru'[i] = lru[j]
  <1> DEFINE s  == Without(lru, r)
             rc == linklist_remove_node(r).rnext
             lc == linklist_remove_node(r).rlast
             n  == length
  <1>1. n \in Nat /\ Len(lru) = n /\ lru \in Seq(Slots)
    BY DEF ListTypeOK, ListMatches
  <1>2. PICK p \in 1..Len(lru) :
             /\ lru[p] = r
             /\ s \in Seq(Slots)
             /\ Len(s) = Len(lru) - 1
             /\ \A i \in 1..(Len(lru) - 1) : s[i] = IF i < p THEN lru[i] ELSE lru[i + 1]
    BY ListWithout
  <1>3. p \in 1..n
    BY <1>1
  <1>4. /\ r \in Records /\ r > 0
        /\ rnext[r] = IF p < n THEN lru[p + 1] ELSE -1
        /\ rlast[r] = IF p > 1 THEN lru[p - 1] ELSE 0
        /\ p < n => rnext[r] \in Slots /\ rnext[r] > 0
        /\ rlast[r] \in Records /\ rlast[r] \in -1..MaxLength
        /\ p = 1 <=> r = first
        /\ p = n <=> r = last
        /\ 0 \in Records /\ Slots \subseteq Records /\ Slots \subseteq -1..MaxLength
    BY <1>2, <1>3, Neighbours
  <1>5. p > 1 /\ n > 1 /\ n - 1 \in Nat
    BY <1>1, <1>3, <1>4
  <1>6. /\ rc = [rnext EXCEPT ![rlast[r]] = rnext[r]]
        /\ lc = IF p < n THEN [rlast EXCEPT ![rnext[r]] = rlast[r]] ELSE rlast
        /\ linklist_remove_node(r).last = IF p < n THEN last ELSE rlast[r]
    <2>1. CASE p < n
      <3>1. rnext[r] > 0
        BY <2>1, <1>4
      <3> QED BY <3>1, <2>1 DEF linklist_remove_node
    <2>2. CASE ~(p < n)
      <3>1. rnext[r] = -1 /\ ~(rnext[r] > 0)
        BY <2>2, <1>4
      <3> QED BY <3>1, <2>2 DEF linklist_remove_node
    <2> QED BY <2>1, <2>2
  <1>7. first = lru[1] /\ last = lru[n] /\ first = s[1] /\ first \in Slots /\ 1 \in 1..Len(s)
    BY <1>1, <1>2, <1>5 DEF ListMatches
  <1>8. /\ rnext' = [rc EXCEPT ![r] = first, ![0] = r]
        /\ rlast' = [lc EXCEPT ![r] = 0, ![first] = r]
        /\ first' = r /\ last' = linklist_remove_node(r).last
        /\ lru' = <<r>> \o s
    BY DEF MoveToFront, LRU_BUFFER_HEAD_POINT
  <1> HIDE DEF s, rc, lc
  <1>9. /\ lru' \in Seq(Slots) /\ Len(lru') = n /\ lru'[1] = r
        /\ \A i \in 2..n : lru'[i] = s[i - 1]
    <2>1. /\ <<r>> \o s \in Seq(Slots) /\ Len(<<r>> \o s) = Len(s) + 1
          /\ (<<r>> \o s)[1] = r
          /\ \A i \in 2..(Len(s) + 1) : (<<r>> \o s)[i] = s[i - 1]
      BY <1>2, ConsFacts
    <2>2. Len(s) + 1 = n
      BY <1>1, <1>2
    <2> QED BY <1>8, <2>1, <2>2
  <1>10. rc \in [Records -> -1..MaxLength] /\ lc \in [Records -> -1..MaxLength]
    <2>1. rnext[r] \in -1..MaxLength
      BY <1>4 DEF ListTypeOK
    <2> QED BY <2>1, <1>4, <1>6 DEF ListTypeOK
  <1>11. LinksMatch(rnext', rlast', lru')
    <2>1. LinksMatch(rnext, rlast, lru)
      BY DEF ListMatches
    <2>2. \A x \in Records : rc[x] = IF x = rlast[r] THEN rnext[r] ELSE rnext[x]
      BY <1>4, <1>6 DEF ListTypeOK
    <2>3. \A x \in Records : lc[x] = IF p < n /\ x = rnext[r] THEN rlast[r] ELSE rlast[x]
      BY <1>4, <1>6 DEF ListTypeOK
    <2>4. CutsLinks(rnext, rlast, lru, p, rc, lc, s)
      BY <1>1, <1>2, <2>2, <2>3 DEF CutsLinks
    <2>5. LinksMatch(rc, lc, s)
      BY <1>1, <1>2, <2>1, <2>4, LinksAfterUnlink
    <2>6. ASSUME NEW i \in 1..Len(s) PROVE s[i] # r
      <3>1. \A j, k \in 1..Len(lru) : lru[j] = lru[k] => j = k
        BY <2>1 DEF LinksMatch
      <3>2. i \in 1..(Len(lru) - 1) /\ i \in 1..Len(lru) /\ i + 1 \in 1..Len(lru)
        BY <1>1, <1>2
      <3>3. CASE i < p
        <4>1. s[i] = lru[i] /\ i # p
          BY <1>2, <3>2, <3>3
        <4> QED BY <4>1, <3>1, <3>2, <1>2
      <3>4. CASE ~(i < p)
        <4>1. s[i] = lru[i + 1] /\ i + 1 # p
          BY <1>2, <3>2, <3>4
        <4> QED BY <4>1, <3>1, <3>2, <1>2
      <3> QED BY <3>3, <3>4
    <2>7. \A x \in Records : rnext'[x] = IF x = 0 THEN r ELSE IF x = r THEN s[1] ELSE rc[x]
      BY <1>4, <1>7, <1>8, <1>10
    <2>8. \A x \in Records : rlast'[x] = IF x = r THEN 0 ELSE IF x = s[1] THEN r ELSE lc[x]
      BY <1>4, <1>7, <1>8, <1>10
    <2>9. PushesLinks(rc, lc, s, r, rnext', rlast')
      BY <2>6, <2>7, <2>8, <1>1, <1>2, <1>5 DEF PushesLinks
    <2> QED BY <1>2, <1>8, <2>5, <2>9, LinksAfterPush
  <1>12. ListTypeOK'
    <2>1. rnext' \in [Records -> -1..MaxLength] /\ rlast' \in [Records -> -1..MaxLength]
      <3>1. 0 \in -1..MaxLength /\ r \in -1..MaxLength /\ first \in -1..MaxLength
        BY <1>4, <1>7, MaxLengthType
      <3>2. rnext' \in [Records -> -1..MaxLength]
        BY <3>1, <1>8, <1>10
      <3>3. rlast' \in [Records -> -1..MaxLength]
        BY <3>1, <1>8, <1>10
      <3> QED BY <3>2, <3>3
    <2>2. last' \in -1..MaxLength /\ first' \in -1..MaxLength
      BY <1>4, <1>6, <1>8 DEF ListTypeOK
    <2> QED BY <1>9, <2>1, <2>2 DEF ListTypeOK
  <1>13. first' = lru'[1] /\ last' = lru'[n]
    <2>1. lru'[n] = s[n - 1] /\ s[n - 1] = IF p < n THEN lru[n] ELSE lru[n - 1]
      BY <1>1, <1>2, <1>3, <1>5, <1>9
    <2>2. last' = IF p < n THEN lru[n] ELSE lru[n - 1]
      BY <1>1, <1>3, <1>4, <1>5, <1>6, <1>7, <1>8
    <2> QED BY <2>1, <2>2, <1>8, <1>9
  <1>14. \A i \in 1..n : \E j \in 1..n : lru'[i] = lru[j]
    <2> SUFFICES ASSUME NEW i \in 1..n
                 PROVE  \E j \in 1..n : lru'[i] = lru[j]
      OBVIOUS
    <2>1. CASE i = 1
      BY <2>1, <1>2, <1>3, <1>9
    <2>2. CASE i > 1
      <3>1. i - 1 \in 1..n /\ i \in 1..n /\ (lru'[i] = lru[i - 1] \/ lru'[i] = lru[i])
        BY <2>2, <1>1, <1>2, <1>9
      <3> QED BY <3>1
    <2> QED BY <2>1, <2>2, <1>1
  <1>15. \A i \in 1..n : \E j \in 1..n : lru[i] = lru'[j]
    <2> SUFFICES ASSUME NEW i \in 1..n
                 PROVE  \E j \in 1..n : lru[i] = lru'[j]
      OBVIOUS
    <2>1. CASE i = p
      BY <2>1, <1>1, <1>2, <1>5, <1>9
    <2>2. CASE i < p
      <3>1. i + 1 \in 2..n /\ i + 1 \in 1..n /\ (i + 1) - 1 = i /\ i \in 1..(Len(lru) - 1)
        BY <2>2, <1>1, <1>3
      <3>2. lru'[i + 1] = lru[i]
        BY <2>2, <3>1, <1>2, <1>9
      <3> QED BY <3>1, <3>2
    <2>3. CASE i > p
      <3>1. i \in 2..n /\ i - 1 \in 1..(Len(lru) - 1) /\ (i - 1) + 1 = i /\ ~(i - 1 < p)
        BY <2>3, <1>1, <1>3
      <3>2. lru'[i] = lru[i]
        BY <3>1, <1>2, <1>9
      <3> QED BY <3>2
    <2> QED BY <2>1, <2>2, <2>3, <1>1
  <1>16. \A x \in 1..MaxLength : valid'[x] <=> \E i \in 1..n : lru'[i] = x
    <2>1. \A x \in 1..MaxLength : valid[x] <=> \E i \in 1..n : lru[i] = x
      BY <1>1 DEF ListMatches
    <2>2. ASSUME NEW x, NEW i \in 1..n, lru[i] = x  PROVE  \E j \in 1..n : lru'[j] = x
      BY <2>2, <1>15
    <2>3. ASSUME NEW x, NEW i \in 1..n, lru'[i] = x  PROVE  \E j \in 1..n : lru[j] = x
      BY <2>3, <1>14
    <2>4. valid' = valid
      OBVIOUS
    <2> QED BY <2>1, <2>2, <2>3, <2>4
  <1>17. ListMatches'
    BY <1>9, <1>11, <1>13, <1>16 DEF ListMatches
  <1> QED BY <1>1, <1>9, <1>12, <1>14, <1>17

-----------------------------------------------------------------------------
(***************************************************************************)
(* The stack of free positions.                                            *)
(***************************************************************************)

\* The position cache_stack_pop hands out is free and is not the reserved one.
LEMMA TopIsFree ==
    ASSUME ListTypeOK, PoolTypeOK, ListMatches, SlotAccounting, Len(stack) > 1
    PROVE  /\ Last(stack) \in Slots
           /\ \A i \in 1..Len(lru) : lru[i] # Last(stack)
  <1>1. /\ stack \in Seq(1..MaxLength) /\ Len(stack) \in Nat /\ Len(stack) > 1
        /\ Last(stack) = stack[Len(stack)]
    BY DEF PoolTypeOK, Last
  <1>2. Len(stack) \in 1..Len(stack) /\ 1 \in 1..Len(stack) /\ Len(stack) # 1
    BY <1>1
  <1>3. stack[Len(stack)] \in 1..MaxLength /\ stack[Len(stack)] # MaxLength
    <2>1. stack[Len(stack)] \in 1..MaxLength
      BY ONLY <1>1, <1>2, ElementOfSeq
    <2>2. stack[1] = MaxLength /\ \A i, j \in 1..Len(stack) : stack[i] = stack[j] => i = j
      BY DEF SlotAccounting
    <2> QED BY <1>2, <2>1, <2>2
  <1>4. \A i \in 1..Len(lru) : lru[i] # stack[Len(stack)]
    BY <1>2 DEF SlotAccounting
  <1> QED BY <1>1, <1>3, <1>4, MaxLengthType DEF Slots

\* Taking a position moves it from the stack to the list.
LEMMA SlotsAfterTake ==
    ASSUME ListTypeOK, PoolTypeOK, ListMatches, SlotAccounting, Len(stack) > 1,
           stack' = Front(stack), length' = length + 1, lru' \in Seq(Slots),
           \A i \in 1..Len(lru') :
               lru'[i] = Last(stack) \/ \E j \in 1..Len(lru) : lru'[i] = lru[j]
    PROVE  SlotAccounting' /\ stack' \in Seq(1..MaxLength)
  <1>1. /\ stack \in Seq(1..MaxLength) /\ Len(stack) \in Nat /\ length \in Nat
        /\ Last(stack) = stack[Len(stack)]
    BY DEF PoolTypeOK, ListTypeOK, Last
  <1>2. /\ stack' \in Seq(1..MaxLength) /\ Len(stack') = Len(stack) - 1
        /\ \A i \in 1..(Len(stack) - 1) : stack'[i] = stack[i]
    BY <1>1, FrontFacts
  <1>0. /\ Len(stack) + length = MaxLength /\ stack[1] = MaxLength
        /\ \A i, j \in 1..Len(stack) : stack[i] = stack[j] => i = j
    BY DEF SlotAccounting
  <1>3. Len(stack') + length' = MaxLength /\ length' < MaxLength
    <2>1. Len(stack) + length = MaxLength /\ Len(stack) > 1 /\ length' = length + 1
      BY <1>0
    <2>2. Len(stack') = Len(stack) - 1 /\ Len(stack) \in Nat /\ length \in Nat
      BY <1>1, <1>2
    <2> QED BY ONLY <2>1, <2>2
  <1>4. stack'[1] = MaxLength
    <2>1. 1 \in 1..(Len(stack) - 1)
      BY <1>1
    <2> QED BY ONLY <2>1, <1>0, <1>2
  <1>5. \A i, j \in 1..Len(stack') : stack'[i] = stack'[j] => i = j
    <2>1. \A i \in 1..Len(stack') : i \in 1..Len(stack) /\ stack'[i] = stack[i]
      BY <1>1, <1>2
    <2> QED BY ONLY <2>1, <1>0
  <1>6. ASSUME NEW i \in 1..Len(stack'), NEW j \in 1..Len(lru')
        PROVE  stack'[i] # lru'[j]
    <2>1. i \in 1..Len(stack) /\ Len(stack) \in 1..Len(stack) /\ i # Len(stack) /\ stack'[i] = stack[i]
      BY <1>1, <1>2
    <2>2. stack[i] # stack[Len(stack)]
      BY <2>1 DEF SlotAccounting
    <2>3. \A k \in 1..Len(lru) : stack[i] # lru[k]
      BY <2>1 DEF SlotAccounting
    <2> QED BY <1>1, <2>1, <2>2, <2>3
  <1> QED BY <1>2, <1>3, <1>4, <1>5, <1>6 DEF SlotAccounting

LEMMA OneMoved ==
    ASSUME NEW a \in Nat, NEW b \in Nat, NEW n \in Nat, NEW c, NEW d,
           a + b = n /\ b < n, c = a + 1 /\ d = b - 1
    PROVE  c + d = n /\ d < n
  OBVIOUS

\* Giving a position back moves it from the list to the stack.
LEMMA SlotsAfterRelease ==
    ASSUME ListTypeOK, PoolTypeOK, ListMatches, SlotAccounting,
           NEW r \in Slots, NEW p \in 1..Len(lru), lru[p] = r,
           stack' = cache_stack_push(r), length' = length - 1, length > 0,
           \A i \in 1..Len(lru') : lru'[i] # r,
           \A i \in 1..Len(lru') : \E j \in 1..Len(lru) : lru'[i] = lru[j]
    PROVE  SlotAccounting' /\ stack' \in Seq(1..MaxLength)
  <1>1. stack \in Seq(1..MaxLength) /\ Len(stack) \in Nat /\ length \in Nat
    BY DEF PoolTypeOK, ListTypeOK
  <1>2. r \in 1..MaxLength /\ r >= 0 /\ r < MaxLength
    BY MaxLengthType DEF Slots
  <1>3. stack' = Append(stack, r)
    BY <1>2 DEF cache_stack_push
  <1>4. /\ stack' \in Seq(1..MaxLength) /\ Len(stack') = Len(stack) + 1
        /\ \A i \in 1..Len(stack) : stack'[i] = stack[i]
        /\ stack'[Len(stack) + 1] = r
    BY <1>1, <1>2, <1>3
  <1>5. Len(stack') + length' = MaxLength /\ length' < MaxLength
    <2>1. Len(stack) + length = MaxLength /\ length < MaxLength
      BY DEF SlotAccounting
    <2>2. Len(stack') = Len(stack) + 1 /\ length' = length - 1
      BY <1>4
    <2>3. MaxLength \in Nat
      BY MaxLengthType
    <2>4. PICK a \in Nat, b \in Nat, c \in Int, d \in Int :
              a = Len(stack) /\ b = length /\ c = Len(stack') /\ d = length'
      BY <1>1, <2>2
    <2>5. a + b = MaxLength /\ b < MaxLength /\ c = a + 1 /\ d = b - 1
      BY <2>1, <2>2, <2>4
    <2>6. c + d = MaxLength /\ d < MaxLength
      BY <2>3, <2>5, OneMoved
    <2> QED BY <2>4, <2>6
  <1>6. stack'[1] = MaxLength
    <2>1. 1 \in 1..Len(stack)
      BY <1>1, MaxLengthType DEF SlotAccounting
    <2> QED BY <2>1, <1>4 DEF SlotAccounting
  <1>7. \A i \in 1..Len(stack) : stack[i] # r
    BY DEF SlotAccounting
  <1>8. \A i, j \in 1..Len(stack') : stack'[i] = stack'[j] => i = j
    <2> SUFFICES ASSUME NEW i \in 1..(Len(stack) + 1), NEW j \in 1..(Len(stack) + 1),
                        stack'[i] = stack'[j]
                 PROVE  i = j
      BY <1>4
    <2>1. i \in 1..Len(stack) \/ i = Len(stack) + 1
      BY <1>1
    <2>2. j \in 1..Len(stack) \/ j = Len(stack) + 1
      BY <1>1
    <2>3. \A k, m \in 1..Len(stack) : stack[k] = stack[m] => k = m
      BY DEF SlotAccounting
    <2> QED BY <1>4, <1>7, <2>1, <2>2, <2>3
  <1>9. ASSUME NEW i \in 1..Len(stack'), NEW j \in 1..Len(lru')
        PROVE  stack'[i] # lru'[j]
    <2>1. i \in 1..Len(stack) \/ i = Len(stack) + 1
      BY <1>1, <1>4
    <2>2. \A m \in 1..Len(stack), k \in 1..Len(lru) : stack[m] # lru[k]
      BY DEF SlotAccounting
    <2> QED BY <1>4, <2>1, <2>2
  <1> QED BY <1>4, <1>5, <1>6, <1>8, <1>9 DEF SlotAccounting

\* Reordering the list leaves the accounts alone.
LEMMA SlotsAfterMove ==
    ASSUME SlotAccounting, UNCHANGED <<stack, length>>,
           \A i \in 1..Len(lru') : \E j \in 1..Len(lru) : lru'[i] = lru[j]
    PROVE  SlotAccounting'
  BY DEF SlotAccounting

-----------------------------------------------------------------------------
(***************************************************************************)
(* The inductive invariant.                                                *)
(***************************************************************************)

\* The list, the stack and the chains: what a store or a lookup relies on.
Core == ListTypeOK /\ PoolTypeOK /\ ListMatches /\ SlotAccounting

\* A store that has passed push_front's first test, or popped once, has a
\* position to insert into.
RoomLeft ==
    MaxLength > 1 =>
        /\ pc = "space" => length < MaxLength - 1
        /\ pc = "pop" /\ t # LRU_POP_ITEM => length < MaxLength - 1
        /\ NeverOutOfSlots

\* The store in progress has a label.
Requesting == pc # "idle" => req.label \in Labels

IInv == Core /\ RoomLeft /\ Requesting

\* The core is about these variables only.
LEMMA CoreUnchanged ==
    ASSUME Core, UNCHANGED <<list, valid, stack, label_hash>>
    PROVE  Core'
  BY DEF Core, list, ListTypeOK, PoolTypeOK, ListMatches, SlotAccounting

\* The process ends for another reason than a lack of positions.
LEMMA FailKeepsIInv ==
    ASSUME IInv, NEW f, f # "exit_no_space", Fail(f)
    PROVE  IInv'
  <1>1. Core'
    BY CoreUnchanged DEF IInv, Fail, memory
  <1>2. RoomLeft' /\ Requesting'
    BY DEF IInv, RoomLeft, Requesting, NeverOutOfSlots, Fail, list
  <1> QED BY <1>1, <1>2 DEF IInv

\* The record a walk finds is one of the cache's, and in use.
LEMMA FoundIsValid ==
    ASSUME PoolTypeOK, NEW l \in Labels, NEW i \in 1..Len(Chain(l)), Finds(valid, l, i)
    PROVE  Chain(l)[i] \in Slots /\ valid[Chain(l)[i]]
  <1>1. Hash[l] \in Buckets
    BY DEF Buckets
  <1>2. Chain(l) \in Seq(Slots)
    BY <1>1 DEF PoolTypeOK, Chain
  <1>3. Chain(l)[i] \in Slots
    BY <1>2
  <1>4. compare(valid, Chain(l)[i], l) = "equal"
    BY DEF Finds
  <1>5. valid[Chain(l)[i]]
    BY <1>4 DEF compare
  <1> QED BY <1>3, <1>5

\* Taking a node out of a chain leaves chains.
LEMMA UnlinkedType ==
    ASSUME PoolTypeOK, NEW l, NEW i \in 1..Len(Chain(l))
    PROVE  Unlinked(l, i) \in [Buckets -> Seq(Slots)]
  <1>1. label_hash \in [Buckets -> Seq(Slots)]
    BY DEF PoolTypeOK
  <1>2. CASE Hash[l] \in Buckets
    <2>1. label_hash[Hash[l]] \in Seq(Slots) /\ i \in 1..Len(label_hash[Hash[l]])
      BY <1>1, <1>2 DEF Chain
    <2>2. RemoveAt(label_hash[Hash[l]], i) \in Seq(Slots)
      BY <2>1, RemoveAtFacts
    <2> QED BY <1>1, <2>2 DEF Unlinked
  <1>3. CASE Hash[l] \notin Buckets
    BY <1>1, <1>3 DEF Unlinked
  <1> QED BY <1>2, <1>3

\* Bringing a found record to the front (push_front and get).
LEMMA TouchKeepsCore ==
    ASSUME Core, NEW r \in Slots, valid[r],
           IF r = first THEN UNCHANGED list ELSE MoveToFront(r) /\ UNCHANGED length,
           UNCHANGED <<valid, stack, label_hash>>
    PROVE  Core' /\ length' = length
  <1>1. CASE r = first
    BY <1>1, CoreUnchanged DEF list
  <1>2. CASE r # first
    <2>1. length' = length /\ MoveToFront(r)
      BY <1>2
    <2>2. /\ ListTypeOK' /\ ListMatches'
          /\ \A i \in 1..Len(lru') : \E j \in 1..Len(lru) : lru'[i] = lru[j]
      BY <1>2, <2>1, MoveToFrontKeepsList DEF Core
    <2>3. SlotAccounting'
      BY <2>1, <2>2, SlotsAfterMove DEF Core
    <2>4. PoolTypeOK'
      BY DEF Core, PoolTypeOK
    <2> QED BY <2>1, <2>2, <2>3, <2>4 DEF Core
  <1> QED BY <1>1, <1>2

\* One iteration of pop_back: the last record leaves the list, its position
\* is free again.
LEMMA PopKeepsCore ==
    ASSUME Core, length > 0, CutLast, valid' = [valid EXCEPT ![last] = FALSE],
           stack' = cache_stack_push(last), label_hash' \in [Buckets -> Seq(Slots)]
    PROVE  Core' /\ length' = length - 1 /\ length' < MaxLength - 1
  <1>1. /\ ListTypeOK' /\ ListMatches' /\ length' = length - 1
        /\ length \in 1..length /\ last = lru[length]
        /\ \A i \in 1..Len(lru') : lru'[i] # last
        /\ \A i \in 1..Len(lru') : \E j \in 1..Len(lru) : lru'[i] = lru[j]
    BY CutLastKeepsList DEF Core
  <1>2. last \in Slots /\ length \in 1..Len(lru) /\ length \in Nat
    BY <1>1, Neighbours DEF Core
  <1>3. SlotAccounting' /\ stack' \in Seq(1..MaxLength)
    BY <1>1, <1>2, SlotsAfterRelease DEF Core
  <1>4. length < MaxLength
    BY DEF Core, SlotAccounting
  <1> QED BY <1>1, <1>2, <1>3, <1>4, MaxLengthType DEF Core, PoolTypeOK

\* remove_record: likewise for an expired record anywhere in the list.
LEMMA RemoveKeepsCore ==
    ASSUME Core, NEW r \in Slots, valid[r],
           rnext' = Cut(r).rnext, rlast' = Cut(r).rlast,
           first' = Cut(r).first, last' = Cut(r).last,
           length' = length - 1, lru' = Without(lru, r),
           valid' = [valid EXCEPT ![r] = FALSE],
           stack' = cache_stack_push(r), label_hash' \in [Buckets -> Seq(Slots)]
    PROVE  Core'
  <1>1. /\ ListTypeOK' /\ ListMatches' /\ length > 0
        /\ \A i \in 1..Len(lru') : lru'[i] # r
        /\ \A i \in 1..Len(lru') : \E j \in 1..Len(lru) : lru'[i] = lru[j]
    BY CutKeepsList DEF Core
  <1>2. PICK p \in 1..length : lru[p] = r
    BY ValidIsListed DEF Core
  <1>3. p \in 1..Len(lru)
    BY <1>2 DEF Core, ListMatches
  <1>4. SlotAccounting' /\ stack' \in Seq(1..MaxLength)
    BY <1>1, <1>2, <1>3, SlotsAfterRelease DEF Core
  <1> QED BY <1>1, <1>4 DEF Core, PoolTypeOK

\* The insertion of a new record at the position popped from the stack.
LEMMA InsertKeepsCore ==
    ASSUME Core, Len(stack) > 1, stack' = Front(stack), PushFront(Last(stack)),
           valid' = [valid EXCEPT ![Last(stack)] = TRUE],
           NEW l, label_hash' = Linked(l, Last(stack))
    PROVE  Core'
  <1>1. Last(stack) \in Slots /\ \A i \in 1..Len(lru) : lru[i] # Last(stack)
    BY TopIsFree DEF Core
  <1>2. length < MaxLength
    BY DEF Core, SlotAccounting
  <1>3. /\ ListTypeOK' /\ ListMatches' /\ length' = length + 1
        /\ \A i \in 1..Len(lru') : lru'[i] = Last(stack) \/ \E j \in 1..Len(lru) : lru'[i] = lru[j]
    BY <1>1, <1>2, PushFrontKeepsList DEF Core
  <1>4. lru' \in Seq(Slots)
    BY <1>3 DEF ListTypeOK
  <1>5. SlotAccounting' /\ stack' \in Seq(1..MaxLength)
    BY <1>3, <1>4, SlotsAfterTake DEF Core
  <1>6. label_hash' \in [Buckets -> Seq(Slots)]
    <2>1. \A s \in Seq(Slots) : Append(s, Last(stack)) \in Seq(Slots)
      BY <1>1
    <2> QED BY <2>1 DEF Core, PoolTypeOK, Linked
  <1> QED BY <1>3, <1>5, <1>6 DEF Core, PoolTypeOK

\* init_cache establishes the invariant.
LEMMA InitIInv == Init => IInv
  <1> SUFFICES ASSUME Init PROVE IInv
    OBVIOUS
  <1>1. ListTypeOK
    <2>1. 0 \in -1..MaxLength /\ -1 \in -1..MaxLength /\ 0 \in 0..MaxLength
      BY MaxLengthType
    <2>2. rnext \in [Records -> -1..MaxLength] /\ rlast \in [Records -> -1..MaxLength]
      BY <2>1 DEF Init
    <2>3. valid \in [Records -> BOOLEAN]
      BY DEF Init
    <2>4. first \in -1..MaxLength /\ last \in -1..MaxLength /\ length \in 0..MaxLength
      BY <2>1 DEF Init
    <2>5. lru \in Seq(Slots)
      BY DEF Init
    <2> QED BY <2>2, <2>3, <2>4, <2>5 DEF ListTypeOK
  <1>2. stack \in Seq(1..MaxLength) /\ Len(stack) = MaxLength
        /\ \A i \in 1..MaxLength : stack[i] = MaxLength + 1 - i
    <2>1. \A i \in 1..MaxLength : MaxLength + 1 - i \in 1..MaxLength
      BY MaxLengthType
    <2> QED BY <2>1, MaxLengthType DEF Init
  <1>3. PoolTypeOK
    BY <1>2 DEF PoolTypeOK, Init
  <1>4. ListMatches
    <2>1. lru = <<>> /\ Len(lru) = 0 /\ length = 0
      BY DEF Init
    <2>2. rnext[0] = -1
      BY MaxLengthType DEF Init, Records, LRU_BUFFER_HEAD_POINT
    <2>3. LinksMatch(rnext, rlast, lru)
      BY <2>1, <2>2 DEF LinksMatch, LRU_BUFFER_HEAD_POINT
    <2>4. \A r \in 1..MaxLength : ~valid[r]
      <3>1. ASSUME NEW r \in 1..MaxLength PROVE r \in Records /\ r # 0
        BY <3>1, MaxLengthType DEF Records
      <3>2. valid = [i \in Records |-> i = 0]
        BY DEF Init, LRU_BUFFER_HEAD_POINT
      <3> QED BY <3>1, <3>2
    <2> QED BY <2>1, <2>3, <2>4 DEF ListMatches
  <1>5. SlotAccounting
    <2>1. Len(lru) = 0 /\ length = 0
      BY DEF Init
    <2>2. stack[1] = MaxLength
      BY <1>2, MaxLengthType
    <2>3. \A i, j \in 1..MaxLength : stack[i] = stack[j] => i = j
      BY <1>2, MaxLengthType
    <2> QED BY <1>2, <2>1, <2>2, <2>3, MaxLengthType DEF SlotAccounting
  <1>6. RoomLeft /\ Requesting
    BY DEF Init, RoomLeft, Requesting, NeverOutOfSlots
  <1> QED BY <1>1, <1>3, <1>4, <1>5, <1>6 DEF IInv, Core

\* Every step preserves it.
LEMMA NextIInv == IInv /\ [Next]_vars => IInv'
  <1> SUFFICES ASSUME IInv, [Next]_vars PROVE IInv'
    OBVIOUS
  <1>0. Core /\ RoomLeft /\ Requesting /\ length \in Nat /\ length < MaxLength
    BY DEF IInv, Core, ListTypeOK, SlotAccounting
  <1>1. ASSUME NEW l \in Labels, NEW a \in Answers, NEW api \in Apis, SetCall(l, a, api)
        PROVE  IInv'
    <2>1. Core'
      BY <1>0, <1>1, CoreUnchanged DEF SetCall, memory
    <2>2. Requesting'
      BY <1>1 DEF SetCall, Requesting
    <2>3. RoomLeft'
      BY <1>0, <1>1, MaxLengthType
         DEF SetCall, RoomLeft, NeverOutOfSlots, is_full, list
    <2> QED BY <2>1, <2>2, <2>3 DEF IInv
  <1>2. CASE PopRecord
    <2> DEFINE vld  == [valid EXCEPT ![last] = FALSE]
               lbl  == data[last].label
               keep == /\ length > 0 /\ valid' = vld
                       /\ stack' = cache_stack_push(last) /\ CutLast
                       /\ UNCHANGED <<pc, req, fault>>
    <2>1. \/ Fail("null_deref")
          \/ Fail("use_after_free")
          \/ \E f \in WalkFaults : Fail(f)
          \/ \E i \in 1..Len(Chain(lbl)) : keep /\ label_hash' = Unlinked(lbl, i)
          \/ keep /\ label_hash' = label_hash
      BY <1>2 DEF PopRecord
    <2>2. CASE keep /\ label_hash' \in [Buckets -> Seq(Slots)]
      <3>1. Core' /\ length' < MaxLength - 1
        BY <1>0, <2>2, PopKeepsCore
      <3>2. RoomLeft'
        BY <1>0, <2>2, <3>1 DEF RoomLeft, NeverOutOfSlots
      <3>3. Requesting'
        BY <1>0, <2>2 DEF Requesting
      <3> QED BY <3>1, <3>2, <3>3 DEF IInv
    <2>3. ASSUME NEW i \in 1..Len(Chain(lbl)), keep, label_hash' = Unlinked(lbl, i)
          PROVE  IInv'
      <3>1. label_hash' \in [Buckets -> Seq(Slots)]
        BY <1>0, <2>3, UnlinkedType DEF Core
      <3> QED BY <2>2, <2>3, <3>1
    <2>4. CASE keep /\ label_hash' = label_hash
      <3>1. label_hash' \in [Buckets -> Seq(Slots)]
        BY <1>0, <2>4 DEF Core, PoolTypeOK
      <3> QED BY <2>2, <2>4, <3>1
    <2>5. ASSUME NEW f \in WalkFaults, Fail(f) PROVE IInv'
      BY <2>5, FailKeepsIInv DEF WalkFaults
    <2>6. CASE Fail("null_deref") \/ Fail("use_after_free")
      BY <2>6, FailKeepsIInv
    <2> HIDE DEF keep
    <2> QED BY <2>1, <2>3, <2>4, <2>5, <2>6
  <1>3. CASE PopReturn
    <2>1. Core'
      BY <1>0, <1>3, CoreUnchanged DEF PopReturn, memory
    <2>2. RoomLeft' /\ Requesting'
      <3>1. MaxLength > 1 => length < MaxLength - 1
        <4>1. LRU_POP_ITEM # 0
          BY CacheAssumption DEF CacheAssumption
        <4> QED BY <1>0, <1>3, <4>1, MaxLengthType DEF PopReturn, RoomLeft
      <3> QED BY <1>0, <1>3, <3>1
              DEF PopReturn, RoomLeft, Requesting, NeverOutOfSlots, list
    <2> QED BY <2>1, <2>2 DEF IInv
  <1>4. CASE PopAgain
    <2>1. Core'
      BY <1>0, <1>4, CoreUnchanged DEF PopAgain, memory
    <2>2. RoomLeft' /\ Requesting'
      BY <1>0, <1>4 DEF PopAgain, RoomLeft, Requesting, NeverOutOfSlots
    <2> QED BY <2>1, <2>2 DEF IInv
  <1>5. CASE InsertFound
    <2>1. req.label \in Labels
      BY <1>0, <1>5 DEF InsertFound, Inserting, Requesting
    <2>2. PICK i \in 1..Len(Chain(req.label)) :
            /\ Finds(valid, req.label, i)
            /\ IF Chain(req.label)[i] = first
               THEN UNCHANGED list
               ELSE MoveToFront(Chain(req.label)[i]) /\ UNCHANGED length
            /\ UNCHANGED <<valid, stack, label_hash>>
            /\ pc' = "idle" /\ fault' = fault
      BY <1>5 DEF InsertFound, Add
    <2>3. Chain(req.label)[i] \in Slots /\ valid[Chain(req.label)[i]]
      BY <1>0, <2>1, <2>2, FoundIsValid DEF Core
    <2>4. Core'
      BY <1>0, <2>2, <2>3, TouchKeepsCore
    <2>5. RoomLeft' /\ Requesting'
      BY <1>0, <2>2 DEF RoomLeft, Requesting, NeverOutOfSlots
    <2> QED BY <2>4, <2>5 DEF IInv
  <1>6. CASE InsertNew
    <2>1. CASE Len(stack) > 1
      <3>1. Core'
        BY <1>0, <1>6, <2>1, InsertKeepsCore DEF InsertNew
      <3>2. pc' = "idle" /\ fault' = fault
        BY <1>6, <2>1 DEF InsertNew, Add
      <3>3. RoomLeft' /\ Requesting'
        BY <1>0, <3>2 DEF RoomLeft, Requesting, NeverOutOfSlots
      <3> QED BY <3>1, <3>3 DEF IInv
    <2>2. CASE ~(Len(stack) > 1)
      <3>1. Fail("exit_no_space") /\ pc = "space"
        BY <1>6, <2>2 DEF InsertNew, Inserting
      <3>2. ~(MaxLength > 1)
        <4>1. Len(stack) \in Nat /\ Len(stack) + length = MaxLength
          BY <1>0 DEF Core, PoolTypeOK, SlotAccounting
        <4>2. ~(length < MaxLength - 1)
          BY <1>0, <2>2, <4>1, MaxLengthType
        <4> QED BY <1>0, <3>1, <4>2 DEF RoomLeft
      <3>3. Core'
        BY <1>0, <3>1, CoreUnchanged DEF Fail, memory
      <3>4. RoomLeft' /\ Requesting'
        BY <1>0, <3>1, <3>2 DEF RoomLeft, Requesting, Fail
      <3> QED BY <3>3, <3>4 DEF IInv
    <2> QED BY <2>1, <2>2
  <1>7. CASE InsertFails
    <2>1. PICK f \in WalkFaults : Fail(f)
      BY <1>7 DEF InsertFails
    <2> QED BY <2>1, FailKeepsIInv DEF WalkFaults
  <1>8. ASSUME NEW l \in Labels, GetHit(l) PROVE IInv'
    <2>1. PICK i \in 1..Len(Chain(l)) :
            /\ Finds(valid, l, i)
            /\ IF Chain(l)[i] = first
               THEN UNCHANGED list
               ELSE MoveToFront(Chain(l)[i]) /\ UNCHANGED length
      BY <1>8 DEF GetHit
    <2>2. UNCHANGED <<valid, stack, label_hash, pc, req, t, fault>>
      BY <1>8 DEF GetHit, memory
    <2>3. Chain(l)[i] \in Slots /\ valid[Chain(l)[i]]
      BY <1>0, <2>1, FoundIsValid DEF Core
    <2>4. Core' /\ length' = length
      BY <1>0, <2>1, <2>2, <2>3, TouchKeepsCore
    <2>5. RoomLeft' /\ Requesting'
      BY <1>0, <2>2, <2>4 DEF RoomLeft, Requesting, NeverOutOfSlots
    <2> QED BY <2>4, <2>5 DEF IInv
  <1>9. ASSUME NEW l \in Labels, GetMiss(l) PROVE IInv'
    <2>1. Core'
      BY <1>0, <1>9, CoreUnchanged DEF GetMiss, memory
    <2>2. RoomLeft' /\ Requesting'
      BY <1>0, <1>9 DEF GetMiss, RoomLeft, Requesting, NeverOutOfSlots, list
    <2> QED BY <2>1, <2>2 DEF IInv
  <1>10. ASSUME NEW l \in Labels, GetExpired(l) PROVE IInv'
    <2>1. PICK i \in 1..Len(Chain(l)) :
            /\ Finds(valid, l, i)
            /\ \/ Fail("use_after_free")
               \/ /\ rnext' = Cut(Chain(l)[i]).rnext /\ rlast' = Cut(Chain(l)[i]).rlast
                  /\ first' = Cut(Chain(l)[i]).first /\ last' = Cut(Chain(l)[i]).last
                  /\ label_hash' = Unlinked(l, i)
                  /\ valid' = [valid EXCEPT ![Chain(l)[i]] = FALSE]
                  /\ length' = length - 1
                  /\ stack' = cache_stack_push(Chain(l)[i])
                  /\ lru' = Without(lru, Chain(l)[i])
                  /\ UNCHANGED <<pc, req, fault>>
                  /\ pc = "idle"
      BY <1>10 DEF GetExpired, Idle
    <2>2. CASE Fail("use_after_free")
      BY <2>2, FailKeepsIInv
    <2>3. CASE ~Fail("use_after_free")
      <3>1. Chain(l)[i] \in Slots /\ valid[Chain(l)[i]]
        BY <1>0, <2>1, FoundIsValid DEF Core
      <3>2. label_hash' \in [Buckets -> Seq(Slots)]
        BY <1>0, <2>1, <2>3, UnlinkedType DEF Core
      <3>3. Core'
        BY <1>0, <2>1, <2>3, <3>1, <3>2, RemoveKeepsCore
      <3>4. RoomLeft' /\ Requesting'
        BY <1>0, <2>1, <2>3 DEF RoomLeft, Requesting, NeverOutOfSlots
      <3> QED BY <3>3, <3>4 DEF IInv
    <2> QED BY <2>2, <2>3
  <1>11. ASSUME NEW l \in Labels, GetFails(l) PROVE IInv'
    <2>1. PICK f \in WalkFaults : Fail(f)
      BY <1>11 DEF GetFails
    <2> QED BY <2>1, FailKeepsIInv DEF WalkFaults
  <1>12. CASE Tick
    <2>1. Core'
      BY <1>0, <1>12, CoreUnchanged DEF Tick, memory
    <2>2. RoomLeft' /\ Requesting'
      BY <1>0, <1>12 DEF Tick, RoomLeft, Requesting, NeverOutOfSlots, list
    <2> QED BY <2>1, <2>2 DEF IInv
  <1>13. CASE Stopped \/ UNCHANGED vars
    <2>1. UNCHANGED vars
      BY <1>13 DEF Stopped
    <2>2. Core'
      BY <1>0, <2>1, CoreUnchanged DEF vars, memory
    <2>3. RoomLeft' /\ Requesting'
      BY <1>0, <2>1 DEF vars, RoomLeft, Requesting, NeverOutOfSlots, list
    <2> QED BY <2>2, <2>3 DEF IInv
  <1> QED BY <1>1, <1>2, <1>3, <1>4, <1>5, <1>6, <1>7, <1>8, <1>9, <1>10, <1>11, <1>12, <1>13
          DEF Next, StoreStep

\* IInv is an invariant of the cache.
LEMMA Invariance == Spec => []IInv
  BY InitIInv, NextIInv, PTL DEF Spec

-----------------------------------------------------------------------------
(***************************************************************************)
(* What follows, for every number of records, of labels and of answers,    *)
(* every hash function and every clock.                                    *)
(***************************************************************************)

\* The links of cache.c's list always lead through the same records forwards
\* and backwards, from Cache->first to Cache->last, and the valid records
\* are those of the list: push_front, get, pop_back and remove_record never
\* break it.
THEOREM ListIsSound == Spec => []ListMatches
  <1>1. IInv => ListMatches
    BY DEF IInv, Core
  <1> QED BY Invariance, <1>1, PTL

\* cache_stack_pop and cache_stack_push never hand out a position that is in
\* use and never lose one; stack_top stays within the array.
THEOREM SlotsAreAccounted == Spec => []SlotAccounting
  <1>1. IInv => SlotAccounting
    BY DEF IInv, Core
  <1> QED BY Invariance, <1>1, PTL

\* With room for at least two records the "no remain space" exit of
\* cache_stack_pop is unreachable.
THEOREM SlotsSuffice == MaxLength > 1 => (Spec => []NeverOutOfSlots)
  <1> SUFFICES ASSUME MaxLength > 1 PROVE Spec => []NeverOutOfSlots
    OBVIOUS
  <1>1. IInv => NeverOutOfSlots
    BY DEF IInv, RoomLeft
  <1> QED BY Invariance, <1>1, PTL

=============================================================================
