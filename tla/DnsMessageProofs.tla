-------------------------- MODULE DnsMessageProofs --------------------------
(***************************************************************************)
(* Proofs about DnsMessage, for every set of requests, of answer sections  *)
(* and of stored records.                                                  *)
(*                                                                         *)
(* Ranges with large bounds keep their names (Octets, Words): the provers  *)
(* enumerate them when they are spelled out.                               *)
(***************************************************************************)
EXTENDS DnsMessage, SequenceFacts

-----------------------------------------------------------------------------
(***************************************************************************)
(* Bytes and words.                                                        *)
(***************************************************************************)
Hi(n) == n \div 256
Lo(n) == n % 256

LEMMA OctetType ==
    ASSUME NEW n
    PROVE  n \in Octets <=> n \in Nat /\ n <= 255
  BY DEF Octets

LEMMA WordType ==
    ASSUME NEW n
    PROVE  n \in Words <=> n \in Nat /\ n <= 65535
  <1>1. MaxWord \in Nat
    BY DEF MaxWord
  <1>2. n \in Words <=> n \in Nat /\ n <= MaxWord
    BY <1>1 DEF Words
  <1> QED BY <1>2 DEF MaxWord

LEMMA Halves ==
    ASSUME NEW n \in Words
    PROVE  /\ Hi(n) \in Octets /\ Lo(n) \in Octets
           /\ n = 256 * Hi(n) + Lo(n)
  <1>1. n \in Nat /\ n <= 65535
    BY WordType
  <1>2. /\ Hi(n) \in Nat /\ Hi(n) <= 255 /\ Lo(n) \in Nat /\ Lo(n) <= 255
        /\ n = 256 * Hi(n) + Lo(n)
    BY <1>1 DEF Hi, Lo
  <1> QED BY <1>2, OctetType

LEMMA WordBytes ==
    ASSUME NEW n \in Words
    PROVE  /\ U16(n) = <<Hi(n), Lo(n)>> /\ U16(n) \in Bytes /\ Len(U16(n)) = 2
           /\ U16(n)[1] = Hi(n) /\ U16(n)[2] = Lo(n)
  <1>1. U16(n) = <<Hi(n), Lo(n)>>
    BY DEF Hi, Lo, U16
  <1>2. Hi(n) \in Octets /\ Lo(n) \in Octets
    BY Halves
  <1> QED BY <1>1, <1>2 DEF Bytes

LEMMA TtlType ==
    ASSUME NEW n
    PROVE  /\ MaxTtl \in Nat
           /\ n \in Ttl <=> n \in Nat /\ n <= MaxTtl
           /\ n \in StoredTtl <=> n \in Int /\ -MaxTtl - 1 <= n /\ n <= MaxTtl
  <1>1. MaxTtl \in Nat
    BY SMT DEF MaxTtl
  <1> QED BY <1>1, SMT DEF Ttl, StoredTtl

\* A ttl is two words.
LEMMA TtlHalves ==
    ASSUME NEW n \in Ttl
    PROVE  /\ n \div 65536 \in Words /\ n % 65536 \in Words
           /\ n = 65536 * (n \div 65536) + (n % 65536)
  <1>1. n \in Nat /\ n <= MaxTtl
    BY TtlType
  <1>2. n <= 65536 * 32767 + 65535
    BY <1>1, SMT DEF MaxTtl
  <1>3. /\ n \div 65536 \in Nat /\ n \div 65536 <= 65535
        /\ n % 65536 \in Nat /\ n % 65536 <= 65535
        /\ n = 65536 * (n \div 65536) + (n % 65536)
    BY <1>1, <1>2, SMT
  <1> QED BY <1>3, WordType

\* Equal halves, equal words.
LEMMA HalvesDetermine ==
    ASSUME NEW m \in Words, NEW n \in Words, Hi(m) = Hi(n), Lo(m) = Lo(n)
    PROVE  m = n
  <1>1. m = 256 * Hi(m) + Lo(m) /\ n = 256 * Hi(n) + Lo(n)
    BY Halves
  <1> QED BY <1>1

\* Four bytes.
LEMMA TtlBytes ==
    ASSUME NEW n \in Ttl
    PROVE  LET h == n \div 65536
               l == n % 65536
           IN  /\ U32(n) \in Bytes /\ Len(U32(n)) = 4
               /\ U32(n)[1] = Hi(h) /\ U32(n)[2] = Lo(h) /\ U32(n)[3] = Hi(l) /\ U32(n)[4] = Lo(l)
  <1>1. PICK h \in Words, l \in Words : h = n \div 65536 /\ l = n % 65536
    BY TtlHalves
  <1>2. PICK s \in Bytes, t \in Bytes :
            /\ s = U16(h) /\ t = U16(l) /\ Len(s) = 2 /\ Len(t) = 2
            /\ s[1] = Hi(h) /\ s[2] = Lo(h) /\ t[1] = Hi(l) /\ t[2] = Lo(l)
    BY WordBytes
  <1>3. /\ s \o t \in Bytes /\ Len(s \o t) = 4 /\ (s \o t)[1] = s[1] /\ (s \o t)[2] = s[2]
        /\ (s \o t)[3] = t[1] /\ (s \o t)[4] = t[2]
    <2>1. s \in Seq(Octets) /\ t \in Seq(Octets)
      BY DEF Bytes
    <2>2. /\ s \o t \in Seq(Octets) /\ Len(s \o t) = Len(s) + Len(t)
          /\ \A i \in 1..Len(s) : (s \o t)[i] = s[i]
          /\ \A i \in 1..Len(t) : (s \o t)[Len(s) + i] = t[i]
      BY <2>1, Join
    <2>3. 1 \in 1..2 /\ 2 \in 1..2 /\ 2 + 1 = 3 /\ 2 + 2 = 4
      OBVIOUS
    <2> QED BY <1>2, <2>2, <2>3 DEF Bytes
  <1>4. U32(n) = s \o t
    BY <1>1, <1>2 DEF U32
  <1> QED BY <1>1, <1>2, <1>3, <1>4

-----------------------------------------------------------------------------
(***************************************************************************)
(* A word at the end of a sequence.                                        *)
(***************************************************************************)
\* t is s and the two bytes of w.
AddsWord(t, s, w) ==
    /\ t \in Bytes /\ Len(t) = Len(s) + 2
    /\ \A i \in 1..Len(s) : t[i] = s[i]
    /\ t[Len(s) + 1] = Hi(w) /\ t[Len(s) + 2] = Lo(w)

LEMMA JoinWord ==
    ASSUME NEW s \in Bytes, NEW w \in Words
    PROVE  AddsWord(s \o U16(w), s, w)
  <1>1. U16(w) = <<Hi(w), Lo(w)>> /\ Hi(w) \in Octets /\ Lo(w) \in Octets
    BY WordBytes, Halves
  <1> QED BY <1>1 DEF Bytes, AddsWord

-----------------------------------------------------------------------------
(***************************************************************************)
(* The header.                                                             *)
(***************************************************************************)
HeaderOf(h, id, flags, an, ad) ==
    /\ h \in Bytes /\ Len(h) = DNS_HEADER_SIZE
    /\ h[1] = Hi(id) /\ h[2] = Lo(id)
    /\ h[3] = Hi(flags) /\ h[4] = Lo(flags)
    /\ h[5] = 0 /\ h[6] = 1
    /\ h[7] = Hi(an) /\ h[8] = Lo(an)
    /\ h[9] = 0 /\ h[10] = 0
    /\ h[11] = Hi(ad) /\ h[12] = Lo(ad)

LEMMA SmallWords ==
    /\ 0 \in Words /\ 1 \in Words /\ Hi(0) = 0 /\ Lo(0) = 0 /\ Hi(1) = 0 /\ Lo(1) = 1
  <1>1. 0 \in Words /\ 1 \in Words
    BY WordType
  <1>2. Hi(0) = 0 /\ Lo(0) = 0 /\ Hi(1) = 0 /\ Lo(1) = 1
    BY DEF Hi, Lo
  <1> QED BY <1>1, <1>2

LEMMA HeaderBytes ==
    ASSUME NEW id \in Words, NEW flags \in Words, NEW an \in Words, NEW ad \in Words
    PROVE  HeaderOf(Header(id, flags, an, ad), id, flags, an, ad)
  <1> DEFINE h1 == U16(id)
             h2 == h1 \o U16(flags)
             h3 == h2 \o U16(1)
             h4 == h3 \o U16(an)
             h5 == h4 \o U16(0)
             h6 == h5 \o U16(ad)
  <1>1. h6 = Header(id, flags, an, ad)
    BY DEF Header
  <1>2. h1 \in Bytes /\ Len(h1) = 2 /\ h1[1] = Hi(id) /\ h1[2] = Lo(id)
    BY WordBytes
  <1> HIDE DEF h1
  <1>3. /\ h2 \in Bytes /\ Len(h2) = 4
        /\ \A i \in 1..2 : h2[i] = h1[i]
        /\ h2[3] = Hi(flags) /\ h2[4] = Lo(flags)
    <2>1. AddsWord(h2, h1, flags)
      BY <1>2, JoinWord
    <2> QED BY <2>1, <1>2 DEF AddsWord
  <1> HIDE DEF h2
  <1>4. /\ h3 \in Bytes /\ Len(h3) = 6
        /\ \A i \in 1..4 : h3[i] = h2[i]
        /\ h3[5] = 0 /\ h3[6] = 1
    <2>1. AddsWord(h3, h2, 1)
      BY <1>3, JoinWord, SmallWords
    <2>2. Hi(1) = 0 /\ Lo(1) = 1
      BY SmallWords
    <2>3. Len(h2) = 4 /\ 4 + 1 = 5 /\ 4 + 2 = 6
      BY <1>3
    <2> QED BY <2>1, <2>2, <2>3 DEF AddsWord
  <1> HIDE DEF h3
  <1>5. /\ h4 \in Bytes /\ Len(h4) = 8
        /\ \A i \in 1..6 : h4[i] = h3[i]
        /\ h4[7] = Hi(an) /\ h4[8] = Lo(an)
    <2>1. AddsWord(h4, h3, an)
      BY <1>4, JoinWord
    <2> QED BY <2>1, <1>4 DEF AddsWord
  <1> HIDE DEF h4
  <1>6. /\ h5 \in Bytes /\ Len(h5) = 10
        /\ \A i \in 1..8 : h5[i] = h4[i]
        /\ h5[9] = 0 /\ h5[10] = 0
    <2>1. AddsWord(h5, h4, 0)
      BY <1>5, JoinWord, SmallWords
    <2>2. Hi(0) = 0 /\ Lo(0) = 0
      BY SmallWords
    <2>3. Len(h4) = 8 /\ 8 + 1 = 9 /\ 8 + 2 = 10
      BY <1>5
    <2> QED BY <2>1, <2>2, <2>3 DEF AddsWord
  <1> HIDE DEF h5
  <1>7. /\ h6 \in Bytes /\ Len(h6) = 12
        /\ \A i \in 1..10 : h6[i] = h5[i]
        /\ h6[11] = Hi(ad) /\ h6[12] = Lo(ad)
    <2>1. AddsWord(h6, h5, ad)
      BY <1>6, JoinWord
    <2> HIDE DEF h6
    <2>2. h6 \in Bytes /\ Len(h6) = 12 /\ \A i \in 1..10 : h6[i] = h5[i]
      BY <2>1, <1>6 DEF AddsWord
    <2>3. h6[11] = Hi(ad) /\ h6[12] = Lo(ad)
      BY <2>1, <1>6 DEF AddsWord
    <2> QED BY <2>2, <2>3
  <1> HIDE DEF h6
  <1>8. HeaderOf(h6, id, flags, an, ad)
    BY <1>2, <1>3, <1>4, <1>5, <1>6, <1>7 DEF HeaderOf, DNS_HEADER_SIZE
  <1> QED BY <1>8, <1>1

-----------------------------------------------------------------------------
(***************************************************************************)
(* Names: a label is its length and its bytes.                             *)
(***************************************************************************)
LEMMA LabelType ==
    ASSUME NEW l \in DnsLabel
    PROVE  /\ l \in Bytes /\ l \in Seq(Octets) /\ Len(l) \in Nat /\ Len(l) >= 1 /\ Len(l) <= 63
           /\ Len(l) \in Octets
           /\ \A i \in 1..Len(l) : l[i] # Dot
  <1>1. l \in Bytes /\ Len(l) >= 1 /\ Len(l) <= 63 /\ \A i \in 1..Len(l) : l[i] # Dot
    BY DEF DnsLabel
  <1>2. Len(l) \in Nat
    BY <1>1 DEF Bytes
  <1> QED BY <1>1, <1>2, OctetType DEF Bytes

LEMMA LengthInByte == ASSUME NEW l \in DnsLabel PROVE Len(l) % 256 = Len(l)
  <1>1. PICK n \in Nat : n = Len(l) /\ n <= 63
    BY LabelType
  <1>2. n % 256 = n
    BY <1>1
  <1> QED BY <1>1, <1>2

Entry(l) == <<Len(l)>> \o l
Entries(labels) == [i \in DOMAIN labels |-> Entry(labels[i])]

LEMMA EntryType ==
    ASSUME NEW l \in DnsLabel
    PROVE  /\ Entry(l) \in Bytes /\ Len(Entry(l)) = Len(l) + 1 /\ Entry(l)[1] = Len(l)
           /\ \A j \in 1..Len(l) : Entry(l)[1 + j] = l[j]
  <1>1. l \in Seq(Octets) /\ Len(l) \in Octets
    BY LabelType
  <1> QED BY <1>1 DEF Entry, Bytes

LEMMA EntriesType ==
    ASSUME NEW labels \in Seq(DnsLabel)
    PROVE  /\ Entries(labels) \in Seq(Bytes) /\ Len(Entries(labels)) = Len(labels)
           /\ \A i \in 1..Len(labels) : Entries(labels)[i] = Entry(labels[i])
           /\ LabelBytes(labels) = FlattenSeq(Entries(labels))
  <1>1. \A i \in 1..Len(labels) : Entry(labels[i]) \in Bytes
    BY EntryType
  <1>2. DOMAIN labels = 1..Len(labels) /\ Len(labels) \in Nat
    OBVIOUS
  <1>3. LabelBytes(labels) = FlattenSeq(Entries(labels))
    BY DEF LabelBytes, Entries, Entry
  <1> QED BY <1>1, <1>2, <1>3 DEF Entries

LEMMA EntriesPrefix ==
    ASSUME NEW labels \in Seq(DnsLabel), NEW k \in 0..Len(labels)
    PROVE  Entries(SubSeq(labels, 1, k)) = SubSeq(Entries(labels), 1, k)
  <1> DEFINE s == SubSeq(labels, 1, k)
             t == SubSeq(Entries(labels), 1, k)
  <1>1. s \in Seq(DnsLabel) /\ Len(s) = k /\ \A i \in 1..k : s[i] = labels[i]
    OBVIOUS
  <1>2. /\ Entries(labels) \in Seq(Bytes) /\ Len(Entries(labels)) = Len(labels)
        /\ \A i \in 1..Len(labels) : Entries(labels)[i] = Entry(labels[i])
    BY EntriesType
  <1>3. t \in Seq(Bytes) /\ Len(t) = k /\ \A i \in 1..k : t[i] = Entry(labels[i])
    BY <1>2
  <1> HIDE DEF s, t
  <1>4. /\ Entries(s) \in Seq(Bytes) /\ Len(Entries(s)) = k
        /\ \A i \in 1..k : Entries(s)[i] = Entry(labels[i])
    BY <1>1, EntriesType
  <1>5. Entries(s) = t
    BY <1>3, <1>4, SameSequence
  <1> QED BY <1>5 DEF s, t

LEMMA LabelBytesType ==
    ASSUME NEW labels \in Seq(DnsLabel)
    PROVE  LabelBytes(labels) \in Bytes
  <1>1. Entries(labels) \in Seq(Seq(Octets)) /\ LabelBytes(labels) = FlattenSeq(Entries(labels))
    BY EntriesType DEF Bytes
  <1> QED BY <1>1, FlattenTyped DEF Bytes

\* The bytes of the first k labels, and where the next label is.
Upto(labels, k) == LabelBytes(SubSeq(labels, 1, k))

NextLabelAt(labels, k, p, l) ==
    /\ p \in Nat /\ p + 1 + Len(l) <= Len(LabelBytes(labels))
    /\ Len(Upto(labels, k + 1)) = p + 1 + Len(l)
    /\ LabelBytes(labels)[p + 1] = Len(l)
    /\ \A j \in 1..Len(l) : LabelBytes(labels)[p + 1 + j] = l[j]

LEMMA UptoStep ==
    ASSUME NEW labels \in Seq(DnsLabel), NEW k \in 0..(Len(labels) - 1)
    PROVE  /\ Upto(labels, k + 1) = Upto(labels, k) \o Entry(labels[k + 1])
           /\ Upto(labels, k) = FlattenSeq(SubSeq(Entries(labels), 1, k))
           /\ Upto(labels, k) \in Bytes
  <1> DEFINE es == Entries(labels)
  <1>1. es \in Seq(Seq(Octets)) /\ Len(es) = Len(labels) /\ es[k + 1] = Entry(labels[k + 1])
    BY EntriesType DEF Bytes
  <1>2. k \in 0..Len(labels) /\ k + 1 \in 0..Len(labels)
    OBVIOUS
  <1>3. SubSeq(labels, 1, k) \in Seq(DnsLabel) /\ SubSeq(labels, 1, k + 1) \in Seq(DnsLabel)
    OBVIOUS
  <1>4. /\ Upto(labels, k) = FlattenSeq(SubSeq(es, 1, k))
        /\ Upto(labels, k + 1) = FlattenSeq(SubSeq(es, 1, k + 1))
    BY <1>2, <1>3, EntriesType, EntriesPrefix DEF Upto
  <1> HIDE DEF es
  <1>5. Upto(labels, k + 1) = Upto(labels, k) \o Entry(labels[k + 1])
    BY <1>1, <1>4, FlattenPrefix
  <1>6. Upto(labels, k) \in Bytes
    BY <1>3, LabelBytesType DEF Upto
  <1> QED BY <1>4, <1>5, <1>6 DEF es

LEMMA NameLayout ==
    ASSUME NEW labels \in Seq(DnsLabel), NEW k \in 0..(Len(labels) - 1)
    PROVE  NextLabelAt(labels, k, Len(Upto(labels, k)), labels[k + 1])
  <1> DEFINE es == Entries(labels)
             l == labels[k + 1]
             p == Len(FlattenSeq(SubSeq(es, 1, k)))
  <1>1. /\ es \in Seq(Seq(Octets)) /\ Len(es) = Len(labels) /\ es[k + 1] = Entry(l)
        /\ LabelBytes(labels) = FlattenSeq(es)
    BY EntriesType DEF Bytes
  <1>2. l \in DnsLabel /\ k \in 0..Len(labels) /\ k + 1 \in 0..Len(labels)
    OBVIOUS
  <1>4. /\ Upto(labels, k + 1) = Upto(labels, k) \o Entry(l)
        /\ Upto(labels, k) = FlattenSeq(SubSeq(es, 1, k)) /\ Upto(labels, k) \in Bytes
    BY UptoStep
  <1>5. /\ Entry(l) \in Bytes /\ Len(Entry(l)) = Len(l) + 1 /\ Entry(l)[1] = Len(l)
        /\ \A j \in 1..Len(l) : Entry(l)[1 + j] = l[j]
        /\ Len(l) \in Nat
    BY <1>2, EntryType, LabelType
  <1> HIDE DEF es, l
  <1>8. p \in Nat /\ p = Len(Upto(labels, k)) /\ Len(Upto(labels, k + 1)) = p + 1 + Len(l)
    BY <1>4, <1>5 DEF Bytes
  <1>9. /\ p + Len(es[k + 1]) <= Len(FlattenSeq(es))
        /\ \A j \in 1..Len(es[k + 1]) : FlattenSeq(es)[p + j] = es[k + 1][j]
    <2>1. k \in 0..(Len(es) - 1)
      BY <1>1
    <2> QED BY <1>1, <2>1, FlattenAt
  <1> HIDE DEF p
  <1>10. /\ p + (Len(l) + 1) <= Len(LabelBytes(labels))
         /\ \A j \in 1..(Len(l) + 1) : LabelBytes(labels)[p + j] = Entry(l)[j]
    BY <1>1, <1>5, <1>9
  <1>11. LabelBytes(labels) \in Bytes
    BY LabelBytesType
  <1>12. p + 1 + Len(l) <= Len(LabelBytes(labels)) /\ LabelBytes(labels)[p + 1] = Len(l)
    <2>1. Len(LabelBytes(labels)) \in Nat
      BY <1>11 DEF Bytes
    <2>2. 1 \in 1..(Len(l) + 1) /\ p + (Len(l) + 1) = p + 1 + Len(l)
      BY <1>5, <1>8
    <2> QED BY <1>5, <1>10, <2>1, <2>2
  <1>13. ASSUME NEW j \in 1..Len(l) PROVE LabelBytes(labels)[p + 1 + j] = l[j]
    <2>1. 1 + j \in 1..(Len(l) + 1) /\ p + (1 + j) = p + 1 + j
      BY <1>5, <1>8
    <2> QED BY <2>1, <1>5, <1>10
  <1>14. NextLabelAt(labels, k, p, l)
    BY <1>8, <1>12, <1>13 DEF NextLabelAt
  <1> QED BY <1>8, <1>14 DEF l

LEMMA NameLayoutEnds ==
    ASSUME NEW labels \in Seq(DnsLabel)
    PROVE  /\ Upto(labels, 0) = <<>> /\ Upto(labels, Len(labels)) = LabelBytes(labels)
           /\ \A k \in 0..Len(labels) : Upto(labels, k) \in Bytes
  <1>1. SubSeq(labels, 1, 0) = <<>> /\ SubSeq(labels, 1, Len(labels)) = labels
    OBVIOUS
  <1>2. \A k \in 0..Len(labels) : SubSeq(labels, 1, k) \in Seq(DnsLabel)
    OBVIOUS
  <1>3. LabelBytes(<<>>) = <<>>
    <2>1. [i \in DOMAIN <<>> |-> <<Len(<<>>[i])>> \o <<>>[i]] = <<>>
      OBVIOUS
    <2> QED BY <2>1, FlattenEmpty DEF LabelBytes
  <1> QED BY <1>1, <1>2, <1>3, LabelBytesType DEF Upto

-----------------------------------------------------------------------------
(***************************************************************************)
(* Messages: a header and the rest.  Numbers are all that is known of the  *)
(* rest here.                                                              *)
(***************************************************************************)
Starts(b, id, flags, an, ad) ==
    /\ b[1] = Hi(id) /\ b[2] = Lo(id) /\ b[3] = Hi(flags) /\ b[4] = Lo(flags)
    /\ b[5] = 0 /\ b[6] = 1 /\ b[7] = Hi(an) /\ b[8] = Lo(an)
    /\ b[9] = 0 /\ b[10] = 0 /\ b[11] = Hi(ad) /\ b[12] = Lo(ad)

GoesOn(b, rest) ==
    Len(b) = 12 + Len(rest) /\ \A i \in 1..Len(rest) : b[12 + i] = rest[i]

MessageOf(b, id, flags, an, ad, rest) ==
    /\ b \in Seq(Nat) /\ rest \in Seq(Nat)
    /\ Starts(b, id, flags, an, ad)
    /\ GoesOn(b, rest)

LEMMA BytesAreNumbers == ASSUME NEW b \in Bytes PROVE b \in Seq(Nat)
  <1>1. \A n \in Octets : n \in Nat
    BY OctetType
  <1> QED BY <1>1 DEF Bytes

LEMMA HeaderAndRest ==
    ASSUME NEW id \in Words, NEW flags \in Words, NEW an \in Words, NEW ad \in Words,
           NEW rest \in Seq(Nat)
    PROVE  MessageOf(Header(id, flags, an, ad) \o rest, id, flags, an, ad, rest)
  <1>1. PICK h \in Seq(Nat) : h = Header(id, flags, an, ad) /\ HeaderOf(h, id, flags, an, ad)
    BY HeaderBytes, BytesAreNumbers DEF HeaderOf
  <1>2. Len(h) = 12
    BY <1>1 DEF HeaderOf, DNS_HEADER_SIZE
  <1>3. PICK b : b = h \o rest
    OBVIOUS
  <1>4. /\ b \in Seq(Nat) /\ Len(b) = Len(h) + Len(rest)
        /\ \A i \in 1..Len(h) : b[i] = h[i]
        /\ \A i \in 1..Len(rest) : b[Len(h) + i] = rest[i]
    BY <1>3, Join
  <1>6. \A i \in {1, 2, 3, 4, 5, 6, 7, 8, 9, 10, 11, 12} : b[i] = h[i]
    <2> SUFFICES ASSUME NEW i \in {1, 2, 3, 4, 5, 6, 7, 8, 9, 10, 11, 12} PROVE b[i] = h[i]
      OBVIOUS
    <2>1. i \in 1..Len(h)
      BY <1>2
    <2> QED BY <2>1, <1>4
  <1>7. Starts(b, id, flags, an, ad)
    BY <1>1, <1>6 DEF Starts, HeaderOf
  <1>5. MessageOf(b, id, flags, an, ad, rest)
    BY <1>2, <1>4, <1>7 DEF MessageOf, GoesOn
  <1> QED BY <1>1, <1>3, <1>5

\* A message of bytes.
LEMMA MessageBytes ==
    ASSUME NEW id \in Words, NEW flags \in Words, NEW an \in Words, NEW ad \in Words,
           NEW rest \in Bytes, NEW b, MessageOf(b, id, flags, an, ad, rest)
    PROVE  b \in Bytes
  <1>1. b \in Seq(Nat) /\ rest \in Seq(Octets) /\ Len(rest) \in Nat /\ Len(b) = 12 + Len(rest)
    BY DEF MessageOf, GoesOn, Bytes
  <1>2. ASSUME NEW i \in 1..12 PROVE b[i] \in Octets
    <2>1. 0 \in Octets /\ 1 \in Octets
      BY OctetType
    <2>2. \A w \in {id, flags, an, ad} : Hi(w) \in Octets /\ Lo(w) \in Octets
      BY Halves
    <2>3. i \in {1, 2, 3, 4, 5, 6, 7, 8, 9, 10, 11, 12}
      OBVIOUS
    <2>4. Starts(b, id, flags, an, ad)
      BY DEF MessageOf
    <2> QED BY <2>1, <2>2, <2>3, <2>4 DEF Starts
  <1>3. ASSUME NEW i \in 1..Len(b), i > 12 PROVE b[i] \in Octets
    <2>1. PICK j \in 1..Len(rest) : i = 12 + j
      <3>1. i - 12 \in 1..Len(rest) /\ i = 12 + (i - 12)
        BY <1>1, <1>3
      <3> QED BY <3>1
    <2>2. b[12 + j] = rest[j]
      BY DEF MessageOf, GoesOn
    <2> QED BY <1>1, <2>1, <2>2
  <1>4. ASSUME NEW i \in 1..Len(b) PROVE b[i] \in Octets
    <2>1. i \in 1..12 \/ i > 12
      BY <1>1
    <2> QED BY <2>1, <1>2, <1>3
  <1> QED BY <1>1, <1>4 DEF Bytes

\* The header and the rest determine the message.
LEMMA OneMessage ==
    ASSUME NEW id, NEW flags, NEW an, NEW ad, NEW rest, NEW b, NEW c,
           MessageOf(b, id, flags, an, ad, rest), MessageOf(c, id, flags, an, ad, rest)
    PROVE  b = c
  <1>1. b \in Seq(Nat) /\ c \in Seq(Nat) /\ Len(b) = Len(c) /\ Len(b) = 12 + Len(rest)
        /\ Len(rest) \in Nat
    BY DEF MessageOf, GoesOn
  <1>2. \A i \in {1, 2, 3, 4, 5, 6, 7, 8, 9, 10, 11, 12} : b[i] = c[i]
    BY DEF MessageOf, Starts
  <1>3. ASSUME NEW i \in 1..Len(b) PROVE b[i] = c[i]
    <2>1. CASE i <= 12
      <3>1. i \in {1, 2, 3, 4, 5, 6, 7, 8, 9, 10, 11, 12}
        BY <2>1
      <3> QED BY <3>1, <1>2
    <2>2. CASE i > 12
      <3>1. PICK j \in 1..Len(rest) : i = 12 + j
        <4>1. i - 12 \in 1..Len(rest) /\ i = 12 + (i - 12)
          BY <2>2, <1>1
        <4> QED BY <4>1
      <3>2. b[12 + j] = rest[j] /\ c[12 + j] = rest[j]
        BY DEF MessageOf, GoesOn
      <3> QED BY <3>1, <3>2
    <2> QED BY <2>1, <2>2, <1>1
  <1> QED BY <1>1, <1>3, SameSequence

SetsWord(c, b, p, w) ==
    /\ c \in Seq(Nat) /\ Len(c) = Len(b)
    /\ c[p + 1] = Hi(w) /\ c[p + 2] = Lo(w)
    /\ \A i \in 1..Len(b) : i # p + 1 /\ i # p + 2 => c[i] = b[i]

LEMMA SetWordFacts ==
    ASSUME NEW b \in Seq(Nat), NEW p \in Nat, p + 2 <= Len(b), NEW w \in Words
    PROVE  SetsWord(SetWord(b, p, w), b, p, w)
  <1>1. Hi(w) \in Nat /\ Lo(w) \in Nat
    BY Halves, OctetType
  <1>2. SetWord(b, p, w) = [b EXCEPT ![p + 1] = Hi(w), ![p + 2] = Lo(w)]
    BY DEF SetWord, Hi, Lo
  <1>3. p + 1 \in 1..Len(b) /\ p + 2 \in 1..Len(b) /\ p + 1 # p + 2
    OBVIOUS
  <1> QED BY <1>1, <1>2, <1>3 DEF SetsWord

LEMMA RestKept ==
    ASSUME NEW b, NEW c, NEW p \in 0..10, NEW w, NEW rest \in Seq(Nat), SetsWord(c, b, p, w),
           GoesOn(b, rest)
    PROVE  GoesOn(c, rest)
  <1>1. Len(c) = 12 + Len(rest) /\ Len(b) = 12 + Len(rest)
    BY DEF GoesOn, SetsWord
  <1>2. ASSUME NEW i \in 1..Len(rest) PROVE c[12 + i] = rest[i]
    <2>1. 12 + i \in 1..Len(b) /\ 12 + i # p + 1 /\ 12 + i # p + 2
      BY <1>1
    <2> QED BY <2>1 DEF SetsWord, GoesOn
  <1> QED BY <1>1, <1>2 DEF GoesOn

LEMMA HeaderKept ==
    ASSUME NEW b, NEW c, NEW p \in Nat, NEW w, SetsWord(c, b, p, w),
           Len(b) \in Nat, Len(b) >= 12, NEW i \in 1..12, i # p + 1, i # p + 2
    PROVE  c[i] = b[i]
  <1>1. i \in 1..Len(b)
    OBVIOUS
  <1>2. \A j \in 1..Len(b) : j # p + 1 /\ j # p + 2 => c[j] = b[j]
    BY DEF SetsWord
  <1> QED BY <1>1, <1>2

LEMMA SetId ==
    ASSUME NEW b, NEW id, NEW flags, NEW an, NEW ad, NEW rest, NEW w \in Words,
           MessageOf(b, id, flags, an, ad, rest)
    PROVE  MessageOf(set_header_id(b, w), w, flags, an, ad, rest)
  <1>1. b \in Seq(Nat) /\ Len(b) = 12 + Len(rest) /\ Len(rest) \in Nat
    BY DEF MessageOf, GoesOn
  <1>2. PICK c : c = set_header_id(b, w) /\ SetsWord(c, b, 0, w)
    BY <1>1, SetWordFacts DEF set_header_id
  <1>3. \A i \in {3, 4, 5, 6, 7, 8, 9, 10, 11, 12} : c[i] = b[i]
    <2>1. Len(b) \in Nat /\ Len(b) >= 12 /\ 0 \in Nat
      BY <1>1
    <2> SUFFICES ASSUME NEW i \in {3, 4, 5, 6, 7, 8, 9, 10, 11, 12} PROVE c[i] = b[i]
      OBVIOUS
    <2>2. i \in 1..12 /\ i # 0 + 1 /\ i # 0 + 2
      OBVIOUS
    <2> QED BY <1>2, <2>1, <2>2, HeaderKept
  <1>4. Starts(c, w, flags, an, ad)
    <2>1. c[1] = Hi(w) /\ c[2] = Lo(w)
      BY <1>2 DEF SetsWord
    <2>2. Starts(b, id, flags, an, ad)
      BY DEF MessageOf, GoesOn
    <2> QED BY <2>1, <2>2, <1>3 DEF Starts
  <1>5. MessageOf(c, w, flags, an, ad, rest)
    <2>1. rest \in Seq(Nat) /\ GoesOn(b, rest)
      BY DEF MessageOf, GoesOn
    <2>2. GoesOn(c, rest)
      <3>1. 0 \in 0..10
        OBVIOUS
      <3> QED BY <1>2, <2>1, <3>1, RestKept
    <2>3. c \in Seq(Nat)
      BY <1>2 DEF SetsWord
    <2> QED BY <1>4, <2>1, <2>2, <2>3 DEF MessageOf
  <1> QED BY <1>2, <1>5

LEMMA SetFlag ==
    ASSUME NEW b, NEW id, NEW flags, NEW an, NEW ad, NEW rest, NEW w \in Words,
           MessageOf(b, id, flags, an, ad, rest)
    PROVE  MessageOf(set_header_flag(b, w), id, w, an, ad, rest)
  <1>1. b \in Seq(Nat) /\ Len(b) = 12 + Len(rest) /\ Len(rest) \in Nat
    BY DEF MessageOf, GoesOn
  <1>2. PICK c : c = set_header_flag(b, w) /\ SetsWord(c, b, 2, w)
    BY <1>1, SetWordFacts DEF set_header_flag
  <1>3. \A i \in {1, 2, 5, 6, 7, 8, 9, 10, 11, 12} : c[i] = b[i]
    <2>1. Len(b) \in Nat /\ Len(b) >= 12 /\ 2 \in Nat
      BY <1>1
    <2> SUFFICES ASSUME NEW i \in {1, 2, 5, 6, 7, 8, 9, 10, 11, 12} PROVE c[i] = b[i]
      OBVIOUS
    <2>2. i \in 1..12 /\ i # 2 + 1 /\ i # 2 + 2
      OBVIOUS
    <2> QED BY <1>2, <2>1, <2>2, HeaderKept
  <1>4. Starts(c, id, w, an, ad)
    <2>1. c[3] = Hi(w) /\ c[4] = Lo(w)
      BY <1>2 DEF SetsWord
    <2>2. Starts(b, id, flags, an, ad)
      BY DEF MessageOf, GoesOn
    <2> QED BY <2>1, <2>2, <1>3 DEF Starts
  <1>5. MessageOf(c, id, w, an, ad, rest)
    <2>1. rest \in Seq(Nat) /\ GoesOn(b, rest)
      BY DEF MessageOf, GoesOn
    <2>2. GoesOn(c, rest)
      <3>1. 2 \in 0..10
        OBVIOUS
      <3> QED BY <1>2, <2>1, <3>1, RestKept
    <2>3. c \in Seq(Nat)
      BY <1>2 DEF SetsWord
    <2> QED BY <1>4, <2>1, <2>2, <2>3 DEF MessageOf
  <1> QED BY <1>2, <1>5

LEMMA SetAnswerCount ==
    ASSUME NEW b, NEW id, NEW flags, NEW an, NEW ad, NEW rest, NEW w \in Words,
           MessageOf(b, id, flags, an, ad, rest)
    PROVE  MessageOf(SetWord(b, 6, w), id, flags, w, ad, rest)
  <1>1. b \in Seq(Nat) /\ Len(b) = 12 + Len(rest) /\ Len(rest) \in Nat
    BY DEF MessageOf, GoesOn
  <1>2. PICK c : c = SetWord(b, 6, w) /\ SetsWord(c, b, 6, w)
    BY <1>1, SetWordFacts
  <1>3. \A i \in {1, 2, 3, 4, 5, 6, 9, 10, 11, 12} : c[i] = b[i]
    <2>1. Len(b) \in Nat /\ Len(b) >= 12 /\ 6 \in Nat
      BY <1>1
    <2> SUFFICES ASSUME NEW i \in {1, 2, 3, 4, 5, 6, 9, 10, 11, 12} PROVE c[i] = b[i]
      OBVIOUS
    <2>2. i \in 1..12 /\ i # 6 + 1 /\ i # 6 + 2
      OBVIOUS
    <2> QED BY <1>2, <2>1, <2>2, HeaderKept
  <1>4. Starts(c, id, flags, w, ad)
    <2>1. c[7] = Hi(w) /\ c[8] = Lo(w)
      BY <1>2 DEF SetsWord
    <2>2. Starts(b, id, flags, an, ad)
      BY DEF MessageOf, GoesOn
    <2> QED BY <2>1, <2>2, <1>3 DEF Starts
  <1>5. MessageOf(c, id, flags, w, ad, rest)
    <2>1. rest \in Seq(Nat) /\ GoesOn(b, rest)
      BY DEF MessageOf, GoesOn
    <2>2. GoesOn(c, rest)
      <3>1. 6 \in 0..10
        OBVIOUS
      <3> QED BY <1>2, <2>1, <3>1, RestKept
    <2>3. c \in Seq(Nat)
      BY <1>2 DEF SetsWord
    <2> QED BY <1>4, <2>1, <2>2, <2>3 DEF MessageOf
  <1> QED BY <1>2, <1>5

\* The flags of the outcomes.
LEMMA ResponseFlags ==
    ASSUME NEW rcode \in {RCODE_NAME_ERROR, RCODE_REFUSED}
    PROVE  /\ FLAG_RESPONSE_NORMAL \in Words /\ FLAG_RESPONSE_NORMAL + rcode \in Words
           /\ Lo(FLAG_RESPONSE_NORMAL) = 0
           /\ Hi(FLAG_RESPONSE_NORMAL + rcode) = 128 /\ Hi(FLAG_RESPONSE_NORMAL) = 128
           /\ Lo(FLAG_RESPONSE_NORMAL + rcode) = rcode /\ rcode \in Nat
  <1>1. CASE rcode = 3
    <2>1. FLAG_RESPONSE_NORMAL = 32768 /\ FLAG_RESPONSE_NORMAL + rcode = 32771
      BY <1>1 DEF FLAG_RESPONSE_NORMAL
    <2>2. 32768 \in Words /\ 32771 \in Words
      BY WordType
    <2>3. Hi(32768) = 128 /\ Lo(32768) = 0 /\ Hi(32771) = 128 /\ Lo(32771) = 3
      BY DEF Hi, Lo
    <2> QED BY <1>1, <2>1, <2>2, <2>3
  <1>2. CASE rcode = 5
    <2>1. FLAG_RESPONSE_NORMAL = 32768 /\ FLAG_RESPONSE_NORMAL + rcode = 32773
      BY <1>2 DEF FLAG_RESPONSE_NORMAL
    <2>2. 32768 \in Words /\ 32773 \in Words
      BY WordType
    <2>3. Hi(32768) = 128 /\ Lo(32768) = 0 /\ Hi(32773) = 128 /\ Lo(32773) = 5
      BY DEF Hi, Lo
    <2> QED BY <1>2, <2>1, <2>2, <2>3
  <1> QED BY <1>1, <1>2 DEF RCODE_NAME_ERROR, RCODE_REFUSED

\* Respond leaves the id, the question and the counts alone.
LEMMA RespondFacts ==
    ASSUME NEW b, NEW id, NEW flags, NEW an, NEW ad, NEW rest,
           NEW rcode \in {RCODE_NAME_ERROR, RCODE_REFUSED},
           MessageOf(b, id, flags, an, ad, rest)
    PROVE  MessageOf(Respond(b, rcode), id, FLAG_RESPONSE_NORMAL + rcode, an, ad, rest)
  <1>1. PICK c : /\ c = set_header_flag(b, FLAG_RESPONSE_NORMAL)
                 /\ MessageOf(c, id, FLAG_RESPONSE_NORMAL, an, ad, rest)
    BY SetFlag, ResponseFlags
  <1>2. c \in Seq(Nat) /\ Len(c) = 12 + Len(rest) /\ c[4] = 0 /\ Len(rest) \in Nat
    <2>1. Lo(FLAG_RESPONSE_NORMAL) = 0
      BY ResponseFlags
    <2> QED BY <1>1, <2>1 DEF MessageOf, Starts, GoesOn
  <1>3. 16 * (c[4] \div 16) + rcode = rcode
    <2>1. 0 \div 16 = 0
      OBVIOUS
    <2> QED BY <1>2, <2>1, ResponseFlags
  <1>4. Respond(b, rcode) = [c EXCEPT ![4] = rcode]
    BY <1>1, <1>3 DEF Respond, set_header_rcode
  <1>5. PICK d : d = [c EXCEPT ![4] = rcode]
    OBVIOUS
  <1>6. d \in Seq(Nat) /\ Len(d) = Len(c) /\ d[4] = rcode /\ \A i \in 1..Len(c) : i # 4 => d[i] = c[i]
    BY <1>2, <1>5, ResponseFlags
  <1>7. Starts(d, id, FLAG_RESPONSE_NORMAL + rcode, an, ad)
    <2>1. \A i \in {1, 2, 3, 5, 6, 7, 8, 9, 10, 11, 12} : d[i] = c[i]
      BY <1>2, <1>6
    <2>2. Starts(c, id, FLAG_RESPONSE_NORMAL, an, ad)
      BY <1>1 DEF MessageOf
    <2>3. /\ Hi(FLAG_RESPONSE_NORMAL + rcode) = Hi(FLAG_RESPONSE_NORMAL)
          /\ Lo(FLAG_RESPONSE_NORMAL + rcode) = rcode
      BY ResponseFlags
    <2> QED BY <2>1, <2>2, <2>3, <1>6 DEF Starts
  <1>8. \A i \in 1..Len(rest) : d[12 + i] = rest[i]
    <2> SUFFICES ASSUME NEW i \in 1..Len(rest) PROVE d[12 + i] = rest[i]
      OBVIOUS
    <2>1. 12 + i \in 1..Len(c) /\ 12 + i # 4
      BY <1>2
    <2>2. c[12 + i] = rest[i]
      BY <1>1 DEF MessageOf, GoesOn
    <2> QED BY <2>1, <2>2, <1>6
  <1>9. MessageOf(d, id, FLAG_RESPONSE_NORMAL + rcode, an, ad, rest)
    BY <1>1, <1>2, <1>6, <1>7, <1>8 DEF MessageOf, GoesOn
  <1> QED BY <1>4, <1>5, <1>9

-----------------------------------------------------------------------------
(***************************************************************************)
(* The question, and a message without answers.                            *)
(***************************************************************************)
LEMMA OneByte == ASSUME NEW x PROVE x \in Octets => <<x>> \in Bytes /\ Len(<<x>>) = 1 /\ <<x>>[1] = x
  BY DEF Bytes

\* q is the name, a zero byte, the type and the class.
QuestionOf(q, qname, qtype) ==
    LET n == Len(LabelBytes(qname))
    IN  /\ q \in Bytes /\ n \in Nat /\ Len(q) = n + 5
        /\ \A i \in 1..n : q[i] = LabelBytes(qname)[i]
        /\ q[n + 1] = 0
        /\ q[n + 2] = Hi(qtype) /\ q[n + 3] = Lo(qtype)
        /\ q[n + 4] = 0 /\ q[n + 5] = 1

QuestionFor(qname, qtype) == LabelBytes(qname) \o <<0>> \o U16(qtype) \o U16(HTTP_CLASS)

LEMMA QuestionLayout ==
    ASSUME NEW qname \in Seq(DnsLabel), NEW qtype \in Words
    PROVE  QuestionOf(QuestionFor(qname, qtype), qname, qtype)
  <1> DEFINE b == LabelBytes(qname)
             n == Len(b)
             q1 == b \o <<0>>
             q2 == q1 \o U16(qtype)
             q3 == q2 \o U16(1)
  <1>1. q3 = QuestionFor(qname, qtype)
    BY DEF QuestionFor, HTTP_CLASS
  <1>2. b \in Bytes /\ n \in Nat
    BY LabelBytesType DEF Bytes
  <1> HIDE DEF b
  <1>3. q1 \in Bytes /\ Len(q1) = n + 1 /\ q1[n + 1] = 0 /\ \A i \in 1..n : q1[i] = b[i]
    <2>1. 0 \in Octets
      BY OctetType
    <2> QED BY <1>2, <2>1 DEF Bytes
  <1> HIDE DEF n, q1
  <1>4. AddsWord(q2, q1, qtype)
    BY <1>3, JoinWord
  <1> HIDE DEF q2
  <1>5. /\ q2 \in Bytes /\ Len(q2) = n + 3 /\ q2[n + 2] = Hi(qtype) /\ q2[n + 3] = Lo(qtype)
        /\ \A i \in 1..(n + 1) : q2[i] = q1[i]
    BY <1>2, <1>3, <1>4 DEF AddsWord
  <1>6. AddsWord(q3, q2, 1)
    BY <1>5, JoinWord, SmallWords
  <1> HIDE DEF q3
  <1>7. /\ q3 \in Bytes /\ Len(q3) = n + 5 /\ q3[n + 4] = 0 /\ q3[n + 5] = 1
        /\ \A i \in 1..(n + 3) : q3[i] = q2[i]
    BY <1>2, <1>5, <1>6, SmallWords DEF AddsWord
  <1>8. \A i \in 1..n : q3[i] = b[i]
    BY <1>2, <1>3, <1>5, <1>7
  <1>9. q3[n + 1] = 0 /\ q3[n + 2] = Hi(qtype) /\ q3[n + 3] = Lo(qtype)
    BY <1>2, <1>3, <1>5, <1>7
  <1>10. QuestionOf(q3, qname, qtype)
    BY <1>2, <1>7, <1>8, <1>9 DEF QuestionOf, n, b
  <1> QED BY <1>1, <1>10

\* Messages without answers, and what follows their header.
Bare == [id : Words, flags : Words, qname : Seq(DnsLabel), qtype : Words, opt : {0, 1},
         answers : {<<>>}]
Opt(opt) == IF opt = 1 THEN OptBytes ELSE <<>>
Rest(m) == QuestionFor(m.qname, m.qtype) \o Opt(m.opt)

LEMMA OptType == ASSUME NEW opt PROVE Opt(opt) \in Bytes
  <1>1. {0, 4, 41, 208} \subseteq Octets
    BY OctetType
  <1>2. OptBytes \in Bytes
    BY <1>1 DEF OptBytes, Bytes
  <1> QED BY <1>2 DEF Opt, Bytes

LEMMA RestType ==
    ASSUME NEW m \in Bare
    PROVE  Rest(m) \in Bytes /\ Rest(m) \in Seq(Nat)
  <1>1. m.qname \in Seq(DnsLabel) /\ m.qtype \in Words
    BY DEF Bare
  <1>2. QuestionFor(m.qname, m.qtype) \in Bytes
    BY <1>1, QuestionLayout DEF QuestionOf
  <1>3. Rest(m) \in Bytes
    BY <1>2, OptType DEF Rest, Bytes
  <1> QED BY <1>3, BytesAreNumbers

LEMMA EncodeBare ==
    ASSUME NEW m \in Bare
    PROVE  /\ Encode(m) = Header(m.id, m.flags, 0, m.opt) \o Rest(m)
           /\ MessageOf(Encode(m), m.id, m.flags, 0, m.opt, Rest(m))
           /\ Encode(m) \in Bytes
  <1>1. /\ m.id \in Words /\ m.flags \in Words /\ m.qname \in Seq(DnsLabel) /\ m.qtype \in Words
        /\ m.answers = <<>> /\ m.opt \in {0, 1}
    BY DEF Bare
  <1>2. PICK h \in Bytes : h = Header(m.id, m.flags, 0, m.opt)
    BY <1>1, HeaderBytes, SmallWords DEF HeaderOf
  <1>3. PICK q \in Bytes : q = QuestionFor(m.qname, m.qtype) /\ q = QuestionBytes(m)
    BY <1>1, QuestionLayout DEF QuestionOf, QuestionFor, QuestionBytes
  <1>4. FlattenSeq([i \in DOMAIN m.answers |-> AnswerBytes(m, m.answers[i])]) = <<>>
    <2>1. [i \in DOMAIN m.answers |-> AnswerBytes(m, m.answers[i])] = <<>>
      BY <1>1
    <2> QED BY <2>1, FlattenEmpty
  <1>5. PICK o \in Bytes : o = Opt(m.opt)
    BY OptType
  <1>6. Encode(m) = h \o q \o <<>> \o o
    <2>1. Len(m.answers) = 0
      BY <1>1
    <2> QED BY <1>2, <1>3, <1>4, <1>5, <2>1 DEF Encode, Opt
  <1>7. h \o q \o <<>> \o o = h \o (q \o o)
    BY DEF Bytes
  <1>8. Encode(m) = Header(m.id, m.flags, 0, m.opt) \o Rest(m)
    BY <1>2, <1>3, <1>5, <1>6, <1>7 DEF Rest
  <1>9. m.opt \in Words /\ 0 \in Words
    BY <1>1, SmallWords
  <1>10. MessageOf(Header(m.id, m.flags, 0, m.opt) \o Rest(m), m.id, m.flags, 0, m.opt, Rest(m))
    BY <1>1, <1>9, RestType, HeaderAndRest
  <1>11. h \o (q \o o) \in Bytes
    BY DEF Bytes
  <1> QED BY <1>8, <1>10, <1>11, <1>6, <1>7

-----------------------------------------------------------------------------
(***************************************************************************)
(* The text of a name: what fetch_label writes is each label and a dot,    *)
(* and the last dot is dropped in the end.                                 *)
(***************************************************************************)
Spellings(labels) == [i \in DOMAIN labels |-> labels[i] \o <<Dot>>]
SpeltUpto(labels, k) == FlattenSeq(SubSeq(Spellings(labels), 1, k))
Parts(labels) == [i \in DOMAIN labels |-> IF i = 1 THEN labels[i] ELSE <<Dot>> \o labels[i]]
DottedUpto(labels, k) == FlattenSeq(SubSeq(Parts(labels), 1, k))

LEMMA DotType == Dot \in Octets /\ <<Dot>> \in Bytes /\ Len(<<Dot>>) = 1
  <1>1. Dot \in Octets
    BY OctetType DEF Dot
  <1> QED BY <1>1 DEF Bytes

LEMMA SpellingsType ==
    ASSUME NEW labels \in Seq(DnsLabel)
    PROVE  /\ Spellings(labels) \in Seq(Seq(Octets)) /\ Len(Spellings(labels)) = Len(labels)
           /\ \A i \in 1..Len(labels) : Spellings(labels)[i] = labels[i] \o <<Dot>>
           /\ Parts(labels) \in Seq(Seq(Octets)) /\ Len(Parts(labels)) = Len(labels)
           /\ \A i \in 1..Len(labels) :
                  Parts(labels)[i] = IF i = 1 THEN labels[i] ELSE <<Dot>> \o labels[i]
           /\ Dotted(labels) = FlattenSeq(Parts(labels))
  <1>1. \A i \in 1..Len(labels) : labels[i] \in Seq(Octets)
    BY LabelType
  <1>2. DOMAIN labels = 1..Len(labels) /\ Len(labels) \in Nat
    OBVIOUS
  <1>3. <<Dot>> \in Seq(Octets)
    BY DotType DEF Bytes
  <1>4. /\ \A i \in 1..Len(labels) : labels[i] \o <<Dot>> \in Seq(Octets)
        /\ \A i \in 1..Len(labels) :
               (IF i = 1 THEN labels[i] ELSE <<Dot>> \o labels[i]) \in Seq(Octets)
    BY <1>1, <1>3
  <1>5. Dotted(labels) = FlattenSeq(Parts(labels))
    BY DEF Dotted, Parts
  <1>6. /\ Spellings(labels) \in Seq(Seq(Octets)) /\ Len(Spellings(labels)) = Len(labels)
        /\ \A i \in 1..Len(labels) : Spellings(labels)[i] = labels[i] \o <<Dot>>
    BY <1>2, <1>4 DEF Spellings
  <1>7. /\ Parts(labels) \in Seq(Seq(Octets)) /\ Len(Parts(labels)) = Len(labels)
        /\ \A i \in 1..Len(labels) :
               Parts(labels)[i] = IF i = 1 THEN labels[i] ELSE <<Dot>> \o labels[i]
    BY <1>2, <1>4 DEF Parts
  <1> QED BY <1>5, <1>6, <1>7

LEMMA SpeltSteps ==
    ASSUME NEW labels \in Seq(DnsLabel)
    PROVE  /\ SpeltUpto(labels, 0) = <<>> /\ DottedUpto(labels, 0) = <<>>
           /\ \A k \in 0..Len(labels) :
                  SpeltUpto(labels, k) \in Seq(Octets) /\ DottedUpto(labels, k) \in Seq(Octets)
           /\ \A k \in 0..(Len(labels) - 1) :
                  /\ SpeltUpto(labels, k + 1) = SpeltUpto(labels, k) \o (labels[k + 1] \o <<Dot>>)
                  /\ DottedUpto(labels, k + 1) = DottedUpto(labels, k) \o
                         (IF k = 0 THEN labels[k + 1] ELSE <<Dot>> \o labels[k + 1])
           /\ DottedUpto(labels, Len(labels)) = Dotted(labels)
  <1> DEFINE s == Spellings(labels)
             d == Parts(labels)
  <1>1. /\ s \in Seq(Seq(Octets)) /\ Len(s) = Len(labels)
        /\ \A i \in 1..Len(labels) : s[i] = labels[i] \o <<Dot>>
        /\ d \in Seq(Seq(Octets)) /\ Len(d) = Len(labels)
        /\ \A i \in 1..Len(labels) : d[i] = IF i = 1 THEN labels[i] ELSE <<Dot>> \o labels[i]
        /\ Dotted(labels) = FlattenSeq(d)
    BY SpellingsType
  <1> HIDE DEF s, d
  <1>2. SubSeq(s, 1, 0) = <<>> /\ SubSeq(d, 1, 0) = <<>> /\ SubSeq(d, 1, Len(labels)) = d
    BY <1>1
  <1>3. SpeltUpto(labels, 0) = <<>> /\ DottedUpto(labels, 0) = <<>>
        /\ DottedUpto(labels, Len(labels)) = Dotted(labels)
    BY <1>1, <1>2, FlattenEmpty DEF SpeltUpto, DottedUpto, s, d
  <1>4. ASSUME NEW k \in 0..Len(labels)
        PROVE  SpeltUpto(labels, k) \in Seq(Octets) /\ DottedUpto(labels, k) \in Seq(Octets)
    <2>1. SubSeq(s, 1, k) \in Seq(Seq(Octets)) /\ SubSeq(d, 1, k) \in Seq(Seq(Octets))
      BY <1>1
    <2>2. FlattenSeq(SubSeq(s, 1, k)) \in Seq(Octets) /\ FlattenSeq(SubSeq(d, 1, k)) \in Seq(Octets)
      BY <2>1, FlattenTyped
    <2> QED BY <2>2 DEF SpeltUpto, DottedUpto, s, d
  <1>5. ASSUME NEW k \in 0..(Len(labels) - 1)
        PROVE  /\ SpeltUpto(labels, k + 1) = SpeltUpto(labels, k) \o (labels[k + 1] \o <<Dot>>)
               /\ DottedUpto(labels, k + 1) = DottedUpto(labels, k) \o
                      (IF k = 0 THEN labels[k + 1] ELSE <<Dot>> \o labels[k + 1])
    <2>1. /\ k \in 0..(Len(s) - 1) /\ k \in 0..(Len(d) - 1) /\ k + 1 \in 1..Len(labels)
          /\ (k + 1 = 1 <=> k = 0)
      BY <1>1
    <2>2. FlattenSeq(SubSeq(s, 1, k + 1)) = FlattenSeq(SubSeq(s, 1, k)) \o s[k + 1]
      BY <1>1, <2>1, FlattenPrefix
    <2>3. FlattenSeq(SubSeq(d, 1, k + 1)) = FlattenSeq(SubSeq(d, 1, k)) \o d[k + 1]
      BY <1>1, <2>1, FlattenPrefix
    <2>4. /\ s[k + 1] = labels[k + 1] \o <<Dot>>
          /\ d[k + 1] = IF k = 0 THEN labels[k + 1] ELSE <<Dot>> \o labels[k + 1]
      BY <1>1, <2>1
    <2> QED BY <2>2, <2>3, <2>4 DEF SpeltUpto, DottedUpto, s, d
  <1> QED BY <1>3, <1>4, <1>5

LEMMA BytesJoin ==
    ASSUME NEW s \in Bytes, NEW t \in Bytes, NEW u \in Bytes
    PROVE  (s \o t) \o u = s \o (t \o u) /\ s \o t \in Bytes /\ Len(s) \in Nat
           /\ Len(s \o t) = Len(s) + Len(t)
  BY DEF Bytes

\* A dot between two labels may be written with either.
LEMMA DotMoves ==
    ASSUME NEW b \in Bytes, NEW o \in Bytes, NEW l \in Bytes
    PROVE  (b \o (o \o l)) \o o = (b \o o) \o (l \o o)
  <1>1. b \o (o \o l) = (b \o o) \o l
    BY BytesJoin
  <1>2. PICK c \in Bytes : c = b \o o
    BY BytesJoin
  <1>3. (c \o l) \o o = c \o (l \o o)
    BY BytesJoin
  <1> QED BY <1>1, <1>2, <1>3

\* The two spellings differ by the last dot.
LEMMA SpeltIsDotted ==
    ASSUME NEW labels \in Seq(DnsLabel), NEW k \in 1..Len(labels)
    PROVE  SpeltUpto(labels, k) = DottedUpto(labels, k) \o <<Dot>>
  <1> DEFINE S(n) == SpeltUpto(labels, n)
             D(n) == DottedUpto(labels, n)
             Good == {n \in Nat : n \in 1..Len(labels) => S(n) = D(n) \o <<Dot>>}
  <1>1. 0 \in Good
    OBVIOUS
  <1>2. ASSUME NEW n \in Nat, n \in Good PROVE n + 1 \in Good
    <2> SUFFICES ASSUME n + 1 \in 1..Len(labels) PROVE S(n + 1) = D(n + 1) \o <<Dot>>
      OBVIOUS
    <2>1. n \in 0..(Len(labels) - 1) /\ n \in 0..Len(labels)
      OBVIOUS
    <2>2. PICK l \in Seq(Octets) : l = labels[n + 1]
      BY LabelType
    <2>3. PICK o \in Seq(Octets) : o = <<Dot>>
      BY DotType DEF Bytes
    <2>4. PICK a \in Seq(Octets), b \in Seq(Octets) : a = S(n) /\ b = D(n)
      BY <2>1, SpeltSteps
    <2>5. S(n + 1) = a \o (l \o o) /\ D(n + 1) = b \o (IF n = 0 THEN l ELSE o \o l)
      BY <2>1, <2>2, <2>3, <2>4, SpeltSteps
    <2>6. CASE n = 0
      <3>1. a = <<>> /\ b = <<>>
        BY <2>4, <2>6, SpeltSteps
      <3>2. S(n + 1) = l \o o /\ D(n + 1) = l
        BY <2>5, <2>6, <3>1, JoinEmpty
      <3> QED BY <2>3, <3>2
    <2>7. CASE n # 0
      <3>1. n \in 1..Len(labels)
        BY <2>1, <2>7
      <3>2. a = b \o o
        BY <1>2, <2>3, <2>4, <3>1
      <3>3. (b \o (o \o l)) \o o = (b \o o) \o (l \o o)
        BY DotMoves DEF Bytes
      <3> QED BY <2>3, <2>5, <2>7, <3>2, <3>3
    <2> QED BY <2>6, <2>7
  <1> HIDE DEF Good
  <1>3. \A n \in Nat : n \in Good
    BY <1>1, <1>2, InductiveSet
  <1> QED BY <1>3 DEF Good

LEMMA FrontOfSpelt ==
    ASSUME NEW labels \in Seq(DnsLabel), labels # <<>>
    PROVE  /\ SpeltUpto(labels, Len(labels)) # <<>>
           /\ Front(SpeltUpto(labels, Len(labels))) = Dotted(labels)
  <1>1. Len(labels) \in 1..Len(labels) /\ Len(labels) \in 0..Len(labels)
    OBVIOUS
  <1>2. PICK d \in Seq(Octets), o \in Octets : d = Dotted(labels) /\ o = Dot
    BY <1>1, SpeltSteps, DotType
  <1>3. SpeltUpto(labels, Len(labels)) = d \o <<o>>
    BY <1>1, <1>2, SpeltIsDotted, SpeltSteps
  <1>4. d \o <<o>> # <<>> /\ SubSeq(d \o <<o>>, 1, Len(d \o <<o>>) - 1) = d
    <2>1. Len(d \o <<o>>) = Len(d) + 1 /\ Len(d) \in Nat
      OBVIOUS
    <2>2. d \o <<o>> # <<>>
      BY <2>1
    <2> QED BY <2>1, <2>2
  <1> QED BY <1>2, <1>3, <1>4 DEF Front


-----------------------------------------------------------------------------
(***************************************************************************)
(* The length of a C string.                                               *)
(***************************************************************************)
\* n bytes of s come before its first zero byte.
StringOf(s, n) ==
    /\ n \in Nat /\ n <= Len(s)
    /\ \A i \in 1..Len(s) : i <= n => s[i] # 0
    /\ n < Len(s) => s[n + 1] = 0

LEMMA StringLength ==
    ASSUME NEW s \in Seq(Nat)
    PROVE  StringOf(s, CStringLen(s))
  <1> DEFINE t == Append(s, 0)
             I == {i \in 1..Len(t) : t[i] = 0}
  <1>1. /\ t \in Seq(Nat) /\ Len(t) = Len(s) + 1 /\ t[Len(s) + 1] = 0 /\ Len(s) \in Nat
        /\ \A i \in 1..Len(s) : t[i] = s[i]
    BY Appended
  <1>2. CStringLen(s) = (IF I # {} THEN Min(I) ELSE 0) - 1
    BY DEF CStringLen, SelectInSeq
  <1> HIDE DEF t
  <1>3. Len(s) + 1 \in I /\ I \in SUBSET Nat
    <2>1. Len(s) + 1 \in 1..Len(t)
      BY <1>1
    <2> QED BY <2>1, <1>1
  <1>4. Min(I) \in I /\ \A i \in I : Min(I) <= i
    <2>1. \E x \in I : \A y \in I : x <= y
      BY <1>3, LeastNatural
    <2> HIDE DEF I
    <2> QED BY <2>1 DEF Min
  <1>5. PICK n \in Nat : n = CStringLen(s) /\ Min(I) = n + 1
    <2>1. Min(I) \in 1..Len(t) /\ CStringLen(s) = Min(I) - 1
      BY <1>2, <1>3, <1>4
    <2>2. PICK x \in 1..Len(t) : x = Min(I)
      BY <2>1
    <2> HIDE DEF I
    <2>3. x - 1 \in Nat /\ x = (x - 1) + 1
      BY <1>1
    <2> QED BY <2>1, <2>2, <2>3
  <1>6. n + 1 \in 1..Len(t) /\ t[n + 1] = 0 /\ \A i \in 1..Len(t) : t[i] = 0 => n + 1 <= i
    BY <1>4, <1>5
  <1> HIDE DEF I
  <1>7. ASSUME NEW i \in 1..Len(s), i <= n PROVE s[i] # 0
    <2>1. i \in 1..Len(t) /\ ~(n + 1 <= i)
      BY <1>1, <1>7
    <2> QED BY <2>1, <1>1, <1>6
  <1>8. n <= Len(s) /\ (n < Len(s) => s[n + 1] = 0)
    <2>1. n + 1 <= Len(s) + 1
      BY <1>1, <1>6
    <2>2. ASSUME n < Len(s) PROVE s[n + 1] = 0
      <3>1. n + 1 \in 1..Len(s)
        BY <1>1, <2>2
      <3> QED BY <3>1, <1>1, <1>6
    <2> QED BY <2>1, <2>2, <1>1
  <1> QED BY <1>5, <1>7, <1>8 DEF StringOf

\* The text of a name without zero bytes is a string of its own length.
LEMMA TextIsString ==
    ASSUME NEW labels \in Seq(DnsLabel), NoZero(labels)
    PROVE  /\ CStringLen(Dotted(labels)) = Len(Dotted(labels))
           /\ CString(Dotted(labels)) = Dotted(labels)
  <1> DEFINE S == 1..255
  <1>1. \A i \in 1..Len(labels) : labels[i] \in Seq(S)
    <2> SUFFICES ASSUME NEW i \in 1..Len(labels) PROVE labels[i] \in Seq(S)
      OBVIOUS
    <2>1. PICK l \in Seq(Octets) : l = labels[i]
      BY LabelType
    <2>2. \A j \in 1..Len(l) : l[j] # 0
      BY <2>1 DEF NoZero
    <2>3. \A j \in 1..Len(l) : l[j] \in S
      <3>1. \A x \in Octets : x # 0 => x \in S
        BY DEF Octets
      <3>2. \A j \in 1..Len(l) : l[j] \in Octets
        OBVIOUS
      <3> QED BY <2>2, <3>1, <3>2
    <2> HIDE DEF S
    <2>4. l \in Seq(S)
      BY <2>3
    <2> QED BY <2>1, <2>4
  <1>2. <<Dot>> \in Seq(S)
    <2>1. Dot \in S
      BY DEF Dot
    <2> HIDE DEF S
    <2> QED BY <2>1
  <1>3. \A x \in S : x # 0 /\ x \in Nat
    OBVIOUS
  <1> HIDE DEF S
  <1>4. PICK d \in Seq(S) : d = Dotted(labels)
    <2>1. Len(Parts(labels)) = Len(labels) /\ Len(labels) \in Nat
          /\ Parts(labels) \in Seq(Seq(Octets)) /\ Dotted(labels) = FlattenSeq(Parts(labels))
      BY SpellingsType
    <2>2. \A i \in 1..Len(labels) : Parts(labels)[i] \in Seq(S)
      <3> SUFFICES ASSUME NEW i \in 1..Len(labels) PROVE Parts(labels)[i] \in Seq(S)
        OBVIOUS
      <3>1. Parts(labels)[i] = IF i = 1 THEN labels[i] ELSE <<Dot>> \o labels[i]
        BY SpellingsType
      <3>2. <<Dot>> \o labels[i] \in Seq(S)
        BY <1>1, <1>2
      <3> QED BY <3>1, <3>2, <1>1
    <2>3. Parts(labels) \in Seq(Seq(S))
      <3>1. PICK u \in Seq(Seq(Octets)) : u = Parts(labels)
        BY <2>1
      <3>2. \A i \in 1..Len(u) : u[i] \in Seq(S)
        BY <2>1, <2>2, <3>1
      <3>3. PICK T : T = Seq(S)
        OBVIOUS
      <3>4. u \in Seq(T)
        BY <3>2, <3>3
      <3> QED BY <3>1, <3>3, <3>4
    <2> QED BY <2>1, <2>3, FlattenTyped
  <1>5. d \in Seq(Nat) /\ Len(d) \in Nat /\ \A i \in 1..Len(d) : d[i] # 0
    BY <1>3
  <1>6. PICK n \in Nat : n = CStringLen(d) /\ n <= Len(d) /\ (n < Len(d) => d[n + 1] = 0)
    BY <1>5, StringLength DEF StringOf
  <1>7. n = Len(d)
    <2> SUFFICES ASSUME n < Len(d) PROVE FALSE
      BY <1>5, <1>6
    <2>1. n + 1 \in 1..Len(d)
      BY <1>5
    <2> QED BY <2>1, <1>5, <1>6
  <1>8. SubSeq(d, 1, Len(d)) = d
    OBVIOUS
  <1> QED BY <1>4, <1>6, <1>7, <1>8 DEF CString

-----------------------------------------------------------------------------
(***************************************************************************)
(* str_to_label: the text of a name becomes its labels again.              *)
(***************************************************************************)
Begun == [done |-> <<>>, label |-> <<>>]
Turn(so, c) ==
    IF c = Dot THEN [done |-> so.done \o <<Len(so.label) % 256>> \o so.label, label |-> <<>>]
    ELSE [done |-> so.done, label |-> Append(so.label, c)]

\* f[i] is what str_to_label has made of the first i characters.
ReadsText(f, n, host) == f = [i \in 0..n |-> IF i = 0 THEN Begun ELSE Turn(f[i - 1], host[i])]

LEMMA ReadsTextUnfold ==
    ASSUME NEW f, NEW n \in Nat, NEW host, ReadsText(f, n, host)
    PROVE  /\ f[0] = Begun
           /\ \A i \in 1..n : f[i] = Turn(f[i - 1], host[i])
  <1> DEFINE h == [i \in 0..n |-> IF i = 0 THEN Begun ELSE Turn(f[i - 1], host[i])]
  <1>1. h[0] = Begun
    OBVIOUS
  <1>2. \A i \in 1..n : h[i] = Turn(f[i - 1], host[i])
    OBVIOUS
  <1>3. f = h
    BY DEF ReadsText
  <1> HIDE DEF h
  <1> QED BY <1>1, <1>2, <1>3

LEMMA ReadsTextExists ==
    ASSUME NEW host, NEW size \in Nat
    PROVE  \E f : ReadsText(f, size, host)
  <1> DEFINE Good == {n \in Nat : \E f : ReadsText(f, n, host)}
  <1>1. 0 \in Good
    <2> DEFINE f == [i \in 0..0 |-> Begun]
    <2>1. f = [i \in 0..0 |-> IF i = 0 THEN Begun ELSE Turn(f[i - 1], host[i])]
      OBVIOUS
    <2> QED BY <2>1 DEF ReadsText
  <1>2. ASSUME NEW n \in Nat, n \in Good PROVE n + 1 \in Good
    <2>1. PICK f : ReadsText(f, n, host)
      BY <1>2
    <2> DEFINE g == [i \in 0..(n + 1) |-> IF i <= n THEN f[i] ELSE Turn(f[i - 1], host[i])]
    <2>2. ASSUME NEW i \in 0..(n + 1)
          PROVE  g[i] = IF i = 0 THEN Begun ELSE Turn(g[i - 1], host[i])
      <3>1. CASE i = 0
        BY <2>1, <3>1, ReadsTextUnfold
      <3>2. CASE i \in 1..n
        <4>1. g[i] = f[i] /\ g[i - 1] = f[i - 1] /\ i # 0
          BY <3>2
        <4>2. f[i] = Turn(f[i - 1], host[i])
          BY <2>1, <3>2, ReadsTextUnfold
        <4> HIDE DEF g
        <4> QED BY <4>1, <4>2
      <3>3. CASE i = n + 1
        <4>1. g[i] = Turn(f[i - 1], host[i]) /\ g[i - 1] = f[i - 1] /\ i # 0
          BY <3>3
        <4> HIDE DEF g
        <4> QED BY <4>1
      <3> QED BY <3>1, <3>2, <3>3
    <2>3. g = [i \in 0..(n + 1) |-> IF i = 0 THEN Begun ELSE Turn(g[i - 1], host[i])]
      BY <2>2
    <2> HIDE DEF g
    <2>4. \E x : ReadsText(x, n + 1, host)
      BY <2>3 DEF ReadsText
    <2> QED BY <2>4
  <1> HIDE DEF Good
  <1>3. size \in Good
    BY <1>1, <1>2, InductiveSet
  <1> QED BY <1>3 DEF Good

LEMMA TextByRecursion ==
    ASSUME NEW host \in Bytes
    PROVE  \E f : /\ ReadsText(f, CStringLen(host), host)
                  /\ str_to_label(host) =
                         f[CStringLen(host)].done \o <<Len(f[CStringLen(host)].label) % 256>>
                             \o f[CStringLen(host)].label \o <<0>>
  <1> DEFINE n == CStringLen(host)
             f == CHOOSE f : ReadsText(f, n, host)
  <1>1. n \in Nat
    BY BytesAreNumbers, StringLength DEF StringOf
  <1>2. str_to_label(host) = f[n].done \o <<Len(f[n].label) % 256>> \o f[n].label \o <<0>>
    BY DEF str_to_label, ReadsText, Begun, Turn
  <1>3. ReadsText(f, n, host)
    <2> HIDE DEF n
    <2> QED BY <1>1, ReadsTextExists
  <1> QED BY <1>2, <1>3

LEMMA NextPlace ==
    ASSUME NEW n \in Nat, NEW p \in Nat, NEW c \in Nat, NEW j \in Nat, p + c <= n, j + 1 <= c
    PROVE  /\ p + (j + 1) \in 1..n /\ (p + (j + 1)) - 1 = p + j
           /\ j + 1 \in 1..c /\ j <= c
  OBVIOUS

\* The characters after the first p of host are those of l.
Follows(host, p, l) == \A j \in 1..Len(l) : host[p + j] = l[j]

\* The characters of a label are gathered.
LEMMA GathersLabel ==
    ASSUME NEW f, NEW n \in Nat, NEW host, ReadsText(f, n, host),
           NEW l \in DnsLabel, NEW p \in Nat, p + Len(l) <= n, NEW before,
           Follows(host, p, l), f[p] = [done |-> before, label |-> <<>>]
    PROVE  f[p + Len(l)] = [done |-> before, label |-> l]
  <1>1. l \in Seq(Octets) /\ Len(l) \in Nat /\ \A j \in 1..Len(l) : l[j] # Dot
    BY LabelType
  <1> DEFINE Good == {j \in Nat : j <= Len(l) => f[p + j] = [done |-> before, label |-> SubSeq(l, 1, j)]}
  <1>2. 0 \in Good
    <2>1. SubSeq(l, 1, 0) = <<>> /\ p + 0 = p
      BY <1>1
    <2> QED BY <2>1
  <1>3. ASSUME NEW j \in Nat, j \in Good PROVE j + 1 \in Good
    <2> SUFFICES ASSUME j + 1 <= Len(l)
                 PROVE  f[p + (j + 1)] = [done |-> before, label |-> SubSeq(l, 1, j + 1)]
      OBVIOUS
    <2>0. j <= Len(l) => f[p + j] = [done |-> before, label |-> SubSeq(l, 1, j)]
      BY <1>3
    <2> HIDE DEF Good
    <2>1. p + (j + 1) \in 1..n /\ (p + (j + 1)) - 1 = p + j /\ j + 1 \in 1..Len(l) /\ j <= Len(l)
      BY <1>1, NextPlace
    <2>2. f[p + (j + 1)] = Turn(f[p + j], l[j + 1])
      <3>1. f[p + (j + 1)] = Turn(f[(p + (j + 1)) - 1], host[p + (j + 1)])
        BY <2>1, ReadsTextUnfold
      <3>2. host[p + (j + 1)] = l[j + 1]
        BY <2>1 DEF Follows
      <3> QED BY <2>1, <3>1, <3>2
    <2>3. l[j + 1] # Dot /\ l[j + 1] \in Octets
      BY <1>1, <2>1
    <2>4. f[p + j] = [done |-> before, label |-> SubSeq(l, 1, j)]
      BY <2>0, <2>1
    <2>5. Append(SubSeq(l, 1, j), l[j + 1]) = SubSeq(l, 1, j + 1)
      BY <1>1, <2>1
    <2>6. Turn(f[p + j], l[j + 1]) = [done |-> before, label |-> Append(SubSeq(l, 1, j), l[j + 1])]
      <3>1. PICK s, c : s = SubSeq(l, 1, j) /\ c = l[j + 1]
        OBVIOUS
      <3>2. f[p + j].done = before /\ f[p + j].label = s /\ c # Dot
        BY <2>3, <2>4, <3>1
      <3> QED BY <3>1, <3>2 DEF Turn
    <2> QED BY <2>2, <2>5, <2>6
  <1> HIDE DEF Good
  <1>4. Len(l) \in Good
    BY <1>1, <1>2, <1>3, InductiveSet
  <1>5. SubSeq(l, 1, Len(l)) = l
    BY <1>1
  <1> QED BY <1>1, <1>4, <1>5 DEF Good

\* Where the text of a label is in the text of the name.
TextAt(labels, k, p, l) ==
    /\ p \in Nat
    /\ k = 0 => /\ p = 0 /\ Len(DottedUpto(labels, k + 1)) = Len(l)
                /\ Len(l) <= Len(Dotted(labels))
                /\ \A j \in 1..Len(l) : Dotted(labels)[j] = l[j]
    /\ k # 0 => /\ Len(DottedUpto(labels, k + 1)) = p + 1 + Len(l)
                /\ p + 1 + Len(l) <= Len(Dotted(labels))
                /\ Dotted(labels)[p + 1] = Dot
                /\ \A j \in 1..Len(l) : Dotted(labels)[p + 1 + j] = l[j]

LEMMA TextLayout ==
    ASSUME NEW labels \in Seq(DnsLabel), NEW k \in 0..(Len(labels) - 1)
    PROVE  TextAt(labels, k, Len(DottedUpto(labels, k)), labels[k + 1])
  <1> DEFINE l == labels[k + 1]
             p == Len(DottedUpto(labels, k))
  <1>1. l \in Seq(Octets) /\ Len(l) \in Nat /\ k \in 0..Len(labels) /\ k + 1 \in 0..Len(labels)
    BY LabelType
  <1>2. PICK d : d = Parts(labels)
    OBVIOUS
  <1>3. /\ d \in Seq(Seq(Octets)) /\ Len(d) = Len(labels) /\ Dotted(labels) = FlattenSeq(d)
        /\ d[k + 1] = IF k = 0 THEN l ELSE <<Dot>> \o l
    <2>1. k + 1 \in 1..Len(labels) /\ (k + 1 = 1 <=> k = 0)
      OBVIOUS
    <2> QED BY <1>2, <2>1, SpellingsType
  <1>4. DottedUpto(labels, k) = FlattenSeq(SubSeq(d, 1, k)) /\ DottedUpto(labels, k) \in Seq(Octets)
    BY <1>1, <1>2, SpeltSteps DEF DottedUpto
  <1>5. k \in 0..(Len(d) - 1) /\ p \in Nat
    BY <1>3, <1>4
  <1>6. /\ p + Len(d[k + 1]) <= Len(Dotted(labels))
        /\ \A j \in 1..Len(d[k + 1]) : Dotted(labels)[p + j] = d[k + 1][j]
    BY <1>3, <1>4, <1>5, FlattenAt
  <1>7. Len(DottedUpto(labels, k + 1)) = p + Len(d[k + 1])
    <2>1. DottedUpto(labels, k + 1) = DottedUpto(labels, k) \o d[k + 1]
      BY <1>3, SpeltSteps
    <2>2. d[k + 1] \in Seq(Octets)
      <3>1. k + 1 \in 1..Len(d) /\ d \in Seq(Seq(Octets))
        BY <1>3, <1>5
      <3> HIDE DEF l
      <3> QED BY <3>1
    <2>3. PICK a \in Seq(Octets), e \in Seq(Octets) : a = DottedUpto(labels, k) /\ e = d[k + 1]
      BY <2>2, <1>4
    <2>4. Len(a \o e) = Len(a) + Len(e)
      OBVIOUS
    <2> QED BY <2>1, <2>3, <2>4
  <1> HIDE DEF l, p
  <1>8. CASE k = 0
    <2>1. p = 0
      <3>1. DottedUpto(labels, 0) = <<>>
        BY SpeltSteps
      <3> QED BY <3>1, <1>8 DEF p
    <2> QED BY <2>1, <1>1, <1>3, <1>6, <1>7, <1>8 DEF TextAt, p, l
  <1>9. CASE k # 0
    <2>1. PICK e \in Seq(Octets) : e = d[k + 1] /\ e = <<Dot>> \o l
      <3>1. PICK o \in Seq(Octets) : o = <<Dot>>
        BY DotType DEF Bytes
      <3>2. o \o l \in Seq(Octets)
        BY <1>1
      <3> QED BY <3>1, <3>2, <1>3, <1>9
    <2>2. Len(e) = 1 + Len(l) /\ e[1] = Dot /\ \A j \in 1..Len(l) : e[1 + j] = l[j]
      BY <2>1, <1>1, DotType DEF Bytes
    <2>3. p + 1 + Len(l) <= Len(Dotted(labels)) /\ Len(DottedUpto(labels, k + 1)) = p + 1 + Len(l)
      BY <2>1, <2>2, <1>1, <1>5, <1>6, <1>7
    <2>4. Dotted(labels)[p + 1] = Dot
      BY <2>1, <2>2, <1>1, <1>5, <1>6
    <2>5. ASSUME NEW j \in 1..Len(l) PROVE Dotted(labels)[p + 1 + j] = l[j]
      <3>1. 1 + j \in 1..Len(e) /\ p + (1 + j) = p + 1 + j
        BY <2>2, <1>1, <1>5
      <3> QED BY <3>1, <2>1, <2>2, <1>6
    <2>6. TextAt(labels, k, p, l)
      BY <2>3, <2>4, <2>5, <1>5, <1>9 DEF TextAt
    <2> QED BY <2>6 DEF p, l
  <1> QED BY <1>8, <1>9

LEMMA TextStates ==
    ASSUME NEW labels \in Seq(DnsLabel), NEW f, NEW size \in Nat, size = Len(Dotted(labels)),
           ReadsText(f, size, Dotted(labels))
    PROVE  \A k \in 1..Len(labels) :
               f[Len(DottedUpto(labels, k))] = [done |-> Upto(labels, k - 1), label |-> labels[k]]
  <1> DEFINE P(k) == Len(DottedUpto(labels, k))
             Good == {k \in Nat : k \in 1..Len(labels) =>
                         f[P(k)] = [done |-> Upto(labels, k - 1), label |-> labels[k]]}
  <1>1. 0 \in Good
    OBVIOUS
  <1>2. ASSUME NEW k \in Nat, k \in Good PROVE k + 1 \in Good
    <2> SUFFICES ASSUME k + 1 \in 1..Len(labels)
                 PROVE  f[P(k + 1)] = [done |-> Upto(labels, (k + 1) - 1), label |-> labels[k + 1]]
      OBVIOUS
    <2>1. k \in 1..Len(labels) => f[P(k)] = [done |-> Upto(labels, k - 1), label |-> labels[k]]
      BY <1>2
    <2> HIDE DEF Good
    <2>2. k \in 0..(Len(labels) - 1) /\ (k + 1) - 1 = k
      OBVIOUS
    <2>3. PICK l \in DnsLabel : l = labels[k + 1]
      OBVIOUS
    <2>4. Len(l) \in Nat
      BY LabelType
    <2>5. PICK p \in Nat : p = P(k) /\ TextAt(labels, k, p, l)
      BY <2>2, <2>3, TextLayout DEF TextAt
    <2> HIDE DEF P
    <2>6. CASE k = 0
      <3>1. p = 0 /\ P(k + 1) = Len(l) /\ 0 + Len(l) <= size
            /\ \A j \in 1..Len(l) : Dotted(labels)[j] = l[j]
        BY <2>4, <2>5, <2>6 DEF TextAt, P
      <3>2. Follows(Dotted(labels), 0, l)
        BY <3>1, <2>4 DEF Follows
      <3>3. f[0] = [done |-> <<>>, label |-> <<>>]
        BY ReadsTextUnfold DEF Begun
      <3>4. f[0 + Len(l)] = [done |-> <<>>, label |-> l]
        <4>1. 0 \in Nat
          OBVIOUS
        <4> QED BY <4>1, <3>1, <3>2, <3>3, GathersLabel
      <3>5. Upto(labels, 0) = <<>>
        BY NameLayoutEnds
      <3> QED BY <3>1, <3>4, <3>5, <2>2, <2>3, <2>4, <2>6
    <2>7. CASE k # 0
      <3>1. /\ P(k + 1) = (p + 1) + Len(l) /\ (p + 1) + Len(l) <= size
            /\ Dotted(labels)[p + 1] = Dot
            /\ Follows(Dotted(labels), p + 1, l)
        BY <2>4, <2>5, <2>7 DEF TextAt, P, Follows
      <3>2. PICK r \in DnsLabel : r = labels[k] /\ k \in 1..Len(labels)
        BY <2>2, <2>7
      <3>3. f[p] = [done |-> Upto(labels, k - 1), label |-> r]
        BY <2>1, <2>5, <3>2
      <3>4. p + 1 \in 1..size /\ (p + 1) - 1 = p
        BY <2>4, <3>1
      <3>5. f[p + 1] = Turn(f[p], Dot)
        <4>1. f[p + 1] = Turn(f[(p + 1) - 1], Dotted(labels)[p + 1])
          BY <3>4, ReadsTextUnfold
        <4> QED BY <4>1, <3>1, <3>4
      <3>6. f[p + 1] = [done |-> Upto(labels, k - 1) \o <<Len(r)>> \o r, label |-> <<>>]
        <4>1. Len(r) % 256 = Len(r)
          BY LengthInByte
        <4>2. PICK so : so = f[p]
          OBVIOUS
        <4>3. so.done = Upto(labels, k - 1) /\ so.label = r
          BY <3>3, <4>2
        <4>4. f[p + 1] = [done |-> so.done \o <<Len(so.label) % 256>> \o so.label, label |-> <<>>]
          BY <3>5, <4>2 DEF Turn
        <4> QED BY <4>1, <4>3, <4>4
      <3>7. Upto(labels, k - 1) \o <<Len(r)>> \o r = Upto(labels, k)
        <4>1. k - 1 \in 0..(Len(labels) - 1) /\ (k - 1) + 1 = k
          BY <2>2, <2>7
        <4>2. /\ Upto(labels, k) = Upto(labels, k - 1) \o (<<Len(r)>> \o r)
              /\ Upto(labels, k - 1) \in Bytes
          BY <4>1, <3>2, UptoStep DEF Entry
        <4>3. <<Len(r)>> \in Bytes /\ r \in Bytes
          BY LabelType, OneByte
        <4> QED BY <4>2, <4>3, BytesJoin
      <3>8. f[p + 1] = [done |-> Upto(labels, k), label |-> <<>>]
        BY <3>6, <3>7
      <3>9. p + 1 \in Nat
        OBVIOUS
      <3>10. f[(p + 1) + Len(l)] = [done |-> Upto(labels, k), label |-> l]
        <4>1. PICK q \in Nat : q = p + 1
          BY <3>9
        <4> DEFINE d == Upto(labels, k)
        <4> HIDE DEF d
        <4>2. q + Len(l) <= size /\ Follows(Dotted(labels), q, l)
          BY <4>1, <3>1
        <4>3. f[q] = [done |-> d, label |-> <<>>]
          BY <4>1, <3>8 DEF d
        <4>4. f[q + Len(l)] = [done |-> d, label |-> l]
          BY <4>2, <4>3, GathersLabel
        <4> QED BY <4>1, <4>4 DEF d
      <3> QED BY <3>1, <3>10, <2>2, <2>3
    <2> QED BY <2>6, <2>7
  <1> HIDE DEF Good
  <1>3. \A k \in Nat : k \in Good
    BY <1>1, <1>2, InductiveSet
  <1> QED BY <1>3 DEF Good

LEMMA LabelsOfText ==
    ASSUME NEW labels \in Seq(DnsLabel), labels # <<>>, NoZero(labels)
    PROVE  str_to_label(Dotted(labels)) = LabelBytes(labels) \o <<0>>
  <1>1. PICK n \in Nat : n = Len(labels) /\ n \in 1..Len(labels) /\ n \in 0..Len(labels)
    OBVIOUS
  <1>2. Dotted(labels) \in Bytes /\ DottedUpto(labels, n) = Dotted(labels)
    BY <1>1, SpeltSteps DEF Bytes
  <1>3. PICK size \in Nat : size = Len(Dotted(labels)) /\ size = CStringLen(Dotted(labels))
    BY <1>2, TextIsString DEF Bytes
  <1>4. PICK f : /\ ReadsText(f, size, Dotted(labels))
                 /\ str_to_label(Dotted(labels)) =
                        f[size].done \o <<Len(f[size].label) % 256>> \o f[size].label \o <<0>>
    BY <1>2, <1>3, TextByRecursion
  <1>5. f[size] = [done |-> Upto(labels, n - 1), label |-> labels[n]]
    <2>1. size = Len(Dotted(labels)) /\ ReadsText(f, size, Dotted(labels))
      BY <1>3, <1>4
    <2>2. \A i \in 1..Len(labels) :
              f[Len(DottedUpto(labels, i))] = [done |-> Upto(labels, i - 1), label |-> labels[i]]
      BY <2>1, TextStates
    <2> QED BY <1>1, <1>2, <2>1, <2>2
  <1>6. PICK l \in DnsLabel : l = labels[n]
    BY <1>1
  <1>7. str_to_label(Dotted(labels)) = Upto(labels, n - 1) \o <<Len(l)>> \o l \o <<0>>
    <2>1. PICK so : so = f[size]
      OBVIOUS
    <2>2. so.done = Upto(labels, n - 1) /\ so.label = l
      BY <2>1, <1>5, <1>6
    <2>3. Len(l) % 256 = Len(l)
      BY LengthInByte
    <2> QED BY <2>1, <2>2, <2>3, <1>4
  <1>8. n - 1 \in 0..(Len(labels) - 1) /\ (n - 1) + 1 = n
    BY <1>1
  <1>9. /\ LabelBytes(labels) = Upto(labels, n - 1) \o (<<Len(l)>> \o l)
        /\ Upto(labels, n - 1) \in Bytes
    BY <1>1, <1>6, <1>8, UptoStep, NameLayoutEnds DEF Entry
  <1>10. <<Len(l)>> \in Bytes /\ l \in Bytes
    BY LabelType, OneByte
  <1> QED BY <1>7, <1>9, <1>10, BytesJoin

-----------------------------------------------------------------------------
(***************************************************************************)
(* Skipping a name.                                                        *)
(***************************************************************************)
Stop(b, q) == q >= Len(b) \/ b[q + 1] = 0
Skips(f, b) == f = [q \in Nat |-> IF Stop(b, q) THEN q ELSE f[q + b[q + 1] + 1]]

\* f is as Skips wants it in the last d bytes of b.
SkipsLast(f, b, d) ==
    f = [q \in Nat |-> IF q + d < Len(b) THEN 0
                       ELSE IF Stop(b, q) THEN q ELSE f[q + b[q + 1] + 1]]

LEMMA SkipsLastUnfold ==
    ASSUME NEW f, NEW b, NEW d \in Nat, SkipsLast(f, b, d), NEW q \in Nat
    PROVE  f[q] = IF q + d < Len(b) THEN 0 ELSE IF Stop(b, q) THEN q ELSE f[q + b[q + 1] + 1]
  <1> DEFINE h == [x \in Nat |-> IF x + d < Len(b) THEN 0
                                 ELSE IF Stop(b, x) THEN x ELSE f[x + b[x + 1] + 1]]
  <1>1. h[q] = IF q + d < Len(b) THEN 0 ELSE IF Stop(b, q) THEN q ELSE f[q + b[q + 1] + 1]
    OBVIOUS
  <1>2. f = h
    BY DEF SkipsLast
  <1> HIDE DEF h
  <1> QED BY <1>1, <1>2

LEMMA SkipsExists ==
    ASSUME NEW b \in Seq(Nat)
    PROVE  \E f : Skips(f, b)
  <1> DEFINE Good == {d \in Nat : \E f : SkipsLast(f, b, d)}
  <1>1. 0 \in Good
    <2> DEFINE f == [q \in Nat |-> IF q < Len(b) THEN 0 ELSE q]
    <2>1. ASSUME NEW q \in Nat
          PROVE  f[q] = IF q + 0 < Len(b) THEN 0 ELSE IF Stop(b, q) THEN q ELSE f[q + b[q + 1] + 1]
      BY DEF Stop
    <2>2. f = [q \in Nat |-> IF q + 0 < Len(b) THEN 0
                             ELSE IF Stop(b, q) THEN q ELSE f[q + b[q + 1] + 1]]
      BY <2>1
    <2> HIDE DEF f
    <2>3. \E x : SkipsLast(x, b, 0)
      BY <2>2 DEF SkipsLast
    <2> QED BY <2>3
  <1>2. ASSUME NEW d \in Nat, d \in Good PROVE d + 1 \in Good
    <2>1. PICK f : SkipsLast(f, b, d)
      BY <1>2
    <2> DEFINE g == [q \in Nat |-> IF q + (d + 1) < Len(b) THEN 0
                                   ELSE IF Stop(b, q) THEN q ELSE f[q + b[q + 1] + 1]]
    <2>2. ASSUME NEW q \in Nat, q + d >= Len(b)
          PROVE  g[q] = f[q]
      <3>1. f[q] = IF q + d < Len(b) THEN 0 ELSE IF Stop(b, q) THEN q ELSE f[q + b[q + 1] + 1]
        BY <2>1, SkipsLastUnfold
      <3>2. ~(q + d < Len(b)) /\ ~(q + (d + 1) < Len(b))
        BY <2>2
      <3> QED BY <3>1, <3>2
    <2>3. ASSUME NEW q \in Nat
          PROVE  g[q] = IF q + (d + 1) < Len(b) THEN 0
                        ELSE IF Stop(b, q) THEN q ELSE g[q + b[q + 1] + 1]
      <3>1. CASE q + (d + 1) < Len(b) \/ Stop(b, q)
        BY <3>1
      <3>2. CASE ~(q + (d + 1) < Len(b)) /\ ~Stop(b, q)
        <4>1. q + 1 \in 1..Len(b) /\ b[q + 1] \in Nat
          <5>1. q + 1 \in 1..Len(b)
            BY <3>2 DEF Stop
          <5> QED BY <5>1
        <4>2. q + b[q + 1] + 1 \in Nat /\ (q + b[q + 1] + 1) + d >= Len(b)
          BY <4>1, <3>2
        <4>3. g[q + b[q + 1] + 1] = f[q + b[q + 1] + 1]
          BY <4>2, <2>2
        <4> QED BY <4>3, <3>2
      <3> QED BY <3>1, <3>2
    <2>4. g = [q \in Nat |-> IF q + (d + 1) < Len(b) THEN 0
                             ELSE IF Stop(b, q) THEN q ELSE g[q + b[q + 1] + 1]]
      BY <2>3
    <2> HIDE DEF g
    <2>5. \E x : SkipsLast(x, b, d + 1)
      BY <2>4 DEF SkipsLast
    <2> QED BY <2>5
  <1> HIDE DEF Good
  <1>3. Len(b) \in Good
    BY <1>1, <1>2, InductiveSet
  <1>4. PICK f : SkipsLast(f, b, Len(b))
    BY <1>3 DEF Good
  <1>5. \A q \in Nat : ~(q + Len(b) < Len(b))
    OBVIOUS
  <1>6. f = [q \in Nat |-> IF Stop(b, q) THEN q ELSE f[q + b[q + 1] + 1]]
    BY <1>4, <1>5 DEF SkipsLast
  <1> QED BY <1>6 DEF Skips

LEMMA SkipsUnfold ==
    ASSUME NEW f, NEW b, Skips(f, b), NEW q \in Nat
    PROVE  f[q] = IF Stop(b, q) THEN q ELSE f[q + b[q + 1] + 1]
  <1> DEFINE h == [x \in Nat |-> IF Stop(b, x) THEN x ELSE f[x + b[x + 1] + 1]]
  <1>1. h[q] = IF Stop(b, q) THEN q ELSE f[q + b[q + 1] + 1]
    OBVIOUS
  <1>2. f = h
    BY DEF Skips
  <1> HIDE DEF h
  <1> QED BY <1>1, <1>2

\* b has the name at offset p, spelled out.
NameAt(b, p, labels) ==
    /\ b \in Seq(Nat) /\ p \in Nat /\ p + Len(LabelBytes(labels)) + 1 <= Len(b)
    /\ \A i \in 1..Len(LabelBytes(labels)) : b[p + i] = LabelBytes(labels)[i]
    /\ b[p + Len(LabelBytes(labels)) + 1] = 0

\* Where the label after the first k is, in a name at offset p.
Place(p, labels, k) == p + Len(Upto(labels, k))

\* b has the label l at offset q, and r is the offset behind it.
LabelAt(b, q, l, r) ==
    /\ q \in Nat /\ Len(l) \in Nat /\ Len(l) >= 1 /\ Len(l) <= 63
    /\ r = q + Len(l) + 1 /\ r < Len(b)
    /\ b[q + 1] = Len(l) /\ \A j \in 1..Len(l) : b[q + j + 1] = l[j]

LEMMA FirstPlace == ASSUME NEW p \in Nat, NEW labels \in Seq(DnsLabel) PROVE Place(p, labels, 0) = p
  <1>1. Upto(labels, 0) = <<>>
    BY NameLayoutEnds
  <1> QED BY <1>1 DEF Place

LEMMA EachPlace ==
    ASSUME NEW b, NEW p \in Nat, NEW labels \in Seq(DnsLabel), NameAt(b, p, labels),
           NEW k \in 0..(Len(labels) - 1)
    PROVE  LabelAt(b, Place(p, labels, k), labels[k + 1], Place(p, labels, k + 1))
  <1>1. PICK u \in Nat : u = Len(Upto(labels, k))
    BY NameLayoutEnds DEF Bytes
  <1>2a. PICK lb : lb = LabelBytes(labels)
    OBVIOUS
  <1>2. PICK n \in Nat : lb = LabelBytes(labels) /\ n = Len(lb)
    BY <1>2a, LabelBytesType DEF Bytes
  <1>3. /\ b \in Seq(Nat) /\ p + n + 1 <= Len(b) /\ \A i \in 1..n : b[p + i] = lb[i]
    BY <1>2 DEF NameAt
  <1>4. PICK l \in DnsLabel : l = labels[k + 1]
    OBVIOUS
  <1>5. Len(l) \in Nat /\ Len(l) >= 1 /\ Len(l) <= 63
    BY LabelType
  <1>6. /\ u + 1 + Len(l) <= n /\ Len(Upto(labels, k + 1)) = u + 1 + Len(l)
        /\ lb[u + 1] = Len(l) /\ \A j \in 1..Len(l) : lb[u + 1 + j] = l[j]
    BY <1>1, <1>2, <1>4, NameLayout DEF NextLabelAt
  <1>7. b[p + u + 1] = Len(l)
    <2>1. u + 1 \in 1..n /\ p + (u + 1) = p + u + 1
      BY <1>5, <1>6
    <2> QED BY <2>1, <1>3, <1>6
  <1>8. ASSUME NEW j \in 1..Len(l) PROVE b[p + u + j + 1] = l[j]
    <2>1. u + 1 + j \in 1..n /\ p + (u + 1 + j) = p + u + j + 1
      BY <1>5, <1>6
    <2> QED BY <2>1, <1>3, <1>6
  <1>9. /\ p + Len(Upto(labels, k + 1)) = p + u + Len(l) + 1
        /\ p + Len(Upto(labels, k + 1)) < Len(b)
    <2>1. PICK c \in Nat, size \in Nat : c = Len(l) /\ size = Len(b)
      BY <1>3, <1>5
    <2>2. u + 1 + c <= n /\ p + n + 1 <= size /\ Len(Upto(labels, k + 1)) = u + 1 + c
      BY <2>1, <1>3, <1>6
    <2>3. p + (u + 1 + c) = p + u + c + 1 /\ p + (u + 1 + c) < size
      BY <2>2
    <2> QED BY <2>1, <2>2, <2>3
  <1>10. LabelAt(b, p + u, l, p + Len(Upto(labels, k + 1)))
    BY <1>5, <1>7, <1>8, <1>9 DEF LabelAt
  <1> QED BY <1>1, <1>4, <1>10 DEF Place

LEMMA LastPlace ==
    ASSUME NEW b, NEW p \in Nat, NEW labels \in Seq(DnsLabel), NameAt(b, p, labels)
    PROVE  LET q == Place(p, labels, Len(labels))
           IN  q \in Nat /\ q = p + Len(LabelBytes(labels)) /\ q < Len(b) /\ b[q + 1] = 0
  <1>1. Upto(labels, Len(labels)) = LabelBytes(labels)
    BY NameLayoutEnds
  <1>2. PICK n \in Nat : n = Len(LabelBytes(labels))
    BY LabelBytesType DEF Bytes
  <1>3. b \in Seq(Nat) /\ p + n + 1 <= Len(b) /\ b[p + n + 1] = 0
    BY <1>2 DEF NameAt
  <1> QED BY <1>1, <1>2, <1>3 DEF Place

LEMMA SkipsName ==
    ASSUME NEW b, NEW p \in Nat, NEW labels \in Seq(DnsLabel), NameAt(b, p, labels)
    PROVE  SkipLabels(b, p) = p + Len(LabelBytes(labels))
  <1>1. b \in Seq(Nat)
    BY DEF NameAt
  <1> DEFINE f == CHOOSE f : Skips(f, b)
  <1>2. Skips(f, b)
    BY <1>1, SkipsExists
  <1>3. SkipLabels(b, p) = f[p]
    BY DEF SkipLabels, Skips, Stop
  <1> HIDE DEF f
  <1>4a. PICK e : e = p + Len(LabelBytes(labels))
    OBVIOUS
  <1>4. PICK n \in Nat : n = Len(labels) /\ e = p + Len(LabelBytes(labels))
    BY <1>4a
  <1> DEFINE Good == {d \in Nat : d <= n => f[Place(p, labels, n - d)] = e}
  <1>5. 0 \in Good
    <2>1. PICK q \in Nat : q = Place(p, labels, n) /\ q = e /\ b[q + 1] = 0
      BY <1>4, LastPlace
    <2>2. f[q] = q
      BY <2>1, <1>2, SkipsUnfold DEF Stop
    <2>3. n - 0 = n
      OBVIOUS
    <2> QED BY <2>1, <2>2, <2>3
  <1>6. ASSUME NEW d \in Nat, d \in Good PROVE d + 1 \in Good
    <2> SUFFICES ASSUME d + 1 <= n PROVE f[Place(p, labels, n - (d + 1))] = e
      OBVIOUS
    <2>1. f[Place(p, labels, n - d)] = e
      BY <1>6
    <2> HIDE DEF Good
    <2>2. n - (d + 1) \in Nat /\ (n - (d + 1)) + 1 = n - d /\ n - (d + 1) <= n - 1
      OBVIOUS
    <2>3. PICK k \in Nat : k = n - (d + 1)
      BY <2>2
    <2>4. k + 1 = n - d /\ k \in 0..(Len(labels) - 1)
      BY <2>2, <2>3, <1>4
    <2>5. PICK q, r, l : /\ q = Place(p, labels, k) /\ r = Place(p, labels, k + 1)
                         /\ LabelAt(b, q, l, r)
      BY <2>4, EachPlace
    <2>6. q \in Nat /\ ~Stop(b, q) /\ r = q + b[q + 1] + 1
      BY <2>5, <1>1 DEF Stop, LabelAt
    <2>7. f[q] = f[q + b[q + 1] + 1]
      BY <2>6, <1>2, SkipsUnfold
    <2> QED BY <2>1, <2>3, <2>4, <2>5, <2>6, <2>7
  <1> HIDE DEF Good
  <1>7. n \in Good
    BY <1>5, <1>6, InductiveSet
  <1>8. f[Place(p, labels, 0)] = e
    <2>1. n - n = 0
      OBVIOUS
    <2> QED BY <2>1, <1>7 DEF Good
  <1> QED BY <1>3, <1>4, <1>8, FirstPlace

-----------------------------------------------------------------------------
(***************************************************************************)
(* Messages with answers: sequences of numbers, the same behind the header *)
(* whatever the id and the flags.                                          *)
(***************************************************************************)
Sized(r) == NameLen(r.owner) \in Nat /\ RdataLen(r) \in Nat

\* f[i] is where answer i starts.
StartsAt(f, n, first, rs) ==
    f = [i \in 1..(n + 1) |->
            IF i = 1 THEN first
            ELSE f[i - 1] + NameLen(rs[i - 1].owner) + ANSWER_SIZE + RdataLen(rs[i - 1])]

LEMMA StartsAtUnfold ==
    ASSUME NEW f, NEW n \in Nat, NEW first, NEW rs, StartsAt(f, n, first, rs)
    PROVE  /\ f[1] = first
           /\ \A i \in 1..n : f[i + 1] = f[i] + NameLen(rs[i].owner) + ANSWER_SIZE + RdataLen(rs[i])
  <1> DEFINE h == [i \in 1..(n + 1) |->
                      IF i = 1 THEN first
                      ELSE f[i - 1] + NameLen(rs[i - 1].owner) + ANSWER_SIZE + RdataLen(rs[i - 1])]
  <1>1. h[1] = first
    OBVIOUS
  <1>2. ASSUME NEW i \in 1..n
        PROVE  h[i + 1] = f[i] + NameLen(rs[i].owner) + ANSWER_SIZE + RdataLen(rs[i])
    <2>1. i + 1 \in 1..(n + 1) /\ i + 1 # 1 /\ (i + 1) - 1 = i
      OBVIOUS
    <2> QED BY <2>1
  <1>3. f = h
    BY DEF StartsAt
  <1> HIDE DEF h
  <1> QED BY <1>1, <1>2, <1>3

LEMMA StartsAtExists ==
    ASSUME NEW size \in Nat, NEW first, NEW rs
    PROVE  \E f : StartsAt(f, size, first, rs)
  <1> DEFINE E(f, i) == f[i - 1] + NameLen(rs[i - 1].owner) + ANSWER_SIZE + RdataLen(rs[i - 1])
             Good == {n \in Nat : \E f : StartsAt(f, n, first, rs)}
  <1>1. 0 \in Good
    <2> DEFINE f == [i \in 1..(0 + 1) |-> first]
    <2>1. f = [i \in 1..(0 + 1) |-> IF i = 1 THEN first ELSE E(f, i)]
      OBVIOUS
    <2> HIDE DEF f
    <2>2. \E x : StartsAt(x, 0, first, rs)
      BY <2>1 DEF StartsAt
    <2> QED BY <2>2
  <1>2. ASSUME NEW n \in Nat, n \in Good PROVE n + 1 \in Good
    <2>1. PICK f : StartsAt(f, n, first, rs)
      BY <1>2
    <2> DEFINE g == [i \in 1..((n + 1) + 1) |-> IF i <= n + 1 THEN f[i] ELSE E(f, i)]
    <2>2. ASSUME NEW i \in 1..((n + 1) + 1)
          PROVE  g[i] = IF i = 1 THEN first ELSE E(g, i)
      <3>1. CASE i = 1
        BY <2>1, <3>1, StartsAtUnfold
      <3>2. CASE i \in 2..(n + 1)
        <4>1. PICK k \in 1..n : i = k + 1 /\ k = i - 1
          BY <3>2
        <4>2. g[i] = f[i] /\ g[i - 1] = f[i - 1] /\ i # 1
          BY <3>2
        <4>3. f[i] = E(f, i)
          BY <2>1, <4>1, StartsAtUnfold
        <4> HIDE DEF g
        <4> QED BY <4>2, <4>3
      <3>3. CASE i = (n + 1) + 1
        <4>1. g[i] = E(f, i) /\ g[i - 1] = f[i - 1] /\ i # 1
          BY <3>3
        <4> HIDE DEF g
        <4> QED BY <4>1
      <3> QED BY <3>1, <3>2, <3>3
    <2>3. g = [i \in 1..((n + 1) + 1) |-> IF i = 1 THEN first ELSE E(g, i)]
      BY <2>2
    <2> HIDE DEF g
    <2>4. \E x : StartsAt(x, n + 1, first, rs)
      BY <2>3 DEF StartsAt
    <2> QED BY <2>4
  <1> HIDE DEF Good
  <1>3. size \in Good
    BY <1>1, <1>2, InductiveSet
  <1> QED BY <1>3 DEF Good

LEMMA StartByRecursion ==
    ASSUME NEW m, m.answers \in Seq(Record)
    PROVE  StartsAt(Start(m), Len(m.answers), DNS_HEADER_SIZE + Len(QuestionBytes(m)), m.answers)
  <1>1. Len(m.answers) \in Nat
    OBVIOUS
  <1>2. \E f : StartsAt(f, Len(m.answers), DNS_HEADER_SIZE + Len(QuestionBytes(m)), m.answers)
    BY <1>1, StartsAtExists
  <1>3. Start(m) = CHOOSE f : StartsAt(f, Len(m.answers), DNS_HEADER_SIZE + Len(QuestionBytes(m)),
                                       m.answers)
    BY DEF Start, StartsAt
  <1> QED BY <1>2, <1>3

LEMMA StartsAtTyped ==
    ASSUME NEW f, NEW n \in Nat, NEW first \in Nat, NEW rs, StartsAt(f, n, first, rs),
           \A i \in 1..n : Sized(rs[i])
    PROVE  \A i \in 1..(n + 1) : f[i] \in Nat
  <1> DEFINE Good == {i \in Nat : i \in 1..(n + 1) => f[i] \in Nat}
  <1>1. 0 \in Good
    OBVIOUS
  <1>2. ASSUME NEW i \in Nat, i \in Good PROVE i + 1 \in Good
    <2> SUFFICES ASSUME i + 1 \in 1..(n + 1) PROVE f[i + 1] \in Nat
      OBVIOUS
    <2>1. CASE i = 0
      BY <2>1, StartsAtUnfold
    <2>2. CASE i # 0
      <3>1. i \in 1..n /\ f[i] \in Nat
        BY <1>2, <2>2
      <3>2. f[i + 1] = f[i] + NameLen(rs[i].owner) + ANSWER_SIZE + RdataLen(rs[i])
        BY <3>1, StartsAtUnfold
      <3>3. NameLen(rs[i].owner) \in Nat /\ RdataLen(rs[i]) \in Nat /\ ANSWER_SIZE \in Nat
        BY <3>1 DEF Sized, ANSWER_SIZE
      <3> QED BY <3>1, <3>2, <3>3
    <2> QED BY <2>1, <2>2
  <1> HIDE DEF Good
  <1>3. \A i \in Nat : i \in Good
    BY <1>1, <1>2, InductiveSet
  <1> QED BY <1>3 DEF Good

-----------------------------------------------------------------------------
\* Messages that agree on the question and the answers.
SameContent(m, n) == m.qname = n.qname /\ m.qtype = n.qtype /\ m.answers = n.answers

AnswersBytes(m) == FlattenSeq([i \in DOMAIN m.answers |-> AnswerBytes(m, m.answers[i])])

LEMMA SameBytes ==
    ASSUME NEW m, NEW n, SameContent(m, n)
    PROVE  QuestionBytes(m) = QuestionBytes(n) /\ AnswersBytes(m) = AnswersBytes(n)
  <1>1. m.qname = n.qname /\ m.qtype = n.qtype /\ m.answers = n.answers
    BY DEF SameContent
  <1>2. QuestionBytes(m) = QuestionBytes(n)
    BY <1>1 DEF QuestionBytes
  <1> DEFINE S(x) == CHOOSE f : StartsAt(f, Len(x.answers), DNS_HEADER_SIZE + Len(QuestionBytes(x)),
                                         x.answers)
  <1>3. Start(m) = S(m) /\ Start(n) = S(n)
    BY DEF Start, StartsAt
  <1>4. Start(m) = Start(n)
    BY <1>1, <1>2, <1>3
  <1>5. ASSUME NEW k PROVE LabelsAt(m, k) = LabelsAt(n, k) /\ OffsetAt(m, k) = OffsetAt(n, k)
    BY <1>1, <1>4 DEF LabelsAt, OffsetAt
  <1>6. ASSUME NEW x PROVE NameBytes(m, x) = NameBytes(n, x)
    BY <1>5 DEF NameBytes
  <1>7. ASSUME NEW r PROVE AnswerBytes(m, r) = AnswerBytes(n, r)
    <2>1. NameBytes(m, r.owner) = NameBytes(n, r.owner) /\ NameBytes(m, r.target) = NameBytes(n, r.target)
      BY <1>6
    <2> QED BY <2>1, Zenon DEF AnswerBytes
  <1>8. [i \in DOMAIN m.answers |-> AnswerBytes(m, m.answers[i])] =
            [i \in DOMAIN n.answers |-> AnswerBytes(n, n.answers[i])]
    BY <1>1, <1>7
  <1> QED BY <1>2, <1>8 DEF AnswersBytes

-----------------------------------------------------------------------------
\* Two bytes, also of what does not fit in them.
LEMMA NumberBytes ==
    ASSUME NEW n \in Nat
    PROVE  U16(n) \in Seq(Nat) /\ U32(n) \in Seq(Nat)
  <1>1. \A x \in Nat : U16(x) \in Seq(Nat)
    <2> SUFFICES ASSUME NEW x \in Nat PROVE U16(x) \in Seq(Nat)
      OBVIOUS
    <2>1. Hi(x) \in Nat /\ Lo(x) \in Nat
      BY DEF Hi, Lo
    <2> QED BY <2>1 DEF U16, Hi, Lo
  <1>2. n \div 65536 \in Nat /\ n % 65536 \in Nat
    OBVIOUS
  <1>3. PICK a \in Seq(Nat), b \in Seq(Nat) : a = U16(n \div 65536) /\ b = U16(n % 65536)
    BY <1>1, <1>2
  <1>4. a \o b \in Seq(Nat)
    OBVIOUS
  <1> QED BY <1>1, <1>3, <1>4 DEF U32

\* Pointers lead somewhere.
Resolves(m, n) ==
    n.at # Plain => n.at \in 0..Len(m.answers) /\ n.drop < Len(LabelsAt(m, n.at))

Answered(m) ==
    /\ m.id \in Words /\ m.flags \in Words /\ m.qtype \in Words /\ m.opt \in {0, 1}
    /\ m.qname \in Seq(DnsLabel)
    /\ m.answers \in Seq(Record) /\ Len(m.answers) \in Words
    /\ \A k \in 1..Len(m.answers) :
           /\ Resolves(m, m.answers[k].owner)
           /\ m.answers[k].type = RRTYPE_CNAME => Resolves(m, m.answers[k].target)

LEMMA RecordParts ==
    ASSUME NEW r \in Record
    PROVE  /\ r.owner \in EncodedName /\ r.target \in EncodedName /\ r.type \in Words
           /\ r.ttl \in Ttl /\ r.ttl \in Nat /\ r.addr \in Bytes /\ Sized(r)
  <1>0. /\ r.owner \in EncodedName /\ r.target \in EncodedName /\ r.type \in Words
        /\ r.ttl \in Ttl /\ r.addr \in Bytes
    BY DEF Record
  <1>1. /\ r.owner \in EncodedName /\ r.target \in EncodedName /\ r.type \in Words
        /\ r.ttl \in Nat /\ r.addr \in Bytes
    BY <1>0, TtlType
  <1>2. ASSUME NEW n \in EncodedName PROVE NameLen(n) \in Nat
    <2>1. n.labels \in Seq(DnsLabel)
      BY DEF EncodedName
    <2>2. Len(LabelBytes(n.labels)) \in Nat
      BY <2>1, LabelBytesType DEF Bytes
    <2> QED BY <2>2 DEF NameLen
  <1>3. Len(r.addr) \in Nat
    BY <1>1 DEF Bytes
  <1> QED BY <1>0, <1>1, <1>2, <1>3 DEF Sized, RdataLen

LEMMA PointedNumbers ==
    ASSUME NEW m, Answered(m), NEW k \in 0..Len(m.answers)
    PROVE  OffsetAt(m, k) \in Nat /\ LabelsAt(m, k) \in Seq(DnsLabel)
  <1>1. /\ m.answers \in Seq(Record) /\ m.qname \in Seq(DnsLabel) /\ m.qtype \in Words
        /\ Len(m.answers) \in Nat
    BY DEF Answered
  <1>2. CASE k = 0
    BY <1>1, <1>2 DEF OffsetAt, LabelsAt, DNS_HEADER_SIZE
  <1>3. CASE k # 0
    <2>1. PICK r \in Record : r = m.answers[k]
      BY <1>1, <1>3
    <2>2. NameLen(r.owner) \in Nat /\ r.target.labels \in Seq(DnsLabel)
      BY RecordParts DEF Sized, EncodedName
    <2>3. Start(m)[k] \in Nat
      <3>1. PICK n \in Nat, first \in Nat :
                n = Len(m.answers) /\ first = DNS_HEADER_SIZE + Len(QuestionBytes(m))
        <4>1. QuestionBytes(m) = QuestionFor(m.qname, m.qtype)
          BY DEF QuestionBytes, QuestionFor
        <4>2. QuestionBytes(m) \in Bytes
          BY <1>1, <4>1, QuestionLayout DEF QuestionOf
        <4>3. Len(QuestionBytes(m)) \in Nat
          BY <4>2 DEF Bytes
        <4> QED BY <1>1, <4>3 DEF DNS_HEADER_SIZE
      <3>2. StartsAt(Start(m), n, first, m.answers)
        BY <1>1, <3>1, StartByRecursion
      <3>3. \A i \in 1..n : Sized(m.answers[i])
        BY <1>1, <3>1, RecordParts
      <3>4. k \in 1..(n + 1)
        BY <1>3, <3>1
      <3> QED BY <3>2, <3>3, <3>4, StartsAtTyped
    <2> QED BY <2>1, <2>2, <2>3, <1>3 DEF OffsetAt, LabelsAt, ANSWER_SIZE
  <1> QED BY <1>2, <1>3

LEMMA NameNumbers ==
    ASSUME NEW m, Answered(m), NEW n \in EncodedName, Resolves(m, n)
    PROVE  NameBytes(m, n) \in Seq(Nat)
  <1>1. n.labels \in Seq(DnsLabel) /\ n.drop \in Nat
    BY DEF EncodedName
  <1>2. PICK lb \in Seq(Nat) : lb = LabelBytes(n.labels)
    BY <1>1, LabelBytesType, BytesAreNumbers
  <1>3. CASE n.at = Plain
    <2>1. NameBytes(m, n) = lb \o <<0>>
      BY <1>2, <1>3 DEF NameBytes
    <2> QED BY <2>1
  <1>4. CASE n.at # Plain
    <2>1. n.at \in 0..Len(m.answers) /\ n.drop < Len(LabelsAt(m, n.at))
      BY <1>4 DEF Resolves
    <2>2. PICK o \in Nat, s \in Seq(DnsLabel) : o = OffsetAt(m, n.at) /\ s = LabelsAt(m, n.at)
      BY <2>1, PointedNumbers
    <2>3. PICK x \in Seq(DnsLabel) : x = SubSeq(s, 1, n.drop)
      <3>1. SubSeq(s, 1, n.drop) \in Seq(DnsLabel)
        BY <1>1, <2>1, <2>2
      <3> QED BY <3>1
    <2>4. PICK u \in Nat : u = Len(LabelBytes(x))
      BY LabelBytesType DEF Bytes
    <2>5. 256 * COMPRESS_FLAG + o + u \in Nat
      BY DEF COMPRESS_FLAG
    <2>6. PICK p \in Seq(Nat) : p = U16(256 * COMPRESS_FLAG + o + u)
      BY <2>5, NumberBytes
    <2>7. NameBytes(m, n) = lb \o p
      BY <1>2, <1>4, <2>2, <2>3, <2>4, <2>6 DEF NameBytes
    <2> QED BY <2>7
  <1> QED BY <1>3, <1>4

LEMMA AnswerNumbers ==
    ASSUME NEW m, Answered(m), NEW k \in 1..Len(m.answers)
    PROVE  AnswerBytes(m, m.answers[k]) \in Seq(Nat)
  <1>1. PICK r \in Record : r = m.answers[k]
    BY DEF Answered
  <1>2. /\ r.owner \in EncodedName /\ r.target \in EncodedName /\ r.ttl \in Nat /\ r.addr \in Bytes
        /\ r.type \in Nat /\ RdataLen(r) \in Nat
    BY RecordParts, WordType DEF Sized
  <1>3. Resolves(m, r.owner) /\ (r.type = RRTYPE_CNAME => Resolves(m, r.target))
    BY <1>1 DEF Answered
  <1>4. PICK a \in Seq(Nat) : a = NameBytes(m, r.owner)
    BY <1>2, <1>3, NameNumbers
  <1>5. PICK d \in Seq(Nat) : d = (IF r.type = RRTYPE_CNAME THEN NameBytes(m, r.target) ELSE r.addr)
    BY <1>2, <1>3, NameNumbers, BytesAreNumbers
  <1>6. PICK t \in Seq(Nat), c \in Seq(Nat), l \in Seq(Nat), s \in Seq(Nat) :
            t = U16(r.type) /\ c = U16(HTTP_CLASS) /\ l = U32(r.ttl) /\ s = U16(RdataLen(r))
    BY <1>2, NumberBytes DEF HTTP_CLASS
  <1>7. AnswerBytes(m, r) = a \o t \o c \o l \o s \o d
    BY <1>4, <1>5, <1>6 DEF AnswerBytes
  <1>8. a \o t \o c \o l \o s \o d \in Seq(Nat)
    OBVIOUS
  <1> QED BY <1>1, <1>7, <1>8

\* What follows the header.
Behind(m) == QuestionBytes(m) \o AnswersBytes(m) \o Opt(m.opt)

LEMMA EncodeAnswered ==
    ASSUME NEW m, Answered(m)
    PROVE  MessageOf(Encode(m), m.id, m.flags, Len(m.answers), m.opt, Behind(m))
  <1>1. /\ m.id \in Words /\ m.flags \in Words /\ m.qtype \in Words /\ m.opt \in {0, 1}
        /\ m.qname \in Seq(DnsLabel) /\ m.answers \in Seq(Record) /\ Len(m.answers) \in Words
    BY DEF Answered
  <1>2. PICK h \in Seq(Nat) : h = Header(m.id, m.flags, Len(m.answers), m.opt)
    <2>1. m.opt \in Words
      BY <1>1, SmallWords
    <2> QED BY <1>1, <2>1, HeaderBytes, BytesAreNumbers DEF HeaderOf
  <1>3. PICK q \in Seq(Nat) : q = QuestionBytes(m)
    <2>1. QuestionBytes(m) = QuestionFor(m.qname, m.qtype)
      BY DEF QuestionBytes, QuestionFor
    <2> QED BY <1>1, <2>1, QuestionLayout, BytesAreNumbers DEF QuestionOf
  <1>4. PICK a \in Seq(Nat) : a = AnswersBytes(m)
    <2> DEFINE bs == [i \in DOMAIN m.answers |-> AnswerBytes(m, m.answers[i])]
    <2>1. DOMAIN m.answers = 1..Len(m.answers) /\ Len(m.answers) \in Nat
      BY <1>1
    <2>2. \A i \in 1..Len(m.answers) : AnswerBytes(m, m.answers[i]) \in Seq(Nat)
      BY AnswerNumbers
    <2>3. bs \in Seq(Seq(Nat))
      BY <2>1, <2>2
    <2> HIDE DEF bs
    <2>4. FlattenSeq(bs) \in Seq(Nat)
      BY <2>3, FlattenTyped
    <2> QED BY <2>4 DEF bs, AnswersBytes
  <1>5. PICK o \in Seq(Nat) : o = Opt(m.opt)
    BY OptType, BytesAreNumbers
  <1>6. Encode(m) = h \o q \o a \o o
    BY <1>2, <1>3, <1>4, <1>5 DEF Encode, Opt, AnswersBytes
  <1>7. h \o q \o a \o o = h \o (q \o a \o o) /\ q \o a \o o \in Seq(Nat)
    <2>1. q \o a \in Seq(Nat)
      OBVIOUS
    <2>2. PICK c \in Seq(Nat) : c = q \o a
      BY <2>1
    <2>3. (h \o q) \o a = h \o c
      BY <2>2
    <2>4. (h \o c) \o o = h \o (c \o o) /\ c \o o \in Seq(Nat)
      OBVIOUS
    <2> QED BY <2>2, <2>3, <2>4
  <1>8. Encode(m) = Header(m.id, m.flags, Len(m.answers), m.opt) \o Behind(m) /\ Behind(m) \in Seq(Nat)
    BY <1>2, <1>3, <1>4, <1>5, <1>6, <1>7 DEF Behind
  <1>9. m.opt \in Words
    BY <1>1, SmallWords
  <1>10. MessageOf(Header(m.id, m.flags, Len(m.answers), m.opt) \o Behind(m),
                   m.id, m.flags, Len(m.answers), m.opt, Behind(m))
    BY <1>1, <1>8, <1>9, HeaderAndRest
  <1> QED BY <1>8, <1>10

-----------------------------------------------------------------------------
(***************************************************************************)
(* Messages handled as C strings.                                          *)
(***************************************************************************)
\* The copy of a message stops at the fifth byte at the latest, and has the id
\* if no byte of it is zero.
LEMMA CopiesId ==
    ASSUME NEW d \in Seq(Nat), Len(d) = 12, NEW s \in Seq(Nat), Len(s) >= 5, s[5] = 0
    PROVE  /\ strcpy(d, s) \in Seq(Nat) /\ Len(strcpy(d, s)) = 12
           /\ s[1] # 0 /\ s[2] # 0 => strcpy(d, s)[1] = s[1] /\ strcpy(d, s)[2] = s[2]
  <1>1. PICK n \in Nat : n = CStringLen(s) /\ StringOf(s, n)
    BY StringLength DEF StringOf
  <1>2. n <= 4
    <2>1. 5 \in 1..Len(s)
      OBVIOUS
    <2> QED BY <1>1, <2>1 DEF StringOf
  <1> DEFINE a == SubSeq(s, 1, n)
             e == a \o <<0>>
             b == SubSeq(d, n + 2, Len(d))
  <1>3. a \in Seq(Nat) /\ Len(a) = n /\ \A i \in 1..n : a[i] = s[i]
    <2>1. n <= Len(s)
      BY <1>1 DEF StringOf
    <2> QED BY <2>1, Prefix
  <1>4. b \in Seq(Nat) /\ Len(b) = 11 - n
    <2>1. n + 2 \in Nat /\ 1 <= n + 2 /\ n + 2 <= Len(d) /\ Len(d) - (n + 2) + 1 = 11 - n
      BY <1>2
    <2> QED BY <2>1, Suffix
  <1>5. strcpy(d, s) = e \o b
    BY <1>1 DEF strcpy
  <1> HIDE DEF a, b
  <1>6. e \in Seq(Nat) /\ Len(e) = n + 1 /\ \A i \in 1..n : e[i] = s[i]
    <2>1. 0 \in Nat /\ e = Append(a, 0)
      BY <1>3, Appended
    <2> QED BY <2>1, <1>3, Appended
  <1> HIDE DEF e
  <1>7. e \o b \in Seq(Nat) /\ Len(e \o b) = 12 /\ \A i \in 1..(n + 1) : (e \o b)[i] = e[i]
    BY <1>2, <1>4, <1>6, Join
  <1>8. ASSUME s[1] # 0, s[2] # 0 PROVE (e \o b)[1] = s[1] /\ (e \o b)[2] = s[2]
    <2>1. n < Len(s) => s[n + 1] = 0
      BY <1>1 DEF StringOf
    <2>2. n # 0 /\ n # 1
      BY <2>1, <1>8
    <2>3. n >= 2
      BY <2>2
    <2> QED BY <2>3, <1>6, <1>7
  <1> QED BY <1>5, <1>7, <1>8

\* The refusal built in the copy.
LEMMA RefusesInPlace ==
    ASSUME NEW b \in Seq(Nat), Len(b) = 12
    PROVE  LET r == Respond(b, RCODE_REFUSED)
           IN  /\ r \in Seq(Nat) /\ Len(r) = 12
               /\ r[1] = b[1] /\ r[2] = b[2] /\ r[3] = 128 /\ r[4] = 5
  <1>1. PICK w \in Words : w = FLAG_RESPONSE_NORMAL /\ Hi(w) = 128 /\ Lo(w) = 0
    BY ResponseFlags
  <1>2. PICK c \in Seq(Nat) : c = set_header_flag(b, FLAG_RESPONSE_NORMAL) /\ SetsWord(c, b, 2, w)
    <2>1. 2 \in Nat /\ 2 + 2 <= Len(b)
      OBVIOUS
    <2>2. SetsWord(SetWord(b, 2, w), b, 2, w)
      BY <2>1, SetWordFacts
    <2> QED BY <2>2, <1>1 DEF set_header_flag, SetsWord
  <1>3. Len(c) = 12 /\ c[1] = b[1] /\ c[2] = b[2] /\ c[3] = 128 /\ c[4] = 0
    BY <1>1, <1>2 DEF SetsWord
  <1>4. 16 * (c[4] \div 16) + RCODE_REFUSED = 5
    <2>1. 0 \div 16 = 0
      OBVIOUS
    <2> QED BY <2>1, <1>3 DEF RCODE_REFUSED
  <1>5. Respond(b, RCODE_REFUSED) = [c EXCEPT ![4] = 5]
    BY <1>2, <1>4 DEF Respond, set_header_rcode
  <1> DEFINE e == [c EXCEPT ![4] = 5]
  <1>6. e \in Seq(Nat) /\ Len(e) = 12 /\ e[4] = 5 /\ e[1] = c[1] /\ e[2] = c[2] /\ e[3] = c[3]
    <2>1. 4 \in 1..Len(c) /\ 5 \in Nat
      BY <1>3
    <2>2. /\ e \in Seq(Nat) /\ Len(e) = Len(c) /\ e[4] = 5
          /\ \A i \in 1..Len(c) : i # 4 => e[i] = c[i]
      BY <2>1, Replaced
    <2> HIDE DEF e
    <2> QED BY <2>2, <1>3
  <1> HIDE DEF e
  <1> QED BY <1>3, <1>5, <1>6 DEF e

LEMMA OctetPrefix ==
    ASSUME NEW s \in Seq(Nat), NEW n \in Nat, n <= Len(s)
    PROVE  LET t == SubSeq(s, 1, n)
           IN  t \in Seq(Nat) /\ Len(t) = n /\ \A i \in 1..n : t[i] = s[i]
  BY Prefix

LEMMA TimeoutReply ==
    ASSUME NEW r \in Seq(Nat), Len(r) = 12, NEW id \in Words, Hi(id) # 0, Lo(id) # 0,
           r[1] = Hi(id), r[2] = Lo(id), r[3] = 128, r[4] = 5
    PROVE  Refusal(SubSeq(r, 1, CStringLen(r)), id)
  <1>1. PICK n \in Nat : n = CStringLen(r) /\ StringOf(r, n)
    BY StringLength DEF StringOf
  <1>2. n >= 4 /\ n <= 12
    <2>1. n <= 12 /\ (n < 12 => r[n + 1] = 0)
      BY <1>1 DEF StringOf
    <2>2. r[0 + 1] # 0 /\ r[1 + 1] # 0 /\ r[2 + 1] # 0 /\ r[3 + 1] # 0
      OBVIOUS
    <2>3. n # 0 /\ n # 1 /\ n # 2 /\ n # 3
      BY <2>1, <2>2
    <2> QED BY <2>1, <2>3
  <1> DEFINE t == SubSeq(r, 1, n)
             x == SubSeq(t, 1, 4)
  <1>3. t \in Seq(Nat) /\ Len(t) = n /\ \A i \in 1..n : t[i] = r[i]
    <2>1. n <= Len(r)
      BY <1>2
    <2> QED BY <2>1, OctetPrefix
  <1> HIDE DEF t
  <1>4. x \in Seq(Nat) /\ Len(x) = 4 /\ \A i \in 1..4 : x[i] = t[i]
    BY <1>2, <1>3, Prefix
  <1> HIDE DEF x
  <1>5. x[1] = Hi(id) /\ x[2] = Lo(id) /\ x[3] = 128 /\ x[4] = 5
    BY <1>2, <1>3, <1>4
  <1>6. PICK w \in Words : w = FLAG_RESPONSE_NORMAL + RCODE_REFUSED /\ Hi(w) = 128 /\ Lo(w) = 5
    BY ResponseFlags DEF RCODE_REFUSED
  <1>7. PICK y \in Bytes : y = U16(id) \o U16(w) /\ AddsWord(y, U16(id), w)
    BY WordBytes, JoinWord DEF AddsWord
  <1>8. /\ y \in Seq(Nat) /\ Len(y) = 4
        /\ y[1] = Hi(id) /\ y[2] = Lo(id) /\ y[3] = 128 /\ y[4] = 5
    <2>1. Len(U16(id)) = 2 /\ U16(id)[1] = Hi(id) /\ U16(id)[2] = Lo(id)
      BY WordBytes
    <2>2. y \in Seq(Nat)
      BY BytesAreNumbers
    <2>3. PICK u : u = U16(id)
      OBVIOUS
    <2>4. AddsWord(y, u, w) /\ Len(u) = 2 /\ u[1] = Hi(id) /\ u[2] = Lo(id)
      BY <2>1, <2>3, <1>7
    <2> QED BY <2>2, <2>4, <1>6 DEF AddsWord
  <1>9. x = y
    <2>1. \A i \in 1..Len(x) : x[i] = y[i]
      BY <1>4, <1>5, <1>8
    <2>2. x \in Seq(Nat) /\ y \in Seq(Nat) /\ Len(x) = Len(y)
      BY <1>4, <1>8
    <2> QED BY <2>1, <2>2, SameSequence
  <1> QED BY <1>1, <1>2, <1>3, <1>6, <1>7, <1>9 DEF Refusal, t, x

-----------------------------------------------------------------------------
(***************************************************************************)
(* The reply with records.                                                 *)
(***************************************************************************)
StoredRecord == [ttl : StoredTtl, addr : [1..16 -> Octets]]

\* What main hands to write_dns_response_by_query, and what that writes.
Found(m, list) ==
    [i \in DOMAIN list |-> [name |-> Dotted(m.qname), type |-> m.qtype, class_ |-> HTTP_CLASS,
                            ttl |-> list[i].ttl, addr |-> list[i].addr]]
Written(found) ==
    [i \in DOMAIN found |-> write_dns_answer(found[i].name, found[i].type, found[i].class_,
                                             found[i].ttl, found[i].addr)]

LEMMA MaxWithZero == ASSUME NEW t \in Int PROVE Max({t, 0}) = (IF t >= 0 THEN t ELSE 0)
  <1> DEFINE x == IF t >= 0 THEN t ELSE 0
  <1>1. x \in {t, 0} /\ \A y \in {t, 0} : x >= y
    OBVIOUS
  <1>2. \A z \in {t, 0} : (\A y \in {t, 0} : z >= y) => z = x
    OBVIOUS
  <1> HIDE DEF x
  <1>3. Max({t, 0}) \in {t, 0} /\ \A y \in {t, 0} : Max({t, 0}) >= y
    BY <1>1 DEF Max
  <1>4. Max({t, 0}) = x
    BY <1>2, <1>3
  <1> QED BY <1>4 DEF x

LEMMA AddressBytes ==
    ASSUME NEW a \in [1..16 -> Octets], NEW size \in {4, 16}
    PROVE  SubSeq(a, 1, size) \in Seq(Octets) /\ Len(SubSeq(a, 1, size)) = size
  <1>1. \A i \in 1..16 : a[i] \in Octets
    OBVIOUS
  <1>2. SubSeq(a, 1, size) = [i \in 1..size |-> a[i]]
    OBVIOUS
  <1>3. [i \in 1..size |-> a[i]] \in Seq(Octets) /\ Len([i \in 1..size |-> a[i]]) = size
    BY <1>1
  <1> QED BY <1>2, <1>3

\* Each record is written as the format wants it.
LEMMA RecordWritten ==
    ASSUME NEW m \in Bare, m.qname # <<>>, NoZero(m.qname), m.qtype \in Cacheable,
           NEW list \in Seq(StoredRecord), NEW i \in 1..Len(list)
    PROVE  LET found == Found(m, list)
               reply == RecordsReply(m, found)
           IN  /\ Written(found)[i] = AnswerBytes(reply, reply.answers[i])
               /\ Written(found)[i] \in Bytes
  <1> DEFINE found == Found(m, list)
             reply == RecordsReply(m, found)
             f == found[i]
             r == reply.answers[i]
             size == AddrSize(m.qtype)
  <1>1. m.qname \in Seq(DnsLabel) /\ m.qtype \in Words
    BY DEF Bare
  <1>2. list[i].ttl \in StoredTtl /\ list[i].addr \in [1..16 -> Octets] /\ DOMAIN list = 1..Len(list)
    <2>1. PICK x \in StoredRecord : x = list[i]
      OBVIOUS
    <2>2. x.ttl \in StoredTtl /\ x.addr \in [1..16 -> Octets]
      BY DEF StoredRecord
    <2>3. DOMAIN list = 1..Len(list)
      OBVIOUS
    <2> QED BY <2>1, <2>2, <2>3
  <1>3. /\ DOMAIN found = 1..Len(list)
        /\ f = [name |-> Dotted(m.qname), type |-> m.qtype, class_ |-> HTTP_CLASS,
                ttl |-> list[i].ttl, addr |-> list[i].addr]
    BY <1>2 DEF Found
  <1> HIDE DEF found
  <1>4. r = [owner |-> [labels |-> m.qname, at |-> Plain, drop |-> 0],
             type |-> m.qtype, ttl |-> Max({f.ttl, 0}), addr |-> SubSeq(f.addr, 1, size)]
    BY <1>3 DEF RecordsReply, Bare
  <1>5. Written(found)[i] = write_dns_answer(f.name, f.type, f.class_, f.ttl, f.addr)
    BY <1>3 DEF Written
  <1> HIDE DEF f, r, reply
  <1>6. PICK t \in Ttl : t = (IF f.ttl >= 0 THEN f.ttl ELSE 0) /\ t = r.ttl
    <2>1. PICK z \in StoredTtl : z = f.ttl /\ r.ttl = Max({z, 0})
      BY <1>2, <1>3, <1>4
    <2>2. MaxTtl \in Nat /\ z \in Int /\ z <= MaxTtl
      BY TtlType
    <2>3. Max({z, 0}) = (IF z >= 0 THEN z ELSE 0)
      BY <2>2, MaxWithZero
    <2>4. (IF z >= 0 THEN z ELSE 0) \in Nat /\ (IF z >= 0 THEN z ELSE 0) <= MaxTtl
      BY <2>2
    <2> QED BY <2>1, <2>3, <2>4, TtlType
  <1>7. PICK a \in Seq(Octets) : a = SubSeq(f.addr, 1, size) /\ a = r.addr /\ Len(a) = size
    <2>1. size \in {4, 16} /\ f.addr \in [1..16 -> Octets]
      BY <1>2, <1>3 DEF AddrSize
    <2>2. r.addr = SubSeq(f.addr, 1, size)
      BY <1>4
    <2>3. SubSeq(f.addr, 1, size) \in Seq(Octets) /\ Len(SubSeq(f.addr, 1, size)) = size
      BY <2>1, AddressBytes
    <2> QED BY <2>2, <2>3
  <1>8. PICK n \in Seq(Octets) : n = str_to_label(f.name) /\ n = NameBytes(reply, r.owner)
    <2>1. f.name = Dotted(m.qname) /\ r.owner.labels = m.qname /\ r.owner.at = Plain
      BY <1>3, <1>4
    <2>2. str_to_label(f.name) = LabelBytes(m.qname) \o <<0>>
      BY <1>1, <2>1, LabelsOfText
    <2>3. NameBytes(reply, r.owner) = LabelBytes(m.qname) \o <<0>>
      BY <2>1 DEF NameBytes
    <2>4a. 0 \in Octets
      BY OctetType
    <2>4. LabelBytes(m.qname) \in Seq(Octets) /\ 0 \in Octets
      BY <1>1, <2>4a, LabelBytesType DEF Bytes
    <2>5. LabelBytes(m.qname) \o <<0>> \in Seq(Octets)
      BY <2>4, Appended
    <2> QED BY <2>2, <2>3, <2>5
  <1>9. RdataLen(r) = size /\ r.type # RRTYPE_CNAME /\ r.type = m.qtype /\ f.type = m.qtype
        /\ f.class_ = HTTP_CLASS
    <2>1. r.type = m.qtype /\ f.type = m.qtype /\ f.class_ = HTTP_CLASS
      BY <1>3, <1>4
    <2>2. m.qtype # RRTYPE_CNAME
      BY DEF Cacheable, RRTYPE_A, RRTYPE_AAAA, RRTYPE_CNAME
    <2> QED BY <1>7, <2>1, <2>2 DEF RdataLen
  <1>10. PICK u \in Seq(Octets), c \in Seq(Octets), l \in Seq(Octets), s \in Seq(Octets) :
             u = U16(m.qtype) /\ c = U16(HTTP_CLASS) /\ l = U32(t) /\ s = U16(size)
    <2>0. 4 \in Words /\ 16 \in Words
      BY WordType
    <2>1. m.qtype \in Words /\ HTTP_CLASS \in Words /\ size \in Words
      BY <1>1, <2>0, SmallWords DEF HTTP_CLASS, AddrSize
    <2> HIDE DEF size
    <2> QED BY <2>1, WordBytes, TtlBytes DEF Bytes
  <1>11. write_dns_answer(f.name, f.type, f.class_, f.ttl, f.addr) = n \o u \o c \o l \o s \o a
    BY <1>6, <1>7, <1>8, <1>9, <1>10 DEF write_dns_answer
  <1>12. AnswerBytes(reply, r) = n \o u \o c \o l \o s \o a
    BY <1>6, <1>7, <1>8, <1>9, <1>10 DEF AnswerBytes
  <1>13. n \o u \o c \o l \o s \o a \in Bytes
    BY DEF Bytes
  <1> QED BY <1>5, <1>11, <1>12, <1>13 DEF r, reply, found

LEMMA RecordsWritten ==
    ASSUME NEW m \in Bare, m.qname # <<>>, NoZero(m.qname), m.qtype \in Cacheable, NEW list \in Seq(StoredRecord)
    PROVE  LET found == Found(m, list)
               reply == RecordsReply(m, found)
           IN  /\ Len(found) = Len(list) /\ Len(reply.answers) = Len(list)
               /\ FlattenSeq(Written(found)) = AnswersBytes(reply)
               /\ AnswersBytes(reply) \in Bytes
               /\ reply.id = m.id /\ reply.flags = FLAG_RESPONSE_NORMAL /\ reply.opt = 0
               /\ QuestionBytes(reply) = QuestionFor(m.qname, m.qtype)
  <1> DEFINE found == Found(m, list)
             reply == RecordsReply(m, found)
             bytes == [i \in DOMAIN reply.answers |-> AnswerBytes(reply, reply.answers[i])]
  <1>1. DOMAIN list = 1..Len(list) /\ Len(list) \in Nat
    OBVIOUS
  <1>2. DOMAIN found = 1..Len(list) /\ Len(found) = Len(list)
    BY <1>1 DEF Found
  <1>3. \A i \in 1..Len(list) : /\ Written(found)[i] = AnswerBytes(reply, reply.answers[i])
                                /\ Written(found)[i] \in Seq(Octets)
    BY RecordWritten DEF Bytes
  <1> HIDE DEF found
  <1>4. DOMAIN Written(found) = 1..Len(list)
    BY <1>2 DEF Written
  <1>5. /\ DOMAIN reply.answers = 1..Len(list) /\ Len(reply.answers) = Len(list)
        /\ reply.id = m.id /\ reply.flags = FLAG_RESPONSE_NORMAL /\ reply.opt = 0
        /\ reply.qname = m.qname /\ reply.qtype = m.qtype
    BY <1>1, <1>2 DEF RecordsReply, Bare
  <1> HIDE DEF reply
  <1>6. QuestionBytes(reply) = QuestionFor(m.qname, m.qtype)
    BY <1>5 DEF QuestionBytes, QuestionFor
  <1>7. bytes \in Seq(Seq(Octets)) /\ DOMAIN bytes = 1..Len(list)
    BY <1>1, <1>3, <1>5
  <1>8. Written(found) = bytes
    <2>1. \A i \in 1..Len(list) : Written(found)[i] = bytes[i]
      BY <1>3, <1>5
    <2>2. Written(found) = [i \in 1..Len(list) |-> Written(found)[i]]
      BY <1>4 DEF Written
    <2> QED BY <2>1, <2>2, <1>5
  <1>9. AnswersBytes(reply) = FlattenSeq(bytes)
    BY DEF AnswersBytes
  <1> HIDE DEF bytes
  <1>10. FlattenSeq(bytes) \in Bytes
    BY <1>7, FlattenTyped DEF Bytes
  <1> QED BY <1>2, <1>5, <1>6, <1>8, <1>9, <1>10 DEF found, reply

\* b has the question q about the name behind its header.
HoldsQuestion(b, qname, q) ==
    /\ NameAt(b, 12, qname)
    /\ q \in Seq(Nat) /\ Len(q) = Len(LabelBytes(qname)) + 5
    /\ Len(LabelBytes(qname)) \in Nat
    /\ 12 + Len(q) <= Len(b) /\ \A i \in 1..Len(q) : b[12 + i] = q[i]

LEMMA QuestionInMessage ==
    ASSUME NEW b, NEW id, NEW flags, NEW an, NEW ad, NEW m \in Bare,
           MessageOf(b, id, flags, an, ad, Rest(m))
    PROVE  HoldsQuestion(b, m.qname, QuestionFor(m.qname, m.qtype))
  <1>1. m.qname \in Seq(DnsLabel) /\ m.qtype \in Words
    BY DEF Bare
  <1>2. PICK q \in Seq(Nat) : /\ q = QuestionFor(m.qname, m.qtype)
                              /\ QuestionOf(q, m.qname, m.qtype)
    BY <1>1, QuestionLayout, BytesAreNumbers DEF QuestionOf
  <1>3. PICK o \in Seq(Nat) : o = Opt(m.opt)
    BY OptType, BytesAreNumbers
  <1>4. PICK rest \in Seq(Nat) : rest = Rest(m) /\ rest = q \o o
    BY <1>2, <1>3, RestType DEF Rest
  <1>5. Len(q) <= Len(rest) /\ \A i \in 1..Len(q) : rest[i] = q[i]
    BY <1>4, Join
  <1>6. b \in Seq(Nat) /\ Len(b) = 12 + Len(rest) /\ \A i \in 1..Len(rest) : b[12 + i] = rest[i]
    BY <1>4 DEF MessageOf, GoesOn
  <1>7. 12 + Len(q) <= Len(b) /\ \A i \in 1..Len(q) : b[12 + i] = q[i]
    <2>1. Len(q) \in Nat /\ Len(rest) \in Nat
      OBVIOUS
    <2>2. 12 + Len(q) <= Len(b)
      BY <2>1, <1>5, <1>6
    <2>3. ASSUME NEW i \in 1..Len(q) PROVE b[12 + i] = q[i]
      <3>1. i \in 1..Len(rest)
        BY <2>1, <1>5
      <3> QED BY <3>1, <1>5, <1>6
    <2> QED BY <2>2, <2>3
  <1>8a. PICK lb : lb = LabelBytes(m.qname)
    OBVIOUS
  <1>8. PICK n \in Nat : lb = LabelBytes(m.qname) /\ n = Len(lb)
    BY <1>8a, <1>1, LabelBytesType DEF Bytes
  <1>9. Len(q) = n + 5 /\ q[n + 1] = 0 /\ \A i \in 1..n : q[i] = lb[i]
    BY <1>2, <1>8 DEF QuestionOf
  <1>10. NameAt(b, 12, m.qname)
    <2>1. 12 \in Nat /\ 12 + n + 1 <= Len(b)
      BY <1>6, <1>7, <1>9
    <2>2. \A i \in 1..n : b[12 + i] = lb[i]
      BY <1>7, <1>9
    <2>3. b[12 + n + 1] = 0
      <3>1. n + 1 \in 1..Len(q) /\ 12 + (n + 1) = 12 + n + 1
        BY <1>9
      <3> QED BY <3>1, <1>7, <1>9
    <2> QED BY <2>1, <2>2, <2>3, <1>6, <1>8 DEF NameAt
  <1> QED BY <1>2, <1>7, <1>8, <1>9, <1>10 DEF HoldsQuestion

LEMMA SetAdditionalCount ==
    ASSUME NEW b, NEW id, NEW flags, NEW an, NEW rest, NEW opt \in {0, 1},
           MessageOf(b, id, flags, an, 0, rest)
    PROVE  MessageOf([b EXCEPT ![12] = opt], id, flags, an, opt, rest)
  <1> DEFINE c == [b EXCEPT ![12] = opt]
  <1>1. /\ b \in Seq(Nat) /\ rest \in Seq(Nat) /\ Len(b) = 12 + Len(rest) /\ Len(rest) \in Nat
        /\ Starts(b, id, flags, an, 0) /\ \A i \in 1..Len(rest) : b[12 + i] = rest[i]
    BY DEF MessageOf, GoesOn
  <1>2. 12 \in 1..Len(b) /\ opt \in Nat
    BY <1>1
  <1>3. c \in Seq(Nat) /\ Len(c) = Len(b) /\ c[12] = opt /\ \A i \in 1..Len(b) : i # 12 => c[i] = b[i]
    BY <1>1, <1>2, Replaced
  <1> HIDE DEF c
  <1>4. \A i \in {1, 2, 3, 4, 5, 6, 7, 8, 9, 10, 11} : c[i] = b[i]
    BY <1>1, <1>3
  <1>5. Hi(opt) = 0 /\ Lo(opt) = opt /\ Hi(0) = 0
    BY SmallWords
  <1>6. Starts(c, id, flags, an, opt)
    BY <1>1, <1>3, <1>4, <1>5 DEF Starts
  <1>7. ASSUME NEW i \in 1..Len(rest) PROVE c[12 + i] = rest[i]
    <2>1. 12 + i \in 1..Len(b) /\ 12 + i # 12
      BY <1>1
    <2> QED BY <2>1, <1>1, <1>3
  <1>8. MessageOf(c, id, flags, an, opt, rest)
    BY <1>1, <1>3, <1>6, <1>7 DEF MessageOf, GoesOn
  <1> QED BY <1>8 DEF c

\* What the first part of a message is, and what comes when more is put behind.
LEMMA CutMessage ==
    ASSUME NEW b, NEW id, NEW flags, NEW an, NEW ad, NEW rest,
           MessageOf(b, id, flags, an, ad, rest),
           NEW q \in Seq(Nat), 12 + Len(q) <= Len(b), \A i \in 1..Len(q) : b[12 + i] = q[i]
    PROVE  MessageOf(SubSeq(b, 1, 12 + Len(q)), id, flags, an, ad, q)
  <1> DEFINE c == SubSeq(b, 1, 12 + Len(q))
  <1>1. b \in Seq(Nat) /\ Starts(b, id, flags, an, ad) /\ Len(q) \in Nat /\ 12 + Len(q) \in Nat
    BY DEF MessageOf
  <1>2. c \in Seq(Nat) /\ Len(c) = 12 + Len(q) /\ \A i \in 1..(12 + Len(q)) : c[i] = b[i]
    BY <1>1, Prefix
  <1> HIDE DEF c
  <1>3. \A i \in {1, 2, 3, 4, 5, 6, 7, 8, 9, 10, 11, 12} : c[i] = b[i]
    BY <1>1, <1>2
  <1>4. Starts(c, id, flags, an, ad)
    BY <1>1, <1>3 DEF Starts
  <1>5. ASSUME NEW i \in 1..Len(q) PROVE c[12 + i] = q[i]
    <2>1. 12 + i \in 1..(12 + Len(q))
      BY <1>1
    <2> QED BY <2>1, <1>2
  <1>6. MessageOf(c, id, flags, an, ad, q)
    BY <1>1, <1>2, <1>4, <1>5 DEF MessageOf, GoesOn
  <1> QED BY <1>6 DEF c

LEMMA ExtendMessage ==
    ASSUME NEW b, NEW id, NEW flags, NEW an, NEW ad, NEW rest, NEW t \in Seq(Nat),
           MessageOf(b, id, flags, an, ad, rest)
    PROVE  MessageOf(b \o t, id, flags, an, ad, rest \o t)
  <1> DEFINE c == b \o t
             d == rest \o t
  <1>1. /\ b \in Seq(Nat) /\ rest \in Seq(Nat) /\ Len(b) = 12 + Len(rest) /\ Len(rest) \in Nat
        /\ Len(t) \in Nat
        /\ Starts(b, id, flags, an, ad) /\ \A i \in 1..Len(rest) : b[12 + i] = rest[i]
    BY DEF MessageOf, GoesOn
  <1>2. /\ c \in Seq(Nat) /\ Len(c) = Len(b) + Len(t) /\ \A i \in 1..Len(b) : c[i] = b[i]
        /\ \A i \in 1..Len(t) : c[Len(b) + i] = t[i]
    <2>1. b \in Seq(Nat)
      BY DEF MessageOf
    <2> QED BY <2>1, Join
  <1>3. /\ d \in Seq(Nat) /\ Len(d) = Len(rest) + Len(t) /\ \A i \in 1..Len(rest) : d[i] = rest[i]
        /\ \A i \in 1..Len(t) : d[Len(rest) + i] = t[i]
    <2>1. rest \in Seq(Nat)
      BY DEF MessageOf
    <2> QED BY <2>1, Join
  <1> HIDE DEF c, d
  <1>4. \A i \in {1, 2, 3, 4, 5, 6, 7, 8, 9, 10, 11, 12} : c[i] = b[i]
    BY <1>1, <1>2
  <1>5. Starts(c, id, flags, an, ad)
    BY <1>1, <1>4 DEF Starts
  <1>6. ASSUME NEW i \in 1..Len(d) PROVE c[12 + i] = d[i]
    <2>1. CASE i <= Len(rest)
      <3>1. i \in 1..Len(rest) /\ 12 + i \in 1..Len(b)
        BY <1>1, <2>1
      <3> QED BY <3>1, <1>1, <1>2, <1>3
    <2>2. CASE i > Len(rest)
      <3>1. PICK j \in 1..Len(t) : i = Len(rest) + j /\ 12 + i = Len(b) + j
        <4>1. i - Len(rest) \in 1..Len(t) /\ i = Len(rest) + (i - Len(rest))
              /\ 12 + i = Len(b) + (i - Len(rest))
          BY <1>1, <1>3, <2>2
        <4> QED BY <4>1
      <3> QED BY <3>1, <1>2, <1>3
    <2> QED BY <2>1, <2>2, <1>1
  <1>7. Len(c) = 12 + Len(d)
    BY <1>1, <1>2, <1>3
  <1>8. MessageOf(c, id, flags, an, ad, d)
    BY <1>2, <1>3, <1>5, <1>6, <1>7 DEF MessageOf, GoesOn
  <1> QED BY <1>8 DEF c, d

\* The reply with records is the message it should be, but for the count of
\* additional records, which is the request's.
LEMMA RecordsReplied ==
    ASSUME NEW m \in Bare, m.qname # <<>>, NoZero(m.qname), m.qtype \in Cacheable,
           NEW list \in Seq(StoredRecord), Len(list) \in Words,
           NEW b, NEW flags, MessageOf(b, m.id, flags, 0, m.opt, Rest(m))
    PROVE  /\ write_dns_response_by_query(b, Found(m, list)) =
                  [Encode(RecordsReply(m, Found(m, list))) EXCEPT ![12] = m.opt]
           /\ write_dns_response_by_query(b, Found(m, list)) \in Bytes
  <1> DEFINE N == FLAG_RESPONSE_NORMAL
  <1>1. m.id \in Words /\ m.opt \in {0, 1} /\ m.qname \in Seq(DnsLabel) /\ N \in Words
    BY ResponseFlags DEF Bare
  <1>2. PICK found : found = Found(m, list)
    OBVIOUS
  <1>3. PICK reply : reply = RecordsReply(m, found)
    OBVIOUS
  <1>4. PICK w \in Words : w = Len(list)
    OBVIOUS
  <1>5. PICK t \in Seq(Nat) : t = AnswersBytes(reply) /\ t = FlattenSeq(Written(found)) /\ t \in Bytes
    BY <1>2, <1>3, RecordsWritten, BytesAreNumbers
  <1>6. /\ Len(found) = w /\ Len(reply.answers) = w /\ reply.id = m.id /\ reply.flags = N
        /\ reply.opt = 0
    BY <1>2, <1>3, <1>4, RecordsWritten
  <1>7. PICK q \in Seq(Nat) : q = QuestionFor(m.qname, m.qtype) /\ q = QuestionBytes(reply)
    <2>1. QuestionBytes(reply) = QuestionFor(m.qname, m.qtype)
      BY <1>2, <1>3, RecordsWritten
    <2> QED BY <2>1, QuestionInMessage DEF HoldsQuestion
  <1>8. PICK h : h = SetWord(set_header_flag(b, N), 6, Len(found)) /\ MessageOf(h, m.id, N, w, m.opt, Rest(m))
    <2>1. MessageOf(set_header_flag(b, N), m.id, N, 0, m.opt, Rest(m))
      BY <1>1, SetFlag
    <2> QED BY <2>1, <1>6, SetAnswerCount
  <1>9. /\ NameAt(h, 12, m.qname) /\ Len(q) = Len(LabelBytes(m.qname)) + 5
        /\ Len(LabelBytes(m.qname)) \in Nat
        /\ 12 + Len(q) <= Len(h) /\ \A i \in 1..Len(q) : h[12 + i] = q[i]
    <2>1. HoldsQuestion(h, m.qname, q)
      BY <1>7, <1>8, QuestionInMessage
    <2> QED BY <2>1 DEF HoldsQuestion
  <1>10. skip_to_answer(h) = 12 + Len(q)
    <2>1. SkipLabels(h, DNS_HEADER_SIZE) = 12 + Len(LabelBytes(m.qname))
      BY <1>1, <1>9, SkipsName DEF DNS_HEADER_SIZE
    <2> QED BY <2>1, <1>9 DEF skip_to_answer, QUESTION_SIZE
  <1>11. MessageOf(SubSeq(h, 1, 12 + Len(q)), m.id, N, w, m.opt, q)
    BY <1>8, <1>9, CutMessage
  <1>12. PICK x : /\ x = write_dns_response_by_query(b, found)
                  /\ MessageOf(x, m.id, N, w, m.opt, q \o t)
    <2>1. write_dns_response_by_query(b, found) = SubSeq(h, 1, 12 + Len(q)) \o t
      BY <1>5, <1>8, <1>10 DEF write_dns_response_by_query, Written
    <2> QED BY <2>1, <1>11, ExtendMessage
  <1>13. PICK y : y = Encode(reply) /\ MessageOf(y, m.id, N, w, 0, q \o t)
    <2>1. MessageOf(Header(m.id, N, w, 0) \o q, m.id, N, w, 0, q)
      BY <1>1, SmallWords, HeaderAndRest
    <2>2. MessageOf((Header(m.id, N, w, 0) \o q) \o t, m.id, N, w, 0, q \o t)
      BY <2>1, ExtendMessage
    <2>3. Encode(reply) = Header(m.id, N, w, 0) \o q \o t \o <<>>
      BY <1>5, <1>6, <1>7 DEF Encode, AnswersBytes
    <2>4. PICK z \in Seq(Nat) : z = Header(m.id, N, w, 0) \o q \o t
      BY <2>2 DEF MessageOf
    <2>5. z \o <<>> = z
      BY JoinEmpty
    <2> QED BY <2>2, <2>3, <2>4, <2>5
  <1>14. MessageOf([y EXCEPT ![12] = m.opt], m.id, N, w, m.opt, q \o t)
    <2>1a. PICK r, id : r = q \o t /\ id = m.id
      OBVIOUS
    <2>1. PICK o \in {0, 1} : o = m.opt /\ r = q \o t /\ id = m.id
      BY <1>1, <2>1a
    <2>2. MessageOf(y, id, N, w, 0, r)
      BY <2>1, <1>13
    <2>3. MessageOf([y EXCEPT ![12] = o], id, N, w, o, r)
      BY <2>2, SetAdditionalCount
    <2> QED BY <2>1, <2>3
  <1>15. x = [y EXCEPT ![12] = m.opt]
    BY <1>12, <1>14, OneMessage
  <1>16. x \in Bytes
    <2>1. q \in Bytes
      BY <1>1, <1>7, QuestionLayout DEF QuestionOf, Bare
    <2>2. PICK r \in Bytes : r = q \o t
      BY <2>1, <1>5, BytesJoin
    <2>3. m.opt \in Words
      BY <1>1, SmallWords
    <2>4. MessageOf(x, m.id, N, w, m.opt, r)
      BY <1>12, <2>2
    <2> QED BY <2>3, <2>4, <1>1, MessageBytes
  <1> QED BY <1>2, <1>3, <1>12, <1>13, <1>15, <1>16

-----------------------------------------------------------------------------
(***************************************************************************)
(* Whole messages: what the code makes of the encoding of a message is the *)
(* encoding of the message meant.                                          *)
(***************************************************************************)
LEMMA OwnQuery ==
    ASSUME NEW m \in Bare, m.flags = FLAG_QUERY, m.opt = 0, m.qname # <<>>, NoZero(m.qname)
    PROVE  write_dns_query(m.id, Dotted(m.qname), m.qtype) = Encode(m)
  <1>1. m.id \in Words /\ m.flags \in Words /\ m.qname \in Seq(DnsLabel) /\ m.qtype \in Words
    BY DEF Bare
  <1>2. PICK h : h = Header(m.id, m.flags, 0, 0)
    OBVIOUS
  <1>3. write_dns_header(m.id, FLAG_QUERY, 1) = h
    BY <1>2 DEF write_dns_header, Header
  <1>4. write_dns_question(Dotted(m.qname), HTTP_CLASS, m.qtype) = QuestionFor(m.qname, m.qtype)
    BY <1>1, LabelsOfText DEF write_dns_question, QuestionFor
  <1>5. PICK q \in Seq(Octets) : q = QuestionFor(m.qname, m.qtype)
    BY <1>1, QuestionLayout DEF QuestionOf, Bytes
  <1>6. Rest(m) = q
    <2>1. Opt(m.opt) = <<>>
      BY DEF Opt
    <2> QED BY <2>1, <1>5, JoinEmpty DEF Rest
  <1>7. Encode(m) = h \o q
    BY <1>2, <1>6, EncodeBare
  <1> QED BY <1>3, <1>4, <1>5, <1>7 DEF write_dns_query

\* A message is refused or said not to exist.
LEMMA RespondsEncoded ==
    ASSUME NEW m \in Bare, NEW rcode \in {RCODE_NAME_ERROR, RCODE_REFUSED}
    PROVE  LET n == [m EXCEPT !.flags = FLAG_RESPONSE_NORMAL + rcode]
           IN  n \in Bare /\ Respond(Encode(m), rcode) = Encode(n)
  <1> DEFINE n == [m EXCEPT !.flags = FLAG_RESPONSE_NORMAL + rcode]
  <1>1. /\ n \in Bare /\ n.id = m.id /\ n.flags = FLAG_RESPONSE_NORMAL + rcode /\ n.opt = m.opt
        /\ n.qname = m.qname /\ n.qtype = m.qtype
    BY ResponseFlags DEF Bare
  <1> HIDE DEF n
  <1>2. Rest(n) = Rest(m)
    BY <1>1 DEF Rest
  <1>3. MessageOf(Encode(m), m.id, m.flags, 0, m.opt, Rest(m))
    BY EncodeBare
  <1>4. MessageOf(Respond(Encode(m), rcode), m.id, FLAG_RESPONSE_NORMAL + rcode, 0, m.opt, Rest(m))
    BY <1>3, RespondFacts
  <1>5. MessageOf(Encode(n), m.id, FLAG_RESPONSE_NORMAL + rcode, 0, m.opt, Rest(m))
    BY <1>1, <1>2, EncodeBare
  <1>6. Respond(Encode(m), rcode) = Encode(n)
    BY <1>4, <1>5, OneMessage
  <1> QED BY <1>1, <1>6 DEF n

\* The id of a request or of an answer is replaced.
LEMMA SetsIdOfBare ==
    ASSUME NEW m \in Bare, NEW w \in Words
    PROVE  LET n == [m EXCEPT !.id = w]
           IN  n \in Bare /\ set_header_id(Encode(m), w) = Encode(n)
  <1> DEFINE n == [m EXCEPT !.id = w]
  <1>1. /\ n \in Bare /\ n.id = w /\ n.flags = m.flags /\ n.opt = m.opt
        /\ n.qname = m.qname /\ n.qtype = m.qtype
    BY DEF Bare
  <1> HIDE DEF n
  <1>2. Rest(n) = Rest(m)
    BY <1>1 DEF Rest
  <1>3. MessageOf(set_header_id(Encode(m), w), w, m.flags, 0, m.opt, Rest(m))
    BY EncodeBare, SetId
  <1>4. MessageOf(Encode(n), w, m.flags, 0, m.opt, Rest(m))
    BY <1>1, <1>2, EncodeBare
  <1>5. set_header_id(Encode(m), w) = Encode(n)
    BY <1>3, <1>4, OneMessage
  <1> QED BY <1>1, <1>5 DEF n

LEMMA SetsIdOfAnswer ==
    ASSUME NEW req \in Bare, NEW id \in Words, NEW m \in Answering(req, id), NEW w \in Words
    PROVE  /\ Answered(m)
           /\ set_header_id(Encode(m), w) = Encode([m EXCEPT !.id = w])
  <1>0. Suits(req, m)
    BY DEF Answering
  <1>1. PICK s \in Sections : m = AnswerOf(req, id, s)
    BY DEF Answering
  <1>2. s \in Seq(Record) /\ Len(s) \in Words
    BY MessageAssumption
  <1>3. /\ m.id = id /\ m.flags = 33152 /\ m.qname = req.qname /\ m.qtype = req.qtype
        /\ m.opt = req.opt /\ m.answers = s
    BY <1>1 DEF Bare, AnswerOf
  <1>4. ASSUME NEW k \in 1..Len(m.answers), NEW x, Refers(m, x, k)
        PROVE  Resolves(m, x)
    <2>1. Len(m.answers) \in Nat
      BY <1>2, <1>3
    <2> SUFFICES ASSUME x.at # Plain
                 PROVE  x.at \in 0..Len(m.answers) /\ x.drop < Len(LabelsAt(m, x.at))
      BY DEF Resolves
    <2>2. x.at \in 0..(k - 1) /\ x.drop < Len(LabelsAt(m, x.at))
      BY <1>4 DEF Refers
    <2> QED BY <2>1, <2>2
  <1>5. ASSUME NEW k \in 1..Len(m.answers)
        PROVE  /\ Resolves(m, m.answers[k].owner)
               /\ m.answers[k].type = RRTYPE_CNAME => Resolves(m, m.answers[k].target)
    <2>1. k \in DOMAIN m.answers
      BY <1>2, <1>3
    <2>2. /\ Refers(m, m.answers[k].owner, k)
          /\ m.answers[k].type = RRTYPE_CNAME => Refers(m, m.answers[k].target, k)
      BY <2>1, <1>0 DEF Suits
    <2> QED BY <2>2, <1>4
  <1>6. 33152 \in Words
    BY WordType
  <1>7. Answered(m)
    <2>1. /\ req.qname \in Seq(DnsLabel) /\ req.qtype \in Words /\ req.opt \in {0, 1}
      BY DEF Bare
    <2> QED BY <2>1, <1>2, <1>3, <1>5, <1>6 DEF Answered
  <1> DEFINE n == [m EXCEPT !.id = w]
  <1>8. /\ n.id = w /\ n.flags = m.flags /\ n.opt = m.opt /\ n.answers = m.answers
        /\ n.qname = m.qname /\ n.qtype = m.qtype
    BY <1>1 DEF Bare, AnswerOf
  <1> HIDE DEF n
  <1>9. SameContent(n, m)
    BY <1>8 DEF SameContent
  <1>10. Answered(n)
    <2>1. ASSUME NEW x PROVE Resolves(n, x) <=> Resolves(m, x)
      BY <1>8 DEF Resolves, LabelsAt
    <2> QED BY <2>1, <1>7, <1>8 DEF Answered
  <1>11. Behind(n) = Behind(m)
    BY <1>8, <1>9, SameBytes DEF Behind
  <1>12. MessageOf(set_header_id(Encode(m), w), w, m.flags, Len(m.answers), m.opt, Behind(m))
    BY <1>7, EncodeAnswered, SetId
  <1>13. MessageOf(Encode(n), w, m.flags, Len(m.answers), m.opt, Behind(m))
    <2>1. MessageOf(Encode(n), n.id, n.flags, Len(n.answers), n.opt, Behind(n))
      BY <1>10, EncodeAnswered
    <2> QED BY <2>1, <1>8, <1>11
  <1>14. set_header_id(Encode(m), w) = Encode(n)
    BY <1>12, <1>13, OneMessage
  <1> QED BY <1>7, <1>14 DEF n

-----------------------------------------------------------------------------
(***************************************************************************)
(* The inductive invariant.                                                *)
(***************************************************************************)
\* The message meant by what the buffer holds of a request: the request, or the
\* refusal that was made of it.
Held == IF request.flags = FLAG_QUERY THEN request
        ELSE [request EXCEPT !.flags = FLAG_RESPONSE_NORMAL + RCODE_REFUSED]

Refused == [what |-> "refused",
            bytes |-> Encode([request EXCEPT !.flags = FLAG_RESPONSE_NORMAL + RCODE_REFUSED])]

RequestMeant == request \in Bare

HoldsRequest == pc \in {"question", "lookup"} => buf = Encode(Held)

\* fetch_label has copied the first k labels of the question.
FetchesQuestion ==
    pc = "question" =>
        /\ next = Unset /\ mark = 0
        /\ \E k \in 0..Len(request.qname) : /\ at = Place(DNS_HEADER_SIZE, request.qname, k)
                                            /\ dest = SpeltUpto(request.qname, k)

\* The type read for the root's question is no type that is looked up or stored.
RootUncached == pc = "lookup" /\ request.qname = <<>> => question.qtype \in {0, 256}

HoldsQuery == pc = "waiting" => \E id \in NewIds : buf = Encode([Held EXCEPT !.id = id])

KnowsClient == pc \in {"waiting", "owner", "cached", "relay"} => slot.old_id = request.id

HoldsAnswer ==
    pc \in {"owner", "cached", "relay"} =>
        buf = Encode(answer) /\ \E id \in Words : answer \in Answering(request, id)

\* The slot's copy of the header.
Copied ==
    /\ slot.message \in Seq(Nat) /\ Len(slot.message) = 12
    /\ pc = "waiting" /\ Hi(request.id) # 0 /\ Lo(request.id) # 0 =>
           slot.message[1] = Hi(request.id) /\ slot.message[2] = Lo(request.id)

\* All that was sent for a request under way is its refusal.
SentSoFar == pc # "idle" => sent = <<>> \/ sent = <<Refused>>

Inv ==
    /\ RequestMeant /\ HoldsRequest /\ FetchesQuestion /\ ReadsQuestion /\ RootUncached
    /\ HoldsQuery /\ KnowsClient /\ HoldsAnswer /\ Copied /\ SentSoFar
    /\ RepliesWellFormed /\ ForwardsRequest /\ TimeoutReadable

LEMMA NothingIsBare == Nothing \in Bare
  <1>1. 0 \in Words /\ <<>> \in Seq(DnsLabel)
    BY SmallWords
  <1> QED BY <1>1 DEF Nothing, Bare

LEMMA InitInv == Init => Inv
  <1> SUFFICES ASSUME Init PROVE Inv
    OBVIOUS
  <1>1. pc = "idle" /\ sent = <<>> /\ asked = <<>> /\ request = Nothing
    BY DEF Init
  <1>2. slot.message \in Seq(Nat) /\ Len(slot.message) = 12
    <2>1. slot.message = [i \in 1..12 |-> 0]
      BY DEF Init, DNS_HEADER_SIZE
    <2>2. PICK n \in Nat : n = 12
      OBVIOUS
    <2>3. [i \in 1..n |-> 0] \in Seq(Nat) /\ Len([i \in 1..n |-> 0]) = n
      OBVIOUS
    <2> QED BY <2>1, <2>2, <2>3
  <1>3. RepliesWellFormed /\ TimeoutReadable /\ ForwardsRequest
    BY <1>1 DEF RepliesWellFormed, TimeoutReadable, ForwardsRequest
  <1> QED BY <1>1, <1>2, <1>3, NothingIsBare
          DEF Inv, RequestMeant, HoldsRequest, FetchesQuestion, ReadsQuestion, RootUncached,
              HoldsQuery, KnowsClient, HoldsAnswer, Copied, SentSoFar

\* A reply that is sent joins what was sent before.
LEMMA SendJoins ==
    ASSUME NEW s, NEW r, NEW e, s = <<>> \/ s = <<r>>
    PROVE  \A i \in DOMAIN Append(s, e) : Append(s, e)[i] \in {r, e}
  <1>1. CASE s = <<>>
    BY <1>1
  <1>2. CASE s = <<r>>
    <2> DEFINE S == {r, e}
    <2>1. r \in S /\ e \in S
      OBVIOUS
    <2>2. \A x : x \in S <=> x = r \/ x = e
      OBVIOUS
    <2> HIDE DEF S
    <2>3. s \in Seq(S)
      BY <2>1, <1>2
    <2>4. Append(s, e) \in Seq(S)
      BY <2>1, <2>3, Appended
    <2>5. \A i \in DOMAIN Append(s, e) : Append(s, e)[i] \in S
      BY <2>4
    <2> QED BY <2>5 DEF S
  <1> QED BY <1>1, <1>2

LEMMA HeldIsBare ==
    ASSUME RequestMeant
    PROVE  /\ Held \in Bare /\ Held.id = request.id /\ Held.qname = request.qname
           /\ Held.qtype = request.qtype /\ Held.opt = request.opt
  <1>1. FLAG_RESPONSE_NORMAL + RCODE_REFUSED \in Words
    BY ResponseFlags
  <1> QED BY <1>1 DEF RequestMeant, Held, Bare

-----------------------------------------------------------------------------
(***************************************************************************)
(* The steps between the arrival of a message and the reply.               *)
(***************************************************************************)
\* A refusal is well formed, and no timeout.
LEMMA RefusalIsWell == pc # "idle" /\ SentSoFar => RepliesWellFormed /\ TimeoutReadable
  <1> SUFFICES ASSUME sent = <<>> \/ sent = <<Refused>>
               PROVE  RepliesWellFormed /\ TimeoutReadable
    BY DEF SentSoFar
  <1>1. \A i \in DOMAIN sent : sent[i] = Refused
    OBVIOUS
  <1>2. Refused.what = "refused" /\ WellFormed(Refused)
    BY DEF WellFormed, Refused
  <1> QED BY <1>1, <1>2 DEF RepliesWellFormed, TimeoutReadable

\* While a request is handled, all that is said of its replies is that.
LEMMA HandlingKeeps ==
    ASSUME Inv, pc # "idle", pc' # "idle", request' = request, sent' = sent
    PROVE  RequestMeant' /\ SentSoFar' /\ RepliesWellFormed' /\ TimeoutReadable'
  <1>1. RequestMeant' /\ SentSoFar'
    BY DEF Inv, RequestMeant, SentSoFar, Refused
  <1>2. (pc # "idle" /\ SentSoFar)' => RepliesWellFormed' /\ TimeoutReadable'
    BY RefusalIsWell, PTL
  <1> QED BY <1>1, <1>2

\* After a write past the end of an array nothing is said but of what was sent.
LEMMA OverrunInv ==
    ASSUME Inv, pc # "idle", pc' = "overrun", UNCHANGED <<session, slot>>
    PROVE  Inv'
  <1>1. UNCHANGED <<request, answer, asked, sent, slot>>
    BY DEF session
  <1>2. RequestMeant' /\ SentSoFar' /\ RepliesWellFormed' /\ TimeoutReadable'
    BY <1>1, HandlingKeeps
  <1>3. /\ HoldsRequest' /\ FetchesQuestion' /\ ReadsQuestion' /\ RootUncached' /\ HoldsQuery'
        /\ KnowsClient' /\ HoldsAnswer'
    BY DEF HoldsRequest, FetchesQuestion, ReadsQuestion, RootUncached, HoldsQuery, KnowsClient,
           HoldsAnswer
  <1>4. Copied' /\ ForwardsRequest'
    BY <1>1 DEF Inv, Copied, ForwardsRequest
  <1> QED BY <1>2, <1>3, <1>4 DEF Inv

\* Reading the answer's names and records disturbs nothing.
LEMMA AnswerRead ==
    ASSUME Inv, pc \in {"owner", "cached", "relay"}, pc' \in {"owner", "cached", "relay"},
           UNCHANGED <<session, buf, slot>>
    PROVE  Inv'
  <1>1. UNCHANGED <<request, answer, asked, sent, buf, slot>>
    BY DEF session
  <1>2. RequestMeant' /\ SentSoFar' /\ RepliesWellFormed' /\ TimeoutReadable'
    BY <1>1, HandlingKeeps
  <1>3. HoldsRequest' /\ FetchesQuestion' /\ ReadsQuestion' /\ RootUncached' /\ HoldsQuery'
    BY DEF HoldsRequest, FetchesQuestion, ReadsQuestion, RootUncached, HoldsQuery
  <1>4. KnowsClient' /\ HoldsAnswer' /\ Copied' /\ ForwardsRequest'
    BY <1>1 DEF Inv, KnowsClient, HoldsAnswer, Copied, ForwardsRequest
  <1> QED BY <1>2, <1>3, <1>4 DEF Inv

\* What the buffer holds of a request that is being handled.
LEMMA BufferOfRequest ==
    ASSUME Inv, pc \in {"question", "lookup"}
    PROVE  /\ request \in Bare /\ request.qname \in Seq(DnsLabel)
           /\ MessageOf(buf, request.id, Held.flags, 0, request.opt, Rest(request))
           /\ HoldsQuestion(buf, request.qname, QuestionFor(request.qname, request.qtype))
           /\ NameAt(buf, 12, request.qname)
  <1>1. RequestMeant /\ buf = Encode(Held)
    BY DEF Inv, HoldsRequest
  <1>2. /\ Held \in Bare /\ Held.id = request.id /\ Held.qname = request.qname
        /\ Held.qtype = request.qtype /\ Held.opt = request.opt
    BY <1>1, HeldIsBare
  <1>3. request \in Bare /\ request.qname \in Seq(DnsLabel)
    BY <1>1 DEF RequestMeant, Bare
  <1>4. Rest(Held) = Rest(request)
    BY <1>2 DEF Rest
  <1>5. MessageOf(buf, request.id, Held.flags, 0, request.opt, Rest(request))
    <2>1. MessageOf(Encode(Held), Held.id, Held.flags, 0, Held.opt, Rest(Held))
      BY <1>2, EncodeBare
    <2> QED BY <2>1, <1>1, <1>2, <1>4
  <1>6. HoldsQuestion(buf, request.qname, QuestionFor(request.qname, request.qtype))
    BY <1>3, <1>5, QuestionInMessage
  <1> QED BY <1>3, <1>5, <1>6 DEF HoldsQuestion

\* fetch_label at the question: it is at a label, or at the end.
AtLabel(k) ==
    /\ k \in 0..(Len(request.qname) - 1)
    /\ LabelAt(buf, at, request.qname[k + 1], Place(12, request.qname, k + 1))
AtEnd(k) == k = Len(request.qname) /\ at < Len(buf) /\ buf[at + 1] = 0
            /\ at = 12 + Len(LabelBytes(request.qname))

LEMMA QuestionPlaces ==
    ASSUME Inv, pc = "question"
    PROVE  /\ next = Unset /\ mark = 0 /\ at \in Nat
           /\ \E k \in 0..Len(request.qname) :
                  dest = SpeltUpto(request.qname, k) /\ (AtLabel(k) \/ AtEnd(k))
  <1> DEFINE qname == request.qname
  <1>1. qname \in Seq(DnsLabel) /\ NameAt(buf, 12, qname)
    BY BufferOfRequest
  <1>2. /\ next = Unset /\ mark = 0
        /\ \E k \in 0..Len(qname) : at = Place(12, qname, k) /\ dest = SpeltUpto(qname, k)
    BY DEF Inv, FetchesQuestion, DNS_HEADER_SIZE
  <1> HIDE DEF qname
  <1>3. PICK k \in 0..Len(qname) : at = Place(12, qname, k) /\ dest = SpeltUpto(qname, k)
    BY <1>2
  <1>4. CASE k = Len(qname)
    <2>1. at \in Nat /\ at = 12 + Len(LabelBytes(qname)) /\ at < Len(buf) /\ buf[at + 1] = 0
      BY <1>1, <1>3, <1>4, LastPlace
    <2> QED BY <2>1, <1>2, <1>3, <1>4 DEF AtEnd, qname
  <1>5. CASE k # Len(qname)
    <2>1. k \in 0..(Len(qname) - 1)
      BY <1>1, <1>5
    <2>2. LabelAt(buf, at, qname[k + 1], Place(12, qname, k + 1))
      BY <1>1, <1>3, <2>1, EachPlace
    <2> QED BY <2>1, <2>2, <1>2, <1>3 DEF AtLabel, LabelAt, qname
  <1> QED BY <1>4, <1>5

\* A label's length is no pointer.
LEMMA NoPointer == ASSUME NEW n \in Nat, n <= 63 PROVE ~is_compress(n)
  BY DEF is_compress

\* A spelled out question has no pointer to follow.
LEMMA FollowPointerInv == ASSUME Inv, FollowPointer PROVE Inv'
  <1>1. CASE pc = "question"
    <2>1. PICK k \in 0..Len(request.qname) : AtLabel(k) \/ AtEnd(k)
      BY <1>1, QuestionPlaces
    <2>2. at \in Nat /\ request.qname \in Seq(DnsLabel) /\ buf \in Seq(Nat)
      BY <1>1, QuestionPlaces, BufferOfRequest DEF NameAt
    <2>3. Byte(at) \in Nat /\ Byte(at) <= 63
      BY <2>1, <2>2 DEF AtLabel, AtEnd, LabelAt, Byte
    <2> QED BY <2>3, NoPointer DEF FollowPointer
  <1>2. CASE pc \in {"owner", "cached"}
    BY <1>2, AnswerRead DEF FollowPointer
  <1> QED BY <1>1, <1>2 DEF FollowPointer, Fetching

\* The copied label is the next one of the name.
LEMMA CopiesNextLabel ==
    ASSUME NEW labels \in Seq(DnsLabel), NEW k \in 0..(Len(labels) - 1), NEW c,
           c = [j \in 1..Len(labels[k + 1]) |-> labels[k + 1][j]]
    PROVE  SpeltUpto(labels, k) \o c \o <<Dot>> = SpeltUpto(labels, k + 1)
  <1> DEFINE l == labels[k + 1]
             s == SpeltUpto(labels, k)
  <1>1. l \in DnsLabel
    OBVIOUS
  <1>2. l \in Bytes /\ l \in Seq(Octets)
    BY <1>1, LabelType
  <1>3. c = l
    BY <1>2
  <1>4. s \in Bytes /\ SpeltUpto(labels, k + 1) = s \o (l \o <<Dot>>)
    <2>1. k \in 0..Len(labels)
      OBVIOUS
    <2>2. s \in Seq(Octets)
      BY <2>1, SpeltSteps
    <2>3. SpeltUpto(labels, k + 1) = s \o (l \o <<Dot>>)
      BY SpeltSteps
    <2> QED BY <2>2, <2>3 DEF Bytes
  <1>5. \A o \in Bytes : s \o l \o o = s \o (l \o o)
    BY <1>2, <1>4, BytesJoin
  <1>6. s \o l \o <<Dot>> = s \o (l \o <<Dot>>)
    BY <1>5, DotType
  <1> QED BY <1>3, <1>4, <1>6

LEMMA CopyLabelInv == ASSUME Inv, CopyLabel PROVE Inv'
  <1>1. CASE pc = "question"
    <2> DEFINE qname == request.qname
    <2>1. at \in Nat /\ qname \in Seq(DnsLabel) /\ buf \in Seq(Nat) /\ next = Unset /\ mark = 0
      BY <1>1, QuestionPlaces, BufferOfRequest DEF NameAt
    <2>2. PICK k \in 0..Len(qname) : dest = SpeltUpto(qname, k) /\ (AtLabel(k) \/ AtEnd(k))
      BY <1>1, QuestionPlaces
    <2>3. ~AtEnd(k)
      BY <2>1 DEF AtEnd, Byte, CopyLabel, AtLabelByte
    <2> DEFINE l == qname[k + 1]
    <2>4. k \in 0..(Len(qname) - 1) /\ LabelAt(buf, at, l, Place(12, qname, k + 1))
      BY <2>2, <2>3 DEF AtLabel
    <2> HIDE DEF qname, l
    <2>5. Byte(at) = Len(l) /\ Len(l) \in Nat /\ \A j \in 1..Len(l) : Byte(at + j) = l[j]
      <3>1. /\ Len(l) \in Nat /\ at + Len(l) + 1 < Len(buf) /\ buf[at + 1] = Len(l)
            /\ \A j \in 1..Len(l) : buf[at + j + 1] = l[j]
        BY <2>4 DEF LabelAt
      <3>2. Byte(at) = Len(l)
        BY <2>1, <3>1 DEF Byte
      <3>3. ASSUME NEW j \in 1..Len(l)
            PROVE  Byte(at + j) = l[j]
        <4>1. at + j < Len(buf)
          BY <2>1, <3>1
        <4> QED BY <4>1, <3>1 DEF Byte
      <3> QED BY <3>1, <3>2, <3>3
    <2>6. at' = Place(12, qname, k + 1)
      BY <2>1, <2>4, <2>5 DEF LabelAt, CopyLabel
    <2>7. dest' = SpeltUpto(qname, k + 1)
      <3> DEFINE c == [j \in 1..Byte(at) |-> Byte(at + j)]
      <3>1. c = [j \in 1..Len(l) |-> l[j]]
        BY <2>5
      <3>2. dest' = SpeltUpto(qname, k) \o c \o <<Dot>>
        BY <2>2 DEF CopyLabel, qname
      <3> HIDE DEF c
      <3> QED BY <3>1, <3>2, <2>1, <2>4, CopiesNextLabel DEF l
    <2>8. k + 1 \in 0..Len(qname)
      BY <2>1, <2>4
    <2>9. UNCHANGED <<pc, request, answer, asked, sent, buf, next, mark, slot, question>>
      BY DEF CopyLabel, session
    <2>10. FetchesQuestion'
      BY <2>1, <2>6, <2>7, <2>8, <2>9 DEF FetchesQuestion, qname, DNS_HEADER_SIZE
    <2>11. RequestMeant' /\ SentSoFar' /\ RepliesWellFormed' /\ TimeoutReadable'
      BY <1>1, <2>9, HandlingKeeps
    <2>12. HoldsRequest' /\ HoldsQuery' /\ KnowsClient' /\ HoldsAnswer' /\ Copied' /\ ForwardsRequest'
      BY <1>1, <2>9 DEF Inv, HoldsRequest, Held, HoldsQuery, KnowsClient, HoldsAnswer, Copied,
                        ForwardsRequest
    <2>13. ReadsQuestion' /\ RootUncached'
      BY <1>1, <2>9 DEF ReadsQuestion, RootUncached
    <2> QED BY <2>10, <2>11, <2>12, <2>13 DEF Inv
  <1>2. CASE pc \in {"owner", "cached"}
    BY <1>2, AnswerRead DEF CopyLabel
  <1> QED BY <1>1, <1>2 DEF CopyLabel, AtLabelByte, Fetching

\* The words behind the question's name.
LEMMA WordsOfQuestion ==
    ASSUME Inv, pc = "question", NEW n \in Nat, n = Len(LabelBytes(request.qname))
    PROVE  Word(12 + n + 1) = request.qtype /\ Word(12 + n + 3) = HTTP_CLASS
  <1> DEFINE q == QuestionFor(request.qname, request.qtype)
  <1>1. request.qname \in Seq(DnsLabel) /\ request.qtype \in Words
    BY BufferOfRequest DEF Bare
  <1>2. /\ Len(q) = n + 5 /\ q[n + 2] = Hi(request.qtype) /\ q[n + 3] = Lo(request.qtype)
        /\ q[n + 4] = 0 /\ q[n + 5] = 1
    BY <1>1, QuestionLayout DEF QuestionOf
  <1>3. 12 + Len(q) <= Len(buf) /\ (\A i \in 1..Len(q) : buf[12 + i] = q[i]) /\ buf \in Seq(Nat)
    BY BufferOfRequest DEF HoldsQuestion, NameAt
  <1> HIDE DEF q
  <1>4. /\ n + 2 \in 1..Len(q) /\ n + 3 \in 1..Len(q) /\ n + 4 \in 1..Len(q) /\ n + 5 \in 1..Len(q)
        /\ 12 + (n + 2) = (12 + n + 1) + 1 /\ 12 + (n + 3) = (12 + n + 1) + 1 + 1
        /\ 12 + (n + 4) = (12 + n + 3) + 1 /\ 12 + (n + 5) = (12 + n + 3) + 1 + 1
    BY <1>2
  <1>5. /\ buf[(12 + n + 1) + 1] = Hi(request.qtype) /\ buf[(12 + n + 1) + 1 + 1] = Lo(request.qtype)
        /\ buf[(12 + n + 3) + 1] = 0 /\ buf[(12 + n + 3) + 1 + 1] = 1
    BY <1>2, <1>3, <1>4
  <1>6. Len(buf) \in Nat /\ 12 + n + 5 <= Len(buf)
    BY <1>2, <1>3
  <1>7. /\ Byte(12 + n + 1) = Hi(request.qtype) /\ Byte(12 + n + 1 + 1) = Lo(request.qtype)
        /\ Byte(12 + n + 3) = 0 /\ Byte(12 + n + 3 + 1) = 1
    BY <1>5, <1>6 DEF Byte
  <1>8. request.qtype = 256 * Hi(request.qtype) + Lo(request.qtype)
    BY <1>1, Halves
  <1> QED BY <1>7, <1>8 DEF Word, HTTP_CLASS

\* The root's name has no label, and its type is looked for in the wrong place.
LEMMA WordOfRoot ==
    ASSUME Inv, pc = "question", request.qname = <<>>
    PROVE  Word(11) \in {0, 256}
  <1>1. request.opt \in {0, 1}
    BY BufferOfRequest DEF Bare
  <1>2. LabelBytes(<<>>) = <<>>
    <2>1. <<>> \in Seq(DnsLabel) /\ Len(<<>>) = 0
      OBVIOUS
    <2> QED BY <2>1, NameLayoutEnds
  <1>3. Len(buf) > 12 /\ buf[13] = 0
    BY <1>2, BufferOfRequest DEF NameAt
  <1>4. buf[12] = Lo(request.opt)
    BY BufferOfRequest DEF MessageOf, Starts
  <1>5. Lo(request.opt) = request.opt
    BY <1>1, SmallWords
  <1>6. Byte(11) = request.opt /\ Byte(11 + 1) = 0
    BY <1>3, <1>4, <1>5 DEF Byte
  <1> QED BY <1>1, <1>6 DEF Word

LEMMA ReadQuestionInv == ASSUME Inv, ReadQuestion PROVE Inv'
  <1> DEFINE qname == request.qname
  <1>1. pc = "question" /\ Byte(at) = 0 /\ pc' = "lookup"
    BY DEF ReadQuestion, EndOfName
  <1>2. at \in Nat /\ next = Unset /\ mark = 0
    BY <1>1, QuestionPlaces
  <1>3. qname \in Seq(DnsLabel) /\ buf \in Seq(Nat)
    BY <1>1, BufferOfRequest DEF NameAt
  <1>4. PICK k \in 0..Len(qname) : dest = SpeltUpto(qname, k) /\ (AtLabel(k) \/ AtEnd(k))
    BY <1>1, QuestionPlaces
  <1>5. ~AtLabel(k)
    <2> SUFFICES ASSUME NEW l, NEW p, LabelAt(buf, at, l, p)
                 PROVE  Byte(at) # 0
      BY <1>1 DEF AtLabel
    <2>1. Len(l) \in Nat /\ Len(l) >= 1 /\ at + Len(l) + 1 < Len(buf) /\ buf[at + 1] = Len(l)
      BY DEF LabelAt
    <2> QED BY <2>1, <1>2, <1>3 DEF Byte
  <1>6. dest = SpeltUpto(qname, Len(qname)) /\ at = 12 + Len(LabelBytes(qname))
    BY <1>4, <1>5 DEF AtEnd
  <1>7. PICK n \in Nat : n = Len(LabelBytes(qname))
    BY <1>3, LabelBytesType DEF Bytes
  <1>8. UNCHANGED <<request, answer, asked, sent, buf, slot>>
    BY DEF ReadQuestion, session
  <1> HIDE DEF qname
  <1>9. qname # <<>> =>
            question' = [label |-> Dotted(qname), qtype |-> request.qtype, qclass |-> HTTP_CLASS]
    <2> SUFFICES ASSUME qname # <<>>
                 PROVE  question' = [label |-> Dotted(qname), qtype |-> request.qtype,
                                     qclass |-> HTTP_CLASS]
      OBVIOUS
    <2>1. dest # <<>> /\ Front(dest) = Dotted(qname) /\ dest \in Seq(Octets)
      <3>1. Len(qname) \in 0..Len(qname)
        BY <1>3
      <3>2. SpeltUpto(qname, Len(qname)) \in Seq(Octets)
        BY <1>3, <3>1, SpeltSteps
      <3> QED BY <1>3, <1>6, <3>2, FrontOfSpelt
    <2>2. Text(question.label) = Dotted(qname)
      BY <2>1 DEF Text
    <2>4. 12 + NameLength = 12 + n + 1 /\ 12 + NameLength + 2 = 12 + n + 3
      <3>1. EndPos = 12 + n
        BY <1>2, <1>6, <1>7 DEF EndPos
      <3>2. ~(Fetched < 0)
        BY <2>1, <1>2 DEF Fetched
      <3>3. NameLength = EndPos - 12 + 1
        BY <3>2 DEF NameLength, DNS_HEADER_SIZE
      <3> QED BY <3>1, <3>3
    <2>5. Word(12 + n + 1) = request.qtype /\ Word(12 + n + 3) = HTTP_CLASS
      BY <1>1, <1>7, WordsOfQuestion DEF qname
    <2>6. question' = [label |-> Text(question.label), qtype |-> Word(12 + NameLength),
                       qclass |-> Word(12 + NameLength + 2)]
      BY DEF ReadQuestion, DNS_HEADER_SIZE
    <2> QED BY <2>2, <2>4, <2>5, <2>6
  <1>10. qname = <<>> => question'.qtype \in {0, 256}
    <2> SUFFICES ASSUME qname = <<>>
                 PROVE  question'.qtype \in {0, 256}
      OBVIOUS
    <2>1. dest = <<>>
      BY <1>3, <1>6, SpeltSteps
    <2>2. Fetched = -1
      BY <2>1, <1>2 DEF Fetched
    <2>3. 12 + NameLength = 11
      BY <2>2 DEF NameLength
    <2>4. question'.qtype = Word(11)
      BY <2>3 DEF ReadQuestion, DNS_HEADER_SIZE
    <2> QED BY <2>4, <1>1, WordOfRoot DEF qname
  <1>11. RequestMeant' /\ SentSoFar' /\ RepliesWellFormed' /\ TimeoutReadable'
    BY <1>1, <1>8, HandlingKeeps
  <1>12. HoldsRequest' /\ FetchesQuestion' /\ HoldsQuery' /\ KnowsClient' /\ HoldsAnswer'
         /\ Copied' /\ ForwardsRequest'
    BY <1>1, <1>8 DEF Inv, HoldsRequest, Held, FetchesQuestion, HoldsQuery, KnowsClient,
                      HoldsAnswer, Copied, ForwardsRequest
  <1>13. ReadsQuestion' /\ RootUncached'
    BY <1>8, <1>9, <1>10 DEF ReadsQuestion, RootUncached, qname
  <1> QED BY <1>11, <1>12, <1>13 DEF Inv

-----------------------------------------------------------------------------
(***************************************************************************)
(* The arrival of a message.                                               *)
(***************************************************************************)
LEMMA FlagsRead ==
    ASSUME NEW b \in Seq(Nat), Len(b) >= 4, NEW f \in Words, NEW w \in Words,
           b[3] = Hi(f), b[4] = Lo(f)
    PROVE  SubSeq(b, 3, 4) = U16(w) <=> f = w
  <1> DEFINE s == SubSeq(b, 3, 4)
             u == U16(w)
  <1>1. s \in Seq(Nat) /\ Len(s) = 2 /\ s[1] = Hi(f) /\ s[2] = Lo(f)
    OBVIOUS
  <1>2. u \in Seq(Nat) /\ Len(u) = 2 /\ u[1] = Hi(w) /\ u[2] = Lo(w)
    BY WordBytes, BytesAreNumbers
  <1> HIDE DEF s, u
  <1>3. ASSUME s = u PROVE f = w
    BY <1>1, <1>2, <1>3, HalvesDetermine
  <1>4. ASSUME f = w PROVE s = u
    <2>1. \A i \in 1..Len(s) : i = 1 \/ i = 2
      BY <1>1
    <2>2. \A i \in 1..Len(s) : s[i] = u[i]
      BY <2>1, <1>1, <1>2, <1>4
    <2> QED BY <2>2, <1>1, <1>2, SameSequence
  <1> QED BY <1>3, <1>4 DEF s, u

LEMMA QueryFlag == FLAG_QUERY \in Words
  <1>1. FLAG_QUERY \in Nat /\ FLAG_QUERY <= 65535
    BY DEF FLAG_QUERY
  <1> QED BY <1>1, WordType

LEMMA AcceptInv == ASSUME Inv, NEW m \in Bare, Accept(m, Encode(m)) PROVE Inv'
  <1> DEFINE b == Encode(m)
             r == [m EXCEPT !.flags = FLAG_RESPONSE_NORMAL + RCODE_REFUSED]
             query == SubSeq(b, 3, 4) = U16(FLAG_QUERY)
  <1>1. query <=> m.flags = FLAG_QUERY
    <2>1. b \in Seq(Nat) /\ Len(b) >= 4 /\ b[3] = Hi(m.flags) /\ b[4] = Lo(m.flags)
      BY EncodeBare DEF MessageOf, Starts, GoesOn
    <2>2. m.flags \in Words
      BY DEF Bare
    <2> QED BY <2>1, <2>2, QueryFlag, FlagsRead
  <1>2. Respond(b, RCODE_REFUSED) = Encode(r)
    BY RespondsEncoded
  <1>3. /\ pc' = "question" /\ request' = m /\ asked' = <<>> /\ slot' = slot
        /\ sent' = IF query THEN <<>>
                   ELSE <<[what |-> "refused", bytes |-> Respond(b, RCODE_REFUSED)]>>
        /\ buf' = IF query THEN b ELSE Respond(b, RCODE_REFUSED)
        /\ at' = DNS_HEADER_SIZE /\ next' = Unset /\ mark' = 0 /\ dest' = <<>>
    BY DEF Accept, BeginFetch
  <1> HIDE DEF b, query
  <1>4. Held' = IF m.flags = FLAG_QUERY THEN m ELSE r
    BY <1>3 DEF Held
  <1>5. Refused' = [what |-> "refused", bytes |-> Encode(r)]
    BY <1>3 DEF Refused
  <1> HIDE DEF r
  <1>6. RequestMeant' /\ HoldsRequest' /\ SentSoFar'
    <2>1. buf' = Encode(Held')
      BY <1>1, <1>2, <1>3, <1>4 DEF b
    <2>2. sent' = <<>> \/ sent' = <<Refused'>>
      BY <1>2, <1>3, <1>5
    <2> QED BY <2>1, <2>2, <1>3 DEF RequestMeant, HoldsRequest, SentSoFar
  <1>7. FetchesQuestion'
    <2>1. m.qname \in Seq(DnsLabel) /\ 0 \in 0..Len(m.qname)
      BY DEF Bare
    <2>2. at' = Place(DNS_HEADER_SIZE, m.qname, 0)
      BY <2>1, <1>3, FirstPlace DEF DNS_HEADER_SIZE
    <2>3. dest' = SpeltUpto(m.qname, 0)
      BY <2>1, <1>3, SpeltSteps
    <2> QED BY <2>1, <2>2, <2>3, <1>3 DEF FetchesQuestion
  <1>8. RepliesWellFormed' /\ TimeoutReadable'
    <2>1. (pc # "idle" /\ SentSoFar)' => RepliesWellFormed' /\ TimeoutReadable'
      BY RefusalIsWell, PTL
    <2> QED BY <2>1, <1>3, <1>6
  <1>9. ReadsQuestion' /\ RootUncached' /\ HoldsQuery' /\ KnowsClient' /\ HoldsAnswer'
        /\ Copied' /\ ForwardsRequest'
    BY <1>3 DEF ReadsQuestion, RootUncached, HoldsQuery, KnowsClient, HoldsAnswer, Copied,
                ForwardsRequest, Inv
  <1> QED BY <1>6, <1>7, <1>8, <1>9 DEF Inv

LEMMA ReceiveInv ==
    ASSUME Inv, NEW m \in Requests, ReceiveRequest(m) \/ ReceiveOwnQuery(m)
    PROVE  Inv'
  <1>1. m \in Bare
    BY MessageAssumption DEF Bare
  <1>2. Accept(m, Encode(m))
    BY <1>1, OwnQuery DEF ReceiveRequest, ReceiveOwnQuery
  <1> QED BY <1>1, <1>2, AcceptInv

-----------------------------------------------------------------------------
(***************************************************************************)
(* The replies.                                                            *)
(***************************************************************************)
\* After a reply nothing is left to say but of the replies and the slot.
LEMMA RepliedInv ==
    ASSUME Inv, pc' = "idle", UNCHANGED <<request, asked>>,
           slot'.message \in Seq(Nat), Len(slot'.message) = 12,
           RepliesWellFormed', TimeoutReadable'
    PROVE  Inv'
  <1>1. RequestMeant' /\ ForwardsRequest'
    BY DEF Inv, RequestMeant, ForwardsRequest
  <1>2. HoldsRequest' /\ FetchesQuestion' /\ ReadsQuestion' /\ RootUncached' /\ HoldsQuery'
        /\ KnowsClient' /\ HoldsAnswer' /\ Copied' /\ SentSoFar'
    BY DEF HoldsRequest, FetchesQuestion, ReadsQuestion, RootUncached, HoldsQuery, KnowsClient,
           HoldsAnswer, Copied, SentSoFar
  <1> QED BY <1>1, <1>2 DEF Inv

\* One reply more: it is well formed if this one is.
LEMMA SendWell ==
    ASSUME Inv, pc # "idle", UNCHANGED request, NEW reply, sent' = Append(sent, reply),
           WellFormed(reply)',
           reply.what = "timeout" /\ Hi(request.id) # 0 /\ Lo(request.id) # 0
               => Refusal(reply.bytes, request.id)
    PROVE  RepliesWellFormed' /\ TimeoutReadable'
  <1>0. PICK first : first = Refused
    OBVIOUS
  <1>1. \A i \in DOMAIN sent' : sent'[i] \in {first, reply}
    BY <1>0, SendJoins DEF Inv, SentSoFar
  <1>2. first.what = "refused" /\ WellFormed(first)'
    BY <1>0 DEF Refused, WellFormed
  <1>3. RepliesWellFormed'
    <2>1. ASSUME NEW i \in DOMAIN sent'
          PROVE  WellFormed(sent[i])'
      <3>1. CASE sent'[i] = first
        BY <3>1, <1>2 DEF WellFormed
      <3>2. CASE sent'[i] = reply
        BY <3>2 DEF WellFormed
      <3> QED BY <3>1, <3>2, <1>1
    <2> QED BY <2>1 DEF RepliesWellFormed
  <1>4. TimeoutReadable'
    BY <1>1, <1>2 DEF TimeoutReadable, Hi, Lo
  <1> QED BY <1>3, <1>4

LEMMA ReplyNameErrorInv == ASSUME Inv, ReplyNameError PROVE Inv'
  <1> DEFINE code == FLAG_RESPONSE_NORMAL + RCODE_NAME_ERROR
  <1>0. PICK e : e = [what |-> "name_error", bytes |-> Respond(buf, RCODE_NAME_ERROR)]
    OBVIOUS
  <1>1. pc = "lookup" /\ pc' = "idle" /\ UNCHANGED <<request, asked, slot>> /\ sent' = Append(sent, e)
    BY <1>0 DEF ReplyNameError, Send
  <1>2. RequestMeant /\ buf = Encode(Held) /\ Held \in Bare
    BY <1>1, HeldIsBare DEF Inv, HoldsRequest
  <1>3. Respond(buf, RCODE_NAME_ERROR) = Encode([Held EXCEPT !.flags = code])
    BY <1>2, RespondsEncoded
  <1>4. [Held EXCEPT !.flags = code] = [request EXCEPT !.flags = code]
    <2> HIDE DEF code
    <2> QED BY <1>2 DEF Held, RequestMeant, Bare
  <1>5. e.what = "name_error" /\ e.bytes = Encode([request EXCEPT !.flags = code])
    BY <1>0, <1>3, <1>4
  <1>6. WellFormed(e)'
    BY <1>1, <1>5 DEF WellFormed
  <1>7. RepliesWellFormed' /\ TimeoutReadable'
    BY <1>1, <1>5, <1>6, SendWell
  <1> QED BY <1>1, <1>7, RepliedInv DEF Inv, Copied

LEMMA RelayAnswerInv == ASSUME Inv, RelayAnswer PROVE Inv'
  <1>0. PICK e : e = [what |-> "answer", bytes |-> set_header_id(buf, slot.old_id)]
    OBVIOUS
  <1>1. /\ pc = "relay" /\ pc' = "idle" /\ UNCHANGED <<request, answer, asked, slot>>
        /\ sent' = Append(sent, e)
    BY <1>0 DEF RelayAnswer, Send
  <1>2. request \in Bare /\ slot.old_id = request.id /\ request.id \in Words /\ buf = Encode(answer)
    BY <1>1 DEF Inv, RequestMeant, KnowsClient, HoldsAnswer, Bare
  <1>3. PICK id \in Words : answer \in Answering(request, id)
    BY <1>1 DEF Inv, HoldsAnswer
  <1>4. set_header_id(buf, slot.old_id) = Encode([answer EXCEPT !.id = request.id])
    BY <1>2, <1>3, SetsIdOfAnswer
  <1>5. e.what = "answer" /\ e.bytes = Encode([answer EXCEPT !.id = request.id])
    BY <1>0, <1>4
  <1>6. WellFormed(e)'
    BY <1>1, <1>5 DEF WellFormed
  <1>7. RepliesWellFormed' /\ TimeoutReadable'
    BY <1>1, <1>5, <1>6, SendWell
  <1> QED BY <1>1, <1>7, RepliedInv DEF Inv, Copied

\* IDAdapter_pop: the reply is made in the slot's copy of the request.
LEMMA TimeoutInv == ASSUME Inv, Timeout PROVE Inv'
  <1> DEFINE r == Respond(slot.message, RCODE_REFUSED)
  <1>0. PICK e : e = [what |-> "timeout", bytes |-> SubSeq(r, 1, CStringLen(r))]
    OBVIOUS
  <1>1. /\ pc = "waiting" /\ pc' = "idle" /\ UNCHANGED <<request, asked>> /\ sent' = Append(sent, e)
        /\ slot' = [slot EXCEPT !.message = r]
    BY <1>0 DEF Timeout, Send
  <1>2. /\ slot.message \in Seq(Nat) /\ Len(slot.message) = 12 /\ request.id \in Words
        /\ Hi(request.id) # 0 /\ Lo(request.id) # 0 =>
               slot.message[1] = Hi(request.id) /\ slot.message[2] = Lo(request.id)
    BY <1>1 DEF Inv, Copied, RequestMeant, Bare
  <1>3. /\ r \in Seq(Nat) /\ Len(r) = 12 /\ r[1] = slot.message[1] /\ r[2] = slot.message[2]
        /\ r[3] = 128 /\ r[4] = 5
    BY <1>2, RefusesInPlace
  <1>4. slot'.message \in Seq(Nat) /\ Len(slot'.message) = 12
    BY <1>1, <1>3
  <1> HIDE DEF r
  <1>5. Hi(request.id) # 0 /\ Lo(request.id) # 0 => Refusal(e.bytes, request.id)
    <2> SUFFICES ASSUME Hi(request.id) # 0, Lo(request.id) # 0 PROVE Refusal(e.bytes, request.id)
      OBVIOUS
    <2>1. PICK id \in Words : id = request.id
      BY <1>2
    <2>2. r[1] = Hi(id) /\ r[2] = Lo(id) /\ Hi(id) # 0 /\ Lo(id) # 0
      BY <1>2, <1>3, <2>1
    <2>3. Refusal(SubSeq(r, 1, CStringLen(r)), id)
      BY <1>3, <2>2, TimeoutReply
    <2>4. e.bytes = SubSeq(r, 1, CStringLen(r))
      BY <1>0
    <2> QED BY <2>1, <2>3, <2>4
  <1>6. e.what = "timeout"
    BY <1>0
  <1>7. WellFormed(e)'
    BY <1>6 DEF WellFormed
  <1>8. RepliesWellFormed' /\ TimeoutReadable'
    BY <1>1, <1>5, <1>6, <1>7, SendWell
  <1> QED BY <1>1, <1>4, <1>8, RepliedInv

LEMMA ReplyRecordsInv == ASSUME Inv, NEW list \in Stored, ReplyRecords(list) PROVE Inv'
  <1>1. /\ pc = "lookup" /\ pc' = "idle" /\ question.qtype \in Cacheable
        /\ UNCHANGED <<request, asked, slot>>
        /\ answers' = Records(list)
        /\ buf' = write_dns_response_by_query(buf, answers')
        /\ sent' = Append(sent, [what |-> "records", bytes |-> buf'])
    BY DEF ReplyRecords, Send
  <1>2. list \in Seq(StoredRecord) /\ Len(list) \in Words
    BY MessageAssumption DEF StoredRecord
  <1>3. request.qname # <<>>
    BY <1>1 DEF Inv, RootUncached, Cacheable, RRTYPE_A, RRTYPE_AAAA
  <1>4. question = [label |-> Dotted(request.qname), qtype |-> request.qtype, qclass |-> HTTP_CLASS]
    BY <1>1, <1>3 DEF Inv, ReadsQuestion
  <1>5. request \in Bare /\ request.qname \in Seq(DnsLabel)
        /\ MessageOf(buf, request.id, Held.flags, 0, request.opt, Rest(request))
    BY <1>1, BufferOfRequest
  <1>6. NoZero(request.qname) =>
            buf' = [Encode(RecordsReply(request, answers')) EXCEPT ![12] = request.opt]
    <2> SUFFICES ASSUME NoZero(request.qname)
                 PROVE  buf' = [Encode(RecordsReply(request, answers')) EXCEPT ![12] = request.opt]
      OBVIOUS
    <2>1. CString(question.label) = Dotted(request.qname)
      BY <1>4, <1>5, TextIsString
    <2>2. answers' = Found(request, list) /\ request.qtype \in Cacheable
      BY <1>1, <1>4, <2>1 DEF Found, Records
    <2>3. write_dns_response_by_query(buf, Found(request, list)) =
              [Encode(RecordsReply(request, Found(request, list))) EXCEPT ![12] = request.opt]
      BY <1>2, <1>3, <1>5, <2>2, RecordsReplied
    <2> QED BY <2>2, <2>3, <1>1
  <1>8. PICK e : e = [what |-> "records", bytes |-> buf']
    OBVIOUS
  <1>9. WellFormed(e)'
    <2>1. NoZero(request'.qname) =>
              e.bytes = [Encode(RecordsReply(request', answers')) EXCEPT ![12] = request'.opt]
      BY <1>1, <1>6, <1>8
    <2> QED BY <2>1, <1>8 DEF WellFormed
  <1>10. RepliesWellFormed' /\ TimeoutReadable'
    BY <1>1, <1>8, <1>9, SendWell
  <1> QED BY <1>1, <1>10, RepliedInv DEF Inv, Copied

-----------------------------------------------------------------------------
(***************************************************************************)
(* Upstream.                                                               *)
(***************************************************************************)
LEMMA NewIdIsWord == ASSUME NEW id \in NewIds PROVE id \in Words
  <1>1. id \in 0..1023
    BY MessageAssumption DEF IDAadpter_SIZE
  <1> QED BY <1>1, WordType

\* The id in the buffer.
LEMMA IdRead ==
    ASSUME NEW m \in Bare, buf = Encode(m)
    PROVE  /\ Word(0) = m.id /\ m.id \in Words
           /\ buf \in Seq(Nat) /\ Len(buf) >= 12 /\ buf[5] = 0
           /\ buf[1] = Hi(m.id) /\ buf[2] = Lo(m.id)
  <1>1. m.id \in Words
    BY DEF Bare
  <1>2. /\ buf \in Seq(Nat) /\ Len(buf) >= 12 /\ buf[5] = 0
        /\ buf[1] = Hi(m.id) /\ buf[2] = Lo(m.id)
    <2>1. MessageOf(buf, m.id, m.flags, 0, m.opt, Rest(m))
      BY EncodeBare
    <2>2. Len(Rest(m)) \in Nat /\ Len(buf) = 12 + Len(Rest(m)) /\ buf \in Seq(Nat)
      BY <2>1 DEF MessageOf, GoesOn
    <2> QED BY <2>1, <2>2 DEF MessageOf, Starts
  <1>3. Byte(0) = Hi(m.id) /\ Byte(0 + 1) = Lo(m.id)
    BY <1>2 DEF Byte
  <1>4. m.id = 256 * Hi(m.id) + Lo(m.id)
    BY <1>1, Halves
  <1> QED BY <1>1, <1>2, <1>3, <1>4 DEF Word

LEMMA ForwardInv == ASSUME Inv, NEW id \in NewIds, Forward(id) PROVE Inv'
  <1>1. /\ pc = "lookup" /\ pc' = "waiting" /\ UNCHANGED <<request, answer, sent>>
        /\ slot'.old_id = Word(0) /\ slot'.message = strcpy(slot.message, buf)
        /\ buf' = set_header_id(buf, id) /\ asked' = buf'
    BY DEF Forward
  <1>2. RequestMeant /\ buf = Encode(Held) /\ Held \in Bare /\ Held.id = request.id
    BY <1>1, HeldIsBare DEF Inv, HoldsRequest
  <1>3. /\ Word(0) = request.id /\ buf \in Seq(Nat) /\ Len(buf) >= 12 /\ buf[5] = 0
        /\ buf[1] = Hi(request.id) /\ buf[2] = Lo(request.id)
    BY <1>2, IdRead
  <1>4. buf' = Encode([Held EXCEPT !.id = id])
    BY <1>1, <1>2, NewIdIsWord, SetsIdOfBare
  <1>5. Held' = Held
    BY <1>1 DEF Held
  <1>6. HoldsQuery' /\ KnowsClient'
    BY <1>1, <1>3, <1>4, <1>5 DEF HoldsQuery, KnowsClient
  <1>7. Copied'
    <2>1. slot.message \in Seq(Nat) /\ Len(slot.message) = 12
      BY DEF Inv, Copied
    <2>2. /\ slot'.message \in Seq(Nat) /\ Len(slot'.message) = 12
          /\ buf[1] # 0 /\ buf[2] # 0 => slot'.message[1] = buf[1] /\ slot'.message[2] = buf[2]
      <3>1. PICK d, s : d = slot.message /\ s = buf
        OBVIOUS
      <3>2. d \in Seq(Nat) /\ Len(d) = 12 /\ s \in Seq(Nat) /\ Len(s) >= 5 /\ s[5] = 0
        BY <3>1, <2>1, <1>3
      <3>3. /\ strcpy(d, s) \in Seq(Nat) /\ Len(strcpy(d, s)) = 12
            /\ s[1] # 0 /\ s[2] # 0 => strcpy(d, s)[1] = s[1] /\ strcpy(d, s)[2] = s[2]
        BY <3>2, CopiesId
      <3> QED BY <3>1, <3>3, <1>1
    <2> QED BY <2>2, <1>1, <1>3 DEF Copied
  <1>8. ForwardsRequest'
    <2>1. request.flags = FLAG_QUERY => asked' = Encode([request EXCEPT !.id = id])
      BY <1>1, <1>4 DEF Held
    <2> QED BY <2>1, <1>1 DEF ForwardsRequest
  <1>9. RequestMeant' /\ SentSoFar' /\ RepliesWellFormed' /\ TimeoutReadable'
    BY <1>1, HandlingKeeps
  <1>10. HoldsRequest' /\ FetchesQuestion' /\ ReadsQuestion' /\ RootUncached' /\ HoldsAnswer'
    BY <1>1 DEF HoldsRequest, FetchesQuestion, ReadsQuestion, RootUncached, HoldsAnswer
  <1> QED BY <1>6, <1>7, <1>8, <1>9, <1>10 DEF Inv

LEMMA ReceiveAnswerInv ==
    ASSUME Inv, pc = "waiting", NEW m \in Answering(request, Word(0)), ReceiveAnswer(m)
    PROVE  Inv'
  <1>1. /\ pc' \in {"owner", "relay"} /\ answer' = m /\ buf' = Encode(m)
        /\ UNCHANGED <<request, asked, sent, slot>>
    BY DEF ReceiveAnswer
  <1>2. Word(0) \in Words
    <2>1. PICK id \in NewIds : buf = Encode([Held EXCEPT !.id = id])
      BY DEF Inv, HoldsQuery
    <2>2. Held \in Bare /\ id \in Words
      BY HeldIsBare, NewIdIsWord DEF Inv
    <2>3. [Held EXCEPT !.id = id] \in Bare
      BY <2>2, SetsIdOfBare
    <2> QED BY <2>1, <2>3, IdRead
  <1>3. HoldsAnswer'
    BY <1>1, <1>2 DEF HoldsAnswer
  <1>4. KnowsClient' /\ Copied' /\ ForwardsRequest'
    BY <1>1 DEF Inv, KnowsClient, Copied, ForwardsRequest
  <1>5. RequestMeant' /\ SentSoFar' /\ RepliesWellFormed' /\ TimeoutReadable'
    BY <1>1, HandlingKeeps
  <1>6. HoldsRequest' /\ FetchesQuestion' /\ ReadsQuestion' /\ RootUncached' /\ HoldsQuery'
    BY <1>1 DEF HoldsRequest, FetchesQuestion, ReadsQuestion, RootUncached, HoldsQuery
  <1> QED BY <1>3, <1>4, <1>5, <1>6 DEF Inv

LEMMA ReadAnswerInv == ASSUME Inv, ReadAnswer \/ CacheAnswers PROVE Inv'
  <1>1. pc \in {"owner", "cached"} /\ pc' \in {"owner", "cached", "relay"}
    BY DEF ReadAnswer, CacheAnswers
  <1>2. UNCHANGED <<session, buf, slot>>
    BY DEF ReadAnswer, CacheAnswers
  <1> QED BY <1>1, <1>2, AnswerRead

LEMMA OverrunsInv ==
    ASSUME Inv, LabelOverruns \/ AddressesOverrun \/ \E list \in Stored : RecordsOverrun(list)
    PROVE  Inv'
  <1>1. pc # "idle"
    BY DEF LabelOverruns, AtLabelByte, Fetching, AddressesOverrun, RecordsOverrun
  <1>2. pc' = "overrun" /\ UNCHANGED <<session, slot>>
    BY DEF LabelOverruns, AddressesOverrun, RecordsOverrun, Overruns
  <1> QED BY <1>1, <1>2, OverrunInv

-----------------------------------------------------------------------------
LEMMA NextInv == Inv /\ [Next]_vars => Inv'
  <1> SUFFICES ASSUME Inv, [Next]_vars
               PROVE  Inv'
    OBVIOUS
  <1>1. CASE \E m \in Requests : ReceiveRequest(m) \/ ReceiveOwnQuery(m)
    BY <1>1, ReceiveInv
  <1>2. CASE pc = "waiting" /\ \E m \in Answering(request, Word(0)) : ReceiveAnswer(m)
    BY <1>2, ReceiveAnswerInv
  <1>3. CASE Timeout
    BY <1>3, TimeoutInv
  <1>4. CASE Code
    <2>1. CASE \E list \in Stored : ReplyRecords(list)
      BY <2>1, ReplyRecordsInv
    <2>2. CASE \E id \in NewIds : Forward(id)
      BY <2>2, ForwardInv
    <2>3. CASE LabelOverruns \/ AddressesOverrun \/ \E list \in Stored : RecordsOverrun(list)
      BY <2>3, OverrunsInv
    <2> QED BY <1>4, <2>1, <2>2, <2>3, CopyLabelInv, FollowPointerInv, ReadQuestionInv,
               ReplyNameErrorInv, ReadAnswerInv, RelayAnswerInv DEF Code
  <1>5. CASE UNCHANGED vars
    <2>1. UNCHANGED <<pc, request, answer, asked, sent, buf, at, next, mark, dest, answers,
                      question, slot>>
      BY <1>5 DEF vars, session, fetch
    <2>2. RequestMeant' /\ HoldsRequest' /\ FetchesQuestion' /\ ReadsQuestion' /\ RootUncached'
          /\ HoldsQuery' /\ KnowsClient' /\ HoldsAnswer' /\ Copied' /\ SentSoFar'
      BY <2>1 DEF Inv, RequestMeant, HoldsRequest, Held, FetchesQuestion, ReadsQuestion,
                  RootUncached, HoldsQuery, KnowsClient, HoldsAnswer, Copied, SentSoFar, Refused
    <2>3. RepliesWellFormed' /\ TimeoutReadable' /\ ForwardsRequest'
      BY <2>1 DEF Inv, RepliesWellFormed, WellFormed, TimeoutReadable, ForwardsRequest
    <2> QED BY <2>2, <2>3 DEF Inv
  <1> QED BY <1>1, <1>2, <1>3, <1>4, <1>5 DEF Next, Undefined

LEMMA InvHolds == Spec => []Inv
  BY InitInv, NextInv, PTL DEF Spec

-----------------------------------------------------------------------------
(***************************************************************************)
(* Theorems.                                                               *)
(***************************************************************************)
\* read_dns_questions finds the name, the type and the class of every question
\* of at least one label, whatever names, types and ids clients use and whatever
\* earlier messages left in question.label.
THEOREM QuestionsAreRead == Spec => []ReadsQuestion
  <1>1. Inv => ReadsQuestion
    BY DEF Inv
  <1> QED BY <1>1, InvHolds, PTL

\* Every refusal, name error, reply with cached records and relayed answer is,
\* byte for byte, the message it should be: write_dns_response_by_query,
\* set_header_flag, set_header_rcode and set_header_id leave the client's question
\* in place and write what the format wants, whatever the sizes of the arrays.
\* Records are written under any name without a zero byte, and for every list
\* that fits ans[] and whose reply fits recv_buffer; a name, an answer or a list
\* that does not fit its array ends in "overrun", of which nothing is claimed.
THEOREM RepliesAreWellFormed == Spec => []RepliesWellFormed
  <1>1. Inv => RepliesWellFormed
    BY DEF Inv
  <1> QED BY <1>1, InvHolds, PTL

\* What handle_request sends upstream is the client's message with the slot's
\* number as its id.
THEOREM RequestsAreForwarded == Spec => []ForwardsRequest
  <1>1. Inv => ForwardsRequest
    BY DEF Inv
  <1> QED BY <1>1, InvHolds, PTL

\* The reply IDAdapter_pop makes when a slot expires can be read by its client
\* if no byte of the client's id is zero, though strcpy copied the message and
\* strlen measures it.
THEOREM TimeoutsAreReadable == Spec => []TimeoutReadable
  <1>1. Inv => TimeoutReadable
    BY DEF Inv
  <1> QED BY <1>1, InvHolds, PTL
=============================================================================
