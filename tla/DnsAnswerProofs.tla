--------------------------- MODULE DnsAnswerProofs ---------------------------
(***************************************************************************)
(* Proofs about what DnsMessage reads of upstream's answers: where in the  *)
(* message each name and each record is, what fetch_label makes of a       *)
(* compressed name, and that read_dns_answers goes from record to record,  *)
(* for every set of answer sections whose owner names end in a pointer.    *)
(* With that, the type invariant.                                          *)
(***************************************************************************)
EXTENDS DnsMessageProofs

-----------------------------------------------------------------------------
(***************************************************************************)
(* The names that can be pointed at.                                       *)
(***************************************************************************)
\* The question's name is written as an encoded name too.
NameOf(m, k) == IF k = 0 THEN [labels |-> m.qname, at |-> Plain, drop |-> 0]
                ELSE m.answers[k].target
Pointable(m, k) == k = 0 \/ (k \in 1..Len(m.answers) /\ m.answers[k].type = RRTYPE_CNAME)

\* An answer as it is received: its pointers point back, and it is whole.
Arrived(m) ==
    /\ Answered(m)
    /\ \A k \in 1..Len(m.answers) :
           /\ Refers(m, m.answers[k].owner, k)
           /\ m.answers[k].type = RRTYPE_CNAME => Refers(m, m.answers[k].target, k)
    /\ Len(Encode(m)) <= MAX_DNS_SIZE

LEMMA AnsweringArrives ==
    ASSUME NEW req \in Bare, NEW id \in Words, NEW m \in Answering(req, id)
    PROVE  Arrived(m) /\ m.qname = req.qname /\ m.qtype = req.qtype
  <1>1. Answered(m)
    BY SetsIdOfAnswer, SmallWords
  <1>2. Suits(req, m)
    BY DEF Answering
  <1>3. DOMAIN m.answers = 1..Len(m.answers)
    BY <1>1 DEF Answered
  <1>4. m.qname = req.qname /\ m.qtype = req.qtype
    <2>1. PICK s \in Sections : m = AnswerOf(req, id, s)
      BY DEF Answering
    <2> QED BY <2>1 DEF AnswerOf, Bare
  <1> QED BY <1>1, <1>2, <1>3, <1>4 DEF Arrived, Suits

\* What a name that is target k means, given what those before it mean.
Resolved(f, k, m) ==
    m.answers[k].target.labels \o
    (IF m.answers[k].target.at \in 0..(k - 1)
     THEN SubSeq(f[m.answers[k].target.at], m.answers[k].target.drop + 1,
                 Len(f[m.answers[k].target.at]))
     ELSE <<>>)

ResolvesTo(f, n, m) == f = [k \in 0..n |-> IF k = 0 THEN m.qname ELSE Resolved(f, k, m)]

LEMMA ResolvesToUnfold ==
    ASSUME NEW f, NEW n \in Nat, NEW m, ResolvesTo(f, n, m)
    PROVE  /\ f[0] = m.qname
           /\ \A k \in 1..n : f[k] = Resolved(f, k, m)
  <1> DEFINE h == [k \in 0..n |-> IF k = 0 THEN m.qname ELSE Resolved(f, k, m)]
  <1>1. h[0] = m.qname
    OBVIOUS
  <1>2. ASSUME NEW k \in 1..n PROVE h[k] = Resolved(f, k, m)
    <2>1. k \in 0..n /\ k # 0
      OBVIOUS
    <2> QED BY <2>1
  <1>3. f = h
    BY DEF ResolvesTo
  <1> HIDE DEF h
  <1> QED BY <1>1, <1>2, <1>3

\* Only what comes before matters.
LEMMA ResolvedAgree ==
    ASSUME NEW f, NEW g, NEW k \in Nat, NEW m, \A j \in 0..(k - 1) : f[j] = g[j]
    PROVE  Resolved(f, k, m) = Resolved(g, k, m)
  BY DEF Resolved

LEMMA ResolvesToExists ==
    ASSUME NEW size \in Nat, NEW m
    PROVE  \E f : ResolvesTo(f, size, m)
  <1> DEFINE Good == {n \in Nat : \E f : ResolvesTo(f, n, m)}
  <1>1. 0 \in Good
    <2> DEFINE f == [k \in 0..0 |-> m.qname]
    <2>1. f = [k \in 0..0 |-> IF k = 0 THEN m.qname ELSE Resolved(f, k, m)]
      OBVIOUS
    <2> HIDE DEF f
    <2>2. \E x : ResolvesTo(x, 0, m)
      BY <2>1 DEF ResolvesTo
    <2> QED BY <2>2
  <1>2. ASSUME NEW n \in Nat, n \in Good PROVE n + 1 \in Good
    <2>1. PICK f : ResolvesTo(f, n, m)
      BY <1>2
    <2> DEFINE g == [k \in 0..(n + 1) |-> IF k <= n THEN f[k] ELSE Resolved(f, k, m)]
    <2>2. ASSUME NEW k \in 0..(n + 1)
          PROVE  g[k] = IF k = 0 THEN m.qname ELSE Resolved(g, k, m)
      <3>0. \A j \in 0..(k - 1) : f[j] = g[j]
        OBVIOUS
      <3>4. Resolved(f, k, m) = Resolved(g, k, m)
        <4> HIDE DEF g
        <4> QED BY <3>0, ResolvedAgree
      <3>1. CASE k = 0
        <4>1. g[k] = f[0]
          BY <3>1
        <4> QED BY <2>1, <3>1, <4>1, ResolvesToUnfold
      <3>2. CASE k \in 1..n
        <4>1. g[k] = f[k] /\ k # 0
          BY <3>2
        <4>2. f[k] = Resolved(f, k, m)
          BY <2>1, <3>2, ResolvesToUnfold
        <4> HIDE DEF g
        <4> QED BY <4>1, <4>2, <3>4
      <3>3. CASE k = n + 1
        <4>1. g[k] = Resolved(f, k, m) /\ k # 0
          BY <3>3
        <4> HIDE DEF g
        <4> QED BY <4>1, <3>4
      <3>5. k = 0 \/ k \in 1..n \/ k = n + 1
        OBVIOUS
      <3> QED BY <3>1, <3>2, <3>3, <3>5
    <2>3. g = [k \in 0..(n + 1) |-> IF k = 0 THEN m.qname ELSE Resolved(g, k, m)]
      BY <2>2
    <2> HIDE DEF g
    <2>4. \E x : ResolvesTo(x, n + 1, m)
      BY <2>3 DEF ResolvesTo
    <2> QED BY <2>4
  <1> HIDE DEF Good
  <1>3. size \in Good
    BY <1>1, <1>2, InductiveSet
  <1> QED BY <1>3 DEF Good

LEMMA TargetsByRecursion ==
    ASSUME NEW m, m.answers \in Seq(Record)
    PROVE  /\ Targets(m)[0] = m.qname
           /\ \A k \in 1..Len(m.answers) : Targets(m)[k] = Resolved(Targets(m), k, m)
  <1>1. Len(m.answers) \in Nat
    OBVIOUS
  <1>2. \E f : ResolvesTo(f, Len(m.answers), m)
    BY <1>1, ResolvesToExists
  <1>3. Targets(m) = CHOOSE f : ResolvesTo(f, Len(m.answers), m)
    BY DEF Targets, ResolvesTo, Resolved
  <1>4. ResolvesTo(Targets(m), Len(m.answers), m)
    BY <1>2, <1>3
  <1> QED BY <1>1, <1>4, ResolvesToUnfold

\* u is s and what follows the first d elements of t.
LEMMA JoinRest ==
    ASSUME NEW S, NEW s \in Seq(S), NEW t \in Seq(S), NEW d \in Nat, d < Len(t)
    PROVE  LET u == s \o SubSeq(t, d + 1, Len(t))
           IN  /\ u \in Seq(S) /\ Len(u) = Len(s) + (Len(t) - d)
               /\ \A i \in 1..Len(s) : u[i] = s[i]
               /\ \A i \in 1..(Len(t) - d) : u[Len(s) + i] = t[d + i]
  <1>1. PICK r : r = SubSeq(t, d + 1, Len(t))
    OBVIOUS
  <1>2. /\ r \in Seq(S) /\ Len(r) = Len(t) - d
        /\ \A i \in 1..(Len(t) - d) : r[i] = t[d + i]
    <2>1. d + 1 \in Nat /\ 1 <= d + 1 /\ d + 1 <= Len(t)
      OBVIOUS
    <2>2. r \in Seq(S) /\ Len(r) = Len(t) - (d + 1) + 1
      BY <1>1, <2>1, Suffix
    <2>3. ASSUME NEW i \in 1..(Len(t) - d) PROVE r[i] = t[d + i]
      BY <1>1, <2>3
    <2>4. Len(t) - (d + 1) + 1 = Len(t) - d
      OBVIOUS
    <2> QED BY <2>2, <2>3, <2>4
  <1>3. /\ s \o r \in Seq(S) /\ Len(s \o r) = Len(s) + Len(r)
        /\ \A i \in 1..Len(s) : (s \o r)[i] = s[i]
        /\ \A i \in 1..Len(r) : (s \o r)[Len(s) + i] = r[i]
    <2>1. r \in Seq(S)
      BY <1>2
    <2> QED BY <2>1, Join
  <1> QED BY <1>1, <1>2, <1>3

\* What the name n means, in parts: its own labels, and what the name it points
\* at means from label n.drop + 1 on.
MeansInParts(m, n) ==
    /\ Meaning(m, n) \in Seq(DnsLabel)
    /\ \A i \in 1..Len(n.labels) : Meaning(m, n)[i] = n.labels[i]
    /\ Len(n.labels) <= Len(Meaning(m, n))
    /\ n.at = Plain => Len(Meaning(m, n)) = Len(n.labels)
    /\ n.at # Plain =>
           /\ Len(Meaning(m, n)) - Len(n.labels) = Len(Targets(m)[n.at]) - n.drop
           /\ \A i \in 1..(Len(Targets(m)[n.at]) - n.drop) :
                  Meaning(m, n)[Len(n.labels) + i] = Targets(m)[n.at][n.drop + i]

\* Target k is known.
Known(m, k) == Targets(m)[k] \in Seq(DnsLabel) /\ Len(LabelsAt(m, k)) <= Len(Targets(m)[k])

LEMMA MeaningParts ==
    ASSUME NEW m, Arrived(m), NEW n \in EncodedName, NEW k, Refers(m, n, k),
           n.at # Plain => Known(m, n.at) /\ LabelsAt(m, n.at) \in Seq(DnsLabel)
    PROVE  MeansInParts(m, n)
  <1>1. n.labels \in Seq(DnsLabel) /\ n.drop \in Nat
    BY DEF EncodedName
  <1>2. CASE n.at = Plain
    <2>1. Meaning(m, n) = n.labels
      BY <1>1, <1>2, JoinEmpty DEF Meaning
    <2> QED BY <1>1, <1>2, <2>1 DEF MeansInParts
  <1>3. CASE n.at # Plain
    <2>1. PICK t \in Seq(DnsLabel) : t = Targets(m)[n.at]
      BY <1>3 DEF Known
    <2>2. n.drop < Len(t)
      BY <1>1, <1>3, <2>1 DEF Refers, Known
    <2>3. Meaning(m, n) = n.labels \o SubSeq(t, n.drop + 1, Len(t))
      BY <1>3, <2>1 DEF Meaning
    <2>4. PICK l \in Seq(DnsLabel), d \in Nat : l = n.labels /\ d = n.drop
      BY <1>1
    <2>5. PICK u : u = Meaning(m, n)
      OBVIOUS
    <2>6. /\ u \in Seq(DnsLabel) /\ Len(u) = Len(l) + (Len(t) - d)
          /\ \A i \in 1..Len(l) : u[i] = l[i]
          /\ \A i \in 1..(Len(t) - d) : u[Len(l) + i] = t[d + i]
      <3>1. u = l \o SubSeq(t, d + 1, Len(t)) /\ d < Len(t)
        BY <2>2, <2>3, <2>4, <2>5
      <3> QED BY <3>1, JoinRest
    <2>7. Len(l) <= Len(u) /\ Len(u) - Len(l) = Len(t) - d
      BY <2>2, <2>4, <2>6
    <2> QED BY <1>3, <2>1, <2>4, <2>5, <2>6, <2>7 DEF MeansInParts
  <1> QED BY <1>2, <1>3

LEMMA PointableName ==
    ASSUME NEW m, Arrived(m), NEW k, Pointable(m, k)
    PROVE  /\ k \in 0..Len(m.answers) /\ NameOf(m, k) \in EncodedName
           /\ NameOf(m, k).labels = LabelsAt(m, k) /\ LabelsAt(m, k) \in Seq(DnsLabel)
           /\ Refers(m, NameOf(m, k), k)
  <1>1. Answered(m) /\ m.qname \in Seq(DnsLabel) /\ m.answers \in Seq(Record) /\ Len(m.answers) \in Nat
    BY DEF Arrived, Answered
  <1>2. k \in 0..Len(m.answers)
    BY <1>1 DEF Pointable
  <1>3. LabelsAt(m, k) \in Seq(DnsLabel)
    BY <1>1, <1>2, PointedNumbers
  <1>4. CASE k = 0
    <2>1. NameOf(m, k) = [labels |-> m.qname, at |-> Plain, drop |-> 0]
      BY <1>4 DEF NameOf
    <2>2. NameOf(m, k) \in EncodedName
      BY <1>1, <2>1 DEF EncodedName
    <2>3. NameOf(m, k).labels = LabelsAt(m, k)
      BY <1>4, <2>1 DEF LabelsAt
    <2>4. Refers(m, NameOf(m, k), k)
      BY <2>1 DEF Refers
    <2> QED BY <1>2, <1>3, <2>2, <2>3, <2>4
  <1>5. CASE k # 0
    <2>1. k \in 1..Len(m.answers) /\ m.answers[k].type = RRTYPE_CNAME
      BY <1>5 DEF Pointable
    <2>2. PICK r \in Record : r = m.answers[k]
      BY <1>1, <2>1
    <2>3. r.target \in EncodedName
      BY RecordParts
    <2>4. NameOf(m, k) = r.target /\ LabelsAt(m, k) = r.target.labels
      BY <1>5, <2>2 DEF NameOf, LabelsAt
    <2>5. Refers(m, r.target, k)
      BY <2>1, <2>2 DEF Arrived
    <2> QED BY <1>2, <1>3, <2>3, <2>4, <2>5
  <1> QED BY <1>4, <1>5

\* A pointer leads to a name.
LEMMA RefersPointable ==
    ASSUME NEW m, Arrived(m), NEW n, NEW k \in 0..Len(m.answers), Refers(m, n, k), n.at # Plain
    PROVE  /\ Pointable(m, n.at) /\ n.at \in 0..(k - 1) /\ n.drop < Len(LabelsAt(m, n.at))
           /\ LabelsAt(m, n.at) \in Seq(DnsLabel)
  <1>1. Len(m.answers) \in Nat
    BY DEF Arrived, Answered
  <1>2. /\ n.at \in 0..(k - 1) /\ n.drop < Len(LabelsAt(m, n.at))
        /\ n.at # 0 => m.answers[n.at].type = RRTYPE_CNAME
    BY DEF Refers
  <1>3. n.at \in 0..Len(m.answers)
    BY <1>1, <1>2
  <1>4. Pointable(m, n.at)
    BY <1>1, <1>2, <1>3 DEF Pointable
  <1> QED BY <1>2, <1>4, PointableName

\* The recursion gives each name its meaning.
LEMMA TargetsKnown ==
    ASSUME NEW m, Arrived(m)
    PROVE  \A k \in 0..Len(m.answers) :
               Pointable(m, k) => Known(m, k) /\ Targets(m)[k] = Meaning(m, NameOf(m, k))
  <1>1. /\ m.qname \in Seq(DnsLabel) /\ m.answers \in Seq(Record) /\ Len(m.answers) \in Nat
    BY DEF Arrived, Answered
  <1> DEFINE Is(k) == Pointable(m, k) => Known(m, k) /\ Targets(m)[k] = Meaning(m, NameOf(m, k))
             Good == {n \in Nat : \A k \in 0..n : Is(k)}
  <1>2. ASSUME NEW k \in Nat, \A j \in 0..(k - 1) : Is(j), Pointable(m, k)
        PROVE  Known(m, k) /\ Targets(m)[k] = Meaning(m, NameOf(m, k))
    <2>1. PICK n \in EncodedName : n = NameOf(m, k) /\ Refers(m, n, k) /\ n.labels = LabelsAt(m, k)
      BY <1>2, PointableName
    <2>2. k \in 0..Len(m.answers)
      BY <1>2, PointableName
    <2>3. n.at # Plain => /\ Known(m, n.at) /\ LabelsAt(m, n.at) \in Seq(DnsLabel)
                          /\ n.at \in 0..(k - 1)
      <3> SUFFICES ASSUME n.at # Plain PROVE Known(m, n.at) /\ LabelsAt(m, n.at) \in Seq(DnsLabel)
                                             /\ n.at \in 0..(k - 1)
        OBVIOUS
      <3>1. Pointable(m, n.at) /\ n.at \in 0..(k - 1) /\ LabelsAt(m, n.at) \in Seq(DnsLabel)
        BY <2>1, <2>2, RefersPointable
      <3> QED BY <3>1, <1>2
    <2>4. MeansInParts(m, n)
      BY <2>1, <2>3, MeaningParts
    <2>5. Targets(m)[k] = Meaning(m, n)
      <3>1. CASE k = 0
        <4>1. n.labels = m.qname /\ n.at = Plain
          BY <2>1, <3>1 DEF NameOf
        <4>2. Meaning(m, n) = m.qname
          BY <4>1, <1>1, JoinEmpty DEF Meaning
        <4> QED BY <1>1, <3>1, <4>2, TargetsByRecursion
      <3>2. CASE k # 0
        <4>1. k \in 1..Len(m.answers)
          BY <1>1, <2>2, <3>2
        <4>2. Targets(m)[k] = Resolved(Targets(m), k, m) /\ n = m.answers[k].target
          BY <1>1, <2>1, <3>2, <4>1, TargetsByRecursion DEF NameOf
        <4>3. n.at \in 0..(k - 1) <=> n.at # Plain
          BY <2>3 DEF Plain
        <4> QED BY <4>2, <4>3 DEF Resolved, Meaning
      <3> QED BY <3>1, <3>2
    <2> QED BY <2>1, <2>4, <2>5 DEF MeansInParts, Known
  <1>3. 0 \in Good
    <2>1. Is(0)
      BY <1>2
    <2> QED BY <2>1
  <1>4. ASSUME NEW n \in Nat, n \in Good PROVE n + 1 \in Good
    <2>1. \A j \in 0..n : Is(j)
      BY <1>4
    <2>2. Is(n + 1)
      <3>1. n + 1 \in Nat /\ (n + 1) - 1 = n
        OBVIOUS
      <3> QED BY <1>2, <2>1, <3>1
    <2>3. \A j \in 0..(n + 1) : j \in 0..n \/ j = n + 1
      OBVIOUS
    <2> HIDE DEF Is
    <2> QED BY <2>1, <2>2, <2>3
  <1> HIDE DEF Good
  <1>5. Len(m.answers) \in Good
    BY <1>1, <1>3, <1>4, InductiveSet
  <1> QED BY <1>5 DEF Good

\* So a name means what its labels and the name it points at say.
LEMMA NameMeans ==
    ASSUME NEW m, Arrived(m), NEW n \in EncodedName, NEW k \in 0..Len(m.answers), Refers(m, n, k)
    PROVE  MeansInParts(m, n)
  <1>1. Len(m.answers) \in Nat
    BY DEF Arrived, Answered
  <1>2. n.at # Plain => Known(m, n.at) /\ LabelsAt(m, n.at) \in Seq(DnsLabel)
    <2> SUFFICES ASSUME n.at # Plain PROVE Known(m, n.at) /\ LabelsAt(m, n.at) \in Seq(DnsLabel)
      OBVIOUS
    <2>1. Pointable(m, n.at) /\ n.at \in 0..(k - 1) /\ LabelsAt(m, n.at) \in Seq(DnsLabel)
      BY RefersPointable
    <2>2. n.at \in 0..Len(m.answers)
      BY <1>1, <2>1
    <2> QED BY <2>1, <2>2, TargetsKnown
  <1> QED BY <1>2, MeaningParts

-----------------------------------------------------------------------------
(***************************************************************************)
(* Where things are: b has s behind its first p elements.                  *)
(***************************************************************************)
Has(b, p, s) ==
    /\ p \in Nat /\ p + Len(s) <= Len(b)
    /\ \A i \in 1..Len(s) : b[p + i] = s[i]

LEMMA HasWhole == ASSUME NEW s \in Seq(Nat) PROVE Has(s, 0, s)
  BY DEF Has

\* What is put behind leaves what is there in place.
LEMMA HasKept ==
    ASSUME NEW b \in Seq(Nat), NEW s \in Seq(Nat), NEW t \in Seq(Nat), NEW p, Has(b, p, s)
    PROVE  Has(b \o t, p, s)
  <1>1. /\ b \o t \in Seq(Nat) /\ Len(b \o t) = Len(b) + Len(t)
        /\ \A i \in 1..Len(b) : (b \o t)[i] = b[i]
    BY Join
  <1>2. p \in Nat /\ p + Len(s) <= Len(b) /\ Len(s) \in Nat /\ Len(b) \in Nat /\ Len(t) \in Nat
    BY DEF Has
  <1>3. ASSUME NEW i \in 1..Len(s) PROVE (b \o t)[p + i] = s[i]
    <2>1. p + i \in 1..Len(b)
      BY <1>2
    <2>2. b[p + i] = s[i]
      BY DEF Has
    <2> QED BY <1>1, <2>1, <2>2
  <1>4. p + Len(s) <= Len(b \o t)
    BY <1>1, <1>2
  <1> QED BY <1>2, <1>3, <1>4 DEF Has

LEMMA HasNew ==
    ASSUME NEW b \in Seq(Nat), NEW t \in Seq(Nat)
    PROVE  /\ b \o t \in Seq(Nat) /\ Len(b \o t) = Len(b) + Len(t) /\ Len(b) \in Nat
           /\ Has(b \o t, Len(b), t)
  <1>1. /\ b \o t \in Seq(Nat) /\ Len(b \o t) = Len(b) + Len(t)
        /\ \A i \in 1..Len(t) : (b \o t)[Len(b) + i] = t[i]
    BY Join
  <1>2. Len(b) \in Nat /\ Len(t) \in Nat
    OBVIOUS
  <1>3. Len(b) + Len(t) <= Len(b \o t)
    BY <1>1, <1>2
  <1> QED BY <1>1, <1>2, <1>3 DEF Has

\* What is in a part is in the whole.
LEMMA HasWithin ==
    ASSUME NEW b \in Seq(Nat), NEW s \in Seq(Nat), NEW t \in Seq(Nat), NEW p, NEW q,
           Has(b, p, s), Has(s, q, t)
    PROVE  Has(b, p + q, t)
  <1>1. /\ p \in Nat /\ p + Len(s) <= Len(b) /\ q \in Nat /\ q + Len(t) <= Len(s)
        /\ Len(t) \in Nat /\ Len(s) \in Nat /\ Len(b) \in Nat
    BY DEF Has
  <1>2. ASSUME NEW i \in 1..Len(t) PROVE b[(p + q) + i] = t[i]
    <2>1. q + i \in 1..Len(s)
      BY <1>1
    <2>2. s[q + i] = t[i] /\ b[p + (q + i)] = s[q + i]
      BY <2>1 DEF Has
    <2>3. p + (q + i) = (p + q) + i
      BY <1>1
    <2> QED BY <2>2, <2>3
  <1>3. p + q \in Nat /\ (p + q) + Len(t) <= Len(b)
    BY <1>1
  <1> QED BY <1>2, <1>3 DEF Has

\* A byte that is there.
LEMMA HasByte ==
    ASSUME NEW b \in Seq(Nat), NEW s \in Seq(Nat), NEW p, Has(b, p, s), NEW i \in 1..Len(s)
    PROVE  b[p + i] = s[i] /\ p + i \in Nat /\ p + i <= Len(b) /\ p + i >= 1
  <1>1. p \in Nat /\ p + Len(s) <= Len(b) /\ Len(s) \in Nat /\ Len(b) \in Nat
    BY DEF Has
  <1>2. b[p + i] = s[i]
    BY DEF Has
  <1> QED BY <1>1, <1>2

-----------------------------------------------------------------------------
(***************************************************************************)
(* Names and records in bytes.                                             *)
(***************************************************************************)
\* Where a pointer points.
Aim(m, n) == OffsetAt(m, n.at) + Len(Upto(LabelsAt(m, n.at), n.drop))
PointerFlag == 256 * COMPRESS_FLAG

EndBytes(m, n) == IF n.at = Plain THEN <<0>> ELSE U16(PointerFlag + Aim(m, n))

\* A name is its labels and its end.
NameInBytes(m, n) ==
    /\ NameBytes(m, n) \in Seq(Nat) /\ Len(NameBytes(m, n)) = NameLen(n)
    /\ NameLen(n) \in Nat /\ LabelBytes(n.labels) \in Bytes
    /\ LabelBytes(n.labels) \in Seq(Nat) /\ EndBytes(m, n) \in Seq(Nat)
    /\ NameLen(n) = Len(LabelBytes(n.labels)) + Len(EndBytes(m, n))
    /\ n.at = Plain => Len(EndBytes(m, n)) = 1
    /\ n.at # Plain => Len(EndBytes(m, n)) = 2 /\ Aim(m, n) \in Nat
    /\ NameBytes(m, n) = LabelBytes(n.labels) \o EndBytes(m, n)
    /\ Has(NameBytes(m, n), 0, LabelBytes(n.labels))
    /\ Has(NameBytes(m, n), Len(LabelBytes(n.labels)), EndBytes(m, n))

LEMMA NamesInBytes ==
    ASSUME NEW m, Answered(m), NEW n \in EncodedName, Resolves(m, n)
    PROVE  NameInBytes(m, n)
  <1>1. n.labels \in Seq(DnsLabel) /\ n.drop \in Nat
    BY DEF EncodedName
  <1>2. LabelBytes(n.labels) \in Bytes
    BY <1>1, LabelBytesType
  <1>3. PICK lb \in Seq(Nat) : lb = LabelBytes(n.labels)
    BY <1>2, BytesAreNumbers
  <1>4. n.at # Plain =>
            /\ Aim(m, n) \in Nat
            /\ PointerFlag + OffsetAt(m, n.at) + Len(Upto(LabelsAt(m, n.at), n.drop)) =
                   PointerFlag + Aim(m, n)
    <2> SUFFICES ASSUME n.at # Plain
                 PROVE  /\ Aim(m, n) \in Nat
                        /\ PointerFlag + OffsetAt(m, n.at) + Len(Upto(LabelsAt(m, n.at), n.drop)) =
                               PointerFlag + Aim(m, n)
      OBVIOUS
    <2>1. n.at \in 0..Len(m.answers) /\ n.drop < Len(LabelsAt(m, n.at))
      BY DEF Resolves
    <2>2. PICK o \in Nat, s \in Seq(DnsLabel) : o = OffsetAt(m, n.at) /\ s = LabelsAt(m, n.at)
      BY <2>1, PointedNumbers
    <2>3. n.drop \in 0..Len(s)
      BY <1>1, <2>1, <2>2
    <2>4. PICK x \in Bytes : x = Upto(s, n.drop)
      BY <2>3, NameLayoutEnds
    <2>5. Len(x) \in Nat
      BY DEF Bytes
    <2>6. Aim(m, n) = o + Len(x)
      BY <2>2, <2>4 DEF Aim
    <2>7. PointerFlag + o + Len(x) = PointerFlag + (o + Len(x)) /\ o + Len(x) \in Nat
      BY <2>5 DEF PointerFlag, COMPRESS_FLAG
    <2> QED BY <2>2, <2>4, <2>6, <2>7
  <1>5. PICK e \in Seq(Nat) : /\ e = EndBytes(m, n)
                              /\ n.at = Plain => Len(e) = 1
                              /\ n.at # Plain => Len(e) = 2
    <2>1. CASE n.at = Plain
      <3>1. EndBytes(m, n) = <<0>> /\ <<0>> \in Seq(Nat) /\ Len(<<0>>) = 1
        BY <2>1 DEF EndBytes
      <3> QED BY <2>1, <3>1
    <2>2. CASE n.at # Plain
      <3>1. PICK w \in Nat : w = PointerFlag + Aim(m, n)
        BY <1>4, <2>2 DEF PointerFlag, COMPRESS_FLAG
      <3>2. EndBytes(m, n) = U16(w)
        BY <2>2, <3>1 DEF EndBytes
      <3>3. U16(w) \in Seq(Nat) /\ Len(U16(w)) = 2
        BY NumberBytes DEF U16
      <3> QED BY <2>2, <3>2, <3>3
    <2> QED BY <2>1, <2>2
  <1>6. NameBytes(m, n) = lb \o e
    <2>1. CASE n.at = Plain
      BY <1>3, <1>5, <2>1 DEF NameBytes, EndBytes
    <2>2. CASE n.at # Plain
      <3>1. NameBytes(m, n) = LabelBytes(n.labels) \o
                U16(PointerFlag + OffsetAt(m, n.at) + Len(Upto(LabelsAt(m, n.at), n.drop)))
        BY <2>2, Zenon DEF NameBytes, PointerFlag, Upto
      <3>2. EndBytes(m, n) = U16(PointerFlag + Aim(m, n))
        BY <2>2, Zenon DEF EndBytes
      <3> QED BY <1>3, <1>4, <1>5, <2>2, <3>1, <3>2, Zenon
    <2> QED BY <2>1, <2>2
  <1>7. NameLen(n) = Len(lb) + Len(e)
    BY <1>3, <1>5 DEF NameLen
  <1>8. /\ lb \o e \in Seq(Nat) /\ Len(lb \o e) = Len(lb) + Len(e)
        /\ Has(lb \o e, 0, lb) /\ Has(lb \o e, Len(lb), e)
    BY HasNew, HasWhole, HasKept
  <1>9. Len(lb) + Len(e) \in Nat
    OBVIOUS
  <1> QED BY <1>2, <1>3, <1>4, <1>5, <1>6, <1>7, <1>8, <1>9 DEF NameInBytes

RdataOf(m, r) == IF r.type = RRTYPE_CNAME THEN NameBytes(m, r.target) ELSE r.addr

\* A record: the owner, type, class, ttl, length and data.
RecordInBytes(m, r) ==
    LET a == AnswerBytes(m, r)
        o == NameLen(r.owner)
    IN  /\ a \in Seq(Nat) /\ o \in Nat /\ RdataLen(r) \in Nat /\ RdataOf(m, r) \in Seq(Nat)
        /\ Len(a) = o + 10 + RdataLen(r) /\ Len(RdataOf(m, r)) = RdataLen(r)
        /\ Has(a, 0, NameBytes(m, r.owner)) /\ Has(a, o, U16(r.type)) /\ Has(a, o + 2, U16(HTTP_CLASS))
        /\ Has(a, o + 4, U32(r.ttl)) /\ Has(a, o + 8, U16(RdataLen(r)))
        /\ Has(a, o + 10, RdataOf(m, r))

\* Six pieces one after the other, and where they are.
SixPieces(a, n, t, c, l, s, d) ==
    /\ {n, t, c, l, s, d} \subseteq Seq(Nat)
    /\ Len(t) = 2 /\ Len(c) = 2 /\ Len(l) = 4 /\ Len(s) = 2
    /\ a = n \o t \o c \o l \o s \o d

InPlace(a, o, n, t, c, l, s, d) ==
    /\ a \in Seq(Nat) /\ Len(a) = o + 10 + Len(d)
    /\ Has(a, 0, n) /\ Has(a, o, t) /\ Has(a, o + 2, c) /\ Has(a, o + 4, l)
    /\ Has(a, o + 8, s) /\ Has(a, o + 10, d)

LEMMA PiecesInPlace ==
    ASSUME NEW a, NEW n, NEW t, NEW c, NEW l, NEW s, NEW d, SixPieces(a, n, t, c, l, s, d)
    PROVE  InPlace(a, Len(n), n, t, c, l, s, d)
  <1>0. /\ n \in Seq(Nat) /\ t \in Seq(Nat) /\ c \in Seq(Nat) /\ l \in Seq(Nat) /\ s \in Seq(Nat)
        /\ d \in Seq(Nat) /\ Len(t) = 2 /\ Len(c) = 2 /\ Len(l) = 4 /\ Len(s) = 2
        /\ a = n \o t \o c \o l \o s \o d
    BY DEF SixPieces
  <1>00. PICK o \in Nat : o = Len(n)
    BY <1>0
  <1>1. PICK a1 \in Seq(Nat) : /\ a1 = n \o t /\ Len(a1) = o + 2
                               /\ Has(a1, 0, n) /\ Has(a1, o, t)
    <2>1. /\ n \o t \in Seq(Nat) /\ Len(n \o t) = Len(n) + Len(t) /\ Has(n \o t, Len(n), t)
      BY <1>0, HasNew
    <2>2. Has(n \o t, 0, n)
      BY <1>0, HasWhole, HasKept
    <2> QED BY <1>0, <1>00, <2>1, <2>2
  <1>2. PICK a2 \in Seq(Nat) : /\ a2 = a1 \o c /\ Len(a2) = o + 4
                               /\ Has(a2, 0, n) /\ Has(a2, o, t) /\ Has(a2, o + 2, c)
    <2>1. a1 \o c \in Seq(Nat) /\ Len(a1 \o c) = Len(a1) + Len(c) /\ Has(a1 \o c, Len(a1), c)
      BY <1>0, HasNew
    <2>2. Has(a1 \o c, 0, n) /\ Has(a1 \o c, o, t)
      BY <1>1, <1>0, HasKept
    <2>3. Len(a1 \o c) = o + 4
      BY <1>0, <1>1, <2>1
    <2> QED BY <1>1, <2>1, <2>2, <2>3
  <1>3. PICK a3 \in Seq(Nat) : /\ a3 = a2 \o l /\ Len(a3) = o + 8 /\ Has(a3, 0, n) /\ Has(a3, o, t)
                               /\ Has(a3, o + 2, c) /\ Has(a3, o + 4, l)
    <2>1. a2 \o l \in Seq(Nat) /\ Len(a2 \o l) = Len(a2) + Len(l) /\ Has(a2 \o l, Len(a2), l)
      BY <1>0, HasNew
    <2>2. Has(a2 \o l, 0, n) /\ Has(a2 \o l, o, t) /\ Has(a2 \o l, o + 2, c)
      BY <1>2, <1>0, HasKept
    <2>3. Len(a2 \o l) = o + 8
      BY <1>0, <1>2, <2>1
    <2> QED BY <1>2, <2>1, <2>2, <2>3
  <1>4. PICK a4 \in Seq(Nat) : /\ a4 = a3 \o s /\ Len(a4) = o + 10 /\ Has(a4, 0, n) /\ Has(a4, o, t)
                               /\ Has(a4, o + 2, c) /\ Has(a4, o + 4, l) /\ Has(a4, o + 8, s)
    <2>1. a3 \o s \in Seq(Nat) /\ Len(a3 \o s) = Len(a3) + Len(s) /\ Has(a3 \o s, Len(a3), s)
      BY <1>0, HasNew
    <2>2. Has(a3 \o s, 0, n) /\ Has(a3 \o s, o, t) /\ Has(a3 \o s, o + 2, c) /\ Has(a3 \o s, o + 4, l)
      BY <1>3, <1>0, HasKept
    <2>3. Len(a3 \o s) = o + 10
      BY <1>0, <1>3, <2>1
    <2> QED BY <1>3, <2>1, <2>2, <2>3
  <1>5. /\ a4 \o d \in Seq(Nat) /\ Len(a4 \o d) = Len(a4) + Len(d) /\ Has(a4 \o d, Len(a4), d)
    BY <1>0, HasNew
  <1>6. /\ Has(a4 \o d, 0, n) /\ Has(a4 \o d, o, t) /\ Has(a4 \o d, o + 2, c)
        /\ Has(a4 \o d, o + 4, l) /\ Has(a4 \o d, o + 8, s)
    BY <1>4, <1>0, HasKept
  <1>7. a = a4 \o d
    BY <1>0, <1>1, <1>2, <1>3, <1>4
  <1> QED BY <1>00, <1>4, <1>5, <1>6, <1>7 DEF InPlace

LEMMA RecordsInBytes ==
    ASSUME NEW m, Answered(m), NEW k \in 1..Len(m.answers)
    PROVE  RecordInBytes(m, m.answers[k])
  <1>1. PICK r \in Record : r = m.answers[k]
    BY DEF Answered
  <1>2. /\ r.owner \in EncodedName /\ r.target \in EncodedName /\ r.ttl \in Ttl /\ r.addr \in Bytes
        /\ r.type \in Words /\ RdataLen(r) \in Nat
    BY RecordParts DEF Sized
  <1>3. Resolves(m, r.owner) /\ (r.type = RRTYPE_CNAME => Resolves(m, r.target))
    BY <1>1 DEF Answered
  <1>4. PICK n \in Seq(Nat), o \in Nat : n = NameBytes(m, r.owner) /\ o = NameLen(r.owner) /\ o = Len(n)
    BY <1>2, <1>3, NamesInBytes DEF NameInBytes
  <1>5. PICK d \in Seq(Nat) : d = RdataOf(m, r) /\ Len(d) = RdataLen(r)
    <2>1. CASE r.type = RRTYPE_CNAME
      <3>1. NameBytes(m, r.target) \in Seq(Nat) /\ Len(NameBytes(m, r.target)) = NameLen(r.target)
        BY <1>2, <1>3, <2>1, NamesInBytes DEF NameInBytes
      <3> QED BY <2>1, <3>1 DEF RdataOf, RdataLen
    <2>2. CASE r.type # RRTYPE_CNAME
      BY <1>2, <2>2, BytesAreNumbers DEF RdataOf, RdataLen
    <2> QED BY <2>1, <2>2
  <1>6. PICK t \in Seq(Nat), c \in Seq(Nat), l \in Seq(Nat), s \in Seq(Nat) :
            /\ t = U16(r.type) /\ c = U16(HTTP_CLASS) /\ l = U32(r.ttl) /\ s = U16(RdataLen(r))
            /\ Len(t) = 2 /\ Len(c) = 2 /\ Len(l) = 4 /\ Len(s) = 2
    <2>1. HTTP_CLASS \in Nat /\ r.type \in Nat
      BY <1>2, WordType DEF HTTP_CLASS
    <2>2. ASSUME NEW w \in Nat PROVE U16(w) \in Seq(Nat) /\ Len(U16(w)) = 2
      BY NumberBytes DEF U16
    <2>3. U32(r.ttl) \in Seq(Nat) /\ Len(U32(r.ttl)) = 4
      BY <1>2, TtlBytes, BytesAreNumbers
    <2> QED BY <1>2, <2>1, <2>2, <2>3
  <1>7. AnswerBytes(m, r) = n \o t \o c \o l \o s \o d
    BY <1>4, <1>5, <1>6 DEF AnswerBytes, RdataOf
  <1>8. SixPieces(AnswerBytes(m, r), n, t, c, l, s, d)
    BY <1>6, <1>7 DEF SixPieces
  <1>9. InPlace(AnswerBytes(m, r), o, n, t, c, l, s, d)
    BY <1>4, <1>8, PiecesInPlace
  <1> QED BY <1>1, <1>2, <1>4, <1>5, <1>6, <1>9 DEF RecordInBytes, InPlace

-----------------------------------------------------------------------------
(***************************************************************************)
(* Where the records are in the message.                                   *)
(***************************************************************************)
Pieces(m) == [i \in DOMAIN m.answers |-> AnswerBytes(m, m.answers[i])]

LEMMA PiecesType ==
    ASSUME NEW m, Answered(m)
    PROVE  /\ Len(m.answers) \in Nat /\ Pieces(m) \in Seq(Seq(Nat)) /\ Len(Pieces(m)) = Len(m.answers)
           /\ \A k \in 1..Len(m.answers) : Pieces(m)[k] = AnswerBytes(m, m.answers[k])
           /\ AnswersBytes(m) = FlattenSeq(Pieces(m)) /\ AnswersBytes(m) \in Seq(Nat)
  <1>1. DOMAIN m.answers = 1..Len(m.answers) /\ Len(m.answers) \in Nat
    BY DEF Answered
  <1>2. \A i \in 1..Len(m.answers) : AnswerBytes(m, m.answers[i]) \in Seq(Nat)
    BY AnswerNumbers
  <1>3. Pieces(m) \in Seq(Seq(Nat)) /\ Len(Pieces(m)) = Len(m.answers)
    BY <1>1, <1>2 DEF Pieces
  <1>4. FlattenSeq(Pieces(m)) \in Seq(Nat)
    BY <1>3, FlattenTyped
  <1>5. AnswersBytes(m) = FlattenSeq(Pieces(m))
    BY DEF AnswersBytes, Pieces
  <1>6. \A k \in 1..Len(m.answers) : Pieces(m)[k] = AnswerBytes(m, m.answers[k])
    BY <1>1 DEF Pieces
  <1> QED BY <1>1, <1>3, <1>4, <1>5, <1>6

LEMMA StartSteps ==
    ASSUME NEW m, Answered(m)
    PROVE  /\ Start(m)[1] = 12 + Len(QuestionBytes(m))
           /\ \A k \in 1..(Len(m.answers) + 1) : Start(m)[k] \in Nat
           /\ \A k \in 1..Len(m.answers) :
                  Start(m)[k + 1] = Start(m)[k] + Len(AnswerBytes(m, m.answers[k]))
  <1>1. /\ m.answers \in Seq(Record) /\ m.qname \in Seq(DnsLabel) /\ m.qtype \in Words
    BY DEF Answered
  <1>2. PICK n \in Nat, first \in Nat :
            n = Len(m.answers) /\ first = 12 + Len(QuestionBytes(m))
    <2>1. QuestionBytes(m) = QuestionFor(m.qname, m.qtype)
      BY DEF QuestionBytes, QuestionFor
    <2>2. QuestionBytes(m) \in Bytes
      BY <1>1, <2>1, QuestionLayout DEF QuestionOf
    <2>3. Len(QuestionBytes(m)) \in Nat
      BY <2>2 DEF Bytes
    <2> QED BY <1>1, <2>3
  <1>3. StartsAt(Start(m), n, first, m.answers)
    BY <1>1, <1>2, StartByRecursion DEF DNS_HEADER_SIZE
  <1>4. \A i \in 1..n : Sized(m.answers[i])
    BY <1>1, <1>2, RecordParts
  <1>5. \A k \in 1..(n + 1) : Start(m)[k] \in Nat
    BY <1>3, <1>4, StartsAtTyped
  <1>6. ASSUME NEW k \in 1..n
        PROVE  Start(m)[k + 1] = Start(m)[k] + Len(AnswerBytes(m, m.answers[k]))
    <2>1. PICK a \in Nat, o \in Nat, r \in Nat, s \in Nat :
              /\ a = Len(AnswerBytes(m, m.answers[k])) /\ o = NameLen(m.answers[k].owner)
              /\ r = RdataLen(m.answers[k]) /\ s = Start(m)[k] /\ a = o + 10 + r
      <3>1. RecordInBytes(m, m.answers[k])
        BY <1>2, RecordsInBytes
      <3>2. Start(m)[k] \in Nat
        BY <1>5
      <3>3. /\ Len(AnswerBytes(m, m.answers[k])) \in Nat /\ NameLen(m.answers[k].owner) \in Nat
            /\ RdataLen(m.answers[k]) \in Nat
            /\ Len(AnswerBytes(m, m.answers[k])) = NameLen(m.answers[k].owner) + 10
                                                      + RdataLen(m.answers[k])
        BY <3>1 DEF RecordInBytes
      <3> QED BY <3>2, <3>3
    <2>2. Start(m)[k + 1] = s + o + 10 + r
      <3>1. \A i \in 1..n : Start(m)[i + 1] = Start(m)[i] + NameLen(m.answers[i].owner)
                                              + ANSWER_SIZE + RdataLen(m.answers[i])
        BY <1>3, StartsAtUnfold
      <3>2. Start(m)[k + 1] = Start(m)[k] + NameLen(m.answers[k].owner)
                                 + ANSWER_SIZE + RdataLen(m.answers[k])
        BY <3>1, Zenon
      <3> QED BY <3>2, <2>1, Zenon DEF ANSWER_SIZE
    <2>3. s + o + 10 + r = s + (o + 10 + r)
      OBVIOUS
    <2> QED BY <2>1, <2>2, <2>3
  <1>7. Start(m)[1] = first
    BY <1>3, StartsAtUnfold
  <1> QED BY <1>2, <1>5, <1>6, <1>7

\* Where the record after the first k starts.
LEMMA StartIs ==
    ASSUME NEW m, Answered(m)
    PROVE  \A k \in 0..Len(m.answers) :
               Start(m)[k + 1] = Start(m)[1] + Len(FlattenSeq(SubSeq(Pieces(m), 1, k)))
  <1>1. /\ Len(m.answers) \in Nat /\ Pieces(m) \in Seq(Seq(Nat)) /\ Len(Pieces(m)) = Len(m.answers)
    BY PiecesType
  <1> DEFINE First(k) == FlattenSeq(SubSeq(Pieces(m), 1, k))
             Good == {k \in Nat : k <= Len(m.answers) =>
                          Start(m)[k + 1] = Start(m)[1] + Len(First(k))}
  <1>2. Start(m)[1] \in Nat
    BY <1>1, StartSteps
  <1>3. 0 \in Good
    <2>1. SubSeq(Pieces(m), 1, 0) = <<>>
      BY <1>1
    <2>2. Len(First(0)) = 0
      <3>1. First(0) = <<>>
        BY <2>1, FlattenEmpty, Zenon
      <3> HIDE DEF First
      <3> QED BY <3>1
    <2> HIDE DEF First
    <2> QED BY <1>2, <2>2
  <1>4. ASSUME NEW k \in Nat, k \in Good PROVE k + 1 \in Good
    <2> SUFFICES ASSUME k + 1 <= Len(m.answers)
                 PROVE  Start(m)[(k + 1) + 1] = Start(m)[1] + Len(First(k + 1))
      OBVIOUS
    <2>1. k + 1 \in 1..Len(m.answers) /\ k \in 0..(Len(m.answers) - 1) /\ k <= Len(m.answers)
      BY <1>1
    <2>2. Start(m)[k + 1] = Start(m)[1] + Len(First(k))
      BY <1>4, <2>1
    <2>3. PICK a \in Seq(Nat) : a = AnswerBytes(m, m.answers[k + 1]) /\ a = Pieces(m)[k + 1]
      BY <2>1, PiecesType, AnswerNumbers
    <2>4. Start(m)[(k + 1) + 1] = Start(m)[k + 1] + Len(a)
      BY <2>1, <2>3, StartSteps
    <2>5. First(k + 1) = First(k) \o a
      BY <1>1, <2>1, <2>3, FlattenPrefix
    <2>6. First(k) \in Seq(Nat)
      <3>1. SubSeq(Pieces(m), 1, k) \in Seq(Seq(Nat))
        BY <1>1, <2>1, Prefix
      <3> QED BY <3>1, FlattenTyped
    <2> HIDE DEF First
    <2>7. Len(First(k + 1)) = Len(First(k)) + Len(a)
      BY <2>5, <2>6
    <2>8. Len(First(k)) \in Nat /\ Len(a) \in Nat
      BY <2>6
    <2>9. PICK x \in Nat, y \in Nat, z \in Nat :
              x = Start(m)[1] /\ y = Len(First(k)) /\ z = Len(a)
      BY <1>2, <2>8
    <2>10. (x + y) + z = x + (y + z)
      OBVIOUS
    <2> QED BY <2>2, <2>4, <2>7, <2>9, <2>10
  <1> HIDE DEF Good
  <1>5. \A k \in Nat : k \in Good
    BY <1>3, <1>4, InductiveSet
  <1> QED BY <1>1, <1>5 DEF Good

LEMMA MessagePlaces ==
    ASSUME NEW m, Answered(m)
    PROVE  /\ Encode(m) \in Seq(Nat) /\ QuestionBytes(m) \in Seq(Nat)
           /\ Has(Encode(m), 12, QuestionBytes(m))
           /\ Has(Encode(m), Start(m)[1], AnswersBytes(m))
  <1>1. MessageOf(Encode(m), m.id, m.flags, Len(m.answers), m.opt, Behind(m))
    BY EncodeAnswered
  <1>2. PICK b \in Seq(Nat), r \in Seq(Nat) : b = Encode(m) /\ r = Behind(m)
    BY <1>1 DEF MessageOf
  <1>3. Has(b, 12, r)
    <2>1. GoesOn(b, r)
      BY <1>1, <1>2 DEF MessageOf
    <2>2. Len(r) \in Nat /\ Len(b) \in Nat
      OBVIOUS
    <2>3. Len(b) = 12 + Len(r) /\ \A i \in 1..Len(r) : b[12 + i] = r[i]
      BY <2>1 DEF GoesOn
    <2> QED BY <2>2, <2>3 DEF Has
  <1>4. PICK q \in Seq(Nat) : q = QuestionBytes(m)
    <2>1. m.qname \in Seq(DnsLabel) /\ m.qtype \in Words
      BY DEF Answered
    <2>2. QuestionBytes(m) = QuestionFor(m.qname, m.qtype)
      BY DEF QuestionBytes, QuestionFor
    <2> QED BY <2>1, <2>2, QuestionLayout, BytesAreNumbers DEF QuestionOf
  <1>5. PICK a \in Seq(Nat) : a = AnswersBytes(m)
    BY PiecesType
  <1>6. PICK o \in Seq(Nat) : o = Opt(m.opt)
    BY OptType, BytesAreNumbers
  <1>7. r = q \o a \o o
    BY <1>2, <1>4, <1>5, <1>6 DEF Behind
  <1>8. PICK c \in Seq(Nat) : c = q \o a /\ Has(c, 0, q) /\ Has(c, Len(q), a)
    <2>1. q \o a \in Seq(Nat) /\ Has(q \o a, Len(q), a)
      BY HasNew
    <2>2. Has(q \o a, 0, q)
      BY HasWhole, HasKept
    <2> QED BY <2>1, <2>2
  <1>9. Has(c \o o, 0, q) /\ Has(c \o o, Len(q), a)
    BY <1>8, HasKept
  <1>10. Has(r, 0, q) /\ Has(r, Len(q), a)
    BY <1>7, <1>8, <1>9
  <1>11. Has(b, 12 + 0, q) /\ Has(b, 12 + Len(q), a)
    BY <1>3, <1>10, HasWithin
  <1>12. 12 + 0 = 12 /\ Start(m)[1] = 12 + Len(q)
    BY <1>4, StartSteps
  <1> QED BY <1>2, <1>4, <1>5, <1>11, <1>12

LEMMA RecordPlace ==
    ASSUME NEW m, Answered(m), NEW k \in 1..Len(m.answers)
    PROVE  Has(Encode(m), Start(m)[k], AnswerBytes(m, m.answers[k]))
  <1>1. /\ Len(m.answers) \in Nat /\ Pieces(m) \in Seq(Seq(Nat)) /\ Len(Pieces(m)) = Len(m.answers)
        /\ AnswersBytes(m) = FlattenSeq(Pieces(m)) /\ AnswersBytes(m) \in Seq(Nat)
    BY PiecesType
  <1>2. PICK j \in 0..(Len(m.answers) - 1) : k = j + 1
    <2>1. k - 1 \in 0..(Len(m.answers) - 1) /\ k = (k - 1) + 1
      BY <1>1
    <2> QED BY <2>1
  <1>3. PICK a \in Seq(Nat) : a = Pieces(m)[j + 1] /\ a = AnswerBytes(m, m.answers[k])
    BY <1>2, PiecesType, AnswerNumbers
  <1>4. PICK p : p = Len(FlattenSeq(SubSeq(Pieces(m), 1, j)))
    OBVIOUS
  <1>5. /\ p + Len(a) <= Len(AnswersBytes(m))
        /\ \A i \in 1..Len(a) : AnswersBytes(m)[p + i] = a[i]
    <2>1. PICK ps \in Seq(Seq(Nat)) : ps = Pieces(m)
      BY <1>1
    <2>2. j \in 0..(Len(ps) - 1)
      BY <1>1, <1>2, <2>1
    <2>3. /\ Len(FlattenSeq(SubSeq(ps, 1, j))) + Len(ps[j + 1]) <= Len(FlattenSeq(ps))
          /\ \A i \in 1..Len(ps[j + 1]) :
                 FlattenSeq(ps)[Len(FlattenSeq(SubSeq(ps, 1, j))) + i] = ps[j + 1][i]
      BY <2>2, FlattenAt
    <2> QED BY <1>1, <1>3, <1>4, <2>1, <2>3
  <1>6. p \in Nat
    <2>1. SubSeq(Pieces(m), 1, j) \in Seq(Seq(Nat))
      BY <1>1, <1>2, Prefix
    <2>2. FlattenSeq(SubSeq(Pieces(m), 1, j)) \in Seq(Nat)
      BY <2>1, FlattenTyped
    <2> QED BY <1>4, <2>2
  <1>7. Has(AnswersBytes(m), p, a)
    BY <1>5, <1>6 DEF Has
  <1>8. Encode(m) \in Seq(Nat) /\ Has(Encode(m), Start(m)[1], AnswersBytes(m))
    BY MessagePlaces
  <1>9. Has(Encode(m), Start(m)[1] + p, a)
    BY <1>1, <1>7, <1>8, HasWithin
  <1>10. Start(m)[k] = Start(m)[1] + p
    <2>1. j \in 0..Len(m.answers)
      BY <1>1, <1>2
    <2>2. Start(m)[j + 1] = Start(m)[1] + Len(FlattenSeq(SubSeq(Pieces(m), 1, j)))
      BY <2>1, StartIs
    <2> QED BY <1>2, <1>4, <2>2, Zenon
  <1> QED BY <1>3, <1>9, <1>10

\* The records come in order, and the last ends in the message.
LEMMA StartsGrow ==
    ASSUME NEW m, Answered(m)
    PROVE  /\ \A k \in 1..(Len(m.answers) + 1) :
                  /\ Start(m)[k] \in Nat /\ Start(m)[k] <= Len(Encode(m))
                  /\ \A j \in 1..k : Start(m)[j] <= Start(m)[k]
  <1>1. Len(m.answers) \in Nat /\ Encode(m) \in Seq(Nat)
    BY PiecesType, MessagePlaces
  <1> DEFINE Is(k) == k \in 1..(Len(m.answers) + 1) =>
                 /\ Start(m)[k] \in Nat /\ Start(m)[k] <= Len(Encode(m))
                 /\ \A j \in 1..k : Start(m)[j] <= Start(m)[k]
             Good == {k \in Nat : Is(k)}
  <1>2. 0 \in Good
    OBVIOUS
  <1>3. ASSUME NEW k \in Nat, k \in Good PROVE k + 1 \in Good
    <2> SUFFICES ASSUME k + 1 \in 1..(Len(m.answers) + 1) PROVE Is(k + 1)
      OBVIOUS
    <2>1. Start(m)[k + 1] \in Nat
      BY StartSteps
    <2>2. CASE k = 0
      <3>1. Has(Encode(m), Start(m)[1], AnswersBytes(m)) /\ AnswersBytes(m) \in Seq(Nat)
        BY MessagePlaces, PiecesType
      <3>2. Start(m)[1] + Len(AnswersBytes(m)) <= Len(Encode(m)) /\ Len(AnswersBytes(m)) \in Nat
        BY <3>1 DEF Has
      <3>3. Len(Encode(m)) \in Nat
        BY <1>1
      <3> QED BY <2>1, <2>2, <3>2, <3>3
    <2>3. CASE k # 0
      <3>1. k \in 1..Len(m.answers) /\ k \in 1..(Len(m.answers) + 1)
        BY <1>1, <2>3
      <3>2. /\ Start(m)[k] \in Nat /\ \A j \in 1..k : Start(m)[j] <= Start(m)[k]
        BY <1>3, <3>1
      <3>3. PICK a \in Seq(Nat) : a = AnswerBytes(m, m.answers[k]) /\ Has(Encode(m), Start(m)[k], a)
        BY <3>1, RecordPlace, AnswerNumbers
      <3>4. Start(m)[k + 1] = Start(m)[k] + Len(a) /\ Len(a) \in Nat
        BY <3>1, <3>3, StartSteps
      <3>5. Start(m)[k + 1] <= Len(Encode(m))
        BY <3>3, <3>4 DEF Has
      <3>6. Start(m)[k] <= Start(m)[k + 1]
        BY <3>2, <3>4
      <3>7. ASSUME NEW j \in 1..(k + 1) PROVE Start(m)[j] <= Start(m)[k + 1]
        <4>1. CASE j = k + 1
          BY <2>1, <4>1
        <4>2. CASE j # k + 1
          <5>1. j \in 1..k /\ j \in 1..(Len(m.answers) + 1)
            BY <3>1, <4>2
          <5>2. Start(m)[j] \in Nat /\ Start(m)[j] <= Start(m)[k]
            BY <3>2, <5>1, StartSteps
          <5> QED BY <5>2, <2>1, <3>2, <3>6
        <4> QED BY <4>1, <4>2
      <3> QED BY <2>1, <3>5, <3>7
    <2> QED BY <2>2, <2>3
  <1> HIDE DEF Good
  <1>4. \A k \in Nat : k \in Good
    BY <1>2, <1>3, InductiveSet
  <1>5. ASSUME NEW k \in 1..(Len(m.answers) + 1) PROVE Is(k)
    <2>1. k \in Nat
      OBVIOUS
    <2> QED BY <1>4, <2>1 DEF Good
  <1> QED BY <1>5

-----------------------------------------------------------------------------
(***************************************************************************)
(* Where the names are.                                                    *)
(***************************************************************************)
\* The name n is at offset p of the message.
Placed(m, n, p) ==
    /\ n \in EncodedName /\ NameInBytes(m, n) /\ p \in Nat
    /\ Has(Encode(m), p, NameBytes(m, n)) /\ p + NameLen(n) <= Len(Encode(m))

LEMMA ArrivedAnswered ==
    ASSUME NEW m, Arrived(m)
    PROVE  /\ Answered(m) /\ m.answers \in Seq(Record) /\ Len(m.answers) \in Nat
           /\ Encode(m) \in Seq(Nat) /\ Len(Encode(m)) \in Nat /\ Len(Encode(m)) <= 520
  <1>1. Answered(m) /\ m.answers \in Seq(Record) /\ Len(m.answers) \in Nat
    BY DEF Arrived, Answered
  <1>2. Encode(m) \in Seq(Nat)
    BY <1>1, MessagePlaces
  <1>3. Len(Encode(m)) <= 520
    BY DEF Arrived, MAX_DNS_SIZE
  <1>4. Len(Encode(m)) \in Nat
    BY <1>2
  <1> QED BY <1>1, <1>2, <1>3, <1>4

LEMMA RefersResolves ==
    ASSUME NEW m, Arrived(m), NEW k \in 0..Len(m.answers), NEW n, Refers(m, n, k)
    PROVE  Resolves(m, n)
  <1> SUFFICES ASSUME n.at # Plain
               PROVE  n.at \in 0..Len(m.answers) /\ n.drop < Len(LabelsAt(m, n.at))
    BY DEF Resolves
  <1>1. n.at \in 0..(k - 1) /\ n.drop < Len(LabelsAt(m, n.at))
    BY DEF Refers
  <1>2. Len(m.answers) \in Nat
    BY ArrivedAnswered
  <1> QED BY <1>1, <1>2

\* A name whose bytes are there is placed.
LEMMA IsPlaced ==
    ASSUME NEW m, Arrived(m), NEW n \in EncodedName, NEW k \in 0..Len(m.answers), Refers(m, n, k),
           NEW p, Has(Encode(m), p, NameBytes(m, n))
    PROVE  Placed(m, n, p)
  <1>1. NameInBytes(m, n)
    BY RefersResolves, ArrivedAnswered, NamesInBytes
  <1>2. p \in Nat /\ p + Len(NameBytes(m, n)) <= Len(Encode(m))
    BY DEF Has
  <1> QED BY <1>1, <1>2 DEF Placed, NameInBytes

LEMMA OwnerPlaced ==
    ASSUME NEW m, Arrived(m), NEW k \in 1..Len(m.answers)
    PROVE  /\ Placed(m, m.answers[k].owner, Start(m)[k]) /\ Refers(m, m.answers[k].owner, k)
           /\ k \in 0..Len(m.answers)
  <1>1. Answered(m) /\ m.answers \in Seq(Record) /\ Len(m.answers) \in Nat /\ Encode(m) \in Seq(Nat)
    BY ArrivedAnswered
  <1>2. PICK r \in Record : r = m.answers[k]
    BY <1>1
  <1>3. r.owner \in EncodedName
    BY RecordParts
  <1>4. Refers(m, r.owner, k)
    BY <1>2 DEF Arrived
  <1>5. k \in 0..Len(m.answers)
    BY <1>1
  <1>6. NameBytes(m, r.owner) \in Seq(Nat)
    BY <1>1, <1>3, <1>4, <1>5, RefersResolves, NamesInBytes DEF NameInBytes
  <1>7. PICK a \in Seq(Nat) : a = AnswerBytes(m, r) /\ Has(a, 0, NameBytes(m, r.owner))
    BY <1>1, <1>2, RecordsInBytes DEF RecordInBytes
  <1>8. Has(Encode(m), Start(m)[k], a)
    BY <1>1, <1>2, <1>7, RecordPlace
  <1>9. Has(Encode(m), Start(m)[k] + 0, NameBytes(m, r.owner))
    BY <1>1, <1>6, <1>7, <1>8, HasWithin
  <1>10. Start(m)[k] + 0 = Start(m)[k]
    <2>1. Start(m)[k] \in Nat
      BY <1>8 DEF Has
    <2> QED BY <2>1
  <1>11. Placed(m, r.owner, Start(m)[k])
    BY <1>3, <1>4, <1>5, <1>9, <1>10, IsPlaced
  <1> QED BY <1>2, <1>4, <1>5, <1>11

LEMMA QuestionPlaced ==
    ASSUME NEW m, Arrived(m)
    PROVE  /\ Placed(m, NameOf(m, 0), OffsetAt(m, 0)) /\ OffsetAt(m, 0) = 12
           /\ OffsetAt(m, 0) + NameLen(NameOf(m, 0)) <= Start(m)[1]
           /\ NameAt(Encode(m), 12, m.qname)
           /\ Start(m)[1] = 12 + Len(LabelBytes(m.qname)) + 5 /\ Len(LabelBytes(m.qname)) \in Nat
  <1>1. Answered(m) /\ Encode(m) \in Seq(Nat) /\ Len(m.answers) \in Nat
    BY ArrivedAnswered
  <1>2. m.qname \in Seq(DnsLabel) /\ m.qtype \in Words
    BY <1>1 DEF Answered
  <1>3. PICK n \in EncodedName : n = NameOf(m, 0) /\ Refers(m, n, 0) /\ n.labels = m.qname /\ n.at = Plain
    <2>1. Pointable(m, 0)
      BY DEF Pointable
    <2>2. NameOf(m, 0) = [labels |-> m.qname, at |-> Plain, drop |-> 0]
      BY DEF NameOf
    <2> QED BY <2>1, <2>2, PointableName
  <1>4. PICK lb \in Seq(Nat) : lb = LabelBytes(m.qname)
    BY <1>2, LabelBytesType, BytesAreNumbers
  <1>5. NameBytes(m, n) = lb \o <<0>> /\ <<0>> \in Seq(Nat) /\ Len(<<0>>) = 1 /\ <<0>>[1] = 0
    BY <1>3, <1>4 DEF NameBytes
  <1>6. PICK nb \in Seq(Nat) : nb = lb \o <<0>> /\ Len(nb) = Len(lb) + 1 /\ Has(nb, Len(lb), <<0>>)
                               /\ Has(nb, 0, lb)
    <2>1. <<0>> \in Seq(Nat)
      OBVIOUS
    <2>2. PICK z \in Seq(Nat) : z = <<0>>
      BY <2>1
    <2>3. lb \o z \in Seq(Nat) /\ Len(lb \o z) = Len(lb) + Len(z) /\ Has(lb \o z, Len(lb), z)
      BY HasNew
    <2>4. Has(lb \o z, 0, lb)
      BY HasWhole, HasKept
    <2> QED BY <2>2, <2>3, <2>4, <1>5
  <1>7. PICK t \in Seq(Nat), c \in Seq(Nat) :
            t = U16(m.qtype) /\ c = U16(HTTP_CLASS) /\ Len(t) = 2 /\ Len(c) = 2
    <2>1. m.qtype \in Nat /\ HTTP_CLASS \in Nat
      BY <1>2, WordType DEF HTTP_CLASS
    <2>2. ASSUME NEW w \in Nat PROVE U16(w) \in Seq(Nat) /\ Len(U16(w)) = 2
      BY NumberBytes DEF U16
    <2> QED BY <2>1, <2>2
  <1>8. PICK q \in Seq(Nat) : q = QuestionBytes(m) /\ Has(q, 0, nb) /\ Len(q) = Len(lb) + 5
    <2>1. PICK x \in Seq(Nat) : x = nb \o t /\ Len(x) = Len(nb) + 2 /\ Has(x, 0, nb)
      <3>1. nb \o t \in Seq(Nat) /\ Len(nb \o t) = Len(nb) + Len(t)
        BY HasNew
      <3>2. Has(nb \o t, 0, nb)
        BY HasWhole, HasKept
      <3> QED BY <1>7, <3>1, <3>2
    <2>2. PICK y \in Seq(Nat) : y = x \o c /\ Len(y) = Len(x) + 2 /\ Has(y, 0, nb)
      <3>1. x \o c \in Seq(Nat) /\ Len(x \o c) = Len(x) + Len(c)
        BY HasNew
      <3>2. Has(x \o c, 0, nb)
        BY <2>1, HasKept
      <3> QED BY <1>7, <3>1, <3>2
    <2>3. QuestionBytes(m) = y
      BY <1>4, <1>6, <1>7, <2>1, <2>2 DEF QuestionBytes
    <2>4. Len(y) = Len(lb) + 5
      BY <1>6, <2>1, <2>2
    <2> QED BY <2>2, <2>3, <2>4
  <1>9. Has(Encode(m), 12, q)
    BY <1>1, <1>8, MessagePlaces
  <1>10. Has(Encode(m), 12 + 0, nb)
    BY <1>1, <1>8, <1>9, HasWithin
  <1>11. OffsetAt(m, 0) = 12 /\ 12 + 0 = 12
    BY DEF OffsetAt, DNS_HEADER_SIZE
  <1>12. Placed(m, n, 12)
    <2>1. 0 \in 0..Len(m.answers)
      BY <1>1
    <2> QED BY <2>1, <1>3, <1>5, <1>6, <1>10, <1>11, IsPlaced
  <1>13. NameLen(n) = Len(lb) + 1 /\ Len(lb) \in Nat
    BY <1>3, <1>4 DEF NameLen
  <1>14. Start(m)[1] = 12 + (Len(lb) + 5)
    BY <1>1, <1>8, StartSteps
  <1>15. 12 + (Len(lb) + 5) = 12 + Len(lb) + 5 /\ 12 + (Len(lb) + 1) <= 12 + Len(lb) + 5
    BY <1>13
  <1>16. NameAt(Encode(m), 12, m.qname)
    <2>1. Has(Encode(m), 12, nb)
      BY <1>10, <1>11
    <2>2. Has(Encode(m), 12 + 0, lb) /\ Has(Encode(m), 12 + Len(lb), <<0>>)
      BY <1>1, <1>5, <1>6, <2>1, HasWithin
    <2>3. 12 + Len(lb) + 1 <= Len(Encode(m)) /\ Encode(m)[12 + Len(lb) + 1] = 0
      BY <2>2, <1>5 DEF Has
    <2>4. \A i \in 1..Len(lb) : Encode(m)[12 + i] = lb[i]
      BY <2>2, <1>11 DEF Has
    <2> QED BY <1>1, <1>4, <2>3, <2>4 DEF NameAt
  <1> QED BY <1>3, <1>4, <1>11, <1>12, <1>13, <1>14, <1>15, <1>16

LEMMA TargetPlaced ==
    ASSUME NEW m, Arrived(m), NEW k \in 1..Len(m.answers), m.answers[k].type = RRTYPE_CNAME
    PROVE  /\ Placed(m, NameOf(m, k), OffsetAt(m, k))
           /\ OffsetAt(m, k) + NameLen(NameOf(m, k)) = Start(m)[k + 1]
           /\ Start(m)[k] <= OffsetAt(m, k)
  <1>1. Answered(m) /\ m.answers \in Seq(Record) /\ Encode(m) \in Seq(Nat) /\ Len(m.answers) \in Nat
    BY ArrivedAnswered
  <1>2. PICK r \in Record : r = m.answers[k]
    BY <1>1
  <1>3. PICK n \in EncodedName : n = NameOf(m, k) /\ Refers(m, n, k) /\ n = r.target /\ k # 0
    <2>1. Pointable(m, k) /\ k # 0
      BY DEF Pointable
    <2>2. NameOf(m, k) = r.target
      BY <1>2, <2>1 DEF NameOf
    <2> QED BY <2>1, <2>2, PointableName
  <1>4. k \in 0..Len(m.answers)
    BY <1>1
  <1>5. PICK nb \in Seq(Nat) : nb = NameBytes(m, n)
    BY <1>1, <1>3, <1>4, RefersResolves, NamesInBytes DEF NameInBytes
  <1>6. PICK a \in Seq(Nat), o \in Nat :
            /\ a = AnswerBytes(m, r) /\ o = NameLen(r.owner) /\ Has(a, o + 10, nb)
            /\ Len(a) = o + 10 + NameLen(n) /\ NameLen(n) \in Nat
    <2>1. RdataOf(m, r) = nb /\ RdataLen(r) = NameLen(n)
      BY <1>2, <1>3, <1>5 DEF RdataOf, RdataLen
    <2>2. /\ AnswerBytes(m, r) \in Seq(Nat) /\ NameLen(r.owner) \in Nat /\ RdataLen(r) \in Nat
          /\ Len(AnswerBytes(m, r)) = NameLen(r.owner) + 10 + RdataLen(r)
          /\ Has(AnswerBytes(m, r), NameLen(r.owner) + 10, RdataOf(m, r))
      BY <1>1, <1>2, RecordsInBytes DEF RecordInBytes
    <2> QED BY <2>1, <2>2
  <1>7. Has(Encode(m), Start(m)[k], a)
    BY <1>1, <1>2, <1>6, RecordPlace
  <1>8. Has(Encode(m), Start(m)[k] + (o + 10), nb)
    BY <1>1, <1>6, <1>7, HasWithin
  <1>9. PICK s \in Nat : s = Start(m)[k]
    BY <1>7 DEF Has
  <1>10. OffsetAt(m, k) = s + o + 10
    BY <1>2, <1>3, <1>6, <1>9 DEF OffsetAt, ANSWER_SIZE
  <1>11. s + o + 10 = s + (o + 10) /\ s <= s + o + 10
    OBVIOUS
  <1>12. Placed(m, n, OffsetAt(m, k))
    BY <1>3, <1>4, <1>5, <1>8, <1>9, <1>10, <1>11, IsPlaced
  <1>13. Start(m)[k + 1] = s + Len(a)
    BY <1>1, <1>2, <1>6, <1>9, StartSteps
  <1>14. s + o + 10 + NameLen(n) = s + (o + 10 + NameLen(n))
    BY <1>6
  <1> QED BY <1>3, <1>6, <1>9, <1>10, <1>11, <1>12, <1>13, <1>14

\* A name is at level k if it is the question's (k = 0), or comes with record k.
AtLevel(m, k, p) == k \in 0..Len(m.answers) /\ (k # 0 => Start(m)[k] <= p)

\* What can be pointed at from level k is placed before, whole.
LEMMA PointedPlaced ==
    ASSUME NEW m, Arrived(m), NEW k, NEW p \in Nat, AtLevel(m, k, p), NEW j, Pointable(m, j),
           j \in 0..(k - 1)
    PROVE  /\ Placed(m, NameOf(m, j), OffsetAt(m, j)) /\ AtLevel(m, j, OffsetAt(m, j))
           /\ OffsetAt(m, j) + NameLen(NameOf(m, j)) <= p
  <1>1. Answered(m) /\ Len(m.answers) \in Nat
    BY ArrivedAnswered
  <1>2. k \in 1..Len(m.answers) /\ Start(m)[k] <= p
    BY <1>1 DEF AtLevel
  <1>3. j \in 0..Len(m.answers) /\ j + 1 \in 1..k /\ k \in 1..(Len(m.answers) + 1)
        /\ j + 1 \in 1..(Len(m.answers) + 1)
    BY <1>1, <1>2
  <1>4. Start(m)[j + 1] <= Start(m)[k] /\ Start(m)[j + 1] \in Nat /\ Start(m)[k] \in Nat
    BY <1>1, <1>3, StartsGrow
  <1>5. CASE j = 0
    <2>1. /\ Placed(m, NameOf(m, 0), OffsetAt(m, 0))
          /\ OffsetAt(m, 0) + NameLen(NameOf(m, 0)) <= Start(m)[1]
      BY QuestionPlaced
    <2>2. OffsetAt(m, 0) + NameLen(NameOf(m, 0)) \in Nat
      BY <2>1 DEF Placed, NameInBytes
    <2>3. j + 1 = 1
      BY <1>5
    <2>4. AtLevel(m, j, OffsetAt(m, j))
      BY <1>3, <1>5 DEF AtLevel
    <2> QED BY <1>2, <1>4, <1>5, <2>1, <2>2, <2>3, <2>4
  <1>6. CASE j # 0
    <2>1. j \in 1..Len(m.answers) /\ m.answers[j].type = RRTYPE_CNAME
      BY <1>3, <1>6 DEF Pointable
    <2>2. /\ Placed(m, NameOf(m, j), OffsetAt(m, j))
          /\ OffsetAt(m, j) + NameLen(NameOf(m, j)) = Start(m)[j + 1]
          /\ Start(m)[j] <= OffsetAt(m, j)
      BY <2>1, TargetPlaced
    <2>3. AtLevel(m, j, OffsetAt(m, j))
      BY <1>3, <2>2 DEF AtLevel
    <2> QED BY <1>2, <1>4, <2>2, <2>3
  <1> QED BY <1>5, <1>6

-----------------------------------------------------------------------------
(***************************************************************************)
(* What is read of a name.                                                 *)
(***************************************************************************)
LEMMA PlacedLabel ==
    ASSUME NEW m, Arrived(m), NEW n, NEW p, Placed(m, n, p), NEW j \in 0..(Len(n.labels) - 1)
    PROVE  LabelAt(Encode(m), Place(p, n.labels, j), n.labels[j + 1], Place(p, n.labels, j + 1))
  <1>1. PICK labels \in Seq(DnsLabel) : labels = n.labels
    BY DEF Placed, EncodedName
  <1>2. PICK b \in Seq(Nat) : b = Encode(m)
    BY ArrivedAnswered
  <1>3. PICK lb \in Seq(Nat), size \in Nat : lb = LabelBytes(labels) /\ size = Len(lb)
    BY <1>1 DEF Placed, NameInBytes
  <1>4. p \in Nat /\ p + size + 1 <= Len(b) /\ \A i \in 1..size : b[p + i] = lb[i]
    <2>1. PICK nb \in Seq(Nat) : nb = NameBytes(m, n) /\ Has(b, p, nb) /\ Has(nb, 0, lb)
      BY <1>1, <1>2, <1>3 DEF Placed, NameInBytes
    <2>2. Has(b, p + 0, lb)
      BY <2>1, HasWithin
    <2>3. p \in Nat
      BY DEF Placed
    <2>4. p + size + 1 <= Len(b)
      <3>1. PICK e \in Nat : e = Len(EndBytes(m, n)) /\ e >= 1 /\ NameLen(n) = size + e
        <4>1. /\ NameLen(n) = size + Len(EndBytes(m, n))
              /\ Len(EndBytes(m, n)) = 1 \/ Len(EndBytes(m, n)) = 2
          BY <1>1, <1>3 DEF Placed, NameInBytes
        <4>2. PICK e : e = Len(EndBytes(m, n))
          OBVIOUS
        <4>3. NameLen(n) = size + e /\ (e = 1 \/ e = 2)
          BY <4>1, <4>2, Zenon
        <4>4. e \in Nat /\ e >= 1
          BY <4>3
        <4> QED BY <4>2, <4>3, <4>4
      <3>2. PICK z \in Nat : z = Len(b) /\ p + NameLen(n) <= z
        BY <1>2 DEF Placed
      <3>3. p + (size + e) <= z
        BY <3>1, <3>2
      <3>4. p + size + 1 <= z
        BY <2>3, <3>1, <3>3
      <3> QED BY <3>2, <3>4
    <2>5. p + 0 = p /\ p + size + 1 <= Len(b)
      BY <2>3, <2>4
    <2>6. \A i \in 1..size : b[p + i] = lb[i]
      BY <1>3, <2>2, <2>5 DEF Has
    <2> QED BY <2>3, <2>5, <2>6
  <1>5. PICK u \in Nat : u = Len(Upto(labels, j))
    <2>1. j \in 0..Len(labels)
      BY <1>1
    <2> QED BY <2>1, NameLayoutEnds DEF Bytes
  <1>6. PICK l \in DnsLabel : l = labels[j + 1]
    BY <1>1
  <1>7. Len(l) \in Nat /\ Len(l) >= 1 /\ Len(l) <= 63
    BY LabelType
  <1>8. /\ u + 1 + Len(l) <= size /\ Len(Upto(labels, j + 1)) = u + 1 + Len(l)
        /\ lb[u + 1] = Len(l) /\ \A i \in 1..Len(l) : lb[u + 1 + i] = l[i]
    <2>1. NextLabelAt(labels, j, Len(Upto(labels, j)), labels[j + 1])
      BY <1>1, NameLayout
    <2> QED BY <2>1, <1>3, <1>5, <1>6 DEF NextLabelAt
  <1>9. b[p + u + 1] = Len(l)
    <2>1. PICK c \in Nat : c = Len(l)
      BY <1>7
    <2>2. u + 1 + c <= size /\ p \in Nat
      BY <2>1, <1>4, <1>8
    <2>3. u + 1 \in 1..size /\ p + (u + 1) = p + u + 1
      BY <2>2
    <2> QED BY <2>3, <1>4, <1>8
  <1>10. ASSUME NEW i \in 1..Len(l) PROVE b[p + u + i + 1] = l[i]
    <2>1. u + 1 + i \in 1..size /\ p + (u + 1 + i) = p + u + i + 1
      BY <1>4, <1>7, <1>8
    <2> QED BY <2>1, <1>4, <1>8
  <1>11. /\ p + Len(Upto(labels, j + 1)) = p + u + Len(l) + 1
         /\ p + Len(Upto(labels, j + 1)) < Len(b)
    <2>1. PICK c \in Nat, z \in Nat : c = Len(l) /\ z = Len(b)
      BY <1>7
    <2>2. u + 1 + c <= size /\ p + size + 1 <= z /\ Len(Upto(labels, j + 1)) = u + 1 + c
      BY <2>1, <1>4, <1>8
    <2>3. p + (u + 1 + c) = p + u + c + 1 /\ p + (u + 1 + c) < z
      BY <1>4, <2>2
    <2> QED BY <2>1, <2>2, <2>3
  <1>12. p + u \in Nat
    BY <1>4
  <1>13. LabelAt(b, p + u, l, p + Len(Upto(labels, j + 1)))
    BY <1>7, <1>9, <1>10, <1>11, <1>12 DEF LabelAt
  <1> QED BY <1>1, <1>2, <1>5, <1>6, <1>13 DEF Place

\* The end of a name: a zero byte, or a pointer.
LEMMA PlacedEnd ==
    ASSUME NEW m, Arrived(m), NEW n, NEW p, Placed(m, n, p), NEW q, q = Place(p, n.labels, Len(n.labels))
    PROVE  /\ q \in Nat /\ q = p + Len(LabelBytes(n.labels)) /\ Len(LabelBytes(n.labels)) \in Nat
           /\ n.at = Plain => q < Len(Encode(m)) /\ Encode(m)[q + 1] = 0 /\ p + NameLen(n) = q + 1
           /\ n.at # Plain =>
                  /\ p + NameLen(n) = q + 2 /\ q + 2 <= Len(Encode(m)) /\ Aim(m, n) \in Nat
                  /\ Encode(m)[q + 1] = U16(PointerFlag + Aim(m, n))[1]
                  /\ Encode(m)[q + 2] = U16(PointerFlag + Aim(m, n))[2]
  <1>1. PICK labels \in Seq(DnsLabel) : labels = n.labels
    BY DEF Placed, EncodedName
  <1>2. PICK b \in Seq(Nat) : b = Encode(m)
    BY ArrivedAnswered
  <1>3. PICK lb \in Seq(Nat), e \in Seq(Nat) : lb = LabelBytes(labels) /\ e = EndBytes(m, n)
    BY <1>1 DEF Placed, NameInBytes
  <1>4. Upto(labels, Len(labels)) = lb
    BY <1>3, NameLayoutEnds
  <1>5. p \in Nat /\ Len(lb) \in Nat /\ Len(e) \in Nat
    BY DEF Placed
  <1>6. q = p + Len(lb) /\ q \in Nat
    BY <1>1, <1>4, <1>5 DEF Place
  <1>7. PICK nb \in Seq(Nat) : nb = NameBytes(m, n) /\ Has(b, p, nb) /\ Has(nb, Len(lb), e)
    BY <1>1, <1>2, <1>3 DEF Placed, NameInBytes
  <1>8. Has(b, q, e)
    BY <1>6, <1>7, HasWithin
  <1>9. NameLen(n) = Len(lb) + Len(e)
    BY <1>1, <1>3 DEF Placed, NameInBytes
  <1>10. p + NameLen(n) = q + Len(e)
    BY <1>5, <1>6, <1>9
  <1>11. q + Len(e) <= Len(b) /\ \A i \in 1..Len(e) : b[q + i] = e[i]
    BY <1>8 DEF Has
  <1>12. ASSUME n.at = Plain PROVE q < Len(b) /\ b[q + 1] = 0 /\ Len(e) = 1
    <2>1. e = <<0>> /\ Len(e) = 1
      BY <1>3, <1>12 DEF Placed, NameInBytes, EndBytes
    <2>2. e[1] = 0 /\ 1 \in 1..Len(e)
      BY <2>1
    <2> QED BY <1>6, <1>11, <2>1, <2>2
  <1>13. ASSUME n.at # Plain
         PROVE  /\ Len(e) = 2 /\ Aim(m, n) \in Nat
                /\ b[q + 1] = e[1] /\ b[q + 2] = e[2] /\ e = U16(PointerFlag + Aim(m, n))
    <2>1. Len(e) = 2 /\ Aim(m, n) \in Nat /\ e = U16(PointerFlag + Aim(m, n))
      BY <1>3, <1>13 DEF Placed, NameInBytes, EndBytes
    <2>2. 1 \in 1..Len(e) /\ 2 \in 1..Len(e)
      BY <2>1
    <2> QED BY <1>11, <2>1, <2>2
  <1> QED BY <1>1, <1>2, <1>3, <1>5, <1>6, <1>10, <1>11, <1>12, <1>13

\* A pointer word.
LEMMA PointerWord ==
    ASSUME NEW a \in Nat, a <= 520
    PROVE  /\ PointerFlag + a \in Words /\ Hi(PointerFlag + a) \in Nat
           /\ Hi(PointerFlag + a) >= 192 /\ is_compress(Hi(PointerFlag + a))
           /\ get_compress_pos(PointerFlag + a) = a
  <1>1. PICK w \in Nat : w = PointerFlag + a /\ w = 49152 + a
    BY DEF PointerFlag, COMPRESS_FLAG
  <1>2. w \in Words
    BY <1>1, WordType
  <1>3. w \div 256 \in Nat /\ w \div 256 >= 192
    BY <1>1
  <1>4. w % 16384 = a
    BY <1>1
  <1>5. PICK h \in Nat : h = w \div 256
    BY <1>3
  <1>6. h \div 64 # 0
    BY <1>3, <1>5
  <1> QED BY <1>1, <1>2, <1>3, <1>4, <1>5, <1>6 DEF Hi, is_compress, get_compress_pos

-----------------------------------------------------------------------------
(***************************************************************************)
(* The walk of fetch_label through a compressed name.                      *)
(***************************************************************************)
\* What follows the first j elements of s is what follows the first d of t.
Agrees(s, j, t, d) ==
    /\ j \in 0..Len(s) /\ d \in 0..Len(t) /\ Len(s) - j = Len(t) - d
    /\ \A x \in 1..(Len(t) - d) : s[j + x] = t[d + x]

LEMMA AgreesItself == ASSUME NEW s \in Seq(DnsLabel) PROVE Agrees(s, 0, s, 0)
  BY DEF Agrees

LEMMA AgreesNext ==
    ASSUME NEW s \in Seq(DnsLabel), NEW t \in Seq(DnsLabel), NEW j, NEW d, Agrees(s, j, t, d), j < Len(s)
    PROVE  /\ d \in 0..(Len(t) - 1) /\ s[j + 1] = t[d + 1]
           /\ Agrees(s, j + 1, t, d + 1)
  <1>1. PICK ls \in Nat, lt \in Nat : ls = Len(s) /\ lt = Len(t)
    OBVIOUS
  <1>2. /\ j \in 0..ls /\ d \in 0..lt /\ ls - j = lt - d /\ j < ls
        /\ \A x \in 1..(lt - d) : s[j + x] = t[d + x]
    BY <1>1 DEF Agrees
  <1>3. d \in 0..(lt - 1) /\ 1 \in 1..(lt - d)
    BY <1>2
  <1>4. s[j + 1] = t[d + 1]
    BY <1>2, <1>3
  <1>5. j + 1 \in 0..ls /\ d + 1 \in 0..lt /\ ls - (j + 1) = lt - (d + 1)
    BY <1>2
  <1>6. ASSUME NEW x \in 1..(lt - (d + 1)) PROVE s[j + 1 + x] = t[d + 1 + x]
    <2>1. x + 1 \in 1..(lt - d) /\ j + (x + 1) = j + 1 + x /\ d + (x + 1) = d + 1 + x
      BY <1>2
    <2> QED BY <2>1, <1>2
  <1>7. Agrees(s, j + 1, t, d + 1)
    BY <1>1, <1>5, <1>6 DEF Agrees
  <1> QED BY <1>1, <1>3, <1>4, <1>7

\* The rest of s is what follows the first e elements of r.
LEMMA AgreesPointed ==
    ASSUME NEW s \in Seq(DnsLabel), NEW t \in Seq(DnsLabel), NEW r \in Seq(DnsLabel),
           NEW j, NEW d, NEW e \in Nat, Agrees(s, j, t, d), e <= Len(r),
           Len(s) - j = Len(r) - e, \A x \in 1..(Len(r) - e) : s[j + x] = r[e + x]
    PROVE  Agrees(r, e, t, d)
  <1>1. PICK ls \in Nat, lt \in Nat, lr \in Nat : ls = Len(s) /\ lt = Len(t) /\ lr = Len(r)
    OBVIOUS
  <1>2. /\ j \in 0..ls /\ d \in 0..lt /\ ls - j = lt - d
        /\ \A x \in 1..(lt - d) : s[j + x] = t[d + x]
    BY <1>1 DEF Agrees
  <1>3. ls - j = lr - e /\ e <= lr /\ \A x \in 1..(lr - e) : s[j + x] = r[e + x]
    BY <1>1
  <1>4. e \in 0..lr /\ lr - e = lt - d
    BY <1>2, <1>3
  <1>5. ASSUME NEW x \in 1..(lt - d) PROVE r[e + x] = t[d + x]
    <2>1. x \in 1..(lr - e)
      BY <1>4
    <2> QED BY <2>1, <1>2, <1>3
  <1> QED BY <1>1, <1>2, <1>4, <1>5 DEF Agrees

\* fetch_label is at label j + 1 of the name n, which is at p, or behind the last.
Standing(m, n, p, k, j, a) ==
    /\ Placed(m, n, p) /\ AtLevel(m, k, p) /\ Refers(m, n, k)
    /\ j \in 0..Len(n.labels) /\ a = Place(p, n.labels, j)

\* It is at the owner of record i, or was led from there by pointers.
Came(m, i, n, p, j, nx, mk, ds) ==
    \/ nx = Unset /\ mk = 0 /\ n = m.answers[i].owner /\ p = Start(m)[i]
    \/ /\ nx = Start(m)[i] + NameLen(m.answers[i].owner)
       /\ mk \in Nat /\ mk <= Len(ds) /\ (mk < Len(ds) \/ j < Len(n.labels))

\* What is copied comes from different parts of the message.
Room(m, n, p, a, ds) == Len(ds) + p + p + Len(LabelBytes(n.labels)) <= Len(Encode(m)) + a

OwnerMeans(m, i) == Meaning(m, m.answers[i].owner)

WalkAt(m, i, a, nx, mk, ds, n, p, k, j, d) ==
    /\ Standing(m, n, p, k, j, a)
    /\ Agrees(Meaning(m, n), j, OwnerMeans(m, i), d) /\ ds = SpeltUpto(OwnerMeans(m, i), d)
    /\ Came(m, i, n, p, j, nx, mk, ds)
    /\ Room(m, n, p, a, ds)

Walk(m, i, a, nx, mk, ds) == \E n, p, k, j, d : WalkAt(m, i, a, nx, mk, ds, n, p, k, j, d)

LEMMA OwnerMeaning ==
    ASSUME NEW m, Arrived(m), NEW i \in 1..Len(m.answers)
    PROVE  OwnerMeans(m, i) \in Seq(DnsLabel) /\ MeansInParts(m, m.answers[i].owner)
  <1>1. /\ m.answers[i].owner \in EncodedName /\ i \in 0..Len(m.answers)
        /\ Refers(m, m.answers[i].owner, i)
    BY OwnerPlaced DEF Placed
  <1>2. MeansInParts(m, m.answers[i].owner)
    BY <1>1, NameMeans
  <1> QED BY <1>2 DEF MeansInParts, OwnerMeans

LEMMA StandingFacts ==
    ASSUME NEW m, Arrived(m), NEW n, NEW p, NEW k, NEW j, NEW a, Standing(m, n, p, k, j, a)
    PROVE  /\ n \in EncodedName /\ n.labels \in Seq(DnsLabel) /\ p \in Nat /\ j \in Nat
           /\ k \in 0..Len(m.answers) /\ MeansInParts(m, n) /\ Meaning(m, n) \in Seq(DnsLabel)
           /\ Len(LabelBytes(n.labels)) \in Nat /\ Len(Encode(m)) \in Nat
           /\ a \in Nat
  <1>1. /\ n \in EncodedName /\ p \in Nat /\ Len(LabelBytes(n.labels)) \in Nat
        /\ k \in 0..Len(m.answers) /\ Refers(m, n, k) /\ j \in 0..Len(n.labels)
        /\ a = p + Len(Upto(n.labels, j))
    BY DEF Standing, Placed, AtLevel, NameInBytes, Place
  <1>2. n.labels \in Seq(DnsLabel)
    BY <1>1 DEF EncodedName
  <1>3. MeansInParts(m, n)
    BY <1>1, NameMeans
  <1>4. Len(Upto(n.labels, j)) \in Nat
    BY <1>1, <1>2, NameLayoutEnds DEF Bytes
  <1>5. a \in Nat /\ j \in Nat
    BY <1>1, <1>4
  <1>6. Len(Encode(m)) \in Nat
    BY ArrivedAnswered
  <1> QED BY <1>1, <1>2, <1>3, <1>5, <1>6 DEF MeansInParts

LEMMA SpeltStep ==
    ASSUME NEW t \in Seq(DnsLabel), NEW d \in 0..(Len(t) - 1), NEW c,
           c = [x \in 1..Len(t[d + 1]) |-> t[d + 1][x]]
    PROVE  /\ SpeltUpto(t, d) \o c \o <<Dot>> = SpeltUpto(t, d + 1)
           /\ Len(SpeltUpto(t, d)) \in Nat /\ Len(t[d + 1]) \in Nat
           /\ Len(SpeltUpto(t, d + 1)) = Len(SpeltUpto(t, d)) + Len(t[d + 1]) + 1
  <1>1. SpeltUpto(t, d) \o c \o <<Dot>> = SpeltUpto(t, d + 1)
    BY CopiesNextLabel
  <1>2. SpeltUpto(t, d) \in Bytes
    <2>1. d \in 0..Len(t)
      OBVIOUS
    <2> QED BY <2>1, SpeltSteps DEF Bytes
  <1>3. PICK l \in Bytes : l = t[d + 1]
    BY LabelType
  <1>4. SpeltUpto(t, d + 1) = SpeltUpto(t, d) \o (l \o <<Dot>>)
    BY <1>3, SpeltSteps
  <1>5. l \o <<Dot>> \in Bytes /\ Len(l \o <<Dot>>) = Len(l) + 1 /\ Len(l) \in Nat
    <2>1. PICK o \in Bytes : o = <<Dot>> /\ Len(o) = 1
      BY DotType
    <2>2. l \o o \in Bytes /\ Len(l \o o) = Len(l) + Len(o) /\ Len(l) \in Nat
      BY BytesJoin
    <2> QED BY <2>1, <2>2
  <1>6. PICK s \in Bytes, e \in Bytes : s = SpeltUpto(t, d) /\ e = l \o <<Dot>>
    BY <1>2, <1>5
  <1>7. Len(s \o e) = Len(s) + Len(e) /\ Len(s) \in Nat
    BY BytesJoin
  <1>8. Len(s) + (Len(l) + 1) = Len(s) + Len(l) + 1
    BY <1>5, <1>7
  <1> QED BY <1>1, <1>3, <1>4, <1>5, <1>6, <1>7, <1>8

\* How long a name is.
LEMMA PlacedSize ==
    ASSUME NEW m, NEW n, NEW p, Placed(m, n, p)
    PROVE  \E lb \in Nat, e \in Nat : lb = Len(LabelBytes(n.labels)) /\ NameLen(n) = lb + e
  <1>1. /\ Len(LabelBytes(n.labels)) \in Nat /\ Len(EndBytes(m, n)) \in Nat
        /\ NameLen(n) = Len(LabelBytes(n.labels)) + Len(EndBytes(m, n))
    BY DEF Placed, NameInBytes
  <1> QED BY <1>1

\* fetch_label begins at the owner.
LEMMA WalkBegins ==
    ASSUME NEW m, Arrived(m), NEW i \in 1..Len(m.answers)
    PROVE  Walk(m, i, Start(m)[i], Unset, 0, <<>>)
  <1>1. PICK n, p : n = m.answers[i].owner /\ p = Start(m)[i]
    OBVIOUS
  <1>2. Placed(m, n, p) /\ Refers(m, n, i) /\ i \in 0..Len(m.answers)
    BY <1>1, OwnerPlaced
  <1>3. n \in EncodedName /\ p \in Nat /\ n.labels \in Seq(DnsLabel)
    BY <1>2 DEF Placed, EncodedName
  <1>4. AtLevel(m, i, p)
    BY <1>1, <1>2, <1>3 DEF AtLevel
  <1>5. Standing(m, n, p, i, 0, p)
    BY <1>2, <1>3, <1>4, FirstPlace DEF Standing
  <1>6. /\ Agrees(Meaning(m, n), 0, OwnerMeans(m, i), 0)
        /\ <<>> = SpeltUpto(OwnerMeans(m, i), 0)
    BY <1>1, OwnerMeaning, AgreesItself, SpeltSteps DEF OwnerMeans
  <1>7. Came(m, i, n, p, 0, Unset, 0, <<>>)
    BY <1>1 DEF Came
  <1>8. Room(m, n, p, p, <<>>)
    <2>1. PICK size \in Nat : size = Len(Encode(m)) /\ p + NameLen(n) <= size
      BY <1>2, ArrivedAnswered DEF Placed
    <2>2. PICK lb \in Nat, e \in Nat : lb = Len(LabelBytes(n.labels)) /\ NameLen(n) = lb + e
      BY <1>2, PlacedSize
    <2>3. p + (lb + e) <= size
      BY <2>1, <2>2
    <2>4. 0 + p + p + lb <= size + p
      BY <1>3, <2>3
    <2> QED BY <2>1, <2>2, <2>4 DEF Room
  <1>9. WalkAt(m, i, p, Unset, 0, <<>>, n, p, i, 0, 0)
    BY <1>5, <1>6, <1>7, <1>8 DEF WalkAt
  <1> QED BY <1>1, <1>9 DEF Walk

\* It copies a label.
LEMMA WalkCopies ==
    ASSUME NEW m, Arrived(m), NEW i \in 1..Len(m.answers), NEW a, NEW nx, NEW mk, NEW ds,
           NEW n, NEW p, NEW k, NEW j, NEW d, WalkAt(m, i, a, nx, mk, ds, n, p, k, j, d),
           j < Len(n.labels)
    PROVE  \E l \in DnsLabel :
               /\ LabelAt(Encode(m), a, l, a + Len(l) + 1)
               /\ Walk(m, i, a + Len(l) + 1, nx, mk, ds \o [x \in 1..Len(l) |-> l[x]] \o <<Dot>>)
  <1>1. PICK t : t = OwnerMeans(m, i)
    OBVIOUS
  <1>2. t \in Seq(DnsLabel)
    BY <1>1, OwnerMeaning
  <1>3. Standing(m, n, p, k, j, a)
    BY DEF WalkAt
  <1>4. /\ n.labels \in Seq(DnsLabel) /\ p \in Nat /\ j \in Nat /\ MeansInParts(m, n)
        /\ Meaning(m, n) \in Seq(DnsLabel) /\ Len(LabelBytes(n.labels)) \in Nat
        /\ Len(Encode(m)) \in Nat /\ a \in Nat
    BY <1>3, StandingFacts
  <1>5. j \in 0..(Len(n.labels) - 1) /\ j + 1 \in 0..Len(n.labels) /\ j + 1 \in 1..Len(n.labels)
    BY <1>4
  <1>6. PICK l \in DnsLabel : l = n.labels[j + 1]
    BY <1>4, <1>5
  <1>7. LabelAt(Encode(m), a, l, Place(p, n.labels, j + 1))
    BY <1>3, <1>5, <1>6, PlacedLabel DEF Standing
  <1>8. Place(p, n.labels, j + 1) = a + Len(l) + 1 /\ Len(l) \in Nat
    BY <1>7 DEF LabelAt
  <1>9. PICK s \in Seq(DnsLabel) : s = Meaning(m, n) /\ Len(n.labels) <= Len(s)
    BY <1>4 DEF MeansInParts
  <1>10. s[j + 1] = l
    BY <1>4, <1>5, <1>6, <1>9 DEF MeansInParts
  <1>11. Agrees(s, j, t, d) /\ j < Len(s)
    BY <1>1, <1>4, <1>9 DEF WalkAt
  <1>12. d \in 0..(Len(t) - 1) /\ t[d + 1] = l /\ Agrees(s, j + 1, t, d + 1)
    <2>1. d \in 0..(Len(t) - 1) /\ s[j + 1] = t[d + 1] /\ Agrees(s, j + 1, t, d + 1)
      BY <1>2, <1>11, AgreesNext
    <2> QED BY <2>1, <1>10
  <1>13. PICK c : c = [x \in 1..Len(l) |-> l[x]]
    OBVIOUS
  <1>14. PICK e : e = ds \o c \o <<Dot>>
    OBVIOUS
  <1>15. ds = SpeltUpto(t, d)
    BY <1>1 DEF WalkAt
  <1>16. /\ e = SpeltUpto(t, d + 1)
         /\ Len(ds) \in Nat /\ Len(e) = Len(ds) + Len(l) + 1
    <2>1. c = [x \in 1..Len(t[d + 1]) |-> t[d + 1][x]]
      BY <1>12, <1>13
    <2>2. /\ SpeltUpto(t, d) \o c \o <<Dot>> = SpeltUpto(t, d + 1)
          /\ Len(SpeltUpto(t, d)) \in Nat
          /\ Len(SpeltUpto(t, d + 1)) = Len(SpeltUpto(t, d)) + Len(t[d + 1]) + 1
      BY <1>2, <1>12, <2>1, SpeltStep
    <2> QED BY <2>2, <1>12, <1>14, <1>15
  <1>17. PICK z \in Nat, w \in Nat : z = Len(l) /\ w = Len(ds)
    BY <1>8, <1>16
  <1>18. Len(e) = w + z + 1
    BY <1>16, <1>17
  <1>19. Standing(m, n, p, k, j + 1, a + Len(l) + 1)
    BY <1>3, <1>5, <1>8 DEF Standing
  <1>20. Came(m, i, n, p, j + 1, nx, mk, e)
    <2>1. CASE nx = Unset /\ mk = 0 /\ n = m.answers[i].owner /\ p = Start(m)[i]
      BY <2>1 DEF Came
    <2>2. CASE /\ nx = Start(m)[i] + NameLen(m.answers[i].owner)
               /\ mk \in Nat /\ mk <= Len(ds)
      <3>1. mk \in Nat /\ mk <= w + z + 1 /\ mk < w + z + 1
        BY <2>2, <1>17
      <3> QED BY <2>2, <3>1, <1>18 DEF Came
    <2> QED BY <2>1, <2>2 DEF WalkAt, Came
  <1>21. Room(m, n, p, a + Len(l) + 1, e)
    <2>1. PICK size \in Nat, lb \in Nat : size = Len(Encode(m)) /\ lb = Len(LabelBytes(n.labels))
      BY <1>4
    <2>2. w + p + p + lb <= size + a
      BY <2>1, <1>17 DEF WalkAt, Room
    <2>3. (w + z + 1) + p + p + lb <= size + (a + z + 1)
      BY <2>2, <1>4
    <2> QED BY <2>1, <2>3, <1>17, <1>18 DEF Room
  <1>22. WalkAt(m, i, a + Len(l) + 1, nx, mk, e, n, p, k, j + 1, d + 1)
    BY <1>1, <1>9, <1>12, <1>16, <1>19, <1>20, <1>21 DEF WalkAt
  <1>23. Walk(m, i, a + Len(l) + 1, nx, mk, e)
    BY <1>22 DEF Walk
  <1>24. LabelAt(Encode(m), a, l, a + Len(l) + 1)
    BY <1>7, <1>8
  <1>25. e = ds \o [x \in 1..Len(l) |-> l[x]] \o <<Dot>>
    BY <1>13, <1>14
  <1> QED BY <1>23, <1>24, <1>25

\* It follows a pointer.
LEMMA WalkFollows ==
    ASSUME NEW m, Arrived(m), NEW i \in 1..Len(m.answers), NEW a, NEW nx, NEW mk, NEW ds,
           NEW n, NEW p, NEW k, NEW j, NEW d, WalkAt(m, i, a, nx, mk, ds, n, p, k, j, d),
           j = Len(n.labels), n.at # Plain
    PROVE  \E w \in Words :
               /\ a \in Nat /\ a + 2 <= Len(Encode(m)) /\ is_compress(Hi(w))
               /\ Encode(m)[a + 1] = Hi(w) /\ Encode(m)[a + 2] = Lo(w)
               /\ Walk(m, i, get_compress_pos(w), IF nx = Unset THEN a + 2 ELSE nx, Len(ds), ds)
  <1>1. PICK t : t = OwnerMeans(m, i)
    OBVIOUS
  <1>2. t \in Seq(DnsLabel)
    BY <1>1, OwnerMeaning
  <1>3. Standing(m, n, p, k, j, a)
    BY DEF WalkAt
  <1>4. /\ n \in EncodedName /\ n.labels \in Seq(DnsLabel) /\ p \in Nat /\ MeansInParts(m, n)
        /\ k \in 0..Len(m.answers)
        /\ Meaning(m, n) \in Seq(DnsLabel) /\ Len(LabelBytes(n.labels)) \in Nat
        /\ Len(Encode(m)) \in Nat /\ a \in Nat
    BY <1>3, StandingFacts
  <1>5. /\ p + NameLen(n) = a + 2 /\ a + 2 <= Len(Encode(m)) /\ Aim(m, n) \in Nat
        /\ a = p + Len(LabelBytes(n.labels))
        /\ Encode(m)[a + 1] = U16(PointerFlag + Aim(m, n))[1]
        /\ Encode(m)[a + 2] = U16(PointerFlag + Aim(m, n))[2]
    <2>1. Placed(m, n, p) /\ a = Place(p, n.labels, Len(n.labels))
      BY <1>3 DEF Standing
    <2> QED BY <2>1, PlacedEnd
  \* the name that is pointed at
  <1>6. PICK g : g = n.at
    OBVIOUS
  <1>7. /\ Pointable(m, g) /\ g \in 0..(k - 1) /\ n.drop < Len(LabelsAt(m, g))
        /\ LabelsAt(m, g) \in Seq(DnsLabel)
    BY <1>3, <1>4, <1>6, RefersPointable DEF Standing
  <1>8. PICK o, q : o = NameOf(m, g) /\ q = OffsetAt(m, g)
    OBVIOUS
  <1>9. Placed(m, o, q) /\ AtLevel(m, g, q) /\ q + NameLen(o) <= p
    BY <1>3, <1>4, <1>7, <1>8, PointedPlaced DEF Standing
  <1>10. /\ o.labels = LabelsAt(m, g) /\ Refers(m, o, g) /\ g \in 0..Len(m.answers)
         /\ o \in EncodedName /\ q \in Nat
    BY <1>7, <1>8, <1>9, PointableName DEF Placed
  <1>11. PICK h \in Nat : h = n.drop
    BY <1>4 DEF EncodedName
  <1>12. h < Len(o.labels) /\ h \in 0..Len(o.labels) /\ o.labels \in Seq(DnsLabel)
    BY <1>7, <1>10, <1>11
  <1>13. Aim(m, n) = Place(q, o.labels, h)
    BY <1>6, <1>8, <1>10, <1>11 DEF Aim, Place
  <1>14. Standing(m, o, q, g, h, Aim(m, n))
    BY <1>9, <1>10, <1>12, <1>13 DEF Standing
  \* what it means
  <1>15. PICK r \in Seq(DnsLabel) : r = Meaning(m, o) /\ Len(o.labels) <= Len(r)
    BY <1>14, StandingFacts DEF MeansInParts
  <1>16. Targets(m)[g] = r
    BY <1>7, <1>8, <1>10, <1>15, TargetsKnown
  <1>17. PICK s \in Seq(DnsLabel) : s = Meaning(m, n)
    BY <1>4
  <1>18. Agrees(s, j, t, d)
    BY <1>1, <1>17 DEF WalkAt
  <1>19. /\ Len(s) - j = Len(r) - h
         /\ \A x \in 1..(Len(r) - h) : s[j + x] = r[h + x]
    BY <1>4, <1>6, <1>11, <1>16, <1>17 DEF MeansInParts
  <1>20. Agrees(r, h, t, d)
    <2>1. h <= Len(r)
      BY <1>12, <1>15
    <2> QED BY <1>2, <1>18, <1>19, <2>1, AgreesPointed
  \* where it is
  <1>21. PICK size \in Nat, lb \in Nat, u \in Nat :
             size = Len(Encode(m)) /\ lb = Len(LabelBytes(n.labels)) /\ u = Aim(m, n)
    BY <1>4, <1>5
  <1>21a. PICK ol \in Nat, e \in Nat : ol = Len(LabelBytes(o.labels)) /\ NameLen(o) = ol + e
    BY <1>9, PlacedSize
  <1>21b. a = p + lb /\ q + (ol + e) <= p
    BY <1>5, <1>9, <1>21, <1>21a
  <1>22. ds = SpeltUpto(t, d) /\ Len(ds) \in Nat
    <2>1. ds = SpeltUpto(t, d) /\ d \in 0..Len(t)
      BY <1>1, <1>18 DEF WalkAt, Agrees
    <2>2. ds \in Seq(Octets)
      BY <2>1, <1>2, SpeltSteps
    <2> QED BY <2>1, <2>2
  <1>23. u >= q
    <2>1. PICK f \in Nat : f = Len(Upto(o.labels, h))
      BY <1>12, NameLayoutEnds DEF Bytes
    <2>2. u = q + f
      BY <2>1, <1>13, <1>21 DEF Place
    <2> QED BY <2>2, <1>10
  <1>24. Room(m, o, q, u, ds)
    <2>1. PICK w \in Nat : w = Len(ds)
      BY <1>22
    <2>2. w + p + p + lb <= size + (p + lb)
      BY <2>1, <1>21, <1>21b DEF WalkAt, Room
    <2>3. q \in Nat /\ p \in Nat
      BY <1>4, <1>10
    <2>4. w + p <= size
      BY <2>2, <2>3
    <2>5. w + q + q + ol <= size + u
      BY <2>3, <2>4, <1>21b, <1>23
    <2> QED BY <2>1, <2>5, <1>21, <1>21a DEF Room
  <1>25. u <= 520
    <2>1. u < size
      <3>1. LabelAt(Encode(m), Place(q, o.labels, h), o.labels[h + 1], Place(q, o.labels, h + 1))
        <4>1. h \in 0..(Len(o.labels) - 1)
          BY <1>12
        <4> QED BY <4>1, <1>9, PlacedLabel
      <3>2. PICK c \in Nat : c = Len(o.labels[h + 1]) /\ u + c + 1 < size
        BY <3>1, <1>13, <1>21 DEF LabelAt
      <3> QED BY <3>2
    <2>2. size <= 520
      BY <1>21, ArrivedAnswered
    <2> QED BY <2>1, <2>2
  <1>26. PICK w \in Words : w = PointerFlag + u /\ is_compress(Hi(w)) /\ get_compress_pos(w) = u
    BY <1>25, PointerWord
  <1>27. Encode(m)[a + 1] = Hi(w) /\ Encode(m)[a + 2] = Lo(w)
    <2>1. U16(w) = <<Hi(w), Lo(w)>>
      BY DEF U16, Hi, Lo
    <2>2. U16(w)[1] = Hi(w) /\ U16(w)[2] = Lo(w)
      BY <2>1
    <2> QED BY <2>2, <1>5, <1>21, <1>26
  <1>28. PICK v : v = IF nx = Unset THEN a + 2 ELSE nx
    OBVIOUS
  <1>29. v = Start(m)[i] + NameLen(m.answers[i].owner)
    <2>1. CASE nx = Unset /\ mk = 0 /\ n = m.answers[i].owner /\ p = Start(m)[i]
      BY <2>1, <1>5, <1>28
    <2>2. CASE nx = Start(m)[i] + NameLen(m.answers[i].owner)
      <3>1. nx \in Nat
        <4>1. Placed(m, m.answers[i].owner, Start(m)[i])
          BY OwnerPlaced
        <4>2. Start(m)[i] \in Nat /\ NameLen(m.answers[i].owner) \in Nat
          BY <4>1 DEF Placed, NameInBytes
        <4> QED BY <2>2, <4>2
      <3>2. nx # Unset
        BY <3>1 DEF Unset
      <3> QED BY <2>2, <3>2, <1>28
    <2> QED BY <2>1, <2>2 DEF WalkAt, Came
  <1>30. Came(m, i, o, q, h, v, Len(ds), ds)
    BY <1>12, <1>22, <1>29 DEF Came
  <1>31. WalkAt(m, i, u, v, Len(ds), ds, o, q, g, h, d)
    BY <1>1, <1>14, <1>15, <1>20, <1>21, <1>22, <1>24, <1>30 DEF WalkAt
  <1>32. Walk(m, i, u, v, Len(ds), ds)
    BY <1>31 DEF Walk
  <1> QED BY <1>4, <1>5, <1>26, <1>27, <1>28, <1>32

\* It reaches the end of the name, if the owner ends in a pointer.
LEMMA WalkEnds ==
    ASSUME NEW m, Arrived(m), NEW i \in 1..Len(m.answers), m.answers[i].owner.at # Plain,
           NEW a, NEW nx, NEW mk, NEW ds,
           NEW n, NEW p, NEW k, NEW j, NEW d, WalkAt(m, i, a, nx, mk, ds, n, p, k, j, d),
           j = Len(n.labels), n.at = Plain
    PROVE  /\ a \in Nat /\ a < Len(Encode(m)) /\ Encode(m)[a + 1] = 0
           /\ nx = Start(m)[i] + NameLen(m.answers[i].owner) /\ nx # Unset
           /\ Len(ds) - mk - 1 >= 0 /\ ds # <<>> /\ Front(ds) = Dotted(OwnerMeans(m, i))
  <1>1. PICK t \in Seq(DnsLabel) : t = OwnerMeans(m, i)
    BY OwnerMeaning
  <1>2. Standing(m, n, p, k, j, a)
    BY DEF WalkAt
  <1>3. /\ n \in EncodedName /\ n.labels \in Seq(DnsLabel) /\ MeansInParts(m, n)
        /\ Meaning(m, n) \in Seq(DnsLabel)
    BY <1>2, StandingFacts
  <1>4. a \in Nat /\ a < Len(Encode(m)) /\ Encode(m)[a + 1] = 0
    BY <1>2, PlacedEnd DEF Standing
  <1>5. PICK s \in Seq(DnsLabel) : s = Meaning(m, n) /\ Len(s) = j
    BY <1>3 DEF MeansInParts
  <1>6. Agrees(s, j, t, d) /\ ds = SpeltUpto(t, d)
    BY <1>1, <1>5 DEF WalkAt
  <1>7. d = Len(t)
    <2>1. PICK lt \in Nat, x \in Nat : lt = Len(t) /\ x = Len(s)
      OBVIOUS
    <2>2. d \in 0..lt /\ x - x = lt - d
      BY <1>5, <1>6, <2>1 DEF Agrees
    <2> QED BY <2>1, <2>2
  <1>8. /\ nx = Start(m)[i] + NameLen(m.answers[i].owner)
        /\ mk \in Nat /\ mk < Len(ds)
    <2>1. n # m.answers[i].owner
      OBVIOUS
    <2>2. ~(j < Len(n.labels))
      BY <1>3
    <2> QED BY <2>1, <2>2 DEF WalkAt, Came
  <1>9. ds \in Seq(Octets)
    <2>1. d \in 0..Len(t)
      BY <1>7
    <2> QED BY <1>6, <2>1, SpeltSteps
  <1>10. Len(ds) - mk - 1 >= 0 /\ ds # <<>>
    <2>1. PICK w \in Nat : w = Len(ds)
      BY <1>9
    <2>2. w - mk - 1 >= 0 /\ w # 0
      BY <2>1, <1>8
    <2> QED BY <2>1, <2>2
  <1>11. t # <<>>
    <2> SUFFICES ASSUME t = <<>> PROVE FALSE
      OBVIOUS
    <2>1. d = 0
      BY <1>7
    <2>2. ds = <<>>
      BY <1>6, <2>1, SpeltSteps
    <2> QED BY <2>2, <1>10
  <1>12. Front(ds) = Dotted(t)
    BY <1>6, <1>7, <1>11, FrontOfSpelt
  <1>13. nx # Unset
    <2>1. Placed(m, m.answers[i].owner, Start(m)[i])
      BY OwnerPlaced
    <2>2. Start(m)[i] \in Nat /\ NameLen(m.answers[i].owner) \in Nat
      BY <2>1 DEF Placed, NameInBytes
    <2>3. Start(m)[i] + NameLen(m.answers[i].owner) \in Nat
      BY <2>2
    <2> QED BY <2>3, <1>8 DEF Unset
  <1> QED BY <1>1, <1>4, <1>8, <1>10, <1>12, <1>13

\* It stays in the message, and copies no more than that holds.
LEMMA WalkSize ==
    ASSUME NEW m, Arrived(m), NEW i \in 1..Len(m.answers), NEW a, NEW nx, NEW mk, NEW ds,
           Walk(m, i, a, nx, mk, ds)
    PROVE  /\ a \in 0..520 /\ mk \in 0..520 /\ (nx = Unset \/ nx \in 0..520) /\ ds \in Bytes
  <1>1. PICK n, p, k, j, d : WalkAt(m, i, a, nx, mk, ds, n, p, k, j, d)
    BY DEF Walk
  <1>2. Standing(m, n, p, k, j, a)
    BY <1>1 DEF WalkAt
  <1>3. /\ n.labels \in Seq(DnsLabel) /\ p \in Nat /\ Len(Encode(m)) \in Nat /\ a \in Nat
    BY <1>2, StandingFacts
  <1>4. PICK size \in Nat, lb \in Nat : /\ size = Len(Encode(m)) /\ size <= 520
                                        /\ lb = Len(LabelBytes(n.labels))
    BY <1>2, ArrivedAnswered DEF Standing, Placed, NameInBytes
  <1>5. a <= p + lb /\ p + lb <= size
    <2>1. Placed(m, n, p) /\ j \in 0..Len(n.labels) /\ a = Place(p, n.labels, j)
      BY <1>2 DEF Standing
    <2>2. PICK e \in Nat : NameLen(n) = lb + e
      BY <2>1, <1>4, PlacedSize
    <2>3. p + (lb + e) <= size
      BY <2>1, <2>2, <1>4 DEF Placed
    <2>4. p + lb <= size
      BY <2>3, <1>3
    <2>5. CASE j = Len(n.labels)
      <3>1. Upto(n.labels, j) = LabelBytes(n.labels)
        BY <2>5, <1>3, NameLayoutEnds
      <3>2. a = p + lb
        BY <3>1, <2>1, <1>4 DEF Place
      <3> QED BY <3>2, <2>4, <1>3
    <2>6. CASE j # Len(n.labels)
      <3>1. j \in 0..(Len(n.labels) - 1)
        BY <2>1, <2>6, <1>3
      <3>2. NextLabelAt(n.labels, j, Len(Upto(n.labels, j)), n.labels[j + 1])
        BY <3>1, <1>3, NameLayout
      <3>3. PICK l \in Nat, u \in Nat : l = Len(n.labels[j + 1]) /\ u = Len(Upto(n.labels, j))
        <4>1. n.labels[j + 1] \in DnsLabel
          BY <3>1, <1>3
        <4> QED BY <4>1, <3>2, LabelType DEF NextLabelAt
      <3>4. u + 1 + l <= lb
        BY <3>2, <3>3, <1>4 DEF NextLabelAt
      <3>5. a = p + u
        BY <3>3, <2>1 DEF Place
      <3> QED BY <3>4, <3>5, <2>4, <1>3
    <2> QED BY <2>5, <2>6
  <1>6. ds \in Bytes
    <2>1. PICK t \in Seq(DnsLabel) : t = OwnerMeans(m, i)
      BY OwnerMeaning
    <2>2. ds = SpeltUpto(t, d) /\ d \in 0..Len(t)
      BY <2>1, <1>1 DEF WalkAt, Agrees
    <2> QED BY <2>2, SpeltSteps DEF Bytes
  <1>7. PICK w \in Nat : w = Len(ds)
    BY <1>6 DEF Bytes
  <1>8. w <= 520
    <2>1. w + p + p + lb <= size + a
      BY <1>1, <1>4, <1>7 DEF WalkAt, Room
    <2> QED BY <2>1, <1>3, <1>4, <1>5
  <1>9. PICK o : o = m.answers[i].owner
    OBVIOUS
  <1>10. Start(m)[i] + NameLen(o) \in 0..520
    <2>1. Placed(m, o, Start(m)[i])
      BY <1>9, OwnerPlaced
    <2>2. PICK x \in Nat, y \in Nat : x = Start(m)[i] /\ y = NameLen(o) /\ x + y <= size
      BY <2>1, <1>4 DEF Placed, NameInBytes
    <2>3. x + y <= 520
      BY <2>2, <1>4
    <2>4. x + y \in 0..520
      BY <2>3
    <2> QED BY <2>2, <2>4
  <1>11. (nx = Unset \/ nx \in 0..520) /\ mk \in 0..520
    <2>1. \/ nx = Unset /\ mk = 0
          \/ nx = Start(m)[i] + NameLen(o) /\ mk \in Nat /\ mk <= w
      BY <1>1, <1>7, <1>9 DEF WalkAt, Came
    <2>2. CASE nx = Unset /\ mk = 0
      BY <2>2
    <2>3. CASE nx = Start(m)[i] + NameLen(o) /\ mk \in Nat /\ mk <= w
      <3>1. mk \in 0..520
        BY <2>3, <1>8
      <3> QED BY <2>3, <3>1, <1>10
    <2> QED BY <2>1, <2>2, <2>3
  <1>12. a \in 0..520
    BY <1>3, <1>4, <1>5
  <1> QED BY <1>6, <1>11, <1>12

-----------------------------------------------------------------------------
(***************************************************************************)
(* What is read of a record.                                               *)
(***************************************************************************)
\* What stands behind the owner's name of record r of m, which ends at e.
RecordStands(m, k, r, e) ==
    /\ r \in Record /\ r.type \in Words /\ r.ttl \in Ttl /\ e \in Nat
    /\ RdataLen(r) \in Words /\ RdataLen(r) \in Nat
    /\ Has(Encode(m), e, U16(r.type)) /\ Has(Encode(m), e + 2, U16(HTTP_CLASS))
    /\ Has(Encode(m), e + 4, U32(r.ttl)) /\ Has(Encode(m), e + 8, U16(RdataLen(r)))
    /\ Has(Encode(m), e + 10, RdataOf(m, r)) /\ Len(RdataOf(m, r)) = RdataLen(r)
    /\ Start(m)[k + 1] = e + 10 + RdataLen(r) /\ e + 10 + RdataLen(r) <= Len(Encode(m))

LEMMA RecordRead ==
    ASSUME NEW m, Arrived(m), NEW k \in 1..Len(m.answers), NEW r, r = m.answers[k],
           NEW e, e = Start(m)[k] + NameLen(r.owner)
    PROVE  RecordStands(m, k, r, e)
  <1>1. Answered(m) /\ Encode(m) \in Seq(Nat) /\ Len(Encode(m)) \in Nat /\ Len(Encode(m)) <= 520
        /\ m.answers \in Seq(Record)
    BY ArrivedAnswered
  <1>2. r \in Record
    BY <1>1
  <1>3. r.type \in Words /\ r.ttl \in Ttl
    BY <1>2, RecordParts
  <1>4. RecordInBytes(m, r)
    BY <1>1, RecordsInBytes
  <1>5. PICK a \in Seq(Nat), o \in Nat, z \in Nat :
            /\ a = AnswerBytes(m, r) /\ o = NameLen(r.owner) /\ z = RdataLen(r)
    BY <1>4 DEF RecordInBytes
  <1>6. /\ Len(a) = o + 10 + z /\ Len(RdataOf(m, r)) = z /\ RdataOf(m, r) \in Seq(Nat)
        /\ Has(a, o, U16(r.type)) /\ Has(a, o + 2, U16(HTTP_CLASS))
        /\ Has(a, o + 4, U32(r.ttl)) /\ Has(a, o + 8, U16(z)) /\ Has(a, o + 10, RdataOf(m, r))
    BY <1>4, <1>5 DEF RecordInBytes
  <1>7. PICK s \in Nat, b \in Seq(Nat) : s = Start(m)[k] /\ b = Encode(m) /\ Has(b, s, a)
    <2>1. Has(Encode(m), Start(m)[k], AnswerBytes(m, r))
      BY <1>1, RecordPlace
    <2>2. Start(m)[k] \in Nat
      BY <2>1 DEF Has
    <2> QED BY <2>1, <2>2, <1>1, <1>5
  <1>8. PICK size \in Nat : size = Len(b) /\ size <= 520 /\ s + (o + 10 + z) <= size
    BY <1>1, <1>6, <1>7 DEF Has
  <1>9. z \in Words
    <2>1. z <= 520
      BY <1>8
    <2> QED BY <2>1, WordType
  <1>10. HTTP_CLASS \in Nat /\ r.type \in Nat /\ r.ttl \in Nat
    BY <1>2, <1>3, WordType, RecordParts DEF HTTP_CLASS
  <1>11. /\ U16(r.type) \in Seq(Nat) /\ U16(HTTP_CLASS) \in Seq(Nat) /\ U32(r.ttl) \in Seq(Nat)
         /\ U16(z) \in Seq(Nat)
    BY <1>10, NumberBytes
  <1>12. /\ Has(b, s + o, U16(r.type)) /\ Has(b, s + (o + 2), U16(HTTP_CLASS))
         /\ Has(b, s + (o + 4), U32(r.ttl)) /\ Has(b, s + (o + 8), U16(z))
         /\ Has(b, s + (o + 10), RdataOf(m, r))
    <2>1. ASSUME NEW t \in Seq(Nat), NEW q, Has(a, q, t) PROVE Has(b, s + q, t)
      BY <1>7, <2>1, HasWithin
    <2> QED BY <2>1, <1>6, <1>11
  <1>13. /\ e = s + o /\ e \in Nat /\ s + (o + 2) = e + 2 /\ s + (o + 4) = e + 4
         /\ s + (o + 8) = e + 8 /\ s + (o + 10) = e + 10
         /\ s + (o + 10 + z) = e + 10 + z
    <2>1. PICK g \in Nat : g = s + o
      OBVIOUS
    <2>2. e = g
      BY <2>1, <1>5, <1>7
    <2>3. /\ s + (o + 2) = g + 2 /\ s + (o + 4) = g + 4 /\ s + (o + 8) = g + 8
          /\ s + (o + 10) = g + 10 /\ s + (o + 10 + z) = g + 10 + z
      BY <2>1
    <2> QED BY <2>1, <2>2, <2>3
  <1>14. Start(m)[k + 1] = e + 10 + z
    <2>1. Start(m)[k + 1] = s + Len(a)
      BY <1>1, <1>5, <1>7, StartSteps
    <2> QED BY <2>1, <1>6, <1>13
  <1>15. e + 10 + z <= Len(b)
    BY <1>8, <1>13
  <1> QED BY <1>2, <1>3, <1>5, <1>6, <1>7, <1>9, <1>12, <1>13, <1>14, <1>15, Zenon DEF RecordStands

-----------------------------------------------------------------------------
(***************************************************************************)
(* What the code reads of the buffer.                                      *)
(***************************************************************************)
LEMMA ReadsLabel ==
    ASSUME buf \in Seq(Nat), NEW l, NEW r, LabelAt(buf, at, l, r)
    PROVE  /\ at \in Nat /\ Byte(at) = Len(l) /\ Len(l) \in Nat /\ Byte(at) # 0
           /\ ~is_compress(Byte(at)) /\ at + Byte(at) < Len(buf)
           /\ \A x \in 1..Len(l) : Byte(at + x) = l[x]
  <1>1. PICK z \in Nat, size \in Nat : z = Len(l) /\ size = Len(buf)
    BY DEF LabelAt
  <1>2. /\ at \in Nat /\ z >= 1 /\ z <= 63 /\ at + z + 1 < size /\ buf[at + 1] = z
        /\ \A x \in 1..z : buf[at + x + 1] = l[x]
    BY <1>1 DEF LabelAt
  <1>3. Byte(at) = z
    BY <1>1, <1>2 DEF Byte
  <1>4. ASSUME NEW x \in 1..z PROVE Byte(at + x) = l[x]
    <2>1. at + x < size
      BY <1>2
    <2> QED BY <2>1, <1>1, <1>2 DEF Byte
  <1>5. z # 0 /\ at + z < size
    BY <1>2
  <1> QED BY <1>1, <1>2, <1>3, <1>4, <1>5, NoPointer

LEMMA ReadsWord ==
    ASSUME buf \in Seq(Nat), NEW w \in Words, NEW p \in Nat, p + 2 <= Len(buf),
           buf[p + 1] = Hi(w), buf[p + 2] = Lo(w)
    PROVE  Word(p) = w /\ Byte(p) = Hi(w)
  <1>1. Byte(p) = Hi(w) /\ Byte(p + 1) = Lo(w)
    <2>1. p < Len(buf) /\ p + 1 < Len(buf) /\ p + 1 + 1 = p + 2
      OBVIOUS
    <2> QED BY <2>1 DEF Byte
  <1>2. w = 256 * Hi(w) + Lo(w)
    BY Halves
  <1> QED BY <1>1, <1>2 DEF Word

LEMMA ReadsField ==
    ASSUME buf \in Seq(Nat), NEW w \in Words, NEW p \in Nat, Has(buf, p, U16(w))
    PROVE  Word(p) = w
  <1>1. Len(U16(w)) = 2 /\ U16(w)[1] = Hi(w) /\ U16(w)[2] = Lo(w)
    BY WordBytes
  <1>2. p + 2 <= Len(buf) /\ buf[p + 1] = Hi(w) /\ buf[p + 2] = Lo(w)
    <2>1. 1 \in 1..2 /\ 2 \in 1..2
      OBVIOUS
    <2> QED BY <1>1, <2>1 DEF Has
  <1> QED BY <1>2, ReadsWord

LEMMA ReadsTtl ==
    ASSUME buf \in Seq(Nat), NEW n \in Ttl, NEW p \in Nat, Has(buf, p, U32(n))
    PROVE  Long(p) = n
  <1>1. PICK h \in Words, l \in Words : /\ h = n \div 65536 /\ l = n % 65536 /\ n = 65536 * h + l
    BY TtlHalves
  <1>2. PICK u : u = U32(n)
    OBVIOUS
  <1>3. Len(u) = 4 /\ u[1] = Hi(h) /\ u[2] = Lo(h) /\ u[3] = Hi(l) /\ u[4] = Lo(l)
    BY <1>1, <1>2, TtlBytes
  <1>4. p + 4 <= Len(buf) /\ \A i \in 1..4 : buf[p + i] = u[i]
    BY <1>2, <1>3 DEF Has
  <1>5. buf[p + 1] = Hi(h) /\ buf[p + 2] = Lo(h) /\ buf[p + 3] = Hi(l) /\ buf[p + 4] = Lo(l)
    BY <1>3, <1>4
  <1>6. PICK q \in Nat : q = p + 2 /\ q + 1 = p + 3 /\ q + 2 = p + 4
    OBVIOUS
  <1>7. p + 2 <= Len(buf) /\ q + 2 <= Len(buf)
    BY <1>4, <1>6
  <1>8. Word(p) = h
    BY <1>5, <1>7, ReadsWord
  <1>9. Word(q) = l
    BY <1>5, <1>6, <1>7, ReadsWord
  <1> QED BY <1>1, <1>6, <1>8, <1>9 DEF Long

LEMMA ReadsData ==
    ASSUME buf \in Seq(Nat), NEW t \in Seq(Nat), NEW p \in Nat, Has(buf, p, t), NEW z, z = Len(t)
    PROVE  [j \in 1..z |-> Byte(p + j - 1)] = t
  <1>1. PICK y \in Nat, size \in Nat : y = Len(t) /\ size = Len(buf)
    OBVIOUS
  <1>2. p + y <= size /\ \A j \in 1..y : buf[p + j] = t[j]
    BY <1>1 DEF Has
  <1>3. ASSUME NEW j \in 1..y PROVE Byte(p + j - 1) = t[j]
    <2>1. p + j - 1 < size /\ (p + j - 1) + 1 = p + j
      BY <1>2
    <2> QED BY <2>1, <1>1, <1>2 DEF Byte
  <1>4. [j \in 1..y |-> Byte(p + j - 1)] = [j \in 1..y |-> t[j]]
    BY <1>3
  <1>5. t = [j \in 1..y |-> t[j]]
    BY <1>1
  <1> QED BY <1>1, <1>4, <1>5

-----------------------------------------------------------------------------
(***************************************************************************)
(* The answer in the buffer, and the names of its owners.                  *)
(***************************************************************************)
\* The owner names end in a pointer, as read_dns_answer needs them to.
OwnersCompressed == \A s \in Sections : \A k \in DOMAIN s : s[k].owner.at # Plain

LEMMA AnswerHeld ==
    ASSUME Inv, pc \in {"owner", "cached", "relay"}
    PROVE  /\ Arrived(answer) /\ buf = Encode(answer) /\ buf \in Seq(Nat)
           /\ Len(buf) \in Nat /\ Len(buf) <= 520 /\ Len(answer.answers) \in Nat
           /\ request.qname \in Seq(DnsLabel) /\ answer.qname = request.qname
           /\ NameAt(buf, 12, request.qname)
           /\ OwnersCompressed => \A k \in 1..Len(answer.answers) : answer.answers[k].owner.at # Plain
  <1>1. request \in Bare /\ request.qname \in Seq(DnsLabel)
    BY DEF Inv, RequestMeant, Bare
  <1>2. PICK id \in Words : buf = Encode(answer) /\ answer \in Answering(request, id)
    BY DEF Inv, HoldsAnswer
  <1>3. Arrived(answer) /\ answer.qname = request.qname
    BY <1>1, <1>2, AnsweringArrives
  <1>4. /\ answer.answers \in Seq(Record) /\ Len(answer.answers) \in Nat
        /\ buf \in Seq(Nat) /\ Len(buf) \in Nat /\ Len(buf) <= 520
    BY <1>2, <1>3, ArrivedAnswered
  <1>5. NameAt(buf, 12, request.qname)
    BY <1>2, <1>3, QuestionPlaced
  <1>6. PICK s \in Sections : answer = AnswerOf(request, id, s)
    BY <1>2 DEF Answering
  <1>7. answer.answers = s
    BY <1>1, <1>6 DEF AnswerOf, Bare
  <1>8. OwnersCompressed => \A k \in 1..Len(answer.answers) : answer.answers[k].owner.at # Plain
    BY <1>4, <1>7 DEF OwnersCompressed
  <1> QED BY <1>1, <1>2, <1>3, <1>4, <1>5, <1>8

-----------------------------------------------------------------------------
(***************************************************************************)
(* The addresses meant, as they are picked from the records.               *)
(***************************************************************************)
AddressRecords(m) == {k \in Nat : m.answers[k].type \in Cacheable}
AddressAt(m, k) ==
    [name |-> Dotted(Meaning(m, m.answers[k].owner)), type |-> m.answers[k].type,
     class_ |-> HTTP_CLASS, ttl |-> m.answers[k].ttl, addr |-> m.answers[k].addr]
Addresses(m) == [k \in Nat |-> AddressAt(m, k)]

LEMMA MeantPicked ==
    ASSUME NEW m, NEW len \in Nat, len = Len(m.answers)
    PROVE  Meant(m) = Picked(len, AddressRecords(m), Addresses(m))
  <1> DEFINE S == AddressRecords(m)
             v == Addresses(m)
             Is(g) == g = [k \in 0..Len(m.answers) |->
                             IF k = 0 THEN <<>>
                             ELSE IF m.answers[k].type \in Cacheable
                             THEN Append(g[k - 1],
                                         [name |-> Dotted(Meaning(m, m.answers[k].owner)),
                                          type |-> m.answers[k].type, class_ |-> HTTP_CLASS,
                                          ttl |-> m.answers[k].ttl, addr |-> m.answers[k].addr])
                             ELSE g[k - 1]]
  <1>1. Meant(m) = (CHOOSE g : Is(g))[Len(m.answers)]
    BY DEF Meant
  <1>3. ASSUME NEW g PROVE Picks(g, len, S, v) <=> Is(g)
    <2> DEFINE a == [i \in 0..len |-> IF i = 0 THEN <<>>
                                      ELSE IF i \in S THEN Append(g[i - 1], v[i]) ELSE g[i - 1]]
               b == [k \in 0..len |-> IF k = 0 THEN <<>>
                                      ELSE IF m.answers[k].type \in Cacheable
                                           THEN Append(g[k - 1], AddressAt(m, k))
                                      ELSE g[k - 1]]
    <2>1. \A i \in 0..len : (i \in S <=> m.answers[i].type \in Cacheable) /\ v[i] = AddressAt(m, i)
      BY DEF AddressRecords, Addresses
    <2> HIDE DEF S, v
    <2>2. a = b
      BY <2>1
    <2>3. Is(g) <=> g = b
      BY DEF AddressAt
    <2>4. Picks(g, len, S, v) <=> g = a
      BY DEF Picks
    <2> QED BY <2>2, <2>3, <2>4
  <1> HIDE DEF Is, S, v
  <1>4. \E g : Is(g)
    BY <1>3, PicksExists
  <1>5. PICK g : g = (CHOOSE h : Is(h)) /\ Is(g)
    BY <1>4
  <1>6. PICK h : Picks(h, len, S, v) /\ Picked(len, S, v) = h[len]
    BY PickedByRecursion
  <1>7. Picks(g, len, S, v)
    BY <1>3, <1>5
  <1>8. g[len] = h[len]
    <2>1. len <= len
      OBVIOUS
    <2> QED BY <2>1, <1>6, <1>7, PicksAgree
  <1> QED BY <1>1, <1>5, <1>6, <1>8 DEF S, v

-----------------------------------------------------------------------------
(***************************************************************************)
(* The inductive invariant for the reading of answers.                     *)
(***************************************************************************)
Current == Len(answer.answers) - left + 1
ReadSoFar(m, k) == Picked(k, AddressRecords(m), Addresses(m))

\* Nothing is read of an answer to a question for the root.
RootForwarded ==
    pc \in {"waiting", "owner", "cached", "relay"} /\ request.qname = <<>> =>
        slot.type \notin Cacheable

NothingRead == pc \in {"question", "lookup", "waiting"} => data = 0

\* read_dns_answers is at the current record, with the addresses of those before,
\* and fetch_label is on its way through the owner's name.
ReadsRecords ==
    pc = "owner" =>
        /\ slot.type \in Cacheable /\ left \in 1..Len(answer.answers)
        /\ data = Start(answer)[Current]
        /\ answers = ReadSoFar(answer, Current - 1)
        /\ Walk(answer, Current, at, next, mark, dest)

\* The records are read, and the question is read again.
AllRead ==
    /\ answers = Meant(answer)
    /\ answer.answers # <<>> => data = Start(answer)[Len(answer.answers) + 1]

ReadsAgain ==
    pc = "cached" =>
        /\ slot.type \in Cacheable /\ answer.answers # <<>> /\ AllRead
        /\ next = Unset /\ mark = 0
        /\ \E k \in 0..Len(request.qname) :
               at = Place(12, request.qname, k) /\ dest = SpeltUpto(request.qname, k)

ReadToEnd ==
    pc = "relay" =>
        /\ slot.type \in Cacheable =>
               AllRead /\ (answers # <<>> => question.label = Dotted(request.qname))
        /\ slot.type \notin Cacheable \/ answer.answers = <<>> => data = 0

AnswerInv == RootForwarded /\ NothingRead /\ ReadsRecords /\ ReadsAgain /\ ReadToEnd

LEMMA InitAnswerInv == Init => AnswerInv
  BY DEF Init, AnswerInv, RootForwarded, NothingRead, ReadsRecords, ReadsAgain, ReadToEnd

\* Before there is an answer, after the reply, and once an array was left, little
\* is said.
LEMMA NoAnswerYet ==
    ASSUME pc' \in {"idle", "question", "lookup", "overrun"},
           pc' \notin {"idle", "overrun"} => data' = 0
    PROVE  AnswerInv'
  BY DEF AnswerInv, RootForwarded, NothingRead, ReadsRecords, ReadsAgain, ReadToEnd

LEMMA ReceiveAInv ==
    ASSUME NEW m, ReceiveRequest(m) \/ ReceiveOwnQuery(m)
    PROVE  AnswerInv'
  <1>1. pc' = "question" /\ data' = 0
    BY DEF ReceiveRequest, ReceiveOwnQuery, Accept
  <1> QED BY <1>1, NoAnswerYet

LEMMA RepliedAInv ==
    ASSUME ReplyNameError \/ (\E list \in Stored : ReplyRecords(list)) \/ Timeout \/ RelayAnswer
    PROVE  AnswerInv'
  <1>1. pc' = "idle"
    BY DEF ReplyNameError, ReplyRecords, Timeout, RelayAnswer
  <1> QED BY <1>1, NoAnswerYet

\* The steps that leave an array.
Overrun == LabelOverruns \/ AddressesOverrun \/ \E list \in Stored : RecordsOverrun(list)

LEMMA OverrunShape ==
    ASSUME Overrun
    PROVE  /\ pc # "idle" /\ pc' = "overrun"
           /\ UNCHANGED <<session, buf, data, left, fetch, question, slot>>
  BY DEF Overrun, LabelOverruns, AtLabelByte, Fetching, AddressesOverrun, RecordsOverrun, Overruns

LEMMA OverrunAInv == ASSUME Overrun PROVE AnswerInv'
  BY OverrunShape, NoAnswerYet

LEMMA ReadQuestionAInv == ASSUME AnswerInv, ReadQuestion PROVE AnswerInv'
  <1>1. pc = "question" /\ pc' = "lookup" /\ data' = data
    BY DEF ReadQuestion
  <1>2. data = 0
    BY <1>1 DEF AnswerInv, NothingRead
  <1> QED BY <1>1, <1>2, NoAnswerYet

LEMMA ForwardAInv == ASSUME Inv, AnswerInv, NEW id \in NewIds, Forward(id) PROVE AnswerInv'
  <1>1. /\ pc = "lookup" /\ pc' = "waiting" /\ UNCHANGED <<request, data>>
        /\ slot'.type = question.qtype % 256
    BY DEF Forward, SlotType
  <1>2. data' = 0
    BY <1>1 DEF AnswerInv, NothingRead
  <1>3. ASSUME request.qname = <<>> PROVE slot'.type \notin Cacheable
    <2>1. question.qtype \in {0, 256}
      BY <1>1, <1>3 DEF Inv, RootUncached
    <2>2. slot'.type = 0
      BY <1>1, <2>1
    <2> QED BY <2>2 DEF Cacheable, RRTYPE_A, RRTYPE_AAAA
  <1> QED BY <1>1, <1>2, <1>3 DEF AnswerInv, RootForwarded, NothingRead, ReadsRecords, ReadsAgain,
                                  ReadToEnd

\* What ReceiveAnswer reads of the message.
LEMMA AnswerArrives ==
    ASSUME NEW m, Arrived(m)
    PROVE  /\ 256 * Encode(m)[7] + Encode(m)[8] = Len(m.answers)
           /\ SkipLabels(Encode(m), 12) + 1 + 4 = Start(m)[1]
  <1>1. PICK len \in Words : len = Len(m.answers)
    BY DEF Arrived, Answered
  <1>2. MessageOf(Encode(m), m.id, m.flags, len, m.opt, Behind(m))
    BY <1>1, EncodeAnswered DEF Arrived
  <1>3. Encode(m)[7] = Hi(len) /\ Encode(m)[8] = Lo(len)
    BY <1>2 DEF MessageOf, Starts
  <1>4. 256 * Hi(len) + Lo(len) = len
    BY Halves
  <1>5. NameAt(Encode(m), 12, m.qname) /\ m.qname \in Seq(DnsLabel)
    BY QuestionPlaced DEF Arrived, Answered
  <1>6. PICK n \in Nat : n = Len(LabelBytes(m.qname)) /\ Start(m)[1] = 12 + n + 5
    BY QuestionPlaced
  <1>7. SkipLabels(Encode(m), 12) = 12 + n
    BY <1>5, <1>6, SkipsName
  <1>8. 12 + n + 1 + 4 = 12 + n + 5
    BY <1>6
  <1> QED BY <1>1, <1>3, <1>4, <1>6, <1>7, <1>8

LEMMA ReceiveAnswerAInv ==
    ASSUME Inv, AnswerInv, pc = "waiting", NEW m \in Answering(request, Word(0)), ReceiveAnswer(m)
    PROVE  AnswerInv'
  <1>1. /\ answer' = m /\ buf' = Encode(m) /\ answers' = <<>> /\ UNCHANGED <<request, slot>>
        /\ pc' \in {"owner", "relay"}
    BY DEF ReceiveAnswer
  <1>2. Inv'
    BY ReceiveAnswerInv
  <1>3. Arrived(m)
    <2>1. request' \in Bare /\ \E id \in Words : answer' \in Answering(request', id)
      BY <1>1, <1>2 DEF Inv, RequestMeant, HoldsAnswer
    <2> QED BY <2>1, <1>1, AnsweringArrives
  <1>4. PICK len \in Nat : len = Len(m.answers) /\ m.answers \in Seq(Record)
    BY <1>3, ArrivedAnswered
  <1>5. /\ 256 * Encode(m)[7] + Encode(m)[8] = len
        /\ SkipLabels(Encode(m), 12) + 1 + 4 = Start(m)[1]
    BY <1>3, <1>4, AnswerArrives
  <1>6. IF slot.type \in Cacheable /\ len > 0
        THEN /\ pc' = "owner" /\ data' = Start(m)[1] /\ left' = len
             /\ at' = Start(m)[1] /\ next' = Unset /\ mark' = 0 /\ dest' = <<>>
        ELSE pc' = "relay" /\ data' = data
    BY <1>5 DEF ReceiveAnswer, BeginFetch, DNS_HEADER_SIZE, QUESTION_SIZE
  <1>7. data = 0
    BY DEF AnswerInv, NothingRead
  <1>8. RootForwarded'
    BY <1>1 DEF AnswerInv, RootForwarded
  <1>9. Picked(0, AddressRecords(m), Addresses(m)) = <<>>
    BY PickedNone
  <1>10. CASE slot.type \in Cacheable /\ len > 0
    <2>1. Current' = 1 /\ 1 \in 1..Len(m.answers) /\ left' \in 1..Len(m.answers)
      <3>1. len - len + 1 = 1 /\ 1 \in 1..len /\ len \in 1..len
        BY <1>10
      <3> QED BY <3>1, <1>1, <1>4, <1>6, <1>10 DEF Current
    <2>2. Walk(m, 1, Start(m)[1], Unset, 0, <<>>)
      BY <2>1, <1>3, WalkBegins
    <2>3. answers' = ReadSoFar(m, 1 - 1)
      BY <1>1, <1>9 DEF ReadSoFar
    <2>4. ReadsRecords'
      BY <2>1, <2>2, <2>3, <1>1, <1>6, <1>10 DEF ReadsRecords
    <2> QED BY <2>4, <1>6, <1>8, <1>10 DEF AnswerInv, NothingRead, ReadsAgain, ReadToEnd
  <1>11. CASE ~(slot.type \in Cacheable /\ len > 0)
    <2>1. pc' = "relay" /\ data' = 0
      BY <1>6, <1>7, <1>11
    <2>2. ASSUME slot.type \in Cacheable PROVE m.answers = <<>> /\ Meant(m) = <<>>
      <3>1. len = 0
        BY <1>11, <2>2
      <3>2. m.answers = <<>>
        BY <3>1, <1>4
      <3>3. Meant(m) = Picked(0, AddressRecords(m), Addresses(m))
        BY <3>1, <1>4, MeantPicked
      <3> QED BY <3>2, <3>3, <1>9
    <2>3. ReadToEnd'
      BY <2>1, <2>2, <1>1 DEF ReadToEnd, AllRead
    <2> QED BY <2>1, <2>3, <1>8 DEF AnswerInv, NothingRead, ReadsRecords, ReadsAgain
  <1> QED BY <1>10, <1>11

-----------------------------------------------------------------------------
(***************************************************************************)
(* Fetching a name.                                                        *)
(***************************************************************************)
\* Where fetch_label is in the owner's name: at a label, a pointer or the end.
OwnerLabel(l) ==
    /\ LabelAt(buf, at, l, at + Len(l) + 1)
    /\ Walk(answer, Current, at + Len(l) + 1, next, mark,
            dest \o [x \in 1..Len(l) |-> l[x]] \o <<Dot>>)
OwnerPointer(w) ==
    /\ at \in Nat /\ at + 2 <= Len(buf) /\ is_compress(Hi(w))
    /\ buf[at + 1] = Hi(w) /\ buf[at + 2] = Lo(w)
    /\ Walk(answer, Current, get_compress_pos(w), IF next = Unset THEN at + 2 ELSE next,
            Len(dest), dest)
OwnerEnd ==
    /\ at \in Nat /\ at < Len(buf) /\ buf[at + 1] = 0
    /\ next = Start(answer)[Current] + NameLen(answer.answers[Current].owner) /\ next # Unset
    /\ Len(dest) - mark - 1 >= 0 /\ dest # <<>>
    /\ Front(dest) = Dotted(OwnerMeans(answer, Current))

LEMMA CurrentRecord ==
    ASSUME Inv, AnswerInv, pc = "owner"
    PROVE  Current \in 1..Len(answer.answers)
  <1>1. PICK len \in Nat : len = Len(answer.answers)
    BY AnswerHeld
  <1>2. left \in 1..len
    BY <1>1 DEF AnswerInv, ReadsRecords
  <1>3. len - left + 1 \in 1..len
    BY <1>2
  <1> QED BY <1>1, <1>3 DEF Current

LEMMA OwnerPlaces ==
    ASSUME OwnersCompressed, Inv, AnswerInv, pc = "owner"
    PROVE  (\E l \in DnsLabel : OwnerLabel(l)) \/ (\E w \in Words : OwnerPointer(w)) \/ OwnerEnd
  <1>1. PICK m, i : m = answer /\ i = Current
    OBVIOUS
  <1>2. Arrived(m) /\ buf = Encode(m)
    BY <1>1, AnswerHeld
  <1>3. i \in 1..Len(m.answers)
    BY <1>1, CurrentRecord
  <1>4. m.answers[i].owner.at # Plain
    BY <1>1, <1>3, AnswerHeld
  <1>5. PICK n, p, k, j, d : WalkAt(m, i, at, next, mark, dest, n, p, k, j, d)
    BY <1>1 DEF AnswerInv, ReadsRecords, Walk
  <1>6. j \in 0..Len(n.labels) /\ n.labels \in Seq(DnsLabel)
    <2>1. Standing(m, n, p, k, j, at)
      BY <1>5 DEF WalkAt
    <2> QED BY <2>1, <1>2, StandingFacts DEF Standing
  <1>7. j < Len(n.labels) \/ j = Len(n.labels)
    BY <1>6
  <1>8. CASE j < Len(n.labels)
    <2>1. PICK l \in DnsLabel :
              /\ LabelAt(Encode(m), at, l, at + Len(l) + 1)
              /\ Walk(m, i, at + Len(l) + 1, next, mark,
                      dest \o [x \in 1..Len(l) |-> l[x]] \o <<Dot>>)
      BY <1>2, <1>3, <1>5, <1>8, WalkCopies
    <2>2. OwnerLabel(l)
      BY <2>1, <1>1, <1>2 DEF OwnerLabel
    <2> QED BY <2>2
  <1>9. CASE j = Len(n.labels) /\ n.at # Plain
    <2>1. PICK w \in Words :
              /\ at \in Nat /\ at + 2 <= Len(Encode(m)) /\ is_compress(Hi(w))
              /\ Encode(m)[at + 1] = Hi(w) /\ Encode(m)[at + 2] = Lo(w)
              /\ Walk(m, i, get_compress_pos(w), IF next = Unset THEN at + 2 ELSE next,
                      Len(dest), dest)
      BY <1>2, <1>3, <1>5, <1>9, WalkFollows
    <2>2. OwnerPointer(w)
      BY <2>1, <1>1, <1>2 DEF OwnerPointer
    <2> QED BY <2>2
  <1>10. CASE j = Len(n.labels) /\ n.at = Plain
    <2>1. /\ at \in Nat /\ at < Len(Encode(m)) /\ Encode(m)[at + 1] = 0
          /\ next = Start(m)[i] + NameLen(m.answers[i].owner) /\ next # Unset
          /\ Len(dest) - mark - 1 >= 0 /\ dest # <<>> /\ Front(dest) = Dotted(OwnerMeans(m, i))
      BY <1>2, <1>3, <1>4, <1>5, <1>10, WalkEnds
    <2> QED BY <2>1, <1>1, <1>2 DEF OwnerEnd
  <1> QED BY <1>7, <1>8, <1>9, <1>10

\* The same for the question that is read again.
LEMMA AgainPlaces ==
    ASSUME Inv, AnswerInv, pc = "cached"
    PROVE  /\ next = Unset /\ mark = 0 /\ at \in Nat
           /\ \E k \in 0..Len(request.qname) :
                  dest = SpeltUpto(request.qname, k) /\ (AtLabel(k) \/ AtEnd(k))
  <1> DEFINE qname == request.qname
  <1>1. qname \in Seq(DnsLabel) /\ NameAt(buf, 12, qname)
    BY AnswerHeld
  <1>2. /\ next = Unset /\ mark = 0
        /\ \E k \in 0..Len(qname) : at = Place(12, qname, k) /\ dest = SpeltUpto(qname, k)
    BY DEF AnswerInv, ReadsAgain
  <1> HIDE DEF qname
  <1>3. PICK k \in 0..Len(qname) : at = Place(12, qname, k) /\ dest = SpeltUpto(qname, k)
    BY <1>2
  <1>4. CASE k = Len(qname)
    <2>1. at \in Nat /\ at = 12 + Len(LabelBytes(qname)) /\ at < Len(buf) /\ buf[at + 1] = 0
      BY <1>1, <1>3, <1>4, LastPlace
    <2> QED BY <2>1, <1>2, <1>3, <1>4 DEF AtEnd, qname
  <1>5. CASE k # Len(qname)
    <2>1. k \in 0..(Len(qname) - 1)
      BY <1>1, <1>5
    <2>2. LabelAt(buf, at, qname[k + 1], Place(12, qname, k + 1))
      BY <1>1, <1>3, <2>1, EachPlace
    <2> QED BY <2>1, <2>2, <1>2, <1>3 DEF AtLabel, LabelAt, qname
  <1> QED BY <1>4, <1>5

\* What the byte at hand says of where fetch_label is.
LEMMA OwnerLabelByte ==
    ASSUME Inv, pc = "owner", NEW l \in DnsLabel, OwnerLabel(l)
    PROVE  /\ at \in Nat /\ Byte(at) = Len(l) /\ Byte(at) # 0 /\ ~is_compress(Byte(at))
           /\ at + Byte(at) < Len(buf)
           /\ [j \in 1..Byte(at) |-> Byte(at + j)] = [x \in 1..Len(l) |-> l[x]]
  <1>1. buf \in Seq(Nat) /\ LabelAt(buf, at, l, at + Len(l) + 1)
    BY AnswerHeld DEF OwnerLabel
  <1>2. /\ at \in Nat /\ Byte(at) = Len(l) /\ Byte(at) # 0 /\ ~is_compress(Byte(at))
        /\ at + Byte(at) < Len(buf) /\ \A x \in 1..Len(l) : Byte(at + x) = l[x]
    BY <1>1, ReadsLabel
  <1> QED BY <1>2

LEMMA OwnerPointerByte ==
    ASSUME Inv, pc = "owner", NEW w \in Words, OwnerPointer(w)
    PROVE  /\ Byte(at) = Hi(w) /\ Word(at) = w /\ Byte(at) # 0 /\ is_compress(Byte(at))
           /\ at + 1 < Len(buf)
  <1>1. buf \in Seq(Nat)
    BY AnswerHeld
  <1>2. Byte(at) = Hi(w) /\ Word(at) = w
    BY <1>1, ReadsWord DEF OwnerPointer
  <1>3. is_compress(Hi(w)) /\ at + 1 < Len(buf)
    BY <1>1 DEF OwnerPointer
  <1>4. ~is_compress(0)
    BY NoPointer
  <1> QED BY <1>2, <1>3, <1>4

LEMMA OwnerEndByte ==
    ASSUME OwnerEnd
    PROVE  Byte(at) = 0 /\ ~is_compress(Byte(at)) /\ at < Len(buf)
  <1>1. Byte(at) = 0 /\ at < Len(buf)
    BY DEF OwnerEnd, Byte
  <1> QED BY <1>1, NoPointer

\* Steps of fetch_label leave the rest alone.
LEMMA StillReading ==
    ASSUME AnswerInv, pc \in {"owner", "cached"}, UNCHANGED <<pc, session, buf, data, left, answers, slot>>,
           ReadsRecords', ReadsAgain'
    PROVE  AnswerInv'
  <1>1. request' = request
    BY DEF session
  <1> QED BY <1>1 DEF AnswerInv, RootForwarded, NothingRead, ReadToEnd

LEMMA CopyLabelAInv == ASSUME OwnersCompressed, Inv, AnswerInv, CopyLabel PROVE AnswerInv'
  <1>1. /\ UNCHANGED <<pc, session, buf, data, left, next, mark, answers, question, slot>>
        /\ Byte(at) # 0 /\ ~is_compress(Byte(at)) /\ pc \in {"question", "owner", "cached"}
        /\ dest' = dest \o [j \in 1..Byte(at) |-> Byte(at + j)] \o <<Dot>>
        /\ at' = at + Byte(at) + 1
    BY DEF CopyLabel, AtLabelByte, Fetching
  <1>2. answer' = answer /\ request' = request
    BY <1>1 DEF session
  <1>3. CASE pc = "question"
    BY <1>1, <1>3, NoAnswerYet DEF AnswerInv, NothingRead
  <1>4. CASE pc = "owner"
    <2>1. PICK l \in DnsLabel : OwnerLabel(l)
      BY <1>1, <1>4, OwnerPlaces, OwnerPointerByte, OwnerEndByte
    <2>2. at' = at + Len(l) + 1 /\ dest' = dest \o [x \in 1..Len(l) |-> l[x]] \o <<Dot>>
      BY <2>1, <1>1, <1>4, OwnerLabelByte
    <2>3. Walk(answer, Current, at', next, mark, dest')
      BY <2>1, <2>2 DEF OwnerLabel
    <2>4. Current' = Current
      BY <1>1, <1>2 DEF Current
    <2>5. ReadsRecords'
      BY <2>3, <2>4, <1>1, <1>2, <1>4 DEF AnswerInv, ReadsRecords
    <2>6. ReadsAgain'
      BY <1>1, <1>4 DEF ReadsAgain
    <2> QED BY <2>5, <2>6, <1>1, <1>4, StillReading
  <1>5. CASE pc = "cached"
    <2> DEFINE qname == request.qname
    <2>1. /\ at \in Nat /\ qname \in Seq(DnsLabel) /\ buf \in Seq(Nat) /\ next = Unset /\ mark = 0
      BY <1>5, AgainPlaces, AnswerHeld
    <2>2. PICK k \in 0..Len(qname) : dest = SpeltUpto(qname, k) /\ (AtLabel(k) \/ AtEnd(k))
      BY <1>5, AgainPlaces
    <2>3. ~AtEnd(k)
      BY <1>1, <2>1 DEF AtEnd, Byte
    <2>4. PICK l : l = qname[k + 1]
      OBVIOUS
    <2>5. k \in 0..(Len(qname) - 1) /\ LabelAt(buf, at, l, Place(12, qname, k + 1))
      BY <2>2, <2>3, <2>4 DEF AtLabel
    <2> HIDE DEF qname
    <2>6. Byte(at) = Len(l) /\ Len(l) \in Nat /\ \A x \in 1..Len(l) : Byte(at + x) = l[x]
      BY <2>1, <2>5, ReadsLabel
    <2>7. at' = Place(12, qname, k + 1)
      BY <2>5, <2>6, <1>1 DEF LabelAt
    <2>8. dest' = SpeltUpto(qname, k + 1)
      <3> DEFINE c == [j \in 1..Byte(at) |-> Byte(at + j)]
      <3>1. c = [j \in 1..Len(l) |-> l[j]]
        BY <2>6
      <3>2. dest' = SpeltUpto(qname, k) \o c \o <<Dot>>
        BY <1>1, <2>2
      <3> HIDE DEF c
      <3> QED BY <3>1, <3>2, <2>1, <2>4, <2>5, CopiesNextLabel
    <2>9. k + 1 \in 0..Len(qname)
      BY <2>1, <2>5
    <2>10. ReadsAgain'
      BY <2>1, <2>7, <2>8, <2>9, <1>1, <1>2, <1>5 DEF AnswerInv, ReadsAgain, AllRead, qname
    <2>11. ReadsRecords'
      BY <1>1, <1>5 DEF ReadsRecords
    <2> QED BY <2>10, <2>11, <1>1, <1>5, StillReading
  <1> QED BY <1>1, <1>3, <1>4, <1>5

LEMMA FollowPointerAInv == ASSUME OwnersCompressed, Inv, AnswerInv, FollowPointer PROVE AnswerInv'
  <1>1. /\ UNCHANGED <<pc, session, buf, data, left, dest, answers, question, slot>>
        /\ is_compress(Byte(at)) /\ pc \in {"question", "owner", "cached"}
        /\ next' = (IF next = Unset THEN at + 2 ELSE next) /\ mark' = Len(dest)
        /\ at' = get_compress_pos(Word(at))
    BY DEF FollowPointer, Fetching, AfterPointer, Pointed
  <1>2. answer' = answer /\ request' = request
    BY <1>1 DEF session
  <1>3. CASE pc = "question"
    BY <1>1, <1>3, NoAnswerYet DEF AnswerInv, NothingRead
  <1>4. CASE pc = "owner"
    <2>1. PICK w \in Words : OwnerPointer(w)
      BY <1>1, <1>4, OwnerPlaces, OwnerLabelByte, OwnerEndByte
    <2>2. at' = get_compress_pos(w)
      BY <2>1, <1>1, <1>4, OwnerPointerByte
    <2>3. Walk(answer, Current, at', next', mark', dest)
      BY <2>1, <2>2, <1>1 DEF OwnerPointer
    <2>4. Current' = Current
      BY <1>1, <1>2 DEF Current
    <2>5. ReadsRecords'
      BY <2>3, <2>4, <1>1, <1>2, <1>4 DEF AnswerInv, ReadsRecords
    <2>6. ReadsAgain'
      BY <1>1, <1>4 DEF ReadsAgain
    <2> QED BY <2>5, <2>6, <1>1, <1>4, StillReading
  <1>5. CASE pc = "cached"
    <2>1. PICK k \in 0..Len(request.qname) : AtLabel(k) \/ AtEnd(k)
      BY <1>5, AgainPlaces
    <2>2. at \in Nat /\ buf \in Seq(Nat)
      BY <1>5, AgainPlaces, AnswerHeld
    <2>3. CASE AtLabel(k)
      <3>1. PICK l, r : LabelAt(buf, at, l, r)
        BY <2>3 DEF AtLabel
      <3> QED BY <3>1, <2>2, <1>1, ReadsLabel
    <2>4. CASE AtEnd(k)
      <3>1. Byte(at) = 0
        BY <2>2, <2>4 DEF AtEnd, Byte
      <3> QED BY <3>1, <1>1, NoPointer
    <2> QED BY <2>1, <2>3, <2>4
  <1> QED BY <1>1, <1>3, <1>4, <1>5

LEMMA CacheAnswersAInv == ASSUME Inv, AnswerInv, CacheAnswers PROVE AnswerInv'
  <1>1. /\ pc = "cached" /\ Byte(at) = 0 /\ pc' = "relay" /\ UNCHANGED <<session, data, answers, slot>>
        /\ question'.label = Text(question.label)
    BY DEF CacheAnswers, EndOfName
  <1>2. answer' = answer /\ request' = request
    BY <1>1 DEF session
  <1>3. /\ slot.type \in Cacheable /\ answer.answers # <<>> /\ AllRead
    BY <1>1 DEF AnswerInv, ReadsAgain
  <1>4. PICK q \in Seq(DnsLabel) : q = request.qname /\ q # <<>>
    BY <1>1, <1>3, AnswerHeld DEF AnswerInv, RootForwarded
  <1>5. PICK k \in 0..Len(q) : dest = SpeltUpto(q, k) /\ (AtLabel(k) \/ AtEnd(k))
    BY <1>1, <1>4, AgainPlaces
  <1>6. ~AtLabel(k)
    <2> SUFFICES ASSUME AtLabel(k) PROVE FALSE
      OBVIOUS
    <2>1. PICK l, r : LabelAt(buf, at, l, r)
      BY DEF AtLabel
    <2>2. buf \in Seq(Nat)
      BY <1>1, AnswerHeld
    <2> QED BY <2>1, <2>2, <1>1, ReadsLabel
  <1>7. dest = SpeltUpto(q, Len(q))
    BY <1>4, <1>5, <1>6 DEF AtEnd
  <1>8. question'.label = Dotted(q)
    <2>1. dest # <<>> /\ Front(dest) = Dotted(q)
      BY <1>4, <1>7, FrontOfSpelt
    <2> QED BY <2>1, <1>1 DEF Text
  <1>9. ReadToEnd'
    BY <1>1, <1>2, <1>3, <1>4, <1>8 DEF ReadToEnd, AllRead
  <1>10. RootForwarded' /\ NothingRead' /\ ReadsRecords' /\ ReadsAgain'
    BY <1>1, <1>2, <1>3, <1>4 DEF RootForwarded, NothingRead, ReadsRecords, ReadsAgain
  <1> QED BY <1>9, <1>10 DEF AnswerInv

-----------------------------------------------------------------------------
(***************************************************************************)
(* A record is read.                                                       *)
(***************************************************************************)
\* What read_dns_answer finds behind the owner's name.
LEMMA RecordFound ==
    ASSUME OwnersCompressed, Inv, AnswerInv, pc = "owner", EndOfName,
           NEW r, r = answer.answers[Current]
    PROVE  /\ Fetched >= 0 /\ Word(EndPos) = r.type
           /\ EndPos + ANSWER_SIZE + Word(EndPos + 8) = Start(answer)[Current + 1]
           /\ r.type \in Cacheable =>
                  [name |-> Text(<<>>), type |-> Word(EndPos), class_ |-> Word(EndPos + 2),
                   ttl |-> Long(EndPos + 4),
                   addr |-> [j \in 1..Word(EndPos + 8) |-> Byte(EndPos + ANSWER_SIZE + j - 1)]]
                      = AddressAt(answer, Current)
  <1>1. PICK m, i : m = answer /\ i = Current
    OBVIOUS
  <1>2. Arrived(m) /\ buf = Encode(m) /\ buf \in Seq(Nat) /\ i \in 1..Len(m.answers)
    BY <1>1, AnswerHeld, CurrentRecord
  <1>3. OwnerEnd
    <2>1. Byte(at) = 0
      BY DEF EndOfName
    <2> QED BY <2>1, OwnerPlaces, OwnerLabelByte, OwnerPointerByte
  <1>4. /\ next = Start(m)[i] + NameLen(r.owner) /\ next # Unset /\ Fetched >= 0 /\ dest # <<>>
        /\ Front(dest) = Dotted(OwnerMeans(m, i))
    BY <1>1, <1>3 DEF OwnerEnd, Fetched
  <1>5. PICK e : e = EndPos
    OBVIOUS
  <1>6. e = Start(m)[i] + NameLen(r.owner)
    BY <1>4, <1>5 DEF EndPos
  <1>7. r = m.answers[i]
    BY <1>1
  <1>8. /\ r \in Record /\ r.type \in Words /\ r.ttl \in Ttl /\ e \in Nat
        /\ RdataLen(r) \in Words /\ RdataLen(r) \in Nat
        /\ Has(buf, e, U16(r.type)) /\ Has(buf, e + 2, U16(HTTP_CLASS))
        /\ Has(buf, e + 4, U32(r.ttl)) /\ Has(buf, e + 8, U16(RdataLen(r)))
        /\ Has(buf, e + 10, RdataOf(m, r)) /\ Len(RdataOf(m, r)) = RdataLen(r)
        /\ Start(m)[i + 1] = e + 10 + RdataLen(r)
    <2>1. Arrived(m) /\ i \in 1..Len(m.answers) /\ r = m.answers[i]
          /\ e = Start(m)[i] + NameLen(r.owner)
      BY <1>2, <1>6, <1>7
    <2>2. buf = Encode(m)
      BY <1>2
    <2>3. RecordStands(m, i, r, e)
      BY <2>1, RecordRead
    <2> QED BY <2>2, <2>3, Zenon DEF RecordStands
  <1>9. e + 2 \in Nat /\ e + 4 \in Nat /\ e + 8 \in Nat /\ e + 10 \in Nat
    BY <1>8
  <1>10. HTTP_CLASS \in Words
    BY WordType DEF HTTP_CLASS
  <1>11. Word(e) = r.type /\ Word(e + 2) = HTTP_CLASS /\ Word(e + 8) = RdataLen(r)
    BY <1>2, <1>8, <1>9, <1>10, ReadsField
  <1>12. Long(e + 4) = r.ttl
    BY <1>2, <1>8, <1>9, ReadsTtl
  <1>13. e + ANSWER_SIZE + Word(e + 8) = Start(m)[i + 1]
    BY <1>8, <1>11 DEF ANSWER_SIZE
  <1>14. Text(<<>>) = Dotted(Meaning(m, r.owner))
    BY <1>4, <1>7 DEF Text, OwnerMeans
  <1>15. ASSUME r.type \in Cacheable
         PROVE  [j \in 1..RdataLen(r) |-> Byte(e + ANSWER_SIZE + j - 1)] = r.addr
    <2>1. RdataOf(m, r) = r.addr
      BY <1>15 DEF RdataOf, Cacheable, RRTYPE_A, RRTYPE_AAAA, RRTYPE_CNAME
    <2>2. r.addr \in Seq(Nat)
      BY <1>8, RecordParts, BytesAreNumbers
    <2>3. PICK p \in Nat : p = e + ANSWER_SIZE /\ p = e + 10
      BY <1>9 DEF ANSWER_SIZE
    <2>4. Has(buf, p, r.addr) /\ RdataLen(r) = Len(r.addr)
      BY <2>1, <2>3, <1>8
    <2>5. [j \in 1..RdataLen(r) |-> Byte(p + j - 1)] = r.addr
      BY <2>2, <2>4, <1>2, ReadsData
    <2> QED BY <2>3, <2>5
  <1>16. ASSUME r.type \in Cacheable
         PROVE  [name |-> Text(<<>>), type |-> Word(e), class_ |-> Word(e + 2), ttl |-> Long(e + 4),
                 addr |-> [j \in 1..Word(e + 8) |-> Byte(e + ANSWER_SIZE + j - 1)]]
                    = AddressAt(m, i)
    BY <1>7, <1>11, <1>12, <1>14, <1>15, <1>16 DEF AddressAt
  <1> QED BY <1>1, <1>4, <1>5, <1>11, <1>13, <1>16

LEMMA ReadAnswerAInv == ASSUME OwnersCompressed, Inv, AnswerInv, ReadAnswer PROVE AnswerInv'
  <1>1. PICK read : read =
            [name |-> Text(<<>>), type |-> Word(EndPos), class_ |-> Word(EndPos + 2),
             ttl |-> Long(EndPos + 4),
             addr |-> [j \in 1..Word(EndPos + 8) |-> Byte(EndPos + ANSWER_SIZE + j - 1)]]
    OBVIOUS
  <1>2. /\ pc = "owner" /\ EndOfName /\ left' = left - 1 /\ UNCHANGED <<session, slot>>
        /\ answers' = IF Fetched >= 0 /\ IsGood(Word(EndPos)) THEN Append(answers, read) ELSE answers
        /\ data' = IF Fetched >= 0 THEN EndPos + ANSWER_SIZE + Word(EndPos + 8) ELSE data - 1
        /\ IF left > 1 THEN pc' = "owner" /\ BeginFetch(data')
           ELSE IF answers' # <<>> THEN pc' = "cached" /\ BeginFetch(DNS_HEADER_SIZE)
           ELSE pc' = "relay" /\ UNCHANGED fetch
    BY <1>1 DEF ReadAnswer
  <1>3. answer' = answer /\ request' = request
    BY <1>2 DEF session
  <1>4. PICK m, i, r : m = answer /\ i = Current /\ r = m.answers[i]
    OBVIOUS
  <1>5. Arrived(m) /\ i \in 1..Len(m.answers)
    BY <1>2, <1>4, AnswerHeld, CurrentRecord
  <1>6. PICK len \in Nat : len = Len(m.answers) /\ m.answers \in Seq(Record)
    BY <1>5, ArrivedAnswered
  <1>7. /\ Fetched >= 0 /\ Word(EndPos) = r.type
        /\ EndPos + ANSWER_SIZE + Word(EndPos + 8) = Start(m)[i + 1]
        /\ r.type \in Cacheable => read = AddressAt(m, i)
    BY <1>1, <1>2, <1>4, RecordFound
  <1>8. data' = Start(m)[i + 1]
    BY <1>2, <1>7
  <1>9. left \in 1..len /\ i = len - left + 1 /\ i \in 1..len /\ slot.type \in Cacheable
    BY <1>2, <1>4, <1>5, <1>6 DEF AnswerInv, ReadsRecords, Current
  <1>10. answers' = ReadSoFar(m, i)
    <2>1. answers = ReadSoFar(m, i - 1)
      BY <1>2, <1>4 DEF AnswerInv, ReadsRecords
    <2>2. PICK n \in Nat : n = i - 1 /\ n + 1 = i
      BY <1>9
    <2>3. Picked(n + 1, AddressRecords(m), Addresses(m)) =
              IF n + 1 \in AddressRecords(m)
              THEN Append(Picked(n, AddressRecords(m), Addresses(m)), Addresses(m)[n + 1])
              ELSE Picked(n, AddressRecords(m), Addresses(m))
      BY PickedStep
    <2>4. i \in AddressRecords(m) <=> r.type \in Cacheable
      BY <1>4, <1>9 DEF AddressRecords
    <2>5. Addresses(m)[i] = AddressAt(m, i)
      BY <1>9 DEF Addresses
    <2>6. ReadSoFar(m, i) = IF r.type \in Cacheable THEN Append(answers, AddressAt(m, i)) ELSE answers
      BY <2>1, <2>2, <2>3, <2>4, <2>5 DEF ReadSoFar
    <2> QED BY <2>6, <1>2, <1>7 DEF IsGood
  <1>11. RootForwarded'
    BY <1>2, <1>3 DEF AnswerInv, RootForwarded
  <1>12. NothingRead'
    BY <1>2 DEF NothingRead
  <1>13. CASE left > 1
    <2>1. pc' = "owner" /\ at' = data' /\ next' = Unset /\ mark' = 0 /\ dest' = <<>>
      BY <1>2, <1>13 DEF BeginFetch
    <2>2. i + 1 \in 1..len /\ left' \in 1..len /\ len - left' + 1 = i + 1 /\ (i + 1) - 1 = i
      BY <1>2, <1>9, <1>13
    <2>3. Current' = i + 1
      BY <2>2, <1>3, <1>4, <1>6 DEF Current
    <2>4. Walk(m, i + 1, Start(m)[i + 1], Unset, 0, <<>>)
      BY <2>2, <1>5, <1>6, WalkBegins
    <2>5. ReadsRecords'
      BY <2>1, <2>2, <2>3, <2>4, <1>2, <1>3, <1>4, <1>6, <1>8, <1>9, <1>10 DEF ReadsRecords
    <2>6. ReadsAgain' /\ ReadToEnd'
      BY <2>1 DEF ReadsAgain, ReadToEnd
    <2> QED BY <2>5, <2>6, <1>11, <1>12 DEF AnswerInv
  <1>14. CASE ~(left > 1)
    <2>1. i = len
      BY <1>9, <1>14
    <2>2. m.answers # <<>>
      BY <2>1, <1>6, <1>9
    <2>3. answers' = Meant(m)
      BY <2>1, <1>6, <1>10, MeantPicked DEF ReadSoFar
    <2>4. AllRead'
      BY <2>1, <2>3, <1>3, <1>4, <1>6, <1>8 DEF AllRead
    <2>5. slot'.type \in Cacheable /\ answer'.answers # <<>>
      BY <2>2, <1>2, <1>3, <1>4, <1>9
    <2>6. CASE answers' # <<>>
      <3>1. pc' = "cached" /\ at' = 12 /\ next' = Unset /\ mark' = 0 /\ dest' = <<>>
        BY <2>6, <1>2, <1>14 DEF BeginFetch, DNS_HEADER_SIZE
      <3>2. PICK q \in Seq(DnsLabel) : q = request.qname
        BY <1>2, AnswerHeld
      <3>3. 0 \in 0..Len(q) /\ 12 = Place(12, q, 0) /\ <<>> = SpeltUpto(q, 0)
        <4>1. 12 = Place(12, q, 0) /\ <<>> = SpeltUpto(q, 0)
          BY FirstPlace, SpeltSteps
        <4>2. Len(q) \in Nat
          OBVIOUS
        <4> QED BY <4>1, <4>2
      <3>4. ReadsAgain'
        BY <3>1, <3>2, <3>3, <2>4, <2>5, <1>3 DEF ReadsAgain
      <3>5. ReadsRecords' /\ ReadToEnd'
        BY <3>1 DEF ReadsRecords, ReadToEnd
      <3> QED BY <3>4, <3>5, <1>11, <1>12 DEF AnswerInv
    <2>7. CASE answers' = <<>>
      <3>1. pc' = "relay"
        BY <2>7, <1>2, <1>14
      <3>2. ReadToEnd'
        BY <3>1, <2>4, <2>5, <2>7 DEF ReadToEnd
      <3>3. ReadsRecords' /\ ReadsAgain'
        BY <3>1 DEF ReadsRecords, ReadsAgain
      <3> QED BY <3>2, <3>3, <1>11, <1>12 DEF AnswerInv
    <2> QED BY <2>6, <2>7
  <1> QED BY <1>13, <1>14

-----------------------------------------------------------------------------
LEMMA NextAnswerInv ==
    ASSUME OwnersCompressed, Inv, AnswerInv, [Next]_vars
    PROVE  AnswerInv'
  <1>1. CASE \E m \in Requests : ReceiveRequest(m) \/ ReceiveOwnQuery(m)
    BY <1>1, ReceiveAInv
  <1>2. CASE pc = "waiting" /\ \E m \in Answering(request, Word(0)) : ReceiveAnswer(m)
    BY <1>2, ReceiveAnswerAInv
  <1>3. CASE Timeout
    BY <1>3, RepliedAInv
  <1>4. CASE Code
    <2>1. CASE \E id \in NewIds : Forward(id)
      BY <2>1, ForwardAInv
    <2>2. CASE \E list \in Stored : ReplyRecords(list)
      BY <2>2, RepliedAInv
    <2> QED BY <1>4, <2>1, <2>2, CopyLabelAInv, FollowPointerAInv, ReadQuestionAInv, RepliedAInv,
               ReadAnswerAInv, CacheAnswersAInv, OverrunAInv DEF Code, Overrun
  <1>5. CASE UNCHANGED vars
    <2>1. UNCHANGED <<pc, request, answer, data, left, at, next, mark, dest, answers, question, slot>>
      BY <1>5 DEF vars, session, fetch
    <2> QED BY <2>1 DEF AnswerInv, RootForwarded, NothingRead, ReadsRecords, ReadsAgain, ReadToEnd,
                        AllRead, Current
  <1> QED BY <1>1, <1>2, <1>3, <1>4, <1>5 DEF Next, Undefined

LEMMA AnswerInvHolds ==
    ASSUME OwnersCompressed
    PROVE  Spec => []AnswerInv
  <1>1. Inv /\ AnswerInv /\ [Next]_vars => AnswerInv'
    BY NextAnswerInv
  <1> QED BY <1>1, InitAnswerInv, InvHolds, PTL DEF Spec

-----------------------------------------------------------------------------
(***************************************************************************)
(* Theorems.                                                               *)
(***************************************************************************)
\* If the owners' names end in pointers, then what read_dns_answer returns leads
\* read_dns_answers from each record to the next and in the end behind the last,
\* through records of any kind and names spread over any chain of pointers.
THEOREM AnswersAreFollowed == OwnersCompressed => (Spec => []AtNextAnswer)
  <1> SUFFICES ASSUME OwnersCompressed PROVE Spec => []AtNextAnswer
    OBVIOUS
  <1>1. AnswerInv => AtNextAnswer
    <2> SUFFICES ASSUME AnswerInv PROVE AtNextAnswer
      OBVIOUS
    <2>1. pc = "owner" => data = Start(answer)[Len(answer.answers) - left + 1]
      BY DEF AnswerInv, ReadsRecords, Current
    <2>2. pc \in {"cached", "relay"} /\ slot.type \in Cacheable /\ answer.answers # <<>> =>
              data = Start(answer)[Len(answer.answers) + 1]
      BY DEF AnswerInv, ReadsAgain, ReadToEnd, AllRead
    <2> QED BY <2>1, <2>2 DEF AtNextAnswer
  <1> QED BY <1>1, AnswerInvHolds, PTL

\* Then the addresses handle_relay puts into the record cache are those of the
\* answer, all of them and in order, each with its own type, class, ttl, bytes and
\* the name its owner means, under the name that was asked for.
THEOREM AnswersAreRead == OwnersCompressed => (Spec => []ReadsAnswers)
  <1> SUFFICES ASSUME OwnersCompressed PROVE Spec => []ReadsAnswers
    OBVIOUS
  <1>1. AnswerInv => ReadsAnswers
    BY DEF AnswerInv, ReadToEnd, AllRead, ReadsAnswers
  <1> QED BY <1>1, AnswerInvHolds, PTL

LEMMA FetchInside ==
    ASSUME OwnersCompressed, Inv, AnswerInv, Fetching
    PROVE  at + (IF is_compress(Byte(at)) THEN 1 ELSE Byte(at)) < Len(buf)
  <1>1. CASE pc = "owner"
    <2>1. CASE \E l \in DnsLabel : OwnerLabel(l)
      BY <1>1, <2>1, OwnerLabelByte
    <2>2. CASE \E w \in Words : OwnerPointer(w)
      BY <1>1, <2>2, OwnerPointerByte
    <2>3. CASE OwnerEnd
      <3>1. Byte(at) = 0 /\ ~is_compress(Byte(at)) /\ at < Len(buf) /\ at \in Nat
        BY <2>3, OwnerEndByte DEF OwnerEnd
      <3>2. at + 0 = at
        BY <3>1
      <3> QED BY <3>1, <3>2
    <2> QED BY <1>1, <2>1, <2>2, <2>3, OwnerPlaces
  <1>2. CASE pc \in {"question", "cached"}
    <2>1. buf \in Seq(Nat) /\ at \in Nat
      BY <1>2, BufferOfRequest, QuestionPlaces, AnswerHeld, AgainPlaces DEF NameAt
    <2>2. PICK k \in 0..Len(request.qname) : AtLabel(k) \/ AtEnd(k)
      BY <1>2, QuestionPlaces, AgainPlaces
    <2>3. CASE AtLabel(k)
      <3>1. PICK l, r : LabelAt(buf, at, l, r)
        BY <2>3 DEF AtLabel
      <3> QED BY <3>1, <2>1, ReadsLabel
    <2>4. CASE AtEnd(k)
      <3>1. Byte(at) = 0 /\ at < Len(buf)
        BY <2>1, <2>4 DEF AtEnd, Byte
      <3>2. ~is_compress(Byte(at)) /\ at + 0 = at
        BY <3>1, <2>1, NoPointer
      <3> QED BY <3>1, <3>2
    <2> QED BY <2>2, <2>3, <2>4
  <1> QED BY <1>1, <1>2 DEF Fetching

LEMMA DataInside ==
    ASSUME Inv, AnswerInv
    PROVE  (pc = "owner" => data < Len(buf)) /\ (pc = "relay" => data <= Len(buf))
  <1>1. ASSUME pc = "owner" PROVE data < Len(buf)
    <2>1. PICK m, i, n : m = answer /\ i = Current /\ n = m.answers[i].owner
      OBVIOUS
    <2>2. Arrived(m) /\ buf = Encode(m) /\ Len(buf) \in Nat /\ i \in 1..Len(m.answers)
      BY <1>1, <2>1, AnswerHeld, CurrentRecord
    <2>3. Placed(m, n, Start(m)[i])
      BY <2>1, <2>2, OwnerPlaced
    <2>4. data = Start(m)[i]
      BY <1>1, <2>1 DEF AnswerInv, ReadsRecords
    <2>5. data \in Nat /\ data + NameLen(n) <= Len(buf) /\ NameLen(n) \in Nat /\ NameLen(n) >= 1
      <3>1. data \in Nat /\ data + NameLen(n) <= Len(buf)
        BY <2>2, <2>3, <2>4 DEF Placed
      <3>2. PICK e \in Nat, lb \in Nat : NameLen(n) = lb + e /\ e >= 1
        <4>1. /\ NameLen(n) = Len(LabelBytes(n.labels)) + Len(EndBytes(m, n))
              /\ Len(LabelBytes(n.labels)) \in Nat
              /\ Len(EndBytes(m, n)) = 1 \/ Len(EndBytes(m, n)) = 2
          BY <2>3 DEF Placed, NameInBytes
        <4>2. Len(EndBytes(m, n)) \in Nat /\ Len(EndBytes(m, n)) >= 1
          BY <4>1
        <4> QED BY <4>1, <4>2
      <3>3. lb + e \in Nat /\ lb + e >= 1
        BY <3>2
      <3> QED BY <3>1, <3>2, <3>3
    <2> QED BY <2>2, <2>5
  <1>2. ASSUME pc = "relay" PROVE data <= Len(buf)
    <2>1. PICK m : m = answer
      OBVIOUS
    <2>1a. PICK len \in Nat : len = Len(m.answers)
      BY <1>2, <2>1, AnswerHeld
    <2>2. Arrived(m) /\ buf = Encode(m) /\ Len(buf) \in Nat
      BY <1>2, <2>1, AnswerHeld
    <2>3. data = 0 \/ data = Start(m)[len + 1]
      BY <1>2, <2>1, <2>1a DEF AnswerInv, ReadToEnd, AllRead
    <2>4. Start(m)[len + 1] <= Len(buf)
      <3>1. len + 1 \in 1..(Len(m.answers) + 1) /\ Answered(m)
        BY <2>1a, <2>2 DEF Arrived
      <3> QED BY <2>2, <3>1, StartsGrow
    <2> QED BY <2>2, <2>3, <2>4
  <1> QED BY <1>1, <1>2

\* Then every byte that fetch_label and read_dns_answers look at is one of the
\* message that was received, though no length is checked: labels and pointers lie
\* inside, no record starts past the end, and the last one ends in the message.
THEOREM ReadsStayInBounds == OwnersCompressed => (Spec => []InBounds)
  <1> SUFFICES ASSUME OwnersCompressed PROVE Spec => []InBounds
    OBVIOUS
  <1>1. Inv /\ AnswerInv => InBounds
    BY FetchInside, DataInside DEF InBounds
  <1> QED BY <1>1, InvHolds, AnswerInvHolds, PTL

-----------------------------------------------------------------------------
(***************************************************************************)
(* The answer in bytes: every number in it fits.                           *)
(***************************************************************************)
\* A pointer fits beside COMPRESS_FLAG.
LEMMA AimSmall ==
    ASSUME NEW m, Arrived(m), NEW n, NEW p, Placed(m, n, p), NEW k, AtLevel(m, k, p),
           Refers(m, n, k), n.at # Plain
    PROVE  Aim(m, n) \in Nat /\ Aim(m, n) <= 520
  <1>1. Aim(m, n) \in Nat /\ p \in Nat /\ n \in EncodedName /\ k \in 0..Len(m.answers)
    BY DEF Placed, NameInBytes, AtLevel
  <1>2. PICK g : g = n.at
    OBVIOUS
  <1>3. /\ Pointable(m, g) /\ g \in 0..(k - 1) /\ n.drop < Len(LabelsAt(m, g))
        /\ LabelsAt(m, g) \in Seq(DnsLabel)
    BY <1>1, <1>2, RefersPointable
  <1>4. PICK o, q : o = NameOf(m, g) /\ q = OffsetAt(m, g)
    OBVIOUS
  <1>5. Placed(m, o, q)
    BY <1>1, <1>3, <1>4, PointedPlaced
  <1>6. o.labels = LabelsAt(m, g)
    BY <1>3, <1>4, PointableName
  <1>7. PICK h \in Nat : h = n.drop
    BY <1>1 DEF EncodedName
  <1>8. h \in 0..(Len(o.labels) - 1)
    BY <1>3, <1>6, <1>7
  <1>9. Aim(m, n) = Place(q, o.labels, h)
    BY <1>2, <1>4, <1>6, <1>7 DEF Aim, Place
  <1>10. LabelAt(Encode(m), Place(q, o.labels, h), o.labels[h + 1], Place(q, o.labels, h + 1))
    BY <1>5, <1>8, PlacedLabel
  <1>11. PICK u \in Nat, size \in Nat : u = Aim(m, n) /\ size = Len(Encode(m)) /\ size <= 520
    BY <1>1, ArrivedAnswered
  <1>12. PICK c \in Nat : c = Len(o.labels[h + 1]) /\ u + c + 1 < size
    BY <1>9, <1>10, <1>11 DEF LabelAt
  <1>13. u <= 520
    BY <1>11, <1>12
  <1> QED BY <1>11, <1>13

LEMMA NameIsBytes ==
    ASSUME NEW m, Arrived(m), NEW n, NEW p, Placed(m, n, p), NEW k, AtLevel(m, k, p),
           Refers(m, n, k)
    PROVE  NameBytes(m, n) \in Bytes
  <1>1. LabelBytes(n.labels) \in Bytes /\ NameBytes(m, n) = LabelBytes(n.labels) \o EndBytes(m, n)
    BY DEF Placed, NameInBytes
  <1>2. EndBytes(m, n) \in Bytes
    <2>1. CASE n.at = Plain
      <3>1. 0 \in Octets
        BY OctetType
      <3> QED BY <2>1, <3>1, OneByte DEF EndBytes
    <2>2. CASE n.at # Plain
      <3>1. PointerFlag + Aim(m, n) \in Words
        BY <2>2, AimSmall, PointerWord
      <3>2. U16(PointerFlag + Aim(m, n)) \in Bytes
        BY <3>1, WordBytes
      <3> QED BY <2>2, <3>2 DEF EndBytes
    <2> QED BY <2>1, <2>2
  <1> QED BY <1>1, <1>2, BytesJoin

LEMMA RecordIsBytes ==
    ASSUME NEW m, Arrived(m), NEW k \in 1..Len(m.answers)
    PROVE  AnswerBytes(m, m.answers[k]) \in Bytes
  <1>1. PICK r : r = m.answers[k]
    OBVIOUS
  <1>2. /\ Answered(m) /\ Len(m.answers) \in Nat /\ r \in Record
    BY <1>1, ArrivedAnswered
  <1>3. /\ r.type \in Words /\ r.ttl \in Ttl /\ r.addr \in Bytes
    BY <1>2, RecordParts
  <1>4. NameBytes(m, r.owner) \in Bytes
    <2>1. Placed(m, r.owner, Start(m)[k]) /\ Refers(m, r.owner, k) /\ k \in 0..Len(m.answers)
      BY <1>1, OwnerPlaced
    <2>2. Start(m)[k] \in Nat
      BY <2>1 DEF Placed
    <2>3. AtLevel(m, k, Start(m)[k])
      BY <2>1, <2>2 DEF AtLevel
    <2> QED BY <2>1, <2>3, NameIsBytes
  <1>5. RdataOf(m, r) \in Bytes
    <2>1. CASE r.type = RRTYPE_CNAME
      <3>1. Placed(m, NameOf(m, k), OffsetAt(m, k)) /\ Start(m)[k] <= OffsetAt(m, k)
        BY <1>1, <2>1, TargetPlaced
      <3>2. NameOf(m, k) = r.target /\ k \in 0..Len(m.answers)
        BY <1>1, <1>2 DEF NameOf
      <3>3. Refers(m, r.target, k)
        BY <1>1, <2>1 DEF Arrived
      <3>4. AtLevel(m, k, OffsetAt(m, k))
        BY <3>1, <3>2 DEF AtLevel
      <3>5. NameBytes(m, r.target) \in Bytes
        BY <3>1, <3>2, <3>3, <3>4, NameIsBytes
      <3> QED BY <2>1, <3>5 DEF RdataOf
    <2>2. CASE r.type # RRTYPE_CNAME
      BY <1>3, <2>2 DEF RdataOf
    <2> QED BY <2>1, <2>2
  <1>6. RdataLen(r) \in Words
    <2>1. PICK e : e = Start(m)[k] + NameLen(r.owner)
      OBVIOUS
    <2>2. RecordStands(m, k, r, e)
      BY <1>1, <2>1, RecordRead
    <2> QED BY <2>2 DEF RecordStands
  <1>7. HTTP_CLASS \in Words
    BY WordType DEF HTTP_CLASS
  <1>8. PICK n \in Bytes, t \in Bytes, c \in Bytes, l \in Bytes, s \in Bytes, d \in Bytes :
            /\ n = NameBytes(m, r.owner) /\ t = U16(r.type) /\ c = U16(HTTP_CLASS)
            /\ l = U32(r.ttl) /\ s = U16(RdataLen(r)) /\ d = RdataOf(m, r)
    <2>1. U16(r.type) \in Bytes /\ U16(HTTP_CLASS) \in Bytes /\ U16(RdataLen(r)) \in Bytes
      BY <1>3, <1>6, <1>7, WordBytes
    <2>2. U32(r.ttl) \in Bytes
      BY <1>3, TtlBytes
    <2> QED BY <1>4, <1>5, <2>1, <2>2
  <1>9. AnswerBytes(m, r) = n \o t \o c \o l \o s \o d
    BY <1>8 DEF AnswerBytes, RdataOf
  <1>10. n \o t \o c \o l \o s \o d \in Bytes
    <2>1. ASSUME NEW x \in Bytes, NEW y \in Bytes PROVE x \o y \in Bytes
      BY BytesJoin
    <2>2. n \o t \in Bytes
      BY <2>1
    <2>3. n \o t \o c \in Bytes
      BY <2>1, <2>2
    <2>4. n \o t \o c \o l \in Bytes
      BY <2>1, <2>3
    <2>5. n \o t \o c \o l \o s \in Bytes
      BY <2>1, <2>4
    <2> QED BY <2>1, <2>5
  <1> QED BY <1>1, <1>9, <1>10

LEMMA AnswerIsBytes ==
    ASSUME NEW m, Arrived(m)
    PROVE  Encode(m) \in Bytes
  <1>1. Answered(m) /\ Len(m.answers) \in Nat /\ Len(m.answers) \in Words /\ m.qtype \in Words
        /\ m.qname \in Seq(DnsLabel) /\ m.id \in Words /\ m.flags \in Words /\ m.opt \in {0, 1}
    BY DEF Arrived, Answered
  <1>2. Pieces(m) \in Seq(Bytes)
    <2>1. DOMAIN m.answers = 1..Len(m.answers)
      BY DEF Arrived, Answered
    <2>2. \A i \in 1..Len(m.answers) : AnswerBytes(m, m.answers[i]) \in Bytes
      BY RecordIsBytes
    <2> QED BY <1>1, <2>1, <2>2 DEF Pieces
  <1>3. AnswersBytes(m) \in Bytes
    <2>1. FlattenSeq(Pieces(m)) \in Seq(Octets)
      BY <1>2, FlattenTyped DEF Bytes
    <2> QED BY <1>1, <2>1, PiecesType DEF Bytes
  <1>4. QuestionBytes(m) \in Bytes
    <2>1. QuestionBytes(m) = QuestionFor(m.qname, m.qtype)
      BY DEF QuestionBytes, QuestionFor
    <2> QED BY <1>1, <2>1, QuestionLayout DEF QuestionOf
  <1>5. Behind(m) \in Bytes
    <2>1. QuestionBytes(m) \o AnswersBytes(m) \in Bytes
      BY <1>3, <1>4, BytesJoin
    <2>2. (QuestionBytes(m) \o AnswersBytes(m)) \o Opt(m.opt) \in Bytes
      BY <2>1, OptType, BytesJoin
    <2> QED BY <2>2 DEF Behind
  <1>6. MessageOf(Encode(m), m.id, m.flags, Len(m.answers), m.opt, Behind(m))
    BY <1>1, EncodeAnswered
  <1>7. m.opt \in Words
    BY <1>1, SmallWords
  <1> QED BY <1>1, <1>5, <1>6, <1>7, MessageBytes

-----------------------------------------------------------------------------
(***************************************************************************)
(* What the code makes of bytes are bytes.                                 *)
(***************************************************************************)
LEMMA SetWordBytes ==
    ASSUME NEW b \in Bytes, NEW p \in Nat, p + 2 <= Len(b), NEW w \in Words
    PROVE  SetWord(b, p, w) \in Bytes /\ Len(SetWord(b, p, w)) = Len(b)
  <1>1. Hi(w) \in Octets /\ Lo(w) \in Octets
    BY Halves
  <1>2. b \in Seq(Octets)
    BY DEF Bytes
  <1>3. PICK c : c = [b EXCEPT ![p + 1] = Hi(w)]
    OBVIOUS
  <1>4. p + 1 \in 1..Len(b) /\ p + 2 \in 1..Len(b)
    BY <1>2
  <1>5. c \in Seq(Octets) /\ Len(c) = Len(b)
    BY <1>1, <1>2, <1>3, <1>4, Replaced
  <1>6. [c EXCEPT ![p + 2] = Lo(w)] \in Seq(Octets) /\ Len([c EXCEPT ![p + 2] = Lo(w)]) = Len(c)
    BY <1>1, <1>4, <1>5, Replaced
  <1>7. SetWord(b, p, w) = [c EXCEPT ![p + 2] = Lo(w)]
    BY <1>3 DEF SetWord, Hi, Lo
  <1> QED BY <1>5, <1>6, <1>7 DEF Bytes

LEMMA RespondBytes ==
    ASSUME NEW b \in Bytes, 4 <= Len(b), NEW rcode \in {RCODE_NAME_ERROR, RCODE_REFUSED}
    PROVE  Respond(b, rcode) \in Bytes /\ Len(Respond(b, rcode)) = Len(b)
  <1>1. PICK w \in Words : w = FLAG_RESPONSE_NORMAL /\ Lo(w) = 0
    BY ResponseFlags
  <1>2. PICK c : c = SetWord(b, 2, w)
    OBVIOUS
  <1>3. 2 \in Nat /\ 2 + 2 <= Len(b) /\ Len(b) \in Nat /\ b \in Seq(Nat)
    BY BytesAreNumbers
  <1>4. c \in Bytes /\ Len(c) = Len(b)
    BY <1>2, <1>3, SetWordBytes
  <1>5. c[4] = 0
    <2>1. c[2 + 2] = Lo(w)
      BY <1>2, <1>3, SetWordFacts DEF SetsWord
    <2> QED BY <2>1, <1>1
  <1>6. rcode \in Octets /\ rcode \in Nat
    BY OctetType DEF RCODE_NAME_ERROR, RCODE_REFUSED
  <1>7. 16 * (c[4] \div 16) + rcode = rcode
    <2>1. 0 \div 16 = 0
      OBVIOUS
    <2>2. 16 * 0 + rcode = rcode
      BY <1>6
    <2> QED BY <2>1, <2>2, <1>5
  <1>8. Respond(b, rcode) = [c EXCEPT ![4] = rcode]
    BY <1>1, <1>2, <1>7 DEF Respond, set_header_rcode, set_header_flag
  <1>9. 4 \in 1..Len(c) /\ c \in Seq(Octets)
    BY <1>3, <1>4 DEF Bytes
  <1>10. [c EXCEPT ![4] = rcode] \in Seq(Octets) /\ Len([c EXCEPT ![4] = rcode]) = Len(c)
    BY <1>6, <1>9, Replaced
  <1> QED BY <1>4, <1>8, <1>10 DEF Bytes

LEMMA CopiesBytes ==
    ASSUME NEW d \in Bytes, Len(d) = 12, NEW s \in Bytes, Len(s) >= 5, s[5] = 0
    PROVE  strcpy(d, s) \in Bytes
  <1>0. d \in Seq(Octets) /\ s \in Seq(Octets) /\ s \in Seq(Nat) /\ Len(s) \in Nat
    BY BytesAreNumbers DEF Bytes
  <1>1. PICK n \in Nat : n = CStringLen(s) /\ StringOf(s, n)
    BY <1>0, StringLength DEF StringOf
  <1>2. n <= 4 /\ n <= Len(s)
    <2>1. 5 \in 1..Len(s)
      BY <1>0
    <2> QED BY <1>0, <1>1, <2>1 DEF StringOf
  <1>3. PICK a : a = SubSeq(s, 1, n)
    OBVIOUS
  <1>4. PICK b : b = SubSeq(d, n + 2, Len(d))
    OBVIOUS
  <1>5. a \in Bytes
    BY <1>0, <1>2, <1>3, Prefix DEF Bytes
  <1>6. b \in Bytes
    <2>1. n + 2 \in Nat /\ 1 <= n + 2 /\ n + 2 <= Len(d)
      BY <1>2
    <2> QED BY <2>1, <1>0, <1>4, Suffix DEF Bytes
  <1>7. <<0>> \in Bytes
    BY OneByte, OctetType
  <1>8. a \o <<0>> \in Bytes
    BY <1>5, <1>7, BytesJoin
  <1>9. (a \o <<0>>) \o b \in Bytes
    BY <1>6, <1>8, BytesJoin
  <1> QED BY <1>1, <1>3, <1>4, <1>9 DEF strcpy

\* strlen and the bytes before the zero.
LEMMA StringBytes ==
    ASSUME NEW s \in Bytes
    PROVE  SubSeq(s, 1, CStringLen(s)) \in Bytes
  <1>1. s \in Seq(Octets) /\ s \in Seq(Nat)
    BY BytesAreNumbers DEF Bytes
  <1>2. PICK n \in Nat : n = CStringLen(s) /\ n <= Len(s)
    BY <1>1, StringLength DEF StringOf
  <1>3. SubSeq(s, 1, n) \in Seq(Octets)
    BY <1>1, <1>2, Prefix
  <1> QED BY <1>2, <1>3 DEF Bytes

\* str_to_label makes bytes of any text, names with odd bytes included.
LEMMA LabelsAreBytes ==
    ASSUME NEW host \in Bytes
    PROVE  str_to_label(host) \in Bytes
  <1>1. PICK n \in Nat : n = CStringLen(host) /\ n <= Len(host)
    BY BytesAreNumbers, StringLength DEF StringOf
  <1>2. PICK f : /\ ReadsText(f, n, host)
                 /\ str_to_label(host) =
                        f[n].done \o <<Len(f[n].label) % 256>> \o f[n].label \o <<0>>
    BY <1>1, TextByRecursion
  <1>3. ASSUME NEW l \in Bytes PROVE <<Len(l) % 256>> \in Bytes
    <2>1. PICK size \in Nat : size = Len(l)
      BY DEF Bytes
    <2>2. PICK o \in Octets : o = size % 256
      BY OctetType
    <2> QED BY <2>1, <2>2, OneByte
  <1> DEFINE Good == {i \in Nat : i <= n => f[i].done \in Bytes /\ f[i].label \in Bytes}
  <1>4. 0 \in Good
    <2>1. f[0] = Begun /\ <<>> \in Bytes
      BY <1>2, ReadsTextUnfold DEF Bytes
    <2> QED BY <2>1 DEF Begun
  <1>5. ASSUME NEW i \in Nat, i \in Good PROVE i + 1 \in Good
    <2> SUFFICES ASSUME i + 1 <= n PROVE f[i + 1].done \in Bytes /\ f[i + 1].label \in Bytes
      OBVIOUS
    <2>1. i <= n /\ i + 1 \in 1..n /\ (i + 1) - 1 = i
      OBVIOUS
    <2>2. f[i].done \in Bytes /\ f[i].label \in Bytes
      BY <1>5, <2>1
    <2> HIDE DEF Good
    <2>3. PICK d \in Bytes, l \in Bytes : d = f[i].done /\ l = f[i].label
      BY <2>2
    <2>4. PICK c \in Octets : c = host[i + 1]
      <3>1. i + 1 \in 1..Len(host) /\ host \in Seq(Octets)
        BY <1>1, <2>1 DEF Bytes
      <3> QED BY <3>1
    <2>5. f[i + 1] = Turn(f[i], c)
      BY <1>2, <2>1, <2>4, ReadsTextUnfold
    <2>6. CASE c = Dot
      <3>1. f[i + 1] = [done |-> d \o <<Len(l) % 256>> \o l, label |-> <<>>]
        BY <2>3, <2>5, <2>6 DEF Turn
      <3>2. d \o <<Len(l) % 256>> \in Bytes
        BY <1>3, BytesJoin
      <3>3. (d \o <<Len(l) % 256>>) \o l \in Bytes /\ <<>> \in Bytes
        BY <3>2, BytesJoin DEF Bytes
      <3> QED BY <3>1, <3>3
    <2>7. CASE c # Dot
      <3>1. f[i + 1] = [done |-> d, label |-> Append(l, c)]
        BY <2>3, <2>5, <2>7 DEF Turn
      <3>2. Append(l, c) \in Bytes
        BY <2>4, Appended DEF Bytes
      <3> QED BY <3>1, <3>2
    <2> QED BY <2>6, <2>7
  <1> HIDE DEF Good
  <1>6. n \in Good
    BY <1>4, <1>5, InductiveSet
  <1>7. PICK d \in Bytes, l \in Bytes : d = f[n].done /\ l = f[n].label
    BY <1>6 DEF Good
  <1>8. PICK c \in Bytes : c = <<Len(l) % 256>>
    BY <1>3
  <1>9. PICK z \in Bytes : z = <<0>>
    <2>1. 0 \in Octets
      BY OctetType
    <2> QED BY <2>1, OneByte
  <1>10. d \o c \o l \o z \in Bytes
    BY BytesJoin
  <1> QED BY <1>2, <1>7, <1>8, <1>9, <1>10

LEMMA AnswerWrittenBytes ==
    ASSUME NEW name \in Bytes, NEW type \in Words, NEW class \in Words, NEW ttl \in StoredTtl,
           NEW rdata \in [1..16 -> Octets]
    PROVE  write_dns_answer(name, type, class, ttl, rdata) \in Bytes
  <1>1. PICK size \in {4, 16} : size = AddrSize(type) /\ size \in Words
    <2>1. 4 \in Words /\ 16 \in Words
      BY WordType
    <2> QED BY <2>1 DEF AddrSize
  <1>2. PICK t \in Ttl : t = (IF ttl >= 0 THEN ttl ELSE 0)
    <2>1. MaxTtl \in Nat /\ ttl \in Int /\ ttl <= MaxTtl
      BY TtlType
    <2>2. (IF ttl >= 0 THEN ttl ELSE 0) \in Nat /\ (IF ttl >= 0 THEN ttl ELSE 0) <= MaxTtl
      BY <2>1
    <2> QED BY <2>2, TtlType
  <1>3. PICK n \in Bytes : n = str_to_label(name)
    BY LabelsAreBytes
  <1>4. PICK u \in Bytes, c \in Bytes, s \in Bytes :
            u = U16(type) /\ c = U16(class) /\ s = U16(size)
    BY <1>1, WordBytes
  <1>5. PICK l \in Bytes : l = U32(t)
    BY TtlBytes
  <1>6. PICK a \in Bytes : a = SubSeq(rdata, 1, size)
    BY AddressBytes DEF Bytes
  <1>7. write_dns_answer(name, type, class, ttl, rdata) = n \o u \o c \o l \o s \o a
    BY <1>1, <1>2, <1>3, <1>4, <1>5, <1>6 DEF write_dns_answer
  <1>8. n \o u \o c \o l \o s \o a \in Bytes
    BY DEF Bytes
  <1> QED BY <1>7, <1>8

LEMMA TableIsSeq ==
    ASSUME NEW S, NEW n \in Nat, NEW v \in [1..n -> S]
    PROVE  v \in Seq(S)
  OBVIOUS

\* The reply with records, for any name: its header and question stand, and each
\* record is made of bytes.
LEMMA RecordsAreBytes ==
    ASSUME NEW m \in Bare, NEW b \in Bytes, NEW flags, NEW opt,
           MessageOf(b, m.id, flags, 0, opt, Rest(m)),
           NEW name \in Bytes, NEW type \in Words,
           NEW list \in Seq(StoredRecord), Len(list) \in Words,
           NEW found,
           found = [i \in DOMAIN list |->
                       [name |-> name, type |-> type, class_ |-> HTTP_CLASS,
                        ttl |-> list[i].ttl, addr |-> list[i].addr]]
    PROVE  write_dns_response_by_query(b, found) \in Bytes
  <1> DEFINE N == FLAG_RESPONSE_NORMAL
  <1>1. m.qname \in Seq(DnsLabel) /\ N \in Words /\ HTTP_CLASS \in Words
    BY ResponseFlags, SmallWords DEF Bare, HTTP_CLASS
  <1>2. PICK w \in Words : w = Len(list) /\ w = Len(found) /\ DOMAIN list = 1..w /\ DOMAIN found = 1..w
        /\ w \in Nat
    BY WordType
  <1>3. Len(b) \in Nat /\ 12 <= Len(b)
    BY DEF MessageOf, GoesOn
  <1>4. PICK g \in Bytes : g = set_header_flag(b, N) /\ Len(g) = Len(b)
    <2>1. 2 \in Nat /\ 2 + 2 <= Len(b)
      BY <1>3
    <2> QED BY <1>1, <2>1, SetWordBytes DEF set_header_flag
  <1>5. PICK h \in Bytes : h = SetWord(g, 6, w)
    <2>1. 6 \in Nat /\ 6 + 2 <= Len(g)
      BY <1>3, <1>4
    <2> QED BY <2>1, SetWordBytes
  <1>6. MessageOf(h, m.id, N, w, opt, Rest(m))
    <2>1. MessageOf(g, m.id, N, 0, opt, Rest(m))
      BY <1>1, <1>4, SetFlag
    <2> QED BY <2>1, <1>5, SetAnswerCount
  <1>7. PICK q : HoldsQuestion(h, m.qname, q)
    BY <1>6, QuestionInMessage
  <1>8. PICK p \in Nat : p = skip_to_answer(h) /\ p <= Len(h)
    <2>1. SkipLabels(h, DNS_HEADER_SIZE) = 12 + Len(LabelBytes(m.qname))
      BY <1>1, <1>7, SkipsName DEF DNS_HEADER_SIZE, HoldsQuestion
    <2>2. skip_to_answer(h) = 12 + Len(q) /\ 12 + Len(q) \in Nat /\ 12 + Len(q) <= Len(h)
      BY <2>1, <1>7 DEF skip_to_answer, QUESTION_SIZE, HoldsQuestion
    <2> QED BY <2>2
  <1>9. SubSeq(h, 1, p) \in Bytes
    BY <1>8, Prefix DEF Bytes
  <1>10. FlattenSeq(Written(found)) \in Bytes
    <2>1. ASSUME NEW i \in 1..w PROVE Written(found)[i] \in Bytes
      <3>1. PICK x \in StoredRecord : x = list[i]
        BY <1>2
      <3>2. x.ttl \in StoredTtl /\ x.addr \in [1..16 -> Octets]
        BY DEF StoredRecord
      <3>3. /\ found[i].name = name /\ found[i].type = type /\ found[i].class_ = HTTP_CLASS
            /\ found[i].ttl = x.ttl /\ found[i].addr = x.addr
        BY <1>2, <3>1
      <3>4. Written(found)[i] = write_dns_answer(name, type, HTTP_CLASS, x.ttl, x.addr)
        BY <1>2, <3>3 DEF Written
      <3> QED BY <1>1, <3>2, <3>4, AnswerWrittenBytes
    <2>2. Written(found) = [i \in 1..w |-> Written(found)[i]]
      BY <1>2 DEF Written
    <2>3. PICK v : v = Written(found)
      OBVIOUS
    <2>4. v = [i \in 1..w |-> v[i]] /\ \A i \in 1..w : v[i] \in Seq(Octets)
      BY <2>1, <2>2, <2>3 DEF Bytes
    <2>5. v \in [1..w -> Seq(Octets)]
      BY <2>4
    <2>6. v \in Seq(Seq(Octets))
      BY <1>2, <2>5, TableIsSeq
    <2> QED BY <2>3, <2>6, FlattenTyped DEF Bytes
  <1>11. write_dns_response_by_query(b, found) = SubSeq(h, 1, p) \o FlattenSeq(Written(found))
    BY <1>2, <1>4, <1>5, <1>8 DEF write_dns_response_by_query, Written
  <1>12. PICK s \in Bytes, t \in Bytes : s = SubSeq(h, 1, p) /\ t = FlattenSeq(Written(found))
    BY <1>9, <1>10
  <1>13. s \o t \in Bytes
    BY BytesJoin
  <1> QED BY <1>11, <1>12, <1>13

LEMMA WordIsWord ==
    ASSUME buf \in Bytes, NEW p \in Int, p >= 0
    PROVE  Word(p) \in Words /\ Byte(p) \in Octets
  <1>1. ASSUME NEW q \in Nat PROVE Byte(q) \in Octets
    <2>1. buf \in Seq(Octets) /\ Len(buf) \in Nat
      BY DEF Bytes
    <2>2. CASE q < Len(buf)
      <3>1. q + 1 \in 1..Len(buf)
        BY <2>1, <2>2
      <3>2. buf[q + 1] \in Octets
        BY <2>1, <3>1
      <3> QED BY <2>2, <3>2 DEF Byte
    <2>3. CASE ~(q < Len(buf))
      <3>1. 0 \in Octets
        BY OctetType
      <3> QED BY <2>3, <3>1 DEF Byte
    <2> QED BY <2>2, <2>3
  <1>2. p \in Nat /\ p + 1 \in Nat
    OBVIOUS
  <1>3. PICK x \in Octets, y \in Octets : x = Byte(p) /\ y = Byte(p + 1)
    BY <1>1, <1>2
  <1>4. 256 * x + y \in Nat /\ 256 * x + y <= 65535
    BY <1>3, OctetType
  <1>5. Word(p) = 256 * x + y
    BY <1>3 DEF Word
  <1> QED BY <1>3, <1>4, <1>5, WordType

-----------------------------------------------------------------------------
(***************************************************************************)
(* The type invariant.                                                     *)
(***************************************************************************)
States == {"idle", "question", "lookup", "waiting", "owner", "cached", "relay", "overrun"}
Reading == pc \in {"owner", "cached", "relay"}

\* What may change where fetch_label and read_dns_answers are.
StepShape ==
    /\ pc' \in States
    /\ (\E m \in Requests : Accept(m, Encode(m))) \/ (pc # "idle" /\ request' = request)
    /\ Fetching' \/ UNCHANGED fetch
    /\ Reading' \/ data' = data \/ data' = 0
    /\ pc' = "owner" \/ left' = left \/ left' = 0 \/ (pc = "owner" /\ left' = left - 1)

LEMMA StepsHaveShape == ASSUME pc \in States, Next PROVE StepShape
  <1>1. CASE \E m \in Requests : ReceiveRequest(m) \/ ReceiveOwnQuery(m)
    <2>1. PICK m \in Requests : ReceiveRequest(m) \/ ReceiveOwnQuery(m)
      BY <1>1
    <2>2. m \in Bare
      BY MessageAssumption DEF Bare
    <2>3. Accept(m, Encode(m))
      BY <2>1, <2>2, OwnQuery DEF ReceiveRequest, ReceiveOwnQuery
    <2>4. pc' = "question" /\ data' = 0 /\ left' = 0
      BY <2>3 DEF Accept
    <2> QED BY <2>3, <2>4 DEF StepShape, States, Fetching
  <1>2. CASE pc = "waiting" /\ \E m \in Answering(request, Word(0)) : ReceiveAnswer(m)
    <2>1. /\ pc = "waiting" /\ request' = request
          /\ \/ pc' = "owner"
             \/ pc' = "relay" /\ UNCHANGED <<data, left, fetch>>
      BY <1>2 DEF ReceiveAnswer
    <2> QED BY <2>1 DEF StepShape, States, Fetching, Reading
  <1>3. CASE Timeout
    <2>1. pc = "waiting" /\ pc' = "idle" /\ UNCHANGED <<request, data, left, fetch>>
      BY <1>3 DEF Timeout
    <2> QED BY <2>1 DEF StepShape, States
  <1>4. CASE CopyLabel \/ FollowPointer
    <2>1. Fetching /\ UNCHANGED <<pc, session, data, left>>
      BY <1>4 DEF CopyLabel, AtLabelByte, FollowPointer
    <2>2. request' = request /\ Fetching' /\ pc # "idle"
      BY <2>1 DEF session, Fetching
    <2> QED BY <2>1, <2>2 DEF StepShape
  <1>5. CASE ReadQuestion \/ CacheAnswers
    <2>1. /\ pc \in {"question", "cached"} /\ pc' \in {"lookup", "relay"}
          /\ UNCHANGED <<session, data, left, fetch>>
      BY <1>5 DEF ReadQuestion, CacheAnswers
    <2>2. request' = request
      BY <2>1 DEF session
    <2> QED BY <2>1, <2>2 DEF StepShape, States
  <1>6. CASE ReplyNameError \/ RelayAnswer \/ \E list \in Stored : ReplyRecords(list)
    <2>1. pc \in {"lookup", "relay"} /\ pc' = "idle" /\ UNCHANGED <<request, data, left, fetch>>
      BY <1>6 DEF ReplyNameError, RelayAnswer, ReplyRecords
    <2> QED BY <2>1 DEF StepShape, States
  <1>7. CASE \E id \in NewIds : Forward(id)
    <2>1. pc = "lookup" /\ pc' = "waiting" /\ UNCHANGED <<request, data, left, fetch>>
      BY <1>7 DEF Forward
    <2> QED BY <2>1 DEF StepShape, States
  <1>8. CASE ReadAnswer
    <2>1. /\ pc = "owner" /\ left' = left - 1 /\ UNCHANGED session
          /\ \/ pc' \in {"owner", "cached"}
             \/ pc' = "relay" /\ UNCHANGED fetch
      BY <1>8 DEF ReadAnswer
    <2>2. request' = request
      BY <2>1 DEF session
    <2> QED BY <2>1, <2>2 DEF StepShape, States, Fetching, Reading
  <1>9. CASE Overrun
    <2>1. request' = request
      BY <1>9, OverrunShape DEF session
    <2> QED BY <1>9, <2>1, OverrunShape DEF StepShape, States
  <1>10. CASE Undefined
    <2>1. pc = "overrun" /\ UNCHANGED <<pc, request, data, left, fetch>>
      BY <1>10 DEF Undefined, vars, session
    <2> QED BY <2>1 DEF StepShape, States
  <1> QED BY <1>1, <1>2, <1>3, <1>4, <1>5, <1>6, <1>7, <1>8, <1>9, <1>10 DEF Next, Code, Overrun

\* A request arrives whole.
RequestWhole == pc # "idle" => Len(Encode(request)) <= MAX_DNS_SIZE

LEMMA RequestWholeHolds == Spec => [](pc \in States /\ RequestWhole)
  <1>1. Init => pc \in States /\ RequestWhole
    BY DEF Init, States, RequestWhole
  <1>2. pc \in States /\ RequestWhole /\ [Next]_vars => (pc \in States /\ RequestWhole)'
    <2> SUFFICES ASSUME pc \in States, RequestWhole, [Next]_vars
                 PROVE  (pc \in States /\ RequestWhole)'
      OBVIOUS
    <2>1. CASE Next
      <3>1. StepShape
        BY <2>1, StepsHaveShape
      <3>2. CASE \E m \in Requests : Accept(m, Encode(m))
        <4>1. PICK m \in Requests : request' = m
          BY <3>2 DEF Accept
        <4>2. Len(Encode(m)) <= MAX_DNS_SIZE
          BY MessageAssumption
        <4> QED BY <3>1, <4>1, <4>2 DEF StepShape, RequestWhole
      <3>3. CASE pc # "idle" /\ request' = request
        BY <3>1, <3>3 DEF StepShape, RequestWhole
      <3> QED BY <3>1, <3>2, <3>3 DEF StepShape
    <2>2. CASE UNCHANGED vars
      BY <2>2 DEF vars, session, RequestWhole
    <2> QED BY <2>1, <2>2
  <1> QED BY <1>1, <1>2, PTL DEF Spec

\* So does the buffer hold no more than MAX_DNS_SIZE bytes of it.
LEMMA BufferFits ==
    ASSUME Inv, RequestWhole, pc \in {"question", "lookup"}
    PROVE  Len(buf) \in Nat /\ Len(buf) <= 520
  <1>1. /\ request \in Bare
        /\ MessageOf(buf, request.id, Held.flags, 0, request.opt, Rest(request))
    BY BufferOfRequest
  <1>2. MessageOf(Encode(request), request.id, request.flags, 0, request.opt, Rest(request))
    BY <1>1, EncodeBare
  <1>3. Len(buf) = Len(Encode(request)) /\ buf \in Seq(Nat)
    BY <1>1, <1>2 DEF MessageOf, GoesOn
  <1>4. Len(Encode(request)) <= 520
    BY DEF RequestWhole, MAX_DNS_SIZE
  <1> QED BY <1>3, <1>4

FetchTyped == /\ at \in Words /\ mark \in Words /\ next \in Words \cup {Unset} /\ dest \in Bytes

LEMMA FetchSmall ==
    ASSUME OwnersCompressed, Inv, AnswerInv, RequestWhole, Fetching
    PROVE  FetchTyped
  <1>0. \A n \in 0..520 : n \in Words
    BY WordType
  <1>1. CASE pc = "owner"
    <2>1. Arrived(answer) /\ Current \in 1..Len(answer.answers)
      BY <1>1, AnswerHeld, CurrentRecord
    <2>2. Walk(answer, Current, at, next, mark, dest)
      BY <1>1 DEF AnswerInv, ReadsRecords
    <2>3. /\ at \in 0..520 /\ mark \in 0..520 /\ (next = Unset \/ next \in 0..520) /\ dest \in Bytes
      BY <2>1, <2>2, WalkSize
    <2> QED BY <1>0, <2>3 DEF FetchTyped
  <1>2. CASE pc \in {"question", "cached"}
    <2>1. /\ next = Unset /\ mark = 0 /\ at \in Nat
          /\ \E k \in 0..Len(request.qname) :
                 dest = SpeltUpto(request.qname, k) /\ (AtLabel(k) \/ AtEnd(k))
      BY <1>2, QuestionPlaces, AgainPlaces
    <2>2. PICK k \in 0..Len(request.qname) :
              dest = SpeltUpto(request.qname, k) /\ (AtLabel(k) \/ AtEnd(k))
      BY <2>1
    <2>3. request.qname \in Seq(DnsLabel)
      BY DEF Inv, RequestMeant, Bare
    <2>4. dest \in Bytes
      BY <2>2, <2>3, SpeltSteps DEF Bytes
    <2>5. Len(buf) \in Nat /\ Len(buf) <= 520
      BY <1>2, BufferFits, AnswerHeld
    <2>6. at < Len(buf)
      <3>1. CASE AtLabel(k)
        <4>1. PICK l, r : LabelAt(buf, at, l, r)
          BY <3>1 DEF AtLabel
        <4> QED BY <2>1, <2>5, <4>1 DEF LabelAt
      <3>2. CASE AtEnd(k)
        BY <3>2 DEF AtEnd
      <3> QED BY <2>2, <3>1, <3>2
    <2>7. at \in 0..520 /\ mark \in 0..520
      BY <2>1, <2>5, <2>6
    <2> QED BY <1>0, <2>1, <2>4, <2>7 DEF FetchTyped
  <1> QED BY <1>1, <1>2 DEF Fetching

\* Where the records start fits.
LEMMA DataSmall ==
    ASSUME Inv, AnswerInv, Reading
    PROVE  data \in Words
  <1>1. PICK m : m = answer
    OBVIOUS
  <1>2. PICK len \in Nat : len = Len(m.answers)
    BY <1>1, AnswerHeld DEF Reading
  <1>3. Arrived(m)
    BY <1>1, AnswerHeld DEF Reading
  <1>4. data = 0 \/ \E k \in 1..(len + 1) : data = Start(m)[k]
    <2>1. len + 1 \in 1..(len + 1)
      OBVIOUS
    <2>2. CASE pc = "owner"
      <3>1. Current \in 1..len /\ data = Start(m)[Current]
        BY <1>1, <1>2, <2>2, CurrentRecord DEF AnswerInv, ReadsRecords
      <3>2. Current \in 1..(len + 1)
        BY <3>1
      <3> QED BY <3>1, <3>2
    <2>3. CASE pc \in {"cached", "relay"}
      <3>1. data = 0 \/ data = Start(m)[len + 1]
        BY <1>1, <1>2, <2>3 DEF AnswerInv, ReadsAgain, ReadToEnd, AllRead
      <3> QED BY <2>1, <3>1
    <2> QED BY <2>2, <2>3 DEF Reading
  <1>5. ASSUME NEW k \in 1..(len + 1) PROVE Start(m)[k] \in Words
    <2>1. Answered(m) /\ Len(Encode(m)) \in Nat /\ Len(Encode(m)) <= 520
      BY <1>3, ArrivedAnswered
    <2>2. Start(m)[k] \in Nat /\ Start(m)[k] <= Len(Encode(m))
      BY <1>2, <2>1, StartsGrow
    <2>3. Start(m)[k] <= 520
      BY <2>1, <2>2
    <2> QED BY <2>2, <2>3, WordType
  <1> QED BY <1>4, <1>5, SmallWords

LEMMA LeftSmall ==
    ASSUME Inv, AnswerInv, pc = "owner"
    PROVE  left \in Words /\ left >= 1
  <1>1. Arrived(answer)
    BY AnswerHeld
  <1>2. Len(answer.answers) \in Nat /\ Len(answer.answers) <= 65535
    BY <1>1, WordType DEF Arrived, Answered
  <1>3. left \in 1..Len(answer.answers)
    BY DEF AnswerInv, ReadsRecords
  <1> QED BY <1>2, <1>3, WordType

NumbersTyped == FetchTyped /\ data \in Words /\ left \in Words

LEMMA NumbersTypedHold ==
    ASSUME OwnersCompressed
    PROVE  Spec => []NumbersTyped
  <1>1. Init => NumbersTyped
    <2>1. <<>> \in Bytes
      BY DEF Bytes
    <2> QED BY <2>1, SmallWords DEF Init, NumbersTyped, FetchTyped
  <1>2. Inv /\ AnswerInv /\ RequestWhole /\ Fetching => FetchTyped
    BY FetchSmall
  <1>3. Inv /\ AnswerInv /\ Reading => data \in Words
    BY DataSmall
  <1>4. Inv /\ AnswerInv /\ pc = "owner" => left \in Words
    BY LeftSmall
  <1>5. /\ Inv /\ AnswerInv /\ pc \in States /\ NumbersTyped /\ [Next]_vars
        => /\ Fetching' \/ FetchTyped'
           /\ Reading' \/ (data \in Words)'
           /\ (pc = "owner")' \/ (left \in Words)'
    <2> SUFFICES ASSUME Inv, AnswerInv, pc \in States, NumbersTyped, [Next]_vars
                 PROVE  /\ Fetching' \/ FetchTyped'
                        /\ Reading' \/ (data \in Words)'
                        /\ (pc = "owner")' \/ (left \in Words)'
      OBVIOUS
    <2>1. CASE Next
      <3>1. StepShape
        BY <2>1, StepsHaveShape
      <3>2. Fetching' \/ FetchTyped'
        <4>1. Fetching' \/ UNCHANGED <<at, next, mark, dest>>
          BY <3>1 DEF StepShape, fetch
        <4> QED BY <4>1 DEF NumbersTyped, FetchTyped
      <3>3. Reading' \/ (data \in Words)'
        BY <3>1, SmallWords DEF StepShape, NumbersTyped
      <3>4. (pc = "owner")' \/ (left \in Words)'
        <4>1. CASE pc = "owner" /\ left' = left - 1
          <5>1. left \in Words /\ left >= 1
            BY <4>1, LeftSmall
          <5>2. left - 1 \in Words
            BY <5>1, WordType
          <5> QED BY <4>1, <5>2
        <4> QED BY <3>1, <4>1, SmallWords DEF StepShape, NumbersTyped
      <3> QED BY <3>2, <3>3, <3>4
    <2>2. CASE UNCHANGED vars
      BY <2>2 DEF vars, fetch, NumbersTyped, FetchTyped
    <2> QED BY <2>1, <2>2
  <1>6. NumbersTyped <=> FetchTyped /\ data \in Words /\ left \in Words
    BY DEF NumbersTyped
  <1> QED BY <1>1, <1>2, <1>3, <1>4, <1>5, <1>6, InvHolds, AnswerInvHolds, RequestWholeHolds, PTL
          DEF Spec

\* Every message that is received, made or sent consists of bytes.
BytesTyped ==
    /\ buf \in Bytes /\ asked \in Bytes /\ slot.message \in Bytes
    /\ \A i \in DOMAIN sent : sent[i].bytes \in Bytes

LEMMA BareIsBytes ==
    ASSUME NEW m \in Bare
    PROVE  Encode(m) \in Bytes /\ Len(Encode(m)) \in Nat /\ 12 <= Len(Encode(m))
  <1>1. Encode(m) \in Bytes /\ MessageOf(Encode(m), m.id, m.flags, 0, m.opt, Rest(m))
    BY EncodeBare
  <1>2. Len(Encode(m)) = 12 + Len(Rest(m)) /\ Len(Rest(m)) \in Nat
    BY <1>1 DEF MessageOf, GoesOn
  <1> QED BY <1>1, <1>2

LEMMA BufferHasHeader ==
    ASSUME Inv, pc \in {"lookup", "relay"}
    PROVE  Len(buf) \in Nat /\ 12 <= Len(buf)
  <1>1. CASE pc = "lookup"
    <2>1. RequestMeant /\ buf = Encode(Held)
      BY <1>1 DEF Inv, HoldsRequest
    <2> QED BY <2>1, HeldIsBare, BareIsBytes
  <1>2. CASE pc = "relay"
    <2>1. PICK m : m = answer
      OBVIOUS
    <2>2. Answered(m) /\ buf = Encode(m)
      BY <1>2, <2>1, AnswerHeld DEF Arrived
    <2>3. MessageOf(buf, m.id, m.flags, Len(m.answers), m.opt, Behind(m))
      BY <2>2, EncodeAnswered
    <2>4. Len(buf) = 12 + Len(Behind(m)) /\ Len(Behind(m)) \in Nat
      BY <2>3 DEF MessageOf, GoesOn
    <2> QED BY <2>4
  <1> QED BY <1>1, <1>2

\* A reply joins what was sent.
LEMMA SendBytes ==
    ASSUME Inv, pc # "idle", NEW e, e.bytes \in Bytes, sent' = Append(sent, e)
    PROVE  \A i \in DOMAIN sent' : sent'[i].bytes \in Bytes
  <1>1. Refused.bytes \in Bytes
    <2>1. request \in Bare
      BY DEF Inv, RequestMeant
    <2>2. PICK n \in Bare : n = [request EXCEPT !.flags = FLAG_RESPONSE_NORMAL + RCODE_REFUSED]
      BY <2>1, RespondsEncoded
    <2>3. Encode(n) \in Bytes
      BY BareIsBytes
    <2> QED BY <2>2, <2>3 DEF Refused
  <1>2. sent = <<>> \/ sent = <<Refused>>
    BY DEF Inv, SentSoFar
  <1>3. PICK s, r : s = sent /\ r = Refused
    OBVIOUS
  <1>4. \A i \in DOMAIN Append(s, e) : Append(s, e)[i] \in {r, e}
    BY <1>2, <1>3, SendJoins
  <1>5. \A x \in {r, e} : x.bytes \in Bytes
    BY <1>1, <1>3
  <1> QED BY <1>3, <1>4, <1>5

LEMMA AcceptBytes ==
    ASSUME NEW m \in Bare, Accept(m, Encode(m)), BytesTyped
    PROVE  BytesTyped'
  <1>1. PICK b : b = Encode(m)
    OBVIOUS
  <1>2. b \in Bytes /\ Len(b) \in Nat /\ 12 <= Len(b)
    BY <1>1, BareIsBytes
  <1>3. PICK r : r = Respond(b, RCODE_REFUSED)
    OBVIOUS
  <1>4. r \in Bytes
    <2>1. 4 <= Len(b)
      BY <1>2
    <2> QED BY <1>2, <1>3, <2>1, RespondBytes
  <1>5. /\ asked' = <<>> /\ slot' = slot /\ (buf' = b \/ buf' = r)
        /\ sent' = <<>> \/ sent' = <<[what |-> "refused", bytes |-> r]>>
    BY <1>1, <1>3 DEF Accept
  <1>6. \A i \in DOMAIN sent' : sent'[i].bytes \in Bytes
    <2>1. CASE sent' = <<>>
      BY <2>1
    <2>2. CASE sent' = <<[what |-> "refused", bytes |-> r]>>
      <3>1. PICK e : e = [what |-> "refused", bytes |-> r]
        OBVIOUS
      <3>2. sent' = <<e>> /\ e.bytes = r
        BY <2>2, <3>1
      <3>3. \A i \in DOMAIN sent' : sent'[i] = e
        BY <3>2
      <3> QED BY <1>4, <3>2, <3>3
    <2> QED BY <1>5, <2>1, <2>2
  <1>7. <<>> \in Bytes
    BY DEF Bytes
  <1> QED BY <1>2, <1>4, <1>5, <1>6, <1>7 DEF BytesTyped

LEMMA ReplyBytes ==
    ASSUME Inv, BytesTyped, ReplyNameError \/ RelayAnswer \/ \E list \in Stored : ReplyRecords(list)
    PROVE  BytesTyped'
  <1>1. buf' \in Bytes
    <2>1. CASE ReplyNameError
      <3>1. pc = "lookup" /\ buf' = Respond(buf, RCODE_NAME_ERROR)
        BY <2>1 DEF ReplyNameError
      <3>2. buf \in Bytes /\ Len(buf) \in Nat /\ 12 <= Len(buf)
        BY <3>1, BufferHasHeader DEF BytesTyped
      <3>3. 4 <= Len(buf)
        BY <3>2
      <3>4. Respond(buf, RCODE_NAME_ERROR) \in Bytes
        BY <3>2, <3>3, RespondBytes
      <3> QED BY <3>1, <3>4
    <2>2. CASE RelayAnswer
      <3>1. pc = "relay" /\ buf' = SetWord(buf, 0, slot.old_id)
        BY <2>2 DEF RelayAnswer, set_header_id
      <3>2. slot.old_id \in Words
        BY <3>1 DEF Inv, KnowsClient, RequestMeant, Bare
      <3>3. buf \in Bytes /\ Len(buf) \in Nat /\ 12 <= Len(buf)
        BY <3>1, BufferHasHeader DEF BytesTyped
      <3>4. 0 \in Nat /\ 0 + 2 <= Len(buf)
        BY <3>3
      <3>5. SetWord(buf, 0, slot.old_id) \in Bytes
        BY <3>2, <3>3, <3>4, SetWordBytes
      <3> QED BY <3>1, <3>5
    <2>3. CASE \E list \in Stored : ReplyRecords(list)
      <3>0. PICK list \in Stored : ReplyRecords(list)
        BY <2>3
      <3>1. /\ pc = "lookup" /\ question.qtype \in Cacheable
            /\ answers' = [i \in DOMAIN list |->
                   [name |-> CString(question.label), type |-> question.qtype,
                    class_ |-> question.qclass, ttl |-> list[i].ttl, addr |-> list[i].addr]]
            /\ buf' = write_dns_response_by_query(buf, answers')
        BY <3>0 DEF ReplyRecords, Records
      <3>2. list \in Seq(StoredRecord) /\ Len(list) \in Words
        BY MessageAssumption DEF StoredRecord
      <3>3. request.qname # <<>>
        BY <3>1 DEF Inv, RootUncached, Cacheable, RRTYPE_A, RRTYPE_AAAA
      <3>4. question = [label |-> Dotted(request.qname), qtype |-> request.qtype, qclass |-> HTTP_CLASS]
        BY <3>1, <3>3 DEF Inv, ReadsQuestion
      <3>5. /\ request \in Bare /\ MessageOf(buf, request.id, Held.flags, 0, request.opt, Rest(request))
            /\ buf \in Bytes
        BY <3>1, BufferOfRequest DEF BytesTyped
      <3>6. Dotted(request.qname) \in Bytes /\ request.qtype \in Words
        <4>1. request.qname \in Seq(DnsLabel) /\ request.qtype \in Words
          BY <3>5 DEF Bare
        <4>2. Len(request.qname) \in 0..Len(request.qname)
          BY <4>1
        <4> QED BY <4>1, <4>2, SpeltSteps DEF Bytes
      <3>7. PICK name \in Bytes : name = CString(question.label)
        BY <3>4, <3>6, StringBytes DEF CString
      <3>8. answers' = [i \in DOMAIN list |->
                   [name |-> name, type |-> request.qtype, class_ |-> HTTP_CLASS,
                    ttl |-> list[i].ttl, addr |-> list[i].addr]]
        BY <3>1, <3>4, <3>7
      <3>9. PICK m \in Bare, b \in Bytes : m = request /\ b = buf
        BY <3>5
      <3>10. PICK found, flags, opt :
                 found = answers' /\ flags = Held.flags /\ opt = request.opt
        OBVIOUS
      <3>11. write_dns_response_by_query(b, found) \in Bytes
        <4>1. MessageOf(b, m.id, flags, 0, opt, Rest(m))
          BY <3>5, <3>9, <3>10
        <4>2. m.qtype \in Words
          BY <3>6, <3>9
        <4>3. found = [i \in DOMAIN list |->
                   [name |-> name, type |-> m.qtype, class_ |-> HTTP_CLASS,
                    ttl |-> list[i].ttl, addr |-> list[i].addr]]
          BY <3>8, <3>9, <3>10
        <4> QED BY <3>2, <4>1, <4>2, <4>3, RecordsAreBytes
      <3> QED BY <3>1, <3>9, <3>10, <3>11
    <2> QED BY <2>1, <2>2, <2>3
  <1>2. /\ pc # "idle" /\ UNCHANGED <<asked, slot>>
        /\ \E what : sent' = Append(sent, [what |-> what, bytes |-> buf'])
    BY DEF ReplyNameError, RelayAnswer, ReplyRecords, Send
  <1>3. PICK e : e.bytes = buf' /\ sent' = Append(sent, e)
    BY <1>2
  <1>4. \A i \in DOMAIN sent' : sent'[i].bytes \in Bytes
    BY <1>1, <1>2, <1>3, SendBytes
  <1> QED BY <1>1, <1>2, <1>4 DEF BytesTyped

LEMMA TimeoutBytes == ASSUME Inv, BytesTyped, Timeout PROVE BytesTyped'
  <1>1. PICK d : d = slot.message
    OBVIOUS
  <1>2. d \in Bytes /\ Len(d) = 12
    BY <1>1 DEF BytesTyped, Inv, Copied
  <1>3. PICK r : r = Respond(d, RCODE_REFUSED)
    OBVIOUS
  <1>4. r \in Bytes
    <2>1. 4 <= Len(d)
      BY <1>2
    <2> QED BY <1>2, <1>3, <2>1, RespondBytes
  <1>5. PICK e : e = [what |-> "timeout", bytes |-> SubSeq(r, 1, CStringLen(r))]
    OBVIOUS
  <1>6. /\ pc # "idle" /\ UNCHANGED <<asked, buf>> /\ slot' = [slot EXCEPT !.message = r]
        /\ sent' = Append(sent, e)
    BY <1>1, <1>3, <1>5 DEF Timeout, Send
  <1>7. e.bytes \in Bytes
    <2>1. e.bytes = SubSeq(r, 1, CStringLen(r))
      BY <1>5
    <2> QED BY <1>4, <2>1, StringBytes
  <1>8. \A i \in DOMAIN sent' : sent'[i].bytes \in Bytes
    BY <1>6, <1>7, SendBytes
  <1>9. slot'.message \in Bytes
    BY <1>1, <1>2, <1>4, <1>6
  <1> QED BY <1>6, <1>8, <1>9 DEF BytesTyped

LEMMA ForwardBytes == ASSUME Inv, BytesTyped, NEW id \in NewIds, Forward(id) PROVE BytesTyped'
  <1>1. PICK b, d : b = buf /\ d = slot.message
    OBVIOUS
  <1>2. /\ pc = "lookup" /\ buf' = SetWord(b, 0, id) /\ asked' = buf' /\ sent' = sent
        /\ slot'.message = strcpy(d, b)
    BY <1>1 DEF Forward, set_header_id
  <1>3. b \in Bytes /\ d \in Bytes /\ Len(d) = 12
    BY <1>1 DEF BytesTyped, Inv, Copied
  <1>4. Len(b) \in Nat /\ 12 <= Len(b)
    BY <1>1, <1>2, BufferHasHeader
  <1>5. b[5] = 0
    <2>1. MessageOf(buf, request.id, Held.flags, 0, request.opt, Rest(request))
      BY <1>2, BufferOfRequest
    <2> QED BY <1>1, <2>1 DEF MessageOf, Starts
  <1>6. SetWord(b, 0, id) \in Bytes
    <2>1. 0 \in Nat /\ 0 + 2 <= Len(b) /\ id \in Words
      BY <1>4, NewIdIsWord
    <2> QED BY <1>3, <2>1, SetWordBytes
  <1>7. strcpy(d, b) \in Bytes
    <2>1. Len(b) >= 5
      BY <1>4
    <2> QED BY <1>3, <1>5, <2>1, CopiesBytes
  <1> QED BY <1>2, <1>6, <1>7 DEF BytesTyped

LEMMA ReceiveAnswerBytes ==
    ASSUME Inv, BytesTyped, pc = "waiting", NEW m \in Answering(request, Word(0)), ReceiveAnswer(m)
    PROVE  BytesTyped'
  <1>1. request \in Bare /\ Word(0) \in Words
    BY WordIsWord DEF Inv, RequestMeant, BytesTyped
  <1>2. Encode(m) \in Bytes
    BY <1>1, AnsweringArrives, AnswerIsBytes
  <1>3. buf' = Encode(m) /\ UNCHANGED <<asked, sent, slot>>
    BY DEF ReceiveAnswer
  <1> QED BY <1>2, <1>3 DEF BytesTyped

LEMMA BytesTypedHold == Spec => []BytesTyped
  <1>1. Init => BytesTyped
    <2> SUFFICES ASSUME Init PROVE BytesTyped
      OBVIOUS
    <2>1. <<>> \in Bytes /\ 0 \in Octets
      BY OctetType DEF Bytes
    <2>2. slot.message \in Bytes
      <3>1. PICK n \in Nat : n = DNS_HEADER_SIZE
        BY DEF DNS_HEADER_SIZE
      <3>2. slot.message = [i \in 1..n |-> 0]
        BY <3>1 DEF Init
      <3>3. [i \in 1..n |-> 0] \in Seq(Octets)
        BY <2>1
      <3> QED BY <3>2, <3>3 DEF Bytes
    <2> QED BY <2>1, <2>2 DEF Init, BytesTyped
  <1>2. Inv /\ BytesTyped /\ [Next]_vars => BytesTyped'
    <2> SUFFICES ASSUME Inv, BytesTyped, [Next]_vars PROVE BytesTyped'
      OBVIOUS
    <2>1. CASE \E m \in Requests : ReceiveRequest(m) \/ ReceiveOwnQuery(m)
      <3>1. PICK m \in Requests : ReceiveRequest(m) \/ ReceiveOwnQuery(m)
        BY <2>1
      <3>2. m \in Bare
        BY MessageAssumption DEF Bare
      <3>3. Accept(m, Encode(m))
        BY <3>1, <3>2, OwnQuery DEF ReceiveRequest, ReceiveOwnQuery
      <3> QED BY <3>2, <3>3, AcceptBytes
    <2>2. CASE pc = "waiting" /\ \E m \in Answering(request, Word(0)) : ReceiveAnswer(m)
      BY <2>2, ReceiveAnswerBytes
    <2>3. CASE Timeout
      BY <2>3, TimeoutBytes
    <2>4. CASE ReplyNameError \/ RelayAnswer \/ \E list \in Stored : ReplyRecords(list)
      BY <2>4, ReplyBytes
    <2>5. CASE \E id \in NewIds : Forward(id)
      BY <2>5, ForwardBytes
    <2>6. CASE \/ CopyLabel \/ FollowPointer \/ ReadQuestion \/ ReadAnswer \/ CacheAnswers
               \/ Overrun \/ UNCHANGED vars
      <3>1. UNCHANGED <<session, buf, slot>>
        BY <2>6, OverrunShape
           DEF CopyLabel, FollowPointer, ReadQuestion, ReadAnswer, CacheAnswers, vars
      <3> QED BY <3>1 DEF session, BytesTyped
    <2> QED BY <2>1, <2>2, <2>3, <2>4, <2>5, <2>6 DEF Next, Code, Overrun, Undefined
  <1> QED BY <1>1, <1>2, InvHolds, PTL DEF Spec

\* What is read into the question, the slot and the list of addresses.
QuestionTyped == question.qtype \in Words /\ question.label \in Bytes
SlotTyped == slot.old_id \in Words /\ slot.type \in Octets
Listed == \E S : answers \in Seq(S) /\ \A x \in S : x.type \in Cacheable

LEMMA TextIsBytes ==
    ASSUME NumbersTyped, NEW old \in Bytes
    PROVE  Text(old) \in Bytes
  <1>1. dest \in Seq(Octets)
    BY DEF NumbersTyped, FetchTyped, Bytes
  <1>2. CASE dest = <<>>
    BY <1>2 DEF Text
  <1>3. CASE dest # <<>>
    <2>1. PICK n \in Nat : n = Len(dest) - 1 /\ n <= Len(dest)
      <3>1. Len(dest) \in Nat /\ Len(dest) # 0
        BY <1>1, <1>3
      <3>2. Len(dest) - 1 \in Nat /\ Len(dest) - 1 <= Len(dest)
        BY <3>1
      <3> QED BY <3>2
    <2>2. SubSeq(dest, 1, n) \in Seq(Octets)
      BY <1>1, <2>1, Prefix
    <2>3. Text(old) = SubSeq(dest, 1, n)
      BY <1>3, <2>1 DEF Text, Front
    <2> QED BY <2>2, <2>3 DEF Bytes
  <1> QED BY <1>2, <1>3

LEMMA QuestionTypedNext ==
    ASSUME NumbersTyped, BytesTyped, QuestionTyped, [Next]_vars
    PROVE  QuestionTyped'
  <1>1. EndPos \in Nat
    <2>1. at \in Words /\ next \in Words \cup {Unset}
      BY DEF NumbersTyped, FetchTyped
    <2>2. EndPos \in Words
      BY <2>1 DEF EndPos
    <2> QED BY <2>2, WordType
  <1>2. buf \in Bytes /\ Text(question.label) \in Bytes
    BY TextIsBytes DEF BytesTyped, QuestionTyped
  <1>3. CASE ReadQuestion
    <2>1. PICK q : q = 12 + NameLength
      OBVIOUS
    <2>2. question' = [label |-> Text(question.label), qtype |-> Word(q), qclass |-> Word(q + 2)]
      BY <1>3, <2>1 DEF ReadQuestion, DNS_HEADER_SIZE
    <2>3. q \in Nat
      <3>1. PICK e \in Nat : e = EndPos
        BY <1>1
      <3>2. NameLength = -1 \/ NameLength = e - 12 + 1
        BY <3>1 DEF NameLength, DNS_HEADER_SIZE
      <3>3. 12 + (-1) \in Nat /\ 12 + (e - 12 + 1) \in Nat
        OBVIOUS
      <3> QED BY <2>1, <3>2, <3>3
    <2>4. Word(q) \in Words
      BY <1>2, <2>3, WordIsWord
    <2> QED BY <1>2, <2>2, <2>4 DEF QuestionTyped
  <1>4. CASE CacheAnswers
    <2>1. question' = [label |-> Text(question.label), qtype |-> Word(EndPos), qclass |-> Word(EndPos + 2)]
      BY <1>4 DEF CacheAnswers
    <2>2. Word(EndPos) \in Words
      BY <1>1, <1>2, WordIsWord
    <2> QED BY <1>2, <2>1, <2>2 DEF QuestionTyped
  <1>5. CASE question' = question
    BY <1>5 DEF QuestionTyped
  <1>6. CASE \E m \in Requests : ReceiveRequest(m) \/ ReceiveOwnQuery(m)
    BY <1>5, <1>6 DEF ReceiveRequest, ReceiveOwnQuery, Accept
  <1>7. CASE \E m \in Answering(request, Word(0)) : ReceiveAnswer(m)
    BY <1>5, <1>7 DEF ReceiveAnswer
  <1>8. CASE \/ Timeout \/ CopyLabel \/ FollowPointer \/ ReplyNameError \/ RelayAnswer \/ ReadAnswer
             \/ Overrun \/ UNCHANGED vars
    BY <1>5, <1>8, OverrunShape
       DEF Timeout, CopyLabel, FollowPointer, ReplyNameError, RelayAnswer, ReadAnswer, vars
  <1>9. CASE (\E list \in Stored : ReplyRecords(list)) \/ \E id \in NewIds : Forward(id)
    BY <1>5, <1>9 DEF ReplyRecords, Forward
  <1> QED BY <1>3, <1>4, <1>6, <1>7, <1>8, <1>9 DEF Next, Code, Overrun, Undefined

LEMMA SlotTypedNext ==
    ASSUME BytesTyped, QuestionTyped, SlotTyped, [Next]_vars
    PROVE  SlotTyped'
  <1>1. CASE \E id \in NewIds : Forward(id)
    <2>1. slot'.old_id = Word(0) /\ slot'.type = SlotType
      BY <1>1 DEF Forward
    <2>2. Word(0) \in Words
      BY WordIsWord DEF BytesTyped
    <2>3. SlotType \in Octets
      <3>1. SlotType = Lo(question.qtype)
        BY DEF SlotType, Lo
      <3> QED BY <3>1, Halves DEF QuestionTyped
    <2> QED BY <2>1, <2>2, <2>3 DEF SlotTyped
  <1>2. CASE Timeout
    <2>1. PICK r : slot' = [slot EXCEPT !.message = r]
      BY <1>2 DEF Timeout
    <2>2. slot'.old_id = slot.old_id /\ slot'.type = slot.type
      BY <2>1
    <2> QED BY <2>2 DEF SlotTyped
  <1>3. CASE slot' = slot
    BY <1>3 DEF SlotTyped
  <1>4. CASE \E m \in Requests : ReceiveRequest(m) \/ ReceiveOwnQuery(m)
    BY <1>3, <1>4 DEF ReceiveRequest, ReceiveOwnQuery, Accept
  <1>5. CASE \E m \in Answering(request, Word(0)) : ReceiveAnswer(m)
    BY <1>3, <1>5 DEF ReceiveAnswer
  <1>6. CASE \/ CopyLabel \/ FollowPointer \/ ReplyNameError \/ RelayAnswer \/ ReadAnswer
             \/ ReadQuestion \/ CacheAnswers \/ Overrun \/ UNCHANGED vars
    BY <1>3, <1>6, OverrunShape
       DEF CopyLabel, FollowPointer, ReplyNameError, RelayAnswer, ReadAnswer, ReadQuestion,
           CacheAnswers, vars
  <1>7. CASE \E list \in Stored : ReplyRecords(list)
    BY <1>3, <1>7 DEF ReplyRecords
  <1> QED BY <1>1, <1>2, <1>4, <1>5, <1>6, <1>7 DEF Next, Code, Overrun, Undefined

LEMMA ListedNext ==
    ASSUME Listed, [Next]_vars
    PROVE  Listed'
  <1>1. CASE answers' = <<>>
    <2>1. <<>> \in Seq({})
      OBVIOUS
    <2> QED BY <1>1, <2>1 DEF Listed
  <1>2. CASE answers' = answers
    BY <1>2 DEF Listed
  <1>3. CASE \E list \in Stored : ReplyRecords(list) \/ RecordsOverrun(list)
    <2>1. PICK list \in Stored : ReplyRecords(list) \/ RecordsOverrun(list)
      BY <1>3
    <2>2. PICK n \in Nat : n = Len(list) /\ DOMAIN list = 1..n
      BY MessageAssumption
    <2> DEFINE E(i) == [name |-> CString(question.label), type |-> question.qtype,
                        class_ |-> question.qclass, ttl |-> list[i].ttl, addr |-> list[i].addr]
               S == {E(i) : i \in 1..n}
    <2>3. question.qtype \in Cacheable /\ answers' = [i \in 1..n |-> E(i)]
      BY <2>1, <2>2 DEF ReplyRecords, RecordsOverrun, Records
    <2>4. \A x \in S : x.type = question.qtype
      OBVIOUS
    <2>5. \A i \in 1..n : E(i) \in S
      OBVIOUS
    <2> HIDE DEF E, S
    <2>6. [i \in 1..n |-> E(i)] \in Seq(S)
      BY <2>5
    <2> QED BY <2>3, <2>4, <2>6 DEF Listed
  <1>4. CASE ReadAnswer
    <2>1. PICK read : /\ answers' = answers \/ (IsGood(read.type) /\ answers' = Append(answers, read))
      <3>1. PICK read : read =
                [name |-> Text(<<>>), type |-> Word(EndPos), class_ |-> Word(EndPos + 2),
                 ttl |-> Long(EndPos + 4),
                 addr |-> [j \in 1..Word(EndPos + 8) |-> Byte(EndPos + ANSWER_SIZE + j - 1)]]
        OBVIOUS
      <3>2. read.type = Word(EndPos)
        BY <3>1
      <3>3. answers' = IF Fetched >= 0 /\ IsGood(Word(EndPos)) THEN Append(answers, read) ELSE answers
        BY <1>4, <3>1 DEF ReadAnswer
      <3> QED BY <3>2, <3>3
    <2>2. CASE IsGood(read.type) /\ answers' = Append(answers, read)
      <3>1. PICK S : answers \in Seq(S) /\ \A x \in S : x.type \in Cacheable
        BY DEF Listed
      <3>2. PICK T : T = S \cup {read}
        OBVIOUS
      <3>3. \A x \in T : x.type \in Cacheable
        BY <2>2, <3>1, <3>2 DEF IsGood
      <3>4. answers \in Seq(T) /\ read \in T
        BY <3>1, <3>2
      <3>5. Append(answers, read) \in Seq(T)
        BY <3>4, Appended
      <3> QED BY <2>2, <3>3, <3>5 DEF Listed
    <2> QED BY <1>2, <2>1, <2>2
  <1>5. CASE \E m \in Requests : ReceiveRequest(m) \/ ReceiveOwnQuery(m)
    BY <1>1, <1>5 DEF ReceiveRequest, ReceiveOwnQuery, Accept
  <1>6. CASE \E m \in Answering(request, Word(0)) : ReceiveAnswer(m)
    BY <1>1, <1>6 DEF ReceiveAnswer
  <1>7. CASE \/ CopyLabel \/ FollowPointer \/ ReplyNameError \/ RelayAnswer \/ Timeout
             \/ ReadQuestion \/ CacheAnswers \/ LabelOverruns \/ AddressesOverrun \/ UNCHANGED vars
    BY <1>2, <1>7 DEF CopyLabel, FollowPointer, ReplyNameError, RelayAnswer, Timeout,
                      ReadQuestion, CacheAnswers, LabelOverruns, AddressesOverrun, vars
  <1>8. CASE \E id \in NewIds : Forward(id)
    BY <1>2, <1>8 DEF Forward
  <1> QED BY <1>3, <1>4, <1>5, <1>6, <1>7, <1>8 DEF Next, Code, Undefined

\* The state is of its type: all that is kept of a message are bytes, every offset
\* and count fits 16 bits, the slot's type fits its byte and its copy of the header
\* keeps its length, and only addresses are listed.
THEOREM StateIsTyped == OwnersCompressed => (Spec => []TypeOK)
  <1> SUFFICES ASSUME OwnersCompressed PROVE Spec => []TypeOK
    OBVIOUS
  <1>1. Init => QuestionTyped /\ SlotTyped /\ Listed
    <2> SUFFICES ASSUME Init PROVE QuestionTyped /\ SlotTyped /\ Listed
      OBVIOUS
    <2>1. 0 \in Words /\ 0 \in Octets /\ <<>> \in Bytes /\ <<>> \in Seq({})
      BY SmallWords, OctetType DEF Bytes
    <2>2. answers = <<>> /\ \A x \in {} : x.type \in Cacheable
      BY DEF Init
    <2> QED BY <2>1, <2>2 DEF Init, QuestionTyped, SlotTyped, Listed
  <1>2. /\ NumbersTyped /\ BytesTyped /\ QuestionTyped /\ SlotTyped /\ Listed /\ [Next]_vars
        => (QuestionTyped /\ SlotTyped /\ Listed)'
    BY QuestionTypedNext, SlotTypedNext, ListedNext
  <1>3. /\ pc \in States /\ Inv /\ NumbersTyped /\ BytesTyped /\ QuestionTyped /\ SlotTyped /\ Listed
        => TypeOK
    <2> SUFFICES ASSUME pc \in States, Inv, NumbersTyped, BytesTyped, QuestionTyped, SlotTyped, Listed
                 PROVE  TypeOK
      OBVIOUS
    <2>1. Len(slot.message) = DNS_HEADER_SIZE
      BY DEF Inv, Copied, DNS_HEADER_SIZE
    <2>2. \A i \in DOMAIN answers : answers[i].type \in Cacheable
      BY DEF Listed
    <2>3. {data, left, at, mark, slot.old_id, question.qtype} \subseteq Words
      BY DEF NumbersTyped, FetchTyped, QuestionTyped, SlotTyped
    <2> QED BY <2>1, <2>2, <2>3
            DEF TypeOK, States, NumbersTyped, FetchTyped, BytesTyped, QuestionTyped, SlotTyped
  <1> QED BY <1>1, <1>2, <1>3, InvHolds, RequestWholeHolds, NumbersTypedHold, BytesTypedHold, PTL
          DEF Spec

=============================================================================
