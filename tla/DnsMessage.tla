----------------------------- MODULE DnsMessage -----------------------------
(***************************************************************************)
(* The DNS messages of the relay, byte by byte: how src/src/common.c reads *)
(* names, questions and answers and writes questions, answers and headers, *)
(* and what src/src/main.c does with the bytes of one request from its     *)
(* arrival to its reply.  Relay models how requests interleave; here one   *)
(* request is handled at a time, and what it leaves behind in the buffers  *)
(* (question.label, the slot's message) is there for the next.             *)
(*                                                                         *)
(* A message is the sequence of its bytes; the byte at the code's offset p *)
(* is buf[p + 1].  A name is a sequence of labels, a label a sequence of   *)
(* bytes.  What is looked up in the caches is left open: any of the        *)
(* replies the code can give may be given.                                 *)
(*                                                                         *)
(* The code checks none of its writes against the array it writes to.      *)
(* Where one would go past the end, the behaviour is undefined, and pc     *)
(* goes to "overrun" for good.                                             *)
(***************************************************************************)
EXTENDS Integers, SequencesExt

CONSTANTS
    Requests,       \* messages clients send: see MessageAssumption
    Sections,       \* answer sections upstream may answer with
    Stored,         \* lists of [ttl, addr] a static or record cache may hold
    NewIds,         \* slot numbers IDAdapter_push may return
    MAX_NAME_LENGTH,    \* question.label and answer.name (256)
    ANS_SIZE,           \* ans (20)
    TMP_ANS_SIZE,       \* tmp_ans_data (10)
    RECV_SIZE           \* recv_buffer (1024)

FLAG_QUERY == 256               \* 0x0100
FLAG_RESPONSE_NORMAL == 32768   \* 0x8000
DNS_HEADER_SIZE == 12
QUESTION_SIZE == 4              \* sizeof(struct question_struct)
ANSWER_SIZE == 10               \* sizeof(struct answer_struct)
COMPRESS_FLAG == 192            \* 0xc0
RRTYPE_A == 1
RRTYPE_CNAME == 5
RRTYPE_AAAA == 28
Cacheable == {RRTYPE_A, RRTYPE_AAAA}
HTTP_CLASS == 1
RCODE_NAME_ERROR == 3
RCODE_REFUSED == 5
Dot == 46
MAX_DNS_SIZE == 520
IDAadpter_SIZE == 1024

-----------------------------------------------------------------------------
Octets == 0..255
MaxWord == 65535
Words == 0..MaxWord
Bytes == Seq(Octets)

\* A label on the wire: its length fits beside COMPRESS_FLAG.
DnsLabel == {l \in Bytes : 1 <= Len(l) /\ Len(l) <= 63 /\ \A i \in 1..Len(l) : l[i] # Dot}

(***************************************************************************)
(* The format, as the programs at the other ends of the sockets write it.  *)
(* An encoded name is [labels, at, drop]: labels in full, then either the  *)
(* end (at = Plain) or a pointer to a name that occurs before, past its    *)
(* first drop labels: the question's (at = 0) or the target of answer at.  *)
(***************************************************************************)
Plain == -1

U16(n) == <<n \div 256, n % 256>>
U32(n) == U16(n \div 65536) \o U16(n % 65536)

LabelBytes(labels) == FlattenSeq([i \in DOMAIN labels |-> <<Len(labels[i])>> \o labels[i]])

Header(id, flags, an, ad) == U16(id) \o U16(flags) \o U16(1) \o U16(an) \o U16(0) \o U16(ad)
QuestionBytes(m) == LabelBytes(m.qname) \o <<0>> \o U16(m.qtype) \o U16(HTTP_CLASS)

NameLen(n) == Len(LabelBytes(n.labels)) + (IF n.at = Plain THEN 1 ELSE 2)
RdataLen(r) == IF r.type = RRTYPE_CNAME THEN NameLen(r.target) ELSE Len(r.addr)

\* Start(m)[i] is the offset of answer i, and for the last i that of the end.
Start(m) ==
    LET start[i \in 1..(Len(m.answers) + 1)] ==
            IF i = 1 THEN DNS_HEADER_SIZE + Len(QuestionBytes(m))
            ELSE start[i - 1] + NameLen(m.answers[i - 1].owner) + ANSWER_SIZE
                              + RdataLen(m.answers[i - 1])
    IN  start

LabelsAt(m, k) == IF k = 0 THEN m.qname ELSE m.answers[k].target.labels
OffsetAt(m, k) == IF k = 0 THEN DNS_HEADER_SIZE
                  ELSE Start(m)[k] + NameLen(m.answers[k].owner) + ANSWER_SIZE

NameBytes(m, n) ==
    LabelBytes(n.labels) \o
    (IF n.at = Plain THEN <<0>>
     ELSE U16(256 * COMPRESS_FLAG + OffsetAt(m, n.at)
                 + Len(LabelBytes(SubSeq(LabelsAt(m, n.at), 1, n.drop)))))

AnswerBytes(m, r) ==
    NameBytes(m, r.owner) \o U16(r.type) \o U16(HTTP_CLASS) \o U32(r.ttl) \o U16(RdataLen(r))
    \o (IF r.type = RRTYPE_CNAME THEN NameBytes(m, r.target) ELSE r.addr)

\* An OPT record, the additional section of a client that speaks EDNS.
OptBytes == <<0, 0, 41, 4, 208, 0, 0, 0, 0, 0, 0>>

Encode(m) ==
    Header(m.id, m.flags, Len(m.answers), m.opt) \o QuestionBytes(m)
    \o FlattenSeq([i \in DOMAIN m.answers |-> AnswerBytes(m, m.answers[i])])
    \o (IF m.opt = 1 THEN OptBytes ELSE <<>>)

\* The names that can be pointed at, resolved in order: a pointer points back.
Targets(m) ==
    LET target[k \in 0..Len(m.answers)] ==
            IF k = 0 THEN m.qname
            ELSE LET t == m.answers[k].target
                 IN  t.labels \o (IF t.at \in 0..(k - 1)
                                  THEN SubSeq(target[t.at], t.drop + 1, Len(target[t.at]))
                                  ELSE <<>>)
    IN  target

\* What an encoded name means.
Meaning(m, n) ==
    n.labels \o (IF n.at = Plain THEN <<>>
                 ELSE SubSeq(Targets(m)[n.at], n.drop + 1, Len(Targets(m)[n.at])))

\* The text of a name, as the caches and the relay keep it.
Dotted(labels) ==
    FlattenSeq([i \in DOMAIN labels |-> IF i = 1 THEN labels[i] ELSE <<Dot>> \o labels[i]])

\* The answers a section may give a request: pointers point at what is there.
Refers(m, n, k) ==
    n.at # Plain => /\ n.at \in 0..(k - 1) /\ n.drop < Len(LabelsAt(m, n.at))
                    /\ n.at # 0 => m.answers[n.at].type = RRTYPE_CNAME

AddrSize(type) == IF type = RRTYPE_A THEN 4 ELSE 16

AnswerOf(req, id, s) == [req EXCEPT !.id = id, !.flags = 33152, !.answers = s]
Suits(req, m) ==
    /\ \A k \in DOMAIN m.answers :
           /\ m.answers[k].type \in Cacheable =>
                  m.answers[k].type = req.qtype /\ Len(m.answers[k].addr) = AddrSize(req.qtype)
           /\ Refers(m, m.answers[k].owner, k)
           /\ m.answers[k].type = RRTYPE_CNAME => Refers(m, m.answers[k].target, k)
    /\ Len(Encode(m)) <= MAX_DNS_SIZE

Answering(req, id) == {m \in {AnswerOf(req, id, s) : s \in Sections} : Suits(req, m)}

\* A ttl on the wire has 31 bits; the caches hand out an int.
MaxTtl == 2147483647
Ttl == 0..MaxTtl
StoredTtl == (-MaxTtl - 1)..MaxTtl

EncodedName == [labels : Seq(DnsLabel), at : Nat \cup {Plain}, drop : Nat]
Record == [owner : EncodedName, type : Words, ttl : Ttl, addr : Bytes, target : EncodedName]

\* Requests and answers arrive whole: recvfrom takes MAX_DNS_SIZE bytes.
ASSUME MessageAssumption ==
    /\ Requests \subseteq [id : Words, flags : Words, qname : Seq(DnsLabel), qtype : Words,
                           opt : {0, 1}, answers : {<<>>}]
    /\ \A m \in Requests : Len(Encode(m)) <= MAX_DNS_SIZE
    /\ \A s \in Sections : s \in Seq(Record) /\ Len(s) \in Words
    /\ \A list \in Stored :
           list \in Seq([ttl : StoredTtl, addr : [1..16 -> Octets]]) /\ Len(list) \in Words \ {0}
    /\ NewIds \subseteq 0..(IDAadpter_SIZE - 1)
    /\ MAX_NAME_LENGTH \in 1..MAX_DNS_SIZE
    /\ {ANS_SIZE, TMP_ANS_SIZE, RECV_SIZE} \subseteq Nat \ {0}

-----------------------------------------------------------------------------
(***************************************************************************)
(* Writing.                                                                *)
(***************************************************************************)
\* strlen; the string in an array; and strcpy into a buffer whose tail keeps
\* what it held.
CStringLen(s) == SelectInSeq(Append(s, 0), LAMBDA c : c = 0) - 1
CString(s) == SubSeq(s, 1, CStringLen(s))
strcpy(dest, src) ==
    LET n == CStringLen(src)
    IN  SubSeq(src, 1, n) \o <<0>> \o SubSeq(dest, n + 2, Len(dest))

\* A host is shorter than maxlen, as MAX_NAME_LENGTH <= MAX_DNS_SIZE.  After i
\* characters, `done' holds the labels before the last dot and `label' what was
\* read since; a label's length is written to a byte.
str_to_label(host) ==
    LET n == CStringLen(host)
        read[i \in 0..n] ==
            IF i = 0 THEN [done |-> <<>>, label |-> <<>>]
            ELSE IF host[i] = Dot
            THEN [done |-> read[i - 1].done \o <<Len(read[i - 1].label) % 256>> \o read[i - 1].label,
                  label |-> <<>>]
            ELSE [done |-> read[i - 1].done, label |-> Append(read[i - 1].label, host[i])]
    IN  read[n].done \o <<Len(read[n].label) % 256>> \o read[n].label \o <<0>>

\* write_query_header: nothing is known of the id but that it is 16 bits.
write_dns_header(id, flags, qdcount) ==
    U16(id) \o U16(flags) \o U16(qdcount) \o U16(0) \o U16(0) \o U16(0)

write_dns_question(question, class, type) == str_to_label(question) \o U16(type) \o U16(class)

write_dns_query(id, question, type) ==
    write_dns_header(id, FLAG_QUERY, 1) \o write_dns_question(question, HTTP_CLASS, type)

\* rdata holds 16 bytes, of which an A record uses 4.  A ttl below zero is
\* outside IN_32b_RANGE.
write_dns_answer(name, type, class, ttl, rdata) ==
    str_to_label(name) \o U16(type) \o U16(class) \o U32(IF ttl >= 0 THEN ttl ELSE 0)
    \o U16(AddrSize(type)) \o SubSeq(rdata, 1, AddrSize(type))

\* The offset of the zero byte that ends the labels from p on; every message
\* that is skipped has one.
SkipLabels(b, p) ==
    LET skip[q \in Nat] == IF q >= Len(b) \/ b[q + 1] = 0 THEN q ELSE skip[q + b[q + 1] + 1]
    IN  skip[p]

\* Mutant: the zero byte is forgotten.
skip_to_answerMutant(b) == SkipLabels(b, DNS_HEADER_SIZE) + QUESTION_SIZE
skip_to_answer(b) == SkipLabels(b, DNS_HEADER_SIZE) + 1 + QUESTION_SIZE

SetWord(b, p, w) == [b EXCEPT ![p + 1] = w \div 256, ![p + 2] = w % 256]
\* Mutant: without htons.
set_header_idMutant(b, id) == SetWord(b, 0, 256 * (id % 256) + id \div 256)
set_header_id(b, id) == SetWord(b, 0, id)
set_header_flag(b, flags) == SetWord(b, 2, flags)
set_header_rcode(b, rcode) == [b EXCEPT ![4] = 16 * (@ \div 16) + rcode]

\* set_header_flag and set_header_rcode_(refused|name_error), always together.
\* Mutant: the other way round.
RespondMutant(b, rcode) == set_header_flag(set_header_rcode(b, rcode), FLAG_RESPONSE_NORMAL)
Respond(b, rcode) == set_header_rcode(set_header_flag(b, FLAG_RESPONSE_NORMAL), rcode)

write_dns_response_by_query(b, answers) ==
    LET h == SetWord(set_header_flag(b, FLAG_RESPONSE_NORMAL), 6, Len(answers))
    IN  SubSeq(h, 1, skip_to_answer(h))
        \o FlattenSeq([i \in DOMAIN answers |->
               write_dns_answer(answers[i].name, answers[i].type, answers[i].class_,
                                answers[i].ttl, answers[i].addr)])

-----------------------------------------------------------------------------
VARIABLES
    pc,
    request, answer,    \* the messages meant by the client and by upstream
    buf,        \* recv_buffer, as far as it was received or written
    data, left, \* read_dns_answers: where the next answer starts, how many to read
    at,         \* fetch_label: src + now
    next,       \* fetch_label: *next, or Unset
    mark, dest, \* fetch_label: where this call's part of dest starts; dest so far
    answers,    \* ans[0..cnt-1]
    question,   \* label, qtype, qclass; the label outlives a request
    slot,       \* old_id, type and message of the request's IDAdapter slot
    asked,      \* the datagram sent upstream
    sent        \* datagrams sent to the client: [what, bytes]

fetch == <<at, next, mark, dest>>
session == <<request, answer, asked, sent>>
vars == <<pc, session, buf, data, left, fetch, answers, question, slot>>

Unset == -1
Nothing == [id |-> 0, flags |-> 0, qname |-> <<>>, qtype |-> 0, opt |-> 0, answers |-> <<>>]
Fetching == pc \in {"question", "owner", "cached"}

Init ==
    /\ pc = "idle"
    /\ request = Nothing /\ answer = Nothing /\ asked = <<>> /\ sent = <<>>
    /\ buf = <<>> /\ data = 0 /\ left = 0
    /\ at = 0 /\ next = Unset /\ mark = 0 /\ dest = <<>>
    /\ answers = <<>>
    /\ question = [label |-> <<>>, qtype |-> 0, qclass |-> 0]
    /\ slot = [old_id |-> 0, type |-> 0, message |-> [i \in 1..DNS_HEADER_SIZE |-> 0]]

\* A byte past the end is what an earlier message left there: InBounds says
\* that none is read.
Byte(p) == IF p < Len(buf) THEN buf[p + 1] ELSE 0
Word(p) == 256 * Byte(p) + Byte(p + 1)
Long(p) == 65536 * Word(p) + Word(p + 2)

is_compress(x) == x \div 64 # 0
\* Mutant: not masked.
get_compress_posMutant(w) == w
get_compress_pos(w) == w % 16384

-----------------------------------------------------------------------------
(***************************************************************************)
(* fetch_label, one action per turn of its loop.  It is called for the     *)
(* name at p by setting BeginFetch(p); the action that ends it is also the *)
(* rest of its caller.                                                     *)
(***************************************************************************)
BeginFetch(p) == at' = p /\ next' = Unset /\ mark' = 0 /\ dest' = <<>>

\* A write past the end of an array.
Overruns == pc' = "overrun" /\ UNCHANGED <<session, buf, data, left, fetch, question, slot>>

AtLabelByte == Fetching /\ Byte(at) # 0 /\ ~is_compress(Byte(at))

\* The destination is question.label or the name of ans[cnt], if ans[] has one.
DestSize == IF pc = "owner" /\ Len(answers) >= ANS_SIZE THEN 0 ELSE MAX_NAME_LENGTH

LabelOverruns ==
    /\ AtLabelByte /\ Len(dest) + Byte(at) + 1 > DestSize
    /\ Overruns /\ UNCHANGED answers

CopyLabel ==
    /\ AtLabelByte /\ Len(dest) + Byte(at) + 1 <= DestSize
    /\ dest' = dest \o [j \in 1..Byte(at) |-> Byte(at + j)] \o <<Dot>>
    /\ at' = at + Byte(at) + 1
    /\ UNCHANGED <<pc, session, buf, data, left, next, mark, answers, question, slot>>

\* Only the first pointer sets *next: the recursive call gets none.  Mutant:
\* it gets the same one.
AfterPointerMutant == at + 2
AfterPointer == IF next = Unset THEN at + 2 ELSE next

\* Mutant: the call is made with src.
PointedMutant == at
Pointed == get_compress_pos(Word(at))

\* The recursive call writes at dest + i.
FollowPointer ==
    /\ Fetching
    /\ is_compress(Byte(at))
    /\ next' = AfterPointer
    /\ at' = Pointed
    /\ mark' = Len(dest)
    /\ UNCHANGED <<pc, session, buf, data, left, dest, answers, question, slot>>

EndOfName == Byte(at) = 0
Fetched == Len(dest) - mark - 1             \* the return value
EndPos == IF next = Unset THEN at ELSE next \* *next
\* The text in the destination.  Without a label nothing is written to it (the
\* terminating zero goes in front of it), and it keeps what it held.
Text(old) == IF dest = <<>> THEN old ELSE Front(dest)

-----------------------------------------------------------------------------
(***************************************************************************)
(* A request: handle_request up to the lookup.                             *)
(***************************************************************************)
Send(what, bytes) == sent' = Append(sent, [what |-> what, bytes |-> bytes])

\* A message that is no plain query is refused, and handled all the same.
Accept(m, bytes) ==
    LET refusal == Respond(bytes, RCODE_REFUSED)
        query == SubSeq(bytes, 3, 4) = U16(FLAG_QUERY)
    IN  /\ pc = "idle" /\ pc' = "question"
        /\ request' = m /\ answer' = Nothing /\ asked' = <<>>
        /\ sent' = IF query THEN <<>> ELSE <<[what |-> "refused", bytes |-> refusal]>>
        /\ buf' = IF query THEN bytes ELSE refusal
        /\ BeginFetch(DNS_HEADER_SIZE)
        /\ data' = 0 /\ left' = 0 /\ answers' = <<>>
        /\ UNCHANGED <<question, slot>>

ReceiveRequest(m) == Accept(m, Encode(m))

\* The client is one of this repository's: it uses write_dns_query, with names
\* it read from a file, which are not empty and have no zero byte.
NoZero(labels) == \A i \in DOMAIN labels : \A j \in DOMAIN labels[i] : labels[i][j] # 0

ReceiveOwnQuery(m) ==
    /\ m.flags = FLAG_QUERY /\ m.opt = 0 /\ m.qname # <<>> /\ NoZero(m.qname)
    /\ Accept(m, write_dns_query(m.id, Dotted(m.qname), m.qtype))

\* read_dns_question returns the length of the name, or -1.  Mutant: the length
\* without the zero byte.
NameLengthMutant == IF Fetched < 0 THEN -1 ELSE EndPos - DNS_HEADER_SIZE
NameLength == IF Fetched < 0 THEN -1 ELSE EndPos - DNS_HEADER_SIZE + 1

ReadQuestion ==
    LET q == DNS_HEADER_SIZE + NameLength
    IN  /\ pc = "question" /\ EndOfName
        /\ question' = [label |-> Text(question.label), qtype |-> Word(q), qclass |-> Word(q + 2)]
        /\ pc' = "lookup"
        /\ UNCHANGED <<session, buf, data, left, fetch, answers, slot>>

-----------------------------------------------------------------------------
(***************************************************************************)
(* The four ways a request goes on.                                        *)
(***************************************************************************)
ReplyNameError ==       \* the blacklist has question.label
    /\ pc = "lookup" /\ pc' = "idle"
    /\ buf' = Respond(buf, RCODE_NAME_ERROR)
    /\ Send("name_error", buf')
    /\ UNCHANGED <<request, answer, asked, data, left, fetch, answers, question, slot>>

\* ans[]: the records of a list, under the name strcpy takes from question.label.
Records(list) ==
    [i \in DOMAIN list |->
        [name |-> CString(question.label), type |-> question.qtype, class_ |-> question.qclass,
         ttl |-> list[i].ttl, addr |-> list[i].addr]]

\* Whether they fit ans[], and the reply recv_buffer.
Fits(list) ==
    /\ Len(list) <= ANS_SIZE
    /\ Len(write_dns_response_by_query(buf, Records(list))) <= RECV_SIZE

RecordsOverrun(list) ==
    /\ pc = "lookup" /\ question.qtype \in Cacheable
    /\ ~Fits(list)
    /\ answers' = Records(list)
    /\ Overruns

ReplyRecords(list) ==   \* a static or a record cache has question.label
    /\ pc = "lookup" /\ pc' = "idle"
    /\ question.qtype \in Cacheable /\ Fits(list)
    /\ answers' = Records(list)
    /\ buf' = write_dns_response_by_query(buf, answers')
    /\ Send("records", buf')
    /\ UNCHANGED <<request, answer, asked, data, left, fetch, question, slot>>

\* IDtoAddr's type is an unsigned char.  Mutant: it is wider.
SlotTypeMutant == question.qtype
SlotType == question.qtype % 256

Forward(id) ==          \* IDAdapter_push returned id
    /\ pc = "lookup" /\ pc' = "waiting"
    /\ slot' = [old_id |-> Word(0), type |-> SlotType,
                message |-> strcpy(slot.message, buf)]
    /\ buf' = set_header_id(buf, id)
    /\ asked' = buf'
    /\ UNCHANGED <<request, answer, sent, data, left, fetch, answers, question>>

Timeout ==              \* the slot is DNS_TTL old
    LET reply == Respond(slot.message, RCODE_REFUSED)
    IN  /\ pc = "waiting" /\ pc' = "idle"
        /\ slot' = [slot EXCEPT !.message = reply]
        /\ Send("timeout", SubSeq(reply, 1, CStringLen(reply)))
        /\ UNCHANGED <<request, answer, asked, buf, data, left, fetch, answers, question>>

-----------------------------------------------------------------------------
(***************************************************************************)
(* The upstream answer: handle_relay.                                      *)
(***************************************************************************)
\* read_dns_answers skips the question; no answer to read means no addresses.
ReceiveAnswer(m) ==
    LET bytes == Encode(m)
        ancount == 256 * bytes[7] + bytes[8]
        first == SkipLabels(bytes, DNS_HEADER_SIZE) + 1 + QUESTION_SIZE
    IN  /\ pc = "waiting"
        /\ answer' = m /\ buf' = bytes /\ answers' = <<>>
        /\ IF slot.type \in Cacheable /\ ancount > 0
           THEN pc' = "owner" /\ data' = first /\ left' = ancount /\ BeginFetch(first)
           ELSE pc' = "relay" /\ UNCHANGED <<data, left, fetch>>
        /\ UNCHANGED <<request, asked, sent, question, slot>>

\* `good' in read_dns_answer.  Mutant: CNAME records too.
IsGoodMutant(type) == type \in Cacheable \cup {RRTYPE_CNAME}
IsGood(type) == type \in Cacheable

\* The rest of read_dns_answer, and the turn of the loop in read_dns_answers.
ReadAnswer ==
    LET type == Word(EndPos)
        length == Word(EndPos + 8)
        read == [name |-> Text(<<>>), type |-> type, class_ |-> Word(EndPos + 2),
                 ttl |-> Long(EndPos + 4),
                 addr |-> [j \in 1..length |-> Byte(EndPos + ANSWER_SIZE + j - 1)]]
    IN  /\ pc = "owner" /\ EndOfName
        /\ answers' = IF Fetched >= 0 /\ IsGood(type) THEN Append(answers, read) ELSE answers
        /\ data' = IF Fetched >= 0 THEN EndPos + ANSWER_SIZE + length ELSE data - 1
        /\ left' = left - 1
        /\ IF left > 1 THEN pc' = "owner" /\ BeginFetch(data')
           ELSE IF answers' # <<>> THEN pc' = "cached" /\ BeginFetch(DNS_HEADER_SIZE)
           ELSE pc' = "relay" /\ UNCHANGED fetch
        /\ UNCHANGED <<session, buf, question, slot>>

\* read_dns_question for the label to store the addresses under, and the store.
\* It looks for qtype and qclass one byte too early; they are not used.
CacheAnswers ==
    /\ pc = "cached" /\ EndOfName /\ Len(answers) <= TMP_ANS_SIZE
    /\ question' = [label |-> Text(question.label), qtype |-> Word(EndPos), qclass |-> Word(EndPos + 2)]
    /\ pc' = "relay"
    /\ UNCHANGED <<session, buf, data, left, fetch, answers, slot>>

\* The addresses are copied to tmp_ans_data[] in between.
AddressesOverrun ==
    /\ pc = "cached" /\ EndOfName /\ Len(answers) > TMP_ANS_SIZE
    /\ Overruns /\ UNCHANGED answers

RelayAnswer ==
    /\ pc = "relay" /\ pc' = "idle"
    /\ buf' = set_header_id(buf, slot.old_id)
    /\ Send("answer", buf')
    /\ UNCHANGED <<request, answer, asked, data, left, fetch, answers, question, slot>>

-----------------------------------------------------------------------------
Code ==
    \/ CopyLabel \/ FollowPointer \/ LabelOverruns
    \/ ReadQuestion
    \/ ReplyNameError
    \/ \E list \in Stored : ReplyRecords(list) \/ RecordsOverrun(list)
    \/ \E id \in NewIds : Forward(id)
    \/ ReadAnswer \/ CacheAnswers \/ AddressesOverrun \/ RelayAnswer

Undefined == pc = "overrun" /\ UNCHANGED vars

Next ==
    \/ \E m \in Requests : ReceiveRequest(m) \/ ReceiveOwnQuery(m)
    \/ pc = "waiting" /\ \E m \in Answering(request, Word(0)) : ReceiveAnswer(m)
    \/ Timeout
    \/ Code
    \/ Undefined

Spec == Init /\ [][Next]_vars /\ WF_vars(Code)

-----------------------------------------------------------------------------
(***************************************************************************)
(* Properties.                                                             *)
(***************************************************************************)
\* The state is of its type.
TypeOK ==
    /\ pc \in {"idle", "question", "lookup", "waiting", "owner", "cached", "relay", "overrun"}
    /\ buf \in Bytes /\ dest \in Bytes /\ asked \in Bytes /\ slot.message \in Bytes
    /\ Len(slot.message) = DNS_HEADER_SIZE
    /\ {data, left, at, mark, slot.old_id, question.qtype} \subseteq Words
    /\ next \in Words \cup {Unset}
    /\ slot.type \in Octets /\ question.label \in Bytes
    /\ \A i \in DOMAIN answers : answers[i].type \in Cacheable
    /\ \A i \in DOMAIN sent : sent[i].bytes \in Bytes

\* read_dns_questions finds the name, type and class of every question but the
\* one for the root, whatever the messages before left in the buffers.
ReadsQuestion ==
    pc = "lookup" /\ request.qname # <<>> =>
        question = [label |-> Dotted(request.qname), qtype |-> request.qtype, qclass |-> HTTP_CLASS]

\* The names, labels and fixed parts that are read lie inside the message that
\* was received, though no read is checked against its length.
InBounds ==
    /\ Fetching => at + (IF is_compress(Byte(at)) THEN 1 ELSE Byte(at)) < Len(buf)
    /\ pc = "owner" => data < Len(buf)
    /\ pc = "relay" => data <= Len(buf)

\* What read_dns_answer returns leads from each answer to the next one, through
\* compressed names and records of any kind.
AtNextAnswer ==
    /\ pc = "owner" => data = Start(answer)[Len(answer.answers) - left + 1]
    /\ pc \in {"cached", "relay"} /\ slot.type \in Cacheable /\ answer.answers # <<>> =>
           data = Start(answer)[Len(answer.answers) + 1]

\* The addresses in an answer, each with the name of its own record.
Meant(m) ==
    LET meant[k \in 0..Len(m.answers)] ==
            IF k = 0 THEN <<>>
            ELSE IF m.answers[k].type \in Cacheable
            THEN Append(meant[k - 1],
                        [name |-> Dotted(Meaning(m, m.answers[k].owner)),
                         type |-> m.answers[k].type, class_ |-> HTTP_CLASS,
                         ttl |-> m.answers[k].ttl, addr |-> m.answers[k].addr])
            ELSE meant[k - 1]
    IN  meant[Len(m.answers)]

\* The addresses handed to the record cache are those of the answer, all of
\* them and in order, under the name that was asked for, also when CNAME
\* records lead to them; each carries the name of its own record.
ReadsAnswers ==
    pc = "relay" /\ slot.type \in Cacheable =>
        /\ answers = Meant(answer)
        /\ answers # <<>> => question.label = Dotted(request.qname)

\* The reply to m with the records `found': the question, and one record each
\* under the name asked for.
RecordsReply(m, found) ==
    [m EXCEPT !.flags = FLAG_RESPONSE_NORMAL, !.opt = 0,
              !.answers = [i \in DOMAIN found |->
                  [owner |-> [labels |-> m.qname, at |-> Plain, drop |-> 0],
                   type |-> m.qtype, ttl |-> Max({found[i].ttl, 0}),
                   addr |-> SubSeq(found[i].addr, 1, AddrSize(m.qtype))]]]

WellFormed(reply) ==
    CASE reply.what = "refused" ->
            reply.bytes = Encode([request EXCEPT !.flags = FLAG_RESPONSE_NORMAL + RCODE_REFUSED])
      [] reply.what = "name_error" ->
            reply.bytes = Encode([request EXCEPT !.flags = FLAG_RESPONSE_NORMAL + RCODE_NAME_ERROR])
      [] reply.what = "records" ->
            NoZero(request.qname) => reply.bytes = [Encode(RecordsReply(request, answers)) EXCEPT ![12] = request.opt]
      [] reply.what = "answer" -> reply.bytes = Encode([answer EXCEPT !.id = request.id])
      [] reply.what = "timeout" -> TRUE

\* Every reply but a timeout's is, byte for byte, the message it should be: the
\* client's id and question, the flags of the outcome, and the records found or
\* what upstream answered.  Two blemishes: the reply with records to a request
\* that had an OPT record still counts an additional record, and has none; and
\* nothing is said of the one for a name with a zero byte, where strcpy and
\* strlen stop.
RepliesWellFormed == \A i \in DOMAIN sent : WellFormed(sent[i])

\* A query goes upstream as the client sent it, but for the id.
ForwardsRequest ==
    asked # <<>> /\ request.flags = FLAG_QUERY =>
        \E id \in NewIds : asked = Encode([request EXCEPT !.id = id])

Refusal(bytes, id) ==
    /\ Len(bytes) >= 4
    /\ SubSeq(bytes, 1, 4) = U16(id) \o U16(FLAG_RESPONSE_NORMAL + RCODE_REFUSED)

\* A timeout's reply is built in the copy strcpy made of the request and is as
\* long as strlen says.  It carries the client's id and the code "refused" if
\* no byte of the id is zero, whatever the slot held before.
TimeoutReadable ==
    \A i \in DOMAIN sent :
        sent[i].what = "timeout" /\ request.id \div 256 # 0 /\ request.id % 256 # 0
            => Refusal(sent[i].bytes, request.id)

\* The number of addresses in an answer.
AddressCount(m) == Cardinality({k \in DOMAIN m.answers : m.answers[k].type \in Cacheable})


\* What was begun for a message is brought to a reply or a query: the turns of
\* fetch_label end, one for each label and pointer of the name, as long as
\* pointers point back at labels.
HandledToEnd == (pc # "idle") ~> (pc \in {"idle", "waiting", "overrun"})
=============================================================================
