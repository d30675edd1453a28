---------------------------- MODULE MCDnsMessage ----------------------------
(* Instances of DnsMessage for TLC: names "a.bc", "c" and the root, one with a
   zero byte, one as long as fits question.label and one that is longer. *)
EXTENDS DnsMessage

CONSTANTS Ids, Flags, Qtypes, Opts, PlainOwners

ABC  == <<<<97>>, <<98, 99>>>>
C    == <<<<99>>>>
D    == <<100>>
Zero == <<<<97, 0, 99>>>>
Longest == <<<<97>>, <<98, 99>>, <<97>>>>
TooLong == <<<<97>>, <<98, 99>>, <<97, 97>>>>

\* Unusual flags and EDNS come with one id only.
MCRequests ==
    [id : {258}, flags : {FLAG_QUERY}, qname : {Zero, Longest, TooLong}, qtype : Cacheable, opt : {0},
     answers : {<<>>}] \cup
    {m \in [id : Ids, flags : Flags, qname : {ABC, C, <<>>}, qtype : Qtypes, opt : Opts,
            answers : {<<>>}] :
        m.flags # FLAG_QUERY \/ m.opt = 1 => m.id = 258}

V4(n) == <<10, 0, 0, n>>
V6(n) == [i \in 1..16 |-> IF i = 16 THEN n ELSE 32]
Name(labels, k, d) == [labels |-> labels, at |-> k, drop |-> d]
AskedName == Name(<<>>, 0, 0)
NoName == Name(<<>>, Plain, 0)

Rec(owner, ty, bytes, target) ==
    [owner |-> owner, type |-> ty, ttl |-> 300, addr |-> bytes, target |-> target]
A(owner, n) == Rec(owner, RRTYPE_A, V4(n), NoName)
AAAA(owner, n) == Rec(owner, RRTYPE_AAAA, V6(n), NoName)
CNAME(owner, target) == Rec(owner, RRTYPE_CNAME, <<>>, target)
RRSIG(owner) == Rec(owner, 46, <<1, 0, 2>>, NoName)

Compressed ==
    { <<>>,
      <<A(AskedName, 1)>>,
      <<A(AskedName, 1), A(AskedName, 0)>>,
      <<RRSIG(AskedName), AAAA(AskedName, 1), AAAA(AskedName, 2)>>,
      \* d.bc, found through the question's "bc"
      <<CNAME(AskedName, Name(<<D>>, 0, 1)), A(Name(<<>>, 1, 0), 1), A(Name(<<>>, 1, 0), 2)>>,
      \* a chain: c -> d -> a.d, the last owner being spelled with a pointer
      <<CNAME(AskedName, Name(<<D>>, Plain, 0)), CNAME(Name(<<>>, 1, 0), Name(<<<<97>>>>, 1, 0)),
        AAAA(Name(<<>>, 2, 0), 1)>>,
      <<CNAME(AskedName, Name(<<<<97>>, D>>, Plain, 0)), CNAME(Name(<<>>, 1, 0), Name(<<>>, 1, 1)),
        A(Name(<<>>, 1, 1), 1)>>,
      \* an answer that begins with a label and ends with a pointer
      <<A(Name(<<D>>, 0, 0), 1), RRSIG(AskedName)>>,
      \* as many addresses as there is room for, one more, and more than ans[] holds
      <<CNAME(AskedName, Name(<<D>>, 0, 1))>> \o [i \in 1..3 |-> A(Name(<<>>, 1, 0), i)],
      <<RRSIG(Name(<<>>, 0, 1))>> \o [i \in 1..4 |-> AAAA(AskedName, i)],
      [i \in 1..5 |-> A(Name(<<>>, 0, 1), i)] }

\* The owner is spelled out.
Spelled == { <<A(Name(ABC, Plain, 0), 1)>> }

MCSections == IF PlainOwners THEN Spelled ELSE Compressed

Pad(addr) == addr \o [i \in 1..12 |-> 7]
MCStored ==
    { <<[ttl |-> 3600, addr |-> Pad(V4(1))]>>,
      <<[ttl |-> 60, addr |-> V6(1)], [ttl |-> -1, addr |-> V6(2)]>>,
      <<[ttl |-> 70000, addr |-> V6(1)], [ttl |-> 0, addr |-> V6(2)], [ttl |-> 1, addr |-> V6(3)]>>,
      [i \in 1..5 |-> [ttl |-> 60, addr |-> V6(i)]] }
=============================================================================
