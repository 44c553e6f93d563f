---------------------------- MODULE DnsMessages ----------------------------
(***************************************************************************)
(* The texts of DNS and how a question is followed from server to server   *)
(* (MBDNSHandler/MBDNSHandler.cpp).  A text is a sequence of bytes, an     *)
(* offset in it counts from 0, and a parser gives <<value, offset>>.       *)
(* Operator_Word is a plausible mistake in Operator.                       *)
(***************************************************************************)
EXTENDS Integers, Sequences

Byte(data, offset) == IF offset < Len(data) THEN data[offset + 1] ELSE 0
Part(data, offset, n) == SubSeq(data, offset + 1, IF offset + n > Len(data) THEN Len(data) ELSE offset + n)
Dot == 46
Flag(b) == IF b THEN 1 ELSE 0

p_EncodeBigEndianInteger(n, size) == [i \in 1..size |-> (n \div 256 ^ (size - i)) % 256]
p_ParseBigEndianInteger(data, size, offset) ==
    LET Sum[i \in 0..size] == IF i = 0 THEN 0 ELSE Sum[i - 1] * 256 + Byte(data, offset + i - 1)
    IN  <<Sum[size], offset + size>>
Integer(data, size, offset) == p_ParseBigEndianInteger(data, size, offset)[1]
-----------------------------------------------------------------------------
(* A domain is text with dots; a label of more than 63 bytes is a pointer. *)
RECURSIVE Split(_)
Split(text) ==
    LET dots == {i \in 1..Len(text) : text[i] = Dot}
        first == CHOOSE i \in dots : \A j \in dots : i <= j
    IN  IF dots = {} THEN <<text>>
        ELSE <<SubSeq(text, 1, first - 1)>> \o Split(SubSeq(text, first + 1, Len(text)))
p_EncodeDomain(domain) ==
    LET labels == Split(domain)
        Encoded[i \in 0..Len(labels)] ==
            IF i = 0 THEN <<>> ELSE Encoded[i - 1] \o <<Len(labels[i])>> \o labels[i]
    IN  Append(Encoded[Len(labels)], 0)

p_ParseLabel(data, offset) ==
    <<Part(data, offset + 1, Byte(data, offset)), offset + 1 + Byte(data, offset)>>
RECURSIVE DomainRest(_, _, _)
DomainRest(data, offset, text) ==
    LET dotted == IF text = <<>> THEN text ELSE Append(text, Dot)
        label == p_ParseLabel(data, offset)
    IN  IF Byte(data, offset) = 0 THEN <<text, offset + 1>>
        ELSE IF Byte(data, offset) > 63
        THEN <<dotted \o DomainRest(data, Integer(data, 2, offset) % 16384, <<>>)[1], offset + 2>>
        ELSE DomainRest(data, label[2], dotted \o label[1])
p_ParseDomain(data, offset) == DomainRest(data, offset, <<>>)
-----------------------------------------------------------------------------
(* The header.  The recursion bit is written twice, and the bit of the     *)
(* authoritative answer where the number of authorities should be.         *)
p_EncodeMessageHeader(h) ==
    p_EncodeBigEndianInteger(h.ID, 2)
    \o p_EncodeBigEndianInteger(Flag(~h.IsQuerry) * 2 ^ 15 + h.OPCode * 2 ^ 11
            + Flag(h.AuthorativeAnswer) * 2 ^ 10 + Flag(h.Truncated) * 2 ^ 9
            + Flag(h.RecursiveDesired) * 2 ^ 8 + Flag(h.RecursiveDesired) * 2 ^ 7
            + h.ResponseCode, 2)
    \o p_EncodeBigEndianInteger(h.QuestionCount, 2) \o p_EncodeBigEndianInteger(h.AnswerCount, 2)
    \o p_EncodeBigEndianInteger(Flag(h.AuthorativeAnswer), 2)
    \o p_EncodeBigEndianInteger(h.AdditionalCount, 2)
p_ParseMessageHeader(data, offset) ==
    LET flags == Integer(data, 2, offset + 2)
        Bit(i) == (flags \div 2 ^ i) % 2 = 1
    IN  <<[ID |-> Integer(data, 2, offset), IsQuerry |-> ~Bit(15),
           OPCode |-> (flags \div 2 ^ 11) % 16, AuthorativeAnswer |-> Bit(10),
           Truncated |-> Bit(9), RecursiveDesired |-> Bit(8), RecursionSupported |-> Bit(7),
           ResponseCode |-> flags % 16, QuestionCount |-> Integer(data, 2, offset + 4),
           AnswerCount |-> Integer(data, 2, offset + 6),
           AuthorityCount |-> Integer(data, 2, offset + 8),
           AdditionalCount |-> Integer(data, 2, offset + 10)], offset + 12>>

(* Questions and records.                                                  *)
p_EncodeDNSQuerry(q) ==
    p_EncodeDomain(q.DomainName) \o p_EncodeBigEndianInteger(q.QuerryType, 2)
                                 \o p_EncodeBigEndianInteger(q.QuerryClass, 2)
p_EncodeResourceRecord(r) ==
    p_EncodeDomain(r.Name) \o p_EncodeBigEndianInteger(r.Type, 2)
    \o p_EncodeBigEndianInteger(r.Class, 2) \o p_EncodeBigEndianInteger(r.TTL, 4)
    \o p_EncodeBigEndianInteger(Len(r.RecordData), 2) \o r.RecordData
p_ParseMessageQuestion(data, offset) ==
    LET name == p_ParseDomain(data, offset)
    IN  <<[DomainName |-> name[1], QuerryType |-> Integer(data, 2, name[2]),
           QuerryClass |-> Integer(data, 2, name[2] + 2)], name[2] + 4>>
p_ParseResourceRecord(data, offset) ==
    LET name == p_ParseDomain(data, offset)
        length == Integer(data, 2, name[2] + 8)
    IN  <<[Name |-> name[1], Type |-> Integer(data, 2, name[2]),
           Class |-> Integer(data, 2, name[2] + 2), TTL |-> Integer(data, 4, name[2] + 4),
           DataOffset |-> name[2] + 10, RecordData |-> Part(data, name[2] + 10, length)],
          name[2] + 10 + length>>

(* The n-th of a section comes behind those before it.                     *)
Behind(parts, next) == <<Append(parts, next[1]), next[2]>>
Many(Parse(_, _), data, n, offset) ==
    LET Read[i \in 0..n] ==
            IF i = 0 THEN <<<<>>, offset>> ELSE Behind(Read[i - 1][1], Parse(data, Read[i - 1][2]))
    IN  Read[n]
BehindAuthority(header, question, answers, authority, data) ==
    [Header |-> header, Question |-> question, Answers |-> answers, Authority |-> authority[1],
     Additional |-> Many(p_ParseResourceRecord, data, header.AdditionalCount, authority[2])[1]]
BehindAnswers(header, question, answers, data) ==
    BehindAuthority(header, question, answers[1],
                    Many(p_ParseResourceRecord, data, header.AuthorityCount, answers[2]), data)
BehindQuestion(header, question, data) ==
    BehindAnswers(header, question[1],
                  Many(p_ParseResourceRecord, data, header.AnswerCount, question[2]), data)
BehindHeader(header, data) ==
    BehindQuestion(header[1], Many(p_ParseMessageQuestion, data, header[1].QuestionCount, header[2]), data)
p_ParseDNSMessage(data) == BehindHeader(p_ParseMessageHeader(data, 0), data)
All(Encode(_), parts) ==
    LET Done[i \in 0..Len(parts)] == IF i = 0 THEN <<>> ELSE Done[i - 1] \o Encode(parts[i])
    IN  Done[Len(parts)]
(* The authorities are written twice, and nothing additional.              *)
p_EncodeDNSMessage(m, IsTCP) ==
    LET text == p_EncodeMessageHeader(m.Header) \o All(p_EncodeDNSQuerry, m.Question)
                \o All(p_EncodeResourceRecord, m.Answers)
                \o All(p_EncodeResourceRecord, m.Authority)
                \o All(p_EncodeResourceRecord, m.Authority)
    IN  IF IsTCP THEN p_EncodeBigEndianInteger(Len(text), 2) \o text ELSE text
-----------------------------------------------------------------------------
(* What a record says.                                                     *)
p_GetMXRecord_Here(r, data) == [Preference |-> Integer(r.RecordData, 2, 0),
                                Exchange |-> p_ParseDomain(data, r.DataOffset)[1]]
p_GetMXRecord(r, data) == [Preference |-> Integer(r.RecordData, 2, 0),
                           Exchange |-> p_ParseDomain(data, r.DataOffset + 2)[1]]
p_GetNSRecord(r, data) == [DomainName |-> p_ParseDomain(data, r.DataOffset)[1]]
p_GetPTRRecord(r, data) == [DomainName |-> p_ParseDomain(data, r.DataOffset)[1]]
p_GetARecord(r) == [IPAdress |-> [i \in 1..4 |-> Byte(r.RecordData, i - 1)]]
RECURSIVE p_GetTXTRecords(_, _)
p_GetTXTRecords(text, offset) ==
    IF offset >= Len(text) THEN <<>>
    ELSE <<Part(text, offset + 1, Byte(text, offset))>>
         \o p_GetTXTRecords(text, offset + 1 + Byte(text, offset))

h_ReverseIPAdress(address) ==
    LET parts == Split(address)
        Reversed[i \in 0..Len(parts)] ==
            IF i = 0 THEN <<>>
            ELSE Reversed[i - 1] \o parts[Len(parts) + 1 - i]
                 \o (IF i < Len(parts) THEN <<Dot>> ELSE <<>>)
    IN  Reversed[Len(parts)]
Digits(n) == (IF n >= 100 THEN <<48 + n \div 100>> ELSE <<>>)
             \o (IF n >= 10 THEN <<48 + ((n \div 10) % 10)>> ELSE <<>>) \o <<48 + (n % 10)>>
IPv4AdressToString(a) == Digits(a[1]) \o <<Dot>> \o Digits(a[2]) \o <<Dot>>
                         \o Digits(a[3]) \o <<Dot>> \o Digits(a[4])

(* The answer on a TCP connection: what does not come with the first piece *)
(* is read from a socket that was never connected, for ever.               *)
Endless == <<-1>>
p_GetQuerryResponse(pieces) ==
    LET first == pieces[1]
    IN  IF Len(first) < 2 THEN <<>>
        ELSE IF Len(first) < Integer(first, 2, 0) + 2 THEN Endless
        ELSE SubSeq(first, 3, Len(first))

(* answers[server] is what comes from a server.  The first authority of an *)
(* answer is asked next, so servers that name each other are asked in turn *)
(* for ever.                                                               *)
RECURSIVE Ask(_, _, _)
Referred(answers, server, asked, data, next) ==
    IF next = server THEN data ELSE Ask(answers, next, asked \cup {server})
Refer(answers, server, asked, data, authority) ==
    IF authority = <<>> THEN data
    ELSE Referred(answers, server, asked, data, p_GetNSRecord(authority[1], data).DomainName)
Answered(answers, server, asked, data) ==
    IF data = Endless \/ server \in asked THEN Endless
    ELSE Refer(answers, server, asked, data, p_ParseDNSMessage(data).Authority)
Ask(answers, server, asked) ==
    Answered(answers, server, asked, p_GetQuerryResponse(answers[server]))
p_ResolveQuerryRecursivly(answers, server) == Ask(answers, server, {})

(* Every answer of the response, read by Get.                              *)
Each(Get(_, _), records, data) == [i \in 1..Len(records) |-> Get(records[i], data)]
Records(Get(_, _), data) == Each(Get, p_ParseDNSMessage(data).Answers, data)
GetDomainIPAdresses(data) == Records(LAMBDA r, d : p_GetARecord(r), data)
GetIPAdressDomains(data) == Records(p_GetPTRRecord, data)
GetDomainMXRecords(data) == Records(p_GetMXRecord, data)
GetTXTRecords(data) == Records(LAMBDA r, d : p_GetTXTRecords(r.RecordData, 0), data)
-----------------------------------------------------------------------------
(* A domain of which a suffix is a pointer, at any place of a text, is     *)
(* read as the domain, and the offset goes behind the pointer; a domain    *)
(* that is written whole is read back.                                     *)
DomainIsRead(labels, cut, before) ==
    LET Text[i \in 0..Len(labels)] ==
            IF i = 0 THEN <<>>
            ELSE Text[i - 1] \o (IF i > 1 THEN <<Dot>> ELSE <<>>) \o labels[i]
        Wire[i \in 0..Len(labels)] ==
            IF i = 0 THEN <<>> ELSE Wire[i - 1] \o <<Len(labels[i])>> \o labels[i]
        whole == Append(Wire[Len(labels)], 0)
        suffixAt == before + Len(Wire[cut])
        data == [i \in 1..before |-> 0] \o whole \o Wire[cut] \o <<192 + suffixAt \div 256, suffixAt % 256>>
        at == before + Len(whole)
    IN  /\ p_EncodeDomain(Text[Len(labels)]) = whole
        /\ p_ParseDomain(data, before) = <<Text[Len(labels)], at>>
        /\ cut < Len(labels) => p_ParseDomain(data, at) = <<Text[Len(labels)], Len(data)>>

(* The header of a question is read back.                                  *)
HeaderIsRead(id, opcode, truncated, recursive, code) ==
    LET h == [ID |-> id, IsQuerry |-> TRUE, OPCode |-> opcode, AuthorativeAnswer |-> FALSE,
              Truncated |-> truncated, RecursiveDesired |-> recursive,
              RecursionSupported |-> recursive, ResponseCode |-> code, QuestionCount |-> 1,
              AnswerCount |-> 0, AuthorityCount |-> 0, AdditionalCount |-> 0]
    IN  p_ParseMessageHeader(p_EncodeMessageHeader(h), 0) = <<h, 12>>

(* A server's answer to question, its names cut short by pointers to the   *)
(* question's: data are the contents of its answers, ns that of its        *)
(* authorities.                                                            *)
Query(domain) ==
    [Header |-> [ID |-> 0, IsQuerry |-> TRUE, OPCode |-> 0, AuthorativeAnswer |-> FALSE,
                 Truncated |-> FALSE, RecursiveDesired |-> TRUE, ResponseCode |-> 0,
                 QuestionCount |-> 1, AnswerCount |-> 0, AdditionalCount |-> 0],
     Question |-> <<[DomainName |-> domain, QuerryType |-> 1, QuerryClass |-> 1]>>,
     Answers |-> <<>>, Authority |-> <<>>]
Pointer == <<192, 12>>
Response(domain, data, ns) ==
    LET Wire(content) == Pointer \o <<0, 1, 0, 1, 0, 0, 1, 0, 0, Len(content)>> \o content
        asked == p_EncodeDNSMessage(Query(domain), FALSE)
    IN  SubSeq(asked, 1, 6) \o <<0, Len(data), 0, Len(ns), 0, 0>>
            \o SubSeq(asked, 13, Len(asked)) \o All(Wire, data) \o All(Wire, ns)
AnswersAreRead(domain, host, bytes) ==
    LET name == <<Len(host)>> \o host \o Pointer
        full == host \o <<Dot>> \o domain
        address == [i \in 1..4 |-> Byte(bytes, i - 1)]
        text == <<Len(bytes)>> \o bytes
    IN  /\ GetDomainIPAdresses(Response(domain, <<address, address>>, <<name>>))
               = <<[IPAdress |-> address], [IPAdress |-> address]>>
        /\ GetIPAdressDomains(Response(domain, <<Pointer, name>>, <<>>))
               = <<[DomainName |-> domain], [DomainName |-> full]>>
        /\ GetDomainMXRecords(Response(domain, <<<<1, 2>> \o name, <<0, 5>> \o Pointer>>, <<name>>))
               = <<[Preference |-> 258, Exchange |-> full], [Preference |-> 5, Exchange |-> domain]>>
        /\ GetTXTRecords(Response(domain, <<text \o text, text>>, <<>>)) = <<<<bytes, bytes>>, <<bytes>>>>

(* An address backwards is the address whose parts are backwards.          *)
AddressIsReversed(a) ==
    h_ReverseIPAdress(IPv4AdressToString(a)) = IPv4AdressToString([i \in 1..4 |-> a[5 - i]])

Server(s) == <<96 + s>>
Reply(s, n) == Response(<<120>>, <<<<s, s, s, s>>>>, IF n = 0 THEN <<>> ELSE <<<<1>> \o Server(n) \o <<0>>>>)
Framed(reply) == p_EncodeBigEndianInteger(Len(reply), 2) \o reply
Pieces(text, whole) == IF whole THEN <<text>> ELSE <<SubSeq(text, 1, 20), SubSeq(text, 21, Len(text))>>
(* The server at which those that each name the next end, with those on    *)
(* the way there.                                                          *)
EndsAt(next, Walk, visited) ==
    [server |-> Walk[Len(next)], last |-> next[Walk[Len(next)]] \in {0, Walk[Len(next)]},
     visited |-> visited]
End(next) ==
    LET Walk[i \in 0..Len(next)] ==
            IF i = 0 THEN 1 ELSE IF next[Walk[i - 1]] = 0 THEN Walk[i - 1] ELSE next[Walk[i - 1]]
    IN  EndsAt(next, Walk, {Walk[i] : i \in 0..Len(next)})
IsFollowed(next, whole, replies, end) ==
    p_ResolveQuerryRecursivly(
        [n \in {Server(s) : s \in 1..Len(next)} |->
            Pieces(Framed(replies[n[1] - 96]), whole[n[1] - 96])], Server(1))
        = IF end.last /\ \A s \in end.visited : whole[s] THEN replies[end.server] ELSE Endless
(* next[s] is the server that s names, itself or none (0); whole[s]: its   *)
(* answer comes in one piece.  The question follows the names and ends at  *)
(* the server that names no other, unless it comes to a server that it     *)
(* asked before or whose answer comes in pieces.                           *)
QuestionIsFollowed(next, whole) ==
    IsFollowed(next, whole, [s \in 1..Len(next) |-> Reply(s, next[s])], End(next))
=============================================================================
