----------------------------- MODULE HttpStream -----------------------------
(***************************************************************************)
(* A file read over HTTP (MrPostOGet/MrPostOGet.cpp): HTTPFileStream asks   *)
(* for a range of bytes, the website and HTTPServerSocket answer with it,   *)
(* HTTPClient takes the answer off a connection that cuts it anywhere and   *)
(* may break, which its socket learns when it sends or receives.  What is   *)
(* sent is a sequence of units: the response's head, the end of its         *)
(* headers, and the bytes of the file by their places.                     *)
(* Operator_Word is a plausible mistake in Operator.                       *)
(***************************************************************************)
EXTENDS Integers, Sequences

CONSTANTS FileSizes,       \* the sizes the file may have
          FirstSize,       \* SetInputURL asks for the bytes up to this, 101
          FirstBuffer,     \* and reads at most so many, 1000
          MaxDataInMemory, \* what FileIntervallExtracter reads at once, 16384
          MaxRecieved,     \* what OSSocket::p_RecieveData takes at once, 65536
          BufferSizes,     \* bounds: what a caller reads at once,
          MaxPlace,        \*   where it seeks to,
          MaxReads,        \*   how often it reads,
          MaxOpens         \*   and how often it sets a URL
(* What SetInputURL asks for fits into what it reads; the rest may be      *)
(* anything.                                                               *)
ASSUME StreamAssumption ==
    /\ FileSizes \subseteq Nat /\ BufferSizes \subseteq Nat
    /\ FirstSize \in Nat /\ FirstBuffer \in Nat /\ FirstSize <= FirstBuffer
    /\ MaxDataInMemory \in Nat \ {0} /\ MaxRecieved \in Nat /\ MaxPlace \in Nat

VARIABLES
    FileSize, linked, connected,           \* the file; whether the connection is up,
                                           \* and whether the socket believes it is
    ranges, sending, wire,                 \* requests, intervals and units on their way
    client, BufferSize,                       \* where the client is
    m_ResponseData, m_ParseOffset, m_RecievedBodyData, m_CurrentHeaders,
    RecievedData, RemainingData,           \* of HTTPClient::Read
    m_CurrentPosition, m_TotalResourceSize,
    last, beyond, readings, opens          \* history: the last read; whether one
                                           \* has begun beyond the file's end
server == <<ranges, sending>>
response == <<m_ResponseData, m_ParseOffset, m_RecievedBodyData>>
reading == <<RecievedData, RemainingData>>
position == <<m_CurrentPosition, m_TotalResourceSize>>
history == <<last, beyond, readings, opens>>
streamVars == <<FileSize, linked, connected, server, wire, client, BufferSize, response, m_CurrentHeaders,
                reading, position, history>>

NoHeaders == [StatusCode |-> -1, ResponseSize |-> 0, Total |-> -1]
NoRead == [from |-> 0, size |-> 0, data |-> <<>>]
StreamInit ==
    /\ FileSize \in FileSizes /\ linked = FALSE /\ connected = FALSE
    /\ ranges = <<>> /\ sending = <<>> /\ wire = <<>>
    /\ client = "closed" /\ BufferSize = 0
    /\ m_ResponseData = <<>> /\ m_ParseOffset = 0 /\ m_RecievedBodyData = 0
    /\ m_CurrentHeaders = NoHeaders /\ RecievedData = <<>> /\ RemainingData = 0
    /\ m_CurrentPosition = 0 /\ m_TotalResourceSize = -1
    /\ last = NoRead /\ beyond = FALSE /\ readings = 0 /\ opens = 0

Smaller(a, b) == IF a < b THEN a ELSE b
From(s, n) == SubSeq(s, n + 1, Len(s))
Interval(first, final) == [FirstByte |-> first, LastByte |-> final]
HeadersEnd == <<"end">>
FileBytes(first, n) == [i \in 1..Smaller(n, IF first < FileSize THEN FileSize - first ELSE 0) |->
                           <<"byte", first + i - 1>>]
-----------------------------------------------------------------------------
(* The server.  A range that begins beyond the file's end is announced with *)
(* a size below zero, which is a huge number.                              *)
p_GenerateRequest(r) ==
    LET LastByte == IF r.LastByte >= FileSize THEN FileSize - 1 ELSE r.LastByte
    IN  <<"head", LastByte - r.FirstByte + 1, FileSize>>
SendHTTPDocument ==
    /\ linked /\ ranges # <<>> /\ sending = <<>>
    /\ wire' = wire \o <<p_GenerateRequest(ranges[1]), HeadersEnd>>
    /\ sending' = <<ranges[1]>> /\ ranges' = Tail(ranges)
    /\ UNCHANGED <<FileSize, linked, connected, client, BufferSize, response, m_CurrentHeaders, reading, position, history>>
Following_Overlaps(r) == Interval(r.FirstByte + MaxDataInMemory - 1, r.LastByte)
Following(r) == Interval(r.FirstByte + MaxDataInMemory, r.LastByte)
IntervalSize(r) == r.LastByte - r.FirstByte + 1
GetNextIntervall ==
    /\ linked /\ sending # <<>>
    /\ LET r == sending[1]
           more == IntervalSize(r) >= MaxDataInMemory
       IN  /\ wire' = wire \o FileBytes(r.FirstByte, IF more THEN MaxDataInMemory ELSE IntervalSize(r))
           /\ sending' = IF more THEN <<Following(r)>> ELSE <<>>
    /\ UNCHANGED <<FileSize, linked, connected, ranges, client, BufferSize, response, m_CurrentHeaders, reading, position, history>>
BreakLink ==
    /\ linked /\ linked' = FALSE
    /\ \E n \in 0..Len(wire) : wire' = SubSeq(wire, 1, n)
    /\ UNCHANGED <<FileSize, connected, server, client, BufferSize, response, m_CurrentHeaders, reading, position, history>>
-----------------------------------------------------------------------------
(* HTTPFileStream.  HTTPClient's m_IsConnected is never set: p_IsValid asks *)
(* what the socket believes.  A request that is sent over a lost connection *)
(* goes nowhere, and the socket may notice.                                *)
p_IsValid == client = "open" /\ connected
SendRequest(first, n) ==
    /\ ranges' = IF linked THEN Append(ranges, Interval(first, first + n - 1)) ELSE ranges
    /\ connected' \in {connected, linked}
    /\ beyond' = (beyond \/ first > FileSize)
(* A URL is set with a new client and a new connection, which may fail; a   *)
(* range of its own is asked for, to learn the file's size.  The position  *)
(* stays where it was.  The file is the same each time.                    *)
ConnectToHost == linked' \in BOOLEAN /\ connected' = linked' /\ wire' = <<>> /\ sending' = <<>>
SetInputURL ==
    /\ client \in {"closed", "open"} /\ opens < MaxOpens /\ opens' = opens + 1
    /\ ConnectToHost /\ beyond' = FALSE
    /\ ranges' = IF linked' THEN <<Interval(0, FirstSize - 1)>> ELSE <<>>
    /\ client' = "opening" /\ BufferSize' = FirstBuffer /\ last' = NoRead
    /\ m_ResponseData' = <<>> /\ m_ParseOffset' = 0 /\ m_RecievedBodyData' = 0
    /\ m_CurrentHeaders' = NoHeaders
    /\ UNCHANGED <<FileSize, reading, position, readings>>
ReadRange(n) ==
    /\ p_IsValid /\ client' = "asks" /\ readings < MaxReads
    /\ SendRequest(m_CurrentPosition, n) /\ BufferSize' = n
    /\ readings' = readings + 1
    /\ last' = [from |-> m_CurrentPosition, size |-> n, data |-> <<>>]
    /\ UNCHANGED <<FileSize, linked, sending, wire, response, m_CurrentHeaders, reading, position, opens>>
(* Positions below zero are left out.                                      *)
SetInputPosition(offset, whence) ==
    /\ p_IsValid
    /\ m_CurrentPosition' = offset + CASE whence = "SEEK_SET" -> 0
                                       [] whence = "SEEK_CUR" -> m_CurrentPosition
                                       [] whence = "SEEK_END" -> m_TotalResourceSize
    /\ m_CurrentPosition' \in 0..MaxPlace
    /\ UNCHANGED <<FileSize, linked, connected, server, wire, client, BufferSize, response, m_CurrentHeaders,
                   reading, m_TotalResourceSize, history>>

(* HTTPClient.  RecieveData takes what there is, not what it is asked for;  *)
(* of a connection that is lost it returns nothing, and the socket knows.  *)
RecieveData(n) ==
    \/ n \in 1..Smaller(MaxRecieved, Len(wire)) /\ UNCHANGED connected
    \/ n = 0 /\ ~linked /\ wire = <<>> /\ connected' = FALSE
HasHeaders == HeadersEnd \in {m_ResponseData[i] : i \in 1..Len(m_ResponseData)}
RecieveHeaders ==
    /\ client \in {"opening", "asks"} /\ ~HasHeaders /\ connected
    /\ \E n \in 0..Len(wire) :
         /\ RecieveData(n)
         /\ m_ResponseData' = m_ResponseData \o SubSeq(wire, 1, n)
         /\ wire' = From(wire, n)
    /\ UNCHANGED <<FileSize, linked, server, client, BufferSize, m_ParseOffset, m_RecievedBodyData,
                   m_CurrentHeaders, reading, position, history>>
(* The size of a body may be no number of 64 bits: the rest of the         *)
(* response then stays as it is.                                           *)
Parsed_Uncounted(body) == /\ m_ResponseData' = body /\ m_ParseOffset' = 0
                          /\ UNCHANGED m_RecievedBodyData
Parsed(body) == /\ m_ResponseData' = body /\ m_ParseOffset' = 0
                /\ m_RecievedBodyData' = Len(body)
p_ParseResponseHeaders ==
    LET head == m_ResponseData[1]
        end == CHOOSE i \in 1..Len(m_ResponseData) : m_ResponseData[i] = HeadersEnd
    IN  /\ HasHeaders \/ ~connected
        /\ IF ~connected \/ head[1] # "head"
           THEN m_CurrentHeaders' = NoHeaders /\ UNCHANGED response
           ELSE /\ m_CurrentHeaders' = [StatusCode |-> 206, Total |-> head[3],
                                        ResponseSize |-> IF head[2] < 0 THEN -1 ELSE head[2]]
                /\ IF head[2] < 0 THEN m_ParseOffset' = end /\ UNCHANGED <<m_ResponseData, m_RecievedBodyData>>
                   ELSE Parsed(From(m_ResponseData, end))
ParseHeaders ==
    /\ client \in {"opening", "asks"} /\ p_ParseResponseHeaders
    /\ client' = IF client = "asks" THEN "reads" ELSE "measures"
    /\ UNCHANGED <<FileSize, linked, connected, server, wire, BufferSize, reading, position, history>>

(* Read: what is there already, then the rest of the body.                 *)
Refused == ~connected \/ m_CurrentHeaders.StatusCode = -1
BeginRead ==
    LET Rest == IF m_CurrentHeaders.ResponseSize < m_RecievedBodyData   \* below zero is huge
                THEN BufferSize ELSE m_CurrentHeaders.ResponseSize - m_RecievedBodyData
    IN  /\ client \in {"reads", "measures"} /\ ~Refused
        /\ client' = IF client = "reads" THEN "reading" ELSE "measuring"
        /\ RemainingData' = Smaller(Rest, BufferSize)
        /\ RecievedData' = SubSeq(m_ResponseData, m_ParseOffset + 1, Smaller(m_ParseOffset + BufferSize, Len(m_ResponseData)))
        /\ m_ResponseData' = From(m_ResponseData, Smaller(BufferSize, Len(m_ResponseData)))
        /\ m_ParseOffset' = 0
        /\ UNCHANGED <<FileSize, linked, connected, server, wire, BufferSize, m_RecievedBodyData, m_CurrentHeaders,
                       position, history>>
(* More may come than remains, which is then below zero, a huge number.     *)
ReadsOn == Len(RecievedData) < BufferSize /\ RemainingData # 0 /\ connected
RecieveBody ==
    /\ client \in {"reading", "measuring"} /\ ReadsOn
    /\ \E n \in 0..Len(wire) :
         /\ RecieveData(n)
         /\ RecievedData' = RecievedData \o SubSeq(wire, 1, n)
         /\ wire' = From(wire, n)
         /\ RemainingData' = RemainingData - n
         /\ m_RecievedBodyData' = m_RecievedBodyData + n
    /\ UNCHANGED <<FileSize, linked, server, client, BufferSize, m_ResponseData, m_ParseOffset,
                   m_CurrentHeaders, position, history>>
(* What is too much is kept for the next read.                             *)
Finish(data) ==
    /\ client \in {"reads", "reading"} /\ client' = "open"
    /\ last' = [last EXCEPT !.data = data]
    /\ m_CurrentPosition' = m_CurrentPosition + Len(data)
    /\ UNCHANGED m_TotalResourceSize
Measure ==
    /\ client = "measuring" /\ client' = "open"
    /\ m_TotalResourceSize' = m_CurrentHeaders.Total
    /\ UNCHANGED <<last, m_CurrentPosition>>
EndRead ==
    LET got == SubSeq(RecievedData, 1, Smaller(BufferSize, Len(RecievedData)))
    IN  /\ client \in {"reading", "measuring"} /\ ~ReadsOn
        /\ m_ResponseData' = m_ResponseData \o From(RecievedData, Len(got))
        /\ RecievedData' = <<>> /\ RemainingData' = 0
        /\ \/ Finish(got)
           \/ Measure
        /\ UNCHANGED <<FileSize, linked, connected, server, wire, BufferSize, m_ParseOffset, m_RecievedBodyData,
                       m_CurrentHeaders, beyond, readings, opens>>
(* A read of a connection that is known to be lost gives nothing; a URL     *)
(* without an answer resets the stream.                                    *)
p_Reset == client' = "closed" /\ m_TotalResourceSize' = -1 /\ m_CurrentPosition' = 0
RefuseRead ==
    /\ Refused
    /\ \/ client = "reads" /\ Finish(<<>>)
       \/ client = "measures" /\ p_Reset /\ UNCHANGED last
    /\ UNCHANGED <<FileSize, linked, connected, server, wire, BufferSize, response, m_CurrentHeaders, reading,
                   beyond, readings, opens>>

StreamNext ==
    \/ SendHTTPDocument \/ GetNextIntervall \/ BreakLink
    \/ SetInputURL \/ \E n \in BufferSizes : ReadRange(n)
    \/ \E offset \in -MaxPlace..MaxPlace, whence \in {"SEEK_SET", "SEEK_CUR", "SEEK_END"} :
            SetInputPosition(offset, whence)
    \/ RecieveHeaders \/ ParseHeaders \/ BeginRead \/ RecieveBody \/ EndRead \/ RefuseRead
-----------------------------------------------------------------------------
(* What HTTPFileStream::Read has returned is what the file holds where it  *)
(* stood, all of it unless the connection was lost, as long as no read     *)
(* began beyond the file's end; and it knows the file's size, whatever was  *)
(* read and however often it was opened.                                   *)
ReadsAreTheFile ==
    client = "open" /\ ~beyond =>
        /\ m_TotalResourceSize = FileSize
        /\ LET there == FileBytes(last.from, last.size)
           IN  /\ last.data = SubSeq(there, 1, Len(last.data))
               /\ linked => last.data = there

(* A read never waits for bytes that nobody will send: as long as the      *)
(* connection is up, what the server announces is what it sends, and the   *)
(* client knows how much of it has come with the headers.                  *)
NeverStarved ==
    /\ linked /\ ~beyond /\ wire = <<>> /\ ranges = <<>> /\ sending = <<>>
    => /\ client \in {"opening", "asks"} => HasHeaders
       /\ client \in {"reading", "measuring"} => ~ReadsOn
=============================================================================
