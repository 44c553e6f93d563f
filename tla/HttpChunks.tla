----------------------------- MODULE HttpChunks -----------------------------
(***************************************************************************)
(* The body of a response as the crawler's client receives it              *)
(* (HTTPClientSocket in MrBoboSockets/MrBoboSockets.cpp): of a length told  *)
(* in the head, or in chunks.  Data is a sequence of characters, a header's *)
(* name and a value being one each; the connection cuts it in pieces.      *)
(* Positions are counted from 0, as in the code.                           *)
(***************************************************************************)
LOCAL INSTANCE Integers
LOCAL INSTANCE Sequences

CRLF == <<"\r", "\n">>
Digits == [d \in {"0", "1", "2", "3", "4", "5", "6"} |->
              CHOOSE n \in 0..6 : d = <<"0", "1", "2", "3", "4", "5", "6">>[n + 1]]
DigitOf(n) == CHOOSE d \in DOMAIN Digits : Digits[d] = n
stoi(s, base) ==
    LET Value[i \in 0..Len(s)] == IF i = 0 THEN 0 ELSE base * Value[i - 1] + Digits[s[i]]
    IN  Value[Len(s)]
Smallest(S) == CHOOSE x \in S : \A y \in S : x <= y

npos == -1
Find(pattern, s, from) ==
    LET found == {p \in from..(Len(s) - Len(pattern)) : SubSeq(s, p + 1, p + Len(pattern)) = pattern}
    IN  IF found = {} THEN npos ELSE Smallest(found)
Substr(s, from, n) == SubSeq(s, from + 1, from + n)
Behind(s, from) == SubSeq(s, from + 1, Len(s))

p_GetHeaderValue(Header, HeaderContent) ==
    LET HeaderData == Substr(HeaderContent, 0, Find(CRLF \o CRLF, HeaderContent, 0) + 4)
        HeaderPosition == Find(<<Header, ": ">>, HeaderData, 0)
        value == HeaderPosition + 2
    IN  IF HeaderPosition = npos THEN <<>>
        ELSE Substr(HeaderData, value, Find(CRLF, HeaderData, HeaderPosition) - value)

NewSocket ==
    [CurrentContentLength |-> -1, RecievedContentData |-> 0, HeadRecieved |-> FALSE,
     IsChunked |-> FALSE, RequestFinished |-> TRUE, CurrentChunkLength |-> -1,
     CurrentRecievedChunkData |-> 0, ChunkParseOffset |-> 0]
(* The place to parse chunks at is not reset: a local variable of its name *)
(* is.                                                                     *)
ResetRequestRecieveState(s) == [NewSocket EXCEPT !.ChunkParseOffset = s.ChunkParseOffset]

(* The headers of the chunks are taken out of the data; a chunk's length   *)
(* and what has come of it are kept over the pieces.                       *)
Dechunked(s, data) == [socket |-> s, data |-> data]
RECURSIVE UpdateAndDechunkData(_, _, _)
Counted(s, data, Offset) ==
    LET all == s.CurrentRecievedChunkData + Len(data) - Offset
    IN  IF s.CurrentChunkLength = 0
        THEN Dechunked([s EXCEPT !.RequestFinished = TRUE, !.ChunkParseOffset = 0], data)
        ELSE IF all >= s.CurrentChunkLength
        THEN UpdateAndDechunkData([s EXCEPT !.CurrentRecievedChunkData = s.CurrentChunkLength], data,
                                  Offset + s.CurrentChunkLength - s.CurrentRecievedChunkData)
        ELSE Dechunked([s EXCEPT !.CurrentRecievedChunkData = all, !.ChunkParseOffset = Len(data)], data)
UpdateAndDechunkData(s, data, Offset) ==
    LET end == Find(CRLF, data, Offset + 2)
        text == Offset + (IF s.CurrentChunkLength = -1 THEN 2 ELSE 0)
    IN  IF s.CurrentRecievedChunkData < s.CurrentChunkLength THEN Counted(s, data, Offset)
        ELSE IF end = npos THEN Dechunked([s EXCEPT !.ChunkParseOffset = Len(data)], data)
        ELSE Counted([s EXCEPT !.CurrentChunkLength = stoi(Substr(data, Offset + 2, end - 2 - Offset), 16),
                               !.CurrentRecievedChunkData = 0],
                     Substr(data, 0, text) \o Behind(data, end + 2), text)

(* The head: without a length and without chunks, what has come is all.     *)
WithHead(s, data) ==
    LET body == Find(CRLF \o CRLF, data, 0) + 4
        length == p_GetHeaderValue("Content-Length", data)
    IN  IF length # <<>>
        THEN [s EXCEPT !.HeadRecieved = TRUE, !.RequestFinished = FALSE, !.CurrentContentLength = stoi(length, 10),
                       !.RecievedContentData = Len(data) - body]
        ELSE IF p_GetHeaderValue("Transfer-Encoding", data) # <<>>
        THEN [s EXCEPT !.HeadRecieved = TRUE, !.RequestFinished = FALSE, !.IsChunked = TRUE,
                       !.ChunkParseOffset = body - 2]
        ELSE ResetRequestRecieveState(s)
Received(s, data, new) ==
    IF s.IsChunked THEN UpdateAndDechunkData(s, data, s.ChunkParseOffset)
    ELSE LET all == s.RecievedContentData + new
         IN  Dechunked([s EXCEPT !.RecievedContentData = all,
                                 !.RequestFinished = all >= s.CurrentContentLength], data)

(* One call receives pieces until the response is finished or fills the     *)
(* memory; it gives back the data and leaves the socket's state and the     *)
(* pieces that have not come.                                              *)
Waits == <<"waits">>                                \* for ever, in recv
Call(s, data, left) == [socket |-> [s EXCEPT !.ChunkParseOffset = 0], data |-> data, left |-> left]
BehindHead(s, data) == IF s.HeadRecieved THEN Received(s, data, 0) ELSE Dechunked(s, data)
RECURSIVE Recieve(_, _, _, _)
Handled(r, left, MaxBytesInMemory) ==
    IF r.socket.RequestFinished THEN Call(ResetRequestRecieveState(r.socket), r.data, left)
    ELSE IF Len(r.data) >= MaxBytesInMemory THEN Call(r.socket, r.data, left)
    ELSE Recieve(r.socket, r.data, left, MaxBytesInMemory)
Piece(s, now, pieces, MaxBytesInMemory) ==
    IF ~s.HeadRecieved /\ Find(CRLF \o CRLF, now, 0) = npos
    THEN Recieve(s, now, Tail(pieces), MaxBytesInMemory)
    ELSE Handled(IF s.HeadRecieved THEN Received(s, now, Len(pieces[1]))
                 ELSE BehindHead(WithHead(s, now), now), Tail(pieces), MaxBytesInMemory)
Recieve(s, data, pieces, MaxBytesInMemory) ==
    IF pieces = <<>> THEN Call(s, Waits, <<>>)
    ELSE Piece(s, data \o pieces[1], pieces, MaxBytesInMemory)
HTTPGetData(s, pieces, MaxBytesInMemory) == Recieve(s, <<>>, pieces, MaxBytesInMemory)
DataIsAvailable(s) == ~s.RequestFinished

(* The crawler calls while data is available.                              *)
RECURSIVE IndexWebsiteResource(_, _, _)
AfterCall(c, MaxBytesInMemory) ==
    IF ~DataIsAvailable(c.socket) \/ c.data = Waits THEN c
    ELSE [IndexWebsiteResource(c.socket, c.left, MaxBytesInMemory)
             EXCEPT !.data = IF @ = Waits THEN Waits ELSE c.data \o @]
IndexWebsiteResource(s, pieces, MaxBytesInMemory) ==
    AfterCall(HTTPGetData(s, pieces, MaxBytesInMemory), MaxBytesInMemory)
-----------------------------------------------------------------------------
RECURSIVE Joined(_), Chunks(_), Pieces(_, _)
Joined(seqs) == IF seqs = <<>> THEN <<>> ELSE seqs[1] \o Joined(Tail(seqs))
Chunks(seqs) == IF seqs = <<>> THEN <<"0">> \o CRLF
                ELSE <<DigitOf(Len(seqs[1]))>> \o CRLF \o seqs[1] \o CRLF \o Chunks(Tail(seqs))
Pieces(data, cuts) ==
    IF cuts = {} THEN <<data>>
    ELSE LET at == Smallest(cuts)
         IN  <<SubSeq(data, 1, at)>> \o Pieces(Behind(data, at), {c - at : c \in cuts \ {at}})
HeadOf(name, value) == <<"200", name, ": ", value>> \o CRLF \o CRLF

(* A body of a known length is returned behind its head, wherever the      *)
(* connection cuts it, and the socket is ready for the next response.      *)
LengthIsRead(body, cuts, max) ==
    LET all == HeadOf("Content-Length", DigitOf(Len(body))) \o body
    IN  IndexWebsiteResource(NewSocket, Pieces(all, cuts \cap 1..(Len(all) - 1)), max) = Call(NewSocket, all, <<>>)

(* So are the chunks of one, when no cut falls into a chunk's header or     *)
(* parts it from the line end in front of it.  The line end behind the     *)
(* last header stays with what came with it.                               *)
InHeader(all, body, at) ==
    \E p \in body..(Len(all) - 5) : /\ p < at /\ at < p + 5
                                    /\ Substr(all, p, 2) = CRLF /\ Substr(all, p + 3, 2) = CRLF
ChunksAreRead(chunks, cuts, max) ==
    LET head == HeadOf("Transfer-Encoding", "chunked")
        all == head \o Chunks(chunks) \o CRLF
        end == Len(all) - 2
        rest == {c \in cuts : c >= end /\ c < end + 2}
        tail == IF rest = {} THEN CRLF ELSE Substr(CRLF, 0, Smallest(rest) - end)
    IN  \/ \E at \in cuts : at >= Len(all) \/ InHeader(all, Len(head) - 2, at)
        \/ \E read \in {IndexWebsiteResource(NewSocket, Pieces(all, cuts), max)} :
              read.socket = NewSocket /\ read.data = head \o Joined(chunks) \o tail
=============================================================================
