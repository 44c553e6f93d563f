----------------------------- MODULE Bencoding -----------------------------
(***************************************************************************)
(* What BitTorrent reads and writes (MBTorrent/MBBitTorrent.cpp): bencoded *)
(* values, torrents, the trackers' answers and the order in which trackers *)
(* are asked.  A text is a sequence of characters, numbers of which a name *)
(* of a dictionary is one; offsets count from 0, and a parser gives        *)
(* <<value, offset>>.  Where std::stoi or substr throws, which ends the    *)
(* program, the operators have no meaning: the texts are such as others    *)
(* write.  Operator_Word is a plausible mistake in Operator.               *)
(***************************************************************************)
EXTENDS Integers, Sequences
CONSTANT HashSize   (* the bytes of a piece's hash, 20 *)

Colon == 58
Slash == 47
Minus == 45
IntegerBegin == 105
ListBegin == 108
DictionaryBegin == 100
End == 101
Announce == 256
AnnounceList == 257
Info == 258
Name == 259
PieceLength == 260
Pieces == 261
LengthKey == 262
Files == 263
Path == 264
Interval == 265
Peers == 266
Failure == 267
Https == 268

At(text, offset) == IF offset < Len(text) THEN text[offset + 1] ELSE 0
Sub(text, from, to) == SubSeq(text, from + 1, IF to > Len(text) THEN Len(text) ELSE to)
Find(text, c, offset) ==
    LET found == {i \in offset..(Len(text) - 1) : text[i + 1] = c}
    IN  IF found = {} THEN Len(text) ELSE CHOOSE i \in found : \A j \in found : i <= j
FindLast(text, c) == CHOOSE i \in 0..Len(text) :
    /\ i < Len(text) => text[i + 1] = c
    /\ \A j \in (i + 1)..(Len(text) - 1) : text[j + 1] # c
Stoi(digits) ==
    LET Number[i \in 0..Len(digits)] ==
            IF i = 0 THEN 0 ELSE IF digits[i] = Minus THEN 0 ELSE Number[i - 1] * 10 + digits[i] - 48
    IN  IF At(digits, 0) = Minus THEN 0 - Number[Len(digits)] ELSE Number[Len(digits)]
Bit(byte, i) == (byte \div 2 ^ i) % 2
-----------------------------------------------------------------------------
(* The pieces as bits, a byte of which is left out at the end if it is 0.  *)
(* On reading, every eight bits are one bit of the first byte.             *)
h_BoolVectorToOctets(bits) ==
    LET Octet(k) == LET Sum[j \in 0..8] == IF j = 0 THEN 0 ELSE
                            Sum[j - 1] * 2 + (IF 8 * k + j <= Len(bits) /\ bits[8 * k + j] THEN 1 ELSE 0)
                    IN  Sum[8]
        whole == Len(bits) \div 8
        rest == Octet(whole)
    IN  [k \in 1..whole |-> Octet(k - 1)] \o (IF rest # 0 THEN <<rest>> ELSE <<>>)
h_BitmapToBoolVector(data) ==
    [k \in 1..(8 * Len(data)) |-> Bit(data[1], 7 - ((k - 1) \div 8)) = 1]
InsertBigEndianInteger(buffer, size, n, offset) ==
    [i \in 1..Len(buffer) |-> IF i \in (offset + 1)..(offset + size)
                              THEN (n \div 256 ^ (size + offset - i)) % 256 ELSE buffer[i]]
ParseBigEndianInteger(data, size, offset) ==
    LET Sum[i \in 0..size] == IF i = 0 THEN 0 ELSE Sum[i - 1] * 256 + At(data, offset + i - 1)
    IN  <<Sum[size], offset + size>>
(* The type comes before the length here, and behind it in other messages. *)
p_SendBitfield(completed) ==
    LET data == <<5, 0, 0, 0, 0>> \o h_BoolVectorToOctets(completed)
    IN  InsertBigEndianInteger(data, 4, Len(data), 1)
-----------------------------------------------------------------------------
h_ParseBencodedString(text, offset) ==
    LET begin == Find(text, Colon, offset) + 1
        size == Stoi(Sub(text, offset, begin - 1))
    IN  <<Sub(text, begin, begin + size), begin + size>>
h_ParseBencodedInteger(text, offset) ==
    LET end == Find(text, End, offset + 1)
    IN  <<Stoi(Sub(text, offset + 1, end)), end + 1>>

RECURSIVE h_ExtractBencodedElementData(_, _), Elements(_, _, _)
BehindElement(text, found, next) == Elements(text, next[2], found \o next[1])
Elements(text, offset, found) ==
    IF At(text, offset) = End THEN <<Append(found, End), offset + 1>>
    ELSE BehindElement(text, found, h_ExtractBencodedElementData(text, offset))
WithLength(length, string) == <<length \o string[1], string[2]>>
h_ExtractBencodedElementData(text, offset) ==
    LET first == At(text, offset)
        integer == Find(text, End, offset)
    IN  IF first = IntegerBegin THEN <<Append(Sub(text, offset, integer), End), integer + 1>>
        ELSE IF first \in {ListBegin, DictionaryBegin} THEN Elements(text, offset + 1, <<first>>)
        ELSE WithLength(Sub(text, offset, Find(text, Colon, offset) + 1), h_ParseBencodedString(text, offset))
(* A key that comes again replaces the first.                              *)
RECURSIVE Entries(_, _, _)
BehindValue(text, found, key, value) ==
    Entries(text, value[2], [k \in DOMAIN found \cup {key} |-> IF k = key THEN value[1] ELSE found[k]])
BehindKey(text, found, key) ==
    BehindValue(text, found, key[1], h_ExtractBencodedElementData(text, key[2]))
Entries(text, offset, found) ==
    IF At(text, offset) = End THEN <<found, offset + 1>>
    ELSE BehindKey(text, found, h_ParseBencodedString(text, offset))
h_ParseBencodedDictionary(text, offset) == Entries(text, offset + 1, [k \in {} |-> <<>>])
String(dictionary, key) == h_ParseBencodedString(dictionary[<<key>>], 0)[1]
Integer(dictionary, key) == h_ParseBencodedInteger(dictionary[<<key>>], 0)[1]
Has(dictionary, key) == <<key>> \in DOMAIN dictionary
-----------------------------------------------------------------------------
(* A character is passed before each tracker of a tier: the list's sign    *)
(* before the first, a digit of the length before another.                 *)
RECURSIVE Tier(_, _, _), TrackerLists(_, _), PathOf(_, _, _), FileList(_, _)
Tier(text, offset, found) ==
    LET next == h_ParseBencodedString(text, offset + 1)
    IN  IF At(text, offset) = End THEN <<found, offset + 1>>
        ELSE Tier(text, next[2], Append(found, next[1]))
TrackerLists(text, offset) ==
    LET tier == Tier(text, offset, <<>>)
    IN  IF At(text, offset) = End THEN <<>> ELSE <<tier[1]>> \o TrackerLists(text, tier[2])
PathOf(text, offset, found) ==
    LET next == h_ParseBencodedString(text, offset)
    IN  IF At(text, offset) = End THEN <<found, offset + 1>>
        ELSE PathOf(text, next[2], Append(found, next[1]))
(* A file's size is what comes first in its dictionary, its path second.   *)
FileList(text, offset) ==
    LET size == h_ParseBencodedInteger(text, h_ParseBencodedString(text, offset + 1)[2])
        path == PathOf(text, h_ParseBencodedString(text, size[2])[2] + 1, <<>>)
    IN  IF At(text, offset) = End THEN <<>>
        ELSE <<[FileSize |-> size[1], SubDirectories |-> path[1]]>> \o FileList(text, path[2] + 1)
SizeOf(files) ==
    LET Sum[i \in 0..Len(files)] == IF i = 0 THEN 0 ELSE Sum[i - 1] + files[i].FileSize
    IN  Sum[Len(files)]
TorrentOf(top, info) ==
    LET hashes == String(info, Pieces)
        files == IF Has(info, Files) /\ ~Has(info, LengthKey) THEN FileList(info[<<Files>>], 1) ELSE <<>>
    IN  [TrackerURL |-> String(top, Announce), Hashed |-> top[<<Info>>],
         OutputName |-> String(info, Name), PieceLength |-> Integer(info, PieceLength),
         PieceHashes |-> [i \in 1..(Len(hashes) \div HashSize) |->
                              SubSeq(hashes, HashSize * (i - 1) + 1, HashSize * i)],
         TrackerLists |-> IF Has(top, AnnounceList) THEN TrackerLists(top[<<AnnounceList>>], 1) ELSE <<>>,
         FileLength |-> IF Has(info, LengthKey) THEN Integer(info, LengthKey) ELSE SizeOf(files),
         Files |-> files]
WithInfo(top) == TorrentOf(top, h_ParseBencodedDictionary(top[<<Info>>], 0)[1])
p_ParseBitTorrent_Torrent(text) == WithInfo(h_ParseBencodedDictionary(text, 0)[1])
-----------------------------------------------------------------------------
(* A tracker's address must have a port.                                   *)
p_GetAnnounceURLConnectionTuple_First(url) ==
    LET begin == Find(url, Colon, 0)
        end == Find(url, Slash, begin)
    IN  [Port |-> Sub(url, begin + 1, end), Adress |-> Sub(url, 0, begin) \o Sub(url, end, Len(url))]
p_GetAnnounceURLConnectionTuple(url) ==
    LET begin == Find(url, Colon, Find(url, Colon, 0) + 1)
        end == Find(url, Slash, begin)
    IN  [Port |-> Sub(url, begin + 1, end), Adress |-> Sub(url, 0, begin) \o Sub(url, end, Len(url))]
(* The peers as a list are never read to its end: an assertion fails.      *)
p_ParseBitTorrent_TrackerResponse(dictionary) ==
    LET data == String(dictionary, Peers)
    IN  [ResendInterval |-> Integer(dictionary, Interval),
         Peers |-> [i \in 1..(Len(data) \div 6) |->
                       [Adress |-> SubSeq(data, 6 * i - 5, 6 * i - 2),
                        Port |-> data[6 * i - 1] * 256 + data[6 * i]]]]
Request(url) ==
    LET tuple == p_GetAnnounceURLConnectionTuple(url)
        host == Sub(tuple.Adress, Find(tuple.Adress, Slash, 0) + 2, Len(tuple.Adress))
    IN  [Host |-> Sub(host, 0, FindLast(host, Slash)), Port |-> tuple.Port,
         Secure |-> tuple.Adress[1] = Https,
         Resource |-> Sub(tuple.Adress, FindLast(tuple.Adress, Slash) + 1, Len(tuple.Adress))]
(* answers[request] is what a tracker answers; the tracker named first is  *)
(* asked first, then tier after tier.  A later tier without a tracker is   *)
(* read beyond its end.                                                    *)
NoResponse == [ResendInterval |-> 0, Peers |-> <<>>]
RECURSIVE AskFrom(_, _, _, _, _, _)
AskNext(lists, tier, list, answers, asked) ==
    LET inTier == list + 1 < Len(lists[tier])
        nextTier == IF inTier THEN tier ELSE tier + 1
        nextList == IF inTier THEN list + 1 ELSE 0
    IN  IF tier > Len(lists) THEN <<asked, NoResponse>>
        ELSE IF nextTier > Len(lists) THEN <<asked, NoResponse>>
        ELSE AskFrom(lists[nextTier][nextList + 1], lists, nextTier, nextList, answers, asked)
Decoded(text) == IF text = <<>> THEN [k \in {<<Failure>>} |-> <<>>]
                 ELSE h_ParseBencodedDictionary(text, 0)[1]
WithAnswer(decoded, lists, tier, list, answers, asked) ==
    IF Has(decoded, Failure) THEN AskNext(lists, tier, list, answers, asked)
    ELSE <<asked, p_ParseBitTorrent_TrackerResponse(decoded)>>
WithRequest(request, lists, tier, list, answers, asked) ==
    WithAnswer(Decoded(answers[request]), lists, tier, list, answers, Append(asked, request))
AskFrom(url, lists, tier, list, answers, asked) ==
    WithRequest(Request(url), lists, tier, list, answers, asked)
p_UpdateTrackerResponse(torrent, answers) ==
    IF torrent.TrackerURL = <<>> THEN <<<<>>, NoResponse>>
    ELSE AskFrom(torrent.TrackerURL, torrent.TrackerLists, 1, -1, answers, <<>>)
-----------------------------------------------------------------------------
(* What others write.                                                      *)
RECURSIVE Bencode(_), DigitsOf(_)
DigitsOf(n) == IF n < 10 THEN <<48 + n>> ELSE Append(DigitsOf(n \div 10), 48 + (n % 10))
Concat(texts) ==
    LET All[i \in 0..Len(texts)] == IF i = 0 THEN <<>> ELSE All[i - 1] \o texts[i]
    IN  All[Len(texts)]
Bencode(v) ==
    CASE v[1] = "String" -> DigitsOf(Len(v[2])) \o <<Colon>> \o v[2]
      [] v[1] = "Integer" -> <<IntegerBegin>> \o (IF v[2] < 0 THEN <<Minus>> ELSE <<>>)
                             \o DigitsOf(IF v[2] < 0 THEN 0 - v[2] ELSE v[2]) \o <<End>>
      [] v[1] = "List" -> <<ListBegin>> \o Concat([i \in 1..Len(v[2]) |-> Bencode(v[2][i])]) \o <<End>>
      [] v[1] = "Dictionary" -> <<DictionaryBegin>> \o Concat([i \in 1..Len(v[2]) |->
             Bencode(<<"String", <<v[2][i][1]>>>>) \o Bencode(v[2][i][2])]) \o <<End>>

(* Any value is cut out of a text whole, and a dictionary gives each of    *)
(* its values to its key.                                                  *)
ElementIsCutOut(v) ==
    /\ h_ExtractBencodedElementData(<<0>> \o Bencode(v) \o <<End>>, 1) = <<Bencode(v), Len(Bencode(v)) + 1>>
    /\ v[1] = "Integer" => h_ParseBencodedInteger(Bencode(v), 0) = <<v[2], Len(Bencode(v))>>
    /\ h_ParseBencodedDictionary(Bencode(<<"Dictionary", <<<<Name, v>>, <<Info, v>>>>>>), 0)[1]
           = [k \in {<<Name>>, <<Info>>} |-> Bencode(v)]

(* A torrent of one file, or of several, is read as it was written, if no  *)
(* tier names more than one tracker.                                       *)
TorrentIsRead(url, trackers, hashes, length, files) ==
    LET S(s) == <<"String", s>>
        Tiers == <<"List", [i \in 1..Len(trackers) |-> <<"List", <<S(trackers[i])>>>>]>>
        Entry(f) == <<"Dictionary", <<<<LengthKey, <<"Integer", f.FileSize>>>>,
                        <<Path, <<"List", [i \in 1..Len(f.SubDirectories) |-> S(f.SubDirectories[i])]>>>>>>>>
        info == <<"Dictionary",
                    (IF files = <<>> THEN <<<<LengthKey, <<"Integer", length>>>>>>
                     ELSE <<<<Files, <<"List", [i \in 1..Len(files) |-> Entry(files[i])]>>>>>>)
                    \o <<<<Name, S(<<97, 98>>)>>, <<PieceLength, <<"Integer", 512>>>>,
                         <<Pieces, S(Concat(hashes))>>>>>>
        torrent == Bencode(<<"Dictionary", <<<<Announce, S(url)>>>>
                                \o (IF trackers = <<>> THEN <<>> ELSE <<<<AnnounceList, Tiers>>>>)
                                \o <<<<Info, info>>>>>>)
    IN  p_ParseBitTorrent_Torrent(torrent) =
            [TrackerURL |-> url, Hashed |-> Bencode(info), OutputName |-> <<97, 98>>,
             PieceLength |-> 512, PieceHashes |-> hashes,
             TrackerLists |-> [i \in 1..Len(trackers) |-> <<trackers[i]>>],
             FileLength |-> IF files = <<>> THEN length ELSE SizeOf(files), Files |-> files]

(* The pieces that are there are the bits that are sent, and the message   *)
(* says its own length.                                                    *)
PiecesAreSent(bits) ==
    LET sent == p_SendBitfield(bits)
        octets == SubSeq(sent, 6, Len(sent))
    IN  /\ ParseBigEndianInteger(sent, 4, 1) = <<Len(sent), 5>>
        /\ \A i \in 1..Len(bits) :
               bits[i] = (Bit(At(octets, (i - 1) \div 8), 7 - ((i - 1) % 8)) = 1)
        /\ Len(h_BitmapToBoolVector(octets)) = 8 * Len(octets)

(* Trackers are asked in the order in which the torrent names them, until  *)
(* one answers with peers; its peers are those it has sent.                *)
TrackersAreAsked(lists, first, answering, peers) ==
    LET Url(t) == <<Https, Colon, Slash, Slash, 97 + t, 98, Colon, 56, 48 + t, Slash, 99>>
        answer == Bencode(<<"Dictionary", <<<<Interval, <<"Integer", 30>>>>,
                              <<Peers, <<"String", Concat([i \in 1..Len(peers) |->
                                  peers[i].Adress \o <<peers[i].Port \div 256, peers[i].Port % 256>>])>>>>>>>>)
        refusal == Bencode(<<"Dictionary", <<<<Failure, <<"String", <<97>>>>>>>>>>)
        order == <<first>> \o Concat(lists)
        all == {order[i] : i \in 1..Len(order)}
        Asks(t) == [Host |-> <<97 + t, 98>>, Port |-> <<56, 48 + t>>, Secure |-> TRUE, Resource |-> <<99>>]
        answers == [r \in {Asks(t) : t \in all} |->
                       LET t == CHOOSE t \in all : Asks(t) = r
                       IN  IF t \in answering THEN answer ELSE IF t = 0 THEN <<>> ELSE refusal]
        good == {i \in 1..Len(order) : order[i] \in answering}
        last == IF good = {} THEN Len(order) ELSE CHOOSE i \in good : \A j \in good : i <= j
    IN  p_UpdateTrackerResponse(
            [TrackerURL |-> Url(first),
             TrackerLists |-> [i \in 1..Len(lists) |-> [j \in 1..Len(lists[i]) |-> Url(lists[i][j])]]],
            answers)
        = <<[i \in 1..last |-> Asks(order[i])],
            IF good = {} THEN NoResponse ELSE [ResendInterval |-> 30, Peers |-> peers]>>
=============================================================================
