---------------------------- MODULE PeerDownload ----------------------------
(***************************************************************************)
(* A BitTorrent download (MBTorrent/MBBitTorrent.cpp): the connection to   *)
(* one peer, with the thread that receives and the thread that retrieves   *)
(* pieces, and the handler's download loop.  What the peer writes is cut   *)
(* anywhere: a message is its size (two units) and its content (units by   *)
(* its kind).  The peers are correct ones and answer requests in order.    *)
(* Undefined behaviour and a failed assertion end the program.             *)
(* Operator_Word is a plausible mistake in Operator.                       *)
(***************************************************************************)
EXTENDS Integers, Sequences

CONSTANTS Torrents,         \* what SavedPieceData may be: the pieces' sizes
          MaxRequestBytes,
          MaxMessages,      \* bound: messages of the peer's own
          MaxPeers          \* bound: peers of the tracker's response

(* Sizes are uintmax_t, a request asks for something.                      *)
ASSUME PeerAssumption == MaxRequestBytes \in Nat \ {0} /\ Torrents \subseteq Seq(Nat)

VARIABLES
    pieces,                                      \* the torrent that is loaded
    peers,                                       \* peers tried
    IsConnected, PeerHandshake,                  \* how much of its handshake has come
    written, OnTheWay,                           \* messages behind it; units to come
    torn,                    \* history: a peer given up left part of a message
    CurrentMessageSize, CurrentMessage, NewMessageData,
    receive,                                     \* where the receiving thread is
    handled,                                     \* messages p_HandleMessage was given
    PeerState, RecievedPeerServiceMessages,
    retrieve,                                    \* where the retrieving thread is
    Interested, NumberOfPendingRequests, CurrentPiece, RecievedPieceMessages,
    AssignedPieces, DownloadState, PieceData, AssignedPiecesFinished,
    requested, answered,                         \* p_SendPieceDataRequests, the peer
    loop,                                        \* where p_DownloadLoop is
    PieceAssigned, FinishedAssignmentsWaiting,
    own                                          \* counted for the bound

stream == <<IsConnected, PeerHandshake, written, OnTheWay, torn>>
parse == <<CurrentMessageSize, CurrentMessage, NewMessageData, receive, handled>>
state == <<PeerState, RecievedPeerServiceMessages>>
retrieval == <<NumberOfPendingRequests, CurrentPiece, AssignedPieces, DownloadState,
               PieceData, AssignedPiecesFinished>>
asked == <<requested, answered>>
handler == <<loop, PieceAssigned, FinishedAssignmentsWaiting>>
peerVars == <<pieces, peers, stream, parse, state, retrieve, Interested,
              RecievedPieceMessages, retrieval, asked, handler, own>>

PeerInit ==
    /\ pieces \in Torrents /\ peers = 0
    /\ IsConnected = FALSE /\ PeerHandshake = 0 /\ written = <<>> /\ OnTheWay = <<>> /\ torn = FALSE
    /\ CurrentMessageSize = -1 /\ CurrentMessage = <<>> /\ NewMessageData = <<>>
    /\ receive = "none" /\ handled = <<>>
    /\ PeerState = [Interested |-> FALSE, Chocked |-> TRUE, OwnedPieces |-> FALSE]
    /\ RecievedPeerServiceMessages = 0
    /\ retrieve = "none" /\ Interested = FALSE
    /\ NumberOfPendingRequests = 0 /\ CurrentPiece = 1 /\ RecievedPieceMessages = <<>>
    /\ AssignedPieces = <<>> /\ DownloadState = <<>> /\ PieceData = <<>>
    /\ AssignedPiecesFinished = FALSE
    /\ requested = <<>> /\ answered = 0
    /\ loop = "connects" /\ PieceAssigned = {} /\ FinishedAssignmentsWaiting = 0 /\ own = 0
-----------------------------------------------------------------------------
(* Every message has a header of two units; so long is the handshake too.  *)
ContentSize(m) == CASE m.kind = "keepalive" -> 0
             [] m.kind \in {"bitfield", "have", "piece", "request"} -> 2
             [] OTHER -> 1
PeerMessage(kind) == [kind |-> kind, piece |-> 0, begin |-> 0, length |-> 0]
UnitsOf(k, m) == [j \in 1..(2 + ContentSize(m)) |-> <<k, j>>]
Rest(data, n) == SubSeq(data, n + 1, Len(data))

(* The sizes a header may give, the messages that may be read from units:  *)
(* the peer's, or, once the units are parts of two messages, any: one of   *)
(* each effect on what is received.                                        *)
ParseBigEndianInteger(data) ==
    IF data[1][2] = 1 /\ data[2] = <<data[1][1], 2>> THEN {ContentSize(written[data[1][1]])}
    ELSE 0..2
Read(message) ==
    IF message = UnitsOf(message[1][1], written[message[1][1]]) THEN {written[message[1][1]]}
    ELSE IF Len(message) = 2 THEN {PeerMessage("keepalive")}
    ELSE {PeerMessage(kind) : kind \in {"unchoke", "bitfield", "have", "request"}}
            \cup {[PeerMessage("piece") EXCEPT !.piece = i, !.length = MaxRequestBytes] : i \in {0, 1}}

(* The messages the peer writes by itself, and its answers.                *)
Writes(m) == /\ written' = Append(written, m)
             /\ OnTheWay' = OnTheWay \o UnitsOf(Len(written) + 1, m)
PeerWrites ==
    /\ IsConnected /\ own < MaxMessages /\ own' = own + 1
    /\ \E kind \in {"keepalive", "choke", "unchoke", "interested", "not_interested",
                    "bitfield", "have", "request", "cancel"} :
            Writes(PeerMessage(kind))
    /\ UNCHANGED <<pieces, peers, IsConnected, PeerHandshake, torn, parse, state, retrieve,
                   Interested, RecievedPieceMessages, retrieval, asked, handler>>
PeerAnswers ==
    /\ IsConnected /\ answered < Len(requested) /\ answered' = answered + 1
    /\ \E r \in {requested[answered + 1]} :
           \/ Writes([r EXCEPT !.kind = "piece"])
           \/ r.length = 0 /\ UNCHANGED <<written, OnTheWay>>
    /\ UNCHANGED <<pieces, peers, IsConnected, PeerHandshake, torn, parse, state, retrieve,
                   Interested, RecievedPieceMessages, retrieval, requested, handler, own>>
-----------------------------------------------------------------------------
(* StartDownload tries the peers until one is connected, and goes on to    *)
(* the download loop without one when there are no more.                   *)
InitiateConnection ==
    /\ loop = "connects" /\ peers < MaxPeers
    /\ peers' = peers + 1 /\ IsConnected' \in BOOLEAN
    /\ PeerHandshake' = 0 /\ OnTheWay' = <<>>
    /\ loop' = IF IsConnected' THEN "handshakes" ELSE "connects"
    /\ UNCHANGED <<pieces, written, torn, parse, state, retrieve, Interested,
                   RecievedPieceMessages, retrieval, asked, PieceAssigned,
                   FinishedAssignmentsWaiting, own>>
StartDownload ==
    /\ loop = "connects" /\ loop' = "transfers"
    /\ UNCHANGED <<pieces, peers, stream, parse, state, retrieve, Interested,
                   RecievedPieceMessages, retrieval, asked, PieceAssigned,
                   FinishedAssignmentsWaiting, own>>

(* The answer to the handshake, with what comes behind it.  If its hash is *)
(* another torrent's the socket is closed, and the next peer is tried, as  *)
(* when the peer has closed it; but what came behind the answer stays in   *)
(* NewMessageData, in front of the next peer's.  The messages of which     *)
(* nothing has come are lost.                                              *)
LastRead == IF NewMessageData' = <<>> THEN <<0, 2>> ELSE NewMessageData'[Len(NewMessageData')]
p_InitiateHandshake ==
    /\ loop = "handshakes"
    /\ \E n \in 1..(2 - PeerHandshake + Len(OnTheWay)) : \E behind \in {PeerHandshake + n - 2} :
          IF behind < 0
          THEN /\ PeerHandshake' = PeerHandshake + n
               /\ UNCHANGED <<IsConnected, written, OnTheWay, torn, NewMessageData, receive,
                              retrieve, loop>>
          ELSE /\ PeerHandshake' = 2 /\ IsConnected' \in {IsConnected, FALSE}
               /\ NewMessageData' = NewMessageData \o SubSeq(OnTheWay, 1, behind)
               /\ IF IsConnected'
                  THEN /\ OnTheWay' = Rest(OnTheWay, behind) /\ UNCHANGED <<written, torn>>
                       /\ receive' = "loop" /\ retrieve' = "loop" /\ loop' = "transfers"
                  ELSE /\ OnTheWay' = <<>> /\ written' = SubSeq(written, 1, LastRead[1])
                       /\ torn' = (torn \/ \E k \in 1..Len(written) :
                                     LastRead[1] = k /\ LastRead[2] # 2 + ContentSize(written[k]))
                       /\ loop' = "connects" /\ UNCHANGED <<receive, retrieve>>
    /\ UNCHANGED <<pieces, peers, CurrentMessageSize, CurrentMessage, handled, state,
                   Interested, RecievedPieceMessages, retrieval, asked, PieceAssigned,
                   FinishedAssignmentsWaiting, own>>

(* A peer that goes away before its handshake has come is waited for for   *)
(* ever.                                                                   *)
Disconnect ==
    /\ IsConnected /\ IsConnected' = FALSE
    /\ UNCHANGED <<pieces, peers, PeerHandshake, written, OnTheWay, torn, parse, state, retrieve,
                   Interested, RecievedPieceMessages, retrieval, asked, handler, own>>
-----------------------------------------------------------------------------
(* m_InternalsMutex is held by the retrieving thread from its tests on; no *)
(* other holder waits for anything under it.                               *)
Held == retrieve \in {"tests", "asks", "handles", "endless"}
Notified == IF retrieve \in {"waits", "awaits"} THEN "notified " \o retrieve ELSE retrieve

(* A have for a piece behind the bit field counts down from 0 and fills    *)
(* the memory; the exception ends the thread.                              *)
p_HandleMessage(m) ==
    /\ PeerState' = CASE m.kind = "interested" -> [PeerState EXCEPT !.Interested = TRUE]
                      [] m.kind = "not_interested" -> [PeerState EXCEPT !.Interested = FALSE]
                      [] m.kind \in {"choke", "keepalive"} -> [PeerState EXCEPT !.Chocked = TRUE]
                      [] m.kind = "unchoke" -> [PeerState EXCEPT !.Chocked = FALSE]
                      [] m.kind = "bitfield" -> [PeerState EXCEPT !.OwnedPieces = TRUE]
                      [] OTHER -> PeerState
    /\ RecievedPieceMessages' = IF m.kind = "piece" THEN Append(RecievedPieceMessages, m)
                                ELSE RecievedPieceMessages
    /\ retrieve' = IF m.kind = "piece" THEN Notified ELSE retrieve
    /\ RecievedPeerServiceMessages' = RecievedPeerServiceMessages
                                         + (IF m.kind = "request" THEN 1 ELSE 0)
    /\ receive' = IF m.kind = "have" /\ ~PeerState.OwnedPieces THEN "ended" ELSE "loop"

(* The bytes that are there, one message at most of them.                  *)
MessageEnd_Forgets(size, message, rest) ==
    IF Len(message) # size + 2
    THEN /\ CurrentMessageSize' = size /\ CurrentMessage' = message
         /\ NewMessageData' = rest /\ receive' = "loop"
         /\ UNCHANGED <<handled, state, RecievedPieceMessages, retrieve>>
    ELSE /\ CurrentMessageSize' = -1 /\ CurrentMessage' = <<>> /\ NewMessageData' = <<>>
         /\ handled' = Append(handled, message)
         /\ \E m \in Read(message) : p_HandleMessage(m)
MessageEnd(size, message, rest) ==
    IF Len(message) # size + 2
    THEN /\ CurrentMessageSize' = size /\ CurrentMessage' = message
         /\ NewMessageData' = rest /\ receive' = "loop"
         /\ UNCHANGED <<handled, state, RecievedPieceMessages, retrieve>>
    ELSE /\ CurrentMessageSize' = -1 /\ CurrentMessage' = <<>> /\ NewMessageData' = rest
         /\ handled' = Append(handled, message)
         /\ \E m \in Read(message) : p_HandleMessage(m)
Parse(data) ==
    IF CurrentMessageSize = -1
    THEN \E size \in ParseBigEndianInteger(data) : \E n \in {size + 2} :
            MessageEnd(size, SubSeq(data, 1, IF n > Len(data) THEN Len(data) ELSE n), Rest(data, n))
    ELSE \E n \in {CurrentMessageSize + 2 - Len(CurrentMessage)} :
            MessageEnd(CurrentMessageSize,
                       CurrentMessage \o SubSeq(data, 1, IF n > Len(data) THEN Len(data) ELSE n),
                       Rest(data, n))

(* One turn of the loop; while the size is not there it receives again     *)
(* without a look at the connection.                                       *)
p_RecievePeerMessagesHandler ==
    /\ receive \in {"loop", "size"} /\ ~Held
    /\ \E n \in 0..Len(OnTheWay) : \E data \in {NewMessageData \o SubSeq(OnTheWay, 1, n)} :
          /\ n > 0 \/ ~IsConnected
          /\ OnTheWay' = Rest(OnTheWay, n)
          /\ IF receive = "loop" /\ ~IsConnected
             THEN n = 0 /\ receive' = "ended"
                  /\ UNCHANGED <<CurrentMessageSize, CurrentMessage, NewMessageData, handled,
                                 state, RecievedPieceMessages, retrieve>>
             ELSE IF CurrentMessageSize = -1 /\ Len(data) < 2
             THEN NewMessageData' = data /\ receive' = "size"
                  /\ UNCHANGED <<CurrentMessageSize, CurrentMessage, handled, state,
                                 RecievedPieceMessages, retrieve>>
             ELSE Parse(data)
    /\ UNCHANGED <<pieces, peers, IsConnected, PeerHandshake, written, torn, Interested,
                   retrieval, asked, handler, own>>
-----------------------------------------------------------------------------
(* The retrieving thread.  Interested is tested under the mutex but set    *)
(* without it: it may be set, and the notification be given, before the    *)
(* wait.                                                                   *)
TestInterested ==
    /\ \/ retrieve = "loop" /\ IsConnected
       \/ retrieve = "notified waits"
    /\ retrieve' = IF Interested THEN "asks" ELSE "tests"
    /\ UNCHANGED <<pieces, peers, stream, parse, state, Interested, RecievedPieceMessages,
                   retrieval, asked, handler, own>>
WaitInterested ==
    /\ retrieve = "tests" /\ retrieve' = "waits"
    /\ UNCHANGED <<pieces, peers, stream, parse, state, Interested, RecievedPieceMessages,
                   retrieval, asked, handler, own>>

(* All pieces are requested at once: NumberOfRequests is not counted.  The *)
(* bytes requested are not set back for the next piece, so that a piece of *)
(* the same size is asked for behind its end, and for a shorter one the    *)
(* loop goes on for ever.                                                  *)
Blocks(i) == LET size == DownloadState[i].PieceSize
                 n == (size + MaxRequestBytes - 1) \div MaxRequestBytes
             IN  [k \in 1..n |->
                    [kind |-> "request", piece |-> DownloadState[i].PieceIndex,
                     begin |-> (k - 1) * MaxRequestBytes,
                     length |-> IF k < n THEN MaxRequestBytes
                                ELSE size - (n - 1) * MaxRequestBytes]]
BehindEnd(i) == [kind |-> "request", piece |-> DownloadState[i].PieceIndex,
                 begin |-> DownloadState[i].PieceSize, length |-> 0]
p_SendPieceDataRequests ==
    IF \E i \in 2..Len(DownloadState) : DownloadState[i].PieceSize < DownloadState[1].PieceSize
    THEN retrieve' = "endless" /\ UNCHANGED <<requested, CurrentPiece>>
    ELSE /\ requested' = requested \o Blocks(1)
                             \o [i \in 1..(Len(DownloadState) - 1) |-> BehindEnd(i + 1)]
         /\ CurrentPiece' = Len(DownloadState) + 1
         /\ retrieve' = "handles"
RequestPieces ==
    /\ retrieve = "asks"
    /\ IF NumberOfPendingRequests = 0 /\ CurrentPiece <= Len(DownloadState)
       THEN p_SendPieceDataRequests
       ELSE retrieve' = "handles" /\ UNCHANGED <<requested, CurrentPiece>>
    /\ UNCHANGED <<pieces, peers, stream, parse, state, Interested, RecievedPieceMessages,
                   NumberOfPendingRequests, AssignedPieces, DownloadState, PieceData,
                   AssignedPiecesFinished, answered, handler, own>>
AwaitPieces ==
    /\ \/ retrieve = "handles" /\ RecievedPieceMessages = <<>> /\ retrieve' = "awaits"
       \/ retrieve = "notified awaits" /\ retrieve' = "handles"
    /\ UNCHANGED <<pieces, peers, stream, parse, state, Interested, RecievedPieceMessages,
                   retrieval, asked, handler, own>>

(* Only the first piece has a string for its data, and a piece's data must *)
(* be the next.  The program ends otherwise.                               *)
Position(m) == {i \in 1..Len(DownloadState) : DownloadState[i].PieceIndex = m.piece}
Follows(m) == \A i \in Position(m) : i = 1 /\ PieceData # <<>>
                                     /\ DownloadState[i].CurrentOffset = m.begin
sp_UpdatePieceDownloadState(m) ==
    LET updated == [i \in 1..Len(DownloadState) |->
            IF i \notin Position(m) THEN DownloadState[i]
            ELSE [DownloadState[i] EXCEPT
                    !.CurrentOffset = @ + m.length,
                    !.Completed = @ \/ DownloadState[i].CurrentOffset + m.length
                                           = DownloadState[i].PieceSize]]
    IN  /\ DownloadState' = updated
        /\ PieceData' = IF Position(m) = {} THEN PieceData ELSE <<Append(PieceData[1], m)>>
        /\ AssignedPiecesFinished' = \A i \in 1..Len(DownloadState) : updated[i].Completed
RetrievePiece ==
    /\ retrieve = "handles" /\ RecievedPieceMessages # <<>>
    /\ \E m \in {Head(RecievedPieceMessages)} :
          IF ~Follows(m)
          THEN loop' = "undefined" /\ UNCHANGED <<retrieve, Interested, RecievedPieceMessages,
                                                  retrieval, FinishedAssignmentsWaiting>>
          ELSE /\ sp_UpdatePieceDownloadState(m)
               /\ RecievedPieceMessages' = Tail(RecievedPieceMessages)
               /\ NumberOfPendingRequests' = -1
               /\ \E finished \in {AssignedPiecesFinished'} :
                    /\ FinishedAssignmentsWaiting' = FinishedAssignmentsWaiting
                                                        + (IF finished THEN 1 ELSE 0)
                    /\ loop' = IF finished /\ loop = "waits" THEN "transfers" ELSE loop
               /\ retrieve' = IF Len(RecievedPieceMessages) > 1 THEN "handles" ELSE "loop"
               /\ UNCHANGED <<Interested, CurrentPiece, AssignedPieces>>
    /\ UNCHANGED <<pieces, peers, stream, parse, state, asked, PieceAssigned, own>>
-----------------------------------------------------------------------------
(* The download loop: AssignedPiecesAreFinished is true whatever it finds. *)
(* TransferAssignedPieces takes the data away before TransferPiecedata, so *)
(* that p_SavePiecesAndState reads behind the end of an empty list.        *)
TransferAssignedPieces ==
    /\ loop = "transfers" /\ ~Held
    /\ PieceData' = <<>> /\ AssignedPieces' = <<>>
    /\ loop' = IF AssignedPieces = <<>> THEN "resets" ELSE "undefined"
    /\ UNCHANGED <<pieces, peers, stream, parse, state, retrieve, Interested,
                   RecievedPieceMessages, NumberOfPendingRequests, CurrentPiece, DownloadState,
                   AssignedPiecesFinished, asked, PieceAssigned, FinishedAssignmentsWaiting, own>>
ResetDownloadState ==
    /\ loop = "resets" /\ ~Held /\ loop' = "assigns"
    /\ PieceAssigned' = 1..Len(pieces)
    /\ NumberOfPendingRequests' = 0 /\ CurrentPiece' = 1 /\ RecievedPieceMessages' = <<>>
    /\ AssignedPieces' = <<>> /\ DownloadState' = <<>> /\ PieceData' = <<>>
    /\ AssignedPiecesFinished' = FALSE
    /\ UNCHANGED <<pieces, peers, stream, parse, state, retrieve, Interested, asked,
                   FinishedAssignmentsWaiting, own>>
AssignPieces ==
    /\ loop = "assigns" /\ ~Held /\ loop' = "stores"
    /\ DownloadState' = [i \in 1..Len(pieces) |->
            [PieceIndex |-> i, PieceSize |-> pieces[i], CurrentOffset |-> 0, Completed |-> FALSE]]
    /\ AssignedPieces' = DownloadState' /\ PieceData' = Append(PieceData, <<>>)
    /\ UNCHANGED <<pieces, peers, stream, parse, state, retrieve, Interested,
                   RecievedPieceMessages, NumberOfPendingRequests, CurrentPiece,
                   AssignedPiecesFinished, asked, PieceAssigned, FinishedAssignmentsWaiting, own>>
StoreInterested ==
    /\ loop = "stores" /\ loop' = "notifies" /\ Interested' = TRUE
    /\ UNCHANGED <<pieces, peers, stream, parse, state, retrieve, RecievedPieceMessages,
                   retrieval, asked, PieceAssigned, FinishedAssignmentsWaiting, own>>
NotifyAssigned ==
    /\ loop = "notifies" /\ retrieve' = Notified
    /\ loop' = IF FinishedAssignmentsWaiting = 0 THEN "waits" ELSE "transfers"
    /\ UNCHANGED <<pieces, peers, stream, parse, state, Interested, RecievedPieceMessages,
                   retrieval, asked, PieceAssigned, FinishedAssignmentsWaiting, own>>

PeerNext ==
    /\ loop # "undefined"
    /\ \/ InitiateConnection \/ StartDownload \/ p_InitiateHandshake \/ Disconnect
       \/ PeerWrites \/ PeerAnswers
       \/ p_RecievePeerMessagesHandler
       \/ TestInterested \/ WaitInterested \/ RequestPieces \/ AwaitPieces \/ RetrievePiece
       \/ TransferAssignedPieces \/ ResetDownloadState \/ AssignPieces \/ StoreInterested
       \/ NotifyAssigned
-----------------------------------------------------------------------------
(* However the streams are cut, p_HandleMessage is given the messages      *)
(* received whole, each once and in order, those that a peer given up sent *)
(* behind its handshake before the next one's; an assignment is reported   *)
(* as finished only when the piece's data is there from its beginning to   *)
(* its end.  It is said as long as what such peers left ends with a whole  *)
(* message: part of one puts all that follows out of step.                 *)
PeerDataInOrder ==
    ~ torn =>
    /\ \A k \in 1..Len(handled) : handled[k] = UnitsOf(k, written[k])
    /\ FinishedAssignmentsWaiting > 0 /\ PieceData # <<>> =>
          /\ \A k \in 1..Len(PieceData[1]) :
                PieceData[1][k].begin = (k - 1) * MaxRequestBytes
          /\ DownloadState[1].CurrentOffset = pieces[1]
=============================================================================
