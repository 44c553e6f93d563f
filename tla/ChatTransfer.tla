---------------------------- MODULE ChatTransfer ----------------------------
(***************************************************************************)
(* ChatMainFunction on both sides of a connection: the handshake, the      *)
(* lines the users enter, the messages that come, and the request to send  *)
(* a file (MrBoboChatt/MrBoboChatt.cpp).  What SendData gives to the       *)
(* connection arrives once and in order, as MbTcp has it; a message is     *)
(* its kind and the file it is about, a file's size is the file's.         *)
(* Operator_Word is a plausible mistake in Operator.                       *)
(***************************************************************************)
EXTENDS Naturals, Sequences

CONSTANTS Chats,     \* the two sides
          File,      \* the files the user of each side asks to send
          MaxLines   \* bound: lines the user of each side enters

ASSUME ChatsAssumption == \E a, b \in Chats : a # b /\ Chats = {a, b}

VARIABLES at,                 \* "shakes" or "runs"
          channel,            \* messages on their way to a chat
          Messages,           \* those behind LastReadMessage
          RecievedMessage,
          unread,             \* messages the loop over them has still to read
          isCurrent,          \* GetCurrentConnection() is this connection
          ConnectionInput, RecievedInput,
          pops,               \* i of the loop over ConnectionInput, 0 outside it
          SentFileTransferRequest, PeerSentFileTransferRequest, AcceptedFileTransfer,
          SizeOfPeerFile,
          FileLocalWantedToSend,   \* and with it SizeOfLocalFile
          started,            \* the transfers MBCSendFile_MainLopp was started for
          lines, requests,    \* counted for the bounds
          crossed             \* history: a request was sent before the last was settled

transferVars == <<at, channel, Messages, RecievedMessage, unread, isCurrent,
                  ConnectionInput, RecievedInput, pops, SentFileTransferRequest,
                  PeerSentFileTransferRequest, AcceptedFileTransfer, SizeOfPeerFile,
                  FileLocalWantedToSend, started, lines, requests, crossed>>
flags == <<SentFileTransferRequest, PeerSentFileTransferRequest, AcceptedFileTransfer,
           SizeOfPeerFile, FileLocalWantedToSend, crossed>>
inputs == <<ConnectionInput, RecievedInput, pops, lines, requests>>
received == <<Messages, RecievedMessage, unread>>

Of(kind) == [kind |-> kind, file |-> "none"]
Peer(c) == CHOOSE d \in Chats : d # c
Send(c, m) == channel' = [channel EXCEPT ![Peer(c)] = Append(@, m)]
Begin(c, way, size) == started' = [started EXCEPT ![c][way] = Append(@, size)]

(* Nothing is left of a chat's last request: it waits for no answer, none  *)
(* is on its way, and the peer has none of it to answer.                   *)
Pipe(c) == Messages[c] \o channel[c]
None(s, kind) == \A i \in 1 .. Len(s) : s[i].kind # kind
Settled(c) ==
    /\ ~ SentFileTransferRequest[c] /\ None(Pipe(c), "accepted") /\ None(Pipe(c), "declined")
    /\ ~ PeerSentFileTransferRequest[Peer(c)] /\ ~ AcceptedFileTransfer[Peer(c)]
    /\ None(Pipe(Peer(c)), "sendfile")

TransferInit ==
    /\ at = [c \in Chats |-> "shakes"]
    /\ channel = [c \in Chats |-> <<Of("AcceptConnection")>>]
    /\ Messages = [c \in Chats |-> <<>>] /\ unread = [c \in Chats |-> 0]
    /\ RecievedMessage = [c \in Chats |-> FALSE] /\ isCurrent = [c \in Chats |-> TRUE]
    /\ ConnectionInput = [c \in Chats |-> <<>>] /\ RecievedInput = [c \in Chats |-> FALSE]
    /\ pops = [c \in Chats |-> 0]
    /\ SentFileTransferRequest = [c \in Chats |-> FALSE]
    /\ PeerSentFileTransferRequest = [c \in Chats |-> FALSE]
    /\ AcceptedFileTransfer = [c \in Chats |-> FALSE]
    /\ SizeOfPeerFile = [c \in Chats |-> "none"]
    /\ FileLocalWantedToSend = [c \in Chats |-> "none"]
    /\ started = [c \in Chats |-> [send |-> <<>>, receive |-> <<>>]]
    /\ lines = [c \in Chats |-> 0] /\ requests = [c \in Chats |-> 0]
    /\ crossed = [c \in Chats |-> FALSE]
-----------------------------------------------------------------------------
(* The listener's thread puts every message into the list.                 *)
ChatMainFunction_Listener(c) ==
    /\ channel[c] # <<>>
    /\ channel' = [channel EXCEPT ![c] = Tail(@)]
    /\ Messages' = [Messages EXCEPT ![c] = Append(@, Head(channel[c]))]
    /\ RecievedMessage' = [RecievedMessage EXCEPT ![c] = TRUE]
    /\ UNCHANGED <<at, unread, isCurrent, inputs, flags, started>>

(* The first message ends the handshake; it stays in the list, to be       *)
(* passed over by the loop.                                                *)
Handshake(c) ==
    /\ at[c] = "shakes" /\ RecievedMessage[c]
    /\ RecievedMessage' = [RecievedMessage EXCEPT ![c] = FALSE]
    /\ Send(c, Of("AcceptConnection"))
    /\ at' = [at EXCEPT ![c] = "runs"]
    /\ UNCHANGED <<Messages, unread, isCurrent, inputs, flags, started>>

(* The user: makes another connection the current one, or this one again,  *)
(* enters a line or the command that sends a file.                         *)
SwitchConnection(c) ==
    /\ isCurrent' = [isCurrent EXCEPT ![c] = ~@]
    /\ UNCHANGED <<at, channel, received, inputs, flags, started>>
SendDataToConnection(c, line) ==
    /\ isCurrent[c]
    /\ ConnectionInput' = [ConnectionInput EXCEPT ![c] = Append(@, line)]
    /\ RecievedInput' = [RecievedInput EXCEPT ![c] = TRUE]
    /\ UNCHANGED <<at, channel, received, isCurrent, flags, pops, started>>
EnterLine(c) ==
    /\ at[c] = "runs" /\ lines[c] < MaxLines[c]
    /\ \E kind \in {"y", "n"} : SendDataToConnection(c, Of(kind))
    /\ lines' = [lines EXCEPT ![c] = @ + 1] /\ UNCHANGED requests
(* Nothing is asked of a request that is still to be answered.             *)
MBCSendFile(c) ==
    /\ at[c] = "runs" /\ requests[c] < Len(File[c])
    /\ SendDataToConnection(c, [kind |-> "sendfile", file |-> File[c][requests[c] + 1]])
    /\ requests' = [requests EXCEPT ![c] = @ + 1] /\ UNCHANGED lines
-----------------------------------------------------------------------------
(* A message, in the order of the list.  The loop begins when the listener *)
(* has set RecievedMessage and the connection is the current one, and goes *)
(* over the messages that are there then.                                  *)
Answered_Again(c, m) ==
    IF SentFileTransferRequest[c] /\ m.kind \in {"accepted", "declined"}
    THEN /\ UNCHANGED SentFileTransferRequest
         /\ IF m.kind = "accepted"
            THEN Begin(c, "send", FileLocalWantedToSend[c]) ELSE UNCHANGED started
    ELSE UNCHANGED <<SentFileTransferRequest, started>>
Answered(c, m) ==
    IF SentFileTransferRequest[c] /\ m.kind \in {"accepted", "declined"}
    THEN /\ SentFileTransferRequest' = [SentFileTransferRequest EXCEPT ![c] = FALSE]
         /\ IF m.kind = "accepted"
            THEN Begin(c, "send", FileLocalWantedToSend[c]) ELSE UNCHANGED started
    ELSE UNCHANGED <<SentFileTransferRequest, started>>
HandleMessage(c) ==
    /\ at[c] = "runs" /\ pops[c] = 0 /\ Messages[c] # <<>>
    /\ unread[c] > 0 \/ (isCurrent[c] /\ RecievedMessage[c])
    /\ unread' = [unread EXCEPT ![c] = IF @ > 0 THEN @ - 1 ELSE Len(Messages[c]) - 1]
    /\ RecievedMessage' = [RecievedMessage EXCEPT ![c] = @ /\ unread[c] > 0]
    /\ Messages' = [Messages EXCEPT ![c] = Tail(@)]
    /\ \E m \in {Head(Messages[c])} :
          IF m.kind = "sendfile"
          THEN /\ SizeOfPeerFile' = [SizeOfPeerFile EXCEPT ![c] = m.file]
               /\ PeerSentFileTransferRequest' = [PeerSentFileTransferRequest EXCEPT ![c] = TRUE]
               /\ UNCHANGED <<SentFileTransferRequest, started>>
          ELSE /\ Answered(c, m)
               /\ UNCHANGED <<SizeOfPeerFile, PeerSentFileTransferRequest>>
    /\ UNCHANGED <<at, channel, isCurrent, inputs, AcceptedFileTransfer, FileLocalWantedToSend,
                   crossed>>
-----------------------------------------------------------------------------
(* A line: the name the received file is to have, the answer to a request, *)
(* a request, or a text.                                                   *)
ReceiveFile(c) ==
    /\ Send(c, Of("accepted"))
    /\ Begin(c, "receive", SizeOfPeerFile[c])
    /\ PeerSentFileTransferRequest' = [PeerSentFileTransferRequest EXCEPT ![c] = FALSE]
    /\ AcceptedFileTransfer' = [AcceptedFileTransfer EXCEPT ![c] = FALSE]
    /\ UNCHANGED <<SentFileTransferRequest, FileLocalWantedToSend, crossed>>
AnswerRequest(c, kind) ==
    /\ UNCHANGED <<SentFileTransferRequest, FileLocalWantedToSend, crossed, started>>
    /\ CASE kind = "y" ->
              /\ Send(c, Of("accepted"))
              /\ AcceptedFileTransfer' = [AcceptedFileTransfer EXCEPT ![c] = TRUE]
              /\ UNCHANGED PeerSentFileTransferRequest
         [] kind = "n" ->
              /\ Send(c, Of("declined"))
              /\ PeerSentFileTransferRequest' = [PeerSentFileTransferRequest EXCEPT ![c] = FALSE]
              /\ AcceptedFileTransfer' = [AcceptedFileTransfer EXCEPT ![c] = FALSE]
         [] OTHER -> UNCHANGED <<channel, PeerSentFileTransferRequest, AcceptedFileTransfer>>
(* A request overwrites the last one, whether or not it was answered.      *)
SendFileRequest(c, file) ==
    /\ SentFileTransferRequest' = [SentFileTransferRequest EXCEPT ![c] = TRUE]
    /\ FileLocalWantedToSend' = [FileLocalWantedToSend EXCEPT ![c] = file]
    /\ crossed' = [crossed EXCEPT ![c] = @ \/ ~ Settled(c)]
HandleLine(c, line) ==
    CASE AcceptedFileTransfer[c] -> ReceiveFile(c)
      [] ~AcceptedFileTransfer[c] /\ PeerSentFileTransferRequest[c] -> AnswerRequest(c, line.kind)
      [] OTHER ->
            /\ Send(c, line)
            /\ IF line.kind = "sendfile" THEN SendFileRequest(c, line.file)
               ELSE UNCHANGED <<SentFileTransferRequest, FileLocalWantedToSend, crossed>>
            /\ UNCHANGED <<PeerSentFileTransferRequest, AcceptedFileTransfer, started>>

(* i counts up while the list it is compared with gets shorter: of several *)
(* lines half are taken, and the others when the next one comes.           *)
HandleInput(c) ==
    /\ at[c] = "runs" /\ unread[c] = 0 /\ ConnectionInput[c] # <<>>
    /\ RecievedInput[c] \/ pops[c] > 0
    /\ HandleLine(c, Head(ConnectionInput[c]))
    /\ ConnectionInput' = [ConnectionInput EXCEPT ![c] = Tail(@)]
    /\ RecievedInput' = IF pops[c] > 0 THEN RecievedInput ELSE [RecievedInput EXCEPT ![c] = FALSE]
    /\ pops' = [pops EXCEPT ![c] = IF @ + 1 < Len(ConnectionInput[c]) - 1 THEN @ + 1 ELSE 0]
    /\ UNCHANGED <<at, received, isCurrent, SizeOfPeerFile, lines, requests>>

TransferNext == \E c \in Chats :
    \/ ChatMainFunction_Listener(c) \/ Handshake(c) \/ SwitchConnection(c)
    \/ EnterLine(c) \/ MBCSendFile(c) \/ HandleMessage(c) \/ HandleInput(c)
-----------------------------------------------------------------------------
(* The files a side has begun to send are the ones, and in the order, the  *)
(* other has begun to receive or is about to, once the name is entered,    *)
(* however many transfers follow one another: no acceptance begins two     *)
(* transfers, although each is sent twice, none is taken for that of a     *)
(* later request, and no two transfers have got another's size. It is said *)
(* of a side whose requests never crossed: the program keeps one request   *)
(* in mind, and one sent before the last was settled takes the answer      *)
(* meant for that.                                                         *)
TransfersAgree ==
    \A c \in Chats : ~ crossed[c] => \E name \in {Peer(c)} :
        \E promised \in {started[name].receive \o
                (IF AcceptedFileTransfer[name] THEN <<SizeOfPeerFile[name]>> ELSE <<>>)} :
            /\ Len(started[c].send) <= Len(promised)
            /\ started[c].send = SubSeq(promised, 1, Len(started[c].send))
=============================================================================
