---------------------------- MODULE MCProtocols ----------------------------
(* The parts of the chat, the download of a torrent and a file's stream,   *)
(* each by itself.                                                         *)
EXTENDS ChatConnect, ChatInput, ChatTransfer, ChatFile, PeerDownload, HttpStream

VARIABLE part

FirstPort == LocalFirstMessagePort + LocalFirstMessagePort
SomeUsedPorts == {[p \in Callers |-> IF p = "ann" THEN {FirstPort} ELSE used] :
                     used \in {{}, {FirstPort}, {FirstPort, FirstPort + 1}}}
SomeFiles == [c \in Chats |-> IF c = "ann" THEN <<"a1", "a2">> ELSE <<>>]
SomeLines == [c \in Chats |-> IF c = "ann" THEN 0 ELSE 3]
SomeTorrents == {<<3>>, <<2, 2>>, <<2, 1>>}

Init == /\ part \in {"connect", "input", "transfer", "file", "download", "stream"}
        /\ ConnectInit /\ InputInit /\ TransferInit /\ FileInit /\ PeerInit /\ StreamInit
        /\ part # "connect" => \E p \in Callers : UsedPorts[p] = {}
        /\ part # "input" => IsWindows
        /\ part # "file" => Length = 0
        /\ part # "download" => pieces = <<3>>
        /\ part # "stream" => FileSize = 0
Next == /\ UNCHANGED part
        /\ \/ /\ part = "connect" /\ ConnectNext
              /\ UNCHANGED <<inputVars, transferVars, fileVars, peerVars, streamVars>>
           \/ /\ part = "input" /\ InputNext
              /\ UNCHANGED <<connectVars, transferVars, fileVars, peerVars, streamVars>>
           \/ /\ part = "transfer" /\ TransferNext
              /\ UNCHANGED <<connectVars, inputVars, fileVars, peerVars, streamVars>>
           \/ /\ part = "file" /\ FileNext
              /\ UNCHANGED <<connectVars, inputVars, transferVars, peerVars, streamVars>>
           \/ /\ part = "download" /\ PeerNext
              /\ UNCHANGED <<connectVars, inputVars, transferVars, fileVars, streamVars>>
           \/ /\ part = "stream" /\ StreamNext
              /\ UNCHANGED <<connectVars, inputVars, transferVars, fileVars, peerVars>>
Spec == Init /\ [][Next]_<<part, connectVars, inputVars, transferVars, fileVars, peerVars, streamVars>>
=============================================================================
