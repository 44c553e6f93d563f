------------------------------ MODULE ChatFile ------------------------------
(***************************************************************************)
(* MBCSendFile_MainLopp on both sides (MrBoboChatt/MrBoboChatt.cpp): a     *)
(* file in chunks, each by one SendData, which may fail after its data has *)
(* been given to the other side or before.  A byte is its place in the     *)
(* file; 0 is a byte of the buffer that was never read.                    *)
(* Operator_Word is a plausible mistake in Operator.                       *)
(***************************************************************************)
EXTENDS Naturals, Sequences

CONSTANTS Lengths,      \* of the file, as both sides have agreed on it
          MaxChunk,     \* DataChunkSize of a long file
          TimoutMax,    \* GetData that gave nothing, one after the other
          MaxFailures   \* bound: SendData that failed

ASSUME FileAssumption == Lengths \subseteq Nat /\ MaxChunk \in Nat

VARIABLES Length, ExtractedData, Data, DataSentSuccesfully,  \* the sender
          onTheWay, failures,
          unsure,              \* a failed SendData had given its data, or lost the handshake
          receiver, NewFile, TimeoutCount

fileVars == <<Length, ExtractedData, Data, DataSentSuccesfully, onTheWay, failures, unsure,
              receiver, NewFile, TimeoutCount>>

Handshake0 == <<0>>
FileInit ==
    /\ Length \in Lengths /\ ExtractedData = 0 /\ Data = Handshake0
    /\ DataSentSuccesfully = FALSE /\ onTheWay = <<>> /\ failures = 0 /\ unsure = FALSE
    /\ receiver = "handshake" /\ NewFile = <<>> /\ TimeoutCount = 0
DataChunkSize == IF Length < MaxChunk THEN Length ELSE MaxChunk

(* SendData tells whether it was answered to the end.                      *)
SendData(data, succeeds) ==
    \/ succeeds /\ onTheWay' = Append(onTheWay, data) /\ UNCHANGED <<failures, unsure>>
    \/ /\ ~succeeds /\ failures < MaxFailures /\ failures' = failures + 1
       /\ \/ onTheWay' = Append(onTheWay, data) /\ unsure' = TRUE
          \/ UNCHANGED onTheWay /\ unsure' = (unsure \/ data = Handshake0)

(* Whether the handshake went is not looked at.                            *)
SendHandshake ==
    /\ Data = Handshake0
    /\ \E succeeds \in BOOLEAN : SendData(Handshake0, succeeds)
    /\ Data' = <<>> /\ DataSentSuccesfully' = TRUE
    /\ UNCHANGED <<Length, ExtractedData, receiver, NewFile, TimeoutCount>>

(* A chunk is read whole, beyond the end of the file too, and sent; after  *)
(* a failure the same one is sent again.                                   *)
NextChunk == [k \in 1..DataChunkSize |->
                 IF ExtractedData + k > Length THEN 0 ELSE ExtractedData + k]
SendChunk_Skips ==
    /\ Data # Handshake0 /\ ExtractedData < Length
    /\ \E data \in {NextChunk}, succeeds \in BOOLEAN :
          /\ SendData(data, succeeds) /\ Data' = data /\ DataSentSuccesfully' = succeeds
          /\ ExtractedData' = ExtractedData + DataChunkSize
    /\ UNCHANGED <<Length, receiver, NewFile, TimeoutCount>>
SendChunk ==
    /\ Data # Handshake0 /\ ExtractedData < Length
    /\ \E data \in {IF DataSentSuccesfully THEN NextChunk ELSE Data}, succeeds \in BOOLEAN :
          /\ SendData(data, succeeds) /\ Data' = data /\ DataSentSuccesfully' = succeeds
          /\ ExtractedData' = ExtractedData + (IF succeeds THEN DataChunkSize ELSE 0)
    /\ UNCHANGED <<Length, receiver, NewFile, TimeoutCount>>

(* The first data is the handshake, whatever it is.                        *)
Receive ==
    /\ onTheWay # <<>> /\ receiver \in {"handshake", "receives"}
    /\ onTheWay' = Tail(onTheWay) /\ TimeoutCount' = 0
    /\ NewFile' = IF receiver = "handshake" THEN NewFile ELSE NewFile \o Head(onTheWay)
    /\ receiver' = IF Len(NewFile') < Length THEN "receives" ELSE "ended"
    /\ UNCHANGED <<Length, ExtractedData, Data, DataSentSuccesfully, failures, unsure>>
(* GetData gives up when it has waited long.                               *)
ReceiveNothing ==
    /\ onTheWay = <<>> /\ receiver \in {"handshake", "receives"}
    /\ TimeoutCount' = IF receiver = "handshake" THEN TimeoutCount ELSE TimeoutCount + 1
    /\ receiver' = IF TimeoutCount' > TimoutMax THEN "gave up" ELSE "receives"
    /\ unsure' = (unsure \/ receiver = "handshake")
    /\ UNCHANGED <<Length, ExtractedData, Data, DataSentSuccesfully, onTheWay, failures, NewFile>>

FileNext == SendHandshake \/ SendChunk \/ Receive \/ ReceiveNothing
-----------------------------------------------------------------------------
(* What is received is the beginning of the file that was sent: a chunk    *)
(* that was lost is sent again and its place kept, and what is read beyond *)
(* the end comes behind the file.  It need not be if SendData failed for   *)
(* data that had been given, which is then sent again too, or if the       *)
(* handshake was missed.                                                   *)
FileArrives ==
    ~unsure => \A k \in 1..Len(NewFile) : k <= Length => NewFile[k] = k
=============================================================================
