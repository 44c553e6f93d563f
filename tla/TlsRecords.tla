----------------------------- MODULE TlsRecords -----------------------------
(***************************************************************************)
(* The record layer of TLSHandler (MrBoboSockets/TLSHandler.cpp) on an     *)
(* established connection: the peer sends records with SendDataAsRecord,   *)
(* TCP delivers their bytes in pieces, and GetApplicationData of the       *)
(* receiving side puts the records together again, decrypts them in order  *)
(* and hands the data of one of them to its caller.                        *)
(*                                                                         *)
(* The bytes are a stream, and a string the code holds is a stretch of it, *)
(* (from, to]: only its ends are kept.  A record's size is that of what is  *)
(* sent, and its encryption is tied to its number by both sides' counters.  *)
(*                                                                         *)
(* An operator whose name ends in an underscore and a word is the one      *)
(* after it with a plausible mistake; it shows what a property notices.    *)
(***************************************************************************)
EXTENDS Naturals, Sequences

CONSTANTS Records,       \* the records the peer sends: [kind, size]
          MinPiece       \* the least that recv returns, while there is as much

HeaderSize == 5          \* type, version and length of a record
Kinds == {"data", "warning", "fatal"}

ASSUME RecordsAssumption ==
    /\ Records \in Seq([kind : Kinds, size : Nat \ {0}])
    /\ MinPiece \in Nat \ {0}

VARIABLES
    written,         \* the peer: records written,
    peerIs,          \*   and whether it has closed or reset the connection
    connected,       \* IsConnected and IsValid of the socket
    isConnected,     \* IsConnected of the handler
    received,        \* bytes taken off the socket
    at,              \* where the receiving thread is
    start, offset,   \* NewRecordData is (start, received], and
                     \* RecievedDataOffset as a place in the stream
    extracted,       \* NewRecordExtracted
    previous,        \* CurrentRecordPreviousData is (previous, received]
    newRecords,      \* NewRecords, each the place it begins at
    storedRecords,   \* StoredRecords, likewise
    sequenceNumber,  \* records decrypted
    given,           \* history: the records given to the application, in order
    empty            \* whether the last call gave nothing

peer == <<written, peerIs>>
parsing == <<start, offset, extracted, newRecords>>
results == <<sequenceNumber, given, empty>>
vars == <<peer, connected, isConnected, received, at, parsing, previous,
          storedRecords, results>>

(* Record i is (Begins[i], Begins[i + 1]]. *)
Begins ==
    LET B[i \in 1 .. Len(Records) + 1] ==
            IF i = 1 THEN 0 ELSE B[i - 1] + HeaderSize + Records[i - 1].size
    IN  B
Sent == Begins[written + 1]

Init == /\ written = 0 /\ peerIs = "open"
        /\ connected = TRUE /\ isConnected = TRUE /\ received = 0
        /\ at = "idle"
        /\ start = 0 /\ offset = 0 /\ extracted = FALSE
        /\ newRecords = <<>> /\ previous = 0 /\ storedRecords = <<>>
        /\ sequenceNumber = 0 /\ given = <<>> /\ empty = FALSE

Goto(here, there) == at = here /\ at' = there

-----------------------------------------------------------------------------
(* The peer. *)

Write == /\ peerIs = "open" /\ written < Len(Records)
         /\ written' = written + 1
         /\ UNCHANGED <<peerIs, connected, isConnected, received, at, parsing,
                        previous, storedRecords, results>>

(* It closes, and what it wrote still arrives; or it resets.                *)
ClosePeer == /\ peerIs = "open" /\ peerIs' \in {"closed", "reset"}
             /\ UNCHANGED <<written, connected, isConnected, received, at,
                            parsing, previous, storedRecords, results>>

-----------------------------------------------------------------------------
(* GetNextRawProtocol.                                                     *)

(* RecieveData, appended to NewRecordData: some of what the peer has sent,  *)
(* or nothing at the end of that or after a reset.                         *)
RecieveData ==
    \/ /\ \E n \in received + 1 .. Sent :
             /\ n >= received + MinPiece \/ n = Sent
             /\ received' = n
       /\ UNCHANGED connected
    \/ /\ peerIs # "open" /\ (peerIs = "closed" => received = Sent)
       /\ connected' = FALSE
       /\ UNCHANGED received

(* A record put aside by an earlier call is the next one. *)
TakeStored ==
    /\ Goto("idle", "record") /\ isConnected
    /\ storedRecords # <<>>
    /\ newRecords' = <<Head(storedRecords)>>
    /\ storedRecords' = Tail(storedRecords)
    /\ UNCHANGED <<peer, connected, isConnected, received, start, offset,
                   extracted, previous, results>>

(* Else the bytes kept by an earlier call come first, and more are received. *)
FirstPiece ==
    /\ Goto("idle", "first") /\ isConnected
    /\ storedRecords = <<>>
    /\ start' = previous /\ offset' = previous
    /\ extracted' = FALSE /\ newRecords' = <<>>
    /\ RecieveData
    /\ previous' = received'
    /\ UNCHANGED <<peer, isConnected, storedRecords, results>>

Size == received - start

(* Nothing at all is returned as such; less than a header is received once *)
(* more.                                                                   *)
Nothing == /\ Goto("first", "none") /\ Size = 0
           /\ UNCHANGED <<peer, connected, isConnected, received, parsing,
                          previous, storedRecords, results>>
SecondPiece_Skipped ==
    /\ at = "first" /\ Size > 0
    /\ at' = "split"
    /\ UNCHANGED <<peer, connected, isConnected, received, parsing, previous,
                   storedRecords, results>>
SecondPiece ==
    /\ Goto("first", "split") /\ Size > 0
    /\ \/ Size >= HeaderSize /\ UNCHANGED <<received, connected>>
       \/ Size < HeaderSize /\ RecieveData
    /\ previous' = received'
    /\ UNCHANGED <<peer, isConnected, parsing, storedRecords, results>>

(* The record that begins at a place, whose length is in its header.       *)
RecordAt(place) == CHOOSE i \in 1 .. Len(Records) : Begins[i] = place
SizeAt(place) == Records[RecordAt(place)].size

(* The first record is received to its end.  With less than a header, the   *)
(* unsigned size() - 5 is huge, and the record passes for complete.         *)
FirstIsComplete_Strictly ==
    Size < HeaderSize \/ Size - HeaderSize > SizeAt(start)
FirstIsComplete == Size < HeaderSize \/ Size - HeaderSize >= SizeAt(start)
Splitting == at = "split" /\ offset < received /\ connected
RestOfFirst ==
    /\ Splitting /\ ~ extracted /\ ~ FirstIsComplete
    /\ RecieveData
    /\ previous' = received'
    /\ at' = IF connected' THEN at ELSE "none"
    /\ UNCHANGED <<peer, isConnected, parsing, storedRecords, results>>
FirstExtracted ==
    /\ Splitting /\ ~ extracted /\ FirstIsComplete
    /\ extracted' = TRUE
    /\ UNCHANGED <<peer, connected, isConnected, received, at, start, offset,
                   newRecords, previous, storedRecords, results>>

(* Every whole record is taken, and the rest is kept for the next call.    *)
IsWhole == /\ received - offset >= HeaderSize
           /\ received - offset >= HeaderSize + SizeAt(offset)
SplitRecord ==
    /\ Splitting /\ extracted /\ IsWhole
    /\ newRecords' = Append(newRecords, offset)
    /\ offset' = offset + HeaderSize + SizeAt(offset)
    /\ UNCHANGED <<peer, connected, isConnected, received, at, start, extracted,
                   previous, storedRecords, results>>
KeepRest ==
    /\ Splitting /\ extracted /\ ~ IsWhole
    /\ previous' = offset
    /\ at' = "split done"
    /\ UNCHANGED <<peer, connected, isConnected, received, parsing,
                   storedRecords, results>>
SplitAll ==
    /\ at = "split" /\ ~ (offset < received /\ connected)
    /\ at' = "split done"
    /\ UNCHANGED <<peer, connected, isConnected, received, parsing, previous,
                   storedRecords, results>>

(* The first record is returned, the others are stored.                    *)
StoreRecords_All ==
    /\ at = "split done"
    /\ at' = IF newRecords = <<>> THEN "none" ELSE "record"
    /\ storedRecords' = storedRecords \o newRecords
    /\ UNCHANGED <<peer, connected, isConnected, received, parsing, previous,
                   results>>
StoreRecords ==
    /\ at = "split done"
    /\ IF newRecords = <<>>
       THEN at' = "none" /\ UNCHANGED storedRecords
       ELSE at' = "record" /\ storedRecords' = storedRecords \o Tail(newRecords)
    /\ UNCHANGED <<peer, connected, isConnected, received, parsing, previous,
                   results>>

-----------------------------------------------------------------------------
(* GetNextPlaintextRecords, of one record, and GetApplicationData.         *)

(* Nothing: the caller gets nothing. *)
GiveNothing ==
    /\ Goto("none", "idle")
    /\ empty' = TRUE
    /\ UNCHANGED <<peer, connected, isConnected, received, parsing, previous,
                   storedRecords, sequenceNumber, given>>

(* Decryption counts every record.  A warning is passed over and a fatal    *)
(* alert ends the connection.                                              *)
Current == RecordAt(Head(newRecords))
Decrypted_DataOnly ==
    IF Records[Current].kind = "data"
    THEN sequenceNumber' = sequenceNumber + 1 ELSE UNCHANGED sequenceNumber
Decrypted == sequenceNumber' = sequenceNumber + 1
GiveRecord ==
    /\ Goto("record", "idle")
    /\ Decrypted
    /\ \/ /\ Records[Current].kind = "data"
          /\ given' = Append(given, Current)
          /\ empty' = FALSE
          /\ UNCHANGED isConnected
       \/ /\ Records[Current].kind = "warning"
          /\ UNCHANGED <<isConnected, given, empty>>
       \/ /\ Records[Current].kind = "fatal"
          /\ isConnected' = FALSE
          /\ empty' = TRUE
          /\ UNCHANGED given
    /\ UNCHANGED <<peer, connected, received, parsing, previous, storedRecords>>

(* A caller goes on as long as it gets data, as the loop of the HTTP server *)
(* does.                                                                   *)
ReadStep == TakeStored \/ FirstPiece
Read == ~ empty /\ ReadStep
Parse == \/ Nothing \/ SecondPiece \/ RestOfFirst \/ FirstExtracted
         \/ SplitRecord \/ KeepRest \/ SplitAll \/ StoreRecords
         \/ GiveNothing \/ GiveRecord
Over == empty /\ at = "idle" /\ UNCHANGED vars

Next == Write \/ ClosePeer \/ Read \/ Parse \/ Over

Spec == Init /\ [][Next]_vars
FairSpec == Spec /\ WF_vars(Write) /\ WF_vars(Read \/ Parse)

-----------------------------------------------------------------------------
(* Properties.                                                             *)

(* Each record is decrypted with the number it was encrypted with, and the  *)
(* application gets every data record once, in the order of sending.       *)
GivenInOrder ==
    /\ at = "record" => RecordAt(Head(newRecords)) = sequenceNumber + 1
    /\ \A i, j \in 1 .. Len(given) : i < j => given[i] < given[j]
    /\ at = "idle" => \A i \in 1 .. sequenceNumber :
            Records[i].kind = "data" => \E j \in 1 .. Len(given) : given[j] = i

(* A call gives nothing only when the connection is over, as its callers   *)
(* believe.                                                                *)
EmptyMeansOver == empty => ~ connected \/ ~ isConnected

(* Every data record written before a fatal alert is given to the           *)
(* application, even if the peer closes at once; only a reset loses any.   *)
EverythingIsGiven ==
    \A i \in 1 .. Len(Records) :
        Records[i].kind = "data" /\ (\A j \in 1 .. i : Records[j].kind # "fatal")
            => (written >= i ~> \/ peerIs = "reset"
                               \/ \E j \in 1 .. Len(given) : given[j] = i)
=============================================================================
