---------------------------- MODULE HttpRequests ----------------------------
(***************************************************************************)
(* How the HTTP server takes requests off a connection: the loop of        *)
(* HTTPServer::m_HandleConnectedSocket, and below it GetNextChunkData and  *)
(* GetHTTPRequest of HTTPServerSocket (MrPostOGet/MrPostOGet.cpp).         *)
(*                                                                         *)
(* What a client sends is a stream of units.  A request is a header of     *)
(* HeaderLength units, of which the last but one is its Content-Length (if *)
(* it has a body) and the last one the empty line, and then its body.  A   *)
(* string the code holds is a stretch (from, to] of that stream: only its  *)
(* ends are kept.  The responses' text and the chunked transfer encoding   *)
(* are left out.                                                           *)
(*                                                                         *)
(* An operator whose name ends in an underscore and a word is the one      *)
(* after it with a plausible mistake; it shows what a property notices.    *)
(***************************************************************************)
EXTENDS Naturals, Sequences

CONSTANTS Clients,
          Bodies,             \* Bodies[c]: the body lengths of c's requests
          MaxDataInMemory,    \* MaxDataInMemory of GetHTTPRequest, in units
          Secure,             \* m_UseSecureConnection
          HeadersAreWhole     \* whether a header arrives in one piece

HeaderLength == 3

ASSUME HttpAssumption == /\ Bodies \in [Clients -> Seq(Nat)]
                         /\ MaxDataInMemory \in Nat
                         /\ Secure \in BOOLEAN /\ HeadersAreWhole \in BOOLEAN

VARIABLES
    sent, open,      \* the client: units sent, and whether it has not closed
    answered,        \* the requests it was sent a response to, in order
    at, caller,      \* where the connection's thread is, and where
                     \* GetHTTPRequest returns to
    connected,       \* m_IsConnected of the socket
    received,        \* units the server has taken off the socket
    base,            \* RequestData is (base, received]
    from,            \* ReturnValue of GetHTTPRequest is (from, received]
    length, header,  \* ContentLength and HeaderLength of GetHTTPRequest
    current, parsed  \* CurrentContentLength and ParsedContentData

client == <<sent, open>>
socket == <<connected, received>>
strings == <<base, from>>
lengths == <<length, header, current, parsed>>
requestVars == <<client, answered, at, caller, socket, strings, lengths>>

Requests(c) == 1 .. Len(Bodies[c])

(* Request i is (Begins(c, i), Ends[c][i]]. *)
Ends == [c \in Clients |->
    LET E[i \in 0 .. Len(Bodies[c])] ==
            IF i = 0 THEN 0 ELSE E[i - 1] + HeaderLength + Bodies[c][i]
    IN  E]
Begins(c, i) == Ends[c][i - 1]
HeaderEnds(c, i) == Begins(c, i) + HeaderLength

Zero == [c \in Clients |-> 0]
RequestInit ==
    /\ sent = Zero /\ open = [c \in Clients |-> TRUE]
    /\ answered = [c \in Clients |-> <<>>]
    /\ at = [c \in Clients |-> "start"]
    /\ caller = [c \in Clients |-> "loop"]
    /\ connected = [c \in Clients |-> TRUE]
    /\ received = Zero /\ base = Zero /\ from = Zero
    /\ length = Zero /\ header = Zero /\ current = Zero /\ parsed = Zero

Goto(c, here, there) == at[c] = here /\ at' = [at EXCEPT ![c] = there]

-----------------------------------------------------------------------------
(* The client, which waits for a response before it sends its next request. *)
(* The network delivers what it sends in pieces, see Receive.              *)

Send(c) ==
    LET i == Len(answered[c]) + 1
    IN  /\ open[c] /\ i \in Requests(c)
        /\ sent[c] < Ends[c][i]
        /\ sent' = [sent EXCEPT ![c] = Ends[c][i]]
        /\ UNCHANGED <<open, answered, at, caller, socket, strings, lengths>>

CloseClient(c) ==
    /\ open[c]
    /\ open' = [open EXCEPT ![c] = FALSE]
    /\ UNCHANGED <<sent, answered, at, caller, socket, strings, lengths>>

-----------------------------------------------------------------------------
(* HTTPServerSocket::GetHTTPRequest. *)

Call(c) ==
    /\ from' = [from EXCEPT ![c] = received[c]]
    /\ length' = [length EXCEPT ![c] = 0]
    /\ at' = [at EXCEPT ![c] = IF connected[c] THEN "receive" ELSE "returned"]

(* The first empty line in (low, high], and the Content-Length before it,  *)
(* if that is in it too: GetHeaderValue looks at whole headers only.       *)
HeadersIn(c, low, high) ==
    {i \in Requests(c) : HeaderEnds(c, i) \in low + 1 .. high}
FirstHeader(c, low, high) ==
    CHOOSE i \in HeadersIn(c, low, high) :
        \A j \in HeadersIn(c, low, high) : i <= j
ContentLength(c, low, high) ==
    IF HeadersIn(c, low, high) = {} THEN 0
    ELSE LET i == FirstHeader(c, low, high)
         IN  IF HeaderEnds(c, i) - 1 > low THEN Bodies[c][i] ELSE 0

(* The first data of a call: it may say how long the body is ...           *)
ReadsHeader(c) ==
    LET high == received'[c]
        long == ContentLength(c, from[c], high)
    IN  /\ current[c] = 0
        /\ length' = [length EXCEPT ![c] = IF @ = 0 THEN long ELSE @]
        /\ header' = [header EXCEPT ![c] =
              IF length[c] = 0 /\ long # 0
              THEN HeaderEnds(c, FirstHeader(c, from[c], high)) - from[c]
              ELSE @]

(* ... and data is received until the body is there, or is too long.       *)
Complete(c) == length'[c] = 0 \/ received'[c] - from[c] - header'[c] >= length'[c]
TooLong(c) == received'[c] - from[c] > MaxDataInMemory
NewRequest(c) ==
    /\ ReadsHeader(c)
    /\ \/ /\ Complete(c)
          /\ Goto(c, "receive", "returned")
          /\ UNCHANGED <<current, parsed>>
       \/ /\ ~ Complete(c) /\ TooLong(c)
          /\ Goto(c, "receive", "returned")
          /\ current' = [current EXCEPT ![c] = length'[c]]
          /\ parsed' = [parsed EXCEPT
                ![c] = received'[c] - from[c] - header'[c]]
       \/ /\ ~ Complete(c) /\ ~ TooLong(c)
          /\ UNCHANGED <<at, current, parsed>>

(* The rest of a body that was too long, up to its end or too long again.  *)
MoreOfBody(c) ==
    LET total == parsed[c] + received'[c] - from[c]
    IN  /\ current[c] # 0
        /\ \/ /\ total >= current[c]
              /\ Goto(c, "receive", "returned")
              /\ current' = [current EXCEPT ![c] = 0]
              /\ parsed' = [parsed EXCEPT ![c] = 0]
           \/ /\ total < current[c] /\ TooLong(c)
              /\ Goto(c, "receive", "returned")
              /\ parsed' = [parsed EXCEPT ![c] = total]
              /\ UNCHANGED current
           \/ /\ total < current[c] /\ ~ TooLong(c)
              /\ UNCHANGED <<at, current, parsed>>
        /\ UNCHANGED <<length, header>>

(* Over TLS, a piece is one record.  Otherwise recv is asked for no more    *)
(* than MaxDataInMemory lets it, and when that is nothing, it returns      *)
(* nothing, which is taken for the end of the connection.                  *)
Receive(c) ==
    /\ at[c] = "receive" /\ sent[c] > received[c]
    /\ \E upto \in received[c] + 1 .. sent[c] :
          /\ Secure \/ upto <= from[c] + MaxDataInMemory
          /\ HeadersAreWhole =>
                \A i \in Requests(c) :
                    received[c] < HeaderEnds(c, i) /\ upto > Begins(c, i)
                        => upto >= HeaderEnds(c, i)
          /\ received' = [received EXCEPT ![c] = upto]
    /\ NewRequest(c) \/ MoreOfBody(c)
    /\ UNCHANGED <<client, answered, caller, connected, strings>>

Disconnect(c) ==
    /\ ~ open[c] \/ (~ Secure /\ received[c] = from[c] + MaxDataInMemory)
    /\ Goto(c, "receive", "returned")
    /\ connected' = [connected EXCEPT ![c] = FALSE]
    /\ current' = [current EXCEPT ![c] = 0]
    /\ parsed' = [parsed EXCEPT ![c] = 0]
    /\ UNCHANGED <<client, answered, caller, received, strings, length, header>>

-----------------------------------------------------------------------------
(* HTTPServer::m_HandleConnectedSocket.                                    *)

(* The TLS handshake, which may fail: that throws, as a handler may. *)
Establish(c) ==
    /\ Goto(c, "start", "loop") \/ Goto(c, "start", "failed")
    /\ UNCHANGED <<client, answered, caller, socket, strings, lengths>>

NextRequest(c) ==
    /\ at[c] = "loop" /\ Call(c)
    /\ caller' = [caller EXCEPT ![c] = "loop"]
    /\ base' = [base EXCEPT ![c] = received[c]]
    /\ UNCHANGED <<client, answered, socket, header, current, parsed>>

HasHeader(c) == HeadersIn(c, base[c], received[c]) # {}

(* Back in the loop: no data, or no connection, ends it, and a header that  *)
(* is not whole is waited for.                                             *)
Returned(c) ==
    /\ at[c] = "returned" /\ caller[c] \in {"loop", "header"}
    /\ LET gone == \/ caller[c] = "loop" /\ received[c] = from[c]
                   \/ ~ connected[c] /\ (caller[c] = "loop" \/ ~ HasHeader(c))
       IN  at' = [at EXCEPT ![c] = IF gone THEN "over"
                                   ELSE IF HasHeader(c) THEN "handle"
                                   ELSE "header"]
    /\ UNCHANGED <<client, answered, caller, socket, strings, lengths>>

MoreHeader(c) ==
    /\ at[c] = "header" /\ Call(c)
    /\ caller' = [caller EXCEPT ![c] = "header"]
    /\ UNCHANGED <<client, answered, socket, base, header, current, parsed>>

(* The request line is parsed and a handler generates the response; either *)
(* may throw, and what does not begin a request is not one.                *)
Handled(c) == {i \in Requests(c) : Begins(c, i) = base[c]}
Handle(c) ==
    /\ \/ Handled(c) # {} /\ (Goto(c, "handle", "drain") \/ Goto(c, "handle", "failed"))
       \/ Handled(c) = {} /\ Goto(c, "handle", "over")
    /\ UNCHANGED <<client, answered, caller, socket, strings, lengths>>

(* DataIsAvailable: before it answers, the server reads the rest. *)
DataIsAvailable_StillChunked(c) == connected[c]
DataIsAvailable(c) == connected[c] /\ parsed[c] # current[c]
Drain_Never(c) ==
    /\ at[c] = "drain" \/ (at[c] = "returned" /\ caller[c] = "drain")
    /\ at' = [at EXCEPT ![c] = "respond"]
    /\ UNCHANGED <<client, answered, caller, socket, strings, lengths>>
Drain(c) ==
    /\ at[c] = "drain" \/ (at[c] = "returned" /\ caller[c] = "drain")
    /\ \/ /\ DataIsAvailable(c) /\ Call(c)
          /\ caller' = [caller EXCEPT ![c] = "drain"]
       \/ /\ ~ DataIsAvailable(c)
          /\ at' = [at EXCEPT ![c] = "respond"]
          /\ UNCHANGED <<caller, from, length>>
    /\ UNCHANGED <<client, answered, socket, base, header, current, parsed>>

(* SendHTTPDocument sends nothing on a broken connection; to a client that *)
(* has closed it may find out.                                             *)
Respond(c) ==
    /\ Goto(c, "respond", "loop")
    /\ \/ /\ connected[c]
          /\ \E i \in Handled(c) :
                answered' = [answered EXCEPT ![c] = Append(@, i)]
          /\ UNCHANGED connected
       \/ /\ ~ open[c]
          /\ connected' = [connected EXCEPT ![c] = FALSE]
          /\ UNCHANGED answered
    /\ UNCHANGED <<client, caller, received, strings, lengths>>

ServerStep(c) ==
    \/ Establish(c) \/ NextRequest(c) \/ Receive(c) \/ Disconnect(c)
    \/ Returned(c) \/ MoreHeader(c) \/ Handle(c) \/ Drain(c) \/ Respond(c)
ClientStep(c) == Send(c) \/ CloseClient(c)

-----------------------------------------------------------------------------
(* Properties.                                                             *)

(* A response is sent only when the whole request has been taken off the   *)
(* connection, however its body was cut: the next request begins where the *)
(* server looks for it, no body is read as one, and the responses a client *)
(* gets are those to its requests in their order.                          *)
AnswersWholeRequests ==
    \A c \in Clients : at[c] = "loop" /\ connected[c] =>
        /\ received[c] = Ends[c][Len(answered[c])]
        /\ \A i \in 1 .. Len(answered[c]) : answered[c][i] = i
=============================================================================
