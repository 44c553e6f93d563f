---------------------------- MODULE TlsHandshake ----------------------------
(***************************************************************************)
(* The handshake of TLSHandler (MrBoboSockets/TLSHandler.cpp): the client's *)
(* InitiateHandShake, the server's EstablishHostTLSConnection, and the     *)
(* cache of sessions that all of the server's connections share, from which *)
(* ResumeSession takes the place of a full handshake.                      *)
(*                                                                         *)
(* A connection has a reliable channel each way, which may break at any    *)
(* time and then loses what it holds last.  Keys are what they are derived *)
(* from; an encrypted record carries its key and number, and only a reader *)
(* with the same two opens it.  The client of this code never offers a     *)
(* session; one that does, and the servers that choose ECDHE, are external. *)
(*                                                                         *)
(* An operator whose name ends in an underscore and a word is the one      *)
(* after it with a plausible mistake; it shows what a property notices.    *)
(***************************************************************************)
EXTENDS Naturals, Sequences

CONSTANTS Connections,
          Roles      \* who the client and the server of the connections may be

None == "none"

ASSUME RolesAssumption ==
    /\ Roles \subseteq [Connections -> {<<"ours", "ours">>, <<"browser", "ours">>,
                                        <<"ours", "other">>}]
    /\ None \notin Connections

VARIABLES
    role,
    toHost, toClient,    \* the channels
    broken,              \* the connections that have been lost
    alerted,             \* those with an alert, of which each has at most one
    client, host,        \* the two handlers of a connection
    CachedSessions       \* the parameters by the connection whose session it is

vars == <<role, toHost, toClient, broken, alerted, client, host, CachedSessions>>

Ours(c, side) == role[c][IF side = "client" THEN 1 ELSE 2] = "ours"

(* The SecurityParameters that the handshake goes by. *)
FreshParameters(isHost) ==
    [isHost |-> isHost, client_random |-> None, server_random |-> None,
     PreMasterSecret |-> None, master_secret |-> None, keys |-> None,
     SessionId |-> None, ClientSequenceNumber |-> 0, ServerSequenceNumber |-> 0,
     AllHandshakeMessages |-> <<>>, HandshakeFinished |-> FALSE]

Init == /\ role \in Roles
        /\ toHost = [c \in Connections |-> <<>>]
        /\ toClient = [c \in Connections |-> <<>>]
        /\ broken = {} /\ alerted = {}
        /\ client = [c \in Connections |->
                       [at |-> "start", p |-> FreshParameters(FALSE), offer |-> None]]
        /\ host = [c \in Connections |->
                       [at |-> "start", p |-> FreshParameters(TRUE)]]
        /\ CachedSessions = <<>>

(* A side that ended has given up; one that is aborted failed an assertion, *)
(* and one that is undefined has read a record it did not get.             *)
Ended == {"connected", "error", "aborted", "undefined"}

-----------------------------------------------------------------------------
(* Records.                                                                *)

Plain(type, m) == [type |-> type, msg |-> m, key |-> None, number |-> 0]
Sealed(p, m) ==
    [type |-> "handshake", msg |-> m,
     key |-> <<p.keys, IF p.isHost THEN "server" ELSE "client">>,
     number |-> IF p.isHost THEN p.ServerSequenceNumber ELSE p.ClientSequenceNumber]
ChangeCipher == Plain("change_cipher_spec", None)

(* p_DecryptRecord: with the other side's key, and its number counted.     *)
Opens(p, r) ==
    \/ r.type = "change_cipher_spec"
    \/ /\ r.key = <<p.keys, IF p.isHost THEN "client" ELSE "server">>
       /\ r.number = IF p.isHost THEN p.ClientSequenceNumber
                     ELSE p.ServerSequenceNumber
Counted(p, r) ==
    IF r.type = "change_cipher_spec" THEN p
    ELSE IF p.isHost THEN [p EXCEPT !.ClientSequenceNumber = @ + 1]
         ELSE [p EXCEPT !.ServerSequenceNumber = @ + 1]

(* SendChangeCipherMessage starts the writer's numbers anew. *)
ChangedCipher(p) == IF p.isHost THEN [p EXCEPT !.ServerSequenceNumber = 0]
                    ELSE [p EXCEPT !.ClientSequenceNumber = 0]

GenerateKeys(p) ==
    [p EXCEPT !.keys = <<p.master_secret, p.server_random, p.client_random>>]
GenerateMasterSecret(p) ==
    [p EXCEPT !.master_secret =
        <<p.PreMasterSecret, p.client_random, p.server_random>>]

Noted(p, ms) == [p EXCEPT !.AllHandshakeMessages = @ \o ms]
VerifyData(p, label) == <<label, p.master_secret, p.AllHandshakeMessages>>
Finished(p) == <<"finished",
                 VerifyData(p, IF p.isHost THEN "server" ELSE "client")>>
VerifyFinishedMessage(p, m) ==
    m = <<"finished", VerifyData(p, IF p.isHost THEN "client" ELSE "server")>>

(* GetNextPlaintextRecords waits for n records that are no alerts, a fatal *)
(* alert, or the end of the connection.  A channel has one alert at most,  *)
(* and nothing behind a fatal one.                                         *)
IsAlert(r) == r.type = "alert"
IsFatal(r) == IsAlert(r) /\ r.msg = "fatal"
Content(q) == IF \E i \in DOMAIN q : IsAlert(q[i])
              THEN LET i == CHOOSE i \in DOMAIN q : IsAlert(q[i])
                   IN  SubSeq(q, 1, i - 1) \o SubSeq(q, i + 1, Len(q))
              ELSE q
Enough(q, n) == Len(Content(q)) >= n \/ \E i \in DOMAIN q : IsFatal(q[i])
Length(q, n) ==
    LET k == IF \E i \in DOMAIN q : i <= n /\ IsAlert(q[i]) THEN n + 1 ELSE n
    IN  IF k < Len(q) THEN k ELSE Len(q)
CanRead_Waits(q, n, c) == Enough(q, n)
CanRead(q, n, c) == Enough(q, n) \/ c \in broken
Got(q, n) == Content(SubSeq(q, 1, Length(q, n)))
Rest(q, n) == SubSeq(q, Length(q, n) + 1, Len(q))
GotFatal(q, n) == \E i \in 1 .. Length(q, n) : IsFatal(q[i])

Send(channel, c, rs) ==
    channel' = [channel EXCEPT ![c] = IF c \in broken THEN @ ELSE @ \o rs]

-----------------------------------------------------------------------------
(* The client.                                                             *)

ClientIs(c, at, p) == client' = [client EXCEPT ![c].at = at, ![c].p = p]
Messages(rs) == [i \in DOMAIN rs |-> rs[i].msg]

SendClientHello(c) ==
    /\ client[c].at = "start" /\ Ours(c, "client")
    /\ LET hello == <<"client_hello", <<c, "client">>, None>>
           p == [client[c].p EXCEPT !.client_random = <<c, "client">>,
                                    !.ClientSequenceNumber = @ + 1]
       IN  /\ ClientIs(c, "hello", Noted(p, <<hello>>))
           /\ Send(toHost, c, <<Plain("handshake", hello)>>)
    /\ UNCHANGED <<toClient, broken, alerted, host, CachedSessions>>

(* Three records, and a fourth if the third is no server_hello_done. *)
ResponseSize(q) ==
    IF Len(Content(q)) >= 3 /\ Content(q)[3].msg = <<"server_hello_done">> THEN 3
    ELSE 4

(* The key exchange, the switch of ciphers and the finished message, all of *)
(* it sent before the server's is awaited.                                 *)
AfterServerHello(p, c, response) ==
    LET q == [Noted(p, Messages(response)) EXCEPT
                 !.server_random = response[1].msg[2],
                 !.PreMasterSecret = <<c, "secret">>]
        exchange == <<"client_key_exchange", q.PreMasterSecret>>
    IN  ChangedCipher(GenerateKeys(GenerateMasterSecret(Noted(q, <<exchange>>))))

SendFinished(c, p) ==
    /\ ClientIs(c, "finish", [Noted(p, <<Finished(p)>>) EXCEPT
                                 !.HandshakeFinished = TRUE,
                                 !.ClientSequenceNumber = @ + 1,
                                 !.ServerSequenceNumber = 0])
    /\ Send(toHost, c, <<Plain("handshake", <<"client_key_exchange",
                                              p.PreMasterSecret>>),
                         ChangeCipher, Sealed(p, Finished(p))>>)

ReadServerHello(c) ==
    /\ client[c].at = "hello" /\ client[c].offer = None
    /\ \E n \in {ResponseSize(toClient[c])} :
         /\ CanRead(toClient[c], n, c)
         /\ toClient' = [toClient EXCEPT ![c] = Rest(@, n)]
         /\ \E response \in {Got(toClient[c], n)} :
              \/ /\ Len(response) < 2     \* the hello and the certificate are read
                 /\ ClientIs(c, "undefined", client[c].p)
                 /\ UNCHANGED toHost
              \/ /\ Len(response) >= 2
                 /\ \E p \in {AfterServerHello(client[c].p, c, response)} :
                      SendFinished(c, p)
    /\ UNCHANGED <<broken, alerted, host, CachedSessions>>

(* The server's switch and its finished message, decrypted as they come.   *)
(* The assertions on them end the program when one does not hold.          *)
ReadFinished(c) ==
    LET q == toClient[c]
        got == Got(q, 2)
        p == client[c].p
    IN  /\ client[c].at = "finish" /\ CanRead(q, 2, c)
        /\ toClient' = [toClient EXCEPT ![c] = Rest(q, 2)]
        /\ IF /\ Len(got) = 2 /\ Opens(p, got[1]) /\ Opens(p, got[2])
              /\ VerifyFinishedMessage(p, got[2].msg)
           THEN ClientIs(c, "connected", [p EXCEPT !.ServerSequenceNumber = 1])
           ELSE ClientIs(c, "aborted", p)
        /\ UNCHANGED <<toHost, broken, alerted, host, CachedSessions>>

-----------------------------------------------------------------------------
(* The server.                                                             *)

HostIs(c, at, p) == host' = [host EXCEPT ![c].at = at, ![c].p = p]

ServerFlight(c) ==
    LET hello == <<"server_hello", <<c, "server">>, c>>
    IN  IF Ours(c, "host")
        THEN <<hello, <<"certificate">>, <<"server_hello_done">>>>
        ELSE <<hello, <<"certificate">>, <<"server_key_exchange">>, <<"server_hello_done">>>>

FullHandshake(c, p) ==
    /\ HostIs(c, "keys", [Noted(p, ServerFlight(c)) EXCEPT
                             !.server_random = <<c, "server">>, !.SessionId = c])
    /\ Send(toClient, c, [i \in DOMAIN ServerFlight(c) |->
                             Plain("handshake", ServerFlight(c)[i])])

(* ResumeSession takes all of the session's parameters, and from this       *)
(* connection the messages and the two random strings.                     *)
ResumeSession_StillFinished(c, p, session) ==
    LET hello == <<"server_hello", <<c, "server">>, session>>
        cached == [CachedSessions[session] EXCEPT
                     !.AllHandshakeMessages = Append(p.AllHandshakeMessages, hello),
                     !.client_random = p.client_random,
                     !.server_random = <<c, "server">>]
        q == ChangedCipher(GenerateKeys(cached))
    IN  /\ HostIs(c, "resume", Noted(q, <<Finished(q)>>))
        /\ Send(toClient, c, <<Plain("handshake", hello), ChangeCipher,
                               Sealed(q, Finished(q))>>)
ResumeSession(c, p, session) ==
    LET hello == <<"server_hello", <<c, "server">>, session>>
        cached == [CachedSessions[session] EXCEPT
                     !.AllHandshakeMessages = Append(p.AllHandshakeMessages, hello),
                     !.client_random = p.client_random,
                     !.server_random = <<c, "server">>,
                     !.HandshakeFinished = FALSE]
        q == ChangedCipher(GenerateKeys(cached))
    IN  /\ HostIs(c, "resume", Noted(q, <<Finished(q)>>))
        /\ Send(toClient, c, <<Plain("handshake", hello), ChangeCipher,
                               Sealed(q, Finished(q))>>)

ReadClientHello(c) ==
    LET q == toHost[c]
        got == Got(q, 1)
    IN  /\ host[c].at = "start" /\ CanRead(q, 1, c)
        /\ toHost' = [toHost EXCEPT ![c] = Rest(q, 1)]
        /\ IF got = <<>>
           THEN HostIs(c, "error", host[c].p) /\ UNCHANGED toClient
           ELSE LET hello == got[1].msg
                    p == [Noted(host[c].p, <<hello>>) EXCEPT
                             !.client_random = hello[2]]
                IN  IF hello[3] \in DOMAIN CachedSessions
                    THEN ResumeSession(c, p, hello[3])
                    ELSE FullHandshake(c, p)
        /\ UNCHANGED <<broken, alerted, client, CachedSessions>>

(* The client's three records come as they are; the last is then decrypted. *)
ServerHandleKeyExchange(p, exchange) ==
    GenerateKeys(GenerateMasterSecret(
        Noted([p EXCEPT !.PreMasterSecret = exchange[2]], <<exchange>>)))

VerifyClient(c, p, last) ==
    \/ /\ ~Opens(p, last) /\ HostIs(c, "aborted", p) /\ UNCHANGED toClient
    \/ /\ Opens(p, last) /\ ~VerifyFinishedMessage(p, last.msg)
       /\ HostIs(c, "error", Counted(p, last)) /\ UNCHANGED toClient
    \/ /\ Opens(p, last) /\ VerifyFinishedMessage(p, last.msg)
       /\ \E q \in {ChangedCipher(Noted(Counted(p, last), <<last.msg>>))} :
            /\ HostIs(c, "cache", [Noted(q, <<Finished(q)>>) EXCEPT
                                      !.HandshakeFinished = TRUE,
                                      !.ServerSequenceNumber = 1,
                                      !.ClientSequenceNumber = 1])
            /\ Send(toClient, c, <<ChangeCipher, Sealed(q, Finished(q))>>)

ReadKeyExchange(c) ==
    /\ host[c].at = "keys" /\ CanRead(toHost[c], 3, c)
    /\ toHost' = [toHost EXCEPT ![c] = Rest(@, 3)]
    /\ \E got \in {Got(toHost[c], 3)} :
         \/ /\ Len(got) # 3 \/ GotFatal(toHost[c], 3)
            /\ HostIs(c, "error", host[c].p) /\ UNCHANGED toClient
         \/ /\ Len(got) = 3 /\ ~GotFatal(toHost[c], 3)
            /\ \E p \in {ServerHandleKeyExchange(host[c].p, got[1].msg)} :
                 VerifyClient(c, p, got[3])
    /\ UNCHANGED <<broken, alerted, client, CachedSessions>>

(* CacheSession, which comes after the client has been told. *)
CacheSession_AtOnce(c) ==
    /\ host[c].at \in {"keys", "cache"} /\ c \notin DOMAIN CachedSessions
    /\ HostIs(c, IF host[c].at = "cache" THEN "connected" ELSE "keys", host[c].p)
    /\ CachedSessions' = [s \in DOMAIN CachedSessions \cup {c} |->
                            IF s = c THEN host[c].p ELSE CachedSessions[s]]
    /\ UNCHANGED <<toHost, toClient, broken, alerted, client>>
CacheSession(c) ==
    /\ host[c].at = "cache"
    /\ HostIs(c, "connected", host[c].p)
    /\ CachedSessions' = [s \in DOMAIN CachedSessions \cup {c} |->
                            IF s = c THEN host[c].p ELSE CachedSessions[s]]
    /\ UNCHANGED <<toHost, toClient, broken, alerted, client>>

(* What a resuming client answers.  A record that comes while the           *)
(* handshake counts as finished has been decrypted already.                *)
ReadResumed(c) ==
    LET q == toHost[c]
        got == Got(q, 2)
        p == [host[c].p EXCEPT !.ServerSequenceNumber = 0,
                               !.ClientSequenceNumber = 0]
    IN  /\ host[c].at = "resume" /\ CanRead(q, 2, c)
        /\ toHost' = [toHost EXCEPT ![c] = Rest(q, 2)]
        /\ CASE Len(got) < 2 -> HostIs(c, "error", host[c].p)
             [] Len(got) = 2 /\ (host[c].p.HandshakeFinished \/ ~Opens(p, got[2])) ->
                    HostIs(c, "aborted", p)
             [] OTHER ->
                    IF VerifyFinishedMessage(p, got[2].msg)
                    THEN HostIs(c, "connected",
                             [p EXCEPT !.HandshakeFinished = TRUE,
                                       !.ServerSequenceNumber = 1,
                                       !.ClientSequenceNumber = 1])
                    ELSE HostIs(c, "error", Counted(p, got[2]))
        /\ UNCHANGED <<toClient, broken, alerted, client, CachedSessions>>

-----------------------------------------------------------------------------
(* External: a client that may offer a session it has finished ...          *)

BrowserHello(c) ==
    /\ client[c].at = "start" /\ ~Ours(c, "client")
    /\ \E s \in {None} \cup {d \in Connections : /\ client[d].at = "connected"
                                                 /\ client[d].offer = None
                                                 /\ ~Ours(d, "client")} :
         LET hello == <<"client_hello", <<c, "client">>, s>>
             p == [client[c].p EXCEPT !.client_random = <<c, "client">>]
         IN  /\ client' = [client EXCEPT ![c].at = "hello", ![c].offer = s,
                                         ![c].p = Noted(p, <<hello>>)]
             /\ Send(toHost, c, <<Plain("handshake", hello)>>)
    /\ UNCHANGED <<toClient, broken, alerted, host, CachedSessions>>

(* ... and goes on with it if the server has, or without it if not.         *)
BrowserResumes(c, p, last) ==
    /\ IF Opens(p, last) /\ VerifyFinishedMessage(p, last.msg)
       THEN ClientIs(c, "connected", [Noted(p, <<last.msg>>) EXCEPT
                                        !.HandshakeFinished = TRUE,
                                        !.ServerSequenceNumber = 1,
                                        !.ClientSequenceNumber = 1])
       ELSE ClientIs(c, "aborted", p)
    /\ Send(toHost, c, <<ChangeCipher, Sealed(p, Finished(Noted(p, <<last.msg>>)))>>)

BrowserReads(c) ==
    /\ client[c].at = "hello" /\ client[c].offer # None
    /\ CanRead(toClient[c], 3, c)
    /\ \E got \in {Got(toClient[c], 3)} :
         \/ /\ Len(got) < 3 /\ ClientIs(c, "error", client[c].p)
            /\ UNCHANGED <<toHost, toClient>>
         \/ /\ Len(got) = 3 /\ got[1].msg[3] # client[c].offer
            /\ client' = [client EXCEPT ![c].offer = None]
            /\ UNCHANGED <<toHost, toClient>>
         \/ /\ Len(got) = 3 /\ got[1].msg[3] = client[c].offer
            /\ toClient' = [toClient EXCEPT ![c] = Rest(@, 3)]
            /\ \E p \in {GenerateKeys([Noted(client[c].p, <<got[1].msg>>) EXCEPT
                     !.server_random = got[1].msg[2],
                     !.master_secret = client[client[c].offer].p.master_secret])} :
                 BrowserResumes(c, p, got[3])
    /\ UNCHANGED <<broken, alerted, host, CachedSessions>>

(* A peer of another make warns, or gives up. *)
Alerts(c) ==
    /\ c \notin alerted /\ alerted' = alerted \cup {c}
    /\ \E level \in {"warning", "fatal"} :
         \/ /\ ~Ours(c, "client") /\ client[c].at \in {"start", "hello"}
            /\ Send(toHost, c, <<Plain("alert", level)>>)
            /\ IF level = "fatal" THEN ClientIs(c, "error", client[c].p)
               ELSE UNCHANGED client
            /\ UNCHANGED <<toClient, host>>
         \/ /\ ~Ours(c, "host") /\ host[c].at \in {"start", "keys"}
            /\ Send(toClient, c, <<Plain("alert", level)>>)
            /\ IF level = "fatal" THEN HostIs(c, "error", host[c].p)
               ELSE UNCHANGED host
            /\ UNCHANGED <<toHost, client>>
    /\ UNCHANGED <<broken, CachedSessions>>

(* The connection breaks, also because a side has ended with an error.  It *)
(* loses any of the records that come last.                                *)
Break(c) ==
    /\ c \notin broken /\ broken' = broken \cup {c}
    /\ \E i \in 0 .. Len(toHost[c]), j \in 0 .. Len(toClient[c]) :
         /\ toHost' = [toHost EXCEPT ![c] = SubSeq(@, 1, i)]
         /\ toClient' = [toClient EXCEPT ![c] = SubSeq(@, 1, j)]
    /\ UNCHANGED <<alerted, client, host, CachedSessions>>

-----------------------------------------------------------------------------
ClientStep(c) == \/ SendClientHello(c) \/ ReadServerHello(c) \/ ReadFinished(c)
                 \/ BrowserHello(c) \/ BrowserReads(c)
HostStep(c) == \/ ReadClientHello(c) \/ ReadKeyExchange(c)
               \/ CacheSession(c) \/ ReadResumed(c)
Failed(c) == {client[c].at, host[c].at} \cap {"error", "aborted", "undefined"} # {}

Next == /\ \E c \in Connections : \/ ClientStep(c) \/ HostStep(c)
                                  \/ Alerts(c) \/ Break(c)
        /\ UNCHANGED role

(* Threads run on, and a side that has failed closes its socket.            *)
Spec == /\ Init /\ [][Next]_vars
        /\ \A c \in Connections : /\ WF_vars(ClientStep(c) /\ UNCHANGED role)
                                  /\ WF_vars(HostStep(c) /\ UNCHANGED role)
                                  /\ WF_vars(Failed(c) /\ Break(c) /\ UNCHANGED role)
-----------------------------------------------------------------------------
(* The two sides of a connection agree on its keys, and each numbers what  *)
(* it writes as the other numbers what it reads.                           *)
SameKeys(c) ==
    LET p == client[c].p   q == host[c].p
    IN  /\ p.keys = q.keys
        /\ p.ClientSequenceNumber = q.ClientSequenceNumber
        /\ p.ServerSequenceNumber = q.ServerSequenceNumber

(* A client that is connected talks to a server that has come as far, by a *)
(* full handshake or by a session another connection has put in the cache; *)
(* and unless the connection breaks or is given up, nobody fails an        *)
(* assertion, finds a finished message wrong or reads what is not there.   *)
Agreement ==
    \A c \in Connections :
        /\ client[c].at = "connected" /\ host[c].at \in {"cache", "connected"}
               => SameKeys(c)
        /\ client[c].at = "connected" => host[c].at \notin {"start", "keys", "aborted"}
        /\ c \notin broken \cup alerted => ~Failed(c)

(* A session in the cache is one whose owner can go on with it: it ended   *)
(* its handshake, and client and server hold the same master secret.        *)
CachedIsFinished ==
    \A s \in DOMAIN CachedSessions :
        /\ CachedSessions[s].HandshakeFinished /\ CachedSessions[s].isHost
        /\ client[s].p.master_secret = CachedSessions[s].master_secret

(* Every handshake ends, on both sides, whatever the connection does.       *)
HandshakeEnds ==
    \A c \in Connections :
        <>(client[c].at \in Ended /\ host[c].at \in Ended)
=============================================================================
