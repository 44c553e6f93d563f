------------------------ MODULE TlsHandshake_proof ------------------------
(***************************************************************************)
(* Safety of TlsHandshake for any number of connections and any roles:     *)
(* Agreement and CachedIsFinished.                                         *)
(*                                                                         *)
(* The argument: what a channel holds besides an alert is the beginning of *)
(* what the other side has said last, and all of it unless the connection  *)
(* has broken (Delivered).  So each side that has read enough has read     *)
(* what the other has computed, and computes the same.  HandshakeInv says  *)
(* for each connection how far its two sides have come: the phases are     *)
(* those of the server.                                                    *)
(***************************************************************************)
EXTENDS TlsHandshake, Integers, TLAPS, SequenceTheorems

(* What is said in a full handshake of c in which the client offers s ...  *)
Hello(c, s) == <<"client_hello", <<c, "client">>, s>>
Exchange(c) == <<"client_key_exchange", <<c, "secret">>>>
MasterSecret(c) == <<<<c, "secret">>, <<c, "client">>, <<c, "server">>>>
Keys(m, c) == <<m, <<c, "server">>, <<c, "client">>>>
Spoken(c, s) == (<<Hello(c, s)>> \o ServerFlight(c)) \o <<Exchange(c)>>
ClientFinished(c, s) == <<"finished", <<"client", MasterSecret(c), Spoken(c, s)>>>>
SpokenByClient(c, s) == Spoken(c, s) \o <<ClientFinished(c, s)>>
ServerFinished(c, s) == <<"finished", <<"server", MasterSecret(c), SpokenByClient(c, s)>>>>

(* ... and in one that resumes s with the master secret m. *)
ServerHello(c, s) == <<"server_hello", <<c, "server">>, s>>
Resumed(c, s) == Append(<<Hello(c, s)>>, ServerHello(c, s))
ServerResumes(c, s, m) == <<"finished", <<"server", m, Resumed(c, s)>>>>
ResumedByServer(c, s, m) == Resumed(c, s) \o <<ServerResumes(c, s, m)>>
ClientResumes(c, s, m) == <<"finished", <<"client", m, ResumedByServer(c, s, m)>>>>

(* The records that carry it. *)
Under(keys, side, m) ==
    [type |-> "handshake", msg |-> m, key |-> <<keys, side>>, number |-> 0]
FlightRecords(c) ==
    [i \in DOMAIN ServerFlight(c) |-> Plain("handshake", ServerFlight(c)[i])]
ExchangeRecords(c, s) ==
    <<Plain("handshake", Exchange(c)), ChangeCipher,
      Under(Keys(MasterSecret(c), c), "client", ClientFinished(c, s))>>
FinalRecords(c, s) ==
    <<ChangeCipher, Under(Keys(MasterSecret(c), c), "server", ServerFinished(c, s))>>
ResumedRecords(c, s, m) ==
    <<Plain("handshake", ServerHello(c, s)), ChangeCipher,
      Under(Keys(m, c), "server", ServerResumes(c, s, m))>>
AnswerRecords(c, s, m) ==
    <<ChangeCipher, Under(Keys(m, c), "client", ClientResumes(c, s, m))>>

-----------------------------------------------------------------------------
(* Channels.                                                               *)

IsSeq(q) == \E S : q \in Seq(S)
OneAlert(q) == \A i, j \in DOMAIN q : IsAlert(q[i]) /\ IsAlert(q[j]) => i = j
FatalLast(q) == \A i \in DOMAIN q : IsFatal(q[i]) => i = Len(q)
NoAlert(q) == \A i \in DOMAIN q : ~ IsAlert(q[i])

(* A channel has one alert at most, and a fatal one is the last thing that  *)
(* its writer says.                                                        *)
IsChannel(q) == IsSeq(q) /\ OneAlert(q) /\ FatalLast(q)
GivesUp(q) == \E i \in DOMAIN q : IsFatal(q[i])

(* Only a peer of another make sends alerts, and a fatal one ends its part. *)
AlertsOK(c) ==
    /\ IsChannel(toHost[c]) /\ IsChannel(toClient[c])
    /\ ~ NoAlert(toHost[c]) => c \in alerted /\ ~ Ours(c, "client")
    /\ ~ NoAlert(toClient[c]) => c \in alerted /\ ~ Ours(c, "host")
    /\ GivesUp(toHost[c]) => client[c].at = "error"
    /\ GivesUp(toClient[c]) => host[c].at = "error"

(* The channel q of c holds the beginning of rs, all unless c is broken. *)
IsBeginning(q, rs) == \E k \in 0..Len(rs) : Content(q) = SubSeq(rs, 1, k)
Delivered(q, c, rs) == IsBeginning(q, rs) /\ (c \notin broken => Content(q) = rs)

-----------------------------------------------------------------------------
(* The sides of a connection.                                              *)

Fields == {"isHost", "client_random", "server_random", "PreMasterSecret",
           "master_secret", "keys", "SessionId", "ClientSequenceNumber",
           "ServerSequenceNumber", "AllHandshakeMessages", "HandshakeFinished"}
IsParameters(p, isHost) == DOMAIN p = Fields /\ p.isHost = isHost
Numbers(p, clients, servers) ==
    p.ClientSequenceNumber = clients /\ p.ServerSequenceNumber = servers

(* What a client may offer: nothing, or a session that it has ended. *)
Session(c, s, m) ==
    /\ s \in Connections /\ ~ Ours(c, "client")
    /\ client[s].at = "connected" /\ client[s].offer = None
    /\ client[s].p.master_secret = m
Offers(c, s) == s = None \/ \E m \in {client[s].p.master_secret} : Session(c, s, m)

(* The client has said its hello, and takes or drops its offer later. *)
SaidHello(c, s) ==
    /\ client[c].at \in {"hello", "error", "undefined"}
    /\ IsParameters(client[c].p, FALSE)
    /\ client[c].offer \in {None, s} /\ Offers(c, s)
    /\ client[c].p.client_random = <<c, "client">>
    /\ client[c].p.AllHandshakeMessages = <<Hello(c, s)>>
    /\ client[c].p.ServerSequenceNumber = 0
    /\ ~ Ours(c, "client") => client[c].p.ClientSequenceNumber = 0

(* It has exchanged keys, after all that the server has said, ... *)
SaidFinished(c, s) ==
    /\ client[c].at \in {"finish", "connected", "aborted"} /\ client[c].offer = None
    /\ IsParameters(client[c].p, FALSE)
    /\ client[c].p.master_secret = MasterSecret(c)
    /\ client[c].p.keys = Keys(MasterSecret(c), c)
    /\ client[c].p.AllHandshakeMessages = SpokenByClient(c, s)
    /\ Numbers(client[c].p, 1, IF client[c].at = "connected" THEN 1 ELSE 0)

(* ... or after a part of it, when the connection had broken. *)
SaidNothing(c) ==
    /\ client[c].at \in {"finish", "aborted"} /\ c \in broken

(* The server's parameters in the phases. *)
HostExchanges(c, s) ==
    /\ IsParameters(host[c].p, TRUE) /\ Numbers(host[c].p, 0, 0)
    /\ host[c].p.client_random = <<c, "client">> /\ host[c].p.server_random = <<c, "server">>
    /\ host[c].p.AllHandshakeMessages = <<Hello(c, s)>> \o ServerFlight(c)
HostHasFinished(c) ==
    /\ IsParameters(host[c].p, TRUE) /\ Numbers(host[c].p, 1, 1)
    /\ host[c].p.master_secret = MasterSecret(c)
    /\ host[c].p.keys = Keys(MasterSecret(c), c)
    /\ host[c].p.HandshakeFinished
HostResumes(c, s, m) ==
    /\ IsParameters(host[c].p, TRUE) /\ ~ host[c].p.HandshakeFinished
    /\ host[c].p.master_secret = m /\ host[c].p.keys = Keys(m, c)
    /\ host[c].p.AllHandshakeMessages = ResumedByServer(c, s, m)

-----------------------------------------------------------------------------
(* The phases of a connection.                                             *)

Silent(c) ==
    /\ client[c].at \in {"start", "error"} /\ client[c].offer = None
    /\ client[c].p = FreshParameters(FALSE) /\ Content(toHost[c]) = <<>>
Greets(c, s) ==
    /\ SaidHello(c, s) /\ client[c].offer = s
    /\ Delivered(toHost[c], c, <<Plain("handshake", Hello(c, s))>>)
Starts(c) ==
    /\ host[c].at = "start" /\ host[c].p = FreshParameters(TRUE)
    /\ Content(toClient[c]) = <<>>
    /\ Silent(c) \/ \E s \in Connections \cup {None} : Greets(c, s)

AwaitsFlight(c, s) ==
    /\ SaidHello(c, s) /\ Content(toHost[c]) = <<>>
    /\ client[c].at = "hello" => Delivered(toClient[c], c, FlightRecords(c))
HasExchanged(c, s) ==
    /\ SaidFinished(c, s) /\ client[c].at # "connected"
    /\ Content(toClient[c]) = <<>> /\ Delivered(toHost[c], c, ExchangeRecords(c, s))
LostFlight(c) ==
    SaidNothing(c) /\ Content(toClient[c]) = <<>> /\ Content(toHost[c]) = <<>>
Exchanges(c) ==
    /\ host[c].at = "keys"
    /\ \E s \in Connections \cup {None} :
          /\ HostExchanges(c, s)
          /\ AwaitsFlight(c, s) \/ HasExchanged(c, s) \/ LostFlight(c)

AwaitsFinished(c, s) ==
    /\ SaidFinished(c, s)
    /\ client[c].at = "finish" => Delivered(toClient[c], c, FinalRecords(c, s))
IsDone(c) ==
    /\ host[c].at \in {"cache", "connected"} /\ HostHasFinished(c)
    /\ \E s \in Connections \cup {None} : AwaitsFinished(c, s)

AwaitsResumption(c, s, m) ==
    /\ SaidHello(c, s) /\ client[c].offer = s /\ Content(toHost[c]) = <<>>
    /\ client[c].at = "hello" => Delivered(toClient[c], c, ResumedRecords(c, s, m))
HasAnswered(c, s, m) ==
    /\ client[c].at = "connected" /\ client[c].offer # None
    /\ client[c].p.keys = Keys(m, c) /\ Numbers(client[c].p, 1, 1)
    /\ Delivered(toHost[c], c, AnswerRecords(c, s, m))
Resumes(c) ==
    /\ host[c].at = "resume"
    /\ \E s \in Connections : \E m \in {client[s].p.master_secret} :
          /\ Session(c, s, m) /\ HostResumes(c, s, m)
          /\ AwaitsResumption(c, s, m) \/ HasAnswered(c, s, m)
HasResumed(c) ==
    /\ host[c].at = "connected" /\ client[c].at = "connected"
    /\ client[c].offer # None /\ SameKeys(c)
IsOver(c) == host[c].at = "error" /\ c \in broken \cup alerted

Phase(c) == \/ Starts(c) \/ Exchanges(c) \/ IsDone(c)
            \/ Resumes(c) \/ HasResumed(c) \/ IsOver(c)

(* A side fails only when the connection breaks or is given up. *)
FailureOK(c) == client[c].at \in {"error", "undefined", "aborted"} => c \in broken \cup alerted

TypeInv ==
    /\ role \in Roles
    /\ DOMAIN toHost = Connections /\ DOMAIN toClient = Connections
    /\ DOMAIN client = Connections /\ DOMAIN host = Connections
    /\ \A c \in Connections : /\ DOMAIN client[c] = {"at", "p", "offer"}
                              /\ DOMAIN host[c] = {"at", "p"}

(* The cache has sessions of full handshakes that have ended. *)
CacheOK ==
    /\ DOMAIN CachedSessions \subseteq Connections
    /\ \A s \in DOMAIN CachedSessions :
          /\ host[s].at = "connected" /\ IsDone(s)
          /\ CachedSessions[s] = host[s].p

HandshakeInv ==
    /\ TypeInv /\ CacheOK
    /\ \A c \in Connections : AlertsOK(c) /\ Phase(c) /\ FailureOK(c)

-----------------------------------------------------------------------------
(* Sequences.                                                              *)

(* What is known of a sequence whatever its elements are. *)
LEMMA SeqFacts ==
  ASSUME NEW q, IsSeq(q)
  PROVE  /\ Len(q) \in Nat /\ DOMAIN q = 1..Len(q)
         /\ SubSeq(q, 1, Len(q)) = q
         /\ q \o <<>> = q
<1>1. PICK S : q \in Seq(S)
  BY DEF IsSeq
<1>. QED
  BY <1>1, LenProperties, SubSeqFull, ConcatEmptySeq

(* Two sequences of the same elements are one. *)
LEMMA SameElements ==
  ASSUME NEW q, NEW r, IsSeq(q), IsSeq(r), Len(q) = Len(r),
         \A i \in 1..Len(q) : q[i] = r[i]
  PROVE  q = r
<1>1. PICK S : q \in Seq(S)
  BY DEF IsSeq
<1>2. PICK T : r \in Seq(T)
  BY DEF IsSeq
<1>3. q \in Seq(S \cup T) /\ r \in Seq(S \cup T)
  BY <1>1, <1>2, SeqMonotonic
<1>. QED
  BY <1>3, SeqEqual

(* A stretch of a sequence. *)
LEMMA Stretch ==
  ASSUME NEW q, IsSeq(q), NEW m \in Int, NEW n \in Int, 1 <= m, n <= Len(q)
  PROVE  /\ IsSeq(SubSeq(q, m, n))
         /\ Len(SubSeq(q, m, n)) = IF m <= n THEN n - m + 1 ELSE 0
         /\ \A i \in 1..(n - m + 1) : SubSeq(q, m, n)[i] = q[m + i - 1]
<1>1. PICK S : q \in Seq(S)
  BY DEF IsSeq
<1>2. Len(q) \in Nat /\ \A i \in 1..Len(q) : q[i] \in S
  BY <1>1, LenProperties, ElementOfSeq
<1>3. \A i \in m..n : q[i] \in S
  BY <1>2
<1>. QED
  BY <1>3, SubSeqProperties DEF IsSeq

(* The beginning of a sequence. *)
LEMMA Beginning ==
  ASSUME NEW q, IsSeq(q), NEW j \in 0..Len(q)
  PROVE  /\ IsSeq(SubSeq(q, 1, j)) /\ Len(SubSeq(q, 1, j)) = j
         /\ \A i \in 1..j : SubSeq(q, 1, j)[i] = q[i]
<1>1. Len(q) \in Nat
  BY SeqFacts
<1>2. 1 \in Int /\ 1 <= 1 /\ j \in Int /\ 0 <= j /\ j <= Len(q)
  BY <1>1
<1>. QED
  BY <1>2, Stretch

(* Two sequences, one behind the other. *)
LEMMA Joined ==
  ASSUME NEW q, NEW r, IsSeq(q), IsSeq(r)
  PROVE  /\ IsSeq(q \o r)
         /\ Len(q \o r) = Len(q) + Len(r)
         /\ \A i \in 1..(Len(q) + Len(r)) :
               (q \o r)[i] = IF i <= Len(q) THEN q[i] ELSE r[i - Len(q)]
<1>1. PICK S : q \in Seq(S)
  BY DEF IsSeq
<1>2. PICK T : r \in Seq(T)
  BY DEF IsSeq
<1>3. q \in Seq(S \cup T) /\ r \in Seq(S \cup T)
  BY <1>1, <1>2, SeqMonotonic
<1>. QED
  BY <1>3, ConcatProperties DEF IsSeq

-----------------------------------------------------------------------------
(* What a channel holds besides an alert.                                  *)

(* Without an alert that is all. *)
LEMMA ContentWithout ==
  ASSUME NEW q, NoAlert(q)
  PROVE  Content(q) = q
BY DEF NoAlert, Content

(* With one, it is what is around it. *)
LEMMA ContentAround ==
  ASSUME NEW q, IsSeq(q), OneAlert(q), NEW a \in 1..Len(q), IsAlert(q[a])
  PROVE  /\ Content(q) = SubSeq(q, 1, a - 1) \o SubSeq(q, a + 1, Len(q))
         /\ IsSeq(Content(q)) /\ Len(Content(q)) = Len(q) - 1
         /\ \A i \in 1..(Len(q) - 1) : Content(q)[i] = IF i < a THEN q[i] ELSE q[i + 1]
<1>1. DOMAIN q = 1..Len(q) /\ Len(q) \in Nat
  BY SeqFacts
<1>2. (CHOOSE i \in DOMAIN q : IsAlert(q[i])) = a
  BY <1>1 DEF OneAlert
<1>3. Content(q) = SubSeq(q, 1, a - 1) \o SubSeq(q, a + 1, Len(q))
  BY <1>1, <1>2 DEF Content
<1>4. /\ IsSeq(SubSeq(q, 1, a - 1)) /\ Len(SubSeq(q, 1, a - 1)) = a - 1
      /\ \A i \in 1..(a - 1) : SubSeq(q, 1, a - 1)[i] = q[i]
  BY <1>1, Stretch
<1>5. /\ IsSeq(SubSeq(q, a + 1, Len(q))) /\ Len(SubSeq(q, a + 1, Len(q))) = Len(q) - a
      /\ \A i \in 1..(Len(q) - a) : SubSeq(q, a + 1, Len(q))[i] = q[a + i]
  <2>. DEFINE r == SubSeq(q, a + 1, Len(q))
  <2>1. a + 1 \in Int /\ 1 <= a + 1 /\ Len(q) \in Int /\ Len(q) <= Len(q)
    BY <1>1
  <2>2. /\ IsSeq(r)
        /\ Len(r) = IF a + 1 <= Len(q) THEN Len(q) - (a + 1) + 1 ELSE 0
        /\ \A i \in 1..(Len(q) - (a + 1) + 1) : r[i] = q[(a + 1) + i - 1]
    BY <2>1, Stretch
  <2>. HIDE DEF r
  <2>3. Len(q) - (a + 1) + 1 = Len(q) - a /\ \A i \in Int : (a + 1) + i - 1 = a + i
    BY <1>1
  <2>4. Len(r) = Len(q) - a
    <3>1. Len(r) = IF a + 1 <= Len(q) THEN Len(q) - (a + 1) + 1 ELSE 0
      BY <2>2
    <3>2. CASE a + 1 <= Len(q)
      BY <2>3, <3>1, <3>2
    <3>3. CASE ~ (a + 1 <= Len(q))
      <4>1. a \in Int /\ a <= Len(q) /\ Len(q) \in Int
        BY <1>1
      <4>2. a = Len(q)
        BY <3>3, <4>1
      <4>3. Len(q) - a = 0
        BY <4>1, <4>2
      <4>. QED
        BY <3>1, <3>3, <4>3
    <3>. QED
      BY <3>2, <3>3
  <2>5. ASSUME NEW i \in 1..(Len(q) - a)
        PROVE  r[i] = q[a + i]
    <3>1. i \in 1..(Len(q) - (a + 1) + 1) /\ (a + 1) + i - 1 = a + i
      BY <1>1, <2>3
    <3>. QED
      BY <2>2, <3>1
  <2>. QED
    BY <2>2, <2>4, <2>5 DEF r
<1>6. /\ IsSeq(Content(q)) /\ Len(Content(q)) = Len(q) - 1
      /\ \A i \in 1..(Len(q) - 1) :
            Content(q)[i] = IF i <= a - 1 THEN SubSeq(q, 1, a - 1)[i]
                            ELSE SubSeq(q, a + 1, Len(q))[i - (a - 1)]
  <2>1. (a - 1) + (Len(q) - a) = Len(q) - 1
    BY <1>1
  <2>. DEFINE l == SubSeq(q, 1, a - 1)
              r == SubSeq(q, a + 1, Len(q))
  <2>2. /\ IsSeq(l \o r) /\ Len(l \o r) = Len(l) + Len(r)
        /\ \A i \in 1..(Len(l) + Len(r)) :
              (l \o r)[i] = IF i <= Len(l) THEN l[i] ELSE r[i - Len(l)]
    BY <1>4, <1>5, Joined
  <2>. QED
    BY <1>3, <1>4, <1>5, <2>1, <2>2
<1>7. ASSUME NEW i \in 1..(Len(q) - 1)
      PROVE  Content(q)[i] = IF i < a THEN q[i] ELSE q[i + 1]
  <2>1. CASE i < a
    BY <1>1, <1>4, <1>6, <2>1
  <2>2. CASE i >= a
    <3>1. i - (a - 1) \in 1..(Len(q) - a) /\ a + (i - (a - 1)) = i + 1 /\ ~ (i <= a - 1)
      BY <1>1, <2>2
    <3>2. Content(q)[i] = SubSeq(q, a + 1, Len(q))[i - (a - 1)]
      BY <1>6, <3>1
    <3>3. SubSeq(q, a + 1, Len(q))[i - (a - 1)] = q[a + (i - (a - 1))]
      BY <1>5, <3>1
    <3>. QED
      BY <1>1, <2>2, <3>1, <3>2, <3>3
  <2>. QED
    BY <1>1, <2>1, <2>2
<1>. QED
  BY <1>3, <1>6, <1>7

(* In either case it is a sequence, of which the channel's beginning has   *)
(* the beginning.                                                          *)
LEMMA ContentIsASeq ==
  ASSUME NEW q, IsSeq(q), OneAlert(q)
  PROVE  IsSeq(Content(q)) /\ Len(Content(q)) \in Nat /\ Len(Content(q)) <= Len(q)
<1>1. DOMAIN q = 1..Len(q) /\ Len(q) \in Nat
  BY SeqFacts
<1>2. CASE NoAlert(q)
  BY <1>1, <1>2, ContentWithout
<1>3. CASE ~ NoAlert(q)
  <2>1. PICK a \in 1..Len(q) : IsAlert(q[a])
    BY <1>1, <1>3 DEF NoAlert
  <2>2. IsSeq(Content(q)) /\ Len(Content(q)) = Len(q) - 1
    BY <2>1, ContentAround
  <2>. QED
    BY <1>1, <2>1, <2>2
<1>. QED
  BY <1>2, <1>3

(* A stretch of a channel has an alert where the channel has it. *)
LEMMA AlertsOfStretch ==
  ASSUME NEW q, IsSeq(q), NEW m \in Int, NEW n \in Int, 1 <= m, n <= Len(q)
  PROVE  /\ OneAlert(q) => OneAlert(SubSeq(q, m, n))
         /\ NoAlert(q) => NoAlert(SubSeq(q, m, n))
         /\ FatalLast(q) => FatalLast(SubSeq(q, m, n))
         /\ \A i \in DOMAIN SubSeq(q, m, n) :
               /\ i \in Int /\ m + i - 1 \in DOMAIN q
               /\ SubSeq(q, m, n)[i] = q[m + i - 1]
<1>. DEFINE r == SubSeq(q, m, n)
<1>1. DOMAIN q = 1..Len(q) /\ Len(q) \in Nat
  BY SeqFacts
<1>2. /\ IsSeq(r) /\ Len(r) = IF m <= n THEN n - m + 1 ELSE 0
      /\ \A i \in 1..(n - m + 1) : r[i] = q[m + i - 1]
  BY Stretch
<1>3. DOMAIN r = 1..Len(r)
  BY <1>2, SeqFacts
<1>. HIDE DEF r
<1>4. \A i \in DOMAIN r :
        i \in Int /\ m + i - 1 \in DOMAIN q /\ r[i] = q[m + i - 1]
  BY <1>1, <1>2, <1>3
<1>5. OneAlert(q) => OneAlert(r)
  BY <1>4 DEF OneAlert
<1>6. NoAlert(q) => NoAlert(r)
  BY <1>4 DEF NoAlert
<1>7. FatalLast(q) => FatalLast(r)
  <2>. SUFFICES ASSUME FatalLast(q), NEW i \in DOMAIN r, IsFatal(r[i])
                PROVE  i = Len(r)
    BY DEF FatalLast
  <2>1. m + i - 1 = Len(q)
    BY <1>4 DEF FatalLast
  <2>. QED
    BY <1>1, <1>2, <1>3, <2>1
<1>. QED
  BY <1>4, <1>5, <1>6, <1>7 DEF r

(* The empty sequence. *)
LEMMA NoElements ==
  ASSUME NEW q, IsSeq(q), Len(q) = 0
  PROVE  q = <<>>
<1>1. PICK S : q \in Seq(S)
  BY DEF IsSeq
<1>. QED
  BY <1>1, EmptySeq

(* The beginning of a channel, up to the last record or all of it. *)
LEMMA ContentOfBeginning ==
  ASSUME NEW q, IsSeq(q), OneAlert(q), NEW j \in 0..Len(q)
  PROVE  /\ IsSeq(SubSeq(q, 1, j)) /\ Len(SubSeq(q, 1, j)) = j
         /\ OneAlert(SubSeq(q, 1, j))
         /\ Len(Content(SubSeq(q, 1, j))) \in Nat /\ Len(Content(SubSeq(q, 1, j))) <= j
<1>1. Len(q) \in Nat /\ j \in Int /\ 0 <= j /\ j <= Len(q)
  BY SeqFacts
<1>2. IsSeq(SubSeq(q, 1, j)) /\ Len(SubSeq(q, 1, j)) = j
  BY <1>1, Stretch
<1>3. OneAlert(SubSeq(q, 1, j))
  BY <1>1, AlertsOfStretch
<1>. QED
  BY <1>2, <1>3, ContentIsASeq

(* Without the last record, a channel holds as much only if that is the    *)
(* alert.                                                                  *)
LEMMA WithoutTheLast ==
  ASSUME NEW q, IsSeq(q), OneAlert(q), Len(q) # 0
  PROVE  IF IsAlert(q[Len(q)])
         THEN Content(q) = SubSeq(q, 1, Len(q) - 1) /\ NoAlert(SubSeq(q, 1, Len(q) - 1))
         ELSE Len(Content(SubSeq(q, 1, Len(q) - 1))) = Len(Content(q)) - 1
<1>. DEFINE n == Len(q)
            r == SubSeq(q, 1, n - 1)
<1>1. n \in Nat /\ n # 0 /\ DOMAIN q = 1..n
  BY SeqFacts
<1>2. IsSeq(r) /\ Len(r) = n - 1 /\ OneAlert(r)
  <2>1. n - 1 \in 0..n
    BY <1>1
  <2>. QED
    BY <2>1, ContentOfBeginning
<1>3. ASSUME NEW i \in DOMAIN r
      PROVE  i \in 1..(n - 1) /\ r[i] = q[i]
  <2>1. n - 1 \in Int /\ n - 1 <= Len(q) /\ 1 \in Int /\ 1 <= 1
    BY <1>1
  <2>2. i \in Int /\ r[i] = q[1 + i - 1]
    BY <2>1, AlertsOfStretch
  <2>3. DOMAIN r = 1..(n - 1)
    BY <1>2, SeqFacts
  <2>. QED
    BY <2>2, <2>3
<1>4. CASE IsAlert(q[n])
  <2>1. NoAlert(r)
    BY <1>1, <1>3, <1>4 DEF NoAlert, OneAlert
  <2>2. n \in 1..Len(q)
    BY <1>1
  <2>3. Content(q) = r \o SubSeq(q, n + 1, Len(q))
    BY <1>4, <2>2, ContentAround
  <2>4. SubSeq(q, n + 1, Len(q)) = <<>>
    BY <1>1, SubSeqEmpty
  <2>5. Content(q) = r
    BY <1>2, <2>3, <2>4, SeqFacts
  <2>. QED
    BY <1>4, <2>1, <2>5
<1>5. CASE ~ IsAlert(q[n])
  <2>1. CASE NoAlert(q)
    <3>1. NoAlert(r)
      BY <1>1, <1>3, <2>1 DEF NoAlert
    <3>. QED
      BY <1>2, <1>5, <2>1, <3>1, ContentWithout
  <2>2. CASE ~ NoAlert(q)
    <3>1. PICK a \in 1..n : IsAlert(q[a])
      BY <1>1, <2>2 DEF NoAlert
    <3>2. Len(Content(q)) = n - 1
      BY <3>1, ContentAround
    <3>3. a \in 1..(n - 1)
      BY <1>1, <1>5, <3>1
    <3>4. DOMAIN r = 1..(n - 1)
      BY <1>2, SeqFacts
    <3>5. a \in 1..Len(r) /\ IsAlert(r[a])
      BY <1>2, <1>3, <3>1, <3>3, <3>4
    <3>6. Len(Content(r)) = Len(r) - 1
      BY <1>2, <3>5, ContentAround
    <3>. QED
      BY <1>2, <1>5, <3>2, <3>6
  <2>. QED
    BY <2>1, <2>2
<1>. QED
  BY <1>4, <1>5

(* What is read is a part of the channel. *)
LEMMA LengthIsALength ==
  ASSUME NEW q, IsSeq(q), NEW n \in Nat
  PROVE  Length(q, n) \in 0..Len(q)
<1>1. Len(q) \in Nat
  BY SeqFacts
<1>. QED
  BY <1>1 DEF Length

(* Who reads as much as there may be gets all that there is and leaves     *)
(* nothing but perhaps the alert.                                          *)
LEMMA ReadsContent ==
  ASSUME NEW q, IsSeq(q), OneAlert(q), NEW n \in Nat, Len(Content(q)) <= n
  PROVE  Got(q, n) = Content(q) /\ Content(Rest(q, n)) = <<>>
<1>. DEFINE l == Len(q)
<1>1. l \in Nat /\ SubSeq(q, 1, l) = q
  BY SeqFacts
<1>2. DOMAIN q = 1..l
  BY SeqFacts
<1>. HIDE DEF l
<1>3. l \in Nat
  BY <1>1
<1>4. n \in Nat /\ Len(q) = l
  BY DEF l
<1>5. \/ Length(q, n) = l
      \/ Length(q, n) = l - 1 /\ l # 0 /\ IsAlert(q[l])
  <2>1. CASE NoAlert(q)
    <3>1. l <= n
      BY <1>4, <2>1, ContentWithout
    <3>2. Length(q, n) = IF n < Len(q) THEN n ELSE Len(q)
      BY <2>1 DEF Length, NoAlert
    <3>. QED
      BY <1>3, <1>4, <3>1, <3>2
  <2>2. CASE ~ NoAlert(q)
    <3>1. PICK a \in 1..l : IsAlert(q[a])
      BY <1>2, <2>2 DEF NoAlert
    <3>2. Len(Content(q)) = l - 1
      BY <1>4, <3>1, ContentAround
    <3>3. a \in Nat /\ a >= 1 /\ a <= l /\ l - 1 <= n
      BY <1>3, <3>2
    <3>4. (\E i \in DOMAIN q : i <= n /\ IsAlert(q[i])) <=> a <= n
      BY <1>2, <3>1 DEF OneAlert
    <3>5. CASE a <= n
      <4>1. Length(q, n) = IF n + 1 < Len(q) THEN n + 1 ELSE Len(q)
        BY <3>4, <3>5 DEF Length
      <4>. QED
        BY <1>3, <1>4, <3>3, <3>5, <4>1
    <3>6. CASE ~ (a <= n)
      <4>1. Length(q, n) = IF n < Len(q) THEN n ELSE Len(q)
        BY <3>4, <3>6 DEF Length
      <4>2. a = l /\ n = l - 1
        BY <1>3, <3>3, <3>6
      <4>3. Length(q, n) = l - 1 /\ l # 0
        BY <1>3, <1>4, <3>3, <4>1, <4>2
      <4>. QED
        BY <3>1, <4>2, <4>3
    <3>. QED
      BY <3>5, <3>6
  <2>. QED
    BY <2>1, <2>2
<1>. USE DEF l
<1>6. CASE Length(q, n) = l
  <2>1. Got(q, n) = Content(q)
    BY <1>1, <1>6 DEF Got
  <2>2. Rest(q, n) = <<>>
    BY <1>1, <1>6, SubSeqEmpty DEF Rest
  <2>3. Content(Rest(q, n)) = <<>>
    BY <2>2, ContentWithout DEF NoAlert
  <2>. QED
    BY <2>1, <2>3
<1>7. CASE Length(q, n) = l - 1 /\ l # 0 /\ IsAlert(q[l])
  <2>1. Content(q) = SubSeq(q, 1, l - 1) /\ NoAlert(SubSeq(q, 1, l - 1))
    BY <1>7, WithoutTheLast
  <2>2. Got(q, n) = Content(q)
    BY <1>7, <2>1, ContentWithout DEF Got
  <2>3. (l - 1) + 1 = l /\ l \in Int /\ 1 <= l /\ l <= Len(q)
    BY <1>1, <1>7
  <2>. DEFINE r == SubSeq(q, l, l)
  <2>4. Rest(q, n) = r
    BY <1>7, <2>3 DEF Rest
  <2>5. /\ IsSeq(r) /\ Len(r) = (IF l <= l THEN l - l + 1 ELSE 0)
        /\ \A i \in 1..(l - l + 1) : r[i] = q[l + i - 1]
    BY <2>3, Stretch
  <2>6. l - l + 1 = 1 /\ l + 1 - 1 = l
    BY <2>3
  <2>7. Len(r) = 1 /\ r[1] = q[l]
    BY <2>3, <2>5, <2>6
  <2>8. OneAlert(r)
    BY <2>3, AlertsOfStretch
  <2>. HIDE DEF r
  <2>9. IsSeq(Content(r)) /\ Len(Content(r)) = Len(r) - 1
    <3>1. 1 \in 1..Len(r) /\ IsAlert(r[1])
      BY <1>7, <2>7
    <3>. QED
      BY <2>5, <2>8, <3>1, ContentAround
  <2>10. Content(r) = <<>>
    BY <2>7, <2>9, NoElements
  <2>. QED
    BY <2>2, <2>4, <2>10
<1>. QED
  BY <1>5, <1>6, <1>7

(* A part of a channel is one, and has no alert that the channel has not.   *)
LEMMA PartOfChannel ==
  ASSUME NEW q, IsChannel(q), NEW m \in Int, NEW n \in Int, 1 <= m, n <= Len(q)
  PROVE  /\ IsChannel(SubSeq(q, m, n))
         /\ NoAlert(q) => NoAlert(SubSeq(q, m, n))
         /\ GivesUp(SubSeq(q, m, n)) => GivesUp(q)
<1>1. IsSeq(q) /\ OneAlert(q) /\ FatalLast(q)
  BY DEF IsChannel
<1>2. IsSeq(SubSeq(q, m, n))
  BY <1>1, Stretch
<1>3. /\ OneAlert(SubSeq(q, m, n)) /\ FatalLast(SubSeq(q, m, n))
      /\ NoAlert(q) => NoAlert(SubSeq(q, m, n))
      /\ \A i \in DOMAIN SubSeq(q, m, n) : /\ m + i - 1 \in DOMAIN q
                                           /\ SubSeq(q, m, n)[i] = q[m + i - 1]
  BY <1>1, AlertsOfStretch
<1>4. GivesUp(SubSeq(q, m, n)) => GivesUp(q)
  BY <1>3 DEF GivesUp
<1>. QED
  BY <1>2, <1>3, <1>4 DEF IsChannel

(* What becomes of a channel has no alert that is not the channel's. *)
Carries(q, r) == /\ IsChannel(r)
                 /\ NoAlert(q) => NoAlert(r)
                 /\ GivesUp(r) => GivesUp(q)

(* What reading does to a channel ... *)
LEMMA ReadingCarries ==
  ASSUME NEW q, IsChannel(q), NEW n \in Nat
  PROVE  Carries(q, Rest(q, n)) /\ (GotFatal(q, n) => GivesUp(q))
<1>1. IsSeq(q)
  BY DEF IsChannel
<1>2. Len(q) \in Nat /\ DOMAIN q = 1..Len(q)
  BY <1>1, SeqFacts
<1>. DEFINE k == Length(q, n)
<1>3. k \in 0..Len(q)
  BY <1>1, LengthIsALength
<1>. HIDE DEF k
<1>4. k + 1 \in Int /\ 1 <= k + 1 /\ Len(q) \in Int /\ Len(q) <= Len(q)
  <2>1. Len(q) \in Nat
    BY <1>2
  <2>. QED
    BY <1>3, <2>1
<1>5. Carries(q, Rest(q, n))
  BY <1>4, PartOfChannel DEF Rest, Carries, k
<1>6. GotFatal(q, n) => GivesUp(q)
  BY <1>2, <1>3 DEF GotFatal, GivesUp, k
<1>. QED
  BY <1>5, <1>6

(* ... and what it gives and leaves, when all of the content is asked for. *)
LEMMA Reading ==
  ASSUME NEW q, IsChannel(q), NEW n \in Nat, Len(Content(q)) <= n
  PROVE  /\ Got(q, n) = Content(q)
         /\ Content(Rest(q, n)) = <<>>
         /\ Enough(q, n) => (Len(Content(q)) = n \/ GivesUp(q))
<1>1. IsSeq(q) /\ OneAlert(q)
  BY DEF IsChannel
<1>2. Got(q, n) = Content(q) /\ Content(Rest(q, n)) = <<>>
  BY <1>1, ReadsContent
<1>3. Len(Content(q)) \in Nat
  BY <1>1, ContentIsASeq
<1>4. Enough(q, n) => (Len(Content(q)) = n \/ GivesUp(q))
  BY <1>3 DEF Enough, GivesUp
<1>. QED
  BY <1>2, <1>4

(* A channel without content is empty or has the alert alone. *)
LEMMA WithoutContent ==
  ASSUME NEW q, IsChannel(q), Content(q) = <<>>
  PROVE  q = <<>> \/ (Len(q) = 1 /\ IsAlert(q[1]))
<1>1. IsSeq(q) /\ OneAlert(q)
  BY DEF IsChannel
<1>2. Len(q) \in Nat /\ DOMAIN q = 1..Len(q)
  BY <1>1, SeqFacts
<1>3. CASE NoAlert(q)
  <2>1. Content(q) = q
    BY <1>3, ContentWithout
  <2>. QED
    BY <2>1
<1>4. CASE ~ NoAlert(q)
  <2>1. PICK a \in 1..Len(q) : IsAlert(q[a])
    BY <1>2, <1>4 DEF NoAlert
  <2>2. Len(Content(q)) = Len(q) - 1
    BY <1>1, <2>1, ContentAround
  <2>3. Len(q) = 1
    <3>1. Len(q) \in Int
      BY <1>2
    <3>2. Len(Content(q)) = 0
      OBVIOUS
    <3>3. 0 = Len(q) - 1
      BY <2>2, <3>2
    <3>. QED
      BY <3>1, <3>3
  <2>. QED
    BY <2>1, <2>3
<1>. QED
  BY <1>3, <1>4

(* Writing records to a channel whose writer has not given up. *)
LEMMA Appending ==
  ASSUME NEW q, IsChannel(q), ~ GivesUp(q), NEW rs, IsSeq(rs), NoAlert(rs)
  PROVE  Carries(q, q \o rs)
<1>. DEFINE w == q \o rs
<1>1. IsSeq(q) /\ OneAlert(q)
  BY DEF IsChannel
<1>2. Len(rs) \in Nat /\ Len(q) \in Nat
  BY <1>1, SeqFacts
<1>3. DOMAIN rs = 1..Len(rs) /\ DOMAIN q = 1..Len(q)
  BY <1>1, SeqFacts
<1>4. /\ IsSeq(w) /\ Len(w) = Len(q) + Len(rs)
      /\ \A i \in 1..(Len(q) + Len(rs)) :
            w[i] = IF i <= Len(q) THEN q[i] ELSE rs[i - Len(q)]
  BY <1>1, Joined
<1>5. DOMAIN w = 1..Len(w)
  BY <1>4, SeqFacts
<1>. HIDE DEF w
<1>6. ASSUME NEW i \in DOMAIN w, IsAlert(w[i])
      PROVE  i \in DOMAIN q /\ w[i] = q[i]
  <2>1. i \in 1..(Len(q) + Len(rs))
    BY <1>4, <1>5
  <2>2. CASE i <= Len(q)
    BY <1>2, <1>3, <1>4, <2>1, <2>2
  <2>3. CASE ~ (i <= Len(q))
    <3>1. i - Len(q) \in 1..Len(rs)
      BY <1>2, <2>1, <2>3
    <3>2. w[i] = rs[i - Len(q)]
      BY <1>4, <2>1, <2>3
    <3>. QED
      BY <1>3, <1>6, <3>1, <3>2 DEF NoAlert
  <2>. QED
    BY <2>2, <2>3
<1>7. OneAlert(w) /\ (NoAlert(q) => NoAlert(w))
  BY <1>1, <1>6 DEF OneAlert, NoAlert
<1>8. ~ GivesUp(w) /\ FatalLast(w)
  BY <1>6 DEF GivesUp, FatalLast, IsFatal
<1>. QED
  BY <1>4, <1>7, <1>8 DEF Carries, IsChannel, w

(* Then they are all there is besides the alert, if nothing was before. *)
LEMMA Writing ==
  ASSUME NEW q, IsChannel(q), Content(q) = <<>>, ~ GivesUp(q),
         NEW rs, IsSeq(rs), NoAlert(rs)
  PROVE  Content(q \o rs) = rs
<1>. DEFINE w == q \o rs
<1>1. IsSeq(q) /\ OneAlert(q)
  BY DEF IsChannel
<1>2. Len(rs) \in Nat
  BY SeqFacts
<1>3. CASE q = <<>>
  <2>1. PICK S : rs \in Seq(S)
    BY DEF IsSeq
  <2>2. w = rs
    BY <1>3, <2>1, ConcatEmptySeq
  <2>. QED
    BY <2>2, ContentWithout
<1>4. CASE Len(q) = 1 /\ IsAlert(q[1])
  <2>1. /\ IsSeq(w) /\ Len(w) = Len(q) + Len(rs)
        /\ \A i \in 1..(Len(q) + Len(rs)) :
              w[i] = IF i <= Len(q) THEN q[i] ELSE rs[i - Len(q)]
    BY <1>1, Joined
  <2>2. OneAlert(w)
    BY Appending DEF Carries, IsChannel
  <2>. HIDE DEF w
  <2>3. w[1] = q[1] /\ Len(w) = 1 + Len(rs)
    BY <1>2, <1>4, <2>1
  <2>4. 1 \in 1..Len(w) /\ IsAlert(w[1])
    BY <1>2, <1>4, <2>3
  <2>5. /\ IsSeq(Content(w)) /\ Len(Content(w)) = Len(w) - 1
        /\ \A i \in 1..(Len(w) - 1) : Content(w)[i] = IF i < 1 THEN w[i] ELSE w[i + 1]
    BY <2>1, <2>2, <2>4, ContentAround
  <2>6. ASSUME NEW i \in 1..Len(rs)
        PROVE  Content(w)[i] = rs[i]
    <3>1. /\ i + 1 \in 1..(Len(q) + Len(rs)) /\ ~ (i + 1 <= Len(q)) /\ (i + 1) - Len(q) = i
          /\ ~ (i < 1)
      BY <1>2, <1>4
    <3>2. w[i + 1] = rs[i]
      BY <2>1, <3>1
    <3>3. i \in 1..(Len(w) - 1)
      BY <1>2, <2>3
    <3>. QED
      BY <2>5, <3>1, <3>2, <3>3
  <2>7. Len(Content(w)) = Len(rs)
    BY <1>2, <2>3, <2>5
  <2>. QED
    BY <2>5, <2>6, <2>7, SameElements DEF w
<1>. QED
  BY <1>3, <1>4, WithoutContent

(* An alert, the first of a channel. *)
LEMMA Alerting ==
  ASSUME NEW q, IsChannel(q), NoAlert(q), NEW level,
         NEW w, w = q \o <<Plain("alert", level)>>
  PROVE  /\ Content(w) = Content(q) /\ IsChannel(w)
         /\ GivesUp(w) => level = "fatal"
<1>. DEFINE r == <<Plain("alert", level)>>
<1>1. IsSeq(q)
  BY DEF IsChannel
<1>2. IsSeq(r) /\ Len(r) = 1 /\ r[1] = Plain("alert", level)
  <2>1. r \in Seq({Plain("alert", level)})
    OBVIOUS
  <2>2. Len(r) = 1 /\ r[1] = Plain("alert", level)
    OBVIOUS
  <2>. QED
    BY <2>1, <2>2 DEF IsSeq
<1>3. Plain("alert", level).type = "alert" /\ Plain("alert", level).msg = level
  BY DEF Plain
<1>. HIDE DEF r
<1>4. Len(q) \in Nat /\ DOMAIN q = 1..Len(q)
  BY <1>1, SeqFacts
<1>5. /\ IsSeq(w) /\ Len(w) = Len(q) + Len(r)
      /\ \A i \in 1..(Len(q) + Len(r)) :
            w[i] = IF i <= Len(q) THEN q[i] ELSE r[i - Len(q)]
  BY <1>1, <1>2, Joined DEF r
<1>6. DOMAIN w = 1..Len(w) /\ Len(w) = Len(q) + 1
  BY <1>2, <1>5, SeqFacts
<1>7. \A i \in DOMAIN w : IF i = Len(w) THEN w[i] = Plain("alert", level)
                          ELSE i \in DOMAIN q /\ w[i] = q[i]
  BY <1>2, <1>4, <1>5, <1>6
<1>8. \A i \in DOMAIN w : IsAlert(w[i]) => i = Len(w)
  BY <1>7 DEF NoAlert
<1>9. OneAlert(w) /\ FatalLast(w)
  BY <1>8 DEF OneAlert, FatalLast, IsFatal
<1>10. GivesUp(w) => level = "fatal"
  BY <1>3, <1>7, <1>8 DEF GivesUp, IsFatal
<1>11. Len(w) # 0 /\ Len(w) \in DOMAIN w
  BY <1>4, <1>6
<1>12. IsAlert(w[Len(w)])
  BY <1>3, <1>7, <1>11 DEF IsAlert
<1>13. Content(w) = SubSeq(w, 1, Len(w) - 1)
  BY <1>5, <1>9, <1>11, <1>12, WithoutTheLast
<1>14. SubSeq(w, 1, Len(w) - 1) = q
  <2>. DEFINE l == SubSeq(w, 1, Len(q))
  <2>1. Len(w) - 1 = Len(q) /\ Len(q) \in 0..Len(w)
    BY <1>4, <1>6
  <2>2. IsSeq(l) /\ Len(l) = Len(q) /\ \A i \in 1..Len(q) : l[i] = w[i]
    BY <1>5, <2>1, Beginning
  <2>. HIDE DEF l
  <2>5. ASSUME NEW i \in 1..Len(q)
        PROVE  l[i] = q[i]
    <3>1. i \in DOMAIN w /\ i # Len(w)
      BY <1>4, <1>6
    <3>. QED
      BY <1>7, <2>2, <3>1
  <2>6. l = q
    BY <1>1, <2>2, <2>5, SameElements
  <2>. QED
    BY <2>1, <2>6 DEF l
<1>15. Content(w) = Content(q)
  BY <1>13, <1>14, ContentWithout
<1>. QED
  BY <1>5, <1>9, <1>10, <1>15 DEF IsChannel

-----------------------------------------------------------------------------
(* What has been delivered.                                                *)

(* The records that are there are the first of those that were said. *)
LEMMA BeginningOf ==
  ASSUME NEW q, NEW rs, IsSeq(rs), IsBeginning(q, rs)
  PROVE  /\ Len(Content(q)) \in 0..Len(rs)
         /\ Len(Content(q)) = Len(rs) => Content(q) = rs
         /\ \A i \in 1..Len(Content(q)) : Content(q)[i] = rs[i]
<1>1. PICK k \in 0..Len(rs) : Content(q) = SubSeq(rs, 1, k)
  BY DEF IsBeginning
<1>2. /\ Len(Content(q)) = k
      /\ \A i \in 1..k : Content(q)[i] = rs[i]
  BY <1>1, Beginning
<1>3. SubSeq(rs, 1, Len(rs)) = rs
  BY SeqFacts
<1>. QED
  BY <1>1, <1>2, <1>3

(* All of them, or none. *)
LEMMA AllDelivered ==
  ASSUME NEW q, NEW rs, IsSeq(rs), Content(q) = rs \/ Content(q) = <<>>
  PROVE  IsBeginning(q, rs)
<1>1. Len(rs) \in Nat /\ SubSeq(rs, 1, Len(rs)) = rs
  BY SeqFacts
<1>2. SubSeq(rs, 1, 0) = <<>>
  BY SubSeqEmpty
<1>3. 0 \in 0..Len(rs) /\ Len(rs) \in 0..Len(rs)
  BY <1>1
<1>. QED
  BY <1>1, <1>2, <1>3 DEF IsBeginning

(* What is left when the last records are lost. *)
LEMMA Cutting ==
  ASSUME NEW q, IsChannel(q), NEW rs, IsSeq(rs), IsBeginning(q, rs),
         NEW n \in 0..Len(q)
  PROVE  IsBeginning(SubSeq(q, 1, n), rs)
<1>. DEFINE p == SubSeq(q, 1, n)
            l == Len(Content(p))
<1>1. IsSeq(q) /\ OneAlert(q)
  BY DEF IsChannel
<1>2. Len(q) \in Nat
  BY <1>1, SeqFacts
<1>3. IsSeq(p) /\ Len(p) = n /\ \A i \in 1..n : p[i] = q[i]
  BY <1>1, Beginning
<1>4. OneAlert(p) /\ l \in Nat /\ l <= n
  BY <1>1, ContentOfBeginning
<1>5. IsSeq(Content(p))
  BY <1>3, <1>4, ContentIsASeq
<1>. HIDE DEF p
<1>6. DOMAIN q = 1..Len(q)
  BY <1>1, SeqFacts
<1>7. DOMAIN p = 1..n
  BY <1>3, SeqFacts
<1>8. l <= Len(Content(q)) /\ \A i \in 1..l : Content(p)[i] = Content(q)[i]
  <2>1. CASE NoAlert(q)
    <3>1. NoAlert(p)
      BY <1>2, <1>3, <1>6, <1>7, <2>1 DEF NoAlert
    <3>2. Content(q) = q /\ Content(p) = p
      BY <2>1, <3>1, ContentWithout
    <3>. QED
      BY <1>2, <1>3, <3>2
  <2>2. CASE ~ NoAlert(q)
    <3>1. PICK a \in 1..Len(q) : IsAlert(q[a])
      BY <1>6, <2>2 DEF NoAlert
    <3>2. /\ Len(Content(q)) = Len(q) - 1
          /\ \A i \in 1..(Len(q) - 1) : Content(q)[i] = IF i < a THEN q[i] ELSE q[i + 1]
      BY <1>1, <3>1, ContentAround
    <3>3. a \in Nat /\ n \in Nat /\ Len(q) \in Nat /\ a <= Len(q) /\ n <= Len(q) /\ 1 <= a
      BY <1>2
    <3>4. CASE n < a
      <4>1. NoAlert(p)
        BY <1>1, <1>2, <1>3, <1>6, <1>7, <3>1, <3>4 DEF NoAlert, OneAlert
      <4>2. Content(p) = p
        BY <4>1, ContentWithout
      <4>3. n <= Len(q) - 1
        BY <3>3, <3>4
      <4>4. ASSUME NEW i \in 1..n
            PROVE  Content(p)[i] = Content(q)[i]
        <5>1. i \in 1..(Len(q) - 1) /\ i < a
          BY <3>3, <3>4
        <5>. QED
          BY <1>3, <3>2, <4>2, <5>1
      <4>. QED
        BY <1>3, <3>2, <4>2, <4>3, <4>4
    <3>5. CASE n >= a
      <4>1. a \in 1..Len(p) /\ IsAlert(p[a])
        BY <1>3, <3>1, <3>3, <3>5
      <4>2. /\ l = n - 1
            /\ \A i \in 1..(n - 1) : Content(p)[i] = IF i < a THEN p[i] ELSE p[i + 1]
        BY <1>3, <1>4, <4>1, ContentAround
      <4>3. n - 1 <= Len(q) - 1
        BY <3>3
      <4>4. ASSUME NEW i \in 1..(n - 1)
            PROVE  Content(p)[i] = Content(q)[i]
        <5>1. i \in 1..(Len(q) - 1) /\ i \in 1..n /\ i + 1 \in 1..n
          BY <3>3
        <5>. QED
          BY <1>3, <3>2, <4>2, <5>1
      <4>. QED
        BY <3>2, <4>2, <4>3, <4>4
    <3>. QED
      BY <3>3, <3>4, <3>5
  <2>. QED
    BY <2>1, <2>2
<1>9. /\ Len(Content(q)) \in 0..Len(rs)
      /\ \A i \in 1..Len(Content(q)) : Content(q)[i] = rs[i]
  BY BeginningOf
<1>10. Len(rs) \in Nat
  BY SeqFacts
<1>. HIDE DEF l
<1>11. l \in 0..Len(rs)
  BY <1>4, <1>8, <1>9, <1>10
<1>12. /\ IsSeq(SubSeq(rs, 1, l)) /\ Len(SubSeq(rs, 1, l)) = l
       /\ \A i \in 1..l : SubSeq(rs, 1, l)[i] = rs[i]
  BY <1>11, Beginning
<1>13. ASSUME NEW i \in 1..l
       PROVE  Content(p)[i] = SubSeq(rs, 1, l)[i]
  <2>1. i \in 1..Len(Content(q))
    BY <1>4, <1>8, <1>9, <1>10
  <2>. QED
    BY <1>8, <1>9, <1>12, <2>1
<1>14. Content(p) = SubSeq(rs, 1, l)
  BY <1>5, <1>12, <1>13, SameElements DEF l
<1>. QED
  BY <1>11, <1>14 DEF IsBeginning, p

-----------------------------------------------------------------------------
(* The records of a handshake.                                             *)

(* Three records or four. *)
LEMMA ThreeOrFour ==
  ASSUME NEW a, NEW b, NEW k, NEW d, NEW B \in BOOLEAN,
         NEW F, F = IF B THEN <<a, b, d>> ELSE <<a, b, k, d>>
  PROVE  /\ F \in Seq({a, b, k, d}) /\ Len(F) = (IF B THEN 3 ELSE 4)
         /\ F[1] = a /\ F[3] = IF B THEN d ELSE k
<1>1. CASE B
  BY <1>1
<1>2. CASE ~ B
  BY <1>2
<1>. QED
  BY <1>1, <1>2

(* The records that carry it. *)
LEMMA Flight ==
  ASSUME NEW c
  PROVE  /\ IsSeq(FlightRecords(c)) /\ NoAlert(FlightRecords(c))
         /\ Len(FlightRecords(c)) = IF Ours(c, "host") THEN 3 ELSE 4
         /\ FlightRecords(c)[1].msg = <<"server_hello", <<c, "server">>, c>>
         /\ FlightRecords(c)[3].msg = IF Ours(c, "host") THEN <<"server_hello_done">>
                                      ELSE <<"server_key_exchange">>
         /\ Messages(FlightRecords(c)) = ServerFlight(c)
<1>. DEFINE F == ServerFlight(c)
            n == IF Ours(c, "host") THEN 3 ELSE 4
            a == <<"server_hello", <<c, "server">>, c>>
            k == <<"server_key_exchange">>
            d == <<"server_hello_done">>
            S == {a, <<"certificate">>, k, d}
            R == FlightRecords(c)
<1>1. F = IF Ours(c, "host") THEN <<a, <<"certificate">>, d>>
          ELSE <<a, <<"certificate">>, k, d>>
  BY DEF ServerFlight
<1>. HIDE DEF F, a, k, d
<1>2. F \in Seq(S) /\ Len(F) = n /\ F[1] = a /\ F[3] = IF Ours(c, "host") THEN d ELSE k
  BY <1>1, ThreeOrFour
<1>. HIDE DEF S
<1>3. DOMAIN F = 1..n /\ n \in Nat /\ n >= 3 /\ F = [i \in 1..n |-> F[i]]
  <2>1. n \in Nat /\ n >= 3
    OBVIOUS
  <2>. QED
    BY <1>2, <2>1, LenProperties
<1>4. R = [i \in 1..n |-> Plain("handshake", F[i])]
  BY <1>3 DEF FlightRecords, F
<1>5. R \in Seq({Plain("handshake", F[i]) : i \in 1..n}) /\ Len(R) = n
  <2>1. \A i \in 1..n : Plain("handshake", F[i]) \in {Plain("handshake", F[j]) : j \in 1..n}
    OBVIOUS
  <2>. HIDE DEF n
  <2>2. R \in Seq({Plain("handshake", F[i]) : i \in 1..n})
    <3>1. R = [i \in 1..n |-> Plain("handshake", F[i])] /\ n \in Nat
      BY <1>3, <1>4 DEF n
    <3>. HIDE DEF R
    <3>. QED
      BY <2>1, <3>1, IsASeq
  <2>3. DOMAIN R = 1..n
    BY <1>4
  <2>. QED
    BY <1>3, <2>2, <2>3, LenProperties
<1>6. IsSeq(R)
  BY <1>5 DEF IsSeq
<1>7. \A i \in 1..n : R[i].type = "handshake" /\ R[i].msg = F[i]
  BY <1>4 DEF Plain
<1>8. DOMAIN R = 1..n
  BY <1>4
<1>9. NoAlert(R)
  BY <1>7, <1>8 DEF NoAlert, IsAlert
<1>10. Messages(R) = F
  <2>. HIDE DEF R, n
  <2>. QED
    BY <1>3, <1>7, <1>8 DEF Messages
<1>11. 1 \in 1..n /\ 3 \in 1..n
  BY <1>3
<1>12. R[1].msg = a /\ R[3].msg = IF Ours(c, "host") THEN d ELSE k
  BY <1>2, <1>7, <1>11
<1>. QED
  BY <1>5, <1>6, <1>9, <1>10, <1>12 DEF F, a, d, k

(* One, two and three records. *)
LEMMA FewRecords ==
  ASSUME NEW a, NEW b, NEW d
  PROVE  /\ IsSeq(<<>>) /\ NoAlert(<<>>)
         /\ IsSeq(<<a>>) /\ (~ IsAlert(a) => NoAlert(<<a>>))
         /\ IsSeq(<<a, b>>) /\ (~ IsAlert(a) /\ ~ IsAlert(b) => NoAlert(<<a, b>>))
         /\ IsSeq(<<a, b, d>>)
         /\ ~ IsAlert(a) /\ ~ IsAlert(b) /\ ~ IsAlert(d) => NoAlert(<<a, b, d>>)
<1>1. /\ <<>> \in Seq({a}) /\ <<a>> \in Seq({a}) /\ <<a, b>> \in Seq({a, b})
      /\ <<a, b, d>> \in Seq({a, b, d})
  BY EmptySeq
<1>2. IsSeq(<<>>) /\ IsSeq(<<a>>) /\ IsSeq(<<a, b>>) /\ IsSeq(<<a, b, d>>)
  BY <1>1 DEF IsSeq
<1>3. ~ IsAlert(a) => NoAlert(<<a>>)
  BY DEF NoAlert
<1>4. ~ IsAlert(a) /\ ~ IsAlert(b) => NoAlert(<<a, b>>)
  BY DEF NoAlert
<1>5. ~ IsAlert(a) /\ ~ IsAlert(b) /\ ~ IsAlert(d) => NoAlert(<<a, b, d>>)
  BY DEF NoAlert
<1>6. NoAlert(<<>>)
  BY DEF NoAlert
<1>. QED
  BY <1>2, <1>3, <1>4, <1>5, <1>6

(* The other lists of records. *)
LEMMA OtherRecords ==
  ASSUME NEW c, NEW s, NEW m
  PROVE  /\ IsSeq(<<Plain("handshake", Hello(c, s))>>)
         /\ NoAlert(<<Plain("handshake", Hello(c, s))>>)
         /\ IsSeq(ExchangeRecords(c, s)) /\ NoAlert(ExchangeRecords(c, s))
         /\ IsSeq(FinalRecords(c, s)) /\ NoAlert(FinalRecords(c, s))
         /\ IsSeq(ResumedRecords(c, s, m)) /\ NoAlert(ResumedRecords(c, s, m))
         /\ IsSeq(AnswerRecords(c, s, m)) /\ NoAlert(AnswerRecords(c, s, m))
         /\ Len(ExchangeRecords(c, s)) = 3 /\ Len(FinalRecords(c, s)) = 2
         /\ Len(ResumedRecords(c, s, m)) = 3 /\ Len(AnswerRecords(c, s, m)) = 2
<1>1. /\ \A x : ~ IsAlert(Plain("handshake", x))
      /\ ~ IsAlert(ChangeCipher)
      /\ \A k, y, x : ~ IsAlert(Under(k, y, x))
  BY DEF IsAlert, Plain, ChangeCipher, Under
<1>2. /\ IsSeq(<<Plain("handshake", Hello(c, s))>>)
      /\ NoAlert(<<Plain("handshake", Hello(c, s))>>)
  BY <1>1, FewRecords
<1>3. IsSeq(ExchangeRecords(c, s)) /\ NoAlert(ExchangeRecords(c, s))
  BY <1>1, FewRecords DEF ExchangeRecords
<1>4. IsSeq(FinalRecords(c, s)) /\ NoAlert(FinalRecords(c, s))
  BY <1>1, FewRecords DEF FinalRecords
<1>5. IsSeq(ResumedRecords(c, s, m)) /\ NoAlert(ResumedRecords(c, s, m))
  BY <1>1, FewRecords DEF ResumedRecords
<1>6. IsSeq(AnswerRecords(c, s, m)) /\ NoAlert(AnswerRecords(c, s, m))
  BY <1>1, FewRecords DEF AnswerRecords
<1>7. /\ Len(ExchangeRecords(c, s)) = 3 /\ Len(FinalRecords(c, s)) = 2
      /\ Len(ResumedRecords(c, s, m)) = 3 /\ Len(AnswerRecords(c, s, m)) = 2
  BY DEF ExchangeRecords, FinalRecords, ResumedRecords, AnswerRecords
<1>. QED
  BY <1>2, <1>3, <1>4, <1>5, <1>6, <1>7

-----------------------------------------------------------------------------
(* A step at one connection.                                               *)

(* It leaves the others as they are, and a client that is connected. *)
Elsewhere(c) ==
    \A d \in Connections \ {c} :
        /\ toHost'[d] = toHost[d] /\ toClient'[d] = toClient[d]
        /\ client'[d] = client[d] /\ host'[d] = host[d]
        /\ d \in broken' <=> d \in broken
        /\ d \in alerted' <=> d \in alerted
ClientsStay ==
    \A d \in Connections : client[d].at = "connected" => client'[d] = client[d]
Moves(c) == TypeInv' /\ role' = role /\ Elsewhere(c) /\ ClientsStay

(* What it has to keep of its own connection. *)
Kept(c) == /\ AlertsOK(c)' /\ Phase(c)' /\ FailureOK(c)'
           /\ IsDone(c) => IsDone(c)'

(* A handler takes a new place and new parameters. *)
LEMMA ClientEffect ==
  ASSUME TypeInv, NEW c \in Connections, NEW at, NEW p, ClientIs(c, at, p)
  PROVE  /\ DOMAIN client' = Connections
         /\ DOMAIN client'[c] = {"at", "p", "offer"}
         /\ client'[c].at = at /\ client'[c].p = p
         /\ client'[c].offer = client[c].offer
         /\ \A d \in Connections : d # c => client'[d] = client[d]
BY DEF TypeInv, ClientIs

(* The same of the server. *)
LEMMA HostEffect ==
  ASSUME TypeInv, NEW c \in Connections, NEW at, NEW p, HostIs(c, at, p)
  PROVE  /\ DOMAIN host' = Connections /\ DOMAIN host'[c] = {"at", "p"}
         /\ host'[c].at = at /\ host'[c].p = p
         /\ \A d \in Connections : d # c => host'[d] = host[d]
BY DEF TypeInv, HostIs

(* What is said comes behind what is in the channel. *)
LEMMA SendEffect ==
  ASSUME TypeInv, NEW c \in Connections, NEW rs
  PROVE  /\ Send(toHost, c, rs) =>
               /\ DOMAIN toHost' = Connections
               /\ toHost'[c] = IF c \in broken THEN toHost[c] ELSE toHost[c] \o rs
               /\ \A d \in Connections : d # c => toHost'[d] = toHost[d]
         /\ Send(toClient, c, rs) =>
               /\ DOMAIN toClient' = Connections
               /\ toClient'[c] = IF c \in broken THEN toClient[c] ELSE toClient[c] \o rs
               /\ \A d \in Connections : d # c => toClient'[d] = toClient[d]
BY DEF TypeInv, Send

(* The sessions that clients may offer stay. *)
LEMMA SessionsStay ==
  ASSUME NEW c \in Connections, Moves(c), NEW d, NEW s, NEW m
  PROVE  /\ Session(d, s, m) => Session(d, s, m)'
         /\ Session(d, s, m) => client[s].p.master_secret' = client[s].p.master_secret
         /\ Offers(d, s) => Offers(d, s)'
<1>1. Ours(d, "client")' <=> Ours(d, "client")
  BY DEF Moves, Ours
<1>2. ASSUME NEW n, Session(d, s, n)
      PROVE  Session(d, s, n)' /\ client'[s] = client[s]
  <2>1. client'[s] = client[s]
    BY <1>2 DEF Session, Moves, ClientsStay
  <2>. QED
    BY <1>1, <1>2, <2>1 DEF Session
<1>3. Offers(d, s) => Offers(d, s)'
  BY <1>2 DEF Offers
<1>. QED
  BY <1>2, <1>3

(* Every action is such a step. *)
ClientOnly(c) == /\ DOMAIN client' = Connections
                 /\ DOMAIN client'[c] = {"at", "p", "offer"}
                 /\ \A d \in Connections : d # c => client'[d] = client[d]
HostOnly(c) == /\ DOMAIN host' = Connections /\ DOMAIN host'[c] = {"at", "p"}
               /\ \A d \in Connections : d # c => host'[d] = host[d]
ChannelsOnly(c) ==
    /\ DOMAIN toHost' = Connections /\ DOMAIN toClient' = Connections
    /\ \A d \in Connections : d # c => /\ toHost'[d] = toHost[d]
                                       /\ toClient'[d] = toClient[d]

(* What a step may change at most, for it to be one at c alone. *)
LEMMA EffectsAreLocal ==
  ASSUME TypeInv, NEW c \in Connections, ClientOnly(c), HostOnly(c), ChannelsOnly(c),
         role' = role, broken' \subseteq broken \cup {c}, broken \subseteq broken',
         alerted' \subseteq alerted \cup {c}, alerted \subseteq alerted',
         client[c].at = "connected" => client'[c] = client[c]
  PROVE  Moves(c)
<1>1. TypeInv'
  BY DEF TypeInv, ClientOnly, HostOnly, ChannelsOnly
<1>2. Elsewhere(c)
  BY DEF Elsewhere, ClientOnly, HostOnly, ChannelsOnly
<1>3. ClientsStay
  BY DEF ClientsStay, ClientOnly
<1>. QED
  BY <1>1, <1>2, <1>3 DEF Moves

(* A step of the client changes no other client, and not a connected one. *)
LEMMA ClientOfClient ==
  ASSUME TypeInv, NEW c \in Connections, ClientStep(c)
  PROVE  ClientOnly(c) /\ client[c].at # "connected"
<1>1. ASSUME NEW at, NEW p, ClientIs(c, at, p)
      PROVE  ClientOnly(c)
  BY <1>1, ClientEffect DEF ClientOnly
<1>2. CASE SendClientHello(c)
  BY <1>1, <1>2 DEF SendClientHello
<1>3. CASE ReadServerHello(c)
  BY <1>1, <1>3 DEF ReadServerHello, SendFinished
<1>4. CASE ReadFinished(c)
  BY <1>1, <1>4 DEF ReadFinished
<1>5. CASE BrowserHello(c)
  <2>1. PICK s, p : client' = [client EXCEPT ![c].at = "hello", ![c].offer = s, ![c].p = p]
    BY <1>5 DEF BrowserHello
  <2>. QED
    BY <1>5, <2>1 DEF ClientOnly, TypeInv, BrowserHello
<1>6. CASE BrowserReads(c)
  <2>1. CASE client' = [client EXCEPT ![c].offer = None]
    BY <1>6, <2>1 DEF ClientOnly, TypeInv, BrowserReads
  <2>2. CASE client' # [client EXCEPT ![c].offer = None]
    BY <1>1, <1>6, <2>2 DEF BrowserReads, BrowserResumes
  <2>. QED
    BY <2>1, <2>2
<1>. QED
  BY <1>2, <1>3, <1>4, <1>5, <1>6 DEF ClientStep

(* A step of the server changes no other server. *)
LEMMA HostOfHost ==
  ASSUME TypeInv, NEW c \in Connections, HostStep(c)
  PROVE  HostOnly(c)
<1>1. ASSUME NEW at, NEW p, HostIs(c, at, p)
      PROVE  HostOnly(c)
  BY <1>1, HostEffect DEF HostOnly
<1>2. CASE ReadClientHello(c)
  BY <1>1, <1>2 DEF ReadClientHello, FullHandshake, ResumeSession
<1>3. CASE ReadKeyExchange(c)
  BY <1>1, <1>3 DEF ReadKeyExchange, VerifyClient
<1>4. CASE CacheSession(c)
  BY <1>1, <1>4 DEF CacheSession
<1>5. CASE ReadResumed(c)
  <2>. DEFINE got == Got(toHost[c], 2)
              p == [host[c].p EXCEPT !.ServerSequenceNumber = 0,
                                     !.ClientSequenceNumber = 0]
  <2>1. \/ HostIs(c, "error", host[c].p)
        \/ HostIs(c, "aborted", p)
        \/ HostIs(c, "connected", [p EXCEPT !.HandshakeFinished = TRUE,
                                            !.ServerSequenceNumber = 1,
                                            !.ClientSequenceNumber = 1])
        \/ HostIs(c, "error", Counted(p, got[2]))
    BY <1>5, Zenon DEF ReadResumed
  <2>. QED
    BY <1>1, <2>1
<1>. QED
  BY <1>2, <1>3, <1>4, <1>5 DEF HostStep

(* A step of either changes no other channels. *)
LEMMA ChannelsOfStep ==
  ASSUME TypeInv, NEW c \in Connections, ClientStep(c) \/ HostStep(c)
  PROVE  ChannelsOnly(c)
<1>. DEFINE H == /\ DOMAIN toHost' = Connections
                 /\ \A d \in Connections : d # c => toHost'[d] = toHost[d]
            C == /\ DOMAIN toClient' = Connections
                 /\ \A d \in Connections : d # c => toClient'[d] = toClient[d]
<1>1. ASSUME NEW rs
      PROVE  (Send(toHost, c, rs) => H) /\ (Send(toClient, c, rs) => C)
  BY SendEffect
<1>2. (toHost' = toHost => H) /\ (toClient' = toClient => C)
  BY DEF TypeInv
<1>3. ASSUME NEW q
      PROVE  /\ toHost' = [toHost EXCEPT ![c] = q] => H
             /\ toClient' = [toClient EXCEPT ![c] = q] => C
  BY DEF TypeInv
<1>4. ASSUME NEW n
      PROVE  /\ toHost' = [toHost EXCEPT ![c] = Rest(@, n)] => H
             /\ toClient' = [toClient EXCEPT ![c] = Rest(@, n)] => C
  BY <1>3
<1>. HIDE DEF H, C
<1>5. ASSUME SendClientHello(c) PROVE H /\ C
  BY <1>1, <1>2, <1>5 DEF SendClientHello
<1>6. ASSUME ReadServerHello(c) PROVE H /\ C
  BY <1>1, <1>2, <1>4, <1>6 DEF ReadServerHello, SendFinished
<1>7. ASSUME ReadFinished(c) PROVE H /\ C
  BY <1>2, <1>3, <1>7 DEF ReadFinished
<1>8. ASSUME BrowserHello(c) PROVE H /\ C
  BY <1>1, <1>2, <1>8 DEF BrowserHello
<1>9. ASSUME BrowserReads(c) PROVE H /\ C
  BY <1>1, <1>2, <1>4, <1>9 DEF BrowserReads, BrowserResumes
<1>10. ASSUME ReadClientHello(c) PROVE H /\ C
  BY <1>1, <1>2, <1>3, <1>10 DEF ReadClientHello, FullHandshake, ResumeSession
<1>11. ASSUME ReadKeyExchange(c) PROVE H /\ C
  BY <1>1, <1>2, <1>4, <1>11 DEF ReadKeyExchange, VerifyClient
<1>12. ASSUME CacheSession(c) PROVE H /\ C
  BY <1>2, <1>12 DEF CacheSession
<1>13. ASSUME ReadResumed(c) PROVE H /\ C
  BY <1>2, <1>3, <1>13 DEF ReadResumed
<1>14. H /\ C
  BY <1>5, <1>6, <1>7, <1>8, <1>9, <1>10, <1>11, <1>12, <1>13 DEF ClientStep, HostStep
<1>. QED
  BY <1>14 DEF H, C, ChannelsOnly

(* So every step moves one connection. *)
LEMMA StepsAreLocal ==
  ASSUME TypeInv, NEW c \in Connections, role' = role,
         ClientStep(c) \/ HostStep(c) \/ Alerts(c) \/ Break(c)
  PROVE  Moves(c)
<1>1. client' = client => ClientOnly(c)
  BY DEF TypeInv, ClientOnly
<1>2. host' = host => HostOnly(c)
  BY DEF TypeInv, HostOnly
<1>3. CASE ClientStep(c)
  <2>1. UNCHANGED <<broken, alerted, host>>
    BY <1>3 DEF ClientStep, SendClientHello, ReadServerHello, ReadFinished, BrowserHello,
                BrowserReads
  <2>. QED
    BY <1>2, <1>3, <2>1, ClientOfClient, ChannelsOfStep, EffectsAreLocal
<1>4. CASE HostStep(c)
  <2>1. UNCHANGED <<broken, alerted, client>>
    BY <1>4 DEF HostStep, ReadClientHello, ReadKeyExchange, CacheSession, ReadResumed
  <2>. QED
    BY <1>1, <1>4, <2>1, HostOfHost, ChannelsOfStep, EffectsAreLocal
<1>5. CASE Alerts(c)
  <2>1. broken' = broken /\ alerted' = alerted \cup {c}
    BY <1>5 DEF Alerts
  <2>2. ClientOnly(c) /\ HostOnly(c)
    BY <1>1, <1>2, <1>5, ClientEffect, HostEffect DEF Alerts, ClientOnly, HostOnly
  <2>3. ChannelsOnly(c)
    BY <1>5, SendEffect DEF Alerts, ChannelsOnly, TypeInv
  <2>4. client[c].at = "connected" => client'[c] = client[c]
    BY <1>5 DEF Alerts
  <2>. QED
    BY <2>1, <2>2, <2>3, <2>4, EffectsAreLocal
<1>6. CASE Break(c)
  <2>1. UNCHANGED <<alerted, client, host>> /\ broken' = broken \cup {c}
    BY <1>6 DEF Break
  <2>2. ChannelsOnly(c)
    BY <1>6 DEF Break, ChannelsOnly, TypeInv
  <2>. QED
    BY <1>1, <1>2, <2>1, <2>2, EffectsAreLocal
<1>. QED
  BY <1>3, <1>4, <1>5, <1>6

-----------------------------------------------------------------------------
(* The other connections.                                                  *)

(* What there is to say stays. *)
LEMMA RecordsStay ==
  ASSUME NEW c, Moves(c), NEW d
  PROVE  /\ \A side : Ours(d, side)' <=> Ours(d, side)
         /\ ServerFlight(d)' = ServerFlight(d)
         /\ FlightRecords(d)' = FlightRecords(d)
         /\ \A s : /\ Spoken(d, s)' = Spoken(d, s)
                   /\ SpokenByClient(d, s)' = SpokenByClient(d, s)
                   /\ ExchangeRecords(d, s)' = ExchangeRecords(d, s)
                   /\ FinalRecords(d, s)' = FinalRecords(d, s)
<1>1. \A side : Ours(d, side)' <=> Ours(d, side)
  BY DEF Moves, Ours
<1>2. ServerFlight(d)' = ServerFlight(d)
  BY <1>1 DEF ServerFlight
<1>3. FlightRecords(d)' = FlightRecords(d)
  BY <1>2 DEF FlightRecords
<1>4. \A s : Spoken(d, s)' = Spoken(d, s)
  BY <1>2 DEF Spoken
<1>5. \A s : SpokenByClient(d, s)' = SpokenByClient(d, s)
  BY <1>4 DEF SpokenByClient, ClientFinished
<1>6. \A s : /\ ExchangeRecords(d, s)' = ExchangeRecords(d, s)
             /\ FinalRecords(d, s)' = FinalRecords(d, s)
  BY <1>4, <1>5 DEF ExchangeRecords, FinalRecords, ClientFinished, ServerFinished
<1>. QED
  BY <1>1, <1>2, <1>3, <1>4, <1>5, <1>6

(* Records that are there stay, or are lost when the connection breaks. *)
ChannelsStay(d) ==
    /\ \A rs : IsSeq(rs) /\ Delivered(toHost[d], d, rs) => Delivered(toHost[d], d, rs)'
    /\ \A rs : IsSeq(rs) /\ Delivered(toClient[d], d, rs) => Delivered(toClient[d], d, rs)'
    /\ Content(toHost[d]) = <<>> => Content(toHost[d])' = <<>>
    /\ Content(toClient[d]) = <<>> => Content(toClient[d])' = <<>>

(* A connection whose two sides do nothing stays in its phase. *)
LEMMA PhasesStay ==
  ASSUME NEW c \in Connections, Moves(c), NEW d \in Connections,
         Phase(d), FailureOK(d), ChannelsStay(d),
         client'[d] = client[d], host'[d] = host[d],
         d \in broken => d \in broken', d \in alerted => d \in alerted'
  PROVE  Phase(d)' /\ FailureOK(d)' /\ (IsDone(d) => IsDone(d)')
<1>1. FailureOK(d)'
  BY DEF FailureOK
<1>2. /\ \A side : Ours(d, side)' <=> Ours(d, side)
      /\ ServerFlight(d)' = ServerFlight(d) /\ FlightRecords(d)' = FlightRecords(d)
      /\ \A s : /\ Spoken(d, s)' = Spoken(d, s)
                /\ SpokenByClient(d, s)' = SpokenByClient(d, s)
                /\ ExchangeRecords(d, s)' = ExchangeRecords(d, s)
                /\ FinalRecords(d, s)' = FinalRecords(d, s)
  BY RecordsStay
<1>3. /\ \A rs : IsSeq(rs) /\ Delivered(toHost[d], d, rs) => Delivered(toHost[d], d, rs)'
      /\ \A rs : IsSeq(rs) /\ Delivered(toClient[d], d, rs) => Delivered(toClient[d], d, rs)'
      /\ Content(toHost[d]) = <<>> => Content(toHost[d])' = <<>>
      /\ Content(toClient[d]) = <<>> => Content(toClient[d])' = <<>>
  BY DEF ChannelsStay
<1>4. ASSUME NEW s, SaidHello(d, s) PROVE SaidHello(d, s)'
  <2>1. Offers(d, s)'
    BY <1>4, SessionsStay DEF SaidHello
  <2>2. Ours(d, "client")' <=> Ours(d, "client")
    BY <1>2
  <2>. QED
    BY <1>4, <2>1, <2>2 DEF SaidHello
<1>5. ASSUME NEW s, SaidFinished(d, s) PROVE SaidFinished(d, s)'
  BY <1>2, <1>5 DEF SaidFinished
<1>6. CASE Starts(d)
  <2>1. Silent(d) => Silent(d)'
    BY <1>3 DEF Silent
  <2>2. ASSUME NEW s, Greets(d, s) PROVE Greets(d, s)'
    BY <1>3, <1>4, <2>2, OtherRecords DEF Greets
  <2>. QED
    BY <1>1, <1>3, <1>6, <2>1, <2>2 DEF Starts, Phase, IsDone
<1>7. CASE Exchanges(d)
  <2>1. ASSUME NEW s, HostExchanges(d, s) PROVE HostExchanges(d, s)'
    BY <1>2, <2>1 DEF HostExchanges
  <2>2. ASSUME NEW s, AwaitsFlight(d, s) PROVE AwaitsFlight(d, s)'
    BY <1>2, <1>3, <1>4, <2>2, Flight DEF AwaitsFlight
  <2>3. ASSUME NEW s, HasExchanged(d, s) PROVE HasExchanged(d, s)'
    BY <1>2, <1>3, <1>5, <2>3, OtherRecords DEF HasExchanged
  <2>4. LostFlight(d) => LostFlight(d)'
    BY <1>3 DEF LostFlight, SaidNothing
  <2>5. Exchanges(d)'
    BY <1>7, <2>1, <2>2, <2>3, <2>4 DEF Exchanges
  <2>. QED
    BY <1>1, <1>7, <2>5 DEF Phase, IsDone, Exchanges
<1>8. ASSUME IsDone(d) PROVE IsDone(d)'
  <2>1. HostHasFinished(d)'
    BY <1>8 DEF IsDone, HostHasFinished
  <2>2. ASSUME NEW s, AwaitsFinished(d, s) PROVE AwaitsFinished(d, s)'
    BY <1>2, <1>3, <1>5, <2>2, OtherRecords DEF AwaitsFinished
  <2>. QED
    BY <1>8, <2>1, <2>2 DEF IsDone
<1>9. CASE IsDone(d)
  BY <1>1, <1>8, <1>9 DEF Phase
<1>10. CASE Resumes(d)
  <2>1. PICK s \in Connections : \E m \in {client[s].p.master_secret} :
          /\ Session(d, s, m) /\ HostResumes(d, s, m)
          /\ AwaitsResumption(d, s, m) \/ HasAnswered(d, s, m)
    BY <1>10 DEF Resumes
  <2>2. PICK m \in {client[s].p.master_secret} :
          /\ Session(d, s, m) /\ HostResumes(d, s, m)
          /\ AwaitsResumption(d, s, m) \/ HasAnswered(d, s, m)
    BY <2>1
  <2>3. Session(d, s, m)' /\ m \in {client[s].p.master_secret'}
    BY <2>2, SessionsStay
  <2>4. HostResumes(d, s, m)'
    BY <2>2 DEF HostResumes
  <2>5. AwaitsResumption(d, s, m) => AwaitsResumption(d, s, m)'
    BY <1>3, <1>4, OtherRecords DEF AwaitsResumption
  <2>6. HasAnswered(d, s, m) => HasAnswered(d, s, m)'
    BY <1>3, OtherRecords DEF HasAnswered
  <2>7. Resumes(d)'
    BY <1>10, <2>2, <2>3, <2>4, <2>5, <2>6 DEF Resumes
  <2>. QED
    BY <1>1, <1>8, <2>7 DEF Phase
<1>11. CASE HasResumed(d)
  <2>1. HasResumed(d)'
    BY <1>11 DEF HasResumed, SameKeys
  <2>. QED
    BY <1>1, <1>8, <2>1 DEF Phase
<1>12. CASE IsOver(d)
  <2>1. IsOver(d)'
    BY <1>12 DEF IsOver
  <2>. QED
    BY <1>1, <1>8, <2>1 DEF Phase
<1>. QED
  BY <1>6, <1>7, <1>9, <1>10, <1>11, <1>12 DEF Phase

(* So do those where nothing happens at all. *)
LEMMA OthersAreKept ==
  ASSUME NEW c \in Connections, Moves(c), NEW d \in Connections, d # c,
         AlertsOK(d), Phase(d), FailureOK(d)
  PROVE  Kept(d)
<1>1. /\ toHost'[d] = toHost[d] /\ toClient'[d] = toClient[d]
      /\ client'[d] = client[d] /\ host'[d] = host[d]
      /\ d \in broken' <=> d \in broken
      /\ d \in alerted' <=> d \in alerted
  BY DEF Moves, Elsewhere
<1>2. \A side : Ours(d, side)' <=> Ours(d, side)
  BY DEF Moves, Ours
<1>3. AlertsOK(d)'
  BY <1>1, <1>2 DEF AlertsOK
<1>4. ChannelsStay(d)
  BY <1>1 DEF ChannelsStay, Delivered
<1>. QED
  BY <1>1, <1>3, <1>4, PhasesStay DEF Kept

-----------------------------------------------------------------------------
(* Steps that nobody takes part in.                                        *)

OwnInv(c) == AlertsOK(c) /\ Phase(c) /\ FailureOK(c)

(* When the connection breaks, the channels keep their beginnings. *)
LEMMA BreakKeeps ==
  ASSUME TypeInv, NEW c \in Connections, OwnInv(c), Moves(c), Break(c)
  PROVE  Kept(c)
<1>1. IsChannel(toHost[c]) /\ IsChannel(toClient[c])
  BY DEF OwnInv, AlertsOK
<1>2. PICK n \in 0..Len(toHost[c]), l \in 0..Len(toClient[c]) :
        /\ toHost' = [toHost EXCEPT ![c] = SubSeq(@, 1, n)]
        /\ toClient' = [toClient EXCEPT ![c] = SubSeq(@, 1, l)]
  BY DEF Break
<1>3. PICK q : q = SubSeq(toHost[c], 1, n)
  OBVIOUS
<1>4. PICK r : r = SubSeq(toClient[c], 1, l)
  OBVIOUS
<1>5. toHost'[c] = q /\ toClient'[c] = r
  BY <1>2, <1>3, <1>4 DEF TypeInv
<1>6. /\ client' = client /\ host' = host /\ alerted' = alerted
      /\ c \in broken'
  BY DEF Break
<1>7. /\ Len(toHost[c]) \in Nat /\ Len(toClient[c]) \in Nat
  BY <1>1, SeqFacts DEF IsChannel
<1>8. /\ 1 \in Int /\ 1 <= 1 /\ n \in Int /\ n <= Len(toHost[c])
      /\ l \in Int /\ l <= Len(toClient[c])
  BY <1>7
<1>9. /\ IsChannel(q) /\ IsChannel(r)
      /\ NoAlert(toHost[c]) => NoAlert(q)
      /\ NoAlert(toClient[c]) => NoAlert(r)
      /\ GivesUp(q) => GivesUp(toHost[c])
      /\ GivesUp(r) => GivesUp(toClient[c])
  BY <1>1, <1>3, <1>4, <1>8, PartOfChannel
<1>10. \A side : Ours(c, side)' <=> Ours(c, side)
  BY DEF Moves, Ours
<1>11. AlertsOK(c)'
  BY <1>5, <1>6, <1>9, <1>10 DEF OwnInv, AlertsOK
<1>12. ASSUME NEW rs, IsSeq(rs)
       PROVE  /\ IsBeginning(toHost[c], rs) => IsBeginning(q, rs)
              /\ IsBeginning(toClient[c], rs) => IsBeginning(r, rs)
  BY <1>1, <1>3, <1>4, <1>12, Cutting
<1>13. /\ Content(toHost[c]) = <<>> => Content(q) = <<>>
       /\ Content(toClient[c]) = <<>> => Content(r) = <<>>
  <2>1. IsSeq(<<>>) /\ Len(<<>>) = 0
    BY FewRecords
  <2>2. ASSUME NEW x, IsBeginning(x, <<>>)
        PROVE  Content(x) = <<>>
    BY <2>1, <2>2, BeginningOf
  <2>3. Content(toHost[c]) = <<>> => IsBeginning(toHost[c], <<>>)
    BY <2>1, AllDelivered
  <2>4. Content(toClient[c]) = <<>> => IsBeginning(toClient[c], <<>>)
    BY <2>1, AllDelivered
  <2>. QED
    BY <1>12, <2>1, <2>2, <2>3, <2>4
<1>14. ChannelsStay(c)
  BY <1>5, <1>6, <1>12, <1>13 DEF ChannelsStay, Delivered
<1>. QED
  BY <1>6, <1>11, <1>14, PhasesStay DEF OwnInv, Kept

(* The cache takes what the handshake ended with. *)
LEMMA CacheSessionKeeps ==
  ASSUME TypeInv, NEW c \in Connections, OwnInv(c), Moves(c), CacheSession(c)
  PROVE  Kept(c) /\ IsDone(c)' /\ host'[c].at = "connected" /\ host'[c].p = host[c].p
<1>1. /\ host[c].at = "cache" /\ HostIs(c, "connected", host[c].p)
      /\ UNCHANGED <<toHost, toClient, broken, alerted, client>>
  BY DEF CacheSession
<1>2. host'[c].at = "connected" /\ host'[c].p = host[c].p
  BY <1>1, HostEffect
<1>3. \A side : Ours(c, side)' <=> Ours(c, side)
  BY DEF Moves, Ours
<1>4. ~ GivesUp(toClient[c])
  BY <1>1 DEF OwnInv, AlertsOK
<1>5. AlertsOK(c)'
  BY <1>1, <1>3, <1>4 DEF OwnInv, AlertsOK
<1>6. FailureOK(c)'
  BY <1>1 DEF OwnInv, FailureOK
<1>7. IsDone(c)
  BY <1>1 DEF OwnInv, Phase, Starts, Exchanges, Resumes, HasResumed, IsOver
<1>8. HostHasFinished(c)'
  BY <1>2, <1>7 DEF IsDone, HostHasFinished
<1>9. \A s : /\ FinalRecords(c, s)' = FinalRecords(c, s)
             /\ SpokenByClient(c, s)' = SpokenByClient(c, s)
  BY RecordsStay
<1>10. ASSUME NEW s, AwaitsFinished(c, s) PROVE AwaitsFinished(c, s)'
  <2>1. SaidFinished(c, s)'
    BY <1>1, <1>9, <1>10 DEF AwaitsFinished, SaidFinished
  <2>. QED
    BY <1>1, <1>9, <1>10, <2>1 DEF AwaitsFinished, Delivered
<1>11. IsDone(c)'
  BY <1>2, <1>7, <1>8, <1>10 DEF IsDone
<1>. QED
  BY <1>2, <1>5, <1>6, <1>11 DEF Kept, Phase


(* An alert is no content; a fatal one is the last thing a side does, and  *)
(* each does so before the other has its finished message.                 *)
LEMMA AlertsKeep ==
  ASSUME TypeInv, NEW c \in Connections, OwnInv(c), Moves(c), Alerts(c)
  PROVE  Kept(c)
<1>1. c \notin alerted /\ alerted' = alerted \cup {c} /\ broken' = broken
  BY DEF Alerts
<1>2. /\ IsChannel(toHost[c]) /\ IsChannel(toClient[c])
      /\ NoAlert(toHost[c]) /\ NoAlert(toClient[c])
  BY <1>1 DEF OwnInv, AlertsOK
<1>3. ~ GivesUp(toHost[c]) /\ ~ GivesUp(toClient[c])
  BY <1>2 DEF NoAlert, GivesUp, IsFatal
<1>4. FailureOK(c)'
  BY <1>1 DEF FailureOK
<1>5. \A side : Ours(c, side)' <=> Ours(c, side)
  BY RecordsStay
<1>6. PICK level \in {"warning", "fatal"} :
        \/ /\ ~Ours(c, "client") /\ client[c].at \in {"start", "hello"}
           /\ Send(toHost, c, <<Plain("alert", level)>>)
           /\ IF level = "fatal" THEN ClientIs(c, "error", client[c].p)
              ELSE UNCHANGED client
           /\ UNCHANGED <<toClient, host>>
        \/ /\ ~Ours(c, "host") /\ host[c].at \in {"start", "keys"}
           /\ Send(toClient, c, <<Plain("alert", level)>>)
           /\ IF level = "fatal" THEN HostIs(c, "error", host[c].p)
              ELSE UNCHANGED host
           /\ UNCHANGED <<toHost, client>>
  BY DEF Alerts
<1>7. CASE /\ ~Ours(c, "client") /\ client[c].at \in {"start", "hello"}
           /\ Send(toHost, c, <<Plain("alert", level)>>)
           /\ IF level = "fatal" THEN ClientIs(c, "error", client[c].p)
              ELSE UNCHANGED client
           /\ UNCHANGED <<toClient, host>>
  <2>1. PICK q : q = IF c \in broken THEN toHost[c]
                     ELSE toHost[c] \o <<Plain("alert", level)>>
    OBVIOUS
  <2>2. toHost'[c] = q
    BY <1>7, <2>1, SendEffect
  <2>3. /\ Content(q) = Content(toHost[c]) /\ IsChannel(q)
        /\ GivesUp(q) => level = "fatal"
    <3>1. CASE c \in broken
      BY <1>2, <1>3, <2>1, <3>1
    <3>2. CASE c \notin broken
      BY <1>2, <2>1, <3>2, Alerting
    <3>. QED
      BY <3>1, <3>2
  <2>4. level = "fatal" => client'[c].at = "error" /\ client'[c].p = client[c].p
                           /\ client'[c].offer = client[c].offer
    BY <1>7, ClientEffect
  <2>5. toClient' = toClient /\ host' = host
    BY <1>7
  <2>6. AlertsOK(c)'
    BY <1>1, <1>2, <1>3, <1>5, <1>7, <2>2, <2>3, <2>4, <2>5 DEF AlertsOK
  <2>7. ChannelsStay(c)
    BY <1>1, <2>2, <2>3, <2>5 DEF ChannelsStay, Delivered, IsBeginning
  <2>8. CASE level # "fatal"
    <3>1. client' = client
      BY <1>7, <2>8
    <3>. QED
      BY <1>1, <2>5, <2>6, <2>7, <3>1, PhasesStay DEF OwnInv, Kept
  <2>9. CASE level = "fatal"
    <3>1. client'[c].at = "error" /\ client'[c].p = client[c].p
          /\ client'[c].offer = client[c].offer
      BY <2>4, <2>9
    <3>2. ASSUME NEW s, SaidHello(c, s) PROVE SaidHello(c, s)'
      <4>1. Offers(c, s)'
        BY <3>2, SessionsStay DEF SaidHello
      <4>. QED
        BY <1>5, <3>1, <3>2, <4>1 DEF SaidHello
    <3>3. /\ \A rs : IsSeq(rs) /\ Delivered(toHost[c], c, rs)
                     => Delivered(toHost[c], c, rs)'
          /\ Content(toHost[c]) = <<>> => Content(toHost[c])' = <<>>
          /\ Content(toClient[c]) = <<>> => Content(toClient[c])' = <<>>
      BY <2>7 DEF ChannelsStay
    <3>4. CASE Starts(c)
      <4>1. Silent(c) => Silent(c)'
        BY <3>1, <3>3 DEF Silent
      <4>2. ASSUME NEW s, Greets(c, s) PROVE Greets(c, s)'
        BY <3>1, <3>2, <3>3, <4>2, OtherRecords DEF Greets
      <4>3. Starts(c)'
        BY <2>5, <3>3, <3>4, <4>1, <4>2 DEF Starts
      <4>. QED
        BY <1>4, <2>6, <3>4, <4>3 DEF Kept, Phase, IsDone, Starts
    <3>5. CASE Exchanges(c)
      <4>1. PICK s \in Connections \cup {None} :
              /\ HostExchanges(c, s)
              /\ AwaitsFlight(c, s) \/ HasExchanged(c, s) \/ LostFlight(c)
        BY <3>5 DEF Exchanges
      <4>2. AwaitsFlight(c, s)
        BY <1>7, <4>1 DEF HasExchanged, LostFlight, SaidFinished, SaidNothing
      <4>3. AwaitsFlight(c, s)'
        BY <3>1, <3>2, <3>3, <4>2 DEF AwaitsFlight
      <4>4. HostExchanges(c, s)'
        BY <2>5, <4>1, RecordsStay DEF HostExchanges
      <4>5. Exchanges(c)'
        BY <2>5, <3>5, <4>3, <4>4 DEF Exchanges
      <4>. QED
        BY <1>4, <2>6, <3>5, <4>5 DEF Kept, Phase, IsDone, Exchanges
    <3>6. ~ IsDone(c)
      BY <1>7 DEF IsDone, AwaitsFinished, SaidFinished
    <3>7. CASE Resumes(c)
      <4>1. PICK s \in Connections : \E m \in {client[s].p.master_secret} :
              /\ Session(c, s, m) /\ HostResumes(c, s, m)
              /\ AwaitsResumption(c, s, m) \/ HasAnswered(c, s, m)
        BY <3>7 DEF Resumes
      <4>2. PICK m \in {client[s].p.master_secret} :
              /\ Session(c, s, m) /\ HostResumes(c, s, m)
              /\ AwaitsResumption(c, s, m) \/ HasAnswered(c, s, m)
        BY <4>1
      <4>3. Session(c, s, m)' /\ m \in {client[s].p.master_secret'}
        BY <4>2, SessionsStay
      <4>4. HostResumes(c, s, m)'
        BY <2>5, <4>2 DEF HostResumes
      <4>5. AwaitsResumption(c, s, m)
        BY <1>7, <4>2 DEF HasAnswered
      <4>6. AwaitsResumption(c, s, m)'
        BY <3>1, <3>2, <3>3, <4>5 DEF AwaitsResumption
      <4>7. Resumes(c)'
        BY <2>5, <3>7, <4>2, <4>3, <4>4, <4>6 DEF Resumes
      <4>. QED
        BY <1>4, <2>6, <3>6, <4>7 DEF Kept, Phase
    <3>8. ~ HasResumed(c)
      BY <1>7 DEF HasResumed
    <3>9. CASE IsOver(c)
      BY <1>1, <1>4, <2>5, <2>6, <3>6, <3>9 DEF Kept, Phase, IsOver
    <3>. QED
      BY <3>4, <3>5, <3>6, <3>7, <3>8, <3>9 DEF OwnInv, Phase
  <2>. QED
    BY <2>8, <2>9
<1>8. CASE /\ ~Ours(c, "host") /\ host[c].at \in {"start", "keys"}
           /\ Send(toClient, c, <<Plain("alert", level)>>)
           /\ IF level = "fatal" THEN HostIs(c, "error", host[c].p)
              ELSE UNCHANGED host
           /\ UNCHANGED <<toHost, client>>
  <2>1. PICK q : q = IF c \in broken THEN toClient[c]
                     ELSE toClient[c] \o <<Plain("alert", level)>>
    OBVIOUS
  <2>2. toClient'[c] = q
    BY <1>8, <2>1, SendEffect
  <2>3. /\ Content(q) = Content(toClient[c]) /\ IsChannel(q)
        /\ GivesUp(q) => level = "fatal"
    <3>1. CASE c \in broken
      BY <1>2, <1>3, <2>1, <3>1
    <3>2. CASE c \notin broken
      BY <1>2, <2>1, <3>2, Alerting
    <3>. QED
      BY <3>1, <3>2
  <2>4. level = "fatal" => host'[c].at = "error"
    BY <1>8, HostEffect
  <2>5. toHost' = toHost /\ client' = client
    BY <1>8
  <2>6. AlertsOK(c)'
    BY <1>1, <1>2, <1>3, <1>5, <1>8, <2>2, <2>3, <2>4, <2>5 DEF AlertsOK
  <2>7. CASE level # "fatal"
    <3>1. host' = host
      BY <1>8, <2>7
    <3>2. ChannelsStay(c)
      BY <1>1, <2>2, <2>3, <2>5 DEF ChannelsStay, Delivered, IsBeginning
    <3>. QED
      BY <1>1, <2>5, <2>6, <3>1, <3>2, PhasesStay DEF OwnInv, Kept
  <2>8. CASE level = "fatal"
    BY <1>1, <1>4, <1>8, <2>4, <2>6, <2>8 DEF Kept, Phase, IsOver, IsDone
  <2>. QED
    BY <2>7, <2>8
<1>. QED
  BY <1>6, <1>7, <1>8

-----------------------------------------------------------------------------
(* What a step does to the channels of its connection.                     *)

(* Nobody alerts in reading or in writing. *)
LEMMA AlertsStay ==
  ASSUME NEW c \in Connections, AlertsOK(c), Moves(c), alerted' = alerted,
         Carries(toHost[c], toHost'[c]), Carries(toClient[c], toClient'[c]),
         client[c].at = "error" => client'[c].at = "error",
         host[c].at = "error" => host'[c].at = "error"
  PROVE  AlertsOK(c)'
<1>1. \A side : Ours(c, side)' <=> Ours(c, side)
  BY RecordsStay
<1>. QED
  BY <1>1 DEF AlertsOK, Carries

(* A side that has not given up writes behind what is there. *)
LEMMA ClientWrites ==
  ASSUME TypeInv, NEW c \in Connections, AlertsOK(c), client[c].at # "error",
         NEW rs, IsSeq(rs), NoAlert(rs), Send(toHost, c, rs), broken' = broken
  PROVE  /\ Carries(toHost[c], toHost'[c])
         /\ Content(toHost[c]) = <<>> => Delivered(toHost[c], c, rs)'
<1>1. PICK q : q = IF c \in broken THEN toHost[c] ELSE toHost[c] \o rs
  OBVIOUS
<1>2. toHost'[c] = q
  BY <1>1, SendEffect
<1>3. IsChannel(toHost[c]) /\ ~ GivesUp(toHost[c])
  BY DEF AlertsOK
<1>4. Carries(toHost[c], q)
  <2>1. Carries(toHost[c], toHost[c] \o rs)
    BY <1>3, Appending
  <2>2. Carries(toHost[c], toHost[c])
    BY <1>3 DEF Carries
  <2>. QED
    BY <1>1, <2>1, <2>2
<1>5. ASSUME Content(toHost[c]) = <<>>
      PROVE  IsBeginning(q, rs) /\ (c \notin broken => Content(q) = rs)
  <2>1. Content(toHost[c] \o rs) = rs
    BY <1>3, <1>5, Writing
  <2>2. Content(q) = rs \/ Content(q) = <<>>
    BY <1>1, <1>5, <2>1
  <2>. QED
    BY <1>1, <2>1, <2>2, AllDelivered
<1>. QED
  BY <1>2, <1>4, <1>5 DEF Delivered

(* The same of what the server writes. *)
LEMMA HostWrites ==
  ASSUME TypeInv, NEW c \in Connections, AlertsOK(c), host[c].at # "error",
         NEW rs, IsSeq(rs), NoAlert(rs), Send(toClient, c, rs), broken' = broken
  PROVE  /\ Carries(toClient[c], toClient'[c])
         /\ Content(toClient[c]) = <<>> => Delivered(toClient[c], c, rs)'
<1>1. PICK q : q = IF c \in broken THEN toClient[c] ELSE toClient[c] \o rs
  OBVIOUS
<1>2. toClient'[c] = q
  BY <1>1, SendEffect
<1>3. IsChannel(toClient[c]) /\ ~ GivesUp(toClient[c])
  BY DEF AlertsOK
<1>4. Carries(toClient[c], q)
  <2>1. Carries(toClient[c], toClient[c] \o rs)
    BY <1>3, Appending
  <2>2. Carries(toClient[c], toClient[c])
    BY <1>3 DEF Carries
  <2>. QED
    BY <1>1, <2>1, <2>2
<1>5. ASSUME Content(toClient[c]) = <<>>
      PROVE  IsBeginning(q, rs) /\ (c \notin broken => Content(q) = rs)
  <2>1. Content(toClient[c] \o rs) = rs
    BY <1>3, <1>5, Writing
  <2>2. Content(q) = rs \/ Content(q) = <<>>
    BY <1>1, <1>5, <2>1
  <2>. QED
    BY <1>1, <2>1, <2>2, AllDelivered
<1>. QED
  BY <1>2, <1>4, <1>5 DEF Delivered

-----------------------------------------------------------------------------
(* The hellos of the client.                                               *)

(* A client that says its hello has greeted, if it was silent. *)
LEMMA GreetingKeeps ==
  ASSUME TypeInv, NEW c \in Connections, OwnInv(c), Moves(c),
         client[c].at = "start", client'[c].at = "hello",
         NEW s \in Connections \cup {None},
         Silent(c) => SaidHello(c, s)' /\ client'[c].offer = s,
         Send(toHost, c, <<Plain("handshake", Hello(c, s))>>),
         UNCHANGED <<toClient, broken, alerted, host>>
  PROVE  Kept(c)
<1>. DEFINE rs == <<Plain("handshake", Hello(c, s))>>
<1>1. IsSeq(rs) /\ NoAlert(rs)
  BY OtherRecords
<1>2. AlertsOK(c)
  BY DEF OwnInv
<1>. HIDE DEF rs
<1>3. /\ Carries(toHost[c], toHost'[c])
      /\ Content(toHost[c]) = <<>> => Delivered(toHost[c], c, rs)'
  BY <1>1, <1>2, ClientWrites DEF rs
<1>4. Carries(toClient[c], toClient'[c])
  BY <1>2 DEF AlertsOK, Carries
<1>5. AlertsOK(c)'
  BY <1>2, <1>3, <1>4, AlertsStay
<1>6. FailureOK(c)'
  BY DEF FailureOK
<1>7. CASE Starts(c)
  <2>1. Silent(c)
    BY <1>7 DEF Starts, Greets, SaidHello
  <2>2. Greets(c, s)'
    BY <1>3, <2>1 DEF Greets, rs, Silent
  <2>3. Starts(c)'
    BY <1>7, <2>2 DEF Starts
  <2>. QED
    BY <1>5, <1>6, <1>7, <2>3 DEF Kept, Phase, Starts, IsDone
<1>8. CASE IsOver(c)
  BY <1>5, <1>6, <1>8 DEF Kept, Phase, IsOver, IsDone
<1>. QED
  BY <1>7, <1>8 DEF OwnInv, Phase, Exchanges, IsDone, Resumes, HasResumed, AwaitsFlight,
     HasExchanged, LostFlight, AwaitsFinished, AwaitsResumption, HasAnswered, SaidHello,
     SaidFinished, SaidNothing

(* So do both kinds of client. *)
LEMMA HelloKeeps ==
  ASSUME TypeInv, NEW c \in Connections, OwnInv(c), Moves(c),
         SendClientHello(c) \/ BrowserHello(c)
  PROVE  Kept(c)
<1>1. \A side : Ours(c, side)' <=> Ours(c, side)
  BY RecordsStay
<1>2. CASE SendClientHello(c)
  <2>. DEFINE p == [client[c].p EXCEPT !.client_random = <<c, "client">>,
                                       !.ClientSequenceNumber = @ + 1]
              q == Noted(p, <<Hello(c, None)>>)
  <2>1. ClientIs(c, "hello", q) /\ client[c].at = "start" /\ Ours(c, "client")
    BY <1>2 DEF SendClientHello, Hello
  <2>2. ASSUME Silent(c) PROVE SaidHello(c, None)' /\ client'[c].offer = None
    <3>1. client[c].p = FreshParameters(FALSE) /\ client[c].offer = None
      BY <2>2 DEF Silent
    <3>2. /\ DOMAIN q = Fields /\ q.isHost = FALSE
          /\ q.client_random = <<c, "client">> /\ q.ServerSequenceNumber = 0
      BY <3>1 DEF FreshParameters, Fields, Noted
    <3>3. q.AllHandshakeMessages = <<Hello(c, None)>>
      BY <3>1 DEF FreshParameters, Noted
    <3>. HIDE DEF q
    <3>4. client'[c].at = "hello" /\ client'[c].p = q /\ client'[c].offer = None
      BY <2>1, <3>1, ClientEffect
    <3>. QED
      BY <1>1, <2>1, <3>2, <3>3, <3>4 DEF SaidHello, IsParameters, Offers
  <2>. HIDE DEF q
  <2>3. client'[c].at = "hello"
    BY <2>1, ClientEffect
  <2>4. /\ Send(toHost, c, <<Plain("handshake", Hello(c, None))>>)
        /\ UNCHANGED <<toClient, broken, alerted, host>>
    BY <1>2 DEF SendClientHello, Hello
  <2>. QED
    BY <2>1, <2>2, <2>3, <2>4, GreetingKeeps
<1>3. CASE BrowserHello(c)
  <2>1. PICK s \in {None} \cup {d \in Connections : /\ client[d].at = "connected"
                                                    /\ client[d].offer = None
                                                    /\ ~Ours(d, "client")} :
          LET hello == <<"client_hello", <<c, "client">>, s>>
              p == [client[c].p EXCEPT !.client_random = <<c, "client">>]
          IN  /\ client' = [client EXCEPT ![c].at = "hello", ![c].offer = s,
                                          ![c].p = Noted(p, <<hello>>)]
              /\ Send(toHost, c, <<Plain("handshake", hello)>>)
    BY <1>3 DEF BrowserHello
  <2>. DEFINE p == [client[c].p EXCEPT !.client_random = <<c, "client">>]
              q == Noted(p, <<Hello(c, s)>>)
  <2>2. client' = [client EXCEPT ![c].at = "hello", ![c].offer = s, ![c].p = q]
    BY <2>1 DEF Hello
  <2>3. client[c].at = "start" /\ ~ Ours(c, "client")
    BY <1>3 DEF BrowserHello
  <2>4. ASSUME Silent(c) PROVE SaidHello(c, s)' /\ client'[c].offer = s
    <3>1. client[c].p = FreshParameters(FALSE)
      BY <2>4 DEF Silent
    <3>2. /\ DOMAIN q = Fields /\ q.isHost = FALSE
          /\ q.client_random = <<c, "client">> /\ q.ServerSequenceNumber = 0
          /\ q.ClientSequenceNumber = 0
      BY <3>1 DEF FreshParameters, Fields, Noted
    <3>3. q.AllHandshakeMessages = <<Hello(c, s)>>
      BY <3>1 DEF FreshParameters, Noted
    <3>. HIDE DEF q
    <3>4. client'[c].at = "hello" /\ client'[c].p = q /\ client'[c].offer = s
      BY <2>2 DEF TypeInv
    <3>5. Offers(c, s)
      BY <2>1, <2>3 DEF Offers, Session
    <3>6. Offers(c, s)'
      BY <3>5, SessionsStay
    <3>. QED
      BY <1>1, <2>3, <3>2, <3>3, <3>4, <3>6 DEF SaidHello, IsParameters
  <2>. HIDE DEF q
  <2>5. client'[c].at = "hello"
    BY <2>2 DEF TypeInv
  <2>6. /\ Send(toHost, c, <<Plain("handshake", Hello(c, s))>>)
        /\ UNCHANGED <<toClient, broken, alerted, host>> /\ s \in Connections \cup {None}
    BY <1>3, <2>1 DEF BrowserHello, Hello
  <2>. QED
    BY <2>3, <2>4, <2>5, <2>6, GreetingKeeps
<1>. QED
  BY <1>2, <1>3

-----------------------------------------------------------------------------
(* The client's exchange of keys.                                          *)

(* What the client goes by in a full handshake, before ...                  *)
HasGreeted(p, c, s) ==
    /\ IsParameters(p, FALSE) /\ p.client_random = <<c, "client">>
    /\ p.AllHandshakeMessages = <<Hello(c, s)>>
IsFlight(response, c) ==
    /\ Messages(response) = ServerFlight(c)
    /\ response[1].msg = <<"server_hello", <<c, "server">>, c>>

(* ... and after it has exchanged keys. *)
ExchangeIsAgreed(p, c, s) ==
    /\ IsParameters(p, FALSE)
    /\ p.PreMasterSecret = <<c, "secret">> /\ p.master_secret = MasterSecret(c)
    /\ p.keys = Keys(MasterSecret(c), c)
    /\ p.AllHandshakeMessages = Spoken(c, s)
    /\ p.ClientSequenceNumber = 0
    /\ Finished(p) = ClientFinished(c, s)
    /\ Sealed(p, Finished(p)) =
          Under(Keys(MasterSecret(c), c), "client", ClientFinished(c, s))

(* After all of the server's flight, they are what both agree on. *)
LEMMA ExchangeOfClient ==
  ASSUME NEW c, NEW s, NEW p, HasGreeted(p, c, s), NEW response, IsFlight(response, c),
         NEW q, q = AfterServerHello(p, c, response)
  PROVE  ExchangeIsAgreed(q, c, s)
<1>1. /\ DOMAIN p = Fields /\ p.isHost = FALSE
      /\ p.client_random = <<c, "client">> /\ p.AllHandshakeMessages = <<Hello(c, s)>>
  BY DEF HasGreeted, IsParameters
<1>2. response[1].msg[2] = <<c, "server">> /\ Messages(response) = ServerFlight(c)
  BY DEF IsFlight
<1>3. PICK p1 : p1 = [Noted(p, Messages(response)) EXCEPT
                        !.server_random = response[1].msg[2],
                        !.PreMasterSecret = <<c, "secret">>]
  OBVIOUS
<1>4. PICK exchange : exchange = <<"client_key_exchange", p1.PreMasterSecret>>
  OBVIOUS
<1>5. PICK p2 : p2 = Noted(p1, <<exchange>>)
  OBVIOUS
<1>6. PICK p3 : p3 = GenerateMasterSecret(p2)
  OBVIOUS
<1>7. PICK p4 : p4 = GenerateKeys(p3)
  OBVIOUS
<1>8. q = ChangedCipher(p4)
  BY <1>3, <1>4, <1>5, <1>6, <1>7 DEF AfterServerHello
<1>9. /\ DOMAIN p1 = Fields /\ p1.isHost = FALSE
      /\ p1.client_random = <<c, "client">> /\ p1.server_random = <<c, "server">>
      /\ p1.PreMasterSecret = <<c, "secret">>
      /\ p1.AllHandshakeMessages = <<Hello(c, s)>> \o ServerFlight(c)
  BY <1>1, <1>2, <1>3 DEF Noted, Fields
<1>10. exchange = Exchange(c)
  BY <1>4, <1>9 DEF Exchange
<1>11. /\ DOMAIN p2 = Fields /\ p2.isHost = FALSE
       /\ p2.client_random = <<c, "client">> /\ p2.server_random = <<c, "server">>
       /\ p2.PreMasterSecret = <<c, "secret">>
       /\ p2.AllHandshakeMessages = Spoken(c, s)
  BY <1>5, <1>9, <1>10 DEF Noted, Fields, Spoken
<1>12. /\ DOMAIN p3 = Fields /\ p3.isHost = FALSE
       /\ p3.client_random = <<c, "client">> /\ p3.server_random = <<c, "server">>
       /\ p3.PreMasterSecret = <<c, "secret">> /\ p3.master_secret = MasterSecret(c)
       /\ p3.AllHandshakeMessages = Spoken(c, s)
  BY <1>6, <1>11 DEF GenerateMasterSecret, Fields, MasterSecret
<1>13. /\ DOMAIN p4 = Fields /\ p4.isHost = FALSE
       /\ p4.PreMasterSecret = <<c, "secret">> /\ p4.master_secret = MasterSecret(c)
       /\ p4.keys = Keys(MasterSecret(c), c)
       /\ p4.AllHandshakeMessages = Spoken(c, s)
  BY <1>7, <1>12 DEF GenerateKeys, Fields, Keys
<1>14. /\ DOMAIN q = Fields /\ q.isHost = FALSE
       /\ q.PreMasterSecret = <<c, "secret">> /\ q.master_secret = MasterSecret(c)
       /\ q.keys = Keys(MasterSecret(c), c)
       /\ q.AllHandshakeMessages = Spoken(c, s)
       /\ q.ClientSequenceNumber = 0
  BY <1>8, <1>13 DEF ChangedCipher, Fields
<1>15. Finished(q) = ClientFinished(c, s)
  BY <1>14 DEF Finished, VerifyData, ClientFinished
<1>16. Sealed(q, Finished(q)) =
         Under(Keys(MasterSecret(c), c), "client", ClientFinished(c, s))
  BY <1>14, <1>15 DEF Sealed, Under
<1>. QED
  BY <1>14, <1>15, <1>16 DEF ExchangeIsAgreed, IsParameters

(* Reading the server's flight. *)
LEMMA ReadServerHelloKeeps ==
  ASSUME TypeInv, NEW c \in Connections, OwnInv(c), Moves(c), ReadServerHello(c)
  PROVE  Kept(c)
<1>. DEFINE q == toClient[c]
            n == ResponseSize(q)
            response == Got(q, n)
            after == AfterServerHello(client[c].p, c, response)
            rs(p) == <<Plain("handshake", <<"client_key_exchange", p.PreMasterSecret>>),
                       ChangeCipher, Sealed(p, Finished(p))>>
            final(p) == [Noted(p, <<Finished(p)>>) EXCEPT
                            !.HandshakeFinished = TRUE,
                            !.ClientSequenceNumber = @ + 1,
                            !.ServerSequenceNumber = 0]
<1>1. /\ client[c].at = "hello" /\ client[c].offer = None
      /\ CanRead(q, n, c) /\ toClient' = [toClient EXCEPT ![c] = Rest(q, n)]
      /\ UNCHANGED <<broken, alerted, host, CachedSessions>>
      /\ \/ /\ Len(response) < 2 /\ ClientIs(c, "undefined", client[c].p)
            /\ UNCHANGED toHost
         \/ /\ Len(response) >= 2
            /\ ClientIs(c, "finish", final(after)) /\ Send(toHost, c, rs(after))
  BY DEF ReadServerHello, SendFinished
<1>2. AlertsOK(c) /\ IsChannel(q)
  BY DEF OwnInv, AlertsOK
<1>3. n \in Nat /\ n \in {3, 4}
  BY DEF ResponseSize
<1>4. toClient'[c] = Rest(q, n) /\ Carries(q, Rest(q, n))
  BY <1>1, <1>2, <1>3, ReadingCarries DEF TypeInv
<1>5. \A p : IsSeq(rs(p)) /\ NoAlert(rs(p))
  <2>1. /\ \A x : ~ IsAlert(Plain("handshake", x))
        /\ ~ IsAlert(ChangeCipher) /\ \A p, x : ~ IsAlert(Sealed(p, x))
    BY DEF IsAlert, Plain, ChangeCipher, Sealed
  <2>. QED
    BY <2>1, FewRecords
<1>. HIDE DEF n, response, after, final, rs
<1>6. Carries(toHost[c], toHost'[c])
  <2>1. CASE toHost' = toHost
    BY <1>2, <2>1 DEF AlertsOK, Carries
  <2>2. CASE Send(toHost, c, rs(after))
    BY <1>1, <1>2, <1>5, <2>2, ClientWrites
  <2>. QED
    BY <1>1, <2>1, <2>2
<1>7. AlertsOK(c)'
  BY <1>1, <1>2, <1>4, <1>6, AlertsStay
<1>8. CASE IsOver(c)
  BY <1>1, <1>7, <1>8 DEF Kept, Phase, IsOver, IsDone, FailureOK
<1>9. \/ /\ client'[c].at = "undefined" /\ client'[c].p = client[c].p
         /\ client'[c].offer = None /\ Len(response) < 2 /\ UNCHANGED toHost
      \/ /\ client'[c].at = "finish" /\ client'[c].p = final(after)
         /\ client'[c].offer = None /\ Len(response) >= 2 /\ Send(toHost, c, rs(after))
  BY <1>1, ClientEffect
<1>10. ASSUME NEW s, SaidHello(c, s), client'[c].at = "undefined",
              client'[c].p = client[c].p, client'[c].offer = None
       PROVE  SaidHello(c, s)'
  <2>1. Offers(c, s)'
    BY <1>10, SessionsStay DEF SaidHello
  <2>2. Ours(c, "client")' <=> Ours(c, "client")
    BY RecordsStay
  <2>. QED
    BY <1>10, <2>1, <2>2 DEF SaidHello
<1>11. CASE Starts(c)
  <2>1. Content(q) = <<>> /\ host[c].at = "start"
    BY <1>11 DEF Starts
  <2>2. Len(Content(q)) <= n /\ Len(Content(q)) = 0
    BY <1>3, <2>1
  <2>3. /\ response = <<>> /\ Content(Rest(q, n)) = <<>>
        /\ Enough(q, n) => (Len(Content(q)) = n \/ GivesUp(q))
    BY <1>2, <1>3, <2>1, <2>2, Reading DEF response
  <2>4. ~ GivesUp(q)
    BY <1>2, <2>1 DEF AlertsOK
  <2>5. c \in broken
    BY <1>1, <1>3, <2>2, <2>3, <2>4 DEF CanRead
  <2>6. Len(response) = 0
    BY <2>3
  <2>7. /\ client'[c].at = "undefined" /\ client'[c].p = client[c].p
        /\ client'[c].offer = None /\ toHost' = toHost
    BY <1>9, <2>6
  <2>8. PICK s \in Connections \cup {None} : Greets(c, s)
    BY <1>1, <1>11 DEF Starts, Silent
  <2>9. Greets(c, s)'
    BY <1>1, <1>10, <2>7, <2>8 DEF Greets, Delivered
  <2>10. Starts(c)'
    BY <1>1, <1>4, <1>11, <2>3, <2>9 DEF Starts
  <2>11. FailureOK(c)'
    BY <1>1, <2>5 DEF FailureOK
  <2>. QED
    BY <1>7, <2>1, <2>10, <2>11 DEF Kept, Phase, IsDone
<1>12. CASE Exchanges(c)
  <2>1. PICK s \in Connections \cup {None} :
          /\ HostExchanges(c, s)
          /\ AwaitsFlight(c, s) \/ HasExchanged(c, s) \/ LostFlight(c)
    BY <1>12 DEF Exchanges
  <2>2. AwaitsFlight(c, s)
    BY <1>1, <2>1 DEF HasExchanged, LostFlight, SaidFinished, SaidNothing
  <2>3. /\ SaidHello(c, s) /\ Content(toHost[c]) = <<>>
        /\ IsBeginning(q, FlightRecords(c))
        /\ c \notin broken => Content(q) = FlightRecords(c)
    BY <1>1, <2>2 DEF AwaitsFlight, Delivered
  <2>4. /\ IsSeq(FlightRecords(c))
        /\ Len(FlightRecords(c)) = IF Ours(c, "host") THEN 3 ELSE 4
        /\ FlightRecords(c)[1].msg = <<"server_hello", <<c, "server">>, c>>
        /\ FlightRecords(c)[3].msg = IF Ours(c, "host") THEN <<"server_hello_done">>
                                     ELSE <<"server_key_exchange">>
        /\ Messages(FlightRecords(c)) = ServerFlight(c)
    BY Flight
  <2>5. /\ Len(Content(q)) \in 0..Len(FlightRecords(c))
        /\ Len(Content(q)) = Len(FlightRecords(c)) => Content(q) = FlightRecords(c)
        /\ \A i \in 1..Len(Content(q)) : Content(q)[i] = FlightRecords(c)[i]
    BY <2>3, <2>4, BeginningOf
  <2>6. Len(Content(q)) <= n
    <3>1. CASE Ours(c, "host")
      BY <1>3, <2>4, <2>5, <3>1
    <3>2. CASE ~ Ours(c, "host")
      <4>1. Len(Content(q)) >= 3 => Content(q)[3].msg # <<"server_hello_done">>
        <5>1. Len(Content(q)) >= 3 => Content(q)[3].msg = <<"server_key_exchange">>
          BY <2>4, <2>5, <3>2
        <5>2. <<"server_key_exchange">> # <<"server_hello_done">>
          OBVIOUS
        <5>. QED
          BY <5>1, <5>2
      <4>2. n = 4
        BY <4>1 DEF n, ResponseSize
      <4>. QED
        BY <2>4, <2>5, <3>2, <4>2
    <3>. QED
      BY <3>1, <3>2
  <2>7. response = Content(q) /\ Content(Rest(q, n)) = <<>>
    BY <1>2, <1>3, <2>6, Reading DEF response
  <2>8. HostExchanges(c, s)'
    BY <1>1, <2>1, RecordsStay DEF HostExchanges
  <2>9. host[c].at' = "keys" /\ ~ IsDone(c)
    BY <1>1, <1>12 DEF Exchanges, IsDone
  <2>10. CASE client'[c].at = "undefined"
    <3>1. /\ client'[c].p = client[c].p /\ client'[c].offer = None
          /\ Len(response) < 2 /\ toHost' = toHost
      BY <1>9, <2>10
    <3>2. c \in broken
      <4>1. Len(FlightRecords(c)) >= 3
        BY <2>4
      <4>. QED
        BY <2>3, <2>7, <3>1, <4>1
    <3>3. SaidHello(c, s)'
      BY <1>10, <2>3, <2>10, <3>1
    <3>4. AwaitsFlight(c, s)'
      BY <2>3, <2>10, <3>1, <3>3 DEF AwaitsFlight
    <3>5. Exchanges(c)'
      BY <2>8, <2>9, <3>4 DEF Exchanges
    <3>6. FailureOK(c)'
      BY <1>1, <3>2 DEF FailureOK
    <3>. QED
      BY <1>7, <2>9, <3>5, <3>6 DEF Kept, Phase
  <2>11. CASE client'[c].at = "finish"
    <3>1. /\ client'[c].p = final(after) /\ client'[c].offer = None
          /\ Send(toHost, c, rs(after))
      BY <1>9, <2>11
    <3>2. FailureOK(c)'
      BY <2>11 DEF FailureOK
    <3>3. CASE Content(q) = FlightRecords(c)
      <4>1. HasGreeted(client[c].p, c, s)
        BY <2>3 DEF SaidHello, HasGreeted
      <4>2. response = FlightRecords(c) /\ IsFlight(FlightRecords(c), c)
        BY <2>4, <2>7, <3>3 DEF IsFlight
      <4>3. PICK p : p = after
        OBVIOUS
      <4>4. p = AfterServerHello(client[c].p, c, FlightRecords(c))
        BY <4>2, <4>3 DEF after
      <4>5. ExchangeIsAgreed(p, c, s)
        BY <4>1, <4>2, <4>4, ExchangeOfClient
      <4>6. rs(p) = ExchangeRecords(c, s)
        BY <4>5 DEF rs, ExchangeIsAgreed, ExchangeRecords, Exchange
      <4>7. Delivered(toHost[c], c, ExchangeRecords(c, s))'
        <5>1. Send(toHost, c, ExchangeRecords(c, s))
          BY <3>1, <4>3, <4>6
        <5>2. PICK es : es = ExchangeRecords(c, s)
          OBVIOUS
        <5>3. IsSeq(es) /\ NoAlert(es) /\ Send(toHost, c, es)
          BY <5>1, <5>2, OtherRecords
        <5>4. client[c].at # "error" /\ broken' = broken
          BY <1>1
        <5>5. Delivered(toHost[c], c, es)'
          BY <1>2, <2>3, <5>3, <5>4, ClientWrites
        <5>. QED
          BY <5>2, <5>5, RecordsStay DEF Delivered
      <4>8. /\ IsParameters(final(p), FALSE)
            /\ final(p).master_secret = MasterSecret(c)
            /\ final(p).keys = Keys(MasterSecret(c), c)
            /\ final(p).AllHandshakeMessages = SpokenByClient(c, s)
            /\ final(p).ClientSequenceNumber = 1
            /\ final(p).ServerSequenceNumber = 0
        BY <4>5 DEF ExchangeIsAgreed, final, IsParameters, Fields, Noted, SpokenByClient
      <4>9. SaidFinished(c, s)'
        BY <2>11, <3>1, <4>3, <4>8, RecordsStay DEF SaidFinished, Numbers
      <4>10. Content(toClient[c])' = <<>>
        BY <1>4, <2>7
      <4>11. HasExchanged(c, s)'
        BY <2>11, <4>7, <4>9, <4>10 DEF HasExchanged
      <4>12. Exchanges(c)'
        BY <2>8, <2>9, <4>11 DEF Exchanges
      <4>. QED
        BY <1>7, <2>9, <3>2, <4>12 DEF Kept, Phase
    <3>4. CASE Content(q) # FlightRecords(c)
      <4>1. c \in broken
        BY <2>3, <3>4
      <4>2. toHost'[c] = toHost[c]
        BY <3>1, <4>1, SendEffect
      <4>3. LostFlight(c)'
        BY <1>1, <1>4, <2>3, <2>7, <2>11, <4>1, <4>2 DEF LostFlight, SaidNothing
      <4>4. Exchanges(c)'
        BY <2>8, <2>9, <4>3 DEF Exchanges
      <4>. QED
        BY <1>7, <2>9, <3>2, <4>4 DEF Kept, Phase
    <3>. QED
      BY <3>3, <3>4
  <2>. QED
    BY <1>9, <2>10, <2>11
<1>13. ~ IsDone(c) /\ ~ HasResumed(c)
  BY <1>1 DEF IsDone, AwaitsFinished, SaidFinished, HasResumed
<1>14. ~ Resumes(c)
  BY <1>1, RolesAssumption DEF Resumes, AwaitsResumption, HasAnswered
<1>. QED
  BY <1>8, <1>11, <1>12, <1>13, <1>14 DEF OwnInv, Phase

-----------------------------------------------------------------------------
(* The client's end.                                                       *)

(* The server's finished message is the one that the client expects. *)
LEMMA FinalRecordsVerify ==
  ASSUME NEW c, NEW s, NEW p, p.isHost = FALSE, p.keys = Keys(MasterSecret(c), c),
         p.master_secret = MasterSecret(c), p.ServerSequenceNumber = 0,
         p.AllHandshakeMessages = SpokenByClient(c, s), NEW got, got = FinalRecords(c, s)
  PROVE  /\ Len(got) = 2 /\ Opens(p, got[1]) /\ Opens(p, got[2])
         /\ VerifyFinishedMessage(p, got[2].msg)
<1>1. /\ Len(got) = 2 /\ got[1] = ChangeCipher
      /\ got[2] = Under(Keys(MasterSecret(c), c), "server", ServerFinished(c, s))
  BY DEF FinalRecords
<1>2. Opens(p, got[1])
  BY <1>1 DEF Opens, ChangeCipher, Plain
<1>3. Opens(p, got[2])
  BY <1>1 DEF Opens, Under
<1>4. got[2].msg = ServerFinished(c, s)
  BY <1>1 DEF Under
<1>5. VerifyFinishedMessage(p, got[2].msg)
  BY <1>4 DEF VerifyFinishedMessage, VerifyData, ServerFinished
<1>. QED
  BY <1>1, <1>2, <1>3, <1>5

(* Reading the server's finished message. *)
LEMMA ReadFinishedKeeps ==
  ASSUME TypeInv, NEW c \in Connections, OwnInv(c), Moves(c), ReadFinished(c)
  PROVE  Kept(c)
<1>. DEFINE q == toClient[c]
            got == Got(q, 2)
            p == client[c].p
            Verified == /\ Len(got) = 2 /\ Opens(p, got[1]) /\ Opens(p, got[2])
                        /\ VerifyFinishedMessage(p, got[2].msg)
            final == [p EXCEPT !.ServerSequenceNumber = 1]
<1>1. /\ client[c].at = "finish" /\ CanRead(q, 2, c)
      /\ toClient' = [toClient EXCEPT ![c] = Rest(q, 2)]
      /\ UNCHANGED <<toHost, broken, alerted, host, CachedSessions>>
      /\ Verified => ClientIs(c, "connected", final)
      /\ ~ Verified => ClientIs(c, "aborted", p)
  BY DEF ReadFinished
<1>2. AlertsOK(c) /\ IsChannel(q)
  BY DEF OwnInv, AlertsOK
<1>3. toClient'[c] = Rest(q, 2) /\ Carries(q, Rest(q, 2))
  BY <1>1, <1>2, ReadingCarries DEF TypeInv
<1>4. Carries(toHost[c], toHost'[c])
  BY <1>1, <1>2 DEF AlertsOK, Carries
<1>5. AlertsOK(c)'
  BY <1>1, <1>2, <1>3, <1>4, AlertsStay
<1>. HIDE DEF Verified, final
<1>6. /\ Verified => /\ client'[c].at = "connected" /\ client'[c].p = final
                     /\ client'[c].offer = client[c].offer
      /\ ~ Verified => /\ client'[c].at = "aborted" /\ client'[c].p = p
                       /\ client'[c].offer = client[c].offer
  BY <1>1, ClientEffect
<1>7. CASE IsOver(c)
  BY <1>1, <1>5, <1>7 DEF Kept, Phase, IsOver, IsDone, FailureOK
<1>8. CASE Exchanges(c)
  <2>1. PICK s \in Connections \cup {None} :
          /\ HostExchanges(c, s)
          /\ AwaitsFlight(c, s) \/ HasExchanged(c, s) \/ LostFlight(c)
    BY <1>8 DEF Exchanges
  <2>2. HasExchanged(c, s) \/ LostFlight(c)
    BY <1>1, <2>1 DEF AwaitsFlight, SaidHello
  <2>3. Content(q) = <<>> /\ host[c].at = "keys"
    BY <1>8, <2>2 DEF HasExchanged, LostFlight, Exchanges
  <2>4. Len(Content(q)) <= 2 /\ Len(Content(q)) = 0
    BY <2>3
  <2>5. /\ got = <<>> /\ Content(Rest(q, 2)) = <<>>
        /\ Enough(q, 2) => (Len(Content(q)) = 2 \/ GivesUp(q))
    BY <1>2, <2>3, <2>4, Reading
  <2>6. c \in broken
    BY <1>1, <1>2, <2>3, <2>4, <2>5 DEF CanRead, AlertsOK
  <2>7. ~ Verified
    <3>1. Len(got) = 0
      BY <2>5
    <3>. QED
      BY <3>1 DEF Verified
  <2>8. /\ client'[c].at = "aborted" /\ client'[c].p = p
        /\ client'[c].offer = client[c].offer
    BY <1>6, <2>7
  <2>9. LostFlight(c) => LostFlight(c)'
    BY <1>1, <1>3, <2>5, <2>8 DEF LostFlight, SaidNothing
  <2>10. ASSUME HasExchanged(c, s) PROVE HasExchanged(c, s)'
    <3>1. SaidFinished(c, s)'
      BY <1>1, <2>8, <2>10, RecordsStay DEF HasExchanged, SaidFinished
    <3>2. Delivered(toHost[c], c, ExchangeRecords(c, s))'
      BY <1>1, <2>10, RecordsStay DEF HasExchanged, Delivered
    <3>. QED
      BY <1>3, <2>5, <2>8, <3>1, <3>2 DEF HasExchanged
  <2>11. HostExchanges(c, s)'
    BY <1>1, <2>1, RecordsStay DEF HostExchanges
  <2>12. Exchanges(c)'
    BY <1>1, <1>8, <2>2, <2>9, <2>10, <2>11 DEF Exchanges
  <2>13. FailureOK(c)'
    BY <1>1, <2>6 DEF FailureOK
  <2>. QED
    BY <1>5, <2>3, <2>12, <2>13 DEF Kept, Phase, IsDone
<1>9. CASE IsDone(c)
  <2>1. PICK s \in Connections \cup {None} : AwaitsFinished(c, s)
    BY <1>9 DEF IsDone
  <2>2. /\ SaidFinished(c, s) /\ IsBeginning(q, FinalRecords(c, s))
        /\ c \notin broken => Content(q) = FinalRecords(c, s)
    BY <1>1, <2>1 DEF AwaitsFinished, Delivered
  <2>3. IsSeq(FinalRecords(c, s)) /\ Len(FinalRecords(c, s)) = 2
    BY OtherRecords
  <2>4. Len(Content(q)) \in 0..2 /\ (Len(Content(q)) = 2 => Content(q) = FinalRecords(c, s))
    BY <2>2, <2>3, BeginningOf
  <2>5. got = Content(q)
    <3>1. Len(Content(q)) \in 0..2
      BY <2>4
    <3>2. Len(Content(q)) <= 2
      <4>1. \A l \in 0..2 : l <= 2
        OBVIOUS
      <4>. QED
        BY <3>1, <4>1
    <3>. QED
      BY <1>2, <3>2, Reading
  <2>6. /\ IsParameters(p, FALSE) /\ p.keys = Keys(MasterSecret(c), c)
        /\ p.master_secret = MasterSecret(c)
        /\ p.AllHandshakeMessages = SpokenByClient(c, s)
        /\ p.ClientSequenceNumber = 1 /\ p.ServerSequenceNumber = 0
        /\ client[c].offer = None
    BY <1>1, <2>2 DEF SaidFinished, Numbers
  <2>7. ASSUME c \notin broken PROVE Verified
    <3>1. got = FinalRecords(c, s)
      BY <2>2, <2>5, <2>7
    <3>2. p.isHost = FALSE
      BY <2>6 DEF IsParameters
    <3>3. \A x, y : /\ x.isHost = FALSE /\ x.keys = Keys(MasterSecret(c), c)
                    /\ x.master_secret = MasterSecret(c) /\ x.ServerSequenceNumber = 0
                    /\ x.AllHandshakeMessages = SpokenByClient(c, s)
                    /\ y = FinalRecords(c, s)
                    => /\ Len(y) = 2 /\ Opens(x, y[1]) /\ Opens(x, y[2])
                       /\ VerifyFinishedMessage(x, y[2].msg)
      BY FinalRecordsVerify
    <3>. QED
      BY <2>6, <3>1, <3>2, <3>3 DEF Verified
  <2>8. FailureOK(c)'
    BY <1>1, <1>6, <2>7 DEF FailureOK
  <2>9. /\ IsParameters(final, FALSE) /\ final.keys = Keys(MasterSecret(c), c)
        /\ final.master_secret = MasterSecret(c)
        /\ final.AllHandshakeMessages = SpokenByClient(c, s)
        /\ final.ClientSequenceNumber = 1 /\ final.ServerSequenceNumber = 1
    BY <2>6 DEF final, IsParameters, Fields
  <2>10. SaidFinished(c, s)'
    <3>1. CASE Verified
      BY <1>6, <2>6, <2>9, <3>1, RecordsStay DEF SaidFinished, Numbers
    <3>2. CASE ~ Verified
      BY <1>6, <2>6, <3>2, RecordsStay DEF SaidFinished, Numbers
    <3>. QED
      BY <3>1, <3>2
  <2>11. AwaitsFinished(c, s)'
    BY <1>6, <2>10 DEF AwaitsFinished
  <2>12. IsDone(c)'
    BY <1>1, <1>9, <2>11 DEF IsDone, HostHasFinished
  <2>. QED
    BY <1>5, <2>8, <2>12 DEF Kept, Phase
<1>. QED
  BY <1>1, <1>7, <1>8, <1>9 DEF OwnInv, Phase, Starts, Silent, Greets, SaidHello, Resumes,
     AwaitsResumption, HasAnswered, HasResumed

-----------------------------------------------------------------------------
(* The client that resumes.                                                *)

(* What it goes by when the server has resumed its session, ... *)
ResumptionIsAgreed(p, c, s, m, last) ==
    /\ Opens(p, last) /\ VerifyFinishedMessage(p, last.msg)
    /\ IsParameters(p, FALSE) /\ p.keys = Keys(m, c)
    /\ <<ChangeCipher, Sealed(p, Finished(Noted(p, <<last.msg>>)))>>
          = AnswerRecords(c, s, m)

(* ... which is what the server has computed. *)
LEMMA ResumptionOfClient ==
  ASSUME NEW c, NEW s, NEW m, NEW p, HasGreeted(p, c, s), Numbers(p, 0, 0),
         NEW got, got = ResumedRecords(c, s, m),
         NEW q, q = GenerateKeys([Noted(p, <<got[1].msg>>) EXCEPT
                                     !.server_random = got[1].msg[2],
                                     !.master_secret = m])
  PROVE  ResumptionIsAgreed(q, c, s, m, got[3])
<1>1. /\ DOMAIN p = Fields /\ p.isHost = FALSE
      /\ p.client_random = <<c, "client">> /\ p.AllHandshakeMessages = <<Hello(c, s)>>
      /\ p.ClientSequenceNumber = 0 /\ p.ServerSequenceNumber = 0
  BY DEF HasGreeted, IsParameters, Numbers
<1>2. /\ got[1] = Plain("handshake", ServerHello(c, s))
      /\ got[3] = Under(Keys(m, c), "server", ServerResumes(c, s, m))
  BY DEF ResumedRecords
<1>3. got[1].msg = ServerHello(c, s) /\ got[1].msg[2] = <<c, "server">>
  <2>1. got[1].msg = ServerHello(c, s)
    BY <1>2 DEF Plain
  <2>2. ServerHello(c, s)[2] = <<c, "server">>
    BY DEF ServerHello
  <2>. QED
    BY <2>1, <2>2
<1>4. PICK p1 : p1 = [Noted(p, <<got[1].msg>>) EXCEPT !.server_random = got[1].msg[2],
                                                      !.master_secret = m]
  OBVIOUS
<1>5. /\ DOMAIN p1 = Fields /\ p1.isHost = FALSE
      /\ p1.client_random = <<c, "client">> /\ p1.server_random = <<c, "server">>
      /\ p1.master_secret = m
      /\ p1.AllHandshakeMessages = <<Hello(c, s)>> \o <<ServerHello(c, s)>>
      /\ p1.ClientSequenceNumber = 0 /\ p1.ServerSequenceNumber = 0
  BY <1>1, <1>3, <1>4 DEF Noted, Fields
<1>6. <<Hello(c, s)>> \o <<ServerHello(c, s)>> = Resumed(c, s)
  <2>1. \A a, b : <<a>> \o <<b>> = Append(<<a>>, b)
    OBVIOUS
  <2>. QED
    BY <2>1 DEF Resumed
<1>7. /\ DOMAIN q = Fields /\ q.isHost = FALSE /\ q.master_secret = m
      /\ q.keys = Keys(m, c) /\ q.AllHandshakeMessages = Resumed(c, s)
      /\ q.ClientSequenceNumber = 0 /\ q.ServerSequenceNumber = 0
  BY <1>4, <1>5, <1>6 DEF GenerateKeys, Fields, Keys
<1>8. Opens(q, got[3])
  BY <1>2, <1>7 DEF Opens, Under
<1>9. got[3].msg = ServerResumes(c, s, m)
  BY <1>2 DEF Under
<1>10. VerifyFinishedMessage(q, got[3].msg)
  BY <1>7, <1>9 DEF VerifyFinishedMessage, VerifyData, ServerResumes
<1>11. PICK r : r = Noted(q, <<got[3].msg>>)
  OBVIOUS
<1>12. /\ r.isHost = FALSE /\ r.master_secret = m
       /\ r.AllHandshakeMessages = ResumedByServer(c, s, m)
  BY <1>7, <1>9, <1>11 DEF Noted, Fields, ResumedByServer
<1>13. Finished(r) = ClientResumes(c, s, m)
  BY <1>12 DEF Finished, VerifyData, ClientResumes
<1>14. Sealed(q, Finished(r)) = Under(Keys(m, c), "client", ClientResumes(c, s, m))
  BY <1>7, <1>13 DEF Sealed, Under
<1>15. <<ChangeCipher, Sealed(q, Finished(r))>> = AnswerRecords(c, s, m)
  BY <1>14 DEF AnswerRecords
<1>. QED
  BY <1>7, <1>8, <1>10, <1>11, <1>15 DEF ResumptionIsAgreed, IsParameters

(* Reading what the server answers to the offer. *)
LEMMA BrowserReadsKeeps ==
  ASSUME TypeInv, NEW c \in Connections, OwnInv(c), Moves(c), BrowserReads(c)
  PROVE  Kept(c)
<1>. DEFINE q == toClient[c]
            got == Got(q, 3)
            p == GenerateKeys([Noted(client[c].p, <<got[1].msg>>) EXCEPT
                     !.server_random = got[1].msg[2],
                     !.master_secret = client[client[c].offer].p.master_secret])
            rs == <<ChangeCipher, Sealed(p, Finished(Noted(p, <<got[3].msg>>)))>>
            final == [Noted(p, <<got[3].msg>>) EXCEPT !.HandshakeFinished = TRUE,
                                                      !.ServerSequenceNumber = 1,
                                                      !.ClientSequenceNumber = 1]
            Fails == Len(got) < 3 /\ ClientIs(c, "error", client[c].p)
                     /\ UNCHANGED <<toHost, toClient>>
            Drops == /\ Len(got) = 3 /\ got[1].msg[3] # client[c].offer
                     /\ client' = [client EXCEPT ![c].offer = None]
                     /\ UNCHANGED <<toHost, toClient>>
            Takes == /\ Len(got) = 3 /\ got[1].msg[3] = client[c].offer
                     /\ toClient' = [toClient EXCEPT ![c] = Rest(q, 3)]
                     /\ Send(toHost, c, rs)
                     /\ IF Opens(p, got[3]) /\ VerifyFinishedMessage(p, got[3].msg)
                        THEN ClientIs(c, "connected", final)
                        ELSE ClientIs(c, "aborted", p)
<1>1. /\ client[c].at = "hello" /\ client[c].offer # None /\ CanRead(q, 3, c)
      /\ UNCHANGED <<broken, alerted, host, CachedSessions>>
      /\ Fails \/ Drops \/ Takes
  BY DEF BrowserReads, BrowserResumes
<1>2. AlertsOK(c) /\ IsChannel(q)
  BY DEF OwnInv, AlertsOK
<1>3. IsSeq(rs) /\ NoAlert(rs)
  <2>1. ~ IsAlert(ChangeCipher) /\ \A x, y : ~ IsAlert(Sealed(x, y))
    BY DEF IsAlert, Plain, ChangeCipher, Sealed
  <2>. QED
    BY <2>1, FewRecords
<1>. HIDE DEF p, rs, final
<1>4. Carries(toHost[c], toHost'[c])
  <2>1. CASE toHost' = toHost
    BY <1>2, <2>1 DEF AlertsOK, Carries
  <2>2. CASE Send(toHost, c, rs)
    BY <1>1, <1>2, <1>3, <2>2, ClientWrites
  <2>. QED
    BY <1>1, <2>1, <2>2
<1>5. Takes => toClient'[c] = Rest(q, 3)
  BY DEF TypeInv
<1>6. Carries(q, toClient'[c])
  <2>1. CASE toClient' = toClient
    BY <1>2, <2>1 DEF Carries
  <2>2. CASE Takes
    BY <1>2, <1>5, <2>2, ReadingCarries
  <2>. QED
    BY <1>1, <2>1, <2>2
<1>7. AlertsOK(c)'
  BY <1>1, <1>2, <1>4, <1>6, AlertsStay
<1>8. CASE IsOver(c)
  BY <1>1, <1>7, <1>8 DEF Kept, Phase, IsOver, IsDone, FailureOK
<1>9. Fails => /\ client'[c].at = "error" /\ client'[c].p = client[c].p
               /\ client'[c].offer = client[c].offer
  BY ClientEffect
<1>10. Drops => /\ client'[c].at = "hello" /\ client'[c].p = client[c].p
                /\ client'[c].offer = None
  BY <1>1 DEF TypeInv
<1>11. ASSUME NEW s, SaidHello(c, s), Fails \/ Drops PROVE SaidHello(c, s)'
  <2>1. Offers(c, s)'
    BY <1>11, SessionsStay DEF SaidHello
  <2>2. Ours(c, "client")' <=> Ours(c, "client")
    BY RecordsStay
  <2>3. /\ client'[c].at \in {"error", "hello"} /\ client'[c].p = client[c].p
        /\ client'[c].offer \in {None, client[c].offer}
    BY <1>9, <1>10, <1>11
  <2>. QED
    BY <1>11, <2>1, <2>2, <2>3 DEF SaidHello
<1>12. ASSUME NEW s, SaidHello(c, s)
       PROVE  /\ client[c].offer = s /\ s # None /\ s # c /\ Ours(c, "host")
              /\ ~ Ours(c, "client")
  <2>1. client[c].offer = s /\ s # None
    BY <1>1, <1>12 DEF SaidHello
  <2>2. s \in Connections /\ ~ Ours(c, "client") /\ client[s].at = "connected"
    BY <1>12, <2>1 DEF SaidHello, Offers, Session
  <2>3. s # c
    BY <1>1, <2>2
  <2>4. role[c] \in {<<"ours", "ours">>, <<"browser", "ours">>, <<"ours", "other">>}
    BY RolesAssumption DEF TypeInv
  <2>5. Ours(c, "host")
    BY <2>2, <2>4 DEF Ours
  <2>. QED
    BY <2>1, <2>2, <2>3, <2>5
<1>13. ASSUME Len(Content(q)) <= 3, host[c].at # "error"
       PROVE  /\ got = Content(q) /\ Content(Rest(q, 3)) = <<>>
              /\ Len(got) < 3 => c \in broken
  <2>1. /\ got = Content(q) /\ Content(Rest(q, 3)) = <<>>
        /\ Enough(q, 3) => (Len(Content(q)) = 3 \/ GivesUp(q))
    BY <1>2, <1>13, Reading
  <2>2. ~ GivesUp(q)
    BY <1>2, <1>13 DEF AlertsOK
  <2>3. Len(got) < 3 => Len(Content(q)) # 3
    BY <2>1
  <2>. QED
    BY <1>1, <2>1, <2>2, <2>3 DEF CanRead
<1>. HIDE DEF got
<1>14. CASE Starts(c)
  <2>1. PICK s \in Connections \cup {None} : Greets(c, s)
    BY <1>1, <1>14 DEF Starts, Silent
  <2>2. Content(q) = <<>> /\ host[c].at = "start"
    BY <1>14 DEF Starts
  <2>3. Len(Content(q)) = 0
    BY <2>2
  <2>4. got = Content(q) /\ (Len(got) < 3 => c \in broken)
    BY <1>13, <2>2, <2>3
  <2>5. Fails /\ c \in broken
    BY <1>1, <2>3, <2>4
  <2>6. SaidHello(c, s)'
    BY <1>11, <2>1, <2>5 DEF Greets
  <2>7. Greets(c, s)'
    BY <1>1, <1>9, <2>1, <2>5, <2>6 DEF Greets, Delivered
  <2>8. Starts(c)'
    BY <1>1, <1>14, <2>5, <2>7 DEF Starts
  <2>9. FailureOK(c)'
    BY <1>1, <2>5 DEF FailureOK
  <2>. QED
    BY <1>7, <2>2, <2>8, <2>9 DEF Kept, Phase, IsDone
<1>15. CASE Exchanges(c)
  <2>1. PICK s \in Connections \cup {None} :
          /\ HostExchanges(c, s)
          /\ AwaitsFlight(c, s) \/ HasExchanged(c, s) \/ LostFlight(c)
    BY <1>15 DEF Exchanges
  <2>2. AwaitsFlight(c, s)
    BY <1>1, <2>1 DEF HasExchanged, LostFlight, SaidFinished, SaidNothing
  <2>3. /\ SaidHello(c, s) /\ Content(toHost[c]) = <<>>
        /\ Delivered(q, c, FlightRecords(c)) /\ host[c].at = "keys"
    BY <1>1, <1>15, <2>2 DEF AwaitsFlight, Exchanges
  <2>4. client[c].offer = s /\ s # c /\ Ours(c, "host")
    BY <1>12, <2>3
  <2>5. /\ IsSeq(FlightRecords(c)) /\ Len(FlightRecords(c)) = 3
        /\ FlightRecords(c)[1].msg = <<"server_hello", <<c, "server">>, c>>
    BY <2>4, Flight
  <2>6. Len(Content(q)) \in 0..3 /\ (Len(Content(q)) = 3 => Content(q) = FlightRecords(c))
    <3>1. IsBeginning(q, FlightRecords(c)) /\ IsSeq(FlightRecords(c))
      BY <2>3, <2>5 DEF Delivered
    <3>2. /\ Len(Content(q)) \in 0..Len(FlightRecords(c))
          /\ Len(Content(q)) = Len(FlightRecords(c)) => Content(q) = FlightRecords(c)
      BY <3>1, BeginningOf
    <3>3. Len(FlightRecords(c)) = 3
      BY <2>5
    <3>. QED
      BY <3>2, <3>3
  <2>7. Len(Content(q)) <= 3
    <3>1. \A l \in 0..3 : l <= 3
      OBVIOUS
    <3>. QED
      BY <2>6, <3>1
  <2>8. got = Content(q) /\ (Len(got) < 3 => c \in broken)
    BY <1>13, <2>3, <2>7
  <2>9. ~ Takes
    <3>1. Len(got) = 3 => got = FlightRecords(c)
      BY <2>6, <2>8
    <3>2. Len(got) = 3 => got[1].msg[3] = c
      BY <2>5, <3>1
    <3>. QED
      BY <2>4, <3>2
  <2>10. toHost' = toHost /\ toClient' = toClient /\ (Fails \/ Drops)
    BY <1>1, <2>9
  <2>11. SaidHello(c, s)'
    BY <1>11, <2>3, <2>10
  <2>12. Delivered(toClient[c], c, FlightRecords(c))'
    BY <1>1, <2>3, <2>10, RecordsStay DEF Delivered
  <2>13. AwaitsFlight(c, s)'
    BY <2>3, <2>10, <2>11, <2>12 DEF AwaitsFlight
  <2>14. HostExchanges(c, s)'
    BY <1>1, <2>1, RecordsStay DEF HostExchanges
  <2>15. Exchanges(c)'
    BY <1>1, <1>15, <2>13, <2>14 DEF Exchanges
  <2>16. FailureOK(c)'
    BY <1>1, <1>9, <1>10, <2>8, <2>10 DEF FailureOK
  <2>. QED
    BY <1>7, <2>3, <2>15, <2>16 DEF Kept, Phase, IsDone
<1>16. CASE Resumes(c)
  <2>1. PICK s \in Connections : \E m \in {client[s].p.master_secret} :
          /\ Session(c, s, m) /\ HostResumes(c, s, m)
          /\ AwaitsResumption(c, s, m) \/ HasAnswered(c, s, m)
    BY <1>16 DEF Resumes
  <2>2. PICK m \in {client[s].p.master_secret} :
          /\ Session(c, s, m) /\ HostResumes(c, s, m)
          /\ AwaitsResumption(c, s, m) \/ HasAnswered(c, s, m)
    BY <2>1
  <2>3. /\ SaidHello(c, s) /\ client[c].offer = s /\ Content(toHost[c]) = <<>>
        /\ Delivered(q, c, ResumedRecords(c, s, m)) /\ host[c].at = "resume"
    BY <1>1, <1>16, <2>2 DEF AwaitsResumption, HasAnswered, Resumes
  <2>4. ~ Ours(c, "client") /\ s # None
    BY <1>12, <2>3
  <2>5. IsSeq(ResumedRecords(c, s, m)) /\ Len(ResumedRecords(c, s, m)) = 3
    BY OtherRecords
  <2>6. /\ Len(Content(q)) \in 0..3
        /\ Len(Content(q)) = 3 => Content(q) = ResumedRecords(c, s, m)
    BY <2>3, <2>5, BeginningOf DEF Delivered
  <2>7. Len(Content(q)) <= 3
    <3>1. \A l \in 0..3 : l <= 3
      OBVIOUS
    <3>. QED
      BY <2>6, <3>1
  <2>8. got = Content(q) /\ (Len(got) < 3 => c \in broken)
    BY <1>13, <2>3, <2>7
  <2>9. Len(got) = 3 => got = ResumedRecords(c, s, m)
    BY <2>6, <2>8
  <2>10. ~ Drops
    <3>1. ResumedRecords(c, s, m)[1].msg[3] = s
      BY DEF ResumedRecords, Plain, ServerHello
    <3>. QED
      BY <2>3, <2>9, <3>1
  <2>11. Session(c, s, m)' /\ m \in {client[s].p.master_secret'}
    BY <2>2, SessionsStay
  <2>12. HostResumes(c, s, m)' /\ host[c].at' = "resume"
    BY <1>1, <2>2, <2>3 DEF HostResumes
  <2>13. CASE Fails
    <3>1. SaidHello(c, s)'
      BY <1>11, <2>3, <2>13
    <3>2. AwaitsResumption(c, s, m)'
      BY <1>9, <2>3, <2>13, <3>1 DEF AwaitsResumption
    <3>3. Resumes(c)'
      BY <2>11, <2>12, <3>2 DEF Resumes
    <3>4. FailureOK(c)'
      BY <1>1, <2>8, <2>13 DEF FailureOK
    <3>. QED
      BY <1>7, <2>3, <3>3, <3>4 DEF Kept, Phase, IsDone
  <2>14. CASE Takes
    <3>1. got = ResumedRecords(c, s, m)
      BY <2>9, <2>14
    <3>2. HasGreeted(client[c].p, c, s) /\ Numbers(client[c].p, 0, 0)
      BY <2>3, <2>4 DEF SaidHello, HasGreeted, Numbers
    <3>3. client[client[c].offer].p.master_secret = m
      BY <2>2, <2>3
    <3>4. p = GenerateKeys([Noted(client[c].p, <<got[1].msg>>) EXCEPT
                                !.server_random = got[1].msg[2], !.master_secret = m])
      BY <3>3 DEF p
    <3>5. ResumptionIsAgreed(p, c, s, m, got[3])
      BY <3>1, <3>2, <3>4, ResumptionOfClient
    <3>6. ClientIs(c, "connected", final)
      BY <2>14, <3>5 DEF ResumptionIsAgreed
    <3>7. /\ client'[c].at = "connected" /\ client'[c].p = final
          /\ client'[c].offer = s
      BY <2>3, <3>6, ClientEffect
    <3>8. rs = AnswerRecords(c, s, m)
      BY <3>5 DEF rs, ResumptionIsAgreed
    <3>9. Delivered(toHost[c], c, AnswerRecords(c, s, m))'
      <4>1. Send(toHost, c, AnswerRecords(c, s, m))
        BY <2>14, <3>8
      <4>2. IsSeq(AnswerRecords(c, s, m)) /\ NoAlert(AnswerRecords(c, s, m))
        BY OtherRecords
      <4>3. client[c].at # "error" /\ broken' = broken
        BY <1>1
      <4>. QED
        BY <1>2, <2>3, <4>1, <4>2, <4>3, ClientWrites
    <3>10. final.keys = Keys(m, c) /\ Numbers(final, 1, 1)
      BY <3>5 DEF final, ResumptionIsAgreed, IsParameters, Fields, Noted, Numbers
    <3>11. HasAnswered(c, s, m)'
      BY <2>4, <3>7, <3>9, <3>10 DEF HasAnswered, Numbers
    <3>12. Resumes(c)'
      BY <2>11, <2>12, <3>11 DEF Resumes
    <3>13. FailureOK(c)'
      BY <3>7 DEF FailureOK
    <3>. QED
      BY <1>7, <2>3, <3>12, <3>13 DEF Kept, Phase, IsDone
  <2>. QED
    BY <1>1, <2>10, <2>13, <2>14
<1>17. ~ IsDone(c) /\ ~ HasResumed(c)
  BY <1>1 DEF IsDone, AwaitsFinished, SaidFinished, HasResumed
<1>. QED
  BY <1>8, <1>14, <1>15, <1>16, <1>17 DEF OwnInv, Phase

-----------------------------------------------------------------------------
(* The server's flight, or its resumption.                                 *)

(* What the server goes by once it has read the client's hello, ... *)
WasGreeted(p, c, s) ==
    /\ IsParameters(p, TRUE) /\ Numbers(p, 0, 0) /\ p.client_random = <<c, "client">>
    /\ p.AllHandshakeMessages = <<Hello(c, s)>>

(* ... which it reads while its parameters are still fresh. *)
LEMMA GreetingOfHost ==
  ASSUME NEW c, NEW s, NEW hello, hello = Hello(c, s),
         NEW p, p = [Noted(FreshParameters(TRUE), <<hello>>) EXCEPT
                        !.client_random = hello[2]]
  PROVE  WasGreeted(p, c, s) /\ hello[3] = s
<1>1. hello[2] = <<c, "client">> /\ hello[3] = s
  BY DEF Hello
<1>2. /\ DOMAIN p = Fields /\ p.isHost = TRUE
      /\ p.ClientSequenceNumber = 0 /\ p.ServerSequenceNumber = 0
      /\ p.client_random = <<c, "client">>
  BY <1>1 DEF FreshParameters, Fields, Noted
<1>3. p.AllHandshakeMessages = <<Hello(c, s)>>
  BY <1>1 DEF FreshParameters, Noted
<1>. QED
  BY <1>1, <1>2, <1>3 DEF WasGreeted, IsParameters, Numbers

(* What it goes by in a handshake that resumes s. *)
ResumesBy(p, c, s, m) ==
    /\ IsParameters(p, TRUE) /\ ~ p.HandshakeFinished
    /\ p.master_secret = m /\ p.keys = Keys(m, c)
    /\ p.AllHandshakeMessages = ResumedByServer(c, s, m)

(* The session's parameters, with what is this connection's own. *)
ResumptionBy(cached, p, c, s) ==
    ChangedCipher(GenerateKeys([cached EXCEPT
        !.AllHandshakeMessages = Append(p.AllHandshakeMessages, ServerHello(c, s)),
        !.client_random = p.client_random,
        !.server_random = <<c, "server">>,
        !.HandshakeFinished = FALSE]))

ResumptionIsSaid(q, c, s, m) ==
    /\ ResumesBy(Noted(q, <<Finished(q)>>), c, s, m)
    /\ <<Plain("handshake", ServerHello(c, s)), ChangeCipher, Sealed(q, Finished(q))>>
          = ResumedRecords(c, s, m)

(* From them it computes the keys and what it says. *)
LEMMA ResumptionOfHost ==
  ASSUME NEW c, NEW s, NEW m, NEW p, WasGreeted(p, c, s),
         NEW cached, IsParameters(cached, TRUE), cached.master_secret = m,
         NEW q, q = ResumptionBy(cached, p, c, s)
  PROVE  ResumptionIsSaid(q, c, s, m)
<1>1. PICK p1 : p1 = [cached EXCEPT
                     !.AllHandshakeMessages =
                        Append(p.AllHandshakeMessages, ServerHello(c, s)),
                     !.client_random = p.client_random,
                     !.server_random = <<c, "server">>,
                     !.HandshakeFinished = FALSE]
  OBVIOUS
<1>2. p.client_random = <<c, "client">> /\ p.AllHandshakeMessages = <<Hello(c, s)>>
  BY DEF WasGreeted
<1>3. DOMAIN cached = Fields /\ cached.isHost = TRUE
  BY DEF IsParameters
<1>4. /\ DOMAIN p1 = Fields /\ p1.isHost = TRUE /\ p1.master_secret = m
      /\ p1.client_random = <<c, "client">> /\ p1.server_random = <<c, "server">>
      /\ p1.HandshakeFinished = FALSE
  BY <1>1, <1>2, <1>3 DEF Fields
<1>5. p1.AllHandshakeMessages = Resumed(c, s)
  BY <1>1, <1>2, <1>3 DEF Fields, Resumed
<1>6. PICK p2 : p2 = GenerateKeys(p1)
  OBVIOUS
<1>7. /\ DOMAIN p2 = Fields /\ p2.isHost = TRUE /\ p2.master_secret = m
      /\ p2.keys = Keys(m, c) /\ p2.HandshakeFinished = FALSE
      /\ p2.AllHandshakeMessages = Resumed(c, s)
  BY <1>4, <1>5, <1>6 DEF GenerateKeys, Fields, Keys
<1>8. /\ DOMAIN q = Fields /\ q.isHost = TRUE /\ q.master_secret = m
      /\ q.keys = Keys(m, c) /\ q.HandshakeFinished = FALSE
      /\ q.AllHandshakeMessages = Resumed(c, s) /\ q.ServerSequenceNumber = 0
  BY <1>1, <1>6, <1>7 DEF ResumptionBy, ChangedCipher, Fields
<1>9. Finished(q) = ServerResumes(c, s, m)
  BY <1>8 DEF Finished, VerifyData, ServerResumes
<1>10. Sealed(q, Finished(q)) = Under(Keys(m, c), "server", ServerResumes(c, s, m))
  BY <1>8, <1>9 DEF Sealed, Under
<1>11. ResumesBy(Noted(q, <<Finished(q)>>), c, s, m)
  BY <1>8, <1>9 DEF ResumesBy, Noted, IsParameters, Fields, ResumedByServer
<1>. QED
  BY <1>10, <1>11 DEF ResumptionIsSaid, ResumedRecords

(* Reading the client's hello. *)
LEMMA ReadClientHelloKeeps ==
  ASSUME TypeInv, CacheOK, NEW c \in Connections, OwnInv(c), Moves(c), ReadClientHello(c)
  PROVE  Kept(c)
<1>. DEFINE q == toHost[c]
            got == Got(q, 1)
            hello == got[1].msg
            p == [Noted(host[c].p, <<hello>>) EXCEPT !.client_random = hello[2]]
<1>1. /\ host[c].at = "start" /\ CanRead(q, 1, c)
      /\ toHost' = [toHost EXCEPT ![c] = Rest(q, 1)]
      /\ UNCHANGED <<broken, alerted, client, CachedSessions>>
      /\ got = <<>> => HostIs(c, "error", host[c].p) /\ UNCHANGED toClient
      /\ got # <<>> => IF hello[3] \in DOMAIN CachedSessions
                       THEN ResumeSession(c, p, hello[3])
                       ELSE FullHandshake(c, p)
  BY DEF ReadClientHello
<1>2. AlertsOK(c) /\ IsChannel(q) /\ IsChannel(toClient[c]) /\ FailureOK(c)
  BY DEF OwnInv, AlertsOK
<1>3. toHost'[c] = Rest(q, 1) /\ Carries(q, Rest(q, 1))
  BY <1>1, <1>2, ReadingCarries DEF TypeInv
<1>4. Starts(c)
  BY <1>1 DEF OwnInv, Phase, Exchanges, IsDone, Resumes, HasResumed, IsOver
<1>5. ~ IsDone(c)
  BY <1>1 DEF IsDone
<1>6. FailureOK(c)'
  BY <1>1, <1>2 DEF FailureOK
<1>7. Content(toClient[c]) = <<>> /\ host[c].p = FreshParameters(TRUE)
  BY <1>4 DEF Starts
<1>8. ASSUME NEW s, SaidHello(c, s) PROVE SaidHello(c, s)'
  <2>1. Offers(c, s)'
    BY <1>8, SessionsStay DEF SaidHello
  <2>2. Ours(c, "client")' <=> Ours(c, "client")
    BY RecordsStay
  <2>. QED
    BY <1>1, <1>8, <2>1, <2>2 DEF SaidHello
<1>9. ASSUME Len(Content(q)) <= 1
      PROVE  /\ got = Content(q) /\ Content(Rest(q, 1)) = <<>>
             /\ Len(Content(q)) = 0 => c \in broken \cup alerted
  <2>1. /\ got = Content(q) /\ Content(Rest(q, 1)) = <<>>
        /\ Enough(q, 1) => (Len(Content(q)) = 1 \/ GivesUp(q))
    BY <1>2, <1>9, Reading
  <2>2. GivesUp(q) => c \in alerted
    BY <1>2 DEF AlertsOK, GivesUp, NoAlert, IsFatal
  <2>. QED
    BY <1>1, <2>1, <2>2 DEF CanRead
<1>. HIDE DEF got
<1>10. ASSUME got = <<>>, c \in broken \cup alerted PROVE Kept(c)
  <2>1. host'[c].at = "error" /\ toClient' = toClient
    BY <1>1, <1>10, HostEffect
  <2>2. AlertsOK(c)'
    BY <1>1, <1>2, <1>3, <2>1, AlertsStay DEF Carries
  <2>3. IsOver(c)'
    BY <1>1, <1>10, <2>1 DEF IsOver
  <2>. QED
    BY <1>5, <1>6, <2>2, <2>3 DEF Kept, Phase
<1>11. CASE Silent(c)
  <2>1. Content(q) = <<>>
    BY <1>11 DEF Silent
  <2>2. Len(Content(q)) = 0 /\ Len(Content(q)) <= 1
    BY <2>1
  <2>. QED
    BY <1>9, <1>10, <2>1, <2>2
<1>12. CASE \E s \in Connections \cup {None} : Greets(c, s)
  <2>1. PICK s \in Connections \cup {None} : Greets(c, s)
    BY <1>12
  <2>2. /\ SaidHello(c, s) /\ client[c].offer = s
        /\ IsBeginning(q, <<Plain("handshake", Hello(c, s))>>)
    BY <2>1 DEF Greets, Delivered
  <2>3. PICK rs : rs = <<Plain("handshake", Hello(c, s))>>
    OBVIOUS
  <2>4. IsSeq(rs) /\ Len(rs) = 1
    BY <2>3, OtherRecords
  <2>5. Len(Content(q)) \in 0..1 /\ (Len(Content(q)) = 1 => Content(q) = rs)
    BY <2>2, <2>3, <2>4, BeginningOf
  <2>6. Len(Content(q)) <= 1 /\ (Len(Content(q)) = 0 \/ Len(Content(q)) = 1)
    <3>1. \A l \in 0..1 : l <= 1 /\ (l = 0 \/ l = 1)
      OBVIOUS
    <3>. QED
      BY <2>5, <3>1
  <2>7. CASE Len(Content(q)) = 0
    <3>1. Content(q) = <<>>
      BY <1>2, <2>7, ContentIsASeq, NoElements DEF IsChannel
    <3>. QED
      BY <1>9, <1>10, <2>6, <2>7, <3>1
  <2>8. CASE Len(Content(q)) = 1
    <3>1. got = <<Plain("handshake", Hello(c, s))>> /\ Content(Rest(q, 1)) = <<>>
      BY <1>9, <2>3, <2>5, <2>6, <2>8
    <3>2. hello = Hello(c, s) /\ got # <<>>
      BY <3>1 DEF Plain
    <3>. HIDE DEF hello
    <3>3. PICK p0 : p0 = p
      OBVIOUS
    <3>4. WasGreeted(p0, c, s) /\ hello[3] = s
      BY <1>7, <3>2, <3>3, GreetingOfHost
    <3>5. SaidHello(c, s)' /\ Content(toHost[c])' = <<>>
      BY <1>3, <1>8, <2>2, <3>1
    <3>6. host[c].at # "error" /\ broken' = broken
      BY <1>1
    <3>. HIDE DEF p
    <3>7. CASE s \in DOMAIN CachedSessions
      <4>1. ResumeSession(c, p0, s)
        BY <1>1, <3>2, <3>3, <3>4, <3>7
      <4>2. /\ s \in Connections /\ IsDone(s) /\ CachedSessions[s] = host[s].p
        BY <3>7 DEF CacheOK
      <4>3. PICK cached : cached = CachedSessions[s]
        OBVIOUS
      <4>4. IsParameters(cached, TRUE) /\ cached.master_secret = MasterSecret(s)
        BY <4>2, <4>3 DEF IsDone, HostHasFinished
      <4>5. client[s].p.master_secret = MasterSecret(s)
        BY <4>2 DEF IsDone, AwaitsFinished, SaidFinished
      <4>6. PICK m : m = MasterSecret(s)
        OBVIOUS
      <4>7. Session(c, s, m)
        BY <2>2, <4>2, <4>5, <4>6, RolesAssumption DEF SaidHello, Offers, Session
      <4>8. PICK q1 : q1 = ResumptionBy(cached, p0, c, s)
        OBVIOUS
      <4>9. /\ ResumesBy(Noted(q1, <<Finished(q1)>>), c, s, m)
            /\ <<Plain("handshake", ServerHello(c, s)), ChangeCipher,
                 Sealed(q1, Finished(q1))>> = ResumedRecords(c, s, m)
        <5>1. cached.master_secret = m /\ IsParameters(cached, TRUE)
          BY <4>4, <4>6
        <5>2. ResumptionIsSaid(q1, c, s, m)
          BY <3>4, <4>8, <5>1, ResumptionOfHost
        <5>. QED
          BY <5>2 DEF ResumptionIsSaid
      <4>10. /\ HostIs(c, "resume", Noted(q1, <<Finished(q1)>>))
             /\ Send(toClient, c, <<Plain("handshake", ServerHello(c, s)), ChangeCipher,
                                    Sealed(q1, Finished(q1))>>)
        BY <4>1, <4>3, <4>8 DEF ResumeSession, ServerHello, ResumptionBy
      <4>11. PICK rr : rr = ResumedRecords(c, s, m)
        OBVIOUS
      <4>12. IsSeq(rr) /\ NoAlert(rr) /\ Send(toClient, c, rr)
        BY <4>9, <4>10, <4>11, OtherRecords
      <4>13. Carries(toClient[c], toClient'[c]) /\ Delivered(toClient[c], c, rr)'
        BY <1>2, <1>7, <3>6, <4>12, HostWrites
      <4>14. /\ host'[c].at = "resume" /\ host'[c].p = Noted(q1, <<Finished(q1)>>)
        BY <4>10, HostEffect
      <4>15. AlertsOK(c)'
        BY <1>1, <1>2, <1>3, <4>13, AlertsStay
      <4>16. HostResumes(c, s, m)'
        BY <4>9, <4>14 DEF HostResumes, ResumesBy
      <4>17. AwaitsResumption(c, s, m)'
        BY <1>1, <2>2, <3>5, <4>11, <4>13 DEF AwaitsResumption
      <4>18. Session(c, s, m)' /\ m \in {client[s].p.master_secret'}
        BY <4>5, <4>6, <4>7, SessionsStay
      <4>19. Resumes(c)'
        BY <4>2, <4>14, <4>16, <4>17, <4>18 DEF Resumes
      <4>. QED
        BY <1>5, <1>6, <4>15, <4>19 DEF Kept, Phase
    <3>8. CASE s \notin DOMAIN CachedSessions
      <4>1. FullHandshake(c, p0)
        BY <1>1, <3>2, <3>3, <3>4, <3>8
      <4>2. PICK q1 : q1 = [Noted(p0, ServerFlight(c)) EXCEPT
                              !.server_random = <<c, "server">>, !.SessionId = c]
        OBVIOUS
      <4>3. HostIs(c, "keys", q1) /\ Send(toClient, c, FlightRecords(c))
        BY <4>1, <4>2 DEF FullHandshake, FlightRecords
      <4>4. /\ IsParameters(q1, TRUE) /\ Numbers(q1, 0, 0)
            /\ q1.client_random = <<c, "client">> /\ q1.server_random = <<c, "server">>
            /\ q1.AllHandshakeMessages = <<Hello(c, s)>> \o ServerFlight(c)
        BY <3>4, <4>2 DEF WasGreeted, IsParameters, Fields, Noted, Numbers
      <4>5. host'[c].at = "keys" /\ host'[c].p = q1
        BY <4>3, HostEffect
      <4>6. HostExchanges(c, s)'
        BY <4>4, <4>5, RecordsStay DEF HostExchanges, Numbers
      <4>7. PICK fs : fs = FlightRecords(c)
        OBVIOUS
      <4>8. IsSeq(fs) /\ NoAlert(fs) /\ Send(toClient, c, fs)
        BY <4>3, <4>7, Flight
      <4>9. Carries(toClient[c], toClient'[c]) /\ Delivered(toClient[c], c, fs)'
        BY <1>2, <1>7, <3>6, <4>8, HostWrites
      <4>10. Delivered(toClient[c], c, FlightRecords(c))'
        BY <4>7, <4>9, RecordsStay DEF Delivered
      <4>11. AlertsOK(c)'
        BY <1>1, <1>2, <1>3, <4>9, AlertsStay
      <4>12. AwaitsFlight(c, s)'
        BY <3>5, <4>10 DEF AwaitsFlight
      <4>13. Exchanges(c)'
        BY <4>5, <4>6, <4>12 DEF Exchanges
      <4>. QED
        BY <1>5, <1>6, <4>11, <4>13 DEF Kept, Phase
    <3>. QED
      BY <3>7, <3>8
  <2>. QED
    BY <2>6, <2>7, <2>8
<1>. QED
  BY <1>4, <1>11, <1>12 DEF Starts

-----------------------------------------------------------------------------
(* The server's exchange of keys.                                          *)

(* What the server goes by before it has read the client's secret, ... *)
ExchangesBy(p, c, s) ==
    /\ IsParameters(p, TRUE) /\ Numbers(p, 0, 0)
    /\ p.client_random = <<c, "client">> /\ p.server_random = <<c, "server">>
    /\ p.AllHandshakeMessages = <<Hello(c, s)>> \o ServerFlight(c)

(* ... after that, ... *)
HasExchangedBy(p, c, s) ==
    /\ IsParameters(p, TRUE) /\ Numbers(p, 0, 0)
    /\ p.master_secret = MasterSecret(c) /\ p.keys = Keys(MasterSecret(c), c)
    /\ p.AllHandshakeMessages = Spoken(c, s)

(* ... and when it has read the client's finished message and written its. *)
AfterFinished(p, last) == ChangedCipher(Noted(Counted(p, last), <<last.msg>>))
FinishedBy(q) == [Noted(q, <<Finished(q)>>) EXCEPT !.HandshakeFinished = TRUE,
                                                   !.ServerSequenceNumber = 1,
                                                   !.ClientSequenceNumber = 1]

(* It derives the keys that the client has derived. *)
LEMMA KeysOfHost ==
  ASSUME NEW c, NEW s, NEW p, ExchangesBy(p, c, s), NEW exchange, exchange = Exchange(c),
         NEW q, q = ServerHandleKeyExchange(p, exchange)
  PROVE  HasExchangedBy(q, c, s)
<1>1. exchange[2] = <<c, "secret">>
  BY DEF Exchange
<1>2. PICK p1 : p1 = [p EXCEPT !.PreMasterSecret = exchange[2]]
  OBVIOUS
<1>3. /\ DOMAIN p1 = Fields /\ p1.isHost = TRUE
      /\ p1.ClientSequenceNumber = 0 /\ p1.ServerSequenceNumber = 0
      /\ p1.client_random = <<c, "client">> /\ p1.server_random = <<c, "server">>
      /\ p1.PreMasterSecret = <<c, "secret">>
      /\ p1.AllHandshakeMessages = <<Hello(c, s)>> \o ServerFlight(c)
  BY <1>1, <1>2 DEF ExchangesBy, IsParameters, Numbers, Fields
<1>4. PICK p2 : p2 = Noted(p1, <<exchange>>)
  OBVIOUS
<1>5. /\ DOMAIN p2 = Fields /\ p2.isHost = TRUE
      /\ p2.ClientSequenceNumber = 0 /\ p2.ServerSequenceNumber = 0
      /\ p2.client_random = <<c, "client">> /\ p2.server_random = <<c, "server">>
      /\ p2.PreMasterSecret = <<c, "secret">>
      /\ p2.AllHandshakeMessages = Spoken(c, s)
  BY <1>3, <1>4 DEF Noted, Fields, Spoken
<1>6. PICK p3 : p3 = GenerateMasterSecret(p2)
  OBVIOUS
<1>7. /\ DOMAIN p3 = Fields /\ p3.isHost = TRUE
      /\ p3.ClientSequenceNumber = 0 /\ p3.ServerSequenceNumber = 0
      /\ p3.client_random = <<c, "client">> /\ p3.server_random = <<c, "server">>
      /\ p3.master_secret = MasterSecret(c)
      /\ p3.AllHandshakeMessages = Spoken(c, s)
  BY <1>5, <1>6 DEF GenerateMasterSecret, Fields, MasterSecret
<1>8. q = GenerateKeys(p3)
  BY <1>2, <1>4, <1>6 DEF ServerHandleKeyExchange
<1>9. /\ DOMAIN q = Fields /\ q.isHost = TRUE
      /\ q.ClientSequenceNumber = 0 /\ q.ServerSequenceNumber = 0
      /\ q.master_secret = MasterSecret(c) /\ q.keys = Keys(MasterSecret(c), c)
      /\ q.AllHandshakeMessages = Spoken(c, s)
  BY <1>7, <1>8 DEF GenerateKeys, Fields, Keys
<1>. QED
  BY <1>9 DEF HasExchangedBy, IsParameters, Numbers

(* Both finished messages are agreed on, and so is what the server keeps. *)
FinishIsAgreed(p, last, q, c, s) ==
    /\ Opens(p, last) /\ VerifyFinishedMessage(p, last.msg)
    /\ <<ChangeCipher, Sealed(q, Finished(q))>> = FinalRecords(c, s)
    /\ IsParameters(FinishedBy(q), TRUE) /\ Numbers(FinishedBy(q), 1, 1)
    /\ FinishedBy(q).master_secret = MasterSecret(c)
    /\ FinishedBy(q).keys = Keys(MasterSecret(c), c)
    /\ FinishedBy(q).HandshakeFinished

(* The client's finished message is the one that the server expects, and    *)
(* the server's is then the one that the client expects.                   *)
LEMMA FinishOfHost ==
  ASSUME NEW c, NEW s, NEW p, HasExchangedBy(p, c, s), NEW last,
         last = Under(Keys(MasterSecret(c), c), "client", ClientFinished(c, s)),
         NEW q, q = AfterFinished(p, last)
  PROVE  FinishIsAgreed(p, last, q, c, s)
<1>1. /\ DOMAIN p = Fields /\ p.isHost = TRUE
      /\ p.ClientSequenceNumber = 0 /\ p.ServerSequenceNumber = 0
      /\ p.master_secret = MasterSecret(c) /\ p.keys = Keys(MasterSecret(c), c)
      /\ p.AllHandshakeMessages = Spoken(c, s)
  BY DEF HasExchangedBy, IsParameters, Numbers
<1>2. /\ last.type = "handshake" /\ last.msg = ClientFinished(c, s)
      /\ last.key = <<Keys(MasterSecret(c), c), "client">> /\ last.number = 0
  BY DEF Under
<1>3. Opens(p, last)
  BY <1>1, <1>2 DEF Opens
<1>4. VerifyFinishedMessage(p, last.msg)
  BY <1>1, <1>2 DEF VerifyFinishedMessage, VerifyData, ClientFinished
<1>5. PICK p1 : p1 = Counted(p, last)
  OBVIOUS
<1>6. /\ DOMAIN p1 = Fields /\ p1.isHost = TRUE
      /\ p1.master_secret = MasterSecret(c) /\ p1.keys = Keys(MasterSecret(c), c)
      /\ p1.AllHandshakeMessages = Spoken(c, s)
  BY <1>1, <1>2, <1>5 DEF Counted, Fields
<1>7. PICK p2 : p2 = Noted(p1, <<last.msg>>)
  OBVIOUS
<1>8. /\ DOMAIN p2 = Fields /\ p2.isHost = TRUE
      /\ p2.master_secret = MasterSecret(c) /\ p2.keys = Keys(MasterSecret(c), c)
      /\ p2.AllHandshakeMessages = SpokenByClient(c, s)
  BY <1>2, <1>6, <1>7 DEF Noted, Fields, SpokenByClient
<1>9. q = ChangedCipher(p2)
  BY <1>5, <1>7 DEF AfterFinished
<1>10. /\ DOMAIN q = Fields /\ q.isHost = TRUE /\ q.ServerSequenceNumber = 0
       /\ q.master_secret = MasterSecret(c) /\ q.keys = Keys(MasterSecret(c), c)
       /\ q.AllHandshakeMessages = SpokenByClient(c, s)
  BY <1>8, <1>9 DEF ChangedCipher, Fields
<1>11. Finished(q) = ServerFinished(c, s)
  BY <1>10 DEF Finished, VerifyData, ServerFinished
<1>12. Sealed(q, Finished(q)) =
         Under(Keys(MasterSecret(c), c), "server", ServerFinished(c, s))
  BY <1>10, <1>11 DEF Sealed, Under
<1>13. <<ChangeCipher, Sealed(q, Finished(q))>> = FinalRecords(c, s)
  BY <1>12 DEF FinalRecords
<1>14. PICK r : r = FinishedBy(q)
  OBVIOUS
<1>15. /\ DOMAIN r = Fields /\ r.isHost = TRUE
       /\ r.ClientSequenceNumber = 1 /\ r.ServerSequenceNumber = 1
       /\ r.master_secret = MasterSecret(c) /\ r.keys = Keys(MasterSecret(c), c)
       /\ r.HandshakeFinished
  BY <1>10, <1>14 DEF FinishedBy, Noted, Fields
<1>. QED
  BY <1>3, <1>4, <1>13, <1>14, <1>15 DEF FinishIsAgreed, IsParameters, Numbers

(* Reading the client's exchange of keys. *)
LEMMA ReadKeyExchangeKeeps ==
  ASSUME TypeInv, NEW c \in Connections, OwnInv(c), Moves(c), ReadKeyExchange(c)
  PROVE  Kept(c)
<1>. DEFINE q == toHost[c]
            got == Got(q, 3)
            p == ServerHandleKeyExchange(host[c].p, got[1].msg)
            Fails == /\ Len(got) # 3 \/ GotFatal(q, 3)
                     /\ HostIs(c, "error", host[c].p) /\ UNCHANGED toClient
            Goes == /\ Len(got) = 3 /\ ~ GotFatal(q, 3)
                    /\ VerifyClient(c, p, got[3])
<1>1. /\ host[c].at = "keys" /\ CanRead(q, 3, c)
      /\ toHost' = [toHost EXCEPT ![c] = Rest(q, 3)]
      /\ UNCHANGED <<broken, alerted, client, CachedSessions>>
      /\ Fails \/ Goes
  BY DEF ReadKeyExchange
<1>2. AlertsOK(c) /\ IsChannel(q) /\ IsChannel(toClient[c]) /\ FailureOK(c)
  BY DEF OwnInv, AlertsOK
<1>3. /\ toHost'[c] = Rest(q, 3) /\ Carries(q, Rest(q, 3))
      /\ GotFatal(q, 3) => GivesUp(q)
  BY <1>1, <1>2, ReadingCarries DEF TypeInv
<1>4. Exchanges(c)
  BY <1>1 DEF OwnInv, Phase, Starts, IsDone, Resumes, HasResumed, IsOver
<1>5. ~ IsDone(c)
  BY <1>1 DEF IsDone
<1>6. FailureOK(c)'
  BY <1>1, <1>2 DEF FailureOK
<1>7. ASSUME Len(Content(q)) <= 3
      PROVE  /\ got = Content(q) /\ Content(Rest(q, 3)) = <<>>
             /\ Len(got) # 3 => c \in broken \cup alerted
  <2>1. /\ got = Content(q) /\ Content(Rest(q, 3)) = <<>>
        /\ Enough(q, 3) => (Len(Content(q)) = 3 \/ GivesUp(q))
    BY <1>2, <1>7, Reading
  <2>2. GivesUp(q) => c \in alerted
    BY <1>2 DEF AlertsOK, GivesUp, NoAlert, IsFatal
  <2>3. Len(got) # 3 => Len(Content(q)) # 3
    BY <2>1
  <2>. QED
    BY <1>1, <2>1, <2>2, <2>3 DEF CanRead
<1>. HIDE DEF got, p
<1>8. ASSUME Len(got) # 3, c \in broken \cup alerted PROVE Kept(c)
  <2>1. host'[c].at = "error" /\ toClient' = toClient
    BY <1>1, <1>8, HostEffect
  <2>2. AlertsOK(c)'
    BY <1>1, <1>2, <1>3, <2>1, AlertsStay DEF Carries
  <2>3. IsOver(c)'
    BY <1>1, <1>8, <2>1 DEF IsOver
  <2>. QED
    BY <1>5, <1>6, <2>2, <2>3 DEF Kept, Phase
<1>9. PICK s \in Connections \cup {None} :
        /\ HostExchanges(c, s)
        /\ AwaitsFlight(c, s) \/ HasExchanged(c, s) \/ LostFlight(c)
  BY <1>4 DEF Exchanges
<1>10. CASE Content(q) = <<>>
  <2>1. Len(Content(q)) = 0 /\ Len(Content(q)) <= 3
    BY <1>10
  <2>2. got = Content(q) /\ (Len(got) # 3 => c \in broken \cup alerted)
    BY <1>7, <2>1
  <2>3. Len(got) # 3
    BY <2>1, <2>2
  <2>. QED
    BY <1>8, <2>2, <2>3
<1>11. CASE HasExchanged(c, s)
  <2>1. /\ SaidFinished(c, s) /\ Content(toClient[c]) = <<>>
        /\ IsBeginning(q, ExchangeRecords(c, s))
    BY <1>11 DEF HasExchanged, Delivered
  <2>2. IsSeq(ExchangeRecords(c, s)) /\ Len(ExchangeRecords(c, s)) = 3
    BY OtherRecords
  <2>3. /\ Len(Content(q)) \in 0..3
        /\ Len(Content(q)) = 3 => Content(q) = ExchangeRecords(c, s)
    BY <2>1, <2>2, BeginningOf
  <2>4. Len(Content(q)) <= 3
    <3>1. \A l \in 0..3 : l <= 3
      OBVIOUS
    <3>. QED
      BY <2>3, <3>1
  <2>5. got = Content(q) /\ Content(Rest(q, 3)) = <<>>
    BY <1>7, <2>4
  <2>6. CASE Len(got) # 3
    BY <1>7, <1>8, <2>4, <2>6
  <2>7. CASE Len(got) = 3
    <3>1. got = ExchangeRecords(c, s)
      BY <2>3, <2>5, <2>7
    <3>2. ~ GotFatal(q, 3)
      BY <1>2, <1>3, <2>1 DEF AlertsOK, SaidFinished
    <3>3. VerifyClient(c, p, got[3])
      BY <1>1, <2>7, <3>2
    <3>4. /\ got[1].msg = Exchange(c)
          /\ got[3] = Under(Keys(MasterSecret(c), c), "client", ClientFinished(c, s))
      BY <3>1 DEF ExchangeRecords, Plain
    <3>5. PICK p0, last, q0 : p0 = p /\ last = got[3] /\ q0 = AfterFinished(p0, last)
      OBVIOUS
    <3>6. HasExchangedBy(p0, c, s)
      <4>1. PICK exchange : exchange = got[1].msg
        OBVIOUS
      <4>2. PICK h : h = host[c].p
        OBVIOUS
      <4>3. ExchangesBy(h, c, s)
        BY <1>9, <4>2 DEF ExchangesBy, HostExchanges
      <4>4. p0 = ServerHandleKeyExchange(h, exchange) /\ exchange = Exchange(c)
        BY <3>4, <3>5, <4>1, <4>2 DEF p
      <4>. QED
        BY <4>3, <4>4, KeysOfHost
    <3>7. /\ Opens(p0, last) /\ VerifyFinishedMessage(p0, last.msg)
          /\ <<ChangeCipher, Sealed(q0, Finished(q0))>> = FinalRecords(c, s)
          /\ IsParameters(FinishedBy(q0), TRUE) /\ Numbers(FinishedBy(q0), 1, 1)
          /\ FinishedBy(q0).master_secret = MasterSecret(c)
          /\ FinishedBy(q0).keys = Keys(MasterSecret(c), c)
          /\ FinishedBy(q0).HandshakeFinished
      <4>1. last = Under(Keys(MasterSecret(c), c), "client", ClientFinished(c, s))
        BY <3>4, <3>5
      <4>2. q0 = AfterFinished(p0, last)
        BY <3>5
      <4>3. FinishIsAgreed(p0, last, q0, c, s)
        BY <3>6, <4>1, <4>2, FinishOfHost
      <4>. QED
        BY <4>3 DEF FinishIsAgreed
    <3>8. /\ HostIs(c, "cache", FinishedBy(q0))
          /\ Send(toClient, c, <<ChangeCipher, Sealed(q0, Finished(q0))>>)
      <4>1. VerifyClient(c, p0, last) /\ q0 = AfterFinished(p0, last)
        BY <3>3, <3>5
      <4>. QED
        BY <3>7, <4>1 DEF VerifyClient, AfterFinished, FinishedBy
    <3>9. /\ host'[c].at = "cache" /\ host'[c].p = FinishedBy(q0)
      BY <3>8, HostEffect
    <3>10. HostHasFinished(c)'
      BY <3>7, <3>9 DEF HostHasFinished, Numbers
    <3>11. PICK fs : fs = FinalRecords(c, s)
      OBVIOUS
    <3>12. IsSeq(fs) /\ NoAlert(fs) /\ Send(toClient, c, fs)
      BY <3>7, <3>8, <3>11, OtherRecords
    <3>13. host[c].at # "error" /\ broken' = broken
      BY <1>1
    <3>14. Carries(toClient[c], toClient'[c]) /\ Delivered(toClient[c], c, fs)'
      BY <1>2, <2>1, <3>12, <3>13, HostWrites
    <3>15. Delivered(toClient[c], c, FinalRecords(c, s))'
      BY <3>11, <3>14, RecordsStay DEF Delivered
    <3>16. AlertsOK(c)'
      BY <1>1, <1>2, <1>3, <3>14, AlertsStay
    <3>17. SaidFinished(c, s)'
      BY <1>1, <2>1, RecordsStay DEF SaidFinished
    <3>18. IsDone(c)'
      BY <3>9, <3>10, <3>15, <3>17 DEF IsDone, AwaitsFinished
    <3>. QED
      BY <1>6, <3>16, <3>18 DEF Kept, Phase
  <2>. QED
    BY <2>6, <2>7
<1>. QED
  BY <1>9, <1>10, <1>11 DEF AwaitsFlight, LostFlight

-----------------------------------------------------------------------------
(* The server that resumes.                                                *)

(* What the server goes by before it reads the client's answer, and after. *)
Awaiting(h) == [h EXCEPT !.ServerSequenceNumber = 0, !.ClientSequenceNumber = 0]
Answered(p) == [p EXCEPT !.HandshakeFinished = TRUE, !.ServerSequenceNumber = 1,
                         !.ClientSequenceNumber = 1]

(* The answer is agreed on. *)
AnswerIsAgreed(p, last, c, m) ==
    /\ Opens(p, last) /\ VerifyFinishedMessage(p, last.msg)
    /\ Answered(p).keys = Keys(m, c) /\ Numbers(Answered(p), 1, 1)

(* The client's finished message is the one that the server expects. *)
LEMMA AnswerVerifies ==
  ASSUME NEW c, NEW s, NEW m, NEW h, ResumesBy(h, c, s, m), NEW p, p = Awaiting(h),
         NEW got, got = AnswerRecords(c, s, m)
  PROVE  AnswerIsAgreed(p, got[2], c, m)
<1>1. got[2] = Under(Keys(m, c), "client", ClientResumes(c, s, m))
  BY DEF AnswerRecords
<1>2. /\ DOMAIN p = Fields /\ p.isHost = TRUE /\ p.ClientSequenceNumber = 0
      /\ p.master_secret = m /\ p.keys = Keys(m, c)
      /\ p.AllHandshakeMessages = ResumedByServer(c, s, m)
  BY DEF ResumesBy, IsParameters, Fields, Awaiting
<1>3. got[2].msg = ClientResumes(c, s, m)
  BY <1>1 DEF Under
<1>4. Opens(p, got[2])
  BY <1>1, <1>2 DEF Opens, Under
<1>5. VerifyFinishedMessage(p, got[2].msg)
  BY <1>2, <1>3 DEF VerifyFinishedMessage, VerifyData, ClientResumes
<1>6. Answered(p).keys = Keys(m, c) /\ Numbers(Answered(p), 1, 1)
  BY <1>2 DEF Numbers, Fields, Answered
<1>. QED
  BY <1>4, <1>5, <1>6 DEF AnswerIsAgreed

(* Reading what a resuming client answers. *)
LEMMA ReadResumedKeeps ==
  ASSUME TypeInv, NEW c \in Connections, OwnInv(c), Moves(c), ReadResumed(c)
  PROVE  Kept(c)
<1>. DEFINE q == toHost[c]
            got == Got(q, 2)
            p == Awaiting(host[c].p)
<1>1. /\ host[c].at = "resume" /\ CanRead(q, 2, c)
      /\ toHost' = [toHost EXCEPT ![c] = Rest(q, 2)]
      /\ UNCHANGED <<toClient, broken, alerted, client, CachedSessions>>
  BY DEF ReadResumed
<1>2. AlertsOK(c) /\ IsChannel(q) /\ IsChannel(toClient[c]) /\ FailureOK(c)
  BY DEF OwnInv, AlertsOK
<1>3. toHost'[c] = Rest(q, 2) /\ Carries(q, Rest(q, 2))
  BY <1>1, <1>2, ReadingCarries DEF TypeInv
<1>4. AlertsOK(c)'
  BY <1>1, <1>2, <1>3, AlertsStay DEF Carries
<1>5. Resumes(c)
  BY <1>1 DEF OwnInv, Phase, Starts, Exchanges, IsDone, HasResumed, IsOver
<1>6. ~ IsDone(c)
  BY <1>1 DEF IsDone
<1>7. FailureOK(c)'
  BY <1>1, <1>2 DEF FailureOK
<1>8. ASSUME Len(Content(q)) <= 2
      PROVE  /\ got = Content(q) /\ Content(Rest(q, 2)) = <<>>
             /\ Len(got) # 2 => c \in broken \cup alerted
  <2>1. /\ got = Content(q) /\ Content(Rest(q, 2)) = <<>>
        /\ Enough(q, 2) => (Len(Content(q)) = 2 \/ GivesUp(q))
    BY <1>2, <1>8, Reading
  <2>2. GivesUp(q) => c \in alerted
    BY <1>2 DEF AlertsOK, GivesUp, NoAlert, IsFatal
  <2>3. Len(got) # 2 => Len(Content(q)) # 2
    BY <2>1
  <2>. QED
    BY <1>1, <2>1, <2>2, <2>3 DEF CanRead
<1>9. Len(got) < 2 => HostIs(c, "error", host[c].p)
  BY DEF ReadResumed, Awaiting
<1>10. /\ Len(got) = 2 /\ ~ host[c].p.HandshakeFinished /\ Opens(p, got[2])
       /\ VerifyFinishedMessage(p, got[2].msg)
       => HostIs(c, "connected", Answered(p))
  BY DEF ReadResumed, Awaiting, Answered
<1>. HIDE DEF got, p
<1>11. ASSUME Len(got) < 2, c \in broken \cup alerted PROVE Kept(c)
  <2>1. host'[c].at = "error"
    BY <1>9, <1>11, HostEffect
  <2>2. IsOver(c)'
    BY <1>1, <1>11, <2>1 DEF IsOver
  <2>. QED
    BY <1>4, <1>6, <1>7, <2>2 DEF Kept, Phase
<1>12. PICK s \in Connections : \E m \in {client[s].p.master_secret} :
         /\ Session(c, s, m) /\ HostResumes(c, s, m)
         /\ AwaitsResumption(c, s, m) \/ HasAnswered(c, s, m)
  BY <1>5 DEF Resumes
<1>13. PICK m \in {client[s].p.master_secret} :
         /\ Session(c, s, m) /\ HostResumes(c, s, m)
         /\ AwaitsResumption(c, s, m) \/ HasAnswered(c, s, m)
  BY <1>12
<1>14. CASE AwaitsResumption(c, s, m)
  <2>1. Content(q) = <<>>
    BY <1>14 DEF AwaitsResumption
  <2>2. Len(Content(q)) = 0 /\ Len(Content(q)) <= 2
    BY <2>1
  <2>3. got = Content(q) /\ (Len(got) # 2 => c \in broken \cup alerted)
    BY <1>8, <2>2
  <2>4. Len(got) # 2 /\ Len(got) < 2
    BY <2>2, <2>3
  <2>. QED
    BY <1>11, <2>3, <2>4
<1>15. CASE HasAnswered(c, s, m)
  <2>1. /\ client[c].at = "connected" /\ client[c].offer # None
        /\ client[c].p.keys = Keys(m, c) /\ Numbers(client[c].p, 1, 1)
        /\ IsBeginning(q, AnswerRecords(c, s, m))
    BY <1>15 DEF HasAnswered, Delivered
  <2>2. IsSeq(AnswerRecords(c, s, m)) /\ Len(AnswerRecords(c, s, m)) = 2
    BY OtherRecords
  <2>3. /\ Len(Content(q)) \in 0..2
        /\ Len(Content(q)) = 2 => Content(q) = AnswerRecords(c, s, m)
    <3>1. PICK rs : rs = AnswerRecords(c, s, m)
      OBVIOUS
    <3>2. IsSeq(rs) /\ Len(rs) = 2 /\ IsBeginning(q, rs)
      BY <2>1, <2>2, <3>1
    <3>3. Len(Content(q)) \in 0..Len(rs) /\ (Len(Content(q)) = Len(rs) => Content(q) = rs)
      BY <3>2, BeginningOf
    <3>. QED
      BY <3>1, <3>2, <3>3
  <2>4. Len(Content(q)) <= 2 /\ (Len(Content(q)) # 2 => Len(Content(q)) < 2)
    <3>1. \A l \in 0..2 : l <= 2 /\ (l # 2 => l < 2)
      OBVIOUS
    <3>. QED
      BY <2>3, <3>1
  <2>5. got = Content(q) /\ (Len(got) # 2 => c \in broken \cup alerted)
    BY <1>8, <2>4
  <2>6. CASE Len(got) # 2
    <3>1. Len(got) < 2
      BY <2>4, <2>5, <2>6
    <3>. QED
      BY <1>11, <2>5, <2>6, <3>1
  <2>7. CASE Len(got) = 2
    <3>1. got = AnswerRecords(c, s, m)
      BY <2>3, <2>5, <2>7
    <3>2. ResumesBy(host[c].p, c, s, m)
      BY <1>13 DEF HostResumes, ResumesBy
    <3>3. AnswerIsAgreed(p, got[2], c, m)
      BY <3>1, <3>2, AnswerVerifies DEF p
    <3>4. HostIs(c, "connected", Answered(p))
      BY <1>10, <2>7, <3>2, <3>3 DEF ResumesBy, AnswerIsAgreed
    <3>5. host'[c].at = "connected" /\ host'[c].p = Answered(p)
      BY <3>4, HostEffect
    <3>6. SameKeys(c)'
      BY <1>1, <2>1, <3>3, <3>5 DEF SameKeys, Numbers, AnswerIsAgreed
    <3>7. HasResumed(c)'
      BY <1>1, <2>1, <3>5, <3>6 DEF HasResumed
    <3>. QED
      BY <1>4, <1>6, <1>7, <3>7 DEF Kept, Phase
  <2>. QED
    BY <2>6, <2>7
<1>. QED
  BY <1>13, <1>14, <1>15

-----------------------------------------------------------------------------
(* All connections, and the cache.                                         *)

(* Each step keeps what is known of its own connection. *)
LEMMA OwnIsKept ==
  ASSUME HandshakeInv, NEW c \in Connections, Moves(c),
         ClientStep(c) \/ HostStep(c) \/ Alerts(c) \/ Break(c)
  PROVE  Kept(c)
<1>1. TypeInv /\ CacheOK /\ OwnInv(c)
  BY DEF HandshakeInv, OwnInv
<1>2. CASE SendClientHello(c) \/ BrowserHello(c)
  BY <1>1, <1>2, HelloKeeps
<1>3. CASE ReadServerHello(c)
  BY <1>1, <1>3, ReadServerHelloKeeps
<1>4. CASE ReadFinished(c)
  BY <1>1, <1>4, ReadFinishedKeeps
<1>5. CASE BrowserReads(c)
  BY <1>1, <1>5, BrowserReadsKeeps
<1>6. CASE ReadClientHello(c)
  BY <1>1, <1>6, ReadClientHelloKeeps
<1>7. CASE ReadKeyExchange(c)
  BY <1>1, <1>7, ReadKeyExchangeKeeps
<1>8. CASE CacheSession(c)
  BY <1>1, <1>8, CacheSessionKeeps
<1>9. CASE ReadResumed(c)
  BY <1>1, <1>9, ReadResumedKeeps
<1>10. CASE Alerts(c)
  BY <1>1, <1>10, AlertsKeep
<1>11. CASE Break(c)
  BY <1>1, <1>11, BreakKeeps
<1>. QED
  BY <1>2, <1>3, <1>4, <1>5, <1>6, <1>7, <1>8, <1>9, <1>10, <1>11 DEF ClientStep, HostStep

(* Only CacheSession writes to the cache, and a server that is connected     *)
(* has ended.                                                              *)
LEMMA OtherStepsLeaveTheCache ==
  ASSUME NEW c, ClientStep(c) \/ HostStep(c) \/ Alerts(c) \/ Break(c), ~ CacheSession(c)
  PROVE  /\ CachedSessions' = CachedSessions
         /\ host[c].at = "connected" => host' = host
<1>1. CASE ClientStep(c)
  BY <1>1 DEF ClientStep, SendClientHello, ReadServerHello, ReadFinished, BrowserHello,
     BrowserReads
<1>2. CASE HostStep(c)
  BY <1>2 DEF HostStep, ReadClientHello, ReadKeyExchange, ReadResumed
<1>3. CASE Alerts(c)
  BY <1>3 DEF Alerts
<1>4. CASE Break(c)
  BY <1>4 DEF Break
<1>. QED
  BY <1>1, <1>2, <1>3, <1>4

(* Each step keeps the invariant. *)
LEMMA StepKeepsInvariant ==
  ASSUME HandshakeInv, NEW c \in Connections, role' = role,
         ClientStep(c) \/ HostStep(c) \/ Alerts(c) \/ Break(c)
  PROVE  HandshakeInv'
<1>1. TypeInv /\ CacheOK /\ OwnInv(c)
  BY DEF HandshakeInv, OwnInv
<1>2. Moves(c)
  BY <1>1, StepsAreLocal
<1>3. \A d \in Connections : Kept(d)
  <2>1. Kept(c)
    BY <1>2, OwnIsKept
  <2>2. ASSUME NEW d \in Connections, d # c PROVE Kept(d)
    BY <1>2, <2>2, OthersAreKept DEF HandshakeInv
  <2>. QED
    BY <2>1, <2>2
<1>4. TypeInv' /\ \A d \in Connections : AlertsOK(d)' /\ Phase(d)' /\ FailureOK(d)'
  BY <1>2, <1>3 DEF Moves, Kept
<1>5. \A d \in Connections : IsDone(d) => IsDone(d)'
  BY <1>3 DEF Kept
<1>6. \A d \in Connections : d # c => host'[d] = host[d]
  BY <1>2 DEF Moves, Elsewhere
<1>7. CacheOK'
  <2>1. /\ DOMAIN CachedSessions \subseteq Connections
        /\ \A s \in DOMAIN CachedSessions :
              host[s].at = "connected" /\ IsDone(s) /\ CachedSessions[s] = host[s].p
    BY <1>1 DEF CacheOK
  <2>2. CASE CacheSession(c)
    <3>1. IsDone(c)' /\ host'[c].at = "connected" /\ host'[c].p = host[c].p
      BY <1>1, <1>2, <2>2, CacheSessionKeeps
    <3>2. CachedSessions' = [s \in DOMAIN CachedSessions \cup {c} |->
                               IF s = c THEN host[c].p ELSE CachedSessions[s]]
      BY <2>2 DEF CacheSession
    <3>3. DOMAIN CachedSessions' = DOMAIN CachedSessions \cup {c}
      BY <3>2
    <3>4. ASSUME NEW s \in DOMAIN CachedSessions'
          PROVE  host'[s].at = "connected" /\ IsDone(s)' /\ CachedSessions'[s] = host'[s].p
      <4>1. CASE s = c
        BY <3>1, <3>2, <3>3, <4>1
      <4>2. CASE s # c
        <5>1. s \in DOMAIN CachedSessions /\ s \in Connections
          BY <2>1, <3>3, <3>4, <4>2
        <5>2. CachedSessions'[s] = CachedSessions[s]
          BY <3>2, <4>2, <5>1
        <5>. QED
          BY <1>5, <1>6, <2>1, <4>2, <5>1, <5>2
      <4>. QED
        BY <4>1, <4>2
    <3>. QED
      BY <2>1, <3>3, <3>4 DEF CacheOK
  <2>3. CASE ~ CacheSession(c)
    <3>1. CachedSessions' = CachedSessions /\ (host[c].at = "connected" => host' = host)
      BY <2>3, OtherStepsLeaveTheCache
    <3>2. ASSUME NEW s \in DOMAIN CachedSessions
          PROVE  host'[s] = host[s] /\ IsDone(s)'
      BY <1>5, <1>6, <2>1, <3>1, <3>2
    <3>. QED
      BY <2>1, <3>1, <3>2 DEF CacheOK
  <2>. QED
    BY <2>2, <2>3
<1>. QED
  BY <1>4, <1>7 DEF HandshakeInv

(* Nothing happens. *)
LEMMA StutteringKeepsInvariant ==
  ASSUME HandshakeInv, UNCHANGED vars
  PROVE  HandshakeInv'
<1>1. /\ role' = role /\ toHost' = toHost /\ toClient' = toClient /\ broken' = broken
      /\ alerted' = alerted /\ client' = client /\ host' = host
      /\ CachedSessions' = CachedSessions
  BY DEF vars
<1>2. TypeInv'
  BY <1>1 DEF HandshakeInv, TypeInv
<1>3. ASSUME NEW d \in Connections
      PROVE  AlertsOK(d)' /\ Phase(d)' /\ FailureOK(d)' /\ (IsDone(d) => IsDone(d)')
  <2>1. Moves(d)
    BY <1>1, <1>2 DEF Moves, Elsewhere, ClientsStay
  <2>2. AlertsOK(d) /\ Phase(d) /\ FailureOK(d)
    BY DEF HandshakeInv
  <2>3. AlertsOK(d)'
    BY <1>1, <2>2 DEF AlertsOK, Ours
  <2>4. ChannelsStay(d)
    BY <1>1 DEF ChannelsStay, Delivered
  <2>. QED
    BY <1>1, <2>1, <2>2, <2>3, <2>4, PhasesStay
<1>4. CacheOK'
  BY <1>1, <1>3 DEF HandshakeInv, CacheOK
<1>. QED
  BY <1>2, <1>3, <1>4 DEF HandshakeInv

(* The first state: nothing has been said, and the cache is empty. *)
LEMMA InitHasInvariant ==
  ASSUME Init
  PROVE  HandshakeInv
<1>1. IsSeq(<<>>) /\ NoAlert(<<>>)
  BY FewRecords
<1>2. IsChannel(<<>>) /\ Content(<<>>) = <<>> /\ ~ GivesUp(<<>>)
  BY <1>1, ContentWithout DEF IsChannel, OneAlert, FatalLast, NoAlert, GivesUp, IsFatal
<1>3. TypeInv
  BY DEF Init, TypeInv
<1>4. CacheOK
  BY DEF Init, CacheOK
<1>5. ASSUME NEW c \in Connections
      PROVE  AlertsOK(c) /\ Phase(c) /\ FailureOK(c)
  <2>1. /\ toHost[c] = <<>> /\ toClient[c] = <<>>
        /\ client[c].at = "start" /\ client[c].p = FreshParameters(FALSE)
        /\ client[c].offer = None
        /\ host[c].at = "start" /\ host[c].p = FreshParameters(TRUE)
    BY DEF Init
  <2>2. AlertsOK(c)
    BY <1>1, <1>2, <2>1 DEF AlertsOK
  <2>3. Starts(c)
    BY <1>2, <2>1 DEF Starts, Silent
  <2>4. FailureOK(c)
    BY <2>1 DEF FailureOK
  <2>. QED
    BY <2>2, <2>3, <2>4 DEF Phase
<1>. QED
  BY <1>3, <1>4, <1>5 DEF HandshakeInv

-----------------------------------------------------------------------------
(* What it means.                                                          *)

(* The phases of a connection and the contents of its channels are as       *)
(* HandshakeInv says, however many connections there are and whatever      *)
(* breaks or is given up.                                                  *)
THEOREM HandshakeInvariant == Spec => []HandshakeInv
<1>1. Init => HandshakeInv
  BY InitHasInvariant
<1>2. HandshakeInv /\ [Next]_vars => HandshakeInv'
  <2>1. ASSUME HandshakeInv, Next PROVE HandshakeInv'
    BY <2>1, StepKeepsInvariant DEF Next
  <2>. QED
    BY <2>1, StutteringKeepsInvariant
<1>. QED
  BY <1>1, <1>2, PTL DEF Spec

(* Client and server of a connection agree on its keys and on the numbers  *)
(* of their records once both are through, a client is never ahead of the  *)
(* server it talks to, and neither fails unless the connection breaks or    *)
(* is given up.                                                            *)
THEOREM SidesAgree == Spec => []Agreement
<1>1. HandshakeInv => Agreement
  <2>1. SUFFICES ASSUME HandshakeInv, NEW c \in Connections
                 PROVE  /\ client[c].at = "connected" /\ host[c].at \in {"cache", "connected"}
                              => SameKeys(c)
                        /\ client[c].at = "connected"
                              => host[c].at \notin {"start", "keys", "aborted"}
                        /\ c \notin broken \cup alerted => ~Failed(c)
    BY DEF Agreement
  <2>2. Phase(c) /\ FailureOK(c)
    BY <2>1 DEF HandshakeInv
  <2>3. ASSUME client[c].at = "connected", host[c].at \in {"cache", "connected"}
        PROVE  SameKeys(c)
    <3>1. IsDone(c) \/ HasResumed(c)
      BY <2>2, <2>3 DEF Phase, Starts, Exchanges, Resumes, IsOver
    <3>2. CASE IsDone(c)
      <4>1. PICK s \in Connections \cup {None} : SaidFinished(c, s)
        BY <3>2 DEF IsDone, AwaitsFinished
      <4>. QED
        BY <2>3, <3>2, <4>1 DEF IsDone, HostHasFinished, SaidFinished, Numbers, SameKeys
    <3>. QED
      BY <3>1, <3>2 DEF HasResumed
  <2>4. ASSUME client[c].at = "connected"
        PROVE  host[c].at \notin {"start", "keys", "aborted"}
    BY <2>2, <2>4 DEF Phase, Starts, Silent, Greets, SaidHello, Exchanges, AwaitsFlight,
       HasExchanged, LostFlight, SaidNothing, IsDone, Resumes, HasResumed, IsOver
  <2>5. ASSUME c \notin broken \cup alerted
        PROVE  ~ Failed(c)
    <3>1. client[c].at \notin {"error", "aborted", "undefined"}
      BY <2>2, <2>5 DEF FailureOK
    <3>2. host[c].at \notin {"error", "aborted", "undefined"}
      BY <2>2, <2>5 DEF Phase, Starts, Exchanges, IsDone, Resumes, HasResumed, IsOver
    <3>. QED
      BY <3>1, <3>2 DEF Failed
  <2>. QED
    BY <2>3, <2>4, <2>5
<1>. QED
  BY <1>1, HandshakeInvariant, PTL

(* A session is put in the cache only after its own handshake has ended,   *)
(* with the master secret that its client holds.                           *)
THEOREM CachedSessionsAreFinished == Spec => []CachedIsFinished
<1>1. HandshakeInv => CachedIsFinished
  <2>1. SUFFICES ASSUME HandshakeInv, NEW d \in DOMAIN CachedSessions
                 PROVE  /\ CachedSessions[d].HandshakeFinished /\ CachedSessions[d].isHost
                        /\ client[d].p.master_secret = CachedSessions[d].master_secret
    BY DEF CachedIsFinished
  <2>2. IsDone(d) /\ CachedSessions[d] = host[d].p
    BY <2>1 DEF HandshakeInv, CacheOK
  <2>3. PICK s \in Connections \cup {None} : SaidFinished(d, s)
    BY <2>2 DEF IsDone, AwaitsFinished
  <2>. QED
    BY <2>2, <2>3 DEF IsDone, HostHasFinished, SaidFinished, IsParameters
<1>. QED
  BY <1>1, HandshakeInvariant, PTL

=============================================================================
