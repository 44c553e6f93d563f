------------------------------- MODULE MbTcp --------------------------------
(***************************************************************************)
(* The reliable transfer of the chat (MrBoboChatt/MBChatConnection.cpp):   *)
(* one side calls SendData for a list of strings, the other calls GetData  *)
(* in a loop, and the records travel as UDP datagrams, which may be lost,  *)
(* duplicated, overtaken or late.                                          *)
(*                                                                         *)
(* A record is what its bytes say, and each call interprets the bytes as   *)
(* the record it expects.  The fields of the three layouts of              *)
(* MBCProtocols.cpp do not line up, so a record taken for another kind is  *)
(* modelled by what its bytes give under the other layout.  Left out: the  *)
(* record numbers, which nobody reads, the NAT-break datagrams, which the  *)
(* listener drops, the RequestResponse record, which nobody sends, and the *)
(* encryption of the whole string before it is cut up.                     *)
(* An operator whose name ends in an underscore and a word is the one      *)
(* after it with a plausible mistake; it shows what a property notices.    *)
(***************************************************************************)
EXTENDS Naturals, Integers, Sequences, FiniteSets, SequencesExt

CONSTANTS
    Length,            \* Length[t]: the bytes of the t-th string sent
    MaxSendLength,     \* bytes of a data record: 492
    CheckInterval,     \* records of a batch: 100
    MaxTimeouts,       \* MessagesBeforeDisconnection: 10
    GarbledIntervals,  \* what the third byte of a payload may be
    Prompt,            \* TRUE: no datagram is later than a timeout
    Reorders,          \* TRUE: datagrams may overtake each other
    Losable,           \* the classes of datagram the network may lose
    Duplicable,        \* and those it may deliver twice
    MaxFaults,         \* bound: how often it does either
    NetCapacity,       \* bound: datagrams in flight in one direction
    QueueLimit,        \* bound: records waiting in one of the queues
    MaxStrings         \* bound: strings GetData returns before it stops

ASSUME SizesAreGiven ==
    /\ \A t \in DOMAIN Length : Length[t] \in Nat \ {0}
    /\ {MaxSendLength, CheckInterval, MaxTimeouts} \subseteq Nat \ {0}
    /\ GarbledIntervals \subseteq Nat
    /\ NetCapacity \in Nat

VARIABLES sender, results, toReceiver, toSender,
          sendQueue, responseQueue, receiver, got, faults

senderVars   == <<sender, results>>
receiverVars == <<receiver, got>>
vars == <<senderVars, receiverVars, toReceiver, toSender, sendQueue,
          responseQueue, faults>>

-----------------------------------------------------------------------------
(* The strings, cut into records.                                          *)

Lesser(a, b) == IF a < b THEN a ELSE b

Transfers == DOMAIN Length
Data(t) == [i \in 1..Length[t] |-> <<t, i>>]

NumberOfMessages(t) == (Length[t] + MaxSendLength - 1) \div MaxSendLength
Interval(t) == Lesser(CheckInterval, NumberOfMessages(t))

(* The i-th record of a batch, from 0.  The batch counts as bytes. *)
Partitioned(t, batch, i) ==
    LET first == i * MaxSendLength + batch * Interval(t)
    IN  SubSeq(Data(t), first + 1, Lesser(first + MaxSendLength, Length[t]))

(* What PartitionedMessageData[-1] may hold. *)
Garbage == << <<0, 0>> >>

Initiate(t) == [kind |-> "initiate", id |-> t, number |-> NumberOfMessages(t),
                interval |-> Interval(t), total |-> Length[t]]
DataRecord(t, n, data) ==
    [kind |-> "data", id |-> t, number |-> n, data |-> data]
Verification(t, resend) ==
    [kind |-> "verification", id |-> t, resend |-> resend]

(* A record taken for an initiate, as GetData takes its first one.  The    *)
(* interval is then a byte of the payload.                                 *)
AsInitiate(m) ==
    IF m.kind = "initiate" THEN {[m EXCEPT !.kind = "response"]}
    ELSE {[kind |-> "response", id |-> m.id, number |-> m.number,
           interval |-> g, total |-> 0] : g \in GarbledIntervals}

(* A record taken for data: an initiate's NumberOfMessages lies where the  *)
(* number of the record is, and half of its length where the size is.      *)
AsData(m) == IF m.kind = "data" THEN m ELSE DataRecord(m.id, m.number, <<>>)

-----------------------------------------------------------------------------
(* The network.                                                            *)

Transmit(channel, records) ==
    LET all == channel \o records
    IN  SubSeq(all, 1, Lesser(Len(all), NetCapacity))

(* The class of a datagram; "last" is the last record of a batch. *)
Class(m) == IF m.kind # "data" THEN m.kind
            ELSE IF m.number % Interval(m.id) = 0 THEN "last" ELSE "data"

Arrivals(channel) == {i \in DOMAIN channel : Reorders \/ i = 1}

Lose(channel, i) == /\ Class(channel[i]) \in Losable
                    /\ channel' = RemoveAt(channel, i)
Duplicate(channel, i) == /\ Class(channel[i]) \in Duplicable
                         /\ Len(channel) < NetCapacity
                         /\ channel' = InsertAt(channel, i, channel[i])

Fault ==
    /\ faults < MaxFaults
    /\ faults' = faults + 1
    /\ \/ /\ \E i \in DOMAIN toReceiver :
                Lose(toReceiver, i) \/ Duplicate(toReceiver, i)
          /\ UNCHANGED toSender
       \/ /\ \E i \in DOMAIN toSender :
                Lose(toSender, i) \/ Duplicate(toSender, i)
          /\ UNCHANGED toReceiver
    /\ UNCHANGED <<senderVars, receiverVars, sendQueue, responseQueue>>

(* The receiving side's listener thread queues what is sent to it. *)
ListenSend ==
    /\ Len(sendQueue) < QueueLimit
    /\ \E i \in Arrivals(toReceiver) :
          /\ sendQueue' = Append(sendQueue, toReceiver[i])
          /\ toReceiver' = RemoveAt(toReceiver, i)
    /\ UNCHANGED <<senderVars, receiverVars, toSender, responseQueue, faults>>

(* The sending side's listener thread queues the responses. *)
ListenRespond ==
    /\ Len(responseQueue) < QueueLimit
    /\ \E i \in Arrivals(toSender) :
          /\ responseQueue' = Append(responseQueue, toSender[i])
          /\ toSender' = RemoveAt(toSender, i)
    /\ UNCHANGED <<senderVars, receiverVars, toReceiver, sendQueue, faults>>

-----------------------------------------------------------------------------
(* SendData.                                                               *)

Idle(t) == [pc |-> "idle", t |-> t, tries |-> 0, batch |-> 0]

Init == /\ sender = Idle(1)
        /\ results = <<>>
        /\ toReceiver = <<>> /\ toSender = <<>>
        /\ sendQueue = <<>> /\ responseQueue = <<>>
        /\ receiver = [pc |-> "first", tries |-> 0]
        /\ got = <<>>
        /\ faults = 0

SendReturns(result) == /\ results' = Append(results, result)
                       /\ sender' = Idle(sender.t + 1)

TakesResponse == /\ responseQueue # <<>>
                 /\ responseQueue' = Tail(responseQueue)

SendInitiate ==
    /\ sender.pc = "idle" /\ sender.t \in Transfers
    /\ toReceiver' = Transmit(toReceiver, <<Initiate(sender.t)>>)
    /\ sender' = [sender EXCEPT !.pc = "initiating"]
    /\ UNCHANGED <<results, receiverVars, toSender, sendQueue, responseQueue,
                   faults>>

(* No response within a second: initiate again, or give up. *)
InitiateTimeout ==
    /\ sender.pc = "initiating" /\ responseQueue = <<>>
    /\ IF sender.tries < MaxTimeouts
       THEN /\ toReceiver' = Transmit(toReceiver, <<Initiate(sender.t)>>)
            /\ sender' = [sender EXCEPT !.tries = @ + 1]
            /\ UNCHANGED results
       ELSE SendReturns("no response") /\ UNCHANGED toReceiver

(* Whatever comes is taken for the response, and must repeat the initiate. *)
ParametersMatch(m, t) == m = [Initiate(t) EXCEPT !.kind = "response"]

InitiateResponse ==
    /\ sender.pc = "initiating"
    /\ TakesResponse
    /\ IF ParametersMatch(Head(responseQueue), sender.t)
       THEN sender' = [sender EXCEPT !.pc = "sending"] /\ UNCHANGED results
       ELSE SendReturns("error in response")
    /\ UNCHANGED <<receiverVars, toReceiver, toSender, sendQueue, faults>>

(* All records of a batch; past the end of the string they are empty. *)
SendBatch ==
    /\ sender.pc = "sending"
    /\ LET t == sender.t IN
       toReceiver' = Transmit(toReceiver,
           [i \in 1..Interval(t) |->
               DataRecord(t, i + sender.batch * Interval(t),
                          Partitioned(t, sender.batch, i - 1))])
    /\ sender' = [sender EXCEPT !.pc = "verifying", !.tries = 0]
    /\ UNCHANGED <<results, receiverVars, toSender, sendQueue, responseQueue,
                   faults>>

(* The batch is over, verified or given up: both count as sent. *)
EndBatch ==
    LET sent == sender.batch + 1 IN
    IF sent * Interval(sender.t) >= NumberOfMessages(sender.t)
    THEN SendReturns("ok")
    ELSE /\ sender' = [sender EXCEPT !.pc = "sending", !.batch = sent]
         /\ UNCHANGED results

VerifyTimeout_Hasty ==
    /\ sender.pc = "verifying" /\ responseQueue = <<>>
    /\ EndBatch
    /\ UNCHANGED toReceiver
VerifyTimeout ==
    /\ sender.pc = "verifying" /\ responseQueue = <<>>
    /\ IF sender.tries < MaxTimeouts
       THEN sender' = [sender EXCEPT !.tries = @ + 1] /\ UNCHANGED results
       ELSE EndBatch
    /\ UNCHANGED toReceiver

(* A verification of this transfer.  An initiate's response has the first  *)
(* byte of its id where a verification has its error, and other bytes in   *)
(* place of the id: it is skipped, as is an older transfer's verification. *)
Verifies(m) == m.kind = "verification" /\ m.id = sender.t

(* The record a resend puts on the wire under the number n.  Its place in  *)
(* the batch is n modulo the interval, less one: -1 for the last.          *)
Resent(t, batch, n) ==
    LET index == (n % Interval(t)) - 1
    IN  DataRecord(t, n, IF index < 0 THEN Garbage
                         ELSE Partitioned(t, batch, index))

VerifySkip ==
    /\ sender.pc = "verifying"
    /\ TakesResponse
    /\ ~ Verifies(Head(responseQueue))
    /\ UNCHANGED <<senderVars, receiverVars, toReceiver, toSender, sendQueue,
                   faults>>

VerifyDone ==
    /\ sender.pc = "verifying"
    /\ TakesResponse
    /\ Verifies(Head(responseQueue)) /\ Head(responseQueue).resend = <<>>
    /\ EndBatch
    /\ UNCHANGED <<receiverVars, toReceiver, toSender, sendQueue, faults>>

(* Resends what is missing; an element before the vector may be no string. *)
VerifyResend ==
    /\ sender.pc = "verifying"
    /\ TakesResponse
    /\ Verifies(Head(responseQueue))
    /\ LET t == sender.t
           resend == Head(responseQueue).resend
       IN  /\ resend # <<>>
           /\ \/ /\ toReceiver' = Transmit(toReceiver,
                       [i \in DOMAIN resend |->
                           Resent(t, sender.batch, resend[i])])
                 /\ UNCHANGED sender
              \/ /\ \E i \in DOMAIN resend : resend[i] % Interval(t) = 0
                 /\ sender' = [sender EXCEPT !.pc = "crashed"]
                 /\ UNCHANGED toReceiver
    /\ UNCHANGED <<results, receiverVars, toSender, sendQueue, faults>>

-----------------------------------------------------------------------------
(* GetData, called again as soon as it has returned.                       *)

Listening == [pc |-> "first", tries |-> 0]

GetReturns(string) ==
    /\ got' = IF string = <<>> THEN got ELSE Append(got, string)
    /\ receiver' = Listening

TakesSend == /\ sendQueue # <<>>
             /\ sendQueue' = Tail(sendQueue)

FirstTimeout ==
    /\ receiver.pc = "first" /\ sendQueue = <<>>
    /\ receiver' = IF receiver.tries < MaxTimeouts
                   THEN [receiver EXCEPT !.tries = @ + 1] ELSE Listening
    /\ UNCHANGED <<got, toSender>>

(* The first record, whatever it is, starts a transfer. *)
FirstRecord ==
    /\ receiver.pc = "first" /\ Len(got) < MaxStrings
    /\ TakesSend
    /\ \E response \in AsInitiate(Head(sendQueue)) :
          /\ receiver' = [pc |-> "answered", tries |-> 0,
                          response |-> response]
          /\ toSender' = Transmit(toSender, <<response>>)
    /\ UNCHANGED <<senderVars, got, toReceiver, responseQueue, faults>>

AnsweredTimeout ==
    /\ receiver.pc = "answered" /\ sendQueue = <<>>
    /\ toSender' = Transmit(toSender, <<receiver.response>>)
    /\ IF receiver.tries < MaxTimeouts
       THEN receiver' = [receiver EXCEPT !.tries = @ + 1] /\ UNCHANGED got
       ELSE GetReturns(<<>>)

(* The records of a batch with one more, under its number. *)
With(records, m) ==
    [n \in {m.number} \cup DOMAIN records |->
        IF n = m.number THEN m.data ELSE records[n]]

(* The first batch begins with the first record of data. *)
Collecting(response, m) ==
    [pc |-> "collecting", response |-> response, done |-> 0, count |-> 1,
     records |-> With(<<>>, m), built |-> <<>>]

AnsweredRecord ==
    /\ receiver.pc = "answered"
    /\ TakesSend
    /\ LET m == Head(sendQueue) IN
       IF m.kind = "initiate"
       THEN /\ toSender' = Transmit(toSender, <<receiver.response>>)
            /\ UNCHANGED receiver
       ELSE /\ receiver' = Collecting(receiver.response, m)
            /\ UNCHANGED toSender
    /\ UNCHANGED <<senderVars, got, toReceiver, responseQueue, faults>>

ExpectedMessages ==
    LET rest == receiver.response.number
                  - receiver.done * receiver.response.interval
    IN  IF rest < 0 THEN 1 ELSE Lesser(rest, receiver.response.interval)

(* The numbers of the batch that is being collected. *)
Batch == [i \in 1..ExpectedMessages |->
             i + receiver.done * receiver.response.interval]
BatchIsIn == receiver.count >= ExpectedMessages

(* Those of them that are not there, in their order. *)
Lacking == {n \in {Batch[i] : i \in DOMAIN Batch} : n \notin DOMAIN receiver.records}
Missing == [i \in 1..Cardinality(Lacking) |->
              CHOOSE n \in Lacking : Cardinality({m \in Lacking : m < n}) = i - 1]

(* Nothing for a second: ask for what is missing.  No bound on how often. *)
CollectTimeout ==
    /\ receiver.pc = "collecting" /\ ~ BatchIsIn /\ sendQueue = <<>>
    /\ toSender' = Transmit(toSender,
                            <<Verification(receiver.response.id, Missing)>>)
    /\ UNCHANGED receiverVars

(* A record with a new number is kept, whichever batch it belongs to. *)
Kept_Uncounted(r, m) ==
    IF m.number \in DOMAIN r.records THEN r
    ELSE [r EXCEPT !.records = With(@, m)]
Kept(r, m) ==
    IF m.number \in DOMAIN r.records THEN r
    ELSE [r EXCEPT !.records = With(@, m), !.count = @ + 1]

CollectRecord ==
    /\ receiver.pc = "collecting" /\ ~ BatchIsIn
    /\ TakesSend
    /\ receiver' = Kept(receiver, AsData(Head(sendQueue)))
    /\ UNCHANGED <<senderVars, got, toReceiver, toSender, responseQueue,
                   faults>>

(* Reading a number that is not in the map gives the empty string. *)
Joined == FlattenSeq([i \in DOMAIN Batch |->
              IF Batch[i] \in DOMAIN receiver.records
              THEN receiver.records[Batch[i]] ELSE <<>>])

(* With an interval of 0 the loop never ends, and the batches that it
   counts make no difference: done stays. *)
CollectBatch ==
    /\ receiver.pc = "collecting" /\ BatchIsIn
    /\ toSender' = Transmit(toSender,
                            <<Verification(receiver.response.id, <<>>)>>)
    /\ LET built == receiver.built \o Joined
           first == receiver.response
           done  == receiver.done + Lesser(first.interval, 1)
       IN  IF done * first.interval >= first.number THEN GetReturns(built)
           ELSE /\ receiver' = [receiver EXCEPT !.built = built, !.done = done,
                                   !.count = 0, !.records = <<>>]
                /\ UNCHANGED got
    /\ UNCHANGED <<senderVars, toReceiver, sendQueue, responseQueue, faults>>

-----------------------------------------------------------------------------
(* Both sides at once.                                                     *)

SenderStep == \/ SendInitiate \/ InitiateResponse \/ SendBatch
              \/ VerifySkip \/ VerifyDone \/ VerifyResend
ReceiverStep == \/ FirstRecord \/ AnsweredRecord
                \/ CollectRecord \/ CollectBatch

SenderTimeout == InitiateTimeout \/ VerifyTimeout
ReceiverTimeout == FirstTimeout \/ AnsweredTimeout \/ CollectTimeout

(* Late datagrams: a side may time out while its answer is on the way. *)
EarlyTimeout ==
    /\ ~ Prompt
    /\ \/ SenderTimeout /\ UNCHANGED <<receiverVars, toSender>>
       \/ ReceiverTimeout /\ UNCHANGED <<senderVars, toReceiver>>
    /\ UNCHANGED <<sendQueue, responseQueue, faults>>

(* Prompt datagrams: a second passes only when none is on the way, and     *)
(* whoever waits for one times out within it.                              *)
NothingOnTheWay == /\ toReceiver = <<>> /\ sendQueue = <<>>
                   /\ toSender = <<>> /\ responseQueue = <<>>
QuietSecond ==
    /\ Prompt
    /\ NothingOnTheWay
    /\ \/ SenderTimeout
       \/ sender.pc \in {"idle", "crashed"} /\ UNCHANGED <<senderVars, toReceiver>>
    /\ ReceiverTimeout
    /\ UNCHANGED <<sendQueue, responseQueue, faults>>

Next == \/ SenderStep \/ ReceiverStep \/ ListenSend \/ ListenRespond
        \/ EarlyTimeout \/ QuietSecond \/ Fault

Spec == Init /\ [][Next]_vars

(* Threads run, datagrams that are not lost arrive, and time passes. *)
FairSpec == /\ Spec
            /\ WF_vars(SenderStep) /\ WF_vars(ReceiverStep)
            /\ WF_vars(ListenSend) /\ WF_vars(ListenRespond)
            /\ WF_vars(QuietSecond)

-----------------------------------------------------------------------------
(* Properties.                                                             *)

(* GetData that asks for records asks for at least one, whatever arrived: *)
(* the sender takes an empty list for the whole batch having arrived.     *)
AskingMeansMissing ==
    receiver.pc = "collecting" /\ ~ BatchIsIn =>
        \E i \in DOMAIN Batch : Batch[i] \notin DOMAIN receiver.records

(* Its inductive strengthening.  What travels, by where it is made: the    *)
(* data of a record is a piece of a string, and any record may become the  *)
(* response to it.                                                         *)
Payloads == {Partitioned(t, b, i) : t \in Transfers, b \in Int, i \in Int}
              \cup {Garbage, <<>>}
Records == {Initiate(t) : t \in Transfers}
             \cup {DataRecord(t, n, data) : t \in Transfers, n \in Int, data \in Payloads}
Responses == [kind : {"response"}, id : Transfers, number : Int, interval : Nat,
              total : Nat]
Verifications == {Verification(t, resend) : t \in Transfers, resend \in Seq(Int)}
ChannelsOK ==
    /\ toReceiver \in Seq(Records) /\ sendQueue \in Seq(Records)
    /\ toSender \in Seq(Responses \cup Verifications)
    /\ responseQueue \in Seq(Responses \cup Verifications)

SenderOK ==
    /\ sender \in [pc : {"idle", "initiating", "sending", "verifying", "crashed"},
                   t : Nat, tries : Nat, batch : Nat]
    /\ sender.pc # "idle" => sender.t \in Transfers

(* The receiver counts the records it keeps, each of another number. *)
Listens(r) == r \in [pc : {"first"}, tries : Nat]
Answered(r) == r \in [pc : {"answered"}, tries : Nat, response : Responses]
Collects(r) ==
    /\ DOMAIN r = {"pc", "response", "done", "count", "records", "built"}
    /\ r.pc = "collecting" /\ r.response \in Responses
    /\ r.done \in Nat /\ r.count \in Nat
    /\ IsFiniteSet(DOMAIN r.records)
    /\ Cardinality(DOMAIN r.records) <= r.count

ReceiverOK == Listens(receiver) \/ Answered(receiver) \/ Collects(receiver)

AskInv == ChannelsOK /\ SenderOK /\ ReceiverOK

(* The number of a string that was sent, 0 for any other. *)
Number(string) == IF \E t \in Transfers : string = Data(t)
                  THEN CHOOSE t \in Transfers : string = Data(t) ELSE 0

(* The promise, with the strings returned known by their numbers. *)
Service == INSTANCE MessageService WITH
    Messages  <- Len(Length),
    confirmed <- Cardinality({t \in DOMAIN results : results[t] = "ok"}),
    delivered <- [i \in DOMAIN got |-> Number(got[i])]

(* SendData and GetData keep the promise of a message service, for strings *)
(* of one batch, on a network that delays no datagram beyond a timeout,    *)
(* loses any but the last record of a batch, repeats initiates and their   *)
(* responses only, and fails no more often than a side may time out: what  *)
(* PromptBatches says below.  It is not kept without.                      *)
KeepsService == Service!Spec
-----------------------------------------------------------------------------
(* Why the promise is kept.                                                *)

(* What it takes: datagrams are prompt and in order, every string fits in  *)
(* one batch, the last record of a batch arrives, only initiates and their *)
(* responses are repeated, nobody times out more often than the network    *)
(* fails, and a batch and the initiates in front of it fit in the channel. *)
PromptBatches ==
    /\ Prompt /\ ~ Reorders
    /\ Length \in Seq(Nat)
    /\ "last" \notin Losable
    /\ Duplicable \cap {"data", "last", "verification"} = {}
    /\ MaxFaults \in 0..MaxTimeouts
    /\ \A t \in Transfers : /\ NumberOfMessages(t) <= CheckInterval
                            /\ MaxFaults + NumberOfMessages(t) <= NetCapacity

(* What is on its way to a side, behind what its listener has queued. *)
Wire == sendQueue \o toReceiver
Back == responseQueue \o toSender

Response(t) == [Initiate(t) EXCEPT !.kind = "response"]
Piece(t, n) == DataRecord(t, n, Partitioned(t, 0, n - 1))

AllAre(q, m) == \A i \in 1..Len(q) : q[i] = m

(* The records that travel are of those that are not kept, each once, and  *)
(* the initiates go in front of them.                                      *)
Travels(w, t, kept) ==
    /\ \A i \in 1..Len(w) :
          \/ w[i] = Initiate(t) /\ kept = {}
          \/ \E n \in 1..NumberOfMessages(t) \ kept : w[i] = Piece(t, n)
    /\ \A i, j \in 1..Len(w) : i < j /\ w[j] = Initiate(t) => w[i] = Initiate(t)
    /\ \A i, j \in 1..Len(w) : w[i] = w[j] => i = j \/ w[i] = Initiate(t)

OnWire(w, t, n) == \E i \in 1..Len(w) : w[i] = Piece(t, n)
Complete(w, t, kept) == \A n \in 1..NumberOfMessages(t) \ kept : OnWire(w, t, n)

(* The sender has timed out once for a fault: less often than there were   *)
(* faults, unless what it waits for is on its way.                         *)
Patient(onItsWay) == /\ sender.tries <= faults
                     /\ onItsWay \/ sender.tries < faults

Resting == /\ sender.pc = "idle" /\ sender.tries = 0
           /\ receiver.pc = "first"
           /\ Wire = <<>> /\ Back = <<>>

Initiating(t) ==
    /\ sender.pc = "initiating"
    /\ AllAre(Wire, Initiate(t)) /\ AllAre(Back, Response(t))
    /\ \/ receiver.pc = "first" /\ Back = <<>>
       \/ /\ receiver.pc = "answered" /\ receiver.response = Response(t)
          /\ receiver.tries <= sender.tries
    /\ Len(Wire) + Len(Back) <= faults + 1
    /\ Patient(Wire # <<>> \/ Back # <<>>)

Ready(t) ==
    /\ sender.pc = "sending"
    /\ receiver.pc = "answered" /\ receiver.response = Response(t)
    /\ AllAre(Wire, Initiate(t)) /\ AllAre(Back, Response(t))
    /\ Len(Wire) <= faults

Waiting(t) ==
    /\ sender.pc = "verifying"
    /\ receiver.pc = "answered" /\ receiver.response = Response(t)
    /\ Travels(Wire, t, {}) /\ OnWire(Wire, t, NumberOfMessages(t))
    /\ AllAre(Back, Response(t))
    /\ Patient(Complete(Wire, t, {}))

(* What is kept is as it was sent, and the request for the rest is made    *)
(* when nothing else travels.                                              *)
Gathering(t) ==
    /\ sender.pc = "verifying"
    /\ receiver.pc = "collecting" /\ receiver.response = Response(t)
    /\ receiver.done = 0 /\ receiver.built = <<>>
    /\ LET kept == DOMAIN receiver.records IN
       /\ kept \subseteq 1..NumberOfMessages(t)
       /\ receiver.count = Cardinality(kept)
       /\ \A n \in kept : receiver.records[n] = Partitioned(t, 0, n - 1)
       /\ NumberOfMessages(t) \in kept \/ OnWire(Wire, t, NumberOfMessages(t))
       /\ Travels(Wire, t, kept) /\ kept # {}
       /\ \/ AllAre(Back, Response(t)) /\ Patient(Complete(Wire, t, kept))
          \/ /\ Wire = <<>> /\ Back = <<Verification(t, Missing)>>
             /\ ~ BatchIsIn /\ Patient(TRUE)

Returned(t) ==
    /\ sender.pc = "verifying" /\ receiver.pc = "first"
    /\ Wire = <<>>
    /\ \A i \in 1..Len(Back) :
          \/ Back[i] = Response(t)
          \/ i = Len(Back) /\ Back[i] = Verification(t, <<>>)

ServiceInv ==
    LET t == sender.t IN
    /\ results = [i \in 1..(t - 1) |-> "ok"] /\ sender.batch = 0
    /\ faults \in 0..MaxFaults
    /\ \/ /\ got = [i \in 1..(t - 1) |-> Data(i)]
          /\ \/ Resting
             \/ /\ t \in Transfers
                /\ Initiating(t) \/ Ready(t) \/ Waiting(t) \/ Gathering(t)
       \/ /\ got = [i \in 1..t |-> Data(i)]
          /\ t \in Transfers /\ Returned(t)
=============================================================================
