----------------------------- MODULE MbTcp_proof -----------------------------
(***************************************************************************)
(* Safety of MbTcp for any strings and any network: however many datagrams *)
(* are lost, repeated, overtaken or late, and whatever record GetData has  *)
(* taken for the first one, it asks for at least one record when it asks.  *)
(*                                                                         *)
(* The argument: the receiver's count is at least the number of different  *)
(* record numbers it keeps, and the numbers of a batch are different, so a *)
(* count below their number leaves one of them out.  What this needs from  *)
(* the rest is only that the numbers that travel are integers, which a     *)
(* record taken for one of another kind must not spoil: AskInv follows     *)
(* them through both queues and both channels.                             *)
(*                                                                         *)
(* Where datagrams are prompt, the transfer also keeps the promise of      *)
(* MessageService (PromiseIsKept).  ServiceInv lists the phases of the     *)
(* string that is sent and says in each what both sides know, what is on   *)
(* the way between them and how often the sender may have timed out.  Wire *)
(* and Back join a channel and the queue behind it, so that the listeners' *)
(* steps change nothing, and each of the other steps is one lemma that     *)
(* says which phase it leads to.                                           *)
(***************************************************************************)
EXTENDS MbTcp, TLAPS, SequenceTheorems, FiniteSetTheorems

(* Sequences that travel.                                                  *)

(* A queue's first element and the rest of it. *)
LEMMA Taken ==
  ASSUME NEW S, NEW q \in Seq(S), q # <<>>
  PROVE  Head(q) \in S /\ Tail(q) \in Seq(S)
BY HeadTailProperties

(* What is left of a channel that loses a datagram, or hands it over. *)
LEMMA Removed ==
  ASSUME NEW S, NEW q \in Seq(S), NEW i \in DOMAIN q
  PROVE  q[i] \in S /\ RemoveAt(q, i) \in Seq(S)
<1>1. i \in 1..Len(q) /\ Len(q) \in Nat /\ \A j \in 1..Len(q) : q[j] \in S
  BY LenProperties, ElementOfSeq
<1>2. SubSeq(q, 1, i - 1) \in Seq(S)
  BY <1>1, SubSeqProperties
<1>3. SubSeq(q, i + 1, Len(q)) \in Seq(S)
  BY <1>1, SubSeqProperties
<1>. QED
  BY <1>1, <1>2, <1>3, ConcatProperties DEF RemoveAt

(* A channel that repeats one. *)
LEMMA Inserted ==
  ASSUME NEW S, NEW q \in Seq(S), NEW i \in DOMAIN q
  PROVE  InsertAt(q, i, q[i]) \in Seq(S)
<1>1. i \in 1..Len(q) /\ Len(q) \in Nat /\ \A j \in 1..Len(q) : q[j] \in S
  BY LenProperties, ElementOfSeq
<1>2. SubSeq(q, 1, i - 1) \in Seq(S)
  BY <1>1, SubSeqProperties
<1>3. SubSeq(q, i, Len(q)) \in Seq(S)
  BY <1>1, SubSeqProperties
<1>4. <<q[i]>> \in Seq(S)
  BY <1>1
<1>5. SubSeq(q, 1, i - 1) \o <<q[i]>> \in Seq(S)
  BY <1>2, <1>4, ConcatProperties
<1>. QED
  BY <1>3, <1>5, ConcatProperties DEF InsertAt

(* A channel that takes some more, up to its capacity. *)
LEMMA Transmitted ==
  ASSUME NEW S, NEW q \in Seq(S), NEW r \in Seq(S)
  PROVE  Transmit(q, r) \in Seq(S)
<1>1. /\ q \o r \in Seq(S) /\ Len(q \o r) \in Nat
      /\ \A j \in 1..Len(q \o r) : (q \o r)[j] \in S
  BY ConcatProperties, LenProperties, ElementOfSeq
<1>2. /\ Lesser(Len(q \o r), NetCapacity) \in Int
      /\ Lesser(Len(q \o r), NetCapacity) <= Len(q \o r)
  BY <1>1, SizesAreGiven DEF Lesser
<1>3. \A j \in 1..Lesser(Len(q \o r), NetCapacity) : (q \o r)[j] \in S
  BY <1>1, <1>2
<1>4. SubSeq(q \o r, 1, Lesser(Len(q \o r), NetCapacity)) \in Seq(S)
  BY <1>2, <1>3, SubSeqProperties
<1>. QED
  BY <1>4 DEF Transmit

-----------------------------------------------------------------------------
(* Records.                                                                *)

(* A string has records, and a batch of it has some. *)
LEMMA BatchSizes ==
  ASSUME NEW t \in Transfers
  PROVE  /\ NumberOfMessages(t) \in Int /\ NumberOfMessages(t) >= 1
         /\ Interval(t) \in Nat /\ Interval(t) >= 1
         /\ Length[t] \in Nat
<1>1. /\ Length[t] \in Nat /\ Length[t] >= 1
      /\ MaxSendLength \in Nat /\ MaxSendLength >= 1
      /\ CheckInterval \in Nat /\ CheckInterval >= 1
  BY SizesAreGiven DEF Transfers
<1>2. NumberOfMessages(t) \in Int /\ NumberOfMessages(t) >= 1
  <2>1. \A a, m \in Nat : a >= 1 /\ m >= 1 =>
          (a + m - 1) \div m \in Int /\ (a + m - 1) \div m >= 1
    OBVIOUS
  <2>. QED
    BY <1>1, <2>1 DEF NumberOfMessages
<1>. QED
  BY <1>1, <1>2 DEF Interval, Lesser

(* The responses a record may be taken for, and what it is as data. *)
LEMMA TakenForOther ==
  ASSUME NEW m \in Records
  PROVE  /\ AsInitiate(m) \subseteq Responses
         /\ m.kind # "initiate" => m.number \in Int
         /\ AsData(m).number \in Int
<1>1. CASE m \in {Initiate(t) : t \in Transfers}
  <2>1. PICK t \in Transfers : m = Initiate(t)
    BY <1>1
  <2>2. [m EXCEPT !.kind = "response"] =
          [kind |-> "response", id |-> t, number |-> NumberOfMessages(t),
           interval |-> Interval(t), total |-> Length[t]]
    BY <2>1 DEF Initiate
  <2>3. [m EXCEPT !.kind = "response"] \in Responses
    BY <2>2, BatchSizes DEF Responses
  <2>4. m.kind = "initiate" /\ m.number = NumberOfMessages(t)
    BY <2>1 DEF Initiate
  <2>. QED
    BY <2>3, <2>4, BatchSizes DEF AsInitiate, AsData, DataRecord
<1>2. CASE m \in {DataRecord(t, n, data) : t \in Transfers, n \in Int, data \in Payloads}
  <2>1. PICK t \in Transfers, n \in Int, data \in Payloads : m = DataRecord(t, n, data)
    BY <1>2
  <2>2. m.kind = "data" /\ m.id = t /\ m.number = n
    BY <2>1 DEF DataRecord
  <2>3. \A g \in GarbledIntervals : g \in Nat
    BY SizesAreGiven
  <2>. QED
    BY <2>2, <2>3 DEF AsInitiate, AsData, Responses
<1>. QED
  BY <1>1, <1>2 DEF Records

(* A piece of a string under some number is a record. *)
LEMMA DataIsARecord ==
  ASSUME NEW t \in Transfers, NEW n \in Int, NEW data \in Payloads
  PROVE  DataRecord(t, n, data) \in Records
BY DEF Records

(* What the sender puts on the wire. *)
LEMMA SentRecords ==
  ASSUME NEW t \in Transfers, NEW batch \in Nat
  PROVE  /\ <<Initiate(t)>> \in Seq(Records)
         /\ [i \in 1..Interval(t) |-> DataRecord(t, i + batch * Interval(t),
                                               Partitioned(t, batch, i - 1))] \in Seq(Records)
         /\ \A resend \in Seq(Int) :
              [i \in DOMAIN resend |-> Resent(t, batch, resend[i])] \in Seq(Records)
<1>1. Interval(t) \in Nat /\ Interval(t) >= 1
  BY BatchSizes
<1>2. Initiate(t) \in Records
  BY DEF Records
<1>3. ASSUME NEW i \in 1..Interval(t)
      PROVE  DataRecord(t, i + batch * Interval(t), Partitioned(t, batch, i - 1)) \in Records
  <2>1. batch * Interval(t) \in Int
    BY <1>1
  <2>2. i + batch * Interval(t) \in Int /\ i - 1 \in Int /\ batch \in Int
    BY <1>1, <2>1
  <2>3. Partitioned(t, batch, i - 1) \in Payloads
    BY <2>2 DEF Payloads
  <2>. QED
    BY <2>2, <2>3, DataIsARecord
<1>4. ASSUME NEW n \in Int PROVE Resent(t, batch, n) \in Records
  <2>1. n % Interval(t) \in Int
    BY <1>1
  <2>2. (n % Interval(t)) - 1 \in Int /\ batch \in Int
    BY <2>1
  <2>3. Partitioned(t, batch, (n % Interval(t)) - 1) \in Payloads /\ Garbage \in Payloads
    BY <2>2 DEF Payloads
  <2>. DEFINE data == IF (n % Interval(t)) - 1 < 0 THEN Garbage
                      ELSE Partitioned(t, batch, (n % Interval(t)) - 1)
  <2>4. data \in Payloads
    BY <2>3
  <2>5. Resent(t, batch, n) = DataRecord(t, n, data)
    BY DEF Resent
  <2>. HIDE DEF data
  <2>. QED
    BY <2>4, <2>5, DataIsARecord
<1>5. \A resend \in Seq(Int) :
        [i \in DOMAIN resend |-> Resent(t, batch, resend[i])] \in Seq(Records)
  <2>1. SUFFICES ASSUME NEW resend \in Seq(Int)
                 PROVE  [i \in DOMAIN resend |-> Resent(t, batch, resend[i])] \in Seq(Records)
    OBVIOUS
  <2>2. DOMAIN resend = 1..Len(resend) /\ Len(resend) \in Nat
        /\ \A i \in 1..Len(resend) : resend[i] \in Int
    BY LenProperties, ElementOfSeq
  <2>3. \A i \in 1..Len(resend) : Resent(t, batch, resend[i]) \in Records
    BY <1>4, <2>2
  <2>. QED
    BY <2>2, <2>3
<1>6. [i \in 1..Interval(t) |-> DataRecord(t, i + batch * Interval(t),
                                       Partitioned(t, batch, i - 1))] \in Seq(Records)
  <2>. DEFINE record(i) == DataRecord(t, i + batch * Interval(t), Partitioned(t, batch, i - 1))
              n == Interval(t)
  <2>1. n \in Nat /\ \A i \in 1..n : record(i) \in Records
    BY <1>1, <1>3
  <2>. HIDE DEF record, n
  <2>2. [i \in 1..n |-> record(i)] \in Seq(Records)
    BY <2>1
  <2>. QED
    BY <2>2 DEF record, n
<1>. QED
  BY <1>2, <1>5, <1>6

-----------------------------------------------------------------------------
(* The receiver's numbers.                                                 *)

(* The element of each rank in a finite set of integers is there: ranking *)
(* them is injective, and so it reaches every rank.                        *)
LEMMA RanksAreTaken ==
  ASSUME NEW S \in SUBSET Int, IsFiniteSet(S)
  PROVE  [i \in 1..Cardinality(S) |->
            CHOOSE n \in S : Cardinality({m \in S : m < n}) = i - 1] \in Seq(S)
<1>. DEFINE rank(n) == Cardinality({m \in S : m < n})
            size == Cardinality(S)
            ranks == [n \in S |-> rank(n)]
<1>1. size \in Nat
  BY FS_CardinalityType
<1>2. ASSUME NEW n \in S
      PROVE  IsFiniteSet({m \in S : m < n}) /\ rank(n) \in 0..(size - 1)
  <2>1. {m \in S : m < n} \in SUBSET (S \ {n})
    OBVIOUS
  <2>2. IsFiniteSet(S \ {n}) /\ Cardinality(S \ {n}) = size - 1
    BY FS_RemoveElement
  <2>3. IsFiniteSet({m \in S : m < n}) /\ rank(n) <= size - 1
    BY <2>1, <2>2, FS_Subset
  <2>4. rank(n) \in Nat
    BY <2>3, FS_CardinalityType
  <2>. QED
    BY <1>1, <2>3, <2>4
<1>3. ASSUME NEW n \in S, NEW p \in S, n < p
      PROVE  rank(n) # rank(p)
  <2>1. {m \in S : m < n} \cup {n} \in SUBSET {m \in S : m < p}
    <3>1. \A m \in S : m < n => m < p
      BY <1>3
    <3>. QED
      BY <1>3, <3>1
  <2>2. n \notin {m \in S : m < n}
    OBVIOUS
  <2>3. /\ IsFiniteSet({m \in S : m < n} \cup {n})
        /\ Cardinality({m \in S : m < n} \cup {n}) = rank(n) + 1
    BY <1>2, <2>2, FS_AddElement
  <2>4. rank(n) + 1 <= rank(p)
    BY <1>2, <2>1, <2>3, FS_Subset
  <2>. QED
    BY <1>2, <2>4
<1>4. ranks \in Injection(S, 0..(size - 1))
  <2>1. ranks \in [S -> 0..(size - 1)]
    BY <1>2
  <2>2. \A n, p \in S : rank(n) = rank(p) => n = p
    <3>. SUFFICES ASSUME NEW n \in S, NEW p \in S, n # p PROVE rank(n) # rank(p)
      OBVIOUS
    <3>1. n \in Int /\ p \in Int
      OBVIOUS
    <3>2. n < p \/ p < n
      BY <3>1
    <3>. QED
      BY <1>3, <3>2
  <2>3. \A n, p \in S : ranks[n] = ranks[p] => n = p
    BY <2>2
  <2>. HIDE DEF ranks, rank, size
  <2>. QED
    BY <2>1, <2>3 DEF Injection, IsInjective
<1>5. IsFiniteSet(0..(size - 1)) /\ Cardinality(0..(size - 1)) = size
  BY <1>1, FS_Interval
<1>6. ranks \in Surjection(S, 0..(size - 1))
  BY <1>4, <1>5, FS_Injection
<1>7. ASSUME NEW i \in 1..size
      PROVE  (CHOOSE n \in S : rank(n) = i - 1) \in S
  <2>1. i - 1 \in 0..(size - 1)
    BY <1>1
  <2>2. \E n \in S : ranks[n] = i - 1
    BY <1>6, <2>1 DEF Surjection
  <2>3. \E n \in S : rank(n) = i - 1
    BY <2>2
  <2>. QED
    BY <2>3
<1>. DEFINE element(i) == CHOOSE n \in S : rank(n) = i - 1
<1>8. \A i \in 1..size : element(i) \in S
  BY <1>7
<1>9. [i \in 1..size |-> element(i)] \in Seq(S)
  <2>. HIDE DEF element, size
  <2>. QED
    BY <1>1, <1>8
<1>. QED
  BY <1>9

(* The numbers of the batch that is collected are integers, each another. *)
LEMMA BatchIsNumbered ==
  ASSUME receiver.response \in Responses, receiver.done \in Nat
  PROVE  /\ ExpectedMessages \in Int
         /\ DOMAIN Batch = 1..ExpectedMessages
         /\ \A i \in 1..ExpectedMessages : Batch[i] \in Int
         /\ \A i, j \in 1..ExpectedMessages : Batch[i] = Batch[j] => i = j
<1>1. PICK number \in Int : number = receiver.response.number
  BY DEF Responses
<1>2. PICK interval \in Int : interval = receiver.response.interval
  BY DEF Responses
<1>3. PICK done \in Nat : done = receiver.done
  OBVIOUS
<1>4. PICK offset \in Int : offset = receiver.done * receiver.response.interval
  BY <1>2, <1>3
<1>5. ExpectedMessages \in Int
  <2>1. number - offset \in Int
    OBVIOUS
  <2>. QED
    BY <1>1, <1>2, <1>4, <2>1 DEF ExpectedMessages, Lesser
<1>6. Batch = [i \in 1..ExpectedMessages |-> i + offset]
  BY <1>4 DEF Batch
<1>7. \A i \in 1..ExpectedMessages : Batch[i] = i + offset /\ i \in Int
  BY <1>5, <1>6
<1>. QED
  BY <1>5, <1>6, <1>7

(* What is missing is a list of integers. *)
LEMMA MissingIsNumbers ==
  ASSUME receiver.response \in Responses, receiver.done \in Nat
  PROVE  Missing \in Seq(Int)
<1>. DEFINE numbers == {Batch[i] : i \in DOMAIN Batch}
<1>1. numbers \subseteq Int
  BY BatchIsNumbered
<1>2. IsFiniteSet(1..ExpectedMessages)
  BY BatchIsNumbered, FS_Interval
<1>3. Batch \in Surjection(1..ExpectedMessages, numbers)
  <2>1. Batch \in [1..ExpectedMessages -> numbers]
    BY BatchIsNumbered DEF Batch
  <2>. QED
    BY <2>1 DEF Surjection
<1>4. IsFiniteSet(numbers)
  BY <1>2, <1>3, FS_Surjection
<1>5. Lacking \in SUBSET numbers
  BY DEF Lacking
<1>6. IsFiniteSet(Lacking) /\ Lacking \in SUBSET Int
  BY <1>1, <1>4, <1>5, FS_Subset
<1>7. Missing \in Seq(Lacking)
  BY <1>6, RanksAreTaken DEF Missing
<1>8. /\ Missing = [i \in 1..Len(Missing) |-> Missing[i]]
      /\ Len(Missing) \in Nat
      /\ \A i \in 1..Len(Missing) : Missing[i] \in Int
  BY <1>6, <1>7, LenProperties, ElementOfSeq
<1>. QED
  BY <1>8

(* The records collected leave out a number of a batch larger than them. *)
LEMMA CountedMeansMissing ==
  ASSUME Collects(receiver), ~ BatchIsIn
  PROVE  \E i \in DOMAIN Batch : Batch[i] \notin DOMAIN receiver.records
<1>1. /\ receiver.response \in Responses /\ receiver.done \in Nat
      /\ receiver.count \in Nat
      /\ IsFiniteSet(DOMAIN receiver.records)
      /\ Cardinality(DOMAIN receiver.records) <= receiver.count
  BY DEF Collects
<1>2. ExpectedMessages \in Int /\ receiver.count < ExpectedMessages
  BY <1>1, BatchIsNumbered DEF BatchIsIn
<1>3. SUFFICES ASSUME \A i \in 1..ExpectedMessages : Batch[i] \in DOMAIN receiver.records
               PROVE  FALSE
  BY <1>1, BatchIsNumbered
<1>4. Batch \in Injection(1..ExpectedMessages, DOMAIN receiver.records)
  <2>1. Batch \in [1..ExpectedMessages -> DOMAIN receiver.records]
    BY <1>3 DEF Batch
  <2>. QED
    BY <1>1, <2>1, BatchIsNumbered DEF Injection, IsInjective
<1>5. Cardinality(1..ExpectedMessages) <= Cardinality(DOMAIN receiver.records)
  BY <1>1, <1>4, FS_Injection
<1>6. Cardinality(1..ExpectedMessages) = ExpectedMessages
  <2>1. PICK n \in Int : n = ExpectedMessages
    BY <1>2
  <2>2. n >= 1
    BY <1>1, <1>2, <2>1
  <2>3. Cardinality(1..n) = n - 1 + 1
    BY <2>2, FS_Interval
  <2>. QED
    BY <2>1, <2>3
<1>7. Cardinality(DOMAIN receiver.records) \in Nat
  BY <1>1, FS_CardinalityType
<1>. QED
  BY <1>1, <1>2, <1>5, <1>6, <1>7

-----------------------------------------------------------------------------
(* The steps, by the thread that takes them.                               *)

(* Nothing is sent or kept before the first call. *)
LEMMA AskInit ==
  ASSUME Init
  PROVE  AskInv
<1>1. ChannelsOK
  BY DEF Init, ChannelsOK
<1>2. SenderOK
  BY DEF Init, Idle, SenderOK
<1>3. ReceiverOK
  BY DEF Init, ReceiverOK, Listens
<1>. QED
  BY <1>1, <1>2, <1>3 DEF AskInv

(* The network and the listener threads hand on what was sent. *)
LEMMA NetworkKeepsAsk ==
  ASSUME AskInv, Fault \/ ListenSend \/ ListenRespond
  PROVE  AskInv'
<1>. DEFINE Answers == Responses \cup Verifications
<1>1. /\ toReceiver \in Seq(Records) /\ sendQueue \in Seq(Records)
      /\ toSender \in Seq(Answers) /\ responseQueue \in Seq(Answers)
  BY DEF AskInv, ChannelsOK
<1>2. SenderOK' /\ ReceiverOK'
  <2>1. sender' = sender /\ receiver' = receiver
    BY DEF Fault, ListenSend, ListenRespond, senderVars, receiverVars
  <2>2. SenderOK /\ ReceiverOK
    BY DEF AskInv
  <2>. QED
    BY <2>1, <2>2 DEF SenderOK, ReceiverOK, Listens, Answered, Collects
<1>. HIDE DEF Answers
<1>3. ChannelsOK'
  <2>1. CASE Fault
    <3>1. toReceiver' \in Seq(Records)
      <4>1. CASE UNCHANGED toReceiver
        BY <1>1, <4>1
      <4>2. CASE \E i \in DOMAIN toReceiver : Lose(toReceiver, i)
        BY <1>1, <4>2, Removed DEF Lose
      <4>3. CASE \E i \in DOMAIN toReceiver : Duplicate(toReceiver, i)
        BY <1>1, <4>3, Inserted DEF Duplicate
      <4>. QED
        BY <2>1, <4>1, <4>2, <4>3 DEF Fault
    <3>2. toSender' \in Seq(Answers)
      <4>1. CASE UNCHANGED toSender
        BY <1>1, <4>1
      <4>2. CASE \E i \in DOMAIN toSender : Lose(toSender, i)
        BY <1>1, <4>2, Removed DEF Lose
      <4>3. CASE \E i \in DOMAIN toSender : Duplicate(toSender, i)
        BY <1>1, <4>3, Inserted DEF Duplicate
      <4>. QED
        BY <2>1, <4>1, <4>2, <4>3 DEF Fault
    <3>3. sendQueue' = sendQueue /\ responseQueue' = responseQueue
      BY <2>1 DEF Fault
    <3>. QED
      BY <1>1, <3>1, <3>2, <3>3 DEF ChannelsOK, Answers
  <2>2. CASE ListenSend
    <3>1. PICK i \in DOMAIN toReceiver :
            /\ sendQueue' = Append(sendQueue, toReceiver[i])
            /\ toReceiver' = RemoveAt(toReceiver, i)
      BY <2>2 DEF ListenSend, Arrivals
    <3>2. toReceiver[i] \in Records /\ toReceiver' \in Seq(Records)
      BY <1>1, <3>1, Removed
    <3>3. sendQueue' \in Seq(Records)
      BY <1>1, <3>1, <3>2, AppendProperties
    <3>4. toSender' = toSender /\ responseQueue' = responseQueue
      BY <2>2 DEF ListenSend
    <3>. QED
      BY <1>1, <3>2, <3>3, <3>4 DEF ChannelsOK, Answers
  <2>3. CASE ListenRespond
    <3>1. PICK i \in DOMAIN toSender :
            /\ responseQueue' = Append(responseQueue, toSender[i])
            /\ toSender' = RemoveAt(toSender, i)
      BY <2>3 DEF ListenRespond, Arrivals
    <3>2. toSender[i] \in Answers /\ toSender' \in Seq(Answers)
      BY <1>1, <3>1, Removed
    <3>3. responseQueue' \in Seq(Answers)
      BY <1>1, <3>1, <3>2, AppendProperties
    <3>4. toReceiver' = toReceiver /\ sendQueue' = sendQueue
      BY <2>3 DEF ListenRespond
    <3>. QED
      BY <1>1, <3>2, <3>3, <3>4 DEF ChannelsOK, Answers
  <2>. QED
    BY <2>1, <2>2, <2>3
<1>. QED
  BY <1>2, <1>3 DEF AskInv

(* SendData that returns, or goes on to the next batch. *)
LEMMA BatchEnds ==
  ASSUME SenderOK, sender.pc # "idle",
         EndBatch \/ \E result : SendReturns(result)
  PROVE  SenderOK'
<1>1. sender.t \in Nat /\ sender.t \in Transfers /\ sender.batch \in Nat
  BY DEF SenderOK
<1>2. CASE \E result : SendReturns(result)
  <2>1. sender' = [pc |-> "idle", t |-> sender.t + 1, tries |-> 0, batch |-> 0]
    BY <1>2 DEF SendReturns, Idle
  <2>. QED
    BY <1>1, <2>1 DEF SenderOK
<1>3. CASE sender' = [sender EXCEPT !.pc = "sending", !.batch = sender.batch + 1]
  <2>1. sender \in [pc : {"idle", "initiating", "sending", "verifying", "crashed"},
                    t : Nat, tries : Nat, batch : Nat]
    BY DEF SenderOK
  <2>2. sender.batch + 1 \in Nat
    BY <1>1
  <2>3. /\ sender' \in [pc : {"idle", "initiating", "sending", "verifying", "crashed"},
                        t : Nat, tries : Nat, batch : Nat]
        /\ sender'.t = sender.t
    BY <1>3, <2>1, <2>2
  <2>. QED
    BY <1>1, <2>3 DEF SenderOK
<1>. QED
  BY <1>2, <1>3 DEF EndBatch

(* SendData that waits in vain initiates again, or goes on without. *)
LEMMA SenderTimeoutKeepsAsk ==
  ASSUME AskInv, SenderTimeout
  PROVE  SenderOK' /\ toReceiver' \in Seq(Records)
<1>1. SenderOK /\ toReceiver \in Seq(Records)
  BY DEF AskInv, ChannelsOK
<1>2. sender.pc # "idle" /\ sender.t \in Transfers /\ sender.tries \in Nat
  BY <1>1 DEF SenderTimeout, InitiateTimeout, VerifyTimeout, SenderOK
<1>3. ASSUME sender' = [sender EXCEPT !.tries = @ + 1]
      PROVE  SenderOK'
  BY <1>1, <1>2, <1>3 DEF SenderOK
<1>4. CASE InitiateTimeout
  <2>1. <<Initiate(sender.t)>> \in Seq(Records)
    BY <1>2 DEF Records
  <2>2. CASE sender.tries < MaxTimeouts
    <3>1. toReceiver' \in Seq(Records)
      BY <1>1, <1>4, <2>1, <2>2, Transmitted DEF InitiateTimeout
    <3>. QED
      BY <1>3, <1>4, <2>2, <3>1 DEF InitiateTimeout
  <2>3. CASE ~ (sender.tries < MaxTimeouts)
    <3>1. SendReturns("no response") /\ UNCHANGED toReceiver
      BY <1>4, <2>3 DEF InitiateTimeout
    <3>. QED
      BY <1>1, <1>2, <3>1, BatchEnds
  <2>. QED
    BY <2>2, <2>3
<1>5. CASE VerifyTimeout
  <2>1. toReceiver' = toReceiver
    BY <1>5 DEF VerifyTimeout
  <2>2. SenderOK'
    BY <1>1, <1>2, <1>3, <1>5, BatchEnds DEF VerifyTimeout
  <2>. QED
    BY <1>1, <2>1, <2>2
<1>. QED
  BY <1>4, <1>5 DEF SenderTimeout

(* SendData sends records of its string, and asks its queue for responses. *)
LEMMA SenderKeepsAsk ==
  ASSUME AskInv, SenderStep
  PROVE  AskInv'
<1>. DEFINE Answers == Responses \cup Verifications
<1>1. /\ toReceiver \in Seq(Records) /\ sendQueue \in Seq(Records)
      /\ toSender \in Seq(Answers) /\ responseQueue \in Seq(Answers)
      /\ SenderOK /\ ReceiverOK
  BY DEF AskInv, ChannelsOK
<1>2. /\ sender.t \in Nat /\ sender.tries \in Nat /\ sender.batch \in Nat
      /\ sender.pc # "idle" => sender.t \in Transfers
  BY <1>1 DEF SenderOK
<1>3. receiver' = receiver /\ toSender' = toSender /\ sendQueue' = sendQueue
  BY DEF SenderStep, SendInitiate, InitiateResponse, SendBatch, VerifySkip,
         VerifyDone, VerifyResend, receiverVars
<1>4. ReceiverOK'
  BY <1>1, <1>3 DEF ReceiverOK, Listens, Answered, Collects
<1>5. ASSUME TakesResponse
      PROVE  Head(responseQueue) \in Answers /\ responseQueue' \in Seq(Answers)
  <2>. HIDE DEF Answers
  <2>. QED
    BY <1>1, <1>5, Taken DEF TakesResponse
<1>6. ASSUME TakesResponse, Verifies(Head(responseQueue))
      PROVE  Head(responseQueue).resend \in Seq(Int)
  <2>1. Head(responseQueue) \in Verifications
    <3>1. \A m \in Responses : m.kind = "response"
      BY DEF Responses
    <3>2. Head(responseQueue) \in Answers
      BY <1>5, <1>6
    <3>3. Head(responseQueue).kind = "verification"
      BY <1>6 DEF Verifies
    <3>. QED
      BY <3>1, <3>2, <3>3
  <2>2. PICK t \in Transfers, resend \in Seq(Int) :
          Head(responseQueue) = Verification(t, resend)
    BY <2>1 DEF Verifications
  <2>. QED
    BY <2>2 DEF Verification
<1>7. ASSUME NEW pc \in {"initiating", "sending", "verifying", "crashed"},
             NEW tries \in Nat,
             sender.t \in Transfers,
             sender' = [sender EXCEPT !.pc = pc, !.tries = tries]
      PROVE  SenderOK'
  <2>1. sender \in [pc : {"idle", "initiating", "sending", "verifying", "crashed"},
                    t : Nat, tries : Nat, batch : Nat]
    BY <1>1 DEF SenderOK
  <2>2. /\ sender' \in [pc : {"idle", "initiating", "sending", "verifying", "crashed"},
                        t : Nat, tries : Nat, batch : Nat]
        /\ sender'.t = sender.t
    BY <1>7, <2>1
  <2>. QED
    BY <1>7, <2>2 DEF SenderOK
<1>8. ASSUME toReceiver' \in Seq(Records), responseQueue' \in Seq(Answers), SenderOK'
      PROVE  AskInv'
  BY <1>1, <1>3, <1>4, <1>8 DEF AskInv, ChannelsOK
<1>9. ASSUME NEW pc \in {"initiating", "sending", "verifying", "crashed"},
             sender.t \in Transfers,
             sender' = [sender EXCEPT !.pc = pc]
      PROVE  SenderOK'
  <2>1. sender' = [sender EXCEPT !.pc = pc, !.tries = sender.tries]
    BY <1>1, <1>9 DEF SenderOK
  <2>. QED
    BY <1>2, <1>7, <1>9, <2>1
<1>. HIDE DEF Answers
<1>10. CASE SendInitiate
  <2>1. sender.t \in Transfers /\ <<Initiate(sender.t)>> \in Seq(Records)
    BY <1>10 DEF SendInitiate, Records
  <2>2. toReceiver' \in Seq(Records)
    BY <1>1, <1>10, <2>1, Transmitted DEF SendInitiate
  <2>3. SenderOK'
    BY <1>9, <1>10, <2>1 DEF SendInitiate
  <2>4. responseQueue' \in Seq(Answers)
    BY <1>1, <1>10 DEF SendInitiate
  <2>. QED
    BY <1>8, <2>2, <2>3, <2>4
<1>11. CASE InitiateResponse
  <2>1. sender.t \in Transfers
    BY <1>2, <1>11 DEF InitiateResponse
  <2>2. SenderOK'
    <3>1. sender.pc # "idle"
      BY <1>11 DEF InitiateResponse
    <3>. QED
      BY <1>1, <1>9, <1>11, <2>1, <3>1, BatchEnds DEF InitiateResponse
  <2>3. toReceiver' \in Seq(Records) /\ responseQueue' \in Seq(Answers)
    BY <1>1, <1>5, <1>11 DEF InitiateResponse
  <2>. QED
    BY <1>8, <2>2, <2>3
<1>12. CASE SendBatch
  <2>1. sender.t \in Transfers
    BY <1>2, <1>12 DEF SendBatch
  <2>2. toReceiver' \in Seq(Records)
    BY <1>1, <1>2, <1>12, <2>1, SentRecords, Transmitted DEF SendBatch
  <2>3. SenderOK'
    BY <1>7, <1>12, <2>1 DEF SendBatch
  <2>4. responseQueue' \in Seq(Answers)
    BY <1>1, <1>12 DEF SendBatch
  <2>. QED
    BY <1>8, <2>2, <2>3, <2>4
<1>13. CASE VerifySkip
  <2>1. SenderOK'
    BY <1>1, <1>13 DEF VerifySkip, senderVars, SenderOK
  <2>2. toReceiver' \in Seq(Records) /\ responseQueue' \in Seq(Answers)
    BY <1>1, <1>5, <1>13 DEF VerifySkip
  <2>. QED
    BY <1>8, <2>1, <2>2
<1>14. CASE VerifyDone
  <2>1. SenderOK'
    <3>1. sender.pc # "idle" /\ EndBatch
      BY <1>14 DEF VerifyDone
    <3>. QED
      BY <1>1, <3>1, BatchEnds
  <2>2. toReceiver' \in Seq(Records) /\ responseQueue' \in Seq(Answers)
    BY <1>1, <1>5, <1>14 DEF VerifyDone
  <2>. QED
    BY <1>8, <2>1, <2>2
<1>15. CASE VerifyResend
  <2>. DEFINE t == sender.t
              resend == Head(responseQueue).resend
              records == [i \in DOMAIN resend |-> Resent(t, sender.batch, resend[i])]
  <2>1. sender.t \in Transfers /\ resend \in Seq(Int)
    BY <1>2, <1>6, <1>15 DEF VerifyResend
  <2>2. records \in Seq(Records)
    <3>. HIDE DEF resend
    <3>. QED
      BY <1>2, <2>1, SentRecords
  <2>3. \/ toReceiver' = Transmit(toReceiver, records) /\ UNCHANGED sender
        \/ sender' = [sender EXCEPT !.pc = "crashed"] /\ UNCHANGED toReceiver
    BY <1>15 DEF VerifyResend
  <2>. HIDE DEF records
  <2>4. toReceiver' \in Seq(Records)
    BY <1>1, <2>2, <2>3, Transmitted
  <2>5. SenderOK'
    <3>1. CASE UNCHANGED sender
      BY <1>1, <3>1 DEF SenderOK
    <3>2. CASE sender' = [sender EXCEPT !.pc = "crashed"]
      BY <1>9, <2>1, <3>2
    <3>. QED
      BY <2>3, <3>1, <3>2
  <2>6. responseQueue' \in Seq(Answers)
    BY <1>5, <1>15 DEF VerifyResend
  <2>. QED
    BY <1>8, <2>4, <2>5, <2>6
<1>. QED
  BY <1>10, <1>11, <1>12, <1>13, <1>14, <1>15 DEF SenderStep

(* GetData answers, collects numbers it did not have, and counts them. *)
LEMMA ReceiverTimeoutKeepsAsk ==
  ASSUME AskInv, ReceiverTimeout
  PROVE  ReceiverOK' /\ toSender' \in Seq(Responses \cup Verifications)
<1>. DEFINE Answers == Responses \cup Verifications
<1>1. toSender \in Seq(Answers) /\ ReceiverOK
  BY DEF AskInv, ChannelsOK
<1>2. CASE FirstTimeout
  <2>1. receiver \in [pc : {"first"}, tries : Nat]
    BY <1>1, <1>2 DEF FirstTimeout, ReceiverOK, Listens, Answered, Collects
  <2>2. Listens(receiver)'
    BY <1>2, <2>1 DEF FirstTimeout, Listening, Listens
  <2>. QED
    BY <1>1, <1>2, <2>2 DEF FirstTimeout, ReceiverOK
<1>3. CASE AnsweredTimeout
  <2>1. receiver \in [pc : {"answered"}, tries : Nat, response : Responses]
    BY <1>1, <1>3 DEF AnsweredTimeout, ReceiverOK, Listens, Answered, Collects
  <2>2. <<receiver.response>> \in Seq(Answers)
    BY <2>1
  <2>3. toSender' \in Seq(Answers)
    <3>. HIDE DEF Answers
    <3>. QED
      BY <1>1, <1>3, <2>2, Transmitted DEF AnsweredTimeout
  <2>4. CASE receiver.tries < MaxTimeouts
    <3>1. Answered(receiver)'
      BY <1>3, <2>1, <2>4 DEF AnsweredTimeout, Answered
    <3>. QED
      BY <2>3, <3>1 DEF ReceiverOK
  <2>5. CASE ~ (receiver.tries < MaxTimeouts)
    <3>1. Listens(receiver)'
      BY <1>3, <2>5 DEF AnsweredTimeout, GetReturns, Listening, Listens
    <3>. QED
      BY <2>3, <3>1 DEF ReceiverOK
  <2>. QED
    BY <2>4, <2>5
<1>4. CASE CollectTimeout
  <2>1. receiver.pc = "collecting" /\ receiver' = receiver
    BY <1>4 DEF CollectTimeout, receiverVars
  <2>2. Collects(receiver)
    BY <1>1, <2>1 DEF ReceiverOK, Listens, Answered
  <2>3. ReceiverOK'
    BY <2>1, <2>2 DEF ReceiverOK, Collects
  <2>4. receiver.response \in Responses /\ receiver.done \in Nat
    BY <2>2 DEF Collects
  <2>5. Missing \in Seq(Int) /\ receiver.response.id \in Transfers
    BY <2>4, MissingIsNumbers DEF Responses
  <2>6. <<Verification(receiver.response.id, Missing)>> \in Seq(Answers)
    BY <2>5 DEF Verifications
  <2>7. toSender' \in Seq(Answers)
    <3>. HIDE DEF Answers
    <3>. QED
      BY <1>1, <1>4, <2>6, Transmitted DEF CollectTimeout
  <2>. QED
    BY <2>3, <2>7
<1>. QED
  BY <1>2, <1>3, <1>4 DEF ReceiverTimeout

(* A record of a number that is new is counted, another is dropped. *)
LEMMA KeptIsCounted ==
  ASSUME NEW r, Collects(r), NEW m, m.number \in Int
  PROVE  Collects(Kept(r, m))
<1>1. CASE m.number \in DOMAIN r.records
  BY <1>1 DEF Kept
<1>2. CASE m.number \notin DOMAIN r.records
  <2>. DEFINE records == With(r.records, m)
              kept == [r EXCEPT !.records = records, !.count = @ + 1]
  <2>1. DOMAIN records = DOMAIN r.records \cup {m.number}
    BY DEF With
  <2>2. /\ IsFiniteSet(DOMAIN r.records \cup {m.number})
        /\ Cardinality(DOMAIN r.records \cup {m.number}) = Cardinality(DOMAIN r.records) + 1
    BY <1>2, FS_AddElement DEF Collects
  <2>. HIDE DEF records
  <2>3. /\ DOMAIN kept = DOMAIN r
        /\ kept.pc = r.pc /\ kept.response = r.response /\ kept.done = r.done
        /\ kept.count = r.count + 1 /\ kept.records = records
    BY DEF Collects
  <2>. HIDE DEF kept
  <2>4. Cardinality(DOMAIN r.records) \in Nat /\ r.count \in Nat
    BY FS_CardinalityType DEF Collects
  <2>5. Cardinality(DOMAIN kept.records) <= kept.count /\ kept.count \in Nat
    BY <2>1, <2>2, <2>3, <2>4 DEF Collects
  <2>6. IsFiniteSet(DOMAIN kept.records)
    BY <2>1, <2>2, <2>3
  <2>7. Collects(kept)
    BY <2>3, <2>5, <2>6 DEF Collects
  <2>. QED
    BY <1>2, <2>7 DEF Kept, kept, records
<1>. QED
  BY <1>1, <1>2

(* What GetData keeps of the records in its queue, and what it answers. *)
LEMMA ReceiverKeepsAsk ==
  ASSUME AskInv, ReceiverStep
  PROVE  AskInv'
<1>. DEFINE Answers == Responses \cup Verifications
<1>1. /\ toReceiver \in Seq(Records) /\ sendQueue \in Seq(Records)
      /\ toSender \in Seq(Answers) /\ responseQueue \in Seq(Answers)
      /\ SenderOK /\ ReceiverOK
  BY DEF AskInv, ChannelsOK
<1>2. sender' = sender /\ toReceiver' = toReceiver /\ responseQueue' = responseQueue
  BY DEF ReceiverStep, FirstRecord, AnsweredRecord, CollectRecord, CollectBatch,
         senderVars
<1>3. SenderOK'
  BY <1>1, <1>2 DEF SenderOK
<1>4. ASSUME TakesSend
      PROVE  Head(sendQueue) \in Records /\ sendQueue' \in Seq(Records)
  BY <1>1, <1>4, Taken DEF TakesSend
<1>5. ASSUME toSender' \in Seq(Answers), sendQueue' \in Seq(Records), ReceiverOK'
      PROVE  AskInv'
  BY <1>1, <1>2, <1>3, <1>5 DEF AskInv, ChannelsOK
<1>6. ASSUME NEW answer \in Answers, toSender' = Transmit(toSender, <<answer>>)
      PROVE  toSender' \in Seq(Answers)
  <2>1. <<answer>> \in Seq(Answers)
    OBVIOUS
  <2>. HIDE DEF Answers
  <2>. QED
    BY <1>1, <1>6, <2>1, Transmitted
<1>7. CASE FirstRecord
  <2>1. PICK response \in AsInitiate(Head(sendQueue)) :
          /\ receiver' = [pc |-> "answered", tries |-> 0, response |-> response]
          /\ toSender' = Transmit(toSender, <<response>>)
    BY <1>7 DEF FirstRecord
  <2>2. Head(sendQueue) \in Records /\ sendQueue' \in Seq(Records)
    BY <1>4, <1>7 DEF FirstRecord
  <2>3. response \in Responses
    BY <2>1, <2>2, TakenForOther
  <2>4. Answered(receiver)'
    BY <2>1, <2>3 DEF Answered
  <2>5. toSender' \in Seq(Answers)
    BY <1>6, <2>1, <2>3
  <2>. QED
    BY <1>5, <2>2, <2>4, <2>5 DEF ReceiverOK
<1>8. CASE AnsweredRecord
  <2>1. receiver \in [pc : {"answered"}, tries : Nat, response : Responses]
    BY <1>1, <1>8 DEF AnsweredRecord, ReceiverOK, Listens, Answered, Collects
  <2>2. Head(sendQueue) \in Records /\ sendQueue' \in Seq(Records)
    BY <1>4, <1>8 DEF AnsweredRecord
  <2>3. CASE Head(sendQueue).kind = "initiate"
    <3>1. toSender' = Transmit(toSender, <<receiver.response>>) /\ receiver' = receiver
      BY <1>8, <2>3 DEF AnsweredRecord
    <3>2. toSender' \in Seq(Answers)
      BY <1>6, <2>1, <3>1
    <3>3. Answered(receiver)'
      BY <2>1, <3>1 DEF Answered
    <3>. QED
      BY <1>5, <2>2, <3>2, <3>3 DEF ReceiverOK
  <2>4. CASE Head(sendQueue).kind # "initiate"
    <3>1. toSender' = toSender /\ receiver' = Collecting(receiver.response, Head(sendQueue))
      BY <1>8, <2>4 DEF AnsweredRecord
    <3>2. ASSUME NEW m \in Records, NEW response \in Responses
          PROVE  Collects(Collecting(response, m))
      <4>. DEFINE r == Collecting(response, m)
      <4>1. /\ DOMAIN r = {"pc", "response", "done", "count", "records", "built"}
            /\ r.pc = "collecting" /\ r.response = response
            /\ r.done = 0 /\ r.count = 1 /\ r.records = With(<<>>, m)
        BY DEF Collecting
      <4>2. DOMAIN With(<<>>, m) = {m.number}
        BY DEF With
      <4>3. IsFiniteSet({m.number}) /\ Cardinality({m.number}) = 1
        BY FS_Singleton
      <4>. HIDE DEF r
      <4>. QED
        BY <4>1, <4>2, <4>3 DEF Collects, r
    <3>3. Collects(receiver')
      BY <2>1, <2>2, <3>1, <3>2
    <3>4. toSender' \in Seq(Answers)
      BY <1>1, <3>1
    <3>. QED
      BY <1>5, <2>2, <3>3, <3>4 DEF ReceiverOK, Collects
  <2>. QED
    BY <2>3, <2>4
<1>9. CASE CollectRecord
  <2>1. Collects(receiver)
    BY <1>1, <1>9 DEF CollectRecord, ReceiverOK, Listens, Answered
  <2>2. Head(sendQueue) \in Records /\ sendQueue' \in Seq(Records)
    BY <1>4, <1>9 DEF CollectRecord
  <2>3. AsData(Head(sendQueue)).number \in Int
    BY <2>2, TakenForOther
  <2>4. Collects(Kept(receiver, AsData(Head(sendQueue))))
    BY <2>1, <2>3, KeptIsCounted
  <2>5. Collects(receiver') /\ toSender' \in Seq(Answers)
    BY <1>1, <1>9, <2>4 DEF CollectRecord
  <2>. QED
    BY <1>5, <2>2, <2>5 DEF ReceiverOK, Collects
<1>10. CASE CollectBatch
  <2>1. Collects(receiver)
    BY <1>1, <1>10 DEF CollectBatch, ReceiverOK, Listens, Answered
  <2>2. /\ receiver.response \in Responses /\ receiver.done \in Nat
        /\ receiver.response.id \in Transfers /\ receiver.response.interval \in Nat
    BY <2>1 DEF Collects, Responses
  <2>3. Verification(receiver.response.id, <<>>) \in Answers
    <3>1. <<>> \in Seq(Int)
      BY EmptySeq
    <3>2. \A nothing \in Seq(Int) : Verification(receiver.response.id, nothing) \in Answers
      BY <2>2 DEF Verifications
    <3>. QED
      BY <3>1, <3>2, Zenon
  <2>4. toSender' \in Seq(Answers)
    BY <1>6, <1>10, <2>3 DEF CollectBatch
  <2>5. sendQueue' \in Seq(Records)
    BY <1>1, <1>10 DEF CollectBatch
  <2>6. ASSUME NEW built, GetReturns(built)
        PROVE  ReceiverOK'
    <3>1. Listens(receiver)'
      BY <2>6 DEF GetReturns, Listening, Listens
    <3>. QED
      BY <3>1 DEF ReceiverOK
  <2>. DEFINE next(built, done) ==
                [receiver EXCEPT !.built = built, !.done = done, !.count = 0,
                                 !.records = <<>>]
  <2>7. ASSUME NEW built, NEW done \in Nat, receiver' = next(built, done)
        PROVE  ReceiverOK'
    <3>1. /\ DOMAIN receiver' = {"pc", "response", "done", "count", "records", "built"}
          /\ receiver'.pc = "collecting" /\ receiver'.response = receiver.response
          /\ receiver'.done = done /\ receiver'.count = 0 /\ receiver'.records = <<>>
      BY <2>1, <2>7 DEF Collects
    <3>2. DOMAIN receiver'.records = {}
      BY <3>1
    <3>3. Collects(receiver)'
      BY <2>2, <2>7, <3>1, <3>2, FS_EmptySet DEF Collects
    <3>. QED
      BY <3>3 DEF ReceiverOK
  <2>8. PICK done \in Nat : done = receiver.done + Lesser(receiver.response.interval, 1)
    BY <2>2 DEF Lesser
  <2>9. \/ GetReturns(receiver.built \o Joined)
        \/ receiver' = next(receiver.built \o Joined, done)
    BY <1>10, <2>8 DEF CollectBatch
  <2>10. ReceiverOK'
    BY <2>6, <2>7, <2>9
  <2>. QED
    BY <1>5, <2>4, <2>5, <2>10
<1>. QED
  BY <1>7, <1>8, <1>9, <1>10 DEF ReceiverStep

-----------------------------------------------------------------------------
(* The theorem.                                                            *)

(* Every step of either side and of the network keeps the invariant. *)
LEMMA AskStep ==
  ASSUME AskInv, [Next]_vars
  PROVE  AskInv'
<1>. DEFINE Answers == Responses \cup Verifications
<1>1. /\ toReceiver \in Seq(Records) /\ sendQueue \in Seq(Records)
      /\ toSender \in Seq(Answers) /\ responseQueue \in Seq(Answers)
      /\ SenderOK /\ ReceiverOK
  BY DEF AskInv, ChannelsOK
<1>2. ASSUME UNCHANGED senderVars
      PROVE  SenderOK'
  BY <1>1, <1>2 DEF senderVars, SenderOK
<1>3. ASSUME UNCHANGED receiverVars
      PROVE  ReceiverOK'
  BY <1>1, <1>3 DEF receiverVars, ReceiverOK, Listens, Answered, Collects
<1>4. ASSUME sendQueue' = sendQueue, responseQueue' = responseQueue,
             toReceiver' \in Seq(Records), toSender' \in Seq(Answers),
             SenderOK', ReceiverOK'
      PROVE  AskInv'
  BY <1>1, <1>4 DEF AskInv, ChannelsOK
<1>5. ASSUME SenderTimeout
      PROVE  SenderOK' /\ toReceiver' \in Seq(Records)
  BY <1>5, SenderTimeoutKeepsAsk
<1>6. ASSUME ReceiverTimeout
      PROVE  ReceiverOK' /\ toSender' \in Seq(Answers)
  BY <1>6, ReceiverTimeoutKeepsAsk
<1>. HIDE DEF Answers
<1>7. CASE EarlyTimeout
  <2>1. sendQueue' = sendQueue /\ responseQueue' = responseQueue
    BY <1>7 DEF EarlyTimeout
  <2>2. CASE SenderTimeout /\ UNCHANGED <<receiverVars, toSender>>
    BY <1>1, <1>3, <1>4, <1>5, <2>1, <2>2
  <2>3. CASE ReceiverTimeout /\ UNCHANGED <<senderVars, toReceiver>>
    BY <1>1, <1>2, <1>4, <1>6, <2>1, <2>3
  <2>. QED
    BY <1>7, <2>2, <2>3 DEF EarlyTimeout
<1>8. CASE QuietSecond
  <2>1. /\ sendQueue' = sendQueue /\ responseQueue' = responseQueue
        /\ ReceiverTimeout
        /\ SenderTimeout \/ UNCHANGED <<senderVars, toReceiver>>
    BY <1>8 DEF QuietSecond
  <2>2. SenderOK' /\ toReceiver' \in Seq(Records)
    BY <1>1, <1>2, <1>5, <2>1
  <2>. QED
    BY <1>4, <1>6, <2>1, <2>2
<1>9. CASE UNCHANGED vars
  <2>1. /\ sendQueue' = sendQueue /\ responseQueue' = responseQueue
        /\ toReceiver' = toReceiver /\ toSender' = toSender
        /\ UNCHANGED senderVars /\ UNCHANGED receiverVars
    BY <1>9 DEF vars
  <2>. QED
    BY <1>1, <1>2, <1>3, <1>4, <2>1
<1>. QED
  BY <1>7, <1>8, <1>9, SenderKeepsAsk, ReceiverKeepsAsk, NetworkKeepsAsk DEF Next

(* The inductive invariant of the transfer: what travels are records of    *)
(* the strings and responses to records, and the receiver's count covers   *)
(* the numbers it keeps.                                                   *)
THEOREM AskInvariant == Spec => []AskInv
<1>1. Init => AskInv
  BY AskInit
<1>2. AskInv /\ [Next]_vars => AskInv'
  BY AskStep
<1>. QED
  BY <1>1, <1>2, PTL DEF Spec

(* For any strings, any network and any bytes taken for an interval:       *)
(* GetData that asks for records asks for at least one that it lacks, so   *)
(* SendData never takes what it asks for the whole batch's arrival.        *)
THEOREM AskingMeansLacking == Spec => []AskingMeansMissing
<1>1. AskInv => AskingMeansMissing
  BY CountedMeansMissing DEF AskInv, ReceiverOK, Listens, Answered, AskingMeansMissing
<1>. QED
  BY <1>1, AskInvariant, PTL

-----------------------------------------------------------------------------
(* Sequences that change at one place.                                     *)

(* A sequence without its k-th element, and with that one twice. *)
Drops(w, w2, k) ==
    /\ k \in 1..Len(w) /\ Len(w2) = Len(w) - 1
    /\ \A j \in 1..Len(w2) : w2[j] = IF j < k THEN w[j] ELSE w[j + 1]
Repeats(w, w2, k) ==
    /\ k \in 1..Len(w) /\ Len(w2) = Len(w) + 1
    /\ \A j \in 1..Len(w2) : w2[j] = IF j <= k THEN w[j] ELSE w[j - 1]

(* The sequence w is q with s behind it. *)
Joins(w, q, s) ==
    /\ Len(w) = Len(q) + Len(s) /\ Len(q) \in Nat /\ Len(s) \in Nat
    /\ \A i \in 1..Len(q) : w[i] = q[i]
    /\ \A i \in 1..Len(s) : w[Len(q) + i] = s[i]

(* Two queues of which the first is in front are one. *)
LEMMA Joint ==
  ASSUME NEW S, NEW q \in Seq(S), NEW s \in Seq(S)
  PROVE  /\ q \o s \in Seq(S) /\ Joins(q \o s, q, s)
         /\ q \o s = <<>> <=> q = <<>> /\ s = <<>>
<1>1. /\ q \o s \in Seq(S) /\ Len(q \o s) = Len(q) + Len(s)
      /\ Len(q) \in Nat /\ Len(s) \in Nat
      /\ \A i \in 1..Len(q) : (q \o s)[i] = q[i]
  BY ConcatProperties, LenProperties
<1>2. \A i \in 1..Len(s) : (q \o s)[Len(q) + i] = s[i]
  <2>. TAKE i \in 1..Len(s)
  <2>1. Len(q) + i \in 1..(Len(q) + Len(s)) /\ ~ (Len(q) + i <= Len(q))
    BY <1>1
  <2>2. (q \o s)[Len(q) + i] = s[Len(q) + i - Len(q)]
    BY <2>1, ConcatProperties
  <2>3. Len(q) + i - Len(q) = i
    BY <1>1
  <2>. QED
    BY <2>2, <2>3
<1>3. q \o s = <<>> <=> q = <<>> /\ s = <<>>
  BY <1>1, EmptySeq
<1>. QED
  BY <1>1, <1>2, <1>3 DEF Joins

(* What the listener hands on stays where it is. *)
LEMMA Listened ==
  ASSUME NEW S, NEW q \in Seq(S), NEW s \in Seq(S), 1 \in DOMAIN s
  PROVE  Append(q, s[1]) \o RemoveAt(s, 1) = q \o s
<1>1. Len(s) \in Nat /\ Len(s) >= 1 /\ s[1] \in S /\ s # <<>>
  BY LenProperties, ElementOfSeq
<1>2. RemoveAt(s, 1) = Tail(s)
  <2>1. SubSeq(s, 1, 1 - 1) = <<>>
    BY <1>1, SubSeqProperties
  <2>2. Tail(s) = SubSeq(s, 2, Len(s))
    BY <1>1
  <2>3. SubSeq(s, 1 + 1, Len(s)) = Tail(s)
    BY <2>2
  <2>4. Tail(s) \in Seq(S)
    BY <1>1, HeadTailProperties
  <2>5. <<>> \o Tail(s) = Tail(s)
    BY <2>4, ConcatEmptySeq
  <2>. QED
    BY <2>1, <2>3, <2>5 DEF RemoveAt
<1>3. /\ Tail(s) \in Seq(S) /\ Len(Tail(s)) = Len(s) - 1
      /\ \A i \in 1..Len(Tail(s)) : Tail(s)[i] = s[i + 1]
  BY <1>1, HeadTailProperties
<1>4. /\ Append(q, s[1]) \in Seq(S) /\ Len(Append(q, s[1])) = Len(q) + 1
      /\ \A i \in 1..Len(q) : Append(q, s[1])[i] = q[i]
      /\ Append(q, s[1])[Len(q) + 1] = s[1]
  BY <1>1, AppendProperties
<1>. DEFINE a == Append(q, s[1])
            u == Tail(s)
            left == a \o u
            right == q \o s
<1>5. /\ a \in Seq(S) /\ Len(a) = Len(q) + 1 /\ Len(q) \in Nat
      /\ \A i \in 1..Len(q) : a[i] = q[i]
      /\ a[Len(q) + 1] = s[1]
  BY <1>4, LenProperties DEF Joins
<1>6. u \in Seq(S) /\ Len(u) = Len(s) - 1 /\ \A i \in 1..Len(u) : u[i] = s[i + 1]
  BY <1>3 DEF Joins
<1>. HIDE DEF a, u
<1>12. a \in Seq(S) /\ u \in Seq(S) /\ Len(q) \in Nat
  BY <1>5, <1>6
<1>7. left \in Seq(S) /\ Joins(left, a, u)
  BY <1>12, Joint
<1>8. right \in Seq(S) /\ Joins(right, q, s)
  BY Joint
<1>. HIDE DEF left, right
<1>9. Len(left) = Len(right)
  BY <1>1, <1>5, <1>6, <1>7, <1>8 DEF Joins
<1>10. ASSUME NEW i \in 1..Len(left) PROVE left[i] = right[i]
  <2>1. CASE i <= Len(q)
    BY <1>5, <1>7, <1>8, <2>1 DEF Joins
  <2>2. CASE i = Len(q) + 1
    <3>1. left[i] = a[i] /\ right[i] = s[1]
      BY <1>1, <1>5, <1>7, <1>8, <2>2 DEF Joins
    <3>. QED
      BY <1>5, <2>2, <3>1
  <2>3. CASE i > Len(q) + 1
    <3>0. i \in Int /\ Len(q) \in Int
      BY <1>12
    <3>3. i - (Len(q) + 1) \in Int
      BY <3>0
    <3>1. PICK j \in Int : j = i - (Len(q) + 1)
      BY <3>3
    <3>2. j \in 1..Len(u) /\ i = Len(a) + j /\ j + 1 \in 1..Len(s) /\ i = Len(q) + (j + 1)
      BY <1>1, <1>5, <1>6, <1>7, <2>3, <3>1 DEF Joins
    <3>4. left[i] = u[j] /\ right[i] = s[j + 1]
      BY <1>7, <1>8, <3>2 DEF Joins
    <3>. QED
      BY <1>6, <3>2, <3>4
  <2>. QED
    BY <1>5, <2>1, <2>2, <2>3
<1>11. left = right
  BY <1>7, <1>8, <1>9, <1>10, SeqEqual
<1>. QED
  BY <1>2, <1>11 DEF left, right, a, u

(* Taking from the front of the first takes from the front of both. *)
LEMMA FrontTaken ==
  ASSUME NEW S, NEW q \in Seq(S), NEW s \in Seq(S), q # <<>>
  PROVE  /\ Drops(q \o s, Tail(q) \o s, 1) /\ (q \o s)[1] = Head(q)
<1>1. /\ Len(q) \in Nat /\ Len(q) >= 1 /\ Head(q) = q[1]
      /\ Tail(q) \in Seq(S) /\ Len(Tail(q)) = Len(q) - 1
      /\ \A i \in 1..Len(Tail(q)) : Tail(q)[i] = q[i + 1]
  BY HeadTailProperties, LenProperties, EmptySeq
<1>. DEFINE u == Tail(q)
            left == u \o s
            right == q \o s
<1>2. u \in Seq(S) /\ Len(u) = Len(q) - 1 /\ \A i \in 1..Len(u) : u[i] = q[i + 1]
  BY <1>1
<1>. HIDE DEF u
<1>10. u \in Seq(S) /\ Len(u) \in Nat
  BY <1>2, LenProperties
<1>3. Joins(left, u, s)
  BY <1>10, Joint
<1>4. Joins(right, q, s)
  BY Joint
<1>. HIDE DEF left, right
<1>5. ASSUME NEW i \in 1..Len(left) PROVE left[i] = right[i + 1]
  <2>1. CASE i <= Len(u)
    <3>1. i \in 1..Len(u) /\ i + 1 \in 1..Len(q)
      BY <1>1, <1>2, <1>10, <2>1
    <3>2. left[i] = u[i] /\ right[i + 1] = q[i + 1]
      BY <1>3, <1>4, <3>1 DEF Joins
    <3>. QED
      BY <1>2, <3>1, <3>2
  <2>2. CASE i > Len(u)
    <3>1. PICK j \in Int : j = i - Len(u)
      BY <1>10
    <3>2. j \in 1..Len(s) /\ i = Len(u) + j /\ i + 1 = Len(q) + j
      BY <1>1, <1>2, <1>3, <2>2, <3>1 DEF Joins
    <3>. QED
      BY <1>3, <1>4, <3>2 DEF Joins
  <2>. QED
    BY <1>1, <1>2, <2>1, <2>2
<1>6. Len(left) = Len(right) - 1 /\ 1 \in 1..Len(right)
  BY <1>1, <1>2, <1>3, <1>4 DEF Joins
<1>7. \A j \in 1..Len(left) : left[j] = IF j < 1 THEN right[j] ELSE right[j + 1]
  BY <1>5
<1>8. right[1] = Head(q)
  BY <1>1, <1>4 DEF Joins
<1>9. Drops(right, left, 1)
  BY <1>6, <1>7 DEF Drops
<1>. QED
  BY <1>8, <1>9 DEF left, right, u

(* r goes behind w, as much of it as there is room for. *)
Sends(w, w2, r) ==
    /\ Len(w2) <= Len(w) + Len(r)
    /\ \A i \in 1..Len(w2) : w2[i] = IF i <= Len(w) THEN w[i] ELSE r[i - Len(w)]

(* What is sent goes behind what is there, as far as there is room. *)
LEMMA SentBehind ==
  ASSUME NEW S, NEW q \in Seq(S), NEW s \in Seq(S), NEW r \in Seq(S)
  PROVE  /\ Sends(q \o s, q \o Transmit(s, r), r)
         /\ Len(s) + Len(r) <= NetCapacity =>
              Len(q \o Transmit(s, r)) = Len(q \o s) + Len(r)
<1>. DEFINE all == s \o r
            size == Lesser(Len(all), NetCapacity)
            sent == Transmit(s, r)
            left == q \o sent
            right == q \o s
<1>1. all \in Seq(S) /\ Joins(all, s, r)
  BY Joint
<1>2. right \in Seq(S) /\ Joins(right, q, s)
  BY Joint
<1>3. sent \in Seq(S)
  BY Transmitted
<1>4. left \in Seq(S) /\ Joins(left, q, sent)
  BY <1>3, Joint
<1>5. sent = SubSeq(all, 1, size)
  BY DEF Transmit
<1>6. Len(all) \in Nat /\ NetCapacity \in Nat
  BY <1>1, SizesAreGiven, LenProperties
<1>. HIDE DEF all, sent, left, right
<1>7. size \in Nat /\ size <= Len(all) /\ (Len(all) <= NetCapacity => size = Len(all))
  BY <1>6 DEF Lesser
<1>. HIDE DEF size
<1>8. /\ Len(sent) = size
      /\ \A i \in 1..size : sent[i] = all[i]
  <2>1. \A i \in 1..size : all[i] \in S
    BY <1>1, <1>6, <1>7, ElementOfSeq
  <2>2. size - 1 + 1 = size
    BY <1>7
  <2>3. Len(sent) = size
    BY <1>5, <1>6, <1>7, <2>1, SubSeqProperties
  <2>4. \A i \in 1..size : sent[i] = all[i]
    BY <1>5, <1>6, <1>7, <2>1, SubSeqProperties
  <2>. QED
    BY <2>3, <2>4
<1>9. /\ Len(q) \in Nat /\ Len(s) \in Nat /\ Len(r) \in Nat /\ Len(all) = Len(s) + Len(r)
      /\ Len(left) = Len(q) + size /\ Len(right) = Len(q) + Len(s)
  BY <1>1, <1>2, <1>4, <1>8 DEF Joins
<1>10. Len(left) <= Len(right) + Len(r)
  BY <1>7, <1>9
<1>11. ASSUME NEW i \in 1..Len(left)
       PROVE  left[i] = IF i <= Len(right) THEN right[i] ELSE r[i - Len(right)]
  <2>0. i \in Int
    BY <1>7, <1>9
  <2>1. CASE i <= Len(q)
    <3>1. i \in 1..Len(q) /\ i <= Len(right)
      BY <1>9, <2>1
    <3>2. left[i] = q[i] /\ right[i] = q[i]
      BY <1>2, <1>4, <3>1 DEF Joins
    <3>. QED
      BY <3>1, <3>2
  <2>2. CASE i > Len(q)
    <3>1. i - Len(q) \in Int
      BY <1>9, <2>0
    <3>2. PICK j \in Int : j = i - Len(q)
      BY <3>1
    <3>3. j \in 1..size /\ j \in 1..Len(all) /\ i = Len(q) + j
      BY <1>7, <1>9, <2>2, <3>2
    <3>4. left[i] = all[j]
      BY <1>4, <1>8, <3>3 DEF Joins
    <3>5. CASE j <= Len(s)
      <4>1. j \in 1..Len(s) /\ i <= Len(right)
        BY <1>9, <3>3, <3>5
      <4>2. all[j] = s[j] /\ right[i] = s[j]
        BY <1>1, <1>2, <3>3, <4>1 DEF Joins
      <4>. QED
        BY <3>4, <4>1, <4>2
    <3>6. CASE j > Len(s)
      <4>1. j - Len(s) \in Int
        BY <1>9
      <4>2. PICK k \in Int : k = j - Len(s)
        BY <4>1
      <4>3. k \in 1..Len(r) /\ j = Len(s) + k /\ ~ (i <= Len(right)) /\ i - Len(right) = k
        BY <1>9, <3>3, <3>6, <4>2
      <4>4. all[j] = r[k]
        BY <1>1, <4>3 DEF Joins
      <4>. QED
        BY <3>4, <4>3, <4>4
    <3>. QED
      BY <1>9, <3>5, <3>6
  <2>. QED
    BY <1>9, <2>0, <2>1, <2>2
<1>12. Sends(right, left, r)
  BY <1>10, <1>11 DEF Sends
<1>13. Len(s) + Len(r) <= NetCapacity => Len(left) = Len(right) + Len(r)
  BY <1>6, <1>7, <1>9
<1>. QED
  BY <1>12, <1>13 DEF left, right, sent

(* What is lost on the way is lost from both. *)
LEMMA LostBehind ==
  ASSUME NEW S, NEW q \in Seq(S), NEW s \in Seq(S), NEW i \in 1..Len(s)
  PROVE  /\ Drops(q \o s, q \o RemoveAt(s, i), Len(q) + i)
         /\ (q \o s)[Len(q) + i] = s[i]
<1>. DEFINE u == RemoveAt(s, i)
            left == q \o u
            right == q \o s
<1>1. Len(s) \in Nat /\ i \in Int /\ 1 <= i /\ i <= Len(s) /\ DOMAIN s = 1..Len(s)
  BY LenProperties
<1>2. u \in Seq(S) /\ Len(u) = Len(s) - 1
      /\ \A j \in 1..Len(u) : u[j] = IF j < i THEN s[j] ELSE s[j + 1]
  <2>. DEFINE a == SubSeq(s, 1, i - 1)
              b == SubSeq(s, i + 1, Len(s))
  <2>1. \A j \in 1..Len(s) : s[j] \in S
    BY ElementOfSeq
  <2>2. a \in Seq(S) /\ Len(a) = i - 1 /\ \A j \in 1..(i - 1) : a[j] = s[j]
    <3>1. i - 1 \in Int /\ 1 <= i - 1 + 1 /\ \A j \in 1..(i - 1) : s[j] \in S
      BY <1>1, <2>1
    <3>2. /\ a \in Seq(S)
          /\ Len(a) = IF 1 <= i - 1 THEN i - 1 - 1 + 1 ELSE 0
          /\ \A j \in 1..(i - 1 - 1 + 1) : a[j] = s[1 + j - 1]
      BY <3>1, SubSeqProperties
    <3>3. Len(a) = i - 1
      BY <1>1, <3>2
    <3>4. \A j \in 1..(i - 1) : j \in 1..(i - 1 - 1 + 1) /\ 1 + j - 1 = j
      BY <1>1
    <3>. QED
      BY <3>2, <3>3, <3>4
  <2>3. b \in Seq(S) /\ Len(b) = Len(s) - i /\ \A j \in 1..(Len(s) - i) : b[j] = s[i + j]
    <3>1. i + 1 \in Int /\ Len(s) \in Int /\ \A j \in (i + 1)..Len(s) : s[j] \in S
      BY <1>1, <2>1
    <3>2. /\ b \in Seq(S)
          /\ Len(b) = IF i + 1 <= Len(s) THEN Len(s) - (i + 1) + 1 ELSE 0
          /\ \A j \in 1..(Len(s) - (i + 1) + 1) : b[j] = s[i + 1 + j - 1]
      BY <3>1, SubSeqProperties
    <3>5. Len(b) = IF i + 1 <= Len(s) THEN Len(s) - (i + 1) + 1 ELSE 0
      BY <3>2
    <3>6. Len(s) \in Int /\ i \in Int /\ i <= Len(s)
      BY <1>1
    <3>3. Len(b) = Len(s) - i
      BY <3>5, <3>6
    <3>4. \A j \in 1..(Len(s) - i) : j \in 1..(Len(s) - (i + 1) + 1) /\ i + 1 + j - 1 = i + j
      BY <1>1
    <3>. QED
      BY <3>2, <3>3, <3>4
  <2>4. u = a \o b
    BY DEF RemoveAt
  <2>5. a \in Seq(S) /\ b \in Seq(S)
    BY <2>2, <2>3
  <2>. HIDE DEF a, b, u
  <2>6. u \in Seq(S) /\ Joins(u, a, b)
    BY <2>4, <2>5, Joint
  <2>7. Len(u) = Len(s) - 1
    BY <1>1, <2>2, <2>3, <2>6 DEF Joins
  <2>8. ASSUME NEW j \in 1..Len(u) PROVE u[j] = IF j < i THEN s[j] ELSE s[j + 1]
    <3>1. CASE j < i
      <4>1. j \in 1..(i - 1)
        BY <1>1, <2>7, <3>1
      <4>2. j \in 1..Len(a)
        BY <2>2, <4>1
      <4>. QED
        BY <2>2, <2>6, <3>1, <4>1, <4>2 DEF Joins
    <3>2. CASE ~ (j < i)
      <4>1. j - (i - 1) \in Int
        BY <1>1, <2>7
      <4>2. PICK k \in Int : k = j - (i - 1)
        BY <4>1
      <4>3. k \in 1..(Len(s) - i) /\ j = (i - 1) + k /\ i + k = j + 1
        BY <1>1, <2>7, <3>2, <4>2
      <4>4. k \in 1..Len(b) /\ j = Len(a) + k
        BY <2>2, <2>3, <4>3
      <4>5. u[j] = b[k]
        BY <2>6, <4>4 DEF Joins
      <4>6. b[k] = s[j + 1]
        BY <2>3, <4>3
      <4>. QED
        BY <3>2, <4>5, <4>6
    <3>. QED
      BY <3>1, <3>2
  <2>. QED
    BY <2>6, <2>7, <2>8
<1>. HIDE DEF u
<1>3. left \in Seq(S) /\ Joins(left, q, u)
  BY <1>2, Joint
<1>4. right \in Seq(S) /\ Joins(right, q, s)
  BY Joint
<1>. HIDE DEF left, right
<1>5. /\ Len(q) \in Nat /\ Len(left) = Len(q) + (Len(s) - 1)
      /\ Len(right) = Len(q) + Len(s)
  BY <1>2, <1>3, <1>4 DEF Joins
<1>6. ASSUME NEW j \in 1..Len(left)
      PROVE  left[j] = IF j < Len(q) + i THEN right[j] ELSE right[j + 1]
  <2>0. j \in Int
    BY <1>1, <1>5
  <2>1. CASE j <= Len(q)
    <3>1. j \in 1..Len(q) /\ j < Len(q) + i
      BY <1>1, <1>5, <2>0, <2>1
    <3>. QED
      BY <1>3, <1>4, <3>1 DEF Joins
  <2>2. CASE j > Len(q)
    <3>1. j - Len(q) \in Int
      BY <1>5, <2>0
    <3>2. PICK k \in Int : k = j - Len(q)
      BY <3>1
    <3>3. /\ k \in 1..(Len(s) - 1) /\ j = Len(q) + k
          /\ k \in 1..Len(s) /\ k + 1 \in 1..Len(s) /\ j + 1 = Len(q) + (k + 1)
          /\ (k < i <=> j < Len(q) + i)
      BY <1>1, <1>5, <2>2, <3>2
    <3>4. k \in 1..Len(u)
      BY <1>2, <3>3
    <3>5. left[j] = u[k]
      BY <1>3, <3>3, <3>4 DEF Joins
    <3>6. right[j] = s[k] /\ right[j + 1] = s[k + 1]
      BY <1>4, <3>3 DEF Joins
    <3>7. u[k] = IF k < i THEN s[k] ELSE s[k + 1]
      BY <1>2, <3>4
    <3>. QED
      BY <3>3, <3>5, <3>6, <3>7
  <2>. QED
    BY <1>5, <2>0, <2>1, <2>2
<1>7. Len(q) + i \in 1..Len(right) /\ Len(left) = Len(right) - 1
  BY <1>1, <1>5
<1>8. right[Len(q) + i] = s[i]
  BY <1>4 DEF Joins
<1>9. Drops(right, left, Len(q) + i)
  BY <1>6, <1>7 DEF Drops
<1>. QED
  BY <1>8, <1>9 DEF left, right, u

(* What arrives twice is in both twice. *)
LEMMA RepeatedBehind ==
  ASSUME NEW S, NEW q \in Seq(S), NEW s \in Seq(S), NEW i \in 1..Len(s)
  PROVE  /\ Repeats(q \o s, q \o InsertAt(s, i, s[i]), Len(q) + i)
         /\ (q \o s)[Len(q) + i] = s[i]
<1>. DEFINE u == InsertAt(s, i, s[i])
            left == q \o u
            right == q \o s
<1>1. Len(s) \in Nat /\ i \in Int /\ 1 <= i /\ i <= Len(s) /\ DOMAIN s = 1..Len(s)
  BY LenProperties
<1>2. u \in Seq(S) /\ Len(u) = Len(s) + 1
      /\ \A j \in 1..Len(u) : u[j] = IF j <= i THEN s[j] ELSE s[j - 1]
  <2>. DEFINE a == SubSeq(s, 1, i - 1)
              b == SubSeq(s, i, Len(s))
              c == <<s[i]>>
              d == a \o c
  <2>1. \A j \in 1..Len(s) : s[j] \in S
    BY ElementOfSeq
  <2>2. a \in Seq(S) /\ Len(a) = i - 1 /\ \A j \in 1..(i - 1) : a[j] = s[j]
    <3>1. i - 1 \in Int /\ 1 <= i - 1 + 1 /\ \A j \in 1..(i - 1) : s[j] \in S
      BY <1>1, <2>1
    <3>2. /\ a \in Seq(S)
          /\ Len(a) = IF 1 <= i - 1 THEN i - 1 - 1 + 1 ELSE 0
          /\ \A j \in 1..(i - 1 - 1 + 1) : a[j] = s[1 + j - 1]
      BY <3>1, SubSeqProperties
    <3>3. Len(a) = i - 1
      BY <1>1, <3>2
    <3>4. \A j \in 1..(i - 1) : j \in 1..(i - 1 - 1 + 1) /\ 1 + j - 1 = j
      BY <1>1
    <3>. QED
      BY <3>2, <3>3, <3>4
  <2>3. b \in Seq(S) /\ Len(b) = Len(s) - i + 1
        /\ \A j \in 1..(Len(s) - i + 1) : b[j] = s[i + j - 1]
    <3>1. i \in Int /\ Len(s) \in Int /\ \A j \in i..Len(s) : s[j] \in S
      BY <1>1, <2>1
    <3>2. /\ b \in Seq(S)
          /\ Len(b) = IF i <= Len(s) THEN Len(s) - i + 1 ELSE 0
          /\ \A j \in 1..(Len(s) - i + 1) : b[j] = s[i + j - 1]
      BY <3>1, SubSeqProperties
    <3>3. Len(b) = IF i <= Len(s) THEN Len(s) - i + 1 ELSE 0
      BY <3>2
    <3>4. Len(b) = Len(s) - i + 1
      BY <1>1, <3>3
    <3>. QED
      BY <3>2, <3>4
  <2>4. c \in Seq(S) /\ Len(c) = 1 /\ c[1] = s[i]
    BY <2>1
  <2>5. u = d \o b
    BY DEF InsertAt
  <2>6. a \in Seq(S) /\ b \in Seq(S) /\ c \in Seq(S)
    BY <2>2, <2>3, <2>4
  <2>. HIDE DEF a, b, c, u
  <2>7. d \in Seq(S) /\ Joins(d, a, c)
    BY <2>6, Joint
  <2>. HIDE DEF d
  <2>8. u \in Seq(S) /\ Joins(u, d, b)
    BY <2>5, <2>6, <2>7, Joint
  <2>9. Len(d) = i /\ Len(u) = Len(s) + 1
    <3>1. Len(d) = Len(a) + Len(c) /\ Len(u) = Len(d) + Len(b)
      BY <2>7, <2>8 DEF Joins
    <3>2. Len(a) = i - 1 /\ Len(c) = 1 /\ Len(b) = Len(s) - i + 1
      BY <2>2, <2>3, <2>4
    <3>. QED
      BY <1>1, <3>1, <3>2
  <2>10. \A j \in 1..i : d[j] = s[j]
    <3>. TAKE j \in 1..i
    <3>1. CASE j < i
      <4>1. j \in 1..(i - 1)
        BY <1>1, <3>1
      <4>2. j \in 1..Len(a)
        BY <2>2, <4>1
      <4>. QED
        BY <2>2, <2>7, <4>1, <4>2 DEF Joins
    <3>2. CASE j = i
      <4>1. j = Len(a) + 1 /\ 1 \in 1..Len(c)
        BY <1>1, <2>2, <2>4, <3>2
      <4>2. d[j] = c[1]
        BY <2>7, <4>1 DEF Joins
      <4>. QED
        BY <2>4, <3>2, <4>2
    <3>. QED
      BY <1>1, <3>1, <3>2
  <2>11. ASSUME NEW j \in 1..Len(u) PROVE u[j] = IF j <= i THEN s[j] ELSE s[j - 1]
    <3>1. CASE j <= i
      <4>1. j \in 1..i /\ j \in 1..Len(d)
        BY <1>1, <2>9, <3>1
      <4>2. u[j] = d[j]
        BY <2>8, <4>1 DEF Joins
      <4>. QED
        BY <2>10, <3>1, <4>1, <4>2
    <3>2. CASE ~ (j <= i)
      <4>1. j - i \in Int
        BY <1>1, <2>9
      <4>2. PICK k \in Int : k = j - i
        BY <4>1
      <4>3. k \in 1..(Len(s) - i + 1) /\ j = i + k /\ i + k - 1 = j - 1
        BY <1>1, <2>9, <3>2, <4>2
      <4>4. k \in 1..Len(b) /\ j = Len(d) + k
        BY <2>3, <2>9, <4>3
      <4>5. u[j] = b[k]
        BY <2>8, <4>4 DEF Joins
      <4>6. b[k] = s[j - 1]
        BY <2>3, <4>3
      <4>. QED
        BY <3>2, <4>5, <4>6
    <3>. QED
      BY <3>1, <3>2
  <2>. QED
    BY <2>8, <2>9, <2>11
<1>. HIDE DEF u
<1>3. left \in Seq(S) /\ Joins(left, q, u)
  BY <1>2, Joint
<1>4. right \in Seq(S) /\ Joins(right, q, s)
  BY Joint
<1>. HIDE DEF left, right
<1>5. /\ Len(q) \in Nat /\ Len(left) = Len(q) + (Len(s) + 1)
      /\ Len(right) = Len(q) + Len(s)
  BY <1>2, <1>3, <1>4 DEF Joins
<1>6. ASSUME NEW j \in 1..Len(left)
      PROVE  left[j] = IF j <= Len(q) + i THEN right[j] ELSE right[j - 1]
  <2>0. j \in Int
    BY <1>1, <1>5
  <2>1. CASE j <= Len(q)
    <3>1. j \in 1..Len(q) /\ j <= Len(q) + i
      BY <1>1, <1>5, <2>0, <2>1
    <3>. QED
      BY <1>3, <1>4, <3>1 DEF Joins
  <2>2. CASE j > Len(q)
    <3>1. j - Len(q) \in Int
      BY <1>5, <2>0
    <3>2. PICK k \in Int : k = j - Len(q)
      BY <3>1
    <3>3. /\ k \in 1..(Len(s) + 1) /\ j = Len(q) + k
          /\ (k <= i => k \in 1..Len(s))
          /\ (~ (k <= i) => k - 1 \in 1..Len(s)) /\ j - 1 = Len(q) + (k - 1)
          /\ (k <= i <=> j <= Len(q) + i)
      BY <1>1, <1>5, <2>2, <3>2
    <3>4. k \in 1..Len(u)
      BY <1>2, <3>3
    <3>5. left[j] = u[k]
      BY <1>3, <3>3, <3>4 DEF Joins
    <3>6. /\ k <= i => right[j] = s[k]
          /\ ~ (k <= i) => right[j - 1] = s[k - 1]
      BY <1>4, <3>3 DEF Joins
    <3>7. u[k] = IF k <= i THEN s[k] ELSE s[k - 1]
      BY <1>2, <3>4
    <3>. QED
      BY <3>3, <3>5, <3>6, <3>7
  <2>. QED
    BY <1>5, <2>0, <2>1, <2>2
<1>7. Len(q) + i \in 1..Len(right) /\ Len(left) = Len(right) + 1
  BY <1>1, <1>5
<1>8. right[Len(q) + i] = s[i]
  BY <1>4 DEF Joins
<1>9. Repeats(right, left, Len(q) + i)
  BY <1>6, <1>7 DEF Repeats
<1>. QED
  BY <1>8, <1>9 DEF left, right, u

-----------------------------------------------------------------------------
(* The same of what travels.                                               *)

(* All of one kind stay of that kind. *)
LEMMA AllStay ==
  ASSUME NEW w, NEW w2, NEW k, NEW m, Len(w) \in Nat, AllAre(w, m),
         Drops(w, w2, k) \/ Repeats(w, w2, k)
  PROVE  AllAre(w2, m)
<1>1. CASE Drops(w, w2, k)
  BY <1>1 DEF Drops, AllAre
<1>2. CASE Repeats(w, w2, k)
  BY <1>2 DEF Repeats, AllAre
<1>. QED
  BY <1>1, <1>2

(* What the records of a string say. *)
LEMMA Kinds ==
  ASSUME NEW t
  PROVE  /\ Initiate(t).kind = "initiate" /\ Initiate(t).id = t
         /\ Response(t) = [kind |-> "response", id |-> t, number |-> NumberOfMessages(t),
                           interval |-> Interval(t), total |-> Length[t]]
         /\ \A n : /\ Piece(t, n).kind = "data" /\ Piece(t, n).id = t
                   /\ Piece(t, n).number = n
                   /\ Piece(t, n).data = Partitioned(t, 0, n - 1)
                   /\ Piece(t, n) # Initiate(t)
         /\ \A n, m : Piece(t, n) = Piece(t, m) => n = m
         /\ \A resend : /\ Verification(t, resend).kind = "verification"
                        /\ Verification(t, resend).id = t
                        /\ Verification(t, resend).resend = resend
<1>1. /\ Initiate(t).kind = "initiate" /\ Initiate(t).id = t
      /\ Response(t) = [kind |-> "response", id |-> t, number |-> NumberOfMessages(t),
                        interval |-> Interval(t), total |-> Length[t]]
  BY DEF Initiate, Response
<1>2. ASSUME NEW n
      PROVE  /\ Piece(t, n).kind = "data" /\ Piece(t, n).id = t
             /\ Piece(t, n).number = n
             /\ Piece(t, n).data = Partitioned(t, 0, n - 1)
  BY DEF Piece, DataRecord
<1>3. ASSUME NEW n, NEW m, Piece(t, n) = Piece(t, m) PROVE n = m
  <2>1. Piece(t, n).number = n /\ Piece(t, m).number = m
    BY <1>2
  <2>. QED
    BY <1>3, <2>1
<1>4. ASSUME NEW resend
      PROVE  /\ Verification(t, resend).kind = "verification"
             /\ Verification(t, resend).id = t
             /\ Verification(t, resend).resend = resend
  BY DEF Verification
<1>5. ASSUME NEW n PROVE Piece(t, n) # Initiate(t)
  <2>1. Piece(t, n).kind = "data"
    BY <1>2
  <2>. QED
    BY <1>1, <2>1
<1>. QED
  BY <1>1, <1>2, <1>3, <1>4, <1>5

(* A record that is lost, or taken, leaves the others as they travel. *)
LEMMA TravelsOn ==
  ASSUME NEW w, NEW w2, NEW k, NEW t, NEW kept, Len(w) \in Nat,
         Travels(w, t, kept), Drops(w, w2, k)
  PROVE  /\ Travels(w2, t, kept)
         /\ \A n : OnWire(w, t, n) /\ w[k] # Piece(t, n) => OnWire(w2, t, n)
<1>. DEFINE from(j) == IF j < k THEN j ELSE j + 1
            N == NumberOfMessages(t)
<1>1. /\ k \in 1..Len(w) /\ Len(w2) = Len(w) - 1
      /\ \A j \in 1..Len(w2) : w2[j] = IF j < k THEN w[j] ELSE w[j + 1]
  BY DEF Drops
<1>2. \A j \in 1..Len(w2) : from(j) \in 1..Len(w)
  BY <1>1
<1>3. \A j \in 1..Len(w2) : w2[j] = w[from(j)]
  BY <1>1
<1>4. \A i, j \in 1..Len(w2) : (i < j => from(i) < from(j)) /\ (from(i) = from(j) => i = j)
  BY <1>1
<1>5. \A i \in 1..Len(w) : i # k => \E j \in 1..Len(w2) : from(j) = i
  <2>. TAKE i \in 1..Len(w)
  <2>. HAVE i # k
  <2>1. CASE i < k
    <3>1. i \in 1..Len(w2)
      BY <1>1, <2>1
    <3>. QED
      BY <2>1, <3>1
  <2>2. CASE i > k
    <3>1. i - 1 \in 1..Len(w2) /\ ~ (i - 1 < k) /\ i - 1 + 1 = i
      BY <1>1, <2>2
    <3>2. from(i - 1) = i
      BY <3>1
    <3>. QED
      BY <3>1, <3>2
  <2>. QED
    BY <1>1, <2>1, <2>2
<1>. HIDE DEF from, N
<1>6. /\ \A i \in 1..Len(w) : \/ w[i] = Initiate(t) /\ kept = {}
                              \/ \E n \in 1..N \ kept : w[i] = Piece(t, n)
      /\ \A i, j \in 1..Len(w) : i < j /\ w[j] = Initiate(t) => w[i] = Initiate(t)
      /\ \A i, j \in 1..Len(w) : w[i] = w[j] => i = j \/ w[i] = Initiate(t)
  BY DEF Travels, N
<1>7. \A i \in 1..Len(w2) : \/ w2[i] = Initiate(t) /\ kept = {}
                            \/ \E n \in 1..N \ kept : w2[i] = Piece(t, n)
  <2>. TAKE i \in 1..Len(w2)
  <2>1. from(i) \in 1..Len(w) /\ w2[i] = w[from(i)]
    BY <1>2, <1>3
  <2>. QED
    BY <1>6, <2>1
<1>8. \A i, j \in 1..Len(w2) : i < j /\ w2[j] = Initiate(t) => w2[i] = Initiate(t)
  BY <1>2, <1>3, <1>4, <1>6
<1>9. \A i, j \in 1..Len(w2) : w2[i] = w2[j] => i = j \/ w2[i] = Initiate(t)
  <2>. TAKE i, j \in 1..Len(w2)
  <2>1. /\ from(i) \in 1..Len(w) /\ w2[i] = w[from(i)]
        /\ from(j) \in 1..Len(w) /\ w2[j] = w[from(j)]
    BY <1>2, <1>3
  <2>. QED
    BY <1>4, <1>6, <2>1
<1>10. ASSUME NEW n, OnWire(w, t, n), w[k] # Piece(t, n)
       PROVE  OnWire(w2, t, n)
  <2>1. PICK i \in 1..Len(w) : w[i] = Piece(t, n)
    BY <1>10 DEF OnWire
  <2>2. PICK j \in 1..Len(w2) : from(j) = i
    BY <1>5, <1>10, <2>1
  <2>3. w2[j] = Piece(t, n)
    BY <1>3, <2>1, <2>2
  <2>. QED
    BY <2>3 DEF OnWire
<1>11. Travels(w2, t, kept)
  BY <1>7, <1>8, <1>9 DEF Travels, N
<1>. QED
  BY <1>10, <1>11

(* An initiate that arrives twice changes nothing for the records. *)
LEMMA TravelsTwice ==
  ASSUME NEW w, NEW w2, NEW k, NEW t, NEW kept, Len(w) \in Nat,
         Travels(w, t, kept), Repeats(w, w2, k), w[k] = Initiate(t)
  PROVE  /\ Travels(w2, t, kept)
         /\ \A n : OnWire(w, t, n) => OnWire(w2, t, n)
<1>. DEFINE from(j) == IF j <= k THEN j ELSE j - 1
            N == NumberOfMessages(t)
<1>1. /\ k \in 1..Len(w) /\ Len(w2) = Len(w) + 1
      /\ \A j \in 1..Len(w2) : w2[j] = IF j <= k THEN w[j] ELSE w[j - 1]
  BY DEF Repeats
<1>2. \A j \in 1..Len(w2) : from(j) \in 1..Len(w)
  BY <1>1
<1>3. \A j \in 1..Len(w2) : w2[j] = w[from(j)]
  BY <1>1
<1>4. \A i, j \in 1..Len(w2) : /\ i < j => from(i) < from(j) \/ from(j) = k
                               /\ from(i) = from(j) => i = j \/ from(i) = k
  BY <1>1
<1>5. \A i \in 1..Len(w) : \E j \in 1..Len(w2) : from(j) = i
  <2>. TAKE i \in 1..Len(w)
  <2>1. CASE i <= k
    <3>1. i \in 1..Len(w2)
      BY <1>1, <2>1
    <3>. QED
      BY <2>1, <3>1
  <2>2. CASE i > k
    <3>1. i + 1 \in 1..Len(w2) /\ ~ (i + 1 <= k) /\ i + 1 - 1 = i
      BY <1>1, <2>2
    <3>2. from(i + 1) = i
      BY <3>1
    <3>. QED
      BY <3>1, <3>2
  <2>. QED
    BY <1>1, <2>1, <2>2
<1>. HIDE DEF from, N
<1>6. /\ \A i \in 1..Len(w) : \/ w[i] = Initiate(t) /\ kept = {}
                              \/ \E n \in 1..N \ kept : w[i] = Piece(t, n)
      /\ \A i, j \in 1..Len(w) : i < j /\ w[j] = Initiate(t) => w[i] = Initiate(t)
      /\ \A i, j \in 1..Len(w) : w[i] = w[j] => i = j \/ w[i] = Initiate(t)
  BY DEF Travels, N
<1>7. \A i \in 1..Len(w2) : \/ w2[i] = Initiate(t) /\ kept = {}
                            \/ \E n \in 1..N \ kept : w2[i] = Piece(t, n)
  <2>. TAKE i \in 1..Len(w2)
  <2>1. from(i) \in 1..Len(w) /\ w2[i] = w[from(i)]
    BY <1>2, <1>3
  <2>. QED
    BY <1>6, <2>1
<1>8. ASSUME NEW i \in 1..Len(w2), NEW j \in 1..Len(w2), i < j, w2[j] = Initiate(t)
      PROVE  w2[i] = Initiate(t)
  <2>1. /\ from(i) \in 1..Len(w) /\ w2[i] = w[from(i)]
        /\ from(j) \in 1..Len(w) /\ w2[j] = w[from(j)]
    BY <1>2, <1>3
  <2>2. i \in Int /\ from(i) \in Int /\ from(j) \in Int /\ k \in Int
    BY <1>1, <2>1
  <2>3. CASE from(i) < from(j)
    BY <1>6, <1>8, <2>1, <2>3
  <2>4. CASE from(j) = k
    <3>1. from(i) < k \/ from(i) = k
      BY <1>1, <1>8, <2>4 DEF from
    <3>. QED
      BY <1>1, <1>6, <2>1, <3>1
  <2>. QED
    BY <1>4, <1>8, <2>3, <2>4
<1>9. \A i, j \in 1..Len(w2) : w2[i] = w2[j] => i = j \/ w2[i] = Initiate(t)
  <2>. TAKE i, j \in 1..Len(w2)
  <2>1. /\ from(i) \in 1..Len(w) /\ w2[i] = w[from(i)]
        /\ from(j) \in 1..Len(w) /\ w2[j] = w[from(j)]
    BY <1>2, <1>3
  <2>. QED
    BY <1>4, <1>6, <2>1
<1>10. ASSUME NEW n, OnWire(w, t, n)
       PROVE  OnWire(w2, t, n)
  <2>1. PICK i \in 1..Len(w) : w[i] = Piece(t, n)
    BY <1>10 DEF OnWire
  <2>2. PICK j \in 1..Len(w2) : from(j) = i
    BY <1>5, <2>1
  <2>3. w2[j] = Piece(t, n)
    BY <1>3, <2>1, <2>2
  <2>. QED
    BY <2>3 DEF OnWire
<1>11. Travels(w2, t, kept)
  BY <1>7, <1>8, <1>9 DEF Travels, N
<1>. QED
  BY <1>10, <1>11

(* A record that is taken leaves the records that are not it. *)
LEMMA TravelsTaken ==
  ASSUME NEW w, NEW w2, NEW t, NEW n, NEW kept, Len(w) \in Nat,
         Travels(w, t, kept), Drops(w, w2, 1), w[1] = Piece(t, n)
  PROVE  Travels(w2, t, kept \cup {n})
<1>. DEFINE N == NumberOfMessages(t)
<1>1. /\ 1 \in 1..Len(w) /\ Len(w2) = Len(w) - 1
      /\ \A j \in 1..Len(w2) : j + 1 \in 1..Len(w) /\ w2[j] = w[j + 1]
  BY DEF Drops
<1>2. /\ \A i \in 1..Len(w) : \/ w[i] = Initiate(t) /\ kept = {}
                              \/ \E m \in 1..N \ kept : w[i] = Piece(t, m)
      /\ \A i, j \in 1..Len(w) : i < j /\ w[j] = Initiate(t) => w[i] = Initiate(t)
      /\ \A i, j \in 1..Len(w) : w[i] = w[j] => i = j \/ w[i] = Initiate(t)
  BY DEF Travels
<1>3. w[1] # Initiate(t)
  BY Kinds
<1>4. ASSUME NEW j \in 1..Len(w2)
      PROVE  w2[j] # Initiate(t) /\ \E m \in 1..N \ (kept \cup {n}) : w2[j] = Piece(t, m)
  <2>1. j + 1 \in 1..Len(w) /\ w2[j] = w[j + 1] /\ 1 < j + 1
    BY <1>1
  <2>2. w2[j] # Initiate(t)
    BY <1>1, <1>2, <1>3, <2>1
  <2>3. w2[j] # w[1]
    BY <1>1, <1>2, <1>3, <2>1
  <2>. HIDE DEF N
  <2>4. PICK m \in 1..N \ kept : w2[j] = Piece(t, m)
    BY <1>2, <2>1, <2>2
  <2>5. m # n
    BY <2>3, <2>4
  <2>. QED
    BY <2>2, <2>4, <2>5
<1>5. \A i, j \in 1..Len(w2) : w2[i] = w2[j] => i = j
  <2>. TAKE i, j \in 1..Len(w2)
  <2>1. /\ i + 1 \in 1..Len(w) /\ w2[i] = w[i + 1] /\ j + 1 \in 1..Len(w) /\ w2[j] = w[j + 1]
        /\ (i + 1 = j + 1 => i = j)
    BY <1>1
  <2>2. w2[i] # Initiate(t)
    BY <1>4
  <2>. QED
    BY <1>2, <2>1, <2>2
<1>. HIDE DEF N
<1>. QED
  BY <1>4, <1>5 DEF Travels, N

-----------------------------------------------------------------------------
(* Strings of one batch.                                                   *)

(* Of the numbers up to an interval only the interval is divided by it. *)
LEMMA Remainder ==
  ASSUME NEW N \in Nat, NEW n \in 1..N
  PROVE  n % N = IF n = N THEN 0 ELSE n
<1>1. N >= 1
  OBVIOUS
<1>2. CASE n = N
  BY <1>1, <1>2
<1>3. CASE n # N
  <2>1. n \in Nat /\ 0 <= n /\ n < N
    BY <1>3
  <2>2. \A a, b \in Nat : a < b => a % b = a
    OBVIOUS
  <2>. QED
    BY <1>3, <2>1, <2>2
<1>. QED
  BY <1>2, <1>3

(* A string is one batch. *)
LEMMA OneBatch ==
  ASSUME PromptBatches, NEW t \in Transfers
  PROVE  /\ t \in Nat /\ t \in 1..Len(Length)
         /\ NumberOfMessages(t) \in Nat /\ NumberOfMessages(t) >= 1
         /\ Interval(t) = NumberOfMessages(t)
         /\ MaxFaults \in Nat /\ MaxTimeouts \in Nat /\ MaxFaults <= MaxTimeouts
         /\ NetCapacity \in Nat /\ MaxFaults + NumberOfMessages(t) <= NetCapacity
         /\ Length[t] \in Nat /\ Length[t] >= 1
<1>1. /\ NumberOfMessages(t) \in Int /\ NumberOfMessages(t) >= 1
      /\ CheckInterval \in Nat /\ MaxTimeouts \in Nat /\ NetCapacity \in Nat
      /\ Length[t] \in Nat /\ Length[t] >= 1
  BY BatchSizes, SizesAreGiven DEF Transfers
<1>2. /\ Length \in Seq(Nat) /\ MaxFaults \in 0..MaxTimeouts
      /\ NumberOfMessages(t) <= CheckInterval
      /\ MaxFaults + NumberOfMessages(t) <= NetCapacity
  BY DEF PromptBatches
<1>3. t \in 1..Len(Length) /\ Len(Length) \in Nat
  BY <1>2, LenProperties DEF Transfers
<1>4. Interval(t) = NumberOfMessages(t)
  BY <1>1, <1>2 DEF Interval, Lesser
<1>5. MaxFaults \in Nat /\ MaxFaults <= MaxTimeouts
  BY <1>1, <1>2
<1>. QED
  BY <1>1, <1>2, <1>3, <1>4, <1>5

(* What the network sees of them. *)
LEMMA Classes ==
  ASSUME PromptBatches, NEW t \in Transfers
  PROVE  /\ Class(Initiate(t)) = "initiate" /\ Class(Response(t)) = "response"
         /\ \A resend : Class(Verification(t, resend)) = "verification"
         /\ \A n \in 1..NumberOfMessages(t) :
              Class(Piece(t, n)) = IF n = NumberOfMessages(t) THEN "last" ELSE "data"
<1>1. Class(Initiate(t)) = "initiate" /\ Class(Response(t)) = "response"
  <2>1. Initiate(t).kind = "initiate" /\ Response(t).kind = "response"
    <3>1. Initiate(t).kind = "initiate"
      BY DEF Initiate
    <3>2. Response(t).kind = "response"
      BY DEF Initiate, Response
    <3>. QED
      BY <3>1, <3>2
  <2>2. Class(Initiate(t)) = "initiate"
    BY <2>1 DEF Class
  <2>3. Class(Response(t)) = "response"
    BY <2>1 DEF Class
  <2>. QED
    BY <2>2, <2>3
<1>2. ASSUME NEW resend
      PROVE  Class(Verification(t, resend)) = "verification"
  <2>1. Verification(t, resend).kind = "verification"
    BY DEF Verification
  <2>. QED
    BY <2>1 DEF Class
<1>3. ASSUME NEW n \in 1..NumberOfMessages(t)
      PROVE  Class(Piece(t, n)) = IF n = NumberOfMessages(t) THEN "last" ELSE "data"
  <2>1. Piece(t, n).kind = "data" /\ Piece(t, n).id = t /\ Piece(t, n).number = n
    BY Kinds
  <2>2. n % Interval(t) = 0 <=> n = NumberOfMessages(t)
    <3>1. n % NumberOfMessages(t) = IF n = NumberOfMessages(t) THEN 0 ELSE n
      BY OneBatch, Remainder
    <3>2. n # 0
      BY OneBatch
    <3>. QED
      BY <3>1, <3>2, OneBatch
  <2>. QED
    BY <2>1, <2>2 DEF Class
<1>. QED
  BY <1>1, <1>2, <1>3

(* A record that is sent again is the one that was sent. *)
LEMMA ResentAsSent ==
  ASSUME PromptBatches, NEW t \in Transfers, NEW n \in 1..NumberOfMessages(t),
         n # NumberOfMessages(t)
  PROVE  n % Interval(t) # 0 /\ Resent(t, 0, n) = Piece(t, n)
<1>1. n % Interval(t) = n
  <2>1. n % NumberOfMessages(t) = IF n = NumberOfMessages(t) THEN 0 ELSE n
    BY OneBatch, Remainder
  <2>. QED
    BY <2>1, OneBatch
<1>2. n \in Int /\ n >= 1
  BY OneBatch
<1>3. ~ (n - 1 < 0) /\ n # 0
  BY <1>2
<1>4. Resent(t, 0, n) = DataRecord(t, n, IF n - 1 < 0 THEN Garbage ELSE Partitioned(t, 0, n - 1))
  BY <1>1 DEF Resent
<1>. QED
  BY <1>1, <1>3, <1>4 DEF Piece

(* The batch that is sent is all records of the string. *)
LEMMA BatchAsPieces ==
  ASSUME PromptBatches, NEW t \in Transfers
  PROVE  [i \in 1..Interval(t) |-> DataRecord(t, i + 0 * Interval(t), Partitioned(t, 0, i - 1))]
           = [i \in 1..NumberOfMessages(t) |-> Piece(t, i)]
<1>1. Interval(t) = NumberOfMessages(t) /\ NumberOfMessages(t) \in Nat
  BY OneBatch
<1>2. ASSUME NEW i \in 1..Interval(t)
      PROVE  DataRecord(t, i + 0 * Interval(t), Partitioned(t, 0, i - 1)) = Piece(t, i)
  <2>1. i + 0 * Interval(t) = i
    BY <1>1
  <2>. QED
    BY <2>1 DEF Piece
<1>. QED
  BY <1>1, <1>2

-----------------------------------------------------------------------------
(* What travels to either side.                                            *)

Answers == Responses \cup Verifications

(* What the network may do to what travels. *)
Hit(w, w2, k) ==
    \/ Drops(w, w2, k) /\ Class(w[k]) \in Losable
    \/ Repeats(w, w2, k) /\ Class(w[k]) \in Duplicable

(* What travels to a side. *)
LEMMA Views ==
  ASSUME AskInv
  PROVE  /\ Wire \in Seq(Records) /\ Len(Wire) \in Nat
         /\ Back \in Seq(Answers) /\ Len(Back) \in Nat
         /\ Len(toReceiver) \in Nat /\ Len(toReceiver) <= Len(Wire)
         /\ Len(toSender) \in Nat /\ Len(toSender) <= Len(Back)
         /\ Wire = <<>> <=> sendQueue = <<>> /\ toReceiver = <<>>
         /\ Back = <<>> <=> responseQueue = <<>> /\ toSender = <<>>
         /\ Wire = <<>> <=> Len(Wire) = 0
         /\ Back = <<>> <=> Len(Back) = 0
<1>1. /\ toReceiver \in Seq(Records) /\ sendQueue \in Seq(Records)
      /\ toSender \in Seq(Answers) /\ responseQueue \in Seq(Answers)
  BY DEF AskInv, ChannelsOK, Answers
<1>. HIDE DEF Answers
<1>2. /\ Wire \in Seq(Records) /\ Joins(Wire, sendQueue, toReceiver)
      /\ Wire = <<>> <=> sendQueue = <<>> /\ toReceiver = <<>>
  BY <1>1, Joint DEF Wire
<1>3. /\ Back \in Seq(Answers) /\ Joins(Back, responseQueue, toSender)
      /\ Back = <<>> <=> responseQueue = <<>> /\ toSender = <<>>
  BY <1>1, Joint DEF Back
<1>4. /\ Len(Wire) \in Nat /\ Len(toReceiver) \in Nat /\ Len(toReceiver) <= Len(Wire)
  <2>1. /\ Len(Wire) = Len(sendQueue) + Len(toReceiver)
        /\ Len(sendQueue) \in Nat /\ Len(toReceiver) \in Nat
    BY <1>2 DEF Joins
  <2>. QED
    BY <2>1
<1>5. /\ Len(Back) \in Nat /\ Len(toSender) \in Nat /\ Len(toSender) <= Len(Back)
  <2>1. /\ Len(Back) = Len(responseQueue) + Len(toSender)
        /\ Len(responseQueue) \in Nat /\ Len(toSender) \in Nat
    BY <1>3 DEF Joins
  <2>. QED
    BY <2>1
<1>6. (Wire = <<>> <=> Len(Wire) = 0) /\ (Back = <<>> <=> Len(Back) = 0)
  BY <1>2, <1>3, EmptySeq
<1>. QED
  BY <1>2, <1>3, <1>4, <1>5, <1>6

(* What a side takes is the first of it. *)
LEMMA WireTaken ==
  ASSUME AskInv, TakesSend, toReceiver' = toReceiver
  PROVE  /\ Wire # <<>> /\ Drops(Wire, Wire', 1) /\ Wire[1] = Head(sendQueue)
         /\ Wire' \in Seq(Records)
<1>1. /\ toReceiver \in Seq(Records) /\ sendQueue \in Seq(Records)
  BY DEF AskInv, ChannelsOK
<1>2. sendQueue # <<>> /\ sendQueue' = Tail(sendQueue)
  BY DEF TakesSend
<1>3. /\ Drops(sendQueue \o toReceiver, Tail(sendQueue) \o toReceiver, 1)
      /\ (sendQueue \o toReceiver)[1] = Head(sendQueue)
  BY <1>1, <1>2, FrontTaken
<1>4. Wire' = Tail(sendQueue) \o toReceiver
  BY <1>2 DEF Wire
<1>5. Wire # <<>>
  BY <1>2, Views
<1>6. Tail(sendQueue) \o toReceiver \in Seq(Records)
  <2>1. Tail(sendQueue) \in Seq(Records)
    BY <1>1, <1>2, Taken
  <2>. QED
    BY <1>1, <2>1, Joint
<1>. QED
  BY <1>3, <1>4, <1>5, <1>6 DEF Wire

(* The front of what travels to the sender is taken. *)
LEMMA BackTaken ==
  ASSUME AskInv, TakesResponse, toSender' = toSender
  PROVE  /\ Back # <<>> /\ Drops(Back, Back', 1) /\ Back[1] = Head(responseQueue)
         /\ Back' \in Seq(Answers)
<1>1. /\ toSender \in Seq(Answers) /\ responseQueue \in Seq(Answers)
  BY DEF AskInv, ChannelsOK, Answers
<1>. HIDE DEF Answers
<1>2. responseQueue # <<>> /\ responseQueue' = Tail(responseQueue)
  BY DEF TakesResponse
<1>3. /\ Drops(responseQueue \o toSender, Tail(responseQueue) \o toSender, 1)
      /\ (responseQueue \o toSender)[1] = Head(responseQueue)
  BY <1>1, <1>2, FrontTaken
<1>4. Back' = Tail(responseQueue) \o toSender
  BY <1>2 DEF Back
<1>5. Back # <<>>
  BY <1>2, Views
<1>6. Tail(responseQueue) \o toSender \in Seq(Answers)
  <2>1. Tail(responseQueue) \in Seq(Answers)
    BY <1>1, <1>2, Taken
  <2>. QED
    BY <1>1, <2>1, Joint
<1>. QED
  BY <1>3, <1>4, <1>5, <1>6 DEF Back

(* What a side sends goes behind it, as far as there is room. *)
LEMMA WireSends ==
  ASSUME AskInv, NEW r \in Seq(Records), sendQueue' = sendQueue,
         toReceiver' = Transmit(toReceiver, r)
  PROVE  /\ Sends(Wire, Wire', r)
         /\ Len(Wire) + Len(r) <= NetCapacity => Len(Wire') = Len(Wire) + Len(r)
<1>1. /\ toReceiver \in Seq(Records) /\ sendQueue \in Seq(Records)
  BY DEF AskInv, ChannelsOK
<1>2. /\ Sends(Wire, sendQueue \o Transmit(toReceiver, r), r)
      /\ Len(toReceiver) + Len(r) <= NetCapacity =>
           Len(sendQueue \o Transmit(toReceiver, r)) = Len(Wire) + Len(r)
  <2>1. ASSUME NEW q \in Seq(Records), NEW s \in Seq(Records)
        PROVE  /\ Sends(q \o s, q \o Transmit(s, r), r)
               /\ Len(s) + Len(r) <= NetCapacity =>
                    Len(q \o Transmit(s, r)) = Len(q \o s) + Len(r)
    BY <1>1, SentBehind
  <2>. QED
    BY <1>1, <2>1 DEF Wire
<1>3. Wire' = sendQueue \o Transmit(toReceiver, r)
  BY DEF Wire
<1>4. Len(r) \in Nat /\ Len(toReceiver) \in Nat /\ Len(Wire) \in Nat
      /\ Len(toReceiver) <= Len(Wire) /\ NetCapacity \in Nat
  BY Views, LenProperties, SizesAreGiven
<1>5. Len(Wire) + Len(r) <= NetCapacity => Len(toReceiver) + Len(r) <= NetCapacity
  BY <1>4
<1>. QED
  BY <1>2, <1>3, <1>5

(* An answer goes behind what travels to the sender. *)
LEMMA BackSends ==
  ASSUME AskInv, NEW m \in Answers, responseQueue' = responseQueue,
         toSender' = Transmit(toSender, <<m>>)
  PROVE  /\ Sends(Back, Back', <<m>>)
         /\ Len(Back) + 1 <= NetCapacity => Len(Back') = Len(Back) + 1
<1>1. /\ toSender \in Seq(Answers) /\ responseQueue \in Seq(Answers)
  BY DEF AskInv, ChannelsOK, Answers
<1>. HIDE DEF Answers
<1>0. <<m>> \in Seq(Answers) /\ Len(<<m>>) = 1
  OBVIOUS
<1>. DEFINE r == <<m>>
<1>. HIDE DEF r
<1>6. r \in Seq(Answers)
  BY <1>0 DEF r
<1>2. /\ Sends(Back, responseQueue \o Transmit(toSender, r), r)
      /\ Len(toSender) + Len(r) <= NetCapacity =>
           Len(responseQueue \o Transmit(toSender, r)) = Len(Back) + Len(r)
  <2>1. ASSUME NEW q \in Seq(Answers), NEW s \in Seq(Answers)
        PROVE  /\ Sends(q \o s, q \o Transmit(s, r), r)
               /\ Len(s) + Len(r) <= NetCapacity =>
                    Len(q \o Transmit(s, r)) = Len(q \o s) + Len(r)
    BY <1>1, <1>6, SentBehind
  <2>. QED
    BY <1>1, <2>1 DEF Back
<1>3. Back' = responseQueue \o Transmit(toSender, r)
  BY DEF Back, r
<1>4. Len(r) = 1 /\ Len(toSender) \in Nat /\ Len(Back) \in Nat
      /\ Len(toSender) <= Len(Back) /\ NetCapacity \in Nat
  BY <1>0, Views, SizesAreGiven DEF r
<1>5. Len(Back) + 1 <= NetCapacity => Len(toSender) + Len(r) <= NetCapacity
  BY <1>4
<1>. QED
  BY <1>2, <1>3, <1>4, <1>5 DEF r

(* A datagram that is next moves from the channel to the queue. *)
LEMMA ListenKeepsViews ==
  ASSUME AskInv, ~ Reorders, ListenSend \/ ListenRespond
  PROVE  Wire' = Wire /\ Back' = Back
<1>1. /\ toReceiver \in Seq(Records) /\ sendQueue \in Seq(Records)
      /\ toSender \in Seq(Answers) /\ responseQueue \in Seq(Answers)
  BY DEF AskInv, ChannelsOK, Answers
<1>. HIDE DEF Answers
<1>2. CASE ListenSend
  <2>1. PICK i \in Arrivals(toReceiver) :
          /\ sendQueue' = Append(sendQueue, toReceiver[i])
          /\ toReceiver' = RemoveAt(toReceiver, i)
    BY <1>2 DEF ListenSend
  <2>2. i = 1 /\ 1 \in DOMAIN toReceiver
    BY <2>1 DEF Arrivals
  <2>3. Append(sendQueue, toReceiver[1]) \o RemoveAt(toReceiver, 1) = sendQueue \o toReceiver
    BY <1>1, <2>2, Listened
  <2>4. toSender' = toSender /\ responseQueue' = responseQueue
    BY <1>2 DEF ListenSend
  <2>. QED
    BY <2>1, <2>2, <2>3, <2>4 DEF Wire, Back
<1>3. CASE ListenRespond
  <2>1. PICK i \in Arrivals(toSender) :
          /\ responseQueue' = Append(responseQueue, toSender[i])
          /\ toSender' = RemoveAt(toSender, i)
    BY <1>3 DEF ListenRespond
  <2>2. i = 1 /\ 1 \in DOMAIN toSender
    BY <2>1 DEF Arrivals
  <2>3. Append(responseQueue, toSender[1]) \o RemoveAt(toSender, 1) = responseQueue \o toSender
    BY <1>1, <2>2, Listened
  <2>4. toReceiver' = toReceiver /\ sendQueue' = sendQueue
    BY <1>3 DEF ListenRespond
  <2>. QED
    BY <2>1, <2>2, <2>3, <2>4 DEF Wire, Back
<1>. QED
  BY <1>2, <1>3

(* The network hits one element of what travels one way. *)
LEMMA OneHit ==
  ASSUME NEW S, NEW q \in Seq(S), NEW s \in Seq(S), NEW s2, NEW i \in DOMAIN s,
         \/ Class(s[i]) \in Losable /\ s2 = RemoveAt(s, i)
         \/ Class(s[i]) \in Duplicable /\ s2 = InsertAt(s, i, s[i])
  PROVE  \E k \in 1..Len(q \o s) : Hit(q \o s, q \o s2, k)
<1>1. i \in 1..Len(s)
  BY LenProperties
<1>2. CASE Class(s[i]) \in Losable /\ s2 = RemoveAt(s, i)
  <2>1. /\ Drops(q \o s, q \o s2, Len(q) + i)
        /\ (q \o s)[Len(q) + i] = s[i]
    BY <1>1, <1>2, LostBehind
  <2>. QED
    BY <1>2, <2>1 DEF Hit, Drops
<1>3. CASE Class(s[i]) \in Duplicable /\ s2 = InsertAt(s, i, s[i])
  <2>1. /\ Repeats(q \o s, q \o s2, Len(q) + i)
        /\ (q \o s)[Len(q) + i] = s[i]
    BY <1>1, <1>3, RepeatedBehind
  <2>. QED
    BY <1>3, <2>1 DEF Hit, Repeats
<1>. QED
  BY <1>2, <1>3

(* A fault hits one datagram of one side and nothing else. *)
LEMMA FaultHits ==
  ASSUME AskInv, Fault
  PROVE  /\ faults < MaxFaults /\ faults' = faults + 1
         /\ sender' = sender /\ results' = results
         /\ receiver' = receiver /\ got' = got
         /\ \/ Back' = Back /\ \E k \in 1..Len(Wire) : Hit(Wire, Wire', k)
            \/ Wire' = Wire /\ \E k \in 1..Len(Back) : Hit(Back, Back', k)
<1>1. /\ toReceiver \in Seq(Records) /\ sendQueue \in Seq(Records)
      /\ toSender \in Seq(Answers) /\ responseQueue \in Seq(Answers)
  BY DEF AskInv, ChannelsOK, Answers
<1>. HIDE DEF Answers
<1>2. /\ faults < MaxFaults /\ faults' = faults + 1
      /\ sender' = sender /\ results' = results
      /\ receiver' = receiver /\ got' = got
      /\ sendQueue' = sendQueue /\ responseQueue' = responseQueue
  BY DEF Fault, senderVars, receiverVars
<1>3. CASE /\ \E i \in DOMAIN toReceiver : Lose(toReceiver, i) \/ Duplicate(toReceiver, i)
           /\ UNCHANGED toSender
  <2>1. PICK i \in DOMAIN toReceiver : Lose(toReceiver, i) \/ Duplicate(toReceiver, i)
    BY <1>3
  <2>2. \/ Class(toReceiver[i]) \in Losable /\ toReceiver' = RemoveAt(toReceiver, i)
        \/ Class(toReceiver[i]) \in Duplicable
             /\ toReceiver' = InsertAt(toReceiver, i, toReceiver[i])
    BY <2>1 DEF Lose, Duplicate
  <2>3. \E k \in 1..Len(sendQueue \o toReceiver) :
          Hit(sendQueue \o toReceiver, sendQueue \o toReceiver', k)
    BY <1>1, <2>2, OneHit
  <2>4. Wire' = sendQueue \o toReceiver' /\ Wire = sendQueue \o toReceiver
    BY <1>2 DEF Wire
  <2>5. Back' = Back
    BY <1>2, <1>3 DEF Back
  <2>. QED
    BY <1>2, <2>3, <2>4, <2>5
<1>4. CASE /\ \E i \in DOMAIN toSender : Lose(toSender, i) \/ Duplicate(toSender, i)
           /\ UNCHANGED toReceiver
  <2>1. PICK i \in DOMAIN toSender : Lose(toSender, i) \/ Duplicate(toSender, i)
    BY <1>4
  <2>2. \/ Class(toSender[i]) \in Losable /\ toSender' = RemoveAt(toSender, i)
        \/ Class(toSender[i]) \in Duplicable
             /\ toSender' = InsertAt(toSender, i, toSender[i])
    BY <2>1 DEF Lose, Duplicate
  <2>3. \E k \in 1..Len(responseQueue \o toSender) :
          Hit(responseQueue \o toSender, responseQueue \o toSender', k)
    BY <1>1, <2>2, OneHit
  <2>4. Back' = responseQueue \o toSender' /\ Back = responseQueue \o toSender
    BY <1>2 DEF Back
  <2>5. Wire' = Wire
    BY <1>2, <1>4 DEF Wire
  <2>. QED
    BY <1>2, <2>3, <2>4, <2>5
<1>. QED
  BY <1>3, <1>4 DEF Fault

-----------------------------------------------------------------------------
(* A string is what its records give in their order.                       *)

(* A set of natural numbers has a least element. *)
LEMMA HasLeast ==
  ASSUME NEW T \in SUBSET Nat, T # {}
  PROVE  \E x \in T : \A y \in T : x <= y
<1>. DEFINE R == {p \in Nat \X Nat : p[1] < p[2]}
<1>1. IsWellFoundedOn(R, Nat)
  BY NatLessThanWellFounded DEF OpToRel
<1>2. PICK x \in T : \A y \in T : ~ (<<y, x>> \in R)
  <2>. HIDE DEF R
  <2>. QED
    BY <1>1, WFMin
<1>3. \A y \in T : <<y, x>> \in R <=> y < x
  OBVIOUS
<1>4. \A y \in T : ~ (y < x)
  BY <1>2, <1>3
<1>. QED
  BY <1>4

(* Induction up to a number, over a set instead of a predicate. *)
LEMMA InductionUpTo ==
  ASSUME NEW L \in Nat, NEW S, 0 \in S,
         \A m \in 1..L : m - 1 \in S => m \in S
  PROVE  L \in S
<1>. DEFINE T == {m \in 0..L : m \notin S}
<1>1. SUFFICES ASSUME T # {} PROVE FALSE
  OBVIOUS
<1>2. T \in SUBSET Nat
  OBVIOUS
<1>3. PICK x \in T : \A y \in T : x <= y
  BY <1>1, <1>2, HasLeast
<1>4. x \in 1..L /\ x - 1 \in 0..L /\ x - 1 \notin T
  BY <1>3
<1>. QED
  BY <1>4

(* The records of a string reach to its end, and the last one begins in it. *)
LEMMA RecordsReachTheEnd ==
  ASSUME PromptBatches, NEW t \in Transfers
  PROVE  /\ (NumberOfMessages(t) - 1) * MaxSendLength < Length[t]
         /\ Length[t] <= NumberOfMessages(t) * MaxSendLength
         /\ MaxSendLength \in Nat /\ MaxSendLength >= 1
<1>1. /\ MaxSendLength \in Nat /\ MaxSendLength >= 1
      /\ Length[t] \in Nat /\ Length[t] >= 1 /\ NumberOfMessages(t) \in Nat
  BY OneBatch, SizesAreGiven
<1>2. \A x, m \in Nat : m >= 1 => /\ (x \div m) * m <= x
                                 /\ x < (x \div m) * m + m
  OBVIOUS
<1>3. \A n, m \in Nat : (n - 1) * m = n * m - m
  OBVIOUS
<1>4. PICK x \in Nat : x = Length[t] + MaxSendLength - 1
  <2>1. Length[t] + MaxSendLength - 1 \in Nat
    BY <1>1
  <2>. QED
    BY <2>1
<1>5. NumberOfMessages(t) = x \div MaxSendLength
  BY <1>4 DEF NumberOfMessages
<1>6. /\ NumberOfMessages(t) * MaxSendLength <= x
      /\ x < NumberOfMessages(t) * MaxSendLength + MaxSendLength
  BY <1>1, <1>2, <1>5
<1>7. (NumberOfMessages(t) - 1) * MaxSendLength = NumberOfMessages(t) * MaxSendLength - MaxSendLength
  BY <1>1, <1>3
<1>8. NumberOfMessages(t) * MaxSendLength \in Nat
  BY <1>1
<1>. QED
  BY <1>1, <1>4, <1>6, <1>7, <1>8

(* The string up to and with its i-th record. *)
Start(t, i) == SubSeq(Data(t), 1, Lesser(i * MaxSendLength, Length[t]))

(* Every string is a sequence of its bytes. *)
LEMMA DataIsSequence ==
  ASSUME PromptBatches, NEW t \in Transfers
  PROVE  Data(t) \in Seq(Transfers \X Nat) /\ Len(Data(t)) = Length[t]
<1>1. Length[t] \in Nat
  BY OneBatch
<1>2. PICK n \in Nat : n = Length[t]
  BY <1>1
<1>3. [i \in 1..n |-> <<t, i>>] \in Seq(Transfers \X Nat)
  OBVIOUS
<1>4. Len([i \in 1..n |-> <<t, i>>]) = n
  OBVIOUS
<1>. QED
  BY <1>2, <1>3, <1>4 DEF Data

(* Each record continues the string where the one before it ended. *)
LEMMA RecordsContinue ==
  ASSUME PromptBatches, NEW t \in Transfers, NEW i \in 1..NumberOfMessages(t)
  PROVE  /\ i = 1 => Partitioned(t, 0, i - 1) = Start(t, 1)
         /\ i # 1 => Start(t, i - 1) \o Partitioned(t, 0, i - 1) = Start(t, i)
<1>. DEFINE N == NumberOfMessages(t)
            M == MaxSendLength
            L == Length[t]
            D == Data(t)
<1>1. N \in Nat /\ M \in Nat /\ M >= 1 /\ L \in Nat /\ L >= 1 /\ (N - 1) * M < L
  BY OneBatch, RecordsReachTheEnd
<1>2. D \in Seq(Transfers \X Nat) /\ Len(D) = L
  BY DataIsSequence
<1>3. i \in Int /\ 1 <= i /\ i <= N /\ Interval(t) \in Int
  BY <1>1, OneBatch
<1>. HIDE DEF N, M, L, D
<1>4. PICK a \in Int : a = (i - 1) * M
  <2>1. (i - 1) * M \in Int
    BY <1>1, <1>3
  <2>. QED
    BY <2>1
<1>5. 0 <= a /\ a < L
  <2>1. \A x, y, m \in Nat : x <= y => x * m <= y * m
    OBVIOUS
  <2>2. (i - 1) \in Nat /\ (N - 1) \in Nat /\ i - 1 <= N - 1
    BY <1>1, <1>3
  <2>3. (i - 1) * M <= (N - 1) * M
    BY <1>1, <2>1, <2>2
  <2>4. 0 * M <= (i - 1) * M /\ 0 * M = 0
    BY <1>1, <2>1, <2>2
  <2>5. (N - 1) * M \in Int
    BY <1>1, <2>2
  <2>. QED
    BY <1>1, <1>4, <2>3, <2>4, <2>5
<1>6. i * M = a + M
  <2>1. \A x, m \in Int : x * m = (x - 1) * m + m
    OBVIOUS
  <2>. QED
    BY <1>1, <1>3, <1>4, <2>1
<1>7. PICK b \in Int : b = Lesser(a + M, L)
  <2>1. Lesser(a + M, L) \in Int
    BY <1>1 DEF Lesser
  <2>. QED
    BY <2>1
<1>8. a <= b /\ b <= L /\ Lesser(a, L) = a
  BY <1>1, <1>5, <1>7 DEF Lesser
<1>9. Partitioned(t, 0, i - 1) = SubSeq(D, a + 1, b)
  <2>1. (i - 1) * M + 0 * Interval(t) = a
    BY <1>3, <1>4
  <2>. QED
    BY <1>7, <2>1 DEF Partitioned, M, L, D
<1>10. Start(t, i) = SubSeq(D, 1, b)
  BY <1>6, <1>7 DEF Start, M, L, D
<1>11. CASE i = 1
  <2>1. a = 0
    BY <1>1, <1>4, <1>11
  <2>2. a + 1 = 1
    BY <2>1
  <2>. QED
    BY <1>9, <1>10, <1>11, <2>2
<1>12. CASE i # 1
  <2>1. Start(t, i - 1) = SubSeq(D, 1, a)
    BY <1>4, <1>8 DEF Start, M, L, D
  <2>2. SubSeq(D, 1, a) \o SubSeq(D, a + 1, b) = SubSeq(D, 1, b)
    <3>1. /\ Len(D) \in Nat /\ 1 \in 1..(Len(D) + 1) /\ a \in (1 - 1)..Len(D)
          /\ b \in a..Len(D)
      BY <1>1, <1>2, <1>5, <1>8
    <3>. QED
      BY <1>2, <3>1, ConcatAdjacentSubSeq
  <2>. QED
    BY <1>9, <1>10, <1>12, <2>1, <2>2
<1>. QED
  BY <1>11, <1>12

(* All records in their order are the string. *)
LEMMA RecordsJoin ==
  ASSUME PromptBatches, NEW t \in Transfers, NEW records,
         Len(records) = NumberOfMessages(t),
         \A i \in 1..NumberOfMessages(t) : records[i] = Partitioned(t, 0, i - 1)
  PROVE  FlattenSeq(records) = Data(t)
<1>. DEFINE N == NumberOfMessages(t)
            Flat(f) == f = [i \in 1..N |-> IF i = 1 THEN records[i]
                                           ELSE f[i - 1] \o records[i]]
            joined == CHOOSE f : Flat(f)
<1>1. N \in Nat /\ N >= 1
  BY OneBatch
<1>2. FlattenSeq(records) = joined[N]
  BY <1>1 DEF FlattenSeq
<1>3. \A i \in 1..N : /\ i = 1 => records[i] = Start(t, i)
                      /\ i # 1 => Start(t, i - 1) \o records[i] = Start(t, i)
  BY RecordsContinue
<1>4. Flat([i \in 1..N |-> Start(t, i)])
  <2>. DEFINE g == [i \in 1..N |-> Start(t, i)]
  <2>1. ASSUME NEW i \in 1..N
        PROVE  Start(t, i) = IF i = 1 THEN records[i] ELSE g[i - 1] \o records[i]
    <3>1. i # 1 => i - 1 \in 1..N
      BY <1>1
    <3>2. i # 1 => g[i - 1] = Start(t, i - 1)
      BY <3>1
    <3>. QED
      BY <1>3, <3>2
  <2>2. [i \in 1..N |-> Start(t, i)] =
          [i \in 1..N |-> IF i = 1 THEN records[i] ELSE g[i - 1] \o records[i]]
    BY <2>1
  <2>. QED
    BY <2>2
<1>5. Flat(joined)
  <2>. HIDE DEF Flat
  <2>. QED
    BY <1>4
<1>. HIDE DEF joined
<1>6. \A i \in 1..N : joined[i] = IF i = 1 THEN records[i] ELSE joined[i - 1] \o records[i]
  BY <1>5
<1>7. joined[N] = Start(t, N)
  <2>. DEFINE S == {m \in 0..N : m = 0 \/ joined[m] = Start(t, m)}
  <2>1. 0 \in S
    BY <1>1
  <2>2. ASSUME NEW m \in 1..N, m - 1 \in S PROVE m \in S
    <3>1. m \in 0..N /\ (m - 1 = 0 <=> m = 1)
      OBVIOUS
    <3>2. joined[m] = IF m = 1 THEN records[m] ELSE joined[m - 1] \o records[m]
      BY <1>6
    <3>3. m # 1 => joined[m - 1] = Start(t, m - 1)
      BY <2>2, <3>1
    <3>. QED
      BY <1>3, <3>1, <3>2, <3>3
  <2>. HIDE DEF S
  <2>3. N \in S
    BY <1>1, <2>1, <2>2, InductionUpTo
  <2>. QED
    BY <1>1, <2>3 DEF S
<1>8. Start(t, N) = Data(t)
  <2>1. Lesser(N * MaxSendLength, Length[t]) = Length[t]
    BY <1>1, RecordsReachTheEnd, OneBatch DEF Lesser
  <2>2. SubSeq(Data(t), 1, Len(Data(t))) = Data(t)
    BY DataIsSequence, SubSeqFull
  <2>. QED
    BY <2>1, <2>2, DataIsSequence DEF Start
<1>. QED
  BY <1>2, <1>7, <1>8

(* A string is known by its bytes. *)
LEMMA NumberOfData ==
  ASSUME PromptBatches, NEW t \in Transfers
  PROVE  Data(t) # <<>> /\ Number(Data(t)) = t
<1>1. \A u \in Transfers : /\ Len(Data(u)) >= 1 /\ Data(u)[1] = <<u, 1>>
  <2>. TAKE u \in Transfers
  <2>1. Length[u] \in Nat /\ Length[u] >= 1
    BY OneBatch
  <2>2. 1 \in 1..Length[u]
    BY <2>1
  <2>3. Data(u)[1] = <<u, 1>>
    BY <2>2 DEF Data
  <2>. QED
    BY <2>1, <2>3, DataIsSequence
<1>2. Data(t) # <<>>
  BY <1>1
<1>3. \A u \in Transfers : Data(t) = Data(u) => u = t
  <2>. TAKE u \in Transfers
  <2>. HAVE Data(t) = Data(u)
  <2>1. <<u, 1>> = <<t, 1>>
    BY <1>1
  <2>. QED
    BY <2>1
<1>4. Number(Data(t)) = CHOOSE u \in Transfers : Data(t) = Data(u)
  BY DEF Number
<1>. QED
  BY <1>2, <1>3, <1>4

-----------------------------------------------------------------------------
(* What the receiver lacks.                                                *)

Ranked(S) == [i \in 1..Cardinality(S) |->
                CHOOSE n \in S : Cardinality({m \in S : m < n}) = i - 1]

(* Ranking a finite set of integers reaches every rank once, so its        *)
(* elements by their rank are all of them, each once.                      *)
LEMMA RanksEnumerate ==
  ASSUME NEW S \in SUBSET Int, IsFiniteSet(S)
  PROVE  /\ Ranked(S) \in Seq(S) /\ Len(Ranked(S)) = Cardinality(S)
         /\ Len(Ranked(S)) \in Nat
         /\ \A i \in 1..Len(Ranked(S)) : Ranked(S)[i] \in S
         /\ \A i, j \in 1..Len(Ranked(S)) : Ranked(S)[i] = Ranked(S)[j] => i = j
         /\ \A n \in S : \E i \in 1..Len(Ranked(S)) : Ranked(S)[i] = n
<1>. DEFINE rank(n) == Cardinality({m \in S : m < n})
            size == Cardinality(S)
            ranks == [n \in S |-> rank(n)]
            element(i) == CHOOSE n \in S : rank(n) = i - 1
<1>1. size \in Nat
  BY FS_CardinalityType
<1>2. ASSUME NEW n \in S
      PROVE  IsFiniteSet({m \in S : m < n}) /\ rank(n) \in 0..(size - 1)
  <2>1. {m \in S : m < n} \in SUBSET (S \ {n})
    OBVIOUS
  <2>2. IsFiniteSet(S \ {n}) /\ Cardinality(S \ {n}) = size - 1
    BY FS_RemoveElement
  <2>3. IsFiniteSet({m \in S : m < n}) /\ rank(n) <= size - 1
    BY <2>1, <2>2, FS_Subset
  <2>4. rank(n) \in Nat
    BY <2>3, FS_CardinalityType
  <2>. QED
    BY <1>1, <2>3, <2>4
<1>3. ASSUME NEW n \in S, NEW p \in S, n < p
      PROVE  rank(n) # rank(p)
  <2>1. {m \in S : m < n} \cup {n} \in SUBSET {m \in S : m < p}
    <3>1. \A m \in S : m < n => m < p
      BY <1>3
    <3>. QED
      BY <1>3, <3>1
  <2>2. n \notin {m \in S : m < n}
    OBVIOUS
  <2>3. /\ IsFiniteSet({m \in S : m < n} \cup {n})
        /\ Cardinality({m \in S : m < n} \cup {n}) = rank(n) + 1
    BY <1>2, <2>2, FS_AddElement
  <2>4. rank(n) + 1 <= rank(p)
    BY <1>2, <2>1, <2>3, FS_Subset
  <2>. QED
    BY <1>2, <2>4
<1>4. \A n, p \in S : rank(n) = rank(p) => n = p
  <2>. SUFFICES ASSUME NEW n \in S, NEW p \in S, n # p PROVE rank(n) # rank(p)
    OBVIOUS
  <2>1. n \in Int /\ p \in Int
    OBVIOUS
  <2>2. n < p \/ p < n
    BY <2>1
  <2>. QED
    BY <1>3, <2>2
<1>5. ranks \in Injection(S, 0..(size - 1))
  <2>1. ranks \in [S -> 0..(size - 1)]
    BY <1>2
  <2>2. \A n, p \in S : ranks[n] = ranks[p] => n = p
    BY <1>4
  <2>. HIDE DEF ranks, rank, size
  <2>. QED
    BY <2>1, <2>2 DEF Injection, IsInjective
<1>6. IsFiniteSet(0..(size - 1)) /\ Cardinality(0..(size - 1)) = size
  BY <1>1, FS_Interval
<1>7. ranks \in Surjection(S, 0..(size - 1))
  BY <1>5, <1>6, FS_Injection
<1>8. ASSUME NEW i \in 1..size
      PROVE  element(i) \in S /\ rank(element(i)) = i - 1
  <2>1. i - 1 \in 0..(size - 1)
    BY <1>1
  <2>2. \E n \in S : ranks[n] = i - 1
    BY <1>7, <2>1 DEF Surjection
  <2>3. \E n \in S : rank(n) = i - 1
    BY <2>2
  <2>. QED
    BY <2>3
<1>9. ASSUME NEW n \in S
      PROVE  \E i \in 1..size : element(i) = n
  <2>1. PICK k \in Int : k = rank(n)
    BY <1>2
  <2>2. PICK i \in Int : i = k + 1
    OBVIOUS
  <2>3. i \in 1..size /\ i - 1 = k
    BY <1>1, <1>2, <2>1, <2>2
  <2>4. element(i) \in S /\ rank(element(i)) = i - 1
    BY <1>8, <2>3
  <2>5. rank(element(i)) = rank(n)
    BY <2>1, <2>3, <2>4
  <2>. HIDE DEF element, rank
  <2>6. element(i) = n
    BY <1>4, <2>4, <2>5
  <2>. QED
    BY <2>3, <2>6
<1>. DEFINE q == Ranked(S)
<1>10. q = [i \in 1..size |-> element(i)]
  BY DEF Ranked
<1>. HIDE DEF element, rank, size, ranks, q
<1>11. \A i \in 1..size : element(i) \in S
  BY <1>8
<1>12. q \in Seq(S) /\ Len(q) = size /\ \A i \in 1..size : q[i] = element(i)
  BY <1>1, <1>10, <1>11
<1>13. \A i, j \in 1..size : q[i] = q[j] => i = j
  <2>. TAKE i, j \in 1..size
  <2>. HAVE q[i] = q[j]
  <2>1. i - 1 = j - 1
    BY <1>8, <1>12
  <2>. QED
    BY <1>1, <2>1
<1>14. \A n \in S : \E i \in 1..size : q[i] = n
  BY <1>9, <1>12
<1>. QED
  BY <1>1, <1>11, <1>12, <1>13, <1>14 DEF size, q

(* Records sent behind nothing but initiates travel, all of them. *)
LEMMA PiecesTravel ==
  ASSUME NEW t, NEW kept, NEW numbers, NEW w, NEW w2, NEW r,
         Len(w) \in Nat, AllAre(w, Initiate(t)), Len(w) = 0 \/ kept = {},
         Len(numbers) \in Nat, Len(r) = Len(numbers),
         \A i \in 1..Len(numbers) : /\ numbers[i] \in 1..NumberOfMessages(t) \ kept
                                    /\ r[i] = Piece(t, numbers[i]),
         \A i, j \in 1..Len(numbers) : numbers[i] = numbers[j] => i = j,
         \A n \in 1..NumberOfMessages(t) \ kept :
            \E i \in 1..Len(numbers) : numbers[i] = n,
         Sends(w, w2, r), Len(w2) = Len(w) + Len(r)
  PROVE  Travels(w2, t, kept) /\ Complete(w2, t, kept)
<1>. DEFINE rest == 1..NumberOfMessages(t) \ kept
<1>1. \A i \in 1..Len(w2) : w2[i] = IF i <= Len(w) THEN w[i] ELSE r[i - Len(w)]
  BY DEF Sends
<1>2. \A i \in 1..Len(w2) : i <= Len(w) => w2[i] = Initiate(t) /\ kept = {}
  BY <1>1 DEF AllAre
<1>3. \A i \in 1..Len(w2) : i > Len(w) => /\ i - Len(w) \in 1..Len(numbers)
                                          /\ w2[i] = Piece(t, numbers[i - Len(w)])
  <2>. TAKE i \in 1..Len(w2)
  <2>. HAVE i > Len(w)
  <2>0. i - Len(w) \in Int
    OBVIOUS
  <2>1. PICK k \in Int : k = i - Len(w)
    BY <2>0
  <2>2. k \in 1..Len(numbers)
    BY <2>1
  <2>3. w2[i] = r[k]
    BY <1>1, <2>1
  <2>. QED
    BY <2>1, <2>2, <2>3
<1>4. \A n : Piece(t, n) # Initiate(t)
  BY Kinds
<1>5. \A n, m : Piece(t, n) = Piece(t, m) => n = m
  BY Kinds
<1>6. \A i \in 1..Len(w2) : \/ w2[i] = Initiate(t) /\ kept = {}
                            \/ \E n \in rest : w2[i] = Piece(t, n)
  BY <1>2, <1>3
<1>7. \A i, j \in 1..Len(w2) : i < j /\ w2[j] = Initiate(t) => w2[i] = Initiate(t)
  <2>. TAKE i, j \in 1..Len(w2)
  <2>. HAVE i < j /\ w2[j] = Initiate(t)
  <2>1. ~ (j > Len(w))
    BY <1>3, <1>4
  <2>2. i <= Len(w)
    BY <2>1
  <2>. QED
    BY <1>2, <2>2
<1>8. \A i, j \in 1..Len(w2) : w2[i] = w2[j] => i = j \/ w2[i] = Initiate(t)
  <2>. TAKE i, j \in 1..Len(w2)
  <2>. HAVE w2[i] = w2[j]
  <2>1. CASE i <= Len(w)
    BY <1>2, <2>1
  <2>2. CASE j <= Len(w)
    BY <1>2, <2>2
  <2>3. CASE i > Len(w) /\ j > Len(w)
    <3>1. numbers[i - Len(w)] = numbers[j - Len(w)]
      BY <1>3, <1>5, <2>3
    <3>2. i - Len(w) = j - Len(w)
      BY <1>3, <2>3, <3>1
    <3>. QED
      BY <3>2
  <2>. QED
    BY <2>1, <2>2, <2>3
<1>9. ASSUME NEW n \in rest PROVE OnWire(w2, t, n)
  <2>1. PICK i \in 1..Len(numbers) : numbers[i] = n
    OBVIOUS
  <2>2. PICK j \in Int : j = Len(w) + i
    OBVIOUS
  <2>3. j \in 1..Len(w2) /\ j > Len(w) /\ j - Len(w) = i
    BY <2>2
  <2>4. w2[j] = Piece(t, n)
    BY <1>3, <2>1, <2>3
  <2>. QED
    BY <2>3, <2>4 DEF OnWire
<1>10. Travels(w2, t, kept)
  BY <1>6, <1>7, <1>8 DEF Travels
<1>11. Complete(w2, t, kept)
  BY <1>9 DEF Complete
<1>. QED
  BY <1>10, <1>11

(* What GetData knows of the batch that is collected. *)
LEMMA BatchOfAll ==
  ASSUME PromptBatches, NEW t \in Transfers, receiver.response = Response(t),
         receiver.done = 0
  PROVE  /\ receiver.response.id = t /\ receiver.response.number = NumberOfMessages(t)
         /\ receiver.response.interval = NumberOfMessages(t)
         /\ ExpectedMessages = NumberOfMessages(t)
         /\ Batch = [i \in 1..NumberOfMessages(t) |-> i]
         /\ Lacking = 1..NumberOfMessages(t) \ DOMAIN receiver.records
<1>. DEFINE N == NumberOfMessages(t)
<1>1. /\ receiver.response.id = t /\ receiver.response.number = N
      /\ receiver.response.interval = Interval(t)
  BY DEF Response, Initiate
<1>2. N \in Nat /\ N >= 1 /\ Interval(t) = N
  BY OneBatch
<1>. HIDE DEF N
<1>3. receiver.response.interval = N
  BY <1>1, <1>2
<1>4. receiver.done * N = 0
  BY <1>2
<1>5. ExpectedMessages = N
  BY <1>1, <1>2, <1>3, <1>4 DEF ExpectedMessages, Lesser
<1>6. Batch = [i \in 1..N |-> i]
  <2>1. Batch = [i \in 1..N |-> i + 0]
    BY <1>3, <1>4, <1>5 DEF Batch
  <2>2. \A i \in 1..N : i + 0 = i
    BY <1>2
  <2>. QED
    BY <2>1, <2>2
<1>7. Lacking = 1..N \ DOMAIN receiver.records
  <2>1. {Batch[i] : i \in DOMAIN Batch} = 1..N
    BY <1>6
  <2>. QED
    BY <2>1 DEF Lacking
<1>. QED
  BY <1>1, <1>3, <1>5, <1>6, <1>7 DEF N

(* The batch is in when every record of it is kept. *)
LEMMA AllKept ==
  ASSUME PromptBatches, NEW t \in Transfers, receiver.response = Response(t),
         receiver.done = 0,
         DOMAIN receiver.records \subseteq 1..NumberOfMessages(t),
         receiver.count = Cardinality(DOMAIN receiver.records)
  PROVE  /\ BatchIsIn <=> DOMAIN receiver.records = 1..NumberOfMessages(t)
         /\ IsFiniteSet(DOMAIN receiver.records)
<1>. DEFINE N == NumberOfMessages(t)
            kept == DOMAIN receiver.records
<1>1. N \in Nat /\ N >= 1
  BY OneBatch
<1>2. ExpectedMessages = N
  BY BatchOfAll
<1>3. BatchIsIn <=> Cardinality(kept) >= N
  BY <1>2 DEF BatchIsIn
<1>4. kept \in SUBSET (1..N)
  OBVIOUS
<1>. HIDE DEF N, kept
<1>5. IsFiniteSet(1..N) /\ Cardinality(1..N) = N
  <2>1. IsFiniteSet(1..N) /\ Cardinality(1..N) = IF 1 > N THEN 0 ELSE N - 1 + 1
    BY <1>1, FS_Interval
  <2>2. N - 1 + 1 = N /\ ~ (1 > N)
    BY <1>1
  <2>. QED
    BY <2>1, <2>2
<1>6. /\ IsFiniteSet(kept) /\ Cardinality(kept) <= Cardinality(1..N)
      /\ Cardinality(kept) = Cardinality(1..N) => kept = 1..N
  BY <1>4, <1>5, FS_Subset
<1>7. Cardinality(kept) \in Nat
  BY <1>6, FS_CardinalityType
<1>8. Cardinality(kept) >= N <=> Cardinality(kept) = Cardinality(1..N)
  BY <1>1, <1>5, <1>6, <1>7
<1>. QED
  BY <1>3, <1>6, <1>8 DEF N, kept

(* What is asked for is what is not kept, each number once. *)
LEMMA MissingOnce ==
  ASSUME PromptBatches, NEW t \in Transfers, receiver.response = Response(t),
         receiver.done = 0, NEW kept, kept = DOMAIN receiver.records
  PROVE  /\ Len(Missing) \in Nat /\ Len(Missing) <= NumberOfMessages(t)
         /\ DOMAIN Missing = 1..Len(Missing)
         /\ \A i \in 1..Len(Missing) : Missing[i] \in 1..NumberOfMessages(t) \ kept
         /\ \A i, j \in 1..Len(Missing) : Missing[i] = Missing[j] => i = j
         /\ \A n \in 1..NumberOfMessages(t) \ kept :
              \E i \in 1..Len(Missing) : Missing[i] = n
<1>. DEFINE N == NumberOfMessages(t)
            rest == 1..N \ kept
<1>1. N \in Nat /\ N >= 1
  BY OneBatch
<1>2. Lacking = rest
  BY BatchOfAll
<1>3. Missing = Ranked(rest)
  BY <1>2 DEF Missing, Ranked
<1>. HIDE DEF N
<1>4. rest \in SUBSET Int /\ rest \in SUBSET (1..N)
  BY <1>1
<1>5. IsFiniteSet(1..N) /\ Cardinality(1..N) = N
  <2>1. IsFiniteSet(1..N) /\ Cardinality(1..N) = IF 1 > N THEN 0 ELSE N - 1 + 1
    BY <1>1, FS_Interval
  <2>2. N - 1 + 1 = N /\ ~ (1 > N)
    BY <1>1
  <2>. QED
    BY <2>1, <2>2
<1>. HIDE DEF rest
<1>6. IsFiniteSet(rest) /\ Cardinality(rest) <= N
  BY <1>4, <1>5, FS_Subset
<1>7. /\ Ranked(rest) \in Seq(rest) /\ Len(Ranked(rest)) = Cardinality(rest)
      /\ Len(Ranked(rest)) \in Nat
      /\ \A i \in 1..Len(Ranked(rest)) : Ranked(rest)[i] \in rest
      /\ \A i, j \in 1..Len(Ranked(rest)) : Ranked(rest)[i] = Ranked(rest)[j] => i = j
      /\ \A n \in rest : \E i \in 1..Len(Ranked(rest)) : Ranked(rest)[i] = n
  BY <1>4, <1>6, RanksEnumerate
<1>8. DOMAIN Missing = 1..Len(Missing)
  BY <1>3, <1>7, LenProperties
<1>9. /\ Len(Missing) \in Nat /\ Len(Missing) <= N
      /\ \A i \in 1..Len(Missing) : Missing[i] \in rest
      /\ \A i, j \in 1..Len(Missing) : Missing[i] = Missing[j] => i = j
      /\ \A n \in rest : \E i \in 1..Len(Missing) : Missing[i] = n
  <2>. DEFINE q == Missing
  <2>1. q = Ranked(rest)
    BY <1>3
  <2>. HIDE DEF q
  <2>2. /\ Len(q) = Cardinality(rest) /\ Len(q) \in Nat
        /\ \A i \in 1..Len(q) : q[i] \in rest
        /\ \A i, j \in 1..Len(q) : q[i] = q[j] => i = j
        /\ \A n \in rest : \E i \in 1..Len(q) : q[i] = n
    BY <1>7, <2>1
  <2>. QED
    BY <1>6, <2>2 DEF q
<1>. QED
  BY <1>8, <1>9 DEF N, rest

-----------------------------------------------------------------------------
(* The phases of a transfer.                                               *)

(* The invariant by the string that is sent. *)
Serving(t) == /\ sender.t = t /\ sender.batch = 0
              /\ results = [i \in 1..(t - 1) |-> "ok"]
              /\ faults \in 0..MaxFaults
Pending(t) == Serving(t) /\ got = [i \in 1..(t - 1) |-> Data(i)]
Sending(t) ==
    /\ Pending(t) /\ t \in Transfers
    /\ Initiating(t) \/ Ready(t) \/ Waiting(t) \/ Gathering(t)
Given(t) == /\ Serving(t) /\ got = [i \in 1..t |-> Data(i)]
            /\ t \in Transfers /\ Returned(t)
InPhase(t) == (Pending(t) /\ Resting) \/ Sending(t) \/ Given(t)

(* The phases of the string that is sent make up the invariant. *)
LEMMA Phases ==
  /\ ServiceInv <=> InPhase(sender.t)
  /\ \A t : InPhase(t) => ServiceInv
BY DEF ServiceInv, InPhase, Pending, Sending, Given, Serving

(* Steps that show nothing of themselves. *)
LEMMA SameView ==
  ASSUME NEW t, InPhase(t), Wire' = Wire, Back' = Back, sender' = sender,
         results' = results, receiver' = receiver, got' = got, faults' = faults
  PROVE  InPhase(t)'
<1>1. (Resting => Resting') /\ (Initiating(t) => Initiating(t)')
  BY DEF Resting, Initiating, Patient
<1>2. (Ready(t) => Ready(t)') /\ (Waiting(t) => Waiting(t)')
  BY DEF Ready, Waiting, Patient
<1>3. BatchIsIn' = BatchIsIn /\ Missing' = Missing
  BY DEF BatchIsIn, Missing, Lacking, Batch, ExpectedMessages
<1>4. Gathering(t) => Gathering(t)'
  BY <1>3 DEF Gathering, Patient
<1>5. Returned(t) => Returned(t)'
  BY DEF Returned
<1>6. (Pending(t) => Pending(t)') /\ (Serving(t) => Serving(t)')
  BY DEF Pending, Serving
<1>. QED
  BY <1>1, <1>2, <1>4, <1>5, <1>6 DEF InPhase, Sending, Given

-----------------------------------------------------------------------------
(* Faults.                                                                 *)

(* A fault among datagrams that are all alike. *)
LEMMA HitAlike ==
  ASSUME NEW w, NEW w2, NEW k, NEW m, Len(w) \in Nat, AllAre(w, m), Hit(w, w2, k)
  PROVE  AllAre(w2, m) /\ Len(w2) \in Nat /\ Len(w2) <= Len(w) + 1 /\ Len(w) >= 1
<1>1. AllAre(w2, m)
  BY AllStay DEF Hit
<1>2. Len(w2) = Len(w) - 1 \/ Len(w2) = Len(w) + 1
  BY DEF Hit, Drops, Repeats
<1>3. k \in 1..Len(w)
  BY DEF Hit, Drops, Repeats
<1>. QED
  BY <1>1, <1>2, <1>3

(* A fault among what travels with records never takes the last one, and   *)
(* repeats only an initiate.                                               *)
LEMMA HitRecords ==
  ASSUME PromptBatches, NEW t \in Transfers, NEW kept, NEW w, NEW w2, NEW k,
         Len(w) \in Nat, Travels(w, t, kept), Hit(w, w2, k)
  PROVE  /\ Travels(w2, t, kept)
         /\ OnWire(w, t, NumberOfMessages(t)) => OnWire(w2, t, NumberOfMessages(t))
<1>. DEFINE N == NumberOfMessages(t)
<1>1. "last" \notin Losable /\ "data" \notin Duplicable /\ "last" \notin Duplicable
  BY DEF PromptBatches
<1>2. N \in Nat /\ N >= 1
  BY OneBatch
<1>3. k \in 1..Len(w)
  BY DEF Hit, Drops, Repeats
<1>4. w[k] = Initiate(t) \/ \E n \in 1..N : w[k] = Piece(t, n)
  BY <1>3 DEF Travels
<1>5. \A n \in 1..N : Class(Piece(t, n)) = IF n = N THEN "last" ELSE "data"
  BY Classes
<1>6. CASE Drops(w, w2, k) /\ Class(w[k]) \in Losable
  <2>1. N \in 1..N
    BY <1>2
  <2>2. w[k] # Piece(t, N)
    BY <1>1, <1>5, <1>6, <2>1
  <2>. HIDE DEF N
  <2>3. Travels(w2, t, kept) /\ (OnWire(w, t, N) /\ w[k] # Piece(t, N) => OnWire(w2, t, N))
    BY <1>6, TravelsOn
  <2>. QED
    BY <2>2, <2>3 DEF N
<1>7. CASE Repeats(w, w2, k) /\ Class(w[k]) \in Duplicable
  <2>1. w[k] = Initiate(t)
    BY <1>1, <1>4, <1>5, <1>7
  <2>2. Travels(w2, t, kept) /\ (OnWire(w, t, N) => OnWire(w2, t, N))
    BY <1>7, <2>1, TravelsTwice
  <2>. QED
    BY <2>2
<1>. QED
  BY <1>6, <1>7 DEF Hit

(* Responses with at most one verification behind them. *)
Ends(w, t) == \A i \in 1..Len(w) : \/ w[i] = Response(t)
                                   \/ i = Len(w) /\ w[i] = Verification(t, <<>>)

(* Responses that end in the verification stay so when one goes. *)
LEMMA ResponsesTaken ==
  ASSUME NEW t, NEW w, NEW w2, NEW k, Len(w) \in Nat, Ends(w, t), Drops(w, w2, k)
  PROVE  Ends(w2, t)
<1>. DEFINE a == Response(t)
            b == Verification(t, <<>>)
<1>1. \A i \in 1..Len(w) : w[i] = a \/ (i = Len(w) /\ w[i] = b)
  BY DEF Ends
<1>2. (\A i \in 1..Len(w2) : w2[i] = a \/ (i = Len(w2) /\ w2[i] = b)) => Ends(w2, t)
  BY DEF Ends
<1>. HIDE DEF a, b
<1>3. ASSUME NEW i \in 1..Len(w2)
      PROVE  w2[i] = a \/ (i = Len(w2) /\ w2[i] = b)
  <2>1. /\ k \in 1..Len(w) /\ Len(w2) = Len(w) - 1
        /\ w2[i] = IF i < k THEN w[i] ELSE w[i + 1]
    BY DEF Drops
  <2>2. CASE i < k
    <3>1. i \in 1..Len(w) /\ i # Len(w) /\ w2[i] = w[i]
      BY <2>1, <2>2
    <3>. QED
      BY <1>1, <3>1
  <2>3. CASE ~ (i < k)
    <3>1. i + 1 \in 1..Len(w) /\ w2[i] = w[i + 1] /\ (i + 1 = Len(w) => i = Len(w2))
      BY <2>1, <2>3
    <3>. QED
      BY <1>1, <3>1
  <2>. QED
    BY <2>2, <2>3
<1>. QED
  BY <1>2, <1>3

(* And when the network hits them. *)
LEMMA HitResponses ==
  ASSUME PromptBatches, NEW t \in Transfers, NEW w, NEW w2, NEW k, Len(w) \in Nat,
         Ends(w, t), Hit(w, w2, k)
  PROVE  Ends(w2, t)
<1>. DEFINE a == Response(t)
            b == Verification(t, <<>>)
<1>0. \A i \in 1..Len(w) : w[i] = a \/ (i = Len(w) /\ w[i] = b)
  BY DEF Ends
<1>1. "verification" \notin Duplicable
  BY DEF PromptBatches
<1>2. Class(b) = "verification"
  BY Classes
<1>5. (\A i \in 1..Len(w2) : w2[i] = a \/ (i = Len(w2) /\ w2[i] = b)) => Ends(w2, t)
  BY DEF Ends
<1>. HIDE DEF a, b
<1>3. CASE Drops(w, w2, k)
  BY <1>3, ResponsesTaken
<1>4. CASE Repeats(w, w2, k) /\ Class(w[k]) \in Duplicable
  <2>0. k \in 1..Len(w)
    BY <1>4 DEF Repeats
  <2>1. w[k] = a
    BY <1>0, <1>1, <1>2, <1>4, <2>0
  <2>2. ASSUME NEW i \in 1..Len(w2)
        PROVE  w2[i] = a \/ (i = Len(w2) /\ w2[i] = b)
    <3>1. /\ Len(w2) = Len(w) + 1
          /\ w2[i] = IF i <= k THEN w[i] ELSE w[i - 1]
      BY <1>4 DEF Repeats
    <3>2. CASE i < k
      <4>1. i \in 1..Len(w) /\ i # Len(w) /\ w2[i] = w[i]
        BY <2>0, <3>1, <3>2
      <4>. QED
        BY <1>0, <4>1
    <3>3. CASE i = k
      BY <2>0, <2>1, <3>1, <3>3
    <3>4. CASE i > k
      <4>1. i - 1 \in 1..Len(w) /\ w2[i] = w[i - 1] /\ (i - 1 = Len(w) => i = Len(w2))
        BY <2>0, <3>1, <3>4
      <4>. QED
        BY <1>0, <4>1
    <3>. QED
      BY <2>0, <3>2, <3>3, <3>4
  <2>. QED
    BY <1>5, <2>2
<1>. QED
  BY <1>3, <1>4 DEF Hit

(* The network's faults leave a side at most one timeout more. *)
LEMMA FaultServes ==
  ASSUME PromptBatches, AskInv, NEW t, InPhase(t), Fault
  PROVE  InPhase(t)'
<1>1. /\ faults < MaxFaults /\ faults' = faults + 1
      /\ sender' = sender /\ results' = results
      /\ receiver' = receiver /\ got' = got
  BY FaultHits
<1>2. \/ Back' = Back /\ \E k \in 1..Len(Wire) : Hit(Wire, Wire', k)
      \/ Wire' = Wire /\ \E k \in 1..Len(Back) : Hit(Back, Back', k)
  BY FaultHits
<1>3. /\ Len(Wire) \in Nat /\ Len(Back) \in Nat
      /\ (Wire = <<>> <=> Len(Wire) = 0) /\ (Back = <<>> <=> Len(Back) = 0)
  BY Views
<1>4. faults \in 0..MaxFaults /\ MaxFaults \in Int
  BY DEF InPhase, Sending, Given, Pending, Serving, PromptBatches
<1>5. faults \in Nat /\ faults' \in 0..MaxFaults /\ sender.tries \in Nat
  BY <1>1, <1>4 DEF AskInv, SenderOK
<1>6. (Serving(t) => Serving(t)') /\ (Pending(t) => Pending(t)')
  BY <1>1, <1>5 DEF Serving, Pending
<1>7. \A onItsWay : Patient(onItsWay) => sender'.tries <= faults' /\ sender'.tries < faults'
  BY <1>1, <1>5 DEF Patient
<1>8. CASE Pending(t) /\ Resting
  BY <1>2, <1>3, <1>8 DEF Resting
<1>9. CASE Given(t)
  <2>1. t \in Transfers /\ Ends(Back, t) /\ Wire = <<>>
    BY <1>9 DEF Given, Returned, Ends
  <2>2. Wire' = Wire /\ Ends(Back', t)
    BY <1>2, <1>3, <2>1, HitResponses
  <2>3. Returned(t)'
    BY <1>1, <1>9, <2>1, <2>2 DEF Given, Returned, Ends
  <2>. QED
    BY <1>1, <1>6, <1>9, <2>3 DEF Given, InPhase
<1>10. CASE Sending(t)
  <2>1. t \in Transfers
    BY <1>10 DEF Sending
  <2>2. ASSUME \/ Initiating(t)' \/ Ready(t)' \/ Waiting(t)' \/ Gathering(t)'
        PROVE  InPhase(t)'
    BY <1>6, <1>10, <2>2 DEF InPhase, Sending
  <2>3. CASE Initiating(t)
    <3>1. AllAre(Wire, Initiate(t)) /\ AllAre(Back, Response(t))
          /\ Len(Wire) + Len(Back) <= faults + 1
      BY <2>3 DEF Initiating
    <3>2. /\ AllAre(Wire', Initiate(t)) /\ AllAre(Back', Response(t))
          /\ Len(Wire') \in Nat /\ Len(Back') \in Nat
          /\ Len(Wire') + Len(Back') <= Len(Wire) + Len(Back) + 1
          /\ (Back = <<>> => Back' = Back)
      BY <1>2, <1>3, <3>1, HitAlike
    <3>3. Len(Wire') + Len(Back') <= faults' + 1
      BY <1>1, <1>3, <1>5, <3>1, <3>2
    <3>4. Initiating(t)'
      BY <1>1, <1>7, <2>3, <3>2, <3>3 DEF Initiating, Patient
    <3>. QED
      BY <2>2, <3>4
  <2>4. CASE Ready(t)
    <3>1. AllAre(Wire, Initiate(t)) /\ AllAre(Back, Response(t)) /\ Len(Wire) <= faults
      BY <2>4 DEF Ready
    <3>2. /\ AllAre(Wire', Initiate(t)) /\ AllAre(Back', Response(t))
          /\ Len(Wire') \in Nat /\ Len(Wire') <= Len(Wire) + 1
      BY <1>2, <1>3, <3>1, HitAlike
    <3>3. Len(Wire') <= faults'
      BY <1>1, <1>3, <1>5, <3>1, <3>2
    <3>4. Ready(t)'
      BY <1>1, <2>4, <3>2, <3>3 DEF Ready
    <3>. QED
      BY <2>2, <3>4
  <2>5. CASE Waiting(t)
    <3>1. /\ Travels(Wire, t, {}) /\ OnWire(Wire, t, NumberOfMessages(t))
          /\ AllAre(Back, Response(t)) /\ Patient(Complete(Wire, t, {}))
      BY <2>5 DEF Waiting
    <3>2. Travels(Wire', t, {}) /\ OnWire(Wire', t, NumberOfMessages(t))
      BY <1>2, <1>3, <2>1, <3>1, HitRecords
    <3>3. AllAre(Back', Response(t))
      BY <1>2, <1>3, <3>1, HitAlike
    <3>4. Waiting(t)'
      BY <1>1, <1>7, <2>5, <3>1, <3>2, <3>3 DEF Waiting, Patient
    <3>. QED
      BY <2>2, <3>4
  <2>6. CASE Gathering(t)
    <3>. DEFINE kept == DOMAIN receiver.records
                N == NumberOfMessages(t)
    <3>1. /\ sender.pc = "verifying"
          /\ receiver.pc = "collecting" /\ receiver.response = Response(t)
          /\ receiver.done = 0 /\ receiver.built = <<>>
          /\ kept \subseteq 1..N /\ receiver.count = Cardinality(kept)
          /\ \A n \in kept : receiver.records[n] = Partitioned(t, 0, n - 1)
          /\ N \in kept \/ OnWire(Wire, t, N)
          /\ Travels(Wire, t, kept) /\ kept # {}
      BY <2>6 DEF Gathering
    <3>2. \/ AllAre(Back, Response(t)) /\ Patient(Complete(Wire, t, kept))
          \/ /\ Wire = <<>> /\ Back = <<Verification(t, Missing)>>
             /\ ~ BatchIsIn /\ Patient(TRUE)
      BY <2>6 DEF Gathering
    <3>3. Travels(Wire', t, kept) /\ (N \in kept \/ OnWire(Wire', t, N))
      BY <1>2, <1>3, <2>1, <3>1, HitRecords
    <3>4. Patient(FALSE)'
      BY <1>1, <1>7, <3>2 DEF Patient
    <3>. HIDE DEF kept, N
    <3>5. AllAre(Back', Response(t))
      <4>1. CASE AllAre(Back, Response(t))
        BY <1>2, <1>3, <4>1, HitAlike
      <4>2. CASE Wire = <<>> /\ Back = <<Verification(t, Missing)>>
        <5>1. PICK k \in 1..Len(Back) : Hit(Back, Back', k)
          BY <1>2, <1>3, <4>2
        <5>2. Len(Back) = 1 /\ Back[1] = Verification(t, Missing)
          BY <4>2
        <5>3. k = 1 /\ Class(Back[k]) \notin Duplicable
          BY <2>1, <5>1, <5>2, Classes DEF PromptBatches
        <5>4. Drops(Back, Back', k)
          BY <5>1, <5>3 DEF Hit
        <5>5. Len(Back') = 0
          BY <5>2, <5>4 DEF Drops
        <5>. QED
          BY <5>5 DEF AllAre
      <4>. QED
        BY <3>2, <4>1, <4>2
    <3>6. Gathering(t)'
      BY <1>1, <3>1, <3>3, <3>4, <3>5 DEF Gathering, Patient, kept, N
    <3>. QED
      BY <2>2, <3>6
  <2>. QED
    BY <1>10, <2>3, <2>4, <2>5, <2>6 DEF Sending
<1>. QED
  BY <1>8, <1>9, <1>10 DEF InPhase

-----------------------------------------------------------------------------
(* SendData keeps the promise.                                             *)

(* What is known of the state that the steps of both sides start from. *)
LEMMA Known ==
  ASSUME PromptBatches, AskInv, NEW t, InPhase(t)
  PROVE  /\ sender.t = t /\ sender.batch = 0 /\ sender.tries \in Nat
         /\ faults \in Nat /\ faults <= MaxFaults /\ MaxFaults <= MaxTimeouts
         /\ MaxFaults \in Nat /\ MaxTimeouts \in Nat
         /\ results = [i \in 1..(t - 1) |-> "ok"] /\ t \in Nat
         /\ DOMAIN sender = {"pc", "t", "tries", "batch"}
<1>1. /\ sender.t = t /\ sender.batch = 0 /\ faults \in 0..MaxFaults
      /\ results = [i \in 1..(t - 1) |-> "ok"]
  BY DEF InPhase, Sending, Given, Pending, Serving
<1>2. /\ sender.tries \in Nat /\ DOMAIN sender = {"pc", "t", "tries", "batch"}
      /\ sender.t \in Nat
  BY DEF AskInv, SenderOK
<1>3. MaxFaults \in 0..MaxTimeouts /\ MaxTimeouts \in Nat
  BY SizesAreGiven DEF PromptBatches
<1>. QED
  BY <1>1, <1>2, <1>3

(* A string that has arrived is confirmed, and the next one waits. *)
LEMMA SendEnds ==
  ASSUME PromptBatches, NEW t \in Transfers, Given(t), EndBatch,
         Wire' = <<>>, Back' = <<>>, receiver'.pc = "first", got' = got, faults' = faults
  PROVE  InPhase(t + 1)' /\ results' = Append(results, "ok")
<1>1. /\ sender.t = t /\ sender.batch = 0 /\ faults \in 0..MaxFaults
      /\ results = [i \in 1..(t - 1) |-> "ok"]
      /\ got = [i \in 1..t |-> Data(i)]
  BY DEF Given, Serving
<1>2. Interval(t) = NumberOfMessages(t) /\ NumberOfMessages(t) \in Nat
      /\ t \in Nat /\ t \in 1..Len(Length)
  BY OneBatch
<1>3. (sender.batch + 1) * Interval(sender.t) >= NumberOfMessages(sender.t)
  <2>1. (0 + 1) * Interval(t) = Interval(t)
    BY <1>2
  <2>. QED
    BY <1>1, <1>2, <2>1
<1>4. results' = Append(results, "ok") /\ sender' = Idle(t + 1)
  BY <1>1, <1>3 DEF EndBatch, SendReturns
<1>5. results' = [i \in 1..t |-> "ok"]
  <2>1. \A n \in Nat : n >= 1 => Append([i \in 1..(n - 1) |-> "ok"], "ok") = [i \in 1..n |-> "ok"]
    OBVIOUS
  <2>2. t >= 1
    BY <1>2
  <2>. QED
    BY <1>1, <1>2, <1>4, <2>1, <2>2
<1>6. PICK u \in Nat : u = t + 1
  <2>1. t + 1 \in Nat
    BY <1>2
  <2>. QED
    BY <2>1
<1>7. u - 1 = t
  BY <1>2, <1>6
<1>8. sender'.t = u /\ sender'.batch = 0 /\ sender'.pc = "idle" /\ sender'.tries = 0
  BY <1>4, <1>6 DEF Idle
<1>9. Serving(u)'
  BY <1>1, <1>5, <1>7, <1>8 DEF Serving
<1>10. Pending(u)'
  BY <1>1, <1>7, <1>9 DEF Pending
<1>11. Resting'
  BY <1>8 DEF Resting
<1>12. InPhase(u)'
  BY <1>10, <1>11 DEF InPhase
<1>. QED
  BY <1>4, <1>6, <1>12

(* SendData. *)
LEMMA SendInitiateServes ==
  ASSUME PromptBatches, AskInv, NEW t, InPhase(t), SendInitiate
  PROVE  InPhase(t)' /\ results' = results /\ got' = got
<1>1. /\ sender.pc = "idle" /\ sender.t \in Transfers
      /\ toReceiver' = Transmit(toReceiver, <<Initiate(sender.t)>>)
      /\ sender' = [sender EXCEPT !.pc = "initiating"]
      /\ results' = results /\ receiver' = receiver /\ got' = got
      /\ toSender' = toSender /\ sendQueue' = sendQueue
      /\ responseQueue' = responseQueue /\ faults' = faults
  BY DEF SendInitiate, receiverVars
<1>2. Pending(t) /\ Resting
  BY <1>1 DEF InPhase, Sending, Given, Initiating, Ready, Waiting, Gathering, Returned
<1>3. t \in Transfers /\ sender.t = t
  BY <1>1, <1>2 DEF Pending, Serving
<1>4. /\ faults \in Nat /\ NetCapacity \in Nat /\ NetCapacity >= 1
      /\ DOMAIN sender = {"pc", "t", "tries", "batch"}
  BY <1>3, Known, OneBatch
<1>. DEFINE r == <<Initiate(t)>>
<1>5. r \in Seq(Records) /\ Len(r) = 1 /\ r[1] = Initiate(t)
  BY <1>3, SentRecords
<1>6. toReceiver' = Transmit(toReceiver, r)
  BY <1>1, <1>3
<1>. HIDE DEF r
<1>7. Len(Wire) = 0 /\ Back' = Back /\ Len(Back) = 0
  BY <1>1, <1>2, Views DEF Resting, Back
<1>8. Sends(Wire, Wire', r) /\ Len(Wire') = Len(Wire) + Len(r)
  <2>1. Len(Wire) + Len(r) <= NetCapacity
    BY <1>4, <1>5, <1>7
  <2>. QED
    BY <1>1, <1>5, <1>6, <2>1, WireSends
<1>9. Len(Wire') = 1 /\ AllAre(Wire', Initiate(t))
  BY <1>5, <1>7, <1>8 DEF Sends, AllAre
<1>10. AllAre(Back', Response(t)) /\ Back' = <<>> /\ Len(Back') = 0
  BY <1>2, <1>7 DEF Resting, AllAre
<1>11. Wire' # <<>>
  BY <1>9
<1>12. sender'.pc = "initiating" /\ sender'.t = t /\ sender'.batch = sender.batch
       /\ sender'.tries = 0
  BY <1>1, <1>2, <1>3, <1>4 DEF Resting
<1>13. Len(Wire') + Len(Back') <= faults' + 1
  BY <1>1, <1>4, <1>9, <1>10
<1>14. Patient(Wire # <<>> \/ Back # <<>>)'
  BY <1>1, <1>4, <1>11, <1>12 DEF Patient
<1>15. Initiating(t)'
  BY <1>1, <1>2, <1>9, <1>10, <1>12, <1>13, <1>14 DEF Initiating, Resting
<1>16. Pending(t)'
  BY <1>1, <1>2, <1>12 DEF Pending, Serving
<1>. QED
  BY <1>1, <1>3, <1>15, <1>16 DEF InPhase, Sending

(* The response is one to this initiate, so SendData goes on to the data. *)
LEMMA InitiateResponseServes ==
  ASSUME PromptBatches, AskInv, NEW t, InPhase(t), InitiateResponse
  PROVE  InPhase(t)' /\ results' = results /\ got' = got
<1>1. /\ sender.pc = "initiating" /\ TakesResponse
      /\ receiver' = receiver /\ got' = got /\ toReceiver' = toReceiver
      /\ toSender' = toSender /\ sendQueue' = sendQueue /\ faults' = faults
  BY DEF InitiateResponse, receiverVars
<1>2. Pending(t) /\ t \in Transfers /\ Initiating(t)
  BY <1>1 DEF InPhase, Sending, Given, Resting, Ready, Waiting, Gathering, Returned
<1>3. Back # <<>> /\ Drops(Back, Back', 1) /\ Back[1] = Head(responseQueue)
  BY <1>1, BackTaken
<1>4. Len(Wire) \in Nat /\ Len(Back) \in Nat /\ Wire' = Wire
  BY <1>1, Views DEF Wire
<1>5. Head(responseQueue) = Response(t) /\ AllAre(Back', Response(t)) /\ Len(Back) >= 1
  <2>1. AllAre(Back, Response(t)) /\ 1 \in 1..Len(Back)
    BY <1>2, <1>3 DEF Initiating, Drops
  <2>2. AllAre(Back', Response(t))
    BY <1>3, <1>4, <2>1, AllStay
  <2>. QED
    BY <1>3, <1>4, <2>1, <2>2 DEF AllAre
<1>6. sender.t = t /\ faults \in Nat /\ DOMAIN sender = {"pc", "t", "tries", "batch"}
  BY Known
<1>7. ParametersMatch(Head(responseQueue), sender.t)
  BY <1>5, <1>6 DEF ParametersMatch, Response
<1>8. sender' = [sender EXCEPT !.pc = "sending"] /\ results' = results
  BY <1>7 DEF InitiateResponse
<1>9. sender'.pc = "sending" /\ sender'.t = t /\ sender'.batch = sender.batch
  BY <1>6, <1>8
<1>10. Len(Wire') <= faults'
  <2>1. Len(Wire) + Len(Back) <= faults + 1
    BY <1>2 DEF Initiating
  <2>. QED
    BY <1>1, <1>4, <1>5, <1>6, <2>1
<1>11. AllAre(Wire', Initiate(t)) /\ receiver'.pc = "answered" /\ receiver'.response = Response(t)
  BY <1>1, <1>2, <1>3, <1>4 DEF Initiating
<1>12. Ready(t)'
  BY <1>5, <1>9, <1>10, <1>11 DEF Ready
<1>13. Pending(t)'
  BY <1>1, <1>2, <1>8, <1>9 DEF Pending, Serving
<1>. QED
  BY <1>1, <1>2, <1>8, <1>12, <1>13 DEF InPhase, Sending

(* All records of the string are put on the way, behind initiates at most. *)
LEMMA SendBatchServes ==
  ASSUME PromptBatches, AskInv, NEW t, InPhase(t), SendBatch
  PROVE  InPhase(t)' /\ results' = results /\ got' = got
<1>1. /\ sender.pc = "sending"
      /\ sender' = [sender EXCEPT !.pc = "verifying", !.tries = 0]
      /\ results' = results /\ receiver' = receiver /\ got' = got
      /\ toSender' = toSender /\ sendQueue' = sendQueue
      /\ responseQueue' = responseQueue /\ faults' = faults
  BY DEF SendBatch, receiverVars
<1>2. Pending(t) /\ t \in Transfers /\ Ready(t)
  BY <1>1 DEF InPhase, Sending, Given, Resting, Initiating, Waiting, Gathering, Returned
<1>3. /\ sender.t = t /\ sender.batch = 0 /\ faults \in Nat /\ faults <= MaxFaults
      /\ MaxFaults \in Nat /\ DOMAIN sender = {"pc", "t", "tries", "batch"}
  BY Known
<1>. DEFINE N == NumberOfMessages(t)
            r == [i \in 1..Interval(t) |->
                    DataRecord(t, i + 0 * Interval(t), Partitioned(t, 0, i - 1))]
            numbers == [i \in 1..N |-> i]
<1>4. toReceiver' = Transmit(toReceiver, r)
  BY <1>3 DEF SendBatch
<1>5. r \in Seq(Records)
  BY <1>2, SentRecords
<1>6. r = [i \in 1..N |-> Piece(t, i)]
  BY <1>2, BatchAsPieces
<1>7. N \in Nat /\ N >= 1 /\ NetCapacity \in Nat /\ MaxFaults + N <= NetCapacity
  BY <1>2, OneBatch
<1>. HIDE DEF r, N
<1>8. Len(r) = N /\ \A i \in 1..N : r[i] = Piece(t, i)
  BY <1>6, <1>7
<1>9. Len(Wire) \in Nat /\ Len(Wire) <= faults /\ AllAre(Wire, Initiate(t)) /\ Back' = Back
  BY <1>1, <1>2, Views DEF Ready, Back
<1>10. Sends(Wire, Wire', r) /\ Len(Wire') = Len(Wire) + Len(r)
  <2>1. Len(Wire) + Len(r) <= NetCapacity
    BY <1>3, <1>7, <1>8, <1>9
  <2>. QED
    BY <1>1, <1>4, <1>5, <2>1, WireSends
<1>11. /\ Len(numbers) = N
       /\ \A i \in 1..N : numbers[i] = i
  BY <1>7
<1>. HIDE DEF numbers
<1>12. Travels(Wire', t, {}) /\ Complete(Wire', t, {})
  <2>1. \A i \in 1..Len(numbers) : /\ numbers[i] \in 1..NumberOfMessages(t) \ {}
                                   /\ r[i] = Piece(t, numbers[i])
    BY <1>8, <1>11 DEF N
  <2>2. \A i, j \in 1..Len(numbers) : numbers[i] = numbers[j] => i = j
    BY <1>11
  <2>3. \A n \in 1..NumberOfMessages(t) \ {} : \E i \in 1..Len(numbers) : numbers[i] = n
    BY <1>11 DEF N
  <2>4. Len(numbers) \in Nat /\ Len(r) = Len(numbers)
    BY <1>7, <1>8, <1>11
  <2>. QED
    BY <1>9, <1>10, <2>1, <2>2, <2>3, <2>4, PiecesTravel
<1>13. OnWire(Wire', t, NumberOfMessages(t))
  BY <1>7, <1>12 DEF Complete, N
<1>14. sender'.pc = "verifying" /\ sender'.t = t /\ sender'.batch = 0 /\ sender'.tries = 0
  BY <1>1, <1>3
<1>15. Waiting(t)'
  BY <1>1, <1>2, <1>3, <1>9, <1>12, <1>13, <1>14 DEF Waiting, Ready, Patient
<1>16. Pending(t)'
  BY <1>1, <1>2, <1>14 DEF Pending, Serving
<1>. QED
  BY <1>1, <1>2, <1>15, <1>16 DEF InPhase, Sending

(* Where SendData waits for the verification. *)
LEMMA Verifying ==
  ASSUME NEW t, InPhase(t), sender.pc = "verifying"
  PROVE  /\ t \in Transfers
         /\ \/ Pending(t) /\ (Waiting(t) \/ Gathering(t))
            \/ Given(t)
BY DEF InPhase, Sending, Given, Resting, Initiating, Ready

(* A response to the initiate does not verify, a verification does. *)
LEMMA WhatVerifies ==
  ASSUME NEW t, sender.t = t
  PROVE  /\ ~ Verifies(Response(t))
         /\ \A resend : /\ Verifies(Verification(t, resend))
                        /\ Verification(t, resend).resend = resend
<1>1. Response(t).kind = "response"
  BY DEF Response, Initiate
<1>2. ~ Verifies(Response(t))
  BY <1>1 DEF Verifies
<1>3. ASSUME NEW resend
      PROVE  /\ Verifies(Verification(t, resend))
             /\ Verification(t, resend).resend = resend
  <2>1. /\ Verification(t, resend).kind = "verification"
        /\ Verification(t, resend).id = t
        /\ Verification(t, resend).resend = resend
    BY DEF Verification
  <2>. QED
    BY <2>1 DEF Verifies
<1>. QED
  BY <1>2, <1>3

(* Someone asks for something. *)
LEMMA AsksForSome ==
  ASSUME PromptBatches, NEW t \in Transfers, Gathering(t), ~ BatchIsIn
  PROVE  Missing # <<>>
<1>. DEFINE kept == DOMAIN receiver.records
            N == NumberOfMessages(t)
<1>1. /\ receiver.response = Response(t) /\ receiver.done = 0
      /\ kept \subseteq 1..N /\ receiver.count = Cardinality(kept)
  BY DEF Gathering
<1>2. kept # 1..N
  BY <1>1, AllKept
<1>3. PICK n \in 1..N : n \notin kept
  BY <1>1, <1>2
<1>4. n \in 1..N \ kept
  BY <1>3
<1>5. \E i \in 1..Len(Missing) : Missing[i] = n
  BY <1>1, <1>4, MissingOnce
<1>6. Len(Missing) # 0
  BY <1>5
<1>. QED
  BY <1>6

(* Only a response to a repeated initiate is skipped. *)
LEMMA VerifySkipServes ==
  ASSUME PromptBatches, AskInv, NEW t, InPhase(t), VerifySkip
  PROVE  InPhase(t)' /\ results' = results /\ got' = got
<1>1. /\ sender.pc = "verifying" /\ TakesResponse /\ ~ Verifies(Head(responseQueue))
      /\ sender' = sender /\ results' = results /\ receiver' = receiver /\ got' = got
      /\ toReceiver' = toReceiver /\ toSender' = toSender
      /\ sendQueue' = sendQueue /\ faults' = faults
  BY DEF VerifySkip, senderVars, receiverVars
<1>2. Back # <<>> /\ Drops(Back, Back', 1) /\ Back[1] = Head(responseQueue)
  BY <1>1, BackTaken
<1>3. Len(Back) \in Nat /\ Wire' = Wire /\ sender.t = t
  BY <1>1, Views, Known DEF Wire
<1>4. (Pending(t) => Pending(t)') /\ (Serving(t) => Serving(t)')
  BY <1>1 DEF Pending, Serving
<1>5. CASE Given(t)
  <2>1. Ends(Back, t)
    BY <1>5 DEF Given, Returned, Ends
  <2>2. Ends(Back', t)
    BY <1>2, <1>3, <2>1, ResponsesTaken
  <2>3. Returned(t)'
    BY <1>1, <1>3, <1>5, <2>2 DEF Given, Returned, Ends
  <2>. QED
    BY <1>1, <1>4, <1>5, <2>3 DEF Given, InPhase
<1>6. ASSUME AllAre(Back, Response(t))
      PROVE  AllAre(Back', Response(t))
  BY <1>2, <1>3, <1>6, AllStay
<1>7. CASE Pending(t) /\ t \in Transfers /\ Waiting(t)
  <2>1. Waiting(t)'
    BY <1>1, <1>3, <1>6, <1>7 DEF Waiting, Patient
  <2>. QED
    BY <1>1, <1>4, <1>7, <2>1 DEF InPhase, Sending
<1>8. CASE Pending(t) /\ t \in Transfers /\ Gathering(t)
  <2>1. Back # <<Verification(t, Missing)>>
    <3>1. Verifies(Verification(t, Missing))
      BY <1>3, WhatVerifies
    <3>. QED
      BY <1>1, <1>2, <3>1
  <2>2. /\ AllAre(Back, Response(t))
        /\ Patient(Complete(Wire, t, DOMAIN receiver.records))
    BY <1>8, <2>1 DEF Gathering
  <2>3. AllAre(Back', Response(t))
    BY <1>6, <2>2
  <2>4. Gathering(t)'
    BY <1>1, <1>3, <1>8, <2>2, <2>3 DEF Gathering, Patient
  <2>. QED
    BY <1>1, <1>4, <1>8, <2>4 DEF InPhase, Sending
<1>. QED
  BY <1>1, <1>5, <1>7, <1>8, Verifying

(* An empty verification comes only when GetData has returned the string,  *)
(* and nothing else is on the way then.                                    *)
LEMMA VerifyDoneServes ==
  ASSUME PromptBatches, AskInv, NEW t, InPhase(t), VerifyDone
  PROVE  /\ Given(t) /\ InPhase(t + 1)' /\ results' = Append(results, "ok")
         /\ got' = got
<1>1. /\ sender.pc = "verifying" /\ TakesResponse /\ Verifies(Head(responseQueue))
      /\ Head(responseQueue).resend = <<>> /\ EndBatch
      /\ receiver' = receiver /\ got' = got
      /\ toReceiver' = toReceiver /\ toSender' = toSender
      /\ sendQueue' = sendQueue /\ faults' = faults
  BY DEF VerifyDone, receiverVars
<1>2. Back # <<>> /\ Drops(Back, Back', 1) /\ Back[1] = Head(responseQueue)
  BY <1>1, BackTaken
<1>3. Len(Back) \in Nat /\ Wire' = Wire /\ sender.t = t /\ 1 \in 1..Len(Back)
  BY <1>1, <1>2, Views, Known DEF Wire, Drops
<1>4. ~ AllAre(Back, Response(t))
  <2>1. ~ Verifies(Response(t))
    BY <1>3, WhatVerifies
  <2>. QED
    BY <1>1, <1>2, <1>3, <2>1 DEF AllAre
<1>5. ~ Waiting(t)
  BY <1>4 DEF Waiting
<1>6. t \in Transfers
  BY <1>1, Verifying
<1>7. ~ Gathering(t)
  <2>. SUFFICES ASSUME Gathering(t) PROVE FALSE
    OBVIOUS
  <2>1. Back = <<Verification(t, Missing)>> /\ ~ BatchIsIn
    BY <1>4 DEF Gathering
  <2>2. Back[1] = Verification(t, Missing)
    BY <2>1
  <2>3. Verification(t, Missing).resend = Missing
    BY <1>3, WhatVerifies
  <2>4. Missing = <<>>
    BY <1>1, <1>2, <2>2, <2>3
  <2>. QED
    BY <1>6, <2>1, <2>4, AsksForSome
<1>8. Given(t)
  BY <1>1, <1>5, <1>7, Verifying
<1>9. Wire = <<>> /\ receiver.pc = "first"
      /\ \A i \in 1..Len(Back) : \/ Back[i] = Response(t)
                                 \/ i = Len(Back) /\ Back[i] = Verification(t, <<>>)
  BY <1>8 DEF Given, Returned
<1>10. Len(Back) = 1
  <2>1. Back[1] # Response(t)
    BY <1>1, <1>2, <1>3, WhatVerifies
  <2>. QED
    BY <1>3, <1>9, <2>1
<1>11. Back' = <<>>
  <2>1. Len(Back') = 0
    BY <1>2, <1>10 DEF Drops
  <2>2. Back' \in Seq(Answers)
    BY <1>1, BackTaken
  <2>. QED
    BY <2>1, <2>2, EmptySeq
<1>. QED
  BY <1>1, <1>3, <1>6, <1>8, <1>9, <1>11, SendEnds

(* What is asked for is sent again, as it was sent at first: the last      *)
(* record is never asked for.                                              *)
LEMMA VerifyResendServes ==
  ASSUME PromptBatches, AskInv, NEW t, InPhase(t), VerifyResend
  PROVE  InPhase(t)' /\ results' = results /\ got' = got
<1>1. /\ sender.pc = "verifying" /\ TakesResponse /\ Verifies(Head(responseQueue))
      /\ Head(responseQueue).resend # <<>>
      /\ results' = results /\ receiver' = receiver /\ got' = got
      /\ toSender' = toSender /\ sendQueue' = sendQueue /\ faults' = faults
  BY DEF VerifyResend, receiverVars
<1>2. Back # <<>> /\ Drops(Back, Back', 1) /\ Back[1] = Head(responseQueue)
      /\ Back' \in Seq(Answers)
  BY <1>1, BackTaken
<1>3. /\ Len(Back) \in Nat /\ 1 \in 1..Len(Back)
      /\ sender.t = t /\ sender.batch = 0 /\ faults \in Nat
  BY <1>2, Views, Known DEF Drops
<1>4. ~ AllAre(Back, Response(t))
  <2>1. ~ Verifies(Response(t))
    BY <1>3, WhatVerifies
  <2>. QED
    BY <1>1, <1>2, <1>3, <2>1 DEF AllAre
<1>5. t \in Transfers /\ ~ Waiting(t)
  BY <1>1, <1>4, Verifying DEF Waiting
<1>6. ~ Given(t)
  <2>. SUFFICES ASSUME Given(t) PROVE FALSE
    OBVIOUS
  <2>1. Back[1] = Response(t) \/ Back[1] = Verification(t, <<>>)
    BY <1>3 DEF Given, Returned
  <2>2. ~ Verifies(Response(t)) /\ Verification(t, <<>>).resend = <<>>
    BY <1>3, WhatVerifies
  <2>. QED
    BY <1>1, <1>2, <2>1, <2>2
<1>7. Pending(t) /\ Gathering(t)
  BY <1>1, <1>5, <1>6, Verifying
<1>. DEFINE kept == DOMAIN receiver.records
            N == NumberOfMessages(t)
<1>8. /\ receiver.pc = "collecting" /\ receiver.response = Response(t)
      /\ receiver.done = 0 /\ receiver.built = <<>>
      /\ kept \subseteq 1..N /\ receiver.count = Cardinality(kept)
      /\ \A n \in kept : receiver.records[n] = Partitioned(t, 0, n - 1)
      /\ N \in kept \/ OnWire(Wire, t, N)
      /\ kept # {}
  BY <1>7 DEF Gathering
<1>9. Wire = <<>> /\ Back = <<Verification(t, Missing)>> /\ Patient(TRUE)
  BY <1>4, <1>7 DEF Gathering
<1>10. N \in kept
  <2>1. Len(Wire) = 0
    BY <1>9
  <2>. QED
    BY <1>8, <2>1 DEF OnWire
<1>11. /\ Len(Missing) \in Nat /\ Len(Missing) <= N /\ DOMAIN Missing = 1..Len(Missing)
       /\ \A i \in 1..Len(Missing) : Missing[i] \in 1..N \ kept
       /\ \A i, j \in 1..Len(Missing) : Missing[i] = Missing[j] => i = j
       /\ \A n \in 1..N \ kept : \E i \in 1..Len(Missing) : Missing[i] = n
  BY <1>5, <1>8, MissingOnce
<1>12. Head(responseQueue).resend = Missing
  <2>1. Back[1] = Verification(t, Missing)
    BY <1>9
  <2>. QED
    BY <1>2, <1>3, <2>1, WhatVerifies
<1>. DEFINE r == [i \in DOMAIN Missing |-> Resent(t, 0, Missing[i])]
<1>13. \A i \in 1..Len(Missing) : /\ Missing[i] % Interval(t) # 0
                                  /\ Resent(t, 0, Missing[i]) = Piece(t, Missing[i])
  <2>. TAKE i \in 1..Len(Missing)
  <2>1. Missing[i] \in 1..N /\ Missing[i] # N
    BY <1>10, <1>11
  <2>. QED
    BY <1>5, <2>1, ResentAsSent
<1>14. toReceiver' = Transmit(toReceiver, r) /\ sender' = sender
  <2>1. \/ toReceiver' = Transmit(toReceiver, r) /\ UNCHANGED sender
        \/ \E i \in DOMAIN Missing : Missing[i] % Interval(t) = 0
    BY <1>3, <1>12 DEF VerifyResend
  <2>. QED
    BY <1>11, <1>13, <2>1
<1>15. r \in Seq(Records)
  <2>1. receiver.response \in Responses /\ receiver.done \in Nat
    BY <1>8 DEF AskInv, ReceiverOK, Listens, Answered, Collects
  <2>2. Missing \in Seq(Int)
    BY <2>1, MissingIsNumbers
  <2>. QED
    BY <1>5, <2>2, SentRecords
<1>16. Len(r) = Len(Missing) /\ \A i \in 1..Len(Missing) : r[i] = Piece(t, Missing[i])
  BY <1>11, <1>13
<1>. HIDE DEF r, kept, N
<1>17. Len(Wire) = 0 /\ Len(Wire) \in Nat /\ AllAre(Wire, Initiate(t))
  BY <1>9 DEF AllAre
<1>18. Sends(Wire, Wire', r) /\ Len(Wire') = Len(Wire) + Len(r)
  <2>1. N \in Nat /\ NetCapacity \in Nat /\ N <= NetCapacity
    BY <1>5, OneBatch DEF N
  <2>2. Len(Wire) + Len(r) <= NetCapacity
    BY <1>11, <1>16, <1>17, <2>1
  <2>. QED
    BY <1>1, <1>14, <1>15, <2>2, WireSends
<1>19. Travels(Wire', t, kept) /\ Complete(Wire', t, kept)
  <2>. DEFINE q == Missing
  <2>1. /\ Len(q) \in Nat /\ Len(r) = Len(q)
        /\ \A i \in 1..Len(q) : /\ q[i] \in 1..NumberOfMessages(t) \ kept
                                 /\ r[i] = Piece(t, q[i])
        /\ \A i, j \in 1..Len(q) : q[i] = q[j] => i = j
        /\ \A n \in 1..NumberOfMessages(t) \ kept : \E i \in 1..Len(q) : q[i] = n
    BY <1>11, <1>16 DEF N
  <2>. HIDE DEF q
  <2>. QED
    BY <1>17, <1>18, <2>1, PiecesTravel
<1>20. AllAre(Back', Response(t))
  <2>1. Len(Back) = 1
    BY <1>9
  <2>2. Len(Back') = 0
    BY <1>2, <2>1 DEF Drops
  <2>. QED
    BY <2>2 DEF AllAre
<1>21. Gathering(t)'
  BY <1>1, <1>8, <1>9, <1>10, <1>14, <1>19, <1>20 DEF Gathering, Patient, kept, N
<1>22. Pending(t)'
  BY <1>1, <1>7, <1>14 DEF Pending, Serving
<1>. QED
  BY <1>1, <1>5, <1>21, <1>22 DEF InPhase, Sending

-----------------------------------------------------------------------------
(* GetData keeps the promise.                                              *)

(* One more of a kind. *)
LEMMA AllSent ==
  ASSUME NEW w, NEW w2, NEW m, Len(w) \in Nat, AllAre(w, m), Sends(w, w2, <<m>>)
  PROVE  AllAre(w2, m) /\ Len(w2) <= Len(w) + 1
<1>1. Len(<<m>>) = 1 /\ <<m>>[1] = m
  OBVIOUS
<1>. DEFINE r == <<m>>
<1>2. Len(r) = 1 /\ r[1] = m
  BY <1>1
<1>3. Sends(w, w2, r)
  OBVIOUS
<1>. HIDE DEF r
<1>4. /\ Len(w2) <= Len(w) + 1
      /\ \A i \in 1..Len(w2) : w2[i] = IF i <= Len(w) THEN w[i] ELSE r[i - Len(w)]
  BY <1>2, <1>3 DEF Sends
<1>5. ASSUME NEW i \in 1..Len(w2) PROVE w2[i] = m
  <2>1. CASE i <= Len(w)
    <3>1. i \in 1..Len(w)
      BY <2>1
    <3>. QED
      BY <1>4, <2>1, <3>1 DEF AllAre
  <2>2. CASE ~ (i <= Len(w))
    <3>1. i \in Int /\ i <= Len(w) + 1 /\ i > Len(w)
      <4>1. Len(w2) <= Len(w) + 1 /\ 1 <= i /\ i <= Len(w2)
        BY <1>4
      <4>2. i \in Int
        OBVIOUS
      <4>3. Len(w2) \in Int
        BY <4>1
      <4>. QED
        BY <2>2, <4>1, <4>2, <4>3
    <3>2. i - Len(w) = 1
      BY <3>1
    <3>. QED
      BY <1>2, <1>4, <2>2, <3>2
  <2>. QED
    BY <2>1, <2>2
<1>. QED
  BY <1>4, <1>5 DEF AllAre

(* A record that is taken is kept, and the rest is still on its way. *)
LEMMA PieceTaken ==
  ASSUME NEW w, NEW w2, NEW t, NEW n, NEW kept, Len(w) \in Nat,
         Travels(w, t, kept), Drops(w, w2, 1), w[1] = Piece(t, n)
  PROVE  /\ Travels(w2, t, kept \cup {n})
         /\ \A k : k \in kept \/ OnWire(w, t, k) => k \in kept \cup {n} \/ OnWire(w2, t, k)
         /\ Complete(w, t, kept) => Complete(w2, t, kept \cup {n})
<1>1. Travels(w2, t, kept \cup {n})
  BY TravelsTaken
<1>2. ASSUME NEW k, k # n PROVE Piece(t, k) # Piece(t, n)
  <2>1. \A i, j : Piece(t, i) = Piece(t, j) => i = j
    BY Kinds
  <2>. QED
    BY <1>2, <2>1
<1>3. \A k : OnWire(w, t, k) /\ k # n => OnWire(w2, t, k)
  BY <1>2, TravelsOn
<1>4. Complete(w, t, kept) => Complete(w2, t, kept \cup {n})
  BY <1>3 DEF Complete
<1>. QED
  BY <1>1, <1>3, <1>4

(* GetData. *)
LEMMA FirstRecordServes ==
  ASSUME PromptBatches, AskInv, NEW t, InPhase(t), FirstRecord
  PROVE  InPhase(t)' /\ results' = results /\ got' = got
<1>1. /\ receiver.pc = "first" /\ TakesSend
      /\ sender' = sender /\ results' = results /\ got' = got
      /\ toReceiver' = toReceiver /\ responseQueue' = responseQueue /\ faults' = faults
  BY DEF FirstRecord, senderVars
<1>2. Wire # <<>> /\ Drops(Wire, Wire', 1) /\ Wire[1] = Head(sendQueue)
  BY <1>1, WireTaken
<1>3. t \in Transfers /\ Pending(t) /\ Initiating(t)
  BY <1>1, <1>2 DEF InPhase, Sending, Given, Resting, Ready, Waiting, Gathering, Returned
<1>4. Len(Wire) \in Nat /\ 1 \in 1..Len(Wire) /\ Len(Back) \in Nat
  BY <1>2, Views DEF Drops
<1>5. AllAre(Wire, Initiate(t)) /\ Back = <<>> /\ Len(Wire) + Len(Back) <= faults + 1
      /\ Patient(TRUE)
  BY <1>1, <1>3 DEF Initiating, Patient
<1>6. Head(sendQueue) = Initiate(t)
  BY <1>2, <1>4, <1>5 DEF AllAre
<1>7. AsInitiate(Head(sendQueue)) = {Response(t)}
  <2>1. Initiate(t).kind = "initiate"
    BY DEF Initiate
  <2>. QED
    BY <1>6, <2>1 DEF AsInitiate, Response
<1>8. /\ receiver' = [pc |-> "answered", tries |-> 0, response |-> Response(t)]
      /\ toSender' = Transmit(toSender, <<Response(t)>>)
  BY <1>7 DEF FirstRecord
<1>9. Response(t) \in Answers
  <2>1. Initiate(t) \in Records
    BY <1>3 DEF Records
  <2>. QED
    BY <1>6, <1>7, <2>1, TakenForOther DEF Answers
<1>10. Len(Back) = 0 /\ AllAre(Back, Response(t))
  BY <1>5 DEF AllAre
<1>11. AllAre(Back', Response(t)) /\ Len(Back') = 1
  <2>1. NetCapacity \in Nat /\ NetCapacity >= 1
    BY <1>3, OneBatch
  <2>2. Sends(Back, Back', <<Response(t)>>) /\ Len(Back') = 1
    BY <1>1, <1>8, <1>9, <1>10, <2>1, BackSends
  <2>. QED
    BY <1>4, <1>10, <2>2, AllSent
<1>12. AllAre(Wire', Initiate(t)) /\ Len(Wire') = Len(Wire) - 1
  BY <1>2, <1>4, <1>5, AllStay DEF Drops
<1>13. faults \in Nat /\ sender.tries \in Nat
  BY Known
<1>14. Len(Wire') + Len(Back') <= faults' + 1
  BY <1>1, <1>4, <1>5, <1>10, <1>11, <1>12, <1>13
<1>15. Back' # <<>>
  BY <1>11
<1>16. Initiating(t)'
  BY <1>1, <1>3, <1>5, <1>8, <1>11, <1>12, <1>13, <1>14, <1>15 DEF Initiating, Patient
<1>17. Pending(t)'
  BY <1>1, <1>3 DEF Pending, Serving
<1>. QED
  BY <1>1, <1>3, <1>16, <1>17 DEF InPhase, Sending

(* A repeated initiate is answered again, and a record starts the batch. *)
LEMMA AnsweredRecordServes ==
  ASSUME PromptBatches, AskInv, NEW t, InPhase(t), AnsweredRecord
  PROVE  InPhase(t)' /\ results' = results /\ got' = got
<1>1. /\ receiver.pc = "answered" /\ TakesSend
      /\ sender' = sender /\ results' = results /\ got' = got
      /\ toReceiver' = toReceiver /\ responseQueue' = responseQueue /\ faults' = faults
  BY DEF AnsweredRecord, senderVars
<1>2. Wire # <<>> /\ Drops(Wire, Wire', 1) /\ Wire[1] = Head(sendQueue)
  BY <1>1, WireTaken
<1>3. t \in Transfers /\ Pending(t) /\ (Initiating(t) \/ Ready(t) \/ Waiting(t))
  BY <1>1 DEF InPhase, Sending, Given, Resting, Gathering, Returned
<1>4. /\ Len(Wire) \in Nat /\ 1 \in 1..Len(Wire) /\ Len(Back) \in Nat
      /\ Len(Wire') = Len(Wire) - 1
  BY <1>2, Views DEF Drops
<1>5. /\ receiver.response = Response(t) /\ AllAre(Back, Response(t))
  BY <1>1, <1>3 DEF Initiating, Ready, Waiting
<1>6. faults \in Nat /\ faults <= MaxFaults /\ MaxFaults \in Nat /\ sender.tries \in Nat
      /\ NetCapacity \in Nat /\ MaxFaults + 1 <= NetCapacity
  BY <1>3, Known, OneBatch
<1>7. Pending(t)'
  BY <1>1, <1>3 DEF Pending, Serving
<1>8. CASE Wire[1] = Initiate(t)
  <2>1. Head(sendQueue).kind = "initiate"
    BY <1>2, <1>8, Kinds
  <2>2. receiver' = receiver /\ toSender' = Transmit(toSender, <<Response(t)>>)
    BY <1>5, <2>1 DEF AnsweredRecord
  <2>3. Response(t) \in Answers
    <3>1. Initiate(t) \in Records /\ Initiate(t).kind = "initiate"
      BY <1>3, Kinds DEF Records
    <3>2. AsInitiate(Initiate(t)) = {Response(t)}
      BY <3>1 DEF AsInitiate, Response
    <3>. QED
      BY <3>1, <3>2, TakenForOther DEF Answers
  <2>4. /\ Sends(Back, Back', <<Response(t)>>)
        /\ Len(Back) + 1 <= NetCapacity => Len(Back') = Len(Back) + 1
    BY <1>1, <2>2, <2>3, BackSends
  <2>5. AllAre(Back', Response(t)) /\ Len(Back') <= Len(Back) + 1
    BY <1>4, <1>5, <2>4, AllSent
  <2>6. CASE Initiating(t)
    <3>1. /\ AllAre(Wire, Initiate(t)) /\ Len(Wire) + Len(Back) <= faults + 1
          /\ Patient(TRUE)
      BY <2>6 DEF Initiating, Patient
    <3>2. AllAre(Wire', Initiate(t))
      BY <1>2, <1>4, <3>1, AllStay
    <3>3. Len(Back) + 1 <= NetCapacity
      BY <1>4, <1>6, <3>1
    <3>4. Len(Back') = Len(Back) + 1
      BY <2>4, <3>3
    <3>5. Back' # <<>> /\ Len(Wire') + Len(Back') <= faults' + 1
      <4>1. Len(Back') # 0
        BY <1>4, <3>4
      <4>2. Len(Wire') + Len(Back') <= faults' + 1
        BY <1>1, <1>4, <1>6, <3>1, <3>4
      <4>. QED
        BY <4>1, <4>2
    <3>6. Initiating(t)'
      BY <1>1, <2>2, <2>5, <2>6, <3>1, <3>2, <3>5 DEF Initiating, Patient
    <3>. QED
      BY <1>1, <1>3, <1>7, <3>6 DEF InPhase, Sending
  <2>7. CASE Ready(t)
    <3>1. AllAre(Wire, Initiate(t)) /\ Len(Wire) <= faults
      BY <2>7 DEF Ready
    <3>2. AllAre(Wire', Initiate(t)) /\ Len(Wire') <= faults'
      BY <1>1, <1>2, <1>4, <1>6, <3>1, AllStay
    <3>3. Ready(t)'
      BY <1>1, <2>2, <2>5, <2>7, <3>2 DEF Ready
    <3>. QED
      BY <1>1, <1>3, <1>7, <3>3 DEF InPhase, Sending
  <2>8. CASE Waiting(t)
    <3>1. /\ Travels(Wire, t, {}) /\ OnWire(Wire, t, NumberOfMessages(t))
          /\ Patient(Complete(Wire, t, {}))
      BY <2>8 DEF Waiting
    <3>2. \A n : Piece(t, n) # Initiate(t)
      BY Kinds
    <3>3. /\ Travels(Wire', t, {})
          /\ \A n : OnWire(Wire, t, n) => OnWire(Wire', t, n)
      BY <1>2, <1>4, <1>8, <3>1, <3>2, TravelsOn
    <3>4. Complete(Wire, t, {}) => Complete(Wire', t, {})
      BY <3>3 DEF Complete
    <3>5. Waiting(t)'
      BY <1>1, <2>2, <2>5, <2>8, <3>1, <3>3, <3>4 DEF Waiting, Patient
    <3>. QED
      BY <1>1, <1>3, <1>7, <3>5 DEF InPhase, Sending
  <2>. QED
    BY <1>3, <2>6, <2>7, <2>8
<1>9. CASE Wire[1] # Initiate(t)
  <2>1. Waiting(t)
    BY <1>3, <1>4, <1>9 DEF Initiating, Ready, AllAre
  <2>2. /\ Travels(Wire, t, {}) /\ OnWire(Wire, t, NumberOfMessages(t))
        /\ Patient(Complete(Wire, t, {}))
    BY <2>1 DEF Waiting
  <2>3. PICK n \in 1..NumberOfMessages(t) : Wire[1] = Piece(t, n)
    BY <1>4, <1>9, <2>2 DEF Travels
  <2>4. /\ Piece(t, n).kind = "data" /\ Piece(t, n).number = n
        /\ Piece(t, n).data = Partitioned(t, 0, n - 1)
    BY Kinds
  <2>5. receiver' = Collecting(Response(t), Piece(t, n)) /\ toSender' = toSender
    <3>1. Head(sendQueue) = Piece(t, n)
      BY <1>2, <2>3
    <3>. QED
      BY <1>5, <2>4, <3>1 DEF AnsweredRecord
  <2>6. /\ Travels(Wire', t, {n})
        /\ NumberOfMessages(t) \in {n} \/ OnWire(Wire', t, NumberOfMessages(t))
        /\ Complete(Wire, t, {}) => Complete(Wire', t, {n})
    <3>1. {} \cup {n} = {n}
      OBVIOUS
    <3>. QED
      BY <1>2, <1>4, <2>2, <2>3, <3>1, PieceTaken
  <2>7. /\ receiver'.pc = "collecting" /\ receiver'.response = Response(t)
        /\ receiver'.done = 0 /\ receiver'.count = 1 /\ receiver'.built = <<>>
        /\ receiver'.records = With(<<>>, Piece(t, n))
    BY <2>5 DEF Collecting
  <2>8. DOMAIN receiver'.records = {n}
        /\ receiver'.records[n] = Partitioned(t, 0, n - 1)
    <3>1. With(<<>>, Piece(t, n)) = [k \in {n} |-> Partitioned(t, 0, n - 1)]
      BY <2>4 DEF With
    <3>. QED
      BY <2>7, <3>1
  <2>9. Cardinality({n}) = 1
    BY FS_Singleton
  <2>10. Back' = Back
    BY <1>1, <2>5 DEF Back
  <2>11. Gathering(t)'
    BY <1>1, <1>5, <2>1, <2>2, <2>3, <2>6, <2>7, <2>8, <2>9, <2>10 DEF Gathering, Patient, Waiting
  <2>. QED
    BY <1>1, <1>3, <1>7, <2>11 DEF InPhase, Sending
<1>. QED
  BY <1>8, <1>9

(* Every record that arrives is one of the batch that was lacking. *)
LEMMA CollectRecordServes ==
  ASSUME PromptBatches, AskInv, NEW t, InPhase(t), CollectRecord
  PROVE  InPhase(t)' /\ results' = results /\ got' = got
<1>1. /\ receiver.pc = "collecting" /\ ~ BatchIsIn /\ TakesSend
      /\ receiver' = Kept(receiver, AsData(Head(sendQueue)))
      /\ sender' = sender /\ results' = results /\ got' = got
      /\ toReceiver' = toReceiver /\ toSender' = toSender
      /\ responseQueue' = responseQueue /\ faults' = faults
  BY DEF CollectRecord, senderVars
<1>2. Wire # <<>> /\ Drops(Wire, Wire', 1) /\ Wire[1] = Head(sendQueue)
  BY <1>1, WireTaken
<1>3. t \in Transfers /\ Pending(t) /\ Gathering(t)
  BY <1>1 DEF InPhase, Sending, Given, Resting, Initiating, Ready, Waiting, Returned
<1>4. Len(Wire) \in Nat /\ 1 \in 1..Len(Wire) /\ Back' = Back
  BY <1>1, <1>2, Views DEF Drops, Back
<1>. DEFINE kept == DOMAIN receiver.records
            N == NumberOfMessages(t)
<1>5. /\ sender.pc = "verifying" /\ receiver.response = Response(t)
      /\ receiver.done = 0 /\ receiver.built = <<>>
      /\ kept \subseteq 1..N /\ receiver.count = Cardinality(kept)
      /\ \A n \in kept : receiver.records[n] = Partitioned(t, 0, n - 1)
      /\ N \in kept \/ OnWire(Wire, t, N)
      /\ Travels(Wire, t, kept) /\ kept # {}
      /\ AllAre(Back, Response(t)) /\ Patient(Complete(Wire, t, kept))
  BY <1>2, <1>3 DEF Gathering
<1>6. PICK n \in 1..N \ kept : Wire[1] = Piece(t, n)
  BY <1>4, <1>5 DEF Travels
<1>7. /\ Piece(t, n).kind = "data" /\ Piece(t, n).number = n
      /\ Piece(t, n).data = Partitioned(t, 0, n - 1)
  BY Kinds
<1>8. receiver' = [receiver EXCEPT !.records = With(@, Piece(t, n)), !.count = @ + 1]
  <2>1. AsData(Head(sendQueue)) = Piece(t, n)
    BY <1>2, <1>6, <1>7 DEF AsData
  <2>2. n \notin DOMAIN receiver.records
    BY <1>6
  <2>. QED
    BY <1>1, <1>7, <2>1, <2>2 DEF Kept
<1>9. DOMAIN receiver = {"pc", "response", "done", "count", "records", "built"}
  BY <1>1 DEF AskInv, ReceiverOK, Listens, Answered, Collects
<1>10. /\ receiver'.pc = "collecting" /\ receiver'.response = Response(t)
       /\ receiver'.done = 0 /\ receiver'.built = <<>>
       /\ receiver'.count = receiver.count + 1
       /\ receiver'.records = With(receiver.records, Piece(t, n))
  BY <1>1, <1>5, <1>8, <1>9
<1>11. /\ DOMAIN receiver'.records = kept \cup {n}
       /\ receiver'.records[n] = Partitioned(t, 0, n - 1)
       /\ \A k \in kept : receiver'.records[k] = receiver.records[k]
  <2>1. With(receiver.records, Piece(t, n)) =
          [k \in {n} \cup kept |-> IF k = n THEN Partitioned(t, 0, n - 1)
                                   ELSE receiver.records[k]]
    BY <1>7 DEF With
  <2>2. n \notin kept
    BY <1>6
  <2>. HIDE DEF kept
  <2>. QED
    BY <1>10, <2>1, <2>2
<1>12. receiver'.count = Cardinality(kept \cup {n})
  <2>1. IsFiniteSet(kept)
    BY <1>3, <1>5, AllKept
  <2>2. Cardinality(kept \cup {n}) = Cardinality(kept) + 1
    BY <1>6, <2>1, FS_AddElement
  <2>. QED
    BY <1>5, <1>10, <2>2
<1>. HIDE DEF kept, N
<1>13. /\ Travels(Wire', t, kept \cup {n})
       /\ N \in kept \cup {n} \/ OnWire(Wire', t, N)
       /\ Complete(Wire, t, kept) => Complete(Wire', t, kept \cup {n})
  BY <1>2, <1>4, <1>5, <1>6, PieceTaken
<1>14. kept \cup {n} \subseteq 1..N /\ kept \cup {n} # {}
  BY <1>5, <1>6
<1>15. \A k \in kept \cup {n} : receiver'.records[k] = Partitioned(t, 0, k - 1)
  BY <1>5, <1>11 DEF kept
<1>16. /\ sender'.tries <= faults'
       /\ Complete(Wire', t, kept \cup {n}) \/ sender'.tries < faults'
  BY <1>1, <1>5, <1>13 DEF Patient
<1>17. Gathering(t)'
  <2>. PICK all : all = kept \cup {n}
    OBVIOUS
  <2>1. /\ DOMAIN receiver'.records = all /\ all \subseteq 1..N /\ all # {}
        /\ receiver'.count = Cardinality(all)
        /\ \A k \in all : receiver'.records[k] = Partitioned(t, 0, k - 1)
        /\ N \in all \/ OnWire(Wire', t, N)
        /\ Travels(Wire', t, all)
        /\ sender'.tries <= faults'
        /\ Complete(Wire', t, all) \/ sender'.tries < faults'
    BY <1>11, <1>12, <1>13, <1>14, <1>15, <1>16
  <2>. QED
    BY <1>1, <1>4, <1>5, <1>10, <2>1 DEF Gathering, Patient, N
<1>18. Pending(t)'
  BY <1>1, <1>3 DEF Pending, Serving
<1>. QED
  BY <1>1, <1>3, <1>17, <1>18 DEF InPhase, Sending

(* The batch is all of the string: what GetData returns is what was sent. *)
LEMMA CollectBatchServes ==
  ASSUME PromptBatches, AskInv, NEW t, InPhase(t), CollectBatch
  PROVE  /\ t \in Transfers /\ Pending(t) /\ InPhase(t)' /\ results' = results
         /\ got' = Append(got, Data(t))
<1>1. /\ receiver.pc = "collecting" /\ BatchIsIn
      /\ toSender' = Transmit(toSender, <<Verification(receiver.response.id, <<>>)>>)
      /\ sender' = sender /\ results' = results /\ toReceiver' = toReceiver
      /\ sendQueue' = sendQueue /\ responseQueue' = responseQueue /\ faults' = faults
  BY DEF CollectBatch, senderVars
<1>2. t \in Transfers /\ Pending(t) /\ Gathering(t)
  BY <1>1 DEF InPhase, Sending, Given, Resting, Initiating, Ready, Waiting, Returned
<1>. DEFINE kept == DOMAIN receiver.records
            N == NumberOfMessages(t)
<1>3. /\ sender.pc = "verifying" /\ receiver.response = Response(t)
      /\ receiver.done = 0 /\ receiver.built = <<>>
      /\ kept \subseteq 1..N /\ receiver.count = Cardinality(kept)
      /\ \A n \in kept : receiver.records[n] = Partitioned(t, 0, n - 1)
      /\ Travels(Wire, t, kept) /\ kept # {}
      /\ AllAre(Back, Response(t))
  BY <1>1, <1>2 DEF Gathering
<1>4. kept = 1..N
  BY <1>1, <1>2, <1>3, AllKept
<1>5. /\ receiver.response.id = t /\ receiver.response.number = N
      /\ receiver.response.interval = N /\ Batch = [i \in 1..N |-> i]
  BY <1>2, <1>3, BatchOfAll
<1>6. N \in Nat /\ N >= 1 /\ NetCapacity \in Nat /\ t \in Nat /\ t >= 1
  BY <1>2, OneBatch
<1>7. Joined = Data(t)
  <2>. DEFINE records == [i \in DOMAIN Batch |-> IF Batch[i] \in DOMAIN receiver.records
                                                 THEN receiver.records[Batch[i]] ELSE <<>>]
  <2>1. records = [i \in 1..N |-> Partitioned(t, 0, i - 1)]
    BY <1>3, <1>4, <1>5
  <2>2. Joined = FlattenSeq(records)
    BY DEF Joined
  <2>. HIDE DEF records
  <2>3. Len(records) = N /\ \A i \in 1..N : records[i] = Partitioned(t, 0, i - 1)
    BY <1>6, <2>1
  <2>. QED
    BY <1>2, <2>2, <2>3, RecordsJoin
<1>8. GetReturns(Data(t))
  <2>1. Data(t) \in Seq(Transfers \X Nat)
    BY <1>2, DataIsSequence
  <2>2. receiver.built \o Joined = Data(t)
    <3>. DEFINE d == Data(t)
    <3>1. d \in Seq(Transfers \X Nat) /\ Joined = d
      BY <1>7, <2>1
    <3>. HIDE DEF d
    <3>2. <<>> \o d = d
      BY <3>1, ConcatEmptySeq
    <3>. QED
      BY <1>3, <3>1, <3>2 DEF d
  <2>3. Lesser(N, 1) = 1
    BY <1>6 DEF Lesser
  <2>4. receiver.done + Lesser(receiver.response.interval, 1) = 1
    BY <1>3, <1>5, <2>3
  <2>5. 1 * N >= N
    BY <1>6
  <2>. HIDE DEF N
  <2>6. 1 * receiver.response.interval >= receiver.response.number
    BY <1>5, <2>5
  <2>. QED
    BY <2>2, <2>4, <2>6 DEF CollectBatch
<1>9. receiver'.pc = "first" /\ got' = Append(got, Data(t))
  <2>1. Data(t) # <<>>
    BY <1>2, NumberOfData
  <2>. QED
    BY <1>8, <2>1 DEF GetReturns, Listening
<1>. DEFINE m == Verification(t, <<>>)
<1>10. toSender' = Transmit(toSender, <<m>>)
  BY <1>1, <1>5
<1>11. m \in Answers
  <2>1. <<>> \in Seq(Int)
    BY EmptySeq
  <2>2. \A nothing \in Seq(Int) : Verification(t, nothing) \in Answers
    BY <1>2 DEF Verifications, Answers
  <2>. QED
    BY <2>1, <2>2, Zenon
<1>. HIDE DEF m
<1>12. Sends(Back, Back', <<m>>)
  BY <1>1, <1>10, <1>11, BackSends
<1>13. \A i \in 1..Len(Back') : Back'[i] = Response(t) \/ (i = Len(Back') /\ Back'[i] = m)
  <2>. DEFINE w == Back
              w2 == Back'
              r == <<m>>
              a == Response(t)
  <2>1. Len(w) \in Nat /\ \A i \in 1..Len(w) : w[i] = a
    BY <1>3, Views DEF AllAre
  <2>2. Len(r) = 1 /\ r[1] = m
    OBVIOUS
  <2>3. Sends(w, w2, r)
    BY <1>12
  <2>. HIDE DEF w, w2, r, a
  <2>4. /\ Len(w2) <= Len(w) + 1
        /\ \A i \in 1..Len(w2) : w2[i] = IF i <= Len(w) THEN w[i] ELSE r[i - Len(w)]
    BY <2>2, <2>3 DEF Sends
  <2>5. ASSUME NEW i \in 1..Len(w2) PROVE w2[i] = a \/ (i = Len(w2) /\ w2[i] = m)
    <3>1. CASE i <= Len(w)
      <4>1. i \in 1..Len(w)
        BY <3>1
      <4>. QED
        BY <2>1, <2>4, <3>1, <4>1
    <3>2. CASE ~ (i <= Len(w))
      <4>0. i \in Int /\ 1 <= i /\ i <= Len(w2)
        OBVIOUS
      <4>3. Len(w2) <= Len(w) + 1
        BY <2>4
      <4>1. i - Len(w) = 1
        <5>1. i > Len(w)
          BY <2>1, <3>2, <4>0
        <5>. QED
          BY <2>1, <4>0, <4>3, <5>1
      <4>2. i = Len(w2)
        BY <2>1, <4>0, <4>1, <4>3
      <4>. QED
        BY <2>2, <2>4, <3>2, <4>1, <4>2
    <3>. QED
      BY <3>1, <3>2
  <2>. QED
    BY <2>5 DEF w2, a
<1>14. Wire' = <<>>
  <2>1. Wire' = Wire
    BY <1>1 DEF Wire
  <2>2. Len(Wire) \in Nat
    BY Views
  <2>3. Len(Wire) = 0
    <3>1. SUFFICES ASSUME Len(Wire) # 0 PROVE FALSE
      OBVIOUS
    <3>2. 1 \in 1..Len(Wire)
      BY <2>2, <3>1
    <3>3. \E n \in 1..N \ kept : Wire[1] = Piece(t, n)
      BY <1>3, <3>2 DEF Travels
    <3>. QED
      BY <1>4, <3>3
  <2>. QED
    BY <2>1, <2>3, Views
<1>15. Returned(t)'
  BY <1>1, <1>3, <1>9, <1>13, <1>14 DEF Returned, m
<1>16. got' = [i \in 1..t |-> Data(i)]
  <2>1. got = [i \in 1..(t - 1) |-> Data(i)]
    BY <1>2 DEF Pending
  <2>2. Len(got) = t - 1
    BY <1>6, <2>1
  <2>3. Append(got, Data(t)) = [i \in 1..t |-> Data(i)]
    BY <1>6, <2>1, <2>2
  <2>. QED
    BY <1>9, <2>3
<1>17. Serving(t)'
  BY <1>1, <1>2 DEF Pending, Serving
<1>. QED
  BY <1>1, <1>2, <1>9, <1>15, <1>16, <1>17 DEF InPhase, Given

-----------------------------------------------------------------------------
(* A second without datagrams.                                             *)

(* What is known when nothing is on the way. *)
LEMMA QuietMeansEmpty ==
  ASSUME PromptBatches, AskInv, QuietSecond
  PROVE  /\ Wire = <<>> /\ Back = <<>> /\ Len(Wire) = 0 /\ Len(Back) = 0
         /\ sendQueue' = sendQueue /\ responseQueue' = responseQueue /\ faults' = faults
         /\ ReceiverTimeout
         /\ \/ SenderTimeout
            \/ /\ sender.pc \in {"idle", "crashed"}
               /\ sender' = sender /\ results' = results /\ toReceiver' = toReceiver
<1>1. NothingOnTheWay
  BY DEF QuietSecond
<1>2. Wire = <<>> /\ Back = <<>> /\ Len(Wire) = 0 /\ Len(Back) = 0
  BY <1>1, Views DEF NothingOnTheWay
<1>. QED
  BY <1>2 DEF QuietSecond, senderVars

(* A receiver that waits for a transfer goes on waiting. *)
LEMMA QuietFirst ==
  ASSUME AskInv, receiver.pc = "first", ReceiverTimeout, responseQueue' = responseQueue
  PROVE  receiver'.pc = "first" /\ got' = got /\ Back' = Back
<1>1. FirstTimeout
  BY DEF ReceiverTimeout, AnsweredTimeout, CollectTimeout
<1>2. DOMAIN receiver = {"pc", "tries"}
  BY DEF AskInv, ReceiverOK, Listens, Answered, Collects
<1>3. receiver'.pc = "first"
  <2>1. CASE receiver.tries < MaxTimeouts
    <3>1. receiver' = [receiver EXCEPT !.tries = @ + 1]
      BY <1>1, <2>1 DEF FirstTimeout
    <3>. QED
      BY <1>2, <3>1
  <2>2. CASE ~ (receiver.tries < MaxTimeouts)
    BY <1>1, <2>2 DEF FirstTimeout, Listening
  <2>. QED
    BY <2>1, <2>2
<1>. QED
  BY <1>1, <1>3 DEF FirstTimeout, Back

(* Nothing is sent. *)
LEMMA QuietResting ==
  ASSUME PromptBatches, AskInv, NEW t, Pending(t), Resting, QuietSecond
  PROVE  InPhase(t)' /\ results' = results /\ got' = got
<1>1. sender.pc = "idle" /\ receiver.pc = "first"
  BY DEF Resting
<1>2. ~ SenderTimeout
  BY <1>1 DEF SenderTimeout, InitiateTimeout, VerifyTimeout
<1>3. /\ sender' = sender /\ results' = results /\ toReceiver' = toReceiver
      /\ sendQueue' = sendQueue /\ responseQueue' = responseQueue /\ faults' = faults
      /\ ReceiverTimeout
  BY <1>2, QuietMeansEmpty
<1>4. receiver'.pc = "first" /\ got' = got /\ Back' = Back
  BY <1>1, <1>3, QuietFirst
<1>5. Resting'
  BY <1>3, <1>4 DEF Resting, Wire
<1>6. Pending(t)'
  BY <1>3, <1>4 DEF Pending, Serving
<1>. QED
  BY <1>3, <1>4, <1>5, <1>6 DEF InPhase

(* The initiate or its response was lost: both sides repeat theirs. *)
LEMMA QuietInitiating ==
  ASSUME PromptBatches, AskInv, NEW t \in Transfers, Pending(t), Initiating(t), QuietSecond
  PROVE  InPhase(t)' /\ results' = results /\ got' = got
<1>1. /\ Len(Wire) = 0 /\ Len(Back) = 0 /\ Wire = <<>> /\ Back = <<>>
      /\ sendQueue' = sendQueue /\ responseQueue' = responseQueue /\ faults' = faults
      /\ ReceiverTimeout
  BY QuietMeansEmpty
<1>2. sender.pc = "initiating"
  BY DEF Initiating
<1>3. InitiateTimeout
  BY <1>2, QuietMeansEmpty DEF SenderTimeout, VerifyTimeout
<1>4. InPhase(t)
  BY DEF InPhase, Sending
<1>5. /\ sender.t = t /\ faults \in Nat /\ faults <= MaxFaults /\ MaxFaults <= MaxTimeouts
      /\ MaxFaults \in Nat /\ MaxTimeouts \in Nat /\ sender.tries \in Nat
      /\ DOMAIN sender = {"pc", "t", "tries", "batch"}
  BY <1>4, Known
<1>6. sender.tries < faults /\ sender.tries < MaxTimeouts
  <2>1. sender.tries < faults
    BY <1>1 DEF Initiating, Patient
  <2>. QED
    BY <1>5, <2>1
<1>7. /\ toReceiver' = Transmit(toReceiver, <<Initiate(t)>>) /\ results' = results
      /\ sender' = [sender EXCEPT !.tries = @ + 1]
  BY <1>3, <1>5, <1>6 DEF InitiateTimeout
<1>8. /\ sender'.pc = "initiating" /\ sender'.t = t /\ sender'.batch = sender.batch
      /\ sender'.tries = sender.tries + 1
  BY <1>2, <1>5, <1>7
<1>9. NetCapacity \in Nat /\ NetCapacity >= 1
  BY <1>5, OneBatch
<1>10. Len(Wire') = 1 /\ AllAre(Wire', Initiate(t))
  <2>. DEFINE r == <<Initiate(t)>>
  <2>1. r \in Seq(Records) /\ Len(r) = 1 /\ r[1] = Initiate(t)
    BY SentRecords
  <2>2. toReceiver' = Transmit(toReceiver, r)
    BY <1>7
  <2>. HIDE DEF r
  <2>3. Len(Wire) + Len(r) <= NetCapacity
    BY <1>1, <1>9, <2>1
  <2>4. Sends(Wire, Wire', r) /\ Len(Wire') = Len(Wire) + Len(r)
    BY <1>1, <2>1, <2>2, <2>3, WireSends
  <2>. QED
    BY <1>1, <2>1, <2>4 DEF Sends, AllAre
<1>11. Wire' # <<>>
  BY <1>10
<1>12. Patient(Wire # <<>> \/ Back # <<>>)'
  <2>1. sender'.tries <= faults'
    BY <1>1, <1>5, <1>6, <1>8
  <2>. QED
    BY <1>11, <2>1 DEF Patient
<1>13. CASE receiver.pc = "first"
  <2>1. receiver'.pc = "first" /\ got' = got /\ Back' = Back
    BY <1>1, <1>13, QuietFirst
  <2>2. Len(Wire') + Len(Back') <= faults' + 1
    BY <1>1, <1>5, <1>10, <2>1
  <2>3. AllAre(Back', Response(t)) /\ Back' = <<>>
    BY <1>1, <2>1 DEF AllAre
  <2>4. Initiating(t)'
    BY <1>8, <1>10, <1>12, <2>1, <2>2, <2>3 DEF Initiating
  <2>5. Pending(t)'
    BY <1>1, <1>7, <1>8, <2>1 DEF Pending, Serving
  <2>. QED
    BY <1>7, <2>1, <2>4, <2>5 DEF InPhase, Sending
<1>14. CASE receiver.pc = "answered"
  <2>1. receiver.response = Response(t) /\ receiver.tries <= sender.tries
    BY <1>14 DEF Initiating
  <2>2. /\ receiver.response \in Responses /\ receiver.tries \in Nat
        /\ DOMAIN receiver = {"pc", "tries", "response"}
    BY <1>14 DEF AskInv, ReceiverOK, Listens, Answered, Collects
  <2>3. AnsweredTimeout
    BY <1>1, <1>14 DEF ReceiverTimeout, FirstTimeout, CollectTimeout
  <2>4. receiver.tries < MaxTimeouts
    BY <1>5, <1>6, <2>1, <2>2
  <2>5. /\ toSender' = Transmit(toSender, <<Response(t)>>) /\ got' = got
        /\ receiver' = [receiver EXCEPT !.tries = @ + 1]
    BY <2>1, <2>3, <2>4 DEF AnsweredTimeout
  <2>6. /\ receiver'.pc = "answered" /\ receiver'.response = Response(t)
        /\ receiver'.tries = receiver.tries + 1
    BY <1>14, <2>1, <2>2, <2>5
  <2>7. receiver'.tries <= sender'.tries
    BY <1>5, <1>8, <2>1, <2>2, <2>6
  <2>8. AllAre(Back', Response(t)) /\ Len(Back') = 1
    <3>1. Response(t) \in Answers
      BY <2>1, <2>2 DEF Answers
    <3>2. Len(Back) + 1 <= NetCapacity
      BY <1>1, <1>9
    <3>3. Sends(Back, Back', <<Response(t)>>) /\ Len(Back') = Len(Back) + 1
      BY <1>1, <2>5, <3>1, <3>2, BackSends
    <3>4. AllAre(Back, Response(t)) /\ Len(Back) \in Nat
      BY <1>1 DEF AllAre
    <3>. QED
      BY <1>1, <3>3, <3>4, AllSent
  <2>9. Len(Wire') + Len(Back') <= faults' + 1
    BY <1>1, <1>5, <1>6, <1>10, <2>8
  <2>10. Initiating(t)'
    BY <1>8, <1>10, <1>12, <2>6, <2>7, <2>8, <2>9 DEF Initiating
  <2>11. Pending(t)'
    BY <1>1, <1>7, <1>8, <2>5 DEF Pending, Serving
  <2>. QED
    BY <1>7, <2>5, <2>10, <2>11 DEF InPhase, Sending
<1>. QED
  BY <1>13, <1>14 DEF Initiating

(* Records were lost: the receiver asks for those that it lacks. *)
LEMMA QuietGathering ==
  ASSUME PromptBatches, AskInv, NEW t \in Transfers, Pending(t), Gathering(t), QuietSecond
  PROVE  InPhase(t)' /\ results' = results /\ got' = got
<1>1. /\ Len(Wire) = 0 /\ Len(Back) = 0 /\ Wire = <<>> /\ Back = <<>>
      /\ sendQueue' = sendQueue /\ responseQueue' = responseQueue /\ faults' = faults
      /\ ReceiverTimeout
  BY QuietMeansEmpty
<1>. DEFINE kept == DOMAIN receiver.records
            N == NumberOfMessages(t)
<1>2. /\ sender.pc = "verifying" /\ receiver.pc = "collecting"
      /\ receiver.response = Response(t)
      /\ receiver.done = 0 /\ receiver.built = <<>>
      /\ kept \subseteq 1..N /\ receiver.count = Cardinality(kept)
      /\ \A n \in kept : receiver.records[n] = Partitioned(t, 0, n - 1)
      /\ N \in kept \/ OnWire(Wire, t, N)
      /\ Travels(Wire, t, kept) /\ kept # {}
  BY DEF Gathering
<1>3. VerifyTimeout /\ CollectTimeout
  BY <1>1, <1>2, QuietMeansEmpty
  DEF SenderTimeout, InitiateTimeout, ReceiverTimeout, FirstTimeout, AnsweredTimeout
<1>4. InPhase(t)
  BY DEF InPhase, Sending
<1>5. /\ sender.t = t /\ faults \in Nat /\ faults <= MaxFaults /\ MaxFaults <= MaxTimeouts
      /\ MaxFaults \in Nat /\ MaxTimeouts \in Nat /\ sender.tries \in Nat
      /\ DOMAIN sender = {"pc", "t", "tries", "batch"}
  BY <1>4, Known
<1>6. ~ BatchIsIn
  BY <1>3 DEF CollectTimeout
<1>7. ~ Complete(Wire, t, kept)
  <2>1. kept # 1..N
    BY <1>2, <1>6, AllKept
  <2>2. PICK n \in 1..N : n \notin kept
    BY <1>2, <2>1
  <2>3. ~ OnWire(Wire, t, n)
    BY <1>1 DEF OnWire
  <2>. QED
    BY <2>2, <2>3 DEF Complete
<1>8. sender.tries < faults /\ sender.tries < MaxTimeouts
  <2>1. Back # <<Verification(t, Missing)>>
    <3>1. Len(<<Verification(t, Missing)>>) = 1
      OBVIOUS
    <3>. QED
      BY <1>1, <3>1
  <2>2. Patient(Complete(Wire, t, kept))
    BY <2>1 DEF Gathering
  <2>3. sender.tries < faults
    BY <1>7, <2>2 DEF Patient
  <2>. QED
    BY <1>5, <2>3
<1>9. /\ toReceiver' = toReceiver /\ results' = results
      /\ sender' = [sender EXCEPT !.tries = @ + 1]
  BY <1>3, <1>8 DEF VerifyTimeout
<1>10. /\ sender'.pc = "verifying" /\ sender'.t = t /\ sender'.batch = sender.batch
       /\ sender'.tries = sender.tries + 1
  BY <1>2, <1>5, <1>9
<1>11. Patient(TRUE)'
  <2>1. sender'.tries <= faults'
    BY <1>1, <1>5, <1>8, <1>10
  <2>. QED
    BY <2>1 DEF Patient
<1>. DEFINE m == Verification(t, Missing)
<1>12. /\ receiver' = receiver /\ got' = got
       /\ toSender' = Transmit(toSender, <<m>>)
  <2>1. receiver.response.id = t
    BY <1>2 DEF Response, Initiate
  <2>. QED
    BY <1>3, <2>1 DEF CollectTimeout, receiverVars
<1>13. m \in Answers
  <2>1. receiver.response \in Responses /\ receiver.done \in Nat
    BY <1>2 DEF AskInv, ReceiverOK, Listens, Answered, Collects
  <2>2. Missing \in Seq(Int)
    BY <2>1, MissingIsNumbers
  <2>3. \A some \in Seq(Int) : Verification(t, some) \in Answers
    BY DEF Verifications, Answers
  <2>. QED
    BY <2>2, <2>3, Zenon
<1>14. m' = m /\ ~ BatchIsIn'
  <2>1. BatchIsIn' = BatchIsIn /\ Missing' = Missing
    BY <1>12 DEF BatchIsIn, Missing, Lacking, Batch, ExpectedMessages
  <2>. QED
    BY <1>6, <2>1
<1>15. Back' = <<m>>
  <2>1. NetCapacity \in Nat /\ NetCapacity >= 1
    BY <1>5, OneBatch
  <2>2. Len(Back) + 1 <= NetCapacity
    BY <1>1, <2>1
  <2>. HIDE DEF m
  <2>3. Sends(Back, Back', <<m>>) /\ Len(Back') = 1
    BY <1>1, <1>12, <1>13, <2>2, BackSends
  <2>4. Back'[1] = m
    BY <1>1, <2>3 DEF Sends
  <2>5. Back' \in Seq(Answers)
    <3>1. AskInv'
      <4>1. Next
        BY DEF Next
      <4>. QED
        BY <4>1, AskStep
    <3>. QED
      BY <3>1 DEF AskInv, ChannelsOK, Back, Answers
  <2>. QED
    BY <2>3, <2>4, <2>5
<1>16. Wire' = <<>>
  BY <1>1, <1>9 DEF Wire
<1>17. Gathering(t)'
  BY <1>1, <1>2, <1>10, <1>11, <1>12, <1>14, <1>15, <1>16 DEF Gathering
<1>18. Pending(t)'
  BY <1>1, <1>9, <1>10, <1>12 DEF Pending, Serving
<1>. QED
  BY <1>9, <1>12, <1>17, <1>18 DEF InPhase, Sending

(* The answer was lost: the sender waits on, or counts the batch as sent. *)
LEMMA QuietGiven ==
  ASSUME PromptBatches, AskInv, NEW t, Given(t), QuietSecond
  PROVE  /\ got' = got
         /\ \/ InPhase(t)' /\ results' = results
            \/ InPhase(t + 1)' /\ results' = Append(results, "ok")
<1>1. /\ Len(Wire) = 0 /\ Len(Back) = 0 /\ Wire = <<>> /\ Back = <<>>
      /\ sendQueue' = sendQueue /\ responseQueue' = responseQueue /\ faults' = faults
      /\ ReceiverTimeout
  BY QuietMeansEmpty
<1>2. sender.pc = "verifying" /\ receiver.pc = "first" /\ t \in Transfers
  BY DEF Given, Returned
<1>3. VerifyTimeout /\ toReceiver' = toReceiver
  BY <1>2, QuietMeansEmpty DEF SenderTimeout, InitiateTimeout, VerifyTimeout
<1>4. receiver'.pc = "first" /\ got' = got /\ Back' = Back
  BY <1>1, <1>2, QuietFirst
<1>5. Wire' = <<>> /\ Back' = <<>>
  BY <1>1, <1>3, <1>4 DEF Wire
<1>6. InPhase(t)
  BY DEF InPhase
<1>7. sender.t = t /\ DOMAIN sender = {"pc", "t", "tries", "batch"}
  BY <1>6, Known
<1>8. CASE sender.tries < MaxTimeouts
  <2>1. sender' = [sender EXCEPT !.tries = @ + 1] /\ results' = results
    BY <1>3, <1>8 DEF VerifyTimeout
  <2>2. sender'.pc = "verifying" /\ sender'.t = t /\ sender'.batch = sender.batch
    BY <1>2, <1>7, <2>1
  <2>3. Returned(t)'
    BY <1>4, <1>5, <2>2 DEF Returned
  <2>4. Given(t)'
    BY <1>1, <1>2, <1>4, <2>1, <2>2, <2>3 DEF Given, Serving
  <2>. QED
    BY <1>4, <2>1, <2>4 DEF InPhase
<1>9. CASE ~ (sender.tries < MaxTimeouts)
  <2>1. EndBatch
    BY <1>3, <1>9 DEF VerifyTimeout
  <2>. QED
    BY <1>1, <1>2, <1>4, <1>5, <2>1, SendEnds
<1>. QED
  BY <1>8, <1>9

(* A second without datagrams, in every phase of a transfer. *)
LEMMA QuietSecondServes ==
  ASSUME PromptBatches, AskInv, NEW t, InPhase(t), QuietSecond
  PROVE  /\ got' = got
         /\ \/ InPhase(t)' /\ results' = results
            \/ Given(t) /\ InPhase(t + 1)' /\ results' = Append(results, "ok")
<1>1. CASE Pending(t) /\ Resting
  BY <1>1, QuietResting
<1>2. CASE Given(t)
  BY <1>2, QuietGiven
<1>3. CASE Sending(t)
  <2>1. t \in Transfers /\ Pending(t)
    BY <1>3 DEF Sending
  <2>2. ~ Ready(t)
    BY QuietMeansEmpty DEF Ready, SenderTimeout, InitiateTimeout, VerifyTimeout
  <2>3. ~ Waiting(t)
    BY QuietMeansEmpty DEF Waiting, OnWire
  <2>4. Initiating(t) \/ Gathering(t)
    BY <1>3, <2>2, <2>3 DEF Sending
  <2>. QED
    BY <2>1, <2>4, QuietInitiating, QuietGathering
<1>. QED
  BY <1>1, <1>2, <1>3 DEF InPhase

-----------------------------------------------------------------------------
(* The promise.                                                            *)

(* At first nothing has been sent, and the first string is next. *)
LEMMA ServiceInit ==
  ASSUME PromptBatches, Init
  PROVE  ServiceInv
<1>1. MaxFaults \in Nat
  BY SizesAreGiven DEF PromptBatches
<1>2. /\ sender.t = 1 /\ sender.batch = 0 /\ sender.pc = "idle" /\ sender.tries = 0
      /\ receiver.pc = "first" /\ faults \in 0..MaxFaults
  BY <1>1 DEF Init, Idle
<1>3. Wire = <<>> /\ Back = <<>>
  BY DEF Init, Wire, Back
<1>4. results = [i \in 1..(1 - 1) |-> "ok"] /\ got = [i \in 1..(1 - 1) |-> Data(i)]
  <2>1. 1..(1 - 1) = {}
    OBVIOUS
  <2>2. results = <<>> /\ got = <<>>
    BY DEF Init
  <2>. QED
    BY <2>1, <2>2
<1>5. Pending(1) /\ Resting
  BY <1>2, <1>3, <1>4 DEF Pending, Serving, Resting
<1>. QED
  BY <1>5, Phases DEF InPhase

(* What a step does that is not its own: the two sides agree on the string *)
(* that is sent, and it is given, confirmed, or neither.                   *)
LEMMA ServiceSteps ==
  ASSUME PromptBatches, AskInv, NEW t, InPhase(t), [Next]_vars
  PROVE  \/ InPhase(t)' /\ results' = results /\ got' = got
         \/ /\ t \in Transfers /\ Pending(t) /\ InPhase(t)'
            /\ results' = results /\ got' = Append(got, Data(t))
         \/ /\ Given(t) /\ InPhase(t + 1)'
            /\ results' = Append(results, "ok") /\ got' = got
<1>1. ~ Reorders /\ Prompt
  BY DEF PromptBatches
<1>2. CASE SenderStep
  BY <1>2, SendInitiateServes, InitiateResponseServes, SendBatchServes,
     VerifySkipServes, VerifyDoneServes, VerifyResendServes DEF SenderStep
<1>3. CASE ReceiverStep
  BY <1>3, FirstRecordServes, AnsweredRecordServes, CollectRecordServes,
     CollectBatchServes DEF ReceiverStep
<1>4. CASE ListenSend \/ ListenRespond
  <2>1. Wire' = Wire /\ Back' = Back
    BY <1>1, <1>4, ListenKeepsViews
  <2>2. /\ sender' = sender /\ results' = results /\ receiver' = receiver
        /\ got' = got /\ faults' = faults
    BY <1>4 DEF ListenSend, ListenRespond, senderVars, receiverVars
  <2>. QED
    BY <2>1, <2>2, SameView
<1>5. CASE EarlyTimeout
  BY <1>1, <1>5 DEF EarlyTimeout
<1>6. CASE QuietSecond
  BY <1>6, QuietSecondServes
<1>7. CASE Fault
  BY <1>7, FaultServes, FaultHits
<1>8. CASE UNCHANGED vars
  <2>1. /\ sender' = sender /\ results' = results /\ receiver' = receiver
        /\ got' = got /\ faults' = faults /\ Wire' = Wire /\ Back' = Back
    BY <1>8 DEF vars, senderVars, receiverVars, Wire, Back
  <2>. QED
    BY <2>1, SameView
<1>. QED
  BY <1>2, <1>3, <1>4, <1>5, <1>6, <1>7, <1>8 DEF Next

(* Every step keeps the invariant. *)
LEMMA ServiceStep ==
  ASSUME PromptBatches, AskInv, ServiceInv, [Next]_vars
  PROVE  ServiceInv'
<1>1. PICK t : InPhase(t)
  BY Phases
<1>2. InPhase(t)' \/ InPhase(t + 1)'
  BY <1>1, ServiceSteps
<1>3. \A u : InPhase(u)' => ServiceInv'
  BY DEF ServiceInv, InPhase, Pending, Sending, Given, Serving
<1>. QED
  BY <1>2, <1>3

(* Under PromptBatches, on a network that loses and repeats some datagrams *)
(* and delays and reorders none, whoever has what it waits for on the way  *)
(* waits for it: both sides work on the same string until it is given, and *)
(* SendData ends only then.                                                *)
THEOREM ServiceInvariant ==
  ASSUME PromptBatches
  PROVE  Spec => []ServiceInv
<1>1. Init => ServiceInv
  BY ServiceInit
<1>2. AskInv /\ ServiceInv /\ [Next]_vars => ServiceInv'
  BY ServiceStep
<1>. QED
  BY <1>1, <1>2, AskInvariant, PTL DEF Spec

(* What the promise sees of the confirmed strings. *)
LEMMA Confirmed ==
  ASSUME NEW n \in Nat, NEW q, q = [i \in 1..n |-> "ok"]
  PROVE  Cardinality({u \in DOMAIN q : q[u] = "ok"}) = n
<1>1. {u \in DOMAIN q : q[u] = "ok"} = 1..n
  OBVIOUS
<1>2. Cardinality(1..n) = IF 1 > n THEN 0 ELSE n - 1 + 1
  BY FS_Interval
<1>3. Cardinality(1..n) = n
  BY <1>2
<1>. QED
  BY <1>1, <1>3

(* What it sees of the strings that came out. *)
LEMMA Delivered ==
  ASSUME PromptBatches, NEW n \in Nat, n <= Len(Length),
         NEW q, q = [i \in 1..n |-> Data(i)]
  PROVE  [i \in DOMAIN q |-> Number(q[i])] = [i \in 1..n |-> i]
<1>1. DOMAIN q = 1..n
  OBVIOUS
<1>2. \A i \in 1..n : Number(q[i]) = i
  <2>. TAKE i \in 1..n
  <2>1. i \in Transfers
    BY DEF PromptBatches, Transfers
  <2>. QED
    BY <2>1, NumberOfData
<1>. QED
  BY <1>1, <1>2

(* GetData returns the string that is sent: the step Deliver. *)
LEMMA Delivers ==
  ASSUME PromptBatches, NEW t \in Transfers, Pending(t), results' = results,
         got' = Append(got, Data(t))
  PROVE  Service!Deliver
<1>1. t \in Nat /\ t \in 1..Len(Length) /\ Len(Length) \in Nat
  BY OneBatch DEF PromptBatches
<1>2. PICK n \in Nat : n = t - 1
  <2>1. t - 1 \in Nat
    BY <1>1
  <2>. QED
    BY <2>1
<1>3. n + 1 = t /\ n < Len(Length) /\ n <= Len(Length)
  BY <1>1, <1>2
<1>4. results = [i \in 1..n |-> "ok"] /\ got = [i \in 1..n |-> Data(i)]
  BY <1>2 DEF Pending, Serving
<1>5. Cardinality({u \in DOMAIN results : results[u] = "ok"}) = n
  BY <1>4, Confirmed
<1>6. [i \in DOMAIN got |-> Number(got[i])] = [i \in 1..n |-> i]
  BY <1>3, <1>4, Delivered
<1>7. got' = [i \in 1..(n + 1) |-> Data(i)]
  <2>1. got' = Append(got, Data(n + 1))
    BY <1>3
  <2>. QED
    BY <1>4, <2>1
<1>8. [i \in DOMAIN got' |-> Number(got'[i])] = [i \in 1..(n + 1) |-> i]
  BY <1>1, <1>3, <1>7, Delivered
<1>9. /\ Len([i \in 1..n |-> i]) = n
      /\ [i \in 1..(n + 1) |-> i] = Append([i \in 1..n |-> i], n + 1)
  OBVIOUS
<1>10. [i \in DOMAIN got |-> Number(got[i])]' =
         Append([i \in DOMAIN got |-> Number(got[i])], n + 1)
  <2>1. [i \in DOMAIN got |-> Number(got[i])]' = [i \in DOMAIN got' |-> Number(got'[i])]
    BY DEF Number
  <2>. QED
    BY <1>6, <1>8, <1>9, <2>1
<1>11. Len([i \in DOMAIN got |-> Number(got[i])]) = n
  BY <1>6, <1>9
<1>12. UNCHANGED Cardinality({u \in DOMAIN results : results[u] = "ok"})
  OBVIOUS
<1>. QED
  BY <1>3, <1>5, <1>10, <1>11, <1>12 DEF Service!Deliver

(* SendData reports success: the step Confirm. *)
LEMMA Confirms ==
  ASSUME PromptBatches, NEW t, Given(t), results' = Append(results, "ok"), got' = got
  PROVE  Service!Confirm
<1>1. t \in Nat /\ t \in 1..Len(Length) /\ Len(Length) \in Nat
  BY OneBatch DEF PromptBatches, Given
<1>2. PICK n \in Nat : n = t - 1
  <2>1. t - 1 \in Nat
    BY <1>1
  <2>. QED
    BY <2>1
<1>3. n + 1 = t /\ t <= Len(Length)
  BY <1>1, <1>2
<1>4. results = [i \in 1..n |-> "ok"] /\ got = [i \in 1..t |-> Data(i)]
  BY <1>2 DEF Given, Serving
<1>5. Cardinality({u \in DOMAIN results : results[u] = "ok"}) = n
  BY <1>4, Confirmed
<1>6. results' = [i \in 1..(n + 1) |-> "ok"]
  BY <1>4
<1>7. Cardinality({u \in DOMAIN results' : results'[u] = "ok"}) = n + 1
  BY <1>6, Confirmed
<1>8. [i \in DOMAIN got |-> Number(got[i])] = [i \in 1..t |-> i]
  BY <1>1, <1>3, <1>4, Delivered
<1>9. Len([i \in DOMAIN got |-> Number(got[i])]) = t
  <2>1. Len([i \in 1..t |-> i]) = t
    BY <1>1
  <2>. QED
    BY <1>8, <2>1
<1>10. UNCHANGED [i \in DOMAIN got |-> Number(got[i])]
  BY DEF Number
<1>11. n < t
  BY <1>3
<1>. QED
  BY <1>5, <1>7, <1>9, <1>10, <1>11 DEF Service!Confirm

(* What is neither given nor confirmed is no step of the promise. *)
LEMMA ServiceStutters ==
  ASSUME results' = results, got' = got
  PROVE  UNCHANGED Service!vars
<1>1. [i \in DOMAIN got |-> Number(got[i])]' = [i \in DOMAIN got |-> Number(got[i])]
  BY DEF Number
<1>. QED
  BY <1>1 DEF Service!vars

(* The safety part of KeepsService, for any strings and any sizes under    *)
(* PromptBatches (one batch each, whose last record arrives; records are   *)
(* not repeated; no more faults than timeouts): GetData returns the        *)
(* strings unchanged, once each and in order, and SendData reports success *)
(* only for a string that has come out.                                    *)
THEOREM PromiseIsKept ==
  ASSUME PromptBatches
  PROVE  Spec => Service!Init /\ [][Service!Next]_(Service!vars)
<1>1. Init => Service!Init
  <2>. SUFFICES ASSUME Init PROVE Service!Init
    OBVIOUS
  <2>1. {u \in DOMAIN results : results[u] = "ok"} = {}
    BY DEF Init
  <2>2. [i \in DOMAIN got |-> Number(got[i])] = <<>>
    BY DEF Init
  <2>. QED
    BY <2>1, <2>2, FS_EmptySet DEF Service!Init
<1>2. AskInv /\ ServiceInv /\ [Next]_vars => [Service!Next]_(Service!vars)
  <2>. SUFFICES ASSUME AskInv, ServiceInv, [Next]_vars
                PROVE  [Service!Next]_(Service!vars)
    OBVIOUS
  <2>1. PICK t : InPhase(t)
    BY Phases
  <2>2. \/ results' = results /\ got' = got
        \/ /\ t \in Transfers /\ Pending(t)
           /\ results' = results /\ got' = Append(got, Data(t))
        \/ Given(t) /\ results' = Append(results, "ok") /\ got' = got
    BY <2>1, ServiceSteps
  <2>. QED
    BY <2>2, Delivers, Confirms, ServiceStutters DEF Service!Next
<1>. QED
  BY <1>1, <1>2, AskInvariant, ServiceInvariant, PTL DEF Spec

=============================================================================
