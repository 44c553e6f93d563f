-------------------------- MODULE TlsRecords_proof --------------------------
(***************************************************************************)
(* Proofs about TlsRecords, for any records and any number of them.        *)
(***************************************************************************)
EXTENDS TlsRecords, TLAPS, WellFoundedInduction
-----------------------------------------------------------------------------
(* A set of numbers has a least one.                                       *)
LEMMA HasLeast ==
  ASSUME NEW T \in SUBSET Nat, T # {}
  PROVE  \E x \in T : \A y \in T : x <= y
  <1>. DEFINE R == {p \in Nat \X Nat : p[1] < p[2]}
  <1>1. IsWellFoundedOn(R, Nat)
    BY NatLessThanWellFounded DEF OpToRel
  <1>2. PICK x \in T : \A y \in T : ~ (<<y, x>> \in R)
    <2>. HIDE DEF R
    <2>. QED
      BY <1>1, WFMin
  <1>3. \A y \in T : ~ (y < x)
    BY <1>2
  <1>4. QED
    BY <1>3

(* What a number has if the one before it has it, all have up to a bound.  *)
LEMMA InductionUpTo ==
  ASSUME NEW L \in Nat, NEW S, 0 \in S,
         \A m \in 1 .. L : m - 1 \in S => m \in S
  PROVE  \A m \in 0 .. L : m \in S
  <1>. DEFINE T == {m \in 0 .. L : m \notin S}
  <1>1. SUFFICES ASSUME T # {} PROVE FALSE
    OBVIOUS
  <1>2. T \in SUBSET Nat
    OBVIOUS
  <1>3. PICK x \in T : \A y \in T : x <= y
    BY <1>1, <1>2, HasLeast
  <1>4. x \in 1 .. L /\ x - 1 \in 0 .. L /\ x - 1 \notin T
    BY <1>3
  <1>5. QED
    BY <1>4

(* The places at which the first m records and the next one begin.         *)
Places(f, m) ==
    f = [i \in 1 .. m + 1 |->
            IF i = 1 THEN 0 ELSE f[i - 1] + HeaderSize + Records[i - 1].size]

(* What the assumption says of a record.                                   *)
LEMMA RecordsAre ==
  /\ Len(Records) \in Nat /\ HeaderSize = 5
  /\ \A i \in 1 .. Len(Records) : Records[i].size \in Nat \ {0} /\ Records[i].kind \in Kinds
  <1>. DEFINE R == [kind : Kinds, size : Nat \ {0}]
  <1>1. Records \in Seq(R) /\ \A w \in R : w.size \in Nat \ {0} /\ w.kind \in Kinds
    BY RecordsAssumption
  <1>2. Len(Records) \in Nat /\ \A i \in 1 .. Len(Records) : Records[i] \in R
    <2>. HIDE DEF R
    <2>. QED
      BY <1>1
  <1>3. HeaderSize = 5
    BY DEF HeaderSize
  <1>4. QED
    BY <1>1, <1>2, <1>3, Zenon

(* The places of any number of records exist.                              *)
LEMMA PlacesExist == \E f \in [1 .. Len(Records) + 1 -> Nat] : Places(f, Len(Records))
  <1>. DEFINE L == Len(Records)
              S == {m \in 0 .. L : \E f \in [1 .. m + 1 -> Nat] : Places(f, m)}
  <1>1. 0 \in S
    <2>1. Places([i \in 1 .. 0 + 1 |-> 0], 0)
      BY DEF Places
    <2>2. QED
      BY <2>1, RecordsAre
  <1>2. ASSUME NEW m \in 1 .. L, m - 1 \in S PROVE m \in S
    <2>1. PICK f \in [1 .. (m - 1) + 1 -> Nat] : Places(f, m - 1)
      BY <1>2
    <2>. DEFINE size == Records[m].size
    <2>2. /\ m \in Nat /\ m >= 1 /\ (m - 1) + 1 = m /\ size \in Nat
          /\ m \in 0 .. L
      BY RecordsAre
    <2>3. f \in [1 .. m -> Nat] /\ \A i \in 1 .. m :
              f[i] = IF i = 1 THEN 0 ELSE f[i - 1] + HeaderSize + Records[i - 1].size
      BY <2>1, <2>2 DEF Places
    <2>. DEFINE last == f[m] + HeaderSize + size
                g == [i \in 1 .. m + 1 |-> IF i = m + 1 THEN last ELSE f[i]]
    <2>4. f[m] \in Nat /\ last \in Nat
      BY <2>2, <2>3, RecordsAre
    <2>5. g \in [1 .. m + 1 -> Nat]
      <3>. HIDE DEF last
      <3>. QED
        BY <2>2, <2>3, <2>4
    <2>6. \A i \in 1 .. m + 1 :
              g[i] = IF i = 1 THEN 0 ELSE g[i - 1] + HeaderSize + Records[i - 1].size
      <3>. TAKE i \in 1 .. m + 1
      <3>1. CASE i = m + 1
        <4>1. g[i] = last /\ i # 1 /\ i - 1 = m /\ m \in 1 .. m + 1 /\ m # m + 1 /\ g[m] = f[m]
          BY <2>2, <3>1
        <4>2. QED
          BY <4>1
      <3>2. CASE i # m + 1
        <4>1. i \in 1 .. m /\ g[i] = f[i] /\ (i # 1 => i - 1 \in 1 .. m /\ g[i - 1] = f[i - 1])
          BY <2>2, <3>2
        <4>2. QED
          BY <2>3, <4>1
      <3>3. QED
        BY <3>1, <3>2
    <2>7. Places(g, m)
      BY <2>6 DEF Places
    <2>. HIDE DEF g
    <2>8. \E h \in [1 .. m + 1 -> Nat] : Places(h, m)
      BY <2>5, <2>7, Zenon
    <2>9. QED
      BY <2>2, <2>8
  <1>. HIDE DEF S
  <1>3. L \in Nat /\ \A m \in 1 .. L : m - 1 \in S => m \in S
    BY <1>2, RecordsAre
  <1>4. \A m \in 0 .. L : m \in S
    BY <1>1, <1>3, InductionUpTo
  <1>5. L \in S
    BY <1>3, <1>4
  <1>6. QED
    BY <1>5 DEF S

(* Begins is what it is defined to be: the records follow each other.      *)
LEMMA BeginsAre ==
  /\ Begins \in [1 .. Len(Records) + 1 -> Nat] /\ Begins[1] = 0
  /\ \A i \in 1 .. Len(Records) :
        Begins[i + 1] = Begins[i] + HeaderSize + Records[i].size
  <1>. DEFINE L == Len(Records)
              B == Begins
  <1>1. B = CHOOSE f : Places(f, L)
    BY DEF Begins, Places
  <1>. HIDE DEF B
  <1>2. Places(B, L)
    BY <1>1, PlacesExist
  <1>3. \A i \in 1 .. L + 1 :
            B[i] = IF i = 1 THEN 0 ELSE B[i - 1] + HeaderSize + Records[i - 1].size
    BY <1>2 DEF Places
  <1>4. \A i \in 1 .. L : /\ i + 1 \in 1 .. L + 1 /\ i + 1 # 1 /\ (i + 1) - 1 = i
    BY RecordsAre
  <1>5. B[1] = 0 /\ \A i \in 1 .. L : B[i + 1] = B[i] + HeaderSize + Records[i].size
    <2>1. B[1] = 0
      BY <1>3, RecordsAre
    <2>2. ASSUME NEW i \in 1 .. L
          PROVE  B[i + 1] = B[i] + HeaderSize + Records[i].size
      <3>. DEFINE n == i + 1
      <3>1. n \in 1 .. L + 1 /\ n # 1 /\ n - 1 = i
        BY <1>4
      <3>. HIDE DEF n
      <3>2. B[n] = B[n - 1] + HeaderSize + Records[n - 1].size
        BY <1>3, <3>1
      <3>3. QED
        BY <3>1, <3>2 DEF n
    <2>3. QED
      BY <2>1, <2>2
  <1>. DEFINE S == {m \in 0 .. L : B[m + 1] \in Nat}
  <1>6. 0 \in S
    BY <1>5, RecordsAre
  <1>7. ASSUME NEW m \in 1 .. L, m - 1 \in S PROVE m \in S
    <2>1. (m - 1) + 1 = m /\ m \in 0 .. L
      BY RecordsAre
    <2>2. B[m] \in Nat /\ Records[m].size \in Nat
      BY <1>7, <2>1, RecordsAre
    <2>3. B[m + 1] \in Nat
      BY <1>5, <2>2, RecordsAre
    <2>4. QED
      BY <2>1, <2>3
  <1>8. \A m \in 0 .. L : B[m + 1] \in Nat
    <2>. HIDE DEF S
    <2>1. \A m \in 0 .. L : m \in S
      BY <1>6, <1>7, InductionUpTo, RecordsAre
    <2>2. QED
      BY <2>1 DEF S
  <1>9. \A i \in 1 .. L + 1 : B[i] \in Nat
    <2>. TAKE i \in 1 .. L + 1
    <2>1. i - 1 \in 0 .. L /\ (i - 1) + 1 = i
      BY RecordsAre
    <2>2. QED
      BY <1>8, <2>1
  <1>10. B \in [1 .. L + 1 -> Nat]
    BY <1>2, <1>9 DEF Places
  <1>11. QED
    BY <1>5, <1>10 DEF B

(* A later record begins more than a header further on.                    *)
LEMMA BeginsIncrease ==
  ASSUME NEW i \in 1 .. Len(Records) + 1, NEW j \in 1 .. Len(Records) + 1, i < j
  PROVE  Begins[i] + HeaderSize < Begins[j]
  <1>. DEFINE L == Len(Records)
              B == Begins
              S == {m \in 0 .. L : \A k \in 1 .. m : B[k] + HeaderSize < B[m + 1]}
  <1>1. /\ B \in [1 .. L + 1 -> Nat] /\ L \in Nat
        /\ \A k \in 1 .. L : B[k + 1] = B[k] + HeaderSize + Records[k].size
    BY BeginsAre, RecordsAre
  <1>. HIDE DEF B
  <1>2. 0 \in S
    BY <1>1
  <1>3. ASSUME NEW m \in 1 .. L, m - 1 \in S PROVE m \in S
    <2>1. /\ m \in 0 .. L /\ (m - 1) + 1 = m /\ m \in 1 .. L + 1
          /\ Records[m].size \in Nat \ {0} /\ B[m] \in Nat
      BY <1>1, RecordsAre
    <2>2. B[m + 1] = B[m] + HeaderSize + Records[m].size
      BY <1>1
    <2>3. B[m] + HeaderSize < B[m + 1]
      BY <2>1, <2>2, RecordsAre
    <2>4. ASSUME NEW k \in 1 .. m PROVE B[k] + HeaderSize < B[m + 1]
      <3>1. CASE k = m
        BY <2>3, <3>1
      <3>2. CASE k # m
        <4>1. k \in 1 .. m - 1 /\ k \in 1 .. L + 1
          BY <1>1, <3>2
        <4>2. B[k] + HeaderSize < B[(m - 1) + 1] /\ B[k] \in Nat
          BY <1>1, <1>3, <4>1
        <4>3. B[k] + 5 < B[m] /\ B[m + 1] = B[m] + 5 + Records[m].size
          BY <2>1, <2>2, <4>2, RecordsAre
        <4>4. \A x, y, s \in Nat : x + 5 < y => x + 5 < y + 5 + s
          OBVIOUS
        <4>5. Records[m].size \in Nat
          BY <2>1
        <4>6. B[k] + 5 < B[m + 1]
          BY <2>1, <4>2, <4>3, <4>4, <4>5, Zenon
        <4>7. QED
          BY <4>6, RecordsAre
      <3>3. QED
        BY <3>1, <3>2
    <2>5. QED
      BY <2>1, <2>4
  <1>4. j - 1 \in 0 .. L /\ (j - 1) + 1 = j /\ i \in 1 .. j - 1
    BY <1>1
  <1>5. j - 1 \in S
    <2>. HIDE DEF S
    <2>. QED
      BY <1>1, <1>2, <1>3, <1>4, InductionUpTo
  <1>6. QED
    BY <1>4, <1>5 DEF B

(* The record that begins where record i does is record i.                 *)
LEMMA RecordAtIs ==
  ASSUME NEW i \in 1 .. Len(Records)
  PROVE  /\ RecordAt(Begins[i]) = i
         /\ Begins[i + 1] = Begins[i] + HeaderSize + SizeAt(Begins[i])
         /\ SizeAt(Begins[i]) \in Nat \ {0}
  <1>1. ASSUME NEW j \in 1 .. Len(Records), Begins[j] = Begins[i] PROVE j = i
    <2>1. i \in 1 .. Len(Records) + 1 /\ j \in 1 .. Len(Records) + 1
      BY RecordsAre
    <2>2. Begins[i] \in Nat /\ Begins[j] \in Nat
      BY <2>1, BeginsAre
    <2>3. ~ (i < j) /\ ~ (j < i)
      BY <1>1, <2>1, <2>2, BeginsIncrease, RecordsAre
    <2>4. QED
      BY <2>1, <2>3, RecordsAre
  <1>2. RecordAt(Begins[i]) = i
    BY <1>1 DEF RecordAt
  <1>3. QED
    BY <1>2, BeginsAre, RecordsAre DEF SizeAt

-----------------------------------------------------------------------------
(* The places of a queue are those of the records after one of them.       *)
Follow(queue, from) == \A k \in 1 .. Len(queue) : queue[k] = Begins[from + k]

RecordsType ==
    /\ written \in 0 .. Len(Records)
    /\ received \in Nat /\ received <= Sent
    /\ start \in Nat /\ offset \in Nat
    /\ previous \in Nat /\ previous <= received
    /\ newRecords \in Seq(Nat) /\ storedRecords \in Seq(Nat)
    /\ sequenceNumber \in Nat /\ given \in Seq(Nat)
    /\ connected \in BOOLEAN /\ extracted \in BOOLEAN /\ empty \in BOOLEAN
    /\ at \in {"idle", "first", "split", "split done", "record", "none"}

(* What is received is split after the last record decrypted, and the      *)
(* stretch that is left begins after the last one split off.               *)
Splits == {"first", "split", "split done"}
Split ==
    /\ storedRecords = <<>>
    /\ Follow(newRecords, sequenceNumber)
    /\ sequenceNumber + Len(newRecords) <= written
    /\ start = Begins[sequenceNumber + 1]
    /\ offset = Begins[sequenceNumber + Len(newRecords) + 1]
    /\ offset <= received
    /\ ~ extracted => newRecords = <<>>
    /\ at = "first" => ~ extracted
    /\ at \in {"first", "split"} => previous = received
    /\ at = "split" => start < received /\ (extracted => connected)
    /\ at = "split done" /\ newRecords # <<>> => previous = offset

(* The records put aside follow a record, and the bytes kept follow them.  *)
Stored(from) ==
    /\ from + Len(storedRecords) <= written
    /\ Follow(storedRecords, from)
    /\ previous = Begins[from + Len(storedRecords) + 1]
Taken ==
    /\ newRecords # <<>> /\ Head(newRecords) = Begins[sequenceNumber + 1]
    /\ sequenceNumber < written
    /\ Stored(sequenceNumber + 1)

(* The records given to the application are the data among those decrypted. *)
GivenInv ==
    /\ \A i \in 1 .. Len(given) : given[i] \in 1 .. sequenceNumber
    /\ \A i, j \in 1 .. Len(given) : i < j => given[i] < given[j]
    /\ \A i \in 1 .. sequenceNumber :
          Records[i].kind = "data" => \E j \in 1 .. Len(given) : given[j] = i
RecordsInv ==
    /\ RecordsType
    /\ GivenInv
    /\ sequenceNumber <= written
    /\ at # "idle" => ~ empty
    /\ at \in Splits => Split
    /\ at = "record" => Taken
    /\ at = "idle" /\ ~ empty => Stored(sequenceNumber)

(* What the types say of the counters and the queues.                      *)
LEMMA LengthsAre ==
  ASSUME RecordsType
  PROVE  /\ newRecords \in Seq(Nat) /\ storedRecords \in Seq(Nat)
         /\ Len(newRecords) \in Nat /\ Len(storedRecords) \in Nat
         /\ sequenceNumber \in Nat /\ written \in Nat /\ offset \in Nat
         /\ start \in Nat /\ received \in Nat /\ previous \in Nat
         /\ previous <= received /\ received <= Sent
  <1>1. /\ newRecords \in Seq(Nat) /\ storedRecords \in Seq(Nat)
        /\ sequenceNumber \in Nat /\ written \in 0 .. Len(Records)
        /\ offset \in Nat /\ start \in Nat /\ received \in Nat
        /\ previous \in Nat /\ previous <= received /\ received <= Sent
    BY DEF RecordsType
  <1>2. Len(newRecords) \in Nat /\ Len(storedRecords) \in Nat
    BY <1>1
  <1>3. written \in Nat
    BY <1>1, RecordsAre
  <1>4. QED
    BY <1>1, <1>2, <1>3

(* The connection starts with nothing sent and nothing kept.               *)
LEMMA RecordsStart == Init => RecordsInv
  <1>. SUFFICES ASSUME Init PROVE RecordsInv
    OBVIOUS
  <1>1. /\ written = 0 /\ received = 0 /\ start = 0 /\ offset = 0 /\ previous = 0
        /\ newRecords = <<>> /\ storedRecords = <<>> /\ given = <<>>
        /\ sequenceNumber = 0 /\ at = "idle" /\ ~ empty
        /\ connected \in BOOLEAN /\ extracted \in BOOLEAN /\ empty \in BOOLEAN
    BY DEF Init
  <1>2. Begins[0 + 1] = 0 /\ Sent = 0
    BY <1>1, BeginsAre DEF Sent
  <1>3. RecordsType
    BY <1>1, <1>2, RecordsAre DEF RecordsType
  <1>4. GivenInv
    BY <1>1 DEF GivenInv
  <1>5. Stored(sequenceNumber)
    BY <1>1, <1>2 DEF Stored, Follow
  <1>6. QED
    BY <1>1, <1>3, <1>4, <1>5 DEF RecordsInv, Splits

(* What lies between the beginning of a record and the end of what is sent  *)
(* is of a record that is sent.                                            *)
LEMMA BeginsSent ==
  ASSUME NEW w \in 0 .. Len(Records), NEW k \in Nat, k <= w,
         NEW n \in Nat, Begins[k + 1] < n, n <= Begins[w + 1]
  PROVE  /\ k < w /\ k + 1 \in 1 .. Len(Records)
         /\ RecordAt(Begins[k + 1]) = k + 1
         /\ Begins[k + 2] = Begins[k + 1] + HeaderSize + SizeAt(Begins[k + 1])
         /\ Begins[k + 1] + HeaderSize < Begins[w + 1]
         /\ Begins[k + 1] \in Nat /\ SizeAt(Begins[k + 1]) \in Nat \ {0}
  <1>1. k + 1 \in 1 .. Len(Records) + 1 /\ w + 1 \in 1 .. Len(Records) + 1
    BY RecordsAre
  <1>2. Begins[k + 1] \in Nat /\ Begins[w + 1] \in Nat
    BY <1>1, BeginsAre
  <1>3. k # w
    BY <1>2
  <1>4. k < w /\ k + 1 \in 1 .. Len(Records) /\ (k + 1) + 1 = k + 2
    BY <1>3, RecordsAre
  <1>5. Begins[k + 1] + HeaderSize < Begins[w + 1]
    <2>1. k + 1 < w + 1
      BY <1>4, RecordsAre
    <2>2. QED
      BY <1>1, <2>1, BeginsIncrease
  <1>6. QED
    BY <1>2, <1>4, <1>5, RecordAtIs

(* A call of recv gives something of what is sent, or it ends the          *)
(* connection.                                                             *)
LEMMA RecieveGives ==
  ASSUME RecordsType, RecieveData
  PROVE  /\ received' \in Nat /\ received <= received' /\ received' <= Sent
         /\ connected' \in BOOLEAN
         /\ connected' => connected /\ received < received'
         /\ \/ received' = received /\ connected' = FALSE
            \/ received < received' /\ connected' = connected
               /\ (received' >= received + MinPiece \/ received' = Sent)
  <1>1. /\ received \in Nat /\ connected \in BOOLEAN /\ received <= Sent
        /\ written \in 0 .. Len(Records)
    BY DEF RecordsType
  <1>2. Sent \in Nat
    <2>1. written + 1 \in 1 .. Len(Records) + 1
      BY <1>1, RecordsAre
    <2>2. QED
      BY <2>1, BeginsAre DEF Sent
  <1>3. CASE received' = received /\ connected' = FALSE
    <2>1. received' \in Nat /\ received <= received' /\ received' <= Sent
      BY <1>1, <1>3
    <2>2. connected' \in BOOLEAN /\ ~ connected'
      BY <1>3
    <2>3. QED
      BY <1>3, <2>1, <2>2, Zenon
  <1>4. CASE /\ \E n \in received + 1 .. Sent :
                   /\ n >= received + MinPiece \/ n = Sent
                   /\ received' = n
             /\ connected' = connected
    BY <1>1, <1>2, <1>4
  <1>5. QED
    BY <1>3, <1>4 DEF RecieveData

(* What the peer writes only moves the end of what is sent.                *)
LEMMA WriteKeeps == ASSUME RecordsInv, Write PROVE RecordsInv'
  <1>1. /\ written < Len(Records) /\ written' = written + 1
        /\ connected' = connected /\ received' = received /\ at' = at
        /\ start' = start /\ offset' = offset /\ extracted' = extracted
        /\ newRecords' = newRecords /\ previous' = previous
        /\ storedRecords' = storedRecords /\ sequenceNumber' = sequenceNumber
        /\ given' = given /\ empty' = empty
    BY DEF Write, parsing, results
  <1>2. RecordsType /\ written \in 0 .. Len(Records)
    BY DEF RecordsInv, RecordsType
  <1>3. received <= Sent'
    <2>1. /\ written + 1 \in 1 .. Len(Records) /\ (written + 1) + 1 = written + 2
          /\ written + 1 \in 1 .. Len(Records) + 1
      BY <1>1, <1>2, RecordsAre
    <2>2. /\ Begins[written + 2] = Begins[written + 1] + HeaderSize + Records[written + 1].size
          /\ Begins[written + 1] \in Nat /\ Records[written + 1].size \in Nat
      BY <2>1, BeginsAre, RecordsAre
    <2>3. Sent = Begins[written + 1] /\ Sent' = Begins[written + 2]
      BY <1>1, <2>1 DEF Sent
    <2>4. received \in Nat /\ received <= Sent
      BY <1>2 DEF RecordsType
    <2>5. QED
      BY <2>2, <2>3, <2>4, RecordsAre
  <1>4. RecordsType'
    <2>1. written + 1 \in 0 .. Len(Records)
      BY <1>1, <1>2, RecordsAre
    <2>2. QED
      BY <1>1, <1>2, <1>3, <2>1 DEF RecordsType
  <1>5. GivenInv'
    BY <1>1 DEF RecordsInv, GivenInv
  <1>6. \A n \in Nat : n <= written => n <= written'
    BY <1>1, <1>2
  <1>7. /\ sequenceNumber \in Nat /\ Len(newRecords) \in Nat
        /\ Len(storedRecords) \in Nat
    BY <1>2, LengthsAre
  <1>8. Split => Split'
    <2>1. sequenceNumber + Len(newRecords) \in Nat
      BY <1>7
    <2>2. QED
      BY <1>1, <1>6, <2>1 DEF Split
  <1>9. ASSUME NEW n \in Nat, Stored(n) PROVE Stored(n)'
    <2>1. n + Len(storedRecords) \in Nat
      BY <1>7
    <2>2. QED
      BY <1>1, <1>6, <1>9, <2>1 DEF Stored
  <1>10. Taken => Taken'
    <2>1. sequenceNumber < written => sequenceNumber < written'
      BY <1>1, <1>2, <1>7
    <2>2. sequenceNumber + 1 \in Nat
      BY <1>7
    <2>3. Stored(sequenceNumber + 1) => Stored(sequenceNumber + 1)'
      BY <1>1, <1>9, <2>2 DEF Stored
    <2>4. QED
      BY <1>1, <2>1, <2>3 DEF Taken
  <1>11. Stored(sequenceNumber) => Stored(sequenceNumber)'
    BY <1>1, <1>7, <1>9 DEF Stored
  <1>12. QED
    BY <1>1, <1>4, <1>5, <1>6, <1>7, <1>8, <1>10, <1>11 DEF RecordsInv

(* A record put aside is the one after the last decrypted, and the others  *)
(* follow it.                                                              *)
LEMMA TakeStoredKeeps == ASSUME RecordsInv, ~ empty, TakeStored PROVE RecordsInv'
  <1>1. /\ at = "idle" /\ at' = "record" /\ storedRecords # <<>>
        /\ newRecords' = <<Head(storedRecords)>>
        /\ storedRecords' = Tail(storedRecords)
        /\ written' = written /\ connected' = connected /\ received' = received
        /\ start' = start /\ offset' = offset /\ extracted' = extracted
        /\ previous' = previous /\ sequenceNumber' = sequenceNumber
        /\ given' = given /\ empty' = empty
    BY DEF TakeStored, Goto, peer, results
  <1>2. RecordsType /\ Stored(sequenceNumber)
    BY <1>1 DEF RecordsInv
  <1>3. /\ storedRecords \in Seq(Nat) /\ sequenceNumber \in Nat
        /\ written \in Nat
    BY <1>2, LengthsAre
  <1>4. /\ Head(storedRecords) \in Nat /\ Head(storedRecords) = storedRecords[1]
        /\ Tail(storedRecords) \in Seq(Nat) /\ 1 \in 1 .. Len(storedRecords)
        /\ Len(storedRecords) \in Nat
        /\ Len(Tail(storedRecords)) = Len(storedRecords) - 1
        /\ \A k \in 1 .. Len(Tail(storedRecords)) :
              k + 1 \in 1 .. Len(storedRecords) /\ Tail(storedRecords)[k] = storedRecords[k + 1]
    BY <1>1, <1>3
  <1>5. RecordsType'
    BY <1>1, <1>2, <1>4 DEF RecordsType, Sent
  <1>6. Taken'
    <2>1. Head(newRecords') = Begins[sequenceNumber + 1]
      BY <1>1, <1>2, <1>4 DEF Stored, Follow
    <2>2. sequenceNumber < written
      BY <1>2, <1>3, <1>4 DEF Stored
    <2>3. Follow(Tail(storedRecords), sequenceNumber + 1)
      <3>1. \A k \in 1 .. Len(Tail(storedRecords)) :
               sequenceNumber + (k + 1) = (sequenceNumber + 1) + k
        BY <1>3, <1>4
      <3>2. QED
        BY <1>2, <1>4, <3>1 DEF Stored, Follow
    <2>4. /\ (sequenceNumber + 1) + Len(Tail(storedRecords))
                = sequenceNumber + Len(storedRecords)
      BY <1>3, <1>4
    <2>5. Stored(sequenceNumber + 1)'
      BY <1>1, <1>2, <2>3, <2>4 DEF Stored
    <2>6. newRecords' # <<>>
      BY <1>1
    <2>7. QED
      BY <1>1, <2>1, <2>2, <2>5, <2>6 DEF Taken
  <1>7. GivenInv'
    BY <1>1 DEF RecordsInv, GivenInv
  <1>8. QED
    BY <1>1, <1>5, <1>6, <1>7 DEF RecordsInv, Splits

(* With no record put aside, the bytes kept begin with the record after    *)
(* the last decrypted.                                                     *)
LEMMA FirstPieceKeeps == ASSUME RecordsInv, ~ empty, FirstPiece PROVE RecordsInv'
  <1>1. /\ at = "idle" /\ at' = "first" /\ storedRecords = <<>>
        /\ start' = previous /\ offset' = previous /\ previous' = received'
        /\ ~ extracted' /\ extracted' \in BOOLEAN /\ newRecords' = <<>>
        /\ RecieveData
        /\ written' = written /\ storedRecords' = storedRecords
        /\ sequenceNumber' = sequenceNumber
        /\ given' = given /\ empty' = empty
    BY DEF FirstPiece, Goto, peer, results
  <1>2. RecordsType /\ Stored(sequenceNumber)
    BY <1>1 DEF RecordsInv
  <1>3. /\ received' \in Nat /\ received <= received' /\ received' <= Sent
        /\ connected' \in BOOLEAN
    BY <1>1, <1>2, RecieveGives
  <1>4. previous \in Nat /\ previous <= received' /\ sequenceNumber \in Nat
    <2>1. /\ previous \in Nat /\ previous <= received /\ received \in Nat
          /\ sequenceNumber \in Nat
      BY <1>2, LengthsAre
    <2>2. QED
      BY <1>3, <2>1
  <1>5. RecordsType'
    BY <1>1, <1>2, <1>3, <1>4 DEF RecordsType, Sent
  <1>6. /\ previous = Begins[sequenceNumber + 1] /\ sequenceNumber <= written
        /\ sequenceNumber + 0 = sequenceNumber
    BY <1>1, <1>2, <1>4 DEF Stored
  <1>7. Split'
    BY <1>1, <1>4, <1>6 DEF Split, Follow
  <1>8. GivenInv'
    BY <1>1 DEF RecordsInv, GivenInv
  <1>9. QED
    BY <1>1, <1>5, <1>7, <1>8 DEF RecordsInv, Splits

(* Nothing at all changes no record.                                       *)
LEMMA NothingKeeps == ASSUME RecordsInv, Nothing PROVE RecordsInv'
  <1>1. /\ at = "first" /\ at' = "none" /\ written' = written
        /\ connected' = connected /\ received' = received
        /\ start' = start /\ offset' = offset /\ extracted' = extracted
        /\ newRecords' = newRecords /\ previous' = previous
        /\ storedRecords' = storedRecords /\ sequenceNumber' = sequenceNumber
        /\ given' = given /\ empty' = empty
    BY DEF Nothing, Goto, peer, parsing, results
  <1>2. RecordsType'
    BY <1>1 DEF RecordsInv, RecordsType, Sent
  <1>3. GivenInv'
    BY <1>1 DEF RecordsInv, GivenInv
  <1>4. QED
    BY <1>1, <1>2, <1>3 DEF RecordsInv, Splits

(* A second piece only moves the end of what is received.                  *)
LEMMA SecondPieceKeeps == ASSUME RecordsInv, SecondPiece PROVE RecordsInv'
  <1>1. /\ at = "first" /\ at' = "split" /\ Size > 0 /\ previous' = received'
        /\ \/ received' = received /\ connected' = connected
           \/ RecieveData
        /\ start' = start /\ offset' = offset /\ extracted' = extracted
        /\ newRecords' = newRecords /\ written' = written
        /\ storedRecords' = storedRecords /\ sequenceNumber' = sequenceNumber
        /\ given' = given /\ empty' = empty
    BY DEF SecondPiece, Goto, peer, parsing, results
  <1>2. RecordsType /\ Split
    BY <1>1 DEF RecordsInv, Splits
  <1>3. /\ received \in Nat /\ start \in Nat /\ received <= Sent
        /\ connected \in BOOLEAN
    BY <1>2 DEF RecordsType
  <1>4. /\ received' \in Nat /\ received <= received' /\ received' <= Sent
        /\ connected' \in BOOLEAN
    <2>1. CASE received' = received /\ connected' = connected
      BY <1>3, <2>1
    <2>2. CASE RecieveData
      BY <1>2, <2>2, RecieveGives
    <2>3. QED
      BY <1>1, <2>1, <2>2
  <1>5. RecordsType'
    BY <1>1, <1>2, <1>4 DEF RecordsType, Sent
  <1>6. start < received'
    BY <1>1, <1>3, <1>4 DEF Size
  <1>7. offset \in Nat /\ offset <= received'
    <2>1. offset \in Nat /\ offset <= received /\ received \in Nat
      BY <1>2, LengthsAre DEF Split
    <2>2. QED
      BY <1>4, <2>1
  <1>8. Split'
    BY <1>1, <1>2, <1>6, <1>7 DEF Split
  <1>9. GivenInv'
    BY <1>1 DEF RecordsInv, GivenInv
  <1>10. QED
    BY <1>1, <1>5, <1>8, <1>9 DEF RecordsInv, Splits

(* ... as does the rest of the first record.                               *)
LEMMA RestOfFirstKeeps == ASSUME RecordsInv, RestOfFirst PROVE RecordsInv'
  <1>1. /\ at = "split" /\ at' \in {"split", "none"} /\ previous' = received'
        /\ RecieveData /\ ~ extracted
        /\ start' = start /\ offset' = offset /\ extracted' = extracted
        /\ newRecords' = newRecords /\ written' = written
        /\ storedRecords' = storedRecords /\ sequenceNumber' = sequenceNumber
        /\ given' = given /\ empty' = empty
    BY DEF RestOfFirst, Splitting, peer, parsing, results
  <1>2. RecordsType /\ Split
    BY <1>1 DEF RecordsInv, Splits
  <1>3. /\ received' \in Nat /\ received <= received' /\ received' <= Sent
        /\ connected' \in BOOLEAN
    BY <1>1, <1>2, RecieveGives
  <1>4. RecordsType'
    <2>1. /\ connected' \in BOOLEAN /\ at' \in {"split", "none"} /\ received' \in Nat
          /\ previous' \in Nat /\ previous' <= received' /\ received' <= Sent'
      BY <1>1, <1>3 DEF Sent
    <2>2. QED
      BY <1>1, <1>2, <2>1 DEF RecordsType
  <1>5. start < received' /\ offset <= received'
    <2>1. /\ received \in Nat /\ start \in Nat /\ offset \in Nat
          /\ start < received /\ offset <= received
      BY <1>1, <1>2, LengthsAre DEF Split
    <2>2. QED
      BY <1>3, <2>1
  <1>6. Split'
    BY <1>1, <1>2, <1>5 DEF Split
  <1>7. GivenInv'
    BY <1>1 DEF RecordsInv, GivenInv
  <1>8. QED
    BY <1>1, <1>4, <1>6, <1>7 DEF RecordsInv, Splits

(* The first record is found to be complete while the socket is            *)
(* connected.                                                              *)
LEMMA FirstExtractedKeeps == ASSUME RecordsInv, FirstExtracted PROVE RecordsInv'
  <1>1. /\ at = "split" /\ at' = "split" /\ ~ extracted /\ extracted' = TRUE
        /\ connected /\ connected' = connected /\ written' = written
        /\ received' = received /\ start' = start /\ offset' = offset
        /\ newRecords' = newRecords /\ previous' = previous
        /\ storedRecords' = storedRecords /\ sequenceNumber' = sequenceNumber
        /\ given' = given /\ empty' = empty
    BY DEF FirstExtracted, Splitting, peer, results
  <1>2. RecordsType /\ Split
    BY <1>1 DEF RecordsInv, Splits
  <1>3. RecordsType'
    BY <1>1, <1>2 DEF RecordsType, Sent
  <1>4. Split'
    BY <1>1, <1>2 DEF Split
  <1>5. GivenInv'
    BY <1>1 DEF RecordsInv, GivenInv
  <1>6. QED
    BY <1>1, <1>3, <1>4, <1>5 DEF RecordsInv, Splits

(* What is left after the records split off begins with a record, which is  *)
(* split off next if it is whole.                                          *)
LEMMA NextIsARecord ==
  ASSUME RecordsType, Split, offset < received
  PROVE  /\ sequenceNumber + Len(newRecords) < written
         /\ Begins[sequenceNumber + Len(newRecords) + 2]
                = offset + HeaderSize + SizeAt(offset)
         /\ SizeAt(offset) \in Nat /\ offset + HeaderSize < Sent
  <1>. DEFINE k == sequenceNumber + Len(newRecords)
  <1>1. k \in Nat /\ written \in 0 .. Len(Records) /\ k <= written
    <2>1. sequenceNumber \in Nat /\ Len(newRecords) \in Nat
      BY LengthsAre
    <2>2. sequenceNumber + Len(newRecords) <= written
      BY Zenon DEF Split
    <2>3. written \in 0 .. Len(Records)
      BY DEF RecordsType
    <2>4. QED
      BY <2>1, <2>2, <2>3
  <1>2. /\ received \in Nat /\ offset = Begins[k + 1] /\ Sent = Begins[written + 1]
        /\ received <= Sent
    BY DEF RecordsType, Split, Sent
  <1>. HIDE DEF k
  <1>3. QED
    <2>1. /\ k < written
          /\ Begins[k + 2] = Begins[k + 1] + HeaderSize + SizeAt(Begins[k + 1])
          /\ Begins[k + 1] + HeaderSize < Begins[written + 1]
          /\ SizeAt(Begins[k + 1]) \in Nat \ {0}
      BY <1>1, <1>2, BeginsSent
    <2>2. QED
      BY <1>2, <2>1 DEF k

(* A record that is split off is the one after those split off.            *)
LEMMA SplitRecordKeeps == ASSUME RecordsInv, SplitRecord PROVE RecordsInv'
  <1>1. /\ at = "split" /\ at' = "split" /\ offset < received /\ extracted
        /\ received - offset >= HeaderSize + SizeAt(offset)
        /\ newRecords' = Append(newRecords, offset)
        /\ offset' = offset + HeaderSize + SizeAt(offset)
        /\ connected' = connected /\ written' = written
        /\ received' = received /\ start' = start /\ extracted' = extracted
        /\ previous' = previous /\ storedRecords' = storedRecords
        /\ sequenceNumber' = sequenceNumber
        /\ given' = given /\ empty' = empty
    BY DEF SplitRecord, Splitting, IsWhole, peer, results
  <1>2. RecordsType /\ Split
    BY <1>1 DEF RecordsInv, Splits
  <1>. DEFINE k == sequenceNumber + Len(newRecords)
  <1>3. /\ k < written /\ Begins[k + 2] = offset + HeaderSize + SizeAt(offset)
        /\ SizeAt(offset) \in Nat
    BY <1>1, <1>2, NextIsARecord
  <1>4. /\ newRecords \in Seq(Nat) /\ Len(newRecords) \in Nat /\ k \in Nat
        /\ sequenceNumber \in Nat /\ written \in Nat
        /\ offset \in Nat /\ received \in Nat
    <2>1. /\ newRecords \in Seq(Nat) /\ Len(newRecords) \in Nat
          /\ sequenceNumber \in Nat /\ written \in Nat
          /\ offset \in Nat /\ received \in Nat
      BY <1>2, LengthsAre
    <2>2. QED
      BY <2>1
  <1>5. /\ newRecords' \in Seq(Nat) /\ Len(newRecords') = Len(newRecords) + 1
        /\ \A i \in 1 .. Len(newRecords) : newRecords'[i] = newRecords[i]
        /\ newRecords'[Len(newRecords) + 1] = offset
    BY <1>1, <1>4
  <1>6. offset' \in Nat /\ offset' <= received
    BY <1>1, <1>3, <1>4, RecordsAre
  <1>7. RecordsType'
    BY <1>1, <1>2, <1>5, <1>6 DEF RecordsType, Sent
  <1>8. Follow(newRecords', sequenceNumber)
    <2>1. Follow(newRecords, sequenceNumber) /\ offset = Begins[k + 1]
      BY <1>2 DEF Split
    <2>2. ASSUME NEW i \in 1 .. Len(newRecords')
          PROVE  newRecords'[i] = Begins[sequenceNumber + i]
      <3>1. CASE i \in 1 .. Len(newRecords)
        BY <1>5, <2>1, <3>1 DEF Follow
      <3>2. CASE i = Len(newRecords) + 1
        <4>1. sequenceNumber + i = k + 1
          BY <1>4, <3>2
        <4>2. QED
          BY <1>5, <2>1, <3>2, <4>1
      <3>3. QED
        BY <1>4, <1>5, <3>1, <3>2
    <2>3. QED
      BY <2>2 DEF Follow
  <1>9. /\ sequenceNumber + Len(newRecords') <= written
        /\ sequenceNumber + Len(newRecords') + 1 = k + 2
    BY <1>3, <1>4, <1>5
  <1>10. Split'
    <2>1. offset' = Begins[sequenceNumber' + Len(newRecords') + 1]
      BY <1>1, <1>3, <1>9
    <2>2. storedRecords = <<>> /\ start = Begins[sequenceNumber + 1] /\ previous = received
          /\ start < received /\ connected
      BY <1>1, <1>2 DEF Split
    <2>3. Follow(newRecords, sequenceNumber)'
      BY <1>1, <1>8 DEF Follow
    <2>4. QED
      BY <1>1, <1>6, <1>9, <2>1, <2>2, <2>3 DEF Split
  <1>11. GivenInv'
    BY <1>1 DEF RecordsInv, GivenInv
  <1>12. QED
    BY <1>1, <1>7, <1>10, <1>11 DEF RecordsInv, Splits

(* The bytes kept begin after the last record split off.                   *)
LEMMA KeepRestKeeps == ASSUME RecordsInv, KeepRest PROVE RecordsInv'
  <1>1. /\ at = "split" /\ at' = "split done" /\ previous' = offset
        /\ written' = written /\ connected' = connected /\ received' = received
        /\ start' = start /\ offset' = offset /\ extracted' = extracted
        /\ newRecords' = newRecords /\ storedRecords' = storedRecords
        /\ sequenceNumber' = sequenceNumber
        /\ given' = given /\ empty' = empty
    BY DEF KeepRest, Splitting, peer, parsing, results
  <1>2. RecordsType /\ Split
    BY <1>1 DEF RecordsInv, Splits
  <1>3. offset \in Nat /\ offset <= received
    BY <1>2, LengthsAre DEF Split
  <1>4. RecordsType'
    BY <1>1, <1>2, <1>3 DEF RecordsType, Sent
  <1>5. Split'
    BY <1>1, <1>2 DEF Split
  <1>6. GivenInv'
    BY <1>1 DEF RecordsInv, GivenInv
  <1>7. QED
    BY <1>1, <1>4, <1>5, <1>6 DEF RecordsInv, Splits

(* Without bytes left, they begin at the end of what is received.          *)
LEMMA SplitAllKeeps == ASSUME RecordsInv, SplitAll PROVE RecordsInv'
  <1>1. /\ at = "split" /\ at' = "split done" /\ ~ (offset < received /\ connected)
        /\ written' = written /\ connected' = connected /\ received' = received
        /\ start' = start /\ offset' = offset /\ extracted' = extracted
        /\ newRecords' = newRecords /\ previous' = previous
        /\ storedRecords' = storedRecords /\ sequenceNumber' = sequenceNumber
        /\ given' = given /\ empty' = empty
    BY DEF SplitAll, peer, parsing, results
  <1>2. RecordsType /\ Split
    BY <1>1 DEF RecordsInv, Splits
  <1>3. RecordsType'
    BY <1>1, <1>2 DEF RecordsType, Sent
  <1>4. newRecords # <<>> => previous = offset
    <2>. SUFFICES ASSUME newRecords # <<>> PROVE previous = offset
      OBVIOUS
    <2>1. connected /\ offset <= received /\ previous = received
      BY <1>1, <1>2 DEF Split
    <2>2. offset \in Nat /\ received \in Nat
      BY <1>2, LengthsAre
    <2>3. ~ (offset < received)
      BY <1>1, <2>1
    <2>4. QED
      BY <2>1, <2>2, <2>3
  <1>5. Split'
    BY <1>1, <1>2, <1>4 DEF Split
  <1>6. GivenInv'
    BY <1>1 DEF RecordsInv, GivenInv
  <1>7. QED
    BY <1>1, <1>3, <1>5, <1>6 DEF RecordsInv, Splits

(* The first record split off is returned, and those after it are put      *)
(* aside.                                                                  *)
LEMMA StoreRecordsKeeps == ASSUME RecordsInv, StoreRecords PROVE RecordsInv'
  <1>1. /\ at = "split done"
        /\ written' = written /\ connected' = connected /\ received' = received
        /\ start' = start /\ offset' = offset /\ extracted' = extracted
        /\ newRecords' = newRecords /\ previous' = previous
        /\ sequenceNumber' = sequenceNumber
        /\ given' = given /\ empty' = empty
    BY DEF StoreRecords, peer, parsing, results
  <1>2. RecordsType /\ Split
    BY <1>1 DEF RecordsInv, Splits
  <1>3. GivenInv'
    BY <1>1 DEF RecordsInv, GivenInv
  <1>4. CASE newRecords = <<>>
    <2>1. at' = "none" /\ storedRecords' = storedRecords
      BY <1>4 DEF StoreRecords
    <2>2. RecordsType'
      BY <1>1, <1>2, <2>1 DEF RecordsType, Sent
    <2>3. QED
      BY <1>1, <1>3, <2>1, <2>2 DEF RecordsInv, Splits
  <1>5. CASE newRecords # <<>>
    <2>1. at' = "record" /\ storedRecords' = storedRecords \o Tail(newRecords)
      BY <1>5 DEF StoreRecords
    <2>2. storedRecords = <<>>
      BY <1>2 DEF Split
    <2>3. /\ newRecords \in Seq(Nat) /\ sequenceNumber \in Nat /\ written \in Nat
          /\ Len(newRecords) \in Nat
      BY <1>2, LengthsAre
    <2>4. Tail(newRecords) \in Seq(Nat) /\ <<>> \o Tail(newRecords) = Tail(newRecords)
      BY <1>5, <2>3
    <2>5. storedRecords' = Tail(newRecords)
      BY <2>1, <2>2, <2>4
    <2>6. /\ Head(newRecords) = newRecords[1] /\ 1 \in 1 .. Len(newRecords)
          /\ Len(Tail(newRecords)) = Len(newRecords) - 1
          /\ \A k \in 1 .. Len(Tail(newRecords)) :
                /\ k + 1 \in 1 .. Len(newRecords)
                /\ Tail(newRecords)[k] = newRecords[k + 1]
      BY <1>5, <2>3
    <2>7. RecordsType'
      BY <1>1, <1>2, <2>1, <2>4, <2>5 DEF RecordsType, Sent
    <2>8. Head(newRecords) = Begins[sequenceNumber + 1]
      BY <1>2, <2>6 DEF Split, Follow
    <2>9. (sequenceNumber + 1) + Len(Tail(newRecords)) = sequenceNumber + Len(newRecords)
      <3>1. /\ Len(Tail(newRecords)) = Len(newRecords) - 1
            /\ Len(newRecords) \in Nat /\ sequenceNumber \in Nat
        BY <2>3, <2>6, Zenon
      <3>2. \A l, m, n \in Nat : l = m - 1 => (n + 1) + l = n + m
        OBVIOUS
      <3>3. Len(Tail(newRecords)) \in Nat
        BY <2>4
      <3>4. QED
        BY <3>1, <3>2, <3>3, Zenon
    <2>10. /\ sequenceNumber + Len(newRecords) <= written
           /\ previous = Begins[sequenceNumber + Len(newRecords) + 1]
      BY <1>1, <1>2, <1>5 DEF Split
    <2>11. sequenceNumber < written
      BY <2>3, <2>6, <2>10
    <2>12. Follow(Tail(newRecords), sequenceNumber + 1)
      <3>1. \A k \in 1 .. Len(Tail(newRecords)) :
               sequenceNumber + (k + 1) = (sequenceNumber + 1) + k
        BY <2>3, <2>6
      <3>2. QED
        BY <1>2, <2>6, <3>1 DEF Split, Follow
    <2>13. Taken'
      BY <1>1, <1>5, <2>5, <2>8, <2>9, <2>10, <2>11, <2>12
      DEF Taken, Stored
    <2>14. QED
      BY <1>1, <1>3, <2>1, <2>7, <2>13 DEF RecordsInv, Splits
  <1>6. QED
    BY <1>4, <1>5

(* A call that gives nothing decrypts nothing.                             *)
LEMMA GiveNothingKeeps == ASSUME RecordsInv, GiveNothing PROVE RecordsInv'
  <1>1. /\ at = "none" /\ at' = "idle" /\ empty' = TRUE
        /\ written' = written /\ connected' = connected /\ received' = received
        /\ start' = start /\ offset' = offset /\ extracted' = extracted
        /\ newRecords' = newRecords /\ previous' = previous
        /\ storedRecords' = storedRecords /\ sequenceNumber' = sequenceNumber
        /\ given' = given
    BY DEF GiveNothing, Goto, peer, parsing
  <1>2. RecordsType'
    BY <1>1 DEF RecordsInv, RecordsType, Sent
  <1>3. GivenInv'
    BY <1>1 DEF RecordsInv, GivenInv
  <1>4. QED
    BY <1>1, <1>2, <1>3 DEF RecordsInv, Splits

(* The record at hand is the one after the last decrypted.                 *)
LEMMA CurrentIsNext ==
  ASSUME RecordsType, Taken
  PROVE  Current = sequenceNumber + 1 /\ sequenceNumber + 1 \in 1 .. Len(Records)
  <1>1. sequenceNumber \in Nat /\ written \in 0 .. Len(Records) /\ sequenceNumber < written
    BY DEF RecordsType, Taken
  <1>2. sequenceNumber + 1 \in 1 .. Len(Records)
    BY <1>1, RecordsAre
  <1>3. QED
    BY <1>2, RecordAtIs DEF Taken, Current

(* The record decrypted is the next one, and it is given if it is data.    *)
LEMMA GiveRecordKeeps == ASSUME RecordsInv, GiveRecord PROVE RecordsInv'
  <1>1. /\ at = "record" /\ at' = "idle" /\ sequenceNumber' = sequenceNumber + 1
        /\ written' = written /\ connected' = connected /\ received' = received
        /\ start' = start /\ offset' = offset /\ extracted' = extracted
        /\ newRecords' = newRecords /\ previous' = previous
        /\ storedRecords' = storedRecords
    BY DEF GiveRecord, Goto, Decrypted, peer, parsing
  <1>2. \/ /\ Records[Current].kind = "data" /\ given' = Append(given, Current)
           /\ empty' = FALSE
        \/ Records[Current].kind # "data" /\ given' = given /\ empty' \in BOOLEAN
    BY DEF GiveRecord, RecordsInv, RecordsType
  <1>. DEFINE n == sequenceNumber + 1
  <1>3. RecordsType /\ Taken /\ GivenInv
    BY <1>1 DEF RecordsInv
  <1>4. /\ sequenceNumber \in Nat /\ written \in Nat /\ sequenceNumber < written
        /\ given \in Seq(Nat) /\ Stored(n)
    BY <1>3, LengthsAre DEF Taken, RecordsType
  <1>5. Current = n /\ n \in Nat /\ n <= written
    <2>1. Current = n
      BY <1>3, CurrentIsNext
    <2>2. n \in Nat /\ n <= written
      BY <1>4
    <2>3. QED
      BY <2>1, <2>2
  <1>6. Stored(sequenceNumber)'
    BY <1>1, <1>4 DEF Stored
  <1>. HIDE DEF n
  <1>7. n = sequenceNumber' /\ \A i \in 1 .. n : i \in 1 .. sequenceNumber \/ i = n
    BY <1>1, <1>4 DEF n
  <1>8. \A i \in 1 .. sequenceNumber : i \in 1 .. n /\ i < n
    BY <1>4 DEF n
  <1>9. sequenceNumber' <= written'
    BY <1>1, <1>5, <1>7
  <1>10. at' \notin Splits /\ at' # "record"
    BY <1>1 DEF Splits
  <1>11. CASE Records[Current].kind = "data"
    <2>1. given' = Append(given, n) /\ ~ empty' /\ empty' \in BOOLEAN
      BY <1>2, <1>5, <1>11
    <2>2. given' \in Seq(Nat) /\ Len(given) \in Nat
      BY <1>4, <1>5, <2>1
    <2>3. /\ Len(given') = Len(given) + 1 /\ given'[Len(given) + 1] = n
          /\ \A i \in 1 .. Len(given) : given'[i] = given[i]
      BY <1>4, <1>5, <2>1
    <2>4. \A i \in 1 .. Len(given') : i \in 1 .. Len(given) \/ i = Len(given) + 1
      BY <2>2, <2>3
    <2>5. \A i \in 1 .. Len(given) : i \in 1 .. Len(given')
      BY <2>2, <2>3
    <2>6. RecordsType'
      BY <1>1, <1>3, <1>4, <2>1, <2>2, <1>5, <1>7 DEF RecordsType, Sent
    <2>7. \A i \in 1 .. Len(given') : given'[i] \in 1 .. n
      <3>1. n \in 1 .. n
        BY <1>4, <1>5 DEF n
      <3>2. QED
        BY <1>3, <1>8, <2>3, <2>4, <3>1 DEF GivenInv
    <2>8. ASSUME NEW i \in 1 .. Len(given'), NEW j \in 1 .. Len(given'), i < j
          PROVE  given'[i] < given'[j]
      <3>1. i \in 1 .. Len(given)
        BY <2>2, <2>3, <2>8
      <3>2. CASE j \in 1 .. Len(given)
        BY <1>3, <2>3, <2>8, <3>1, <3>2 DEF GivenInv
      <3>3. CASE j = Len(given) + 1
        BY <1>3, <1>8, <2>3, <3>1, <3>3 DEF GivenInv
      <3>4. QED
        BY <2>4, <3>2, <3>3
    <2>9. ASSUME NEW i \in 1 .. n, Records[i].kind = "data"
          PROVE  \E j \in 1 .. Len(given') : given'[j] = i
      <3>1. CASE i \in 1 .. sequenceNumber
        BY <1>3, <2>3, <2>5, <2>9, <3>1 DEF GivenInv
      <3>2. CASE i = n
        <4>1. Len(given) + 1 \in 1 .. Len(given')
          BY <2>2, <2>3
        <4>2. QED
          BY <2>3, <3>2, <4>1
      <3>3. QED
        BY <1>7, <3>1, <3>2
    <2>10. GivenInv'
      BY <1>7, <2>7, <2>8, <2>9 DEF GivenInv
    <2>11. QED
      BY <1>1, <1>6, <2>6, <2>10, <1>9, <1>10 DEF RecordsInv
  <1>12. CASE Records[Current].kind # "data"
    <2>1. given' = given /\ empty' \in BOOLEAN
      BY <1>2, <1>12
    <2>2. RecordsType'
      BY <1>1, <1>3, <1>4, <2>1, <1>5, <1>7 DEF RecordsType, Sent
    <2>3. \A i \in 1 .. n : Records[i].kind = "data" => i \in 1 .. sequenceNumber
      BY <1>5, <1>7, <1>12
    <2>4. GivenInv'
      BY <1>3, <1>7, <1>8, <2>1, <2>3 DEF GivenInv
    <2>5. QED
      BY <1>1, <1>6, <2>2, <2>4, <1>9, <1>10 DEF RecordsInv
  <1>13. QED
    BY <1>11, <1>12

-----------------------------------------------------------------------------
(* What is received is split into the records that were sent, in any state. *)
LEMMA RecordsStay == Spec => []RecordsInv
  <1>1. ASSUME RecordsInv, Next PROVE RecordsInv'
    <2>1. CASE Write
      BY <1>1, <2>1, WriteKeeps
    <2>2. CASE ClosePeer
      BY <1>1, <2>2 DEF ClosePeer, parsing, results, RecordsInv, RecordsType,
         GivenInv, Split, Stored, Taken, Sent
    <2>3. CASE Read
      BY <1>1, <2>3, TakeStoredKeeps, FirstPieceKeeps DEF Read, ReadStep
    <2>4. CASE Parse
      BY <1>1, <2>4, NothingKeeps, SecondPieceKeeps, RestOfFirstKeeps,
         FirstExtractedKeeps, SplitRecordKeeps, KeepRestKeeps, SplitAllKeeps,
         StoreRecordsKeeps, GiveNothingKeeps, GiveRecordKeeps DEF Parse
    <2>5. CASE UNCHANGED vars
      BY <1>1, <2>5 DEF vars, peer, parsing, results, RecordsInv, RecordsType,
         GivenInv, Split, Stored, Taken, Sent
    <2>6. QED
      BY <1>1, <2>1, <2>2, <2>3, <2>4, <2>5 DEF Next, Over
  <1>2. ASSUME RecordsInv, UNCHANGED vars PROVE RecordsInv'
    BY <1>2 DEF vars, peer, parsing, results, RecordsInv, RecordsType,
       GivenInv, Split, Stored, Taken, Sent
  <1>3. QED
    BY <1>1, <1>2, RecordsStart, PTL DEF Spec

(* However TCP cuts the stream into pieces, and whichever records are put   *)
(* aside by a call, GetApplicationData decrypts every record with the number *)
(* it was encrypted with and gives the data ones once and in order.        *)
THEOREM RecordsAreGivenInOrder == Spec => []GivenInOrder
  <1>1. RecordsInv => GivenInOrder
    <2>. SUFFICES ASSUME RecordsInv PROVE GivenInOrder
      OBVIOUS
    <2>1. at = "record" => RecordAt(Head(newRecords)) = sequenceNumber + 1
      BY CurrentIsNext DEF RecordsInv, Current
    <2>2. QED
      BY <2>1 DEF GivenInOrder, RecordsInv, GivenInv
  <1>2. QED
    BY <1>1, RecordsStay, PTL

-----------------------------------------------------------------------------
(* With pieces of three bytes the first record is split off whole, unless   *)
(* the connection is over.                                                 *)
PiecesInv ==
    /\ at = "first" /\ connected => received >= start + 3
    /\ at = "split" /\ connected => received >= start + HeaderSize
    /\ at = "split" /\ extracted => Begins[sequenceNumber + 2] <= received
    /\ at = "split done" /\ newRecords = <<>> => ~ connected
    /\ at = "none" => ~ connected
    /\ EmptyMeansOver

(* A piece of a record that is being received is three bytes, or it ends    *)
(* with a record.                                                          *)
LEMMA PiecesOfThree ==
  ASSUME RecordsType, RecieveData, connected', MinPiece >= 3,
         NEW k \in Nat, k <= written, NEW b \in Nat, b = Begins[k + 1], b <= received
  PROVE  received' >= received + 3 \/ received' > b + HeaderSize
  <1>1. /\ received' \in Nat /\ received < received' /\ received' <= Sent
        /\ received' >= received + MinPiece \/ received' = Sent
    BY RecieveGives
  <1>2. received \in Nat /\ MinPiece \in Nat /\ written \in 0 .. Len(Records)
    BY RecordsAssumption DEF RecordsType
  <1>3. CASE received' >= received + MinPiece
    BY <1>1, <1>2, <1>3
  <1>4. CASE received' = Sent
    <2>1. b < received' /\ received' <= Begins[written + 1] /\ received' = Begins[written + 1]
      BY <1>1, <1>2, <1>4 DEF Sent
    <2>2. b + HeaderSize < Begins[written + 1]
      BY <1>1, <1>2, <2>1, BeginsSent
    <2>3. QED
      BY <2>1, <2>2, RecordsAre
  <1>5. QED
    BY <1>1, <1>3, <1>4

(* The first call has not given nothing.                                   *)
LEMMA PiecesStart == Init => PiecesInv
  BY DEF Init, PiecesInv, EmptyMeansOver

(* The first record is received to its end, or the connection is lost.     *)
LEMMA PiecesStep ==
  ASSUME MinPiece >= 3, RecordsInv, PiecesInv, Next, RecordsInv'
  PROVE  PiecesInv'
  <1>1. RecordsType /\ (at \in Splits => Split)
    BY DEF RecordsInv
  <1>2. /\ received \in Nat /\ start \in Nat /\ offset \in Nat
        /\ sequenceNumber \in Nat /\ written \in Nat /\ previous \in Nat
        /\ previous <= received /\ newRecords \in Seq(Nat)
    BY <1>1, LengthsAre
  <1>3. CASE Write
    BY <1>3 DEF Write, PiecesInv, EmptyMeansOver, parsing, results
  <1>4. CASE ClosePeer
    BY <1>4 DEF ClosePeer, PiecesInv, EmptyMeansOver, parsing, results
  <1>5. CASE ~ empty /\ TakeStored
    BY <1>5 DEF TakeStored, Goto, PiecesInv, EmptyMeansOver, results
  <1>6. CASE ~ empty /\ FirstPiece
    <2>1. /\ at = "idle" /\ at' = "first" /\ storedRecords = <<>>
          /\ start' = previous /\ RecieveData /\ ~ empty'
      BY <1>6 DEF FirstPiece, Goto, results
    <2>2. connected' => received' >= previous + 3
      <3>. SUFFICES ASSUME connected' PROVE received' >= previous + 3
        OBVIOUS
      <3>1. previous = Begins[sequenceNumber + 1] /\ sequenceNumber <= written
        <4>1. Stored(sequenceNumber) /\ sequenceNumber + 0 = sequenceNumber
          BY <1>2, <1>6, <2>1 DEF RecordsInv
        <4>2. QED
          BY <2>1, <4>1 DEF Stored, RecordsInv
      <3>2. received' >= received + 3 \/ received' > previous + HeaderSize
        BY <1>1, <1>2, <2>1, <3>1, PiecesOfThree
      <3>3. received' \in Nat
        BY <1>1, <2>1, RecieveGives
      <3>4. QED
        BY <1>2, <3>2, <3>3, RecordsAre
    <2>3. QED
      BY <2>1, <2>2 DEF PiecesInv, EmptyMeansOver
  <1>7. CASE Nothing
    <2>1. /\ at = "first" /\ at' = "none" /\ Size = 0 /\ connected' = connected
          /\ empty' = empty
      BY <1>7 DEF Nothing, Goto, results
    <2>2. ~ (received >= start + 3)
      BY <1>2, <2>1 DEF Size
    <2>3. ~ connected
      BY <2>1, <2>2 DEF PiecesInv
    <2>4. QED
      BY <2>1, <2>3 DEF PiecesInv, EmptyMeansOver
  <1>8. CASE SecondPiece
    <2>1. /\ at = "first" /\ at' = "split" /\ extracted' = extracted
          /\ start' = start /\ empty' = empty
      BY <1>8 DEF SecondPiece, Goto, parsing, results
    <2>2. ~ extracted /\ ~ empty
      BY <1>1, <2>1 DEF Split, Splits, RecordsInv
    <2>3. connected' => received' >= start + HeaderSize
      <3>1. CASE Size >= HeaderSize /\ received' = received
        BY <1>2, <3>1, RecordsAre DEF Size
      <3>2. CASE RecieveData
        <4>. SUFFICES ASSUME connected' PROVE received' >= start + HeaderSize
          OBVIOUS
        <4>1. connected /\ received' \in Nat
          BY <1>1, <3>2, RecieveGives
        <4>2. received >= start + 3
          BY <2>1, <4>1 DEF PiecesInv
        <4>3. /\ start = Begins[sequenceNumber + 1] /\ sequenceNumber <= written
              /\ start <= received
          BY <1>1, <1>2, <2>1, <4>2 DEF Split, Splits, RecordsInv
        <4>4. received' >= received + 3 \/ received' > start + HeaderSize
          BY <1>1, <1>2, <3>2, <4>3, PiecesOfThree
        <4>5. QED
          BY <1>2, <4>1, <4>2, <4>4, RecordsAre
      <3>3. QED
        BY <1>8, <3>1, <3>2 DEF SecondPiece
    <2>4. QED
      BY <2>1, <2>2, <2>3 DEF PiecesInv, EmptyMeansOver
  <1>9. CASE RestOfFirst
    <2>1. /\ at = "split" /\ connected /\ ~ extracted /\ RecieveData
          /\ at' = IF connected' THEN at ELSE "none"
          /\ start' = start /\ extracted' = extracted /\ empty' = empty
      BY <1>9 DEF RestOfFirst, Splitting, parsing, results
    <2>2. received >= start + HeaderSize /\ ~ empty
      BY <2>1 DEF PiecesInv, RecordsInv
    <2>3. received' \in Nat /\ received' >= received
      BY <1>1, <1>2, <2>1, RecieveGives
    <2>4. received' >= start + HeaderSize
      BY <1>2, <2>2, <2>3, RecordsAre
    <2>5. QED
      BY <2>1, <2>2, <2>4 DEF PiecesInv, EmptyMeansOver
  <1>10. CASE FirstExtracted
    <2>1. /\ at = "split" /\ at' = "split" /\ connected /\ FirstIsComplete /\ ~ extracted
          /\ start' = start /\ received' = received /\ connected' = connected
          /\ sequenceNumber' = sequenceNumber /\ empty' = empty
      BY <1>10 DEF FirstExtracted, Splitting, results
    <2>2. received >= start + HeaderSize /\ ~ empty
      BY <2>1 DEF PiecesInv, RecordsInv
    <2>3. Split /\ newRecords = <<>>
      BY <1>1, <2>1 DEF Splits, Split
    <2>4. offset = Begins[sequenceNumber + 1] /\ start = offset /\ start < received
      <3>1. sequenceNumber + Len(newRecords) = sequenceNumber
        BY <1>2, <2>3
      <3>2. QED
        BY <2>1, <2>3, <3>1 DEF Split
    <2>5. Begins[sequenceNumber + 2] = start + HeaderSize + SizeAt(start) /\ SizeAt(start) \in Nat
      <3>1. sequenceNumber + Len(newRecords) = sequenceNumber
        BY <1>2, <2>3
      <3>2. QED
        BY <1>1, <2>3, <2>4, <3>1, NextIsARecord
    <2>6. Begins[sequenceNumber + 2] <= received
      BY <1>2, <2>1, <2>2, <2>5, RecordsAre DEF FirstIsComplete, Size
    <2>7. QED
      BY <2>1, <2>2, <2>6 DEF PiecesInv, EmptyMeansOver
  <1>11. CASE SplitRecord
    <2>1. /\ at = "split" /\ at' = "split" /\ extracted /\ connected /\ connected'
          /\ start' = start /\ received' = received
          /\ sequenceNumber' = sequenceNumber /\ empty' = empty
      BY <1>11 DEF SplitRecord, Splitting, results
    <2>2. ~ empty
      BY <2>1 DEF RecordsInv
    <2>3. QED
      BY <2>1, <2>2 DEF PiecesInv, EmptyMeansOver
  <1>12. CASE KeepRest
    <2>1. /\ at = "split" /\ at' = "split done" /\ extracted /\ offset < received
          /\ ~ IsWhole /\ newRecords' = newRecords
          /\ connected' = connected /\ empty' = empty
      BY <1>12 DEF KeepRest, Splitting, parsing, results
    <2>2. Split /\ ~ empty /\ Begins[sequenceNumber + 2] <= received
      BY <1>1, <2>1 DEF Splits, PiecesInv, RecordsInv
    <2>3. newRecords # <<>>
      <3>. SUFFICES ASSUME newRecords = <<>> PROVE FALSE
        OBVIOUS
      <3>1. sequenceNumber + Len(newRecords) = sequenceNumber
        BY <1>2
      <3>2. Begins[sequenceNumber + 2] = offset + HeaderSize + SizeAt(offset) /\ SizeAt(offset) \in Nat
        BY <1>1, <2>1, <2>2, <3>1, NextIsARecord
      <3>. DEFINE s == SizeAt(offset)
      <3>3. received >= offset + 5 + s /\ s \in Nat
        BY <2>2, <3>2, RecordsAre
      <3>4. ~ (received - offset >= 5 /\ received - offset >= 5 + s)
        BY <2>1, RecordsAre DEF IsWhole
      <3>. HIDE DEF s
      <3>5. QED
        BY <1>2, <3>3, <3>4
    <2>4. QED
      BY <2>1, <2>2, <2>3 DEF PiecesInv, EmptyMeansOver
  <1>13. CASE SplitAll
    <2>1. /\ at = "split" /\ at' = "split done" /\ ~ (offset < received /\ connected)
          /\ newRecords' = newRecords /\ connected' = connected /\ empty' = empty
      BY <1>13 DEF SplitAll, parsing, results
    <2>2. Split /\ ~ empty
      BY <1>1, <2>1 DEF Splits, RecordsInv
    <2>3. newRecords = <<>> => ~ connected
      <3>. SUFFICES ASSUME newRecords = <<>> PROVE ~ connected
        OBVIOUS
      <3>1. sequenceNumber + Len(newRecords) = sequenceNumber
        BY <1>2
      <3>2. offset = start /\ start < received
        BY <2>1, <2>2, <3>1 DEF Split
      <3>3. QED
        BY <2>1, <3>2
    <2>4. QED
      BY <2>1, <2>2, <2>3 DEF PiecesInv, EmptyMeansOver
  <1>14. CASE StoreRecords
    <2>1. /\ at = "split done" /\ ((at' = "none" /\ newRecords = <<>>) \/ at' = "record")
          /\ connected' = connected /\ empty' = empty
      BY <1>14 DEF StoreRecords, results
    <2>2. QED
      BY <2>1 DEF PiecesInv, EmptyMeansOver, RecordsInv
  <1>15. CASE GiveNothing
    BY <1>15 DEF GiveNothing, Goto, PiecesInv, EmptyMeansOver
  <1>16. CASE GiveRecord
    <2>1. at = "record" /\ at' = "idle" /\ ~ empty
      BY <1>16 DEF GiveRecord, Goto, RecordsInv
    <2>2. empty' => ~ isConnected'
      BY <1>16, <2>1 DEF GiveRecord
    <2>3. QED
      BY <2>1, <2>2 DEF PiecesInv, EmptyMeansOver
  <1>17. CASE UNCHANGED vars
    BY <1>17 DEF vars, parsing, results, PiecesInv, EmptyMeansOver
  <1>18. QED
    BY <1>3, <1>4, <1>5, <1>6, <1>7, <1>8, <1>9, <1>10, <1>11, <1>12, <1>13,
       <1>14, <1>15, <1>16, <1>17 DEF Next, Read, ReadStep, Parse, Over

(* If recv returns three bytes or more while there are as many, as the two  *)
(* calls made for a header's five suppose, a call that gives nothing means *)
(* that the connection is over.                                            *)
THEOREM EmptyEndsTheConnection ==
  ASSUME MinPiece >= 3
  PROVE  Spec => []EmptyMeansOver
  <1>1. Init => RecordsInv /\ PiecesInv
    BY RecordsStart, PiecesStart
  <1>2. PiecesInv => EmptyMeansOver
    BY DEF PiecesInv
  <1>3. RecordsInv /\ PiecesInv /\ Next /\ RecordsInv' => PiecesInv'
    BY PiecesStep
  <1>4. ASSUME PiecesInv, UNCHANGED vars PROVE PiecesInv'
    BY <1>4 DEF vars, parsing, results, PiecesInv, EmptyMeansOver
  <1>5. QED
    BY <1>1, <1>2, <1>3, <1>4, RecordsStay, PTL DEF Spec
=============================================================================
