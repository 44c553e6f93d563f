--------------------------- MODULE HttpServer_proof ---------------------------
(***************************************************************************)
(* Proofs about HttpServer, for any number of connections and any requests.*)
(* The first part is about the threads of HttpConnections, the second      *)
(* about what HttpRequests takes off a connection.                         *)
(***************************************************************************)
EXTENDS HttpServer, Integers, TLAPS, SequenceTheorems, WellFoundedInduction

-----------------------------------------------------------------------------
(* The threads.                                                            *)

ConnectionsType ==
    /\ acceptor \in {"accept", "add", "launch", "assign"} /\ deaf \in BOOLEAN
    /\ lastHandle \in 0 .. MaxConnections
    /\ active \in SUBSET Handles /\ toRemove \in Seq(Handles)
    /\ object \in [Handles -> {"none", "empty", "joinable", "destroyed"}]
    /\ conn \in [Handles -> {"none", "serving", "removing", "notifying", "ended"}]
    /\ worker \in {"top", "waiting", "woken", "locked", "joining", "terminated"}
    /\ joining \in 0 .. MaxConnections

(* How far StartListening has got with each handle. *)
HandlesAreMade ==
    /\ acceptor = "add" => lastHandle < MaxConnections
    /\ acceptor \in {"launch", "assign"} => lastHandle > 0
    /\ \A h \in Handles :
          /\ h > lastHandle => object[h] = "none" /\ conn[h] = "none"
          /\ h = lastHandle /\ acceptor = "launch"
                => object[h] = "empty" /\ conn[h] = "none"
          /\ h = lastHandle /\ acceptor = "assign"
                => object[h] = "empty" /\ conn[h] # "none"
          /\ h < lastHandle \/ (h = lastHandle /\ acceptor \in {"accept", "add"})
                => object[h] \in {"joinable", "destroyed"} /\ conn[h] # "none"

(* A handle to be removed is that of a thread which is about to end, and is *)
(* either in the stack or with the worker.                                 *)
Leaving(h) == conn[h] \in {"notifying", "ended"}
RemovedHaveServed ==
    /\ \A i \in 1 .. Len(toRemove) : Leaving(toRemove[i])
    /\ worker = "joining" =>
          /\ joining \in active /\ Leaving(joining)
          /\ \A i \in 1 .. Len(toRemove) : toRemove[i] # joining

(* A thread that has still to put its handle on the stack has its object.  *)
DestroyedServed ==
    \A h \in Handles : object[h] = "destroyed" => conn[h] = "ended"

ConnectionsInv == /\ ConnectionsType /\ HandlesAreMade /\ RemovedHaveServed
                  /\ DestroyedServed /\ RemovedOnce

(* The empty server has nothing to remove. *)
LEMMA ConnectionsInitially == ConnectionsInit => ConnectionsInv
  <1>. SUFFICES ASSUME ConnectionsInit PROVE ConnectionsInv
    OBVIOUS
  <1>. USE ConnectionsAssumption DEF ConnectionsInit, Handles
  <1>1. toRemove = << >> /\ Len(toRemove) = 0 /\ toRemove \in Seq(Handles)
    OBVIOUS
  <1>2. \A h \in Handles : object[h] = "none" /\ conn[h] = "none" /\ h > lastHandle
    OBVIOUS
  <1>3. ConnectionsType /\ HandlesAreMade /\ DestroyedServed
    <2>1. object \in [Handles -> {"none"}] /\ conn \in [Handles -> {"none"}]
      OBVIOUS
    <2>2. deaf \in BOOLEAN /\ active \in SUBSET Handles
      OBVIOUS
    <2>3. ConnectionsType
      BY <1>1, <2>1, <2>2 DEF ConnectionsType
    <2>4. HandlesAreMade /\ DestroyedServed
      BY <1>2 DEF HandlesAreMade, DestroyedServed
    <2>5. QED
      BY <2>3, <2>4
  <1>4. RemovedHaveServed /\ RemovedOnce
    BY <1>1, <1>2 DEF RemovedHaveServed, RemovedOnce
  <1>5. QED
    BY <1>3, <1>4 DEF ConnectionsInv

USE DEF Handles

(* StartListening adds, launches and assigns a thread for a handle of its  *)
(* own.                                                                    *)
LEMMA StartListeningStep ==
  ASSUME ConnectionsInv, Accept \/ AcceptFails \/ AcceptorStep
  PROVE  ConnectionsInv'
  <1>. USE ConnectionsAssumption
       DEF ConnectionsInv, acceptorVars, workerVars
  <1>1. ASSUME Accept PROVE ConnectionsInv'
    BY <1>1 DEF Accept, ConnectionsType, HandlesAreMade, RemovedHaveServed, Leaving,
                DestroyedServed, RemovedOnce
  <1>2. ASSUME AcceptFails PROVE ConnectionsInv'
    BY <1>2 DEF AcceptFails, ConnectionsType, HandlesAreMade, RemovedHaveServed, Leaving,
                DestroyedServed, RemovedOnce
  <1>3. ASSUME AddConnection PROVE ConnectionsInv'
    <2>1. ConnectionsType' /\ lastHandle' \in Handles
      BY <1>3 DEF AddConnection, ConnectionsType, HandlesAreMade
    <2>2. HandlesAreMade'
      BY <1>3, <2>1 DEF AddConnection, ConnectionsType, HandlesAreMade
    <2>3. object[lastHandle'] = "none" /\ conn[lastHandle'] = "none"
      BY <1>3, <2>1 DEF AddConnection, ConnectionsType, HandlesAreMade
    <2>4. RemovedHaveServed' /\ DestroyedServed' /\ RemovedOnce'
      BY <1>3, <2>1, <2>3
      DEF AddConnection, MutexFree, ConnectionsType, RemovedHaveServed, Leaving,
          DestroyedServed, RemovedOnce
    <2>5. QED
      BY <2>1, <2>2, <2>4
  <1>4. ASSUME Launch PROVE ConnectionsInv'
    <2>1. ConnectionsType' /\ HandlesAreMade' /\ conn[lastHandle] = "none"
          /\ object[lastHandle] = "empty"
      BY <1>4 DEF Launch, ConnectionsType, HandlesAreMade
    <2>2. RemovedHaveServed' /\ DestroyedServed' /\ RemovedOnce'
      BY <1>4, <2>1
      DEF Launch, ConnectionsType, RemovedHaveServed, Leaving, DestroyedServed, RemovedOnce
    <2>3. QED
      BY <2>1, <2>2
  <1>5. ASSUME Assign PROVE ConnectionsInv'
    <2>1. ConnectionsType' /\ HandlesAreMade' /\ object[lastHandle] = "empty"
          /\ lastHandle \in Handles
      BY <1>5 DEF Assign, ConnectionsType, HandlesAreMade
    <2>2. RemovedHaveServed' /\ DestroyedServed' /\ RemovedOnce'
      BY <1>5, <2>1
      DEF Assign, ConnectionsType, RemovedHaveServed, Leaving, DestroyedServed, RemovedOnce
    <2>3. QED
      BY <2>1, <2>2
  <1>6. QED
    BY <1>1, <1>2, <1>3, <1>4, <1>5 DEF AcceptorStep

(* A thread puts its handle on the stack once, when it has served.         *)
LEMMA ThreadEndsStep ==
  ASSUME ConnectionsInv, NEW h \in Handles, EndServing(h) \/ RemoveStep(h)
  PROVE  ConnectionsInv'
  <1>. USE ConnectionsAssumption
       DEF ConnectionsInv, acceptorVars, workerVars
  <1>1. ASSUME EndServing(h) PROVE ConnectionsInv'
    BY <1>1 DEF EndServing, ConnectionsType, HandlesAreMade, RemovedHaveServed, Leaving,
                DestroyedServed, RemovedOnce
  <1>2. ASSUME RemoveConnection(h) PROVE ConnectionsInv'
    <2>1. /\ Len(toRemove') = Len(toRemove) + 1 /\ toRemove'[1] = h
          /\ \A i \in 2 .. Len(toRemove') : toRemove'[i] = toRemove[i - 1]
      BY <1>2 DEF RemoveConnection, ConnectionsType
    <2>2. ConnectionsType' /\ HandlesAreMade'
      BY <1>2 DEF RemoveConnection, ConnectionsType, HandlesAreMade
    <2>3. \A i \in 1 .. Len(toRemove) : toRemove[i] # h
      BY <1>2 DEF RemoveConnection, RemovedHaveServed, Leaving
    <2>4. h \in active
      <3>1. object[h] # "destroyed" /\ conn[h] # "none"
        BY <1>2 DEF RemoveConnection, DestroyedServed
      <3>2. object[h] \in {"empty", "joinable"}
        BY <3>1 DEF ConnectionsType, HandlesAreMade
      <3>3. QED
        BY <3>2 DEF RemovedOnce
    <2>5. RemovedHaveServed'
      BY <1>2, <2>1, <2>2 DEF RemoveConnection, MutexFree, ConnectionsType, RemovedHaveServed, Leaving
    <2>6. DestroyedServed'
      BY <1>2 DEF RemoveConnection, ConnectionsType, DestroyedServed
    <2>7. RemovedOnce'
      <3>1. active' = {g \in Handles : object'[g] \in {"empty", "joinable"}}
        BY <1>2 DEF RemoveConnection, RemovedOnce
      <3>2. ASSUME NEW i \in 1 .. Len(toRemove'), i # 1
            PROVE  /\ i - 1 \in 1 .. Len(toRemove) /\ toRemove'[i] = toRemove[i - 1]
                   /\ toRemove'[i] # h /\ toRemove'[i] \in active
        BY <2>1, <2>3, <3>2 DEF ConnectionsType, RemovedOnce
      <3>3. ASSUME NEW i \in 1 .. Len(toRemove'), NEW j \in 1 .. Len(toRemove'),
                   toRemove'[i] = toRemove'[j]
            PROVE  i = j
        <4>1. CASE i = 1 \/ j = 1
          BY <2>1, <3>2, <3>3, <4>1
        <4>2. CASE i # 1 /\ j # 1
          <5>1. toRemove[i - 1] = toRemove[j - 1]
            BY <3>2, <3>3, <4>2
          <5>2. i - 1 = j - 1
            BY <3>2, <4>2, <5>1 DEF RemovedOnce
          <5>3. QED
            BY <5>2
        <4>3. QED
          BY <4>1, <4>2
      <3>4. \A i \in 1 .. Len(toRemove') : toRemove'[i] \in active'
        BY <1>2, <2>1, <2>4, <3>2 DEF RemoveConnection
      <3>5. QED
        BY <3>1, <3>3, <3>4 DEF RemovedOnce
    <2>8. QED
      BY <2>2, <2>5, <2>6, <2>7
  <1>3. ASSUME Notify(h) PROVE ConnectionsInv'
    BY <1>3 DEF Notify, ConnectionsType, HandlesAreMade, RemovedHaveServed, Leaving,
                DestroyedServed, RemovedOnce
  <1>4. QED
    BY <1>1, <1>2, <1>3 DEF RemoveStep

(* The worker takes handles off the stack and destroys the objects of      *)
(* threads that have ended.                                                *)
LEMMA WorkerKeeps ==
  ASSUME ConnectionsInv, WorkerStep \/ SpuriousWakeup
  PROVE  ConnectionsInv'
  <1>. USE ConnectionsAssumption
       DEF ConnectionsInv, acceptorVars, workerVars
  <1>1. ASSUME Lock \/ Unlock \/ JoinEmpty \/ SpuriousWakeup PROVE ConnectionsInv'
    BY <1>1 DEF Lock, Unlock, JoinEmpty, SpuriousWakeup, ConnectionsType, HandlesAreMade,
                RemovedHaveServed, Leaving, DestroyedServed, RemovedOnce
  <1>2. ASSUME Pop PROVE ConnectionsInv'
    <2>1. /\ toRemove' \in Seq(Handles) /\ Len(toRemove') = Len(toRemove) - 1
          /\ \A i \in 1 .. Len(toRemove') : toRemove'[i] = toRemove[i + 1]
          /\ 1 \in 1 .. Len(toRemove) /\ Head(toRemove) = toRemove[1]
          /\ toRemove[1] \in Handles
      BY <1>2 DEF Pop, ConnectionsType
    <2>2. ConnectionsType' /\ HandlesAreMade' /\ DestroyedServed'
      BY <1>2, <2>1 DEF Pop, ConnectionsType, HandlesAreMade, DestroyedServed
    <2>3. toRemove[1] \in active /\ Leaving(toRemove[1])
      BY <2>1 DEF RemovedOnce, RemovedHaveServed
    <2>4. \A i \in 1 .. Len(toRemove') : toRemove'[i] # toRemove[1]
      <3>1. ASSUME NEW i \in 1 .. Len(toRemove')
            PROVE  i + 1 \in 1 .. Len(toRemove) /\ i + 1 # 1
        BY <2>1 DEF ConnectionsType
      <3>2. QED
        BY <2>1, <3>1 DEF RemovedOnce
    <2>5. RemovedHaveServed'
      BY <1>2, <2>1, <2>3, <2>4 DEF Pop, RemovedHaveServed, Leaving, ConnectionsType
    <2>6. RemovedOnce'
      <3>1. ASSUME NEW i \in 1 .. Len(toRemove'), NEW j \in 1 .. Len(toRemove'),
                   toRemove'[i] = toRemove'[j]
            PROVE  i = j
        <4>1. i + 1 \in 1 .. Len(toRemove) /\ j + 1 \in 1 .. Len(toRemove)
          BY <2>1 DEF ConnectionsType
        <4>2. i + 1 = j + 1
          BY <2>1, <3>1, <4>1 DEF RemovedOnce
        <4>3. QED
          BY <4>2
      <3>2. QED
        BY <1>2, <2>1, <3>1 DEF Pop, RemovedOnce, ConnectionsType
    <2>7. QED
      BY <2>2, <2>5, <2>6
  <1>3. ASSUME Join PROVE ConnectionsInv'
    <2>1. joining \in Handles
      BY <1>3 DEF Join, ConnectionsType, RemovedHaveServed
    <2>2. ConnectionsType' /\ HandlesAreMade' /\ DestroyedServed'
      BY <1>3, <2>1 DEF Join, ConnectionsType, HandlesAreMade, DestroyedServed
    <2>3. RemovedHaveServed' /\ RemovedOnce'
      BY <1>3, <2>1 DEF Join, ConnectionsType, RemovedHaveServed, Leaving, RemovedOnce
    <2>4. QED
      BY <2>2, <2>3
  <1>4. QED
    BY <1>1, <1>2, <1>3 DEF WorkerStep

(* Every step of the threads keeps the invariant.                          *)
LEMMA ConnectionsStep == ConnectionsInv /\ [Next]_vars => ConnectionsInv'
  <1>. SUFFICES ASSUME ConnectionsInv, [Next]_vars PROVE ConnectionsInv'
    OBVIOUS
  <1>1. ASSUME UNCHANGED connectionVars PROVE ConnectionsInv'
    BY <1>1 DEF connectionVars, acceptorVars, workerVars, ConnectionsInv, ConnectionsType,
                HandlesAreMade, RemovedHaveServed, Leaving, DestroyedServed, RemovedOnce
  <1>2. ASSUME Connections PROVE ConnectionsInv'
    BY <1>2, StartListeningStep, WorkerKeeps DEF Connections
  <1>3. ASSUME NEW h \in Handles, ThreadStep(h) \/ Client(h) PROVE ConnectionsInv'
    BY <1>1, <1>3, ThreadEndsStep DEF ThreadStep, Serve, Served, Client
  <1>4. QED
    BY <1>1, <1>2, <1>3 DEF Next, Over, vars

(* What the handler's two structures and the threads' objects agree on,    *)
(* however many connections there are.                                     *)
THEOREM ConnectionsInvariant == Spec => []ConnectionsInv
  <1>1. Init => ConnectionsInv
    BY ConnectionsInitially DEF Init
  <1>2. QED
    BY <1>1, ConnectionsStep, PTL DEF Spec

(* HTTPServer_ConnectionHandler removes every connection once: no handle   *)
(* is on the stack twice, and none of them is of a thread whose object is  *)
(* destroyed.                                                              *)
THEOREM ConnectionsAreRemovedOnce == Spec => []RemovedOnce
  <1>1. ConnectionsInv => RemovedOnce
    BY DEF ConnectionsInv
  <1>2. QED
    BY <1>1, ConnectionsInvariant, PTL

-----------------------------------------------------------------------------
(* Induction, from what the library says of the order of the numbers.      *)

(* A set of numbers has a least one.                                       *)
LEMMA HasLeast ==
  ASSUME NEW T \in SUBSET Nat, T # {}
  PROVE  \E x \in T : \A y \in T : x <= y
  <1>. DEFINE R == {p \in Nat \X Nat : p[1] < p[2]}
  <1>1. IsWellFoundedOn(R, Nat)
    BY NatLessThanWellFounded DEF OpToRel
  <1>2. PICK x \in T : \A y \in T : ~ (<<y, x>> \in R)
    <2>. HIDE DEF R
    <2>. QED
      BY <1>1, WFMin
  <1>3. \A y \in T : <<y, x>> \in R <=> y < x
    OBVIOUS
  <1>4. \A y \in T : ~ (y < x)
    BY <1>2, <1>3
  <1>5. QED
    BY <1>4

(* Induction up to a number, over a set instead of a predicate.            *)
LEMMA InductionUpTo ==
  ASSUME NEW L \in Nat, NEW S, 0 \in S,
         \A m \in 1 .. L : m - 1 \in S => m \in S
  PROVE  \A m \in 0 .. L : m \in S
  <1>. DEFINE T == {m \in 0 .. L : m \notin S}
  <1>1. SUFFICES ASSUME T # {} PROVE FALSE
    OBVIOUS
  <1>2. T \in SUBSET Nat
    OBVIOUS
  <1>3. PICK x \in T : \A y \in T : x <= y
    BY <1>1, <1>2, HasLeast
  <1>4. x \in 1 .. L /\ x - 1 \in 0 .. L /\ x - 1 \notin T
    BY <1>3
  <1>5. QED
    BY <1>4

(* The places where the requests of a stream end.                          *)
Adds(f, m, bodies) ==
    f = [i \in 0 .. m |-> IF i = 0 THEN 0 ELSE f[i - 1] + HeaderLength + bodies[i]]

(* Adding up the lengths of the requests is a function.                    *)
LEMMA SumsExist ==
  ASSUME NEW L \in Nat, NEW bodies \in [1 .. L -> Nat]
  PROVE  \E f \in [0 .. L -> Nat] : Adds(f, L, bodies)
  <1>. DEFINE S == {m \in 0 .. L : \E f \in [0 .. m -> Nat] : Adds(f, m, bodies)}
  <1>1. 0 \in S
    <2>1. Adds([i \in 0 .. 0 |-> 0], 0, bodies)
      BY DEF Adds
    <2>2. QED
      BY <2>1
  <1>2. ASSUME NEW m \in 1 .. L, m - 1 \in S PROVE m \in S
    <2>1. PICK f \in [0 .. m - 1 -> Nat] : Adds(f, m - 1, bodies)
      BY <1>2
    <2>2. \A i \in 0 .. m - 1 : f[i] = IF i = 0 THEN 0 ELSE f[i - 1] + HeaderLength + bodies[i]
      BY <2>1 DEF Adds
    <2>. DEFINE g == [i \in 0 .. m |-> IF i = m THEN f[m - 1] + HeaderLength + bodies[m]
                                       ELSE f[i]]
    <2>3. g \in [0 .. m -> Nat]
      BY DEF HeaderLength
    <2>4. \A i \in 0 .. m : g[i] = IF i = 0 THEN 0 ELSE g[i - 1] + HeaderLength + bodies[i]
      <3>. TAKE i \in 0 .. m
      <3>1. CASE i = m
        BY <3>1
      <3>2. CASE i # m
        BY <3>2, <2>2
      <3>3. QED
        BY <3>1, <3>2
    <2>5. Adds(g, m, bodies)
      BY <2>4 DEF Adds
    <2>. HIDE DEF g
    <2>6. m \in 0 .. L
      OBVIOUS
    <2>7. \E h \in [0 .. m -> Nat] : Adds(h, m, bodies)
      BY <2>3, <2>5, Zenon
    <2>8. QED
      BY <2>6, <2>7
  <1>. HIDE DEF S
  <1>3. \A m \in 0 .. L : m \in S
    BY <1>1, <1>2, InductionUpTo
  <1>4. L \in S
    BY <1>3
  <1>5. QED
    BY <1>4 DEF S

(* Ends is what it is defined to be: the requests follow each other.       *)
LEMMA EndsAreSums ==
  ASSUME NEW c \in Clients
  PROVE  /\ Bodies[c] \in Seq(Nat)
         /\ Ends[c] \in [0 .. Len(Bodies[c]) -> Nat]
         /\ Ends[c][0] = 0
         /\ \A i \in Requests(c) : Ends[c][i] = Ends[c][i - 1] + HeaderLength + Bodies[c][i]
  <1>. DEFINE L == Len(Bodies[c])
              E == Ends[c]
  <1>1. L \in Nat /\ Bodies[c] \in [1 .. L -> Nat] /\ Bodies[c] \in Seq(Nat)
    BY HttpAssumption
  <1>2. E = CHOOSE f : Adds(f, L, Bodies[c])
    BY DEF Ends, Adds
  <1>. HIDE DEF L, E
  <1>3. \E f : Adds(f, L, Bodies[c])
    BY <1>1, SumsExist
  <1>4. Adds(E, L, Bodies[c])
    BY <1>2, <1>3
  <1>5. \A i \in 0 .. L : E[i] = IF i = 0 THEN 0 ELSE E[i - 1] + HeaderLength + Bodies[c][i]
    BY <1>4 DEF Adds
  <1>6. \A m \in 0 .. L : m \in {i \in 0 .. L : E[i] \in Nat}
    <2>. DEFINE S == {i \in 0 .. L : E[i] \in Nat}
    <2>1. 0 \in S
      BY <1>1, <1>5
    <2>2. ASSUME NEW m \in 1 .. L, m - 1 \in S PROVE m \in S
      <3>1. m \in 0 .. L /\ m # 0 /\ E[m - 1] \in Nat /\ Bodies[c][m] \in Nat
        BY <1>1, <2>2
      <3>2. E[m] = E[m - 1] + HeaderLength + Bodies[c][m]
        BY <1>5, <3>1
      <3>3. QED
        BY <3>1, <3>2 DEF HeaderLength
    <2>. HIDE DEF S
    <2>3. \A m \in 0 .. L : m \in S
      BY <1>1, <2>1, <2>2, InductionUpTo
    <2>4. QED
      BY <2>3 DEF S
  <1>7. E \in [0 .. L -> Nat]
    <2>1. E = [i \in 0 .. L |-> E[i]]
      BY <1>4 DEF Adds
    <2>2. \A i \in 0 .. L : E[i] \in Nat
      BY <1>6
    <2>3. QED
      BY <2>1, <2>2, Zenon
  <1>8. E[0] = 0
    BY <1>1, <1>5
  <1>9. ASSUME NEW i \in 1 .. L
        PROVE  E[i] = E[i - 1] + HeaderLength + Bodies[c][i]
    <2>1. i \in 0 .. L /\ i # 0
      BY <1>1
    <2>2. QED
      BY <1>5, <2>1
  <1>10. QED
    BY <1>1, <1>7, <1>8, <1>9 DEF L, E, Requests

(* A later request ends at least a header further on.                      *)
LEMMA EndsIncrease ==
  ASSUME NEW c \in Clients, NEW i \in 0 .. Len(Bodies[c]), NEW j \in 0 .. Len(Bodies[c]), i < j
  PROVE  Ends[c][i] + HeaderLength <= Ends[c][j]
  <1>. DEFINE L == Len(Bodies[c])
              E == Ends[c]
              S == {m \in 0 .. L : \A k \in 0 .. L : k < m => E[k] + HeaderLength <= E[m]}
  <1>1. /\ L \in Nat /\ Bodies[c] \in [1 .. L -> Nat] /\ E \in [0 .. L -> Nat]
        /\ \A m \in 1 .. L : E[m] = E[m - 1] + HeaderLength + Bodies[c][m]
    BY EndsAreSums DEF Requests
  <1>2. 0 \in S
    BY <1>1
  <1>3. ASSUME NEW m \in 1 .. L, m - 1 \in S PROVE m \in S
    <2>0. m - 1 \in 0 .. L /\ m \in 0 .. L
      BY <1>1
    <2>1. E[m - 1] \in Nat /\ Bodies[c][m] \in Nat /\ E[m] \in Nat
      BY <1>1, <2>0
    <2>2. E[m] >= E[m - 1] + HeaderLength
      BY <1>1, <2>1 DEF HeaderLength
    <2>3. ASSUME NEW k \in 0 .. L, k < m PROVE E[k] + HeaderLength <= E[m]
      <3>1. CASE k = m - 1
        BY <2>2, <3>1
      <3>2. CASE k < m - 1
        <4>1. E[k] + HeaderLength <= E[m - 1] /\ E[k] \in Nat
          BY <1>1, <1>3, <3>2
        <4>2. E[k] \in Nat /\ E[k] + HeaderLength <= E[m - 1] /\ E[m - 1] + HeaderLength <= E[m]
          BY <2>1, <2>2, <4>1 DEF HeaderLength
        <4>. HIDE DEF E
        <4>3. QED
          BY <2>1, <4>2 DEF HeaderLength
      <3>3. QED
        BY <2>3, <3>1, <3>2
    <2>4. QED
      BY <2>3
  <1>. HIDE DEF S
  <1>4. j \in S
    BY <1>1, <1>2, <1>3, InductionUpTo
  <1>5. QED
    BY <1>4 DEF S

-----------------------------------------------------------------------------
(* The requests.                                                           *)

RequestType ==
    /\ sent \in [Clients -> Nat] /\ open \in [Clients -> BOOLEAN]
    /\ answered \in [Clients -> Seq(Nat)]
    /\ at \in [Clients -> {"start", "loop", "receive", "returned", "header", "handle",
                           "drain", "respond", "over", "failed"}]
    /\ caller \in [Clients -> {"loop", "header", "drain"}]
    /\ connected \in [Clients -> BOOLEAN]
    /\ received \in [Clients -> Nat] /\ base \in [Clients -> Nat]
    /\ from \in [Clients -> Nat] /\ length \in [Clients -> Nat]
    /\ header \in [Clients -> Int] /\ current \in [Clients -> Int]
    /\ parsed \in [Clients -> Int]

Answers(c) == Len(answered[c])
Start(c) == Ends[c][Answers(c)]          \* where the request to be answered begins
End(c) == Ends[c][Answers(c) + 1]
Body(c) == Bodies[c][Answers(c) + 1]

(* The request has been received up to received[c], and what is left of    *)
(* its body is known.                                                      *)
Inside(c) == /\ Start(c) + HeaderLength <= received[c] /\ received[c] < End(c)
             /\ current[c] = Body(c)
             /\ parsed[c] = received[c] - Start(c) - HeaderLength
AtEnd(c) == received[c] = End(c) /\ current[c] = 0 /\ parsed[c] = 0
HasRequest(c) == base[c] = Start(c) /\ Answers(c) < Len(Bodies[c])

(* A call from the loop receives a header, and perhaps some of the body.    *)
Fetching(c) ==
    /\ from[c] = Start(c) /\ base[c] = Start(c) /\ current[c] = 0 /\ parsed[c] = 0
    /\ \/ received[c] = Start(c) /\ length[c] = 0
       \/ /\ Answers(c) < Len(Bodies[c])
          /\ Start(c) + HeaderLength <= received[c] /\ received[c] < End(c)
          /\ length[c] = Body(c) /\ length[c] # 0 /\ header[c] = HeaderLength
Draining(c) ==
    /\ HasRequest(c) /\ Start(c) + HeaderLength <= from[c]
    /\ from[c] <= received[c] /\ received[c] < End(c)
    /\ current[c] = Body(c) /\ current[c] # 0
    /\ parsed[c] = from[c] - Start(c) - HeaderLength

OnRequest(c) ==
    /\ Answers(c) <= Len(Bodies[c])
    /\ \A i \in 1 .. Answers(c) : answered[c][i] = i
    /\ \/ sent[c] = Start(c)
       \/ Answers(c) < Len(Bodies[c]) /\ sent[c] = End(c)
    /\ received[c] <= sent[c]
    /\ at[c] \in {"start", "loop"} =>
          received[c] = Start(c) /\ current[c] = 0 /\ parsed[c] = 0
    /\ at[c] = "receive" => \/ caller[c] = "loop" /\ Fetching(c)
                            \/ caller[c] = "drain" /\ Draining(c)
    /\ at[c] = "returned" =>
          /\ \/ caller[c] = "loop" /\ from[c] = Start(c)
             \/ caller[c] = "drain"
          /\ HasRequest(c) /\ (Inside(c) \/ AtEnd(c))
    /\ at[c] \in {"handle", "drain"} => HasRequest(c) /\ (Inside(c) \/ AtEnd(c))
    /\ at[c] = "respond" => HasRequest(c) /\ AtEnd(c)
    /\ at[c] # "header"

RequestInv == RequestType /\ \A c \in Clients : connected[c] => OnRequest(c)

(* Request n + 1 of a stream: where it ends, and what the code finds in what *)
(* it holds of it from the first of its units.                             *)
LEMMA TheNextRequest ==
  ASSUME NEW c \in Clients, NEW n \in Nat, n < Len(Bodies[c])
  PROVE  /\ n + 1 \in Requests(c)
         /\ Ends[c][n] \in Nat /\ Ends[c][n + 1] \in Nat /\ Bodies[c][n + 1] \in Nat
         /\ Ends[c][n + 1] = Ends[c][n] + HeaderLength + Bodies[c][n + 1]
         /\ {i \in Requests(c) : Begins(c, i) = Ends[c][n]} = {n + 1}
         /\ HeaderEnds(c, n + 1) = Ends[c][n] + HeaderLength
         /\ \A high \in Nat :
               Ends[c][n] + HeaderLength <= high /\ high <= Ends[c][n + 1] =>
                  /\ HeadersIn(c, Ends[c][n], high) = {n + 1}
                  /\ FirstHeader(c, Ends[c][n], high) = n + 1
                  /\ ContentLength(c, Ends[c][n], high) = Bodies[c][n + 1]
  <1>. DEFINE L == Len(Bodies[c])
              E == Ends[c]
  <1>1. /\ L \in Nat /\ Bodies[c] \in [1 .. L -> Nat] /\ E \in [0 .. L -> Nat]
        /\ \A m \in 1 .. L : E[m] = E[m - 1] + HeaderLength + Bodies[c][m]
        /\ Requests(c) = 1 .. L
    BY EndsAreSums DEF Requests
  <1>2. n + 1 \in 1 .. L /\ n \in 0 .. L /\ n + 1 \in 0 .. L
    BY <1>1
  <1>3. /\ E[n] \in Nat /\ E[n + 1] \in Nat /\ Bodies[c][n + 1] \in Nat
        /\ E[n + 1] = E[n] + HeaderLength + Bodies[c][n + 1]
    <2>1. E[n] \in Nat /\ E[n + 1] \in Nat /\ Bodies[c][n + 1] \in Nat
      BY <1>1, <1>2, Zenon
    <2>2. (n + 1) - 1 = n
      OBVIOUS
    <2>3. E[n + 1] = E[(n + 1) - 1] + HeaderLength + Bodies[c][n + 1]
      BY <1>1, <1>2, Zenon
    <2>4. QED
      BY <2>1, <2>2, <2>3
  <1>4. \A i \in 1 .. L : /\ i - 1 \in 0 .. L /\ E[i - 1] \in Nat
                          /\ Begins(c, i) = E[i - 1]
                          /\ HeaderEnds(c, i) = E[i - 1] + HeaderLength
    <2>. TAKE i \in 1 .. L
    <2>1. i - 1 \in 0 .. L
      BY <1>1
    <2>2. E[i - 1] \in Nat
      BY <1>1, <2>1
    <2>3. QED
      BY <2>1, <2>2 DEF Begins, HeaderEnds
  <1>5. ASSUME NEW i \in 1 .. L, i < n + 1
        PROVE  E[i - 1] + HeaderLength <= E[n]
    <2>1. i - 1 \in 0 .. L /\ i - 1 < n
      BY <1>5
    <2>2. QED
      BY <1>2, <2>1, EndsIncrease
  <1>6. ASSUME NEW i \in 1 .. L, i > n + 1
        PROVE  E[n + 1] <= E[i - 1] /\ E[n] + HeaderLength <= E[i - 1]
    <2>1. i - 1 \in 0 .. L /\ n < i - 1 /\ (n + 1 < i - 1 \/ n + 1 = i - 1)
      BY <1>1, <1>6
    <2>2. E[n] + HeaderLength <= E[i - 1]
      BY <1>2, <2>1, EndsIncrease
    <2>3. CASE n + 1 < i - 1
      <3>1. E[n + 1] + HeaderLength <= E[i - 1] /\ E[i - 1] \in Nat
        BY <1>2, <1>4, <2>1, <2>3, EndsIncrease
      <3>. HIDE DEF E
      <3>2. QED
        BY <1>3, <2>2, <3>1 DEF HeaderLength
    <2>4. CASE n + 1 = i - 1
      BY <1>3, <2>2, <2>4
    <2>5. QED
      BY <2>1, <2>3, <2>4
  <1>. HIDE DEF L, E
  <1>7. {i \in Requests(c) : Begins(c, i) = E[n]} = {n + 1}
    <2>1. Begins(c, n + 1) = E[n]
      BY <1>2, <1>4
    <2>2. ASSUME NEW i \in 1 .. L, Begins(c, i) = E[n], i # n + 1 PROVE FALSE
      <3>1. E[i - 1] = E[n] /\ (i < n + 1 \/ i > n + 1)
        BY <1>1, <1>4, <2>2
      <3>2. E[n] + HeaderLength <= E[n]
        BY <1>5, <1>6, <3>1
      <3>3. QED
        BY <1>3, <3>2 DEF HeaderLength
    <2>3. QED
      BY <1>1, <1>2, <2>1, <2>2
  <1>8. HeaderEnds(c, n + 1) = E[n] + HeaderLength
    BY <1>2, <1>4
  <1>9. ASSUME NEW high \in Nat, E[n] + HeaderLength <= high, high <= E[n + 1]
        PROVE  /\ HeadersIn(c, E[n], high) = {n + 1}
               /\ FirstHeader(c, E[n], high) = n + 1
               /\ ContentLength(c, E[n], high) = Bodies[c][n + 1]
    <2>1. HeaderEnds(c, n + 1) \in E[n] + 1 .. high
      BY <1>3, <1>8, <1>9 DEF HeaderLength
    <2>2. ASSUME NEW i \in 1 .. L, HeaderEnds(c, i) \in E[n] + 1 .. high, i # n + 1
          PROVE  FALSE
      <3>1. /\ E[i - 1] \in Nat /\ E[n] < E[i - 1] + HeaderLength
            /\ E[i - 1] + HeaderLength <= E[n + 1]
        BY <1>3, <1>4, <1>9, <2>2 DEF HeaderLength
      <3>2. CASE i < n + 1
        BY <1>3, <1>5, <3>1, <3>2 DEF HeaderLength
      <3>3. CASE i > n + 1
        BY <1>3, <1>6, <3>1, <3>3 DEF HeaderLength
      <3>4. QED
        BY <1>1, <2>2, <3>2, <3>3
    <2>3. HeadersIn(c, E[n], high) = {n + 1}
      BY <1>1, <1>2, <2>1, <2>2 DEF HeadersIn
    <2>4. FirstHeader(c, E[n], high) = n + 1
      BY <1>2, <2>3 DEF FirstHeader
    <2>5. HeaderEnds(c, n + 1) - 1 > E[n]
      BY <1>3, <1>8 DEF HeaderLength
    <2>6. ContentLength(c, E[n], high) = Bodies[c][n + 1]
      BY <2>3, <2>4, <2>5 DEF ContentLength
    <2>7. QED
      BY <2>3, <2>4, <2>6
  <1>10. QED
    BY <1>1, <1>2, <1>3, <1>7, <1>8, <1>9 DEF L, E

(* At the start nothing is sent, received or answered.                     *)
LEMMA RequestsInitially == RequestInit => RequestInv
  <1>. SUFFICES ASSUME RequestInit PROVE RequestInv
    OBVIOUS
  <1>. USE DEF RequestInit, Zero
  <1>1. RequestType
    BY DEF RequestType
  <1>2. ASSUME NEW c \in Clients PROVE OnRequest(c)
    <2>1. /\ answered[c] = << >> /\ Len(answered[c]) = 0 /\ at[c] = "start" /\ sent[c] = 0
          /\ received[c] = 0 /\ current[c] = 0 /\ parsed[c] = 0
      OBVIOUS
    <2>2. Ends[c][0] = 0 /\ Len(Bodies[c]) \in Nat
      BY EndsAreSums
    <2>3. QED
      BY <2>1, <2>2 DEF OnRequest, Answers, Start
  <1>3. QED
    BY <1>1, <1>2 DEF RequestInv

(* What is read out of any stretch of a stream is of the right type.        *)
LEMMA ContentLengthType ==
  ASSUME NEW c \in Clients, NEW low \in Nat, NEW high \in Nat
  PROVE  /\ ContentLength(c, low, high) \in Nat
         /\ ContentLength(c, low, high) # 0 => HeaderEnds(c, FirstHeader(c, low, high)) \in Nat
  <1>. DEFINE H == HeadersIn(c, low, high)
              L == Len(Bodies[c])
  <1>1. /\ L \in Nat /\ Bodies[c] \in [1 .. L -> Nat] /\ Ends[c] \in [0 .. L -> Nat]
        /\ Requests(c) = 1 .. L
    BY EndsAreSums DEF Requests
  <1>2. CASE H = {}
    BY <1>2 DEF ContentLength
  <1>3. CASE H # {}
    <2>1. H \in SUBSET Nat /\ H \subseteq 1 .. L
      BY <1>1 DEF HeadersIn
    <2>2. \E x \in H : \A y \in H : x <= y
      BY <1>3, <2>1, HasLeast
    <2>3. FirstHeader(c, low, high) \in H
      BY <2>2 DEF FirstHeader
    <2>. DEFINE i == FirstHeader(c, low, high)
    <2>4. i \in 1 .. L /\ i - 1 \in 0 .. L
      BY <1>1, <2>1, <2>3
    <2>5. HeaderEnds(c, i) \in Nat /\ Bodies[c][i] \in Nat
      BY <1>1, <2>4 DEF HeaderEnds, Begins, HeaderLength
    <2>6. ContentLength(c, low, high) \in {0, Bodies[c][i]}
      BY <1>3 DEF ContentLength
    <2>7. QED
      BY <2>5, <2>6
  <1>4. QED
    BY <1>2, <1>3

(* A step of one connection is of no other.                                *)
Same(d) ==
    /\ sent'[d] = sent[d] /\ open'[d] = open[d] /\ answered'[d] = answered[d]
    /\ at'[d] = at[d] /\ caller'[d] = caller[d]
    /\ connected'[d] = connected[d] /\ received'[d] = received[d]
    /\ base'[d] = base[d] /\ from'[d] = from[d]
    /\ length'[d] = length[d] /\ header'[d] = header[d]
    /\ current'[d] = current[d] /\ parsed'[d] = parsed[d]

StepOf(c) == RequestType' /\ \A d \in Clients \ {c} : Same(d)

(* What is received changes this connection's variables only.              *)
LEMMA ReceiveIsAStep ==
  ASSUME RequestType, NEW c \in Clients, Receive(c)
  PROVE  StepOf(c)
  <1>. USE DEF RequestType
  <1>1. received' \in [Clients -> Nat] /\ received'[c] \in Nat
    BY DEF Receive
  <1>2. \A d \in Clients \ {c} : received'[d] = received[d]
    BY DEF Receive
  <1>3. UNCHANGED <<sent, open, answered, caller, connected, base, from>>
    BY DEF Receive, client, strings
  <1>. DEFINE long == ContentLength(c, from[c], received'[c])
  <1>4. long \in Nat /\ (long # 0 => HeaderEnds(c, FirstHeader(c, from[c], received'[c])) \in Nat)
    BY <1>1, ContentLengthType
  <1>. HIDE DEF long
  <1>5. CASE NewRequest(c)
    <2>1. /\ length' = [length EXCEPT ![c] = IF @ = 0 THEN long ELSE @]
          /\ header' = [header EXCEPT ![c] =
               IF length[c] = 0 /\ long # 0
               THEN HeaderEnds(c, FirstHeader(c, from[c], received'[c])) - from[c]
               ELSE @]
      BY <1>5 DEF NewRequest, ReadsHeader, long
    <2>2. length' \in [Clients -> Nat] /\ header' \in [Clients -> Int]
      BY <1>4, <2>1
    <2>3. \A d \in Clients \ {c} : length'[d] = length[d] /\ header'[d] = header[d]
      BY <2>1
    <2>4. /\ at' = at \/ at' = [at EXCEPT ![c] = "returned"]
          /\ current' = current \/ current' = [current EXCEPT ![c] = length'[c]]
          /\ parsed' = parsed \/ parsed' = [parsed EXCEPT ![c] = received'[c] - from[c] - header'[c]]
      BY <1>5 DEF NewRequest, Goto
    <2>5. length'[c] \in Int /\ received'[c] - from[c] - header'[c] \in Int
      BY <1>1, <2>2
    <2>6. at' \in [Clients -> {"start", "loop", "receive", "returned", "header", "handle",
                           "drain", "respond", "over", "failed"}]
      BY <2>4
    <2>7. current' \in [Clients -> Int] /\ parsed' \in [Clients -> Int]
      <3>1. current' \in [Clients -> Int]
        BY <2>4, <2>5
      <3>2. parsed' \in [Clients -> Int]
        BY <2>4, <2>5
      <3>3. QED
        BY <3>1, <3>2
    <2>8. RequestType'
      BY <1>1, <1>3, <2>2, <2>6, <2>7
    <2>9. \A d \in Clients \ {c} : Same(d)
      BY <1>2, <1>3, <2>3, <2>4 DEF Same
    <2>10. QED
      BY <2>8, <2>9 DEF StepOf
  <1>6. CASE MoreOfBody(c)
    <2>1. /\ at' = at \/ at' = [at EXCEPT ![c] = "returned"]
          /\ current' = current \/ current' = [current EXCEPT ![c] = 0]
          /\ \/ parsed' = parsed \/ parsed' = [parsed EXCEPT ![c] = 0]
             \/ parsed' = [parsed EXCEPT ![c] = parsed[c] + received'[c] - from[c]]
          /\ UNCHANGED <<length, header>>
      BY <1>6 DEF MoreOfBody, Goto
    <2>2. parsed[c] + received'[c] - from[c] \in Int
      BY <1>1
    <2>3. current' \in [Clients -> Int] /\ parsed' \in [Clients -> Int]
      <3>1. current' \in [Clients -> Int]
        BY <2>1
      <3>2. \E x \in Int : parsed' = [parsed EXCEPT ![c] = x]
        <4>1. CASE parsed' = parsed
          <5>1. parsed' = [parsed EXCEPT ![c] = parsed[c]] /\ parsed[c] \in Int
            BY <4>1
          <5>2. QED
            BY <5>1, Zenon
        <4>2. CASE parsed' = [parsed EXCEPT ![c] = 0]
          <5>1. 0 \in Int
            OBVIOUS
          <5>2. QED
            BY <4>2, <5>1, Zenon
        <4>3. CASE parsed' = [parsed EXCEPT ![c] = parsed[c] + received'[c] - from[c]]
          BY <2>2, <4>3, Zenon
        <4>4. QED
          BY <2>1, <4>1, <4>2, <4>3
      <3>2a. parsed' \in [Clients -> Int]
        BY <3>2
      <3>3. QED
        BY <3>1, <3>2a
    <2>4. at' \in [Clients -> {"start", "loop", "receive", "returned", "header", "handle",
                           "drain", "respond", "over", "failed"}]
      BY <2>1
    <2>5. RequestType'
      BY <1>1, <1>3, <2>1, <2>3, <2>4
    <2>6. \A d \in Clients \ {c} : Same(d)
      BY <1>2, <1>3, <2>1 DEF Same
    <2>7. QED
      BY <2>5, <2>6 DEF StepOf
  <1>7. QED
    BY <1>5, <1>6 DEF Receive

(* So does every other step.                                               *)
LEMMA EachIsAStep ==
  ASSUME RequestType, NEW c \in Clients, ServerStep(c) \/ ClientStep(c)
  PROVE  StepOf(c)
  <1>. USE DEF RequestType, StepOf, Same, client, socket, strings, lengths, Goto
  <1>1. CASE Send(c)
    <2>. DEFINE i == Len(answered[c]) + 1
    <2>1. i \in Requests(c) /\ sent' = [sent EXCEPT ![c] = Ends[c][i]]
      BY <1>1 DEF Send
    <2>2. Ends[c][i] \in Nat
      <3>1. Ends[c] \in [0 .. Len(Bodies[c]) -> Nat] /\ Len(Bodies[c]) \in Nat
        BY EndsAreSums
      <3>2. i \in 0 .. Len(Bodies[c])
        BY <2>1, <3>1 DEF Requests
      <3>3. QED
        BY <3>1, <3>2
    <2>3. UNCHANGED <<open, answered, at, caller, socket, strings, lengths>>
      BY <1>1 DEF Send
    <2>. HIDE DEF i
    <2>4. QED
      BY <2>1, <2>2, <2>3
  <1>2. CASE CloseClient(c)
    BY <1>2 DEF CloseClient
  <1>3. CASE Establish(c)
    BY <1>3 DEF Establish
  <1>4. CASE NextRequest(c)
    BY <1>4 DEF NextRequest, Call
  <1>5. CASE Receive(c)
    BY <1>5, ReceiveIsAStep
  <1>6. CASE Disconnect(c)
    BY <1>6 DEF Disconnect
  <1>7. CASE Returned(c)
    BY <1>7 DEF Returned
  <1>8. CASE MoreHeader(c)
    BY <1>8 DEF MoreHeader, Call
  <1>9. CASE Handle(c)
    BY <1>9 DEF Handle
  <1>10. CASE Drain(c)
    <2>1. /\ \E p \in {"respond", "receive", "returned"} : at' = [at EXCEPT ![c] = p]
          /\ caller' = caller \/ caller' = [caller EXCEPT ![c] = "drain"]
          /\ UNCHANGED <<client, answered, socket, base, header, current, parsed>>
      BY <1>10 DEF Drain, Call
    <2>2. \/ UNCHANGED <<from, length>>
          \/ /\ from' = [from EXCEPT ![c] = received[c]]
             /\ length' = [length EXCEPT ![c] = 0]
      BY <1>10 DEF Drain, Call
    <2>3. /\ from' \in [Clients -> Nat] /\ length' \in [Clients -> Nat]
          /\ \A d \in Clients \ {c} : from'[d] = from[d] /\ length'[d] = length[d]
      <3>1. from \in [Clients -> Nat] /\ length \in [Clients -> Nat] /\ received[c] \in Nat
        BY DEF RequestType
      <3>2. CASE UNCHANGED <<from, length>>
        BY <3>1, <3>2
      <3>3. CASE /\ from' = [from EXCEPT ![c] = received[c]]
                 /\ length' = [length EXCEPT ![c] = 0]
        <4>1. from' \in [Clients -> Nat] /\ length' \in [Clients -> Nat]
          BY <3>1, <3>3
        <4>2. \A d \in Clients \ {c} : from'[d] = from[d] /\ length'[d] = length[d]
          BY <3>1, <3>3
        <4>3. QED
          BY <4>1, <4>2
      <3>4. QED
        BY <2>2, <3>2, <3>3
    <2>4. /\ at' \in [Clients -> {"start", "loop", "receive", "returned", "header", "handle",
                                  "drain", "respond", "over", "failed"}]
          /\ caller' \in [Clients -> {"loop", "header", "drain"}]
          /\ \A d \in Clients \ {c} : at'[d] = at[d] /\ caller'[d] = caller[d]
      BY <2>1
    <2>5. QED
      BY <2>1, <2>3, <2>4
  <1>11. CASE Respond(c)
    <2>1. Handled(c) \subseteq Nat
      BY DEF Handled, Requests
    <2>2. \/ answered' = answered
          \/ \E i \in Nat : answered' = [answered EXCEPT ![c] = Append(@, i)]
      BY <1>11, <2>1 DEF Respond
    <2>3. answered' \in [Clients -> Seq(Nat)] /\ \A d \in Clients \ {c} : answered'[d] = answered[d]
      <3>1. CASE answered' = answered
        BY <3>1
      <3>2. ASSUME NEW i \in Nat, answered' = [answered EXCEPT ![c] = Append(@, i)]
            PROVE  answered' \in [Clients -> Seq(Nat)] /\ \A d \in Clients \ {c} : answered'[d] = answered[d]
        <4>1. Append(answered[c], i) \in Seq(Nat)
          OBVIOUS
        <4>2. QED
          BY <3>2, <4>1
      <3>3. QED
        BY <2>2, <3>1, <3>2
    <2>4. connected' = connected \/ connected' = [connected EXCEPT ![c] = FALSE]
      BY <1>11 DEF Respond
    <2>5. /\ at' = [at EXCEPT ![c] = "loop"]
          /\ UNCHANGED <<client, caller, received, strings, lengths>>
      BY <1>11 DEF Respond
    <2>6. QED
      BY <2>3, <2>4, <2>5
  <1>12. QED
    BY <1>1, <1>2, <1>3, <1>4, <1>5, <1>6, <1>7, <1>8, <1>9, <1>10, <1>11 DEF ServerStep, ClientStep

(* What the parts of OnRequest speak of are numbers.                       *)
LEMMA Numbers ==
  ASSUME RequestType, NEW c \in Clients, Answers(c) <= Len(Bodies[c])
  PROVE  /\ Answers(c) \in Nat /\ Start(c) \in Nat /\ Len(Bodies[c]) \in Nat
         /\ Answers(c) < Len(Bodies[c]) =>
               /\ End(c) \in Nat /\ Body(c) \in Nat
               /\ End(c) = Start(c) + HeaderLength + Body(c)
  <1>1. Answers(c) \in Nat
    BY DEF RequestType, Answers
  <1>2. Len(Bodies[c]) \in Nat /\ Ends[c] \in [0 .. Len(Bodies[c]) -> Nat]
    BY EndsAreSums
  <1>3. Start(c) \in Nat
    BY <1>1, <1>2 DEF Start
  <1>4. QED
    BY <1>1, <1>2, <1>3, TheNextRequest DEF Start, End, Body

(* A step by which nothing is answered is about the same request.          *)
LEMMA SameRequest ==
  ASSUME NEW c \in Clients, answered'[c] = answered[c]
  PROVE  /\ Answers(c)' = Answers(c) /\ Start(c)' = Start(c)
         /\ End(c)' = End(c) /\ Body(c)' = Body(c)
  BY DEF Answers, Start, End, Body

(* A request is sent when the one before it has been answered.             *)
LEMMA SendStep ==
  ASSUME RequestType, NEW c \in Clients, OnRequest(c), Send(c)
  PROVE  OnRequest(c)'
  <1>1. /\ Answers(c) + 1 \in Requests(c) /\ sent[c] < End(c) /\ sent'[c] = End(c)
    BY DEF Send, RequestType, Answers, End
  <1>2. UNCHANGED <<answered, at, caller, received, base, from, length, header, current, parsed>>
    BY DEF Send, socket, strings, lengths
  <1>3. Answers(c) < Len(Bodies[c]) /\ Answers(c) <= Len(Bodies[c]) /\ Answers(c) \in Nat
    <2>1. Answers(c) \in Nat
      BY DEF RequestType, Answers
    <2>2. Len(Bodies[c]) \in Nat
      BY EndsAreSums
    <2>3. QED
      BY <1>1, <2>1, <2>2 DEF Requests
  <1>4. sent[c] \in Nat /\ received[c] \in Nat /\ End(c) \in Nat
    BY <1>3, Numbers DEF RequestType
  <1>5. received'[c] <= sent'[c]
    BY <1>1, <1>2, <1>4 DEF OnRequest
  <1>6. Answers(c)' = Answers(c) /\ Start(c)' = Start(c) /\ End(c)' = End(c) /\ Body(c)' = Body(c)
    BY <1>2, SameRequest
  <1>7. /\ Fetching(c)' = Fetching(c) /\ Draining(c)' = Draining(c) /\ HasRequest(c)' = HasRequest(c)
        /\ Inside(c)' = Inside(c) /\ AtEnd(c)' = AtEnd(c)
    BY <1>2, <1>6 DEF Fetching, Draining, HasRequest, Inside, AtEnd
  <1>8. QED
    BY <1>1, <1>2, <1>3, <1>5, <1>6, <1>7 DEF OnRequest

(* A step that answers and sends nothing, and goes to another place.       *)
LEMMA OtherStep ==
  ASSUME NEW c \in Clients, OnRequest(c), answered'[c] = answered[c], sent'[c] = sent[c],
         received'[c] <= sent'[c],
         \/ at'[c] = "loop" /\ (received[c] = Start(c) /\ current[c] = 0 /\ parsed[c] = 0)'
         \/ at'[c] = "receive" /\ \/ caller'[c] = "loop" /\ Fetching(c)'
                                  \/ caller'[c] = "drain" /\ Draining(c)'
         \/ /\ at'[c] = "returned" /\ HasRequest(c)' /\ (Inside(c)' \/ AtEnd(c)')
            /\ \/ caller'[c] = "loop" /\ from'[c] = Start(c)'
               \/ caller'[c] = "drain"
         \/ at'[c] \in {"handle", "drain"} /\ HasRequest(c)' /\ (Inside(c)' \/ AtEnd(c)')
         \/ at'[c] = "respond" /\ HasRequest(c)' /\ AtEnd(c)'
         \/ at'[c] \in {"over", "failed"}
  PROVE  OnRequest(c)'
  <1>1. Answers(c)' = Answers(c) /\ Start(c)' = Start(c) /\ End(c)' = End(c)
    BY SameRequest
  <1>2. (Answers(c) <= Len(Bodies[c]))' /\ (received[c] <= sent[c])'
    BY <1>1 DEF OnRequest
  <1>3. (\A i \in 1 .. Answers(c) : answered[c][i] = i)'
    <2>1. \A i \in 1 .. Answers(c) : answered[c][i] = i
      BY DEF OnRequest
    <2>2. QED
      BY <1>1, <2>1
  <1>4. (\/ sent[c] = Start(c)
         \/ Answers(c) < Len(Bodies[c]) /\ sent[c] = End(c))'
    <2>1. \/ sent[c] = Start(c)
          \/ Answers(c) < Len(Bodies[c]) /\ sent[c] = End(c)
      BY DEF OnRequest
    <2>2. QED
      BY <1>1, <2>1
  <1>5. QED
    BY <1>2, <1>3, <1>4 DEF OnRequest

(* What is received is part of the request, or ends it.                    *)
LEMMA ReceiveStep ==
  ASSUME RequestType, RequestType', NEW c \in Clients, OnRequest(c), Receive(c), HeadersAreWhole
  PROVE  OnRequest(c)'
  <1>1. /\ at[c] = "receive" /\ received[c] < received'[c] /\ received'[c] <= sent[c]
        /\ \A i \in Requests(c) : received[c] < HeaderEnds(c, i) /\ received'[c] > Begins(c, i)
                                    => received'[c] >= HeaderEnds(c, i)
    BY DEF Receive, RequestType
  <1>2. UNCHANGED <<sent, answered, caller, base, from>>
    BY DEF Receive, client, strings
  <1>3. Answers(c)' = Answers(c) /\ Start(c)' = Start(c) /\ End(c)' = End(c) /\ Body(c)' = Body(c)
    BY <1>2, SameRequest
  <1>4. /\ Answers(c) <= Len(Bodies[c]) /\ Answers(c) \in Nat
        /\ \/ sent[c] = Start(c)
           \/ Answers(c) < Len(Bodies[c]) /\ sent[c] = End(c)
        /\ \/ caller[c] = "loop" /\ Fetching(c)
           \/ caller[c] = "drain" /\ Draining(c)
    BY <1>1, Numbers DEF OnRequest
  <1>5. /\ received[c] \in Nat /\ received'[c] \in Nat /\ sent[c] \in Nat /\ Start(c) \in Nat
        /\ from[c] \in Nat /\ length[c] \in Nat /\ parsed[c] \in Int /\ at[c] = "receive"
    BY <1>1, <1>4, Numbers DEF RequestType
  <1>6. received[c] >= Start(c)
    BY <1>4, <1>5 DEF Fetching, Draining, HeaderLength
  <1>7. Answers(c) < Len(Bodies[c]) /\ sent[c] = End(c)
    BY <1>1, <1>4, <1>5, <1>6
  <1>8. /\ End(c) \in Nat /\ Body(c) \in Nat /\ End(c) = Start(c) + 3 + Body(c)
    BY <1>4, <1>7, Numbers DEF HeaderLength
  <1>9. Start(c) + 3 <= received'[c] /\ received'[c] <= End(c)
    <2>1. /\ Answers(c) + 1 \in Requests(c) /\ Begins(c, Answers(c) + 1) = Start(c)
          /\ HeaderEnds(c, Answers(c) + 1) = Start(c) + 3
      BY <1>4, <1>7, TheNextRequest DEF Start, HeaderLength
    <2>2. received[c] < Start(c) + 3 => received'[c] >= Start(c) + 3
      BY <1>1, <1>5, <1>6, <2>1
    <2>3. QED
      BY <1>1, <1>5, <1>7, <2>2
  <1>10. CASE caller[c] = "loop" /\ Fetching(c)
    <2>1. from[c] = Start(c) /\ base[c] = Start(c) /\ current[c] = 0 /\ parsed[c] = 0
      BY <1>10 DEF Fetching
    <2>2. NewRequest(c)
      BY <2>1 DEF Receive, MoreOfBody
    <2>. DEFINE long == ContentLength(c, from[c], received'[c])
    <2>3. /\ long = Body(c)
          /\ HeaderEnds(c, FirstHeader(c, from[c], received'[c])) = Start(c) + 3
      <3>. DEFINE n == Answers(c)
      <3>1. n \in Nat /\ n < Len(Bodies[c]) /\ received'[c] \in Nat
        BY <1>4, <1>5, <1>7
      <3>2. Ends[c][n] + HeaderLength <= received'[c] /\ received'[c] <= Ends[c][n + 1]
        BY <1>9 DEF Start, End, HeaderLength
      <3>. HIDE DEF n
      <3>3. /\ FirstHeader(c, Ends[c][n], received'[c]) = n + 1
            /\ ContentLength(c, Ends[c][n], received'[c]) = Bodies[c][n + 1]
            /\ HeaderEnds(c, n + 1) = Ends[c][n] + HeaderLength
        BY <3>1, <3>2, TheNextRequest
      <3>4. QED
        BY <2>1, <3>3 DEF n, Start, Body, HeaderLength
    <2>. HIDE DEF long
    <2>4. /\ length'[c] = IF length[c] = 0 THEN long ELSE length[c]
          /\ header'[c] = IF length[c] = 0 /\ long # 0
                          THEN HeaderEnds(c, FirstHeader(c, from[c], received'[c])) - from[c]
                          ELSE header[c]
      BY <2>2 DEF NewRequest, ReadsHeader, RequestType, long
    <2>5. length[c] = 0 \/ (length[c] = Body(c) /\ length[c] # 0 /\ header[c] = 3)
      BY <1>10 DEF Fetching, HeaderLength
    <2>6. length'[c] = Body(c) /\ (Body(c) # 0 => header'[c] = 3)
      BY <1>5, <2>1, <2>3, <2>4, <2>5
    <2>7. HasRequest(c)' /\ from'[c] = Start(c)'
      BY <1>2, <1>3, <1>7, <2>1 DEF HasRequest
    <2>8. CASE /\ Complete(c) /\ at'[c] = "returned" /\ UNCHANGED <<current, parsed>>
      <3>1. received'[c] = End(c)
        BY <1>5, <1>8, <1>9, <2>1, <2>6, <2>8 DEF Complete
      <3>2. AtEnd(c)'
        BY <1>3, <2>1, <2>8, <3>1 DEF AtEnd
      <3>3. QED
        BY <1>1, <1>2, <1>10, <2>7, <2>8, <3>2, OtherStep
    <2>9. CASE /\ ~ Complete(c) /\ at'[c] = "returned"
               /\ current'[c] = length'[c] /\ parsed'[c] = received'[c] - from[c] - header'[c]
      <3>1. Body(c) # 0 /\ received'[c] < End(c)
        BY <1>5, <1>8, <1>9, <2>1, <2>6, <2>9 DEF Complete
      <3>2. Inside(c)'
        BY <1>3, <1>9, <2>1, <2>6, <2>9, <3>1 DEF Inside, HeaderLength
      <3>3. QED
        BY <1>1, <1>2, <1>10, <2>7, <2>9, <3>2, OtherStep
    <2>10. CASE ~ Complete(c) /\ UNCHANGED <<at, current, parsed>>
      <3>1. Body(c) # 0 /\ received'[c] < End(c)
        BY <1>5, <1>8, <1>9, <2>1, <2>6, <2>10 DEF Complete
      <3>2. Fetching(c)'
        BY <1>2, <1>3, <1>7, <1>9, <2>1, <2>6, <2>10, <3>1 DEF Fetching, HeaderLength
      <3>3. QED
        BY <1>1, <1>2, <1>10, <2>10, <3>2, OtherStep
    <2>11. QED
      BY <2>2, <2>8, <2>9, <2>10 DEF NewRequest, Goto, RequestType
  <1>11. CASE caller[c] = "drain" /\ Draining(c)
    <2>1. /\ HasRequest(c) /\ Start(c) + 3 <= from[c] /\ from[c] <= received[c]
          /\ current[c] = Body(c) /\ current[c] # 0 /\ parsed[c] = from[c] - Start(c) - 3
      BY <1>11 DEF Draining, HeaderLength
    <2>2. MoreOfBody(c)
      BY <2>1 DEF Receive, NewRequest, ReadsHeader
    <2>. DEFINE total == parsed[c] + received'[c] - from[c]
    <2>3. total = received'[c] - Start(c) - 3
      BY <1>5, <2>1
    <2>4. HasRequest(c)'
      BY <1>2, <1>3, <2>1 DEF HasRequest
    <2>5. CASE /\ total >= current[c] /\ at'[c] = "returned"
               /\ current'[c] = 0 /\ parsed'[c] = 0
      <3>1. received'[c] = End(c)
        BY <1>5, <1>8, <1>9, <2>1, <2>3, <2>5
      <3>2. AtEnd(c)'
        BY <1>3, <2>5, <3>1 DEF AtEnd
      <3>3. QED
        BY <1>1, <1>2, <1>11, <2>4, <2>5, <3>2, OtherStep
    <2>6. CASE /\ total < current[c] /\ at'[c] = "returned"
               /\ current'[c] = current[c] /\ parsed'[c] = total
      <3>1. received'[c] < End(c)
        BY <1>5, <1>8, <1>9, <2>1, <2>3, <2>6
      <3>2. Inside(c)'
        BY <1>3, <1>9, <2>1, <2>3, <2>6, <3>1 DEF Inside, HeaderLength
      <3>3. QED
        BY <1>1, <1>2, <1>11, <2>4, <2>6, <3>2, OtherStep
    <2>7. CASE total < current[c] /\ UNCHANGED <<at, current, parsed>>
      <3>1. received'[c] < End(c)
        BY <1>5, <1>8, <1>9, <2>1, <2>3, <2>7
      <3>2. from[c] <= received'[c]
        BY <1>1, <1>5, <2>1
      <3>3. Draining(c)'
        BY <1>2, <1>3, <2>1, <2>4, <2>7, <3>1, <3>2 DEF Draining, HeaderLength
      <3>4. QED
        BY <1>1, <1>2, <1>11, <2>7, <3>3, OtherStep
    <2>8. QED
      BY <2>2, <2>5, <2>6, <2>7 DEF MoreOfBody, Goto, RequestType
  <1>12. QED
    BY <1>4, <1>10, <1>11

(* What a call receives nothing of leaves where it is.                     *)
LEMMA LoopStep ==
  ASSUME RequestType, NEW c \in Clients, OnRequest(c), connected[c],
         Establish(c) \/ NextRequest(c) \/ Returned(c) \/ MoreHeader(c) \/ Handle(c) \/ Drain(c)
  PROVE  OnRequest(c)'
  <1>1. UNCHANGED <<sent, answered, received, current, parsed>>
    BY DEF Establish, NextRequest, Returned, MoreHeader, Handle, Drain, client, socket, lengths
  <1>2. Answers(c)' = Answers(c) /\ Start(c)' = Start(c) /\ End(c)' = End(c) /\ Body(c)' = Body(c)
    BY <1>1, SameRequest
  <1>3. received'[c] <= sent'[c]
    BY <1>1 DEF OnRequest
  <1>4. /\ Answers(c) <= Len(Bodies[c]) /\ Answers(c) \in Nat /\ Start(c) \in Nat
        /\ received[c] \in Nat
    BY Numbers DEF OnRequest, RequestType
  <1>5. ASSUME HasRequest(c)
        PROVE  End(c) \in Nat /\ Body(c) \in Nat /\ End(c) = Start(c) + 3 + Body(c)
    BY <1>4, <1>5, Numbers DEF HasRequest, HeaderLength
  <1>6. CASE Establish(c)
    <2>1. at[c] = "start" /\ at'[c] \in {"loop", "failed"}
      BY <1>6 DEF Establish, Goto, RequestType
    <2>2. QED
      BY <1>1, <1>2, <1>3, <2>1, OtherStep DEF OnRequest
  <1>7. CASE NextRequest(c)
    <2>1. /\ at[c] = "loop" /\ at'[c] = "receive" /\ caller'[c] = "loop"
          /\ from'[c] = received[c] /\ base'[c] = received[c] /\ length'[c] = 0
      BY <1>7 DEF NextRequest, Call, RequestType
    <2>2. received[c] = Start(c) /\ current[c] = 0 /\ parsed[c] = 0
      BY <2>1 DEF OnRequest
    <2>3. Fetching(c)'
      BY <1>1, <1>2, <2>1, <2>2 DEF Fetching
    <2>4. QED
      BY <1>1, <1>3, <2>1, <2>3, OtherStep
  <1>8. CASE Returned(c)
    <2>1. /\ at[c] = "returned" /\ caller[c] \in {"loop", "header"} /\ UNCHANGED <<base, from, caller>>
      BY <1>8 DEF Returned, strings
    <2>2. caller[c] = "loop" /\ from[c] = Start(c) /\ HasRequest(c) /\ (Inside(c) \/ AtEnd(c))
      BY <2>1 DEF OnRequest
    <2>3. End(c) \in Nat /\ Body(c) \in Nat /\ End(c) = Start(c) + 3 + Body(c)
      BY <1>5, <2>2
    <2>4. Start(c) + 3 <= received[c] /\ received[c] <= End(c)
      BY <1>4, <2>2, <2>3 DEF Inside, AtEnd, HeaderLength
    <2>5. HasHeader(c)
      <3>1. HeadersIn(c, Start(c), received[c]) = {Answers(c) + 1}
        BY <1>4, <2>2, <2>4, TheNextRequest DEF HasRequest, Start, End, HeaderLength
      <3>2. QED
        BY <2>2, <3>1 DEF HasHeader, HasRequest
    <2>6. received[c] # from[c]
      BY <1>4, <2>2, <2>4
    <2>7. at'[c] = "handle"
      BY <1>8, <2>2, <2>5, <2>6 DEF Returned, RequestType
    <2>8. HasRequest(c)' /\ (Inside(c)' \/ AtEnd(c)')
      BY <1>1, <1>2, <2>1, <2>2 DEF HasRequest, Inside, AtEnd
    <2>9. QED
      BY <1>1, <1>3, <2>7, <2>8, OtherStep
  <1>9. CASE MoreHeader(c)
    BY <1>9 DEF MoreHeader, OnRequest
  <1>10. CASE Handle(c)
    <2>1. at[c] = "handle" /\ at'[c] \in {"drain", "failed", "over"} /\ UNCHANGED <<base, from, caller>>
      BY <1>10 DEF Handle, Goto, RequestType, strings
    <2>2. HasRequest(c) /\ (Inside(c) \/ AtEnd(c))
      BY <2>1 DEF OnRequest
    <2>3. HasRequest(c)' /\ (Inside(c)' \/ AtEnd(c)')
      BY <1>1, <1>2, <2>1, <2>2 DEF HasRequest, Inside, AtEnd
    <2>4. QED
      BY <1>1, <1>3, <2>1, <2>3, OtherStep
  <1>11. CASE Drain(c)
    <2>1. (at[c] = "drain" \/ at[c] = "returned") /\ base' = base
      BY <1>11 DEF Drain
    <2>2. HasRequest(c) /\ (Inside(c) \/ AtEnd(c)) /\ HasRequest(c)'
      BY <1>2, <2>1 DEF OnRequest, HasRequest
    <2>3. End(c) \in Nat /\ Body(c) \in Nat /\ End(c) = Start(c) + 3 + Body(c)
      BY <1>5, <2>2
    <2>4. CASE /\ DataIsAvailable(c) /\ at'[c] = "receive" /\ caller'[c] = "drain"
               /\ from'[c] = received[c]
      <3>1. Inside(c)
        BY <2>2, <2>4 DEF DataIsAvailable, AtEnd
      <3>2. current[c] # 0
        BY <1>4, <2>3, <3>1 DEF Inside, HeaderLength
      <3>3. Draining(c)'
        BY <1>1, <1>2, <1>4, <2>2, <2>4, <3>1, <3>2 DEF Draining, Inside
      <3>4. QED
        BY <1>1, <1>3, <2>4, <3>3, OtherStep
    <2>5. CASE ~ DataIsAvailable(c) /\ at'[c] = "respond"
      <3>1. parsed[c] = current[c]
        BY <2>5 DEF DataIsAvailable
      <3>2. ~ Inside(c)
        BY <1>4, <2>3, <3>1 DEF Inside, HeaderLength
      <3>3. AtEnd(c)'
        BY <1>1, <1>2, <2>2, <3>2 DEF AtEnd
      <3>4. QED
        BY <1>1, <1>3, <2>2, <2>5, <3>3, OtherStep
    <2>6. QED
      BY <1>11, <2>4, <2>5 DEF Drain, Call, RequestType
  <1>12. QED
    BY <1>6, <1>7, <1>8, <1>9, <1>10, <1>11

(* A response is sent when the request has been received up to its end.    *)
LEMMA RespondStep ==
  ASSUME RequestType, RequestType', NEW c \in Clients, OnRequest(c), Respond(c), connected'[c]
  PROVE  OnRequest(c)'
  <1>1. /\ at[c] = "respond" /\ at'[c] = "loop"
        /\ UNCHANGED <<sent, received, current, parsed>>
    BY DEF Respond, Goto, RequestType, client, lengths
  <1>2. PICK i \in Handled(c) : answered' = [answered EXCEPT ![c] = Append(@, i)]
    BY DEF Respond, RequestType
  <1>3. HasRequest(c) /\ AtEnd(c)
    BY <1>1 DEF OnRequest
  <1>4. /\ Answers(c) <= Len(Bodies[c]) /\ Answers(c) \in Nat /\ Start(c) \in Nat
        /\ Answers(c) < Len(Bodies[c]) /\ Len(Bodies[c]) \in Nat
        /\ End(c) \in Nat /\ Body(c) \in Nat /\ End(c) = Start(c) + 3 + Body(c)
    BY <1>3, Numbers DEF OnRequest, HasRequest, HeaderLength
  <1>5. i = Answers(c) + 1
    BY <1>3, <1>4, TheNextRequest DEF HasRequest, Handled, Start
  <1>6. answered[c] \in Seq(Nat) /\ answered'[c] = Append(answered[c], i)
    BY <1>2 DEF RequestType
  <1>7. Answers(c)' = Answers(c) + 1
    BY <1>6 DEF Answers
  <1>8. Start(c)' = End(c)
    BY <1>7 DEF Start, End
  <1>9. \A j \in 1 .. Answers(c)' : answered'[c][j] = j
    <2>. TAKE j \in 1 .. Answers(c)'
    <2>1. CASE j = i
      BY <1>5, <1>6, <2>1 DEF Answers
    <2>2. CASE j # i
      <3>1. j \in 1 .. Answers(c)
        BY <1>4, <1>5, <1>7, <2>2
      <3>2. answered[c][j] = j /\ answered'[c][j] = answered[c][j]
        BY <1>6, <3>1 DEF OnRequest, Answers
      <3>3. QED
        BY <3>2
    <2>3. QED
      BY <2>1, <2>2
  <1>10. /\ received'[c] = Start(c)' /\ sent'[c] = Start(c)' /\ received'[c] <= sent'[c]
         /\ current'[c] = 0 /\ parsed'[c] = 0
    <2>1. received[c] = End(c) /\ current[c] = 0 /\ parsed[c] = 0
      BY <1>3 DEF AtEnd
    <2>2. sent[c] = End(c)
      <3>1. sent[c] = Start(c) \/ sent[c] = End(c)
        BY DEF OnRequest
      <3>2. received[c] <= sent[c]
        BY DEF OnRequest
      <3>3. QED
        BY <1>4, <2>1, <3>1, <3>2
    <2>3. QED
      BY <1>1, <1>4, <1>8, <2>1, <2>2
  <1>11. Answers(c)' <= Len(Bodies[c])
    BY <1>4, <1>7
  <1>12. QED
    BY <1>1, <1>9, <1>10, <1>11 DEF OnRequest

(* Every step of a connection keeps the invariant of all of them.          *)
LEMMA OneStep ==
  ASSUME RequestInv, HeadersAreWhole, NEW c \in Clients, ServerStep(c) \/ ClientStep(c)
  PROVE  RequestInv'
  <1>1. RequestType' /\ \A d \in Clients \ {c} : Same(d)
    BY EachIsAStep DEF RequestInv, StepOf
  <1>2. ASSUME NEW d \in Clients, connected'[d] PROVE OnRequest(d)'
    <2>1. CASE d # c
      <3>1. Same(d) /\ OnRequest(d)
        BY <1>1, <1>2, <2>1 DEF RequestInv, Same
      <3>2. Answers(d)' = Answers(d) /\ Start(d)' = Start(d) /\ End(d)' = End(d) /\ Body(d)' = Body(d)
        BY <3>1, SameRequest DEF Same
      <3>3. /\ Fetching(d)' = Fetching(d) /\ Draining(d)' = Draining(d) /\ HasRequest(d)' = HasRequest(d)
            /\ Inside(d)' = Inside(d) /\ AtEnd(d)' = AtEnd(d)
        BY <3>1, <3>2 DEF Same, Fetching, Draining, HasRequest, Inside, AtEnd
      <3>4. QED
        BY <3>1, <3>2, <3>3 DEF Same, OnRequest
    <2>2. CASE d = c
      <3>1. connected[c] /\ ~ Disconnect(c)
        BY <1>2, <2>2 DEF RequestInv, RequestType, ServerStep, ClientStep, Establish, NextRequest,
          Receive, Disconnect, Returned, MoreHeader, Handle, Drain, Respond, Send, CloseClient,
          socket
      <3>2. OnRequest(c) /\ RequestType
        BY <3>1 DEF RequestInv
      <3>3. CASE CloseClient(c)
        <4>1. UNCHANGED <<sent, answered, at, caller, received, base, from, length, header, current,
                          parsed>>
          BY <3>3 DEF CloseClient, socket, strings, lengths
        <4>2. Answers(c)' = Answers(c) /\ Start(c)' = Start(c) /\ End(c)' = End(c) /\ Body(c)' = Body(c)
          BY <4>1, SameRequest
        <4>3. QED
          BY <2>2, <3>2, <4>1, <4>2
          DEF OnRequest, Fetching, Draining, HasRequest, Inside, AtEnd
      <3>4. QED
        BY <1>1, <1>2, <2>2, <3>1, <3>2, <3>3, SendStep, ReceiveStep, LoopStep, RespondStep
        DEF ServerStep, ClientStep
    <2>3. QED
      BY <2>1, <2>2
  <1>3. QED
    BY <1>1, <1>2 DEF RequestInv

(* With headers that arrive in one piece, a response is sent only when the  *)
(* whole request has been taken off the connection: the requests are       *)
(* answered one by one, and no body is read as a request.                  *)
THEOREM RequestsAreAnswered ==
  ASSUME HeadersAreWhole
  PROVE  Spec => []AnswersWholeRequests
  <1>1. Init => RequestInv
    BY RequestsInitially DEF Init
  <1>2. RequestInv /\ [Next]_vars => RequestInv'
    <2>. SUFFICES ASSUME RequestInv, [Next]_vars PROVE RequestInv'
      OBVIOUS
    <2>1. CASE UNCHANGED requestVars
      <3>. USE DEF requestVars, client, socket, strings, lengths
      <3>1. RequestType'
        BY <2>1 DEF RequestInv, RequestType
      <3>2. ASSUME NEW c \in Clients PROVE OnRequest(c)' = OnRequest(c)
        <4>1. /\ Answers(c)' = Answers(c) /\ Start(c)' = Start(c) /\ End(c)' = End(c)
              /\ Body(c)' = Body(c)
          BY <2>1, SameRequest
        <4>2. QED
          BY <2>1, <4>1 DEF OnRequest, Fetching, Draining, HasRequest, Inside, AtEnd
      <3>3. QED
        BY <2>1, <3>1, <3>2 DEF RequestInv
    <2>2. ASSUME NEW c \in Clients, ServerStep(c) \/ ClientStep(c) PROVE RequestInv'
      BY <2>2, OneStep
    <2>3. QED
      BY <2>1, <2>2, ServerAssumption
      DEF Next, Connections, ThreadStep, Serve, Served, Client, Over, vars
  <1>3. RequestInv => AnswersWholeRequests
    <2>. SUFFICES ASSUME RequestInv, NEW c \in Clients, at[c] = "loop", connected[c]
                  PROVE  /\ received[c] = Ends[c][Len(answered[c])]
                         /\ \A i \in 1 .. Len(answered[c]) : answered[c][i] = i
      BY DEF AnswersWholeRequests
    <2>1. OnRequest(c)
      BY DEF RequestInv
    <2>2. QED
      BY <2>1 DEF OnRequest, Start, Answers
  <1>4. QED
    BY <1>1, <1>2, <1>3, PTL DEF Spec

=============================================================================
