------------------------- MODULE ThreadPool_proof -------------------------
(***************************************************************************)
(* Safety of ThreadPool for every number of workers and clients, every     *)
(* program and every set of tasks: IInv is inductive, and OneClaim,        *)
(* OneTaskPerWorker and NoEmptyFront follow from it; its strengthening     *)
(* TaskInv, in the second part, implies Conservation, and PromiseInv, in   *)
(* the third, that the pool implements TaskPool when all tasks of clients  *)
(* are submitted before Start.                                             *)
(*                                                                         *)
(* The argument: whoever is on standby, or has been taken off it by a      *)
(* thread that has not pushed yet, is idle (ClaimedAreIdle), so a push     *)
(* finds an empty queue; a worker adds itself to standby only from fetch,  *)
(* where it is not idle and hence not claimed.  A worker past the gate has *)
(* a task or has been told to stop, and ShouldStop is reset only after its *)
(* thread has ended (WorkerAt), so what it finds at the second read of     *)
(* ShouldStop agrees with what it left behind.                             *)
(***************************************************************************)
EXTENDS ThreadPool, TLAPS, SequenceTheorems, FiniteSetTheorems

(* Workers and clients are distinct threads. *)
LEMMA ThreadFacts ==
    /\ \A w \in Workers : w \in Threads
    /\ \A c \in Clients : c \in Threads
    /\ \A w \in Workers, c \in Clients : w # c
BY PoolAssumption DEF Threads

(* Goto moves the one thread it names. *)
LEMMA GotoFacts ==
  ASSUME TypeOK, NEW t \in Threads, NEW l \in Labels, Goto(t, l)
  PROVE  /\ pc' \in [Threads -> Labels]
         /\ pc'[t] = l
         /\ \A u \in Threads : u # t => pc'[u] = pc[u]
BY DEF TypeOK, Goto

(* A step that puts no worker on standby and takes none off. *)
NoNewClaims ==
    /\ standby' = standby
    /\ \A u \in Threads : pc'[u] = "assign" =>
         pc[u] = "assign" /\ target'[u] = target[u]

(* A step that leaves idle workers idle. *)
IdleKept == \A w \in Workers : Idle(w) => Idle(w)'

(* A step that claims no worker and keeps the idle ones idle keeps the two *)
(* invariants about claims.                                                *)
LEMMA ClaimsFrame ==
  ASSUME OneClaim, ClaimedAreIdle, NoNewClaims, IdleKept
  PROVE  OneClaim' /\ ClaimedAreIdle'
<1>1. OneClaim'
  BY DEF OneClaim, NoNewClaims, Assigns, OnStandby
<1>2. ClaimedAreIdle'
  BY DEF ClaimedAreIdle, NoNewClaims, IdleKept, Idle
<1> QED BY <1>1, <1>2

(* What a client has established survives the steps of other threads: they *)
(* leave its counters alone, never un-start the pool, and do not touch     *)
(* unborn workers.                                                         *)
LEMMA ClientFrame ==
  ASSUME NEW c \in Clients, ClientAt(c),
         pc'[c] = pc[c], ip'[c] = ip[c], target'[c] = target[c],
         poolRunning => poolRunning',
         pc[c] = "startAssign" /\ poolTasks # <<>> => poolTasks' # <<>>,
         \A w \in Workers : pc[w] = "unborn" /\ workerTasks[w] = <<>> =>
                            pc'[w] = "unborn" /\ workerTasks'[w] = <<>>
  PROVE  ClientAt(c)'
BY DEF ClientAt

(* Likewise for a worker whose own variables a step leaves alone. *)
LEMMA WorkerFrame ==
  ASSUME NEW w \in Workers, WorkerAt(w), pc'[w] = pc[w],
         spawn'[w] = spawn[w], workerTasks'[w] = workerTasks[w],
         shouldStop'[w] = shouldStop[w], separate'[w] = separate[w],
         poolRunning => poolRunning'
  PROVE  WorkerAt(w)'
BY DEF WorkerAt

(* Loop_Top keeps the invariant: an idle-looking worker goes to the pool,  *)
(* a worker with a task to the gate.                                       *)
LEMMA Loop_Top_Inv ==
  ASSUME IInv, NEW w \in Workers, Loop_Top(w) PROVE IInv'
<1> USE ThreadFacts
<1>1. TypeOK /\ WorkerAt(w)
  BY DEF IInv
<1>2. PICK l \in {"fetch", "gate"} : Goto(w, l)
  BY DEF Loop_Top
<1>3. /\ pc[w] = "top" /\ pc'[w] \in {"fetch", "gate"}
      /\ pc' \in [Threads -> Labels]
      /\ \A u \in Threads : u # w => pc'[u] = pc[u]
  BY <1>1, <1>2, GotoFacts DEF Loop_Top, Labels, AddSteps
<1>a. pc'[w] = (IF workerTasks[w] = <<>> THEN "fetch" ELSE "gate")
  BY <1>1 DEF TypeOK, Threads, Goto, Loop_Top
<1>4. TypeOK'
  BY <1>1, <1>3 DEF TypeOK, Loop_Top, poolVars, workerVars, history
<1>5. NoNewClaims /\ IdleKept
  BY <1>1, <1>3 DEF NoNewClaims, IdleKept, Idle, IdleLabels, Loop_Top, poolVars,
     workerVars, history
<1>6. ASSUME NEW v \in Workers PROVE WorkerAt(v)'
  <2>1. CASE v = w
    BY <1>a, <1>1, <1>3, <2>1 DEF Loop_Top, WorkerAt, WorkerLabels, IdleLabels,
       AddSteps, poolVars, workerVars, history
  <2>2. CASE v # w
    BY <1>1, <1>3, <2>2, WorkerFrame DEF IInv, Loop_Top, poolVars, workerVars, history
  <2> QED BY <2>1, <2>2
<1>7. ASSUME NEW c \in Clients PROVE ClientAt(c)'
  BY <1>1, <1>3, ClientFrame DEF IInv, Loop_Top, poolVars, workerVars, history
<1>8. /\ OneTaskPerWorker'
      /\ \A t \in Threads : pc'[t] \in {"assign", "notify"} => target'[t] \in Workers
  BY <1>1, <1>3 DEF IInv, TypeOK, OneTaskPerWorker, Loop_Top, poolVars, workerVars, history
<1> QED BY <1>4, <1>5, <1>6, <1>7, <1>8, ClaimsFrame DEF IInv

(* Loop_Fetch keeps the invariant: the queue it fetches into is empty, and *)
(* the worker it puts on standby is itself, claimed by nobody.             *)
LEMMA Loop_Fetch_Inv ==
  ASSUME IInv, NEW w \in Workers, Loop_Fetch(w) PROVE IInv'
<1> USE ThreadFacts
<1>1. TypeOK /\ WorkerAt(w)
  BY DEF IInv
<1>2. PICK l \in {"announce"} : Goto(w, l)
  BY DEF Loop_Fetch
<1>3. /\ pc[w] = "fetch" /\ pc'[w] \in {"announce"}
      /\ pc' \in [Threads -> Labels]
      /\ \A u \in Threads : u # w => pc'[u] = pc[u]
  BY <1>1, <1>2, GotoFacts DEF Loop_Fetch, Labels, AddSteps
<1>a. CASE poolTasks # <<>>
  <2>1. workerTasks' = [workerTasks EXCEPT ![w] = Append(@, Head(poolTasks))]
        /\ poolTasks' = Tail(poolTasks) /\ standby' = standby
    BY <1>a DEF Loop_Fetch
  <2>2. workerTasks[w] = <<>> /\ ~ Idle(w)
    BY <1>1, <1>3 DEF WorkerAt, Idle, IdleLabels
  <2>3. /\ Head(poolTasks) \in Tasks /\ poolTasks' \in Seq(Tasks)
        /\ workerTasks'[w] = Append(<<>>, Head(poolTasks))
        /\ workerTasks' \in [Workers -> Seq(Tasks)]
        /\ \A v \in Workers : v # w => workerTasks'[v] = workerTasks[v]
    BY <1>a, <1>1, <2>1, <2>2, HeadTailProperties, AppendProperties DEF TypeOK
  <2>4. workerTasks'[w] # <<>> /\ Len(workerTasks'[w]) = 1
    BY <2>3, EmptySeq, AppendProperties
  <2>5. TypeOK'
    BY <1>1, <1>3, <2>1, <2>3 DEF TypeOK, Loop_Fetch, history
  <2>6. NoNewClaims /\ IdleKept
    BY <1>3, <2>1, <2>2, <2>3 DEF NoNewClaims, IdleKept, Idle, Loop_Fetch
  <2>7. ASSUME NEW v \in Workers PROVE WorkerAt(v)'
    <3>1. CASE v = w
      BY <1>1, <1>3, <2>4, <3>1 DEF Loop_Fetch, WorkerAt, WorkerLabels, IdleLabels, AddSteps
    <3>2. CASE v # w
      BY <1>1, <1>3, <2>3, <3>2, WorkerFrame DEF IInv, Loop_Fetch
    <3> QED BY <3>1, <3>2
  <2>8. ASSUME NEW c \in Clients PROVE ClientAt(c)'
    <3>1. pc[c] # "startAssign"
      BY DEF Loop_Fetch, PoolMutexFree
    <3> QED BY <1>1, <1>3, <2>3, <3>1, ClientFrame DEF IInv, Loop_Fetch
  <2>9. /\ OneTaskPerWorker'
        /\ \A t \in Threads : pc'[t] \in {"assign", "notify"} => target'[t] \in Workers
    BY SMTT(30), <1>3, <2>3, <2>4 DEF IInv, OneTaskPerWorker, Loop_Fetch
  <2> QED BY <2>5, <2>6, <2>7, <2>8, <2>9, ClaimsFrame DEF IInv
<1>b. CASE poolTasks = <<>>
  <2>1. /\ standby' = Append(standby, w)
        /\ UNCHANGED <<ip, target, spawn, poolTasks, poolRunning, workerVars, history>>
    BY <1>b DEF Loop_Fetch, workerVars
  <2>2. /\ Len(standby') = Len(standby) + 1 /\ Len(standby) \in Nat
        /\ DOMAIN standby = 1..Len(standby) /\ DOMAIN standby' = 1..Len(standby')
        /\ standby' \in Seq(Workers)
        /\ \A i \in DOMAIN standby : standby'[i] = standby[i]
        /\ standby'[Len(standby')] = w
    <3>1. standby \in Seq(Workers)
      BY <1>1 DEF TypeOK
    <3>2. /\ standby' \in Seq(Workers) /\ Len(standby') = Len(standby) + 1
          /\ \A i \in 1..Len(standby) : standby'[i] = standby[i]
          /\ standby'[Len(standby) + 1] = w
      BY <3>1, <2>1, AppendProperties
    <3>3. /\ Len(standby) \in Nat /\ DOMAIN standby = 1..Len(standby)
          /\ DOMAIN standby' = 1..Len(standby')
      BY <3>1, <3>2, LenProperties
    <3> QED BY <3>2, <3>3
  <2>3. TypeOK'
    BY <1>1, <1>3, <2>1, <2>2 DEF TypeOK, workerVars, history
  <2>4. ~ Idle(w) /\ workerTasks[w] = <<>> /\ separate[w] = <<>>
    BY <1>1, <1>3 DEF WorkerAt, Idle, IdleLabels, AddSteps
  <2>5. \A v \in Workers : Idle(v) => Idle(v)'
    BY <1>3, <2>1, <2>4 DEF Idle, workerVars
  <2>6. Idle(w)'
    BY <1>2, <1>3, <2>1, <2>4 DEF Idle, IdleLabels, workerVars
  <2>7. /\ \A i \in DOMAIN standby : standby[i] # w
        /\ \A t \in Threads : pc[t] = "assign" => target[t] # w
    BY <2>4 DEF IInv, ClaimedAreIdle
  <2>8. \A t \in Threads : pc'[t] = "assign" => pc[t] = "assign" /\ t # w
    BY <1>3
  <2>9. OneClaim'
    <3>1. \A i, j \in DOMAIN standby' : standby'[i] = standby'[j] => i = j
      BY <2>2, <2>7 DEF IInv, OneClaim
    <3>2. ASSUME NEW t \in Threads, NEW v \in Workers, Assigns(t, v)'
          PROVE  /\ ~ OnStandby(v)'
                 /\ \A u \in Threads : Assigns(u, v)' => u = t
      <4>1. Assigns(t, v) /\ v # w
        BY <2>1, <2>7, <2>8, <3>2 DEF Assigns
      <4>2. ~ OnStandby(v)'
        BY <2>2, <4>1 DEF IInv, OneClaim, OnStandby
      <4>3. \A u \in Threads : Assigns(u, v)' => Assigns(u, v)
        BY <2>1, <2>8 DEF Assigns
      <4> QED BY <4>1, <4>2, <4>3 DEF IInv, OneClaim
    <3> QED BY <3>1, <3>2 DEF OneClaim
  <2>10. ClaimedAreIdle'
    <3>1. ASSUME NEW i \in DOMAIN standby' PROVE Idle(standby[i])'
      <4>1. CASE i \in DOMAIN standby
        <5>1. PICK v \in Workers : v = standby[i]
          BY <1>1, <4>1, ElementOfSeq, <2>2 DEF TypeOK
        <5>2. Idle(v)'
          BY <2>5, <4>1, <5>1 DEF IInv, ClaimedAreIdle
        <5> QED BY <2>2, <4>1, <5>1, <5>2
      <4>2. CASE i = Len(standby')
        BY <2>2, <2>6, <4>2
      <4> QED BY <2>2, <4>1, <4>2
    <3>2. ASSUME NEW t \in Threads, pc'[t] = "assign" PROVE Idle(target[t])'
      <4>1. PICK v \in Workers : v = target[t]
        BY <2>8, <3>2 DEF IInv
      <4>2. Idle(v)'
        BY <2>5, <2>8, <3>2, <4>1 DEF IInv, ClaimedAreIdle
      <4> QED BY <2>1, <4>1, <4>2
    <3> QED BY <3>1, <3>2 DEF ClaimedAreIdle
  <2>11. ASSUME NEW v \in Workers PROVE WorkerAt(v)'
    <3>1. CASE v = w
      BY <1>1, <1>3, <2>1, <2>4, <3>1 DEF WorkerAt, WorkerLabels, IdleLabels, AddSteps,
         workerVars
    <3>2. CASE v # w
      BY <1>1, <1>3, <2>1, <3>2, WorkerFrame DEF IInv, workerVars
    <3> QED BY <3>1, <3>2
  <2>12. ASSUME NEW c \in Clients PROVE ClientAt(c)'
    BY <1>3, <2>1, ClientFrame DEF IInv, workerVars
  <2>13. /\ OneTaskPerWorker'
         /\ \A t \in Threads : pc'[t] \in {"assign", "notify"} => target'[t] \in Workers
    BY <1>3, <2>1 DEF IInv, OneTaskPerWorker, workerVars
  <2> QED BY <2>3, <2>9, <2>10, <2>11, <2>12, <2>13 DEF IInv
<1> QED BY <1>a, <1>b

(* Loop_Park keeps the invariant: parking keeps the mutex's promises. *)
LEMMA Loop_Park_Inv ==
  ASSUME IInv, NEW w \in Workers, Loop_Park(w) PROVE IInv'
<1> USE ThreadFacts
<1>1. TypeOK /\ WorkerAt(w)
  BY DEF IInv
<1>2. PICK l \in {"parked"} : Goto(w, l)
  BY DEF Loop_Park
<1>3. /\ pc[w] = "gate" /\ pc'[w] \in {"parked"}
      /\ pc' \in [Threads -> Labels]
      /\ \A u \in Threads : u # w => pc'[u] = pc[u]
  BY <1>1, <1>2, GotoFacts DEF Loop_Park, Labels, AddSteps
<1>4. TypeOK'
  BY <1>1, <1>3 DEF TypeOK, Loop_Park, poolVars, workerVars, history
<1>5. NoNewClaims /\ IdleKept
  BY <1>1, <1>3 DEF NoNewClaims, IdleKept, Idle, IdleLabels, Loop_Park, poolVars,
     workerVars, history
<1>6. ASSUME NEW v \in Workers PROVE WorkerAt(v)'
  <2>1. CASE v = w
    BY <1>1, <1>3, <2>1 DEF Loop_Park, WorkerAt, WorkerLabels, IdleLabels, AddSteps,
       poolVars, workerVars, history
  <2>2. CASE v # w
    BY <1>1, <1>3, <2>2, WorkerFrame DEF IInv, Loop_Park, poolVars, workerVars, history
  <2> QED BY <2>1, <2>2
<1>7. ASSUME NEW c \in Clients PROVE ClientAt(c)'
  BY <1>1, <1>3, ClientFrame DEF IInv, Loop_Park, poolVars, workerVars, history
<1>8. /\ OneTaskPerWorker'
      /\ \A t \in Threads : pc'[t] \in {"assign", "notify"} => target'[t] \in Workers
  BY <1>1, <1>3 DEF IInv, TypeOK, OneTaskPerWorker, Loop_Park, poolVars, workerVars, history
<1> QED BY <1>4, <1>5, <1>6, <1>7, <1>8, ClaimsFrame DEF IInv

(* Loop_Unpark keeps the invariant: a woken worker checks again. *)
LEMMA Loop_Unpark_Inv ==
  ASSUME IInv, NEW w \in Workers, Loop_Unpark(w) PROVE IInv'
<1> USE ThreadFacts
<1>1. TypeOK /\ WorkerAt(w)
  BY DEF IInv
<1>2. PICK l \in {"gate"} : Goto(w, l)
  BY DEF Loop_Unpark
<1>3. /\ pc[w] = "unparked" /\ pc'[w] \in {"gate"}
      /\ pc' \in [Threads -> Labels]
      /\ \A u \in Threads : u # w => pc'[u] = pc[u]
  BY <1>1, <1>2, GotoFacts DEF Loop_Unpark, Labels, AddSteps
<1>4. TypeOK'
  BY <1>1, <1>3 DEF TypeOK, Loop_Unpark, poolVars, workerVars, history
<1>5. NoNewClaims /\ IdleKept
  BY <1>1, <1>3 DEF NoNewClaims, IdleKept, Idle, IdleLabels, Loop_Unpark, poolVars,
     workerVars, history
<1>6. ASSUME NEW v \in Workers PROVE WorkerAt(v)'
  <2>1. CASE v = w
    BY <1>1, <1>3, <2>1 DEF Loop_Unpark, WorkerAt, WorkerLabels, IdleLabels, AddSteps,
       poolVars, workerVars, history
  <2>2. CASE v # w
    BY <1>1, <1>3, <2>2, WorkerFrame DEF IInv, Loop_Unpark, poolVars, workerVars, history
  <2> QED BY <2>1, <2>2
<1>7. ASSUME NEW c \in Clients PROVE ClientAt(c)'
  BY <1>1, <1>3, ClientFrame DEF IInv, Loop_Unpark, poolVars, workerVars, history
<1>8. /\ OneTaskPerWorker'
      /\ \A t \in Threads : pc'[t] \in {"assign", "notify"} => target'[t] \in Workers
  BY <1>1, <1>3 DEF IInv, TypeOK, OneTaskPerWorker, Loop_Unpark, poolVars, workerVars,
     history
<1> QED BY <1>4, <1>5, <1>6, <1>7, <1>8, ClaimsFrame DEF IInv

(* Loop_Leave keeps the invariant: past the gate there is a task or a      *)
(* stop.                                                                   *)
LEMMA Loop_Leave_Inv ==
  ASSUME IInv, NEW w \in Workers, Loop_Leave(w) PROVE IInv'
<1> USE ThreadFacts
<1>1. TypeOK /\ WorkerAt(w)
  BY DEF IInv
<1>2. PICK l \in {"branch"} : Goto(w, l)
  BY DEF Loop_Leave
<1>3. /\ pc[w] = "gate" /\ pc'[w] \in {"branch"}
      /\ pc' \in [Threads -> Labels]
      /\ \A u \in Threads : u # w => pc'[u] = pc[u]
  BY <1>1, <1>2, GotoFacts DEF Loop_Leave, Labels, AddSteps
<1>a. /\ workerTasks'[w] = (IF shouldStop[w] THEN <<>> ELSE workerTasks[w])
      /\ separate'[w] = (IF shouldStop[w] THEN workerTasks[w] ELSE separate[w])
      /\ \A v \in Workers : v # w => /\ workerTasks'[v] = workerTasks[v]
                                     /\ separate'[v] = separate[v]
  BY <1>1 DEF TypeOK, Loop_Leave
<1>4. TypeOK'
  <2>1. /\ workerTasks' \in [Workers -> Seq(Tasks)]
        /\ separate' \in [Workers -> Seq(Tasks)]
    <3>1. <<>> \in Seq(Tasks) /\ workerTasks[w] \in Seq(Tasks)
      BY <1>1, EmptySeq DEF TypeOK
    <3> QED BY ZenonT(60), <1>1, <3>1 DEF TypeOK, Loop_Leave
  <2> QED BY <1>1, <1>3, <2>1 DEF TypeOK, Loop_Leave, poolVars, history
<1>5. NoNewClaims /\ IdleKept
  BY <1>a, <1>1, <1>3 DEF NoNewClaims, IdleKept, Idle, IdleLabels, Loop_Leave,
     WorkerAt, poolVars, workerVars
<1>6. ASSUME NEW v \in Workers PROVE WorkerAt(v)'
  <2>1. CASE v = w
    BY <1>a, <1>1, <1>3, <2>1 DEF Loop_Leave, WorkerAt, WorkerLabels, IdleLabels,
       AddSteps, poolVars
  <2>2. CASE v # w
    BY <1>a, <1>1, <1>3, <2>2, WorkerFrame DEF IInv, Loop_Leave, poolVars
  <2> QED BY <2>1, <2>2
<1>7. ASSUME NEW c \in Clients PROVE ClientAt(c)'
  BY <1>a, <1>1, <1>3, ClientFrame DEF IInv, Loop_Leave, poolVars
<1>8. /\ OneTaskPerWorker'
      /\ \A t \in Threads : pc'[t] \in {"assign", "notify"} => target'[t] \in Workers
  <2>1. \A v \in Workers : Len(workerTasks'[v]) <= 1
    BY <1>a, EmptySeq DEF IInv, OneTaskPerWorker
  <2> QED BY <1>3, <2>1 DEF IInv, OneTaskPerWorker, Loop_Leave
<1> QED BY <1>4, <1>5, <1>6, <1>7, <1>8, ClaimsFrame DEF IInv

(* Loop_Branch keeps the invariant: the second read of ShouldStop cannot   *)
(* turn a stop into an execution.                                          *)
LEMMA Loop_Branch_Inv ==
  ASSUME IInv, NEW w \in Workers, Loop_Branch(w) PROVE IInv'
<1> USE ThreadFacts
<1>1. TypeOK /\ WorkerAt(w)
  BY DEF IInv
<1>2. PICK l \in {"drain", "execLock"} : Goto(w, l)
  BY DEF Loop_Branch
<1>3. /\ pc[w] = "branch" /\ pc'[w] \in {"drain", "execLock"}
      /\ pc' \in [Threads -> Labels]
      /\ \A u \in Threads : u # w => pc'[u] = pc[u]
  BY <1>1, <1>2, GotoFacts DEF Loop_Branch, Labels, AddSteps
<1>a. pc'[w] = (IF shouldStop[w] THEN "drain" ELSE "execLock")
  BY <1>1 DEF TypeOK, Threads, Goto, Loop_Branch
<1>4. TypeOK'
  BY <1>1, <1>3 DEF TypeOK, Loop_Branch, poolVars, workerVars, history
<1>5. NoNewClaims /\ IdleKept
  BY <1>a, <1>1, <1>3 DEF NoNewClaims, IdleKept, Idle, IdleLabels, Loop_Branch,
     WorkerAt, poolVars, workerVars
<1>6. ASSUME NEW v \in Workers PROVE WorkerAt(v)'
  <2>1. CASE v = w
    BY <1>a, <1>1, <1>3, <2>1 DEF Loop_Branch, WorkerAt, WorkerLabels, IdleLabels,
       AddSteps, poolVars, workerVars, history
  <2>2. CASE v # w
    BY <1>1, <1>3, <2>2, WorkerFrame DEF IInv, Loop_Branch, poolVars, workerVars, history
  <2> QED BY <2>1, <2>2
<1>7. ASSUME NEW c \in Clients PROVE ClientAt(c)'
  BY <1>1, <1>3, ClientFrame DEF IInv, Loop_Branch, poolVars, workerVars, history
<1>8. /\ OneTaskPerWorker'
      /\ \A t \in Threads : pc'[t] \in {"assign", "notify"} => target'[t] \in Workers
  BY <1>1, <1>3 DEF IInv, TypeOK, OneTaskPerWorker, Loop_Branch, poolVars, workerVars,
     history
<1> QED BY <1>4, <1>5, <1>6, <1>7, <1>8, ClaimsFrame DEF IInv

(* Loop_Execute keeps the invariant: the front task is there. *)
LEMMA Loop_Execute_Inv ==
  ASSUME IInv, NEW w \in Workers, Loop_Execute(w) PROVE IInv'
<1> USE ThreadFacts
<1>1. TypeOK /\ WorkerAt(w)
  BY DEF IInv
<1>2. PICK l \in {"running"} : Goto(w, l)
  BY DEF Loop_Execute
<1>3. /\ pc[w] = "execLock" /\ pc'[w] \in {"running"}
      /\ pc' \in [Threads -> Labels]
      /\ \A u \in Threads : u # w => pc'[u] = pc[u]
  BY <1>1, <1>2, GotoFacts DEF Loop_Execute, Labels, AddSteps
<1>4. TypeOK'
  <2>1. Children[Head(workerTasks[w])] \in Seq(Tasks)
    BY <1>1, <1>3, HeadTailProperties, PoolAssumption DEF TypeOK, WorkerAt
  <2> QED BY <1>1, <1>3, <2>1 DEF TypeOK, Loop_Execute, poolVars, workerVars, history
<1>5. NoNewClaims /\ IdleKept
  BY <1>1, <1>3 DEF NoNewClaims, IdleKept, Idle, IdleLabels, Loop_Execute, poolVars,
     workerVars, history
<1>6. ASSUME NEW v \in Workers PROVE WorkerAt(v)'
  <2>1. CASE v = w
    BY <1>1, <1>3, <2>1 DEF Loop_Execute, WorkerAt, WorkerLabels, IdleLabels, AddSteps,
       poolVars, workerVars, history
  <2>2. CASE v # w
    BY <1>1, <1>3, <2>2, WorkerFrame DEF IInv, TypeOK, Loop_Execute, poolVars,
       workerVars, history
  <2> QED BY <2>1, <2>2
<1>7. ASSUME NEW c \in Clients PROVE ClientAt(c)'
  BY <1>1, <1>3, ClientFrame DEF IInv, Loop_Execute, poolVars, workerVars, history
<1>8. /\ OneTaskPerWorker'
      /\ \A t \in Threads : pc'[t] \in {"assign", "notify"} => target'[t] \in Workers
  BY <1>1, <1>3 DEF IInv, TypeOK, OneTaskPerWorker, Loop_Execute, poolVars, workerVars,
     history
<1> QED BY <1>4, <1>5, <1>6, <1>7, <1>8, ClaimsFrame DEF IInv

(* Loop_Executed keeps the invariant: the executed task is the one popped. *)
LEMMA Loop_Executed_Inv ==
  ASSUME IInv, NEW w \in Workers, Loop_Executed(w) PROVE IInv'
<1> USE ThreadFacts
<1>1. TypeOK /\ WorkerAt(w)
  BY DEF IInv
<1>2. PICK l \in {"top"} : Goto(w, l)
  BY DEF Loop_Executed
<1>3. /\ pc[w] = "running" /\ pc'[w] \in {"top"}
      /\ pc' \in [Threads -> Labels]
      /\ \A u \in Threads : u # w => pc'[u] = pc[u]
  BY <1>1, <1>2, GotoFacts DEF Loop_Executed, Labels, AddSteps
<1>a. /\ workerTasks[w] \in Seq(Tasks) /\ workerTasks[w] # <<>>
  BY <1>1, <1>3 DEF TypeOK, WorkerAt, Loop_Executed
<1>b. /\ Head(workerTasks[w]) \in Tasks /\ Tail(workerTasks[w]) \in Seq(Tasks)
      /\ workerTasks' \in [Workers -> Seq(Tasks)] /\ workerTasks'[w] = Tail(workerTasks[w])
      /\ \A v \in Workers : v # w => workerTasks'[v] = workerTasks[v]
  BY <1>a, <1>1, HeadTailProperties DEF TypeOK, Loop_Executed
<1>4. TypeOK'
  <2>1. runs' \in [Tasks -> Nat]
    BY <1>1, <1>b DEF TypeOK, Loop_Executed
  <2> QED BY <1>1, <1>3, <1>b, <2>1 DEF TypeOK, Loop_Executed, poolVars
<1>5. NoNewClaims /\ IdleKept
  BY <1>b, <1>1, <1>3 DEF NoNewClaims, IdleKept, Idle, IdleLabels, Loop_Executed, poolVars
<1>6. ASSUME NEW v \in Workers PROVE WorkerAt(v)'
  <2>1. CASE v = w
    BY <1>1, <1>3, <2>1 DEF Loop_Executed, WorkerAt, WorkerLabels, IdleLabels,
       AddSteps, poolVars
  <2>2. CASE v # w
    BY <1>b, <1>1, <1>3, <2>2, WorkerFrame DEF IInv, Loop_Executed, poolVars
  <2> QED BY <2>1, <2>2
<1>7. ASSUME NEW c \in Clients PROVE ClientAt(c)'
  BY <1>b, <1>1, <1>3, ClientFrame DEF IInv, Loop_Executed, poolVars
<1>8. /\ OneTaskPerWorker'
      /\ \A t \in Threads : pc'[t] \in {"assign", "notify"} => target'[t] \in Workers
  <2>1. Len(workerTasks'[w]) <= 1
    BY <1>a, <1>b, HeadTailProperties, LenProperties DEF IInv, OneTaskPerWorker
  <2> QED BY <1>b, <1>3, <2>1 DEF IInv, OneTaskPerWorker, Loop_Executed
<1> QED BY <1>4, <1>5, <1>6, <1>7, <1>8, ClaimsFrame DEF IInv

(* Loop_DrainNext keeps the invariant: the next task set aside, or the     *)
(* end.                                                                    *)
LEMMA Loop_DrainNext_Inv ==
  ASSUME IInv, NEW w \in Workers, Loop_DrainNext(w) PROVE IInv'
<1> USE ThreadFacts
<1>1. TypeOK /\ WorkerAt(w)
  BY DEF IInv
<1>2. PICK l \in {"running", "exited"} : Goto(w, l)
  BY DEF Loop_DrainNext
<1>3. /\ pc[w] = "drain" /\ pc'[w] \in {"running", "exited"}
      /\ pc' \in [Threads -> Labels]
      /\ \A u \in Threads : u # w => pc'[u] = pc[u]
  BY <1>1, <1>2, GotoFacts DEF Loop_DrainNext, Labels, AddSteps
<1>a. /\ pc'[w] = (IF separate[w] # <<>> THEN "running" ELSE "exited")
      /\ spawn' \in [Workers -> Seq(Tasks)]
      /\ \A v \in Workers : v # w => spawn'[v] = spawn[v]
  <2>1. CASE separate[w] # <<>>
    <3>1. Children[Head(separate[w])] \in Seq(Tasks)
      BY <1>1, <2>1, HeadTailProperties, PoolAssumption DEF TypeOK
    <3> QED BY <1>1, <2>1, <3>1 DEF TypeOK, Threads, Goto, Loop_DrainNext
  <2>2. CASE separate[w] = <<>>
    BY <1>1, <2>2 DEF TypeOK, Threads, Goto, Loop_DrainNext
  <2> QED BY <2>1, <2>2
<1>4. TypeOK'
  BY <1>a, <1>1, <1>3 DEF TypeOK, Loop_DrainNext, poolVars, workerVars, history
<1>5. NoNewClaims /\ IdleKept
  BY <1>a, <1>1, <1>3 DEF NoNewClaims, IdleKept, Idle, IdleLabels, Loop_DrainNext,
     poolVars, workerVars, history
<1>6. ASSUME NEW v \in Workers PROVE WorkerAt(v)'
  <2>1. CASE v = w
    BY <1>a, <1>1, <1>3, <2>1 DEF Loop_DrainNext, WorkerAt, WorkerLabels, IdleLabels,
       AddSteps, poolVars, workerVars, history
  <2>2. CASE v # w
    BY <1>a, <1>1, <1>3, <2>2, WorkerFrame DEF IInv, Loop_DrainNext, poolVars,
       workerVars, history
  <2> QED BY <2>1, <2>2
<1>7. ASSUME NEW c \in Clients PROVE ClientAt(c)'
  BY <1>1, <1>3, ClientFrame DEF IInv, Loop_DrainNext, poolVars, workerVars, history
<1>8. /\ OneTaskPerWorker'
      /\ \A t \in Threads : pc'[t] \in {"assign", "notify"} => target'[t] \in Workers
  BY <1>1, <1>3 DEF IInv, TypeOK, OneTaskPerWorker, Loop_DrainNext, poolVars,
     workerVars, history
<1> QED BY <1>4, <1>5, <1>6, <1>7, <1>8, ClaimsFrame DEF IInv

(* Loop_Drained keeps the invariant: the task set aside is consumed. *)
LEMMA Loop_Drained_Inv ==
  ASSUME IInv, NEW w \in Workers, Loop_Drained(w) PROVE IInv'
<1> USE ThreadFacts
<1>1. TypeOK /\ WorkerAt(w)
  BY DEF IInv
<1>2. PICK l \in {"drain"} : Goto(w, l)
  BY DEF Loop_Drained
<1>3. /\ pc[w] = "running" /\ pc'[w] \in {"drain"}
      /\ pc' \in [Threads -> Labels]
      /\ \A u \in Threads : u # w => pc'[u] = pc[u]
  BY <1>1, <1>2, GotoFacts DEF Loop_Drained, Labels, AddSteps
<1>a. /\ separate[w] \in Seq(Tasks) /\ separate[w] # <<>>
  BY <1>1, <1>3 DEF TypeOK, WorkerAt, Loop_Drained
<1>b. /\ Head(separate[w]) \in Tasks /\ Tail(separate[w]) \in Seq(Tasks)
      /\ separate' \in [Workers -> Seq(Tasks)] /\ separate'[w] = Tail(separate[w])
      /\ \A v \in Workers : v # w => separate'[v] = separate[v]
  BY <1>a, <1>1, HeadTailProperties DEF TypeOK, Loop_Drained
<1>4. TypeOK'
  <2>1. runs' \in [Tasks -> Nat]
    BY SMTT(30), <1>1, <1>b DEF TypeOK, Loop_Drained
  <2> QED BY <1>1, <1>3, <1>b, <2>1 DEF TypeOK, Loop_Drained, poolVars
<1>5. NoNewClaims /\ IdleKept
  BY <1>a, <1>b, <1>1, <1>3 DEF NoNewClaims, IdleKept, Idle, IdleLabels, Loop_Drained,
     poolVars
<1>6. ASSUME NEW v \in Workers PROVE WorkerAt(v)'
  <2>1. CASE v = w
    BY <1>1, <1>3, <2>1 DEF Loop_Drained, WorkerAt, WorkerLabels, IdleLabels, AddSteps,
       poolVars
  <2>2. CASE v # w
    BY <1>b, <1>1, <1>3, <2>2, WorkerFrame DEF IInv, Loop_Drained, poolVars
  <2> QED BY <2>1, <2>2
<1>7. ASSUME NEW c \in Clients PROVE ClientAt(c)'
  BY <1>1, <1>3, ClientFrame DEF IInv, Loop_Drained, poolVars
<1>8. /\ OneTaskPerWorker'
      /\ \A t \in Threads : pc'[t] \in {"assign", "notify"} => target'[t] \in Workers
  BY <1>1, <1>3 DEF IInv, OneTaskPerWorker, Loop_Drained
<1> QED BY <1>4, <1>5, <1>6, <1>7, <1>8, ClaimsFrame DEF IInv

(* A client about to make a call is within its program, and only the owner *)
(* starts and stops.                                                       *)
LEMMA AtCallFacts ==
  ASSUME TypeOK, NEW c \in Clients, ClientAt(c), NEW op, AtCall(c, op)
  PROVE  /\ pc[c] = "idle"
         /\ ip[c] \in DOMAIN Program[c] /\ Program[c][ip[c]].op = op
         /\ op \in {"Start", "Stop"} => c = Owner
<1>1. Program[c] \in Seq(Calls) /\ ip[c] \in Nat
  BY PoolAssumption DEF TypeOK
<1>2. DOMAIN Program[c] = 1..Len(Program[c]) /\ Len(Program[c]) \in Nat
  BY <1>1, LenProperties
<1> QED BY <1>1, <1>2, PoolAssumption DEF AtCall, ClientAt

(* A client's next call only moves forward, and only its own. *)
LEMMA IpFacts ==
  ASSUME TypeOK, NEW c \in Clients, ClientAt(c), Return(c) \/ ip' = ip
  PROVE  /\ ip' \in [Clients -> Nat] /\ ip'[c] >= 1
         /\ \A d \in Clients : d # c => ip'[d] = ip[d]
<1>1. CASE Return(c)
  BY <1>1 DEF TypeOK, ClientAt, Return
<1>2. CASE ip' = ip
  BY <1>2 DEF TypeOK, ClientAt
<1> QED BY <1>1, <1>2

(* Start_Return keeps the invariant: all workers have been started. *)
LEMMA Start_Return_Inv ==
  ASSUME IInv, NEW c \in Clients, Start_Return(c) PROVE IInv'
<1> USE ThreadFacts
<1>1. TypeOK /\ ClientAt(c)
  BY DEF IInv
<1>2. PICK l \in {"idle"} : Goto(c, l)
  BY DEF Start_Return, Return
<1>3. /\ pc[c] \in {"startLock"} /\ pc'[c] \in {"idle"}
      /\ pc' \in [Threads -> Labels]
      /\ \A u \in Threads : u # c => pc'[u] = pc[u]
  BY <1>1, <1>2, GotoFacts DEF Start_Return, Labels, AddSteps
<1>b. /\ ip' \in [Clients -> Nat] /\ ip'[c] >= 1
      /\ \A d \in Clients : d # c => ip'[d] = ip[d]
  BY <1>1, IpFacts DEF Start_Return
<1>4. TypeOK'
  BY <1>1, <1>3, <1>b DEF TypeOK, Start_Return, poolVars, workerVars, history
<1>5. NoNewClaims /\ IdleKept
  BY <1>1, <1>3 DEF NoNewClaims, IdleKept, Idle, Start_Return, poolVars, workerVars, history
<1>6. ASSUME NEW v \in Workers PROVE WorkerAt(v)'
  BY <1>1, <1>3, WorkerFrame DEF IInv, Start_Return, poolVars, workerVars, history
<1>7. ASSUME NEW d \in Clients PROVE ClientAt(d)'
  <2>1. CASE d = c
    BY <1>1, <1>3, <1>b, <2>1 DEF Start_Return, ClientAt, ClientLabels, StartLabels,
       StopLabels, AddSteps, poolVars, workerVars, history
  <2>2. CASE d # c
    BY <1>1, <1>3, <1>b, <2>2, ClientFrame DEF IInv, Start_Return, poolVars,
       workerVars, history
  <2> QED BY <2>1, <2>2
<1>8. /\ OneTaskPerWorker'
      /\ \A t \in Threads : pc'[t] \in {"assign", "notify"} => target'[t] \in Workers
  BY <1>1, <1>3 DEF IInv, OneTaskPerWorker, Start_Return, poolVars, workerVars, history
<1> QED BY <1>4, <1>5, <1>6, <1>7, <1>8, ClaimsFrame DEF IInv

(* Wait_Check keeps the invariant: waiting touches nothing else. *)
LEMMA Wait_Check_Inv ==
  ASSUME IInv, NEW c \in Clients, Wait_Check(c) PROVE IInv'
<1> USE ThreadFacts
<1>1. TypeOK /\ ClientAt(c)
  BY DEF IInv
<1>2. PICK l \in {"idle", "waiting"} : Goto(c, l)
  BY DEF Wait_Check, Return
<1>3. /\ pc[c] \in {"idle", "woken"} /\ pc'[c] \in {"idle", "waiting"}
      /\ pc' \in [Threads -> Labels]
      /\ \A u \in Threads : u # c => pc'[u] = pc[u]
  BY <1>1, <1>2, GotoFacts DEF Wait_Check, AtCall, Labels, AddSteps
<1>b. /\ ip' \in [Clients -> Nat] /\ ip'[c] >= 1
      /\ \A d \in Clients : d # c => ip'[d] = ip[d]
  BY <1>1, IpFacts DEF Wait_Check
<1>4. TypeOK'
  BY <1>1, <1>3, <1>b DEF TypeOK, Wait_Check, poolVars, workerVars, history
<1>5. NoNewClaims /\ IdleKept
  BY <1>1, <1>3 DEF NoNewClaims, IdleKept, Idle, Wait_Check, poolVars, workerVars, history
<1>6. ASSUME NEW v \in Workers PROVE WorkerAt(v)'
  BY <1>1, <1>3, WorkerFrame DEF IInv, Wait_Check, poolVars, workerVars, history
<1>7. ASSUME NEW d \in Clients PROVE ClientAt(d)'
  <2>1. CASE d = c
    BY <1>1, <1>3, <1>b, <2>1 DEF Wait_Check, ClientAt, ClientLabels, StartLabels,
       StopLabels, AddSteps, poolVars, workerVars, history
  <2>2. CASE d # c
    BY <1>1, <1>3, <1>b, <2>2, ClientFrame DEF IInv, Wait_Check, poolVars, workerVars,
       history
  <2> QED BY <2>1, <2>2
<1>8. /\ OneTaskPerWorker'
      /\ \A t \in Threads : pc'[t] \in {"assign", "notify"} => target'[t] \in Workers
  BY <1>1, <1>3 DEF IInv, OneTaskPerWorker, Wait_Check, poolVars, workerVars, history
<1> QED BY <1>4, <1>5, <1>6, <1>7, <1>8, ClaimsFrame DEF IInv

(* Drain_Active keeps the invariant: polling touches nothing else. *)
LEMMA Drain_Active_Inv ==
  ASSUME IInv, NEW c \in Clients, Drain_Active(c) PROVE IInv'
<1> USE ThreadFacts
<1>1. TypeOK /\ ClientAt(c)
  BY DEF IInv
<1>2. PICK l \in {"pollQueue"} : Goto(c, l)
  BY DEF Drain_Active
<1>3. /\ pc[c] \in {"idle"} /\ pc'[c] \in {"pollQueue"}
      /\ pc' \in [Threads -> Labels]
      /\ \A u \in Threads : u # c => pc'[u] = pc[u]
  BY <1>1, <1>2, GotoFacts DEF Drain_Active, AtCall, Labels, AddSteps
<1>4. TypeOK'
  BY <1>1, <1>3 DEF TypeOK, Drain_Active, poolVars, workerVars, history
<1>5. NoNewClaims /\ IdleKept
  BY <1>1, <1>3 DEF NoNewClaims, IdleKept, Idle, Drain_Active, poolVars, workerVars, history
<1>6. ASSUME NEW v \in Workers PROVE WorkerAt(v)'
  BY <1>1, <1>3, WorkerFrame DEF IInv, Drain_Active, poolVars, workerVars, history
<1>7. ASSUME NEW d \in Clients PROVE ClientAt(d)'
  <2>1. CASE d = c
    BY <1>1, <1>3, <2>1 DEF Drain_Active, ClientAt, ClientLabels, StartLabels,
       StopLabels, AddSteps, poolVars, workerVars, history
  <2>2. CASE d # c
    BY <1>1, <1>3, <2>2, ClientFrame DEF IInv, Drain_Active, poolVars, workerVars, history
  <2> QED BY <2>1, <2>2
<1>8. /\ OneTaskPerWorker'
      /\ \A t \in Threads : pc'[t] \in {"assign", "notify"} => target'[t] \in Workers
  BY <1>1, <1>3 DEF IInv, OneTaskPerWorker, Drain_Active, poolVars, workerVars, history
<1> QED BY <1>4, <1>5, <1>6, <1>7, <1>8, ClaimsFrame DEF IInv

(* Drain_Queued keeps the invariant: polling touches nothing else. *)
LEMMA Drain_Queued_Inv ==
  ASSUME IInv, NEW c \in Clients, Drain_Queued(c) PROVE IInv'
<1> USE ThreadFacts
<1>1. TypeOK /\ ClientAt(c)
  BY DEF IInv
<1>2. PICK l \in {"idle"} : Goto(c, l)
  BY DEF Drain_Queued, Return
<1>3. /\ pc[c] \in {"pollQueue"} /\ pc'[c] \in {"idle"}
      /\ pc' \in [Threads -> Labels]
      /\ \A u \in Threads : u # c => pc'[u] = pc[u]
  BY <1>1, <1>2, GotoFacts DEF Drain_Queued, Labels, AddSteps
<1>b. /\ ip' \in [Clients -> Nat] /\ ip'[c] >= 1
      /\ \A d \in Clients : d # c => ip'[d] = ip[d]
  BY <1>1, IpFacts DEF Drain_Queued
<1>4. TypeOK'
  BY <1>1, <1>3, <1>b DEF TypeOK, Drain_Queued, poolVars, workerVars, history
<1>5. NoNewClaims /\ IdleKept
  BY <1>1, <1>3 DEF NoNewClaims, IdleKept, Idle, Drain_Queued, poolVars, workerVars, history
<1>6. ASSUME NEW v \in Workers PROVE WorkerAt(v)'
  BY <1>1, <1>3, WorkerFrame DEF IInv, Drain_Queued, poolVars, workerVars, history
<1>7. ASSUME NEW d \in Clients PROVE ClientAt(d)'
  <2>1. CASE d = c
    BY <1>1, <1>3, <1>b, <2>1 DEF Drain_Queued, ClientAt, ClientLabels, StartLabels,
       StopLabels, AddSteps, poolVars, workerVars, history
  <2>2. CASE d # c
    BY <1>1, <1>3, <1>b, <2>2, ClientFrame DEF IInv, Drain_Queued, poolVars,
       workerVars, history
  <2> QED BY <2>1, <2>2
<1>8. /\ OneTaskPerWorker'
      /\ \A t \in Threads : pc'[t] \in {"assign", "notify"} => target'[t] \in Workers
  BY <1>1, <1>3 DEF IInv, OneTaskPerWorker, Drain_Queued, poolVars, workerVars, history
<1> QED BY <1>4, <1>5, <1>6, <1>7, <1>8, ClaimsFrame DEF IInv

(* Stop_Enter keeps the invariant: the loop over the workers begins. *)
LEMMA Stop_Enter_Inv ==
  ASSUME IInv, NEW c \in Clients, Stop_Enter(c) PROVE IInv'
<1> USE ThreadFacts
<1>1. TypeOK /\ ClientAt(c)
  BY DEF IInv
<1>2. PICK l \in {"stopLock"} : Goto(c, l)
  BY DEF Stop_Enter
<1>3. /\ pc[c] \in {"idle"} /\ pc'[c] \in {"stopLock"}
      /\ pc' \in [Threads -> Labels]
      /\ \A u \in Threads : u # c => pc'[u] = pc[u]
  BY <1>1, <1>2, GotoFacts DEF Stop_Enter, AtCall, Labels, AddSteps
<1>a. /\ target' \in [Threads -> 1..(NumberOfThreads + 1)]
      /\ \A u \in Threads : u # c => target'[u] = target[u]
  BY <1>1, PoolAssumption DEF TypeOK, Stop_Enter
<1>4. TypeOK'
  BY <1>1, <1>3, <1>a DEF TypeOK, Stop_Enter, poolVars, workerVars, history
<1>5. NoNewClaims /\ IdleKept
  BY <1>1, <1>3, <1>a DEF NoNewClaims, IdleKept, Idle, Stop_Enter, poolVars,
     workerVars, history
<1>6. ASSUME NEW v \in Workers PROVE WorkerAt(v)'
  BY <1>1, <1>3, <1>a, WorkerFrame DEF IInv, Stop_Enter, poolVars, workerVars, history
<1>7. ASSUME NEW d \in Clients PROVE ClientAt(d)'
  <2>1. CASE d = c
    BY <1>1, <1>3, <1>a, <2>1 DEF Stop_Enter, ClientAt, ClientLabels, StartLabels,
       StopLabels, AddSteps, poolVars, workerVars, history
  <2>2. CASE d # c
    BY <1>1, <1>3, <1>a, <2>2, ClientFrame DEF IInv, Stop_Enter, poolVars, workerVars,
       history
  <2> QED BY <2>1, <2>2
<1>8. /\ OneTaskPerWorker'
      /\ \A t \in Threads : pc'[t] \in {"assign", "notify"} => target'[t] \in Workers
  BY <1>1, <1>3, <1>a DEF IInv, OneTaskPerWorker, Stop_Enter, poolVars, workerVars, history
<1> QED BY <1>4, <1>5, <1>6, <1>7, <1>8, ClaimsFrame DEF IInv

(* Stop_Return keeps the invariant: the loop over the workers ends. *)
LEMMA Stop_Return_Inv ==
  ASSUME IInv, NEW c \in Clients, Stop_Return(c) PROVE IInv'
<1> USE ThreadFacts
<1>1. TypeOK /\ ClientAt(c)
  BY DEF IInv
<1>2. PICK l \in {"idle"} : Goto(c, l)
  BY DEF Stop_Return, Return
<1>3. /\ pc[c] \in {"stopLock"} /\ pc'[c] \in {"idle"}
      /\ pc' \in [Threads -> Labels]
      /\ \A u \in Threads : u # c => pc'[u] = pc[u]
  BY <1>1, <1>2, GotoFacts DEF Stop_Return, Labels, AddSteps
<1>b. /\ ip' \in [Clients -> Nat] /\ ip'[c] >= 1
      /\ \A d \in Clients : d # c => ip'[d] = ip[d]
  BY <1>1, IpFacts DEF Stop_Return
<1>4. TypeOK'
  BY <1>1, <1>3, <1>b DEF TypeOK, Stop_Return, poolVars, workerVars, history
<1>5. NoNewClaims /\ IdleKept
  BY <1>1, <1>3 DEF NoNewClaims, IdleKept, Idle, Stop_Return, poolVars, workerVars, history
<1>6. ASSUME NEW v \in Workers PROVE WorkerAt(v)'
  BY <1>1, <1>3, WorkerFrame DEF IInv, Stop_Return, poolVars, workerVars, history
<1>7. ASSUME NEW d \in Clients PROVE ClientAt(d)'
  <2>1. CASE d = c
    BY <1>1, <1>3, <1>b, <2>1 DEF Stop_Return, ClientAt, ClientLabels, StartLabels,
       StopLabels, AddSteps, poolVars, workerVars, history
  <2>2. CASE d # c
    BY <1>1, <1>3, <1>b, <2>2, ClientFrame DEF IInv, Stop_Return, poolVars, workerVars,
       history
  <2> QED BY <2>1, <2>2
<1>8. /\ OneTaskPerWorker'
      /\ \A t \in Threads : pc'[t] \in {"assign", "notify"} => target'[t] \in Workers
  BY <1>1, <1>3 DEF IInv, OneTaskPerWorker, Stop_Return, poolVars, workerVars, history
<1> QED BY <1>4, <1>5, <1>6, <1>7, <1>8, ClaimsFrame DEF IInv

(* Stop_Join keeps the invariant: ShouldStop is reset only for a thread    *)
(* that has ended.                                                         *)
LEMMA Stop_Join_Inv ==
  ASSUME IInv, NEW c \in Clients, Stop_Join(c) PROVE IInv'
<1> USE ThreadFacts
<1>1. TypeOK /\ ClientAt(c)
  BY DEF IInv
<1>2. PICK l \in {"stopLock"} : Goto(c, l)
  BY DEF Stop_Join
<1>3. /\ pc[c] \in {"stopJoin"} /\ pc'[c] \in {"stopLock"}
      /\ pc' \in [Threads -> Labels]
      /\ \A u \in Threads : u # c => pc'[u] = pc[u]
  BY <1>1, <1>2, GotoFacts DEF Stop_Join, Labels, AddSteps
<1>a. /\ target' \in [Threads -> 1..(NumberOfThreads + 1)]
      /\ \A u \in Threads : u # c => target'[u] = target[u]
      /\ target[c] \in Workers
      /\ shouldStop' \in [Workers -> BOOLEAN]
      /\ \A v \in Workers : v # target[c] => shouldStop'[v] = shouldStop[v]
  <2>1. target[c] \in Workers /\ target[c] + 1 \in 1..(NumberOfThreads + 1)
    BY <1>1, <1>3, PoolAssumption DEF ClientAt, Workers, Stop_Join
  <2> QED BY <1>1, <2>1 DEF TypeOK, Stop_Join
<1>4. TypeOK'
  BY <1>1, <1>3, <1>a DEF TypeOK, Stop_Join, poolVars, workerVars, history
<1>5. NoNewClaims /\ IdleKept
  BY <1>1, <1>3, <1>a DEF NoNewClaims, IdleKept, Idle, Stop_Join, poolVars, workerVars,
     history
<1>6. ASSUME NEW v \in Workers PROVE WorkerAt(v)'
  <2>1. CASE v # target[c]
    <3>1. WorkerAt(v) /\ pc'[v] = pc[v] /\ shouldStop'[v] = shouldStop[v]
      BY <1>3, <1>a, <2>1 DEF IInv
    <3>2. /\ spawn' = spawn /\ workerTasks' = workerTasks
          /\ separate' = separate /\ poolRunning' = poolRunning
      BY DEF Stop_Join, poolVars, workerVars, history
    <3> QED BY ONLY <3>1, <3>2, WorkerFrame
  <2>2. CASE v = target[c]
    <3>1. WorkerAt(v) /\ pc[v] = "exited" /\ pc'[v] = "exited"
      BY <1>3, <2>2 DEF IInv, Stop_Join
    <3> QED BY <3>1 DEF Stop_Join, WorkerAt, WorkerLabels, IdleLabels, AddSteps,
             poolVars, workerVars, history
  <2> QED BY <2>1, <2>2
<1>7. ASSUME NEW d \in Clients PROVE ClientAt(d)'
  <2>1. CASE d = c
    BY <1>1, <1>3, <1>a, <2>1 DEF Stop_Join, ClientAt, ClientLabels, StartLabels,
       StopLabels, AddSteps, poolVars, workerVars, history
  <2>2. CASE d # c
    BY <1>1, <1>3, <1>a, <2>2, ClientFrame DEF IInv, Stop_Join, poolVars, workerVars,
       history
  <2> QED BY <2>1, <2>2
<1>8. /\ OneTaskPerWorker'
      /\ \A t \in Threads : pc'[t] \in {"assign", "notify"} => target'[t] \in Workers
  BY <1>1, <1>3, <1>a DEF IInv, OneTaskPerWorker, Stop_Join, poolVars, workerVars, history
<1> QED BY <1>4, <1>5, <1>6, <1>7, <1>8, ClaimsFrame DEF IInv

(* Start_Enter keeps the invariant: before the first Start no worker       *)
(* exists and none holds a task.                                           *)
LEMMA Start_Enter_Inv ==
  ASSUME IInv, NEW c \in Clients, Start_Enter(c) PROVE IInv'
<1> USE ThreadFacts
<1>1. TypeOK /\ ClientAt(c)
  BY DEF IInv
<1>2. PICK l \in {"idle", "startLock"} : Goto(c, l)
  BY DEF Start_Enter, Return
<1>3. /\ pc[c] \in {"idle"} /\ pc'[c] \in {"idle", "startLock"}
      /\ pc' \in [Threads -> Labels]
      /\ \A u \in Threads : u # c => pc'[u] = pc[u]
  BY <1>1, <1>2, GotoFacts DEF Start_Enter, AtCall, Labels, AddSteps
<1>b. /\ ip' \in [Clients -> Nat] /\ ip'[c] >= 1
      /\ \A d \in Clients : d # c => ip'[d] = ip[d]
  BY <1>1, IpFacts DEF Start_Enter
<1>a. /\ target' \in [Threads -> 1..(NumberOfThreads + 1)]
      /\ \A u \in Threads : u # c => target'[u] = target[u]
      /\ poolRunning' /\ poolRunning' \in BOOLEAN
  <2>1. CASE poolRunning
    BY <1>1, <2>1 DEF TypeOK, Start_Enter
  <2>2. CASE ~ poolRunning
    <3>1. 1 \in 1..(NumberOfThreads + 1)
      BY PoolAssumption
    <3> QED BY <1>1, <2>2, <3>1 DEF TypeOK, Start_Enter
  <2> QED BY <2>1, <2>2
<1>c. c = Owner
  BY <1>1, AtCallFacts DEF Start_Enter
<1>d. pc'[c] = "startLock" => ~ poolRunning
  BY <1>1, <1>2 DEF Start_Enter, Goto, Return, TypeOK, Threads
<1>4. TypeOK'
  BY <1>1, <1>3, <1>a, <1>b DEF TypeOK, Start_Enter, poolVars, workerVars, history
<1>5. NoNewClaims /\ IdleKept
  BY <1>1, <1>3, <1>a DEF NoNewClaims, IdleKept, Idle, Start_Enter, poolVars,
     workerVars, history
<1>6. ASSUME NEW v \in Workers PROVE WorkerAt(v)'
  BY <1>1, <1>3, <1>a, WorkerFrame DEF IInv, Start_Enter, poolVars, workerVars, history
<1>7. ASSUME NEW d \in Clients PROVE ClientAt(d)'
  <2>1. CASE d = c
    <3>1. pc'[c] = "startLock" => \A v \in Workers : pc'[v] = "unborn" /\ workerTasks'[v] = <<>>
      BY <1>3, <1>d DEF IInv, WorkerAt, Start_Enter, workerVars
    <3> QED BY <1>1, <1>3, <1>a, <1>b, <1>c, <2>1, <3>1 DEF Start_Enter, ClientAt,
             ClientLabels, StartLabels, StopLabels, AddSteps, poolVars, workerVars,
             history
  <2>2. CASE d # c
    BY <1>1, <1>3, <1>a, <1>b, <2>2, ClientFrame DEF IInv, Start_Enter, poolVars,
       workerVars, history
  <2> QED BY <2>1, <2>2
<1>8. /\ OneTaskPerWorker'
      /\ \A t \in Threads : pc'[t] \in {"assign", "notify"} => target'[t] \in Workers
  BY <1>1, <1>3, <1>a DEF IInv, OneTaskPerWorker, Start_Enter, poolVars, workerVars, history
<1> QED BY <1>4, <1>5, <1>6, <1>7, <1>8, ClaimsFrame DEF IInv

(* Stop_Lock keeps the invariant: ShouldStop is only raised. *)
LEMMA Stop_Lock_Inv ==
  ASSUME IInv, NEW c \in Clients, Stop_Lock(c) PROVE IInv'
<1> USE ThreadFacts
<1>1. TypeOK /\ ClientAt(c)
  BY DEF IInv
<1>2. PICK l \in {"stopLock", "stopNotify"} : Goto(c, l)
  <2>1. CASE workerRunning[target[c]]
    BY <2>1 DEF Stop_Lock
  <2>2. CASE ~ workerRunning[target[c]]
    <3>1. Goto(c, "stopLock")
      BY <1>1, <2>2, ThreadFacts DEF Stop_Lock, Goto, TypeOK
    <3> QED BY <3>1
  <2> QED BY <2>1, <2>2
<1>3. /\ pc[c] \in {"stopLock"} /\ pc'[c] \in {"stopLock", "stopNotify"}
      /\ pc' \in [Threads -> Labels]
      /\ \A u \in Threads : u # c => pc'[u] = pc[u]
  BY <1>1, <1>2, GotoFacts DEF Stop_Lock, Labels, AddSteps
<1>a. /\ target' \in [Threads -> 1..(NumberOfThreads + 1)]
      /\ \A u \in Threads : u # c => target'[u] = target[u]
      /\ workerRunning' \in [Workers -> BOOLEAN]
      /\ shouldStop' \in [Workers -> BOOLEAN]
      /\ \A v \in Workers : shouldStop[v] => shouldStop'[v]
      /\ pc'[c] = "stopNotify" => target'[c] \in Workers
  <2>1. target[c] \in Workers /\ target[c] + 1 \in 1..(NumberOfThreads + 1)
    BY <1>1, <1>3, PoolAssumption DEF ClientAt, Workers, Stop_Lock
  <2>2. CASE workerRunning[target[c]]
    BY <1>1, <2>1, <2>2 DEF TypeOK, Stop_Lock
  <2>3. CASE ~ workerRunning[target[c]]
    <3>1. /\ target' = [target EXCEPT ![c] = target[c] + 1]
          /\ pc' = pc /\ shouldStop' = shouldStop /\ workerRunning' = workerRunning
      BY <2>3 DEF Stop_Lock
    <3>2. pc'[c] # "stopNotify"
      BY <1>3, <3>1 DEF Stop_Lock
    <3> QED BY <1>1, <2>1, <3>1, <3>2 DEF TypeOK
  <2> QED BY <2>2, <2>3
<1>4. TypeOK'
  BY <1>1, <1>3, <1>a DEF TypeOK, Stop_Lock, poolVars, workerVars, history
<1>5. NoNewClaims /\ IdleKept
  BY <1>1, <1>3, <1>a DEF NoNewClaims, IdleKept, Idle, Stop_Lock, poolVars, workerVars,
     history
<1>6. ASSUME NEW v \in Workers PROVE WorkerAt(v)'
  <2>1. WorkerAt(v) /\ pc'[v] = pc[v] /\ (shouldStop[v] => shouldStop'[v])
    BY <1>3, <1>a DEF IInv
  <2> QED BY <2>1 DEF Stop_Lock, WorkerAt, poolVars, workerVars, history
<1>7. ASSUME NEW d \in Clients PROVE ClientAt(d)'
  <2>1. CASE d = c
    BY <1>1, <1>3, <1>a, <2>1 DEF Stop_Lock, ClientAt, ClientLabels, StartLabels,
       StopLabels, AddSteps, poolVars, workerVars, history
  <2>2. CASE d # c
    BY <1>1, <1>3, <1>a, <2>2, ClientFrame DEF IInv, Stop_Lock, poolVars, workerVars,
       history
  <2> QED BY <2>1, <2>2
<1>8. /\ OneTaskPerWorker'
      /\ \A t \in Threads : pc'[t] \in {"assign", "notify"} => target'[t] \in Workers
  BY <1>1, <1>3, <1>a DEF IInv, OneTaskPerWorker, Stop_Lock, poolVars, workerVars, history
<1> QED BY <1>4, <1>5, <1>6, <1>7, <1>8, ClaimsFrame DEF IInv

(* notify_all on one worker's condition variable, and the notifier goes    *)
(* on.                                                                     *)
LEMMA NotifyFacts ==
  ASSUME TypeOK, NEW w \in Workers, NEW t \in Threads, w # t,
         NEW l \in Labels, NotifyWorker(w, t, l)
  PROVE  /\ pc' \in [Threads -> Labels] /\ pc'[t] = l
         /\ pc'[w] = (IF pc[w] = "parked" THEN "unparked" ELSE pc[w])
         /\ \A u \in Threads : u # t /\ u # w => pc'[u] = pc[u]
BY ThreadFacts DEF TypeOK, NotifyWorker, Labels

(* Being woken changes nothing a parked worker has established. *)
LEMMA WokenFrame ==
  ASSUME NEW w \in Workers, WorkerAt(w),
         pc'[w] = pc[w] \/ (pc[w] = "parked" /\ pc'[w] = "unparked"),
         spawn'[w] = spawn[w], UNCHANGED <<workerTasks, shouldStop, separate, poolRunning>>
  PROVE  WorkerAt(w)' /\ (Idle(w) => Idle(w)')
BY DEF WorkerAt, Idle, WorkerLabels, IdleLabels, AddSteps

(* Stop_Notify keeps the invariant: the notification wakes a parked worker *)
(* or nobody.                                                              *)
LEMMA Stop_Notify_Inv ==
  ASSUME IInv, NEW c \in Clients, Stop_Notify(c) PROVE IInv'
<1> USE ThreadFacts
<1>1. TypeOK /\ ClientAt(c) /\ target[c] \in Workers
  BY DEF IInv, ClientAt, Stop_Notify
<1>2. /\ pc[c] = "stopNotify" /\ pc'[c] = "stopJoin" /\ pc' \in [Threads -> Labels]
      /\ \A w \in Workers : pc'[w] = pc[w] \/ (pc[w] = "parked" /\ pc'[w] = "unparked")
      /\ \A d \in Clients : d # c => pc'[d] = pc[d]
  BY <1>1, NotifyFacts DEF Stop_Notify, Labels
<1>3. UNCHANGED <<ip, target, spawn, poolVars, workerVars, history>>
  BY DEF Stop_Notify
<1>4. TypeOK'
  BY <1>1, <1>2, <1>3 DEF TypeOK, poolVars, workerVars, history
<1>5. ASSUME NEW w \in Workers PROVE WorkerAt(w)' /\ (Idle(w) => Idle(w)')
  BY <1>2, <1>3, WokenFrame DEF IInv, poolVars, workerVars
<1>6. NoNewClaims
  BY <1>2, <1>3 DEF NoNewClaims, poolVars, Threads
<1>7. ASSUME NEW d \in Clients PROVE ClientAt(d)'
  <2>1. CASE d = c
    BY <1>1, <1>2, <1>3, <2>1 DEF ClientAt, ClientLabels, StartLabels, StopLabels, AddSteps
  <2>2. CASE d # c
    BY <1>2, <1>3, <2>2, ClientFrame DEF IInv, poolVars, workerVars
  <2> QED BY <2>1, <2>2
<1>8. /\ OneTaskPerWorker'
      /\ \A t \in Threads : pc'[t] \in {"assign", "notify"} => target'[t] \in Workers
  BY <1>2, <1>3 DEF IInv, OneTaskPerWorker, workerVars, Threads
<1> QED BY <1>4, <1>5, <1>6, <1>7, <1>8, ClaimsFrame DEF IInv, IdleKept

(* Loop_Announce keeps the invariant: the notification wakes waiting       *)
(* clients or nobody.                                                      *)
LEMMA Loop_Announce_Inv ==
  ASSUME IInv, NEW w \in Workers, Loop_Announce(w) PROVE IInv'
<1> USE ThreadFacts
<1>1. TypeOK /\ WorkerAt(w)
  BY DEF IInv
<1>2. /\ pc[w] = "announce" /\ pc'[w] = "gate" /\ pc' \in [Threads -> Labels]
      /\ \A v \in Workers : v # w => pc'[v] = pc[v]
      /\ \A c \in Clients : pc'[c] = pc[c] \/ (pc[c] = "waiting" /\ pc'[c] = "woken")
  <2>1. \A v \in Workers : pc[v] # "waiting"
    BY DEF IInv, WorkerAt, WorkerLabels, IdleLabels, AddSteps
  <2> QED BY <1>1, <2>1 DEF TypeOK, Labels, Loop_Announce
<1>3. UNCHANGED <<ip, target, spawn, poolVars, workerVars, history>>
  BY DEF Loop_Announce
<1>4. TypeOK'
  BY <1>1, <1>2, <1>3 DEF TypeOK, poolVars, workerVars, history
<1>5. ASSUME NEW v \in Workers PROVE WorkerAt(v)' /\ (Idle(v) => Idle(v)')
  <2>1. CASE v = w
    BY <1>1, <1>2, <1>3, <2>1 DEF WorkerAt, Idle, WorkerLabels, IdleLabels, AddSteps,
       poolVars, workerVars
  <2>2. CASE v # w
    BY <1>2, <1>3, <2>2, WorkerFrame DEF IInv, Idle, poolVars, workerVars
  <2> QED BY <2>1, <2>2
<1>6. NoNewClaims
  BY <1>2, <1>3 DEF NoNewClaims, poolVars, Threads
<1>7. ASSUME NEW c \in Clients PROVE ClientAt(c)'
  <2>1. CASE pc'[c] = pc[c]
    BY <1>2, <1>3, <2>1, ClientFrame DEF IInv, poolVars, workerVars
  <2>2. CASE pc'[c] = "woken"
    BY <1>3, <2>2 DEF IInv, ClientAt, ClientLabels, StartLabels, StopLabels, AddSteps
  <2> QED BY <1>2, <2>1, <2>2
<1>8. /\ OneTaskPerWorker'
      /\ \A t \in Threads : pc'[t] \in {"assign", "notify"} => target'[t] \in Workers
  BY <1>2, <1>3 DEF IInv, OneTaskPerWorker, workerVars, Threads
<1> QED BY <1>4, <1>5, <1>6, <1>7, <1>8, ClaimsFrame DEF IInv, IdleKept

(* SpuriousWakeup keeps the invariant: a wake-up without cause is like one *)
(* with.                                                                   *)
LEMMA SpuriousWakeup_Inv ==
  ASSUME IInv, NEW t \in Threads, SpuriousWakeup(t) PROVE IInv'
<1> USE ThreadFacts
<1>1. TypeOK
  BY DEF IInv
<1>2. /\ pc' \in [Threads -> Labels]
      /\ \A u \in Threads : \/ pc'[u] = pc[u]
                            \/ u \in Workers /\ pc[u] = "parked" /\ pc'[u] = "unparked"
                            \/ u \in Clients /\ pc[u] = "waiting" /\ pc'[u] = "woken"
  <2>1. /\ \A v \in Workers : pc[v] # "waiting"
        /\ \A c \in Clients : pc[c] # "parked"
    BY DEF IInv, WorkerAt, WorkerLabels, IdleLabels, ClientAt, ClientLabels,
           StartLabels, StopLabels, AddSteps
  <2> QED BY <1>1, <2>1 DEF TypeOK, Labels, Goto, SpuriousWakeup, Threads
<1>3. UNCHANGED <<ip, target, spawn, poolVars, workerVars, history>>
  BY DEF SpuriousWakeup
<1>4. TypeOK'
  BY <1>1, <1>2, <1>3 DEF TypeOK, poolVars, workerVars, history
<1>5. ASSUME NEW w \in Workers PROVE WorkerAt(w)' /\ (Idle(w) => Idle(w)')
  <2>1. pc'[w] = pc[w] \/ (pc[w] = "parked" /\ pc'[w] = "unparked")
    BY <1>2
  <2> QED BY <2>1, <1>3 DEF IInv, WorkerAt, Idle, WorkerLabels, IdleLabels, AddSteps,
           poolVars, workerVars
<1>6. NoNewClaims
  BY <1>2, <1>3 DEF NoNewClaims, poolVars
<1>7. ASSUME NEW c \in Clients PROVE ClientAt(c)'
  <2>1. CASE pc'[c] = pc[c]
    BY <1>2, <1>3, <2>1, ClientFrame DEF IInv, poolVars, workerVars
  <2>2. CASE pc'[c] = "woken"
    BY <1>3, <2>2 DEF IInv, ClientAt, ClientLabels, StartLabels, StopLabels, AddSteps
  <2> QED BY <1>2, <2>1, <2>2
<1>8. /\ OneTaskPerWorker'
      /\ \A u \in Threads : pc'[u] \in {"assign", "notify"} => target'[u] \in Workers
  BY <1>2, <1>3 DEF IInv, OneTaskPerWorker, workerVars
<1> QED BY <1>4, <1>5, <1>6, <1>7, <1>8, ClaimsFrame DEF IInv, IdleKept

(* What StartWorker does to the program counters and to target. *)
StartsWorker(w, c) ==
    /\ pc' \in [Threads -> Labels] /\ pc'[c] = "startLock"
    /\ pc'[w] \in {pc[w], "top"}
    /\ \A u \in Threads : u # c /\ u # w => pc'[u] = pc[u]
    /\ target' \in [Threads -> 1..(NumberOfThreads + 1)]
    /\ target'[c] = target[c] + 1
    /\ \A u \in Threads : u # c => target'[u] = target[u]
    /\ workerRunning' \in [Workers -> BOOLEAN]

(* StartWorker moves the worker to the top of its loop at most. *)
LEMMA StartWorkerFacts ==
  ASSUME TypeOK, NEW c \in Clients, target[c] \in Workers,
         StartWorker(target[c], c)
  PROVE  StartsWorker(target[c], c)
<1>1. target[c] + 1 \in 1..(NumberOfThreads + 1)
  BY PoolAssumption DEF Workers
<1>2. CASE workerRunning[target[c]]
  BY <1>1, <1>2, ThreadFacts DEF TypeOK, Labels, Goto, StartWorker, StartsWorker
<1>3. CASE ~ workerRunning[target[c]]
  BY ZenonT(60), <1>1, <1>3, ThreadFacts DEF TypeOK, Labels, StartWorker, StartsWorker
<1> QED BY <1>2, <1>3

(* Start_Assign keeps the invariant: the task goes to a worker that is not *)
(* born yet.                                                               *)
LEMMA Start_Assign_Inv ==
  ASSUME IInv, NEW c \in Clients, Start_Assign(c) PROVE IInv'
<1> USE ThreadFacts
<1> DEFINE w == target[c]
<1>1. TypeOK /\ ClientAt(c) /\ pc[c] = "startAssign"
  BY DEF IInv, Start_Assign
<1>2. /\ w \in Workers /\ c = Owner /\ poolRunning /\ poolTasks # <<>>
      /\ \A v \in Workers : v >= w => pc[v] = "unborn" /\ workerTasks[v] = <<>>
  BY <1>1 DEF ClientAt, StartLabels
<1>c. /\ pc[w] = "unborn" /\ workerTasks[w] = <<>>
      /\ \A v \in Workers : v >= w + 1 => v # w /\ v >= w
  BY <1>1, <1>2, PoolAssumption DEF Workers
<1>3. /\ Head(poolTasks) \in Tasks /\ poolTasks' \in Seq(Tasks)
      /\ workerTasks' \in [Workers -> Seq(Tasks)]
      /\ workerTasks'[w] # <<>> /\ Len(workerTasks'[w]) <= 1
      /\ \A v \in Workers : v # w => workerTasks'[v] = workerTasks[v]
  <2>1. Head(poolTasks) \in Tasks /\ Tail(poolTasks) \in Seq(Tasks)
    BY <1>1, <1>2, HeadTailProperties DEF TypeOK
  <2>2. workerTasks[w] = <<>>
    BY <1>2, PoolAssumption DEF Workers
  <2>3. /\ Append(<<>>, Head(poolTasks)) \in Seq(Tasks)
        /\ Append(<<>>, Head(poolTasks)) # <<>>
        /\ Len(Append(<<>>, Head(poolTasks))) <= 1
    BY <2>1, EmptySeq, AppendProperties
  <2> QED BY <1>1, <1>2, <2>1, <2>2, <2>3 DEF TypeOK, Start_Assign
<1>4. StartsWorker(w, c)
  BY <1>1, <1>2, StartWorkerFacts DEF Start_Assign
<1>5. UNCHANGED <<ip, spawn, standby, poolRunning, shouldStop, separate, history>>
  BY DEF Start_Assign
<1>6. TypeOK'
  BY <1>1, <1>3, <1>4, <1>5 DEF TypeOK, StartsWorker, history
<1>7. NoNewClaims /\ IdleKept
  BY <1>c, <1>2, <1>3, <1>4, <1>5 DEF NoNewClaims, IdleKept, Idle, IdleLabels, StartsWorker
<1>8. ASSUME NEW v \in Workers PROVE WorkerAt(v)'
  <2>1. CASE v = w
    <3>1. WorkerAt(v) /\ pc[v] = "unborn"
      BY <1>2, <2>1, PoolAssumption DEF IInv, Workers
    <3> QED BY <1>2, <1>3, <1>4, <1>5, <2>1, <3>1 DEF StartsWorker, WorkerAt,
             WorkerLabels, IdleLabels, AddSteps
  <2>2. CASE v # w
    BY <1>2, <1>3, <1>4, <1>5, <2>2, WorkerFrame DEF IInv, StartsWorker
  <2> QED BY <2>1, <2>2
<1>9. ASSUME NEW d \in Clients PROVE ClientAt(d)'
  <2>1. CASE d = c
    <3>1. \A v \in Workers : v >= target'[c] => pc'[v] = "unborn" /\ workerTasks'[v] = <<>>
      BY ZenonT(60), <1>c, <1>2, <1>3, <1>4 DEF StartsWorker
    <3> QED BY <1>1, <1>2, <1>4, <1>5, <2>1, <3>1 DEF StartsWorker, ClientAt,
             ClientLabels, StartLabels, StopLabels, AddSteps
  <2>2. CASE d # c
    <3>1. ClientAt(d) /\ pc'[d] = pc[d] /\ ip'[d] = ip[d] /\ target'[d] = target[d] /\ poolRunning'
      BY <1>2, <1>4, <1>5, <2>2 DEF IInv, StartsWorker
    <3>2. pc[d] \notin StartLabels
      BY <1>2, <2>2, <3>1 DEF ClientAt
    <3> QED BY <3>1, <3>2 DEF ClientAt, StartLabels
  <2> QED BY <2>1, <2>2
<1>10. /\ OneTaskPerWorker'
       /\ \A t \in Threads : pc'[t] \in {"assign", "notify"} => target'[t] \in Workers
  <2>1. OneTaskPerWorker'
    <3>1. \A v \in Workers : v # w => Len(workerTasks'[v]) <= 1
      BY <1>3 DEF IInv, OneTaskPerWorker
    <3>2. \A v \in Workers : Len(workerTasks'[v]) <= 1
      <4> TAKE v \in Workers
      <4>1. CASE v = w
        BY <1>3, <4>1
      <4> QED BY <3>1, <4>1
    <3> QED BY <3>2 DEF OneTaskPerWorker
  <2>2. \A t \in Threads : pc'[t] \in {"assign", "notify"} =>
          pc'[t] = pc[t] /\ target'[t] = target[t]
    BY <1>c, <1>2, <1>4 DEF StartsWorker
  <2> QED BY <2>1, <2>2 DEF IInv
<1> QED BY <1>6, <1>7, <1>8, <1>9, <1>10, ClaimsFrame DEF IInv

(* Start_Lock keeps the invariant: the workers from target on are not born *)
(* yet.                                                                    *)
LEMMA Start_Lock_Inv ==
  ASSUME IInv, NEW c \in Clients, Start_Lock(c) PROVE IInv'
<1> USE ThreadFacts
<1> DEFINE w == target[c]
<1>1. TypeOK /\ ClientAt(c) /\ pc[c] = "startLock" /\ w \in Workers
  BY DEF IInv, Start_Lock
<1>2. /\ c = Owner /\ poolRunning
      /\ \A v \in Workers : v >= w => pc[v] = "unborn" /\ workerTasks[v] = <<>>
  BY <1>1 DEF ClientAt, StartLabels
<1>c. /\ pc[w] = "unborn" /\ workerTasks[w] = <<>>
      /\ \A v \in Workers : v >= w + 1 => v # w /\ v >= w
  BY <1>1, <1>2, PoolAssumption DEF Workers
<1>3. UNCHANGED <<ip, spawn, poolVars, workerTasks, shouldStop, separate, history>>
  BY DEF Start_Lock
<1>4. ASSUME NEW d \in Clients, d # c, pc'[d] = pc[d], target'[d] = target[d]
      PROVE  ClientAt(d)'
  <2>1. ClientAt(d) /\ pc[d] \notin StartLabels
    BY <1>2, <1>4 DEF IInv, ClientAt
  <2> QED BY <1>3, <1>4, <2>1 DEF ClientAt, StartLabels, poolVars
<1>a. CASE poolTasks # <<>>
  <2>1. Goto(c, "startAssign") /\ UNCHANGED <<target, workerRunning>>
    BY <1>a DEF Start_Lock
  <2>2. /\ pc'[c] = "startAssign" /\ pc' \in [Threads -> Labels]
        /\ \A u \in Threads : u # c => pc'[u] = pc[u]
    BY <1>1, <2>1, GotoFacts DEF Labels
  <2>3. TypeOK'
    BY <1>1, <1>3, <2>1, <2>2 DEF TypeOK, poolVars, history
  <2>4. NoNewClaims /\ IdleKept
    BY <1>3, <2>1, <2>2 DEF NoNewClaims, IdleKept, Idle, poolVars
  <2>5. \A v \in Workers : WorkerAt(v)'
    BY <1>3, <2>2, WorkerFrame DEF IInv, poolVars
  <2>6. ClientAt(c)'
    BY <1>a, <1>1, <1>2, <1>3, <2>1, <2>2 DEF ClientAt, ClientLabels, StartLabels,
       StopLabels, AddSteps, poolVars
  <2>7. \A d \in Clients : ClientAt(d)'
    BY <1>4, <2>1, <2>2, <2>6
  <2>8. /\ OneTaskPerWorker'
        /\ \A t \in Threads : pc'[t] \in {"assign", "notify"} => target'[t] \in Workers
    BY <1>3, <2>1, <2>2 DEF IInv, OneTaskPerWorker
  <2> QED BY <2>3, <2>4, <2>5, <2>7, <2>8, ClaimsFrame DEF IInv
<1>b. CASE poolTasks = <<>>
  <2>1. StartsWorker(w, c)
    BY <1>b, <1>1, StartWorkerFacts DEF Start_Lock
  <2>2. TypeOK'
    BY <1>1, <1>3, <2>1 DEF TypeOK, StartsWorker, poolVars, history
  <2>3. NoNewClaims /\ IdleKept
    BY <1>c, <1>1, <1>2, <1>3, <2>1 DEF NoNewClaims, IdleKept, Idle, IdleLabels,
       StartsWorker, poolVars
  <2>4. ASSUME NEW v \in Workers PROVE WorkerAt(v)'
    <3>1. CASE v = w
      <4>1. WorkerAt(v) /\ pc[v] = "unborn"
        BY <1>2, <3>1, PoolAssumption DEF IInv, Workers
      <4> QED BY <1>1, <1>2, <1>3, <2>1, <3>1, <4>1 DEF StartsWorker, WorkerAt,
               WorkerLabels, IdleLabels, AddSteps, poolVars
    <3>2. CASE v # w
      BY <1>1, <1>3, <2>1, <3>2, WorkerFrame DEF IInv, StartsWorker, poolVars
    <3> QED BY <3>1, <3>2
  <2>5. ClientAt(c)'
    <3>1. \A v \in Workers : v >= target'[c] => pc'[v] = "unborn" /\ workerTasks'[v] = <<>>
      BY <1>c, <1>2, <1>3, <2>1 DEF StartsWorker
    <3> QED BY <1>1, <1>2, <1>3, <2>1, <3>1 DEF StartsWorker, ClientAt, ClientLabels,
             StartLabels, StopLabels, AddSteps, poolVars
  <2>6. \A d \in Clients : ClientAt(d)'
    <3>1. \A d \in Clients : d # c => pc'[d] = pc[d] /\ target'[d] = target[d]
      BY <1>1, <2>1 DEF StartsWorker
    <3> QED BY <1>4, <2>5, <3>1
  <2>7. /\ OneTaskPerWorker'
        /\ \A t \in Threads : pc'[t] \in {"assign", "notify"} => target'[t] \in Workers
    BY <1>1, <1>3, <2>1 DEF IInv, OneTaskPerWorker, StartsWorker, Threads
  <2> QED BY <2>2, <2>3, <2>4, <2>6, <2>7, ClaimsFrame DEF IInv
<1> QED BY <1>a, <1>b

(* What a thread that adds a task has established, be it a client or a      *)
(* worker that runs a task.                                                *)
ThreadAt(t) == (t \in Clients => ClientAt(t)) /\ (t \in Workers => WorkerAt(t))

(* In AddTask the task to add is defined. *)
LEMMA AddedFacts ==
  ASSUME TypeOK, NEW t \in Threads, ThreadAt(t), pc[t] \in AddSteps
  PROVE  Added(t) \in Tasks
<1>1. CASE t \in Clients
  <2>1. /\ Program[t] \in Seq(Calls) /\ ip[t] \in DOMAIN Program[t]
        /\ Program[t][ip[t]].op = "AddTask"
    BY <1>1, PoolAssumption DEF ThreadAt, ClientAt
  <2>2. Program[t][ip[t]] \in Calls
    BY <2>1, LenProperties, ElementOfSeq
  <2> QED BY <1>1, <2>1, <2>2 DEF Added, Calls
<1>2. CASE t \in Workers
  <2>1. spawn[t] \in Seq(Tasks) /\ spawn[t] # <<>> /\ t \notin Clients
    BY <1>2, ThreadFacts DEF TypeOK, ThreadAt, WorkerAt
  <2> QED BY <2>1, HeadTailProperties DEF Added
<1> QED BY <1>1, <1>2 DEF Threads

(* AddTask returns to its caller, a client or a running task. *)
LEMMA ReturnFacts ==
  ASSUME TypeOK, NEW t \in Threads, ThreadAt(t), pc[t] \in AddSteps, AddReturns(t)
  PROVE  /\ ip' \in [Clients -> Nat] /\ spawn' \in [Workers -> Seq(Tasks)]
         /\ \A c \in Clients : ip'[c] = ip[c] \/ (c = t /\ ip'[c] = ip[c] + 1)
         /\ \A w \in Workers : w # t => spawn'[w] = spawn[w]
<1>1. CASE t \in Clients
  <2>1. ip' = [ip EXCEPT ![t] = ip[t] + 1] /\ spawn' = spawn
    BY <1>1 DEF AddReturns
  <2>2. ip \in [Clients -> Nat] /\ ip[t] + 1 \in Nat
    BY <1>1 DEF TypeOK
  <2> QED BY <1>1, <2>1, <2>2 DEF TypeOK
<1>2. CASE t \in Workers
  <2>1. spawn[t] \in Seq(Tasks) /\ spawn[t] # <<>> /\ t \notin Clients
    BY <1>2, ThreadFacts DEF TypeOK, ThreadAt, WorkerAt
  <2>2. Tail(spawn[t]) \in Seq(Tasks)
    BY <2>1, HeadTailProperties
  <2> QED BY <1>2, <2>1, <2>2 DEF TypeOK, AddReturns
<1> QED BY <1>1, <1>2 DEF Threads

(* AddTask_Enqueue keeps the invariant: a push to the pool's queue         *)
(* concerns no worker.                                                     *)
LEMMA AddTask_Enqueue_Inv ==
  ASSUME IInv, NEW t \in Threads, AddTask_Enqueue(t) PROVE IInv'
<1> USE ThreadFacts
<1>1. TypeOK /\ ThreadAt(t) /\ pc[t] = "enqueue"
  BY DEF IInv, ThreadAt, AddTask_Enqueue
<1>2. Added(t) \in Tasks /\ AddReturns(t)
  BY <1>1, AddedFacts DEF AddSteps, AddTask_Enqueue
<1>3. /\ pc' \in [Threads -> Labels] /\ pc'[t] = AfterAdd(t)
      /\ \A u \in Threads : u # t => pc'[u] = pc[u]
  <2>1. AfterAdd(t) \in Labels
    BY DEF AfterAdd, Labels
  <2> QED BY <1>1, <2>1, GotoFacts DEF AddTask_Enqueue
<1>4. /\ ip' \in [Clients -> Nat] /\ spawn' \in [Workers -> Seq(Tasks)]
      /\ \A c \in Clients : ip'[c] = ip[c] \/ (c = t /\ ip'[c] = ip[c] + 1)
      /\ \A w \in Workers : w # t => spawn'[w] = spawn[w]
  BY <1>1, <1>2, ReturnFacts DEF AddSteps
<1>5. /\ UNCHANGED <<target, standby, poolRunning, workerVars, runs>>
      /\ poolTasks' \in Seq(Tasks) /\ poolTasks' # <<>> /\ accepted' \subseteq Tasks
  <2>1. Append(poolTasks, Added(t)) \in Seq(Tasks) /\ Append(poolTasks, Added(t)) # <<>>
    <3>1. poolTasks \in Seq(Tasks)
      BY <1>1 DEF TypeOK
    <3> QED BY <1>2, <3>1, AppendProperties
  <2>2. accepted \cup {Added(t)} \subseteq Tasks
    BY <1>1, <1>2 DEF TypeOK
  <2> QED BY <2>1, <2>2 DEF AddTask_Enqueue
<1>6. TypeOK'
  BY <1>1, <1>3, <1>4, <1>5 DEF TypeOK, workerVars
<1>7. NoNewClaims /\ IdleKept
  BY <1>1, <1>3, <1>5 DEF NoNewClaims, IdleKept, Idle, IdleLabels, AfterAdd, workerVars
<1>8. ASSUME NEW v \in Workers PROVE WorkerAt(v)'
  <2>1. CASE v = t
    BY <1>1, <1>3, <1>5, <2>1 DEF ThreadAt, AfterAdd, WorkerAt, WorkerLabels,
       IdleLabels, AddSteps, workerVars
  <2>2. CASE v # t
    BY <1>3, <1>4, <1>5, <2>2, WorkerFrame DEF IInv, workerVars
  <2> QED BY <2>1, <2>2
<1>9. ASSUME NEW c \in Clients PROVE ClientAt(c)'
  <2>1. CASE c = t
    <3>0. ip[c] \in Nat /\ ip[c] >= 1 /\ ip'[c] \in {ip[c], ip[c] + 1}
      BY <1>1, <1>4, <2>1 DEF ThreadAt, ClientAt, TypeOK
    <3>1. pc'[c] = "idle" /\ ip'[c] >= 1
      BY <1>3, <2>1, <3>0 DEF AfterAdd
    <3> QED BY <3>1 DEF ClientAt, ClientLabels, StartLabels, StopLabels, AddSteps
  <2>2. CASE c # t
    <3>1. \A w \in Workers : pc[w] = "unborn" => pc'[w] = "unborn"
      BY <1>1, <1>3
    <3> QED BY <1>3, <1>4, <1>5, <2>2, <3>1, ClientFrame DEF IInv, workerVars
  <2> QED BY <2>1, <2>2
<1>10. /\ OneTaskPerWorker'
       /\ \A u \in Threads : pc'[u] \in {"assign", "notify"} => target'[u] \in Workers
  BY <1>3, <1>5 DEF IInv, OneTaskPerWorker, AfterAdd, workerVars
<1> QED BY <1>6, <1>7, <1>8, <1>9, <1>10, ClaimsFrame DEF IInv

(* AddTask_Notify keeps the invariant: the notification wakes the worker   *)
(* or nobody.                                                              *)
LEMMA AddTask_Notify_Inv ==
  ASSUME IInv, NEW t \in Threads, AddTask_Notify(t) PROVE IInv'
<1> USE ThreadFacts
<1>1. TypeOK /\ ThreadAt(t) /\ pc[t] = "notify" /\ target[t] \in Workers
  BY DEF IInv, ThreadAt, AddTask_Notify
<1>2. /\ AddReturns(t)
      /\ UNCHANGED <<target, poolVars, workerVars, history>>
  BY DEF AddTask_Notify
<1>3. /\ pc' \in [Threads -> Labels] /\ pc'[t] = AfterAdd(t)
      /\ \A u \in Threads : u # t => \/ pc'[u] = pc[u]
                                     \/ u \in Workers /\ pc[u] = "parked" /\ pc'[u] = "unparked"
  <2>1. AfterAdd(t) \in Labels
    BY DEF AfterAdd, Labels
  <2>2. CASE target[t] = t
    BY <1>1, <2>1, <2>2 DEF AddTask_Notify, NotifyWorker, TypeOK
  <2>3. CASE target[t] # t
    BY <1>1, <2>1, <2>3, NotifyFacts DEF AddTask_Notify
  <2> QED BY <2>2, <2>3
<1>4. /\ ip' \in [Clients -> Nat] /\ spawn' \in [Workers -> Seq(Tasks)]
      /\ \A c \in Clients : ip'[c] = ip[c] \/ (c = t /\ ip'[c] = ip[c] + 1)
      /\ \A w \in Workers : w # t => spawn'[w] = spawn[w]
  BY <1>1, <1>2, ReturnFacts DEF AddSteps
<1>6. TypeOK'
  BY <1>1, <1>2, <1>3, <1>4 DEF TypeOK, poolVars, workerVars, history
<1>7. NoNewClaims
  BY <1>1, <1>2, <1>3 DEF NoNewClaims, AfterAdd, poolVars
<1>8. ASSUME NEW v \in Workers PROVE WorkerAt(v)' /\ (Idle(v) => Idle(v)')
  <2>1. CASE v = t
    BY <1>1, <1>2, <1>3, <2>1 DEF ThreadAt, AfterAdd, WorkerAt, Idle, WorkerLabels,
       IdleLabels, AddSteps, poolVars, workerVars
  <2>2. CASE v # t
    BY <1>2, <1>3, <1>4, <2>2, WokenFrame DEF IInv, poolVars, workerVars
  <2> QED BY <2>1, <2>2
<1>9. ASSUME NEW c \in Clients PROVE ClientAt(c)'
  <2>1. CASE c = t
    <3>0. ip[c] \in Nat /\ ip[c] >= 1 /\ ip'[c] \in {ip[c], ip[c] + 1}
      BY <1>1, <1>4, <2>1 DEF ThreadAt, ClientAt, TypeOK
    <3>1. pc'[c] = "idle" /\ ip'[c] >= 1
      BY <1>3, <2>1, <3>0 DEF AfterAdd
    <3> QED BY <3>1 DEF ClientAt, ClientLabels, StartLabels, StopLabels, AddSteps
  <2>2. CASE c # t
    <3>1. \A w \in Workers : pc[w] = "unborn" => pc'[w] = "unborn"
      BY <1>1, <1>3
    <3>2. pc'[c] = pc[c]
      BY <1>3, <2>2
    <3> QED BY <1>2, <1>4, <2>2, <3>1, <3>2, ClientFrame DEF IInv, poolVars, workerVars
  <2> QED BY <2>1, <2>2
<1>10. /\ OneTaskPerWorker'
       /\ \A u \in Threads : pc'[u] \in {"assign", "notify"} => target'[u] \in Workers
  BY <1>2, <1>3 DEF IInv, OneTaskPerWorker, AfterAdd, workerVars
<1> QED BY <1>6, <1>7, <1>8, <1>9, <1>10, ClaimsFrame DEF IInv, IdleKept

(* AddTask_Assign keeps the invariant: the worker assigned to is idle and  *)
(* claimed by this thread alone.                                           *)
LEMMA AddTask_Assign_Inv ==
  ASSUME IInv, NEW t \in Threads, AddTask_Assign(t) PROVE IInv'
<1> USE ThreadFacts
<1> DEFINE w == target[t]
<1>1. TypeOK /\ ThreadAt(t) /\ pc[t] = "assign" /\ w \in Workers
  BY DEF IInv, ThreadAt, AddTask_Assign
<1>2. Idle(w) /\ ~ OnStandby(w) /\ \A u \in Threads : u # t => ~ Assigns(u, w)
  BY <1>1 DEF IInv, ClaimedAreIdle, OneClaim, Assigns
<1>3. w # t /\ workerTasks[w] = <<>> /\ pc[w] \in IdleLabels
  BY <1>1, <1>2 DEF Idle, IdleLabels
<1>4. /\ pc' \in [Threads -> Labels] /\ pc'[t] = "notify"
      /\ \A u \in Threads : u # t => pc'[u] = pc[u]
  BY <1>1, GotoFacts DEF AddTask_Assign, Labels, AddSteps
<1>5. UNCHANGED <<ip, target, spawn, poolVars, workerRunning, shouldStop, separate, runs>>
  BY DEF AddTask_Assign
<1>6. /\ accepted' \subseteq Tasks /\ workerTasks' \in [Workers -> Seq(Tasks)]
      /\ workerTasks'[w] # <<>> /\ Len(workerTasks'[w]) <= 1
      /\ \A v \in Workers : v # w => workerTasks'[v] = workerTasks[v]
  <2>1. Added(t) \in Tasks
    BY <1>1, AddedFacts DEF AddSteps
  <2>2. /\ Append(<<>>, Added(t)) \in Seq(Tasks) /\ Append(<<>>, Added(t)) # <<>>
        /\ Len(Append(<<>>, Added(t))) <= 1
    BY <2>1, EmptySeq, AppendProperties
  <2>3. workerTasks' = [workerTasks EXCEPT ![w] = Append(<<>>, Added(t))]
    BY <1>3 DEF AddTask_Assign
  <2>4. accepted' \subseteq Tasks
    BY <1>1, <2>1 DEF TypeOK, AddTask_Assign
  <2> QED BY <1>1, <2>2, <2>3, <2>4 DEF TypeOK
<1>7. TypeOK'
  BY <1>1, <1>4, <1>5, <1>6 DEF TypeOK, poolVars
<1>8. NoNewClaims
  BY <1>4, <1>5 DEF NoNewClaims, poolVars
<1>9. OneClaim'
  BY <1>8 DEF IInv, OneClaim, NoNewClaims, Assigns, OnStandby
<1>10. ASSUME NEW v \in Workers, v # w, Idle(v) PROVE Idle(v)'
  BY <1>1, <1>4, <1>5, <1>6, <1>10 DEF Idle, IdleLabels
<1>11. ClaimedAreIdle'
  <2>1. ASSUME NEW i \in DOMAIN standby' PROVE Idle(standby[i])'
    <3>1. PICK v \in Workers : v = standby[i]
      BY <1>5 DEF IInv, ClaimedAreIdle, Idle, poolVars
    <3>2. v # w /\ Idle(v)
      BY <1>2, <1>5, <3>1 DEF IInv, ClaimedAreIdle, OnStandby, poolVars
    <3> QED BY <1>5, <1>10, <3>1, <3>2 DEF poolVars
  <2>2. ASSUME NEW u \in Threads, pc'[u] = "assign" PROVE Idle(target[u])'
    <3>1. u # t /\ pc[u] = "assign" /\ target'[u] = target[u]
      BY <1>4, <1>5, <2>2
    <3>2. PICK v \in Workers : v = target[u]
      BY <3>1 DEF IInv
    <3>3. v # w /\ Idle(v)
      BY <1>2, <3>1, <3>2 DEF IInv, ClaimedAreIdle, Assigns
    <3> QED BY <1>5, <1>10, <3>2, <3>3
  <2> QED BY <2>1, <2>2 DEF ClaimedAreIdle
<1>12. ASSUME NEW v \in Workers PROVE WorkerAt(v)'
  <2>1. CASE v = t
    BY <1>1, <1>3, <1>4, <1>5, <1>6, <2>1 DEF ThreadAt, WorkerAt, WorkerLabels,
       IdleLabels, AddSteps, poolVars
  <2>2. CASE v = w
    <3>1. WorkerAt(v)
      BY DEF IInv
    <3> QED BY <1>2, <1>3, <1>4, <1>5, <1>6, <2>2, <3>1 DEF WorkerAt, Idle, IdleLabels,
             WorkerLabels, AddSteps, poolVars
  <2>3. CASE v # t /\ v # w
    BY <1>4, <1>5, <1>6, <2>3, WorkerFrame DEF IInv, poolVars
  <2> QED BY <2>1, <2>2, <2>3
<1>13. ASSUME NEW c \in Clients PROVE ClientAt(c)'
  <2>1. \A v \in Workers : pc[v] = "unborn" => v # t /\ v # w
    BY <1>1, <1>3 DEF IdleLabels
  <2>2. CASE c = t
    BY <1>1, <1>4, <1>5, <2>2 DEF ThreadAt, ClientAt, ClientLabels, StartLabels,
       StopLabels, AddSteps
  <2>3. CASE c # t
    BY <1>4, <1>5, <1>6, <2>1, <2>3, ClientFrame DEF IInv, poolVars
  <2> QED BY <2>2, <2>3
<1>14. OneTaskPerWorker'
  <2>1. \A v \in Workers : v # w => Len(workerTasks'[v]) <= 1
    BY <1>6 DEF IInv, OneTaskPerWorker
  <2>2. \A v \in Workers : Len(workerTasks'[v]) <= 1
    <3> TAKE v \in Workers
    <3>1. CASE v = w
      BY <1>6, <3>1
    <3> QED BY <2>1, <3>1
  <2> QED BY <2>2 DEF OneTaskPerWorker
<1>15. \A u \in Threads : pc'[u] \in {"assign", "notify"} => target'[u] \in Workers
  BY <1>1, <1>4, <1>5 DEF IInv
<1> QED BY <1>7, <1>9, <1>11, <1>12, <1>13, <1>14, <1>15 DEF IInv

(* AddTask_Pick keeps the invariant: taking a worker off standby turns one *)
(* claim into another.                                                     *)
LEMMA AddTask_Pick_Inv ==
  ASSUME IInv, NEW t \in Threads, AddTask_Pick(t) PROVE IInv'
<1> USE ThreadFacts
<1>1. TypeOK /\ ThreadAt(t) /\ AddsTask(t)
  BY DEF IInv, ThreadAt, AddTask_Pick
<1>2. /\ pc[t] \in {"idle", "running"}
      /\ t \in Workers => pc[t] = "running" /\ spawn[t] # <<>>
      /\ t \in Clients => /\ ip[t] \in DOMAIN Program[t]
                          /\ Program[t][ip[t]].op = "AddTask"
  BY <1>1, AtCallFacts DEF AddsTask, ThreadAt
<1>3. UNCHANGED <<ip, spawn, poolTasks, poolRunning, workerVars, history>>
  BY DEF AddTask_Pick
<1>4. ASSUME NEW l \in {"assign", "enqueue"}, Goto(t, l),
             \A u \in Threads : u # t => target'[u] = target[u],
             target' \in [Threads -> 1..(NumberOfThreads + 1)],
             standby' \in Seq(Workers), l = "assign" => target'[t] \in Workers
      PROVE  /\ TypeOK' /\ IdleKept /\ OneTaskPerWorker'
             /\ pc'[t] = l /\ \A u \in Threads : u # t => pc'[u] = pc[u]
             /\ \A v \in Workers : WorkerAt(v)'
             /\ \A c \in Clients : ClientAt(c)'
             /\ \A u \in Threads : pc'[u] \in {"assign", "notify"} => target'[u] \in Workers
  <2>1. /\ pc' \in [Threads -> Labels] /\ pc'[t] = l
        /\ \A u \in Threads : u # t => pc'[u] = pc[u]
    BY <1>1, <1>4, GotoFacts DEF Labels, AddSteps
  <2>2. TypeOK'
    BY <1>1, <1>3, <1>4, <2>1 DEF TypeOK, workerVars, history
  <2>3. IdleKept /\ OneTaskPerWorker'
    BY <1>2, <1>3, <2>1 DEF IInv, IdleKept, Idle, IdleLabels, OneTaskPerWorker, workerVars
  <2>4. ASSUME NEW v \in Workers PROVE WorkerAt(v)'
    <3>1. CASE v = t
      BY <1>1, <1>2, <1>3, <1>4, <2>1, <3>1 DEF ThreadAt, WorkerAt, WorkerLabels,
         IdleLabels, AddSteps, workerVars
    <3>2. CASE v # t
      BY <1>3, <2>1, <3>2, WorkerFrame DEF IInv, workerVars
    <3> QED BY <3>1, <3>2
  <2>5. ASSUME NEW c \in Clients PROVE ClientAt(c)'
    <3>1. CASE c = t
      BY <1>1, <1>2, <1>3, <1>4, <2>1, <3>1 DEF ThreadAt, ClientAt, ClientLabels,
         StartLabels, StopLabels, AddSteps
    <3>2. CASE c # t
      BY <1>2, <1>3, <1>4, <2>1, <3>2, ClientFrame DEF IInv, workerVars
    <3> QED BY <3>1, <3>2
  <2>6. \A u \in Threads : pc'[u] \in {"assign", "notify"} => target'[u] \in Workers
    BY <1>4, <2>1 DEF IInv
  <2> QED BY <2>1, <2>2, <2>3, <2>4, <2>5, <2>6
<1>a. CASE standby = <<>>
  <2>1. Goto(t, "enqueue") /\ UNCHANGED <<target, standby>>
    BY <1>a DEF AddTask_Pick
  <2>2. /\ TypeOK' /\ IdleKept /\ OneTaskPerWorker'
        /\ pc'[t] = "enqueue" /\ \A u \in Threads : u # t => pc'[u] = pc[u]
        /\ \A v \in Workers : WorkerAt(v)'
        /\ \A c \in Clients : ClientAt(c)'
        /\ \A u \in Threads : pc'[u] \in {"assign", "notify"} => target'[u] \in Workers
    BY <1>1, <1>4, <2>1 DEF TypeOK
  <2>3. NoNewClaims
    BY <2>1, <2>2 DEF NoNewClaims
  <2> QED BY <2>2, <2>3, ClaimsFrame DEF IInv
<1>b. CASE standby # <<>>
  <2>1. /\ target' = [target EXCEPT ![t] = Head(standby)]
        /\ standby' = Tail(standby) /\ Goto(t, "assign")
    BY <1>b DEF AddTask_Pick
  <2>2. /\ Head(standby) \in Workers /\ standby' \in Seq(Workers)
        /\ Head(standby) = standby[1]
        /\ DOMAIN standby = 1..Len(standby) /\ Len(standby) \in Nat /\ 1 \in DOMAIN standby
        /\ DOMAIN standby' = 1..(Len(standby) - 1)
        /\ \A i \in DOMAIN standby' : standby'[i] = standby[i + 1]
    <3>1. standby \in Seq(Workers)
      BY <1>1 DEF TypeOK
    <3>2. /\ Head(standby) \in Workers /\ Tail(standby) \in Seq(Workers)
          /\ Len(Tail(standby)) = Len(standby) - 1
          /\ \A i \in 1..Len(Tail(standby)) : Tail(standby)[i] = standby[i + 1]
      BY <1>b, <3>1, HeadTailProperties
    <3>3. /\ DOMAIN standby = 1..Len(standby) /\ Len(standby) \in Nat \ {0}
          /\ DOMAIN Tail(standby) = 1..Len(Tail(standby))
      BY <1>b, <3>1, <3>2, LenProperties, EmptySeq
    <3> QED BY <2>1, <3>2, <3>3
  <2>3. /\ target' \in [Threads -> 1..(NumberOfThreads + 1)]
        /\ target'[t] = Head(standby)
        /\ \A u \in Threads : u # t => target'[u] = target[u]
    <3>1. Head(standby) \in 1..(NumberOfThreads + 1)
      BY <2>2, PoolAssumption DEF Workers
    <3>2. target \in [Threads -> 1..(NumberOfThreads + 1)]
      BY <1>1 DEF TypeOK
    <3> QED BY <2>1, <3>1, <3>2
  <2>4. /\ TypeOK' /\ IdleKept /\ OneTaskPerWorker'
        /\ pc'[t] = "assign" /\ \A u \in Threads : u # t => pc'[u] = pc[u]
        /\ \A v \in Workers : WorkerAt(v)'
        /\ \A c \in Clients : ClientAt(c)'
        /\ \A u \in Threads : pc'[u] \in {"assign", "notify"} => target'[u] \in Workers
    BY <1>4, <2>1, <2>2, <2>3
  <2>5. \A i \in DOMAIN standby' : /\ i + 1 \in DOMAIN standby /\ i + 1 # 1
                                   /\ standby'[i] = standby[i + 1]
    BY <2>2
  <2>6. \A i \in DOMAIN standby' : standby'[i] # Head(standby)
    BY <2>2, <2>5 DEF IInv, OneClaim
  <2>7. OneClaim'
    <3>1. \A i, j \in DOMAIN standby' : standby'[i] = standby'[j] => i = j
      <4> TAKE i, j \in DOMAIN standby'
      <4>1. standby[i + 1] = standby[j + 1] => i + 1 = j + 1
        BY <2>5 DEF IInv, OneClaim
      <4> QED BY <2>2, <2>5, <4>1
    <3>2. ASSUME NEW u \in Threads, NEW v \in Workers, Assigns(u, v)'
          PROVE  /\ ~ OnStandby(v)'
                 /\ \A x \in Threads : Assigns(x, v)' => x = u
      <4>1. CASE u = t
        <5>1. v = Head(standby) /\ OnStandby(v)
          BY <2>2, <2>3, <3>2, <4>1 DEF Assigns, OnStandby
        <5>2. ~ OnStandby(v)'
          BY <2>6, <5>1 DEF OnStandby
        <5>3. \A x \in Threads : ~ Assigns(x, v)
          BY <5>1 DEF IInv, OneClaim
        <5>4. \A x \in Threads : x # t => ~ Assigns(x, v)'
          BY <2>3, <2>4, <5>3 DEF Assigns
        <5> QED BY <4>1, <5>2, <5>4
      <4>2. CASE u # t
        <5>1. Assigns(u, v)
          BY <2>3, <2>4, <3>2, <4>2 DEF Assigns
        <5>2. ~ OnStandby(v) /\ \A x \in Threads : Assigns(x, v) => x = u
          BY <5>1 DEF IInv, OneClaim
        <5>3. ~ OnStandby(v)'
          BY <2>5, <5>2 DEF OnStandby
        <5>4. v # Head(standby)
          BY <2>2, <5>2 DEF OnStandby
        <5>5. \A x \in Threads : Assigns(x, v)' => Assigns(x, v)
          BY <2>3, <2>4, <5>4 DEF Assigns
        <5> QED BY <5>2, <5>3, <5>5
      <4> QED BY <4>1, <4>2
    <3> QED BY <3>1, <3>2 DEF OneClaim
  <2>8. ClaimedAreIdle'
    <3>1. ASSUME NEW v \in Workers, Idle(v) PROVE Idle(v)'
      BY <2>4, <3>1 DEF IdleKept
    <3>2. ASSUME NEW i \in DOMAIN standby' PROVE Idle(standby[i])'
      <4>1. PICK v \in Workers : v = standby[i + 1] /\ Idle(v)
        BY <2>5 DEF IInv, ClaimedAreIdle, Idle
      <4> QED BY <2>5, <3>1, <4>1
    <3>3. ASSUME NEW u \in Threads, pc'[u] = "assign" PROVE Idle(target[u])'
      <4>1. PICK v \in Workers : v = target'[u] /\ Idle(v)
        <5>1. Idle(standby[1]) /\ standby[1] \in Workers
          BY <2>2 DEF IInv, ClaimedAreIdle
        <5>2. CASE u = t
          BY <2>2, <2>3, <5>1, <5>2
        <5>3. CASE u # t
          <6>1. pc[u] = "assign" /\ target'[u] = target[u]
            BY <2>3, <2>4, <3>3, <5>3
          <6> QED BY <6>1 DEF IInv, ClaimedAreIdle
        <5> QED BY <5>2, <5>3
      <4> QED BY <3>1, <4>1
    <3> QED BY <3>2, <3>3 DEF ClaimedAreIdle
  <2> QED BY <2>4, <2>7, <2>8 DEF IInv
<1> QED BY <1>a, <1>b

(* The strengthened invariant holds initially. *)
LEMMA InitInv == ASSUME Init PROVE IInv
<1> USE ThreadFacts
<1>1. TypeOK
  <2>1. /\ <<>> \in Seq(Tasks) /\ <<>> \in Seq(Workers)
        /\ 1 \in 1..(NumberOfThreads + 1)
    BY EmptySeq, PoolAssumption
  <2> QED BY <2>1 DEF Init, TypeOK, Labels
<1>2. OneClaim /\ ClaimedAreIdle
  <2>1. DOMAIN standby = {}
    BY EmptySeq, LenProperties DEF Init
  <2>2. \A t \in Threads : pc[t] # "assign"
    BY DEF Init
  <2> QED BY <2>1, <2>2 DEF OneClaim, ClaimedAreIdle, Assigns, OnStandby
<1>3. OneTaskPerWorker
  BY EmptySeq DEF Init, OneTaskPerWorker
<1>4. \A c \in Clients : ClientAt(c)
  BY DEF Init, ClientAt, ClientLabels, StartLabels, StopLabels, AddSteps
<1>5. \A w \in Workers : WorkerAt(w)
  BY DEF Init, WorkerAt, WorkerLabels, IdleLabels, AddSteps
<1>6. \A t \in Threads : pc[t] \in {"assign", "notify"} => target[t] \in Workers
  BY DEF Init
<1> QED BY <1>1, <1>2, <1>3, <1>4, <1>5, <1>6 DEF IInv

(* Steps that change nothing keep it. *)
LEMMA StutterInv == ASSUME IInv, UNCHANGED vars PROVE IInv'
<1>1. UNCHANGED <<pc, ip, target, spawn, poolTasks, standby, poolRunning,
        workerTasks, workerRunning, shouldStop, separate, accepted, runs>>
  BY DEF vars, poolVars, workerVars, history
<1>2. TypeOK' /\ OneClaim' /\ OneTaskPerWorker' /\ ClaimedAreIdle'
  BY <1>1 DEF IInv, TypeOK, OneClaim, Assigns, OnStandby, OneTaskPerWorker,
              ClaimedAreIdle, Idle
<1>3. \A c \in Clients : ClientAt(c)'
  BY <1>1 DEF IInv, ClientAt
<1>4. \A w \in Workers : WorkerAt(w)'
  BY <1>1 DEF IInv, WorkerAt
<1> QED BY <1>1, <1>2, <1>3, <1>4 DEF IInv

(* Every step of AddTask keeps the invariant. *)
LEMMA AddTaskInv ==
  ASSUME IInv, NEW t \in Threads, AddTask(t) PROVE IInv'
BY AddTask_Pick_Inv, AddTask_Assign_Inv, AddTask_Notify_Inv,
   AddTask_Enqueue_Inv DEF AddTask

(* Every step of every thread keeps it. *)
LEMMA NextInv == ASSUME IInv, [Next]_vars PROVE IInv'
<1>1. ASSUME NEW c \in Clients, ClientStep(c) PROVE IInv'
  <2>1. CASE AddTask(c)
    BY <2>1, AddTaskInv, ThreadFacts
  <2>2. CASE Start(c)
    BY <2>2, Start_Enter_Inv, Start_Lock_Inv, Start_Assign_Inv, Start_Return_Inv DEF Start
  <2>3. CASE Stop(c)
    BY <2>3, Stop_Enter_Inv, Stop_Lock_Inv, Stop_Notify_Inv, Stop_Join_Inv,
       Stop_Return_Inv DEF Stop
  <2>4. CASE Wait_Check(c)
    BY <2>4, Wait_Check_Inv
  <2>5. CASE Drain_Active(c)
    BY <2>5, Drain_Active_Inv
  <2>6. CASE Drain_Queued(c)
    BY <2>6, Drain_Queued_Inv
  <2> QED BY <1>1, <2>1, <2>2, <2>3, <2>4, <2>5, <2>6 DEF ClientStep
<1>2. ASSUME NEW w \in Workers, WorkerStep(w) PROVE IInv'
  <2>1. CASE AddTask(w)
    BY <2>1, AddTaskInv, ThreadFacts
  <2>2. CASE Loop_Top(w)
    BY <2>2, Loop_Top_Inv
  <2>3. CASE Loop_Fetch(w)
    BY <2>3, Loop_Fetch_Inv
  <2>4. CASE Loop_Announce(w)
    BY <2>4, Loop_Announce_Inv
  <2>5. CASE Loop_Park(w)
    BY <2>5, Loop_Park_Inv
  <2>6. CASE Loop_Unpark(w)
    BY <2>6, Loop_Unpark_Inv
  <2>7. CASE Loop_Leave(w)
    BY <2>7, Loop_Leave_Inv
  <2>8. CASE Loop_Branch(w)
    BY <2>8, Loop_Branch_Inv
  <2>9. CASE Loop_Execute(w)
    BY <2>9, Loop_Execute_Inv
  <2>10. CASE Loop_Executed(w)
    BY <2>10, Loop_Executed_Inv
  <2>11. CASE Loop_DrainNext(w)
    BY <2>11, Loop_DrainNext_Inv
  <2>12. CASE Loop_Drained(w)
    BY <2>12, Loop_Drained_Inv
  <2> QED BY <1>2, <2>1, <2>2, <2>3, <2>4, <2>5, <2>6, <2>7, <2>8, <2>9,
             <2>10, <2>11, <2>12 DEF WorkerStep
<1>3. ASSUME NEW t \in Threads, SpuriousWakeup(t) PROVE IInv'
  BY <1>3, SpuriousWakeup_Inv
<1>4. CASE UNCHANGED vars \/ Terminated
  BY <1>4, StutterInv DEF Terminated
<1> QED BY <1>1, <1>2, <1>3, <1>4 DEF Next

(* IInv holds in every reachable state.                                    *)
THEOREM InductiveInvariant == Spec => []IInv
<1>1. Init => IInv
  BY InitInv
<1>2. IInv /\ [Next]_vars => IInv'
  BY NextInv
<1> QED BY <1>1, <1>2, PTL DEF Spec

(* Every variable keeps its type, for any number of workers, any clients,  *)
(* programs and tasks, with and without spurious wake-ups.                 *)
THEOREM TypeCorrectness == Spec => []TypeOK
<1>1. IInv => TypeOK
  BY DEF IInv
<1> QED BY <1>1, InductiveInvariant, PTL

(* A waiting worker is claimed by at most one AddTask: the push between    *)
(* the two locks of ThreadPool::AddTask never hits a worker that another   *)
(* thread has taken off standby, or that is on standby still.              *)
THEOREM ClaimsAreExclusive == Spec => []OneClaim
<1>1. IInv => OneClaim
  BY DEF IInv
<1> QED BY <1>1, InductiveInvariant, PTL

(* A worker's own queue holds at most the task it is about to run. *)
THEOREM QueueBound == Spec => []OneTaskPerWorker
<1>1. IInv => OneTaskPerWorker
  BY DEF IInv
<1> QED BY <1>1, InductiveInvariant, PTL

(* front() is never called on an empty deque, although ShouldStop is read  *)
(* a second time without the lock.                                         *)
THEOREM FrontIsDefined == Spec => []NoEmptyFront
<1>1. IInv => NoEmptyFront
  BY DEF IInv, WorkerAt, NoEmptyFront
<1> QED BY <1>1, InductiveInvariant, PTL

-----------------------------------------------------------------------------
(***************************************************************************)
(* Conservation.  The queues (the pool's, each worker's own and each set   *)
(* aside) are one function Queues, and Booked says how they, the accepted  *)
(* tasks and the executed ones agree.  A step either moves a task from one *)
(* queue to another, executes the first of one, adds one that is new, or   *)
(* concerns none.  That a task pushed is new is where the programs come    *)
(* in: each call of a program, and each child of a task, is added once,    *)
(* because the task a worker runs is in one queue only and counts its      *)
(* children (RunsItsChildren), and accepted holds only tasks whose call or *)
(* turn has come (WasSubmitted).                                           *)
(***************************************************************************)

(* What is left of a sequence without its first element.                   *)
LEMMA TailElements ==
  ASSUME NEW S, NEW s \in Seq(S), s # <<>>
  PROVE  /\ Len(s) \in Nat /\ Len(s) > 0 /\ Head(s) = s[1] /\ Head(s) \in S
         /\ Tail(s) \in Seq(S) /\ Len(Tail(s)) = Len(s) - 1
         /\ \A i \in 1 .. (Len(s) - 1) : Tail(s)[i] = s[i + 1]
         /\ DOMAIN Tail(s) = 1 .. (Len(s) - 1) /\ DOMAIN s = 1 .. Len(s)
  OBVIOUS
(* And with one more element at its end.                                   *)
LEMMA AppendElements ==
  ASSUME NEW S, NEW s \in Seq(S), NEW x \in S
  PROVE  /\ Len(s) \in Nat /\ DOMAIN s = 1 .. Len(s)
         /\ Append(s, x) \in Seq(S) /\ Len(Append(s, x)) = Len(s) + 1
         /\ \A i \in 1 .. Len(s) : Append(s, x)[i] = s[i]
         /\ Append(s, x)[Len(s) + 1] = x
         /\ DOMAIN Append(s, x) = 1 .. (Len(s) + 1)
  OBVIOUS

(* A task is put behind queue b.                                           *)
Joins(K, Q, R, b, x) ==
    /\ Q \in [K -> Seq(Tasks)] /\ R \in [K -> Seq(Tasks)]
    /\ R[b] = Append(Q[b], x)
    /\ \A k \in K : k # b => R[k] = Q[k]

(* The books stay right when the task is accepted with it.                 *)
LEMMA BookAdded ==
  ASSUME NEW K, NEW Q, NEW R, NEW taken, NEW executed, NEW b \in K, NEW x \in Tasks,
         Booked(Q, taken, executed), x \notin taken, Joins(K, Q, R, b, x)
  PROVE  Booked(R, taken \cup {x}, executed)
<1>. USE DEF Joins
<1>1. /\ DOMAIN Q = K /\ DOMAIN R = K
      /\ \A k \in K : /\ Q[k] \in Seq(Tasks) /\ R[k] \in Seq(Tasks)
                      /\ DOMAIN Q[k] = 1 .. Len(Q[k]) /\ DOMAIN R[k] = 1 .. Len(R[k])
                      /\ Len(Q[k]) \in Nat
  OBVIOUS
<1>2. /\ Len(R[b]) = Len(Q[b]) + 1 /\ R[b][Len(Q[b]) + 1] = x
      /\ \A i \in 1 .. Len(Q[b]) : R[b][i] = Q[b][i]
  BY <1>1
<1>3. ASSUME NEW k \in K, NEW i \in DOMAIN R[k]
      PROVE  \/ i \in DOMAIN Q[k] /\ R[k][i] = Q[k][i]
             \/ k = b /\ i = Len(Q[b]) + 1 /\ R[k][i] = x
  BY <1>1, <1>2
<1>4. \A k \in K : \A i \in DOMAIN Q[k] : Q[k][i] \in taken /\ Q[k][i] # x
  BY <1>1 DEF Booked
<1>5. ASSUME NEW k \in K, NEW l \in K, NEW i \in DOMAIN R[k], NEW j \in DOMAIN R[l],
             R[k][i] = R[l][j]
      PROVE  k = l /\ i = j
  BY <1>1, <1>3, <1>4, <1>5 DEF Booked
<1>6. ASSUME NEW k \in K, NEW i \in DOMAIN R[k]
      PROVE  R[k][i] \in taken \cup {x} /\ executed[R[k][i]] = 0
  BY <1>1, <1>3, <1>6 DEF Booked
<1>7. ASSUME NEW y \in taken \cup {x}
      PROVE  executed[y] = 1 \/ (executed[y] = 0 /\ Located(R, y))
  <2>1. CASE y = x
    <3>1. Located(R, x)
      BY <1>1, <1>2 DEF Located
    <3>. QED
      BY <2>1, <3>1 DEF Booked
  <2>2. CASE y \in taken
    <3>1. Located(Q, y) => Located(R, y)
      <4>1. ASSUME NEW k \in K, NEW i \in DOMAIN Q[k]
            PROVE  i \in DOMAIN R[k] /\ R[k][i] = Q[k][i]
        <5>1. CASE k = b
          <6>1. i \in 1 .. Len(Q[b]) /\ Len(Q[b]) \in Nat /\ DOMAIN R[b] = 1 .. Len(R[b])
            BY <1>1, <5>1
          <6>. QED
            BY <1>2, <5>1, <6>1
        <5>2. CASE k # b
          BY <5>2
        <5>. QED
          BY <5>1, <5>2
      <4>. QED
        BY <1>1, <4>1 DEF Located
    <3>. QED
      BY <2>2, <3>1 DEF Booked
  <2>. QED
    BY <2>1, <2>2
<1>. QED
  BY <1>1, <1>5, <1>6, <1>7 DEF Booked

(* The first entry of queue a is taken away, or moved behind queue b.      *)
FirstLeaves(K, q, r, a) ==
    /\ DOMAIN q = K /\ DOMAIN r = K
    /\ \A k \in K : /\ Len(q[k]) \in Nat /\ Len(r[k]) \in Nat
                    /\ DOMAIN q[k] = 1 .. Len(q[k]) /\ DOMAIN r[k] = 1 .. Len(r[k])
    /\ Len(q[a]) > 0 /\ Len(r[a]) = Len(q[a]) - 1
    /\ \A i \in 1 .. Len(r[a]) : r[a][i] = q[a][i + 1]
FirstMoves(K, q, r, a, b) ==
    /\ FirstLeaves(K, q, r, a)
    /\ \A k \in K : k # a /\ k # b => r[k] = q[k]
    /\ Len(r[b]) = Len(q[b]) + 1 /\ r[b][Len(r[b])] = q[a][1]
    /\ \A i \in 1 .. Len(q[b]) : r[b][i] = q[b][i]

FirstExecuted(K, q, r, executed, done, a) ==
    /\ FirstLeaves(K, q, r, a)
    /\ \A k \in K : k # a => r[k] = q[k]
    /\ done[q[a][1]] = executed[q[a][1]] + 1
    /\ \A x \in Tasks : x # q[a][1] => done[x] = executed[x]

(* The books stay right when an entry is moved.                            *)
LEMMA BookMovedEntries ==
  ASSUME NEW K, NEW q, NEW r, NEW taken, NEW executed, NEW a \in K, NEW b \in K, a # b,
         Booked(q, taken, executed), FirstMoves(K, q, r, a, b)
  PROVE  Booked(r, taken, executed)
<1>. USE DEF FirstMoves, FirstLeaves
<1>1. \A k \in K : Len(q[k]) \in Nat /\ Len(r[k]) \in Nat
  OBVIOUS
<1>2. \A k, l \in K : \A i \in 1 .. Len(q[k]), j \in 1 .. Len(q[l]) : q[k][i] = q[l][j] => k = l /\ i = j
  BY DEF Booked
<1>3. \A k \in K : k # a /\ k # b => DOMAIN r[k] = 1 .. Len(q[k])
  OBVIOUS
<1>4. ASSUME NEW k \in K, NEW i \in DOMAIN r[k]
      PROVE  \/ k # a /\ i \in 1 .. Len(q[k]) /\ r[k][i] = q[k][i]
             \/ k = a /\ i + 1 \in 1 .. Len(q[a]) /\ i + 1 # 1 /\ r[k][i] = q[a][i + 1]
             \/ k = b /\ i = Len(r[b]) /\ r[k][i] = q[a][1]
  <2>1. CASE k = a
    <3>1. i \in 1 .. Len(r[a]) /\ Len(q[a]) \in Nat /\ Len(r[a]) = Len(q[a]) - 1
      BY <1>1, <2>1
    <3>2. i + 1 \in 1 .. Len(q[a]) /\ i + 1 # 1
      BY <3>1
    <3>. QED
      BY <2>1, <3>1, <3>2
  <2>2. CASE k = b
    BY <1>1, <2>2
  <2>3. CASE k # a /\ k # b
    BY <1>3, <2>3
  <2>. QED
    BY <2>1, <2>2, <2>3
<1>5. ASSUME NEW k \in K, NEW l \in K, NEW i \in DOMAIN r[k], NEW j \in DOMAIN r[l],
             r[k][i] = r[l][j]
      PROVE  k = l /\ i = j
  <2>1. i \in Int /\ j \in Int /\ 1 \in 1 .. Len(q[a])
    BY <1>1
  <2>2. CASE k # a /\ i \in 1 .. Len(q[k]) /\ r[k][i] = q[k][i]
    <3>1. CASE l # a /\ j \in 1 .. Len(q[l]) /\ r[l][j] = q[l][j]
      <4>1. q[k][i] = q[l][j]
        BY <1>5, <2>2, <3>1
      <4>2. i \in 1 .. Len(q[k]) /\ j \in 1 .. Len(q[l])
        BY <2>2, <3>1
      <4>. QED
        BY SMT, <1>2, <4>1, <4>2
    <3>2. CASE l = a /\ j + 1 \in 1 .. Len(q[a]) /\ j + 1 # 1 /\ r[l][j] = q[a][j + 1]
      <4>1. q[k][i] = q[a][j + 1]
        BY <1>5, <2>2, <3>2
      <4>. QED
        BY Zenon, <1>2, <2>2, <3>2, <4>1
    <3>3. CASE l = b /\ j = Len(r[b]) /\ r[l][j] = q[a][1]
      <4>1. q[k][i] = q[a][1]
        BY <1>5, <2>2, <3>3
      <4>. QED
        BY Zenon, <1>2, <2>1, <2>2, <4>1
    <3>. QED
      BY <1>4, <3>1, <3>2, <3>3
  <2>3. CASE k = a /\ i + 1 \in 1 .. Len(q[a]) /\ i + 1 # 1 /\ r[k][i] = q[a][i + 1]
    <3>1. CASE l # a /\ j \in 1 .. Len(q[l]) /\ r[l][j] = q[l][j]
      BY <1>2, <1>5, <2>3, <3>1
    <3>2. CASE l = a /\ j + 1 \in 1 .. Len(q[a]) /\ j + 1 # 1 /\ r[l][j] = q[a][j + 1]
      <4>1. i + 1 = j + 1
        BY <1>2, <1>5, <2>3, <3>2
      <4>. QED
        BY <2>1, <2>3, <3>2, <4>1
    <3>3. CASE l = b /\ j = Len(r[b]) /\ r[l][j] = q[a][1]
      BY <1>2, <1>5, <2>1, <2>3, <3>3
    <3>. QED
      BY <1>4, <3>1, <3>2, <3>3
  <2>4. CASE k = b /\ i = Len(r[b]) /\ r[k][i] = q[a][1]
    <3>1. CASE l # a /\ j \in 1 .. Len(q[l]) /\ r[l][j] = q[l][j]
      BY <1>2, <1>5, <2>1, <2>4, <3>1
    <3>2. CASE l = a /\ j + 1 \in 1 .. Len(q[a]) /\ j + 1 # 1 /\ r[l][j] = q[a][j + 1]
      BY <1>2, <1>5, <2>1, <2>4, <3>2
    <3>3. CASE l = b /\ j = Len(r[b]) /\ r[l][j] = q[a][1]
      BY <2>4, <3>3
    <3>. QED
      BY <1>4, <3>1, <3>2, <3>3
  <2>. QED
    BY <1>4, <2>2, <2>3, <2>4
<1>6. ASSUME NEW k \in K, NEW i \in DOMAIN r[k]
      PROVE  r[k][i] \in taken /\ executed[r[k][i]] = 0
  <2>1. PICK l \in K : \E j \in 1 .. Len(q[l]) : r[k][i] = q[l][j]
    <3>1. 1 \in 1 .. Len(q[a])
      BY <1>1
    <3>. QED
      BY Zenon, <1>4, <3>1
  <2>. QED
    BY <2>1 DEF Booked
<1>7. ASSUME NEW y \in taken
      PROVE  executed[y] = 1 \/ (executed[y] = 0 /\ Located(r, y))
  <2>1. ASSUME NEW k \in K, NEW i \in DOMAIN q[k]
        PROVE  \E l \in K : \E j \in DOMAIN r[l] : r[l][j] = q[k][i]
    <3>1. CASE k # a /\ k # b
      BY <1>3, <3>1
    <3>2. CASE k = b
      <4>1. i \in 1 .. Len(q[b]) /\ Len(q[b]) \in Nat /\ Len(r[b]) = Len(q[b]) + 1 /\ DOMAIN r[b] = 1 .. Len(r[b])
        BY <1>1, <3>2
      <4>2. i \in DOMAIN r[b]
        BY <4>1
      <4>. QED
        BY <3>2, <4>1, <4>2
    <3>3. CASE k = a /\ i # 1
      <4>1. i - 1 \in 1 .. Len(r[a]) /\ (i - 1) + 1 = i
        BY <1>1, <3>3
      <4>2. i - 1 \in DOMAIN r[a] /\ r[a][i - 1] = q[a][(i - 1) + 1]
        BY <4>1
      <4>. QED
        BY <3>3, <4>1, <4>2
    <3>4. CASE k = a /\ i = 1
      <4>1. Len(r[b]) \in DOMAIN r[b]
        BY <1>1
      <4>. QED
        BY <3>4, <4>1
    <3>. QED
      BY <3>1, <3>2, <3>3, <3>4
  <2>2. Located(q, y) => Located(r, y)
    BY <2>1 DEF Located
  <2>. QED
    BY <2>2 DEF Booked
<1>. QED
  BY <1>5, <1>6, <1>7 DEF Booked

(* The entry that is taken away is executed.                               *)
LEMMA BookExecutedEntries ==
  ASSUME NEW K, NEW q, NEW r, NEW taken, taken \subseteq Tasks,
         NEW executed, NEW done, NEW a \in K,
         Booked(q, taken, executed), FirstExecuted(K, q, r, executed, done, a)
  PROVE  Booked(r, taken, done)
<1>. USE DEF FirstExecuted, FirstLeaves
<1>1. \A k \in K : Len(q[k]) \in Nat /\ Len(r[k]) \in Nat
  OBVIOUS
<1>2. \A k, l \in K : \A i \in 1 .. Len(q[k]), j \in 1 .. Len(q[l]) : q[k][i] = q[l][j] => k = l /\ i = j
  BY DEF Booked
<1>3. \A k \in K : k # a => DOMAIN r[k] = 1 .. Len(q[k])
  OBVIOUS
<1>4. ASSUME NEW k \in K, NEW i \in DOMAIN r[k]
      PROVE  \/ k # a /\ i \in 1 .. Len(q[k]) /\ r[k][i] = q[k][i]
             \/ k = a /\ i + 1 \in 1 .. Len(q[a]) /\ i + 1 # 1 /\ r[k][i] = q[a][i + 1]
  <2>1. CASE k = a
    <3>1. i \in 1 .. Len(r[a]) /\ Len(q[a]) \in Nat /\ Len(r[a]) = Len(q[a]) - 1
      BY <1>1, <2>1
    <3>2. i + 1 \in 1 .. Len(q[a]) /\ i + 1 # 1
      BY <3>1
    <3>. QED
      BY <2>1, <3>1, <3>2
  <2>2. CASE k # a
    BY <1>3, <2>2
  <2>. QED
    BY <2>1, <2>2
<1>5. ASSUME NEW k \in K, NEW l \in K, NEW i \in DOMAIN r[k], NEW j \in DOMAIN r[l],
             r[k][i] = r[l][j]
      PROVE  k = l /\ i = j
  <2>1. i \in Int /\ j \in Int
    BY <1>1
  <2>2. CASE k # a /\ i \in 1 .. Len(q[k]) /\ r[k][i] = q[k][i]
    <3>1. CASE l # a /\ j \in 1 .. Len(q[l]) /\ r[l][j] = q[l][j]
      <4>1. q[k][i] = q[l][j]
        BY <1>5, <2>2, <3>1
      <4>2. i \in 1 .. Len(q[k]) /\ j \in 1 .. Len(q[l])
        BY <2>2, <3>1
      <4>. QED
        BY SMT, <1>2, <4>1, <4>2
    <3>2. CASE l = a /\ j + 1 \in 1 .. Len(q[a]) /\ j + 1 # 1 /\ r[l][j] = q[a][j + 1]
      <4>1. q[k][i] = q[a][j + 1]
        BY <1>5, <2>2, <3>2
      <4>. QED
        BY Zenon, <1>2, <2>2, <3>2, <4>1
    <3>. QED
      BY <1>4, <3>1, <3>2
  <2>3. CASE k = a /\ i + 1 \in 1 .. Len(q[a]) /\ i + 1 # 1 /\ r[k][i] = q[a][i + 1]
    <3>1. CASE l # a /\ j \in 1 .. Len(q[l]) /\ r[l][j] = q[l][j]
      BY <1>2, <1>5, <2>3, <3>1
    <3>2. CASE l = a /\ j + 1 \in 1 .. Len(q[a]) /\ j + 1 # 1 /\ r[l][j] = q[a][j + 1]
      <4>1. i + 1 = j + 1
        BY <1>2, <1>5, <2>3, <3>2
      <4>. QED
        BY <2>1, <2>3, <3>2, <4>1
    <3>. QED
      BY <1>4, <3>1, <3>2
  <2>. QED
    BY <1>4, <2>2, <2>3
<1>6. q[a][1] \in taken /\ executed[q[a][1]] = 0 /\ 1 \in 1 .. Len(q[a])
  BY <1>1 DEF Booked
<1>7. ASSUME NEW k \in K, NEW i \in DOMAIN r[k]
      PROVE  r[k][i] \in taken /\ done[r[k][i]] = 0
  <2>1. PICK l \in K : \E j \in 1 .. Len(q[l]) : r[k][i] = q[l][j] /\ ~ (l = a /\ j = 1)
    BY <1>1, <1>4
  <2>2. PICK j \in 1 .. Len(q[l]) : r[k][i] = q[l][j] /\ ~ (l = a /\ j = 1)
    BY <2>1
  <2>3. q[l][j] \in taken /\ executed[q[l][j]] = 0
    BY DEF Booked
  <2>4. q[l][j] # q[a][1]
    BY <1>2, <1>6, <2>2
  <2>. QED
    BY <2>2, <2>3, <2>4
<1>8. ASSUME NEW y \in taken
      PROVE  done[y] = 1 \/ (done[y] = 0 /\ Located(r, y))
  <2>1. CASE y = q[a][1]
    BY <1>6, <2>1
  <2>2. CASE y # q[a][1]
    <3>1. executed[y] = 1 \/ (executed[y] = 0 /\ Located(q, y))
      BY DEF Booked
    <3>2. ASSUME Located(q, y) PROVE Located(r, y)
      <4>1. PICK k \in K : \E i \in DOMAIN q[k] : q[k][i] = y
        BY <3>2 DEF Located
      <4>2. PICK i \in DOMAIN q[k] : q[k][i] = y
        BY <4>1
      <4>3. CASE k # a
        BY <4>2, <4>3 DEF Located
      <4>4. CASE k = a
        <5>1. i - 1 \in 1 .. Len(r[a]) /\ (i - 1) + 1 = i
          BY <1>1, <2>2, <4>2, <4>4
        <5>2. i - 1 \in DOMAIN r[a] /\ r[a][i - 1] = y
          BY <4>2, <4>4, <5>1
        <5>. QED
          BY <5>2 DEF Located
      <4>. QED
        BY <4>3, <4>4
    <3>3. done[y] = executed[y]
      BY <2>2
    <3>. QED
      BY <3>1, <3>2, <3>3
  <2>. QED
    BY <2>1, <2>2
<1>9. \A y \in Tasks \ taken : done[y] = 0
  BY <1>6 DEF Booked
<1>. QED
  BY <1>5, <1>7, <1>8, <1>9 DEF Booked

(* What the queues are, before and after a step.                           *)
LEMMA QueueValues ==
  ASSUME TypeOK, TypeOK'
  PROVE  /\ Pool \in QueueNames
         /\ \A w \in Workers : Own(w) \in QueueNames /\ Aside(w) \in QueueNames
         /\ Queues \in [QueueNames -> Seq(Tasks)] /\ Queues' \in [QueueNames -> Seq(Tasks)]
         /\ Queues[Pool] = poolTasks /\ Queues'[Pool] = poolTasks'
         /\ \A w \in Workers : /\ Queues[Own(w)] = workerTasks[w]
                               /\ Queues'[Own(w)] = workerTasks'[w]
                               /\ Queues[Aside(w)] = separate[w]
                               /\ Queues'[Aside(w)] = separate'[w]
         /\ \A v, w \in Workers : /\ Own(v) = Own(w) => v = w
                                  /\ Aside(v) = Aside(w) => v = w
                                  /\ Own(v) # Aside(w)
         /\ \A w \in Workers : Own(w) # Pool /\ Aside(w) # Pool
         /\ \A k \in QueueNames : \/ k = Pool
                                  \/ \E w \in Workers : k = Own(w) \/ k = Aside(w)
<1>1. /\ Pool \in QueueNames
      /\ \A w \in Workers : Own(w) \in QueueNames /\ Aside(w) \in QueueNames
      /\ \A k \in QueueNames : \/ k = Pool
                               \/ \E w \in Workers : k = Own(w) \/ k = Aside(w)
  BY DEF QueueNames
<1>2. /\ \A v, w \in Workers : /\ Own(v) = Own(w) => v = w
                               /\ Aside(v) = Aside(w) => v = w
                               /\ Own(v) # Aside(w)
      /\ \A w \in Workers : /\ Own(w) # Pool /\ Aside(w) # Pool
                            /\ Own(w)[1] = "own" /\ Own(w)[2] = w
                            /\ Aside(w)[1] # "own" /\ Aside(w)[2] = w
  BY DEF Own, Aside, Pool
<1>3. /\ Queues[Pool] = poolTasks /\ Queues'[Pool] = poolTasks'
      /\ \A w \in Workers : /\ Queues[Own(w)] = workerTasks[w]
                            /\ Queues'[Own(w)] = workerTasks'[w]
                            /\ Queues[Aside(w)] = separate[w]
                            /\ Queues'[Aside(w)] = separate'[w]
  BY <1>1, <1>2 DEF Queues
<1>4. /\ DOMAIN Queues = QueueNames /\ DOMAIN Queues' = QueueNames
      /\ \A k \in QueueNames : Queues[k] \in Seq(Tasks) /\ Queues'[k] \in Seq(Tasks)
  <2>1. DOMAIN Queues = QueueNames /\ DOMAIN Queues' = QueueNames
    BY DEF Queues
  <2>2. ASSUME NEW k \in QueueNames PROVE Queues[k] \in Seq(Tasks) /\ Queues'[k] \in Seq(Tasks)
    <3>1. CASE k = Pool
      BY <1>3, <3>1 DEF TypeOK
    <3>2. CASE \E w \in Workers : k = Own(w) \/ k = Aside(w)
      <4>1. PICK w \in Workers : k = Own(w) \/ k = Aside(w)
        BY <3>2
      <4>2. /\ workerTasks[w] \in Seq(Tasks) /\ workerTasks'[w] \in Seq(Tasks)
            /\ separate[w] \in Seq(Tasks) /\ separate'[w] \in Seq(Tasks)
        BY DEF TypeOK
      <4>. QED
        BY <1>3, <4>1, <4>2
    <3>. QED
      BY <1>1, <3>1, <3>2
  <2>. QED
    BY <2>1, <2>2
<1>5. /\ Queues = [k \in QueueNames |-> Queues[k]]
      /\ Queues' = [k \in QueueNames |-> Queues'[k]]
  BY DEF Queues
<1>6. Queues \in [QueueNames -> Seq(Tasks)] /\ Queues' \in [QueueNames -> Seq(Tasks)]
  BY Zenon, <1>4, <1>5
<1>. QED
  BY <1>1, <1>2, <1>3, <1>6

(* A call that is made stays made.                                         *)
CallsKept ==
    \A c \in Clients : \/ ip'[c] = ip[c] /\ (pc[c] = "notify" => pc'[c] = "notify")
                       \/ ip'[c] = ip[c] + 1

(* A worker that runs a task goes on with it and has added as many of its  *)
(* children or more, or has executed it.                                   *)
RunGoesOn(w) ==
    Busy(w) => \/ Busy(w)' /\ Running(w)' = Running(w) /\ Submitted(w) <= Submitted(w)'
               \/ runs'[Running(w)] = 1
RunsGoOn == \A w \in Workers : RunGoesOn(w)

(* What a busy worker runs is a task, the first of one of its queues.      *)
LEMMA RunningFacts ==
  ASSUME TypeOK, NEW w \in Workers, WorkerAt(w), Busy(w)
  PROVE  /\ Running(w) \in Tasks /\ Children[Running(w)] \in Seq(Tasks)
         /\ spawn[w] \in Seq(Tasks)
         /\ Len(Children[Running(w)]) \in Nat /\ Len(spawn[w]) \in Nat
         /\ DOMAIN Children[Running(w)] = 1 .. Len(Children[Running(w)])
         /\ DOMAIN spawn[w] = 1 .. Len(spawn[w])
         /\ Submitted(w) \in Int
<1>1. workerTasks[w] \in Seq(Tasks) /\ separate[w] \in Seq(Tasks) /\ spawn[w] \in Seq(Tasks)
  BY DEF TypeOK
<1>2. workerTasks[w] # <<>> \/ separate[w] # <<>>
  BY DEF WorkerAt, Busy
<1>3. Running(w) \in Tasks
  BY <1>1, <1>2, TailElements DEF Running
<1>4. Children[Running(w)] \in Seq(Tasks)
  BY <1>3, PoolAssumption
<1>5. /\ Len(Children[Running(w)]) \in Nat /\ Len(spawn[w]) \in Nat
      /\ DOMAIN Children[Running(w)] = 1 .. Len(Children[Running(w)])
      /\ DOMAIN spawn[w] = 1 .. Len(spawn[w])
  BY <1>1, <1>4
<1>6. Submitted(w) \in Int
  BY <1>5 DEF Submitted
<1>. QED
  BY <1>1, <1>3, <1>4, <1>5, <1>6

(* Whoever has submitted a task has done so after the step.                *)
LEMMA SubmissionsKept ==
  ASSUME TypeOK, TypeOK', \A w \in Workers : WorkerAt(w) /\ WorkerAt(w)',
         CallsKept, RunsGoOn, \A x \in Tasks : runs[x] = 1 => runs'[x] = 1,
         NEW y, WasSubmitted(y)
  PROVE  WasSubmitted(y)'
<1>1. CASE \E c \in Clients : \E i \in DOMAIN Program[c] :
             CallIsMade(c, i) /\ Program[c][i].task = y
  <2>1. PICK c \in Clients : \E i \in DOMAIN Program[c] :
               CallIsMade(c, i) /\ Program[c][i].task = y
    BY <1>1
  <2>2. PICK i \in DOMAIN Program[c] : CallIsMade(c, i) /\ Program[c][i].task = y
    BY <2>1
  <2>3. ip[c] \in Nat /\ i \in Nat
    <3>1. Program[c] \in Seq(Calls)
      BY PoolAssumption
    <3>. QED
      BY <3>1 DEF TypeOK
  <2>4. CallIsMade(c, i)'
    <3>1. CASE ip'[c] = ip[c] /\ (pc[c] = "notify" => pc'[c] = "notify")
      BY <2>2, <3>1 DEF CallIsMade
    <3>2. CASE ip'[c] = ip[c] + 1
      BY <2>2, <2>3, <3>2 DEF CallIsMade
    <3>. QED
      BY <3>1, <3>2 DEF CallsKept
  <2>. QED
    BY <2>2, <2>4 DEF WasSubmitted
<1>2. CASE \E x \in Tasks : \E j \in DOMAIN Children[x] :
             ChildIsAdded(x, j) /\ Children[x][j] = y
  <2>1. PICK x \in Tasks : \E j \in DOMAIN Children[x] :
               ChildIsAdded(x, j) /\ Children[x][j] = y
    BY <1>2
  <2>2. PICK j \in DOMAIN Children[x] : ChildIsAdded(x, j) /\ Children[x][j] = y
    BY <2>1
  <2>3. ChildIsAdded(x, j)'
    <3>1. CASE runs[x] = 1
      BY <3>1 DEF ChildIsAdded
    <3>2. CASE \E w \in Workers : Busy(w) /\ Running(w) = x /\ j <= Submitted(w)
      <4>1. PICK w \in Workers : Busy(w) /\ Running(w) = x /\ j <= Submitted(w)
        BY <3>2
      <4>2. CASE runs'[x] = 1
        BY <4>2 DEF ChildIsAdded
      <4>3. CASE Busy(w)' /\ Running(w)' = Running(w) /\ Submitted(w) <= Submitted(w)'
        <5>1. Submitted(w) \in Int /\ Submitted(w)' \in Int /\ j \in Int
          <6>1. Submitted(w) \in Int
            BY <4>1, RunningFacts
          <6>2. WorkerAt(w)' /\ Busy(w)'
            BY <4>3
          <6>3. Submitted(w)' \in Int
            <7>1. workerTasks'[w] \in Seq(Tasks) /\ separate'[w] \in Seq(Tasks) /\ spawn'[w] \in Seq(Tasks)
              BY DEF TypeOK
            <7>2. Running(w)' \in Tasks
              BY <4>1, <4>3
            <7>3. Children[Running(w)'] \in Seq(Tasks)
              BY <7>2, PoolAssumption
            <7>4. Len(Children[Running(w)']) \in Nat /\ Len(spawn'[w]) \in Nat
              BY <7>1, <7>3
            <7>. QED
              BY <7>4 DEF Submitted
          <6>4. j \in Int
            <7>1. Children[x] \in Seq(Tasks)
              BY PoolAssumption
            <7>. QED
              BY <7>1
          <6>. QED
            BY <6>1, <6>3, <6>4
        <5>2. j <= Submitted(w)'
          BY <4>1, <4>3, <5>1
        <5>. QED
          BY <4>1, <4>3, <5>2 DEF ChildIsAdded
      <4>. QED
        BY <4>1, <4>2, <4>3 DEF RunsGoOn, RunGoesOn
    <3>. QED
      BY <2>2, <3>1, <3>2 DEF ChildIsAdded
  <2>. QED
    BY <2>2, <2>3 DEF WasSubmitted
<1>. QED
  BY <1>1, <1>2 DEF WasSubmitted

(* A worker whose task, and the children it has yet to add, a step leaves  *)
(* alone.                                                                  *)
RunKept(w) ==
    /\ Busy(w) <=> Busy(w)'
    /\ Busy(w) => Running(w)' = Running(w)
    /\ spawn'[w] = spawn[w]
    /\ pc[w] = "notify" <=> pc'[w] = "notify"

(* It runs its children as before.                                         *)
LEMMA RunFrame ==
  ASSUME TypeOK, NEW w \in Workers, WorkerAt(w), RunKept(w), RunsItsChildren(w)
  PROVE  RunsItsChildren(w)' /\ RunGoesOn(w)
<1>1. RunsItsChildren(w)'
  BY DEF RunsItsChildren, RunKept
<1>2. ASSUME Busy(w) PROVE Submitted(w)' = Submitted(w)
  BY <1>2 DEF RunKept, Submitted
<1>3. ASSUME Busy(w) PROVE Submitted(w) <= Submitted(w)'
  <2>1. Submitted(w) \in Int
    BY <1>3, RunningFacts
  <2>. QED
    BY <1>2, <1>3, <2>1
<1>. QED
  BY <1>1, <1>3 DEF RunGoesOn, RunKept

(* A step that concerns no queue and no running task.                      *)
QuietStep ==
    /\ UNCHANGED <<spawn, poolTasks, workerTasks, separate, accepted, runs>>
    /\ CallsKept
    /\ \A w \in Workers : (Busy(w) <=> Busy(w)') /\ (pc[w] = "notify" <=> pc'[w] = "notify")

(* It keeps the invariant.                                                 *)
LEMMA QuietFrame ==
  ASSUME TaskInv, IInv', QuietStep PROVE TaskInv'
<1>1. Queues' = Queues
  BY DEF QuietStep, Queues
<1>2. Booked(Queues, accepted, runs)'
  BY <1>1 DEF TaskInv, QuietStep, Booked, Located
<1>3. ASSUME NEW w \in Workers PROVE RunsItsChildren(w)' /\ RunGoesOn(w)
  <2>1. RunKept(w)
    BY DEF RunKept, QuietStep, Running
  <2>. QED
    BY <2>1, RunFrame DEF TaskInv, IInv
<1>4. ASSUME NEW y \in accepted' PROVE WasSubmitted(y)'
  <2>1. WasSubmitted(y)
    BY <1>4 DEF QuietStep, TaskInv
  <2>2. /\ TypeOK /\ TypeOK' /\ (\A w \in Workers : WorkerAt(w) /\ WorkerAt(w)')
        /\ CallsKept /\ RunsGoOn /\ (\A x \in Tasks : runs[x] = 1 => runs'[x] = 1)
    BY <1>3 DEF IInv, TaskInv, QuietStep, RunsGoOn
  <2>. QED
    BY <2>1, <2>2, SubmissionsKept
<1>. QED
  BY <1>2, <1>3, <1>4 DEF TaskInv

(* A thread outside its task and outside AddTask steps to another such     *)
(* place.                                                                  *)
Elsewhere(label) == label \notin {"running"} \cup AddSteps
(* Steps of that kind concern no queue and no running task.                *)
LEMMA QuietSteps ==
  ASSUME IInv, UNCHANGED <<spawn, poolTasks, workerTasks, separate, accepted, runs>>,
         \A t \in Threads : pc'[t] = pc[t] \/ (Elsewhere(pc[t]) /\ Elsewhere(pc'[t])),
         ip' = ip \/ \E c \in Clients : Return(c)
  PROVE  QuietStep
<1>1. \A t \in Threads : pc[t] = "notify" <=> pc'[t] = "notify"
  BY DEF Elsewhere, AddSteps
<1>2. CallsKept
  BY <1>1, ThreadFacts DEF CallsKept, IInv, TypeOK, Return
<1>3. \A w \in Workers : Busy(w) <=> Busy(w)'
  BY ThreadFacts DEF Busy, Elsewhere
<1>. QED
  BY <1>1, <1>2, <1>3, ThreadFacts DEF QuietStep

(* The steps of the loop that take and leave no task.                      *)
LEMMA LoopQuiet ==
  ASSUME IInv, NEW w \in Workers,
         Loop_Top(w) \/ Loop_Announce(w) \/ Loop_Park(w) \/ Loop_Unpark(w) \/ Loop_Branch(w)
  PROVE  QuietStep
<1>. USE ThreadFacts
<1>1. TypeOK
  BY DEF IInv
<1>2. UNCHANGED <<ip, spawn, poolTasks, workerTasks, separate, accepted, runs>>
  BY DEF Loop_Top, Loop_Announce, Loop_Park, Loop_Unpark, Loop_Branch, poolVars,
     workerVars, history
<1>3. \A t \in Threads : pc'[t] = pc[t] \/ (Elsewhere(pc[t]) /\ Elsewhere(pc'[t]))
  <2>1. CASE Loop_Top(w)
    BY <1>1, <2>1 DEF Loop_Top, Goto, TypeOK, Elsewhere, AddSteps
  <2>2. CASE Loop_Announce(w)
    BY <1>1, <2>2 DEF Loop_Announce, TypeOK, Elsewhere, AddSteps
  <2>3. CASE Loop_Park(w)
    BY <1>1, <2>3 DEF Loop_Park, Goto, TypeOK, Elsewhere, AddSteps
  <2>4. CASE Loop_Unpark(w)
    BY <1>1, <2>4 DEF Loop_Unpark, Goto, TypeOK, Elsewhere, AddSteps
  <2>5. CASE Loop_Branch(w)
    BY <1>1, <2>5 DEF Loop_Branch, Goto, TypeOK, Elsewhere, AddSteps
  <2>. QED
    BY <2>1, <2>2, <2>3, <2>4, <2>5
<1>. QED
  BY <1>2, <1>3, QuietSteps

(* Starting and stopping the pool and waiting for it.                      *)
LEMMA ClientQuiet ==
  ASSUME IInv, NEW c \in Clients,
         \/ Start_Enter(c) \/ Start_Lock(c) \/ Start_Return(c)
         \/ Wait_Check(c) \/ Drain_Active(c) \/ Drain_Queued(c)
         \/ Stop_Enter(c) \/ Stop_Lock(c) \/ Stop_Notify(c) \/ Stop_Join(c) \/ Stop_Return(c)
  PROVE  QuietStep
<1>. USE ThreadFacts
<1>1. TypeOK /\ ClientAt(c)
  BY DEF IInv
<1>2. UNCHANGED <<spawn, poolTasks, workerTasks, separate, accepted, runs>>
  BY DEF Start_Enter, Start_Lock, Start_Return, Wait_Check, Drain_Active, Drain_Queued,
     Stop_Enter, Stop_Lock, Stop_Notify, Stop_Join, Stop_Return, poolVars, workerVars, history
<1>3. ip' = ip \/ Return(c)
  BY DEF Start_Enter, Start_Lock, Start_Return, Wait_Check, Drain_Active, Drain_Queued,
     Stop_Enter, Stop_Lock, Stop_Notify, Stop_Join, Stop_Return
<1>4. \A t \in Threads : pc'[t] = pc[t] \/ (Elsewhere(pc[t]) /\ Elsewhere(pc'[t]))
  <2>. USE <1>1 DEF TypeOK, Goto, Return, Elsewhere, AddSteps, AtCall
  <2>1. CASE Start_Enter(c)
    BY <2>1 DEF Start_Enter
  <2>2. CASE Start_Lock(c)
    <3>1. CASE Goto(c, "startAssign") \/ Goto(c, "startLock")
      BY <2>2, <3>1 DEF Start_Lock
    <3>2. CASE pc' = [pc EXCEPT ![target[c]] = "top", ![c] = "startLock"]
      <4>1. pc[target[c]] = "unborn"
        BY <2>2 DEF Start_Lock, ClientAt, StartLabels
      <4>. QED
        BY <2>2, <3>2, <4>1 DEF Start_Lock
    <3>. QED
      BY <2>2, <3>1, <3>2 DEF Start_Lock, StartWorker
  <2>3. CASE Start_Return(c)
    BY <2>3 DEF Start_Return
  <2>4. CASE Wait_Check(c)
    BY <2>4 DEF Wait_Check
  <2>5. CASE Drain_Active(c)
    BY <2>5 DEF Drain_Active
  <2>6. CASE Drain_Queued(c)
    BY <2>6 DEF Drain_Queued
  <2>7. CASE Stop_Enter(c)
    BY <2>7 DEF Stop_Enter
  <2>8. CASE Stop_Lock(c)
    BY <2>8 DEF Stop_Lock
  <2>9. CASE Stop_Notify(c)
    <3>1. target[c] \in Workers
      BY <2>9 DEF Stop_Notify, ClientAt
    <3>2. pc[c] = "stopNotify" /\ NotifyWorker(target[c], c, "stopJoin")
      BY <2>9 DEF Stop_Notify
    <3>. QED
      BY <3>1, <3>2 DEF NotifyWorker
  <2>10. CASE Stop_Join(c)
    BY <2>10 DEF Stop_Join
  <2>11. CASE Stop_Return(c)
    BY <2>11 DEF Stop_Return
  <2>. QED
    BY <2>1, <2>2, <2>3, <2>4, <2>5, <2>6, <2>7, <2>8, <2>9, <2>10, <2>11
<1>. QED
  BY <1>2, <1>3, <1>4, QuietSteps

(* A wake-up without a reason, and no step at all.                         *)
LEMMA WakeupQuiet ==
  ASSUME IInv, UNCHANGED vars \/ \E t \in Threads : SpuriousWakeup(t)
  PROVE  QuietStep
<1>1. TypeOK
  BY DEF IInv
<1>2. UNCHANGED <<ip, spawn, poolTasks, workerTasks, separate, accepted, runs>>
  BY DEF SpuriousWakeup, vars, poolVars, workerVars, history
<1>3. \A t \in Threads : pc'[t] = pc[t] \/ (Elsewhere(pc[t]) /\ Elsewhere(pc'[t]))
  BY <1>1 DEF SpuriousWakeup, vars, Goto, TypeOK, Elsewhere, AddSteps
<1>. QED
  BY <1>2, <1>3, QuietSteps

(* AddTask takes a worker off standby, or finds none.                      *)
LEMMA PickQuiet ==
  ASSUME IInv, NEW t \in Threads, AddTask_Pick(t) PROVE QuietStep
<1>. USE ThreadFacts
<1>1. TypeOK
  BY DEF IInv
<1>2. UNCHANGED <<ip, spawn, poolTasks, workerTasks, separate, accepted, runs>>
  BY DEF AddTask_Pick, workerVars, history
<1>3. /\ \A u \in Threads : u # t => pc'[u] = pc[u]
      /\ pc'[t] \in {"assign", "enqueue"}
      /\ t \in Workers => pc[t] = "running"
      /\ t \in Clients => pc[t] = "idle"
  BY <1>1 DEF AddTask_Pick, Goto, TypeOK, AddsTask, AtCall
<1>4. \A u \in Threads : pc[u] = "notify" <=> pc'[u] = "notify"
  BY <1>3 DEF Threads
<1>5. \A w \in Workers : Busy(w) <=> Busy(w)'
  BY <1>3 DEF Busy, AddSteps
<1>6. CallsKept
  BY <1>2, <1>4 DEF CallsKept
<1>. QED
  BY <1>2, <1>4, <1>5, <1>6 DEF QuietStep

(* The pool's queues as functions and sequences.                           *)
LEMMA QueueShapes ==
  ASSUME TypeOK, TypeOK'
  PROVE  /\ DOMAIN Queues = QueueNames /\ DOMAIN Queues' = QueueNames
         /\ \A k \in QueueNames : /\ Queues[k] \in Seq(Tasks) /\ Queues'[k] \in Seq(Tasks)
                                  /\ Len(Queues[k]) \in Nat /\ Len(Queues'[k]) \in Nat
                                  /\ DOMAIN Queues[k] = 1 .. Len(Queues[k])
                                  /\ DOMAIN Queues'[k] = 1 .. Len(Queues'[k])
<1>1. Queues \in [QueueNames -> Seq(Tasks)] /\ Queues' \in [QueueNames -> Seq(Tasks)]
  BY QueueValues
<1>. HIDE DEF Queues
<1>2. \A q \in [QueueNames -> Seq(Tasks)] :
        /\ DOMAIN q = QueueNames
        /\ \A k \in QueueNames : /\ q[k] \in Seq(Tasks) /\ Len(q[k]) \in Nat
                                 /\ DOMAIN q[k] = 1 .. Len(q[k])
  OBVIOUS
<1>. QED
  BY Zenon, <1>1, <1>2

(* A step that changes only the two queues it names.                       *)
OthersKept(a, b) == \A k \in QueueNames : k # a /\ k # b => Queues'[k] = Queues[k]

(* The first task of one queue is moved behind another.                    *)
LEMMA QueueMoved ==
  ASSUME TypeOK, TypeOK', NEW a \in QueueNames, NEW b \in QueueNames, a # b,
         Booked(Queues, accepted, runs), UNCHANGED <<accepted, runs>>,
         Queues[a] # <<>>, Queues'[a] = Tail(Queues[a]),
         Queues'[b] = Append(Queues[b], Head(Queues[a])), OthersKept(a, b)
  PROVE  Booked(Queues, accepted, runs)'
<1>1. /\ DOMAIN Queues = QueueNames /\ DOMAIN Queues' = QueueNames
      /\ \A k \in QueueNames : /\ Len(Queues[k]) \in Nat /\ Len(Queues'[k]) \in Nat
                               /\ DOMAIN Queues[k] = 1 .. Len(Queues[k])
                               /\ DOMAIN Queues'[k] = 1 .. Len(Queues'[k])
  BY QueueShapes
<1>2. Queues[a] \in Seq(Tasks) /\ Queues[b] \in Seq(Tasks)
  BY QueueShapes
<1>3. /\ Len(Queues[a]) > 0 /\ Len(Queues'[a]) = Len(Queues[a]) - 1
      /\ Head(Queues[a]) = Queues[a][1] /\ Head(Queues[a]) \in Tasks
      /\ \A i \in 1 .. Len(Queues'[a]) : Queues'[a][i] = Queues[a][i + 1]
  BY <1>1, <1>2, TailElements
<1>4. /\ Len(Queues'[b]) = Len(Queues[b]) + 1 /\ Queues'[b][Len(Queues'[b])] = Queues[a][1]
      /\ \A i \in 1 .. Len(Queues[b]) : Queues'[b][i] = Queues[b][i]
  BY <1>1, <1>2, <1>3, AppendElements
<1>5. FirstMoves(QueueNames, Queues, Queues', a, b)
  BY <1>1, <1>3, <1>4 DEF FirstMoves, FirstLeaves, OthersKept
<1>6. Booked(Queues', accepted, runs)
  BY <1>5, BookMovedEntries
<1>. QED
  BY <1>6

(* The first task of a queue is executed and taken away.                   *)
LEMMA QueueExecuted ==
  ASSUME TypeOK, TypeOK', NEW a \in QueueNames,
         Booked(Queues, accepted, runs), accepted' = accepted,
         Queues[a] # <<>>, Queues'[a] = Tail(Queues[a]), OthersKept(a, a),
         runs' = [runs EXCEPT ![Head(Queues[a])] = @ + 1]
  PROVE  Booked(Queues, accepted, runs)' /\ runs[Head(Queues[a])] = 0 /\ runs'[Head(Queues[a])] = 1
<1>1. /\ DOMAIN Queues = QueueNames /\ DOMAIN Queues' = QueueNames
      /\ \A k \in QueueNames : /\ Len(Queues[k]) \in Nat /\ Len(Queues'[k]) \in Nat
                               /\ DOMAIN Queues[k] = 1 .. Len(Queues[k])
                               /\ DOMAIN Queues'[k] = 1 .. Len(Queues'[k])
  BY QueueShapes
<1>2. Queues[a] \in Seq(Tasks)
  BY QueueShapes
<1>3. /\ Len(Queues[a]) > 0 /\ Len(Queues'[a]) = Len(Queues[a]) - 1
      /\ Head(Queues[a]) = Queues[a][1] /\ Head(Queues[a]) \in Tasks
      /\ \A i \in 1 .. Len(Queues'[a]) : Queues'[a][i] = Queues[a][i + 1]
  BY <1>1, <1>2, TailElements
<1>4. /\ runs'[Queues[a][1]] = runs[Queues[a][1]] + 1
      /\ \A x \in Tasks : x # Queues[a][1] => runs'[x] = runs[x]
  BY <1>3 DEF TypeOK
<1>5. FirstLeaves(QueueNames, Queues, Queues', a)
  BY <1>1, <1>3 DEF FirstLeaves
<1>6. accepted \subseteq Tasks /\ \A k \in QueueNames : k # a => Queues'[k] = Queues[k]
  BY DEF TypeOK, OthersKept
<1>7. Booked(Queues', accepted, runs')
  <2>1. FirstExecuted(QueueNames, Queues, Queues', runs, runs', a)
    BY <1>4, <1>5, <1>6 DEF FirstExecuted
  <2>. QED
    BY <1>6, <2>1, BookExecutedEntries
<1>8. runs[Queues[a][1]] = 0
  <2>1. 1 \in DOMAIN Queues[a]
    BY <1>1, <1>3
  <2>. QED
    BY <1>1, <2>1 DEF Booked
<1>. QED
  BY <1>3, <1>4, <1>7, <1>8

(* A task that was not accepted before is put behind a queue.              *)
LEMMA QueueAdded ==
  ASSUME TypeOK, TypeOK', NEW b \in QueueNames, NEW x \in Tasks, x \notin accepted,
         Booked(Queues, accepted, runs), accepted' = accepted \cup {x}, runs' = runs,
         Queues'[b] = Append(Queues[b], x), OthersKept(b, b)
  PROVE  Booked(Queues, accepted, runs)'
<1>1. Queues \in [QueueNames -> Seq(Tasks)] /\ Queues' \in [QueueNames -> Seq(Tasks)]
  BY QueueValues
<1>2. \A k \in QueueNames : k # b => Queues'[k] = Queues[k]
  BY DEF OthersKept
<1>3. Joins(QueueNames, Queues, Queues', b, x)
  BY <1>1, <1>2 DEF Joins
<1>4. Booked(Queues', accepted \cup {x}, runs)
  BY <1>3, BookAdded
<1>. QED
  BY <1>4

(* Which queues a step leaves alone.                                       *)
LEMMA QueuesKept ==
  ASSUME TypeOK, TypeOK', NEW a, NEW b,
         poolTasks' = poolTasks \/ a = Pool \/ b = Pool,
         \A w \in Workers : workerTasks'[w] = workerTasks[w] \/ a = Own(w) \/ b = Own(w),
         \A w \in Workers : separate'[w] = separate[w] \/ a = Aside(w) \/ b = Aside(w)
  PROVE  OthersKept(a, b)
<1>1. ASSUME NEW k \in QueueNames, k # a, k # b PROVE Queues'[k] = Queues[k]
  <2>1. CASE k = Pool
    BY <1>1, <2>1, QueueValues
  <2>2. CASE \E w \in Workers : k = Own(w) \/ k = Aside(w)
    <3>1. PICK w \in Workers : k = Own(w) \/ k = Aside(w)
      BY <2>2
    <3>2. CASE k = Own(w)
      <4>1. workerTasks'[w] = workerTasks[w]
        BY <1>1, <3>2
      <4>. QED
        BY <3>2, <4>1, QueueValues
    <3>3. CASE k = Aside(w)
      <4>1. separate'[w] = separate[w]
        BY <1>1, <3>3
      <4>. QED
        BY <3>3, <4>1, QueueValues
    <3>. QED
      BY <3>1, <3>2, <3>3
  <2>. QED
    BY <2>1, <2>2, QueueValues
<1>. QED
  BY <1>1 DEF OthersKept

(* What a step has to show.                                                *)
LEMMA TaskFrame ==
  ASSUME TaskInv, IInv', Booked(Queues, accepted, runs)',
         \A w \in Workers : RunsItsChildren(w)',
         CallsKept, RunsGoOn, \A x \in Tasks : runs[x] = 1 => runs'[x] = 1,
         \A y \in accepted' \ accepted : WasSubmitted(y)'
  PROVE  TaskInv'
<1>1. ASSUME NEW y \in accepted PROVE WasSubmitted(y)'
  <2>1. WasSubmitted(y)
    BY DEF TaskInv
  <2>2. TypeOK /\ TypeOK' /\ (\A w \in Workers : WorkerAt(w) /\ WorkerAt(w)')
    BY DEF IInv, TaskInv
  <2>. QED
    BY <2>1, <2>2, SubmissionsKept
<1>. QED
  BY <1>1 DEF TaskInv

(* The steps that move a task keep what the workers run.                   *)
LEMMA MoveFrame ==
  ASSUME TaskInv, IInv', Booked(Queues, accepted, runs)',
         UNCHANGED <<ip, accepted, runs>>,
         \A c \in Clients : pc[c] = "notify" => pc'[c] = "notify",
         \A w \in Workers : RunKept(w)
  PROVE  TaskInv'
<1>1. \A w \in Workers : RunsItsChildren(w)' /\ RunGoesOn(w)
  BY RunFrame DEF TaskInv, IInv
<1>2. CallsKept
  BY DEF CallsKept
<1>. QED
  BY <1>1, <1>2, TaskFrame DEF RunsGoOn

(* Loop_Fetch moves a task from the pool's queue to the worker's.          *)
LEMMA Loop_Fetch_Tasks ==
  ASSUME TaskInv, IInv', NEW w \in Workers, Loop_Fetch(w) PROVE TaskInv'
<1>. USE ThreadFacts
<1>1. TypeOK /\ TypeOK'
  BY DEF TaskInv, IInv
<1>2. /\ UNCHANGED <<ip, spawn, separate, accepted, runs>>
      /\ pc[w] = "fetch" /\ pc'[w] = "announce"
      /\ \A t \in Threads : t # w => pc'[t] = pc[t]
  BY <1>1 DEF Loop_Fetch, Goto, TypeOK, history
<1>3. \A v \in Workers : v # w => workerTasks'[v] = workerTasks[v]
  BY <1>1 DEF Loop_Fetch, TypeOK
<1>4. \A v \in Workers : RunKept(v)
  BY <1>2, <1>3 DEF RunKept, Busy, Running, AddSteps
<1>5. Booked(Queues, accepted, runs)'
  <2>1. CASE poolTasks = <<>>
    <3>1. Queues' = Queues
      BY <1>2, <2>1 DEF Queues, Loop_Fetch
    <3>. QED
      BY <1>2, <3>1 DEF TaskInv, Booked, Located
  <2>2. CASE poolTasks # <<>>
    <3>1. poolTasks' = Tail(poolTasks) /\ workerTasks'[w] = Append(workerTasks[w], Head(poolTasks))
      BY <1>1, <2>2 DEF Loop_Fetch, TypeOK
    <3>2. /\ Pool \in QueueNames /\ Own(w) \in QueueNames /\ Pool # Own(w)
          /\ Queues[Pool] # <<>> /\ Queues'[Pool] = Tail(Queues[Pool])
          /\ Queues'[Own(w)] = Append(Queues[Own(w)], Head(Queues[Pool]))
      BY <1>1, <2>2, <3>1, QueueValues
    <3>3. OthersKept(Pool, Own(w))
      BY <1>1, <1>2, <1>3, QueuesKept
    <3>. QED
      BY <1>1, <1>2, <3>2, <3>3, QueueMoved DEF TaskInv
  <2>. QED
    BY <2>1, <2>2
<1>. QED
  BY <1>2, <1>4, <1>5, MoveFrame

(* ThreadPool::Start moves one to a worker it then starts.                 *)
LEMMA Start_Assign_Tasks ==
  ASSUME TaskInv, IInv', NEW c \in Clients, Start_Assign(c) PROVE TaskInv'
<1>. USE ThreadFacts
<1>1. TypeOK /\ TypeOK' /\ ClientAt(c)
  BY DEF TaskInv, IInv
<1>. DEFINE w == target[c]
<1>2. /\ UNCHANGED <<ip, spawn, separate, accepted, runs>>
      /\ pc[c] = "startAssign" /\ w \in Workers /\ pc[w] = "unborn" /\ poolTasks # <<>>
  BY <1>1 DEF Start_Assign, history, ClientAt, StartLabels, TypeOK
<1>3. /\ \A t \in Threads : t # w /\ t # c => pc'[t] = pc[t]
      /\ pc'[w] \in {"unborn", "top"}
  <2>1. CASE Goto(c, "startLock")
    BY <1>1, <1>2, <2>1 DEF Goto, TypeOK, Busy, AddSteps
  <2>2. CASE pc' = [pc EXCEPT ![w] = "top", ![c] = "startLock"]
    BY <1>1, <1>2, <2>2 DEF TypeOK, Busy, AddSteps
  <2>. QED
    BY <2>1, <2>2 DEF Start_Assign, StartWorker
<1>4. /\ \A v \in Workers : v # w => workerTasks'[v] = workerTasks[v]
      /\ poolTasks' = Tail(poolTasks) /\ workerTasks'[w] = Append(workerTasks[w], Head(poolTasks))
  BY <1>1, <1>2 DEF Start_Assign, TypeOK
<1>. HIDE DEF w
<1>5. \A v \in Workers : RunKept(v)
  BY <1>2, <1>3, <1>4 DEF RunKept, Busy, Running, AddSteps
<1>6. Booked(Queues, accepted, runs)'
  <2>1. /\ Pool \in QueueNames /\ Own(w) \in QueueNames /\ Pool # Own(w)
        /\ Queues[Pool] # <<>> /\ Queues'[Pool] = Tail(Queues[Pool])
        /\ Queues'[Own(w)] = Append(Queues[Own(w)], Head(Queues[Pool]))
    BY <1>1, <1>2, <1>4, QueueValues
  <2>2. OthersKept(Pool, Own(w))
    BY <1>1, <1>2, <1>4, QueuesKept
  <2>. QED
    BY <1>1, <1>2, <2>1, <2>2, QueueMoved DEF TaskInv
<1>7. \A d \in Clients : pc[d] = "notify" => pc'[d] = "notify"
  BY <1>2, <1>3
<1>. QED
  BY <1>2, <1>5, <1>6, <1>7, MoveFrame

(* Loop_Leave moves the worker's one task aside when it has to stop.       *)
LEMMA Loop_Leave_Tasks ==
  ASSUME TaskInv, IInv', NEW w \in Workers, Loop_Leave(w) PROVE TaskInv'
<1>. USE ThreadFacts
<1>1. TypeOK /\ TypeOK' /\ WorkerAt(w) /\ OneTaskPerWorker
  BY DEF TaskInv, IInv
<1>2. /\ UNCHANGED <<ip, spawn, poolTasks, accepted, runs>>
      /\ pc[w] = "gate" /\ pc'[w] = "branch"
      /\ \A t \in Threads : t # w => pc'[t] = pc[t]
  BY <1>1 DEF Loop_Leave, Goto, TypeOK, history, poolVars
<1>3. /\ \A v \in Workers : v # w => workerTasks'[v] = workerTasks[v] /\ separate'[v] = separate[v]
      /\ separate[w] = <<>>
  BY <1>1, <1>2 DEF Loop_Leave, TypeOK, WorkerAt, AddSteps
<1>4. \A v \in Workers : RunKept(v)
  BY <1>2, <1>3 DEF RunKept, Busy, Running, AddSteps
<1>5. Booked(Queues, accepted, runs)'
  <2>1. CASE ~ shouldStop[w] \/ workerTasks[w] = <<>>
    <3>1. workerTasks' = workerTasks /\ separate' = separate
      <4>1. CASE ~ shouldStop[w]
        BY <4>1 DEF Loop_Leave
      <4>2. CASE shouldStop[w] /\ workerTasks[w] = <<>>
        <5>1. /\ separate' = [separate EXCEPT ![w] = <<>>]
              /\ workerTasks' = [workerTasks EXCEPT ![w] = <<>>]
          BY <4>2 DEF Loop_Leave
        <5>. QED
          BY <1>1, <1>3, <4>2, <5>1 DEF TypeOK
      <4>. QED
        BY <2>1, <4>1, <4>2
    <3>2. Queues' = Queues
      BY <1>2, <3>1 DEF Queues
    <3>. QED
      BY <1>2, <3>2 DEF TaskInv, Booked, Located
  <2>2. CASE shouldStop[w] /\ workerTasks[w] # <<>>
    <3>1. separate'[w] = workerTasks[w] /\ workerTasks'[w] = <<>>
      BY <1>1, <2>2 DEF Loop_Leave, TypeOK
    <3>2. ASSUME NEW s \in Seq(Tasks), s # <<>>, Len(s) <= 1
          PROVE  <<>> = Tail(s) /\ s = Append(<<>>, Head(s))
      <4>1. Len(s) = 1 /\ DOMAIN s = {1} /\ Head(s) = s[1] /\ Head(s) \in Tasks
        <5>1. Len(s) \in Nat /\ Len(s) > 0
          BY <3>2
        <5>2. Len(s) = 1
          <6>1. \A n \in Nat : n > 0 /\ n <= 1 => n = 1
            OBVIOUS
          <6>. QED
            BY Zenon, <3>2, <5>1, <6>1
        <5>. QED
          BY <3>2, <5>2, TailElements
      <4>2. Tail(s) = <<>>
        <5>1. Tail(s) \in Seq(Tasks) /\ Len(Tail(s)) = 0
          BY <3>2, <4>1, TailElements
        <5>. QED
          BY <5>1, EmptySeq
      <4>3. s = Append(<<>>, Head(s))
        <5>1. <<>> \in Seq(Tasks) /\ Len(<<>>) = 0
          OBVIOUS
        <5>2. /\ Append(<<>>, Head(s)) \in Seq(Tasks) /\ Len(Append(<<>>, Head(s))) = 1
              /\ Append(<<>>, Head(s))[1] = Head(s)
          BY <4>1, <5>1, AppendElements
        <5>. QED
          BY <3>2, <4>1, <5>2, SeqEqual
      <4>. QED
        BY <4>2, <4>3
    <3>3. workerTasks'[w] = Tail(workerTasks[w]) /\ separate'[w] = Append(separate[w], Head(workerTasks[w]))
      BY <1>1, <1>3, <2>2, <3>1, <3>2 DEF TypeOK, OneTaskPerWorker
    <3>4. /\ Own(w) \in QueueNames /\ Aside(w) \in QueueNames /\ Own(w) # Aside(w)
          /\ Queues[Own(w)] # <<>> /\ Queues'[Own(w)] = Tail(Queues[Own(w)])
          /\ Queues'[Aside(w)] = Append(Queues[Aside(w)], Head(Queues[Own(w)]))
      BY <1>1, <2>2, <3>3, QueueValues
    <3>5. OthersKept(Own(w), Aside(w))
      BY <1>1, <1>2, <1>3, QueuesKept
    <3>. QED
      BY <1>1, <1>2, <3>4, <3>5, QueueMoved DEF TaskInv
  <2>. QED
    BY <2>1, <2>2
<1>. QED
  BY <1>2, <1>4, <1>5, MoveFrame

(* The task a worker runs is the first of its own queue or of the one set  *)
(* aside.                                                                  *)
LEMMA RunningPlace ==
  ASSUME TypeOK, TypeOK', NEW w \in Workers, WorkerAt(w), Busy(w)
  PROVE  \E k \in {Own(w), Aside(w)} :
           /\ k \in QueueNames /\ 1 \in DOMAIN Queues[k] /\ Queues[k][1] = Running(w)
<1>1. workerTasks[w] \in Seq(Tasks) /\ separate[w] \in Seq(Tasks)
  BY DEF TypeOK
<1>2. workerTasks[w] # <<>> \/ separate[w] # <<>>
  BY DEF WorkerAt, Busy
<1>3. ASSUME NEW s \in Seq(Tasks), s # <<>> PROVE 1 \in DOMAIN s /\ Head(s) = s[1]
  BY <1>3, TailElements
<1>4. CASE separate[w] # <<>>
  <2>1. /\ Aside(w) \in QueueNames /\ Queues[Aside(w)] = separate[w]
        /\ Running(w) = Head(separate[w])
    BY <1>4, QueueValues DEF Running
  <2>. QED
    BY <1>1, <1>3, <1>4, <2>1
<1>5. CASE separate[w] = <<>>
  <2>1. /\ Own(w) \in QueueNames /\ Queues[Own(w)] = workerTasks[w]
        /\ Running(w) = Head(workerTasks[w])
    BY <1>5, QueueValues DEF Running
  <2>. QED
    BY <1>1, <1>2, <1>3, <1>5, <2>1
<1>. QED
  BY <1>4, <1>5

(* No two workers run the same task, and none runs one that is executed.   *)
LEMMA OneRunner ==
  ASSUME TaskInv, IInv', NEW w \in Workers, Busy(w)
  PROVE  /\ runs[Running(w)] = 0
         /\ \A v \in Workers : Busy(v) /\ Running(v) = Running(w) => v = w
<1>1. TypeOK /\ TypeOK' /\ (\A v \in Workers : WorkerAt(v)) /\ Booked(Queues, accepted, runs)
  BY DEF TaskInv, IInv
<1>2. DOMAIN Queues = QueueNames
  BY <1>1, QueueShapes
<1>3. PICK k \in {Own(w), Aside(w)} :
        k \in QueueNames /\ 1 \in DOMAIN Queues[k] /\ Queues[k][1] = Running(w)
  BY <1>1, RunningPlace
<1>4. runs[Running(w)] = 0
  BY <1>1, <1>2, <1>3 DEF Booked
<1>5. ASSUME NEW v \in Workers, Busy(v), Running(v) = Running(w) PROVE v = w
  <2>1. PICK l \in {Own(v), Aside(v)} :
          l \in QueueNames /\ 1 \in DOMAIN Queues[l] /\ Queues[l][1] = Running(v)
    BY <1>1, <1>5, RunningPlace
  <2>2. k = l
    BY <1>1, <1>2, <1>3, <1>5, <2>1 DEF Booked
  <2>. QED
    BY <1>3, <2>1, <2>2 DEF Own, Aside
<1>. QED
  BY <1>4, <1>5

(* The task a worker executes is entered in the books.                     *)
LEMMA ExecutedFrame ==
  ASSUME TaskInv, IInv', Booked(Queues, accepted, runs)', UNCHANGED <<ip, accepted>>,
         \A c \in Clients : pc'[c] = pc[c],
         NEW w \in Workers, Busy(w), ~ Busy(w)',
         runs' = [runs EXCEPT ![Running(w)] = @ + 1],
         \A v \in Workers : v # w => RunKept(v)
  PROVE  TaskInv'
<1>1. TypeOK /\ WorkerAt(w) /\ runs[Running(w)] = 0
  BY OneRunner DEF TaskInv, IInv
<1>2. Running(w) \in Tasks
  BY <1>1, RunningFacts
<1>3. runs'[Running(w)] = 1 /\ \A x \in Tasks : runs[x] = 1 => runs'[x] = 1
  BY <1>1, <1>2 DEF TypeOK
<1>4. \A v \in Workers : v # w => RunsItsChildren(v)' /\ RunGoesOn(v)
  BY RunFrame DEF TaskInv, IInv
<1>5. RunsItsChildren(w)' /\ RunGoesOn(w)
  BY <1>3 DEF RunsItsChildren, RunGoesOn
<1>6. RunsGoOn /\ \A v \in Workers : RunsItsChildren(v)'
  BY <1>4, <1>5 DEF RunsGoOn
<1>7. CallsKept
  BY DEF CallsKept
<1>. QED
  BY <1>3, <1>6, <1>7, TaskFrame

(* Loop_Executed executes the worker's own task.                           *)
LEMMA Loop_Executed_Tasks ==
  ASSUME TaskInv, IInv', NEW w \in Workers, Loop_Executed(w) PROVE TaskInv'
<1>. USE ThreadFacts
<1>1. TypeOK /\ TypeOK' /\ WorkerAt(w)
  BY DEF TaskInv, IInv
<1>2. /\ UNCHANGED <<ip, spawn, poolTasks, separate, accepted>>
      /\ pc[w] = "running" /\ pc'[w] = "top" /\ separate[w] = <<>>
      /\ \A t \in Threads : t # w => pc'[t] = pc[t]
  BY <1>1 DEF Loop_Executed, Goto, TypeOK, poolVars
<1>3. workerTasks[w] # <<>>
  BY <1>1, <1>2 DEF WorkerAt
<1>4. /\ Running(w) = Head(workerTasks[w]) /\ Busy(w) /\ ~ Busy(w)'
      /\ runs' = [runs EXCEPT ![Running(w)] = @ + 1]
  BY <1>2 DEF Running, Busy, AddSteps, Loop_Executed
<1>5. /\ \A v \in Workers : v # w => workerTasks'[v] = workerTasks[v]
      /\ workerTasks'[w] = Tail(workerTasks[w])
  BY <1>1 DEF Loop_Executed, TypeOK
<1>6. \A v \in Workers : v # w => RunKept(v)
  BY <1>2, <1>5 DEF RunKept, Busy, Running
<1>7. /\ Own(w) \in QueueNames /\ Queues[Own(w)] # <<>>
      /\ Queues'[Own(w)] = Tail(Queues[Own(w)])
      /\ runs' = [runs EXCEPT ![Head(Queues[Own(w)])] = @ + 1]
  BY <1>1, <1>3, <1>4, <1>5, QueueValues
<1>8. OthersKept(Own(w), Own(w))
  BY <1>1, <1>2, <1>5, QueuesKept
<1>9. Booked(Queues, accepted, runs)'
  BY <1>1, <1>2, <1>7, <1>8, QueueExecuted DEF TaskInv
<1>. QED
  BY <1>2, <1>4, <1>6, <1>9, ExecutedFrame

(* Loop_Drained executes the first of those set aside.                     *)
LEMMA Loop_Drained_Tasks ==
  ASSUME TaskInv, IInv', NEW w \in Workers, Loop_Drained(w) PROVE TaskInv'
<1>. USE ThreadFacts
<1>1. TypeOK /\ TypeOK' /\ WorkerAt(w)
  BY DEF TaskInv, IInv
<1>2. /\ UNCHANGED <<ip, spawn, poolTasks, workerTasks, accepted>>
      /\ pc[w] = "running" /\ pc'[w] = "drain" /\ separate[w] # <<>>
      /\ \A t \in Threads : t # w => pc'[t] = pc[t]
  BY <1>1 DEF Loop_Drained, Goto, TypeOK, poolVars
<1>4. /\ Running(w) = Head(separate[w]) /\ Busy(w) /\ ~ Busy(w)'
      /\ runs' = [runs EXCEPT ![Running(w)] = @ + 1]
  BY <1>2 DEF Running, Busy, AddSteps, Loop_Drained
<1>5. /\ \A v \in Workers : v # w => separate'[v] = separate[v]
      /\ separate'[w] = Tail(separate[w])
  BY <1>1 DEF Loop_Drained, TypeOK
<1>6. \A v \in Workers : v # w => RunKept(v)
  BY <1>2, <1>5 DEF RunKept, Busy, Running
<1>7. /\ Aside(w) \in QueueNames /\ Queues[Aside(w)] # <<>>
      /\ Queues'[Aside(w)] = Tail(Queues[Aside(w)])
      /\ runs' = [runs EXCEPT ![Head(Queues[Aside(w)])] = @ + 1]
  BY <1>1, <1>2, <1>4, <1>5, QueueValues
<1>8. OthersKept(Aside(w), Aside(w))
  BY <1>1, <1>2, <1>5, QueuesKept
<1>9. Booked(Queues, accepted, runs)'
  BY <1>1, <1>2, <1>7, <1>8, QueueExecuted DEF TaskInv
<1>. QED
  BY <1>2, <1>4, <1>6, <1>9, ExecutedFrame

(* A worker that begins a task has all of its children before it.          *)
LEMMA BeginFrame ==
  ASSUME TaskInv, IInv', UNCHANGED <<ip, poolTasks, workerTasks, separate, accepted, runs>>,
         NEW w \in Workers, ~ Busy(w), pc'[w] # "notify",
         \A t \in Threads : t # w => pc'[t] = pc[t],
         \A v \in Workers : v # w => spawn'[v] = spawn[v],
         Busy(w)' => spawn'[w] = Children[Running(w)']
  PROVE  TaskInv'
<1>. USE ThreadFacts
<1>1. \A v \in Workers : Running(v)' = Running(v)
  BY DEF Running
<1>2. \A v \in Workers : v # w => RunKept(v)
  BY <1>1 DEF RunKept, Busy
<1>3. \A v \in Workers : v # w => RunsItsChildren(v)' /\ RunGoesOn(v)
  BY <1>2, RunFrame DEF TaskInv, IInv
<1>4. ASSUME Busy(w)' PROVE RunsItsChildren(w)'
  <2>1. spawn'[w] = Children[Running(w)'] /\ spawn'[w] \in Seq(Tasks)
    BY <1>4 DEF IInv, TypeOK
  <2>2. ASSUME NEW s \in Seq(Tasks)
        PROVE  Len(s) <= Len(s) /\ \A j \in DOMAIN s : s[j] = s[Len(s) - Len(s) + j]
    <3>1. Len(s) \in Nat /\ DOMAIN s = 1 .. Len(s)
      OBVIOUS
    <3>2. \A n \in Nat, j \in Int : n <= n /\ n - n + j = j
      OBVIOUS
    <3>. QED
      BY <3>1, <3>2
  <2>. QED
    BY <2>1, <2>2 DEF RunsItsChildren
<1>5. RunsItsChildren(w)' /\ RunGoesOn(w)
  BY <1>4 DEF RunsItsChildren, RunGoesOn
<1>6. Booked(Queues, accepted, runs)'
  <2>1. Queues' = Queues
    BY DEF Queues
  <2>. QED
    BY <2>1 DEF TaskInv, Booked, Located
<1>7. CallsKept
  BY DEF CallsKept
<1>8. RunsGoOn /\ \A v \in Workers : RunsItsChildren(v)'
  BY <1>3, <1>5 DEF RunsGoOn
<1>. QED
  BY <1>6, <1>7, <1>8, TaskFrame

(* Loop_Execute begins the task of the worker's own queue.                 *)
LEMMA Loop_Execute_Tasks ==
  ASSUME TaskInv, IInv', NEW w \in Workers, Loop_Execute(w) PROVE TaskInv'
<1>. USE ThreadFacts
<1>1. TypeOK /\ WorkerAt(w)
  BY DEF TaskInv, IInv
<1>2. /\ UNCHANGED <<ip, poolTasks, workerTasks, separate, accepted, runs>>
      /\ pc[w] = "execLock" /\ pc'[w] = "running"
      /\ \A t \in Threads : t # w => pc'[t] = pc[t]
  BY <1>1 DEF Loop_Execute, Goto, TypeOK, poolVars, workerVars, history
<1>3. separate[w] = <<>>
  BY <1>1, <1>2 DEF WorkerAt, AddSteps
<1>4. /\ \A v \in Workers : v # w => spawn'[v] = spawn[v]
      /\ spawn'[w] = Children[Running(w)']
  BY <1>1, <1>2, <1>3 DEF Loop_Execute, TypeOK, Running
<1>5. ~ Busy(w) /\ pc'[w] # "notify"
  BY <1>2 DEF Busy, AddSteps
<1>. QED
  BY <1>2, <1>4, <1>5, BeginFrame

(* Loop_DrainNext begins the first of those set aside, or ends the thread. *)
LEMMA Loop_DrainNext_Tasks ==
  ASSUME TaskInv, IInv', NEW w \in Workers, Loop_DrainNext(w) PROVE TaskInv'
<1>. USE ThreadFacts
<1>1. TypeOK
  BY DEF TaskInv, IInv
<1>2. /\ UNCHANGED <<ip, poolTasks, workerTasks, separate, accepted, runs>>
      /\ pc[w] = "drain"
      /\ pc'[w] = (IF separate[w] # <<>> THEN "running" ELSE "exited")
      /\ \A t \in Threads : t # w => pc'[t] = pc[t]
  BY <1>1 DEF Loop_DrainNext, Goto, TypeOK, poolVars, workerVars, history
<1>3. \A v \in Workers : v # w => spawn'[v] = spawn[v]
  BY <1>1 DEF Loop_DrainNext, TypeOK
<1>4. ASSUME Busy(w)' PROVE spawn'[w] = Children[Running(w)']
  <2>1. separate[w] # <<>>
    BY <1>2, <1>4 DEF Busy, AddSteps
  <2>. QED
    BY <1>1, <1>2, <2>1 DEF Loop_DrainNext, TypeOK, Running
<1>5. ~ Busy(w) /\ pc'[w] # "notify"
  BY <1>2 DEF Busy, AddSteps
<1>. QED
  BY <1>2, <1>3, <1>4, <1>5, BeginFrame

(* The child a worker adds next, among those of the task it runs.          *)
NextChild(w) == Len(Children[Running(w)]) - Len(spawn[w]) + 1
(* There is one, and it is the first of those the worker has yet to add.   *)
LEMMA NextChildFacts ==
  ASSUME TypeOK, NEW w \in Workers, WorkerAt(w), Busy(w), RunsItsChildren(w), spawn[w] # <<>>
  PROVE  /\ NextChild(w) \in DOMAIN Children[Running(w)]
         /\ Head(spawn[w]) = Children[Running(w)][NextChild(w)]
         /\ NextChild(w) \in Int
<1>1. /\ Running(w) \in Tasks /\ Children[Running(w)] \in Seq(Tasks)
      /\ spawn[w] \in Seq(Tasks)
      /\ Len(Children[Running(w)]) \in Nat /\ Len(spawn[w]) \in Nat
      /\ DOMAIN Children[Running(w)] = 1 .. Len(Children[Running(w)])
      /\ DOMAIN spawn[w] = 1 .. Len(spawn[w])
  BY RunningFacts
<1>2. Len(spawn[w]) > 0 /\ Head(spawn[w]) = spawn[w][1] /\ 1 \in DOMAIN spawn[w]
  BY <1>1, TailElements
<1>3. /\ Len(spawn[w]) <= Len(Children[Running(w)])
      /\ spawn[w][1] = Children[Running(w)][NextChild(w)]
  BY <1>2 DEF RunsItsChildren, NextChild
<1>4. NextChild(w) \in 1 .. Len(Children[Running(w)])
  <2>1. \A a, s \in Nat : s > 0 /\ s <= a => a - s + 1 \in 1 .. a
    OBVIOUS
  <2>. QED
    BY Zenon, <1>1, <1>2, <1>3, <2>1 DEF NextChild
<1>. QED
  BY <1>1, <1>2, <1>3, <1>4

(* What a thread is about to push was not accepted before: a call is made  *)
(* once, and so is the addition of a child.                                *)
LEMMA AddedIsNew ==
  ASSUME TaskInv, IInv', NEW t \in Threads, pc[t] \in {"assign", "enqueue"}
  PROVE  Added(t) \notin accepted
<1>. USE ThreadFacts
<1>1. TypeOK /\ (\A w \in Workers : WorkerAt(w)) /\ (\A c \in Clients : ClientAt(c))
  BY DEF TaskInv, IInv
<1>2. SUFFICES ASSUME WasSubmitted(Added(t)) PROVE FALSE
  BY DEF TaskInv
<1>3. CASE t \in Clients
  <2>1. /\ ip[t] \in DOMAIN Program[t] /\ AddsAt(t, ip[t])
        /\ Added(t) = Program[t][ip[t]].task /\ ip[t] \in Nat
    BY <1>1, <1>3 DEF ClientAt, AddSteps, AddsAt, Added, TypeOK
  <2>2. ASSUME NEW c \in Clients, NEW i \in DOMAIN Program[c],
               CallIsMade(c, i), Program[c][i].task = Added(t)
        PROVE  FALSE
    <3>1. AddsAt(c, i)
      BY <2>2 DEF CallIsMade
    <3>2. c = t /\ i = ip[t]
      BY <1>3, <2>1, <2>2, <3>1, SubmissionAssumption
    <3>. QED
      BY <2>1, <2>2, <3>2 DEF CallIsMade
  <2>3. ASSUME NEW x \in Tasks, NEW j \in DOMAIN Children[x], Children[x][j] = Added(t)
        PROVE  FALSE
    BY <1>3, <2>1, <2>3, SubmissionAssumption
  <2>. QED
    BY <1>2, <2>2, <2>3 DEF WasSubmitted
<1>4. CASE t \in Workers
  <2>1. Busy(t) /\ spawn[t] # <<>> /\ WorkerAt(t) /\ RunsItsChildren(t)
    BY <1>1, <1>4 DEF Busy, WorkerAt, AddSteps, TaskInv
  <2>2. /\ NextChild(t) \in DOMAIN Children[Running(t)] /\ NextChild(t) \in Int
        /\ Added(t) = Children[Running(t)][NextChild(t)]
        /\ Running(t) \in Tasks
    BY <1>1, <1>4, <2>1, NextChildFacts, RunningFacts DEF Added
  <2>3. ASSUME NEW c \in Clients, NEW i \in DOMAIN Program[c],
               CallIsMade(c, i), Program[c][i].task = Added(t)
        PROVE  FALSE
    <3>1. AddsAt(c, i)
      BY <2>3 DEF CallIsMade
    <3>. QED
      BY <2>2, <2>3, <3>1, SubmissionAssumption
  <2>4. ASSUME NEW x \in Tasks, NEW j \in DOMAIN Children[x],
               ChildIsAdded(x, j), Children[x][j] = Added(t)
        PROVE  FALSE
    <3>1. x = Running(t) /\ j = NextChild(t)
      BY <2>2, <2>4, SubmissionAssumption
    <3>2. runs[x] = 0
      BY <1>4, <2>1, <3>1, OneRunner
    <3>3. PICK w \in Workers : Busy(w) /\ Running(w) = x /\ j <= Submitted(w)
      BY <2>4, <3>2 DEF ChildIsAdded
    <3>4. w = t
      BY <1>4, <2>1, <3>1, <3>3, OneRunner
    <3>6. Len(Children[Running(t)]) \in Nat /\ Len(spawn[t]) \in Nat
      BY <1>1, <1>4, <2>1, RunningFacts
    <3>5. Submitted(t) = Len(Children[Running(t)]) - Len(spawn[t]) + 0
      BY Zenon DEF Submitted
    <3>7. NextChild(t) <= Submitted(t)
      BY <3>1, <3>3, <3>4
    <3>. QED
      BY <3>5, <3>6, <3>7 DEF NextChild
  <2>. QED
    BY <1>2, <2>3, <2>4 DEF WasSubmitted
<1>. QED
  BY <1>3, <1>4 DEF Threads

(* A task that has added a child goes on with the next.                    *)
LEMMA ChildAdded ==
  ASSUME TypeOK, NEW w \in Workers, WorkerAt(w), Busy(w), RunsItsChildren(w),
         spawn[w] # <<>>, pc'[w] = "running", Running(w)' = Running(w),
         spawn'[w] = Tail(spawn[w])
  PROVE  RunsItsChildren(w)' /\ Submitted(w)' = NextChild(w) /\ Submitted(w) <= NextChild(w)
<1>. DEFINE all == Children[Running(w)]
            s == spawn[w]
            r == spawn'[w]
<1>1. /\ Running(w) \in Tasks /\ all \in Seq(Tasks) /\ s \in Seq(Tasks)
      /\ Len(all) \in Nat /\ Len(s) \in Nat /\ DOMAIN s = 1 .. Len(s)
  BY RunningFacts
<1>2. /\ Len(s) > 0 /\ Len(r) = Len(s) - 1 /\ DOMAIN r = 1 .. (Len(s) - 1)
      /\ \A i \in 1 .. (Len(s) - 1) : r[i] = s[i + 1]
  BY <1>1, TailElements
<1>3. Len(s) <= Len(all) /\ \A j \in DOMAIN s : s[j] = all[Len(all) - Len(s) + j]
  BY DEF RunsItsChildren
<1>4. RunsItsChildren(w)'
  <2>. HIDE DEF all, s, r
  <2>1. Len(r) <= Len(all)
    BY <1>1, <1>2, <1>3
  <2>2. ASSUME NEW j \in DOMAIN r PROVE r[j] = all[Len(all) - Len(r) + j]
    <3>1. j \in 1 .. (Len(s) - 1) /\ j + 1 \in DOMAIN s
      BY <1>1, <1>2
    <3>2. r[j] = all[Len(all) - Len(s) + (j + 1)]
      BY <1>2, <1>3, <3>1
    <3>3. Len(all) - Len(s) + (j + 1) = Len(all) - Len(r) + j
      BY <1>1, <1>2, <3>1
    <3>. QED
      BY <3>2, <3>3
  <2>. QED
    BY <2>1, <2>2 DEF RunsItsChildren, all, r
<1>5. Submitted(w)' = Len(all) - Len(r)
  <2>1. Submitted(w)' = Len(all) - Len(r) + 0
    BY DEF Submitted
  <2>. HIDE DEF all, s, r
  <2>2. Len(all) - Len(r) + 0 = Len(all) - Len(r)
    BY <1>1, <1>2
  <2>. QED
    BY <2>1, <2>2
<1>6. Submitted(w) = Len(all) - Len(s) + (IF pc[w] = "notify" THEN 1 ELSE 0)
  BY DEF Submitted
<1>7. NextChild(w) = Len(all) - Len(s) + 1
  BY DEF NextChild
<1>. HIDE DEF all, s, r
<1>. QED
  BY <1>1, <1>2, <1>4, <1>5, <1>6, <1>7

(* The task that is pushed is now one that was submitted.                  *)
LEMMA AddedFrame ==
  ASSUME TaskInv, IInv', NEW t \in Threads, pc[t] \in {"assign", "enqueue"},
         accepted' = accepted \cup {Added(t)}, runs' = runs,
         Booked(Queues, accepted, runs)', CallsKept,
         \A v \in Workers : v # t => RunKept(v),
         t \in Workers => /\ RunsItsChildren(t)' /\ Busy(t)'
                          /\ Running(t)' = Running(t) /\ Submitted(t)' = NextChild(t),
         t \in Clients => \E i \in DOMAIN Program[t] : i = ip[t] /\ CallIsMade(t, i)'
  PROVE  TaskInv'
<1>. USE ThreadFacts
<1>1. TypeOK /\ (\A w \in Workers : WorkerAt(w))
  BY DEF TaskInv, IInv
<1>2. \A v \in Workers : v # t => RunsItsChildren(v)' /\ RunGoesOn(v)
  BY <1>1, RunFrame DEF TaskInv
<1>3. ASSUME t \in Workers
      PROVE  /\ Busy(t) /\ spawn[t] # <<>>
             /\ NextChild(t) \in DOMAIN Children[Running(t)]
             /\ Added(t) = Children[Running(t)][NextChild(t)]
             /\ NextChild(t) \in Int /\ Running(t) \in Tasks
             /\ RunGoesOn(t)
  <2>1. Busy(t) /\ spawn[t] # <<>> /\ WorkerAt(t) /\ RunsItsChildren(t) /\ pc[t] # "notify"
    BY <1>1, <1>3 DEF Busy, WorkerAt, AddSteps, TaskInv
  <2>2. /\ NextChild(t) \in DOMAIN Children[Running(t)] /\ NextChild(t) \in Int
        /\ Added(t) = Children[Running(t)][NextChild(t)]
        /\ Running(t) \in Tasks
    BY <1>1, <1>3, <2>1, NextChildFacts, RunningFacts DEF Added
  <2>3. Submitted(t) <= Submitted(t)'
    <3>1. Len(Children[Running(t)]) \in Nat /\ Len(spawn[t]) \in Nat
      BY <1>1, <1>3, <2>1, RunningFacts
    <3>2. Submitted(t) = Len(Children[Running(t)]) - Len(spawn[t]) + 0
      BY Zenon, <2>1 DEF Submitted
    <3>3. Submitted(t)' = Len(Children[Running(t)]) - Len(spawn[t]) + 1
      BY <1>3 DEF NextChild
    <3>4. \A a, s \in Nat : a - s + 0 <= a - s + 1
      OBVIOUS
    <3>. QED
      BY Zenon, <3>1, <3>2, <3>3, <3>4
  <2>. QED
    BY <1>3, <2>1, <2>2, <2>3 DEF RunGoesOn
<1>4. RunsGoOn /\ \A v \in Workers : RunsItsChildren(v)'
  BY <1>2, <1>3 DEF RunsGoOn
<1>5. ASSUME NEW y, y = Added(t) PROVE WasSubmitted(y)'
  <2>1. CASE t \in Workers
    <3>. DEFINE j == NextChild(t)
                x == Running(t)
    <3>1. /\ j \in DOMAIN Children[x] /\ Children[x][j] = Added(t) /\ x \in Tasks /\ j \in Int
          /\ Busy(t)' /\ Running(t)' = x /\ Submitted(t)' = j
      BY <1>3, <2>1
    <3>. HIDE DEF j, x
    <3>2. j <= j
      BY <3>1
    <3>3. \E w \in Workers : Busy(w)' /\ Running(w)' = x /\ j <= Submitted(w)'
      BY <2>1, <3>1, <3>2
    <3>4. \E d \in Tasks : \E i \in DOMAIN Children[d] :
            /\ \/ runs'[d] = 1
               \/ \E w \in Workers : Busy(w)' /\ Running(w)' = d /\ i <= Submitted(w)'
            /\ Children[d][i] = y
      BY <1>5, <3>1, <3>3
    <3>5. (\E d \in Tasks : \E i \in DOMAIN Children[d] :
                    /\ \/ runs'[d] = 1
                       \/ \E w \in Workers : Busy(w)' /\ Running(w)' = d /\ i <= Submitted(w)'
                    /\ Children[d][i] = y) => WasSubmitted(y)'
      BY DEF WasSubmitted, ChildIsAdded
    <3>. QED
      BY <3>4, <3>5
  <2>2. CASE t \in Clients
    <3>1. PICK i \in DOMAIN Program[t] : i = ip[t] /\ CallIsMade(t, i)'
      BY <2>2
    <3>2. Program[t][i].task = y
      BY <1>5, <2>2, <3>1 DEF Added
    <3>3. Program[t][i].task = y => WasSubmitted(y)'
      BY <2>2, <3>1 DEF WasSubmitted
    <3>. QED
      BY <3>2, <3>3
  <2>. QED
    BY <2>1, <2>2 DEF Threads
<1>. QED
  BY <1>4, <1>5, TaskFrame

(* AddTask_Assign puts the task behind the queue of a waiting worker.      *)
LEMMA AddTask_Assign_Tasks ==
  ASSUME TaskInv, IInv', NEW t \in Threads, AddTask_Assign(t) PROVE TaskInv'
<1>. USE ThreadFacts
<1>1. TypeOK /\ TypeOK' /\ ThreadAt(t) /\ pc[t] = "assign" /\ Idle(target[t])
  BY DEF TaskInv, IInv, ThreadAt, AddTask_Assign, ClaimedAreIdle
<1>. DEFINE w == target[t]
<1>2. /\ UNCHANGED <<ip, target, spawn, poolTasks, separate, runs>>
      /\ accepted' = accepted \cup {Added(t)}
      /\ pc'[t] = "notify" /\ \A u \in Threads : u # t => pc'[u] = pc[u]
  BY <1>1 DEF AddTask_Assign, Goto, TypeOK, poolVars
<1>3. /\ w \in Workers /\ w # t
      /\ workerTasks'[w] = Append(workerTasks[w], Added(t))
      /\ \A v \in Workers : v # w => workerTasks'[v] = workerTasks[v]
      /\ ~ Busy(w) /\ pc[w] # "notify"
  BY <1>1 DEF Idle, IdleLabels, AddTask_Assign, TypeOK, Busy, AddSteps
<1>4. Added(t) \in Tasks /\ Added(t) \notin accepted
  BY <1>1, AddedFacts, AddedIsNew DEF AddSteps
<1>. HIDE DEF w
<1>5. Booked(Queues, accepted, runs)'
  <2>1. Own(w) \in QueueNames /\ Queues'[Own(w)] = Append(Queues[Own(w)], Added(t))
    BY <1>1, <1>3, QueueValues
  <2>2. OthersKept(Own(w), Own(w))
    BY <1>1, <1>2, <1>3, QueuesKept
  <2>. QED
    BY <1>1, <1>2, <1>4, <2>1, <2>2, QueueAdded DEF TaskInv
<1>6. \A v \in Workers : v # t => RunKept(v)
  BY <1>2, <1>3 DEF RunKept, Busy, Running
<1>7. CallsKept
  BY <1>1, <1>2 DEF CallsKept
<1>8. ASSUME t \in Workers
      PROVE  /\ RunsItsChildren(t)' /\ Busy(t)'
             /\ Running(t)' = Running(t) /\ Submitted(t)' = NextChild(t)
  <2>1. Busy(t) /\ Busy(t)' /\ Running(t)' = Running(t) /\ spawn'[t] = spawn[t]
    BY <1>1, <1>2, <1>3, <1>8 DEF Busy, Running, AddSteps
  <2>2. Submitted(t)' = NextChild(t)
    BY Zenon, <1>2, <2>1 DEF Submitted, NextChild
  <2>3. RunsItsChildren(t)'
    BY <1>8, <2>1 DEF RunsItsChildren, TaskInv
  <2>. QED
    BY <2>1, <2>2, <2>3
<1>9. ASSUME t \in Clients
      PROVE  \E i \in DOMAIN Program[t] : i = ip[t] /\ CallIsMade(t, i)'
  BY <1>1, <1>2, <1>9 DEF ThreadAt, ClientAt, AddSteps, CallIsMade, AddsAt
<1>. QED
  BY <1>1, <1>2, <1>5, <1>6, <1>7, <1>8, <1>9, AddedFrame

(* AddTask_Enqueue puts it behind the pool's queue and returns.            *)
LEMMA AddTask_Enqueue_Tasks ==
  ASSUME TaskInv, IInv', NEW t \in Threads, AddTask_Enqueue(t) PROVE TaskInv'
<1>. USE ThreadFacts
<1>1. TypeOK /\ TypeOK' /\ ThreadAt(t) /\ pc[t] = "enqueue" /\ AddReturns(t)
  BY DEF TaskInv, IInv, ThreadAt, AddTask_Enqueue
<1>2. /\ UNCHANGED <<workerTasks, separate, runs>>
      /\ accepted' = accepted \cup {Added(t)} /\ poolTasks' = Append(poolTasks, Added(t))
      /\ pc'[t] = AfterAdd(t) /\ \A u \in Threads : u # t => pc'[u] = pc[u]
  BY <1>1 DEF AddTask_Enqueue, Goto, TypeOK, workerVars
<1>3. Added(t) \in Tasks /\ Added(t) \notin accepted
  BY <1>1, AddedFacts, AddedIsNew DEF AddSteps
<1>4. \A v \in Workers : v # t => spawn'[v] = spawn[v]
  BY <1>1, ReturnFacts DEF AddSteps
<1>5. Booked(Queues, accepted, runs)'
  <2>1. Pool \in QueueNames /\ Queues'[Pool] = Append(Queues[Pool], Added(t))
    BY <1>1, <1>2, QueueValues
  <2>2. OthersKept(Pool, Pool)
    BY <1>1, <1>2, QueuesKept
  <2>. QED
    BY <1>1, <1>2, <1>3, <2>1, <2>2, QueueAdded DEF TaskInv
<1>6. \A v \in Workers : v # t => RunKept(v)
  BY <1>2, <1>4 DEF RunKept, Busy, Running
<1>7. CallsKept
  <2>1. \A c \in Clients : c # t => ip'[c] = ip[c] /\ pc'[c] = pc[c]
    BY <1>1, <1>2 DEF AddReturns, TypeOK
  <2>2. t \in Clients => ip'[t] = ip[t] + 1
    BY <1>1 DEF AddReturns, TypeOK
  <2>. QED
    BY <2>1, <2>2 DEF CallsKept
<1>8. ASSUME t \in Workers
      PROVE  /\ RunsItsChildren(t)' /\ Busy(t)'
             /\ Running(t)' = Running(t) /\ Submitted(t)' = NextChild(t)
  <2>1. /\ Busy(t) /\ Busy(t)' /\ Running(t)' = Running(t) /\ pc'[t] = "running"
        /\ spawn[t] # <<>> /\ spawn'[t] = Tail(spawn[t])
        /\ WorkerAt(t) /\ RunsItsChildren(t)
    BY <1>1, <1>2, <1>8 DEF Busy, Running, AddSteps, AfterAdd, AddReturns, TypeOK,
       ThreadAt, WorkerAt, TaskInv
  <2>. QED
    BY <1>1, <1>8, <2>1, ChildAdded
<1>9. ASSUME t \in Clients
      PROVE  \E i \in DOMAIN Program[t] : i = ip[t] /\ CallIsMade(t, i)'
  <2>1. /\ ip[t] \in DOMAIN Program[t] /\ AddsAt(t, ip[t])
        /\ ip[t] \in Nat /\ ip'[t] = ip[t] + 1
    BY <1>1, <1>9 DEF ThreadAt, ClientAt, AddSteps, AddsAt, AddReturns, TypeOK
  <2>2. ip[t] < ip'[t]
    BY <2>1
  <2>. QED
    BY <2>1, <2>2 DEF CallIsMade
<1>. QED
  BY <1>1, <1>2, <1>5, <1>6, <1>7, <1>8, <1>9, AddedFrame

(* AddTask_Notify returns from a call, or to a task, whose push was made.  *)
LEMMA AddTask_Notify_Tasks ==
  ASSUME TaskInv, IInv', NEW t \in Threads, AddTask_Notify(t) PROVE TaskInv'
<1>. USE ThreadFacts
<1>1. /\ TypeOK /\ TypeOK' /\ ThreadAt(t) /\ pc[t] = "notify" /\ AddReturns(t)
      /\ target[t] \in Workers
  BY DEF TaskInv, IInv, ThreadAt, AddTask_Notify
<1>2. /\ UNCHANGED <<poolTasks, workerTasks, separate, accepted, runs>>
      /\ pc'[t] = AfterAdd(t)
      /\ \A u \in Threads : u # t => \/ pc'[u] = pc[u]
                                     \/ pc[u] = "parked" /\ pc'[u] = "unparked"
  BY <1>1 DEF AddTask_Notify, NotifyWorker, TypeOK, poolVars, workerVars, history
<1>3. \A v \in Workers : v # t => spawn'[v] = spawn[v]
  BY <1>1, ReturnFacts DEF AddSteps
<1>4. \A v \in Workers : v # t => RunKept(v)
  <2>1. ASSUME NEW v \in Workers, v # t PROVE RunKept(v)
    <3>1. Running(v)' = Running(v)
      BY <1>2 DEF Running
    <3>2. pc[v] = "notify" <=> pc'[v] = "notify"
      BY <1>2, <2>1
    <3>3. Busy(v) <=> Busy(v)'
      BY <1>2, <2>1 DEF Busy, AddSteps
    <3>. QED
      BY <1>3, <2>1, <3>1, <3>2, <3>3 DEF RunKept
  <2>. QED
    BY <2>1
<1>5. Booked(Queues, accepted, runs)'
  <2>1. Queues' = Queues
    BY <1>2 DEF Queues
  <2>. QED
    BY <1>2, <2>1 DEF TaskInv, Booked, Located
<1>6. CallsKept
  <2>1. \A c \in Clients : c # t => ip'[c] = ip[c] /\ (pc[c] = "notify" => pc'[c] = "notify")
    BY <1>1, <1>2 DEF AddReturns, TypeOK
  <2>2. t \in Clients => ip'[t] = ip[t] + 1
    BY <1>1 DEF AddReturns, TypeOK
  <2>. QED
    BY <2>1, <2>2 DEF CallsKept
<1>7. ASSUME t \in Workers PROVE RunsItsChildren(t)' /\ RunGoesOn(t)
  <2>1. /\ Busy(t) /\ Busy(t)' /\ Running(t)' = Running(t) /\ pc'[t] = "running"
        /\ spawn[t] # <<>> /\ spawn'[t] = Tail(spawn[t])
        /\ WorkerAt(t) /\ RunsItsChildren(t)
    BY <1>1, <1>2, <1>7 DEF Busy, Running, AddSteps, AfterAdd, AddReturns, TypeOK,
       ThreadAt, WorkerAt, TaskInv
  <2>2. RunsItsChildren(t)' /\ Submitted(t)' = NextChild(t) /\ Submitted(t) <= NextChild(t)
    BY <1>1, <1>7, <2>1, ChildAdded
  <2>. QED
    BY <2>1, <2>2 DEF RunGoesOn
<1>8. \A v \in Workers : v # t => RunsItsChildren(v)' /\ RunGoesOn(v)
  BY <1>4, RunFrame DEF TaskInv, IInv
<1>9. RunsGoOn /\ \A v \in Workers : RunsItsChildren(v)'
  BY <1>7, <1>8 DEF RunsGoOn
<1>. QED
  BY <1>2, <1>5, <1>6, <1>9, TaskFrame

(* The books are right initially.                                          *)
LEMMA TaskInit == ASSUME Init PROVE TaskInv
<1>1. IInv
  BY InitInv
<1>2. Booked(Queues, accepted, runs)
  <2>1. \A k \in DOMAIN Queues : DOMAIN Queues[k] = {}
    <3>1. \A k \in QueueNames : Queues[k] = <<>>
      BY DEF Init, Queues, QueueNames, Pool, Own, Aside
    <3>2. DOMAIN Queues = QueueNames /\ DOMAIN <<>> = {}
      BY DEF Queues
    <3>. QED
      BY <3>1, <3>2
  <2>. QED
    BY <2>1 DEF Init, Booked
<1>3. \A w \in Workers : RunsItsChildren(w)
  BY ThreadFacts DEF Init, RunsItsChildren, Busy, AddSteps
<1>. QED
  BY <1>1, <1>2, <1>3 DEF TaskInv, Init

(* Every step keeps them right.                                            *)
LEMMA TaskNext == ASSUME TaskInv, [Next]_vars PROVE TaskInv'
<1>1. IInv /\ IInv'
  BY NextInv DEF TaskInv
<1>2. ASSUME NEW t \in Threads, AddTask(t) PROVE TaskInv'
  <2>1. CASE AddTask_Pick(t)
    BY <1>1, <2>1, PickQuiet, QuietFrame
  <2>2. CASE AddTask_Assign(t)
    BY <1>1, <2>2, AddTask_Assign_Tasks
  <2>3. CASE AddTask_Notify(t)
    BY <1>1, <2>3, AddTask_Notify_Tasks
  <2>4. CASE AddTask_Enqueue(t)
    BY <1>1, <2>4, AddTask_Enqueue_Tasks
  <2>. QED
    BY <1>2, <2>1, <2>2, <2>3, <2>4 DEF AddTask
<1>3. ASSUME NEW c \in Clients, ClientStep(c) PROVE TaskInv'
  <2>1. CASE AddTask(c)
    BY <1>2, <2>1, ThreadFacts
  <2>2. CASE Start_Assign(c)
    BY <1>1, <2>2, Start_Assign_Tasks
  <2>3. CASE \/ Start_Enter(c) \/ Start_Lock(c) \/ Start_Return(c)
             \/ Wait_Check(c) \/ Drain_Active(c) \/ Drain_Queued(c)
             \/ Stop_Enter(c) \/ Stop_Lock(c) \/ Stop_Notify(c) \/ Stop_Join(c)
             \/ Stop_Return(c)
    BY <1>1, <2>3, ClientQuiet, QuietFrame
  <2>. QED
    BY <1>3, <2>1, <2>2, <2>3 DEF ClientStep, Start, Stop
<1>4. ASSUME NEW w \in Workers, WorkerStep(w) PROVE TaskInv'
  <2>1. CASE AddTask(w)
    BY <1>2, <2>1, ThreadFacts
  <2>2. CASE \/ Loop_Top(w) \/ Loop_Announce(w) \/ Loop_Park(w) \/ Loop_Unpark(w)
             \/ Loop_Branch(w)
    BY <1>1, <2>2, LoopQuiet, QuietFrame
  <2>3. CASE Loop_Fetch(w)
    BY <1>1, <2>3, Loop_Fetch_Tasks
  <2>4. CASE Loop_Leave(w)
    BY <1>1, <2>4, Loop_Leave_Tasks
  <2>5. CASE Loop_Execute(w)
    BY <1>1, <2>5, Loop_Execute_Tasks
  <2>6. CASE Loop_Executed(w)
    BY <1>1, <2>6, Loop_Executed_Tasks
  <2>7. CASE Loop_DrainNext(w)
    BY <1>1, <2>7, Loop_DrainNext_Tasks
  <2>8. CASE Loop_Drained(w)
    BY <1>1, <2>8, Loop_Drained_Tasks
  <2>. QED
    BY <1>4, <2>1, <2>2, <2>3, <2>4, <2>5, <2>6, <2>7, <2>8 DEF WorkerStep
<1>5. CASE (\E t \in Threads : SpuriousWakeup(t)) \/ UNCHANGED vars \/ Terminated
  BY <1>1, <1>5, WakeupQuiet, QuietFrame DEF Terminated
<1>. QED
  BY <1>3, <1>4, <1>5 DEF Next

(* Element x stands in sequence q.                                         *)
Among(x, q) == \E i \in DOMAIN q : q[i] = x
(* In a sequence without repetitions an element is counted once or never.  *)
LEMMA CountFacts ==
  ASSUME NEW q, \A i, j \in DOMAIN q : q[i] = q[j] => i = j, NEW x
  PROVE  Count(x, q) = IF Among(x, q) THEN 1 ELSE 0
<1>1. CASE Among(x, q)
  <2>1. PICK i \in DOMAIN q : q[i] = x
    BY <1>1 DEF Among
  <2>2. {j \in DOMAIN q : q[j] = x} = {i}
    BY <2>1
  <2>. QED
    BY <1>1, <2>2, FS_Singleton DEF Count
<1>2. CASE ~ Among(x, q)
  <2>1. {j \in DOMAIN q : q[j] = x} = {}
    BY <1>2 DEF Among
  <2>. QED
    BY <1>2, <2>1, FS_EmptySet DEF Count
<1>. QED
  BY <1>1, <1>2

(* And at most one worker holds it.                                        *)
LEMMA HolderFacts ==
  ASSUME NEW q, NEW x,
         \A w \in Workers : \A i, j \in DOMAIN q[w] : q[w][i] = q[w][j] => i = j,
         \A v, w \in Workers : Among(x, q[v]) /\ Among(x, q[w]) => v = w
  PROVE  Cardinality(Holders(q, x)) = IF \E w \in Workers : Among(x, q[w]) THEN 1 ELSE 0
<1>1. \A w \in Workers : Count(x, q[w]) = IF Among(x, q[w]) THEN 1 ELSE 0
  BY CountFacts
<1>2. Holders(q, x) = {w \in Workers : Among(x, q[w])}
  BY <1>1 DEF Holders
<1>3. CASE \E w \in Workers : Among(x, q[w])
  <2>1. PICK w \in Workers : Among(x, q[w])
    BY <1>3
  <2>2. Holders(q, x) = {w}
    BY <1>2, <2>1
  <2>. QED
    BY <1>3, <2>2, FS_Singleton
<1>4. CASE ~ \E w \in Workers : Among(x, q[w])
  <2>1. Holders(q, x) = {}
    BY <1>2, <1>4
  <2>. QED
    BY <1>4, <2>1, FS_EmptySet
<1>. QED
  BY <1>3, <1>4

(* The books are the balance of Conservation.                              *)
LEMMA BooksBalance ==
  ASSUME TypeOK, OneTaskPerWorker, Booked(Queues, accepted, runs)
  PROVE  Conservation
<1>1. DOMAIN Queues = QueueNames
  BY DEF Queues
<1>2. /\ Pool \in QueueNames /\ Queues[Pool] = poolTasks
      /\ \A w \in Workers : /\ Own(w) \in QueueNames /\ Queues[Own(w)] = workerTasks[w]
                            /\ Aside(w) \in QueueNames /\ Queues[Aside(w)] = separate[w]
                            /\ Own(w) # Pool /\ Aside(w) # Pool
      /\ \A v, w \in Workers : /\ Own(v) = Own(w) => v = w
                               /\ Aside(v) = Aside(w) => v = w
                               /\ Own(v) # Aside(w)
      /\ \A k \in QueueNames : k = Pool \/ \E w \in Workers : k = Own(w) \/ k = Aside(w)
  <2>1. /\ Pool \in QueueNames
        /\ \A w \in Workers : Own(w) \in QueueNames /\ Aside(w) \in QueueNames
        /\ \A k \in QueueNames : k = Pool \/ \E w \in Workers : k = Own(w) \/ k = Aside(w)
    BY DEF QueueNames
  <2>2. /\ \A v, w \in Workers : /\ Own(v) = Own(w) => v = w
                                 /\ Aside(v) = Aside(w) => v = w
                                 /\ Own(v) # Aside(w)
        /\ \A w \in Workers : /\ Own(w) # Pool /\ Aside(w) # Pool
                              /\ Own(w)[1] = "own" /\ Own(w)[2] = w
                              /\ Aside(w)[1] # "own" /\ Aside(w)[2] = w
    BY DEF Own, Aside, Pool
  <2>3. /\ Queues[Pool] = poolTasks
        /\ \A w \in Workers : Queues[Own(w)] = workerTasks[w] /\ Queues[Aside(w)] = separate[w]
    BY <2>1, <2>2 DEF Queues
  <2>. QED
    BY <2>1, <2>2, <2>3
<1>3. \A k, l \in QueueNames : \A i \in DOMAIN Queues[k], j \in DOMAIN Queues[l] :
        Queues[k][i] = Queues[l][j] => k = l /\ i = j
  BY <1>1 DEF Booked
<1>4. /\ \A i, j \in DOMAIN poolTasks : poolTasks[i] = poolTasks[j] => i = j
      /\ \A w \in Workers : \A i, j \in DOMAIN workerTasks[w] :
           workerTasks[w][i] = workerTasks[w][j] => i = j
      /\ \A w \in Workers : \A i, j \in DOMAIN separate[w] :
           separate[w][i] = separate[w][j] => i = j
  BY <1>2, <1>3
<1>5. ASSUME NEW x \in Tasks
      PROVE  /\ Count(x, poolTasks) + Cardinality(Holders(workerTasks, x))
                  + Cardinality(Holders(separate, x)) + runs[x]
                  = IF x \in accepted THEN 1 ELSE 0
             /\ \A w \in Workers : Count(x, workerTasks[w]) <= 1
  <2>. DEFINE P == Among(x, poolTasks)
              O == \E w \in Workers : Among(x, workerTasks[w])
              A == \E w \in Workers : Among(x, separate[w])
  <2>1. \A k, l \in QueueNames : Among(x, Queues[k]) /\ Among(x, Queues[l]) => k = l
    BY <1>3 DEF Among
  <2>2. Count(x, poolTasks) = IF P THEN 1 ELSE 0
    BY <1>4, CountFacts
  <2>3. Cardinality(Holders(workerTasks, x)) = IF O THEN 1 ELSE 0
    <3>1. \A v, w \in Workers : Among(x, workerTasks[v]) /\ Among(x, workerTasks[w]) => v = w
      BY <1>2, <2>1
    <3>. QED
      BY <1>4, <3>1, HolderFacts
  <2>4. Cardinality(Holders(separate, x)) = IF A THEN 1 ELSE 0
    <3>1. \A v, w \in Workers : Among(x, separate[v]) /\ Among(x, separate[w]) => v = w
      BY <1>2, <2>1
    <3>. QED
      BY <1>4, <3>1, HolderFacts
  <2>5. ~ (P /\ O) /\ ~ (P /\ A) /\ ~ (O /\ A)
    BY <1>2, <2>1
  <2>6. Located(Queues, x) <=> P \/ O \/ A
    <3>1. Located(Queues, x) <=> \E k \in QueueNames : Among(x, Queues[k])
      BY <1>1 DEF Located, Among
    <3>. QED
      BY <1>2, <3>1
  <2>7. Located(Queues, x) => x \in accepted /\ runs[x] = 0
    BY DEF Booked, Located
  <2>8. /\ x \in accepted => runs[x] = 1 \/ (runs[x] = 0 /\ Located(Queues, x))
        /\ x \notin accepted => runs[x] = 0
    BY DEF Booked
  <2>9. \A w \in Workers : Count(x, workerTasks[w]) = IF Among(x, workerTasks[w]) THEN 1 ELSE 0
    BY <1>4, CountFacts
  <2>. HIDE DEF P, O, A
  <2>10. Count(x, poolTasks) + Cardinality(Holders(workerTasks, x))
           + Cardinality(Holders(separate, x)) + runs[x]
           = IF x \in accepted THEN 1 ELSE 0
    BY <2>2, <2>3, <2>4, <2>5, <2>6, <2>7, <2>8
  <2>. QED
    BY <2>9, <2>10
<1>. QED
  BY <1>5 DEF Conservation

(* The strengthening of Conservation is an invariant.                      *)
THEOREM TaskInvariant == Spec => []TaskInv
<1>1. Init => TaskInv
  BY TaskInit
<1>2. TaskInv /\ [Next]_vars => TaskInv'
  BY TaskNext
<1>. QED
  BY <1>1, <1>2, PTL DEF Spec

(* An accepted task is in exactly one queue until it has been executed,    *)
(* and it is executed once: the hand-over between the two locks of         *)
(* ThreadPool::AddTask, Start's assignment to a worker it has not started  *)
(* and the queue set aside at a stop neither lose nor copy a task.         *)
THEOREM TasksAreConserved == Spec => []Conservation
<1>1. TaskInv => Conservation
  BY BooksBalance DEF TaskInv, IInv
<1>. QED
  BY <1>1, TaskInvariant, PTL

-----------------------------------------------------------------------------
(***************************************************************************)
(* The promise.  Where all submissions from outside come before Start,     *)
(* ThreadPool takes only the steps of TaskPool.  A worker goes on standby  *)
(* only when it finds the pool's queue empty, and a task is put there only *)
(* by a thread that is not on standby; so when all workers are, no task is *)
(* anywhere and nobody is about to add one (FullIsQuiet), and the answer   *)
(* given to a waiting client is right.                                     *)
(***************************************************************************)

(* Distinct workers that are as many as there are workers are all of them. *)
LEMMA EveryoneStands ==
  ASSUME NEW s \in Seq(Workers), \A i, j \in DOMAIN s : s[i] = s[j] => i = j,
         Len(s) = NumberOfThreads
  PROVE  \A w \in Workers : \E i \in DOMAIN s : s[i] = w
<1>1. NumberOfThreads \in Nat /\ DOMAIN s = Workers
  BY PoolAssumption, LenProperties DEF Workers
<1>2. s \in Injection(Workers, Workers)
  <2>1. s \in [Workers -> Workers]
    BY <1>1, LenProperties DEF Workers
  <2>. QED
    BY <1>1, <2>1 DEF Injection, IsInjective
<1>3. IsFiniteSet(Workers)
  BY <1>1, FS_Interval DEF Workers
<1>4. s \in Surjection(Workers, Workers)
  BY <1>2, <1>3, FS_Injection
<1>. QED
  BY <1>1, <1>4 DEF Surjection

(* When all workers are on standby they are idle, and the pool runs.       *)
LEMMA FullIsIdle ==
  ASSUME SubmitsBeforeStart, IInv, Full
  PROVE  poolRunning /\ \A w \in Workers : Idle(w)
<1>1. \A w \in Workers : Idle(w)
  <2>1. \A w \in Workers : \E i \in DOMAIN standby : standby[i] = w
    BY EveryoneStands DEF IInv, TypeOK, OneClaim, Full
  <2>2. \A i \in DOMAIN standby : Idle(standby[i])
    BY DEF IInv, ClaimedAreIdle
  <2>3. ASSUME NEW w \in Workers PROVE Idle(w)
    <3>1. PICK i \in DOMAIN standby : standby[i] = w
      BY <2>1
    <3>2. Idle(standby[i])
      BY <2>2
    <3>. QED
      BY <3>1, <3>2 DEF Idle
  <2>. QED
    BY <2>3
<1>2. 1 \in Workers
  BY PoolAssumption DEF SubmitsBeforeStart, Workers
<1>. QED
  BY <1>1, <1>2 DEF IInv, Idle, WorkerAt, IdleLabels
(* Likewise after a step. *)
LEMMA FullIsIdleNext ==
  ASSUME SubmitsBeforeStart, IInv', Full'
  PROVE  poolRunning' /\ \A w \in Workers : Idle(w)'
<1>1. \A w \in Workers : Idle(w)'
  <2>1. \A w \in Workers : \E i \in DOMAIN standby' : standby'[i] = w
    BY EveryoneStands DEF IInv, TypeOK, OneClaim, Full
  <2>2. \A i \in DOMAIN standby' : Idle(standby[i])'
    BY DEF IInv, ClaimedAreIdle
  <2>3. ASSUME NEW w \in Workers PROVE Idle(w)'
    <3>1. PICK i \in DOMAIN standby' : standby'[i] = w
      BY <2>1
    <3>2. Idle(standby[i])'
      BY <2>2
    <3>. QED
      BY <3>1, <3>2 DEF Idle
  <2>. QED
    BY <2>3
<1>2. 1 \in Workers
  BY PoolAssumption DEF SubmitsBeforeStart, Workers
<1>. QED
  BY <1>1, <1>2 DEF IInv, Idle, WorkerAt, IdleLabels

(* Places in the owner's program are numbers. *)
LEMMA OwnerIsAtANumber ==
  ASSUME PromiseInv
  PROVE  ip[Owner] \in Nat /\ \A j \in DOMAIN Program[Owner] : j \in Nat
<1>1. ip \in [Clients -> Nat]
  BY DEF PromiseInv, TaskInv, IInv, TypeOK
<1>2. Owner \in Clients /\ Program[Owner] \in Seq(Calls)
  BY PoolAssumption
<1>3. DOMAIN Program[Owner] = 1..Len(Program[Owner]) /\ Len(Program[Owner]) \in Nat
  BY <1>2, LenProperties
<1>4. \A n \in Nat : \A j \in 1..n : j \in Nat
  OBVIOUS
<1>. QED
  BY <1>1, <1>2, <1>3, <1>4

(* A client that submits has not started the pool. *)
LEMMA SubmitsFirst ==
  ASSUME SubmitsBeforeStart, PromiseInv, NEW c \in Clients, Makes(c, "AddTask")
  PROVE  ~ poolRunning
<1>1. SUFFICES ASSUME HasStarted PROVE FALSE
  BY DEF PromiseInv
<1>2. ip[c] \in DOMAIN Program[c] /\ AddsAt(c, ip[c])
  BY DEF Makes, AddsAt
<1>3. c = Owner /\ \A j \in DOMAIN Program[c] : j < ip[c] => Program[c][j].op # "Start"
  BY <1>2 DEF SubmitsBeforeStart
<1>4. PICK j \in DOMAIN Program[Owner] : j <= ip[Owner] /\ Program[Owner][j].op = "Start"
  BY <1>1 DEF HasStarted
<1>5. j # ip[Owner]
  BY <1>3, <1>4 DEF Makes
<1>6. j \in Nat /\ ip[Owner] \in Nat
  BY <1>4, OwnerIsAtANumber
<1>. QED
  BY <1>3, <1>4, <1>5, <1>6

(* Where a client is when it adds a task. *)
LEMMA ClientAdds ==
  ASSUME IInv, NEW c \in Clients, AddsTask(c) \/ pc[c] \in AddSteps
  PROVE  Makes(c, "AddTask")
<1>1. TypeOK /\ ClientAt(c) /\ c \notin Workers
  BY ThreadFacts DEF IInv
<1>2. CASE AddsTask(c)
  BY <1>1, <1>2, AtCallFacts DEF AddsTask, Makes
<1>3. CASE pc[c] \in AddSteps
  BY <1>1, <1>3 DEF ClientAt, Makes
<1>. QED
  BY <1>2, <1>3

(* With all workers on standby nothing is queued, and no thread is in      *)
(* AddTask or about to call it.                                            *)
LEMMA FullIsQuiet ==
  ASSUME SubmitsBeforeStart, PromiseInv, Full
  PROVE  /\ poolTasks = <<>>
         /\ \A w \in Workers : Idle(w)
         /\ \A t \in Threads : ~ AddsTask(t) /\ pc[t] \notin AddSteps
<1>. USE ThreadFacts
<1>1. IInv /\ poolTasks = <<>>
  BY DEF PromiseInv, TaskInv
<1>2. poolRunning /\ \A w \in Workers : Idle(w)
  BY <1>1, FullIsIdle
<1>3. ASSUME NEW w \in Workers PROVE ~ AddsTask(w) /\ pc[w] \notin AddSteps
  BY <1>2 DEF Idle, IdleLabels, AddSteps, AddsTask, AtCall
<1>4. ASSUME NEW c \in Clients PROVE ~ AddsTask(c) /\ pc[c] \notin AddSteps
  BY <1>1, <1>2, ClientAdds, SubmitsFirst
<1>. QED
  BY <1>1, <1>2, <1>3, <1>4 DEF Threads

(* A client's call is the same as long as it has not returned. *)
LEMMA InCallKept ==
  ASSUME NEW c \in Clients, InCall(c), Full => Full', ip'[c] = ip[c],
         \/ pc'[c] = pc[c]
         \/ pc[c] = "waiting" /\ pc'[c] = "woken"
         \/ pc[c] \in StartLabels /\ pc'[c] \in StartLabels
         \/ pc[c] \in StopLabels /\ pc'[c] \in StopLabels
  PROVE  InCall(c)'
BY DEF InCall, Makes, StartLabels, StopLabels

(* A client that is in none of the calls with several steps. *)
LEMMA NotInCall ==
  ASSUME NEW c \in Clients, pc'[c] \in {"idle"} \cup AddSteps
  PROVE  InCall(c)'
BY DEF InCall, StartLabels, StopLabels, AddSteps

(* What a step must keep for PromiseInv to hold after it. *)
LEMMA PromiseFrame ==
  ASSUME PromiseInv, TaskInv', Full' => poolTasks' = <<>>,
         poolRunning' => poolRunning \/ Makes(Owner, "Start"),
         ip'[Owner] = ip[Owner] \/ ip'[Owner] = ip[Owner] + 1,
         \A c \in Clients : InCall(c)'
  PROVE  PromiseInv'
<1>1. ip[Owner] \in Nat /\ \A j \in DOMAIN Program[Owner] : j \in Nat
  BY OwnerIsAtANumber
<1>2. poolRunning' => HasStarted'
  BY <1>1 DEF PromiseInv, HasStarted, Makes
<1>. QED
  BY <1>2 DEF PromiseInv

(* AddTask is called only while some worker is not on standby: by a client *)
(* before Start, or by a worker that runs a task and stays off standby.    *)
LEMMA AddTask_Promise ==
  ASSUME SubmitsBeforeStart, PromiseInv, TaskInv', NEW t \in Threads, AddTask(t)
  PROVE  PromiseInv'
<1>. USE ThreadFacts
<1>1. IInv /\ IInv' /\ TypeOK
  BY DEF PromiseInv, TaskInv, IInv
<1>2. AddsTask(t) \/ pc[t] \in AddSteps
  BY DEF AddTask, AddTask_Pick, AddTask_Assign, AddTask_Notify, AddTask_Enqueue, AddSteps
<1>3. ~ Full
  BY <1>2, FullIsQuiet
<1>4. /\ pc'[t] \in {AfterAdd(t)} \cup AddSteps
      /\ \A c \in Clients : c # t => pc'[c] = pc[c]
  <2>1. CASE AddTask_Pick(t) \/ AddTask_Assign(t) \/ AddTask_Enqueue(t)
    BY <1>1, <2>1 DEF TypeOK, AddTask_Pick, AddTask_Assign, AddTask_Enqueue, Goto, AddSteps
  <2>2. CASE AddTask_Notify(t)
    <3>1. target[t] \in Workers
      BY <1>1, <2>2 DEF IInv, AddTask_Notify
    <3>. QED
      BY <1>1, <2>2, <3>1 DEF TypeOK, AddTask_Notify, NotifyWorker
  <2>. QED
    BY <2>1, <2>2 DEF AddTask
<1>5. \A c \in Clients : ip'[c] = ip[c] \/ (c = t /\ ip'[c] = ip[c] + 1)
  BY <1>1 DEF AddTask, AddTask_Pick, AddTask_Assign, AddTask_Notify, AddTask_Enqueue,
     AddReturns, TypeOK
<1>6. poolRunning' = poolRunning
  BY DEF AddTask, AddTask_Pick, AddTask_Assign, AddTask_Notify, AddTask_Enqueue, poolVars
<1>7. ~ Full'
  <2>1. CASE t \in Clients
    BY <1>1, <1>2, <1>6, <2>1, ClientAdds, SubmitsFirst, FullIsIdleNext
  <2>2. CASE t \in Workers
    <3>1. pc'[t] \in {"running"} \cup AddSteps
      BY <1>4, <2>2 DEF AfterAdd
    <3>. QED
      BY <1>1, <2>2, <3>1, FullIsIdleNext DEF Idle, IdleLabels, AddSteps
  <2>. QED
    BY <2>1, <2>2 DEF Threads
<1>8. ASSUME NEW c \in Clients PROVE InCall(c)'
  <2>1. CASE c = t
    BY <1>4, <2>1, NotInCall DEF AfterAdd
  <2>2. CASE c # t
    BY <1>3, <1>4, <1>5, <2>2, InCallKept DEF PromiseInv
  <2>. QED
    BY <2>1, <2>2
<1>9. Owner \in Clients
  BY PoolAssumption
<1>. QED
  BY <1>5, <1>6, <1>7, <1>8, <1>9, PromiseFrame

(* A worker that goes on standby has found the pool's queue empty. *)
LEMMA Loop_Fetch_Promise ==
  ASSUME SubmitsBeforeStart, PromiseInv, TaskInv', NEW w \in Workers, Loop_Fetch(w)
  PROVE  PromiseInv'
<1>. USE ThreadFacts
<1>1. TypeOK /\ Owner \in Clients
  BY PoolAssumption DEF PromiseInv, TaskInv, IInv
<1>2. pc[w] = "fetch" /\ ip' = ip /\ poolRunning' = poolRunning
  BY DEF Loop_Fetch
<1>3. ~ Full
  BY <1>2, FullIsQuiet DEF Idle, IdleLabels
<1>4. Full' => poolTasks' = <<>>
  BY <1>3 DEF Loop_Fetch, Full
<1>5. \A c \in Clients : pc'[c] = pc[c]
  BY <1>1 DEF Loop_Fetch, Goto, TypeOK
<1>6. \A c \in Clients : InCall(c)'
  BY <1>2, <1>3, <1>5, InCallKept DEF PromiseInv
<1>. QED
  BY <1>1, <1>2, <1>4, <1>6, PromiseFrame

(* The other steps of a worker concern neither. *)
LEMMA Loop_Promise ==
  ASSUME PromiseInv, TaskInv', NEW w \in Workers,
         \/ Loop_Top(w) \/ Loop_Announce(w) \/ Loop_Park(w) \/ Loop_Unpark(w)
         \/ Loop_Leave(w) \/ Loop_Branch(w) \/ Loop_Execute(w) \/ Loop_Executed(w)
         \/ Loop_DrainNext(w) \/ Loop_Drained(w)
  PROVE  PromiseInv'
<1>. USE ThreadFacts
<1>1. TypeOK /\ Owner \in Clients
  BY PoolAssumption DEF PromiseInv, TaskInv, IInv
<1>2. UNCHANGED <<ip, poolTasks, standby, poolRunning>>
  BY DEF Loop_Top, Loop_Announce, Loop_Park, Loop_Unpark, Loop_Leave, Loop_Branch,
     Loop_Execute, Loop_Executed, Loop_DrainNext, Loop_Drained, poolVars
<1>3. \A c \in Clients : pc'[c] = pc[c] \/ (pc[c] = "waiting" /\ pc'[c] = "woken")
  <2>1. CASE Loop_Announce(w)
    BY <1>1, <2>1 DEF Loop_Announce, TypeOK
  <2>2. CASE ~ Loop_Announce(w)
    <3>1. \E l : Goto(w, l)
      BY <2>2 DEF Loop_Top, Loop_Park, Loop_Unpark, Loop_Leave, Loop_Branch,
         Loop_Execute, Loop_Executed, Loop_DrainNext, Loop_Drained
    <3>. QED
      BY <1>1, <3>1 DEF Goto, TypeOK
  <2>. QED
    BY <2>1, <2>2
<1>4. \A c \in Clients : InCall(c)'
  BY <1>2, <1>3, InCallKept DEF PromiseInv, Full
<1>5. Full' => poolTasks' = <<>>
  BY <1>2 DEF PromiseInv, Full
<1>. QED
  BY <1>1, <1>2, <1>4, <1>5, PromiseFrame

(* A client that starts, stops, polls or waits for the pool moves alone,   *)
(* puts nobody on standby and at most takes a task off the pool's queue.   *)
LEMMA ClientFacts ==
  ASSUME IInv, NEW c \in Clients,
         Start(c) \/ Stop(c) \/ Wait_Check(c) \/ Drain_Active(c) \/ Drain_Queued(c)
  PROVE  /\ standby' = standby
         /\ poolTasks' = poolTasks \/ Start_Assign(c)
         /\ poolRunning' = poolRunning \/ Start_Enter(c)
         /\ \A d \in Clients : d # c => pc'[d] = pc[d] /\ ip'[d] = ip[d]
         /\ ip'[c] = ip[c] \/ ip'[c] = ip[c] + 1
<1>. USE ThreadFacts
<1>1. TypeOK /\ ClientAt(c)
  BY DEF IInv
<1>2. /\ standby' = standby
      /\ poolTasks' = poolTasks \/ Start_Assign(c)
      /\ poolRunning' = poolRunning \/ Start_Enter(c)
      /\ ip' = ip \/ Return(c)
  BY DEF Start, Start_Enter, Start_Lock, Start_Assign, Start_Return, Wait_Check,
     Drain_Active, Drain_Queued, Stop, Stop_Enter, Stop_Lock, Stop_Notify, Stop_Join,
     Stop_Return, poolVars
<1>3. \A d \in Clients : d # c => pc'[d] = pc[d]
  <2>1. CASE \E l : Goto(c, l)
    BY <1>1, <2>1 DEF Goto, TypeOK
  <2>2. CASE target[c] \in Workers /\ StartWorker(target[c], c)
    BY <1>1, <2>2 DEF StartWorker, Goto, TypeOK
  <2>3. CASE target[c] \in Workers /\ NotifyWorker(target[c], c, "stopJoin")
    BY <1>1, <2>3 DEF NotifyWorker, TypeOK
  <2>4. CASE pc' = pc
    BY <2>4
  <2>5. Stop_Notify(c) \/ Start_Assign(c) => target[c] \in Workers
    BY <1>1 DEF Stop_Notify, Start_Assign, ClientAt
  <2>. QED
    BY <2>1, <2>2, <2>3, <2>4, <2>5 DEF Start, Start_Enter, Start_Lock, Start_Assign,
       Start_Return, Wait_Check, Drain_Active, Drain_Queued, Stop, Stop_Enter, Stop_Lock,
       Stop_Notify, Stop_Join, Stop_Return, Return
<1>4. \A d \in Clients : \/ ip'[d] = ip[d]
                         \/ d = c /\ ip'[d] = ip[d] + 1
  BY <1>1, <1>2 DEF Return, TypeOK
<1>. QED
  BY <1>2, <1>3, <1>4

(* Where such a step leaves the client.                                    *)
LEMMA ClientInCall ==
  ASSUME PromiseInv, NEW c \in Clients,
         Start(c) \/ Stop(c) \/ Wait_Check(c) \/ Drain_Active(c) \/ Drain_Queued(c)
  PROVE  InCall(c)'
<1>. USE ThreadFacts
<1>1. IInv /\ TypeOK /\ ClientAt(c) /\ InCall(c)
  BY DEF PromiseInv, TaskInv, IInv
<1>2. standby' = standby
  BY <1>1, ClientFacts
<1>3. CASE \E l \in {"idle"} : Goto(c, l)
  BY <1>1, <1>3, NotInCall DEF Goto, TypeOK
<1>4. CASE Start_Enter(c) /\ Goto(c, "startLock")
  <2>1. Makes(c, "Start") /\ ip' = ip
    BY <1>1, <1>4, AtCallFacts DEF Start_Enter, Makes, Return, Goto, TypeOK
  <2>2. pc'[c] = "startLock"
    BY <1>1, <1>4 DEF Goto, TypeOK
  <2>. QED
    BY <2>1, <2>2 DEF InCall, Makes, StartLabels, StopLabels
<1>5. CASE Start_Lock(c) \/ Start_Assign(c)
  <2>1. pc[c] \in StartLabels /\ ip' = ip
    BY <1>5 DEF Start_Lock, Start_Assign, StartLabels
  <2>2. pc'[c] \in StartLabels
    <3>1. CASE Goto(c, "startAssign")
      BY <1>1, <3>1 DEF Goto, TypeOK, StartLabels
    <3>2. CASE target[c] \in Workers /\ StartWorker(target[c], c)
      BY <1>1, <3>2 DEF StartWorker, Goto, TypeOK, StartLabels
    <3>. QED
      BY <1>1, <1>5, <3>1, <3>2 DEF Start_Lock, Start_Assign, ClientAt
  <2>. QED
    BY <1>1, <1>2, <2>1, <2>2, InCallKept DEF Full
<1>6. CASE Wait_Check(c) /\ Goto(c, "waiting") /\ ip' = ip
  <2>1. Makes(c, "Wait")
    BY <1>1, <1>6, AtCallFacts DEF Wait_Check, Makes, InCall
  <2>2. pc'[c] = "waiting"
    BY <1>1, <1>6 DEF Goto, TypeOK
  <2>. QED
    BY <1>6, <2>1, <2>2 DEF InCall, Makes, StartLabels, StopLabels
<1>7. CASE Drain_Active(c)
  <2>1. Makes(c, "Drain") /\ ip' = ip
    BY <1>1, <1>7, AtCallFacts DEF Drain_Active, Makes
  <2>2. pc'[c] = "pollQueue"
    BY <1>1, <1>7 DEF Drain_Active, Goto, TypeOK
  <2>3. Full'
    <3>1. NumberOfThreads \in Nat /\ Len(standby) \in Nat
      BY <1>1, PoolAssumption, LenProperties DEF TypeOK
    <3>. QED
      BY <1>2, <1>7, <3>1 DEF Drain_Active, Full
  <2>. QED
    BY <2>1, <2>2, <2>3 DEF InCall, Makes, StartLabels, StopLabels
<1>8. CASE Stop_Enter(c)
  <2>1. Makes(c, "Stop") /\ ip' = ip
    BY <1>1, <1>8, AtCallFacts DEF Stop_Enter, Makes
  <2>2. pc'[c] = "stopLock"
    BY <1>1, <1>8 DEF Stop_Enter, Goto, TypeOK
  <2>. QED
    BY <2>1, <2>2 DEF InCall, Makes, StartLabels, StopLabels
<1>9. CASE Stop_Lock(c) \/ Stop_Notify(c) \/ Stop_Join(c)
  <2>1. pc[c] \in StopLabels /\ ip' = ip
    BY <1>9 DEF Stop_Lock, Stop_Notify, Stop_Join, StopLabels
  <2>2. pc'[c] \in StopLabels
    <3>1. CASE \E l \in {"stopNotify", "stopLock"} : Goto(c, l)
      BY <1>1, <3>1 DEF Goto, TypeOK, StopLabels
    <3>2. CASE pc' = pc
      BY <2>1, <3>2
    <3>3. CASE Stop_Notify(c)
      BY <1>1, <3>3 DEF Stop_Notify, NotifyWorker, TypeOK, StopLabels
    <3>. QED
      BY <1>9, <3>1, <3>2, <3>3 DEF Stop_Lock, Stop_Join
  <2>. QED
    BY <1>1, <1>2, <2>1, <2>2, InCallKept DEF Full
<1>10. Start_Return(c) \/ Drain_Queued(c) \/ Stop_Return(c) => Goto(c, "idle")
  BY DEF Start_Return, Drain_Queued, Stop_Return, Return
<1>11. Start_Enter(c) => Goto(c, "idle") \/ Goto(c, "startLock")
  BY DEF Start_Enter, Return
<1>12. Wait_Check(c) => Goto(c, "idle") \/ (Goto(c, "waiting") /\ ip' = ip)
  BY DEF Wait_Check, Return
<1>. QED
  BY <1>3, <1>4, <1>5, <1>6, <1>7, <1>8, <1>9, <1>10, <1>11, <1>12 DEF Start, Stop

(* A client's step keeps PromiseInv. *)
LEMMA Client_Promise ==
  ASSUME SubmitsBeforeStart, PromiseInv, TaskInv', NEW c \in Clients,
         Start(c) \/ Stop(c) \/ Wait_Check(c) \/ Drain_Active(c) \/ Drain_Queued(c)
  PROVE  PromiseInv'
<1>. USE ThreadFacts
<1>1. IInv /\ TypeOK /\ ClientAt(c) /\ Owner \in Clients
  BY PoolAssumption DEF PromiseInv, TaskInv, IInv
<1>2. /\ standby' = standby
      /\ poolTasks' = poolTasks \/ Start_Assign(c)
      /\ poolRunning' = poolRunning \/ Start_Enter(c)
      /\ \A d \in Clients : d # c => pc'[d] = pc[d] /\ ip'[d] = ip[d]
      /\ ip'[c] = ip[c] \/ ip'[c] = ip[c] + 1
  BY <1>1, ClientFacts
<1>3. Full' => poolTasks' = <<>>
  <2>1. Start_Assign(c) => ~ Full
    BY <1>1, FullIsQuiet DEF Start_Assign, ClientAt
  <2>. QED
    BY <1>2, <2>1 DEF Full, PromiseInv
<1>4. Start_Enter(c) => Makes(Owner, "Start")
  BY <1>1, AtCallFacts DEF Start_Enter, Makes
<1>5. ASSUME NEW d \in Clients PROVE InCall(d)'
  <2>1. CASE d = c
    BY <2>1, ClientInCall
  <2>2. CASE d # c
    BY <1>2, <2>2, InCallKept DEF PromiseInv, Full
  <2>. QED
    BY <2>1, <2>2
<1>6. ip'[Owner] = ip[Owner] \/ ip'[Owner] = ip[Owner] + 1
  BY <1>1, <1>2
<1>. QED
  BY <1>2, <1>3, <1>4, <1>5, <1>6, PromiseFrame

(* So do a wake-up without a reason and no step at all. *)
LEMMA Wakeup_Promise ==
  ASSUME PromiseInv, TaskInv',
         UNCHANGED vars \/ \E t \in Threads : SpuriousWakeup(t)
  PROVE  PromiseInv'
<1>. USE ThreadFacts
<1>1. TypeOK /\ Owner \in Clients
  BY PoolAssumption DEF PromiseInv, TaskInv, IInv
<1>2. UNCHANGED <<ip, poolTasks, standby, poolRunning>>
  BY DEF SpuriousWakeup, vars, poolVars
<1>3. ASSUME NEW c \in Clients
      PROVE  pc'[c] = pc[c] \/ (pc[c] = "waiting" /\ pc'[c] = "woken")
  <2>1. CASE UNCHANGED vars
    BY <2>1 DEF vars
  <2>2. CASE \E t \in Threads : SpuriousWakeup(t)
    <3>1. pc[c] # "parked"
      BY DEF PromiseInv, TaskInv, IInv, ClientAt, ClientLabels, StartLabels, StopLabels,
         AddSteps
    <3>. QED
      BY <1>1, <2>2, <3>1 DEF SpuriousWakeup, Goto, TypeOK
  <2>. QED
    BY <2>1, <2>2
<1>4. \A c \in Clients : InCall(c)'
  BY <1>2, <1>3, InCallKept DEF PromiseInv, Full
<1>5. Full' => poolTasks' = <<>>
  BY <1>2 DEF PromiseInv, Full
<1>. QED
  BY <1>1, <1>2, <1>4, <1>5, PromiseFrame

(* PromiseInv holds at first.                                              *)
LEMMA PromiseInit == ASSUME Init PROVE PromiseInv
<1>1. TaskInv
  BY TaskInit
<1>2. \A c \in Clients : InCall(c)
  BY ThreadFacts DEF Init, InCall, StartLabels, StopLabels
<1>. QED
  BY <1>1, <1>2 DEF Init, PromiseInv

(* Every step keeps it.                                                    *)
LEMMA PromiseNext ==
  ASSUME SubmitsBeforeStart, PromiseInv, [Next]_vars PROVE PromiseInv'
<1>. USE ThreadFacts
<1>1. TaskInv'
  BY TaskNext DEF PromiseInv
<1>2. ASSUME NEW c \in Clients, ClientStep(c) PROVE PromiseInv'
  BY <1>1, <1>2, AddTask_Promise, Client_Promise DEF ClientStep
<1>3. ASSUME NEW w \in Workers, WorkerStep(w) PROVE PromiseInv'
  BY <1>1, <1>3, AddTask_Promise, Loop_Fetch_Promise, Loop_Promise DEF WorkerStep
<1>4. CASE (\E t \in Threads : SpuriousWakeup(t)) \/ UNCHANGED vars \/ Terminated
  BY <1>1, <1>4, Wakeup_Promise DEF Terminated
<1>. QED
  BY <1>2, <1>3, <1>4 DEF Next

(* Where all submissions from outside come before Start, all workers on    *)
(* standby means that nothing is queued, in every reachable state.         *)
THEOREM PromiseInvariant == ASSUME SubmitsBeforeStart PROVE Spec => []PromiseInv
<1>1. Init => PromiseInv
  BY PromiseInit
<1>2. PromiseInv /\ [Next]_vars => PromiseInv'
  BY PromiseNext
<1>. QED
  BY <1>1, <1>2, PTL DEF Spec

(* With all workers on standby every accepted task has been executed.      *)
LEMMA FullIsDone ==
  ASSUME SubmitsBeforeStart, PromiseInv, Full
  PROVE  \A x \in accepted : runs[x] = 1
<1>1. poolTasks = <<>> /\ \A w \in Workers : workerTasks[w] = <<>> /\ separate[w] = <<>>
  BY FullIsQuiet DEF Idle
<1>2. \A k \in DOMAIN Queues : Queues[k] = <<>>
  <2>1. DOMAIN Queues = QueueNames
    BY DEF Queues
  <2>2. \A k \in QueueNames : k = Pool \/ (\E w \in Workers : k = Own(w) \/ k = Aside(w))
    BY DEF QueueNames
  <2>3. \A w \in Workers : /\ Own(w) # Pool /\ Own(w)[1] = "own" /\ Own(w)[2] = w
                           /\ Aside(w) # Pool /\ Aside(w)[1] # "own" /\ Aside(w)[2] = w
    BY DEF Own, Aside, Pool
  <2>. QED
    BY <1>1, <2>1, <2>2, <2>3 DEF Queues
<1>3. \A x \in accepted : ~ Located(Queues, x)
  <2>1. DOMAIN <<>> = {}
    BY EmptySeq, LenProperties
  <2>. QED
    BY <1>2, <2>1 DEF Located
<1>. QED
  BY <1>3 DEF PromiseInv, TaskInv, Booked

(* A wait or a poll returns only with all workers on standby.              *)
LEMMA AnswersWhenFull ==
  ASSUME PromiseInv, NEW c \in Clients,
         Start(c) \/ Stop(c) \/ Wait_Check(c) \/ Drain_Active(c) \/ Drain_Queued(c),
         ip'[c] # ip[c], Makes(c, "Wait") \/ Makes(c, "Drain")
  PROVE  Full
<1>1. IInv /\ TypeOK /\ ClientAt(c) /\ InCall(c)
  BY DEF PromiseInv, TaskInv, IInv
<1>2. ~ Makes(c, "Start") /\ ~ Makes(c, "Stop")
  BY DEF Makes
<1>3. ~ Start_Enter(c) /\ ~ Start_Return(c) /\ ~ Stop_Return(c)
  <2>1. ~ Start_Enter(c)
    BY <1>1, <1>2, AtCallFacts DEF Start_Enter, Makes
  <2>2. ~ Start_Return(c) /\ ~ Stop_Return(c)
    BY <1>1, <1>2 DEF Start_Return, Stop_Return, InCall, StartLabels, StopLabels
  <2>. QED
    BY <2>1, <2>2
<1>4. Wait_Check(c) \/ Drain_Queued(c)
  BY <1>3 DEF Start, Start_Lock, Start_Assign, Stop, Stop_Enter, Stop_Lock, Stop_Notify,
     Stop_Join, Drain_Active
<1>. QED
  BY <1>1, <1>4 DEF Wait_Check, Drain_Queued, InCall, Full

(* AddTask returns from no other call.                                     *)
LEMMA AddsNoAnswer ==
  ASSUME IInv, NEW t \in Threads, AddTask(t), NEW c \in Clients, ip'[c] # ip[c]
  PROVE  Makes(c, "AddTask")
<1>1. c = t /\ pc[t] \in AddSteps
  BY DEF AddTask, AddTask_Pick, AddTask_Assign, AddTask_Notify, AddTask_Enqueue,
     AddReturns, AddSteps, IInv, TypeOK
<1>. QED
  BY <1>1, ClientAdds

(* The thread takes a step of one of its calls, or of its loop.            *)
LEMMA StepKinds ==
  ASSUME [Next]_vars
  PROVE  \/ \E t \in Threads : AddTask(t)
         \/ \E c \in Clients : \/ Start(c) \/ Stop(c) \/ Wait_Check(c)
                               \/ Drain_Active(c) \/ Drain_Queued(c)
         \/ (\E w \in Workers : Loop_Executed(w) \/ Loop_Drained(w))
         \/ UNCHANGED <<ip, accepted, runs>>
BY ThreadFacts DEF Next, ClientStep, WorkerStep, Loop_Top, Loop_Fetch, Loop_Announce,
   Loop_Park, Loop_Unpark, Loop_Leave, Loop_Branch, Loop_Execute, Loop_DrainNext,
   SpuriousWakeup, Terminated, vars, history

(* WaitForThreadsToFinish returns only when every task the pool accepted   *)
(* has been executed, where all submissions from outside come before Start.*)
THEOREM WaitingMeansDone == ASSUME SubmitsBeforeStart PROVE Spec => WaitMeansDone
<1>1. PromiseInv /\ [Next]_vars => [\A c \in Clients : Returns(c, "Wait") => AllDone]_vars
  <2>1. SUFFICES ASSUME PromiseInv, [Next]_vars, NEW c \in Clients, Returns(c, "Wait")
                 PROVE  AllDone
    OBVIOUS
  <2>2. IInv /\ Makes(c, "Wait") /\ ip'[c] # ip[c]
    <3>1. ip[c] \in Nat /\ ip[c] >= 1 /\ DOMAIN Program[c] = 1..Len(Program[c])
          /\ Len(Program[c]) \in Nat
      BY <2>1, PoolAssumption, LenProperties DEF PromiseInv, TaskInv, IInv, TypeOK, ClientAt
    <3>. QED
      BY <2>1, <3>1 DEF Returns, Makes, PromiseInv, TaskInv
  <2>3. ASSUME NEW t \in Threads, AddTask(t) PROVE FALSE
    BY <2>2, <2>3, AddsNoAnswer DEF Makes
  <2>4. ASSUME NEW d \in Clients,
               Start(d) \/ Stop(d) \/ Wait_Check(d) \/ Drain_Active(d) \/ Drain_Queued(d)
        PROVE  Full
    <3>1. c = d
      BY <2>2, <2>4, ClientFacts
    <3>. QED
      BY <2>1, <2>2, <2>4, <3>1, AnswersWhenFull
  <2>5. ~ (\E w \in Workers : Loop_Executed(w) \/ Loop_Drained(w))
    BY <2>2 DEF Loop_Executed, Loop_Drained
  <2>6. Full
    BY <2>1, <2>2, <2>3, <2>4, <2>5, StepKinds
  <2>. QED
    BY <2>1, <2>6, FullIsDone DEF AllDone
<1>. QED
  BY <1>1, PromiseInvariant, PTL DEF Spec, WaitMeansDone

(* Whatever returns is a call of the client's program.                     *)
LEMMA CallReturns ==
  ASSUME PromiseInv, NEW c \in Clients,
         Start(c) \/ Stop(c) \/ Wait_Check(c) \/ Drain_Active(c) \/ Drain_Queued(c),
         ip'[c] # ip[c]
  PROVE  ip[c] \in DOMAIN Program[c]
<1>1. TypeOK /\ ClientAt(c) /\ InCall(c)
  BY DEF PromiseInv, TaskInv, IInv
<1>2. \/ \E op \in {"Start", "Wait"} : AtCall(c, op)
      \/ pc[c] \in {"woken", "pollQueue"} \cup StartLabels \cup StopLabels
  BY DEF Start, Start_Enter, Start_Lock, Start_Assign, Start_Return, Stop, Stop_Enter,
     Stop_Lock, Stop_Notify, Stop_Join, Stop_Return, Wait_Check, Drain_Active,
     Drain_Queued, StartLabels, StopLabels
<1>. QED
  BY <1>1, <1>2, AtCallFacts DEF InCall, Makes

(* How many waits of a client have been answered before and after a step.  *)
LEMMA AnswersCounted ==
  ASSUME TypeOK, NEW c \in Clients, ip[c] >= 1
  PROVE  /\ Answers(c) \in Nat
         /\ ip'[c] = ip[c] => Answers(c)' = Answers(c)
         /\ ip'[c] = ip[c] + 1 =>
              Answers(c)' = IF Program[c][ip[c]].op \in {"Wait", "Drain"}
                            THEN Answers(c) + 1 ELSE Answers(c)
<1>. DEFINE Waits(n) == {i \in 1..n : Program[c][i].op \in {"Wait", "Drain"}}
<1>1. ip[c] \in Nat
  BY DEF TypeOK
<1>2. /\ Answers(c) = Cardinality(Waits(ip[c] - 1))
      /\ Answers(c)' = Cardinality(Waits(ip'[c] - 1))
  BY DEF Answers
<1>3. IsFiniteSet(Waits(ip[c] - 1)) /\ ip[c] \notin Waits(ip[c] - 1)
  <2>1. IsFiniteSet(1..(ip[c] - 1)) /\ Waits(ip[c] - 1) \in SUBSET (1..(ip[c] - 1))
    BY <1>1, FS_Interval
  <2>2. ip[c] \notin 1..(ip[c] - 1)
    BY <1>1
  <2>. QED
    BY <2>1, <2>2, FS_Subset
<1>4. ASSUME ip'[c] = ip[c] + 1
      PROVE  Answers(c)' = IF Program[c][ip[c]].op \in {"Wait", "Drain"}
                           THEN Answers(c) + 1 ELSE Answers(c)
  <2>1. CASE Program[c][ip[c]].op \in {"Wait", "Drain"}
    <3>1. Waits(ip'[c] - 1) = Waits(ip[c] - 1) \cup {ip[c]}
      BY <1>1, <1>4, <2>1
    <3>. HIDE DEF Waits
    <3>. QED
      BY <1>2, <1>3, <2>1, <3>1, FS_AddElement
  <2>2. CASE ~ Program[c][ip[c]].op \in {"Wait", "Drain"}
    <3>1. Waits(ip'[c] - 1) = Waits(ip[c] - 1)
      BY <1>1, <1>4, <2>2
    <3>. QED
      BY <1>2, <2>2, <3>1
  <2>. QED
    BY <2>1, <2>2
<1>5. Answers(c) \in Nat
  BY <1>2, <1>3, FS_CardinalityType
<1>. QED
  BY <1>2, <1>4, <1>5

(* What the promise sees at first.                                         *)
LEMMA PromisedInit == ASSUME Init PROVE Promise!Init
<1>1. \A x \in Tasks : Status(x) = "new"
  BY DEF Init, Status
<1>2. ASSUME NEW c \in Clients PROVE Answers(c) = 0
  <2>1. {i \in 1..(ip[c] - 1) : Program[c][i].op \in {"Wait", "Drain"}} = {}
    BY DEF Init
  <2>. QED
    BY <2>1, FS_EmptySet DEF Answers
<1>. QED
  BY <1>1, <1>2 DEF Promise!Init

(* A step that neither accepts a task nor executes one, and returns from   *)
(* no wait, is no step of the promise.                                     *)
LEMMA PromisedStutter ==
  ASSUME UNCHANGED <<accepted, runs>>, \A c \in Clients : Answers(c)' = Answers(c)
  PROVE  UNCHANGED Promise!vars
<1>1. \A x \in Tasks : Status(x)' = Status(x)
  BY DEF Status
<1>. QED
  BY <1>1 DEF Promise!vars

(* AddTask submits the task when it is put into a queue.                   *)
LEMMA PromisedAdd ==
  ASSUME TaskInv, IInv', NEW t \in Threads, AddTask(t)
  PROVE  [Promise!Next]_(Promise!vars)
<1>1. IInv /\ TypeOK
  BY DEF TaskInv, IInv
<1>2. ASSUME NEW c \in Clients PROVE Answers(c)' = Answers(c)
  <2>1. ip[c] >= 1
    BY <1>1 DEF IInv, ClientAt
  <2>2. ip'[c] = ip[c] \/ ip'[c] = ip[c] + 1
    BY <1>1 DEF AddTask, AddTask_Pick, AddTask_Assign, AddTask_Notify, AddTask_Enqueue,
       AddReturns, TypeOK
  <2>3. ip'[c] # ip[c] => Program[c][ip[c]].op = "AddTask"
    BY <1>1, AddsNoAnswer DEF Makes
  <2>. QED
    BY <1>1, <2>1, <2>2, <2>3, AnswersCounted
<1>3. CASE AddTask_Pick(t) \/ AddTask_Notify(t)
  <2>1. UNCHANGED <<accepted, runs>>
    BY <1>3 DEF AddTask_Pick, AddTask_Notify, history
  <2>. QED
    BY <1>2, <2>1, PromisedStutter
<1>4. CASE AddTask_Assign(t) \/ AddTask_Enqueue(t)
  <2>1. pc[t] \in {"assign", "enqueue"}
    BY <1>4 DEF AddTask_Assign, AddTask_Enqueue
  <2>2. PICK x \in Tasks : x = Added(t)
    <3>1. ThreadAt(t)
      BY <1>1 DEF IInv, ThreadAt
    <3>. QED
      BY <1>1, <2>1, <3>1, AddedFacts DEF AddSteps
  <2>3. /\ x \notin accepted /\ runs[x] = 0
        /\ accepted' = accepted \cup {x} /\ runs' = runs
    BY <1>4, <2>1, <2>2, AddedIsNew DEF TaskInv, Booked, AddTask_Assign, AddTask_Enqueue
  <2>4. Status(x) = "new" /\ Status(x)' = "pending"
    BY <2>3 DEF Status
  <2>5. \A y \in Tasks : y # x => Status(y)' = Status(y)
    BY <2>3 DEF Status
  <2>6. Promise!Submit(x)
    BY <1>2, <2>2, <2>4, <2>5 DEF Promise!Submit
  <2>. QED
    BY <2>2, <2>6 DEF Promise!Next
<1>. QED
  BY <1>3, <1>4 DEF AddTask

(* The task a worker has run is executed.                                  *)
LEMMA PromisedExecute ==
  ASSUME TaskInv, IInv', NEW w \in Workers, Loop_Executed(w) \/ Loop_Drained(w)
  PROVE  [Promise!Next]_(Promise!vars)
<1>1. TypeOK /\ TypeOK' /\ WorkerAt(w) /\ Booked(Queues, accepted, runs)
  BY DEF TaskInv, IInv
<1>a. Busy(w) /\ UNCHANGED <<ip, accepted>> /\ runs' = [runs EXCEPT ![Running(w)] = @ + 1]
  BY DEF Loop_Executed, Loop_Drained, Busy, Running
<1>b. PICK x \in Tasks : x = Running(w)
  BY <1>1, <1>a, RunningFacts
<1>2. Busy(w) /\ runs' = [runs EXCEPT ![x] = @ + 1] /\ UNCHANGED <<ip, accepted>>
  BY <1>a, <1>b
<1>3. runs[x] = 0 /\ x \in accepted
  <2>1. PICK k \in {Own(w), Aside(w)} :
          k \in QueueNames /\ 1 \in DOMAIN Queues[k] /\ Queues[k][1] = x
    BY <1>1, <1>2, <1>b, RunningPlace
  <2>2. k \in DOMAIN Queues
    BY <2>1 DEF Queues
  <2>. QED
    BY <1>1, <2>1, <2>2 DEF Booked
<1>4. Status(x) = "pending" /\ Status(x)' = "done"
  BY <1>1, <1>2, <1>3 DEF Status, TypeOK
<1>5. \A y \in Tasks : y # x => Status(y)' = Status(y)
  BY <1>1, <1>2, <1>3 DEF Status, TypeOK
<1>6. \A c \in Clients : Answers(c)' = Answers(c)
  BY <1>2 DEF Answers
<1>7. Promise!Execute(x)
  BY <1>3, <1>4, <1>5, <1>6 DEF Promise!Execute
<1>. QED
  BY <1>3, <1>7 DEF Promise!Next

(* A wait that returns is answered with nothing outstanding.               *)
LEMMA PromisedAnswer ==
  ASSUME SubmitsBeforeStart, PromiseInv, NEW c \in Clients,
         Start(c) \/ Stop(c) \/ Wait_Check(c) \/ Drain_Active(c) \/ Drain_Queued(c)
  PROVE  [Promise!Next]_(Promise!vars)
<1>1. IInv /\ TypeOK /\ \A d \in Clients : ip[d] >= 1
  BY DEF PromiseInv, TaskInv, IInv, ClientAt
<1>2. UNCHANGED <<accepted, runs>>
  BY DEF Start, Start_Enter, Start_Lock, Start_Assign, Start_Return, Stop, Stop_Enter,
     Stop_Lock, Stop_Notify, Stop_Join, Stop_Return, Wait_Check, Drain_Active,
     Drain_Queued, history
<1>3. /\ \A d \in Clients : d # c => ip'[d] = ip[d]
      /\ ip'[c] = ip[c] \/ ip'[c] = ip[c] + 1
  BY <1>1, ClientFacts
<1>4. \A d \in Clients : d # c => Answers(d)' = Answers(d)
  BY <1>1, <1>3, AnswersCounted
<1>5. CASE Answers(c)' = Answers(c)
  BY <1>2, <1>4, <1>5, PromisedStutter
<1>6. CASE Answers(c)' # Answers(c)
  <2>1. ip'[c] # ip[c] /\ Program[c][ip[c]].op \in {"Wait", "Drain"}
        /\ Answers(c)' = Answers(c) + 1
    BY <1>1, <1>3, <1>6, AnswersCounted
  <2>2. Full
    BY <2>1, CallReturns, AnswersWhenFull DEF Makes
  <2>3. \A x \in Tasks : Status(x) # "pending" /\ Status(x)' = Status(x)
    BY <1>2, <2>2, FullIsDone DEF Status
  <2>4. Promise!Answer(c)
    BY <1>4, <2>1, <2>3 DEF Promise!Answer
  <2>. QED
    BY <2>4 DEF Promise!Next
<1>. QED
  BY <1>5, <1>6

(* Every step of the pool is one of the promise, or none.                  *)
LEMMA PromisedNext ==
  ASSUME SubmitsBeforeStart, PromiseInv, [Next]_vars
  PROVE  [Promise!Next]_(Promise!vars)
<1>1. TaskInv /\ IInv'
  BY TaskNext DEF PromiseInv, TaskInv
<1>2. CASE UNCHANGED <<ip, accepted, runs>>
  BY <1>2, PromisedStutter DEF Answers
<1>. QED
  BY <1>1, <1>2, StepKinds, PromisedAdd, PromisedExecute, PromisedAnswer

(* Seen from outside, the pool only takes the steps of TaskPool, where all *)
(* submissions from outside come before Start: a task is executed after it *)
(* is submitted and once, and a client that waits is answered only when no *)
(* submitted task is outstanding.  This is the safety part of KeepsPromise.*)
THEOREM PoolKeepsPromise ==
  ASSUME SubmitsBeforeStart
  PROVE  Spec => Promise!Init /\ [][Promise!Next]_(Promise!vars)
<1>1. Init => Promise!Init
  BY PromisedInit
<1>2. PromiseInv /\ [Next]_vars => [Promise!Next]_(Promise!vars)
  BY PromisedNext
<1>. QED
  BY <1>1, <1>2, PromiseInvariant, PTL DEF Spec

=============================================================================
