----------------------------- MODULE ThreadPool -----------------------------
(***************************************************************************)
(* The thread pool of MrBoboSockets (MrBoboSockets/MrBoboSockets.h):       *)
(* class Worker, class ThreadPool and WorkerThreadFunction.                *)
(*                                                                         *)
(* Threads are the pool's workers, numbered as in AvailableWorkers, and    *)
(* the clients that own or use the pool.  A client executes its Program, a *)
(* sequence of calls on the pool; a task, while it runs on a worker, adds  *)
(* the tasks of Children[task].  As in every use of the class, only the    *)
(* object that owns the pool starts and stops it.                          *)
(*                                                                         *)
(* A critical section that blocks on nothing else is one action.  Two      *)
(* mutexes are held across actions, and the program counter of their       *)
(* holder says so: a worker's ObjectValuesMutex (OwnMutexFree) and, inside *)
(* Start, the ThreadPoolMutex (PoolMutexFree).  Everything the code does   *)
(* outside a lock, the notifications and the second read of ShouldStop     *)
(* included, is an action of its own.                                      *)
(*                                                                         *)
(* Left out: AllTasksFinished, which only Worker::InStandby reads and      *)
(* nothing calls; WorkerID, never assigned.                                *)
(***************************************************************************)
EXTENDS Integers, Sequences, FiniteSets

CONSTANTS NumberOfThreads,   \* size of AvailableWorkers
          Clients,           \* threads that call the pool's methods
          Owner,             \* the client that starts and stops the pool
          Tasks,             \* the std::function objects, told apart
          Program,           \* Program[c]: the calls client c makes, in order
          Children,          \* Children[x]: the tasks x adds while it runs
          SpuriousWakeups    \* whether a condition variable may wake unasked

Workers == 1..NumberOfThreads
Threads == Workers \cup Clients

Calls == [op : {"AddTask"}, task : Tasks]
           \cup [op : {"Start", "Wait", "Drain", "Stop"}]

ASSUME PoolAssumption ==
    /\ NumberOfThreads \in Nat
    /\ Workers \cap Clients = {}
    /\ Owner \in Clients
    /\ Program \in [Clients -> Seq(Calls)]
    /\ \A c \in Clients \ {Owner} : \A i \in DOMAIN Program[c] :
         Program[c][i].op \notin {"Start", "Stop"}
    /\ Children \in [Tasks -> Seq(Tasks)]
    /\ SpuriousWakeups \in BOOLEAN

(* AddTask makes a std::function object of its own of what it is given, so *)
(* no two calls, of clients or of running tasks, add the same task.        *)
AddsAt(c, i) == i \in DOMAIN Program[c] /\ Program[c][i].op = "AddTask"
ASSUME SubmissionAssumption ==
    /\ \A c, d \in Clients : \A i \in DOMAIN Program[c], j \in DOMAIN Program[d] :
         /\ AddsAt(c, i) /\ AddsAt(d, j)
         /\ Program[c][i].task = Program[d][j].task
         => c = d /\ i = j
    /\ \A x, y \in Tasks : \A i \in DOMAIN Children[x], j \in DOMAIN Children[y] :
         Children[x][i] = Children[y][j] => x = y /\ i = j
    /\ \A c \in Clients, x \in Tasks :
         \A i \in DOMAIN Program[c], j \in DOMAIN Children[x] :
           AddsAt(c, i) => Program[c][i].task # Children[x][j]

VARIABLES pc,             \* where each thread is
          ip,             \* ip[c]: the call of Program[c] that c makes next
          target,         \* WorkerToAssignWork, or the index i of Start and Stop
          spawn,          \* tasks the running task of a worker has yet to add
          poolTasks,      \* ThreadPool::TaskQueue
          standby,        \* ThreadPool::ThreadsOnStandby
          poolRunning,    \* ThreadPool::Running
          workerTasks,    \* Worker::TaskQueue
          workerRunning,  \* Worker::Running
          shouldStop,     \* Worker::ShouldStop
          separate,       \* SeperateTaskQueue of WorkerThreadFunction
          accepted,       \* history: tasks some queue has received
          runs            \* history: how often each task has been executed

poolVars   == <<poolTasks, standby, poolRunning>>
workerVars == <<workerTasks, workerRunning, shouldStop, separate>>
history    == <<accepted, runs>>
vars == <<pc, ip, target, spawn, poolVars, workerVars, history>>

-----------------------------------------------------------------------------
Init ==
    /\ pc = [t \in Threads |-> IF t \in Clients THEN "idle" ELSE "unborn"]
    /\ ip = [c \in Clients |-> 1]
    /\ target = [t \in Threads |-> 1]
    /\ spawn = [w \in Workers |-> <<>>]
    /\ poolTasks = <<>>
    /\ standby = <<>>
    /\ poolRunning = FALSE
    /\ workerTasks = [w \in Workers |-> <<>>]
    /\ workerRunning = [w \in Workers |-> FALSE]
    /\ shouldStop = [w \in Workers |-> FALSE]
    /\ separate = [w \in Workers |-> <<>>]
    /\ accepted = {}
    /\ runs = [x \in Tasks |-> 0]

-----------------------------------------------------------------------------
Goto(t, label) == pc' = [pc EXCEPT ![t] = label]

(* Client c is about to make the given call. *)
AtCall(c, op) ==
    /\ pc[c] = "idle"
    /\ ip[c] <= Len(Program[c])
    /\ Program[c][ip[c]].op = op

(* The call of client c returns. *)
Return(c) ==
    /\ Goto(c, "idle")
    /\ ip' = [ip EXCEPT ![c] = @ + 1]

(* A worker runs a task from its own queue with its mutex held; a task of  *)
(* the separate queue, after a stop, it runs without.                      *)
AddSteps == {"assign", "notify", "enqueue"}
OwnMutexFree(w) ==
    /\ pc[w] \notin {"fetch", "announce", "gate"}
    /\ pc[w] \in {"running"} \cup AddSteps => separate[w] # <<>>

PoolMutexFree == \A c \in Clients : pc[c] # "startAssign"

(* notify_all on CanExecuteConditional of worker w, and thread t goes on.  *)
NotifyWorker(w, t, label) ==
    pc' = [pc EXCEPT ![w] = IF @ = "parked" THEN "unparked" ELSE @,
                     ![t] = label]

-----------------------------------------------------------------------------
(* ThreadPool::AddTask, called by a client or by a running task.           *)

AddsTask(t) ==
    \/ t \in Clients /\ AtCall(t, "AddTask")
    \/ t \in Workers /\ pc[t] = "running" /\ spawn[t] # <<>>

Added(t) == IF t \in Clients THEN Program[t][ip[t]].task ELSE Head(spawn[t])

(* AddTask returns to the code that called it. *)
AddReturns(t) ==
    IF t \in Clients
    THEN ip' = [ip EXCEPT ![t] = @ + 1] /\ UNCHANGED spawn
    ELSE spawn' = [spawn EXCEPT ![t] = Tail(@)] /\ UNCHANGED ip
AfterAdd(t) == IF t \in Clients THEN "idle" ELSE "running"

(* Fault: the worker found is not popped. *)
AddTask_Pick_NoPop(t) ==
    /\ AddsTask(t)
    /\ PoolMutexFree
    /\ IF standby # <<>>
       THEN target' = [target EXCEPT ![t] = Head(standby)] /\ Goto(t, "assign")
       ELSE Goto(t, "enqueue") /\ UNCHANGED target
    /\ UNCHANGED <<ip, spawn, poolVars, workerVars, history>>

(* The first critical section: take a worker off standby if there is one.  *)
AddTask_Pick(t) ==
    /\ AddsTask(t)
    /\ PoolMutexFree
    /\ IF standby # <<>>
       THEN /\ target' = [target EXCEPT ![t] = Head(standby)]
            /\ standby' = Tail(standby)
            /\ Goto(t, "assign")
       ELSE /\ Goto(t, "enqueue")
            /\ UNCHANGED <<target, standby>>
    /\ UNCHANGED <<ip, spawn, poolTasks, poolRunning, workerVars, history>>

(* Worker::AddTask: push under the worker's mutex ... *)
AddTask_Assign(t) ==
    /\ pc[t] = "assign"
    /\ OwnMutexFree(target[t])
    /\ workerTasks' = [workerTasks EXCEPT ![target[t]] = Append(@, Added(t))]
    /\ accepted' = accepted \cup {Added(t)}
    /\ Goto(t, "notify")
    /\ UNCHANGED <<ip, target, spawn, poolVars, workerRunning, shouldStop,
                   separate, runs>>

(* Fault: the worker is not notified. *)
AddTask_Notify_Silent(t) ==
    /\ pc[t] = "notify"
    /\ Goto(t, AfterAdd(t))
    /\ AddReturns(t)
    /\ UNCHANGED <<target, poolVars, workerVars, history>>

(* ... and notify after the mutex is released. *)
AddTask_Notify(t) ==
    /\ pc[t] = "notify"
    /\ NotifyWorker(target[t], t, AfterAdd(t))
    /\ AddReturns(t)
    /\ UNCHANGED <<target, poolVars, workerVars, history>>

(* The second critical section, when standby was empty in the first.       *)
AddTask_Enqueue(t) ==
    /\ pc[t] = "enqueue"
    /\ PoolMutexFree
    /\ poolTasks' = Append(poolTasks, Added(t))
    /\ accepted' = accepted \cup {Added(t)}
    /\ Goto(t, AfterAdd(t))
    /\ AddReturns(t)
    /\ UNCHANGED <<target, standby, poolRunning, workerVars, runs>>

-----------------------------------------------------------------------------
(* ThreadPool::Start: the workers in order, each under the pool's mutex.   *)

(* Fault: the loop starts one before the first worker. *)
Start_Enter_FromZero(c) ==
    /\ AtCall(c, "Start") /\ ~poolRunning
    /\ poolRunning' = TRUE
    /\ target' = [target EXCEPT ![c] = 0]
    /\ Goto(c, "startLock")
    /\ UNCHANGED <<ip, spawn, poolTasks, standby, workerVars, history>>

Start_Enter(c) ==
    /\ AtCall(c, "Start")
    /\ IF poolRunning
       THEN Return(c) /\ UNCHANGED <<target, poolRunning>>
       ELSE /\ poolRunning' = TRUE
            /\ target' = [target EXCEPT ![c] = 1]
            /\ Goto(c, "startLock")
            /\ UNCHANGED ip
    /\ UNCHANGED <<spawn, poolTasks, standby, workerVars, history>>

(* Worker::Start, and the loop of ThreadPool::Start goes to the next.      *)
StartWorker(w, c) ==
    /\ IF workerRunning[w]
       THEN Goto(c, "startLock") /\ UNCHANGED workerRunning
       ELSE /\ pc' = [pc EXCEPT ![w] = "top", ![c] = "startLock"]
            /\ workerRunning' = [workerRunning EXCEPT ![w] = TRUE]
    /\ target' = [target EXCEPT ![c] = @ + 1]

Start_Lock(c) ==
    /\ pc[c] = "startLock"
    /\ target[c] \in Workers
    /\ PoolMutexFree
    /\ IF poolTasks # <<>>
       THEN Goto(c, "startAssign") /\ UNCHANGED <<target, workerRunning>>
       ELSE StartWorker(target[c], c)
    /\ UNCHANGED <<ip, spawn, poolVars, workerTasks, shouldStop, separate,
                   history>>

(* A queued task is given to the worker before it is started: the worker's *)
(* mutex is taken while the pool's is held.                                *)
Start_Assign(c) ==
    /\ pc[c] = "startAssign"
    /\ OwnMutexFree(target[c])
    /\ workerTasks' = [workerTasks EXCEPT
                         ![target[c]] = Append(@, Head(poolTasks))]
    /\ poolTasks' = Tail(poolTasks)
    /\ StartWorker(target[c], c)
    /\ UNCHANGED <<ip, spawn, standby, poolRunning, shouldStop, separate,
                   history>>

Start_Return(c) ==
    /\ pc[c] = "startLock"
    /\ target[c] \notin Workers
    /\ Return(c)
    /\ UNCHANGED <<target, spawn, poolVars, workerVars, history>>

-----------------------------------------------------------------------------
(* ThreadPool::WaitForThreadsToFinish.                                     *)
Wait_Check(c) ==
    /\ AtCall(c, "Wait") \/ pc[c] = "woken"
    /\ PoolMutexFree
    /\ IF Len(standby) = NumberOfThreads
       THEN Return(c)
       ELSE Goto(c, "waiting") /\ UNCHANGED ip
    /\ UNCHANGED <<target, spawn, poolVars, workerVars, history>>

(* Fault: the loop ends with one worker active. *)
Drain_Active_Early(c) ==
    /\ AtCall(c, "Drain")
    /\ PoolMutexFree
    /\ NumberOfThreads - Len(standby) <= 1
    /\ Goto(c, "pollQueue")
    /\ UNCHANGED <<ip, target, spawn, poolVars, workerVars, history>>

(* The polling loop over NumberOfActiveWorkers and NumberOfQueuedTasks of  *)
(* WebsiteCrawlerCoordinator::StartIndexing; a poll that finds an active   *)
(* worker changes nothing and is not an action.                            *)
Drain_Active(c) ==
    /\ AtCall(c, "Drain")
    /\ PoolMutexFree
    /\ NumberOfThreads - Len(standby) = 0
    /\ Goto(c, "pollQueue")
    /\ UNCHANGED <<ip, target, spawn, poolVars, workerVars, history>>

Drain_Queued(c) ==
    /\ pc[c] = "pollQueue"
    /\ PoolMutexFree
    /\ IF Len(poolTasks) > 0 THEN Goto(c, "idle") /\ UNCHANGED ip
                             ELSE Return(c)
    /\ UNCHANGED <<target, spawn, poolVars, workerVars, history>>

-----------------------------------------------------------------------------
(* ThreadPool::Stop, also the destructor: Worker::Stop on each in order.   *)
Stop_Enter(c) ==
    /\ AtCall(c, "Stop")
    /\ target' = [target EXCEPT ![c] = 1]
    /\ Goto(c, "stopLock")
    /\ UNCHANGED <<ip, spawn, poolVars, workerVars, history>>

Stop_Lock(c) ==
    /\ pc[c] = "stopLock"
    /\ target[c] \in Workers
    /\ OwnMutexFree(target[c])
    /\ IF workerRunning[target[c]]
       THEN /\ shouldStop' = [shouldStop EXCEPT ![target[c]] = TRUE]
            /\ workerRunning' = [workerRunning EXCEPT ![target[c]] = FALSE]
            /\ Goto(c, "stopNotify")
            /\ UNCHANGED target
       ELSE /\ target' = [target EXCEPT ![c] = @ + 1]
            /\ UNCHANGED <<pc, shouldStop, workerRunning>>
    /\ UNCHANGED <<ip, spawn, poolVars, workerTasks, separate, history>>

(* Fault: the worker is not notified. *)
Stop_Notify_Silent(c) ==
    /\ pc[c] = "stopNotify"
    /\ Goto(c, "stopJoin")
    /\ UNCHANGED <<ip, target, spawn, poolVars, workerVars, history>>

Stop_Notify(c) ==
    /\ pc[c] = "stopNotify"
    /\ NotifyWorker(target[c], c, "stopJoin")
    /\ UNCHANGED <<ip, target, spawn, poolVars, workerVars, history>>

(* Fault: the worker's thread is detached, not joined. *)
Stop_Join_Early(c) ==
    /\ pc[c] = "stopJoin"
    /\ shouldStop' = [shouldStop EXCEPT ![target[c]] = FALSE]
    /\ target' = [target EXCEPT ![c] = @ + 1]
    /\ Goto(c, "stopLock")
    /\ UNCHANGED <<ip, spawn, poolVars, workerTasks, workerRunning, separate,
                   history>>

Stop_Join(c) ==
    /\ pc[c] = "stopJoin"
    /\ pc[target[c]] = "exited"
    /\ shouldStop' = [shouldStop EXCEPT ![target[c]] = FALSE]
    /\ target' = [target EXCEPT ![c] = @ + 1]
    /\ Goto(c, "stopLock")
    /\ UNCHANGED <<ip, spawn, poolVars, workerTasks, workerRunning, separate,
                   history>>

Stop_Return(c) ==
    /\ pc[c] = "stopLock"
    /\ target[c] \notin Workers
    /\ Return(c)
    /\ UNCHANGED <<target, spawn, poolVars, workerVars, history>>

-----------------------------------------------------------------------------
(* WorkerThreadFunction, one turn of its loop.                             *)

(* Lock ObjectValuesMutex; with an empty queue, go to the pool. *)
Loop_Top(w) ==
    /\ pc[w] = "top"
    /\ Goto(w, IF workerTasks[w] = <<>> THEN "fetch" ELSE "gate")
    /\ UNCHANGED <<ip, target, spawn, poolVars, workerVars, history>>

(* Under the pool's mutex as well: take a queued task or go on standby. *)
Loop_Fetch(w) ==
    /\ pc[w] = "fetch"
    /\ PoolMutexFree
    /\ IF poolTasks # <<>>
       THEN /\ workerTasks' = [workerTasks EXCEPT
                                 ![w] = Append(@, Head(poolTasks))]
            /\ poolTasks' = Tail(poolTasks)
            /\ UNCHANGED standby
       ELSE /\ standby' = Append(standby, w)
            /\ UNCHANGED <<workerTasks, poolTasks>>
    /\ Goto(w, "announce")
    /\ UNCHANGED <<ip, target, spawn, poolRunning, workerRunning, shouldStop,
                   separate, history>>

(* WaitForThreadsToFinishConditional.notify_all, outside the pool's mutex. *)
Loop_Announce(w) ==
    /\ pc[w] = "announce"
    /\ pc' = [t \in Threads |->
                IF t = w THEN "gate"
                ELSE IF pc[t] = "waiting" THEN "woken" ELSE pc[t]]
    /\ UNCHANGED <<ip, target, spawn, poolVars, workerVars, history>>

(* The wait for a task or a stop, still under the worker's own mutex. *)
Loop_Park(w) ==
    /\ pc[w] = "gate"
    /\ workerTasks[w] = <<>> /\ ~shouldStop[w]
    /\ Goto(w, "parked")
    /\ UNCHANGED <<ip, target, spawn, poolVars, workerVars, history>>

(* Faults: a wake-up starts a new turn, or is taken for a task. *)
Loop_Unpark_ToTop(w) ==
    /\ pc[w] = "unparked"
    /\ Goto(w, "top")
    /\ UNCHANGED <<ip, target, spawn, poolVars, workerVars, history>>
Loop_Unpark(w) ==
    /\ pc[w] = "unparked"
    /\ Goto(w, "gate")
    /\ UNCHANGED <<ip, target, spawn, poolVars, workerVars, history>>

(* Fault: the queue is copied and not cleared. *)
Loop_Leave_NoClear(w) ==
    /\ pc[w] = "gate"
    /\ workerTasks[w] # <<>> \/ shouldStop[w]
    /\ separate' = [separate EXCEPT
                      ![w] = IF shouldStop[w] THEN workerTasks[w] ELSE @]
    /\ Goto(w, "branch")
    /\ UNCHANGED <<ip, target, spawn, poolVars, workerTasks, workerRunning,
                   shouldStop, history>>

(* The wait is over: on a stop the queue is set aside; the mutex is freed. *)
Loop_Leave(w) ==
    /\ pc[w] = "gate"
    /\ workerTasks[w] # <<>> \/ shouldStop[w]
    /\ IF shouldStop[w]
       THEN /\ separate' = [separate EXCEPT ![w] = workerTasks[w]]
            /\ workerTasks' = [workerTasks EXCEPT ![w] = <<>>]
       ELSE UNCHANGED <<separate, workerTasks>>
    /\ Goto(w, "branch")
    /\ UNCHANGED <<ip, target, spawn, poolVars, workerRunning, shouldStop,
                   history>>

(* The second read of ShouldStop, without any lock. *)
Loop_Branch(w) ==
    /\ pc[w] = "branch"
    /\ Goto(w, IF shouldStop[w] THEN "drain" ELSE "execLock")
    /\ UNCHANGED <<ip, target, spawn, poolVars, workerVars, history>>

(* Lock again, copy the front task and call it. *)
Loop_Execute(w) ==
    /\ pc[w] = "execLock"
    /\ spawn' = [spawn EXCEPT ![w] = Children[Head(workerTasks[w])]]
    /\ Goto(w, "running")
    /\ UNCHANGED <<ip, target, poolVars, workerVars, history>>

(* The task returns and is popped. *)
Loop_Executed(w) ==
    /\ pc[w] = "running" /\ separate[w] = <<>>
    /\ spawn[w] = <<>>
    /\ runs' = [runs EXCEPT ![Head(workerTasks[w])] = @ + 1]
    /\ workerTasks' = [workerTasks EXCEPT ![w] = Tail(@)]
    /\ Goto(w, "top")
    /\ UNCHANGED <<ip, target, spawn, poolVars, workerRunning, shouldStop,
                   separate, accepted>>

(* The tasks set aside are called, without a lock, and the thread returns. *)
Loop_DrainNext(w) ==
    /\ pc[w] = "drain"
    /\ IF separate[w] # <<>>
       THEN /\ spawn' = [spawn EXCEPT ![w] = Children[Head(separate[w])]]
            /\ Goto(w, "running")
       ELSE /\ Goto(w, "exited")
            /\ UNCHANGED spawn
    /\ UNCHANGED <<ip, target, poolVars, workerVars, history>>

Loop_Drained(w) ==
    /\ pc[w] = "running" /\ separate[w] # <<>>
    /\ spawn[w] = <<>>
    /\ runs' = [runs EXCEPT ![Head(separate[w])] = @ + 1]
    /\ separate' = [separate EXCEPT ![w] = Tail(@)]
    /\ Goto(w, "drain")
    /\ UNCHANGED <<ip, target, spawn, poolVars, workerTasks, workerRunning,
                   shouldStop, accepted>>

-----------------------------------------------------------------------------
(* A condition variable may wake a thread that nobody notified. *)
SpuriousWakeup(t) ==
    /\ SpuriousWakeups
    /\ pc[t] \in {"parked", "waiting"}
    /\ Goto(t, IF pc[t] = "parked" THEN "unparked" ELSE "woken")
    /\ UNCHANGED <<ip, target, spawn, poolVars, workerVars, history>>

AddTask(t) == AddTask_Pick(t) \/ AddTask_Assign(t) \/ AddTask_Notify(t)
                \/ AddTask_Enqueue(t)
Start(c) == Start_Enter(c) \/ Start_Lock(c) \/ Start_Assign(c)
              \/ Start_Return(c)
Stop(c) == Stop_Enter(c) \/ Stop_Lock(c) \/ Stop_Notify(c) \/ Stop_Join(c)
             \/ Stop_Return(c)
ClientStep(c) == AddTask(c) \/ Start(c) \/ Stop(c) \/ Wait_Check(c)
                   \/ Drain_Active(c) \/ Drain_Queued(c)
WorkerStep(w) == AddTask(w) \/ Loop_Top(w) \/ Loop_Fetch(w)
                   \/ Loop_Announce(w) \/ Loop_Park(w) \/ Loop_Unpark(w)
                   \/ Loop_Leave(w) \/ Loop_Branch(w) \/ Loop_Execute(w)
                   \/ Loop_Executed(w) \/ Loop_DrainNext(w) \/ Loop_Drained(w)

(* Every client is through its program and no worker has anything to do.   *)
Finished(c) == pc[c] = "idle" /\ ip[c] > Len(Program[c])
Terminated ==
    /\ \A c \in Clients : Finished(c)
    /\ \A w \in Workers : pc[w] \in {"unborn", "parked", "exited"}
    /\ UNCHANGED vars

Next == \/ \E c \in Clients : ClientStep(c)
        \/ \E w \in Workers : WorkerStep(w)
        \/ \E t \in Threads : SpuriousWakeup(t)
        \/ Terminated

Spec == Init /\ [][Next]_vars

(* The operating system runs every thread that is able to run, and a       *)
(* condition variable does not wake unasked for ever.                      *)
FairSpec == /\ Spec
            /\ \A c \in Clients : WF_vars(ClientStep(c))
            /\ \A w \in Workers : WF_vars(WorkerStep(w))
            /\ <>[][\A t \in Threads : ~ SpuriousWakeup(t)]_vars

-----------------------------------------------------------------------------
(* Properties.                                                             *)

Labels == {"idle", "unborn", "startLock", "startAssign", "waiting", "woken",
           "pollQueue", "stopLock", "stopNotify", "stopJoin", "top", "fetch",
           "announce", "gate", "parked", "unparked", "branch", "execLock",
           "running", "drain", "exited"} \cup AddSteps

(* Every variable holds a value of the type its C++ member has. *)
TypeOK ==
    /\ pc \in [Threads -> Labels]
    /\ ip \in [Clients -> Nat]
    /\ target \in [Threads -> 1..(NumberOfThreads + 1)]
    /\ spawn \in [Workers -> Seq(Tasks)]
    /\ poolTasks \in Seq(Tasks)
    /\ standby \in Seq(Workers)
    /\ poolRunning \in BOOLEAN
    /\ workerTasks \in [Workers -> Seq(Tasks)]
    /\ workerRunning \in [Workers -> BOOLEAN]
    /\ shouldStop \in [Workers -> BOOLEAN]
    /\ separate \in [Workers -> Seq(Tasks)]
    /\ accepted \subseteq Tasks
    /\ runs \in [Tasks -> Nat]

(* Worker w is on standby, or a thread took it off and is about to push a  *)
(* task to it.                                                             *)
OnStandby(w) == \E i \in DOMAIN standby : standby[i] = w
Assigns(t, w) == pc[t] = "assign" /\ target[t] = w
Claimed(w) == OnStandby(w) \/ \E t \in Threads : Assigns(t, w)

(* A worker waiting for work is claimed once: it is on standby at most     *)
(* once, at most one AddTask has taken it off, and none while it is on.    *)
(* This is what makes the push in the gap between the two locks of         *)
(* ThreadPool::AddTask safe.                                               *)
OneClaim ==
    /\ \A i, j \in DOMAIN standby : standby[i] = standby[j] => i = j
    /\ \A t \in Threads, w \in Workers : Assigns(t, w) =>
         /\ ~OnStandby(w)
         /\ \A u \in Threads : Assigns(u, w) => u = t

(* A worker's own queue never holds more than the one task it runs or is   *)
(* to run next, so a waiting worker is not given a task behind another.    *)
OneTaskPerWorker ==
    \A w \in Workers : Len(workerTasks[w]) <= 1

(* WorkerThreadFunction calls front() and pop_front() on its deque only    *)
(* when there is a task in it: the unlocked second read of ShouldStop      *)
(* never sends a worker with an emptied queue to the execution branch.     *)
NoEmptyFront ==
    \A w \in Workers :
      /\ pc[w] = "execLock" => workerTasks[w] # <<>>
      /\ pc[w] \in {"running"} \cup AddSteps =>
           workerTasks[w] # <<>> \/ separate[w] # <<>>

(* An accepted task is in exactly one queue or has been executed, once:    *)
(* tasks move between the pool's queue, the workers' queues and the queues *)
(* set aside at a stop without being lost or copied.                       *)
Count(x, q) == Cardinality({i \in DOMAIN q : q[i] = x})
Holders(q, x) == {w \in Workers : Count(x, q[w]) > 0}
Conservation ==
    \A x \in Tasks :
      /\ Count(x, poolTasks) + Cardinality(Holders(workerTasks, x))
           + Cardinality(Holders(separate, x)) + runs[x]
           = IF x \in accepted THEN 1 ELSE 0
      /\ \A w \in Workers : Count(x, workerTasks[w]) <= 1

AllDone == \A x \in accepted : runs[x] > 0

(* Client c returns from the given call in this step. *)
Returns(c, op) ==
    /\ ip[c] <= Len(Program[c])
    /\ Program[c][ip[c]].op = op
    /\ ip'[c] # ip[c]

(* WaitForThreadsToFinish returns only when every task the pool accepted   *)
(* has been executed.                                                      *)
WaitMeansDone == [][\A c \in Clients : Returns(c, "Wait") => AllDone]_vars

(* Every call of every client returns: no thread waits for a notification  *)
(* that was sent before it waited, and no two wait for each other's lock.  *)
Termination == <>(\A c \in Clients : Finished(c))

-----------------------------------------------------------------------------
(* The inductive strengthening of OneClaim, OneTaskPerWorker and           *)
(* NoEmptyFront.                                                           *)

StartLabels == {"startLock", "startAssign"}
StopLabels == {"stopLock", "stopNotify", "stopJoin"}
ClientLabels == {"idle", "waiting", "woken", "pollQueue"} \cup StartLabels
                  \cup StopLabels \cup AddSteps
IdleLabels == {"announce", "gate", "parked", "unparked", "branch", "drain",
               "exited"}
WorkerLabels == {"unborn", "top", "fetch", "execLock", "running"}
                  \cup IdleLabels \cup AddSteps

(* Nothing is queued for worker w and it does not look for anything.       *)
Idle(w) == /\ w \in Workers /\ pc[w] \in IdleLabels
           /\ workerTasks[w] = <<>> /\ separate[w] = <<>>

(* Whoever is claimed is idle. *)
ClaimedAreIdle ==
    /\ \A i \in DOMAIN standby : Idle(standby[i])
    /\ \A t \in Threads : pc[t] = "assign" => Idle(target[t])

(* What a client has established at its program point. *)
ClientAt(c) ==
    /\ pc[c] \in ClientLabels
    /\ ip[c] >= 1
    /\ pc[c] \in AddSteps =>
         ip[c] \in DOMAIN Program[c] /\ Program[c][ip[c]].op = "AddTask"
    /\ pc[c] \in StartLabels => c = Owner /\ poolRunning
    /\ pc[c] \in StartLabels =>
         \A w \in Workers : w >= target[c] =>
           pc[w] = "unborn" /\ workerTasks[w] = <<>>
    /\ pc[c] = "startAssign" => poolTasks # <<>> /\ target[c] \in Workers
    /\ pc[c] \in {"stopNotify", "stopJoin"} => target[c] \in Workers

(* What a worker has established at its program point. *)
WorkerAt(w) ==
    /\ pc[w] \in WorkerLabels
    /\ pc[w] \in AddSteps => spawn[w] # <<>>
    /\ ~poolRunning => pc[w] = "unborn" /\ workerTasks[w] = <<>>
    /\ pc[w] = "fetch" => workerTasks[w] = <<>>
    /\ pc[w] = "branch" => \/ shouldStop[w]
                           \/ workerTasks[w] # <<>> /\ separate[w] = <<>>
    /\ pc[w] = "execLock" => workerTasks[w] # <<>>
    /\ separate[w] # <<>> =>
         pc[w] \in {"branch", "drain", "running"} \cup AddSteps
    /\ pc[w] \in {"running"} \cup AddSteps =>
         workerTasks[w] # <<>> \/ separate[w] # <<>>

IInv ==
    /\ TypeOK
    /\ OneClaim
    /\ OneTaskPerWorker
    /\ ClaimedAreIdle
    /\ \A t \in Threads : pc[t] \in {"assign", "notify"} => target[t] \in Workers
    /\ \A c \in Clients : ClientAt(c)
    /\ \A w \in Workers : WorkerAt(w)

(* The inductive strengthening of Conservation.  The queues a task can be  *)
(* in: the pool's, a worker's own and the one it has set aside.            *)
Pool == <<"pool", 0>>
Own(w) == <<"own", w>>
Aside(w) == <<"aside", w>>
QueueNames == {Pool} \cup {Own(w) : w \in Workers} \cup {Aside(w) : w \in Workers}
Queues == [k \in QueueNames |->
             IF k = Pool THEN poolTasks
             ELSE IF k[1] = "own" THEN workerTasks[k[2]] ELSE separate[k[2]]]

(* No task stands in two places of the queues; those that do are accepted  *)
(* and not executed, and the accepted tasks that do not are executed.      *)
Located(queues, x) == \E k \in DOMAIN queues : \E i \in DOMAIN queues[k] : queues[k][i] = x
Booked(queues, taken, executed) ==
    /\ \A k, l \in DOMAIN queues : \A i \in DOMAIN queues[k], j \in DOMAIN queues[l] :
         queues[k][i] = queues[l][j] => k = l /\ i = j
    /\ \A k \in DOMAIN queues : \A i \in DOMAIN queues[k] :
         queues[k][i] \in taken /\ executed[queues[k][i]] = 0
    /\ \A x \in taken : executed[x] = 1 \/ (executed[x] = 0 /\ Located(queues, x))
    /\ \A x \in Tasks \ taken : executed[x] = 0

(* The task a worker runs, and how many of its tasks it has submitted.     *)
Busy(w) == pc[w] \in {"running"} \cup AddSteps
Running(w) == IF separate[w] # <<>> THEN Head(separate[w]) ELSE Head(workerTasks[w])
Submitted(w) == Len(Children[Running(w)]) - Len(spawn[w])
                  + (IF pc[w] = "notify" THEN 1 ELSE 0)
RunsItsChildren(w) ==
    Busy(w) => LET all == Children[Running(w)]
               IN  /\ Len(spawn[w]) <= Len(all)
                   /\ \A j \in DOMAIN spawn[w] :
                        spawn[w][j] = all[Len(all) - Len(spawn[w]) + j]

(* Whose call, or whose child, an accepted task is.                        *)
CallIsMade(c, i) == AddsAt(c, i) /\ (i < ip[c] \/ (i = ip[c] /\ pc[c] = "notify"))
ChildIsAdded(x, j) == \/ runs[x] = 1
                      \/ \E w \in Workers : Busy(w) /\ Running(w) = x /\ j <= Submitted(w)
WasSubmitted(y) ==
    \/ \E c \in Clients : \E i \in DOMAIN Program[c] :
          CallIsMade(c, i) /\ Program[c][i].task = y
    \/ \E x \in Tasks : \E j \in DOMAIN Children[x] :
          ChildIsAdded(x, j) /\ Children[x][j] = y

TaskInv ==
    /\ IInv
    /\ Booked(Queues, accepted, runs)
    /\ \A w \in Workers : RunsItsChildren(w)
    /\ \A y \in accepted : WasSubmitted(y)

-----------------------------------------------------------------------------
(* What the pool promises, and to whom.                                    *)

(* How the programs of the repository use the pool: the object that owns   *)
(* it submits what it has before Start, and later only running tasks add.  *)
SubmitsBeforeStart ==
    /\ NumberOfThreads > 0
    /\ \A c \in Clients : \A i \in DOMAIN Program[c] : AddsAt(c, i) =>
         /\ c = Owner
         /\ \A j \in DOMAIN Program[c] : j < i => Program[c][j].op # "Start"

(* The promise, with the pool's state seen from outside. *)
Status(x) == IF runs[x] = 1 THEN "done"
             ELSE IF runs[x] > 1 THEN "twice"
             ELSE IF x \in accepted THEN "pending" ELSE "new"
Answers(c) == Cardinality({i \in 1..(ip[c] - 1) :
                             Program[c][i].op \in {"Wait", "Drain"}})
Promise == INSTANCE TaskPool WITH status  <- [x \in Tasks |-> Status(x)],
                                  answers <- [c \in Clients |-> Answers(c)]

(* Seen from outside, the pool executes every submitted task exactly once, *)
(* eventually, and answers a wait only when none is outstanding.           *)
KeepsPromise == Promise!Spec

(* The invariant behind the answers.  When all workers are on standby the  *)
(* pool's queue is empty, and a client that polls has seen that they are.  *)
Full == Len(standby) = NumberOfThreads
Makes(c, op) == ip[c] \in DOMAIN Program[c] /\ Program[c][ip[c]].op = op
InCall(c) ==
    /\ pc[c] \in {"waiting", "woken"} => Makes(c, "Wait")
    /\ pc[c] = "pollQueue" => Makes(c, "Drain") /\ Full
    /\ pc[c] \in StartLabels => Makes(c, "Start")
    /\ pc[c] \in StopLabels => Makes(c, "Stop")
HasStarted == \E j \in DOMAIN Program[Owner] :
                 j <= ip[Owner] /\ Program[Owner][j].op = "Start"

PromiseInv ==
    /\ TaskInv
    /\ poolRunning => HasStarted
    /\ Full => poolTasks = <<>>
    /\ \A c \in Clients : InCall(c)

=============================================================================
