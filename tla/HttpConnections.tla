-------------------------- MODULE HttpConnections ---------------------------
(***************************************************************************)
(* Who starts and ends the threads of the HTTP server: StartListening,     *)
(* which accepts connections, the thread of each connection, and the       *)
(* worker of HTTPServer_ConnectionHandler, which joins the threads that    *)
(* have ended (MrPostOGet/MrPostOGet.cpp).  What a connection's thread     *)
(* does before it removes itself is in HttpRequests.                       *)
(*                                                                         *)
(* StartListening never returns, and the handler is not destroyed.         *)
(***************************************************************************)
EXTENDS Naturals, Sequences, FiniteSets

CONSTANT MaxConnections    \* connections that are made, in all

ASSUME ConnectionsAssumption == MaxConnections \in Nat

Handles == 1 .. MaxConnections

VARIABLES
    acceptor,      \* where StartListening is
    deaf,          \* m_Invalid of the listening socket
    lastHandle,    \* m_CurrentHandleIndex
    active,        \* keys of m_ActiveConnections
    toRemove,      \* m_HandlesToRemove, its top first
    object,        \* the std::thread of each handle
    conn,          \* where each connection's thread is
    worker,        \* where p_ActiveConnectionWorker is
    joining        \* its HandleToRemove

acceptorVars == <<acceptor, deaf, lastHandle>>
workerVars == <<worker, joining>>
connectionVars == <<acceptorVars, active, toRemove, object, conn, workerVars>>

ConnectionsInit ==
    /\ acceptor = "accept" /\ deaf = FALSE /\ lastHandle = 0
    /\ active = {} /\ toRemove = <<>>
    /\ object = [h \in Handles |-> "none"]
    /\ conn = [h \in Handles |-> "none"]
    /\ worker = "top" /\ joining = 0

(* m_InternalsMutex is held across steps by the worker only. *)
MutexFree == worker \notin {"locked", "joining"}

-----------------------------------------------------------------------------
(* HTTPServer::StartListening.                                             *)

Accept == /\ acceptor = "accept" /\ ~ deaf /\ lastHandle < MaxConnections
          /\ acceptor' = "add"
          /\ UNCHANGED <<deaf, lastHandle, active, toRemove, object, conn,
                         workerVars>>

(* accept fails: the socket counts as invalid, and nothing makes it valid   *)
(* again.  The loop goes on, accepts connections and serves none of them.  *)
AcceptFails == /\ acceptor = "accept" /\ ~ deaf
               /\ deaf' = TRUE
               /\ UNCHANGED <<acceptor, lastHandle, active, toRemove, object,
                              conn, workerVars>>

(* An empty std::thread is added ... *)
AddConnection == /\ acceptor = "add" /\ MutexFree
                 /\ acceptor' = "launch"
                 /\ lastHandle' = lastHandle + 1
                 /\ active' = active \cup {lastHandle'}
                 /\ object' = [object EXCEPT ![lastHandle'] = "empty"]
                 /\ UNCHANGED <<deaf, toRemove, conn, workerVars>>

(* ... the thread of the connection starts ... *)
Launch == /\ acceptor = "launch"
          /\ acceptor' = "assign"
          /\ conn' = [conn EXCEPT ![lastHandle] = "serving"]
          /\ UNCHANGED <<deaf, lastHandle, active, toRemove, object,
                         workerVars>>

(* ... and is assigned to the object, without the mutex. *)
Assign == /\ acceptor = "assign"
          /\ acceptor' = "accept"
          /\ object' = [object EXCEPT ![lastHandle] = "joinable"]
          /\ UNCHANGED <<deaf, lastHandle, active, toRemove, conn,
                         workerVars>>

-----------------------------------------------------------------------------
(* A connection's thread, when it has served: RemoveConnection.            *)

EndServing(h) ==
    /\ conn[h] = "serving"
    /\ conn' = [conn EXCEPT ![h] = "removing"]
    /\ UNCHANGED <<acceptorVars, active, toRemove, object, workerVars>>

RemoveConnection(h) ==
    /\ conn[h] = "removing" /\ MutexFree
    /\ conn' = [conn EXCEPT ![h] = "notifying"]
    /\ toRemove' = <<h>> \o toRemove
    /\ UNCHANGED <<acceptorVars, active, object, workerVars>>

Notify_Lost(h) ==
    /\ conn[h] = "notifying"
    /\ conn' = [conn EXCEPT ![h] = "ended"]
    /\ UNCHANGED <<acceptorVars, active, toRemove, object, workerVars>>
Notify(h) ==
    /\ conn[h] = "notifying"
    /\ conn' = [conn EXCEPT ![h] = "ended"]
    /\ worker' = IF worker = "waiting" THEN "woken" ELSE worker
    /\ UNCHANGED <<acceptorVars, active, toRemove, object, joining>>

-----------------------------------------------------------------------------
(* p_ActiveConnectionWorker.                                               *)

SpuriousWakeup == /\ worker = "waiting" /\ worker' = "woken"
                  /\ UNCHANGED <<acceptorVars, active, toRemove, object, conn,
                                 joining>>

(* It locks, and waits unless there is something to remove. *)
Lock == /\ worker \in {"top", "woken"}
        /\ worker' = IF toRemove = <<>> THEN "waiting" ELSE "locked"
        /\ UNCHANGED <<acceptorVars, active, toRemove, object, conn, joining>>

(* With the mutex held all the time, it takes each handle off the stack ... *)
Pop_Keep == /\ worker = "locked" /\ toRemove # <<>>
            /\ joining' = Head(toRemove)
            /\ worker' = IF Head(toRemove) \in active THEN "joining" ELSE "top"
            /\ UNCHANGED <<acceptorVars, active, toRemove, object, conn>>
Pop == /\ worker = "locked" /\ toRemove # <<>>
       /\ toRemove' = Tail(toRemove)
       /\ joining' = Head(toRemove)
       /\ worker' = IF Head(toRemove) \in active THEN "joining" ELSE "locked"
       /\ UNCHANGED <<acceptorVars, active, object, conn>>

(* ... joins its thread and destroys the object ...                        *)
Join == /\ worker = "joining" /\ object[joining] = "joinable"
        /\ conn[joining] = "ended"
        /\ object' = [object EXCEPT ![joining] = "destroyed"]
        /\ active' = active \ {joining}
        /\ worker' = "locked"
        /\ UNCHANGED <<acceptorVars, toRemove, conn, joining>>

(* ... or, when the object is empty still, gets an exception that nobody   *)
(* catches, which ends the program; so may a join while it is assigned to. *)
JoinEmpty == /\ worker = "joining"
             /\ acceptor = "assign" /\ joining = lastHandle
             /\ worker' = "terminated"
             /\ UNCHANGED <<acceptorVars, active, toRemove, object, conn, joining>>

Unlock == /\ worker = "locked" /\ toRemove = <<>>
          /\ worker' = "top"
          /\ UNCHANGED <<acceptorVars, active, toRemove, object, conn, joining>>

Running == worker # "terminated"
AcceptorStep == AddConnection \/ Launch \/ Assign
RemoveStep(h) == RemoveConnection(h) \/ Notify(h)
WorkerStep == Lock \/ Pop \/ Join \/ JoinEmpty \/ Unlock

-----------------------------------------------------------------------------
(* Properties.                                                             *)

(* Each connection is removed once: the worker never meets a handle whose  *)
(* object is destroyed already, and the map and the objects agree.         *)
RemovedOnce ==
    /\ active = {h \in Handles : object[h] \in {"empty", "joinable"}}
    /\ \A i, j \in 1 .. Len(toRemove) : toRemove[i] = toRemove[j] => i = j
    /\ \A i \in 1 .. Len(toRemove) : toRemove[i] \in active
=============================================================================
