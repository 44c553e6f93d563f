----------------------------- MODULE HttpServer -----------------------------
(***************************************************************************)
(* The HTTP server: the threads of HttpConnections, of which the one of a  *)
(* connection serves it as HttpRequests says.                              *)
(***************************************************************************)
EXTENDS HttpConnections, HttpRequests

ASSUME ServerAssumption == Clients = Handles

vars == <<connectionVars, requestVars>>

Init == ConnectionsInit /\ RequestInit

(* m_HandleConnectedSocket runs from the launch of the thread to its end.  *)
Serve(h) == conn[h] = "serving" /\ ServerStep(h) /\ UNCHANGED connectionVars
Served(h) == at[h] \in {"over", "failed"} /\ EndServing(h) /\ UNCHANGED requestVars

ThreadStep(h) == \/ Serve(h) \/ Served(h)
                 \/ RemoveStep(h) /\ UNCHANGED requestVars
Client(h) == conn[h] # "none" /\ ClientStep(h) /\ UNCHANGED connectionVars
Connections == /\ \/ Accept \/ AcceptFails \/ AcceptorStep
                  \/ WorkerStep \/ SpuriousWakeup
               /\ UNCHANGED requestVars

Over == ~ Running /\ UNCHANGED vars

Next == \/ Running /\ (Connections \/ \E h \in Handles : ThreadStep(h) \/ Client(h))
        \/ Over

Spec == Init /\ [][Next]_vars

(* Threads run; a client goes on sending, unless it closes.                *)
FairSpec ==
    /\ Spec
    /\ WF_vars(Running /\ AcceptorStep /\ UNCHANGED requestVars)
    /\ WF_vars(Running /\ WorkerStep /\ UNCHANGED requestVars)
    /\ \A h \in Handles :
          /\ WF_vars(Running /\ ThreadStep(h))
          /\ WF_vars(Running /\ conn[h] # "none" /\ Send(h)
                        /\ UNCHANGED connectionVars)

-----------------------------------------------------------------------------
(* Properties.                                                             *)

(* A client that stays gets a response to each of its requests, unless its  *)
(* handshake or the handler of one fails.                                  *)
EveryRequestIsAnswered ==
    \A h \in Handles :
        conn[h] = "serving" ~> \/ Len(answered[h]) = Len(Bodies[h])
                               \/ ~ open[h] \/ at[h] = "failed" \/ ~ Running

(* The thread of a client that has closed ends, and is joined.             *)
ClosedIsRemoved ==
    \A h \in Handles : (conn[h] # "none" /\ ~ open[h])
                            ~> (object[h] = "destroyed" \/ ~ Running)
=============================================================================
