---------------------------- MODULE ChatConnect ----------------------------
(***************************************************************************)
(* How two chats agree on a port (MrBoboChatt/MrBoboChatt.cpp): the loop   *)
(* of CreateConnection on both sides, the two threads of the main socket,  *)
(* and a network that loses, repeats and reorders.  A peer's address is    *)
(* the peer; of the records in a pipe only the last is ever read.  The     *)
(* pipe's vector is filled without the pipe's mutex (1128) and read with   *)
(* it: a read is taken to give the vector of before or of after.           *)
(* Operator_Word is a plausible mistake in Operator.                       *)
(***************************************************************************)
EXTENDS Naturals, Sequences, FiniteSets

CONSTANTS Callers,   \* the two chats
          UsedPorts0, \* what may be in use on the two sides at the start
          MaxQueue,  \* bound: datagrams waiting in the main socket's queue
          MaxCalls   \* bound: times a user enters /startcon

(* A call has two ends, and a side any finite number of ports in use.      *)
ASSUME CallersAssumption == \E a, b \in Callers : a # b /\ Callers = {a, b}
ASSUME PortsAssumption ==
    \A used \in UsedPorts0 : /\ used \in [Callers -> SUBSET Nat]
                             /\ \A p \in Callers : IsFiniteSet(used[p])

VARIABLES call,      \* where CreateConnection is
          calls,     \* how often it has been called
          message,   \* MessageToSend
          pipe,      \* the MainSockPipe of the other, NoPipe when there is none
          cancelled, \* UserCanceled
          port,      \* the port agreed on, 0 before
          UsedPorts,
          queue,     \* MainSocketDataToSend
          sender,    \* MainSocket_Sender: "busy", "waiting" or "woken"
          sent       \* every datagram that is on its way or has been

connectVars == <<call, calls, message, pipe, cancelled, port, UsedPorts, queue, sender, sent>>

LocalFirstMessagePort == 2700
FirstMessage == [type |-> "FirstMessage", port |-> LocalFirstMessagePort]
AcceptPort(n) == [type |-> "AcceptPort", port |-> n]
NoRecord == [type |-> "None", port |-> 0]
NoPipe == [there |-> FALSE, last |-> NoRecord, added |-> FALSE]
NewPipe == [NoPipe EXCEPT !.there = TRUE]
Other(p) == CHOOSE q \in Callers : q # p

ConnectInit ==
    /\ call = [p \in Callers |-> "none"] /\ calls = [p \in Callers |-> 0]
    /\ message = [p \in Callers |-> FirstMessage]
    /\ pipe = [p \in Callers |-> NoPipe]
    /\ cancelled = [p \in Callers |-> FALSE] /\ port = [p \in Callers |-> 0]
    /\ UsedPorts \in UsedPorts0
    /\ queue = [p \in Callers |-> <<>>] /\ sender = [p \in Callers |-> "busy"]
    /\ sent = {}
-----------------------------------------------------------------------------
PortIsAvailable(p, n) == n \notin UsedPorts[p]
NextPort(p, n) == CHOOSE k \in (n + 1)..(n + 1 + Cardinality(UsedPorts[p])) :
                     /\ PortIsAvailable(p, k)
                     /\ \A j \in (n + 1)..(k - 1) : ~PortIsAvailable(p, j)

(* Queues the datagram and wakes the sender, if it is waiting.             *)
SendDataFromMainSocket(p, m) ==
    /\ queue' = [queue EXCEPT ![p] = Append(@, m)]
    /\ sender' = [sender EXCEPT ![p] = IF @ = "waiting" THEN "woken" ELSE @]
    /\ UNCHANGED sent

(* The user enters /startcon: the thread that waits for Enter is started,  *)
(* the pipe is put into the map, the first message is made.                *)
CreateConnection(p) ==
    /\ call[p] = "none" /\ calls[p] < MaxCalls
    /\ call' = [call EXCEPT ![p] = "waiting"] /\ calls' = [calls EXCEPT ![p] = @ + 1]
    /\ message' = [message EXCEPT ![p] = FirstMessage]
    /\ pipe' = [pipe EXCEPT ![p] = NewPipe]
    /\ cancelled' = [cancelled EXCEPT ![p] = FALSE] /\ port' = [port EXCEPT ![p] = 0]
    /\ UNCHANGED <<UsedPorts, queue, sender, sent>>

(* Enter, while the thread that waits for it has not been joined.          *)
ListenOnInitiationUserInput(p) ==
    /\ call[p] \in {"waiting", "read", "agreed"} /\ ~cancelled[p]
    /\ cancelled' = [cancelled EXCEPT ![p] = TRUE]
    /\ UNCHANGED <<call, calls, message, pipe, port, UsedPorts, queue, sender, sent>>

(* Every half second, while no record has come.                            *)
Resend(p) ==
    /\ call[p] = "waiting" /\ ~pipe[p].added /\ ~cancelled[p]
    /\ Len(queue[p]) < MaxQueue
    /\ SendDataFromMainSocket(p, message[p])
    /\ UNCHANGED <<call, calls, message, pipe, cancelled, port, UsedPorts>>

(* The wait is over.                                                       *)
WaitEnds(p) ==
    /\ call[p] = "waiting" /\ (pipe[p].added \/ cancelled[p])
    /\ call' = [call EXCEPT ![p] = IF cancelled[p] THEN "none" ELSE "read"]
    /\ pipe' = [pipe EXCEPT ![p] = IF cancelled[p] THEN NoPipe ELSE [@ EXCEPT !.added = FALSE]]
    /\ UNCHANGED <<calls, message, cancelled, port, UsedPorts, queue, sender, sent>>

(* The last record is read and answered.                                   *)
Answer(p, m) == /\ message' = [message EXCEPT ![p] = m]
                /\ Len(queue[p]) < MaxQueue
                /\ SendDataFromMainSocket(p, m)
                /\ UNCHANGED <<calls, pipe, cancelled, UsedPorts>>
HandleFirstMessage(p) ==
    /\ call[p] = "read" /\ pipe[p].last.type = "FirstMessage"
    /\ Answer(p, AcceptPort(LocalFirstMessagePort + pipe[p].last.port))
    /\ call' = [call EXCEPT ![p] = "waiting"] /\ UNCHANGED port
HandleAcceptPort(p) ==
    /\ call[p] = "read" /\ pipe[p].last.type = "AcceptPort"
    /\ PortIsAvailable(p, pipe[p].last.port)
    /\ Answer(p, AcceptPort(pipe[p].last.port))
    /\ call' = [call EXCEPT ![p] = "agreed"]
    /\ port' = [port EXCEPT ![p] = pipe[p].last.port]
HandleRefusedPort_Connect(p) ==
    /\ call[p] = "read" /\ pipe[p].last.type = "AcceptPort"
    /\ ~PortIsAvailable(p, pipe[p].last.port)
    /\ Answer(p, AcceptPort(NextPort(p, pipe[p].last.port)))
    /\ call' = [call EXCEPT ![p] = "agreed"]
    /\ port' = [port EXCEPT ![p] = NextPort(p, pipe[p].last.port)]
HandleRefusedPort(p) ==
    /\ call[p] = "read" /\ pipe[p].last.type = "AcceptPort"
    /\ ~PortIsAvailable(p, pipe[p].last.port)
    /\ Answer(p, AcceptPort(NextPort(p, pipe[p].last.port)))
    /\ call' = [call EXCEPT ![p] = "waiting"] /\ UNCHANGED port

(* The thread that waits for Enter is joined and the pipe is removed; only *)
(* then it is looked at whether the user has cancelled.                    *)
EndOfCall(p) ==
    /\ call[p] = "agreed"
    /\ pipe' = [pipe EXCEPT ![p] = NoPipe]
    /\ call' = [call EXCEPT ![p] = IF cancelled[p] THEN "none" ELSE "connected"]
    /\ UsedPorts' = IF cancelled[p] THEN UsedPorts ELSE [UsedPorts EXCEPT ![p] = @ \cup {port[p]}]
    /\ UNCHANGED <<calls, message, cancelled, port, queue, sender, sent>>
-----------------------------------------------------------------------------
(* The main socket's threads.  The sender waits before it looks.           *)
SenderWaits(p) ==
    /\ sender[p] = "busy" /\ sender' = [sender EXCEPT ![p] = "waiting"]
    /\ UNCHANGED <<call, calls, message, pipe, cancelled, port, UsedPorts, queue, sent>>
SenderSends(p) ==
    /\ sender[p] = "woken" /\ queue[p] # <<>>
    /\ sent' = sent \cup {<<Other(p), Head(queue[p])>>}
    /\ queue' = [queue EXCEPT ![p] = Tail(@)]
    /\ sender' = [sender EXCEPT ![p] = "busy"]
    /\ UNCHANGED <<call, calls, message, pipe, cancelled, port, UsedPorts>>

(* A datagram comes, again perhaps; without a pipe it is dropped.          *)
MainSocket_Listener(p) ==
    /\ pipe[p].there
    /\ \E d \in sent : /\ d[1] = p
                       /\ pipe' = [pipe EXCEPT ![p] = [@ EXCEPT !.last = d[2], !.added = TRUE]]
    /\ UNCHANGED <<call, calls, message, cancelled, port, UsedPorts, queue, sender, sent>>

ConnectStep(p) ==
    \/ CreateConnection(p) \/ ListenOnInitiationUserInput(p) \/ Resend(p) \/ WaitEnds(p)
    \/ HandleFirstMessage(p) \/ HandleAcceptPort(p) \/ HandleRefusedPort(p) \/ EndOfCall(p)
    \/ SenderWaits(p) \/ SenderSends(p) \/ MainSocket_Listener(p)
ConnectNext == \E p \in Callers : ConnectStep(p)
-----------------------------------------------------------------------------
(* "The two sides have come to terms about a port" (1486): two chats that  *)
(* have both connected have done so on one port, although each answers     *)
(* the other's suggestions before it knows what became of its own. It      *)
(* holds as long as one side's ports in use are all in use on the other    *)
(* and each enters /startcon once. With the first port in use on one side  *)
(* only and the next one only on the other, the suggestions cross and      *)
(* both connect, on different ports; and what is on its way from a call    *)
(* that was cancelled answers the next one.                                *)
AgreeOnPort ==
    (\A p \in Callers : call[p] = "connected") => \A p, q \in Callers : port[p] = port[q]
=============================================================================
