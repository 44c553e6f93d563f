------------------------------ MODULE TaskPool ------------------------------
(***************************************************************************)
(* What a thread pool promises to its clients: a submitted task is         *)
(* executed exactly once, and a client that waits for the pool gets its    *)
(* answer only at a moment when no submitted task is outstanding.          *)
(*                                                                         *)
(* ThreadPool implements this in the two ways the programs of the          *)
(* repository use it: all tasks from outside submitted before Start, later *)
(* ones only by running tasks.                                             *)
(***************************************************************************)
EXTENDS Naturals

CONSTANTS Tasks, Clients

VARIABLES status,   \* status[x]: "new", "pending" or "done"
          answers   \* answers[c]: how many waits of client c have returned

vars == <<status, answers>>

Init == /\ status = [x \in Tasks |-> "new"]
        /\ answers = [c \in Clients |-> 0]

Submit(x) == /\ status[x] = "new"
             /\ status' = [status EXCEPT ![x] = "pending"]
             /\ UNCHANGED answers

Execute(x) == /\ status[x] = "pending"
              /\ status' = [status EXCEPT ![x] = "done"]
              /\ UNCHANGED answers

Answer(c) == /\ \A x \in Tasks : status[x] # "pending"
             /\ answers' = [answers EXCEPT ![c] = @ + 1]
             /\ UNCHANGED status

Next == \/ \E x \in Tasks : Submit(x) \/ Execute(x)
        \/ \E c \in Clients : Answer(c)

(* A submitted task is not forgotten. *)
Spec == /\ Init /\ [][Next]_vars
        /\ \A x \in Tasks : WF_vars(Execute(x))

=============================================================================
