---------------------------- MODULE MCThreadPool ----------------------------
(***************************************************************************)
(* Instances of ThreadPool for TLC: the programs are those of the pool's   *)
(* users, and of a client that adds tasks while another stops the pool.    *)
(***************************************************************************)
EXTENDS ThreadPool

CONSTANTS main, helper, t1, t2, t3, t4

AddCall(x) == [op |-> "AddTask", task |-> x]
Call(name) == [op |-> name]

NoChildren == [x \in Tasks |-> <<>>]

(* WebsiteCrawlerCoordinator: one task, which adds others as it runs; a    *)
(* second Start, as the search engine's pool gets, finds the threads.      *)
CrawlProgram == [c \in Clients |->
    <<AddCall(t1), Call("Start"), Call("Start"), Call("Drain"), Call("Wait"),
      Call("Stop")>>]
CrawlChildren == [x \in Tasks |->
    IF x = t1 THEN <<t2, t3>> ELSE IF x = t2 THEN <<t4>> ELSE <<>>]

(* A second client adds tasks while the owner starts and stops the pool.   *)
ShutdownProgram == [c \in Clients |->
    IF c = main THEN <<Call("Start"), AddCall(t1), Call("Stop")>>
                ELSE <<AddCall(t2), AddCall(t3)>>]
ShutdownChildren == [x \in Tasks |-> IF x = t1 THEN <<t4>> ELSE <<>>]

(* A client that adds to the pool it has started, and waits.               *)
LateProgram == [c \in Clients |->
    <<Call("Start"), AddCall(t1), Call("Wait"), Call("Stop")>>]

(* The crawler keeps to the order the promise is made for. *)
ASSUME CrawlKeepsTheOrder == Program = CrawlProgram => SubmitsBeforeStart
=============================================================================
