-------------------------- MODULE CrawlCoordinator --------------------------
(***************************************************************************)
(* The crawler (Crawler/MBCrawler.cpp): WebsiteCrawlerCoordinator, the     *)
(* thread that calls StartIndexing, and the tasks IndexWebsiteResource     *)
(* that run on its thread pool.                                            *)
(*                                                                         *)
(* The pool is taken at its word, as TaskPool states it: it executes every *)
(* task that was added exactly once, on one of its threads, and the loop   *)
(* of StartIndexing and WaitForThreadsToFinish end only when none is left. *)
(* A task is known by its resource, and a page by the set of resources of  *)
(* the site that it links to, each made absolute.                          *)
(*                                                                         *)
(* An operator whose name ends in an underscore and a word is the one      *)
(* after it with a plausible mistake; it shows what a property notices.    *)
(***************************************************************************)
EXTENDS Naturals, FiniteSets

CONSTANTS Workers,     \* the threads of the pool
          Resources,   \* the resources of the site
          First,       \* the resource StartIndexing is given
          Links        \* Links[r]: the resources that r links to

ASSUME SiteAssumption == /\ First \in Resources
                         /\ Links \in [Resources -> SUBSET Resources]

VARIABLES
    main,              \* where StartIndexing is
    pending,           \* pending[r]: tasks for r that no thread has taken
    indexed, queued, failed,   \* m_IndexedResources and its two siblings
    pc, task, todo, link,      \* of each thread: its place, its resource, the
                               \* links it has still to look at, and the one
                               \* it is looking at
    dropped            \* history: resources given up without a record

maps == <<indexed, queued, failed>>
threads == <<pc, task, todo, link>>
vars == <<main, pending, maps, threads, dropped>>

Init == /\ main = "add"
        /\ pending = [r \in Resources |-> 0]
        /\ indexed = {} /\ queued = {} /\ failed = {}
        /\ pc = [w \in Workers |-> "free"]
        /\ task = [w \in Workers |-> First]
        /\ todo = [w \in Workers |-> {}]
        /\ link = [w \in Workers |-> First]
        /\ dropped = {}

Goto(w, here, there) == pc[w] = here /\ pc' = [pc EXCEPT ![w] = there]

-----------------------------------------------------------------------------
(* StartIndexing.                                                          *)

(* The first resource is queued and the pool's threads start. *)
Begin == /\ main = "add"
         /\ main' = "polling"
         /\ pending' = [pending EXCEPT ![First] = 1]
         /\ queued' = {First}
         /\ UNCHANGED <<indexed, failed, threads, dropped>>

(* Every tenth of a second one waiting thread is let go on. *)
Notify_WhileQueued ==
    /\ main = "polling" /\ \E r \in Resources : pending[r] > 0
    /\ \E w \in Workers : Goto(w, "waiting", "fetch")
    /\ UNCHANGED <<main, pending, maps, task, todo, link, dropped>>
Notify == /\ main = "polling"
          /\ \E w \in Workers : Goto(w, "waiting", "fetch")
          /\ UNCHANGED <<main, pending, maps, task, todo, link, dropped>>

PoolIsIdle_NoneQueued == \A r \in Resources : pending[r] = 0
PoolIsIdle == /\ \A r \in Resources : pending[r] = 0
              /\ \A w \in Workers : pc[w] = "free"

Finish == /\ main = "polling" /\ PoolIsIdle
          /\ main' = "returned"
          /\ UNCHANGED <<pending, maps, threads, dropped>>

-----------------------------------------------------------------------------
(* IndexWebsiteResource, on one of the pool's threads.                     *)

(* The pool gives a task to a thread, once Start has been called. *)
Take_Twice(w) ==
    /\ Goto(w, "free", "clock")
    /\ \E r \in Resources :
          /\ pending[r] > 0
          /\ pending' = [pending EXCEPT ![r] = @ - 2]
          /\ task' = [task EXCEPT ![w] = r]
    /\ UNCHANGED <<main, maps, todo, link, dropped>>
Take(w) == /\ Goto(w, "free", "clock")
           /\ \E r \in Resources :
                 /\ pending[r] > 0
                 /\ pending' = [pending EXCEPT ![r] = @ - 1]
                 /\ task' = [task EXCEPT ![w] = r]
           /\ UNCHANGED <<main, maps, todo, link, dropped>>

(* WaitForNextRequest, whose condition has no predicate: a notification    *)
(* before the wait is lost, and the wait may end unasked.                  *)
WaitForNextRequest(w) ==
    /\ Goto(w, "clock", "waiting")
    /\ UNCHANGED <<main, pending, maps, task, todo, link, dropped>>

SpuriousWakeup(w) ==
    /\ Goto(w, "waiting", "fetch")
    /\ UNCHANGED <<main, pending, maps, task, todo, link, dropped>>

(* No connection: the task returns, and nothing records it. *)
FetchInvalid(w) ==
    /\ Goto(w, "fetch", "free")
    /\ dropped' = dropped \cup {task[w]}
    /\ UNCHANGED <<main, pending, maps, task, todo, link>>

(* An exception, while fetching or while saving. *)
Fails(w) ==
    /\ \/ Goto(w, "fetch", "free")
       \/ Goto(w, "saving", "free")
    /\ failed' = failed \cup {task[w]}
    /\ UNCHANGED <<main, pending, indexed, queued, task, todo, link, dropped>>

(* A response: the resource is indexed, and its links are read. *)
Fetch(w) ==
    /\ Goto(w, "fetch", "links")
    /\ indexed' = indexed \cup {task[w]}
    /\ todo' = [todo EXCEPT ![w] = Links[task[w]]]
    /\ UNCHANGED <<main, pending, queued, failed, task, link, dropped>>

(* AddResourceToIndex looks the link up in one map under the mutex ...     *)
IsIndexed(w) ==
    /\ pc[w] = "links"
    /\ \E x \in todo[w] :
          /\ todo' = [todo EXCEPT ![w] = @ \ {x}]
          /\ link' = [link EXCEPT ![w] = x]
          /\ pc' = [pc EXCEPT ![w] = IF x \in indexed THEN "links"
                                     ELSE "isQueued"]
    /\ UNCHANGED <<main, pending, maps, task, dropped>>

(* ... then in another under the mutex again, which is no protection from   *)
(* MarkQueued: while that writes, an entry may not be found ...            *)
WritesToo(w) == \E v \in Workers \ {w} : pc[v] = "mark"
IsQueued(w) ==
    /\ \/ link[w] \in queued /\ Goto(w, "isQueued", "links")
       \/ /\ link[w] \notin queued \/ WritesToo(w)
          /\ Goto(w, "isQueued", "addTask")
    /\ UNCHANGED <<main, pending, maps, task, todo, link, dropped>>

(* ... gives the pool the task ...                                         *)
AddTask_WhenFree(w) ==
    /\ Goto(w, "addTask", "mark")
    /\ IF \E v \in Workers : pc[v] = "free"
       THEN pending' = [pending EXCEPT ![link[w]] = @ + 1]
       ELSE UNCHANGED pending
    /\ UNCHANGED <<main, maps, task, todo, link, dropped>>
AddTask(w) ==
    /\ Goto(w, "addTask", "mark")
    /\ pending' = [pending EXCEPT ![link[w]] = @ + 1]
    /\ UNCHANGED <<main, maps, task, todo, link, dropped>>

(* ... and writes to the map without the mutex: two writes at a time may   *)
(* lose entries.                                                           *)
MarkQueued(w) ==
    /\ Goto(w, "mark", "links")
    /\ \/ queued' = queued \cup {link[w]}
       \/ WritesToo(w) /\ queued' \in SUBSET (queued \cup {link[w]})
    /\ UNCHANGED <<main, pending, indexed, failed, task, todo, link, dropped>>

(* The file is opened, and what it held is gone. *)
OpenFile(w) ==
    /\ todo[w] = {}
    /\ Goto(w, "links", "saving")
    /\ UNCHANGED <<main, pending, maps, task, todo, link, dropped>>

Saved(w) ==
    /\ Goto(w, "saving", "free")
    /\ UNCHANGED <<main, pending, maps, task, todo, link, dropped>>

(* Two threads in one hash table at a time, one of them writing to it.     *)
CorruptMap(w) ==
    /\ pc[w] = "mark"
    /\ \E v \in Workers \ {w} : pc[v] \in {"isQueued", "mark"}
    /\ main' = "crashed"
    /\ UNCHANGED <<pending, maps, threads, dropped>>

TaskStep(w) ==
    \/ Take(w) \/ WaitForNextRequest(w)
    \/ FetchInvalid(w) \/ Fails(w) \/ Fetch(w)
    \/ IsIndexed(w) \/ IsQueued(w) \/ AddTask(w) \/ MarkQueued(w)
    \/ OpenFile(w) \/ Saved(w)
ThreadStep(w) == /\ main = "polling"
                 /\ TaskStep(w) \/ SpuriousWakeup(w) \/ CorruptMap(w)

Over == main \in {"returned", "crashed"} /\ UNCHANGED vars

Next == \/ Begin \/ Notify \/ Finish \/ Over
        \/ \E w \in Workers : ThreadStep(w)

Spec == Init /\ [][Next]_vars

(* Threads run, and StartIndexing goes on notifying until its loop ends. *)
FairSpec == /\ Spec
            /\ WF_vars(Begin) /\ WF_vars(Notify) /\ WF_vars(Finish)
            /\ \A w \in Workers : WF_vars(main = "polling" /\ TaskStep(w))

-----------------------------------------------------------------------------
(* Properties.                                                             *)

Pcs == {"free", "clock", "waiting", "fetch", "links", "isQueued", "addTask",
        "mark", "saving"}

(* Every variable holds a value of its type. *)
TypeOK ==
    /\ main \in {"add", "polling", "returned", "crashed"}
    /\ pending \in [Resources -> Nat]
    /\ indexed \subseteq Resources /\ queued \subseteq Resources
    /\ failed \subseteq Resources /\ dropped \subseteq Resources
    /\ pc \in [Workers -> Pcs]
    /\ task \in [Workers -> Resources]
    /\ todo \in [Workers -> SUBSET Resources]
    /\ link \in [Workers -> Resources]

(* What has become of a resource: it is indexed, it has failed, or a task  *)
(* for it waits or runs.                                                   *)
Settled == indexed \cup failed \cup dropped
Running(w, r) == pc[w] # "free" /\ task[w] = r
Known(r) == \/ r \in Settled
            \/ pending[r] > 0
            \/ \E w \in Workers : Running(w, r)

(* A thread that has a link still to look at, or is about to add it.       *)
Handles(w, r, x) ==
    /\ task[w] = r
    /\ \/ pc[w] \in {"links", "isQueued", "addTask", "mark"} /\ x \in todo[w]
       \/ pc[w] \in {"isQueued", "addTask"} /\ link[w] = x

(* No link of an indexed resource is forgotten, although the two maps and  *)
(* the pool are looked at one after the other, and each thread may find    *)
(* its link in a map only because of another's half-done addition.         *)
NoLinkForgotten ==
    \A r \in indexed : \A x \in Links[r] :
        Known(x) \/ \E w \in Workers : Handles(w, r, x)

(* When StartIndexing returns, every resource that can be reached through  *)
(* indexed ones has been indexed, or has failed.                           *)
CrawlIsComplete ==
    main = "returned" => /\ First \in Settled
                         /\ \A r \in indexed : Links[r] \subseteq Settled

(* StartIndexing returns: no task waits for a notification for ever, and   *)
(* the threads do not keep each other supplied with tasks.                 *)
Termination == <>(main \in {"returned", "crashed"})
=============================================================================
