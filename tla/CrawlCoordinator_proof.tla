----------------------- MODULE CrawlCoordinator_proof -----------------------
(***************************************************************************)
(* Proofs about CrawlCoordinator, for any site and any number of threads:  *)
(* no link is forgotten, and a crawl that returns is complete.             *)
(***************************************************************************)
EXTENDS CrawlCoordinator, TLAPS

(* Where a thread has a response, and so has indexed its resource. *)
HasResponse == {"links", "isQueued", "addTask", "mark", "saving"}

(* What the code relies on: a thread with a response has indexed its        *)
(* resource; what is queued, and what a thread is about to mark as queued, *)
(* is known already, since the task was added first; the first resource is *)
(* known once added; and nothing runs when StartIndexing has returned.      *)
QueuedIsKnown == /\ \A x \in queued : Known(x)
                 /\ \A w \in Workers : pc[w] = "mark" => Known(link[w])
ResponseIsIndexed ==
    \A w \in Workers : pc[w] \in HasResponse => task[w] \in indexed
IInv == /\ TypeOK
        /\ QueuedIsKnown
        /\ ResponseIsIndexed
        /\ main # "add" => Known(First)
        /\ main = "returned" => PoolIsIdle
        /\ NoLinkForgotten

-----------------------------------------------------------------------------

(* The steps one by one: what every proof below splits on. *)
LEMMA StepCases ==
    ASSUME [Next]_vars
    PROVE  \/ UNCHANGED vars
           \/ Begin \/ Notify \/ Finish
           \/ \E w \in Workers : main = "polling" /\
                 \/ Take(w) \/ WaitForNextRequest(w) \/ SpuriousWakeup(w)
                 \/ FetchInvalid(w) \/ Fails(w) \/ Fetch(w)
                 \/ IsIndexed(w) \/ IsQueued(w) \/ AddTask(w)
                 \/ MarkQueued(w) \/ OpenFile(w) \/ Saved(w) \/ CorruptMap(w)
BY DEF Next, Over, ThreadStep, TaskStep

(* A step keeps every variable in its type. *)
LEMMA Typing == ASSUME TypeOK, [Next]_vars PROVE TypeOK'
<1> USE SiteAssumption DEF TypeOK, Pcs, Goto, maps, threads
<1>1. CASE UNCHANGED vars BY <1>1 DEF vars
<1>2. CASE Begin BY <1>2 DEF Begin
<1>3. CASE Notify BY <1>3 DEF Notify
<1>4. CASE Finish BY <1>4 DEF Finish
<1>5. ASSUME NEW w \in Workers, Take(w) PROVE TypeOK' BY <1>5 DEF Take
<1>6. ASSUME NEW w \in Workers, WaitForNextRequest(w) PROVE TypeOK'
  BY <1>6 DEF WaitForNextRequest
<1>7. ASSUME NEW w \in Workers, SpuriousWakeup(w) PROVE TypeOK'
  BY <1>7 DEF SpuriousWakeup
<1>8. ASSUME NEW w \in Workers, FetchInvalid(w) PROVE TypeOK'
  BY <1>8 DEF FetchInvalid
<1>9. ASSUME NEW w \in Workers, Fails(w) PROVE TypeOK' BY <1>9 DEF Fails
<1>10. ASSUME NEW w \in Workers, Fetch(w) PROVE TypeOK' BY <1>10 DEF Fetch
<1>11. ASSUME NEW w \in Workers, IsIndexed(w) PROVE TypeOK'
  BY <1>11 DEF IsIndexed
<1>12. ASSUME NEW w \in Workers, IsQueued(w) PROVE TypeOK'
  BY <1>12 DEF IsQueued
<1>13. ASSUME NEW w \in Workers, AddTask(w) PROVE TypeOK'
  BY <1>13 DEF AddTask
<1>14. ASSUME NEW w \in Workers, MarkQueued(w) PROVE TypeOK'
  BY <1>14 DEF MarkQueued
<1>15. ASSUME NEW w \in Workers, OpenFile(w) PROVE TypeOK'
  BY <1>15 DEF OpenFile
<1>16. ASSUME NEW w \in Workers, Saved(w) PROVE TypeOK' BY <1>16 DEF Saved
<1>17. ASSUME NEW w \in Workers, CorruptMap(w) PROVE TypeOK'
  BY <1>17 DEF CorruptMap
<1> QED BY <1>1, <1>2, <1>3, <1>4, <1>5, <1>6, <1>7, <1>8, <1>9, <1>10,
           <1>11, <1>12, <1>13, <1>14, <1>15, <1>16, <1>17, StepCases

(* A resource that is known stays known: a task that is added waits, the   *)
(* one that waits runs, and the one that runs leaves a record.             *)
LEMMA KnownStays ==
    ASSUME TypeOK, ResponseIsIndexed, [Next]_vars,
           NEW r \in Resources, Known(r)
    PROVE  Known(r)'
<1> USE SiteAssumption
    DEF TypeOK, Pcs, Goto, maps, threads, Known, Settled, Running
<1>1. CASE UNCHANGED vars BY <1>1 DEF vars
<1>2. CASE Begin BY <1>2 DEF Begin
<1>3. CASE Notify BY <1>3 DEF Notify
<1>4. CASE Finish BY <1>4 DEF Finish
<1>5. ASSUME NEW w \in Workers, Take(w) PROVE Known(r)' BY <1>5 DEF Take
<1>6. ASSUME NEW w \in Workers, WaitForNextRequest(w) PROVE Known(r)'
  BY <1>6 DEF WaitForNextRequest
<1>7. ASSUME NEW w \in Workers, SpuriousWakeup(w) PROVE Known(r)'
  BY <1>7 DEF SpuriousWakeup
<1>8. ASSUME NEW w \in Workers, FetchInvalid(w) PROVE Known(r)'
  BY <1>8 DEF FetchInvalid
<1>9. ASSUME NEW w \in Workers, Fails(w) PROVE Known(r)' BY <1>9 DEF Fails
<1>10. ASSUME NEW w \in Workers, Fetch(w) PROVE Known(r)' BY <1>10 DEF Fetch
<1>11. ASSUME NEW w \in Workers, IsIndexed(w) PROVE Known(r)'
  BY <1>11 DEF IsIndexed
<1>12. ASSUME NEW w \in Workers, IsQueued(w) PROVE Known(r)'
  BY <1>12 DEF IsQueued
<1>13. ASSUME NEW w \in Workers, AddTask(w) PROVE Known(r)'
  BY <1>13 DEF AddTask
<1>14. ASSUME NEW w \in Workers, MarkQueued(w) PROVE Known(r)'
  BY <1>14 DEF MarkQueued
<1>15. ASSUME NEW w \in Workers, OpenFile(w) PROVE Known(r)'
  BY <1>15 DEF OpenFile
<1>16. ASSUME NEW w \in Workers, Saved(w) PROVE Known(r)'
  BY <1>16 DEF Saved, ResponseIsIndexed, HasResponse
<1>17. ASSUME NEW w \in Workers, CorruptMap(w) PROVE Known(r)'
  BY <1>17 DEF CorruptMap
<1> QED BY <1>1, <1>2, <1>3, <1>4, <1>5, <1>6, <1>7, <1>8, <1>9, <1>10,
           <1>11, <1>12, <1>13, <1>14, <1>15, <1>16, <1>17, StepCases

(* What a step writes to the map of queued resources is known already.     *)
LEMMA QueuedGrows ==
    ASSUME TypeOK, [Next]_vars, NEW x \in queued'
    PROVE  \/ x \in queued
           \/ x = First /\ pending'[First] > 0
           \/ \E v \in Workers : pc[v] = "mark" /\ x = link[v]
<1> USE SiteAssumption DEF TypeOK, Goto, maps, threads
<1> DEFINE Goal == \/ x \in queued
                   \/ x = First /\ pending'[First] > 0
                   \/ \E v \in Workers : pc[v] = "mark" /\ x = link[v]
<1>1. CASE UNCHANGED vars BY <1>1 DEF vars
<1>2. CASE Begin BY <1>2 DEF Begin
<1>3. CASE Notify BY <1>3 DEF Notify
<1>4. CASE Finish BY <1>4 DEF Finish
<1>5. ASSUME NEW w \in Workers, Take(w) PROVE Goal
  BY <1>5 DEF Take
<1>6. ASSUME NEW w \in Workers, WaitForNextRequest(w) PROVE Goal
  BY <1>6 DEF WaitForNextRequest
<1>7. ASSUME NEW w \in Workers, SpuriousWakeup(w) PROVE Goal
  BY <1>7 DEF SpuriousWakeup
<1>8. ASSUME NEW w \in Workers, FetchInvalid(w) PROVE Goal
  BY <1>8 DEF FetchInvalid
<1>9. ASSUME NEW w \in Workers, Fails(w) PROVE Goal
  BY <1>9 DEF Fails
<1>10. ASSUME NEW w \in Workers, Fetch(w) PROVE Goal
  BY <1>10 DEF Fetch
<1>11. ASSUME NEW w \in Workers, IsIndexed(w) PROVE Goal
  BY <1>11 DEF IsIndexed
<1>12. ASSUME NEW w \in Workers, IsQueued(w) PROVE Goal
  BY <1>12 DEF IsQueued
<1>13. ASSUME NEW w \in Workers, AddTask(w) PROVE Goal
  BY <1>13 DEF AddTask
<1>14. ASSUME NEW w \in Workers, MarkQueued(w) PROVE Goal
  BY <1>14 DEF MarkQueued
<1>15. ASSUME NEW w \in Workers, OpenFile(w) PROVE Goal
  BY <1>15 DEF OpenFile
<1>16. ASSUME NEW w \in Workers, Saved(w) PROVE Goal
  BY <1>16 DEF Saved
<1>17. ASSUME NEW w \in Workers, CorruptMap(w) PROVE Goal
  BY <1>17 DEF CorruptMap
<1> QED BY <1>1, <1>2, <1>3, <1>4, <1>5, <1>6, <1>7, <1>8, <1>9, <1>10,
           <1>11, <1>12, <1>13, <1>14, <1>15, <1>16, <1>17, StepCases

(* A thread that is about to mark a link has added the task for it.        *)
LEMMA MarkFollowsAdd ==
    ASSUME TypeOK, [Next]_vars, NEW v \in Workers, pc'[v] = "mark"
    PROVE  \/ pc[v] = "mark" /\ link'[v] = link[v]
           \/ pending'[link'[v]] > 0
<1> USE SiteAssumption DEF TypeOK, Pcs, Goto, maps, threads
<1> DEFINE Goal == \/ pc[v] = "mark" /\ link'[v] = link[v]
                   \/ pending'[link'[v]] > 0
<1>1. CASE UNCHANGED vars BY <1>1 DEF vars
<1>2. CASE Begin BY <1>2 DEF Begin
<1>3. CASE Notify BY <1>3 DEF Notify
<1>4. CASE Finish BY <1>4 DEF Finish
<1>5. ASSUME NEW w \in Workers, Take(w) PROVE Goal
  BY <1>5 DEF Take
<1>6. ASSUME NEW w \in Workers, WaitForNextRequest(w) PROVE Goal
  BY <1>6 DEF WaitForNextRequest
<1>7. ASSUME NEW w \in Workers, SpuriousWakeup(w) PROVE Goal
  BY <1>7 DEF SpuriousWakeup
<1>8. ASSUME NEW w \in Workers, FetchInvalid(w) PROVE Goal
  BY <1>8 DEF FetchInvalid
<1>9. ASSUME NEW w \in Workers, Fails(w) PROVE Goal
  BY <1>9 DEF Fails
<1>10. ASSUME NEW w \in Workers, Fetch(w) PROVE Goal
  BY <1>10 DEF Fetch
<1>11. ASSUME NEW w \in Workers, IsIndexed(w) PROVE Goal
  BY <1>11 DEF IsIndexed
<1>12. ASSUME NEW w \in Workers, IsQueued(w) PROVE Goal
  BY <1>12 DEF IsQueued
<1>13. ASSUME NEW w \in Workers, AddTask(w) PROVE Goal
  BY <1>13 DEF AddTask
<1>14. ASSUME NEW w \in Workers, MarkQueued(w) PROVE Goal
  BY <1>14 DEF MarkQueued
<1>15. ASSUME NEW w \in Workers, OpenFile(w) PROVE Goal
  BY <1>15 DEF OpenFile
<1>16. ASSUME NEW w \in Workers, Saved(w) PROVE Goal
  BY <1>16 DEF Saved
<1>17. ASSUME NEW w \in Workers, CorruptMap(w) PROVE Goal
  BY <1>17 DEF CorruptMap
<1> QED BY <1>1, <1>2, <1>3, <1>4, <1>5, <1>6, <1>7, <1>8, <1>9, <1>10,
           <1>11, <1>12, <1>13, <1>14, <1>15, <1>16, <1>17, StepCases

(* A thread writes to the map of queued resources only after it has added   *)
(* the task, and a write that is lost takes nothing out of it.             *)
LEMMA QueuedStaysKnown == ASSUME IInv, [Next]_vars PROVE QueuedIsKnown'
<1>1. TypeOK /\ QueuedIsKnown /\ ResponseIsIndexed BY DEF IInv
<1>2. TypeOK' BY <1>1, Typing
<1>3. \A r \in Resources : Known(r) => Known(r)' BY <1>1, KnownStays
<1>4. ASSUME NEW x \in queued' PROVE Known(x)'
  <2>1. CASE x \in queued BY <2>1, <1>1, <1>3 DEF QueuedIsKnown, TypeOK
  <2>2. CASE x = First /\ pending'[First] > 0 BY <2>2 DEF Known
  <2>3. ASSUME NEW v \in Workers, pc[v] = "mark", x = link[v] PROVE Known(x)'
    <3>1. Known(link[v]) BY <2>3, <1>1 DEF QueuedIsKnown
    <3>2. x \in Resources /\ Known(x) BY <3>1, <2>3, <1>1 DEF TypeOK
    <3> QED BY <3>2, <1>3
  <2> QED BY <2>1, <2>2, <2>3, <1>1, QueuedGrows
<1>5. ASSUME NEW v \in Workers, pc'[v] = "mark" PROVE Known(link[v])'
  <2>1. CASE pc[v] = "mark" /\ link'[v] = link[v]
    <3>1. PICK x \in Resources : x = link[v] BY <1>1 DEF TypeOK
    <3>2. Known(x) BY <3>1, <2>1, <1>1 DEF QueuedIsKnown
    <3>3. Known(x)' BY <3>2, <1>3
    <3> QED BY <3>1, <3>3, <2>1 DEF Known, Settled, Running
  <2>2. CASE pending'[link'[v]] > 0 BY <2>2 DEF Known
  <2> QED BY <2>1, <2>2, <1>1, <1>5, MarkFollowsAdd
<1> QED BY <1>4, <1>5 DEF QueuedIsKnown

(* A thread keeps its task while it has a response, and the record of it.  *)
LEMMA ResponseStaysIndexed ==
    ASSUME TypeOK, ResponseIsIndexed, [Next]_vars PROVE ResponseIsIndexed'
<1> SUFFICES ASSUME NEW v \in Workers, pc'[v] \in HasResponse
             PROVE  task'[v] \in indexed'
  BY DEF ResponseIsIndexed
<1> USE SiteAssumption
    DEF TypeOK, Pcs, Goto, maps, threads, HasResponse, ResponseIsIndexed
<1>1. CASE UNCHANGED vars BY <1>1 DEF vars
<1>2. CASE Begin BY <1>2 DEF Begin
<1>3. CASE Notify BY <1>3 DEF Notify
<1>4. CASE Finish BY <1>4 DEF Finish
<1>5. ASSUME NEW w \in Workers, Take(w) PROVE task'[v] \in indexed'
  BY <1>5 DEF Take
<1>6. ASSUME NEW w \in Workers, WaitForNextRequest(w) PROVE task'[v] \in indexed'
  BY <1>6 DEF WaitForNextRequest
<1>7. ASSUME NEW w \in Workers, SpuriousWakeup(w) PROVE task'[v] \in indexed'
  BY <1>7 DEF SpuriousWakeup
<1>8. ASSUME NEW w \in Workers, FetchInvalid(w) PROVE task'[v] \in indexed'
  BY <1>8 DEF FetchInvalid
<1>9. ASSUME NEW w \in Workers, Fails(w) PROVE task'[v] \in indexed'
  BY <1>9 DEF Fails
<1>10. ASSUME NEW w \in Workers, Fetch(w) PROVE task'[v] \in indexed'
  BY <1>10 DEF Fetch
<1>11. ASSUME NEW w \in Workers, IsIndexed(w) PROVE task'[v] \in indexed'
  BY <1>11 DEF IsIndexed
<1>12. ASSUME NEW w \in Workers, IsQueued(w) PROVE task'[v] \in indexed'
  BY <1>12 DEF IsQueued
<1>13. ASSUME NEW w \in Workers, AddTask(w) PROVE task'[v] \in indexed'
  BY <1>13 DEF AddTask
<1>14. ASSUME NEW w \in Workers, MarkQueued(w) PROVE task'[v] \in indexed'
  BY <1>14 DEF MarkQueued
<1>15. ASSUME NEW w \in Workers, OpenFile(w) PROVE task'[v] \in indexed'
  BY <1>15 DEF OpenFile
<1>16. ASSUME NEW w \in Workers, Saved(w) PROVE task'[v] \in indexed'
  BY <1>16 DEF Saved
<1>17. ASSUME NEW w \in Workers, CorruptMap(w) PROVE task'[v] \in indexed'
  BY <1>17 DEF CorruptMap
<1> QED BY <1>1, <1>2, <1>3, <1>4, <1>5, <1>6, <1>7, <1>8, <1>9, <1>10,
           <1>11, <1>12, <1>13, <1>14, <1>15, <1>16, <1>17, StepCases

(* A link that a thread has still to look at is kept, or found in a map, or *)
(* given to the pool.                                                      *)
LEMMA LinkIsKept ==
    ASSUME TypeOK, [Next]_vars,
           NEW r \in Resources, NEW x \in Resources,
           NEW v \in Workers, Handles(v, r, x)
    PROVE  \/ Handles(v, r, x)'
           \/ x \in indexed \cup queued
           \/ pending'[x] > 0
<1> USE SiteAssumption DEF TypeOK, Pcs, Goto, maps, threads, Handles
<1> DEFINE Goal == \/ Handles(v, r, x)'
                   \/ x \in indexed \cup queued
                   \/ pending'[x] > 0
<1>1. CASE UNCHANGED vars BY <1>1 DEF vars
<1>2. CASE Begin BY <1>2 DEF Begin
<1>3. CASE Notify BY <1>3 DEF Notify
<1>4. CASE Finish BY <1>4 DEF Finish
<1>5. ASSUME NEW w \in Workers, Take(w) PROVE Goal
  BY <1>5 DEF Take
<1>6. ASSUME NEW w \in Workers, WaitForNextRequest(w) PROVE Goal
  BY <1>6 DEF WaitForNextRequest
<1>7. ASSUME NEW w \in Workers, SpuriousWakeup(w) PROVE Goal
  BY <1>7 DEF SpuriousWakeup
<1>8. ASSUME NEW w \in Workers, FetchInvalid(w) PROVE Goal
  BY <1>8 DEF FetchInvalid
<1>9. ASSUME NEW w \in Workers, Fails(w) PROVE Goal
  BY <1>9 DEF Fails
<1>10. ASSUME NEW w \in Workers, Fetch(w) PROVE Goal
  BY <1>10 DEF Fetch
<1>11. ASSUME NEW w \in Workers, IsIndexed(w) PROVE Goal
  BY <1>11 DEF IsIndexed
<1>12. ASSUME NEW w \in Workers, IsQueued(w) PROVE Goal
  BY <1>12 DEF IsQueued
<1>13. ASSUME NEW w \in Workers, AddTask(w) PROVE Goal
  BY <1>13 DEF AddTask
<1>14. ASSUME NEW w \in Workers, MarkQueued(w) PROVE Goal
  BY <1>14 DEF MarkQueued
<1>15. ASSUME NEW w \in Workers, OpenFile(w) PROVE Goal
  BY <1>15 DEF OpenFile
<1>16. ASSUME NEW w \in Workers, Saved(w) PROVE Goal
  BY <1>16 DEF Saved
<1>17. ASSUME NEW w \in Workers, CorruptMap(w) PROVE Goal
  BY <1>17 DEF CorruptMap
<1> QED BY <1>1, <1>2, <1>3, <1>4, <1>5, <1>6, <1>7, <1>8, <1>9, <1>10,
           <1>11, <1>12, <1>13, <1>14, <1>15, <1>16, <1>17, StepCases

(* Who records a resource as indexed has all of its links to look at.      *)
LEMMA LinksAreRead ==
    ASSUME TypeOK, [Next]_vars,
           NEW r \in indexed', r \notin indexed, NEW x \in Links[r]
    PROVE  \E v \in Workers : Handles(v, r, x)'
<1> USE SiteAssumption DEF TypeOK, Pcs, Goto, maps, threads, Handles
<1> DEFINE Goal == \E v \in Workers : Handles(v, r, x)'
<1>1. CASE UNCHANGED vars BY <1>1 DEF vars
<1>2. CASE Begin BY <1>2 DEF Begin
<1>3. CASE Notify BY <1>3 DEF Notify
<1>4. CASE Finish BY <1>4 DEF Finish
<1>5. ASSUME NEW w \in Workers, Take(w) PROVE Goal
  BY <1>5 DEF Take
<1>6. ASSUME NEW w \in Workers, WaitForNextRequest(w) PROVE Goal
  BY <1>6 DEF WaitForNextRequest
<1>7. ASSUME NEW w \in Workers, SpuriousWakeup(w) PROVE Goal
  BY <1>7 DEF SpuriousWakeup
<1>8. ASSUME NEW w \in Workers, FetchInvalid(w) PROVE Goal
  BY <1>8 DEF FetchInvalid
<1>9. ASSUME NEW w \in Workers, Fails(w) PROVE Goal
  BY <1>9 DEF Fails
<1>10. ASSUME NEW w \in Workers, Fetch(w) PROVE Goal
  BY <1>10 DEF Fetch
<1>11. ASSUME NEW w \in Workers, IsIndexed(w) PROVE Goal
  BY <1>11 DEF IsIndexed
<1>12. ASSUME NEW w \in Workers, IsQueued(w) PROVE Goal
  BY <1>12 DEF IsQueued
<1>13. ASSUME NEW w \in Workers, AddTask(w) PROVE Goal
  BY <1>13 DEF AddTask
<1>14. ASSUME NEW w \in Workers, MarkQueued(w) PROVE Goal
  BY <1>14 DEF MarkQueued
<1>15. ASSUME NEW w \in Workers, OpenFile(w) PROVE Goal
  BY <1>15 DEF OpenFile
<1>16. ASSUME NEW w \in Workers, Saved(w) PROVE Goal
  BY <1>16 DEF Saved
<1>17. ASSUME NEW w \in Workers, CorruptMap(w) PROVE Goal
  BY <1>17 DEF CorruptMap
<1> QED BY <1>1, <1>2, <1>3, <1>4, <1>5, <1>6, <1>7, <1>8, <1>9, <1>10,
           <1>11, <1>12, <1>13, <1>14, <1>15, <1>16, <1>17, StepCases

(* So no step forgets a link. *)
LEMMA LinksStay == ASSUME IInv, [Next]_vars PROVE NoLinkForgotten'
<1>1. TypeOK /\ QueuedIsKnown /\ ResponseIsIndexed /\ NoLinkForgotten
  BY DEF IInv
<1>2. TypeOK' BY <1>1, Typing
<1>3. \A y \in Resources : Known(y) => Known(y)' BY <1>1, KnownStays
<1> SUFFICES ASSUME NEW r \in indexed', NEW x \in Links[r]
             PROVE  Known(x)' \/ \E w \in Workers : Handles(w, r, x)'
  BY DEF NoLinkForgotten
<1>4. r \in Resources /\ x \in Resources BY <1>2, SiteAssumption DEF TypeOK
<1>5. CASE r \notin indexed BY <1>5, <1>1, LinksAreRead
<1>6. CASE Known(x) BY <1>6, <1>3, <1>4
<1>7. ASSUME NEW w \in Workers, Handles(w, r, x)
      PROVE  Known(x)' \/ Handles(w, r, x)'
  <2>1. CASE x \in indexed \cup queued
    <3>1. Known(x) BY <2>1, <1>1 DEF QueuedIsKnown, Known, Settled
    <3> QED BY <3>1, <1>3, <1>4
  <2>2. CASE pending'[x] > 0 BY <2>2 DEF Known
  <2> QED BY <2>1, <2>2, <1>1, <1>4, <1>7, LinkIsKept
<1> QED BY <1>1, <1>5, <1>6, <1>7 DEF NoLinkForgotten

(* The first resource is known from the start, and StartIndexing returns   *)
(* only when the pool is idle; after that nothing moves.                   *)
LEMMA FirstStaysKnown ==
    ASSUME IInv, [Next]_vars, main' # "add" PROVE Known(First)'
<1>1. TypeOK /\ ResponseIsIndexed /\ First \in Resources
  BY SiteAssumption DEF IInv
<1>2. CASE main = "add"
  <2>1. CASE Begin BY <2>1, <1>1 DEF Begin, Known, TypeOK
  <2>2. ~ Notify /\ ~ Finish /\ main # "polling" BY <1>2 DEF Notify, Finish
  <2>3. CASE UNCHANGED vars BY <2>3, <1>2 DEF vars
  <2> QED BY <2>1, <2>2, <2>3, StepCases
<1>3. CASE main # "add" BY <1>1, <1>3, KnownStays DEF IInv
<1> QED BY <1>2, <1>3

LEMMA ReturnsWhenIdle ==
    ASSUME IInv, [Next]_vars, main' = "returned" PROVE PoolIsIdle'
<1>1. CASE main = "polling"
  <2>1. CASE Finish BY <2>1 DEF Finish, PoolIsIdle, threads
  <2>2. CASE UNCHANGED main BY <2>2, <1>1
  <2>3. CASE Begin BY <2>3, <1>1 DEF Begin
  <2>4. CASE Notify BY <2>4, <1>1 DEF Notify
  <2>5. ASSUME NEW w \in Workers, TaskStep(w) \/ SpuriousWakeup(w)
        PROVE  UNCHANGED main
    BY <2>5 DEF TaskStep, Take, WaitForNextRequest, SpuriousWakeup,
       FetchInvalid, Fails, Fetch, IsIndexed, IsQueued, AddTask, MarkQueued,
       OpenFile, Saved
  <2>6. ASSUME NEW w \in Workers, CorruptMap(w) PROVE main' = "crashed"
    BY <2>6 DEF CorruptMap
  <2> QED BY <2>1, <2>2, <2>3, <2>4, <2>5, <2>6, <1>1
          DEF Next, ThreadStep, Over, vars
<1>2. CASE main = "returned"
  <2>1. UNCHANGED vars
    BY <1>2 DEF Next, Begin, Notify, Finish, ThreadStep, Over
  <2> QED BY <2>1, <1>2 DEF IInv, vars, threads, PoolIsIdle
<1>3. CASE main \notin {"polling", "returned"}
  BY <1>3 DEF Next, Begin, Notify, Finish, ThreadStep, Over, vars
<1> QED BY <1>1, <1>2, <1>3

-----------------------------------------------------------------------------

(* The strengthened invariant holds in every reachable state. *)
THEOREM InductiveInvariant == Spec => []IInv
<1>1. Init => IInv
  BY SiteAssumption DEF Init, IInv, TypeOK, Pcs, QueuedIsKnown,
     ResponseIsIndexed, HasResponse, NoLinkForgotten
<1>2. ASSUME IInv, [Next]_vars PROVE IInv'
  <2>1. TypeOK /\ ResponseIsIndexed BY <1>2 DEF IInv
  <2>2. TypeOK' /\ ResponseIsIndexed'
    BY <1>2, <2>1, Typing, ResponseStaysIndexed
  <2>3. QueuedIsKnown' /\ NoLinkForgotten'
    BY <1>2, QueuedStaysKnown, LinksStay
  <2>4. main' # "add" => Known(First)' BY <1>2, FirstStaysKnown
  <2>5. main' = "returned" => PoolIsIdle' BY <1>2, ReturnsWhenIdle
  <2> QED BY <2>2, <2>3, <2>4, <2>5 DEF IInv
<1> QED BY <1>1, <1>2, PTL DEF Spec

(* Every variable of the crawler keeps its type. *)
THEOREM TypeCorrectness == Spec => []TypeOK
<1>1. IInv => TypeOK BY DEF IInv
<1> QED BY <1>1, InductiveInvariant, PTL

(* AddResourceToIndex looks at two maps and the pool one after the other,  *)
(* and yet a link of an indexed resource is never forgotten: it is known,  *)
(* or a thread has still to look at it.                                    *)
THEOREM LinksAreNotForgotten == Spec => []NoLinkForgotten
<1>1. IInv => NoLinkForgotten BY DEF IInv
<1> QED BY <1>1, InductiveInvariant, PTL

(* When StartIndexing returns, everything that can be reached through      *)
(* indexed resources is indexed or has failed.                             *)
THEOREM ReturnedIsComplete == Spec => []CrawlIsComplete
<1>1. ASSUME IInv, main = "returned"
      PROVE  First \in Settled /\ \A r \in indexed : Links[r] \subseteq Settled
  <2>1. /\ TypeOK /\ PoolIsIdle /\ Known(First) /\ NoLinkForgotten
    BY <1>1 DEF IInv
  <2>2. ASSUME NEW x \in Resources, Known(x) PROVE x \in Settled
    BY <2>1, <2>2 DEF Known, PoolIsIdle, Running
  <2>3. \A w \in Workers : \A r, x \in Resources : ~ Handles(w, r, x)
    BY <2>1 DEF PoolIsIdle, Handles
  <2>4. ASSUME NEW r \in indexed, NEW x \in Links[r] PROVE x \in Settled
    <3>1. r \in Resources /\ x \in Resources
      BY <2>1, SiteAssumption DEF TypeOK
    <3>2. Known(x) BY <2>1, <2>3, <3>1 DEF NoLinkForgotten
    <3> QED BY <2>2, <3>1, <3>2
  <2> QED BY <2>1, <2>2, <2>4, SiteAssumption
<1>2. IInv => CrawlIsComplete BY <1>1 DEF CrawlIsComplete
<1> QED BY <1>2, InductiveInvariant, PTL
=============================================================================
