------------------------------ MODULE Website ------------------------------
(***************************************************************************)
(* MBDB_Website (MBWebsite/MPGMemeSite.cpp): the handlers of SiteFiles and *)
(* SiteDatabase behind the threads of SiteThreads, and a process that may  *)
(* die, after which files and packets are as they are.                     *)
(***************************************************************************)
EXTENDS SiteFiles, SiteDatabase

vars == <<threadVars, siteVars, fileVars, row>>

Init == ThreadsInit /\ FilesInit /\ row = 0

Start == (AddPlugin \/ OnCreate) /\ UNCHANGED <<fileVars, row>>
Enter(t) == (CheckFolder(t) \/ LoadFolder(t) \/ SetFolder(t)) /\ UNCHANGED <<fileVars, row>>
Serve(t) == \/ Enter(t)
            \/ FileStep(t) /\ UNCHANGED row
            \/ GitStep(t) /\ UNCHANGED row
            \/ PacketStep(t) /\ UNCHANGED row
            \/ ApiStep(t) /\ UNCHANGED fileVars
            \/ SiteStep(t) /\ UNCHANGED fileVars

(* The server is killed and started again, maybe while an upload is taken   *)
(* up.  An upload that was on disk but not taken up is known to nobody any *)
(* more, and is found when the next one comes.                             *)
Crash ==
    /\ failures < MaxFailures /\ failures' = failures + 1
    /\ at' = [t \in Threads |-> "idle"]
    /\ request' = [t \in Threads |-> [top |-> None]]
    /\ i' = [t \in Threads |-> 0]
    /\ mutex' = [m \in Mutexes |-> None]
    /\ answer' = [t \in Threads |-> [status |-> None]]
    /\ folder' = [loaded |-> FALSE, path |-> None]
    /\ loaded' = <<>> /\ created' = 0
    /\ environment' = [path |-> None, method |-> None, type |-> None, user |-> None]
    /\ UpdatedPackets' = <<>>
    /\ \/ (\E t \in Threads : Incorporating(t)) /\ Interrupt
       \/ /\ UNCHANGED <<packets, sent>>
          /\ damaged' = damaged \cup {<<p, "uploaded">> : p \in {q \in Packets : packets[q].changes}}
    /\ UNCHANGED <<accepted, files, backendFile, row>>

Next == \/ Start \/ Crash
        \/ \E t \in Threads : \/ Accept(t) /\ UNCHANGED <<fileVars, row>>
                              \/ Serve(t)

(* The threads run on; a mutex that is let go again and again is got.       *)
Spec == Init /\ [][Next]_vars /\ WF_vars(Start) /\ \A t \in Threads : SF_vars(Serve(t))
-----------------------------------------------------------------------------
(* What git answers has been made of its own request, although environment *)
(* and file are everybody's.  The type and the user are not asked for: the *)
(* code never takes them back.                                             *)
BackendSeesItsRequest ==
    \A t \in Threads : answer[t].status = "git" =>
        /\ answer[t].env.path = request[t].path
        /\ answer[t].env.method = request[t].method
        /\ answer[t].body = IF request[t].method = "POST" THEN request[t].body ELSE None
        /\ request[t].type # None => answer[t].env.type = request[t].type

(* Nothing that was uploaded, and that no later upload deletes, is gone     *)
(* from the packet's directories, whatever breaks, fails or is killed.      *)
(* When no request for packets is served, every upload has been taken up,  *)
(* each index tells what is there and no kind of computer is both to have  *)
(* an object and not to have it; but for the parts of a packet that a      *)
(* request left alone, a failure or a crash has put in doubt and no whole  *)
(* upload has renewed since.  An upload puts the packet's own index in     *)
(* doubt also when it is for a kind of computer without a directory.       *)
PacketsAreConsistent ==
    \A p \in Packets :
        LET is == packets[p]
            Sure(part) == <<p, part>> \notin damaged
        IN  /\ sent[p] \subseteq is.data \cup is.diff \cup is.uploaded
            /\ Sure("removed") => is.diff \cap is.removed = {}
            /\ Free("write") => /\ Sure("uploaded") => is.uploaded = {}
                                /\ Sure("index") => is.index = is.data
                                /\ Sure("diffIndex") => is.diffIndex = is.diff

(* A page is made from the folder of the server's files: no thread is past *)
(* the look at the flag and has a folder that is not set yet.              *)
FolderIsKnown ==
    \A t \in Threads : "folder" \in DOMAIN answer[t] => answer[t].folder # None

(* Every request is answered, or the server dies: no two handlers wait for *)
(* each other's mutexes, nor one for its own.                              *)
EveryRequestEnds == \A t \in Threads : at[t] # "idle" ~> at[t] = "idle"
=============================================================================
