---------------------------- MODULE SiteThreads ----------------------------
(***************************************************************************)
(* The threads of MBDB_Website (MBWebsite/MPGMemeSite.cpp): one for each   *)
(* connection of the HTTP server, each of which takes a request, passes it *)
(* to the first handler that is meant and answers it.  All of them use the *)
(* same site object, so what a handler shares is under one of its mutexes. *)
(*                                                                         *)
(* Only a mutex that is held for more than one step is a lock here; the    *)
(* ones around a single look-up (plugins, names, handlers, log-in          *)
(* database, index map) are part of the step that takes them.              *)
(***************************************************************************)
EXTENDS Naturals, Sequences, FiniteSets, SequencesExt

CONSTANTS Threads,      \* of the server
          Requests,     \* the sequence of requests that may come
          MaxRequests   \* how many come at most

None == "none"

ASSUME RequestsAssumption == /\ MaxRequests \in Nat
                             /\ IsFiniteSet(Threads) /\ None \notin Threads
                             /\ Len(Requests) > 0

VARIABLES
    at,        \* what a thread does next
    request,   \* the request it serves
    i,         \* how far a loop of its handler has come
    mutex,     \* who holds a mutex
    answer,    \* a thread's last answer
    accepted,  \* how many requests have come
    folder,    \* m_GlobalResourceFolderLoaded and m_GlobalResourceFolder
    loaded,    \* the plugins in m_LoadedPlugins
    created    \* of those, how many have had their OnCreate

threadVars == <<at, request, i, mutex, answer, accepted>>
siteVars == <<folder, loaded, created>>

Mutexes == {"upload", "write", "api", "writable", "readonly", "folder"}

ThreadsInit ==
    /\ at = [t \in Threads |-> "idle"]
    /\ request = [t \in Threads |-> [top |-> None]]
    /\ i = [t \in Threads |-> 0]
    /\ mutex = [m \in Mutexes |-> None]
    /\ answer = [t \in Threads |-> [status |-> None]]
    /\ accepted = 0
    /\ folder = [loaded |-> FALSE, path |-> None]
    /\ loaded = <<>> /\ created = 0

-----------------------------------------------------------------------------
(* What a step of a thread may do.                                         *)

Free(m) == mutex[m] = None
Go(t, place) == at' = [at EXCEPT ![t] = place]
Keep(t, n) == i' = [i EXCEPT ![t] = n]
Holding(t, ms) == mutex' = [m \in Mutexes |-> IF m \in ms THEN t ELSE mutex[m]]
Leaving(t, ms) == mutex' = [m \in Mutexes |-> IF m \in ms THEN None ELSE mutex[m]]

(* The handler returns, and its lock_guards let go of what it holds.        *)
Answer(t, a) == /\ answer' = [answer EXCEPT ![t] = a]
                /\ Go(t, "idle")
                /\ mutex' = [m \in Mutexes |-> IF mutex[m] = t THEN None ELSE mutex[m]]
                /\ Keep(t, 0)
                /\ UNCHANGED <<request, accepted>>
Says(t, status) == Answer(t, [status |-> status])

(* A step inside a handler that changes only its place and its locks.       *)
Moves(t, place) == Go(t, place) /\ UNCHANGED <<request, answer, accepted>>

(* m_GetConnectionPermissions: what the cookies' user may do, if the log-in *)
(* database has this user with this password.  The name is the cookie's.    *)
Permissions(r) == IF r.password = "right" THEN r.rights ELSE {}
AssociatedUser(r) == r.user

-----------------------------------------------------------------------------
(* The constructor: plugins are added one after the other, in this order.  *)

Plugins == <<"MBEmbed", "MBSQL", "MBFilesystemAPI">>
HandledDirectives == [MBEmbed |-> {}, MBFilesystemAPI |-> {"FileExists", "GetFolderContents"},
    MBSQL |-> {"GetTableNames", "GetTableInfo", "SearchTableWithWhere",
               "AddEntryToTable", "UpdateTableRow", "QueryDatabase"}]
HandledTopDirectories == [MBEmbed |-> {}, MBSQL |-> {"DBSite"}, MBFilesystemAPI |-> {}]
DirectivesKnown == UNION {HandledDirectives[Plugins[k]] : k \in 1 .. created}

(* Under the two mutexes of the maps of plugins and of names ...            *)
AddPlugin == /\ Len(loaded) = created /\ created < Len(Plugins)
             /\ loaded' = Append(loaded, Plugins[created + 1])
             /\ UNCHANGED <<threadVars, folder, created>>
(* ... and OnCreate after both, since it takes them to find the plugins     *)
(* it needs; without the embedder, the database's throws.                   *)
OnCreate == /\ created < Len(loaded)
            /\ loaded[created + 1] = "MBSQL" => Contains(loaded, "MBEmbed")
            /\ created' = created + 1
            /\ UNCHANGED <<threadVars, folder, loaded>>
Started == created = Len(Plugins)

-----------------------------------------------------------------------------
(* HandlesRequest and GenerateResponse.                                    *)

LegacyHandlers == <<"DBLogin", "UploadFile", "DBUploadFile.html", "DB", "DBView",
                    "DBViewEmbedd", "DBAdd", "DBGeneralAPI", "DBUpdate">>
Handlers == LegacyHandlers \o <<"DBEdit", "git", "MBPM", "DBSite">>
Handles(h, r) == /\ r.top = h
                 /\ h = "UploadFile" => r.method = "POST"
                 /\ h = "DBSite" => \E k \in 1 .. created : h \in HandledTopDirectories[Plugins[k]]
HandlerOf(r) == IF \E k \in DOMAIN Handlers : Handles(Handlers[k], r)
                THEN Handlers[SelectInSeq(Handlers, LAMBDA h : Handles(h, r))]
                ELSE "default"

Accept(t) == /\ Started /\ at[t] = "idle" /\ accepted < MaxRequests
             /\ \E k \in DOMAIN Requests : request' = [request EXCEPT ![t] = Requests[k]]
             /\ accepted' = accepted + 1
             /\ answer' = [answer EXCEPT ![t] = [status |-> None]]
             /\ Go(t, "handles")
             /\ UNCHANGED <<i, mutex, siteVars>>

(* The first request of all fetches the folder of the static files.  The    *)
(* flag is set first, but whoever reads the folder waits for its mutex.     *)
CheckFolder(t) ==
    /\ at[t] = "handles"
    /\ Moves(t, IF folder.loaded THEN HandlerOf(request[t]) ELSE "loadFolder")
    /\ UNCHANGED <<i, mutex, siteVars>>
LoadFolder(t) ==
    /\ at[t] = "loadFolder" /\ Free("folder") /\ Holding(t, {"folder"})
    /\ folder' = [folder EXCEPT !.loaded = TRUE] /\ Moves(t, "setFolder")
    /\ UNCHANGED <<i, loaded, created>>
SetFolder(t) ==
    /\ at[t] = "setFolder" /\ folder' = [folder EXCEPT !.path = "mrboboget.se"]
    /\ Leaving(t, {"folder"}) /\ Moves(t, HandlerOf(request[t]))
    /\ UNCHANGED <<i, loaded, created>>

(* p_GetGlobalResourceFolder, for the preprocessor of a plugin's page.      *)
CanReadFolder_Unlocked == TRUE
CanReadFolder == Free("folder")
=============================================================================
