---------------------------- MODULE Website_proof ----------------------------
(***************************************************************************)
(* Proofs about Website, for any threads, requests, files and packets, and *)
(* any number of failures.                                                 *)
(***************************************************************************)
EXTENDS Website, TLAPS, WellFoundedInduction

AllRequests == {Requests[k] : k \in DOMAIN Requests}
PacketRequests == {r \in AllRequests : r.top = "MBPM"}
Objects == UNION {r.files : r \in PacketRequests}
Uploads == {<<r.packet, r.computer, r.deleted>> : r \in PacketRequests}
Directories == [data : SUBSET Objects, index : SUBSET Objects, diff : SUBSET Objects,
                diffIndex : SUBSET Objects, removed : SUBSET UNION {r.deleted : r \in PacketRequests},
                uploaded : SUBSET Objects, changes : BOOLEAN]

SiteType ==
    /\ DOMAIN at = Threads /\ i \in [Threads -> Nat]
    /\ mutex \in [Mutexes -> Threads \cup {None}]
    /\ DOMAIN request = Threads /\ DOMAIN answer = Threads
    /\ packets \in [Packets -> Directories]
    /\ UpdatedPackets \in Seq(Uploads) /\ sent \in [Packets -> SUBSET Objects]
    /\ DOMAIN folder = {"loaded", "path"} /\ folder.loaded \in BOOLEAN

(* Where a thread is past the look at the flag of the folder, and where it *)
(* uses what the mutexes of git and of the packets protect.                *)
Before == {"idle", "handles", "loadFolder"}
InGit == {"variables", "backend", "result"}
InPackets == {"respond", "incorporate"}

Places ==
    \A t \in Threads :
        /\ at[t] \in InGit => mutex["upload"] = t
        /\ at[t] \in InPackets => mutex["write"] = t
        /\ at[t] = "setFolder" => mutex["folder"] = t
        /\ at[t] # "idle" => request[t] \in AllRequests
        /\ at[t] = "MBPM" => request[t].top = "MBPM"

GitInv ==
    \A t \in Threads :
        LET r == request[t]
            Is(env) == /\ env.path = r.path /\ env.method = r.method
                       /\ r.type # None => env.type = r.type
        IN  /\ at[t] = "backend" => Is(environment)
            /\ at[t] = "result" =>
                  /\ r.method = "POST" /\ Is(backendFile.env)
                  /\ backendFile = [status |-> "git", env |-> backendFile.env, body |-> r.body]

FolderInv ==
    /\ folder.loaded => folder.path # None \/ \E t \in Threads : at[t] = "setFolder"
    /\ \A t \in Threads : at[t] \notin Before => folder.loaded

(* What a packet p is like whatever is going on, when objects were uploaded *)
(* to it and its parts in doubt are among those of d.                      *)
PacketFacts(p, is, objects, d) ==
    /\ objects \subseteq is.data \cup is.diff \cup is.uploaded
    /\ <<p, "removed">> \notin d => is.diff \cap is.removed = {}
    /\ <<p, "index">> \notin d => is.index = is.data
    /\ <<p, "diffIndex">> \notin d => is.diffIndex = is.diff
    /\ is.uploaded # {} => is.changes

(* An upload that is to be taken up as the first of them.                  *)
Pending == \E t \in Threads : at[t] = "respond" \/ (at[t] = "incorporate" /\ i[t] = 0)
PacketInv ==
    \A p \in Packets :
        /\ PacketFacts(p, packets[p], sent[p], damaged)
        /\ packets[p].uploaded # {} =>
              \/ <<p, "uploaded">> \in damaged
              \/ /\ Pending /\ UpdatedPackets # <<>>
                 /\ UpdatedPackets[Len(UpdatedPackets)][1] = p

SiteInv == /\ SiteType /\ Places /\ GitInv /\ FolderInv /\ PacketInv
           /\ BackendSeesItsRequest /\ FolderIsKnown

-----------------------------------------------------------------------------
(* Most steps of a thread t are of no interest to the others: they change  *)
(* what is t's own, and let go of t's mutexes.                              *)

Special == InGit \cup InPackets \cup {"setFolder"}
Shared == {"upload", "write", "folder"}

Local(t) ==
    /\ DOMAIN at' = Threads /\ i' \in [Threads -> Nat]
    /\ mutex' \in [Mutexes -> Threads \cup {None}]
    /\ request' = request /\ DOMAIN answer' = Threads
    /\ at'[t] \notin Special \cup {"MBPM", "handles", "loadFolder"}
    /\ \A u \in Threads \ {t} : at'[u] = at[u] /\ i'[u] = i[u] /\ answer'[u] = answer[u]
    /\ \A m \in Shared : \A u \in Threads \ {t} : mutex[m] = u => mutex'[m] = u
    /\ \/ answer'[t] = answer[t]
       \/ /\ answer'[t].status # "git"
          /\ "folder" \in DOMAIN answer'[t] => answer'[t].folder # None

Ordinary(t) ==
    /\ Local(t)
    /\ at[t] \notin Before \cup Special
    /\ UNCHANGED <<environment, backendFile, packets, UpdatedPackets, damaged, sent, folder>>

(* A handler that returns lets go of its own mutexes only.                 *)
LEMMA AnswerIsLocal ==
  ASSUME SiteType, NEW t \in Threads, NEW a, Answer(t, a),
         a = answer[t] \/ (a.status # "git" /\ ("folder" \in DOMAIN a => a.folder # None))
  PROVE  Local(t)
  <1>. USE DEF SiteType
  <1>1. at' = [at EXCEPT ![t] = "idle"] /\ i' = [i EXCEPT ![t] = 0] /\ request' = request
    BY DEF Answer, Go, Keep
  <1>2. DOMAIN at' = Threads /\ i' \in [Threads -> Nat] /\ at'[t] = "idle"
        /\ \A u \in Threads \ {t} : at'[u] = at[u] /\ i'[u] = i[u]
    <2>1. DOMAIN at' = Threads /\ at'[t] = "idle" /\ \A u \in Threads \ {t} : at'[u] = at[u]
      BY <1>1
    <2>2. i' \in [Threads -> Nat] /\ \A u \in Threads \ {t} : i'[u] = i[u]
      BY <1>1
    <2>3. QED
      BY <2>1, <2>2
  <1>3. answer' = [answer EXCEPT ![t] = a]
    BY DEF Answer
  <1>4. DOMAIN answer' = Threads /\ answer'[t] = a /\ \A u \in Threads \ {t} : answer'[u] = answer[u]
    BY <1>3
  <1>5. mutex' = [m \in Mutexes |-> IF mutex[m] = t THEN None ELSE mutex[m]]
    BY DEF Answer
  <1>6. mutex' \in [Mutexes -> Threads \cup {None}]
    BY <1>5
  <1>7. \A m \in Shared : \A u \in Threads \ {t} : mutex[m] = u => mutex'[m] = u
    BY <1>5 DEF Shared, Mutexes
  <1>8. at'[t] \notin Special \cup {"MBPM", "handles", "loadFolder"}
    BY <1>2 DEF Special, InGit, InPackets
  <1>9. QED
    BY <1>1, <1>2, <1>4, <1>6, <1>7, <1>8 DEF Local

(* ... as does one that answers with a status alone.                       *)
LEMMA SaysIsLocal ==
  ASSUME SiteType, NEW t \in Threads, NEW s, Says(t, s), s # "git"
  PROVE  Local(t)
  <1>1. DOMAIN [status |-> s] = {"status"} /\ [status |-> s].status = s
    OBVIOUS
  <1>2. Answer(t, [status |-> s])
    BY DEF Says
  <1>3. QED
    BY <1>1, <1>2, AnswerIsLocal

(* A step inside a handler that takes or lets go of a mutex of the API or  *)
(* of the database.                                                        *)
LEMMA MoveIsLocal ==
  ASSUME SiteType, NEW t \in Threads, NEW place, Moves(t, place),
         place \notin Special \cup {"MBPM", "handles", "loadFolder"},
         i' = i \/ \E n \in Nat : Keep(t, n),
         mutex' = mutex \/ \E ms \in SUBSET {"api", "writable", "readonly"} :
                              Holding(t, ms) \/ Leaving(t, ms)
  PROVE  Local(t)
  <1>. USE DEF SiteType
  <1>1. at' = [at EXCEPT ![t] = place] /\ request' = request /\ answer' = answer
    BY DEF Moves, Go
  <1>2. DOMAIN at' = Threads /\ at'[t] = place /\ \A u \in Threads \ {t} : at'[u] = at[u]
    BY <1>1
  <1>3. i' \in [Threads -> Nat] /\ \A u \in Threads \ {t} : i'[u] = i[u]
    <2>1. i \in [Threads -> Nat]
      OBVIOUS
    <2>. HIDE DEF SiteType
    <2>2. QED
      BY <2>1 DEF Keep
  <1>4. CASE mutex' = mutex
    BY <1>1, <1>2, <1>3, <1>4 DEF Local, Shared, Mutexes
  <1>5. ASSUME NEW ms \in SUBSET {"api", "writable", "readonly"}, Holding(t, ms) \/ Leaving(t, ms)
        PROVE  Local(t)
    <2>1. mutex' \in [Mutexes -> Threads \cup {None}]
      BY <1>5 DEF Holding, Leaving
    <2>2. \A m \in Shared : m \in Mutexes /\ m \notin ms
      BY DEF Shared, Mutexes
    <2>3. \A m \in Shared : mutex'[m] = mutex[m]
      BY <1>5, <2>2 DEF Holding, Leaving
    <2>4. QED
      BY <1>1, <1>2, <1>3, <2>1, <2>3 DEF Local
  <1>6. QED
    BY <1>4, <1>5

(* A request goes to one of the handlers, or to none.                      *)
LEMMA HasLeast ==
  ASSUME NEW T \in SUBSET Nat, T # {}
  PROVE  \E x \in T : \A y \in T : x <= y
  <1>. DEFINE R == {p \in Nat \X Nat : p[1] < p[2]}
  <1>1. IsWellFoundedOn(R, Nat)
    BY NatLessThanWellFounded DEF OpToRel
  <1>2. PICK x \in T : \A y \in T : ~ (<<y, x>> \in R)
    <2>. HIDE DEF R
    <2>. QED
      BY <1>1, WFMin
  <1>3. \A y \in T : <<y, x>> \in R <=> y < x
    OBVIOUS
  <1>4. \A y \in T : ~ (y < x)
    BY <1>2, <1>3
  <1>5. QED
    BY <1>4

(* The elements of two sequences put together.                             *)
LEMMA Concatenation ==
  ASSUME NEW S, NEW a \in Seq(S), NEW b \in Seq(S)
  PROVE  /\ Len(a \o b) = Len(a) + Len(b)
         /\ \A k \in 1 .. Len(a) + Len(b) :
               (a \o b)[k] = IF k <= Len(a) THEN a[k] ELSE b[k - Len(a)]
  OBVIOUS

(* The place a request goes to is none that only a handler's own steps     *)
(* lead to.                                                                *)
LEMMA HandlerIsKnown ==
  ASSUME NEW r
  PROVE  /\ HandlerOf(r) \notin Special \cup {"handles", "loadFolder"}
         /\ HandlerOf(r) = "MBPM" => r.top = "MBPM"
  <1>. DEFINE first == <<"DBLogin", "UploadFile", "DBUploadFile.html", "DB", "DBView",
                         "DBViewEmbedd", "DBAdd", "DBGeneralAPI", "DBUpdate">>
              rest == <<"DBEdit", "git", "MBPM", "DBSite">>
              names == {"DBLogin", "UploadFile", "DBUploadFile.html", "DB", "DBView",
                        "DBViewEmbedd", "DBAdd", "DBGeneralAPI", "DBUpdate",
                        "DBEdit", "git", "MBPM", "DBSite"}
  <1>1. first \in Seq(names) /\ rest \in Seq(names) /\ Len(first) = 9 /\ Len(rest) = 4
    OBVIOUS
  <1>2. Len(Handlers) = 13 /\ \A k \in 1 .. 13 : Handlers[k] = IF k <= 9 THEN first[k] ELSE rest[k - 9]
    <2>1. Handlers = first \o rest
      BY DEF Handlers, LegacyHandlers
    <2>. HIDE DEF first, rest, names
    <2>2. /\ Len(first \o rest) = Len(first) + Len(rest)
          /\ \A k \in 1 .. Len(first) + Len(rest) :
                (first \o rest)[k] = IF k <= Len(first) THEN first[k] ELSE rest[k - Len(first)]
      BY <1>1, Concatenation, Zenon
    <2>3. Len(first) + Len(rest) = 13 /\ Len(first) = 9
      BY <1>1
    <2>4. QED
      BY <2>1, <2>2, <2>3
  <1>. DEFINE I == {k \in 1 .. 13 : Handles(Handlers[k], r)}
              k == CHOOSE x \in I : \A y \in I : x <= y
  <1>3. HandlerOf(r) = IF I # {} THEN Handlers[k] ELSE "default"
    BY <1>2 DEF HandlerOf, SelectInSeq, Min
  <1>4. CASE I = {}
    BY <1>3, <1>4 DEF Special, InGit, InPackets
  <1>5. CASE I # {}
    <2>1. \E x \in I : \A y \in I : x <= y
      <3>1. I \in SUBSET Nat
        OBVIOUS
      <3>. HIDE DEF I
      <3>2. QED
        BY <1>5, <3>1, HasLeast
    <2>2. k \in I
      BY <2>1
    <2>3. k \in 1 .. 13 /\ HandlerOf(r) = Handlers[k] /\ Handles(Handlers[k], r)
      BY <1>3, <1>5, <2>2
    <2>. HIDE DEF k, I
    <2>4. Handlers[k] \notin Special \cup {"handles", "loadFolder"}
      <3>1. \A k1 \in 1 .. 9 : first[k1] \notin Special \cup {"handles", "loadFolder"}
        BY DEF Special, InGit, InPackets
      <3>2. \A k2 \in 1 .. 4 : rest[k2] \notin Special \cup {"handles", "loadFolder"}
        BY DEF Special, InGit, InPackets
      <3>. HIDE DEF first, rest
      <3>3. QED
        BY <1>2, <2>3, <3>1, <3>2
    <2>5. r.top = Handlers[k]
      BY <2>3 DEF Handles
    <2>6. QED
      BY <2>3, <2>4, <2>5
  <1>6. QED
    BY <1>4, <1>5

(* No handler of files has a mutex, or touches what git, the packets or    *)
(* the folder keep.                                                        *)
LEMMA FileStepIsOrdinary ==
  ASSUME SiteType, NEW t \in Threads, FileStep(t)
  PROVE  Ordinary(t)
  <1>. USE DEF Special, Before, InGit, InPackets, siteVars, fileVars, gitVars, packetVars
  <1>1. UNCHANGED <<environment, backendFile, packets, UpdatedPackets, damaged, sent, folder>>
    BY DEF FileStep, UploadFile, OpenFile, WriteChunk, DBGet, DBViewEmbedd, DBView, DBEdit,
      WriteUpdate, ShowEditor, StaticPage, DBLogin, NotHandled
  <1>2. at[t] \notin Before \cup Special
    BY DEF FileStep, UploadFile, OpenFile, WriteChunk, DBGet, DBViewEmbedd, DBView, DBEdit,
      WriteUpdate, ShowEditor, StaticPage, DBLogin, NotHandled
  <1>. SUFFICES Local(t)
    BY <1>1, <1>2 DEF Ordinary
  <1>3. ASSUME NEW d, Answer(t, [status |-> "file", data |-> d]) \/ Answer(t, [status |-> "page", data |-> d])
                      \/ Answer(t, [status |-> "editor", data |-> d])
        PROVE  Local(t)
    <2>1. ASSUME NEW s, s # "git", Answer(t, [status |-> s, data |-> d]) PROVE Local(t)
      <3>1. "folder" \notin DOMAIN [status |-> s, data |-> d] /\ [status |-> s, data |-> d].status = s
        OBVIOUS
      <3>2. QED
        BY <2>1, <3>1, AnswerIsLocal
    <2>2. QED
      BY <1>3, <2>1
  <1>4. CASE UploadFile(t)
    BY <1>4, SaysIsLocal, MoveIsLocal, Zenon DEF UploadFile
  <1>5. CASE OpenFile(t)
    <2>1. \E n \in Nat : Keep(t, n)
      BY <1>5 DEF OpenFile
    <2>2. QED
      BY <1>5, <2>1, MoveIsLocal DEF OpenFile
  <1>6. CASE WriteChunk(t)
    <2>1. CASE /\ i[t] < request[t].chunks /\ Keep(t, i[t] + 1)
               /\ UNCHANGED <<at, request, mutex, answer>>
      <3>1. i' \in [Threads -> Nat] /\ \A u \in Threads \ {t} : i'[u] = i[u]
        BY <2>1 DEF SiteType, Keep
      <3>2. at[t] = "chunks"
        BY <1>6 DEF WriteChunk
      <3>3. QED
        BY <2>1, <3>1, <3>2 DEF Local, SiteType
    <2>2. CASE Says(t, "ok")
      BY <2>2, SaysIsLocal
    <2>3. QED
      BY <1>6, <2>1, <2>2 DEF WriteChunk
  <1>7. CASE DBGet(t)
    BY <1>3, <1>7, SaysIsLocal DEF DBGet
  <1>8. CASE DBViewEmbedd(t)
    BY <1>3, <1>8, SaysIsLocal DEF DBViewEmbedd
  <1>9. CASE DBView(t)
    BY <1>3, <1>9, SaysIsLocal DEF DBView
  <1>10. CASE DBEdit(t)
    BY <1>10, SaysIsLocal, MoveIsLocal DEF DBEdit
  <1>11. CASE WriteUpdate(t)
    BY <1>11, MoveIsLocal DEF WriteUpdate
  <1>12. CASE ShowEditor(t)
    BY <1>3, <1>12, SaysIsLocal DEF ShowEditor
  <1>13. CASE StaticPage(t)
    BY <1>13, SaysIsLocal DEF StaticPage
  <1>14. CASE DBLogin(t)
    BY <1>14, SaysIsLocal DEF DBLogin
  <1>15. CASE NotHandled(t)
    BY <1>15, SaysIsLocal DEF NotHandled
  <1>16. QED
    BY <1>4, <1>5, <1>6, <1>7, <1>8, <1>9, <1>10, <1>11, <1>12, <1>13, <1>14, <1>15
    DEF FileStep

(* The mutexes of the API and of the database.                             *)
LEMMA DatabaseStepIsOrdinary ==
  ASSUME SiteType, Places, FolderInv, NEW t \in Threads,
         (ApiStep(t) \/ SiteStep(t)) /\ UNCHANGED fileVars
  PROVE  Ordinary(t)
  <1>. USE DEF Special, Before, InGit, InPackets, siteVars, fileVars, gitVars, packetVars
  <1>1. UNCHANGED <<environment, backendFile, packets, UpdatedPackets, damaged, sent, folder>>
    BY DEF ApiStep, SiteStep, ParseRequest, HandleDirective, List, VerifyTable, Read, GiveRows,
      VerifyColumns, LockForUpdate, UpdateTableRow, AddEntry, AddVerify, Insert,
      DBSite, SiteQuery, SiteRows, EmbeddObject, EvaluateObject, EmbeddEnds
  <1>2. at[t] \notin Before \cup Special
    BY DEF ApiStep, SiteStep, ParseRequest, HandleDirective, List, VerifyTable, Read, GiveRows,
      VerifyColumns, LockForUpdate, UpdateTableRow, AddEntry, AddVerify, Insert,
      DBSite, SiteQuery, SiteRows, EmbeddObject, EvaluateObject, EmbeddEnds
  <1>. SUFFICES Local(t)
    BY <1>1, <1>2 DEF Ordinary
  <1>3. /\ {"api"} \in SUBSET {"api", "writable", "readonly"}
        /\ {"writable"} \in SUBSET {"api", "writable", "readonly"}
        /\ {"readonly"} \in SUBSET {"api", "writable", "readonly"}
    OBVIOUS
  <1>4. ASSUME NEW place, Moves(t, place), UNCHANGED i,
               place \notin Special \cup {"MBPM", "handles", "loadFolder"},
               \/ Holding(t, {"api"}) \/ Holding(t, {"writable"})
               \/ Holding(t, {"readonly"}) \/ Leaving(t, {"readonly"})
        PROVE  Local(t)
    BY <1>3, <1>4, MoveIsLocal
  <1>5. CASE ParseRequest(t)
    BY <1>5, SaysIsLocal, MoveIsLocal DEF ParseRequest
  <1>6. CASE HandleDirective(t)
    <2>1. FirstStep(request[t].directive) \notin Special \cup {"MBPM", "handles", "loadFolder"}
      BY DEF FirstStep
    <2>2. QED
      BY <1>4, <1>6, <2>1, SaysIsLocal DEF HandleDirective
  <1>7. CASE List(t)
    BY <1>7, SaysIsLocal DEF List
  <1>8. CASE VerifyTable(t)
    BY <1>8, SaysIsLocal, MoveIsLocal DEF VerifyTable
  <1>9. CASE Read(t)
    BY <1>4, <1>9 DEF Read
  <1>10. CASE GiveRows(t)
    <2>1. /\ "folder" \notin DOMAIN [status |-> "rows", data |-> row]
          /\ [status |-> "rows", data |-> row].status # "git"
      OBVIOUS
    <2>2. QED
      BY <1>10, <2>1, SaysIsLocal, AnswerIsLocal DEF GiveRows
  <1>11. CASE VerifyColumns(t)
    BY <1>11, SaysIsLocal, MoveIsLocal DEF VerifyColumns
  <1>12. CASE LockForUpdate(t)
    BY <1>4, <1>12 DEF LockForUpdate
  <1>13. CASE UpdateTableRow(t)
    BY <1>13, SaysIsLocal DEF UpdateTableRow
  <1>14. CASE AddEntry(t)
    BY <1>4, <1>14 DEF AddEntry
  <1>15. CASE AddVerify(t)
    BY <1>15, SaysIsLocal, MoveIsLocal DEF AddVerify
  <1>16. CASE Insert(t)
    BY <1>16, SaysIsLocal DEF Insert
  <1>17. CASE SiteQuery(t)
    BY <1>4, <1>17 DEF SiteQuery
  <1>18. CASE SiteRows(t)
    BY <1>4, <1>18 DEF SiteRows
  <1>19. CASE EmbeddObject(t)
    BY <1>4, <1>19 DEF EmbeddObject
  <1>20. CASE EvaluateObject(t)
    <2>1. \E n \in Nat : Keep(t, n)
      BY <1>20 DEF EvaluateObject, SiteType
    <2>2. QED
      BY <1>3, <1>20, <2>1, MoveIsLocal DEF EvaluateObject
  <1>21. CASE EmbeddEnds(t)
    BY <1>21, AnswerIsLocal DEF EmbeddEnds
  <1>22. CASE DBSite(t)
    <2>. DEFINE page == [status |-> "page", folder |-> folder.path]
    <2>1. at[t] = "DBSite" /\ Free("folder")
      BY <1>22 DEF DBSite, CanReadFolder
    <2>2. ASSUME NEW u \in Threads, at[u] = "setFolder" PROVE FALSE
      BY <2>1, <2>2, RequestsAssumption DEF Places, Free, None
    <2>3. folder.path # None
      BY <2>1, <2>2 DEF FolderInv
    <2>4. page.status # "git" /\ page.folder # None
      BY <2>3
    <2>. HIDE DEF page
    <2>5. CASE Answer(t, page)
      BY <2>4, <2>5, AnswerIsLocal
    <2>6. CASE /\ answer' = [answer EXCEPT ![t] = page] /\ Go(t, "site query")
               /\ UNCHANGED <<request, i, mutex>>
      BY <2>4, <2>6 DEF Go, Local, SiteType
    <2>7. QED
      BY <1>22, <2>5, <2>6 DEF DBSite, page
  <1>23. QED
    BY <1>5, <1>6, <1>7, <1>8, <1>9, <1>10, <1>11, <1>12, <1>13, <1>14, <1>15, <1>16, <1>17, <1>18,
      <1>19, <1>20, <1>21, <1>22
    DEF ApiStep, SiteStep

-----------------------------------------------------------------------------
(* The invariant.                                                          *)

(* When the server starts, every thread is idle and no upload is there.    *)
LEMMA SiteInitially == Init => SiteInv
  <1>. SUFFICES ASSUME Init PROVE SiteInv
    OBVIOUS
  <1>. USE DEF Init, ThreadsInit, FilesInit, InGit, InPackets, Before
  <1>1. SiteType
    <2>1. DOMAIN at = Threads /\ i \in [Threads -> Nat] /\ DOMAIN request = Threads /\ DOMAIN answer = Threads
      OBVIOUS
    <2>2. mutex \in [Mutexes -> Threads \cup {None}]
      OBVIOUS
    <2>3. packets \in [Packets -> Directories]
      BY DEF Directories
    <2>6. sent \in [Packets -> SUBSET Objects]
      OBVIOUS
    <2>4. UpdatedPackets \in Seq(Uploads) /\ DOMAIN folder = {"loaded", "path"} /\ folder.loaded \in BOOLEAN
      OBVIOUS
    <2>5. QED
      BY <2>1, <2>2, <2>3, <2>4, <2>6 DEF SiteType
  <1>2. Places
    BY DEF Places
  <1>3. GitInv
    BY DEF GitInv
  <1>4. FolderInv
    BY DEF FolderInv
  <1>5. PacketInv
    BY DEF PacketInv, PacketFacts
  <1>6. BackendSeesItsRequest
    BY DEF BackendSeesItsRequest, None
  <1>7. FolderIsKnown
    BY DEF FolderIsKnown
  <1>8. QED
    BY <1>1, <1>2, <1>3, <1>4, <1>5, <1>6, <1>7 DEF SiteInv

(* A step of which the others notice nothing keeps the invariant.          *)
LEMMA OrdinaryStep ==
  ASSUME SiteInv, NEW t \in Threads, Ordinary(t)
  PROVE  SiteInv'
  <1>. USE DEF SiteInv, Ordinary, Special, InGit, InPackets, Before, Shared
  <1>1. SiteType'
    BY DEF SiteType, Local
  <1>2. \A u \in Threads : at'[u] = at[u] \/ (u = t /\ at'[u] \notin Special \cup {"MBPM", "handles", "loadFolder"})
    BY DEF Local
  <1>3. \A u \in Threads : at'[u] = at[u] /\ u # t =>
           \A m \in {"upload", "write", "folder"} : mutex[m] = u => mutex'[m] = u
    BY DEF Local
  <1>4. Places'
    BY <1>2, <1>3 DEF Places, Local
  <1>5. GitInv'
    BY <1>2 DEF GitInv, Local
  <1>6. FolderInv'
    BY <1>2 DEF FolderInv, Local
  <1>7. Pending' = Pending
    BY DEF Pending, Local
  <1>8. PacketInv'
    BY <1>7 DEF PacketInv
  <1>9. BackendSeesItsRequest'
    BY DEF BackendSeesItsRequest, Local
  <1>10. FolderIsKnown'
    BY DEF FolderIsKnown, Local
  <1>11. QED
    BY <1>1, <1>4, <1>5, <1>6, <1>8, <1>9, <1>10

(* The mutexes exclude: no two threads are where one of them is held.       *)
LEMMA Exclusion ==
  ASSUME Places, NEW t \in Threads, NEW u \in Threads
  PROVE  /\ (at[t] \in InGit \/ mutex["upload"] = None) /\ at[u] \in InGit => u = t /\ at[t] \in InGit
         /\ (at[t] \in InPackets \/ mutex["write"] = None) /\ at[u] \in InPackets
               => u = t /\ at[t] \in InPackets
  BY RequestsAssumption DEF Places, None

(* The mutex of git is taken, or the user asked to log in.                 *)
LEMMA GitBeginStep ==
  ASSUME SiteInv, NEW t \in Threads, GitBegin(t)
  PROVE  SiteInv'
  <1>. USE DEF SiteInv, InGit, InPackets, Before, siteVars, fileVars, gitVars, packetVars
  <1>1. CASE Says(t, "Authenticate")
    <2>1. Local(t)
      BY <1>1, SaysIsLocal
    <2>2. at[t] \notin Before \cup Special
      BY DEF GitBegin, Special
    <2>3. UNCHANGED <<environment, backendFile, packets, UpdatedPackets, damaged, sent, folder>>
      BY DEF GitBegin
    <2>4. QED
      BY <2>1, <2>2, <2>3, OrdinaryStep DEF Ordinary
  <1>2. CASE Holding(t, {"upload"}) /\ Moves(t, "variables") /\ UNCHANGED i
    <2>1. /\ at[t] = "git" /\ mutex["upload"] = None
          /\ at' = [at EXCEPT ![t] = "variables"]
          /\ mutex' = [m \in Mutexes |-> IF m \in {"upload"} THEN t ELSE mutex[m]]
          /\ UNCHANGED <<request, answer, i, environment, backendFile, packets, UpdatedPackets,
                         damaged, sent, folder>>
      BY <1>2 DEF GitBegin, Holding, Moves, Go, Free
    <2>2. /\ DOMAIN at' = Threads /\ at'[t] = "variables"
          /\ \A u \in Threads \ {t} : at'[u] = at[u]
      BY <2>1 DEF SiteType
    <2>3. /\ mutex' \in [Mutexes -> Threads \cup {None}] /\ mutex'["upload"] = t
          /\ mutex'["write"] = mutex["write"] /\ mutex'["folder"] = mutex["folder"]
      BY <2>1 DEF SiteType, Mutexes
    <2>4. SiteType'
      BY <2>1, <2>2, <2>3 DEF SiteType
    <2>5. \A u \in Threads : at[u] \notin InGit
      BY <2>1, Exclusion
    <2>6. Places'
      BY <2>1, <2>2, <2>3, <2>5 DEF Places
    <2>7. GitInv'
      BY <2>2, <2>5 DEF GitInv
    <2>8. FolderInv'
      BY <2>1, <2>2 DEF FolderInv
    <2>9. Pending' = Pending
      BY <2>1, <2>2 DEF Pending
    <2>10. PacketInv'
      BY <2>1, <2>9 DEF PacketInv
    <2>11. BackendSeesItsRequest' /\ FolderIsKnown'
      BY <2>1 DEF BackendSeesItsRequest, FolderIsKnown
    <2>12. QED
      BY <2>4, <2>6, <2>7, <2>8, <2>10, <2>11
  <1>3. QED
    BY <1>1, <1>2 DEF GitBegin

(* The variables are set while no other request is with the backend.       *)
LEMMA GitVariablesStep ==
  ASSUME SiteInv, NEW t \in Threads, SetGCIVariables(t)
  PROVE  SiteInv'
  <1>. USE DEF SiteInv, InGit, InPackets, Before, siteVars, packetVars
  <1>1. /\ at[t] = "variables" /\ at' = [at EXCEPT ![t] = "backend"]
        /\ UNCHANGED <<request, answer, mutex, i, backendFile, packets, UpdatedPackets, damaged, sent,
                       folder>>
    BY DEF SetGCIVariables, Moves, Go
  <1>2. /\ environment'.path = request[t].path /\ environment'.method = request[t].method
        /\ request[t].type # None => environment'.type = request[t].type
    BY DEF SetGCIVariables
  <1>3. /\ DOMAIN at' = Threads /\ at'[t] = "backend"
        /\ \A u \in Threads \ {t} : at'[u] = at[u] /\ at[u] \notin InGit
    BY <1>1, Exclusion DEF SiteType
  <1>4. SiteType'
    BY <1>1, <1>3 DEF SiteType
  <1>5. Places'
    BY <1>1, <1>3 DEF Places
  <1>6. GitInv'
    BY <1>1, <1>2, <1>3 DEF GitInv
  <1>7. FolderInv'
    BY <1>1, <1>3 DEF FolderInv
  <1>8. Pending' = Pending
    BY <1>1, <1>3 DEF Pending
  <1>9. PacketInv'
    BY <1>1, <1>8 DEF PacketInv
  <1>10. BackendSeesItsRequest' /\ FolderIsKnown'
    BY <1>1 DEF BackendSeesItsRequest, FolderIsKnown
  <1>11. QED
    BY <1>4, <1>5, <1>6, <1>7, <1>9, <1>10

(* Git's answer, straight from the backend or by way of the file.          *)
LEMMA GitAnswerStep ==
  ASSUME SiteInv, NEW t \in Threads, NEW a, Answer(t, a), at[t] \in {"backend", "result"},
         UNCHANGED <<environment, backendFile, packets, UpdatedPackets, damaged, sent, folder>>,
         "folder" \notin DOMAIN a, a.env.path = request[t].path, a.env.method = request[t].method,
         request[t].type # None => a.env.type = request[t].type,
         a.body = IF request[t].method = "POST" THEN request[t].body ELSE None
  PROVE  SiteInv'
  <1>. USE DEF SiteInv, InGit, InPackets, Before
  <1>1. /\ at' = [at EXCEPT ![t] = "idle"] /\ i' = [i EXCEPT ![t] = 0] /\ request' = request
        /\ answer' = [answer EXCEPT ![t] = a]
        /\ mutex' = [m \in Mutexes |-> IF mutex[m] = t THEN None ELSE mutex[m]]
    BY DEF Answer, Go, Keep
  <1>2. /\ DOMAIN at' = Threads /\ at'[t] = "idle"
        /\ \A u \in Threads \ {t} : at'[u] = at[u] /\ at[u] \notin InGit
    BY <1>1, Exclusion DEF SiteType
  <1>3. i' \in [Threads -> Nat] /\ \A u \in Threads \ {t} : i'[u] = i[u]
    BY <1>1 DEF SiteType
  <1>4. DOMAIN answer' = Threads /\ answer'[t] = a /\ \A u \in Threads \ {t} : answer'[u] = answer[u]
    BY <1>1 DEF SiteType
  <1>5. /\ mutex' \in [Mutexes -> Threads \cup {None}]
        /\ \A m \in Mutexes : \A u \in Threads \ {t} : mutex[m] = u => mutex'[m] = u
    BY <1>1 DEF SiteType
  <1>6. SiteType'
    BY <1>1, <1>2, <1>3, <1>4, <1>5 DEF SiteType
  <1>7. Places'
    BY <1>1, <1>2, <1>5 DEF Places, Mutexes
  <1>8. GitInv'
    BY <1>2 DEF GitInv
  <1>9. FolderInv'
    BY <1>2 DEF FolderInv
  <1>10. Pending' = Pending
    BY <1>2, <1>3 DEF Pending
  <1>11. PacketInv'
    BY <1>10 DEF PacketInv
  <1>12. BackendSeesItsRequest'
    BY <1>1, <1>4 DEF BackendSeesItsRequest
  <1>13. FolderIsKnown'
    BY <1>4 DEF FolderIsKnown
  <1>14. QED
    BY <1>6, <1>7, <1>8, <1>9, <1>11, <1>12, <1>13

(* The backend answers from the environment of this request.               *)
LEMMA RunBackendStep ==
  ASSUME SiteInv, NEW t \in Threads, RunBackend(t)
  PROVE  SiteInv'
  <1>. USE DEF SiteInv, InGit, InPackets, Before, siteVars, packetVars
  <1>. DEFINE r == request[t]
  <1>1. /\ at[t] = "backend"
        /\ UNCHANGED <<environment, packets, UpdatedPackets, damaged, sent, folder>>
    BY DEF RunBackend
  <1>2. /\ environment.path = r.path /\ environment.method = r.method
        /\ r.type # None => environment.type = r.type
    BY <1>1 DEF GitInv
  <1>3. CASE r.method # "POST"
    <2>. DEFINE a == Backend(None)
    <2>1. "folder" \notin DOMAIN a /\ a.env = environment /\ a.body = None
      BY DEF Backend
    <2>2. Answer(t, a) /\ UNCHANGED backendFile
      BY <1>3 DEF RunBackend
    <2>. HIDE DEF a
    <2>3. QED
      BY <1>1, <1>2, <1>3, <2>1, <2>2, GitAnswerStep
  <1>4. CASE r.method = "POST"
    <2>1. /\ at' = [at EXCEPT ![t] = "result"] /\ backendFile' = Backend(r.body)
          /\ UNCHANGED <<request, answer, mutex, i>>
      BY <1>4 DEF RunBackend, Moves, Go
    <2>2. /\ DOMAIN at' = Threads /\ at'[t] = "result"
          /\ \A u \in Threads \ {t} : at'[u] = at[u] /\ at[u] \notin InGit
      BY <1>1, <2>1, Exclusion DEF SiteType
    <2>3. SiteType'
      BY <1>1, <2>1, <2>2 DEF SiteType
    <2>4. Places'
      BY <1>1, <2>1, <2>2 DEF Places
    <2>5. backendFile' = [status |-> "git", env |-> environment, body |-> r.body]
      BY <2>1 DEF Backend
    <2>6. GitInv'
      BY <1>2, <1>4, <2>1, <2>2, <2>5 DEF GitInv
    <2>7. FolderInv'
      BY <1>1, <2>2 DEF FolderInv
    <2>8. Pending' = Pending
      BY <1>1, <2>1, <2>2 DEF Pending
    <2>9. PacketInv'
      BY <1>1, <2>8 DEF PacketInv
    <2>10. BackendSeesItsRequest' /\ FolderIsKnown'
      BY <2>1 DEF BackendSeesItsRequest, FolderIsKnown
    <2>11. QED
      BY <2>3, <2>4, <2>6, <2>7, <2>9, <2>10
  <1>5. QED
    BY <1>3, <1>4

(* What is loaded from the file is what the backend wrote for this         *)
(* request.                                                                *)
LEMMA LoadResultStep ==
  ASSUME SiteInv, NEW t \in Threads, LoadResult(t)
  PROVE  SiteInv'
  <1>1. at[t] = "result" /\ Answer(t, backendFile)
        /\ UNCHANGED <<environment, backendFile, packets, UpdatedPackets, damaged, sent, folder>>
    BY DEF LoadResult, fileVars, gitVars, packetVars, siteVars
  <1>2. /\ request[t].method = "POST" /\ backendFile.env.path = request[t].path
        /\ backendFile.env.method = request[t].method
        /\ request[t].type # None => backendFile.env.type = request[t].type
        /\ backendFile = [status |-> "git", env |-> backendFile.env, body |-> request[t].body]
    BY <1>1 DEF SiteInv, GitInv
  <1>3. "folder" \notin DOMAIN backendFile /\ backendFile.body = request[t].body
    BY <1>2
  <1>4. QED
    BY <1>1, <1>2, <1>3, GitAnswerStep

(* A new request makes its thread forget its last answer.                  *)
LEMMA AcceptStep ==
  ASSUME SiteInv, NEW t \in Threads, Accept(t), UNCHANGED fileVars
  PROVE  SiteInv'
  <1>. USE DEF SiteInv, InGit, InPackets, Before, siteVars, fileVars, gitVars, packetVars
  <1>1. PICK r \in AllRequests : request' = [request EXCEPT ![t] = r]
    BY DEF Accept, AllRequests
  <1>2. /\ at[t] = "idle" /\ at' = [at EXCEPT ![t] = "handles"]
        /\ answer' = [answer EXCEPT ![t] = [status |-> None]]
        /\ UNCHANGED <<i, mutex, environment, backendFile, packets, UpdatedPackets, damaged, sent, folder>>
    BY DEF Accept, Go
  <1>3. /\ DOMAIN at' = Threads /\ at'[t] = "handles" /\ DOMAIN request' = Threads /\ request'[t] = r
        /\ \A u \in Threads \ {t} : at'[u] = at[u] /\ request'[u] = request[u]
    BY <1>1, <1>2 DEF SiteType
  <1>4. /\ DOMAIN answer' = Threads /\ answer'[t] = [status |-> None]
        /\ \A u \in Threads \ {t} : answer'[u] = answer[u]
    BY <1>2 DEF SiteType
  <1>5. SiteType'
    BY <1>2, <1>3, <1>4 DEF SiteType
  <1>6. Places'
    BY <1>2, <1>3 DEF Places
  <1>7. GitInv'
    BY <1>2, <1>3 DEF GitInv
  <1>8. FolderInv'
    BY <1>2, <1>3 DEF FolderInv
  <1>9. Pending' = Pending
    BY <1>2, <1>3 DEF Pending
  <1>10. PacketInv'
    BY <1>2, <1>9 DEF PacketInv
  <1>11. BackendSeesItsRequest'
    BY <1>3, <1>4 DEF BackendSeesItsRequest, None
  <1>12. FolderIsKnown'
    BY <1>4 DEF FolderIsKnown
  <1>13. QED
    BY <1>5, <1>6, <1>7, <1>8, <1>10, <1>11, <1>12

(* The flag of the folder, the folder, and the way to the handler.         *)
LEMMA EnterStep ==
  ASSUME SiteInv, NEW t \in Threads, Enter(t)
  PROVE  SiteInv'
  <1>. USE DEF SiteInv, InGit, InPackets, Before, fileVars, gitVars, packetVars
  <1>1. PICK place : at' = [at EXCEPT ![t] = place] /\ Moves(t, place)
    BY DEF Enter, CheckFolder, LoadFolder, SetFolder, Moves, Go
  <1>2. /\ UNCHANGED <<request, answer, i, environment, backendFile, packets, UpdatedPackets, damaged, sent>>
        /\ at[t] \in {"handles", "loadFolder", "setFolder"}
    BY DEF Enter, CheckFolder, LoadFolder, SetFolder, Moves
  <1>3. DOMAIN at' = Threads /\ at'[t] = place /\ \A u \in Threads \ {t} : at'[u] = at[u]
    BY <1>1 DEF SiteType
  <1>4. BackendSeesItsRequest' /\ FolderIsKnown'
    BY <1>2 DEF BackendSeesItsRequest, FolderIsKnown
  <1>5. \/ at'[t] \in {"loadFolder", "setFolder"}
        \/ /\ at'[t] \notin Special \cup {"handles", "loadFolder"}
           /\ at'[t] = "MBPM" => request[t].top = "MBPM"
    <2>1. at'[t] = HandlerOf(request[t]) \/ at'[t] \in {"loadFolder", "setFolder"}
      BY DEF Enter, CheckFolder, LoadFolder, SetFolder, Moves, Go, SiteType
    <2>2. QED
      BY <2>1, HandlerIsKnown
  <1>6. GitInv'
    BY <1>2, <1>3, <1>5 DEF GitInv, Special
  <1>7. Pending' = Pending
    BY <1>2, <1>3, <1>5 DEF Pending, Special
  <1>8. PacketInv'
    BY <1>2, <1>7 DEF PacketInv
  <1>9. mutex' \in [Mutexes -> Threads \cup {None}]
    BY DEF Enter, CheckFolder, LoadFolder, SetFolder, Holding, Leaving, SiteType
  <1>10. mutex'["upload"] = mutex["upload"] /\ mutex'["write"] = mutex["write"]
    BY DEF Enter, CheckFolder, LoadFolder, SetFolder, Holding, Leaving, SiteType, Mutexes
  <1>11. DOMAIN folder' = {"loaded", "path"} /\ folder'.loaded \in BOOLEAN
    <2>1. \/ folder' = folder \/ folder' = [folder EXCEPT !.loaded = TRUE]
          \/ folder' = [folder EXCEPT !.path = "mrboboget.se"]
      BY DEF Enter, CheckFolder, LoadFolder, SetFolder, siteVars
    <2>2. QED
      BY <2>1 DEF SiteType
  <1>12. SiteType'
    BY <1>2, <1>3, <1>9, <1>11 DEF SiteType
  <1>13. CASE CheckFolder(t)
    <2>1. /\ at[t] = "handles" /\ mutex' = mutex /\ folder' = folder /\ at'[t] # "setFolder"
          /\ at'[t] = "loadFolder" \/ folder.loaded
      <3>1. /\ at[t] = "handles" /\ mutex' = mutex /\ folder' = folder
            /\ at'[t] = IF folder.loaded THEN HandlerOf(request[t]) ELSE "loadFolder"
        BY <1>13 DEF CheckFolder, Moves, Go, siteVars, SiteType
      <3>2. QED
        BY <3>1, HandlerIsKnown DEF Special
    <2>2. Places'
      BY <1>2, <1>3, <1>5, <2>1 DEF Places, Special
    <2>3. FolderInv'
      BY <1>3, <2>1 DEF FolderInv
    <2>4. QED
      BY <1>4, <1>6, <1>8, <1>12, <2>2, <2>3
  <1>14. CASE LoadFolder(t)
    <2>1. /\ at[t] = "loadFolder" /\ mutex["folder"] = None /\ mutex'["folder"] = t
          /\ at'[t] = "setFolder" /\ folder' = [folder EXCEPT !.loaded = TRUE]
      BY <1>14 DEF LoadFolder, Moves, Go, SiteType, Free, Holding, Mutexes
    <2>2. folder'.loaded /\ folder'.path = folder.path
      BY <2>1 DEF SiteType
    <2>3. Places'
      BY <1>2, <1>3, <1>10, <2>1, RequestsAssumption DEF Places, None
    <2>4. FolderInv'
      BY <1>3, <2>1, <2>2 DEF FolderInv
    <2>5. QED
      BY <1>4, <1>6, <1>8, <1>12, <2>3, <2>4
  <1>15. CASE SetFolder(t)
    <2>1. /\ at[t] = "setFolder" /\ at'[t] # "setFolder" /\ at'[t] # "loadFolder"
          /\ folder' = [folder EXCEPT !.path = "mrboboget.se"]
      <3>1. /\ at[t] = "setFolder" /\ at'[t] = HandlerOf(request[t])
            /\ folder' = [folder EXCEPT !.path = "mrboboget.se"]
        BY <1>15 DEF SetFolder, Moves, Go, SiteType
      <3>2. QED
        BY <3>1, HandlerIsKnown DEF Special
    <2>2. folder'.loaded = folder.loaded /\ folder'.path # None
      BY <2>1 DEF SiteType, None
    <2>3. mutex["folder"] = t
      BY <2>1 DEF Places
    <2>4. Places'
      BY <1>2, <1>3, <1>5, <1>10, <2>1, <2>3 DEF Places, Special
    <2>5. FolderInv'
      BY <1>3, <2>1, <2>2 DEF FolderInv
    <2>6. QED
      BY <1>4, <1>6, <1>8, <1>12, <2>4, <2>5
  <1>16. QED
    BY <1>13, <1>14, <1>15 DEF Enter

(* The plugins are added before requests come.                             *)
LEMMA StartStep ==
  ASSUME SiteInv, Start \/ UNCHANGED vars
  PROVE  SiteInv'
  <1>1. UNCHANGED <<at, request, i, mutex, answer, environment, backendFile, packets, UpdatedPackets,
                    damaged, sent, folder>>
    BY DEF Start, AddPlugin, OnCreate, vars, threadVars, siteVars, fileVars, gitVars, packetVars
  <1>2. SiteType' /\ Places' /\ GitInv' /\ FolderInv'
    BY <1>1 DEF SiteInv, SiteType, Places, GitInv, FolderInv
  <1>3. Pending' = Pending
    BY <1>1 DEF Pending
  <1>4. PacketInv'
    BY <1>1, <1>3 DEF SiteInv, PacketInv
  <1>5. BackendSeesItsRequest' /\ FolderIsKnown'
    BY <1>1 DEF SiteInv, BackendSeesItsRequest, FolderIsKnown
  <1>6. QED
    BY <1>2, <1>4, <1>5 DEF SiteInv

(* An incorporation that is cut short takes objects from one directory to  *)
(* another, and what it leaves half done is in doubt.                      *)
LEMMA CutShortFacts ==
  ASSUME NEW p, NEW d, NEW e, NEW deleted, NEW computer, NEW objects,
         NEW is \in Directories, PacketFacts(p, is, objects, d),
         deleted \in SUBSET UNION {r.deleted : r \in PacketRequests},
         NEW q \in CutShort(is, deleted, computer), d \subseteq e,
         computer = "known" => <<p, "diffIndex">> \in e /\ <<p, "removed">> \in e,
         computer # "known" => <<p, "index">> \in e
  PROVE  q \in Directories /\ PacketFacts(p, q, objects \ deleted, e)
  <1>. DEFINE to == IF computer = "known" THEN "diff" ELSE "data"
  <1>1. CASE q = is
    BY <1>1 DEF PacketFacts
  <1>2. ASSUME NEW m \in SUBSET is.uploaded, is.changes,
               q = [is EXCEPT !.uploaded = @ \ m, ![to] = @ \cup m]
        PROVE  q \in Directories /\ PacketFacts(p, q, objects \ deleted, e)
    <2>1. CASE computer = "known"
      <3>1. /\ q \in Directories /\ q.uploaded = is.uploaded \ m /\ q.diff = is.diff \cup m
            /\ q.data = is.data /\ q.index = is.index /\ q.changes
        BY <1>2, <2>1 DEF Directories
      <3>. HIDE DEF to
      <3>2. QED
        BY <2>1, <3>1 DEF PacketFacts
    <2>2. CASE computer # "known"
      <3>1. /\ q \in Directories /\ q.uploaded = is.uploaded \ m /\ q.data = is.data \cup m
            /\ q.diff = is.diff /\ q.diffIndex = is.diffIndex /\ q.removed = is.removed /\ q.changes
        BY <1>2, <2>2 DEF Directories
      <3>. HIDE DEF to
      <3>2. QED
        BY <2>2, <3>1 DEF PacketFacts
    <2>3. QED
      BY <2>1, <2>2
  <1>3. ASSUME NEW o \in SUBSET deleted, is.changes,
               q = [is EXCEPT !.uploaded = {}, ![to] = (@ \cup is.uploaded) \ o]
        PROVE  q \in Directories /\ PacketFacts(p, q, objects \ deleted, e)
    <2>1. CASE computer = "known"
      <3>1. /\ q \in Directories /\ q.uploaded = {} /\ q.diff = (is.diff \cup is.uploaded) \ o
            /\ q.data = is.data /\ q.index = is.index
        BY <1>3, <2>1 DEF Directories
      <3>. HIDE DEF to
      <3>2. QED
        BY <2>1, <3>1 DEF PacketFacts
    <2>2. CASE computer # "known"
      <3>1. /\ q \in Directories /\ q.uploaded = {} /\ q.data = (is.data \cup is.uploaded) \ o
            /\ q.diff = is.diff /\ q.diffIndex = is.diffIndex /\ q.removed = is.removed
        BY <1>3, <2>2 DEF Directories
      <3>. HIDE DEF to
      <3>2. QED
        BY <2>2, <3>1 DEF PacketFacts
    <2>3. QED
      BY <2>1, <2>2
  <1>4. ASSUME is.changes,
               NEW l \in {is.removed, Incorporated(is, deleted, computer).removed},
               q = [Incorporated(is, deleted, computer) EXCEPT !.index = is.index,
                       !.diffIndex = is.diffIndex, !.removed = l]
        PROVE  q \in Directories /\ PacketFacts(p, q, objects \ deleted, e)
    <2>1. CASE computer = "known"
      <3>1. /\ q \in Directories /\ q.uploaded = {}
            /\ q.diff = (is.diff \cup is.uploaded) \ deleted
            /\ q.data = is.data /\ q.index = is.index
        BY <1>4, <2>1 DEF Incorporated, IntoDiff, Directories
      <3>2. QED
        BY <2>1, <3>1 DEF PacketFacts
    <2>2. CASE computer # "known"
      <3>1. /\ q \in Directories /\ q.uploaded = {}
            /\ q.data = (is.data \cup is.uploaded) \ deleted
            /\ q.diff = is.diff /\ q.diffIndex = is.diffIndex /\ q.removed = is.removed
        BY <1>4, <2>2 DEF Incorporated, IntoPacket, Directories
      <3>2. QED
        BY <2>2, <3>1 DEF PacketFacts
    <2>3. QED
      BY <2>1, <2>2
  <1>5. QED
    BY <1>1, <1>2, <1>3, <1>4 DEF CutShort

(* The upload that is taken up next is one of a request for packets.       *)
LEMMA LastIsUpload ==
  ASSUME SiteType, NEW t \in Threads, Incorporating(t)
  PROVE  LET n == Len(UpdatedPackets)
             tuple == UpdatedPackets[n]
         IN  /\ n \in Nat /\ n > 0 /\ Last(UpdatedPackets) = tuple
             /\ tuple[2] \in {"any", "known", "unknown"}
             /\ tuple[3] \in SUBSET UNION {s.deleted : s \in PacketRequests}
  <1>. DEFINE n == Len(UpdatedPackets)
              tuple == UpdatedPackets[n]
  <1>1. n \in Nat /\ n > 0 /\ tuple \in Uploads
    BY DEF SiteType, Incorporating
  <1>2. PICK r \in PacketRequests : tuple = <<r.packet, r.computer, r.deleted>>
    BY <1>1 DEF Uploads
  <1>3. tuple[2] \in {"any", "known", "unknown"}
    BY <1>2, PacketsAssumption DEF PacketRequests, AllRequests
  <1>4. tuple[3] \in SUBSET UNION {s.deleted : s \in PacketRequests}
    BY <1>2
  <1>5. QED
    BY <1>1, <1>3, <1>4 DEF Last

(* ... so that the packet's facts hold afterwards, and whatever was not    *)
(* taken up is in doubt.                                                   *)
LEMMA InterruptKeeps ==
  ASSUME SiteInv, NEW t \in Threads, Incorporating(t), Interrupt
  PROVE  /\ packets' \in [Packets -> Directories] /\ sent' \in [Packets -> SUBSET Objects]
         /\ \A p \in Packets :
               /\ PacketFacts(p, packets'[p], sent'[p], damaged')
               /\ packets'[p].uploaded # {} => <<p, "uploaded">> \in damaged'
  <1>. DEFINE n == Len(UpdatedPackets)
              tuple == UpdatedPackets[n]
              name == tuple[1]
  <1>1. /\ n \in Nat /\ n > 0 /\ Last(UpdatedPackets) = tuple
        /\ tuple[2] \in {"any", "known", "unknown"}
        /\ tuple[3] \in SUBSET UNION {s.deleted : s \in PacketRequests}
    BY LastIsUpload DEF SiteInv
  <1>2. PICK q \in CutShort(packets[name], tuple[3], tuple[2]) :
           packets' = [packets EXCEPT ![name] = q]
    BY <1>1 DEF Interrupt
  <1>3. damaged' = damaged \cup Doubtful(tuple) /\ sent' = [sent EXCEPT ![name] = @ \ tuple[3]]
    BY <1>1 DEF Interrupt, Forget
  <1>4. /\ damaged \subseteq damaged' /\ <<name, "uploaded">> \in damaged'
        /\ tuple[2] = "known" => <<name, "diffIndex">> \in damaged' /\ <<name, "removed">> \in damaged'
        /\ tuple[2] # "known" => <<name, "index">> \in damaged'
    BY <1>3 DEF Doubtful
  <1>. HIDE DEF tuple, name
  <1>5. ASSUME name \in Packets
        PROVE  q \in Directories /\ PacketFacts(name, q, sent[name] \ tuple[3], damaged')
    <2>1. packets[name] \in Directories /\ PacketFacts(name, packets[name], sent[name], damaged)
      BY <1>5 DEF SiteInv, SiteType, PacketInv
    <2>2. QED
      BY <1>1, <1>2, <1>4, <2>1, CutShortFacts
  <1>6. /\ packets' \in [Packets -> Directories] /\ sent' \in [Packets -> SUBSET Objects]
        /\ \A p \in Packets \ {name} : packets'[p] = packets[p] /\ sent'[p] = sent[p]
        /\ name \in Packets => packets'[name] = q /\ sent'[name] = sent[name] \ tuple[3]
    BY <1>2, <1>3, <1>5 DEF SiteInv, SiteType
  <1>7. ASSUME NEW p \in Packets
        PROVE  /\ PacketFacts(p, packets'[p], sent'[p], damaged')
               /\ packets'[p].uploaded # {} => <<p, "uploaded">> \in damaged'
    <2>1. CASE p = name
      BY <1>4, <1>5, <1>6, <1>7, <2>1
    <2>2. CASE p # name
      <3>1. packets'[p] = packets[p] /\ sent'[p] = sent[p]
        BY <1>6, <1>7, <2>2
      <3>2. /\ PacketFacts(p, packets[p], sent[p], damaged)
            /\ packets[p].uploaded # {} => <<p, "uploaded">> \in damaged
        BY <2>2 DEF SiteInv, PacketInv, name, tuple
      <3>3. PacketFacts(p, packets[p], sent[p], damaged')
        BY <1>4, <3>2 DEF PacketFacts
      <3>4. QED
        BY <1>4, <3>1, <3>2, <3>3
    <2>3. QED
      BY <2>1, <2>2
  <1>8. QED
    BY <1>6, <1>7

(* After a crash nobody holds a mutex, and what an upload left is in doubt. *)
LEMMA CrashStep ==
  ASSUME SiteInv, Crash
  PROVE  SiteInv'
  <1>. USE DEF SiteInv, InGit, InPackets, Before
  <1>1. /\ at' = [t \in Threads |-> "idle"] /\ request' = [t \in Threads |-> [top |-> None]]
        /\ i' = [t \in Threads |-> 0] /\ mutex' = [m \in Mutexes |-> None]
        /\ answer' = [t \in Threads |-> [status |-> None]]
        /\ folder' = [loaded |-> FALSE, path |-> None]
        /\ UpdatedPackets' = <<>>
    BY DEF Crash
  <1>2. /\ packets' \in [Packets -> Directories] /\ sent' \in [Packets -> SUBSET Objects]
        /\ \A p \in Packets :
              /\ PacketFacts(p, packets'[p], sent'[p], damaged')
              /\ packets'[p].uploaded # {} => <<p, "uploaded">> \in damaged'
    <2>1. CASE \E t \in Threads : Incorporating(t) /\ Interrupt
      BY <2>1, InterruptKeeps
    <2>2. CASE /\ UNCHANGED <<packets, sent>>
               /\ damaged' = damaged \cup {<<p, "uploaded">> : p \in {q \in Packets : packets[q].changes}}
      <3>1. packets' \in [Packets -> Directories] /\ sent' \in [Packets -> SUBSET Objects]
        BY <2>2 DEF SiteType
      <3>2. ASSUME NEW p \in Packets
            PROVE  /\ PacketFacts(p, packets[p], sent[p], damaged')
                   /\ packets[p].uploaded # {} => <<p, "uploaded">> \in damaged'
        <4>1. PacketFacts(p, packets[p], sent[p], damaged)
          BY DEF PacketInv
        <4>2. PacketFacts(p, packets[p], sent[p], damaged')
          BY <2>2, <4>1 DEF PacketFacts
        <4>3. packets[p].uploaded # {} => packets[p].changes
          BY <4>1 DEF PacketFacts
        <4>4. QED
          BY <2>2, <4>2, <4>3
      <3>3. QED
        BY <2>2, <3>1, <3>2
    <2>3. QED
      BY <2>1, <2>2 DEF Crash
  <1>3. SiteType'
    <2>1. DOMAIN folder' = {"loaded", "path"} /\ folder'.loaded \in BOOLEAN
      BY <1>1
    <2>2. UpdatedPackets' \in Seq(Uploads)
      BY <1>1
    <2>3. QED
      BY <1>1, <1>2, <2>1, <2>2 DEF SiteType
  <1>4. Places' /\ GitInv' /\ FolderInv'
    BY <1>1 DEF Places, GitInv, FolderInv
  <1>5. PacketInv'
    BY <1>2 DEF PacketInv
  <1>6. BackendSeesItsRequest' /\ FolderIsKnown'
    BY <1>1 DEF BackendSeesItsRequest, FolderIsKnown, None
  <1>7. QED
    BY <1>3, <1>4, <1>5, <1>6

-----------------------------------------------------------------------------
(* The steps with the packets' mutex.                                      *)

(* What comes for a packet is put with what is there.                      *)
LEMMA StoredFacts ==
  ASSUME SiteType, NEW r, NEW objects \in SUBSET Objects, NEW e, damaged \subseteq e,
         Stored(r, objects), \A p \in Packets : PacketFacts(p, packets[p], sent[p], damaged)
  PROVE  /\ packets' \in [Packets -> Directories] /\ sent' \in [Packets -> SUBSET Objects]
         /\ \A p \in Packets :
               /\ PacketFacts(p, packets'[p], sent'[p], e)
               /\ p # r.packet \/ objects = {} => packets'[p].uploaded = packets[p].uploaded
  <1>. DEFINE name == r.packet
              q == [packets[name] EXCEPT !.uploaded = @ \cup objects, !.changes = @ \/ objects # {}]
  <1>1. packets' = [packets EXCEPT ![name] = q] /\ sent' = [sent EXCEPT ![name] = @ \cup objects]
    BY DEF Stored
  <1>2. ASSUME name \in Packets
        PROVE  /\ q \in Directories /\ PacketFacts(name, q, sent[name] \cup objects, e)
               /\ objects = {} => q.uploaded = packets[name].uploaded
    <2>1. packets[name] \in Directories /\ PacketFacts(name, packets[name], sent[name], damaged)
      BY <1>2 DEF SiteType
    <2>2. /\ q \in Directories /\ q.uploaded = packets[name].uploaded \cup objects
          /\ q.diff = packets[name].diff /\ q.data = packets[name].data
          /\ q.removed = packets[name].removed /\ q.index = packets[name].index
          /\ q.diffIndex = packets[name].diffIndex
          /\ q.changes = (packets[name].changes \/ objects # {})
      BY <2>1 DEF Directories
    <2>. HIDE DEF q, name
    <2>3. PacketFacts(name, q, sent[name] \cup objects, e)
      BY <2>1, <2>2 DEF PacketFacts
    <2>4. QED
      BY <2>2, <2>3
  <1>. HIDE DEF q, name
  <1>3. /\ packets' \in [Packets -> Directories] /\ sent' \in [Packets -> SUBSET Objects]
        /\ \A p \in Packets \ {name} : packets'[p] = packets[p] /\ sent'[p] = sent[p]
        /\ name \in Packets => packets'[name] = q /\ sent'[name] = sent[name] \cup objects
    BY <1>1, <1>2 DEF SiteType
  <1>4. ASSUME NEW p \in Packets
        PROVE  /\ PacketFacts(p, packets'[p], sent'[p], e)
               /\ p # name \/ objects = {} => packets'[p].uploaded = packets[p].uploaded
    <2>1. CASE p = name
      BY <1>2, <1>3, <1>4, <2>1
    <2>2. CASE p # name
      <3>1. packets'[p] = packets[p] /\ sent'[p] = sent[p] /\ PacketFacts(p, packets[p], sent[p], damaged)
        BY <1>3, <1>4, <2>2
      <3>2. PacketFacts(p, packets[p], sent[p], e)
        BY <3>1 DEF PacketFacts
      <3>3. QED
        BY <3>1, <3>2
    <2>3. QED
      BY <2>1, <2>2
  <1>5. QED
    BY <1>3, <1>4 DEF name

(* The list of uploads with one more.                                      *)
LEMMA ReportedUpload ==
  ASSUME SiteType, NEW r \in PacketRequests, Reported(r)
  PROVE  /\ UpdatedPackets' \in Seq(Uploads) /\ UpdatedPackets' # << >>
         /\ UpdatedPackets'[Len(UpdatedPackets')][1] = r.packet
  <1>. DEFINE tuple == <<r.packet, r.computer, r.deleted>>
  <1>1. tuple \in Uploads /\ tuple[1] = r.packet
    BY DEF Uploads
  <1>2. UpdatedPackets' = Append(UpdatedPackets, tuple)
    BY DEF Reported
  <1>. HIDE DEF tuple
  <1>3. UpdatedPackets \in Seq(Uploads)
    BY DEF SiteType
  <1>4. /\ UpdatedPackets' \in Seq(Uploads) /\ Len(UpdatedPackets') = Len(UpdatedPackets) + 1
        /\ UpdatedPackets'[Len(UpdatedPackets) + 1] = tuple
    BY <1>1, <1>2, <1>3
  <1>5. UpdatedPackets' # << >>
    BY <1>3, <1>4
  <1>6. QED
    BY <1>1, <1>4, <1>5

(* An upload is reported when no other one waits, but for those that are   *)
(* in doubt.                                                               *)
LEMMA PacketRequestStep ==
  ASSUME SiteInv, NEW t \in Threads, PacketRequest(t)
  PROVE  SiteInv'
  <1>. USE DEF SiteInv, InGit, InPackets, Before, siteVars, gitVars
  <1>. DEFINE r == request[t]
  <1>1. /\ at[t] = "MBPM" /\ mutex["write"] = None /\ Holding(t, {"write"})
        /\ at' = [at EXCEPT ![t] = "respond"]
        /\ UNCHANGED <<request, answer, i, environment, backendFile, damaged, folder>>
    BY DEF PacketRequest, Moves, Go, Free
  <1>2. r \in PacketRequests /\ r.files \in SUBSET Objects
    BY <1>1 DEF Places, PacketRequests, Objects
  <1>3. /\ DOMAIN at' = Threads /\ at'[t] = "respond"
        /\ \A u \in Threads : at[u] \notin InPackets /\ (u # t => at'[u] = at[u])
    BY <1>1, Exclusion DEF SiteType
  <1>4. /\ mutex' \in [Mutexes -> Threads \cup {None}] /\ mutex'["write"] = t
        /\ mutex'["upload"] = mutex["upload"] /\ mutex'["folder"] = mutex["folder"]
    BY <1>1 DEF SiteType, Holding, Mutexes
  <1>5. Places' /\ GitInv' /\ FolderInv'
    <2>1. Places'
      BY <1>1, <1>3, <1>4 DEF Places
    <2>2. GitInv'
      BY <1>1, <1>3 DEF GitInv
    <2>3. FolderInv'
      BY <1>1, <1>3 DEF FolderInv
    <2>4. QED
      BY <2>1, <2>2, <2>3
  <1>6. BackendSeesItsRequest' /\ FolderIsKnown'
    BY <1>1 DEF BackendSeesItsRequest, FolderIsKnown
  <1>7. ~ Pending /\ Pending'
    BY <1>3 DEF Pending
  <1>8. \A p \in Packets : /\ PacketFacts(p, packets[p], sent[p], damaged)
                           /\ packets[p].uploaded # {} => <<p, "uploaded">> \in damaged
    BY <1>7 DEF PacketInv
  <1>9. CASE UNCHANGED <<packets, sent, UpdatedPackets>>
    <2>1. SiteType'
      BY <1>1, <1>3, <1>4, <1>9 DEF SiteType
    <2>2. PacketInv'
      BY <1>1, <1>8, <1>9 DEF PacketInv
    <2>3. QED
      BY <1>5, <1>6, <2>1, <2>2
  <1>10. CASE Stored(r, r.files) /\ Reported(r)
    <2>1. SiteType /\ \A p \in Packets : PacketFacts(p, packets[p], sent[p], damaged)
      BY <1>8
    <2>. HIDE DEF r, SiteInv
    <2>2. /\ packets' \in [Packets -> Directories] /\ sent' \in [Packets -> SUBSET Objects]
          /\ \A p \in Packets :
                /\ PacketFacts(p, packets'[p], sent'[p], damaged)
                /\ p # r.packet => packets'[p].uploaded = packets[p].uploaded
      BY <1>2, <1>10, <2>1, StoredFacts
    <2>3. /\ UpdatedPackets' \in Seq(Uploads) /\ UpdatedPackets' # << >>
          /\ UpdatedPackets'[Len(UpdatedPackets')][1] = r.packet
      BY <1>2, <1>10, <2>1, ReportedUpload
    <2>4. SiteType'
      BY <1>1, <1>3, <1>4, <2>1, <2>2, <2>3 DEF SiteType
    <2>5. PacketInv'
      BY <1>1, <1>7, <1>8, <2>2, <2>3 DEF PacketInv
    <2>6. QED
      BY <1>5, <1>6, <2>4, <2>5 DEF SiteInv
  <1>11. QED
    BY <1>9, <1>10 DEF PacketRequest

(* The thread leaves the packets, with what has not been taken up in doubt. *)
LEMMA LeavePackets ==
  ASSUME SiteInv, NEW t \in Threads, NEW s, Says(t, s), s # "git",
         at[t] \in {"MBPM", "incorporate"},
         UNCHANGED <<environment, backendFile, folder>>,
         UpdatedPackets' \in Seq(Uploads),
         packets' \in [Packets -> Directories], sent' \in [Packets -> SUBSET Objects],
         \A p \in Packets : /\ PacketFacts(p, packets'[p], sent'[p], damaged')
                            /\ packets'[p].uploaded # {} => <<p, "uploaded">> \in damaged'
  PROVE  SiteInv'
  <1>. USE DEF SiteInv, InGit, InPackets, Before
  <1>1. Local(t)
    BY SaysIsLocal
  <1>2. \A u \in Threads : at'[u] = at[u] \/ (u = t /\ at'[u] \notin Special \cup {"MBPM", "handles", "loadFolder"})
    BY <1>1 DEF Local
  <1>3. at'[t] \notin Special
    BY <1>1 DEF Local
  <1>4. SiteType'
    BY <1>1 DEF SiteType, Local
  <1>5. Places'
    BY <1>1, <1>2 DEF Places, Local, Shared, Special
  <1>6. GitInv'
    BY <1>1, <1>2 DEF GitInv, Local, Special
  <1>7. FolderInv'
    BY <1>1, <1>2 DEF FolderInv, Local
  <1>8. PacketInv'
    BY DEF PacketInv
  <1>9. BackendSeesItsRequest'
    BY <1>1 DEF BackendSeesItsRequest, Local
  <1>10. FolderIsKnown'
    BY <1>1 DEF FolderIsKnown, Local
  <1>11. QED
    BY <1>4, <1>5, <1>6, <1>7, <1>8, <1>9, <1>10

(* What has come of a request that breaks is in doubt.                     *)
LEMMA RequestBreaksStep ==
  ASSUME SiteInv, NEW t \in Threads, RequestBreaks(t)
  PROVE  SiteInv'
  <1>. USE DEF siteVars, gitVars
  <1>. DEFINE r == request[t]
  <1>1. /\ at[t] = "MBPM" /\ mutex["write"] = None /\ Says(t, "Conflict")
        /\ UpdatedPackets' = UpdatedPackets \/ Reported(r)
        /\ UNCHANGED <<environment, backendFile, folder>>
    BY DEF RequestBreaks, Free
  <1>2. PICK objects \in SUBSET r.files :
           /\ Stored(r, objects)
           /\ damaged' = damaged \cup {<<r.packet, "uploaded">> : o \in objects}
    BY DEF RequestBreaks
  <1>3. r \in PacketRequests /\ r.files \in SUBSET Objects
    BY <1>1 DEF SiteInv, Places, PacketRequests, Objects
  <1>4. objects \in SUBSET Objects /\ damaged \subseteq damaged'
        /\ (objects # {} => <<r.packet, "uploaded">> \in damaged')
    BY <1>2, <1>3
  <1>5. ~ Pending
    BY <1>1, Exclusion DEF SiteInv, Pending, InPackets
  <1>6. /\ SiteType
        /\ \A p \in Packets : PacketFacts(p, packets[p], sent[p], damaged)
        /\ \A p \in Packets : packets[p].uploaded # {} => <<p, "uploaded">> \in damaged
    BY <1>5 DEF SiteInv, PacketInv
  <1>. HIDE DEF r
  <1>11. Stored(r, objects)
    BY <1>2
  <1>13. objects \in SUBSET Objects /\ damaged \subseteq damaged'
    BY <1>4
  <1>12. \A p \in Packets : PacketFacts(p, packets[p], sent[p], damaged)
    BY <1>6
  <1>7. /\ packets' \in [Packets -> Directories] /\ sent' \in [Packets -> SUBSET Objects]
        /\ \A p \in Packets :
              /\ PacketFacts(p, packets'[p], sent'[p], damaged')
              /\ p # r.packet \/ objects = {} => packets'[p].uploaded = packets[p].uploaded
    BY <1>6, <1>11, <1>12, <1>13, StoredFacts
  <1>8. UpdatedPackets' \in Seq(Uploads)
    <2>1. CASE UpdatedPackets' = UpdatedPackets
      BY <1>6, <2>1 DEF SiteType
    <2>2. CASE Reported(r)
      BY <1>3, <1>6, <2>2, ReportedUpload
    <2>3. QED
      BY <1>1, <2>1, <2>2
  <1>9. \A p \in Packets : packets'[p].uploaded # {} => <<p, "uploaded">> \in damaged'
    <2>1. ASSUME NEW p \in Packets, packets'[p].uploaded # {} PROVE <<p, "uploaded">> \in damaged'
      <3>1. CASE p = r.packet /\ objects # {}
        BY <1>4, <3>1
      <3>2. CASE ~(p = r.packet /\ objects # {})
        <4>4. p # r.packet \/ objects = {}
          BY <3>2
        <4>5. packets'[p].uploaded = packets[p].uploaded
          BY <1>7, <4>4
        <4>1. packets[p].uploaded # {}
          BY <2>1, <4>5
        <4>2. <<p, "uploaded">> \in damaged
          BY <1>6, <4>1
        <4>3. QED
          BY <1>4, <4>2
      <3>3. QED
        BY <3>1, <3>2
    <2>2. QED
      BY <2>1
  <1>10. QED
    BY <1>1, <1>7, <1>8, <1>9, LeavePackets

(* The client is answered, and the upload still waits to be taken up.      *)
LEMMA RespondStep ==
  ASSUME SiteInv, NEW t \in Threads, Respond(t)
  PROVE  SiteInv'
  <1>. USE DEF SiteInv, InGit, InPackets, Before, siteVars, fileVars, gitVars, packetVars
  <1>1. /\ at[t] = "respond" /\ at' = [at EXCEPT ![t] = "incorporate"] /\ i' = [i EXCEPT ![t] = 0]
        /\ UNCHANGED <<request, answer, mutex, environment, backendFile, packets, UpdatedPackets,
                       damaged, sent, folder>>
    BY DEF Respond, Moves, Go, Keep
  <1>2. DOMAIN at' = Threads /\ at'[t] = "incorporate" /\ \A u \in Threads \ {t} : at'[u] = at[u]
    BY <1>1 DEF SiteType
  <1>3. i' \in [Threads -> Nat] /\ i'[t] = 0
    BY <1>1 DEF SiteType
  <1>4. SiteType'
    BY <1>1, <1>2, <1>3 DEF SiteType
  <1>5. Places'
    BY <1>1, <1>2 DEF Places
  <1>6. GitInv'
    BY <1>1, <1>2 DEF GitInv
  <1>7. FolderInv'
    BY <1>1, <1>2 DEF FolderInv
  <1>8. Pending /\ Pending'
    BY <1>1, <1>2, <1>3 DEF Pending
  <1>9. PacketInv'
    BY <1>1, <1>8 DEF PacketInv
  <1>10. BackendSeesItsRequest' /\ FolderIsKnown'
    BY <1>1 DEF BackendSeesItsRequest, FolderIsKnown
  <1>11. QED
    BY <1>4, <1>5, <1>6, <1>7, <1>9, <1>10

(* Taking an upload up leaves a packet whole: no object is lost or both had *)
(* and not to be had, and the index that is written tells what is there.   *)
LEMMA IncorporatedIsWhole ==
  ASSUME NEW p, NEW d, NEW deleted, NEW passed \in SUBSET deleted, NEW computer, NEW objects,
         NEW is \in Directories, PacketFacts(p, is, objects, d),
         deleted \in SUBSET UNION {r.deleted : r \in PacketRequests},
         computer \in {"any", "known", "unknown"}
  PROVE  LET q == Incorporated(is, passed, computer)
             e == IF ~is.changes THEN d
                  ELSE (d \ Renewed(<<p, computer, deleted>>)) \cup
                       IF computer = "unknown" THEN {<<p, "index">>} ELSE {}
         IN  q \in Directories /\ q.uploaded = {} /\ PacketFacts(p, q, objects \ deleted, e)
  <1>. DEFINE q == Incorporated(is, passed, computer)
              e == IF ~is.changes THEN d
                   ELSE (d \ Renewed(<<p, computer, deleted>>)) \cup
                        IF computer = "unknown" THEN {<<p, "index">>} ELSE {}
  <1>1. CASE ~is.changes
    <2>1. q = is /\ e = d
      BY <1>1 DEF Incorporated
    <2>. HIDE DEF q, e
    <2>2. is.uploaded = {} /\ PacketFacts(p, is, objects \ deleted, d)
      BY <1>1 DEF PacketFacts
    <2>3. QED
      BY <2>1, <2>2 DEF q, e
  <1>2. CASE is.changes /\ computer = "known"
    <2>1. q = IntoDiff(is, passed)
      BY <1>2 DEF Incorporated
    <2>2. /\ q \in Directories /\ q.uploaded = {} /\ q.index = is.index /\ q.data = is.data
          /\ q.diff = (is.diff \cup is.uploaded) \ passed /\ q.diffIndex = q.diff
          /\ q.removed = (is.removed \cup (passed \ (is.diff \cup is.uploaded))) \ is.uploaded
      BY <2>1 DEF IntoDiff, Directories
    <2>3. /\ <<p, "removed">> \notin e => <<p, "removed">> \notin d
          /\ <<p, "index">> \notin e => <<p, "index">> \notin d
      BY <1>2 DEF Renewed
    <2>. HIDE DEF q, e
    <2>4. PacketFacts(p, q, objects \ deleted, e)
      BY <2>2, <2>3 DEF PacketFacts
    <2>5. QED
      BY <2>2, <2>4 DEF q, e
  <1>3. CASE is.changes /\ computer # "known"
    <2>1. q = IntoPacket(is, passed, computer)
      BY <1>3 DEF Incorporated
    <2>2. /\ q \in Directories /\ q.uploaded = {}
          /\ q.data = (is.data \cup is.uploaded) \ passed
          /\ computer = "any" => q.index = q.data
          /\ q.diff = is.diff /\ q.removed = is.removed /\ q.diffIndex = is.diffIndex
      BY <2>1 DEF IntoPacket, Directories
    <2>3. /\ <<p, "removed">> \notin e => <<p, "removed">> \notin d
          /\ <<p, "diffIndex">> \notin e => <<p, "diffIndex">> \notin d
          /\ <<p, "index">> \notin e => computer = "any"
      BY <1>3 DEF Renewed
    <2>. HIDE DEF q, e
    <2>4. PacketFacts(p, q, objects \ deleted, e)
      BY <2>2, <2>3 DEF PacketFacts
    <2>5. QED
      BY <2>2, <2>4 DEF q, e
  <1>4. QED
    BY <1>1, <1>2, <1>3

(* A sequence without its last element.                                    *)
LEMMA FrontOfSequence ==
  ASSUME NEW S, NEW s \in Seq(S), Len(s) > 0
  PROVE  /\ SubSeq(s, 1, Len(s) - 1) \in Seq(S) /\ Len(SubSeq(s, 1, Len(s) - 1)) = Len(s) - 1
         /\ \A k \in 1 .. Len(s) - 1 : SubSeq(s, 1, Len(s) - 1)[k] = s[k]
  <1>1. Len(s) \in Nat /\ Len(s) - 1 \in Nat /\ Len(s) - 1 <= Len(s)
    OBVIOUS
  <1>2. Len(SubSeq(s, 1, Len(s) - 1)) = Len(s) - 1
    BY <1>1
  <1>3. \A k \in 1 .. Len(s) - 1 : SubSeq(s, 1, Len(s) - 1)[k] = s[k]
    BY <1>1
  <1>4. SubSeq(s, 1, Len(s) - 1) \in Seq(S)
    BY <1>1, <1>2, <1>3
  <1>5. QED
    BY <1>2, <1>3, <1>4

(* The upload taken up first is the one just reported, since the list is   *)
(* used from its end.                                                      *)
LEMMA IncorporateNextStep ==
  ASSUME SiteInv, NEW t \in Threads, IncorporateNext(t)
  PROVE  SiteInv'
  <1>. USE DEF SiteInv, InGit, InPackets, Before, siteVars, gitVars
  <1>. DEFINE n == Len(UpdatedPackets)
              tuple == UpdatedPackets[n]
              name == tuple[1]
              deleted == tuple[3]
              computer == tuple[2]
  <1>1. /\ n \in Nat /\ n > 0 /\ Last(UpdatedPackets) = tuple
        /\ computer \in {"any", "known", "unknown"}
        /\ deleted \in SUBSET UNION {s.deleted : s \in PacketRequests}
    BY LastIsUpload DEF IncorporateNext
  <1>2. /\ at[t] = "incorporate" /\ i[t] < n
        /\ UpdatedPackets' = SubSeq(UpdatedPackets, 1, n - 1)
        /\ sent' = [sent EXCEPT ![name] = @ \ deleted]
        /\ i' = [i EXCEPT ![t] = i[t] + 1]
        /\ UNCHANGED <<at, request, answer, mutex, environment, backendFile, folder>>
    BY <1>1 DEF IncorporateNext, Incorporating, Forget, Front, Keep
  <1>3. damaged' = IF ~packets[name].changes THEN damaged
                   ELSE (damaged \ Renewed(tuple)) \cup
                        IF computer = "unknown" THEN {<<name, "index">>} ELSE {}
    BY <1>1 DEF IncorporateNext
  <1>4. PICK passed \in SUBSET deleted :
           packets' = [packets EXCEPT ![name] = Incorporated(packets[name], passed, computer)]
    BY <1>1 DEF IncorporateNext
  <1>5. UpdatedPackets' \in Seq(Uploads)
    BY <1>1, <1>2, FrontOfSequence DEF SiteType
  <1>6. i' \in [Threads -> Nat] /\ i'[t] # 0
    BY <1>2 DEF SiteType
  <1>7. tuple = <<name, computer, deleted>>
    <2>1. tuple \in Uploads
      BY <1>1 DEF SiteType
    <2>2. PICK r \in PacketRequests : tuple = <<r.packet, r.computer, r.deleted>>
      BY <2>1 DEF Uploads
    <2>3. QED
      BY <2>2
  <1>. DEFINE q == Incorporated(packets[name], passed, computer)
  <1>8. ASSUME name \in Packets
        PROVE  q \in Directories /\ q.uploaded = {} /\ PacketFacts(name, q, sent[name] \ deleted, damaged')
    <2>1. packets[name] \in Directories /\ PacketFacts(name, packets[name], sent[name], damaged)
      BY <1>8 DEF SiteType, PacketInv
    <2>. DEFINE e == IF ~packets[name].changes THEN damaged
                     ELSE (damaged \ Renewed(<<name, computer, deleted>>)) \cup
                          IF computer = "unknown" THEN {<<name, "index">>} ELSE {}
    <2>2. damaged' = e
      BY <1>3, <1>7
    <2>3. q \in Directories /\ q.uploaded = {} /\ PacketFacts(name, q, sent[name] \ deleted, e)
      <3>. HIDE DEF tuple, name, deleted, computer
      <3>1. QED
        BY <1>1, <1>4, <2>1, IncorporatedIsWhole
    <2>4. QED
      BY <2>2, <2>3
  <1>9. /\ packets' \in [Packets -> Directories] /\ sent' \in [Packets -> SUBSET Objects]
        /\ \A p \in Packets \ {name} : packets'[p] = packets[p] /\ sent'[p] = sent[p]
        /\ name \in Packets => packets'[name] = q /\ sent'[name] = sent[name] \ deleted
    <2>1. packets' = [packets EXCEPT ![name] = q]
      BY <1>4
    <2>. HIDE DEF q, tuple, name, deleted, computer
    <2>2. QED
      BY <1>2, <1>8, <2>1 DEF SiteType
  <1>. HIDE DEF q
  <1>10. SiteType'
    BY <1>2, <1>5, <1>6, <1>9 DEF SiteType
  <1>11. Places' /\ GitInv' /\ FolderInv'
    BY <1>2 DEF Places, GitInv, FolderInv
  <1>12. BackendSeesItsRequest' /\ FolderIsKnown'
    BY <1>2 DEF BackendSeesItsRequest, FolderIsKnown
  <1>13. \A p \in Packets \ {name} : \A part : <<p, part>> \in damaged' <=> <<p, part>> \in damaged
    BY <1>3, <1>7 DEF Renewed
  <1>14. ASSUME NEW p \in Packets
         PROVE  /\ PacketFacts(p, packets'[p], sent'[p], damaged')
                /\ packets'[p].uploaded # {} => <<p, "uploaded">> \in damaged'
    <2>1. CASE p = name
      BY <1>8, <1>9, <1>14, <2>1
    <2>2. CASE p # name
      <3>1. packets'[p] = packets[p] /\ sent'[p] = sent[p]
        BY <1>9, <2>2
      <3>2. /\ PacketFacts(p, packets[p], sent[p], damaged)
            /\ packets[p].uploaded # {} => <<p, "uploaded">> \in damaged
        BY <2>2 DEF PacketInv
      <3>. HIDE DEF tuple, name, deleted, computer
      <3>3. PacketFacts(p, packets[p], sent[p], damaged')
        BY <1>13, <2>2, <3>2 DEF PacketFacts
      <3>4. QED
        BY <1>13, <2>2, <3>1, <3>2, <3>3
    <2>3. QED
      BY <2>1, <2>2
  <1>15. PacketInv'
    BY <1>14 DEF PacketInv
  <1>16. QED
    BY <1>10, <1>11, <1>12, <1>15

(* Whatever was moved when the file system threw is in doubt.              *)
LEMMA IncorporateFailsStep ==
  ASSUME SiteInv, NEW t \in Threads, IncorporateFails(t)
  PROVE  SiteInv'
  <1>1. /\ at[t] = "incorporate" /\ Incorporating(t) /\ Interrupt /\ Says(t, "ok")
        /\ UNCHANGED <<environment, backendFile, UpdatedPackets, folder>>
    BY DEF IncorporateFails, Incorporating, siteVars, gitVars
  <1>2. /\ packets' \in [Packets -> Directories] /\ sent' \in [Packets -> SUBSET Objects]
        /\ \A p \in Packets :
              /\ PacketFacts(p, packets'[p], sent'[p], damaged')
              /\ packets'[p].uploaded # {} => <<p, "uploaded">> \in damaged'
    BY <1>1, InterruptKeeps
  <1>3. UpdatedPackets' \in Seq(Uploads)
    BY <1>1 DEF SiteInv, SiteType
  <1>4. QED
    BY <1>1, <1>2, <1>3, LeavePackets

(* When the loop ends, every upload that is not in doubt has been taken up. *)
LEMMA IncorporateEndsStep ==
  ASSUME SiteInv, NEW t \in Threads, IncorporateEnds(t)
  PROVE  SiteInv'
  <1>. USE DEF siteVars, fileVars, gitVars, packetVars
  <1>1. /\ at[t] = "incorporate" /\ i[t] >= Len(UpdatedPackets) /\ Says(t, "ok")
        /\ UNCHANGED <<environment, backendFile, UpdatedPackets, folder, packets, damaged, sent>>
    BY DEF IncorporateEnds
  <1>2. Pending => i[t] = 0
    <2>1. \A u \in Threads : at[u] \in InPackets => u = t
      BY <1>1, Exclusion DEF SiteInv, InPackets
    <2>2. QED
      BY <1>1, <2>1 DEF Pending, InPackets
  <1>3. Len(UpdatedPackets) \in Nat /\ i[t] \in Nat
    BY DEF SiteInv, SiteType
  <1>4. Pending => UpdatedPackets = << >>
    BY <1>1, <1>2, <1>3 DEF SiteInv, SiteType
  <1>5. \A p \in Packets : /\ PacketFacts(p, packets'[p], sent'[p], damaged')
                           /\ packets'[p].uploaded # {} => <<p, "uploaded">> \in damaged'
    BY <1>1, <1>4 DEF SiteInv, PacketInv
  <1>6. /\ packets' \in [Packets -> Directories] /\ sent' \in [Packets -> SUBSET Objects]
        /\ UpdatedPackets' \in Seq(Uploads)
    BY <1>1 DEF SiteInv, SiteType
  <1>7. QED
    BY <1>1, <1>5, <1>6, LeavePackets

(* Every step keeps the invariant.                                         *)
LEMMA SiteStepKeeps == SiteInv /\ [Next]_vars => SiteInv'
  <1>. SUFFICES ASSUME SiteInv, [Next]_vars PROVE SiteInv'
    OBVIOUS
  <1>1. ASSUME NEW t \in Threads, Serve(t) PROVE SiteInv'
    BY <1>1, EnterStep, FileStepIsOrdinary, DatabaseStepIsOrdinary, OrdinaryStep, GitBeginStep,
      GitVariablesStep, RunBackendStep, LoadResultStep, PacketRequestStep, RequestBreaksStep,
      RespondStep, IncorporateNextStep, IncorporateFailsStep, IncorporateEndsStep
    DEF Serve, GitStep, PacketStep, SiteInv
  <1>2. ASSUME NEW t \in Threads, Accept(t) /\ UNCHANGED <<fileVars, row>> PROVE SiteInv'
    BY <1>2, AcceptStep
  <1>3. QED
    BY <1>1, <1>2, StartStep, CrashStep DEF Next

(* What the invariant is for: git answers each request from its own        *)
(* environment and body, whatever other requests run the backend.          *)
THEOREM GitAnswersItsRequest == Spec => []BackendSeesItsRequest
  <1>1. SiteInv => BackendSeesItsRequest
    BY DEF SiteInv
  <1>2. QED
    BY <1>1, SiteInitially, SiteStepKeeps, PTL DEF Spec

(* Nothing that was uploaded is gone unless an upload deletes it, and when  *)
(* no request has the packets every upload has been taken up and the       *)
(* indexes tell what is there, but for what is in doubt since something    *)
(* broke, failed or was killed.                                            *)
THEOREM PacketsStayConsistent == Spec => []PacketsAreConsistent
  <1>1. SiteInv => PacketsAreConsistent
    <2>1. SiteInv /\ Free("write") => ~ Pending
      BY RequestsAssumption DEF SiteInv, Places, Free, Pending, InPackets, None
    <2>2. QED
      BY <2>1 DEF SiteInv, PacketInv, PacketFacts, PacketsAreConsistent
  <1>2. QED
    BY <1>1, SiteInitially, SiteStepKeeps, PTL DEF Spec

(* No page is made before the folder of the server's files is known.       *)
THEOREM PagesKnowTheFolder == Spec => []FolderIsKnown
  <1>1. SiteInv => FolderIsKnown
    BY DEF SiteInv
  <1>2. QED
    BY <1>1, SiteInitially, SiteStepKeeps, PTL DEF Spec

(* The inductive invariant: who holds which mutex, what is set behind it,  *)
(* and which uploads wait to be taken up.                                  *)
THEOREM SiteInvariant == Spec => []SiteInv
  BY SiteInitially, SiteStepKeeps, PTL DEF Spec

=============================================================================
