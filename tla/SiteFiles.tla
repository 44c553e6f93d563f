----------------------------- MODULE SiteFiles -----------------------------
(***************************************************************************)
(* The handlers of MBDB_Website that use files: uploads, downloads and      *)
(* edits, the git repositories (MBDB_Website_GitHandler) and the packets   *)
(* of the package manager (MBDB_Website_MBPP_Handler).                      *)
(*                                                                         *)
(* External are git's backend, which answers from the environment of its   *)
(* process and the body it is sent, and MBPP_Server, which puts an upload  *)
(* in the directory MBPM_UploadedChanges of its packet and reports it.     *)
(*                                                                         *)
(* An operator whose name ends in an underscore and a word is the one      *)
(* after it with a plausible mistake; it shows what a property notices.    *)
(***************************************************************************)
EXTENDS SiteThreads

CONSTANTS Names, Packets,
          MaxFailures    \* how many incorporations fail, and crashes come

ASSUME FailuresAssumption == MaxFailures \in Nat

(* An upload is for every kind of computer, or for one that has, or has not, *)
(* a directory of its own.                                                 *)
ASSUME PacketsAssumption ==
    \A k \in DOMAIN Requests : Requests[k].top = "MBPM" =>
        Requests[k].computer \in {"any", "known", "unknown"}

VARIABLES
    files,            \* a file's parts, by who wrote them, or Absent
    environment,      \* of the server's process
    backendFile,      \* __GIT_HTTP_BACKEND.temp
    packets,          \* the directories of the packets
    UpdatedPackets,   \* of the m_UploadIncorporator
    failures,
    damaged,          \* what of a packet may be wrong since something failed
    sent              \* what was uploaded to a packet and not deleted

gitVars == <<environment, backendFile>>
packetVars == <<packets, UpdatedPackets, failures, damaged, sent>>
fileVars == <<files, gitVars, packetVars>>

Absent == <<"absent">>

FilesInit ==
    /\ files = [n \in Names |-> Absent]
    /\ environment = [path |-> None, method |-> None, type |-> None, user |-> None]
    /\ backendFile = [status |-> None]
    /\ packets = [p \in Packets |->
                    [data |-> {}, index |-> {}, diff |-> {}, diffIndex |-> {},
                     removed |-> {}, uploaded |-> {}, changes |-> FALSE]]
    /\ UpdatedPackets = <<>> /\ failures = 0
    /\ damaged = {} /\ sent = [p \in Packets |-> {}]

-----------------------------------------------------------------------------
(* Files.  An upload looks whether there is a file of its name, and then    *)
(* opens it; it ends when no more is to come, also because the connection   *)
(* is lost.                                                                *)

UploadFile(t) ==
    /\ at[t] = "UploadFile"
    /\ IF "Upload" \notin Permissions(request[t]) THEN Says(t, "InvalidPermissions")
       ELSE IF files[request[t].name] # Absent THEN Says(t, "FileAlreadyExists")
       ELSE Moves(t, "open") /\ UNCHANGED <<i, mutex>>
    /\ UNCHANGED <<fileVars, siteVars>>
OpenFile(t) ==
    /\ at[t] = "open" /\ Keep(t, 1) /\ Moves(t, "chunks")
    /\ files' = [files EXCEPT ![request[t].name] = <<<<t, 1>>>>]
    /\ UNCHANGED <<mutex, gitVars, packetVars, siteVars>>
WriteChunk(t) ==
    /\ at[t] = "chunks"
    /\ \/ /\ i[t] < request[t].chunks /\ Keep(t, i[t] + 1)
          /\ files' = [files EXCEPT ![request[t].name] = Append(@, <<t, i[t] + 1>>)]
          /\ UNCHANGED <<at, request, mutex, answer, accepted>>
       \/ Says(t, "ok") /\ UNCHANGED files
    /\ UNCHANGED <<gitVars, packetVars, siteVars>>

(* DBGet, with or without ranges, and the pages that hold a file.           *)
DBGet(t) ==
    /\ at[t] = "DB"
    /\ IF files[request[t].name] = Absent THEN Says(t, "NotFound")
       ELSE Answer(t, [status |-> "file", data |-> files[request[t].name]])
    /\ UNCHANGED <<fileVars, siteVars>>

(* GetEmbeddedResource chooses the element by the file's type.              *)
EmbeddedKind(r) == IF r.type \in {"image", "video", "audio", "pdf", "mbdbo"}
                   THEN r.type ELSE "link"
DBViewEmbedd(t) ==
    /\ at[t] = "DBViewEmbedd"
    /\ IF request[t].type \in {"image", "video", "audio"}
       THEN Answer(t, [status |-> "page", data |-> EmbeddedKind(request[t])])
       ELSE Says(t, "empty")
    /\ UNCHANGED <<fileVars, siteVars>>

(* p_ViewMBDBObject hands the whole path to LoadMBDBObject, which puts the  *)
(* folder before it once more: the object is never found.                   *)
DBView(t) ==
    /\ at[t] = "DBView"
    /\ IF AssociatedUser(request[t]) = "" THEN Says(t, "InvalidPermissions")
       ELSE IF files[request[t].name] = Absent THEN Says(t, "NotFound")
       ELSE Answer(t, [status |-> "page",
                       data |-> IF request[t].type = "mbdbo" THEN "ErrorInEvaluating"
                                ELSE EmbeddedKind(request[t])])
    /\ UNCHANGED <<fileVars, siteVars>>

(* The editor's POST empties the file as it opens it, and then writes.      *)
DBEdit(t) ==
    /\ at[t] = "DBEdit"
    /\ IF ~({"Edit", "Read"} \subseteq Permissions(request[t]))
       THEN Says(t, "RequirePermissions") /\ UNCHANGED files
       ELSE IF request[t].method = "POST"
       THEN /\ files' = [files EXCEPT ![request[t].name] = <<>>]
            /\ Moves(t, "update") /\ UNCHANGED <<i, mutex>>
       ELSE Moves(t, "editor") /\ UNCHANGED <<i, mutex, files>>
    /\ UNCHANGED <<gitVars, packetVars, siteVars>>
WriteUpdate(t) ==
    /\ at[t] = "update" /\ Moves(t, "editor")
    /\ files' = [files EXCEPT ![request[t].name] = <<<<t, 1>>>>]
    /\ UNCHANGED <<i, mutex, gitVars, packetVars, siteVars>>
ShowEditor(t) ==
    /\ at[t] = "editor"
    /\ IF files[request[t].name] = Absent THEN Says(t, "FileDoesntExist")
       ELSE Answer(t, [status |-> "editor", data |-> files[request[t].name]])
    /\ UNCHANGED <<fileVars, siteVars>>

(* The pages that need only a name: whatever the password, a cookie will do. *)
StaticPage(t) ==
    /\ at[t] \in {"DBUploadFile.html", "DBAdd", "DBUpdate"}
    /\ Says(t, IF AssociatedUser(request[t]) = "" THEN "InvalidPermissions" ELSE "page")
    /\ UNCHANGED <<fileVars, siteVars>>
DBLogin(t) ==
    /\ at[t] = "DBLogin"
    /\ Says(t, IF request[t].password = "right" THEN "LoggedIn" ELSE "page")
    /\ UNCHANGED <<fileVars, siteVars>>
NotHandled(t) ==
    /\ at[t] = "default" /\ Says(t, "default") /\ UNCHANGED <<fileVars, siteVars>>

FileStep(t) == \/ UploadFile(t) \/ OpenFile(t) \/ WriteChunk(t) \/ DBGet(t)
               \/ DBViewEmbedd(t) \/ DBView(t) \/ DBEdit(t) \/ WriteUpdate(t)
               \/ ShowEditor(t) \/ StaticPage(t) \/ DBLogin(t) \/ NotHandled(t)

-----------------------------------------------------------------------------
(* Git.  The request goes to the backend in the environment, which is the   *)
(* whole process's, and what it answers to a POST comes by way of a file.   *)

(* A push needs a user, and p_VerifyAuthentication finds none without a     *)
(* header: then, as with a wrong one, the answer is the prompt.             *)
Authenticated(r) == ~r.push \/ r.password = "right"
GitBegin_Unlocked(t) ==
    /\ at[t] = "git"
    /\ IF Authenticated(request[t]) THEN Moves(t, "variables") /\ UNCHANGED <<i, mutex>>
       ELSE Says(t, "Authenticate")
    /\ UNCHANGED <<fileVars, siteVars>>
GitBegin(t) ==
    /\ at[t] = "git" /\ Free("upload")
    /\ IF Authenticated(request[t])
       THEN Holding(t, {"upload"}) /\ Moves(t, "variables") /\ UNCHANGED i
       ELSE Says(t, "Authenticate")
    /\ UNCHANGED <<fileVars, siteVars>>

(* Two of the variables are only ever set, and so stay for later requests.  *)
SetGCIVariables(t) ==
    LET r == request[t]
    IN  /\ at[t] = "variables" /\ Moves(t, "backend")
        /\ environment' = [path |-> r.path, method |-> r.method,
                           type |-> IF r.type # None THEN r.type ELSE environment.type,
                           user |-> IF r.password # None THEN "Test" ELSE environment.user]
        /\ UNCHANGED <<i, mutex, files, backendFile, packetVars, siteVars>>

Backend(body) == [status |-> "git", env |-> environment, body |-> body]
RunBackend(t) ==
    /\ at[t] = "backend"
    /\ IF request[t].method = "POST"
       THEN /\ backendFile' = Backend(request[t].body)
            /\ Moves(t, "result") /\ UNCHANGED <<i, mutex>>
       ELSE Answer(t, Backend(None)) /\ UNCHANGED backendFile
    /\ UNCHANGED <<files, environment, packetVars, siteVars>>
LoadResult(t) ==
    /\ at[t] = "result" /\ Answer(t, backendFile) /\ UNCHANGED <<fileVars, siteVars>>

GitStep(t) == GitBegin(t) \/ SetGCIVariables(t) \/ RunBackend(t) \/ LoadResult(t)

-----------------------------------------------------------------------------
(* Packets.  A request may report an upload, and an upload may be for the   *)
(* packet itself or for what one kind of computer has instead of it.        *)

(* MBPP_Server puts objects in MBPM_UploadedChanges as they come, and so     *)
(* together with those that an earlier request has left there.             *)
Stored(r, objects) ==
    /\ packets' = [packets EXCEPT ![r.packet].uploaded = @ \cup objects,
                                  ![r.packet].changes = @ \/ objects # {}]
    /\ sent' = [sent EXCEPT ![r.packet] = @ \cup objects]
Reported(r) == UpdatedPackets' = Append(UpdatedPackets, <<r.packet, r.computer, r.deleted>>)

PacketRequest(t) ==
    LET r == request[t]
    IN  /\ at[t] = "MBPM" /\ Free("write") /\ Holding(t, {"write"}) /\ Moves(t, "respond")
        /\ IF r.files = {} THEN UNCHANGED <<packets, sent, UpdatedPackets>>
           ELSE Stored(r, r.files) /\ Reported(r)
        /\ UNCHANGED <<i, files, gitVars, damaged, failures, siteVars>>
(* The connection is lost, or what it brings is wrong, before the request   *)
(* is finished: what has come stays, and nothing is taken up.              *)
RequestBreaks(t) ==
    LET r == request[t]
    IN  /\ at[t] = "MBPM" /\ Free("write") /\ Says(t, "Conflict")
        /\ \E objects \in SUBSET r.files :
             /\ Stored(r, objects)
             /\ damaged' = damaged \cup {<<r.packet, "uploaded">> : o \in objects}
        /\ UpdatedPackets' = UpdatedPackets \/ (r.files # {} /\ Reported(r))
        /\ UNCHANGED <<files, gitVars, failures, siteVars>>

(* The client is answered before its upload is taken up.                    *)
Respond(t) ==
    /\ at[t] = "respond" /\ Moves(t, "incorporate") /\ Keep(t, 0)
    /\ UNCHANGED <<mutex, fileVars, siteVars>>

(* p_IncorporatePacketChanges.  An object that is deleted but not there is  *)
(* one that this kind of computer is not to have, unless it comes back.     *)
IntoDiff_ComesBack(p, deleted) ==
    LET there == p.diff \cup p.uploaded
        diff == there \ deleted
    IN  [p EXCEPT !.diff = diff, !.diffIndex = diff, !.uploaded = {}, !.changes = FALSE,
                  !.removed = p.removed \cup (deleted \ there)]
IntoDiff(p, deleted) ==
    LET there == p.diff \cup p.uploaded
        diff == there \ deleted
    IN  [p EXCEPT !.diff = diff, !.diffIndex = diff, !.uploaded = {}, !.changes = FALSE,
                  !.removed = (p.removed \cup (deleted \ there)) \ p.uploaded]

(* A computer without a directory of its own changes the packet itself, but *)
(* the index that is written is not the packet's.                           *)
IntoPacket(p, deleted, computer) ==
    LET data == (p.data \cup p.uploaded) \ deleted
    IN  [p EXCEPT !.data = data, !.uploaded = {}, !.changes = FALSE,
                  !.index = IF computer = "any" THEN data ELSE p.index]
Incorporated(p, deleted, computer) ==
    IF ~p.changes THEN p
    ELSE IF computer = "known" THEN IntoDiff(p, deleted)
    ELSE IntoPacket(p, deleted, computer)

(* What is on disk when it is cut short: objects are moved one by one, then *)
(* others are deleted, the directory goes, and then the indexes are written. *)
CutShort(p, deleted, computer) ==
    LET to == IF computer = "known" THEN "diff" ELSE "data"
        whole == Incorporated(p, deleted, computer)
        moving == {[p EXCEPT !.uploaded = @ \ m, ![to] = @ \cup m] : m \in SUBSET p.uploaded}
        deleting == {[p EXCEPT !.uploaded = {}, ![to] = (@ \cup p.uploaded) \ d] :
                        d \in SUBSET deleted}
        indexing == {[whole EXCEPT !.index = p.index, !.diffIndex = p.diffIndex, !.removed = l] :
                        l \in {p.removed, whole.removed}}
    IN  IF p.changes THEN moving \cup deleting \cup indexing ELSE {p}

(* What an upload for a kind of computer brings up to date in its packet    *)
(* when it is taken up, and what may be wrong there when it is cut short.   *)
Renewed(tuple) ==
    {<<tuple[1], part>> : part \in {"uploaded"} \cup (CASE tuple[2] = "any" -> {"index"}
        [] tuple[2] = "known" -> {"diffIndex"} [] tuple[2] = "unknown" -> {})}
Doubtful(tuple) ==
    {<<tuple[1], part>> : part \in {"uploaded"} \cup
        IF tuple[2] = "known" THEN {"diffIndex", "removed"} ELSE {"index"}}

(* The loop's index goes up while the vector goes down.  An object whose    *)
(* path is not valid or that cannot be deleted is passed over.             *)
Incorporating(t) == at[t] = "incorporate" /\ i[t] < Len(UpdatedPackets)
Forget(tuple) == sent' = [sent EXCEPT ![tuple[1]] = @ \ tuple[3]]
IncorporateNext(t) ==
    LET tuple == Last(UpdatedPackets)
        name == tuple[1]
    IN  /\ Incorporating(t) /\ Forget(tuple)
        /\ \E deleted \in SUBSET tuple[3] :
             packets' = [packets EXCEPT ![name] = Incorporated(@, deleted, tuple[2])]
        /\ UpdatedPackets' = Front(UpdatedPackets)
        /\ damaged' = IF ~packets[name].changes THEN damaged
                      ELSE (damaged \ Renewed(tuple)) \cup
                           IF tuple[2] = "unknown" THEN {<<name, "index">>} ELSE {}
        /\ Keep(t, i[t] + 1)
        /\ UNCHANGED <<at, request, mutex, answer, accepted, files, gitVars, failures, siteVars>>
(* An incorporation that ends before its time.  When it is an exception of  *)
(* the file system that ends it, the upload stays among those that are to   *)
(* be taken up.                                                            *)
Interrupt ==
    LET tuple == Last(UpdatedPackets)
    IN  /\ \E q \in CutShort(packets[tuple[1]], tuple[3], tuple[2]) :
             packets' = [packets EXCEPT ![tuple[1]] = q]
        /\ damaged' = damaged \cup Doubtful(tuple)
        /\ Forget(tuple)
IncorporateFails(t) ==
    /\ Incorporating(t) /\ Interrupt /\ Says(t, "ok")
    /\ failures < MaxFailures /\ failures' = failures + 1
    /\ UNCHANGED <<files, gitVars, UpdatedPackets, siteVars>>
IncorporateEnds(t) ==
    /\ at[t] = "incorporate" /\ i[t] >= Len(UpdatedPackets)
    /\ Says(t, "ok") /\ UNCHANGED <<fileVars, siteVars>>

PacketStep(t) == \/ PacketRequest(t) \/ RequestBreaks(t) \/ Respond(t)
                 \/ IncorporateNext(t) \/ IncorporateFails(t) \/ IncorporateEnds(t)
=============================================================================
