---------------------------- MODULE SiteDatabase ----------------------------
(***************************************************************************)
(* The API and the database of MBDB_Website: DBGeneralAPI, which passes     *)
(* directives to the plugins, and MBSite_DBPlugin with its two connections *)
(* to one SQLite file, one for reading and one for writing, each with a    *)
(* mutex.  Reading on the one makes a write on the other fail as busy.     *)
(*                                                                         *)
(* An operator whose name ends in an underscore and a word is the one      *)
(* after it with a plausible mistake; it shows what a property notices.    *)
(***************************************************************************)
EXTENDS SiteThreads

VARIABLE row     \* the value of a row of the table

InTable(r) == r.table = "Music"

-----------------------------------------------------------------------------
(* DBGeneralAPI.  The handlers' mutex is held while one of them works.      *)

ParseRequest(t) ==
    /\ at[t] = "DBGeneralAPI"
    /\ IF request[t].directive = None THEN Says(t, "FailedToParse")
       ELSE Moves(t, "directive") /\ UNCHANGED <<i, mutex>>
    /\ UNCHANGED <<row, siteVars>>

FirstStep(directive) ==
    CASE directive \in {"GetTableNames", "GetTableInfo", "QueryDatabase"} -> "read"
      [] directive \in {"SearchTableWithWhere", "UpdateTableRow"} -> "verify"
      [] directive = "AddEntryToTable" -> "add"
      [] OTHER -> "list"
HandleDirective(t) ==
    LET r == request[t]
    IN  /\ at[t] = "directive" /\ Free("api")
        /\ IF r.directive \in DirectivesKnown
           THEN Holding(t, {"api"}) /\ Moves(t, FirstStep(r.directive)) /\ UNCHANGED i
           ELSE Says(t, IF r.directive # "Login" THEN "InvalidDirective"
                        ELSE IF r.password = "right" THEN "ok" ELSE "InvalidCredentials")
        /\ UNCHANGED <<row, siteVars>>

(* The file system's directives.  A directory that is not there throws, and *)
(* only DBGeneralAPI catches that.                                         *)
List(t) ==
    /\ at[t] = "list"
    /\ Says(t, IF request[t].there THEN "ok" ELSE "UnknownException")
    /\ UNCHANGED <<row, siteVars>>

-----------------------------------------------------------------------------
(* MBSite_DBPlugin.  Names are looked up under the mutex for reading, and   *)
(* what they are looked up for comes later.                                *)

VerifyTable(t) ==
    /\ at[t] = "verify" /\ Free("readonly")
    /\ IF ~InTable(request[t]) THEN Says(t, "InvalidTable")
       ELSE /\ Moves(t, IF request[t].directive = "UpdateTableRow" THEN "columns" ELSE "read")
            /\ UNCHANGED <<i, mutex>>
    /\ UNCHANGED <<row, siteVars>>
Read(t) ==
    /\ at[t] = "read" /\ Free("readonly") /\ Holding(t, {"readonly"})
    /\ Moves(t, "rows") /\ UNCHANGED <<i, row, siteVars>>
GiveRows(t) ==
    /\ at[t] = "rows"
    /\ \/ Says(t, "DatabaseError") \/ Answer(t, [status |-> "rows", data |-> row])
    /\ UNCHANGED <<row, siteVars>>

VerifyColumns(t) ==
    /\ at[t] = "columns" /\ Free("readonly")
    /\ IF request[t].columns THEN Moves(t, "write") /\ UNCHANGED <<i, mutex>>
       ELSE Says(t, "InvalidColumns")
    /\ UNCHANGED <<row, siteVars>>
LockForUpdate(t) ==
    /\ at[t] = "write" /\ Free("writable") /\ Holding(t, {"writable"})
    /\ Moves(t, "update row") /\ UNCHANGED <<i, row, siteVars>>

(* The row must be as the client has seen it, but it is told "ok" anyway.   *)
Busy == \E t \in Threads : at[t] \in {"rows", "site rows", "evaluate"}
UpdateTableRow(t) ==
    /\ at[t] = "update row"
    /\ \/ Busy /\ Says(t, "DatabaseError") /\ UNCHANGED row
       \/ /\ row' = IF row = request[t].old THEN request[t].new ELSE row
          /\ Says(t, "ok")
    /\ UNCHANGED siteVars

(* AddEntryToTable takes the mutex for writing first, and under it the one  *)
(* for reading, three times.                                               *)
AddEntry(t) ==
    /\ at[t] = "add" /\ Free("writable") /\ Holding(t, {"writable"})
    /\ Moves(t, "add verify") /\ UNCHANGED <<i, row, siteVars>>
AddVerify(t) ==
    /\ at[t] \in {"add verify", "add columns"} /\ Free("readonly")
    /\ IF at[t] = "add verify" /\ ~InTable(request[t]) THEN Says(t, "InvalidTable")
       ELSE IF at[t] = "add columns" /\ ~request[t].columns THEN Says(t, "InvalidColumns")
       ELSE /\ Moves(t, IF at[t] = "add verify" THEN "add columns" ELSE "insert")
            /\ UNCHANGED <<i, mutex>>
    /\ UNCHANGED <<row, siteVars>>
Insert(t) ==
    /\ at[t] = "insert" /\ Free("readonly")
    /\ Says(t, IF Busy THEN "DatabaseError" ELSE "ok") /\ UNCHANGED <<row, siteVars>>

ApiStep(t) == \/ ParseRequest(t) \/ HandleDirective(t) \/ List(t)
              \/ VerifyTable(t) \/ Read(t) \/ GiveRows(t)
              \/ VerifyColumns(t) \/ LockForUpdate(t) \/ UpdateTableRow(t)
              \/ AddEntry(t) \/ AddVerify(t) \/ Insert(t)

-----------------------------------------------------------------------------
(* DBSite, the page of a query.  What is a path in the result becomes an    *)
(* element of the page; for an object, its banner is evaluated, which      *)
(* takes the mutex for reading again.                                      *)

DBSite(t) ==
    LET r == request[t]
        page == [status |-> "page", folder |-> folder.path]
    IN  /\ at[t] = "DBSite" /\ CanReadFolder
        /\ IF "Upload" \notin Permissions(r) \/ ~r.query \/ "Read" \notin Permissions(r)
           THEN Answer(t, page)
           ELSE /\ answer' = [answer EXCEPT ![t] = page] /\ Go(t, "site query")
                /\ UNCHANGED <<request, i, mutex, accepted>>
        /\ UNCHANGED <<row, siteVars>>
SiteQuery(t) ==
    /\ at[t] = "site query" /\ Free("readonly") /\ Holding(t, {"readonly"})
    /\ Moves(t, "site rows") /\ UNCHANGED <<i, row, siteVars>>
SiteRows_Keeps(t) ==
    /\ at[t] = "site rows" /\ Moves(t, "embed") /\ UNCHANGED <<i, mutex, row, siteVars>>
SiteRows(t) ==
    /\ at[t] = "site rows" /\ Leaving(t, {"readonly"})
    /\ Moves(t, "embed") /\ UNCHANGED <<i, row, siteVars>>

(* EmbeddResource and, for an object, EvaluateMBDBObject.                    *)
EmbeddObject(t) ==
    /\ at[t] = "embed" /\ i[t] < request[t].objects
    /\ Free("readonly") /\ Holding(t, {"readonly"})
    /\ Moves(t, "evaluate") /\ UNCHANGED <<i, row, siteVars>>
EvaluateObject(t) ==
    /\ at[t] = "evaluate" /\ Leaving(t, {"readonly"}) /\ Keep(t, i[t] + 1)
    /\ Moves(t, "embed") /\ UNCHANGED <<row, siteVars>>
EmbeddEnds(t) ==
    /\ at[t] = "embed" /\ i[t] = request[t].objects
    /\ Answer(t, answer[t]) /\ UNCHANGED <<row, siteVars>>

SiteStep(t) == \/ DBSite(t) \/ SiteQuery(t) \/ SiteRows(t)
               \/ EmbeddObject(t) \/ EvaluateObject(t) \/ EmbeddEnds(t)
=============================================================================
