----------------------------- MODULE MCWebsite -----------------------------
(* An instance of Website for TLC. *)
EXTENDS Website

By(r, user, password, rights) ==
    [k \in DOMAIN r \cup {"user", "password", "rights"} |->
        CASE k = "user" -> user [] k = "password" -> password
          [] k = "rights" -> rights [] OTHER -> r[k]]
Member(r) == By(r, "emil", "right", {"Read", "Edit", "Upload"})
Guest(r) == By(r, "", None, {})
Git(path, method, type, body, push) ==
    [top |-> "git", path |-> path, method |-> method, type |-> type,
     body |-> body, push |-> push]
Packet(packet, uploaded, deleted, computer) ==
    [top |-> "MBPM", method |-> "POST", packet |-> packet, files |-> uploaded,
     deleted |-> deleted, computer |-> computer]
Api(directive, table, columns) ==
    [top |-> "DBGeneralAPI", method |-> "POST", directive |-> directive,
     table |-> table, columns |-> columns, old |-> 0, new |-> 1, there |-> TRUE]

SomeRequests == <<
    Guest(Git("a", "GET", None, None, FALSE)),
    Member(Git("b", "POST", "pack", "B", TRUE)),
    Guest(Git("b", "POST", "pack", "B", TRUE)),
    Guest(Git("c", "POST", "want", "C", FALSE)),
    Guest(Packet("p", {}, {}, "any")),
    Member(Packet("p", {"x"}, {"y"}, "any")),
    Member(Packet("p", {"x"}, {"y"}, "known")),
    Member(Packet("p", {"y"}, {}, "known")),
    Member(Packet("q", {"x"}, {}, "unknown")),
    Member(Api("UpdateTableRow", "Music", TRUE)),
    Member(Api("UpdateTableRow", "Music", FALSE)),
    Member(Api("SearchTableWithWhere", "None", TRUE)),
    Member(Api("QueryDatabase", "Music", TRUE)),
    Member(Api("AddEntryToTable", "Music", TRUE)),
    Member(Api("AddEntryToTable", "Music", FALSE)),
    Member(Api("FileExists", "Music", TRUE)),
    Member(Api("Login", "Music", TRUE)),
    Guest(Api(None, "Music", TRUE)),
    Member([top |-> "DBSite", method |-> "GET", query |-> TRUE, objects |-> 1]),
    Guest([top |-> "DBSite", method |-> "GET", query |-> FALSE, objects |-> 0]),
    Member([top |-> "UploadFile", method |-> "POST", name |-> "f", chunks |-> 2]),
    Guest([top |-> "UploadFile", method |-> "POST", name |-> "f", chunks |-> 1]),
    Guest([top |-> "DB", method |-> "GET", name |-> "f"]),
    Guest([top |-> "DBViewEmbedd", method |-> "GET", name |-> "f", type |-> "image"]),
    Member([top |-> "DBView", method |-> "GET", name |-> "f", type |-> "mbdbo"]),
    Member([top |-> "DBEdit", method |-> "POST", name |-> "f"]),
    Member([top |-> "DBEdit", method |-> "GET", name |-> "f"]),
    Guest([top |-> "DBEdit", method |-> "GET", name |-> "f"]),
    Guest([top |-> "DBAdd", method |-> "GET"]),
    Guest([top |-> "DBLogin", method |-> "GET"]),
    Guest([top |-> "index.html", method |-> "GET"])>>
=============================================================================
