---------------------------- MODULE MCTlsRecords ----------------------------
(***************************************************************************)
(* A short stream of records for TLC.                                      *)
(***************************************************************************)
EXTENDS TlsRecords

Record(kind, size) == [kind |-> kind, size |-> size]

(* Records shorter than a header, a warning among them, one that is longer, *)
(* and the alert that ends the connection.                                 *)
SomeRecords == <<Record("data", 1), Record("data", 2), Record("warning", 2),
                 Record("data", 6), Record("fatal", 2)>>
=============================================================================
