---------------------------- MODULE MCHttpServer ----------------------------
(***************************************************************************)
(* Small streams of requests for TLC.                                      *)
(***************************************************************************)
EXTENDS HttpServer

(* The first client sends a request whose body is more than the server holds   *)
(* at a time and one without a body; the second only connects.             *)
SomeRequests == [c \in Clients |-> IF c = 1 THEN <<3, 0>> ELSE <<>>]
=============================================================================
