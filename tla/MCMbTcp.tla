------------------------------ MODULE MCMbTcp ------------------------------
(***************************************************************************)
(* Lengths of strings for TLC.  A record carries two bytes and a batch has *)
(* two records, unless a configuration says otherwise.                     *)
(***************************************************************************)
EXTENDS MbTcp

(* One batch each, of three records and of two. *)
TwoLonger == <<5, 3>>
(* One string of one batch. *)
OneShort == <<3>>
=============================================================================
