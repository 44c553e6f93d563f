--------------------------- MODULE MessageService ---------------------------
(***************************************************************************)
(* What the chat's transfer promises to its two users: the strings passed  *)
(* to SendData come out of GetData unchanged, once each and in order, and  *)
(* SendData reports success only for a string that has come out.           *)
(***************************************************************************)
EXTENDS Naturals, Sequences

CONSTANT Messages          \* how many strings the sending side passes
VARIABLES confirmed,       \* how many SendData calls have reported success
          delivered        \* the strings GetData returned, by their number

vars == <<confirmed, delivered>>

Init == confirmed = 0 /\ delivered = <<>>

(* GetData returns the string that is being sent. *)
Deliver == /\ Len(delivered) = confirmed
           /\ confirmed < Messages
           /\ delivered' = Append(delivered, confirmed + 1)
           /\ UNCHANGED confirmed

(* SendData reports that the string has arrived. *)
Confirm == /\ confirmed < Len(delivered)
           /\ confirmed' = confirmed + 1
           /\ UNCHANGED delivered

Next == Deliver \/ Confirm

Spec == Init /\ [][Next]_vars /\ WF_vars(Next)
=============================================================================
