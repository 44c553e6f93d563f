------------------------- MODULE MCCrawlCoordinator -------------------------
(***************************************************************************)
(* Small sites for TLC.                                                    *)
(***************************************************************************)
EXTENDS CrawlCoordinator

CONSTANTS home, a, b

(* Every page links to another that somebody else links to, and back. *)
Ring == [r \in Resources |->
    IF r = home THEN {a, b} ELSE IF r = a THEN {b, home} ELSE {a}]
=============================================================================
