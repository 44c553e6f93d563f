--------------------------- MODULE MCTlsHandshake ---------------------------
(* Instances of TlsHandshake for TLC. *)
EXTENDS TlsHandshake, TLC

CONSTANTS c1, c2

(* Our server has two clients, of which the second may offer the session of *)
(* the first; or one of its clients is ours, which then also talks to a    *)
(* server that sends a key exchange of its own.                            *)
SomeConnections == {c1, c2}
SomeRoles == {c1 :> <<"browser", "ours">> @@ c2 :> <<"browser", "ours">>,
              c1 :> <<"ours", "ours">> @@ c2 :> <<"ours", "other">>}
=============================================================================
