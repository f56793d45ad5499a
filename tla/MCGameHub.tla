----------------------------- MODULE MCGameHub -----------------------------
(* The two services number their connections alike: both start at 101. *)
EXTENDS GameHub
MCConn == {<<"Tcp", 101>>, <<"Rpc", 101>>}
MCVfd == {0, 101, 102}
=============================================================================
