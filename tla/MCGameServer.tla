---------------------------- MODULE MCGameServer ----------------------------
(* Two players of one WebSocket service compete for its only permit. *)
EXTENDS GameServer
MCConn == {<<"Tcp", 101>>, <<"Tcp", 102>>}
MCVfd == {0, 101, 102}
=============================================================================
