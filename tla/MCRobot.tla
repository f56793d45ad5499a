------------------------------ MODULE MCRobot ------------------------------
(* Two robots with exactly the permits and the room they need. *)
EXTENDS Robot
MCConn == {<<"Tcp", 1>>, <<"Tcp", 2>>, <<"Tcp", 3>>}
MCVfd == 0..3
=============================================================================
