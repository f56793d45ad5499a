--------------------------- MODULE MCRpcClientHub ---------------------------
(* Server 1 calling host 2, which it may have to dial twice. *)
EXTENDS RpcClientHub
MCConn == {<<"RpcClient", n>> : n \in 1..2}
MCVfd == 0..2
=============================================================================
