-------------------------- MODULE MCTcpConnection --------------------------
(* TcpConnection with one thread beside the loop. *)
EXTENDS TcpConnection, TLC

CONSTANTS other1

MCOthers == {other1}

=============================================================================
