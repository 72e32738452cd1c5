------------------------------ MODULE MCLobby -------------------------------
(* Lobby for TLC: one player with two connections, so that it can reconnect, *)
(* and one with a single connection.                                         *)
EXTENDS Lobby

CONSTANTS c1, c2, c3, p1, p2

MCConn == {c1, c2, c3}
MCPid == {p1, p2}
MCPidOf == [c \in MCConn |-> IF c = c3 THEN p2 ELSE p1]
=============================================================================
