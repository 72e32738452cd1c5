--------------------------- MODULE MCConnections ----------------------------
(* Connections for TLC: one player with two connections from a shared        *)
(* address, a second player behind the same address, a third on loopback.    *)
EXTENDS Connections

CONSTANTS c1, c2, c3, c4, p1, p2, p3

MCConn == {c1, c2, c3, c4}
MCPid == {p1, p2, p3}
MCPidOf == [c \in MCConn |-> CASE c \in {c1, c2} -> p1 [] c = c3 -> p2 [] c = c4 -> p3]
MCIpOf == [c \in MCConn |-> IF c = c4 THEN "127.0.0.1" ELSE "198.51.100.7"]
MCExempt == {"127.0.0.1"}
=============================================================================
