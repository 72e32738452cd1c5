---------------------------- MODULE MCForwarding ----------------------------
(* Forwarding for TLC: three players, alike, each with its connection.       *)
EXTENDS Forwarding, TLC

CONSTANTS h, a, b, h1, a1, b1

MCPid == {h, a, b}
MCConn == {h1, a1, b1}

ConnOf == h :> h1 @@ a :> a1 @@ b :> b1
MCPidOf == [c \in MCConn |-> CHOOSE p \in MCPid : ConnOf[p] = c]

MCAlike ==
  {f @@ [c \in MCConn |-> ConnOf[f[MCPidOf[c]]]] : f \in Permutations(MCPid)}
=============================================================================
