------------------------------ MODULE MCRelay -------------------------------
(* Relay, RelayPolicy and PairRelay for TLC.                                 *)
(*                                                                           *)
(* The relays: a room with two guests, a second room with one, and a range   *)
(* in which another program holds the first port.  The policy: three         *)
(* players and the three pairs among them, with room for one player and two  *)
(* pairs; p3 reports and is never reported.  A strict relay: one player with *)
(* two ports, the other player, and a stranger.                              *)
(*                                                                           *)
(* The three share no variable: RelayManager is asked once should_relay has  *)
(* answered, tells the policy nothing, and never looks at a relay's peers.   *)
(* A behaviour exercises one of them, its part, while the others stay as     *)
(* they start, so TLC explores the sum of their states, not the product;     *)
(* nothing is claimed of them together.                                      *)
EXTENDS Relay, RelayPolicy, PairRelay

CONSTANTS h, a, b, p1, p2, p3, c1, c2, a1, a2, b1, x1, ipA, ipB, ipX

MCKey == {[gid |-> 1, pair |-> {h, a}], [gid |-> 1, pair |-> {h, b}],
          [gid |-> 2, pair |-> {a, b}]}

MCPid == {p1, p2, p3}
MCCid == {c1, c2}
MCPidOfCid == [c \in MCCid |-> IF c = c1 THEN p1 ELSE p2]

MCAddr == {a1, a2, b1, x1}
MCIpOfAddr == [s \in MCAddr |-> CASE s = b1 -> ipB [] s = x1 -> ipX [] OTHER -> ipA]

VARIABLE part   \* what a behaviour exercises

RelayMoves == part = "relays" /\ Next /\ UNCHANGED <<policyVars, pairVars, part>>
PolicyMoves == part = "policy" /\ PolicyNext /\ UNCHANGED <<vars, pairVars, part>>
PairMoves == part = "pair" /\ PairNext /\ UNCHANGED <<vars, policyVars, part>>

MCInit == Init /\ PolicyInit /\ PairInit /\ part \in {"relays", "policy", "pair"}

MCSpec ==
  /\ MCInit
  /\ [][RelayMoves \/ PolicyMoves \/ PairMoves]_<<vars, policyVars, pairVars, part>>
  /\ Fairness
=============================================================================
