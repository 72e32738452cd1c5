--------------------------- MODULE MCRegistries -----------------------------
(* Rooms and Halls for TLC; the halls are one world and its lobby, and those *)
(* the players create.                                                       *)
(*                                                                           *)
(* The two registries share no variable and neither calls the other (what    *)
(* logout does to both is in Lobby), so a behaviour exercises one of them,   *)
(* its part, while the other stays as it starts.  The players are            *)
(* interchangeable in both.                                                  *)
EXTENDS Rooms, Halls, TLC

VARIABLE part   \* what a behaviour exercises

RoomMoves == part = "rooms" /\ Next /\ UNCHANGED <<hallVars, part>>
HallMoves == part = "halls" /\ HallNext /\ UNCHANGED <<vars, part>>

MCInit == Init /\ HallInit /\ part \in {"rooms", "halls"}

MCSpec == MCInit /\ [][RoomMoves \/ HallMoves]_<<vars, hallVars, part>>

Players == Permutations(Pid)
=============================================================================
