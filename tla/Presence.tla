------------------------------ MODULE Presence ------------------------------
(***************************************************************************)
(* What the secure server promises about who is online: a player's current *)
(* connection is the last one of theirs to register, and it stays current  *)
(* until it is itself replaced or closed.  Everything pushed to a player   *)
(* (probes, shouts, 3007/3008 notices) goes to matchmaking_handlers        *)
(* .CLIENTS[pid], which is `clients` here.                                 *)
(***************************************************************************)
EXTENDS Dict

CONSTANTS
  Conn,     \* connections that may come to exist
  PidOf     \* the player a connection is logged in as

VARIABLES
  open,     \* connections the transport has up
  clients   \* CLIENTS: pid -> its current connection

vars == <<open, clients>>

Init == open = {} /\ clients = NoEntries

Current(c) == PidOf[c] \in DOMAIN clients /\ clients[PidOf[c]] = c

Open(c) ==
  /\ c \notin open
  /\ open' = open \cup {c}
  /\ UNCHANGED clients

Register(c) ==
  /\ c \in open
  /\ clients' = Put(clients, PidOf[c], c)
  /\ UNCHANGED open

\* The end of a connection takes its player offline only if it is current.
Logout(c) ==
  /\ c \in open
  /\ open' = open \ {c}
  /\ clients' = IF Current(c) THEN Without(clients, {PidOf[c]}) ELSE clients

Next == \E c \in Conn : Open(c) \/ Register(c) \/ Logout(c)

Spec == Init /\ [][Next]_vars
=============================================================================
