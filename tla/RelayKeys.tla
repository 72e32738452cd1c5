----------------------------- MODULE RelayKeys ------------------------------
(***************************************************************************)
(* What the rest of the server may rely on about RelayManager's table      *)
(* (relay.py): which pairs have a relay, while rooms close and requests    *)
(* wait in _get_or_create.  Locks, ports and sockets are hidden.           *)
(*                                                                         *)
(* A relay comes only of a request that waited for it, and a request only  *)
(* starts to wait while its room is there.  A room that closes takes the   *)
(* relays it has along; one whose request was waiting then may come later. *)
(***************************************************************************)
VARIABLES
  relays,    \* keys of _relays
  waiting,   \* keys some request waits for
  gone       \* gids of the rooms that closed, never issued again

vars == <<relays, waiting, gone>>

Init == relays = {} /\ waiting = {} /\ gone = {}

Wanted(k) == k.gid \notin gone /\ k \notin relays

Ask(k) ==
  /\ Wanted(k)
  /\ waiting' = waiting \cup {k}
  /\ UNCHANGED <<relays, gone>>

\* A request goes on, with a relay or without; others may be waiting for the
\* same, and it may wait for the next one in the same step.
Answer(k) ==
  /\ k \in waiting
  /\ relays' \in {relays, relays \cup {k}}
  /\ \E rest \in {waiting, waiting \ {k}} :
       \/ waiting' = rest
       \/ \E next \in waiting' : Wanted(next) /\ waiting' = rest \cup {next}
  /\ UNCHANGED gone

\* Rooms close, players leave and relays fall idle
Close ==
  /\ gone \subseteq gone'
  /\ relays' \subseteq {k \in relays : k.gid \notin gone' \ gone}
  /\ UNCHANGED waiting

Next ==
  \/ \E k \in waiting' : Ask(k)
  \/ \E k \in waiting : Answer(k)
  \/ Close

Spec == Init /\ [][Next]_vars
=============================================================================
