------------------------------- MODULE Lobby --------------------------------
(***************************************************************************)
(* The online server as players meet it: connections that register, fall   *)
(* silent, are replaced and are reaped (Presence, which Connections        *)
(* implements), the hunt rooms they open and join (Rooms), and the halls   *)
(* they gather in (Halls).                                                 *)
(*                                                                         *)
(* What ties the three together is SecureConnectionServer.logout           *)
(* (protocols.py).  It takes the player offline and out of the rooms, then *)
(* awaits a 3008 notice to every member left behind, and only after that   *)
(* takes the player out of the halls and closes their relays.  Other       *)
(* handlers run during those awaits: `closing` holds the logouts suspended *)
(* there.                                                                  *)
(***************************************************************************)
EXTENDS Naturals, FiniteSets, Dict

CONSTANTS
  Pid, Conn, PidOf,
  LiveOverlap,   \* may a player connect anew while an old connection is alive?
  Relaying,      \* does relay.MANAGER.should_relay ever say yes (MH3U_RELAY)?
  MaxRooms, MaxRoomParticipants, MaxRoomGid,
  Worlds, Lobbies, ServerPid, MaxRuntime, MaxPerOwner, MaxHallGid

ASSUME LobbyAssumption == /\ PidOf \in [Conn -> Pid]
                          /\ LiveOverlap \in BOOLEAN /\ Relaying \in BOOLEAN

VARIABLES
  open, clients,                               \* Presence
  sessions, nextRoomGid, relays, allocating,   \* Rooms
  communities, runtimeGids, nextHallGid,       \* Halls
  registered,   \* open connections whose register was accepted
  silent,       \* open connections whose peer is gone without a FIN
  closing       \* connections whose logout awaits its 3008 pushes

P == INSTANCE Presence
R == INSTANCE Rooms WITH nextGid <- nextRoomGid, MaxGid <- MaxRoomGid
H == INSTANCE Halls

roomVars == <<sessions, nextRoomGid, relays, allocating>>
hallVars == <<communities, runtimeGids, nextHallGid>>
connVars == <<open, clients, registered, silent, closing>>
vars == <<connVars, roomVars, hallVars>>

TypeOK ==
  /\ R!TypeOK /\ H!HallTypeOK
  /\ open \subseteq Conn /\ registered \subseteq open /\ silent \subseteq open
  /\ closing \subseteq Conn \ open
  /\ clients \in [DOMAIN clients -> registered]

Init ==
  /\ P!Init /\ R!Init /\ H!HallInit
  /\ registered = {} /\ silent = {} /\ closing = {}

-----------------------------------------------------------------------------
(* Connections.                                                            *)

\* The game connects anew only when its previous connection is dead, unless
\* two of its connections may be alive at once (LiveOverlap).
Connect(c) ==
  /\ c \notin closing
  /\ LiveOverlap \/ \A d \in open : PidOf[d] = PidOf[c] => d \in silent
  /\ P!Open(c)
  /\ UNCHANGED <<registered, silent, closing, roomVars, hallVars>>

Register(c) ==
  /\ c \notin silent
  /\ P!Register(c)
  /\ registered' = registered \cup {c}
  /\ UNCHANGED <<silent, closing, roomVars, hallVars>>

\* The peer crashes, is closed or loses its network: PRUDP sends no FIN
FallSilent(c) ==
  /\ c \in open \ silent
  /\ silent' = silent \cup {c}
  /\ UNCHANGED <<open, clients, registered, closing, roomVars, hallVars>>

\* push_participation_left finds somebody to notify: one of the rooms the
\* player leaves (not hosts) has another member with a connection.
Notifies(p) ==
  \E g \in R!Joined(p) \ R!Hosted(p) :
    (sessions[g].participants \ {p}) \cap DOMAIN clients # {}

\* The end of logout: COMMUNITY.leave_all, reap_owner, close_for_pid
LeaveHalls(p) == H!Logout(p) /\ \A r \in relays' : p \notin r.pair

\* A slip of logout: the rooms are never left
LogoutKeepingRooms(c) ==
  /\ P!Logout(c)
  /\ registered' = registered \ {c} /\ silent' = silent \ {c}
  /\ closing' = IF P!Current(c) THEN closing \cup {c} ELSE closing
  /\ UNCHANGED <<roomVars, hallVars>>

\* logout up to its first real suspension: a clean disconnect, the reaper's
\* cleanup of a silent current connection, PRUDP's own timeout of any other.
Logout(c) ==
  /\ P!Logout(c)
  /\ registered' = registered \ {c} /\ silent' = silent \ {c}
  /\ \/ /\ ~P!Current(c)
        /\ UNCHANGED <<closing, roomVars, hallVars>>
     \/ /\ P!Current(c)
        /\ R!Leave(PidOf[c])
        /\ \/ /\ Notifies(PidOf[c])
              /\ closing' = closing \cup {c}
              /\ UNCHANGED hallVars
           \/ /\ ~Notifies(PidOf[c])
              /\ LeaveHalls(PidOf[c])
              /\ UNCHANGED closing

\* Slips of the tail: skipped altogether; closing the halls the player is in
\* rather than those the player owns.
LogoutFinishEmpty(c) ==
  /\ c \in closing
  /\ closing' = closing \ {c}
  /\ UNCHANGED <<open, clients, registered, silent, roomVars, hallVars>>

LogoutFinishEvicting(c) ==
  LET gone == H!Owned(PidOf[c]) \cup (H!Runtime \cap H!JoinedHalls(PidOf[c]))
  IN  /\ c \in closing
      /\ closing' = closing \ {c}
      /\ R!CloseForPid(PidOf[c])
      /\ communities' = H!WithoutMember(DOMAIN communities \ gone, PidOf[c])
      /\ runtimeGids' = runtimeGids \ gone
      /\ UNCHANGED <<open, clients, registered, silent, nextHallGid>>

\* logout after its pushes, which swallow every exception
LogoutFinish(c) ==
  /\ c \in closing
  /\ closing' = closing \ {c}
  /\ H!Logout(PidOf[c])
  /\ R!CloseForPid(PidOf[c])
  /\ UNCHANGED <<open, clients, registered, silent>>

-----------------------------------------------------------------------------
(* Requests: the game registers before anything else, and a dead peer      *)
(* sends nothing.                                                          *)

RoomRequest(p) ==
  \/ R!CreateMatchmakeSession(p)
  \/ \E g \in DOMAIN sessions :
       \/ R!JoinMatchmakeSession(p, g)
       \/ R!EndParticipation(p, g)
       \/ R!UnregisterGatherings(p, {g})
       \/ Relaying /\ sessions[g].host \in DOMAIN clients /\ R!GetSessionUrls(p, g)

HallRequest(p) ==
  \/ H!CreateCommunity(p)
  \/ \E g \in DOMAIN communities :
       H!JoinCommunity(p, g) \/ (g \notin R!Joined(p) /\ H!LeaveCommunity(p, g))

Request(c) ==
  /\ c \in registered \ silent
  /\ \/ RoomRequest(PidOf[c]) /\ UNCHANGED hallVars
     \/ HallRequest(PidOf[c]) /\ UNCHANGED roomVars
  /\ UNCHANGED connVars

RelayTask ==
  /\ \/ \E key \in allocating : R!RelayBound(key)
     \/ \E K \in SUBSET relays : R!RelaysIdle(K)
  /\ UNCHANGED <<connVars, hallVars>>

Next ==
  \/ \E c \in Conn :
       \/ Connect(c) \/ Register(c) \/ FallSilent(c)
       \/ Logout(c) \/ LogoutFinish(c) \/ Request(c)
  \/ RelayTask

Spec == Init /\ [][Next]_vars

\* reaper_task sweeps all of CLIENTS every REAP_INTERVAL and PRUDP gives up on
\* whatever it does not answer; a suspended logout is resumed by the loop.
Fairness ==
  \A c \in Conn : WF_vars(c \in silent /\ Logout(c)) /\ WF_vars(LogoutFinish(c))

FairSpec == Spec /\ Fairness

-----------------------------------------------------------------------------
(* What the server promises its players.                                   *)

\* Whoever is in a room is online: a crash, a reconnect or a late logout
\* leaves no ghost in a roster and no room whose host is gone.
NoGhost ==
  \A g \in DOMAIN sessions : sessions[g].participants \subseteq DOMAIN clients

\* Whoever is in a hall, or owns one, is online or has a logout under way
\* that is about to take them out of it.
NoGhostInHalls ==
  \A g \in DOMAIN communities :
    communities[g].participants \cup ({communities[g].owner} \ {ServerPid})
      \subseteq DOMAIN clients \cup {PidOf[c] : c \in closing}

\* Nobody's room or hall is taken from under them: a player stops being a
\* member only by their own request, by the end of a connection of theirs, or
\* because the room's host or the hall's owner is the one who did that.
RemovedByOwnerOrSelf ==
  [][\A p \in Pid :
       /\ \A g \in R!Joined(p) \ R!Joined(p)' :
            \E c \in Conn : PidOf[c] \in {p, sessions[g].host} /\ (Request(c) \/ Logout(c))
       /\ \A g \in H!JoinedHalls(p) \ H!JoinedHalls(p)' :
            \E c \in Conn : PidOf[c] \in {p, communities[g].owner}
                              /\ (Request(c) \/ Logout(c) \/ LogoutFinish(c))]_vars

\* A gid names a room or a hall, as the reads that look in both registries
\* assume (participant_details, find_by_single_id, end_participation); it does
\* for as long as the rooms have not used up the 4096 gids below the halls'.
GidsApart ==
  nextRoomGid <= H!FirstHallGid => DOMAIN sessions \cap DOMAIN communities = {}

\* A player with a connection that answers, or with nothing held at the server
Settled(p) ==
  \/ \E c \in open \ silent : PidOf[c] = p
  \/ /\ R!Joined(p) = {} /\ H!JoinedHalls(p) = {}
     /\ \A g \in DOMAIN communities : communities[g].owner # p

\* A player who vanishes does not stay in rooms and halls: they are back, or
\* out of all of them, eventually.
GhostsLeave == \A p \in Pid : []<>Settled(p)

HoldsHalls(p) ==
  \E g \in DOMAIN communities : p \in communities[g].participants \cup {communities[g].owner}

LoggingOut(p) == \E c \in closing : PidOf[c] = p

\* Player p is offline and in a room, or holds a hall with no logout under way
\* that is about to take it.
Haunts(p) ==
  /\ p \notin DOMAIN clients
  /\ R!Joined(p) # {} \/ (HoldsHalls(p) /\ ~LoggingOut(p))

\* What remains of NoGhost and NoGhostInHalls when a player may have two live
\* connections: a player comes to haunt the server in one way only, that a
\* connection of theirs which was replaced, and whose replacement has gone, sends
\* a request.  No end of a connection, early or late, leaves anything behind.
GhostsComeFromReplaced ==
  [][\A p \in Pid : Haunts(p)' /\ ~Haunts(p) =>
       \E c \in registered \ silent : PidOf[c] = p /\ ~P!Current(c) /\ Request(c)]_vars

\* Composed with connections that die and logouts that overlap requests, the
\* rooms and their relays still obey the registry's own specification.
ImplementsRooms == R!Spec
=============================================================================
