------------------------------- MODULE Rooms --------------------------------
(***************************************************************************)
(* GatheringRegistry (matchmaking_handlers.py): the hunt rooms, and the    *)
(* RPC handlers that change them, together with the part of the relay      *)
(* table (relay.py) those handlers open and close.                         *)
(*                                                                         *)
(* The server is one asyncio event loop, so whatever a handler does        *)
(* between two awaits is one step.  Every room operation is awaitless and  *)
(* is one action; the only suspension is in RelayManager._get_or_create,   *)
(* where a request waits for the lock and for its UDP socket while the     *)
(* room it captured may change or disappear.                               *)
(***************************************************************************)
EXTENDS Naturals, Dict, PlayerIds

CONSTANTS
  MaxRooms,             \* limits.MAX_ROOMS
  MaxRoomParticipants,  \* limits.MAX_ROOM_PARTICIPANTS
  MaxGid                \* bound of the model: the last room gid ever issued

ASSUME CapAssumption == /\ MaxRooms \in Nat
                        /\ MaxRoomParticipants \in Nat \ {0}
                        /\ MaxGid \in Nat

VARIABLES
  sessions,    \* REGISTRY.sessions: gid -> room
  nextGid,     \* REGISTRY._next_gid, the last gid issued
  relays,      \* keys of relay.MANAGER._relays
  allocating   \* keys some request is suspended on inside _get_or_create

vars == <<sessions, nextGid, relays, allocating>>

FirstGid == 4096        \* 0x1000

Session == [host : Pid, participants : SUBSET Pid, num : Nat]

\* The key (gid, low pid, high pid) of the relay between two peers of a room.
RelayKey == [gid : Nat, pair : SUBSET Pid]

TypeOK ==
  /\ sessions \in [DOMAIN sessions -> Session]
  /\ DOMAIN sessions \subseteq Nat
  /\ nextGid \in Nat
  /\ relays \subseteq RelayKey
  /\ allocating \subseteq RelayKey

Init ==
  /\ sessions = NoEntries
  /\ nextGid = FirstGid
  /\ relays = {}
  /\ allocating = {}

-----------------------------------------------------------------------------
(* The registry's own operations, as functions of its dict.                *)

Hosted(p) == {g \in DOMAIN sessions : sessions[g].host = p}

Joined(p) == {g \in DOMAIN sessions : p \in sessions[g].participants}

\* _Session and the first recount
NewSession(p) == [host |-> p, participants |-> {p}, num |-> 1]

\* A slip of leave: discard(pid) without the recount
DropMemberUncounted(s, p) == [s EXCEPT !.participants = @ \ {p}]

\* discard(pid) and the recount that follows it
DropMember(s, p) ==
  [s EXCEPT !.participants = @ \ {p},
            !.num = Cardinality(s.participants \ {p})]

\* add(pid) and the recount that follows it
AddMember(s, p) ==
  [s EXCEPT !.participants = @ \cup {p},
            !.num = Cardinality(s.participants \cup {p})]

\* RelayManager.close_gid for every gid of G
RelaysOutside(G) == {r \in relays : r.gid \notin G}

\* RelayManager.close_for_pid: it looks at the pid only, whatever the room
RelaysWithout(p) == {r \in relays : p \notin r.pair}

-----------------------------------------------------------------------------
(* The handlers.                                                           *)

\* The outcome of GatheringRegistry.create(_, p) on the rooms `kept`: it raises
\* LimitExceeded when `full`, else stores a new room under gid g.
CreateIn(kept, full, g, p) ==
  \/ full /\ sessions' = kept /\ UNCHANGED nextGid
  \/ ~full /\ sessions' = Put(kept, g, NewSession(p)) /\ nextGid' = g

\* Slips of create that the properties below must notice: no reap_host; the
\* cap tested before reap_host ran; gids recycled from the room count.
CreateNoReap(p) ==
  /\ nextGid < MaxGid
  /\ CreateIn(sessions, Cardinality(DOMAIN sessions) >= MaxRooms, nextGid + 1, p)
  /\ UNCHANGED <<relays, allocating>>

CreateCapFirst(p) ==
  /\ nextGid < MaxGid
  /\ CreateIn(Without(sessions, Hosted(p)),
              Cardinality(DOMAIN sessions) >= MaxRooms, nextGid + 1, p)
  /\ relays' = RelaysOutside(Hosted(p))
  /\ UNCHANGED allocating

CreateRecycling(p) ==
  LET kept == Without(sessions, Hosted(p))
      n == Cardinality(DOMAIN kept)
  IN  /\ nextGid < MaxGid
      /\ CreateIn(kept, n >= MaxRooms, FirstGid + n + 1, p)
      /\ relays' = RelaysOutside(Hosted(p))
      /\ UNCHANGED allocating

\* handle_create_matchmake_session: reap_host, then create, which may raise;
\* what reap_host removed stays removed.
CreateMatchmakeSession(p) ==
  LET kept == Without(sessions, Hosted(p))
  IN  /\ nextGid < MaxGid
      /\ CreateIn(kept, Cardinality(DOMAIN kept) >= MaxRooms, nextGid + 1, p)
      /\ relays' = RelaysOutside(Hosted(p))
      /\ UNCHANGED allocating

\* handle_join_matchmake_session_ex / join_matchmake_session.  A join of a
\* missing or full room raises and changes nothing.
JoinMatchmakeSession(p, g) ==
  /\ g \in DOMAIN sessions
  /\ \/ p \in sessions[g].participants
     \/ Cardinality(sessions[g].participants) < MaxRoomParticipants
  /\ sessions' = [sessions EXCEPT ![g] = AddMember(@, p)]
  /\ UNCHANGED <<nextGid, relays, allocating>>

\* end_participation on a room, i.e. leave_gathering
EndParticipation(p, g) ==
  /\ g \in Joined(p)
  /\ \/ /\ sessions[g].host = p
        /\ sessions' = Without(sessions, {g})
        /\ relays' = RelaysOutside({g})
     \/ /\ sessions[g].host # p
        /\ sessions' = [sessions EXCEPT ![g] = DropMember(@, p)]
        /\ relays' = RelaysWithout(p)
  /\ UNCHANGED <<nextGid, allocating>>

\* unregister_gatherings (and unregister_gathering, its one-gid form): each
\* room of the list is destroyed if the caller hosts it, else skipped.
UnregisterGatherings(p, G) ==
  /\ G \subseteq DOMAIN sessions
  /\ sessions' = Without(sessions, G \cap Hosted(p))
  /\ relays' = RelaysOutside(G \cap Hosted(p))
  /\ UNCHANGED <<nextGid, allocating>>

\* GatheringRegistry.leave, called when a connection closes: rooms the player
\* hosts go, the others lose a member.  The close_for_pid that ends the logout
\* is part of the same step unless a notice pushed in between suspends it.
Leave(p) ==
  LET gone == Joined(p) \cap Hosted(p)
      left == Joined(p) \ gone
      kept == {r \in RelaysOutside(gone) : left = {} \/ p \notin r.pair}
  IN  /\ sessions' = [g \in DOMAIN sessions \ gone |->
                        IF g \in left THEN DropMember(sessions[g], p)
                                      ELSE sessions[g]]
      /\ relays' \in {kept, {r \in kept : p \notin r.pair}}
      /\ UNCHANGED <<nextGid, allocating>>

\* The close_for_pid of a logout that was suspended
CloseForPid(p) ==
  /\ relays' = RelaysWithout(p)
  /\ UNCHANGED <<sessions, nextGid, allocating>>

\* get_session_urls on a link that is to be relayed: the host is captured,
\* then _get_or_create suspends unless the relay exists.  The caller need not
\* be in the room.
GetSessionUrls(p, g) ==
  LET key == [gid |-> g, pair |-> {p, sessions[g].host}]
  IN  /\ g \in DOMAIN sessions
      /\ p # sessions[g].host
      /\ key \notin relays
      /\ allocating' = allocating \cup {key}
      /\ UNCHANGED <<sessions, nextGid, relays>>

\* A suspended request resumes, with a relay or with "no UDP relay ports";
\* others may still be suspended on the same key.
RelayBound(key) ==
  /\ key \in allocating
  /\ allocating' \in {allocating \ {key}, allocating}
  /\ relays' \in {relays \cup {key}, relays}
  /\ UNCHANGED <<sessions, nextGid>>

\* One sweep of _janitor_task closes the relays K that carried nothing for
\* RELAY_IDLE_TIMEOUT.
RelaysIdle(K) ==
  /\ relays' = relays \ K
  /\ UNCHANGED <<sessions, nextGid, allocating>>

Next ==
  \/ \E p \in Pid :
       \/ CreateMatchmakeSession(p)
       \/ Leave(p)
       \/ CloseForPid(p)
       \/ \E g \in DOMAIN sessions :
            \/ JoinMatchmakeSession(p, g)
            \/ EndParticipation(p, g)
            \/ GetSessionUrls(p, g)
       \/ \E G \in SUBSET DOMAIN sessions : UnregisterGatherings(p, G)
  \/ \E key \in allocating : RelayBound(key)
  \/ \E K \in SUBSET relays : RelaysIdle(K)

Spec == Init /\ [][Next]_vars

\* The relays, as Relay has them in detail; rooms get every gid after FirstGid
\* in turn, and those that are not there have closed.
Closed == {g \in (FirstGid + 1) .. nextGid : g \notin DOMAIN sessions}

Keys == INSTANCE RelayKeys WITH waiting <- allocating, gone <- Closed

-----------------------------------------------------------------------------
(* What the registry promises.                                             *)

\* The roster and the headcount the browse list shows agree, and a room always
\* contains its host: create, join, leave and leave_gathering each update two
\* copies of the membership (participants, gathering.num_participants).
RoomsConsistent ==
  \A g \in DOMAIN sessions :
     /\ sessions[g].host \in sessions[g].participants
     /\ sessions[g].num = Cardinality(sessions[g].participants)

\* MAX_ROOMS bounds the live rooms and MAX_ROOM_PARTICIPANTS each roster, in
\* whatever order rooms are opened, reaped, joined and left.
CapsHold ==
  /\ Cardinality(DOMAIN sessions) <= MaxRooms
  /\ \A g \in DOMAIN sessions :
        Cardinality(sessions[g].participants) <= MaxRoomParticipants

\* "A host runs exactly one room at a time" (reap_host): no interleaving of
\* creates, leaves and stale rooms gives one player two rooms.
OneRoomPerHost ==
  \A g, h \in DOMAIN sessions : sessions[g].host = sessions[h].host => g = h

\* A gid a client still holds never comes to name another room: gids only
\* grow, and a live room keeps its host.
GidNamesOneRoom ==
  [][/\ \A g \in DOMAIN sessions' \ DOMAIN sessions : g > nextGid /\ g <= nextGid'
     /\ \A g \in DOMAIN sessions' \cap DOMAIN sessions :
           sessions'[g].host = sessions[g].host]_vars

\* reap_host runs before create can raise LimitExceeded; still, a host that
\* has a room never ends a create without one.
HostKeepsARoom ==
  [][\A p \in Pid : CreateMatchmakeSession(p) /\ Hosted(p) # {} => Hosted(p)' # {}]_vars

\* What rooms, their hosts and their guests do to the relays is within the
\* specification of their table: closing a room takes its relays along.
ImplementsRelayKeys == Keys!Spec
=============================================================================
