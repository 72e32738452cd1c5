------------------------------- MODULE Notices ------------------------------
(***************************************************************************)
(* Participation notices (push_participation_left, protocols.py): when a   *)
(* guest leaves a room (end_participation) or its connection ends (logout) *)
(* the server pushes a notice to every member left behind, and each game   *)
(* frees the slot the leaver held in its own roster.  Nothing else frees   *)
(* it: a slot left behind makes the leaver's next join drift to another.   *)
(*                                                                         *)
(* The push is a loop over a copy of the room's participants that awaits   *)
(* at every member it notifies.  Meanwhile members leave, crash, connect   *)
(* anew and join; the connection of each is looked up when the loop        *)
(* reaches it.  A connection delivers its notices in order.                *)
(*                                                                         *)
(* The rooms are those of Rooms, without its relays.  The games (room,     *)
(* roster) are outside this repository, modelled from docs/ARCHITECTURE.md *)
(* section 4 and the comments of the code that serves them.                *)
(***************************************************************************)
EXTENDS Naturals, Sequences, Dict, PlayerIds

CONSTANTS
  MaxRooms, MaxRoomParticipants,
  MaxGid,        \* bound of the model: the last room gid ever issued
  QuickRejoin    \* may a player enter a room before the notices of its last
                 \* departure have arrived, or while still a member of it?

ASSUME RejoinAssumption == QuickRejoin \in BOOLEAN

VARIABLES
  sessions, nextGid,   \* Rooms
  conn,      \* CLIENTS: "off" no entry, "up" a live one, "dead" its peer is gone
  stale,     \* players with a replaced connection whose logout is still to come
  pushes,    \* pushes suspended at an await
  inbox,     \* notices on their way to each player's live game
  room,      \* the room each player's game is in, or NoRoom
  roster     \* the players each game holds a slot for

R == INSTANCE Rooms WITH relays <- {}, allocating <- {}

roomVars == <<sessions, nextGid>>
gameVars == <<room, roster>>
vars == <<roomVars, conn, stale, pushes, inbox, gameVars>>

NoRoom == 0

Notice == [type : {3007, 3008}, subject : Pid]

\* A push: the notice, the room whose members are being notified, those still
\* to be reached, and (logout) the other rooms the player left.
Push == [type : {3007, 3008}, subject : Pid, gid : Nat, to : SUBSET Pid, rest : SUBSET Nat]

TypeOK ==
  /\ R!TypeOK
  /\ conn \in [Pid -> {"off", "up", "dead"}]
  /\ stale \subseteq Pid
  /\ pushes \subseteq Push
  /\ \A c \in pushes : c.subject \notin c.to /\ c.gid \notin c.rest
  /\ DOMAIN inbox = Pid /\ \A q \in Pid : inbox[q] \in Seq(Notice)
  /\ room \in [Pid -> Nat]
  /\ roster \in [Pid -> SUBSET Pid]
  /\ \A p \in Pid : conn[p] # "up" => room[p] = NoRoom /\ inbox[p] = <<>>
  /\ \A p \in Pid : room[p] = NoRoom => roster[p] = {}

Init ==
  /\ R!Init
  /\ conn = [p \in Pid |-> "off"]
  /\ stale = {} /\ pushes = {}
  /\ inbox = [p \in Pid |-> <<>>]
  /\ room = [p \in Pid |-> NoRoom]
  /\ roster = [p \in Pid |-> {}]

-----------------------------------------------------------------------------
(* push_participation_left.                                                *)

Online(Q) == {q \in Q : conn[q] # "off"}

\* Slips: the leaver is not skipped; only the host is told.
TargetsWithLeaver(S, p, g) == IF g \in DOMAIN S THEN S[g].participants \cup {p} ELSE {}

TargetsHostOnly(S, p, g) == IF g \in DOMAIN S THEN {S[g].host} \ {p} ELSE {}

\* Whom a push about player p notifies in room g of the rooms S
TargetsIn(S, p, g) == IF g \in DOMAIN S THEN S[g].participants \ {p} ELSE {}

\* conn.request: a notice that only a live game receives
Sent(box, q, c) ==
  IF conn[q] = "up" THEN [box EXCEPT ![q] = Append(@, [type |-> c.type, subject |-> c.subject])]
                    ELSE box

\* Those push c has still to reach in room g
Remaining(c, g, S) == IF g = c.gid THEN c.to ELSE TargetsIn(S, c.subject, g)

\* Run push c, in the rooms S, up to its next await: the first member that has
\* an entry in CLIENTS is sent the notice, those without one are passed over.
\* A push with nobody more to reach is over.
Run(c, S, others, box) ==
  LET ahead == {g \in {c.gid} \cup c.rest : Online(Remaining(c, g, S)) # {}}
  IN  \/ /\ ahead = {}
         /\ pushes' = others
         /\ inbox' = box
      \/ /\ ahead # {}
         /\ LET g == CHOOSE h \in ahead : \A i \in ahead : h <= i
                to == Remaining(c, g, S)
                later == {h \in c.rest : h > g}
            IN  \E q \in Online(to), passed \in SUBSET (to \ Online(to)) :
                  /\ pushes' = others \cup
                       {d \in {[c EXCEPT !.gid = g, !.to = to \ (passed \cup {q}), !.rest = later]} :
                          d.to \cup d.rest # {}}
                  /\ inbox' = Sent(box, q, c)

\* The pushes of the rooms G that player p has just left, one room after another
Notify(type, p, G, S, box) ==
  Run([type |-> type, subject |-> p, gid |-> NoRoom, to |-> {}, rest |-> G], S, pushes, box)

\* A suspended push goes on
PushOn(c) ==
  /\ c \in pushes
  /\ Run(c, sessions, pushes \ {c}, inbox)
  /\ UNCHANGED <<roomVars, conn, stale, gameVars>>

-----------------------------------------------------------------------------
(* The handlers.                                                           *)

\* A handler of player p answers before its game makes another such request,
\* and the reaper waits longer than a push takes: at most one push of a type.
Pushing(type, p) == \E c \in pushes : c.type = type /\ c.subject = p

\* Something about player p is still under way
NoticedSoon(p) ==
  \/ \E c \in pushes : c.subject = p
  \/ \E q \in Pid : \E i \in DOMAIN inbox[q] : inbox[q][i].subject = p

\* A player enters a room no sooner than the notices about it have arrived
Unhurried(p) == QuickRejoin \/ ~NoticedSoon(p)

\* The game of p leaves its room, if any, and forgets the roster
Home(p) == room' = [room EXCEPT ![p] = NoRoom] /\ roster' = [roster EXCEPT ![p] = {}]

CreateMatchmakeSession(p) ==
  /\ conn[p] = "up" /\ room[p] = NoRoom /\ Unhurried(p)
  /\ R!CreateMatchmakeSession(p)
  /\ room' = [room EXCEPT ![p] = IF nextGid' = nextGid THEN NoRoom ELSE nextGid']
  /\ UNCHANGED <<conn, stale, pushes, inbox, roster>>

JoinMatchmakeSession(p, g) ==
  /\ conn[p] = "up" /\ room[p] = NoRoom /\ Unhurried(p)
  /\ QuickRejoin \/ g \notin R!Joined(p)
  /\ R!JoinMatchmakeSession(p, g)
  /\ room' = [room EXCEPT ![p] = g]
  /\ UNCHANGED <<conn, stale, pushes, inbox, roster>>

\* A slip of end_participation: no notice
EndParticipationSilent(p) ==
  /\ conn[p] = "up" /\ room[p] # NoRoom
  /\ \/ R!EndParticipation(p, room[p])
     \/ room[p] \notin R!Joined(p) /\ UNCHANGED roomVars
  /\ Home(p)
  /\ UNCHANGED <<conn, stale, pushes, inbox>>

\* end_participation: a guest that leaves is announced to the members it
\* leaves behind; a host closes the room unannounced; a room the player is not
\* in (any more) is merely acknowledged.
EndParticipation(p) ==
  /\ conn[p] = "up" /\ room[p] # NoRoom
  /\ ~Pushing(3007, p)
  /\ \/ /\ room[p] \in R!Joined(p) \ R!Hosted(p)
        /\ R!EndParticipation(p, room[p])
        /\ Notify(3007, p, {room[p]}, sessions', inbox)
     \/ /\ room[p] \in R!Joined(p) \cap R!Hosted(p)
        /\ R!EndParticipation(p, room[p])
        /\ UNCHANGED <<pushes, inbox>>
     \/ /\ room[p] \notin R!Joined(p)
        /\ UNCHANGED <<roomVars, pushes, inbox>>
  /\ Home(p)
  /\ UNCHANGED <<conn, stale>>

\* A slip: the reaper's cleanup announces nothing
LogoutSilent(p) ==
  /\ R!Leave(p)
  /\ conn' = [conn EXCEPT ![p] = "off"]
  /\ inbox' = [inbox EXCEPT ![p] = <<>>]
  /\ Home(p)
  /\ UNCHANGED pushes

\* logout of the connection in CLIENTS, by a clean disconnect or the reaper:
\* the rooms are left, then one room after another is told.
LogoutCurrent(p) ==
  /\ R!Leave(p)
  /\ Notify(3008, p, R!Joined(p) \ R!Hosted(p), sessions', [inbox EXCEPT ![p] = <<>>])
  /\ conn' = [conn EXCEPT ![p] = "off"]
  /\ Home(p)

Logout(p) ==
  /\ conn[p] # "off" /\ ~Pushing(3008, p)
  /\ LogoutCurrent(p)
  /\ UNCHANGED stale

\* A slip of logout: `CLIENTS.get(pid) is client` not tested
StaleLogoutUnguarded(p) ==
  /\ p \in stale /\ conn[p] # "off"
  /\ stale' = stale \ {p}
  /\ R!Leave(p)
  /\ Notify(3008, p, R!Joined(p) \ R!Hosted(p), sessions', inbox)
  /\ UNCHANGED <<conn, gameVars>>

\* logout of a connection that was replaced
StaleLogout(p) ==
  /\ p \in stale
  /\ stale' = stale \ {p}
  /\ UNCHANGED <<roomVars, conn, pushes, inbox, gameVars>>

-----------------------------------------------------------------------------
(* The games.                                                              *)

\* The game connects and registers; what CLIENTS held for it becomes stale.
\* Bound of the model: one replaced connection at a time.
Connect(p) ==
  /\ conn[p] = "off" \/ (conn[p] = "dead" /\ stale = {})
  /\ conn' = [conn EXCEPT ![p] = "up"]
  /\ stale' = IF conn[p] = "dead" THEN stale \cup {p} ELSE stale
  /\ UNCHANGED <<roomVars, pushes, inbox, gameVars>>

\* The game is killed or loses its network: the server hears nothing
Crash(p) ==
  /\ conn[p] = "up"
  /\ conn' = [conn EXCEPT ![p] = "dead"]
  /\ inbox' = [inbox EXCEPT ![p] = <<>>]
  /\ Home(p)
  /\ UNCHANGED <<roomVars, stale, pushes>>

Together(p, q) == room[p] = room[q] /\ room[p] # NoRoom

\* Two games in one room link up: q gives p a slot
LinkUp(q, p) ==
  /\ p # q /\ Together(p, q) /\ room[p] \in DOMAIN sessions
  /\ p \notin roster[q]
  /\ roster' = [roster EXCEPT ![q] = @ \cup {p}]
  /\ UNCHANGED <<roomVars, conn, stale, pushes, inbox, room>>

\* The native roster remove: it looks at the player, not at the room
Deliver(q) ==
  /\ inbox[q] # <<>>
  /\ roster' = [roster EXCEPT ![q] = @ \ {Head(inbox[q]).subject}]
  /\ inbox' = [inbox EXCEPT ![q] = Tail(@)]
  /\ UNCHANGED <<roomVars, conn, stale, pushes, room>>

\* A guest whose room has closed bounces out of it
RoomClosed(q) ==
  /\ room[q] \notin DOMAIN sessions \cup {NoRoom}
  /\ Home(q)
  /\ UNCHANGED <<roomVars, conn, stale, pushes, inbox>>

Next ==
  \/ \E p \in Pid :
       \/ CreateMatchmakeSession(p) \/ EndParticipation(p)
       \/ Logout(p) \/ StaleLogout(p)
       \/ Connect(p) \/ Crash(p)
       \/ Deliver(p) \/ RoomClosed(p)
       \/ \E g \in DOMAIN sessions : JoinMatchmakeSession(p, g)
       \/ \E q \in Pid : LinkUp(p, q)
  \/ \E c \in pushes : PushOn(c)

Spec == Init /\ [][Next]_vars

\* The event loop resumes a push whose send is done, and a reliable connection
\* delivers what was sent on it.
Fairness ==
  /\ \A type \in {3007, 3008}, p \in Pid :
       WF_vars(\E c \in pushes : c.type = type /\ c.subject = p /\ PushOn(c))
  /\ \A q \in Pid : WF_vars(Deliver(q))

FairSpec == Spec /\ Fairness

-----------------------------------------------------------------------------
(* What the notices are for.                                               *)

StaleSlot(q, p) ==
  /\ room[q] \in DOMAIN sessions
  /\ p \in roster[q] /\ p \notin sessions[room[q]].participants

\* No member keeps for ever the slot of a player that has left its room by a
\* clean leave, a disconnect or the reaper, whoever comes and goes meanwhile.
SlotsFreed == \A p, q \in Pid : []<>~StaleSlot(q, p)

\* The same, of every state: behind a slot to be freed there is a notice on its
\* way to that game, or a push that has still to reach it.
NoticeUnderWay ==
  \A p, q \in Pid : StaleSlot(q, p) =>
    \/ \E i \in DOMAIN inbox[q] : inbox[q][i].subject = p
    \/ \E c \in pushes : c.subject = p /\
         \E g \in {c.gid} \cup c.rest : q \in Remaining(c, g, sessions)

\* A stale slot makes "the next rejoin drift to a new roster slot"
\* (docs/ARCHITECTURE.md): a player that joins finds none of its own.
RejoinsClean ==
  [][\A p \in Pid : room[p] = NoRoom /\ room'[p] # NoRoom
       => \A q \in Pid : room[q] = room'[p] => p \notin roster[q]]_vars

\* A notice never frees the slot of a player who is there: one that is late,
\* or sent by the end of a connection that was replaced, would cut a live link.
LiveSlotsKept ==
  [][\A p, q \in Pid : p \in roster[q] /\ Together(p, q) /\ room'[q] = room[q] /\ room'[p] = room[p]
       => p \in roster'[q]]_vars
=============================================================================
