----------------------------- MODULE LobbyProofs -----------------------------
(***************************************************************************)
(* Theorems about Lobby, for every set of players and connections and      *)
(* every cap: the composition implements the room registry's own           *)
(* specification, and, where no player has two live connections at once,   *)
(* leaves no ghost in a room or in a hall.                                 *)
(*                                                                         *)
(* The argument turns on who may still send a request: only the current    *)
(* connection of a player, since a game connects anew only once its last   *)
(* connection is dead.                                                     *)
(***************************************************************************)
EXTENDS Lobby, FiniteSetTheorems, TLAPS

\* At most one connection of a player answers.
OneAnswers == \A c, d \in open \ silent : PidOf[c] = PidOf[d] => c = d

\* A registered connection that answers is the one in CLIENTS.
AnsweringIsCurrent == \A c \in registered \ silent : P!Current(c)

\* A room is a record of its three fields.
RoomsAreRecords == \A g \in DOMAIN sessions : DOMAIN sessions[g] = {"host", "participants", "num"}

\* What a player owns was created at run time.
OwnedAtRunTime == \A g \in DOMAIN communities : communities[g].owner # ServerPid => g \in runtimeGids

LobbyInv ==
  /\ registered \subseteq open
  /\ OneAnswers
  /\ AnsweringIsCurrent
  /\ RoomsAreRecords
  /\ OwnedAtRunTime
  /\ NoGhost
  /\ NoGhostInHalls

-----------------------------------------------------------------------------
(* The composition implements the rooms.                                   *)

\* Every step of the server is one of the room registry, or none.
LEMMA RoomStep ==
  ASSUME [Next]_vars
  PROVE  [R!Next]_(R!vars)
<1>1. CASE UNCHANGED roomVars
  BY <1>1 DEF roomVars, R!vars
<1>2. CASE UNCHANGED vars
  BY <1>1, <1>2 DEF vars
<1>3. ASSUME NEW c \in Conn, Logout(c)
      PROVE  [R!Next]_(R!vars)
  <2>1. PidOf[c] \in Pid
    BY LobbyAssumption
  <2>2. CASE R!Leave(PidOf[c])
    BY <2>1, <2>2 DEF R!Next
  <2>3. QED
    BY <1>1, <1>3, <2>2 DEF Logout
<1>4. ASSUME NEW c \in Conn, LogoutFinish(c)
      PROVE  [R!Next]_(R!vars)
  <2>1. PidOf[c] \in Pid /\ R!CloseForPid(PidOf[c])
    BY <1>4, LobbyAssumption DEF LogoutFinish
  <2>2. QED
    BY <2>1 DEF R!Next
<1>5. ASSUME NEW c \in Conn, Request(c)
      PROVE  [R!Next]_(R!vars)
  <2>1. PidOf[c] \in Pid
    BY LobbyAssumption
  <2>2. CASE RoomRequest(PidOf[c])
    <3>1. CASE R!CreateMatchmakeSession(PidOf[c])
      BY <2>1, <3>1 DEF R!Next
    <3>2. ASSUME NEW g \in DOMAIN sessions,
                 \/ R!JoinMatchmakeSession(PidOf[c], g)
                 \/ R!EndParticipation(PidOf[c], g)
                 \/ R!GetSessionUrls(PidOf[c], g)
          PROVE  R!Next
      BY <2>1, <3>2 DEF R!Next
    <3>3. ASSUME NEW g \in DOMAIN sessions, R!UnregisterGatherings(PidOf[c], {g})
          PROVE  R!Next
      <4>1. {g} \in SUBSET DOMAIN sessions
        OBVIOUS
      <4>2. QED
        BY <2>1, <3>3, <4>1 DEF R!Next
    <3>4. QED
      BY <2>2, <3>1, <3>2, <3>3 DEF RoomRequest
  <2>3. QED
    BY <1>1, <1>5, <2>2 DEF Request
<1>6. CASE RelayTask
  BY <1>6 DEF RelayTask, R!Next
<1>7. QED
  BY <1>1, <1>2, <1>3, <1>4, <1>5, <1>6 DEF Next, Connect, Register, FallSilent

\* Composed with connections that die and logouts that overlap requests, the
\* rooms and their relays obey the registry's own specification.
THEOREM LobbyImplementsRooms == Spec => ImplementsRooms
<1>1. Init => R!Init
  BY DEF Init
<1>2. [Next]_vars => [R!Next]_(R!vars)
  BY RoomStep
<1>3. QED
  BY <1>1, <1>2, PTL DEF Spec, ImplementsRooms, R!Spec

-----------------------------------------------------------------------------
(* Connections.                                                            *)

\* Requests and the relays' tasks leave the connections alone.
LEMMA AnsweringStays ==
  ASSUME LobbyInv, UNCHANGED connVars
  PROVE  (registered \subseteq open /\ OneAnswers /\ AnsweringIsCurrent)'
BY DEF LobbyInv, connVars, OneAnswers, AnsweringIsCurrent, P!Current

\* The game connects anew only when its last connection is dead.
LEMMA AnsweringConnect ==
  ASSUME LobbyInv, ~LiveOverlap, NEW c \in Conn, Connect(c)
  PROVE  (registered \subseteq open /\ OneAnswers /\ AnsweringIsCurrent)'
<1>1. /\ open' = open \cup {c} /\ clients' = clients
      /\ registered' = registered /\ silent' = silent
      /\ c \notin open
      /\ \A d \in open : PidOf[d] = PidOf[c] => d \in silent
  BY DEF Connect, P!Open
<1>2. OneAnswers'
  BY <1>1 DEF LobbyInv, OneAnswers
<1>3. QED
  BY <1>1, <1>2 DEF LobbyInv, AnsweringIsCurrent, P!Current

\* The last to register is current, and no other connection of the player
\* answers.
LEMMA AnsweringRegister ==
  ASSUME LobbyInv, NEW c \in Conn, Register(c)
  PROVE  (registered \subseteq open /\ OneAnswers /\ AnsweringIsCurrent)'
<1>1. /\ c \in open \ silent
      /\ clients' = P!Put(clients, PidOf[c], c) /\ open' = open
      /\ registered' = registered \cup {c} /\ silent' = silent
  BY DEF Register, P!Register
<1>2. ASSUME NEW d \in registered' \ silent'
      PROVE  P!Current(d)'
  <2>1. CASE PidOf[d] = PidOf[c]
    <3>1. d = c
      BY <1>1, <1>2, <2>1 DEF LobbyInv, OneAnswers
    <3>2. QED
      BY <1>1, <3>1 DEF P!Current, P!Put
  <2>2. CASE PidOf[d] # PidOf[c]
    <3>1. P!Current(d)
      BY <1>1, <1>2, <2>2 DEF LobbyInv, AnsweringIsCurrent
    <3>2. QED
      BY <1>1, <2>2, <3>1 DEF P!Current, P!Put
  <2>3. QED
    BY <2>1, <2>2
<1>3. QED
  BY <1>1, <1>2 DEF LobbyInv, OneAnswers, AnsweringIsCurrent

\* A connection that falls silent is one fewer.
LEMMA AnsweringSilent ==
  ASSUME LobbyInv, NEW c \in Conn, FallSilent(c)
  PROVE  (registered \subseteq open /\ OneAnswers /\ AnsweringIsCurrent)'
BY DEF FallSilent, LobbyInv, OneAnswers, AnsweringIsCurrent, P!Current

\* The end of a connection leaves those of other players, and the current one.
LEMMA AnsweringLogout ==
  ASSUME LobbyInv, NEW c \in Conn, Logout(c)
  PROVE  (registered \subseteq open /\ OneAnswers /\ AnsweringIsCurrent)'
<1>1. /\ open' = open \ {c} /\ c \in open
      /\ clients' = IF P!Current(c) THEN P!Without(clients, {PidOf[c]}) ELSE clients
      /\ registered' = registered \ {c} /\ silent' = silent \ {c}
  BY DEF Logout, P!Logout
<1>2. OneAnswers'
  BY <1>1 DEF LobbyInv, OneAnswers
<1>3. ASSUME NEW d \in registered' \ silent'
      PROVE  P!Current(d)'
  <2>1. P!Current(d) /\ d # c
    BY <1>1, <1>3 DEF LobbyInv, AnsweringIsCurrent
  <2>2. CASE P!Current(c)
    <3>1. PidOf[d] # PidOf[c]
      BY <2>1, <2>2 DEF P!Current
    <3>2. QED
      BY <1>1, <2>1, <2>2, <3>1 DEF P!Current, P!Without, P!Restrict
  <2>3. CASE ~P!Current(c)
    BY <1>1, <2>1, <2>3 DEF P!Current
  <2>4. QED
    BY <2>2, <2>3
<1>4. QED
  BY <1>1, <1>2, <1>3 DEF LobbyInv, AnsweringIsCurrent

\* What the end of a connection does to who is online.
LEMMA OnlineAfterLogout ==
  ASSUME NEW c \in Conn, Logout(c)
  PROVE  DOMAIN clients' = IF P!Current(c) THEN DOMAIN clients \ {PidOf[c]} ELSE DOMAIN clients
BY DEF Logout, P!Logout, P!Without, P!Restrict

-----------------------------------------------------------------------------
(* Rooms.                                                                  *)

\* Every room after the step is a record, whose members were in it before or
\* are among Q.
RoomsGainOnly(Q) ==
  \A g \in DOMAIN sessions' :
    /\ DOMAIN sessions'[g] = {"host", "participants", "num"}
    /\ sessions'[g].participants \subseteq
         (IF g \in DOMAIN sessions THEN sessions[g].participants ELSE {}) \cup Q

\* A member that is dropped or added changes the roster alone.
LEMMA RoomChange ==
  ASSUME NEW s, DOMAIN s = {"host", "participants", "num"}, NEW p
  PROVE  /\ DOMAIN R!DropMember(s, p) = {"host", "participants", "num"}
         /\ R!DropMember(s, p).participants = s.participants \ {p}
         /\ DOMAIN R!AddMember(s, p) = {"host", "participants", "num"}
         /\ R!AddMember(s, p).participants = s.participants \cup {p}
<1>1. "participants" # "num"
  OBVIOUS
<1>2. QED
  BY <1>1 DEF R!DropMember, R!AddMember

\* The room requests of a player add that player only.
LEMMA RoomRequestGains ==
  ASSUME RoomsAreRecords, NEW p, RoomRequest(p)
  PROVE  RoomsGainOnly({p})
<1>1. CASE R!CreateMatchmakeSession(p)
  <2> DEFINE kept == R!Without(sessions, R!Hosted(p))
  <2>1. DOMAIN kept \subseteq DOMAIN sessions /\ \A g \in DOMAIN kept : kept[g] = sessions[g]
    BY DEF R!Without, R!Restrict
  <2>2. sessions' = kept \/ sessions' = R!Put(kept, nextRoomGid + 1, R!NewSession(p))
    BY <1>1 DEF R!CreateMatchmakeSession, R!CreateIn
  <2> HIDE DEF kept
  <2>3. /\ DOMAIN R!NewSession(p) = {"host", "participants", "num"}
        /\ R!NewSession(p).participants = {p}
    BY DEF R!NewSession
  <2>4. QED
    BY <2>1, <2>2, <2>3 DEF R!Put, RoomsAreRecords, RoomsGainOnly
<1>2. ASSUME NEW g \in DOMAIN sessions, R!JoinMatchmakeSession(p, g)
      PROVE  RoomsGainOnly({p})
  <2>1. sessions' = [sessions EXCEPT ![g] = R!AddMember(sessions[g], p)]
    BY <1>2 DEF R!JoinMatchmakeSession
  <2>2. QED
    BY <1>2, <2>1, RoomChange DEF RoomsAreRecords, RoomsGainOnly
<1>3. ASSUME NEW g \in DOMAIN sessions, R!EndParticipation(p, g)
      PROVE  RoomsGainOnly({p})
  <2>1. CASE sessions' = R!Without(sessions, {g})
    BY <2>1 DEF R!Without, R!Restrict, RoomsAreRecords, RoomsGainOnly
  <2>2. CASE sessions' = [sessions EXCEPT ![g] = R!DropMember(sessions[g], p)]
    BY <1>3, <2>2, RoomChange DEF RoomsAreRecords, RoomsGainOnly
  <2>3. QED
    BY <1>3, <2>1, <2>2 DEF R!EndParticipation
<1>4. ASSUME NEW g \in DOMAIN sessions, R!UnregisterGatherings(p, {g})
      PROVE  RoomsGainOnly({p})
  BY <1>4 DEF R!UnregisterGatherings, R!Without, R!Restrict, RoomsAreRecords, RoomsGainOnly
<1>5. ASSUME NEW g \in DOMAIN sessions, R!GetSessionUrls(p, g)
      PROVE  RoomsGainOnly({p})
  BY <1>5 DEF R!GetSessionUrls, RoomsAreRecords, RoomsGainOnly
<1>6. QED
  BY <1>1, <1>2, <1>3, <1>4, <1>5 DEF RoomRequest

\* A logout leaves the player in no room.
LEMMA LeaveEmpties ==
  ASSUME RoomsAreRecords, NEW p, R!Leave(p)
  PROVE  /\ RoomsGainOnly({})
         /\ \A g \in DOMAIN sessions' : p \notin sessions'[g].participants
<1> DEFINE gone == R!Joined(p) \cap R!Hosted(p)
           left == R!Joined(p) \ gone
<1>1. sessions' = [g \in DOMAIN sessions \ gone |->
                     IF g \in left THEN R!DropMember(sessions[g], p) ELSE sessions[g]]
  BY DEF R!Leave
<1>2. /\ left \subseteq DOMAIN sessions
      /\ \A g \in DOMAIN sessions \ gone : g \notin left => p \notin sessions[g].participants
  BY DEF R!Joined
<1> HIDE DEF gone, left
<1>3. ASSUME NEW g \in DOMAIN sessions'
      PROVE  /\ DOMAIN sessions'[g] = {"host", "participants", "num"}
             /\ sessions'[g].participants = sessions[g].participants \ {p}
             /\ g \in DOMAIN sessions
  <2>1. CASE g \in left
    BY <1>1, <1>2, <1>3, <2>1, RoomChange DEF RoomsAreRecords
  <2>2. CASE g \notin left
    BY <1>1, <1>2, <1>3, <2>2 DEF RoomsAreRecords
  <2>3. QED
    BY <2>1, <2>2
<1>4. QED
  BY <1>3 DEF RoomsGainOnly

-----------------------------------------------------------------------------
(* Halls.                                                                  *)

\* Every hall after the step has the owner and at most the members it had, or
\* is created by one of Q, or gains one of Q.
HallsGainOnly(Q) ==
  \A g \in DOMAIN communities' :
    /\ communities'[g].participants \subseteq
         (IF g \in DOMAIN communities THEN communities[g].participants ELSE {}) \cup Q
    /\ \/ communities'[g].owner \in Q /\ g \in runtimeGids'
       \/ /\ g \in DOMAIN communities
          /\ communities'[g].owner = communities[g].owner
          /\ g \in runtimeGids => g \in runtimeGids'

\* The hall requests of a player add that player only.
LEMMA HallRequestGains ==
  ASSUME NEW p, HallRequest(p)
  PROVE  HallsGainOnly({p})
<1>0. \A owner, members, g : /\ H!Populated(owner, members, g).owner = owner
                             /\ H!Populated(owner, members, g).participants = members
  BY DEF H!Populated
<1>1. CASE H!CreateCommunity(p)
  <2>1. /\ communities' = H!Put(communities, nextHallGid + 1, H!Populated(p, {p}, nextHallGid + 1))
        /\ runtimeGids' = runtimeGids \cup {nextHallGid + 1}
    BY <1>1 DEF H!CreateCommunity
  <2>2. QED
    BY <1>0, <2>1 DEF H!Put, HallsGainOnly
<1>2. ASSUME NEW g \in DOMAIN communities, H!JoinCommunity(p, g)
      PROVE  HallsGainOnly({p})
  BY <1>0, <1>2 DEF H!JoinCommunity, HallsGainOnly
<1>3. ASSUME NEW g \in DOMAIN communities, H!LeaveCommunity(p, g)
      PROVE  HallsGainOnly({p})
  BY <1>0, <1>3 DEF H!LeaveCommunity, HallsGainOnly
<1>4. QED
  BY <1>1, <1>2, <1>3 DEF HallRequest

\* The end of a logout leaves the player in no hall, and owner of none.
LEMMA LogoutEmptiesHalls ==
  ASSUME OwnedAtRunTime, NEW p, p # ServerPid, H!Logout(p)
  PROVE  /\ HallsGainOnly({})
         /\ \A g \in DOMAIN communities' :
              p \notin communities'[g].participants /\ communities'[g].owner # p
<1>1. communities' = H!WithoutMember(DOMAIN communities \ H!Owned(p), p)
      /\ runtimeGids' = runtimeGids \ H!Owned(p)
  BY DEF H!Logout
<1>2. ASSUME NEW g \in DOMAIN communities'
      PROVE  /\ g \in DOMAIN communities /\ g \notin H!Owned(p)
             /\ communities'[g].owner = communities[g].owner
             /\ communities'[g].participants = communities[g].participants \ {p}
  BY <1>1, <1>2 DEF H!WithoutMember, H!Populated
<1>3. \A g \in DOMAIN communities \ H!Owned(p) : communities[g].owner # p
  BY DEF H!Owned, H!Runtime, OwnedAtRunTime
<1>4. QED
  BY <1>1, <1>2, <1>3 DEF HallsGainOnly

\* What holds of the halls once only players online gain by a step.
LEMMA HallsStay ==
  ASSUME LobbyInv, NEW Q, HallsGainOnly(Q),
         Q \cup DOMAIN clients \subseteq DOMAIN clients', closing' = closing
  PROVE  (OwnedAtRunTime /\ NoGhostInHalls)'
BY DEF LobbyInv, HallsGainOnly, OwnedAtRunTime, NoGhostInHalls

-----------------------------------------------------------------------------
(* Steps.                                                                  *)

\* Rooms that only players online enter, while nobody goes offline.
LEMMA RoomsStay ==
  ASSUME LobbyInv, NEW Q, RoomsGainOnly(Q),
         Q \cup DOMAIN clients \subseteq DOMAIN clients'
  PROVE  (RoomsAreRecords /\ NoGhost)'
BY DEF LobbyInv, RoomsGainOnly, RoomsAreRecords, NoGhost

\* Rooms and halls that nobody changes.
LEMMA Unchanged ==
  ASSUME LobbyInv
  PROVE  /\ UNCHANGED roomVars => RoomsGainOnly({})
         /\ UNCHANGED hallVars => HallsGainOnly({})
BY DEF LobbyInv, RoomsAreRecords, RoomsGainOnly, HallsGainOnly, roomVars, hallVars

\* The end of a connection.
LEMMA LogoutStep ==
  ASSUME LobbyInv, ServerPid \notin Pid, NEW c \in Conn, Logout(c)
  PROVE  LobbyInv'
<1> DEFINE p == PidOf[c]
<1>1. (registered \subseteq open /\ OneAnswers /\ AnsweringIsCurrent)'
  BY AnsweringLogout
<1>2. DOMAIN clients' = IF P!Current(c) THEN DOMAIN clients \ {p} ELSE DOMAIN clients
  BY OnlineAfterLogout
<1>3. p \in Pid /\ p # ServerPid
  BY LobbyAssumption
<1> HIDE DEF p
<1>4. CASE ~P!Current(c)
  <2>1. UNCHANGED <<closing, roomVars, hallVars>>
    BY <1>4 DEF Logout
  <2>2. RoomsGainOnly({}) /\ HallsGainOnly({})
    BY <2>1, Unchanged
  <2>3. {} \cup DOMAIN clients \subseteq DOMAIN clients' /\ closing' = closing
    BY <1>2, <1>4, <2>1
  <2>4. (RoomsAreRecords /\ NoGhost)' /\ (OwnedAtRunTime /\ NoGhostInHalls)'
    BY <2>2, <2>3, RoomsStay, HallsStay
  <2>5. QED
    BY <1>1, <2>4 DEF LobbyInv
<1>5. CASE P!Current(c)
  <2>1. R!Leave(p)
    BY <1>5 DEF Logout, p
  <2>2. RoomsGainOnly({}) /\ \A g \in DOMAIN sessions' : p \notin sessions'[g].participants
    BY <2>1, LeaveEmpties DEF LobbyInv
  <2>3. DOMAIN clients' = DOMAIN clients \ {p}
    BY <1>2, <1>5
  <2>4. (RoomsAreRecords /\ NoGhost)'
    BY <2>2, <2>3 DEF LobbyInv, RoomsGainOnly, RoomsAreRecords, NoGhost
  <2>5. CASE closing' = closing \cup {c} /\ UNCHANGED hallVars
    <3>1. HallsGainOnly({})
      BY <2>5, Unchanged
    <3>2. DOMAIN clients \cup {PidOf[d] : d \in closing}
            \subseteq DOMAIN clients' \cup {PidOf[d] : d \in closing'}
      BY <2>3, <2>5 DEF p
    <3>3. (OwnedAtRunTime /\ NoGhostInHalls)'
      BY <3>1, <3>2 DEF LobbyInv, HallsGainOnly, OwnedAtRunTime, NoGhostInHalls
    <3>4. QED
      BY <1>1, <2>4, <3>3 DEF LobbyInv
  <2>6. CASE LeaveHalls(p) /\ closing' = closing
    <3>1. /\ HallsGainOnly({})
          /\ \A g \in DOMAIN communities' :
               p \notin communities'[g].participants /\ communities'[g].owner # p
      BY <1>3, <2>6, LogoutEmptiesHalls DEF LeaveHalls, LobbyInv
    <3>2. (OwnedAtRunTime /\ NoGhostInHalls)'
      BY <2>3, <2>6, <3>1 DEF LobbyInv, HallsGainOnly, OwnedAtRunTime, NoGhostInHalls
    <3>3. QED
      BY <1>1, <2>4, <3>2 DEF LobbyInv
  <2>7. QED
    BY <1>5, <2>5, <2>6 DEF Logout, p
<1>6. QED
  BY <1>4, <1>5

\* The end of a logout that was suspended.
LEMMA LogoutFinishStep ==
  ASSUME LobbyInv, ServerPid \notin Pid, NEW c \in Conn, LogoutFinish(c)
  PROVE  LobbyInv'
<1> DEFINE p == PidOf[c]
<1>1. p \in Pid /\ p # ServerPid
  BY LobbyAssumption
<1>2. /\ closing' = closing \ {c} /\ H!Logout(p)
      /\ UNCHANGED <<open, clients, registered, silent>> /\ sessions' = sessions
  BY DEF LogoutFinish, R!CloseForPid
<1>3. \A d \in closing : PidOf[d] # p => d \in closing'
  BY <1>2
<1>4. {PidOf[d] : d \in closing} \subseteq {PidOf[d] : d \in closing'} \cup {p}
  BY <1>3
<1> HIDE DEF p
<1>5. /\ HallsGainOnly({})
      /\ \A g \in DOMAIN communities' :
           p \notin communities'[g].participants /\ communities'[g].owner # p
  BY <1>1, <1>2, LogoutEmptiesHalls DEF LobbyInv
<1>6. (OwnedAtRunTime /\ NoGhostInHalls)'
  BY <1>2, <1>4, <1>5 DEF LobbyInv, HallsGainOnly, OwnedAtRunTime, NoGhostInHalls
<1>7. QED
  BY <1>2, <1>6
     DEF LobbyInv, OneAnswers, AnsweringIsCurrent, P!Current, RoomsAreRecords, NoGhost

\* A request, which only a player who is online sends.
LEMMA RequestStep ==
  ASSUME LobbyInv, NEW c \in Conn, Request(c)
  PROVE  LobbyInv'
<1> DEFINE p == PidOf[c]
<1>1. (registered \subseteq open /\ OneAnswers /\ AnsweringIsCurrent)'
  BY AnsweringStays DEF Request
<1>2. {p} \cup DOMAIN clients \subseteq DOMAIN clients' /\ closing' = closing
  BY DEF Request, LobbyInv, AnsweringIsCurrent, P!Current, connVars
<1>3. {} \cup DOMAIN clients \subseteq DOMAIN clients'
  BY <1>2
<1> HIDE DEF p
<1>4. RoomsGainOnly({p}) \/ RoomsGainOnly({})
  BY RoomRequestGains, Unchanged DEF Request, LobbyInv, p
<1>5. HallsGainOnly({p}) \/ HallsGainOnly({})
  BY HallRequestGains, Unchanged DEF Request, p
<1>6. (RoomsAreRecords /\ NoGhost)'
  BY <1>2, <1>3, <1>4, RoomsStay
<1>7. (OwnedAtRunTime /\ NoGhostInHalls)'
  BY <1>2, <1>3, <1>5, HallsStay
<1>8. QED
  BY <1>1, <1>6, <1>7 DEF LobbyInv

\* Every step keeps the invariant.
LEMMA LobbyInvStep ==
  ASSUME ~LiveOverlap, ServerPid \notin Pid, LobbyInv, [Next]_vars
  PROVE  LobbyInv'
<1>1. ASSUME UNCHANGED <<sessions, hallVars, closing>>, DOMAIN clients \subseteq DOMAIN clients',
             (registered \subseteq open /\ OneAnswers /\ AnsweringIsCurrent)'
      PROVE  LobbyInv'
  BY <1>1 DEF LobbyInv, hallVars, RoomsAreRecords, OwnedAtRunTime, NoGhost, NoGhostInHalls
<1>2. ASSUME NEW c \in Conn, Connect(c)
      PROVE  LobbyInv'
  BY <1>1, <1>2, AnsweringConnect DEF Connect, P!Open, roomVars
<1>3. ASSUME NEW c \in Conn, Register(c)
      PROVE  LobbyInv'
  BY <1>1, <1>3, AnsweringRegister DEF Register, P!Register, P!Put, roomVars
<1>4. ASSUME NEW c \in Conn, FallSilent(c)
      PROVE  LobbyInv'
  BY <1>1, <1>4, AnsweringSilent DEF FallSilent, roomVars
<1>5. ASSUME NEW c \in Conn, Logout(c) \/ LogoutFinish(c) \/ Request(c)
      PROVE  LobbyInv'
  BY <1>5, LogoutStep, LogoutFinishStep, RequestStep
<1>6. CASE RelayTask
  <2>1. UNCHANGED <<connVars, sessions, hallVars>>
    BY <1>6 DEF RelayTask, R!RelayBound, R!RelaysIdle
  <2>2. QED
    BY <1>1, <2>1, AnsweringStays DEF connVars
<1>7. CASE UNCHANGED vars
  BY <1>1, <1>7, AnsweringStays DEF vars, connVars, roomVars
<1>8. QED
  BY <1>2, <1>3, <1>4, <1>5, <1>6, <1>7 DEF Next

\* The server starts with nobody online and its seeded halls.
LEMMA LobbyInvInit == Init => LobbyInv
<1> SUFFICES ASSUME Init
             PROVE  LobbyInv
  OBVIOUS
<1>1. /\ open = {} /\ registered = {} /\ DOMAIN sessions = {}
      /\ \A g \in DOMAIN communities :
           communities[g].owner = ServerPid /\ communities[g].participants = {}
  BY DEF Init, P!Init, R!Init, R!NoEntries, H!HallInit, H!Populated
<1>2. QED
  BY <1>1
     DEF LobbyInv, OneAnswers, AnsweringIsCurrent, RoomsAreRecords, OwnedAtRunTime, NoGhost,
         NoGhostInHalls

-----------------------------------------------------------------------------
(* The theorems.                                                           *)

\* Only the current connection of a player sends requests, and so only players
\* online enter rooms and halls.
THEOREM LobbyInvariant ==
  ASSUME ~LiveOverlap, ServerPid \notin Pid
  PROVE  Spec => []LobbyInv
<1>1. LobbyInv /\ [Next]_vars => LobbyInv'
  BY LobbyInvStep
<1>2. QED
  BY <1>1, LobbyInvInit, PTL DEF Spec

\* Whoever is in a room is online, whatever crashes, reconnects and late
\* logouts come between (register, logout, the handlers of the rooms).
THEOREM NobodyHauntsRooms ==
  ASSUME ~LiveOverlap, ServerPid \notin Pid
  PROVE  Spec => []NoGhost
<1>1. LobbyInv => NoGhost
  BY DEF LobbyInv
<1>2. QED
  BY <1>1, LobbyInvariant, PTL

\* Whoever is in a hall, or owns one, is online or has a logout under way.
THEOREM NobodyHauntsHalls ==
  ASSUME ~LiveOverlap, ServerPid \notin Pid
  PROVE  Spec => []NoGhostInHalls
<1>1. LobbyInv => NoGhostInHalls
  BY DEF LobbyInv
<1>2. QED
  BY <1>1, LobbyInvariant, PTL

-----------------------------------------------------------------------------
(* Who may take a player out of a room or a hall.                          *)

\* A gid that is new names no live room and no live hall.
GidsIssued ==
  /\ RoomsAreRecords
  /\ nextRoomGid \in Nat /\ \A g \in DOMAIN sessions : g \in 0 .. nextRoomGid
  /\ nextHallGid \in Nat /\ \A g \in DOMAIN communities : g \in 0 .. nextHallGid

\* The rooms change by a call of the registry.
LEMMA RoomGidsStep ==
  ASSUME GidsIssued, NEW p,
         RoomRequest(p) \/ R!Leave(p) \/ UNCHANGED <<sessions, nextRoomGid>>
  PROVE  /\ nextRoomGid' \in Nat
         /\ \A g \in DOMAIN sessions' : g \in 0 .. nextRoomGid'
<1>1. CASE R!CreateMatchmakeSession(p)
  <2> DEFINE kept == R!Without(sessions, R!Hosted(p))
  <2>1. DOMAIN kept \subseteq DOMAIN sessions
    BY DEF R!Without, R!Restrict
  <2>2. \/ sessions' = kept /\ nextRoomGid' = nextRoomGid
        \/ /\ sessions' = R!Put(kept, nextRoomGid + 1, R!NewSession(p))
           /\ nextRoomGid' = nextRoomGid + 1
    BY <1>1 DEF R!CreateMatchmakeSession, R!CreateIn
  <2>3. DOMAIN R!Put(kept, nextRoomGid + 1, R!NewSession(p)) = DOMAIN kept \cup {nextRoomGid + 1}
    BY DEF R!Put
  <2> HIDE DEF kept
  <2>4. QED
    BY <2>1, <2>2, <2>3 DEF GidsIssued
<1>2. CASE DOMAIN sessions' \subseteq DOMAIN sessions /\ nextRoomGid' = nextRoomGid
  BY <1>2 DEF GidsIssued
<1>3. QED
  BY <1>1, <1>2
     DEF RoomRequest, R!JoinMatchmakeSession, R!EndParticipation, R!UnregisterGatherings,
         R!GetSessionUrls, R!Leave, R!Without, R!Restrict

\* The halls change by a call of theirs.
LEMMA HallGidsStep ==
  ASSUME GidsIssued, NEW p, HallRequest(p) \/ H!Logout(p) \/ UNCHANGED hallVars
  PROVE  /\ nextHallGid' \in Nat
         /\ \A g \in DOMAIN communities' : g \in 0 .. nextHallGid'
<1>1. CASE H!CreateCommunity(p)
  <2>1. DOMAIN communities' = DOMAIN communities \cup {nextHallGid + 1} /\ nextHallGid' = nextHallGid + 1
    BY <1>1 DEF H!CreateCommunity, H!Put
  <2>2. QED
    BY <2>1 DEF GidsIssued
<1>2. CASE DOMAIN communities' \subseteq DOMAIN communities /\ nextHallGid' = nextHallGid
  BY <1>2 DEF GidsIssued
<1>3. QED
  BY <1>1, <1>2
     DEF HallRequest, H!JoinCommunity, H!LeaveCommunity, H!Logout, H!WithoutMember, hallVars

\* A room is left by its member, or taken by its host.
LEMMA RoomRemoval ==
  ASSUME GidsIssued, NEW q, RoomRequest(q) \/ R!Leave(q),
         NEW p, NEW g \in R!Joined(p), p # q, sessions[g].host # q
  PROVE  g \in R!Joined(p)'
<1>1. /\ g \in DOMAIN sessions /\ p \in sessions[g].participants /\ g \notin R!Hosted(q)
      /\ DOMAIN sessions[g] = {"host", "participants", "num"}
  BY DEF R!Joined, R!Hosted, GidsIssued, RoomsAreRecords
<1> SUFFICES g \in DOMAIN sessions' /\ p \in sessions'[g].participants
  BY DEF R!Joined
<1>2. CASE R!CreateMatchmakeSession(q)
  <2> DEFINE kept == R!Without(sessions, R!Hosted(q))
  <2>1. g \in DOMAIN kept /\ kept[g] = sessions[g]
    BY <1>1 DEF R!Without, R!Restrict
  <2>2. sessions' = kept \/ sessions' = R!Put(kept, nextRoomGid + 1, R!NewSession(q))
    BY <1>2 DEF R!CreateMatchmakeSession, R!CreateIn
  <2>3. g # nextRoomGid + 1
    BY <1>1 DEF GidsIssued
  <2> HIDE DEF kept
  <2>4. QED
    BY <1>1, <2>1, <2>2, <2>3 DEF R!Put
<1>3. ASSUME NEW h \in DOMAIN sessions, R!JoinMatchmakeSession(q, h)
      PROVE  g \in DOMAIN sessions' /\ p \in sessions'[g].participants
  <2>1. sessions' = [sessions EXCEPT ![h] = R!AddMember(sessions[h], q)]
    BY <1>3 DEF R!JoinMatchmakeSession
  <2>2. QED
    BY <1>1, <2>1, RoomChange
<1>4. ASSUME NEW h \in DOMAIN sessions, R!EndParticipation(q, h)
      PROVE  g \in DOMAIN sessions' /\ p \in sessions'[g].participants
  <2>1. CASE sessions[h].host = q /\ sessions' = R!Without(sessions, {h})
    BY <1>1, <2>1 DEF R!Without, R!Restrict
  <2>2. CASE sessions' = [sessions EXCEPT ![h] = R!DropMember(sessions[h], q)]
    BY <1>1, <2>2, RoomChange
  <2>3. QED
    BY <1>4, <2>1, <2>2 DEF R!EndParticipation
<1>5. ASSUME NEW h \in DOMAIN sessions, R!UnregisterGatherings(q, {h})
      PROVE  g \in DOMAIN sessions' /\ p \in sessions'[g].participants
  BY <1>1, <1>5 DEF R!UnregisterGatherings, R!Without, R!Restrict
<1>6. ASSUME NEW h \in DOMAIN sessions, R!GetSessionUrls(q, h)
      PROVE  g \in DOMAIN sessions' /\ p \in sessions'[g].participants
  BY <1>1, <1>6 DEF R!GetSessionUrls
<1>7. CASE R!Leave(q)
  <2> DEFINE gone == R!Joined(q) \cap R!Hosted(q)
             left == R!Joined(q) \ gone
  <2>1. sessions' = [h \in DOMAIN sessions \ gone |->
                       IF h \in left THEN R!DropMember(sessions[h], q) ELSE sessions[h]]
    BY <1>7 DEF R!Leave
  <2>2. g \notin gone
    BY <1>1
  <2> HIDE DEF gone, left
  <2>3. g \in DOMAIN sessions' /\ sessions'[g] \in {R!DropMember(sessions[g], q), sessions[g]}
    BY <1>1, <2>1, <2>2
  <2>4. QED
    BY <1>1, <2>3, RoomChange
<1>8. QED
  BY <1>2, <1>3, <1>4, <1>5, <1>6, <1>7 DEF RoomRequest

\* A hall is left by its member, or goes with its owner.
LEMMA HallRemoval ==
  ASSUME GidsIssued, NEW q, HallRequest(q) \/ H!Logout(q),
         NEW p, NEW g \in H!JoinedHalls(p), p # q,
         H!Logout(q) => communities[g].owner # q
  PROVE  g \in H!JoinedHalls(p)'
<1>0. \A owner, members, h : H!Populated(owner, members, h).participants = members
  BY DEF H!Populated
<1>1. g \in DOMAIN communities /\ p \in communities[g].participants
  BY DEF H!JoinedHalls
<1> SUFFICES g \in DOMAIN communities' /\ p \in communities'[g].participants
  BY DEF H!JoinedHalls
<1>2. CASE H!CreateCommunity(q)
  <2>1. g # nextHallGid + 1
    BY <1>1 DEF GidsIssued
  <2>2. QED
    BY <1>1, <1>2, <2>1 DEF H!CreateCommunity, H!Put
<1>3. ASSUME NEW h \in DOMAIN communities, H!JoinCommunity(q, h) \/ H!LeaveCommunity(q, h)
      PROVE  g \in DOMAIN communities' /\ p \in communities'[g].participants
  BY <1>0, <1>1, <1>3 DEF H!JoinCommunity, H!LeaveCommunity
<1>4. CASE H!Logout(q)
  <2>1. g \in DOMAIN communities \ H!Owned(q)
    BY <1>1, <1>4 DEF H!Owned
  <2>2. communities'[g].participants \in {communities[g].participants, communities[g].participants \ {q}}
        /\ g \in DOMAIN communities'
    BY <1>0, <1>4, <2>1 DEF H!Logout, H!WithoutMember
  <2>3. QED
    BY <1>1, <2>2
<1>5. QED
  BY <1>2, <1>3, <1>4 DEF HallRequest

\* What a step of the server may be.
LEMMA StepIs ==
  ASSUME [Next]_vars
  PROVE  \/ UNCHANGED <<sessions, nextRoomGid, hallVars>>
         \/ \E c \in Conn : Request(c) /\
              \/ RoomRequest(PidOf[c]) /\ UNCHANGED hallVars
              \/ HallRequest(PidOf[c]) /\ UNCHANGED roomVars
         \/ \E c \in Conn : Logout(c) /\ R!Leave(PidOf[c])
                              /\ (UNCHANGED hallVars \/ H!Logout(PidOf[c]))
         \/ \E c \in Conn : LogoutFinish(c) /\ H!Logout(PidOf[c])
                              /\ sessions' = sessions /\ nextRoomGid' = nextRoomGid
<1>1. ASSUME NEW c \in Conn, Connect(c) \/ Register(c) \/ FallSilent(c)
      PROVE  UNCHANGED <<sessions, nextRoomGid, hallVars>>
  BY <1>1 DEF Connect, Register, FallSilent, roomVars
<1>2. ASSUME RelayTask \/ UNCHANGED vars
      PROVE  UNCHANGED <<sessions, nextRoomGid, hallVars>>
  BY <1>2 DEF RelayTask, R!RelayBound, R!RelaysIdle, vars, roomVars
<1>3. ASSUME NEW c \in Conn, Logout(c)
      PROVE  \/ UNCHANGED <<sessions, nextRoomGid, hallVars>>
             \/ R!Leave(PidOf[c]) /\ (UNCHANGED hallVars \/ H!Logout(PidOf[c]))
  BY <1>3 DEF Logout, LeaveHalls, roomVars
<1>4. ASSUME NEW c \in Conn, LogoutFinish(c)
      PROVE  H!Logout(PidOf[c]) /\ sessions' = sessions /\ nextRoomGid' = nextRoomGid
  BY <1>4 DEF LogoutFinish, R!CloseForPid
<1>5. ASSUME NEW c \in Conn, Request(c)
      PROVE  \/ RoomRequest(PidOf[c]) /\ UNCHANGED hallVars
             \/ HallRequest(PidOf[c]) /\ UNCHANGED roomVars
  BY <1>5 DEF Request
<1>6. QED
  BY <1>1, <1>2, <1>3, <1>4, <1>5 DEF Next

\* Gids stay issued.
LEMMA GidsIssuedStep == GidsIssued /\ [Next]_vars => GidsIssued'
<1> SUFFICES ASSUME GidsIssued, [Next]_vars
             PROVE  GidsIssued'
  OBVIOUS
<1>1. ASSUME NEW p,
             RoomRequest(p) \/ R!Leave(p) \/ UNCHANGED <<sessions, nextRoomGid>>,
             HallRequest(p) \/ H!Logout(p) \/ UNCHANGED hallVars
      PROVE  GidsIssued'
  <2>1. RoomsAreRecords'
    <3>1. RoomsGainOnly({p}) \/ RoomsGainOnly({}) \/ sessions' = sessions
      BY <1>1, RoomRequestGains, LeaveEmpties DEF GidsIssued
    <3>2. QED
      BY <3>1 DEF RoomsGainOnly, RoomsAreRecords, GidsIssued
  <2>2. /\ nextRoomGid' \in Nat
        /\ \A g \in DOMAIN sessions' : g \in 0 .. nextRoomGid'
    BY <1>1, RoomGidsStep
  <2>3. /\ nextHallGid' \in Nat
        /\ \A g \in DOMAIN communities' : g \in 0 .. nextHallGid'
    BY <1>1, HallGidsStep
  <2>4. QED
    BY <2>1, <2>2, <2>3 DEF GidsIssued
<1>2. UNCHANGED roomVars => UNCHANGED <<sessions, nextRoomGid>>
  BY DEF roomVars
<1>3. QED
  BY <1>1, <1>2, StepIs

\* No step takes a player out of a room or a hall but the player's own, or
\* that of the room's host or the hall's owner.
LEMMA RemovalStep ==
  ASSUME GidsIssued, [Next]_vars, NEW p \in Pid
  PROVE  /\ \A g \in R!Joined(p) \ R!Joined(p)' :
              \E c \in Conn : PidOf[c] \in {p, sessions[g].host} /\ (Request(c) \/ Logout(c))
         /\ \A g \in H!JoinedHalls(p) \ H!JoinedHalls(p)' :
              \E c \in Conn : PidOf[c] \in {p, communities[g].owner}
                                /\ (Request(c) \/ Logout(c) \/ LogoutFinish(c))
<1>1. sessions' = sessions => R!Joined(p)' = R!Joined(p)
  BY DEF R!Joined
<1>2. UNCHANGED hallVars => H!JoinedHalls(p)' = H!JoinedHalls(p)
  BY DEF H!JoinedHalls, hallVars
<1>3. UNCHANGED roomVars => sessions' = sessions
  BY DEF roomVars
<1>4. ASSUME NEW g \in R!Joined(p) \ R!Joined(p)'
      PROVE  \E c \in Conn : PidOf[c] \in {p, sessions[g].host} /\ (Request(c) \/ Logout(c))
  <2>1. sessions' # sessions
    BY <1>1, <1>4
  <2>2. PICK c \in Conn : /\ Request(c) \/ Logout(c)
                          /\ RoomRequest(PidOf[c]) \/ R!Leave(PidOf[c])
    BY <1>3, <2>1, StepIs
  <2>3. PidOf[c] \in {p, sessions[g].host}
    BY <1>4, <2>2, RoomRemoval
  <2>4. QED
    BY <2>2, <2>3
<1>5. ASSUME NEW g \in H!JoinedHalls(p) \ H!JoinedHalls(p)'
      PROVE  \E c \in Conn : PidOf[c] \in {p, communities[g].owner}
                               /\ (Request(c) \/ Logout(c) \/ LogoutFinish(c))
  <2>1. ~UNCHANGED hallVars
    BY <1>2, <1>5
  <2>2. PICK c \in Conn : /\ Request(c) \/ Logout(c) \/ LogoutFinish(c)
                          /\ HallRequest(PidOf[c]) \/ H!Logout(PidOf[c])
    BY <2>1, StepIs
  <2>3. PidOf[c] \in {p, communities[g].owner}
    BY <1>5, <2>2, HallRemoval
  <2>4. QED
    BY <2>2, <2>3
<1>6. QED
  BY <1>4, <1>5

\* Nobody's room or hall is taken from under them by a stranger.
THEOREM NobodyIsEvicted ==
  ASSUME H!Seeded \subseteq 1 .. H!FirstHallGid
  PROVE  Spec => RemovedByOwnerOrSelf
<1> DEFINE A == \A p \in Pid :
                  /\ \A g \in R!Joined(p) \ R!Joined(p)' :
                       \E c \in Conn : PidOf[c] \in {p, sessions[g].host}
                                         /\ (Request(c) \/ Logout(c))
                  /\ \A g \in H!JoinedHalls(p) \ H!JoinedHalls(p)' :
                       \E c \in Conn : PidOf[c] \in {p, communities[g].owner}
                                         /\ (Request(c) \/ Logout(c) \/ LogoutFinish(c))
<1>1. Init => GidsIssued
  <2> SUFFICES ASSUME Init
               PROVE  GidsIssued
    OBVIOUS
  <2>1. DOMAIN sessions = {} /\ nextRoomGid = 4096
    BY DEF Init, R!Init, R!NoEntries, R!FirstGid
  <2>2. DOMAIN communities = H!Seeded /\ nextHallGid = 8192
    BY DEF Init, H!HallInit, H!FirstHallGid
  <2>3. nextHallGid \in Nat /\ \A g \in DOMAIN communities : g \in 0 .. nextHallGid
    <3>1. nextHallGid \in Nat
      BY <2>2
    <3>2. ASSUME NEW g \in DOMAIN communities
          PROVE  g \in 0 .. nextHallGid
      <4>1. g \in H!Seeded
        BY <2>2, <3>2
      <4>2. g \in 1 .. H!FirstHallGid
        BY <4>1
      <4>3. nextHallGid = H!FirstHallGid /\ H!FirstHallGid = 8192
        BY <2>2 DEF H!FirstHallGid
      <4>4. QED
        BY <2>2, <4>2, <4>3
    <3>3. QED
      BY <3>1, <3>2
  <2>4. nextRoomGid \in Nat /\ \A g \in DOMAIN sessions : g \in 0 .. nextRoomGid
    BY <2>1
  <2>5. RoomsAreRecords
    BY <2>1 DEF RoomsAreRecords
  <2>6. QED
    BY <2>3, <2>4, <2>5 DEF GidsIssued
<1>2. GidsIssued /\ [Next]_vars => [A]_vars
  BY RemovalStep
<1> HIDE DEF A
<1>3. Spec => [][A]_vars
  BY <1>1, <1>2, GidsIssuedStep, PTL DEF Spec
<1>4. QED
  BY <1>3 DEF RemovedByOwnerOrSelf, A

-----------------------------------------------------------------------------
(* Rooms and halls share one space of gids.                                *)

\* Rooms are numbered above their start, halls seeded or numbered above theirs.
GidRanges ==
  /\ nextRoomGid \in Nat /\ nextRoomGid >= R!FirstGid
  /\ \A g \in DOMAIN sessions : g \in R!FirstGid + 1 .. nextRoomGid
  /\ nextHallGid \in Nat /\ nextHallGid >= H!FirstHallGid
  /\ \A g \in DOMAIN communities : g \in H!Seeded \/ (g \in Nat /\ g > H!FirstHallGid)

\* A call of the room registry numbers a new room on, or opens none.
LEMMA RoomRangeStep ==
  ASSUME GidRanges, NEW p,
         RoomRequest(p) \/ R!Leave(p) \/ UNCHANGED <<sessions, nextRoomGid>>
  PROVE  /\ nextRoomGid' \in Nat /\ nextRoomGid' >= R!FirstGid
         /\ \A g \in DOMAIN sessions' : g \in R!FirstGid + 1 .. nextRoomGid'
<1>0. R!FirstGid \in Nat
  BY DEF R!FirstGid
<1>1. CASE R!CreateMatchmakeSession(p)
  <2> DEFINE kept == R!Without(sessions, R!Hosted(p))
  <2>1. DOMAIN kept \subseteq DOMAIN sessions
    BY DEF R!Without, R!Restrict
  <2>2. \/ sessions' = kept /\ nextRoomGid' = nextRoomGid
        \/ /\ sessions' = R!Put(kept, nextRoomGid + 1, R!NewSession(p))
           /\ nextRoomGid' = nextRoomGid + 1
    BY <1>1 DEF R!CreateMatchmakeSession, R!CreateIn
  <2>3. DOMAIN R!Put(kept, nextRoomGid + 1, R!NewSession(p)) = DOMAIN kept \cup {nextRoomGid + 1}
    BY DEF R!Put
  <2> HIDE DEF kept
  <2>4. QED
    BY <1>0, <2>1, <2>2, <2>3 DEF GidRanges
<1>2. CASE DOMAIN sessions' \subseteq DOMAIN sessions /\ nextRoomGid' = nextRoomGid
  BY <1>2 DEF GidRanges
<1>3. QED
  BY <1>1, <1>2
     DEF RoomRequest, R!JoinMatchmakeSession, R!EndParticipation, R!UnregisterGatherings,
         R!GetSessionUrls, R!Leave, R!Without, R!Restrict

\* So does a call of the halls'.
LEMMA HallRangeStep ==
  ASSUME GidRanges, NEW p, HallRequest(p) \/ H!Logout(p) \/ UNCHANGED hallVars
  PROVE  /\ nextHallGid' \in Nat /\ nextHallGid' >= H!FirstHallGid
         /\ \A g \in DOMAIN communities' : g \in H!Seeded \/ (g \in Nat /\ g > H!FirstHallGid)
<1>0. H!FirstHallGid \in Nat
  BY DEF H!FirstHallGid
<1>1. CASE H!CreateCommunity(p)
  <2>1. DOMAIN communities' = DOMAIN communities \cup {nextHallGid + 1} /\ nextHallGid' = nextHallGid + 1
    BY <1>1 DEF H!CreateCommunity, H!Put
  <2>2. QED
    BY <1>0, <2>1 DEF GidRanges
<1>2. CASE DOMAIN communities' \subseteq DOMAIN communities /\ nextHallGid' = nextHallGid
  BY <1>2 DEF GidRanges
<1>3. QED
  BY <1>1, <1>2
     DEF HallRequest, H!JoinCommunity, H!LeaveCommunity, H!Logout, H!WithoutMember, hallVars

\* A number is not both at most a and above it.
LEMMA RangesDisjoint ==
  ASSUME NEW a \in Nat, NEW n \in Nat, NEW g, g \in 1 .. a, g \in a + 1 .. n
  PROVE  FALSE
OBVIOUS

\* No gid names both a room and a hall while the rooms are below the halls'
\* first gid (GatheringRegistry and CommunityRegistry, _next_gid).
THEOREM GatheringsAreApart ==
  ASSUME H!Seeded \subseteq 1 .. R!FirstGid
  PROVE  Spec => []GidsApart
<1>1. Init => GidRanges
  <2> SUFFICES ASSUME Init
               PROVE  GidRanges
    OBVIOUS
  <2>1. DOMAIN sessions = {} /\ nextRoomGid = 4096
    BY DEF Init, R!Init, R!NoEntries, R!FirstGid
  <2>2. DOMAIN communities = H!Seeded /\ nextHallGid = 8192
    BY DEF Init, H!HallInit, H!FirstHallGid
  <2>3. QED
    BY <2>1, <2>2 DEF GidRanges, R!FirstGid, H!FirstHallGid
<1>2. GidRanges /\ [Next]_vars => GidRanges'
  <2> SUFFICES ASSUME GidRanges, [Next]_vars
               PROVE  GidRanges'
    OBVIOUS
  <2>1. ASSUME NEW p,
               RoomRequest(p) \/ R!Leave(p) \/ UNCHANGED <<sessions, nextRoomGid>>,
               HallRequest(p) \/ H!Logout(p) \/ UNCHANGED hallVars
        PROVE  GidRanges'
    <3>1. /\ nextRoomGid' \in Nat /\ nextRoomGid' >= R!FirstGid
          /\ \A g \in DOMAIN sessions' : g \in R!FirstGid + 1 .. nextRoomGid'
      BY <2>1, RoomRangeStep
    <3>2. /\ nextHallGid' \in Nat /\ nextHallGid' >= H!FirstHallGid
          /\ \A g \in DOMAIN communities' : g \in H!Seeded \/ (g \in Nat /\ g > H!FirstHallGid)
      BY <2>1, HallRangeStep
    <3>3. QED
      BY <3>1, <3>2 DEF GidRanges
  <2>2. UNCHANGED roomVars => UNCHANGED <<sessions, nextRoomGid>>
    BY DEF roomVars
  <2>3. QED
    BY <2>1, <2>2, StepIs
<1>3. GidRanges => GidsApart
  <2> SUFFICES ASSUME GidRanges, nextRoomGid <= H!FirstHallGid,
                      NEW g \in DOMAIN sessions, g \in DOMAIN communities
               PROVE  FALSE
    BY DEF GidsApart
  <2>1. R!FirstGid = 4096 /\ H!FirstHallGid = 8192
    BY DEF R!FirstGid, H!FirstHallGid
  <2>2. g \in R!FirstGid + 1 .. nextRoomGid /\ nextRoomGid \in Nat
    BY DEF GidRanges
  <2>3. g \in H!Seeded \/ (g \in Nat /\ g > H!FirstHallGid)
    BY DEF GidRanges
  <2>4. CASE g \in H!Seeded
    <3>1. g \in 1 .. R!FirstGid
      BY <2>4
    <3>2. R!FirstGid \in Nat
      BY <2>1
    <3>3. QED
      BY <2>2, <3>1, <3>2, RangesDisjoint
  <2>5. CASE g > H!FirstHallGid
    BY <2>1, <2>2, <2>5
  <2>6. QED
    BY <2>3, <2>4, <2>5
<1>4. QED
  BY <1>1, <1>2, <1>3, PTL DEF Spec

-----------------------------------------------------------------------------
(* The composition implements the halls, too.                              *)

\* Every step of the server is one of the hall registry, or none.
LEMMA HallStep ==
  ASSUME [Next]_vars
  PROVE  [H!HallNext]_(H!hallVars)
<1>1. CASE UNCHANGED hallVars
  BY <1>1 DEF hallVars, H!hallVars
<1>2. ASSUME NEW c \in Conn, HallRequest(PidOf[c]) \/ H!Logout(PidOf[c])
      PROVE  H!HallNext
  BY <1>2, LobbyAssumption DEF HallRequest, H!HallNext
<1>3. QED
  BY <1>1, <1>2, StepIs

\* Composed with connections that die and logouts that are suspended, the halls
\* obey the registry's own specification (CommunityRegistry).
THEOREM LobbyImplementsHalls == Spec => H!HallSpec
<1>1. Init => H!HallInit
  BY DEF Init
<1>2. [Next]_vars => [H!HallNext]_(H!hallVars)
  BY HallStep
<1>3. QED
  BY <1>1, <1>2, PTL DEF Spec, H!HallSpec

-----------------------------------------------------------------------------
(* Types.                                                                  *)

\* A dict: a value for each of its keys, and nothing else.
IsDict(f) == f = [k \in DOMAIN f |-> f[k]]

\* A roster is finite because the player ids are.
LEMMA RosterCounted ==
  ASSUME IsFiniteSet(Pid), NEW S \in SUBSET Pid
  PROVE  R!Cardinality(S) \in Nat /\ H!Cardinality(S) \in Nat
<1>1. Cardinality(S) \in Nat
  BY FS_Subset, FS_CardinalityType
<1>2. R!Cardinality(S) = Cardinality(S) /\ H!Cardinality(S) = Cardinality(S)
  BY DEF R!Cardinality, H!Cardinality, Cardinality
<1>3. QED
  BY <1>1, <1>2

\* A room whose roster changes is a room.
LEMMA RoomTyped ==
  ASSUME IsFiniteSet(Pid), NEW p \in Pid
  PROVE  /\ R!NewSession(p) \in R!Session
         /\ \A s \in R!Session : R!DropMember(s, p) \in R!Session /\ R!AddMember(s, p) \in R!Session
<1>1. R!NewSession(p) \in R!Session
  BY DEF R!NewSession, R!Session
<1>2. ASSUME NEW s \in R!Session
      PROVE  R!DropMember(s, p) \in R!Session /\ R!AddMember(s, p) \in R!Session
  <2>1. s.participants \ {p} \in SUBSET Pid /\ s.participants \cup {p} \in SUBSET Pid
    BY DEF R!Session
  <2>2. /\ R!Cardinality(s.participants \ {p}) \in Nat
        /\ R!Cardinality(s.participants \cup {p}) \in Nat
    BY <2>1, RosterCounted
  <2>3. QED
    BY <2>1, <2>2 DEF R!Session, R!DropMember, R!AddMember
<1>3. QED
  BY <1>1, <1>2

\* The relay a player asks for is keyed by a room and two players.
LEMMA KeyTyped ==
  ASSUME R!TypeOK, NEW p \in Pid, NEW g \in DOMAIN sessions
  PROVE  [gid |-> g, pair |-> {p, sessions[g].host}] \in R!RelayKey
<1>1. g \in Nat /\ sessions[g].host \in Pid
  BY DEF R!TypeOK, R!Session
<1>2. QED
  BY <1>1 DEF R!RelayKey

\* Every operation on the rooms keeps their types.
LEMMA RoomsTyped ==
  ASSUME IsFiniteSet(Pid), R!TypeOK, [R!Next]_(R!vars)
  PROVE  R!TypeOK'
<1>0. /\ \A S : R!RelaysOutside(S) \subseteq relays
      /\ \A p : R!RelaysWithout(p) \subseteq relays
      /\ \A S : /\ DOMAIN R!Without(sessions, S) \subseteq DOMAIN sessions
                /\ \A g \in DOMAIN R!Without(sessions, S) : R!Without(sessions, S)[g] = sessions[g]
                /\ IsDict(R!Without(sessions, S))
  BY DEF R!RelaysOutside, R!RelaysWithout, R!Without, R!Restrict, IsDict
<1>1. ASSUME NEW kept, sessions' = kept, IsDict(kept), DOMAIN kept \subseteq Nat,
             \A g \in DOMAIN kept : kept[g] \in R!Session,
             nextRoomGid' \in Nat,
             relays' \subseteq relays, allocating' = allocating
      PROVE  R!TypeOK'
  BY <1>1 DEF R!TypeOK, IsDict
<1>2. ASSUME NEW p \in Pid, R!CreateMatchmakeSession(p)
      PROVE  R!TypeOK'
  <2> DEFINE kept == R!Without(sessions, R!Hosted(p))
  <2>1. /\ DOMAIN kept \subseteq Nat /\ IsDict(kept)
        /\ \A g \in DOMAIN kept : kept[g] \in R!Session
    BY <1>0 DEF R!TypeOK
  <2>2. \/ sessions' = kept /\ nextRoomGid' = nextRoomGid
        \/ /\ sessions' = R!Put(kept, nextRoomGid + 1, R!NewSession(p))
           /\ nextRoomGid' = nextRoomGid + 1
    BY <1>2 DEF R!CreateMatchmakeSession, R!CreateIn
  <2>3. relays' \subseteq relays /\ allocating' = allocating /\ nextRoomGid \in Nat
    BY <1>0, <1>2 DEF R!CreateMatchmakeSession, R!TypeOK
  <2> HIDE DEF kept
  <2>4. CASE sessions' = kept /\ nextRoomGid' = nextRoomGid
    BY <1>1, <2>1, <2>3, <2>4
  <2>5. CASE /\ sessions' = R!Put(kept, nextRoomGid + 1, R!NewSession(p))
             /\ nextRoomGid' = nextRoomGid + 1
    <3> DEFINE more == R!Put(kept, nextRoomGid + 1, R!NewSession(p))
    <3>1. /\ DOMAIN more = DOMAIN kept \cup {nextRoomGid + 1} /\ IsDict(more)
          /\ \A g \in DOMAIN more : more[g] = IF g = nextRoomGid + 1 THEN R!NewSession(p) ELSE kept[g]
      BY DEF R!Put, IsDict
    <3>2. sessions' = more
      BY <2>5
    <3> HIDE DEF more
    <3>3. DOMAIN more \subseteq Nat /\ \A g \in DOMAIN more : more[g] \in R!Session
      BY <2>1, <2>3, <3>1, RoomTyped
    <3>4. nextRoomGid' \in Nat
      BY <2>3, <2>5
    <3>5. QED
      BY <1>1, <2>3, <3>1, <3>2, <3>3, <3>4
  <2>6. QED
    BY <2>2, <2>4, <2>5
<1>3. ASSUME NEW p \in Pid, NEW g \in DOMAIN sessions, R!JoinMatchmakeSession(p, g)
      PROVE  R!TypeOK'
  <2>1. sessions' = [sessions EXCEPT ![g] = R!AddMember(sessions[g], p)]
    BY <1>3 DEF R!JoinMatchmakeSession
  <2>2. R!AddMember(sessions[g], p) \in R!Session
    BY RoomTyped DEF R!TypeOK
  <2>3. QED
    BY <1>3, <2>1, <2>2 DEF R!TypeOK, R!JoinMatchmakeSession
<1>4. ASSUME NEW p \in Pid, NEW g \in DOMAIN sessions, R!EndParticipation(p, g)
      PROVE  R!TypeOK'
  <2>1. CASE sessions' = R!Without(sessions, {g})
    BY <1>0, <1>1, <1>4, <2>1 DEF R!TypeOK, R!EndParticipation
  <2>2. CASE sessions' = [sessions EXCEPT ![g] = R!DropMember(sessions[g], p)]
    <3>1. R!DropMember(sessions[g], p) \in R!Session
      BY RoomTyped DEF R!TypeOK
    <3>2. relays' \subseteq relays /\ UNCHANGED <<nextRoomGid, allocating>>
      BY <1>0, <1>4 DEF R!EndParticipation
    <3>3. QED
      BY <2>2, <3>1, <3>2 DEF R!TypeOK
  <2>3. QED
    BY <1>4, <2>1, <2>2 DEF R!EndParticipation
<1>5. ASSUME NEW p \in Pid, NEW G \in SUBSET DOMAIN sessions, R!UnregisterGatherings(p, G)
      PROVE  R!TypeOK'
  BY <1>0, <1>1, <1>5 DEF R!TypeOK, R!UnregisterGatherings
<1>6. ASSUME NEW p \in Pid, R!Leave(p)
      PROVE  R!TypeOK'
  <2> DEFINE gone == R!Joined(p) \cap R!Hosted(p)
             left == R!Joined(p) \ gone
  <2>1. /\ sessions' = [g \in DOMAIN sessions \ gone |->
                          IF g \in left THEN R!DropMember(sessions[g], p) ELSE sessions[g]]
        /\ UNCHANGED <<nextRoomGid, allocating>>
    BY <1>6 DEF R!Leave
  <2>2. relays' \subseteq relays
    <3>1. \E kept \in SUBSET relays : relays' \in {kept, {r \in kept : p \notin r.pair}}
      <4>1. {r \in R!RelaysOutside(gone) : left = {} \/ p \notin r.pair} \in SUBSET relays
        BY <1>0
      <4>2. QED
        BY <1>6, <4>1 DEF R!Leave
    <3>2. QED
      BY <3>1
  <2> HIDE DEF gone, left
  <2>3. /\ IsDict(sessions') /\ DOMAIN sessions' \subseteq DOMAIN sessions
        /\ \A g \in DOMAIN sessions' : sessions'[g] \in {R!DropMember(sessions[g], p), sessions[g]}
    BY <2>1 DEF IsDict
  <2>4. \A g \in DOMAIN sessions' : sessions'[g] \in R!Session
    BY <2>3, RoomTyped DEF R!TypeOK
  <2>5. QED
    BY <2>1, <2>2, <2>3, <2>4 DEF R!TypeOK, IsDict
<1>7. ASSUME NEW p \in Pid, R!CloseForPid(p)
      PROVE  R!TypeOK'
  BY <1>0, <1>7 DEF R!TypeOK, R!CloseForPid
<1>8. ASSUME NEW p \in Pid, NEW g \in DOMAIN sessions, R!GetSessionUrls(p, g)
      PROVE  R!TypeOK'
  BY <1>8, KeyTyped DEF R!TypeOK, R!GetSessionUrls
<1>9. ASSUME NEW key \in allocating, R!RelayBound(key)
      PROVE  R!TypeOK'
  BY <1>9 DEF R!TypeOK, R!RelayBound
<1>10. ASSUME NEW K \in SUBSET relays, R!RelaysIdle(K)
       PROVE  R!TypeOK'
  BY <1>10 DEF R!TypeOK, R!RelaysIdle
<1>11. CASE UNCHANGED R!vars
  BY <1>11 DEF R!vars, R!TypeOK
<1>12. QED
  BY <1>2, <1>3, <1>4, <1>5, <1>6, <1>7, <1>8, <1>9, <1>10, <1>11 DEF R!Next

\* A hall whose members are players is a hall.
LEMMA HallTyped ==
  ASSUME IsFiniteSet(Pid), NEW owner \in Pid \cup {ServerPid}, NEW members \in SUBSET Pid, NEW g
  PROVE  H!Populated(owner, members, g) \in H!Community
<1>1. H!Cardinality(members) \in Nat /\ H!Offset(g) \in Nat
  BY RosterCounted DEF H!Offset
<1>2. QED
  BY <1>1 DEF H!Populated, H!Community

\* Every operation on the halls keeps their types.
LEMMA HallsTyped ==
  ASSUME IsFiniteSet(Pid), H!HallTypeOK, [H!HallNext]_(H!hallVars)
  PROVE  H!HallTypeOK'
<1>0. /\ \A g \in DOMAIN communities : /\ communities[g] \in H!Community
                                       /\ communities[g].owner \in Pid \cup {ServerPid}
                                       /\ communities[g].participants \in SUBSET Pid
      /\ nextHallGid \in Nat /\ DOMAIN communities \subseteq Nat /\ runtimeGids \subseteq Nat
  BY DEF H!HallTypeOK, H!Community
<1>1. ASSUME NEW p \in Pid, H!CreateCommunity(p)
      PROVE  H!HallTypeOK'
  <2> DEFINE gid == nextHallGid + 1
             hall == H!Populated(p, {p}, gid)
  <2>1. /\ communities' = H!Put(communities, gid, hall)
        /\ runtimeGids' = runtimeGids \cup {gid} /\ nextHallGid' = gid
    BY <1>1 DEF H!CreateCommunity
  <2>2. gid \in Nat /\ hall \in H!Community
    BY <1>0, HallTyped
  <2> HIDE DEF gid, hall
  <2>3. /\ IsDict(communities') /\ DOMAIN communities' = DOMAIN communities \cup {gid}
        /\ \A g \in DOMAIN communities' : communities'[g] = IF g = gid THEN hall ELSE communities[g]
    BY <2>1 DEF H!Put, IsDict
  <2>4. \A g \in DOMAIN communities' : communities'[g] \in H!Community
    BY <1>0, <2>2, <2>3
  <2>5. QED
    BY <1>0, <2>1, <2>2, <2>3, <2>4 DEF H!HallTypeOK, IsDict
<1>2. ASSUME NEW p \in Pid, H!Logout(p)
      PROVE  H!HallTypeOK'
  <2>1. ASSUME NEW D \in SUBSET DOMAIN communities
        PROVE  H!WithoutMember(D, p) \in [D -> H!Community]
    <3>1. \A g \in D : /\ communities[g] \in H!Community
                       /\ H!Populated(communities[g].owner, communities[g].participants \ {p}, g)
                            \in H!Community
      BY <1>0, HallTyped
    <3>2. QED
      BY <3>1 DEF H!WithoutMember
  <2>2. communities' = H!WithoutMember(DOMAIN communities \ H!Owned(p), p)
        /\ runtimeGids' \subseteq runtimeGids /\ nextHallGid' = nextHallGid
    BY <1>2 DEF H!Logout
  <2>3. communities' \in [DOMAIN communities \ H!Owned(p) -> H!Community]
    BY <2>1, <2>2
  <2>4. QED
    BY <1>0, <2>2, <2>3 DEF H!HallTypeOK
<1>3. ASSUME NEW p \in Pid, NEW g \in DOMAIN communities,
             H!JoinCommunity(p, g) \/ H!LeaveCommunity(p, g)
      PROVE  H!HallTypeOK'
  <2>1. \E members \in SUBSET Pid :
          communities' = [communities EXCEPT ![g] = H!Populated(communities[g].owner, members, g)]
    <3>1. /\ communities[g].participants \cup {p} \in SUBSET Pid
          /\ communities[g].participants \ {p} \in SUBSET Pid
      BY <1>0
    <3>2. QED
      BY <1>3, <3>1 DEF H!JoinCommunity, H!LeaveCommunity
  <2>2. PICK hall \in H!Community : communities' = [communities EXCEPT ![g] = hall]
    BY <1>0, <2>1, HallTyped
  <2>3. UNCHANGED <<runtimeGids, nextHallGid>>
    BY <1>3 DEF H!JoinCommunity, H!LeaveCommunity
  <2>4. QED
    BY <2>2, <2>3 DEF H!HallTypeOK
<1>4. CASE UNCHANGED H!hallVars
  BY <1>4 DEF H!hallVars, H!HallTypeOK
<1>5. QED
  BY <1>1, <1>2, <1>3, <1>4 DEF H!HallNext

\* CLIENTS holds under each player a registered connection of that player.
OwnConnections ==
  /\ open \subseteq Conn /\ registered \subseteq open /\ silent \subseteq open
  /\ closing \subseteq Conn \ open
  /\ clients \in [DOMAIN clients -> registered]
  /\ \A p \in DOMAIN clients : PidOf[clients[p]] = p

\* A connection is entered by its own register, and taken out by its own logout.
LEMMA OwnConnectionsStep ==
  ASSUME OwnConnections, [Next]_vars
  PROVE  OwnConnections'
<1>1. ASSUME UNCHANGED connVars
      PROVE  OwnConnections'
  BY <1>1 DEF connVars, OwnConnections
<1>2. ASSUME NEW c \in Conn, Connect(c) \/ FallSilent(c)
      PROVE  OwnConnections'
  BY <1>2 DEF Connect, FallSilent, P!Open, OwnConnections
<1>3. ASSUME NEW c \in Conn, Register(c)
      PROVE  OwnConnections'
  <2>1. /\ c \in open /\ UNCHANGED <<open, silent, closing>>
        /\ registered' = registered \cup {c} /\ clients' = P!Put(clients, PidOf[c], c)
    BY <1>3 DEF Register, P!Register
  <2>2. /\ IsDict(clients') /\ DOMAIN clients' = DOMAIN clients \cup {PidOf[c]}
        /\ \A q \in DOMAIN clients' : clients'[q] = IF q = PidOf[c] THEN c ELSE clients[q]
    BY <2>1 DEF P!Put, IsDict
  <2>3. \A q \in DOMAIN clients' : clients'[q] \in registered' /\ PidOf[clients'[q]] = q
    BY <2>1, <2>2 DEF OwnConnections
  <2>4. QED
    BY <2>1, <2>2, <2>3 DEF OwnConnections, IsDict
<1>4. ASSUME NEW c \in Conn, Logout(c)
      PROVE  OwnConnections'
  <2>1. /\ open' = open \ {c} /\ registered' = registered \ {c} /\ silent' = silent \ {c}
        /\ closing' \in {closing, closing \cup {c}}
        /\ clients' = IF P!Current(c) THEN P!Without(clients, {PidOf[c]}) ELSE clients
    BY <1>4 DEF Logout, P!Logout
  <2>2. /\ IsDict(clients') /\ DOMAIN clients' \subseteq DOMAIN clients
        /\ \A q \in DOMAIN clients' : clients'[q] = clients[q]
        /\ P!Current(c) => PidOf[c] \notin DOMAIN clients'
    BY <2>1 DEF P!Without, P!Restrict, IsDict, OwnConnections
  <2>3. \A q \in DOMAIN clients' : clients'[q] # c
    BY <2>2 DEF OwnConnections, P!Current
  <2>4. QED
    BY <2>1, <2>2, <2>3 DEF OwnConnections, IsDict
<1>5. ASSUME NEW c \in Conn, LogoutFinish(c)
      PROVE  OwnConnections'
  BY <1>5 DEF LogoutFinish, OwnConnections
<1>6. QED
  BY <1>1, <1>2, <1>3, <1>4, <1>5 DEF Next, Request, RelayTask, vars

LobbyTypeInv == TypeOK /\ OwnConnections

\* Every step keeps the types.
LEMMA LobbyTypeStep ==
  ASSUME IsFiniteSet(Pid), LobbyTypeInv, [Next]_vars
  PROVE  LobbyTypeInv'
<1>1. R!TypeOK' /\ H!HallTypeOK'
  BY RoomStep, HallStep, RoomsTyped, HallsTyped DEF LobbyTypeInv, TypeOK
<1>2. OwnConnections'
  BY OwnConnectionsStep DEF LobbyTypeInv
<1>3. QED
  BY <1>1, <1>2 DEF LobbyTypeInv, TypeOK, OwnConnections

\* The server starts with no room, no connection and its seeded halls.
LEMMA LobbyTypeInit ==
  ASSUME H!Seeded \subseteq Nat, Init
  PROVE  LobbyTypeInv
<1>1. R!TypeOK
  BY DEF Init, R!Init, R!NoEntries, R!FirstGid, R!TypeOK
<1>2. H!HallTypeOK
  <2>1. \A g \in H!Seeded : H!Populated(ServerPid, {}, g) \in H!Community
    <3>1. H!Cardinality({}) \in Nat
      <4>1. H!Cardinality({}) = Cardinality({})
        BY DEF H!Cardinality, Cardinality
      <4>2. QED
        BY <4>1, FS_EmptySet
    <3>2. \A g : H!Offset(g) \in Nat
      BY DEF H!Offset
    <3>3. QED
      BY <3>1, <3>2 DEF H!Populated, H!Community
  <2>2. QED
    BY <2>1 DEF Init, H!HallInit, H!HallTypeOK, H!FirstHallGid
<1>3. OwnConnections
  BY DEF Init, P!Init, P!NoEntries, OwnConnections
<1>4. QED
  BY <1>1, <1>2, <1>3 DEF LobbyTypeInv, TypeOK, OwnConnections

\* What the server's tables hold: rooms and halls of players, relays between
\* them, and in CLIENTS, under each player, a registered connection of that
\* player (register, logout).
THEOREM LobbyTypes ==
  ASSUME IsFiniteSet(Pid), H!Seeded \subseteq Nat
  PROVE  Spec => [](TypeOK /\ OwnConnections)
<1>1. LobbyTypeInv => TypeOK /\ OwnConnections
  BY DEF LobbyTypeInv
<1>2. QED
  BY <1>1, LobbyTypeInit, LobbyTypeStep, PTL DEF Spec

-----------------------------------------------------------------------------
(* Where ghosts come from, when two connections of a player may be alive.  *)

\* What the steps rely on, whoever is connected.
RecordsKept == RoomsAreRecords /\ OwnedAtRunTime

\* A step that gives nobody anything, and what it owes those it takes offline.
TakesOnly ==
  /\ RoomsGainOnly({}) /\ HallsGainOnly({})
  /\ \A p \in Pid :
       /\ p \in DOMAIN clients /\ p \notin DOMAIN clients'
            => R!Joined(p)' = {} /\ (LoggingOut(p)' \/ ~HoldsHalls(p)')
       /\ LoggingOut(p) => LoggingOut(p)' \/ ~HoldsHalls(p)'

\* What leaves the tables alone gives nobody anything.
LEMMA NothingGained ==
  ASSUME RecordsKept
  PROVE  /\ UNCHANGED sessions => RoomsGainOnly({})
         /\ UNCHANGED hallVars => HallsGainOnly({})
BY DEF RecordsKept, RoomsAreRecords, RoomsGainOnly, HallsGainOnly, hallVars

\* The halls are let go of when a logout ends.
LEMMA LogoutHolds ==
  ASSUME RecordsKept, NEW p, p # ServerPid, H!Logout(p)
  PROVE  HallsGainOnly({}) /\ ~HoldsHalls(p)'
BY LogoutEmptiesHalls DEF RecordsKept, HoldsHalls

\* The end of a connection.
LEMMA LogoutTakes ==
  ASSUME ServerPid \notin Pid, RecordsKept, NEW c \in Conn, Logout(c)
  PROVE  TakesOnly
<1> DEFINE p == PidOf[c]
<1>1. DOMAIN clients' = IF P!Current(c) THEN DOMAIN clients \ {p} ELSE DOMAIN clients
  BY OnlineAfterLogout
<1>2. p \in Pid /\ p # ServerPid
  BY LobbyAssumption
<1>3. \A q : LoggingOut(q) => LoggingOut(q)'
  BY DEF Logout, LoggingOut
<1>4. CASE ~P!Current(c)
  <2>1. UNCHANGED <<sessions, hallVars>>
    BY <1>4 DEF Logout, roomVars
  <2>2. QED
    BY <1>1, <1>3, <1>4, <2>1, NothingGained DEF TakesOnly
<1>5. CASE P!Current(c)
  <2>1. R!Leave(p)
    BY <1>5 DEF Logout
  <2>2. RoomsGainOnly({}) /\ R!Joined(p)' = {}
    BY <2>1, LeaveEmpties DEF RecordsKept, R!Joined
  <2>3. \/ closing' = closing \cup {c} /\ UNCHANGED hallVars
        \/ H!Logout(p)
    BY <1>5 DEF Logout, LeaveHalls
  <2>4. HallsGainOnly({}) /\ (LoggingOut(p)' \/ ~HoldsHalls(p)')
    <3>1. CASE closing' = closing \cup {c} /\ UNCHANGED hallVars
      BY <3>1, NothingGained DEF LoggingOut
    <3>2. CASE H!Logout(p)
      BY <1>2, <3>2, LogoutHolds
    <3>3. QED
      BY <2>3, <3>1, <3>2
  <2> HIDE DEF p
  <2>5. QED
    BY <1>1, <1>3, <1>5, <2>2, <2>4 DEF TakesOnly
<1>6. QED
  BY <1>4, <1>5

\* The end of a logout that was suspended.
LEMMA LogoutFinishTakes ==
  ASSUME ServerPid \notin Pid, RecordsKept, NEW c \in Conn, LogoutFinish(c)
  PROVE  TakesOnly
<1> DEFINE p == PidOf[c]
<1>1. p \in Pid /\ p # ServerPid
  BY LobbyAssumption
<1>2. closing' = closing \ {c} /\ H!Logout(p) /\ UNCHANGED <<clients, sessions>>
  BY DEF LogoutFinish, R!CloseForPid
<1>3. \A q : q # p /\ LoggingOut(q) => LoggingOut(q)'
  BY <1>2 DEF LoggingOut
<1> HIDE DEF p
<1>4. HallsGainOnly({}) /\ ~HoldsHalls(p)' /\ RoomsGainOnly({})
  BY <1>1, <1>2, LogoutHolds, NothingGained
<1>5. QED
  BY <1>2, <1>3, <1>4 DEF TakesOnly

\* A request gives its sender something, or nobody.
LEMMA RequestGives ==
  ASSUME RecordsKept, NEW c \in Conn, Request(c)
  PROVE  /\ RoomsGainOnly({PidOf[c]}) /\ HallsGainOnly({PidOf[c]})
         /\ UNCHANGED <<clients, closing>>
<1>1. RoomsGainOnly({}) => RoomsGainOnly({PidOf[c]})
  BY DEF RoomsGainOnly
<1>2. HallsGainOnly({}) => HallsGainOnly({PidOf[c]})
  BY DEF HallsGainOnly
<1>3. UNCHANGED roomVars => UNCHANGED sessions
  BY DEF roomVars
<1>4. QED
  BY <1>1, <1>2, <1>3, NothingGained, RoomRequestGains, HallRequestGains
     DEF Request, connVars, RecordsKept

\* Only a request gives anybody anything.
LEMMA StepGives ==
  ASSUME ServerPid \notin Pid, RecordsKept, [Next]_vars
  PROVE  \/ TakesOnly
         \/ \E c \in Conn : Request(c)
<1>1. ASSUME UNCHANGED <<sessions, hallVars, closing>>, DOMAIN clients \subseteq DOMAIN clients'
      PROVE  TakesOnly
  <2>1. \A p : LoggingOut(p) => LoggingOut(p)'
    BY <1>1 DEF LoggingOut
  <2>2. QED
    BY <1>1, <2>1, NothingGained DEF TakesOnly
<1>2. ASSUME NEW c \in Conn, Connect(c) \/ Register(c) \/ FallSilent(c)
      PROVE  TakesOnly
  BY <1>1, <1>2 DEF Connect, P!Open, Register, P!Register, P!Put, FallSilent, roomVars
<1>3. ASSUME RelayTask \/ UNCHANGED vars
      PROVE  TakesOnly
  BY <1>1, <1>3 DEF RelayTask, R!RelayBound, R!RelaysIdle, vars, connVars, roomVars
<1>4. QED
  BY <1>2, <1>3, LogoutTakes, LogoutFinishTakes DEF Next

\* The records are kept by every step.
LEMMA RecordsStep ==
  ASSUME ServerPid \notin Pid, RecordsKept, [Next]_vars
  PROVE  RecordsKept'
<1>1. ASSUME NEW Q, RoomsGainOnly(Q), HallsGainOnly(Q)
      PROVE  RecordsKept'
  BY <1>1 DEF RecordsKept, RoomsAreRecords, OwnedAtRunTime, RoomsGainOnly, HallsGainOnly
<1>2. QED
  BY <1>1, StepGives, RequestGives DEF TakesOnly

\* A player comes to haunt in their own request, and then offline.
LEMMA HauntingStep ==
  ASSUME ServerPid \notin Pid, RecordsKept, [Next]_vars, NEW p \in Pid, Haunts(p)', ~Haunts(p)
  PROVE  \E c \in registered \ silent : PidOf[c] = p /\ ~P!Current(c) /\ Request(c)
<1>1. \A Q : RoomsGainOnly(Q) /\ p \notin Q /\ R!Joined(p) = {} => R!Joined(p)' = {}
  BY DEF RoomsGainOnly, R!Joined
<1>2. \A Q : HallsGainOnly(Q) /\ p \notin Q /\ ~HoldsHalls(p) => ~HoldsHalls(p)'
  BY DEF HallsGainOnly, HoldsHalls
<1>3. ~TakesOnly
  <2> SUFFICES ASSUME TakesOnly
               PROVE  FALSE
    OBVIOUS
  <2>1. p \notin DOMAIN clients
    BY DEF TakesOnly, Haunts
  <2>2. R!Joined(p)' = {} /\ HoldsHalls(p)' /\ ~LoggingOut(p)'
    BY <1>1, <2>1 DEF TakesOnly, Haunts
  <2>3. QED
    BY <1>2, <2>1, <2>2 DEF TakesOnly, Haunts
<1>4. PICK c \in Conn : Request(c)
  BY <1>3, StepGives
<1>5. p \notin DOMAIN clients /\ (LoggingOut(p)' <=> LoggingOut(p))
  BY <1>4, RequestGives DEF Haunts, LoggingOut
<1>6. p = PidOf[c]
  BY <1>1, <1>2, <1>4, <1>5, RequestGives DEF Haunts
<1>7. QED
  BY <1>4, <1>5, <1>6 DEF Request, P!Current

\* Even when two connections of a player may be alive, ghosts come only from
\* the requests of a connection that was replaced (register, logout).
THEOREM GhostsAreOfTheReplaced ==
  ASSUME ServerPid \notin Pid
  PROVE  Spec => GhostsComeFromReplaced
<1> DEFINE A == \A p \in Pid : Haunts(p)' /\ ~Haunts(p) =>
                  \E c \in registered \ silent : PidOf[c] = p /\ ~P!Current(c) /\ Request(c)
<1>1. Init => RecordsKept
  BY LobbyInvInit DEF LobbyInv, RecordsKept
<1>2. RecordsKept /\ [Next]_vars => RecordsKept'
  BY RecordsStep
<1>3. RecordsKept /\ [Next]_vars => [A]_vars
  BY HauntingStep
<1> HIDE DEF A
<1>4. Spec => [][A]_vars
  BY <1>1, <1>2, <1>3, PTL DEF Spec
<1>5. QED
  BY <1>4, PTL DEF GhostsComeFromReplaced, A

-----------------------------------------------------------------------------
(* What the registries promise, of the server.                             *)

RP == INSTANCE RoomsProofs WITH nextGid <- nextRoomGid, MaxGid <- MaxRoomGid
HP == INSTANCE HallsProofs

\* The caps are numbers, and those of a room and of the gids such that rooms
\* can be had (limits.py).
RoomCaps == MaxRooms \in Nat /\ MaxRoomParticipants \in Nat \ {0} /\ MaxRoomGid \in Nat

HallCaps == MaxRuntime \in Nat /\ MaxPerOwner \in Nat /\ MaxHallGid \in Nat

\* The rooms that the theorems of RoomsProofs are about are these.
LEMMA SameRooms ==
  /\ R!Init => RP!Init
  /\ [R!Next]_(R!vars) => [RP!Next]_(RP!vars)
<1>1. R!Init => RP!Init
  BY DEF R!Init, RP!Init, R!FirstGid, RP!FirstGid, R!NoEntries, RP!NoEntries
<1>2. [R!Next]_(R!vars) => [RP!Next]_(RP!vars)
  BY DEF R!Next, RP!Next, R!vars, RP!vars, R!CreateMatchmakeSession, RP!CreateMatchmakeSession,
         R!Leave, RP!Leave, R!CloseForPid, RP!CloseForPid, R!JoinMatchmakeSession,
         RP!JoinMatchmakeSession, R!EndParticipation, RP!EndParticipation, R!GetSessionUrls,
         RP!GetSessionUrls, R!UnregisterGatherings, RP!UnregisterGatherings, R!RelayBound,
         RP!RelayBound, R!RelaysIdle, RP!RelaysIdle, R!Hosted, RP!Hosted, R!Joined, RP!Joined,
         R!NewSession, RP!NewSession, R!DropMember, RP!DropMember, R!AddMember, RP!AddMember,
         R!RelaysOutside, RP!RelaysOutside, R!RelaysWithout, RP!RelaysWithout, R!CreateIn,
         RP!CreateIn, R!Put, RP!Put, R!Without, RP!Without, R!Restrict, RP!Restrict,
         R!Cardinality, RP!Cardinality
<1>3. QED
  BY <1>1, <1>2

\* So are the halls.
LEMMA SameHalls ==
  /\ H!HallInit => HP!HallInit
  /\ [H!HallNext]_(H!hallVars) => [HP!HallNext]_(HP!hallVars)
<1>1. H!HallInit => HP!HallInit
  BY DEF H!HallInit, HP!HallInit, H!Seeded, HP!Seeded, H!FirstHallGid, HP!FirstHallGid,
         H!Populated, HP!Populated, H!Offset, HP!Offset, H!Cardinality, HP!Cardinality
<1>2. [H!HallNext]_(H!hallVars) => [HP!HallNext]_(HP!hallVars)
  BY DEF H!HallNext, HP!HallNext, H!hallVars, HP!hallVars, H!CreateCommunity, HP!CreateCommunity,
         H!Logout, HP!Logout, H!JoinCommunity, HP!JoinCommunity, H!LeaveCommunity,
         HP!LeaveCommunity, H!JoinedHalls, HP!JoinedHalls, H!WithoutMember, HP!WithoutMember,
         H!Owned, HP!Owned, H!Runtime, HP!Runtime, H!Populated, HP!Populated, H!Offset, HP!Offset,
         H!Put, HP!Put, H!Cardinality, HP!Cardinality, H!FirstHallGid, HP!FirstHallGid, H!Seeded,
         HP!Seeded
<1>3. QED
  BY <1>1, <1>2

\* Whatever dies, overlaps or is suspended, the rooms of the server keep their
\* rosters, hosts and caps.
THEOREM ServerKeepsRooms ==
  ASSUME IsFiniteSet(Pid), RoomCaps
  PROVE  Spec => [](R!RoomsConsistent /\ R!OneRoomPerHost /\ R!CapsHold)
<1>1. Init => RP!Init
  BY SameRooms DEF Init
<1>2. [Next]_vars => [RP!Next]_(RP!vars)
  BY RoomStep, SameRooms
<1>3. Spec => RP!Spec
  BY <1>1, <1>2, PTL DEF Spec, RP!Spec
<1>4. RP!IsFiniteSet(Pid)
  BY DEF IsFiniteSet, RP!IsFiniteSet
<1>5. RP!Spec => [](RP!RoomsConsistent /\ RP!OneRoomPerHost /\ RP!CapsHold)
  BY <1>4, RP!RosterAndHeadcountAgree, RP!AtMostOneRoomPerHost, RP!CapsAlwaysHold, PTL DEF RoomCaps
<1>6. RP!RoomsConsistent /\ RP!OneRoomPerHost /\ RP!CapsHold
        => R!RoomsConsistent /\ R!OneRoomPerHost /\ R!CapsHold
  BY DEF RP!RoomsConsistent, RP!OneRoomPerHost, RP!CapsHold, RP!Cardinality,
         R!RoomsConsistent, R!OneRoomPerHost, R!CapsHold, R!Cardinality
<1>7. QED
  BY <1>3, <1>5, <1>6, PTL

\* So do its halls keep the numbers they show, their worlds and their caps.
THEOREM ServerKeepsHalls ==
  ASSUME IsFiniteSet(Pid), ServerPid \notin Pid, HallCaps,
         H!Seeded \subseteq 1 .. H!FirstHallGid, Worlds \cap Lobbies = {}
  PROVE  Spec => [](H!PopulationShown /\ H!SeededSurvive /\ H!HallCapsHold)
<1>1. Init => HP!HallInit
  BY SameHalls DEF Init
<1>2. [Next]_vars => [HP!HallNext]_(HP!hallVars)
  BY HallStep, SameHalls
<1>3. Spec => HP!HallSpec
  BY <1>1, <1>2, PTL DEF Spec, HP!HallSpec
<1>4. HP!IsFiniteSet(Pid)
  BY DEF IsFiniteSet, HP!IsFiniteSet
<1>5. HP!Seeded \subseteq 1 .. HP!FirstHallGid
  BY DEF HP!Seeded, HP!FirstHallGid, H!Seeded, H!FirstHallGid
<1>6. HP!HallSpec => [](HP!PopulationShown /\ HP!SeededSurvive /\ HP!HallCapsHold)
  BY <1>4, <1>5, HP!PopulationAlwaysShown, HP!SeededAlwaysSurvive, HP!HallCapsAlwaysHold, PTL DEF HallCaps
<1>7. HP!PopulationShown /\ HP!SeededSurvive /\ HP!HallCapsHold
        => H!PopulationShown /\ H!SeededSurvive /\ H!HallCapsHold
  BY DEF HP!PopulationShown, HP!SeededSurvive, HP!HallCapsHold, HP!Cardinality, HP!Seeded, HP!Offset,
         H!PopulationShown, H!SeededSurvive, H!HallCapsHold, H!Cardinality, H!Seeded, H!Offset
<1>8. QED
  BY <1>3, <1>6, <1>7, PTL
=============================================================================
