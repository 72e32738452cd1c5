---------------------------- MODULE RoomsProofs -----------------------------
(***************************************************************************)
(* Theorems about Rooms, for every set of players and every cap.           *)
(*                                                                         *)
(* The inductive invariant adds to the promised ones that every live gid   *)
(* was issued (g <= nextGid).  That is what makes nextGid + 1 a key the    *)
(* dict does not hold, so that create adds a room and never overwrites     *)
(* one, and what makes the dict finite, so that its rooms can be counted.  *)
(***************************************************************************)
EXTENDS Rooms, FiniteSetTheorems, TLAPS

GidsIssued == \A g \in DOMAIN sessions : g <= nextGid

RoomInv ==
  /\ TypeOK
  /\ GidsIssued
  /\ RoomsConsistent
  /\ OneRoomPerHost

\* Rosters are finite because the player ids are.
LEMMA RosterFinite ==
  ASSUME NEW S \in SUBSET Pid
  PROVE  IsFiniteSet(S) /\ Cardinality(S) \in Nat
BY PidAssumption, FS_Subset, FS_CardinalityType

\* A dict of rooms never loses its typing when keys are removed.
LEMMA WithoutType ==
  ASSUME TypeOK, NEW S
  PROVE  /\ DOMAIN Without(sessions, S) = DOMAIN sessions \ S
         /\ \A g \in DOMAIN sessions \ S : Without(sessions, S)[g] = sessions[g]
         /\ Without(sessions, S) \in [DOMAIN sessions \ S -> Session]
BY DEF Without, Restrict, TypeOK

\* Dropping or adding a member keeps the host and recounts.
LEMMA MemberChange ==
  ASSUME NEW s \in Session, NEW p \in Pid
  PROVE  /\ DropMember(s, p) \in Session
         /\ DropMember(s, p).host = s.host
         /\ DropMember(s, p).participants = s.participants \ {p}
         /\ DropMember(s, p).num = Cardinality(DropMember(s, p).participants)
         /\ AddMember(s, p) \in Session
         /\ AddMember(s, p).host = s.host
         /\ AddMember(s, p).participants = s.participants \cup {p}
         /\ AddMember(s, p).num = Cardinality(AddMember(s, p).participants)
<1>1. /\ s.participants \ {p} \in SUBSET Pid
      /\ s.participants \cup {p} \in SUBSET Pid
  BY DEF Session
<1>2. /\ Cardinality(s.participants \ {p}) \in Nat
      /\ Cardinality(s.participants \cup {p}) \in Nat
  BY <1>1, RosterFinite
<1>3. QED
  BY <1>1, <1>2 DEF Session, DropMember, AddMember

\* Every operation but create keeps or removes each room: it may change a
\* roster, never a host, and issues no gid.
LEMMA RoomsKept ==
  ASSUME RoomInv,
         sessions' \in [DOMAIN sessions' -> Session],
         DOMAIN sessions' \subseteq DOMAIN sessions,
         \A g \in DOMAIN sessions' :
            /\ sessions'[g].host = sessions[g].host
            /\ sessions'[g].host \in sessions'[g].participants
            /\ sessions'[g].num = Cardinality(sessions'[g].participants),
         nextGid' = nextGid,
         relays' \subseteq RelayKey,
         allocating' \subseteq RelayKey
  PROVE  RoomInv'
BY DEF RoomInv, TypeOK, GidsIssued, RoomsConsistent, OneRoomPerHost

\* Rooms that survive a removal are untouched.
LEMMA RoomsRemoved ==
  ASSUME RoomInv, NEW S,
         sessions' = Without(sessions, S),
         nextGid' = nextGid,
         relays' \subseteq RelayKey,
         allocating' \subseteq RelayKey
  PROVE  RoomInv'
<1>1. TypeOK
  BY DEF RoomInv
<1>2. /\ DOMAIN sessions' = DOMAIN sessions \ S
      /\ \A g \in DOMAIN sessions' : sessions'[g] = sessions[g]
      /\ sessions' \in [DOMAIN sessions' -> Session]
  BY <1>1, WithoutType
<1>3. \A g \in DOMAIN sessions' :
         /\ sessions'[g].host = sessions[g].host
         /\ sessions'[g].host \in sessions'[g].participants
         /\ sessions'[g].num = Cardinality(sessions'[g].participants)
  BY <1>2 DEF RoomInv, RoomsConsistent
<1>4. QED
  BY <1>2, <1>3, RoomsKept

\* One room gets a new roster that still holds its host.
LEMMA RosterChanged ==
  ASSUME RoomInv, NEW g \in DOMAIN sessions, NEW s \in Session,
         s.host = sessions[g].host,
         s.host \in s.participants,
         s.num = Cardinality(s.participants),
         sessions' = [sessions EXCEPT ![g] = s],
         nextGid' = nextGid,
         relays' \subseteq RelayKey,
         allocating' \subseteq RelayKey
  PROVE  RoomInv'
<1>1. /\ DOMAIN sessions' = DOMAIN sessions
      /\ sessions' \in [DOMAIN sessions' -> Session]
      /\ \A h \in DOMAIN sessions :
            sessions'[h] = IF h = g THEN s ELSE sessions[h]
  BY DEF RoomInv, TypeOK
<1>2. \A h \in DOMAIN sessions' :
         /\ sessions'[h].host = sessions[h].host
         /\ sessions'[h].host \in sessions'[h].participants
         /\ sessions'[h].num = Cardinality(sessions'[h].participants)
  BY <1>1 DEF RoomInv, RoomsConsistent
<1>3. QED
  BY <1>1, <1>2, RoomsKept

-----------------------------------------------------------------------------
(* create: reap_host, then one more room or LimitExceeded.                 *)

\* The rooms left by reap_host, and the next gid, which none of them has.
LEMMA Reaped ==
  ASSUME RoomInv, NEW p \in Pid, NEW kept, kept = Without(sessions, Hosted(p))
  PROVE  /\ DOMAIN kept = DOMAIN sessions \ Hosted(p)
         /\ \A g \in DOMAIN kept : kept[g] = sessions[g] /\ kept[g].host # p
         /\ kept \in [DOMAIN kept -> Session]
         /\ \A g \in DOMAIN kept : g \in Nat /\ g <= nextGid
         /\ nextGid + 1 \notin DOMAIN sessions
<1>1. TypeOK
  BY DEF RoomInv
<1>2. /\ DOMAIN kept = DOMAIN sessions \ Hosted(p)
      /\ \A g \in DOMAIN sessions \ Hosted(p) : kept[g] = sessions[g]
      /\ kept \in [DOMAIN sessions \ Hosted(p) -> Session]
  BY <1>1, WithoutType
<1>3. \A g \in DOMAIN sessions \ Hosted(p) : sessions[g].host # p
  BY DEF Hosted
<1>4. \A g \in DOMAIN sessions : g \in Nat /\ g <= nextGid
  BY DEF RoomInv, TypeOK, GidsIssued
<1>5. nextGid + 1 \notin DOMAIN sessions
  BY <1>1, <1>4 DEF TypeOK
<1>6. QED
  BY <1>2, <1>3, <1>4, <1>5

\* A room starts with its host as its only, counted, member.
LEMMA NewSessionSound ==
  ASSUME NEW p \in Pid
  PROVE  /\ NewSession(p) \in Session
         /\ NewSession(p).host = p
         /\ NewSession(p).participants = {p}
         /\ NewSession(p).num = Cardinality({p})
         /\ Cardinality({p}) = 1
BY FS_Singleton DEF NewSession, Session

\* create_matchmake_session keeps the invariant, whichever way it ends.
LEMMA CreateStep ==
  ASSUME RoomInv, NEW p \in Pid, CreateMatchmakeSession(p)
  PROVE  RoomInv'
<1> DEFINE kept == Without(sessions, Hosted(p))
           g == nextGid + 1
<1>1. /\ DOMAIN kept = DOMAIN sessions \ Hosted(p)
      /\ \A h \in DOMAIN kept : kept[h] = sessions[h] /\ kept[h].host # p
      /\ kept \in [DOMAIN kept -> Session]
      /\ \A h \in DOMAIN kept : h \in Nat /\ h <= nextGid
      /\ g \notin DOMAIN sessions
  BY Reaped
<1>2. /\ relays' \subseteq RelayKey
      /\ allocating' \subseteq RelayKey
      /\ nextGid \in Nat
  BY DEF RoomInv, TypeOK, CreateMatchmakeSession, RelaysOutside
<1>3. CASE sessions' = kept /\ nextGid' = nextGid
  BY <1>2, <1>3, RoomsRemoved
<1>4. CASE sessions' = Put(kept, g, NewSession(p)) /\ nextGid' = g
  <2>1. /\ DOMAIN sessions' = DOMAIN kept \cup {g}
        /\ sessions'[g] = NewSession(p)
        /\ \A h \in DOMAIN kept : sessions'[h] = sessions[h]
        /\ sessions' \in [DOMAIN sessions' -> Session]
    <3>1. \A h \in DOMAIN kept : h # g
      BY <1>1
    <3> HIDE DEF kept, g
    <3>2. DOMAIN sessions' = DOMAIN kept \cup {g}
      BY <1>4 DEF Put
    <3>3. \A h \in DOMAIN sessions' :
             sessions'[h] = IF h = g THEN NewSession(p) ELSE kept[h]
      BY <1>4 DEF Put
    <3>4. ASSUME NEW h \in DOMAIN sessions'
          PROVE  sessions'[h] \in Session
      <4>1. CASE h = g
        <5>1. sessions'[h] = NewSession(p)
          BY <3>3, <4>1
        <5>2. QED
          BY <5>1, NewSessionSound
      <4>2. CASE h # g
        <5>1. h \in DOMAIN kept /\ sessions'[h] = kept[h]
          BY <3>2, <3>3, <4>2
        <5>2. QED
          BY <1>1, <5>1
      <4>3. QED
        BY <4>1, <4>2
    <3>5. sessions' \in [DOMAIN sessions' -> Session]
      BY <1>4, <3>4 DEF Put
    <3>6. QED
      BY <1>1, <3>1, <3>2, <3>3, <3>5
  <2>2. TypeOK'
    BY <1>1, <1>2, <1>4, <2>1 DEF TypeOK
  <2>3. GidsIssued'
    BY <1>1, <1>2, <1>4, <2>1 DEF GidsIssued
  <2>4. RoomsConsistent'
    <3>1. /\ sessions'[g].host \in sessions'[g].participants
          /\ sessions'[g].num = Cardinality(sessions'[g].participants)
      <4> HIDE DEF g, kept
      <4>1. sessions'[g] = NewSession(p)
        BY <2>1
      <4>2. /\ NewSession(p).host \in NewSession(p).participants
            /\ NewSession(p).num = Cardinality(NewSession(p).participants)
        BY NewSessionSound
      <4>3. QED
        BY <4>1, <4>2
    <3>2. \A h \in DOMAIN kept :
             /\ sessions'[h].host \in sessions'[h].participants
             /\ sessions'[h].num = Cardinality(sessions'[h].participants)
      BY <1>1, <2>1 DEF RoomsConsistent, RoomInv
    <3>3. QED
      BY <2>1, <3>1, <3>2 DEF RoomsConsistent
  <2>5. OneRoomPerHost'
    <3>1. sessions'[g].host = p
      BY <2>1, NewSessionSound
    <3>2. \A h \in DOMAIN kept : sessions'[h].host = sessions[h].host /\ sessions'[h].host # p
      BY <1>1, <2>1
    <3>3. \A h, i \in DOMAIN kept : sessions'[h].host = sessions'[i].host => h = i
      BY <1>1, <3>2 DEF OneRoomPerHost, RoomInv
    <3>4. \A h, i \in DOMAIN kept \cup {g} : sessions'[h].host = sessions'[i].host => h = i
      BY <3>1, <3>2, <3>3
    <3>5. QED
      BY <2>1, <3>4 DEF OneRoomPerHost
  <2>6. QED
    BY <2>2, <2>3, <2>4, <2>5 DEF RoomInv
<1>5. QED
  BY <1>3, <1>4 DEF CreateMatchmakeSession, CreateIn

-----------------------------------------------------------------------------
(* The other handlers.                                                     *)

\* A join changes one roster and recounts it.
LEMMA JoinStep ==
  ASSUME RoomInv, NEW p \in Pid, NEW g \in DOMAIN sessions,
         JoinMatchmakeSession(p, g)
  PROVE  RoomInv'
<1> DEFINE s == AddMember(sessions[g], p)
<1>1. sessions[g] \in Session /\ sessions[g].host \in sessions[g].participants
  BY DEF RoomInv, TypeOK, RoomsConsistent
<1>2. /\ s \in Session
      /\ s.host = sessions[g].host
      /\ s.host \in s.participants
      /\ s.num = Cardinality(s.participants)
  BY <1>1, MemberChange
<1>3. /\ sessions' = [sessions EXCEPT ![g] = s]
      /\ nextGid' = nextGid
      /\ relays' \subseteq RelayKey
      /\ allocating' \subseteq RelayKey
  BY DEF JoinMatchmakeSession, RoomInv, TypeOK
<1> HIDE DEF s
<1>4. QED
  BY <1>2, <1>3, RosterChanged

\* leave_gathering removes a room (its host) or one member (a guest).
LEMMA EndParticipationStep ==
  ASSUME RoomInv, NEW p \in Pid, NEW g \in DOMAIN sessions,
         EndParticipation(p, g)
  PROVE  RoomInv'
<1>1. sessions[g] \in Session
  BY DEF RoomInv, TypeOK
<1>2. /\ nextGid' = nextGid
      /\ relays' \subseteq RelayKey
      /\ allocating' \subseteq RelayKey
  BY DEF EndParticipation, RelaysOutside, RelaysWithout, RoomInv, TypeOK
<1>3. CASE sessions' = Without(sessions, {g})
  BY <1>2, <1>3, RoomsRemoved
<1>4. CASE sessions[g].host # p /\ sessions' = [sessions EXCEPT ![g] = DropMember(@, p)]
  <2> DEFINE s == DropMember(sessions[g], p)
  <2>1. sessions[g].host \in sessions[g].participants
    BY DEF RoomInv, RoomsConsistent
  <2>2. /\ s \in Session
        /\ s.host = sessions[g].host
        /\ s.host \in s.participants
        /\ s.num = Cardinality(s.participants)
    BY <1>1, <1>4, <2>1, MemberChange
  <2>3. sessions' = [sessions EXCEPT ![g] = s]
    BY <1>4
  <2> HIDE DEF s
  <2>4. QED
    BY <1>2, <2>2, <2>3, RosterChanged
<1>5. QED
  BY <1>3, <1>4 DEF EndParticipation

\* destroy only removes rooms.
LEMMA UnregisterStep ==
  ASSUME RoomInv, NEW p \in Pid, NEW G, UnregisterGatherings(p, G)
  PROVE  RoomInv'
<1>1. relays' \subseteq RelayKey /\ allocating' \subseteq RelayKey
  BY DEF UnregisterGatherings, RelaysOutside, RoomInv, TypeOK
<1>2. QED
  BY <1>1, RoomsRemoved DEF UnregisterGatherings

\* leave removes the rooms a player hosts and recounts those they joined.
LEMMA LeaveStep ==
  ASSUME RoomInv, NEW p \in Pid, Leave(p)
  PROVE  RoomInv'
<1> DEFINE gone == Joined(p) \cap Hosted(p)
           left == Joined(p) \ gone
<1>1. /\ nextGid' = nextGid
      /\ relays' \subseteq RelayKey
      /\ allocating' \subseteq RelayKey
  BY DEF Leave, RelaysOutside, RoomInv, TypeOK
<1>2. sessions' = [g \in DOMAIN sessions \ gone |->
                     IF g \in left THEN DropMember(sessions[g], p) ELSE sessions[g]]
  BY DEF Leave
<1>3. \A g \in DOMAIN sessions : sessions[g] \in Session
  BY DEF RoomInv, TypeOK
<1>4. \A g \in left : sessions[g].host # p
  BY DEF Joined, Hosted
<1>5. left \subseteq DOMAIN sessions
  BY DEF Joined
<1> HIDE DEF gone, left
<1>6. \A g \in DOMAIN sessions \ gone :
         /\ sessions'[g] \in Session
         /\ sessions'[g].host = sessions[g].host
         /\ sessions'[g].host \in sessions'[g].participants
         /\ sessions'[g].num = Cardinality(sessions'[g].participants)
  <2> TAKE g \in DOMAIN sessions \ gone
  <2>1. /\ sessions[g].host \in sessions[g].participants
        /\ sessions[g].num = Cardinality(sessions[g].participants)
    BY DEF RoomInv, RoomsConsistent
  <2>2. CASE g \in left
    <3>1. sessions'[g] = DropMember(sessions[g], p)
      BY <1>2, <2>2
    <3>2. QED
      BY <1>3, <1>4, <2>1, <2>2, <3>1, MemberChange
  <2>3. CASE g \notin left
    BY <1>2, <1>3, <2>1, <2>3
  <2>4. QED
    BY <2>2, <2>3
<1>7. DOMAIN sessions' = DOMAIN sessions \ gone
  BY <1>2
<1>8. sessions' \in [DOMAIN sessions' -> Session]
  BY <1>2, <1>6, <1>7
<1>9. QED
  BY <1>1, <1>6, <1>7, <1>8, RoomsKept

\* The relay table is independent of the rooms.
LEMMA RelayStep ==
  ASSUME RoomInv, UNCHANGED <<sessions, nextGid>>,
         relays' \subseteq RelayKey, allocating' \subseteq RelayKey
  PROVE  RoomInv'
BY DEF RoomInv, TypeOK, GidsIssued, RoomsConsistent, OneRoomPerHost

\* Every handler keeps the invariant.
LEMMA RoomInvStep == RoomInv /\ [Next]_vars => RoomInv'
<1> SUFFICES ASSUME RoomInv, [Next]_vars PROVE RoomInv'
  OBVIOUS
<1>0. relays \subseteq RelayKey /\ allocating \subseteq RelayKey
  BY DEF RoomInv, TypeOK
<1>1. ASSUME NEW p \in Pid, NEW g \in DOMAIN sessions, GetSessionUrls(p, g)
      PROVE  RoomInv'
  <2>1. sessions[g].host \in Pid /\ g \in Nat
    BY DEF RoomInv, TypeOK, Session
  <2>2. allocating' \subseteq RelayKey
    BY <1>0, <1>1, <2>1 DEF GetSessionUrls, RelayKey
  <2>3. QED
    BY <1>0, <1>1, <2>2, RelayStep DEF GetSessionUrls
<1>2. ASSUME NEW key \in allocating, RelayBound(key)
      PROVE  RoomInv'
  BY <1>0, <1>2, RelayStep DEF RelayBound
<1>3. ASSUME NEW K \in SUBSET relays, RelaysIdle(K)
      PROVE  RoomInv'
  BY <1>0, <1>3, RelayStep DEF RelaysIdle
<1>4. ASSUME NEW p \in Pid, CloseForPid(p)
      PROVE  RoomInv'
  BY <1>0, <1>4, RelayStep DEF CloseForPid, RelaysWithout
<1>5. CASE UNCHANGED vars
  BY <1>0, <1>5, RelayStep DEF vars
<1>6. QED
  BY <1>1, <1>2, <1>3, <1>4, <1>5, CreateStep, JoinStep, EndParticipationStep,
     UnregisterStep, LeaveStep DEF Next

\* The empty registry satisfies the invariant.
LEMMA RoomInvInit == Init => RoomInv
BY DEF Init, NoEntries, FirstGid, RoomInv, TypeOK, GidsIssued, RoomsConsistent,
       OneRoomPerHost

\* The inductive invariant holds of every behaviour of the registry.
THEOREM RoomInvariant == Spec => []RoomInv
BY RoomInvInit, RoomInvStep, PTL DEF Spec

\* Types: rooms, gids and relay keys stay well formed, whoever calls what.
THEOREM RoomTypes == Spec => []TypeOK
BY RoomInvariant, PTL DEF RoomInv

\* The host is always in its room and the headcount shown is the roster's.
THEOREM RosterAndHeadcountAgree == Spec => []RoomsConsistent
BY RoomInvariant, PTL DEF RoomInv

\* No player ever hosts two rooms.
THEOREM AtMostOneRoomPerHost == Spec => []OneRoomPerHost
BY RoomInvariant, PTL DEF RoomInv

-----------------------------------------------------------------------------
(* What one step does to the set of rooms.  Everything but create and join *)
(* only removes rooms and members; these facts carry the caps and the      *)
(* identity of gids.                                                       *)

Shrinks ==
  /\ DOMAIN sessions' \subseteq DOMAIN sessions
  /\ \A g \in DOMAIN sessions' :
        /\ sessions'[g].host = sessions[g].host
        /\ sessions'[g].participants \subseteq sessions[g].participants
  /\ nextGid' = nextGid

\* Popping rooms adds neither a room nor a member.
LEMMA RemovalShrinks ==
  ASSUME RoomInv, NEW S, sessions' = Without(sessions, S), nextGid' = nextGid
  PROVE  Shrinks
<1>1. TypeOK
  BY DEF RoomInv
<1>2. QED
  BY <1>1, WithoutType DEF Shrinks

\* Neither does a logout,
LEMMA LeaveShrinks ==
  ASSUME RoomInv, NEW p \in Pid, Leave(p)
  PROVE  Shrinks
<1> DEFINE gone == Joined(p) \cap Hosted(p)
           left == Joined(p) \ gone
<1>1. /\ sessions' = [g \in DOMAIN sessions \ gone |->
                        IF g \in left THEN DropMember(sessions[g], p) ELSE sessions[g]]
      /\ nextGid' = nextGid
  BY DEF Leave
<1>2. \A g \in DOMAIN sessions : sessions[g] \in Session
  BY DEF RoomInv, TypeOK
<1> HIDE DEF gone, left
<1>3. ASSUME NEW g \in DOMAIN sessions \ gone
      PROVE  /\ sessions'[g].host = sessions[g].host
             /\ sessions'[g].participants \subseteq sessions[g].participants
  <2>1. CASE g \in left
    <3>1. sessions'[g] = DropMember(sessions[g], p)
      BY <1>1, <2>1
    <3>2. QED
      BY <1>2, <3>1, MemberChange
  <2>2. CASE g \notin left
    BY <1>1, <2>2
  <2>3. QED
    BY <2>1, <2>2
<1>4. QED
  BY <1>1, <1>3 DEF Shrinks

\* nor a player backing out of one room.
LEMMA EndParticipationShrinks ==
  ASSUME RoomInv, NEW p \in Pid, NEW g \in DOMAIN sessions, EndParticipation(p, g)
  PROVE  Shrinks
<1>1. CASE sessions' = Without(sessions, {g})
  BY <1>1, RemovalShrinks DEF EndParticipation
<1>2. CASE sessions' = [sessions EXCEPT ![g] = DropMember(@, p)]
  <2>1. sessions[g] \in Session /\ sessions \in [DOMAIN sessions -> Session]
    BY DEF RoomInv, TypeOK
  <2> DEFINE s == DropMember(sessions[g], p)
  <2>2. s.host = sessions[g].host /\ s.participants \subseteq sessions[g].participants
    BY <2>1, MemberChange
  <2>3. sessions' = [sessions EXCEPT ![g] = s]
    BY <1>2
  <2> HIDE DEF s
  <2>4. /\ DOMAIN sessions' = DOMAIN sessions
        /\ \A h \in DOMAIN sessions : sessions'[h] = IF h = g THEN s ELSE sessions[h]
    BY <2>1, <2>3
  <2>5. QED
    BY <2>2, <2>4 DEF Shrinks, EndParticipation
<1>3. QED
  BY <1>1, <1>2 DEF EndParticipation

\* The only steps that can grow anything: create adds one room, with a gid
\* above every earlier one; join adds one member to one room.
CreateGrows(p) ==
  /\ DOMAIN sessions' = (DOMAIN sessions \ Hosted(p)) \cup {nextGid + 1}
  /\ Cardinality(DOMAIN sessions \ Hosted(p)) < MaxRooms
  /\ \A g \in DOMAIN sessions \ Hosted(p) : sessions'[g] = sessions[g]
  /\ sessions'[nextGid + 1].participants = {p}
  /\ sessions'[nextGid + 1].host = p
  /\ nextGid' = nextGid + 1

JoinGrows(p, g) ==
  /\ DOMAIN sessions' = DOMAIN sessions
  /\ \A h \in DOMAIN sessions \ {g} : sessions'[h] = sessions[h]
  /\ sessions'[g].host = sessions[g].host
  /\ sessions'[g].participants = sessions[g].participants \cup {p}
  /\ \/ p \in sessions[g].participants
     \/ Cardinality(sessions[g].participants) < MaxRoomParticipants
  /\ nextGid' = nextGid

\* Only finitely many gids were ever issued.
LEMMA RoomsFinite ==
  ASSUME RoomInv
  PROVE  IsFiniteSet(DOMAIN sessions)
<1>1. DOMAIN sessions \subseteq 0..nextGid /\ nextGid \in Nat
  BY DEF RoomInv, TypeOK, GidsIssued
<1>2. IsFiniteSet(0..nextGid)
  BY <1>1, FS_Interval
<1>3. QED
  BY <1>1, <1>2, FS_Subset

\* A create that does not raise adds exactly the room nextGid + 1.
LEMMA CreateShape ==
  ASSUME RoomInv, NEW p \in Pid, CreateMatchmakeSession(p)
  PROVE  Shrinks \/ CreateGrows(p)
<1> DEFINE kept == Without(sessions, Hosted(p))
           g == nextGid + 1
<1>1. /\ DOMAIN kept = DOMAIN sessions \ Hosted(p)
      /\ \A h \in DOMAIN kept : kept[h] = sessions[h] /\ kept[h].host # p
      /\ kept \in [DOMAIN kept -> Session]
      /\ \A h \in DOMAIN kept : h \in Nat /\ h <= nextGid
      /\ g \notin DOMAIN sessions
  BY Reaped
<1>2. Cardinality(DOMAIN kept) \in Nat
  <2>1. IsFiniteSet(DOMAIN kept)
    BY <1>1, RoomsFinite, FS_Subset
  <2>2. QED
    BY <2>1, FS_CardinalityType
<1>3. CASE sessions' = kept /\ nextGid' = nextGid
  BY <1>3, RemovalShrinks
<1>4. CASE /\ ~(Cardinality(DOMAIN kept) >= MaxRooms)
           /\ sessions' = Put(kept, g, NewSession(p))
           /\ nextGid' = g
  <2>1. Cardinality(DOMAIN sessions \ Hosted(p)) < MaxRooms
    BY <1>1, <1>2, <1>4, CapAssumption
  <2> HIDE DEF kept, g
  <2>2. /\ DOMAIN sessions' = DOMAIN kept \cup {g}
        /\ \A h \in DOMAIN sessions' : sessions'[h] = IF h = g THEN NewSession(p) ELSE kept[h]
    BY <1>4 DEF Put
  <2>3. \A h \in DOMAIN kept : h # g /\ sessions'[h] = sessions[h]
    BY <1>1, <2>2
  <2>4. sessions'[g] = NewSession(p)
    BY <2>2
  <2>5. sessions'[g].participants = {p} /\ sessions'[g].host = p
    BY <2>4, NewSessionSound
  <2>6. CreateGrows(p)
    BY <1>1, <1>4, <2>1, <2>2, <2>3, <2>5 DEF CreateGrows, g
  <2>7. QED
    BY <2>6
<1>5. QED
  BY <1>3, <1>4 DEF CreateMatchmakeSession, CreateIn

\* A join adds exactly one member to exactly one room.
LEMMA JoinShape ==
  ASSUME RoomInv, NEW p \in Pid, NEW g \in DOMAIN sessions, JoinMatchmakeSession(p, g)
  PROVE  JoinGrows(p, g)
<1>1. sessions[g] \in Session /\ sessions \in [DOMAIN sessions -> Session]
  BY DEF RoomInv, TypeOK
<1> DEFINE s == AddMember(sessions[g], p)
<1>2. s.host = sessions[g].host /\ s.participants = sessions[g].participants \cup {p}
  BY <1>1, MemberChange
<1>3. sessions' = [sessions EXCEPT ![g] = s]
  BY DEF JoinMatchmakeSession
<1> HIDE DEF s
<1>4. /\ DOMAIN sessions' = DOMAIN sessions
      /\ \A h \in DOMAIN sessions : sessions'[h] = IF h = g THEN s ELSE sessions[h]
  BY <1>1, <1>3
<1>5. QED
  BY <1>2, <1>4 DEF JoinGrows, JoinMatchmakeSession

\* Every step of the registry is one of the three.
LEMMA StepShape ==
  ASSUME RoomInv, [Next]_vars
  PROVE  \/ Shrinks
         \/ \E p \in Pid : CreateGrows(p)
         \/ \E p \in Pid, g \in DOMAIN sessions : JoinGrows(p, g)
<1>1. ASSUME UNCHANGED <<sessions, nextGid>>
      PROVE  Shrinks
  BY <1>1 DEF Shrinks
<1>2. ASSUME NEW p \in Pid, NEW G, UnregisterGatherings(p, G)
      PROVE  Shrinks
  BY <1>2, RemovalShrinks DEF UnregisterGatherings
<1>3. CASE UNCHANGED vars
  BY <1>1, <1>3 DEF vars
<1>4. ASSUME NEW p \in Pid, NEW g, GetSessionUrls(p, g)
      PROVE  Shrinks
  BY <1>1, <1>4 DEF GetSessionUrls
<1>5. ASSUME NEW x, RelayBound(x) \/ RelaysIdle(x)
      PROVE  Shrinks
  BY <1>1, <1>5 DEF RelayBound, RelaysIdle
<1>6. ASSUME NEW p, CloseForPid(p)
      PROVE  Shrinks
  BY <1>1, <1>6 DEF CloseForPid
<1>7. QED
  BY <1>2, <1>3, <1>4, <1>5, <1>6, CreateShape, JoinShape, LeaveShrinks,
     EndParticipationShrinks DEF Next

\* A gid never comes to name a second room, whatever the interleaving.
THEOREM GidsNameOneRoomForever == Spec => GidNamesOneRoom
<1> DEFINE A == /\ \A g \in DOMAIN sessions' \ DOMAIN sessions : g > nextGid /\ g <= nextGid'
                /\ \A g \in DOMAIN sessions' \cap DOMAIN sessions :
                      sessions'[g].host = sessions[g].host
<1>1. ASSUME RoomInv, [Next]_vars
      PROVE  A
  <2>1. nextGid \in Nat /\ nextGid + 1 \notin DOMAIN sessions
    BY <1>1 DEF RoomInv, TypeOK, GidsIssued
  <2>2. CASE Shrinks
    BY <2>2 DEF Shrinks
  <2>3. ASSUME NEW p \in Pid, CreateGrows(p)
        PROVE  A
    BY <2>1, <2>3 DEF CreateGrows
  <2>4. ASSUME NEW p \in Pid, NEW g \in DOMAIN sessions, JoinGrows(p, g)
        PROVE  A
    BY <2>4 DEF JoinGrows
  <2>5. QED
    BY <1>1, <2>2, <2>3, <2>4, StepShape
<1>2. RoomInv /\ [Next]_vars => [A]_vars
  BY <1>1
<1> HIDE DEF A
<1>3. Spec => [][A]_vars
  BY <1>2, RoomInvariant, PTL DEF Spec
<1>4. QED
  BY <1>3 DEF GidNamesOneRoom, A

\* No step takes the registry over a cap, so none ever is.
LEMMA CapsStep ==
  ASSUME RoomInv, CapsHold, [Next]_vars
  PROVE  CapsHold'
<1>1. /\ IsFiniteSet(DOMAIN sessions)
      /\ Cardinality(DOMAIN sessions) \in Nat
      /\ Cardinality(DOMAIN sessions) <= MaxRooms
  BY RoomsFinite, FS_CardinalityType DEF CapsHold
<1>2. \A g \in DOMAIN sessions :
         /\ sessions[g].participants \in SUBSET Pid
         /\ Cardinality(sessions[g].participants) <= MaxRoomParticipants
  BY DEF RoomInv, TypeOK, Session, CapsHold
<1>3. CASE Shrinks
  <2>1. Cardinality(DOMAIN sessions') <= Cardinality(DOMAIN sessions)
    BY <1>1, <1>3, FS_Subset DEF Shrinks
  <2>2. Cardinality(DOMAIN sessions') \in Nat
    BY <1>1, <1>3, FS_Subset, FS_CardinalityType DEF Shrinks
  <2>3. ASSUME NEW g \in DOMAIN sessions'
        PROVE  Cardinality(sessions'[g].participants) <= MaxRoomParticipants
    <3>1. /\ g \in DOMAIN sessions
          /\ sessions'[g].participants \subseteq sessions[g].participants
      BY <1>3, <2>3 DEF Shrinks
    <3>2. IsFiniteSet(sessions[g].participants)
      BY <1>2, <3>1, RosterFinite
    <3>3. /\ Cardinality(sessions'[g].participants) <= Cardinality(sessions[g].participants)
          /\ Cardinality(sessions'[g].participants) \in Nat
          /\ Cardinality(sessions[g].participants) \in Nat
      BY <3>1, <3>2, FS_Subset, FS_CardinalityType
    <3>4. QED
      BY <1>2, <3>1, <3>3, CapAssumption
  <2>4. QED
    BY <1>1, <2>1, <2>2, <2>3, CapAssumption DEF CapsHold
<1>4. ASSUME NEW p \in Pid, CreateGrows(p)
      PROVE  CapsHold'
  <2> DEFINE kept == DOMAIN sessions \ Hosted(p)
             g == nextGid + 1
  <2>1. /\ IsFiniteSet(kept)
        /\ Cardinality(kept) \in Nat
        /\ Cardinality(kept) < MaxRooms
    BY <1>1, <1>4, FS_Subset, FS_CardinalityType DEF CreateGrows
  <2>2. g \notin kept /\ DOMAIN sessions' = kept \cup {g}
    BY <1>4 DEF CreateGrows, RoomInv, TypeOK, GidsIssued
  <2>3. Cardinality(DOMAIN sessions') <= MaxRooms
    <3> HIDE DEF kept, g
    <3>1. Cardinality(kept \cup {g}) = Cardinality(kept) + 1
      BY <2>1, <2>2, FS_AddElement
    <3>2. QED
      BY <2>1, <2>2, <3>1, CapAssumption
  <2>4. \A h \in kept : Cardinality(sessions'[h].participants) <= MaxRoomParticipants
    BY <1>2, <1>4 DEF CreateGrows
  <2>5. Cardinality(sessions'[g].participants) <= MaxRoomParticipants
    <3>1. sessions'[g].participants = {p}
      BY <1>4 DEF CreateGrows
    <3>2. Cardinality({p}) = 1
      BY FS_Singleton
    <3> HIDE DEF g
    <3>3. QED
      BY <3>1, <3>2, CapAssumption
  <2>6. QED
    BY <2>2, <2>3, <2>4, <2>5 DEF CapsHold
<1>5. ASSUME NEW p \in Pid, NEW g \in DOMAIN sessions, JoinGrows(p, g)
      PROVE  CapsHold'
  <2>1. Cardinality(sessions'[g].participants) <= MaxRoomParticipants
    <3>1. CASE p \in sessions[g].participants
      <4>1. sessions[g].participants \cup {p} = sessions[g].participants
        BY <3>1
      <4>2. QED
        BY <1>2, <1>5, <4>1 DEF JoinGrows
    <3>2. CASE p \notin sessions[g].participants
      <4>1. /\ IsFiniteSet(sessions[g].participants)
            /\ Cardinality(sessions[g].participants) \in Nat
        BY <1>2, RosterFinite
      <4>2. Cardinality(sessions[g].participants \cup {p})
              = Cardinality(sessions[g].participants) + 1
        BY <3>2, <4>1, FS_AddElement
      <4>3. QED
        BY <1>5, <3>2, <4>1, <4>2, CapAssumption DEF JoinGrows
    <3>3. QED
      BY <3>1, <3>2
  <2>2. \A h \in DOMAIN sessions \ {g} :
           Cardinality(sessions'[h].participants) <= MaxRoomParticipants
    BY <1>2, <1>5 DEF JoinGrows
  <2>3. DOMAIN sessions' = DOMAIN sessions
    BY <1>5 DEF JoinGrows
  <2>4. QED
    BY <1>1, <2>1, <2>2, <2>3 DEF CapsHold
<1>6. QED
  BY <1>3, <1>4, <1>5, StepShape

\* MAX_ROOMS and MAX_ROOM_PARTICIPANTS hold in every reachable state.
THEOREM CapsAlwaysHold == Spec => []CapsHold
<1>1. Init => CapsHold
  <2>1. Cardinality({}) = 0
    BY FS_EmptySet
  <2>2. ASSUME Init PROVE CapsHold
    <3>1. DOMAIN sessions = {}
      BY <2>2 DEF Init, NoEntries
    <3>2. QED
      BY <2>1, <3>1, CapAssumption DEF CapsHold
  <2>3. QED
    BY <2>2
<1>2. RoomInv /\ CapsHold /\ [Next]_vars => CapsHold'
  BY CapsStep
<1>3. QED
  BY <1>1, <1>2, RoomInvariant, PTL DEF Spec

\* reap_host and then create: the room a host had makes room for its next one,
\* so the LimitExceeded branch cannot be reached by a player that had a room.
LEMMA HostedRoomMakesRoom ==
  ASSUME RoomInv, CapsHold, NEW p \in Pid, Hosted(p) # {}
  PROVE  ~(Cardinality(DOMAIN Without(sessions, Hosted(p))) >= MaxRooms)
<1> DEFINE kept == DOMAIN sessions \ Hosted(p)
<1>1. IsFiniteSet(DOMAIN sessions)
  BY RoomsFinite
<1>2. kept \subseteq DOMAIN sessions /\ kept # DOMAIN sessions
  BY DEF Hosted
<1>3. DOMAIN Without(sessions, Hosted(p)) = kept
  BY WithoutType DEF RoomInv
<1> HIDE DEF kept
<1>4. /\ Cardinality(kept) <= Cardinality(DOMAIN sessions)
      /\ Cardinality(kept) # Cardinality(DOMAIN sessions)
  BY <1>1, <1>2, FS_Subset
<1>5. Cardinality(kept) \in Nat /\ Cardinality(DOMAIN sessions) \in Nat
  BY <1>1, <1>2, FS_Subset, FS_CardinalityType
<1>6. Cardinality(DOMAIN sessions) <= MaxRooms
  BY DEF CapsHold
<1>7. QED
  BY <1>3, <1>4, <1>5, <1>6, CapAssumption

\* A host that opens a new room never ends up with none.
THEOREM HostAlwaysKeepsARoom == Spec => HostKeepsARoom
<1> DEFINE A == \A p \in Pid : CreateMatchmakeSession(p) /\ Hosted(p) # {} => Hosted(p)' # {}
<1>1. ASSUME RoomInv, CapsHold, NEW p \in Pid, CreateMatchmakeSession(p), Hosted(p) # {}
      PROVE  Hosted(p)' # {}
  <2> DEFINE kept == Without(sessions, Hosted(p))
  <2>1. sessions' = Put(kept, nextGid + 1, NewSession(p))
    BY <1>1, HostedRoomMakesRoom DEF CreateMatchmakeSession, CreateIn
  <2> HIDE DEF kept
  <2>2. nextGid + 1 \in DOMAIN sessions' /\ sessions'[nextGid + 1] = NewSession(p)
    BY <2>1 DEF Put
  <2>3. sessions'[nextGid + 1].host = p
    BY <2>2, NewSessionSound
  <2>4. QED
    BY <2>2, <2>3 DEF Hosted
<1>2. RoomInv /\ CapsHold /\ [Next]_vars => [A]_vars
  BY <1>1
<1> HIDE DEF A
<1>3. Spec => [][A]_vars
  BY <1>2, RoomInvariant, CapsAlwaysHold, PTL DEF Spec
<1>4. QED
  BY <1>3 DEF HostKeepsARoom, A

-----------------------------------------------------------------------------
(* The relays.                                                             *)

\* A step closes rooms and relays, makes a request wait, or lets one go on.
KeysMove ==
  \/ Keys!Close
  \/ \E k : Keys!Ask(k)
  \/ \E k \in allocating :
       /\ allocating' \in {allocating \ {k}, allocating}
       /\ relays' \in {relays, relays \cup {k}}
       /\ UNCHANGED Closed

\* A relay goes when its room does, or when its time has come.
LEMMA RoomsClosing ==
  ASSUME nextGid \in Nat, UNCHANGED <<nextGid, allocating>>, NEW G, G \subseteq DOMAIN sessions,
         DOMAIN sessions' = DOMAIN sessions \ G, relays' \subseteq RelaysOutside(G)
  PROVE  Keys!Close
BY DEF Keys!Close, Closed, RelaysOutside

\* The room that is opened has never been closed, whatever reap_host closed.
LEMMA CreateCloses ==
  ASSUME nextGid \in Nat, NEW p, CreateMatchmakeSession(p)
  PROVE  Keys!Close
<1> DEFINE kept == Without(sessions, Hosted(p))
<1>1. DOMAIN kept = DOMAIN sessions \ Hosted(p)
  BY DEF Without, Restrict
<1>2. /\ relays' = RelaysOutside(Hosted(p)) /\ UNCHANGED allocating
      /\ \/ sessions' = kept /\ UNCHANGED nextGid
         \/ sessions' = Put(kept, nextGid + 1, NewSession(p)) /\ nextGid' = nextGid + 1
  BY DEF CreateMatchmakeSession, CreateIn
<1> HIDE DEF kept
<1>3. CASE sessions' = kept /\ UNCHANGED nextGid
  <2>1. Hosted(p) \subseteq DOMAIN sessions /\ relays' \subseteq RelaysOutside(Hosted(p))
    BY <1>2 DEF Hosted
  <2>2. DOMAIN sessions' = DOMAIN sessions \ Hosted(p)
    BY <1>1, <1>3
  <2>3. QED
    BY <1>2, <1>3, <2>1, <2>2, RoomsClosing
<1>4. CASE sessions' = Put(kept, nextGid + 1, NewSession(p)) /\ nextGid' = nextGid + 1
  <2>1. DOMAIN sessions' = (DOMAIN sessions \ Hosted(p)) \cup {nextGid + 1}
    BY <1>1, <1>4 DEF Put
  <2>2. \A g : g \in Closed' <=> g \in Closed \/ (g \in (FirstGid + 1) .. nextGid /\ g \in Hosted(p))
    BY <1>4, <2>1 DEF Closed, FirstGid, Hosted
  <2>3. QED
    BY <1>2, <2>2 DEF Keys!Close, RelaysOutside
<1>5. QED
  BY <1>2, <1>3, <1>4

\* What every handler does to the relays.
LEMMA KeysStep ==
  ASSUME nextGid \in Nat, [Next]_vars
  PROVE  KeysMove
<1>1. ASSUME NEW p \in Pid, CreateMatchmakeSession(p)
      PROVE  Keys!Close
  BY <1>1, CreateCloses
<1>2. ASSUME NEW p \in Pid, NEW g \in DOMAIN sessions, JoinMatchmakeSession(p, g)
      PROVE  Keys!Close
  <2>1. DOMAIN sessions' = DOMAIN sessions \ {} /\ UNCHANGED <<nextGid, relays, allocating>>
    BY <1>2 DEF JoinMatchmakeSession
  <2>2. relays' \subseteq RelaysOutside({})
    BY <2>1 DEF RelaysOutside
  <2>3. QED
    BY <2>1, <2>2, RoomsClosing
<1>3. ASSUME NEW p \in Pid, NEW g \in DOMAIN sessions, EndParticipation(p, g)
      PROVE  Keys!Close
  <2>1. UNCHANGED <<nextGid, allocating>>
    BY <1>3 DEF EndParticipation
  <2>2. CASE sessions' = Without(sessions, {g}) /\ relays' = RelaysOutside({g})
    <3>1. DOMAIN sessions' = DOMAIN sessions \ {g} /\ {g} \subseteq DOMAIN sessions
      BY <2>2 DEF Without, Restrict
    <3>2. QED
      BY <2>1, <2>2, <3>1, RoomsClosing
  <2>3. CASE sessions' = [sessions EXCEPT ![g] = DropMember(@, p)] /\ relays' = RelaysWithout(p)
    <3>1. DOMAIN sessions' = DOMAIN sessions \ {} /\ relays' \subseteq RelaysOutside({})
      BY <2>3 DEF RelaysOutside, RelaysWithout
    <3>2. QED
      BY <2>1, <3>1, RoomsClosing
  <2>4. QED
    BY <1>3, <2>2, <2>3 DEF EndParticipation
<1>4. ASSUME NEW p \in Pid, NEW G \in SUBSET DOMAIN sessions, UnregisterGatherings(p, G)
      PROVE  Keys!Close
  <2> DEFINE gone == G \cap Hosted(p)
  <2>1. DOMAIN sessions' = DOMAIN sessions \ gone /\ gone \subseteq DOMAIN sessions
    BY <1>4 DEF UnregisterGatherings, Without, Restrict
  <2>2. relays' = RelaysOutside(gone) /\ UNCHANGED <<nextGid, allocating>>
    BY <1>4 DEF UnregisterGatherings
  <2> HIDE DEF gone
  <2>3. QED
    BY <2>1, <2>2, RoomsClosing
<1>5. ASSUME NEW p \in Pid, Leave(p)
      PROVE  Keys!Close
  <2> DEFINE gone == Joined(p) \cap Hosted(p)
  <2>1. DOMAIN sessions' = DOMAIN sessions \ gone /\ gone \subseteq DOMAIN sessions
    BY <1>5 DEF Leave, Joined
  <2>2. relays' \subseteq RelaysOutside(gone) /\ UNCHANGED <<nextGid, allocating>>
    BY <1>5 DEF Leave
  <2> HIDE DEF gone
  <2>3. QED
    BY <2>1, <2>2, RoomsClosing
<1>6. ASSUME NEW p \in Pid, CloseForPid(p)
      PROVE  Keys!Close
  BY <1>6 DEF Keys!Close, CloseForPid, RelaysWithout, Closed
<1>7. ASSUME NEW K \in SUBSET relays, RelaysIdle(K)
      PROVE  Keys!Close
  BY <1>7 DEF Keys!Close, RelaysIdle, Closed
<1>8. ASSUME NEW p \in Pid, NEW g \in DOMAIN sessions, GetSessionUrls(p, g)
      PROVE  \E k : Keys!Ask(k)
  <2> DEFINE k == [gid |-> g, pair |-> {p, sessions[g].host}]
  <2>1. k.gid \notin Closed
    BY DEF Closed
  <2>2. k \notin relays /\ allocating' = allocating \cup {k} /\ UNCHANGED <<sessions, nextGid, relays>>
    BY <1>8 DEF GetSessionUrls
  <2> HIDE DEF k
  <2>3. QED
    BY <2>1, <2>2 DEF Keys!Ask, Keys!Wanted, Closed
<1>9. ASSUME NEW k \in allocating, RelayBound(k)
      PROVE  KeysMove
  BY <1>9 DEF RelayBound, KeysMove, Closed
<1>10. CASE UNCHANGED vars
  BY <1>10 DEF vars, Keys!Close, KeysMove, Closed
<1>11. QED
  BY <1>1, <1>2, <1>3, <1>4, <1>5, <1>6, <1>7, <1>8, <1>9, <1>10 DEF Next, KeysMove

\* A relay in the rooms' table was asked for while its room was there, and goes
\* with it: their handlers do to the relays what RelayKeys allows.
THEOREM RoomsImplementRelayKeys == Spec => ImplementsRelayKeys
<1>1. Init => Keys!Init
  BY DEF Init, Keys!Init, Closed, FirstGid
<1>2. RoomInv /\ [Next]_vars => [Keys!Next]_(Keys!vars)
  <2> SUFFICES ASSUME RoomInv, [Next]_vars
               PROVE  Keys!Next
    OBVIOUS
  <2>1. KeysMove
    BY KeysStep DEF RoomInv, TypeOK
  <2>2. ASSUME NEW k, Keys!Ask(k)
        PROVE  Keys!Next
    <3>1. k \in allocating'
      BY <2>2 DEF Keys!Ask
    <3>2. QED
      BY <2>2, <3>1 DEF Keys!Next
  <2>3. ASSUME NEW k \in allocating,
               allocating' \in {allocating \ {k}, allocating},
               relays' \in {relays, relays \cup {k}}, UNCHANGED Closed
        PROVE  Keys!Next
    BY <2>3 DEF Keys!Next, Keys!Answer
  <2>4. QED
    BY <2>1, <2>2, <2>3 DEF KeysMove, Keys!Next
<1>3. QED
  BY <1>1, <1>2, RoomInvariant, PTL DEF Spec, ImplementsRelayKeys, Keys!Spec
=============================================================================
