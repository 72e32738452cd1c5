--------------------------- MODULE ForwardingProofs ---------------------------
(***************************************************************************)
(* Theorems about Forwarding, for every set of players and connections,    *)
(* every mode of the relays and every number of handlers forwarding at a   *)
(* time.  What the handlers promise rests on what LobbyProofs shows of the *)
(* tables they read: forwarding changes none of them but the relays.       *)
(***************************************************************************)
EXTENDS Forwarding, LobbyProofs, NaturalsInduction, SequenceTheorems, WellFoundedInduction

\* A step of what is forwarded is one of a handler's turns.
HandlerStep(c) ==
  \/ \E list \in Seq(Conn) : RequestProbeInitiationExt(c, list)
  \/ ProbeSent(c) \/ ProbeRelayed(c) \/ DeliverMessage(c) \/ Shouted(c)

\* Forwarding goes on in the steps of the lobby and in those of its handlers.
LEMMA ForwardingStepIs ==
  ASSUME [ForwardingNext]_allVars
  PROVE  \/ [Next]_vars /\ UNCHANGED <<probing, shouting>>
         \/ \E c \in Conn : HandlerStep(c)
<1>1. \A n \in 1 .. Targets : [1 .. n -> Conn] \subseteq Seq(Conn)
  BY ForwardingAssumption
<1>2. QED
  BY <1>1 DEF ForwardingNext, HandlerStep, allVars, lobbyVars, vars

\* Forwarding leaves every table of the lobby alone, save the relays.
LEMMA HandlersOnlyRead ==
  ASSUME NEW c \in Conn, HandlerStep(c)
  PROVE  UNCHANGED <<connVars, sessions, nextRoomGid, allocating, hallVars>>
BY DEF HandlerStep, RequestProbeInitiationExt, ProbeSent, ProbeRelayed, DeliverMessage, Shouted,
       lobbyVars, roomVars

-----------------------------------------------------------------------------
(* Shouts.                                                                 *)

\* So the lobby's invariant holds whatever is forwarded.
LEMMA LobbyInvForwarded ==
  ASSUME ~LiveOverlap, ServerPid \notin Pid, LobbyInv, [ForwardingNext]_allVars
  PROVE  LobbyInv'
<1>1. CASE [Next]_vars
  BY <1>1, LobbyInvStep
<1>2. ASSUME NEW c \in Conn, HandlerStep(c)
      PROVE  LobbyInv'
  <2>1. UNCHANGED <<open, clients, registered, silent, closing, sessions, communities, runtimeGids>>
    BY <1>2, HandlersOnlyRead DEF connVars, hallVars
  <2>2. QED
    BY <2>1 DEF LobbyInv, OneAnswers, AnsweringIsCurrent, P!Current, RoomsAreRecords,
                OwnedAtRunTime, NoGhost, NoGhostInHalls
<1>3. QED
  BY <1>1, <1>2, ForwardingStepIs

\* What follows from a sender who is online: the echo, and walls no shout
\* crosses.
LEMMA TargetsAreTogether ==
  ASSUME AnsweringIsCurrent
  PROVE  ShoutsStayTogether
<1> SUFFICES ASSUME NEW c \in registered \ silent, NEW p, p = PidOf[c]
             PROVE  /\ p \in ShoutTargets(p)
                    /\ \A q \in ShoutTargets(p) \ {p} :
                         \/ Shared(p, q) # {}
                         \/ /\ {p, q} \cap InRoom = {}
                            /\ H!JoinedHalls(p) \cap H!JoinedHalls(q) # {}
                         \/ R!Joined(p) = {} /\ H!JoinedHalls(p) = {}
  BY DEF ShoutsStayTogether
<1>1. p \in Live
  BY DEF AnsweringIsCurrent, P!Current, Live
<1>2. /\ \A q \in Mates(p) : Shared(p, q) # {}
      /\ R!Joined(p) # {} => p \in Mates(p)
  BY DEF Mates, Shared, R!Joined
<1>3. /\ \A q \in InHall(p) : H!JoinedHalls(p) \cap H!JoinedHalls(q) # {}
      /\ H!JoinedHalls(p) # {} => p \in InHall(p)
  BY DEF InHall, H!JoinedHalls
<1>4. R!Joined(p) = {} => p \notin InRoom
  BY DEF R!Joined, InRoom
<1>5. CASE Mates(p) # {}
  <2>1. R!Joined(p) # {}
    BY <1>5 DEF Mates
  <2>2. ShoutTargets(p) = Mates(p) \cap Live
    BY <1>1, <1>2, <1>5, <2>1 DEF ShoutTargets, OrEveryone
  <2>3. QED
    BY <1>1, <1>2, <2>1, <2>2
<1>6. CASE Mates(p) = {} /\ H!JoinedHalls(p) # {}
  <2>1. p \in InHall(p) \ InRoom
    BY <1>2, <1>3, <1>4, <1>6
  <2>2. ShoutTargets(p) = (InHall(p) \ InRoom) \cap Live
    BY <1>1, <1>6, <2>1 DEF ShoutTargets, OrEveryone
  <2>3. QED
    BY <1>1, <1>3, <2>1, <2>2
<1>7. CASE Mates(p) = {} /\ H!JoinedHalls(p) = {}
  <2>1. InHall(p) = {}
    BY <1>7 DEF InHall
  <2>2. ShoutTargets(p) \in {Live, {p} \cap Live}
    BY <1>7, <2>1 DEF ShoutTargets, OrEveryone
  <2>3. R!Joined(p) = {}
    BY <1>2, <1>7
  <2>4. QED
    BY <1>1, <1>7, <2>2, <2>3
<1>8. QED
  BY <1>5, <1>6, <1>7

\* A shout reaches its sender, and nobody across a room's wall, whoever came
\* and went before (_shout_targets).
THEOREM ShoutsAlwaysStayTogether ==
  ASSUME ~LiveOverlap, ServerPid \notin Pid
  PROVE  ForwardingSpec => []ShoutsStayTogether
<1>1. ForwardingInit => LobbyInv
  BY LobbyInvInit DEF ForwardingInit
<1>2. LobbyInv /\ [ForwardingNext]_allVars => LobbyInv'
  BY LobbyInvForwarded
<1>3. LobbyInv => ShoutsStayTogether
  BY TargetsAreTogether DEF LobbyInv
<1>4. QED
  BY <1>1, <1>2, <1>3, PTL DEF ForwardingSpec

-----------------------------------------------------------------------------
(* Types.                                                                  *)

\* The tables the handlers read hold players, rooms numbered by naturals, and
\* relays between players.
LEMMA TablesRead ==
  ASSUME LobbyTypeInv
  PROVE  /\ \A p : Mates(p) \subseteq Pid /\ InHall(p) \subseteq Pid
         /\ Live \subseteq Pid
         /\ relays \subseteq R!RelayKey
         /\ DOMAIN sessions \subseteq Nat
<1>1. /\ \A g \in DOMAIN sessions : sessions[g].participants \subseteq Pid
      /\ \A g \in DOMAIN communities : communities[g].participants \subseteq Pid
      /\ relays \subseteq R!RelayKey /\ DOMAIN sessions \subseteq Nat
  BY DEF LobbyTypeInv, TypeOK, R!TypeOK, H!HallTypeOK, R!Session, H!Community
<1>2. \A p \in DOMAIN clients : clients[p] \in Conn /\ PidOf[clients[p]] = p
  BY DEF LobbyTypeInv, OwnConnections
<1>3. Live \subseteq Pid
  BY <1>2, LobbyAssumption DEF Live
<1>4. \A p : Mates(p) \subseteq Pid /\ InHall(p) \subseteq Pid
  BY <1>1 DEF Mates, InHall, R!Joined, H!JoinedHalls
<1>5. QED
  BY <1>1, <1>3, <1>4

\* The first room of two players is one of those they share.
LEMMA RoomPairTyped ==
  ASSUME LobbyTypeInv, NEW p \in Pid, NEW q \in Pid, Shared(p, q) # {}
  PROVE  /\ RoomPair(p, q).gid \in Shared(p, q)
         /\ RoomPair(p, q) \in R!RelayKey
<1>1. Shared(p, q) \subseteq Nat
  BY TablesRead DEF Shared, R!Joined
<1>2. \E g \in Shared(p, q) : \A h \in Shared(p, q) : g <= h
  <2>1. PICK g \in Shared(p, q) : \A h \in Shared(p, q) : <<h, g>> \notin OpToRel(<, Nat)
    BY <1>1, NatLessThanWellFounded, WFMin, Zenon
  <2>2. \A h \in Shared(p, q) : ~(h < g)
    BY <1>1, <2>1, Zenon DEF OpToRel
  <2>3. \A h \in Shared(p, q) : g <= h
    BY <1>1, <2>2
  <2>4. QED
    BY <2>3
<1>3. RoomPair(p, q).gid \in Shared(p, q)
  BY <1>2 DEF RoomPair
<1>4. QED
  BY <1>1, <1>3 DEF RoomPair, R!RelayKey

\* A probe of connection c names no relay, or that of its own pair.
NamesOwnPair(c, at) == at.key # Direct => at.key.pair = {PidOf[c], PidOf[at.target]}

\* A probe that is sent names no relay or an open one; one that waits, waits for
\* a relay that is not there, of a room that is; either is the pair's own.
Aimed(c, mates, rest, at) ==
  /\ rest \in Seq(Conn) /\ at \in Await /\ NamesOwnPair(c, at)
  /\ at.for = "send" => at.key = Direct \/ at.key \in relays
  /\ at.for = "relay" => at.key \notin relays /\ at.key.gid \in DOMAIN sessions
  /\ probing' = Put(probing, c, [mates |-> mates, to |-> rest, at |-> at])

\* A probe whose list and destination change keeps the caller's room-mates.
LEMMA Retargeted ==
  ASSUME NEW probe \in Probe, NEW rest, NEW at
  PROVE  [probe EXCEPT !.to = rest, !.at = at] = [mates |-> probe.mates, to |-> rest, at |-> at]
<1> DEFINE A == SUBSET Pid
           B == Seq(Conn)
<1>1. probe \in [mates : A, to : B, at : Await]
  BY DEF Probe
<1> DEFINE C == Await
<1>2. probe \in [mates : A, to : B, at : C]
  BY <1>1
<1> HIDE DEF A, B, C
<1>3. [probe EXCEPT !.to = rest, !.at = at] \in [mates : {probe.mates}, to : {rest}, at : {at}]
  BY <1>2
<1>4. \A m, s, a, r : r \in [mates : {m}, to : {s}, at : {a}] => r = [mates |-> m, to |-> s, at |-> a]
  OBVIOUS
<1>5. QED
  BY <1>3, <1>4, Zenon

\* Where a handler's turn at its probe ends.
LEMMA GoEnds ==
  ASSUME LobbyTypeInv, NEW c \in Conn, NEW probe \in Probe, Go(c, probe)
  PROVE  \/ probing' = Without(probing, {c})
         \/ \E rest, at : Aimed(c, probe.mates, rest, at)
<1> DEFINE p == PidOf[c]
<1>0. p \in Pid /\ probe.to \in Seq(Conn)
  BY LobbyAssumption DEF Probe
<1>1. CASE probing' = Without(probing, {c})
  BY <1>1
<1>2. ASSUME NEW d \in Conn, NEW rest \in Seq(Conn), NEW way \in {"send", "relay"},
             NEW key, key = Direct \/ (Eligible(p, PidOf[d]) /\ key = RoomPair(p, PidOf[d])),
             way = "send" => key = Direct \/ key \in relays,
             way = "relay" => /\ Eligible(p, PidOf[d]) /\ key = RoomPair(p, PidOf[d])
                              /\ key \notin relays,
             probing' = Put(probing, c, Aiming(probe, rest, way, d, key))
      PROVE  \E r, at : Aimed(c, probe.mates, r, at)
  <2> DEFINE at == [for |-> way, target |-> d, key |-> key]
  <2>1. key \in R!RelayKey
    <3>1. Direct \in R!RelayKey
      BY DEF Direct, R!RelayKey
    <3>2. PidOf[d] \in Pid
      BY LobbyAssumption
    <3>3. Eligible(p, PidOf[d]) => RoomPair(p, PidOf[d]) \in R!RelayKey
      BY <1>0, <3>2, RoomPairTyped DEF Eligible
    <3>4. QED
      BY <1>2, <3>1, <3>3
  <2>2. at \in Await
    BY <1>2, <2>1 DEF Await
  <2>3. /\ at.for = "send" => at.key = Direct \/ at.key \in relays
        /\ at.for = "relay" => at.key \notin relays /\ at.key.gid \in DOMAIN sessions
    <3>1. way = "relay" => key.gid \in Shared(p, PidOf[d])
      BY <1>0, <1>2, RoomPairTyped, LobbyAssumption DEF Eligible
    <3>2. QED
      BY <1>2, <3>1 DEF Shared, R!Joined
  <2>4. NamesOwnPair(c, at)
    BY <1>2 DEF NamesOwnPair, RoomPair
  <2>5. probing' = Put(probing, c, [probe EXCEPT !.to = rest, !.at = at])
    BY <1>2 DEF Aiming
  <2> HIDE DEF at
  <2>6. probing' = Put(probing, c, [mates |-> probe.mates, to |-> rest, at |-> at])
    BY <2>5, Retargeted
  <2>7. Aimed(c, probe.mates, rest, at)
    BY <2>2, <2>3, <2>4, <2>6 DEF Aimed
  <2>8. QED
    BY <2>7
<1>3. CASE probing' # Without(probing, {c})
  <2> DEFINE Rest(i) == SubSeq(probe.to, i + 1, Len(probe.to))
  <2>1. PICK i \in DOMAIN probe.to :
          LET q == PidOf[probe.to[i]]
          IN  \/ probing' = Put(probing, c, Sending(probe, Rest(i), probe.to[i], Direct))
              \/ /\ Eligible(p, q) /\ RoomPair(p, q) \in relays
                 /\ probing' = Put(probing, c, Sending(probe, Rest(i), probe.to[i], RoomPair(p, q)))
              \/ /\ Eligible(p, q) /\ RoomPair(p, q) \notin relays
                 /\ probing' = Put(probing, c, Aiming(probe, Rest(i), "relay", probe.to[i], RoomPair(p, q)))
    BY <1>3 DEF Go
  <2> DEFINE d == probe.to[i]
             rest == Rest(i)
  <2>2. d \in Conn
    BY <1>0
  <2>3. rest \in Seq(Conn)
    <3>1. Len(probe.to) \in Nat /\ \A j \in 1 .. Len(probe.to) : probe.to[j] \in Conn
      BY <1>0
    <3>2. i + 1 \in Int /\ \A j \in (i + 1) .. Len(probe.to) : probe.to[j] \in Conn
      BY <1>0, <3>1
    <3>3. QED
      BY <3>1, <3>2, SubSeqProperties
  <2>4. \/ probing' = Put(probing, c, Aiming(probe, rest, "send", d, Direct))
        \/ /\ Eligible(p, PidOf[d]) /\ RoomPair(p, PidOf[d]) \in relays
           /\ probing' = Put(probing, c, Aiming(probe, rest, "send", d, RoomPair(p, PidOf[d])))
        \/ /\ Eligible(p, PidOf[d]) /\ RoomPair(p, PidOf[d]) \notin relays
           /\ probing' = Put(probing, c, Aiming(probe, rest, "relay", d, RoomPair(p, PidOf[d])))
    BY <2>1 DEF Sending
  <2> HIDE DEF d, rest, p
  <2>5. QED
    BY <1>2, <2>2, <2>3, <2>4
<1>4. QED
  BY <1>1, <1>3

\* The requests in hand.
ProbesTyped ==
  /\ probing \in [DOMAIN probing -> Probe] /\ DOMAIN probing \subseteq Conn
  /\ ProbeNamesOwnPair

ShoutsTyped == shouting \in [DOMAIN shouting -> (SUBSET Pid) \ {{}}] /\ DOMAIN shouting \subseteq Conn

ForwardingInv == LobbyTypeInv /\ ProbesTyped /\ ShoutsTyped

\* A turn at a probe leaves the others alone.
LEMMA GoTyped ==
  ASSUME LobbyTypeInv, ProbesTyped, NEW c \in Conn, NEW probe \in Probe, Go(c, probe)
  PROVE  ProbesTyped'
<1>1. CASE probing' = Without(probing, {c})
  <2>1. /\ DOMAIN probing' = DOMAIN probing \ {c} /\ IsDict(probing')
        /\ \A d \in DOMAIN probing' : probing'[d] = probing[d]
    BY <1>1 DEF Without, Restrict, IsDict
  <2>2. QED
    BY <2>1 DEF ProbesTyped, ProbeNamesOwnPair, IsDict
<1>2. ASSUME NEW rest, NEW at, Aimed(c, probe.mates, rest, at)
      PROVE  ProbesTyped'
  <2> DEFINE new == [mates |-> probe.mates, to |-> rest, at |-> at]
  <2>1. new \in Probe /\ NamesOwnPair(c, new.at)
    BY <1>2 DEF Aimed, Probe
  <2>2. probing' = Put(probing, c, new)
    BY <1>2 DEF Aimed
  <2> HIDE DEF new
  <2>3. /\ DOMAIN probing' = DOMAIN probing \cup {c} /\ IsDict(probing')
        /\ \A d \in DOMAIN probing' : probing'[d] = IF d = c THEN new ELSE probing[d]
    BY <2>2 DEF Put, IsDict
  <2>4. \A d \in DOMAIN probing' : probing'[d] \in Probe /\ NamesOwnPair(d, probing'[d].at)
    BY <2>1, <2>3 DEF ProbesTyped, ProbeNamesOwnPair, NamesOwnPair
  <2>5. QED
    BY <2>3, <2>4 DEF ProbesTyped, ProbeNamesOwnPair, NamesOwnPair, IsDict
<1>3. QED
  BY <1>1, <1>2, GoEnds

\* A relay that is up turns the wait for it into a send.
LEMMA RelayedTyped ==
  ASSUME ProbesTyped, NEW c \in DOMAIN probing,
         probing' = [probing EXCEPT ![c].at.for = "send"]
  PROVE  /\ ProbesTyped'
         /\ probing'[c].at.key = probing[c].at.key
<1> DEFINE a == probing[c].at
           new == [probing[c] EXCEPT !.at = [a EXCEPT !.for = "send"]]
<1>1. probing[c] \in Probe /\ a \in Await
  BY DEF ProbesTyped, Probe
<1>2. /\ [a EXCEPT !.for = "send"] \in Await
      /\ [a EXCEPT !.for = "send"].target = a.target
      /\ [a EXCEPT !.for = "send"].key = a.key
  BY <1>1 DEF Await
<1>3. /\ new \in Probe /\ new.to = probing[c].to
      /\ new.at.target = a.target /\ new.at.key = a.key
  BY <1>1, <1>2 DEF Probe
<1>4. probing' = [probing EXCEPT ![c] = new]
  OBVIOUS
<1> HIDE DEF new
<1>5. QED
  BY <1>3, <1>4 DEF ProbesTyped, ProbeNamesOwnPair

\* A request starts with what its caller may reach, in players it shares a
\* room with.
LEMMA RequestTyped ==
  ASSUME LobbyTypeInv, NEW c \in Conn, NEW list \in Seq(Conn)
  PROVE  [mates |-> Mates(PidOf[c]), to |-> list,
          at |-> [for |-> "send", target |-> c, key |-> Direct]] \in Probe
<1>1. Direct \in R!RelayKey
  BY DEF Direct, R!RelayKey
<1>2. [for |-> "send", target |-> c, key |-> Direct] \in Await
  BY <1>1 DEF Await
<1>3. QED
  BY <1>2, TablesRead DEF Probe

\* A turn at a shout leaves the others alone, and nobody to be reached twice.
LEMMA ShoutTyped ==
  ASSUME ShoutsTyped, NEW c \in Conn, NEW Q \in SUBSET Pid, ShoutOn(c, Q)
  PROVE  ShoutsTyped'
<1>1. CASE shouting' = Without(shouting, {c})
  <2>1. /\ DOMAIN shouting' = DOMAIN shouting \ {c} /\ IsDict(shouting')
        /\ \A d \in DOMAIN shouting' : shouting'[d] = shouting[d]
    BY <1>1 DEF Without, Restrict, IsDict
  <2>2. QED
    BY <2>1 DEF ShoutsTyped, IsDict
<1>2. ASSUME NEW S \in SUBSET Pid, S # {}, shouting' = Put(shouting, c, S)
      PROVE  ShoutsTyped'
  <2>1. /\ DOMAIN shouting' = DOMAIN shouting \cup {c} /\ IsDict(shouting')
        /\ \A d \in DOMAIN shouting' : shouting'[d] = IF d = c THEN S ELSE shouting[d]
    BY <1>2 DEF Put, IsDict
  <2>2. \A d \in DOMAIN shouting' : shouting'[d] \in (SUBSET Pid) \ {{}}
    BY <1>2, <2>1 DEF ShoutsTyped
  <2>3. QED
    BY <2>1, <2>2 DEF ShoutsTyped, IsDict
<1>3. ASSUME NEW q \in Q \cap Live, NEW gone \in SUBSET (Q \ Live), Q # gone \cup {q},
             shouting' = Put(shouting, c, Q \ (gone \cup {q}))
      PROVE  ShoutsTyped'
  <2>1. Q \ (gone \cup {q}) \in SUBSET Pid /\ Q \ (gone \cup {q}) # {}
    BY <1>3
  <2>2. QED
    BY <1>2, <1>3, <2>1
<1>4. QED
  BY <1>1, <1>2, <1>3 DEF ShoutOn

\* Every step keeps the types.
LEMMA ForwardingInvStep ==
  ASSUME IsFiniteSet(Pid), ForwardingInv, [ForwardingNext]_allVars
  PROVE  ForwardingInv'
<1>1. CASE [Next]_vars /\ UNCHANGED <<probing, shouting>>
  BY <1>1, LobbyTypeStep DEF ForwardingInv, ProbesTyped, ProbeNamesOwnPair, ShoutsTyped
<1>2. ASSUME NEW c \in Conn, HandlerStep(c)
      PROVE  ForwardingInv'
  <2>1. /\ UNCHANGED <<connVars, sessions, nextRoomGid, allocating, hallVars>>
        /\ R!TypeOK /\ H!HallTypeOK
    BY <1>2, HandlersOnlyRead DEF ForwardingInv, LobbyTypeInv, TypeOK
  <2>2. ASSUME relays' \subseteq R!RelayKey
        PROVE  LobbyTypeInv'
    <3>1. R!TypeOK'
      BY <2>1, <2>2 DEF R!TypeOK
    <3>2. H!HallTypeOK'
      BY <2>1 DEF H!HallTypeOK, hallVars
    <3>3. OwnConnections'
      BY <2>1 DEF ForwardingInv, LobbyTypeInv, OwnConnections, connVars
    <3>4. QED
      BY <3>1, <3>2, <3>3 DEF LobbyTypeInv, TypeOK, OwnConnections
  <2>3. relays \subseteq R!RelayKey
    BY <2>1 DEF R!TypeOK
  <2>4. ASSUME NEW list \in Seq(Conn), RequestProbeInitiationExt(c, list)
        PROVE  relays' = relays /\ ProbesTyped' /\ ShoutsTyped'
    BY <2>4, RequestTyped, GoTyped
       DEF RequestProbeInitiationExt, ForwardingInv, lobbyVars, roomVars, ShoutsTyped
  <2>5. ASSUME ProbeSent(c)
        PROVE  relays' = relays /\ ProbesTyped' /\ ShoutsTyped'
    <3>1. probing[c] \in Probe
      BY <2>5 DEF ProbeSent, ForwardingInv, ProbesTyped
    <3>2. QED
      BY <2>5, <3>1, GoTyped DEF ProbeSent, ForwardingInv, lobbyVars, roomVars, ShoutsTyped
  <2>6. ASSUME ProbeRelayed(c)
        PROVE  relays' \subseteq R!RelayKey /\ ProbesTyped' /\ ShoutsTyped'
    <3>1. c \in DOMAIN probing /\ probing[c] \in Probe /\ probing[c].at.key \in R!RelayKey
      BY <2>6 DEF ProbeRelayed, ForwardingInv, ProbesTyped, Probe, Await
    <3>2. ShoutsTyped'
      BY <2>6 DEF ProbeRelayed, ForwardingInv, ShoutsTyped
    <3>3. CASE /\ probing' = [probing EXCEPT ![c].at.for = "send"]
               /\ relays' = relays \cup {probing[c].at.key}
      BY <2>3, <3>1, <3>2, <3>3, RelayedTyped DEF ForwardingInv
    <3>4. CASE Go(c, probing[c]) /\ relays' = relays
      BY <2>3, <3>1, <3>2, <3>4, GoTyped DEF ForwardingInv
    <3>5. QED
      BY <2>6, <3>3, <3>4 DEF ProbeRelayed
  <2>7. ASSUME DeliverMessage(c) \/ Shouted(c)
        PROVE  relays' = relays /\ ProbesTyped' /\ ShoutsTyped'
    <3>1. relays' = relays /\ probing' = probing
      BY <2>7 DEF DeliverMessage, Shouted, lobbyVars, roomVars
    <3>2. PICK Q \in SUBSET Pid : ShoutOn(c, Q)
      <4>1. ShoutTargets(PidOf[c]) \in SUBSET Pid
        <5>1. PidOf[c] \in Pid
          BY LobbyAssumption
        <5>2. QED
          BY <5>1, TablesRead DEF ShoutTargets, OrEveryone, ForwardingInv
      <4>2. c \in DOMAIN shouting => shouting[c] \in SUBSET Pid
        BY DEF ForwardingInv, ShoutsTyped
      <4>3. QED
        BY <2>7, <4>1, <4>2 DEF DeliverMessage, Shouted
    <3>3. ShoutsTyped'
      BY <3>2, ShoutTyped DEF ForwardingInv
    <3>4. QED
      BY <3>1, <3>3 DEF ForwardingInv, ProbesTyped, ProbeNamesOwnPair
  <2>8. relays' \subseteq R!RelayKey /\ ProbesTyped' /\ ShoutsTyped'
    BY <1>2, <2>3, <2>4, <2>5, <2>6, <2>7 DEF HandlerStep
  <2>9. QED
    BY <2>2, <2>8 DEF ForwardingInv
<1>3. QED
  BY <1>1, <1>2, ForwardingStepIs

\* The server starts with nothing to forward.
LEMMA ForwardingInvInit ==
  ASSUME H!Seeded \subseteq Nat, ForwardingInit
  PROVE  ForwardingInv
BY LobbyTypeInit DEF ForwardingInit, ForwardingInv, ProbesTyped, ProbeNamesOwnPair, ShoutsTyped, NoEntries

\* What the requests in hand hold, whatever becomes of the players and rooms
\* they were taken from: players and connections there are, relays of rooms.  And
\* a probe names no relay but that of its caller and of the player it goes to,
\* whichever targets of its list were passed over, reached or given up before
\* (request_probe_initiation_ext).
THEOREM ForwardingTypes ==
  ASSUME IsFiniteSet(Pid), H!Seeded \subseteq Nat
  PROVE  ForwardingSpec => [](ForwardingTypeOK /\ ProbeNamesOwnPair)
<1>1. ForwardingInv /\ [ForwardingNext]_allVars => ForwardingInv'
  BY ForwardingInvStep
<1>2. ForwardingInit => ForwardingInv
  BY ForwardingInvInit
<1>3. ForwardingInv => ForwardingTypeOK /\ ProbeNamesOwnPair
  BY DEF ForwardingInv, LobbyTypeInv, ProbesTyped, ShoutsTyped, ForwardingTypeOK
<1>4. QED
  BY <1>1, <1>2, <1>3, PTL DEF ForwardingSpec

-----------------------------------------------------------------------------
(* Probes.                                                                 *)

\* What a step promises of the probe connection c sends in it.
NamesOpenRelay(c) ==
  LET at == probing'[c].at
  IN  /\ at.for = "send" /\ at.key # Direct
      /\ c \notin DOMAIN probing \/ probing[c] # probing'[c]
      => at.key \in relays'

\* A turn at a probe sends it direct or by a relay that is open.
LEMMA GoNamesOpenRelay ==
  ASSUME LobbyTypeInv, NEW c \in Conn, NEW probe \in Probe, Go(c, probe), relays' = relays
  PROVE  \A d \in DOMAIN probing' : NamesOpenRelay(d)
<1>1. CASE probing' = Without(probing, {c})
  <2>1. \A d \in DOMAIN probing' : d \in DOMAIN probing /\ probing'[d] = probing[d]
    BY <1>1 DEF Without, Restrict
  <2>2. QED
    BY <2>1 DEF NamesOpenRelay
<1>2. ASSUME NEW rest, NEW at, Aimed(c, probe.mates, rest, at)
      PROVE  \A d \in DOMAIN probing' : NamesOpenRelay(d)
  <2>1. /\ \A d \in DOMAIN probing' \ {c} : d \in DOMAIN probing /\ probing'[d] = probing[d]
        /\ probing'[c].at = at
    BY <1>2 DEF Aimed, Put
  <2>2. at.for = "send" => at.key = Direct \/ at.key \in relays'
    BY <1>2 DEF Aimed
  <2>3. QED
    BY <2>1, <2>2 DEF NamesOpenRelay
<1>3. QED
  BY <1>1, <1>2, GoEnds

\* So does every step.
LEMMA StepNamesOpenRelay ==
  ASSUME ForwardingInv, [ForwardingNext]_allVars
  PROVE  \A d \in DOMAIN probing' : NamesOpenRelay(d)
<1>1. CASE probing' = probing
  BY <1>1 DEF NamesOpenRelay
<1>2. ASSUME NEW c \in Conn, NEW list \in Seq(Conn), RequestProbeInitiationExt(c, list)
      PROVE  \A d \in DOMAIN probing' : NamesOpenRelay(d)
  BY <1>2, RequestTyped, GoNamesOpenRelay
     DEF RequestProbeInitiationExt, ForwardingInv, lobbyVars, roomVars
<1>3. ASSUME NEW c \in Conn, ProbeSent(c)
      PROVE  \A d \in DOMAIN probing' : NamesOpenRelay(d)
  <2>1. probing[c] \in Probe
    BY <1>3 DEF ProbeSent, ForwardingInv, ProbesTyped
  <2>2. QED
    BY <1>3, <2>1, GoNamesOpenRelay DEF ProbeSent, ForwardingInv, lobbyVars, roomVars
<1>4. ASSUME NEW c \in Conn, ProbeRelayed(c)
      PROVE  \A d \in DOMAIN probing' : NamesOpenRelay(d)
  <2>1. c \in DOMAIN probing /\ probing[c] \in Probe
    BY <1>4 DEF ProbeRelayed, ForwardingInv, ProbesTyped
  <2>2. CASE /\ probing' = [probing EXCEPT ![c].at.for = "send"]
             /\ relays' = relays \cup {probing[c].at.key}
    <3>1. probing'[c].at.key \in relays'
      <4>1. probing'[c].at.key = probing[c].at.key
        BY <2>1, <2>2, RelayedTyped DEF ForwardingInv
      <4>2. QED
        BY <2>2, <4>1
    <3>2. \A d \in DOMAIN probing' \ {c} : d \in DOMAIN probing /\ probing'[d] = probing[d]
      BY <2>2
    <3>3. QED
      BY <3>1, <3>2 DEF NamesOpenRelay
  <2>3. CASE Go(c, probing[c]) /\ relays' = relays
    BY <2>1, <2>3, GoNamesOpenRelay DEF ForwardingInv
  <2>4. QED
    BY <1>4, <2>2, <2>3 DEF ProbeRelayed
<1>5. QED
  BY <1>1, <1>2, <1>3, <1>4, ForwardingStepIs DEF HandlerStep, DeliverMessage, Shouted

\* A probe that names a relay names an open one, whatever closed while the
\* relay was being made (request_probe_initiation_ext, get_or_create).
THEOREM ProbesNameOpenRelays ==
  ASSUME IsFiniteSet(Pid), H!Seeded \subseteq Nat
  PROVE  ForwardingSpec => ProbeNamesOpenRelay
<1> DEFINE A == \A c \in DOMAIN probing' :
                  LET at == probing'[c].at
                  IN  /\ at.for = "send" /\ at.key # Direct
                      /\ c \notin DOMAIN probing \/ probing[c] # probing'[c]
                      => at.key \in relays'
<1>1. ForwardingInv /\ [ForwardingNext]_allVars => ForwardingInv'
  BY ForwardingInvStep
<1>2. ForwardingInit => ForwardingInv
  BY ForwardingInvInit
<1>3. ForwardingInv /\ [ForwardingNext]_allVars => [A]_allVars
  BY StepNamesOpenRelay DEF NamesOpenRelay
<1> HIDE DEF A
<1>4. ForwardingSpec => [][A]_allVars
  BY <1>1, <1>2, <1>3, PTL DEF ForwardingSpec
<1>5. QED
  BY <1>4, PTL DEF ProbeNamesOpenRelay, A

-----------------------------------------------------------------------------
(* The relays the probes ask for.                                          *)

\* What connection c's own probe waits for, and what all other requests do.
Awaited(c) ==
  IF c \in DOMAIN probing /\ probing[c].at.for = "relay" THEN {probing[c].at.key} ELSE {}

AwaitedByOthers(c) ==
  allocating \cup {probing[d].at.key :
                     d \in {e \in DOMAIN probing \ {c} : probing[e].at.for = "relay"}}

LEMMA WaitingSplit ==
  ASSUME NEW c
  PROVE  /\ Waiting = AwaitedByOthers(c) \cup Awaited(c)
         /\ Waiting' = AwaitedByOthers(c)' \cup Awaited(c)'
BY DEF Waiting, AwaitedByOthers, Awaited

\* What the steps of the lobby do to the relays, the probes waiting meanwhile.
LEMMA LobbyKeysStep ==
  ASSUME IsFiniteSet(Pid), RoomCaps, nextRoomGid \in Nat, [Next]_vars, UNCHANGED probing
  PROVE  Keys!Next
<1> DEFINE others == {probing[d].at.key :
                        d \in {e \in DOMAIN probing : probing[e].at.for = "relay"}}
<1>1. Waiting = allocating \cup others /\ Waiting' = allocating' \cup others
  BY DEF Waiting
<1> HIDE DEF others
<1>2. RP!KeysMove
  <2>1. RP!IsFiniteSet(Pid)
    BY DEF IsFiniteSet, RP!IsFiniteSet
  <2>2. [RP!Next]_(RP!vars)
    BY RoomStep, SameRooms
  <2>3. QED
    BY <2>1, <2>2, RP!KeysStep DEF RoomCaps
<1>3. R!Closed = RP!Closed /\ R!Closed' = RP!Closed'
  BY DEF R!Closed, RP!Closed, R!FirstGid, RP!FirstGid
<1>4. CASE RP!Keys!Close
  BY <1>1, <1>3, <1>4 DEF RP!Keys!Close, Keys!Next, Keys!Close
<1>5. ASSUME NEW k, RP!Keys!Ask(k)
      PROVE  Keys!Next
  <2>1. Keys!Ask(k) /\ k \in Waiting'
    BY <1>1, <1>3, <1>5 DEF RP!Keys!Ask, RP!Keys!Wanted, Keys!Ask, Keys!Wanted
  <2>2. QED
    BY <2>1 DEF Keys!Next
<1>6. ASSUME NEW k \in allocating, allocating' \in {allocating \ {k}, allocating},
             relays' \in {relays, relays \cup {k}}, UNCHANGED RP!Closed
      PROVE  Keys!Next
  <2>1. k \in Waiting /\ Waiting' \in {Waiting, Waiting \ {k}}
    BY <1>1, <1>6
  <2>2. QED
    BY <1>3, <1>6, <2>1 DEF Keys!Next, Keys!Answer
<1>7. QED
  BY <1>2, <1>4, <1>5, <1>6 DEF RP!KeysMove

\* A turn at a probe ends waiting for nothing, or for a relay that is wanted.
LEMMA GoAwaits ==
  ASSUME LobbyTypeInv, NEW c \in Conn, NEW probe \in Probe, Go(c, probe), UNCHANGED allocating
  PROVE  /\ AwaitedByOthers(c)' = AwaitedByOthers(c)
         /\ \/ Awaited(c)' = {}
            \/ \E k : k \notin relays /\ k.gid \in DOMAIN sessions /\ Awaited(c)' = {k}
<1>1. CASE probing' = Without(probing, {c})
  <2>1. /\ DOMAIN probing' = DOMAIN probing \ {c}
        /\ \A d \in DOMAIN probing \ {c} : probing'[d] = probing[d]
    BY <1>1 DEF Without, Restrict
  <2>2. QED
    BY <2>1 DEF AwaitedByOthers, Awaited
<1>2. ASSUME NEW rest, NEW at, Aimed(c, probe.mates, rest, at)
      PROVE  /\ AwaitedByOthers(c)' = AwaitedByOthers(c)
             /\ \/ Awaited(c)' = {}
                \/ at.key \notin relays /\ at.key.gid \in DOMAIN sessions /\ Awaited(c)' = {at.key}
  <2>1. /\ DOMAIN probing' = DOMAIN probing \cup {c}
        /\ \A d \in DOMAIN probing \ {c} : probing'[d] = probing[d]
        /\ probing'[c].at = at
    BY <1>2 DEF Aimed, Put
  <2>2. AwaitedByOthers(c)' = AwaitedByOthers(c)
    BY <2>1 DEF AwaitedByOthers
  <2>3. Awaited(c)' = IF at.for = "relay" THEN {at.key} ELSE {}
    BY <2>1 DEF Awaited
  <2>4. QED
    BY <1>2, <2>2, <2>3 DEF Aimed
<1>3. QED
  BY <1>1, <1>2, GoEnds

\* So it asks for one, or answers the request it was, or neither.
LEMMA GoKeys ==
  ASSUME LobbyTypeInv, NEW c \in Conn, NEW probe \in Probe, Go(c, probe),
         UNCHANGED <<sessions, nextRoomGid, allocating, relays>>
  PROVE  [Keys!Next]_(Keys!vars)
<1>1. UNCHANGED R!Closed
  BY DEF R!Closed
<1>2. /\ Waiting = AwaitedByOthers(c) \cup Awaited(c)
      /\ Waiting' = AwaitedByOthers(c) \cup Awaited(c)'
  BY WaitingSplit, GoAwaits
<1>3. \A k : k.gid \in DOMAIN sessions /\ k \notin relays => Keys!Wanted(k)
  BY DEF Keys!Wanted, R!Closed
<1>4. Awaited(c)' = {} \/ \E k : Keys!Wanted(k) /\ Awaited(c)' = {k}
  BY <1>3, GoAwaits
<1>5. CASE Awaited(c) = {}
  <2>1. CASE Awaited(c)' = {}
    BY <1>1, <1>2, <1>5, <2>1 DEF Keys!vars
  <2>2. ASSUME NEW k, Keys!Wanted(k), Awaited(c)' = {k}
        PROVE  Keys!Next
    <3>1. k \in Waiting' /\ Keys!Ask(k)
      BY <1>1, <1>2, <1>5, <2>2 DEF Keys!Ask
    <3>2. QED
      BY <3>1 DEF Keys!Next
  <2>3. QED
    BY <1>4, <2>1, <2>2
<1>6. ASSUME NEW own, Awaited(c) = {own}
      PROVE  Keys!Next
  <2>1. own \in Waiting /\ AwaitedByOthers(c) \in {Waiting, Waiting \ {own}}
    BY <1>2, <1>6
  <2>2. \/ Waiting' = AwaitedByOthers(c)
        \/ \E next \in Waiting' : Keys!Wanted(next) /\ Waiting' = AwaitedByOthers(c) \cup {next}
    BY <1>2, <1>4
  <2>3. Keys!Answer(own)
    BY <1>1, <2>1, <2>2 DEF Keys!Answer
  <2>4. QED
    BY <2>1, <2>3 DEF Keys!Next
<1>7. QED
  BY <1>5, <1>6 DEF Awaited

\* A relay that is up answers the probe that waited for it.
LEMMA RelayedKeys ==
  ASSUME ProbesTyped, NEW c \in DOMAIN probing, probing[c].at.for = "relay",
         UNCHANGED <<sessions, nextRoomGid, allocating>>,
         probing' = [probing EXCEPT ![c].at.for = "send"],
         relays' = relays \cup {probing[c].at.key}
  PROVE  Keys!Next
<1> DEFINE own == probing[c].at.key
<1>1. /\ DOMAIN probing' = DOMAIN probing
      /\ \A d \in DOMAIN probing \ {c} : probing'[d] = probing[d]
      /\ probing'[c].at.for = "send"
  BY DEF ProbesTyped, Probe, Await
<1>2. AwaitedByOthers(c)' = AwaitedByOthers(c) /\ Awaited(c)' = {} /\ Awaited(c) = {own}
  BY <1>1 DEF AwaitedByOthers, Awaited
<1>3. Waiting = AwaitedByOthers(c) \cup {own} /\ Waiting' = AwaitedByOthers(c)
  BY <1>2, WaitingSplit
<1>4. UNCHANGED R!Closed
  BY DEF R!Closed
<1>5. own \in Waiting /\ Keys!Answer(own)
  BY <1>3, <1>4 DEF Keys!Answer
<1>6. QED
  BY <1>5 DEF Keys!Next

\* What every step does to the relays.
LEMMA ForwardingKeysStep ==
  ASSUME IsFiniteSet(Pid), RoomCaps, ForwardingInv, [ForwardingNext]_allVars
  PROVE  [Keys!Next]_(Keys!vars)
<1>1. ASSUME NEW c \in Conn, NEW list \in Seq(Conn), RequestProbeInitiationExt(c, list)
      PROVE  [Keys!Next]_(Keys!vars)
  BY <1>1, RequestTyped, GoKeys DEF RequestProbeInitiationExt, ForwardingInv, lobbyVars, roomVars
<1>2. ASSUME NEW c \in Conn, ProbeSent(c)
      PROVE  [Keys!Next]_(Keys!vars)
  <2>1. probing[c] \in Probe
    BY <1>2 DEF ProbeSent, ForwardingInv, ProbesTyped
  <2>2. QED
    BY <1>2, <2>1, GoKeys DEF ProbeSent, ForwardingInv, lobbyVars, roomVars
<1>3. ASSUME NEW c \in Conn, ProbeRelayed(c)
      PROVE  [Keys!Next]_(Keys!vars)
  <2>1. /\ c \in DOMAIN probing /\ probing[c] \in Probe /\ probing[c].at.for = "relay"
        /\ UNCHANGED <<sessions, nextRoomGid, allocating>>
    BY <1>3 DEF ProbeRelayed, ForwardingInv, ProbesTyped
  <2>2. CASE /\ probing' = [probing EXCEPT ![c].at.for = "send"]
             /\ relays' = relays \cup {probing[c].at.key}
    BY <2>1, <2>2, RelayedKeys DEF ForwardingInv
  <2>3. CASE Go(c, probing[c]) /\ relays' = relays
    BY <2>1, <2>3, GoKeys DEF ForwardingInv
  <2>4. QED
    BY <1>3, <2>2, <2>3 DEF ProbeRelayed
<1>4. ASSUME NEW c \in Conn, DeliverMessage(c) \/ Shouted(c)
      PROVE  [Keys!Next]_(Keys!vars)
  BY <1>4 DEF DeliverMessage, Shouted, lobbyVars, roomVars, Keys!vars, Waiting, R!Closed
<1>5. CASE [Next]_vars /\ UNCHANGED <<probing, shouting>>
  BY <1>5, LobbyKeysStep DEF ForwardingInv, LobbyTypeInv, TypeOK, R!TypeOK
<1>6. QED
  BY <1>1, <1>2, <1>3, <1>4, <1>5, ForwardingStepIs DEF HandlerStep

\* With probes asking for relays beside the rooms' own requests, while rooms
\* close and players go, the relays still obey the specification of their table
\* (_get_or_create).
THEOREM ForwardingImplementsRelayKeys ==
  ASSUME IsFiniteSet(Pid), RoomCaps, H!Seeded \subseteq Nat
  PROVE  ForwardingSpec => ImplementsRelayKeys
<1>1. ForwardingInit => Keys!Init
  BY DEF ForwardingInit, Init, R!Init, Keys!Init, Waiting, NoEntries, R!Closed, R!FirstGid, R!NoEntries
<1>2. ForwardingInit => ForwardingInv
  BY ForwardingInvInit
<1>3. ForwardingInv /\ [ForwardingNext]_allVars => ForwardingInv'
  BY ForwardingInvStep
<1>4. ForwardingInv /\ [ForwardingNext]_allVars => [Keys!Next]_(Keys!vars)
  BY ForwardingKeysStep
<1>5. QED
  BY <1>1, <1>2, <1>3, <1>4, PTL DEF ForwardingSpec, ImplementsRelayKeys, Keys!Spec
=============================================================================
