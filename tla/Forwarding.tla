----------------------------- MODULE Forwarding -----------------------------
(***************************************************************************)
(* What one player's game sends through the server to other players:       *)
(* probes (NATTraversalServer.request_probe_initiation_ext, protocols.py)  *)
(* that make a peer open its NAT, and shouts                               *)
(* (MessageDeliveryServer.handle_deliver_message).  Both handlers choose   *)
(* players from the tables of Lobby, then forward to one after another and *)
(* await each send; a probe may also await the relay it is to name.  The   *)
(* players connect, move and vanish meanwhile, as Lobby says.              *)
(*                                                                         *)
(* A connection stands for its RVCID: Connections shows that CID_TO_PID    *)
(* resolves the RVCID of a current connection only, to its player.  The    *)
(* relays are those of Rooms, and what a probe tells the relay policy is in*)
(* RelayPolicy.                                                            *)
(***************************************************************************)
EXTENDS Lobby, Sequences

CONSTANTS
  ProbesMode,   \* config.RELAY_PROBES_MODE
  Forced,       \* config.RELAY_MODE = "force", or "auto" whatever it learned
  Fallback,     \* limits.SHOUT_BROADCAST_FALLBACK
  Targets,      \* bound of the model: the most targets a probe request lists
  Handlers      \* bound of the model: the most handlers forwarding at a time

ASSUME ForwardingAssumption ==
  /\ ProbesMode \in {"all", "host", "off"}
  /\ Forced \in BOOLEAN /\ Fallback \in BOOLEAN /\ Targets \in Nat /\ Handlers \in Nat

VARIABLES
  probing,    \* the probe request each connection is served, if any
  shouting    \* the shout each connection is served: whom it has still to reach

lobbyVars == <<connVars, roomVars, hallVars>>
allVars == <<vars, probing, shouting>>

\* What a handler awaits: a send of the probe, direct or by a relay, or a relay
Direct == [gid |-> 0, pair |-> {}]

Await == [for : {"send", "relay"}, target : Conn, key : R!RelayKey]

\* The list is the game's: it may name a target twice.
Probe == [mates : SUBSET Pid, to : Seq(Conn), at : Await]

ForwardingTypeOK ==
  /\ TypeOK
  /\ probing \in [DOMAIN probing -> Probe] /\ DOMAIN probing \subseteq Conn
  /\ shouting \in [DOMAIN shouting -> (SUBSET Pid) \ {{}}] /\ DOMAIN shouting \subseteq Conn

ForwardingInit == Init /\ probing = NoEntries /\ shouting = NoEntries

-----------------------------------------------------------------------------
(* Probes.                                                                 *)

\* Everyone in a room with p, p included
Mates(p) == UNION {sessions[g].participants : g \in R!Joined(p)}

\* A target the loop passes over: its RVCID resolves to no player, or to one
\* that shared no room with the caller; a caller in no room may reach anyone.
Passed(probe, c) ==
  ~P!Current(c) \/ (probe.mates # {} /\ PidOf[c] \notin probe.mates)

\* _room_pair: the first room of both, in the order the rooms were opened
Shared(p, q) == R!Joined(p) \cap R!Joined(q)
RoomPair(p, q) ==
  [gid |-> CHOOSE g \in Shared(p, q) : \A h \in Shared(p, q) : g <= h, pair |-> {p, q}]

\* The relay is wanted for the probes of this pair (MH3U_RELAY_PROBES)
Eligible(p, q) ==
  /\ p # q /\ Shared(p, q) # {}
  /\ \/ ProbesMode = "all"
     \/ ProbesMode = "host" /\ sessions[RoomPair(p, q).gid].host \in {p, q}

\* Or may be passed over: no port is left for the relay the target needs, and
\* the exception ends its iteration, not the loop.
PassedOver(p, probe, c) ==
  Passed(probe, c) \/ (Eligible(p, PidOf[c]) /\ RoomPair(p, PidOf[c]) \notin relays)

Aiming(probe, rest, way, c, key) ==
  [probe EXCEPT !.to = rest, !.at = [for |-> way, target |-> c, key |-> key]]

\* A slip of the loop: probe_for_target is set once, before it, so that a probe
\* that goes direct still names the relay of the target before
SendingCarriedOver(probe, rest, c, key) ==
  Aiming(probe, rest, "send", c, IF key = Direct THEN probe.at.key ELSE key)

\* The probe goes out: to the connection looked up when its turn came
Sending(probe, rest, c, key) == Aiming(probe, rest, "send", c, key)

\* Probe `probe` of connection c runs to its next await, down its list
Go(c, probe) ==
  LET p == PidOf[c]
      to == probe.to
  IN  \/ /\ \A i \in DOMAIN to : PassedOver(p, probe, to[i])
         /\ probing' = Without(probing, {c})
      \/ \E i \in DOMAIN to :
           LET q == PidOf[to[i]]
               rest == SubSeq(to, i + 1, Len(to))
           IN  /\ \A j \in 1 .. (i - 1) : PassedOver(p, probe, to[j])
               /\ ~Passed(probe, to[i])
               /\ \/ /\ ~(Forced /\ Eligible(p, q))
                     /\ probing' = Put(probing, c, Sending(probe, rest, to[i], Direct))
                  \/ /\ Eligible(p, q) /\ RoomPair(p, q) \in relays
                     /\ probing' = Put(probing, c, Sending(probe, rest, to[i], RoomPair(p, q)))
                  \/ /\ Eligible(p, q) /\ RoomPair(p, q) \notin relays
                     /\ probing' = Put(probing, c, Aiming(probe, rest, "relay", to[i], RoomPair(p, q)))

Admitted == Cardinality(DOMAIN probing) + Cardinality(DOMAIN shouting) < Handlers

\* A request that lists the connections the game was told of, some of them long
\* gone, some twice; one request at a time for each connection.
RequestProbeInitiationExt(c, list) ==
  /\ c \in registered \ silent /\ c \notin DOMAIN probing /\ Admitted
  /\ Go(c, [mates |-> Mates(PidOf[c]), to |-> list,
            at |-> [for |-> "send", target |-> c, key |-> Direct]])
  /\ UNCHANGED <<lobbyVars, shouting>>

\* A send is done, or failed: on with the rest
ProbeSent(c) ==
  /\ c \in DOMAIN probing /\ probing[c].at.for = "send"
  /\ Go(c, probing[c])
  /\ UNCHANGED <<lobbyVars, shouting>>

\* A slip of _get_or_create: the relay of a room that has closed is not kept
ProbeRelayedUnkept(c) ==
  /\ c \in DOMAIN probing /\ probing[c].at.for = "relay"
  /\ LET at == probing[c].at
     IN  /\ probing' = [probing EXCEPT ![c].at.for = "send"]
         /\ relays' = IF at.key.gid \in DOMAIN sessions THEN relays \cup {at.key} ELSE relays
  /\ UNCHANGED <<connVars, sessions, nextRoomGid, allocating, hallVars, shouting>>

\* The relay is up, or another request has made it: the probe goes out, naming
\* it, in the same step.  Or there is no port, and the target is given up.
ProbeRelayed(c) ==
  /\ c \in DOMAIN probing /\ probing[c].at.for = "relay"
  /\ LET key == probing[c].at.key
     IN  \/ /\ probing' = [probing EXCEPT ![c].at.for = "send"]
            /\ relays' = relays \cup {key}
         \/ /\ key \notin relays
            /\ Go(c, probing[c])
            /\ UNCHANGED relays
  /\ UNCHANGED <<connVars, sessions, nextRoomGid, allocating, hallVars, shouting>>

-----------------------------------------------------------------------------
(* Shouts.                                                                 *)

Live == DOMAIN clients

InRoom == UNION {sessions[g].participants : g \in DOMAIN sessions}

InHall(p) == UNION {communities[g].participants : g \in H!JoinedHalls(p)}

OrEveryone(p, Q) ==
  IF Q # {} THEN Q ELSE IF Fallback THEN Live ELSE {p} \cap Live

\* A slip: the room and the hall together, so that the hall hears the room
ShoutTargetsUnion(p) == OrEveryone(p, (Mates(p) \cup (InHall(p) \ InRoom)) \cap Live)

\* _shout_targets: the sender's room, or else the part of its hall that is in no
\* room, of those who are connected; failing that, everyone.
ShoutTargets(p) ==
  OrEveryone(p, (IF Mates(p) # {} THEN Mates(p) ELSE InHall(p) \ InRoom) \cap Live)

\* The next of Q to be reached: those without a connection are passed over
ShoutOn(c, Q) ==
  \/ /\ Q \cap Live = {}
     /\ shouting' = Without(shouting, {c})
  \/ \E q \in Q \cap Live, gone \in SUBSET (Q \ Live) :
       shouting' = IF Q = gone \cup {q} THEN Without(shouting, {c})
                   ELSE Put(shouting, c, Q \ (gone \cup {q}))

\* DeliverMessage; the game sends no other before it has the reply.  A shout
\* over the rate is answered and not forwarded, which changes nothing here.
DeliverMessage(c) ==
  /\ c \in registered \ silent /\ c \notin DOMAIN shouting /\ Admitted
  /\ ShoutOn(c, ShoutTargets(PidOf[c]))
  /\ UNCHANGED <<lobbyVars, probing>>

Shouted(c) ==
  /\ c \in DOMAIN shouting
  /\ ShoutOn(c, shouting[c])
  /\ UNCHANGED <<lobbyVars, probing>>

ForwardingNext ==
  \/ Next /\ UNCHANGED <<probing, shouting>>
  \/ \E c \in Conn :
       \/ \E n \in 1 .. Targets : \E list \in [1 .. n -> Conn] : RequestProbeInitiationExt(c, list)
       \/ ProbeSent(c) \/ ProbeRelayed(c)
       \/ DeliverMessage(c) \/ Shouted(c)

ForwardingSpec == ForwardingInit /\ [][ForwardingNext]_allVars

\* The keys that requests wait for: those of the rooms and those of probes
Waiting ==
  allocating \cup {probing[c].at.key : c \in {d \in DOMAIN probing : probing[d].at.for = "relay"}}

Keys == INSTANCE RelayKeys WITH waiting <- Waiting, gone <- R!Closed

-----------------------------------------------------------------------------
(* What the handlers promise.                                              *)

\* Of the targets as they are chosen (who moves before the shout reaches them is
\* still reached): whoever may shout hears the echo that frees their game's
\* send-gate, and a shout crosses no room's wall, in or out: "room chat leaked"
\* once, when room and hall were taken together (_shout_targets).  Only a player in no
\* gathering at all is heard by everyone, although any shout without a target
\* would be: those who gather must be online.
ShoutsStayTogether ==
  \A c \in registered \ silent :
    LET p == PidOf[c]
    IN  /\ p \in ShoutTargets(p)
        /\ \A q \in ShoutTargets(p) \ {p} :
             \/ Shared(p, q) # {}
             \/ {p, q} \cap InRoom = {} /\ H!JoinedHalls(p) \cap H!JoinedHalls(q) # {}
             \/ R!Joined(p) = {} /\ H!JoinedHalls(p) = {}

\* A probe that names a relay, or waits for one, names that of its caller and of
\* the player it goes to: no iteration of the loop leaves its station to a later
\* one, whichever of them were suspended, went direct or failed.
ProbeNamesOwnPair ==
  \A c \in DOMAIN probing :
    LET at == probing[c].at
    IN  at.key # Direct => at.key.pair = {PidOf[c], PidOf[at.target]}

\* A probe that names a relay names one that is open when the probe goes out,
\* whatever closed while the relay was being made: a probe sent to a port that
\* nothing forwards would end the attempt that it was to make possible.
ProbeNamesOpenRelay ==
  [][\A c \in DOMAIN probing' :
       LET at == probing'[c].at
       IN  /\ at.for = "send" /\ at.key # Direct
           /\ c \notin DOMAIN probing \/ probing[c] # probing'[c]
           => at.key \in relays']_allVars

\* Probes ask for relays across rooms that close, beside get_session_urls: the
\* relays still obey the specification of their table.
ImplementsRelayKeys == Keys!Spec
=============================================================================
