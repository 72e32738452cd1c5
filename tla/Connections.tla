---------------------------- MODULE Connections -----------------------------
(***************************************************************************)
(* SecureConnectionServer.register and logout (protocols.py) with the      *)
(* connection caps of limits.py: the tables that say which connection a    *)
(* player is reached on, and the two counts that admit new ones.           *)
(*                                                                         *)
(* register has no await, and logout has changed all of this state before  *)
(* its first one, so each is one step.  What logout does to the rooms and  *)
(* the halls afterwards is in Lobby.                                       *)
(***************************************************************************)
EXTENDS Naturals, FiniteSets, Dict

CONSTANTS
  Pid,
  Conn,             \* connections that may come to exist
  PidOf,            \* _pid(client): the player a connection is logged in as
  IpOf,             \* limits.remote_ip(client)
  Exempt,           \* addresses limits.is_loopback accepts
  MaxConnections,   \* limits.MAX_CONNECTIONS
  MaxPerIp,         \* limits.MAX_CONNECTIONS_PER_IP
  MaxCid            \* bound of the model: the last cid ever issued

FirstCid == 4096    \* 0x1000

ASSUME ConnAssumption == IsFiniteSet(Conn) /\ PidOf \in [Conn -> Pid]
ASSUME LimitAssumption == /\ MaxConnections \in Nat
                          /\ MaxPerIp \in Nat
                          /\ MaxCid \in Nat

VARIABLES
  open,      \* connections the transport has up
  clients,   \* CLIENTS: pid -> its current connection
  stations,  \* STATIONS: pid -> the RVCID its station URL is stamped with
  cidToPid,  \* CID_TO_PID
  nextCid,   \* _next_cid
  cidOf,     \* client._mh3u_cid, absent until the connection registers
  counted,   \* connections whose _mh3u_ip_counted is set
  ipConns,   \* limits._ip_conns: ip -> live connections counted against it
  refused    \* connections whose last register raised MaxConnectionsReached

tables == <<clients, stations, cidToPid, nextCid, cidOf, counted, ipConns>>
vars == <<open, tables, refused>>

Cid == {n \in Nat : n > FirstCid}

TypeOK ==
  /\ open \subseteq Conn
  /\ clients \in [DOMAIN clients -> Conn] /\ DOMAIN clients \subseteq Pid
  /\ stations \in [DOMAIN stations -> Cid]
  /\ cidToPid \in [DOMAIN cidToPid -> Pid]
  /\ nextCid \in Nat
  /\ cidOf \in [DOMAIN cidOf -> Cid] /\ DOMAIN cidOf \subseteq Conn
  /\ counted \subseteq Conn
  /\ ipConns \in [DOMAIN ipConns -> Nat]
  /\ refused \subseteq Conn

Init ==
  /\ open = {} /\ counted = {} /\ refused = {}
  /\ clients = NoEntries /\ stations = NoEntries /\ cidToPid = NoEntries
  /\ cidOf = NoEntries /\ ipConns = NoEntries
  /\ nextCid = FirstCid

-----------------------------------------------------------------------------
(* limits.py                                                               *)

IpCount(ip) == IF ip \in DOMAIN ipConns THEN ipConns[ip] ELSE 0

\* global_connection_ok, for a connection of player p
GlobalConnectionOk(p) ==
  p \in DOMAIN clients \/ Cardinality(DOMAIN clients) < MaxConnections

IpCanConnect(ip) == ip \in Exempt \/ IpCount(ip) < MaxPerIp

IpAdd(ip) == IF ip \in Exempt THEN ipConns ELSE Put(ipConns, ip, IpCount(ip) + 1)

\* A count that reaches zero leaves the dict
IpRemove(ip) ==
  IF ip \in Exempt THEN ipConns
  ELSE IF IpCount(ip) <= 1 THEN Without(ipConns, {ip})
  ELSE Put(ipConns, ip, IpCount(ip) - 1)

-----------------------------------------------------------------------------
(* The connections.                                                        *)

\* CLIENTS.get(pid) is client
Current(c) == PidOf[c] \in DOMAIN clients /\ clients[PidOf[c]] = c

\* The cid a connection carries while CID_TO_PID maps it to its player: what
\* both register (of a newer connection) and logout retire
OwnCid(c) ==
  {cid \in DOMAIN cidToPid :
     c \in DOMAIN cidOf /\ cidOf[c] = cid /\ cidToPid[cid] = PidOf[c]}

Admits(c) == GlobalConnectionOk(PidOf[c]) /\ IpCanConnect(IpOf[c])

\* The transport accepts a connection; a Conn that closed stands for a new one.
Open(c) ==
  /\ c \notin open
  /\ open' = open \cup {c}
  /\ cidOf' = Without(cidOf, {c})
  /\ refused' = refused \ {c}
  /\ UNCHANGED <<clients, stations, cidToPid, nextCid, counted, ipConns>>

\* register raises MaxConnectionsReached; the connection stays up and may retry
RegisterRefused(c) ==
  /\ c \in open
  /\ ~Admits(c)
  /\ refused' = refused \cup {c}
  /\ UNCHANGED <<open, tables>>

\* The pid-keyed entries register publishes, whatever was there before
Publish(c, cid, retired) ==
  /\ nextCid' = cid
  /\ cidOf' = Put(cidOf, c, cid)
  /\ clients' = Put(clients, PidOf[c], c)
  /\ stations' = Put(stations, PidOf[c], cid)
  /\ cidToPid' = Put(Without(cidToPid, retired), cid, PidOf[c])
  /\ refused' = refused \ {c}
  /\ UNCHANGED open

CountIp(c) ==
  /\ counted' = counted \cup {c}
  /\ ipConns' = IF c \in counted THEN ipConns ELSE IpAdd(IpOf[c])

\* What register retires: the cid of the connection it replaces
Superseded(c) ==
  UNION {OwnCid(prev) : prev \in {d \in Conn \ {c} : PidOf[d] = PidOf[c] /\ Current(d)}}

\* Slips of register: the replaced connection's cid kept; the address counted
\* on every register; the global cap off by one.
RegisterKeepingOldCid(c) ==
  /\ c \in open /\ Admits(c) /\ nextCid < MaxCid
  /\ CountIp(c)
  /\ Publish(c, nextCid + 1, {})

RegisterCountingTwice(c) ==
  /\ c \in open /\ Admits(c) /\ nextCid < MaxCid
  /\ counted' = counted \cup {c}
  /\ ipConns' = IpAdd(IpOf[c])
  /\ Publish(c, nextCid + 1, Superseded(c))

RegisterOverCap(c) ==
  /\ c \in open /\ IpCanConnect(IpOf[c]) /\ nextCid < MaxCid
  /\ PidOf[c] \in DOMAIN clients \/ Cardinality(DOMAIN clients) <= MaxConnections
  /\ CountIp(c)
  /\ Publish(c, nextCid + 1, Superseded(c))

\* register / register_ex, accepted: last writer wins
Register(c) ==
  /\ c \in open
  /\ Admits(c)
  /\ nextCid < MaxCid
  /\ CountIp(c)
  /\ Publish(c, nextCid + 1, Superseded(c))

ReleaseIp(c) ==
  /\ counted' = counted \ {c}
  /\ ipConns' = IF c \in counted THEN IpRemove(IpOf[c]) ELSE ipConns

\* Slips of logout: every cid of the player retired, not the connection's own;
\* the pid-keyed teardown whichever connection closes.
LogoutRetiringAllCids(c) ==
  /\ c \in open
  /\ open' = open \ {c}
  /\ ReleaseIp(c)
  /\ cidToPid' = Without(cidToPid, {n \in DOMAIN cidToPid : cidToPid[n] = PidOf[c]})
  /\ LET own == {p \in {PidOf[c]} : Current(c)}
     IN  clients' = Without(clients, own) /\ stations' = Without(stations, own)
  /\ UNCHANGED <<nextCid, cidOf, refused>>

LogoutClobbering(c) ==
  /\ c \in open
  /\ open' = open \ {c}
  /\ ReleaseIp(c)
  /\ cidToPid' = Without(cidToPid, OwnCid(c))
  /\ clients' = Without(clients, {PidOf[c]})
  /\ stations' = Without(stations, {PidOf[c]})
  /\ UNCHANGED <<nextCid, cidOf, refused>>

\* logout, run once by the cleanup of a connection that ends: a further run
\* would find neither its count, its cid nor its entry, and change nothing
Logout(c) ==
  /\ c \in open
  /\ open' = open \ {c}
  /\ ReleaseIp(c)
  /\ cidToPid' = Without(cidToPid, OwnCid(c))
  /\ LET own == {p \in {PidOf[c]} : Current(c)}
     IN  clients' = Without(clients, own) /\ stations' = Without(stations, own)
  /\ UNCHANGED <<nextCid, cidOf, refused>>

Next == \E c \in Conn : Open(c) \/ Register(c) \/ RegisterRefused(c) \/ Logout(c)

Spec == Init /\ [][Next]_vars

-----------------------------------------------------------------------------
(* What the server promises.                                               *)

\* The three tables a hole punch walks agree: a player's station carries the
\* cid of the very connection the server would push to, that connection is up
\* and is theirs, and the cid leads back to the player.  register and logout
\* of two connections of one player write these tables in any order.
StationReachable ==
  /\ DOMAIN stations = DOMAIN clients
  /\ \A p \in DOMAIN clients :
       LET c == clients[p]
       IN  /\ c \in open /\ PidOf[c] = p
           /\ c \in DOMAIN cidOf /\ cidOf[c] = stations[p]
           /\ stations[p] \in DOMAIN cidToPid /\ cidToPid[stations[p]] = p

\* Only the current connection of a player can be found by the cid it carries:
\* a replaced or closed one has had its own cid retired.
OnlyCurrentCidsResolve ==
  \A c \in DOMAIN cidOf : cidOf[c] \in DOMAIN cidToPid => Current(c)

\* A cid handed out once never comes to name another player: a probe that
\* arrives late with an old RVCID is dropped, not misdirected.
CidNeverReassigned ==
  [][\A cid \in DOMAIN cidToPid' :
        IF cid \in DOMAIN cidToPid THEN cidToPid'[cid] = cidToPid[cid]
                                   ELSE cid > nextCid /\ cid <= nextCid']_vars

\* _ip_conns is exactly the number of up, registered connections of an address,
\* across re-registers, reconnects and stale logouts: no slot is lost or freed
\* twice; and it never passes the cap.
IpAccounting ==
  /\ counted = {c \in open : c \in DOMAIN cidOf}
  /\ \A ip \in DOMAIN ipConns : ipConns[ip] \in 1 .. MaxPerIp
  /\ \A c \in Conn : IpOf[c] \notin Exempt =>
        IpCount(IpOf[c]) = Cardinality({d \in counted : IpOf[d] = IpOf[c]})

\* MAX_CONNECTIONS bounds the players online although reconnects bypass it.
GlobalCapHolds == Cardinality(DOMAIN clients) <= MaxConnections

\* "A reconnect (pid already present) is never blocked" (the comment of
\* register): a new connection of a player who is online is not refused.
ReconnectNeverBlocked ==
  [][\A c \in Conn : RegisterRefused(c) /\ c \notin DOMAIN cidOf
                        => PidOf[c] \notin DOMAIN clients]_vars

\* The tables implement Presence: who is current is decided by nothing else.
PresenceOf == INSTANCE Presence
ImplementsPresence == PresenceOf!Spec
=============================================================================
