------------------------- MODULE ConnectionsProofs --------------------------
(***************************************************************************)
(* Theorems about Connections, for every set of connections and players    *)
(* and every cap.                                                          *)
(*                                                                         *)
(* StationReachable and OnlyCurrentCidsResolve are not inductive alone.    *)
(* That the close of one connection cannot retire the cid another carries  *)
(* needs that no two connections carry the same cid; that needs that every *)
(* cid in use was issued, so that the next one is fresh; and that logout   *)
(* does retire its own cid needs that the cid leads to its own player.     *)
(***************************************************************************)
EXTENDS Connections, FiniteSetTheorems, TLAPS

CidsIssued ==
  /\ nextCid >= FirstCid
  /\ \A cid \in DOMAIN cidToPid : cid \in Cid /\ cid <= nextCid
  /\ \A c \in DOMAIN cidOf : cidOf[c] <= nextCid

CidsDistinct == \A c, d \in DOMAIN cidOf : cidOf[c] = cidOf[d] => c = d

CidsOwn ==
  \A c \in DOMAIN cidOf : cidOf[c] \in DOMAIN cidToPid => cidToPid[cidOf[c]] = PidOf[c]

ConnInv ==
  /\ TypeOK
  /\ CidsIssued
  /\ CidsDistinct
  /\ CidsOwn
  /\ StationReachable
  /\ OnlyCurrentCidsResolve

-----------------------------------------------------------------------------
(* Dicts.                                                                  *)

\* What d[k] = v leaves in a dict.
LEMMA PutFacts ==
  ASSUME NEW d, NEW k, NEW v
  PROVE  /\ DOMAIN Put(d, k, v) = DOMAIN d \cup {k}
         /\ Put(d, k, v)[k] = v
         /\ \A x \in DOMAIN d \ {k} : Put(d, k, v)[x] = d[x]
BY DEF Put

\* What popping the keys of S leaves in a dict.
LEMMA WithoutFacts ==
  ASSUME NEW d, NEW S
  PROVE  /\ DOMAIN Without(d, S) = DOMAIN d \ S
         /\ \A x \in DOMAIN d \ S : Without(d, S)[x] = d[x]
BY DEF Without, Restrict

\* Popping keys keeps a dict typed.
LEMMA WithoutType ==
  ASSUME NEW T, NEW d, d \in [DOMAIN d -> T], NEW S
  PROVE  Without(d, S) \in [DOMAIN d \ S -> T]
BY DEF Without, Restrict

-----------------------------------------------------------------------------
(* The address counts never disturb the rest.                              *)

\* ip_add and ip_remove keep _ip_conns a dict of numbers.
LEMMA IpCounts ==
  ASSUME ipConns \in [DOMAIN ipConns -> Nat], NEW ip
  PROVE  /\ IpAdd(ip) \in [DOMAIN IpAdd(ip) -> Nat]
         /\ IpRemove(ip) \in [DOMAIN IpRemove(ip) -> Nat]
<1>1. IpCount(ip) \in Nat
  BY DEF IpCount
<1>2. IpAdd(ip) \in [DOMAIN IpAdd(ip) -> Nat]
  <2> DEFINE n == IpCount(ip) + 1
  <2>1. n \in Nat
    BY <1>1
  <2> HIDE DEF n
  <2>2. Put(ipConns, ip, n) \in [DOMAIN Put(ipConns, ip, n) -> Nat]
    BY <2>1 DEF Put
  <2>3. QED
    BY <2>2 DEF IpAdd, n
<1>3. IpRemove(ip) \in [DOMAIN IpRemove(ip) -> Nat]
  <2>1. Without(ipConns, {ip}) \in [DOMAIN Without(ipConns, {ip}) -> Nat]
    BY WithoutFacts, WithoutType
  <2>2. ASSUME ~(IpCount(ip) <= 1)
        PROVE  Put(ipConns, ip, IpCount(ip) - 1)
                 \in [DOMAIN Put(ipConns, ip, IpCount(ip) - 1) -> Nat]
    <3> DEFINE n == IpCount(ip) - 1
    <3>1. n \in Nat
      BY <1>1, <2>2
    <3> HIDE DEF n
    <3>2. Put(ipConns, ip, n) \in [DOMAIN Put(ipConns, ip, n) -> Nat]
      BY <3>1 DEF Put
    <3>3. QED
      BY <3>2 DEF n
  <2>3. QED
    BY <2>1, <2>2 DEF IpRemove
<1>4. QED
  BY <1>2, <1>3

-----------------------------------------------------------------------------
(* register.                                                               *)

\* register retires the cid of every other connection of the player that can
\* still be found, and no other connection's.
LEMMA SupersededCids ==
  ASSUME ConnInv, NEW c \in Conn
  PROVE  /\ Superseded(c) \subseteq DOMAIN cidToPid
         /\ \A d \in DOMAIN cidOf \ {c} :
              PidOf[d] = PidOf[c] /\ cidOf[d] \in DOMAIN cidToPid
                => cidOf[d] \in Superseded(c)
         /\ \A d \in DOMAIN cidOf :
              PidOf[d] # PidOf[c] => cidOf[d] \notin Superseded(c)
<1>1. ASSUME NEW d \in DOMAIN cidOf \ {c},
             PidOf[d] = PidOf[c], cidOf[d] \in DOMAIN cidToPid
      PROVE  cidOf[d] \in Superseded(c)
  <2>1. d \in Conn /\ Current(d)
    BY <1>1 DEF ConnInv, TypeOK, OnlyCurrentCidsResolve
  <2>2. cidOf[d] \in OwnCid(d)
    BY <1>1 DEF OwnCid, ConnInv, CidsOwn
  <2>3. QED
    BY <1>1, <2>1, <2>2 DEF Superseded
<1>2. ASSUME NEW d \in DOMAIN cidOf, PidOf[d] # PidOf[c]
      PROVE  cidOf[d] \notin Superseded(c)
  <2>1. ASSUME NEW prev \in Conn, PidOf[prev] = PidOf[c], cidOf[d] \in OwnCid(prev)
        PROVE  FALSE
    <3>1. prev \in DOMAIN cidOf /\ cidOf[prev] = cidOf[d]
      BY <2>1 DEF OwnCid
    <3>2. prev = d
      BY <1>2, <3>1 DEF ConnInv, CidsDistinct
    <3>3. QED
      BY <1>2, <2>1, <3>2
  <2>2. QED
    BY <2>1 DEF Superseded
<1>3. Superseded(c) \subseteq DOMAIN cidToPid
  BY DEF Superseded, OwnCid
<1>4. QED
  BY <1>1, <1>2, <1>3

\* The tables after an accepted register, entry by entry.
LEMMA RegisterTables ==
  ASSUME ConnInv, NEW c \in Conn, Register(c)
  PROVE  /\ nextCid' = nextCid + 1 /\ nextCid' \in Cid
         /\ DOMAIN cidOf' = DOMAIN cidOf \cup {c}
         /\ cidOf'[c] = nextCid'
         /\ \A d \in DOMAIN cidOf \ {c} : cidOf'[d] = cidOf[d]
         /\ DOMAIN clients' = DOMAIN clients \cup {PidOf[c]}
         /\ clients'[PidOf[c]] = c
         /\ \A q \in DOMAIN clients \ {PidOf[c]} : clients'[q] = clients[q]
         /\ DOMAIN stations' = DOMAIN stations \cup {PidOf[c]}
         /\ stations'[PidOf[c]] = nextCid'
         /\ \A q \in DOMAIN stations \ {PidOf[c]} : stations'[q] = stations[q]
         /\ DOMAIN cidToPid' = (DOMAIN cidToPid \ Superseded(c)) \cup {nextCid'}
         /\ cidToPid'[nextCid'] = PidOf[c]
         /\ \A n \in DOMAIN cidToPid \ Superseded(c) : cidToPid'[n] = cidToPid[n]
         /\ TypeOK'
<1> DEFINE n == nextCid + 1
           p == PidOf[c]
           kept == Without(cidToPid, Superseded(c))
<1>1. nextCid \in Nat /\ nextCid >= FirstCid /\ n \in Cid /\ p \in Pid
  BY ConnAssumption DEF ConnInv, TypeOK, CidsIssued, Cid, FirstCid
<1>2. \A cid \in DOMAIN cidToPid : cid # n
  BY <1>1 DEF ConnInv, CidsIssued, Cid
<1>3. /\ nextCid' = n
      /\ cidOf' = Put(cidOf, c, n)
      /\ clients' = Put(clients, p, c)
      /\ stations' = Put(stations, p, n)
      /\ cidToPid' = Put(kept, n, p)
      /\ open' = open
      /\ refused' = refused \ {c}
      /\ counted' = counted \cup {c}
      /\ ipConns' = ipConns \/ ipConns' = IpAdd(IpOf[c])
  BY DEF Register, Publish, CountIp
<1>4. DOMAIN kept = DOMAIN cidToPid \ Superseded(c)
  BY WithoutFacts
<1>5. \A x \in DOMAIN cidToPid \ Superseded(c) : kept[x] = cidToPid[x]
  BY WithoutFacts
<1>6. kept \in [DOMAIN kept -> Pid]
  BY <1>4, WithoutType DEF ConnInv, TypeOK
<1>7. /\ cidOf \in [DOMAIN cidOf -> Cid] /\ clients \in [DOMAIN clients -> Conn]
      /\ stations \in [DOMAIN stations -> Cid]
      /\ DOMAIN cidOf \subseteq Conn /\ DOMAIN clients \subseteq Pid
      /\ open \subseteq Conn /\ counted \subseteq Conn /\ refused \subseteq Conn
  BY DEF ConnInv, TypeOK
<1>8. ipConns' \in [DOMAIN ipConns' -> Nat]
  BY <1>3, IpCounts DEF ConnInv, TypeOK
<1> HIDE DEF n, p, kept
<1>9. /\ DOMAIN cidOf' = DOMAIN cidOf \cup {c} /\ cidOf'[c] = n
      /\ \A d \in DOMAIN cidOf \ {c} : cidOf'[d] = cidOf[d]
      /\ cidOf' \in [DOMAIN cidOf \cup {c} -> Cid]
  BY <1>1, <1>3, <1>7 DEF Put
<1>10. /\ DOMAIN clients' = DOMAIN clients \cup {p} /\ clients'[p] = c
       /\ \A q \in DOMAIN clients \ {p} : clients'[q] = clients[q]
       /\ clients' \in [DOMAIN clients \cup {p} -> Conn]
  BY <1>3, <1>7 DEF Put
<1>11. /\ DOMAIN stations' = DOMAIN stations \cup {p} /\ stations'[p] = n
       /\ \A q \in DOMAIN stations \ {p} : stations'[q] = stations[q]
       /\ stations' \in [DOMAIN stations \cup {p} -> Cid]
  BY <1>1, <1>3, <1>7 DEF Put
<1>12. /\ DOMAIN cidToPid' = DOMAIN kept \cup {n} /\ cidToPid'[n] = p
       /\ \A x \in DOMAIN kept \ {n} : cidToPid'[x] = kept[x]
       /\ cidToPid' \in [DOMAIN kept \cup {n} -> Pid]
  BY <1>1, <1>3, <1>6 DEF Put
<1>13. \A x \in DOMAIN cidToPid \ Superseded(c) : cidToPid'[x] = cidToPid[x]
  BY <1>2, <1>4, <1>5, <1>12
<1>14. nextCid' \in Nat
  BY <1>1, <1>3 DEF n
<1>15. TypeOK'
  BY <1>1, <1>3, <1>7, <1>8, <1>9, <1>10, <1>11, <1>12, <1>14 DEF TypeOK
<1>16. nextCid' = nextCid + 1
  BY <1>3 DEF n
<1>17. QED
  BY <1>1, <1>3, <1>4, <1>9, <1>10, <1>11, <1>12, <1>13, <1>15, <1>16 DEF p

\* Last writer wins, and the invariant survives it.
LEMMA RegisterStep ==
  ASSUME ConnInv, NEW c \in Conn, Register(c)
  PROVE  ConnInv'
<1> DEFINE n == nextCid'
           p == PidOf[c]
<1>1. /\ n = nextCid + 1 /\ n \in Cid
      /\ DOMAIN cidOf' = DOMAIN cidOf \cup {c}
      /\ cidOf'[c] = n
      /\ \A d \in DOMAIN cidOf \ {c} : cidOf'[d] = cidOf[d]
      /\ DOMAIN clients' = DOMAIN clients \cup {p}
      /\ clients'[p] = c
      /\ \A q \in DOMAIN clients \ {p} : clients'[q] = clients[q]
      /\ DOMAIN stations' = DOMAIN stations \cup {p}
      /\ stations'[p] = n
      /\ \A q \in DOMAIN stations \ {p} : stations'[q] = stations[q]
      /\ DOMAIN cidToPid' = (DOMAIN cidToPid \ Superseded(c)) \cup {n}
      /\ cidToPid'[n] = p
      /\ \A x \in DOMAIN cidToPid \ Superseded(c) : cidToPid'[x] = cidToPid[x]
      /\ TypeOK'
  BY RegisterTables
<1>2. /\ \A d \in DOMAIN cidOf \ {c} :
           PidOf[d] = p /\ cidOf[d] \in DOMAIN cidToPid => cidOf[d] \in Superseded(c)
      /\ \A d \in DOMAIN cidOf : PidOf[d] # p => cidOf[d] \notin Superseded(c)
  BY SupersededCids
<1>3. /\ nextCid \in Nat /\ nextCid >= FirstCid
      /\ \A cid \in DOMAIN cidToPid : cid \in Nat /\ cid <= nextCid
      /\ \A d \in DOMAIN cidOf : cidOf[d] \in Nat /\ cidOf[d] <= nextCid
  BY DEF ConnInv, TypeOK, CidsIssued, Cid
<1>4. c \in open /\ open' = open
  BY DEF Register, Publish
<1>5. /\ \A cid \in DOMAIN cidToPid : cid # n
      /\ \A d \in DOMAIN cidOf : cidOf[d] # n
  BY <1>1, <1>3
<1>6. CidsIssued'
  <2>1. n >= FirstCid /\ FirstCid' = FirstCid
    BY <1>1, <1>3 DEF FirstCid
  <2>2. \A cid \in DOMAIN cidToPid' : cid \in Cid /\ cid <= n
    BY <1>1, <1>3 DEF ConnInv, CidsIssued
  <2>3. \A d \in DOMAIN cidOf' : cidOf'[d] <= n
    <3>1. ASSUME NEW d \in DOMAIN cidOf \ {c} PROVE cidOf'[d] <= n
      BY <1>1, <1>3
    <3>2. n <= n
      BY <1>1, <1>3
    <3>3. QED
      BY <1>1, <3>1, <3>2
  <2>4. QED
    BY <2>1, <2>2, <2>3 DEF CidsIssued, Cid, FirstCid
<1> HIDE DEF n, p
<1>7. CidsDistinct'
  BY <1>1, <1>5 DEF ConnInv, CidsDistinct
<1>8. CidsOwn'
  <2>1. ASSUME NEW d \in DOMAIN cidOf', cidOf'[d] \in DOMAIN cidToPid'
        PROVE  cidToPid'[cidOf'[d]] = PidOf[d]
    <3>1. CASE d = c
      BY <1>1, <3>1 DEF p
    <3>2. CASE d # c
      <4>1. d \in DOMAIN cidOf /\ cidOf'[d] = cidOf[d] /\ cidOf[d] # n
        BY <1>1, <1>5, <2>1, <3>2
      <4>2. cidOf[d] \in DOMAIN cidToPid \ Superseded(c)
        BY <1>1, <2>1, <4>1
      <4>3. QED
        BY <1>1, <4>1, <4>2 DEF ConnInv, CidsOwn
    <3>3. QED
      BY <3>1, <3>2
  <2>2. QED
    BY <2>1 DEF CidsOwn
<1>9. StationReachable'
  <2>1. DOMAIN stations' = DOMAIN clients'
    BY <1>1 DEF ConnInv, StationReachable
  <2>2. ASSUME NEW q \in DOMAIN clients'
        PROVE  /\ clients'[q] \in open' /\ PidOf[clients'[q]] = q
               /\ clients'[q] \in DOMAIN cidOf' /\ cidOf'[clients'[q]] = stations'[q]
               /\ stations'[q] \in DOMAIN cidToPid' /\ cidToPid'[stations'[q]] = q
    <3>1. CASE q = p
      BY <1>1, <1>4, <3>1 DEF p
    <3>2. CASE q # p
      <4>1. q \in DOMAIN clients /\ clients'[q] = clients[q]
        BY <1>1, <2>2, <3>2
      <4>2. /\ DOMAIN stations = DOMAIN clients
            /\ clients[q] \in open /\ PidOf[clients[q]] = q
            /\ clients[q] \in DOMAIN cidOf /\ cidOf[clients[q]] = stations[q]
            /\ stations[q] \in DOMAIN cidToPid /\ cidToPid[stations[q]] = q
        BY <4>1 DEF ConnInv, StationReachable
      <4>3. clients[q] # c /\ stations'[q] = stations[q]
        BY <1>1, <3>2, <4>1, <4>2 DEF p
      <4>4. cidOf'[clients[q]] = stations[q] /\ clients[q] \in DOMAIN cidOf'
        BY <1>1, <4>2, <4>3
      <4>5. stations[q] \notin Superseded(c)
        BY <1>2, <3>2, <4>2
      <4>6. QED
        BY <1>1, <1>4, <4>1, <4>2, <4>3, <4>4, <4>5
    <3>3. QED
      BY <3>1, <3>2
  <2>3. QED
    BY <2>1, <2>2 DEF StationReachable
<1>10. OnlyCurrentCidsResolve'
  <2>1. ASSUME NEW d \in DOMAIN cidOf', cidOf'[d] \in DOMAIN cidToPid'
        PROVE  PidOf[d] \in DOMAIN clients' /\ clients'[PidOf[d]] = d
    <3>1. CASE d = c
      BY <1>1, <3>1 DEF p
    <3>2. CASE d # c
      <4>1. /\ d \in DOMAIN cidOf \ {c}
            /\ cidOf[d] \in DOMAIN cidToPid \ Superseded(c)
        BY <1>1, <1>5, <2>1, <3>2
      <4>2. PidOf[d] # p
        BY <1>2, <4>1
      <4>3. PidOf[d] \in DOMAIN clients /\ clients[PidOf[d]] = d
        BY <4>1 DEF ConnInv, OnlyCurrentCidsResolve, Current
      <4>4. QED
        BY <1>1, <4>2, <4>3
    <3>3. QED
      BY <3>1, <3>2
  <2>2. QED
    BY <2>1 DEF OnlyCurrentCidsResolve, Current
<1>11. QED
  BY <1>1, <1>6, <1>7, <1>8, <1>9, <1>10 DEF ConnInv

-----------------------------------------------------------------------------
(* logout, and the connections the transport opens.                        *)

\* The tables after a logout, entry by entry.
LEMMA LogoutTables ==
  ASSUME ConnInv, NEW c \in Conn, Logout(c)
  PROVE  /\ open' = open \ {c} /\ nextCid' = nextCid /\ cidOf' = cidOf
         /\ DOMAIN cidToPid' = DOMAIN cidToPid \ OwnCid(c)
         /\ \A x \in DOMAIN cidToPid' : cidToPid'[x] = cidToPid[x]
         /\ DOMAIN clients' = {q \in DOMAIN clients : ~(q = PidOf[c] /\ Current(c))}
         /\ \A q \in DOMAIN clients' : clients'[q] = clients[q]
         /\ DOMAIN stations' = {q \in DOMAIN stations : ~(q = PidOf[c] /\ Current(c))}
         /\ \A q \in DOMAIN stations' : stations'[q] = stations[q]
         /\ TypeOK'
<1> DEFINE own == {p \in {PidOf[c]} : Current(c)}
<1>1. /\ open' = open \ {c} /\ nextCid' = nextCid /\ cidOf' = cidOf
      /\ cidToPid' = Without(cidToPid, OwnCid(c))
      /\ clients' = Without(clients, own)
      /\ stations' = Without(stations, own)
      /\ counted' = counted \ {c}
      /\ refused' = refused
      /\ ipConns' = ipConns \/ ipConns' = IpRemove(IpOf[c])
  BY DEF Logout, ReleaseIp
<1>2. /\ DOMAIN cidToPid' = DOMAIN cidToPid \ OwnCid(c)
      /\ \A x \in DOMAIN cidToPid' : cidToPid'[x] = cidToPid[x]
  BY <1>1 DEF Without, Restrict
<1>3. /\ DOMAIN clients' = DOMAIN clients \ own
      /\ \A q \in DOMAIN clients' : clients'[q] = clients[q]
      /\ DOMAIN stations' = DOMAIN stations \ own
      /\ \A q \in DOMAIN stations' : stations'[q] = stations[q]
  BY <1>1 DEF Without, Restrict
<1>4. ipConns' \in [DOMAIN ipConns' -> Nat]
  BY <1>1, IpCounts DEF ConnInv, TypeOK
<1>5. /\ cidToPid' \in [DOMAIN cidToPid' -> Pid]
      /\ clients' \in [DOMAIN clients' -> Conn]
      /\ stations' \in [DOMAIN stations' -> Cid]
  BY <1>1 DEF ConnInv, TypeOK, Without, Restrict
<1>6. TypeOK'
  BY <1>1, <1>3, <1>4, <1>5 DEF ConnInv, TypeOK
<1>7. QED
  BY <1>1, <1>2, <1>3, <1>6

\* The close of a connection, current or stale, keeps the invariant.
LEMMA LogoutStep ==
  ASSUME ConnInv, NEW c \in Conn, Logout(c)
  PROVE  ConnInv'
<1> DEFINE p == PidOf[c]
<1>1. /\ open' = open \ {c} /\ nextCid' = nextCid /\ cidOf' = cidOf
      /\ DOMAIN cidToPid' = DOMAIN cidToPid \ OwnCid(c)
      /\ \A x \in DOMAIN cidToPid' : cidToPid'[x] = cidToPid[x]
      /\ DOMAIN clients' = {q \in DOMAIN clients : ~(q = p /\ Current(c))}
      /\ \A q \in DOMAIN clients' : clients'[q] = clients[q]
      /\ DOMAIN stations' = {q \in DOMAIN stations : ~(q = p /\ Current(c))}
      /\ \A q \in DOMAIN stations' : stations'[q] = stations[q]
      /\ TypeOK'
  BY LogoutTables
<1>2. \A d \in DOMAIN cidOf \ {c} : cidOf[d] \notin OwnCid(c)
  BY DEF OwnCid, ConnInv, CidsDistinct
<1>3. c \in DOMAIN cidOf /\ cidOf[c] \in DOMAIN cidToPid => cidOf[c] \in OwnCid(c)
  BY DEF OwnCid, ConnInv, CidsOwn
<1>4. CidsIssued' /\ CidsDistinct' /\ CidsOwn'
  BY <1>1 DEF ConnInv, CidsIssued, CidsDistinct, CidsOwn, Cid, FirstCid
<1>5. StationReachable'
  <2>1. DOMAIN stations' = DOMAIN clients'
    BY <1>1 DEF ConnInv, StationReachable
  <2>2. ASSUME NEW q \in DOMAIN clients'
        PROVE  /\ clients'[q] \in open' /\ PidOf[clients'[q]] = q
               /\ clients'[q] \in DOMAIN cidOf' /\ cidOf'[clients'[q]] = stations'[q]
               /\ stations'[q] \in DOMAIN cidToPid' /\ cidToPid'[stations'[q]] = q
    <3>1. /\ q \in DOMAIN clients /\ ~(q = p /\ Current(c))
          /\ clients'[q] = clients[q] /\ stations'[q] = stations[q]
      BY <1>1, <2>1, <2>2
    <3>2. /\ clients[q] \in open /\ PidOf[clients[q]] = q
          /\ clients[q] \in DOMAIN cidOf /\ cidOf[clients[q]] = stations[q]
          /\ stations[q] \in DOMAIN cidToPid /\ cidToPid[stations[q]] = q
      BY <3>1 DEF ConnInv, StationReachable
    <3>3. clients[q] # c
      BY <3>1, <3>2 DEF Current
    <3>4. stations[q] \notin OwnCid(c)
      BY <1>2, <3>2, <3>3
    <3>5. QED
      BY <1>1, <3>1, <3>2, <3>3, <3>4
  <2>3. QED
    BY <2>1, <2>2 DEF StationReachable
<1>6. OnlyCurrentCidsResolve'
  <2>1. ASSUME NEW d \in DOMAIN cidOf, cidOf[d] \in DOMAIN cidToPid'
        PROVE  PidOf[d] \in DOMAIN clients' /\ clients'[PidOf[d]] = d
    <3>1. cidOf[d] \in DOMAIN cidToPid /\ cidOf[d] \notin OwnCid(c)
      BY <1>1, <2>1
    <3>2. d # c
      BY <1>3, <2>1, <3>1
    <3>3. PidOf[d] \in DOMAIN clients /\ clients[PidOf[d]] = d
      BY <2>1, <3>1 DEF ConnInv, OnlyCurrentCidsResolve, Current
    <3>4. QED
      BY <1>1, <3>2, <3>3 DEF Current
  <2>2. QED
    BY <1>1, <2>1 DEF OnlyCurrentCidsResolve, Current
<1>7. QED
  BY <1>1, <1>4, <1>5, <1>6 DEF ConnInv

\* A new connection carries no cid yet and disturbs nobody's.
LEMMA OpenStep ==
  ASSUME ConnInv, NEW c \in Conn, Open(c)
  PROVE  ConnInv'
<1>1. /\ c \notin open /\ open' = open \cup {c}
      /\ cidOf' = Without(cidOf, {c})
      /\ refused' = refused \ {c}
      /\ UNCHANGED <<clients, stations, cidToPid, nextCid, counted, ipConns>>
  BY DEF Open
<1>2. /\ DOMAIN cidOf' = DOMAIN cidOf \ {c}
      /\ \A d \in DOMAIN cidOf' : cidOf'[d] = cidOf[d]
      /\ cidOf' \in [DOMAIN cidOf' -> Cid]
  BY <1>1 DEF ConnInv, TypeOK, Without, Restrict
<1>3. \A q \in DOMAIN clients : clients[q] # c
  BY <1>1 DEF ConnInv, StationReachable
<1>4. TypeOK'
  BY <1>1, <1>2 DEF ConnInv, TypeOK
<1>5. CidsIssued' /\ CidsDistinct' /\ CidsOwn'
  <2>1. CidsIssued'
    <3>1. nextCid >= FirstCid /\ \A cid \in DOMAIN cidToPid : cid \in Cid /\ cid <= nextCid
      BY DEF ConnInv, CidsIssued
    <3>2. \A d \in DOMAIN cidOf' : cidOf'[d] <= nextCid
      BY <1>2 DEF ConnInv, CidsIssued
    <3>3. QED
      BY <1>1, <3>1, <3>2 DEF CidsIssued, Cid, FirstCid
  <2>2. CidsDistinct'
    BY <1>2 DEF ConnInv, CidsDistinct
  <2>3. CidsOwn'
    BY <1>1, <1>2 DEF ConnInv, CidsOwn
  <2>4. QED
    BY <2>1, <2>2, <2>3
<1>6. StationReachable'
  BY <1>1, <1>2, <1>3 DEF ConnInv, StationReachable
<1>7. OnlyCurrentCidsResolve'
  BY <1>1, <1>2 DEF ConnInv, OnlyCurrentCidsResolve, Current
<1>8. QED
  BY <1>4, <1>5, <1>6, <1>7 DEF ConnInv

\* Every step of the server keeps the invariant.
LEMMA ConnInvStep == ConnInv /\ [Next]_vars => ConnInv'
<1> SUFFICES ASSUME ConnInv, [Next]_vars PROVE ConnInv'
  OBVIOUS
<1>1. ASSUME UNCHANGED <<open, tables>>, refused' \subseteq Conn
      PROVE  ConnInv'
  BY <1>1 DEF tables, ConnInv, TypeOK, CidsIssued, CidsDistinct, CidsOwn,
              StationReachable, OnlyCurrentCidsResolve, Current, Cid, FirstCid
<1>2. ASSUME NEW c \in Conn, RegisterRefused(c)
      PROVE  ConnInv'
  BY <1>1, <1>2 DEF RegisterRefused, ConnInv, TypeOK
<1>3. CASE UNCHANGED vars
  BY <1>1, <1>3 DEF vars, ConnInv, TypeOK
<1>4. QED
  BY <1>2, <1>3, RegisterStep, LogoutStep, OpenStep DEF Next

\* The server starts with empty tables.
LEMMA ConnInvInit == Init => ConnInv
BY DEF Init, NoEntries, ConnInv, TypeOK, CidsIssued, CidsDistinct, CidsOwn,
       StationReachable, OnlyCurrentCidsResolve, FirstCid, Cid

\* The inductive invariant holds of every behaviour.
THEOREM ConnectionsInvariant == Spec => []ConnInv
BY ConnInvInit, ConnInvStep, PTL DEF Spec

\* The tables stay well typed whoever registers and closes when.
THEOREM ConnectionTypes == Spec => []TypeOK
BY ConnectionsInvariant, PTL DEF ConnInv

\* The station, the connection and the cid of a player always agree.
THEOREM StationsAlwaysReachable == Spec => []StationReachable
BY ConnectionsInvariant, PTL DEF ConnInv

\* A replaced or closed connection is never found by the cid it carries.
THEOREM OnlyCurrentConnectionsResolve == Spec => []OnlyCurrentCidsResolve
BY ConnectionsInvariant, PTL DEF ConnInv

-----------------------------------------------------------------------------
(* What a step may do: cids are issued once, and the caps.                 *)

\* A cid in CID_TO_PID was there before or is fresh.
LEMMA CidStep ==
  ASSUME ConnInv, [Next]_vars, NEW cid \in DOMAIN cidToPid'
  PROVE  IF cid \in DOMAIN cidToPid THEN cidToPid'[cid] = cidToPid[cid]
                                    ELSE cid > nextCid /\ cid <= nextCid'
<1>1. ASSUME UNCHANGED cidToPid
      PROVE  cidToPid'[cid] = cidToPid[cid] /\ cid \in DOMAIN cidToPid
  BY <1>1
<1>2. ASSUME NEW c \in Conn, Register(c)
      PROVE  IF cid \in DOMAIN cidToPid THEN cidToPid'[cid] = cidToPid[cid]
                                        ELSE cid > nextCid /\ cid <= nextCid'
  <2>1. /\ nextCid' = nextCid + 1
        /\ DOMAIN cidToPid' = (DOMAIN cidToPid \ Superseded(c)) \cup {nextCid'}
        /\ \A n \in DOMAIN cidToPid \ Superseded(c) : cidToPid'[n] = cidToPid[n]
    BY <1>2, RegisterTables
  <2>2. /\ nextCid \in Nat
        /\ \A n \in DOMAIN cidToPid : n \in Nat /\ n <= nextCid
    BY DEF ConnInv, TypeOK, CidsIssued, Cid
  <2>3. CASE cid = nextCid'
    BY <2>1, <2>2, <2>3
  <2>4. CASE cid # nextCid'
    BY <2>1, <2>4
  <2>5. QED
    BY <2>3, <2>4
<1>3. ASSUME NEW c \in Conn, Logout(c)
      PROVE  cidToPid'[cid] = cidToPid[cid] /\ cid \in DOMAIN cidToPid
  BY <1>3, LogoutTables
<1>4. QED
  BY <1>1, <1>2, <1>3 DEF Next, Open, RegisterRefused, tables, vars

\* A late probe with an old RVCID is never taken to another player.
THEOREM CidsNeverReassigned == Spec => CidNeverReassigned
<1> DEFINE A == \A cid \in DOMAIN cidToPid' :
                  IF cid \in DOMAIN cidToPid THEN cidToPid'[cid] = cidToPid[cid]
                                             ELSE cid > nextCid /\ cid <= nextCid'
<1>1. ConnInv /\ [Next]_vars => [A]_vars
  BY CidStep
<1> HIDE DEF A
<1>2. Spec => [][A]_vars
  BY <1>1, ConnectionsInvariant, PTL DEF Spec
<1>3. QED
  BY <1>2 DEF CidNeverReassigned, A

\* Players online are no more than connections, so they can be counted.
LEMMA ClientsFinite ==
  ASSUME ConnInv
  PROVE  IsFiniteSet(DOMAIN clients) /\ Cardinality(DOMAIN clients) \in Nat
<1>1. clients \in Injection(DOMAIN clients, Conn)
  BY DEF ConnInv, TypeOK, StationReachable, Injection, IsInjective
<1>2. QED
  BY <1>1, ConnAssumption, FS_Injection, FS_CardinalityType

\* Only the register of a player who is offline adds one, below the cap.
LEMMA GlobalCapStep ==
  ASSUME ConnInv, GlobalCapHolds, [Next]_vars
  PROVE  GlobalCapHolds'
<1>1. IsFiniteSet(DOMAIN clients) /\ Cardinality(DOMAIN clients) \in Nat
  BY ClientsFinite
<1>2. ASSUME NEW c \in Conn, Register(c)
      PROVE  GlobalCapHolds'
  <2>1. DOMAIN clients' = DOMAIN clients \cup {PidOf[c]}
    BY <1>2, RegisterTables
  <2>2. \/ PidOf[c] \in DOMAIN clients
        \/ Cardinality(DOMAIN clients) < MaxConnections
    BY <1>2 DEF Register, Admits, GlobalConnectionOk
  <2>3. Cardinality(DOMAIN clients \cup {PidOf[c]}) =
          IF PidOf[c] \in DOMAIN clients THEN Cardinality(DOMAIN clients)
                                         ELSE Cardinality(DOMAIN clients) + 1
    BY <1>1, FS_AddElement
  <2>4. QED
    BY <1>1, <2>1, <2>2, <2>3, LimitAssumption DEF GlobalCapHolds
<1>3. ASSUME NEW c \in Conn, Logout(c)
      PROVE  GlobalCapHolds'
  <2>1. DOMAIN clients' \subseteq DOMAIN clients
    BY <1>3, LogoutTables
  <2>2. /\ Cardinality(DOMAIN clients') <= Cardinality(DOMAIN clients)
        /\ Cardinality(DOMAIN clients') \in Nat
    BY <1>1, <2>1, FS_Subset, FS_CardinalityType
  <2>3. QED
    BY <1>1, <2>2, LimitAssumption DEF GlobalCapHolds
<1>4. ASSUME UNCHANGED clients
      PROVE  GlobalCapHolds'
  BY <1>4 DEF GlobalCapHolds
<1>5. QED
  BY <1>2, <1>3, <1>4 DEF Next, Open, RegisterRefused, tables, vars

\* MAX_CONNECTIONS is never exceeded although reconnects are not counted.
THEOREM GlobalCapAlwaysHolds == Spec => []GlobalCapHolds
<1>1. Init => GlobalCapHolds
  <2>1. Cardinality({}) = 0
    BY FS_EmptySet
  <2>2. QED
    BY <2>1, LimitAssumption DEF Init, NoEntries, GlobalCapHolds
<1>2. ConnInv /\ GlobalCapHolds /\ [Next]_vars => GlobalCapHolds'
  BY GlobalCapStep
<1>3. QED
  BY <1>1, <1>2, ConnectionsInvariant, PTL DEF Spec

-----------------------------------------------------------------------------
(* The per-address counts.                                                 *)

\* The registered, open connections of an address.
ConnsOf(ip) == {d \in counted : IpOf[d] = ip}

\* They can be counted.
LEMMA ConnsOfFinite ==
  ASSUME ConnInv, NEW ip
  PROVE  IsFiniteSet(ConnsOf(ip)) /\ Cardinality(ConnsOf(ip)) \in Nat
BY ConnAssumption, FS_Subset, FS_CardinalityType DEF ConnsOf, ConnInv, TypeOK

\* What ip_add and ip_remove do to the count of their own address and of others.
LEMMA CountsAfter ==
  ASSUME ipConns \in [DOMAIN ipConns -> Nat], NEW a, a \notin Exempt
  PROVE  /\ ipConns' = IpAdd(a) =>
              /\ IpCount(a)' = IpCount(a) + 1
              /\ \A b : b # a => IpCount(b)' = IpCount(b)
              /\ DOMAIN ipConns' = DOMAIN ipConns \cup {a}
         /\ ipConns' = IpRemove(a) =>
              /\ IpCount(a)' = (IF IpCount(a) <= 1 THEN 0 ELSE IpCount(a) - 1)
              /\ \A b : b # a => IpCount(b)' = IpCount(b)
              /\ DOMAIN ipConns' \subseteq DOMAIN ipConns \cup {a}
              /\ a \in DOMAIN ipConns' => IpCount(a) > 1
<1>0. IpCount(a) \in Nat
  BY DEF IpCount
<1>1. ASSUME ipConns' = IpAdd(a)
      PROVE  /\ IpCount(a)' = IpCount(a) + 1
             /\ \A b : b # a => IpCount(b)' = IpCount(b)
             /\ DOMAIN ipConns' = DOMAIN ipConns \cup {a}
  <2> DEFINE n == IpCount(a) + 1
  <2>1. ipConns' = Put(ipConns, a, n)
    BY <1>1 DEF IpAdd
  <2> HIDE DEF n
  <2>2. /\ DOMAIN ipConns' = DOMAIN ipConns \cup {a} /\ ipConns'[a] = n
        /\ \A b \in DOMAIN ipConns \ {a} : ipConns'[b] = ipConns[b]
    BY <2>1 DEF Put
  <2>3. IpCount(a)' = n
    BY <2>2 DEF IpCount
  <2>4. ASSUME NEW b, b # a PROVE IpCount(b)' = IpCount(b)
    BY <2>2, <2>4 DEF IpCount
  <2>5. QED
    BY <2>2, <2>3, <2>4 DEF n
<1>2. ASSUME ipConns' = IpRemove(a)
      PROVE  /\ IpCount(a)' = (IF IpCount(a) <= 1 THEN 0 ELSE IpCount(a) - 1)
             /\ \A b : b # a => IpCount(b)' = IpCount(b)
             /\ DOMAIN ipConns' \subseteq DOMAIN ipConns \cup {a}
             /\ a \in DOMAIN ipConns' => IpCount(a) > 1
  <2>1. CASE IpCount(a) <= 1
    <3>1. ipConns' = Without(ipConns, {a})
      BY <1>2, <2>1 DEF IpRemove
    <3>2. /\ DOMAIN ipConns' = DOMAIN ipConns \ {a}
          /\ \A b \in DOMAIN ipConns \ {a} : ipConns'[b] = ipConns[b]
      BY <3>1 DEF Without, Restrict
    <3>3. IpCount(a)' = 0
      BY <3>2 DEF IpCount
    <3>4. ASSUME NEW b, b # a PROVE IpCount(b)' = IpCount(b)
      BY <3>2, <3>4 DEF IpCount
    <3>5. QED
      BY <2>1, <3>2, <3>3, <3>4
  <2>2. CASE ~(IpCount(a) <= 1)
    <3> DEFINE n == IpCount(a) - 1
    <3>1. ipConns' = Put(ipConns, a, n)
      BY <1>2, <2>2 DEF IpRemove
    <3>2. IpCount(a) > 1
      BY <1>0, <2>2
    <3>3. n = IF IpCount(a) <= 1 THEN 0 ELSE IpCount(a) - 1
      BY <2>2
    <3> HIDE DEF n
    <3>4. /\ DOMAIN ipConns' = DOMAIN ipConns \cup {a} /\ ipConns'[a] = n
          /\ \A b \in DOMAIN ipConns \ {a} : ipConns'[b] = ipConns[b]
      BY <3>1 DEF Put
    <3>5. IpCount(a)' = n
      BY <3>4 DEF IpCount
    <3>6. ASSUME NEW b, b # a PROVE IpCount(b)' = IpCount(b)
      BY <3>4, <3>6 DEF IpCount
    <3>7. QED
      BY <3>2, <3>3, <3>4, <3>5, <3>6
  <2>3. QED
    BY <2>1, <2>2
<1>3. QED
  BY <1>1, <1>2

\* An accepted register counts its connection's address once.
LEMMA IpRegister ==
  ASSUME ConnInv, IpAccounting, NEW c \in Conn, Register(c)
  PROVE  IpAccounting'
<1>1. /\ open' = open /\ c \in open
      /\ DOMAIN cidOf' = DOMAIN cidOf \cup {c}
      /\ counted' = counted \cup {c}
      /\ ipConns' = IF c \in counted THEN ipConns ELSE IpAdd(IpOf[c])
      /\ IpCanConnect(IpOf[c])
  BY RegisterTables DEF Register, Publish, CountIp, Admits
<1>2. counted' = {d \in open' : d \in DOMAIN cidOf'}
  BY <1>1 DEF IpAccounting
<1>3. CASE c \in counted \/ IpOf[c] \in Exempt
  <2>1. ipConns' = ipConns
    BY <1>1, <1>3 DEF IpAdd
  <2>2. ASSUME NEW d \in Conn, IpOf[d] \notin Exempt
        PROVE  IpCount(IpOf[d])' = Cardinality({e \in counted' : IpOf[e] = IpOf[d]})
    <3>1. {e \in counted' : IpOf[e] = IpOf[d]} = {e \in counted : IpOf[e] = IpOf[d]}
      BY <1>1, <1>3, <2>2
    <3>2. IpCount(IpOf[d])' = IpCount(IpOf[d])
      BY <2>1 DEF IpCount
    <3>3. QED
      BY <2>2, <3>1, <3>2 DEF IpAccounting
  <2>3. QED
    BY <1>2, <2>1, <2>2 DEF IpAccounting
<1>4. CASE c \notin counted /\ IpOf[c] \notin Exempt
  <2> DEFINE a == IpOf[c]
  <2>1. ipConns' = IpAdd(a) /\ ipConns \in [DOMAIN ipConns -> Nat] /\ a \notin Exempt
    BY <1>1, <1>4 DEF ConnInv, TypeOK
  <2> HIDE DEF a
  <2>2. /\ IpCount(a)' = IpCount(a) + 1
        /\ \A b : b # a => IpCount(b)' = IpCount(b)
        /\ DOMAIN ipConns' = DOMAIN ipConns \cup {a}
    BY <2>1, CountsAfter
  <2>3. IpCount(a) \in Nat /\ IpCount(a) < MaxPerIp
    BY <1>1, <2>1 DEF IpCanConnect, IpCount, a
  <2>4. ASSUME NEW ip \in DOMAIN ipConns'
        PROVE  ipConns'[ip] \in 1 .. MaxPerIp
    <3>1. CASE ip = a
      <4>1. ipConns'[a] = IpCount(a)'
        BY <2>4, <3>1 DEF IpCount
      <4>2. QED
        BY <2>2, <2>3, <3>1, <4>1, LimitAssumption
    <3>2. CASE ip # a
      <4>1. ip \in DOMAIN ipConns /\ IpCount(ip)' = IpCount(ip)
        BY <2>2, <2>4, <3>2
      <4>2. ipConns'[ip] = ipConns[ip]
        BY <2>4, <4>1 DEF IpCount
      <4>3. QED
        BY <4>1, <4>2 DEF IpAccounting
    <3>3. QED
      BY <3>1, <3>2
  <2>5. ASSUME NEW d \in Conn, IpOf[d] \notin Exempt
        PROVE  IpCount(IpOf[d])' = Cardinality({e \in counted' : IpOf[e] = IpOf[d]})
    <3>1. IpCount(IpOf[d]) = Cardinality(ConnsOf(IpOf[d]))
      BY <2>5 DEF IpAccounting, ConnsOf
    <3>2. CASE IpOf[d] = a
      <4>1. {e \in counted' : IpOf[e] = IpOf[d]} = ConnsOf(a) \cup {c}
        BY <1>1, <3>2 DEF ConnsOf, a
      <4>2. IsFiniteSet(ConnsOf(a)) /\ c \notin ConnsOf(a)
        BY <1>4, ConnsOfFinite DEF ConnsOf
      <4>3. Cardinality(ConnsOf(a) \cup {c}) = Cardinality(ConnsOf(a)) + 1
        BY <4>2, FS_AddElement
      <4>4. QED
        BY <2>2, <3>1, <3>2, <4>1, <4>3
    <3>3. CASE IpOf[d] # a
      <4>1. {e \in counted' : IpOf[e] = IpOf[d]} = ConnsOf(IpOf[d])
        BY <1>1, <3>3 DEF ConnsOf, a
      <4>2. QED
        BY <2>2, <3>1, <3>3, <4>1
    <3>4. QED
      BY <3>2, <3>3
  <2>6. QED
    BY <1>2, <2>4, <2>5 DEF IpAccounting
<1>5. QED
  BY <1>3, <1>4

\* A logout gives its slot back, and only its own.
LEMMA IpLogout ==
  ASSUME ConnInv, IpAccounting, NEW c \in Conn, Logout(c)
  PROVE  IpAccounting'
<1>1. /\ open' = open \ {c} /\ cidOf' = cidOf
      /\ counted' = counted \ {c}
      /\ ipConns' = IF c \in counted THEN IpRemove(IpOf[c]) ELSE ipConns
  BY DEF Logout, ReleaseIp
<1>2. counted' = {d \in open' : d \in DOMAIN cidOf'}
  BY <1>1 DEF IpAccounting
<1>3. CASE c \notin counted \/ IpOf[c] \in Exempt
  <2>1. ipConns' = ipConns
    BY <1>1, <1>3 DEF IpRemove
  <2>2. ASSUME NEW d \in Conn, IpOf[d] \notin Exempt
        PROVE  IpCount(IpOf[d])' = Cardinality({e \in counted' : IpOf[e] = IpOf[d]})
    <3>1. {e \in counted' : IpOf[e] = IpOf[d]} = {e \in counted : IpOf[e] = IpOf[d]}
      BY <1>1, <1>3, <2>2
    <3>2. IpCount(IpOf[d])' = IpCount(IpOf[d])
      BY <2>1 DEF IpCount
    <3>3. QED
      BY <2>2, <3>1, <3>2 DEF IpAccounting
  <2>3. QED
    BY <1>2, <2>1, <2>2 DEF IpAccounting
<1>4. CASE c \in counted /\ IpOf[c] \notin Exempt
  <2> DEFINE a == IpOf[c]
  <2>1. ipConns' = IpRemove(a) /\ ipConns \in [DOMAIN ipConns -> Nat] /\ a \notin Exempt
    BY <1>1, <1>4 DEF ConnInv, TypeOK
  <2> HIDE DEF a
  <2>2. /\ IpCount(a)' = (IF IpCount(a) <= 1 THEN 0 ELSE IpCount(a) - 1)
        /\ \A b : b # a => IpCount(b)' = IpCount(b)
        /\ DOMAIN ipConns' \subseteq DOMAIN ipConns \cup {a}
        /\ a \in DOMAIN ipConns' => IpCount(a) > 1
    BY <2>1, CountsAfter
  <2>3. IpCount(a) = Cardinality(ConnsOf(a))
    BY <1>4 DEF IpAccounting, ConnsOf, a
  <2>4. /\ IsFiniteSet(ConnsOf(a)) /\ Cardinality(ConnsOf(a)) \in Nat
        /\ c \in ConnsOf(a)
    BY <1>4, ConnsOfFinite DEF ConnsOf, a
  <2>5. /\ Cardinality(ConnsOf(a) \ {c}) = Cardinality(ConnsOf(a)) - 1
        /\ Cardinality(ConnsOf(a) \ {c}) \in Nat
    BY <2>4, FS_RemoveElement, FS_CardinalityType
  <2>6. IpCount(a)' = Cardinality(ConnsOf(a) \ {c})
    BY <2>2, <2>3, <2>4, <2>5
  <2>7. ASSUME NEW ip \in DOMAIN ipConns'
        PROVE  ipConns'[ip] \in 1 .. MaxPerIp
    <3>1. CASE ip = a
      <4>1. a \in DOMAIN ipConns /\ ipConns[a] = IpCount(a)
        BY <2>2, <2>7, <3>1 DEF IpCount
      <4>2. ipConns[a] \in 1 .. MaxPerIp
        BY <4>1 DEF IpAccounting
      <4>3. ipConns'[a] = IpCount(a)'
        BY <2>7, <3>1 DEF IpCount
      <4>4. QED
        BY <2>2, <2>7, <3>1, <4>1, <4>2, <4>3, LimitAssumption
    <3>2. CASE ip # a
      <4>1. ip \in DOMAIN ipConns /\ IpCount(ip)' = IpCount(ip)
        BY <2>2, <2>7, <3>2
      <4>2. ipConns'[ip] = ipConns[ip]
        BY <2>7, <4>1 DEF IpCount
      <4>3. QED
        BY <4>1, <4>2 DEF IpAccounting
    <3>3. QED
      BY <3>1, <3>2
  <2>8. ASSUME NEW d \in Conn, IpOf[d] \notin Exempt
        PROVE  IpCount(IpOf[d])' = Cardinality({e \in counted' : IpOf[e] = IpOf[d]})
    <3>1. CASE IpOf[d] = a
      <4>1. {e \in counted' : IpOf[e] = IpOf[d]} = ConnsOf(a) \ {c}
        BY <1>1, <3>1 DEF ConnsOf
      <4>2. QED
        BY <2>6, <3>1, <4>1
    <3>2. CASE IpOf[d] # a
      <4>1. {e \in counted' : IpOf[e] = IpOf[d]} = ConnsOf(IpOf[d])
        BY <1>1, <3>2 DEF ConnsOf, a
      <4>2. QED
        BY <2>2, <2>8, <3>2, <4>1 DEF IpAccounting, ConnsOf
    <3>3. QED
      BY <3>1, <3>2
  <2>9. QED
    BY <1>2, <2>7, <2>8 DEF IpAccounting
<1>5. QED
  BY <1>3, <1>4

\* The other steps count nothing.
LEMMA IpStep ==
  ASSUME ConnInv, IpAccounting, [Next]_vars
  PROVE  IpAccounting'
<1>1. ASSUME UNCHANGED <<counted, ipConns>>,
             {d \in open' : d \in DOMAIN cidOf'} = {d \in open : d \in DOMAIN cidOf}
      PROVE  IpAccounting'
  BY <1>1 DEF IpAccounting, IpCount
<1>2. ASSUME NEW c \in Conn, Open(c)
      PROVE  IpAccounting'
  <2>1. DOMAIN cidOf' = DOMAIN cidOf \ {c}
    BY <1>2 DEF Open, Without, Restrict
  <2>2. QED
    BY <1>1, <1>2, <2>1 DEF Open
<1>3. ASSUME UNCHANGED <<open, tables>>
      PROVE  IpAccounting'
  BY <1>1, <1>3 DEF tables
<1>4. QED
  BY <1>2, <1>3, IpRegister, IpLogout DEF Next, RegisterRefused, vars

\* The count of an address is the number of its live registered connections.
THEOREM IpAccountingAlwaysHolds == Spec => []IpAccounting
<1>1. Init => IpAccounting
  <2>1. Cardinality({}) = 0
    BY FS_EmptySet
  <2>2. ASSUME Init PROVE IpAccounting
    <3>1. /\ counted = {} /\ open = {} /\ DOMAIN ipConns = {}
      BY <2>2 DEF Init, NoEntries
    <3>2. \A ip : {d \in counted : IpOf[d] = ip} = {}
      BY <3>1
    <3>3. \A ip : IpCount(ip) = 0
      BY <3>1 DEF IpCount
    <3>4. QED
      BY <2>1, <3>1, <3>2, <3>3 DEF IpAccounting
  <2>3. QED
    BY <2>2
<1>2. ConnInv /\ IpAccounting /\ [Next]_vars => IpAccounting'
  BY IpStep
<1>3. QED
  BY <1>1, <1>2, ConnectionsInvariant, PTL DEF Spec

-----------------------------------------------------------------------------
(* Refinement.                                                             *)

\* A register, a logout and an accepted connection are those of Presence;
\* a refused register changes nothing there.
LEMMA PresenceStep == ConnInv /\ [Next]_vars => [PresenceOf!Next]_(PresenceOf!vars)
<1> SUFFICES ASSUME ConnInv, [Next]_vars PROVE [PresenceOf!Next]_(PresenceOf!vars)
  OBVIOUS
<1>1. ASSUME NEW c \in Conn, Open(c)
      PROVE  PresenceOf!Open(c)
  BY <1>1 DEF Open, PresenceOf!Open
<1>2. ASSUME NEW c \in Conn, Register(c)
      PROVE  PresenceOf!Register(c)
  BY <1>2 DEF Register, Publish, Put, PresenceOf!Register, PresenceOf!Put
<1>3. ASSUME NEW c \in Conn, Logout(c)
      PROVE  PresenceOf!Logout(c)
  <2>1. {p \in {PidOf[c]} : Current(c)} = IF Current(c) THEN {PidOf[c]} ELSE {}
    OBVIOUS
  <2>2. clients' = Without(clients, IF Current(c) THEN {PidOf[c]} ELSE {})
    BY <1>3, <2>1 DEF Logout
  <2>3. Without(clients, {}) = clients
    BY DEF Without, Restrict, ConnInv, TypeOK
  <2>4. PresenceOf!Current(c) <=> Current(c)
    BY DEF PresenceOf!Current, Current
  <2>5. clients' = IF PresenceOf!Current(c) THEN Without(clients, {PidOf[c]}) ELSE clients
    BY <2>2, <2>3, <2>4
  <2>6. \A d, S : PresenceOf!Without(d, S) = Without(d, S)
    BY DEF PresenceOf!Without, PresenceOf!Restrict, Without, Restrict
  <2>7. QED
    BY <1>3, <2>5, <2>6 DEF Logout, PresenceOf!Logout
<1>4. ASSUME UNCHANGED <<open, clients>>
      PROVE  UNCHANGED PresenceOf!vars
  BY <1>4 DEF PresenceOf!vars
<1>5. QED
  BY <1>1, <1>2, <1>3, <1>4 DEF Next, PresenceOf!Next, RegisterRefused, tables, vars

\* The tables of the secure server implement Presence.
THEOREM ConnectionsImplementPresence == Spec => ImplementsPresence
<1>1. Init => PresenceOf!Init
  BY DEF Init, NoEntries, PresenceOf!Init, PresenceOf!NoEntries
<1>2. QED
  BY <1>1, PresenceStep, ConnectionsInvariant, PTL DEF Spec, ImplementsPresence, PresenceOf!Spec
=============================================================================
