----------------------------- MODULE PairRelay ------------------------------
(***************************************************************************)
(* One relay (PairRelay, relay.py): a UDP socket that learns the endpoints *)
(* of the two players from the first datagrams to arrive, keeps what comes *)
(* before both are known, and from then on hands each datagram to the      *)
(* other end.  "A relay port otherwise belongs to the first two endpoints  *)
(* that send to it, with no tie to the NEX session"                        *)
(* (docs/UDP_RELAY_NOTES.md); strict mode narrows them by address.         *)
(*                                                                         *)
(* datagram_received never awaits.  The network may lose, repeat and       *)
(* reorder datagrams before they arrive: they are numbered, for each       *)
(* endpoint, as they come in.                                              *)
(***************************************************************************)
EXTENDS Naturals, Sequences

CONSTANTS
  Addr,         \* source addresses with their ports
  IpOfAddr,     \* their IP
  Expected,     \* expected_ips: those the two players registered from, if known
  Strict,       \* config.RELAY_STRICT
  PendingMax,   \* PENDING_MAX
  MaxArrivals   \* bound of the model: datagrams that arrive from one address

ASSUME PairAssumption ==
  /\ Strict \in BOOLEAN /\ PendingMax \in Nat /\ MaxArrivals \in Nat

VARIABLES
  peers,     \* the endpoints learned, in the order they were
  pending,   \* _pending: what the first endpoint sent before there was a second
  arrived,   \* history: how many datagrams have come from each address
  sentTo     \* history: what the relay has sent to each address

pairVars == <<peers, pending, arrived, sentTo>>

Buffered == [from : Addr, n : Nat]

Learned == {peers[i] : i \in DOMAIN peers}

PairTypeOK ==
  /\ peers \in Seq(Addr) /\ Len(peers) <= 2
  /\ pending \in Seq(Buffered) /\ Len(pending) <= PendingMax
  /\ arrived \in [Addr -> Nat]
  /\ sentTo \in [Addr -> Seq(Buffered)]
  /\ Len(peers) = 2 => peers[1] # peers[2] /\ pending = <<>>

PairInit ==
  /\ peers = <<>> /\ pending = <<>>
  /\ arrived = [a \in Addr |-> 0]
  /\ sentTo = [a \in Addr |-> <<>>]

-----------------------------------------------------------------------------
(* datagram_received.                                                      *)

Numbered(a) == [from |-> a, n |-> arrived[a] + 1]

Arrives(a) == arrived[a] < MaxArrivals /\ arrived' = [arrived EXCEPT ![a] = @ + 1]

\* An address other than the players', turned away in strict mode only
TurnedAway(a) == Strict /\ Expected # {} /\ IpOfAddr[a] \notin Expected

\* The other end of the relay
Other(a) == IF a = peers[1] THEN peers[2] ELSE peers[1]

\* A slip: the newcomer takes the place of the second end
DroppedRebinding(a) ==
  /\ a \notin Learned
  /\ TurnedAway(a) \/ Len(peers) = 2
  /\ peers' = IF Len(peers) = 2 /\ ~TurnedAway(a) THEN <<peers[1], a>> ELSE peers
  /\ Arrives(a)
  /\ UNCHANGED <<pending, sentTo>>

\* Neither end's, and no room or no leave to become one
Dropped(a) ==
  /\ a \notin Learned
  /\ TurnedAway(a) \/ Len(peers) = 2
  /\ Arrives(a)
  /\ UNCHANGED <<peers, pending, sentTo>>

\* The first end is learned, or sends again: kept while there is room
KeptForSecond(a) ==
  /\ a \in Learned \/ ~TurnedAway(a)
  /\ peers \in {<<>>, <<a>>}
  /\ peers' = <<a>>
  /\ pending' = IF Len(pending) < PendingMax THEN Append(pending, Numbered(a)) ELSE pending
  /\ Arrives(a)
  /\ UNCHANGED sentTo

\* A slip: what was kept is not handed over
SecondLearnedForgetting(a) ==
  /\ a \notin Learned /\ ~TurnedAway(a) /\ Len(peers) = 1
  /\ peers' = Append(peers, a)
  /\ sentTo' = [sentTo EXCEPT ![peers[1]] = Append(@, Numbered(a))]
  /\ pending' = <<>>
  /\ Arrives(a)

\* The second end is learned: it is sent what was kept, and its own datagram
\* goes to the first.
SecondLearned(a) ==
  /\ a \notin Learned /\ ~TurnedAway(a) /\ Len(peers) = 1
  /\ peers' = Append(peers, a)
  /\ sentTo' = [sentTo EXCEPT ![a] = @ \o pending, ![peers[1]] = Append(@, Numbered(a))]
  /\ pending' = <<>>
  /\ Arrives(a)

\* Both ends are known
Forwarded(a) ==
  /\ a \in Learned /\ Len(peers) = 2
  /\ sentTo' = [sentTo EXCEPT ![Other(a)] = Append(@, Numbered(a))]
  /\ Arrives(a)
  /\ UNCHANGED <<peers, pending>>

DatagramReceived(a) == Dropped(a) \/ KeptForSecond(a) \/ SecondLearned(a) \/ Forwarded(a)

\* close; another relay of the same pair would be a new PairRelay
ClosePair ==
  /\ peers' = <<>> /\ pending' = <<>>
  /\ arrived' = [a \in Addr |-> 0]
  /\ sentTo' = [a \in Addr |-> <<>>]

PairNext == (\E a \in Addr : DatagramReceived(a)) \/ ClosePair

PairSpec == PairInit /\ [][PairNext]_pairVars

-----------------------------------------------------------------------------
(* What a relay promises.                                                  *)

\* The datagrams number i to j of address a
FromTo(a, i, j) == [k \in 1 .. (j + 1 - i) |-> [from |-> a, n |-> i + k - 1]]

\* The link is lossless and in order both ways, but for what the first end sent
\* beyond the buffer before there was a second: above all "the very first packet
\* through a relay port" (PairRelay.__init__), on which a guest's link hangs.
LinkLossless ==
  Len(peers) = 2 =>
    LET first == peers[1]
        second == peers[2]
    IN  /\ sentTo[first] = FromTo(second, 1, arrived[second])
        /\ \E k \in 0 .. PendingMax, j \in 1 .. arrived[first] + 1 :
             /\ sentTo[second] = FromTo(first, 1, k) \o FromTo(first, j, arrived[first])
             /\ IF k < PendingMax THEN j = k + 1 ELSE j > k

\* Nobody but the two ends is ever sent anything, and by the other end only: a
\* third endpoint neither hears the pair nor takes the place of one of it, and
\* in strict mode no end is at an address other than the players'.
PairStaysPrivate ==
  /\ \A a \in Addr : sentTo[a] # <<>> =>
       /\ a \in Learned
       /\ \A i \in DOMAIN sentTo[a] : sentTo[a][i].from \in Learned \ {a}
  /\ Strict /\ Expected # {} => \A a \in Learned : IpOfAddr[a] \in Expected
=============================================================================
