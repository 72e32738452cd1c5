---------------------------- MODULE NoticesProofs ---------------------------
(***************************************************************************)
(* Theorems about Notices, for every set of players, every cap and however *)
(* many rooms: behind a slot to be freed there is always a notice on its   *)
(* way, or a push that will send one.                                      *)
(***************************************************************************)
EXTENDS Notices, FiniteSetTheorems, SequenceTheorems, NaturalsInduction, WellFoundedInduction,
        TLAPS

\* No room is called NoRoom, and every gid a game or the registry holds was issued.
GidsIssued ==
  /\ \A g \in DOMAIN sessions : g # NoRoom /\ g <= nextGid
  /\ \A q \in Pid : room[q] <= nextGid

\* A game that is in a room of the registry is a member of it.
Seated ==
  \A q \in Pid : room[q] \in DOMAIN sessions => q \in sessions[room[q]].participants

\* A push goes through the rooms its player left in the order of their gids,
\* and never to the player itself.
Fit(c) == c.subject \notin c.to /\ \A g \in c.rest : c.gid < g

\* A notice about p is on its way in what q receives.
Tells(box, q, p) == \E i \in DOMAIN box[q] : box[q][i].subject = p

\* Push c, about p, has still to reach q, who is in room g.
WillTell(c, q, p, g) == c.subject = p /\ (q \in c.to \/ g \in c.rest)

\* NoticeUnderWay, with a push that does not depend on who is in which room.
Witnessed ==
  \A p, q \in Pid : StaleSlot(q, p) =>
    Tells(inbox, q, p) \/ \E c \in pushes : WillTell(c, q, p, room[q])

NoticeInv ==
  /\ TypeOK
  /\ GidsIssued
  /\ Seated
  /\ \A c \in pushes : Fit(c)
  /\ Witnessed

-----------------------------------------------------------------------------
(* What the operations of Rooms do to the members.                         *)

\* create: the rooms of the host go, a new one may come.
LEMMA CreateRooms ==
  ASSUME R!TypeOK, GidsIssued, NEW p \in Pid, R!CreateMatchmakeSession(p)
  PROVE  /\ R!TypeOK'
         /\ nextGid' \in {nextGid, nextGid + 1}
         /\ \A g \in DOMAIN sessions' :
              \/ g \in DOMAIN sessions /\ sessions'[g] = sessions[g]
              \/ g = nextGid + 1 /\ nextGid' = g /\ sessions'[g].participants = {p}
<1> DEFINE kept == R!Without(sessions, R!Hosted(p))
<1>1. /\ DOMAIN kept \subseteq DOMAIN sessions
      /\ \A g \in DOMAIN kept : kept[g] = sessions[g]
      /\ kept \in [DOMAIN kept -> R!Session]
  BY DEF R!Without, R!Restrict, R!TypeOK
<1>2. R!NewSession(p) \in R!Session /\ R!NewSession(p).participants = {p}
  BY DEF R!NewSession, R!Session
<1>3. \/ sessions' = kept /\ nextGid' = nextGid
      \/ sessions' = R!Put(kept, nextGid + 1, R!NewSession(p)) /\ nextGid' = nextGid + 1
  BY DEF R!CreateMatchmakeSession, R!CreateIn
<1> HIDE DEF kept
<1>4. CASE sessions' = kept /\ nextGid' = nextGid
  BY <1>1, <1>4 DEF R!TypeOK
<1>5. CASE sessions' = R!Put(kept, nextGid + 1, R!NewSession(p)) /\ nextGid' = nextGid + 1
  <2>1. /\ DOMAIN sessions' = DOMAIN kept \cup {nextGid + 1}
        /\ sessions'[nextGid + 1] = R!NewSession(p)
        /\ \A g \in DOMAIN kept : g # nextGid + 1 => sessions'[g] = kept[g]
        /\ sessions' \in [DOMAIN sessions' -> R!Session]
    BY <1>1, <1>2, <1>5 DEF R!Put
  <2>2. \A g \in DOMAIN kept : g # nextGid + 1
    BY <1>1 DEF GidsIssued, R!TypeOK
  <2>3. QED
    BY <1>1, <1>2, <1>5, <2>1, <2>2 DEF R!TypeOK
<1>6. QED
  BY <1>3, <1>4, <1>5

\* Rooms counts like everybody else.
LEMMA SameCount == \A S : R!Cardinality(S) = Cardinality(S)
BY DEF R!Cardinality, Cardinality

\* Adding or dropping a member, with the recount, keeps a room a room.
LEMMA MemberChange ==
  ASSUME NEW s \in R!Session, NEW p \in Pid
  PROVE  /\ R!AddMember(s, p) \in R!Session
         /\ R!AddMember(s, p).participants = s.participants \cup {p}
         /\ R!DropMember(s, p) \in R!Session
         /\ R!DropMember(s, p).participants = s.participants \ {p}
<1>1. /\ s.participants \cup {p} \in SUBSET Pid
      /\ s.participants \ {p} \in SUBSET Pid
  BY DEF R!Session
<1>2. /\ Cardinality(s.participants \cup {p}) \in Nat
      /\ Cardinality(s.participants \ {p}) \in Nat
  BY <1>1, PidAssumption, FS_Subset, FS_CardinalityType
<1>3. /\ R!Cardinality(s.participants \cup {p}) \in Nat
      /\ R!Cardinality(s.participants \ {p}) \in Nat
  BY <1>2, SameCount
<1>4. QED
  BY <1>1, <1>3 DEF R!AddMember, R!DropMember, R!Session

\* join: one room gains a member.
LEMMA JoinRooms ==
  ASSUME R!TypeOK, NEW p \in Pid, NEW g, R!JoinMatchmakeSession(p, g)
  PROVE  /\ R!TypeOK' /\ nextGid' = nextGid
         /\ g \in DOMAIN sessions /\ DOMAIN sessions' = DOMAIN sessions
         /\ \A r \in DOMAIN sessions :
              sessions'[r].participants =
                IF r = g THEN sessions[r].participants \cup {p} ELSE sessions[r].participants
<1>1. g \in DOMAIN sessions /\ sessions' = [sessions EXCEPT ![g] = R!AddMember(sessions[g], p)]
      /\ nextGid' = nextGid
  BY DEF R!JoinMatchmakeSession
<1>2. sessions[g] \in R!Session
  BY <1>1 DEF R!TypeOK
<1>3. QED
  BY <1>1, <1>2, MemberChange DEF R!TypeOK

\* Player p leaves the rooms L: those it hosts go, the others lose it.
Left(p, L) ==
  /\ R!TypeOK' /\ nextGid' = nextGid
  /\ DOMAIN sessions' = DOMAIN sessions \ (L \cap R!Hosted(p))
  /\ \A r \in DOMAIN sessions' :
       sessions'[r].participants =
         IF r \in L THEN sessions[r].participants \ {p} ELSE sessions[r].participants

\* discard(pid) and the recount keep a room a room.
LEMMA DropRoom ==
  ASSUME R!TypeOK, NEW p \in Pid, NEW r \in DOMAIN sessions
  PROVE  /\ R!DropMember(sessions[r], p) \in R!Session
         /\ R!DropMember(sessions[r], p).participants = sessions[r].participants \ {p}
BY MemberChange DEF R!TypeOK

\* leave_gathering
LEMMA EndRooms ==
  ASSUME R!TypeOK, NEW p \in Pid, NEW g, R!EndParticipation(p, g)
  PROVE  Left(p, {g})
<1>1. g \in DOMAIN sessions /\ nextGid' = nextGid
  BY DEF R!EndParticipation, R!Joined
<1>2. CASE sessions[g].host = p
  <2>1. sessions' = R!Without(sessions, {g}) /\ g \in R!Hosted(p)
    BY <1>1, <1>2 DEF R!EndParticipation, R!Hosted
  <2>2. QED
    BY <1>1, <2>1 DEF Left, R!Without, R!Restrict, R!TypeOK
<1>3. CASE sessions[g].host # p
  <2>1. /\ sessions' = [sessions EXCEPT ![g] = R!DropMember(sessions[g], p)]
        /\ g \notin R!Hosted(p)
    BY <1>1, <1>3 DEF R!EndParticipation, R!Hosted
  <2>2. QED
    BY <1>1, <2>1, DropRoom DEF Left, R!TypeOK
<1>4. QED
  BY <1>2, <1>3

\* leave, when a connection closes
LEMMA LeaveRooms ==
  ASSUME R!TypeOK, NEW p \in Pid, R!Leave(p)
  PROVE  Left(p, R!Joined(p))
<1> DEFINE gone == R!Joined(p) \cap R!Hosted(p)
<1>1. /\ sessions' = [r \in DOMAIN sessions \ gone |->
                        IF r \in R!Joined(p) \ gone THEN R!DropMember(sessions[r], p)
                                                    ELSE sessions[r]]
      /\ nextGid' = nextGid
  BY DEF R!Leave
<1> HIDE DEF gone
<1>2. \A r \in DOMAIN sessions \ gone : sessions'[r] \in R!Session
  BY <1>1, DropRoom DEF R!TypeOK
<1>3. R!TypeOK'
  BY <1>1, <1>2 DEF R!TypeOK
<1>4. \A r \in DOMAIN sessions \ gone :
         sessions'[r].participants = IF r \in R!Joined(p) THEN sessions[r].participants \ {p}
                                                          ELSE sessions[r].participants
  BY <1>1, DropRoom
<1>5. QED
  BY <1>1, <1>3, <1>4 DEF Left, gone

-----------------------------------------------------------------------------
(* A push runs to its next await.                                          *)

Ahead(c, S) == {g \in {c.gid} \cup c.rest : Online(Remaining(c, g, S)) # {}}

Message(c) == [type |-> c.type, subject |-> c.subject]

\* A push that is at room g, with `to` still to be reached there
At(c, g, to) == [type |-> c.type, subject |-> c.subject, gid |-> g, to |-> to,
                 rest |-> {h \in c.rest : h > g}]

\* A record is the value of its fields.
LEMMA SingleRecord ==
  ASSUME NEW t, NEW s, NEW g, NEW to, NEW r,
         NEW d \in [type : {t}, subject : {s}, gid : {g}, to : {to}, rest : {r}]
  PROVE  d = [type |-> t, subject |-> s, gid |-> g, to |-> to, rest |-> r]
OBVIOUS

\* Run moves a push by changing three of its fields.
LEMMA MovedPush ==
  ASSUME NEW c \in Push, NEW g, NEW to
  PROVE  [c EXCEPT !.gid = g, !.to = to, !.rest = {h \in c.rest : h > g}] = At(c, g, to)
<1> DEFINE r == {h \in c.rest : h > g}
           T == {3007, 3008}
           G == Nat
           O == SUBSET Pid
           H == SUBSET Nat
<1>1. c \in [type : T, subject : Pid, gid : G, to : O, rest : H]
  BY DEF Push
<1> HIDE DEF r, T, G, O, H
<1> DEFINE d == [c EXCEPT !.gid = g, !.to = to, !.rest = r]
<1>2. d \in [type : {c.type}, subject : {c.subject}, gid : {g}, to : {to}, rest : {r}]
  BY <1>1
<1> HIDE DEF d
<1>3. d = [type |-> c.type, subject |-> c.subject, gid |-> g, to |-> to, rest |-> r]
  BY <1>2, SingleRecord, Zenon
<1>4. QED
  BY <1>3 DEF At, d, r

\* A set of gids that is not empty has a least one.
LEMMA LowestGid ==
  ASSUME NEW G, G \subseteq Nat, G # {}
  PROVE  LET g == CHOOSE h \in G : \A i \in G : h <= i
         IN  g \in G /\ \A i \in G : g <= i
<1>1. PICK h \in G : \A i \in G : <<i, h>> \notin OpToRel(<, Nat)
  BY WFMin, NatLessThanWellFounded, Zenon
<1>2. \A i \in G : ~(i < h)
  BY <1>1, Zenon DEF OpToRel
<1>3. \A i \in G : h <= i
  BY <1>2
<1>4. QED
  BY <1>3

\* Push c notifies q in room g, passing over some who are not connected.
Moves(c, S, others, box, g, q, passed) ==
  /\ g \in Ahead(c, S) /\ \A i \in Ahead(c, S) : g <= i
  /\ q \in Online(Remaining(c, g, S))
  /\ passed \cap Online(Remaining(c, g, S)) = {}
  /\ LET d == At(c, g, Remaining(c, g, S) \ (passed \cup {q}))
     IN  pushes' = IF d.to \cup d.rest # {} THEN others \cup {d} ELSE others
  /\ inbox' = Sent(box, q, c)

\* A push that runs is over, or notifies one player and goes on.
LEMMA RunMoves ==
  ASSUME NEW c \in Push, NEW S, NEW others, NEW box, Run(c, S, others, box)
  PROVE  \/ Ahead(c, S) = {} /\ pushes' = others /\ inbox' = box
         \/ \E g, q, passed : Moves(c, S, others, box, g, q, passed)
<1>1. CASE Ahead(c, S) = {}
  BY <1>1 DEF Run, Ahead
<1>2. CASE Ahead(c, S) # {}
  <2> DEFINE g == CHOOSE h \in Ahead(c, S) : \A i \in Ahead(c, S) : h <= i
             to == Remaining(c, g, S)
  <2>1. Ahead(c, S) \subseteq Nat
    BY DEF Ahead, Push
  <2>2. g \in Ahead(c, S) /\ \A i \in Ahead(c, S) : g <= i
    BY <1>2, <2>1, LowestGid
  <2>3. PICK q \in Online(to), passed \in SUBSET (to \ Online(to)) :
          /\ pushes' = others \cup
               {d \in {[c EXCEPT !.gid = g, !.to = to \ (passed \cup {q}),
                                 !.rest = {h \in c.rest : h > g}]} :
                  d.to \cup d.rest # {}}
          /\ inbox' = Sent(box, q, c)
    BY <1>2 DEF Run, Ahead
  <2> HIDE DEF g
  <2>4. [c EXCEPT !.gid = g, !.to = to \ (passed \cup {q}), !.rest = {h \in c.rest : h > g}]
          = At(c, g, to \ (passed \cup {q}))
    BY MovedPush
  <2> HIDE DEF to
  <2>5. passed \cap Online(to) = {}
    BY <2>3
  <2>6. LET d == At(c, g, to \ (passed \cup {q}))
        IN  pushes' = IF d.to \cup d.rest # {} THEN others \cup {d} ELSE others
    BY <2>3, <2>4
  <2>7. QED
    BY <2>2, <2>3, <2>5, <2>6 DEF to, Moves
<1>3. QED
  BY <1>1, <1>2

\* The rooms S have members that are players.
RoomsOf(S) == \A g \in DOMAIN S : S[g].participants \subseteq Pid

\* Whom a push may still notify.
LEMMA RemainingPlayers ==
  ASSUME NEW c \in Push, Fit(c), NEW S, RoomsOf(S), NEW g
  PROVE  Remaining(c, g, S) \subseteq Pid /\ c.subject \notin Remaining(c, g, S)
BY DEF Remaining, TargetsIn, RoomsOf, Push, Fit

\* A push only becomes another one about the same player, and adds at most one
\* notice, about that player, to what another, live game receives.
LEMMA RunTypes ==
  ASSUME NEW c \in Push, Fit(c), NEW S, RoomsOf(S), NEW others, NEW box,
         DOMAIN box = Pid, \A q \in Pid : box[q] \in Seq(Notice),
         Run(c, S, others, box)
  PROVE  /\ others \subseteq pushes'
         /\ \A d \in pushes' \ others : d \in Push /\ Fit(d) /\ d.subject = c.subject
         /\ DOMAIN inbox' = Pid
         /\ \A q \in Pid :
              \/ inbox'[q] = box[q]
              \/ /\ conn[q] = "up" /\ q # c.subject
                 /\ inbox'[q] = Append(box[q], Message(c)) /\ Message(c) \in Notice
                 /\ inbox'[q] \in Seq(Notice)
<1>1. CASE pushes' = others /\ inbox' = box
  BY <1>1
<1>2. CASE \E g, q, passed : Moves(c, S, others, box, g, q, passed)
  <2>1. PICK g, q, passed : Moves(c, S, others, box, g, q, passed)
    BY <1>2
  <2> DEFINE to == Remaining(c, g, S)
             d == At(c, g, to \ (passed \cup {q}))
  <2>2. to \subseteq Pid /\ c.subject \notin to /\ q \in to
    BY <2>1, RemainingPlayers DEF Online, Moves
  <2>3. g \in Nat
    BY <2>1 DEF Ahead, Push, Moves
  <2> HIDE DEF to
  <2>4. d \in Push /\ Fit(d) /\ d.subject = c.subject
    BY <2>2, <2>3 DEF At, Push, Fit
  <2>5. pushes' \in {others \cup {d}, others}
    BY <2>1 DEF to, Moves
  <2>6. Message(c) \in Notice
    BY DEF Message, Notice, Push
  <2> HIDE DEF d
  <2>7. /\ DOMAIN inbox' = Pid
        /\ \A x \in Pid :
             \/ inbox'[x] = box[x]
             \/ x = q /\ conn[x] = "up" /\ inbox'[x] = Append(box[x], Message(c))
    <3>1. CASE conn[q] = "up"
      <4>1. inbox' = [box EXCEPT ![q] = Append(box[q], Message(c))]
        BY <2>1, <3>1 DEF Sent, Message, Moves
      <4>2. QED
        BY <2>2, <3>1, <4>1
    <3>2. CASE conn[q] # "up"
      BY <2>1, <3>2 DEF Sent, Moves
    <3>3. QED
      BY <3>1, <3>2
  <2>8. \A x \in Pid : Append(box[x], Message(c)) \in Seq(Notice)
    BY <2>6, AppendProperties
  <2>9. QED
    BY <2>2, <2>4, <2>5, <2>6, <2>7, <2>8
<1>3. QED
  BY <1>1, <1>2, RunMoves

\* A live game that is to be told of p stays to be told, or is told.
LEMMA RunTells ==
  ASSUME NEW c \in Push, Fit(c), NEW S, RoomsOf(S), NEW others, NEW box,
         DOMAIN box = Pid, \A x \in Pid : box[x] \in Seq(Notice),
         Run(c, S, others, box),
         NEW p \in Pid, NEW q \in Pid, p # q, conn[q] = "up",
         NEW h \in DOMAIN S, q \in S[h].participants,
         \/ Tells(box, q, p)
         \/ \E e \in others : WillTell(e, q, p, h)
         \/ WillTell(c, q, p, h)
  PROVE  Tells(inbox', q, p) \/ \E e \in pushes' : WillTell(e, q, p, h)
<1>1. CASE Tells(box, q, p)
  <2>1. PICK i \in DOMAIN box[q] : box[q][i].subject = p
    BY <1>1 DEF Tells
  <2>2. box[q] \in Seq(Notice) /\ i \in 1 .. Len(box[q]) /\ Len(box[q]) \in Nat
    BY <2>1, LenProperties
  <2>3. CASE inbox'[q] = Append(box[q], Message(c)) /\ Message(c) \in Notice
    <3>1. /\ Append(box[q], Message(c)) \in Seq(Notice)
          /\ Len(Append(box[q], Message(c))) = Len(box[q]) + 1
          /\ Append(box[q], Message(c))[i] = box[q][i]
      BY <2>2, <2>3, AppendProperties
    <3>2. i \in DOMAIN inbox'[q] /\ inbox'[q][i].subject = p
      BY <2>1, <2>2, <2>3, <3>1
    <3>3. QED
      BY <3>2 DEF Tells
  <2>4. QED
    BY <1>1, <2>3, RunTypes DEF Tells
<1>2. CASE \E e \in others : WillTell(e, q, p, h)
  BY <1>2, RunTypes
<1>3. CASE WillTell(c, q, p, h)
  <2>1. q \in Online({q})
    BY DEF Online
  <2>2. h \in c.rest => h # c.gid /\ q \in Remaining(c, h, S)
    BY <1>3 DEF WillTell, Remaining, TargetsIn, Fit, Push
  <2>3. q \in c.to => q \in Remaining(c, c.gid, S)
    BY DEF Remaining
  <2>4. (h \in c.rest => h \in Ahead(c, S)) /\ (q \in c.to => c.gid \in Ahead(c, S))
    BY <2>1, <2>2, <2>3 DEF Ahead, Online
  <2>5. PICK g, x, passed : Moves(c, S, others, box, g, x, passed)
    BY <1>3, <2>4, RunMoves DEF WillTell
  <2> DEFINE d == At(c, g, Remaining(c, g, S) \ (passed \cup {x}))
  <2>6. \/ q \in Remaining(c, g, S)
        \/ h \in c.rest /\ h > g
    <3>1. CASE q \in c.to
      <4>1. g <= c.gid /\ (g \in c.rest => c.gid < g)
        BY <2>4, <2>5, <3>1 DEF Fit, Moves
      <4>2. g = c.gid
        BY <2>5, <4>1 DEF Ahead, Push, Moves
      <4>3. QED
        BY <2>3, <3>1, <4>2
    <3>2. CASE h \in c.rest
      <4>1. g <= h /\ g \in Nat /\ h \in Nat
        BY <2>4, <2>5, <3>2 DEF Ahead, Push, Moves
      <4>2. QED
        BY <2>2, <3>2, <4>1
    <3>3. QED
      BY <1>3, <3>1, <3>2 DEF WillTell
  <2>7. CASE q = x
    <3>1. inbox'[q] = Append(box[q], Message(c))
      BY <2>5, <2>7 DEF Sent, Message, Moves
    <3>2. Message(c) \in Notice /\ Message(c).subject = p
      BY <1>3 DEF Message, Notice, Push, WillTell
    <3>3. /\ Len(inbox'[q]) = Len(box[q]) + 1 /\ inbox'[q][Len(box[q]) + 1] = Message(c)
          /\ inbox'[q] \in Seq(Notice) /\ Len(box[q]) \in Nat
      BY <3>1, <3>2, AppendProperties, LenProperties
    <3>4. Len(box[q]) + 1 \in DOMAIN inbox'[q]
      BY <3>3
    <3>5. QED
      BY <3>2, <3>3, <3>4 DEF Tells
  <2>8. CASE q # x
    <3>1. q \in d.to \/ h \in d.rest
      <4>1. CASE q \in Remaining(c, g, S)
        <5>1. q \in Online(Remaining(c, g, S))
          BY <4>1 DEF Online
        <5>2. q \notin passed
          BY <2>5, <5>1 DEF Moves
        <5>3. QED
          BY <2>8, <4>1, <5>2 DEF At
      <4>2. CASE h \in c.rest /\ h > g
        BY <4>2 DEF At
      <4>3. QED
        BY <2>6, <4>1, <4>2
    <3>2. d \in pushes'
      BY <2>5, <3>1 DEF Moves
    <3>3. d.subject = p
      BY <1>3 DEF At, WillTell
    <3>4. QED
      BY <3>1, <3>2, <3>3 DEF WillTell
  <2>9. QED
    BY <2>7, <2>8
<1>4. QED
  BY <1>1, <1>2, <1>3

-----------------------------------------------------------------------------
(* Every step keeps the invariant.                                         *)

\* What is known before a step: of the rooms and who is in them,
LEMMA KnownRooms ==
  ASSUME NoticeInv
  PROVE  /\ R!TypeOK /\ RoomsOf(sessions) /\ nextGid \in Nat /\ DOMAIN sessions \subseteq Nat
         /\ NoRoom \notin DOMAIN sessions
         /\ \A g \in DOMAIN sessions : g <= nextGid
         /\ \A q \in Pid : room[q] <= nextGid
         /\ \A q \in Pid : room[q] \in DOMAIN sessions =>
              conn[q] = "up" /\ q \in sessions[room[q]].participants
BY DEF NoticeInv, TypeOK, GidsIssued, Seated, RoomsOf, R!TypeOK, R!Session

\* of the games,
LEMMA KnownGames ==
  ASSUME NoticeInv
  PROVE  /\ room \in [Pid -> Nat] /\ roster \in [Pid -> SUBSET Pid]
         /\ conn \in [Pid -> {"off", "up", "dead"}] /\ stale \subseteq Pid
         /\ \A q \in Pid : conn[q] # "up" => room[q] = NoRoom /\ inbox[q] = <<>>
         /\ \A q \in Pid : room[q] = NoRoom => roster[q] = {}
BY DEF NoticeInv, TypeOK

\* and of the pushes and notices.
LEMMA KnownPushes ==
  ASSUME NoticeInv
  PROVE  /\ DOMAIN inbox = Pid /\ \A q \in Pid : inbox[q] \in Seq(Notice)
         /\ \A c \in pushes : c \in Push /\ Fit(c)
BY DEF NoticeInv, TypeOK

\* Pushes that are fit never come back to the room they are at.
LEMMA FitPushes ==
  ASSUME NEW C, \A c \in C : c \in Push /\ Fit(c)
  PROVE  C \subseteq Push /\ \A c \in C : c.subject \notin c.to /\ c.gid \notin c.rest
BY DEF Push, Fit

\* A suspended push goes on.
LEMMA PushOnStep ==
  ASSUME NoticeInv, NEW c \in pushes, PushOn(c)
  PROVE  NoticeInv'
<1>1. /\ Run(c, sessions, pushes \ {c}, inbox)
      /\ UNCHANGED <<sessions, nextGid, conn, stale, room, roster>>
  BY DEF PushOn, roomVars, gameVars
<1>2. c \in Push /\ Fit(c)
  BY KnownPushes
<1>3. /\ pushes \ {c} \subseteq pushes'
      /\ \A d \in pushes' : d \in Push /\ Fit(d)
      /\ DOMAIN inbox' = Pid
      /\ \A q \in Pid : \/ inbox'[q] = inbox[q]
                        \/ conn[q] = "up" /\ inbox'[q] \in Seq(Notice)
  BY <1>1, <1>2, KnownPushes, KnownRooms, RunTypes
<1>4. TypeOK'
  <2>1. pushes' \subseteq Push /\ \A d \in pushes' : d.subject \notin d.to /\ d.gid \notin d.rest
    BY <1>3, FitPushes
  <2>2. R!TypeOK'
    BY <1>1, KnownRooms DEF R!TypeOK
  <2>3. QED
    BY <1>1, <1>3, <2>1, <2>2 DEF NoticeInv, TypeOK
<1>5. GidsIssued' /\ Seated'
  BY <1>1 DEF NoticeInv, GidsIssued, Seated
<1>6. Witnessed'
  <2> SUFFICES ASSUME NEW p \in Pid, NEW q \in Pid, StaleSlot(q, p)'
               PROVE  Tells(inbox', q, p) \/ \E e \in pushes' : WillTell(e, q, p, room[q])
    BY <1>1 DEF Witnessed, Tells, WillTell
  <2>1. StaleSlot(q, p)
    BY <1>1 DEF StaleSlot
  <2>2. /\ room[q] \in DOMAIN sessions /\ conn[q] = "up" /\ p # q
        /\ q \in sessions[room[q]].participants
    BY <2>1, KnownRooms DEF StaleSlot
  <2>3. \/ Tells(inbox, q, p)
        \/ \E e \in pushes \ {c} : WillTell(e, q, p, room[q])
        \/ WillTell(c, q, p, room[q])
    BY <2>1 DEF NoticeInv, Witnessed
  <2>4. QED
    BY <1>1, <1>2, <2>2, <2>3, KnownPushes, KnownRooms, RunTells
<1>7. QED
  BY <1>3, <1>4, <1>5, <1>6 DEF NoticeInv

\* Player p leaves the rooms L and goes home; those it leaves behind are told by
\* push c.  What it would receive itself may be dropped, with its connection.
Parting(p, L, c, box) ==
  /\ Left(p, L) /\ Home(p) /\ stale' = stale
  /\ c \in Push /\ Fit(c) /\ c.subject = p /\ c.rest = L \ R!Hosted(p)
  /\ Run(c, sessions', pushes, box)
  /\ \/ box = inbox /\ conn' = conn
     \/ box = [inbox EXCEPT ![p] = <<>>] /\ conn' = [conn EXCEPT ![p] = "off"]

\* A player that leaves rooms, with a push about it, keeps the invariant,
LEMMA PartingStep ==
  ASSUME NoticeInv, NEW p \in Pid, NEW L \in SUBSET R!Joined(p), NEW c, NEW box,
         Parting(p, L, c, box)
  PROVE  NoticeInv'
<1>1. /\ R!TypeOK' /\ nextGid' = nextGid
      /\ DOMAIN sessions' = DOMAIN sessions \ (L \cap R!Hosted(p))
      /\ \A r \in DOMAIN sessions' :
           sessions'[r].participants =
             IF r \in L THEN sessions[r].participants \ {p} ELSE sessions[r].participants
  BY DEF Parting, Left
<1>2. L \subseteq DOMAIN sessions /\ L \subseteq R!Joined(p)
  BY DEF R!Joined
<1>3. /\ c \in Push /\ Fit(c) /\ c.rest = L \ R!Hosted(p) /\ c.subject = p
      /\ Run(c, sessions', pushes, box)
  BY DEF Parting
<1>4. \/ box = inbox /\ conn' = conn
      \/ box = [inbox EXCEPT ![p] = <<>>] /\ conn' = [conn EXCEPT ![p] = "off"]
  BY DEF Parting
<1>5. RoomsOf(sessions')
  BY <1>1 DEF RoomsOf, R!TypeOK, R!Session
<1>6. <<>> \in Seq(Notice)
  OBVIOUS
<1>7. /\ DOMAIN box = Pid /\ \A q \in Pid : box[q] \in Seq(Notice)
      /\ \A q \in Pid \ {p} : box[q] = inbox[q]
  BY <1>4, <1>6, KnownPushes
<1>8. /\ pushes \subseteq pushes'
      /\ \A d \in pushes' : d \in Push /\ Fit(d)
      /\ DOMAIN inbox' = Pid /\ inbox'[p] = box[p]
      /\ \A q \in Pid : \/ inbox'[q] = box[q]
                        \/ conn[q] = "up" /\ inbox'[q] \in Seq(Notice)
  <2>1. /\ pushes \subseteq pushes'
        /\ \A d \in pushes' \ pushes : d \in Push /\ Fit(d)
        /\ DOMAIN inbox' = Pid
        /\ \A q \in Pid :
             \/ inbox'[q] = box[q]
             \/ conn[q] = "up" /\ q # p /\ inbox'[q] \in Seq(Notice)
    BY <1>3, <1>5, <1>7, RunTypes
  <2>2. QED
    BY <2>1, KnownPushes
<1>9. /\ room' \in [Pid -> Nat] /\ roster' \in [Pid -> SUBSET Pid]
      /\ room'[p] = NoRoom /\ roster'[p] = {}
      /\ \A q \in Pid \ {p} : room'[q] = room[q] /\ roster'[q] = roster[q]
  BY KnownGames DEF Parting, Home, NoRoom
<1>10. TypeOK'
  <2>1. pushes' \subseteq Push /\ \A d \in pushes' : d.subject \notin d.to /\ d.gid \notin d.rest
    BY <1>8, FitPushes
  <2>2. /\ conn' \in [Pid -> {"off", "up", "dead"}] /\ stale' \subseteq Pid
        /\ \A q \in Pid \ {p} : conn'[q] = conn[q]
        /\ conn'[p] # "up" => box[p] = <<>>
    <3>1. stale' = stale
      BY DEF Parting
    <3>2. CASE box = inbox /\ conn' = conn
      BY <3>1, <3>2, KnownGames
    <3>3. CASE box = [inbox EXCEPT ![p] = <<>>] /\ conn' = [conn EXCEPT ![p] = "off"]
      BY <3>1, <3>3, KnownGames, KnownPushes
    <3>4. QED
      BY <1>4, <3>2, <3>3
  <2>3. \A q \in Pid : conn'[q] # "up" => room'[q] = NoRoom /\ inbox'[q] = <<>>
    <3>1. \A q \in Pid \ {p} : conn[q] # "up" => room[q] = NoRoom /\ inbox[q] = <<>>
      BY KnownGames
    <3>2. QED
      BY <1>7, <1>8, <1>9, <2>2, <3>1
  <2>4. \A q \in Pid : room'[q] = NoRoom => roster'[q] = {}
    BY <1>9, KnownGames
  <2>5. QED
    BY <1>1, <1>7, <1>8, <1>9, <2>1, <2>2, <2>3, <2>4 DEF TypeOK
<1>11. GidsIssued' /\ Seated'
  <2>1. GidsIssued'
    BY <1>1, <1>9, KnownRooms DEF GidsIssued, NoRoom
  <2>2. Seated'
    BY <1>1, <1>9, KnownRooms DEF Seated
  <2>3. QED
    BY <2>1, <2>2
<1>12. Witnessed'
  <2> SUFFICES ASSUME NEW x \in Pid, NEW q \in Pid, StaleSlot(q, x)'
               PROVE  Tells(inbox', q, x) \/ \E e \in pushes' : WillTell(e, q, x, room'[q])
    BY DEF Witnessed, Tells, WillTell
  <2>1. /\ room'[q] \in DOMAIN sessions' /\ x \in roster'[q]
        /\ x \notin sessions'[room'[q]].participants
    BY DEF StaleSlot
  <2>2. q # p /\ room'[q] = room[q] /\ x \in roster[q]
    BY <1>1, <1>9, <2>1, KnownRooms
  <2>3. /\ room[q] \in DOMAIN sessions /\ conn[q] = "up"
        /\ q \in sessions'[room[q]].participants /\ x # q
    BY <1>1, <2>1, <2>2, KnownRooms
  <2>4. \/ Tells(box, q, x)
        \/ \E e \in pushes : WillTell(e, q, x, room[q])
        \/ WillTell(c, q, x, room[q])
    <3>1. CASE x \notin sessions[room[q]].participants
      <4>1. StaleSlot(q, x)
        BY <2>2, <2>3, <3>1 DEF StaleSlot
      <4>2. QED
        BY <1>7, <2>2, <4>1 DEF NoticeInv, Witnessed, Tells
    <3>2. CASE x \in sessions[room[q]].participants
      <4>1. x = p /\ room[q] \in L \ R!Hosted(p)
        BY <1>1, <2>1, <2>2, <3>2
      <4>2. QED
        BY <1>3, <4>1 DEF WillTell
    <3>3. QED
      BY <3>1, <3>2
  <2>5. room[q] \in DOMAIN sessions'
    BY <2>1, <2>2
  <2>6. Tells(inbox', q, x) \/ \E e \in pushes' : WillTell(e, q, x, room[q])
    BY <1>3, <1>5, <1>7, <2>3, <2>4, <2>5, RunTells
  <2>7. QED
    BY <2>2, <2>6
<1>13. QED
  BY <1>8, <1>10, <1>11, <1>12 DEF NoticeInv

\* The push a departure starts, before its first await.
LEMMA FirstPush ==
  ASSUME NoticeInv, NEW type \in {3007, 3008}, NEW p \in Pid, NEW G, G \subseteq DOMAIN sessions,
         NEW c, c = [type |-> type, subject |-> p, gid |-> NoRoom, to |-> {}, rest |-> G]
  PROVE  c \in Push /\ Fit(c) /\ c.subject = p /\ c.rest = G
BY KnownRooms DEF Push, Fit, NoRoom

\* A game leaves its room, with nobody to be told; rooms may have closed.
GoneHome(p) ==
  /\ R!TypeOK' /\ nextGid' = nextGid /\ DOMAIN sessions' \subseteq DOMAIN sessions
  /\ \A r \in DOMAIN sessions' : sessions'[r].participants = sessions[r].participants
  /\ Home(p) /\ pushes' = pushes /\ stale' = stale
  /\ \/ inbox' = inbox /\ conn' = conn
     \/ inbox' = [inbox EXCEPT ![p] = <<>>] /\ conn' = [conn EXCEPT ![p] = "dead"]

\* one that goes home and is told about by nobody,
\* so does one that goes home with no push about it,
LEMMA GoneHomeStep ==
  ASSUME NoticeInv, NEW p \in Pid, GoneHome(p)
  PROVE  NoticeInv'
<1>1. /\ R!TypeOK' /\ nextGid' = nextGid /\ DOMAIN sessions' \subseteq DOMAIN sessions
      /\ \A r \in DOMAIN sessions' : sessions'[r].participants = sessions[r].participants
  BY DEF GoneHome
<1>2. pushes' = pushes /\ stale' = stale
  BY DEF GoneHome
<1>3. \/ inbox' = inbox /\ conn' = conn
      \/ inbox' = [inbox EXCEPT ![p] = <<>>] /\ conn' = [conn EXCEPT ![p] = "dead"]
  BY DEF GoneHome
<1>4. /\ room' \in [Pid -> Nat] /\ roster' \in [Pid -> SUBSET Pid]
      /\ room'[p] = NoRoom /\ roster'[p] = {}
      /\ \A q \in Pid \ {p} : room'[q] = room[q] /\ roster'[q] = roster[q]
  BY KnownGames DEF GoneHome, Home, NoRoom
<1>5. <<>> \in Seq(Notice)
  OBVIOUS
<1>6. /\ DOMAIN inbox' = Pid /\ \A q \in Pid : inbox'[q] \in Seq(Notice)
      /\ \A q \in Pid \ {p} : inbox'[q] = inbox[q]
  BY <1>3, <1>5, KnownPushes
<1>7. /\ conn' \in [Pid -> {"off", "up", "dead"}]
      /\ \A q \in Pid \ {p} : conn'[q] = conn[q]
      /\ conn'[p] # "up" => inbox'[p] = <<>>
  <2>1. CASE inbox' = inbox /\ conn' = conn
    BY <2>1, KnownGames
  <2>2. CASE inbox' = [inbox EXCEPT ![p] = <<>>] /\ conn' = [conn EXCEPT ![p] = "dead"]
    BY <2>2, KnownGames, KnownPushes
  <2>3. QED
    BY <1>3, <2>1, <2>2
<1>8. TypeOK'
  <2>1. pushes' \subseteq Push /\ \A d \in pushes' : d.subject \notin d.to /\ d.gid \notin d.rest
    BY <1>2, KnownPushes, FitPushes
  <2>2. \A q \in Pid : conn'[q] # "up" => room'[q] = NoRoom /\ inbox'[q] = <<>>
    BY <1>4, <1>6, <1>7, KnownGames
  <2>3. \A q \in Pid : room'[q] = NoRoom => roster'[q] = {}
    BY <1>4, KnownGames
  <2>4. stale' \subseteq Pid
    BY <1>2, KnownGames
  <2>5. QED
    BY <1>1, <1>4, <1>6, <1>7, <2>1, <2>2, <2>3, <2>4 DEF TypeOK
<1>9. GidsIssued'
  BY <1>1, <1>4, KnownRooms DEF GidsIssued, NoRoom
<1>10. Seated'
  BY <1>1, <1>4, KnownRooms DEF Seated
<1>11. Witnessed'
  <2> SUFFICES ASSUME NEW x \in Pid, NEW q \in Pid, StaleSlot(q, x)'
               PROVE  Tells(inbox', q, x) \/ \E e \in pushes' : WillTell(e, q, x, room'[q])
    BY DEF Witnessed, Tells, WillTell
  <2>1. /\ room'[q] \in DOMAIN sessions' /\ x \in roster'[q]
        /\ x \notin sessions'[room'[q]].participants
    BY DEF StaleSlot
  <2>2. q # p /\ room'[q] = room[q] /\ x \in roster[q]
    BY <1>1, <1>4, <2>1, KnownRooms
  <2>3. StaleSlot(q, x)
    BY <1>1, <2>1, <2>2 DEF StaleSlot
  <2>4. Tells(inbox, q, x) \/ \E e \in pushes : WillTell(e, q, x, room[q])
    BY <2>3 DEF NoticeInv, Witnessed
  <2>5. inbox'[q] = inbox[q]
    BY <1>6, <2>2
  <2>6. QED
    BY <1>2, <2>2, <2>4, <2>5 DEF Tells
<1>12. \A c \in pushes' : Fit(c)
  BY <1>2, KnownPushes
<1>13. QED
  BY <1>8, <1>9, <1>10, <1>11, <1>12 DEF NoticeInv

\* A guest that leaves is announced; a host closes the room unannounced.
LEMMA EndParticipationIs ==
  ASSUME NoticeInv, NEW p \in Pid, EndParticipation(p)
  PROVE  GoneHome(p) \/ \E L \in SUBSET R!Joined(p), c \in Push : Parting(p, L, c, inbox)
<1>1. UNCHANGED <<conn, stale>> /\ Home(p)
  BY DEF EndParticipation
<1>2. CASE room[p] \in R!Joined(p) \ R!Hosted(p) /\ R!EndParticipation(p, room[p])
             /\ Notify(3007, p, {room[p]}, sessions', inbox)
  <2> DEFINE c == [type |-> 3007, subject |-> p, gid |-> NoRoom, to |-> {}, rest |-> {room[p]}]
  <2>1. Left(p, {room[p]})
    BY <1>2, KnownRooms, EndRooms
  <2>2. Run(c, sessions', pushes, inbox)
    BY <1>2 DEF Notify
  <2>3. {room[p]} \in SUBSET R!Joined(p) /\ {room[p]} \subseteq DOMAIN sessions
    BY <1>2 DEF R!Joined
  <2>4. c \in Push /\ Fit(c) /\ c.subject = p /\ c.rest = {room[p]}
    BY <2>3, FirstPush
  <2>5. {room[p]} = {room[p]} \ R!Hosted(p)
    BY <1>2
  <2> HIDE DEF c
  <2>6. Parting(p, {room[p]}, c, inbox)
    BY <1>1, <2>1, <2>2, <2>4, <2>5 DEF Parting
  <2>7. QED
    BY <2>3, <2>4, <2>6
<1>3. CASE room[p] \in R!Joined(p) \cap R!Hosted(p) /\ R!EndParticipation(p, room[p])
             /\ UNCHANGED <<pushes, inbox>>
  <2>1. Left(p, {room[p]})
    BY <1>3, KnownRooms, EndRooms
  <2>2. QED
    BY <1>1, <1>3, <2>1 DEF Left, GoneHome
<1>4. CASE UNCHANGED <<roomVars, pushes, inbox>>
  <2>1. R!TypeOK'
    BY <1>4, KnownRooms DEF R!TypeOK, roomVars
  <2>2. QED
    BY <1>1, <1>4, <2>1 DEF GoneHome, roomVars
<1>5. QED
  BY <1>2, <1>3, <1>4 DEF EndParticipation

\* A connection ends, and with it every room its player is in.
LEMMA LogoutIs ==
  ASSUME NoticeInv, NEW p \in Pid, Logout(p)
  PROVE  \E L \in SUBSET R!Joined(p), c \in Push :
           Parting(p, L, c, [inbox EXCEPT ![p] = <<>>])
<1> DEFINE L == R!Joined(p)
           c == [type |-> 3008, subject |-> p, gid |-> NoRoom, to |-> {},
                 rest |-> L \ R!Hosted(p)]
           box == [inbox EXCEPT ![p] = <<>>]
<1>1. /\ R!Leave(p) /\ Run(c, sessions', pushes, box) /\ Home(p) /\ stale' = stale
      /\ conn' = [conn EXCEPT ![p] = "off"]
  BY DEF Logout, LogoutCurrent, Notify
<1>2. Left(p, L)
  BY <1>1, KnownRooms, LeaveRooms
<1>3. L \ R!Hosted(p) \subseteq DOMAIN sessions
  BY DEF R!Joined
<1>4. c \in Push /\ Fit(c) /\ c.subject = p /\ c.rest = L \ R!Hosted(p)
  BY <1>3, FirstPush
<1> HIDE DEF L, c, box
<1>5. Parting(p, L, c, box)
  BY <1>1, <1>2, <1>4 DEF Parting, box
<1>6. QED
  BY <1>4, <1>5 DEF L, box

\* The game is killed, or bounces out of a room that has closed.
LEMMA OutOfRoomIs ==
  ASSUME NoticeInv, NEW p \in Pid, Crash(p) \/ RoomClosed(p)
  PROVE  GoneHome(p)
<1>1. UNCHANGED <<sessions, nextGid, stale, pushes>> /\ Home(p)
  BY DEF Crash, RoomClosed, roomVars
<1>2. R!TypeOK'
  BY <1>1, KnownRooms DEF R!TypeOK
<1>3. QED
  BY <1>1, <1>2 DEF GoneHome, Crash, RoomClosed

\* However a player departs
LEMMA DepartureStep ==
  ASSUME NoticeInv, NEW p \in Pid,
         EndParticipation(p) \/ Logout(p) \/ Crash(p) \/ RoomClosed(p)
  PROVE  NoticeInv'
BY EndParticipationIs, LogoutIs, OutOfRoomIs, PartingStep, GoneHomeStep

\* A game without a roster enters room g, or stays where it is (NoRoom): rooms
\* may have closed, new ones have new gids, and no member has left.
Enters(p, g) ==
  /\ R!TypeOK' /\ nextGid <= nextGid'
  /\ \A r \in DOMAIN sessions' :
       /\ r # NoRoom /\ r <= nextGid'
       /\ \/ r \in DOMAIN sessions /\ sessions[r].participants \subseteq sessions'[r].participants
          \/ nextGid < r
  /\ g \in Nat /\ g <= nextGid' /\ (g \in DOMAIN sessions' => p \in sessions'[g].participants)
  /\ conn[p] = "up" /\ room[p] = NoRoom /\ room' = [room EXCEPT ![p] = g]
  /\ UNCHANGED <<conn, stale, pushes, inbox, roster>>

\* and one that enters a room that knows it in no stale slot.
\* and one that enters a room.
LEMMA EntersStep ==
  ASSUME NoticeInv, NEW p \in Pid, NEW g, Enters(p, g)
  PROVE  NoticeInv'
<1>1. /\ R!TypeOK' /\ nextGid <= nextGid' /\ nextGid' \in Nat
      /\ \A r \in DOMAIN sessions' :
           /\ r # NoRoom /\ r <= nextGid'
           /\ \/ r \in DOMAIN sessions /\ sessions[r].participants \subseteq sessions'[r].participants
              \/ nextGid < r
      /\ DOMAIN sessions' \subseteq Nat
  BY DEF Enters, R!TypeOK
<1>2. g \in Nat /\ g <= nextGid' /\ (g \in DOMAIN sessions' => p \in sessions'[g].participants)
  BY DEF Enters
<1>3. UNCHANGED <<conn, stale, pushes, inbox, roster>> /\ conn[p] = "up" /\ room[p] = NoRoom
  BY DEF Enters
<1>4. /\ room' \in [Pid -> Nat] /\ room'[p] = g
      /\ \A q \in Pid \ {p} : room'[q] = room[q]
  BY <1>2, KnownGames DEF Enters
<1>5. roster[p] = {}
  BY <1>3, KnownGames
<1>6. TypeOK'
  <2>1. pushes' \subseteq Push /\ \A d \in pushes' : d.subject \notin d.to /\ d.gid \notin d.rest
    BY <1>3, KnownPushes, FitPushes
  <2>2. \A q \in Pid : conn'[q] # "up" => room'[q] = NoRoom /\ inbox'[q] = <<>>
    BY <1>3, <1>4, KnownGames
  <2>3. \A q \in Pid : room'[q] = NoRoom => roster'[q] = {}
    BY <1>3, <1>4, <1>5, KnownGames
  <2>4. QED
    BY <1>1, <1>3, <1>4, <2>1, <2>2, <2>3, KnownGames, KnownPushes DEF TypeOK
<1>7. \A q \in Pid \ {p} : room'[q] \in DOMAIN sessions' =>
         /\ room[q] \in DOMAIN sessions
         /\ sessions[room[q]].participants \subseteq sessions'[room'[q]].participants
  BY <1>1, <1>4, KnownRooms, KnownGames
<1>8. GidsIssued'
  <2>1. \A q \in Pid : room'[q] <= nextGid'
    <3>1. \A q \in Pid : room[q] \in Nat /\ room[q] <= nextGid /\ nextGid \in Nat
      BY KnownRooms, KnownGames
    <3>2. \A q \in Pid : room[q] <= nextGid'
      BY <1>1, <3>1
    <3>3. QED
      BY <1>2, <1>4, <3>2
  <2>2. QED
    BY <1>1, <2>1 DEF GidsIssued, NoRoom
<1>9. Seated'
  BY <1>2, <1>4, <1>7, KnownRooms DEF Seated
<1>10. Witnessed'
  <2> SUFFICES ASSUME NEW x \in Pid, NEW q \in Pid, StaleSlot(q, x)'
               PROVE  Tells(inbox', q, x) \/ \E e \in pushes' : WillTell(e, q, x, room'[q])
    BY DEF Witnessed, Tells, WillTell
  <2>1. /\ room'[q] \in DOMAIN sessions' /\ x \in roster[q]
        /\ x \notin sessions'[room'[q]].participants
    BY <1>3 DEF StaleSlot
  <2>2. q # p
    BY <1>5, <2>1
  <2>3. StaleSlot(q, x)
    BY <1>4, <1>7, <2>1, <2>2 DEF StaleSlot
  <2>4. QED
    BY <1>3, <1>4, <2>2, <2>3 DEF NoticeInv, Witnessed, Tells
<1>11. QED
  BY <1>3, <1>6, <1>8, <1>9, <1>10 DEF NoticeInv

\* create, where a full registry refuses
LEMMA CreateStep ==
  ASSUME NoticeInv, NEW p \in Pid, CreateMatchmakeSession(p)
  PROVE  NoticeInv' /\ \A q \in Pid : room'[p] # NoRoom => room[q] # room'[p]
<1> DEFINE g == IF nextGid' = nextGid THEN NoRoom ELSE nextGid'
<1>1. /\ R!CreateMatchmakeSession(p) /\ conn[p] = "up" /\ room[p] = NoRoom
      /\ room' = [room EXCEPT ![p] = g]
      /\ UNCHANGED <<conn, stale, pushes, inbox, roster>>
  BY DEF CreateMatchmakeSession
<1>2. GidsIssued
  BY DEF NoticeInv
<1>3. /\ R!TypeOK'
      /\ nextGid' \in {nextGid, nextGid + 1}
      /\ \A r \in DOMAIN sessions' :
           \/ r \in DOMAIN sessions /\ sessions'[r] = sessions[r]
           \/ r = nextGid + 1 /\ nextGid' = r /\ sessions'[r].participants = {p}
  BY <1>1, <1>2, KnownRooms, CreateRooms
<1>4. /\ g \in Nat /\ g <= nextGid' /\ (g \in DOMAIN sessions' => p \in sessions'[g].participants)
  BY <1>3, KnownRooms DEF NoRoom
<1>5. \A r \in DOMAIN sessions' :
        /\ r # NoRoom /\ r <= nextGid'
        /\ \/ r \in DOMAIN sessions /\ sessions[r].participants \subseteq sessions'[r].participants
           \/ nextGid < r
  BY <1>3, KnownRooms DEF NoRoom
<1>6. nextGid <= nextGid'
  BY <1>3, KnownRooms
<1>7. \A q \in Pid : g # NoRoom => room[q] # g
  BY <1>3, KnownRooms, KnownGames
<1>8. room'[p] = g
  BY <1>1, KnownGames
<1> HIDE DEF g
<1>9. Enters(p, g)
  BY <1>1, <1>3, <1>4, <1>5, <1>6 DEF Enters
<1>10. QED
  BY <1>7, <1>8, <1>9, EntersStep

\* So does a join, which takes the game into the room.
\* A join takes the game into the room.
LEMMA JoinStep ==
  ASSUME NoticeInv, NEW p \in Pid, NEW g, JoinMatchmakeSession(p, g)
  PROVE  NoticeInv' /\ room'[p] = g /\ g \in DOMAIN sessions
<1>1. /\ R!JoinMatchmakeSession(p, g) /\ conn[p] = "up" /\ room[p] = NoRoom
      /\ room' = [room EXCEPT ![p] = g]
      /\ UNCHANGED <<conn, stale, pushes, inbox, roster>>
  BY DEF JoinMatchmakeSession
<1>2. /\ R!TypeOK' /\ nextGid' = nextGid
      /\ g \in DOMAIN sessions /\ DOMAIN sessions' = DOMAIN sessions
      /\ \A r \in DOMAIN sessions :
           sessions'[r].participants =
             IF r = g THEN sessions[r].participants \cup {p} ELSE sessions[r].participants
  BY <1>1, KnownRooms, JoinRooms
<1>3. Enters(p, g)
  <2>1. g \in Nat /\ g <= nextGid' /\ nextGid <= nextGid'
    BY <1>2, KnownRooms
  <2>2. p \in sessions'[g].participants
    BY <1>2
  <2>3. \A r \in DOMAIN sessions' :
          r # NoRoom /\ r <= nextGid' /\ sessions[r].participants \subseteq sessions'[r].participants
    BY <1>2, KnownRooms
  <2>4. QED
    BY <1>1, <1>2, <2>1, <2>2, <2>3 DEF Enters
<1>4. QED
  BY <1>1, <1>2, <1>3, EntersStep, KnownGames

\* The game connects; a replaced connection ends.
LEMMA ConnectionStep ==
  ASSUME NoticeInv, NEW p \in Pid, Connect(p) \/ StaleLogout(p)
  PROVE  NoticeInv'
<1>1. UNCHANGED <<sessions, nextGid, pushes, inbox, room, roster>>
  BY DEF Connect, StaleLogout, roomVars, gameVars
<1>2. /\ conn' \in [Pid -> {"off", "up", "dead"}] /\ stale' \subseteq Pid
      /\ \A q \in Pid : conn'[q] # "up" => conn[q] # "up"
  BY KnownGames DEF Connect, StaleLogout
<1>3. TypeOK'
  <2>1. R!TypeOK'
    BY <1>1, KnownRooms DEF R!TypeOK
  <2>2. \A q \in Pid : conn'[q] # "up" => room'[q] = NoRoom /\ inbox'[q] = <<>>
    BY <1>1, <1>2, KnownGames
  <2>3. QED
    BY <1>1, <1>2, <2>1, <2>2 DEF NoticeInv, TypeOK
<1>4. QED
  BY <1>1, <1>3 DEF NoticeInv, GidsIssued, Seated, Witnessed, StaleSlot, Tells

\* Two members of a room link up: the slot is not stale.
LEMMA LinkUpStep ==
  ASSUME NoticeInv, NEW q \in Pid, NEW p \in Pid, LinkUp(q, p)
  PROVE  NoticeInv'
<1>1. /\ UNCHANGED <<sessions, nextGid, conn, stale, pushes, inbox, room>>
      /\ room[p] = room[q] /\ room[p] \in DOMAIN sessions
      /\ roster' = [roster EXCEPT ![q] = roster[q] \cup {p}]
  BY DEF LinkUp, Together, roomVars
<1>2. /\ roster' \in [Pid -> SUBSET Pid]
      /\ \A x \in Pid : roster'[x] = IF x = q THEN roster[x] \cup {p} ELSE roster[x]
  BY <1>1, KnownGames
<1>3. p \in sessions[room[q]].participants
  BY <1>1, KnownRooms
<1>4. room[q] # NoRoom
  BY <1>1, KnownRooms
<1>5. \A x, y \in Pid : StaleSlot(x, y)' => StaleSlot(x, y)
  BY <1>1, <1>2, <1>3 DEF StaleSlot
<1>6. TypeOK'
  <2>1. R!TypeOK'
    BY <1>1, KnownRooms DEF R!TypeOK
  <2>2. \A x \in Pid : room'[x] = NoRoom => roster'[x] = {}
    BY <1>1, <1>2, <1>4, KnownGames
  <2>3. QED
    BY <1>1, <1>2, <2>1, <2>2 DEF NoticeInv, TypeOK
<1>7. QED
  BY <1>1, <1>5, <1>6 DEF NoticeInv, GidsIssued, Seated, Witnessed, Tells

\* A notice frees the slot it is about; those behind it are about others.
LEMMA DeliverStep ==
  ASSUME NoticeInv, NEW q \in Pid, Deliver(q)
  PROVE  NoticeInv'
<1> DEFINE s == Head(inbox[q]).subject
<1>1. /\ UNCHANGED <<sessions, nextGid, conn, stale, pushes, room>>
      /\ inbox[q] # <<>>
      /\ roster' = [roster EXCEPT ![q] = roster[q] \ {s}]
      /\ inbox' = [inbox EXCEPT ![q] = Tail(inbox[q])]
  BY DEF Deliver, roomVars
<1>2. /\ inbox[q] \in Seq(Notice) /\ Tail(inbox[q]) \in Seq(Notice)
      /\ Len(inbox[q]) \in Nat /\ DOMAIN inbox[q] = 1 .. Len(inbox[q])
      /\ Head(inbox[q]) = inbox[q][1] /\ Len(Tail(inbox[q])) = Len(inbox[q]) - 1
      /\ \A i \in 1 .. Len(Tail(inbox[q])) : Tail(inbox[q])[i] = inbox[q][i + 1]
      /\ DOMAIN Tail(inbox[q]) = 1 .. Len(Tail(inbox[q]))
  BY <1>1, KnownPushes, HeadTailProperties, LenProperties
<1>3. /\ DOMAIN inbox' = Pid /\ inbox'[q] = Tail(inbox[q])
      /\ \A x \in Pid \ {q} : inbox'[x] = inbox[x]
  BY <1>1, KnownPushes
<1>4. \A p \in Pid : Tells(inbox, q, p) => p = s \/ Tells(inbox', q, p)
  <2> SUFFICES ASSUME NEW p \in Pid, Tells(inbox, q, p), p # s
               PROVE  Tells(inbox', q, p)
    OBVIOUS
  <2>1. PICK i \in DOMAIN inbox[q] : inbox[q][i].subject = p
    BY DEF Tells
  <2>2. i # 1
    BY <1>2, <2>1
  <2>3. i - 1 \in DOMAIN Tail(inbox[q]) /\ Tail(inbox[q])[i - 1] = inbox[q][i]
    BY <1>2, <2>1, <2>2
  <2>4. QED
    BY <1>3, <2>1, <2>3 DEF Tells
<1> HIDE DEF s
<1>5. /\ roster' \in [Pid -> SUBSET Pid]
      /\ \A x \in Pid : roster'[x] = IF x = q THEN roster[x] \ {s} ELSE roster[x]
  BY <1>1, KnownGames
<1>6. TypeOK'
  <2>1. R!TypeOK'
    BY <1>1, KnownRooms DEF R!TypeOK
  <2>2. /\ \A x \in Pid : inbox'[x] \in Seq(Notice)
        /\ \A x \in Pid : conn'[x] # "up" => room'[x] = NoRoom /\ inbox'[x] = <<>>
    BY <1>1, <1>2, <1>3, KnownPushes, KnownGames
  <2>3. \A x \in Pid : room'[x] = NoRoom => roster'[x] = {}
    BY <1>1, <1>5, KnownGames
  <2>4. QED
    BY <1>1, <1>3, <1>5, <2>1, <2>2, <2>3 DEF NoticeInv, TypeOK
<1>7. Witnessed'
  <2> SUFFICES ASSUME NEW p \in Pid, NEW x \in Pid, StaleSlot(x, p)'
               PROVE  Tells(inbox', x, p) \/ \E e \in pushes' : WillTell(e, x, p, room'[x])
    BY DEF Witnessed, Tells, WillTell
  <2>1. StaleSlot(x, p) /\ (x = q => p # s)
    BY <1>1, <1>5 DEF StaleSlot
  <2>2. Tells(inbox, x, p) \/ \E e \in pushes : WillTell(e, x, p, room[x])
    BY <2>1 DEF NoticeInv, Witnessed
  <2>3. Tells(inbox, x, p) => Tells(inbox', x, p)
    BY <1>3, <1>4, <2>1 DEF Tells
  <2>4. QED
    BY <1>1, <2>2, <2>3
<1>8. QED
  BY <1>1, <1>6, <1>7 DEF NoticeInv, GidsIssued, Seated

-----------------------------------------------------------------------------
(* The theorems.                                                           *)

\* The server starts with nobody in a room and nothing to say.
LEMMA NoticeInvInit == Init => NoticeInv
<1> SUFFICES ASSUME Init
             PROVE  NoticeInv
  OBVIOUS
<1>1. /\ sessions = NoEntries /\ nextGid = R!FirstGid
      /\ conn = [p \in Pid |-> "off"] /\ stale = {} /\ pushes = {}
      /\ inbox = [p \in Pid |-> <<>>]
      /\ room = [p \in Pid |-> NoRoom] /\ roster = [p \in Pid |-> {}]
  BY DEF Init, R!Init, R!NoEntries, NoEntries
<1>2. DOMAIN sessions = {} /\ nextGid \in Nat
  BY <1>1 DEF NoEntries, R!FirstGid
<1>3. R!TypeOK
  BY <1>1, <1>2 DEF R!TypeOK, NoEntries
<1>4. <<>> \in Seq(Notice)
  OBVIOUS
<1>5. TypeOK
  BY <1>1, <1>3, <1>4 DEF TypeOK, NoRoom
<1>6. GidsIssued /\ Seated /\ Witnessed
  BY <1>1, <1>2 DEF GidsIssued, Seated, Witnessed, StaleSlot, NoRoom
<1>7. QED
  BY <1>1, <1>5, <1>6 DEF NoticeInv

\* Every step keeps the invariant.
LEMMA NoticeInvStep == NoticeInv /\ [Next]_vars => NoticeInv'
<1> SUFFICES ASSUME NoticeInv, [Next]_vars
             PROVE  NoticeInv'
  OBVIOUS
<1>1. CASE UNCHANGED vars
  <2>1. UNCHANGED <<sessions, nextGid, conn, stale, pushes, inbox, room, roster>>
    BY <1>1 DEF vars, roomVars, gameVars
  <2>2. QED
    BY <2>1 DEF NoticeInv, TypeOK, R!TypeOK, GidsIssued, Seated, Witnessed, StaleSlot, Tells
<1>2. CASE Next
  BY <1>2, CreateStep, JoinStep, DepartureStep, ConnectionStep, DeliverStep, LinkUpStep,
     PushOnStep DEF Next
<1>3. QED
  BY <1>1, <1>2

\* The invariant holds however quickly players come back.
THEOREM NoticeInvariant == Spec => []NoticeInv
<1>1. QED
  BY NoticeInvInit, NoticeInvStep, PTL DEF Spec

\* Types: a push never goes to the player it is about, and a game without a live
\* connection is in no room and receives nothing.
THEOREM NoticeTypes == Spec => []TypeOK
<1>1. NoticeInv => TypeOK
  BY DEF NoticeInv
<1>2. QED
  BY <1>1, NoticeInvariant, PTL

\* Behind every slot that a departure has made stale there is a notice on its way
\* to that game, or a suspended push that has still to reach it: nobody is
\* forgotten, however the loop of push_participation_left interleaves.
THEOREM NoticesAreUnderWay == Spec => []NoticeUnderWay
<1>1. NoticeInv => NoticeUnderWay
  <2> SUFFICES ASSUME NoticeInv, NEW p \in Pid, NEW q \in Pid, StaleSlot(q, p)
               PROVE  \/ \E i \in DOMAIN inbox[q] : inbox[q][i].subject = p
                      \/ \E c \in pushes : c.subject = p /\
                            \E g \in {c.gid} \cup c.rest : q \in Remaining(c, g, sessions)
    BY DEF NoticeUnderWay
  <2>1. CASE Tells(inbox, q, p)
    BY <2>1 DEF Tells
  <2>2. CASE \E c \in pushes : WillTell(c, q, p, room[q])
    <3>1. PICK c \in pushes : WillTell(c, q, p, room[q])
      BY <2>2
    <3>2. CASE q \in c.to
      BY <3>1, <3>2 DEF WillTell, Remaining
    <3>3. CASE room[q] \in c.rest
      <4>1. /\ room[q] \in DOMAIN sessions /\ q \in sessions[room[q]].participants
            /\ p \notin sessions[room[q]].participants
        BY KnownRooms DEF StaleSlot
      <4>2. c.gid \notin c.rest
        BY KnownPushes DEF Push, Fit
      <4>3. q \in Remaining(c, room[q], sessions)
        BY <3>1, <3>3, <4>1, <4>2 DEF WillTell, Remaining, TargetsIn
      <4>4. QED
        BY <3>1, <3>3, <4>3 DEF WillTell
    <3>4. QED
      BY <3>1, <3>2, <3>3 DEF WillTell
  <2>3. QED
    BY <2>1, <2>2 DEF NoticeInv, Witnessed
<1>2. QED
  BY <1>1, NoticeInvariant, PTL

-----------------------------------------------------------------------------
(* Players who enter a room no sooner than the notices about them arrive.  *)

\* Nothing is under way about a player in a room.
Quiet == \A p \in Pid : room[p] # NoRoom => ~NoticedSoon(p)

Spoken(p) == \E q \in Pid : Tells(inbox, q, p)

\* What is said soon is being said, or waits in an inbox.
LEMMA SoonIs == \A p \in Pid : NoticedSoon(p) <=> (\E c \in pushes : c.subject = p) \/ Spoken(p)
BY DEF NoticedSoon, Spoken, Tells

\* A push that runs says nothing about anybody else.
LEMMA RunSays ==
  ASSUME NoticeInv, NEW c \in Push, Fit(c), NEW S, RoomsOf(S),
         NEW others, others \subseteq pushes,
         NEW box, DOMAIN box = Pid, \A q \in Pid : box[q] \in Seq(Notice),
         \A q \in Pid : box[q] \in {inbox[q], <<>>},
         Run(c, S, others, box), NEW p \in Pid, NoticedSoon(p)'
  PROVE  NoticedSoon(p) \/ c.subject = p
<1>1. CASE \E d \in pushes' : d.subject = p
  BY SoonIs, <1>1, RunTypes
<1>2. CASE Spoken(p)'
  <2>1. PICK q \in Pid : Tells(inbox', q, p)
    BY <1>2 DEF Spoken, Tells
  <2>2. PICK i \in DOMAIN inbox'[q] : inbox'[q][i].subject = p
    BY <2>1 DEF Tells
  <2>3. CASE inbox'[q] = box[q]
    <3>1. DOMAIN <<>> = {}
      OBVIOUS
    <3>2. box[q] = inbox[q]
      BY <2>2, <2>3, <3>1
    <3>3. QED
      BY SoonIs, <2>2, <2>3, <3>2 DEF Spoken, Tells
  <2>4. CASE inbox'[q] = Append(box[q], Message(c)) /\ Message(c) \in Notice
    <3>1. /\ box[q] \in Seq(Notice) /\ Len(box[q]) \in Nat /\ DOMAIN box[q] = 1 .. Len(box[q])
          /\ inbox'[q] \in Seq(Notice) /\ Len(inbox'[q]) = Len(box[q]) + 1
          /\ DOMAIN inbox'[q] = 1 .. Len(inbox'[q])
          /\ inbox'[q][Len(box[q]) + 1] = Message(c)
          /\ \A j \in 1 .. Len(box[q]) : inbox'[q][j] = box[q][j]
      BY <2>4, AppendProperties, LenProperties
    <3>2. CASE i = Len(box[q]) + 1
      BY <2>2, <3>1, <3>2 DEF Message
    <3>3. CASE i # Len(box[q]) + 1
      <4>1. i \in DOMAIN box[q] /\ box[q][i].subject = p
        BY <2>2, <3>1, <3>3
      <4>2. DOMAIN <<>> = {}
        OBVIOUS
      <4>3. box[q] = inbox[q]
        BY <4>1, <4>2
      <4>4. QED
        BY SoonIs, <4>1, <4>3 DEF Spoken, Tells
    <3>4. QED
      BY <3>2, <3>3
  <2>5. QED
    BY <2>3, <2>4, RunTypes
<1>3. QED
  BY <1>1, <1>2 DEF NoticedSoon, Spoken, Tells

\* Where nothing runs, what is received is kept, dropped or delivered.
LEMMA NothingRuns ==
  ASSUME NoticeInv, NEW p \in Pid, NoticedSoon(p)', pushes' = pushes,
         \A q \in Pid : inbox'[q] \in {inbox[q], <<>>} \/ (inbox[q] # <<>> /\ inbox'[q] = Tail(inbox[q]))
  PROVE  NoticedSoon(p)
<1>1. CASE \E c \in pushes : c.subject = p
  BY <1>1 DEF NoticedSoon
<1>2. CASE Spoken(p)'
  <2>1. PICK q \in Pid : Tells(inbox', q, p)
    BY <1>2 DEF Spoken, Tells
  <2>2. PICK i \in DOMAIN inbox'[q] : inbox'[q][i].subject = p
    BY <2>1 DEF Tells
  <2>3. DOMAIN <<>> = {}
    OBVIOUS
  <2>4. CASE inbox'[q] = inbox[q]
    BY <2>2, <2>4, SoonIs DEF Spoken, Tells
  <2>5. CASE inbox[q] # <<>> /\ inbox'[q] = Tail(inbox[q])
    <3>1. /\ inbox[q] \in Seq(Notice) /\ Tail(inbox[q]) \in Seq(Notice)
          /\ Len(inbox[q]) \in Nat /\ DOMAIN inbox[q] = 1 .. Len(inbox[q])
          /\ Len(Tail(inbox[q])) = Len(inbox[q]) - 1
          /\ \A j \in 1 .. Len(Tail(inbox[q])) : Tail(inbox[q])[j] = inbox[q][j + 1]
          /\ DOMAIN Tail(inbox[q]) = 1 .. Len(Tail(inbox[q]))
      BY <2>5, KnownPushes, HeadTailProperties, LenProperties
    <3>2. i + 1 \in DOMAIN inbox[q] /\ inbox[q][i + 1].subject = p
      BY <2>2, <2>5, <3>1
    <3>3. QED
      BY <3>2, SoonIs DEF Spoken, Tells
  <2>6. QED
    BY <2>2, <2>3, <2>4, <2>5
<1>3. QED
  BY <1>1, <1>2 DEF NoticedSoon, Spoken, Tells

\* The players left behind by a departure are told of nobody but the player that
\* left.
LEMMA PartingSays ==
  ASSUME NoticeInv, NEW x \in Pid, NEW L \in SUBSET R!Joined(x), NEW c, NEW box,
         Parting(x, L, c, box), NEW p \in Pid, NoticedSoon(p)'
  PROVE  NoticedSoon(p) \/ room'[p] = NoRoom
<1>1. /\ c \in Push /\ Fit(c) /\ c.subject = x /\ Run(c, sessions', pushes, box)
  BY DEF Parting
<1>2. \/ box = inbox
      \/ box = [inbox EXCEPT ![x] = <<>>]
  BY DEF Parting
<1>3. RoomsOf(sessions')
  BY DEF Parting, Left, RoomsOf, R!TypeOK, R!Session
<1>4. <<>> \in Seq(Notice)
  OBVIOUS
<1>5. /\ DOMAIN box = Pid /\ \A q \in Pid : box[q] \in Seq(Notice)
      /\ \A q \in Pid : box[q] \in {inbox[q], <<>>}
  BY <1>2, <1>4, KnownPushes
<1>6. room'[x] = NoRoom
  BY KnownGames DEF Parting, Home
<1>7. NoticedSoon(p) \/ x = p
  BY <1>1, <1>3, <1>5, RunSays
<1>8. QED
  BY <1>6, <1>7
\* However a player departs, the talk is about a player who ends up in no room.
LEMMA DepartureSays ==
  ASSUME NoticeInv, NEW x \in Pid,
         EndParticipation(x) \/ Logout(x) \/ Crash(x) \/ RoomClosed(x),
         NEW p \in Pid, NoticedSoon(p)'
  PROVE  NoticedSoon(p) \/ room'[p] = NoRoom
<1>1. ASSUME GoneHome(x)
      PROVE  NoticedSoon(p)
  <2>1. pushes' = pushes /\ (inbox' = inbox \/ inbox' = [inbox EXCEPT ![x] = <<>>])
    BY <1>1 DEF GoneHome
  <2>2. \A q \in Pid : inbox'[q] \in {inbox[q], <<>>}
    BY <2>1, KnownPushes
  <2>3. QED
    BY <2>1, <2>2, NothingRuns
<1>2. QED
  BY <1>1, EndParticipationIs, LogoutIs, OutOfRoomIs, PartingSays

\* What starts to be said in a step is about a player that ends it in no room.
LEMMA WhatIsSaid ==
  ASSUME NoticeInv, [Next]_vars, NEW p \in Pid, NoticedSoon(p)'
  PROVE  NoticedSoon(p) \/ room'[p] = NoRoom
<1>1. ASSUME UNCHANGED <<pushes, inbox>>
      PROVE  NoticedSoon(p)
  BY <1>1, NothingRuns
<1>2. CASE UNCHANGED vars
  BY <1>1, <1>2 DEF vars
<1>3. ASSUME NEW x \in Pid,
             \/ CreateMatchmakeSession(x) \/ StaleLogout(x) \/ Connect(x)
             \/ \E g \in DOMAIN sessions : JoinMatchmakeSession(x, g)
             \/ \E q \in Pid : LinkUp(x, q)
      PROVE  NoticedSoon(p)
  BY <1>1, <1>3 DEF CreateMatchmakeSession, StaleLogout, Connect, JoinMatchmakeSession, LinkUp
<1>4. ASSUME NEW x \in Pid, Deliver(x)
      PROVE  NoticedSoon(p)
  <2>1. pushes' = pushes /\ inbox[x] # <<>> /\ inbox' = [inbox EXCEPT ![x] = Tail(inbox[x])]
    BY <1>4 DEF Deliver
  <2>2. \A q \in Pid : inbox'[q] = IF q = x THEN Tail(inbox[q]) ELSE inbox[q]
    BY <2>1, KnownPushes
  <2>3. \A q \in Pid : \/ inbox'[q] \in {inbox[q], <<>>}
                      \/ (inbox[q] # <<>> /\ inbox'[q] = Tail(inbox[q]))
    BY <2>1, <2>2
  <2>4. QED
    BY <2>1, <2>3, NothingRuns
<1>5. ASSUME NEW c \in pushes, PushOn(c)
      PROVE  NoticedSoon(p)
  <2>1. Run(c, sessions, pushes \ {c}, inbox)
    BY <1>5 DEF PushOn
  <2>2. NoticedSoon(p) \/ c.subject = p
    BY <2>1, KnownPushes, KnownRooms, RunSays
  <2>3. QED
    BY <2>2 DEF NoticedSoon
<1>6. CASE Next
  BY <1>3, <1>4, <1>5, <1>6, DepartureSays DEF Next
<1>7. QED
  BY <1>2, <1>6

\* Only a create or a join takes a game into a room.
LEMMA Entering ==
  ASSUME NoticeInv, [Next]_vars, NEW p \in Pid, room[p] = NoRoom, room'[p] # NoRoom
  PROVE  CreateMatchmakeSession(p) \/ \E g \in DOMAIN sessions : JoinMatchmakeSession(p, g)
<1>1. CASE room' = room
  BY <1>1
<1>2. ASSUME NEW x \in Pid, Home(x)
      PROVE  FALSE
  BY <1>2, KnownGames DEF Home
<1>3. ASSUME NEW x \in Pid, EndParticipation(x) \/ Logout(x) \/ Crash(x) \/ RoomClosed(x)
      PROVE  FALSE
  BY <1>2, <1>3 DEF EndParticipation, Logout, LogoutCurrent, Crash, RoomClosed
<1>4. ASSUME NEW x \in Pid,
             CreateMatchmakeSession(x) \/ \E g \in DOMAIN sessions : JoinMatchmakeSession(x, g)
      PROVE  x = p
  BY <1>4, KnownGames DEF CreateMatchmakeSession, JoinMatchmakeSession
<1>5. ASSUME NEW x \in Pid,
             \/ StaleLogout(x) \/ Connect(x) \/ Deliver(x)
             \/ \E q \in Pid : LinkUp(x, q)
             \/ \E c \in pushes : PushOn(c)
      PROVE  FALSE
  BY <1>1, <1>5 DEF StaleLogout, Connect, Deliver, LinkUp, PushOn, gameVars
<1>6. CASE UNCHANGED vars
  BY <1>1, <1>6 DEF vars, gameVars
<1>7. CASE Next
  BY <1>3, <1>4, <1>5, <1>7 DEF Next
<1>8. QED
  BY <1>6, <1>7

\* Nobody in a room is still being said to have left, when rejoins are slow.
LEMMA QuietStep ==
  ASSUME NoticeInv, ~QuickRejoin, Quiet, [Next]_vars
  PROVE  Quiet'
<1> SUFFICES ASSUME NEW p \in Pid, room'[p] # NoRoom, NoticedSoon(p)'
             PROVE  FALSE
  BY DEF Quiet, NoticedSoon
<1>1. NoticedSoon(p)
  BY WhatIsSaid
<1>2. room[p] = NoRoom
  BY <1>1 DEF Quiet
<1>3. CreateMatchmakeSession(p) \/ \E g \in DOMAIN sessions : JoinMatchmakeSession(p, g)
  BY <1>2, Entering
<1>4. QED
  BY <1>1, <1>3 DEF CreateMatchmakeSession, JoinMatchmakeSession, Unhurried

\* Nothing is under way about a player in a room, if players wait for that.
LEMMA QuietInvariant ==
  ASSUME ~QuickRejoin
  PROVE  Spec => []Quiet
<1>1. Init => Quiet
  BY DEF Init, Quiet
<1>2. NoticeInv /\ Quiet /\ [Next]_vars => Quiet'
  BY QuietStep
<1>3. QED
  BY <1>1, <1>2, NoticeInvariant, PTL DEF Spec

\* A player that comes into a room finds no slot of its own there, left behind by
\* its last stay: its rejoin does not drift to a new roster slot.
THEOREM RejoinsAreClean ==
  ASSUME ~QuickRejoin
  PROVE  Spec => RejoinsClean
<1>1. NoticeInv /\ [Next]_vars =>
        [\A p \in Pid : room[p] = NoRoom /\ room'[p] # NoRoom
           => \A q \in Pid : room[q] = room'[p] => p \notin roster[q]]_vars
  <2> SUFFICES ASSUME NoticeInv, [Next]_vars,
                      NEW p \in Pid, room[p] = NoRoom, room'[p] # NoRoom,
                      NEW q \in Pid, room[q] = room'[p], p \in roster[q]
               PROVE  FALSE
    OBVIOUS
  <2>1. CASE CreateMatchmakeSession(p)
    BY <2>1, CreateStep
  <2>2. CASE \E g \in DOMAIN sessions : JoinMatchmakeSession(p, g)
    <3>1. PICK g \in DOMAIN sessions : JoinMatchmakeSession(p, g)
      BY <2>2
    <3>2. room'[p] = g /\ p \notin sessions[g].participants /\ ~NoticedSoon(p)
      BY <3>1, JoinStep DEF JoinMatchmakeSession, Unhurried, R!Joined
    <3>3. StaleSlot(q, p)
      BY <3>2 DEF StaleSlot
    <3>4. Tells(inbox, q, p) \/ \E c \in pushes : WillTell(c, q, p, room[q])
      BY <3>3 DEF NoticeInv, Witnessed
    <3>5. NoticedSoon(p)
      BY <3>4 DEF NoticedSoon, Tells, WillTell
    <3>6. QED
      BY <3>2, <3>5
  <2>3. QED
    BY <2>1, <2>2, Entering
<1>2. QED
  BY <1>1, NoticeInvariant, PTL DEF Spec, RejoinsClean

\* No notice frees the slot of a player who is in the room: neither a late one,
\* nor one sent by the end of a connection that was replaced.
THEOREM LiveSlotsAreKept ==
  ASSUME ~QuickRejoin
  PROVE  Spec => LiveSlotsKept
<1>1. NoticeInv /\ Quiet /\ [Next]_vars =>
        [\A p, q \in Pid :
           p \in roster[q] /\ Together(p, q) /\ room'[q] = room[q] /\ room'[p] = room[p]
             => p \in roster'[q]]_vars
  <2> SUFFICES ASSUME NoticeInv, Quiet, Next, NEW p \in Pid, NEW q \in Pid,
                      p \in roster[q], Together(p, q), room'[q] = room[q]
               PROVE  p \in roster'[q]
    OBVIOUS
  <2>1. room[q] # NoRoom /\ room[p] # NoRoom
    BY DEF Together
  <2>2. ASSUME roster' = roster
        PROVE  p \in roster'[q]
    BY <2>2
  <2>3. ASSUME NEW x \in Pid, Home(x)
        PROVE  p \in roster'[q]
    <3>1. x # q
      BY <2>1, <2>3, KnownGames DEF Home
    <3>2. QED
      BY <2>3, <3>1, KnownGames DEF Home
  <2>4. ASSUME NEW x \in Pid, EndParticipation(x) \/ Logout(x) \/ Crash(x) \/ RoomClosed(x)
        PROVE  p \in roster'[q]
    BY <2>3, <2>4 DEF EndParticipation, Logout, LogoutCurrent, Crash, RoomClosed
  <2>5. ASSUME NEW x \in Pid,
               \/ CreateMatchmakeSession(x) \/ StaleLogout(x) \/ Connect(x)
               \/ \E g \in DOMAIN sessions : JoinMatchmakeSession(x, g)
               \/ \E c \in pushes : PushOn(c)
        PROVE  p \in roster'[q]
    BY <2>2, <2>5 DEF CreateMatchmakeSession, StaleLogout, Connect, JoinMatchmakeSession, PushOn,
                      gameVars
  <2>6. ASSUME NEW x \in Pid, NEW y \in Pid, LinkUp(x, y)
        PROVE  p \in roster'[q]
    BY <2>6, KnownGames DEF LinkUp
  <2>7. ASSUME NEW x \in Pid, Deliver(x)
        PROVE  p \in roster'[q]
    <3>1. /\ inbox[x] # <<>> /\ inbox[x] \in Seq(Notice)
          /\ roster' = [roster EXCEPT ![x] = roster[x] \ {Head(inbox[x]).subject}]
      BY <2>7, KnownPushes DEF Deliver
    <3>2. 1 \in DOMAIN inbox[x] /\ Head(inbox[x]) = inbox[x][1]
      BY <3>1, HeadTailProperties, LenProperties
    <3>3. Head(inbox[x]).subject # p
      BY <2>1, <3>2 DEF Quiet, NoticedSoon
    <3>4. QED
      BY <3>1, <3>3, KnownGames
  <2>8. QED
    BY <2>4, <2>5, <2>6, <2>7 DEF Next
<1>2. QED
  BY <1>1, NoticeInvariant, QuietInvariant, PTL DEF Spec, LiveSlotsKept

-----------------------------------------------------------------------------
(* The rooms behind the notices.                                           *)

\* Every step is one of the room registry, or none.
LEMMA NoticesRoomStep ==
  ASSUME [Next]_vars
  PROVE  [R!Next]_(R!vars)
<1>1. CASE UNCHANGED roomVars
  BY <1>1 DEF roomVars, R!vars
<1>2. ASSUME NEW p \in Pid, R!CreateMatchmakeSession(p) \/ R!Leave(p)
      PROVE  R!Next
  BY <1>2 DEF R!Next
<1>3. ASSUME NEW p \in Pid, NEW g, R!JoinMatchmakeSession(p, g) \/ R!EndParticipation(p, g)
      PROVE  R!Next
  <2>1. g \in DOMAIN sessions
    BY <1>3 DEF R!JoinMatchmakeSession, R!EndParticipation, R!Joined
  <2>2. QED
    BY <1>3, <2>1 DEF R!Next
<1>4. ASSUME NEW p \in Pid, EndParticipation(p)
      PROVE  [R!Next]_(R!vars)
  BY <1>1, <1>3, <1>4 DEF EndParticipation
<1>5. ASSUME NEW p \in Pid, Logout(p) \/ CreateMatchmakeSession(p)
      PROVE  R!Next
  BY <1>2, <1>5 DEF Logout, LogoutCurrent, CreateMatchmakeSession
<1>6. ASSUME NEW p \in Pid, NEW g, JoinMatchmakeSession(p, g)
      PROVE  R!Next
  BY <1>3, <1>6 DEF JoinMatchmakeSession
<1>7. ASSUME NEW p \in Pid,
             \/ StaleLogout(p) \/ Connect(p) \/ Crash(p) \/ Deliver(p) \/ RoomClosed(p)
             \/ \E q \in Pid : LinkUp(p, q)
      PROVE  [R!Next]_(R!vars)
  BY <1>1, <1>7 DEF StaleLogout, Connect, Crash, Deliver, RoomClosed, LinkUp
<1>8. CASE UNCHANGED vars
  BY <1>1, <1>8 DEF vars
<1>9. ASSUME NEW c \in pushes, PushOn(c)
      PROVE  [R!Next]_(R!vars)
  BY <1>1, <1>9 DEF PushOn
<1>10. CASE Next
  BY <1>4, <1>5, <1>6, <1>7, <1>9, <1>10 DEF Next
<1>11. QED
  BY <1>8, <1>10

\* Whatever is announced and however late, the rooms obey the registry's own
\* specification: the handlers that push notices add nothing to what they call.
THEOREM NoticesImplementRooms == Spec => R!Spec
<1>1. Init => R!Init
  BY DEF Init
<1>2. [Next]_vars => [R!Next]_(R!vars)
  BY NoticesRoomStep
<1>3. QED
  BY <1>1, <1>2, PTL DEF Spec, R!Spec
=============================================================================
