------------------------------- MODULE Halls --------------------------------
(***************************************************************************)
(* CommunityRegistry (matchmaking_handlers.py): the gathering halls, their *)
(* lobbies, and the halls players create at run time.  No operation awaits,*)
(* so each is one step.                                                    *)
(***************************************************************************)
EXTENDS Naturals, Dict, PlayerIds

CONSTANTS
  Worlds,         \* gids of the seeded official halls, 0x101 ..
  Lobbies,        \* gids of their lobbies, 0x201 ..
  ServerPid,      \* owner of what is seeded, not a player
  MaxRuntime,     \* limits.MAX_RUNTIME_COMMUNITIES
  MaxPerOwner,    \* limits.MAX_COMMUNITIES_PER_OWNER
  MaxHallGid      \* bound of the model: the last runtime gid ever issued

FirstHallGid == 8192  \* 0x2000

Seeded == Worlds \cup Lobbies

ASSUME HallPidAssumption == ServerPid \notin Pid
ASSUME SeededAssumption == Seeded \subseteq 1 .. FirstHallGid /\ Worlds \cap Lobbies = {}
ASSUME HallCapAssumption == MaxRuntime \in Nat /\ MaxPerOwner \in Nat /\ MaxHallGid \in Nat

VARIABLES
  communities,   \* COMMUNITY.communities: gid -> hall
  runtimeGids,   \* COMMUNITY._runtime_gids
  nextHallGid    \* COMMUNITY._next_gid

hallVars == <<communities, runtimeGids, nextHallGid>>

Community == [owner : Pid \cup {ServerPid}, participants : SUBSET Pid, num : Nat]

HallTypeOK ==
  /\ communities \in [DOMAIN communities -> Community]
  /\ DOMAIN communities \subseteq Nat
  /\ runtimeGids \subseteq Nat
  /\ nextHallGid \in Nat

\* What a list screen subtracts from num to show the population
Offset(g) == IF g \in Lobbies THEN 1 ELSE 2

\* _Community with its recount
Populated(owner, members, g) ==
  [owner |-> owner, participants |-> members, num |-> Cardinality(members) + Offset(g)]

\* A slip of the constructor: the halls numbered from the rooms' own start
InitAtRooms ==
  /\ communities = [g \in Seeded |-> Populated(ServerPid, {}, g)]
  /\ runtimeGids = {}
  /\ nextHallGid = 4096

HallInit ==
  /\ communities = [g \in Seeded |-> Populated(ServerPid, {}, g)]
  /\ runtimeGids = {}
  /\ nextHallGid = FirstHallGid

-----------------------------------------------------------------------------
Runtime == runtimeGids \cap DOMAIN communities

Owned(p) == {g \in Runtime : communities[g].owner = p}

JoinedHalls(p) == {g \in DOMAIN communities : p \in communities[g].participants}

\* The halls of D with p dropped from those it is in
WithoutMember(D, p) ==
  [g \in D |-> IF p \in communities[g].participants
                 THEN Populated(communities[g].owner, communities[g].participants \ {p}, g)
                 ELSE communities[g]]

\* create_community; over a cap it raises and changes nothing
CreateCommunity(p) ==
  /\ nextHallGid < MaxHallGid
  /\ Cardinality(Runtime) < MaxRuntime
  /\ Cardinality(Owned(p)) < MaxPerOwner
  /\ nextHallGid' = nextHallGid + 1
  /\ communities' = Put(communities, nextHallGid + 1, Populated(p, {p}, nextHallGid + 1))
  /\ runtimeGids' = runtimeGids \cup {nextHallGid + 1}

\* A slip of join: the headcount moved by one, not recounted, so that a second
\* join of the same hall counts a member twice
JoinCountingAgain(p, g) ==
  /\ g \in DOMAIN communities
  /\ communities' = [communities EXCEPT ![g].participants = @ \cup {p}, ![g].num = @ + 1]
  /\ UNCHANGED <<runtimeGids, nextHallGid>>

\* join_community: no cap, whatever max_participants the hall advertises
JoinCommunity(p, g) ==
  /\ g \in DOMAIN communities
  /\ communities' = [communities EXCEPT ![g] = Populated(@.owner, @.participants \cup {p}, g)]
  /\ UNCHANGED <<runtimeGids, nextHallGid>>

\* CommunityRegistry.leave, by end_participation on a gid that is no room of
\* the caller
LeaveCommunity(p, g) ==
  /\ g \in JoinedHalls(p)
  /\ communities' = [communities EXCEPT ![g] = Populated(@.owner, @.participants \ {p}, g)]
  /\ UNCHANGED <<runtimeGids, nextHallGid>>

\* Slips of the logout tail: reap_owner forgotten; reap_owner by the official
\* flag, which the lobbies do not have, so that an empty lobby goes too.
LogoutKeepingHalls(p) ==
  /\ communities' = WithoutMember(DOMAIN communities, p)
  /\ UNCHANGED <<runtimeGids, nextHallGid>>

LogoutReapingUnofficial(p) ==
  LET reaped == {g \in DOMAIN communities \ Worlds :
                   communities[g].owner = p \/ communities[g].participants = {p}}
  IN  /\ communities' = WithoutMember(DOMAIN communities \ reaped, p)
      /\ runtimeGids' = runtimeGids \ reaped
      /\ UNCHANGED nextHallGid

\* leave_all, then reap_owner, with no await between them
Logout(p) ==
  /\ communities' = WithoutMember(DOMAIN communities \ Owned(p), p)
  /\ runtimeGids' = runtimeGids \ Owned(p)
  /\ UNCHANGED nextHallGid

HallNext ==
  \E p \in Pid :
    \/ CreateCommunity(p)
    \/ Logout(p)
    \/ \E g \in DOMAIN communities : JoinCommunity(p, g) \/ LeaveCommunity(p, g)

HallSpec == HallInit /\ [][HallNext]_hallVars

-----------------------------------------------------------------------------
(* What the halls promise.                                                 *)

\* num_participants, from which the world and lobby lists compute the shown
\* population, is the live head count plus the hall's offset: never so small
\* that the client's num - 1 or num - 2 underflows.
PopulationShown ==
  \A g \in DOMAIN communities :
     communities[g].num = Cardinality(communities[g].participants) + Offset(g)

\* A world and its lobby survive every logout ("must never be reaped": an
\* empty FindLobbys answer disconnects the client), and what is runtime-created
\* is exactly the rest, so that no hall escapes the caps and the reaping.
SeededSurvive ==
  /\ Seeded \subseteq DOMAIN communities
  /\ runtimeGids = DOMAIN communities \ Seeded

\* The two caps of create hold however creates and logouts interleave.
HallCapsHold ==
  /\ Cardinality(DOMAIN communities \ Seeded) <= MaxRuntime
  /\ \A p \in Pid :
       Cardinality({g \in DOMAIN communities : communities[g].owner = p}) <= MaxPerOwner

\* A hall goes only by the logout of its owner, who then leaves nothing behind:
\* neither a membership nor a hall.
OwnerTakesHallsAlong ==
  [][/\ \A g \in DOMAIN communities \ DOMAIN communities' :
           communities[g].owner \in Pid /\ Logout(communities[g].owner)
     /\ \A p \in Pid : Logout(p) =>
           \A g \in DOMAIN communities' :
              communities'[g].owner # p /\ p \notin communities'[g].participants]_hallVars
=============================================================================
