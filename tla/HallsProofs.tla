----------------------------- MODULE HallsProofs ----------------------------
(***************************************************************************)
(* Theorems about Halls, for every set of players, of seeded halls and     *)
(* every cap.                                                              *)
(*                                                                         *)
(* The inductive invariant adds to the promised ones that every gid is at  *)
(* most nextHallGid, which is above the seeded ones: a created hall never  *)
(* overwrites one; and that no player owns a seeded hall: what reap_owner  *)
(* takes, the runtime halls of an owner, is all that the owner has.        *)
(***************************************************************************)
EXTENDS Halls, FiniteSetTheorems, TLAPS

GidsIssued ==
  /\ FirstHallGid <= nextHallGid
  /\ \A g \in DOMAIN communities : g <= nextHallGid

ServerOwnsSeeded == \A g \in Seeded : communities[g].owner = ServerPid

HallInv ==
  /\ HallTypeOK
  /\ GidsIssued
  /\ PopulationShown
  /\ SeededSurvive
  /\ ServerOwnsSeeded

\* A recounted hall is well formed and shows its population.
LEMMA PopulatedSound ==
  ASSUME NEW o \in Pid \cup {ServerPid}, NEW S \in SUBSET Pid, NEW g
  PROVE  /\ Populated(o, S, g) \in Community
         /\ Populated(o, S, g).owner = o
         /\ Populated(o, S, g).participants = S
         /\ Populated(o, S, g).num = Cardinality(Populated(o, S, g).participants) + Offset(g)
<1>1. Cardinality(S) \in Nat
  BY PidAssumption, HallPidAssumption, FS_Subset, FS_CardinalityType
<1>2. Offset(g) \in Nat
  BY DEF Offset
<1>3. QED
  BY <1>1, <1>2 DEF Populated, Community

\* Steps that issue no gid and only recount rosters keep the invariant, when
\* what they remove was created by a player.
LEMMA HallsKept ==
  ASSUME HallInv, NEW R \in SUBSET (DOMAIN communities \ Seeded),
         DOMAIN communities' = DOMAIN communities \ R,
         communities' \in [DOMAIN communities' -> Community],
         \A g \in DOMAIN communities' :
            /\ communities'[g].owner = communities[g].owner
            /\ communities'[g].num = Cardinality(communities'[g].participants) + Offset(g),
         runtimeGids' = runtimeGids \ R,
         nextHallGid' = nextHallGid
  PROVE  HallInv'
<1>1. HallTypeOK'
  BY DEF HallInv, HallTypeOK
<1>2. GidsIssued'
  BY DEF HallInv, GidsIssued
<1>3. PopulationShown'
  BY DEF PopulationShown
<1>4. SeededSurvive'
  BY DEF HallInv, SeededSurvive, Seeded
<1>5. ServerOwnsSeeded'
  BY <1>4 DEF HallInv, ServerOwnsSeeded, SeededSurvive, Seeded
<1>6. QED
  BY <1>1, <1>2, <1>3, <1>4, <1>5 DEF HallInv

\* One hall gets a new, recounted roster.
LEMMA HallRecounted ==
  ASSUME HallInv, NEW g \in DOMAIN communities, NEW S \in SUBSET Pid,
         communities' = [communities EXCEPT ![g] = Populated(communities[g].owner, S, g)],
         UNCHANGED <<runtimeGids, nextHallGid>>
  PROVE  HallInv'
<1> DEFINE h == Populated(communities[g].owner, S, g)
<1>1. communities \in [DOMAIN communities -> Community]
  BY DEF HallInv, HallTypeOK
<1>2. communities[g].owner \in Pid \cup {ServerPid}
  BY <1>1 DEF Community
<1>3. /\ h \in Community
      /\ h.owner = communities[g].owner
      /\ h.num = Cardinality(h.participants) + Offset(g)
  <2> HIDE DEF HallInv
  <2>1. h = Populated(communities[g].owner, S, g)
    OBVIOUS
  <2> HIDE DEF h
  <2>2. QED
    BY <1>2, <2>1, PopulatedSound
<1>4. communities' = [communities EXCEPT ![g] = h]
  OBVIOUS
<1> HIDE DEF h
<1>5. /\ DOMAIN communities' = DOMAIN communities \ {}
      /\ communities' \in [DOMAIN communities' -> Community]
      /\ \A i \in DOMAIN communities' :
            communities'[i] = IF i = g THEN h ELSE communities[i]
  BY <1>1, <1>3, <1>4
<1>6. \A i \in DOMAIN communities' :
         /\ communities'[i].owner = communities[i].owner
         /\ communities'[i].num = Cardinality(communities'[i].participants) + Offset(i)
  BY <1>3, <1>5 DEF HallInv, PopulationShown
<1>7. runtimeGids' = runtimeGids \ {} /\ nextHallGid' = nextHallGid
  OBVIOUS
<1>8. QED
  BY <1>5, <1>6, <1>7, HallsKept

\* A join adds a member and recounts.
LEMMA JoinStep ==
  ASSUME HallInv, NEW p \in Pid, NEW g \in DOMAIN communities, JoinCommunity(p, g)
  PROVE  HallInv'
<1>1. communities[g].participants \cup {p} \in SUBSET Pid
  BY DEF HallInv, HallTypeOK, Community
<1>2. QED
  BY <1>1, HallRecounted DEF JoinCommunity

\* A leave drops one and recounts.
LEMMA LeaveStep ==
  ASSUME HallInv, NEW p \in Pid, NEW g \in DOMAIN communities, LeaveCommunity(p, g)
  PROVE  HallInv'
<1>1. communities[g].participants \ {p} \in SUBSET Pid
  BY DEF HallInv, HallTypeOK, Community
<1>2. QED
  BY <1>1, HallRecounted DEF LeaveCommunity

\* What a logout leaves: the halls of others, without the player.
LEMMA LogoutShape ==
  ASSUME HallInv, NEW p \in Pid, Logout(p)
  PROVE  /\ Owned(p) \subseteq DOMAIN communities \ Seeded
         /\ DOMAIN communities' = DOMAIN communities \ Owned(p)
         /\ communities' \in [DOMAIN communities' -> Community]
         /\ \A g \in DOMAIN communities' :
               /\ communities'[g].owner = communities[g].owner
               /\ communities'[g].participants = communities[g].participants \ {p}
               /\ communities'[g].num = Cardinality(communities'[g].participants) + Offset(g)
<1> DEFINE kept == DOMAIN communities \ Owned(p)
<1>1. Owned(p) \subseteq DOMAIN communities \ Seeded
  BY DEF Owned, Runtime, HallInv, SeededSurvive
<1>2. communities' = [g \in kept |->
         IF p \in communities[g].participants
           THEN Populated(communities[g].owner, communities[g].participants \ {p}, g)
           ELSE communities[g]]
  BY DEF Logout, WithoutMember
<1>3. kept \subseteq DOMAIN communities
  OBVIOUS
<1> HIDE DEF kept
<1>4. ASSUME NEW g \in kept
      PROVE  /\ communities'[g] \in Community
             /\ communities'[g].owner = communities[g].owner
             /\ communities'[g].participants = communities[g].participants \ {p}
             /\ communities'[g].num = Cardinality(communities'[g].participants) + Offset(g)
  <2>1. /\ communities[g] \in Community
        /\ communities[g].owner \in Pid \cup {ServerPid}
        /\ communities[g].participants \ {p} \in SUBSET Pid
    BY <1>3 DEF HallInv, HallTypeOK, Community
  <2>2. CASE p \in communities[g].participants
    <3> DEFINE rest == communities[g].participants \ {p}
               h == Populated(communities[g].owner, rest, g)
    <3>1. communities'[g] = h
      BY <1>2, <2>2
    <3>2. /\ h \in Community
          /\ h.owner = communities[g].owner
          /\ h.participants = rest
          /\ h.num = Cardinality(h.participants) + Offset(g)
      <4> HIDE DEF rest
      <4>1. rest \in SUBSET Pid
        BY <2>1 DEF rest
      <4>2. QED
        BY <2>1, <4>1, PopulatedSound
    <3> HIDE DEF h
    <3>3. QED
      BY <3>1, <3>2
  <2>3. CASE p \notin communities[g].participants
    <3>1. communities'[g] = communities[g]
      BY <1>2, <2>3
    <3>2. communities[g].num = Cardinality(communities[g].participants) + Offset(g)
      BY <1>3 DEF HallInv, PopulationShown
    <3>3. communities[g].participants = communities[g].participants \ {p}
      BY <2>3
    <3>4. QED
      BY <2>1, <3>1, <3>2, <3>3
  <2>4. QED
    BY <2>2, <2>3
<1>5. DOMAIN communities' = kept
  BY <1>2
<1>6. communities' \in [DOMAIN communities' -> Community]
  BY <1>2, <1>4, <1>5
<1>7. QED
  BY <1>1, <1>4, <1>5, <1>6 DEF kept

\* A logout only removes halls that a player created.
LEMMA LogoutStep ==
  ASSUME HallInv, NEW p \in Pid, Logout(p)
  PROVE  HallInv'
<1>1. runtimeGids' = runtimeGids \ Owned(p) /\ nextHallGid' = nextHallGid
  BY DEF Logout
<1>2. Owned(p) \in SUBSET (DOMAIN communities \ Seeded)
  BY LogoutShape
<1>3. QED
  BY <1>1, <1>2, LogoutShape, HallsKept

\* A create adds one hall, under a gid no hall has.
LEMMA CreateShape ==
  ASSUME HallInv, NEW p \in Pid, CreateCommunity(p)
  PROVE  /\ nextHallGid \in Nat
         /\ nextHallGid + 1 \notin DOMAIN communities
         /\ nextHallGid + 1 \notin Seeded
         /\ DOMAIN communities' = DOMAIN communities \cup {nextHallGid + 1}
         /\ \A g \in DOMAIN communities : communities'[g] = communities[g]
         /\ communities'[nextHallGid + 1] = Populated(p, {p}, nextHallGid + 1)
<1>1. /\ nextHallGid \in Nat /\ FirstHallGid <= nextHallGid
      /\ \A g \in DOMAIN communities : g \in Nat /\ g <= nextHallGid
  BY DEF HallInv, HallTypeOK, GidsIssued
<1>2. nextHallGid + 1 \notin DOMAIN communities
  BY <1>1
<1>3. nextHallGid + 1 \notin Seeded
  BY <1>1, <1>2 DEF HallInv, SeededSurvive
<1>4. communities' = Put(communities, nextHallGid + 1, Populated(p, {p}, nextHallGid + 1))
  BY DEF CreateCommunity
<1> DEFINE gid == nextHallGid + 1
<1>5. gid \notin DOMAIN communities
  BY <1>2
<1>6. communities' = Put(communities, gid, Populated(p, {p}, gid))
  BY <1>4
<1> HIDE DEF gid
<1>7. /\ DOMAIN communities' = DOMAIN communities \cup {gid}
      /\ \A g \in DOMAIN communities : communities'[g] = communities[g]
      /\ communities'[gid] = Populated(p, {p}, gid)
  BY <1>5, <1>6 DEF Put
<1>8. QED
  BY <1>1, <1>2, <1>3, <1>7 DEF gid

\* A created hall is counted, is not a seeded one and overwrites none.
LEMMA CreateStep ==
  ASSUME HallInv, NEW p \in Pid, CreateCommunity(p)
  PROVE  HallInv'
<1> DEFINE gid == nextHallGid + 1
<1>1. /\ nextHallGid \in Nat
      /\ gid \notin DOMAIN communities
      /\ gid \notin Seeded
      /\ DOMAIN communities' = DOMAIN communities \cup {gid}
      /\ \A g \in DOMAIN communities : communities'[g] = communities[g]
      /\ communities'[gid] = Populated(p, {p}, gid)
  BY CreateShape
<1>2. /\ nextHallGid' = gid /\ runtimeGids' = runtimeGids \cup {gid}
      /\ gid \in Nat /\ gid > nextHallGid
  BY <1>1 DEF CreateCommunity
<1>3. communities' = [g \in DOMAIN communities' |-> communities'[g]]
  BY DEF CreateCommunity, Put
<1> HIDE DEF gid
<1>4. /\ Populated(p, {p}, gid) \in Community
      /\ Populated(p, {p}, gid).num = Cardinality(Populated(p, {p}, gid).participants) + Offset(gid)
  BY PopulatedSound
<1>5. HallTypeOK'
  <2>1. \A g \in DOMAIN communities' : communities'[g] \in Community
    BY <1>1, <1>4 DEF HallInv, HallTypeOK
  <2>2. communities' \in [DOMAIN communities' -> Community]
    BY <1>3, <2>1
  <2>3. QED
    BY <1>1, <1>2, <2>2 DEF HallInv, HallTypeOK
<1>6. GidsIssued'
  BY <1>1, <1>2 DEF HallInv, HallTypeOK, GidsIssued, FirstHallGid
<1>7. PopulationShown'
  BY <1>1, <1>4 DEF HallInv, PopulationShown
<1>8. SeededSurvive'
  BY <1>1, <1>2 DEF HallInv, SeededSurvive, Seeded
<1>9. ServerOwnsSeeded'
  BY <1>1 DEF HallInv, ServerOwnsSeeded, SeededSurvive, Seeded
<1>10. QED
  BY <1>5, <1>6, <1>7, <1>8, <1>9 DEF HallInv

\* Every operation keeps the invariant.
LEMMA HallInvStep == HallInv /\ [HallNext]_hallVars => HallInv'
<1>1. ASSUME HallInv, UNCHANGED hallVars
      PROVE  HallInv'
  BY <1>1 DEF hallVars, HallInv, HallTypeOK, GidsIssued, PopulationShown, SeededSurvive,
              ServerOwnsSeeded, Seeded
<1>2. QED
  BY <1>1, CreateStep, JoinStep, LeaveStep, LogoutStep DEF HallNext

\* The seeded halls satisfy it.
LEMMA HallInvInit == HallInit => HallInv
<1> SUFFICES ASSUME HallInit PROVE HallInv
  OBVIOUS
<1>1. /\ communities = [g \in Seeded |-> Populated(ServerPid, {}, g)]
      /\ runtimeGids = {}
      /\ nextHallGid = FirstHallGid
  BY DEF HallInit
<1>2. \A g \in Seeded : /\ communities[g] \in Community
                        /\ communities[g].owner = ServerPid
                        /\ communities[g].num = Cardinality(communities[g].participants) + Offset(g)
  <2> TAKE g \in Seeded
  <2>1. communities[g] = Populated(ServerPid, {}, g)
    BY <1>1
  <2>2. ServerPid \in Pid \cup {ServerPid} /\ {} \in SUBSET Pid
    OBVIOUS
  <2>3. QED
    BY <2>1, <2>2, PopulatedSound
<1>3. communities \in [Seeded -> Community] /\ DOMAIN communities = Seeded
  BY <1>1, <1>2
<1>4. Seeded \subseteq Nat /\ \A g \in Seeded : g <= FirstHallGid
  <2>1. FirstHallGid \in Nat
    BY DEF FirstHallGid
  <2>2. \A g \in 1 .. FirstHallGid : g \in Nat /\ g <= FirstHallGid
    BY <2>1
  <2>3. QED
    BY <2>2, SeededAssumption
<1>5. QED
  BY <1>1, <1>2, <1>3, <1>4 DEF HallInv, HallTypeOK, GidsIssued, FirstHallGid, PopulationShown,
                                SeededSurvive, ServerOwnsSeeded

\* The inductive invariant holds of every behaviour of the registry.
THEOREM HallInvariant == HallSpec => []HallInv
BY HallInvInit, HallInvStep, PTL DEF HallSpec

\* Types: halls, gids and owners stay well formed.
THEOREM HallTypes == HallSpec => []HallTypeOK
<1>1. HallInv => HallTypeOK
  BY DEF HallInv
<1>2. QED
  BY <1>1, HallInvariant, PTL

\* The number from which the lists compute the shown population is right,
\* whatever joins, leaves and logouts interleave.
THEOREM PopulationAlwaysShown == HallSpec => []PopulationShown
<1>1. HallInv => PopulationShown
  BY DEF HallInv
<1>2. QED
  BY <1>1, HallInvariant, PTL

\* No world or lobby is ever reaped, and nothing created escapes the caps.
THEOREM SeededAlwaysSurvive == HallSpec => []SeededSurvive
<1>1. HallInv => SeededSurvive
  BY DEF HallInv
<1>2. QED
  BY <1>1, HallInvariant, PTL

-----------------------------------------------------------------------------
(* The caps.                                                               *)

\* Only finitely many gids were ever issued.
LEMMA HallsFinite ==
  ASSUME HallInv
  PROVE  IsFiniteSet(DOMAIN communities)
<1>1. DOMAIN communities \subseteq 0 .. nextHallGid /\ nextHallGid \in Nat
  BY DEF HallInv, HallTypeOK, GidsIssued
<1>2. IsFiniteSet(0 .. nextHallGid)
  BY <1>1, FS_Interval
<1>3. QED
  BY <1>1, <1>2, FS_Subset

\* What the caps are about: the halls players created, and those one owns
Created == DOMAIN communities \ Seeded
OwnedBy(p) == {g \in DOMAIN communities : communities[g].owner = p}

\* They are what create counts.
LEMMA CountedByCreate ==
  ASSUME HallInv, NEW p \in Pid
  PROVE  Runtime = Created /\ Owned(p) = OwnedBy(p)
<1>1. Runtime = Created
  BY DEF HallInv, SeededSurvive, Runtime, Created
<1>2. \A g \in DOMAIN communities : communities[g].owner = p => g \notin Seeded
  BY PidAssumption, HallPidAssumption DEF HallInv, ServerOwnsSeeded
<1>3. QED
  BY <1>1, <1>2 DEF Owned, OwnedBy, Created

\* A set that does not grow stays under its cap.
LEMMA UnderCap ==
  ASSUME NEW S, NEW T \in SUBSET S, IsFiniteSet(S), NEW k \in Nat, Cardinality(S) <= k
  PROVE  Cardinality(T) <= k
<1>1. Cardinality(T) \in Nat /\ Cardinality(S) \in Nat /\ Cardinality(T) <= Cardinality(S)
  BY FS_Subset, FS_CardinalityType
<1>2. QED
  BY <1>1

\* One more element takes a set below its cap to the cap at most.
LEMMA OneMore ==
  ASSUME NEW S, NEW x, IsFiniteSet(S), NEW k \in Nat, Cardinality(S) < k
  PROVE  Cardinality(S \cup {x}) <= k
<1>1. Cardinality(S) \in Nat
  BY FS_CardinalityType
<1>2. Cardinality(S \cup {x}) = IF x \in S THEN Cardinality(S) ELSE Cardinality(S) + 1
  BY FS_AddElement
<1>3. QED
  BY <1>1, <1>2

\* Neither cap can be passed by one step.
LEMMA CapsStep ==
  ASSUME HallInv, HallCapsHold, [HallNext]_hallVars
  PROVE  HallCapsHold'
<1>0. /\ IsFiniteSet(Created)
      /\ \A p \in Pid : IsFiniteSet(OwnedBy(p))
      /\ Cardinality(Created) <= MaxRuntime
      /\ \A p \in Pid : Cardinality(OwnedBy(p)) <= MaxPerOwner
      /\ MaxRuntime \in Nat /\ MaxPerOwner \in Nat
  BY HallsFinite, HallCapAssumption, FS_Subset DEF Created, OwnedBy, HallCapsHold
<1>1. ASSUME Created' \subseteq Created, \A p \in Pid : OwnedBy(p)' \subseteq OwnedBy(p)
      PROVE  HallCapsHold'
  <2>1. Cardinality(Created') <= MaxRuntime
    BY <1>0, <1>1, UnderCap
  <2>2. ASSUME NEW p \in Pid
        PROVE  Cardinality(OwnedBy(p)') <= MaxPerOwner
    BY <1>0, <1>1, UnderCap
  <2>3. QED
    BY <2>1, <2>2 DEF HallCapsHold, Created, OwnedBy
<1>2. ASSUME NEW p \in Pid, CreateCommunity(p)
      PROVE  HallCapsHold'
  <2>1. /\ nextHallGid + 1 \notin Seeded
        /\ DOMAIN communities' = DOMAIN communities \cup {nextHallGid + 1}
        /\ \A g \in DOMAIN communities : communities'[g] = communities[g]
        /\ communities'[nextHallGid + 1].owner = p
        /\ nextHallGid + 1 \notin DOMAIN communities
    <3>1. Populated(p, {p}, nextHallGid + 1).owner = p
      BY DEF Populated
    <3>2. QED
      BY <1>2, <3>1, CreateShape
  <2>2. Cardinality(Created) < MaxRuntime /\ Cardinality(OwnedBy(p)) < MaxPerOwner
    BY <1>2, CountedByCreate DEF CreateCommunity
  <2>3. Created' = Created \cup {nextHallGid + 1}
    BY <2>1 DEF Created, Seeded
  <2>4. Cardinality(Created') <= MaxRuntime
    BY <1>0, <2>2, <2>3, OneMore
  <2>5. ASSUME NEW q \in Pid
        PROVE  Cardinality(OwnedBy(q)') <= MaxPerOwner
    <3>1. CASE q = p
      <4>1. OwnedBy(q)' = OwnedBy(p) \cup {nextHallGid + 1}
        BY <2>1, <3>1 DEF OwnedBy
      <4>2. QED
        BY <1>0, <2>2, <4>1, OneMore
    <3>2. CASE q # p
      <4>1. OwnedBy(q)' = OwnedBy(q)
        BY <2>1, <3>2 DEF OwnedBy
      <4>2. QED
        BY <1>0, <4>1
    <3>3. QED
      BY <3>1, <3>2
  <2>6. QED
    BY <2>4, <2>5 DEF HallCapsHold, Created, OwnedBy
<1>3. ASSUME NEW p \in Pid, Logout(p)
      PROVE  HallCapsHold'
  <2>1. /\ DOMAIN communities' \subseteq DOMAIN communities
        /\ \A g \in DOMAIN communities' : communities'[g].owner = communities[g].owner
    BY <1>3, LogoutShape
  <2>2. QED
    BY <1>1, <2>1 DEF Created, OwnedBy, Seeded
<1>4. ASSUME NEW g \in DOMAIN communities, NEW S,
             communities' = [communities EXCEPT ![g] = Populated(@.owner, S, g)]
      PROVE  HallCapsHold'
  <2> DEFINE h == Populated(communities[g].owner, S, g)
  <2>1. communities' = [communities EXCEPT ![g] = h] /\ h.owner = communities[g].owner
    BY <1>4 DEF Populated
  <2> HIDE DEF h
  <2>2. /\ DOMAIN communities' = DOMAIN communities
        /\ \A i \in DOMAIN communities' : communities'[i].owner = communities[i].owner
    BY <2>1 DEF HallInv, HallTypeOK
  <2>3. QED
    BY <1>1, <2>2 DEF Created, OwnedBy, Seeded
<1>5. CASE UNCHANGED hallVars
  BY <1>1, <1>5 DEF hallVars, Created, OwnedBy, Seeded
<1>6. QED
  BY <1>2, <1>3, <1>4, <1>5 DEF HallNext, JoinCommunity, LeaveCommunity

\* MAX_RUNTIME_COMMUNITIES and MAX_COMMUNITIES_PER_OWNER hold always.
THEOREM HallCapsAlwaysHold == HallSpec => []HallCapsHold
<1>1. ASSUME HallInit PROVE HallCapsHold
  <2>1. HallInv
    BY <1>1, HallInvInit
  <2>2. DOMAIN communities = Seeded
    BY <1>1 DEF HallInit
  <2>3. Created = {}
    BY <2>2 DEF Created
  <2>4. \A p \in Pid : OwnedBy(p) = {}
    BY <2>1, <2>2, PidAssumption, HallPidAssumption DEF HallInv, ServerOwnsSeeded, OwnedBy
  <2>5. Cardinality({}) = 0
    BY FS_EmptySet
  <2>6. QED
    BY <2>3, <2>4, <2>5, HallCapAssumption DEF HallCapsHold, Created, OwnedBy
<1>2. HallInv /\ HallCapsHold /\ [HallNext]_hallVars => HallCapsHold'
  BY CapsStep
<1>3. QED
  BY <1>1, <1>2, HallInvariant, PTL DEF HallSpec

-----------------------------------------------------------------------------
\* A hall goes only by its owner's logout, which leaves nothing of the owner.
THEOREM OwnerAlwaysTakesHallsAlong == HallSpec => OwnerTakesHallsAlong
<1> DEFINE A == /\ \A g \in DOMAIN communities \ DOMAIN communities' :
                      communities[g].owner \in Pid /\ Logout(communities[g].owner)
                /\ \A p \in Pid : Logout(p) =>
                      \A g \in DOMAIN communities' :
                         communities'[g].owner # p /\ p \notin communities'[g].participants
<1>1. ASSUME HallInv, [HallNext]_hallVars
      PROVE  A
  <2>1. ASSUME NEW p \in Pid, Logout(p), NEW g \in DOMAIN communities'
        PROVE  communities'[g].owner # p /\ p \notin communities'[g].participants
    <3>1. /\ g \in DOMAIN communities \ Owned(p)
          /\ communities'[g].owner = communities[g].owner
          /\ communities'[g].participants = communities[g].participants \ {p}
      BY <1>1, <2>1, LogoutShape
    <3>2. communities[g].owner # p
      BY <1>1, <3>1, CountedByCreate DEF OwnedBy
    <3>3. QED
      BY <3>1, <3>2
  <2>2. ASSUME NEW g \in DOMAIN communities \ DOMAIN communities'
        PROVE  communities[g].owner \in Pid /\ Logout(communities[g].owner)
    <3>1. PICK p \in Pid : Logout(p)
      <4>1. ASSUME NEW p \in Pid, CreateCommunity(p)
            PROVE  DOMAIN communities \subseteq DOMAIN communities'
        BY <1>1, <4>1, CreateShape
      <4>2. ASSUME NEW p \in Pid, NEW h, JoinCommunity(p, h) \/ LeaveCommunity(p, h)
            PROVE  DOMAIN communities \subseteq DOMAIN communities'
        BY <4>2 DEF JoinCommunity, LeaveCommunity
      <4>3. CASE UNCHANGED hallVars
        BY <4>3, <2>2 DEF hallVars
      <4>4. QED
        BY <1>1, <2>2, <4>1, <4>2, <4>3 DEF HallNext
    <3>2. g \in Owned(p)
      BY <1>1, <2>2, <3>1, LogoutShape
    <3>3. communities[g].owner = p
      BY <3>2 DEF Owned
    <3>4. QED
      BY <3>1, <3>3
  <2>3. QED
    BY <2>1, <2>2
<1>2. HallInv /\ [HallNext]_hallVars => [A]_hallVars
  BY <1>1
<1> HIDE DEF A
<1>3. HallSpec => [][A]_hallVars
  BY <1>2, HallInvariant, PTL DEF HallSpec
<1>4. QED
  BY <1>3 DEF OwnerTakesHallsAlong, A
=============================================================================
