---------------------------- MODULE RelayPolicy -----------------------------
(***************************************************************************)
(* relay_policy.py: what MH3U_RELAY=auto has learned.  A pair of players   *)
(* whose direct link failed is relayed for a while, and so is a player     *)
(* whose NAT flags are bad; both memories are bounded, and _prune, at the  *)
(* end of every operation, evicts what is over the cap.                    *)
(*                                                                         *)
(* No operation awaits, so each runs at one instant of the model; several  *)
(* may run at the same one (time.monotonic has a resolution), and the      *)
(* order of two entries of one instant is left open.                       *)
(***************************************************************************)
EXTENDS Naturals, FiniteSets, Dict

CONSTANTS
  Pid,
  Cid,          \* connection ids a result can name
  PidOfCid,     \* what CID_TO_PID resolves them to
  MaxClients,   \* config.RELAY_AUTO_MAX_CLIENTS
  MaxPairs,     \* config.RELAY_AUTO_MAX_PAIRS
  ClientTtl,    \* config.RELAY_AUTO_CLIENT_TTL
  PairTtl,      \* config.RELAY_AUTO_PAIR_TTL
  DedupeTtl,    \* _RESULT_DEDUPE_TTL
  MaxNow        \* bound of the model: the last instant

ASSUME PolicyAssumption ==
  /\ IsFiniteSet(Pid) /\ PidOfCid \in [Cid -> Pid]
  /\ MaxClients \in Nat /\ MaxPairs \in Nat /\ MaxNow \in Nat
  /\ ClientTtl \in Nat /\ PairTtl \in Nat /\ DedupeTtl \in Nat

VARIABLES
  clients,   \* CLIENTS: pid -> [seen, until]
  pairs,     \* PAIRS: {pid, pid} -> [seen, until]
  recent,    \* RECENT_RESULTS: <<pid, cid, success>> -> when it was learned
  now        \* time.monotonic()

policyVars == <<clients, pairs, recent, now>>

\* last_seen and relay_until; 0 stands for "never" in relay_until
Mark == [seen : Nat, until : Nat]

PolicyTypeOK ==
  /\ clients \in [DOMAIN clients -> Mark] /\ DOMAIN clients \subseteq Pid
  /\ pairs \in [DOMAIN pairs -> Mark]
  /\ \A k \in DOMAIN pairs : k \subseteq Pid /\ Cardinality(k) = 2
  /\ recent \in [DOMAIN recent -> 0 .. now]
  /\ now \in Nat

PolicyInit ==
  /\ clients = NoEntries /\ pairs = NoEntries /\ recent = NoEntries
  /\ now = 1

-----------------------------------------------------------------------------
(* Entries.                                                                *)

\* relay_until > now
Relaying(m) == m.until > now

Never == [seen |-> now, until |-> 0]

\* _client: an entry for each of P, seen now
Touched(P) ==
  [p \in DOMAIN clients \cup P |->
     IF p \notin DOMAIN clients THEN Never
     ELSE IF p \in P THEN [clients[p] EXCEPT !.seen = now] ELSE clients[p]]

\* Slips of the eviction order: age alone; the newest first
BeforeByAge(m, n) == m.seen <= n.seen
BeforeNewest(m, n) ==
  \/ ~Relaying(m) /\ Relaying(n)
  \/ (Relaying(m) <=> Relaying(n)) /\ m.seen >= n.seen

\* The order of eviction: what no longer relays first, then the least recently
\* seen.
Before(m, n) ==
  \/ ~Relaying(m) /\ Relaying(n)
  \/ (Relaying(m) <=> Relaying(n)) /\ m.seen <= n.seen

\* What _prune may leave of dict d under cap max
Pruned(d, max) ==
  {Restrict(d, K) : K \in {S \in SUBSET DOMAIN d :
      /\ Cardinality(S) = IF Cardinality(DOMAIN d) <= max THEN Cardinality(DOMAIN d) ELSE max
      /\ \A v \in DOMAIN d \ S, k \in S : Before(d[v], d[k])}}

\* _prune after an operation that leaves clients c, pairs d and results r
Prune(c, d, r) ==
  /\ recent' = Restrict(r, {x \in DOMAIN r : now - r[x] <= DedupeTtl})
  /\ clients' \in Pruned(c, MaxClients)
  /\ pairs' \in Pruned(d, MaxPairs)
  /\ UNCHANGED now

\* decide
Decide(p, q) ==
  /\ p # q
  /\ \/ {p, q} \in DOMAIN pairs /\ Relaying(pairs[{p, q}])
     \/ \E x \in {p, q} : x \in DOMAIN clients /\ Relaying(clients[x])

-----------------------------------------------------------------------------
(* Operations.                                                             *)

\* record_seen and record_plane_mismatch, which differ in a diagnostic count
RecordSeen(p) == Prune(Touched({p}), pairs, recent)

\* record_nat_properties: good flags do not clear an earlier mark
RecordNatProperties(p, bad) ==
  LET until == now + ClientTtl
      marked == [Touched({p}) EXCEPT ![p].until = IF @ > until THEN @ ELSE until]
  IN  Prune(IF bad THEN marked ELSE Touched({p}), pairs, recent)

\* record_pair_result as stored: a success does not end the relaying
PairResult(key, success) ==
  LET m == IF key \in DOMAIN pairs THEN pairs[key] ELSE Never
  IN  [seen |-> now, until |-> IF success THEN m.until ELSE now + PairTtl]

\* A result already learned from this player within DedupeTtl
Duplicate(x) == x \in DOMAIN recent /\ now - recent[x] <= DedupeTtl

\* A slip of record_probe_result: a player's result about itself makes a pair
RecordProbeResultSelf(p, cid, success) ==
  LET q == PidOfCid[cid]
      x == <<p, cid, success>>
  IN  /\ ~Duplicate(x)
      /\ Prune(Touched({p, q}), Put(pairs, {p, q}, PairResult({p, q}, success)),
               Put(recent, x, now))

\* record_probe_result: one end of a link reports how the other one, named by
\* its cid, could be reached
RecordProbeResult(p, cid, success) ==
  LET q == PidOfCid[cid]
      x == <<p, cid, success>>
  IN  /\ p # q /\ ~Duplicate(x)
      /\ Prune(Touched({p, q}), Put(pairs, {p, q}, PairResult({p, q}, success)),
               Put(recent, x, now))

Tick == now < MaxNow /\ now' = now + 1 /\ UNCHANGED <<clients, pairs, recent>>

PolicyNext ==
  \/ \E p \in Pid :
       \/ RecordSeen(p)
       \/ \E bad \in BOOLEAN : RecordNatProperties(p, bad)
       \/ \E cid \in Cid, success \in BOOLEAN : RecordProbeResult(p, cid, success)
  \/ Tick

PolicySpec == PolicyInit /\ [][PolicyNext]_policyVars

-----------------------------------------------------------------------------
(* What the policy promises.                                               *)

\* The caps hold after every operation, on whatever path entries are created;
\* a cap of 0 disables the memory.
MemoryBounded ==
  /\ Cardinality(DOMAIN clients) <= MaxClients
  /\ Cardinality(DOMAIN pairs) <= MaxPairs

\* A mark in force is forgotten only under pressure of others in force: when
\* the cap is reached and all that stays relays too, and was seen no earlier.
\* So a stream of harmless players or results cannot make auto forget a bad pair.
MarksOutliveEviction ==
  [][/\ \A k \in DOMAIN pairs \ DOMAIN pairs' : Relaying(pairs[k]) =>
           /\ Cardinality(DOMAIN pairs') = MaxPairs
           /\ \A j \in DOMAIN pairs' : Relaying(pairs'[j]) /\ pairs'[j].seen >= pairs[k].seen
     /\ \A p \in DOMAIN clients \ DOMAIN clients' : Relaying(clients[p]) =>
           /\ Cardinality(DOMAIN clients') = MaxClients
           /\ \A q \in DOMAIN clients' : Relaying(clients'[q]) /\ clients'[q].seen >= clients[p].seen]_policyVars

\* A failed link is relayed from the next attempt on, unless another entry of
\* the same instant competes for the last place.
LearnsFailure ==
  [][\A p \in Pid, cid \in Cid :
       LET key == {p, PidOfCid[cid]}
       IN  RecordProbeResult(p, cid, FALSE) /\ MaxPairs > 0 /\ PairTtl > 0
             /\ (\A j \in DOMAIN pairs \ {key} : pairs[j].seen < now)
           => Decide(p, PidOfCid[cid])']_policyVars
=============================================================================
