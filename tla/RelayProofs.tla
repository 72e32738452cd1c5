---------------------------- MODULE RelayProofs -----------------------------
(***************************************************************************)
(* Theorems about the three parts of the relay, Relay, PairRelay and       *)
(* RelayPolicy, each for every value of its constants.  The three share no *)
(* variable, and each has its own invariant, introduced where it starts.   *)
(***************************************************************************)
EXTENDS Relay, RelayPolicy, PairRelay,
        FiniteSetTheorems, FunctionTheorems, SequenceTheorems, NaturalsInduction, TLAPS

-----------------------------------------------------------------------------
(***************************************************************************)
(* Theorems about Relay, for every range of ports, every set of pairs and  *)
(* any number of concurrent requests.                                      *)
(*                                                                         *)
(* PortsAccounted counts; the invariant that implies it says why no two    *)
(* uses of a port coincide.  At its heart is the lock: it is held exactly  *)
(* while one request is binding, and nobody else stores a relay, so the    *)
(* key looked up under the lock is still missing when the socket is up.    *)
(***************************************************************************)

RelayPortsDistinct == \A k, l \in DOMAIN relays : relays[k] = relays[l] => k = l

LockHeldByBinding ==
  /\ lock <=> DOMAIN binding # {}
  /\ \A r, s \in DOMAIN binding : r = s

BindingApart ==
  \A r \in DOMAIN binding :
    asked[r].key \notin DOMAIN relays /\ binding[r] \notin PortsOf(relays) \cup closing

ClosingApart == closing \cap PortsOf(relays) = {}

SocketsKnown == sockets = PortsOf(relays) \cup PortsOf(binding) \cup closing

QueueSound ==
  /\ \A i, j \in 1 .. Len(queue) : queue[i] = queue[j] => i = j
  /\ \A i \in 1 .. Len(queue) : queue[i] \notin DOMAIN binding

RelayInv ==
  /\ TypeOK
  /\ RelayPortsDistinct
  /\ LockHeldByBinding
  /\ BindingApart
  /\ ClosingApart
  /\ SocketsKnown
  /\ QueueSound

Want == [key : Key, path : Path]

-----------------------------------------------------------------------------
(* Ports and dicts.                                                        *)

\* What popping the keys of S leaves in a dict.
LEMMA WithoutFacts ==
  ASSUME NEW d, NEW S
  PROVE  /\ DOMAIN Without(d, S) = DOMAIN d \ S
         /\ \A x \in DOMAIN d \ S : Without(d, S)[x] = d[x]
         /\ \A T : d \in [DOMAIN d -> T] => Without(d, S) \in [DOMAIN d \ S -> T]
BY DEF Without, Restrict

\* The scan takes a port that it can get.
LEMMA LowestIn ==
  ASSUME NEW S \in SUBSET Ports, S # {}
  PROVE  Lowest(S) \in S
<1>1. S \subseteq Nat
  BY PortAssumption DEF Ports
<1>2. \E p \in S : \A q \in S : p <= q
  <2>1. PICK p \in S : \A q \in S : <<q, p>> \notin OpToRel(<, Nat)
    BY <1>1, WFMin, NatLessThanWellFounded, Zenon
  <2>2. \A q \in S : ~(q < p)
    BY <1>1, <2>1, Zenon DEF OpToRel
  <2>3. QED
    BY <1>1, <2>2
<1>3. QED
  BY <1>2 DEF Lowest

\* A dict that gives every key its own port has as many keys as ports.
LEMMA PortsCounted ==
  ASSUME NEW d, d \in [DOMAIN d -> Ports],
         \A k, l \in DOMAIN d : d[k] = d[l] => k = l
  PROVE  /\ IsFiniteSet(PortsOf(d)) /\ PortsOf(d) \subseteq Ports
         /\ Cardinality(PortsOf(d)) = Cardinality(DOMAIN d)
<1>1. IsFiniteSet(Ports)
  BY PortAssumption, FS_Interval DEF Ports
<1>2. PortsOf(d) \subseteq Ports
  BY DEF PortsOf
<1>3. IsFiniteSet(PortsOf(d))
  BY <1>1, <1>2, FS_Subset
<1>4. d \in [DOMAIN d -> PortsOf(d)]
  BY DEF PortsOf
<1>5. d \in Injection(DOMAIN d, PortsOf(d))
  BY <1>4 DEF Injection, IsInjective
<1>6. d \in Surjection(DOMAIN d, PortsOf(d))
  BY <1>4 DEF Surjection, PortsOf
<1>7. QED
  BY <1>2, <1>3, <1>5, <1>6, FS_Injection

-----------------------------------------------------------------------------
(* Requests.                                                               *)

\* Request r has the lock and runs to its next suspension or its answer, while
\* q is what is left of the queue.
LEMMA AcquireStep ==
  ASSUME RelayInv, ~lock, NEW r \in Req, NEW want \in Want, NEW q,
         q \in Seq(DOMAIN asked \ {r}),
         \A i, j \in 1 .. Len(q) : q[i] = q[j] => i = j,
         Acquire(r, want), queue' = q
  PROVE  RelayInv'
<1>1. DOMAIN binding = {} /\ PortsOf(binding) = {}
  BY DEF RelayInv, LockHeldByBinding, PortsOf
<1>2. /\ mode' = mode /\ gone' = gone /\ relays' = relays /\ quiet' = quiet
      /\ janitor' = janitor /\ closing' = closing
  BY DEF Acquire, tableVars
<1>3. /\ asked \in [DOMAIN asked -> Want] /\ DOMAIN asked \subseteq Req
      /\ binding \in [DOMAIN binding -> Ports]
      /\ sockets \subseteq Ports /\ closing \subseteq sockets
      /\ sockets = PortsOf(relays) \cup closing
      /\ answer \in Answer
  BY <1>1 DEF RelayInv, TypeOK, SocketsKnown, Want
<1>4. RelayPortsDistinct' /\ ClosingApart'
  BY <1>2 DEF RelayInv, RelayPortsDistinct, ClosingApart, PortsOf
<1>5. CASE /\ asked' = Without(asked, {r}) /\ answer' \in Answer
           /\ binding' = binding /\ sockets' = sockets
  <2>1. DOMAIN binding' = {} /\ PortsOf(binding') = {} /\ lock' = FALSE
    <3>1. lock' = (r \in DOMAIN binding')
      BY DEF Acquire
    <3>2. (r \in DOMAIN binding') = FALSE
      BY <1>1, <1>5
    <3>3. lock' = FALSE
      BY <3>1, <3>2
    <3>4. QED
      BY <1>1, <1>5, <3>3
  <2>2. asked' \in [DOMAIN asked' -> Want] /\ DOMAIN asked' = DOMAIN asked \ {r}
    BY <1>3, <1>5, WithoutFacts
  <2>3. TypeOK'
    BY <1>1, <1>2, <1>3, <1>5, <2>1, <2>2 DEF RelayInv, TypeOK, Want
  <2>4. LockHeldByBinding' /\ BindingApart' /\ QueueSound'
    BY <2>1 DEF LockHeldByBinding, BindingApart, QueueSound
  <2>5. SocketsKnown'
    BY <1>2, <1>3, <1>5, <2>1 DEF SocketsKnown, PortsOf
  <2>6. QED
    BY <1>4, <2>3, <2>4, <2>5 DEF RelayInv
<1>6. CASE /\ Candidates # {} /\ want.key \notin DOMAIN relays
           /\ asked' = Put(asked, r, want)
           /\ binding' = Put(binding, r, Lowest(Candidates))
           /\ sockets' = sockets \cup {Lowest(Candidates)}
           /\ answer' = answer
  <2> DEFINE p == Lowest(Candidates)
  <2>1. p \in Ports /\ p \notin PortsOf(relays) /\ p \notin sockets
    <3>1. Candidates \in SUBSET Ports
      BY DEF Candidates
    <3>2. p \in Candidates
      BY <1>6, <3>1, LowestIn
    <3>3. QED
      BY <3>2 DEF Candidates
  <2> HIDE DEF p
  <2>2. /\ asked' \in [DOMAIN asked' -> Want] /\ DOMAIN asked' = DOMAIN asked \cup {r}
        /\ asked'[r] = want
    <3>1. want \in Want /\ asked' = Put(asked, r, want)
      BY <1>6
    <3>2. QED
      BY <1>3, <3>1 DEF Put
  <2>3. /\ DOMAIN binding' = {r} /\ binding'[r] = p /\ PortsOf(binding') = {p}
        /\ binding' \in [DOMAIN binding' -> Ports]
    <3>1. binding' = Put(binding, r, p)
      BY <1>6 DEF p
    <3>2. DOMAIN binding' = {r} /\ binding'[r] = p
      BY <1>1, <3>1 DEF Put
    <3>3. binding' \in [DOMAIN binding' -> Ports]
      BY <1>1, <2>1, <3>1 DEF Put
    <3>4. PortsOf(binding') = {p}
      BY <3>2 DEF PortsOf
    <3>5. QED
      BY <3>2, <3>3, <3>4
  <2>4. lock' = TRUE
    <3>1. lock' = (r \in DOMAIN binding')
      BY DEF Acquire
    <3>2. r \in DOMAIN binding'
      BY <2>3
    <3>3. QED
      BY <3>1, <3>2
  <2>5. q \in Seq(DOMAIN asked') /\ \A i \in 1 .. Len(q) : q[i] # r
    <3>1. DOMAIN asked \ {r} \subseteq DOMAIN asked'
      BY <2>2
    <3>2. \A i \in 1 .. Len(q) : q[i] \in DOMAIN asked \ {r}
      BY ElementOfSeq
    <3>3. QED
      BY <3>1, <3>2, SeqMonotonic
  <2>6. sockets' = sockets \cup {p}
    BY <1>6 DEF p
  <2>7. TypeOK'
    BY <1>2, <1>3, <1>6, <2>1, <2>2, <2>3, <2>4, <2>5, <2>6 DEF RelayInv, TypeOK, Want
  <2>8. LockHeldByBinding' /\ QueueSound'
    BY <2>3, <2>4, <2>5 DEF LockHeldByBinding, QueueSound
  <2>9. BindingApart'
    <3>1. asked'[r].key \notin DOMAIN relays' /\ binding'[r] \notin PortsOf(relays)' \cup closing'
      BY <1>2, <1>3, <1>6, <2>1, <2>2, <2>3 DEF PortsOf
    <3>2. QED
      BY <2>3, <3>1 DEF BindingApart
  <2>10. SocketsKnown'
    BY <1>2, <1>3, <2>3, <2>6 DEF SocketsKnown, PortsOf
  <2>11. QED
    BY <1>4, <2>7, <2>8, <2>9, <2>10 DEF RelayInv
<1>7. Failed(want.path) \in Answer
  <2>1. want.path \in Path /\ mode \in {"force", "auto"}
    BY DEF Want, RelayInv, TypeOK
  <2>2. QED
    BY <2>1 DEF Failed, Answer, Path
<1>8. \/ /\ asked' = Without(asked, {r}) /\ answer' \in Answer
         /\ binding' = binding /\ sockets' = sockets
      \/ /\ Candidates # {} /\ want.key \notin DOMAIN relays
         /\ asked' = Put(asked, r, want)
         /\ binding' = Put(binding, r, Lowest(Candidates))
         /\ sockets' = sockets \cup {Lowest(Candidates)}
         /\ answer' = answer
  BY <1>7 DEF Acquire, LookAgain, Scan, Answers, Answer
<1>9. QED
  BY <1>5, <1>6, <1>8

\* A request comes for a pair that has no relay yet: a relay is there, the
\* request waits for the lock, or it has it.
LEMMA AskStep ==
  ASSUME RelayInv, NEW r \in Req, NEW want \in Want, Ask(r, want)
  PROVE  RelayInv'
<1>1. /\ asked \in [DOMAIN asked -> Want] /\ DOMAIN asked \subseteq Req
      /\ binding \in [DOMAIN binding -> Ports] /\ DOMAIN binding \subseteq DOMAIN asked
      /\ queue \in Seq(DOMAIN asked) /\ r \notin DOMAIN asked
  BY DEF RelayInv, TypeOK, Want, Ask
<1>2. CASE /\ answer' = "relay"
           /\ UNCHANGED <<tableVars, lock, queue, asked, binding, sockets>>
  <2>1. TypeOK'
    BY <1>2 DEF RelayInv, TypeOK, tableVars, Answer
  <2>2. /\ RelayPortsDistinct' /\ LockHeldByBinding' /\ BindingApart' /\ ClosingApart'
        /\ SocketsKnown' /\ QueueSound'
    BY <1>2 DEF RelayInv, RelayPortsDistinct, LockHeldByBinding, BindingApart, ClosingApart,
                SocketsKnown, QueueSound, PortsOf, tableVars
  <2>3. QED
    BY <2>1, <2>2 DEF RelayInv
<1>3. CASE /\ asked' = Put(asked, r, want)
           /\ queue' = Append(queue, r)
           /\ UNCHANGED <<tableVars, lock, binding, sockets, answer>>
  <2>1. /\ DOMAIN asked' = DOMAIN asked \cup {r}
        /\ asked' \in [DOMAIN asked' -> Want]
        /\ \A s \in DOMAIN asked : asked'[s] = asked[s]
    BY <1>1, <1>3 DEF Put
  <2>2. queue \in Seq(DOMAIN asked')
    BY <1>1, <2>1, SeqMonotonic
  <2>3. /\ queue' \in Seq(DOMAIN asked')
        /\ Len(queue') = Len(queue) + 1
        /\ \A i \in 1 .. Len(queue') : queue'[i] = IF i <= Len(queue) THEN queue[i] ELSE r
    BY <1>3, <2>1, <2>2
  <2>4. TypeOK'
    BY <1>3, <2>1, <2>3 DEF RelayInv, TypeOK, tableVars, Want
  <2>5. RelayPortsDistinct' /\ LockHeldByBinding' /\ ClosingApart' /\ SocketsKnown'
    BY <1>3 DEF RelayInv, RelayPortsDistinct, LockHeldByBinding, ClosingApart, SocketsKnown,
                PortsOf, tableVars
  <2>6. BindingApart'
    <3>1. ASSUME NEW s \in DOMAIN binding
          PROVE  asked'[s].key \notin DOMAIN relays /\ binding[s] \notin PortsOf(relays) \cup closing
      BY <1>1, <2>1 DEF RelayInv, BindingApart
    <3>2. QED
      BY <1>3, <3>1 DEF BindingApart, PortsOf, tableVars
  <2>7. QueueSound'
    <3>1. \A i \in 1 .. Len(queue) : queue[i] \in DOMAIN asked
      BY <1>1, ElementOfSeq
    <3>2. Len(queue) \in Nat
      BY <1>1, LenProperties
    <3>3. ASSUME NEW i \in 1 .. Len(queue'), NEW j \in 1 .. Len(queue'), queue'[i] = queue'[j]
          PROVE  i = j
      <4>1. CASE i <= Len(queue) /\ j <= Len(queue)
        BY <2>3, <3>2, <3>3, <4>1 DEF RelayInv, QueueSound
      <4>2. CASE ~(i <= Len(queue)) /\ ~(j <= Len(queue))
        BY <2>3, <3>2, <4>2
      <4>3. CASE i <= Len(queue) /\ ~(j <= Len(queue))
        BY <1>1, <2>3, <3>1, <3>2, <3>3, <4>3
      <4>4. CASE ~(i <= Len(queue)) /\ j <= Len(queue)
        BY <1>1, <2>3, <3>1, <3>2, <3>3, <4>4
      <4>5. QED
        BY <4>1, <4>2, <4>3, <4>4
    <3>4. ASSUME NEW i \in 1 .. Len(queue')
          PROVE  queue'[i] \notin DOMAIN binding'
      <4>1. CASE i <= Len(queue)
        BY <1>3, <2>3, <3>2, <4>1 DEF RelayInv, QueueSound
      <4>2. CASE ~(i <= Len(queue))
        BY <1>1, <1>3, <2>3, <4>2
      <4>3. QED
        BY <4>1, <4>2
    <3>5. QED
      BY <3>3, <3>4 DEF QueueSound
  <2>8. QED
    BY <2>4, <2>5, <2>6, <2>7 DEF RelayInv
<1>4. CASE ~lock /\ queue = <<>> /\ Acquire(r, want) /\ UNCHANGED queue
  <2>1. queue \in Seq(DOMAIN asked \ {r}) /\ queue' = queue
    BY <1>4
  <2>2. \A i, j \in 1 .. Len(queue) : queue[i] = queue[j] => i = j
    BY DEF RelayInv, QueueSound
  <2>3. QED
    BY <1>4, <2>1, <2>2, AcquireStep
<1>5. QED
  BY <1>2, <1>3, <1>4 DEF Ask

\* The head of the queue is no other request's, so the rest is still waiting.
LEMMA ResumeStep ==
  ASSUME RelayInv, Resume
  PROVE  RelayInv'
<1> DEFINE r == Head(queue)
           q == Tail(queue)
<1>1. /\ ~lock /\ queue # <<>> /\ Acquire(r, asked[r]) /\ queue' = q
      /\ queue \in Seq(DOMAIN asked)
      /\ asked \in [DOMAIN asked -> Want] /\ DOMAIN asked \subseteq Req
      /\ \A i, j \in 1 .. Len(queue) : queue[i] = queue[j] => i = j
  BY DEF Resume, RelayInv, TypeOK, QueueSound, Want
<1>2. /\ r \in DOMAIN asked /\ r = queue[1]
      /\ q \in Seq(DOMAIN asked) /\ Len(q) = Len(queue) - 1
      /\ \A i \in 1 .. Len(q) : q[i] = queue[i + 1]
      /\ Len(queue) \in Nat /\ Len(queue) >= 1
  BY <1>1, HeadTailProperties, EmptySeq
<1>3. r \in Req /\ asked[r] \in Want
  BY <1>1, <1>2
<1> HIDE DEF r, q
<1>4. \A i, j \in 1 .. Len(q) : q[i] = q[j] => i = j
  <2>1. ASSUME NEW i \in 1 .. Len(q), NEW j \in 1 .. Len(q), q[i] = q[j]
        PROVE  i = j
    <3>1. i + 1 \in 1 .. Len(queue) /\ j + 1 \in 1 .. Len(queue)
      BY <1>2
    <3>2. queue[i + 1] = queue[j + 1]
      BY <1>2, <2>1
    <3>3. i + 1 = j + 1
      BY <1>1, <3>1, <3>2
    <3>4. QED
      BY <3>3
  <2>2. QED
    BY <2>1
<1>5. \A i \in 1 .. Len(q) : q[i] \in DOMAIN asked \ {r}
  <2>1. ASSUME NEW i \in 1 .. Len(q)
        PROVE  q[i] \in DOMAIN asked /\ q[i] # r
    <3>1. q[i] \in DOMAIN asked
      BY <1>2, ElementOfSeq
    <3>2. 1 \in 1 .. Len(queue) /\ i + 1 \in 1 .. Len(queue) /\ i + 1 # 1
      BY <1>2
    <3>3. QED
      BY <1>1, <1>2, <3>1, <3>2
  <2>2. QED
    BY <2>1
<1>6. q \in Seq(DOMAIN asked \ {r})
  BY <1>2, <1>5, SeqDef, LenProperties
<1>7. QED
  BY <1>1, <1>3, <1>4, <1>6, AcquireStep

\* The socket of request r is up: its pair has no relay yet, for only the
\* holder of the lock stores one, so the new relay replaces none.
LEMMA BoundStep ==
  ASSUME RelayInv, NEW r \in Req, Bound(r)
  PROVE  RelayInv'
<1> DEFINE k == asked[r].key
           p == binding[r]
<1>1. /\ asked \in [DOMAIN asked -> Want] /\ DOMAIN asked \subseteq Req
      /\ relays \in [DOMAIN relays -> Ports] /\ DOMAIN relays \subseteq Key
      /\ queue \in Seq(DOMAIN asked)
      /\ binding \in [DOMAIN binding -> Ports] /\ r \in DOMAIN binding
      /\ DOMAIN binding \subseteq DOMAIN asked
      /\ sockets = PortsOf(relays) \cup PortsOf(binding) \cup closing
      /\ \A s \in DOMAIN binding : s = r
  BY DEF RelayInv, TypeOK, Want, Bound, SocketsKnown, LockHeldByBinding
<1>2. /\ relays' = Put(relays, k, p) /\ quiet' = quiet \ {k} /\ janitor' = "running"
      /\ lock' = FALSE /\ binding' = Without(binding, {r})
      /\ asked' = Without(asked, {r}) /\ answer' = "relay"
      /\ mode' = mode /\ gone' = gone /\ queue' = queue
      /\ sockets' = sockets /\ closing' = closing
  BY DEF Bound, Answers
<1>3. /\ k \in Key /\ k \notin DOMAIN relays
      /\ p \in Ports /\ p \notin PortsOf(relays) /\ p \notin closing
  BY <1>1 DEF RelayInv, BindingApart, Want
<1>4. PortsOf(binding) = {p}
  BY <1>1 DEF PortsOf
<1> HIDE DEF k, p
<1>5. /\ DOMAIN relays' = DOMAIN relays \cup {k}
      /\ relays' \in [DOMAIN relays' -> Ports]
      /\ relays'[k] = p /\ \A l \in DOMAIN relays : relays'[l] = relays[l]
  BY <1>1, <1>2, <1>3 DEF Put
<1>6. PortsOf(relays)' = PortsOf(relays) \cup {p}
  BY <1>3, <1>5 DEF PortsOf
<1>7. /\ DOMAIN binding' = {} /\ PortsOf(binding)' = {}
      /\ binding' \in [DOMAIN binding' -> Ports]
  <2>1. DOMAIN binding' = DOMAIN binding \ {r} /\ binding' \in [DOMAIN binding' -> Ports]
    BY <1>1, <1>2 DEF Without, Restrict
  <2>2. QED
    BY <1>1, <2>1 DEF PortsOf
<1>8. /\ DOMAIN asked' = DOMAIN asked \ {r}
      /\ asked' \in [DOMAIN asked' -> Want]
  BY <1>1, <1>2 DEF Without, Restrict
<1>9. queue \in Seq(DOMAIN asked \ {r})
  <2>1. \A i \in 1 .. Len(queue) : queue[i] \in DOMAIN asked \ {r}
    BY <1>1, ElementOfSeq DEF RelayInv, QueueSound
  <2>2. QED
    BY <1>1, <2>1, SeqDef, LenProperties
<1>10. TypeOK'
  BY <1>1, <1>2, <1>3, <1>5, <1>7, <1>8, <1>9 DEF RelayInv, TypeOK, Want, Answer
<1>11. RelayPortsDistinct'
  <2>1. \A l \in DOMAIN relays : relays[l] # p
    BY <1>3 DEF PortsOf
  <2>2. QED
    BY <1>5, <2>1 DEF RelayInv, RelayPortsDistinct
<1>12. LockHeldByBinding' /\ BindingApart' /\ QueueSound'
  BY <1>2, <1>7 DEF LockHeldByBinding, BindingApart, QueueSound, RelayInv
<1>13. ClosingApart' /\ SocketsKnown'
  BY <1>1, <1>2, <1>3, <1>4, <1>6, <1>7 DEF ClosingApart, SocketsKnown, RelayInv
<1>14. QED
  BY <1>10, <1>11, <1>12, <1>13 DEF RelayInv

-----------------------------------------------------------------------------
(* Closing.                                                                *)

\* Relays that close hand their ports over to the transports being torn down.
LEMMA CloseStep ==
  ASSUME RelayInv, NEW K, Close(K),
         mode' = mode, gone' \subseteq {k.gid : k \in Key},
         janitor' \in {"none", "running", "done"},
         UNCHANGED reqVars, sockets' = sockets
  PROVE  RelayInv'
<1>1. /\ relays' = Without(relays, K) /\ quiet' = quiet \ K
      /\ closing' = closing \cup {relays[k] : k \in DOMAIN relays \cap K}
      /\ lock' = lock /\ queue' = queue /\ asked' = asked /\ binding' = binding
      /\ answer' = answer /\ sockets' = sockets
  BY DEF Close, reqVars
<1>2. /\ relays \in [DOMAIN relays -> Ports] /\ DOMAIN relays \subseteq Key
      /\ quiet \subseteq DOMAIN relays
      /\ sockets = PortsOf(relays) \cup PortsOf(binding) \cup closing
      /\ closing \cap PortsOf(relays) = {}
      /\ \A k, l \in DOMAIN relays : relays[k] = relays[l] => k = l
  BY DEF RelayInv, TypeOK, SocketsKnown, ClosingApart, RelayPortsDistinct
<1>3. /\ DOMAIN relays' = DOMAIN relays \ K
      /\ relays' \in [DOMAIN relays' -> Ports]
      /\ \A k \in DOMAIN relays' : relays'[k] = relays[k]
  BY <1>1, <1>2 DEF Without, Restrict
<1>4. PortsOf(relays)' = {relays[k] : k \in DOMAIN relays \ K}
  BY <1>3 DEF PortsOf
<1>5. PortsOf(relays) = PortsOf(relays)' \cup {relays[k] : k \in DOMAIN relays \cap K}
  BY <1>4 DEF PortsOf
<1>6. PortsOf(relays)' \cap {relays[k] : k \in DOMAIN relays \cap K} = {}
  BY <1>2, <1>4
<1>7. PortsOf(binding)' = PortsOf(binding)
  BY <1>1 DEF PortsOf
<1>8. closing' \subseteq sockets
  BY <1>1, <1>2, <1>5
<1>9. TypeOK'
  BY <1>1, <1>2, <1>3, <1>8 DEF RelayInv, TypeOK
<1>10. RelayPortsDistinct' /\ ClosingApart' /\ SocketsKnown'
  BY <1>1, <1>2, <1>3, <1>5, <1>6, <1>7 DEF RelayPortsDistinct, ClosingApart, SocketsKnown
<1>11. LockHeldByBinding' /\ QueueSound'
  BY <1>1 DEF RelayInv, LockHeldByBinding, QueueSound
<1>12. BindingApart'
  <2>1. ASSUME NEW s \in DOMAIN binding
        PROVE  asked[s].key \notin DOMAIN relays' /\ binding[s] \notin PortsOf(relays)' \cup closing'
    BY <1>1, <1>3, <1>5 DEF RelayInv, BindingApart
  <2>2. QED
    BY <1>1, <2>1 DEF BindingApart
<1>13. QED
  BY <1>9, <1>10, <1>11, <1>12 DEF RelayInv

\* A torn down transport gives up its own port only.
LEMMA TornDownStep ==
  ASSUME RelayInv, NEW p \in Ports, TornDown(p)
  PROVE  RelayInv'
<1>1. /\ p \in closing /\ closing' = closing \ {p} /\ sockets' = sockets \ {p}
      /\ mode' = mode /\ gone' = gone /\ relays' = relays /\ quiet' = quiet
      /\ janitor' = janitor
      /\ lock' = lock /\ queue' = queue /\ asked' = asked /\ binding' = binding
      /\ answer' = answer
  BY DEF TornDown, reqVars
<1>2. PortsOf(relays)' = PortsOf(relays) /\ PortsOf(binding)' = PortsOf(binding)
  BY <1>1 DEF PortsOf
<1>3. p \notin PortsOf(relays) /\ p \notin PortsOf(binding)
  BY <1>1 DEF RelayInv, ClosingApart, BindingApart, PortsOf
<1>4. TypeOK'
  BY <1>1 DEF RelayInv, TypeOK
<1>5. /\ RelayPortsDistinct' /\ LockHeldByBinding' /\ BindingApart' /\ ClosingApart'
      /\ QueueSound'
  BY <1>1, <1>2 DEF RelayInv, RelayPortsDistinct, LockHeldByBinding, BindingApart,
                    ClosingApart, QueueSound
<1>6. SocketsKnown'
  BY <1>1, <1>2, <1>3 DEF RelayInv, SocketsKnown
<1>7. QED
  BY <1>4, <1>5, <1>6 DEF RelayInv

\* What only turns a relay quiet, or back, or changes nothing.
LEMMA QuietStep ==
  ASSUME RelayInv, quiet' \subseteq DOMAIN relays,
         UNCHANGED <<mode, gone, relays, janitor, reqVars, sockets, closing>>
  PROVE  RelayInv'
BY DEF RelayInv, TypeOK, RelayPortsDistinct, LockHeldByBinding, BindingApart, ClosingApart,
       SocketsKnown, QueueSound, PortsOf, reqVars

\* The relay starts with no socket and nobody waiting.
LEMMA RelayInvInit == Init => RelayInv
<1> SUFFICES ASSUME Init PROVE RelayInv
  OBVIOUS
<1>1. DOMAIN relays = {} /\ DOMAIN asked = {} /\ DOMAIN binding = {}
  BY DEF Init, NoEntries
<1>2. /\ relays \in [DOMAIN relays -> Ports] /\ asked \in [DOMAIN asked -> Want]
      /\ binding \in [DOMAIN binding -> Ports]
  BY <1>1 DEF Init, NoEntries
<1>3. queue \in Seq(DOMAIN asked) /\ Len(queue) = 0
  BY EmptySeq DEF Init
<1>4. TypeOK
  BY <1>1, <1>2, <1>3 DEF Init, TypeOK, Want, Answer
<1>5. PortsOf(relays) = {} /\ PortsOf(binding) = {}
  BY <1>1 DEF PortsOf
<1>6. QED
  BY <1>1, <1>3, <1>4, <1>5 DEF Init, RelayInv, RelayPortsDistinct, LockHeldByBinding,
     BindingApart, ClosingApart, SocketsKnown, QueueSound

\* Every step of the table keeps the invariant.
LEMMA RelayInvStep == RelayInv /\ [Next]_vars => RelayInv'
<1> SUFFICES ASSUME RelayInv, [Next]_vars PROVE RelayInv'
  OBVIOUS
<1>1. ASSUME NEW r \in Req, NEW k \in Key, NEW path \in Path, Ask(r, [key |-> k, path |-> path])
      PROVE  RelayInv'
  BY <1>1, AskStep DEF Want
<1>2. ASSUME NEW r \in Req, Bound(r) PROVE RelayInv'
  BY <1>2, BoundStep
<1>3. CASE Resume
  BY <1>3, ResumeStep
<1>4. CASE Sweep
  <2>1. janitor' \in {"none", "running", "done"}
    BY <1>4 DEF Sweep
  <2>2. QED
    BY <1>4, <2>1, CloseStep DEF Sweep, RelayInv, TypeOK
<1>5. ASSUME NEW k \in Key, CloseGid(k.gid) PROVE RelayInv'
  BY <1>5, CloseStep DEF CloseGid, RelayInv, TypeOK
<1>6. ASSUME NEW p, CloseForPid(p) PROVE RelayInv'
  BY <1>6, CloseStep DEF CloseForPid, RelayInv, TypeOK
<1>7. ASSUME NEW k \in Key, FallQuiet(k) \/ Datagram(k) PROVE RelayInv'
  BY <1>7, QuietStep DEF FallQuiet, Datagram, RelayInv, TypeOK
<1>8. ASSUME NEW p \in Ports, TornDown(p) PROVE RelayInv'
  BY <1>8, TornDownStep
<1>9. CASE UNCHANGED vars
  BY <1>9, QuietStep DEF vars, tableVars, RelayInv, TypeOK
<1>10. QED
  BY <1>1, <1>2, <1>3, <1>4, <1>5, <1>6, <1>7, <1>8, <1>9 DEF Next

\* The inductive invariant: types, and why no two uses of a port coincide.
THEOREM RelayInvariant == Spec => []RelayInv
BY RelayInvInit, RelayInvStep, PTL DEF Spec

-----------------------------------------------------------------------------
(* What the relay promises.                                                *)

\* Every socket this process holds is one relay's, one request's or one closing
\* transport's: RelayManager leaks no port and gives none out twice.
THEOREM NoPortLeaks == Spec => []PortsAccounted
<1>1. ASSUME RelayInv
      PROVE  PortsAccounted
  <2>1. /\ relays \in [DOMAIN relays -> Ports]
        /\ binding \in [DOMAIN binding -> Ports]
        /\ \A k, l \in DOMAIN relays : relays[k] = relays[l] => k = l
        /\ \A r, s \in DOMAIN binding : binding[r] = binding[s] => r = s
        /\ closing \subseteq Ports
    BY <1>1 DEF RelayInv, TypeOK, RelayPortsDistinct, LockHeldByBinding
  <2>2. /\ IsFiniteSet(PortsOf(relays))
        /\ Cardinality(PortsOf(relays)) = Cardinality(DOMAIN relays)
    BY <2>1, PortsCounted
  <2>3. /\ IsFiniteSet(PortsOf(binding))
        /\ Cardinality(PortsOf(binding)) = Cardinality(DOMAIN binding)
    BY <2>1, PortsCounted
  <2>4. IsFiniteSet(closing)
    BY <2>1, PortAssumption, FS_Interval, FS_Subset DEF Ports
  <2>5. /\ PortsOf(relays) \cap PortsOf(binding) = {}
        /\ (PortsOf(relays) \cup PortsOf(binding)) \cap closing = {}
    BY <1>1 DEF RelayInv, BindingApart, ClosingApart, PortsOf
  <2>6. /\ IsFiniteSet(PortsOf(relays) \cup PortsOf(binding))
        /\ Cardinality(PortsOf(relays) \cup PortsOf(binding)) =
             Cardinality(PortsOf(relays)) + Cardinality(PortsOf(binding)) - Cardinality({})
    BY <2>2, <2>3, <2>5, FS_Union
  <2>7. Cardinality((PortsOf(relays) \cup PortsOf(binding)) \cup closing) =
          Cardinality(PortsOf(relays) \cup PortsOf(binding)) + Cardinality(closing) - Cardinality({})
    BY <2>4, <2>5, <2>6, FS_Union
  <2>8. /\ Cardinality({}) = 0
        /\ Cardinality(PortsOf(relays)) \in Nat /\ Cardinality(PortsOf(binding)) \in Nat
        /\ Cardinality(closing) \in Nat
    BY <2>2, <2>3, <2>4, FS_EmptySet, FS_CardinalityType
  <2>9. sockets = PortsOf(relays) \cup PortsOf(binding) \cup closing
    BY <1>1 DEF RelayInv, SocketsKnown
  <2>10. Cardinality(sockets) =
           Cardinality(DOMAIN relays) + Cardinality(DOMAIN binding) + Cardinality(closing)
    BY <2>2, <2>3, <2>6, <2>7, <2>8, <2>9
  <2>11. QED
    BY <2>9, <2>10 DEF PortsAccounted
<1>2. QED
  BY <1>1, RelayInvariant, PTL

\* A request is refused a relay only when the range is used up (_bind), under
\* any number of requests: nothing that binds is overlooked, for the lock is free.
THEOREM RefusedOnlyWhenExhausted == Spec => FailsOnlyWhenExhausted
<1> DEFINE A == answer' # answer /\ answer' \notin {"none", "relay"}
                  => Ports \subseteq PortsOf(relays) \cup closing \cup Foreign
<1>1. ASSUME RelayInv, [Next]_vars
      PROVE  A
  <2>1. ASSUME NEW r, NEW want, ~lock, Acquire(r, want)
        PROVE  A
    <3>1. \/ answer' = answer \/ answer' = "relay" \/ Candidates = {}
      BY <2>1 DEF Acquire, LookAgain, Scan, Answers
    <3>2. CASE Candidates = {}
      <4>1. Ports \subseteq PortsOf(relays) \cup sockets \cup Foreign
        BY <3>2 DEF Candidates
      <4>2. PortsOf(binding) = {}
        BY <1>1, <2>1 DEF RelayInv, LockHeldByBinding, PortsOf
      <4>3. QED
        BY <1>1, <4>1, <4>2 DEF RelayInv, SocketsKnown
    <3>3. QED
      BY <3>1, <3>2
  <2>2. ASSUME NEW r \in Req, NEW want, Ask(r, want) PROVE A
    BY <2>1, <2>2 DEF Ask
  <2>3. CASE Resume
    BY <2>1, <2>3 DEF Resume
  <2>4. ASSUME NEW r \in Req, Bound(r) PROVE A
    BY <2>4 DEF Bound, Answers
  <2>5. CASE answer' = answer
    BY <2>5
  <2>6. QED
    BY <1>1, <2>2, <2>3, <2>4, <2>5
       DEF Next, Sweep, CloseGid, CloseForPid, TornDown, FallQuiet, Datagram, reqVars, vars
<1>2. RelayInv /\ [Next]_vars => [A]_vars
  BY <1>1
<1>3. QED
  BY <1>2, RelayInvariant, PTL DEF Spec, FailsOnlyWhenExhausted

-----------------------------------------------------------------------------
(* The table as the rest of the server sees it.                            *)

\* When a request ends, what it waited for is still waited for if others do.
LEMMA WaitingAfterAnswer ==
  ASSUME NEW r, asked' = Without(asked, {r})
  PROVE  /\ r \notin DOMAIN asked => Waiting' = Waiting
         /\ r \in DOMAIN asked => Waiting' \in {Waiting, Waiting \ {asked[r].key}}
<1>1. /\ DOMAIN asked' = DOMAIN asked \ {r}
      /\ \A s \in DOMAIN asked \ {r} : asked'[s] = asked[s]
  BY WithoutFacts
<1>2. Waiting' = {asked[s].key : s \in DOMAIN asked \ {r}}
  BY <1>1 DEF Waiting
<1>3. QED
  BY <1>2 DEF Waiting

\* When one begins to wait, or goes on waiting for its socket.
LEMMA WaitingAfterPut ==
  ASSUME NEW r, NEW want, asked' = Put(asked, r, want)
  PROVE  /\ r \notin DOMAIN asked => Waiting' = Waiting \cup {want.key}
         /\ r \in DOMAIN asked /\ want = asked[r] => Waiting' = Waiting
<1>1. /\ DOMAIN asked' = DOMAIN asked \cup {r}
      /\ \A s \in DOMAIN asked' : asked'[s] = IF s = r THEN want ELSE asked[s]
  BY DEF Put
<1>2. QED
  BY <1>1 DEF Waiting

\* The lock is taken: the request goes on, or waits for its socket.
LEMMA AcquireAsks ==
  ASSUME NEW r, NEW want, Acquire(r, want)
  PROVE  /\ UNCHANGED <<relays, gone>>
         /\ asked' = Without(asked, {r}) \/ asked' = Put(asked, r, want)
BY DEF Acquire, LookAgain, Scan, Answers, tableVars

\* Closing some keys, for a room or not.
LEMMA CloseKeys ==
  ASSUME NEW K, Close(K), UNCHANGED asked, gone \subseteq gone',
         \A k \in DOMAIN relays \ K : k.gid \notin gone' \ gone
  PROVE  Keys!Close
<1>1. DOMAIN relays' = DOMAIN relays \ K
  BY WithoutFacts DEF Close
<1>2. QED
  BY <1>1 DEF Keys!Close, Waiting

\* Every step of the manager, on the keys of its table.
LEMMA KeysStep ==
  ASSUME RelayInv, [Next]_vars
  PROVE  [Keys!Next]_(Keys!vars)
<1>0. ASSUME UNCHANGED <<relays, asked, gone>>
      PROVE  UNCHANGED Keys!vars
  BY <1>0 DEF Keys!vars, Waiting
<1>1. ASSUME NEW r \in Req, NEW k \in Key, NEW path \in Path, Ask(r, [key |-> k, path |-> path])
      PROVE  [Keys!Next]_(Keys!vars)
  <2> DEFINE want == [key |-> k, path |-> path]
  <2>1. /\ r \notin DOMAIN asked /\ k.gid \notin gone /\ want.key = k
        /\ Ask(r, want)
    BY <1>1 DEF Ask
  <2> HIDE DEF want
  <2>2. CASE k \in DOMAIN relays
    BY <1>0, <2>1, <2>2 DEF Ask, tableVars
  <2>3. CASE k \notin DOMAIN relays
    <3>1. /\ UNCHANGED <<relays, gone>>
          /\ asked' = Without(asked, {r}) \/ asked' = Put(asked, r, want)
      BY <2>1, <2>3, AcquireAsks DEF Ask, tableVars
    <3>2. CASE asked' = Without(asked, {r})
      BY <2>1, <3>1, <3>2, WaitingAfterAnswer DEF Keys!vars
    <3>3. CASE asked' = Put(asked, r, want)
      <4>1. Waiting' = Waiting \cup {k}
        BY <2>1, <3>3, WaitingAfterPut
      <4>2. Keys!Ask(k) /\ k \in Waiting'
        BY <2>1, <2>3, <3>1, <4>1 DEF Keys!Ask, Keys!Wanted
      <4>3. QED
        BY <4>2 DEF Keys!Next
    <3>4. QED
      BY <3>1, <3>2, <3>3
  <2>4. QED
    BY <2>2, <2>3
<1>2. ASSUME NEW r \in Req, Bound(r)
      PROVE  [Keys!Next]_(Keys!vars)
  <2>1. /\ r \in DOMAIN asked /\ UNCHANGED gone
        /\ relays' = Put(relays, asked[r].key, binding[r])
        /\ asked' = Without(asked, {r})
    BY <1>2 DEF Bound, Answers, RelayInv, TypeOK
  <2>2. DOMAIN relays' = DOMAIN relays \cup {asked[r].key}
    BY <2>1 DEF Put
  <2>3. Waiting' \in {Waiting, Waiting \ {asked[r].key}} /\ asked[r].key \in Waiting
    BY <2>1, WaitingAfterAnswer DEF Waiting
  <2>4. Keys!Answer(asked[r].key)
    BY <2>1, <2>2, <2>3 DEF Keys!Answer
  <2>5. QED
    BY <2>3, <2>4 DEF Keys!Next
<1>3. CASE Resume
  <2> DEFINE r == Head(queue)
  <2>1. r \in DOMAIN asked /\ Acquire(r, asked[r])
    BY <1>3 DEF Resume, RelayInv, TypeOK
  <2> HIDE DEF r
  <2>2. /\ UNCHANGED <<relays, gone>>
        /\ asked' = Without(asked, {r}) \/ asked' = Put(asked, r, asked[r])
    BY <2>1, AcquireAsks
  <2>3. Waiting' \in {Waiting, Waiting \ {asked[r].key}} /\ asked[r].key \in Waiting
    BY <2>1, <2>2, WaitingAfterAnswer, WaitingAfterPut DEF Waiting
  <2>4. Keys!Answer(asked[r].key)
    BY <2>2, <2>3 DEF Keys!Answer
  <2>5. QED
    BY <2>3, <2>4 DEF Keys!Next
<1>4. CASE Sweep
  BY <1>4, CloseKeys DEF Sweep, reqVars, Keys!Next
<1>5. ASSUME NEW g, CloseGid(g)
      PROVE  Keys!Next
  <2> DEFINE K == {k \in Key : k.gid = g}
  <2>1. /\ Close(K) /\ UNCHANGED asked /\ gone' = gone \cup {g}
        /\ \A k \in DOMAIN relays \ K : k.gid # g
    BY <1>5 DEF CloseGid, reqVars, RelayInv, TypeOK
  <2> HIDE DEF K
  <2>2. Keys!Close
    BY <2>1, CloseKeys
  <2>3. QED
    BY <2>2 DEF Keys!Next
<1>6. ASSUME NEW p, CloseForPid(p)
      PROVE  Keys!Next
  BY <1>6, CloseKeys DEF CloseForPid, reqVars, Keys!Next
<1>7. ASSUME NEW k, FallQuiet(k) \/ Datagram(k)
      PROVE  UNCHANGED Keys!vars
  BY <1>0, <1>7 DEF FallQuiet, Datagram, reqVars
<1>8. ASSUME NEW p, TornDown(p)
      PROVE  UNCHANGED Keys!vars
  BY <1>0, <1>8 DEF TornDown, reqVars
<1>9. CASE UNCHANGED vars
  BY <1>0, <1>9 DEF vars, tableVars, reqVars
<1>10. QED
  BY <1>1, <1>2, <1>3, <1>4, <1>5, <1>6, <1>7, <1>8, <1>9 DEF Next

\* Through the lock, the scan of ports and the suspended bind, the manager does
\* to its table what RelayKeys says: a relay comes of a request that waited for
\* it, and none that a room had when it closed is left.
THEOREM RelayImplementsKeys == Spec => ImplementsRelayKeys
<1>1. Init => Keys!Init
  BY DEF Init, NoEntries, Waiting, Keys!Init
<1>2. RelayInv /\ [Next]_vars => [Keys!Next]_(Keys!vars)
  BY KeysStep
<1>3. QED
  BY <1>1, <1>2, RelayInvariant, PTL DEF Spec, ImplementsRelayKeys, Keys!Spec

-----------------------------------------------------------------------------
(***************************************************************************)
(* Theorems about PairRelay, for every set of addresses, every buffer and  *)
(* any number of datagrams.                                                *)
(*                                                                         *)
(* The invariant says what the relay holds before both ends are known: the *)
(* first datagrams of the first end, as many as fit, and nothing that any  *)
(* other address sent and was not turned away for.                         *)
(***************************************************************************)

\* How many datagrams of address a the buffer holds
Kept(a) == IF arrived[a] < PendingMax THEN arrived[a] ELSE PendingMax

LearnedAdmitted == \A a \in Learned : ~TurnedAway(a)

BeforeBoth ==
  Len(peers) < 2 =>
    /\ \A a \in Addr : sentTo[a] = <<>>
    /\ \A a \in Addr \ Learned : ~TurnedAway(a) => arrived[a] = 0
    /\ Len(peers) = 0 => pending = <<>>
    /\ Len(peers) = 1 => pending = FromTo(peers[1], 1, Kept(peers[1]))

OthersHearNothing == \A a \in Addr \ Learned : sentTo[a] = <<>>

PairInv ==
  /\ PairTypeOK
  /\ LearnedAdmitted
  /\ BeforeBoth
  /\ OthersHearNothing
  /\ LinkLossless

-----------------------------------------------------------------------------
(* Runs of datagrams.                                                      *)

\* The datagrams i to j of one address are a sequence of datagrams.
LEMMA FromToFacts ==
  ASSUME NEW a \in Addr, NEW i \in Nat \ {0}, NEW j \in Nat, i <= j + 1
  PROVE  /\ FromTo(a, i, j) \in Seq(Buffered)
         /\ Len(FromTo(a, i, j)) = j + 1 - i
         /\ \A k \in 1 .. (j + 1 - i) : FromTo(a, i, j)[k] = [from |-> a, n |-> i + k - 1]
<1> DEFINE n == j + 1 - i
           f == FromTo(a, i, j)
<1>1. n \in Nat
  OBVIOUS
<1>2. \A k \in 1 .. n : [from |-> a, n |-> i + k - 1] \in Buffered
  BY DEF Buffered
<1>3. f = [k \in 1 .. n |-> [from |-> a, n |-> i + k - 1]]
  BY DEF FromTo
<1> HIDE DEF n, f
<1>4. f \in [1 .. n -> Buffered]
  BY <1>2, <1>3
<1>5. f \in Seq(Buffered)
  BY <1>1, <1>4, SeqDef
<1>6. Len(f) = n
  BY <1>1, <1>4, <1>5, LenProperties
<1>7. QED
  BY <1>3, <1>5, <1>6 DEF n, f

\* The next one prolongs them.
LEMMA FromToNext ==
  ASSUME NEW a \in Addr, NEW i \in Nat \ {0}, NEW j \in Nat, i <= j + 1
  PROVE  Append(FromTo(a, i, j), [from |-> a, n |-> j + 1]) = FromTo(a, i, j + 1)
<1> DEFINE s == FromTo(a, i, j)
           t == FromTo(a, i, j + 1)
           e == [from |-> a, n |-> j + 1]
<1>1. /\ s \in Seq(Buffered) /\ Len(s) = j + 1 - i
      /\ \A k \in 1 .. (j + 1 - i) : s[k] = [from |-> a, n |-> i + k - 1]
  BY FromToFacts
<1>2. /\ t \in Seq(Buffered) /\ Len(t) = j + 2 - i
      /\ \A k \in 1 .. (j + 2 - i) : t[k] = [from |-> a, n |-> i + k - 1]
  <2>1. j + 1 \in Nat /\ i <= (j + 1) + 1 /\ (j + 1) + 1 - i = j + 2 - i
    OBVIOUS
  <2>2. QED
    BY <2>1, FromToFacts
<1>3. e \in Buffered
  BY DEF Buffered
<1> HIDE DEF s, t, e
<1>4. /\ Append(s, e) \in Seq(Buffered) /\ Len(Append(s, e)) = Len(s) + 1
      /\ \A k \in 1 .. Len(s) + 1 : Append(s, e)[k] = IF k <= Len(s) THEN s[k] ELSE e
  BY <1>1, <1>3
<1>5. ASSUME NEW k \in 1 .. Len(t)
      PROVE  Append(s, e)[k] = t[k]
  <2>1. CASE k <= Len(s)
    <3>1. k \in 1 .. (j + 1 - i) /\ k \in 1 .. (j + 2 - i) /\ k \in 1 .. Len(s) + 1
      BY <1>1, <1>2, <2>1
    <3>2. QED
      BY <1>1, <1>2, <1>4, <2>1, <3>1
  <2>2. CASE ~(k <= Len(s))
    <3>1. k = j + 2 - i
      BY <1>1, <1>2, <2>2
    <3>2. t[k] = [from |-> a, n |-> i + k - 1] /\ i + k - 1 = j + 1
      BY <1>2, <3>1
    <3>3. QED
      BY <1>1, <1>2, <1>4, <2>2, <3>1, <3>2 DEF e
  <2>3. QED
    BY <2>1, <2>2
<1>6. Append(s, e) = t
  BY <1>1, <1>2, <1>4, <1>5, SeqEqual
<1>7. QED
  BY <1>6 DEF s, t, e

\* An empty run.
LEMMA FromToNone ==
  ASSUME NEW a \in Addr, NEW j \in Nat
  PROVE  FromTo(a, j + 1, j) = <<>>
<1>1. /\ FromTo(a, j + 1, j) \in Seq(Buffered)
      /\ Len(FromTo(a, j + 1, j)) = 0
  <2>1. j + 1 \in Nat \ {0} /\ j + 1 - (j + 1) = 0
    OBVIOUS
  <2>2. QED
    BY <2>1, FromToFacts
<1>2. QED
  BY <1>1, EmptySeq

\* Appending to a concatenation prolongs its second part.
LEMMA AppendConcat ==
  ASSUME NEW S, NEW s \in Seq(S), NEW t \in Seq(S), NEW e \in S
  PROVE  Append(s \o t, e) = s \o Append(t, e)
<1>1. /\ <<e>> \in Seq(S)
      /\ Append(t, e) = t \o <<e>>
      /\ s \o t \in Seq(S)
      /\ Append(s \o t, e) = (s \o t) \o <<e>>
  BY ConcatProperties
<1>2. QED
  BY <1>1, ConcatAssociative

\* A sequence of datagrams of address a and of no other
OnlyOf(s, a) == s \in Seq(Buffered) /\ \A i \in DOMAIN s : s[i].from = a

\* A run is of one address.
LEMMA RunOfOne ==
  ASSUME NEW a \in Addr, NEW i \in Nat \ {0}, NEW j \in Nat, i <= j + 1
  PROVE  OnlyOf(FromTo(a, i, j), a)
<1> DEFINE f == FromTo(a, i, j)
<1>1. /\ f \in Seq(Buffered) /\ Len(f) = j + 1 - i
      /\ \A k \in 1 .. (j + 1 - i) : f[k] = [from |-> a, n |-> i + k - 1]
  BY FromToFacts
<1> HIDE DEF f
<1>2. DOMAIN f = 1 .. (j + 1 - i)
  BY <1>1
<1>3. \A k \in DOMAIN f : f[k].from = a
  BY <1>1, <1>2
<1>4. QED
  BY <1>1, <1>3 DEF OnlyOf, f

\* So are two runs of it, one after the other.
LEMMA ConcatOfOne ==
  ASSUME NEW a, NEW s, NEW t, OnlyOf(s, a), OnlyOf(t, a)
  PROVE  OnlyOf(s \o t, a)
<1>1. s \in Seq(Buffered) /\ t \in Seq(Buffered)
  BY DEF OnlyOf
<1>2. /\ s \o t \in Seq(Buffered) /\ DOMAIN (s \o t) = 1 .. Len(s) + Len(t)
      /\ Len(s) \in Nat /\ Len(t) \in Nat
  BY <1>1
<1>3. ASSUME NEW i \in 1 .. Len(s) + Len(t)
      PROVE  (s \o t)[i].from = a
  <2>1. CASE i <= Len(s)
    <3>1. (s \o t)[i] = s[i] /\ i \in DOMAIN s
      BY <1>1, <1>2, <2>1
    <3>2. QED
      BY <3>1 DEF OnlyOf
  <2>2. CASE ~(i <= Len(s))
    <3>1. (s \o t)[i] = t[i - Len(s)] /\ i - Len(s) \in DOMAIN t
      BY <1>1, <1>2, <2>2
    <3>2. QED
      BY <3>1 DEF OnlyOf
  <2>3. QED
    BY <2>1, <2>2
<1>4. QED
  BY <1>2, <1>3 DEF OnlyOf

\* Appending to one element makes a pair.
LEMMA AppendToOne ==
  ASSUME NEW x, NEW y
  PROVE  Append(<<x>>, y) = <<x, y>>
<1> DEFINE S == {x, y}
<1>1. <<x>> \in Seq(S) /\ Len(<<x>>) = 1 /\ <<x>>[1] = x /\ y \in S
  OBVIOUS
<1>2. <<x, y>> \in Seq(S) /\ Len(<<x, y>>) = 2 /\ <<x, y>>[1] = x /\ <<x, y>>[2] = y
  OBVIOUS
<1> HIDE DEF S
<1>3. /\ Append(<<x>>, y) \in Seq(S) /\ Len(Append(<<x>>, y)) = 2
      /\ Append(<<x>>, y)[1] = x /\ Append(<<x>>, y)[2] = y
  BY <1>1, AppendProperties
<1>4. \A i \in 1 .. 2 : Append(<<x>>, y)[i] = <<x, y>>[i]
  <2>1. 1 .. 2 = {1, 2}
    OBVIOUS
  <2>2. QED
    BY <1>2, <1>3, <2>1
<1>5. QED
  BY <1>2, <1>3, <1>4, SeqEqual

-----------------------------------------------------------------------------
(* Steps.                                                                  *)

\* The ends learned are none, one or two.
LEMMA LearnedFacts ==
  ASSUME NEW p \in Seq(Addr), Len(p) <= 2
  PROVE  /\ Len(p) \in {0, 1, 2}
         /\ {p[i] : i \in DOMAIN p} \subseteq Addr
         /\ Len(p) = 0 => p = <<>> /\ {p[i] : i \in DOMAIN p} = {}
         /\ Len(p) = 1 => p = <<p[1]>> /\ {p[i] : i \in DOMAIN p} = {p[1]}
         /\ Len(p) = 2 => p[1] \in Addr /\ p[2] \in Addr /\ {p[i] : i \in DOMAIN p} = {p[1], p[2]}
<1>1. Len(p) \in Nat /\ DOMAIN p = 1 .. Len(p) /\ \A i \in 1 .. Len(p) : p[i] \in Addr
  BY LenProperties
<1>2. Len(p) \in {0, 1, 2}
  BY <1>1
<1>3. CASE Len(p) = 0
  <2>1. p = <<>>
    BY <1>3, EmptySeq
  <2>2. DOMAIN p = {}
    BY <1>1, <1>3
  <2>3. QED
    BY <1>1, <1>3, <2>1, <2>2
<1>4. CASE Len(p) = 1
  <2>1. DOMAIN p = {1}
    BY <1>1, <1>4
  <2>2. p[1] \in Addr
    BY <1>1, <1>4
  <2>3. <<p[1]>> \in Seq(Addr) /\ Len(<<p[1]>>) = 1 /\ <<p[1]>>[1] = p[1]
    BY <2>2
  <2>4. p = <<p[1]>>
    BY <1>4, <2>3, SeqEqual
  <2>5. QED
    BY <1>4, <2>1, <2>2, <2>4
<1>5. CASE Len(p) = 2
  <2>1. DOMAIN p = {1, 2}
    BY <1>1, <1>5
  <2>2. QED
    BY <1>1, <1>5, <2>1
<1>6. QED
  BY <1>2, <1>3, <1>4, <1>5

\* A datagram that is dropped disturbs neither end.
LEMMA DroppedStep ==
  ASSUME PairInv, NEW a \in Addr, Dropped(a)
  PROVE  PairInv'
<1>1. /\ a \notin Learned /\ (TurnedAway(a) \/ Len(peers) = 2)
      /\ arrived' = [arrived EXCEPT ![a] = @ + 1]
      /\ peers' = peers /\ pending' = pending /\ sentTo' = sentTo
      /\ arrived \in [Addr -> Nat] /\ peers \in Seq(Addr) /\ Len(peers) <= 2
  BY DEF Dropped, Arrives, PairInv, PairTypeOK
<1>2. /\ arrived' \in [Addr -> Nat]
      /\ \A b \in Addr \ {a} : arrived'[b] = arrived[b]
  BY <1>1
<1>3. Learned' = Learned /\ Learned \subseteq Addr
  BY <1>1, LearnedFacts DEF Learned
<1>4. PairTypeOK' /\ LearnedAdmitted' /\ OthersHearNothing'
  BY <1>1, <1>2, <1>3
     DEF PairInv, PairTypeOK, LearnedAdmitted, OthersHearNothing, TurnedAway
<1>5. BeforeBoth'
  <2> SUFFICES ASSUME Len(peers) < 2
               PROVE  /\ \A b \in Addr : sentTo[b] = <<>>
                      /\ \A b \in Addr \ Learned : ~TurnedAway(b) => arrived'[b] = 0
                      /\ Len(peers) = 0 => pending = <<>>
                      /\ Len(peers) = 1 => pending = FromTo(peers[1], 1, Kept(peers[1])')
    BY <1>1, <1>3 DEF BeforeBoth, TurnedAway, FromTo, Kept
  <2>1. TurnedAway(a)
    <3>1. Len(peers) # 2
      OBVIOUS
    <3>2. QED
      BY <1>1, <3>1, Zenon
  <2>2. Len(peers) = 1 => peers[1] \in Learned
    BY <1>1, LearnedFacts DEF Learned
  <2>3. Len(peers) = 1 => Kept(peers[1])' = Kept(peers[1])
    BY <1>1, <1>2, <1>3, <2>2 DEF Kept
  <2>4. QED
    BY <1>2, <2>1, <2>3 DEF PairInv, BeforeBoth
<1>6. LinkLossless'
  <2>1. Len(peers) = 2 => /\ arrived'[peers[1]] = arrived[peers[1]]
                          /\ arrived'[peers[2]] = arrived[peers[2]]
    BY <1>1, <1>2, LearnedFacts DEF Learned
  <2>2. QED
    BY <1>1, <2>1 DEF PairInv, LinkLossless, FromTo
<1>7. QED
  BY <1>4, <1>5, <1>6 DEF PairInv

\* The first end's datagrams are kept in order while there is room.
LEMMA KeptStep ==
  ASSUME PairInv, NEW a \in Addr, KeptForSecond(a)
  PROVE  PairInv'
<1>1. /\ peers' = <<a>> /\ peers \in {<<>>, <<a>>}
      /\ a \in Learned \/ ~TurnedAway(a)
      /\ pending' = IF Len(pending) < PendingMax THEN Append(pending, Numbered(a)) ELSE pending
      /\ arrived' = [arrived EXCEPT ![a] = @ + 1]
      /\ sentTo' = sentTo
      /\ arrived \in [Addr -> Nat] /\ pending \in Seq(Buffered) /\ PendingMax \in Nat
  BY PairAssumption DEF KeptForSecond, Arrives, PairInv, PairTypeOK
<1>2. Len(peers) < 2 /\ Len(peers') = 1 /\ peers'[1] = a
  <2>1. Len(<<a>>) = 1 /\ <<a>>[1] = a /\ Len(<<>>) = 0
    OBVIOUS
  <2>2. Len(peers) = 0 \/ Len(peers) = 1
    BY <1>1, <2>1, Zenon
  <2>3. Len(peers') = 1 /\ peers'[1] = a
    BY <1>1, <2>1, Zenon
  <2>4. QED
    BY <2>2, <2>3
<1>3. Learned' = {a} /\ Learned \subseteq {a}
  BY <1>1 DEF Learned
<1>4. pending = FromTo(a, 1, Kept(a)) /\ Kept(a) \in Nat
  <2>1. CASE peers = <<>>
    <3>1. arrived[a] = 0 /\ pending = <<>>
      BY <1>1, <2>1 DEF Learned, PairInv, BeforeBoth
    <3>2. Kept(a) = 0
      BY <1>1, <3>1 DEF Kept
    <3>3. FromTo(a, 0 + 1, 0) = <<>>
      BY FromToNone
    <3>4. QED
      BY <3>1, <3>2, <3>3
  <2>2. CASE peers = <<a>>
    <3>1. Len(peers) = 1 /\ peers[1] = a
      BY <2>2
    <3>2. QED
      BY <1>1, <3>1 DEF PairInv, BeforeBoth, Kept
  <2>3. QED
    BY <1>1, <2>1, <2>2
<1>5. Len(pending) = Kept(a)
  <2>1. 1 \in Nat \ {0} /\ 1 <= Kept(a) + 1 /\ Kept(a) + 1 - 1 = Kept(a)
    BY <1>4
  <2>2. QED
    BY <1>4, <2>1, FromToFacts
<1>6. arrived' \in [Addr -> Nat] /\ arrived'[a] = arrived[a] + 1
      /\ \A b \in Addr \ {a} : arrived'[b] = arrived[b]
  BY <1>1
<1>7. /\ pending' = FromTo(a, 1, Kept(a)') /\ pending' \in Seq(Buffered)
      /\ Len(pending') <= PendingMax
  <2>1. CASE arrived[a] < PendingMax
    <3>1. Kept(a) = arrived[a] /\ Kept(a)' = arrived[a] + 1 /\ Len(pending) < PendingMax
      BY <1>1, <1>5, <1>6, <2>1 DEF Kept
    <3>2. pending' = Append(pending, [from |-> a, n |-> Kept(a) + 1])
      BY <1>1, <3>1 DEF Numbered
    <3>3. 1 \in Nat \ {0} /\ 1 <= Kept(a) + 1
      BY <1>4
    <3>4. pending' = FromTo(a, 1, Kept(a) + 1)
      BY <1>4, <3>2, <3>3, FromToNext
    <3>5. [from |-> a, n |-> Kept(a) + 1] \in Buffered
      BY <1>4 DEF Buffered
    <3>6. pending' \in Seq(Buffered) /\ Len(pending') = Len(pending) + 1
      BY <1>1, <3>2, <3>5
    <3>7. QED
      BY <1>1, <1>4, <1>5, <3>1, <3>4, <3>6
  <2>2. CASE ~(arrived[a] < PendingMax)
    <3>1. Kept(a) = PendingMax /\ Kept(a)' = PendingMax /\ ~(Len(pending) < PendingMax)
      BY <1>1, <1>5, <1>6, <2>2 DEF Kept
    <3>2. QED
      BY <1>1, <1>4, <1>5, <3>1
  <2>3. QED
    BY <2>1, <2>2
<1>8. PairTypeOK'
  <2>1. <<a>> \in Seq(Addr)
    OBVIOUS
  <2>2. QED
    BY <1>1, <1>2, <1>6, <1>7, <2>1 DEF PairInv, PairTypeOK
<1>9. LearnedAdmitted'
  BY <1>1, <1>3 DEF PairInv, LearnedAdmitted, TurnedAway
<1>10. BeforeBoth'
  <2>1. \A b \in Addr \ {a} : ~TurnedAway(b) => arrived'[b] = 0
    BY <1>2, <1>3, <1>6 DEF PairInv, BeforeBoth
  <2>2. QED
    BY <1>1, <1>2, <1>3, <1>7, <2>1 DEF PairInv, BeforeBoth, TurnedAway, FromTo, Kept
<1>11. OthersHearNothing' /\ LinkLossless'
  BY <1>1, <1>2 DEF PairInv, BeforeBoth, OthersHearNothing, LinkLossless
<1>12. QED
  BY <1>8, <1>9, <1>10, <1>11 DEF PairInv

\* The second end is learned with its first datagram, and what was kept is all
\* that it is sent.
LEMMA SecondStep ==
  ASSUME PairInv, NEW a \in Addr, SecondLearned(a)
  PROVE  PairInv'
<1> DEFINE f == peers[1]
<1>1. /\ a \notin Learned /\ ~TurnedAway(a) /\ Len(peers) = 1
      /\ peers' = Append(peers, a)
      /\ sentTo' = [sentTo EXCEPT ![a] = @ \o pending, ![peers[1]] = Append(@, Numbered(a))]
      /\ pending' = <<>>
      /\ arrived' = [arrived EXCEPT ![a] = @ + 1]
      /\ arrived \in [Addr -> Nat] /\ sentTo \in [Addr -> Seq(Buffered)]
      /\ pending \in Seq(Buffered) /\ peers \in Seq(Addr) /\ PendingMax \in Nat
  BY PairAssumption DEF SecondLearned, Arrives, PairInv, PairTypeOK
<1>2. f \in Addr /\ f # a /\ Learned = {f} /\ peers = <<f>>
  BY <1>1, LearnedFacts DEF Learned
<1>3. /\ peers' = <<f, a>> /\ peers' \in Seq(Addr)
      /\ Len(peers') = 2 /\ peers'[1] = f /\ peers'[2] = a
  <2>1. peers' = Append(<<f>>, a)
    BY <1>1, <1>2
  <2> HIDE DEF f
  <2>2. Append(<<f>>, a) = <<f, a>>
    BY AppendToOne
  <2>3. <<f, a>> \in Seq(Addr) /\ Len(<<f, a>>) = 2 /\ <<f, a>>[1] = f /\ <<f, a>>[2] = a
    BY <1>2
  <2>4. QED
    BY <2>1, <2>2, <2>3
<1>4. Learned' = {f, a}
  <2>1. Learned' = {peers'[i] : i \in DOMAIN peers'}
    BY DEF Learned
  <2>2. QED
    BY <1>3, <2>1, LearnedFacts
<1>5. /\ \A b \in Addr : sentTo[b] = <<>>
      /\ arrived[a] = 0
      /\ pending = FromTo(f, 1, Kept(f))
  BY <1>1, <1>2 DEF PairInv, BeforeBoth
<1> HIDE DEF f
<1>6. /\ arrived' \in [Addr -> Nat]
      /\ arrived'[a] = 1 /\ arrived'[f] = arrived[f] /\ arrived[f] \in Nat
  BY <1>1, <1>2, <1>5
<1>7. /\ sentTo'[a] = pending
      /\ sentTo'[f] = <<[from |-> a, n |-> 1]>>
      /\ \A b \in Addr \ {f, a} : sentTo'[b] = <<>>
      /\ DOMAIN sentTo' = Addr
      /\ sentTo' = [b \in Addr |-> sentTo'[b]]
  <2>1. <<>> \o pending = pending
    BY <1>1, ConcatEmptySeq
  <2>2. Append(<<>>, Numbered(a)) = <<[from |-> a, n |-> 1]>>
    BY <1>5 DEF Numbered
  <2>3. /\ sentTo'[a] = sentTo[a] \o pending /\ sentTo'[f] = Append(sentTo[f], Numbered(a))
        /\ \A b \in Addr \ {f, a} : sentTo'[b] = sentTo[b]
        /\ DOMAIN sentTo' = Addr /\ sentTo' = [b \in Addr |-> sentTo'[b]]
    BY <1>1, <1>2 DEF f
  <2>4. QED
    BY <1>2, <1>5, <2>1, <2>2, <2>3
<1>8. sentTo' \in [Addr -> Seq(Buffered)]
  <2>1. <<[from |-> a, n |-> 1]>> \in Seq(Buffered)
    BY DEF Buffered
  <2>2. <<>> \in Seq(Buffered)
    OBVIOUS
  <2>3. \A b \in Addr : sentTo'[b] \in Seq(Buffered)
    BY <1>1, <1>7, <2>1, <2>2
  <2>4. QED
    BY <1>7, <2>3
<1>9. PairTypeOK'
  <2>1. peers' \in Seq(Addr) /\ Len(peers') <= 2 /\ peers'[1] # peers'[2]
    BY <1>2, <1>3
  <2>2. pending' \in Seq(Buffered) /\ Len(pending') = 0
    BY <1>1
  <2>3. Len(pending') <= PendingMax
    BY <1>1, <2>2
  <2>4. QED
    BY <1>1, <1>6, <1>8, <2>1, <2>2, <2>3 DEF PairTypeOK
<1>10. LearnedAdmitted' /\ BeforeBoth' /\ OthersHearNothing'
  <2>1. LearnedAdmitted'
    BY <1>1, <1>2, <1>4 DEF PairInv, LearnedAdmitted, TurnedAway
  <2>2. BeforeBoth'
    BY <1>3 DEF BeforeBoth
  <2>3. OthersHearNothing'
    BY <1>4, <1>7 DEF OthersHearNothing
  <2>4. QED
    BY <2>1, <2>2, <2>3
<1>11. LinkLossless'
  <2> DEFINE k == Kept(f)
             j == arrived[f] + 1
  <2>1. /\ k \in 0 .. PendingMax /\ j \in 1 .. arrived[f] + 1
        /\ IF k < PendingMax THEN j = k + 1 ELSE j > k
    <3>1. arrived[f] \in Nat /\ PendingMax \in Nat
      BY <1>1, <1>6
    <3>2. k = IF arrived[f] < PendingMax THEN arrived[f] ELSE PendingMax
      BY DEF Kept
    <3> HIDE DEF k, f
    <3>3. QED
      BY <3>1, <3>2
  <2>2. sentTo'[f] = FromTo(a, 1, 1)
    <3>1. FromTo(a, 1, 1) \in Seq(Buffered) /\ Len(FromTo(a, 1, 1)) = 1
          /\ FromTo(a, 1, 1)[1] = [from |-> a, n |-> 1]
      <4>1. 1 \in Nat \ {0} /\ 1 + 1 - 1 = 1 /\ 1 \in 1 .. 1 /\ 1 <= 1 + 1
        OBVIOUS
      <4> DEFINE one == 1
      <4>2. one \in Nat \ {0} /\ one \in Nat /\ one <= one + 1
        BY <4>1
      <4> HIDE DEF one
      <4>3. /\ FromTo(a, one, one) \in Seq(Buffered)
            /\ Len(FromTo(a, one, one)) = one + 1 - one
            /\ \A i \in 1 .. (one + 1 - one) :
                  FromTo(a, one, one)[i] = [from |-> a, n |-> one + i - 1]
        BY <4>2, FromToFacts
      <4>4. FromTo(a, 1, 1)[1] = [from |-> a, n |-> 1 + 1 - 1]
        BY <4>1, <4>3 DEF one
      <4>5. QED
        BY <4>1, <4>3, <4>4 DEF one
    <3>2. <<[from |-> a, n |-> 1]>> \in Seq(Buffered)
      BY DEF Buffered
    <3>3. <<[from |-> a, n |-> 1]>> = FromTo(a, 1, 1)
      BY <3>1, <3>2, SeqEqual
    <3>4. QED
      BY <1>7, <3>3
  <2>3. sentTo'[a] = FromTo(f, 1, k) \o FromTo(f, j, arrived[f])
    <3>1. FromTo(f, j, arrived[f]) = <<>>
      BY <1>2, <1>6, FromToNone
    <3>2. pending \o <<>> = pending
      BY <1>1, ConcatEmptySeq
    <3>3. QED
      BY <1>5, <1>7, <3>1, <3>2
  <2> HIDE DEF k, j
  <2>4. /\ sentTo'[peers'[1]] = FromTo(peers'[2], 1, arrived'[peers'[2]])
        /\ k \in 0 .. PendingMax /\ j \in 1 .. arrived'[peers'[1]] + 1
        /\ sentTo'[peers'[2]] =
             FromTo(peers'[1], 1, k) \o FromTo(peers'[1], j, arrived'[peers'[1]])
        /\ IF k < PendingMax THEN j = k + 1 ELSE j > k
    BY <1>3, <1>6, <2>1, <2>2, <2>3
  <2>5. QED
    BY <2>4 DEF LinkLossless, FromTo
<1>12. QED
  BY <1>9, <1>10, <1>11 DEF PairInv

\* From then on each datagram prolongs what the other end was sent.
LEMMA ForwardedStep ==
  ASSUME PairInv, NEW a \in Addr, Forwarded(a)
  PROVE  PairInv'
<1> DEFINE f == peers[1]
           g == peers[2]
           o == Other(a)
<1>1. /\ a \in Learned /\ Len(peers) = 2
      /\ sentTo' = [sentTo EXCEPT ![o] = Append(@, Numbered(a))]
      /\ arrived' = [arrived EXCEPT ![a] = @ + 1]
      /\ peers' = peers /\ pending' = pending
      /\ arrived \in [Addr -> Nat] /\ sentTo \in [Addr -> Seq(Buffered)]
      /\ peers \in Seq(Addr) /\ PendingMax \in Nat
  BY PairAssumption DEF Forwarded, Arrives, PairInv, PairTypeOK
<1>2. f \in Addr /\ g \in Addr /\ f # g /\ Learned = {f, g}
  BY <1>1, LearnedFacts DEF Learned, PairInv, PairTypeOK
<1>3. /\ sentTo[f] = FromTo(g, 1, arrived[g])
      /\ \E k \in 0 .. PendingMax, j \in 1 .. arrived[f] + 1 :
           /\ sentTo[g] = FromTo(f, 1, k) \o FromTo(f, j, arrived[f])
           /\ IF k < PendingMax THEN j = k + 1 ELSE j > k
  BY <1>1 DEF PairInv, LinkLossless
<1>4. o \in {f, g} /\ (a = f => o = g) /\ (a = g => o = f)
  BY <1>1, <1>2 DEF Other
<1>5. Numbered(a) = [from |-> a, n |-> arrived[a] + 1] /\ Numbered(a) \in Buffered
  BY <1>1 DEF Numbered, Buffered
<1> HIDE DEF f, g, o
<1>6. /\ arrived' \in [Addr -> Nat]
      /\ arrived'[a] = arrived[a] + 1 /\ \A b \in Addr \ {a} : arrived'[b] = arrived[b]
      /\ arrived[f] \in Nat /\ arrived[g] \in Nat
  BY <1>1, <1>2
<1>7. /\ sentTo' \in [Addr -> Seq(Buffered)]
      /\ sentTo'[o] = Append(sentTo[o], Numbered(a))
      /\ \A b \in Addr \ {o} : sentTo'[b] = sentTo[b]
  <2>1. o \in Addr /\ Append(sentTo[o], Numbered(a)) \in Seq(Buffered)
    BY <1>1, <1>2, <1>4, <1>5
  <2>2. QED
    BY <1>1, <2>1
<1>8. Learned' = Learned
  BY <1>1 DEF Learned
<1>9. PairTypeOK'
  BY <1>1, <1>6, <1>7 DEF PairInv, PairTypeOK
<1>10. LearnedAdmitted' /\ BeforeBoth' /\ OthersHearNothing'
  <2>1. LearnedAdmitted'
    BY <1>8 DEF PairInv, LearnedAdmitted, TurnedAway
  <2>2. Len(peers') = 2
    BY <1>1, Zenon
  <2>3. BeforeBoth'
    BY <2>2 DEF BeforeBoth
  <2>4. OthersHearNothing'
    BY <1>2, <1>4, <1>7, <1>8 DEF PairInv, OthersHearNothing
  <2>5. QED
    BY <2>1, <2>3, <2>4
<1>11. LinkLossless'
  <2> SUFFICES /\ sentTo'[f] = FromTo(g, 1, arrived'[g])
               /\ \E k \in 0 .. PendingMax, j \in 1 .. arrived'[f] + 1 :
                    /\ sentTo'[g] = FromTo(f, 1, k) \o FromTo(f, j, arrived'[f])
                    /\ IF k < PendingMax THEN j = k + 1 ELSE j > k
    BY <1>1 DEF LinkLossless, FromTo, f, g
  <2>1. CASE a = g
    <3>1. o = f /\ sentTo'[g] = sentTo[g] /\ arrived'[f] = arrived[f]
          /\ arrived'[g] = arrived[g] + 1
      BY <1>2, <1>4, <1>6, <1>7, <2>1
    <3>2. 1 \in Nat \ {0} /\ 1 <= arrived[g] + 1
      BY <1>6
    <3>3. Append(FromTo(g, 1, arrived[g]), [from |-> g, n |-> arrived[g] + 1])
            = FromTo(g, 1, arrived[g] + 1)
      BY <1>2, <1>6, <3>2, FromToNext
    <3>4. sentTo'[f] = FromTo(g, 1, arrived'[g])
      BY <1>3, <1>5, <1>7, <2>1, <3>1, <3>3
    <3>5. QED
      BY <1>3, <3>1, <3>4
  <2>2. CASE a = f
    <3>1. o = g /\ sentTo'[f] = sentTo[f] /\ arrived'[g] = arrived[g]
          /\ arrived'[f] = arrived[f] + 1
      BY <1>2, <1>4, <1>6, <1>7, <2>2
    <3>2. PICK k \in 0 .. PendingMax, j \in 1 .. arrived[f] + 1 :
            /\ sentTo[g] = FromTo(f, 1, k) \o FromTo(f, j, arrived[f])
            /\ IF k < PendingMax THEN j = k + 1 ELSE j > k
      BY <1>3
    <3>3. j \in Nat \ {0} /\ j <= arrived[f] + 1 /\ k \in Nat /\ 1 \in Nat \ {0} /\ 1 <= k + 1
      BY <1>1, <1>6
    <3>4. FromTo(f, 1, k) \in Seq(Buffered) /\ FromTo(f, j, arrived[f]) \in Seq(Buffered)
      BY <1>2, <1>6, <3>3, FromToFacts
    <3>5. Append(FromTo(f, j, arrived[f]), [from |-> f, n |-> arrived[f] + 1])
            = FromTo(f, j, arrived[f] + 1)
      BY <1>2, <1>6, <3>3, FromToNext
    <3>6. sentTo'[g] = Append(FromTo(f, 1, k) \o FromTo(f, j, arrived[f]), Numbered(a))
      BY <1>7, <3>1, <3>2
    <3>7. sentTo'[g] = FromTo(f, 1, k) \o Append(FromTo(f, j, arrived[f]), Numbered(a))
      <4> DEFINE s == FromTo(f, 1, k)
                 t == FromTo(f, j, arrived[f])
                 e == Numbered(a)
      <4>1. s \in Seq(Buffered) /\ t \in Seq(Buffered) /\ e \in Buffered
        BY <1>5, <3>4
      <4>2. sentTo'[g] = Append(s \o t, e)
        BY <3>6
      <4> HIDE DEF s, t, e
      <4>3. Append(s \o t, e) = s \o Append(t, e)
        BY <4>1, AppendConcat
      <4>4. sentTo'[g] = s \o Append(t, e)
        BY <4>2, <4>3
      <4>5. QED
        BY <4>4 DEF s, t, e
    <3>8. sentTo'[g] = FromTo(f, 1, k) \o FromTo(f, j, arrived'[f])
      BY <1>5, <2>2, <3>1, <3>5, <3>7
    <3>9. j \in 1 .. arrived'[f] + 1
      BY <1>6, <3>1
    <3>10. QED
      BY <1>3, <3>1, <3>2, <3>8, <3>9
  <2>3. QED
    BY <1>1, <1>2, <2>1, <2>2
<1>12. QED
  BY <1>9, <1>10, <1>11 DEF PairInv

\* A relay that has just been opened.
LEMMA OpenedInv == PairInit => PairInv
<1> SUFFICES ASSUME PairInit
             PROVE  PairInv
  OBVIOUS
<1>1. /\ peers = <<>> /\ pending = <<>> /\ peers \in Seq(Addr) /\ pending \in Seq(Buffered)
      /\ Len(peers) = 0 /\ Len(pending) = 0
      /\ arrived = [a \in Addr |-> 0] /\ sentTo = [a \in Addr |-> <<>>]
  BY EmptySeq DEF PairInit
<1>2. Learned = {}
  BY <1>1, LearnedFacts DEF Learned
<1>3. sentTo \in [Addr -> Seq(Buffered)]
  <2>1. <<>> \in Seq(Buffered)
    OBVIOUS
  <2>2. QED
    BY <1>1, <2>1
<1>4. PairTypeOK
  BY <1>1, <1>3, PairAssumption DEF PairTypeOK
<1>5. QED
  BY <1>1, <1>2, <1>4
     DEF PairInv, LearnedAdmitted, BeforeBoth, OthersHearNothing, LinkLossless

\* Every step of a relay keeps the invariant.
LEMMA PairInvStep ==
  ASSUME PairInv, [PairNext]_pairVars
  PROVE  PairInv'
<1>1. ASSUME NEW a \in Addr, DatagramReceived(a)
      PROVE  PairInv'
  BY <1>1, DroppedStep, KeptStep, SecondStep, ForwardedStep DEF DatagramReceived
<1>2. CASE ClosePair
  <2>1. PairInit'
    BY <1>2 DEF ClosePair, PairInit
  <2>2. QED
    BY <2>1, OpenedInv, PTL
<1>3. CASE UNCHANGED pairVars
  <2>1. peers' = peers /\ pending' = pending /\ arrived' = arrived /\ sentTo' = sentTo
    BY <1>3 DEF pairVars
  <2>2. PairTypeOK'
    BY <2>1 DEF PairInv, PairTypeOK
  <2>3. LearnedAdmitted' /\ OthersHearNothing'
    BY <2>1 DEF PairInv, LearnedAdmitted, OthersHearNothing, Learned, TurnedAway
  <2>4. BeforeBoth'
    BY <2>1 DEF PairInv, BeforeBoth, Learned, TurnedAway, Kept, FromTo
  <2>5. LinkLossless'
    BY <2>1 DEF PairInv, LinkLossless, FromTo
  <2>6. QED
    BY <2>2, <2>3, <2>4, <2>5 DEF PairInv
<1>4. QED
  BY <1>1, <1>2, <1>3 DEF PairNext

-----------------------------------------------------------------------------
(* The theorems.                                                           *)

\* The relay holds, before both ends are known, exactly the first datagrams of
\* the first end that fit the buffer (datagram_received, PENDING_MAX), and what
\* it then hands over is lossless and in order both ways.
THEOREM PairInvariant == PairSpec => []PairInv
<1>1. PairInv /\ [PairNext]_pairVars => PairInv'
  BY PairInvStep
<1>2. QED
  BY <1>1, OpenedInv, PTL DEF PairSpec

\* Between two ends nothing is lost, repeated or reordered but what the first
\* end sent beyond the buffer before there was a second one.
THEOREM LinkIsLossless == PairSpec => []LinkLossless
<1>1. PairInv => LinkLossless
  BY DEF PairInv
<1>2. QED
  BY <1>1, PairInvariant, PTL

\* Nobody but the two ends is sent anything, each by the other only, and in
\* strict mode no end is at an address other than the players'.
THEOREM PairIsPrivate == PairSpec => []PairStaysPrivate
<1>1. PairInv => PairStaysPrivate
  <2> SUFFICES ASSUME PairInv
               PROVE  PairStaysPrivate
    OBVIOUS
  <2> DEFINE f == peers[1]
             g == peers[2]
  <2>1. /\ peers \in Seq(Addr) /\ Len(peers) <= 2
        /\ arrived \in [Addr -> Nat] /\ sentTo \in [Addr -> Seq(Buffered)]
        /\ Len(peers) = 2 => f # g
    BY DEF PairInv, PairTypeOK
  <2>2. ASSUME NEW a \in Addr, sentTo[a] # <<>>
        PROVE  /\ Len(peers) = 2 /\ f \in Addr /\ g \in Addr /\ Learned = {f, g}
               /\ a \in {f, g}
    <3>1. a \in Learned
      BY <2>2 DEF PairInv, OthersHearNothing, PairStaysPrivate
    <3>2. ~(Len(peers) < 2)
      BY <2>2 DEF PairInv, BeforeBoth
    <3> HIDE DEF f, g
    <3>3. Len(peers) = 2
      <4>1. peers \in Seq(Addr) /\ Len(peers) <= 2
        BY <2>1
      <4>2. Len(peers) \in {0, 1, 2}
        BY <4>1, LearnedFacts
      <4>3. Len(peers) = 0 \/ Len(peers) = 1 => Len(peers) < 2
        OBVIOUS
      <4>4. QED
        BY <3>2, <4>2, <4>3, Zenon
    <3> USE DEF f, g
    <3>4. QED
      BY <2>1, <3>1, <3>3, LearnedFacts DEF Learned
  <2>3. ASSUME NEW a \in Addr, sentTo[a] # <<>>, NEW i \in DOMAIN sentTo[a]
        PROVE  sentTo[a][i].from \in Learned \ {a}
    <3>1. /\ Len(peers) = 2 /\ f \in Addr /\ g \in Addr /\ f # g
          /\ Learned = {f, g} /\ a \in {f, g}
      BY <2>1, <2>2, <2>3
    <3>2. /\ sentTo[f] = FromTo(g, 1, arrived[g])
          /\ \E k \in 0 .. PendingMax, j \in 1 .. arrived[f] + 1 :
               sentTo[g] = FromTo(f, 1, k) \o FromTo(f, j, arrived[f])
      BY <3>1 DEF PairInv, LinkLossless
    <3>3. arrived[f] \in Nat /\ arrived[g] \in Nat
      BY <2>1, <3>1
    <3> HIDE DEF f, g
    <3>4. CASE a = f
      <4>1. 1 \in Nat \ {0} /\ 1 <= arrived[g] + 1
        BY <3>3
      <4>2. OnlyOf(FromTo(g, 1, arrived[g]), g)
        BY <3>1, <3>3, <4>1, RunOfOne
      <4>3. QED
        BY <2>3, <3>1, <3>2, <3>4, <4>2 DEF OnlyOf
    <3>5. CASE a = g
      <4>1. PICK k \in 0 .. PendingMax, j \in 1 .. arrived[f] + 1 :
              sentTo[g] = FromTo(f, 1, k) \o FromTo(f, j, arrived[f])
        BY <3>2
      <4>2. j \in Nat \ {0} /\ j <= arrived[f] + 1 /\ k \in Nat
            /\ 1 \in Nat \ {0} /\ 1 <= k + 1
        BY <3>3, PairAssumption
      <4>3. OnlyOf(FromTo(f, 1, k), f) /\ OnlyOf(FromTo(f, j, arrived[f]), f)
        BY <3>1, <3>3, <4>2, RunOfOne
      <4>4. OnlyOf(FromTo(f, 1, k) \o FromTo(f, j, arrived[f]), f)
        BY <4>3, ConcatOfOne
      <4>5. QED
        BY <2>3, <3>1, <3>5, <4>1, <4>4 DEF OnlyOf
    <3>6. QED
      BY <3>1, <3>4, <3>5
  <2>4. Strict /\ Expected # {} => \A a \in Learned : IpOfAddr[a] \in Expected
    BY DEF PairInv, LearnedAdmitted, TurnedAway
  <2>5. QED
    BY <2>2, <2>3, <2>4 DEF PairStaysPrivate
<1>2. QED
  BY <1>1, PairInvariant, PTL

-----------------------------------------------------------------------------
(***************************************************************************)
(* Theorems about RelayPolicy, for every set of players, every cap and     *)
(* every time to live.                                                     *)
(*                                                                         *)
(* All of them rest on what _prune may leave (PruneFacts).  The invariant  *)
(* adds the times of the entries: no entry was seen in the future, and no  *)
(* mark outlasts a new one, so that a mark that is renewed by a failure is *)
(* never shortened.                                                        *)
(***************************************************************************)

SeenBefore == \A k \in DOMAIN clients : clients[k].seen <= now

PairTimes == \A k \in DOMAIN pairs : pairs[k].seen <= now /\ pairs[k].until <= now + PairTtl

PolicyInv ==
  /\ PolicyTypeOK
  /\ MemoryBounded
  /\ SeenBefore
  /\ PairTimes

-----------------------------------------------------------------------------
(* Pruning.                                                                *)

\* What _prune may leave: entries of the dict, as they were, no more than the
\* cap; all of them or as many as the cap; and what went was first in order.
LEMMA PruneFacts ==
  ASSUME NEW d, NEW max \in Nat, IsFiniteSet(DOMAIN d), NEW e \in Pruned(d, max)
  PROVE  /\ DOMAIN e \subseteq DOMAIN d
         /\ \A k \in DOMAIN e : e[k] = d[k]
         /\ e = [k \in DOMAIN e |-> d[k]]
         /\ Cardinality(DOMAIN e) <= max
         /\ DOMAIN e # DOMAIN d => Cardinality(DOMAIN e) = max
         /\ \A v \in DOMAIN d \ DOMAIN e, k \in DOMAIN e : Before(d[v], d[k])
<1>1. PICK K \in SUBSET DOMAIN d :
        /\ Cardinality(K) = IF Cardinality(DOMAIN d) <= max THEN Cardinality(DOMAIN d) ELSE max
        /\ \A v \in DOMAIN d \ K, k \in K : Before(d[v], d[k])
        /\ e = Restrict(d, K)
  BY DEF Pruned
<1>2. DOMAIN e = K /\ e = [k \in K |-> d[k]]
  BY <1>1 DEF Restrict
<1>3. /\ Cardinality(DOMAIN d) \in Nat
      /\ Cardinality(K) = Cardinality(DOMAIN d) => K = DOMAIN d
  BY FS_CardinalityType, FS_Subset
<1>4. Cardinality(K) <= max
  BY <1>1, <1>3
<1>5. K # DOMAIN d => Cardinality(K) = max
  BY <1>1, <1>3
<1>6. QED
  BY <1>1, <1>2, <1>4, <1>5

\* A dict whose marks in force were all kept in force, and no entry made older,
\* loses one of them to the cap only, and only to entries in force that were
\* seen no earlier.
LEMMA EvictionSpares ==
  ASSUME NEW d, NEW u, NEW max \in Nat, NEW e \in Pruned(u, max),
         d \in [DOMAIN d -> Mark], u \in [DOMAIN u -> Mark], now \in Nat,
         DOMAIN d \subseteq DOMAIN u, IsFiniteSet(DOMAIN u),
         \A k \in DOMAIN d : u[k].seen >= d[k].seen /\ (Relaying(d[k]) => Relaying(u[k])),
         NEW k \in DOMAIN d \ DOMAIN e, Relaying(d[k])
  PROVE  /\ Cardinality(DOMAIN e) = max
         /\ \A j \in DOMAIN e : Relaying(e[j]) /\ e[j].seen >= d[k].seen
<1>1. Cardinality(DOMAIN e) = max
  BY PruneFacts
<1>2. ASSUME NEW j \in DOMAIN e
      PROVE  Relaying(e[j]) /\ e[j].seen >= d[k].seen
  <2>1. j \in DOMAIN u /\ e[j] = u[j] /\ Before(u[k], u[j])
    BY PruneFacts
  <2>2. Relaying(u[k]) /\ u[k].seen >= d[k].seen
    OBVIOUS
  <2>3. Relaying(u[j]) /\ u[k].seen <= u[j].seen
    BY <2>1, <2>2 DEF Before
  <2>4. /\ d[k] \in Mark /\ u[k] \in Mark /\ u[j] \in Mark
    BY <2>1
  <2>5. u[j].seen >= d[k].seen
    BY <2>2, <2>3, <2>4 DEF Mark
  <2>6. QED
    BY <2>1, <2>3, <2>5
<1>3. QED
  BY <1>1, <1>2

-----------------------------------------------------------------------------
(* Entries.                                                                *)

\* _client: what it makes of the clients of P.
LEMMA TouchedFacts ==
  ASSUME PolicyInv, NEW P \in SUBSET Pid
  PROVE  /\ DOMAIN Touched(P) = DOMAIN clients \cup P
         /\ Touched(P) \in [DOMAIN Touched(P) -> Mark]
         /\ \A p \in DOMAIN Touched(P) : Touched(P)[p].seen <= now
         /\ \A p \in DOMAIN clients :
              /\ Touched(P)[p].seen >= clients[p].seen
              /\ Touched(P)[p].until >= clients[p].until
<1> DEFINE t(p) == IF p \notin DOMAIN clients THEN Never
                   ELSE IF p \in P THEN [clients[p] EXCEPT !.seen = now] ELSE clients[p]
<1>1. now \in Nat /\ \A p \in DOMAIN clients : clients[p] \in Mark /\ clients[p].seen <= now
  BY DEF PolicyInv, PolicyTypeOK, SeenBefore
<1>2. ASSUME NEW p \in DOMAIN clients \cup P
      PROVE  /\ t(p) \in Mark /\ t(p).seen <= now
             /\ p \in DOMAIN clients =>
                  t(p).seen >= clients[p].seen /\ t(p).until >= clients[p].until
  <2>1. CASE p \notin DOMAIN clients
    BY <1>1, <2>1 DEF Never, Mark
  <2>2. CASE p \in DOMAIN clients
    BY <1>1, <2>2 DEF Mark
  <2>3. QED
    BY <2>1, <2>2
<1> HIDE DEF t
<1>3. Touched(P) = [p \in DOMAIN clients \cup P |-> t(p)]
  BY DEF Touched, t
<1>4. QED
  BY <1>2, <1>3

\* record_nat_properties: what it makes of the clients.
LEMMA MarkedFacts ==
  ASSUME PolicyInv, NEW p \in Pid,
         NEW marked,
         marked = [Touched({p}) EXCEPT ![p].until =
                     IF @ > now + ClientTtl THEN @ ELSE now + ClientTtl]
  PROVE  /\ DOMAIN marked = DOMAIN clients \cup {p}
         /\ marked \in [DOMAIN marked -> Mark]
         /\ \A q \in DOMAIN marked : marked[q].seen <= now
         /\ \A q \in DOMAIN clients :
              /\ marked[q].seen >= clients[q].seen
              /\ marked[q].until >= clients[q].until
<1> DEFINE t == Touched({p})
           m == [t[p] EXCEPT !.until = IF @ > now + ClientTtl THEN @ ELSE now + ClientTtl]
<1>1. /\ DOMAIN t = DOMAIN clients \cup {p}
      /\ t \in [DOMAIN t -> Mark]
      /\ \A q \in DOMAIN t : t[q].seen <= now
      /\ \A q \in DOMAIN clients : t[q].seen >= clients[q].seen /\ t[q].until >= clients[q].until
  BY TouchedFacts
<1>2. now + ClientTtl \in Nat
  BY PolicyAssumption DEF PolicyInv, PolicyTypeOK
<1>3. \A q \in DOMAIN clients : clients[q] \in Mark
  BY DEF PolicyInv, PolicyTypeOK
<1> HIDE DEF t
<1>4. t[p] \in Mark
  BY <1>1
<1>5. m \in Mark /\ m.seen = t[p].seen /\ m.until >= t[p].until
  BY <1>2, <1>4 DEF Mark
<1>6. /\ DOMAIN marked = DOMAIN t
      /\ marked[p] = m
      /\ marked = [q \in DOMAIN t |-> IF q = p THEN m ELSE t[q]]
  BY <1>1 DEF t
<1> HIDE DEF m
<1>7. marked \in [DOMAIN marked -> Mark]
  BY <1>1, <1>5, <1>6
<1>8. ASSUME NEW q \in DOMAIN marked
      PROVE  /\ marked[q].seen <= now
             /\ q \in DOMAIN clients =>
                  marked[q].seen >= clients[q].seen /\ marked[q].until >= clients[q].until
  <2>1. CASE q = p
    <3>1. marked[q] = m /\ q \in DOMAIN t
      BY <1>6, <2>1
    <3>2. m.seen <= now
      BY <1>1, <1>5, <2>1, <3>1
    <3>3. ASSUME q \in DOMAIN clients
          PROVE  m.seen >= clients[q].seen /\ m.until >= clients[q].until
      <4>1. /\ clients[q] \in Mark /\ t[q] \in Mark /\ m \in Mark
            /\ m.seen = t[q].seen /\ m.until >= t[q].until
        BY <1>3, <1>4, <1>5, <2>1, <3>3
      <4>2. t[q].seen >= clients[q].seen /\ t[q].until >= clients[q].until
        BY <1>1, <3>3
      <4>3. QED
        BY <4>1, <4>2 DEF Mark
    <3>4. QED
      BY <3>1, <3>2, <3>3
  <2>2. CASE q # p
    <3>1. marked[q] = t[q] /\ q \in DOMAIN t
      BY <1>6, <2>2
    <3>2. t[q].seen <= now
      BY <1>1, <3>1
    <3>3. q \in DOMAIN clients =>
            /\ t[q].seen >= clients[q].seen
            /\ t[q].until >= clients[q].until
      BY <1>1, <1>3 DEF Mark
    <3>4. QED
      BY <3>1, <3>2, <3>3
  <2>3. QED
    BY <2>1, <2>2
<1>9. QED
  BY <1>1, <1>6, <1>7, <1>8

\* record_pair_result: what it makes of the pairs.
LEMMA PairFacts ==
  ASSUME PolicyInv, NEW key \in SUBSET Pid, Cardinality(key) = 2, NEW success \in BOOLEAN,
         NEW d, d = Put(pairs, key, PairResult(key, success))
  PROVE  /\ DOMAIN d = DOMAIN pairs \cup {key}
         /\ d \in [DOMAIN d -> Mark]
         /\ \A k \in DOMAIN d : d[k].seen <= now /\ d[k].until <= now + PairTtl
         /\ \A k \in DOMAIN pairs :
              /\ d[k].seen >= pairs[k].seen
              /\ d[k].until >= pairs[k].until
<1> DEFINE r == PairResult(key, success)
<1>1. now \in Nat /\ PairTtl \in Nat
  BY PolicyAssumption DEF PolicyInv, PolicyTypeOK
<1>2. \A k \in DOMAIN pairs :
        pairs[k] \in Mark /\ pairs[k].seen <= now /\ pairs[k].until <= now + PairTtl
  BY DEF PolicyInv, PolicyTypeOK, PairTimes
<1>3. /\ r \in Mark /\ r.seen = now /\ r.until <= now + PairTtl
      /\ key \in DOMAIN pairs => r.until >= pairs[key].until
  <2>1. CASE key \in DOMAIN pairs
    BY <1>1, <1>2, <2>1 DEF PairResult, Mark
  <2>2. CASE key \notin DOMAIN pairs
    BY <1>1, <2>2 DEF PairResult, Never, Mark
  <2>3. QED
    BY <2>1, <2>2
<1>4. d = [k \in DOMAIN pairs \cup {key} |-> IF k = key THEN r ELSE pairs[k]]
  BY DEF Put
<1> HIDE DEF r
<1>5. DOMAIN d = DOMAIN pairs \cup {key}
  BY <1>4
<1>6. ASSUME NEW k \in DOMAIN d
      PROVE  /\ d[k] \in Mark /\ d[k].seen <= now /\ d[k].until <= now + PairTtl
             /\ k \in DOMAIN pairs => d[k].seen >= pairs[k].seen /\ d[k].until >= pairs[k].until
  <2>1. CASE k = key
    BY <1>1, <1>2, <1>3, <1>4, <2>1 DEF Mark
  <2>2. CASE k # key
    BY <1>1, <1>2, <1>4, <1>5, <2>2 DEF Mark
  <2>3. QED
    BY <2>1, <2>2
<1>7. QED
  BY <1>4, <1>5, <1>6

-----------------------------------------------------------------------------
(* Steps.                                                                  *)

PairKey == {k \in SUBSET Pid : Cardinality(k) = 2}

\* What an operation may make of the memories before it prunes them: entries
\* are added or seen again, and marks are put or made longer.
Updated(c, d, r) ==
  /\ c \in [DOMAIN c -> Mark] /\ DOMAIN clients \subseteq DOMAIN c /\ DOMAIN c \subseteq Pid
  /\ \A p \in DOMAIN c : c[p].seen <= now
  /\ \A p \in DOMAIN clients : c[p].seen >= clients[p].seen /\ c[p].until >= clients[p].until
  /\ d \in [DOMAIN d -> Mark] /\ DOMAIN pairs \subseteq DOMAIN d /\ DOMAIN d \subseteq PairKey
  /\ \A k \in DOMAIN d : d[k].seen <= now /\ d[k].until <= now + PairTtl
  /\ \A k \in DOMAIN pairs : d[k].seen >= pairs[k].seen /\ d[k].until >= pairs[k].until
  /\ r \in [DOMAIN r -> 0 .. now]

\* The two ends of a link.
LEMMA TwoEnds ==
  ASSUME NEW p \in Pid, NEW q \in Pid, p # q
  PROVE  {p, q} \in PairKey
<1>1. IsFiniteSet({p}) /\ Cardinality({p}) = 1
  BY FS_Singleton
<1>2. Cardinality({p} \cup {q}) = 2
  BY <1>1, FS_AddElement
<1>3. {p} \cup {q} = {p, q}
  OBVIOUS
<1>4. QED
  BY <1>2, <1>3 DEF PairKey

\* Every operation updates the memories, then prunes them.
LEMMA StepIsPrune ==
  ASSUME PolicyInv, PolicyNext
  PROVE  Tick \/ \E c, d, r : Updated(c, d, r) /\ Prune(c, d, r)
<1>1. /\ now \in Nat
      /\ clients \in [DOMAIN clients -> Mark] /\ DOMAIN clients \subseteq Pid
      /\ \A p \in DOMAIN clients : clients[p].seen <= now
      /\ pairs \in [DOMAIN pairs -> Mark] /\ DOMAIN pairs \subseteq PairKey
      /\ \A k \in DOMAIN pairs : pairs[k].seen <= now /\ pairs[k].until <= now + PairTtl
      /\ recent \in [DOMAIN recent -> 0 .. now]
  BY DEF PolicyInv, PolicyTypeOK, SeenBefore, PairTimes, PairKey
<1>2. /\ \A p \in DOMAIN clients : clients[p].seen \in Nat /\ clients[p].until \in Nat
      /\ \A k \in DOMAIN pairs : pairs[k].seen \in Nat /\ pairs[k].until \in Nat
  BY <1>1 DEF Mark
<1>3. ASSUME NEW P \in SUBSET Pid
      PROVE  Updated(Touched(P), pairs, recent)
  <2>1. \A k \in DOMAIN pairs : pairs[k].seen >= pairs[k].seen /\ pairs[k].until >= pairs[k].until
    BY <1>2
  <2>2. QED
    BY <1>1, <2>1, TouchedFacts DEF Updated
<1>4. ASSUME NEW p \in Pid, RecordSeen(p)
      PROVE  \E c, d, r : Updated(c, d, r) /\ Prune(c, d, r)
  BY <1>3, <1>4 DEF RecordSeen
<1>5. ASSUME NEW p \in Pid, NEW bad \in BOOLEAN, RecordNatProperties(p, bad)
      PROVE  \E c, d, r : Updated(c, d, r) /\ Prune(c, d, r)
  <2>1. CASE bad
    <3> DEFINE marked == [Touched({p}) EXCEPT ![p].until =
                            IF @ > now + ClientTtl THEN @ ELSE now + ClientTtl]
    <3>1. Prune(marked, pairs, recent)
      BY <1>5, <2>1 DEF RecordNatProperties
    <3>2. /\ DOMAIN marked = DOMAIN clients \cup {p}
          /\ marked \in [DOMAIN marked -> Mark]
          /\ \A q \in DOMAIN marked : marked[q].seen <= now
          /\ \A q \in DOMAIN clients :
               marked[q].seen >= clients[q].seen /\ marked[q].until >= clients[q].until
      BY MarkedFacts
    <3> HIDE DEF marked
    <3>3. \A k \in DOMAIN pairs : pairs[k].seen >= pairs[k].seen /\ pairs[k].until >= pairs[k].until
      BY <1>2
    <3>4. Updated(marked, pairs, recent)
      BY <1>1, <3>2, <3>3 DEF Updated
    <3>5. QED
      BY <3>1, <3>4
  <2>2. CASE ~bad
    BY <1>3, <1>5, <2>2 DEF RecordNatProperties
  <2>3. QED
    BY <2>1, <2>2
<1>6. ASSUME NEW p \in Pid, NEW cid \in Cid, NEW success \in BOOLEAN,
             RecordProbeResult(p, cid, success)
      PROVE  \E c, d, r : Updated(c, d, r) /\ Prune(c, d, r)
  <2> DEFINE q == PidOfCid[cid]
             x == <<p, cid, success>>
             d == Put(pairs, {p, q}, PairResult({p, q}, success))
             r == Put(recent, x, now)
  <2>1. q \in Pid /\ p # q /\ Prune(Touched({p, q}), d, r)
    BY <1>6, PolicyAssumption DEF RecordProbeResult
  <2>2. {p, q} \in PairKey
    BY <2>1, TwoEnds
  <2>3. /\ DOMAIN d = DOMAIN pairs \cup {{p, q}}
        /\ d \in [DOMAIN d -> Mark]
        /\ \A k \in DOMAIN d : d[k].seen <= now /\ d[k].until <= now + PairTtl
        /\ \A k \in DOMAIN pairs : d[k].seen >= pairs[k].seen /\ d[k].until >= pairs[k].until
    BY <2>2, PairFacts DEF PairKey
  <2>4. r \in [DOMAIN r -> 0 .. now]
    <3>1. now \in 0 .. now
      BY <1>1
    <3>2. QED
      BY <1>1, <3>1 DEF Put
  <2>5. Updated(Touched({p, q}), pairs, recent)
    BY <1>3, <2>1
  <2> HIDE DEF d, r
  <2>6. Updated(Touched({p, q}), d, r)
    BY <1>1, <2>2, <2>3, <2>4, <2>5 DEF Updated
  <2>7. QED
    BY <2>1, <2>6
<1>7. QED
  BY <1>4, <1>5, <1>6 DEF PolicyNext

\* There are finitely many players, so the memories can be counted.
LEMMA UpdatedFinite ==
  ASSUME NEW c, NEW d, NEW r, Updated(c, d, r)
  PROVE  IsFiniteSet(DOMAIN c) /\ IsFiniteSet(DOMAIN d)
<1>1. IsFiniteSet(Pid) /\ IsFiniteSet(SUBSET Pid)
  BY PolicyAssumption, FS_SUBSET
<1>2. DOMAIN c \in SUBSET Pid /\ DOMAIN d \in SUBSET (SUBSET Pid)
  BY DEF Updated, PairKey
<1>3. QED
  BY <1>1, <1>2, FS_Subset

\* What _prune leaves keeps the invariant,
LEMMA PruneStep ==
  ASSUME PolicyInv, NEW c, NEW d, NEW r, Updated(c, d, r), Prune(c, d, r)
  PROVE  PolicyInv'
<1>1. now \in Nat /\ now' = now
  BY DEF PolicyInv, PolicyTypeOK, Prune
<1>2. /\ MaxClients \in Nat /\ MaxPairs \in Nat
      /\ clients' \in Pruned(c, MaxClients) /\ pairs' \in Pruned(d, MaxPairs)
      /\ IsFiniteSet(DOMAIN c) /\ IsFiniteSet(DOMAIN d)
  BY PolicyAssumption, UpdatedFinite DEF Prune
<1>3. /\ DOMAIN clients' \subseteq DOMAIN c
      /\ clients' = [k \in DOMAIN clients' |-> c[k]]
      /\ Cardinality(DOMAIN clients') <= MaxClients
  BY <1>2, PruneFacts
<1>4. /\ DOMAIN pairs' \subseteq DOMAIN d
      /\ pairs' = [k \in DOMAIN pairs' |-> d[k]]
      /\ Cardinality(DOMAIN pairs') <= MaxPairs
  BY <1>2, PruneFacts
<1>5. recent' \in [DOMAIN recent' -> 0 .. now']
  <2>1. recent' = Restrict(r, {x \in DOMAIN r : now - r[x] <= DedupeTtl})
    BY DEF Prune
  <2>2. r \in [DOMAIN r -> 0 .. now]
    BY DEF Updated
  <2>3. QED
    BY <1>1, <2>1, <2>2 DEF Restrict
<1>6. /\ clients' \in [DOMAIN clients' -> Mark] /\ DOMAIN clients' \subseteq Pid
      /\ \A p \in DOMAIN clients' : clients'[p].seen <= now'
  BY <1>1, <1>3 DEF Updated
<1>7. /\ pairs' \in [DOMAIN pairs' -> Mark] /\ DOMAIN pairs' \subseteq PairKey
      /\ \A k \in DOMAIN pairs' : pairs'[k].seen <= now' /\ pairs'[k].until <= now' + PairTtl
  BY <1>1, <1>4 DEF Updated
<1>8. PolicyTypeOK'
  BY <1>1, <1>5, <1>6, <1>7 DEF PolicyTypeOK, PairKey
<1>9. MemoryBounded' /\ SeenBefore' /\ PairTimes'
  BY <1>3, <1>4, <1>6, <1>7 DEF MemoryBounded, SeenBefore, PairTimes
<1>10. QED
  BY <1>8, <1>9 DEF PolicyInv

\* and so does the passing of time.
LEMMA TickStep ==
  ASSUME PolicyInv, Tick
  PROVE  PolicyInv'
<1>1. /\ now \in Nat /\ now' = now + 1 /\ PairTtl \in Nat
      /\ clients' = clients /\ pairs' = pairs /\ recent' = recent
  BY PolicyAssumption DEF PolicyInv, PolicyTypeOK, Tick
<1>2. /\ \A p \in DOMAIN clients : clients[p].seen \in Nat
      /\ \A k \in DOMAIN pairs : pairs[k].seen \in Nat /\ pairs[k].until \in Nat
  BY DEF PolicyInv, PolicyTypeOK, Mark
<1>3. recent \in [DOMAIN recent -> 0 .. now']
  <2>1. 0 .. now \subseteq 0 .. now'
    BY <1>1
  <2>2. QED
    BY <2>1 DEF PolicyInv, PolicyTypeOK
<1>4. PolicyTypeOK'
  BY <1>1, <1>3 DEF PolicyInv, PolicyTypeOK
<1>5. MemoryBounded'
  BY <1>1 DEF PolicyInv, MemoryBounded
<1>6. SeenBefore' /\ PairTimes'
  BY <1>1, <1>2 DEF PolicyInv, SeenBefore, PairTimes
<1>7. QED
  BY <1>4, <1>5, <1>6 DEF PolicyInv

\* The policy starts knowing nobody.
LEMMA PolicyInvInit == PolicyInit => PolicyInv
<1> SUFFICES ASSUME PolicyInit PROVE PolicyInv
  OBVIOUS
<1>1. DOMAIN clients = {} /\ DOMAIN pairs = {} /\ DOMAIN recent = {} /\ now = 1
  BY DEF PolicyInit, NoEntries
<1>2. /\ clients \in [DOMAIN clients -> Mark] /\ pairs \in [DOMAIN pairs -> Mark]
      /\ recent \in [DOMAIN recent -> 0 .. now]
  BY <1>1 DEF PolicyInit, NoEntries
<1>3. MemoryBounded
  BY <1>1, FS_EmptySet, PolicyAssumption DEF MemoryBounded
<1>4. QED
  BY <1>1, <1>2, <1>3 DEF PolicyInv, PolicyTypeOK, SeenBefore, PairTimes

\* Every step of the policy keeps the invariant.
LEMMA PolicyInvStep == PolicyInv /\ [PolicyNext]_policyVars => PolicyInv'
<1> SUFFICES ASSUME PolicyInv, [PolicyNext]_policyVars PROVE PolicyInv'
  OBVIOUS
<1>1. CASE PolicyNext
  BY <1>1, StepIsPrune, PruneStep, TickStep
<1>2. CASE UNCHANGED policyVars
  BY <1>2 DEF PolicyInv, PolicyTypeOK, MemoryBounded, SeenBefore, PairTimes, policyVars
<1>3. QED
  BY <1>1, <1>2

\* The inductive invariant: types, caps, and the times of the entries.
THEOREM PolicyInvariant == PolicySpec => []PolicyInv
BY PolicyInvInit, PolicyInvStep, PTL DEF PolicySpec

\* Whatever is reported, the two memories never outgrow their caps (_prune).
THEOREM MemoriesStayBounded == PolicySpec => []MemoryBounded
<1>1. PolicyInv => MemoryBounded
  BY DEF PolicyInv
<1>2. QED
  BY <1>1, PolicyInvariant, PTL

-----------------------------------------------------------------------------
(* What a step may forget.                                                 *)

\* A mark in force is forgotten only for others in force, seen no earlier, and
\* only at the cap: _prune evicts in that order, and no operation shortens a mark.
THEOREM MarksInForceOutlive == PolicySpec => MarksOutliveEviction
<1> DEFINE A ==
      /\ \A k \in DOMAIN pairs \ DOMAIN pairs' : Relaying(pairs[k]) =>
           /\ Cardinality(DOMAIN pairs') = MaxPairs
           /\ \A j \in DOMAIN pairs' : Relaying(pairs'[j]) /\ pairs'[j].seen >= pairs[k].seen
      /\ \A p \in DOMAIN clients \ DOMAIN clients' : Relaying(clients[p]) =>
           /\ Cardinality(DOMAIN clients') = MaxClients
           /\ \A q \in DOMAIN clients' : Relaying(clients'[q]) /\ clients'[q].seen >= clients[p].seen
<1>1. ASSUME PolicyInv, [PolicyNext]_policyVars
      PROVE  A
  <2>1. CASE clients' = clients /\ pairs' = pairs
    BY <2>1
  <2>2. ASSUME NEW c, NEW d, NEW r, Updated(c, d, r), Prune(c, d, r)
        PROVE  A
    <3>1. /\ now \in Nat /\ MaxClients \in Nat /\ MaxPairs \in Nat
          /\ IsFiniteSet(DOMAIN c) /\ IsFiniteSet(DOMAIN d)
          /\ clients' \in Pruned(c, MaxClients) /\ pairs' \in Pruned(d, MaxPairs)
      BY <1>1, <2>2, PolicyAssumption, UpdatedFinite DEF PolicyInv, PolicyTypeOK, Prune
    <3>2. /\ clients \in [DOMAIN clients -> Mark] /\ pairs \in [DOMAIN pairs -> Mark]
          /\ c \in [DOMAIN c -> Mark] /\ d \in [DOMAIN d -> Mark]
          /\ DOMAIN clients \subseteq DOMAIN c /\ DOMAIN pairs \subseteq DOMAIN d
      BY <1>1, <2>2 DEF PolicyInv, PolicyTypeOK, Updated
    <3>3. /\ \A p \in DOMAIN clients : c[p].seen >= clients[p].seen /\ c[p].until >= clients[p].until
          /\ \A k \in DOMAIN pairs : d[k].seen >= pairs[k].seen /\ d[k].until >= pairs[k].until
      BY <2>2 DEF Updated
    <3>4. /\ \A p \in DOMAIN clients : Relaying(clients[p]) => Relaying(c[p])
          /\ \A k \in DOMAIN pairs : Relaying(pairs[k]) => Relaying(d[k])
      <4>1. /\ \A p \in DOMAIN clients : clients[p] \in Mark /\ c[p] \in Mark
            /\ \A k \in DOMAIN pairs : pairs[k] \in Mark /\ d[k] \in Mark
        BY <3>2
      <4>2. QED
        BY <3>1, <3>3, <4>1 DEF Relaying, Mark
    <3>5. ASSUME NEW k \in DOMAIN pairs \ DOMAIN pairs', Relaying(pairs[k])
          PROVE  /\ Cardinality(DOMAIN pairs') = MaxPairs
                 /\ \A j \in DOMAIN pairs' : Relaying(pairs'[j]) /\ pairs'[j].seen >= pairs[k].seen
      BY <3>1, <3>2, <3>3, <3>4, <3>5, EvictionSpares
    <3>6. ASSUME NEW p \in DOMAIN clients \ DOMAIN clients', Relaying(clients[p])
          PROVE  /\ Cardinality(DOMAIN clients') = MaxClients
                 /\ \A q \in DOMAIN clients' :
                      Relaying(clients'[q]) /\ clients'[q].seen >= clients[p].seen
      BY <3>1, <3>2, <3>3, <3>4, <3>6, EvictionSpares
    <3>7. QED
      BY <3>5, <3>6
  <2>3. CASE PolicyNext
    <3>1. CASE Tick
      BY <2>1, <3>1 DEF Tick
    <3>2. CASE \E c, d, r : Updated(c, d, r) /\ Prune(c, d, r)
      BY <2>2, <3>2
    <3>3. QED
      BY <1>1, <2>3, <3>1, <3>2, StepIsPrune
  <2>4. CASE UNCHANGED policyVars
    BY <2>1, <2>4 DEF policyVars
  <2>5. QED
    BY <1>1, <2>3, <2>4
<1>2. PolicyInv /\ [PolicyNext]_policyVars => [A]_policyVars
  BY <1>1
<1>3. QED
  BY <1>2, PolicyInvariant, PTL DEF PolicySpec, MarksOutliveEviction

\* A link that failed is relayed from the next attempt on: the mark just put is
\* evicted by nothing but an entry of the same instant.
THEOREM FailureIsLearned == PolicySpec => LearnsFailure
<1> DEFINE A ==
      \A p \in Pid, cid \in Cid :
        LET key == {p, PidOfCid[cid]}
        IN  RecordProbeResult(p, cid, FALSE) /\ MaxPairs > 0 /\ PairTtl > 0
              /\ (\A j \in DOMAIN pairs \ {key} : pairs[j].seen < now)
            => Decide(p, PidOfCid[cid])'
<1>1. ASSUME PolicyInv, NEW p \in Pid, NEW cid \in Cid, RecordProbeResult(p, cid, FALSE),
             MaxPairs > 0, PairTtl > 0,
             \A j \in DOMAIN pairs \ {{p, PidOfCid[cid]}} : pairs[j].seen < now
      PROVE  Decide(p, PidOfCid[cid])'
  <2> DEFINE q == PidOfCid[cid]
             key == {p, q}
             m == PairResult(key, FALSE)
             d == Put(pairs, key, m)
  <2>1. /\ q \in Pid /\ p # q /\ now' = now
        /\ pairs' \in Pruned(d, MaxPairs)
    BY <1>1, PolicyAssumption DEF RecordProbeResult, Prune
  <2>2. /\ now \in Nat /\ PairTtl \in Nat /\ MaxPairs \in Nat
        /\ \A k \in DOMAIN pairs : pairs[k].seen \in Nat
        /\ DOMAIN pairs \subseteq PairKey /\ key \in PairKey
    BY <1>1, <2>1, PolicyAssumption, TwoEnds DEF PolicyInv, PolicyTypeOK, Mark, PairKey
  <2>3. m.seen = now /\ m.until = now + PairTtl /\ m.until > now
    BY <1>1, <2>2 DEF PairResult
  <2>4. IsFiniteSet(DOMAIN d)
    <3>1. DOMAIN d \in SUBSET (SUBSET Pid)
      BY <2>2 DEF Put, PairKey
    <3>2. QED
      BY <3>1, PolicyAssumption, FS_SUBSET, FS_Subset
  <2> HIDE DEF m
  <2>5. /\ key \in DOMAIN d /\ d[key] = m
        /\ \A j \in DOMAIN d \ {key} : j \in DOMAIN pairs /\ d[j] = pairs[j]
    <3>1. /\ DOMAIN d = DOMAIN pairs \cup {key}
          /\ d[key] = m
          /\ \A j \in DOMAIN pairs \ {key} : d[j] = pairs[j]
      BY DEF Put
    <3> HIDE DEF d
    <3>2. QED
      BY <3>1
  <2> HIDE DEF d
  <2>6. key \in DOMAIN pairs'
    <3> SUFFICES ASSUME key \notin DOMAIN pairs' PROVE FALSE
      OBVIOUS
    <3>1. DOMAIN pairs' # DOMAIN d /\ DOMAIN pairs' \subseteq DOMAIN d
      BY <2>1, <2>2, <2>4, <2>5, PruneFacts
    <3>2. Cardinality(DOMAIN pairs') = MaxPairs
      BY <2>1, <2>2, <2>4, <3>1, PruneFacts
    <3>3. PICK j \in DOMAIN pairs' : TRUE
      <4>1. MaxPairs # 0
        BY <1>1, <2>2
      <4>2. DOMAIN pairs' # {}
        BY <3>2, <4>1, FS_EmptySet
      <4>3. QED
        BY <4>2
    <3>4. Before(d[key], d[j])
      BY <2>1, <2>2, <2>4, <2>5, <3>3, PruneFacts
    <3>5. Relaying(d[key])
      BY <2>3, <2>5 DEF Relaying
    <3>6. d[key].seen <= d[j].seen
      BY <3>4, <3>5 DEF Before
    <3>7. j \in DOMAIN pairs \ {key} /\ d[j] = pairs[j]
      BY <2>5, <3>1, <3>3
    <3>8. QED
      BY <1>1, <2>2, <2>3, <2>5, <3>6, <3>7
  <2>7. pairs'[key] = m
    BY <2>1, <2>2, <2>4, <2>5, <2>6, PruneFacts
  <2>8. QED
    BY <2>1, <2>3, <2>6, <2>7 DEF Decide, Relaying
<1>2. PolicyInv /\ [PolicyNext]_policyVars => [A]_policyVars
  BY <1>1
<1>3. QED
  BY <1>2, PolicyInvariant, PTL DEF PolicySpec, LearnsFailure
=============================================================================
