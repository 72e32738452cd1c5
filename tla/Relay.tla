-------------------------------- MODULE Relay -------------------------------
(***************************************************************************)
(* RelayManager (relay.py): one UDP socket per relayed pair of peers, out  *)
(* of a bounded range of ports.  Two handlers ask for relays, and differ   *)
(* when none is to be had: get_session_urls (through _host_station) and    *)
(* the hole punch (request_probe_initiation_ext).                          *)
(*                                                                         *)
(* _get_or_create suspends twice: on its lock, a FIFO asyncio.Lock, and in *)
(* create_datagram_endpoint, whose bind() is immediate but which returns   *)
(* only once the event loop has run.  A port that cannot be bound costs no *)
(* suspension: the range is scanned in one step.                           *)
(*                                                                         *)
(* A request is made only for a pair should_relay selects in a room that   *)
(* exists; what rooms do later reaches the manager as close_gid and        *)
(* close_for_pid, at any time.                                             *)
(***************************************************************************)
EXTENDS Naturals, Sequences, FiniteSets, Dict

CONSTANTS
  Key,          \* (gid, low pid, high pid) of the pairs that may be relayed
  Req,          \* concurrent requests
  PortStart, PortEnd,   \* config.RELAY_PORT_START .. RELAY_PORT_END
  Foreign       \* ports of the range other programs hold

ASSUME KeyAssumption == \A k \in Key : DOMAIN k = {"gid", "pair"}
ASSUME PortAssumption == PortStart \in Nat /\ PortEnd \in Nat

VARIABLES
  mode,      \* config.RELAY_MODE
  gone,      \* gids of rooms that closed; gids are never reused (Rooms)
  relays,    \* _relays: key -> port
  quiet,     \* relays that carried nothing for RELAY_IDLE_TIMEOUT
  janitor,   \* _janitor: "none", "running", "done"
  lock,      \* _lock is held
  queue,     \* requests waiting for the lock
  asked,     \* suspended requests: request -> its key and path
  binding,   \* request -> the port it has bound, before it is resumed
  sockets,   \* ports of the range this process holds a socket on
  closing,   \* those whose transport was closed but not yet torn down
  answer     \* what the last request to end got

reqVars == <<lock, queue, asked, binding, answer>>
tableVars == <<mode, gone, relays, quiet, janitor, closing>>
vars == <<tableVars, reqVars, sockets>>

Ports == PortStart .. PortEnd

Path == {"urls", "probe"}

Answer == {"none", "relay", "direct", "nothing", "dropped"}

TypeOK ==
  /\ mode \in {"force", "auto"}
  /\ gone \subseteq {k.gid : k \in Key}
  /\ relays \in [DOMAIN relays -> Ports] /\ DOMAIN relays \subseteq Key
  /\ quiet \subseteq DOMAIN relays
  /\ janitor \in {"none", "running", "done"}
  /\ lock \in BOOLEAN
  /\ queue \in Seq(DOMAIN asked)
  /\ asked \in [DOMAIN asked -> [key : Key, path : Path]] /\ DOMAIN asked \subseteq Req
  /\ binding \in [DOMAIN binding -> Ports] /\ DOMAIN binding \subseteq DOMAIN asked
  /\ sockets \subseteq Ports /\ closing \subseteq sockets
  /\ answer \in Answer

Init ==
  /\ mode \in {"force", "auto"}
  /\ gone = {} /\ quiet = {} /\ sockets = {} /\ closing = {}
  /\ relays = NoEntries /\ asked = NoEntries /\ binding = NoEntries
  /\ janitor = "none" /\ answer = "none"
  /\ lock = FALSE /\ queue = <<>>

-----------------------------------------------------------------------------
(* The range of ports.                                                     *)

PortsOf(d) == {d[x] : x \in DOMAIN d}

\* The ports _bind can get: in no relay, and bind() succeeds
Candidates == {p \in Ports : p \notin PortsOf(relays) \cup sockets \cup Foreign}

Lowest(S) == CHOOSE p \in S : \A q \in S : p <= q

\* What a request gets when _bind raises: _host_station falls back to a direct
\* address unless relaying is forced; the hole punch loses its probe.
Failed(path) ==
  CASE path = "probe" -> "dropped"
    [] path = "urls" /\ mode = "force" -> "nothing"
    [] path = "urls" /\ mode = "auto" -> "direct"

-----------------------------------------------------------------------------
(* _get_or_create.                                                         *)

Answers(r, a) == asked' = Without(asked, {r}) /\ answer' = a

\* _bind, over the ports it can get: the lowest, or it raises.
Scan(r, want, free) ==
  \/ /\ free # {}
     /\ asked' = Put(asked, r, want)
     /\ binding' = Put(binding, r, Lowest(free))
     /\ sockets' = sockets \cup {Lowest(free)}
     /\ UNCHANGED answer
  \/ /\ free = {}
     /\ Answers(r, Failed(want.path))
     /\ UNCHANGED <<binding, sockets>>

\* What happens under the lock: the relay is there by now, or _bind scans.
LookAgain(r, want, free) ==
  \/ /\ want.key \in DOMAIN relays
     /\ Answers(r, "relay")
     /\ UNCHANGED <<binding, sockets>>
  \/ /\ want.key \notin DOMAIN relays
     /\ Scan(r, want, free)

\* Slips: the lock kept when _bind raises; no second look at _relays; a port
\* that cannot be bound ends the scan.
AcquireKeepingLock(r, want) ==
  /\ LookAgain(r, want, Candidates)
  /\ lock' = (want.key \notin DOMAIN relays)
  /\ UNCHANGED tableVars

AcquireUnchecked(r, want) ==
  /\ Scan(r, want, Candidates)
  /\ lock' = (r \in DOMAIN binding')
  /\ UNCHANGED tableVars

AcquireFirstUnused(r, want) ==
  /\ LookAgain(r, want, {p \in Candidates : \A q \in Ports \ PortsOf(relays) : p <= q})
  /\ lock' = (r \in DOMAIN binding')
  /\ UNCHANGED tableVars

\* Request r takes the lock; only a bind under way keeps it past this step.
Acquire(r, want) ==
  /\ LookAgain(r, want, Candidates)
  /\ lock' = (r \in DOMAIN binding')
  /\ UNCHANGED tableVars

\* get_session_urls or a probe asks for the relay of a pair.  It is answered at
\* once if there is one; else it takes the lock or waits for it.
Ask(r, want) ==
  /\ r \notin DOMAIN asked
  /\ want.key.gid \notin gone
  /\ \/ /\ want.key \in DOMAIN relays
        /\ answer' = "relay"
        /\ UNCHANGED <<tableVars, lock, queue, asked, binding, sockets>>
     \/ /\ want.key \notin DOMAIN relays
        /\ lock \/ queue # <<>>
        /\ asked' = Put(asked, r, want)
        /\ queue' = Append(queue, r)
        /\ UNCHANGED <<tableVars, lock, binding, sockets, answer>>
     \/ /\ want.key \notin DOMAIN relays
        /\ ~lock /\ queue = <<>>
        /\ Acquire(r, want)
        /\ UNCHANGED queue

\* The first request in the queue is woken with the lock.
Resume ==
  /\ ~lock /\ queue # <<>>
  /\ Acquire(Head(queue), asked[Head(queue)])
  /\ queue' = Tail(queue)

\* A slip of _ensure_janitor: a janitor that has ended is not replaced
BoundOneJanitor(r) ==
  /\ r \in DOMAIN binding
  /\ relays' = Put(relays, asked[r].key, binding[r])
  /\ quiet' = quiet \ {asked[r].key}
  /\ janitor' = IF janitor = "none" THEN "running" ELSE janitor
  /\ lock' = FALSE /\ binding' = Without(binding, {r})
  /\ Answers(r, "relay")
  /\ UNCHANGED <<mode, gone, queue, sockets, closing>>

\* The socket is up: the relay is stored, whatever became of its room, the
\* janitor is running, and the lock is released.
Bound(r) ==
  /\ r \in DOMAIN binding
  /\ relays' = Put(relays, asked[r].key, binding[r])
  /\ quiet' = quiet \ {asked[r].key}
  /\ janitor' = "running"
  /\ lock' = FALSE /\ binding' = Without(binding, {r})
  /\ Answers(r, "relay")
  /\ UNCHANGED <<mode, gone, queue, sockets, closing>>

-----------------------------------------------------------------------------
(* Closing.                                                                *)

\* _close_key for every key of K: the transport closes in a later step
Close(K) ==
  /\ relays' = Without(relays, K)
  /\ quiet' = quiet \ K
  /\ closing' = closing \cup {relays[k] : k \in DOMAIN relays \cap K}

\* A slip of close_gid: the relays of the room stay
CloseGidKeeping(g) ==
  /\ g \notin gone
  /\ gone' = gone \cup {g}
  /\ UNCHANGED <<mode, relays, quiet, closing, janitor, reqVars, sockets>>

\* A room closes for good
CloseGid(g) ==
  /\ g \notin gone
  /\ gone' = gone \cup {g}
  /\ Close({k \in Key : k.gid = g})
  /\ UNCHANGED <<mode, janitor, reqVars, sockets>>

\* A player leaves a room or logs out
CloseForPid(p) ==
  /\ Close({k \in Key : p \in k.pair})
  /\ UNCHANGED <<mode, gone, janitor, reqVars, sockets>>

\* One sweep of _janitor_task, which ends when no relay is left
Sweep ==
  /\ janitor = "running"
  /\ Close(quiet)
  /\ janitor' = IF DOMAIN relays' = {} THEN "done" ELSE "running"
  /\ UNCHANGED <<mode, gone, reqVars, sockets>>

\* The event loop tears a closed transport down
TornDown(p) ==
  /\ p \in closing
  /\ closing' = closing \ {p}
  /\ sockets' = sockets \ {p}
  /\ UNCHANGED <<mode, gone, relays, quiet, janitor, reqVars>>

\* last_rx grows older than RELAY_IDLE_TIMEOUT, or a datagram arrives
FallQuiet(k) ==
  /\ k \in DOMAIN relays \ quiet
  /\ quiet' = quiet \cup {k}
  /\ UNCHANGED <<mode, gone, relays, janitor, reqVars, sockets, closing>>

Datagram(k) ==
  /\ k \in quiet
  /\ quiet' = quiet \ {k}
  /\ UNCHANGED <<mode, gone, relays, janitor, reqVars, sockets, closing>>

Next ==
  \/ \E r \in Req :
       \/ \E k \in Key, path \in Path : Ask(r, [key |-> k, path |-> path])
       \/ Bound(r)
  \/ Resume
  \/ Sweep
  \/ \E k \in Key : CloseGid(k.gid) \/ FallQuiet(k) \/ Datagram(k)
  \/ \E p \in UNION {k.pair : k \in Key} : CloseForPid(p)
  \/ \E p \in Ports : TornDown(p)

Spec == Init /\ [][Next]_vars

\* The event loop runs what is ready; the janitor sleeps a bounded time.
Fairness ==
  /\ \A r \in Req : WF_vars(Bound(r))
  /\ WF_vars(Resume)
  /\ WF_vars(Sweep)

FairSpec == Spec /\ Fairness

\* The table and the requests, without locks, ports and sockets
Waiting == {asked[r].key : r \in DOMAIN asked}

Keys == INSTANCE RelayKeys WITH relays <- DOMAIN relays, waiting <- Waiting

-----------------------------------------------------------------------------
(* What the relay promises.                                                *)

\* Every socket is accounted for exactly once: by the relay of one pair, by a
\* request about to store it, or by a transport being torn down.  Two requests
\* for one pair, or a room closing under a request, leak none.
PortsAccounted ==
  /\ sockets = PortsOf(relays) \cup PortsOf(binding) \cup closing
  /\ Cardinality(sockets) =
       Cardinality(DOMAIN relays) + Cardinality(DOMAIN binding) + Cardinality(closing)

\* A request is turned away only when every port of the range is in use: by a
\* relay, by a socket being torn down, or by another program.
FailsOnlyWhenExhausted ==
  [][answer' # answer /\ answer' \notin {"none", "relay"}
       => Ports \subseteq PortsOf(relays) \cup closing \cup Foreign]_vars

\* What Rooms, Lobby and Forwarding make of the table: no relay but one that a
\* request waited for, none asked for after its room closed, and none left of
\* those a room had when it closed.
ImplementsRelayKeys == Keys!Spec

\* Every suspended request ends: the lock is never left held, nor a waiter
\* forgotten, on whatever path the holder leaves.
RequestsEnd == \A r \in Req : r \in DOMAIN asked ~> r \notin DOMAIN asked

\* A relay nobody uses is closed, although the janitor ends whenever the table
\* is empty: this is what frees the port of a relay stored after its room went.
QuietRelaysClose == \A k \in Key : ~ <>[](k \in quiet)

\* "`auto` falls back to direct P2P" on allocation failure
\* (docs/UDP_RELAY_NOTES.md): no request for a link ends with nothing.
AutoFallsBack == mode = "auto" => answer # "dropped"
=============================================================================
