# Verification of the MH3U revival server

TLA+ models of the Monster Hunter 3 Ultimate game server in `src/`, the TLC
runs that check them on small instances, and TLAPS proofs of the theorems that
hold for every instance. The program is a Python (asyncio) implementation of the
NEX services the Wii U game talks to, an optional UDP relay, a supervisor, a
desktop launcher and a console plugin. Line numbers below are those of `src/`.

Every definition is translated from the code; `PROJECT.json` (`map`) gives the
lines of each.

## 1. Inventory

### 1.1 How the server runs

`server.py` starts everything on one asyncio event loop: the authentication
server, the secure server with its protocol objects (`secure_servers`,
`protocols.py:928`), the reaper, and the NAT-check and plugin services. There are
no threads in the server, so **a handler runs without interruption between two
`await`s**, and an `await` that does not really suspend is no interruption
either. That fixes the grain of atomicity of every module: one action per stretch
of a handler between real suspensions.

Where handlers really suspend:

| place | what it waits for | what may happen meanwhile |
|---|---|---|
| `push_participation_left` (`protocols.py:146`), from `logout` and `end_participation` | a 3008 notice to each remaining member | any handler, including the leaver's reconnect |
| `RelayManager._get_or_create` (`relay.py:171`) | a lock and a UDP socket | the room may close, the player may leave |
| `request_probe_initiation_ext` (`protocols.py:668`) | a relay, then the probe to the peer | the peer may reconnect |
| `handle_deliver_message` (`protocols.py:907`) | one shout per target | targets move between rooms |
| janitor, reaper, supervisor loops | their timers | everything |

### 1.2 Components

| component | state | operations | hard behaviour | what makes it correct |
|---|---|---|---|---|
| **Hunt rooms** `GatheringRegistry` | `sessions`, `_next_gid`; roster and headcount of each room | create (after `reap_host`), join, leave, leave_gathering, destroy, reads | stale rooms of crashed hosts; create that raises after it reaped; two copies of the membership | one room per host; roster = headcount; caps; a gid names one room for ever; only its host closes a room |
| **Connections** `SecureConnectionServer`, `limits.py` | `CLIENTS`, `STATIONS`, `CID_TO_PID`, `_next_cid`, per-connection marks, `_ip_conns` | register, register_ex, logout | the cleanup of an old connection runs before, between or after the register of the new one | last writer wins; the pid → station → cid → connection chain is consistent; no count is lost |
| **Gathering halls** `CommunityRegistry` | `communities`, `_runtime_gids`, `_next_gid` | seed, create, join, leave, leave_all, reap_owner, lists | seeded lobbies must never be reaped although only worlds are "official" | population shown is right; caps; a player's halls go with the player and nothing else does |
| **Logout** (composition) | all of the above | `logout` across its suspensions, reaper | suspended between leaving the rooms and leaving the halls | no ghosts; nobody is removed by a stranger; ghosts leave eventually |
| **Liveness reaper** `reaper.py` | `client._mh3u_last_rx` | stamp, sweep | a crashed emulator sends no FIN | eventual cleanup |
| **Relay** `relay.py` | `_relays`, `_lock`, ports, per-relay endpoints | station_for, close_gid, close_for_pid, janitor; datagram forwarding | allocation suspended while its room closes; third endpoints | every port is accounted for, none is lost; requests end; packets go to the peer only |
| **Relay policy** `relay_policy.py` | learned pair results, TTL, size cap | record, decide, prune | learned state that must expire and be evicted | a failure is learned at once; a mark in force outlives harmless entries; memory is bounded |
| **NAT traversal** `NATTraversalServer` | none of its own | request_probe_initiation(_ext), report results | target, mates and room read before the relay is awaited; falls back differently from the URL path | a relay that a probe names is open when the probe goes out |
| **Participation notices** | the games' rosters, outside the server | 3007 after a leave, 3008 after a disconnect | one await per member, while members leave, crash and come back | every slot of a leaver is freed in the end, no live one is |
| **Shouts** `MessageDelivery` | none | target choice, delivery | rooms, halls and `CLIENTS` change independently; targets computed before the first await | a shout stays in its room, or among those of its hall who are in no room |
| **Matchmake reads** (find, browse, participants) | none | searches over rooms and halls | room and hall gids share one number space | – |
| **Authentication, datastore, other stock services** | accounts, tickets | login, ... | – | – |
| **Supervisor** `server.py` | backoff per service | run, restart | a service that keeps failing | restarts are bounded and never stop |
| **Wii U plugin** `wiiu_plugin/src/main.cpp` | SD card file, storage, endpoint and switch in memory | load, menu callbacks, boot and application hooks | power lost between two writes; storage that answers late; two editors | the last edit wins; the switch stays as it was set |
| **NAT check, plugin endpoint** | – | – | – | – |
| **Launcher** `dist/launcher` | the files of its folder, `version.txt`, the staged launcher | check, download, extract, record, swap | an update cut short between two files; a program started during the download | files of one release, none older than before; a launcher that starts; the recorded version is the one on disk |

### 1.3 Interactions

    connection ends / reaper ──► SecureConnectionServer.logout
                                   │  CLIENTS, STATIONS, CID_TO_PID, _ip_conns
                                   ├─► REGISTRY.leave ──► relay close_gid / close_for_pid
                                   ├─► await 3008 to every remaining member   ← others run here
                                   └─► COMMUNITY.leave_all, reap_owner; relay close_for_pid
    game RPC ──► Matchmake(Extension)Server ──► REGISTRY / COMMUNITY
    game RPC ──► get_session_urls / probe ──► relay_policy.decide ──► RelayManager (awaits)

The full list of hazards, each at the line where it bites and with the properties
aimed at it, is in `PROJECT.json`.

## 2. The modules

| module | models | kind |
|---|---|---|
| `Dict` | Python dicts: the empty dict, `d[k] = v`, `d.pop(k)` | helper |
| `PlayerIds` | the set of players of the two registries and of the notices | helper |
| `Rooms` | `GatheringRegistry`, the handlers that change it, the relay keys they open and close | component, refines `RelayKeys` |
| `Presence` | what the server promises about who is online on which connection | abstract specification |
| `RelayKeys` | what the rest of the server may rely on about the relay table: which pairs have a relay, while rooms close and requests wait | abstract specification |
| `Connections` | register and logout with the tables and caps behind `Presence` | component, refines `Presence` |
| `Halls` | `CommunityRegistry` | component |
| `Lobby` | `Presence` + `Rooms` + `Halls`, tied by the suspended `logout` and the reaper | composition, refines `Rooms` and `Halls` |
| `Notices` | `push_participation_left` over `Rooms`, and the games' rosters | component with external games, refines `Rooms` |
| `Forwarding` | probes and shouts, forwarded to one player after another, over `Lobby` | component on top of the composition, refines `RelayKeys` |
| `Relay` | `RelayManager` and what its two callers do when it fails | component, refines `RelayKeys` |
| `PairRelay` | one relay: endpoints, the pending buffer, forwarding | component |
| `RelayPolicy` | what `MH3U_RELAY=auto` learns and forgets | component |
| `PluginConfig` | the console plugin's configuration, across power losses | component |
| `Launcher` | the desktop launcher's update of its own folder | component |
| `RoomsProofs`, `ConnectionsProofs`, `HallsProofs`, `LobbyProofs`, `NoticesProofs`, `ForwardingProofs` | theorems about the module they are named after | proofs |
| `RelayProofs` | theorems about `Relay`, `PairRelay` and `RelayPolicy` | proofs |
| `ClientsProofs` | theorems about `PluginConfig` and `Launcher` | proofs |
| `MC*` | model values, symmetry, small functions | TLC |

Operators whose comment starts with "A slip of" are not part of any
specification: they are plausible bugs of the operator after them, and show that
the properties notice.

### Rooms

`sessions` is a dict from gid to `[host, participants, num]`, `num` being
`gathering.num_participants`, kept apart from the roster because the code keeps
it apart (`recount`). `nextGid` is `_next_gid`. `relays` and `allocating` are the
keys of `RelayManager._relays` and of the allocations suspended at
`relay.py:171`. Actions: `CreateMatchmakeSession` (with its two outcomes, both
after `reap_host`), `JoinMatchmakeSession`, `EndParticipation`,
`UnregisterGatherings`, `Leave`, `CloseForPid`, `GetSessionUrls`, `RelayBound`,
`RelaysIdle` (one sweep of the janitor may close several). When a request that waited resumes
(`RelayBound`), its key stays in `allocating` if another request is suspended on the same one, which
`allocating`, being a set, does not count. The calls that raise without changing anything are not actions.
What a room advertises (quest, password, name) is left out: nothing here
depends on it.

### RelayKeys

Three modules have a part of the relay table: `Rooms` the requests of `get_session_urls` and the rooms
that close, `Relay` the lock, the ports and the sockets, `Forwarding` the requests of the hole punch.
`RelayKeys` is what they have in common, and what callers may count on: a relay appears only when a request
that waited for it goes on (`Answer`), a request begins to wait only while its room is there (`Ask`), and a
room that closes takes along the relays it has (`Close`) but not the one a request still waits for, which
may come later (`relay.py:171`). Each module maps its own variables to `waiting` and `gone` (`Keys`,
`ImplementsRelayKeys`): in `Rooms` and `Forwarding` the gids that were issued and name no room are gone;
`Waiting` is the keys of the requests suspended, in `Forwarding` those of the rooms and of the probes.

### Connections

One variable per table. A `Conn` is one transport connection; after its
`Logout` the same value may be opened again and then stands for a new one, whose
marks (`cidOf`, `counted`, `refused`) start clean. `stations` keeps of a station
URL only the RVCID that register stamps on it. `Register` is the accepted path of
`register` and of `register_ex`, `RegisterRefused` the one that raises
`MaxConnectionsReached`. `counted` is `_mh3u_ip_counted`, which makes
`ip_remove` run once per counted connection.

### Halls

A hall is `[owner, participants, num]`; `num` is `num_participants`, i.e. head
count plus `Offset`: 2 for worlds and for halls that players create, 1 for
lobbies, as in `_Community.recount`. `Logout` is `leave_all` then `reap_owner`, which
`logout` calls with no `await` in between.

### Lobby

The composition reuses the actions of the parts through `INSTANCE`, and is proved to
implement `Rooms` and `Halls`: each of its steps on rooms and halls is by definition one of theirs, so this says that the
proofs about them carry over, not that the server was compared with a second description of it. Each
step of the composition is one stretch of a handler: `Logout` runs to its first
real suspension, which exists only if `push_participation_left` finds a member to
notify (`Notifies`); then the connection is in `closing` until `LogoutFinish`,
which does what follows the pushes. The halls are left after the notices; rooms
before. `silent` connections have a dead peer: they make no requests and their
only future is `Logout`, by the reaper or by PRUDP.

Two constants switch the environment, not the code:

- `LiveOverlap`: whether a player can have two live connections at once. The
  game connects anew after its previous connection died, so the passing runs use
  `FALSE`; the run `live_overlap` shows what `TRUE` breaks, and `GhostsAreOfTheReplaced` is proved of what it keeps.
- `Relaying`: whether `get_session_urls` ever asks for a relay (`MANAGER.should_relay`, `MH3U_RELAY`).

### Notices

When a guest leaves a room, `end_participation` pushes a 3007 notice to each member it
leaves behind; when its connection ends, `logout` pushes a 3008, one room after another.
`push_participation_left` is a loop over a copy of the participants that awaits each
member it notifies, so a push is a record of what it still has to reach (`Push`), and
`PushOn` runs it to its next await, looking up the member's connection then, as the
code does. `EndParticipation`, `Logout`, `CreateMatchmakeSession` and
`JoinMatchmakeSession` are the handlers, with the registry operations of `Rooms`.

The receivers are games, which are outside this repository: `room`, `roster`, `inbox`,
`LinkUp`, `Deliver` and `RoomClosed` are marked external and follow
`docs/ARCHITECTURE.md` section 4 and the comments at the handlers. A game frees a slot only
when a notice tells it to, looking at the player and not at the room. `QuickRejoin` says
whether a player may be back in a room before the notices of its last departure have
arrived; nothing in the code prevents it, and `LiveSlotsKept` does not hold then, so the run
assumes `FALSE`: coming back takes a connection, a registration, a search and a join.

### Forwarding

`Lobby` extended by two handlers that change none of its state but the relays.
`RequestProbeInitiationExt` goes down the listed targets, in their order, and to one twice if the game lists it twice: those
whose RVCID resolves to nobody, or to no room mate, are passed over; for the others it may await a relay, then awaits the
send. `probing[c]` keeps what is left of the list (`to`) and what is awaited (`at`). `Go` is the loop from one
await to the next; `ProbeRelayed` stores the relay and sends the probe with no suspension
in between, as in `_probe_url`. `ShoutTargets` is `_shout_targets`, and `ShoutOn` the delivery loop.

### PluginConfig

The address the game is sent to has two editors, the file on the SD card and the menu on the
console. `store` is what the plugin has saved: the address, the file as it was last adopted, and the
switch. One thread runs everything, but the power may go between any two writes, so a call is
a list of writes (`todo`), and `PowerLoss` is possible at each. The storage may begin to answer
after the plugin has been initialised (`StorageUp`). `last` and `want` are history: what the
owner of the console did last.

### Launcher

A file is known by the release it is of (`disk`), opening one for writing truncates it
(`Broken`), and a running program cannot be opened, so that it is `skipped`. Any other file but the launcher's own may be
skipped as well: `apply_update_zip` goes on after every `PermissionError`, of the open (`OpenMember`), which leaves the file as it was, or of the
write (`WriteDenied`), which leaves it truncated; for the launcher's own the exception is not caught there, and ends the update (`UpdateFails`). The zip is
extracted in any order, and `version.txt` is one of its members. The launcher's own file is
`staged`; `replace.bat` (`helper`) deletes the old one and renames it once the launcher is closed.
The check for updates is one step with the start, since nothing it reads changes in between.
`QuickReopen` says whether the player may start the launcher again while the
helper waits for its exit; the run assumes not (see Observations).

### Relay

`RelayManager` in detail, where `Rooms` and `Lobby` have only its keys. `relays` is
`_relays`, key to port; `lock` and `queue` are the FIFO `asyncio.Lock`; `asked` holds the
requests suspended anywhere in `_get_or_create`, `binding` those whose socket is bound but
not yet reported back. A request that finds its relay, or a full range, is over in
one step (`Ask`, `Resume`); one that binds goes on in `Bound`, which stores the relay
and starts the janitor. `Failed` is what the two callers make of the exception.
`closing` are sockets whose transport was closed but which the event loop has
not released: their port is in no relay, and cannot be bound. Rooms appear only
as the gids that have `gone`; `CloseGid` and `CloseForPid` may come at any time,
which covers every history of `Rooms`. What `Relay` adds, the lock, the ports and the sockets that close
late, stays within `RelayKeys` (`ImplementsRelayKeys`).

### PairRelay

`peers` is `_peers` in the order they were learned, `pending` is `_pending`. Datagrams are
numbered as they arrive, so losing, repeating or reordering them on the network before
changes nothing here; `sentTo` records what the relay has sent. `datagram_received` is split into what
becomes of the datagram: `Dropped`, `KeptForSecond`, `SecondLearned`, `Forwarded`.

### RelayPolicy

`clients` and `pairs` keep of each entry `last_seen` and `relay_until`, which is all
that `decide` and `_prune` read; `recent` is `RECENT_RESULTS`. `_prune` orders what it
evicts by two keys, in two code paths; `Pruned` is the set of results both allow,
entries of one instant being interchangeable. The clock is a small counter.

Some MC modules run several parts side by side: a behaviour exercises one of them (`part`), while the others
stay as they start. `MCRegistries` does so with `Rooms` and `Halls`, `MCRelay` with `Relay`, `PairRelay` and
`RelayPolicy`, `MCClients` with `PluginConfig` and `Launcher`. The parts of a module share no state in the code,
and nothing is claimed of them together; what logout does to rooms and halls together is in `Lobby`.

## 3. What is checked

| run | module | what it shows |
|---|---|---|
| `registries` | `MCRegistries` | rooms: roster and headcount agree, one room per host, gids never reused, a host that creates keeps a room; halls: population, seeded halls survive, owners take their halls along |
| `connections` | `MCConnections` | the pid → station → cid → connection chain, stale cids do not resolve, the per-address count is exact, the global cap, refinement of `Presence` |
| `lobby` | `MCLobby` | no ghosts in rooms or halls across crashes, reconnects and suspended logouts; no gid of both a room and a hall; nobody is removed by a stranger; a player who vanishes leaves every room and hall eventually, or is back |
| `notices` | `MCNotices` | a slot to be freed always has a notice under way to it and is freed in the end; a player that joins finds no slot of its own; no live slot is freed |
| `forwarding` | `MCForwarding` | the targets chosen for a shout are on its side of the room's wall, and its sender is one of them; a relay that a probe names is that of its own two players, and open when the probe goes out |
| `relay` | `MCRelay` | sockets, relays, pending binds and closing transports agree; a request fails only when the range is used up; every request ends; idle relays are closed although the janitor ends when the table is empty; refinement of `RelayKeys`; a relay hands over the first datagrams in order and serves nobody but its two ends; marks in force are evicted last and a failure just learned is kept |
| `clients` | `MCClients` | plugin: the last edit wins and the switch stays, across restarts, late storage and power lost between two writes; launcher: when the launcher restarts every file is of the new release but those this very update was denied, nothing is downgraded, a whole launcher is on disk at all times |
| `reconnect_cap` | `MCConnections` | **violation**, see below |
| `logout_race` | `MCLogoutRace` | **violation**, see below |
| `live_overlap` | `MCLobby` | **violation**, see below |
| `relay_exhausted` | `MCRelay` | **violation**, see below |
| `version_last` | `MCClients` | **violation**, see below |

### Bounds

- `MaxGid`, `MaxCid`, `MaxRoomGid`, `MaxHallGid` bound the only unbounded
  counters, through a conjunct of the action that increments them. They allow
  two or three rooms (halls) over a behaviour: enough for a room, its
  replacement, and another player's room at once.
- `registries`: three players, two of each cap for rooms, and two runtime halls of which a player may own one. With two a room can be full and the
  server can be full; a third player is needed to be refused, and to be neither
  host nor guest. Players are interchangeable there (no property names
  one), hence the symmetry set; no liveness is checked under symmetry.
- `connections`: one player with two connections, and a second behind the same address,
  so that a reconnect, a stale logout and the shared address interact; a third
  on the exempt loopback address. Two slots of each kind.
- `lobby`: one player with two connections and one with a single one. The
  interesting histories (silent, reconnect, suspended logout of the old
  connection) are all about two connections of one player and one witness. One room at a
  time with two successive gids; `Relaying = TRUE`. The relay table under all room
  histories is in `registries`.
- `logout_race`: as `lobby`.
- `notices`: one host and two guests, so that a push has a member to be suspended at and
  another still to reach, who may leave meanwhile; one room at a time and two gids; one
  replaced connection at a time.
- `forwarding`: three symmetric players with a connection each, a lobby and one room, so that a
  player can be in both, in one, or in none; lists of one or two targets
  (`Targets`; two suffice for a repeat, and for one iteration to follow another), one handler forwarding at a time (`Handlers`): two would interact only through the
  relays, which one handler and the rest of `Lobby` already change. `Relaying = FALSE`
  leaves the relays to the probes.
- `relay`: three pairs over two rooms and three players, so that closing a room and
  closing for a player take different sets of relays; a range of three ports of
  which another program holds the first, so that two pairs exhaust it and a scan
  has something to skip; two concurrent requests, one holding the lock and one waiting, for the same pair
  or for two.
- `relay`, its policy: three players, three pairs, places for one player and two pairs; `MaxNow = 3`
  instants with marks of one and two, so that an entry can be in force while a newer one is not.
  `DedupeTtl = 0` keeps `recent` to the results of one instant.
- `relay`, one relay: four addresses (two of one player, the other player's, a stranger's),
  three datagrams from each, a buffer of two, so that it overflows.
- `clients`, the plugin: two hosts and two ports, so that halves of two addresses can be mixed. `OpenMenuChanges = FALSE`
  keeps the file and the storage as they are while the menu is open (see Observations).
- `clients`, the launcher: three releases, so that an update can be interrupted, and another be published before it is
  taken up again, from an installed build older or newer than the latest; one program, one plain file, the
  launcher and `version.txt`, since the update treats all other files alike.
- A deadlock check is on in every run: some handler can always run.

### Fairness

`lobby`, `notices` and `relay` need some. In `lobby`:

- weak fairness of `Logout(c)` for a *silent* `c`: `reaper_task` sweeps all of
  `CLIENTS` every `REAP_INTERVAL` and cleans up every connection not heard of for
  `REAP_TIMEOUT` (`reaper.py:57-80`); a connection that is not in `CLIENTS` is
  closed by the transport's own timeout. The condition stays true until the step,
  since a dead peer never speaks again, so weak fairness is what the code gives.
- weak fairness of `LogoutFinish(c)`: the event loop resumes a suspended
  coroutine, and `push_participation_left` swallows every exception of a push.

In `notices`: weak fairness of resuming a suspended push, for each player and type of notice
(the loop swallows the exceptions of a push and goes on), and of `Deliver`, a reliable PRUDP
connection delivering what was sent while its game is alive. A game that is dead has no
roster left to clean.

In `relay`: weak fairness of `Resume` and `Bound`, the event loop resuming what is
ready (a bound UDP socket is reported on the loop's next turn), and of `Sweep`,
the janitor waking after at most 60 seconds (`relay.py:202`). Closed transports need no
fairness for what is checked.

Nothing is assumed of players: they may connect, request or stay silent at will.

### Findings

- **`reconnect_cap`** (`protocols.py:302`): "A reconnect (pid already present) is
  never blocked" is true of the global cap but not of the per-address one. At the
  cap of an address, a player whose own dead connection is still counted is
  refused until the reaper frees it.
- **`logout_race`** (`protocols.py:391`): `logout` checks once that its
  connection is current, then awaits its notices, then clears halls and relays by
  pid. A player who reconnects and joins a hall through the new connection during the awaits is taken out
  of it by the old connection's tail. `MCLogoutRace` keeps a history of the connection each hall was joined through
  (`through`), so that the tail's own cleanup, of what the old connection had joined, does not count. `NoGhostInHalls` and `RemovedByOwnerOrSelf`
  hold all the same: the tail removes too much, never too little, and only of
  its own player.
- **`live_overlap`** (`protocols.py:381`): if the replaced connection is alive,
  what it opens after the new one has logged out is never cleaned up, for its own
  logout takes the stale path.

- **`relay_exhausted`** (`protocols.py:771`): `docs/UDP_RELAY_NOTES.md:150` says that under
  `auto` an exhausted pool falls back to direct P2P. `_host_station` does; the
  hole punch's handler catches the exception outside the forwarding, so the probe
  is lost instead of sent with the direct address.

- **`version_last`** (`launcher.py:536`): the bundle brings its own `version.txt`, stamped with its release,
  and it is extracted in the zip's order, although `dist/launcher/README.md:61` says that it "is rewritten
  **last**, only after a successful extract". A launcher closed, or a computer switched off, between it and the
  files after it stays a mixture of two releases, and no update is offered any more.

### Observations

Met while modelling; no document or comment of the repository promises otherwise unless quoted,
and no run is about them.

- A switch flipped while the plugin's storage does not answer holds until the storage does, and then
  goes back to the value saved before (`main.cpp:395` keeps it only if nothing is saved).
- Edits made in the menu while the storage does not answer are lost when the menu closes, which loads the
  configuration again. The menu shows "Settings saved on console: NO".
- Restoring a deleted file with the text adopted last is not noticed as an edit.
- If the file is edited, or the storage begins to answer, while the menu is open, the file beats the edit
  made in the menu.
- A player who reconnects from a new port within `RELAY_IDLE_TIMEOUT` is a third endpoint to its old
  relay and stays shut out of it while its peer keeps it alive.
- `_supervise` counts the deaths of a service over its whole life: rare deaths add up to the fifth
  that is final (`server.py:265`). `GhostsLeave` assumes that the reaper runs.
- `version.txt` is also rewritten when files were skipped, for whatever reason they were denied (the log calls all of them "in use"), and when the release's bundle was not
  uploaded yet (`launcher.py:1037`); `VersionRewrittenLast` leaves both out.
- If writing or starting `replace.bat` fails, `version.txt` names the release already and the launcher is the old
  one: until the player presses the button again, a restart finds nothing to update.
- A folder without a `version.txt` is offered any release, so that an unstamped build newer than the latest
  release is downgraded if the player agrees (`launcher.py:240`). `NoDowngrade` starts from stamped folders.
- If the launcher is opened again within the two seconds in which `replace.bat` waits for its exit, and is closed
  in the middle of another update, the helper replaces it by a half-written one (`QuickReopen = TRUE`).
- A power loss between `del` and `ren` of `replace.bat` leaves the launcher under its staged name only.
- A cid replaced by a second register of the same connection stays in `CID_TO_PID` after its logout.

## 4. What is proved

The proofs are of the specifications the runs check, for every set of players,
connections and halls and every value of the caps, under the named assumptions of
the modules (player ids, respectively connections, are finitely many; caps are naturals, a room admits
at least its host; seeded gids lie in `1 .. 0x2000`; the server's pid is no player's; no file of the
bundle is called `Unopened`). What `Rooms` and `Halls` assume of their constants is not visible to a proof about a
module that instantiates them, so the theorems about `Lobby` and `Forwarding` repeat as hypotheses what they need of it.

**Rooms** (`RoomsProofs`). `RoomInv` adds to the promised invariants that every
live gid was issued (`g <= nextGid`). Without it `nextGid + 1` might be the key of
a live room, and create would overwrite it: neither `OneRoomPerHost` nor
`RoomsConsistent` would survive the step in an arbitrary state. It also makes the
dict finite, so rooms can be counted. Every step *shrinks* the registry, or
*creates* one room, or *adds* one member (`StepShape`), from which the caps and
the action properties follow. `HostAlwaysKeepsARoom` needs the cap as well: the room that
`reap_host` took is what makes the new one fit.

`RoomsImplementRelayKeys` is a step simulation that needs only that gids are naturals: what a create closes are gids
issued before, and the gid it issues was never a closed one (`CreateCloses`).

**Connections** (`ConnectionsProofs`). `StationReachable` and
`OnlyCurrentCidsResolve` are not inductive: `ConnInv` adds that cids in use were
issued, that no two connections carry the same one, and that a cid a connection
carries resolves, if at all, to that connection's player. The per-address
count needs its own induction on the sets of counted connections, and
`ConnectionsImplementPresence` is a step simulation under the invariant.

**Halls** (`HallsProofs`). `HallInv` adds that gids are at most `nextHallGid`, itself
at least `0x2000`, so that a created hall is never a seeded one, and that players own no
seeded hall, so that what `reap_owner` takes is all the player owns.

**Lobby** (`LobbyProofs`). `LobbyImplementsRooms` is a step simulation: every step of the
composition is one of the room registry, or none. The no-ghost invariants rest on who may
still send a request. `LobbyInv` says that at most one connection of a player answers
(`OneAnswers`), that a registered one that answers is the one in `CLIENTS`
(`AnsweringIsCurrent`), and that what a player owns was created at run time. A request thus comes
from a player who is online, and a logout that is not current has nothing to leave. The theorems
assume `~LiveOverlap` (the run `live_overlap` shows why) and that the server's pid is no
player's. `NobodyIsEvicted` needs neither, but that gids are issued in order, above the seeded
ones. `GatheringsAreApart` keeps the ranges of the two counters; it assumes seeded gids within `1 .. 0x1000`.
`LobbyImplementsHalls` is the step simulation for the halls. `TypeOK` (`LobbyTypes`) says that `CLIENTS` holds registered connections; that a
logout leaves no closed one there needs `OwnConnections`, that the entry of a player is a connection of that player.
`GhostsAreOfTheReplaced` is what remains of the no-ghost invariants when a player may have two live connections: whoever comes
to haunt a room or a hall does so in a request of a replaced connection, and in no other step (`StepGives`: all other
steps give nobody anything, and a logout leaves what its player holds, at once or when it ends). `ServerKeepsRooms` and `ServerKeepsHalls`
carry what `RoomsProofs` and `HallsProofs` prove over to the composition, along the two simulations; their
hypotheses are those modules' assumptions on the caps.

**Forwarding** (`ForwardingProofs`). No handler changes a table of `Lobby` but the relays (`HandlersOnlyRead`), so
`LobbyInv` holds here too, and of it `ShoutsStayTogether` needs only `AnsweringIsCurrent`: the sender is online, hence among
those it is in a room or a hall with. It inherits `~LiveOverlap`. `ProbesNameOpenRelays` rests on where a turn of the loop may end
(`GoEnds`): the relay was open when the turn began, or was stored in the same step. `ProbeNamesOwnPair` rests on it, too: no turn keeps anything of
`at` from the one before. It is proved with the types (`ForwardingTypes`). `ForwardingImplementsRelayKeys` takes the lobby's steps from
the theorem about `Rooms`; a turn of the loop answers the request the probe was waiting in, asks for the next relay, or both
(`GoKeys`), and what it asks for is of a room that is there.

**Notices** (`NoticesProofs`). `NoticeUnderWay` asks that a suspended push will still find the game that holds the stale slot, which
depends on where that game is now. `NoticeInv` has instead a push that will come to it whoever moves meanwhile (`Witnessed`):
a member still to be reached, or one in a room the push has still to go through. It adds that rooms were issued
gids and games hold no later one (`GidsIssued`), that a game in a live room is a member of it (`Seated`), and that a push takes its rooms in
the order of their gids and never goes to its own player (`Fit`). One turn of the loop of `push_participation_left` is
treated once (`RunMoves`, `RunTells`), and every departure is such a turn after the rooms have
changed (`Parting`). `RejoinsAreClean` and `LiveSlotsAreKept` assume `~QuickRejoin`, with which nothing is
said about a player who is in a room (`Quiet`). `NoticesImplementRooms` is a step simulation.

**Relay** (`RelayProofs`). `PortsAccounted` counts; `RelayInv` says why the sets it counts are disjoint. The
lock is held exactly while one request binds, nobody else stores a relay, and so the key that was missing
under the lock is still missing when the socket is up: no relay is overwritten, and no port lost.
`RefusedOnlyWhenExhausted` follows, since nothing can be binding while another request scans. `RelayImplementsKeys` is a
step simulation under `RelayInv`: whoever holds the lock is still among those who asked, so what it stores answers a request.

**PairRelay** (`RelayProofs`). `LinkLossless` speaks of a relay whose ends are known; `PairInv` adds what
holds before (`BeforeBoth`): the buffer is the first datagrams of the first end, as many as fit, nothing has been
sent, and no other admitted address has spoken.

**RelayPolicy** (`RelayProofs`). `_prune` is treated once, for any dict and cap (`PruneFacts`): what it keeps is
as it was, within the cap, and nothing it drops comes after anything it keeps. `PolicyInv` adds that entries were seen in the past
and that no mark outlasts a fresh one, so that renewing a mark never shortens it. The clock may
run on for ever.

**PluginConfig** (`ClientsProofs`). Whatever write a power loss prevents, the last edit is in the file and not
adopted (`InFile`), or in the storage, which knows the file (`InStore`). `PluginInv` ties what is left
of a call to what its writes may rely on (`TodoSound`). The theorems assume `~OpenMenuChanges`, but for `PluginIsTyped`.

**Launcher** (`ClientsProofs`). The properties speak of one phase each; `UpdateInv` follows the update through all of them.
`PhasesFit` says which member may be open when, and that `replace.bat` waits only for a launcher that is
closed; `Written`, that every member not left, open or skipped is of the new release, and `version.txt` in the end in any case, which is what `UpdateComplete` comes to;
`NotOlder`, that no file is newer than what may still be written. `LauncherKept` needs besides that the staged launcher is
whole from when the helper is started until it has renamed it (`Swappable`), which `~QuickReopen` gives.

The list of theorems is in `PROJECT.json` (`theorems`). `CapsHold`, `HallCapsHold`,
`CidNeverReassigned`, `MemoryBounded`, `GhostsComeFromReplaced`, that `Lobby` implements `Rooms` and `Halls`, that `Notices` implements `Rooms`, that `Rooms` and `Forwarding`
implement `RelayKeys`, and the type invariants of all modules but `Notices` are proved and in no run; those of `Relay`, `PairRelay` and `RelayPolicy` are conjuncts of
the invariants, and the one of `Launcher` says besides that no program is truncated while it runs.

**Only model-checked**: liveness (`GhostsLeave`, `SlotsFreed`, `RequestsEnd`, `QuietRelaysClose`), which this prover
cannot treat, and the disagreements that the violation runs exhibit.

## 5. What is not modelled, and why

- **Left out of a modelled component**: connections whose address cannot be read;
  requests by a connection that never registered (the game always registers
  first); a paused emulator reaped while alive; `CancelledError` inside a push
  of `logout`; the suspension of a join that frees a host slot first
  (`MH3U_HOST_FREE`, off by default); room and hall attributes that are only displayed.
- **In `Relay`**: the mode `RELAY_PORT_START = 0`, which binds an ephemeral port and
  has no range; a `MH3U_HOST` that is a name to resolve, which would suspend every
  bind; `CancelledError` in an allocation.
- **Authentication, datastore, ranking, stock services**: request/response with
  no state shared with the rest.
- **Configuration parsing, console output, packaging**: pure input/output.
- **NAT check and plugin endpoint**: stateless responders.
- **Shouts**: the token bucket of `limits.shout_allowed` is a function of real time. A shout that is over
  its rate is answered and forwarded to nobody.
- **Reaper and supervisor**: the reaper's clock (what is 45 seconds of silence to an emulator that is paused,
  and not dead) and `_supervise`, which respawns a service with a delay until its fifth death. Both
  compare real times of an environment that nobody in the repository describes; what the
  rest needs of them is the fairness above.
- **Relay**: the advertised address (`advertise_for`); **host roster poke**: a write into another
  process's memory, off by default.
- **Plugin**: the hooks that hand the game its token, notifications, the log, the widgets of the menu.
- **Launcher**: the join flow and the account file it mints, the server's child process and its log,
  detection of addresses, windows.

## 6. Plan

Done: `Rooms`, `Presence`, `Connections`, `Halls`, `Lobby`, `Notices`, `Forwarding`, `Relay`, `PairRelay`,
`RelayKeys`, `RelayPolicy`, `PluginConfig`, `Launcher`, their runs, and the proofs of every safety property the passing runs check.

Next:

1. What a gid that names both a room and a hall does to the requests that carry it, once `GidsApart` has run out.
2. The reaper's false alarms: a paused emulator that is reaped and speaks again on a connection the server has closed.
