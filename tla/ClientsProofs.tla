--------------------------- MODULE ClientsProofs ----------------------------
(***************************************************************************)
(* Theorems about the two clients.                                         *)
(*                                                                         *)
(* PluginConfig, for every set of hosts and ports: through every power loss*)
(* the plugin's storage and the file between them still tell what was      *)
(* edited last, and the switch is what it was saved as.                    *)
(*                                                                         *)
(* Launcher, for every bundle and however many releases: what an update    *)
(* restarts into is complete and no older than what it replaced, and a     *)
(* launcher is kept through every crash of the update or the helper.       *)
(***************************************************************************)
EXTENDS PluginConfig, Launcher, SequenceTheorems, TLAPS

-----------------------------------------------------------------------------
(* The plugin.                                                             *)

\* What was edited last is in the address ep.
In(ep) == last.host \in {None, ep.host} /\ last.port \in {None, ep.port}

\* It is in the file, not adopted yet.
InFile == file # None /\ file # store.seen /\ last = file

\* It is in the storage, which knows the file that is there.
InStore ==
  /\ file = None \/ file = store.seen
  /\ IF store.ep = None THEN last = Nothing ELSE In(store.ep)

\* It is in use as well.
InUse == InStore /\ In(use.ep)

-----------------------------------------------------------------------------
(* The calls of the plugin's thread.                                       *)

LoadEnabled == <<Call("storeLoadEnabled")>>
PutSeen == <<With("storePut", "seen"), Call("storeLoadEnabled")>>
PutAddress == <<With("storePut", "ep"), With("storePut", "seen"), Call("storeLoadEnabled")>>

Edits ==
  {With("onEnabledChanged", v) : v \in BOOLEAN}
    \cup {With("onServerIpChanged", v) : v \in Host}
    \cup {With("onServerPortChanged", v) : v \in Port}

\* Edits and then a load
ThenLoads(t) ==
  \E e \in Seq(Edits) : t = e \o <<Call("loadConfig")>>

\* The edits of a menu, reported once it has closed, and a load; or a load
\* under way.
TodoShape ==
  \/ todo = <<>>
  \/ todo \in {LoadEnabled, PutSeen, PutAddress}
  \/ ThenLoads(todo)

\* What a step needs to know of the file and the storage
TodoSound ==
  api => /\ todo = PutAddress => InFile /\ use.ep = file
         /\ todo = PutSeen => InFile /\ use.ep = file /\ store.ep = file
         /\ todo = LoadEnabled => InUse
         /\ todo = <<>> /\ menu => InUse
         /\ ThenLoads(todo) /\ todo # <<Call("loadConfig")>> => InUse

Types ==
  /\ power \in BOOLEAN /\ api \in BOOLEAN /\ menu \in BOOLEAN
  /\ api => power
  /\ menu => power
  /\ file \in Endpoint \cup {None}
  /\ store \in [ep : Endpoint \cup {None}, seen : Endpoint \cup {None},
                enabled : BOOLEAN \cup {None}]
  /\ use.ep \in Endpoint
  /\ last \in [host : Host \cup {None}, port : Port \cup {None}]

SwitchSaved ==
  /\ store.enabled = want
  /\ fresh => api /\ (want # None => enabled = want)

PluginInv ==
  /\ Types
  /\ TodoShape
  /\ SwitchSaved
  /\ InFile \/ InStore
  /\ TodoSound
  /\ fresh => In(use.ep)

-----------------------------------------------------------------------------
(* Sequences of calls.                                                     *)

\* Heads and tails of short sequences
LEMMA Short ==
  ASSUME NEW a, NEW b, NEW c
  PROVE  /\ Head(<<a>>) = a /\ Tail(<<a>>) = <<>> /\ <<a>> # <<>>
         /\ Head(<<a, b>>) = a /\ Tail(<<a, b>>) = <<b>> /\ <<a, b>> # <<>>
         /\ Head(<<a, b, c>>) = a /\ Tail(<<a, b, c>>) = <<b, c>> /\ <<a, b, c>> # <<>>
         /\ <<a>> \o <<>> = <<a>>
         /\ Len(<<a>>) = 1 /\ Len(<<a, b>>) = 2 /\ Len(<<a, b, c>>) = 3
<1> DEFINE S == {a, b, c}
<1>0. a \in S /\ b \in S /\ c \in S
  OBVIOUS
<1>1. /\ <<a>> \in Seq(S) /\ Len(<<a>>) = 1 /\ <<a>>[1] = a
      /\ <<a, b>> \in Seq(S) /\ Len(<<a, b>>) = 2 /\ <<a, b>>[1] = a /\ <<a, b>>[2] = b
  OBVIOUS
<1>2. /\ <<a, b, c>> \in Seq(S) /\ Len(<<a, b, c>>) = 3
      /\ <<a, b, c>>[1] = a /\ <<a, b, c>>[2] = b /\ <<a, b, c>>[3] = c
  OBVIOUS
<1> HIDE DEF S
<1>3. Head(<<a>>) = a /\ Head(<<a, b>>) = a /\ Head(<<a, b, c>>) = a
  OBVIOUS
<1>4. <<a>> # <<>> /\ <<a, b>> # <<>> /\ <<a, b, c>> # <<>>
  OBVIOUS
<1>5. Tail(<<a>>) = <<>>
  OBVIOUS
<1>6. Tail(<<a, b>>) = <<b>>
  OBVIOUS
<1>7. Tail(<<a, b, c>>) = <<b, c>>
  OBVIOUS
<1>8. <<a>> \o <<>> = <<a>>
  BY <1>1, ConcatEmptySeq
<1>9. QED
  BY <1>1, <1>2, <1>3, <1>4, <1>5, <1>6, <1>7, <1>8

\* A pair and one more
LEMMA OneMore == \A a, b, c : <<a, b>> \o <<c>> = <<a, b, c>>
<1> TAKE a, b, c
<1> DEFINE S == {a, b, c}
<1>1. /\ <<a, b>> \in Seq(S) /\ Len(<<a, b>>) = 2 /\ <<a, b>>[1] = a /\ <<a, b>>[2] = b
      /\ <<c>> \in Seq(S) /\ Len(<<c>>) = 1 /\ <<c>>[1] = c
  OBVIOUS
<1>2. /\ <<a, b, c>> \in Seq(S) /\ Len(<<a, b, c>>) = 3
      /\ <<a, b, c>>[1] = a /\ <<a, b, c>>[2] = b /\ <<a, b, c>>[3] = c
  OBVIOUS
<1> HIDE DEF S
<1>3. /\ <<a, b>> \o <<c>> \in Seq(S) /\ Len(<<a, b>> \o <<c>>) = 3
      /\ (<<a, b>> \o <<c>>)[1] = a /\ (<<a, b>> \o <<c>>)[2] = b /\ (<<a, b>> \o <<c>>)[3] = c
  BY <1>1, ConcatProperties
<1>4. \A i \in 1 .. 3 : (<<a, b>> \o <<c>>)[i] = <<a, b, c>>[i]
  <2>1. 1 .. 3 = {1, 2, 3}
    OBVIOUS
  <2>2. QED
    BY <1>2, <1>3, <2>1
<1>5. QED
  BY <1>2, <1>3, <1>4, SeqEqual

\* What is left of some edits and a load
LEMMA EditsUnroll ==
  ASSUME NEW t, ThenLoads(t)
  PROVE  /\ t # <<>>
         /\ \/ t = <<Call("loadConfig")>>
            \/ Head(t) \in Edits /\ ThenLoads(Tail(t)) /\ t # <<Call("loadConfig")>>
<1> DEFINE l == Call("loadConfig")
<1>1. PICK e \in Seq(Edits) : t = e \o <<l>>
  BY DEF ThenLoads
<1> DEFINE S == Edits \cup {l}
<1>2. l \in S /\ Edits \subseteq S
  OBVIOUS
<1> HIDE DEF l, S
<1>3. e \in Seq(S) /\ <<l>> \in Seq(S) /\ Len(<<l>>) = 1 /\ <<l>>[1] = l
  BY <1>1, <1>2
<1>4. /\ t \in Seq(S) /\ Len(t) = Len(e) + 1
      /\ \A i \in 1 .. Len(t) : t[i] = IF i <= Len(e) THEN e[i] ELSE l
  BY <1>1, <1>3, ConcatProperties
<1>5. CASE e = <<>>
  <2>1. t = <<l>>
    BY <1>1, <1>3, <1>5, ConcatEmptySeq
  <2>2. QED
    BY <2>1, Short DEF l
<1>6. CASE e # <<>>
  <2>1. /\ Len(e) \in Nat /\ Len(e) > 0 /\ Head(e) \in Edits /\ Tail(e) \in Seq(Edits)
        /\ Head(e) = e[1]
    BY <1>1, <1>6, HeadTailProperties
  <2>2. t # <<>> /\ Head(t) = t[1] /\ t[1] = e[1] /\ Len(t) # 1
    BY <1>4, <2>1
  <2>3. Tail(t) = Tail(e) \o <<l>>
    BY <1>1, <1>3, <1>6
  <2>4. QED
    BY <1>3, <2>1, <2>2, <2>3 DEF ThenLoads, l
<1>7. QED
  BY <1>5, <1>6

\* The shapes of what is left of a call, told apart by their first call.
LEMMA Shapes ==
  /\ Head(LoadEnabled) = Call("storeLoadEnabled") /\ Tail(LoadEnabled) = <<>>
  /\ Head(PutSeen) = With("storePut", "seen") /\ Tail(PutSeen) = LoadEnabled
  /\ Head(PutAddress) = With("storePut", "ep") /\ Tail(PutAddress) = PutSeen
  /\ Len(LoadEnabled) = 1 /\ Len(PutSeen) = 2 /\ Len(PutAddress) = 3
  /\ LoadEnabled # <<>> /\ PutSeen # <<>> /\ PutAddress # <<>>
<1> DEFINE a == With("storePut", "ep")
           b == With("storePut", "seen")
           c == Call("storeLoadEnabled")
<1>1. LoadEnabled = <<c>> /\ PutSeen = <<b, c>> /\ PutAddress = <<a, b, c>>
  BY DEF LoadEnabled, PutSeen, PutAddress
<1> HIDE DEF a, b, c
<1>2. /\ Head(<<c>>) = c /\ Tail(<<c>>) = <<>> /\ <<c>> # <<>> /\ Len(<<c>>) = 1
      /\ Head(<<b, c>>) = b /\ Tail(<<b, c>>) = <<c>> /\ <<b, c>> # <<>> /\ Len(<<b, c>>) = 2
      /\ Head(<<a, b, c>>) = a /\ Tail(<<a, b, c>>) = <<b, c>> /\ <<a, b, c>> # <<>>
      /\ Len(<<a, b, c>>) = 3
  BY Short
<1>3. QED
  BY <1>1, <1>2 DEF a, b, c

\* The call at the head of some edits and a load
LEMMA EditOrLoad ==
  ASSUME NEW t, ThenLoads(t)
  PROVE  /\ t # <<>>
         /\ \/ t = <<Call("loadConfig")>> /\ Head(t).call = "loadConfig" /\ Tail(t) = <<>>
            \/ /\ ThenLoads(Tail(t)) /\ t # <<Call("loadConfig")>>
               /\ \/ Head(t).call = "onEnabledChanged" /\ Head(t).arg \in BOOLEAN
                  \/ Head(t).call = "onServerIpChanged" /\ Head(t).arg \in Host
                  \/ Head(t).call = "onServerPortChanged" /\ Head(t).arg \in Port
<1>1. \A c \in Edits : \/ c.call = "onEnabledChanged" /\ c.arg \in BOOLEAN
                       \/ c.call = "onServerIpChanged" /\ c.arg \in Host
                       \/ c.call = "onServerPortChanged" /\ c.arg \in Port
  BY DEF Edits, With
<1>2. Head(<<Call("loadConfig")>>).call = "loadConfig" /\ Tail(<<Call("loadConfig")>>) = <<>>
  BY Short DEF Call
<1>3. QED
  BY <1>1, <1>2, EditsUnroll

\* What is left is of one shape only.
LEMMA OneShape ==
  ASSUME NEW t
  PROVE  /\ t = LoadEnabled => t # PutSeen /\ t # PutAddress /\ ~ThenLoads(t) /\ t # <<>>
         /\ t = PutSeen => t # LoadEnabled /\ t # PutAddress /\ ~ThenLoads(t) /\ t # <<>>
         /\ t = PutAddress => t # LoadEnabled /\ t # PutSeen /\ ~ThenLoads(t) /\ t # <<>>
         /\ ThenLoads(t) => t # LoadEnabled /\ t # PutSeen /\ t # PutAddress /\ t # <<>>
<1>1. /\ Head(LoadEnabled).call = "storeLoadEnabled"
      /\ Head(PutSeen).call = "storePut" /\ Head(PutAddress).call = "storePut"
  BY Shapes DEF Call, With
<1>2. ThenLoads(t) => Head(t).call \notin {"storeLoadEnabled", "storePut"}
  BY EditOrLoad
<1>3. PutSeen # PutAddress
  BY Shapes
<1>4. QED
  BY <1>1, <1>2, <1>3, Shapes, EditOrLoad

\* A load alone
LEMMA LoadAlone == ThenLoads(<<Call("loadConfig")>>)
<1>1. <<>> \in Seq(Edits) /\ <<>> \o <<Call("loadConfig")>> = <<Call("loadConfig")>>
  <2> DEFINE l == Call("loadConfig")
  <2>1. <<l>> \in Seq({l})
    OBVIOUS
  <2> HIDE DEF l
  <2>2. <<>> \o <<l>> = <<l>>
    BY <2>1, ConcatEmptySeq
  <2>3. QED
    BY <2>2 DEF l
<1>2. QED
  BY <1>1 DEF ThenLoads

\* What the call that runs leaves, and was given.
LEMMA WhatRuns ==
  ASSUME TodoShape
  PROVE  /\ Running("loadConfig") => todo = <<Call("loadConfig")>> /\ Tail(todo) = <<>>
         /\ Running("storeLoadEnabled") => todo = LoadEnabled /\ Tail(todo) = <<>>
         /\ Running("storePut") =>
              \/ todo = PutSeen /\ Argument = "seen" /\ Tail(todo) = LoadEnabled
              \/ todo = PutAddress /\ Argument = "ep" /\ Tail(todo) = PutSeen
         /\ Running("onEnabledChanged") => Argument \in BOOLEAN
         /\ Running("onServerIpChanged") => Argument \in Host
         /\ Running("onServerPortChanged") => Argument \in Port
         /\ (\/ Running("onEnabledChanged") \/ Running("onServerIpChanged")
             \/ Running("onServerPortChanged"))
              => ThenLoads(todo) /\ todo # <<Call("loadConfig")>> /\ ThenLoads(Tail(todo))
<1>1. CASE todo = <<>>
  BY <1>1 DEF Running
<1>2. CASE todo = LoadEnabled
  BY <1>2, Shapes DEF Running, Call
<1>3. CASE todo = PutSeen
  BY <1>3, Shapes DEF Running, Argument, With
<1>4. CASE todo = PutAddress
  BY <1>4, Shapes DEF Running, Argument, With
<1>5. CASE ThenLoads(todo)
  BY <1>5, EditOrLoad DEF Running, Argument
<1>6. QED
  BY <1>1, <1>2, <1>3, <1>4, <1>5 DEF TodoShape

-----------------------------------------------------------------------------
(* Steps.                                                                  *)

\* An address is not None.
LEMMA NoneIsNoAddress == None \notin Endpoint /\ Default \in Endpoint
BY PluginAssumption DEF Endpoint, Default

\* Loading adopts the file if it is new, else takes what the storage has.
LEMMA LoadConfigStep ==
  ASSUME PluginInv, LoadConfig
  PROVE  PluginInv'
<1> DEFINE l == Call("storeLoadEnabled")
<1>1. todo = <<Call("loadConfig")>> /\ Tail(todo) = <<>>
  BY WhatRuns DEF LoadConfig, PluginInv
<1>2. UNCHANGED <<power, api, menu, file, store, enabled, last, want, fresh>>
  BY DEF LoadConfig, people
<1>3. \/ /\ TxtChanged /\ use' = [ep |-> file, src |-> "txt"] /\ todo' = PutAddress
      \/ /\ ~TxtChanged /\ todo' = LoadEnabled
         /\ use' = IF Stored("ep") # None THEN [ep |-> Stored("ep"), src |-> "menu"]
                   ELSE IF file # None THEN [ep |-> file, src |-> "txt"]
                   ELSE Unset
  <2>1. <<Call("storeLoadEnabled")>> \o <<>> = LoadEnabled
    BY Short DEF LoadEnabled
  <2>2. Adoption \o <<Call("storeLoadEnabled")>> = PutAddress
    <3> DEFINE a == With("storePut", "ep")
               b == With("storePut", "seen")
    <3>1. Adoption = <<a, b>> /\ PutAddress = <<a, b, l>>
      BY DEF Adoption, PutAddress
    <3>2. \A x, y, z : <<x, y>> \o <<z>> = <<x, y, z>>
      BY OneMore
    <3>3. Adoption \o <<l>> = PutAddress
      BY <3>1, <3>2, Zenon
    <3>4. QED
      BY <3>3
  <2>3. Adoption \o <<Call("storeLoadEnabled")>> \o <<>> = PutAddress
    <3>1. PutAddress \in Seq({With("storePut", "ep"), With("storePut", "seen"), l})
      BY DEF PutAddress
    <3>2. PutAddress \o <<>> = PutAddress
      BY <3>1, ConcatEmptySeq
    <3>3. QED
      BY <2>2, <3>2
  <2>4. QED
    BY <1>1, <2>1, <2>3 DEF LoadConfig
<1>4. use'.ep \in Endpoint
  BY <1>3, NoneIsNoAddress DEF PluginInv, Types, TxtChanged, Stored, Unset
<1>5. CASE TxtChanged
  <2>1. todo' = PutAddress /\ use'.ep = file
    BY <1>3, <1>5
  <2>2. api => InFile /\ last = file
    BY <1>5 DEF TxtChanged, Stored, PluginInv, InFile, InStore
  <2>3. QED
    BY <1>2, <1>4, <2>1, <2>2, OneShape
       DEF PluginInv, Types, TodoShape, SwitchSaved, TodoSound, InFile, InStore, In
<1>6. CASE ~TxtChanged
  <2>1. todo' = LoadEnabled
    BY <1>3, <1>6
  <2>2. api => InStore
    BY <1>6 DEF TxtChanged, Stored, PluginInv, InFile, InStore
  <2>3. api => In(use.ep)'
    <3> SUFFICES ASSUME api
                 PROVE  last.host \in {None, use'.ep.host} /\ last.port \in {None, use'.ep.port}
      BY <1>2 DEF In
    <3>1. CASE store.ep = None
      BY <2>2, <3>1 DEF InStore, Nothing
    <3>2. CASE store.ep # None
      BY <1>3, <1>6, <2>2, <3>2 DEF InStore, In, Stored
    <3>3. QED
      BY <3>1, <3>2
  <2>4. QED
    BY <1>2, <1>4, <2>1, <2>2, <2>3, OneShape
       DEF PluginInv, Types, TodoShape, SwitchSaved, TodoSound, InFile, InStore, InUse, In
<1>7. QED
  BY <1>5, <1>6

\* The writes of an adoption, the address first.
LEMMA StorePutStep ==
  ASSUME PluginInv, StorePut
  PROVE  PluginInv'
<1>1. /\ UNCHANGED <<power, api, menu, file, use, enabled, last, want, fresh>>
      /\ todo' = Tail(todo)
      /\ store' = IF api THEN [store EXCEPT ![Argument] = file] ELSE store
  BY DEF StorePut, people, Put
<1>2. CASE todo = PutAddress /\ Argument = "ep" /\ Tail(todo) = PutSeen
  <2>1. todo' = PutSeen
    BY <1>1, <1>2
  <2>2. store' = IF api THEN [store EXCEPT !.ep = file] ELSE store
    BY <1>1, <1>2
  <2>3. api => InFile /\ use.ep = file
    BY <1>2 DEF PluginInv, TodoSound
  <2>4. Types' /\ SwitchSaved'
    BY <1>1, <2>2 DEF PluginInv, Types, SwitchSaved
  <2>5. api => InFile' /\ store'.ep = file
    BY <1>1, <2>2, <2>3 DEF PluginInv, Types, InFile
  <2>6. ~api => InFile' \/ InStore'
    BY <1>1, <2>2 DEF PluginInv, InFile, InStore, In
  <2>7. fresh' => In(use.ep)'
    BY <1>1 DEF PluginInv, In
  <2>8. TodoShape'
    BY <2>1 DEF TodoShape
  <2>9. TodoSound'
    BY <1>1, <2>1, <2>3, <2>5, OneShape DEF TodoSound
  <2>10. QED
    BY <1>1, <2>4, <2>5, <2>6, <2>7, <2>8, <2>9 DEF PluginInv
<1>3. CASE todo = PutSeen /\ Argument = "seen" /\ Tail(todo) = LoadEnabled
  <2>1. todo' = LoadEnabled
    BY <1>1, <1>3
  <2>2. store' = IF api THEN [store EXCEPT !.seen = file] ELSE store
    BY <1>1, <1>3
  <2>3. api => InFile /\ use.ep = file /\ store.ep = file
    BY <1>3 DEF PluginInv, TodoSound
  <2>4. Types' /\ SwitchSaved'
    BY <1>1, <2>2 DEF PluginInv, Types, SwitchSaved
  <2>5. api => InUse'
    BY <1>1, <2>2, <2>3, NoneIsNoAddress DEF PluginInv, Types, InFile, InStore, InUse, In
  <2>6. ~api => InFile' \/ InStore'
    BY <1>1, <2>2 DEF PluginInv, InFile, InStore, In
  <2>7. fresh' => In(use.ep)'
    BY <1>1 DEF PluginInv, In
  <2>8. TodoShape'
    BY <2>1 DEF TodoShape
  <2>9. TodoSound'
    BY <1>1, <2>1, <2>5, OneShape DEF TodoSound
  <2>10. QED
    BY <1>1, <2>4, <2>5, <2>6, <2>7, <2>8, <2>9 DEF PluginInv, InUse
<1>4. QED
  BY <1>2, <1>3, WhatRuns DEF PluginInv, StorePut

\* The switch as it was saved; the load is complete.
LEMMA StoreLoadEnabledStep ==
  ASSUME PluginInv, StoreLoadEnabled
  PROVE  PluginInv'
<1>1. /\ UNCHANGED <<power, api, menu, file, store, use, last, want>>
      /\ todo = LoadEnabled /\ todo' = <<>>
      /\ enabled' = (IF Stored("enabled") # None THEN Stored("enabled") ELSE enabled)
      /\ fresh' = api
  BY WhatRuns DEF StoreLoadEnabled, people, PluginInv
<1>2. api => InUse
  BY <1>1 DEF PluginInv, TodoSound
<1>3. SwitchSaved'
  BY <1>1 DEF PluginInv, SwitchSaved, Stored
<1>4. QED
  BY <1>1, <1>2, <1>3, OneShape
     DEF PluginInv, Types, TodoShape, TodoSound, InFile, InStore, InUse, In

\* The switch is set and saved.
LEMMA OnEnabledChangedStep ==
  ASSUME PluginInv, OnEnabledChanged
  PROVE  PluginInv'
<1>1. /\ UNCHANGED <<power, api, menu, file, use, last, fresh>>
      /\ todo' = Tail(todo) /\ ThenLoads(todo) /\ ThenLoads(todo')
      /\ todo # <<Call("loadConfig")>>
      /\ Argument \in BOOLEAN /\ enabled' = Argument
      /\ store' = (IF api THEN [store EXCEPT !.enabled = Argument] ELSE store)
      /\ want' = (IF api THEN Argument ELSE want)
  BY WhatRuns DEF OnEnabledChanged, Put, PluginInv
<1>2. Types' /\ SwitchSaved'
  BY <1>1 DEF PluginInv, Types, SwitchSaved
<1>3. store'.ep = store.ep /\ store'.seen = store.seen
  BY <1>1 DEF PluginInv, Types
<1>4. InFile' = InFile /\ InStore' = InStore /\ InUse' = InUse /\ In(use.ep)' = In(use.ep)
  BY <1>1, <1>3 DEF InFile, InStore, InUse, In
<1>5. api => InUse
  BY <1>1 DEF PluginInv, TodoSound
<1>6. QED
  BY <1>1, <1>2, <1>4, <1>5, OneShape DEF PluginInv, TodoShape, TodoSound

\* One half of the address is edited and, if it can be, saved.
LEMMA EditStep ==
  ASSUME PluginInv, OnServerIpChanged \/ OnServerPortChanged
  PROVE  PluginInv'
<1>1. PICK half \in {"host", "port"} :
        /\ Edit(half, Argument)
        /\ Argument \in IF half = "host" THEN Host ELSE Port
        /\ ThenLoads(todo) /\ ThenLoads(Tail(todo)) /\ todo # <<Call("loadConfig")>>
  BY WhatRuns DEF OnServerIpChanged, OnServerPortChanged, PluginInv
<1> DEFINE v == Argument
<1>2. /\ UNCHANGED <<power, api, menu, file, enabled, want>>
      /\ use' = [ep |-> [use.ep EXCEPT ![half] = v], src |-> "menu"]
      /\ store' = IF api THEN [store EXCEPT !.ep = use'.ep] ELSE store
      /\ last' = IF api THEN [last EXCEPT ![half] = v] ELSE last
      /\ fresh' = FALSE
      /\ todo' = Tail(todo)
  BY <1>1 DEF Edit, Put
<1> HIDE DEF v
<1>3. v \in IF half = "host" THEN Host ELSE Port
  BY <1>1 DEF v
<1>4. use.ep \in [host : Host, port : Port]
      /\ last \in [host : Host \cup {None}, port : Port \cup {None}]
  BY DEF PluginInv, Types, Endpoint
<1>5. /\ use'.ep \in Endpoint
      /\ last' \in [host : Host \cup {None}, port : Port \cup {None}]
  BY <1>2, <1>3, <1>4 DEF Endpoint
<1>6. Types' /\ SwitchSaved'
  BY <1>2, <1>5 DEF PluginInv, Types, SwitchSaved
<1>7. api => InUse
  BY <1>1 DEF PluginInv, TodoSound
<1>8. CASE api
  <2>1. store'.ep = use'.ep /\ store'.seen = store.seen
    BY <1>2, <1>8 DEF PluginInv, Types
  <2>2. In(use.ep)'
    <3>1. last' = [last EXCEPT ![half] = v] /\ use'.ep = [use.ep EXCEPT ![half] = v]
      BY <1>2, <1>8
    <3>2. In(use.ep)
      BY <1>7, <1>8 DEF InUse
    <3>3. CASE half = "host"
      BY <1>4, <3>1, <3>2, <3>3 DEF In
    <3>4. CASE half = "port"
      BY <1>4, <3>1, <3>2, <3>4 DEF In
    <3>5. QED
      BY <3>3, <3>4
  <2>3. InStore'
    BY <1>2, <1>5, <1>7, <1>8, <2>1, <2>2, NoneIsNoAddress DEF InUse, InStore, In
  <2>4. QED
    BY <1>1, <1>2, <1>6, <2>2, <2>3, OneShape DEF PluginInv, TodoShape, TodoSound, InUse
<1>9. CASE ~api
  <2>1. InFile' = InFile /\ InStore' = InStore
    BY <1>2, <1>9 DEF InFile, InStore, In
  <2>2. QED
    BY <1>1, <1>2, <1>6, <1>9, <2>1 DEF PluginInv, TodoShape, TodoSound
<1>10. QED
  BY <1>8, <1>9

\* Nothing but what is left to do, the menu and the power changes.
LEMMA Disks ==
  ASSUME PluginInv, UNCHANGED <<file, store, use, enabled, last, want, fresh>>
  PROVE  /\ InFile' \/ InStore'
         /\ InFile => InFile'
         /\ InUse => InUse'
         /\ fresh' => In(use.ep)'
         /\ fresh' => api
         /\ want' # None /\ fresh' => enabled' = want'
         /\ store'.enabled = want'
BY DEF PluginInv, SwitchSaved, InFile, InStore, InUse, In

\* A load starts, of a plugin that has just been initialised or is idle.
LEMMA LoadStarts ==
  ASSUME PluginInv, Boot \/ AppStart \/ ConfigMenuOpened
  PROVE  PluginInv'
<1>1. /\ UNCHANGED <<file, store, use, enabled, last, want, fresh>>
      /\ todo' = <<Call("loadConfig")>> /\ power' = TRUE
      /\ api => api' /\ power
      /\ api' \in BOOLEAN /\ menu' \in BOOLEAN
  BY DEF Boot, AppStart, ConfigMenuOpened, Idle, people, PluginInv, Types
<1>2. Types' /\ SwitchSaved'
  BY <1>1, Disks DEF PluginInv, Types, SwitchSaved
<1>3. TodoShape' /\ TodoSound'
  BY <1>1, LoadAlone, OneShape DEF TodoShape, TodoSound
<1>4. QED
  BY <1>1, <1>2, <1>3, Disks DEF PluginInv

\* The menu closes with some edits.
LEMMA ConfigMenuClosedStep ==
  ASSUME PluginInv, ConfigMenuClosed
  PROVE  PluginInv'
<1>1. /\ UNCHANGED <<power, api, file, store, use, enabled, last, want, fresh>>
      /\ todo = <<>> /\ power /\ menu /\ menu' = FALSE
  BY DEF ConfigMenuClosed, Idle, people
<1>2. ThenLoads(todo')
  <2>1. PICK switch \in Changed("onEnabledChanged", enabled, BOOLEAN),
             ip \in Changed("onServerIpChanged", use.ep.host, Host),
             port \in Changed("onServerPortChanged", use.ep.port, Port) :
          todo' = switch \o ip \o port \o <<Call("loadConfig")>>
    BY DEF ConfigMenuClosed
  <2>2. /\ \A v \in BOOLEAN : With("onEnabledChanged", v) \in Edits
        /\ \A v \in Host : With("onServerIpChanged", v) \in Edits
        /\ \A v \in Port : With("onServerPortChanged", v) \in Edits
    BY DEF Edits
  <2>3. <<>> \in Seq(Edits) /\ \A x \in Edits : <<x>> \in Seq(Edits)
    OBVIOUS
  <2>4. switch \in Seq(Edits) /\ ip \in Seq(Edits) /\ port \in Seq(Edits)
    BY <2>2, <2>3 DEF Changed
  <2>5. (switch \o ip) \o port \in Seq(Edits)
    BY <2>4, ConcatProperties
  <2>6. QED
    BY <2>1, <2>5 DEF ThenLoads
<1>3. Types' /\ SwitchSaved'
  BY <1>1 DEF PluginInv, Types, SwitchSaved
<1>4. api => InUse
  BY <1>1 DEF PluginInv, TodoSound
<1>5. TodoShape' /\ TodoSound'
  BY <1>1, <1>2, <1>4, OneShape, Disks DEF TodoShape, TodoSound
<1>6. QED
  BY <1>1, <1>3, <1>5, Disks DEF PluginInv

\* The storage answers, under no open menu.
LEMMA StorageUpStep ==
  ASSUME PluginInv, ~OpenMenuChanges, StorageUp
  PROVE  PluginInv'
<1>1. /\ UNCHANGED <<power, menu, file, store, use, enabled, todo, last, want, fresh>>
      /\ todo = <<>> /\ ~menu /\ power /\ api' = TRUE
  BY DEF StorageUp, Undisturbed, people
<1>2. Types' /\ SwitchSaved'
  BY <1>1 DEF PluginInv, Types, SwitchSaved
<1>3. TodoShape' /\ TodoSound'
  BY <1>1, OneShape DEF TodoShape, TodoSound
<1>4. QED
  BY <1>1, <1>2, <1>3, Disks DEF PluginInv

\* The file is edited, or removed, under no open menu.
LEMMA FileStep ==
  ASSUME PluginInv, ~OpenMenuChanges, DeleteFile \/ \E v \in Endpoint : EditFile(v)
  PROVE  PluginInv'
<1>1. /\ UNCHANGED <<power, api, menu, store, use, enabled, todo, want>>
      /\ todo = <<>> /\ ~menu
      /\ fresh' => fresh
  BY DEF DeleteFile, EditFile, Undisturbed, people
<1>2. TodoShape' /\ TodoSound'
  BY <1>1, OneShape DEF TodoShape, TodoSound
<1>3. CASE DeleteFile
  <2>1. file # None /\ file = store.seen /\ file' = None /\ last' = last
    BY <1>3 DEF DeleteFile, people
  <2>2. Types' /\ SwitchSaved'
    BY <1>1, <2>1 DEF PluginInv, Types, SwitchSaved
  <2>3. InStore'
    BY <1>1, <2>1 DEF PluginInv, InFile, InStore, In
  <2>4. fresh' => In(use.ep)'
    BY <1>1, <2>1 DEF PluginInv, In
  <2>5. QED
    BY <1>2, <2>2, <2>3, <2>4 DEF PluginInv
<1>4. ASSUME NEW v \in Endpoint, EditFile(v)
      PROVE  PluginInv'
  <2>1. v # store.seen /\ file' = v /\ last' = v /\ fresh' = FALSE /\ v # None
    BY <1>4, NoneIsNoAddress DEF EditFile
  <2>2. Types' /\ SwitchSaved'
    BY <1>1, <2>1 DEF PluginInv, Types, SwitchSaved, Endpoint
  <2>3. InFile'
    BY <1>1, <2>1 DEF InFile
  <2>4. QED
    BY <1>2, <2>1, <2>2, <2>3 DEF PluginInv
<1>5. QED
  BY <1>3, <1>4

\* Power goes: what is on the SD card stays.
LEMMA PowerLossStep ==
  ASSUME PluginInv, PowerLoss
  PROVE  PluginInv'
<1>1. /\ UNCHANGED <<file, store, last, want>>
      /\ power' = FALSE /\ api' = FALSE /\ menu' = FALSE /\ todo' = <<>>
      /\ use' = Unset /\ fresh' = FALSE
  BY DEF PowerLoss, people
<1>2. Types' /\ SwitchSaved'
  BY <1>1, NoneIsNoAddress DEF PluginInv, Types, SwitchSaved, Unset
<1>3. InFile' \/ InStore'
  BY <1>1 DEF PluginInv, InFile, InStore, In
<1>4. QED
  BY <1>1, <1>2, <1>3 DEF PluginInv, TodoShape, TodoSound

\* Every step keeps the invariant.
LEMMA PluginInvStep ==
  ASSUME ~OpenMenuChanges, PluginInv, [Next]_vars
  PROVE  PluginInv'
<1>1. CASE UNCHANGED vars
  <2>1. UNCHANGED <<power, api, menu, file, store, use, enabled, todo, last, want, fresh>>
    BY <1>1 DEF vars, people
  <2>2. QED
    BY <2>1
       DEF PluginInv, Types, TodoShape, SwitchSaved, TodoSound, InFile, InStore, InUse, In
<1>2. QED
  BY <1>1, LoadConfigStep, StorePutStep, StoreLoadEnabledStep, OnEnabledChangedStep, EditStep,
     LoadStarts, ConfigMenuClosedStep, StorageUpStep, FileStep, PowerLossStep DEF Next

\* The console is off, with a file or none.
LEMMA PluginInvInit == Init => PluginInv
<1> SUFFICES ASSUME Init
             PROVE  PluginInv
  OBVIOUS
<1>1. /\ power = FALSE /\ api = FALSE /\ menu = FALSE /\ todo = <<>> /\ fresh = FALSE
      /\ file \in Endpoint \cup {None} /\ want = None
      /\ store = [ep |-> None, seen |-> None, enabled |-> None]
      /\ use = Unset /\ last = IF file = None THEN Nothing ELSE file
  BY DEF Init
<1>2. last \in [host : Host \cup {None}, port : Port \cup {None}]
  BY <1>1 DEF Endpoint, Nothing
<1>3. Types /\ SwitchSaved
  BY <1>1, <1>2, NoneIsNoAddress DEF Types, SwitchSaved, Unset
<1>4. InFile \/ InStore
  BY <1>1 DEF InFile, InStore
<1>5. QED
  BY <1>1, <1>3, <1>4 DEF PluginInv, TodoShape, TodoSound

-----------------------------------------------------------------------------
(* Types, whatever changes under an open menu.                             *)

Calls ==
  Edits \cup {Call("loadConfig"), Call("storeLoadEnabled"),
              With("storePut", "ep"), With("storePut", "seen")}

Typed ==
  /\ TypeOK
  /\ store \in [ep : Endpoint \cup {None}, seen : Endpoint \cup {None},
                enabled : BOOLEAN \cup {None}]
  /\ last \in [host : Host \cup {None}, port : Port \cup {None}]
  /\ todo \in Seq(Calls)

\* What runs is a call with its argument, and the others follow.
LEMMA TypedCall ==
  ASSUME Typed, todo # <<>>
  PROVE  /\ Tail(todo) \in Seq(Calls) /\ power
         /\ Running("storePut") => Argument \in {"ep", "seen"}
         /\ Running("onEnabledChanged") => Argument \in BOOLEAN
         /\ Running("onServerIpChanged") => Argument \in Host
         /\ Running("onServerPortChanged") => Argument \in Port
<1>1. Head(todo) \in Calls /\ Tail(todo) \in Seq(Calls)
  BY HeadTailProperties DEF Typed
<1>2. QED
  BY <1>1 DEF Calls, Edits, Call, With, Running, Argument, Typed, TypeOK

\* Reading the configuration keeps the types,
LEMMA TypedLoadConfig ==
  ASSUME Typed, LoadConfig
  PROVE  Typed'
<1>1. /\ Tail(todo) \in Seq(Calls) /\ power /\ todo # <<>>
      /\ UNCHANGED <<power, api, menu, file, store, enabled, last, want, fresh>>
  BY TypedCall DEF LoadConfig, Running, people
<1>2. /\ Adoption \in Seq(Calls) /\ <<Call("storeLoadEnabled")>> \in Seq(Calls)
  BY DEF Adoption, Calls
<1>3. todo' \in Seq(Calls)
  <2>1. Adoption \o <<Call("storeLoadEnabled")>> \in Seq(Calls)
    BY <1>2, ConcatProperties
  <2>2. CASE todo' = Adoption \o <<Call("storeLoadEnabled")>> \o Tail(todo)
    BY <1>1, <2>1, <2>2, ConcatProperties
  <2>3. CASE todo' = <<Call("storeLoadEnabled")>> \o Tail(todo)
    BY <1>1, <1>2, <2>3, ConcatProperties
  <2>4. QED
    BY <2>2, <2>3 DEF LoadConfig
<1>4. use' \in [ep : Endpoint, src : {"txt", "menu", "default"}] /\ (use'.src = "default" => use'.ep = Default)
  <2>1. file # None => file \in Endpoint
    BY DEF Typed, TypeOK
  <2>2. Stored("ep") # None => Stored("ep") \in Endpoint
    BY DEF Typed, Stored
  <2>3. Default \in Endpoint
    BY PluginAssumption DEF Default, Endpoint
  <2>4. QED
    <3>1. \/ file # None /\ use' = [ep |-> file, src |-> "txt"]
          \/ Stored("ep") # None /\ use' = [ep |-> Stored("ep"), src |-> "menu"]
          \/ use' = Unset
      BY DEF LoadConfig, TxtChanged
    <3>2. QED
      BY <2>1, <2>2, <2>3, <3>1 DEF Unset
<1>5. QED
  BY <1>1, <1>3, <1>4 DEF Typed, TypeOK

\* so do the calls that write one setting and the switch of the menu,
LEMMA TypedStoreAndSwitch ==
  ASSUME Typed, StorePut \/ StoreLoadEnabled \/ OnEnabledChanged
  PROVE  Typed'
<1>1. Tail(todo) \in Seq(Calls) /\ power /\ todo # <<>>
  BY TypedCall DEF StorePut, StoreLoadEnabled, OnEnabledChanged, Running
<1>2. CASE StorePut
  <2>1. Argument \in {"ep", "seen"}
    BY <1>1, <1>2, TypedCall DEF StorePut
  <2>2. store' \in [ep : Endpoint \cup {None}, seen : Endpoint \cup {None},
                    enabled : BOOLEAN \cup {None}]
    BY <1>2, <2>1 DEF StorePut, Put, Typed, TypeOK
  <2>3. QED
    BY <1>1, <1>2, <2>2 DEF StorePut, people, Typed, TypeOK
<1>3. CASE StoreLoadEnabled
  BY <1>1, <1>3 DEF StoreLoadEnabled, Stored, people, Typed, TypeOK
<1>4. CASE OnEnabledChanged
  <2>1. Argument \in BOOLEAN
    BY <1>1, <1>4, TypedCall DEF OnEnabledChanged
  <2>2. store' \in [ep : Endpoint \cup {None}, seen : Endpoint \cup {None},
                    enabled : BOOLEAN \cup {None}]
    BY <1>4, <2>1 DEF OnEnabledChanged, Put, Typed, TypeOK
  <2>3. QED
    BY <1>1, <1>4, <2>1, <2>2 DEF OnEnabledChanged, people, Typed, TypeOK
<1>5. QED
  BY <1>2, <1>3, <1>4

\* an edit of the host or of the port,
LEMMA TypedEdit ==
  ASSUME Typed, OnServerIpChanged \/ OnServerPortChanged
  PROVE  Typed'
<1>1. PICK half \in {"host", "port"} :
        /\ Edit(half, Argument)
        /\ Argument \in IF half = "host" THEN Host ELSE Port
        /\ Tail(todo) \in Seq(Calls) /\ power
  BY TypedCall DEF OnServerIpChanged, OnServerPortChanged, Running
<1>2. use'.ep \in Endpoint /\ use' = [ep |-> use'.ep, src |-> "menu"]
  BY <1>1 DEF Edit, Typed, TypeOK, Endpoint
<1>3. store' \in [ep : Endpoint \cup {None}, seen : Endpoint \cup {None},
                  enabled : BOOLEAN \cup {None}]
  BY <1>1, <1>2 DEF Edit, Put, Typed
<1>4. last' \in [host : Host \cup {None}, port : Port \cup {None}]
  BY <1>1 DEF Edit, Typed
<1>5. QED
  BY <1>1, <1>2, <1>3, <1>4 DEF Edit, people, Typed, TypeOK

\* what calls loadConfig,
LEMMA TypedStarts ==
  ASSUME Typed, Boot \/ AppStart \/ ConfigMenuOpened
  PROVE  Typed'
<1>1. <<Call("loadConfig")>> \in Seq(Calls)
  BY DEF Calls
<1>2. /\ todo' \in Seq(Calls) /\ power' = TRUE
      /\ api' \in BOOLEAN /\ menu' \in BOOLEAN
      /\ UNCHANGED <<file, store, use, enabled, last, want, fresh>>
  BY <1>1 DEF Boot, AppStart, ConfigMenuOpened, Idle, people, Typed, TypeOK
<1>3. QED
  BY <1>2 DEF Typed, TypeOK

\* the menu as it closes, with the changes it still holds,
LEMMA TypedMenuClosed ==
  ASSUME Typed, ConfigMenuClosed
  PROVE  Typed'
<1>1. PICK switch \in Changed("onEnabledChanged", enabled, BOOLEAN),
           ip \in Changed("onServerIpChanged", use.ep.host, Host),
           port \in Changed("onServerPortChanged", use.ep.port, Port) :
        todo' = switch \o ip \o port \o <<Call("loadConfig")>>
  BY DEF ConfigMenuClosed
<1>2. <<>> \in Seq(Calls) /\ \A x \in Calls : <<x>> \in Seq(Calls)
  OBVIOUS
<1>3. switch \in Seq(Calls) /\ ip \in Seq(Calls) /\ port \in Seq(Calls)
  BY <1>1, <1>2 DEF Changed, Calls, Edits
<1>4. switch \o ip \in Seq(Calls)
  BY <1>3, ConcatProperties
<1>5. switch \o ip \o port \in Seq(Calls)
  BY <1>3, <1>4, ConcatProperties
<1>6. <<Call("loadConfig")>> \in Seq(Calls)
  BY <1>2 DEF Calls
<1>7. todo' \in Seq(Calls)
  BY <1>1, <1>5, <1>6, ConcatProperties
<1>8. /\ power' = TRUE /\ api' \in BOOLEAN /\ menu' \in BOOLEAN
      /\ UNCHANGED <<file, store, use, enabled, last, want, fresh>>
  BY DEF ConfigMenuClosed, Idle, people, Typed, TypeOK
<1>9. QED
  BY <1>7, <1>8 DEF Typed, TypeOK

\* and what the plugin does not do: the card, its files, the power.
LEMMA TypedOutside ==
  ASSUME Typed, StorageUp \/ DeleteFile \/ PowerLoss \/ \E v \in Endpoint : EditFile(v)
  PROVE  Typed'
<1>1. CASE StorageUp
  BY <1>1 DEF StorageUp, people, Typed, TypeOK
<1>2. CASE DeleteFile
  BY <1>2 DEF DeleteFile, people, Typed, TypeOK
<1>3. CASE PowerLoss
  <2>1. <<>> \in Seq(Calls) /\ Default \in Endpoint
    BY PluginAssumption DEF Default, Endpoint
  <2>2. QED
    BY <1>3, <2>1 DEF PowerLoss, Unset, people, Typed, TypeOK
<1>4. ASSUME NEW v \in Endpoint, EditFile(v)
      PROVE  Typed'
  <2>1. v.host \in Host /\ v.port \in Port /\ v \in [host : Host \cup {None}, port : Port \cup {None}]
    BY DEF Endpoint
  <2>2. /\ file' = v /\ last' = v /\ fresh' = FALSE
        /\ UNCHANGED <<power, api, menu, store, use, enabled, todo, want>>
    BY <1>4 DEF EditFile
  <2>3. QED
    BY <2>1, <2>2 DEF Typed, TypeOK
<1>5. QED
  BY <1>1, <1>2, <1>3, <1>4

-----------------------------------------------------------------------------
(* The theorems.                                                           *)

\* Whatever writes a power loss cuts short, the file or the storage holds what
\* was edited last, and what the storage holds of the switch is its last save.
THEOREM PluginInvariant ==
  ASSUME ~OpenMenuChanges
  PROVE  Spec => []PluginInv
<1>1. PluginInv /\ [Next]_vars => PluginInv'
  BY PluginInvStep
<1>2. QED
  BY <1>1, PluginInvInit, PTL DEF Spec

\* Once loaded from a storage that answers, the address in use is what was
\* edited last, in the file or in the menu (loadConfig, LAST EDIT WINS).
THEOREM LastEditAlwaysWins ==
  ASSUME ~OpenMenuChanges
  PROVE  Spec => []LastEditWins
<1>1. PluginInv => LastEditWins
  <2> SUFFICES ASSUME PluginInv, fresh, NEW half \in {"host", "port"}
               PROVE  last[half] \in {None, use.ep[half]}
    BY DEF LastEditWins
  <2>1. In(use.ep)
    BY DEF PluginInv
  <2>2. CASE half = "host"
    BY <2>1, <2>2 DEF In
  <2>3. CASE half = "port"
    BY <2>1, <2>3 DEF In
  <2>4. QED
    BY <2>2, <2>3
<1>2. QED
  BY <1>1, PluginInvariant, PTL

\* The switch is what it was last saved as, whenever the storage has answered.
THEOREM SwitchIsKept ==
  ASSUME ~OpenMenuChanges
  PROVE  Spec => []SwitchKept
<1>1. PluginInv => SwitchKept
  BY DEF PluginInv, SwitchSaved, SwitchKept
<1>2. QED
  BY <1>1, PluginInvariant, PTL

\* Every variable of the plugin keeps its type, an address in use that nobody
\* set is the default, and no call is under way with the power off.
THEOREM PluginIsTyped == Spec => []TypeOK
<1>1. Init => Typed
  <2> SUFFICES ASSUME Init
               PROVE  Typed
    OBVIOUS
  <2>1. <<>> \in Seq(Calls) /\ Default \in Endpoint
    BY PluginAssumption DEF Default, Endpoint
  <2>2. last \in [host : Host \cup {None}, port : Port \cup {None}]
    BY DEF Init, Endpoint, Nothing
  <2>3. QED
    BY <2>1, <2>2 DEF Init, Unset, Typed, TypeOK
<1>2. Typed /\ [Next]_vars => Typed'
  <2> SUFFICES ASSUME Typed, [Next]_vars
               PROVE  Typed'
    OBVIOUS
  <2>1. CASE UNCHANGED vars
    BY <2>1 DEF vars, people, Typed, TypeOK
  <2>2. QED
    BY <2>1, TypedLoadConfig, TypedStoreAndSwitch, TypedEdit, TypedStarts, TypedMenuClosed,
       TypedOutside DEF Next
<1>3. Typed => TypeOK
  BY DEF Typed
<1>4. QED
  BY <1>1, <1>2, <1>3, PTL DEF Spec

-----------------------------------------------------------------------------
(* The launcher's update.                                                  *)

Worker == {"downloading", "extracting", "recording", "recorded"}

\* UpdateTypeOK, and what a phase says of the rest.
PhasesFit ==
  /\ UpdateTypeOK
  /\ offered \/ phase \in Worker => tag \in Release
  /\ phase = "extracting" => bundled
  /\ phase = "recording" /\ writing # Unopened => writing = Version
  /\ helper = "renaming" => phase = "closed"

\* Where the new version of a file ends up.
Final(f) == IF f = Exe THEN staged ELSE disk[f]

\* All that is not left, open or skipped has been written; version.txt in the
\* end, skipped or not.
Written ==
  /\ bundled /\ phase \in {"extracting", "recording", "recorded"} =>
       \A f \in Bundle \ (skipped \cup left \cup {writing}) : Final(f) = tag
  /\ phase = "recorded" => disk[Version] = tag

\* No file is of a later release than r.
UpTo(r) == staged <= r /\ \A f \in Bundle : disk[f] <= r

\* A folder no update has touched yet, which alone may be newer than the latest
\* release.
Unpacked == staged = Broken /\ \E r \in Release : \A f \in Bundle : disk[f] = r

\* What can still be written is no older than what is there.
NotOlder ==
  /\ tag <= latest
  /\ (phase # "closed" /\ offered) \/ phase \in Worker => UpTo(tag)
  /\ UpTo(latest) \/ Unpacked
  /\ helper # "none" => UpTo(latest)

UpdateInv == PhasesFit /\ Written /\ NotOlder

USE DEF Worker

\* What is known before a step.
LEMMA UpdateTypes ==
  ASSUME UpdateInv
  PROVE  /\ MaxRelease \in Nat /\ Broken \notin Release /\ Release \subseteq Nat
         /\ Broken \in Nat /\ latest \in Nat /\ tag \in Nat /\ staged \in Nat
         /\ \A f \in Bundle : disk[f] \in Nat
         /\ {Exe, Version} \subseteq Bundle /\ Exe # Version /\ Unopened \notin Bundle
         /\ Programs \subseteq Bundle /\ Exe \notin Programs /\ Version \notin Programs
BY LauncherAssumption, UnopenedAssumption
   DEF UpdateInv, PhasesFit, UpdateTypeOK, Release, Broken, Bundle

\* The launcher starts with nothing under way.
LEMMA UpdateInvInit == UpdateInit => UpdateInv
<1> SUFFICES ASSUME UpdateInit
             PROVE  UpdateInv
  OBVIOUS
<1>1. PICK r \in Release : disk = [f \in Bundle |-> r] /\ extracted = {r}
  BY DEF UpdateInit
<1>2. Release \subseteq Nat /\ Broken \in Nat /\ \A n \in Nat : Broken <= n
  BY LauncherAssumption DEF Release, Broken
<1>3. PhasesFit
  BY <1>1 DEF UpdateInit, PhasesFit, UpdateTypeOK
<1>4. NotOlder
  BY <1>1, <1>2 DEF UpdateInit, NotOlder, Unpacked
<1>5. QED
  BY <1>3, <1>4 DEF UpdateInit, UpdateInv, Written

\* The launcher starts: an update is offered if the release is newer than what
\* version.txt names, or if a crash left it unreadable, after an update.
LEMMA OpenStep ==
  ASSUME UpdateInv, Open
  PROVE  UpdateInv'
<1>1. /\ phase' = "idle" /\ tag' \in {latest, Broken} /\ bundled' \in BOOLEAN
      /\ offered' = IsNewer(tag', disk[Version]) /\ phase = "closed"
      /\ UNCHANGED <<latest, running, disk, staged, extracted, left, writing, skipped, helper>>
      /\ helper # "renaming"
  BY DEF Open, world, files
<1>2. PhasesFit'
  BY <1>1 DEF UpdateInv, PhasesFit, UpdateTypeOK, IsNewer
<1>3. offered' => UpTo(tag)'
  <2> SUFFICES ASSUME offered'
               PROVE  UpTo(tag)'
    OBVIOUS
  <2>1. tag' = latest /\ (disk[Version] = Broken \/ latest > disk[Version])
    BY <1>1 DEF IsNewer
  <2>2. CASE UpTo(latest)
    BY <1>1, <2>1, <2>2 DEF UpTo
  <2>3. CASE Unpacked
    <3>1. PICK r \in Release : \A f \in Bundle : disk[f] = r
      BY <2>3 DEF Unpacked
    <3>2. r <= latest
      BY <2>1, <3>1, UpdateTypes
    <3>3. QED
      BY <1>1, <2>1, <2>3, <3>1, <3>2, UpdateTypes DEF Unpacked, UpTo, Broken
  <2>4. QED
    BY <2>2, <2>3 DEF UpdateInv, NotOlder
<1>4. NotOlder'
  BY <1>1, <1>3, UpdateTypes DEF UpdateInv, NotOlder, UpTo, Unpacked, Broken
<1>5. QED
  BY <1>1, <1>2, <1>4 DEF UpdateInv, Written

\* The worker starts, fails, has the bundle, ends; the window is closed or the
\* power goes; programs come and go: no file is touched.
LEMMA DoUpdateStep ==
  ASSUME UpdateInv, DoUpdate
  PROVE  UpdateInv'
BY DEF DoUpdate, world, files, checked, UpdateInv, PhasesFit, UpdateTypeOK, Written, NotOlder,
       UpTo, Unpacked

\* A failed update leaves the files as they are.
LEMMA UpdateFailsStep ==
  ASSUME UpdateInv, UpdateFails
  PROVE  UpdateInv'
BY DEF UpdateFails, world, files, checked, UpdateInv, PhasesFit, UpdateTypeOK, Written, NotOlder,
       UpTo, Unpacked

\* A download touches no file,
LEMMA DownloadedStep ==
  ASSUME UpdateInv, Downloaded
  PROVE  UpdateInv'
BY DEF Downloaded, world, files, checked, UpdateInv, PhasesFit, UpdateTypeOK, Written, NotOlder,
       UpTo, Unpacked

\* nor does the end of the extraction.
LEMMA ExtractedStep ==
  ASSUME UpdateInv, Extracted
  PROVE  UpdateInv'
BY DEF Extracted, world, files, checked, UpdateInv, PhasesFit, UpdateTypeOK, Written, NotOlder,
       UpTo, Unpacked, Final

\* An update that finishes has written every member or skipped it.
\* An update that is over is handed to the helper, or done.
LEMMA FinishStep ==
  ASSUME UpdateInv, Finish
  PROVE  UpdateInv'
<1>1. UpTo(latest)
  BY UpdateTypes DEF Finish, UpdateInv, NotOlder, UpTo
<1>2. QED
  BY <1>1 DEF Finish, world, files, checked, UpdateInv, PhasesFit, UpdateTypeOK, Written, NotOlder,
         UpTo, Unpacked

\* A launcher that is closed, or loses its power, leaves the phase behind.
\* A launcher that is closed, or loses its power, leaves the files as they are.
LEMMA CloseStep ==
  ASSUME UpdateInv, Close \/ PowerCut
  PROVE  UpdateInv'
BY DEF Close, PowerCut, world, files, checked, UpdateInv, PhasesFit, UpdateTypeOK, Written,
       NotOlder, UpTo, Unpacked

\* Programs that start and stop hold files, and change none.
LEMMA ProgramStep ==
  ASSUME UpdateInv, NEW f \in Programs, StartProgram(f) \/ StopProgram(f)
  PROVE  UpdateInv'
BY DEF StartProgram, StopProgram, files, checked, UpdateInv, PhasesFit, UpdateTypeOK, Written,
       NotOlder, UpTo, Unpacked, Final

\* A later release is out.
LEMMA PublishStep ==
  ASSUME UpdateInv, Publish
  PROVE  UpdateInv'
<1>1. /\ latest' = latest + 1 /\ latest' \in Release
      /\ UNCHANGED <<running, disk, staged, extracted, tag, bundled, phase, offered, left,
                     writing, skipped, helper>>
  BY LauncherAssumption DEF Publish, files, checked, UpdateInv, PhasesFit, UpdateTypeOK, Release
<1>2. PhasesFit' /\ Written'
  BY <1>1 DEF UpdateInv, PhasesFit, UpdateTypeOK, Written, Final
<1>3. \A n \in Nat : n <= latest => n <= latest'
  BY <1>1, UpdateTypes
<1>4. (UpTo(latest) => UpTo(latest)') /\ tag' <= latest'
  BY <1>1, <1>3, UpdateTypes DEF UpTo, UpdateInv, NotOlder
<1>5. NotOlder'
  BY <1>1, <1>4 DEF UpdateInv, NotOlder, UpTo, Unpacked
<1>6. QED
  BY <1>2, <1>5 DEF UpdateInv

\* A file is opened for writing: only that one is lost.
LEMMA TruncateStep ==
  ASSUME UpdateInv, NEW f \in Bundle, f \notin running, Truncate(f), writing = Unopened,
         left' \subseteq left, left \ left' \subseteq {f}, UNCHANGED running,
         phase = "extracting" \/ (phase = "recording" /\ f = Version)
  PROVE  UpdateInv'
<1>1. /\ writing' = f
      /\ UNCHANGED <<latest, running, extracted, tag, bundled, phase, offered, skipped, helper>>
  BY DEF Truncate, world, checked
<1>2. \/ f = Exe /\ staged' = Broken /\ UNCHANGED disk
      \/ f # Exe /\ disk' = [disk EXCEPT ![f] = Broken] /\ UNCHANGED staged
  BY DEF Truncate
<1>3. staged' \in {staged, Broken} /\ \A g \in Bundle : disk'[g] \in {disk[g], Broken}
  BY <1>2 DEF UpdateInv, PhasesFit, UpdateTypeOK
<1>4. \A g \in Bundle \ {f} : Final(g)' = Final(g) /\ disk'[g] = disk[g]
  BY <1>2, UpdateTypes DEF Final, UpdateInv, PhasesFit, UpdateTypeOK
<1>5. PhasesFit'
  <2>1. disk' \in [Bundle -> Release \cup {Broken}] /\ staged' \in Release \cup {Broken}
    BY <1>2 DEF UpdateInv, PhasesFit, UpdateTypeOK
  <2>2. running' \subseteq {g \in Programs : disk'[g] # Broken}
    BY <1>1, <1>4, UpdateTypes DEF UpdateInv, PhasesFit, UpdateTypeOK
  <2>3. left' \subseteq Bundle /\ (left' # {} => phase' = "extracting")
    BY <1>1 DEF UpdateInv, PhasesFit, UpdateTypeOK
  <2>4. QED
    BY <1>1, <2>1, <2>2, <2>3 DEF UpdateInv, PhasesFit, UpdateTypeOK
<1>6. Written'
  BY <1>1, <1>4, UpdateTypes DEF UpdateInv, Written
<1>7. \A n \in Nat : UpTo(n) => UpTo(n)'
  BY <1>3, UpdateTypes DEF UpTo, Broken
<1>8. UpTo(tag)' /\ UpTo(latest)'
  BY <1>1, <1>7, UpdateTypes DEF UpdateInv, NotOlder, UpTo
<1>9. QED
  BY <1>1, <1>5, <1>6, <1>8 DEF UpdateInv, NotOlder

\* A member that is denied is skipped as it is: untouched, or truncated if it
\* was open.
LEMMA DeniedStep ==
  ASSUME UpdateInv, NEW f \in Bundle, Denied(f), phase = "extracting",
         writing \in {Unopened, f}, left' \subseteq left, left \ left' \subseteq {f}
  PROVE  UpdateInv'
<1>1. /\ f # Exe /\ skipped' = skipped \cup {f} /\ writing' = Unopened
      /\ UNCHANGED <<latest, running, disk, staged, extracted, tag, bundled, phase, offered, helper>>
  BY DEF Denied, world, files, checked
<1>2. PhasesFit'
  BY <1>1 DEF UpdateInv, PhasesFit, UpdateTypeOK
<1>3. Written'
  BY <1>1 DEF UpdateInv, Written, Final
<1>4. QED
  BY <1>1, <1>2, <1>3 DEF UpdateInv, NotOlder, UpTo, Unpacked

\* The write to a member is denied.
LEMMA WriteDeniedStep ==
  ASSUME UpdateInv, WriteDenied
  PROVE  UpdateInv'
<1>1. writing \in Bundle
  BY DEF WriteDenied, UpdateInv, PhasesFit, UpdateTypeOK
<1>2. QED
  BY <1>1, DeniedStep DEF WriteDenied

\* A member that is opened is Broken until it is written.
LEMMA OpenMemberStep ==
  ASSUME UpdateInv, NEW f \in Bundle, OpenMember(f)
  PROVE  UpdateInv'
<1>1. f \in left /\ writing = Unopened /\ left' = left \ {f} /\ phase = "extracting"
  BY DEF OpenMember, UpdateInv, PhasesFit, UpdateTypeOK
<1>2. CASE f \notin running /\ Truncate(f)
  BY <1>1, <1>2, TruncateStep DEF Truncate, world
<1>3. CASE Denied(f)
  BY <1>1, <1>3, DeniedStep
<1>4. QED
  BY <1>2, <1>3 DEF OpenMember

\* The version is written by an update that is over.
\* So is version.txt, which nothing runs.
LEMMA WriteVersionStep ==
  ASSUME UpdateInv, WriteVersion
  PROVE  UpdateInv'
<1>1. Version \in Bundle /\ Version \notin running
  BY UpdateTypes DEF UpdateInv, PhasesFit, UpdateTypeOK
<1>2. QED
  BY <1>1, TruncateStep DEF WriteVersion, Truncate, world

\* The open file is written with the release that was offered, which is no
\* older than any file.
LEMMA WriteStep ==
  ASSUME UpdateInv, Write
  PROVE  UpdateInv'
<1>0. PICK f \in Bundle : f = writing
  BY DEF Write, UpdateInv, PhasesFit, UpdateTypeOK
<1>1. /\ writing' = Unopened
      /\ phase' = IF phase = "recording" THEN "recorded" ELSE phase
      /\ UNCHANGED <<latest, running, extracted, tag, bundled, offered, left, skipped, helper>>
      /\ phase \in {"extracting", "recording"} /\ tag \in Release
  BY DEF Write, world, checked, UpdateInv, PhasesFit, UpdateTypeOK
<1>2. \/ f = Exe /\ staged' = tag /\ UNCHANGED disk
      \/ f # Exe /\ disk' = [disk EXCEPT ![f] = tag] /\ UNCHANGED staged
  BY <1>0 DEF Write
<1>3. staged' \in {staged, tag} /\ \A g \in Bundle : disk'[g] \in {disk[g], tag}
  BY <1>2 DEF UpdateInv, PhasesFit, UpdateTypeOK
<1>4. /\ Final(f)' = tag
      /\ \A g \in Bundle \ {f} : Final(g)' = Final(g)
  BY <1>1, <1>2, UpdateTypes DEF Final, UpdateInv, PhasesFit, UpdateTypeOK
<1>5. PhasesFit'
  <2>1. disk' \in [Bundle -> Release \cup {Broken}] /\ staged' \in Release \cup {Broken}
    BY <1>1, <1>2 DEF UpdateInv, PhasesFit, UpdateTypeOK
  <2>2. running' \subseteq {g \in Programs : disk'[g] # Broken}
    BY <1>1, <1>3, UpdateTypes DEF UpdateInv, PhasesFit, UpdateTypeOK
  <2>3. QED
    BY <1>1, <2>1, <2>2 DEF UpdateInv, PhasesFit, UpdateTypeOK
<1>6. Written'
  <2>1. phase' = "recorded" => f = Version /\ disk'[Version] = tag
    BY <1>0, <1>1, <1>2, UpdateTypes DEF UpdateInv, PhasesFit, UpdateTypeOK
  <2>2. QED
    BY <1>0, <1>1, <1>4, <2>1 DEF UpdateInv, Written
<1>7. UpTo(tag)' /\ UpTo(latest)'
  BY <1>1, <1>3, UpdateTypes DEF UpdateInv, NotOlder, UpTo
<1>8. QED
  BY <1>1, <1>5, <1>6, <1>7 DEF UpdateInv, NotOlder

\* The helper deletes the launcher, then renames the staged one.
LEMMA HelperStep ==
  ASSUME UpdateInv, HelperDeletes \/ HelperRenames
  PROVE  UpdateInv'
<1>1. /\ phase = "closed" /\ helper # "none"
      /\ helper' = "renaming" \/ helper' = "none"
      /\ disk' = [disk EXCEPT ![Exe] = disk'[Exe]] /\ disk'[Exe] \in {staged, Broken}
      /\ staged' \in {staged, Broken}
      /\ UNCHANGED <<latest, running, extracted, tag, bundled, phase, offered, left, writing,
                     skipped>>
  BY UpdateTypes
     DEF HelperDeletes, HelperRenames, world, checked, UpdateInv, PhasesFit, UpdateTypeOK
<1>2. \A g \in Bundle : disk'[g] = IF g = Exe THEN disk'[Exe] ELSE disk[g]
  BY <1>1 DEF UpdateInv, PhasesFit, UpdateTypeOK
<1>3. PhasesFit'
  <2>1. disk' \in [Bundle -> Release \cup {Broken}] /\ staged' \in Release \cup {Broken}
    BY <1>1, <1>2 DEF UpdateInv, PhasesFit, UpdateTypeOK
  <2>2. running' \subseteq {g \in Programs : disk'[g] # Broken}
    BY <1>1, <1>2, UpdateTypes DEF UpdateInv, PhasesFit, UpdateTypeOK
  <2>3. QED
    BY <1>1, <2>1, <2>2 DEF UpdateInv, PhasesFit, UpdateTypeOK
<1>4. UpTo(latest)'
  BY <1>1, <1>2, UpdateTypes DEF UpdateInv, NotOlder, UpTo, Broken
<1>5. QED
  BY <1>1, <1>3, <1>4 DEF UpdateInv, NotOlder, Written

\* Every step of the launcher keeps the invariant.
LEMMA UpdateInvStep ==
  ASSUME UpdateInv, [UpdateNext]_updateVars
  PROVE  UpdateInv'
<1>1. CASE UNCHANGED updateVars
  BY <1>1 DEF updateVars, world, files, checked, UpdateInv, PhasesFit, UpdateTypeOK, Written, Final,
              NotOlder, UpTo, Unpacked
<1>2. QED
  BY <1>1, OpenStep, DoUpdateStep, UpdateFailsStep, DownloadedStep, WriteStep, WriteDeniedStep, ExtractedStep,
     WriteVersionStep, FinishStep, HelperStep, CloseStep, PublishStep, OpenMemberStep,
     ProgramStep DEF UpdateNext

-----------------------------------------------------------------------------
(* The folder through an update.                                           *)

\* There is a launcher to run; the helper finds it closed, with one to rename.
Swappable ==
  /\ LauncherKept
  /\ helper # "none" => phase = "closed" /\ staged # Broken
  /\ phase # "closed" => disk[Exe] # Broken

\* Nobody starts the launcher while its file is being replaced.
LEMMA SwappableStep ==
  ASSUME UpdateInv, ~QuickReopen, Swappable, [UpdateNext]_updateVars
  PROVE  Swappable'
<1> USE DEF Swappable, LauncherKept
<1>1. CASE UNCHANGED updateVars
  BY <1>1 DEF updateVars, world, files
<1>2. CASE Open
  BY <1>2 DEF Open, world, files
<1>3. CASE DoUpdate \/ UpdateFails \/ Downloaded
  BY <1>3 DEF DoUpdate, UpdateFails, Downloaded, world, files, UpdateInv, PhasesFit, UpdateTypeOK
<1>4. CASE Write
  <2>1. writing \in Bundle /\ tag # Broken /\ phase # "closed"
    BY <1>4, UpdateTypes DEF Write, UpdateInv, PhasesFit, UpdateTypeOK
  <2>2. disk'[Exe] = disk[Exe] /\ staged' \in {staged, tag} /\ UNCHANGED helper
    BY <1>4, <2>1, UpdateTypes DEF Write, UpdateInv, PhasesFit, UpdateTypeOK
  <2>3. QED
    BY <2>1, <2>2
<1>5. CASE Extracted
  BY <1>5 DEF Extracted, world
<1>6. ASSUME NEW f \in Bundle, Truncate(f), phase # "closed"
      PROVE  Swappable'
  BY <1>6, UpdateTypes DEF Truncate, UpdateInv, PhasesFit, UpdateTypeOK
<1>7. CASE WriteVersion
  BY <1>6, <1>7, UpdateTypes DEF WriteVersion
<1>8. ASSUME NEW f \in Bundle, OpenMember(f)
      PROVE  Swappable'
  BY <1>6, <1>8 DEF OpenMember, Denied, world, files, UpdateInv, PhasesFit, UpdateTypeOK
<1>16. CASE WriteDenied
  BY <1>16 DEF WriteDenied, Denied, world, files
<1>9. CASE Finish
  <2>1. bundled => staged # Broken
    <3>1. phase = "recorded" /\ left = {} /\ writing = Unopened /\ Exe \notin skipped
      BY <1>9 DEF Finish, UpdateInv, PhasesFit, UpdateTypeOK
    <3>2. bundled => Final(Exe) = tag
      BY <3>1, UpdateTypes DEF UpdateInv, Written
    <3>3. QED
      BY <3>1, <3>2, UpdateTypes DEF Final, UpdateInv, PhasesFit
  <2>2. QED
    BY <1>9, <2>1 DEF Finish, world, files
<1>10. CASE HelperDeletes
  BY <1>10 DEF HelperDeletes
<1>11. CASE HelperRenames
  BY <1>11, UpdateTypes DEF HelperRenames, UpdateInv, PhasesFit, UpdateTypeOK
<1>12. CASE Close \/ PowerCut
  BY <1>12 DEF Close, PowerCut, world, files
<1>13. CASE Publish
  BY <1>13 DEF Publish, files
<1>14. ASSUME NEW f \in Programs, StartProgram(f) \/ StopProgram(f)
       PROVE  Swappable'
  BY <1>14 DEF StartProgram, StopProgram, files
<1>15. QED
  BY <1>1, <1>2, <1>3, <1>4, <1>5, <1>7, <1>8, <1>16, <1>9, <1>10, <1>11, <1>12, <1>13, <1>14
     DEF UpdateNext

-----------------------------------------------------------------------------
(* The theorems about the update.                                          *)

\* Through every crash, retry and new release the update keeps its invariant.
THEOREM UpdateInvariant == UpdateSpec => []UpdateInv
<1>1. UpdateInv /\ [UpdateNext]_updateVars => UpdateInv'
  BY UpdateInvStep
<1>2. QED
  BY <1>1, UpdateInvInit, PTL DEF UpdateSpec

\* The types of the updater, with what the phase says of the files being written.
THEOREM UpdateIsTyped == UpdateSpec => []UpdateTypeOK
<1>1. UpdateInv => UpdateTypeOK
  BY DEF UpdateInv, PhasesFit
<1>2. QED
  BY <1>1, UpdateInvariant, PTL

\* The launcher only restarts into a release of which every file has been written
\* that this update was not denied, whatever failed, was cut short or retried
\* before (apply_update_zip, write_version).
THEOREM UpdatesAreComplete == UpdateSpec => []UpdateComplete
<1>1. UpdateInv => UpdateComplete
  <2> SUFFICES ASSUME UpdateInv, phase = "recorded", bundled
               PROVE  /\ staged = tag /\ disk[Version] = tag
                      /\ \A f \in Bundle \ (skipped \cup {Exe}) : disk[f] = tag
    BY DEF UpdateComplete
  <2>1. left = {} /\ writing = Unopened /\ Exe \notin skipped
    BY DEF UpdateInv, PhasesFit, UpdateTypeOK
  <2>2. \A f \in Bundle \ skipped : Final(f) = tag
    BY <2>1, UpdateTypes DEF UpdateInv, Written
  <2>3. QED
    BY <2>1, <2>2, UpdateTypes DEF UpdateInv, Written, Final
<1>2. QED
  BY <1>1, UpdateInvariant, PTL

\* No update overwrites a file by an older one, even though version.txt reads as
\* "unknown", which is older than any release, after a crash at its write.
THEOREM NeverDowngraded == UpdateSpec => []NoDowngrade
<1>1. UpdateInv => NoDowngrade
  BY DEF UpdateInv, NotOlder, UpTo, NoDowngrade
<1>2. QED
  BY <1>1, UpdateInvariant, PTL

\* Unless the launcher is opened again before replace.bat is done, there is a whole
\* launcher in the folder after every step: one to run, or one to rename.
THEOREM LauncherIsKept ==
  ASSUME ~QuickReopen
  PROVE  UpdateSpec => []LauncherKept
<1>1. UpdateInit => Swappable
  BY LauncherAssumption DEF UpdateInit, Swappable, LauncherKept, Release, Broken, Bundle
<1>2. UpdateInv /\ Swappable /\ [UpdateNext]_updateVars => Swappable'
  BY SwappableStep
<1>3. Swappable => LauncherKept
  BY DEF Swappable
<1>4. QED
  BY <1>1, <1>2, <1>3, UpdateInvariant, PTL DEF UpdateSpec
=============================================================================
