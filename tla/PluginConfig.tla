---------------------------- MODULE PluginConfig ----------------------------
(***************************************************************************)
(* Where the Wii U plugin (wiiu_plugin/src/main.cpp) sends the game.  The  *)
(* server's address has two editors, a file on the SD card and the menu on *)
(* the console, reconciled by "LAST EDIT WINS": the plugin keeps in its    *)
(* storage the address set last and, of the file, what it last adopted.    *)
(* The switch (gEnabled) is kept in the same storage.                      *)
(*                                                                         *)
(* The storage may not answer yet when the plugin is initialised, and the  *)
(* power may go between any two writes.  One thread runs everything; `todo`*)
(* holds what is left of the call under way, one element for each write.   *)
(*                                                                         *)
(* An address is a host and a port.  A file without a usable line is no    *)
(* file (readTxtConfig returns false for both).                            *)
(***************************************************************************)
EXTENDS Naturals, Sequences

CONSTANTS
  Host, Port, DefaultHost, DefaultPort, None,
  OpenMenuChanges   \* may the file or the storage change under an open menu?

ASSUME PluginAssumption ==
  /\ DefaultHost \in Host /\ DefaultPort \in Port
  /\ None \notin Host \cup Port \cup [host : Host, port : Port]
  /\ OpenMenuChanges \in BOOLEAN

VARIABLES
  power, api,       \* the console is on; gStorageOk, or what it would find
  menu,             \* the configuration menu is open
  file,             \* the address in mh3u_server.txt, or None
  store,            \* what the storage has saved: address, file as adopted, switch
  use, enabled,     \* gHost, gPort and gSource; gEnabled
  todo,             \* what remains of the call under way
  last, want,       \* history: what was last edited, what the switch was last saved as
  fresh             \* history: loaded from a storage that answers, and not edited since

people == <<last, want>>
vars == <<power, api, menu, file, store, use, enabled, todo, people, fresh>>

Endpoint == [host : Host, port : Port]
Default == [host |-> DefaultHost, port |-> DefaultPort]
Unset == [ep |-> Default, src |-> "default"]
Nothing == [host |-> None, port |-> None]

TypeOK ==
  /\ power \in BOOLEAN /\ api \in BOOLEAN /\ menu \in BOOLEAN /\ fresh \in BOOLEAN
  /\ (api \/ menu \/ todo # <<>>) => power
  /\ file \in Endpoint \cup {None}
  /\ store.ep \in Endpoint \cup {None} /\ store.seen \in Endpoint \cup {None}
  /\ store.enabled \in BOOLEAN \cup {None}
  /\ use \in [ep : Endpoint, src : {"txt", "menu", "default"}]
  /\ use.src = "default" => use.ep = Default   \* gHaveEndpoint says "NOT SET"
  /\ enabled \in BOOLEAN /\ want \in BOOLEAN \cup {None}
  /\ last.host \in Host \cup {None} /\ last.port \in Port \cup {None}

Init ==
  /\ power = FALSE /\ api = FALSE /\ menu = FALSE
  /\ file \in Endpoint \cup {None}
  /\ store = [ep |-> None, seen |-> None, enabled |-> None]
  /\ use = Unset /\ enabled = TRUE
  /\ todo = <<>>
  /\ last = IF file = None THEN Nothing ELSE file
  /\ want = None /\ fresh = FALSE

-----------------------------------------------------------------------------
(* The calls of the plugin's thread, each a step or a sequence of steps.   *)

Call(f) == [call |-> f]
With(f, x) == [call |-> f, arg |-> x]

Running(f) == todo # <<>> /\ Head(todo).call = f
Argument == Head(todo).arg

\* Only a storage that answers is read or written
Stored(key) == IF api THEN store[key] ELSE None
Put(key, value) == store' = IF api THEN [store EXCEPT ![key] = value] ELSE store

\* A slip of loadConfig: the file is marked as adopted before it is
AdoptionMarkedFirst == <<With("storePut", "seen"), With("storePut", "ep")>>

\* The two writes of an adoption, in the order that survives a power loss
Adoption == <<With("storePut", "ep"), With("storePut", "seen")>>

TxtChanged == file # None /\ file # Stored("seen")

LoadConfig ==
  /\ Running("loadConfig")
  /\ \/ /\ TxtChanged
        /\ use' = [ep |-> file, src |-> "txt"]
        /\ todo' = Adoption \o <<Call("storeLoadEnabled")>> \o Tail(todo)
     \/ /\ ~TxtChanged
        /\ use' = IF Stored("ep") # None THEN [ep |-> Stored("ep"), src |-> "menu"]
                  ELSE IF file # None THEN [ep |-> file, src |-> "txt"]
                  ELSE Unset
        /\ todo' = <<Call("storeLoadEnabled")>> \o Tail(todo)
  /\ UNCHANGED <<power, api, menu, file, store, enabled, people, fresh>>

StorePut ==
  /\ Running("storePut")
  /\ Put(Argument, file)
  /\ todo' = Tail(todo)
  /\ UNCHANGED <<power, api, menu, file, use, enabled, people, fresh>>

\* Only a value that was saved replaces gEnabled
StoreLoadEnabled ==
  /\ Running("storeLoadEnabled")
  /\ enabled' = IF Stored("enabled") # None THEN Stored("enabled") ELSE enabled
  /\ fresh' = api
  /\ todo' = Tail(todo)
  /\ UNCHANGED <<power, api, menu, file, store, use, people>>

\* A slip: the switch is set but not saved
OnEnabledChangedUnsaved ==
  /\ Running("onEnabledChanged")
  /\ enabled' = Argument
  /\ want' = IF api THEN Argument ELSE want
  /\ todo' = Tail(todo)
  /\ UNCHANGED <<power, api, menu, file, store, use, last, fresh>>

OnEnabledChanged ==
  /\ Running("onEnabledChanged")
  /\ enabled' = Argument
  /\ Put("enabled", Argument)
  /\ want' = IF api THEN Argument ELSE want
  /\ todo' = Tail(todo)
  /\ UNCHANGED <<power, api, menu, file, use, last, fresh>>

\* One half of the address is edited, with the other half as it is
Edit(half, value) ==
  /\ use' = [ep |-> [use.ep EXCEPT ![half] = value], src |-> "menu"]
  /\ Put("ep", use'.ep)
  /\ last' = IF api THEN [last EXCEPT ![half] = value] ELSE last
  /\ fresh' = FALSE
  /\ todo' = Tail(todo)
  /\ UNCHANGED <<power, api, menu, file, enabled, want>>

OnServerIpChanged == Running("onServerIpChanged") /\ Edit("host", Argument)

OnServerPortChanged == Running("onServerPortChanged") /\ Edit("port", Argument)

-----------------------------------------------------------------------------
(* What starts a call.                                                     *)

Idle == power /\ todo = <<>>

\* INITIALIZE_PLUGIN
Boot ==
  /\ ~power /\ power' = TRUE
  /\ api' \in BOOLEAN
  /\ todo' = <<Call("loadConfig")>>
  /\ UNCHANGED <<menu, file, store, use, enabled, people, fresh>>

\* ON_APPLICATION_START, of the game or the system menu
AppStart ==
  /\ Idle /\ ~menu
  /\ todo' = <<Call("loadConfig")>>
  /\ UNCHANGED <<power, api, menu, file, store, use, enabled, people, fresh>>

ConfigMenuOpened ==
  /\ Idle /\ ~menu /\ menu' = TRUE
  /\ todo' = <<Call("loadConfig")>>
  /\ UNCHANGED <<power, api, file, store, use, enabled, people, fresh>>

\* One call for a value that differs from what the menu showed
Changed(f, shown, Values) == {<<>>} \cup {<<With(f, v)>> : v \in Values \ {shown}}

\* The menu closes: its items report, in the order of their rows, what was
\* changed, and then everything is loaded again.
ConfigMenuClosed ==
  /\ Idle /\ menu /\ menu' = FALSE
  /\ \E switch \in Changed("onEnabledChanged", enabled, BOOLEAN),
        ip \in Changed("onServerIpChanged", use.ep.host, Host),
        port \in Changed("onServerPortChanged", use.ep.port, Port) :
       todo' = switch \o ip \o port \o <<Call("loadConfig")>>
  /\ UNCHANGED <<power, api, file, store, use, enabled, people, fresh>>

-----------------------------------------------------------------------------
(* The console and the SD card.                                            *)

Undisturbed == todo = <<>> /\ (OpenMenuChanges \/ ~menu)

\* The storage API, late at initialisation, answers from now on
StorageUp ==
  /\ power /\ ~api /\ Undisturbed
  /\ api' = TRUE
  /\ UNCHANGED <<power, menu, file, store, use, enabled, todo, people, fresh>>

\* The file is edited, in a PC or over the network.  Writing back what the
\* plugin adopted last is no edit that it could notice.
EditFile(v) ==
  /\ Undisturbed /\ v \notin {file, store.seen}
  /\ file' = v
  /\ last' = v /\ fresh' = FALSE
  /\ UNCHANGED <<power, api, menu, store, use, enabled, todo, want>>

\* "Once an address has been set on-console the file can be deleted": not an edit
DeleteFile ==
  /\ Undisturbed /\ file # None /\ file = store.seen
  /\ file' = None
  /\ UNCHANGED <<power, api, menu, store, use, enabled, todo, people, fresh>>

\* Power goes, or the console is switched off, at any point: only the SD card
\* and what was saved remain.
PowerLoss ==
  /\ power /\ power' = FALSE
  /\ api' = FALSE /\ menu' = FALSE /\ todo' = <<>>
  /\ use' = Unset /\ enabled' = TRUE /\ fresh' = FALSE
  /\ UNCHANGED <<file, store, people>>

Next ==
  \/ LoadConfig \/ StorePut \/ StoreLoadEnabled
  \/ OnEnabledChanged \/ OnServerIpChanged \/ OnServerPortChanged
  \/ Boot \/ AppStart \/ ConfigMenuOpened \/ ConfigMenuClosed
  \/ StorageUp \/ DeleteFile \/ PowerLoss
  \/ \E v \in Endpoint : EditFile(v)

Spec == Init /\ [][Next]_vars

-----------------------------------------------------------------------------
(* What the plugin promises.                                               *)

\* "The two are reconciled by LAST EDIT WINS": once loaded from a storage that
\* answers, each half of the address in use is what was last put there, in the
\* file or in the menu, through every power loss, however late the storage
\* was, whether or not the file is still there.  An edit that the menu could
\* not save ("Settings saved on console: NO") does not count as one.
LastEditWins ==
  fresh => \A half \in {"host", "port"} : last[half] \in {None, use.ep[half]}

\* The switch is what it was last saved as, whenever the storage has answered:
\* no restart, adoption of a file or edit of the address brings it back.
SwitchKept == fresh /\ want # None => enabled = want
=============================================================================
