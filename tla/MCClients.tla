----------------------------- MODULE MCClients ------------------------------
(* PluginConfig and Launcher for TLC.                                        *)
(*                                                                           *)
(* The plugin: the default address and another host and port.  The launcher: *)
(* the server as the program that may be in use, and one other file.         *)
(*                                                                           *)
(* The two run on different machines and share nothing, so a behaviour       *)
(* exercises one of them, its part, while the other stays as it starts.      *)
EXTENDS PluginConfig, Launcher

VARIABLE part   \* what a behaviour exercises

PluginMoves == part = "plugin" /\ Next /\ UNCHANGED <<updateVars, part>>
LauncherMoves == part = "launcher" /\ UpdateNext /\ UNCHANGED <<vars, part>>

\* The part at rest is in one state of its Init: the product of both would
\* only repeat every behaviour.
MCInit ==
  /\ Init /\ UpdateInit /\ part \in {"plugin", "launcher"}
  /\ part = "launcher" => file = None
  /\ part = "plugin" => latest = 1 /\ disk[Exe] = 1

MCSpec == MCInit /\ [][PluginMoves \/ LauncherMoves]_<<vars, updateVars, part>>
=============================================================================
