------------------------------ MODULE Launcher ------------------------------
(***************************************************************************)
(* The self-update of the desktop launcher (dist/launcher/launcher.py).    *)
(* It downloads the latest release's bundle and extracts it over its own   *)
(* folder, one file after another, then writes version.txt.  A file it may *)
(* not open or write is skipped: Cemu and the server if they run by then,  *)
(* since a program that runs cannot be overwritten, and any file that is   *)
(* read-only or held by another program, a virus scanner for one.  The     *)
(* launcher itself is staged beside the old one for a helper script,       *)
(* replace.bat, which swaps the two once the launcher exits.               *)
(*                                                                         *)
(* Releases are numbered in order.  A file on disk is known by the release *)
(* it is of; Broken is one missing, or truncated and not yet written, which*)
(* for version.txt reads as "unknown".  Of the bundle, user state is left  *)
(* out: plan_overwrite drops it.  The launcher may be closed, or the power *)
(* go, between any two steps; one launcher runs at a time.                 *)
(***************************************************************************)
EXTENDS Naturals

CONSTANTS
  Programs,      \* Cemu_release.exe and server.exe
  Others,        \* the rest of the bundle
  Exe, Version,  \* the launcher and version.txt
  QuickReopen,   \* may the launcher be opened again before the helper is done?
  MaxRelease     \* bound of the model: the last release there is

ASSUME LauncherAssumption ==
  /\ QuickReopen \in BOOLEAN /\ MaxRelease \in Nat \ {0}
  /\ Exe # Version /\ {Exe, Version} \cap (Programs \cup Others) = {}
  /\ Programs \cap Others = {}

Bundle == Programs \cup Others \cup {Exe, Version}
Release == 1 .. MaxRelease
Broken == 0
Unopened == "none"

ASSUME UnopenedAssumption == Unopened \notin Bundle

VARIABLES
  latest,      \* the latest release on GitHub
  disk,        \* the release each file of the folder is of
  staged,      \* MH3U_Online.exe.new
  running,     \* the programs that run
  phase,       \* the launcher: closed, idle, or where the update worker is
  tag,         \* state["remote_tag"]
  offered,     \* state["update_available"], with an enabled button
  bundled,     \* the bundle is among state["assets"]
  left,        \* the files still to be extracted
  writing,     \* the file opened for writing, or Unopened
  skipped,     \* the files this update was denied
  helper,      \* replace.bat: none, waiting for the exit, or between del and ren
  extracted    \* history: the releases extracted in full

world == <<latest, running>>
files == <<disk, staged, extracted>>
checked == <<tag, bundled>>
updateVars == <<world, files, checked, phase, offered, left, writing, skipped, helper>>

\* A program is never truncated under a running instance, and the launcher's
\* new version is staged, never skipped.
UpdateTypeOK ==
  /\ latest \in Release /\ tag \in Release \cup {Broken}
  /\ disk \in [Bundle -> Release \cup {Broken}] /\ staged \in Release \cup {Broken}
  /\ phase \in {"closed", "idle", "downloading", "extracting", "recording", "recorded", "done"}
  /\ offered \in BOOLEAN /\ bundled \in BOOLEAN /\ helper \in {"none", "waiting", "renaming"}
  /\ left \subseteq Bundle /\ (left # {} => phase = "extracting")
  /\ writing \in Bundle \cup {Unopened}
  /\ writing # Unopened => phase \in {"extracting", "recording"}
  /\ skipped \subseteq Bundle \ {Exe} /\ extracted \subseteq Release
  /\ running \subseteq {f \in Programs : disk[f] # Broken}

\* A folder as unpacked by hand: a release, or a build newer than the latest
UpdateInit ==
  /\ latest \in Release
  /\ \E r \in Release : disk = [f \in Bundle |-> r] /\ extracted = {r}
  /\ staged = Broken /\ running = {} /\ phase = "closed"
  /\ tag = Broken /\ offered = FALSE /\ bundled = FALSE
  /\ left = {} /\ writing = Unopened /\ skipped = {} /\ helper = "none"

-----------------------------------------------------------------------------
(* The launcher's window.                                                  *)

\* A slip of is_newer: any other release is an update
IsNewerIfOther(remote, local) == remote # Broken /\ remote # local

\* is_newer; "unknown" is older than any release
IsNewer(remote, local) == remote # Broken /\ (local = Broken \/ remote > local)

\* The launcher starts, and check_updates asks for the latest release (Broken
\* if offline), whose bundle may not be uploaded yet.
Open ==
  /\ phase = "closed" /\ disk[Exe] # Broken
  /\ helper = "none" \/ (QuickReopen /\ helper = "waiting")
  /\ phase' = "idle"
  /\ tag' \in {latest, Broken} /\ bundled' \in BOOLEAN
  /\ offered' = IsNewer(tag', disk[Version])
  /\ UNCHANGED <<world, files, left, writing, skipped, helper>>

\* do_update: refused while Cemu or the server runs; nothing stops them from
\* being started later.
DoUpdate ==
  /\ phase = "idle" /\ offered /\ running = {}
  /\ phase' = "downloading" /\ offered' = FALSE /\ skipped' = {}
  /\ UNCHANGED <<world, files, checked, left, writing, helper>>

\* An exception of the worker, up to the writing of replace.bat: the button can
\* be pressed again.
UpdateFails ==
  /\ phase \in {"downloading", "extracting", "recording"} \/ (phase = "recorded" /\ bundled)
  /\ phase' = "idle" /\ offered' = TRUE /\ left' = {} /\ writing' = Unopened
  /\ UNCHANGED <<world, files, checked, skipped, helper>>

-----------------------------------------------------------------------------
(* The update worker.                                                      *)

\* download_file, then plan_overwrite; without the bundle neither, but the
\* worker goes on.
Downloaded ==
  /\ phase = "downloading"
  /\ \/ bundled /\ phase' = "extracting" /\ left' = Bundle
     \/ ~bundled /\ phase' = "recording" /\ UNCHANGED left
  /\ UNCHANGED <<world, files, checked, offered, writing, skipped, helper>>

\* Opening a file truncates it; the launcher's own is opened as .new.
Truncate(f) ==
  /\ writing' = f
  /\ \/ f = Exe /\ phase = "extracting" /\ staged' = Broken /\ UNCHANGED disk
     \/ f # Exe /\ disk' = [disk EXCEPT ![f] = Broken] /\ UNCHANGED staged
  /\ UNCHANGED <<world, extracted, checked, phase, offered, skipped, helper>>

\* A PermissionError, "skip (in use)": but for the launcher's own new version,
\* the update goes on with the next member.
Denied(f) ==
  /\ f # Exe /\ skipped' = skipped \cup {f} /\ writing' = Unopened
  /\ UNCHANGED <<world, files, checked, phase, offered, helper>>

\* One member of the zip is opened; a program that runs cannot be, and any
\* other may be denied as well.
OpenMember(f) ==
  /\ f \in left /\ writing = Unopened
  /\ left' = left \ {f}
  /\ Denied(f) \/ (f \notin running /\ Truncate(f))

\* The write to the open member is denied, and leaves it truncated
WriteDenied ==
  /\ phase = "extracting" /\ writing # Unopened
  /\ Denied(writing) /\ UNCHANGED left

\* A slip: the launcher's own new version goes nowhere
WriteForgettingExe ==
  /\ writing # Unopened /\ writing' = Unopened
  /\ disk' = IF writing = Exe THEN disk ELSE [disk EXCEPT ![writing] = tag]
  /\ phase' = IF phase = "recording" THEN "recorded" ELSE phase
  /\ UNCHANGED <<world, staged, extracted, checked, offered, left, skipped, helper>>

\* The open file is written: of the zip, or version.txt at the end
Write ==
  /\ writing # Unopened /\ writing' = Unopened
  /\ \/ writing = Exe /\ staged' = tag /\ UNCHANGED disk
     \/ writing # Exe /\ disk' = [disk EXCEPT ![writing] = tag] /\ UNCHANGED staged
  /\ phase' = IF phase = "recording" THEN "recorded" ELSE phase
  /\ UNCHANGED <<world, extracted, checked, offered, left, skipped, helper>>

\* The end of apply_update_zip, which tells nobody what it skipped
Extracted ==
  /\ phase = "extracting" /\ left = {} /\ writing = Unopened
  /\ phase' = "recording"
  /\ extracted' = IF skipped = {} THEN extracted \cup {tag} ELSE extracted
  /\ UNCHANGED <<world, disk, staged, checked, offered, left, writing, skipped, helper>>

\* write_version opens version.txt
WriteVersion ==
  /\ phase = "recording" /\ writing = Unopened
  /\ Truncate(Version) /\ UNCHANGED left

\* A slip of the worker: the helper is started with nothing staged
FinishSwapping ==
  /\ phase = "recorded" /\ phase' = "closed" /\ helper' = "waiting"
  /\ UNCHANGED <<world, files, checked, offered, left, writing, skipped>>

\* "The launcher will restart", or "Updated": nothing was staged
Finish ==
  /\ phase = "recorded"
  /\ \/ bundled /\ phase' = "closed" /\ helper' = "waiting"
     \/ ~bundled /\ phase' = "done" /\ UNCHANGED helper
  /\ UNCHANGED <<world, files, checked, offered, left, writing, skipped>>

-----------------------------------------------------------------------------
(* The helper, and what happens around the launcher.                       *)

\* replace.bat sees no launcher and deletes it
HelperDeletes ==
  /\ helper = "waiting" /\ phase = "closed"
  /\ disk' = [disk EXCEPT ![Exe] = Broken] /\ helper' = "renaming"
  /\ UNCHANGED <<world, staged, extracted, checked, phase, offered, left, writing, skipped>>

\* replace.bat renames the staged launcher
HelperRenames ==
  /\ helper = "renaming"
  /\ disk' = [disk EXCEPT ![Exe] = staged] /\ staged' = Broken /\ helper' = "none"
  /\ UNCHANGED <<world, extracted, checked, phase, offered, left, writing, skipped>>

\* The window is closed: the worker is a daemon thread
Close ==
  /\ phase # "closed" /\ phase' = "closed" /\ left' = {} /\ writing' = Unopened
  /\ UNCHANGED <<world, files, checked, offered, skipped, helper>>

\* The power goes: only files remain
PowerCut ==
  /\ phase' = "closed" /\ left' = {} /\ writing' = Unopened
  /\ running' = {} /\ helper' = "none"
  /\ UNCHANGED <<latest, files, checked, offered, skipped>>

\* Cemu or the server is started or stopped, by the launcher or by hand
StartProgram(f) ==
  /\ f \in Programs \ running /\ disk[f] # Broken /\ running' = running \cup {f}
  /\ UNCHANGED <<latest, files, checked, phase, offered, left, writing, skipped, helper>>

StopProgram(f) ==
  /\ f \in running /\ running' = running \ {f}
  /\ UNCHANGED <<latest, files, checked, phase, offered, left, writing, skipped, helper>>

Publish ==
  /\ latest < MaxRelease /\ latest' = latest + 1
  /\ UNCHANGED <<running, files, checked, phase, offered, left, writing, skipped, helper>>

UpdateNext ==
  \/ Open \/ DoUpdate \/ UpdateFails \/ Downloaded \/ Write \/ WriteDenied \/ Extracted
  \/ WriteVersion \/ Finish \/ HelperDeletes \/ HelperRenames \/ Close \/ PowerCut \/ Publish
  \/ \E f \in Bundle : OpenMember(f)
  \/ \E f \in Programs : StartProgram(f) \/ StopProgram(f)

UpdateSpec == UpdateInit /\ [][UpdateNext]_updateVars

-----------------------------------------------------------------------------
(* What the updater promises.                                              *)

\* When the launcher is about to restart into a release, every file is of that
\* release but those this update itself was denied and logged as skipped:
\* nothing that failed, was truncated or was skipped by an update before is left
\* over.  The launcher and version.txt are of the release in any case, even if
\* the bundle's version.txt was skipped.
UpdateComplete ==
  phase = "recorded" /\ bundled =>
    /\ staged = tag /\ disk[Version] = tag
    /\ \A f \in Bundle \ (skipped \cup {Exe}) : disk[f] = tag

\* "A local dev/unknown version is never downgraded" (dist/launcher/README.md),
\* where version.txt was there at first: no update overwrites a file by an
\* older one, although version.txt reads as unknown after a crash at its write.
NoDowngrade ==
  phase \in {"extracting", "recording"} =>
    /\ \A f \in Bundle : disk[f] <= tag
    /\ staged <= tag

\* Whatever is cut short, the folder holds a whole launcher: the old one, or
\* the staged one that only has to be renamed.
LauncherKept == disk[Exe] # Broken \/ staged # Broken

\* "version.txt is rewritten last, only after a successful extract"
\* (dist/launcher/README.md): with the bundle at hand and nothing in use, what it
\* names was extracted in full.
VersionRewrittenLast ==
  phase = "closed" /\ bundled /\ skipped = {} => disk[Version] \in {Broken} \cup extracted
=============================================================================
