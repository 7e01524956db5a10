----------------------------- MODULE ConfigFile -----------------------------
(***************************************************************************)
(* config.json between the GUI, which writes it (gui/app.py), and the      *)
(* daemon, which reads it once, when it starts (core.py); each of them     *)
(* puts a file it cannot read aside.  What a configuration says is left    *)
(* out: a version is a number, and 0 the default values.  Processes die    *)
(* anywhere, the power fails, and somebody may spoil the file by hand.     *)
(***************************************************************************)
EXTENDS Integers

CONSTANTS
    None,               \* no file
    Partial,            \* what a save cut short has written
    Spoilt,             \* what somebody else has written
    VersionsMax         \* bound on the versions saved

ASSUME ConfigFileAssumption ==
    /\ VersionsMax \in Nat \ {0}
    /\ None \notin 0 .. VersionsMax
    /\ Partial \notin (0 .. VersionsMax) \cup {None}
    /\ Spoilt \notin (0 .. VersionsMax) \cup {None, Partial}

Versions == 0 .. VersionsMax
Contents == Versions \cup {None, Partial, Spoilt}

\* Not a JSON object.
Unreadable == {Partial, Spoilt}

VARIABLES
    gui,                \* where the GUI is
    daemon,             \* where the daemon is
    config,             \* self.config of the GUI
    file, bad, tmp,     \* config.json, config.json.bad, config.json.tmp
    synced,             \* the content of the last tmp is on the disk
    disk,               \* what config.json may be after a power failure
    fresh,              \* the next version
    saved               \* history: the last version saved; None: lost since

vars == <<gui, daemon, config, file, bad, tmp, synced, disk, fresh, saved>>

\* Closed, about to put a file aside, at rest, in the steps of _save_config.
GuiStates == {"closed", "aside", "idle", "dump", "sync", "replace"}
DaemonStates == {"down", "aside", "up"}

-----------------------------------------------------------------------------
(* _load_config, of both                                                   *)

\* Mutant: whatever is there is taken.
LoadedAny == file
\* Without a file, or with an unreadable one, the default values.
Loaded == IF file \in Versions THEN file ELSE 0

GuiLoads ==
    /\ gui = "closed"
    /\ gui' = IF file \in Unreadable THEN "aside" ELSE "idle"
    /\ config' = Loaded
    /\ UNCHANGED <<daemon, file, bad, tmp, synced, disk, fresh, saved>>

DaemonLoads ==
    /\ daemon = "down"
    /\ daemon' = IF file \in Unreadable THEN "aside" ELSE "up"
    /\ UNCHANGED <<gui, config, file, bad, tmp, synced, disk, fresh, saved>>

\* What is put aside is what is there by now, if anything is.
PutAside ==
    /\ \/ gui = "aside" /\ gui' = "idle" /\ UNCHANGED daemon
       \/ daemon = "aside" /\ daemon' = "up" /\ UNCHANGED gui
    /\ IF file = None
       THEN UNCHANGED <<file, bad, disk>>
       ELSE bad' = file /\ file' = None /\ disk' = disk \cup {None}
    /\ UNCHANGED <<config, tmp, synced, fresh, saved>>

-----------------------------------------------------------------------------
(* _save_config                                                            *)

\* A change in the GUI or an import; open(tmp, "w") empties the file.  Without the
\* right to write nothing happens.
Open ==
    /\ gui = "idle" /\ gui' = "dump"
    /\ fresh <= VersionsMax
    /\ config' = fresh /\ fresh' = fresh + 1
    /\ tmp' = Partial /\ synced' = FALSE
    /\ UNCHANGED <<daemon, file, bad, disk, saved>>

Dump ==
    /\ gui = "dump" /\ gui' = "sync"
    /\ tmp' = config
    /\ UNCHANGED <<daemon, config, file, bad, synced, disk, fresh, saved>>

\* Mutant: the file is not synchronised.
SyncedNot == FALSE
\* os.fsync
Synced == TRUE

Sync ==
    /\ gui = "sync" /\ gui' = "replace"
    /\ synced' = Synced
    /\ UNCHANGED <<daemon, config, file, bad, tmp, disk, fresh, saved>>

\* The directory is not synchronised: the old name may come back.
Replace ==
    /\ gui = "replace" /\ gui' = "idle"
    /\ file' = tmp /\ tmp' = None
    /\ disk' = disk \cup {IF synced THEN tmp ELSE Partial}
    /\ saved' = config
    /\ UNCHANGED <<daemon, config, bad, synced, fresh>>

-----------------------------------------------------------------------------
(* The world                                                               *)

\* The kernel writes back what it has.
WriteBack ==
    /\ disk' = {file} /\ disk # disk'
    /\ UNCHANGED <<gui, daemon, config, file, bad, tmp, synced, fresh, saved>>

GuiCloses ==
    /\ gui # "closed" /\ gui' = "closed"
    /\ UNCHANGED <<daemon, config, file, bad, tmp, synced, disk, fresh, saved>>

DaemonStops ==
    /\ daemon # "down" /\ daemon' = "down"
    /\ UNCHANGED <<gui, config, file, bad, tmp, synced, disk, fresh, saved>>

\* What the disk had is the last version saved, unless it had none.
PowerFails ==
    /\ gui' = "closed" /\ daemon' = "down"
    /\ file' \in disk /\ disk' = {file'}
    /\ saved' = IF file' \in Versions THEN file' ELSE IF file' = Partial THEN saved ELSE None
    /\ tmp' = None
    /\ UNCHANGED <<config, bad, synced, fresh>>

\* An editor or another tool.
Spoiled ==
    /\ file' = Spoilt /\ disk' = {Spoilt}
    /\ saved' = None
    /\ UNCHANGED <<gui, daemon, config, bad, tmp, synced, fresh>>

Init ==
    /\ gui = "closed" /\ daemon = "down" /\ config = 0
    /\ file = None /\ bad = None /\ tmp = None /\ synced = FALSE /\ disk = {None}
    /\ fresh = 1 /\ saved = None

Next ==
    \/ GuiLoads \/ DaemonLoads \/ PutAside \/ Open \/ Dump \/ Sync \/ Replace
    \/ WriteBack \/ GuiCloses \/ DaemonStops \/ PowerFails \/ Spoiled

Spec == Init /\ [][Next]_vars

-----------------------------------------------------------------------------
(* Properties                                                              *)

TypeOK ==
    /\ gui \in GuiStates /\ daemon \in DaemonStates
    /\ config \in Versions
    /\ file \in Contents /\ bad \in Contents /\ tmp \in Contents
    /\ synced \in BOOLEAN
    /\ disk \in SUBSET Contents /\ disk # {}
    /\ fresh \in 1 .. VersionsMax + 1
    /\ saved \in Versions \cup {None}

\* The last configuration saved is in config.json or, put aside by a process that
\* had read another one, in config.json.bad: whole, whatever dies between two steps
\* of the save, the power included (app.py:92, core.py:173).
KeptSafe == saved # None => saved \in {file, bad}
=============================================================================
