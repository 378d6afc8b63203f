------------------------------ MODULE AppConfig ------------------------------
(***************************************************************************)
(* The settings file: how it is saved, backed up, loaded and restored, and *)
(* what a crash, a full disk or a file in use does to it.  Translated from *)
(* libslic3r/AppConfig.cpp, with copy_file() and rename_file() of          *)
(* libslic3r/utils.cpp and their start in slic3r/GUI/GUI_App.cpp.          *)
(*                                                                         *)
(* Settings are told by a number, that of the save that wrote them; 0 are  *)
(* the defaults.  A file is whole, short (what was not written is missing) *)
(* or nulls (the file system did not come to write its blocks).            *)
(***************************************************************************)
EXTENDS Naturals

CONSTANTS
    MaxSaves,   \* bound: how many saves are begun
    MaxFaults   \* bound: how many crashes and failures there are

ASSUME AppConfigAssumption == MaxSaves \in Nat /\ MaxFaults \in Nat

VARIABLES
    windows,    \* WIN32: never changes
    disk,       \* the files
    pc,         \* where the main thread is; "off": there is no process
    config,     \* the settings in memory
    m_dirty,
    saves,      \* history: the last save that was begun
    saved,      \* history: what the file was last seen to hold, 0 for nothing
    unbacked,   \* history: a failure left no whole copy to fall back upon
    faults

hist == <<saves, saved, unbacked, faults>>
vars == <<windows, disk, pc, config, m_dirty, hist>>

None == [v |-> 0, state |-> "none"]
Content == [v : 0 .. MaxSaves, state : {"whole", "short", "nulls"}] \cup {None}

Whole(content) == content.state = "whole"
Settings(v) == [v |-> v, state |-> "whole"]

\* path_pid is named after the process: what another one left is not used.
Files == {"path", "path.tmp", "path_pid", "bak", "bak.tmp"}

Windows == {"copy", "rename_backup", "restore", "rename_restored", "reread"}

\* There is no backup but on Windows, and what is not dirty is on its way to the
\* file.
TypeOK ==
    /\ windows \in BOOLEAN
    /\ disk \in [Files -> Content]
    /\ pc \in {"off", "running", "write", "remove", "rename"} \cup Windows
    /\ config \in [v : 0 .. MaxSaves, state : {"whole", "short"}]
    /\ m_dirty \in BOOLEAN
    /\ saves \in 0 .. MaxSaves /\ saved \in 0 .. saves
    /\ unbacked \in BOOLEAN
    /\ faults \in 0 .. MaxFaults
    /\ ~windows => /\ pc \notin Windows
                   /\ disk["bak"] = None /\ disk["bak.tmp"] = None

Init ==
    /\ windows \in BOOLEAN
    /\ disk = [f \in Files |-> None]
    /\ pc = "off"
    /\ config = Settings(0)
    /\ m_dirty = FALSE
    /\ saves = 0 /\ saved = 0 /\ unbacked = FALSE /\ faults = 0

Fault == faults < MaxFaults /\ faults' = faults + 1

\* The files once from has replaced to.
Moved(from, to) == [disk EXCEPT ![to] = disk[from], ![from] = None]

-----------------------------------------------------------------------------
(* Loading, at the start.                                                  *)

Loaded(content) ==
    /\ config' = content
    /\ m_dirty' = FALSE
    /\ saved' = content.v
    /\ pc' = "running"
    /\ UNCHANGED <<windows, saves, unbacked, faults>>

\* Without a file there are the defaults, which are dirty, and the wizard.
StartFresh ==
    /\ pc = "off"
    /\ disk["path"] = None
    /\ config' = Settings(0)
    /\ m_dirty' = TRUE
    /\ pc' = "running"
    /\ saved' = 0
    /\ disk' = [disk EXCEPT !["path_pid"] = None]
    /\ UNCHANGED <<windows, saves, unbacked, faults>>

\* The text that is there is parsed.
Load ==
    /\ pc = "off"
    /\ disk["path"].state \in {"whole", "short"}
    /\ Loaded(disk["path"])
    /\ disk' = [disk EXCEPT !["path_pid"] = None]

\* Nulls on Windows, or a line that was cut off: the backup is looked at.
\* Without one the program does not start.
LoadFails ==
    /\ pc = "off"
    /\ disk["path"].state \in {"short", "nulls"}
    /\ pc' = IF Whole(disk["bak"]) THEN "restore" ELSE "off"
    /\ disk' = [disk EXCEPT !["path_pid"] = None,
                            !["bak"] = IF Whole(disk["bak"]) THEN @ ELSE None]
    /\ UNCHANGED <<windows, config, m_dirty, hist>>

\* copy_file(backup_path, path): path.tmp is written, then renamed.
Restore ==
    /\ pc = "restore"
    /\ disk' = [disk EXCEPT !["path.tmp"] = disk["bak"]]
    /\ pc' = "rename_restored"
    /\ UNCHANGED <<windows, config, m_dirty, hist>>

RenameRestored ==
    /\ pc = "rename_restored"
    /\ disk' = Moved("path.tmp", "path")
    /\ pc' = "reread"
    /\ UNCHANGED <<windows, config, m_dirty, hist>>

Reread ==
    /\ pc = "reread"
    /\ Loaded(disk["path"])
    /\ UNCHANGED disk

\* Either step of copy_file() fails: the backup is removed, the program ends.
RestoreFails ==
    /\ pc \in {"restore", "rename_restored"}
    /\ Fault
    /\ disk' = [disk EXCEPT !["bak"] = None]
    /\ pc' = "off"
    /\ unbacked' = TRUE
    /\ UNCHANGED <<windows, config, m_dirty, saves, saved>>

\* "Try to manually delete the file to recover from the error."
UserDeletes ==
    /\ pc = "off"
    /\ disk["path"].state \in {"short", "nulls"}
    /\ disk' = [disk EXCEPT !["path"] = None]
    /\ saved' = 0
    /\ UNCHANGED <<windows, pc, config, m_dirty, saves, unbacked, faults>>

-----------------------------------------------------------------------------
(* Saving.                                                                 *)

Set ==
    /\ pc = "running" /\ ~m_dirty
    /\ m_dirty' = TRUE
    /\ UNCHANGED <<windows, disk, pc, config, hist>>

\* Mutant: no backup is made.
MutNoBackup == IF windows THEN "rename" ELSE "remove"

AfterWrite == IF windows THEN "copy" ELSE "remove"

BeginSave ==
    /\ pc = "running" /\ m_dirty
    /\ saves < MaxSaves
    /\ saves' = saves + 1
    /\ config' = Settings(saves + 1)
    /\ pc' = "write"
    /\ UNCHANGED <<windows, disk, m_dirty, saved, unbacked, faults>>

Write ==
    /\ pc = "write"
    /\ disk' = [disk EXCEPT !["path_pid"] = config]
    /\ pc' = AfterWrite
    /\ UNCHANGED <<windows, config, m_dirty, hist>>

\* Nobody asks the stream whether everything was written.
WriteFails ==
    /\ pc = "write"
    /\ Fault
    /\ disk' = [disk EXCEPT !["path_pid"] = [config EXCEPT !.state = "short"]]
    /\ pc' = AfterWrite
    /\ UNCHANGED <<windows, config, m_dirty, saves, saved, unbacked>>

\* Mutant: what is backed up are the settings that are about to be replaced.
MutCopyBackup ==
    /\ pc = "copy"
    /\ disk' = [disk EXCEPT !["bak.tmp"] = disk["path"]]
    /\ pc' = "rename_backup"
    /\ UNCHANGED <<windows, config, m_dirty, hist>>

\* copy_file(path_pid, backup_path): bak.tmp is written, then renamed.
CopyBackup ==
    /\ pc = "copy"
    /\ disk' = [disk EXCEPT !["bak.tmp"] = disk["path_pid"]]
    /\ pc' = "rename_backup"
    /\ UNCHANGED <<windows, config, m_dirty, hist>>

RenameBackup ==
    /\ pc = "rename_backup"
    /\ disk' = Moved("bak.tmp", "bak")
    /\ unbacked' = ~Whole(disk["bak.tmp"])
    /\ pc' = "rename"
    /\ UNCHANGED <<windows, config, m_dirty, saves, saved, faults>>

\* Either step of copy_file() fails: it is logged.
BackupFails ==
    /\ pc \in {"copy", "rename_backup"}
    /\ Fault
    /\ unbacked' = TRUE
    /\ pc' = "rename"
    /\ UNCHANGED <<windows, disk, config, m_dirty, saves, saved>>

\* rename_file() on the other systems removes the target first.
Remove ==
    /\ pc = "remove"
    /\ disk' = [disk EXCEPT !["path"] = None]
    /\ unbacked' = ~Whole(disk["path_pid"])
    /\ pc' = "rename"
    /\ UNCHANGED <<windows, config, m_dirty, saves, saved, faults>>

EndSave == m_dirty' = FALSE /\ pc' = "running"

Rename ==
    /\ pc = "rename"
    /\ disk' = Moved("path_pid", "path")
    /\ saved' = config.v
    /\ EndSave
    /\ UNCHANGED <<windows, config, saves, unbacked, faults>>

\* On Windows the file may be in use.  Nobody looks at the result.
RenameFails ==
    /\ windows
    /\ pc = "rename"
    /\ Fault
    /\ EndSave
    /\ UNCHANGED <<windows, disk, config, saves, saved, unbacked>>

-----------------------------------------------------------------------------
(* The end of the process.                                                 *)

Exit ==
    /\ pc = "running" /\ ~m_dirty
    /\ pc' = "off"
    /\ UNCHANGED <<windows, disk, config, m_dirty, hist>>

\* What the step at hand was about to write or to rename.
Target ==
    CASE pc = "write" -> "path_pid"
      [] pc = "copy" -> "bak.tmp"
      [] pc = "rename_backup" -> "bak"
      [] pc = "restore" -> "path.tmp"
      [] pc \in {"rename", "rename_restored"} -> "path"
      [] OTHER -> "none"

\* A crash leaves a file half written, or one whose renaming on Windows was not
\* finished: "NOT atomic, thus it may fail if PrusaSlicer crashes on another
\* thread in the meanwhile".
Damage ==
    CASE pc \in {"write", "copy", "restore"} -> {"short"}
      [] windows /\ pc \in {"rename_backup", "rename", "rename_restored"} -> {"nulls", "none"}
      [] OTHER -> {}

Crash ==
    /\ pc # "off"
    /\ Fault
    /\ pc' = "off"
    /\ \/ disk' = disk
       \/ \E state \in Damage :
              disk' = [disk EXCEPT ![Target] =
                          IF state = "none" THEN None ELSE [v |-> config.v, state |-> state]]
    /\ UNCHANGED <<windows, config, m_dirty, saves, saved, unbacked>>

-----------------------------------------------------------------------------
Start == StartFresh \/ Load \/ LoadFails \/ Restore \/ RenameRestored \/ Reread \/ RestoreFails
Save == \/ BeginSave \/ Write \/ WriteFails \/ CopyBackup \/ RenameBackup \/ BackupFails
        \/ Remove \/ Rename \/ RenameFails

Next == Start \/ UserDeletes \/ Set \/ Save \/ Exit \/ Crash

Spec == Init /\ [][Next]_vars

-----------------------------------------------------------------------------
(* Properties.                                                             *)

\* "To cope with that, we already made a backup of the config on Windows.":
\* whenever the settings file is full of nulls there is a whole backup, and
\* whenever it has vanished there is the backup or the file that was to replace
\* it, through any sequence of crashes, unless making or using them failed.
RecoverableAfterCrash ==
    /\ disk["path"].state = "nulls" => Whole(disk["bak"]) \/ unbacked
    /\ saved > 0 /\ disk["path"] = None
           => Whole(disk["bak"]) \/ Whole(disk["path_pid"]) \/ unbacked

\* What is read from the settings file or from its backup is never older than
\* what the last save that ended has put there, except when the backup could
\* not be renewed.
NothingStaleLoaded ==
    [][pc # "running" /\ pc' = "running" /\ m_dirty' = FALSE
          => config'.v >= saved \/ unbacked]_vars

\* "we save a MD5 checksum to be able to verify file corruption": no part of
\* the settings is ever taken for the whole of them.
LoadedIsWhole == windows => Whole(config)
=============================================================================
