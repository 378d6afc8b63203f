--------------------------- MODULE AppConfigProofs ---------------------------
(***************************************************************************)
(* Proofs about the settings file, for any number of saves, crashes and    *)
(* failures.                                                               *)
(***************************************************************************)
EXTENDS AppConfig, TLAPS

Present(content) == content.state \in {"whole", "short"}

Saving == {"write", "copy", "rename_backup", "remove", "rename"}
Restoring == {"restore", "rename_restored", "reread"}

\* No file holds what no save wrote, and a save is at what it has begun.
NumbersInv ==
    /\ \A f \in Files : disk[f].v <= saves
    /\ pc \in Saving => config = Settings(saves)
    /\ config.v <= saves
    /\ pc \in {"copy", "rename_backup", "remove", "rename"}
           => Present(disk["path_pid"]) /\ disk["path_pid"].v = saves
    /\ pc = "rename_backup" => disk["bak.tmp"].v = saves

\* When the file is removed or renamed there is a second copy of what it will hold.
CopyInv ==
    /\ pc = "remove" => ~windows
    /\ pc = "rename" /\ ~unbacked
           => IF windows THEN Whole(disk["bak"]) /\ disk["bak"].v = saves
              ELSE Whole(disk["path_pid"])
    /\ pc \in {"restore", "rename_restored"} => Whole(disk["bak"])
    /\ pc = "rename_restored" => disk["path.tmp"] = disk["bak"]
    /\ pc = "reread" => Present(disk["path"])

\* The file is never newer than the backup, nor older than it was seen.
AgeInv ==
    /\ ~unbacked /\ Whole(disk["bak"])
           => /\ disk["bak"].v >= saved
              /\ Present(disk["path"]) => disk["bak"].v >= disk["path"].v
    /\ Present(disk["path"]) /\ (pc \in Saving \cup {"running"} \/ ~unbacked)
           => disk["path"].v >= saved

\* A file of nulls, or one that has vanished, is only met at the start.
LossInv ==
    /\ disk["path"].state = "nulls" => windows /\ pc \in {"off", "restore", "rename_restored"}
    /\ saved > 0 /\ disk["path"] = None => pc = "off" \/ (pc = "rename" /\ ~windows)

IInv ==
    /\ TypeOK
    /\ NumbersInv
    /\ CopyInv
    /\ AgeInv
    /\ LossInv
    /\ RecoverableAfterCrash
-----------------------------------------------------------------------------

\* What a file may hold, field by field.
LEMMA ContentFacts ==
    ASSUME NEW content \in Content
    PROVE  /\ content.v \in Nat /\ content.v <= MaxSaves
           /\ content.state \in {"whole", "short", "nulls", "none"}
           /\ content = None <=> content.state = "none"
           /\ content.state \in {"whole", "short"}
                  => content \in [v : 0 .. MaxSaves, state : {"whole", "short"}]
  BY AppConfigAssumption DEF Content, None

LEMMA ContentMade ==
    /\ None \in Content /\ None.v = 0 /\ None.state = "none"
    /\ \A v \in 0 .. MaxSaves, state \in {"whole", "short", "nulls"} :
           [v |-> v, state |-> state] \in Content
    /\ [v : 0 .. MaxSaves, state : {"whole", "short"}] \subseteq Content
  BY DEF Content, None

LEMMA FilesFacts ==
    "path" \in Files /\ "path.tmp" \in Files /\ "path_pid" \in Files
    /\ "bak" \in Files /\ "bak.tmp" \in Files
  BY DEF Files

\* rename_file(), once done: one file is what the other was, the rest stay.
LEMMA MovedFacts ==
    ASSUME disk \in [Files -> Content], NEW from \in Files, NEW to \in Files, from # to
    PROVE  /\ Moved(from, to) \in [Files -> Content]
           /\ Moved(from, to)[to] = disk[from]
           /\ Moved(from, to)[from] = None
           /\ \A f \in Files \ {from, to} : Moved(from, to)[f] = disk[f]
  BY ContentMade DEF Moved

\* It makes no file newer than the last save that was begun.
LEMMA MovedNumbers ==
    ASSUME disk \in [Files -> Content], saves \in Nat, \A f \in Files : disk[f].v <= saves,
           NEW from \in Files, NEW to \in Files, from # to
    PROVE  \A f \in Files : Moved(from, to)[f].v <= saves
<1> SUFFICES ASSUME NEW f \in Files PROVE Moved(from, to)[f].v <= saves
  OBVIOUS
<1>1. CASE f = from
  BY <1>1, MovedFacts, ContentMade
<1>2. CASE f = to
  BY <1>2, MovedFacts
<1>3. CASE f \notin {from, to}
  BY <1>3, MovedFacts
<1> QED
  BY <1>1, <1>2, <1>3

\* The types but those of the flags, which need another prover.
UnflaggedOK ==
    /\ disk \in [Files -> Content]
    /\ pc \in {"off", "running", "write", "remove", "rename"} \cup Windows
    /\ config \in [v : 0 .. MaxSaves, state : {"whole", "short"}]
    /\ saves \in 0 .. MaxSaves /\ saved \in 0 .. saves
    /\ faults \in 0 .. MaxFaults
    /\ ~windows => /\ pc \notin Windows
                   /\ disk["bak"] = None /\ disk["bak.tmp"] = None

\* The types, and that nothing but Windows makes a backup (AppConfig::save()).
LEMMA TypeStep == TypeOK /\ NumbersInv /\ CopyInv /\ [Next]_vars => TypeOK'
<1> SUFFICES ASSUME TypeOK, NumbersInv, CopyInv, [Next]_vars PROVE TypeOK'
  OBVIOUS
<1> USE AppConfigAssumption, ContentMade, FilesFacts DEF Windows, hist
<1>1. CASE StartFresh
  BY <1>1 DEF StartFresh, Settings, TypeOK
<1>2. CASE Load
  <2>1. windows' \in BOOLEAN /\ m_dirty' \in BOOLEAN /\ unbacked' \in BOOLEAN
    BY <1>2, Zenon DEF Load, Loaded, TypeOK, CopyInv, NumbersInv, Present
  <2>2. UnflaggedOK'
    BY ContentFacts, <1>2 DEF UnflaggedOK, Load, Loaded, TypeOK, CopyInv, NumbersInv, Present
  <2> QED
    BY <2>1, <2>2 DEF TypeOK, UnflaggedOK
<1>3. CASE LoadFails
  <2>1. CASE Whole(disk["bak"])
    BY <1>3, <2>1 DEF LoadFails, TypeOK, Whole
  <2>2. CASE ~Whole(disk["bak"])
    BY <1>3, <2>2 DEF LoadFails, TypeOK, Whole
  <2> QED
    BY <2>1, <2>2
<1>4. CASE Restore
  BY <1>4 DEF Restore, TypeOK
<1>5. CASE RenameRestored
  BY MovedFacts, <1>5 DEF RenameRestored, TypeOK
<1>6. CASE Reread
  <2>1. windows' \in BOOLEAN /\ m_dirty' \in BOOLEAN /\ unbacked' \in BOOLEAN
    BY <1>6, Zenon DEF Reread, Loaded, TypeOK, CopyInv, NumbersInv, Present
  <2>2. UnflaggedOK'
    BY ContentFacts, <1>6 DEF UnflaggedOK, Reread, Loaded, TypeOK, CopyInv, NumbersInv, Present
  <2> QED
    BY <2>1, <2>2 DEF TypeOK, UnflaggedOK
<1>7. CASE RestoreFails
  BY <1>7 DEF RestoreFails, Fault, TypeOK
<1>8. CASE UserDeletes
  BY <1>8 DEF UserDeletes, TypeOK
<1>9. CASE Set
  BY <1>9 DEF Set, TypeOK
<1>10. CASE BeginSave
  BY <1>10 DEF BeginSave, Settings, TypeOK
<1>11. CASE Write
  BY <1>11 DEF Write, AfterWrite, TypeOK
<1>12. CASE WriteFails
  BY <1>12 DEF WriteFails, Fault, AfterWrite, TypeOK
<1>13. CASE CopyBackup
  BY <1>13 DEF CopyBackup, TypeOK
<1>14. CASE RenameBackup
  BY MovedFacts, <1>14 DEF RenameBackup, TypeOK
<1>15. CASE BackupFails
  BY <1>15 DEF BackupFails, Fault, TypeOK
<1>16. CASE Remove
  BY <1>16 DEF Remove, TypeOK
<1>17. CASE Rename
  <2>1. windows' \in BOOLEAN /\ m_dirty' \in BOOLEAN /\ unbacked' \in BOOLEAN
    BY <1>17, Zenon DEF Rename, EndSave, TypeOK, NumbersInv, Saving, Settings
  <2>2. UnflaggedOK'
    BY MovedFacts, <1>17 DEF UnflaggedOK, Rename, EndSave, TypeOK, NumbersInv, Saving, Settings
  <2> QED
    BY <2>1, <2>2 DEF TypeOK, UnflaggedOK
<1>18. CASE RenameFails
  <2>1. windows' \in BOOLEAN /\ m_dirty' \in BOOLEAN /\ unbacked' \in BOOLEAN
    BY <1>18, Zenon DEF RenameFails, Fault, EndSave, TypeOK
  <2>2. UnflaggedOK'
    BY <1>18 DEF UnflaggedOK, RenameFails, Fault, EndSave, TypeOK
  <2> QED
    BY <2>1, <2>2 DEF TypeOK, UnflaggedOK
<1>19. CASE Exit
  BY <1>19 DEF Exit, TypeOK
<1>20. CASE Crash
  <2>1. disk' \in [Files -> Content]
    <3>1. CASE disk' = disk
      BY <3>1 DEF TypeOK
    <3>2. ASSUME NEW state \in Damage,
                 disk' = [disk EXCEPT ![Target] =
                             IF state = "none" THEN None ELSE [v |-> config.v, state |-> state]]
          PROVE  disk' \in [Files -> Content]
      BY <3>2 DEF TypeOK, Damage
    <3> QED
      BY <1>20, <3>1, <3>2 DEF Crash
  <2>2. ~windows => disk'["bak"] = None /\ disk'["bak.tmp"] = None
    BY <1>20 DEF Crash, Target, Damage, TypeOK
  <2> QED
    BY <1>20, <2>1, <2>2 DEF Crash, Fault, TypeOK
<1>21. CASE UNCHANGED vars
  BY <1>21 DEF vars, TypeOK
<1> QED
  BY <1>1, <1>2, <1>3, <1>4, <1>5, <1>6, <1>7, <1>8, <1>9, <1>10, <1>11, <1>12, <1>13, <1>14, <1>15, <1>16, <1>17, <1>18, <1>19, <1>20, <1>21 DEF Next, Start, Save

\* Every step keeps the numbers of the files, and the copies where a save or
\* a restore will need them.
LEMMA InvStep == IInv /\ [Next]_vars => IInv'
<1> SUFFICES ASSUME IInv, [Next]_vars PROVE IInv'
  OBVIOUS
<1> DEFINE Facts == \A f \in Files :
        /\ disk[f] \in Content /\ disk[f].v \in Nat /\ disk[f].v <= MaxSaves
        /\ disk[f].state \in {"whole", "short", "nulls", "none"}
        /\ disk[f] = None <=> disk[f].state = "none"
<1> USE AppConfigAssumption, ContentMade, FilesFacts
    DEF Whole, Present, Saving, Restoring, Windows, Settings, hist
<1>a. Facts
  BY ContentFacts DEF IInv, TypeOK
<1>b. TypeOK'
  BY TypeStep DEF IInv
<1>c. disk \in [Files -> Content] /\ saves \in Nat /\ \A f \in Files : disk[f].v <= saves
  <2>1. saves \in 0 .. MaxSaves
    BY DEF IInv, TypeOK
  <2> QED
    BY <2>1 DEF IInv, TypeOK, NumbersInv
<1> HIDE DEF Facts
<1>1. CASE StartFresh
  <2> USE <1>1 DEF StartFresh
  <2>1. NumbersInv'
    BY <1>a DEF IInv, NumbersInv, TypeOK, Facts, Files
  <2>2. CopyInv'
    BY <1>a DEF IInv, CopyInv, NumbersInv, TypeOK, Facts
  <2>3. AgeInv'
    BY <1>a DEF IInv, AgeInv, NumbersInv, CopyInv, TypeOK, LossInv, Facts
  <2>4. LossInv'
    BY <1>a DEF IInv, LossInv, CopyInv, TypeOK, Facts
  <2>5. RecoverableAfterCrash'
    BY <1>a DEF IInv, RecoverableAfterCrash, CopyInv, LossInv, TypeOK, Facts
  <2> QED
    BY <1>b, <2>1, <2>2, <2>3, <2>4, <2>5 DEF IInv
<1>2. CASE Load
  <2> USE <1>2 DEF Load, Loaded
  <2>1. NumbersInv'
    BY <1>a DEF IInv, NumbersInv, TypeOK, Facts, Files
  <2>2. CopyInv'
    BY <1>a DEF IInv, CopyInv, NumbersInv, TypeOK, Facts
  <2>3. AgeInv'
    BY <1>a DEF IInv, AgeInv, NumbersInv, CopyInv, TypeOK, LossInv, Facts
  <2>4. LossInv'
    BY <1>a DEF IInv, LossInv, CopyInv, TypeOK, Facts
  <2>5. RecoverableAfterCrash'
    BY <1>a DEF IInv, RecoverableAfterCrash, CopyInv, LossInv, TypeOK, Facts
  <2> QED
    BY <1>b, <2>1, <2>2, <2>3, <2>4, <2>5 DEF IInv
<1>3. CASE LoadFails
  <2> USE <1>3 DEF LoadFails
  <2>1. NumbersInv'
    BY <1>a DEF IInv, NumbersInv, TypeOK, Facts, Files
  <2>2. CopyInv'
    BY <1>a DEF IInv, CopyInv, NumbersInv, TypeOK, Facts
  <2>3. AgeInv'
    BY <1>a DEF IInv, AgeInv, NumbersInv, CopyInv, TypeOK, LossInv, Facts
  <2>4. LossInv'
    BY <1>a DEF IInv, LossInv, CopyInv, TypeOK, Facts
  <2>5. RecoverableAfterCrash'
    BY <1>a DEF IInv, RecoverableAfterCrash, CopyInv, LossInv, TypeOK, Facts
  <2> QED
    BY <1>b, <2>1, <2>2, <2>3, <2>4, <2>5 DEF IInv
<1>4. CASE Restore
  <2> USE <1>4 DEF Restore
  <2>1. NumbersInv'
    BY <1>a DEF IInv, NumbersInv, TypeOK, Facts, Files
  <2>2. CopyInv'
    BY <1>a DEF IInv, CopyInv, NumbersInv, TypeOK, Facts
  <2>3. AgeInv'
    BY <1>a DEF IInv, AgeInv, NumbersInv, CopyInv, TypeOK, LossInv, Facts
  <2>4. LossInv'
    BY <1>a DEF IInv, LossInv, CopyInv, TypeOK, Facts
  <2>5. RecoverableAfterCrash'
    BY <1>a DEF IInv, RecoverableAfterCrash, CopyInv, LossInv, TypeOK, Facts
  <2> QED
    BY <1>b, <2>1, <2>2, <2>3, <2>4, <2>5 DEF IInv
<1>5. CASE RenameRestored
  <2> USE <1>5 DEF RenameRestored
  <2>a. \A f \in Files : disk'[f].v <= saves
    BY MovedNumbers, <1>c
  <2>b. /\ disk'["path"] = disk["path.tmp"] /\ disk'["path.tmp"] = None
        /\ disk'["path_pid"] = disk["path_pid"] /\ disk'["bak"] = disk["bak"]
        /\ disk'["bak.tmp"] = disk["bak.tmp"]
    BY MovedFacts, <1>c DEF Files
  <2>1. NumbersInv'
    BY <2>a, <2>b, <1>a DEF IInv, NumbersInv, TypeOK, Facts
  <2>2. CopyInv'
    BY <2>b, <1>a DEF IInv, CopyInv, NumbersInv, TypeOK, Facts
  <2>3. AgeInv'
    BY <2>b, <1>a DEF IInv, AgeInv, NumbersInv, CopyInv, TypeOK, LossInv, Facts
  <2>4. LossInv'
    BY <2>b, <1>a DEF IInv, LossInv, CopyInv, NumbersInv, TypeOK, Facts
  <2>5. RecoverableAfterCrash'
    BY <2>b, <1>a DEF IInv, RecoverableAfterCrash, CopyInv, LossInv, TypeOK, Facts
  <2> QED
    BY <1>b, <2>1, <2>2, <2>3, <2>4, <2>5 DEF IInv
<1>6. CASE Reread
  <2> USE <1>6 DEF Reread, Loaded
  <2>1. NumbersInv'
    BY <1>a DEF IInv, NumbersInv, TypeOK, Facts, Files
  <2>2. CopyInv'
    BY <1>a DEF IInv, CopyInv, NumbersInv, TypeOK, Facts
  <2>3. AgeInv'
    BY <1>a DEF IInv, AgeInv, NumbersInv, CopyInv, TypeOK, LossInv, Facts
  <2>4. LossInv'
    BY <1>a DEF IInv, LossInv, CopyInv, TypeOK, Facts
  <2>5. RecoverableAfterCrash'
    BY <1>a DEF IInv, RecoverableAfterCrash, CopyInv, LossInv, TypeOK, Facts
  <2> QED
    BY <1>b, <2>1, <2>2, <2>3, <2>4, <2>5 DEF IInv
<1>7. CASE RestoreFails
  <2> USE <1>7 DEF RestoreFails, Fault
  <2>1. NumbersInv'
    BY <1>a DEF IInv, NumbersInv, TypeOK, Facts, Files
  <2>2. CopyInv'
    BY <1>a DEF IInv, CopyInv, NumbersInv, TypeOK, Facts
  <2>3. AgeInv'
    BY <1>a DEF IInv, AgeInv, NumbersInv, CopyInv, TypeOK, LossInv, Facts
  <2>4. LossInv'
    BY <1>a DEF IInv, LossInv, CopyInv, TypeOK, Facts
  <2>5. RecoverableAfterCrash'
    BY <1>a DEF IInv, RecoverableAfterCrash, CopyInv, LossInv, TypeOK, Facts
  <2> QED
    BY <1>b, <2>1, <2>2, <2>3, <2>4, <2>5 DEF IInv
<1>8. CASE UserDeletes
  <2> USE <1>8 DEF UserDeletes
  <2>1. NumbersInv'
    BY <1>a DEF IInv, NumbersInv, TypeOK, Facts, Files
  <2>2. CopyInv'
    BY <1>a DEF IInv, CopyInv, NumbersInv, TypeOK, Facts
  <2>3. AgeInv'
    BY <1>a DEF IInv, AgeInv, NumbersInv, CopyInv, TypeOK, LossInv, Facts
  <2>4. LossInv'
    BY <1>a DEF IInv, LossInv, CopyInv, TypeOK, Facts
  <2>5. RecoverableAfterCrash'
    BY <1>a DEF IInv, RecoverableAfterCrash, CopyInv, LossInv, TypeOK, Facts
  <2> QED
    BY <1>b, <2>1, <2>2, <2>3, <2>4, <2>5 DEF IInv
<1>9. CASE Set
  <2> USE <1>9 DEF Set
  <2>1. NumbersInv'
    BY <1>a DEF IInv, NumbersInv, TypeOK, Facts, Files
  <2>2. CopyInv'
    BY <1>a DEF IInv, CopyInv, NumbersInv, TypeOK, Facts
  <2>3. AgeInv'
    BY <1>a DEF IInv, AgeInv, NumbersInv, CopyInv, TypeOK, LossInv, Facts
  <2>4. LossInv'
    BY <1>a DEF IInv, LossInv, CopyInv, TypeOK, Facts
  <2>5. RecoverableAfterCrash'
    BY <1>a DEF IInv, RecoverableAfterCrash, CopyInv, LossInv, TypeOK, Facts
  <2> QED
    BY <1>b, <2>1, <2>2, <2>3, <2>4, <2>5 DEF IInv
<1>10. CASE BeginSave
  <2> USE <1>10 DEF BeginSave
  <2>1. NumbersInv'
    BY <1>a DEF IInv, NumbersInv, TypeOK, Facts, Files
  <2>2. CopyInv'
    BY <1>a DEF IInv, CopyInv, NumbersInv, TypeOK, Facts
  <2>3. AgeInv'
    BY <1>a DEF IInv, AgeInv, NumbersInv, CopyInv, TypeOK, LossInv, Facts
  <2>4. LossInv'
    BY <1>a DEF IInv, LossInv, CopyInv, TypeOK, Facts
  <2>5. RecoverableAfterCrash'
    BY <1>a DEF IInv, RecoverableAfterCrash, CopyInv, LossInv, TypeOK, Facts
  <2> QED
    BY <1>b, <2>1, <2>2, <2>3, <2>4, <2>5 DEF IInv
<1>11. CASE Write
  <2> USE <1>11 DEF Write, AfterWrite
  <2>1. NumbersInv'
    BY <1>a DEF IInv, NumbersInv, TypeOK, Facts, Files
  <2>2. CopyInv'
    BY <1>a DEF IInv, CopyInv, NumbersInv, TypeOK, Facts
  <2>3. AgeInv'
    BY <1>a DEF IInv, AgeInv, NumbersInv, CopyInv, TypeOK, LossInv, Facts
  <2>4. LossInv'
    BY <1>a DEF IInv, LossInv, CopyInv, TypeOK, Facts
  <2>5. RecoverableAfterCrash'
    BY <1>a DEF IInv, RecoverableAfterCrash, CopyInv, LossInv, TypeOK, Facts
  <2> QED
    BY <1>b, <2>1, <2>2, <2>3, <2>4, <2>5 DEF IInv
<1>12. CASE WriteFails
  <2> USE <1>12 DEF WriteFails, Fault, AfterWrite
  <2>1. NumbersInv'
    BY <1>a DEF IInv, NumbersInv, TypeOK, Facts, Files
  <2>2. CopyInv'
    BY <1>a DEF IInv, CopyInv, NumbersInv, TypeOK, Facts
  <2>3. AgeInv'
    BY <1>a DEF IInv, AgeInv, NumbersInv, CopyInv, TypeOK, LossInv, Facts
  <2>4. LossInv'
    BY <1>a DEF IInv, LossInv, CopyInv, TypeOK, Facts
  <2>5. RecoverableAfterCrash'
    BY <1>a DEF IInv, RecoverableAfterCrash, CopyInv, LossInv, TypeOK, Facts
  <2> QED
    BY <1>b, <2>1, <2>2, <2>3, <2>4, <2>5 DEF IInv
<1>13. CASE CopyBackup
  <2> USE <1>13 DEF CopyBackup
  <2>1. NumbersInv'
    BY <1>a DEF IInv, NumbersInv, TypeOK, Facts, Files
  <2>2. CopyInv'
    BY <1>a DEF IInv, CopyInv, NumbersInv, TypeOK, Facts
  <2>3. AgeInv'
    BY <1>a DEF IInv, AgeInv, NumbersInv, CopyInv, TypeOK, LossInv, Facts
  <2>4. LossInv'
    BY <1>a DEF IInv, LossInv, CopyInv, TypeOK, Facts
  <2>5. RecoverableAfterCrash'
    BY <1>a DEF IInv, RecoverableAfterCrash, CopyInv, LossInv, TypeOK, Facts
  <2> QED
    BY <1>b, <2>1, <2>2, <2>3, <2>4, <2>5 DEF IInv
<1>14. CASE RenameBackup
  <2> USE <1>14 DEF RenameBackup
  <2>a. \A f \in Files : disk'[f].v <= saves
    BY MovedNumbers, <1>c
  <2>b. /\ disk'["bak"] = disk["bak.tmp"] /\ disk'["bak.tmp"] = None
        /\ disk'["path"] = disk["path"] /\ disk'["path.tmp"] = disk["path.tmp"]
        /\ disk'["path_pid"] = disk["path_pid"]
    BY MovedFacts, <1>c DEF Files
  <2>1. NumbersInv'
    BY <2>a, <2>b, <1>a DEF IInv, NumbersInv, TypeOK, Facts
  <2>2. CopyInv'
    BY <2>b, <1>a DEF IInv, CopyInv, NumbersInv, TypeOK, Facts
  <2>3. AgeInv'
    BY <2>b, <1>a DEF IInv, AgeInv, NumbersInv, CopyInv, TypeOK, LossInv, Facts
  <2>4. LossInv'
    BY <2>b, <1>a DEF IInv, LossInv, CopyInv, NumbersInv, TypeOK, Facts
  <2>5. RecoverableAfterCrash'
    BY <2>b, <1>a DEF IInv, RecoverableAfterCrash, CopyInv, LossInv, TypeOK, Facts
  <2> QED
    BY <1>b, <2>1, <2>2, <2>3, <2>4, <2>5 DEF IInv
<1>15. CASE BackupFails
  <2> USE <1>15 DEF BackupFails, Fault
  <2>1. NumbersInv'
    BY <1>a DEF IInv, NumbersInv, TypeOK, Facts, Files
  <2>2. CopyInv'
    BY <1>a DEF IInv, CopyInv, NumbersInv, TypeOK, Facts
  <2>3. AgeInv'
    BY <1>a DEF IInv, AgeInv, NumbersInv, CopyInv, TypeOK, LossInv, Facts
  <2>4. LossInv'
    BY <1>a DEF IInv, LossInv, CopyInv, TypeOK, Facts
  <2>5. RecoverableAfterCrash'
    BY <1>a DEF IInv, RecoverableAfterCrash, CopyInv, LossInv, TypeOK, Facts
  <2> QED
    BY <1>b, <2>1, <2>2, <2>3, <2>4, <2>5 DEF IInv
<1>16. CASE Remove
  <2> USE <1>16 DEF Remove
  <2>1. NumbersInv'
    BY <1>a DEF IInv, NumbersInv, TypeOK, Facts, Files
  <2>2. CopyInv'
    BY <1>a DEF IInv, CopyInv, NumbersInv, TypeOK, Facts
  <2>3. AgeInv'
    BY <1>a DEF IInv, AgeInv, NumbersInv, CopyInv, TypeOK, LossInv, Facts
  <2>4. LossInv'
    BY <1>a DEF IInv, LossInv, CopyInv, TypeOK, Facts
  <2>5. RecoverableAfterCrash'
    BY <1>a DEF IInv, RecoverableAfterCrash, CopyInv, LossInv, TypeOK, Facts
  <2> QED
    BY <1>b, <2>1, <2>2, <2>3, <2>4, <2>5 DEF IInv
<1>17. CASE Rename
  <2> USE <1>17 DEF Rename, EndSave
  <2>a. \A f \in Files : disk'[f].v <= saves
    BY MovedNumbers, <1>c
  <2>b. /\ disk'["path"] = disk["path_pid"] /\ disk'["path_pid"] = None
        /\ disk'["path.tmp"] = disk["path.tmp"] /\ disk'["bak"] = disk["bak"]
        /\ disk'["bak.tmp"] = disk["bak.tmp"]
    BY MovedFacts, <1>c DEF Files
  <2>1. NumbersInv'
    BY <2>a, <2>b, <1>a DEF IInv, NumbersInv, TypeOK, Facts
  <2>2. CopyInv'
    BY <2>b, <1>a DEF IInv, CopyInv, NumbersInv, TypeOK, Facts
  <2>3. AgeInv'
    BY <2>b, <1>a DEF IInv, AgeInv, NumbersInv, CopyInv, TypeOK, LossInv, Facts
  <2>4. LossInv'
    BY <2>b, <1>a DEF IInv, LossInv, CopyInv, NumbersInv, TypeOK, Facts
  <2>5. RecoverableAfterCrash'
    BY <2>b, <1>a DEF IInv, RecoverableAfterCrash, CopyInv, LossInv, TypeOK, Facts
  <2> QED
    BY <1>b, <2>1, <2>2, <2>3, <2>4, <2>5 DEF IInv
<1>18. CASE RenameFails
  <2> USE <1>18 DEF RenameFails, Fault, EndSave
  <2>1. NumbersInv'
    BY <1>a DEF IInv, NumbersInv, TypeOK, Facts, Files
  <2>2. CopyInv'
    BY <1>a DEF IInv, CopyInv, NumbersInv, TypeOK, Facts
  <2>3. AgeInv'
    BY <1>a DEF IInv, AgeInv, NumbersInv, CopyInv, TypeOK, LossInv, Facts
  <2>4. LossInv'
    BY <1>a DEF IInv, LossInv, CopyInv, TypeOK, Facts
  <2>5. RecoverableAfterCrash'
    BY <1>a DEF IInv, RecoverableAfterCrash, CopyInv, LossInv, TypeOK, Facts
  <2> QED
    BY <1>b, <2>1, <2>2, <2>3, <2>4, <2>5 DEF IInv
<1>19. CASE Exit
  <2> USE <1>19 DEF Exit
  <2>1. NumbersInv'
    BY <1>a DEF IInv, NumbersInv, TypeOK, Facts, Files
  <2>2. CopyInv'
    BY <1>a DEF IInv, CopyInv, NumbersInv, TypeOK, Facts
  <2>3. AgeInv'
    BY <1>a DEF IInv, AgeInv, NumbersInv, CopyInv, TypeOK, LossInv, Facts
  <2>4. LossInv'
    BY <1>a DEF IInv, LossInv, CopyInv, TypeOK, Facts
  <2>5. RecoverableAfterCrash'
    BY <1>a DEF IInv, RecoverableAfterCrash, CopyInv, LossInv, TypeOK, Facts
  <2> QED
    BY <1>b, <2>1, <2>2, <2>3, <2>4, <2>5 DEF IInv
<1>20. CASE Crash
  <2> USE <1>20 DEF Crash, Fault
  <2>a. \A f \in Files : f # Target => disk'[f] = disk[f]
    BY DEF IInv, TypeOK
  <2>c. Damage # {} => Target \in Files
    BY DEF Target, Damage
  <2>b. \/ disk' = disk
        \/ disk'[Target] = None /\ "none" \in Damage
        \/ \E state \in Damage \ {"none"} : disk'[Target] = [v |-> config.v, state |-> state]
    BY <2>c DEF IInv, TypeOK
  <2>1. NumbersInv'
    BY <1>a, <2>a, <2>b DEF IInv, NumbersInv, TypeOK, Facts, Files
  <2>2. CopyInv'
    BY DEF CopyInv
  <2>3. AgeInv'
    <3>1. disk'["bak"] = disk["bak"] \/ ~Whole(disk'["bak"])
      <4>1. CASE disk' = disk
        BY <4>1
      <4>2. CASE "bak" # Target
        BY <2>a, <4>2
      <4>3. CASE "bak" = Target /\ "none" \in Damage /\ disk'[Target] = None
        BY <4>3
      <4>4. ASSUME "bak" = Target,
                   NEW state \in Damage \ {"none"},
                   disk'[Target] = [v |-> config.v, state |-> state]
            PROVE  ~Whole(disk'["bak"])
        <5>1. state = "nulls"
          BY <4>4 DEF Target, Damage
        <5> QED
          BY <4>4, <5>1
      <4> QED
        BY <2>b, <4>1, <4>2, <4>3, <4>4
    <3>2. disk'["path"] = disk["path"] \/ ~Present(disk'["path"])
      <4>1. CASE disk' = disk
        BY <4>1
      <4>2. CASE "path" # Target
        BY <2>a, <4>2
      <4>3. CASE "path" = Target /\ "none" \in Damage /\ disk'[Target] = None
        BY <4>3
      <4>4. ASSUME "path" = Target,
                   NEW state \in Damage \ {"none"},
                   disk'[Target] = [v |-> config.v, state |-> state]
            PROVE  ~Present(disk'["path"])
        <5>1. state = "nulls"
          BY <4>4 DEF Target, Damage
        <5> QED
          BY <4>4, <5>1
      <4> QED
        BY <2>b, <4>1, <4>2, <4>3, <4>4
    <3> QED
      BY <3>1, <3>2 DEF IInv, AgeInv
  <2>4. LossInv'
    BY <1>a, <2>a, <2>b DEF IInv, LossInv, CopyInv, TypeOK, Facts, Target, Damage
  <2>5. RecoverableAfterCrash'
    BY <1>a, <2>a, <2>b DEF IInv, RecoverableAfterCrash, CopyInv, LossInv, TypeOK, Facts, Target, Damage
  <2> QED
    BY <1>b, <2>1, <2>2, <2>3, <2>4, <2>5 DEF IInv
<1>21. CASE UNCHANGED vars
  BY <1>b, <1>21 DEF vars, IInv, TypeOK, NumbersInv, CopyInv, AgeInv, LossInv, RecoverableAfterCrash
<1> QED
  BY <1>1, <1>2, <1>3, <1>4, <1>5, <1>6, <1>7, <1>8, <1>9, <1>10, <1>11, <1>12, <1>13, <1>14, <1>15, <1>16, <1>17, <1>18, <1>19, <1>20, <1>21 DEF Next, Start, Save

LEMMA InvInit == Init => IInv
<1> SUFFICES ASSUME Init PROVE IInv
  OBVIOUS
<1> USE AppConfigAssumption, ContentMade, FilesFacts DEF Init, Settings, Windows, Saving
<1>1. TypeOK
  <2>1. m_dirty \in BOOLEAN /\ unbacked \in BOOLEAN
    BY Zenon
  <2> QED
    BY <2>1 DEF TypeOK
<1>2. NumbersInv /\ CopyInv
  BY DEF NumbersInv, CopyInv
<1>3. AgeInv /\ LossInv /\ RecoverableAfterCrash
  BY DEF AgeInv, LossInv, RecoverableAfterCrash, Whole, Present
<1> QED
  BY <1>1, <1>2, <1>3 DEF IInv

THEOREM InvHolds == Spec => []IInv
<1>1. Init => IInv
  BY InvInit
<1>2. IInv /\ [Next]_vars => IInv'
  BY InvStep
<1> QED
  BY <1>1, <1>2, PTL DEF Spec

\* The types, and no trace of a backup but on Windows (AppConfig::save()).
THEOREM TypeCorrect == Spec => []TypeOK
<1>1. IInv => TypeOK
  BY DEF IInv
<1> QED
  BY <1>1, InvHolds, PTL

\* The backup of AppConfig::save() does what it is made for: however often
\* the program crashes, there is something to load, unless a disk was full or
\* a file in use.
THEOREM Recoverable == Spec => []RecoverableAfterCrash
<1>1. IInv => RecoverableAfterCrash
  BY DEF IInv
<1> QED
  BY <1>1, InvHolds, PTL

\* AppConfig::load() never goes back behind what was saved last.
THEOREM LoadsWhatWasSaved == Spec => NothingStaleLoaded
<1>1. IInv /\ [Next]_vars
         => [pc # "running" /\ pc' = "running" /\ m_dirty' = FALSE
                => config'.v >= saved \/ unbacked]_vars
  <2> SUFFICES ASSUME IInv, Next, pc # "running", pc' = "running", m_dirty' = FALSE, ~unbacked
               PROVE  config'.v >= saved
    BY DEF vars
  <2>1. pc = "off" \/ pc = "reread" \/ pc = "rename"
    BY DEF Next, Start, Save, StartFresh, Load, LoadFails, Restore, RenameRestored, Reread,
       RestoreFails, UserDeletes, Set, BeginSave, Write, WriteFails, AfterWrite, CopyBackup,
       RenameBackup, BackupFails, Remove, Rename, RenameFails, Exit, Crash, Loaded, EndSave
  <2>2. CASE pc = "off" \/ pc = "reread"
    <3>1. config' = disk["path"] /\ Present(disk["path"])
      BY <2>2 DEF Next, Start, Save, StartFresh, Load, LoadFails, Restore, RenameRestored, Reread,
         RestoreFails, UserDeletes, Set, BeginSave, Write, WriteFails, CopyBackup,
         RenameBackup, BackupFails, Remove, Rename, RenameFails, Exit, Crash, Loaded, EndSave,
         IInv, CopyInv, Present
    <3> QED
      BY <3>1 DEF IInv, AgeInv
  <2>3. CASE pc = "rename"
    <3>1. config' = config
      BY <2>3 DEF Next, Start, Save, StartFresh, Load, LoadFails, Restore, RenameRestored, Reread,
         RestoreFails, UserDeletes, Set, BeginSave, Write, WriteFails, CopyBackup,
         RenameBackup, BackupFails, Remove, Rename, RenameFails, Exit, Crash, EndSave
    <3> QED
      BY <2>3, <3>1, AppConfigAssumption DEF IInv, TypeOK, NumbersInv, Saving, Settings
  <2> QED
    BY <2>1, <2>2, <2>3
<1> QED
  BY <1>1, InvHolds, PTL DEF Spec, NothingStaleLoaded
=============================================================================
