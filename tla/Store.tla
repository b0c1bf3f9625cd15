------------------------------- MODULE Store --------------------------------
(***************************************************************************)
(* One state file of the daemon: store::atomic (src/unix/store.rs), system *)
(* call by system call, with errors and crashes between any two of them.   *)
(*                                                                         *)
(* A file is its value and whether its data is on the disk.  The directory *)
(* is what the system calls see; a power failure may leave any directory   *)
(* that was seen since the last successful sync of the directory, since a  *)
(* file system writes these changes in order but not at once.  The random  *)
(* temporary and backup names are one name each: what an update leaves     *)
(* behind under such a name is never looked at again.                      *)
(***************************************************************************)
EXTENDS Naturals

CONSTANTS
    Value,          \* what the file can hold
    Absent,         \* the value that stands for a missing file, the default
    None

\* A file: its value, and whether all of its data is on the disk.
File == [value : Value, synced : BOOLEAN]

ASSUME ConstantsAssumption ==
    /\ None \notin Value \cup File
    /\ Absent \in Value

VARIABLES
    path, temp, backup, \* the directory: a file or None under each name
    possible,           \* the files under `path` that a power failure may leave
    memory,             \* the value in the Store, None while the daemon is down
    new,                \* the value being saved
    step,               \* the next system call of atomic(), "idle" outside
    apart               \* history: a rename could not be undone, and neither a
                        \* later save nor a restart has settled the file since

dir  == <<path, temp, backup>>
vars == <<dir, possible, memory, new, step, apart>>

Steps == {"idle", "sync_temp", "link", "sync_link", "rename", "sync_rename",
          "rollback", "sync_rollback", "return", "fail"}

\* The variables range over what the calls can leave.
TypeOK ==
    /\ path \in File \cup {None}
    /\ temp \in File \cup {None}
    /\ backup \in File \cup {None}
    /\ possible \in SUBSET (File \cup {None})
    /\ path \in possible
    /\ memory \in Value \cup {None}
    /\ new \in Value
    /\ step \in Steps
    /\ apart \in BOOLEAN

-----------------------------------------------------------------------------
\* What Store::open makes of the file it finds.
Found(f) == IF f = None THEN Absent ELSE f.value

Init ==
    /\ \E v \in Value : path = IF v = Absent THEN None ELSE [value |-> v, synced |-> TRUE]
    /\ temp = None /\ backup = None
    /\ possible = {path}
    /\ memory = Found(path)
    /\ new = memory
    /\ step = "idle"
    /\ apart = FALSE

-----------------------------------------------------------------------------
(* Store::configure, pair, revoke and connected, all through atomic *)

\* A directory change that is not on the disk yet.
Show(f) == path' = f /\ possible' = possible \cup {f}

\* A sync of the directory.
SyncDirectory == possible' = {path} /\ UNCHANGED path

\* Create and write the temporary file.
Begin(v) ==
    /\ step = "idle" /\ memory # None
    /\ new' = v
    /\ temp' = [value |-> v, synced |-> FALSE]
    /\ step' = "sync_temp"
    /\ UNCHANGED <<path, backup, possible, memory, apart>>

\* Fault: the data is not synced before the rename.
SyncTemp_Skipped ==
    /\ step = "sync_temp"
    /\ step' = "link"
    /\ UNCHANGED <<dir, possible, memory, new, apart>>

\* file.sync_all.
SyncTemp ==
    /\ step = "sync_temp"
    /\ temp' = [temp EXCEPT !.synced = TRUE]
    /\ step' = "link"
    /\ UNCHANGED <<path, backup, possible, memory, new, apart>>

\* hard_link of the previous file, if there is one.
LinkBackup ==
    /\ step = "link"
    /\ backup' = path
    /\ step' = "sync_link"
    /\ UNCHANGED <<path, temp, possible, memory, new, apart>>

SyncLink ==
    /\ step = "sync_link"
    /\ SyncDirectory
    /\ step' = "rename"
    /\ UNCHANGED <<temp, backup, memory, new, apart>>

Rename ==
    /\ step = "rename"
    /\ Show(temp)
    /\ temp' = None
    /\ step' = "sync_rename"
    /\ UNCHANGED <<backup, memory, new, apart>>

\* Fault: an error of the sync is not looked at.
SyncRename_Ignored ==
    /\ step = "sync_rename"
    /\ SyncDirectory \/ UNCHANGED <<path, possible>>
    /\ step' = "return"
    /\ UNCHANGED <<temp, backup, memory, new, apart>>

\* Fault: the error is returned without undoing the rename.
SyncRename_NotUndone ==
    /\ step = "sync_rename"
    /\ \/ SyncDirectory /\ step' = "return"
       \/ step' = "fail" /\ UNCHANGED <<path, possible>>
    /\ UNCHANGED <<temp, backup, memory, new, apart>>

\* The sync that commits the rename; when it fails the rename is undone.
SyncRename ==
    /\ step = "sync_rename"
    /\ \/ SyncDirectory /\ step' = "return"
       \/ step' = "rollback" /\ UNCHANGED <<path, possible>>
    /\ UNCHANGED <<temp, backup, memory, new, apart>>

\* rename of the backup, or removal when there was no file; a failure is
\* reported and keeps the backup.
Rollback ==
    /\ step = "rollback"
    /\ \/ Show(backup) /\ backup' = None /\ step' = "sync_rollback" /\ UNCHANGED apart
       \/ step' = "idle" /\ apart' = TRUE /\ UNCHANGED <<path, backup, possible>>
    /\ UNCHANGED <<temp, memory, new>>

\* Fault: the save that was undone reports the result of this sync, not the error.
SyncRollback_Reported ==
    /\ step = "sync_rollback"
    /\ \/ SyncDirectory /\ step' = "return"
       \/ step' = "fail" /\ UNCHANGED <<path, possible>>
    /\ UNCHANGED <<temp, backup, memory, new, apart>>

\* The result of this sync is not looked at.
SyncRollback ==
    /\ step = "sync_rollback"
    /\ SyncDirectory \/ UNCHANGED <<path, possible>>
    /\ step' = "fail"
    /\ UNCHANGED <<temp, backup, memory, new, apart>>

\* Any call up to the rename fails.
CallFails ==
    /\ step \in {"sync_temp", "link", "sync_link", "rename"}
    /\ step' = "fail"
    /\ UNCHANGED <<dir, possible, memory, new, apart>>

\* Err: the temporary files are removed, the value in memory stays.
ReturnError ==
    /\ step = "fail"
    /\ temp' = None /\ backup' = None
    /\ step' = "idle"
    /\ UNCHANGED <<path, possible, memory, new, apart>>

\* Ok: the backup is removed, and only now the value in memory changes.
ReturnOk ==
    /\ step = "return"
    /\ backup' = None
    /\ memory' = new
    /\ step' = "idle"
    /\ apart' = FALSE
    /\ UNCHANGED <<path, temp, possible, new>>

\* Another state file is saved and syncs the directory.
SaveAnother ==
    /\ step = "idle" /\ memory # None
    /\ SyncDirectory
    /\ UNCHANGED <<temp, backup, memory, new, step, apart>>

-----------------------------------------------------------------------------
(* Crashes *)

Down ==
    /\ memory # None
    /\ memory' = None
    /\ temp' = None /\ backup' = None
    /\ step' = "idle"
    /\ apart' = FALSE
    /\ UNCHANGED new

\* The process is killed: the directory stays as the calls left it.
Killed == Down /\ UNCHANGED <<path, possible>>

\* The power fails, while the daemon runs or after it was killed.
PowerFails ==
    /\ Down \/ (memory = None /\ UNCHANGED <<temp, backup, memory, new, step, apart>>)
    /\ path' \in possible
    /\ possible' = {path'}

\* Store::open reads what it finds; a torn file is an error.
OpenStore ==
    /\ memory = None
    /\ path # None => path.synced
    /\ memory' = Found(path)
    /\ UNCHANGED <<dir, possible, new, step, apart>>

-----------------------------------------------------------------------------
Next ==
    \/ \E v \in Value \ {Absent} : Begin(v)
    \/ SyncTemp
    \/ LinkBackup
    \/ SyncLink
    \/ Rename
    \/ SyncRename
    \/ Rollback
    \/ SyncRollback
    \/ CallFails
    \/ ReturnError
    \/ ReturnOk
    \/ SaveAnother
    \/ Killed
    \/ PowerFails
    \/ OpenStore

Spec == Init /\ [][Next]_vars

-----------------------------------------------------------------------------
(* Properties *)

\* The file store keeps the promise of the register: whatever fails and whenever
\* the power does, a restart finds the old or the new value, and the daemon acts
\* on a new value only when no restart can find the old one any more; it is loose
\* only after a rename that could not be undone.
Promise == INSTANCE Register
               WITH active <- memory, found <- {Found(f) : f \in possible},
                    settled <- ~apart
KeepsPromise == Promise!Spec

\* A restart never finds a file whose data did not reach the disk.
NeverTorn == \A f \in possible : f # None => f.synced

\* The daemon acts on what the file says whenever no save is under way: a failed
\* save has left the file as it was (test failed_save_keeps_active_config), if
\* undoing it did not fail as well.
FileMatchesMemory ==
    step = "idle" /\ memory # None /\ ~apart => Found(path) = memory

\* When a save reports success, no crash brings another value back and the daemon
\* acts on the value saved, even if an earlier rollback failed and left the file
\* and the memory apart.
SuccessSettles ==
    [][step = "return" /\ step' = "idle" /\ memory' # None
       => possible' = {path'} /\ Found(path') = new /\ memory' = new]_vars
=============================================================================
