---------------------------- MODULE StoreProofs -----------------------------
(***************************************************************************)
(* The state file implements the register, for any set of values: each     *)
(* system call of a save is a step of Register or none.                    *)
(***************************************************************************)
EXTENDS Store, TLAPS

\* What is on the disk under the names of a save, stage by stage.
BeforeRename == {"sync_temp", "link", "sync_link", "rename"}

\* The temporary file is complete when it gets the name of the state file, and
\* so is the backup of a state file that was.
CompleteFiles ==
    /\ NeverTorn
    /\ step \in BeforeRename => temp # None /\ temp.value = new
    /\ step \in {"link", "sync_link", "rename"} => temp.synced
    /\ step \in {"sync_link", "rename", "sync_rename", "rollback"} /\ backup # None
           => backup.synced

\* Where the old and the new value are at each call; after a rename that could
\* not be undone nothing is known of the old one.
SaveStages ==
    /\ step # "idle" \/ apart => memory # None
    /\ ~apart /\ memory # None
           /\ step \in BeforeRename \cup {"idle", "sync_rollback", "fail"}
           => Found(path) = memory
    /\ step \in {"sync_link", "rename"} => backup = path
    /\ step \in {"sync_rename", "rollback"} =>
           /\ ~apart => Found(backup) = memory
           /\ backup \in possible
           /\ Found(path) = new
    /\ step = "return" => possible = {path} /\ Found(path) = new

\* The constants that mean something to a save.
LEMMA FoundType == ASSUME ConstantsAssumption, NEW f \in File \cup {None}
                   PROVE  Found(f) \in Value
BY DEF ConstantsAssumption, Found, File

\* The variables keep their types, whatever fails.
LEMMA StepTypes ==
    ASSUME TypeOK, CompleteFiles, ConstantsAssumption, [Next]_vars
    PROVE  TypeOK'
<1>1. ASSUME NEW v \in Value, Begin(v) PROVE TypeOK'
  BY <1>1 DEF TypeOK, Begin, File, Steps
<1>2. CASE SyncTemp \/ LinkBackup \/ CallFails
  BY <1>2 DEF TypeOK, CompleteFiles, BeforeRename, SyncTemp, LinkBackup, CallFails,
              File, Steps, dir
<1>3. CASE SyncLink \/ SaveAnother \/ SyncRename \/ SyncRollback
  BY <1>3 DEF TypeOK, SyncLink, SaveAnother, SyncRename, SyncRollback,
              SyncDirectory, Steps
<1>4. CASE Rename \/ Rollback
  BY <1>4 DEF TypeOK, Rename, Rollback, Show, Steps
<1>5. CASE ReturnError \/ ReturnOk
  BY <1>5 DEF TypeOK, ReturnError, ReturnOk, Steps
<1>6. CASE Killed \/ PowerFails
  BY <1>6 DEF TypeOK, Killed, PowerFails, Down, Steps
<1>7. CASE OpenStore
  <2>1. Found(path) \in Value
    BY FoundType DEF TypeOK
  <2>2. QED
    BY <1>7, <2>1 DEF TypeOK, OpenStore, dir
<1>8. CASE UNCHANGED vars
  BY <1>8 DEF TypeOK, vars, dir
<1>9. QED
  BY <1>1, <1>2, <1>3, <1>4, <1>5, <1>6, <1>7, <1>8 DEF Next

\* A torn file never gets a name that a restart reads, whatever fails.
LEMMA StepComplete ==
    ASSUME TypeOK, CompleteFiles, ConstantsAssumption, [Next]_vars
    PROVE  CompleteFiles'
<1> USE DEF CompleteFiles, NeverTorn, BeforeRename
<1>1. ASSUME NEW v \in Value, Begin(v) PROVE CompleteFiles'
  <2>1. [value |-> v, synced |-> FALSE] \in File
    BY DEF File
  <2>2. None \notin File
    BY DEF ConstantsAssumption
  <2>3. QED
    BY <1>1, <2>1, <2>2 DEF Begin
<1>2. CASE SyncTemp
  BY <1>2 DEF TypeOK, SyncTemp, File
<1>3. CASE LinkBackup \/ CallFails
  BY <1>3 DEF TypeOK, LinkBackup, CallFails, dir
<1>4. CASE SyncLink \/ SaveAnother \/ SyncRename \/ SyncRollback
  BY <1>4 DEF TypeOK, SyncLink, SaveAnother, SyncRename, SyncRollback, SyncDirectory
<1>5. CASE Rename \/ Rollback
  BY <1>5 DEF TypeOK, Rename, Rollback, Show
<1>6. CASE ReturnError \/ ReturnOk \/ OpenStore
  BY <1>6 DEF TypeOK, ReturnError, ReturnOk, OpenStore, dir
<1>7. CASE Killed \/ PowerFails
  BY <1>7 DEF TypeOK, Killed, PowerFails, Down
<1>8. CASE UNCHANGED vars
  BY <1>8 DEF vars, dir
<1>9. QED
  BY <1>1, <1>2, <1>3, <1>4, <1>5, <1>6, <1>7, <1>8 DEF Next

\* The stages follow each other.
LEMMA StepStages ==
    ASSUME TypeOK, CompleteFiles, SaveStages, ConstantsAssumption, [Next]_vars
    PROVE  SaveStages'
<1> USE DEF SaveStages, BeforeRename
<1>1. ASSUME NEW v \in Value, Begin(v) PROVE SaveStages'
  BY <1>1 DEF Begin, Found
<1>2. CASE SyncTemp \/ LinkBackup \/ CallFails
  BY <1>2 DEF SyncTemp, LinkBackup, CallFails, dir, Found
<1>3. CASE SyncLink \/ SaveAnother
  BY <1>3 DEF SyncLink, SaveAnother, SyncDirectory, Found
<1>4. CASE Rename
  BY <1>4 DEF TypeOK, CompleteFiles, Rename, Show, Found
<1>5. CASE SyncRename \/ SyncRollback
  BY <1>5 DEF SyncRename, SyncRollback, SyncDirectory, Found
<1>6. CASE Rollback
  BY <1>6 DEF Rollback, Show, Found
<1>7. CASE ReturnError \/ ReturnOk \/ OpenStore
  BY <1>7 DEF TypeOK, ReturnError, ReturnOk, OpenStore, dir, Found
<1>8. CASE Killed \/ PowerFails
  BY <1>8 DEF Killed, PowerFails, Down
<1>9. CASE UNCHANGED vars
  BY <1>9 DEF vars, dir, Found
<1>10. QED
  BY <1>1, <1>2, <1>3, <1>4, <1>5, <1>6, <1>7, <1>8, <1>9 DEF Next

-----------------------------------------------------------------------------
(* Refinement *)

\* What the refinement is proved from.
SaveInv == TypeOK /\ CompleteFiles /\ SaveStages

\* Where a save starts: one file, on the disk.
LEMMA InitStages == ASSUME ConstantsAssumption, Init PROVE SaveInv
<1>1. PICK v \in Value : path = IF v = Absent THEN None ELSE [value |-> v, synced |-> TRUE]
  BY DEF Init
<1>2. TypeOK
  <2>1. path \in File \cup {None}
    BY <1>1 DEF File
  <2>2. Found(path) \in Value
    BY <2>1, FoundType
  <2>3. QED
    BY <2>1, <2>2 DEF Init, TypeOK, Steps
<1>3. CompleteFiles
  BY <1>1 DEF Init, CompleteFiles, NeverTorn, BeforeRename
<1>4. SaveStages
  BY DEF Init, SaveStages, BeforeRename
<1>5. QED
  BY <1>2, <1>3, <1>4 DEF SaveInv

\* The values a restart can find are known once the files are.
LEMMA StepRefines ==
    ASSUME SaveInv, SaveInv', ConstantsAssumption, [Next]_vars
    PROVE  [Promise!Next]_(Promise!vars)
<1> DEFINE found == {Found(f) : f \in possible}
<1> USE DEF SaveInv
<1>0. Absent \in Value /\ None \notin Value
  BY DEF ConstantsAssumption
<1>1. CASE UNCHANGED <<memory, possible, apart>>
  BY <1>1 DEF Promise!vars, Found
<1>2. (\E v \in Value : Begin(v)) \/ SyncTemp \/ LinkBackup \/ CallFails \/ ReturnError
        => UNCHANGED <<memory, possible, apart>>
  BY DEF Begin, SyncTemp, LinkBackup, CallFails, ReturnError, dir
<1>3. ASSUME SyncDirectory, UNCHANGED <<memory, apart>>, ~apart => Found(path) = memory
      PROVE  Promise!Move
  <2>1. found' = {Found(path)} /\ Found(path) \in found /\ Found(path) \in Value
    BY <1>3, FoundType DEF SyncDirectory, TypeOK, Found
  <2>2. QED
    BY <1>3, <2>1 DEF Promise!Move
<1>4. CASE SyncLink \/ SaveAnother \/ SyncRollback
  <2>1. UNCHANGED <<memory, apart>> /\ (~apart => Found(path) = memory)
    BY <1>4 DEF SyncLink, SaveAnother, SyncRollback, SaveStages, BeforeRename
  <2>2. SyncDirectory \/ UNCHANGED possible
    BY <1>4 DEF SyncLink, SaveAnother, SyncRollback
  <2>3. QED
    BY <1>1, <1>3, <2>1, <2>2 DEF Promise!Next
<1>5. ASSUME NEW f, Show(f), UNCHANGED <<memory, apart>>, ~apart => memory \in found,
             Found(f) \in Value
      PROVE  Promise!Move
  <2>1. found' = found \cup {Found(f)}
    BY <1>5 DEF Show, Found
  <2>2. QED
    BY <1>5, <2>1 DEF Promise!Move
<1>6. CASE Rename
  <2>1. ~apart => Found(path) = memory /\ path \in possible
    BY <1>6 DEF Rename, SaveStages, BeforeRename, TypeOK
  <2>2. Found(temp) \in Value
    BY FoundType DEF TypeOK
  <2>3. QED
    BY <1>5, <1>6, <2>1, <2>2 DEF Rename, Promise!Next
<1>7. CASE Rollback
  <2>1. CASE Show(backup) /\ UNCHANGED apart
    <3>1. ~apart => Found(backup) = memory /\ backup \in possible
      BY <1>7 DEF Rollback, SaveStages
    <3>2. Found(backup) \in Value
      BY FoundType DEF TypeOK
    <3>3. QED
      BY <1>5, <1>7, <2>1, <3>1, <3>2 DEF Rollback, Promise!Next
  <2>2. CASE apart' = TRUE /\ UNCHANGED possible
    <3>1. memory # None /\ UNCHANGED memory
      BY <1>7 DEF Rollback, SaveStages
    <3>2. UNCHANGED found
      BY <2>2 DEF Found
    <3>3. QED
      BY <2>2, <3>1, <3>2 DEF Promise!Unsettle, Promise!Next
  <2>3. QED
    BY <1>7, <2>1, <2>2 DEF Rollback
<1>8. CASE SyncRename
  <2>1. CASE SyncDirectory /\ UNCHANGED <<memory, apart>>
    <3>1. Found(path) = new /\ new \in Value
      BY <1>8 DEF SyncRename, SaveStages, TypeOK
    <3>2. found' = {new} /\ new \in found
      BY <2>1, <3>1 DEF SyncDirectory, TypeOK, Found
    <3>3. QED
      BY <2>1, <3>1, <3>2 DEF Promise!Move, Promise!Next
  <2>2. QED
    BY <1>1, <1>8, <2>1 DEF SyncRename
<1>9. CASE ReturnOk
  <2>1. memory' = new /\ memory # None /\ possible = {path} /\ Found(path) = new
        /\ UNCHANGED possible /\ apart' = FALSE
    BY <1>9 DEF ReturnOk, SaveStages
  <2>2. found = {new} /\ UNCHANGED found
    BY <2>1 DEF Found
  <2>3. QED
    BY <2>1, <2>2 DEF Promise!Adopt, Promise!Next
<1>10. CASE Killed \/ PowerFails
  <2>1. memory' = None /\ apart' = FALSE
    BY <1>10 DEF Killed, PowerFails, Down, SaveStages
  <2>2. possible' \subseteq possible /\ possible' # {}
    BY <1>10 DEF Killed, PowerFails, TypeOK
  <2>3. found' \subseteq found /\ found' # {}
    BY <2>2 DEF Found
  <2>4. QED
    BY <2>1, <2>3 DEF Promise!Lose, Promise!Next
<1>11. CASE OpenStore
  <2>1. memory = None /\ memory' = Found(path) /\ path \in possible
        /\ UNCHANGED <<possible, apart>>
    BY <1>11 DEF OpenStore, TypeOK, dir
  <2>2. QED
    BY <2>1 DEF Promise!Recover, Promise!Next, Found
<1>12. CASE UNCHANGED vars
  BY <1>1, <1>12 DEF vars
<1>13. QED
  BY <1>1, <1>2, <1>4, <1>6, <1>7, <1>8, <1>9, <1>10, <1>11, <1>12 DEF Next

\* Whatever the set of values and whatever fails, a restart never finds a file
\* that was torn (store.rs:52, the sync before the rename).
THEOREM NoTornFile == Spec => [](TypeOK /\ CompleteFiles)
<1>1. Init => TypeOK /\ CompleteFiles
  BY InitStages, ConstantsAssumption DEF SaveInv
<1>2. TypeOK /\ CompleteFiles /\ [Next]_vars => (TypeOK /\ CompleteFiles)'
  BY StepTypes, StepComplete, ConstantsAssumption
<1>3. QED
  BY <1>1, <1>2, PTL DEF Spec

\* Types of the files and of the save under way (store.rs:33).
THEOREM StoreTypes == Spec => []TypeOK
<1>1. TypeOK /\ CompleteFiles => TypeOK
  OBVIOUS
<1>2. QED
  BY <1>1, NoTornFile, PTL

\* The invariant of the runs.
THEOREM FilesNeverTorn == Spec => []NeverTorn
<1>1. TypeOK /\ CompleteFiles => NeverTorn
  BY DEF CompleteFiles
<1>2. QED
  BY <1>1, NoTornFile, PTL

\* store::atomic, call by call and with a crash after any of them, implements the
\* register of Register; a rename that cannot be undone unsettles it until the
\* next save that succeeds, or a restart (store.rs:33-85).
THEOREM StoreKeepsPromise == Spec => KeepsPromise
<1>1. Init => SaveInv
  BY InitStages, ConstantsAssumption
<1>2. SaveInv /\ [Next]_vars => SaveInv'
  BY StepTypes, StepComplete, StepStages, ConstantsAssumption DEF SaveInv
<1>3. Init => Promise!Init
  BY <1>1 DEF Init, Promise!Init, SaveInv, TypeOK, Found
<1>4. SaveInv /\ SaveInv' /\ [Next]_vars => [Promise!Next]_(Promise!vars)
  BY StepRefines, ConstantsAssumption
<1>5. QED
  BY <1>1, <1>2, <1>3, <1>4, PTL DEF Spec, KeepsPromise, Promise!Spec

\* And what the daemon acts on is what the file says between two saves.
THEOREM FileAndMemoryAgree == Spec => []FileMatchesMemory
<1>1. Init => SaveInv
  BY InitStages, ConstantsAssumption
<1>2. SaveInv /\ [Next]_vars => SaveInv'
  BY StepTypes, StepComplete, StepStages, ConstantsAssumption DEF SaveInv
<1>3. SaveInv => FileMatchesMemory
  BY DEF SaveInv, SaveStages, FileMatchesMemory
<1>4. QED
  BY <1>1, <1>2, <1>3, PTL DEF Spec

\* When Store::configure and its like report success, no crash brings another value
\* back and the daemon acts on the value saved, even after a rollback that failed
\* (atomic returns Ok only from a sync that committed the rename).
THEOREM SuccessIsSettled == Spec => SuccessSettles
<1>1. Init => SaveInv
  BY InitStages, ConstantsAssumption
<1>2. SaveInv /\ [Next]_vars => SaveInv'
  BY StepTypes, StepComplete, StepStages, ConstantsAssumption DEF SaveInv
<1>3. ASSUME SaveInv, Next, step = "return", step' = "idle", memory' # None
      PROVE  possible' = {path'} /\ Found(path') = new /\ memory' = new
  <2>1. ReturnOk
    BY <1>3 DEF Next, Begin, SyncTemp, LinkBackup, SyncLink, Rename, SyncRename, Rollback,
                SyncRollback, CallFails, ReturnError, SaveAnother, Killed, PowerFails,
                OpenStore, Down
  <2>2. possible = {path} /\ Found(path) = new
    BY <1>3 DEF SaveInv, SaveStages
  <2>3. UNCHANGED <<path, possible, new>> /\ memory' = new
    BY <2>1 DEF ReturnOk
  <2>4. QED
    BY <2>2, <2>3 DEF Found
<1>4. SaveInv /\ [Next]_vars =>
        [step = "return" /\ step' = "idle" /\ memory' # None
           => possible' = {path'} /\ Found(path') = new /\ memory' = new]_vars
  BY <1>3
<1>5. QED
  BY <1>1, <1>2, <1>4, PTL DEF Spec, SuccessSettles
=============================================================================
