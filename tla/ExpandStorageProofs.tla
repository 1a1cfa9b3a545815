------------------------- MODULE ExpandStorageProofs -------------------------
(***************************************************************************)
(* Proofs about ExpandStorage, for any files, any number of faults and any *)
(* of the events that cost files.                                          *)
(*                                                                         *)
(* The argument: the staging area, once it has its name, has every file no *)
(* event has taken and is the script's only source until the files are     *)
(* back and synced; without one the FAT is as the card has it and has them.*)
(* What a cut leaves is one or the other, short of the files CutTakes.     *)
(***************************************************************************)
EXTENDS ExpandStorage, TLAPS

\* v, a FAT or a staging area, has every file the user has saved and kept.
Whole(v) == \A f \in saved \ lost : v.file[f] = "user"

Contents == [Files -> {"none", "user", "default", "hollow"}]

TypeInv ==
  /\ fat \in [fs : {"small", "big", "broken"}, file : Contents]
  /\ fatD \in [fs : {"small", "big", "broken"}, file : Contents]
  /\ stage \in [dir : {"none", "part", "staged"}, file : Contents]
  /\ stageD \in [dir : {"none", "part", "staged"}, file : Contents]
  /\ done \in BOOLEAN /\ doneD \in BOOLEAN
  /\ saved \in SUBSET Files
  /\ pc \in {"off", "grow", "stage", "rename", "stageSync", "mkfs", "restore", "provide",
             "restoreSync", "unstage", "touch", "lastSync", "up"}

\* A FAT that does not mount shows no files.
BrokenInv ==
  /\ fat.fs = "broken" => fat = Broken
  /\ fatD.fs = "broken" => fatD = Broken

\* What the card has: a staging area to resume from, whole but for what a cut
\* would take now, or a whole FAT.
DurableInv ==
  IF stageD.dir = "staged"
  THEN ~doneD /\ \A f \in (saved \ lost) \ CutTakes : stageD.file[f] = "user"
  ELSE fat = fatD /\ Whole(fat)

\* What the system sees: the same, until the staging area is taken down.
CacheInv ==
  /\ Staged => ~done /\ (Whole(stage) \/ pc = "unstage")
  /\ ~Staged \/ pc = "unstage" => fat = fatD /\ Whole(fat)

PlaceInv ==
  /\ pc = "off" => fat = fatD
  /\ pc \in {"off", "grow"} => stage = stageD /\ done = doneD
  /\ pc \notin {"off", "lastSync", "up"} => ~done
  /\ pc = "stage" => ~Staged
  /\ pc \in {"stage", "rename"} => stageD.dir # "staged"
  /\ pc = "rename" => ~Staged /\ Whole(stage)
  /\ pc \in {"stageSync", "unstage"} => Staged
  /\ pc \in {"mkfs", "restore", "provide", "restoreSync"} => Staged /\ stage = stageD
  /\ pc \in {"restore", "provide", "restoreSync"} => fat.fs = "big"
  /\ pc \in {"provide", "restoreSync"} => Whole(fat)
  /\ pc = "unstage" => /\ stageD.dir = "staged"
                       /\ \A f \in Files : stage.file[f] \in {"none", stageD.file[f]}
  /\ pc \in {"touch", "lastSync"} => ~Staged
  /\ pc = "up" /\ Staged => stage = stageD

StageInv == TypeInv /\ BrokenInv /\ DurableInv /\ CacheInv /\ PlaceInv

-----------------------------------------------------------------------------
\* A new card, its partition grown at the factory or not.
LEMMA InitStageInv == Init => StageInv
<1> SUFFICES ASSUME Init PROVE StageInv
  OBVIOUS
<1>1. TypeInv
  BY FilesAssumption DEF Init, TypeInv, Contents, NoArea, NoFiles
<1>2. Whole(fat) /\ fat.fs # "broken"
  BY FilesAssumption DEF Init, Whole
<1>3. stage = NoArea /\ stage.dir = "none"
  BY DEF Init, NoArea
<1> QED
  BY <1>1, <1>2, <1>3 DEF Init, StageInv, BrokenInv, DurableInv, CacheInv, PlaceInv, Staged

\* Steps of the script before there is anything to lose.
LEMMA StepBefore ==
  ASSUME StageInv,
         PowerOn \/ Grow \/ AlreadyFull \/ Resume \/ GrowFails
  PROVE StageInv'
<1> USE DEF StageInv, TypeInv, BrokenInv, DurableInv, CacheInv, PlaceInv, Staged, Whole, CutTakes,
        Goto, Fault, disk, data, ghosts
<1>1. CASE PowerOn
  BY <1>1 DEF PowerOn
<1>2. CASE Grow \/ Resume
  BY <1>2 DEF Grow, Resume
<1>3. CASE AlreadyFull
  BY <1>3 DEF AlreadyFull
<1>4. CASE GrowFails
  BY <1>4 DEF GrowFails
<1> QED
  BY <1>1, <1>2, <1>3, <1>4

\* The files are staged under a name that is not looked for, which then changes.
LEMMA StepStage ==
  ASSUME StageInv, Stage \/ StageFails \/ Rename \/ StageSync
  PROVE StageInv'
<1> USE DEF StageInv, TypeInv, BrokenInv, DurableInv, CacheInv, PlaceInv, Staged, Whole, CutTakes,
        Goto, Fault, disk, data, ghosts
<1>1. CASE Stage
  <2>1. PICK mounts \in BOOLEAN :
          /\ stage' = [dir |-> "part", file |-> IF mounts THEN fat.file ELSE NoFiles]
          /\ lost' = IF mounts THEN lost ELSE saved
    BY <1>1 DEF Stage
  <2>2. /\ stage' \in [dir : {"none", "part", "staged"}, file : Contents]
        /\ stage'.dir = "part" /\ (mounts => stage'.file = fat.file)
    BY <2>1 DEF NoFiles, Contents
  <2> QED
    BY <1>1, <2>1, <2>2 DEF Stage
<1>2. CASE StageFails
  BY <1>2 DEF StageFails, Only, Contents
<1>3. CASE Rename
  <2>1. stage'.dir = "staged" /\ stage'.file = stage.file /\ DOMAIN stage' = {"dir", "file"}
    BY <1>3 DEF Rename
  <2>2. stage' \in [dir : {"none", "part", "staged"}, file : Contents]
    BY <1>3 DEF Rename
  <2> QED
    BY <1>3, <2>1, <2>2 DEF Rename
<1>4. CASE StageSync
  BY <1>4 DEF StageSync, Sync
<1> QED
  BY <1>1, <1>2, <1>3, <1>4

\* The FAT is made anew and filled from the staging area.
LEMMA StepRestore ==
  ASSUME StageInv,
         Mkfs \/ MkfsFails \/ Restore \/ MountFails \/ Provide \/ RestoreSync
  PROVE StageInv'
<1> USE DEF StageInv, TypeInv, BrokenInv, DurableInv, CacheInv, PlaceInv, Staged, Whole, CutTakes,
        Goto, Fault, disk, data, ghosts
<1>1. CASE Mkfs \/ MkfsFails
  BY <1>1 DEF Mkfs, MkfsFails, Broken, NoFiles, Contents
<1>2. CASE Restore
  <2>1. PICK keep \in SUBSET Files :
          /\ fat' = [fat EXCEPT !.file = Only(stage.file, keep)]
          /\ lost' = lost \cup (saved \ keep)
    BY <1>2 DEF Restore
  <2> DEFINE file == Only(stage.file, keep)
  <2>2. file \in Contents /\ \A f \in keep : file[f] = stage.file[f]
    BY DEF Only, Contents
  <2> HIDE DEF file
  <2>3. /\ fat' \in [fs : {"small", "big", "broken"}, file : Contents]
        /\ fat'.fs = fat.fs /\ fat'.file = file
    BY <2>1, <2>2 DEF file
  <2> QED
    BY <1>2, <2>1, <2>2, <2>3 DEF Restore
<1>3. CASE MountFails
  BY <1>3 DEF MountFails
<1>4. CASE Provide
  <2> DEFINE file == [f \in Files |->
                        IF f \in Provided /\ fat.file[f] = "none" THEN "default" ELSE fat.file[f]]
  <2>1. file \in Contents /\ \A f \in saved : fat.file[f] = "user" => file[f] = "user"
    BY DEF Contents
  <2>2. fat' = [fat EXCEPT !.file = file]
    BY <1>4 DEF Provide
  <2> HIDE DEF file
  <2>3. /\ fat' \in [fs : {"small", "big", "broken"}, file : Contents]
        /\ fat'.fs = fat.fs /\ fat'.file = file
    BY <2>1, <2>2
  <2> QED
    BY <1>4, <2>1, <2>3 DEF Provide
<1>5. CASE RestoreSync
  BY <1>5 DEF RestoreSync, Sync
<1> QED
  BY <1>1, <1>2, <1>3, <1>4, <1>5

\* The staging area goes, when the FAT no longer needs it.
LEMMA StepUnstage ==
  ASSUME StageInv,
         (\E f \in Files : UnstageFile(f)) \/ UnstageDir \/ Touch \/ LastSync \/ ShutDown
  PROVE StageInv'
<1> USE DEF StageInv, TypeInv, BrokenInv, DurableInv, CacheInv, PlaceInv, Staged, Whole, CutTakes,
        Goto, Fault, disk, data, ghosts
<1>1. ASSUME NEW f \in Files, UnstageFile(f)
      PROVE StageInv'
  BY <1>1 DEF UnstageFile, Contents
<1>2. CASE UnstageDir
  BY <1>2 DEF UnstageDir, NoArea, NoFiles, Contents
<1>3. CASE Touch
  BY <1>3 DEF Touch
<1>4. CASE LastSync \/ ShutDown
  BY <1>4 DEF LastSync, ShutDown, Sync
<1> QED
  BY <1>1, <1>2, <1>3, <1>4

\* The user, the journal and the power.
LEMMA StepAround ==
  ASSUME StageInv,
         (\E f \in Files : UserSaves(f)) \/ JournalCommit \/ PowerCut \/ UNCHANGED vars
  PROVE StageInv'
<1> USE DEF StageInv, TypeInv, BrokenInv, DurableInv, CacheInv, PlaceInv, Staged, Whole, CutTakes,
        Goto, Fault, disk, data, ghosts
<1>1. ASSUME NEW f \in Files, UserSaves(f)
      PROVE StageInv'
  BY <1>1 DEF UserSaves, Contents
<1>2. CASE JournalCommit
  <2>1. PICK late \in SUBSET {f \in Files : stage.file[f] \notin {"none", stageD.file[f]}} :
          stageD' = [stage EXCEPT !.file =
                       [f \in Files |-> IF f \in late THEN "hollow" ELSE @[f]]]
    BY <1>2 DEF JournalCommit
  <2> DEFINE file == [f \in Files |-> IF f \in late THEN "hollow" ELSE stage.file[f]]
  <2>2. file \in Contents /\ \A f \in Files : file[f] = IF f \in late THEN "hollow" ELSE stage.file[f]
    BY DEF Contents
  <2>3. stageD' = [stage EXCEPT !.file = file]
    BY <2>1
  <2> HIDE DEF file
  <2>4. /\ stageD' \in [dir : {"none", "part", "staged"}, file : Contents]
        /\ stageD'.dir = stage.dir /\ stageD'.file = file
    BY <2>2, <2>3
  <2>5. stage = stageD \/ pc = "unstage" => late = {}
    BY <2>1
  <2>6. late = {} => stageD'.file = stage.file /\ stageD' = stage
    <3>1. late = {} => file = stage.file
      BY <2>2 DEF Contents
    <3> QED
      BY <3>1, <2>3, <2>4
  <2>7. /\ stage' = stage /\ done' = done /\ doneD' = done /\ pc' = pc /\ saved' = saved
        /\ fat' = fat /\ fatD' = fatD /\ pc # "off" /\ lost' = lost
    BY <1>2 DEF JournalCommit
  <2>8. TypeInv' /\ BrokenInv' /\ CacheInv' /\ PlaceInv'
    BY <2>4, <2>5, <2>6, <2>7
  <2>9. DurableInv'
    BY <2>2, <2>4, <2>5, <2>6, <2>7
  <2> QED
    BY <2>8, <2>9
<1>3. CASE PowerCut
  BY <1>3 DEF PowerCut, Only, Broken, NoFiles, Contents
<1>4. CASE UNCHANGED vars
  BY <1>4 DEF vars
<1> QED
  BY <1>1, <1>2, <1>3, <1>4

\* StageInv is inductive.
THEOREM StageInvariant == Spec => []StageInv
<1>1. StageInv /\ [Next]_vars => StageInv'
  BY StepBefore, StepStage, StepRestore, StepUnstage, StepAround DEF Next, Script, Failures
<1> QED
  BY <1>1, InitStageInv, PTL DEF Spec

\* Wherever the last boot stopped, the copy the next one starts from has every
\* file the user ever put on the card, but for those a named event has taken.
THEOREM AlwaysRecoverable == Spec => []Recoverable
<1>1. StageInv => Recoverable
  BY DEF StageInv, Recoverable, Kept, PlaceInv, CacheInv, Whole, Staged
<1> QED
  BY <1>1, StageInvariant, PTL

\* mkfs never destroys the only durable copy of a file no event has taken.
THEOREM WipesOnlyStaged == Spec => WipeOnlyStaged
<1>1. StageInv /\ [Next]_vars =>
        [pc = "mkfs" /\ fat' # fat =>
           \A f \in saved \ lost : fatD.file[f] = "user" =>
             stageD.dir = "staged" /\ stageD.file[f] = "user"]_vars
  BY DEF StageInv, PlaceInv, DurableInv, CutTakes, Staged
<1> QED
  BY <1>1, StageInvariant, PTL DEF Spec, WipeOnlyStaged
=============================================================================
