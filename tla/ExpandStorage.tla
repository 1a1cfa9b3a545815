--------------------------- MODULE ExpandStorage ---------------------------
(***************************************************************************)
(* The first boot's reformat, overlay/usr/sbin/expand-storage: grow the    *)
(* card's FAT partition, stage its files on /data, make a new file system  *)
(* over it, copy the files back.  Power may go and steps may fail; the     *)
(* next boot starts the script again and decides from what it finds.       *)
(*                                                                         *)
(* /data is ext4.  Its journal makes a prefix of the changes to names      *)
(* durable at any time; the data of a new file may come later, and a cut   *)
(* before it does leaves the file there, hollow.  The FAT is not ordered   *)
(* at all: a cut keeps any part of what was not synced.                    *)
(***************************************************************************)
EXTENDS Naturals

CONSTANTS
  Files,      \* names that may lie on the FAT
  Provided,   \* those the script supplies when the card has none
  Shipped,    \* those the user's preloader installer has left there
  MaxFaults,  \* bound: power cuts and failing steps together
  Exposed     \* the hazard windows this instance opens, see Windows

(***************************************************************************)
(* Events that cost files:                                                 *)
(*   "hollow"    the journal commits the renaming before the files' data   *)
(*   "unstage"   the journal commits half of rm -rf                        *)
(*   "mount"     the old file system does not mount though it is sound     *)
(*   "restore"   a file does not copy back                                 *)
(*   "pending"   files are put on the card while a staging area waits      *)
(* What one of them takes is recorded in `lost`.                           *)
(***************************************************************************)
Windows == {"hollow", "unstage", "mount", "restore", "pending"}

ASSUME FilesAssumption == Provided \subseteq Files /\ Shipped \subseteq Files

ASSUME ExpandInstance == MaxFaults \in Nat /\ Exposed \subseteq Windows

VARIABLES
  grown,      \* the partition fills the device (gptgrow, one fsynced step)
  fat, fatD,  \* the FAT as mounted, and on the card
  stage, stageD,  \* /data/expand-stage or its .part, cached and durable
  done, doneD,    \* /data/expanded
  pc,         \* the script's next step; "up" once it has exited
  bornFull,   \* history variable: the partition filled the card from the start
  saved,      \* history variable: the files the user has put on the FAT
  lost,       \* history variable: those that an event in Windows has taken
  faults

disk == <<fat, fatD>>
data == <<stage, stageD, done, doneD>>
ghosts == <<bornFull, saved, lost>>
vars == <<grown, disk, data, pc, ghosts, faults>>

-----------------------------------------------------------------------------
\* A file is absent, the user's, the script's own or, its data not on the card,
\* hollow.  A FAT is small, big or broken; a staging area none, part or staged.
NoFiles == [f \in Files |-> "none"]
Broken == [fs |-> "broken", file |-> NoFiles]
NoArea == [dir |-> "none", file |-> NoFiles]

\* Of the files of `file` those in keep.
Only(file, keep) == [f \in Files |-> IF f \in keep THEN file[f] ELSE "none"]

Staged == stage.dir = "staged"

Init ==
  /\ bornFull \in BOOLEAN /\ grown = bornFull
  /\ fat = [fs |-> IF grown THEN "big" ELSE "small",
            file |-> [f \in Files |-> IF f \in Shipped THEN "user" ELSE "none"]]
  /\ fatD = fat
  /\ stage = NoArea /\ stageD = NoArea
  /\ done = FALSE /\ doneD = FALSE
  /\ pc = "off"
  /\ saved = Shipped /\ lost = {}
  /\ faults = 0

Goto(next) == pc' = next /\ UNCHANGED <<ghosts, faults>>
Fault == faults < MaxFaults /\ faults' = faults + 1 /\ UNCHANGED ghosts
Sync == fatD' = fat /\ stageD' = stage /\ doneD' = done /\ UNCHANGED <<fat, stage, done>>

-----------------------------------------------------------------------------
(* The script, one action per statement that changes something.            *)

PowerOn ==
  /\ pc = "off"
  /\ Goto(IF done THEN "up" ELSE "grow")
  /\ UNCHANGED <<grown, disk, data>>

Grow ==
  /\ pc = "grow" /\ ~grown
  /\ grown' = TRUE
  /\ Goto(IF Staged THEN "mkfs" ELSE "stage")
  /\ UNCHANGED <<disk, data>>

\* Mutant: a waiting staging area is not looked for.
AlreadyFullUnasked ==
  /\ pc = "grow" /\ grown
  /\ done' = TRUE
  /\ Goto("up")
  /\ UNCHANGED <<grown, disk, stage, stageD, doneD>>

\* gptgrow answers 1 and nothing is staged: not a card this script grew.
AlreadyFull ==
  /\ pc = "grow" /\ grown /\ ~Staged
  /\ done' = TRUE
  /\ Goto("up")
  /\ UNCHANGED <<grown, disk, stage, stageD, doneD>>

\* Mutant: gptgrow's answer 1 is taken for an error.
ResumeRefused ==
  /\ pc = "grow" /\ grown /\ Staged
  /\ Goto("up")
  /\ UNCHANGED <<grown, disk, data>>

Resume ==
  /\ pc = "grow" /\ grown /\ Staged
  /\ Goto("mkfs")
  /\ UNCHANGED <<grown, disk, data>>

\* gptgrow answers 2 and the table stands.  (An error after the table has
\* reached the card leaves what a cut after Grow leaves.)
GrowFails ==
  /\ pc = "grow" /\ ~grown
  /\ pc' = "up" /\ Fault
  /\ UNCHANGED <<grown, disk, data>>

\* A file system that does not mount leaves the staging area empty.
Stage ==
  /\ pc = "stage"
  /\ \E mounts \in {fat.fs # "broken"} \cup (IF "mount" \in Exposed THEN {FALSE} ELSE {}) :
       /\ stage' = [dir |-> "part", file |-> IF mounts THEN fat.file ELSE NoFiles]
       /\ lost' = IF mounts THEN lost ELSE saved
  /\ pc' = "rename"
  /\ UNCHANGED <<grown, disk, stageD, done, doneD, bornFull, saved, faults>>

\* cp fails part of the way, and the script gives up.
StageFails ==
  /\ pc = "stage" /\ fat.fs # "broken"
  /\ \E keep \in SUBSET Files :
       stage' = [dir |-> "part", file |-> Only(fat.file, keep)]
  /\ pc' = "up" /\ Fault
  /\ UNCHANGED <<grown, disk, stageD, done, doneD>>

Rename ==
  /\ pc = "rename"
  /\ stage' = [stage EXCEPT !.dir = "staged"]
  /\ Goto("stageSync")
  /\ UNCHANGED <<grown, disk, stageD, done, doneD>>

\* Mutant: mkfs does not wait for the staged files.
StageUnsynced ==
  /\ pc = "stageSync"
  /\ Goto("mkfs")
  /\ UNCHANGED <<grown, disk, data>>

StageSync == pc = "stageSync" /\ Sync /\ Goto("mkfs") /\ UNCHANGED grown

Mkfs ==
  /\ pc = "mkfs"
  /\ fat' = [fs |-> "big", file |-> NoFiles]
  /\ Goto("restore")
  /\ UNCHANGED <<grown, fatD, data>>

MkfsFails ==
  /\ pc = "mkfs"
  /\ fat' \in {fat, Broken}
  /\ pc' = "up" /\ Fault
  /\ UNCHANGED <<grown, fatD, data>>

\* cp's status is not looked at: with "restore" exposed files may be missing.
Restore ==
  /\ pc = "restore"
  /\ \E keep \in {Files} \cup (IF "restore" \in Exposed THEN SUBSET Files ELSE {}) :
       /\ fat' = [fat EXCEPT !.file = Only(stage.file, keep)]
       /\ lost' = lost \cup (saved \ keep)
  /\ pc' = "provide"
  /\ UNCHANGED <<grown, fatD, data, bornFull, saved, faults>>

\* The new file system does not mount: leave the rest to the next boot.
MountFails ==
  /\ pc = "restore"
  /\ pc' = "up" /\ Fault
  /\ UNCHANGED <<grown, disk, data>>

Provide ==
  /\ pc = "provide"
  /\ fat' = [fat EXCEPT !.file =
               [f \in Files |-> IF f \in Provided /\ @[f] = "none" THEN "default" ELSE @[f]]]
  /\ Goto("restoreSync")
  /\ UNCHANGED <<grown, fatD, data>>

\* Mutant: the staging area goes before the files are on the card.
RestoreUnsynced ==
  /\ pc = "restoreSync"
  /\ Goto("unstage")
  /\ UNCHANGED <<grown, disk, data>>

RestoreSync == pc = "restoreSync" /\ Sync /\ Goto("unstage") /\ UNCHANGED grown

\* rm -rf takes the names one by one, then the directory.
UnstageFile(f) ==
  /\ pc = "unstage"
  /\ stage.file[f] # "none"
  /\ stage' = [stage EXCEPT !.file[f] = "none"]
  /\ UNCHANGED <<grown, disk, stageD, done, doneD, pc, ghosts, faults>>

UnstageDir ==
  /\ pc = "unstage"
  /\ stage.file = NoFiles
  /\ stage' = NoArea
  /\ Goto("touch")
  /\ UNCHANGED <<grown, disk, stageD, done, doneD>>

Touch ==
  /\ pc = "touch"
  /\ done' = TRUE
  /\ Goto("lastSync")
  /\ UNCHANGED <<grown, disk, stage, stageD, doneD>>

LastSync == pc = "lastSync" /\ Sync /\ Goto("up") /\ UNCHANGED grown

-----------------------------------------------------------------------------
(* The user, the kernel and the power.                                     *)

ShutDown == pc = "up" /\ Sync /\ Goto("off") /\ UNCHANGED grown

\* The user adds a file to a readable FAT, in the device or out of it.  Unless
\* "pending" is exposed, not while the next boot would reformat from the stage.
UserSaves(f) ==
  /\ pc = "off"
  /\ fat.fs # "broken"
  /\ "pending" \in Exposed \/ done \/ ~Staged
  /\ fat' = [fat EXCEPT !.file[f] = "user"]
  /\ fatD' = fat'
  /\ saved' = saved \cup {f}
  /\ lost' = IF done \/ ~Staged THEN lost \ {f} ELSE lost \cup {f}
  /\ UNCHANGED <<grown, data, pc, bornFull, faults>>

HalfRemoved == pc = "unstage" /\ stage # stageD

\* ext4 commits its names as they stand; any data still to be written stays so.
JournalCommit ==
  /\ pc # "off"
  /\ <<stage, done>> # <<stageD, doneD>>
  /\ HalfRemoved => "unstage" \in Exposed
  /\ \E late \in SUBSET {f \in Files : stage.file[f] \notin {"none", stageD.file[f]}} :
       /\ late # {} /\ pc = "stageSync" => "hollow" \in Exposed
       /\ stageD' = [stage EXCEPT !.file =
                    [f \in Files |-> IF f \in late THEN "hollow" ELSE @[f]]]
  /\ doneD' = done
  /\ UNCHANGED <<grown, disk, stage, done, pc, ghosts, faults>>

\* The files a cut takes: the staging area counts on the card, and they are not
\* yet, or no longer, in it.
CutTakes ==
  {f \in saved : /\ stageD.dir = "staged"
                 /\ \/ pc = "stageSync" /\ stageD.file[f] = "hollow"
                    \/ pc \in {"unstage", "touch", "lastSync"} /\ stageD.file[f] = "none"}

PowerCut ==
  /\ pc # "off"
  /\ pc' = "off"
  /\ faults < MaxFaults /\ faults' = faults + 1
  /\ lost' = lost \cup CutTakes
  /\ fat' \in IF fat = fatD THEN {fat}
              ELSE {fatD, Broken} \cup
                   {[fat EXCEPT !.file = Only(@, keep)] : keep \in SUBSET Files}
  /\ fatD' = fat'
  /\ stage' = stageD /\ done' = doneD
  /\ UNCHANGED <<grown, stageD, doneD, bornFull, saved>>

-----------------------------------------------------------------------------
Script ==
  \/ Grow \/ AlreadyFull \/ Resume \/ Stage \/ Rename \/ StageSync \/ Mkfs
  \/ Restore \/ Provide \/ RestoreSync \/ (\E f \in Files : UnstageFile(f))
  \/ UnstageDir \/ Touch \/ LastSync

Failures ==
  \/ GrowFails \/ StageFails \/ MkfsFails \/ MountFails \/ PowerCut

Next ==
  \/ PowerOn \/ Script \/ Failures \/ ShutDown \/ JournalCommit
  \/ \E f \in Files : UserSaves(f)

Spec == Init /\ [][Next]_vars

(***************************************************************************)
(* Fairness: the script runs on, and the device is used, that is switched  *)
(* off and on again.  Cuts, failures and writeback owe nothing.            *)
(***************************************************************************)
FairSpec == Spec /\ WF_vars(Script) /\ WF_vars(PowerOn \/ ShutDown)

-----------------------------------------------------------------------------
\* f is whole in the copy the next boot starts from: the staging area if that is
\* what it will restore, the FAT otherwise.
Kept(f) == IF Staged /\ ~done THEN stage.file[f] = "user" ELSE fat.file[f] = "user"

\* Wherever the last boot stopped, no file the user ever put on the card is gone
\* but those the named events have taken.
Recoverable == pc = "off" => \A f \in saved \ lost : Kept(f)

\* "A power cut leaves work the next boot redoes rather than files it has lost";
\* what is on the card is "staged on /data and restored after".
NoFileLost == pc = "off" => \A f \in saved : Kept(f)

\* mkfs never destroys the only durable copy of a file, but for those an event has
\* taken already.
WipeOnlyStaged ==
  [][pc = "mkfs" /\ fat' # fat =>
       \A f \in saved \ lost : fatD.file[f] = "user" =>
         stageD.dir = "staged" /\ stageD.file[f] = "user"]_vars

\* The boot that takes a card the script has grown for one it has not, though
\* "a power cut leaves work the next boot redoes": it is marked done as it is.
TakenForFull == pc = "grow" /\ grown /\ ~Staged /\ fat.fs # "big"

\* However often it is interrupted, a device in use ends up with the work over,
\* every file in place that no event has taken, and a file system that fills the
\* card unless a boot has passed the card over.
EventuallySettled ==
  /\ <>[](done /\ \A f \in saved \ lost : fat.file[f] = "user")
  /\ <>[](fat.fs = "big") \/ <>TakenForFull

=============================================================================
