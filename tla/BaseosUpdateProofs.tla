------------------------- MODULE BaseosUpdateProofs -------------------------
(***************************************************************************)
(* Proofs about BaseosUpdate, for any regions, releases, payloads and      *)
(* number of power cuts: first about apply, whichever windows are exposed, *)
(* then about the trials, while every window but a failing restoring flip  *)
(* is closed, and last about the versions a card goes through.             *)
(***************************************************************************)
EXTENDS BaseosUpdate, VersionOrderProofs, TLAPS

Applying == pc \in {"write", "verify", "flip"}

\* The half apply does not write holds the payload's image from selection on:
\* only spare halves of `regions` are written meanwhile.
JobInv ==
  Applying =>
    /\ todo \subseteq regions /\ open \subseteq regions
    /\ \E p \in Offered :
         /\ payload = {p}
         /\ \A r \in Regions \ regions : content[r][half[r]] = Image[p.release][r]

\* Nothing is written between the verification and the flip.
VerifiedInv == pc = "flip" => \A p \in payload : Verified(p)

ApplyInv == TypeOK /\ JobInv /\ VerifiedInv

-----------------------------------------------------------------------------
\* Every image a release may put in a region is one of Images.
LEMMA ImageType ==
  /\ \A rel \in Releases, r \in Regions : Image[rel][r] \in Images
  /\ \A p \in Offered : p.release \in Releases
  BY ImageAssumption, InstanceAssumption DEF Payload

\* A new card, before its first boot.
LEMMA InitApplyInv == Init => ApplyInv
<1> SUFFICES ASSUME Init PROVE ApplyInv
  OBVIOUS
<1>1. TypeOK
  BY ImageType, ReleaseAssumption, InstanceAssumption DEF Init, TypeOK, Halves,
     TrialFile, NoFile, MAX_TRIAL_BOOTS
<1>2. JobInv /\ VerifiedInv
  BY DEF Init, JobInv, VerifiedInv, Applying
<1> QED BY <1>1, <1>2 DEF ApplyInv

\* No step leaves the types.
LEMMA StepTypeOK == TypeOK /\ [Next]_vars => TypeOK'
<1> SUFFICES ASSUME TypeOK, [Next]_vars PROVE TypeOK'
  OBVIOUS
<1>1. ASSUME NEW p \in Offered, UserCopies(p) PROVE TypeOK'
  BY <1>1 DEF TypeOK, UserCopies, slots, files, job, ghosts
<1>2. ASSUME NEW p \in Offered, UserDeletes(p) PROVE TypeOK'
  BY <1>2 DEF TypeOK, UserDeletes, slots, files, job, ghosts
<1>3. ASSUME NEW rel \in Releases, Boot(rel) PROVE TypeOK'
  BY <1>3 DEF TypeOK, Boot, slots, files, job, ghosts
<1>4. CASE Hang
  BY <1>4 DEF TypeOK, Hang, slots, files, job, ghosts
<1>5. CASE PowerCycle
  BY <1>5 DEF TypeOK, PowerCycle, slots, ghosts, SyncFiles, PowerGone
<1>6. CASE ShutDown
  BY <1>6 DEF TypeOK, ShutDown, slots, ghosts, SyncFiles, PowerGone
<1>7. CASE PowerCut
  BY <1>7, InstanceAssumption DEF TypeOK, PowerCut, TrialFile, EmptyFile, slots,
     ghosts, PowerGone, MAX_TRIAL_BOOTS
<1>8. CASE WritebackState
  BY <1>8 DEF TypeOK, WritebackState, slots, job
<1>9. CASE WritebackHistory
  BY <1>9 DEF TypeOK, WritebackHistory, slots, job, ghosts
<1>10. CASE NoTrial
  BY <1>10 DEF TypeOK, NoTrial, slots, files, job, ghosts, FilesKept
<1>11. CASE CountBoot
  BY <1>11 DEF TypeOK, CountBoot, TrialFile, slots, job, ghosts, LastBoot,
     MAX_TRIAL_BOOTS
<1>12. CASE Restore
  BY <1>12 DEF TypeOK, Restore, Halves, files, job, ghosts, FilesKept, Flipped, Other
<1>13. CASE RestoreRm
  BY <1>13 DEF TypeOK, RestoreRm, TrialFile, NoFile, slots, job, ghosts,
     MAX_TRIAL_BOOTS
<1>14. CASE RestoreSync
  BY <1>14 DEF TypeOK, RestoreSync, slots, job, ghosts, SyncFiles
<1>15. CASE RestoreFails
  <2>1. half' \in [Regions -> Halves]
    BY <1>15 DEF TypeOK, RestoreFails, Halves, Flipped, Other
  <2> QED
    BY <1>15, <2>1 DEF TypeOK, RestoreFails, TrialFile, NoFile, job, Lapses, MAX_TRIAL_BOOTS
<1>16. CASE NothingToApply
  BY <1>16 DEF TypeOK, NothingToApply, slots, files, job, ghosts, FilesKept
<1>17. ASSUME NEW p \in Offered, SelectPayload(p) PROVE TypeOK'
  BY <1>17 DEF TypeOK, SelectPayload, slots, files, ghosts, FilesKept
<1>18. ASSUME NEW r \in Regions, BeginWrite(r) PROVE TypeOK'
  BY <1>18 DEF TypeOK, BeginWrite, Halves, files, ghosts, FilesKept, Other,
     SpareBecomes
<1>19. ASSUME NEW p \in Offered, NEW r \in Regions, EndWrite(p, r) PROVE TypeOK'
  BY <1>19, ImageType DEF TypeOK, EndWrite, Halves, files, ghosts, FilesKept, Other,
     SpareBecomes
<1>20. CASE WriteFails
  BY <1>20 DEF TypeOK, WriteFails, slots, files, ghosts, FilesKept, GiveUp
<1>21. CASE SyncSlots
  BY <1>21 DEF TypeOK, SyncSlots, slots, job, ghosts, SyncFiles
<1>22. ASSUME NEW p \in Offered, VerifyPasses(p) PROVE TypeOK'
  BY <1>22 DEF TypeOK, VerifyPasses, slots, files, job, ghosts, FilesKept
<1>23. ASSUME NEW p \in Offered, VerifyMismatch(p) PROVE TypeOK'
  BY <1>23 DEF TypeOK, VerifyMismatch, slots, files, ghosts, FilesKept, GiveUp
<1>24. CASE VerifyMisreads
  BY <1>24 DEF TypeOK, VerifyMisreads, slots, files, ghosts, FilesKept, GiveUp
<1>25. ASSUME NEW p \in Offered, Flip(p) PROVE TypeOK'
  BY <1>25, ImageType DEF TypeOK, Flip, Halves, files, job, FilesKept, Flipped, Other
<1>26. CASE FlipFails
  BY <1>26 DEF TypeOK, FlipFails, slots, files, ghosts, FilesKept, GiveUp
<1>27. ASSUME NEW p \in Offered, RecordHistory(p) PROVE TypeOK'
  BY <1>27, ImageType DEF TypeOK, RecordHistory, slots, job, ghosts
<1>28. CASE RecordState
  BY <1>28 DEF TypeOK, RecordState, TrialFile, slots, job, ghosts, MAX_TRIAL_BOOTS
<1>29. CASE CommitSync
  BY <1>29 DEF TypeOK, CommitSync, slots, job, ghosts, SyncFiles
<1>30. CASE Reboot
  BY <1>30 DEF TypeOK, Reboot, slots, ghosts, SyncFiles, PowerGone
<1>31. CASE Confirm
  BY <1>31 DEF TypeOK, Confirm, TrialFile, NoFile, slots, job, ghosts, MAX_TRIAL_BOOTS
<1>32. CASE ConfirmSync
  BY <1>32 DEF TypeOK, ConfirmSync, SessionProves, Lapses, slots, job, SyncFiles
<1>33. CASE NothingToConfirm
  BY <1>33 DEF TypeOK, NothingToConfirm, SessionProves, Lapses, slots, files, job, FilesKept
<1>34. ASSUME NEW p \in Offered, FlipFailsLate(p) PROVE TypeOK'
  BY <1>34 DEF TypeOK, FlipFailsLate, Halves, files, FilesKept, GiveUp, Flipped, Other, Lapses
<1>35. CASE UNCHANGED vars
  BY <1>35 DEF TypeOK, vars, slots, files, job, ghosts
<1> QED
  BY <1>1, <1>2, <1>3, <1>4, <1>5, <1>6, <1>7, <1>8, <1>9, <1>10, <1>11, <1>12, <1>13,
     <1>14, <1>15, <1>16, <1>17, <1>18, <1>19, <1>20, <1>21, <1>22, <1>23, <1>24,
     <1>25, <1>26, <1>27, <1>28, <1>29, <1>30, <1>31, <1>32, <1>33, <1>34, <1>35 DEF Next,
     Device, BootCheck, Apply, Session, Faults, Environment

-----------------------------------------------------------------------------
\* The steps after which apply is still before its flip.
Preparing ==
  \/ \E p \in Offered :
       SelectPayload(p) \/ VerifyPasses(p) \/ (\E r \in Regions : EndWrite(p, r))
  \/ \E r \in Regions : BeginWrite(r)
  \/ SyncSlots \/ WritebackState \/ WritebackHistory

\* Only these, or nothing at all, lead to a state in which apply may yet flip.
LEMMA OnlyPreparing == [Next]_vars /\ Applying' => Preparing \/ UNCHANGED vars
<1> SUFFICES ASSUME [Next]_vars, ~Preparing, ~UNCHANGED vars PROVE ~Applying'
  OBVIOUS
<1>1. CASE Device
  <2>1. CASE (\E rel \in Releases : Boot(rel)) \/ BootCheck
    BY <2>1 DEF Boot, BootCheck, NoTrial, CountBoot, Restore, RestoreRm, RestoreSync,
       Applying
  <2>2. CASE Apply
    BY <2>2 DEF Preparing, Apply, NothingToApply, RecordState, CommitSync, Reboot,
       PowerGone, VerifyMismatch, GiveUp, Flip, RecordHistory, Applying
  <2>3. CASE Session
    BY <2>3 DEF Session, Confirm, ConfirmSync, NothingToConfirm, Applying
  <2> QED
    BY <1>1, <2>1, <2>2, <2>3 DEF Device
<1>2. CASE Faults
  BY <1>2 DEF Faults, WriteFails, VerifyMisreads, FlipFails, FlipFailsLate, RestoreFails, Hang,
     GiveUp, Applying
<1>3. CASE Environment \/ PowerCycle
  BY <1>3 DEF Environment, Preparing, UserCopies, UserDeletes, PowerCut, ShutDown,
     PowerGone, PowerCycle, Applying
<1> QED
  BY <1>1, <1>2, <1>3 DEF Next

\* From selection on only spare halves of `regions` are written.
LEMMA StepJobInv == TypeOK /\ JobInv /\ [Next]_vars => JobInv'
<1> SUFFICES ASSUME TypeOK, JobInv, [Next]_vars, Applying' PROVE JobInv'
  BY DEF JobInv
<1>1. ASSUME NEW p \in Offered, SelectPayload(p) PROVE JobInv'
  BY <1>1 DEF JobInv, SelectPayload, Unchanged, slots
<1>2. ASSUME NEW r \in Regions, BeginWrite(r) PROVE JobInv'
  BY <1>2 DEF JobInv, BeginWrite, SpareBecomes, Applying
<1>3. ASSUME NEW p \in Offered, NEW r \in Regions, EndWrite(p, r) PROVE JobInv'
  BY <1>3 DEF JobInv, EndWrite, SpareBecomes, Applying
<1>4. ASSUME NEW p \in Offered, VerifyPasses(p) PROVE JobInv'
  BY <1>4 DEF JobInv, VerifyPasses, job, slots, Applying
<1>5. CASE SyncSlots \/ WritebackState \/ WritebackHistory \/ UNCHANGED vars
  BY <1>5 DEF JobInv, SyncSlots, WritebackState, WritebackHistory, vars, job, slots,
     Applying
<1> QED
  BY <1>1, <1>2, <1>3, <1>4, <1>5, OnlyPreparing DEF Preparing

\* Nothing between the verification and the flip writes a half.
LEMMA StepVerifiedInv == JobInv /\ VerifiedInv /\ [Next]_vars => VerifiedInv'
<1> SUFFICES ASSUME JobInv, VerifiedInv, [Next]_vars, pc' = "flip" PROVE VerifiedInv'
  BY DEF VerifiedInv
<1>1. ASSUME NEW p \in Offered, VerifyPasses(p) PROVE VerifiedInv'
  <2>1. payload = {p}
    BY <1>1 DEF JobInv, VerifyPasses, Applying
  <2> QED
    BY <1>1, <2>1 DEF VerifiedInv, Verified, VerifyPasses, job, slots
<1>2. CASE WritebackState \/ WritebackHistory \/ UNCHANGED vars
  BY <1>2 DEF VerifiedInv, Verified, WritebackState, WritebackHistory, vars, job,
     slots
<1>3. ~SyncSlots /\ (\A p \in Offered : ~SelectPayload(p))
      /\ (\A p \in Offered, r \in Regions : ~EndWrite(p, r))
      /\ (\A r \in Regions : ~BeginWrite(r))
  BY DEF SyncSlots, SelectPayload, EndWrite, BeginWrite
<1> QED
  BY <1>1, <1>2, <1>3, OnlyPreparing DEF Preparing, Applying

\* ApplyInv is inductive.
THEOREM ApplyInvariant == Spec => []ApplyInv
<1>1. ApplyInv /\ [Next]_vars => ApplyInv'
  BY StepTypeOK, StepJobInv, StepVerifiedInv DEF ApplyInv
<1> QED
  BY InitApplyInv, <1>1, PTL DEF Spec

\* Every variable keeps to the values the script can give it.
THEOREM TypeCorrect == Spec => []TypeOK
<1>1. ApplyInv => TypeOK
  BY DEF ApplyInv
<1> QED
  BY <1>1, ApplyInvariant, PTL

\* A flip, also one reported as failed, makes every active half the image its
\* payload's manifest names: the flipped ones have been verified, the kept ones compared.
LEMMA FlipComplete ==
  ASSUME ApplyInv, NEW p \in Offered, Flip(p) \/ FlipFailsLate(p)
  PROVE payload = {p} /\ Holds(half, p.release)'
<1>1. pc = "flip" /\ payload = {p} /\ half' = Flipped(regions) /\ content' = content
  BY DEF ApplyInv, JobInv, Flip, FlipFailsLate, Applying
<1>2. ASSUME NEW r \in Regions PROVE content[r][half'[r]] = Image[p.release][r]
  <2>1. CASE r \in regions
    BY <1>1, <2>1 DEF ApplyInv, VerifiedInv, Verified, Flipped
  <2>2. CASE r \notin regions
    BY <1>1, <2>2 DEF ApplyInv, JobInv, Flipped, Applying
  <2> QED
    BY <2>1, <2>2
<1> QED
  BY <1>1, <1>2 DEF Holds

\* apply flips only to halves that hold, region by region, what the payload's
\* manifest names: the flipped ones have been verified, the kept ones compared,
\* and no step between the two can write either.
THEOREM FlipIsVerified == Spec => CommitVerified
<1>1. ApplyInv /\ [Next]_vars =>
        [pc = "flip" /\ half' # half => \E p \in payload : Holds(half, p.release)']_vars
  <2> SUFFICES ASSUME ApplyInv, [Next]_vars, pc = "flip", half' # half
               PROVE \E p \in payload : Holds(half, p.release)'
    OBVIOUS
  <2>1. PICK p \in Offered : Flip(p) \/ FlipFailsLate(p)
    BY DEF Next, Device, BootCheck, Apply, Session, Faults, Environment, Boot,
       NoTrial, CountBoot, Restore, RestoreRm, RestoreSync, NothingToApply, SyncSlots,
       RecordState, CommitSync, Reboot, BeginWrite, SelectPayload, VerifyPasses,
       VerifyMismatch, RecordHistory, EndWrite, Confirm, ConfirmSync,
       NothingToConfirm, WriteFails, VerifyMisreads, FlipFails, RestoreFails, Hang, UserCopies,
       UserDeletes, PowerCut, ShutDown, WritebackState, WritebackHistory,
       PowerCycle, vars, slots
  <2>2. payload = {p} /\ Holds(half, p.release)'
    BY <2>1, FlipComplete
  <2> QED
    BY <2>2
<1> QED
  BY <1>1, ApplyInvariant, PTL DEF Spec, CommitVerified

-----------------------------------------------------------------------------
\* The trials, from here to the versions.
\* The other windows break what is proved here.
WindowsClosed == Exposed \subseteq {"noflip"}

Restoring == pc \in {"restoreRm", "restoreSync"}
Booted == pc \in {"bootCheck", "apply", "write", "verify", "flip"}
InSession == pc \in {"session", "confirmSync"}
Dropped == "dropped" \in lapses
Unwatched == "unwatched" \in lapses
Updating == Applying \/ pc \in {"history", "state"}
HasFile(f) == f.file # "none"
OnTrial == HasFile(stateD) \/ InCommit
Unproven == \A rel \in proven : ~Runs(rel)

\* The running release is the one the active halves hold, until a flip: the session
\* of a boot whose flip was reported as failed may run another.
RunningInv ==
  /\ Booted => Runs(running)
  /\ InSession => Runs(running) \/ Unwatched

\* A trial file is whole, gone once it has been dropped, and durable unless it
\* is being committed.
FileInv ==
  /\ state.file # "empty" /\ stateD.file # "empty"
  /\ Updating => ~HasFile(state) /\ ~HasFile(stateD)
  /\ pc = "commitSync" => HasFile(state)
  /\ pc \in {"restoreSync", "confirmSync", "up"} => ~HasFile(state)
  /\ HasFile(state) /\ pc # "commitSync" => HasFile(stateD)
  /\ HasFile(stateD) /\ ~HasFile(state) => Dropped \/ pc \in {"restoreSync", "confirmSync"}
  /\ pc = "off" => state = stateD

\* Of the fitting payloads on the card there is one at most, and none that could
\* be applied beside an open trial.
CardInv ==
  /\ \A p, q \in onCard : p.fits /\ q.fits => p = q
  /\ HasFile(state) \/ HasFile(stateD) => \A p \in onCard : p.fits => p.release \in history

\* What apply works on lies on the card, fits and has never been committed.
UpdateInv ==
  Updating =>
    \E p \in Offered :
      /\ payload = {p} /\ p \in onCard /\ p.fits
      /\ Applying => /\ Supersedes(p.release, running)
                     /\ p.release # running /\ p.release \notin history
      /\ pc = "history" => p.release \in committed
      /\ pc = "state" => p.release \in history

HistoryInv ==
  /\ pc \notin {"state", "commitSync"} => historyD = history
  /\ committed \subseteq
       history \cup IF pc = "history" THEN {p.release : p \in payload} ELSE {}

\* Flipping back what a trial file names, or is about to name, brings back the
\* release that ran before.
IntactInv ==
  /\ pc \in {"history", "state"} => Holds(Flipped(regions), previous)
  /\ \A f \in {state, stateD} : HasFile(f) /\ ~Restoring => Holds(Flipped(f.regions), previous)
  /\ Restoring => Runs(previous)

\* What is on trial is not proven, and goes back to what is; what is not on trial is
\* proven, unless a flip reported as failed brought it.
ProvenInv ==
  ~Dropped =>
    /\ OnTrial /\ ~Restoring => Unproven
    /\ ~Unwatched /\ OnTrial => previous \in proven
    /\ ~Unwatched /\ ~OnTrial => ~Unproven

TrialInv ==
  /\ ActiveComplete /\ RunningInv /\ FileInv /\ CardInv
  /\ UpdateInv /\ HistoryInv /\ IntactInv /\ ProvenInv

-----------------------------------------------------------------------------
\* With the rootfs in every region list no two releases share their images.
LEMMA OneRelease ==
  ASSUME NEW a \in Releases, NEW b \in Releases, Runs(a), Runs(b)
  PROVE a = b
  BY ImageAssumption DEF Runs, Holds

\* Spare halves are all that apply writes: whichever release the active ones
\* hold, they go on holding it.
LEMMA SpareWrites ==
  ASSUME TypeOK, NEW r \in Regions, NEW image, SpareBecomes(r, image), half' = half,
         NEW rel \in Releases
  PROVE Runs(rel)' = Runs(rel)
<1>1. \A q \in Regions : content'[q][half[q]] = content[q][half[q]]
  BY DEF TypeOK, SpareBecomes, Halves, Other
<1> QED
  BY <1>1 DEF Runs, Holds

\* Only these steps move the active halves from one release to another.
LEMMA SlotsMove ==
  ASSUME WindowsClosed, TypeOK, [Next]_vars
  PROVE \/ \E p \in Offered : Flip(p) \/ FlipFailsLate(p)
        \/ Restore
        \/ /\ half' = half /\ (content' = content \/ pc = "write")
           /\ \A rel \in Releases : Runs(rel)' = Runs(rel)
           /\ previous' = previous /\ committed' = committed
<1> DEFINE Same == previous' = previous /\ committed' = committed
<1>1. half' = half /\ content' = content => \A rel \in Releases : Runs(rel)' = Runs(rel)
  BY DEF Runs, Holds
<1>2. ASSUME NEW r \in Regions, BeginWrite(r)
      PROVE half' = half /\ pc = "write" /\ Same /\ \A rel \in Releases : Runs(rel)' = Runs(rel)
  BY <1>2, SpareWrites DEF BeginWrite, ghosts
<1>3. ASSUME NEW p \in Offered, NEW r \in Regions, EndWrite(p, r)
      PROVE half' = half /\ pc = "write" /\ Same /\ \A rel \in Releases : Runs(rel)' = Runs(rel)
  BY <1>3, SpareWrites DEF EndWrite, ghosts
<1>4. CASE UNCHANGED vars
  BY <1>1, <1>4 DEF vars, slots, ghosts
<1>5. CASE (\E rel \in Releases : Boot(rel)) \/ BootCheck
  BY <1>1, <1>5 DEF Boot, BootCheck, NoTrial, CountBoot, RestoreRm, RestoreSync, slots, ghosts
<1>6. CASE Apply
  BY <1>1, <1>2, <1>3, <1>6 DEF Apply, NothingToApply, SelectPayload, SyncSlots,
     VerifyPasses, VerifyMismatch, RecordHistory, RecordState, CommitSync, Reboot, slots, ghosts
<1>7. CASE Session \/ Faults
  BY <1>1, <1>7 DEF Session, Confirm, ConfirmSync, NothingToConfirm, Faults, WriteFails,
     VerifyMisreads, FlipFails, RestoreFails, Hang, WindowsClosed, slots, ghosts
<1>8. CASE Environment \/ PowerCycle
  BY <1>1, <1>8 DEF Environment, UserCopies, UserDeletes, PowerCut, ShutDown,
     WritebackState, WritebackHistory, PowerCycle, slots, ghosts
<1> QED
  BY <1>4, <1>5, <1>6, <1>7, <1>8 DEF Next, Device

\* The trial file through a step, its windows closed.
LEMMA StepFileInv ==
  ASSUME WindowsClosed, TypeOK, FileInv, CardInv, UpdateInv, [Next]_vars
  PROVE FileInv'
<1> USE DEF FileInv, HasFile, Updating, Applying, Dropped
<1>1. CASE UNCHANGED vars
  BY <1>1 DEF vars, files, ghosts
<1>2. CASE \E rel \in Releases : Boot(rel)
  BY <1>2 DEF Boot, files, ghosts
<1>3. CASE NoTrial \/ Restore \/ RestoreRm \/ RestoreSync
  BY <1>3 DEF NoTrial, Restore, RestoreRm, RestoreSync, files, ghosts, FilesKept,
     SyncFiles, NoFile
<1>4. CASE CountBoot
  BY <1>4 DEF CountBoot, ghosts, TypeOK, TrialFile
<1>5. ASSUME NEW p \in Offered, SelectPayload(p)
      PROVE FileInv'
  <2>1. ~HasFile(state) /\ ~HasFile(stateD)
    BY <1>5 DEF SelectPayload, Applicable, CardInv
  <2> QED
    BY <1>5, <2>1 DEF SelectPayload, files, ghosts, FilesKept
<1>6. CASE NothingToApply \/ SyncSlots \/ RecordState \/ CommitSync \/ Reboot
  BY <1>6 DEF NothingToApply, SyncSlots, RecordState, CommitSync, Reboot, files, ghosts,
     FilesKept, SyncFiles, PowerGone
<1>7. ASSUME NEW r \in Regions, BeginWrite(r) \/ \E p \in Offered : EndWrite(p, r)
      PROVE FileInv'
  BY <1>7 DEF BeginWrite, EndWrite, files, ghosts, FilesKept
<1>8. ASSUME NEW p \in Offered,
             VerifyPasses(p) \/ VerifyMismatch(p) \/ Flip(p) \/ RecordHistory(p)
      PROVE FileInv'
  BY <1>8 DEF VerifyPasses, VerifyMismatch, Flip, RecordHistory, files, ghosts,
     FilesKept, GiveUp
<1>9. CASE Session
  BY <1>9 DEF Session, Confirm, ConfirmSync, NothingToConfirm, SessionProves, files, ghosts,
     FilesKept, SyncFiles, NoFile
<1>10. CASE Faults
  BY <1>10 DEF Faults, WriteFails, VerifyMisreads, FlipFails, FlipFailsLate, RestoreFails, Hang,
     files, ghosts, FilesKept, GiveUp, NoFile
<1>11. CASE PowerCut
  BY <1>11 DEF PowerCut, WindowsClosed, InCommit, InRestore, PowerGone, ghosts
<1>12. CASE PowerCycle \/ ShutDown \/ WritebackState \/ WritebackHistory
  BY <1>12 DEF PowerCycle, ShutDown, WritebackState, WritebackHistory, PowerGone,
     SyncFiles, ghosts
<1>13. CASE \E p \in Offered : UserCopies(p) \/ UserDeletes(p)
  BY <1>13 DEF UserCopies, UserDeletes, files, ghosts
<1> HIDE DEF FileInv, HasFile, Updating, Applying, Dropped
<1> QED
  BY <1>1, <1>2, <1>3, <1>4, <1>5, <1>6, <1>7, <1>8, <1>9, <1>10, <1>11, <1>12,
     <1>13 DEF Next, Device, BootCheck, Apply, Environment

-----------------------------------------------------------------------------
\* The payloads on the card, beside a trial or not.
LEMMA StepCardInv ==
  ASSUME WindowsClosed, FileInv, CardInv, UpdateInv, HistoryInv, [Next]_vars
  PROVE CardInv'
<1> USE DEF CardInv, HasFile
<1>1. CASE UNCHANGED vars
  BY <1>1 DEF vars, files
<1>2. CASE (\E rel \in Releases : Boot(rel)) \/ NoTrial \/ Restore \/ RestoreRm \/ RestoreSync
  BY <1>2 DEF Boot, NoTrial, Restore, RestoreRm, RestoreSync, files, FilesKept, SyncFiles,
     NoFile
<1>3. CASE CountBoot
  BY <1>3 DEF CountBoot
<1>4. CASE NothingToApply \/ SyncSlots \/ CommitSync \/ Reboot
  BY <1>4 DEF NothingToApply, SyncSlots, CommitSync, Reboot, files, FilesKept, SyncFiles
<1>5. CASE RecordState
  BY <1>5 DEF RecordState, UpdateInv, Updating
<1>6. ASSUME NEW r \in Regions, BeginWrite(r) \/ \E p \in Offered : EndWrite(p, r)
      PROVE CardInv'
  BY <1>6 DEF BeginWrite, EndWrite, files, FilesKept
<1>7. ASSUME NEW p \in Offered,
             \/ SelectPayload(p) \/ VerifyPasses(p) \/ VerifyMismatch(p) \/ Flip(p)
             \/ RecordHistory(p)
      PROVE CardInv'
  BY <1>7 DEF SelectPayload, VerifyPasses, VerifyMismatch, Flip, RecordHistory, files,
     FilesKept
<1>8. CASE Session
  BY <1>8 DEF Session, Confirm, ConfirmSync, NothingToConfirm, files, FilesKept,
     SyncFiles, NoFile
<1>9. CASE Faults
  BY <1>9 DEF Faults, WriteFails, VerifyMisreads, FlipFails, FlipFailsLate, RestoreFails, Hang,
     files, FilesKept, NoFile
<1>10. CASE PowerCut
  <2>1. state' = stateD /\ stateD' = stateD /\ history' = history /\ onCard' = onCard
    BY <1>10 DEF PowerCut, WindowsClosed, InCommit, FileInv, HistoryInv
  <2> QED
    BY <2>1
<1>11. CASE PowerCycle \/ ShutDown \/ WritebackState \/ WritebackHistory
  BY <1>11 DEF PowerCycle, ShutDown, WritebackState, WritebackHistory, SyncFiles
<1>12. ASSUME NEW p \in Offered, UserCopies(p)
       PROVE CardInv'
  BY <1>12 DEF UserCopies, files, WindowsClosed, FileInv
<1>13. ASSUME NEW p \in Offered, UserDeletes(p)
       PROVE CardInv'
  BY <1>13 DEF UserDeletes, files
<1> HIDE DEF CardInv, HasFile
<1> QED
  BY <1>1, <1>2, <1>3, <1>4, <1>5, <1>6, <1>7, <1>8, <1>9, <1>10, <1>11, <1>12, <1>13
     DEF Next, Device, BootCheck, Apply, Environment

\* The steps that lead from the flip to the trial file.
LEMMA OnlyRecording ==
  ASSUME [Next]_vars, pc' \in {"history", "state"}
  PROVE \/ \E p \in Offered : Flip(p) \/ RecordHistory(p)
        \/ WritebackState \/ WritebackHistory \/ UNCHANGED vars
<1>1. ~((\E rel \in Releases : Boot(rel)) \/ BootCheck \/ Session)
  BY DEF Boot, BootCheck, NoTrial, CountBoot, Restore, RestoreRm, RestoreSync, Session,
     Confirm, ConfirmSync, NothingToConfirm
<1>2. CASE Apply
  BY <1>2 DEF Apply, NothingToApply, SyncSlots, RecordState, CommitSync, Reboot, PowerGone,
     BeginWrite, SelectPayload, VerifyPasses, VerifyMismatch, GiveUp, EndWrite
<1>3. ~(Faults \/ PowerCycle)
  BY DEF Faults, WriteFails, VerifyMisreads, FlipFails, FlipFailsLate, RestoreFails, Hang,
     GiveUp, PowerCycle, PowerGone
<1>4. CASE Environment
  BY <1>4 DEF Environment, UserCopies, UserDeletes, PowerCut, ShutDown, PowerGone
<1> QED
  BY <1>1, <1>2, <1>3, <1>4 DEF Next, Device

\* The payload apply works on.
LEMMA StepUpdateInv ==
  ASSUME TypeOK, UpdateInv, [Next]_vars
  PROVE UpdateInv'
<1> USE DEF UpdateInv, Updating, Applying
<1>1. CASE WritebackState \/ WritebackHistory \/ UNCHANGED vars
  BY <1>1 DEF WritebackState, WritebackHistory, vars, files, job, ghosts
<1>2. ASSUME NEW p \in Offered, SelectPayload(p)
      PROVE UpdateInv'
  <2>1. Supersedes(p.release, running) /\ p.release # running
    BY <1>2, ImageType, ReleaseAssumption, NewerOrder DEF SelectPayload, Applicable, Supersedes, TypeOK
  <2> QED
    BY <1>2, <2>1 DEF SelectPayload, Applicable, files, FilesKept
<1>3. ASSUME NEW p \in Offered, Flip(p) \/ RecordHistory(p) \/ VerifyPasses(p)
      PROVE UpdateInv'
  BY <1>3 DEF Flip, RecordHistory, VerifyPasses, files, job, ghosts, FilesKept
<1>4. ASSUME NEW r \in Regions, BeginWrite(r) \/ \E p \in Offered : EndWrite(p, r)
      PROVE UpdateInv'
  BY <1>4 DEF BeginWrite, EndWrite, files, ghosts, FilesKept
<1>5. CASE SyncSlots
  BY <1>5 DEF SyncSlots, job, ghosts
<1> HIDE DEF UpdateInv, Applying
<1> QED
  BY <1>1, <1>2, <1>3, <1>4, <1>5, OnlyPreparing, OnlyRecording DEF Preparing, UpdateInv

\* The history on the card, and what it remembers.
LEMMA StepHistoryInv ==
  ASSUME WindowsClosed, UpdateInv, HistoryInv, [Next]_vars
  PROVE HistoryInv'
<1> USE DEF HistoryInv
<1>1. CASE UNCHANGED vars
  BY <1>1 DEF vars, files, job, ghosts
<1>2. CASE (\E rel \in Releases : Boot(rel)) \/ BootCheck
  BY <1>2 DEF Boot, BootCheck, NoTrial, CountBoot, Restore, RestoreRm, RestoreSync, files,
     job, ghosts, FilesKept, SyncFiles
<1>3. CASE NothingToApply \/ SyncSlots \/ RecordState \/ CommitSync \/ Reboot
  BY <1>3 DEF NothingToApply, SyncSlots, RecordState, CommitSync, Reboot, files, job,
     ghosts, FilesKept, SyncFiles, PowerGone
<1>4. ASSUME NEW r \in Regions, BeginWrite(r) \/ \E p \in Offered : EndWrite(p, r)
      PROVE HistoryInv'
  BY <1>4 DEF BeginWrite, EndWrite, files, ghosts, FilesKept
<1>5. ASSUME NEW p \in Offered, SelectPayload(p) \/ VerifyPasses(p) \/ VerifyMismatch(p)
      PROVE HistoryInv'
  BY <1>5 DEF SelectPayload, VerifyPasses, VerifyMismatch, files, job, ghosts, FilesKept,
     GiveUp
<1>6. ASSUME NEW p \in Offered, Flip(p)
      PROVE HistoryInv'
  BY <1>6 DEF Flip, files, job, FilesKept
<1>7. ASSUME NEW p \in Offered, RecordHistory(p)
      PROVE HistoryInv'
  BY <1>7 DEF RecordHistory, job, ghosts, UpdateInv, Updating
<1>8. CASE Session
  BY <1>8 DEF Session, Confirm, ConfirmSync, NothingToConfirm, files, job, FilesKept,
     SyncFiles, ghosts
<1>9. CASE Faults
  BY <1>9 DEF Faults, WriteFails, VerifyMisreads, FlipFails, FlipFailsLate, RestoreFails, Hang,
     files, job, ghosts, FilesKept, GiveUp
<1>10. CASE Environment \/ PowerCycle
  BY <1>10 DEF Environment, UserCopies, UserDeletes, PowerCut, ShutDown, PowerGone,
     WritebackState, WritebackHistory, PowerCycle, SyncFiles, WindowsClosed, InCommit,
     files, job, ghosts
<1> HIDE DEF HistoryInv
<1> QED
  BY <1>1, <1>2, <1>3, <1>4, <1>5, <1>6, <1>7, <1>8, <1>9, <1>10 DEF Next, Device, Apply

\* What a boot runs and where it is: on in the same boot, ended or just begun.
LEMMA BootGoesOn ==
  ASSUME [Next]_vars
  PROVE /\ (Booted \/ InSession)' =>
             (\E rel \in Releases : Boot(rel)) \/ running' = running
        /\ Booted' => (\E rel \in Releases : Boot(rel)) \/ Booted
        /\ InSession' => Booted \/ InSession
<1> USE DEF Booted, InSession
<1>1. CASE UNCHANGED vars \/ \E rel \in Releases : Boot(rel)
  BY <1>1 DEF vars, Boot
<1>2. CASE BootCheck \/ Session
  BY <1>2 DEF BootCheck, NoTrial, CountBoot, Restore, RestoreRm, RestoreSync, Session,
     Confirm, ConfirmSync, NothingToConfirm
<1>3. CASE Apply
  BY <1>3 DEF Apply, NothingToApply, SyncSlots, RecordState, CommitSync, Reboot, PowerGone,
     BeginWrite, SelectPayload, VerifyPasses, VerifyMismatch, GiveUp, Flip, RecordHistory,
     EndWrite
<1>4. CASE Faults
  BY <1>4 DEF Faults, WriteFails, VerifyMisreads, FlipFails, FlipFailsLate, RestoreFails,
     Hang, GiveUp
<1>5. CASE Environment \/ PowerCycle
  BY <1>5 DEF Environment, UserCopies, UserDeletes, PowerCut, ShutDown, PowerGone,
     WritebackState, WritebackHistory, PowerCycle
<1> HIDE DEF Booted, InSession
<1> QED
  BY <1>1, <1>2, <1>3, <1>4, <1>5 DEF Next, Device

\* Only a session of what the card boots ends the time in which nothing watches it.
LEMMA LapsesMove ==
  ASSUME [Next]_vars
  PROVE \/ lapses' = lapses
        \/ \E p \in Offered : FlipFailsLate(p) /\ lapses' = lapses \cup {"unwatched"}
        \/ RestoreFails /\ lapses' = lapses \cup {"dropped"}
        \/ (ConfirmSync \/ NothingToConfirm) /\ Runs(running) /\ lapses' = lapses \ {"unwatched"}
<1>1. CASE UNCHANGED vars \/ (\E rel \in Releases : Boot(rel)) \/ BootCheck
  BY <1>1 DEF vars, Boot, BootCheck, NoTrial, CountBoot, Restore, RestoreRm, RestoreSync,
     ghosts
<1>2. CASE Apply
  BY <1>2 DEF Apply, NothingToApply, SyncSlots, RecordState, CommitSync, Reboot, BeginWrite,
     SelectPayload, VerifyPasses, VerifyMismatch, Flip, RecordHistory, EndWrite, ghosts
<1>3. CASE Session
  BY <1>3 DEF Session, Confirm, ConfirmSync, NothingToConfirm, SessionProves, Runs, ghosts
<1>4. CASE Faults
  BY <1>4 DEF Faults, WriteFails, VerifyMisreads, FlipFails, FlipFailsLate, RestoreFails,
     Hang, ghosts
<1>5. CASE Environment \/ PowerCycle
  BY <1>5 DEF Environment, UserCopies, UserDeletes, PowerCut, ShutDown, WritebackState,
     WritebackHistory, PowerCycle, ghosts
<1> QED
  BY <1>1, <1>2, <1>3, <1>4, <1>5 DEF Next, Device

\* A boot goes on running what the active halves hold, up to a flip that fails late.
LEMMA StepRunningInv ==
  ASSUME WindowsClosed, TypeOK, RunningInv, [Next]_vars
  PROVE RunningInv'
<1>1. ASSUME NEW rel \in Releases, Boot(rel)
      PROVE RunningInv'
  BY <1>1 DEF Boot, slots, Runs, Holds, RunningInv, Booted, InSession
<1>2. ASSUME NEW p \in Offered, FlipFailsLate(p)
      PROVE RunningInv'
  BY <1>2 DEF FlipFailsLate, GiveUp, RunningInv, Booted, InSession, Unwatched
<1>3. CASE Restore \/ \E p \in Offered : Flip(p)
  BY <1>3 DEF Restore, Flip, RunningInv, Booted, InSession
<1>4. ASSUME \A rel \in Releases : Runs(rel)' = Runs(rel),
             \A p \in Offered : ~FlipFailsLate(p), \A rel \in Releases : ~Boot(rel)
      PROVE RunningInv'
  <2> SUFFICES ASSUME (Booted \/ InSession)'
               PROVE /\ Booted' => Runs(running)'
                     /\ InSession' => Runs(running)' \/ Unwatched'
    BY DEF RunningInv
  <2>1. /\ running' = running
        /\ Booted' => Booted
        /\ Booted \/ InSession
    BY <1>4, BootGoesOn
  <2>2. Runs(running)' = Runs(running)
    BY <1>4, <2>1 DEF TypeOK, Runs, Holds
  <2>3. InSession' => Runs(running) \/ Unwatched'
    <3>1. CASE Booted \/ Runs(running)
      BY <3>1 DEF RunningInv
    <3>2. CASE InSession /\ ~Runs(running)
      BY <1>4, <3>2, LapsesMove DEF RunningInv, Unwatched
    <3> QED
      BY <2>1, <3>1, <3>2
  <2> QED
    BY <2>1, <2>2, <2>3 DEF RunningInv
<1> QED
  BY <1>1, <1>2, <1>3, <1>4, SlotsMove

\* boot-check's flip restores the release that ran before.
LEMMA RestoreReturns ==
  ASSUME FileInv, IntactInv, Restore
  PROVE Runs(previous)' /\ previous' = previous
<1>1. HasFile(state) /\ ~Restoring
  BY DEF Restore, HasFile, Restoring
<1>2. Holds(Flipped(state.regions), previous)
  BY <1>1 DEF IntactInv
<1> QED
  BY <1>2 DEF Restore, Runs, Holds, ghosts

\* The active halves hold a release all along.
LEMMA StepActiveComplete ==
  ASSUME WindowsClosed, ApplyInv, FileInv, IntactInv, ActiveComplete, [Next]_vars
  PROVE ActiveComplete'
<1>1. ASSUME NEW p \in Offered, Flip(p) \/ FlipFailsLate(p)
      PROVE ActiveComplete'
  BY <1>1, FlipComplete, ImageType DEF ActiveComplete, Runs
<1>2. CASE Restore
  BY <1>2, RestoreReturns DEF ActiveComplete, ApplyInv, TypeOK
<1>3. CASE \A rel \in Releases : Runs(rel)' = Runs(rel)
  BY <1>3 DEF ActiveComplete
<1> QED
  BY <1>1, <1>2, <1>3, SlotsMove DEF ApplyInv

\* After the flip of apply, flipping back brings back the release that ran it.
LEMMA FlipReturns ==
  ASSUME TypeOK, RunningInv, NEW p \in Offered, Flip(p)
  PROVE Holds(Flipped(regions), previous)'
<1>1. \A r \in Regions : content[r][half[r]] = Image[running][r]
  BY DEF RunningInv, Booted, Flip, Runs, Holds
<1>2. half' = Flipped(regions) /\ content' = content /\ previous' = running /\ regions' = regions
  BY DEF Flip, job
<1>3. \A r \in Regions : Flipped(regions)'[r] = half[r]
  BY <1>2 DEF Flipped, TypeOK, Halves, Other
<1> QED
  BY <1>1, <1>2, <1>3 DEF Holds

\* A trial file names the regions it was written with, whatever happens to it.
LEMMA FilesMove ==
  ASSUME WindowsClosed, TypeOK, FileInv, [Next]_vars, NEW f \in {state', stateD'}, HasFile(f)
  PROVE \/ RecordState /\ f = state'
        \/ \E g \in {state, stateD} : HasFile(g) /\ g.regions = f.regions
<1> USE DEF HasFile
<1>1. CASE UNCHANGED vars
  BY <1>1 DEF vars, files
<1>2. CASE (\E rel \in Releases : Boot(rel)) \/ NoTrial \/ Restore \/ RestoreRm \/ RestoreSync
  BY <1>2 DEF Boot, NoTrial, Restore, RestoreRm, RestoreSync, files, FilesKept, SyncFiles,
     NoFile
<1>3. CASE CountBoot
  <2>1. stateD' = stateD /\ state'.regions = state.regions /\ HasFile(state)
    BY <1>3 DEF CountBoot, TypeOK, TrialFile
  <2> QED
    BY <2>1
<1>4. CASE Apply
  BY <1>4 DEF Apply, NothingToApply, SyncSlots, RecordState, CommitSync, Reboot, BeginWrite,
     SelectPayload, VerifyPasses, VerifyMismatch, Flip, RecordHistory, EndWrite, files,
     FilesKept, SyncFiles
<1>5. CASE Session
  BY <1>5 DEF Session, Confirm, ConfirmSync, NothingToConfirm, files, FilesKept, SyncFiles,
     NoFile
<1>6. CASE Faults
  BY <1>6 DEF Faults, WriteFails, VerifyMisreads, FlipFails, FlipFailsLate, RestoreFails, Hang,
     files, FilesKept, NoFile
<1>7. CASE PowerCut
  BY <1>7 DEF PowerCut, WindowsClosed, InCommit, FileInv
<1>8. CASE PowerCycle \/ ShutDown \/ WritebackState \/ WritebackHistory
  BY <1>8 DEF PowerCycle, ShutDown, WritebackState, WritebackHistory, SyncFiles
<1>9. CASE \E p \in Offered : UserCopies(p) \/ UserDeletes(p)
  BY <1>9 DEF UserCopies, UserDeletes, files
<1> QED
  BY <1>1, <1>2, <1>3, <1>4, <1>5, <1>6, <1>7, <1>8, <1>9 DEF Next, Device, BootCheck,
     Environment

\* A restore, once begun, goes on to its sync.
LEMMA OnlyRestoring ==
  ASSUME WindowsClosed, [Next]_vars
  PROVE /\ Restoring' => Restore \/ Restoring
        /\ Restoring => Restoring' \/ RestoreSync
<1>1. CASE UNCHANGED vars
  BY <1>1 DEF vars, Restoring
<1>2. CASE (\E rel \in Releases : Boot(rel)) \/ BootCheck \/ Session
  BY <1>2 DEF Boot, BootCheck, NoTrial, CountBoot, RestoreRm, Restore, RestoreSync, Session,
     Confirm, ConfirmSync, NothingToConfirm, Restoring
<1>3. CASE Apply
  BY <1>3 DEF Apply, NothingToApply, SyncSlots, RecordState, CommitSync, Reboot, PowerGone,
     BeginWrite, SelectPayload, VerifyPasses, VerifyMismatch, GiveUp, Flip, RecordHistory,
     EndWrite, Restoring
<1>4. CASE Faults
  BY <1>4 DEF Faults, WriteFails, VerifyMisreads, FlipFails, FlipFailsLate, RestoreFails, Hang,
     GiveUp, Restoring
<1>5. CASE Environment \/ PowerCycle
  BY <1>5 DEF Environment, UserCopies, UserDeletes, PowerCut, ShutDown, PowerGone,
     WritebackState, WritebackHistory, PowerCycle, WindowsClosed, InRestore, Restoring
<1> QED
  BY <1>1, <1>2, <1>3, <1>4, <1>5 DEF Next, Device

\* No step writes the halves an open trial would bring back.
LEMMA StepIntactInv ==
  ASSUME WindowsClosed, TypeOK, RunningInv, FileInv, FileInv', IntactInv, [Next]_vars
  PROVE IntactInv'
<1>1. ASSUME NEW p \in Offered, Flip(p)
      PROVE IntactInv'
  <2>1. ~HasFile(state)' /\ ~HasFile(stateD)' /\ ~Restoring'
    BY <1>1 DEF Flip, FileInv, HasFile, Updating, Applying, files, FilesKept, Restoring
  <2> QED
    BY <1>1, <2>1, FlipReturns DEF IntactInv, HasFile
<1>2. ASSUME Restore \/ \E p \in Offered : FlipFailsLate(p)
      PROVE IntactInv'
  <2>1. CASE Restore
    BY <2>1, RestoreReturns DEF IntactInv, Restore, Restoring
  <2>2. ASSUME NEW p \in Offered, FlipFailsLate(p)
        PROVE IntactInv'
    BY <2>2 DEF FlipFailsLate, GiveUp, FileInv, HasFile, Updating, Applying, files, FilesKept,
       IntactInv, Restoring
  <2> QED
    BY <1>2, <2>1, <2>2
<1>3. ASSUME ~Restore, \A p \in Offered : ~Flip(p) /\ ~FlipFailsLate(p)
      PROVE IntactInv'
  <2>1. /\ previous' = previous /\ half' = half
        /\ content' = content \/ pc = "write"
        /\ \A rel \in Releases : Runs(rel)' = Runs(rel)
    BY <1>3, SlotsMove
  <2>2. ASSUME pc' \in {"history", "state"}
        PROVE Holds(Flipped(regions), previous)'
    <3>1. pc \in {"history", "state"} /\ regions' = regions
      BY <1>3, <2>2, OnlyRecording DEF RecordHistory, WritebackState, WritebackHistory,
         vars, job
    <3> QED
      BY <2>1, <3>1 DEF IntactInv, Holds, Flipped
  <2>3. ASSUME Restoring'
        PROVE Runs(previous)'
    <3>1. Restoring
      BY <1>3, <2>3, OnlyRestoring
    <3> QED
      BY <2>1, <3>1 DEF IntactInv, Restoring, Runs, Holds
  <2>4. ASSUME NEW f \in {state', stateD'}, HasFile(f), ~Restoring'
        PROVE Holds(Flipped(f.regions), previous)'
    <3>1. ~Restoring
      BY <2>4, OnlyRestoring DEF RestoreSync, SyncFiles, FileInv, HasFile
    <3>2. CASE RecordState /\ f = state'
      BY <2>1, <3>2 DEF RecordState, IntactInv, Holds, Flipped
    <3>3. ASSUME NEW g \in {state, stateD}, HasFile(g), g.regions = f.regions
          PROVE Holds(Flipped(f.regions), previous)'
      <4>1. content' = content
        BY <2>1, <3>3 DEF FileInv, Updating, Applying
      <4> QED
        BY <2>1, <3>1, <3>3, <4>1 DEF IntactInv, Holds, Flipped
    <3> QED
      BY <2>4, <3>2, <3>3, FilesMove
  <2> QED
    BY <2>2, <2>3, <2>4 DEF IntactInv, HasFile
<1> QED
  BY <1>1, <1>2, <1>3

\* A trial that was dropped stays dropped, and what nothing watches over stays so
\* until a session of it has come up.
LEMMA WatchMoves ==
  ASSUME FileInv, [Next]_vars, ~Dropped', \A p \in Offered : ~FlipFailsLate(p)
  PROVE /\ ~Dropped
        /\ Unwatched' => Unwatched
        /\ Unwatched => Unwatched' \/ (~OnTrial' /\ Runs(running) /\ running \in proven')
<1>1. \/ lapses' = lapses
      \/ (ConfirmSync \/ NothingToConfirm) /\ Runs(running) /\ lapses' = lapses \ {"unwatched"}
  BY LapsesMove DEF Dropped
<1>2. ~Dropped
  BY <1>1 DEF Dropped
<1>3. CASE lapses' = lapses
  BY <1>2, <1>3 DEF Unwatched
<1>4. ASSUME ConfirmSync \/ NothingToConfirm, Runs(running), lapses' = lapses \ {"unwatched"}
      PROVE ~Unwatched' /\ ~OnTrial' /\ running \in proven'
  BY <1>2, <1>4 DEF ConfirmSync, NothingToConfirm, SessionProves, FileInv, HasFile, OnTrial,
     InCommit, files, FilesKept, SyncFiles, Unwatched
<1> QED
  BY <1>1, <1>2, <1>3, <1>4

\* A trial is closed by a session, which proves what it runs, or by the sync of a
\* restore; nothing but a flip opens one.
LEMMA TrialMoves ==
  ASSUME WindowsClosed, FileInv, [Next]_vars, ~Dropped',
         ~Restore, \A p \in Offered : ~Flip(p) /\ ~FlipFailsLate(p)
  PROVE /\ proven' \in {proven, proven \cup {running}}
        /\ \/ OnTrial' = OnTrial /\ proven' = proven /\ (Restoring => Restoring')
           \/ ~OnTrial' /\ (OnTrial => Restoring \/ (pc = "confirmSync" /\ running \in proven'))
<1>0. ~Dropped
  BY WatchMoves
<1> USE <1>0 DEF OnTrial, HasFile, InCommit, FileInv
<1>1. CASE UNCHANGED vars
  BY <1>1 DEF vars, files, ghosts, Restoring
<1>2. CASE \E rel \in Releases : Boot(rel)
  BY <1>2 DEF Boot, files, ghosts, Restoring
<1>3. CASE NoTrial \/ CountBoot \/ RestoreRm \/ RestoreSync
  BY <1>3 DEF NoTrial, CountBoot, RestoreRm, RestoreSync, files, ghosts, FilesKept,
     SyncFiles, Restoring
<1>4. CASE NothingToApply \/ SyncSlots \/ RecordState \/ CommitSync \/ Reboot
  BY <1>4 DEF NothingToApply, SyncSlots, RecordState, CommitSync, Reboot, files, ghosts,
     FilesKept, SyncFiles, PowerGone, Restoring, Updating, Applying
<1>5. ASSUME NEW r \in Regions, BeginWrite(r) \/ \E p \in Offered : EndWrite(p, r)
      PROVE proven' = proven /\ OnTrial' = OnTrial /\ ~Restoring
  BY <1>5 DEF BeginWrite, EndWrite, files, ghosts, FilesKept, Restoring
<1>6. ASSUME NEW p \in Offered,
             SelectPayload(p) \/ VerifyPasses(p) \/ VerifyMismatch(p) \/ RecordHistory(p)
      PROVE proven' = proven /\ OnTrial' = OnTrial /\ ~Restoring
  BY <1>6 DEF SelectPayload, VerifyPasses, VerifyMismatch, RecordHistory, files, ghosts,
     FilesKept, GiveUp, Restoring
<1>7. CASE Session
  BY <1>7 DEF Session, Confirm, ConfirmSync, NothingToConfirm, SessionProves, files, ghosts,
     FilesKept, SyncFiles, NoFile, Restoring
<1>8. CASE WriteFails \/ VerifyMisreads \/ FlipFails \/ Hang
  BY <1>8 DEF WriteFails, VerifyMisreads, FlipFails, Hang, files, ghosts, FilesKept, GiveUp,
     Restoring
<1>9. ~RestoreFails
  BY DEF RestoreFails, Dropped
<1>10. CASE PowerCut
  BY <1>10 DEF PowerCut, WindowsClosed, InRestore, PowerGone, ghosts, Restoring
<1>11. CASE WritebackState \/ WritebackHistory
  BY <1>11 DEF WritebackState, WritebackHistory, ghosts, Restoring
<1>12. CASE PowerCycle \/ ShutDown
  BY <1>12 DEF PowerCycle, ShutDown, PowerGone, SyncFiles, ghosts, Restoring
<1>13. CASE \E p \in Offered : UserCopies(p) \/ UserDeletes(p)
  BY <1>13 DEF UserCopies, UserDeletes, files, ghosts, Restoring
<1> HIDE DEF OnTrial, HasFile, InCommit, FileInv
<1> QED
  BY <1>1, <1>2, <1>3, <1>4, <1>5, <1>6, <1>7, <1>8, <1>9, <1>10, <1>11, <1>12, <1>13
     DEF Next, Device, BootCheck, Apply, Faults, Environment

\* What apply flips from has reached a session, unless nothing watched over it.
LEMMA FlippedFrom ==
  ASSUME ApplyInv, RunningInv, FileInv, UpdateInv, ProvenInv, ~Dropped,
         NEW p \in Offered, Flip(p) \/ FlipFailsLate(p)
  PROVE /\ ~OnTrial /\ p.release # running /\ Runs(p.release)'
        /\ proven' = proven \ {p.release} /\ Unproven'
        /\ ~Unwatched => running \in proven'
<1>1. ~OnTrial /\ payload = {p} /\ p.release # running
  BY DEF Flip, FlipFailsLate, OnTrial, InCommit, FileInv, UpdateInv, Updating, Applying
<1>2. Runs(p.release)' /\ p.release \in Releases /\ proven' = proven \ {p.release}
  BY FlipComplete, ImageType DEF Flip, FlipFailsLate, Runs
<1>3. ~Unwatched => running \in proven
  <2> SUFFICES ASSUME ~Unwatched PROVE running \in proven
    OBVIOUS
  <2>1. PICK rel \in proven : Runs(rel)
    BY <1>1 DEF ProvenInv, Unproven
  <2>2. Runs(running) /\ running \in Releases /\ rel \in Releases
    BY <2>1 DEF Flip, FlipFailsLate, RunningInv, Booted, ApplyInv, TypeOK
  <2> QED
    BY <2>1, <2>2, OneRelease
<1>4. ASSUME NEW rel \in proven', Runs(rel)'
      PROVE FALSE
  <2>1. rel \in Releases /\ rel # p.release
    BY <1>2, <1>4 DEF ApplyInv, TypeOK
  <2>2. content'[Rootfs][half'[Rootfs]] = Image[rel][Rootfs]
        /\ content'[Rootfs][half'[Rootfs]] = Image[p.release][Rootfs]
    BY <1>2, <1>4, ImageAssumption DEF Runs, Holds
  <2> QED
    BY <1>2, <2>1, <2>2, ImageAssumption
<1> QED
  BY <1>1, <1>2, <1>3, <1>4 DEF Unproven

\* What is on trial is unproven, and what is not is proven or came unwatched.
LEMMA StepProvenInv ==
  ASSUME WindowsClosed, ApplyInv, RunningInv, FileInv, UpdateInv, IntactInv, ProvenInv,
         [Next]_vars
  PROVE ProvenInv'
<1> SUFFICES ASSUME ~Dropped'
             PROVE /\ (OnTrial /\ ~Restoring => Unproven)'
                   /\ (~Unwatched /\ OnTrial => previous \in proven)'
                   /\ (~Unwatched /\ ~OnTrial => ~Unproven)'
  BY DEF ProvenInv
<1>1. ASSUME NEW p \in Offered, Flip(p)
      PROVE Unproven' /\ OnTrial' /\ (~Unwatched' => (previous \in proven)')
  <2>1. ~Dropped /\ Unwatched' = Unwatched
    BY <1>1 DEF Flip, Dropped, Unwatched
  <2> QED
    BY <1>1, <2>1, FlippedFrom DEF Flip, OnTrial, InCommit
<1>2. ASSUME NEW p \in Offered, FlipFailsLate(p)
      PROVE Unproven' /\ Unwatched'
  <2>1. ~Dropped /\ Unwatched'
    BY <1>2 DEF FlipFailsLate, Dropped, Unwatched
  <2> QED
    BY <1>2, <2>1, FlippedFrom
<1>3. CASE Restore
  <2>1. ~Dropped /\ Unwatched' = Unwatched /\ OnTrial /\ OnTrial' /\ Restoring'
        /\ previous' = previous /\ proven' = proven
    BY <1>3 DEF Restore, ghosts, files, FilesKept, Dropped, Unwatched, FileInv, HasFile,
       OnTrial, InCommit, Restoring
  <2> QED
    BY <2>1 DEF ProvenInv
<1>4. ASSUME ~Restore, \A p \in Offered : ~Flip(p) /\ ~FlipFailsLate(p)
      PROVE /\ (OnTrial /\ ~Restoring => Unproven)'
            /\ (~Unwatched /\ OnTrial => previous \in proven)'
            /\ (~Unwatched /\ ~OnTrial => ~Unproven)'
  <2>1. /\ \A rel \in Releases : Runs(rel)' = Runs(rel)
        /\ previous' = previous
    BY <1>4, SlotsMove DEF ApplyInv
  <2>2. /\ ~Dropped
        /\ Unwatched' => Unwatched
        /\ Unwatched => Unwatched' \/ (~OnTrial' /\ Runs(running) /\ running \in proven')
    BY <1>4, WatchMoves
  <2>3. /\ proven' \in {proven, proven \cup {running}}
        /\ \/ OnTrial' = OnTrial /\ proven' = proven /\ (Restoring => Restoring')
           \/ ~OnTrial' /\ (OnTrial => Restoring \/ (pc = "confirmSync" /\ running \in proven'))
    BY <1>4, TrialMoves
  <2>4. /\ OnTrial /\ ~Restoring => Unproven
        /\ ~Unwatched /\ OnTrial => previous \in proven
        /\ ~Unwatched /\ ~OnTrial => ~Unproven
    BY <2>2 DEF ProvenInv
  <2>5. proven \subseteq proven' /\ proven \subseteq Releases /\ running \in Releases
    BY <2>3 DEF ApplyInv, TypeOK
  <2>6. ASSUME OnTrial'
        PROVE /\ ~Restoring' => Unproven'
              /\ ~Unwatched' => (previous \in proven)'
    <3>1. OnTrial /\ proven' = proven /\ (Restoring => Restoring')
      BY <2>3, <2>6
    <3>2. Unproven' = Unproven
      BY <2>1, <2>5, <3>1 DEF Unproven
    <3> QED
      BY <2>1, <2>2, <2>4, <2>6, <3>1, <3>2
  <2>7. ASSUME ~OnTrial', ~Unwatched'
        PROVE (\E rel \in proven : Runs(rel)) \/ (running \in proven' /\ Runs(running))
    <3>1. CASE Unwatched
      BY <2>2, <2>7, <3>1
    <3>2. CASE ~Unwatched /\ ~OnTrial
      BY <2>4, <3>2 DEF Unproven
    <3>3. CASE ~Unwatched /\ OnTrial /\ Restoring
      BY <2>4, <3>3 DEF IntactInv
    <3>4. CASE ~Unwatched /\ OnTrial /\ pc = "confirmSync" /\ running \in proven'
      BY <3>4 DEF RunningInv, InSession
    <3> QED
      BY <2>3, <2>7, <3>1, <3>2, <3>3, <3>4
  <2>8. ASSUME ~OnTrial', ~Unwatched'
        PROVE ~Unproven'
    BY <2>1, <2>5, <2>7, <2>8 DEF Unproven
  <2> QED
    BY <2>6, <2>8
<1> QED
  BY <1>1, <1>2, <1>3, <1>4

-----------------------------------------------------------------------------
\* A new card.
LEMMA InitTrialInv == Init => TrialInv
<1> SUFFICES ASSUME Init PROVE TrialInv
  OBVIOUS
<1>1. Runs(Factory) /\ Factory \in Releases
  BY ReleaseAssumption DEF Init, Runs, Holds, Halves
<1>2. ActiveComplete /\ RunningInv /\ FileInv /\ CardInv /\ UpdateInv /\ HistoryInv /\ IntactInv
  BY <1>1 DEF Init, ActiveComplete, RunningInv, Booted, InSession, FileInv, HasFile, NoFile, CardInv,
     UpdateInv, Updating, Applying, HistoryInv, IntactInv, Restoring
<1>3. previous \in proven /\ ~OnTrial /\ ~Unproven
  BY <1>1 DEF Init, OnTrial, HasFile, NoFile, InCommit, Unproven
<1> QED
  BY <1>2, <1>3 DEF TrialInv, ProvenInv

\* TrialInv is inductive beside ApplyInv.
THEOREM TrialInvariant ==
  ASSUME WindowsClosed
  PROVE Spec => [](ApplyInv /\ TrialInv)
<1>1. Init => ApplyInv /\ TrialInv
  BY InitApplyInv, InitTrialInv
<1>2. ApplyInv /\ TrialInv /\ [Next]_vars => (ApplyInv /\ TrialInv)'
  <2> SUFFICES ASSUME ApplyInv, TrialInv, [Next]_vars
               PROVE ApplyInv' /\ TrialInv'
    OBVIOUS
  <2>1. ApplyInv'
    BY StepTypeOK, StepJobInv, StepVerifiedInv DEF ApplyInv
  <2>2. FileInv'
    BY StepFileInv DEF TrialInv, ApplyInv
  <2>3. CardInv' /\ UpdateInv' /\ HistoryInv'
    BY StepCardInv, StepUpdateInv, StepHistoryInv DEF TrialInv, ApplyInv
  <2>4. RunningInv' /\ ActiveComplete'
    BY StepRunningInv, StepActiveComplete DEF TrialInv, ApplyInv
  <2>5. IntactInv' /\ ProvenInv'
    BY <2>2, StepIntactInv, StepProvenInv DEF TrialInv, ApplyInv
  <2> QED
    BY <2>1, <2>2, <2>3, <2>4, <2>5 DEF TrialInv
<1> QED
  BY <1>1, <1>2, PTL DEF Spec

\* No write, flip or rollback, cut short anywhere, leaves a card whose active
\* halves hold no whole release or parts of two.
THEOREM AlwaysComplete == ASSUME WindowsClosed PROVE Spec => []ActiveComplete
<1>1. TrialInv => ActiveComplete
  BY DEF TrialInv
<1> QED
  BY <1>1, TrialInvariant, PTL

\* A release that never reached a session runs only under a trial a power cut
\* cannot take away, from the reboot into it on, or after a flip that gptslot reported
\* as failed: NewSlotsOnTrial names the two cases, and its lapses end with the session.
THEOREM AlwaysOnTrial == ASSUME WindowsClosed PROVE Spec => []NewSlotsOnTrial
<1>1. ApplyInv /\ TrialInv => NewSlotsOnTrial
  <2> SUFFICES ASSUME ApplyInv, TrialInv, ~InCommit, lapses = {}, ActiveComplete
               PROVE \E rel \in Releases : Runs(rel) /\ (rel \in proven \/ HasFile(stateD))
    BY DEF NewSlotsOnTrial, HasFile
  <2>1. ~OnTrial => ~Unproven
    BY DEF TrialInv, ProvenInv, Dropped, Unwatched
  <2>2. proven \subseteq Releases
    BY DEF ApplyInv, TypeOK
  <2> QED
    BY <2>1, <2>2 DEF OnTrial, Unproven, ActiveComplete
<1> QED
  BY <1>1, TrialInvariant, PTL

\* As long as there is a trial file on the card, the halves it would bring back hold
\* the release that ran before, whatever flips have failed.
THEOREM AlwaysIntact == ASSUME WindowsClosed PROVE Spec => []RollbackIntact
<1>1. TrialInv => RollbackIntact
  BY DEF TrialInv, IntactInv, RollbackIntact, InRestore, Restoring, HasFile
<1> QED
  BY <1>1, TrialInvariant, PTL

\* Once a session is up no trial is left that later boots could count.
THEOREM AlwaysCloses == ASSUME WindowsClosed PROVE Spec => []SessionClosesTrial
<1>1. TrialInv => SessionClosesTrial
  BY DEF TrialInv, FileInv, HasFile, SessionClosesTrial, Dropped
<1> QED
  BY <1>1, TrialInvariant, PTL

\* The history outlives rollbacks and power cuts: no release is committed twice.
THEOREM CommittedOnce == ASSUME WindowsClosed PROVE Spec => NeverRetried
<1>1. ApplyInv /\ TrialInv /\ [Next]_vars =>
        [committed' # committed \/ (pc = "flip" /\ pc' = "history") =>
           committed' \ committed # {}]_vars
  <2> SUFFICES ASSUME ApplyInv, TrialInv, [Next]_vars,
                      committed' # committed \/ (pc = "flip" /\ pc' = "history")
               PROVE committed' \ committed # {}
    OBVIOUS
  <2>1. PICK p \in Offered : Flip(p)
    <3>1. CASE committed' # committed
      BY <3>1, SlotsMove DEF ApplyInv, Restore, FlipFailsLate, ghosts
    <3>2. CASE pc = "flip" /\ pc' = "history"
      BY <3>2, OnlyRecording DEF RecordHistory, WritebackState, WritebackHistory, vars
    <3> QED
      BY <3>1, <3>2
  <2>2. p.release \notin committed
    BY <2>1 DEF TrialInv, HistoryInv, UpdateInv, Updating, Applying, Flip
  <2> QED
    BY <2>1, <2>2 DEF Flip
<1> QED
  BY <1>1, TrialInvariant, PTL DEF Spec, NeverRetried

\* boot-check flips back to the release that ran before the last commit.
THEOREM RestoresPrevious == ASSUME WindowsClosed PROVE Spec => RollbackRestores
<1>1. ApplyInv /\ TrialInv /\ [Next]_vars =>
        [pc = "bootCheck" /\ half' # half => Holds(half, previous)']_vars
  <2> SUFFICES ASSUME ApplyInv, TrialInv, [Next]_vars, pc = "bootCheck", half' # half
               PROVE Holds(half, previous)'
    OBVIOUS
  <2>1. Restore
    BY SlotsMove DEF ApplyInv, Flip, FlipFailsLate
  <2> QED
    BY <2>1, RestoreReturns DEF TrialInv, Runs
<1> QED
  BY <1>1, TrialInvariant, PTL DEF Spec, RollbackRestores

\* boot-check never takes a release back that reached its session.
THEOREM ProvenStays == ASSUME WindowsClosed PROVE Spec => ProvenNeverRolledBack
<1>1. ApplyInv /\ TrialInv /\ [Next]_vars =>
        [pc = "bootCheck" /\ half' # half /\ "dropped" \notin lapses =>
           \A rel \in proven : ~Runs(rel)]_vars
  <2> SUFFICES ASSUME ApplyInv, TrialInv, [Next]_vars, pc = "bootCheck", half' # half, ~Dropped
               PROVE Unproven
    BY DEF Dropped, Unproven
  <2>1. Restore
    BY SlotsMove DEF ApplyInv, Flip, FlipFailsLate
  <2>2. OnTrial /\ ~Restoring
    BY <2>1 DEF Restore, TrialInv, FileInv, HasFile, OnTrial, Restoring
  <2> QED
    BY <2>2 DEF TrialInv, ProvenInv
<1> QED
  BY <1>1, TrialInvariant, PTL DEF Spec, ProvenNeverRolledBack

-----------------------------------------------------------------------------
(* The refinement of ABTrial, step by step.                                *)

Installed == CHOOSE rel \in Releases : Runs(rel)
Phase ==
  IF lapses # {} THEN "lost" ELSE IF \E rel \in proven : Runs(rel) THEN "stable" ELSE "trial"

\* What the card holds is determined by the active halves, before a step and
\* after it.
LEMMA InstalledIs ==
  ASSUME NEW rel \in Releases
  PROVE /\ Runs(rel) => Installed = rel
        /\ Runs(rel)' => Installed' = rel
<1>1. ASSUME Runs(rel) PROVE Installed = rel
  <2>1. Installed \in Releases /\ Runs(Installed)
    BY <1>1 DEF Installed
  <2> QED
    BY <1>1, <2>1, OneRelease
<1>2. ASSUME Runs(rel)' PROVE Installed' = rel
  <2>1. Installed' \in Releases /\ Runs(Installed)'
    BY <1>2, Zenon DEF Installed, Runs, Holds
  <2>2. Image[Installed'][Rootfs] = Image[rel][Rootfs]
    BY <1>2, <2>1, ImageAssumption DEF Runs, Holds
  <2> QED
    BY <2>1, <2>2, ImageAssumption
<1> QED
  BY <1>1, <1>2

\* The phase in terms of the invariant.
LEMMA PhaseIs ==
  /\ lapses # {} => Phase = "lost"
  /\ lapses = {} /\ Unproven => Phase = "trial"
  /\ lapses = {} /\ ~Unproven => Phase = "stable"
  /\ Phase \in {"lost", "trial", "stable"}
  BY DEF Phase, Unproven

\* The flip of apply is an update, and one that is reported as failed a slip.
LEMMA FlipUpdates ==
  ASSUME ApplyInv, TrialInv, NEW p \in Offered, Flip(p) \/ FlipFailsLate(p)
  PROVE AB!ABNext
<1>1. running \in Releases /\ p.release \in Releases /\ Runs(running) /\ Runs(p.release)'
  BY FlipComplete, ImageType DEF ApplyInv, TypeOK, TrialInv, RunningInv, Booted, Flip,
     FlipFailsLate, Runs
<1>2. Installed = running /\ Installed' = p.release
  BY <1>1, InstalledIs
<1>3. p.release \notin committed /\ p.release # running
  BY DEF TrialInv, HistoryInv, UpdateInv, Updating, Applying, Flip, FlipFailsLate
<1>4. lapses = {} => ~Unproven /\ Unproven'
  BY FlippedFrom DEF TrialInv, ProvenInv, Dropped, Unwatched
<1>5. CASE lapses # {}
  <2>1. Phase = "lost" /\ Phase' = "lost"
    BY <1>5, PhaseIs DEF Flip, FlipFailsLate, Phase
  <2>2. committed \subseteq committed' /\ (committed' = committed => previous' = previous)
    BY <1>3 DEF Flip, FlipFailsLate
  <2> QED
    BY <1>1, <1>2, <2>1, <2>2 DEF AB!ABNext, AB!Lost, Installed, Phase
<1>6. CASE lapses = {} /\ Flip(p)
  <2>1. Phase = "stable"
    BY <1>4, <1>6, PhaseIs
  <2>2. Phase' = "trial"
    BY <1>4, <1>6 DEF Flip, Phase, Unproven
  <2> QED
    BY <1>1, <1>2, <1>3, <1>6, <2>1, <2>2 DEF AB!ABNext, AB!Update, Installed, Phase, Flip
<1>7. CASE lapses = {} /\ FlipFailsLate(p)
  <2>1. Phase = "stable"
    BY <1>4, <1>7, PhaseIs
  <2>2. Phase' = "lost"
    BY <1>7 DEF FlipFailsLate, Phase
  <2> QED
    BY <1>1, <1>2, <1>7, <2>1, <2>2 DEF AB!ABNext, AB!Slip, Installed, Phase, FlipFailsLate
<1> QED
  BY <1>5, <1>6, <1>7

\* The restoring flip of boot-check is a rollback.
LEMMA RestoreRollsBack ==
  ASSUME ApplyInv, TrialInv, Restore
  PROVE AB!ABNext
<1>1. Runs(previous)' /\ previous' = previous /\ previous \in Releases
  BY RestoreReturns DEF TrialInv, ApplyInv, TypeOK
<1>2. Installed' = previous /\ committed' = committed /\ lapses' = lapses /\ proven' = proven
  BY <1>1, InstalledIs DEF Restore, ghosts
<1>3. CASE lapses # {}
  <2>1. Phase = "lost" /\ Phase' = "lost"
    BY <1>2, <1>3 DEF Phase
  <2> QED
    BY <1>1, <1>2, <2>1 DEF AB!ABNext, AB!Lost, Installed, Phase
<1>4. CASE lapses = {}
  <2>1. OnTrial /\ ~Restoring
    BY DEF Restore, TrialInv, FileInv, HasFile, OnTrial, Restoring
  <2>2. Unproven /\ previous \in proven
    BY <1>4, <2>1 DEF TrialInv, ProvenInv, Dropped, Unwatched
  <2>3. Phase = "trial"
    BY <1>4, <2>2, PhaseIs
  <2>4. \E rel \in proven' : Runs(rel)'
    BY <1>1, <1>2, <2>2 DEF Runs, Holds
  <2>5. Phase' = "stable"
    BY <1>2, <1>4, <2>4 DEF Phase
  <2> QED
    BY <1>1, <1>2, <2>3, <2>5 DEF AB!ABNext, AB!Rollback, Installed, Phase
<1> QED
  BY <1>3, <1>4

\* Every other step keeps the trial, abandons it, proves what was lost or changes
\* nothing of it.
LEMMA OthersKeep ==
  ASSUME WindowsClosed, ApplyInv, TrialInv, [Next]_vars,
         ~Restore, \A p \in Offered : ~Flip(p) /\ ~FlipFailsLate(p)
  PROVE [AB!ABNext]_(AB!abVars)
<1>1. /\ \A rel \in Releases : Runs(rel)' = Runs(rel)
      /\ previous' = previous /\ committed' = committed
  BY SlotsMove DEF ApplyInv
<1>2. Installed' = Installed
  <2>1. PICK rel \in Releases : Runs(rel)
    BY DEF TrialInv, ActiveComplete
  <2> QED
    BY <1>1, <2>1, InstalledIs
<1>3. CASE lapses # {} /\ lapses' # {}
  <2>1. Phase = "lost" /\ Phase' = "lost"
    BY <1>3 DEF Phase
  <2> QED
    BY <1>1, <1>2, <2>1 DEF AB!abVars, Installed, Phase
<1>4. CASE lapses = {} /\ lapses' # {}
  <2>1. RestoreFails
    BY <1>4, LapsesMove
  <2>2. OnTrial /\ ~Restoring
    BY <2>1 DEF RestoreFails, TrialInv, FileInv, HasFile, OnTrial, Restoring
  <2>3. Unproven
    BY <1>4, <2>2 DEF TrialInv, ProvenInv, Dropped
  <2>4. Phase = "trial" /\ Phase' = "lost"
    BY <1>4, <2>3, PhaseIs DEF Phase
  <2> QED
    BY <1>1, <1>2, <2>4 DEF AB!ABNext, AB!Abandon, Installed, Phase
<1>5. CASE lapses # {} /\ lapses' = {}
  <2>1. Runs(running) /\ running \in proven'
    BY <1>5, LapsesMove DEF ConfirmSync, NothingToConfirm, SessionProves
  <2>2. \E rel \in proven' : Runs(rel)'
    BY <1>1, <2>1 DEF ApplyInv, TypeOK
  <2>3. Phase = "lost" /\ Phase' = "stable"
    BY <1>5, <2>2 DEF Phase
  <2> QED
    BY <1>1, <1>2, <2>3 DEF AB!ABNext, AB!Recover, Installed, Phase
<1>6. CASE lapses = {} /\ lapses' = {}
  <2>1. proven \subseteq proven' /\ proven \subseteq Releases
    BY <1>6, TrialMoves DEF TrialInv, ApplyInv, TypeOK, Dropped
  <2>2. (\E rel \in proven : Runs(rel)) => \E rel \in proven' : Runs(rel)'
    BY <1>1, <2>1
  <2>3. Phase' = Phase \/ (Phase = "trial" /\ Phase' = "stable")
    BY <1>6, <2>2 DEF Phase
  <2> QED
    BY <1>1, <1>2, <2>3 DEF AB!ABNext, AB!Keep, AB!abVars, Installed, Phase
<1> QED
  BY <1>3, <1>4, <1>5, <1>6

\* A new card is stable, on its factory release.
LEMMA InitImplements == Init => AB!ABInit
<1> SUFFICES ASSUME Init PROVE AB!ABInit
  OBVIOUS
<1>1. Runs(Factory) /\ Factory \in Releases
  BY ReleaseAssumption DEF Init, Runs, Holds, Halves
<1>2. Installed = Factory
  BY <1>1, InstalledIs
<1>3. Phase = "stable"
  BY <1>1 DEF Init, Phase
<1> QED
  BY <1>2, <1>3 DEF Init, AB!ABInit, Installed, Phase

\* The engine implements what ABTrial promises of it, but for the liveness: every
\* step of slots, files and power maps to a step of a trial or to none.  A flip that
\* took effect and was reported as failed is ABTrial's Slip.
THEOREM ImplementsSafety == ASSUME WindowsClosed PROVE Spec => AB!ABSafety
<1>1. ApplyInv /\ TrialInv /\ [Next]_vars => [AB!ABNext]_(AB!abVars)
  BY FlipUpdates, RestoreRollsBack, OthersKeep
<1> QED
  BY <1>1, InitImplements, TrialInvariant, PTL DEF Spec, AB!ABSafety

-----------------------------------------------------------------------------
\* The versions, whichever windows are exposed.

\* What a release's version is newer than is not newer than it, nor is it than itself.
LEMMA NotBefore ==
  ASSUME \A c \in Cores : Len(c) <= 3, NEW new \in Releases, NEW old \in Releases,
         Supersedes(new, old)
  PROVE  ~SemverPrecedes(new.version, old.version)
<1>1. new.version \in Versions /\ old.version \in Versions
  BY ReleaseAssumption
<1>2. ~Newer(old.version, new.version)
  BY <1>1, NewerOrder DEF Supersedes
<1> QED
  BY <1>1, <1>2, NewerIsPrecedence

\* In every state in which a boot looks for a payload, the versions it would take for
\* newer are those that semver.org puts after its own, for versions with cores of up to
\* three fields and pre-releases of any number.
THEOREM TakesLaterOnly ==
  ASSUME \A c \in Cores : Len(c) <= 3
  PROVE  Spec => []NewerIsSemver
<1>1. TypeOK => NewerIsSemver
  <2> SUFFICES ASSUME TypeOK PROVE NewerIsSemver
    OBVIOUS
  <2>1. running.version \in Versions
    BY ReleaseAssumption DEF TypeOK
  <2> QED
    BY <2>1, NewerIsPrecedence DEF NewerIsSemver
<1> QED
  BY <1>1, TypeCorrect, PTL

\* No flip of apply goes to a version before the running one, whatever was cut, failed
\* or was copied meanwhile, for versions with cores of up to three fields.
THEOREM AlwaysForward ==
  ASSUME \A c \in Cores : Len(c) <= 3
  PROVE  Spec => OnlyForward
<1>1. Init => UpdateInv
  BY DEF Init, UpdateInv, Updating, Applying
<1>2. TypeOK /\ UpdateInv /\ [Next]_vars => UpdateInv'
  BY StepUpdateInv
<1>3. TypeOK /\ UpdateInv /\ [Next]_vars =>
        [pc = "flip" /\ half' # half =>
           \A p \in payload : ~SemverPrecedes(p.release.version, running.version)]_vars
  <2> SUFFICES ASSUME TypeOK, UpdateInv, pc = "flip", NEW p \in payload
               PROVE ~SemverPrecedes(p.release.version, running.version)
    OBVIOUS
  <2>1. p.release \in Releases /\ Supersedes(p.release, running)
    BY ImageType DEF UpdateInv, Updating, Applying
  <2>2. running \in Releases
    BY DEF TypeOK
  <2> QED
    BY <2>1, <2>2, NotBefore
<1> QED
  BY <1>1, <1>2, <1>3, TypeCorrect, PTL DEF Spec, OnlyForward
=============================================================================
