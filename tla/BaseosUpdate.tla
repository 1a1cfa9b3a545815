---------------------------- MODULE BaseosUpdate ----------------------------
(***************************************************************************)
(* The A/B update engine, overlay/usr/sbin/baseos-update, driven by the    *)
(* boot that calls it: rcS runs boot-check and apply, frontend-session     *)
(* runs confirm.  Each region of the card has two halves and the partition *)
(* table names the active one.  An update writes spare halves, verifies    *)
(* them, flips the table and opens a trial in /data/update; the trial ends *)
(* when a session starts, or the previous halves come back.                *)
(*                                                                         *)
(* Power may be cut between any two steps.  The two files under            *)
(* /data/update have a cached and a durable copy, since only some paths    *)
(* of the script call sync.  Slot writes (dd conv=fsync) and gptslot flip  *)
(* (fsync) are durable when they return; GptCommit opens up the flip.  A   *)
(* flip that reports an error may have kept the table or changed it.       *)
(***************************************************************************)
EXTENDS VersionOrder, FiniteSets

CONSTANTS
  Regions,   \* the A/B regions: uboot, boot, rootfs
  Rootfs,    \* the one that is written by every update
  Releases,  \* releases, records with a version and a build
  Image,     \* [Releases -> [Regions -> the image a release puts there]]
  Junk,      \* what a half holds when it holds no whole image
  Factory,   \* the release the card was flashed with
  Broken,    \* releases that run rcS but never reach a session
  Offered,   \* payloads a user may copy to the card
  MaxCuts,   \* bound: power cuts that do not wait for a hung boot
  Exposed    \* the hazard windows this instance opens, see Windows

Images == {Image[rel][r] : rel \in Releases, r \in Regions}

Payload == [release : Releases,  \* what its manifest promises
            fits : BOOLEAN,      \* format, target and slot sizes are ours
            sound : BOOLEAN]     \* its body hashes to its manifest

(***************************************************************************)
(* What an instance may let happen beyond the benign environment:          *)
(*   "commit"   a power cut after the flip and before the trial is synced  *)
(*   "restore"  a power cut after the restoring flip, before the trial is  *)
(*              durably gone                                               *)
(*   "stacked"  another applicable payload reaching the card while a trial *)
(*              is open, or beside the one that opens it                   *)
(*   "noflip"   an I/O error in the restoring flip                         *)
(*   "moved"    ... that is reported after the table has changed           *)
(***************************************************************************)
Windows == {"commit", "restore", "stacked", "noflip", "moved"}

ASSUME ReleaseAssumption ==
  /\ \A rel \in Releases : rel.version \in Versions
  /\ Factory \in Releases /\ Broken \subseteq Releases \ {Factory}

ASSUME ImageAssumption ==
  /\ Rootfs \in Regions
  /\ Image \in [Releases -> [Regions -> Images]]
  /\ Junk \notin Images
  \* The rootfs carries the build stamp, so no two releases share one.
  /\ \A a, b \in Releases : Image[a][Rootfs] = Image[b][Rootfs] => a = b

ASSUME InstanceAssumption ==
  Offered \subseteq Payload /\ MaxCuts \in Nat /\ Exposed \subseteq Windows

MAX_TRIAL_BOOTS == 3

VARIABLES
  half,       \* [Regions -> Halves], the active half the GPT names
  content,    \* [Regions -> [Halves -> image or Junk]], both halves
  running,    \* the release whose /etc/baseos-release this boot reads
  state,      \* /data/update/state as the system sees it
  stateD,     \* ... and as a power cut would leave it
  history,    \* the releases /data/update/history lists
  historyD,
  onCard,     \* payloads lying on the cards apply scans
  pc,         \* where the boot is
  payload,    \* {} or {p}: the payload apply works on
  regions,    \* the regions that payload changes
  todo,       \* those not yet written
  open,       \* the region being written, {} or {r}
  proven,     \* history variable: releases whose session durably ended
              \* their last trial, and the factory release until it has one
  committed,  \* history variable: releases apply has flipped to
  previous,   \* history variable: the release that ran when it last did
  lapses,     \* history variable: what a failed flip has left, see Lapses
  cuts        \* power cuts so far

slots == <<half, content>>
files == <<state, stateD, history, historyD>>
job == <<payload, regions, todo, open>>
ghosts == <<proven, committed, previous, lapses>>
vars == <<slots, running, files, onCard, pc, job, ghosts, cuts>>

-----------------------------------------------------------------------------
(* Slots.                                                                  *)

Halves == {"A", "B"}
Other(h) == IF h = "A" THEN "B" ELSE "A"
Flipped(rs) == [r \in Regions |-> IF r \in rs THEN Other(half[r]) ELSE half[r]]

\* The halves `h` names hold exactly the images of rel.
Holds(h, rel) == \A r \in Regions : content[r][h[r]] = Image[rel][r]

(***************************************************************************)
(* The trial file.  A cut can leave it empty: it was created and its data  *)
(* never reached the card.  Every field then reads as "": attempts counts  *)
(* as 0, regions= defaults to all of them, no payload is named.            *)
(***************************************************************************)
TrialFile == [file : {"none", "empty", "full"},
              attempts : 0 .. MAX_TRIAL_BOOTS - 1,
              regions : SUBSET Regions,
              payload : SUBSET Offered]

(***************************************************************************)
(* What flips that report an error leave behind:                           *)
(*   "dropped"    the restoring flip failed, and its trial is gone          *)
(*   "unwatched"  apply's flip failed after it had changed the table: until *)
(*                a release the card boots has reached a session, no trial *)
(*                watches over what runs                                   *)
(***************************************************************************)
Lapses == {"dropped", "unwatched"}

NoFile == [file |-> "none", attempts |-> 0, regions |-> {}, payload |-> {}]
EmptyFile == [file |-> "empty", attempts |-> 0, regions |-> Regions, payload |-> {}]

SyncFiles == stateD' = state /\ historyD' = history
FilesKept == UNCHANGED files

-----------------------------------------------------------------------------
(* The verdict on a payload (evaluate).                                    *)

\* Only forward, except that a rebuild of the running version is taken.
Supersedes(new, old) ==
  \/ Newer(new.version, old.version)
  \/ new.version = old.version /\ new # old

\* Mutant: the history is not consulted.
ApplicableAgain(p) == p.fits /\ Supersedes(p.release, running)

Applicable(p) ==
  /\ p.fits
  /\ Supersedes(p.release, running)
  /\ p.release \notin history

\* Mutant: only the rootfs is ever written.
UnchangedUnread(p, r) == r # Rootfs

\* Does the running half of r already hold p's image?  Never asked of rootfs.
Unchanged(p, r) ==
  r # Rootfs /\ content[r][half[r]] = Image[p.release][r]

-----------------------------------------------------------------------------
Init ==
  /\ half = [r \in Regions |-> "A"]
  /\ content = [r \in Regions |->
                  [h \in Halves |-> IF h = "A" THEN Image[Factory][r] ELSE Junk]]
  /\ running = Factory
  /\ state = NoFile /\ stateD = NoFile
  /\ history = {} /\ historyD = {}
  /\ onCard = {}
  /\ pc = "off"
  /\ payload = {} /\ regions = {} /\ todo = {} /\ open = {}
  /\ proven = {Factory} /\ committed = {} /\ previous = Factory /\ lapses = {}
  /\ cuts = 0

-----------------------------------------------------------------------------
(* The user and the power.                                                 *)

\* A payload is copied to a card.  Unless "stacked" is exposed, the user
\* waits for an open trial to end and leaves one fitting payload at a time.
UserCopies(p) ==
  /\ pc = "off"
  /\ p \notin onCard
  /\ \/ "stacked" \in Exposed
     \/ stateD.file = "none" /\ (p.fits => \A q \in onCard : ~q.fits)
  /\ onCard' = onCard \cup {p}
  /\ UNCHANGED <<slots, running, files, pc, job, ghosts, cuts>>

UserDeletes(p) ==
  /\ pc = "off"
  /\ p \in onCard
  /\ onCard' = onCard \ {p}
  /\ UNCHANGED <<slots, running, files, pc, job, ghosts, cuts>>

\* Power on.  Halves that make up no release never get as far as rcS.
Boot(rel) ==
  /\ pc = "off"
  /\ Holds(half, rel)
  /\ running' = rel
  /\ pc' = "bootCheck"
  /\ UNCHANGED <<slots, files, onCard, job, ghosts, cuts>>

\* A broken release stops anywhere between boot-check and its session.
Hang ==
  /\ pc \in {"apply", "session"}
  /\ running \in Broken
  /\ pc' = "hung"
  /\ UNCHANGED <<slots, running, files, onCard, job, ghosts, cuts>>

PowerGone ==
  /\ pc' = "off"
  /\ payload' = {} /\ regions' = {} /\ todo' = {} /\ open' = {}

\* A hung boot is switched off once the kernel's writeback has caught up.
PowerCycle ==
  /\ pc = "hung"
  /\ PowerGone
  /\ SyncFiles
  /\ UNCHANGED <<slots, running, state, history, onCard, ghosts, cuts>>

\* rcK unmounts /data, which syncs it.
ShutDown ==
  /\ pc = "up"
  /\ PowerGone
  /\ SyncFiles
  /\ UNCHANGED <<slots, running, state, history, onCard, ghosts, cuts>>

InCommit == pc \in {"history", "state", "commitSync"}
InRestore == pc \in {"restoreRm", "restoreSync"}

\* Power fails.  Of the two files only the durable copies remain, and a
\* trial file that was being created may remain with nothing in it.
PowerCut ==
  /\ pc \notin {"off", "hung"}
  /\ cuts < MaxCuts
  /\ InCommit => "commit" \in Exposed
  /\ InRestore => "restore" \in Exposed
  /\ PowerGone
  /\ state' \in {stateD} \cup
       (IF state.file = "full" /\ stateD.file = "none" THEN {EmptyFile} ELSE {})
  /\ stateD' = state'
  /\ history' = historyD
  /\ cuts' = cuts + 1
  /\ UNCHANGED <<slots, running, historyD, onCard, ghosts>>

\* The kernel writes either file back on its own, in either order.
WritebackState ==
  /\ pc # "off" /\ stateD # state
  /\ stateD' = state
  /\ proven' = IF pc = "confirmSync" THEN proven \cup {running} ELSE proven
  /\ UNCHANGED <<slots, running, state, history, historyD, onCard, pc, job,
                 committed, previous, lapses, cuts>>

WritebackHistory ==
  /\ pc # "off" /\ historyD # history
  /\ historyD' = history
  /\ UNCHANGED <<slots, running, state, stateD, history, onCard, pc, job, ghosts, cuts>>

-----------------------------------------------------------------------------
(* rcS: baseos-update boot-check.                                          *)

NoTrial ==
  /\ pc = "bootCheck"
  /\ state.file = "none"
  /\ pc' = "apply"
  /\ FilesKept
  /\ UNCHANGED <<slots, running, onCard, job, ghosts, cuts>>

\* Mutant: one boot too many.
LastBootLate == state.attempts + 1 > MAX_TRIAL_BOOTS

LastBoot == state.attempts + 1 >= MAX_TRIAL_BOOTS

\* Mutant: the count is logged but not written back.
CountBootForgets ==
  /\ pc = "bootCheck"
  /\ state.file # "none" /\ ~LastBoot
  /\ pc' = "apply"
  /\ FilesKept
  /\ UNCHANGED <<slots, running, onCard, job, ghosts, cuts>>

\* The count goes through sed, which leaves an empty file empty; no sync.
CountBoot ==
  /\ pc = "bootCheck"
  /\ state.file # "none" /\ ~LastBoot
  /\ state' = IF state.file = "full" THEN [state EXCEPT !.attempts = @ + 1] ELSE state
  /\ pc' = "apply"
  /\ UNCHANGED <<slots, running, stateD, history, historyD, onCard, job, ghosts, cuts>>

\* Mutant: every region is flipped back, updated or not.
RestoreAll ==
  /\ pc = "bootCheck"
  /\ state.file # "none" /\ LastBoot
  /\ half' = Flipped(Regions)
  /\ pc' = "restoreRm"
  /\ FilesKept
  /\ UNCHANGED <<content, running, onCard, job, ghosts, cuts>>

Restore ==
  /\ pc = "bootCheck"
  /\ state.file # "none" /\ LastBoot
  /\ half' = Flipped(state.regions)
  /\ pc' = "restoreRm"
  /\ FilesKept
  /\ UNCHANGED <<content, running, onCard, job, ghosts, cuts>>

\* Mutant: the trial file outlives the restore.
RestoreKeepsTrial ==
  /\ pc = "restoreRm"
  /\ pc' = "restoreSync"
  /\ FilesKept
  /\ UNCHANGED <<slots, running, onCard, job, ghosts, cuts>>

RestoreRm ==
  /\ pc = "restoreRm"
  /\ state' = NoFile
  /\ pc' = "restoreSync"
  /\ UNCHANGED <<slots, running, stateD, history, historyD, onCard, job, ghosts, cuts>>

RestoreSync ==
  /\ pc = "restoreSync"
  /\ SyncFiles
  /\ pc' = "reboot"
  /\ UNCHANGED <<slots, running, state, history, onCard, job, ghosts, cuts>>

\* The restoring flip reports an error: the trial is dropped and the boot goes on,
\* whatever the table names now.
RestoreFails ==
  /\ pc = "bootCheck"
  /\ "noflip" \in Exposed
  /\ state.file # "none" /\ LastBoot
  /\ half' \in {half} \cup (IF "moved" \in Exposed THEN {Flipped(state.regions)} ELSE {})
  /\ state' = NoFile
  /\ pc' = "apply"
  /\ lapses' = lapses \cup {"dropped"}
  /\ UNCHANGED <<content, running, stateD, history, historyD, onCard, job, proven,
                 committed, previous, cuts>>

-----------------------------------------------------------------------------
(* rcS: baseos-update apply.                                               *)

NothingToApply ==
  /\ pc = "apply"
  /\ \A p \in onCard : ~Applicable(p)
  /\ pc' = "session"
  /\ FilesKept
  /\ UNCHANGED <<slots, running, onCard, job, ghosts, cuts>>

\* select_payload takes the first applicable payload in search order, which
\* is the order of file names: any of them.
SelectPayload(p) ==
  /\ pc = "apply"
  /\ p \in onCard /\ Applicable(p)
  /\ payload' = {p}
  /\ regions' = {r \in Regions : ~Unchanged(p, r)}
  /\ todo' = regions'
  /\ open' = {}
  /\ pc' = "write"
  /\ FilesKept
  /\ UNCHANGED <<slots, running, onCard, ghosts, cuts>>

SpareBecomes(r, image) ==
  content' = [content EXCEPT ![r][Other(half[r])] = image]

\* write_slot: from its first chunk to its last the half holds no image.
\* The order of the regions is left open; nothing depends on it.
BeginWrite(r) ==
  /\ pc = "write"
  /\ open = {} /\ r \in todo
  /\ SpareBecomes(r, Junk)
  /\ open' = {r}
  /\ FilesKept
  /\ UNCHANGED <<half, running, onCard, pc, payload, regions, todo, ghosts, cuts>>

EndWrite(p, r) ==
  /\ pc = "write"
  /\ p \in payload /\ r \in open
  /\ SpareBecomes(r, IF p.sound THEN Image[p.release][r] ELSE Junk)
  /\ open' = {}
  /\ todo' = todo \ {r}
  /\ FilesKept
  /\ UNCHANGED <<half, running, onCard, pc, payload, regions, ghosts, cuts>>

GiveUp ==
  /\ pc' = "session"
  /\ payload' = {} /\ regions' = {} /\ todo' = {} /\ open' = {}

WriteFails ==
  /\ pc = "write"
  /\ open # {}
  /\ GiveUp
  /\ FilesKept
  /\ UNCHANGED <<slots, running, onCard, ghosts, cuts>>

SyncSlots ==
  /\ pc = "write"
  /\ todo = {}
  /\ SyncFiles
  /\ pc' = "verify"
  /\ UNCHANGED <<slots, running, state, history, onCard, job, ghosts, cuts>>

\* Mutant: the verify loop runs over the list the write loop used up.
VerifiedTodo(p) ==
  \A r \in todo : content[r][Other(half[r])] = Image[p.release][r]

Verified(p) ==
  \A r \in regions : content[r][Other(half[r])] = Image[p.release][r]

VerifyPasses(p) ==
  /\ pc = "verify"
  /\ p \in payload
  /\ Verified(p)
  /\ pc' = "flip"
  /\ FilesKept
  /\ UNCHANGED <<slots, running, onCard, job, ghosts, cuts>>

VerifyMismatch(p) ==
  /\ pc = "verify"
  /\ p \in payload
  /\ ~Verified(p)
  /\ GiveUp
  /\ FilesKept
  /\ UNCHANGED <<slots, running, onCard, ghosts, cuts>>

\* A read that fails hashes short, whatever the half holds.
VerifyMisreads ==
  /\ pc = "verify"
  /\ GiveUp
  /\ FilesKept
  /\ UNCHANGED <<slots, running, onCard, ghosts, cuts>>

Flip(p) ==
  /\ pc = "flip"
  /\ p \in payload
  /\ half' = Flipped(regions)
  /\ proven' = proven \ {p.release}
  /\ committed' = committed \cup {p.release}
  /\ previous' = running
  /\ pc' = "history"
  /\ FilesKept
  /\ UNCHANGED <<content, running, onCard, job, lapses, cuts>>

\* gptslot reports an error: before it wrote to the primary table ...
FlipFails ==
  /\ pc = "flip"
  /\ GiveUp
  /\ FilesKept
  /\ UNCHANGED <<slots, running, onCard, ghosts, cuts>>

\* ... or behind that, so that the next boot runs the new slots: apply goes on as
\* if nothing had changed, and writes neither a trial nor the history.
FlipFailsLate(p) ==
  /\ pc = "flip"
  /\ p \in payload
  /\ half' = Flipped(regions)
  /\ proven' = proven \ {p.release}
  /\ lapses' = lapses \cup {"unwatched"}
  /\ GiveUp
  /\ FilesKept
  /\ UNCHANGED <<content, running, onCard, committed, previous, cuts>>

RecordHistory(p) ==
  /\ pc = "history"
  /\ p \in payload
  /\ history' = history \cup {p.release}
  /\ pc' = "state"
  /\ UNCHANGED <<slots, running, state, stateD, historyD, onCard, job, ghosts, cuts>>

\* Mutant: regions= names every region, not those the update flipped.
RecordStateAll ==
  /\ pc = "state"
  /\ state' = [file |-> "full", attempts |-> 0, regions |-> Regions, payload |-> payload]
  /\ pc' = "commitSync"
  /\ UNCHANGED <<slots, running, stateD, history, historyD, onCard, job, ghosts, cuts>>

RecordState ==
  /\ pc = "state"
  /\ state' = [file |-> "full", attempts |-> 0, regions |-> regions, payload |-> payload]
  /\ pc' = "commitSync"
  /\ UNCHANGED <<slots, running, stateD, history, historyD, onCard, job, ghosts, cuts>>

\* Mutant: no sync before the reboot.
CommitUnsynced ==
  /\ pc = "commitSync"
  /\ pc' = "reboot"
  /\ FilesKept
  /\ UNCHANGED <<slots, running, onCard, job, ghosts, cuts>>

CommitSync ==
  /\ pc = "commitSync"
  /\ SyncFiles
  /\ pc' = "reboot"
  /\ UNCHANGED <<slots, running, state, history, onCard, job, ghosts, cuts>>

\* init runs rcK and restarts; sleep 10 keeps rcS from going on meanwhile.
Reboot ==
  /\ pc = "reboot"
  /\ PowerGone
  /\ SyncFiles
  /\ UNCHANGED <<slots, running, state, history, onCard, ghosts, cuts>>

-----------------------------------------------------------------------------
(* frontend-session: baseos-update confirm.                                *)

\* A session of what the card boots: nothing unwatched is left on it.
SessionProves ==
  /\ proven' = proven \cup {running}
  /\ lapses' = IF Holds(half, running) THEN lapses \ {"unwatched"} ELSE lapses

\* Mutant: the payload is removed, the trial file is not.
ConfirmKeepsTrial ==
  /\ pc = "session"
  /\ running \notin Broken
  /\ state.file # "none"
  /\ onCard' = onCard \ state.payload
  /\ pc' = "confirmSync"
  /\ FilesKept
  /\ UNCHANGED <<slots, running, job, ghosts, cuts>>

\* The payload goes first, then the trial.
Confirm ==
  /\ pc = "session"
  /\ running \notin Broken
  /\ state.file # "none"
  /\ onCard' = onCard \ state.payload
  /\ state' = NoFile
  /\ pc' = "confirmSync"
  /\ UNCHANGED <<slots, running, stateD, history, historyD, job, ghosts, cuts>>

\* Mutant: no sync once the trial file is removed.
ConfirmUnsynced ==
  /\ pc = "confirmSync"
  /\ SessionProves
  /\ pc' = "up"
  /\ FilesKept
  /\ UNCHANGED <<slots, running, onCard, job, committed, previous, cuts>>

ConfirmSync ==
  /\ pc = "confirmSync"
  /\ SyncFiles
  /\ SessionProves
  /\ pc' = "up"
  /\ UNCHANGED <<slots, running, state, history, onCard, job, committed, previous, cuts>>

NothingToConfirm ==
  /\ pc = "session"
  /\ running \notin Broken
  /\ state.file = "none"
  /\ SessionProves
  /\ pc' = "up"
  /\ FilesKept
  /\ UNCHANGED <<slots, running, onCard, job, committed, previous, cuts>>

-----------------------------------------------------------------------------
BootCheck == NoTrial \/ CountBoot \/ Restore \/ RestoreRm \/ RestoreSync

Apply ==
  \/ NothingToApply
  \/ SyncSlots \/ RecordState \/ CommitSync \/ Reboot
  \/ \E r \in Regions : BeginWrite(r)
  \/ \E p \in Offered :
       \/ SelectPayload(p) \/ VerifyPasses(p) \/ VerifyMismatch(p)
       \/ Flip(p) \/ RecordHistory(p)
       \/ \E r \in Regions : EndWrite(p, r)

Session == Confirm \/ ConfirmSync \/ NothingToConfirm

\* What the device does of itself, given power.
Device == (\E rel \in Releases : Boot(rel)) \/ BootCheck \/ Apply \/ Session

Faults ==
  \/ WriteFails \/ VerifyMisreads \/ FlipFails \/ RestoreFails \/ Hang
  \/ \E p \in Offered : FlipFailsLate(p)

Environment ==
  \/ \E p \in Offered : UserCopies(p) \/ UserDeletes(p)
  \/ PowerCut \/ ShutDown \/ WritebackState \/ WritebackHistory

Next == Device \/ Faults \/ Environment \/ PowerCycle

Spec == Init /\ [][Next]_vars

(***************************************************************************)
(* Fairness: a device that is on keeps executing, a broken release that    *)
(* runs out of steps has hung, a hung device is eventually switched off    *)
(* and a device that is off switched on again.  Nothing is assumed of      *)
(* faults, cuts, the user or the writeback.                                *)
(***************************************************************************)
FairSpec ==
  Spec /\ WF_vars(Device) /\ WF_vars(Hang) /\ WF_vars(PowerCycle)

-----------------------------------------------------------------------------
TypeOK ==
  /\ half \in [Regions -> Halves]
  /\ content \in [Regions -> [Halves -> Images \cup {Junk}]]
  /\ running \in Releases
  /\ state \in TrialFile /\ stateD \in TrialFile
  /\ history \in SUBSET Releases /\ historyD \in SUBSET Releases
  /\ onCard \in SUBSET Offered
  /\ pc \in {"off", "hung", "bootCheck", "restoreRm", "restoreSync", "apply",
             "write", "verify", "flip", "history", "state", "commitSync",
             "reboot", "session", "confirmSync", "up"}
  /\ payload \in SUBSET Offered
  /\ regions \in SUBSET Regions /\ todo \in SUBSET Regions /\ open \in SUBSET Regions
  /\ proven \in SUBSET Releases /\ committed \in SUBSET Releases
  /\ previous \in Releases /\ lapses \in SUBSET Lapses
  /\ cuts \in 0 .. MaxCuts

-----------------------------------------------------------------------------
(* Properties.                                                             *)

Runs(rel) == Holds(half, rel)

\* The active halves always hold one whole release: no write, verification,
\* flip or rollback, cut short anywhere, leaves a card that cannot start or
\* that mixes two releases.
ActiveComplete == \E rel \in Releases : Runs(rel)

\* A release that never reached a session runs only under a trial that a power
\* cut cannot take away, from the moment apply asks for the reboot, unless gptslot
\* reported an error of a flip: of one that took effect there is no trial, and after
\* one that was to restore boot-check drops it.
NewSlotsOnTrial ==
  (ActiveComplete /\ ~InCommit /\ lapses = {}) =>
    \E rel \in Releases : Runs(rel) /\ (rel \in proven \/ stateD.file # "none")

\* As long as there is a trial file on the card, flipping the regions it names brings
\* back the release that ran before the update, until that has been done: applies and
\* failed flips that come later, cuts and a trial that comes back do not touch it.
RollbackIntact ==
  stateD.file = "full" /\ ~InRestore => Holds(Flipped(stateD.regions), previous)

\* Once a session is up no trial is left on the card that later boots could
\* count: an unclean shutdown cannot resurrect it.  Only the trial that is dropped
\* when the restoring flip fails is removed without a sync.
SessionClosesTrial == pc = "up" /\ "dropped" \notin lapses => stateD.file = "none"

\* apply flips only to halves it has verified: the flip makes every active
\* half, written or kept, the image its payload's manifest names, also when gptslot
\* calls it failed.
CommitVerified ==
  [][pc = "flip" /\ half' # half =>
       \E p \in payload : Holds(half, p.release)']_vars

\* What apply takes for newer than the version it runs, of all there are, is what
\* semver.org puts after it (baseos-update:88-125, 159): fields that are missing,
\* textual or numeric in either part, and pre-releases beside their release.
NewerIsSemver ==
  pc = "apply" =>
    \A v \in Versions : Newer(v, running.version) <=> SemverPrecedes(running.version, v)

\* "Only ever move forward" (baseos-update:155): apply never flips to a version that
\* semver.org puts before the one that runs, whatever lies on the card, however the
\* trials of it ended and whichever flips were reported as failed.
OnlyForward ==
  [][pc = "flip" /\ half' # half =>
       \A p \in payload : ~SemverPrecedes(p.release.version, running.version)]_vars

\* No release is committed twice, however its first trial ended: the history
\* outlives rollbacks and power cuts, and payloads copied again change nothing.
\* (apply commits nothing when its flip reports an error.)
NeverRetried ==
  [][committed' # committed \/ (pc = "flip" /\ pc' = "history") =>
       committed' \ committed # {}]_vars

\* boot-check's flip restores the release that ran before the last commit.
RollbackRestores ==
  [][pc = "bootCheck" /\ half' # half => Holds(half, previous)']_vars

\* A release that reached a session is never rolled back by boot-check, but by a
\* trial that came back after it was dropped.
ProvenNeverRolledBack ==
  [][pc = "bootCheck" /\ half' # half /\ "dropped" \notin lapses =>
       \A rel \in proven : ~Runs(rel)]_vars

\* Whatever is applied, however it fails, the device gets back to a session
\* again and again: a broken release is left by counting its boots, unless no trial
\* watches over it.
AlwaysBackToSession ==
  \/ []<>(pc = "up")
  \/ <>("dropped" \in lapses)
  \/ <>[]("unwatched" \in lapses /\ running \in Broken)

\* What baseos-update:328 logs of a flip that failed, "still running the old slots":
\* none that took effect is reported as failed.
FailedFlipKeepsSlots == "unwatched" \notin lapses

\* That, or what rcS:89 says of the commit, "a freshly updated set of slots is on
\* trial".  Each of the two claims implies this, so a behaviour without it refutes
\* both: a cut may come between the flip and the trial's sync, and a flip that took
\* effect may be reported as failed.
CommitAsClaimed == []NewSlotsOnTrial \/ []FailedFlipKeepsSlots

(***************************************************************************)
(* Refinement: the card is on trial while what its active halves hold has  *)
(* not reached a session.                                                  *)
(***************************************************************************)
AB == INSTANCE ABTrial WITH
        installed <- CHOOSE rel \in Releases : Runs(rel),
        fallback <- previous,
        phase <- IF lapses # {} THEN "lost"
                 ELSE IF \E rel \in proven : Runs(rel) THEN "stable" ELSE "trial",
        tried <- committed

\* The engine implements ABTrial, its liveness included: also a flip that takes
\* effect and is reported as failed is a step of it, the one that loses the card.
ImplementsABTrial == AB!ABSpec

=============================================================================
