# TLA+ verification of BaseOS for the Miyoo Flip

BaseOS is a small Linux that boots a handheld from an SD card. Most of it is glue,
but a few programs change the card itself while the user may pull the battery at any
moment: the A/B update engine, the writer of the partition table, the first boot's
reformat; one decides, from events that come late, when a radio chip may lose power; a
session script, a power-key daemon and the shutdown share the card and the key; and
the image itself is put together by tools that patch device trees byte by byte. This
directory models those, checks them with TLC and proves part of what was checked with
TLAPS. All paths below are relative to the repository.

## 1. Inventory

| Part | State it keeps | Operations | Interacts with | Hard because |
|---|---|---|---|---|
| Update engine, `overlay/usr/sbin/baseos-update` | active half of each region (in the GPT), content of both halves, `/data/update/state`, `/data/update/history` | `boot-check`, `apply`, `confirm`, `status` | `gptslot`, rcS, frontend-session, the user's cards | two durable stores without a common commit; files synced on some paths only; a trial that spans boots |
| Partition table commit, `src/gpt.h` under `src/gptslot.c` and `src/gptgrow.c`, on the layout of `tools/mkgpt.py` | two copies of the GPT, page cache and card | derive, flip, grow | boot chain (reads the primary), baseos-update, expand-storage | writeback in any order, failing fsync; the active half is only implied by start sectors |
| Version order, `dotted_cmp` and `version_newer` of baseos-update | none | compare | apply | shell arithmetic on fields that may be empty or text |
| First-boot expansion, `overlay/usr/sbin/expand-storage` | partition size, FAT, `/data/expand-stage`, `/data/expanded` | one resumable script | gptgrow, mkfs, mount-frontend | restart after a cut anywhere; ext4 and FAT lose different things |
| Boot sequence, `overlay/etc/init.d/rcS`, `overlay/etc/inittab` | mounts, background jobs | one pass per boot | all of the above | order; a reboot that does not stop the caller at once |
| Session and card, `overlay/usr/sbin/frontend-session`, `mount-frontend`, `src/fatdirty.c` | what is mounted from which volume, `.tmp_update`, `/run/pwrkeyd.pid` | look for a card, repair, mount, stage, hand off; respawned by init | confirm, pwrkeyd, the frontend, rcK | cards inserted late, stale mounts, lazy unmounts, half-done copies |
| Power key, `src/pwrkeyd.c` | deadline of a held key | event loop | frontend-session starts it and kills it at hand-off | time against queued events |
| Shutdown, `overlay/etc/init.d/rcK`, `poweroff`, `src/rebootmode.c` | processes, mounts, the FAT dirty flag | one pass | init, U-Boot charge mode | processes that do not exit, mounts that keep each other busy |
| WiFi/BT chip power, `wifibt-power`, `src/wifibtd.c`, `S36load_wifi_modules` | `/run/wifibt` flags, module, rail, rfkill | want/release under a lock; event loop | the frontend's scripts, kernel events | late events, a sleep inside the loop, module unloaded under a start |
| Boot-tree tools, `tools/rkbootimg.py`, `tools/mkfit.py`, `tools/mkpreloader.py` | the tree being edited, the file written | setargs, boot, uboot, patch | the vendor's images, each other's output | token and string offsets that move, names that occur twice, inputs patched before, fixed-size regions |
| Prepared inputs and builds, `tools/prepare_stock.py`, `tools/source_manifest.py`, `tools/fetch-prepared.sh`, `tools/cache-pack.sh`, `tools/mkupdate.py`, `build-*.sh` | `work/my355`, the published manifest, the cache | prepare, fetch, pack, build each part, build all | git, the network, baseos-update (reads the payload) | stopped scripts leave parts of two inputs; stamps found by scanning |
| U-Boot helpers, `tools/uboot/patches/0001-*` | PMIC registers | fuel gauge at boot, charge mode | kernel's gauge driver | integer truncation, counter that may be invalid |
| Preloader installer, `tools/preloader-installer/` | NAND partition, backup on the card | back up, patch, erase, write, verify, restore | stock system | an erased preloader |
| Splash, log, dev services, diagnostics, logo and firmware image tools | - | drawing, wording, start/stop, one pass to bytes | - | nothing reads them back |

What makes each correct:

- **Update engine.** The active halves always hold one whole release. A release that
  has not reached a session runs only on trial, and the trial's end is either a
  session or the release before it. No payload is tried twice. A proven release is
  never rolled back. A device in use always gets back to a session.
- **Table commit.** The primary, the one copy that is read, goes from the old table to
  the new and never back, whatever fails when; where it is torn on the way, a whole
  backup of the new table lies beside it; an error on the backup has changed nothing.
- **Versions.** The order is semver's and cannot be followed in a circle.
- **Expansion.** No file of the user is lost; the work is finished in the end; a
  card marked done is done.
- **Chip power.** The chip is powered whenever something wants it, it is never cut
  under anyone, a Bluetooth start gets its `hci0`, and with both radios off the chip
  ends cut.
- **Session, key and shutdown.** A card that carries a frontend comes to run it, whenever
  it was put in. The key has one reader and only a held key powers off. A volume is
  repaired by one who has it alone, and is clean after a shutdown.
- **Boot-tree tools.** Each edit changes the node it means and nothing else; a tool
  finishes on exactly the inputs it was made for; what it writes fits.
- **Builds.** What is accepted is whole and of one dump; an image is made of one dump; a
  payload's manifest says what its image does.

The places where this code could go wrong in ways a test hardly reaches are
listed, with their lines, under `hazards` in `PROJECT.json`.

## 2. Modules

| Module | Kind | Models |
|---|---|---|
| `BaseosUpdate` | state machine | boot-check, apply, confirm across boots, cuts and writeback |
| `ABTrial` | abstract specification | what the update engine promises: one release, on trial, stable or, after a flip reported as failed, lost until it has proved itself |
| `GptCommit` | state machine | `gpt_commit` under flip and grow, page cache against card |
| `SlotLayout` | extends GptCommit | the sectors: mkgpt's layout, gptslot's derive and flip, gptgrow's end |
| `OneWayTable` | abstract specification | a table that is read in one copy, may be torn, and never goes back |
| `VersionOrder` | operators | the version order |
| `ExpandStorage` | state machine | the first boot's reformat |
| `WifiBtPower` | state machine | wifibt-power, wifibtd, the frontend's scripts and the kernel between them |
| `PowerKey` | component | the power key, the kernel's event queues, pwrkeyd's loop and the clock |
| `CardMounts` | component | the two FAT volumes, their dirty flag, mounts, lazy mounts, swap and who keeps what busy |
| `FrontendSession` | composes the two | frontend-session, mount-frontend, what frontends do to the card |
| `Shutdown` | composes all of them | poweroff, rcK, cuts and the next boot; the specification and its properties |
| `DeviceTree` | operators | a flattened tree as tokens and a string table: find, insert, remove, replace |
| `KernelTree`, `Preloader`, `FitImage` | operators | the edits of a kernel tree; a preloader's copies; the layout of Android, resource and FIT images |
| `PlainTree` | abstract specification | what the edits mean on a dictionary from paths to values |
| `BootTree` | state machine | the four tools, part by part and edit by edit, and their output given to a tool again |
| `StockInputs` | operators | harvest, its closure check, source.json and the drift check |
| `ImageBuild` | state machine | the scripts that fill `work/my355`, one step per file, stopped anywhere |
| `BaseosUpdateProofs` | TLAPS proofs | apply, and the whole trial, of BaseosUpdate |
| `VersionOrderProofs`, `ExpandStorageProofs`, `WifiBtProofs`, `ImageBuildProofs` | TLAPS proofs | the module of that name |
| `SlotLayoutProofs` | TLAPS proofs | GptCommit, and SlotLayout over it |
| `BootTreeProofs` | TLAPS proofs | DeviceTree, the edits of KernelTree and Preloader, FitImage, and BootTree |
| `SessionProofs` | TLAPS proofs | Shutdown and what it composes |
| `MCUpdate`, `MCGpt`, `MCExpand`, `MCWifiBt`, `MCSession`, `MCBoot`, `MCBuild` | TLC instances | constants only |

How they fit: BaseosUpdate takes `gptslot flip` as one durable step, which may also
report an error before or after it took effect, and ExpandStorage takes `gptgrow` as one
durable step. `GptCommit` opens that step up: it models both callers and implements
`OneWayTable`, whose `Tear` is what the one step leaves out (section 7), and `SlotLayout`
takes it down to the sectors that apply writes. `Shutdown` is the whole life of a card: it composes the session
(`FrontendSession` over `CardMounts` and `PowerKey`) with rcK and the boots between. The
confirmation that ends an update's trial is in BaseosUpdate; the session model starts
where that has been done. `BootTree` and `ImageBuild` are the two halves of the build:
what the tools do to a tree, and which files the scripts bring together. BaseosUpdate
extends `VersionOrder`: what apply takes for newer (`Supersedes`) is the code's own order.

### BaseosUpdate

`half` and `content` are the card: which half of each region the table names, and
what both halves hold. `state`/`stateD` and `history`/`historyD` are the two files of
`/data/update` as programs see them and as a cut would leave them. `running` is the
release whose `/etc/baseos-release` the current boot reads. `pc` is the point the boot
has reached; each action is one statement of the script that changes something, with
the guards of the `if` it stands in. `payload`, `regions`, `todo`, `open` are apply's
shell variables. `proven`, `committed`, `previous` and `lapses` are history
variables: nothing in the model reads them but the properties. A release that is
flipped to is no longer `proven`: it may be the factory release, back as a rebuild.

A flip that gptslot reports as failed has two forms, as `gpt_commit` returns an error
from its second half too (`gpt.h:100-103`, `gptslot.c:74-75`): `FlipFails` left the table
as it was, `FlipFailsLate` changed it. After either the script goes on as after a flip
that did nothing (327-332): no trial, no history. `lapses` records what that
leaves: `"unwatched"` while the active halves hold a release that got there so and has not
reached a session, `"dropped"` once boot-check has removed the trial of a release it could
not flip away from (378-380). Properties that cannot hold from then on name the lapse they
excuse. A release that reaches a session ends `"unwatched"` (`SessionProves`).

Abstractions: an image is a value of its own (`Image[release][region]`), and a half
that was partly written holds `Junk`; a payload is a record of the release its manifest
promises, whether its manifest fits this card (`fits`) and whether its body hashes to
its manifest (`sound`). Search order of payloads and the order in which regions are
written are left open. `dd conv=fsync` is durable on return. A trial file that was
being created when power went may remain empty; its replacement by `mv` is old or new.
A hung boot is switched off by hand, long after the kernel's own writeback, so its
files are durable (`PowerCycle`); a `PowerCut` comes at any time and loses what was
not written back.

### GptCommit

A copy of the GPT is a header and a table: `tab`, `hdr` as programs read them, `tabD`,
`hdrD` as they are on the card. A header is reduced to the table CRC it stores and
where it says the other copy lies. Each `pwrite` and `fsync` is an action; the kernel
may write any dirty sector back at any time; a failing `fsync` may have written any of
them. The table's change fits in one sector (an entry is 128 bytes, the three slots are
entries 1-3 and `primary` is entry 5; no caller changes both), so a table is written
as a unit. Every reader takes the primary (`gpt.h:82-85`), and sees nothing where its
header and its table do not match (`Seen` is `Blank` then): the boot chain does not start such a card,
gptslot and gptgrow refuse it, and it is flashed anew (`Reflash`).

Left out: the protective MBR, the kernel's live resize, a flip on a card that could
not be grown (rcS grows it first, line 138 before 152), and another commit in the boot
whose primary write has just failed.

### SlotLayout

A table maps entry names to their first and last sector. `At` is mkgpt's layout, every
region with two halves of its size; `Derived`, `Base`, `InB` and `Inactive` are
gptslot's derivation, which has no flag to go by and takes a region for active in the
half its entry starts at; `FlipTable` is what flip writes. `TableOf` gives the sectors
of the layouts GptCommit commits, so that `LayoutSound` speaks of every table a cut or
an error leaves on the card. Sectors are unbounded numbers: gptslot's 64-bit sums cannot
wrap for entries that passed the kernel's size check of the device, and the model does
not look at entries that have not. A half has more than one sector, as `gptslot` refuses
an entry whose last sector is not behind its first.

### VersionOrder

A version is a core and a pre-release, both sequences of fields; a field is a number
or a text. `DottedCmp` finds the first field that decides, with the code's rules for a
missing or non-numeric field. The reference definition, `SemverPrecedes`, is stated on
whole sequences. BaseosUpdate's `Supersedes` asks `Newer`; its properties
`NewerIsSemver` and `OnlyForward` are stated with the reference instead.

### ExpandStorage

`fat`/`fatD`, `stage`/`stageD`, `done`/`doneD` are cached and durable copies. ext4
commits a prefix of the changes to names at any time and the data of new files maybe
later (a `hollow` file); a FAT that was not synced keeps any part of what was written,
or does not mount. Each statement of the script that changes something is an action.
`lost` is a history variable: the files that one of five events has taken. Each event is
a place in the code where files can go (section 3), so a property can say which files
it excuses, and that nothing else ever loses one.
The files of the card are a few names; `conf` stands for those the script supplies
itself (`miyoo355_fw.img`, `baseos.conf`), `README.txt` is left out.

### WifiBtPower

Two `wifibt-power` processes can run at once, one that `S36` waits for and one that
`wifibtd` waits for: `caller` has the step of each. The helper's steps are actions, so
that the kernel and the other caller act between them; only the intents and the
decision are one action, as nothing else reads `/run/wifibt` but under the lock.
`wifibtd` is a loop over two sources: `uevents` counts the module loads it has not
read, `rfkill` is the queue of switch events; `todo` is what one `poll` returned, and
`settling` the switch whose block it sleeps on. `Die` and `Respawn` are rcS's loop.

The kernel and `bt_init.sh` are not in the repository. The model has of them what
`wifibtd.c` and `docs/power.md` say: a start loads the module unless it is loaded,
unblocks half a second later and waits for `hci0`; a stop blocks; `hci0` appears
unblocked and takes the global state. Numbers of switches are not used again while
anyone still names them.

Time is in three places. `Paused` lets a script's half second, or a person's pause,
pass only while the others are in the waits the code has. A sleep on a switch that came
up since a start's `insmod` ends after that start's unblock (2 s against 0.5 s). An
`hci0` about to register does so within the sleep. What breaks these, and what no
one promises, is a rare event, recorded in `rare` so that a property can say what it
does not cover:

| Rare event | What happens | Not promised then |
|---|---|---|
| `died` | wifibtd ends and is started again | BtComesUp, OffIsCut |
| `hasty` | Bluetooth is stopped before its start was handled | OffIsCut (see run `wifibt_claims`) |
| `found` | a start saw the module that a cut then unloads | BtComesUp (see run `wifibt_claims`) |
| `slow` | power_on gives up on the chip, or `hci0` takes more than 2 s | BtComesUp, OffIsCut |

`found` contradicts `docs/power.md:111-114`, by which the next start always loads the
module: the start tests `lsmod` on its own, outside the lock. `died` contradicts the
respawn's purpose, "without it, a BT start could not power the chip back on" (rcS:119-120):
what the dead one had not read is lost to the new one. No run is about it; TLC refutes
BtComesUp and OffIsCut once they do not excuse `died`.

### PowerKey, CardMounts, FrontendSession, Shutdown

`key` is the finger, `daemons` what each process that may be a pwrkeyd is at, with its
deadline and the events the kernel has queued for it, `power` what init was asked for.
The loop's two halves are actions (`CheckHold` at its top, `Poll`), so that a release
can arrive between the passing of the deadline and the look at it. Ticks are counted
only while a daemon can make something of the key; HOLD is 2 ticks.

`card` has, per volume, how far `.tmp_update` got, whether the two sources of a frontend
(`miyoo355/` and the zip) are there, whether it is a FAT, its dirty flag and whether it
was dirty when it was mounted. `mounts` is `/proc/mounts` in order, `lazy` what was
detached lazily and is still used, `swap` and `procs` what else keeps a volume busy.
`pc` is the statement of frontend-session, or of mount-frontend inside it or rcS, `scan`
mount-frontend's variables. `rck` is rcK's statement. A copy of `.tmp_update` that
fails, is killed or cut may or may not have brought the updater.

Assumptions, all on the side of the code: a child that was forked to be pwrkeyd has
executed it within the session's sleep of five seconds; a poweroff that was started has
reached init within a tick; a runnable daemon waits for the CPU less than HOLD (`LAG <
HOLD`); a card that is mounted stays in the slot; a process that survives SIGKILL reads,
and does not write, until the power goes. `MountsLate` says whether a frontend mounts
things after power off was asked for (section 3).

Left out: the wait for the system bus, the splash and the governor; mounts other than
the frontend's; `/data/clean-shutdown`; the volume of `ntpd`'s files.

### DeviceTree, KernelTree, Preloader, FitImage, PlainTree, BootTree

A tree is what the tools handle: a sequence of tokens, properties with the offset of
their name in a string table. `Insert`, `Remove` and `Replace` shift tokens as the code
does, and names are interned at the table's end. Values are sequences of small numbers;
sizes are kept (`Size`), since what is written has to fit. On top of that each edit of
`rkbootimg.py`, `mkfit.py` and `mkpreloader.py` is an operator that returns the new tree
or `Refused`, with the code's condition. `BootTree` runs a tool: the parts of its input
one after the other, one action per edit, then composing, writing and reading back; a
`Refused` is an exception and ends it. A written file may be the next call's input.

What a tool can be called with is `Callable`. It is wider than what TLC tries: any tree
the kernel would take, any number of parts of any length, any payloads; a job that is in
`Jobs` but not in `Sound` is one the tools have to refuse. What the code computes in
a loop over a sequence is written without recursion where it can be (`Picked`, `Size`), and
as a recursive function on its places where not (`Paths`, `Offsets`): both can be proved
about.

`PlainTree` says what is meant: a tree is a dictionary from absolute path and property
to value, and an edit changes certain entries. `ImplementsPlainTree` maps the tokens to
it and asks for every step. It has the vendor's absolute paths, so it is about trees of
the vendor's shape. `EditsStayInPlace` is for any tree: by its `Entries` (path, property,
value), an edit takes out and puts in only what it is for (`Takes`, `Puts`), in a node
whose path ends as the code looks for it (`For`), in one such node unless it is for two
displays or looks up each value by itself, and every other entry stays.

Left out: the commands that only list or extract, the bytes of compression (a kernel is
raw or compressed and has a length), hash functions (a hash is the content it is of).

### StockInputs, ImageBuild

`prep`, `cache`, `published` and `work` are the files the scripts leave behind; a file
is absent, cut short, or a record of what it was made from, which is what
`ImageOfOneDump` asks about. `pc` names the step that writes the next file; `Stop` ends
a script there with that file cut short. `plan` is what build-all.sh still runs. `due`
says what has not been made by a build-all.sh since inputs came or a script was stopped:
the image, the mainline U-Boot, which one with the vendor's U-Boot leaves as it was, or
neither.
A harvest is a real one over a small file tree: links, excluded paths, libraries and
their sonames. A slot is a sequence of symbols in which the stamp may start anywhere,
read CHUNK at a time.

Left out: the contents of the root and the compilation of U-Boot and of the helpers;
the cache as a set of bundles (there is one); what else is fetched.

## 3. Hazard windows

Some instants are unsafe in this code: a cut or an error there breaks the properties. The
models contain them, and a constant `Exposed` says which of them an instance opens.
`MountsLate` and `Standalone` work the same way. The last column names the run that opens
the window to show a violation of what the repository says of itself; where it is empty,
the window is only described here.

| Module | Window | What opens | What fails then | Run |
|---|---|---|---|---|
| BaseosUpdate | `commit` | cut between the flip and the sync of the trial file (lines 327-347) | NewSlotsOnTrial, NeverRetried | `update_commit_window` |
| | `restore` | cut between the restoring flip and the trial's durable removal (371-373) | RollbackRestores, NewSlotsOnTrial, ProvenNeverRolledBack | |
| | `stacked` | a second payload applied while a trial is open (265) | ActiveComplete, RollbackRestores, RollbackIntact, NewSlotsOnTrial | |
| | `noflip` | the restoring flip fails before it took effect and the boot goes on (378-380); open in `update_trial` | nothing: the properties excuse the lapse `"dropped"` | |
| | `moved` | with `noflip`: the restoring flip is reported failed after it took effect | RollbackRestores, ImplementsABTrial | |
| ExpandStorage | `hollow` | names durable before data at the rename (47) | NoFileLost | `expand_lost` |
| | `unstage` | half of `rm -rf` durable (65) | NoFileLost | `expand_lost` |
| | `mount` | a sound old file system that does not mount (41) | NoFileLost | `expand_lost` |
| | `restore` | a file that does not copy back (57) | NoFileLost | `expand_lost` |
| | `pending` | the card used while a staging area waits (53) | NoFileLost | `expand_lost` |
| FrontendSession | `MountsLate` | a frontend mounts over `/usr` after rcK has detached what was there (rcK:13) | LeftClean | |
| ImageBuild | `Standalone` | a step is run by itself over inputs that no build-all.sh has been through | ImageOfOneDump, NeverMixed | `build_claims` |

The passing runs of BaseosUpdate, the session and the builds keep their windows closed
(all but `noflip`) and show that the code is right everywhere else. The committing flip
needs no window: it may fail in either form in every run, and `update_commit_window` shows
what the second form breaks. In ExpandStorage the passing run opens all five, and its
properties excuse a file only once the event that takes it has happened; `expand_lost`
has the claim without the excuse.

`restore` and `stacked` contradict the repository as well and have no run of their own;
with either open TLC finds the properties of the table violated:

- `restore`: the third boot of a release that hangs flips the previous slots back in and
  power goes before the trial file is durably gone. The file still counts two boots and
  names the same regions, so the next boot flips once more, to the release that hangs;
  `baseos-update:14` has boot-check "restore the previous slots if this one never reaches
  a session".
- `stacked`: apply does not look at the trial file. A payload copied for a release that
  hangs on trial is written into the halves the trial would return to; a cut in that
  write, and the rollback goes to a half that holds no whole image. `docs/card.md:121-122`
  says a power loss "at any earlier moment leaves the card byte-identical to before".

Of `moved` and `MountsLate` no document speaks. `moved` needs an
I/O error on the card in the third boot of a trial, and the boot goes on in the halves
it came from. `MountsLate` is a frontend that mounts over `/usr` between `poweroff` and its
own SIGTERM.

Ordinary behaviour contradicts a document in more places, for which no window is needed.
Shown by a run: a failed copy that passes for a good one (`session_staging`); a list edit that does
not show and a payload that says 1.3 of a 1.3-rc (`build_claims`); and, with a rare event,
`wifibt_claims`. Only described: the torn primary (below, section 7), the daemon that
died (section 2), and the card that a cut between growth and staging leaves marked done and
never expanded (`TakenForFull`, which EventuallySettled excuses), where `expand-storage:9-10`
says "a power cut leaves work the next boot redoes".

A violation run refutes one property. `CommitAsClaimed`, `PowerAsDocumented` and
`BuildAsClaimed` put two or three of the repository's claims into it: the property is that
at least one of them holds, so each claim implies it and the one counterexample is a single
history in which all of them fail. Narrowed to any one of its five events, the claim of
`expand_lost` fails too.

TypeOK, CommitVerified, NewerIsSemver and OnlyForward of BaseosUpdate hold with every
window open, and are proved so (section 6).

## 4. Runs

| Run | Instance | Shows |
|---|---|---|
| `update_trial` | 3 regions; 3 releases, two builds of a pre-release and its release, which is broken; 5 payloads, one corrupt and one that does not fit; 2 cuts, flips that fail before or after they took effect, restoring flips that fail. Versions with cores of 1-3 fields, pre-releases of 0-2, two numbers and two texts | every property of BaseosUpdate, with the other windows closed, and that it implements ABTrial with its liveness; of all versions those are taken for newer that semver puts after the running one, and apply flips to none before it |
| `update_commit_window` | 1 cut, `commit` open | **violated**: CommitAsClaimed. A cut between flip and trial file, and later a flip that took effect reported as failed: an untried release runs with no trial, and the log says the old slots still run |
| `gpt_commit` | 2 regions, mkgpt's sizes, a card of 4 GiB | every property of GptCommit but its types, which are proved, that it implements OneWayTable, and that gptslot derives from any table the primary can hold the halves that were meant, with nothing lying over anything else |
| `expand_storage` | 3 files; 3 cuts or failures, all five windows open | of what the user has saved just the files that a named event takes are lost, nothing else is wiped unless staged, the work ends |
| `expand_lost` | the same, 1 fault | **violated**: NoFileLost. The staging area gets its name, and a cut comes before its files' data is on the card |
| `wifibt_power` | 2 Bluetooth starts and stops, 2 WiFi changes, one kind of rare event | every property of WifiBtPower, a start's `hci0` but for `died`, `found` and `slow` |
| `wifibt_claims` | 2 starts, 1 WiFi change, two kinds of rare event | **violated**: PowerAsDocumented. Off and on again: the start finds the module, wifibt-power unloads it and cuts the chip; Bluetooth on and off while wifibtd sleeps: the chip is then cut and restored for ever |
| `boot_tree` | each tool on the vendor's tree in the shape it expects and on trees, options, images and preloaders off in one respect (some hundred jobs), and on what a tool has written | the trees stay well formed, edits mean what PlainTree says and leave every other entry alone, exactly the sound inputs get through, files and preloaders fit |
| `image_build` | 2 dumps, 4 editions of the tree, 5 scripts, 1 stopped, no step run by itself over inputs it is due for | accepted inputs are whole, of one dump, and hold nothing the current list does not ask for; an image is of one dump; a payload is made of every image that carries its stamps and of none that does not begin with them |
| `build_claims` | the same, 6 scripts, none stopped, steps run by themselves | **violated**: BuildAsClaimed. A "!" line leaves the list and the old harvest still verifies; build-image.sh run alone puts the old root beside the new boot image; VERSION goes from 1.3-rc to 1.3 and that image becomes a payload of 1.3 |
| `session` | 2 boots, 3 cards, 1 put in or taken out, 1 failed copy or repair, 1 process that survives SIGKILL, 2 tries | every property of Shutdown but SourceKept |
| `session_staging` | the same | **violated**: SourceKept. A copy fails after it has brought the updater, and the source is removed |

Bounds. Three regions are all there are. Two cuts are enough to interrupt the update and
its rollback, or a rollback and the boot after it, and boots that hang are counted beside
them; three releases give a release that is broken and two rebuilds of its pre-release, either
of which supersedes the other, so that the factory release comes back as an update. Boot
images differ between the rebuilds and U-Boot in the update only, so that flips of two
different pairs of regions and of all three occur. Two regions
are enough in GptCommit for flips of some entries and not of others. Versions up to
three fields reach every branch of `dotted_cmp`, missing fields included. In
ExpandStorage three files are one the installer left, one the script would supply and
one the user adds; three faults interrupt the work, its resumption and that one's. In
WifiBtPower two starts are a start into the state the last stop left (the one that needs
the two-second sleep) and one that overlaps that stop's cut; two WiFi changes let WiFi
go and come back during either. The session's two tries stand for twenty: the second is
a try after the card was absent once. Its two processes are the most that can be alive
if the key is to have one reader, and one more would only be a second way to break that;
three cards are `miyoo355/` on a card that may be put in later, a zip on such a card
beside an own volume that is no FAT, and a staged frontend on the own volume beside a
card without one; two boots are a shutdown or cut and what comes after it. In
`image_build` five scripts are enough for inputs, a build of all, new inputs stopped
half-way, and a build of all over them; the second dump lacks a library the richer list
needs; CHUNK is shorter than both stamps together, so that every position of a stamp
against a chunk's end occurs.

CHECK_DEADLOCK is off for the `wifibt` runs, where nobody has to touch a radio again, for
`boot_tree`, `image_build` and `build_claims`, where the last tool or script has ended,
and for the two `session` runs, where the last boot's device is off.

## 5. Fairness

- BaseosUpdate: a device that is on goes on executing (`WF(Device)`: one process, and
  power-on by the user); a broken release that makes no more steps has hung (`Hang`);
  a hung device is switched off (`PowerCycle`), since there is no other way to use it.
  Nothing is assumed of faults, cuts, the user's copies or writeback. Cuts are bounded,
  so that a liveness property speaks of a device that is eventually left alone.
- ExpandStorage: the script goes on; the device is switched on and off again.
- WifiBtPower: every process goes on (each helper, wifibtd and its respawn, a running
  `bt_init.sh start`), a powered chip comes up and a loaded module registers `hci0`.
  Nothing is assumed of the user, and nothing makes wifibtd die.
- Shutdown: init starts the next session whenever one ends and runs rcK
  (`WF(SessionStep)`, `WF(RcK)`), and the scheduler runs every daemon
  (`WF(DaemonStep(p))`). Nothing is assumed of the frontend, the user's key or card.
- The other specifications check no liveness.

## 6. Proofs

TLC checks the small instances above; TLAPS proves the following for any value of the
constants, and any set of open windows unless a theorem says which are closed.

**SlotLayoutProofs, the commit.** The inductive invariant `CommitInv` is the argument for writing
the backup first: while the backup is being written, the primary is the same in the
cache and on the card, so nothing the kernel or the power does can touch it
(`PrimaryInv`); from the first write to the primary on, or after that has failed, the
backup of the new layout is the same in the cache and on the card (`BackupInv`), so a
primary torn in any way lies beside a whole one (`CardInv`). The copy at the image's end
is never written (`ImageInv`), which is what a first growth falls back on. From it:
`TypeCorrect`, `SomeCopyAlwaysValid`, `SuccessDurable`, `BackupErrorHarmless`, the
action property `BackupFirst` and the refinement `CommitGoesOneWay`: what the primary
says, torn included, only ever goes from the old table to the new, and no commit starts
over a torn one. One lemma per action shows that it preserves the invariant. The only assumption is that the blank
sector is no table and no header.

**SlotLayoutProofs, the sectors.** On sectors there is arithmetic, where the commit has none.
From `derive`'s conditions alone, for any table that passes them, whoever wrote it: the
half given out for an update overlaps no entry of the A/B regions or of data
(`SpareIsFree`), and what flip writes passes them again, with just the chosen regions in
their other half (`FlipDerives`). For mkgpt's layout with halves of any size on any card
no smaller than the image: mkgpt's zones, two halves each, follow each other between the
two copies of the table, every entry and spare half stays in its zone
(`EntriesInZones`), and so `LayoutAlwaysSound`, for every table the card can show, by
CommitInv. The one place where it takes more than arithmetic is a
grown `primary`, which lies over the backup at the image's end: that is sound since no
table in force names that copy any more, which is ImageInv's doing. Assumptions: sizes
are naturals, a half has more than one sector, the card holds the image.

**BaseosUpdateProofs, apply.** `ApplyInv` relates apply's shell variables to the halves: a
region that is left out holds the payload's image in its running half, what is still
to be written or open is among the selected, and between the verification and the flip
nothing writes (`JobInv`, `VerifiedInv`). From it: `TypeCorrect`, and `FlipIsVerified`,
apply only ever flips to a complete release, whatever is cut, fails or is copied, in
every window. Assumptions: the ones on the constants (images differ from junk, every
payload names a release).

**BaseosUpdateProofs, the trial.** The trial itself, for any releases, images, payloads and number
of cuts, under `WindowsClosed`: only the failing restoring flip (`noflip`) may be open.
The committing flip may fail before or after it took effect. The inductive invariant `TrialInv` is needed because no part of it stands alone. The trial
file is created before its content and synced after it, so `FileInv` says at which
statements the two copies of it may differ; `CardInv` says that while there is one,
every payload that fits has been tried, which is why apply cannot start over a trial;
`IntactInv` follows the release before the flip in the halves that are not active, from
the flip to the restoring one, by way of the regions the trial file names; `ProvenInv`
says that what is not on trial has reached a session, unless a lapse is on record. From it: `AlwaysComplete`, `AlwaysOnTrial`, `AlwaysIntact`, `AlwaysCloses`,
`CommittedOnce`, `RestoresPrevious`, `ProvenStays`, and `ImplementsSafety`: every step is
a step of ABTrial or none, so what TLC adds is ABTrial's fairness; a flip that took effect
and was reported as failed is its `Slip`, and the session after it its `Recover`. The attempt to prove
`ProvenInv` in general found that the model counted a factory release as proven for
ever, though a rebuild of the same version may put it back on trial; a flip now takes
its release out of `proven`, and `update_trial` has such releases.

**VersionOrderProofs.** With the place past the end of a part taken for a field, fields
are totally preordered in a core and in a pre-release (`FieldOrder`); `dotted_cmp` finds
the first place that differs, however long the parts (`DottedIs`), so it is the
lexicographic order over them (`DottedOrder`), and `version_newer` a strict order
(`NewerOrder`), for versions of any fields: no chain of updates leads back. Against semver, a
core's first number that differs (`CoreIs`) and a pre-release's first field that differs
or the end of the shorter one (`PreIs`) decide the same, so `NewerIsPrecedence`, whose
hypothesis is that cores have up to three fields, which is all semver.org gives a version;
pre-releases are of any length. Assumption: parts are sequences of numbers and texts, so
a version with two dots next to each other is left out. The proof of `FieldOrder` found
that `PreField` was a CASE whose guards overlapped, which TLA+ leaves open; it now tries
them in the code's order.

In BaseosUpdateProofs, `TakesLaterOnly` and `AlwaysForward` carry this to the engine, in
every window: what apply selects supersedes what runs, and `running` does not change until
the flip (`UpdateInv`).

**ExpandStorageProofs.** `StageInv`, whatever windows are open: a staging area that has its
name is durable and is what the FAT is rebuilt from; where there is none, the FAT in the
cache is the one on the card. Each is whole but for the files in `lost` and, while the
area is being renamed or taken down, for those a cut would take right then (`CutTakes`).
The step that takes the area down is the one in which both hold. From it
`AlwaysRecoverable` and `WipesOnlyStaged`, for any files and any number of faults: there is
no way to lose a file but the five of section 3.

**WifiBtProofs.** `PowerInv` is what the lock is for: at most one wifibt-power is past
its `flock`; one that cuts has found that nobody wants the chip, and as intents are only
written under the lock, nobody has since; a wanted chip has power or its caller is about
to look; a chip on the bus has power, so a caller that finds it there may leave the
switch alone. `SleepsAlone` says that wifibtd has no helper running while it sleeps on a
block, without which its call after the sleep could replace one under way. From them
`WantedPowered` and `CutUnwantedOnly`, for any number of calls and rare events. No
assumption is used.

**SessionProofs.** Two invariants of the composed system, preserved by every step of
session, frontend, rcK, daemon, clock and power cut.

`KeyInv` is about the key. `ReaderInv` ties the pid file to the one process that may be a
pwrkeyd and says where a session may be beside one; from it `OneReader`. `HoldInv` is the
argument of pwrkeyd.c's deadline: the last event a daemon has not read says where the
key is; while it has none, the time left to a press it has read and the time the key
has been down add up to at least HOLD; and at the top of its loop, where events may be
unread, the time it counts has run only since its last read, less than HOLD of it thanks
to LAG, so it is over only if the press was long enough.
From it `OnlyAHold`, for any HOLD, LAG below it and length of queue.

`CardInv` is about the volumes. There is one mount on `/mnt/SDCARD`, and none while
mount-frontend looks for one (`SdcardInv`); a volume that is dirty and was not found so
is in use (`DirtyInv`); an image is mounted after the card it is on and before it goes
(`ImageInv`), so that newest first is a sound order; what survives the last signal is
all that uses what was detached (`SignalInv`); and `UnmountInv`, for every step of the
unmounting: what has been passed is gone or a process keeps it, no image is left when
the turn of its card comes, and a volume not yet settled has its card or all of its
mounts still to come. From these `RepairsAlone`, without a hypothesis, and `LeavesClean`
under `~MountsLate`: with it TLC finds LeftClean violated in 24 steps. Proving it took
away an exception: LeftClean used to excuse an image left mounted on the card, and none
is ever left.

Assumptions used: `0` is no process (`PidsAssumption`; the pid file is absent then), the
delay is shorter than HOLD, and the volumes in `Cards` are volumes that are dirty just
when they are found so (`CardsAssumption`).

**ImageBuildProofs.** Three invariants, for any dumps, editions of the tree, runs and
stops. `InputInv` is about the inputs: a source.json, here or published, is cut short or
names the inputs of one dump whose libraries are closed (`SourceInv`), because
prepare-stock.sh writes it last, with the rest of one dump in place (`PrepareInv`), and
nothing but a copy of a published one is ever put in its place. So what verifies against
it is of one dump; that it is also what *today's* list takes of that dump is the lemma
`NoDrift`: a tar without drift was taken under a list with the same paths. From these
`InputsOfOneDump`. `NoDrift` needs lists of which no path lies below another or under an
exclusion of its own (`FlatLists`, true of the 86 paths of `manifest/harvest.list`), and
the closure check passes over ELF files it cannot read, so that nothing harvested is such
a file is the other hypothesis (`ReadableHarvests`). `BuildInv` is about the outputs: each
step of build-all.sh has what the ones before it made of today's inputs (`StepInv`), and
once it has got to its end all of it is, until an edit, a fetch or a stop makes another
run due (`SettledInv`); one with the vendor's U-Boot leaves the mainline one due. From it
`ImagesOfOneDump`, under `~Standalone`, which is how its run has it: nobody runs a step of
build-all.sh by itself over inputs it is due for.

`PayloadsAreStamped` is about mkupdate.py's scan, for any versions, ids, chunk and place of
the stamps in a slot. `SeenIs`: the window that is kept of the chunk before is as long as
the longest stamp, so a stamp no longer than a chunk is seen in the chunk its last item
lies in, and nothing is seen that is not in the slot. `StampsInRoot`: what stands in a
root's slot are its two lines and their beginnings, so a manifest's version is a beginning
of the root's. `StampInv` says that only a root has stamps and that it took them of an
edition.

Assumptions: paths are sequences of names; a version or an id is shorter than a chunk
(4 MiB in the code) and holds no line's end and no stamp's name. The proofs found that SANY
and tlapm read `UNION A \ B` differently; such expressions are parenthesised now. They also
had the steps that write a file stated from the file's side, as tables from files to
steps, since the operators `:>` and `@@` have no definition the prover can see.

**BootTreeProofs.** For trees of any size, any command line that is asked for and any
inputs: no tool holds or writes a malformed tree (`WellFormedAlways`), an edit changes
what it is for and nothing else in the tree (`EditsStayAlways`), a finished file's
payloads do not lie over each other (`LaidOutAlways`), and a preloader keeps its length
and gets the hashes of its contents (`PreloaderFitsAlways`). The argument has five parts.

*Recursion.* The library's induction theorems take operators, which the provers cannot
instantiate. `Least` gets a least element from the well-founded order of the naturals; by a least
counterexample `StepByStep` says that a function computed place by place exists, and
`EveryPlace` that what goes from each place to the next is true of all. From these,
`FlattenIs`, `PathsAre` and `OffsetsAre` say what the recursive functions of the model
compute, for every argument; `PickedIs` and `SizeIs`, of selections and lengths, are about
finite sets.

*Where a token is.* `Paths` is the one assignment of paths that a reader of the tokens can
come to (`OnlyPaths`). So, when the tokens put in close what they open and leave the
reader where it was (`Fits`), no kept token changes its node, whatever shifts
(`SplicedPaths`).

*Edits.* `Formed` says the format's demands of tokens and paths: one root, each path
opened once, properties ahead of subnodes, no property twice, each name in the table.
`StaysFormed` is the one place where an edit's effect on all of that is followed: it holds
after putting in welcome tokens (`Welcome`: names new to their node, properties ahead of
its subnodes) and after taking a property out. `SetValueIs`, `InsertIs`, `NopIs` and
`SubnodeIs` are the four ways the code writes a tree, and every edit, by the code's own
conditions, is one of them or several in turn (`EditedIs`). `OpenedOnce`, that a node is opened once and
ahead of everything in it, is why the code may look for the first begin.

*Entries.* `SplicedEntries` has what the dictionary of a spliced tree is: that of the
tree before, less the entries of the tokens taken out, and those of the tokens put in.
The kept ones keep their node by `SplicedPaths` and their name because interning only adds
to the table; no two stand for one entry, as the tree was well formed. Each edit then has
its `...InPlace` lemma. A value that is replaced is taken out and put in again, each time
in the first node of that name: it is the same node, since neither moves a first node
(`SplicedFirst`). The two displays and the panel's four values are followed one write
after the other.

*Runs.* `IInv` adds to the tree at hand what has been dealt with (`SoFar`), which edits
are still due (`Editing`) and that a written file is what its tool composes of parts it
was called with (`Written`), which is why it may be the next tool's input. For
EditsStayInPlace comes `NothingLeft`: outside a part's editing no edit is due.

Assumptions: `JobsAssumption`, that the tools are called with what `Callable` says. Two of
its parts are more than types. The trees given to a tool are well-formed: they come out of
vendor images. A preloader's `/pinctrl` is the empty node of `docs/boot-chain.md:22` or
has a `compatible`: mkpreloader looks for that property only (`mkpreloader.py:183`) and
would give a node with others some of them twice. `WantAssumption` is about the options
build-image.sh passes. `NamesAssumption`, that names written out in the model are
strings, is true by definition of TLA+; the provers do not interpret STRING.

Proving it changed the model in one respect. `WellFormed` counted begins and ends, which
tokens pass that close nothing in one place and open too much in another; it now asks that
each end closes a node.

The hypotheses `WindowsClosed`, `~Standalone` and `~MountsLate` are those of section 3:
TLC shows for each window which property fails when it is open.

Only model-checked:

- liveness and fairness, out of the prover's reach: AlwaysBackToSession,
  EventuallySettled, BtComesUp, OffIsCut, FrontendRuns and the liveness part of
  ImplementsABTrial;
- `DoneIffSound`: `Sound` is a list of an instance's jobs, so it says nothing of others;
- `ImplementsPlainTree`: it says of an absolute path what an edit does there, which is
  so for trees of the vendor's shape only (a node elsewhere whose path ends alike may come
  first). What holds of every tree is `EditsStayInPlace`, and that is proved.

## 7. Not modelled, and the plan

Near what is modelled, and left out:

- BaseosUpdate: a flip that leaves the primary torn (a cut or an error between its two
  sectors) is not a step of it. The card does not start then, whatever the two files say;
  that is in GptCommit, where a torn primary is a state, `Reflash` the only way on, and `Tear`
  the step of OneWayTable that says so; `gpt.h:83-84`, by which the primary "still describes the
  old layout", holds up to the first write to it only. Of a flip reported
  as failed only "as before" and "changed" are left to BaseosUpdate. Also left out:
  `sleep 10` after `reboot` is taken as long enough; the tmpfs that
  replaces an unmountable `/data` (rcS:67), in which boot an update would run without a
  trial.
- WifiBtPower: a chip that lingers on the USB bus after it was cut, which a `want` would
  take for powered (`wifibt-power:28`).
- SlotLayout: 64-bit arithmetic that wraps; a table that is not mkgpt's, but for the two
  theorems that speak of any table.
- ExpandStorage: `EventuallySettled` excuses the card of a cut after the growth, marked done without
  having been expanded (`TakenForFull`), and no other.
- ImageBuild: what a dropped exclusion and a longer version get past is in the run
  `build_claims`; `PreparedIsWhole` and `PayloadIffStamped` say what
  holds beside them. A fetch stopped after its last file and before it removes the old
  rootfs finds itself up to date the next time and keeps it (`fetch-prepared.sh:58`, 98):
  the model has it, and `due` keeps it out of `ImageOfOneDump` until build-all.sh has run;
  without that, it is one more way to what steps run alone do in `build_claims`.
- Session: a card pulled out while it is mounted; the tail of rcK that is not about the
  frontend's volumes; a process that survives SIGKILL and goes on writing.

Whole parts, with the reason in `PROJECT.json`: the preloader installer's erase, write
and verify; U-Boot's fuel gauge and charge mode and the other patches; splash, log and
boot record; network, Bluetooth and development services; the logo and firmware image
tools; the tests.

Of the proofs, what is left is PlainTree's dictionary for trees of the vendor's shape
(`ImplementsPlainTree`): that shape would have to be stated, beside `Callable`, and with
it that an edit does all it is for, where `EditsStayInPlace` has that it does no more.
