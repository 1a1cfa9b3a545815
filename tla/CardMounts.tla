------------------------------ MODULE CardMounts ------------------------------
(***************************************************************************)
(* The two FAT volumes a frontend may live on, what is mounted from them    *)
(* and the flag in their boot sector that says they were not unmounted:     *)
(* set at mount, cleared at a clean unmount unless it was found set, tested *)
(* by src/fatdirty.c before fsck.fat may clear it.  A mount detached lazily *)
(* leaves /proc/mounts and stays a file system while something uses it.     *)
(***************************************************************************)
EXTENDS Integers, Sequences, SequencesExt, FiniteSets

VARIABLES
  left,    \* a card is in the left slot
  card,    \* what is on each volume
  mounts,  \* /proc/mounts, the newest last
  lazy,    \* mounts detached lazily and still used
  swap,    \* volumes with a swap file in use
  procs    \* who has files open on them: "frontend", and what it left behind

mountVars == <<left, card, mounts, lazy, swap, procs>>

Slots == {"left", "own"}    \* mmcblk2p1, mmcblk1p5

\* .tmp_update as far as it got: "begun" without its updater, "part" with it.
Volume(tmp, base, zip) ==
  [tmp |-> tmp, base |-> base, zip |-> zip, fat |-> TRUE,
   dirty |-> FALSE, found |-> FALSE]
Volumes ==
  [tmp : {"none", "begun", "part", "whole"}, base : BOOLEAN, zip : BOOLEAN, fat : BOOLEAN,
   dirty : BOOLEAN, found : BOOLEAN]
Unreadable == [Volume("none", FALSE, FALSE) EXCEPT !.fat = FALSE]

HasUpdater(v) == v.tmp \in {"part", "whole"}
HasFrontend(v) == HasUpdater(v) \/ v.zip \/ v.base

Present(s) == s = "left" => left
Mount(at, s) == [at |-> at, of |-> s]
MountedAt(at) == {m \in ToSet(mounts) : m.at = at}

\* An image on the volume, and the overlay over /usr that writes to it.
Pins(s, ms) == \E m \in ms : m.of = s /\ m.at \in {"image", "usr"}
Alive(s, ms, sw) == s \in sw \/ \E m \in ms : m.of = s
AllMounts == ToSet(mounts) \cup lazy

\* The state of the volumes once these mounts are what is left: one that is no
\* longer used by any is marked clean, unless it was dirty when it was mounted.
Settled(ms, sw) ==
  [s \in Slots |->
     IF Alive(s, AllMounts, swap) /\ ~Alive(s, ms, sw)
     THEN [card[s] EXCEPT !.dirty = card[s].found] ELSE card[s]]

Attach(s) ==
  /\ mounts' = Append(mounts, Mount("SDCARD", s))
  /\ card' = [card EXCEPT ![s].found = IF Alive(s, AllMounts, swap) THEN @ ELSE card[s].dirty,
                          ![s].dirty = TRUE]

\* EBUSY; what is over /usr holds the command that would unmount it.
Busy(m) ==
  \/ m.at = "usr"
  \/ m.at # "image" /\ procs # {}
  \/ m.at = "SDCARD" /\ (Pins(m.of, AllMounts) \/ m.of \in swap)

\* The mounts but for these, in the order they are in.
Kept(ms) == {i \in DOMAIN mounts : mounts[i] \notin ms}
Rank(ms, i) == Cardinality({j \in Kept(ms) : j <= i})
Without(ms) ==
  [n \in 1 .. Cardinality(Kept(ms)) |-> mounts[CHOOSE i \in Kept(ms) : Rank(ms, i) = n]]
Drop(ms) == mounts' = Without(ms) /\ card' = Settled(ToSet(Without(ms)) \cup lazy, swap)

\* Mutant: a volume is in use when /proc/mounts has it.
InMounts(s) == \E m \in ToSet(mounts) : m.of = s

\* fatdirty's O_EXCL open fails.
InUse(s) == Alive(s, AllMounts, swap)

FatDirty(s) == card[s].fat /\ card[s].dirty /\ ~InUse(s)
=============================================================================
