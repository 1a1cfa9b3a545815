------------------------------- MODULE Shutdown -------------------------------
(***************************************************************************)
(* etc/init.d/rcK after poweroff: detach what is over /usr, ask every       *)
(* process to end, kill the rest, then swap off, unmount newest first, and  *)
(* off or into charge mode.  With the session before it and the boot after, *)
(* a power cut at any step, this is the life of the card.                   *)
(***************************************************************************)
EXTENDS FrontendSession

CONSTANTS
  Cards,    \* what may be on the two volumes, and whether the left one is in
  MaxBoots, \* how often the device is started
  MaxStuck  \* how many processes survive SIGKILL for a while, in a run

ASSUME BootAssumption == MaxBoots \in Nat \ {0} /\ MaxStuck \in Nat
ASSUME CardsAssumption ==
  \A c \in Cards : c.in \in BOOLEAN
                   /\ \A s \in Slots : c[s] \in Volumes /\ c[s].found = c[s].dirty

VARIABLES
  rck,    \* where rcK is
  todo,   \* the mounts it has still to unmount
  boots,
  stuck   \* how many processes did

shutdownVars == <<rck, todo, boots, stuck>>
vars == <<mountVars, keyVars, sessionVars, shutdownVars>>

Init ==
  /\ \E c \in Cards : card = [s \in Slots |-> c[s]] /\ left = c.in
  /\ mounts = <<>> /\ lazy = {} /\ swap = {} /\ procs = {}
  /\ key = NoKey /\ daemons = [p \in Pids |-> NoDaemon] /\ power = "on"
  /\ pc = "look" /\ scan = [NoScan EXCEPT !.caller = "rcS"] /\ tries = 0 /\ pidfile = 0
  /\ swaps = 0 /\ faults = 0
  /\ rck = "none" /\ todo = <<>> /\ boots = 1 /\ stuck = 0

Going == power \in {"going", "going to charge"}
Rck(step) == rck' = step /\ UNCHANGED <<boots, stuck>>

\* A copy that is not let finish.
Interrupted(v) == IF v.tmp = "begun" THEN {v, [v EXCEPT !.tmp = "part"]} ELSE {v}
CopyCut(cards) ==
  IF pc = "copy" THEN {[cards EXCEPT ![Sdcard] = v] : v \in Interrupted(cards[Sdcard])}
  ELSE {cards}

-----------------------------------------------------------------------------
\* Mutant: the overlay is unmounted when its turn comes.
OverUsrLeft == {}

OverUsr == MountedAt("usr")

\* Detached, and the script runs again off the root file system.
Detach ==
  /\ Going /\ rck = "none" /\ Rck("term") /\ UNCHANGED todo
  /\ lazy' = lazy \cup OverUsr /\ mounts' = Without(OverUsr)
  /\ UNCHANGED <<left, card, swap, procs, keyVars, sessionVars>>

\* killall5 -15: the session goes, with what it was copying; a frontend may not.
Term ==
  /\ rck = "term" /\ Rck("kill") /\ UNCHANGED todo
  /\ pc' = "none" /\ Unfollowed([p \in Pids |-> NoDaemon])
  /\ \E who \in SUBSET procs :
       /\ procs' = procs \ who
       /\ lazy' = (IF procs' = {} THEN {} ELSE lazy)
       /\ card' \in CopyCut(Settled(ToSet(mounts) \cup lazy', swap))
  /\ UNCHANGED <<left, mounts, swap, power, scan, tries, pidfile, swaps, faults>>

\* killall5 -9, and the wait for what it kills.
Kill ==
  /\ rck = "kill" /\ rck' = "swapoff" /\ UNCHANGED <<boots, todo>>
  /\ \E who \in {procs} \cup (IF stuck < MaxStuck THEN SUBSET procs ELSE {}) :
       Ends(who) /\ stuck' = IF who = procs THEN stuck ELSE stuck + 1
  /\ UNCHANGED <<left, mounts, swap, keyVars, sessionVars>>

SwapOff ==
  /\ rck = "swapoff" /\ Rck("unmount") /\ todo' = Reverse(mounts)
  /\ swap' = {} /\ card' = Settled(AllMounts, {})
  /\ UNCHANGED <<left, mounts, lazy, procs, keyVars, sessionVars>>

\* One that is busy is remounted read-only, unless something writes to it.  A
\* process that survived is one that reads.
Writable(m) == m.at \in {"image", "usr"} \/ Pins(m.of, AllMounts) \/ m.of \in swap
Unmount ==
  /\ rck = "unmount" /\ todo # <<>> /\ todo' = Tail(todo) /\ Rck("unmount")
  /\ LET m == Head(todo)
     IN IF ~Busy(m) THEN Drop({m})
        ELSE /\ UNCHANGED mounts
             /\ card' = IF Writable(m) THEN card
                        ELSE [card EXCEPT ![m.of].dirty = card[m.of].found]
  /\ UNCHANGED <<left, lazy, swap, procs, keyVars, sessionVars>>

\* rebootmode charge, or what init was asked for.
Halt ==
  /\ rck = "unmount" /\ todo = <<>> /\ Rck("off") /\ UNCHANGED todo
  /\ power' = IF power = "going" THEN "off" ELSE "charge"
  /\ UNCHANGED <<mountVars, key, daemons, sessionVars>>

RcK == Detach \/ Term \/ Kill \/ SwapOff \/ Unmount \/ Halt

-----------------------------------------------------------------------------
\* A boot after rcK, or after a cut, which leaves the volumes as they are.
Start(cards) ==
  /\ boots < MaxBoots /\ boots' = boots + 1
  /\ card' = [s \in Slots |-> [cards[s] EXCEPT !.found = cards[s].dirty]]
  /\ mounts' = <<>> /\ lazy' = {} /\ swap' = {} /\ procs' = {}
  /\ key' = NoKey /\ daemons' = [p \in Pids |-> NoDaemon] /\ power' = "on"
  /\ Call("rcS") /\ tries' = 0 /\ pidfile' = 0
  /\ rck' = "none" /\ todo' = <<>>
  /\ UNCHANGED <<left, swaps, faults, stuck>>
Boot == power \in {"off", "charge"} /\ Start(card)
Cut == power \notin {"off", "charge"} /\ \E cards \in CopyCut(card) : Start(cards)

OnlyUp == UNCHANGED shutdownVars
OnlyKey == UNCHANGED <<mountVars, sessionVars, shutdownVars>>
SessionStep == Session /\ OnlyUp
DaemonStep(p) == Daemon(p) /\ OnlyKey

Next ==
  \/ SessionStep
  \/ Frontend /\ OnlyUp
  \/ SwapCard /\ OnlyUp
  \/ (Press \/ Release \/ Tick) /\ OnlyKey
  \/ \E p \in Pids : DaemonStep(p)
  \/ RcK \/ Boot \/ Cut

\* init keeps a session going, and runs rcK.
Spec == Init /\ [][Next]_vars /\ WF_vars(SessionStep) /\ WF_vars(RcK)
        /\ \A p \in Pids : WF_vars(DaemonStep(p))

-----------------------------------------------------------------------------
\* The power key has one reader: once a frontend runs, which reads it itself, no
\* pwrkeyd is left, and without one there are never two of them.
KeyHasOneReader ==
  LET readers == {p \in Pids : daemons[p].at \in {"forked", "top", "poll"}}
  IN IF pc = "frontend" THEN readers = {} ELSE Cardinality(readers) <= 1

\* Only a key that was held for HOLD without a break powers off, however late
\* the daemon is run and whatever is still in its queue.
OffOnlyWhenHeld ==
  [][\A p \in Pids :
       daemons[p].at # "poweroff" /\ daemons'[p].at = "poweroff" => key.full]_vars

\* fsck.fat has the volume to itself, also when a lazy unmount hides one that is
\* still in use.
RepairedAlone == pc = "fsck" => ~Alive(scan.dev, AllMounts, swap)

\* A shutdown leaves no volume dirty that was not found dirty, whatever the
\* frontend had mounted on it, unless a process that outlived SIGKILL keeps in
\* use what was detached from it lazily.
LeftClean ==
  rck = "off" => \A s \in Slots : card[s].dirty =>
    card[s].found \/ (procs # {} /\ \E m \in lazy : m.of = s)

\* A frontend that is on a card in the device, in any of its forms, comes to run,
\* whenever the card was put in and whatever was mounted before it.
Bootable == \E s \in Slots : Present(s) /\ card[s].fat /\ HasFrontend(card[s])
FrontendRuns ==
  (power = "on" /\ Bootable) ~> (pc = "frontend" \/ power # "on" \/ ~Bootable)

\* "Only once staging is known good, so a failed copy can try again": of a
\* frontend half copied the source is still there.
SourceKept ==
  \A s \in Slots : card[s].tmp = "part" => card[s].base \/ card[s].zip
=============================================================================
