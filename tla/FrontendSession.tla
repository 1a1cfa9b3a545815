---------------------------- MODULE FrontendSession ----------------------------
(***************************************************************************)
(* usr/sbin/frontend-session, which init starts again whenever it ends, and *)
(* usr/sbin/mount-frontend, which rcS calls once before it: find the card   *)
(* that carries a frontend, bring its .tmp_update up, have the power key    *)
(* watched while there is none, hand over to the updater when there is.     *)
(* The card in the left slot comes and goes while it is not mounted.        *)
(***************************************************************************)
EXTENDS CardMounts, PowerKey

CONSTANTS
  Tries,     \* how often a session calls mount-frontend: 20
  MaxSwaps,  \* how often the left card is put in or taken out
  MaxFaults, \* how many copies and repairs fail
  MountsLate \* whether a frontend still mounts things once the power goes

ASSUME SessionAssumption == Tries \in Nat \ {0} /\ MaxSwaps \in Nat /\ MaxFaults \in Nat
                            /\ MountsLate \in BOOLEAN
ASSUME PidsAssumption == 0 \notin Pids    \* which stands for no process

VARIABLES
  pc,       \* where the session, or rcS in mount-frontend, is
  scan,     \* mount-frontend: its device, its fallback and its caller
  tries,    \* the session's calls of it
  pidfile,  \* /run/pwrkeyd.pid
  swaps, faults

sessionVars == <<pc, scan, tries, pidfile, swaps, faults>>

NoScan == [dev |-> "none", fallback |-> "none", last |-> FALSE, caller |-> "none"]
Goto(step) == pc' = step /\ UNCHANGED <<scan, tries, pidfile, swaps, faults>>
Call(caller) == pc' = "look" /\ scan' = [NoScan EXCEPT !.caller = caller]

-----------------------------------------------------------------------------
\* mount-frontend
Return ==
  /\ pc' = (IF scan.caller = "rcS" THEN "displace" ELSE "mounted?")
  /\ scan' = NoScan /\ UNCHANGED <<tries, pidfile, swaps, faults>>
Try(s, fallback, last) ==
  /\ pc' = "repair" /\ scan' = [scan EXCEPT !.dev = s, !.fallback = fallback, !.last = last]
  /\ UNCHANGED <<tries, pidfile, swaps, faults>>
NextDevice(fallback) ==
  IF scan.dev = "left" /\ ~scan.last THEN Try("own", fallback, FALSE)
  ELSE IF fallback # "none" /\ ~scan.last THEN Try(fallback, fallback, TRUE)
  ELSE Return

Look ==
  /\ pc = "look"
  /\ IF MountedAt("SDCARD") # {} THEN Return ELSE Try("left", "none", FALSE)
  /\ UNCHANGED <<mountVars, keyVars>>

Repair ==
  /\ pc = "repair" /\ UNCHANGED <<mountVars, keyVars>>
  /\ IF ~Present(scan.dev) THEN NextDevice(scan.fallback)
     ELSE Goto(IF FatDirty(scan.dev) THEN "fsck" ELSE "mount")

\* One that fails leaves the card as it is.
Fsck ==
  /\ pc = "fsck" /\ UNCHANGED <<left, mounts, lazy, swap, procs, keyVars>>
  /\ \/ card' = [card EXCEPT ![scan.dev].dirty = FALSE] /\ Goto("mount")
     \/ /\ faults < MaxFaults /\ faults' = faults + 1
        /\ UNCHANGED <<card, scan, tries, pidfile, swaps>> /\ pc' = "mount"

MountCard ==
  /\ pc = "mount" /\ UNCHANGED <<left, lazy, swap, procs, keyVars>>
  /\ IF Present(scan.dev) /\ card[scan.dev].fat
     THEN Attach(scan.dev) /\ IF scan.last THEN Return ELSE Goto("judge")
     ELSE UNCHANGED <<card, mounts>> /\ NextDevice(scan.fallback)

Judge ==
  /\ pc = "judge" /\ UNCHANGED <<left, lazy, swap, procs, keyVars>>
  /\ IF HasFrontend(card[scan.dev]) THEN UNCHANGED <<card, mounts>> /\ Return
     ELSE /\ Drop({Mount("SDCARD", scan.dev)})
          /\ NextDevice(IF scan.fallback = "none" THEN scan.dev ELSE scan.fallback)

MountFrontend == Look \/ Repair \/ Fsck \/ MountCard \/ Judge

-----------------------------------------------------------------------------
\* Mutant: the fallback that is mounted stays mounted.
FallbackKept == FALSE

\* A card has turned up where the fallback was mounted for want of one.
FallbackShown == Mount("SDCARD", "own") \in ToSet(mounts) /\ left

Displace ==
  /\ pc = "displace" /\ UNCHANGED <<left, lazy, swap, procs, keyVars>>
  /\ IF FallbackShown
     THEN Drop({m \in MountedAt("userdata") \cup MountedAt("SDCARD") : ~Busy(m)})
     ELSE UNCHANGED <<card, mounts>>
  /\ Call("session") /\ tries' = 1 /\ UNCHANGED <<pidfile, swaps, faults>>

CheckMounted ==
  /\ pc = "mounted?" /\ UNCHANGED <<mountVars, keyVars>>
  /\ \/ MountedAt("SDCARD") # {} /\ Goto("stage")
     \/ /\ MountedAt("SDCARD") = {} /\ tries < Tries
        /\ Call("session") /\ tries' = tries + 1 /\ UNCHANGED <<pidfile, swaps, faults>>
     \/ MountedAt("SDCARD") = {} /\ tries = Tries /\ Goto("watch")

\* The volume under /mnt/SDCARD: what was mounted there last.
Sdcard == mounts[SelectLastInSeq(mounts, LAMBDA m : m.at = "SDCARD")].of
OnCard == card[Sdcard]

Stage ==
  /\ pc = "stage" /\ UNCHANGED <<left, mounts, lazy, swap, procs, keyVars>>
  /\ IF ~HasUpdater(OnCard) /\ (OnCard.base \/ OnCard.zip)
     THEN card' = [card EXCEPT ![Sdcard].tmp = "begun"] /\ Goto("copy")
     ELSE UNCHANGED card /\ Goto("ready")

\* A copy that fails may have brought the updater already.
Copy ==
  /\ pc = "copy" /\ pc' = "clear"
  /\ \E got \in {"begun", "part", "whole"} :
       /\ card' = [card EXCEPT ![Sdcard].tmp = got]
       /\ got # "whole" => faults < MaxFaults
       /\ faults' = IF got = "whole" THEN faults ELSE faults + 1
  /\ UNCHANGED <<left, mounts, lazy, swap, procs, keyVars, scan, tries, pidfile, swaps>>

\* rm -rf miyoo355
Clear ==
  /\ pc = "clear" /\ Goto("ready") /\ UNCHANGED <<left, mounts, lazy, swap, procs, keyVars>>
  /\ card' = [card EXCEPT ![Sdcard].base = @ /\ ~HasUpdater(OnCard)]

Ready ==
  /\ pc = "ready" /\ UNCHANGED <<mountVars, keyVars>>
  /\ Goto(IF HasUpdater(OnCard) THEN "ask" ELSE "watch")

-----------------------------------------------------------------------------
\* Mutant: every session starts a daemon of its own.
NeverRunning == FALSE

PwrkeydRunning == pidfile # 0 /\ Watching(pidfile)

WatchPowerKey ==
  /\ pc = "watch" /\ pc' = "sleep"
  /\ IF PwrkeydRunning THEN UNCHANGED <<daemons, pidfile>>
     ELSE \E p \in {q \in Pids : daemons[q].at = "none"} :
            daemons' = [daemons EXCEPT ![p].at = "forked"] /\ pidfile' = p
  /\ UNCHANGED <<mountVars, key, power, scan, tries, swaps, faults>>

\* Five seconds, in which a daemon that was forked is one; then init starts the
\* next session, until it shuts down.
Respawn ==
  /\ pc = "sleep" /\ power = "on" /\ \A p \in Pids : daemons[p].at # "forked"
  /\ Goto("displace") /\ UNCHANGED <<mountVars, keyVars>>

AskPwrkeyd ==
  /\ pc = "ask" /\ Goto(IF PwrkeydRunning THEN "kill" ELSE "exec")
  /\ UNCHANGED <<mountVars, keyVars>>
KillPwrkeyd ==
  /\ pc = "kill" /\ Goto("exec")
  /\ Unfollowed([daemons EXCEPT ![pidfile] = NoDaemon])
  /\ UNCHANGED <<mountVars, power>>
Exec ==
  /\ pc = "exec" /\ Goto("frontend") /\ procs' = procs \cup {"frontend"}
  /\ UNCHANGED <<left, card, mounts, lazy, swap, keyVars>>

Session ==
  \/ MountFrontend \/ Displace \/ CheckMounted \/ Stage \/ Copy \/ Clear \/ Ready
  \/ WatchPowerKey \/ Respawn \/ AskPwrkeyd \/ KillPwrkeyd \/ Exec

-----------------------------------------------------------------------------
\* What frontends do with the card: binds on /userdata, an overlay over /usr on
\* an image, a swap file, a process they leave behind, a lazy unmount (of a card
\* that has neither of the two files).
FrontendMounts ==
  /\ pc = "frontend" /\ MountedAt("SDCARD") # {} /\ (power = "on" \/ MountsLate)
  /\ \/ /\ MountedAt("userdata") = {}
        /\ mounts' = Append(mounts, Mount("userdata", Sdcard)) /\ UNCHANGED swap
     \/ /\ MountedAt("usr") = {}
        /\ mounts' = mounts \o <<Mount("image", Sdcard), Mount("usr", Sdcard)>>
        /\ UNCHANGED swap
     \/ swap = {} /\ swap' = {Sdcard} /\ UNCHANGED mounts
  /\ UNCHANGED <<left, card, lazy, procs, sessionVars, keyVars>>
FrontendLeaves ==
  /\ pc = "frontend" /\ "helper" \notin procs /\ procs' = procs \cup {"helper"}
  /\ UNCHANGED <<left, card, mounts, lazy, swap, sessionVars, keyVars>>
FrontendDetaches ==
  /\ pc = "frontend" /\ MountedAt("SDCARD") # {}
  /\ ~Pins(Sdcard, AllMounts) /\ Sdcard \notin swap
  /\ LET m == Mount("SDCARD", Sdcard) IN lazy' = lazy \cup {m} /\ mounts' = Without({m})
  /\ UNCHANGED <<left, card, swap, procs, sessionVars, keyVars>>

\* With the last process that used them, lazily detached mounts are gone.
Ends(who) ==
  /\ procs' = procs \ who
  /\ lazy' = (IF procs' = {} THEN {} ELSE lazy)
  /\ card' = Settled(ToSet(mounts) \cup lazy', swap)
FrontendExits ==
  /\ pc = "frontend" /\ power = "on" /\ Ends({"frontend"}) /\ Goto("displace")
  /\ UNCHANGED <<left, mounts, swap, keyVars>>
HelperExits ==
  /\ "helper" \in procs /\ power = "on" /\ Ends({"helper"})
  /\ UNCHANGED <<left, mounts, swap, sessionVars, keyVars>>
FrontendPowersOff ==
  /\ pc = "frontend" /\ PowerOff(daemons)
  /\ UNCHANGED <<mountVars, sessionVars>>

Frontend ==
  \/ FrontendMounts \/ FrontendLeaves \/ FrontendDetaches
  \/ FrontendExits \/ HelperExits \/ FrontendPowersOff

\* A card that is mounted stays where it is.
SwapCard ==
  /\ swaps < MaxSwaps /\ swaps' = swaps + 1
  /\ ~Alive("left", AllMounts, swap) /\ pc # "fsck"
  /\ left' = ~left
  /\ UNCHANGED <<card, mounts, lazy, swap, procs, pc, scan, tries, pidfile, faults, keyVars>>
=============================================================================
