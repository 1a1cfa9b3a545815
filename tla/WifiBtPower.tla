---------------------------- MODULE WifiBtPower ----------------------------
(***************************************************************************)
(* The power of the WiFi/Bluetooth chip.  wifibt-power keeps two intents   *)
(* and cuts or restores one switch, under a lock.  It is called by S36 for *)
(* WiFi and by wifibtd for Bluetooth, which has only two kernel sources to *)
(* go by: uevents (rtk_btusb loading) and the rfkill switch of hci0.       *)
(*                                                                         *)
(* The kernel and the frontend's bt_init.sh, which is not in this          *)
(* repository, are modelled from what wifibtd.c and docs/power.md say of   *)
(* them: start loads the module unless lsmod shows it, unblocks Bluetooth  *)
(* 0.5 s later, then waits for hci0; stop blocks it.                       *)
(***************************************************************************)
EXTENDS Integers, Sequences, FiniteSets

CONSTANTS
  MaxStarts,  \* bound: how often the frontend starts Bluetooth
  MaxWifi,    \* bound: how often it turns WiFi off or on
  MaxRare     \* bound: how many kinds of rare event there are in a behaviour

\* Rare events.  died: wifibtd died.
\* hasty: Bluetooth was stopped before wifibtd had handled its start.
\* found: a start saw the module loaded just before a cut unloaded it.
\* slow: the chip took longer than power_on waits (5 s), or hci0 longer to
\* register than wifibtd sleeps on a block (2 s).

ASSUME BoundsAssumption == {MaxStarts, MaxWifi, MaxRare} \subseteq Nat

VARIABLES
  wifiOff, btOn,   \* the intents, /run/wifibt/wifi-off and bt-on
  rail, chip,      \* the switch as written; the chip is on the USB bus
  loaded,          \* rtk_btusb is in /proc/modules
  blocked,         \* the kernel's global Bluetooth state
  hci, idx,        \* hci0's rfkill switch: "none", "blocked" or "unblocked"; its number
  caller,          \* per kind, the running wifibt-power: its step and its word
  alive,           \* wifibtd runs
  uevents, rfkill, \* what it has not read: module loads; switch events, in order
  todo, settling,  \* what poll returned and is left to do; the switch slept on, or 0
  due,             \* hci0 was about to register when that sleep began
  script,          \* the last step of bt_init.sh
  starts, wifis,   \* counters, for the bounds
  rare             \* history: the rare events so far

chipState == <<rail, chip, loaded, hci, idx>>
intents == <<wifiOff, btOn>>
events == <<uevents, rfkill>>
daemon == <<alive, todo, settling, due>>
frontend == <<script, blocked, starts, wifis>>
vars == <<intents, chipState, caller, events, daemon, frontend, rare>>

Kinds == {"wifi", "bt"}
Idle == [at |-> "idle", word |-> "want"]

Init ==
  /\ wifiOff = FALSE /\ btOn = FALSE
  /\ rail = TRUE /\ chip = TRUE /\ loaded = FALSE
  /\ blocked = TRUE /\ hci = "none" /\ idx = 0
  /\ caller = [k \in Kinds |-> Idle]
  /\ alive = TRUE /\ uevents = 0 /\ rfkill = <<>>
  /\ todo = {} /\ settling = 0 /\ due = FALSE
  /\ script = "off" /\ starts = 0 /\ wifis = 0 /\ rare = {}

Rare(event) ==
  /\ rare' = rare \cup {event}
  /\ Cardinality(rare') <= MaxRare

-----------------------------------------------------------------------------
(* The kernel.                                                             *)

\* Events reach an open socket or file only.
Told(evs) == IF alive THEN rfkill \o evs ELSE rfkill
Change(soft, i) == [op |-> "change", soft |-> soft, idx |-> i]
Add(soft, i) == [op |-> "add", soft |-> soft, idx |-> i]

Insmod ==
  /\ loaded' = TRUE
  /\ uevents' = IF alive THEN uevents + 1 ELSE uevents

\* Powered, the chip comes up on the bus.
Enumerate ==
  /\ rail /\ ~chip
  /\ chip' = TRUE
  /\ UNCHANGED <<intents, rail, loaded, hci, idx, caller, events, daemon, frontend, rare>>

Registering == chip /\ loaded /\ hci = "none"

\* The kernel counts up; the least number nobody names any more does as well.
Named == {rfkill[n].idx : n \in DOMAIN rfkill} \cup {settling}
FreshNumber == CHOOSE i \in 1..(Len(rfkill) + 2) : i \notin Named

\* hci0 appears with a new, unblocked switch, and takes the global state.
Register ==
  /\ Registering
  /\ idx' = FreshNumber
  /\ hci' = IF blocked THEN "blocked" ELSE "unblocked"
  /\ rfkill' = Told(IF blocked THEN <<Add(FALSE, idx'), Change(TRUE, idx')>>
                               ELSE <<Add(FALSE, idx')>>)
  /\ UNCHANGED <<intents, rail, chip, loaded, caller, uevents, daemon, frontend, rare>>

\* A write of the global state changes the switch there is.
SetBlocked(b) ==
  LET s == IF b THEN "blocked" ELSE "unblocked" IN
  /\ blocked' = b
  /\ hci' = IF hci = "none" THEN "none" ELSE s
  /\ rfkill' = IF hci \in {"none", s} THEN rfkill ELSE Told(<<Change(b, idx)>>)
  /\ UNCHANGED <<rail, chip, idx>>

-----------------------------------------------------------------------------
(* wifibt-power.                                                           *)

LockFree == \A k \in Kinds : caller[k].at \in {"idle", "flock"}
Call(k, word) == caller' = [caller EXCEPT ![k] = [at |-> "flock", word |-> word]]
Goto(k, step) == caller' = [caller EXCEPT ![k].at = step]
Done(k) == caller' = [caller EXCEPT ![k] = Idle]

\* Mutant: what to do is decided by the intents as they were.
DecideStale(k) ==
  /\ IF k = "wifi"
     THEN wifiOff' = (caller[k].word = "release") /\ UNCHANGED btOn
     ELSE btOn' = (caller[k].word = "want") /\ UNCHANGED wifiOff
  /\ IF wifiOff /\ ~btOn THEN Goto(k, "off")
     ELSE IF caller[k].word = "want" THEN Goto(k, "on")
     ELSE Done(k)
  /\ UNCHANGED <<chipState, events, daemon, frontend, rare>>

\* The intent, and what to do about both.
Decide(k) ==
  /\ IF k = "wifi"
     THEN wifiOff' = (caller[k].word = "release") /\ UNCHANGED btOn
     ELSE btOn' = (caller[k].word = "want") /\ UNCHANGED wifiOff
  /\ IF wifiOff' /\ ~btOn' THEN Goto(k, "off")
     ELSE IF caller[k].word = "want" THEN Goto(k, "on")
     ELSE Done(k)
  /\ UNCHANGED <<chipState, events, daemon, frontend, rare>>

\* Mutant: the lock is not taken.
EnterUnlocked(k) == caller[k].at = "flock" /\ Decide(k)

\* Under the lock.
Enter(k) == caller[k].at = "flock" /\ LockFree /\ Decide(k)

\* power_off: nothing to cut, or first the module must go.
LookOff(k) ==
  /\ caller[k].at = "off"
  /\ IF chip THEN Goto(k, "unload") ELSE Done(k)
  /\ UNCHANGED <<intents, chipState, events, daemon, frontend, rare>>

\* One turn of its loop: rmmod takes hci0 away ...
Unload(k) ==
  /\ caller[k].at = "unload" /\ loaded
  /\ loaded' = FALSE /\ hci' = "none"
  /\ IF script = "found" THEN Rare("found") ELSE UNCHANGED rare
  /\ UNCHANGED <<intents, rail, chip, idx, caller, events, daemon, frontend>>

\* ... or it is in use, twenty times over.
KeepOn(k) ==
  /\ caller[k].at = "unload" /\ loaded /\ hci = "unblocked"
  /\ Done(k)
  /\ UNCHANGED <<intents, chipState, events, daemon, frontend, rare>>

Unloaded(k) ==
  /\ caller[k].at = "unload" /\ ~loaded
  /\ Goto(k, "cut")
  /\ UNCHANGED <<intents, chipState, events, daemon, frontend, rare>>

\* The chip is taken to be off the bus before the next caller looks.
Cut(k) ==
  /\ caller[k].at = "cut"
  /\ rail' = FALSE /\ chip' = FALSE /\ hci' = "none"
  /\ Done(k)
  /\ UNCHANGED <<intents, loaded, idx, events, daemon, frontend, rare>>

\* power_on: only a chip that is off the bus is switched on.
LookOn(k) ==
  /\ caller[k].at = "on"
  /\ IF chip THEN Goto(k, "reload") /\ UNCHANGED rail
             ELSE Goto(k, "await") /\ rail' = TRUE
  /\ UNCHANGED <<intents, chip, loaded, hci, idx, events, daemon, frontend, rare>>

\* It waits for the chip, and goes on without it after 5 s.
Await(k) ==
  /\ caller[k].at = "await"
  /\ IF chip THEN UNCHANGED rare ELSE Rare("slow")
  /\ Goto(k, "reload")
  /\ UNCHANGED <<intents, chipState, events, daemon, frontend>>

\* A start's module that a cut has unloaded is loaded again.
Reload(k) ==
  /\ caller[k].at = "reload"
  /\ IF k = "bt" /\ ~loaded THEN Insmod ELSE UNCHANGED <<loaded, uevents>>
  /\ Done(k)
  /\ UNCHANGED <<intents, rail, chip, hci, idx, rfkill, daemon, frontend, rare>>

-----------------------------------------------------------------------------
(* wifibtd.  It waits for each wifibt-power it runs.                       *)

NothingToRead == todo = {} /\ uevents = 0 /\ rfkill = <<>>

Ready == alive /\ caller["bt"].at = "idle" /\ settling = 0

Poll ==
  /\ Ready /\ todo = {}
  /\ todo' = (IF uevents > 0 THEN {"ue"} ELSE {}) \cup (IF rfkill # <<>> THEN {"rf"} ELSE {})
  /\ todo' # {}
  /\ UNCHANGED <<intents, chipState, caller, events, alive, settling, due, frontend, rare>>

\* The module was loaded.
Uevent ==
  /\ Ready /\ "ue" \in todo
  /\ uevents' = uevents - 1
  /\ todo' = todo \ {"ue"}
  /\ Call("bt", "want")
  /\ UNCHANGED <<intents, chipState, rfkill, alive, settling, due, frontend, rare>>

\* Mutant: a block is taken at its word.
RfkillAtOnce ==
  /\ Ready /\ todo = {"rf"}
  /\ rfkill' = Tail(rfkill)
  /\ todo' = {}
  /\ IF ~Head(rfkill).soft THEN Call("bt", "want")
     ELSE IF Head(rfkill).op = "change" THEN Call("bt", "release")
     ELSE UNCHANGED caller
  /\ UNCHANGED <<intents, chipState, uevents, alive, settling, due, frontend, rare>>

\* One rfkill event, after the uevent of the same poll.  A block is slept on.
Rfkill ==
  /\ Ready /\ todo = {"rf"}
  /\ LET ev == Head(rfkill) IN
     /\ IF ~ev.soft THEN Call("bt", "want") ELSE UNCHANGED caller
     /\ settling' = IF ev.op = "change" /\ ev.soft THEN ev.idx ELSE 0
  /\ due' = (settling' # 0 /\ Registering)
  /\ rfkill' = Tail(rfkill)
  /\ todo' = {}
  /\ UNCHANGED <<intents, chipState, uevents, alive, frontend, rare>>

\* A switch that is gone counts as off.
StillBlocked(i) == hci # "unblocked" \/ i # idx

\* Two seconds later.  A switch that came up since a start's insmod is
\* younger than the half second to the start's unblock: that comes first, and
\* so does the hci0 that was about to register.
Settled ==
  /\ settling # 0
  /\ ~(script = "loading" /\ hci # "none" /\ settling = idx)
  /\ IF due /\ Registering THEN Rare("slow") ELSE UNCHANGED rare
  /\ IF StillBlocked(settling) THEN Call("bt", "release") ELSE UNCHANGED caller
  /\ settling' = 0 /\ due' = FALSE
  /\ UNCHANGED <<intents, chipState, events, alive, todo, frontend>>

\* An error on the socket (it overflowed) ends the program after a turn.
Die ==
  /\ Ready /\ todo = {}
  /\ "died" \notin rare /\ Rare("died")
  /\ alive' = FALSE
  /\ uevents' = 0 /\ rfkill' = <<>>
  /\ UNCHANGED <<intents, chipState, caller, todo, settling, due, frontend>>

\* rcS starts it again.  /dev/rfkill first tells of the switch there is.
Respawn ==
  /\ ~alive
  /\ alive' = TRUE
  /\ rfkill' = IF hci = "none" THEN <<>> ELSE <<Add(hci = "blocked", idx)>>
  /\ UNCHANGED <<intents, chipState, caller, uevents, todo, settling, due, frontend, rare>>

-----------------------------------------------------------------------------
(* The frontend.                                                           *)

\* bt_init.sh start.
StartBt ==
  /\ script = "off" /\ starts < MaxStarts
  /\ starts' = starts + 1
  /\ IF loaded THEN script' = "found" /\ UNCHANGED <<loaded, uevents>>
               ELSE script' = "loading" /\ Insmod
  /\ UNCHANGED <<intents, rail, chip, hci, idx, caller, rfkill, daemon, blocked, wifis, rare>>

\* Half a second, or a person's pause, goes by only while those who can act are
\* in the waits the code has: the lock, rmmod, the chip, the sleep on a block.
Paused ==
  /\ \A k \in Kinds : \/ caller[k].at \in {"idle", "await"}
                      \/ caller[k].at = "unload" /\ loaded
                      \/ caller[k].at = "flock" /\ ~LockFree
  /\ Ready => NothingToRead

UnblockBt ==
  /\ script \in {"loading", "found"} /\ Paused
  /\ script' = "waiting"
  /\ SetBlocked(FALSE)
  /\ UNCHANGED <<intents, loaded, caller, uevents, daemon, starts, wifis, rare>>

\* bt_init.sh start is over and nothing it caused is under way.
HandledAll == Ready /\ NothingToRead /\ LockFree /\ hci # "none"

\* bt_init.sh stop.
StopBt ==
  /\ script = "waiting" /\ Paused
  /\ IF HandledAll THEN UNCHANGED rare ELSE Rare("hasty")
  /\ script' = "off"
  /\ SetBlocked(TRUE)
  /\ UNCHANGED <<intents, loaded, caller, uevents, daemon, starts, wifis>>

\* wifi_init.sh calls S36load_wifi_modules start or stop and waits for it.
S36(word) ==
  /\ caller["wifi"].at = "idle" /\ wifis < MaxWifi
  /\ wifis' = wifis + 1
  /\ Call("wifi", word)
  /\ UNCHANGED <<intents, chipState, events, daemon, script, blocked, starts, rare>>

-----------------------------------------------------------------------------
Kernel == Enumerate \/ Register

Helper(k) ==
  \/ Enter(k)
  \/ LookOff(k) \/ Unload(k) \/ KeepOn(k) \/ Unloaded(k) \/ Cut(k)
  \/ LookOn(k) \/ Await(k) \/ Reload(k)

Daemon == Poll \/ Uevent \/ Rfkill \/ Settled \/ Respawn

Next ==
  \/ Kernel \/ Daemon \/ Die
  \/ \E k \in Kinds : Helper(k)
  \/ StartBt \/ UnblockBt \/ StopBt
  \/ \E word \in {"want", "release"} : S36(word)

\* Nothing makes the frontend start or stop anything, or wifibtd die.
Fairness ==
  /\ WF_vars(Enumerate) /\ WF_vars(Register)
  /\ \A k \in Kinds : WF_vars(Helper(k))
  /\ WF_vars(Daemon) /\ WF_vars(UnblockBt)

Spec == Init /\ [][Next]_vars /\ Fairness

-----------------------------------------------------------------------------
\* Whenever no wifibt-power is at work, a chip that is wanted is powered: no
\* order of two callers leaves it cut under one of them (wifibt-power:51-69,
\* the lock around the intents and what is done of them).
WantedIsPowered ==
  LockFree /\ (btOn \/ ~wifiOff) => rail

\* The switch is only cut while neither is wanted, even by a caller that has
\* only got the lock since the cut was decided (wifibt-power:39-49, 51-63).
CutOnlyWhenOff == [][rail /\ ~rail' => wifiOff /\ ~btOn]_vars

\* A Bluetooth start that is not stopped gets its hci0 whatever WiFi does meanwhile,
\* if wifibtd lives, the chip is in time and a module the start found stays loaded
\* (wifibtd.c:1-13, 86-105; wifibt-power:35-36).
BtComesUp ==
  script = "waiting" ~>
    script = "off" \/ hci = "unblocked" \/ rare \cap {"died", "found", "slow"} # {}

\* The frontend has both off.
BothOff == script = "off" /\ wifiOff

\* Once both are off for good the chip is cut for good, however late the events
\* are handled (wifibtd.c:94-103; wifibt-power:63-65).
OffIsCut == <>[](BothOff /\ rare \cap {"died", "hasty", "slow"} = {}) => <>[]~rail

\* The rule of docs/power.md:113-114, "the chip is only cut once rtk_btusb is
\* unloaded, so the next Bluetooth start always loads it": no start is left with a
\* module it found and a cut took from under it.
StartAlwaysLoads == script = "found" => loaded

\* What docs/power.md:123 says the sleep is for: nobody's quick off-and-on has
\* the chip cut and restored for ever.
NotCycled == <>[]BothOff => <>[]rail \/ <>[]~rail

\* One of the two.  Each implies this, so a behaviour without it refutes both.
PowerAsDocumented == []StartAlwaysLoads \/ NotCycled
=============================================================================
