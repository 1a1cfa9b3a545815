---------------------------- MODULE WifiBtProofs ----------------------------
(***************************************************************************)
(* The two safety properties of WifiBtPower, for any number of starts, stops *)
(* and rare events: what the lock of wifibt-power is for.                  *)
(***************************************************************************)
EXTENDS WifiBtPower, TLAPS

Steps == {"idle", "flock", "off", "unload", "cut", "on", "await", "reload"}
Waiting == {"idle", "flock"}
Cutting == {"off", "unload", "cut"}

CallerType == caller \in [Kinds -> [at : Steps, word : {"want", "release"}]]

\* At most one wifibt-power is past its flock.
OneHolder ==
  \A j, k \in Kinds :
    caller[j].at \notin Waiting /\ caller[k].at \notin Waiting => j = k

\* One that cuts has found that nobody wants the chip, and nobody has since.
CutUnwanted == \A k \in Kinds : caller[k].at \in Cutting => wifiOff /\ ~btOn

\* What is wanted is on, or about to be switched on.
WantedOrComing ==
  btOn \/ ~wifiOff => rail \/ \E k \in Kinds : caller[k].at = "on"

\* A chip on the bus has power.
ChipPowered == chip => rail

\* wifibtd waits for what it runs, so it has nothing running in its sleep.
SleepsAlone == settling # 0 => caller["bt"].at = "idle"

PowerInv == CallerType /\ OneHolder /\ CutUnwanted /\ WantedOrComing /\ ChipPowered

-----------------------------------------------------------------------------
LEMMA InitPowerInv == Init => PowerInv
  BY DEF Init, PowerInv, CallerType, OneHolder, CutUnwanted, WantedOrComing,
     ChipPowered, Idle, Kinds, Steps, Waiting, Cutting

\* A step that leaves the callers, the intents, the switch and the bus alone.
LEMMA Elsewhere ==
  PowerInv /\ UNCHANGED <<caller, wifiOff, btOn, rail, chip>> => PowerInv'
  BY DEF PowerInv, CallerType, OneHolder, CutUnwanted, WantedOrComing, ChipPowered

\* One that only starts a caller that was idle.
LEMMA Called ==
  ASSUME PowerInv, NEW k \in Kinds, NEW word \in {"want", "release"},
         caller[k].at = "idle", Call(k, word),
         UNCHANGED <<wifiOff, btOn, rail, chip>>
  PROVE  PowerInv'
  BY DEF PowerInv, CallerType, OneHolder, CutUnwanted, WantedOrComing, ChipPowered,
     Call, Steps, Waiting, Cutting

\* The holder goes to its next step, with the intents, switch and bus as they are.
LEMMA HolderMoves ==
  ASSUME PowerInv, NEW k \in Kinds, NEW step \in Steps,
         caller[k].at \notin Waiting, caller[k].at # "on" \/ rail,
         step \in Cutting => caller[k].at \in Cutting,
         Goto(k, step) \/ Done(k),
         UNCHANGED <<wifiOff, btOn, rail, chip>>
  PROVE  PowerInv'
  BY DEF PowerInv, CallerType, OneHolder, CutUnwanted, WantedOrComing, ChipPowered,
     Goto, Done, Idle, Steps, Waiting, Cutting

\* The intent is set and acted on by the only one past its flock.
LEMMA EnterKeeps == ASSUME PowerInv, NEW k \in Kinds, Enter(k) PROVE PowerInv'
<1> USE DEF Enter, Decide, LockFree, chipState
<1>1. CASE wifiOff' /\ ~btOn'
  BY <1>1 DEF PowerInv, CallerType, OneHolder, CutUnwanted, WantedOrComing, ChipPowered,
     Goto, Steps, Waiting, Cutting
<1>2. CASE ~(wifiOff' /\ ~btOn') /\ caller[k].word = "want"
  BY <1>2 DEF PowerInv, CallerType, OneHolder, CutUnwanted, WantedOrComing, ChipPowered,
     Goto, Steps, Waiting, Cutting
<1>3. CASE ~(wifiOff' /\ ~btOn') /\ caller[k].word # "want"
  <2>1. caller[k].word = "release" /\ caller' = [caller EXCEPT ![k] = Idle]
    BY <1>3 DEF PowerInv, CallerType, Done
  <2>2. btOn \/ ~wifiOff
    <3>1. CASE k = "wifi"
      <4>1. wifiOff' = TRUE /\ btOn' = btOn
        BY <2>1, <3>1
      <4> QED BY <1>3, <4>1
    <3>2. CASE k = "bt"
      <4>1. btOn' = FALSE /\ wifiOff' = wifiOff
        BY <2>1, <3>2
      <4> QED BY <1>3, <4>1
    <3> QED BY <3>1, <3>2 DEF Kinds
  <2>3. rail
    BY <2>2 DEF PowerInv, WantedOrComing
  <2>4. CallerType' /\ OneHolder'
    BY <2>1 DEF PowerInv, CallerType, OneHolder, Idle, Kinds, Steps, Waiting
  <2>5. CutUnwanted'
    BY <2>1 DEF PowerInv, CallerType, CutUnwanted, Idle, Kinds, Cutting
  <2>6. CutUnwanted' /\ WantedOrComing' /\ ChipPowered'
    BY <2>3, <2>5 DEF PowerInv, WantedOrComing, ChipPowered
  <2> QED BY <2>4, <2>6 DEF PowerInv
<1> QED BY <1>1, <1>2, <1>3

\* power_on switches on a chip that is off the bus.
LEMMA LookOnKeeps == ASSUME PowerInv, NEW k \in Kinds, LookOn(k) PROVE PowerInv'
<1>1. CASE chip
  BY <1>1, HolderMoves DEF LookOn, PowerInv, ChipPowered, intents, Steps, Waiting, Cutting
<1>2. CASE ~chip
  BY <1>2 DEF LookOn, PowerInv, CallerType, OneHolder, CutUnwanted, WantedOrComing,
     ChipPowered, Goto, intents, Steps, Waiting, Cutting
<1> QED BY <1>1, <1>2

\* power_off's last step.
LEMMA CutKeeps == ASSUME PowerInv, NEW k \in Kinds, Cut(k) PROVE PowerInv'
  BY DEF Cut, PowerInv, CallerType, OneHolder, CutUnwanted, WantedOrComing, ChipPowered,
     Done, Idle, intents, Steps, Waiting, Cutting

\* Whatever wifibt-power does.
LEMMA HelperKeeps == ASSUME PowerInv, NEW k \in Kinds, Helper(k) PROVE PowerInv'
<1>1. CASE LookOff(k)
  BY <1>1, HolderMoves DEF LookOff, chipState, intents, Goto, Done, Steps, Waiting, Cutting
<1>2. CASE Unload(k)
  BY <1>2, Elsewhere DEF Unload, intents
<1>3. CASE KeepOn(k) \/ Unloaded(k)
  BY <1>3, HolderMoves DEF KeepOn, Unloaded, chipState, intents, Steps, Waiting, Cutting
<1>4. CASE Await(k)
  <2>1. caller[k].at = "await" /\ Goto(k, "reload")
        /\ UNCHANGED <<wifiOff, btOn, rail, chip>>
    BY <1>4 DEF Await, chipState, intents
  <2> QED BY <2>1, HolderMoves DEF Steps, Waiting, Cutting
<1>5. CASE Reload(k)
  <2>1. caller[k].at = "reload" /\ Done(k) /\ UNCHANGED <<wifiOff, btOn, rail, chip>>
    BY <1>5 DEF Reload, intents
  <2> QED BY <2>1, HolderMoves DEF Steps, Waiting, Cutting
<1> QED BY <1>1, <1>2, <1>3, <1>4, <1>5, EnterKeeps, LookOnKeeps, CutKeeps DEF Helper

\* wifibtd's calls, and S36's.
LEMMA StepPowerInv == PowerInv /\ SleepsAlone /\ [Next]_vars => PowerInv'
<1> SUFFICES ASSUME PowerInv, SleepsAlone, [Next]_vars PROVE PowerInv'
  OBVIOUS
<1>1. CASE Enumerate
  BY <1>1 DEF Enumerate, intents, PowerInv, CallerType, OneHolder, CutUnwanted,
     WantedOrComing, ChipPowered
<1>2. CASE Register
  BY <1>2, Elsewhere DEF Register, intents
<1>3. CASE Poll \/ Die \/ Respawn
  BY <1>3, Elsewhere DEF Poll, Die, Respawn, intents, chipState
<1>4. CASE Uevent
  BY <1>4, Called DEF Uevent, Ready, Kinds, intents, chipState
<1>5. CASE Rfkill
  <2>1. UNCHANGED <<wifiOff, btOn, rail, chip>> /\ caller["bt"].at = "idle"
    BY <1>5 DEF Rfkill, Ready, intents, chipState
  <2>2. Call("bt", "want") \/ UNCHANGED caller
    BY <1>5 DEF Rfkill
  <2> QED BY <2>1, <2>2, Called, Elsewhere DEF Kinds
<1>6. CASE Settled
  <2>1. UNCHANGED <<wifiOff, btOn, rail, chip>> /\ caller["bt"].at = "idle"
    BY <1>6 DEF Settled, SleepsAlone, intents, chipState
  <2>2. Call("bt", "release") \/ UNCHANGED caller
    BY <1>6 DEF Settled
  <2> QED BY <2>1, <2>2, Called, Elsewhere DEF Kinds
<1>7. CASE \E k \in Kinds : Helper(k)
  BY <1>7, HelperKeeps
<1>8. CASE StartBt
  BY <1>8, Elsewhere DEF StartBt, intents
<1>9. CASE UnblockBt \/ StopBt
  BY <1>9, Elsewhere DEF UnblockBt, StopBt, SetBlocked, intents
<1>10. CASE \E word \in {"want", "release"} : S36(word)
  BY <1>10, Called DEF S36, Kinds, intents, chipState
<1>11. CASE UNCHANGED vars
  BY <1>11, Elsewhere DEF vars, intents, chipState
<1> QED BY <1>1, <1>2, <1>3, <1>4, <1>5, <1>6, <1>7, <1>8, <1>9, <1>10, <1>11
        DEF Next, Kernel, Daemon

\* Only its own next turn puts wifibtd to sleep, and only its waking starts a
\* wifibt-power then.
LEMMA StepSleepsAlone == CallerType /\ SleepsAlone /\ [Next]_vars => SleepsAlone'
<1> SUFFICES ASSUME CallerType, SleepsAlone, [Next]_vars PROVE SleepsAlone'
  OBVIOUS
<1> USE DEF SleepsAlone
<1>1. CASE Enumerate \/ Register \/ Poll \/ Die \/ Respawn
  BY <1>1 DEF Enumerate, Register, Poll, Die, Respawn, daemon
<1>2. CASE Uevent
  BY <1>2 DEF Uevent, Ready
<1>3. CASE Rfkill
  <2>1. CASE Head(rfkill).soft
    BY <1>3, <2>1 DEF Rfkill, Ready
  <2>2. CASE ~Head(rfkill).soft
    <3>1. settling' = 0
      BY <1>3, <2>2 DEF Rfkill
    <3> QED BY <3>1
  <2> QED BY <2>1, <2>2
<1>4. CASE Settled
  BY <1>4 DEF Settled
<1>5. CASE \E k \in Kinds : Helper(k)
  <2>1. PICK k \in Kinds : Helper(k)
    BY <1>5
  <2>2. UNCHANGED settling /\ caller[k].at # "idle"
        /\ (UNCHANGED caller \/ \E new : caller' = [caller EXCEPT ![k] = new])
    BY <2>1 DEF Helper, Enter, Decide, LookOff, Unload, KeepOn, Unloaded, Cut, LookOn,
       Await, Reload, Goto, Done, daemon
  <2> QED BY <2>2 DEF CallerType, Kinds
<1>6. CASE StartBt \/ UnblockBt \/ StopBt
  BY <1>6 DEF StartBt, UnblockBt, StopBt, SetBlocked, daemon
<1>7. CASE \E word \in {"want", "release"} : S36(word)
  BY <1>7 DEF S36, Call, CallerType, Kinds, daemon
<1>8. CASE UNCHANGED vars
  BY <1>8 DEF vars, daemon
<1> QED BY <1>1, <1>2, <1>3, <1>4, <1>5, <1>6, <1>7, <1>8
        DEF Next, Kernel, Daemon

-----------------------------------------------------------------------------
\* Who is past the lock, what it found, and that a wanted chip is on or about to
\* be, at every step (wifibt-power:33-69).
THEOREM PowerInvariant == Spec => [](PowerInv /\ SleepsAlone)
<1>1. Init => PowerInv /\ SleepsAlone
  BY InitPowerInv DEF Init, SleepsAlone
<1>2. PowerInv /\ SleepsAlone /\ [Next]_vars => (PowerInv /\ SleepsAlone)'
  BY StepPowerInv, StepSleepsAlone DEF PowerInv
<1> QED BY <1>1, <1>2, PTL DEF Spec

\* Nobody leaves the chip cut while anybody wants it, however many calls overlap
\* (wifibt-power:51-69).
THEOREM WantedPowered == Spec => []WantedIsPowered
<1>1. PowerInv => WantedIsPowered
  BY DEF PowerInv, WantedOrComing, WantedIsPowered, LockFree
<1> QED BY <1>1, PowerInvariant, PTL

\* And nobody cuts it under anybody (wifibt-power:39-49, 51-63).
THEOREM CutUnwantedOnly == Spec => CutOnlyWhenOff
<1>1. PowerInv /\ [Next]_vars => [rail /\ ~rail' => wifiOff /\ ~btOn]_vars
  <2> SUFFICES ASSUME PowerInv, Next, rail, ~rail' PROVE wifiOff /\ ~btOn
    OBVIOUS
  <2>1. PICK k \in Kinds : Cut(k)
    BY DEF Next, Kernel, Daemon, Helper, Enumerate, Register, Poll, Uevent, Rfkill,
       Settled, Respawn, Die, StartBt, UnblockBt, StopBt, SetBlocked, S36, Enter, Decide,
       LookOff, Unload, KeepOn, Unloaded, LookOn, Await, Reload, chipState
  <2> QED BY <2>1 DEF Cut, PowerInv, CutUnwanted, Cutting
<1> QED BY <1>1, PowerInvariant, PTL DEF Spec, CutOnlyWhenOff

=============================================================================
