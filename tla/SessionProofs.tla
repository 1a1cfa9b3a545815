---------------------------- MODULE SessionProofs ----------------------------
(***************************************************************************)
(* Proofs about the session, the power key and the shutdown, for any number *)
(* of processes, any HOLD and any LAG below it, any cards and any bounds:   *)
(* the key has one reader, a power off is one that was held for, a repair   *)
(* has its volume to itself, and a shutdown leaves the volumes clean.       *)
(***************************************************************************)
EXTENDS Shutdown, FiniteSetTheorems, SequenceTheorems, TLAPS

-----------------------------------------------------------------------------
\* The power key.

Steps == {"none", "look", "repair", "fsck", "mount", "judge", "displace", "mounted?",
          "stage", "copy", "clear", "ready", "watch", "sleep", "ask", "kill", "exec",
          "frontend"}

Reading(p) == daemons[p].at \in {"forked", "top", "poll"}

DaemonType ==
  [at : {"none", "forked", "top", "poll", "poweroff"}, left : -1 .. HOLD,
   queue : Seq({"down", "up"}), late : 0 .. LAG]

KeyType ==
  /\ key \in [down : BOOLEAN, for : 0 .. HOLD, full : BOOLEAN]
  /\ daemons \in [Pids -> DaemonType]
  /\ pc \in Steps

\* Whoever reads the key is in the pid file, one that has yet to open it only
\* while its session waits, and the hand-over finds none.
ReaderInv ==
  /\ \A p \in Pids : Reading(p) => p = pidfile
  /\ \A p \in Pids : daemons[p].at = "forked" => pc = "sleep"
  /\ pc \in {"exec", "frontend"} => \A p \in Pids : ~Reading(p)

\* What daemon d makes of the key: one that does not read it yet has nothing, the
\* last event it has not read is where the key is, the time that is left to a press
\* is what it has still to be held, at the top of the loop that time runs from when
\* the press was read, and it is over there only when the press was long enough.
Hears(d) == d.at \in {"top", "poll"}
Over(d) == d.at = "top" /\ d.left = 0
Fresh(d) == d.at \in {"none", "forked"} => d.queue = <<>> /\ d.left = -1
Unread(d) == Hears(d) /\ d.queue # <<>> => (key.down <=> Last(d.queue) = "down")
Counts(d) ==
  Hears(d) /\ d.queue = <<>> /\ d.left # -1 /\ ~Over(d) => key.down /\ key.for + d.left >= HOLD
InTime(d) == d.at = "top" /\ d.left > 0 => d.left + d.late = HOLD
Held(d) == Over(d) => key.full
Knows(d) == Fresh(d) /\ Unread(d) /\ Counts(d) /\ InTime(d) /\ Held(d)

HoldInv ==
  /\ key.for = HOLD => key.full
  /\ \A p \in Pids : Knows(daemons[p])

KeyInv == KeyType /\ ReaderInv /\ HoldInv

\* Who reads the key and what is known of it stay, and the session goes on.
LEMMA PcMoves ==
  ASSUME KeyInv, UNCHANGED <<keyVars, pidfile>>, pc' \in Steps,
         \A p \in Pids : daemons[p].at = "forked" => pc' = "sleep",
         pc' \in {"exec", "frontend"} => \A p \in Pids : ~Reading(p)
  PROVE  KeyInv'
<1>1. KeyType'
  BY DEF KeyInv, KeyType, keyVars
<1>2. ReaderInv'
  BY DEF KeyInv, ReaderInv, Reading, keyVars
<1>3. HoldInv'
  BY DEF KeyInv, HoldInv, Knows, Fresh, Unread, Counts, InTime, Held, Over, Hears, keyVars
<1> QED BY <1>1, <1>2, <1>3 DEF KeyInv

\* What is no longer followed: the queues are empty and no time runs.
LEMMA Forgets ==
  ASSUME KeyInv, NEW ds, ds \in [Pids -> DaemonType],
         \A p \in Pids : ds[p] = daemons[p] \/ ds[p] = NoDaemon,
         Unfollowed(ds), pidfile' = pidfile, pc' \in Steps,
         \A p \in Pids : ds[p].at = "forked" => pc' = "sleep",
         pc' \in {"exec", "frontend"} =>
           \A p \in Pids : ds[p].at \notin {"forked", "top", "poll"}
  PROVE  KeyInv'
<1> USE KeyAssumption
<1>1. key' = [down |-> FALSE, for |-> 0, full |-> FALSE]
  BY DEF Unfollowed, NoKey
<1>2. /\ daemons' \in [Pids -> DaemonType]
      /\ \A p \in Pids :
           IF ds[p].at \in {"top", "poll"}
           THEN /\ daemons'[p].at = "poll" /\ daemons'[p].left = -1
                /\ daemons'[p].queue = <<>>
           ELSE daemons'[p] = ds[p]
  <2> DEFINE Polls == [NoDaemon EXCEPT !.at = "poll"]
  <2>1. Polls = [at |-> "poll", left |-> -1, queue |-> <<>>, late |-> 0]
    BY DEF NoDaemon
  <2>2. Polls \in DaemonType
    <3> HIDE DEF Polls
    <3>1. <<>> \in Seq({"down", "up"})
      BY EmptySeq
    <3> QED BY <2>1, <3>1 DEF DaemonType
  <2> HIDE DEF Polls
  <2>3. daemons' = [p \in Pids |-> IF ds[p].at \in {"top", "poll"} THEN Polls ELSE ds[p]]
    BY DEF Unfollowed, Polls
  <2> QED BY <2>1, <2>2, <2>3
<1>3. KeyType'
  BY <1>1, <1>2 DEF KeyType
<1>4. \A p \in Pids : daemons'[p].at \in {"forked", "top", "poll"}
                       <=> ds[p].at \in {"forked", "top", "poll"}
  BY <1>2
<1>5. \A p \in Pids : ds[p].at \in {"forked", "top", "poll"} => Reading(p)
  BY DEF NoDaemon, Reading
<1>6. \A p \in Pids : daemons'[p].at = "forked" <=> ds[p].at = "forked"
  BY <1>2
<1>7. ReaderInv'
  BY <1>4, <1>5, <1>6 DEF KeyInv, ReaderInv, Reading
<1>8. ASSUME NEW p \in Pids
      PROVE  Knows(daemons[p])'
  <2>1. CASE ds[p].at \in {"top", "poll"}
    BY <1>2, <2>1 DEF Knows, Fresh, Unread, Counts, InTime, Held, Over, Hears
  <2>2. CASE ds[p].at \notin {"top", "poll"}
    <3>1. daemons'[p] = ds[p]
      BY <1>2, <2>2
    <3>2. ds[p].at \in {"none", "forked"} => ds[p].queue = <<>> /\ ds[p].left = -1
      BY DEF NoDaemon, KeyInv, HoldInv, Knows, Fresh
    <3> QED BY <2>2, <3>1, <3>2 DEF Knows, Fresh, Unread, Counts, InTime, Held, Over, Hears
  <2> QED BY <2>1, <2>2
<1>9. HoldInv'
  BY <1>1, <1>8 DEF HoldInv
<1> QED BY <1>3, <1>7, <1>9 DEF KeyInv

LEMMA KeyInit == Init => KeyInv
<1> SUFFICES ASSUME Init PROVE KeyInv
  OBVIOUS
<1> USE KeyAssumption DEF Init
<1>1. KeyType
  BY DEF KeyType, DaemonType, NoKey, NoDaemon, Steps
<1>2. ReaderInv
  BY DEF ReaderInv, Reading, NoDaemon
<1>3. HoldInv
  BY DEF HoldInv, Knows, Fresh, Unread, Counts, InTime, Held, Over, Hears, NoKey, NoDaemon
<1> QED BY <1>1, <1>2, <1>3 DEF KeyInv

\* mount-frontend goes on, or returns to its caller.
LEMMA MountFrontendMoves ==
  ASSUME MountFrontend
  PROVE  /\ UNCHANGED <<keyVars, pidfile, lazy, swap, procs>>
         /\ pc \in {"look", "repair", "fsck", "mount", "judge"}
         /\ pc' \in {"displace", "mounted?", "repair", "fsck", "mount", "judge"}
<1> USE DEF MountFrontend, Return, Goto, Try, NextDevice, mountVars
<1>1. CASE Look
  BY <1>1 DEF Look
<1>2. CASE Repair
  BY <1>2 DEF Repair
<1>3. CASE Fsck
  BY <1>3 DEF Fsck
<1>4. CASE MountCard
  BY <1>4 DEF MountCard
<1>5. CASE Judge
  BY <1>5 DEF Judge
<1> QED BY <1>1, <1>2, <1>3, <1>4, <1>5

LEMMA SessionKey == KeyInv /\ Session => KeyInv'
<1> SUFFICES ASSUME KeyInv, Session PROVE KeyInv'
  OBVIOUS
<1>a. \A p \in Pids : daemons[p].at = "forked" => pc = "sleep"
  BY DEF KeyInv, ReaderInv
<1>1. CASE MountFrontend
  <2>1. pc' \in Steps /\ pc' \notin {"exec", "frontend"} /\ pc # "sleep"
    BY <1>1, MountFrontendMoves DEF Steps
  <2> QED BY <1>1, <1>a, <2>1, MountFrontendMoves, PcMoves
<1>2. CASE \/ Displace \/ CheckMounted \/ Stage \/ Copy \/ Clear \/ Ready
  <2>1. /\ UNCHANGED <<keyVars, pidfile>> /\ pc # "sleep"
        /\ pc' \in Steps /\ pc' \notin {"exec", "frontend"}
    BY <1>2 DEF Displace, CheckMounted, Stage, Copy, Clear, Ready, Call, Goto, Steps
  <2> QED BY <1>a, <2>1, PcMoves
<1>3. CASE WatchPowerKey
  <2>1. CASE PwrkeydRunning
    <3>1. UNCHANGED <<keyVars, pidfile>> /\ pc' = "sleep"
      BY <1>3, <2>1 DEF WatchPowerKey, keyVars
    <3> QED BY <3>1, PcMoves DEF Steps
  <2>2. CASE ~PwrkeydRunning
    <3>1. PICK q \in Pids :
            /\ daemons[q].at = "none"
            /\ daemons' = [daemons EXCEPT ![q].at = "forked"]
            /\ pidfile' = q
      BY <1>3, <2>2 DEF WatchPowerKey
    <3>2. UNCHANGED key /\ pc = "watch" /\ pc' = "sleep"
      BY <1>3 DEF WatchPowerKey
    <3>3. \A p \in Pids : ~Reading(p)
      BY <2>2, <3>2, PidsAssumption
         DEF KeyInv, ReaderInv, Reading, PwrkeydRunning, Watching
    <3>4. /\ daemons \in [Pids -> DaemonType]
          /\ daemons' = [daemons EXCEPT ![q] = [daemons[q] EXCEPT !.at = "forked"]]
      BY <3>1 DEF KeyInv, KeyType
    <3> DEFINE d == [daemons[q] EXCEPT !.at = "forked"]
    <3>5. /\ d \in DaemonType /\ d.at = "forked"
          /\ d.queue = daemons[q].queue /\ d.left = daemons[q].left
      BY <3>4 DEF DaemonType
    <3> HIDE DEF d
    <3>6. /\ daemons' \in [Pids -> DaemonType] /\ daemons'[q] = d
          /\ \A p \in Pids : p # q => daemons'[p] = daemons[p]
      BY <3>4, <3>5 DEF d
    <3>7. KeyType'
      BY <3>2, <3>6 DEF KeyInv, KeyType, Steps
    <3>8. ReaderInv'
      BY <3>1, <3>2, <3>3, <3>5, <3>6 DEF ReaderInv, Reading
    <3>9. d.queue = <<>> /\ d.left = -1
      BY <3>1, <3>5 DEF KeyInv, HoldInv, Knows, Fresh
    <3>10. HoldInv'
      BY <3>2, <3>5, <3>6, <3>9
         DEF KeyInv, HoldInv, Knows, Fresh, Unread, Counts, InTime, Held, Over, Hears
    <3> QED BY <3>7, <3>8, <3>10 DEF KeyInv
  <2> QED BY <2>1, <2>2
<1>4. CASE Respawn
  <2>1. /\ UNCHANGED <<keyVars, pidfile>> /\ pc' = "displace"
        /\ \A p \in Pids : daemons[p].at # "forked"
    BY <1>4 DEF Respawn, Goto
  <2> QED BY <2>1, PcMoves DEF Steps
<1>5. CASE AskPwrkeyd
  <2>1. UNCHANGED <<keyVars, pidfile>> /\ pc = "ask" /\ pc' \in {"kill", "exec"}
    BY <1>5 DEF AskPwrkeyd, Goto
  <2>2. pc' = "exec" => ~PwrkeydRunning
    BY <1>5 DEF AskPwrkeyd, Goto
  <2>3. pc' = "exec" => \A p \in Pids : ~Reading(p)
    BY <2>1, <2>2, PidsAssumption
       DEF KeyInv, ReaderInv, Reading, PwrkeydRunning, Watching
  <2> QED BY <1>a, <2>1, <2>3, PcMoves DEF Steps
<1>6. CASE KillPwrkeyd
  <2> DEFINE ds == [daemons EXCEPT ![pidfile] = NoDaemon]
  <2>1. Unfollowed(ds) /\ pidfile' = pidfile /\ pc = "kill" /\ pc' = "exec"
    BY <1>6 DEF KillPwrkeyd, Goto
  <2>2. ds \in [Pids -> DaemonType]
    <3>1. NoDaemon \in DaemonType
      BY KeyAssumption, EmptySeq DEF DaemonType, NoDaemon
    <3> QED BY <3>1 DEF KeyInv, KeyType
  <2>3. \A p \in Pids : ds[p] = IF p = pidfile THEN NoDaemon ELSE daemons[p]
    BY DEF KeyInv, KeyType
  <2>4. \A p \in Pids : ds[p].at \notin {"forked", "top", "poll"}
    BY <2>3 DEF NoDaemon, KeyInv, ReaderInv, Reading
  <2> HIDE DEF ds
  <2> QED BY <2>1, <2>2, <2>3, <2>4, Forgets DEF Steps
<1>7. CASE Exec
  <2>1. UNCHANGED <<keyVars, pidfile>> /\ pc = "exec" /\ pc' = "frontend"
    BY <1>7 DEF Exec, Goto
  <2>2. \A p \in Pids : ~Reading(p)
    BY <2>1 DEF KeyInv, ReaderInv
  <2> QED BY <1>a, <2>1, <2>2, PcMoves DEF Steps
<1> QED BY <1>1, <1>2, <1>3, <1>4, <1>5, <1>6, <1>7 DEF Session

LEMMA DetachesKey ==
  FrontendMounts \/ FrontendLeaves \/ FrontendDetaches \/ HelperExits \/ SwapCard
    => UNCHANGED <<pc, keyVars, pidfile>>
BY DEF FrontendMounts, FrontendLeaves, FrontendDetaches, HelperExits, SwapCard, sessionVars

LEMMA FrontendKey == KeyInv /\ (Frontend \/ SwapCard) => KeyInv'
<1> SUFFICES ASSUME KeyInv, Frontend \/ SwapCard PROVE KeyInv'
  OBVIOUS
<1>1. CASE FrontendMounts \/ FrontendLeaves \/ FrontendDetaches \/ HelperExits \/ SwapCard
  <2>1. UNCHANGED <<pc, keyVars, pidfile>>
    BY <1>1, DetachesKey
  <2> QED BY <2>1, PcMoves DEF KeyInv, KeyType, ReaderInv
<1>2. CASE FrontendExits
  <2>1. UNCHANGED <<keyVars, pidfile>> /\ pc = "frontend" /\ pc' = "displace"
    BY <1>2 DEF FrontendExits, Goto
  <2> QED BY <2>1, PcMoves DEF KeyInv, ReaderInv, Steps
<1>3. CASE FrontendPowersOff
  <2>1. UNCHANGED <<pc, pidfile>> /\ Unfollowed(daemons) /\ daemons \in [Pids -> DaemonType]
    BY <1>3 DEF FrontendPowersOff, PowerOff, sessionVars, KeyInv, KeyType
  <2> QED BY <2>1, Forgets DEF KeyInv, KeyType, ReaderInv, Reading
<1> QED BY <1>1, <1>2, <1>3 DEF Frontend

LEMMA RcKKey == KeyInv /\ RcK => KeyInv'
<1> SUFFICES ASSUME KeyInv, RcK PROVE KeyInv'
  OBVIOUS
<1>1. CASE Term
  <2> DEFINE ds == [p \in Pids |-> NoDaemon]
  <2>1. Unfollowed(ds) /\ pidfile' = pidfile /\ pc' = "none"
    BY <1>1 DEF Term
  <2>2. NoDaemon \in DaemonType /\ NoDaemon.at = "none"
    BY KeyAssumption, EmptySeq DEF DaemonType, NoDaemon
  <2> QED BY <2>1, <2>2, Forgets DEF Steps
<1>2. CASE \/ Detach \/ Kill \/ SwapOff \/ Unmount \/ Halt
  <2>1. UNCHANGED <<pc, key, daemons, pidfile>>
    BY <1>2 DEF Detach, Kill, SwapOff, Unmount, Halt, keyVars, sessionVars
  <2>2. KeyType' /\ ReaderInv' /\ HoldInv'
    BY <2>1 DEF KeyInv, KeyType, ReaderInv, Reading, HoldInv, Knows,
                Fresh, Unread, Counts, InTime, Held, Over, Hears
  <2> QED BY <2>2 DEF KeyInv
<1> QED BY <1>1, <1>2 DEF RcK

LEMMA StartKey == Boot \/ Cut => KeyInv'
<1> SUFFICES ASSUME Boot \/ Cut PROVE KeyInv'
  OBVIOUS
<1> USE KeyAssumption
<1>1. /\ key' = NoKey /\ daemons' = [p \in Pids |-> NoDaemon]
      /\ pidfile' = 0 /\ pc' = "look"
  BY DEF Boot, Cut, Start, Call
<1>2. NoDaemon \in DaemonType /\ NoDaemon.at = "none"
  BY EmptySeq DEF DaemonType, NoDaemon
<1>3. KeyType'
  BY <1>1, <1>2 DEF KeyType, NoKey, Steps
<1>4. ReaderInv'
  BY <1>1, <1>2 DEF ReaderInv, Reading
<1>5. HoldInv'
  BY <1>1 DEF HoldInv, Knows, Fresh, Unread, Counts, InTime, Held, Over, Hears, NoKey, NoDaemon
<1> QED BY <1>3, <1>4, <1>5 DEF KeyInv

\* An event is the last of the queue of every daemon that watches.
LEMMA Queued ==
  ASSUME KeyType, NEW v \in {"down", "up"}, Event(v)
  PROVE  /\ daemons' \in [Pids -> DaemonType]
         /\ \A p \in Pids :
              /\ daemons'[p].at = daemons[p].at /\ daemons'[p].left = daemons[p].left
              /\ daemons'[p].late = daemons[p].late
              /\ Watching(p) => daemons'[p].queue # <<>> /\ Last(daemons'[p].queue) = v
              /\ ~Watching(p) => daemons'[p] = daemons[p]
<1> DEFINE Got(d) == [d EXCEPT !.queue = Append(@, v)]
<1>1. ASSUME NEW d \in DaemonType
      PROVE  /\ Got(d) \in DaemonType /\ Got(d).at = d.at /\ Got(d).left = d.left
             /\ Got(d).late = d.late /\ Got(d).queue # <<>> /\ Last(Got(d).queue) = v
  <2>1. d.queue \in Seq({"down", "up"})
    BY DEF DaemonType
  <2>2. /\ Append(d.queue, v) \in Seq({"down", "up"}) /\ Append(d.queue, v) # <<>>
        /\ Last(Append(d.queue, v)) = v
    BY <2>1, AppendProperties DEF Last
  <2> QED BY <2>2 DEF DaemonType
<1> HIDE DEF Got
<1>2. daemons' = [p \in Pids |-> IF Watching(p) THEN Got(daemons[p]) ELSE daemons[p]]
  BY DEF Event, Got
<1>3. daemons \in [Pids -> DaemonType]
  BY DEF KeyType
<1> QED BY <1>1, <1>2, <1>3

LEMMA EventKey == KeyInv /\ (Press \/ Release) /\ OnlyKey => KeyInv'
<1> SUFFICES ASSUME KeyInv, Press \/ Release, OnlyKey PROVE KeyInv'
  OBVIOUS
<1> USE KeyAssumption
<1>a. UNCHANGED <<pc, pidfile>>
  BY DEF OnlyKey, sessionVars
<1>b. KeyType /\ key \in [down : BOOLEAN, for : 0 .. HOLD, full : BOOLEAN]
  BY DEF KeyInv, KeyType
<1>1. PICK v \in {"down", "up"} : Event(v) /\ (key'.down <=> v = "down")
  BY <1>b DEF Press, Release
<1>2. key' \in [down : BOOLEAN, for : 0 .. HOLD, full : BOOLEAN]
  <2>1. CASE Press
    <3>1. \E full \in BOOLEAN : key' = [down |-> TRUE, for |-> 0, full |-> full]
      BY <1>b, <2>1 DEF Press
    <3> QED BY <3>1
  <2>2. CASE Release
    <3>1. key' = [key EXCEPT !.down = FALSE]
      BY <2>2 DEF Release
    <3> QED BY <1>b, <3>1
  <2> QED BY <2>1, <2>2
<1>3. KeyType'
  BY <1>a, <1>b, <1>1, <1>2, Queued DEF KeyType
<1>4. ReaderInv'
  BY <1>a, <1>b, <1>1, Queued DEF KeyInv, ReaderInv, Reading
<1>5. \A p \in Pids : ~Idle(p) /\ key.full => key'.full
  BY <1>b DEF Press, Release
<1>6. key'.for = HOLD => key'.full
  BY <1>b DEF Press, Release, KeyInv, HoldInv
<1>7. ASSUME NEW p \in Pids
      PROVE  Knows(daemons[p])'
  <2>1. /\ daemons'[p].at = daemons[p].at /\ daemons'[p].left = daemons[p].left
        /\ daemons'[p].late = daemons[p].late
        /\ Watching(p) => daemons'[p].queue # <<>> /\ (Last(daemons'[p].queue) = "down" <=> key'.down)
        /\ ~Watching(p) => daemons'[p] = daemons[p]
    BY <1>b, <1>1, Queued
  <2>2. Fresh(daemons[p]) /\ InTime(daemons[p]) /\ Held(daemons[p])
    BY DEF KeyInv, HoldInv, Knows
  <2>3. Held(daemons[p])'
    <3>1. CASE Over(daemons[p])
      <4>1. ~Idle(p) /\ key.full
        BY <2>2, <3>1 DEF Held, Over, Idle
      <4> QED BY <1>5, <4>1 DEF Held
    <3>2. CASE ~Over(daemons[p])
      BY <2>1, <3>2 DEF Held, Over
    <3> QED BY <3>1, <3>2
  <2> QED BY <2>1, <2>2, <2>3
          DEF Knows, Fresh, Unread, Counts, InTime, Hears, Watching
<1> QED BY <1>3, <1>4, <1>6, <1>7 DEF KeyInv, HoldInv

LEMMA TickKey == KeyInv /\ Tick /\ OnlyKey => KeyInv'
<1> SUFFICES ASSUME KeyInv, Tick, OnlyKey PROVE KeyInv'
  OBVIOUS
<1> USE KeyAssumption
<1>a. UNCHANGED <<pc, pidfile>>
  BY DEF OnlyKey, sessionVars
<1>b. /\ key \in [down : BOOLEAN, for : 0 .. HOLD, full : BOOLEAN]
      /\ daemons \in [Pids -> DaemonType]
  BY DEF KeyInv, KeyType
<1>1. /\ key' \in [down : BOOLEAN, for : 0 .. HOLD, full : BOOLEAN]
      /\ key'.down = key.down
      /\ key'.for = IF key.down /\ key.for < HOLD THEN key.for + 1 ELSE key.for
      /\ key'.full <=> key.full \/ (key.down /\ key'.for = HOLD)
  <2> DEFINE held == IF key.down /\ key.for < HOLD THEN key.for + 1 ELSE key.for
             full == key.full \/ (key.down /\ held = HOLD)
  <2>1. key' = [key EXCEPT !.for = held, !.full = full]
    BY DEF Tick
  <2>2. held \in 0 .. HOLD /\ full \in BOOLEAN
    BY <1>b
  <2>3. /\ key' \in [down : BOOLEAN, for : 0 .. HOLD, full : BOOLEAN]
        /\ key'.down = key.down /\ key'.for = held /\ key'.full = full
    <3> HIDE DEF held, full
    <3> QED BY <1>b, <2>1, <2>2
  <2> QED BY <2>3
<1>2. daemons' \in [Pids -> DaemonType]
      /\ \A p \in Pids :
           /\ daemons'[p].at = daemons[p].at /\ daemons'[p].queue = daemons[p].queue
           /\ daemons'[p].left = IF daemons[p].left > 0 THEN daemons[p].left - 1
                                 ELSE daemons[p].left
           /\ daemons[p].at = "top" => /\ daemons'[p].late = daemons[p].late + 1
                                       /\ daemons[p].late < LAG
  <2> DEFINE Wait(d) == [d EXCEPT !.left = IF @ > 0 THEN @ - 1 ELSE @,
                                  !.late = IF Runnable(d) THEN @ + 1 ELSE 0]
  <2>1. ASSUME NEW d \in DaemonType, Runnable(d) => d.late < LAG
        PROVE  /\ Wait(d) \in DaemonType
               /\ Wait(d).at = d.at /\ Wait(d).queue = d.queue
               /\ Wait(d).left = IF d.left > 0 THEN d.left - 1 ELSE d.left
               /\ d.at = "top" => Wait(d).late = d.late + 1 /\ d.late < LAG
    <3> DEFINE n == IF d.left > 0 THEN d.left - 1 ELSE d.left
               late == IF Runnable(d) THEN d.late + 1 ELSE 0
               e == Wait(d)
    <3>1. d.left \in -1 .. HOLD /\ d.late \in 0 .. LAG
      BY DEF DaemonType
    <3>2. n \in -1 .. HOLD /\ late \in 0 .. LAG
      BY <2>1, <3>1
    <3>3. e = [d EXCEPT !.left = n, !.late = late]
      OBVIOUS
    <3>4. d.at = "top" => Runnable(d)
      BY DEF Runnable
    <3>5. d.at = "top" => late = d.late + 1
      BY <3>4
    <3> HIDE DEF n, late, e
    <3>6. /\ e \in DaemonType /\ e.left = n /\ e.late = late
          /\ e.at = d.at /\ e.queue = d.queue
      BY <3>2, <3>3 DEF DaemonType
    <3>7. n = IF d.left > 0 THEN d.left - 1 ELSE d.left
      BY DEF n
    <3>8. e = Wait(d)
      BY DEF e
    <3> HIDE DEF Wait
    <3> QED BY <2>1, <3>4, <3>5, <3>6, <3>7, <3>8
  <2>2. /\ daemons' = [p \in Pids |-> Wait(daemons[p])]
        /\ \A p \in Pids : Runnable(daemons[p]) => daemons[p].late < LAG
    BY DEF Tick
  <2> HIDE DEF Wait
  <2> QED BY <1>b, <2>1, <2>2
<1>3. KeyType'
  BY <1>a, <1>1, <1>2 DEF KeyInv, KeyType
<1>4. ReaderInv'
  BY <1>a, <1>2 DEF KeyInv, ReaderInv, Reading
<1>5. key'.for = HOLD => key'.full
  BY <1>b, <1>1 DEF KeyInv, HoldInv
<1>6. ASSUME NEW p \in Pids
      PROVE  Knows(daemons[p])'
  <2>1. /\ daemons[p].left \in -1 .. HOLD /\ daemons[p].late \in 0 .. LAG
        /\ key.for \in 0 .. HOLD
    BY <1>b DEF DaemonType
  <2>2. Knows(daemons[p])
    BY DEF KeyInv, HoldInv
  <2>3. Fresh(daemons[p])' /\ Unread(daemons[p])'
    BY <1>1, <1>2, <2>2 DEF Knows, Fresh, Unread, Hears
  <2>4. InTime(daemons[p])'
    BY <1>2, <2>1, <2>2 DEF Knows, InTime
  <2>5. Held(daemons[p])'
    <3>1. CASE Over(daemons[p])
      BY <1>1, <2>2, <3>1 DEF Knows, Held
    <3>2. CASE daemons[p].at = "top" /\ daemons[p].left > 0
      BY <1>2, <2>1, <2>2, <3>2 DEF Knows, InTime, Held, Over
    <3> QED BY <1>2, <2>1, <3>1, <3>2 DEF Held, Over
  <2>6. Counts(daemons[p])'
    <3>1. CASE ~Over(daemons[p])
      <4>1. Hears(daemons[p]) /\ daemons[p].queue = <<>> /\ daemons[p].left # -1
              => key.down /\ key.for + daemons[p].left >= HOLD
        BY <2>2, <3>1 DEF Knows, Counts
      <4> QED BY <1>1, <1>2, <2>1, <4>1 DEF Counts, Hears
    <3>2. CASE Over(daemons[p])
      BY <1>2, <3>2 DEF Counts, Over
    <3> QED BY <3>1, <3>2
  <2> QED BY <2>3, <2>4, <2>5, <2>6 DEF Knows
<1> QED BY <1>3, <1>4, <1>5, <1>6 DEF KeyInv, HoldInv

LEMMA DaemonKey ==
  ASSUME KeyInv, NEW p \in Pids, DaemonStep(p)
  PROVE  KeyInv'
<1> USE KeyAssumption
<1>a. UNCHANGED <<pc, pidfile>>
  BY DEF DaemonStep, OnlyKey, sessionVars
<1>b. /\ key \in [down : BOOLEAN, for : 0 .. HOLD, full : BOOLEAN]
      /\ daemons \in [Pids -> DaemonType] /\ daemons[p] \in DaemonType
  BY DEF KeyInv, KeyType
<1>c. Knows(daemons[p])
  BY DEF KeyInv, HoldInv
<1>d. daemons[p] \in DaemonType /\ 0 \in 0 .. LAG
  BY <1>b
\* A step that only moves the daemon, to d.
<1>1. ASSUME NEW d \in DaemonType, daemons' = [daemons EXCEPT ![p] = d], UNCHANGED key,
             daemons[p].at \in {"forked", "top", "poll"},
             d.at \in {"top", "poll", "poweroff"}, Knows(d)
      PROVE  KeyInv'
  <2>1. /\ daemons' \in [Pids -> DaemonType] /\ daemons'[p] = d
        /\ \A q \in Pids : q # p => daemons'[q] = daemons[q]
    BY <1>b, <1>1
  <2>2. KeyType'
    BY <1>a, <1>1, <2>1 DEF KeyInv, KeyType
  <2>3. ReaderInv'
    BY <1>a, <1>1, <2>1 DEF KeyInv, ReaderInv, Reading
  <2>4. ASSUME NEW q \in Pids PROVE Knows(daemons[q])'
    <3>1. Knows(daemons'[q])
      BY <1>1, <2>1 DEF KeyInv, HoldInv
    <3> QED BY <1>1, <3>1 DEF Knows, Fresh, Unread, Counts, InTime, Held, Over, Hears
  <2>5. HoldInv'
    BY <1>1, <2>4 DEF KeyInv, HoldInv
  <2> QED BY <2>2, <2>3, <2>5 DEF KeyInv
<1>2. CASE OpenKey(p)
  <2> DEFINE d == [NoDaemon EXCEPT !.at = "top"]
  <2>1. d = [at |-> "top", left |-> -1, queue |-> <<>>, late |-> 0]
    BY DEF NoDaemon
  <2>2. daemons' = [daemons EXCEPT ![p] = d] /\ UNCHANGED key /\ daemons[p].at = "forked"
    BY <1>2 DEF OpenKey
  <2> HIDE DEF d
  <2>3. d \in DaemonType
    BY <2>1, EmptySeq DEF DaemonType
  <2>4. Knows(d)
    BY <2>1 DEF Knows, Fresh, Unread, Counts, InTime, Held, Over, Hears
  <2> QED BY <1>1, <2>1, <2>2, <2>3, <2>4
<1>3. CASE CheckHold(p)
  <2> DEFINE at == IF daemons[p].left = 0 THEN "poweroff" ELSE "poll"
             d == [daemons[p] EXCEPT !.at = at, !.late = 0]
  <2>1. /\ daemons' = [daemons EXCEPT ![p] = d] /\ UNCHANGED key
        /\ daemons[p].at = "top"
    BY <1>b, <1>3 DEF CheckHold
  <2>2. at = IF daemons[p].left = 0 THEN "poweroff" ELSE "poll"
    OBVIOUS
  <2>3. d = [daemons[p] EXCEPT !.at = at, !.late = 0]
    OBVIOUS
  <2> HIDE DEF at, d
  <2>4. /\ d \in DaemonType /\ d.left = daemons[p].left /\ d.queue = daemons[p].queue
        /\ d.at = at
    BY <1>d, <2>2, <2>3 DEF DaemonType
  <2>5. Knows(d)
    BY <1>c, <2>1, <2>2, <2>4 DEF Knows, Fresh, Unread, Counts, InTime, Held, Over, Hears
  <2> QED BY <1>1, <2>1, <2>2, <2>4, <2>5
<1>4. CASE Poll(p)
  <2>1. UNCHANGED key /\ daemons[p].at = "poll" /\ Runnable(daemons[p])
    BY <1>4 DEF Poll
  <2>2. CASE daemons[p].queue # <<>>
    <3> DEFINE n == After(daemons[p])
               d == [at |-> "top", left |-> n, queue |-> <<>>, late |-> 0]
    <3>1. daemons' = [daemons EXCEPT ![p] = d]
      BY <1>4, <2>2 DEF Poll
    <3>2. n = IF key.down THEN HOLD ELSE -1
      BY <1>c, <2>1, <2>2 DEF After, Knows, Unread, Hears
    <3>3. n \in -1 .. HOLD /\ key.for \in 0 .. HOLD
      BY <1>b, <3>2
    <3>4. d = [at |-> "top", left |-> n, queue |-> <<>>, late |-> 0]
      OBVIOUS
    <3> HIDE DEF n, d
    <3>5. d \in DaemonType
      BY <3>3, <3>4, EmptySeq DEF DaemonType
    <3>6. Knows(d)
      BY <3>2, <3>3, <3>4 DEF Knows, Fresh, Unread, Counts, InTime, Held, Over, Hears
    <3> QED BY <1>1, <2>1, <3>1, <3>4, <3>5, <3>6
  <2>3. CASE daemons[p].queue = <<>>
    <3> DEFINE d == [daemons[p] EXCEPT !.at = "top", !.late = 0]
    <3>1. daemons' = [daemons EXCEPT ![p] = d]
      BY <1>4, <2>3 DEF Poll
    <3>2. d = [daemons[p] EXCEPT !.at = "top", !.late = 0]
      OBVIOUS
    <3> HIDE DEF d
    <3>3. daemons[p].left = 0
      BY <2>1, <2>3 DEF Runnable
    <3>4. /\ d \in DaemonType /\ d.at = "top" /\ d.queue = <<>> /\ d.late = 0 /\ d.left = 0
      BY <1>d, <2>3, <3>2, <3>3 DEF DaemonType
    <3>5. key.full
      <4>1. key.down /\ key.for + daemons[p].left >= HOLD
        BY <1>c, <2>1, <2>3, <3>3 DEF Knows, Counts, Hears, Over
      <4>2. key.for = HOLD
        BY <1>b, <3>3, <4>1
      <4> QED BY <4>2 DEF KeyInv, HoldInv
    <3>6. Knows(d)
      BY <3>4, <3>5 DEF Knows, Fresh, Unread, Counts, InTime, Held, Over, Hears
    <3> QED BY <1>1, <2>1, <3>1, <3>4, <3>6
  <2> QED BY <2>2, <2>3
<1>5. CASE PowerOffHeld(p)
  <2> DEFINE ds == [daemons EXCEPT ![p] = NoDaemon]
  <2>1. Unfollowed(ds) /\ daemons[p].at = "poweroff"
    BY <1>5 DEF PowerOffHeld, PowerOff
  <2>2. NoDaemon \in DaemonType
    BY EmptySeq DEF DaemonType, NoDaemon
  <2>3. /\ ds \in [Pids -> DaemonType] /\ ds[p] = NoDaemon
        /\ \A q \in Pids : q # p => ds[q] = daemons[q]
    BY <1>b, <2>2
  <2> HIDE DEF ds
  <2> QED BY <1>a, <2>1, <2>3, Forgets DEF KeyInv, KeyType, ReaderInv, Reading, NoDaemon
<1> QED BY <1>2, <1>3, <1>4, <1>5 DEF DaemonStep, Daemon

LEMMA KeyStep == KeyInv /\ [Next]_vars => KeyInv'
<1> SUFFICES ASSUME KeyInv, [Next]_vars PROVE KeyInv'
  OBVIOUS
<1>1. CASE SessionStep
  BY <1>1, SessionKey DEF SessionStep
<1>2. CASE (Frontend \/ SwapCard) /\ OnlyUp
  BY <1>2, FrontendKey
<1>3. CASE (Press \/ Release \/ Tick) /\ OnlyKey
  BY <1>3, EventKey, TickKey
<1>4. CASE \E p \in Pids : DaemonStep(p)
  BY <1>4, DaemonKey
<1>5. CASE RcK
  BY <1>5, RcKKey
<1>6. CASE Boot \/ Cut
  BY <1>6, StartKey
<1>7. CASE UNCHANGED vars
  <2>1. UNCHANGED <<keyVars, pidfile, pc>>
    BY <1>7 DEF vars, sessionVars
  <2> QED BY <2>1, PcMoves DEF KeyInv, KeyType, ReaderInv
<1> QED BY <1>1, <1>2, <1>3, <1>4, <1>5, <1>6, <1>7 DEF Next

\* Who reads the power key and what each daemon makes of it, in every state.
THEOREM KeyInvariant == Spec => []KeyInv
<1>1. Init => KeyInv
  BY KeyInit
<1>2. KeyInv /\ [Next]_vars => KeyInv'
  BY KeyStep
<1> QED BY <1>1, <1>2, PTL DEF Spec

\* The power key has one reader, for any number of processes: the pid file names
\* every daemon that is left, and the hand-over leaves none.
THEOREM OneReader == Spec => []KeyHasOneReader
<1>1. ASSUME KeyInv PROVE KeyHasOneReader
  <2> DEFINE readers == {p \in Pids : daemons[p].at \in {"forked", "top", "poll"}}
  <2>1. CASE pc = "frontend"
    BY <1>1, <2>1 DEF KeyInv, ReaderInv, Reading, KeyHasOneReader
  <2>2. CASE pc # "frontend"
    <3>1. readers = {} \/ readers = {pidfile}
      BY <1>1 DEF KeyInv, ReaderInv, Reading
    <3>2. Cardinality(readers) <= 1
      BY <3>1, FS_EmptySet, FS_Singleton
    <3> QED BY <2>2, <3>2 DEF KeyHasOneReader
  <2> QED BY <2>1, <2>2
<1> QED BY <1>1, KeyInvariant, PTL

\* What is forgotten of the key turns no daemon to a power off.
LEMMA ForgetsNotOff ==
  ASSUME NEW ds, Unfollowed(ds), NEW p \in Pids, daemons'[p].at = "poweroff"
  PROVE  ds[p].at = "poweroff"
BY DEF Unfollowed, NoDaemon

\* Only the end of a hold turns a daemon to a power off.
LEMMA OffIsHeld ==
  ASSUME KeyInv, [Next]_vars, NEW p \in Pids,
         daemons[p].at # "poweroff", daemons'[p].at = "poweroff"
  PROVE  Over(daemons[p])
<1>b. KeyType /\ daemons \in [Pids -> DaemonType]
  BY DEF KeyInv, KeyType
<1>0. daemons' # daemons
  OBVIOUS
<1>1. CASE SessionStep
  <2>1. CASE MountFrontend
    BY <1>0, <2>1, MountFrontendMoves DEF keyVars
  <2>2. CASE \/ Displace \/ CheckMounted \/ Stage \/ Copy \/ Clear \/ Ready
            \/ Respawn \/ AskPwrkeyd \/ Exec
    BY <1>0, <2>2
       DEF Displace, CheckMounted, Stage, Copy, Clear, Ready, Respawn, AskPwrkeyd, Exec, keyVars
  <2>3. CASE WatchPowerKey
    <3>1. PICK q \in Pids : daemons' = [daemons EXCEPT ![q].at = "forked"]
      BY <1>0, <2>3 DEF WatchPowerKey
    <3> QED BY <1>b, <3>1 DEF DaemonType
  <2>4. CASE KillPwrkeyd
    <3>1. [daemons EXCEPT ![pidfile] = NoDaemon][p].at = "poweroff"
      BY <2>4, ForgetsNotOff DEF KillPwrkeyd
    <3> QED BY <1>b, <3>1 DEF NoDaemon
  <2> QED BY <1>1, <2>1, <2>2, <2>3, <2>4 DEF SessionStep, Session
<1>2. CASE (Frontend \/ SwapCard) /\ OnlyUp
  <2>1. CASE FrontendMounts \/ FrontendLeaves \/ FrontendDetaches \/ HelperExits \/ SwapCard
    BY <1>0, <2>1, DetachesKey DEF keyVars
  <2>2. CASE FrontendExits
    BY <1>0, <2>2 DEF FrontendExits, keyVars
  <2>3. CASE FrontendPowersOff
    BY <2>3, ForgetsNotOff DEF FrontendPowersOff, PowerOff
  <2> QED BY <1>2, <2>1, <2>2, <2>3 DEF Frontend
<1>3. CASE (Press \/ Release) /\ OnlyKey
  <2>1. PICK v \in {"down", "up"} : Event(v)
    BY <1>3 DEF Press, Release
  <2> QED BY <1>b, <2>1, Queued
<1>4. CASE Tick /\ OnlyKey
  BY <1>b, <1>4 DEF Tick, DaemonType
<1>5. ASSUME NEW q \in Pids, DaemonStep(q) PROVE Over(daemons[p])
  <2>1. CASE OpenKey(q)
    BY <1>b, <2>1 DEF OpenKey, NoDaemon
  <2>2. CASE CheckHold(q)
    <3>1. q = p
      BY <1>b, <2>2 DEF CheckHold
    <3> QED BY <1>b, <2>2, <3>1 DEF CheckHold, Over, DaemonType
  <2>3. CASE Poll(q)
    BY <1>b, <2>3 DEF Poll, DaemonType
  <2>4. CASE PowerOffHeld(q)
    <3>1. [daemons EXCEPT ![q] = NoDaemon][p].at = "poweroff"
      BY <2>4, ForgetsNotOff DEF PowerOffHeld, PowerOff
    <3> QED BY <1>b, <3>1 DEF NoDaemon
  <2> QED BY <1>5, <2>1, <2>2, <2>3, <2>4 DEF DaemonStep, Daemon
<1>6. CASE RcK
  <2>1. CASE Term
    <3>1. [q \in Pids |-> NoDaemon][p].at = "poweroff"
      BY <2>1, ForgetsNotOff DEF Term
    <3> QED BY <3>1 DEF NoDaemon
  <2>2. CASE \/ Detach \/ Kill \/ SwapOff \/ Unmount \/ Halt
    BY <1>0, <2>2 DEF Detach, Kill, SwapOff, Unmount, Halt, keyVars
  <2> QED BY <1>6, <2>1, <2>2 DEF RcK
<1>7. CASE Boot \/ Cut
  BY <1>7 DEF Boot, Cut, Start, NoDaemon
<1>8. CASE UNCHANGED vars
  BY <1>0, <1>8 DEF vars, keyVars
<1> QED BY <1>1, <1>2, <1>3, <1>4, <1>5, <1>6, <1>7, <1>8 DEF Next

\* Only a key that was held for HOLD without a break powers off, for any HOLD, any
\* delay below it and any number of unread events: a press is read within LAG ticks,
\* and its time cannot run out before the daemon has looked for a release.
THEOREM OnlyAHold == Spec => OffOnlyWhenHeld
<1>1. KeyInv /\ [Next]_vars
        => [\A p \in Pids : daemons[p].at # "poweroff" /\ daemons'[p].at = "poweroff"
                              => key.full]_vars
  BY OffIsHeld DEF KeyInv, HoldInv, Knows, Held
<1> QED BY <1>1, KeyInvariant, PTL DEF Spec, OffOnlyWhenHeld

-----------------------------------------------------------------------------
\* The mounts.

\* Every place among the mounts that stay is taken by one of them, in their order.
LEMMA Ranked ==
  ASSUME NEW S, mounts \in Seq(S), NEW ms
  PROVE  /\ Cardinality(Kept(ms)) \in Nat
         /\ \A i \in Kept(ms) : Rank(ms, i) \in 1 .. Cardinality(Kept(ms))
         /\ \A i, j \in Kept(ms) : i < j => Rank(ms, i) < Rank(ms, j)
         /\ \A n \in 1 .. Cardinality(Kept(ms)) : \E i \in Kept(ms) : Rank(ms, i) = n
<1> DEFINE K == Kept(ms)
           UpTo(i) == {j \in K : j <= i}
<1>1. K \in SUBSET (1 .. Len(mounts)) /\ Len(mounts) \in Nat
  <2>1. Len(mounts) \in Nat /\ DOMAIN mounts = 1 .. Len(mounts)
    BY LenProperties
  <2> QED BY <2>1 DEF Kept
<1>2. IsFiniteSet(K) /\ Cardinality(K) \in Nat
  <2>1. IsFiniteSet(1 .. Len(mounts))
    BY <1>1, FS_Interval
  <2> HIDE DEF K
  <2>2. IsFiniteSet(K)
    BY <1>1, <2>1, FS_Subset
  <2> QED BY <2>2, FS_CardinalityType
<1>3. \A i : Rank(ms, i) = Cardinality(UpTo(i))
  BY DEF Rank
<1> HIDE DEF K
<1>4. ASSUME NEW i \in K
      PROVE  /\ IsFiniteSet(UpTo(i)) /\ Cardinality(UpTo(i)) \in 1 .. Cardinality(K)
  <2>1. UpTo(i) \in SUBSET K /\ i \in UpTo(i)
    BY <1>1
  <2>2. /\ IsFiniteSet(UpTo(i)) /\ Cardinality(UpTo(i)) <= Cardinality(K)
        /\ Cardinality(UpTo(i)) \in Nat
    BY <1>2, <2>1, FS_Subset, FS_CardinalityType
  <2>3. Cardinality(UpTo(i)) # 0
    BY <2>1, <2>2, FS_EmptySet
  <2> QED BY <1>2, <2>2, <2>3
<1>5. ASSUME NEW i \in K, NEW j \in K, i < j
      PROVE  Cardinality(UpTo(i)) < Cardinality(UpTo(j))
  <2>1. UpTo(i) \in SUBSET UpTo(j) /\ j \in UpTo(j) /\ j \notin UpTo(i)
    <3>1. i \in Int /\ j \in Int /\ \A k \in K : k \in Int
      BY <1>1
    <3>2. \A k \in K : k <= i => k <= j
      BY <1>5, <3>1
    <3>3. j <= j /\ ~(j <= i)
      BY <1>5, <3>1
    <3> QED BY <3>2, <3>3
  <2>2. /\ IsFiniteSet(UpTo(j)) /\ Cardinality(UpTo(i)) \in Nat /\ Cardinality(UpTo(j)) \in Nat
    <3>1. /\ IsFiniteSet(UpTo(j))
          /\ Cardinality(UpTo(i)) \in 1 .. Cardinality(K)
          /\ Cardinality(UpTo(j)) \in 1 .. Cardinality(K)
      BY <1>4
    <3> HIDE DEF UpTo
    <3> QED BY <1>2, <3>1
  <2>3. /\ Cardinality(UpTo(i)) <= Cardinality(UpTo(j))
        /\ Cardinality(UpTo(j)) # Cardinality(UpTo(i))
    <3> HIDE DEF UpTo
    <3> QED BY <2>1, <2>2, FS_Subset
  <2> QED BY <2>2, <2>3
<1>6. ASSUME NEW n \in 1 .. Cardinality(K)
      PROVE  \E i \in K : Cardinality(UpTo(i)) = n
  <2> DEFINE T == 1 .. Cardinality(K)
             f == [i \in K |-> Cardinality(UpTo(i))]
  <2>1. IsFiniteSet(T) /\ Cardinality(T) = Cardinality(K)
    BY <1>2, FS_Interval
  <2>2. f \in [K -> T]
    BY <1>4
  <2>3. \A i, j \in K : f[i] = f[j] => i = j
    <3> SUFFICES ASSUME NEW i \in K, NEW j \in K, i # j PROVE f[i] # f[j]
      OBVIOUS
    <3>1. i < j \/ j < i
      BY <1>1
    <3>2. f[i] = Cardinality(UpTo(i)) /\ f[j] = Cardinality(UpTo(j))
      OBVIOUS
    <3>3. f[i] \in Int /\ f[j] \in Int
      BY <1>2, <2>2
    <3>4. f[i] < f[j] \/ f[j] < f[i]
      BY <1>5, <3>1, <3>2
    <3> HIDE DEF f
    <3> QED BY <3>3, <3>4
  <2>4. f \in Injection(K, T)
    BY <2>2, <2>3 DEF Injection, IsInjective
  <2>5. f \in Surjection(K, T)
    <3> HIDE DEF f, T
    <3> QED BY <2>1, <2>4, FS_Injection
  <2>6. \E i \in K : f[i] = n
    BY <2>5 DEF Surjection
  <2> QED BY <2>6
<1> QED BY <1>2, <1>3, <1>4, <1>5, <1>6 DEF K

\* What is left is what is not taken away, in its order.
LEMMA WithoutKeeps ==
  ASSUME NEW S, mounts \in Seq(S), NEW ms
  PROVE  /\ Without(ms) \in Seq(S)
         /\ ToSet(Without(ms)) = ToSet(mounts) \ ms
         /\ \A m, n \in DOMAIN Without(ms) :
              m < n => \E i, j \in DOMAIN mounts :
                         /\ i < j
                         /\ mounts[i] = Without(ms)[m] /\ mounts[j] = Without(ms)[n]
<1> DEFINE K == Kept(ms)
           size == Cardinality(K)
           At(n) == CHOOSE i \in K : Rank(ms, i) = n
<1>1. Len(mounts) \in Nat /\ DOMAIN mounts = 1 .. Len(mounts)
  BY LenProperties
<1>2. /\ K \in SUBSET DOMAIN mounts
      /\ \A i \in DOMAIN mounts : i \in K <=> mounts[i] \notin ms
      /\ \A i \in DOMAIN mounts : mounts[i] \in S
  BY <1>1, ElementOfSeq DEF Kept
<1>3. /\ size \in Nat
      /\ \A i \in K : Rank(ms, i) \in 1 .. size
      /\ \A i, j \in K : i < j => Rank(ms, i) < Rank(ms, j)
      /\ \A n \in 1 .. size : \E i \in K : Rank(ms, i) = n
  BY Ranked
<1>4. Without(ms) = [n \in 1 .. size |-> mounts[At(n)]]
  BY DEF Without
<1> HIDE DEF K, size
<1>5. \A n \in 1 .. size : At(n) \in K /\ Rank(ms, At(n)) = n
  BY <1>3
<1>6. ASSUME NEW m \in 1 .. size, NEW n \in 1 .. size, m < n
      PROVE  At(m) < At(n)
  <2>1. At(m) \in Int /\ At(n) \in Int
    BY <1>1, <1>2, <1>5
  <2>2. ~(At(n) < At(m)) /\ At(n) # At(m)
    <3> HIDE DEF At
    <3>1. Rank(ms, At(m)) = m /\ Rank(ms, At(n)) = n /\ At(m) \in K /\ At(n) \in K
      BY <1>5
    <3>2. ~(n < m)
      BY <1>3, <1>6
    <3> QED BY <1>3, <1>6, <3>1, <3>2
  <2> QED BY <2>1, <2>2
<1>7. \A i \in K : At(Rank(ms, i)) = i
  <2> SUFFICES ASSUME NEW i \in K PROVE At(Rank(ms, i)) = i
    OBVIOUS
  <2> DEFINE j == At(Rank(ms, i))
  <2>1. j \in K /\ Rank(ms, j) = Rank(ms, i) /\ Rank(ms, i) \in Int
    BY <1>3, <1>5
  <2>2. i \in Int /\ j \in Int
    BY <1>1, <1>2, <2>1
  <2> HIDE DEF j
  <2>3. ~(i < j) /\ ~(j < i)
    BY <1>3, <2>1
  <2>4. i = j
    BY <2>2, <2>3
  <2> QED BY <2>4 DEF j
<1> HIDE DEF At
<1>8. /\ DOMAIN Without(ms) = 1 .. size
      /\ \A n \in 1 .. size : Without(ms)[n] = mounts[At(n)] /\ mounts[At(n)] \in S
  BY <1>2, <1>4, <1>5
<1>9. Without(ms) \in Seq(S)
  <2>1. Without(ms) \in [1 .. size -> S]
    BY <1>4, <1>8
  <2> QED BY <1>3, <2>1
<1>10. ToSet(Without(ms)) = ToSet(mounts) \ ms
  <2>1. ASSUME NEW n \in 1 .. size PROVE Without(ms)[n] \in ToSet(mounts) \ ms
    BY <1>2, <1>5, <1>8 DEF ToSet
  <2>2. ASSUME NEW i \in DOMAIN mounts, mounts[i] \notin ms
        PROVE  mounts[i] \in ToSet(Without(ms))
    <3>1. i \in K /\ Rank(ms, i) \in 1 .. size /\ At(Rank(ms, i)) = i
      BY <1>2, <1>3, <1>7, <2>2
    <3> QED BY <1>8, <3>1 DEF ToSet
  <2> QED BY <1>8, <2>1, <2>2 DEF ToSet
<1> QED BY <1>2, <1>5, <1>6, <1>8, <1>9, <1>10

MountSet == [at : {"SDCARD", "userdata", "image", "usr"}, of : Slots]

ScanType ==
  [dev : Slots \cup {"none"}, fallback : Slots \cup {"none"}, last : BOOLEAN,
   caller : {"none", "rcS", "session"}]

CardType ==
  /\ mounts \in Seq(MountSet) /\ lazy \in SUBSET MountSet
  /\ swap \in SUBSET Slots /\ card \in [Slots -> Volumes]
  /\ scan \in ScanType
  /\ pc \in {"repair", "fsck", "mount", "judge"} => scan.dev \in Slots

\* rcK runs once the power goes, and the session does not outlive its first signal.
GoingInv ==
  /\ rck # "none" => power # "on"
  /\ rck \notin {"none", "term"} => pc = "none"

\* A volume is repaired while nothing uses it.
RepairInv == pc = "fsck" => ~Alive(scan.dev, AllMounts, swap)

\* A volume with the flag set that was not found so is in use.
DirtyInv ==
  \A s \in Slots : card[s].dirty /\ ~card[s].found => Alive(s, AllMounts, swap)

\* An image is on the card that is at /mnt/SDCARD, and was mounted after it.
ImagesOnCard(q) ==
  /\ \A m \in ToSet(q) : m.at = "image" => Mount("SDCARD", m.of) \in ToSet(q)
  /\ \A i, j \in DOMAIN q : i < j /\ q[i].at = "image" => q[j] # Mount("SDCARD", q[i].of)
ImageInv == ImagesOnCard(mounts)

\* There is one card at /mnt/SDCARD, and none while one is looked for.
SdcardInv ==
  /\ \A m, n \in MountedAt("SDCARD") : m = n
  /\ pc \in {"repair", "fsck", "mount"} => MountedAt("SDCARD") = {}
  /\ pc = "judge" => /\ MountedAt("SDCARD") \subseteq {Mount("SDCARD", scan.dev)}
                     /\ MountedAt("image") = {}

\* What survives the last signal is all that uses what was detached, if no frontend
\* mounts anything on the way.
SignalInv ==
  ~MountsLate =>
  /\ rck # "none" => MountedAt("usr") = {}
  /\ rck \in {"swapoff", "unmount", "off"} => (procs = {} => lazy = {})

\* A process that survived keeps s in use through what was detached from it.
HeldLazily(s) == procs # {} /\ \E m \in lazy : m.of = s

\* What rcK has passed is unmounted, or a process keeps it; no image is kept, and
\* none is left when the turn of its card comes.  A volume it has not settled has
\* its card or all of its mounts still to come.
ImagesFirst(q) ==
  \A i, j \in DOMAIN q : i < j /\ q[j].at = "image" => q[i] # Mount("SDCARD", q[j].of)
UnmountInv ==
  ~MountsLate /\ rck \in {"unmount", "off"} =>
    /\ swap = {} /\ todo \in Seq(MountSet) /\ ImagesFirst(todo)
    /\ rck = "off" => todo = <<>>
    /\ \A m \in ToSet(mounts) \ ToSet(todo) : procs # {} /\ m.at # "image"
    /\ \A s \in Slots : card[s].dirty /\ ~card[s].found =>
         \/ HeldLazily(s)
         \/ Mount("SDCARD", s) \in ToSet(mounts) \cap ToSet(todo)
         \/ \A m \in ToSet(mounts) : m.of = s => m \in ToSet(todo)

CardInv ==
  /\ CardType /\ GoingInv /\ RepairInv /\ DirtyInv
  /\ ImageInv /\ SdcardInv /\ SignalInv /\ UnmountInv

-----------------------------------------------------------------------------
\* What happens to the mounts and to the flags.

LEMMA MountTypes ==
  ASSUME NEW at \in {"SDCARD", "userdata", "image", "usr"}, NEW s \in Slots
  PROVE  Mount(at, s) \in MountSet /\ Mount(at, s).at = at /\ Mount(at, s).of = s
BY DEF Mount, MountSet

LEMMA MountNames ==
  ASSUME NEW m \in MountSet
  PROVE  m = Mount(m.at, m.of) /\ m.of \in Slots
BY DEF Mount, MountSet

LEMMA MountsOf ==
  ASSUME mounts \in Seq(MountSet)
  PROVE  /\ ToSet(mounts) \in SUBSET MountSet
         /\ \A i \in DOMAIN mounts : mounts[i] \in ToSet(mounts)
<1>1. DOMAIN mounts = 1 .. Len(mounts)
  BY LenProperties
<1>2. \A i \in DOMAIN mounts : mounts[i] \in MountSet
  BY <1>1, ElementOfSeq
<1> QED BY <1>2 DEF ToSet

\* Settling clears the flag of a volume that is no longer used, unless it was
\* found set.
LEMMA SettledIs ==
  ASSUME CardType, DirtyInv, NEW ms, NEW sw
  PROVE  /\ Settled(ms, sw) \in [Slots -> Volumes]
         /\ \A s \in Slots :
              Settled(ms, sw)[s].dirty /\ ~Settled(ms, sw)[s].found
                => card[s].dirty /\ ~card[s].found /\ Alive(s, ms, sw)
<1> DEFINE Clean(s) == [card[s] EXCEPT !.dirty = card[s].found]
<1>1. \A s \in Slots : card[s] \in Volumes
  BY DEF CardType
<1>2. ASSUME NEW s \in Slots
      PROVE  /\ Clean(s) \in Volumes
             /\ Clean(s).dirty = card[s].found /\ Clean(s).found = card[s].found
  BY <1>1 DEF Volumes
<1> HIDE DEF Clean
<1>3. Settled(ms, sw) =
        [s \in Slots |-> IF Alive(s, AllMounts, swap) /\ ~Alive(s, ms, sw)
                         THEN Clean(s) ELSE card[s]]
  BY DEF Settled, Clean
<1>4. ASSUME NEW s \in Slots,
             Settled(ms, sw)[s].dirty /\ ~Settled(ms, sw)[s].found
      PROVE  card[s].dirty /\ ~card[s].found /\ Alive(s, ms, sw)
  <2>1. CASE Alive(s, AllMounts, swap) /\ ~Alive(s, ms, sw)
    BY <1>2, <1>3, <1>4, <2>1
  <2>2. CASE ~(Alive(s, AllMounts, swap) /\ ~Alive(s, ms, sw))
    <3>1. card[s].dirty /\ ~card[s].found
      BY <1>3, <1>4, <2>2
    <3> QED BY <2>2, <3>1 DEF DirtyInv
  <2> QED BY <2>1, <2>2
<1>5. Settled(ms, sw) \in [Slots -> Volumes]
  BY <1>1, <1>2, <1>3
<1> QED BY <1>4, <1>5

\* Taking mounts away: what is left keeps its order, and so do the images.
LEMMA Taken ==
  ASSUME CardType, NEW ms, mounts' = Without(ms)
  PROVE  /\ mounts' \in Seq(MountSet)
         /\ ToSet(mounts)' = ToSet(mounts) \ ms
         /\ \A i, j \in DOMAIN mounts' : i < j =>
              \E k, l \in DOMAIN mounts :
                k < l /\ mounts[k] = mounts'[i] /\ mounts[l] = mounts'[j]
<1>1. mounts \in Seq(MountSet)
  BY DEF CardType
<1>2. ToSet(mounts)' = ToSet(mounts')
  BY DEF ToSet
<1> QED BY <1>1, <1>2, WithoutKeeps

\* One more mount.
LEMMA Added ==
  ASSUME NEW q \in Seq(MountSet), NEW m \in MountSet
  PROVE  /\ Append(q, m) \in Seq(MountSet)
         /\ ToSet(Append(q, m)) = ToSet(q) \cup {m}
         /\ \A i, j \in DOMAIN Append(q, m) : i < j =>
              /\ i \in DOMAIN q /\ Append(q, m)[i] = q[i]
              /\ \/ j \in DOMAIN q /\ Append(q, m)[j] = q[j]
                 \/ Append(q, m)[j] = m
<1> DEFINE r == Append(q, m)
<1>1. Len(q) \in Nat /\ DOMAIN q = 1 .. Len(q)
  BY LenProperties
<1>2. /\ r \in Seq(MountSet) /\ Len(r) = Len(q) + 1
      /\ \A i \in 1 .. Len(q) : r[i] = q[i]
      /\ r[Len(q) + 1] = m
  BY AppendProperties
<1> HIDE DEF r
<1>3. DOMAIN r = 1 .. (Len(q) + 1)
  BY <1>1, <1>2, LenProperties
<1>4. ToSet(r) = ToSet(q) \cup {m}
  BY <1>1, <1>2, <1>3 DEF ToSet
<1>5. \A i, j \in DOMAIN r : i < j =>
        /\ i \in DOMAIN q /\ r[i] = q[i]
        /\ (j \in DOMAIN q /\ r[j] = q[j]) \/ r[j] = m
  BY <1>1, <1>2, <1>3
<1> QED BY <1>2, <1>4, <1>5 DEF r

\* An image that is mounted on the card at /mnt/SDCARD, a card while none of its
\* images is mounted, and anything else.
LEMMA ImagesAdded ==
  ASSUME NEW q \in Seq(MountSet), ImagesOnCard(q), NEW m \in MountSet,
         m.at = "image" => Mount("SDCARD", m.of) \in ToSet(q),
         m.at = "SDCARD" => \A n \in ToSet(q) : ~(n.at = "image" /\ n.of = m.of)
  PROVE  ImagesOnCard(Append(q, m))
<1> DEFINE r == Append(q, m)
<1>1. /\ r \in Seq(MountSet) /\ ToSet(r) = ToSet(q) \cup {m}
      /\ \A i, j \in DOMAIN r : i < j =>
           /\ i \in DOMAIN q /\ r[i] = q[i]
           /\ (j \in DOMAIN q /\ r[j] = q[j]) \/ r[j] = m
  BY Added
<1> HIDE DEF r
<1>2. \A n \in ToSet(r) : n.at = "image" => Mount("SDCARD", n.of) \in ToSet(r)
  BY <1>1 DEF ImagesOnCard
<1>3. ASSUME NEW i \in DOMAIN r, NEW j \in DOMAIN r, i < j, r[i].at = "image"
      PROVE  r[j] # Mount("SDCARD", r[i].of)
  <2>1. CASE j \in DOMAIN q /\ r[j] = q[j]
    BY <1>1, <1>3, <2>1 DEF ImagesOnCard
  <2>2. CASE r[j] = m
    <3>1. q[i] \in ToSet(q) /\ r[i] = q[i]
      BY <1>1, <1>3 DEF ToSet
    <3>2. m = Mount("SDCARD", r[i].of) => m.at = "SDCARD" /\ m.of = r[i].of
      BY DEF Mount
    <3> QED BY <1>3, <2>2, <3>1, <3>2
  <2> QED BY <1>1, <1>3, <2>1, <2>2
<1> QED BY <1>2, <1>3 DEF ImagesOnCard, r

LEMMA ImagesLeft ==
  ASSUME CardType, ImageInv, NEW ms, mounts' = Without(ms),
         \A m \in ms : m.at = "SDCARD" =>
           \A n \in ToSet(mounts) : ~(n.at = "image" /\ n.of = m.of)
  PROVE  ImageInv'
<1>1. /\ ToSet(mounts)' = ToSet(mounts) \ ms /\ ToSet(mounts)' = ToSet(mounts')
      /\ \A i, j \in DOMAIN mounts' : i < j =>
           \E k, l \in DOMAIN mounts :
             k < l /\ mounts[k] = mounts'[i] /\ mounts[l] = mounts'[j]
  BY Taken DEF ToSet
<1>2. ASSUME NEW m \in ToSet(mounts'), m.at = "image"
      PROVE  Mount("SDCARD", m.of) \in ToSet(mounts')
  <2>1. m \in ToSet(mounts) /\ Mount("SDCARD", m.of) \in ToSet(mounts)
    BY <1>1, <1>2 DEF ImageInv, ImagesOnCard
  <2>2. Mount("SDCARD", m.of) \notin ms
    BY <1>2, <2>1 DEF Mount
  <2> QED BY <1>1, <2>1, <2>2
<1>3. \A i, j \in DOMAIN mounts' :
        i < j /\ mounts'[i].at = "image" => mounts'[j] # Mount("SDCARD", mounts'[i].of)
  BY <1>1 DEF ImageInv, ImagesOnCard
<1> QED BY <1>2, <1>3 DEF ImageInv, ImagesOnCard

\* The greatest of some places in a sequence.
LEMMA Greatest ==
  ASSUME NEW n \in Nat, NEW I \in SUBSET (1 .. n), I # {}
  PROVE  Max(I) \in I
<1> DEFINE R == {t \in Nat \X Nat : t[1] < t[2]}
           T == {n - i : i \in I}
<1>1. IsWellFoundedOn(R, Nat)
  BY NatLessThanWellFounded DEF OpToRel
<1>2. \A i \in I : i \in Int /\ n - i \in Nat
  OBVIOUS
<1>3. T \subseteq Nat /\ T # {}
  BY <1>2
<1>4. \A u, v \in Nat : u < v => <<u, v>> \in R
  OBVIOUS
<1> HIDE DEF R
<1>5. PICK t \in T : \A u \in T : <<u, t>> \notin R
  <2> HIDE DEF T
  <2> QED BY <1>1, <1>3, WFMin
<1>6. \A u \in T : ~(u < t)
  BY <1>3, <1>4, <1>5
<1>7. PICK i \in I : t = n - i
  OBVIOUS
<1>8. ASSUME NEW j \in I PROVE i >= j
  <2>1. n - j \in T
    OBVIOUS
  <2>2. ~(n - j < n - i)
    BY <1>6, <1>7, <2>1
  <2> QED BY <1>2, <2>2
<1>9. \E x \in I : \A y \in I : x >= y
  BY <1>8
<1> QED BY <1>9 DEF Max

\* What was mounted on /mnt/SDCARD last is mounted there.
LEMMA SdcardIs ==
  ASSUME CardType, MountedAt("SDCARD") # {}
  PROVE  /\ Sdcard \in Slots /\ Mount("SDCARD", Sdcard) \in MountedAt("SDCARD")
         /\ Mount("SDCARD", Sdcard) \in MountSet
<1> DEFINE I == {i \in 1 .. Len(mounts) : mounts[i].at = "SDCARD"}
<1>1. /\ mounts \in Seq(MountSet) /\ Len(mounts) \in Nat
      /\ DOMAIN mounts = 1 .. Len(mounts)
  BY LenProperties DEF CardType
<1>2. I # {}
  BY <1>1 DEF MountedAt, ToSet
<1>3. Max(I) \in I
  BY <1>1, <1>2, Greatest
<1>4. Sdcard = mounts[Max(I)].of
  BY <1>2 DEF Sdcard, SelectLastInSeq
<1> DEFINE m == mounts[Max(I)]
<1>5. m \in ToSet(mounts) /\ m \in MountSet /\ m.at = "SDCARD"
  BY <1>1, <1>3, MountsOf
<1>6. m = Mount("SDCARD", m.of) /\ m.of \in Slots
  BY <1>5, MountNames
<1> QED BY <1>4, <1>5, <1>6 DEF MountedAt

-----------------------------------------------------------------------------
\* The steps of the system and the mounts.

LEMMA NoMounts ==
  /\ <<>> \in Seq(MountSet) /\ ToSet(<<>>) = {} /\ ImagesOnCard(<<>>)
<1>1. DOMAIN <<>> = {}
  OBVIOUS
<1> QED BY <1>1, EmptySeq DEF ToSet, ImagesOnCard

LEMMA CardInit == Init => CardInv
<1> SUFFICES ASSUME Init PROVE CardInv
  OBVIOUS
<1>1. /\ mounts = <<>> /\ ToSet(mounts) = {} /\ lazy = {} /\ swap = {}
      /\ pc = "look" /\ rck = "none" /\ power = "on"
  BY NoMounts DEF Init
<1>2. /\ card \in [Slots -> Volumes]
      /\ \A s \in Slots : card[s].dirty = card[s].found
  BY CardsAssumption DEF Init
<1>3. CardType
  <2>1. NoScan \in ScanType
    BY DEF NoScan, ScanType
  <2>2. scan \in ScanType
    BY <2>1 DEF Init, ScanType
  <2> QED BY <1>1, <1>2, <2>2, NoMounts DEF CardType
<1>4. GoingInv /\ RepairInv /\ SdcardInv /\ SignalInv /\ UnmountInv
  BY <1>1 DEF GoingInv, RepairInv, SdcardInv, SignalInv, UnmountInv, MountedAt
<1>5. DirtyInv
  BY <1>2 DEF DirtyInv
<1>6. ImageInv
  BY <1>1, NoMounts DEF ImageInv
<1> QED BY <1>3, <1>4, <1>5, <1>6 DEF CardInv

\* Nothing about the card but who uses it, and the power goes at most.
LEMMA NothingMoves ==
  ASSUME CardInv, UNCHANGED <<card, mounts, lazy, swap, procs, pc, scan, rck, todo>>,
         power' = power \/ power' # "on"
  PROVE  CardInv'
<1>1. CardType' /\ GoingInv' /\ RepairInv' /\ DirtyInv'
  BY DEF CardInv, CardType, GoingInv, RepairInv, DirtyInv, Alive, AllMounts
<1>2. ImageInv' /\ SdcardInv' /\ SignalInv'
  BY DEF CardInv, ImageInv, SdcardInv, SignalInv, MountedAt
<1>3. UnmountInv'
  BY DEF CardInv, UnmountInv, HeldLazily
<1> QED BY <1>1, <1>2, <1>3 DEF CardInv

\* The mounts stay, the session goes on, and no volume becomes dirty.
LEMMA MountsStay ==
  ASSUME CardInv, UNCHANGED <<mounts, lazy, swap, power, rck>>, rck \in {"none", "term"},
         card' \in [Slots -> Volumes], scan' \in ScanType,
         \A s \in Slots : card'[s].dirty /\ ~card'[s].found => card[s].dirty /\ ~card[s].found,
         pc' \in {"repair", "fsck", "mount"} => /\ scan'.dev \in Slots
                                               /\ MountedAt("SDCARD") = {},
         pc' = "fsck" => ~Alive(scan'.dev, AllMounts, swap),
         pc' # "judge"
  PROVE  CardInv'
<1>1. AllMounts' = AllMounts
  BY DEF AllMounts
<1>2. CardType' /\ GoingInv' /\ RepairInv'
  BY <1>1 DEF CardInv, CardType, GoingInv, RepairInv, Alive
<1>3. DirtyInv'
  BY <1>1 DEF CardInv, DirtyInv, Alive
<1>4. ImageInv' /\ SdcardInv' /\ SignalInv' /\ UnmountInv'
  BY DEF CardInv, ImageInv, SdcardInv, SignalInv, UnmountInv, MountedAt
<1> QED BY <1>2, <1>3, <1>4 DEF CardInv

\* While the session is anywhere, rcK has not given its first signal.
LEMMA SessionIsUp ==
  ASSUME CardInv, pc # "none"
  PROVE  rck \in {"none", "term"}
BY DEF CardInv, GoingInv

\* What the session does to the files on a volume leaves its flag.
LEMMA FilesOnly ==
  ASSUME CardType, NEW s, NEW v,
         \/ card' = [card EXCEPT ![s].tmp = v] /\ v \in {"none", "begun", "part", "whole"}
         \/ card' = [card EXCEPT ![s].base = v] /\ v \in BOOLEAN
  PROVE  /\ card' \in [Slots -> Volumes]
         /\ \A t \in Slots : card'[t].dirty = card[t].dirty /\ card'[t].found = card[t].found
<1>1. card \in [Slots -> Volumes]
  BY DEF CardType
<1>2. CASE card' = [card EXCEPT ![s].tmp = v] /\ v \in {"none", "begun", "part", "whole"}
  <2> DEFINE Put(w) == [w EXCEPT !.tmp = v]
  <2>1. ASSUME NEW w \in Volumes
        PROVE  Put(w) \in Volumes /\ Put(w).dirty = w.dirty /\ Put(w).found = w.found
    BY <1>2 DEF Volumes
  <2>2. card' = [card EXCEPT ![s] = Put(card[s])]
    BY <1>2
  <2> HIDE DEF Put
  <2> QED BY <1>1, <2>1, <2>2
<1>3. CASE card' = [card EXCEPT ![s].base = v] /\ v \in BOOLEAN
  <2> DEFINE Put(w) == [w EXCEPT !.base = v]
  <2>1. ASSUME NEW w \in Volumes
        PROVE  Put(w) \in Volumes /\ Put(w).dirty = w.dirty /\ Put(w).found = w.found
    BY <1>3 DEF Volumes
  <2>2. card' = [card EXCEPT ![s] = Put(card[s])]
    BY <1>3
  <2> HIDE DEF Put
  <2> QED BY <1>1, <2>1, <2>2
<1> QED BY <1>2, <1>3

LEMMA CallsFrom ==
  ASSUME NEW caller \in {"rcS", "session"}, Call(caller)
  PROVE  pc' = "look" /\ scan' \in ScanType
<1>1. NoScan \in ScanType
  BY DEF NoScan, ScanType
<1> QED BY <1>1 DEF Call, ScanType

LEMMA TriesNext ==
  ASSUME scan \in ScanType, NEW fallback \in Slots \cup {"none"},
         NextDevice(fallback)
  PROVE  /\ pc' \in {"repair", "displace", "mounted?"} /\ scan' \in ScanType
         /\ pc' = "repair" => scan'.dev \in Slots
<1>1. CASE Return
  <2>1. NoScan \in ScanType
    BY DEF NoScan, ScanType
  <2> QED BY <1>1, <2>1 DEF Return
<1>2. ASSUME NEW s \in Slots, NEW last \in BOOLEAN, Try(s, fallback, last)
      PROVE  pc' = "repair" /\ scan' \in ScanType /\ scan'.dev = s
  BY <1>2 DEF Try, ScanType
<1>3. "own" \in Slots /\ (fallback # "none" => fallback \in Slots)
  BY DEF Slots
<1> QED BY <1>1, <1>2, <1>3 DEF NextDevice

\* A volume of which fsck.fat may clear the flag is one that nothing uses.
LEMMA LooksOn ==
  ASSUME CardInv, OnlyUp, Look \/ Repair \/ Fsck
  PROVE  CardInv'
<1>a. /\ scan \in ScanType /\ card \in [Slots -> Volumes]
      /\ pc \in {"repair", "fsck", "mount", "judge"} => scan.dev \in Slots
  BY DEF CardInv, CardType
<1>b. UNCHANGED rck /\ rck \in {"none", "term"}
  BY SessionIsUp DEF OnlyUp, shutdownVars, Look, Repair, Fsck
<1>1. CASE Look
  <2>1. UNCHANGED <<card, mounts, lazy, swap, power>>
    BY <1>1 DEF Look, mountVars, keyVars
  <2>2. CASE MountedAt("SDCARD") # {}
    <3>1. Return
      BY <1>1, <2>2 DEF Look
    <3>2. pc' \in {"displace", "mounted?"} /\ scan' \in ScanType
      BY <3>1 DEF Return, NoScan, ScanType
    <3> QED BY <1>a, <1>b, <2>1, <3>2, MountsStay
  <2>3. CASE MountedAt("SDCARD") = {}
    <3>1. Try("left", "none", FALSE)
      BY <1>1, <2>3 DEF Look
    <3>2. pc' = "repair" /\ scan' \in ScanType /\ scan'.dev \in Slots
      BY <1>a, <3>1 DEF Try, ScanType, Slots
    <3> QED BY <1>a, <1>b, <2>1, <2>3, <3>2, MountsStay
  <2> QED BY <2>2, <2>3
<1>2. CASE Repair
  <2>1. /\ UNCHANGED <<card, mounts, lazy, swap, power>> /\ MountedAt("SDCARD") = {}
        /\ scan.dev \in Slots
    BY <1>a, <1>2 DEF Repair, mountVars, keyVars, CardInv, SdcardInv
  <2>2. CASE ~Present(scan.dev)
    <3>1. NextDevice(scan.fallback) /\ scan.fallback \in Slots \cup {"none"}
      BY <1>a, <1>2, <2>2 DEF Repair, ScanType
    <3> QED BY <1>a, <1>b, <2>1, <3>1, TriesNext, MountsStay
  <2>3. CASE Present(scan.dev)
    <3>1. Goto(IF FatDirty(scan.dev) THEN "fsck" ELSE "mount")
      BY <1>2, <2>3 DEF Repair
    <3>2. /\ pc' \in {"fsck", "mount"} /\ scan' = scan
          /\ pc' = "fsck" => ~Alive(scan.dev, AllMounts, swap)
      BY <3>1 DEF Goto, FatDirty, InUse
    <3> QED BY <1>a, <1>b, <2>1, <3>2, MountsStay
  <2> QED BY <2>2, <2>3
<1>3. CASE Fsck
  <2>1. /\ UNCHANGED <<mounts, lazy, swap, power>> /\ MountedAt("SDCARD") = {}
        /\ scan.dev \in Slots /\ pc' = "mount" /\ scan' = scan
    BY <1>a, <1>3 DEF Fsck, Goto, keyVars, CardInv, SdcardInv
  <2>2. /\ card' \in [Slots -> Volumes]
        /\ \A s \in Slots : card'[s].dirty /\ ~card'[s].found => card[s].dirty /\ ~card[s].found
    <3>1. CASE card' = card
      BY <1>a, <3>1
    <3>2. CASE card' = [card EXCEPT ![scan.dev].dirty = FALSE]
      <4> DEFINE Put(w) == [w EXCEPT !.dirty = FALSE]
      <4>1. ASSUME NEW w \in Volumes
            PROVE  Put(w) \in Volumes /\ ~Put(w).dirty
        BY DEF Volumes
      <4>2. card' = [card EXCEPT ![scan.dev] = Put(card[scan.dev])]
        BY <3>2
      <4> HIDE DEF Put
      <4> QED BY <1>a, <2>1, <4>1, <4>2
    <3> QED BY <1>3, <3>1, <3>2 DEF Fsck
  <2> QED BY <1>a, <1>b, <2>1, <2>2, MountsStay
<1> QED BY <1>1, <1>2, <1>3

LEMMA Attaches ==
  ASSUME CardInv, OnlyUp, MountCard
  PROVE  CardInv'
<1>a. /\ CardType /\ scan \in ScanType /\ card \in [Slots -> Volumes]
      /\ scan.dev \in Slots /\ scan.fallback \in Slots \cup {"none"}
      /\ mounts \in Seq(MountSet)
  BY DEF CardInv, CardType, MountCard, ScanType
<1>b. /\ UNCHANGED rck /\ rck \in {"none", "term"} /\ pc = "mount"
      /\ MountedAt("SDCARD") = {} /\ UNCHANGED <<lazy, swap, power>>
  BY SessionIsUp DEF OnlyUp, shutdownVars, MountCard, CardInv, SdcardInv, keyVars
<1>1. CASE Present(scan.dev) /\ card[scan.dev].fat
  <2> DEFINE m == Mount("SDCARD", scan.dev)
  <2>1. Attach(scan.dev) /\ IF scan.last THEN Return ELSE Goto("judge")
    BY <1>1 DEF MountCard
  <2>2. m \in MountSet /\ m.at = "SDCARD" /\ m.of = scan.dev
    BY <1>a, MountTypes
  <2>3. /\ mounts' = Append(mounts, m) /\ mounts' \in Seq(MountSet)
        /\ ToSet(mounts)' = ToSet(mounts) \cup {m} /\ ToSet(mounts') = ToSet(mounts) \cup {m}
    <3>1. mounts' = Append(mounts, m) /\ ToSet(mounts)' = ToSet(mounts')
      BY <2>1 DEF Attach, ToSet
    <3> HIDE DEF m
    <3> QED BY <1>a, <2>2, <3>1, Added
  <2>4. \A n \in ToSet(mounts) : n.at # "image"
    <3>1. \A n \in ToSet(mounts) : n.at = "image" => Mount("SDCARD", n.of) \in ToSet(mounts)
      BY DEF CardInv, ImageInv, ImagesOnCard
    <3>2. \A s : Mount("SDCARD", s).at = "SDCARD"
      BY DEF Mount
    <3> QED BY <1>b, <3>1, <3>2 DEF MountedAt
  <2>5. /\ card' \in [Slots -> Volumes]
        /\ \A s \in Slots : card'[s].dirty /\ ~card'[s].found =>
             s = scan.dev \/ (card[s].dirty /\ ~card[s].found)
    <3> DEFINE found == IF Alive(scan.dev, AllMounts, swap) THEN card[scan.dev].found
                        ELSE card[scan.dev].dirty
               Put(w) == [w EXCEPT !.found = found, !.dirty = TRUE]
    <3>1. \A s \in Slots : card[s].found \in BOOLEAN /\ card[s].dirty \in BOOLEAN
      BY <1>a DEF Volumes
    <3>2. found \in BOOLEAN
      BY <1>a, <3>1
    <3>3. card' = [card EXCEPT ![scan.dev] = Put(card[scan.dev])]
      BY <1>a, <2>1 DEF Attach
    <3> HIDE DEF found
    <3>4. \A w \in Volumes : Put(w) \in Volumes
      BY <3>2 DEF Volumes
    <3> HIDE DEF Put
    <3> QED BY <1>a, <3>3, <3>4
  <2>6. /\ pc' \in {"displace", "mounted?", "judge"} /\ scan' \in ScanType
        /\ pc' = "judge" => scan' = scan
    <3>1. NoScan \in ScanType
      BY DEF NoScan, ScanType
    <3>2. CASE scan.last
      BY <2>1, <3>1, <3>2 DEF Return
    <3>3. CASE ~scan.last
      BY <1>a, <2>1, <3>3 DEF Goto
    <3> QED BY <3>2, <3>3
  <2>7. CardType'
    BY <1>a, <1>b, <2>3, <2>5, <2>6 DEF CardType
  <2>8. GoingInv' /\ RepairInv' /\ UnmountInv'
    BY <1>b, <2>6 DEF CardInv, GoingInv, RepairInv, UnmountInv
  <2>9. DirtyInv'
    <3>1. AllMounts' = AllMounts \cup {m}
      BY <1>b, <2>3 DEF AllMounts
    <3> QED BY <1>b, <2>2, <2>5, <3>1 DEF CardInv, DirtyInv, Alive
  <2>10. ImageInv'
    <3>1. ImagesOnCard(Append(mounts, m))
      BY <1>a, <2>2, <2>4, ImagesAdded DEF CardInv, ImageInv
    <3> QED BY <2>3, <3>1 DEF ImageInv
  <2>11. MountedAt("SDCARD")' = {m} /\ MountedAt("image")' = {} /\ MountedAt("usr")' = MountedAt("usr")
    BY <1>b, <2>2, <2>3, <2>4 DEF MountedAt
  <2>12. SdcardInv' /\ SignalInv'
    BY <1>b, <2>6, <2>11 DEF CardInv, SdcardInv, SignalInv
  <2> QED BY <2>7, <2>8, <2>9, <2>10, <2>12 DEF CardInv
<1>2. CASE ~(Present(scan.dev) /\ card[scan.dev].fat)
  <2>1. UNCHANGED <<card, mounts>> /\ NextDevice(scan.fallback)
    BY <1>2 DEF MountCard
  <2> QED BY <1>a, <1>b, <2>1, TriesNext, MountsStay
<1> QED BY <1>1, <1>2

\* Unmounting settles the volumes, and what is left is still in order.
LEMMA Dropped ==
  ASSUME CardInv, UNCHANGED <<lazy, swap>>, NEW ms, Drop(ms),
         \A m \in ms : m.at = "SDCARD" =>
           \A n \in ToSet(mounts) : ~(n.at = "image" /\ n.of = m.of)
  PROVE  /\ mounts' \in Seq(MountSet) /\ card' \in [Slots -> Volumes]
         /\ ToSet(mounts)' = ToSet(mounts) \ ms
         /\ \A at : MountedAt(at)' = MountedAt(at) \ ms
         /\ \A s \in Slots :
              card'[s].dirty /\ ~card'[s].found => card[s].dirty /\ ~card[s].found
         /\ DirtyInv' /\ ImageInv'
<1>a. CardType /\ DirtyInv /\ ImageInv
  BY DEF CardInv
<1>1. /\ mounts' = Without(ms) /\ ToSet(Without(ms)) = ToSet(mounts')
      /\ ToSet(mounts)' = ToSet(mounts')
  BY DEF Drop, ToSet
<1>2. card' = Settled(ToSet(mounts') \cup lazy, swap)
  BY <1>1 DEF Drop
<1>3. mounts' \in Seq(MountSet) /\ ToSet(mounts)' = ToSet(mounts) \ ms
  BY <1>a, <1>1, Taken
<1>4. ImageInv'
  BY <1>a, <1>1, ImagesLeft
<1>5. /\ card' \in [Slots -> Volumes]
      /\ \A s \in Slots : card'[s].dirty /\ ~card'[s].found
           => card[s].dirty /\ ~card[s].found /\ Alive(s, ToSet(mounts') \cup lazy, swap)
  BY <1>a, <1>2, SettledIs
<1>6. DirtyInv'
  BY <1>1, <1>5 DEF DirtyInv, AllMounts, Alive
<1>7. \A at : MountedAt(at)' = MountedAt(at) \ ms
  BY <1>3 DEF MountedAt
<1> QED BY <1>3, <1>4, <1>5, <1>6, <1>7

LEMMA SessionDrops ==
  ASSUME CardInv, UNCHANGED <<lazy, swap, power, rck>>, rck \in {"none", "term"},
         NEW ms, Drop(ms),
         \A m \in ms : m.at = "SDCARD" =>
           \A n \in ToSet(mounts) : ~(n.at = "image" /\ n.of = m.of),
         pc' \notin {"fsck", "mount", "judge"}, scan' \in ScanType,
         pc' = "repair" => scan'.dev \in Slots /\ MountedAt("SDCARD") \subseteq ms
  PROVE  CardInv'
<1>1. /\ mounts' \in Seq(MountSet) /\ card' \in [Slots -> Volumes]
      /\ \A at : MountedAt(at)' = MountedAt(at) \ ms
      /\ DirtyInv' /\ ImageInv'
  BY Dropped
<1>2. CardType'
  BY <1>1 DEF CardInv, CardType
<1>3. GoingInv' /\ RepairInv' /\ UnmountInv'
  BY DEF CardInv, GoingInv, RepairInv, UnmountInv
<1>4. SdcardInv' /\ SignalInv'
  BY <1>1 DEF CardInv, SdcardInv, SignalInv
<1> QED BY <1>1, <1>2, <1>3, <1>4 DEF CardInv

LEMMA Judges ==
  ASSUME CardInv, OnlyUp, Judge
  PROVE  CardInv'
<1>a. /\ scan \in ScanType /\ card \in [Slots -> Volumes] /\ scan.dev \in Slots
      /\ scan.fallback \in Slots \cup {"none"}
  BY DEF CardInv, CardType, Judge, ScanType
<1>b. /\ UNCHANGED rck /\ rck \in {"none", "term"} /\ pc = "judge"
      /\ UNCHANGED <<lazy, swap, power>>
  BY SessionIsUp DEF OnlyUp, shutdownVars, Judge, keyVars
<1>1. CASE HasFrontend(card[scan.dev])
  <2>1. UNCHANGED <<card, mounts>> /\ Return
    BY <1>1 DEF Judge
  <2>2. NoScan \in ScanType
    BY DEF NoScan, ScanType
  <2>3. pc' \in {"displace", "mounted?"} /\ scan' \in ScanType
    BY <2>1, <2>2 DEF Return
  <2> QED BY <1>a, <1>b, <2>1, <2>3, MountsStay
<1>2. CASE ~HasFrontend(card[scan.dev])
  <2> DEFINE fallback == IF scan.fallback = "none" THEN scan.dev ELSE scan.fallback
             ms == {Mount("SDCARD", scan.dev)}
  <2>1. Drop(ms) /\ NextDevice(fallback) /\ fallback \in Slots \cup {"none"}
    BY <1>a, <1>2 DEF Judge
  <2>2. /\ pc' \in {"repair", "displace", "mounted?"} /\ scan' \in ScanType
        /\ pc' = "repair" => scan'.dev \in Slots
    <3> HIDE DEF fallback
    <3> QED BY <1>a, <2>1, TriesNext
  <2>3. MountedAt("SDCARD") \subseteq ms /\ \A n \in ToSet(mounts) : n.at # "image"
    BY <1>b DEF CardInv, SdcardInv, MountedAt
  <2> HIDE DEF ms, fallback
  <2> QED BY <1>b, <2>1, <2>2, <2>3, SessionDrops
<1> QED BY <1>1, <1>2

LEMMA Displaces ==
  ASSUME CardInv, OnlyUp, Displace
  PROVE  CardInv'
<1>a. card \in [Slots -> Volumes]
  BY DEF CardInv, CardType
<1>b. /\ UNCHANGED rck /\ rck \in {"none", "term"} /\ UNCHANGED <<lazy, swap, power>>
      /\ pc' = "look" /\ scan' \in ScanType
  BY SessionIsUp, CallsFrom DEF OnlyUp, shutdownVars, Displace, keyVars
<1>1. CASE FallbackShown
  <2> DEFINE ms == {m \in MountedAt("userdata") \cup MountedAt("SDCARD") : ~Busy(m)}
  <2>1. Drop(ms)
    BY <1>1 DEF Displace
  <2>2. ASSUME NEW m \in ms, m.at = "SDCARD", NEW n \in ToSet(mounts)
        PROVE  ~(n.at = "image" /\ n.of = m.of)
    BY <2>2 DEF Busy, Pins, AllMounts
  <2> HIDE DEF ms
  <2> QED BY <1>b, <2>1, <2>2, SessionDrops
<1>2. CASE ~FallbackShown
  <2>1. UNCHANGED <<card, mounts>>
    BY <1>2 DEF Displace
  <2> QED BY <1>a, <1>b, <2>1, MountsStay
<1> QED BY <1>1, <1>2

\* The rest of a session mounts nothing.
LEMMA SessionGoesOn ==
  ASSUME CardInv, OnlyUp,
         \/ CheckMounted \/ Stage \/ Copy \/ Clear \/ Ready
         \/ WatchPowerKey \/ Respawn \/ AskPwrkeyd \/ KillPwrkeyd \/ Exec
  PROVE  CardInv'
<1>a. CardType /\ card \in [Slots -> Volumes] /\ scan \in ScanType
  BY DEF CardInv, CardType
<1>b. UNCHANGED rck /\ rck \in {"none", "term"}
  BY SessionIsUp DEF OnlyUp, shutdownVars, CheckMounted, Stage, Copy, Clear, Ready,
     WatchPowerKey, Respawn, AskPwrkeyd, KillPwrkeyd, Exec
<1>1. CASE \/ CheckMounted \/ Ready \/ WatchPowerKey \/ Respawn
           \/ AskPwrkeyd \/ KillPwrkeyd \/ Exec
  <2>1. UNCHANGED <<card, mounts, lazy, swap, power>>
    BY <1>1 DEF CheckMounted, Ready, WatchPowerKey, Respawn, AskPwrkeyd, KillPwrkeyd, Exec,
       mountVars, keyVars
  <2>2. pc' \notin {"repair", "fsck", "mount", "judge"} /\ scan' \in ScanType
    <3>1. CASE CheckMounted
      BY <1>a, <3>1, CallsFrom DEF CheckMounted, Goto, Call
    <3>2. CASE Ready \/ WatchPowerKey \/ Respawn \/ AskPwrkeyd \/ KillPwrkeyd \/ Exec
      BY <1>a, <3>2 DEF Ready, WatchPowerKey, Respawn, AskPwrkeyd, KillPwrkeyd, Exec, Goto
    <3> QED BY <1>1, <3>1, <3>2
  <2> QED BY <1>a, <1>b, <2>1, <2>2, MountsStay
<1>2. CASE Stage \/ Copy \/ Clear
  <2>1. /\ UNCHANGED <<mounts, lazy, swap, power, scan>> /\ pc' \in {"copy", "ready", "clear"}
    BY <1>2 DEF Stage, Copy, Clear, Goto, keyVars
  <2>2. /\ card' \in [Slots -> Volumes]
        /\ \A s \in Slots : card'[s].dirty /\ ~card'[s].found => card[s].dirty /\ ~card[s].found
    <3>1. CASE UNCHANGED card
      BY <1>a, <3>1
    <3>2. ASSUME NEW v \in {"begun", "part", "whole"}, card' = [card EXCEPT ![Sdcard].tmp = v]
          PROVE  /\ card' \in [Slots -> Volumes]
                 /\ \A s \in Slots : card'[s].dirty /\ ~card'[s].found
                                   => card[s].dirty /\ ~card[s].found
      BY <1>a, <3>2, FilesOnly
    <3>3. CASE Clear
      <4>1. PICK v \in BOOLEAN : card' = [card EXCEPT ![Sdcard].base = v]
        BY <3>3 DEF Clear
      <4> QED BY <1>a, <4>1, FilesOnly
    <3> QED BY <1>2, <3>1, <3>2, <3>3 DEF Stage, Copy
  <2> QED BY <1>a, <1>b, <2>1, <2>2, MountsStay
<1> QED BY <1>1, <1>2

LEMMA SessionCard ==
  ASSUME CardInv, SessionStep
  PROVE  CardInv'
BY LooksOn, Attaches, Judges, Displaces, SessionGoesOn DEF SessionStep, Session, MountFrontend

\* There are more mounts, and nothing at /mnt/SDCARD is new.
LEMMA MountsGrow ==
  ASSUME CardInv, pc = "frontend", rck = "none" \/ (MountsLate /\ rck = "term"),
         UNCHANGED <<card, lazy, procs, power, pc, scan, rck>>,
         mounts' \in Seq(MountSet), swap' \in SUBSET Slots, ImagesOnCard(mounts'),
         ToSet(mounts) \subseteq ToSet(mounts'), swap \subseteq swap',
         \A m \in ToSet(mounts') \ ToSet(mounts) : m.at # "SDCARD"
  PROVE  CardInv'
<1>1. ToSet(mounts)' = ToSet(mounts') /\ AllMounts \subseteq AllMounts'
  BY DEF AllMounts, ToSet
<1>2. MountedAt("SDCARD")' = MountedAt("SDCARD")
  BY <1>1 DEF MountedAt
<1>3. CardType' /\ GoingInv' /\ RepairInv' /\ UnmountInv' /\ SignalInv'
  BY DEF CardInv, CardType, GoingInv, RepairInv, UnmountInv, SignalInv
<1>4. DirtyInv'
  BY <1>1 DEF CardInv, DirtyInv, Alive
<1>5. ImageInv'
  BY DEF ImageInv
<1>6. SdcardInv'
  BY <1>2 DEF CardInv, SdcardInv
<1> QED BY <1>3, <1>4, <1>5, <1>6 DEF CardInv

\* Two mounts at once are one after the other.
LEMMA AddedTwo ==
  ASSUME NEW q \in Seq(MountSet), NEW m \in MountSet, NEW n \in MountSet
  PROVE  q \o <<m, n>> = Append(Append(q, m), n)
<1> DEFINE pair == <<m, n>>
           r == Append(q, m)
           t == Append(r, n)
           c == q \o pair
<1>1. pair \in Seq(MountSet) /\ Len(pair) = 2 /\ pair[1] = m /\ pair[2] = n
  OBVIOUS
<1> HIDE DEF pair
<1>2. /\ r \in Seq(MountSet) /\ Len(r) = Len(q) + 1 /\ r[Len(q) + 1] = m
      /\ \A i \in 1 .. Len(q) : r[i] = q[i]
  BY AppendProperties
<1> HIDE DEF r
<1>3. /\ t \in Seq(MountSet) /\ Len(t) = Len(r) + 1 /\ t[Len(r) + 1] = n
      /\ \A i \in 1 .. Len(r) : t[i] = r[i]
  BY <1>2, AppendProperties
<1> HIDE DEF t
<1>4. /\ c \in Seq(MountSet) /\ Len(c) = Len(q) + Len(pair)
      /\ \A i \in 1 .. Len(q) + Len(pair) :
           c[i] = IF i <= Len(q) THEN q[i] ELSE pair[i - Len(q)]
  BY <1>1, ConcatProperties
<1> HIDE DEF c
<1>5. Len(q) \in Nat /\ Len(c) = Len(t)
  BY <1>1, <1>2, <1>3, <1>4, LenProperties
<1>6. ASSUME NEW i \in 1 .. Len(c) PROVE c[i] = t[i]
  <2>1. /\ Len(c) = Len(q) + 2 /\ Len(r) = Len(q) + 1
        /\ i \in 1 .. Len(q) \/ i = Len(q) + 1 \/ i = Len(q) + 2
    BY <1>1, <1>2, <1>4, <1>5
  <2>2. CASE i \in 1 .. Len(q)
    BY <1>1, <1>2, <1>3, <1>4, <1>5, <2>1, <2>2
  <2>3. CASE i = Len(q) + 1
    <3>1. c[i] = pair[1]
      BY <1>1, <1>4, <1>5, <2>3
    <3>2. t[i] = r[Len(q) + 1]
      BY <1>3, <1>5, <2>1, <2>3
    <3> QED BY <1>1, <1>2, <3>1, <3>2
  <2>4. CASE i = Len(q) + 2
    <3>1. c[i] = pair[2]
      BY <1>1, <1>4, <1>5, <2>4
    <3>2. t[i] = t[Len(r) + 1]
      BY <1>5, <2>1, <2>4
    <3> QED BY <1>1, <1>3, <3>1, <3>2
  <2> QED BY <2>1, <2>2, <2>3, <2>4
<1> QED BY <1>3, <1>4, <1>5, <1>6, SeqEqual DEF c, pair, t, r

\* What a frontend mounts on the card, before rcK runs if it does not mount late.
LEMMA FrontendAdds ==
  ASSUME CardInv, OnlyUp, FrontendMounts
  PROVE  CardInv'
<1>a. /\ CardType /\ mounts \in Seq(MountSet) /\ swap \in SUBSET Slots /\ ImagesOnCard(mounts)
  BY DEF CardInv, CardType, ImageInv
<1>b. /\ UNCHANGED <<card, lazy, procs, power, pc, scan, rck>> /\ pc = "frontend"
      /\ rck = "none" \/ (MountsLate /\ rck = "term")
  BY SessionIsUp DEF FrontendMounts, CardInv, GoingInv, OnlyUp, shutdownVars, sessionVars, keyVars
<1>c. Sdcard \in Slots /\ Mount("SDCARD", Sdcard) \in ToSet(mounts)
  BY <1>a, SdcardIs DEF FrontendMounts, MountedAt
<1> DEFINE bind == Mount("userdata", Sdcard)
           image == Mount("image", Sdcard)
           usr == Mount("usr", Sdcard)
<1>d. /\ bind \in MountSet /\ bind.at = "userdata"
      /\ image \in MountSet /\ image.at = "image" /\ image.of = Sdcard
      /\ usr \in MountSet /\ usr.at = "usr"
  BY <1>c, MountTypes
<1>e. \/ mounts' = Append(mounts, bind) /\ swap' = swap
      \/ mounts' = mounts \o <<image, usr>> /\ swap' = swap
      \/ swap = {} /\ swap' = {Sdcard} /\ mounts' = mounts
  BY DEF FrontendMounts
<1> HIDE DEF bind, image, usr
<1>1. CASE mounts' = Append(mounts, bind) /\ swap' = swap
  <2>1. /\ mounts' \in Seq(MountSet) /\ ToSet(mounts') = ToSet(mounts) \cup {bind}
        /\ ImagesOnCard(mounts')
    BY <1>a, <1>d, <1>1, Added, ImagesAdded
  <2>2. swap' \in SUBSET Slots /\ swap \subseteq swap'
    BY <1>a, <1>1
  <2>3. /\ ToSet(mounts) \subseteq ToSet(mounts')
        /\ \A m \in ToSet(mounts') \ ToSet(mounts) : m.at # "SDCARD"
    BY <1>d, <2>1
  <2> QED BY <1>b, <2>1, <2>2, <2>3, MountsGrow
<1>2. CASE mounts' = mounts \o <<image, usr>> /\ swap' = swap
  <2> DEFINE q == Append(mounts, image)
  <2>1. mounts' = Append(q, usr)
    BY <1>a, <1>d, <1>2, AddedTwo
  <2>2. /\ q \in Seq(MountSet) /\ ToSet(q) = ToSet(mounts) \cup {image} /\ ImagesOnCard(q)
    BY <1>a, <1>c, <1>d, Added, ImagesAdded
  <2> HIDE DEF q
  <2>3. /\ mounts' \in Seq(MountSet) /\ ToSet(mounts') = ToSet(q) \cup {usr}
        /\ ImagesOnCard(mounts')
    BY <1>d, <2>1, <2>2, Added, ImagesAdded
  <2>4. /\ ToSet(mounts) \subseteq ToSet(mounts')
        /\ \A m \in ToSet(mounts') \ ToSet(mounts) : m.at # "SDCARD"
    BY <1>d, <2>2, <2>3
  <2>5. swap' \in SUBSET Slots /\ swap \subseteq swap'
    BY <1>a, <1>2
  <2> QED BY <1>b, <2>3, <2>4, <2>5, MountsGrow
<1>3. CASE swap = {} /\ swap' = {Sdcard} /\ mounts' = mounts
  <2>1. /\ ToSet(mounts') = ToSet(mounts)
        /\ \A m \in ToSet(mounts') \ ToSet(mounts) : m.at # "SDCARD"
    BY <1>3
  <2>2. /\ mounts' \in Seq(MountSet) /\ ImagesOnCard(mounts')
        /\ swap' \in SUBSET Slots /\ swap \subseteq swap'
    BY <1>a, <1>c, <1>3
  <2> QED BY <1>b, <2>1, <2>2, MountsGrow
<1> QED BY <1>e, <1>1, <1>2, <1>3

\* With the last process that used them, what was detached is gone.
LEMMA EndsIs ==
  ASSUME CardInv, NEW who, Ends(who), UNCHANGED <<mounts, swap>>
  PROVE  /\ card' \in [Slots -> Volumes] /\ lazy' \in {lazy, {}}
         /\ procs' = procs \ who /\ (procs' = {} => lazy' = {})
         /\ \A s \in Slots :
              card'[s].dirty /\ ~card'[s].found => card[s].dirty /\ ~card[s].found
         /\ DirtyInv'
<1>1. CardType /\ DirtyInv /\ ToSet(mounts)' = ToSet(mounts)
  BY DEF CardInv, ToSet
<1>2. card' = Settled(ToSet(mounts) \cup lazy', swap) /\ lazy' \in {lazy, {}}
  BY DEF Ends
<1>3. /\ card' \in [Slots -> Volumes]
      /\ \A s \in Slots : card'[s].dirty /\ ~card'[s].found
           => card[s].dirty /\ ~card[s].found /\ Alive(s, ToSet(mounts) \cup lazy', swap)
  BY <1>1, <1>2, SettledIs
<1>4. DirtyInv'
  BY <1>1, <1>3 DEF DirtyInv, Alive, AllMounts
<1> QED BY <1>2, <1>3, <1>4 DEF Ends

\* A frontend detaches a card that no image is on.
LEMMA FrontendLetsGo ==
  ASSUME CardInv, OnlyUp, FrontendDetaches
  PROVE  CardInv'
<1>a. /\ CardType /\ ImageInv /\ rck \in {"none", "term"}
      /\ UNCHANGED <<card, swap, procs, power, pc, scan, rck>> /\ pc = "frontend"
  BY SessionIsUp DEF CardInv, FrontendDetaches, OnlyUp, shutdownVars, sessionVars, keyVars
<1> DEFINE m == Mount("SDCARD", Sdcard)
<1>1. m \in ToSet(mounts) /\ m \in MountSet /\ m.of = Sdcard
  BY <1>a, SdcardIs, MountTypes DEF FrontendDetaches, MountedAt
<1>2. lazy' = lazy \cup {m} /\ mounts' = Without({m}) /\ ~Pins(Sdcard, AllMounts)
  BY DEF FrontendDetaches
<1>3. \A n \in ToSet(mounts) : ~(n.at = "image" /\ n.of = m.of)
  BY <1>1, <1>2 DEF Pins, AllMounts
<1> HIDE DEF m
<1>4. ImageInv'
  BY <1>a, <1>2, <1>3, ImagesLeft
<1>5. mounts' \in Seq(MountSet) /\ ToSet(mounts)' = ToSet(mounts) \ {m}
  BY <1>a, <1>2, Taken
<1>6. AllMounts' = AllMounts /\ \A at : MountedAt(at)' \subseteq MountedAt(at)
  BY <1>1, <1>2, <1>5 DEF AllMounts, MountedAt
<1>7. CardType' /\ GoingInv' /\ RepairInv' /\ DirtyInv' /\ UnmountInv'
  BY <1>a, <1>1, <1>2, <1>5, <1>6
     DEF CardInv, CardType, GoingInv, RepairInv, DirtyInv, UnmountInv, Alive
<1>8. SdcardInv' /\ SignalInv'
  BY <1>a, <1>6 DEF CardInv, SdcardInv, SignalInv
<1> QED BY <1>4, <1>7, <1>8 DEF CardInv

LEMMA FrontendCard ==
  ASSUME CardInv, Frontend, OnlyUp
  PROVE  CardInv'
<1>a. UNCHANGED <<rck, todo>>
  BY DEF OnlyUp, shutdownVars
<1>1. CASE FrontendMounts
  BY <1>1, FrontendAdds
<1>2. CASE FrontendLeaves
  <2>1. /\ UNCHANGED <<left, card, mounts, lazy, swap, power, pc, scan, rck>>
        /\ pc = "frontend"
    BY <1>a, <1>2 DEF FrontendLeaves, sessionVars, keyVars
  <2>2. /\ rck \in {"none", "term"} /\ scan' \in ScanType /\ card' \in [Slots -> Volumes]
    BY <2>1, SessionIsUp DEF CardInv, CardType
  <2> QED BY <2>1, <2>2, MountsStay
<1>3. CASE FrontendDetaches
  BY <1>3, FrontendLetsGo
<1>4. CASE FrontendExits \/ HelperExits
  <2>1. /\ UNCHANGED <<mounts, swap, power, scan>> /\ rck = "none" /\ rck' = "none"
        /\ pc' \in {pc, "displace"}
    BY <1>a, <1>4 DEF FrontendExits, HelperExits, Goto, keyVars, sessionVars, CardInv, GoingInv
  <2>2. PICK who : Ends(who)
    BY <1>4 DEF FrontendExits, HelperExits
  <2>3. card' \in [Slots -> Volumes] /\ lazy' \in {lazy, {}} /\ DirtyInv'
    BY <2>1, <2>2, EndsIs
  <2>4. AllMounts' \subseteq AllMounts /\ \A at : MountedAt(at)' = MountedAt(at)
    BY <2>1, <2>3 DEF AllMounts, MountedAt
  <2>5. CardType' /\ GoingInv' /\ RepairInv' /\ ImageInv' /\ UnmountInv'
    BY <2>1, <2>3, <2>4
       DEF CardInv, CardType, GoingInv, RepairInv, ImageInv, UnmountInv, Alive
  <2>6. SdcardInv' /\ SignalInv'
    BY <2>1, <2>4 DEF CardInv, SdcardInv, SignalInv
  <2> QED BY <2>3, <2>5, <2>6 DEF CardInv
<1>5. CASE FrontendPowersOff
  <2>1. UNCHANGED <<card, mounts, lazy, swap, procs, pc, scan>> /\ power' # "on"
    BY <1>5 DEF FrontendPowersOff, PowerOff, mountVars, sessionVars
  <2> QED BY <1>a, <2>1, NothingMoves
<1> QED BY <1>1, <1>2, <1>3, <1>4, <1>5 DEF Frontend

\* Putting a card in or out, the key and its daemon leave the mounts.
LEMMA OutsideCard ==
  ASSUME CardInv,
         \/ SwapCard /\ OnlyUp
         \/ (Press \/ Release \/ Tick) /\ OnlyKey
         \/ \E p \in Pids : DaemonStep(p)
  PROVE  CardInv'
<1>1. CASE SwapCard /\ OnlyUp
  <2>1. UNCHANGED <<card, mounts, lazy, swap, procs, pc, scan, rck, todo, power>>
    BY <1>1 DEF SwapCard, OnlyUp, shutdownVars, keyVars
  <2> QED BY <2>1, NothingMoves
<1>2. CASE (Press \/ Release \/ Tick) /\ OnlyKey
  <2>1. UNCHANGED <<card, mounts, lazy, swap, procs, pc, scan, rck, todo, power>>
    BY <1>2 DEF OnlyKey, mountVars, sessionVars, shutdownVars, Press, Release, Event, Tick
  <2> QED BY <2>1, NothingMoves
<1>3. ASSUME NEW p \in Pids, DaemonStep(p) PROVE CardInv'
  <2>1. UNCHANGED <<card, mounts, lazy, swap, procs, pc, scan, rck, todo>>
    BY <1>3 DEF DaemonStep, OnlyKey, mountVars, sessionVars, shutdownVars
  <2>2. power' = power \/ power' # "on"
    BY <1>3 DEF DaemonStep, Daemon, OpenKey, CheckHold, Poll, PowerOffHeld, PowerOff
  <2> QED BY <2>1, <2>2, NothingMoves
<1> QED BY <1>1, <1>2, <1>3

-----------------------------------------------------------------------------
\* Fewer mounts, in a session that goes on or is over.
LEMMA MountsShrink ==
  ASSUME CardInv, mounts' \in Seq(MountSet), lazy' \in SUBSET MountSet,
         swap' \in SUBSET Slots, card' \in [Slots -> Volumes], scan' = scan,
         AllMounts' \subseteq AllMounts, swap' \subseteq swap,
         \A at : MountedAt(at)' \subseteq MountedAt(at),
         pc' = pc \/ pc' = "none"
  PROVE  CardType' /\ RepairInv' /\ SdcardInv'
<1>1. CardType'
  BY DEF CardInv, CardType
<1>2. RepairInv'
  BY DEF CardInv, RepairInv, Alive
<1>3. SdcardInv'
  BY DEF CardInv, SdcardInv
<1> QED BY <1>1, <1>2, <1>3

\* A copy that is cut off changes files.
LEMMA CutIs ==
  ASSUME NEW cards \in [Slots -> Volumes], NEW c \in CopyCut(cards)
  PROVE  /\ c \in [Slots -> Volumes]
         /\ \A s \in Slots : c[s].dirty = cards[s].dirty /\ c[s].found = cards[s].found
<1>1. CASE c = cards
  BY <1>1
<1>2. CASE c # cards
  <2> DEFINE v == cards[Sdcard]
             Put(w) == [w EXCEPT !.tmp = "part"]
  <2>1. c = [cards EXCEPT ![Sdcard] = v] \/ c = [cards EXCEPT ![Sdcard] = Put(v)]
    BY <1>2 DEF CopyCut, Interrupted
  <2>2. ASSUME NEW w \in Volumes
        PROVE  Put(w) \in Volumes /\ Put(w).dirty = w.dirty /\ Put(w).found = w.found
    BY DEF Volumes
  <2> HIDE DEF Put
  <2> QED BY <2>1, <2>2
<1> QED BY <1>1, <1>2

\* What is over /usr is detached, and still in use.
LEMMA DetachCard ==
  ASSUME CardInv, Detach
  PROVE  CardInv'
<1>a. /\ CardType /\ ImageInv /\ lazy \in SUBSET MountSet /\ swap \in SUBSET Slots
      /\ card \in [Slots -> Volumes] /\ mounts \in Seq(MountSet) /\ power # "on"
      /\ UNCHANGED <<card, swap, procs, power, pc, scan>> /\ rck = "none" /\ rck' = "term"
  BY DEF CardInv, CardType, Detach, Rck, Going, keyVars, sessionVars
<1>1. mounts' = Without(OverUsr) /\ lazy' = lazy \cup OverUsr
  BY DEF Detach
<1>2. /\ OverUsr \subseteq ToSet(mounts) /\ OverUsr \subseteq MountSet
      /\ \A m \in OverUsr : m.at = "usr"
      /\ \A m \in ToSet(mounts) : m.at = "usr" => m \in OverUsr
  BY <1>a, MountsOf DEF OverUsr, MountedAt
<1>3. mounts' \in Seq(MountSet) /\ ToSet(mounts)' = ToSet(mounts) \ OverUsr
  BY <1>a, <1>1, Taken
<1>4. ImageInv'
  BY <1>a, <1>1, <1>2, ImagesLeft
<1>5. /\ AllMounts' = AllMounts /\ MountedAt("usr")' = {}
      /\ \A at : MountedAt(at)' \subseteq MountedAt(at)
  BY <1>1, <1>2, <1>3 DEF AllMounts, MountedAt
<1>6. CardType' /\ RepairInv' /\ SdcardInv'
  BY <1>a, <1>1, <1>2, <1>3, <1>5, MountsShrink
<1>7. GoingInv' /\ DirtyInv' /\ SignalInv' /\ UnmountInv'
  BY <1>a, <1>5 DEF CardInv, GoingInv, DirtyInv, SignalInv, UnmountInv, Alive
<1> QED BY <1>4, <1>6, <1>7 DEF CardInv

\* The session goes, with what it was copying.
LEMMA TermCard ==
  ASSUME CardInv, Term
  PROVE  CardInv'
<1>a. /\ CardType /\ DirtyInv /\ lazy \in SUBSET MountSet /\ swap \in SUBSET Slots
      /\ mounts \in Seq(MountSet) /\ power # "on"
      /\ UNCHANGED <<mounts, swap, power, scan>> /\ rck = "term" /\ rck' = "kill"
      /\ pc' = "none" /\ lazy' \in {lazy, {}}
  BY DEF CardInv, CardType, GoingInv, Term, Rck
<1> DEFINE cards == Settled(ToSet(mounts) \cup lazy', swap)
<1>1. card' \in CopyCut(cards)
  BY DEF Term
<1>2. /\ cards \in [Slots -> Volumes]
      /\ \A s \in Slots : cards[s].dirty /\ ~cards[s].found
           => card[s].dirty /\ ~card[s].found /\ Alive(s, ToSet(mounts) \cup lazy', swap)
  BY <1>a, SettledIs
<1> HIDE DEF cards
<1>3. /\ card' \in [Slots -> Volumes]
      /\ \A s \in Slots : card'[s].dirty = cards[s].dirty /\ card'[s].found = cards[s].found
  BY <1>1, <1>2, CutIs
<1>4. ToSet(mounts)' = ToSet(mounts)
  BY <1>a DEF ToSet
<1>5. AllMounts' \subseteq AllMounts /\ \A at : MountedAt(at)' = MountedAt(at)
  BY <1>a, <1>4 DEF AllMounts, MountedAt
<1>6. CardType' /\ RepairInv' /\ SdcardInv'
  BY <1>a, <1>3, <1>5, MountsShrink
<1>7. DirtyInv'
  BY <1>a, <1>2, <1>3, <1>4 DEF DirtyInv, Alive, AllMounts
<1>8. GoingInv' /\ ImageInv' /\ SignalInv' /\ UnmountInv'
  BY <1>a, <1>5 DEF CardInv, GoingInv, ImageInv, SignalInv, UnmountInv
<1> QED BY <1>6, <1>7, <1>8 DEF CardInv

\* A process that survives is all that keeps what was detached.
LEMMA KillCard ==
  ASSUME CardInv, Kill
  PROVE  CardInv'
<1>a. /\ lazy \in SUBSET MountSet /\ swap \in SUBSET Slots
      /\ mounts \in Seq(MountSet) /\ power # "on" /\ pc = "none"
      /\ UNCHANGED <<mounts, swap, power, pc, scan>> /\ rck = "kill" /\ rck' = "swapoff"
  BY DEF CardInv, CardType, GoingInv, Kill, keyVars, sessionVars
<1>1. PICK who : Ends(who)
  BY DEF Kill
<1>2. /\ card' \in [Slots -> Volumes] /\ lazy' \in {lazy, {}}
      /\ procs' = {} => lazy' = {}
      /\ DirtyInv'
  BY <1>a, <1>1, EndsIs
<1>3. AllMounts' \subseteq AllMounts /\ \A at : MountedAt(at)' = MountedAt(at)
  BY <1>a, <1>2 DEF AllMounts, MountedAt
<1>4. CardType' /\ RepairInv' /\ SdcardInv'
  BY <1>a, <1>2, <1>3, MountsShrink
<1>5. GoingInv' /\ ImageInv' /\ SignalInv' /\ UnmountInv'
  BY <1>a, <1>2, <1>3 DEF CardInv, GoingInv, ImageInv, SignalInv, UnmountInv
<1> QED BY <1>2, <1>4, <1>5 DEF CardInv

\* The order in which rcK unmounts: an image before the card it is on.
LEMMA Reversed ==
  ASSUME NEW q \in Seq(MountSet), ImagesOnCard(q)
  PROVE  /\ Reverse(q) \in Seq(MountSet) /\ ToSet(Reverse(q)) = ToSet(q)
         /\ ImagesFirst(Reverse(q))
<1> DEFINE r == Reverse(q)
           n == Len(q)
<1>1. n \in Nat /\ DOMAIN q = 1 .. n /\ \A i \in 1 .. n : q[i] \in MountSet
  BY LenProperties, ElementOfSeq
<1>2. r = [i \in 1 .. n |-> q[(n - i) + 1]]
  BY DEF Reverse
<1> HIDE DEF r, n
<1>3. \A i \in 1 .. n : (n - i) + 1 \in 1 .. n /\ (n - ((n - i) + 1)) + 1 = i
  BY <1>1
<1>4. DOMAIN r = 1 .. n /\ \A i \in 1 .. n : r[i] = q[(n - i) + 1]
  BY <1>2
<1>5. r \in Seq(MountSet)
  <2>1. r \in [1 .. n -> MountSet]
    BY <1>1, <1>2, <1>3
  <2> QED BY <1>1, <2>1
<1>6. ToSet(r) = ToSet(q)
  <2>1. ASSUME NEW i \in 1 .. n PROVE r[i] \in ToSet(q) /\ q[i] \in ToSet(r)
    <3>1. r[(n - i) + 1] = q[i] /\ (n - i) + 1 \in 1 .. n
      BY <1>3, <1>4
    <3>2. r[i] = q[(n - i) + 1]
      BY <1>4
    <3> QED BY <1>1, <1>4, <3>1, <3>2 DEF ToSet
  <2> QED BY <1>1, <1>4, <2>1 DEF ToSet
<1>7. ImagesFirst(r)
  <2> SUFFICES ASSUME NEW i \in 1 .. n, NEW j \in 1 .. n, i < j, r[j].at = "image"
               PROVE  r[i] # Mount("SDCARD", r[j].of)
    BY <1>4 DEF ImagesFirst
  <2> DEFINE k == (n - j) + 1
             l == (n - i) + 1
  <2>1. k \in 1 .. n /\ l \in 1 .. n /\ k < l
    BY <1>1, <1>3
  <2>2. r[i] = q[l] /\ r[j] = q[k]
    BY <1>4
  <2> HIDE DEF k, l
  <2> QED BY <1>1, <2>1, <2>2 DEF ImagesOnCard
<1> QED BY <1>5, <1>6, <1>7 DEF r

LEMMA SwapOffCard ==
  ASSUME CardInv, SwapOff
  PROVE  CardInv'
<1>a. /\ CardType /\ DirtyInv /\ lazy \in SUBSET MountSet
      /\ mounts \in Seq(MountSet) /\ ImagesOnCard(mounts) /\ power # "on" /\ pc = "none"
      /\ UNCHANGED <<mounts, lazy, procs, power, pc, scan>> /\ rck = "swapoff" /\ rck' = "unmount"
      /\ swap' = {}
  BY DEF CardInv, CardType, GoingInv, ImageInv, SwapOff, Rck, keyVars, sessionVars
<1>1. todo' = Reverse(mounts) /\ card' = Settled(AllMounts, {})
  BY DEF SwapOff
<1>2. /\ todo' \in Seq(MountSet) /\ ToSet(todo') = ToSet(mounts) /\ ImagesFirst(todo')
  BY <1>a, <1>1, Reversed
<1>3. /\ card' \in [Slots -> Volumes]
      /\ \A s \in Slots : card'[s].dirty /\ ~card'[s].found => Alive(s, AllMounts, {})
  BY <1>a, <1>1, SettledIs
<1>4. /\ ToSet(mounts)' = ToSet(mounts) /\ ToSet(todo)' = ToSet(todo') /\ AllMounts' = AllMounts
      /\ \A at : MountedAt(at)' = MountedAt(at)
  BY <1>a DEF ToSet, AllMounts, MountedAt
<1>5. CardType' /\ RepairInv' /\ SdcardInv'
  BY <1>a, <1>3, <1>4, MountsShrink
<1>6. DirtyInv'
  BY <1>a, <1>3, <1>4 DEF DirtyInv
<1>7. GoingInv' /\ ImageInv' /\ SignalInv'
  BY <1>a, <1>4 DEF CardInv, GoingInv, ImageInv, SignalInv
<1>8. UnmountInv'
  <2>1. ImagesFirst(todo)'
    BY <1>2 DEF ImagesFirst
  <2> QED BY <1>a, <1>2, <1>4, <2>1 DEF UnmountInv
<1> QED BY <1>5, <1>6, <1>7, <1>8 DEF CardInv

\* The mount whose turn it is, and the rest.
LEMMA NextMount ==
  ASSUME NEW q \in Seq(MountSet), q # <<>>, ImagesFirst(q)
  PROVE  /\ Head(q) \in MountSet /\ Tail(q) \in Seq(MountSet)
         /\ ToSet(q) = {Head(q)} \cup ToSet(Tail(q))
         /\ ImagesFirst(Tail(q))
         /\ \A m \in ToSet(Tail(q)) : m.at = "image" => Head(q) # Mount("SDCARD", m.of)
<1> DEFINE t == Tail(q)
<1>1. /\ Head(q) \in MountSet /\ t \in Seq(MountSet) /\ Len(t) = Len(q) - 1
      /\ \A i \in 1 .. Len(t) : t[i] = q[i + 1]
  BY HeadTailProperties
<1>2. Head(q) = q[1]
  OBVIOUS
<1>3. Len(q) \in Nat /\ Len(q) >= 1 /\ DOMAIN q = 1 .. Len(q)
  BY LenProperties, EmptySeq
<1> HIDE DEF t
<1>4. DOMAIN t = 1 .. Len(t) /\ Len(t) \in Nat
  BY <1>1, LenProperties
<1>5. \A i \in DOMAIN t : i + 1 \in DOMAIN q /\ 1 < i + 1 /\ t[i] = q[i + 1]
  BY <1>1, <1>3, <1>4
<1>6. \A i \in DOMAIN q : i = 1 \/ (i - 1 \in DOMAIN t /\ q[i] = t[i - 1])
  BY <1>1, <1>3, <1>4
<1>7. 1 \in DOMAIN q
  BY <1>3
<1>8. ToSet(q) = {q[1]} \cup ToSet(t)
  BY <1>5, <1>6, <1>7 DEF ToSet
<1>9. ImagesFirst(t)
  <2> SUFFICES ASSUME NEW i \in DOMAIN t, NEW j \in DOMAIN t, i < j, t[j].at = "image"
               PROVE  t[i] # Mount("SDCARD", t[j].of)
    BY DEF ImagesFirst
  <2>1. i + 1 < j + 1
    BY <1>4
  <2> QED BY <1>5, <2>1 DEF ImagesFirst
<1>10. ASSUME NEW m \in ToSet(t), m.at = "image" PROVE q[1] # Mount("SDCARD", m.of)
  <2>1. PICK i \in DOMAIN t : m = t[i]
    BY DEF ToSet
  <2> QED BY <1>5, <1>7, <1>10, <2>1 DEF ImagesFirst
<1> QED BY <1>1, <1>2, <1>8, <1>9, <1>10 DEF t

\* What rcK has not yet passed is what it must still settle: a mount that is
\* unmounted settles its volume, one that is busy because a process is left keeps it
\* or is marked clean, and no image is left when the turn of its card comes.
LEMMA StillToSettle ==
  ASSUME CardInv, ~MountsLate, Unmount
  PROVE  UnmountInv'
<1> DEFINE m == Head(todo)
<1>a. /\ CardType /\ DirtyInv /\ lazy \in SUBSET MountSet /\ card \in [Slots -> Volumes]
      /\ mounts \in Seq(MountSet) /\ rck = "unmount" /\ rck' = "unmount"
      /\ UNCHANGED <<lazy, swap, procs>> /\ todo # <<>>
      /\ \A n \in ToSet(mounts) : n.at = "image" => Mount("SDCARD", n.of) \in ToSet(mounts)
  BY DEF CardInv, CardType, ImageInv, ImagesOnCard, Unmount, Rck
<1>b. /\ swap = {} /\ todo \in Seq(MountSet) /\ ImagesFirst(todo)
      /\ \A n \in ToSet(mounts) \ ToSet(todo) : procs # {} /\ n.at # "image"
      /\ \A s \in Slots : card[s].dirty /\ ~card[s].found =>
           \/ HeldLazily(s)
           \/ Mount("SDCARD", s) \in ToSet(mounts) \cap ToSet(todo)
           \/ \A n \in ToSet(mounts) : n.of = s => n \in ToSet(todo)
      /\ procs = {} => lazy = {}
      /\ \A n \in ToSet(mounts) : n.at # "usr"
  BY <1>a DEF CardInv, UnmountInv, SignalInv, MountedAt
<1>c. todo' = Tail(todo)
  BY DEF Unmount
<1>d. /\ m \in MountSet /\ todo' \in Seq(MountSet) /\ ToSet(todo) = {m} \cup ToSet(todo')
      /\ ImagesFirst(todo')
      /\ \A n \in ToSet(todo') : n.at = "image" => m # Mount("SDCARD", n.of)
  BY <1>a, <1>b, <1>c, NextMount
<1>e. ToSet(todo)' = ToSet(todo') /\ ImagesFirst(todo)' = ImagesFirst(todo')
  BY DEF ToSet, ImagesFirst
<1>f. /\ ~Busy(m) => Drop({m})
      /\ Busy(m) => UNCHANGED mounts
      /\ Busy(m) /\ Writable(m) => card' = card
      /\ Busy(m) /\ ~Writable(m) => card' = [card EXCEPT ![m.of].dirty = card[m.of].found]
  BY DEF Unmount
<1> HIDE DEF m
<1>g. m = Mount(m.at, m.of) /\ m.of \in Slots
  BY <1>d, MountNames
\* None of the images of a card is mounted when its turn comes.
<1>1. \A n \in ToSet(mounts) : n.at = "image" => n \in ToSet(todo) /\ m # Mount("SDCARD", n.of)
  <2> SUFFICES ASSUME NEW n \in ToSet(mounts), n.at = "image"
               PROVE  n \in ToSet(todo) /\ m # Mount("SDCARD", n.of)
    OBVIOUS
  <2>1. n \in ToSet(todo)
    BY <1>b
  <2>2. CASE n = m
    BY <2>1, <2>2 DEF Mount
  <2> QED BY <1>d, <2>1, <2>2
\* What pins the volume of this one then is detached, and a process has it.
<1>2. ASSUME NEW s \in Slots, Pins(s, AllMounts), m = Mount("SDCARD", s)
      PROVE  HeldLazily(s)
  <2>1. PICK n \in AllMounts : n.of = s /\ n.at \in {"image", "usr"}
    BY <1>2 DEF Pins
  <2>2. n \notin ToSet(mounts)
    BY <1>1, <1>2, <1>b, <2>1
  <2> QED BY <1>b, <2>1, <2>2 DEF AllMounts, HeldLazily
\* What is busy is busy with a process, and is no image.
<1>3. ASSUME Busy(m), m \in ToSet(mounts) PROVE procs # {} /\ m.at # "image"
  <2>1. m.at # "usr"
    BY <1>b, <1>3
  <2>2. CASE m.at # "image" /\ procs # {}
    BY <2>2
  <2>3. CASE m.at = "SDCARD" /\ Pins(m.of, AllMounts)
    BY <1>2, <1>g, <2>3 DEF HeldLazily
  <2> QED BY <1>3, <1>b, <2>1, <2>2, <2>3 DEF Busy
<1>4. CASE ~Busy(m)
  <2>1. /\ ToSet(mounts)' = ToSet(mounts) \ {m}
        /\ \A s \in Slots : card'[s].dirty /\ ~card'[s].found => card[s].dirty /\ ~card[s].found
    <3>1. \A k \in {m} : k.at = "SDCARD" =>
            \A n \in ToSet(mounts) : ~(n.at = "image" /\ n.of = k.of)
      BY <1>4 DEF Busy, Pins, AllMounts
    <3> QED BY <1>a, <1>f, <1>4, <3>1, Dropped
  <2>2. m.at = "SDCARD" => procs = {}
    BY <1>4 DEF Busy
  <2>3. \A n \in ToSet(mounts)' \ ToSet(todo)' : n \in ToSet(mounts) \ ToSet(todo)
    BY <1>d, <1>e, <2>1
  <2>4. ASSUME NEW s \in Slots, card'[s].dirty /\ ~card'[s].found
        PROVE  \/ HeldLazily(s)'
               \/ Mount("SDCARD", s) \in ToSet(mounts)' \cap ToSet(todo)'
               \/ \A n \in ToSet(mounts)' : n.of = s => n \in ToSet(todo)'
    <3>1. card[s].dirty /\ ~card[s].found
      BY <2>1, <2>4
    <3>2. CASE HeldLazily(s)
      BY <1>a, <3>2 DEF HeldLazily
    <3>3. CASE Mount("SDCARD", s) \in ToSet(mounts) \cap ToSet(todo)
      <4>1. CASE m = Mount("SDCARD", s)
        <5>1. m.at = "SDCARD"
          BY <4>1 DEF Mount
        <5>2. ToSet(mounts) \subseteq ToSet(todo)
          BY <1>b, <2>2, <5>1
        <5> QED BY <1>d, <1>e, <2>1, <5>2
      <4>2. CASE m # Mount("SDCARD", s)
        BY <1>d, <1>e, <2>1, <3>3, <4>2
      <4> QED BY <4>1, <4>2
    <3>4. CASE \A n \in ToSet(mounts) : n.of = s => n \in ToSet(todo)
      BY <1>d, <1>e, <2>1, <3>4
    <3> QED BY <1>b, <3>1, <3>2, <3>3, <3>4
  <2> QED BY <1>a, <1>b, <1>d, <1>e, <2>3, <2>4 DEF UnmountInv
<1>5. CASE Busy(m)
  <2>1. ToSet(mounts)' = ToSet(mounts)
    BY <1>f, <1>5 DEF ToSet
  <2>2. \A n \in ToSet(mounts)' \ ToSet(todo)' : procs # {} /\ n.at # "image"
    BY <1>b, <1>d, <1>e, <1>3, <1>5, <2>1
  <2>3. ASSUME NEW s \in Slots, card[s].dirty /\ ~card[s].found, Writable(m) \/ m.of # s
        PROVE  \/ HeldLazily(s)'
               \/ Mount("SDCARD", s) \in ToSet(mounts)' \cap ToSet(todo)'
               \/ \A n \in ToSet(mounts)' : n.of = s => n \in ToSet(todo)'
    <3>0. HeldLazily(s)' = HeldLazily(s)
      BY <1>a DEF HeldLazily
    <3>1. CASE HeldLazily(s)
      BY <3>0, <3>1
    <3>2. CASE Mount("SDCARD", s) \in ToSet(mounts) \cap ToSet(todo)
      <4>1. CASE m = Mount("SDCARD", s)
        <5>1. m.at = "SDCARD" /\ m.of = s
          BY <4>1 DEF Mount
        <5>2. Pins(s, AllMounts)
          BY <1>b, <2>3, <5>1 DEF Writable
        <5> QED BY <1>2, <3>0, <4>1, <5>2
      <4>2. CASE m # Mount("SDCARD", s)
        BY <1>d, <1>e, <2>1, <3>2, <4>2
      <4> QED BY <4>1, <4>2
    <3>3. CASE \A n \in ToSet(mounts) : n.of = s => n \in ToSet(todo)
      <4>1. CASE m \in ToSet(mounts) /\ m.of = s
        <5>1. m.at \notin {"image", "usr"}
          BY <1>b, <1>3, <1>5, <4>1
        <5>2. Pins(s, AllMounts)
          BY <1>b, <2>3, <4>1, <5>1 DEF Writable
        <5>3. PICK n \in AllMounts : n.of = s /\ n.at \in {"image", "usr"}
          BY <5>2 DEF Pins
        <5>4. CASE n \in ToSet(mounts)
          <6>1. n.at = "image"
            BY <1>b, <5>3, <5>4
          <6>2. Mount("SDCARD", s) \in ToSet(mounts) /\ m # Mount("SDCARD", s)
            BY <1>a, <1>1, <5>3, <5>4, <6>1
          <6>3. Mount("SDCARD", s).of = s
            BY DEF Mount
          <6> QED BY <1>d, <1>e, <2>1, <3>3, <6>2, <6>3
        <5>5. CASE n \notin ToSet(mounts)
          <6>1. HeldLazily(s)
            BY <1>b, <5>3, <5>5 DEF AllMounts, HeldLazily
          <6> QED BY <3>0, <6>1
        <5> QED BY <5>4, <5>5
      <4>2. CASE ~(m \in ToSet(mounts) /\ m.of = s)
        BY <1>d, <1>e, <2>1, <3>3, <4>2
      <4> QED BY <4>1, <4>2
    <3> QED BY <1>b, <2>3, <3>1, <3>2, <3>3
  <2>4. ASSUME NEW s \in Slots, card'[s].dirty /\ ~card'[s].found
        PROVE  card[s].dirty /\ ~card[s].found /\ (Writable(m) \/ m.of # s)
    <3>1. CASE Writable(m)
      BY <1>f, <1>5, <2>4, <3>1
    <3>2. CASE ~Writable(m)
      <4> DEFINE Put(w) == [w EXCEPT !.dirty = card[m.of].found]
      <4>1. card' = [card EXCEPT ![m.of] = Put(card[m.of])]
        BY <1>f, <1>5, <3>2
      <4>2. Put(card[m.of]).dirty = card[m.of].found /\ Put(card[m.of]).found = card[m.of].found
        BY <1>a, <1>g DEF Volumes
      <4> HIDE DEF Put
      <4> QED BY <1>a, <1>g, <2>4, <4>1, <4>2
    <3> QED BY <3>1, <3>2
  <2> QED BY <1>a, <1>b, <1>d, <1>e, <2>2, <2>3, <2>4 DEF UnmountInv
<1> QED BY <1>4, <1>5

LEMMA UnmountCard ==
  ASSUME CardInv, Unmount
  PROVE  CardInv'
<1> DEFINE m == Head(todo)
<1>a. /\ CardType /\ DirtyInv /\ lazy \in SUBSET MountSet /\ swap \in SUBSET Slots
      /\ card \in [Slots -> Volumes] /\ mounts \in Seq(MountSet)
      /\ UNCHANGED <<lazy, swap, procs, power, pc, scan>> /\ rck = "unmount" /\ rck' = "unmount"
  BY DEF CardInv, CardType, Unmount, Rck, keyVars, sessionVars
<1>b. \/ ~Busy(m) /\ Drop({m})
      \/ /\ UNCHANGED mounts
         /\ card' \in {card, [card EXCEPT ![m.of].dirty = card[m.of].found]}
  BY DEF Unmount
<1> HIDE DEF m
<1>1. /\ mounts' \in Seq(MountSet) /\ card' \in [Slots -> Volumes]
      /\ ToSet(mounts)' \subseteq ToSet(mounts) /\ DirtyInv' /\ ImageInv'
  <2>1. CASE ~Busy(m) /\ Drop({m})
    <3>1. \A k \in {m} : k.at = "SDCARD" =>
            \A n \in ToSet(mounts) : ~(n.at = "image" /\ n.of = k.of)
      BY <2>1 DEF Busy, Pins, AllMounts
    <3> QED BY <1>a, <2>1, <3>1, Dropped
  <2>2. CASE UNCHANGED mounts /\ card' \in {card, [card EXCEPT ![m.of].dirty = card[m.of].found]}
    <3> DEFINE found == card[m.of].found
               Put(w) == [w EXCEPT !.dirty = found]
    <3>1. card' = card \/ card' = [card EXCEPT ![m.of] = Put(card[m.of])]
      BY <2>2
    <3>2. ASSUME m.of \in Slots
          PROVE  /\ Put(card[m.of]) \in Volumes
                 /\ Put(card[m.of]).dirty = Put(card[m.of]).found
      BY <1>a, <3>2 DEF Volumes
    <3> HIDE DEF Put, found
    <3>3. /\ card' \in [Slots -> Volumes]
          /\ \A s \in Slots : card'[s].dirty /\ ~card'[s].found => card[s].dirty /\ ~card[s].found
      BY <1>a, <3>1, <3>2
    <3>4. ToSet(mounts)' = ToSet(mounts)
      BY <2>2 DEF ToSet
    <3>5. DirtyInv'
      BY <1>a, <3>3, <3>4 DEF DirtyInv, Alive, AllMounts
    <3>6. ImageInv'
      BY <2>2 DEF CardInv, ImageInv
    <3> QED BY <1>a, <2>2, <3>3, <3>4, <3>5, <3>6
  <2> QED BY <1>b, <2>1, <2>2
<1>2. AllMounts' \subseteq AllMounts /\ \A at : MountedAt(at)' \subseteq MountedAt(at)
  BY <1>a, <1>1 DEF AllMounts, MountedAt
<1>3. CardType' /\ RepairInv' /\ SdcardInv'
  BY <1>a, <1>1, <1>2, MountsShrink
<1>4. GoingInv' /\ SignalInv'
  BY <1>a, <1>2 DEF CardInv, GoingInv, SignalInv
<1>5. UnmountInv'
  <2>1. CASE MountsLate
    BY <2>1 DEF UnmountInv
  <2> QED BY <2>1, StillToSettle
<1> QED BY <1>1, <1>3, <1>4, <1>5 DEF CardInv

\* A boot finds the volumes as they are, and mounts them anew.
LEMMA StartCard ==
  ASSUME CardInv, NEW cards \in [Slots -> Volumes], Start(cards)
  PROVE  CardInv'
<1>1. /\ mounts' = <<>> /\ lazy' = {} /\ swap' = {} /\ power' = "on" /\ rck' = "none"
      /\ Call("rcS")
      /\ card' = [s \in Slots |-> [cards[s] EXCEPT !.found = cards[s].dirty]]
  BY DEF Start
<1> DEFINE Put(w) == [w EXCEPT !.found = w.dirty]
<1>2. \A w \in Volumes : Put(w) \in Volumes /\ Put(w).dirty = Put(w).found
  BY DEF Volumes
<1>3. card' = [s \in Slots |-> Put(cards[s])]
  BY <1>1
<1> HIDE DEF Put
<1>4. /\ card' \in [Slots -> Volumes]
      /\ \A s \in Slots : card'[s].dirty = card'[s].found
  BY <1>2, <1>3
<1>5. pc' = "look" /\ scan' \in ScanType
  BY <1>1, CallsFrom
<1>6. ToSet(mounts') = {} /\ ToSet(mounts)' = ToSet(mounts') /\ mounts' \in Seq(MountSet)
      /\ ImagesOnCard(mounts')
  BY <1>1, NoMounts DEF ToSet
<1>7. CardType' /\ GoingInv' /\ RepairInv'
  BY <1>1, <1>4, <1>5, <1>6 DEF CardType, GoingInv, RepairInv
<1>8. DirtyInv' /\ ImageInv'
  BY <1>4, <1>6 DEF DirtyInv, ImageInv
<1>9. SdcardInv' /\ SignalInv' /\ UnmountInv'
  BY <1>1, <1>5, <1>6 DEF SdcardInv, SignalInv, UnmountInv, MountedAt
<1> QED BY <1>7, <1>8, <1>9 DEF CardInv

LEMMA CardStep ==
  ASSUME CardInv, [Next]_vars
  PROVE  CardInv'
<1>1. CASE SessionStep
  BY <1>1, SessionCard
<1>2. CASE Frontend /\ OnlyUp
  BY <1>2, FrontendCard
<1>3. CASE \/ SwapCard /\ OnlyUp
           \/ (Press \/ Release \/ Tick) /\ OnlyKey
           \/ \E p \in Pids : DaemonStep(p)
  BY <1>3, OutsideCard
<1>4. CASE RcK
  <2>1. CASE Halt
    <3>1. /\ UNCHANGED <<card, mounts, lazy, swap, procs, pc, scan, todo>> /\ power' # "on"
          /\ rck = "unmount" /\ rck' = "off" /\ todo = <<>>
      BY <2>1 DEF Halt, Rck, mountVars, sessionVars
    <3>2. CardType' /\ GoingInv' /\ RepairInv' /\ DirtyInv'
      BY <3>1 DEF CardInv, CardType, GoingInv, RepairInv, DirtyInv, Alive, AllMounts
    <3>3. ImageInv' /\ SdcardInv' /\ SignalInv'
      BY <3>1 DEF CardInv, ImageInv, SdcardInv, SignalInv, MountedAt
    <3>4. UnmountInv'
      BY <3>1 DEF CardInv, UnmountInv, HeldLazily
    <3> QED BY <3>2, <3>3, <3>4 DEF CardInv
  <2> QED BY <1>4, <2>1, DetachCard, TermCard, KillCard, SwapOffCard, UnmountCard DEF RcK
<1>5. CASE Boot \/ Cut
  <2>1. card \in [Slots -> Volumes]
    BY DEF CardInv, CardType
  <2>2. PICK cards \in CopyCut(card) \cup {card} : Start(cards)
    BY <1>5 DEF Boot, Cut
  <2>3. cards \in [Slots -> Volumes]
    BY <2>1, CutIs
  <2> QED BY <2>2, <2>3, StartCard
<1>6. CASE UNCHANGED vars
  <2>1. UNCHANGED <<card, mounts, lazy, swap, procs, pc, scan, rck, todo, power>>
    BY <1>6 DEF vars, mountVars, sessionVars, shutdownVars, keyVars
  <2> QED BY <2>1, NothingMoves
<1> QED BY <1>1, <1>2, <1>3, <1>4, <1>5, <1>6 DEF Next

\* What is mounted, detached and dirty is related as CardInv says at every step of the
\* session, of whatever frontend, of rcK and of a power cut.
THEOREM CardInvariant == Spec => []CardInv
<1>1. CardInv /\ [Next]_vars => CardInv'
  BY CardStep
<1> QED BY <1>1, CardInit, PTL DEF Spec

\* fsck.fat has the volume to itself, for any cards, any frontend, early or late, and
\* with a detached mount that /proc/mounts does not show.
THEOREM RepairsAlone == Spec => []RepairedAlone
<1>1. CardInv => RepairedAlone
  BY DEF CardInv, RepairInv, RepairedAlone
<1> QED BY <1>1, CardInvariant, PTL

\* A shutdown leaves no volume dirty that was not found so, for any cards and any
\* number of survivors, if no frontend mounts anything once rcK runs: at its end there
\* is nothing it has still to unmount, so a dirty volume is one a process keeps.
THEOREM LeavesClean == ASSUME ~MountsLate PROVE Spec => []LeftClean
<1>1. ASSUME CardInv, rck = "off", NEW s \in Slots, card[s].dirty, ~card[s].found
      PROVE  HeldLazily(s)
  <2>1. DirtyInv /\ ToSet(todo) = {} /\ swap = {}
    BY <1>1, NoMounts DEF CardInv, UnmountInv
  <2>2. Alive(s, AllMounts, swap)
    BY <1>1, <2>1 DEF DirtyInv
  <2>3. PICK m \in AllMounts : m.of = s
    BY <2>1, <2>2 DEF Alive
  <2>4. CASE m \in ToSet(mounts)
    BY <1>1, <2>1, <2>3, <2>4 DEF CardInv, UnmountInv
  <2>5. CASE m \in lazy
    <3>1. procs # {}
      BY <1>1, <2>5 DEF CardInv, SignalInv
    <3> QED BY <2>3, <2>5, <3>1 DEF HeldLazily
  <2> QED BY <2>3, <2>4, <2>5 DEF AllMounts
<1>2. CardInv => LeftClean
  BY <1>1 DEF LeftClean, HeldLazily
<1> QED BY <1>2, CardInvariant, PTL
=============================================================================
