------------------------------- MODULE PowerKey -------------------------------
(***************************************************************************)
(* src/pwrkeyd.c: powers off when the power key is held for HOLD while no   *)
(* frontend reads it.  The key, the kernel's queue of its events for each   *)
(* daemon that opened it, the loop of the daemon and the clock are steps of *)
(* their own.  A daemon that has something to do is run within LAG.         *)
(***************************************************************************)
EXTENDS Integers, Sequences, SequencesExt, FiniteSets

CONSTANTS
  Pids,   \* the processes daemons may be
  HOLD,   \* HOLD_MS, in ticks
  LAG,    \* how many ticks a runnable daemon waits for the CPU
  EVENTS  \* how many unread events a queue is followed to

ASSUME KeyAssumption == HOLD \in Nat \ {0} /\ LAG \in 0 .. HOLD - 1 /\ EVENTS \in Nat \ {0}

VARIABLES
  key,     \* down: held; for: how long, up to HOLD; full: a press that a
           \* daemon has not done with lasted HOLD
  daemons, \* what each process is at
  power    \* "on", "going" and "going to charge" from poweroff on, then
           \* "off" or "charge"

keyVars == <<key, daemons, power>>

NoDaemon == [at |-> "none", left |-> -1, queue |-> <<>>, late |-> 0]
NoKey == [down |-> FALSE, for |-> 0, full |-> FALSE]

\* /proc/PID/comm: a child is pwrkeyd from its exec on and until poweroff's.
Watching(p) == daemons[p].at \in {"top", "poll"}
Idle(p) == daemons[p].left = -1 /\ daemons[p].queue = <<>>

-----------------------------------------------------------------------------
\* An event goes to every daemon that has the device open.
Event(value) ==
  daemons' = [p \in Pids |->
    IF Watching(p) THEN [daemons[p] EXCEPT !.queue = Append(@, value)] ELSE daemons[p]]
Followed == \A p \in Pids : Len(daemons[p].queue) < EVENTS

\* The key is followed while a daemon may make something of it; a poweroff that
\* was started has called init before the next tick.
Followable ==
  /\ power = "on" /\ \E p \in Pids : daemons[p].at # "none"
  /\ \A p \in Pids : daemons[p].at # "poweroff"
Unfollowed(ds) ==
  /\ key' = NoKey
  /\ daemons' = [p \in Pids |-> IF ds[p].at \in {"top", "poll"}
                               THEN [NoDaemon EXCEPT !.at = "poll"] ELSE ds[p]]

Press ==
  /\ Followable /\ Followed /\ ~key.down
  /\ key' = [down |-> TRUE, for |-> 0,
             full |-> key.full /\ \E p \in Pids : ~Idle(p)]
  /\ Event("down") /\ UNCHANGED power

Release ==
  /\ Followable /\ Followed /\ key.down
  /\ key' = [key EXCEPT !.down = FALSE] /\ Event("up") /\ UNCHANGED power

Runnable(d) == d.at = "top" \/ (d.at = "poll" /\ (d.left = 0 \/ d.queue # <<>>))

Tick ==
  /\ Followable
  /\ key.down \/ \E p \in Pids : daemons[p].left > 0
  /\ \A p \in Pids : Runnable(daemons[p]) => daemons[p].late < LAG
  /\ LET held == IF key.down /\ key.for < HOLD THEN key.for + 1 ELSE key.for
     IN key' = [key EXCEPT !.for = held, !.full = @ \/ (key.down /\ held = HOLD)]
  /\ daemons' = [p \in Pids |->
       [daemons[p] EXCEPT !.left = IF @ > 0 THEN @ - 1 ELSE @,
                          !.late = IF Runnable(daemons[p]) THEN @ + 1 ELSE 0]]
  /\ UNCHANGED power

-----------------------------------------------------------------------------
\* open_key; what was pressed before is not seen.
OpenKey(p) ==
  /\ daemons[p].at = "forked"
  /\ daemons' = [daemons EXCEPT ![p] = [NoDaemon EXCEPT !.at = "top"]]
  /\ UNCHANGED <<key, power>>

\* The top of the loop: is the deadline past?
CheckHold(p) ==
  /\ daemons[p].at = "top"
  /\ daemons' = [daemons EXCEPT ![p].late = 0,
                                ![p].at = IF daemons[p].left = 0 THEN "poweroff" ELSE "poll"]
  /\ UNCHANGED <<key, power>>

\* Mutant: a release is not read as one.
AfterPressOnly(d) == IF Last(d.queue) = "down" THEN HOLD ELSE d.left

\* The last event of what is read decides; a press counts from when it is read.
After(d) == IF Last(d.queue) = "down" THEN HOLD ELSE -1

\* poll: events that are there are read even when the time is up.
Poll(p) ==
  LET d == daemons[p]
  IN /\ d.at = "poll" /\ Runnable(d)
     /\ daemons' = [daemons EXCEPT ![p] =
          IF d.queue # <<>>
          THEN [at |-> "top", left |-> After(d), queue |-> <<>>, late |-> 0]
          ELSE [d EXCEPT !.at = "top", !.late = 0]]
     /\ UNCHANGED <<key, power>>

\* /usr/sbin/poweroff: with the charger in, rcK is to restart into charge mode.
PowerOff(ds) ==
  power = "on" /\ power' \in {"going", "going to charge"} /\ Unfollowed(ds)

PowerOffHeld(p) ==
  daemons[p].at = "poweroff" /\ PowerOff([daemons EXCEPT ![p] = NoDaemon])

Daemon(p) == OpenKey(p) \/ CheckHold(p) \/ Poll(p) \/ PowerOffHeld(p)
=============================================================================
