---------------------------- MODULE PolicyEngine ----------------------------
(***************************************************************************)
(* Overload dwell, safe-capacity window and causal report fences           *)
(* (policy.py), driven by the evaluation cycle, by the report callbacks    *)
(* that interrupt its awaits, and by restarts (coordinator.py,             *)
(* report_events.py, storage.py).                                          *)
(*                                                                         *)
(* Every instant the code keeps is an age here: how long ago it was, in    *)
(* ticks, None when there is none, and never more than the largest value   *)
(* the code compares it with.  "now - since >= d" is "age >= d", and       *)
(* "report later than fence" is "report age < fence age".                  *)
(* A load generation advances exactly when a report later than the last    *)
(* accepted one is read, and a report later than a fence is such a one, so *)
(* of each fence only the instant is kept.                                 *)
(* How a stop or a restore is journaled and saved is RestoreTransactions;  *)
(* here it is the awaits "saving" and "calling".                           *)
(***************************************************************************)
EXTENDS Integers

CONSTANTS
    Tier,       \* the thresholds, each named by its limit
    Duration,   \* dwell of each tier
    Load,       \* aggregate loads a report can carry
    Device,     \* the managed loads
    Expected,   \* expected power of each load
    MaxAge,     \* LOAD_TELEMETRY_MAX_AGE_SECONDS
    Dwell       \* RESTORE_SAFE_CAPACITY_DWELL_S

ASSUME PolicyAssumption ==
    /\ Tier \subseteq Nat
    /\ \E t \in Tier : \A u \in Tier : t <= u
    /\ Duration \in [Tier -> Nat]
    /\ Load \subseteq Nat
    /\ Expected \in [Device -> Nat \ {0}]
    /\ MaxAge \in Nat
    /\ Dwell \in Nat

VARIABLES
    sensor,     \* the aggregate sensor: last report and its age
    engine,     \* PolicyRuntime
    mode,       \* the unified mode
    fault,      \* startup, and the telemetry fault latch
    op,         \* the operation that holds the evaluation lock
    pending,    \* loads waiting to be restored
    past        \* history of the observations and of the confirmed commands

vars == <<sensor, engine, mode, fault, op, pending, past>>

-----------------------------------------------------------------------------
None == -1
Invalid == -1                 \* any report that is not a usable power value
Mode == {"off", "observe", "auto"}
(* "reported": latched by a callback, no evaluation has handled it yet.    *)
Fault == {"starting", "none", "reported", "latched"}
Horizon == MaxAge + 1         \* a report this old is stale
Age(cap) == None..cap
Capacity == {Expected[d] : d \in Device}
LowestLimit == CHOOSE t \in Tier : \A u \in Tier : t <= u

(* _restore_capacity is the candidate's expected power, 0 for None.        *)
Runtime == [tierSince : [Tier -> Int],
            restoreSince : Age(Dwell),
            capacity : Capacity \cup {0},
            shedFence : Age(Horizon),
            restoreFence : Age(Horizon)]

Operation == [pc : {"idle", "recovering", "saving", "calling", "mode"},
              kind : {"none", "shed", "restore"},
              dev : Device \cup {None},
              age : Age(Horizon),
              load : Load \cup {Invalid},
              mode : Mode,
              since : Age(Dwell)]

(* over and safe: for how long every observation was above a limit, or has *)
(* left room for a load of that power since the last confirmed command of  *)
(* any lane.  lastOff and lastOn: what the relay's report of the last shed *)
(* of the planner and of the last restore is.  Other stops wait for no     *)
(* report and are followed by none, in the code as here.                   *)
History == [over : [Tier -> Int],
            safe : [Capacity -> Age(Dwell)],
            lastOff : Age(Horizon),
            lastOn : Age(Horizon)]

NoTimers == [t \in Tier |-> None]

NoRoom == [c \in Capacity |-> None]

Idle == [pc |-> "idle", kind |-> "none", dev |-> None, age |-> None,
         load |-> Invalid, mode |-> "observe", since |-> None]

Readable == sensor.load # Invalid /\ sensor.age <= MaxAge

Init ==
    /\ sensor = [load |-> Invalid, age |-> 0]
    /\ engine = [tierSince |-> NoTimers, restoreSince |-> None,
                 capacity |-> 0, shedFence |-> None, restoreFence |-> None]
    /\ mode = "observe"
    /\ fault = "starting"
    /\ op = Idle
    /\ pending = {}
    /\ past = [over |-> NoTimers, safe |-> NoRoom,
               lastOff |-> None, lastOn |-> None]

-----------------------------------------------------------------------------
(* The engine's operations.                                                *)

WindowReset(e) == [e EXCEPT !.restoreSince = None, !.capacity = 0]

TimersCleared(e) == [WindowReset(e) EXCEPT !.tierSince = NoTimers]

(* _update_exceeded_tiers: a timer starts with the first exceedance.       *)
TimersUpdated(e, load) ==
    [e EXCEPT !.tierSince = [t \in Tier |->
        IF load <= t THEN None
        ELSE IF e.tierSince[t] = None THEN 0 ELSE e.tierSince[t]]]

(* Mutant of Observed: a report after a gap continues the timers.          *)
ObservedAcrossGap(e, load, gap) ==
    IF load = Invalid THEN TimersCleared(e)
    ELSE IF e.capacity # 0 /\ load + e.capacity >= LowestLimit
         THEN WindowReset(TimersUpdated(e, load))
         ELSE TimersUpdated(e, load)

(* observe_report, called for every report at the instant it arrives.      *)
Observed(e, load, gap) ==
    IF load = Invalid \/ gap THEN TimersCleared(e)
    ELSE IF e.capacity # 0 /\ load + e.capacity >= LowestLimit
         THEN WindowReset(TimersUpdated(e, load))
         ELSE TimersUpdated(e, load)

(* Mutants of FenceAfter: a report as old as the fence releases it; a      *)
(* fence that was left alone for long is never released.                   *)
FenceAfterEqual(fence) == IF sensor.age <= fence THEN None ELSE fence

FenceAfterWhileYoung(fence) ==
    IF fence < Horizon /\ sensor.age < fence THEN None ELSE fence

(* reconcile_shed and reconcile_restore.                                   *)
FenceAfter(fence) == IF sensor.age < fence THEN None ELSE fence

Reconciled(e) == [e EXCEPT !.shedFence = FenceAfter(@),
                           !.restoreFence = FenceAfter(@)]

(* Mutants of WindowFor: the window is measured for the total after the    *)
(* restore; another candidate inherits the window.                         *)
WindowForTotal(e, capacity) ==
    [e EXCEPT !.restoreSince = 0, !.capacity = sensor.load + capacity]

WindowForAnyCapacity(e, capacity) ==
    [e EXCEPT !.restoreSince = IF @ = None THEN 0 ELSE @,
              !.capacity = capacity]

(* _restore_window_elapsed.                                                *)
WindowFor(e, capacity) ==
    [e EXCEPT !.restoreSince =
                  IF e.capacity # capacity \/ @ = None THEN 0 ELSE @,
              !.capacity = capacity]

Matured(e, load) == {t \in Tier : load > t /\ e.tierSince[t] >= Duration[t]}

(* _ingest_load_telemetry.                                                 *)
Ingested == IF Readable THEN Reconciled(engine) ELSE WindowReset(engine)

(* _handle_report_invalidations.                                           *)
Handled(e) == IF fault = "reported" THEN TimersCleared(e) ELSE e

-----------------------------------------------------------------------------
(* Time and reports.                                                       *)

Later(age, cap) ==
    IF age = None THEN None ELSE IF age < cap THEN age + 1 ELSE cap

Tick ==
    /\ sensor' = [sensor EXCEPT !.age = Later(@, Horizon)]
    /\ engine' = [engine EXCEPT
                    !.tierSince = [t \in Tier |-> Later(@[t], Duration[t])],
                    !.restoreSince = Later(@, Dwell),
                    !.shedFence = Later(@, Horizon),
                    !.restoreFence = Later(@, Horizon)]
    /\ op' = [op EXCEPT !.age = Later(@, Horizon), !.since = Later(@, Dwell)]
    /\ past' = [over |-> [t \in Tier |-> Later(past.over[t], Duration[t])],
                safe |-> [c \in Capacity |-> Later(past.safe[c], Dwell)],
                lastOff |-> Later(past.lastOff, Horizon),
                lastOn |-> Later(past.lastOn, Horizon)]
    /\ UNCHANGED <<mode, fault, pending>>

(* Since when every observation met a condition, the one at hand included. *)
Run(age, holds, gap) ==
    IF ~holds THEN None ELSE IF gap \/ age = None THEN 0 ELSE age

(* observe_aggregate_report, at any await of any operation.                *)
Report(load) ==
    LET gap == sensor.age > MaxAge
    IN  /\ sensor' = [load |-> load, age |-> 0]
        /\ engine' = Observed(engine, load, gap)
        /\ fault' = IF fault = "none" /\ (gap \/ load = Invalid)
                    THEN "reported" ELSE fault
        /\ past' = [past EXCEPT
             !.over = [t \in Tier |-> Run(past.over[t], load > t, gap)],
             !.safe = [c \in Capacity |->
                 Run(past.safe[c],
                     load # Invalid /\ load + c < LowestLimit, gap)]]
        /\ UNCHANGED <<mode, op, pending>>

(* A safety-source report that is not OK, at any await.                    *)
SupplyReport ==
    /\ engine' = WindowReset(engine)
    /\ \/ fault' = fault /\ engine.restoreSince # None
       \/ fault' = "reported" /\ fault = "none"
    /\ UNCHANGED <<sensor, mode, op, pending, past>>

-----------------------------------------------------------------------------
(* One evaluation, up to its first command.  It is one step unless a fault *)
(* is handled on the way: then the load it decides on was sampled before   *)
(* the awaits of the handling and of the recovery.                         *)

EvaluateWaiting ==
    /\ op = Idle
    /\ fault = "starting"
    /\ engine' = WindowReset(Ingested)
    /\ UNCHANGED <<sensor, mode, fault, op, pending, past>>

(* No usable load report, or no usable safety source.                      *)
EvaluateBlocked ==
    /\ op = Idle
    /\ engine' = TimersCleared(Ingested)
    /\ fault' = "latched"
    /\ UNCHANGED <<sensor, mode, op, pending, past>>

(* The end of _async_update_data.                                          *)
HandleReportFault ==
    /\ op = Idle
    /\ fault = "reported"
    /\ engine' = Handled(Ingested)
    /\ fault' = "latched"
    /\ UNCHANGED <<sensor, mode, op, pending, past>>

BeginRecovery ==
    /\ op = Idle
    /\ Readable
    /\ fault \in {"reported", "latched"}
    /\ engine' = Handled(Ingested)
    /\ fault' = "latched"
    /\ op' = [Idle EXCEPT !.pc = "recovering", !.load = sensor.load]
    /\ UNCHANGED <<sensor, mode, pending, past>>

(* An input went bad during the awaits.                                    *)
RecoveryFails ==
    /\ op.pc = "recovering"
    /\ engine' = TimersCleared(engine)
    /\ op' = Idle
    /\ UNCHANGED <<sensor, mode, fault, pending, past>>

(* The evaluation goes on: the load it decides on, and the engine so far.  *)
Deciding ==
    /\ Readable
    /\ \/ op = Idle /\ fault \in {"starting", "none"}
       \/ op.pc = "recovering"

Sample == IF op.pc = "recovering" THEN op.load ELSE sensor.load

Ready == IF op.pc = "recovering" THEN WindowReset(engine) ELSE Ingested

(* The sample an evaluation decides on is an observation at that moment.   *)
Noted(load) ==
    [past EXCEPT
       !.over = [t \in Tier |-> Run(past.over[t], load > t, FALSE)],
       !.safe = [c \in Capacity |->
                    Run(past.safe[c], load + c < LowestLimit, FALSE)]]

(* A fault that was saved is recovered before startup is over.             *)
Cleared == IF op.pc = "recovering" THEN {"none", "starting"} ELSE {"none"}

(* Confirmed supply loss takes the cycle: the planner is not reached.      *)
EvaluateSupplyLoss ==
    /\ \/ Deciding /\ engine' = WindowReset(Ready) /\ fault' \in Cleared
       \/ /\ op = Idle /\ ~Readable
          /\ engine' = WindowReset(Handled(Ingested))
          /\ fault' = IF fault = "reported" THEN "latched" ELSE fault
    /\ op' = Idle
    /\ UNCHANGED <<sensor, mode, pending, past>>

EvaluateModeOff ==
    /\ Deciding
    /\ mode = "off"
    /\ engine' = TimersCleared(Ready)
    /\ fault' \in Cleared
    /\ op' = Idle
    /\ UNCHANGED <<sensor, mode, pending, past>>

(* A tier has matured.  The cycle ends here when a fence is pending, when  *)
(* no load can be shed or when the mode is not auto.                       *)
EvaluateOverload ==
    LET e == TimersUpdated(Ready, Sample)
    IN  /\ Deciding
        /\ mode # "off"
        /\ Matured(e, Sample) # {}
        /\ engine' = WindowReset(e)
        /\ fault' \in Cleared
        /\ \/ op' = Idle
           \/ /\ mode = "auto" /\ e.shedFence = None
              /\ \E d \in Device :
                    op' = [Idle EXCEPT !.pc = "saving", !.kind = "shed",
                                       !.dev = d]
        /\ past' = Noted(Sample)
        /\ UNCHANGED <<sensor, mode, pending>>

(* No tier has matured; nothing to restore, or restore is not allowed.     *)
EvaluateMonitor ==
    LET e == TimersUpdated(Ready, Sample)
    IN  /\ Deciding
        /\ mode # "off"
        /\ Matured(e, Sample) = {}
        /\ \/ engine' = e /\ (mode = "observe" \/ e.shedFence # None
                                               \/ e.restoreFence # None)
           \/ engine' = WindowReset(e) /\ mode = "auto"
        /\ fault' \in Cleared
        /\ op' = Idle
        /\ past' = Noted(Sample)
        /\ UNCHANGED <<sensor, mode, pending>>

(* The first pending load that is eligible and fits keeps or starts the    *)
(* window; eligibility has more to it than this module knows, so any one   *)
(* that fits may come first.                                               *)
EvaluateRestore(d) ==
    LET e == TimersUpdated(Ready, Sample)
        w == WindowFor(e, Expected[d])
    IN  /\ Deciding
        /\ mode = "auto"
        /\ Matured(e, Sample) = {}
        /\ e.shedFence = None /\ e.restoreFence = None
        /\ d \in pending
        /\ Sample + Expected[d] < LowestLimit
        /\ engine' = w
        /\ op' = IF w.restoreSince >= Dwell
                 THEN [Idle EXCEPT !.pc = "saving", !.kind = "restore",
                                   !.dev = d]
                 ELSE Idle
        /\ fault' \in Cleared
        /\ past' = Noted(Sample)
        /\ UNCHANGED <<sensor, mode, pending>>

-----------------------------------------------------------------------------
(* The command and its outcome.                                            *)

CommandsAllowed == mode = "auto" /\ Readable /\ fault \in {"none", "starting"}

(* _off_dispatch_permitted: that the overload persists is not asked again. *)
DispatchShed ==
    /\ op.pc = "saving" /\ op.kind = "shed"
    /\ CommandsAllowed
    /\ op' = [op EXCEPT !.pc = "calling", !.age = 0]
    /\ UNCHANGED <<sensor, engine, mode, fault, pending, past>>

(* _restore_dispatch_permitted.                                            *)
DispatchRestore ==
    /\ op.pc = "saving" /\ op.kind = "restore"
    /\ CommandsAllowed
    /\ engine.shedFence = None /\ engine.restoreFence = None
    /\ op.dev \in pending
    /\ sensor.load + Expected[op.dev] < LowestLimit
    /\ engine.capacity = Expected[op.dev] /\ engine.restoreSince >= Dwell
    /\ op' = [op EXCEPT !.pc = "calling", !.age = 0]
    /\ UNCHANGED <<sensor, engine, mode, fault, pending, past>>

(* Rejected at the check, or failed afterwards: an ON resets the window.   *)
GiveUp ==
    /\ op.pc \in {"saving", "calling"}
    /\ engine' = IF op.kind = "restore" THEN WindowReset(engine) ELSE engine
    /\ op' = Idle
    /\ UNCHANGED <<sensor, mode, fault, pending, past>>

(* A save failed, or the operation was cancelled.                          *)
Abandon ==
    /\ op.pc \in {"saving", "calling"}
    /\ engine' = WindowReset(engine)
    /\ pending' = pending \ {op.dev}
    /\ op' = Idle
    /\ UNCHANGED <<sensor, mode, fault, past>>

(* complete and _commit_stop.  The relay's report is not older than the    *)
(* command; its instant becomes the fence.                                 *)
Confirm(confirmed) ==
    /\ op.pc = "calling"
    /\ confirmed \in 0..op.age
    /\ \/ /\ op.kind = "shed"
          /\ engine' = [WindowReset(engine) EXCEPT !.shedFence = confirmed]
          /\ pending' = pending \cup {op.dev}
          /\ past' = [past EXCEPT !.safe = NoRoom, !.lastOff = confirmed]
       \/ /\ op.kind = "restore"
          /\ engine' = [WindowReset(engine) EXCEPT !.restoreFence = confirmed]
          /\ pending' = pending \ {op.dev}
          /\ past' = [past EXCEPT !.safe = NoRoom, !.lastOn = confirmed]
    /\ op' = Idle
    /\ UNCHANGED <<sensor, mode, fault>>

-----------------------------------------------------------------------------
(* The other operations.                                                   *)

(* Mutant of StopElsewhere: the window goes on over a confirmed stop.      *)
StopElsewhereWindowStays(d) ==
    /\ op = Idle
    /\ mode = "auto"
    /\ pending' \in {pending, pending \cup {d}}
    /\ past' = [past EXCEPT !.safe = NoRoom]
    /\ UNCHANGED <<sensor, engine, mode, fault, op>>

(* The confirmed stops with no fence: async_request_stop, grid loss and    *)
(* emergency, which queue the load, the battery minimum and the re-shed of *)
(* a manual ON, which do not.                                              *)
StopElsewhere(d) ==
    /\ op = Idle
    /\ mode = "auto"
    /\ engine' = WindowReset(engine)
    /\ pending' \in {pending, pending \cup {d}}
    /\ past' = [past EXCEPT !.safe = NoRoom]
    /\ UNCHANGED <<sensor, mode, fault, op>>

(* An accepted manual ON or expiry; async_cancel_restore also resets.      *)
Retire(d) ==
    /\ op = Idle
    /\ d \in pending
    /\ pending' = pending \ {d}
    /\ engine' \in {engine, WindowReset(engine)}
    /\ UNCHANGED <<sensor, mode, fault, op, past>>

(* async_set_restore_intent, when it changes what may be restored.         *)
ChangeIntents ==
    /\ op = Idle
    /\ engine.restoreSince # None
    /\ engine' = WindowReset(engine)
    /\ UNCHANGED <<sensor, mode, fault, op, pending, past>>

(* async_clear_fault, before the evaluation that ends it.                  *)
ClearFault ==
    /\ op = Idle
    /\ Readable
    /\ fault \in {"reported", "latched"}
    /\ engine' = WindowReset(engine)
    /\ fault' \in {"none", "starting"}
    /\ UNCHANGED <<sensor, mode, op, pending, past>>

(* async_set_mode, and the two ends of its save.  Auto has a latched fault *)
(* handled once more.                                                      *)
SetMode(m) ==
    /\ op = Idle
    /\ mode' = m
    /\ engine' = IF m = "auto" THEN engine ELSE WindowReset(engine)
    /\ op' = [Idle EXCEPT !.pc = "mode", !.mode = mode,
                          !.since = engine.restoreSince]
    /\ fault' = IF m = "auto" /\ fault = "latched" THEN "reported" ELSE fault
    /\ UNCHANGED <<sensor, pending, past>>

ModeSaved ==
    /\ op.pc = "mode"
    /\ op' = Idle
    /\ UNCHANGED <<sensor, engine, mode, fault, pending, past>>

ModeSaveFails ==
    /\ op.pc = "mode"
    /\ mode' = op.mode
    /\ engine' = [engine EXCEPT !.restoreSince = op.since]
    /\ op' = Idle
    /\ UNCHANGED <<sensor, fault, pending, past>>

(* restore_policy_runtime: the fences survive, the timers do not.          *)
Restored(e) == TimersCleared(e)

(* restore_telemetry_fault: a fault that was saved awaits its handling;    *)
(* one that was cleared may still be in the file.                          *)
FaultRestored ==
    \/ fault' = "starting"
    \/ fault' = "reported" /\ fault # "starting"

(* A reload of the entry, after the lock was released; the sensor lives on *)
(* and its last report is as old as it was.                                *)
Reload ==
    /\ op = Idle
    /\ engine' = Restored(engine)
    /\ FaultRestored
    /\ UNCHANGED <<sensor, mode, op, pending, past>>

(* The file may hold no fence yet, this one, or one of an earlier action.  *)
Saved(fence) == {None, Later(fence, Horizon), Horizon}

(* A restart of Home Assistant, at any moment: it takes time, and every    *)
(* sensor starts without a report.                                         *)
Restart ==
    /\ \E shed \in Saved(engine.shedFence),
          restore \in Saved(engine.restoreFence) :
            engine' = [Restored(engine) EXCEPT !.shedFence = shed,
                                               !.restoreFence = restore]
    /\ sensor' = [load |-> Invalid, age |-> 0]
    /\ mode' \in {mode, "observe"}
    /\ FaultRestored
    /\ op' = Idle
    /\ past' = [over |-> NoTimers, safe |-> NoRoom,
                lastOff |-> Later(past.lastOff, Horizon),
                lastOn |-> Later(past.lastOn, Horizon)]
    /\ UNCHANGED pending

-----------------------------------------------------------------------------
Evaluate ==
    \/ EvaluateWaiting \/ EvaluateBlocked \/ HandleReportFault
    \/ BeginRecovery \/ RecoveryFails
    \/ EvaluateSupplyLoss \/ EvaluateModeOff
    \/ EvaluateOverload \/ EvaluateMonitor
    \/ \E d \in Device : EvaluateRestore(d)

Advance ==
    \/ DispatchShed \/ DispatchRestore \/ GiveUp \/ Abandon
    \/ \E confirmed \in 0..Horizon : Confirm(confirmed)
    \/ ModeSaved \/ ModeSaveFails

Next ==
    \/ Tick
    \/ \E load \in Load \cup {Invalid} : Report(load)
    \/ SupplyReport
    \/ Evaluate
    \/ Advance
    \/ \E d \in Device : StopElsewhere(d) \/ Retire(d)
    \/ ChangeIntents \/ ClearFault
    \/ \E m \in Mode : SetMode(m)
    \/ Reload \/ Restart

Spec == Init /\ [][Next]_vars

-----------------------------------------------------------------------------
TypeOK ==
    /\ sensor \in [load : Load \cup {Invalid}, age : 0..Horizon]
    /\ engine \in Runtime
    /\ \A t \in Tier : engine.tierSince[t] \in Age(Duration[t])
    /\ mode \in Mode
    /\ fault \in Fault
    /\ op \in Operation
    /\ pending \subseteq Device
    /\ past \in History
    /\ \A t \in Tier : past.over[t] \in Age(Duration[t])

(* "Missing-data time does not count toward continuous overload dwell": a  *)
(* tier's timer never runs from before the first observation of an         *)
(* unbroken run above its limit, across mode changes, faults, reloads and  *)
(* reports that arrive while an evaluation awaits (observe_report).        *)
DwellIsContinuous == \A t \in Tier : engine.tierSince[t] <= past.over[t]

(* "Safe capacity has held for 60 continuous seconds": the window that     *)
(* permits a restore never runs from before the first observation of an    *)
(* unbroken run with room for a load of the expected power it is measured  *)
(* for, nor from before a confirmed stop of any lane or a restore, failed  *)
(* mode saves included (_restore_window_elapsed).                          *)
WindowIsContinuous ==
    engine.capacity # 0 => engine.restoreSince <= past.safe[engine.capacity]

(* The last report is later than the relay's reports of the planner's last *)
(* shed and of the last restore.                                           *)
ReportIsCausal ==
    /\ past.lastOff = None \/ sensor.age < past.lastOff
    /\ past.lastOn = None \/ sensor.age < past.lastOn

(* A shed is decided only after an overload that lasted, and after a       *)
(* report later than the relay's report of the planner's previous shed, a  *)
(* restart in between included (_shedding_lane_handled, can_shed_again).   *)
ShedIsJustified ==
    [][op.pc # "saving" /\ op'.pc = "saving" /\ op'.kind = "shed" =>
         /\ \E t \in Tier : past.over'[t] = Duration[t]
         /\ past.lastOff = None \/ sensor.age < past.lastOff]_vars

(* At the instant an ON is called, every observation of a whole dwell has  *)
(* left room for it, with no stop confirmed in that time, by whichever     *)
(* lane, and no restore; and the last report is later than the planner's   *)
(* last shed and the last restore (of the other stops it may be older).    *)
(* So it is however many reports, resets and saves lie between decision    *)
(* and call (_restore_dispatch_permitted, _commit_stop).                   *)
RestoreIsJustified ==
    [][op.pc = "saving" /\ op'.pc = "calling" /\ op.kind = "restore" =>
         /\ past.safe[Expected[op.dev]] = Dwell
         /\ sensor.load # Invalid /\ ReportIsCausal]_vars

(* A shed fence does not block for ever: while usable reports keep coming  *)
(* and are evaluated, each fence is released.                              *)
ShedFenceIsReleased ==
    (engine.shedFence # None) ~> (engine.shedFence = None \/ ~Readable)

(* Time passes, the sensor reports, awaits end, and an evaluation waiting  *)
(* for the lock (asyncio.Lock is first come, first served) gets it in the  *)
(* end.                                                                    *)
FairSpec ==
    /\ Spec
    /\ WF_vars(Tick)
    /\ SF_vars(Evaluate)
    /\ WF_vars(Advance)
    /\ WF_vars(\E load \in Load : Report(load))
=============================================================================
