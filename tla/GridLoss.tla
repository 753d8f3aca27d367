------------------------------ MODULE GridLoss ------------------------------
(***************************************************************************)
(* One evaluation as far as confirmed supply loss is concerned: the        *)
(* refresh of the relays with its answer to a manual ON, the safety lane,  *)
(* the emergency stop of every load, battery minimums, and the incident    *)
(* and deferral bookkeeping that decides what a later cycle does again     *)
(* (coordinator.py).                                                       *)
(*                                                                         *)
(* The code runs without interruption between awaits, and one step here is *)
(* what lies between two of them; supply, load sensor, charge and relays   *)
(* may change at every await.  A command is the await of its saves         *)
(* ("saving"), of the service and the readback ("calling") and of its      *)
(* terminal save ("ended"); what is journaled is RestoreTransactions.      *)
(***************************************************************************)
EXTENDS Naturals, FiniteSets

CONSTANTS
    Loads,          \* number of managed loads, numbered in shed order
    BatteryLoads,   \* those with a battery minimum
    Supplies,       \* what the safety source may report
    Modes,          \* modes the owner may select
    LoadMayFail,    \* whether the aggregate sensor may fail
    Switchings,     \* states a load may take by another's hand
    MayRestart      \* whether Home Assistant may restart

Device == 1..Loads
Ordinary == Device \ BatteryLoads

ASSUME LossAssumption ==
    /\ Loads \in Nat
    /\ BatteryLoads \subseteq Device
    /\ Supplies \subseteq {"up", "down", "unavailable"} /\ Supplies # {}
    /\ Modes \subseteq {"off", "observe", "auto"} /\ Modes # {}
    /\ Switchings \subseteq {"on", "off", "unknown"}
    /\ {LoadMayFail, MayRestart} \subseteq BOOLEAN

VARIABLES
    supply,     \* the safety source
    load,       \* whether the aggregate sensor is readable
    enough,     \* battery loads whose minimum the charge meets
    relay,      \* state of each logical load
    mode,       \* the unified mode
    valid,      \* _load_sensor_valid, as last read
    fault,      \* the telemetry fault latch
    incident,   \* _handled_emergency_incident
    deferred,   \* _grid_loss_deferred_off
    flagged,    \* faulted or quarantined loads
    pending,    \* loads with a restore ticket
    observed,   \* _last_observed_state
    reconciled, \* _initial_device_reconciliation_complete
    op,         \* the operation that holds the evaluation lock
    acted,      \* history: the incident was handled in Auto
    excused     \* history: ordinary loads switched since the incident began

inputs == <<supply, load, enough>>
latches == <<mode, valid, fault>>
outage == <<incident, deferred, acted, excused>>
books == <<flagged, pending>>
seen == <<observed, reconciled>>
vars == <<inputs, relay, latches, outage, books, seen, op>>

-----------------------------------------------------------------------------
RelayState == {"on", "off", "unknown"}
Lane == {"none", "manual", "minimum", "loss", "all", "policy", "service"}
Outcome == {"none", "confirmed", "rejected", "failed"}

(* dev is the load commanded or, in "refresh", the next one to refresh.    *)
Operation == [pc : {"idle", "refresh", "lane", "recovering", "settling",
                    "saving", "calling", "ended"},
              lane : Lane, dev : 0..(Loads + 1),
              urgent : BOOLEAN, retry : BOOLEAN, outcome : Outcome]

Idle == [pc |-> "idle", lane |-> "none", dev |-> 0,
         urgent |-> FALSE, retry |-> FALSE, outcome |-> "none"]

First(S) == CHOOSE d \in S : \A e \in S : d <= e

Init ==
    /\ supply \in Supplies /\ load = TRUE /\ enough = BatteryLoads
    /\ relay \in [Device -> {"on", "off"}]
    /\ mode \in Modes /\ valid = FALSE /\ fault = "none"
    /\ incident = FALSE /\ deferred = {} /\ acted = FALSE /\ excused = {}
    /\ flagged = {} /\ pending = {}
    /\ observed = [d \in Device |-> "unknown"] /\ reconciled = FALSE
    /\ op = Idle

-----------------------------------------------------------------------------
(* Permissions.                                                            *)

(* _battery_permits, on the validity last read.                            *)
Permits(d, v) == v /\ d \in BatteryLoads /\ d \in enough

(* _off_dispatch_permitted.                                                *)
OffPermitted(lane, d, urgent, v) ==
    /\ mode = "auto"
    /\ IF ~urgent
       THEN load /\ supply = "up" /\ fault = "none"
       ELSE lane = "all" \/ /\ supply = "down"
                            /\ lane = "service" \/ ~Permits(d, v)

(* The start of _command_off: rejected at once, or to its saves.           *)
Command(lane, d, urgent, retry, v) ==
    LET permitted == OffPermitted(lane, d, urgent, v)
    IN  [pc |-> IF permitted THEN "saving" ELSE "ended",
         lane |-> lane, dev |-> d, urgent |-> urgent, retry |-> retry,
         outcome |-> IF permitted THEN "none" ELSE "rejected"]

-----------------------------------------------------------------------------
(* _refresh_device_states.                                                 *)

Refreshing == op.pc \in {"idle", "refresh"}

From == IF op.pc = "refresh" THEN op.dev ELSE 1

Refresh(S) == [d \in Device |-> IF d \notin S THEN observed[d]
                                ELSE IF d \in flagged THEN "unknown"
                                ELSE relay[d]]

(* Pending loads that were not seen on and now are.                        *)
ManualOns ==
    {d \in From..Loads : /\ relay[d] = "on" /\ observed[d] # "on"
                         /\ reconciled \/ observed[d] = "off"
                         /\ d \in pending \ flagged}

(* _handle_manual_on_pending.  Whether an overload is enforced is for      *)
(* PolicyEngine to say.                                                    *)
ManualOn ==
    LET d == First(ManualOns)
        usable == load /\ supply # "unavailable"
        unsafe == supply = "down" /\ ~Permits(d, load)
        allowed == /\ mode = "auto"
                   /\ unsafe \/ (supply = "up" /\ fault = "none")
        next == [Idle EXCEPT !.pc = "refresh", !.dev = d + 1]
    IN  /\ Refreshing /\ ManualOns # {}
        /\ valid' = load
        /\ observed' = Refresh(From..d)
        /\ \/ /\ ~usable
              /\ op' = next /\ pending' = pending
           \/ /\ usable
              /\ \E enforced \in BOOLEAN :
                    IF unsafe \/ enforced
                    THEN /\ op' = IF allowed
                                  THEN Command("manual", d, unsafe, FALSE, load)
                                  ELSE next
                         /\ pending' = pending
                    ELSE op' = next /\ pending' = pending \ {d}
        /\ UNCHANGED <<inputs, relay, mode, fault, outage, flagged, reconciled>>

-----------------------------------------------------------------------------
(* _safety_lane_handled.                                                   *)

Refreshed == Refreshing /\ ManualOns = {}

(* What the refresh leaves behind when the lane is reached.                *)
Note ==
    /\ observed' = IF Refreshing THEN Refresh(From..Loads) ELSE observed
    /\ reconciled' = (reconciled \/ Refreshing)

Sampled == IF op.pc = "lane" THEN valid ELSE load

(* _handle_report_invalidations.                                           *)
HandleReport ==
    /\ Refreshed
    /\ fault = "reported"
    /\ fault' = "latched"
    /\ valid' = load
    /\ op' = [Idle EXCEPT !.pc = "lane"]
    /\ Note
    /\ UNCHANGED <<inputs, relay, mode, outage, books>>

AtLane == op.pc = "lane" \/ (Refreshed /\ fault # "reported")

Blocked ==
    /\ AtLane
    /\ supply = "unavailable"
    /\ fault' = "latched"
    /\ valid' = Sampled
    /\ op' = Idle
    /\ Note
    /\ UNCHANGED <<inputs, relay, mode, outage, books>>

(* _recover_telemetry_fault, up to its await and after it.                 *)
BeginRecovery ==
    /\ AtLane
    /\ supply # "unavailable"
    /\ Sampled /\ fault = "latched"
    /\ fault' = IF load THEN "none" ELSE "latched"
    /\ valid' = load
    /\ op' = IF load THEN [Idle EXCEPT !.pc = "recovering"] ELSE Idle
    /\ Note
    /\ UNCHANGED <<inputs, relay, mode, outage, books>>

Recovered == fault = "none" /\ load /\ supply # "unavailable"

RecoveryFails ==
    /\ op.pc = "recovering"
    /\ ~Recovered
    /\ fault' = "latched"
    /\ valid' = load
    /\ op' = Idle
    /\ UNCHANGED <<inputs, relay, mode, outage, books, seen>>

(* The lane goes on to the supply.                                         *)
AtSupply ==
    \/ AtLane /\ supply # "unavailable" /\ ~(Sampled /\ fault = "latched")
    \/ op.pc = "recovering" /\ Recovered

(* A fault latch keeps the incident, but not its deferrals.                *)
SupplyIsUp ==
    /\ AtSupply
    /\ supply = "up"
    /\ deferred' = {}
    /\ incident' = (incident /\ fault = "latched")
    /\ acted' = (acted /\ fault = "latched")
    /\ excused' = IF incident /\ fault = "latched" THEN Ordinary ELSE {}
    /\ valid' = Sampled
    /\ UNCHANGED <<inputs, mode, flagged>>

(* No usable load, or nothing to do.                                       *)
Monitor ==
    /\ SupplyIsUp
    /\ fault' = IF Sampled THEN fault ELSE "latched"
    /\ op' = Idle
    /\ Note
    /\ UNCHANGED <<relay, pending>>

(* An overload shed (PolicyEngine says when).                              *)
Shed(d) ==
    /\ SupplyIsUp
    /\ Sampled /\ mode = "auto"
    /\ relay[d] = "on" /\ d \notin flagged
    /\ op' = Command("policy", d, FALSE, FALSE, Sampled)
    /\ Note
    /\ UNCHANGED <<relay, fault, pending>>

(* An automatic restore, in one step.                                      *)
Restore(d) ==
    /\ SupplyIsUp
    /\ Sampled /\ mode = "auto"
    /\ relay[d] = "off" /\ d \in pending \ flagged
    /\ relay' = [relay EXCEPT ![d] = "on"]
    /\ pending' = pending \ {d}
    /\ observed' = [(IF Refreshing THEN Refresh(From..Loads) ELSE observed)
                       EXCEPT ![d] = "on"]
    /\ reconciled' = TRUE
    /\ op' = Idle
    /\ UNCHANGED fault

-----------------------------------------------------------------------------
(* _handle_grid_loss, _enforce_battery_minimum, _stop_on_low_battery.      *)

(* Mutant of LossTargets: what is owed is not retried.                     *)
LossTargetsOnce(k, retry, owed, v) ==
    {d \in k..Loads : ~retry /\ relay[d] # "off" /\ ~Permits(d, v)}

(* Loads an incident still has to stop, from load k on.                    *)
LossTargets(k, retry, owed, v) ==
    {d \in k..Loads : /\ relay[d] # "off"
                      /\ retry => d \in owed
                      /\ ~Permits(d, v)}

MinimumTargets(k, v) ==
    {d \in k..Loads : /\ d \in BatteryLoads \ flagged
                      /\ relay[d] # "off"
                      /\ ~Permits(d, v)}

(* The loop over the loads, up to its next command.                        *)
StopFrom(k, retry, owed, v) ==
    LET targets == LossTargets(k, retry, owed, v)
        last == IF targets = {} THEN Loads ELSE First(targets) - 1
    IN  /\ deferred' = owed \ {d \in k..last : relay[d] = "off"}
        /\ op' = IF targets = {} THEN Idle
                 ELSE Command("loss", First(targets), TRUE, retry, v)

LossBegins ==
    /\ AtSupply
    /\ supply = "down" /\ ~incident
    /\ incident' = TRUE
    /\ acted' = (mode = "auto")
    /\ excused' = {}
    /\ valid' = Sampled
    /\ IF mode = "auto" THEN StopFrom(1, FALSE, {}, Sampled)
       ELSE deferred' = {} /\ op' = Idle
    /\ Note
    /\ UNCHANGED <<inputs, relay, mode, fault, books>>

(* Mutant of LossAgain: with nothing owed, there is nothing to do.         *)
LossAgainIfOwed ==
    /\ AtSupply
    /\ supply = "down" /\ incident
    /\ valid' = Sampled
    /\ op' = IF mode # "auto" \/ deferred = {} THEN Idle
             ELSE [Idle EXCEPT !.pc = "settling"]
    /\ Note
    /\ UNCHANGED <<inputs, relay, mode, fault, outage, books>>

(* The incident was handled before: battery minimums, then what is owed.   *)
LossAgain ==
    LET targets == MinimumTargets(1, Sampled)
    IN  /\ AtSupply
        /\ supply = "down" /\ incident
        /\ valid' = Sampled
        /\ op' = IF mode # "auto" THEN Idle
                 ELSE IF targets = {} THEN [Idle EXCEPT !.pc = "settling"]
                 ELSE Command("minimum", First(targets), TRUE, TRUE, Sampled)
        /\ Note
        /\ UNCHANGED <<inputs, relay, mode, fault, outage, books>>

RetryDeferred ==
    /\ op.pc = "settling"
    /\ StopFrom(1, TRUE, deferred, valid)
    /\ UNCHANGED <<inputs, relay, latches, incident, acted, excused, books, seen>>

(* The evaluation raised: _perform_emergency_all_stop.                     *)
AllTargets(k) == {d \in k..Loads : relay[d] # "off"}

StopAllFrom(k) ==
    op' = IF AllTargets(k) = {} THEN Idle
          ELSE Command("all", First(AllTargets(k)), TRUE, FALSE, valid)

EvaluationRaises ==
    /\ Refreshed \/ op.pc \in {"lane", "recovering", "settling"}
    /\ mode = "auto"
    /\ AllTargets(1) # {}
    /\ StopAllFrom(1)
    /\ valid' = IF Refreshing THEN load ELSE valid
    /\ Note
    /\ UNCHANGED <<inputs, relay, mode, fault, outage, books>>

-----------------------------------------------------------------------------
(* _command_off, and where each lane goes on.                              *)

Dispatch ==
    /\ op.pc = "saving"
    /\ OffPermitted(op.lane, op.dev, op.urgent, valid)
    /\ valid' = IF op.urgent THEN valid ELSE load
    /\ relay' \in {relay, [relay EXCEPT ![op.dev] = "off"]}
    /\ op' = [op EXCEPT !.pc = "calling"]
    /\ UNCHANGED <<inputs, mode, fault, outage, books, seen>>

(* An ordinary stop also yields to a loss that was reported since the lane *)
(* (_pending_source_loss), even if the supply is back.                     *)
Reject ==
    /\ op.pc = "saving"
    /\ op.urgent => ~OffPermitted(op.lane, op.dev, op.urgent, valid)
    /\ valid' = IF op.urgent THEN valid ELSE load
    /\ op' = [op EXCEPT !.pc = "ended", !.outcome = "rejected"]
    /\ UNCHANGED <<inputs, relay, mode, fault, outage, books, seen>>

(* The sources whose confirmed stop leaves a ticket (_commit_stop).        *)
TicketFor(lane, d) ==
    lane \in {"policy", "service", "all"} \/ (lane = "loss" /\ d \notin BatteryLoads)

Confirm ==
    /\ op.pc = "calling"
    /\ relay[op.dev] = "off"
    /\ op' = [op EXCEPT !.pc = "ended", !.outcome = "confirmed"]
    /\ pending' = IF TicketFor(op.lane, op.dev) THEN pending \cup {op.dev}
                                                ELSE pending
    /\ UNCHANGED <<inputs, relay, latches, outage, flagged, seen>>

(* No readback, an exception, or a failed save, which retires the ticket.  *)
Fail ==
    /\ op.pc \in {"saving", "calling"}
    /\ op' = [op EXCEPT !.pc = "ended", !.outcome = "failed"]
    /\ flagged' = flagged \cup {op.dev}
    /\ pending' \in {pending, pending \ {op.dev}}
    /\ UNCHANGED <<inputs, relay, latches, outage, seen>>

(* Mutants of Owed: a rejected stop is not noted; that of a battery load   *)
(* is noted too.                                                           *)
OwedUnlessRejected ==
    IF op.dev \in BatteryLoads THEN deferred ELSE deferred \ {op.dev}

OwedOfAny ==
    IF op.outcome = "rejected" THEN deferred \cup {op.dev}
                               ELSE deferred \ {op.dev}

(* What the loop notes of the stop that has just ended.                    *)
Owed ==
    IF op.dev \in BatteryLoads THEN deferred
    ELSE IF op.outcome = "rejected" THEN deferred \cup {op.dev}
    ELSE deferred \ {op.dev}

ContinueLoss ==
    /\ op.pc = "ended" /\ op.lane = "loss"
    /\ StopFrom(op.dev + 1, op.retry, Owed, valid)
    /\ UNCHANGED <<inputs, relay, latches, incident, acted, excused, books, seen>>

ContinueMinimum ==
    LET targets == MinimumTargets(op.dev + 1, valid)
    IN  /\ op.pc = "ended" /\ op.lane = "minimum"
        /\ op' = IF targets = {} THEN [Idle EXCEPT !.pc = "settling"]
                 ELSE Command("minimum", First(targets), TRUE, TRUE, valid)
        /\ UNCHANGED <<inputs, relay, latches, outage, books, seen>>

ContinueAll ==
    /\ op.pc = "ended" /\ op.lane = "all"
    /\ flagged' = IF op.outcome = "confirmed" THEN flagged
                                              ELSE flagged \cup {op.dev}
    /\ StopAllFrom(op.dev + 1)
    /\ UNCHANGED <<inputs, relay, latches, outage, pending, seen>>

ContinueManual ==
    /\ op.pc = "ended" /\ op.lane = "manual"
    /\ observed' = [observed EXCEPT ![op.dev] =
                        CASE op.outcome = "confirmed" -> "off"
                          [] op.outcome = "failed" -> "unknown"
                          [] OTHER -> "on"]
    /\ op' = [Idle EXCEPT !.pc = "refresh", !.dev = op.dev + 1]
    /\ UNCHANGED <<inputs, relay, latches, outage, books, reconciled>>

(* A shed or a requested stop is the last command of its operation.        *)
EndCommand ==
    /\ op.pc = "ended" /\ op.lane \in {"policy", "service"}
    /\ op' = Idle
    /\ UNCHANGED <<inputs, relay, latches, outage, books, seen>>

-----------------------------------------------------------------------------
(* The other operations.                                                   *)

(* async_request_stop.  What is believed of the load is its last           *)
(* observation, also between a stop and the next refresh.                  *)
RequestStop(d) ==
    /\ op = Idle
    /\ observed[d] = "on" /\ d \notin flagged
    /\ load /\ supply # "unavailable"
    /\ valid' = load
    /\ op' = Command("service", d, supply = "down", FALSE, load)
    /\ UNCHANGED <<inputs, relay, mode, fault, outage, books, seen>>

(* async_set_mode; a failed save puts the mode back.                       *)
SetMode(m) ==
    /\ op = Idle
    /\ mode' \in {m, mode}
    /\ fault' = IF m = "auto" /\ fault = "latched" THEN "reported" ELSE fault
    /\ UNCHANGED <<inputs, relay, valid, outage, books, seen, op>>

(* async_clear_fault, before the evaluation that ends it.                  *)
ClearFault ==
    /\ op = Idle
    /\ load /\ supply = "up"
    /\ valid' = load
    /\ fault' = "none"
    /\ incident' = FALSE /\ acted' = FALSE /\ excused' = {}
    /\ UNCHANGED <<inputs, relay, mode, deferred, books, seen, op>>

(* async_clear_quarantine.                                                 *)
ClearQuarantine(d) ==
    /\ op = Idle
    /\ d \in flagged /\ relay[d] = "off" /\ load
    /\ flagged' = flagged \ {d}
    /\ valid' = load
    /\ UNCHANGED <<inputs, relay, mode, fault, outage, pending, seen, op>>

(* async_cancel_restore, or the ticket expires.                            *)
Retire(d) ==
    /\ op = Idle
    /\ d \in pending
    /\ pending' = pending \ {d}
    /\ UNCHANGED <<inputs, relay, latches, outage, flagged, seen, op>>

(* A command under way is quarantined on the way up (RestoreTransactions), *)
(* and a mode that cannot be saved is Observe.                             *)
Restart ==
    /\ MayRestart
    /\ op' = Idle
    /\ \/ op.pc \notin {"saving", "calling"} /\ UNCHANGED books
       \/ /\ op.pc \in {"saving", "calling", "ended"}
          /\ flagged' = flagged \cup {op.dev}
          /\ pending' \in {pending, pending \ {op.dev}}
    /\ valid' = FALSE
    /\ fault' \in {"none", "reported"}
    /\ incident' = FALSE /\ deferred' = {} /\ acted' = FALSE /\ excused' = {}
    /\ observed' = [d \in Device |-> "unknown"] /\ reconciled' = FALSE
    /\ mode' \in {mode} \cup (Modes \cap {"observe"})
    /\ UNCHANGED <<inputs, relay>>

-----------------------------------------------------------------------------
(* What happens at any await.                                              *)

(* _latch_report_fault.                                                    *)
Reported == IF fault = "none" THEN "reported" ELSE fault

SupplyChanges ==
    /\ supply' \in Supplies \ {supply}
    /\ fault' = IF supply' = "unavailable" THEN Reported ELSE fault
    /\ UNCHANGED <<load, enough, relay, mode, valid, outage, books, seen, op>>

(* The sensor fails with a report or by silence, which the next report ends.*)
LoadChanges ==
    /\ LoadMayFail
    /\ load' = ~load
    /\ fault' \in {fault, Reported}
    /\ UNCHANGED <<supply, enough, relay, mode, valid, outage, books, seen, op>>

ChargeChanges ==
    /\ enough' \in SUBSET BatteryLoads \ {enough}
    /\ UNCHANGED <<supply, load, relay, latches, outage, books, seen, op>>

Switched(d) ==
    /\ \E s \in Switchings \ {relay[d]} :
          /\ relay' = [relay EXCEPT ![d] = s]
          /\ excused' = IF s = "off" THEN excused ELSE excused \cup ({d} \cap Ordinary)
    /\ UNCHANGED <<inputs, latches, incident, deferred, acted, books, seen, op>>

-----------------------------------------------------------------------------
Evaluate ==
    \/ ManualOn \/ HandleReport \/ Blocked
    \/ BeginRecovery \/ RecoveryFails \/ Monitor
    \/ LossBegins \/ LossAgain \/ RetryDeferred

Advance ==
    \/ Dispatch \/ Reject \/ Confirm \/ Fail
    \/ ContinueLoss \/ ContinueMinimum \/ ContinueAll \/ ContinueManual
    \/ EndCommand

Operate ==
    \/ EvaluationRaises
    \/ \E d \in Device :
          Shed(d) \/ Restore(d) \/ RequestStop(d) \/ ClearQuarantine(d) \/ Retire(d)
    \/ \E m \in Modes : SetMode(m)
    \/ ClearFault \/ Restart

Environment ==
    \/ SupplyChanges \/ LoadChanges \/ ChargeChanges
    \/ \E d \in Device : Switched(d)

Next == Evaluate \/ Advance \/ Operate \/ Environment

Spec == Init /\ [][Next]_vars

-----------------------------------------------------------------------------
TypeOK ==
    /\ supply \in Supplies /\ load \in BOOLEAN /\ enough \subseteq BatteryLoads
    /\ relay \in [Device -> RelayState]
    /\ mode \in Modes /\ valid \in BOOLEAN
    /\ fault \in {"none", "reported", "latched"}
    /\ incident \in BOOLEAN /\ acted \in BOOLEAN
    /\ deferred \subseteq Ordinary /\ excused \subseteq Ordinary
    /\ flagged \subseteq Device /\ pending \subseteq Device
    /\ observed \in [Device -> RelayState] /\ reconciled \in BOOLEAN
    /\ op \in Operation

(* Between evaluations, a load without a battery minimum that is not off   *)
(* in an outage that was handled in Auto is faulted, is owed a retry, or   *)
(* came on since; however the supply, the sensors and the relays changed   *)
(* during the stops (_handle_grid_loss).                                   *)
NothingForgotten ==
    op = Idle /\ incident /\ acted =>
        \A d \in Ordinary :
            relay[d] = "off" \/ d \in flagged \cup deferred \cup excused

InOutage == supply = "down" /\ mode = "auto" /\ load

(* A stop that was rejected before its dispatch is tried again, by the     *)
(* loop or by the emergency stop of an evaluation that raised: the load    *)
(* does not stay on, owed and untried while the outage, Auto and the       *)
(* telemetry last.                                                         *)
RejectedIsRetried ==
    \A d \in Ordinary :
        (d \in deferred /\ relay[d] # "off")
            ~> \/ d \notin deferred \/ relay[d] = "off" \/ ~InOutage
               \/ op.pc = "saving" /\ op.dev = d

(* A battery load that runs below its minimum in an outage is stopped or   *)
(* faulted, whenever it comes on and whatever its charge did before        *)
(* (_enforce_battery_minimum).                                             *)
LowBatteryStops ==
    \A d \in BatteryLoads :
        (InOutage /\ relay[d] = "on" /\ d \notin enough)
            ~> (relay[d] # "on" \/ d \in flagged \cup enough \/ ~InOutage)

(* "A confirmed off triggers emergency stop of known-on optional loads in  *)
(* Auto" (configuration.md).                                               *)
OutageStopsLoads ==
    \A d \in Ordinary :
        (InOutage /\ relay[d] = "on")
            ~> (relay[d] # "on" \/ d \in flagged \/ ~InOutage)

(* "A manual ON of a pending load under safe capacity is accepted and      *)
(* removed from the queue.  Under enforced overload or grid loss, Auto     *)
(* re-sheds it" (power-orchestrator-spec.md).                              *)
ManualOnIsAnswered ==
    \A d \in Device :
        (d \in pending /\ relay[d] = "on")
            ~> (d \notin pending \/ relay[d] # "on" \/ d \in flagged)

(* Evaluations are scheduled and get the lock in their turn; an await      *)
(* ends.  Nothing is assumed of the planner's sheds and restores.          *)
FairSpec == Spec /\ SF_vars(Evaluate) /\ WF_vars(Advance)
=============================================================================
