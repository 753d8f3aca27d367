# Power Orchestrator in TLA+

A verification project for `custom_components/power_orchestrator`, a Home
Assistant integration that switches optional loads off when the house draws too
much or the grid is lost, and switches the same loads on again when there is
room. The modules are translated from the Python source; `PROJECT.json` names,
for every definition, the lines it stands for.

- [The system](#the-system): components, their state, how they interact
- [Modules](#modules): what models what
- [Runs](#runs): what TLC checks, with which bounds
- [Disagreements found](#disagreements-found)
- [Proofs](#proofs): what TLAPS proves, from what, and how
- [Not modelled](#not-modelled) and [Plan](#plan)

## The system

One asyncio event loop runs everything. Code between two awaits is atomic;
everything interesting happens at the awaits: saves of the store, service calls,
waits for a readback, and notifications.

| Component (source) | State | Operations | Correct when |
|---|---|---|---|
| Restore transactions (`restore_transactions.py`) | tickets and their queue | `create`, `remove`, `reconcile`, `hydrate`, `execute` (prepared, dispatched, call, terminal, each saved) | a ticket proves a confirmed stop; a command's intent is on disk before it is issued; what a crash leaves unclear is blocked; no ticket serves two ONs |
| Policy engine (`policy.py`) | tier timers, restore window, post-shed and post-restore fences | `observe_load`, `observe_report`, `observe_invalid_load`, `reconcile_shed/restore`, `observe_restore_safe_capacity` | dwell and window count only unbroken time; one action per newer report |
| Evaluation and safety lane (`coordinator.py`, `telemetry.py`, `report_events.py`) | mode, load validity, telemetry fault latch, pending report fault, supply loss, handled incident | `_evaluate` under the evaluation lock; report callbacks that never wait for it | a fault or a loss seen by a callback is honoured by the operation under way |
| Supply loss and battery minimums (`coordinator.py`) | handled incident, deferred stops, last observed relay states | `_handle_grid_loss`, `_enforce_battery_minimum`, `_handle_manual_on_pending`, `_perform_emergency_all_stop` | no load that should be off is forgotten |
| Services (`coordinator.py`, `__init__.py`) | none of their own | `request_stop`, `set_mode`, `clear_fault`, `clear_quarantine`, `cancel_restore`, `set_restore_intent`, `set_request` | serialised with the evaluation; a failed save is undone consistently |
| Runtime store (`storage.py`) | one live dict, one file | `save_*`, `record_action`, `async_save`, `restore_*` | the file never offers what memory has retired |
| Runtime recovery (`runtime_recovery.py`) | | `async_recover` at every start | unresolved actions are quarantined, fences and faults come back |
| Fault registry (`fault_registry.py`) | faulted and quarantined loads | `latch`, `clear` | a quarantine is saved and survives |
| Actuator, readback, states (`actuator.py`, `readback.py`, `states.py`) | generation of reports awaited | the service calls, the emergency fallback, causal confirmation | only a report of this command confirms it |
| Requests, intents, selection (`requests.py`, `intent_binding.py`, `selection.py`) | leases per owner and load | `set`, `remove`, `prune`, `matches_snapshot`, candidates | stale owners cannot restore; order is kept |
| Setup, unload, migration (`__init__.py`) | entry and runtime | setup, reload, unload | nothing runs before recovery |
| Config flow, entities, diagnostics, scripts | forms and projections | | |

**How they interact.** A state report of any tracked entity first calls
`observe_entity_report` at once (it may latch a fault, reset a dwell or note a
supply loss, even while another operation waits), then starts a task that runs
a full refresh: `_evaluate_safely` under the evaluation lock, then saves
*without* the lock. Services take the same lock. Every physical action goes
through `RestoreTransactions.execute`, which saves three times through
`_persist_runtime_if_dirty`. A restart rebuilds everything from the one file.

**What is hard here.** Reports that arrive between a decision and its dispatch;
saves that fail between the steps of an action; crashes at any await; saves by
refreshes that no longer hold the lock; an outage whose beginning or end is
hidden by a telemetry fault or a mode; relays moved by hand; callers cancelled
after their command went out. The `hazards` of `PROJECT.json` list each of
these at its line, with the property that would notice it going wrong.

## Modules

| Module | Models | Extended by |
|---|---|---|
| `Ownership` | abstract: when a load may be switched on, and once per stop | refined by `RestoreTransactions`, `PersistQueue` and `RestoreIntents` |
| `OwnershipLedger` | `Ownership` with counts of stops, vouchings and ONs, which only watch | instantiated by `OwnershipProofs`, `PersistQueueProofs`, `RestoreIntentsProofs` |
| `RestoreTransactions` | `execute` with every phase, failure and cancellation; the stops and restores that use it; quarantine clearing, mode changes, shutdown, crash and recovery | `MCRestoreTransactions`, `RestoreTransactionsProofs`, `OwnershipProofs` |
| `PolicyEngine` | timers, window and fences with the evaluation cycle, the report callbacks and restarts around them | `MCPolicyEngine`, `PolicyEngineProofs` |
| `GridLoss` | an evaluation as far as confirmed supply loss goes: refresh and manual ON, safety lane, emergency stop, battery minimums, incident bookkeeping | `GridLossProofs` |
| `PersistQueue` | what a save is: snapshot into the live dict, wait for the write lock, write, clear the flags; with the operations and unlocked refreshes that save | `PersistQueueProofs` |
| `RestoreIntents` | who wants a load back: publications and their deadlines, tickets and their order, candidates, and what a restart makes of both under another clock | `RestoreIntentsProofs` |
| `CausalReadback` | which report may confirm which command: capture, causal and idle-climate confirmation, fallback, reports that are late, repeated or lost | `CausalReadbackProofs` |

### Ownership

The promise the docstrings of `RestoreTicket` and `requests.py` make, without
any of the machinery: `owed` are the loads that may still be switched on, now or
after a restart, `wanted` the loads somebody wants, `command` the command under
way. A claim begins with the confirmation of a stop and is used up when the ON is
issued. Three modules implement it, each with the part of the state it models:

| Module | `owed` | `wanted` |
|---|---|---|
| `RestoreTransactions` | the usable tickets of memory and of the file, less the one an ON is out for | every load, since it has no owners |
| `PersistQueue` | the same, and those of the dict and of the write under way: a claim is not gone while any copy of it can still reach the file | every load |
| `RestoreIntents` | the usable tickets of memory and of the file | the loads whose intents are permitted at that instant, so the owners' side of "both are required" is kept, too |

In each, `Contract` is the `INSTANCE` and `KeepsContract` the property.

`OwnershipLedger` says what the promise comes to in numbers. It counts, per load, the
claims that a confirmed stop began (`stops`), those an operator's clearing began
(`vouchings`) and the ONs (`ons`); `Counting` says how the counts follow `owed` and
`command` and says nothing about those two. `OnsAreCovered`, that `ons` is at most
`stops + vouchings`, is proved of `Ownership` once, and through the refinements of each of
the three modules (`OnsAnswerStops`). No run checks it, since the refinements that
imply it are in the runs.

### RestoreTransactions

`mem` is what `_save_runtime_snapshot` would write now (mode, tickets,
quarantines, journal, fences), `disk` is the file. `txn` is the holder of the
evaluation lock with its program counter: one value per await of `execute` and
of the services. A ticket is the serial number of the stop it proves, so its
order in the queue comes with it; serials stand for the UUIDs of the code and
are never reused. Relay readings are inputs of every action that reads them.
Evidence the module has no variable for can be withdrawn at every check
(`Reject`). `exposed` (loads commanded and not confirmed since) and `spent`
(tickets an ON was issued for, until an operator clears the load) are history.

A save is one step here, also that of a refresh without the lock
(`BackgroundSave`). What that hides is `PersistQueue`'s subject; in particular
nothing is claimed here about a quarantine reaching the file.

### PolicyEngine

Instants are ages: how many ticks ago, capped at the largest value the code
compares them with, so the state is finite without a bound on time. "Report later
than the fence" becomes "younger than the fence". `op` is the holder of the lock
at its awaits: recovering from a fault, saving, calling, saving a mode. Every
lane of `_evaluate` is an action; `Report` and `SupplyReport` are the callbacks
and may happen at every await. `past` is history: for how long every
observation has been above each limit (`over`) or left room for a load of each
expected power with no command confirmed meanwhile (`safe`), and how long ago the
planner's last confirmed OFF (`lastOff`) and the last confirmed ON (`lastOn`) were
reported. It is kept per observation and per command, so it is what an observer of
the house would say and not a copy of the engine's timers: resets, mode changes,
faults and restarts of the engine do not touch it, except where reports really stop.

Only the planner's sheds set a fence (`_commit_stop` with a decision,
`coordinator.py:2028`). `StopElsewhere` stands for all other confirmed stops: those
of a service, for grid loss and of the emergency stop, which queue the load, the
re-shed of a manual ON and the battery minimum's, which do not. They reset the
window and leave the fences alone. So `RestoreIsJustified` says two things of
different reach: the whole window lies after the last stop of any lane, but the last
report is later only than the planner's last shed and the last restore. A restore may
go out on a report older than a stop of another lane. The documentation asks for a
newer report after the previous restore (`docs/configuration.md:47`) and does not ask
for one after every stop.

### GridLoss

Loads are numbers in shed order; `BatteryLoads` have a minimum charge. A step
lies between two awaits. A command is three awaits: its saves, the call with its
readback, and its terminal save. Supply, load sensor, charge and relays may change
at each of them. `observed` is `_last_observed_state`, `incident` is
`_handled_emergency_incident`, `deferred` is `_grid_loss_deferred_off`.
`acted` and `excused` are history: the incident was handled in Auto, and the loads
switched on by hand since.

Simplified: the startup gate, shutdown and an invalid store (they only block);
an automatic restore is one step; an evaluation that raises does so at or after its
refresh; `_grid_loss_expected_off` and `_manual_override_notified` are
written and never read by the code and are left out.

### PersistQueue

`data` is `RuntimeStore._data`, the dict that snapshots *and* journal records
enter; `writes` is the queue for the write lock, `image` what its head is
writing. `dirty` is the disjunction of the flags that make
`_persist_runtime_if_dirty` save. `left` are the loads with an unresolved
record of an earlier process, which makes `_action_journal_invalid` stick. The
lanes are the kinds of operation that save: a stop, the re-shed of a manual ON, a
restore, the acceptance of a manual ON, a clearing and a cancellation. Home
Assistant's `Store` is external: first come, first served, one write at a time,
serialised when the lock is taken, atomic replacement of the file. It is modelled
as raising on a failed write because the code in this repository handles that.

### RestoreIntents

`mem` holds the leases (`RestoreIntent`, one per load and source), the pending
tickets, the pauses and the faulted loads; `disk` is what a restart would make of the
file. The pending queue, a list in the code, is a set of tickets with places: the
place is the number of the stop, so `create`, which drops the load's old
ticket and appends the new one, gives it the last place, and `remove` moves nobody.

Not every confirmed stop makes a ticket. `BeginStop` is that of the lanes that do
(planner, grid loss, emergency, `async_request_stop`): its confirmation
(`OffConfirmed`) is `_commit_stop`. `ReshedManual` is the re-shed of a manual ON of a
waiting load and `StopOnLowBattery` that of a load below its battery minimum: their
confirmation (`PauseConfirmed`) is `_pause_device` alone, so a ticket the load has
keeps its place, its age and its captured entity, and a load without one gets none. `proves` in the record of a
stop tells the two apart.

A lease carries the revision of its publication, which stands for the
UUID: compare-and-set tells two publications of the same content apart. What a
lease asks of its producer (a permit entity or a binding to an `input_text`) is
compared with what the producer shows, at every check. `blocked` is
`_safety_storage_invalid` and says whether the reason is known to this run only,
was found by the readers of the store, or is in the file. A restart may come at
any point, with another clock and other configured entities; deadlines and proofs
that lie too far ahead void their list, and a pause that does is dropped. `since`
(for each load, those whose stop made a ticket after its own last stop that made one,
whatever became of the tickets) and `promise` (what each owner was last told stands)
are history.

The phases of an action are the awaits that matter here; failures are those of
`RestoreTransactions`. Conditions of the other modules are one constant,
`OthersRefuse`. The controller's own source is called `manual_observed`; no owner
may have that name in the model (`OwnersAssumption`), which the code does not
refuse.

### CausalReadback

Each entity has what it really does (`relay`), reports under way (`transit`) and
what Home Assistant has (`ha`, with the arrival stamp). A command captures the
stamps and `time.time()`, then waits for newer reports. Entities obey a call late
or never, moves by hand happen, reports are repeated, overtaken by an
unavailable state or do not come. The clock may stand still, and is set back only
between commands: if it is set back during one, no report counts and the command
times out, which is the safe side. `disturbed` is history: the code
cannot tell a report that was under way at the capture, or an earlier call obeyed
late, from the effect of this command, so `ConfirmedIsTrue` excludes exactly that.
`lagging` is when the group was last seen incomplete.

## Runs

Each module is checked as a whole; the cfg only chooses the instance. Deadlock is
checked in every run.

| Run | Instance | Shows |
|---|---|---|
| `RestoreTransactions` | 1 climate load with fallback, 3 actions, fair | `TypeOK`, `TicketIsProof`, `IntentIsDurable`, `AmbiguityIsBlocked`, `NoSecondOn`, `KeepsContract`, `LockIsReleased` |
| `PolicyEngine` | tiers 4 (dwell 1) and 6 (zero dwell), loads 1, 5, 7, two devices with expected powers 1 and 2, maximum age 1, window 2, fair | `TypeOK`, `DwellIsContinuous`, `WindowIsContinuous`, `ShedIsJustified`, `RestoreIsJustified`, `ShedFenceIsReleased` |
| `GridLoss` | 2 loads, one with a minimum; all supplies, Observe and Auto, failing sensors, hand switching, restarts | `TypeOK`, `NothingForgotten` |
| `GridLossLive` | 2 loads, Auto, loads come on by hand, fair | `RejectedIsRetried`, `LowBatteryStops` |
| `PersistQueue` | 2 loads, 1 refresh, all lanes, writes may fail, fair | `TypeOK`, `IntentOnDisk`, `AmbiguityIsBlocked`, `SpentTicketIsBlocked`, `KeepsContract`, `OperationEnds` |
| `RestoreIntents` | 2 loads (one climate), an owner that publishes for the other, which has a battery minimum, deadlines of 2 ticks, pause 1, clock 0..2, 3 events, 1 restart, fair | `TypeOK`, `PromiseIsKept`, `NoLostUpdate`, `OnIsWanted`, `RestoreInReverse`, `KeepsContract`, `EligibleIsRestored` |
| `CausalReadback` | a thermostat and a relay that both must report, fallback, clock 0..2, 2 commands, 1 move by hand or setting of the clock | `TypeOK`, `ConfirmedIsTrue`, `FenceCoversGroup` |

The five other runs (`GridLossAgain`, `GridLossManual`, `PersistQueueAccepted`,
`PersistQueueReshed`, `RestoreIntentsStale`) each end with a counterexample, see
below.

**Why the bounds are enough to be interesting.** The invariants and action
properties are proved for all values of the constants (see [Proofs](#proofs)); what a
run adds is that every action happens
and that a plausible bug is found. `MaxActions`: a double ON needs a stop, an ON
and a second ON, hence three, and one load suffices because actions are
serialised. In `PolicyEngine` a window of two ticks can be half complete when it is
interrupted, a maximum age of one makes a report fresh, at the limit, or
stale, and the loads lie below both limits, between them and above; what leaves
room for one device does not for the other. Two loads in `GridLoss` are
a loop that has something before and after the await; one has a battery
minimum, the other has none. One refresh in `PersistQueue` can queue before and
behind an operation's save. Three events in `RestoreIntents` are a stop
of each load and a restart, two sheds and the re-shed of the first load switched on
by hand, or a publication, its replacement and a late answer;
two ticks let a lease live, be at its deadline, and be revived by a clock set back;
one owner suffices for the races because the controller's own intents are a
second source. Two commands in `CausalReadback` are what a late report of the first
needs to meet the second, and a clock of three readings has before, same and after.

**Fairness.** `RestoreTransactions`, `PersistQueue`, `RestoreIntents`: awaits of
the lock holder end, since service calls return or raise, the readback has a
timeout and a write ends. `PolicyEngine`, `GridLoss`: also, an evaluation that
keeps being possible happens (strong fairness), since every report and the
periodic refresh start one and `asyncio.Lock` is first come, first served;
`RestoreIntents` needs this only weakly. In `PolicyEngine`, time passes and
reports keep coming; in `RestoreIntents`, time need not pass: what is asked
there is what any number of evaluations does. In `GridLoss` an evaluation
may raise again and again. Nothing is assumed of an operator, an owner, a planner's
decision, or of a save succeeding. `CausalReadback` has no liveness property: its
timeout is a bound in the code itself.

## Disagreements found

Each is a run that TLC ends with a counterexample to something the repository says
of itself. The lines quoted are in `PROJECT.json`.

| Run | What happens |
|---|---|
| `PersistQueueAccepted` | A refresh saves; while the file is being written, a manual ON is accepted: the ticket is removed and the flag set. The refresh's completion clears the flag, the acceptance does not save, and a restart has the ticket again. |
| `PersistQueueReshed` | The save of a re-shed fails. Its failure is in the live dict at once, ticket and quarantine only with the next snapshot, after a notification. A refresh queued behind writes the recorded failure with the retired ticket. |
| `GridLossAgain` | A telemetry fault hides the end of an outage; the next outage counts as handled and stops nothing. |
| `GridLossManual` | A manual ON between a confirmed stop and the next refresh is not noticed: the load stays on and in the queue. |
| `RestoreIntentsStale` | A load whose command entity was reconfigured after its stop is chosen and refused at every evaluation (`coordinator.py:1358`); the loads stopped before it, for which every condition holds, wait behind it until its ticket expires. |

The models show more behaviour of this kind; these have no run:

- The cause of `PersistQueueAccepted` (every flag cleared when a save completes,
  `coordinator.py:2101`) also loses a quarantine: clearing it cannot be saved and
  is undone in memory, a refresh queued behind writes the cleared snapshot and
  clears the flags, and nothing saves the quarantine again. `AmbiguityIsBlocked` and
  `SpentTicketIsBlocked` do not notice: an operator's clearing ends their histories
  of the load, also one that is then undone.
- The outage of `GridLossAgain` is also missed when it is first seen in Observe:
  it is noted as handled before the mode is looked at (`coordinator.py:942`).
- `_off_dispatch_permitted` (`coordinator.py:1188`) re-reads mode, telemetry and supply but not
  the overload: an OFF goes out although a report received during its saves has
  ended it. Likewise a shed is decided on the sample read before the awaits of the
  safety lane (`coordinator.py:465`).
- A quarantine cleared by the operator returns at every restart, because the
  unresolved record stays in the journal (`runtime_recovery.py:121`).
- A battery stop of a load that waits for its restore leaves the ticket
  (`coordinator.py:1024`), so the orchestrator and not the owner resumes it.
- `power-orchestrator-spec.md:17` says restores run "in reverse actual shed order".
  The re-shed of a manual ON (`coordinator.py:771`) leaves the ticket in its old
  place, and so does a battery stop (`coordinator.py:1028`): `d1` is shed, `d2` is
  shed, `d1` is switched on by hand and re-shed, the queue is still `d1`, `d2`, and
  `d2` comes back first although `d1` was stopped last. Line 88 of the same document
  only says that the re-shed "keeps it queued". `RestoreInReverse` is therefore about the
  stops that make tickets; that of all stops would be false of the code.
- The emergency stop goes through the loads in shed order (`coordinator.py:957`),
  `power-orchestrator-spec.md:64` says in reverse.

Noticed while reading, outside the models: `average_load` may be `None` with a valid
reading (all samples aged out), and the fault then latched has a reason that
nothing recovers from; a stop creates a 24-hour `manual_observed` intent of its
own before it knows whether it will succeed, where the documentation asks for an
owner's intent; a clock set back makes stored deadlines invalid and with them the store.

## Proofs

The seven modules named `...Proofs`, and `OwnershipLedger`, hold theorems of the
specifications, for
every set of loads, members, owners and refreshes, every number of actions and
calls, every configuration of tiers and powers and every duration. The assumptions
are those of the modules, and TLC evaluates them in the runs:
`ConstantsAssumption` (subsets are subsets, bounds are natural numbers, names
that must differ do), `PolicyAssumption` (limits, dwells and powers are natural
numbers, powers are not zero, there is a lowest limit), `LossAssumption` (loads are
`1..Loads`, supplies and modes are those of the code) and `OwnersAssumption`
(no owner is called `manual_observed`).

| Theorem | States |
|---|---|
| `RestoreTransactionsProofs!TypeCorrect` | `Spec => []TypeOK` |
| `TicketsAreProofs` | `Spec => []TicketIsProof` |
| `IntentsAreDurable` | `Spec => []IntentIsDurable` |
| `AmbiguityIsAlwaysBlocked` | `Spec => []AmbiguityIsBlocked` |
| `NoTicketIsUsedTwice` | `Spec => NoSecondOn` |
| `RestartsAddUp` | `disk' = Recovered(e) => Recovered(f)' = Recovered(e \cup f)`: restarts in a row are one restart |
| `OwnershipLedger!OneOnPerClaim` | `Spec /\ Counting => []OnsAreCovered`: in any behaviour of `Ownership`, no more ONs than claims |
| `OwnershipProofs!ContractIsKept` | `Spec => KeepsContract`: the transactions implement `Ownership` |
| `OnsAnswerStops` | `Spec /\ Ledger!Counting => []Ledger!OnsAreCovered`: the same count of the transactions |
| `PolicyEngineProofs!TypeCorrect` | `Spec => []TypeOK` |
| `OverloadDwellIsContinuous` | `Spec => []DwellIsContinuous` |
| `RestoreWindowIsContinuous` | `Spec => []WindowIsContinuous` |
| `ShedsAreJustified` | `Spec => ShedIsJustified` |
| `RestoresAreJustified` | `Spec => RestoreIsJustified` |
| `PersistQueueProofs!TypeCorrect` | `Spec => []TypeOK` |
| `IntentsAreOnDisk` | `Spec => []IntentOnDisk` |
| `AmbiguityIsAlwaysBlocked` | `Spec => []AmbiguityIsBlocked` |
| `SpentTicketsAreBlocked` | `Spec => []SpentTicketIsBlocked` |
| `ContractIsKept` | `Spec => KeepsContract`: the saves and the operations implement `Ownership` |
| `OnsAnswerStops` | `Spec /\ Ledger!Counting => []Ledger!OnsAreCovered`, with every copy of a ticket |
| `OperationsAloneKeepFile` | `Updater = {} => (Spec => [](QueueIsSaved /\ QuarantinesAreSaved /\ NoObsoleteTicket))` |
| `GridLossProofs!TypeCorrect` | `Spec => []TypeOK` |
| `NothingIsForgotten` | `Spec => []NothingForgotten` |
| `RestoreIntentsProofs!TypeCorrect` | `Spec => []TypeOK` |
| `PromisesAreKept` | `Spec => []PromiseIsKept` |
| `NoUpdateIsLost` | `Spec => NoLostUpdate` |
| `OnsAreWanted` | `Spec => OnIsWanted` |
| `RestoresAreReversed` | `Spec => RestoreInReverse` |
| `ContractIsKept` | `Spec => KeepsContract`: tickets and intents implement `Ownership` |
| `OnsAnswerStops` | `Spec /\ Ledger!Counting => [](\A d \in Device : ons[d] <= stops[d])`: here nobody vouches |
| `RecoveryIsLasting` | what a recovery has saved, no later one finds invalid |
| `CausalReadbackProofs!TypeCorrect` | `Spec => []TypeOK` |
| `ConfirmationsAreTrue` | `Spec => ConfirmedIsTrue` |
| `FencesCoverTheGroup` | `Spec => FenceCoversGroup` |

*RestoreTransactions.* The properties are not inductive. A ticket in the file is
a proof only because the record it names can no longer change: serials not yet
handed out are in no journal (`UnusedSerials`), a record keeps its load and
action from the file to memory (`JournalsAgree`), and the action under way has
the phase its program counter says, on a serial no ticket has (`InFlight`).
`IntentIsDurable` starts one await earlier, at the permission check
(`DispatchedOnDisk`). `NoSecondOn` needs that a spent ticket is unusable in
memory and in the file (`SpentTicketsAreBlocked`) and that the stop under way
cannot produce one (`SpentTicketsAreOld`). `IInv` is their conjunction, with
one lemma per action; the action property follows from `IInv` and
the guard of `Call`.

*Ownership.* Every step maps to a step of `Ownership` or to a stutter. Most steps
are a `GiveUp`: nothing but a confirmation, an operator's clearing and a call may
add a claim or start a command. The step that needs an invariant is the ON: its
ticket must be retired in memory and in the file at once, and that is so because
nothing writes memory between the second save and the call (`SavedIsCurrent`).

*The ledger.* A claim that still stands has been counted and not been used
(`LedgerInv`); a claim begins by a confirmation or a vouching (`ClaimsBegin`) and
an ON ends one (`OnsUseClaims`). Each refinement carries the count to the program:
`Ledger` is the ledger instantiated with the claims and the command of that module, and
`OnsAnswerStops` follows from `ContractIsKept`. In `RestoreIntents` no step is a
`Vouch` (`NobodyVouches`), so the bound is the number of stops alone.

*Recovery.* Two laws about what a restart computes, for any file.
`RestartsAddUp`: the journal survives a recovery, so a restart cut short after its
save and repeated quarantines and retires the same. `RecoveryIsLasting`: voiding a list whose
dates lie too far ahead is done once, for dates that were acceptable at one time are
so at every later one.

*PolicyEngine.* `DwellIsContinuous` and `WindowIsContinuous` compare timers with
history, the second with one that every confirmed command starts anew; the window also survives in a mode change that may be undone
(`SavedWindowIsContinuous`), exists only in Auto and without fences
(`WindowIsWatched`), and each fence is as young as the shed or restore that set it, or a
later report has been seen (`FencesFollowActions`). Arithmetic on ages is in
four lemmas cited everywhere.

*PersistQueue.* A write that is queued or under way may land after anything else, so
each property is strengthened to the three images there are: the dict, the
one being written, the file. A command's record is in all of them from its second
save on (`IntentIsKept`); a load with an unconfirmed command is
quarantined in memory and in the dict, or is the one being called
(`AmbiguityIsKept`); a spent ticket is gone from both, or blocked there
(`SpentIsKept`). Steps that only remove history need no more than
`NarrowingKeeps`.

Its contract speaks of claims, of which there are up to four copies. Contents
move one way, from memory to the dict, to the write, to the file, so
only memory can bring a claim (`ClaimsFollow`), and the steps that change
memory are few. Two things have to be invariant (`OperationIsHeld`): while an
operation acts on a load nobody takes away the ticket it rests on, and the dict
has memory's tickets. The first makes the ON of a restore use up a claim that is
there, and `IntentIsKept` makes the other three copies unusable at that moment; the
second makes a confirmed stop add its own claim and lose none. A failed re-shed is
the one place where the dict offers what memory has retired (the disagreement
`PersistQueueReshed`); the claim was memory's until that step, so it is not a
new one.

`OperationsAloneKeepFile` is about the two disagreements of this module: both need a
save by a refresh that has released the lock. Without refreshes the dict is current
while a save of it is awaited and is what is being written, and a flag stays up
until a write of the present has landed (`AInv`). So the cause is those saves, not the
order in which the operations make their own.

*GridLoss.* `NothingForgotten` speaks of the end of an evaluation; the invariant
(`Progress`) says what the loop of `_handle_grid_loss` has settled when it is in
the middle of it. The loop goes on at the first load behind the last one;
that there is a first one is the well-foundedness of the natural numbers
(`FirstIsLeast`).

*RestoreIntents.* `Promises` says the same of memory and of the file: the file
keeps what was promised unless it says it cannot be trusted, memory unless the
file was found to be so, and what lapsed may have been pruned. It needs nothing of
the queue, so it is proved apart from it.

The queue has its own invariant, `QInv`: in memory and in the file the places of loads
that are not faulted are in the
order that `since` says their tickets were made in, none is greater than the number of
stops begun, and all of memory's are smaller while a stop is under way, which is
why its ticket gets a place of its own behind them. A stop that makes no ticket changes
neither the places nor `since`. Choosing the last place among the
candidates is then choosing the load whose ticket the latest stop made
(`RestoreInReverse`). Its last
part, that the file has the load flagged from the first save of an action on, is
what the contract needs: no copy of the ticket an ON is out for can come back from
the file. Every step is a `SwitchOn`, a `SwitchOff`, a `Take`, or loses claims
(`NothingGained`).

*CausalReadback.* While nobody interferes, every report on its way, or received
since the capture, that shows what was asked is still true (`Honest`, by
`Undisturbed`). For the fence, a complete group has a report that is not older than
the last moment it was incomplete (`Fenced`), and the confirmed stamp is the
latest of its reports (`GreatestExists`: there is a latest one).

Every invariant, action property and refinement of a passing run is proved. Only
model-checked are the liveness properties, because the prover does not reason
about fairness and `ENABLED`: `LockIsReleased`, `ShedFenceIsReleased`,
`RejectedIsRetried`, `LowBatteryStops`, `OperationEnds` and `EligibleIsRestored`.

## Not modelled

- The startup and notification steps of the telemetry lane and `average_load`: the
  lane they lead to, a latched fault and its recovery, is modelled.
- The modules are not composed into one controller: each lets what another
  decides happen at any time it could. `RestoreTransactions`, `PersistQueue` and
  `RestoreIntents` have the contract of `Ownership` in common. A composition of two of them is
  out of TLC's reach at instances in which the interesting cases happen.
- Setup, unload and migration beyond what a restart does to the state, services'
  schemas, repair issues.
- Validation, normalisation and migration of stored and configured data, the bound
  of the journal, texts, events: data handling without
  interleaving.
- Config flow, entities, diagnostics, scripts: no state the properties tell apart.
- A caller cancelled while its save is being written leaves a write that nobody
  waits for; `PersistQueue` has no cancellation, `RestoreTransactions` has it
  with saves as one step.

## Plan

Done: `RestoreTransactions`, `PolicyEngine`, `GridLoss`, `PersistQueue`,
`RestoreIntents`, `CausalReadback`, `Ownership` with its refinements and its ledger, and
the proofs above. Left, in this order:

1. `TelemetryFault`: startup gate, latch, notification, automatic and manual
   recovery (ADR 0001), with stale, invalid and missing readings apart.
2. `Lifecycle`: setup, listeners before the first refresh, reload, unload with an
   operation under way.
3. Cancellation in `PersistQueue`.
4. A composition of policy, supply loss and transactions under one lock, on top of
   `Ownership` in place of `RestoreTransactions`.
