------------------------ MODULE RestoreTransactions ------------------------
(***************************************************************************)
(* The journaled transaction around every physical stop and restore        *)
(* (restore_transactions.py, with _command_off, _command_on and            *)
(* _commit_stop of coordinator.py), the snapshot it saves (storage.py) and *)
(* what a restart rebuilds from it (runtime_recovery.py).                  *)
(*                                                                         *)
(* The controller's durable memory is one record, mem; the file holds an   *)
(* earlier value of it, disk.  Every save writes all of mem at once        *)
(* (_save_runtime_snapshot, RuntimeStore.async_save), so a save that lands *)
(* is disk' = mem.  A relay belongs to the environment: it moves by hand,  *)
(* late, or because of a command, so what a load reports is an input of    *)
(* every action that reads it, any value at any time.                      *)
(* Permission evidence that this module has no variable for (telemetry,    *)
(* battery, intents, pauses, headroom) may be withdrawn at every check, so *)
(* each check has a refusing action that is always possible.               *)
(***************************************************************************)
EXTENDS Naturals

CONSTANTS
    Device,       \* the logical loads of the configuration
    NoDevice,     \* "no device": the journal entries not yet written
    Fallback,     \* loads with emergency_off_entities
    Climate,      \* loads restored by set_temperature, then set_hvac_mode
    MaxActions    \* bound on the actions of a behaviour

ASSUME ConstantsAssumption ==
    /\ NoDevice \notin Device
    /\ Fallback \subseteq Device
    /\ Climate \subseteq Device
    /\ MaxActions \in Nat

VARIABLES
    proc,      \* the process: "up", "stopping" (async_shutdown ran) or "down"
    mem,       \* what _save_runtime_snapshot would write now
    disk,      \* what the runtime store's file holds
    txn,       \* the operation that holds the evaluation lock
    window,    \* whether the restore window has matured
    next,      \* serial of the next action (uuid4 in the code: never reused)
    exposed,   \* history: loads commanded with no confirmed outcome since
    spent      \* history: tickets an ON was issued for, until a clear

vars == <<proc, mem, disk, txn, window, next, exposed, spent>>

-----------------------------------------------------------------------------
Serial == 1..MaxActions
SerialOrNone == 0..MaxActions
Mode == {"off", "observe", "auto"}
Reading == {"on", "off", "unknown"}
Source == {"policy", "service", "grid_loss", "battery_minimum",
           "manual_on_reshed", "emergency"}
Fence == {"shed", "restore"}
Unresolved == {"prepared", "dispatched"}
Phase == Unresolved \cup {"absent", "confirmed", "rejected", "failed"}
Record == [dev : Device \cup {NoDevice},
           action : {"none", "turn_off", "turn_on"},
           phase : Phase]
Blank == [dev |-> NoDevice, action |-> "none", phase |-> "absent"]

(* The snapshot.  A ticket is the serial of the confirmed stop it proves,  *)
(* 0 when the load has none: serials grow, so they also carry the order of *)
(* RestoreTransactions.pending.                                            *)
Snapshot == [mode : Mode,
             ticket : [Device -> SerialOrNone],
             quarantined : SUBSET Device,
             journal : [Serial -> Record],
             fences : SUBSET Fence]

Fresh == [mode |-> "observe",
          ticket |-> [d \in Device |-> 0],
          quarantined |-> {},
          journal |-> [n \in Serial |-> Blank],
          fences |-> {}]

(* An await of execute, or of the operation that holds the lock.           *)
Saving == {"save_prepared", "save_dispatched", "save_terminal",
           "save_cancelled", "save_mode", "save_clear", "settle"}
Commanding == {"tempering", "calling", "readback"}
Outstanding == {"calling", "readback"}
Executing == {"save_prepared", "save_dispatched", "permission",
              "save_terminal"} \cup Commanding

Transaction == [pc : {"idle", "permission"} \cup Saving \cup Commanding,
                act : SerialOrNone,
                dev : Device \cup {NoDevice},
                action : {"none", "turn_off", "turn_on"},
                source : Source \cup {"none"},
                emergency : BOOLEAN,
                ticket : SerialOrNone,
                retried : BOOLEAN,
                previous : Mode]

Idle == [pc |-> "idle", act |-> 0, dev |-> NoDevice, action |-> "none",
         source |-> "none", emergency |-> FALSE, ticket |-> 0,
         retried |-> FALSE, previous |-> "observe"]

UnresolvedDevices(m) ==
    {d \in Device : \E n \in Serial : /\ m.journal[n].dev = d
                                      /\ m.journal[n].phase \in Unresolved}

-----------------------------------------------------------------------------
Init ==
    /\ proc = "up"
    /\ mem = Fresh
    /\ disk = Fresh
    /\ txn = Idle
    /\ window = FALSE
    /\ next = 1
    /\ exposed = {}
    /\ spent = {}

-----------------------------------------------------------------------------
(* Permission, as far as this module's variables decide it.                *)

CommandsAllowed == proc = "up" /\ mem.mode = "auto"

RestoreAllowed ==
    CommandsAllowed /\ mem.fences = {}

(* An OFF is permitted again on the mode, the stop flag and the            *)
(* environment's evidence alone.                                           *)
OffPermitted == txn.action = "turn_off" /\ CommandsAllowed

(* An ON also needs its ticket, no quarantine, the relay off, no fence and *)
(* the window.                                                             *)
OnPermitted(reading) ==
    /\ txn.action = "turn_on"
    /\ RestoreAllowed
    /\ mem.ticket[txn.dev] = txn.ticket
    /\ txn.dev \notin mem.quarantined
    /\ reading = "off"
    /\ window

DispatchPermitted(reading) == OffPermitted \/ OnPermitted(reading)

(* The sources whose confirmed stop commits a ticket (_commit_stop); the   *)
(* other two only pause the load.                                          *)
CommitsTicket(source) ==
    source \in {"policy", "service", "grid_loss", "emergency"}

(* What lets each source reach _command_off for a load, and pass it there: *)
(* an emergency stop does not spare a quarantined load, the battery        *)
(* minimum's from _handle_grid_loss included.                              *)
MayStop(d, source, emergency, reading) ==
    /\ source = "policy" =>
         /\ ~emergency /\ "shed" \notin mem.fences
         /\ reading = "on" /\ d \notin mem.quarantined
    /\ source = "service" => reading = "on" /\ d \notin mem.quarantined
    /\ source = "manual_on_reshed" =>
         reading = "on" /\ d \notin mem.quarantined /\ mem.ticket[d] # 0
    /\ source \in {"battery_minimum", "grid_loss", "emergency"} =>
         emergency /\ reading # "off"

-----------------------------------------------------------------------------
(* Effects on the snapshot.                                                *)

Recorded(m, n, phase) ==
    [m EXCEPT !.journal[n] =
        [dev |-> txn.dev, action |-> txn.action, phase |-> phase]]

Removed(m, d) == [m EXCEPT !.ticket[d] = 0]

Latched(m, d) == [m EXCEPT !.quarantined = @ \cup {d}]

(* Mutant of Completed: an unconfirmed ON does not quarantine its load.    *)
CompletedWithoutLatch(m, result) ==
    CASE result = "failed" /\ txn.action = "turn_off" -> Latched(m, txn.dev)
      [] result = "confirmed" /\ txn.action = "turn_off" ->
           [m EXCEPT !.ticket[txn.dev] =
                         IF CommitsTicket(txn.source) THEN txn.act ELSE @]
      [] result = "confirmed" /\ txn.action = "turn_on" -> Removed(m, txn.dev)
      [] OTHER -> m

(* complete() of _command_off and of _command_on.                          *)
Completed(m, result) ==
    CASE result = "failed" -> Latched(m, txn.dev)
      [] result = "rejected" -> m
      [] result = "confirmed" /\ txn.action = "turn_off" ->
           [m EXCEPT !.ticket[txn.dev] =
                         IF CommitsTicket(txn.source) THEN txn.act ELSE @,
                     !.fences = IF txn.source = "policy"
                                THEN @ \cup {"shed"} ELSE @]
      [] OTHER -> [Removed(m, txn.dev) EXCEPT !.fences = @ \cup {"restore"}]

(* An OFF resets the restore window when it is confirmed, an ON always.    *)
WindowAfter(result) ==
    window /\ txn.action = "turn_off" /\ result # "confirmed"

(* Terminal result: projections, record, then the terminal save.           *)
Finish(result) ==
    /\ mem' = Recorded(Completed(mem, result), txn.act, result)
    /\ window' = WindowAfter(result)
    /\ txn' = [txn EXCEPT !.pc = "save_terminal"]

(* Mutants of Abandoned: the reason stored as the phase, and the ticket    *)
(* left in place.                                                          *)
AbandonedByReason(m) ==
    Recorded(Latched(Removed(m, txn.dev), txn.dev), txn.act, "storage_blocked")

AbandonedWithTicket(m) == Recorded(Latched(m, txn.dev), txn.act, "failed")

(* _storage_failure, and the same steps of the CancelledError handler.     *)
Abandoned(m) ==
    Recorded(Latched(Removed(m, txn.dev), txn.dev), txn.act, "failed")

-----------------------------------------------------------------------------
(* The start of a transaction: the record "prepared" and its save.         *)

Prepare(d, action, source, emergency) ==
    /\ next \in Serial
    /\ next' = next + 1
    /\ txn' = [Idle EXCEPT !.pc = "save_prepared", !.act = next, !.dev = d,
                           !.action = action, !.source = source,
                           !.emergency = emergency, !.ticket = mem.ticket[d]]
    /\ mem' = [mem EXCEPT !.journal[next] =
                   [dev |-> d, action |-> action, phase |-> "prepared"]]

BeginStop(d, source, emergency, reading) ==
    /\ txn = Idle
    /\ CommandsAllowed
    /\ MayStop(d, source, emergency, reading)
    /\ Prepare(d, "turn_off", source, emergency)
    /\ UNCHANGED <<proc, disk, window, exposed, spent>>

(* An all-stop that a shutdown overtakes: _command_off refuses the load    *)
(* and _perform_emergency_all_stop latches it all the same.                *)
RefuseEmergencyStop(d, reading) ==
    /\ txn = Idle
    /\ proc = "stopping" /\ mem.mode = "auto"
    /\ reading # "off"
    /\ mem' = Latched(mem, d)
    /\ window' = FALSE
    /\ txn' = [Idle EXCEPT !.pc = "settle"]
    /\ UNCHANGED <<proc, disk, next, exposed, spent>>

BeginRestore(d, reading) ==
    /\ txn = Idle
    /\ RestoreAllowed
    /\ mem.ticket[d] # 0
    /\ d \notin mem.quarantined
    /\ reading = "off"
    /\ window
    /\ Prepare(d, "turn_on", "policy", FALSE)
    /\ UNCHANGED <<proc, disk, window, exposed, spent>>

SavePrepared ==
    /\ txn.pc = "save_prepared"
    /\ disk' = mem
    /\ mem' = Recorded(mem, txn.act, "dispatched")
    /\ txn' = [txn EXCEPT !.pc = "save_dispatched"]
    /\ UNCHANGED <<proc, window, next, exposed, spent>>

(* Mutant of SaveDispatched: the record is changed but not written.        *)
SaveDispatchedUnwritten ==
    /\ txn.pc = "save_dispatched"
    /\ txn' = [txn EXCEPT !.pc = "permission"]
    /\ UNCHANGED <<proc, mem, disk, window, next, exposed, spent>>

SaveDispatched ==
    /\ txn.pc = "save_dispatched"
    /\ disk' = mem
    /\ txn' = [txn EXCEPT !.pc = "permission"]
    /\ UNCHANGED <<proc, mem, window, next, exposed, spent>>

(* A save that raises leaves the file as it was (it is replaced            *)
(* atomically) and _persist_runtime_if_dirty returns False.                *)
SaveFails ==
    /\ txn.pc \in {"save_prepared", "save_dispatched", "save_terminal"}
    /\ mem' = Abandoned(mem)
    /\ window' = FALSE
    /\ txn' = [txn EXCEPT !.pc = "settle"]
    /\ UNCHANGED <<proc, disk, next, exposed, spent>>

-----------------------------------------------------------------------------
(* dispatch(): the last permission check, the calls and the readback.      *)

Reject ==
    /\ txn.pc = "permission"
    /\ Finish("rejected")
    /\ UNCHANGED <<proc, disk, next, exposed, spent>>

(* set_temperature of a climate load: no power is switched.                *)
SetTemperature(reading) ==
    /\ txn.pc = "permission"
    /\ DispatchPermitted(reading)
    /\ txn.action = "turn_on" /\ txn.dev \in Climate /\ ~txn.retried
    /\ txn' = [txn EXCEPT !.pc = "tempering", !.retried = TRUE]
    /\ UNCHANGED <<proc, mem, disk, window, next, exposed, spent>>

TemperatureSet ==
    /\ txn.pc = "tempering"
    /\ txn' = [txn EXCEPT !.pc = "permission"]
    /\ UNCHANGED <<proc, mem, disk, window, next, exposed, spent>>

Call(reading) ==
    /\ txn.pc = "permission"
    /\ DispatchPermitted(reading)
    /\ txn' = [txn EXCEPT !.pc = "calling"]
    /\ exposed' = exposed \cup {txn.dev}
    /\ spent' = IF txn.action = "turn_on" THEN spent \cup {txn.ticket}
                                          ELSE spent
    /\ UNCHANGED <<proc, mem, disk, window, next>>

CallReturns ==
    /\ txn.pc = "calling"
    /\ txn' = [txn EXCEPT !.pc = "readback"]
    /\ UNCHANGED <<proc, mem, disk, window, next, exposed, spent>>

(* The service call raised: TransitionResult.FAILED, "service_error".      *)
CallRaises ==
    /\ txn.pc \in {"tempering", "calling"}
    /\ Finish("failed")
    /\ UNCHANGED <<proc, disk, next, exposed, spent>>

Confirm(reading) ==
    /\ txn.pc = "readback"
    /\ reading = (IF txn.action = "turn_on" THEN "on" ELSE "off")
    /\ Finish("confirmed")
    /\ exposed' = exposed \ {txn.dev}
    /\ UNCHANGED <<proc, disk, next, spent>>

ReadbackTimeout ==
    /\ txn.pc = "readback"
    /\ Finish("failed")
    /\ UNCHANGED <<proc, disk, next, exposed, spent>>

(* Mutant of CallFallback: the repetition is not counted.                  *)
CallFallbackAgain(reading) ==
    /\ txn.pc = "readback"
    /\ txn.emergency /\ txn.dev \in Fallback
    /\ DispatchPermitted(reading)
    /\ txn' = [txn EXCEPT !.pc = "calling"]
    /\ UNCHANGED <<proc, mem, disk, window, next, exposed, spent>>

(* An unconfirmed emergency OFF is repeated once on the fallback entities. *)
CallFallback(reading) ==
    /\ txn.pc = "readback"
    /\ txn.emergency /\ txn.dev \in Fallback /\ ~txn.retried
    /\ DispatchPermitted(reading)
    /\ txn' = [txn EXCEPT !.pc = "calling", !.retried = TRUE]
    /\ UNCHANGED <<proc, mem, disk, window, next, exposed, spent>>

(* After the terminal save an all-stop latches a load whose OFF it could   *)
(* not confirm, a rejected one included.                                   *)
SaveTerminal ==
    /\ txn.pc = "save_terminal"
    /\ disk' = mem
    /\ mem' = IF /\ txn.source = "emergency"
                 /\ mem.journal[txn.act].phase = "rejected"
              THEN Latched(mem, txn.dev) ELSE mem
    /\ txn' = [txn EXCEPT !.pc = "settle"]
    /\ UNCHANGED <<proc, window, next, exposed, spent>>

(* Cancellation at any await of execute; the interrupted save may have     *)
(* reached the file all the same.                                          *)
Cancel ==
    /\ txn.pc \in Executing \ {"permission"}
    /\ \/ disk' = disk
       \/ txn.pc \in Saving /\ disk' = mem
    /\ mem' = Abandoned(mem)
    /\ window' = FALSE
    /\ txn' = [txn EXCEPT !.pc = "save_cancelled"]
    /\ UNCHANGED <<proc, next, exposed, spent>>

(* The save of the CancelledError handler, and the caller's own last save  *)
(* (_persist_runtime_if_dirty): neither changes anything when it fails.    *)
EndOperation ==
    /\ txn.pc \in {"save_cancelled", "settle"}
    /\ disk' \in {disk, mem}
    /\ txn' = Idle
    /\ UNCHANGED <<proc, mem, window, next, exposed, spent>>

-----------------------------------------------------------------------------
(* The other operations on the same state, each under the lock.            *)

(* async_clear_quarantine: OFF verified, then the clear and its save.      *)
ClearQuarantine(d, reading) ==
    /\ txn = Idle
    /\ proc # "down"
    /\ d \in mem.quarantined
    /\ reading = "off"
    /\ mem' = [mem EXCEPT !.quarantined = @ \ {d}]
    /\ txn' = [Idle EXCEPT !.pc = "save_clear", !.dev = d]
    /\ exposed' = exposed \ {d}
    /\ spent' = spent \ {mem.ticket[d]}
    /\ UNCHANGED <<proc, disk, window, next>>

ClearSaved ==
    /\ txn.pc = "save_clear"
    /\ disk' = mem
    /\ txn' = Idle
    /\ UNCHANGED <<proc, mem, window, next, exposed, spent>>

ClearSaveFails ==
    /\ txn.pc = "save_clear"
    /\ mem' = Latched(mem, txn.dev)
    /\ txn' = Idle
    /\ UNCHANGED <<proc, disk, window, next, exposed, spent>>

(* async_set_mode.  A failed save puts back the mode.  It also puts back   *)
(* the start of the restore window, but not the capacity the window was    *)
(* measured for, so a window that was reset stays lost.                    *)
SetMode(mode) ==
    /\ txn = Idle
    /\ proc # "down"
    /\ mem' = [mem EXCEPT !.mode = mode]
    /\ window' = (window /\ mode = "auto")
    /\ txn' = [Idle EXCEPT !.pc = "save_mode", !.previous = mem.mode]
    /\ UNCHANGED <<proc, disk, next, exposed, spent>>

ModeSaved ==
    /\ txn.pc = "save_mode"
    /\ disk' = mem
    /\ txn' = Idle
    /\ UNCHANGED <<proc, mem, window, next, exposed, spent>>

ModeSaveFails ==
    /\ txn.pc = "save_mode"
    /\ mem' = [mem EXCEPT !.mode = txn.previous]
    /\ txn' = Idle
    /\ UNCHANGED <<proc, disk, window, next, exposed, spent>>

(* A cancelled caller of these two leaves memory as it stands.             *)
CancelOperation ==
    /\ txn.pc \in {"save_clear", "save_mode"}
    /\ disk' \in {disk, mem}
    /\ txn' = Idle
    /\ UNCHANGED <<proc, mem, window, next, exposed, spent>>

(* A ticket is retired without a physical action: async_cancel_restore, an *)
(* accepted manual ON (_handle_manual_on_pending), or reconcile for one    *)
(* that expired or lost its last intent.                                   *)
Retire(d) ==
    /\ txn = Idle
    /\ proc # "down"
    /\ mem.ticket[d] # 0
    /\ mem' = Removed(mem, d)
    /\ window' \in {FALSE, window}
    /\ txn' = [Idle EXCEPT !.pc = "settle"]
    /\ UNCHANGED <<proc, disk, next, exposed, spent>>

(* reconcile_shed and reconcile_restore: the causal report arrived.        *)
ReleaseFences(reached) ==
    /\ txn = Idle
    /\ proc # "down"
    /\ reached \cap mem.fences # {}
    /\ mem' = [mem EXCEPT !.fences = @ \ reached]
    /\ UNCHANGED <<proc, disk, txn, window, next, exposed, spent>>

(* An evaluation finds the safe-capacity window old enough.                *)
WindowMatures ==
    /\ txn = Idle
    /\ ~window
    /\ RestoreAllowed
    /\ \E d \in Device : mem.ticket[d] # 0 /\ d \notin mem.quarantined
    /\ window' = TRUE
    /\ UNCHANGED <<proc, mem, disk, txn, next, exposed, spent>>

(* A report callback resets the window, during any await.                  *)
WindowResets ==
    /\ window
    /\ window' = FALSE
    /\ UNCHANGED <<proc, mem, disk, txn, next, exposed, spent>>

(* The unlocked _persist_runtime_if_dirty of _async_update_data.  The      *)
(* Home Assistant store serializes writers, so it lands between the saves  *)
(* of the operation that holds the lock.  PersistQueue takes it apart.     *)
BackgroundSave ==
    /\ proc # "down"
    /\ txn.pc \notin Saving
    /\ disk # mem
    /\ disk' = mem
    /\ UNCHANGED <<proc, mem, txn, window, next, exposed, spent>>

-----------------------------------------------------------------------------
(* The process and its environment.                                        *)

(* async_shutdown raises the stop flag before it waits for the lock.       *)
Shutdown ==
    /\ proc = "up"
    /\ proc' = "stopping"
    /\ UNCHANGED <<mem, disk, txn, window, next, exposed, spent>>

Vanish ==
    /\ proc' = "down"
    /\ mem' = Fresh
    /\ txn' = Idle
    /\ window' = FALSE
    /\ UNCHANGED <<next, exposed, spent>>

ShutdownSaves ==
    /\ proc = "stopping"
    /\ txn = Idle
    /\ disk' \in {disk, mem}
    /\ Vanish

Crash ==
    /\ proc # "down"
    /\ \/ disk' = disk
       \/ txn.pc \in Saving /\ disk' = mem
    /\ Vanish

(* Mutant of Recovered: only "prepared" counts as unresolved.              *)
RecoveredWithoutDispatched(expired) ==
    [disk EXCEPT !.quarantined = @ \cup
                    {d \in Device : \E n \in Serial :
                        /\ disk.journal[n].dev = d
                        /\ disk.journal[n].phase = "prepared"},
                 !.ticket = [d \in Device |->
                                IF d \in expired THEN 0 ELSE disk.ticket[d]]]

(* async_recover: quarantine what is unresolved, drop expired tickets,     *)
(* commit the mode; when that save fails the mode is "observe".            *)
Recovered(expired) ==
    [disk EXCEPT !.quarantined = @ \cup UnresolvedDevices(disk),
                 !.ticket = [d \in Device |->
                                IF d \in expired THEN 0 ELSE disk.ticket[d]]]

Recover(expired) ==
    /\ proc = "down"
    /\ proc' = "up"
    /\ \/ mem' = Recovered(expired) /\ disk' = mem'
       \/ mem' = [Recovered(expired) EXCEPT !.mode = "observe"] /\ disk' = disk
    /\ UNCHANGED <<txn, window, next, exposed, spent>>

-----------------------------------------------------------------------------
(* The steps of the operation that holds the lock.                         *)
Advance ==
    \/ SavePrepared \/ SaveDispatched \/ SaveFails
    \/ Reject \/ TemperatureSet \/ CallReturns \/ CallRaises
    \/ ReadbackTimeout
    \/ \E r \in Reading :
          SetTemperature(r) \/ Call(r) \/ Confirm(r) \/ CallFallback(r)
    \/ SaveTerminal \/ Cancel \/ EndOperation
    \/ ClearSaved \/ ClearSaveFails \/ ModeSaved \/ ModeSaveFails
    \/ CancelOperation

Next ==
    \/ Advance
    \/ \E d \in Device, r \in Reading :
          \/ \E s \in Source, e \in BOOLEAN : BeginStop(d, s, e, r)
          \/ RefuseEmergencyStop(d, r)
          \/ BeginRestore(d, r)
          \/ ClearQuarantine(d, r)
    \/ \E m \in Mode : SetMode(m)
    \/ \E d \in Device : Retire(d)
    \/ \E reached \in SUBSET Fence : ReleaseFences(reached)
    \/ WindowMatures \/ WindowResets \/ BackgroundSave
    \/ Shutdown \/ ShutdownSaves \/ Crash
    \/ \E expired \in SUBSET Device : Recover(expired)

Spec == Init /\ [][Next]_vars

-----------------------------------------------------------------------------
TypeOK ==
    /\ proc \in {"up", "stopping", "down"}
    /\ mem \in Snapshot
    /\ disk \in Snapshot
    /\ txn \in Transaction
    /\ window \in BOOLEAN
    /\ next \in 1..(MaxActions + 1)
    /\ exposed \subseteq Device
    /\ spent \subseteq Serial

(* What makes a load untouchable after a restart from snapshot m.          *)
Covered(m, d) == d \in m.quarantined \/ d \in UnresolvedDevices(m)

(* A ticket, in memory or in the file, names a stop of that very load      *)
(* whose journal record in the same snapshot is terminal and confirmed:    *)
(* a stop that was abandoned, rejected or cancelled never leaves proof of  *)
(* ownership behind (execute, _storage_failure, _commit_stop).             *)
Proves(m) ==
    \A d \in Device : m.ticket[d] # 0 =>
        m.journal[m.ticket[d]] =
            [dev |-> d, action |-> "turn_off", phase |-> "confirmed"]

TicketIsProof == Proves(mem) /\ Proves(disk)

(* While a service call or its readback is outstanding the file already    *)
(* says "dispatched" for that action, whatever unlocked saves happened in  *)
(* between: a crash at that moment is recovered as unresolved.             *)
IntentIsDurable ==
    txn.pc \in Commanding =>
        disk.journal[txn.act] =
            [dev |-> txn.dev, action |-> txn.action, phase |-> "dispatched"]

(* A load that was commanded and never confirmed stays blocked: it is      *)
(* quarantined as soon as no transaction is still working on it, and       *)
(* whatever the file holds would quarantine it again after a crash.        *)
AmbiguityIsBlocked ==
    \A d \in exposed :
        /\ Covered(disk, d)
        /\ proc # "down" =>
             \/ d \in mem.quarantined
             \/ txn.dev = d /\ txn.pc \in Outstanding

(* "Failed persistence cannot roll those projections back into a second    *)
(* attempt": no ON is ever issued twice for one ticket, across failed      *)
(* saves, cancellations, crashes and restarts, unless an operator cleared  *)
(* the load in between with evidence that it is off.                       *)
NoSecondOn ==
    [][txn'.pc = "calling" /\ txn.pc = "permission" /\ txn.action = "turn_on"
         => txn.ticket \notin spent]_vars

(* The contract of Ownership, kept by the transactions: an ON uses up the  *)
(* claim of its confirmed stop at the instant it is issued, in memory and  *)
(* in every file a restart may find, and only an operator's clear may let  *)
(* a ticket that was used stand for another.  Intents are not modelled     *)
(* here, so every load is wanted; RestoreIntents adds them.                *)
Claims ==
    {d \in Device : \E m \in {mem, disk} : m.ticket[d] \notin {0} \cup spent}

CommandOut ==
    IF txn.pc \notin Outstanding THEN <<>>
    ELSE IF txn.action = "turn_on" THEN <<"on", txn.dev>>
    ELSE <<"off", txn.dev>>

Contract ==
    INSTANCE Ownership WITH
        Load <- Device, owed <- Claims, wanted <- Device, command <- CommandOut

KeepsContract == Contract!Spec

(* Every operation that takes the evaluation lock gives it back: no await  *)
(* of the protocol waits for another step of the protocol.                 *)
LockIsReleased == (txn.pc # "idle") ~> (txn.pc = "idle")

(* Awaits of the lock holder end: the service call returns or raises, the  *)
(* readback is bounded, a write ends.                                      *)
FairSpec == Spec /\ WF_vars(Advance)
=============================================================================
