--------------------------- MODULE RestoreIntents ---------------------------
(***************************************************************************)
(* Who wants a load back, and what becomes of the wish: the intents that   *)
(* owners publish, replace and withdraw (requests.py, intent_binding.py,   *)
(* async_set_restore_intent), the tickets and the order they are answered  *)
(* in (selection.py, restore_transactions.py, _perform_restore), and what  *)
(* a restart makes of both when the wall clock has moved meanwhile         *)
(* (storage.py, runtime_recovery.py).                                      *)
(*                                                                         *)
(* mem is what _save_runtime_snapshot would write; disk is what a restart  *)
(* would make of the file, so a load whose journal record is unresolved    *)
(* there is flagged in it (RestoreTransactions and PersistQueue model the  *)
(* journal).  The conditions of other modules (Auto, fences, telemetry,    *)
(* measured load) may refuse every evaluation and every call, or, with     *)
(* OthersRefuse FALSE, never do.                                           *)
(***************************************************************************)
EXTENDS Naturals

CONSTANTS
    Device,        \* the logical loads
    Climate,       \* loads restored by set_temperature, then set_hvac_mode
    BatteryLoads,  \* loads with a battery minimum
    Owner,         \* sources that publish intents
    Wants,         \* what intents ask of their producer, maybe Anything
    Entity,        \* command entities a load may be configured with
    OthersRefuse,  \* whether conditions of other modules may fail
    Subject,       \* the loads that owners publish intents for
    TTL,           \* MAX_INTENT_TTL_S in ticks
    Pause,         \* the pause period in ticks
    MaxTime,       \* bound on the wall clock
    MaxEvents,     \* bound on publications, stops and restarts together
    MaxRestarts,   \* bound on the restarts among them
    None,          \* no lease
    Anything,      \* no condition, no expectation
    Unknown        \* no readable state, no known promise

ASSUME ConstantsAssumption ==
    /\ Climate \cup BatteryLoads \subseteq Device
    /\ Subject \subseteq Device
    /\ OthersRefuse \in BOOLEAN
    /\ TTL \in Nat \ {0}
    /\ {Pause, MaxTime, MaxEvents, MaxRestarts} \subseteq Nat

ASSUME OwnersAssumption == "manual_observed" \notin Owner

VARIABLES
    now,       \* time.time()
    mem,       \* leases, pending tickets, pauses, flagged loads
    disk,      \* what a restart would recover of the file
    blocked,   \* _safety_storage_invalid: see Written
    op,        \* the operation that holds the evaluation lock
    offered,   \* what each owner's input_text or permit entity shows
    window,    \* whether the restore window has been opened
    on,        \* what each relay reports
    entity,    \* the configured command entity of each load
    spent,     \* publications, stops and restarts so far
    since,     \* history: for each load, those whose stops made a ticket
               \*   since its own last stop that made one
    promise    \* history: what each owner was last told stands

vars == <<now, mem, disk, blocked, op, offered, window,
          on, entity, spent, since, promise>>

-----------------------------------------------------------------------------
(* The controller's own source, a name it does not refuse an owner.        *)
Manual == "manual_observed"
Source == Owner \cup {Manual}

(* A RestoreIntent.  wants is its permit entity or its producer binding:   *)
(* both are a condition on a state that is read at every check.  revision  *)
(* is uuid4 in the code; 0 for _ensure_manual_intent, which sets none.     *)
Lease == [revision : 0..MaxEvents, expires : 0..(MaxTime + TTL),
          wants : Wants \cup {Anything}]

Data == Wants \ {Anything}

(* pending is a list in the code; place is the number of the stop that a   *)
(* ticket proves, so a later one is further down the list.  paused is      *)
(* pause_until, 0 for none.                                                *)
Ticket == [dev : Device, place : 1..MaxEvents, created : 0..MaxTime,
           entity : Entity]

Snapshot == [lease : [Device -> [Source -> Lease \cup {None}]],
             pending : SUBSET Ticket,
             paused : [Device -> 0..(MaxTime + Pause)],
             flagged : SUBSET Device]

Idle == [kind |-> "idle"]

MayHappen == spent.calls + spent.stops + spent.restarts < MaxEvents

NoLeases == [d \in Device |-> [s \in Source |-> None]]

-----------------------------------------------------------------------------
Due(l) == now >= l.expires

BindingPermits(s, l) ==
    l.wants = Anything \/ (s \in Owner /\ offered[s] = l.wants)

Live(m, d, s) == m.lease[d][s] # None /\ ~Due(m.lease[d][s])

(* RestoreIntentRegistry.permits: any source will do.                      *)
Permits(m, d) ==
    \E s \in Source : Live(m, d, s) /\ BindingPermits(s, m.lease[d][s])

ActiveSources(m, d) == {s \in Source : Live(m, d, s)}

Expired(t) == now >= t.created + TTL

Tickets(m, d) == {t \in m.pending : t.dev = d}

NewTicket(d, n) ==
    [dev |-> d, place |-> n, created |-> now, entity |-> entity[d]]

(* Mutants of Created: a second ticket keeps the place of the first, or    *)
(* the first is left behind.                                               *)
CreatedInPlace(m, d) ==
    [m EXCEPT !.pending =
        IF Tickets(m, d) = {} THEN @ \cup {NewTicket(d, spent.stops)}
        ELSE (@ \ Tickets(m, d))
               \cup {NewTicket(d, t.place) : t \in Tickets(m, d)}]

CreatedTwice(m, d) ==
    [m EXCEPT !.pending = @ \cup {NewTicket(d, spent.stops)}]

(* RestoreTransactions.create: a new proof goes to the end.                *)
Created(m, d) ==
    [m EXCEPT !.pending =
        (@ \ Tickets(m, d)) \cup {NewTicket(d, spent.stops)}]

Removed(m, d) == [m EXCEPT !.pending = @ \ Tickets(m, d)]

(* _pause_device.                                                          *)
PauseSet(m, d) ==
    [m EXCEPT !.paused[d] = IF Pause = 0 THEN 0 ELSE now + Pause]

PauseActive(m, d) == now < m.paused[d]

(* RestoreTransactions.reconcile.                                          *)
Wanted(m) ==
    {t \in m.pending : ~Expired(t) /\ ActiveSources(m, t.dev) # {}}

Reconciled(m) ==
    [m EXCEPT
        !.lease = [d \in Device |-> [s \in Source |->
                      IF Live(m, d, s) THEN m.lease[d][s] ELSE None]],
        !.pending = Wanted(m)]

(* _ensure_manual_intent: only where nobody else speaks for the load.      *)
WithManual(m, d) ==
    IF ActiveSources(m, d) # {} THEN m
    ELSE [m EXCEPT !.lease[d][Manual] =
             [revision |-> 0, expires |-> now + TTL, wants |-> Anything]]

(* The flagged loads a crash would add: an action under way is unresolved  *)
(* in the journal until its terminal snapshot.                             *)
InFlight == IF op.kind \in {"stop", "restore"} THEN {op.dev} ELSE {}

-----------------------------------------------------------------------------
Init ==
    /\ now = 0
    /\ mem = [lease |-> NoLeases, pending |-> {},
              paused |-> [d \in Device |-> 0], flagged |-> {}]
    /\ disk = mem
    /\ blocked = "no"
    /\ op = Idle
    /\ offered = [s \in Owner |-> Unknown]
    /\ window = FALSE
    /\ on = [d \in Device |-> TRUE]
    /\ entity \in [Device -> Entity]
    /\ spent = [calls |-> 0, stops |-> 0, restarts |-> 0]
    /\ since = [d \in Device |-> {}]
    /\ promise = NoLeases

-----------------------------------------------------------------------------
(* The world: time and the producers.                                      *)

Tick ==
    /\ now < MaxTime
    /\ now' = now + 1
    /\ UNCHANGED <<mem, disk, blocked, op, offered, window, on, entity,
                   spent, since, promise>>

Offer(s, x) ==
    /\ offered[s] # x
    /\ offered' = [offered EXCEPT ![s] = x]
    /\ UNCHANGED <<now, mem, disk, blocked, op, window, on, entity,
                   spent, since, promise>>

(* _safety_storage_invalid is "run" after a failed publication, which only *)
(* the coordinator remembers, and "found" when the store read invalid      *)
(* state: any save then writes the verdict, and it is in the "file".       *)
Written == IF blocked = "found" THEN "file" ELSE blocked

-----------------------------------------------------------------------------
(* async_set_restore_intent.                                               *)

(* Mutant of Matches: two publications of the same content are equal.      *)
MatchesByContent(seen, l) ==
    \/ seen \in {Anything, l}
    \/ /\ seen \notin {None, Anything} /\ l # None
       /\ seen.expires = l.expires /\ seen.wants = l.wants

(* matches_snapshot: the whole record, revision included.                  *)
Matches(seen, l) == seen \in {Anything, l}

(* _restore_intent_eligibility.                                            *)
Eligibility(m) ==
    {<<t.dev, Permits(m, t.dev)>> : t \in m.pending}

(* What a call of owner s may ask for.  Its deadline was checked when the  *)
(* call was made; it may have lapsed while the call waited for the lock.   *)
Requests ==
    [revision : {spent.calls + 1}, expires : 1..(now + TTL), wants : Wants]
      \cup {None}

(* The locked part.  seen is what the caller expects to replace: something *)
(* it read at some time, or anything.  A mismatch changes nothing.         *)
Publish(d, s, l, seen) ==
    /\ op = Idle
    /\ MayHappen
    /\ Matches(seen, mem.lease[d][s])
    /\ mem' = Reconciled([mem EXCEPT !.lease[d][s] = l])
    /\ window' = (window /\ Eligibility(mem') = Eligibility(mem))
    /\ op' = [kind |-> "publish", dev |-> d, src |-> s, lease |-> l,
              seen |-> seen]
    /\ spent' = [spent EXCEPT !.calls = @ + 1]
    /\ promise' = [promise EXCEPT ![d][s] = Unknown]
    /\ UNCHANGED <<now, disk, blocked, offered, on, entity, since>>

(* Mutant of PublishSaved: the owner is answered before the write.         *)
PublishUnsaved ==
    /\ op.kind = "publish"
    /\ promise' = [promise EXCEPT ![op.dev][op.src] = op.lease]
    /\ op' = Idle
    /\ UNCHANGED <<now, mem, disk, blocked, offered, window, on, entity, spent,
                   since>>

PublishSaved ==
    /\ op.kind = "publish"
    /\ disk' = mem
    /\ blocked' = Written
    /\ promise' = [promise EXCEPT ![op.dev][op.src] = op.lease]
    /\ op' = Idle
    /\ UNCHANGED <<now, mem, offered, window, on, entity, spent, since>>

(* The owner gets the error; nothing is put back, commands are blocked.    *)
PublishFails ==
    /\ op.kind = "publish"
    /\ blocked' = IF blocked = "no" THEN "run" ELSE blocked
    /\ op' = Idle
    /\ UNCHANGED <<now, mem, disk, offered, window, on, entity, spent, since,
                   promise>>

(* async_cancel_restore.                                                   *)
CancelRestore(d) ==
    /\ op = Idle
    /\ Tickets(mem, d) # {}
    /\ mem' = Removed(mem, d)
    /\ window' = FALSE
    /\ \/ UNCHANGED <<disk, blocked>>
       \/ disk' = mem' /\ blocked' = Written
    /\ UNCHANGED <<now, op, offered, on, entity, spent, since,
                   promise>>

-----------------------------------------------------------------------------
(* Selection and the evaluations that lead to a restore.                   *)

(* _restore_eligible, with the owners' permission.                         *)
Candidate(m, t) ==
    /\ t.dev \notin m.flagged
    /\ ~on[t.dev]
    /\ ~PauseActive(m, t.dev)
    /\ Permits(m, t.dev)

Candidates(m) == {t \in m.pending : Candidate(m, t)}

RestoreAllowed == blocked = "no"

(* The restore lane is not reached, or has no room.                        *)
EvaluateBlocked ==
    /\ op = Idle
    /\ OthersRefuse \/ ~RestoreAllowed
    /\ mem' = Reconciled(mem)
    /\ window' \in {window, FALSE}
    /\ UNCHANGED <<now, disk, blocked, op, offered, on, entity,
                   spent, since, promise>>

(* Mutant of EvaluateWaits: only the load stopped last opens the window.   *)
EvaluateWaitsForLast ==
    /\ op = Idle
    /\ RestoreAllowed
    /\ ~window \/ Candidates(Reconciled(mem)) = {}
    /\ mem' = Reconciled(mem)
    /\ window' = \E t \in Candidates(mem') :
                    \A u \in mem'.pending : u.place <= t.place
    /\ UNCHANGED <<now, disk, blocked, op, offered, on, entity, spent, since,
                   promise>>

(* _perform_restore without a candidate, or with one and no window yet.    *)
EvaluateWaits ==
    /\ op = Idle
    /\ RestoreAllowed
    /\ ~window \/ Candidates(Reconciled(mem)) = {}
    /\ mem' = Reconciled(mem)
    /\ window' = (Candidates(mem') # {})
    /\ UNCHANGED <<now, disk, blocked, op, offered, on, entity,
                   spent, since, promise>>

(* The load stopped last comes first.                                      *)
BeginRestore ==
    /\ op = Idle
    /\ RestoreAllowed
    /\ window
    /\ mem' = Reconciled(mem)
    /\ \E t \in Candidates(mem') :
          /\ \A u \in Candidates(mem') : u.place <= t.place
          /\ op' = [kind |-> "restore", phase |-> "saving", dev |-> t.dev,
                    ticket |-> t]
    /\ UNCHANGED <<now, disk, blocked, offered, window, on,
                   entity, spent, since, promise>>

(* _command_off.  proves says whether its on_confirmed is _commit_stop,    *)
(* which makes a ticket, or _pause_device alone.                           *)
CommandOff(d, proves) ==
    /\ op = Idle
    /\ blocked = "no"
    /\ on[d]
    /\ MayHappen
    /\ spent' = [spent EXCEPT !.stops = @ + 1]
    /\ op' = [kind |-> "stop", phase |-> "saving", dev |-> d,
              proves |-> proves]
    /\ UNCHANGED <<now, disk, blocked, offered, window, on,
                   entity, since, promise>>

(* The stops that make a ticket: a shed of the evaluation or its stop for  *)
(* grid loss, after it has reconciled, the emergency stop and              *)
(* async_request_stop.  Those in an emergency do not spare a flagged load. *)
BeginStop(d) ==
    /\ CommandOff(d, TRUE)
    /\ \E m \in {mem, Reconciled(mem)} : mem' = WithManual(m, d)

(* _handle_manual_on_pending under enforced overload or grid loss, in the  *)
(* refresh before the evaluation reconciles: the load waits already.       *)
ReshedManual(d) ==
    /\ Tickets(mem, d) # {} /\ d \notin mem.flagged
    /\ CommandOff(d, FALSE)
    /\ UNCHANGED mem

(* _stop_on_low_battery: "its owner resumes it".                           *)
StopOnLowBattery(d) ==
    /\ d \in BatteryLoads
    /\ CommandOff(d, FALSE)
    /\ mem' = Reconciled(mem)

-----------------------------------------------------------------------------
(* The action under way; see RestoreTransactions for all of its protocol.  *)

InAction(kind, phase) == op.kind = kind /\ op.phase = phase

Acting == op.kind \in {"stop", "restore"}

Enter(phase) == op' = [op EXCEPT !.phase = phase]

Image == [mem EXCEPT !.flagged = @ \cup InFlight]

Latched(m, d) == [m EXCEPT !.flagged = @ \cup {d}]

SaveDispatched ==
    /\ Acting /\ op.phase = "saving"
    /\ disk' = Image
    /\ Enter("permission")
    /\ UNCHANGED <<now, mem, blocked, offered, window, on,
                   entity, spent, since, promise>>

(* _storage_failure of either save: the ticket goes, the load is flagged.  *)
SaveFails ==
    /\ Acting /\ op.phase \in {"saving", "terminal"}
    /\ mem' = Latched(Removed(mem, op.dev), op.dev)
    /\ window' = FALSE
    /\ op' = Idle
    /\ UNCHANGED <<now, disk, blocked, offered, on, entity,
                   spent, since, promise>>

(* Mutant of DispatchPermitted: the owners are not asked again.            *)
DispatchPermittedByTicket(t) ==
    /\ RestoreAllowed /\ window
    /\ t \in mem.pending
    /\ t.entity = entity[t.dev]
    /\ ~Expired(t) /\ ~PauseActive(mem, t.dev)
    /\ t.dev \notin mem.flagged
    /\ ~on[t.dev]

(* _restore_dispatch_permitted: everything again, before each call.        *)
DispatchPermitted(t) ==
    /\ RestoreAllowed /\ window
    /\ t \in mem.pending
    /\ t.entity = entity[t.dev]
    /\ ~Expired(t)
    /\ Candidate(mem, t)

SetTemperature ==
    /\ InAction("restore", "permission")
    /\ op.dev \in Climate
    /\ DispatchPermitted(op.ticket)
    /\ Enter("tempering")
    /\ UNCHANGED <<now, mem, disk, blocked, offered, window, on,
                   entity, spent, since, promise>>

CallOn ==
    /\ \/ InAction("restore", "permission") /\ op.dev \notin Climate
       \/ InAction("restore", "tempering")
    /\ DispatchPermitted(op.ticket)
    /\ Enter("calling")
    /\ UNCHANGED <<now, mem, disk, blocked, offered, window, on,
                   entity, spent, since, promise>>

(* A rejected ON resets the window, a rejected OFF leaves it.              *)
RejectOn ==
    /\ op.kind = "restore" /\ op.phase \in {"permission", "tempering"}
    /\ OthersRefuse \/ ~DispatchPermitted(op.ticket)
    /\ window' = FALSE
    /\ Enter("terminal")
    /\ UNCHANGED <<now, mem, disk, blocked, offered, on, entity,
                   spent, since, promise>>

(* Mutant of OnConfirmed: the ticket stays.                                *)
OnConfirmedTicketStays ==
    /\ InAction("restore", "calling")
    /\ on' = [on EXCEPT ![op.dev] = TRUE]
    /\ window' = FALSE
    /\ Enter("terminal")
    /\ UNCHANGED <<now, mem, disk, blocked, offered, entity, spent, since,
                   promise>>

OnConfirmed ==
    /\ InAction("restore", "calling")
    /\ on' = [on EXCEPT ![op.dev] = TRUE]
    /\ mem' = Removed(mem, op.dev)
    /\ window' = FALSE
    /\ Enter("terminal")
    /\ UNCHANGED <<now, disk, blocked, offered, entity, spent,
                   since, promise>>

CallOff ==
    /\ InAction("stop", "permission")
    /\ Enter("calling")
    /\ UNCHANGED <<now, mem, disk, blocked, offered, window, on,
                   entity, spent, since, promise>>

RejectOff ==
    /\ InAction("stop", "permission")
    /\ Enter("terminal")
    /\ UNCHANGED <<now, mem, disk, blocked, offered, window, on,
                   entity, spent, since, promise>>

(* complete with _commit_stop.                                             *)
OffConfirmed ==
    /\ InAction("stop", "calling") /\ op.proves
    /\ on' = [on EXCEPT ![op.dev] = FALSE]
    /\ mem' = Created(PauseSet(mem, op.dev), op.dev)
    /\ window' = FALSE
    /\ since' = [d \in Device |->
                    IF d = op.dev THEN {} ELSE since[d] \cup {op.dev}]
    /\ Enter("terminal")
    /\ UNCHANGED <<now, disk, blocked, offered, entity, spent,
                   promise>>

(* complete with _pause_device: a ticket the load has stays where it is.   *)
PauseConfirmed ==
    /\ InAction("stop", "calling") /\ ~op.proves
    /\ on' = [on EXCEPT ![op.dev] = FALSE]
    /\ mem' = PauseSet(mem, op.dev)
    /\ window' = FALSE
    /\ Enter("terminal")
    /\ UNCHANGED <<now, disk, blocked, offered, entity, spent,
                   since, promise>>

(* The call raised or was not confirmed; the relay may have moved.  A      *)
(* failed OFF leaves the window.                                           *)
CommandFails ==
    /\ Acting /\ op.phase \in {"calling", "tempering"}
    /\ mem' = Latched(mem, op.dev)
    /\ \E x \in BOOLEAN : on' = [on EXCEPT ![op.dev] = x]
    /\ window' = (window /\ op.kind = "stop")
    /\ Enter("terminal")
    /\ UNCHANGED <<now, disk, blocked, offered, entity, spent,
                   since, promise>>

SaveTerminal ==
    /\ Acting /\ op.phase = "terminal"
    /\ disk' = mem
    /\ op' = Idle
    /\ UNCHANGED <<now, mem, blocked, offered, window, on,
                   entity, spent, since, promise>>

-----------------------------------------------------------------------------
(* A load is switched on by hand.  If it was seen off before, the next     *)
(* refresh accepts it where there is headroom, or re-sheds it              *)
(* (ReshedManual), or leaves it as it is (_handle_manual_on_pending).      *)
SwitchByHand(d) ==
    /\ op = Idle
    /\ ~on[d]
    /\ on' = [on EXCEPT ![d] = TRUE]
    /\ UNCHANGED <<now, mem, disk, blocked, op, offered, window,
                   entity, spent, since, promise>>

AcceptManual(d) ==
    /\ op = Idle
    /\ on[d] /\ Tickets(mem, d) # {} /\ d \notin mem.flagged
    /\ mem' = Reconciled(Removed(mem, d))
    /\ window' \in {window, FALSE}
    /\ UNCHANGED <<now, disk, blocked, op, offered, on, entity,
                   spent, since, promise>>

(* _persist_runtime_if_dirty of a refresh, or the last save of a caller.   *)
BackgroundSave ==
    /\ disk # Image
    /\ disk' = Image
    /\ blocked' = Written
    /\ UNCHANGED <<now, mem, op, offered, window, on,
                   entity, spent, since, promise>>

(* async_recover at wall-clock time t: a deadline or a proof that lies too *)
(* far ahead voids its whole list.                                         *)
LeasesValid(t) ==
    \A d \in Device, s \in Source :
        disk.lease[d][s] # None => disk.lease[d][s].expires <= t + TTL

TicketsValid(t) == \A k \in disk.pending : k.created <= t

Unexpired(q, t) == {k \in q : t < k.created + TTL}

(* restore_pause_timestamps; the longest pause it believes is as long as   *)
(* the longest deadline, 24 hours.                                         *)
PausesRestored(t) ==
    [d \in Device |-> IF t < disk.paused[d] /\ disk.paused[d] <= t + TTL
                      THEN disk.paused[d] ELSE 0]

Restored(t) ==
    [disk EXCEPT
        !.lease = IF LeasesValid(t) THEN @ ELSE NoLeases,
        !.pending = IF TicketsValid(t) THEN Unexpired(@, t) ELSE {},
        !.paused = PausesRestored(t)]

(* What the readers found is only remembered if the recovery is saved.     *)
Verdict(t, found) ==
    CASE blocked = "file" -> "file"
      [] blocked # "file" /\ ~(LeasesValid(t) /\ TicketsValid(t)) -> found
      [] OTHER -> "no"

(* The process stops at any point and starts again, with the clock and the *)
(* configuration changed in between.  Promises that had lapsed are void,   *)
(* because a clock set back could revive them.                             *)
Restart(t, e) ==
    /\ MayHappen /\ spent.restarts < MaxRestarts
    /\ spent' = [spent EXCEPT !.restarts = @ + 1]
    /\ now' = t
    /\ entity' = e
    /\ mem' = Restored(t)
    /\ \/ disk' = mem' /\ blocked' = Verdict(t, "file")
       \/ disk' = disk /\ blocked' = Verdict(t, "found")
    /\ op' = Idle
    /\ window' = FALSE
    /\ promise' = [d \in Device |-> [s \in Source |->
                      IF /\ promise[d][s] \notin {None, Unknown}
                         /\ Due(promise[d][s])
                      THEN Unknown ELSE promise[d][s]]]
    /\ UNCHANGED <<offered, on, since>>

-----------------------------------------------------------------------------
Evaluate == EvaluateBlocked \/ EvaluateWaits \/ BeginRestore

Advance ==
    \/ PublishSaved \/ PublishFails
    \/ SaveDispatched \/ SaveFails \/ SaveTerminal
    \/ SetTemperature \/ CallOn \/ RejectOn \/ OnConfirmed
    \/ CallOff \/ RejectOff \/ OffConfirmed \/ PauseConfirmed \/ CommandFails

Next ==
    \/ Evaluate \/ Advance
    \/ Tick \/ BackgroundSave
    \/ \E s \in Owner, x \in Data \cup {Unknown} : Offer(s, x)
    \/ /\ op = Idle /\ MayHappen
       /\ \E d \in Subject, s \in Owner, l \in Requests,
             seen \in Lease \cup {None, Anything} : Publish(d, s, l, seen)
    \/ \E d \in Device :
          \/ CancelRestore(d) \/ SwitchByHand(d) \/ AcceptManual(d)
          \/ BeginStop(d) \/ ReshedManual(d) \/ StopOnLowBattery(d)
    \/ \E t \in 0..MaxTime, e \in [Device -> Entity] : Restart(t, e)

Spec == Init /\ [][Next]_vars

(* Home Assistant keeps evaluating and awaits end.  Time need not pass:    *)
(* the model asks what any number of evaluations does at one time.         *)
FairSpec == Spec /\ WF_vars(Evaluate) /\ WF_vars(Advance)

-----------------------------------------------------------------------------
Operation ==
    {Idle} \cup [kind : {"publish"}, dev : Subject, src : Owner,
                 lease : Lease \cup {None},
                 seen : Lease \cup {None, Anything}]
           \cup [kind : {"stop"}, dev : Device, proves : BOOLEAN,
                 phase : {"saving", "permission", "calling", "terminal"}]
           \cup [kind : {"restore"}, dev : Device, ticket : Ticket,
                 phase : {"saving", "permission", "tempering", "calling",
                          "terminal"}]

TypeOK ==
    /\ now \in 0..MaxTime
    /\ mem \in Snapshot /\ disk \in Snapshot
    /\ blocked \in {"no", "run", "found", "file"}
    /\ op \in Operation
    /\ offered \in [Owner -> Data \cup {Unknown}]
    /\ window \in BOOLEAN
    /\ on \in [Device -> BOOLEAN]
    /\ entity \in [Device -> Entity]
    /\ spent \in [calls : 0..MaxEvents, stops : 0..MaxEvents,
                  restarts : 0..MaxRestarts]
    /\ since \in [Device -> SUBSET Device]
    /\ promise \in [Device -> [Source -> Lease \cup {None, Unknown}]]
    /\ \A m \in {mem, disk} :
          \A t, u \in m.pending : t.dev = u.dev => t = u

(* An intent is replaced only by its lapse, by a restart, or by a call     *)
(* whose caller had read that very publication or asked for no comparison: *)
(* an answer computed from an older publication never overwrites a newer   *)
(* one, even one of the same content (matches_snapshot, revision).         *)
NoLostUpdate ==
    [][\A d \in Device, s \in Source :
         LET l == mem.lease[d][s]
         IN  l # None /\ mem'.lease[d][s] # l =>
               \/ Due(l)
               \/ spent'.restarts # spent.restarts
               \/ /\ op'.kind = "publish" /\ op'.dev = d /\ op'.src = s
                  /\ op'.seen \in {l, Anything}]_vars

(* What an owner was told stands is what a restart finds: an accepted      *)
(* publication or withdrawal is in the file, until it lapses or the next   *)
(* call of that owner is under way, whatever else was saved, failed or     *)
(* stopped in between.                                                     *)
PromiseIsKept ==
    \A d \in Device, s \in Owner :
        LET p == promise[d][s]
        IN  \/ p = Unknown
            \/ blocked = "file"
            \/ disk.lease[d][s] = p
            \/ p # None /\ Due(p) /\ disk.lease[d][s] = None

(* An ON is issued only while somebody who was told so still wants it: the *)
(* last answered publication of an owner, allowed by its producer at this  *)
(* instant, or the intent the controller itself noted.  Two saves and, for *)
(* climate loads, a call lie between the decision and this instant.        *)
OnIsWanted ==
    [][op.kind = "restore" /\ op'.kind = "restore"
         /\ op'.phase = "calling" /\ op.phase # "calling" =>
         \E s \in Source :
            LET p == promise[op.dev][s]
            IN  \/ /\ s = Manual \/ p = Unknown
                   /\ Live(mem, op.dev, s)
                   /\ BindingPermits(s, mem.lease[op.dev][s])
                \/ p \notin {None, Unknown} /\ ~Due(p) /\ BindingPermits(s, p)]_vars

(* Restores run in the reverse order of the stops that made the tickets:   *)
(* when a load is chosen, none whose ticket a later stop made is waiting   *)
(* and eligible, across repeated stops, refusals, manual switching and     *)
(* restarts.  A confirmed OFF that makes no ticket, the re-shed of a       *)
(* manual ON or the battery minimum's, moves no load in that order         *)
(* (RestoreTransactions.create, restore_candidates).                       *)
RestoreInReverse ==
    [][op.kind # "restore" /\ op'.kind = "restore" =>
         ~\E t \in Candidates(mem') : t.dev \in since[op'.dev]]_vars

(* "Restore runs when all of these are true": a waiting load that stays    *)
(* eligible, and whose captured snapshot is still compatible, is restored. *)
EligibleIsRestored ==
    \A d \in Device :
        ~ /\ <>[](RestoreAllowed /\ \E t \in Tickets(mem, d) :
                     Candidate(mem, t) /\ ~Expired(t) /\ t.entity = entity[d])
          /\ <>[][UNCHANGED offered]_vars

(* The controller's promise about ONs, kept by all of this.                *)
Unspent(m) ==
    {d \in Device : Tickets(m, d) # {} /\ d \notin m.flagged}

OnOutstanding == InAction("restore", "calling")

Claims ==
    Unspent(disk)
      \cup (Unspent(mem) \ (IF OnOutstanding THEN {op.dev} ELSE {}))

Contract ==
    INSTANCE Ownership WITH
        Load <- Device,
        owed <- Claims,
        wanted <- {d \in Device : Permits(mem, d)},
        command <- IF OnOutstanding THEN <<"on", op.dev>>
                   ELSE IF InAction("stop", "calling") THEN <<"off", op.dev>>
                   ELSE <<>>

KeepsContract == Contract!Spec
=============================================================================
