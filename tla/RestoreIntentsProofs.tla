------------------------ MODULE RestoreIntentsProofs ------------------------
(***************************************************************************)
(* What an owner was told stands, nothing older overwrites it, loads come  *)
(* back in reverse order of the stops that made their tickets and each     *)
(* once for a stop, for any number of loads, owners and calls, and however *)
(* the clock is set across restarts.                                       *)
(***************************************************************************)
EXTENDS RestoreIntents, TLAPS

-----------------------------------------------------------------------------
(* Types.                                                                  *)

OneTicketEach(m) == \A t, u \in m.pending : t.dev = u.dev => t = u

Proper(m) == m \in Snapshot /\ OneTicketEach(m)

(* The bound is on the sum, a stop under way has been counted, and a       *)
(* restore is of the load that its ticket names.                           *)
Counted ==
    /\ spent.calls + spent.stops + spent.restarts <= MaxEvents
    /\ op.kind = "stop" => spent.stops >= 1
    /\ op.kind = "restore" => op.ticket.dev = op.dev

TInv == TypeOK /\ Counted

Stopping ==
    [kind : {"stop"}, dev : Device, proves : BOOLEAN,
     phase : {"saving", "permission", "calling", "terminal"}]

Restoring ==
    [kind : {"restore"}, dev : Device, ticket : Ticket,
     phase : {"saving", "permission", "tempering", "calling", "terminal"}]

Publishing ==
    [kind : {"publish"}, dev : Subject, src : Owner, lease : Lease \cup {None},
     seen : Lease \cup {None, Anything}]

LEMMA Operations ==
    /\ Operation = {Idle} \cup Publishing \cup Stopping \cup Restoring
    /\ Idle.kind = "idle" /\ Idle \in Operation
BY DEF Operation, Publishing, Stopping, Restoring, Idle

LEMMA OperationKinds ==
    ASSUME NEW o \in Operation
    PROVE  /\ o.kind = "idle" => o = Idle
           /\ o.kind = "publish" => o \in Publishing
           /\ o.kind = "stop" => o \in Stopping
           /\ o.kind = "restore" => o \in Restoring
           /\ o.kind \in {"idle", "publish", "stop", "restore"}
<1>1. CASE o = Idle
  BY <1>1, Operations
<1>2. CASE o \in Publishing
  BY <1>2 DEF Publishing
<1>3. CASE o \in Stopping
  BY <1>3 DEF Stopping
<1>4. CASE o \in Restoring
  BY <1>4 DEF Restoring
<1> QED
  BY <1>1, <1>2, <1>3, <1>4, Operations

(* The next phase of an action.                                            *)
LEMMA EnterTyped ==
    ASSUME op \in Operation, NEW phase, Enter(phase),
           \/ op.kind = "stop"
              /\ phase \in {"saving", "permission", "calling", "terminal"}
           \/ op.kind = "restore"
              /\ phase \in {"saving", "permission", "tempering", "calling",
                            "terminal"}
    PROVE  /\ op' \in Operation /\ op'.kind = op.kind /\ op'.phase = phase
           /\ op'.dev = op.dev
           /\ op.kind = "stop" => op'.proves = op.proves
           /\ op.kind = "restore" => op'.ticket = op.ticket
<1>1. CASE op.kind = "stop"
  <2>1. op \in Stopping
    BY <1>1, OperationKinds
  <2>2. /\ op' \in Stopping /\ op'.phase = phase /\ op'.dev = op.dev
        /\ op'.proves = op.proves
    BY <1>1, <2>1 DEF Stopping, Enter
  <2> QED
    BY <1>1, <2>2, Operations DEF Stopping
<1>2. CASE op.kind = "restore"
  <2>1. op \in Restoring
    BY <1>2, OperationKinds
  <2>2. /\ op' \in Restoring /\ op'.phase = phase /\ op'.dev = op.dev
        /\ op'.ticket = op.ticket
    BY <1>2, <2>1 DEF Restoring, Enter
  <2> QED
    BY <1>2, <2>2, Operations DEF Restoring
<1> QED
  BY <1>1, <1>2

(* What the operators make of a snapshot: tickets only go, but for Created *)
(* and the flags only grow.                                                *)
LEMMA ReconciledProper ==
    ASSUME NEW m, Proper(m)
    PROVE  /\ Proper(Reconciled(m))
           /\ Reconciled(m).pending \subseteq m.pending
           /\ Reconciled(m).flagged = m.flagged
<1> DEFINE kept == [d \in Device |-> [s \in Source |->
                      IF Live(m, d, s) THEN m.lease[d][s] ELSE None]]
<1>1. kept \in [Device -> [Source -> Lease \cup {None}]]
  BY DEF Proper, Snapshot
<1>2. Reconciled(m) = [m EXCEPT !.lease = kept, !.pending = Wanted(m)]
  BY DEF Reconciled
<1>3. Wanted(m) \subseteq m.pending
  BY DEF Wanted
<1> HIDE DEF kept
<1> QED
  BY <1>1, <1>2, <1>3 DEF Proper, Snapshot, OneTicketEach

LEMMA RemovedProper ==
    ASSUME NEW m, Proper(m), NEW d
    PROVE  /\ Proper(Removed(m, d))
           /\ Removed(m, d).pending = m.pending \ Tickets(m, d)
           /\ Removed(m, d).flagged = m.flagged
BY DEF Proper, Snapshot, OneTicketEach, Removed

LEMMA LatchedProper ==
    ASSUME NEW m, Proper(m), NEW d \in Device
    PROVE  /\ Proper(Latched(m, d))
           /\ Latched(m, d).pending = m.pending
           /\ Latched(m, d).flagged = m.flagged \cup {d}
BY DEF Proper, Snapshot, OneTicketEach, Latched

LEMMA CreatedProper ==
    ASSUME NEW m, Proper(m), NEW d \in Device, now \in 0..MaxTime,
           entity \in [Device -> Entity], spent.stops \in 1..MaxEvents
    PROVE  /\ Proper(Created(m, d))
           /\ Created(m, d).pending =
                (m.pending \ Tickets(m, d)) \cup {NewTicket(d, spent.stops)}
           /\ Created(m, d).flagged = m.flagged
<1>1. NewTicket(d, spent.stops) \in Ticket /\ NewTicket(d, spent.stops).dev = d
  BY DEF NewTicket, Ticket
<1> QED
  BY <1>1 DEF Proper, Snapshot, OneTicketEach, Created, Tickets

LEMMA PauseSetProper ==
    ASSUME NEW m, Proper(m), NEW d \in Device, now \in 0..MaxTime
    PROVE  /\ Proper(PauseSet(m, d))
           /\ PauseSet(m, d).pending = m.pending
           /\ PauseSet(m, d).flagged = m.flagged
<1> DEFINE until == IF Pause = 0 THEN 0 ELSE now + Pause
<1>1. until \in 0..(MaxTime + Pause)
  BY ConstantsAssumption
<1> DEFINE paused == [m.paused EXCEPT ![d] = until]
<1>2. PauseSet(m, d) = [m EXCEPT !.paused = paused]
  BY DEF PauseSet
<1>3. paused \in [Device -> 0..(MaxTime + Pause)]
  BY <1>1 DEF Proper, Snapshot
<1> HIDE DEF until, paused
<1> QED
  BY <1>2, <1>3 DEF Proper, Snapshot, OneTicketEach

LEMMA ImageProper ==
    ASSUME Proper(mem), op \in Operation
    PROVE  /\ Proper(Image)
           /\ Image.pending = mem.pending
           /\ Image.flagged = mem.flagged \cup InFlight
<1>1. InFlight \subseteq Device
  BY OperationKinds DEF InFlight, Stopping, Restoring
<1> QED
  BY <1>1 DEF Proper, Snapshot, OneTicketEach, Image

LEMMA LeasedProper ==
    ASSUME NEW m, Proper(m), NEW d \in Device, NEW s \in Source,
           NEW l \in Lease \cup {None}
    PROVE  /\ Proper([m EXCEPT !.lease[d][s] = l])
           /\ [m EXCEPT !.lease[d][s] = l].pending = m.pending
           /\ [m EXCEPT !.lease[d][s] = l].flagged = m.flagged
BY DEF Proper, Snapshot, OneTicketEach

LEMMA ManualProper ==
    ASSUME NEW m, Proper(m), NEW d \in Device, now \in 0..MaxTime
    PROVE  /\ Proper(WithManual(m, d))
           /\ WithManual(m, d).pending = m.pending
           /\ WithManual(m, d).flagged = m.flagged
<1> DEFINE l == [revision |-> 0, expires |-> now + TTL, wants |-> Anything]
<1>1. l \in Lease /\ Manual \in Source
  BY ConstantsAssumption DEF Lease, Source
<1>2. CASE ActiveSources(m, d) # {}
  BY <1>2 DEF WithManual
<1>3. CASE ActiveSources(m, d) = {}
  <2>1. WithManual(m, d) = [m EXCEPT !.lease[d][Manual] = l]
    BY <1>3 DEF WithManual
  <2> HIDE DEF l
  <2> QED
    BY <1>1, <2>1, LeasedProper
<1> QED
  BY <1>2, <1>3

LEMMA RestoredProper ==
    ASSUME Proper(disk), NEW t
    PROVE  /\ Proper(Restored(t))
           /\ Restored(t).pending \subseteq disk.pending
           /\ Restored(t).flagged = disk.flagged
<1>1. PausesRestored(t) \in [Device -> 0..(MaxTime + Pause)]
  BY ConstantsAssumption DEF Proper, Snapshot, PausesRestored
<1>2. /\ Unexpired(disk.pending, t) \subseteq disk.pending
      /\ NoLeases \in [Device -> [Source -> Lease \cup {None}]]
  BY DEF Unexpired, NoLeases
<1> QED
  BY <1>1, <1>2 DEF Proper, Snapshot, OneTicketEach, Restored

-----------------------------------------------------------------------------
(* Every step keeps the types.                                             *)

LEMMA StepTypes ==
    ASSUME TInv, Proper(mem'), Proper(disk'), op' \in Operation,
           op'.kind = "stop" => op.kind = "stop",
           op'.kind = "restore" => op'.ticket.dev = op'.dev,
           blocked' \in {"no", "run", "found", "file"},
           window' \in BOOLEAN, on' \in [Device -> BOOLEAN],
           since' \in [Device -> SUBSET Device],
           promise' \in [Device -> [Source -> Lease \cup {None, Unknown}]],
           UNCHANGED <<now, offered, entity, spent>>
    PROVE  TInv'
BY DEF TInv, TypeOK, Counted, Proper, OneTicketEach

LEMMA InitTypes ==
    ASSUME Init
    PROVE  TInv
<1>1. Proper(mem) /\ disk = mem
  <2>1. NoLeases \in [Device -> [Source -> Lease \cup {None}]]
    BY DEF NoLeases
  <2>2. [d \in Device |-> 0] \in [Device -> 0..(MaxTime + Pause)]
    BY ConstantsAssumption
  <2> QED
    BY <2>1, <2>2 DEF Init, Proper, Snapshot, OneTicketEach
<1>2. promise \in [Device -> [Source -> Lease \cup {None, Unknown}]]
  BY DEF Init, NoLeases
<1>3. /\ now = 0 /\ op = Idle /\ blocked = "no" /\ window = FALSE
      /\ offered = [s \in Owner |-> Unknown]
      /\ on = [d \in Device |-> TRUE] /\ since = [d \in Device |-> {}]
      /\ entity \in [Device -> Entity]
      /\ spent = [calls |-> 0, stops |-> 0, restarts |-> 0]
  BY DEF Init
<1>4. /\ spent \in [calls : 0..MaxEvents, stops : 0..MaxEvents,
                   restarts : 0..MaxRestarts]
      /\ spent.calls + spent.stops + spent.restarts <= MaxEvents
      /\ now \in 0..MaxTime
  BY <1>3, ConstantsAssumption
<1> QED
  BY <1>1, <1>2, <1>3, <1>4, Operations
  DEF TInv, TypeOK, Counted, Proper, OneTicketEach

(* Steps that at most drop tickets and lapsed leases.                      *)
LEMMA DroppingTypes ==
    ASSUME TInv,
           \/ EvaluateBlocked \/ EvaluateWaits
           \/ \E d \in Device : CancelRestore(d) \/ SwitchByHand(d) \/ AcceptManual(d)
    PROVE  TInv'
<1>1. Proper(mem) /\ Proper(disk) /\ op \in Operation
  BY DEF TInv, TypeOK, Proper, OneTicketEach
<1>2. op = Idle /\ op' = Idle
  BY DEF EvaluateBlocked, EvaluateWaits, CancelRestore, SwitchByHand, AcceptManual
<1>3. CASE EvaluateBlocked \/ EvaluateWaits
  <2>1. mem' = Reconciled(mem) /\ window' \in BOOLEAN
    BY <1>3 DEF EvaluateBlocked, EvaluateWaits, TInv, TypeOK
  <2>2. Proper(mem') /\ Proper(disk')
    BY <1>1, <1>3, <2>1, ReconciledProper DEF EvaluateBlocked, EvaluateWaits
  <2> QED
    BY <1>2, <1>3, <2>1, <2>2, Operations, StepTypes
    DEF EvaluateBlocked, EvaluateWaits, TInv, TypeOK
<1>4. ASSUME NEW d \in Device, CancelRestore(d)
      PROVE  TInv'
  <2>1. mem' = Removed(mem, d) /\ disk' \in {disk, mem'} /\ window' \in BOOLEAN
        /\ blocked' \in {"no", "run", "found", "file"}
    BY <1>4 DEF CancelRestore, Written, TInv, TypeOK
  <2>2. Proper(mem') /\ Proper(disk')
    BY <1>1, <2>1, RemovedProper
  <2> QED
    BY <1>2, <1>4, <2>1, <2>2, Operations, StepTypes
    DEF CancelRestore, TInv, TypeOK
<1>5. ASSUME NEW d \in Device, SwitchByHand(d)
      PROVE  TInv'
  BY <1>1, <1>2, <1>5, Operations, StepTypes DEF SwitchByHand, TInv, TypeOK
<1>6. ASSUME NEW d \in Device, AcceptManual(d)
      PROVE  TInv'
  <2>1. mem' = Reconciled(Removed(mem, d)) /\ window' \in BOOLEAN
    BY <1>6 DEF AcceptManual, TInv, TypeOK
  <2>2. Proper(mem') /\ Proper(disk')
    BY <1>1, <1>6, <2>1, RemovedProper, ReconciledProper DEF AcceptManual
  <2> QED
    BY <1>2, <1>6, <2>1, <2>2, Operations, StepTypes DEF AcceptManual, TInv, TypeOK
<1> QED
  BY <1>3, <1>4, <1>5, <1>6

LEMMA BeginRestoreTypes ==
    ASSUME TInv, BeginRestore
    PROVE  TInv'
<1>1. Proper(mem) /\ Proper(disk)
  BY DEF TInv, TypeOK, Proper, OneTicketEach
<1>2. mem' = Reconciled(mem)
  BY DEF BeginRestore
<1>3. Proper(mem')
  BY <1>1, <1>2, ReconciledProper
<1>4. PICK t \in Candidates(mem') :
          op' = [kind |-> "restore", phase |-> "saving", dev |-> t.dev, ticket |-> t]
  BY DEF BeginRestore
<1>5. t \in Ticket /\ t.dev \in Device
  BY <1>3 DEF Candidates, Proper, Snapshot, Ticket
<1>6. op' \in Restoring
  BY <1>4, <1>5 DEF Restoring
<1> QED
  BY <1>1, <1>3, <1>4, <1>6, Operations, StepTypes DEF BeginRestore, TInv, TypeOK

(* The three ways to begin a stop.                                         *)
StopBegins(d) == BeginStop(d) \/ ReshedManual(d) \/ StopOnLowBattery(d)

LEMMA StopBeginsCommand ==
    ASSUME NEW d, StopBegins(d)
    PROVE  \E proves \in BOOLEAN : CommandOff(d, proves)
BY DEF StopBegins, BeginStop, ReshedManual, StopOnLowBattery

LEMMA BeginStopTypes ==
    ASSUME TInv, NEW d \in Device, StopBegins(d)
    PROVE  TInv'
<1>1. Proper(mem) /\ Proper(disk) /\ now \in 0..MaxTime
  BY DEF TInv, TypeOK, Proper, OneTicketEach
<1>2. PICK proves \in BOOLEAN : CommandOff(d, proves)
  BY StopBeginsCommand
<1>3. Proper(mem')
  <2>1. CASE BeginStop(d)
    BY <1>1, <2>1, ReconciledProper, ManualProper DEF BeginStop
  <2>2. CASE ReshedManual(d) \/ StopOnLowBattery(d)
    BY <1>1, <2>2, ReconciledProper DEF ReshedManual, StopOnLowBattery
  <2> QED
    BY <2>1, <2>2 DEF StopBegins
<1>4. op' \in Stopping /\ op'.kind = "stop"
  BY <1>2 DEF CommandOff, Stopping
<1>5. /\ spent' \in [calls : 0..MaxEvents, stops : 0..MaxEvents,
                    restarts : 0..MaxRestarts]
      /\ spent'.calls + spent'.stops + spent'.restarts <= MaxEvents
      /\ spent'.stops >= 1
  BY <1>2, ConstantsAssumption DEF CommandOff, MayHappen, TInv, TypeOK, Counted
<1> QED
  BY <1>1, <1>2, <1>3, <1>4, <1>5, Operations
  DEF CommandOff, TInv, TypeOK, Counted, Proper, OneTicketEach

LEMMA SavingTypes ==
    ASSUME TInv, BackgroundSave \/ SaveDispatched \/ SaveFails \/ SaveTerminal
    PROVE  TInv'
<1>1. Proper(mem) /\ Proper(disk) /\ op \in Operation
      /\ blocked' \in {"no", "run", "found", "file"}
  BY DEF TInv, TypeOK, Proper, OneTicketEach, BackgroundSave, SaveDispatched,
     SaveFails, SaveTerminal, Written
<1>2. CASE BackgroundSave
  <2>1. Proper(disk')
    BY <1>1, <1>2, ImageProper DEF BackgroundSave
  <2> QED
    BY <1>1, <1>2, <2>1, StepTypes DEF BackgroundSave, TInv, TypeOK, Counted
<1>3. CASE SaveDispatched
  <2>1. Proper(disk')
    BY <1>1, <1>3, ImageProper DEF SaveDispatched
  <2>2. /\ op' \in Operation /\ op'.kind = op.kind /\ op'.dev = op.dev
        /\ op.kind = "restore" => op'.ticket = op.ticket
    BY <1>1, <1>3, EnterTyped DEF SaveDispatched, Acting
  <2> QED
    BY <1>1, <1>3, <2>1, <2>2, StepTypes DEF SaveDispatched, TInv, TypeOK, Counted
<1>4. CASE SaveFails
  <2>1. op.dev \in Device
    BY <1>1, <1>4, OperationKinds DEF SaveFails, Acting, Stopping, Restoring
  <2>2. Proper(mem')
    BY <1>1, <1>4, <2>1, RemovedProper, LatchedProper DEF SaveFails
  <2> QED
    BY <1>1, <1>4, <2>2, Operations, StepTypes DEF SaveFails, TInv, TypeOK
<1>5. CASE SaveTerminal
  BY <1>1, <1>5, Operations, StepTypes DEF SaveTerminal, TInv, TypeOK
<1> QED
  BY <1>2, <1>3, <1>4, <1>5

LEMMA CommandTypes ==
    ASSUME TInv,
           \/ SetTemperature \/ CallOn \/ RejectOn \/ OnConfirmed
           \/ CallOff \/ RejectOff \/ OffConfirmed
           \/ PauseConfirmed \/ CommandFails
    PROVE  TInv'
<1>1. Proper(mem) /\ Proper(disk) /\ op \in Operation
  BY DEF TInv, TypeOK, Proper, OneTicketEach
<1>2. op.kind \in {"stop", "restore"} /\ op.dev \in Device
  <2>1. op.kind \in {"stop", "restore"}
    BY DEF SetTemperature, CallOn, RejectOn, OnConfirmed, CallOff, RejectOff,
       OffConfirmed, PauseConfirmed, CommandFails, InAction, Acting
  <2> QED
    BY <1>1, <2>1, OperationKinds DEF Stopping, Restoring
<1>3. /\ op' \in Operation /\ op'.kind = op.kind
      /\ op.kind = "restore" => op'.ticket.dev = op'.dev
  <2>1. \E phase \in {"calling", "terminal", "tempering"} :
            Enter(phase) /\ (phase = "tempering" => op.kind = "restore")
    BY DEF SetTemperature, CallOn, RejectOn, OnConfirmed, CallOff, RejectOff,
       OffConfirmed, PauseConfirmed, CommandFails, InAction
  <2> QED
    BY <1>1, <1>2, <2>1, EnterTyped DEF TInv, Counted
<1>4. Proper(mem')
  <2>1. CASE OffConfirmed
    <3>1. spent.stops \in 1..MaxEvents
      BY <2>1, ConstantsAssumption DEF OffConfirmed, InAction, TInv, TypeOK, Counted
    <3> QED
      BY <1>1, <1>2, <2>1, <3>1, PauseSetProper, CreatedProper
      DEF OffConfirmed, TInv, TypeOK
  <2>2. CASE ~OffConfirmed
    BY <1>1, <1>2, <2>2, RemovedProper, LatchedProper, PauseSetProper
    DEF SetTemperature, CallOn, RejectOn, OnConfirmed, CallOff, RejectOff,
        PauseConfirmed, CommandFails, TInv, TypeOK
  <2> QED
    BY <2>1, <2>2
<1>5. /\ window' \in BOOLEAN /\ on' \in [Device -> BOOLEAN]
      /\ since' \in [Device -> SUBSET Device]
  <2>1. window \in BOOLEAN /\ on \in [Device -> BOOLEAN]
        /\ since \in [Device -> SUBSET Device]
    BY DEF TInv, TypeOK
  <2>2. CASE OffConfirmed
    BY <1>2, <2>1, <2>2 DEF OffConfirmed
  <2>3. CASE ~OffConfirmed
    BY <1>2, <2>1, <2>3
    DEF SetTemperature, CallOn, RejectOn, OnConfirmed, CallOff, RejectOff,
        PauseConfirmed, CommandFails
  <2> QED
    BY <2>2, <2>3
<1>6. UNCHANGED <<now, disk, blocked, offered, entity, spent, promise>>
  BY DEF SetTemperature, CallOn, RejectOn, OnConfirmed, CallOff, RejectOff,
     OffConfirmed, PauseConfirmed, CommandFails
<1> QED
  BY <1>1, <1>2, <1>3, <1>4, <1>5, <1>6, StepTypes DEF TInv, TypeOK

LEMMA PublishTypes ==
    ASSUME TInv, NEW d \in Subject, NEW s \in Owner, NEW l \in Requests,
           NEW seen \in Lease \cup {None, Anything}, Publish(d, s, l, seen)
    PROVE  TInv'
<1>1. Proper(mem) /\ Proper(disk) /\ d \in Device /\ s \in Source
  BY ConstantsAssumption DEF TInv, TypeOK, Proper, OneTicketEach, Source
<1>2. l \in Lease \cup {None}
  BY ConstantsAssumption
  DEF Publish, MayHappen, Requests, Lease, TInv, TypeOK, Counted
<1>3. Proper(mem')
  BY <1>1, <1>2, LeasedProper, ReconciledProper DEF Publish
<1>4. op' \in Publishing /\ op'.kind = "publish"
  BY <1>2 DEF Publish, Publishing
<1>5. /\ spent' \in [calls : 0..MaxEvents, stops : 0..MaxEvents,
                    restarts : 0..MaxRestarts]
      /\ spent'.calls + spent'.stops + spent'.restarts <= MaxEvents
  <2>1. spent' = [spent EXCEPT !.calls = @ + 1] /\ MayHappen
    BY DEF Publish
  <2> QED
    BY <2>1, ConstantsAssumption DEF MayHappen, TInv, TypeOK, Counted
<1>6. promise' \in [Device -> [Source -> Lease \cup {None, Unknown}]]
  <2>1. promise' = [promise EXCEPT ![d][s] = Unknown]
    BY DEF Publish
  <2> QED
    BY <1>1, <2>1 DEF TInv, TypeOK
<1> QED
  BY <1>1, <1>3, <1>4, <1>5, <1>6, Operations
  DEF Publish, TInv, TypeOK, Counted, Proper, OneTicketEach

LEMMA AnswerTypes ==
    ASSUME TInv, PublishSaved \/ PublishFails
    PROVE  TInv'
<1>1. Proper(mem) /\ Proper(disk) /\ op \in Publishing
  BY OperationKinds
  DEF PublishSaved, PublishFails, TInv, TypeOK, Proper, OneTicketEach
<1>2. promise' \in [Device -> [Source -> Lease \cup {None, Unknown}]]
  <2>1. /\ promise \in [Device -> [Source -> Lease \cup {None, Unknown}]]
        /\ op.dev \in Device /\ op.src \in Source /\ op.lease \in Lease \cup {None}
    BY <1>1, ConstantsAssumption DEF Publishing, Source, TInv, TypeOK
  <2>2. promise' \in {promise, [promise EXCEPT ![op.dev][op.src] = op.lease]}
    BY DEF PublishSaved, PublishFails
  <2> QED
    BY <2>1, <2>2
<1>3. /\ Proper(mem') /\ Proper(disk') /\ op' = Idle
      /\ blocked' \in {"no", "run", "found", "file"}
      /\ UNCHANGED <<now, offered, window, on, entity, spent, since>>
  BY <1>1 DEF PublishSaved, PublishFails, Written, TInv, TypeOK
<1> QED
  BY <1>2, <1>3, Operations, StepTypes DEF TInv, TypeOK

LEMMA WorldTypes ==
    ASSUME TInv,
           \/ Tick \/ UNCHANGED vars
           \/ \E s \in Owner, x \in Data \cup {Unknown} : Offer(s, x)
    PROVE  TInv'
<1>1. CASE Tick
  BY <1>1, ConstantsAssumption
  DEF Tick, TInv, TypeOK, Counted
<1>2. CASE UNCHANGED vars
  BY <1>2 DEF vars, TInv, TypeOK, Counted
<1>3. ASSUME NEW s \in Owner, NEW x \in Data \cup {Unknown}, Offer(s, x)
      PROVE  TInv'
  BY <1>3 DEF Offer, TInv, TypeOK, Counted
<1> QED
  BY <1>1, <1>2, <1>3

LEMMA RestartTypes ==
    ASSUME TInv, NEW t \in 0..MaxTime, NEW e \in [Device -> Entity], Restart(t, e)
    PROVE  TInv'
<1>1. Proper(disk)
  BY DEF TInv, TypeOK, Proper, OneTicketEach
<1>2. Proper(mem') /\ Proper(disk')
  BY <1>1, RestoredProper DEF Restart
<1>3. blocked' \in {"no", "found", "file"}
  BY DEF Restart, Verdict
<1>4. promise' \in [Device -> [Source -> Lease \cup {None, Unknown}]]
  BY DEF Restart, TInv, TypeOK
<1>5. /\ spent' \in [calls : 0..MaxEvents, stops : 0..MaxEvents,
                    restarts : 0..MaxRestarts]
      /\ spent'.calls + spent'.stops + spent'.restarts <= MaxEvents
  BY ConstantsAssumption DEF Restart, MayHappen, TInv, TypeOK, Counted
<1> QED
  BY <1>2, <1>3, <1>4, <1>5, Operations
  DEF Restart, TInv, TypeOK, Counted, Proper, OneTicketEach

LEMMA NextTypes ==
    ASSUME TInv, [Next]_vars
    PROVE  TInv'
<1>1. CASE Evaluate
  BY <1>1, DroppingTypes, BeginRestoreTypes DEF Evaluate
<1>2. CASE Advance
  BY <1>2, AnswerTypes, SavingTypes, CommandTypes DEF Advance
<1>3. ASSUME NEW d \in Device,
             \/ CancelRestore(d) \/ SwitchByHand(d) \/ AcceptManual(d)
             \/ StopBegins(d)
      PROVE  TInv'
  BY <1>3, DroppingTypes, BeginStopTypes
<1>4. CASE Tick \/ BackgroundSave \/ UNCHANGED vars
           \/ \E s \in Owner, x \in Data \cup {Unknown} : Offer(s, x)
  BY <1>4, WorldTypes, SavingTypes
<1>5. CASE \E d \in Subject, s \in Owner, l \in Requests,
              seen \in Lease \cup {None, Anything} : Publish(d, s, l, seen)
  BY <1>5, PublishTypes
<1>6. CASE \E t \in 0..MaxTime, e \in [Device -> Entity] : Restart(t, e)
  BY <1>6, RestartTypes
<1> QED
  BY <1>1, <1>2, <1>3, <1>4, <1>5, <1>6 DEF Next, StopBegins

LEMMA TypesHold == Spec => []TInv
<1>1. Init => TInv
  BY InitTypes
<1>2. TInv /\ [Next]_vars => TInv'
  BY NextTypes
<1> QED
  BY <1>1, <1>2, PTL DEF Spec

(* Every lease, ticket and operation has its type, and a snapshot holds at *)
(* most one ticket for a load (RestoreTransactions.create).                *)
THEOREM TypeCorrect == Spec => []TypeOK
BY TypesHold, PTL DEF TInv

-----------------------------------------------------------------------------
(* What the owners were told: the inductive invariant.                     *)

Leases == Lease \cup {None}

Leased(m) ==
    /\ DOMAIN m = {"lease", "pending", "paused", "flagged"}
    /\ m.lease \in [Device -> [Source -> Leases]]

Typed ==
    /\ now \in 0..MaxTime
    /\ Leased(mem) /\ Leased(disk)
    /\ blocked \in {"no", "run", "found", "file"}
    /\ spent \in [calls : Nat, stops : Nat, restarts : Nat]
    /\ promise \in [Device -> [Source -> Leases \cup {Unknown}]]
    /\ op \in Operation
    /\ op.kind = "publish" =>
         op.dev \in Device /\ op.src \in Owner /\ op.lease \in Leases
    /\ op.kind = "restore" => op.ticket.dev = op.dev

(* In m, source s has l for load d, or l has lapsed and was dropped.       *)
Shown(m, d, s, l) ==
    \/ m.lease[d][s] = l
    \/ l # None /\ Due(l) /\ m.lease[d][s] = None

Stands(m, d, s) ==
    promise[d][s] = Unknown \/ Shown(m, d, s, promise[d][s])

(* The file keeps the promises unless it says that it cannot be trusted,   *)
(* memory unless the file was found to be such; the call under way has     *)
(* promised nothing yet, and an action begins only without any of that.    *)
Promises ==
    /\ blocked # "file" => \A d \in Device, s \in Owner : Stands(disk, d, s)
    /\ blocked \in {"no", "run"} =>
         \A d \in Device, s \in Owner : Stands(mem, d, s)
    /\ op.kind = "publish" =>
         promise[op.dev][op.src] = Unknown /\ Shown(mem, op.dev, op.src, op.lease)
    /\ op.kind \in {"stop", "restore"} => blocked = "no"

Inv == Typed /\ Promises

LEMMA TypesSuffice == TInv => Typed
<1> SUFFICES ASSUME TInv
             PROVE  Typed
  OBVIOUS
<1> USE DEF TInv
<1>1. Leased(mem) /\ Leased(disk)
  BY DEF TypeOK, Snapshot, Leased, Leases
<1>2. spent \in [calls : Nat, stops : Nat, restarts : Nat]
  BY ConstantsAssumption DEF TypeOK
<1>3. op.kind = "publish" =>
          op.dev \in Device /\ op.src \in Owner /\ op.lease \in Leases
  BY OperationKinds, ConstantsAssumption DEF TypeOK, Publishing, Leases
<1> QED
  BY <1>1, <1>2, <1>3 DEF TypeOK, Counted, Typed, Leases

-----------------------------------------------------------------------------
(* What the operators make of the leases.                                  *)

(* The pending order and the flags are no leases.                          *)
LEMMA OtherFields ==
    ASSUME NEW m, Leased(m), NEW q, NEW f
    PROVE  /\ Leased([m EXCEPT !.pending = q])
           /\ [m EXCEPT !.pending = q].lease = m.lease
           /\ Leased([m EXCEPT !.flagged = f])
           /\ [m EXCEPT !.flagged = f].lease = m.lease
BY DEF Leased

LEMMA ReconciledLeases ==
    ASSUME NEW m, Leased(m)
    PROVE  /\ Leased(Reconciled(m))
           /\ \A d \in Device, s \in Source :
                Reconciled(m).lease[d][s] =
                    IF Live(m, d, s) THEN m.lease[d][s] ELSE None
BY DEF Leased, Reconciled, Leases

LEMMA RemovedLeases ==
    ASSUME NEW m, Leased(m), NEW d
    PROVE  Leased(Removed(m, d)) /\ Removed(m, d).lease = m.lease
BY DEF Leased, Removed

LEMMA CreatedLeases ==
    ASSUME NEW m, Leased(m), NEW d
    PROVE  Leased(Created(m, d)) /\ Created(m, d).lease = m.lease
BY DEF Leased, Created

LEMMA PauseSetLeases ==
    ASSUME NEW m, Leased(m), NEW d
    PROVE  Leased(PauseSet(m, d)) /\ PauseSet(m, d).lease = m.lease
BY DEF Leased, PauseSet

LEMMA LatchedLeases ==
    ASSUME NEW m, Leased(m), NEW d
    PROVE  Leased(Latched(m, d)) /\ Latched(m, d).lease = m.lease
BY DEF Leased, Latched

LEMMA ImageLeases ==
    ASSUME Leased(mem)
    PROVE  Leased(Image) /\ Image.lease = mem.lease
BY DEF Leased, Image

LEMMA RestoredLeases ==
    ASSUME Leased(disk), NEW t
    PROVE  /\ Leased(Restored(t))
           /\ LeasesValid(t) => Restored(t).lease = disk.lease
BY DEF Leased, Restored, NoLeases, Leases

(* What the pruning drops has lapsed.                                      *)
LEMMA PrunedIsDue ==
    ASSUME NEW m, Leased(m), NEW d \in Device, NEW s \in Source
    PROVE  \/ Reconciled(m).lease[d][s] = m.lease[d][s]
           \/ /\ m.lease[d][s] # None /\ Due(m.lease[d][s])
              /\ Reconciled(m).lease[d][s] = None
BY ReconciledLeases DEF Live

LEMMA ManualLeases ==
    ASSUME NEW m, Leased(m), NEW d \in Device, now \in 0..MaxTime
    PROVE  /\ Leased(WithManual(m, d))
           /\ \A e \in Device, s \in Source :
                WithManual(m, d).lease[e][s] # m.lease[e][s] =>
                    e = d /\ s = Manual /\ ~Live(m, d, Manual)
<1>1. Manual \in Source
  BY DEF Source
<1>2. CASE ActiveSources(m, d) # {}
  BY <1>2 DEF WithManual
<1>3. CASE ActiveSources(m, d) = {}
  <2> DEFINE l == [revision |-> 0, expires |-> now + TTL, wants |-> Anything]
  <2>1. l \in Leases
    BY ConstantsAssumption DEF Lease, Leases
  <2>2. WithManual(m, d) = [m EXCEPT !.lease[d][Manual] = l]
    BY <1>3 DEF WithManual
  <2>3. ~Live(m, d, Manual)
    BY <1>1, <1>3 DEF ActiveSources
  <2> HIDE DEF l
  <2>4. Leased([m EXCEPT !.lease[d][Manual] = l])
    BY <1>1, <2>1 DEF Leased
  <2>5. \A e \in Device, s \in Source :
            e # d \/ s # Manual =>
                [m EXCEPT !.lease[d][Manual] = l].lease[e][s] = m.lease[e][s]
    BY <1>1 DEF Leased
  <2> QED
    BY <2>2, <2>3, <2>4, <2>5
<1> QED
  BY <1>2, <1>3

-----------------------------------------------------------------------------
(* Steps in which no owner speaks.                                         *)

(* Memory shows the owners' leases as before, or drops lapsed ones.        *)
Follows ==
    \A d \in Device, s \in Owner :
        \/ mem'.lease[d][s] = mem.lease[d][s]
        \/ /\ mem.lease[d][s] # None /\ Due(mem.lease[d][s])
           /\ mem'.lease[d][s] = None

(* What the file holds, and what is known of it.                           *)
Saves ==
    \/ disk' = disk /\ blocked' = blocked
    \/ /\ disk'.lease \in {mem.lease, mem'.lease}
       /\ blocked' = Written

LEMMA SameLeasesFollow ==
    ASSUME mem'.lease = mem.lease
    PROVE  Follows
BY DEF Follows

LEMMA PrunedFollows ==
    ASSUME NEW m, Leased(m), m.lease = mem.lease, mem' = Reconciled(m)
    PROVE  Follows
<1>1. \A d \in Device, s \in Owner : s \in Source
  BY DEF Source
<1> QED
  BY <1>1, PrunedIsDue, ReconciledLeases DEF Follows

(* The operation that such a step leaves under way.                        *)
NoCallBegins ==
    /\ op'.kind = "publish" => op' = op /\ mem' = mem
    /\ op'.kind \in {"stop", "restore"} => blocked' = "no"

LEMMA QuietKeeps ==
    ASSUME Inv, Follows, Saves, NoCallBegins, now' = now, promise' = promise
    PROVE  Promises'
<1>1. ASSUME NEW d \in Device, NEW s \in Owner, NEW l,
             l = mem.lease[d][s] \/ (l # None /\ Due(l) /\ mem.lease[d][s] = None)
      PROVE  Shown(mem, d, s, l)'
  BY <1>1 DEF Follows, Shown, Due
<1>2. ASSUME NEW d \in Device, NEW s \in Owner, Stands(mem, d, s)
      PROVE  Stands(mem, d, s)'
  BY <1>1, <1>2 DEF Stands, Shown
<1>3. ASSUME NEW d \in Device, NEW s \in Owner, Stands(disk, d, s), disk' = disk
      PROVE  Stands(disk, d, s)'
  BY <1>3 DEF Stands, Shown, Due
<1>4. ASSUME NEW d \in Device, NEW s \in Owner, Stands(mem, d, s),
             disk'.lease \in {mem.lease, mem'.lease}
      PROVE  Stands(disk, d, s)'
  <2>1. CASE disk'.lease = mem.lease
    BY <1>4, <2>1 DEF Stands, Shown, Due
  <2>2. CASE disk'.lease = mem'.lease
    BY <1>2, <1>4, <2>2 DEF Stands, Shown
  <2> QED
    BY <1>4, <2>1, <2>2
<1>5. blocked' \in {"no", "run"} => blocked = blocked'
  BY DEF Saves, Written, Inv, Typed
<1>6. blocked' \in {"no", "run"} =>
          \A d \in Device, s \in Owner : Stands(mem, d, s)'
  BY <1>2, <1>5 DEF Inv, Promises
<1>7. blocked' # "file" => \A d \in Device, s \in Owner : Stands(disk, d, s)'
  <2>1. CASE disk' = disk /\ blocked' = blocked
    BY <1>3, <2>1 DEF Inv, Promises
  <2>2. CASE disk'.lease \in {mem.lease, mem'.lease} /\ blocked' = Written
    <3>1. blocked' # "file" => blocked \in {"no", "run"}
      BY <2>2 DEF Written, Inv, Typed
    <3> QED
      BY <1>4, <2>2, <3>1 DEF Inv, Promises
  <2> QED
    BY <2>1, <2>2 DEF Saves
<1>8. op'.kind = "publish" =>
          /\ promise'[op'.dev][op'.src] = Unknown
          /\ Shown(mem, op.dev, op.src, op.lease)'
  BY DEF Inv, Promises, NoCallBegins, Shown, Due
<1> QED
  BY <1>6, <1>7, <1>8 DEF Promises, NoCallBegins

LEMMA IdleKind == Idle.kind = "idle"
BY DEF Idle

-----------------------------------------------------------------------------
(* The evaluation, and the operations besides the owners' calls.           *)

LEMMA EvaluateKeeps ==
    ASSUME Inv, EvaluateBlocked \/ EvaluateWaits
    PROVE  Promises'
<1>1. mem' = Reconciled(mem) /\ op = Idle /\ op' = op
      /\ UNCHANGED <<now, disk, blocked, spent, promise>>
  BY DEF EvaluateBlocked, EvaluateWaits
<1>2. Follows
  BY <1>1, PrunedFollows DEF Inv, Typed
<1>3. NoCallBegins
  BY <1>1, IdleKind DEF NoCallBegins
<1> QED
  BY <1>1, <1>2, <1>3, QuietKeeps DEF Saves, Inv, Typed

LEMMA BeginRestoreKeeps ==
    ASSUME Inv, BeginRestore
    PROVE  Promises'
<1>1. /\ mem' = Reconciled(mem) /\ blocked = "no" /\ op'.kind = "restore"
      /\ UNCHANGED <<now, disk, blocked, promise>>
  BY DEF BeginRestore, RestoreAllowed
<1>2. Follows
  BY <1>1, PrunedFollows DEF Inv, Typed
<1>3. NoCallBegins
  BY <1>1 DEF NoCallBegins
<1> QED
  BY <1>1, <1>2, <1>3, QuietKeeps DEF Saves

LEMMA BeginStopKeeps ==
    ASSUME Inv, NEW d \in Device, StopBegins(d)
    PROVE  Promises'
<1>1. /\ UNCHANGED <<now, disk, blocked, promise>> /\ blocked = "no"
      /\ op'.kind = "stop"
  BY StopBeginsCommand DEF CommandOff
<1>2. Follows
  <2>1. CASE BeginStop(d)
    <3>1. PICK m \in {mem, Reconciled(mem)} : mem' = WithManual(m, d)
      BY <2>1 DEF BeginStop
    <3>2. Leased(mem) /\ Leased(m) /\ now \in 0..MaxTime
      BY <3>1, ReconciledLeases DEF Inv, Typed
    <3>3. \A e \in Device, s \in Owner : mem'.lease[e][s] = m.lease[e][s]
      BY <3>1, <3>2, ManualLeases, OwnersAssumption DEF Source, Manual
    <3> QED
      BY <3>1, <3>2, <3>3, PrunedIsDue DEF Follows, Source
  <2>2. CASE ReshedManual(d)
    BY <2>2, SameLeasesFollow DEF ReshedManual
  <2>3. CASE StopOnLowBattery(d)
    BY <2>3, PrunedFollows DEF StopOnLowBattery, Inv, Typed
  <2> QED
    BY <2>1, <2>2, <2>3 DEF StopBegins
<1>3. NoCallBegins
  BY <1>1 DEF NoCallBegins
<1> QED
  BY <1>1, <1>2, <1>3, QuietKeeps DEF Saves

LEMMA ByHandKeeps ==
    ASSUME Inv, NEW d \in Device, SwitchByHand(d) \/ AcceptManual(d)
    PROVE  Promises'
<1>1. op = Idle /\ op' = op
      /\ UNCHANGED <<now, disk, blocked, spent, promise>>
  BY DEF SwitchByHand, AcceptManual
<1>2. NoCallBegins
  BY <1>1, IdleKind DEF NoCallBegins
<1>3. Follows
  <2>1. CASE SwitchByHand(d)
    BY <2>1, SameLeasesFollow DEF SwitchByHand, Inv, Typed
  <2>2. CASE AcceptManual(d)
    <3>1. mem' = Reconciled(Removed(mem, d))
      BY <2>2 DEF AcceptManual
    <3> QED
      BY <3>1, RemovedLeases, PrunedFollows DEF Inv, Typed
  <2> QED
    BY <2>1, <2>2
<1> QED
  BY <1>1, <1>2, <1>3, QuietKeeps DEF Saves, Inv, Typed

LEMMA CancelKeeps ==
    ASSUME Inv, NEW d \in Device, CancelRestore(d)
    PROVE  Promises'
<1>1. mem' = Removed(mem, d) /\ op = Idle /\ op' = op
      /\ UNCHANGED <<now, spent, promise>>
      /\ \/ UNCHANGED <<disk, blocked>>
         \/ disk' = mem' /\ blocked' = Written
  BY DEF CancelRestore
<1>2. mem'.lease = mem.lease
  BY <1>1, RemovedLeases DEF Inv, Typed
<1>3. NoCallBegins
  BY <1>1, IdleKind DEF NoCallBegins
<1> QED
  BY <1>1, <1>2, <1>3, SameLeasesFollow, QuietKeeps DEF Saves, Inv, Typed

LEMMA BackgroundSaveKeeps ==
    ASSUME Inv, BackgroundSave
    PROVE  Promises'
<1>1. disk' = Image /\ blocked' = Written
      /\ UNCHANGED <<now, mem, op, spent, promise>>
  BY DEF BackgroundSave
<1>2. disk'.lease = mem.lease
  BY <1>1, ImageLeases DEF Inv, Typed
<1>3. NoCallBegins
  BY <1>1 DEF NoCallBegins, Inv, Typed, Promises, Written
<1> QED
  BY <1>1, <1>2, <1>3, SameLeasesFollow, QuietKeeps DEF Saves, Inv, Typed

LEMMA OfferKeeps ==
    ASSUME Inv, UNCHANGED vars \/ \E s \in Owner, x \in Data \cup {Unknown} : Offer(s, x)
    PROVE  Promises'
<1>1. UNCHANGED <<now, mem, disk, blocked, op, spent, promise>>
  BY DEF Offer, vars
<1>2. NoCallBegins
  BY <1>1 DEF NoCallBegins, Inv, Typed, Promises
<1> QED
  BY <1>1, <1>2, SameLeasesFollow, QuietKeeps DEF Saves, Inv, Typed

-----------------------------------------------------------------------------
(* The action under way.                                                   *)

(* It reads the store but leaves the owners' leases alone.                 *)
LEMMA ActionKeeps ==
    ASSUME Inv, Acting, mem'.lease = mem.lease,
           disk' = disk \/ disk'.lease = mem.lease,
           op' = Idle \/ op'.kind = op.kind,
           UNCHANGED <<now, blocked, promise>>
    PROVE  Promises'
<1>1. blocked = "no" /\ op.kind \in {"stop", "restore"}
  BY DEF Inv, Promises, Acting
<1>2. NoCallBegins
  BY <1>1, IdleKind DEF NoCallBegins
<1>3. Saves
  BY <1>1 DEF Saves, Written
<1> QED
  BY <1>2, <1>3, SameLeasesFollow, QuietKeeps

(* Its phases follow on each other.                                        *)
LEMMA EnterKind ==
    ASSUME Inv, Acting, NEW phase, Enter(phase)
    PROVE  op'.kind = op.kind
<1>1. op \in Stopping \cup Restoring
  BY OperationKinds DEF Inv, Typed, Acting
<1> QED
  BY <1>1 DEF Stopping, Restoring, Enter

LEMMA SavingKeeps ==
    ASSUME Inv, SaveDispatched \/ SaveFails \/ SaveTerminal
    PROVE  Promises'
<1>1. Leased(mem)
  BY DEF Inv, Typed
<1>2. CASE SaveDispatched
  BY <1>1, <1>2, ImageLeases, EnterKind, ActionKeeps DEF SaveDispatched
<1>3. CASE SaveTerminal
  BY <1>1, <1>3, ActionKeeps DEF SaveTerminal
<1>4. CASE SaveFails
  <2>1. mem' = Latched(Removed(mem, op.dev), op.dev)
    BY <1>4 DEF SaveFails
  <2>2. mem'.lease = mem.lease
    BY <1>1, <2>1, RemovedLeases, LatchedLeases
  <2> QED
    BY <1>4, <2>2, ActionKeeps DEF SaveFails
<1> QED
  BY <1>2, <1>3, <1>4

LEMMA CommandsKeep ==
    ASSUME Inv,
           \/ SetTemperature \/ CallOn \/ RejectOn \/ OnConfirmed
           \/ CallOff \/ RejectOff \/ OffConfirmed \/ PauseConfirmed \/ CommandFails
    PROVE  Promises'
<1>1. Leased(mem)
  BY DEF Inv, Typed
<1>2. Acting /\ (\E phase : Enter(phase)) /\ UNCHANGED <<now, disk, blocked, promise>>
  BY DEF SetTemperature, CallOn, RejectOn, OnConfirmed, CallOff, RejectOff,
     OffConfirmed, PauseConfirmed, CommandFails, InAction, Acting
<1>3. op'.kind = op.kind
  BY <1>2, EnterKind
<1>4. mem'.lease = mem.lease
  BY <1>1, RemovedLeases, PauseSetLeases, CreatedLeases, LatchedLeases
  DEF SetTemperature, CallOn, RejectOn, OnConfirmed, CallOff, RejectOff,
      OffConfirmed, PauseConfirmed, CommandFails
<1> QED
  BY <1>2, <1>3, <1>4, ActionKeeps

-----------------------------------------------------------------------------
(* The owners' calls, the clock and the restart.                           *)

LEMMA TickKeeps ==
    ASSUME Inv, Tick
    PROVE  Promises'
<1>1. /\ now' = now + 1 /\ now < MaxTime
      /\ UNCHANGED <<mem, disk, blocked, op, spent, promise>>
  BY DEF Tick
<1>3. ASSUME NEW l \in Leases, l # None, Due(l)
      PROVE  Due(l)'
  BY <1>1, <1>3, ConstantsAssumption DEF Leases, Lease, Due, Inv, Typed
<1>4. ASSUME NEW d \in Device, NEW s \in Owner, NEW l \in Leases
      PROVE  /\ Shown(mem, d, s, l) => Shown(mem, d, s, l)'
             /\ Shown(disk, d, s, l) => Shown(disk, d, s, l)'
  BY <1>1, <1>3 DEF Shown
<1>5. \A d \in Device, s \in Owner :
          promise[d][s] # Unknown => promise[d][s] \in Leases
  BY DEF Inv, Typed, Source
<1>6. ASSUME NEW d \in Device, NEW s \in Owner
      PROVE  /\ Stands(mem, d, s) => Stands(mem, d, s)'
             /\ Stands(disk, d, s) => Stands(disk, d, s)'
  BY <1>1, <1>4, <1>5 DEF Stands
<1> QED
  BY <1>1, <1>4, <1>6 DEF Inv, Typed, Promises

LEMMA PublishKeeps ==
    ASSUME Inv, NEW d \in Device, NEW s \in Owner, NEW l \in Requests, NEW seen,
           Publish(d, s, l, seen)
    PROVE  Promises'
<1> DEFINE m == [mem EXCEPT !.lease[d][s] = l]
<1>1. /\ mem' = Reconciled(m)
      /\ op' = [kind |-> "publish", dev |-> d, src |-> s, lease |-> l, seen |-> seen]
      /\ promise' = [promise EXCEPT ![d][s] = Unknown]
      /\ UNCHANGED <<now, disk, blocked>>
      /\ MayHappen
  BY DEF Publish
<1>2. s \in Source
  BY DEF Source
<1>3. l \in Leases
  BY <1>1, ConstantsAssumption
  DEF Requests, Leases, Lease, MayHappen, Inv, Typed
<1>4. Leased(mem)
  BY DEF Inv, Typed
<1>5. Leased(m) /\ m.lease[d][s] = l
  BY <1>2, <1>3, <1>4 DEF Leased
<1>6. \A e \in Device, r \in Owner :
          e # d \/ r # s => m.lease[e][r] = mem.lease[e][r]
  BY <1>2, <1>4 DEF Leased, Source
<1> HIDE DEF m
<1>9. /\ promise'[d][s] = Unknown
      /\ \A e \in Device, r \in Owner :
            e # d \/ r # s => promise'[e][r] = promise[e][r]
  BY <1>1, <1>2 DEF Inv, Typed, Source
<1>10. Shown(mem, d, s, l)'
  BY <1>1, <1>2, <1>5, PrunedIsDue DEF Shown, Due
<1>11. ASSUME NEW e \in Device, NEW r \in Owner
       PROVE  /\ Stands(mem, e, r) => Stands(mem, e, r)'
              /\ Stands(disk, e, r) => Stands(disk, e, r)'
  <2>1. CASE e = d /\ r = s
    BY <1>9, <2>1 DEF Stands
  <2>2. CASE e # d \/ r # s
    <3>1. r \in Source /\ promise'[e][r] = promise[e][r]
      BY <1>9, <2>2 DEF Source
    <3>2. Stands(mem, e, r) => Stands(mem, e, r)'
      BY <1>1, <1>5, <1>6, <2>2, <3>1, PrunedIsDue DEF Stands, Shown, Due
    <3>3. Stands(disk, e, r) => Stands(disk, e, r)'
      BY <1>1, <3>1 DEF Stands, Shown, Due
    <3> QED
      BY <3>2, <3>3
  <2> QED
    BY <2>1, <2>2
<1> QED
  BY <1>1, <1>9, <1>10, <1>11 DEF Inv, Promises

LEMMA PublishSavedKeeps ==
    ASSUME Inv, PublishSaved
    PROVE  Promises'
<1> DEFINE d == op.dev
           s == op.src
<1>1. /\ op.kind = "publish" /\ disk' = mem /\ blocked' = Written
      /\ promise' = [promise EXCEPT ![d][s] = op.lease]
      /\ op' = Idle
      /\ UNCHANGED <<now, mem, spent>>
  BY DEF PublishSaved
<1>2. d \in Device /\ s \in Owner /\ s \in Source /\ op.lease \in Leases
  BY <1>1 DEF Inv, Typed, Source
<1>4. /\ promise'[d][s] = op.lease
      /\ \A e \in Device, r \in Owner :
            e # d \/ r # s => promise'[e][r] = promise[e][r]
  BY <1>1, <1>2 DEF Inv, Typed, Source
<1>5. Shown(mem, d, s, op.lease)
  BY <1>1 DEF Inv, Promises
<1>6. ASSUME NEW e \in Device, NEW r \in Owner, Stands(mem, e, r)
      PROVE  Stands(mem, e, r)' /\ Stands(disk, e, r)'
  <2>1. CASE e = d /\ r = s
    BY <1>1, <1>4, <1>5, <2>1 DEF Stands, Shown, Due
  <2>2. CASE e # d \/ r # s
    BY <1>1, <1>4, <1>6, <2>2 DEF Stands, Shown, Due
  <2> QED
    BY <2>1, <2>2
<1>7. blocked' # "file" => blocked \in {"no", "run"}
  BY <1>1 DEF Written, Inv, Typed
<1> QED
  BY <1>1, <1>6, <1>7, IdleKind DEF Inv, Typed, Promises

LEMMA PublishFailsKeeps ==
    ASSUME Inv, PublishFails
    PROVE  Promises'
<1>1. /\ op' = Idle /\ blocked' = IF blocked = "no" THEN "run" ELSE blocked
      /\ UNCHANGED <<now, mem, disk, spent, promise>>
  BY DEF PublishFails
<1>3. \A d \in Device, s \in Owner :
          /\ Stands(mem, d, s) => Stands(mem, d, s)'
          /\ Stands(disk, d, s) => Stands(disk, d, s)'
  BY <1>1 DEF Stands, Shown, Due
<1> QED
  BY <1>1, <1>3, IdleKind DEF Inv, Typed, Promises

(* Promises that had lapsed are void, and the others are in the file as    *)
(* they were given; if the clock makes the list invalid, that is noted.    *)
LEMMA RestartKeeps ==
    ASSUME Inv, NEW t \in 0..MaxTime, NEW e, Restart(t, e)
    PROVE  Promises'
<1>1. /\ now' = t /\ mem' = Restored(t) /\ op' = Idle
      /\ promise' = [d \in Device |-> [s \in Source |->
                        IF /\ promise[d][s] \notin {None, Unknown}
                           /\ Due(promise[d][s])
                        THEN Unknown ELSE promise[d][s]]]
      /\ \/ disk' = mem' /\ blocked' = Verdict(t, "file")
         \/ disk' = disk /\ blocked' = Verdict(t, "found")
  BY DEF Restart
<1>3. blocked' \in {"no", "found", "file"}
  BY <1>1 DEF Verdict
<1>6. ASSUME NEW d \in Device, NEW s \in Owner, blocked # "file"
      PROVE  promise'[d][s] = Unknown \/ disk.lease[d][s] = promise'[d][s]
  BY <1>1, <1>6 DEF Inv, Promises, Stands, Shown, Source
<1>7. blocked' # "file" => blocked # "file"
  BY <1>1 DEF Verdict
<1>8. /\ blocked' = "no" => mem'.lease = disk.lease
      /\ blocked' # "file" => disk'.lease = disk.lease
  <2>1. blocked' = "no" => LeasesValid(t)
    BY <1>1, <1>7 DEF Verdict
  <2>2. disk' = mem' /\ blocked' = Verdict(t, "file") /\ blocked' # "file" =>
            LeasesValid(t)
    BY <1>7 DEF Verdict
  <2> QED
    BY <1>1, <2>1, <2>2, RestoredLeases DEF Inv, Typed
<1>9. ASSUME NEW d \in Device, NEW s \in Owner, NEW m,
             m.lease = disk.lease, blocked' # "file"
      PROVE  promise'[d][s] = Unknown \/ m.lease[d][s] = promise'[d][s]
  BY <1>6, <1>7, <1>9
<1>10. ASSUME NEW d \in Device, NEW s \in Owner
       PROVE  /\ blocked' # "file" => Stands(disk, d, s)'
              /\ blocked' \in {"no", "run"} => Stands(mem, d, s)'
  <2>1. ASSUME blocked' # "file"
        PROVE  promise'[d][s] = Unknown \/ disk'.lease[d][s] = promise'[d][s]
    BY <1>8, <1>9, <2>1
  <2>2. ASSUME blocked' = "no"
        PROVE  promise'[d][s] = Unknown \/ mem'.lease[d][s] = promise'[d][s]
    BY <1>8, <1>9, <2>2
  <2> QED
    BY <1>3, <2>1, <2>2 DEF Stands, Shown
<1>11. op'.kind \notin {"publish", "stop", "restore"}
  BY <1>1, IdleKind
<1> QED
  BY <1>10, <1>11 DEF Promises

-----------------------------------------------------------------------------
LEMMA InitHolds ==
    ASSUME Init
    PROVE  Promises
<1>1. disk = mem /\ mem.lease = NoLeases
  BY DEF Init
<1>2. \A d \in Device, s \in Owner : promise[d][s] = None /\ mem.lease[d][s] = None
  BY <1>1 DEF Init, NoLeases, Source
<1> QED
  BY <1>1, <1>2, IdleKind DEF Init, Promises, Stands, Shown

LEMMA NextHolds ==
    ASSUME Inv, [Next]_vars
    PROVE  Promises'
<1>1. CASE Evaluate
  BY <1>1, EvaluateKeeps, BeginRestoreKeeps DEF Evaluate
<1>2. CASE Advance
  BY <1>2, PublishSavedKeeps, PublishFailsKeeps, SavingKeeps, CommandsKeep
  DEF Advance
<1>3. ASSUME NEW d \in Subject, NEW s \in Owner, NEW l \in Requests,
             NEW seen \in Lease \cup {None, Anything}, Publish(d, s, l, seen)
      PROVE  Promises'
  BY <1>3, PublishKeeps, ConstantsAssumption
<1>4. ASSUME NEW d \in Device,
             CancelRestore(d) \/ StopBegins(d) \/ SwitchByHand(d) \/ AcceptManual(d)
      PROVE  Promises'
  BY <1>4, CancelKeeps, BeginStopKeeps, ByHandKeeps
<1>5. ASSUME NEW t \in 0..MaxTime, NEW e \in [Device -> Entity], Restart(t, e)
      PROVE  Promises'
  BY <1>5, RestartKeeps
<1> QED
  BY <1>1, <1>2, <1>3, <1>4, <1>5, TickKeeps, BackgroundSaveKeeps, OfferKeeps
  DEF Next, StopBegins

(* What the file and memory hold agrees with what the owners were told,    *)
(* through failed saves, restarts and clocks set back.                     *)
THEOREM Invariance == Spec => []Inv
<1>1. Init => Promises
  BY InitHolds
<1>2. Typed /\ Promises /\ [Next]_vars => Promises'
  BY NextHolds DEF Inv
<1> QED
  BY <1>1, <1>2, TypesHold, TypesSuffice, PTL DEF Spec, Inv

(* What an owner was told stands is what a restart finds                   *)
(* (async_set_restore_intent, _save_runtime_snapshot, async_recover).      *)
THEOREM PromisesAreKept == Spec => []PromiseIsKept
<1>1. Inv => PromiseIsKept
  BY DEF Inv, Promises, Stands, Shown, PromiseIsKept
<1> QED
  BY <1>1, Invariance, PTL

-----------------------------------------------------------------------------
(* How an intent goes.                                                     *)

(* The steps that leave every lease in memory as it was.                   *)
LEMMA LeasesStay ==
    ASSUME Inv,
           \/ Tick \/ BackgroundSave \/ PublishSaved \/ PublishFails
           \/ SaveDispatched \/ SaveFails \/ SaveTerminal
           \/ SetTemperature \/ CallOn \/ RejectOn \/ OnConfirmed
           \/ CallOff \/ RejectOff \/ OffConfirmed \/ PauseConfirmed \/ CommandFails
           \/ \E s \in Owner, x \in Data \cup {Unknown} : Offer(s, x)
           \/ \E d \in Device :
                 CancelRestore(d) \/ SwitchByHand(d) \/ ReshedManual(d)
           \/ UNCHANGED vars
    PROVE  mem'.lease = mem.lease
<1>1. Leased(mem)
  BY DEF Inv, Typed
<1>2. CASE SaveFails
  BY <1>1, <1>2, RemovedLeases, LatchedLeases DEF SaveFails
<1>3. CASE OnConfirmed \/ OffConfirmed \/ PauseConfirmed \/ CommandFails
  BY <1>1, <1>3, RemovedLeases, PauseSetLeases, CreatedLeases, LatchedLeases
  DEF OnConfirmed, OffConfirmed, PauseConfirmed, CommandFails
<1>4. CASE \E d \in Device :
              CancelRestore(d) \/ SwitchByHand(d) \/ ReshedManual(d)
  BY <1>1, <1>4, RemovedLeases DEF CancelRestore, SwitchByHand, ReshedManual
<1>5. CASE \/ Tick \/ BackgroundSave \/ PublishSaved \/ PublishFails
           \/ SaveDispatched \/ SaveTerminal
           \/ SetTemperature \/ CallOn \/ RejectOn \/ CallOff \/ RejectOff
           \/ \E s \in Owner, x \in Data \cup {Unknown} : Offer(s, x)
           \/ UNCHANGED vars
  BY <1>5 DEF Tick, BackgroundSave, PublishSaved, PublishFails, SaveDispatched,
     SaveTerminal, SetTemperature, CallOn, RejectOn, CallOff, RejectOff, Offer,
     vars
<1> QED
  BY <1>2, <1>3, <1>4, <1>5

(* In every other step but a restart, what goes has lapsed, or the caller  *)
(* had read it.                                                            *)
LEMMA ReplacedKnowingly ==
    ASSUME Inv, [Next]_vars, NEW d \in Device, NEW s \in Source,
           mem.lease[d][s] # None, mem'.lease[d][s] # mem.lease[d][s]
    PROVE  \/ Due(mem.lease[d][s])
           \/ spent'.restarts # spent.restarts
           \/ /\ op'.kind = "publish" /\ op'.dev = d /\ op'.src = s
              /\ op'.seen \in {mem.lease[d][s], Anything}
<1>1. Leased(mem) /\ now \in 0..MaxTime
  BY DEF Inv, Typed
<1>2. CASE EvaluateBlocked \/ EvaluateWaits \/ BeginRestore
           \/ \E e \in Device : StopOnLowBattery(e)
  <2>1. mem' = Reconciled(mem)
    BY <1>2 DEF EvaluateBlocked, EvaluateWaits, BeginRestore, StopOnLowBattery
  <2> QED
    BY <1>1, <2>1, PrunedIsDue
<1>3. ASSUME NEW e \in Device, BeginStop(e)
      PROVE  Due(mem.lease[d][s])
  <2>1. PICK m \in {mem, Reconciled(mem)} : mem' = WithManual(m, e)
    BY <1>3 DEF BeginStop
  <2>2. Leased(m)
    BY <1>1, ReconciledLeases
  <2>3. CASE m.lease[d][s] # mem.lease[d][s]
    BY <1>1, <2>1, <2>3, PrunedIsDue
  <2>4. CASE m.lease[d][s] = mem.lease[d][s]
    <3>1. d = e /\ s = Manual /\ ~Live(m, e, Manual)
      BY <1>1, <2>1, <2>2, <2>4, ManualLeases
    <3> QED
      BY <2>4, <3>1 DEF Live
  <2> QED
    BY <2>3, <2>4
<1>4. ASSUME NEW e \in Device, AcceptManual(e)
      PROVE  Due(mem.lease[d][s])
  <2>1. mem' = Reconciled(Removed(mem, e))
    BY <1>4 DEF AcceptManual
  <2> QED
    BY <1>1, <2>1, RemovedLeases, PrunedIsDue
<1>5. ASSUME NEW e \in Subject, NEW r \in Owner, NEW l \in Requests,
             NEW seen \in Lease \cup {None, Anything}, Publish(e, r, l, seen)
      PROVE  \/ Due(mem.lease[d][s])
             \/ /\ op'.kind = "publish" /\ op'.dev = d /\ op'.src = s
                /\ op'.seen \in {mem.lease[d][s], Anything}
  <2> DEFINE m == [mem EXCEPT !.lease[e][r] = l]
  <2>1. /\ mem' = Reconciled(m)
        /\ Matches(seen, mem.lease[e][r])
        /\ op' = [kind |-> "publish", dev |-> e, src |-> r, lease |-> l,
                  seen |-> seen]
        /\ MayHappen
    BY <1>5 DEF Publish
  <2>2. e \in Device /\ r \in Source
    BY ConstantsAssumption DEF Source
  <2>3. CASE d = e /\ s = r
    BY <2>1, <2>3 DEF Matches
  <2>4. CASE d # e \/ s # r
    <3>1. l \in Leases
      BY <2>1, ConstantsAssumption
      DEF Requests, Leases, Lease, MayHappen, Inv, Typed
    <3>2. Leased(m) /\ m.lease[d][s] = mem.lease[d][s]
      BY <1>1, <2>2, <2>4, <3>1 DEF Leased
    <3> HIDE DEF m
    <3> QED
      BY <2>1, <3>2, PrunedIsDue
  <2> QED
    BY <2>3, <2>4
<1>6. ASSUME NEW t \in 0..MaxTime, NEW e \in [Device -> Entity], Restart(t, e)
      PROVE  spent'.restarts # spent.restarts
  BY <1>6 DEF Restart, Inv, Typed
<1> QED
  BY <1>2, <1>3, <1>4, <1>5, <1>6, LeasesStay DEF Next, Evaluate, Advance

(* An answer computed from an older publication never overwrites a newer   *)
(* one (matches_snapshot, RestoreIntentRegistry.publish).                  *)
THEOREM NoUpdateIsLost == Spec => NoLostUpdate
<1>1. Inv /\ [Next]_vars =>
          \A d \in Device, s \in Source :
              LET l == mem.lease[d][s]
              IN  l # None /\ mem'.lease[d][s] # l =>
                    \/ Due(l)
                    \/ spent'.restarts # spent.restarts
                    \/ /\ op'.kind = "publish" /\ op'.dev = d /\ op'.src = s
                       /\ op'.seen \in {l, Anything}
  BY ReplacedKnowingly
<1> QED
  BY <1>1, Invariance, PTL DEF Spec, NoLostUpdate

-----------------------------------------------------------------------------
(* Whose wish an ON is.                                                    *)

WantedNow(d) ==
    \E s \in Source :
        LET p == promise[d][s]
        IN  \/ /\ s = Manual \/ p = Unknown
               /\ Live(mem, d, s)
               /\ BindingPermits(s, mem.lease[d][s])
            \/ p \notin {None, Unknown} /\ ~Due(p) /\ BindingPermits(s, p)

LEMMA OnWanted ==
    ASSUME Inv, [Next]_vars, op.kind = "restore", op'.kind = "restore",
           op'.phase = "calling", op.phase # "calling"
    PROVE  WantedNow(op.dev)
<1>1. CallOn
  <2>1. op \in Restoring /\ op # Idle
    BY OperationKinds, IdleKind DEF Inv, Typed
  <2>2. op' # op
    OBVIOUS
  <2>3. ASSUME NEW phase, Enter(phase)
        PROVE  op'.phase = phase
    BY <2>1, <2>3 DEF Enter, Restoring
  <2>4. Advance
    BY <2>1, <2>2, IdleKind
    DEF Next, vars, Evaluate, EvaluateBlocked, EvaluateWaits, BeginRestore, Tick,
        BackgroundSave, Offer, Publish, CancelRestore, BeginStop, ReshedManual,
        StopOnLowBattery, CommandOff, SwitchByHand, AcceptManual, Restart
  <2>5. ~SaveDispatched /\ ~SetTemperature /\ ~RejectOn /\ ~OnConfirmed
    BY <2>3 DEF SaveDispatched, SetTemperature, RejectOn, OnConfirmed
  <2>6. ~CallOff /\ ~RejectOff /\ ~OffConfirmed /\ ~PauseConfirmed /\ ~CommandFails
    BY <2>3
    DEF CallOff, RejectOff, OffConfirmed, PauseConfirmed, CommandFails, InAction
  <2>7. ~PublishSaved /\ ~PublishFails /\ ~SaveFails /\ ~SaveTerminal
    BY IdleKind DEF PublishSaved, PublishFails, SaveFails, SaveTerminal
  <2> QED
    BY <2>4, <2>5, <2>6, <2>7 DEF Advance
<1>2. op.dev \in Device /\ op.ticket.dev = op.dev
  BY OperationKinds DEF Inv, Typed, Restoring
<1>3. blocked = "no" /\ Permits(mem, op.dev)
  BY <1>1, <1>2 DEF CallOn, DispatchPermitted, RestoreAllowed, Candidate
<1>4. PICK s \in Source : Live(mem, op.dev, s)
                          /\ BindingPermits(s, mem.lease[op.dev][s])
  BY <1>3 DEF Permits
<1>5. CASE s = Manual
  BY <1>4, <1>5 DEF WantedNow
<1>6. CASE s \in Owner
  <2>1. Stands(mem, op.dev, s)
    BY <1>2, <1>3, <1>6 DEF Inv, Promises
  <2>2. promise[op.dev][s] = Unknown \/ promise[op.dev][s] = mem.lease[op.dev][s]
    BY <1>4, <2>1 DEF Stands, Shown, Live
  <2> QED
    BY <1>4, <2>2 DEF WantedNow, Live
<1> QED
  BY <1>4, <1>5, <1>6 DEF Source

(* An ON is issued only while an owner who was told so, or the controller  *)
(* itself, still wants it (_restore_dispatch_permitted, permits).          *)
THEOREM OnsAreWanted == Spec => OnIsWanted
<1>1. Inv /\ [Next]_vars =>
          (op.kind = "restore" /\ op'.kind = "restore"
             /\ op'.phase = "calling" /\ op.phase # "calling" =>
             \E s \in Source :
                LET p == promise[op.dev][s]
                IN  \/ /\ s = Manual \/ p = Unknown
                       /\ Live(mem, op.dev, s)
                       /\ BindingPermits(s, mem.lease[op.dev][s])
                    \/ p \notin {None, Unknown} /\ ~Due(p) /\ BindingPermits(s, p))
  BY OnWanted DEF WantedNow
<1> QED
  BY <1>1, Invariance, PTL DEF Spec, OnIsWanted

-----------------------------------------------------------------------------
(* The queue of waiting loads.                                             *)

(* Of two tickets that may be answered, the one whose stop came after the  *)
(* other's load had stopped for the last time is further down the list.    *)
Ordered(m) ==
    \A t, u \in m.pending :
        t.dev \notin m.flagged /\ u.dev \notin m.flagged
          /\ u.dev \in since[t.dev] => t.place < u.place

(* A stop under way has a place behind every ticket in memory.  The file   *)
(* may still hold the load's older ticket; from the first save of an       *)
(* action on, that ticket is of no use to a restart.                       *)
QInv ==
    /\ Ordered(mem) /\ Ordered(disk)
    /\ \A t \in mem.pending \cup disk.pending : t.place <= spent.stops
    /\ op.kind = "stop" /\ op.phase # "terminal" =>
         \A t \in mem.pending : t.place < spent.stops
    /\ Acting /\ op.phase # "saving" => op.dev \in disk.flagged

(* Tickets only go, flags only come.                                       *)
Shrinks(m, n) == n.pending \subseteq m.pending /\ m.flagged \subseteq n.flagged

LEMMA TypedSnapshots ==
    ASSUME TInv
    PROVE  /\ Proper(mem) /\ Proper(disk) /\ op \in Operation
           /\ Idle.kind = "idle"
           /\ Acting => op.dev \in Device
           /\ op.kind = "restore" =>
                op.ticket.dev = op.dev /\ op.ticket \in Ticket
           /\ spent.stops \in Nat
<1>1. Acting => op.dev \in Device
  BY OperationKinds DEF TInv, TypeOK, Acting, Stopping, Restoring
<1>2. op.kind = "restore" => op.ticket.dev = op.dev /\ op.ticket \in Ticket
  BY OperationKinds DEF TInv, TypeOK, Counted, Restoring
<1> QED
  BY <1>1, <1>2, Operations, ConstantsAssumption
  DEF TInv, TypeOK, Proper, OneTicketEach

(* An action that goes on or ends, with its load.                          *)
LEMMA ActionGoesOn ==
    ASSUME TInv,
           \/ SetTemperature \/ CallOn \/ RejectOn \/ OnConfirmed
           \/ CallOff \/ RejectOff \/ OffConfirmed \/ PauseConfirmed \/ CommandFails
    PROVE  /\ Acting /\ op.phase # "saving" /\ op.phase # "terminal"
           /\ op'.kind = op.kind /\ op'.dev = op.dev
           /\ op'.phase = "calling" <=> CallOn \/ CallOff
           /\ op'.phase \in {"tempering", "calling", "terminal"}
           /\ disk' = disk /\ spent' = spent
<1>1. /\ Acting /\ op.phase # "saving" /\ op.phase # "terminal"
      /\ disk' = disk /\ spent' = spent
  BY DEF SetTemperature, CallOn, RejectOn, OnConfirmed, CallOff, RejectOff,
     OffConfirmed, PauseConfirmed, CommandFails, InAction, Acting
<1>2. ASSUME NEW phase \in {"calling", "terminal", "tempering"}, Enter(phase),
             phase = "tempering" => op.kind = "restore"
      PROVE  op'.kind = op.kind /\ op'.dev = op.dev /\ op'.phase = phase
  BY <1>1, <1>2, EnterTyped, TypedSnapshots DEF Acting
<1>3. CASE CallOn \/ CallOff
  BY <1>1, <1>2, <1>3 DEF CallOn, CallOff
<1>4. CASE SetTemperature
  BY <1>1, <1>2, <1>4 DEF SetTemperature, InAction, CallOn, CallOff
<1>5. CASE RejectOn \/ OnConfirmed \/ RejectOff \/ OffConfirmed
           \/ PauseConfirmed \/ CommandFails
  <2>1. Enter("terminal")
    BY <1>5
    DEF RejectOn, OnConfirmed, RejectOff, OffConfirmed, PauseConfirmed,
        CommandFails
  <2>2. op'.kind = op.kind /\ op'.dev = op.dev /\ op'.phase = "terminal"
    BY <1>2, <2>1
  <2>3. ~CallOn /\ ~CallOff
    BY <1>2, <2>2 DEF CallOn, CallOff
  <2> QED
    BY <1>1, <2>2, <2>3
<1> QED
  BY <1>3, <1>4, <1>5

(* What becomes of the operation under way.                                *)
LEMMA OperationSteps ==
    ASSUME [Next]_vars
    PROVE  \/ op' \in {op, Idle} \/ op'.kind = "publish"
           \/ BeginRestore \/ \E d \in Device : StopBegins(d)
           \/ SaveDispatched
           \/ SetTemperature \/ CallOn \/ RejectOn \/ OnConfirmed
           \/ CallOff \/ RejectOff \/ OffConfirmed \/ PauseConfirmed \/ CommandFails
<1>1. CASE EvaluateBlocked \/ EvaluateWaits \/ Tick \/ BackgroundSave
           \/ UNCHANGED vars
  BY <1>1 DEF EvaluateBlocked, EvaluateWaits, Tick, BackgroundSave, vars
<1>2. CASE PublishSaved \/ PublishFails \/ SaveFails \/ SaveTerminal
  BY <1>2 DEF PublishSaved, PublishFails, SaveFails, SaveTerminal
<1>3. CASE \E d \in Device : CancelRestore(d) \/ SwitchByHand(d) \/ AcceptManual(d)
  BY <1>3 DEF CancelRestore, SwitchByHand, AcceptManual
<1>4. CASE \E s \in Owner, x \in Data \cup {Unknown} : Offer(s, x)
  BY <1>4 DEF Offer
<1>5. CASE \E t \in 0..MaxTime, e \in [Device -> Entity] : Restart(t, e)
  BY <1>5 DEF Restart
<1>6. CASE \E d \in Subject, s \in Owner, l \in Requests,
              seen \in Lease \cup {None, Anything} : Publish(d, s, l, seen)
  BY <1>6 DEF Publish
<1> QED
  BY <1>1, <1>2, <1>3, <1>4, <1>5, <1>6 DEF Next, Evaluate, Advance, StopBegins

Restarts == \E t \in 0..MaxTime, e \in [Device -> Entity] : Restart(t, e)

(* Only a confirmed stop adds a ticket; a restart takes up the file's.     *)
LEMMA TicketsGo ==
    ASSUME TInv, [Next]_vars, ~OffConfirmed
    PROVE  /\ Restarts => Shrinks(disk, mem') /\ Shrinks(disk, disk')
           /\ ~Restarts => /\ Shrinks(mem, mem')
                           /\ Shrinks(mem, disk') \/ Shrinks(disk, disk')
           /\ since' = since
           /\ spent'.stops \in Nat /\ spent.stops <= spent'.stops
<1> DEFINE Goes == /\ Shrinks(mem, mem')
                   /\ Shrinks(mem, disk') \/ Shrinks(disk, disk')
                   /\ since' = since
                   /\ spent'.stops \in Nat /\ spent.stops <= spent'.stops
<1>1. Proper(mem) /\ Proper(disk) /\ op \in Operation /\ spent.stops \in Nat
      /\ (Acting => op.dev \in Device)
  BY TypedSnapshots
<1>2. ASSUME EvaluateBlocked \/ EvaluateWaits \/ BeginRestore
      PROVE  Goes
  <2>1. mem' = Reconciled(mem) /\ UNCHANGED <<disk, since, spent>>
    BY <1>2 DEF EvaluateBlocked, EvaluateWaits, BeginRestore
  <2> QED
    BY <1>1, <2>1, ReconciledProper DEF Shrinks
<1>3. ASSUME PublishSaved \/ PublishFails \/ Tick \/ UNCHANGED vars
             \/ \E s \in Owner, x \in Data \cup {Unknown} : Offer(s, x)
      PROVE  Goes
  BY <1>1, <1>3 DEF PublishSaved, PublishFails, Tick, vars, Offer, Shrinks
<1>4. ASSUME SaveDispatched \/ BackgroundSave
      PROVE  Goes
  BY <1>1, <1>4, ImageProper DEF SaveDispatched, BackgroundSave, Shrinks
<1>5. ASSUME SaveFails
      PROVE  Goes
  <2>1. mem' = Latched(Removed(mem, op.dev), op.dev) /\ op.dev \in Device
        /\ UNCHANGED <<disk, since, spent>>
    BY <1>1, <1>5 DEF SaveFails
  <2>2. Shrinks(mem, mem')
    BY <1>1, <2>1, RemovedProper, LatchedProper DEF Shrinks
  <2> QED
    BY <1>1, <2>1, <2>2 DEF Shrinks
<1>6. ASSUME SaveTerminal
      PROVE  Goes
  BY <1>1, <1>6 DEF SaveTerminal, Shrinks
<1>7. ASSUME SetTemperature \/ CallOn \/ RejectOn \/ CallOff \/ RejectOff
      PROVE  Goes
  BY <1>1, <1>7 DEF SetTemperature, CallOn, RejectOn, CallOff, RejectOff, Shrinks
<1>8. ASSUME OnConfirmed \/ PauseConfirmed \/ CommandFails
      PROVE  Goes
  <2>1. /\ op.dev \in Device /\ now \in 0..MaxTime
        /\ UNCHANGED <<disk, since, spent>>
    BY <1>1, <1>8
    DEF OnConfirmed, PauseConfirmed, CommandFails, InAction, Acting, TInv, TypeOK
  <2>2. Shrinks(mem, mem')
    BY <1>1, <1>8, <2>1, RemovedProper, PauseSetProper, LatchedProper
    DEF OnConfirmed, PauseConfirmed, CommandFails, Shrinks
  <2> QED
    BY <1>1, <2>1, <2>2 DEF Shrinks
<1>9. ASSUME NEW d \in Device, CancelRestore(d) \/ SwitchByHand(d)
      PROVE  Shrinks(mem, mem') /\ (Shrinks(mem, disk') \/ Shrinks(disk, disk'))
             /\ since' = since /\ spent' = spent
  BY <1>1, <1>9, RemovedProper DEF CancelRestore, SwitchByHand, Shrinks
<1>10. ASSUME NEW d \in Device, AcceptManual(d)
       PROVE  Shrinks(mem, mem') /\ UNCHANGED <<disk, since, spent>>
  <2>1. mem' = Reconciled(Removed(mem, d)) /\ UNCHANGED <<disk, since, spent>>
    BY <1>10 DEF AcceptManual
  <2> QED
    BY <1>1, <2>1, RemovedProper, ReconciledProper DEF Shrinks
<1>11. ASSUME NEW d \in Device, StopBegins(d)
       PROVE  Shrinks(mem, mem') /\ UNCHANGED <<disk, since>>
              /\ spent'.stops = spent.stops + 1
  <2>1. ASSUME BeginStop(d)
        PROVE  Shrinks(mem, mem')
    <3>1. PICK m \in {mem, Reconciled(mem)} : mem' = WithManual(m, d)
      BY <2>1 DEF BeginStop
    <3>2. Proper(m) /\ Shrinks(mem, m) /\ now \in 0..MaxTime
      BY <1>1, ReconciledProper DEF Shrinks, TInv, TypeOK
    <3> QED
      BY <3>1, <3>2, ManualProper DEF Shrinks
  <2>2. ASSUME ReshedManual(d) \/ StopOnLowBattery(d)
        PROVE  Shrinks(mem, mem')
    BY <1>1, <2>2, ReconciledProper DEF ReshedManual, StopOnLowBattery, Shrinks
  <2>3. Shrinks(mem, mem')
    BY <1>11, <2>1, <2>2 DEF StopBegins
  <2> QED
    BY <1>11, <2>3, StopBeginsCommand DEF CommandOff, TInv, TypeOK
<1>12. ASSUME NEW d \in Subject, NEW s \in Owner, NEW l \in Requests,
              NEW seen \in Lease \cup {None, Anything}, Publish(d, s, l, seen)
       PROVE  Shrinks(mem, mem') /\ UNCHANGED <<disk, since>>
              /\ spent'.stops = spent.stops
  <2>1. mem' = Reconciled([mem EXCEPT !.lease[d][s] = l]) /\ MayHappen
        /\ UNCHANGED <<disk, since>> /\ spent' = [spent EXCEPT !.calls = @ + 1]
    BY <1>12 DEF Publish
  <2>2. l \in Lease \cup {None} /\ d \in Device /\ s \in Source
    BY <2>1, ConstantsAssumption
    DEF MayHappen, Requests, Lease, Source, TInv, TypeOK, Counted
  <2>3. Shrinks(mem, mem')
    <3> DEFINE m == [mem EXCEPT !.lease[d][s] = l]
    <3>1. Proper(m) /\ m.pending = mem.pending /\ m.flagged = mem.flagged
      BY <1>1, <2>2, LeasedProper
    <3> HIDE DEF m
    <3> QED
      BY <2>1, <3>1, ReconciledProper DEF Shrinks, m
  <2> QED
    BY <1>1, <2>1, <2>3 DEF TInv, TypeOK
<1>13. ASSUME NEW t \in 0..MaxTime, NEW e \in [Device -> Entity], Restart(t, e)
       PROVE  /\ Shrinks(disk, mem') /\ Shrinks(disk, disk')
              /\ since' = since /\ spent'.stops = spent.stops
  BY <1>1, <1>13, RestoredProper DEF Restart, Shrinks, TInv, TypeOK
<1> QED
  BY <1>1, <1>2, <1>3, <1>4, <1>5, <1>6, <1>7, <1>8, <1>9, <1>10, <1>11, <1>12,
     <1>13
  DEF Next, Evaluate, Advance, StopBegins, Shrinks, Restarts

-----------------------------------------------------------------------------
(* The queue stays in order.                                               *)

LEMMA ShrunkIsOrdered ==
    ASSUME NEW m, NEW n, Shrinks(m, n), Ordered(m), since' = since
    PROVE  \A t, u \in n.pending :
               t.dev \notin n.flagged /\ u.dev \notin n.flagged
                 /\ u.dev \in since'[t.dev] => t.place < u.place
BY DEF Shrinks, Ordered

(* From the first save on, the file has the load flagged.                  *)
LEMMA FlaggedInFile ==
    ASSUME TInv, QInv, [Next]_vars, Acting', op'.phase # "saving"
    PROVE  op'.dev \in disk'.flagged
<1>1. /\ Proper(mem) /\ Proper(disk) /\ op \in Operation /\ Idle.kind = "idle"
  BY TypedSnapshots
<1>2. ~(op'.kind \in {"idle", "publish"})
  BY DEF Acting
<1>3. CASE op' = op /\ disk' = disk
  BY <1>3 DEF QInv, Acting
<1>4. CASE BackgroundSave
  BY <1>1, <1>4, ImageProper DEF BackgroundSave, InFlight, Acting
<1>5. CASE SaveDispatched
  <2>1. Image.flagged = mem.flagged \cup InFlight
    BY <1>1, ImageProper
  <2>2. op.dev \in InFlight
    BY <1>5 DEF SaveDispatched, Acting, InFlight
  <2>3. op'.dev = op.dev
    BY <1>1, <1>5, EnterTyped DEF SaveDispatched, Acting
  <2> QED
    BY <1>5, <2>1, <2>2, <2>3 DEF SaveDispatched
<1>6. CASE \/ SetTemperature \/ CallOn \/ RejectOn \/ OnConfirmed
           \/ CallOff \/ RejectOff \/ OffConfirmed \/ PauseConfirmed \/ CommandFails
  BY <1>6, ActionGoesOn DEF QInv
<1>7. CASE BeginRestore \/ \E d \in Device : StopBegins(d)
  BY <1>7, StopBeginsCommand DEF BeginRestore, CommandOff
<1>8. CASE PublishSaved \/ PublishFails \/ SaveFails \/ SaveTerminal
           \/ \E t \in 0..MaxTime, e \in [Device -> Entity] : Restart(t, e)
  BY <1>1, <1>2, <1>8
  DEF PublishSaved, PublishFails, SaveFails, SaveTerminal, Restart
<1>9. CASE \E d \in Subject, s \in Owner, l \in Requests,
              seen \in Lease \cup {None, Anything} : Publish(d, s, l, seen)
  BY <1>2, <1>9 DEF Publish
<1>10. CASE EvaluateBlocked \/ EvaluateWaits
            \/ \E d \in Device : CancelRestore(d) \/ SwitchByHand(d) \/ AcceptManual(d)
  BY <1>1, <1>2, <1>10
  DEF EvaluateBlocked, EvaluateWaits, CancelRestore, SwitchByHand, AcceptManual
<1>11. CASE Tick \/ UNCHANGED vars
            \/ \E s \in Owner, x \in Data \cup {Unknown} : Offer(s, x)
  BY <1>3, <1>11 DEF Tick, vars, Offer
<1> QED
  BY <1>4, <1>5, <1>6, <1>7, <1>8, <1>9, <1>10, <1>11
  DEF Next, Evaluate, Advance, StopBegins

(* A stop begins with a place behind all others, and they stay in front.   *)
LEMMA StopComesLast ==
    ASSUME TInv, QInv, [Next]_vars, op'.kind = "stop", op'.phase # "terminal",
           NEW t \in mem'.pending
    PROVE  t.place < spent'.stops
<1>1. /\ Proper(mem) /\ Proper(disk) /\ op \in Operation /\ Idle.kind = "idle"
  BY TypedSnapshots
<1>4. ~OffConfirmed /\ ~Restarts
  BY <1>1, EnterTyped DEF OffConfirmed, InAction, Restarts, Restart
<1>2. CASE op.kind = "stop" /\ op.phase # "terminal"
  <2>1. t \in mem.pending
    BY <1>1, <1>2, <1>4, TicketsGo DEF Shrinks
  <2>2. t.place \in Nat /\ spent.stops \in Nat /\ t.place < spent.stops
    BY <1>1, <1>2, <2>1, TypedSnapshots DEF QInv, Proper, Snapshot, Ticket
  <2> QED
    BY <1>2, <1>4, <2>2, TicketsGo
<1>3. ASSUME NEW d \in Device, StopBegins(d)
      PROVE  t.place < spent'.stops
  <2>1. spent'.stops = spent.stops + 1 /\ op = Idle
    BY <1>3, StopBeginsCommand DEF CommandOff, TInv, TypeOK
  <2>2. t \in mem.pending
    BY <1>1, <1>4, <2>1, TicketsGo DEF Shrinks
  <2>3. t.place \in Nat /\ spent.stops \in Nat /\ t.place <= spent.stops
    BY <1>1, <2>2, TypedSnapshots DEF QInv, Proper, Snapshot, Ticket
  <2> QED
    BY <2>1, <2>3
<1>5. CASE ~\E d \in Device : StopBegins(d)
  <2>1. CASE op' = op
    BY <1>2, <1>4, <2>1
  <2>2. CASE \/ SetTemperature \/ CallOn \/ RejectOn \/ OnConfirmed
             \/ CallOff \/ RejectOff \/ PauseConfirmed \/ CommandFails
    BY <1>2, <1>4, <2>2, ActionGoesOn
  <2>3. CASE SaveDispatched
    <3>1. op'.kind = op.kind /\ op.phase = "saving"
      BY <1>1, <2>3, EnterTyped DEF SaveDispatched, Acting
    <3> QED
      BY <1>2, <1>4, <3>1
  <2>4. op' # Idle /\ op'.kind # "publish" /\ ~BeginRestore
    BY <1>1 DEF BeginRestore
  <2> QED
    BY <1>4, <1>5, <2>1, <2>2, <2>3, <2>4, OperationSteps
<1> QED
  BY <1>3, <1>5

(* The new ticket is behind all others, in memory; the file has the load   *)
(* flagged.                                                                *)
LEMMA OffConfirmedIsOrdered ==
    ASSUME TInv, QInv, OffConfirmed
    PROVE  /\ Ordered(mem)' /\ Ordered(disk)'
           /\ \A t \in mem'.pending \cup disk'.pending : t.place <= spent'.stops
<1> DEFINE d == op.dev
           new == NewTicket(d, spent.stops)
<1>1. /\ Proper(mem) /\ Proper(disk) /\ d \in Device /\ spent.stops \in Nat
      /\ now \in 0..MaxTime /\ entity \in [Device -> Entity]
      /\ spent.stops \in 1..MaxEvents /\ since \in [Device -> SUBSET Device]
      /\ op.kind = "stop" /\ op.phase = "calling" /\ Acting
  <2>1. op.kind = "stop" /\ op.phase = "calling" /\ Acting
    BY DEF OffConfirmed, InAction, Acting
  <2> QED
    BY <2>1, TypedSnapshots, ConstantsAssumption DEF TInv, TypeOK, Counted
<1>2. /\ mem'.pending = (mem.pending \ Tickets(mem, d)) \cup {new}
      /\ mem'.flagged = mem.flagged /\ disk' = disk /\ spent' = spent
  <2>1. mem' = Created(PauseSet(mem, d), d) /\ disk' = disk /\ spent' = spent
    BY DEF OffConfirmed
  <2> QED
    BY <1>1, <2>1, PauseSetProper, CreatedProper DEF Tickets
<1>3. since' = [e \in Device |-> IF e = d THEN {} ELSE since[e] \cup {d}]
  BY DEF OffConfirmed
<1>4. new.dev = d /\ new.place = spent.stops
  BY DEF NewTicket
<1>5. \A t \in mem.pending \cup disk.pending : t.dev \in Device /\ t.place \in Nat
  BY <1>1 DEF Proper, Snapshot, Ticket
<1>6. \A t \in mem.pending : t.place < spent.stops
  BY <1>1 DEF QInv
<1> HIDE DEF new, d
<1>7. ASSUME NEW t \in mem'.pending, NEW u \in mem'.pending,
             t.dev \notin mem'.flagged, u.dev \notin mem'.flagged,
             u.dev \in since'[t.dev]
      PROVE  t.place < u.place
  <2>1. t # new /\ t \in mem.pending /\ t.dev # d
    BY <1>1, <1>2, <1>3, <1>4, <1>7 DEF Tickets
  <2>2. CASE u = new
    BY <1>4, <1>6, <2>1, <2>2
  <2>3. CASE u # new
    <3>1. u \in mem.pending /\ u.dev # d
      BY <1>2, <2>3 DEF Tickets
    <3>2. u.dev \in since[t.dev]
      BY <1>3, <1>5, <1>7, <2>1, <3>1
    <3> QED
      BY <1>2, <1>7, <2>1, <3>1, <3>2 DEF QInv, Ordered
  <2> QED
    BY <2>2, <2>3
<1>8. ASSUME NEW t \in disk'.pending, NEW u \in disk'.pending,
             t.dev \notin disk'.flagged, u.dev \notin disk'.flagged,
             u.dev \in since'[t.dev]
      PROVE  t.place < u.place
  <2>1. d \in disk.flagged
    BY <1>1 DEF QInv, d
  <2>2. t.dev # d /\ u.dev # d /\ u.dev \in since[t.dev]
    BY <1>2, <1>3, <1>5, <1>8, <2>1
  <2> QED
    BY <1>2, <1>8, <2>2 DEF QInv, Ordered
<1>9. \A t \in mem'.pending \cup disk'.pending : t.place <= spent'.stops
  BY <1>1, <1>2, <1>4 DEF QInv
<1> QED
  BY <1>7, <1>8, <1>9 DEF Ordered

LEMMA NextIsOrdered ==
    ASSUME TInv, QInv, [Next]_vars
    PROVE  QInv'
<1>1. /\ Ordered(mem)' /\ Ordered(disk)'
      /\ \A t \in mem'.pending \cup disk'.pending : t.place <= spent'.stops
  <2>1. CASE OffConfirmed
    BY <2>1, OffConfirmedIsOrdered
  <2>2. CASE ~OffConfirmed
    <3>1. /\ Shrinks(mem, mem') \/ Shrinks(disk, mem')
          /\ Shrinks(mem, disk') \/ Shrinks(disk, disk')
          /\ since' = since
          /\ spent'.stops \in Nat /\ spent.stops <= spent'.stops
      BY <2>2, TicketsGo
    <3>2. Ordered(mem)' /\ Ordered(disk)'
      BY <3>1, ShrunkIsOrdered DEF QInv, Ordered
    <3>3. \A t \in mem.pending \cup disk.pending :
              t.place \in Nat /\ t.place <= spent.stops
      BY TypedSnapshots DEF QInv, Proper, Snapshot, Ticket
    <3>4. spent.stops \in Nat
      BY TypedSnapshots
    <3>5. mem'.pending \cup disk'.pending \subseteq mem.pending \cup disk.pending
      BY <3>1 DEF Shrinks
    <3> QED
      BY <3>1, <3>2, <3>3, <3>4, <3>5
  <2> QED
    BY <2>1, <2>2
<1> QED
  BY <1>1, FlaggedInFile, StopComesLast DEF QInv

(* Whatever is saved, lost or taken up again after a restart, the places   *)
(* in memory and in the file tell the order of the stops.                  *)
THEOREM QueueInvariance == Spec => [](TInv /\ QInv)
<1>1. Init => QInv
  BY IdleKind DEF Init, QInv, Ordered, Acting
<1>2. TInv /\ QInv /\ [Next]_vars => QInv'
  BY NextIsOrdered
<1> QED
  BY <1>1, <1>2, TypesHold, PTL DEF Spec

LEMMA ChosenInReverse ==
    ASSUME TInv, QInv, [Next]_vars, op.kind # "restore", op'.kind = "restore"
    PROVE  ~\E t \in Candidates(mem') : t.dev \in since[op'.dev]
<1>1. BeginRestore
  <2>1. op' # op /\ op \in Operation /\ op' # Idle /\ op'.kind # "publish"
    BY TypedSnapshots
  <2>2. ~SaveDispatched
    BY <2>1, EnterTyped DEF SaveDispatched, Acting
  <2>3. ~(SetTemperature \/ CallOn \/ RejectOn \/ OnConfirmed
          \/ CallOff \/ RejectOff \/ OffConfirmed \/ PauseConfirmed \/ CommandFails)
    BY ActionGoesOn
  <2>4. ~\E d \in Device : StopBegins(d)
    BY StopBeginsCommand DEF CommandOff
  <2> QED
    BY <2>1, <2>2, <2>3, <2>4, OperationSteps
<1>2. PICK t \in Candidates(mem') :
          /\ \A u \in Candidates(mem') : u.place <= t.place
          /\ op'.dev = t.dev
  BY <1>1 DEF BeginRestore
<1>3. SUFFICES ASSUME NEW u \in Candidates(mem'), u.dev \in since[t.dev]
               PROVE  FALSE
  BY <1>2
<1>4. Ordered(mem)' /\ since' = since
  BY <1>1, NextIsOrdered DEF QInv, BeginRestore
<1>5. /\ t \in mem'.pending /\ t.dev \notin mem'.flagged
      /\ u \in mem'.pending /\ u.dev \notin mem'.flagged
  BY DEF Candidates, Candidate
<1>6. t.place < u.place
  BY <1>3, <1>4, <1>5 DEF Ordered
<1>7. t.place \in Nat /\ u.place \in Nat
  BY <1>5, NextTypes DEF TInv, TypeOK, Snapshot, Ticket
<1> QED
  BY <1>2, <1>3, <1>6, <1>7

(* Loads come back in the reverse order of the stops that made their       *)
(* tickets (select_restore_candidate, restore_candidates,                  *)
(* RestoreTransactions.create), across repeated stops, refusals and        *)
(* restarts.  A stop that makes none moves nothing, so this is not the     *)
(* order of all stops: after the re-shed of a manual ON, or the battery    *)
(* minimum's stop, the load keeps the place of its older ticket.           *)
THEOREM RestoresAreReversed == Spec => RestoreInReverse
<1>1. TInv /\ QInv /\ [Next]_vars =>
          (op.kind # "restore" /\ op'.kind = "restore" =>
             ~\E t \in Candidates(mem') : t.dev \in since[op'.dev])
  BY ChosenInReverse
<1> QED
  BY <1>1, QueueInvariance, PTL DEF Spec, RestoreInReverse

-----------------------------------------------------------------------------
(* The contract: a load is switched on once for each confirmed stop.       *)

CommandOut ==
    IF OnOutstanding THEN <<"on", op.dev>>
    ELSE IF InAction("stop", "calling") THEN <<"off", op.dev>>
    ELSE <<>>

(* Nothing is outstanding but in a call.                                   *)
LEMMA WhenOutstanding ==
    /\ ~Acting \/ op.phase # "calling" => CommandOut = <<>> /\ ~OnOutstanding
    /\ OnOutstanding <=> op.kind = "restore" /\ op.phase = "calling"
    /\ OnOutstanding => Acting /\ CommandOut = <<"on", op.dev>>
    /\ op.kind = "stop" => ~OnOutstanding
    /\ op.kind = "stop" /\ op.phase = "calling" => CommandOut = <<"off", op.dev>>
BY DEF Acting, OnOutstanding, InAction, CommandOut

LEMMA NoClaimAppears ==
    ASSUME NEW m, NEW n, Shrinks(m, n)
    PROVE  Unspent(n) \subseteq Unspent(m)
BY DEF Shrinks, Unspent, Tickets

(* The steps of the contract that are taken here: nobody vouches for a     *)
(* load, so a claim begins with a confirmed stop only.                     *)
ContractStep ==
    \/ \E d \in Device :
          Contract!SwitchOff(d) \/ Contract!Take(d) \/ Contract!SwitchOn(d)
    \/ Contract!GiveUp

(* Claims go away, and the command ends or stays.                          *)
LEMMA NothingGained ==
    ASSUME Claims' \subseteq Claims, CommandOut' \in {CommandOut, <<>>}
    PROVE  ContractStep
<1>1. Contract!GiveUp
  BY DEF CommandOut, Contract!GiveUp, Contract!NoCommand
<1> QED
  BY <1>1 DEF ContractStep

(* A restart is left with the file's claims, which no ON has used up.      *)
LEMMA RestartKeepsContract ==
    ASSUME TInv, [Next]_vars, Restarts
    PROVE  ContractStep
<1>1. Shrinks(disk, mem') /\ Shrinks(disk, disk') /\ op' = Idle
  BY TypedSnapshots, RestoredProper DEF Restarts, Restart, Shrinks
<1>2. Unspent(mem') \subseteq Claims /\ Unspent(disk') \subseteq Claims
  BY <1>1, NoClaimAppears DEF Claims
<1>3. CommandOut' = <<>> /\ ~OnOutstanding'
  BY <1>1, IdleKind DEF CommandOut, OnOutstanding, InAction
<1> QED
  BY <1>2, <1>3, NothingGained DEF Claims

(* A step without a command outstanding, or while an OFF is.               *)
LEMMA QuietKeepsContract ==
    ASSUME TInv, [Next]_vars, ~Restarts, ~OffConfirmed, ~CallOn, ~CallOff,
           ~OnOutstanding
    PROVE  ContractStep
<1>1. CASE op' = op
  <2>1. CommandOut' = CommandOut /\ ~OnOutstanding'
    BY <1>1 DEF CommandOut, OnOutstanding, InAction
  <2>2. Unspent(mem') \cup Unspent(disk') \subseteq Unspent(mem) \cup Unspent(disk)
    BY TicketsGo, NoClaimAppears
  <2> QED
    BY <2>1, <2>2, NothingGained DEF Claims
<1>2. CASE op' # op
  <2>1. CommandOut' = <<>> /\ ~OnOutstanding'
    <3>1. CASE op' = Idle \/ op'.kind = "publish"
      BY <3>1, IdleKind DEF CommandOut, OnOutstanding, InAction
    <3>2. CASE BeginRestore \/ \E d \in Device : StopBegins(d)
      BY <3>2, StopBeginsCommand
      DEF BeginRestore, CommandOff, CommandOut, OnOutstanding, InAction
    <3>3. CASE SaveDispatched
      <4>1. op'.phase = "permission"
        BY <3>3, EnterTyped, TypedSnapshots DEF SaveDispatched, Acting
      <4> QED
        BY <4>1 DEF CommandOut, OnOutstanding, InAction
    <3>4. CASE \/ SetTemperature \/ RejectOn \/ OnConfirmed
               \/ RejectOff \/ PauseConfirmed \/ CommandFails
      <4>1. op'.phase # "calling"
        BY <3>4, ActionGoesOn
      <4> QED
        BY <4>1 DEF CommandOut, OnOutstanding, InAction
    <3> QED
      BY <1>2, <3>1, <3>2, <3>3, <3>4, OperationSteps
  <2>2. Unspent(mem') \cup Unspent(disk') \subseteq Unspent(mem) \cup Unspent(disk)
    BY TicketsGo, NoClaimAppears
  <2> QED
    BY <2>1, <2>2, NothingGained DEF Claims
<1> QED
  BY <1>1, <1>2

(* While an ON is outstanding its load has no claim, neither in the file   *)
(* nor in memory.                                                          *)
LEMMA OutstandingKeepsContract ==
    ASSUME TInv, QInv, [Next]_vars, ~Restarts, OnOutstanding
    PROVE  ContractStep
<1>1. /\ op.kind = "restore" /\ op.phase = "calling" /\ op.dev \in disk.flagged
      /\ op.dev \in Device /\ Idle.kind = "idle" /\ Acting
      /\ Proper(mem) /\ Proper(disk)
  BY WhenOutstanding, TypedSnapshots DEF QInv
<1>2. ~OffConfirmed /\ ~CallOn /\ ~CallOff
  BY <1>1 DEF OffConfirmed, CallOn, CallOff, InAction
<1>3. /\ Unspent(mem') \subseteq Unspent(mem)
      /\ Unspent(disk') \subseteq Unspent(mem) \cup Unspent(disk)
  BY <1>2, TicketsGo, NoClaimAppears
<1>4. Claims = Unspent(disk) \cup (Unspent(mem) \ {op.dev})
  BY DEF Claims
<1>5. CASE op' = op
  <2>1. OnOutstanding' /\ CommandOut' = CommandOut /\ Acting' /\ op'.dev = op.dev
        /\ op'.phase # "saving"
    BY <1>1, <1>5 DEF CommandOut, OnOutstanding, InAction, Acting
  <2>2. op.dev \notin Unspent(disk')
    BY <2>1, FlaggedInFile DEF Unspent
  <2>3. Claims' = Unspent(disk') \cup (Unspent(mem') \ {op.dev})
    BY <2>1 DEF Claims
  <2> QED
    BY <1>3, <1>4, <2>1, <2>2, <2>3, NothingGained
<1>6. CASE OnConfirmed \/ CommandFails
  <2>1. op'.phase # "calling" /\ disk' = disk
    BY <1>2, <1>6, ActionGoesOn
  <2>2. CommandOut' = <<>> /\ ~OnOutstanding'
    BY <2>1 DEF CommandOut, OnOutstanding, InAction
  <2>3. op.dev \notin Unspent(mem')
    <3>1. CASE OnConfirmed
      BY <1>1, <3>1, RemovedProper DEF OnConfirmed, Unspent, Tickets
    <3>2. CASE CommandFails
      BY <1>1, <3>2, LatchedProper DEF CommandFails, Unspent
    <3> QED
      BY <1>6, <3>1, <3>2
  <2>4. Claims' = Unspent(disk) \cup Unspent(mem')
    BY <2>1, <2>2 DEF Claims
  <2> QED
    BY <1>3, <1>4, <2>2, <2>3, <2>4, NothingGained
<1>7. op' = op \/ OnConfirmed \/ CommandFails
  <2>1. op # Idle /\ ~(op.kind = "publish") /\ op.phase \notin {"saving", "terminal"}
    BY <1>1
  <2>2. ~Evaluate /\ ~PublishSaved /\ ~PublishFails
    BY <2>1 DEF Evaluate, EvaluateBlocked, EvaluateWaits, BeginRestore,
       PublishSaved, PublishFails
  <2>3. ~SaveDispatched /\ ~SaveFails /\ ~SaveTerminal
    BY <2>1 DEF SaveDispatched, SaveFails, SaveTerminal
  <2>4. ~SetTemperature /\ ~RejectOn /\ ~RejectOff /\ ~PauseConfirmed
    BY <1>1 DEF SetTemperature, RejectOn, RejectOff, PauseConfirmed, InAction
  <2>5. ~\E d \in Subject, s \in Owner, l \in Requests,
            seen \in Lease \cup {None, Anything} : Publish(d, s, l, seen)
    BY <2>1 DEF Publish
  <2>6. ~\E d \in Device : CancelRestore(d) \/ StopBegins(d) \/ SwitchByHand(d)
                           \/ AcceptManual(d)
    BY <2>1, StopBeginsCommand
    DEF CancelRestore, CommandOff, SwitchByHand, AcceptManual
  <2>7. Tick \/ BackgroundSave \/ UNCHANGED vars
          \/ (\E s \in Owner, x \in Data \cup {Unknown} : Offer(s, x)) => op' = op
    BY DEF Tick, BackgroundSave, vars, Offer
  <2> QED
    BY <1>2, <2>2, <2>3, <2>4, <2>5, <2>6, <2>7
    DEF Next, Advance, StopBegins, Restarts
<1> QED
  BY <1>5, <1>6, <1>7

(* The only step to an ON: the load is waiting in memory, somebody wants   *)
(* it, and the file already has it flagged.                                *)
LEMMA CallOnKeepsContract ==
    ASSUME TInv, QInv, CallOn, [Next]_vars
    PROVE  ContractStep
<1> DEFINE d == op.dev
<1>1. /\ op.kind = "restore" /\ op.phase \in {"permission", "tempering"} /\ Acting
      /\ DispatchPermitted(op.ticket) /\ mem' = mem /\ disk' = disk
  BY DEF CallOn, InAction, Acting
<1>2. op.ticket.dev = d /\ d \in Device /\ d \in disk.flagged
  BY <1>1, TypedSnapshots DEF QInv
<1>3. d \in Unspent(mem) /\ Permits(mem, d) /\ d \notin Unspent(disk)
  BY <1>1, <1>2 DEF DispatchPermitted, Candidate, Unspent, Tickets
<1>4. op'.kind = "restore" /\ op'.phase = "calling" /\ op'.dev = d
  BY <1>1, ActionGoesOn
<1>5. CommandOut = <<>> /\ CommandOut' = <<"on", d>> /\ OnOutstanding' /\ ~OnOutstanding
  BY <1>1, <1>4 DEF CommandOut, OnOutstanding, InAction
<1>6. Claims = Unspent(disk) \cup Unspent(mem)
      /\ Claims' = Unspent(disk) \cup (Unspent(mem) \ {d})
  BY <1>1, <1>4, <1>5 DEF Claims
<1>7. Contract!SwitchOn(d)
  BY <1>2, <1>3, <1>5, <1>6 DEF CommandOut, Contract!SwitchOn, Contract!NoCommand
<1> QED
  BY <1>2, <1>7 DEF ContractStep

LEMMA CallOffKeepsContract ==
    ASSUME TInv, CallOff, [Next]_vars
    PROVE  ContractStep
<1> DEFINE d == op.dev
<1>1. op.kind = "stop" /\ op.phase = "permission" /\ Acting
      /\ mem' = mem /\ disk' = disk
  BY DEF CallOff, InAction, Acting
<1>2. d \in Device /\ op'.kind = "stop" /\ op'.phase = "calling" /\ op'.dev = d
  BY <1>1, TypedSnapshots, ActionGoesOn
<1>3. CommandOut = <<>> /\ CommandOut' = <<"off", d>> /\ ~OnOutstanding' /\ ~OnOutstanding
  BY <1>1, <1>2 DEF CommandOut, OnOutstanding, InAction
<1>4. Claims' = Claims
  BY <1>1, <1>3 DEF Claims
<1>5. Contract!SwitchOff(d)
  BY <1>3, <1>4 DEF CommandOut, Contract!SwitchOff, Contract!NoCommand
<1> QED
  BY <1>2, <1>5 DEF ContractStep

(* A confirmed stop begins a claim, unless the load is flagged.            *)
LEMMA OffConfirmedKeepsContract ==
    ASSUME TInv, OffConfirmed, [Next]_vars
    PROVE  ContractStep
<1> DEFINE d == op.dev
<1>1. op.kind = "stop" /\ op.phase = "calling" /\ Acting /\ disk' = disk
      /\ mem' = Created(PauseSet(mem, d), d)
  BY DEF OffConfirmed, InAction, Acting
<1>2. d \in Device /\ op'.phase = "terminal" /\ Proper(mem)
  <2>1. op'.phase = "terminal"
    BY <1>1, EnterTyped, TypedSnapshots DEF OffConfirmed
  <2> QED
    BY <1>1, <2>1, TypedSnapshots
<1>3. /\ CommandOut = <<"off", d>> /\ CommandOut' = <<>>
      /\ ~OnOutstanding' /\ ~OnOutstanding
  BY <1>1, <1>2 DEF CommandOut, OnOutstanding, InAction
<1>4. /\ mem'.pending = (mem.pending \ Tickets(mem, d)) \cup {NewTicket(d, spent.stops)}
      /\ mem'.flagged = mem.flagged
  <2>1. spent.stops \in 1..MaxEvents /\ now \in 0..MaxTime
        /\ entity \in [Device -> Entity]
    BY <1>1, ConstantsAssumption DEF TInv, TypeOK, Counted
  <2> QED
    BY <1>1, <1>2, <2>1, PauseSetProper, CreatedProper DEF Tickets
<1>5. NewTicket(d, spent.stops).dev = d
  BY DEF NewTicket
<1>6. /\ d \notin mem.flagged => Unspent(mem') = Unspent(mem) \cup {d}
      /\ d \in mem.flagged => Unspent(mem') = Unspent(mem)
  BY <1>2, <1>4, <1>5 DEF Unspent, Tickets
<1>7. Claims = Unspent(disk) \cup Unspent(mem)
      /\ Claims' = Unspent(disk) \cup Unspent(mem')
  BY <1>1, <1>3 DEF Claims
<1>8. CASE d \notin mem.flagged
  <2>1. Contract!Take(d)
    BY <1>3, <1>6, <1>7, <1>8 DEF CommandOut, Contract!Take, Contract!NoCommand
  <2> QED
    BY <1>2, <2>1 DEF ContractStep
<1>9. CASE d \in mem.flagged
  BY <1>3, <1>6, <1>7, <1>9, NothingGained
<1> QED
  BY <1>8, <1>9

LEMMA NextKeepsContract == TInv /\ QInv /\ [Next]_vars => ContractStep
BY RestartKeepsContract, QuietKeepsContract, OutstandingKeepsContract,
   CallOnKeepsContract, CallOffKeepsContract, OffConfirmedKeepsContract

(* The intents, the tickets and their recovery implement the contract:     *)
(* every ON answers a confirmed stop of its own that no ON has answered    *)
(* yet, and somebody wants the load at that instant.                       *)
THEOREM ContractIsKept == Spec => KeepsContract
<1>1. Init => Contract!Init
  BY IdleKind
  DEF Init, Contract!Init, Contract!NoCommand, Claims, Unspent, Tickets,
      OnOutstanding, InAction
<1>2. TInv /\ QInv /\ [Next]_vars => Contract!Next
  BY NextKeepsContract DEF ContractStep, Contract!Next
<1> QED
  BY <1>1, <1>2, QueueInvariance, PTL DEF Spec, KeepsContract, Contract!Spec

-----------------------------------------------------------------------------
(* The count of OwnershipLedger, kept of tickets and intents.              *)
VARIABLES stops, vouchings, ons

Ledger ==
    INSTANCE OwnershipLedger WITH
        Load <- Device, owed <- Claims,
        wanted <- {d \in Device : Permits(mem, d)}, command <- CommandOut

LEMMA NobodyVouches ==
    ASSUME ContractStep, NEW d
    PROVE  ~Ledger!Vouched(d)
<1> SUFFICES ASSUME Ledger!Vouched(d)
             PROVE  FALSE
  OBVIOUS
<1>1. /\ CommandOut = <<>> /\ CommandOut' = <<>>
      /\ d \in Claims' /\ d \notin Claims
  BY DEF Ledger!Vouched, Ledger!Claimed, Ledger!NoCommand
<1>2. ~Contract!GiveUp
  BY <1>1 DEF Contract!GiveUp
<1>3. ASSUME NEW e \in Device
      PROVE  ~Contract!SwitchOff(e) /\ ~Contract!Take(e) /\ ~Contract!SwitchOn(e)
  BY <1>1
  DEF CommandOut, Contract!SwitchOff, Contract!Take, Contract!SwitchOn,
      Contract!NoCommand
<1> QED
  BY <1>2, <1>3 DEF ContractStep

(* However often intents and tickets lapse, are void, are lost with a      *)
(* failed save or come back with a restart, the ONs issued to a load do    *)
(* not outnumber its confirmed stops that left a ticket.                   *)
THEOREM OnsAnswerStops ==
    Spec /\ Ledger!Counting => [](\A d \in Device : ons[d] <= stops[d])
<1>1. KeepsContract => Ledger!Spec
  <2>1. Contract!Init => Ledger!Init
    BY DEF Contract!Init, Ledger!Init, Contract!NoCommand, Ledger!NoCommand,
           CommandOut
  <2>2. Contract!NoCommand = Ledger!NoCommand /\ Contract!vars = Ledger!vars
    BY DEF Contract!NoCommand, Ledger!NoCommand, Contract!vars, Ledger!vars,
           CommandOut
  <2>3. ASSUME NEW d \in Device
        PROVE  /\ Contract!SwitchOff(d) => Ledger!SwitchOff(d)
               /\ Contract!Take(d) => Ledger!Take(d)
               /\ Contract!SwitchOn(d) => Ledger!SwitchOn(d)
               /\ Contract!Vouch(d) => Ledger!Vouch(d)
    BY <2>2
    DEF Contract!SwitchOff, Ledger!SwitchOff, Contract!Take, Ledger!Take,
        Contract!SwitchOn, Ledger!SwitchOn, Contract!Vouch, Ledger!Vouch,
        CommandOut
  <2>4. Contract!GiveUp => Ledger!GiveUp
    BY <2>2 DEF Contract!GiveUp, Ledger!GiveUp, CommandOut
  <2>5. Contract!Next => Ledger!Next
    BY <2>3, <2>4 DEF Contract!Next, Ledger!Next
  <2>6. UNCHANGED Contract!vars => UNCHANGED Ledger!vars
    BY DEF Contract!vars, Ledger!vars, CommandOut
  <2> QED
    BY <2>1, <2>5, <2>6, PTL DEF KeepsContract, Contract!Spec, Ledger!Spec
<1> DEFINE NoVouching == vouchings = [d \in Device |-> 0]
<1>2. Ledger!CountingInit => NoVouching
  BY DEF Ledger!CountingInit
<1>3. ASSUME NoVouching, ContractStep, [Ledger!Count]_<<Ledger!vars, Ledger!ledger>>
      PROVE  NoVouching'
  <2>1. CASE UNCHANGED <<Ledger!vars, Ledger!ledger>>
    BY <1>3, <2>1 DEF Ledger!ledger
  <2>2. CASE Ledger!Count
    <3>1. \A d \in Device : vouchings[d] = 0 /\ ~Ledger!Vouched(d)
      BY <1>3, NobodyVouches
    <3>2. vouchings' = [d \in Device |->
                           vouchings[d] + IF Ledger!Vouched(d) THEN 1 ELSE 0]
      BY <2>2 DEF Ledger!Count
    <3> QED
      BY <3>1, <3>2
  <2> QED
    BY <1>3, <2>1, <2>2
<1>4. Ledger!LedgerInv /\ NoVouching => \A d \in Device : ons[d] <= stops[d]
  <2> SUFFICES ASSUME Ledger!LedgerInv, NoVouching, NEW d \in Device
               PROVE  ons[d] <= stops[d]
    OBVIOUS
  <2>1. /\ ons[d] \in Nat /\ stops[d] \in Nat /\ vouchings[d] = 0
        /\ ons[d] + (IF d \in Claims THEN 1 ELSE 0) <= stops[d] + vouchings[d]
    BY DEF Ledger!LedgerInv
  <2> QED
    BY <2>1
<1>5. Ledger!Spec /\ Ledger!Counting => []Ledger!LedgerInv
  BY Ledger!LedgerHolds
<1>6. Spec /\ Ledger!Counting => []NoVouching
  <2> HIDE DEF NoVouching
  <2> QED
    BY <1>2, <1>3, QueueInvariance, NextKeepsContract, PTL DEF Spec, Ledger!Counting
<1> HIDE DEF NoVouching
<1> QED
  BY ContractIsKept, <1>1, <1>4, <1>5, <1>6, PTL

-----------------------------------------------------------------------------
(* What async_recover has saved no later recovery finds invalid, if the    *)
(* clock is not set back in between: its leases stay, and its tickets and  *)
(* pauses are dropped only by their age.  So a recovery that voids a list  *)
(* does it once, and one that is interrupted and repeated voids no more.   *)
THEOREM RecoveryIsLasting ==
    ASSUME disk \in Snapshot, NEW t \in 0..MaxTime, NEW u \in t..MaxTime,
           disk' = Restored(t)
    PROVE  /\ LeasesValid(u)' /\ TicketsValid(u)'
           /\ Restored(u)' = [disk' EXCEPT !.pending = Unexpired(@, u),
                                           !.paused = PausesRestored(u)']
           /\ \A d \in Device : u < disk'.paused[d] =>
                PausesRestored(u)'[d] = disk'.paused[d]
           /\ u = t => Restored(u)' = disk'
<1> DEFINE l == IF LeasesValid(t) THEN disk.lease ELSE NoLeases
           p == IF TicketsValid(t) THEN Unexpired(disk.pending, t) ELSE {}
           c == PausesRestored(t)
           cc == [d \in Device |-> IF u < c[d] /\ c[d] <= u + TTL THEN c[d] ELSE 0]
<1>1. TTL \in Nat /\ MaxTime \in Nat /\ t \in Nat /\ u \in Nat /\ t <= u
  BY ConstantsAssumption
<1>2. disk' = [disk EXCEPT !.lease = l, !.pending = p, !.paused = c]
  BY DEF Restored
<1>3. disk'.lease = l /\ disk'.pending = p /\ disk'.paused = c
  <2> HIDE DEF l, p, c
  <2> QED
    BY <1>2 DEF Snapshot
<1>4. LeasesValid(u)'
  <2> SUFFICES ASSUME NEW d \in Device, NEW s \in Source, l[d][s] # None
               PROVE  l[d][s].expires <= u + TTL
    BY <1>3 DEF LeasesValid
  <2>1. l = disk.lease /\ LeasesValid(t)
    BY DEF NoLeases
  <2>2. disk.lease[d][s] \in Lease
    BY <2>1 DEF Snapshot
  <2>3. /\ disk.lease[d][s].expires \in Nat
        /\ disk.lease[d][s].expires <= t + TTL
    BY <1>1, <2>1, <2>2 DEF Lease, LeasesValid
  <2> QED
    BY <1>1, <2>1, <2>3
<1>5. TicketsValid(u)'
  <2> SUFFICES ASSUME NEW k \in p
               PROVE  k.created <= u
    BY <1>3 DEF TicketsValid
  <2>1. TicketsValid(t) /\ k \in disk.pending
    BY DEF Unexpired
  <2>2. k.created \in Nat /\ k.created <= t
    BY <1>1, <2>1 DEF Snapshot, Ticket, TicketsValid
  <2> QED
    BY <1>1, <2>2
<1>6. /\ PausesRestored(u)' = cc
      /\ \A d \in Device : u < c[d] => cc[d] = c[d]
      /\ u = t => cc = c
  <2>1. ASSUME NEW d \in Device
        PROVE  /\ c[d] \in Nat
               /\ c[d] # 0 => t < c[d] /\ c[d] <= t + TTL
    BY <1>1 DEF PausesRestored, Snapshot
  <2>2. c = [d \in Device |-> c[d]]
    BY DEF PausesRestored
  <2> HIDE DEF c
  <2>3. PausesRestored(u)' = cc
    BY <1>3 DEF PausesRestored
  <2>4. ASSUME NEW d \in Device, u < c[d] \/ u = t
        PROVE  cc[d] = c[d]
    BY <1>1, <2>1, <2>4
  <2> QED
    BY <2>2, <2>3, <2>4
<1>7. Restored(u)' = [disk' EXCEPT !.pending = Unexpired(p, u), !.paused = cc]
  <2> HIDE DEF l, p, c, cc
  <2>1. Restored(u)' = [disk' EXCEPT !.lease = l, !.pending = Unexpired(p, u),
                                     !.paused = cc]
    BY <1>3, <1>4, <1>5, <1>6 DEF Restored
  <2>2. [disk' EXCEPT !.lease = l] = disk'
    BY <1>2 DEF Snapshot
  <2> QED
    BY <1>2, <2>1, <2>2 DEF Snapshot
<1>8. ASSUME u = t
      PROVE  Restored(u)' = disk'
  <2>1. Unexpired(p, t) = p
    BY DEF Unexpired
  <2> HIDE DEF l, p, c, cc
  <2> QED
    BY <1>2, <1>6, <1>7, <1>8, <2>1 DEF Snapshot
<1> HIDE DEF l, p, c, cc
<1> QED
  BY <1>3, <1>4, <1>5, <1>6, <1>7, <1>8
=============================================================================
