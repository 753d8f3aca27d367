---------------------------- MODULE PersistQueue ----------------------------
(***************************************************************************)
(* The saves of the runtime store, and who waits for them.  An operation   *)
(* that holds the evaluation lock saves; so does every refresh once it has *)
(* released the lock (_async_update_data, _notify_faults), and one refresh *)
(* is started per state report, so several wait at once.                   *)
(*                                                                         *)
(* RestoreTransactions takes a save as one step.  Here it is what the code *)
(* does: the snapshot is copied into RuntimeStore._data, a live dict that  *)
(* journal records also enter on their own; the file is written from that  *)
(* dict when the save's turn comes; and when it is written, every dirty    *)
(* flag is cleared, whatever happened in between.                          *)
(***************************************************************************)
EXTENDS Naturals, Sequences, SequencesExt

CONSTANTS
    Device,    \* the logical loads of the configuration
    Updater,   \* refreshes that may be past the lock at the same time
    NoImage,   \* no write has started
    Lane,      \* the operations considered
    MayFail    \* whether a write may raise

ASSUME ConstantsAssumption ==
    /\ "op" \notin Updater
    /\ Lane \subseteq {"stop", "reshed", "restore", "accept", "clear",
                       "cancel"}
    /\ MayFail \in BOOLEAN

VARIABLES
    mem,       \* tickets and quarantines of the coordinator
    data,      \* RuntimeStore._data: their last snapshot and the journal
    disk,      \* the file
    dirty,     \* some flag that makes _persist_runtime_if_dirty save
    left,      \* loads with an unresolved record of an earlier process
    writes,    \* the savers, the one at the head has the write lock
    image,     \* the content the head is writing
    op,        \* the operation that holds the evaluation lock
    exposed,   \* history: loads commanded with no confirmed outcome since
    spent      \* history: loads whose ticket an ON was issued for

vars == <<mem, data, disk, dirty, left, writes, image, op, exposed, spent>>

-----------------------------------------------------------------------------
Unresolved == {"prepared", "dispatched"}
Phase == Unresolved \cup {"resolved", "unsaved"}

Memory == [ticket : SUBSET Device, quarantined : SUBSET Device]

(* phase[d] is that of the latest record of d; "resolved" stands for every *)
(* outcome, "unsaved" for the one _storage_failure records.                *)
File == [ticket : SUBSET Device, quarantined : SUBSET Device,
         phase : [Device -> Phase]]

Waiting == {"prepared", "dispatched", "terminal", "final", "direct"}
Operation == [pc : Waiting \cup {"idle", "commanding", "calling",
                                 "reporting"},
              lane : Lane \cup {"none"}, dev : SUBSET Device]

Idle == [pc |-> "idle", lane |-> "none", dev |-> {}]

Init ==
    /\ mem = [ticket |-> {}, quarantined |-> {}]
    /\ data = [ticket |-> {}, quarantined |-> {},
               phase |-> [d \in Device |-> "resolved"]]
    /\ disk = data
    /\ dirty = FALSE
    /\ left = {}
    /\ writes = <<>>
    /\ image = NoImage
    /\ op = Idle
    /\ exposed = {}
    /\ spent = {}

-----------------------------------------------------------------------------
(* A save: the snapshot enters the dict, the saver queues for the file.    *)

(* _save_runtime_snapshot: all of mem, the journal is already there.       *)
Snapshot(m, file) ==
    [file EXCEPT !.ticket = m.ticket, !.quarantined = m.quarantined]

Recorded(file, devices, phase) ==
    [file EXCEPT !.phase = [d \in Device |-> IF d \in devices THEN phase
                                             ELSE file.phase[d]]]

Save(saver, m, file) ==
    /\ data' = Snapshot(m, file)
    /\ writes' = Append(writes, saver)

NeedsSave == dirty \/ left # {}

(* The end of an operation that called _persist_runtime_if_dirty last.     *)
Trailing(unsaved) ==
    IF unsaved \/ left # {}
    THEN /\ op' = [op EXCEPT !.pc = "final"]
         /\ data' = Snapshot(mem, data)
    ELSE op' = Idle /\ UNCHANGED data

TrailingWrites(rest, unsaved) ==
    writes' = IF unsaved \/ left # {} THEN Append(rest, "op") ELSE rest

(* The write lock of the Home Assistant Store: first come, first served,   *)
(* and the dict is serialised when the lock is taken.                      *)
WriteStarts ==
    /\ writes # <<>> /\ image = NoImage
    /\ image' = data
    /\ UNCHANGED <<mem, data, disk, dirty, left, writes, op, exposed, spent>>

HeadIs(saver) == writes # <<>> /\ Head(writes) = saver /\ image # NoImage

Written == disk' = image /\ image' = NoImage
Raised == MayFail /\ image' = NoImage /\ UNCHANGED disk

-----------------------------------------------------------------------------
(* The refreshes: the same save, after the evaluation lock is released.    *)

(* Mutant of UpdaterSaves: a refresh does not wait for its save and makes   *)
(* the next one.                                                           *)
UpdaterSavesAgain(u) ==
    /\ NeedsSave
    /\ Len(writes) < 4
    /\ Save(u, mem, data)
    /\ UNCHANGED <<mem, disk, dirty, left, image, op, exposed, spent>>

UpdaterSaves(u) ==
    /\ NeedsSave
    /\ ~Contains(writes, u)
    /\ Save(u, mem, data)
    /\ UNCHANGED <<mem, disk, dirty, left, image, op, exposed, spent>>

UpdaterLands(u) ==
    /\ HeadIs(u)
    /\ Written
    /\ writes' = Tail(writes)
    /\ dirty' = FALSE
    /\ UNCHANGED <<mem, data, left, op, exposed, spent>>

(* _journal_persistence_blocked: the next call saves again.                *)
UpdaterFails(u) ==
    /\ HeadIs(u)
    /\ Raised
    /\ writes' = Tail(writes)
    /\ dirty' = TRUE
    /\ UNCHANGED <<mem, data, left, op, exposed, spent>>

-----------------------------------------------------------------------------
(* RestoreTransactions.execute.                                            *)

(* Mutant of Permits: a quarantined load is restored like any other.       *)
PermitsQuarantined(lane, d) ==
    CASE lane = "stop" -> TRUE
      [] lane \in {"reshed", "restore"} -> d \in mem.ticket

Permits(lane, d) ==
    CASE lane = "stop" -> TRUE
      [] lane \in {"reshed", "restore"} ->
           d \in mem.ticket /\ d \notin mem.quarantined

Begin(lane, d) ==
    /\ op = Idle
    /\ lane \in Lane \cap {"stop", "reshed", "restore"}
    /\ Permits(lane, d)
    /\ op' = [pc |-> "prepared", lane |-> lane, dev |-> {d}]
    /\ dirty' = TRUE
    /\ UNCHANGED <<mem, disk, left, image, exposed, spent>>
    /\ Save("op", mem, Recorded(data, {d}, "prepared"))

(* Mutant of PreparedLands: the command does not wait for the second save. *)
PreparedLandsAndCommands ==
    /\ op.pc = "prepared" /\ HeadIs("op")
    /\ Written
    /\ op' = [op EXCEPT !.pc = "commanding"]
    /\ dirty' = TRUE
    /\ UNCHANGED <<mem, left, exposed, spent>>
    /\ data' = Snapshot(mem, Recorded(data, op.dev, "dispatched"))
    /\ writes' = Tail(writes)

PreparedLands ==
    /\ op.pc = "prepared" /\ HeadIs("op")
    /\ Written
    /\ op' = [op EXCEPT !.pc = "dispatched"]
    /\ dirty' = TRUE
    /\ UNCHANGED <<mem, left, exposed, spent>>
    /\ data' = Snapshot(mem, Recorded(data, op.dev, "dispatched"))
    /\ writes' = Append(Tail(writes), "op")

DispatchedLands ==
    /\ op.pc = "dispatched" /\ HeadIs("op")
    /\ Written
    /\ writes' = Tail(writes)
    /\ dirty' = FALSE
    /\ op' = [op EXCEPT !.pc = "commanding"]
    /\ UNCHANGED <<mem, data, left, exposed, spent>>

Command ==
    /\ op.pc = "commanding"
    /\ op' = [op EXCEPT !.pc = "calling"]
    /\ exposed' = exposed \cup op.dev
    /\ spent' = IF op.lane = "restore" THEN spent \cup op.dev ELSE spent
    /\ UNCHANGED <<mem, data, disk, dirty, left, writes, image>>

(* Mutant of Completed: the load of a failed command is not quarantined.   *)
CompletedWithoutLatch(result) ==
    CASE result = "confirmed" /\ op.lane = "stop" ->
           [mem EXCEPT !.ticket = @ \cup op.dev]
      [] result = "confirmed" /\ op.lane = "restore" ->
           [mem EXCEPT !.ticket = @ \ op.dev]
      [] OTHER -> mem

(* Mutant of Completed: a confirmed restore leaves its ticket in place.    *)
CompletedWithTicket(result) ==
    CASE result = "failed" ->
           [mem EXCEPT !.quarantined = @ \cup op.dev]
      [] result = "confirmed" /\ op.lane = "stop" ->
           [mem EXCEPT !.ticket = @ \cup op.dev]
      [] OTHER -> mem

(* complete(): a confirmed stop commits a ticket, unless it repeats one    *)
(* that is pending; a confirmed restore retires it.                        *)
Completed(result) ==
    CASE result = "failed" ->
           [mem EXCEPT !.quarantined = @ \cup op.dev]
      [] result = "confirmed" /\ op.lane = "stop" ->
           [mem EXCEPT !.ticket = @ \cup op.dev]
      [] result = "confirmed" /\ op.lane = "restore" ->
           [mem EXCEPT !.ticket = @ \ op.dev]
      [] OTHER -> mem

CommandEnds(result) ==
    /\ op.pc = (IF result = "rejected" THEN "commanding" ELSE "calling")
    /\ mem' = Completed(result)
    /\ op' = [op EXCEPT !.pc = "terminal"]
    /\ dirty' = TRUE
    /\ exposed' = IF result = "confirmed" THEN exposed \ op.dev ELSE exposed
    /\ spent' = IF result = "confirmed" /\ op.lane = "stop"
                THEN spent \ op.dev ELSE spent
    /\ Save("op", Completed(result), Recorded(data, op.dev, "resolved"))
    /\ UNCHANGED <<disk, left, image>>

(* A re-shed notifies before the last save of _handle_manual_on_pending.   *)
Notifies == op.lane = "reshed"

(* Some callers write the outcome into the journal once more (the shedding *)
(* and restore lanes, a re-shed), which sets a flag again, others do not.  *)
TerminalLands ==
    /\ op.pc = "terminal" /\ HeadIs("op")
    /\ Written
    /\ dirty' \in BOOLEAN
    /\ UNCHANGED <<mem, left, exposed, spent>>
    /\ \/ /\ Notifies
          /\ op' = [op EXCEPT !.pc = "reporting"]
          /\ writes' = Tail(writes)
          /\ UNCHANGED data
       \/ /\ ~Notifies
          /\ Trailing(dirty')
          /\ TrailingWrites(Tail(writes), dirty')

(* _storage_failure: the ticket is retired and the load quarantined.       *)
Abandoned ==
    [mem EXCEPT !.ticket = @ \ op.dev, !.quarantined = @ \cup op.dev]

(* Mutant of SaveFails: the save is repeated until it lands.               *)
SaveFailsAndRepeats ==
    /\ op.pc \in {"prepared", "dispatched", "terminal"} /\ HeadIs("op")
    /\ Raised
    /\ dirty' = TRUE
    /\ writes' = Append(Tail(writes), "op")
    /\ UNCHANGED <<mem, data, left, op, exposed, spent>>

(* The failure is recorded in the dict at once; the retired ticket and the *)
(* quarantine enter it with the next snapshot.                             *)
SaveFails ==
    /\ op.pc \in {"prepared", "dispatched", "terminal"} /\ HeadIs("op")
    /\ Raised
    /\ mem' = Abandoned
    /\ dirty' = TRUE
    /\ UNCHANGED <<left, exposed, spent>>
    /\ \/ /\ Notifies
          /\ op' = [op EXCEPT !.pc = "reporting"]
          /\ data' = Recorded(data, op.dev, "unsaved")
          /\ writes' = Tail(writes)
       \/ /\ ~Notifies
          /\ op' = [op EXCEPT !.pc = "final"]
          /\ data' = Snapshot(Abandoned, Recorded(data, op.dev, "unsaved"))
          /\ writes' = Append(Tail(writes), "op")

-----------------------------------------------------------------------------
(* The other operations that hold the lock.                                *)

(* A manual ON of a pending load under safe capacity, up to the            *)
(* notification it awaits.                                                 *)
Accept(d) ==
    /\ op = Idle
    /\ "accept" \in Lane
    /\ d \in mem.ticket /\ d \notin mem.quarantined
    /\ mem' = [mem EXCEPT !.ticket = @ \ {d}]
    /\ dirty' = TRUE
    /\ op' = [pc |-> "reporting", lane |-> "accept", dev |-> {d}]
    /\ UNCHANGED <<data, disk, left, writes, image, exposed, spent>>

ReportEnds ==
    /\ op.pc = "reporting"
    /\ UNCHANGED <<mem, disk, dirty, left, image, exposed, spent>>
    /\ Trailing(dirty)
    /\ TrailingWrites(writes, dirty)

FinalLands ==
    /\ op.pc = "final" /\ HeadIs("op")
    /\ Written
    /\ writes' = Tail(writes)
    /\ dirty' = FALSE
    /\ op' = Idle
    /\ UNCHANGED <<mem, data, left, exposed, spent>>

FinalFails ==
    /\ op.pc = "final" /\ HeadIs("op")
    /\ Raised
    /\ writes' = Tail(writes)
    /\ dirty' = TRUE
    /\ op' = Idle
    /\ UNCHANGED <<mem, data, left, exposed, spent>>

(* async_clear_quarantine and async_cancel_restore save whether dirty or   *)
(* not, and leave the flags alone.  Clearing needs proof that the load is  *)
(* off, which settles what the commands left open.                         *)
ClearQuarantine(d) ==
    /\ op = Idle
    /\ "clear" \in Lane
    /\ d \in mem.quarantined
    /\ mem' = [mem EXCEPT !.quarantined = @ \ {d}]
    /\ dirty' = TRUE
    /\ op' = [pc |-> "direct", lane |-> "clear", dev |-> {d}]
    /\ exposed' = exposed \ {d}
    /\ spent' = spent \ {d}
    /\ Save("op", mem', data)
    /\ UNCHANGED <<disk, left, image>>

CancelRestore(d) ==
    /\ op = Idle
    /\ "cancel" \in Lane
    /\ d \in mem.ticket
    /\ mem' = [mem EXCEPT !.ticket = @ \ {d}]
    /\ dirty' = TRUE
    /\ op' = [pc |-> "direct", lane |-> "cancel", dev |-> {d}]
    /\ Save("op", mem', data)
    /\ UNCHANGED <<disk, left, image, exposed, spent>>

DirectLands ==
    /\ op.pc = "direct" /\ HeadIs("op")
    /\ Written
    /\ writes' = Tail(writes)
    /\ op' = Idle
    /\ UNCHANGED <<mem, data, dirty, left, exposed, spent>>

(* A failed clear puts the quarantine back; both raise to their caller.    *)
DirectFails ==
    /\ op.pc = "direct" /\ HeadIs("op")
    /\ Raised
    /\ writes' = Tail(writes)
    /\ mem' = IF op.lane = "clear"
              THEN [mem EXCEPT !.quarantined = @ \cup op.dev] ELSE mem
    /\ dirty' = (dirty \/ op.lane = "clear")
    /\ op' = Idle
    /\ UNCHANGED <<data, left, exposed, spent>>

-----------------------------------------------------------------------------
UnresolvedIn(file) == {d \in Device : file.phase[d] \in Unresolved}

(* A crash and the recovery from the file.  An unresolved record is never  *)
(* rewritten, its load is quarantined at every start; recovery saves what  *)
(* it rebuilt before anything else runs.                                   *)
Restart ==
    /\ left' = left \cup UnresolvedIn(disk)
    /\ mem' = [ticket |-> disk.ticket,
               quarantined |-> disk.quarantined \cup left']
    /\ data' = Snapshot(mem', [disk EXCEPT !.phase =
                                   [d \in Device |-> "resolved"]])
    /\ \/ disk' = data' /\ dirty' = FALSE
       \/ /\ MayFail /\ dirty' = TRUE
          /\ disk' = [disk EXCEPT !.phase = data'.phase]
    /\ writes' = <<>>
    /\ image' = NoImage
    /\ op' = Idle
    /\ UNCHANGED <<exposed, spent>>

OpLands ==
    \/ PreparedLands \/ DispatchedLands \/ TerminalLands
    \/ FinalLands \/ DirectLands

OpFails == SaveFails \/ FinalFails \/ DirectFails

Results == {"confirmed", "rejected", "failed"}

Next ==
    \/ WriteStarts
    \/ \E u \in Updater : UpdaterSaves(u) \/ UpdaterLands(u) \/ UpdaterFails(u)
    \/ \E d \in Device : \/ \E lane \in Lane : Begin(lane, d)
                         \/ Accept(d) \/ ClearQuarantine(d) \/ CancelRestore(d)
    \/ Command
    \/ \E r \in Results : CommandEnds(r)
    \/ ReportEnds
    \/ OpLands \/ OpFails
    \/ Restart

Spec == Init /\ [][Next]_vars

(* A write that has begun ends and the next one begins; calls, their       *)
(* readback and the notification return.  Nothing is assumed of starts.    *)
Fairness ==
    /\ WF_vars(WriteStarts)
    /\ WF_vars(OpLands \/ OpFails)
    /\ \A u \in Updater : WF_vars(UpdaterLands(u) \/ UpdaterFails(u))
    /\ WF_vars(Command \/ \E r \in Results : CommandEnds(r))
    /\ WF_vars(ReportEnds)

FairSpec == Spec /\ Fairness

-----------------------------------------------------------------------------
TypeOK ==
    /\ mem \in Memory
    /\ data \in File /\ disk \in File
    /\ image \in File \cup {NoImage}
    /\ dirty \in BOOLEAN
    /\ left \subseteq Device /\ exposed \subseteq Device
    /\ spent \subseteq Device
    /\ writes \in Seq(Updater \cup {"op"}) /\ IsInjective(writes)
    /\ op \in Operation
    /\ op.pc \in Waiting <=> Contains(writes, "op")

(* What a restart from the file refuses to act on.                         *)
Blocked == disk.quarantined \cup left \cup UnresolvedIn(disk)

(* A call is issued only once the file holds its intent, whoever else      *)
(* writes the file meanwhile.                                              *)
IntentOnDisk ==
    op.pc \in {"commanding", "calling"} =>
        \A d \in op.dev : disk.phase[d] = "dispatched"

(* A load whose last command has no confirmed outcome is one a restart     *)
(* would block: no save, whoever made it, may leave the file with the      *)
(* outcome recorded and the quarantine missing.                            *)
AmbiguityIsBlocked == exposed \subseteq Blocked

(* The file never offers again a ticket that an ON was issued for.         *)
SpentTicketIsBlocked == spent \cap disk.ticket \subseteq Blocked

(* An operation that holds the evaluation lock ends, although refreshes    *)
(* keep queueing in front of its saves and any save may fail.              *)
OperationEnds == (op # Idle) ~> (op = Idle)

Settled == op = Idle /\ writes = <<>> /\ ~NeedsSave

(* Once every save has landed and no flag is left, nothing will save again *)
(* by itself: the file then has the coordinator's tickets.  "The           *)
(* pending-restore queue is durable across reload and restart"             *)
(* (power-orchestrator-spec.md).                                           *)
QueueIsSaved == Settled => disk.ticket = mem.ticket

(* The file never records the failure of an unsaved action next to its     *)
(* ticket: "never the obsolete ticket as retry proof" (_storage_failure).  *)
NoObsoleteTicket ==
    \A d \in disk.ticket : disk.phase[d] # "unsaved"

(* The controller's promise about ONs, kept by all of this.  A ticket is   *)
(* still good wherever it may come back from: the file, the write under    *)
(* way, the dict, or memory.                                               *)
Unspent(file) ==
    file.ticket \ (file.quarantined \cup left \cup UnresolvedIn(file))

OnOutstanding == op.pc = "calling" /\ op.lane = "restore"

Claims ==
    Unspent(disk) \cup Unspent(data)
      \cup (IF image = NoImage THEN {} ELSE Unspent(image))
      \cup ((mem.ticket \ mem.quarantined)
              \ (IF OnOutstanding THEN op.dev ELSE {}))

CommandOut ==
    IF op.pc = "calling"
    THEN <<IF op.lane = "restore" THEN "on" ELSE "off",
           CHOOSE d \in op.dev : TRUE>>
    ELSE <<>>

Contract ==
    INSTANCE Ownership WITH
        Load <- Device, owed <- Claims, wanted <- Device, command <- CommandOut

KeepsContract == Contract!Spec
=============================================================================
