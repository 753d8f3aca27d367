------------------------- MODULE PersistQueueProofs -------------------------
(***************************************************************************)
(* What the file holds, for any set of loads, any number of refreshes past *)
(* the lock, any choice of operations, and whether writes fail or not; and *)
(* that the saves, in whatever order, keep the promise of Ownership.       *)
(***************************************************************************)
EXTENDS PersistQueue, TLAPS

-----------------------------------------------------------------------------
(* The inductive invariant.                                                *)

(* From the second record on, the dict says "dispatched"; so do the write  *)
(* under way, whoever makes it, and, once the second save has landed, the  *)
(* file.                                                                   *)
Dispatched(file) == \A d \in op.dev : file.phase[d] = "dispatched"

IntentIsKept ==
    op.pc \in {"dispatched", "commanding", "calling"} =>
        /\ Dispatched(data)
        /\ image # NoImage => Dispatched(image)
        /\ op.pc # "dispatched" => Dispatched(disk)

Blocks(file, d) ==
    \/ d \in file.quarantined \cup left
    \/ file.phase[d] \in Unresolved

Quarantined(d) == d \in mem.quarantined /\ d \in data.quarantined

(* What blocks an ambiguous load is in memory and in the dict, so every    *)
(* later write has it too.                                                 *)
AmbiguityIsKept ==
    \A d \in exposed :
        /\ Quarantined(d) \/ (op.pc = "calling" /\ d \in op.dev)
        /\ Blocks(disk, d)
        /\ image # NoImage => Blocks(image, d)

(* A spent ticket is gone from memory and from the dict, or blocked there. *)
SpentIsKept ==
    \A d \in spent :
        /\ \/ Quarantined(d)
           \/ d \notin mem.ticket /\ d \notin data.ticket
           \/ op.pc = "calling" /\ op.lane = "restore" /\ d \in op.dev
        /\ d \in disk.ticket => Blocks(disk, d)
        /\ image # NoImage /\ d \in image.ticket => Blocks(image, d)

IInv == TypeOK /\ IntentIsKept /\ AmbiguityIsKept /\ SpentIsKept

-----------------------------------------------------------------------------
(* The queue for the write lock.                                           *)

LEMMA QueueAppend ==
    ASSUME NEW S, NEW s \in Seq(S), NEW x \in S, IsInjective(s),
           ~Contains(s, x)
    PROVE  /\ Append(s, x) \in Seq(S)
           /\ IsInjective(Append(s, x))
           /\ \A y : Contains(Append(s, x), y) <=> Contains(s, y) \/ y = x
<1>1. /\ Append(s, x) \in Seq(S) /\ Len(Append(s, x)) = Len(s) + 1
      /\ Append(s, x)[Len(s) + 1] = x
      /\ \A i \in 1..Len(s) : Append(s, x)[i] = s[i]
      /\ Len(s) \in Nat
  OBVIOUS
<1>2. DOMAIN s = 1..Len(s) /\ DOMAIN Append(s, x) = 1..(Len(s) + 1)
  BY <1>1
<1>3. IsInjective(Append(s, x))
  <2> SUFFICES ASSUME NEW i \in 1..(Len(s) + 1), NEW j \in 1..(Len(s) + 1),
                      Append(s, x)[i] = Append(s, x)[j]
               PROVE  i = j
    BY <1>2 DEF IsInjective
  <2>1. \A k \in 1..Len(s) : s[k] # x
    BY DEF Contains
  <2> QED
    BY <1>1, <1>2, <2>1 DEF IsInjective
<1>4. \A y : Contains(Append(s, x), y) <=> Contains(s, y) \/ y = x
  <2> TAKE y
  <2>1. Contains(Append(s, x), y) <=>
          \E i \in 1..(Len(s) + 1) : Append(s, x)[i] = y
    BY <1>1 DEF Contains
  <2>2. Contains(s, y) <=> \E i \in 1..Len(s) : s[i] = y
    BY DEF Contains
  <2>3. \A i \in 1..(Len(s) + 1) : i \in 1..Len(s) \/ i = Len(s) + 1
    BY <1>1
  <2>4. 1..Len(s) \subseteq 1..(Len(s) + 1) /\ Len(s) + 1 \in 1..(Len(s) + 1)
    BY <1>1
  <2> QED
    BY <1>1, <2>1, <2>2, <2>3, <2>4
<1> QED
  BY <1>1, <1>3, <1>4

LEMMA QueueTail ==
    ASSUME NEW S, NEW s \in Seq(S), s # <<>>, IsInjective(s)
    PROVE  /\ Tail(s) \in Seq(S)
           /\ IsInjective(Tail(s))
           /\ \A y : Contains(Tail(s), y) <=> Contains(s, y) /\ y # Head(s)
<1>1. /\ Tail(s) \in Seq(S) /\ Len(Tail(s)) = Len(s) - 1
      /\ \A i \in 1..(Len(s) - 1) : Tail(s)[i] = s[i + 1]
      /\ Head(s) = s[1] /\ Len(s) \in Nat /\ Len(s) >= 1
  OBVIOUS
<1>2. DOMAIN s = 1..Len(s) /\ DOMAIN Tail(s) = 1..(Len(s) - 1)
  BY <1>1
<1>3. IsInjective(Tail(s))
  <2> SUFFICES ASSUME NEW i \in 1..(Len(s) - 1), NEW j \in 1..(Len(s) - 1),
                      Tail(s)[i] = Tail(s)[j]
               PROVE  i = j
    BY <1>2 DEF IsInjective
  <2>1. s[i + 1] = s[j + 1] /\ i + 1 \in 1..Len(s) /\ j + 1 \in 1..Len(s)
    BY <1>1
  <2> QED
    BY <1>2, <2>1 DEF IsInjective
<1>4. ASSUME NEW y
      PROVE  Contains(Tail(s), y) <=> Contains(s, y) /\ y # Head(s)
  <2>1. ASSUME Contains(Tail(s), y)
        PROVE  Contains(s, y) /\ y # Head(s)
    <3>1. PICK i \in 1..(Len(s) - 1) : Tail(s)[i] = y
      BY <1>1, <2>1 DEF Contains
    <3>2. i + 1 \in 1..Len(s) /\ s[i + 1] = y /\ i + 1 # 1 /\ 1 \in 1..Len(s)
      BY <1>1, <3>1
    <3>3. s[1] # y
      BY <1>2, <3>2 DEF IsInjective
    <3> QED
      BY <1>1, <3>2, <3>3 DEF Contains
  <2>2. ASSUME Contains(s, y), y # Head(s)
        PROVE  Contains(Tail(s), y)
    <3>1. PICK i \in 1..Len(s) : s[i] = y
      BY <2>2 DEF Contains
    <3>2. i - 1 \in 1..(Len(s) - 1) /\ Tail(s)[i - 1] = y
      BY <1>1, <2>2, <3>1
    <3> QED
      BY <1>1, <3>2 DEF Contains
  <2> QED
    BY <2>1, <2>2
<1> QED
  BY <1>1, <1>3, <1>4

-----------------------------------------------------------------------------
(* Snapshots and records.                                                  *)

LEMMA SnapshotFields ==
    ASSUME NEW m \in Memory, NEW f \in File
    PROVE  /\ Snapshot(m, f) \in File
           /\ Snapshot(m, f).ticket = m.ticket
           /\ Snapshot(m, f).quarantined = m.quarantined
           /\ Snapshot(m, f).phase = f.phase
BY DEF Snapshot, Memory, File

LEMMA RecordedFields ==
    ASSUME NEW f \in File, NEW D \in SUBSET Device, NEW p \in Phase
    PROVE  /\ Recorded(f, D, p) \in File
           /\ Recorded(f, D, p).ticket = f.ticket
           /\ Recorded(f, D, p).quarantined = f.quarantined
           /\ \A d \in Device : Recorded(f, D, p).phase[d] =
                IF d \in D THEN p ELSE f.phase[d]
BY DEF Recorded, File

(* Another await of the same operation.                                    *)
LEMMA OpMoves ==
    ASSUME op \in Operation,
           NEW p \in Waiting \cup {"idle", "commanding", "calling",
                                   "reporting"}
    PROVE  /\ [op EXCEPT !.pc = p] \in Operation
           /\ [op EXCEPT !.pc = p].pc = p
           /\ [op EXCEPT !.pc = p].dev = op.dev
           /\ [op EXCEPT !.pc = p].lane = op.lane
BY DEF Operation

LEMMA IdleIsOperation == Idle \in Operation /\ Idle.pc = "idle"
BY DEF Idle, Operation

(* The head of the queue leaves it.                                        *)
LEMMA HeadLeaves ==
    ASSUME TypeOK, NEW w \in Updater \cup {"op"}, HeadIs(w)
    PROVE  /\ image \in File
           /\ Tail(writes) \in Seq(Updater \cup {"op"})
           /\ IsInjective(Tail(writes))
           /\ ~Contains(Tail(writes), w)
           /\ \A y : y # w => (Contains(Tail(writes), y) <=> Contains(writes, y))
BY QueueTail DEF TypeOK, HeadIs

(* The operation queues for the file, once.                                *)
LEMMA OpQueues ==
    ASSUME NEW s \in Seq(Updater \cup {"op"}), IsInjective(s),
           ~Contains(s, "op")
    PROVE  /\ Append(s, "op") \in Seq(Updater \cup {"op"})
           /\ IsInjective(Append(s, "op"))
           /\ Contains(Append(s, "op"), "op")
BY QueueAppend

-----------------------------------------------------------------------------
(* Each step keeps the types and one saver per waiting task.               *)

LEMMA RefreshKeepsTypes ==
    ASSUME TypeOK, NEW u \in Updater,
           UpdaterSaves(u) \/ UpdaterLands(u) \/ UpdaterFails(u)
    PROVE  TypeOK'
<1>1. u # "op"
  BY ConstantsAssumption
<1>2. CASE UpdaterSaves(u)
  <2>1. /\ mem' = mem /\ disk' = disk /\ dirty' = dirty /\ left' = left
        /\ image' = image /\ op' = op /\ exposed' = exposed /\ spent' = spent
    BY <1>2 DEF UpdaterSaves
  <2>2. data' \in File
    BY <1>2, SnapshotFields DEF UpdaterSaves, Save, TypeOK
  <2>3. /\ writes' \in Seq(Updater \cup {"op"}) /\ IsInjective(writes')
        /\ Contains(writes', "op") <=> Contains(writes, "op")
    BY <1>1, <1>2, QueueAppend DEF UpdaterSaves, Save, TypeOK
  <2> QED
    BY <2>1, <2>2, <2>3 DEF TypeOK
<1>3. CASE UpdaterLands(u) \/ UpdaterFails(u)
  <2>1. /\ mem' = mem /\ data' = data /\ left' = left /\ op' = op
        /\ exposed' = exposed /\ spent' = spent /\ dirty' \in BOOLEAN
        /\ image' = NoImage /\ disk' \in {disk, image}
        /\ writes' = Tail(writes) /\ HeadIs(u)
    BY <1>3 DEF UpdaterLands, UpdaterFails, Written, Raised
  <2>2. /\ image \in File /\ Tail(writes) \in Seq(Updater \cup {"op"})
        /\ IsInjective(Tail(writes))
        /\ Contains(Tail(writes), "op") <=> Contains(writes, "op")
    BY <1>1, <2>1, HeadLeaves
  <2> QED
    BY <2>1, <2>2 DEF TypeOK
<1> QED
  BY <1>2, <1>3

(* An operation starts: nobody waits on its behalf yet.                    *)
LEMMA StartKeepsTypes ==
    ASSUME TypeOK, NEW d \in Device,
           \/ \E lane \in Lane : Begin(lane, d)
           \/ Accept(d) \/ ClearQuarantine(d) \/ CancelRestore(d)
    PROVE  TypeOK'
<1>1. op = Idle /\ ~Contains(writes, "op")
  <2>1. op = Idle
    BY DEF Begin, Accept, ClearQuarantine, CancelRestore
  <2> QED
    BY <2>1, IdleIsOperation DEF TypeOK, Waiting
<1>2. /\ mem \in Memory /\ data \in File
      /\ writes \in Seq(Updater \cup {"op"}) /\ IsInjective(writes)
  BY DEF TypeOK
<1>3. /\ Append(writes, "op") \in Seq(Updater \cup {"op"})
      /\ IsInjective(Append(writes, "op"))
      /\ Contains(Append(writes, "op"), "op")
  BY <1>1, <1>2, OpQueues
<1>4. ASSUME NEW lane \in Lane, Begin(lane, d)
      PROVE  TypeOK'
  <2>1. /\ op' = [pc |-> "prepared", lane |-> lane, dev |-> {d}]
        /\ dirty' = TRUE /\ mem' = mem /\ disk' = disk /\ left' = left
        /\ image' = image /\ exposed' = exposed /\ spent' = spent
        /\ data' = Snapshot(mem, Recorded(data, {d}, "prepared"))
        /\ writes' = Append(writes, "op")
    BY <1>4 DEF Begin, Save
  <2>2. "prepared" \in Phase
    BY DEF Phase, Unresolved
  <2>3. data' \in File
    <3>1. data \in File /\ {d} \in SUBSET Device
      BY <1>2
    <3>2. Recorded(data, {d}, "prepared") \in File
      BY <2>2, <3>1, RecordedFields
    <3> QED
      BY <1>2, <2>1, <3>2, SnapshotFields
  <2>4. op' \in Operation /\ op'.pc \in Waiting
    BY <2>1 DEF Operation, Waiting
  <2> QED
    BY <1>3, <2>1, <2>3, <2>4 DEF TypeOK
<1>5. CASE Accept(d)
  <2>1. /\ op' = [pc |-> "reporting", lane |-> "accept", dev |-> {d}]
        /\ "accept" \in Lane /\ dirty' = TRUE
        /\ mem' = [mem EXCEPT !.ticket = @ \ {d}]
        /\ UNCHANGED <<data, disk, left, writes, image, exposed, spent>>
    BY <1>5 DEF Accept
  <2>2. mem' \in Memory
    BY <1>2, <2>1 DEF Memory
  <2>3. op' \in Operation /\ op'.pc \notin Waiting
    BY <2>1 DEF Operation, Waiting
  <2> QED
    BY <1>1, <2>1, <2>2, <2>3 DEF TypeOK
<1>6. CASE ClearQuarantine(d) \/ CancelRestore(d)
  <2>1. /\ mem' \in Memory
        /\ op'.pc = "direct" /\ op' \in Operation
        /\ dirty' = TRUE
        /\ data' = Snapshot(mem', data) /\ writes' = Append(writes, "op")
        /\ disk' = disk /\ left' = left /\ image' = image
        /\ exposed' \subseteq exposed /\ spent' \subseteq spent
    BY <1>2, <1>6
    DEF ClearQuarantine, CancelRestore, Save, Memory, Operation, Waiting
  <2>2. data' \in File
    BY <1>2, <2>1, SnapshotFields
  <2> QED
    BY <1>3, <2>1, <2>2 DEF TypeOK, Waiting
<1> QED
  BY <1>4, <1>5, <1>6

(* What complete() and _storage_failure make of memory.                    *)
LEMMA CompletedFields ==
    ASSUME TypeOK, NEW result \in Results
    PROVE  /\ Completed(result) \in Memory
           /\ Completed(result).quarantined =
                IF result = "failed" THEN mem.quarantined \cup op.dev
                ELSE mem.quarantined
           /\ Completed(result).ticket =
                IF result # "confirmed" THEN mem.ticket
                ELSE IF op.lane = "stop" THEN mem.ticket \cup op.dev
                ELSE IF op.lane = "restore" THEN mem.ticket \ op.dev
                ELSE mem.ticket
<1>1. mem \in Memory /\ op.dev \subseteq Device
  BY DEF TypeOK, Operation
<1>2. CASE result = "failed"
  BY <1>1, <1>2 DEF Completed, Memory
<1>3. CASE result = "rejected"
  BY <1>1, <1>3 DEF Completed, Memory
<1>4. CASE result = "confirmed"
  BY <1>1, <1>4 DEF Completed, Memory
<1> QED
  BY <1>2, <1>3, <1>4 DEF Results

LEMMA AbandonedFields ==
    ASSUME TypeOK
    PROVE  /\ Abandoned \in Memory
           /\ Abandoned.quarantined = mem.quarantined \cup op.dev
           /\ Abandoned.ticket = mem.ticket \ op.dev
BY DEF Abandoned, TypeOK, Memory, Operation

(* Trailing ends the operation or queues its last save.                    *)
LEMMA TrailingKeepsTypes ==
    ASSUME TypeOK, NEW rest \in Seq(Updater \cup {"op"}), IsInjective(rest),
           ~Contains(rest, "op"), NEW unsaved \in BOOLEAN,
           Trailing(unsaved), TrailingWrites(rest, unsaved)
    PROVE  /\ data' \in File /\ op' \in Operation
           /\ writes' \in Seq(Updater \cup {"op"}) /\ IsInjective(writes')
           /\ op'.pc \in Waiting <=> Contains(writes', "op")
<1>1. mem \in Memory /\ data \in File /\ op \in Operation
  BY DEF TypeOK
<1>2. CASE unsaved \/ left # {}
  <2>1. /\ op' = [op EXCEPT !.pc = "final"] /\ data' = Snapshot(mem, data)
        /\ writes' = Append(rest, "op")
    BY <1>2 DEF Trailing, TrailingWrites
  <2>2. op' \in Operation /\ op'.pc = "final"
    BY <1>1, <2>1, OpMoves DEF Waiting
  <2>3. data' \in File
    BY <1>1, <2>1, SnapshotFields
  <2>4. /\ writes' \in Seq(Updater \cup {"op"}) /\ IsInjective(writes')
        /\ Contains(writes', "op")
    BY <2>1, OpQueues
  <2> QED
    BY <2>2, <2>3, <2>4 DEF Waiting
<1>3. CASE ~(unsaved \/ left # {})
  <2>1. op' = Idle /\ data' = data /\ writes' = rest
    BY <1>3 DEF Trailing, TrailingWrites
  <2> QED
    BY <1>1, <2>1, IdleIsOperation DEF Waiting
<1> QED
  BY <1>2, <1>3

LEMMA CommandKeepsTypes ==
    ASSUME TypeOK, Command \/ \E r \in Results : CommandEnds(r)
    PROVE  TypeOK'
<1>1. /\ mem \in Memory /\ data \in File /\ op \in Operation
      /\ op.dev \subseteq Device /\ op.pc \notin Waiting
      /\ ~Contains(writes, "op")
  BY DEF TypeOK, Operation, Waiting, Command, CommandEnds
<1>2. CASE Command
  <2>1. op' \in Operation /\ op'.pc \notin Waiting
    BY <1>1, <1>2, OpMoves DEF Command, Waiting
  <2>2. /\ exposed' \subseteq Device /\ spent' \subseteq Device
        /\ UNCHANGED <<mem, data, disk, dirty, left, writes, image>>
    BY <1>1, <1>2 DEF Command, TypeOK
  <2> QED
    BY <1>1, <2>1, <2>2 DEF TypeOK
<1>3. ASSUME NEW r \in Results, CommandEnds(r)
      PROVE  TypeOK'
  <2>1. op' \in Operation /\ op'.pc = "terminal"
    BY <1>1, <1>3, OpMoves DEF CommandEnds, Waiting
  <2>2. mem' \in Memory
    BY <1>3, CompletedFields DEF CommandEnds
  <2>3. "resolved" \in Phase
    BY DEF Phase
  <2>4. Recorded(data, op.dev, "resolved") \in File
    BY <1>1, <2>3, RecordedFields
  <2>5. data' \in File
    BY <1>3, <2>2, <2>4, SnapshotFields DEF CommandEnds, Save
  <2>6. /\ writes' \in Seq(Updater \cup {"op"}) /\ IsInjective(writes')
        /\ Contains(writes', "op")
    BY <1>1, <1>3, OpQueues DEF CommandEnds, Save, TypeOK
  <2>7. /\ exposed' \subseteq Device /\ spent' \subseteq Device
        /\ dirty' = TRUE /\ UNCHANGED <<disk, left, image>>
    BY <1>3 DEF CommandEnds, TypeOK
  <2> QED
    BY <2>1, <2>2, <2>5, <2>6, <2>7 DEF TypeOK, Waiting
<1> QED
  BY <1>2, <1>3

LEMMA LandingKeepsTypes ==
    ASSUME TypeOK, OpLands
    PROVE  TypeOK'
<1>1. /\ mem \in Memory /\ data \in File /\ op \in Operation
      /\ op.dev \subseteq Device /\ HeadIs("op") /\ disk' = image
      /\ image' = NoImage
      /\ mem' = mem /\ left' = left /\ exposed' = exposed /\ spent' = spent
  BY DEF TypeOK, Operation, OpLands, PreparedLands, DispatchedLands,
         TerminalLands, FinalLands, DirectLands, Written
<1>2. /\ disk' \in File
      /\ Tail(writes) \in Seq(Updater \cup {"op"})
      /\ IsInjective(Tail(writes)) /\ ~Contains(Tail(writes), "op")
  BY <1>1, HeadLeaves
<1>3. CASE PreparedLands
  <2>1. op' \in Operation /\ op'.pc = "dispatched"
    BY <1>1, <1>3, OpMoves DEF PreparedLands, Waiting
  <2>2. "dispatched" \in Phase
    BY DEF Phase, Unresolved
  <2>3. Recorded(data, op.dev, "dispatched") \in File
    BY <1>1, <2>2, RecordedFields
  <2>4. data' \in File
    BY <1>1, <1>3, <2>3, SnapshotFields DEF PreparedLands
  <2>5. /\ writes' \in Seq(Updater \cup {"op"}) /\ IsInjective(writes')
        /\ Contains(writes', "op") /\ dirty' = TRUE
    BY <1>2, <1>3, OpQueues DEF PreparedLands
  <2> QED
    BY <1>1, <1>2, <2>1, <2>4, <2>5 DEF TypeOK, Waiting
<1>4. CASE DispatchedLands
  <2>1. op' \in Operation /\ op'.pc = "commanding"
    BY <1>1, <1>4, OpMoves DEF DispatchedLands
  <2>2. writes' = Tail(writes) /\ data' = data /\ dirty' = FALSE
    BY <1>4 DEF DispatchedLands
  <2> QED
    BY <1>1, <1>2, <2>1, <2>2 DEF TypeOK, Waiting
<1>5. CASE TerminalLands
  <2>1. CASE Notifies
    <3>1. op' \in Operation /\ op'.pc = "reporting"
      BY <1>1, <1>5, <2>1, OpMoves DEF TerminalLands
    <3>2. writes' = Tail(writes) /\ data' = data /\ dirty' \in BOOLEAN
      BY <1>5, <2>1 DEF TerminalLands
    <3> QED
      BY <1>1, <1>2, <3>1, <3>2 DEF TypeOK, Waiting
  <2>2. CASE ~Notifies
    <3>1. /\ dirty' \in BOOLEAN /\ Trailing(dirty')
          /\ TrailingWrites(Tail(writes), dirty')
      BY <1>5, <2>2 DEF TerminalLands
    <3> DEFINE unsaved == dirty'
    <3>2. unsaved \in BOOLEAN /\ Trailing(unsaved)
          /\ TrailingWrites(Tail(writes), unsaved)
      BY <3>1
    <3>3. /\ data' \in File /\ op' \in Operation
          /\ writes' \in Seq(Updater \cup {"op"}) /\ IsInjective(writes')
          /\ op'.pc \in Waiting <=> Contains(writes', "op")
      <4> HIDE DEF unsaved
      <4> QED
        BY <1>2, <3>2, TrailingKeepsTypes
    <3> QED
      BY <1>1, <1>2, <3>1, <3>3 DEF TypeOK
  <2> QED
    BY <2>1, <2>2
<1>6. CASE FinalLands \/ DirectLands
  <2>1. /\ op' = Idle /\ writes' = Tail(writes) /\ data' = data
        /\ dirty' \in {dirty, FALSE}
    BY <1>6 DEF FinalLands, DirectLands
  <2> QED
    BY <1>1, <1>2, <2>1, IdleIsOperation DEF TypeOK, Waiting
<1> QED
  BY <1>3, <1>4, <1>5, <1>6 DEF OpLands

LEMMA FailingKeepsTypes ==
    ASSUME TypeOK, OpFails
    PROVE  TypeOK'
<1>1. /\ mem \in Memory /\ data \in File /\ op \in Operation
      /\ op.dev \subseteq Device /\ HeadIs("op") /\ disk' = disk
      /\ image' = NoImage /\ dirty' \in BOOLEAN
      /\ left' = left /\ exposed' = exposed /\ spent' = spent
  BY DEF TypeOK, Operation, OpFails, SaveFails, FinalFails, DirectFails, Raised
<1>2. /\ Tail(writes) \in Seq(Updater \cup {"op"})
      /\ IsInjective(Tail(writes)) /\ ~Contains(Tail(writes), "op")
  BY <1>1, HeadLeaves
<1>3. CASE SaveFails
  <2>1. mem' \in Memory /\ mem' = Abandoned
    BY <1>3, AbandonedFields DEF SaveFails
  <2>2. "unsaved" \in Phase
    BY DEF Phase
  <2>3. Recorded(data, op.dev, "unsaved") \in File
    <3>1. data \in File /\ op.dev \in SUBSET Device
      BY <1>1
    <3> QED
      BY <2>2, <3>1, RecordedFields
  <2>4. CASE Notifies
    <3>1. op' \in Operation /\ op'.pc = "reporting"
      BY <1>1, <1>3, <2>4, OpMoves DEF SaveFails
    <3>2. writes' = Tail(writes) /\ data' \in File
      BY <1>3, <2>3, <2>4 DEF SaveFails
    <3> QED
      BY <1>1, <1>2, <2>1, <3>1, <3>2 DEF TypeOK, Waiting
  <2>5. CASE ~Notifies
    <3>1. op' \in Operation /\ op'.pc = "final"
      BY <1>1, <1>3, <2>5, OpMoves DEF SaveFails, Waiting
    <3>2. data' = Snapshot(mem', Recorded(data, op.dev, "unsaved"))
      BY <1>3, <2>1, <2>5 DEF SaveFails
    <3>3. data' \in File
      BY <2>1, <2>3, <3>2, SnapshotFields
    <3>4. /\ writes' \in Seq(Updater \cup {"op"}) /\ IsInjective(writes')
          /\ Contains(writes', "op")
      BY <1>2, <1>3, <2>5, OpQueues DEF SaveFails
    <3> QED
      BY <1>1, <2>1, <3>1, <3>3, <3>4 DEF TypeOK, Waiting
  <2> QED
    BY <2>4, <2>5
<1>4. CASE FinalFails \/ DirectFails
  <2>1. op' = Idle /\ writes' = Tail(writes) /\ data' = data
    BY <1>4 DEF FinalFails, DirectFails
  <2>2. mem' \in Memory
    BY <1>1, <1>4 DEF FinalFails, DirectFails, Memory
  <2> QED
    BY <1>1, <1>2, <2>1, <2>2, IdleIsOperation DEF TypeOK, Waiting
<1> QED
  BY <1>3, <1>4 DEF OpFails

LEMMA RestartKeepsTypes ==
    ASSUME TypeOK, Restart
    PROVE  TypeOK'
<1>1. left' \subseteq Device
  BY DEF Restart, UnresolvedIn, TypeOK
<1>2. mem' \in Memory
  BY <1>1 DEF Restart, TypeOK, Memory, File
<1>3. [disk EXCEPT !.phase = [d \in Device |-> "resolved"]] \in File
  BY DEF TypeOK, File, Phase
<1>4. data' \in File
  BY <1>2, <1>3, SnapshotFields DEF Restart
<1>5. disk' \in File
  BY <1>4 DEF Restart, TypeOK, File
<1>6. ~Contains(<<>>, "op") /\ IsInjective(<<>>)
      /\ <<>> \in Seq(Updater \cup {"op"})
  BY DEF Contains, IsInjective
<1> QED
  BY <1>1, <1>2, <1>4, <1>5, <1>6, IdleIsOperation
  DEF Restart, TypeOK, Waiting

LEMMA TypesKept == TypeOK /\ [Next]_vars => TypeOK'
<1> SUFFICES ASSUME TypeOK, [Next]_vars PROVE TypeOK'
  OBVIOUS
<1>1. CASE UNCHANGED vars
  BY <1>1 DEF vars, TypeOK
<1>2. CASE WriteStarts
  BY <1>2 DEF WriteStarts, TypeOK
<1>3. CASE ReportEnds
  <2>1. /\ dirty \in BOOLEAN /\ writes \in Seq(Updater \cup {"op"})
        /\ IsInjective(writes) /\ ~Contains(writes, "op")
    BY <1>3 DEF ReportEnds, TypeOK, Waiting
  <2>2. /\ data' \in File /\ op' \in Operation
        /\ writes' \in Seq(Updater \cup {"op"}) /\ IsInjective(writes')
        /\ op'.pc \in Waiting <=> Contains(writes', "op")
    BY <1>3, <2>1, TrailingKeepsTypes DEF ReportEnds
  <2> QED
    BY <1>3, <2>2 DEF ReportEnds, TypeOK
<1> QED
  BY <1>1, <1>2, <1>3, RefreshKeepsTypes, StartKeepsTypes, CommandKeepsTypes,
     LandingKeepsTypes, FailingKeepsTypes, RestartKeepsTypes DEF Next

LEMMA InitIsTyped == Init => TypeOK
<1> SUFFICES ASSUME Init PROVE TypeOK
  OBVIOUS
<1>1. mem \in Memory /\ data \in File /\ disk \in File
  BY DEF Init, Memory, File, Phase
<1>2. ~Contains(<<>>, "op") /\ IsInjective(<<>>)
      /\ <<>> \in Seq(Updater \cup {"op"})
  BY DEF Contains, IsInjective
<1> QED
  BY <1>1, <1>2, IdleIsOperation DEF Init, TypeOK, Waiting

-----------------------------------------------------------------------------
(* Each step keeps what the file owes.                                     *)

(* Only the operation itself changes the phase of its load, and a write    *)
(* that began before the second record had ended before it.                *)
LEMMA IntentKept ==
    ASSUME TypeOK, IntentIsKept, [Next]_vars
    PROVE  IntentIsKept'
<1> SUFFICES ASSUME op'.pc \in {"dispatched", "commanding", "calling"}
             PROVE  /\ Dispatched(data)'
                    /\ image' # NoImage => Dispatched(image)'
                    /\ op'.pc # "dispatched" => Dispatched(disk)'
  BY DEF IntentIsKept
<1>1. /\ mem \in Memory /\ data \in File /\ op \in Operation
      /\ op.dev \subseteq Device /\ Idle.pc = "idle"
  BY IdleIsOperation DEF TypeOK, Operation
<1>2. CASE UNCHANGED vars
  BY <1>2 DEF vars, IntentIsKept, Dispatched
<1>3. CASE WriteStarts
  BY <1>3 DEF WriteStarts, IntentIsKept, Dispatched
<1>4. ASSUME NEW u \in Updater, UpdaterSaves(u)
      PROVE  IntentIsKept'
  <2>1. data'.phase = data.phase
    BY <1>1, <1>4, SnapshotFields DEF UpdaterSaves, Save
  <2> QED
    BY <1>4, <2>1 DEF UpdaterSaves, IntentIsKept, Dispatched
<1>5. ASSUME NEW u \in Updater, UpdaterLands(u) \/ UpdaterFails(u)
      PROVE  IntentIsKept'
  BY <1>5
  DEF UpdaterLands, UpdaterFails, HeadIs, Written, Raised, IntentIsKept,
      Dispatched
<1>6. CASE \E d \in Device : \/ \E lane \in Lane : Begin(lane, d)
                             \/ Accept(d) \/ ClearQuarantine(d)
                             \/ CancelRestore(d)
  BY <1>6 DEF Begin, Accept, ClearQuarantine, CancelRestore
<1>7. CASE PreparedLands
  <2>1. op'.pc = "dispatched" /\ op'.dev = op.dev
    BY <1>1, <1>7, OpMoves DEF PreparedLands, Waiting
  <2>2. "dispatched" \in Phase
    BY DEF Phase, Unresolved
  <2> DEFINE r == Recorded(data, op.dev, "dispatched")
  <2>3. r \in File /\ \A d \in op.dev : r.phase[d] = "dispatched"
    BY <1>1, <2>2, RecordedFields
  <2>4. data' = Snapshot(mem, r)
    BY <1>7 DEF PreparedLands
  <2>5. data'.phase = r.phase
    <3> HIDE DEF r
    <3> QED
      BY <1>1, <2>3, <2>4, SnapshotFields
  <2>6. Dispatched(data)'
    <3> HIDE DEF r
    <3> QED
      BY <2>1, <2>3, <2>5 DEF Dispatched
  <2> QED
    BY <1>7, <2>1, <2>6 DEF PreparedLands, Written
<1>8. CASE DispatchedLands
  <2>1. op'.dev = op.dev
    BY <1>1, <1>8, OpMoves DEF DispatchedLands
  <2> QED
    BY <1>8, <2>1
    DEF DispatchedLands, HeadIs, Written, IntentIsKept, Dispatched
<1>9. CASE Command
  <2>1. op'.dev = op.dev
    BY <1>1, <1>9, OpMoves DEF Command
  <2> QED
    BY <1>9, <2>1 DEF Command, IntentIsKept, Dispatched
<1>10. CASE \E r \in Results : CommandEnds(r)
  <2>1. op'.pc = "terminal"
    BY <1>1, <1>10, OpMoves DEF CommandEnds, Waiting
  <2> QED
    BY <2>1
<1>11. CASE TerminalLands \/ SaveFails \/ ReportEnds
  <2>1. \/ op' = [op EXCEPT !.pc = "reporting"]
        \/ op' = [op EXCEPT !.pc = "final"] \/ op' = Idle
    BY <1>11 DEF TerminalLands, SaveFails, ReportEnds, Trailing
  <2>2. op'.pc \in {"reporting", "final", "idle"}
    BY <1>1, <2>1, OpMoves DEF Waiting
  <2> QED
    BY <2>2
<1>12. CASE FinalLands \/ DirectLands \/ FinalFails \/ DirectFails \/ Restart
  BY <1>1, <1>12
  DEF FinalLands, DirectLands, FinalFails, DirectFails, Restart
<1> QED
  BY <1>2, <1>3, <1>4, <1>5, <1>6, <1>7, <1>8, <1>9, <1>10, <1>11, <1>12
  DEF Next, OpLands, OpFails, IntentIsKept

(* How most steps touch memory, the dict, the write and the file: nothing  *)
(* is unblocked, no ticket appears, and contents move on from the dict to  *)
(* the write and from the write to the file.                               *)
Narrows ==
    /\ UNCHANGED <<left, exposed, spent>>
    /\ mem.quarantined \subseteq mem'.quarantined
    /\ mem'.ticket \subseteq mem.ticket
    /\ data'.quarantined \in {data.quarantined, mem'.quarantined}
    /\ data'.ticket \in {data.ticket, mem'.ticket}

MovesOn ==
    \/ disk' = disk /\ image' \in {image, NoImage}
    \/ disk' = disk /\ image' = data
    \/ image # NoImage /\ disk' = image /\ image' = NoImage

LEMMA NarrowingKeeps ==
    ASSUME IInv, Narrows, MovesOn, op.pc # "calling" \/ op' = op
    PROVE  AmbiguityIsKept' /\ SpentIsKept'
<1>1. ASSUME NEW d, Quarantined(d)
      PROVE  Quarantined(d)'
  BY <1>1 DEF Quarantined, Narrows
<1>2. \A file, d : Blocks(file, d) <=> \/ d \in file.quarantined \cup left
                                       \/ file.phase[d] \in Unresolved
  BY DEF Blocks
<1>3. /\ left' = left
      /\ \A d : Blocks(disk, d)' <=> \/ d \in disk'.quarantined \cup left
                                     \/ disk'.phase[d] \in Unresolved
      /\ \A d : Blocks(image, d)' <=> \/ d \in image'.quarantined \cup left
                                      \/ image'.phase[d] \in Unresolved
  BY DEF Blocks, Narrows
<1>4. ASSUME NEW d \in op.dev, op.pc = "calling"
      PROVE  Blocks(data, d)
  BY <1>4 DEF IInv, IntentIsKept, Dispatched, Blocks, Unresolved
<1>5. ASSUME NEW d \in exposed
      PROVE  /\ Quarantined(d)' \/ (op'.pc = "calling" /\ d \in op'.dev)
             /\ Blocks(disk, d)'
             /\ image' # NoImage => Blocks(image, d)'
  <2>1. /\ Quarantined(d) \/ (op.pc = "calling" /\ d \in op.dev)
        /\ Blocks(disk, d) /\ (image # NoImage => Blocks(image, d))
    BY <1>5 DEF IInv, AmbiguityIsKept
  <2>2. Blocks(data, d)
    BY <1>4, <2>1 DEF Quarantined, Blocks
  <2> QED
    BY <1>1, <1>2, <1>3, <2>1, <2>2 DEF MovesOn
<1>6. ASSUME NEW d \in spent
      PROVE  /\ \/ Quarantined(d)'
                \/ d \notin mem'.ticket /\ d \notin data'.ticket
                \/ op'.pc = "calling" /\ op'.lane = "restore" /\ d \in op'.dev
             /\ d \in disk'.ticket => Blocks(disk, d)'
             /\ image' # NoImage /\ d \in image'.ticket => Blocks(image, d)'
  <2>1. /\ \/ Quarantined(d)
           \/ d \notin mem.ticket /\ d \notin data.ticket
           \/ op.pc = "calling" /\ op.lane = "restore" /\ d \in op.dev
        /\ d \in disk.ticket => Blocks(disk, d)
        /\ image # NoImage /\ d \in image.ticket => Blocks(image, d)
    BY <1>6 DEF IInv, SpentIsKept
  <2>2. d \in data.ticket => Blocks(data, d)
    BY <1>4, <2>1 DEF Quarantined, Blocks
  <2>3. d \notin mem.ticket /\ d \notin data.ticket =>
          d \notin mem'.ticket /\ d \notin data'.ticket
    BY DEF Narrows
  <2>4. /\ d \in disk'.ticket => Blocks(disk, d)'
        /\ image' # NoImage /\ d \in image'.ticket => Blocks(image, d)'
    BY <1>2, <1>3, <2>1, <2>2 DEF MovesOn
  <2> QED
    BY <1>1, <2>1, <2>3, <2>4
<1> QED
  BY <1>5, <1>6 DEF AmbiguityIsKept, SpentIsKept, Narrows

(* The steps that narrow.                                                  *)
LEMMA RefreshNarrows ==
    ASSUME TypeOK, NEW u \in Updater,
           UpdaterSaves(u) \/ UpdaterLands(u) \/ UpdaterFails(u)
    PROVE  Narrows /\ MovesOn /\ op' = op
<1>1. CASE UpdaterSaves(u)
  <2>1. /\ data'.ticket = mem.ticket /\ data'.quarantined = mem.quarantined
    BY <1>1, SnapshotFields DEF UpdaterSaves, Save, TypeOK
  <2> QED
    BY <1>1, <2>1 DEF UpdaterSaves, Narrows, MovesOn
<1>2. CASE UpdaterLands(u) \/ UpdaterFails(u)
  BY <1>2
  DEF UpdaterLands, UpdaterFails, HeadIs, Written, Raised, Narrows, MovesOn
<1> QED
  BY <1>1, <1>2

LEMMA StartNarrows ==
    ASSUME TypeOK, NEW d \in Device,
           (\E lane \in Lane : Begin(lane, d)) \/ Accept(d) \/ CancelRestore(d)
    PROVE  Narrows /\ MovesOn /\ op.pc = "idle"
<1>1. mem \in Memory /\ data \in File /\ op.pc = "idle"
  BY IdleIsOperation DEF TypeOK, Begin, Accept, CancelRestore
<1>2. ASSUME NEW lane \in Lane, Begin(lane, d)
      PROVE  Narrows /\ MovesOn
  <2>1. Recorded(data, {d}, "prepared") \in File
    BY <1>1, RecordedFields DEF Phase, Unresolved
  <2>2. /\ data'.ticket = mem.ticket /\ data'.quarantined = mem.quarantined
    BY <1>1, <1>2, <2>1, SnapshotFields DEF Begin, Save
  <2> QED
    BY <1>2, <2>2 DEF Begin, Narrows, MovesOn
<1>3. CASE Accept(d)
  BY <1>1, <1>3 DEF Accept, Narrows, MovesOn, Memory
<1>4. CASE CancelRestore(d)
  <2>1. /\ mem' \in Memory /\ mem'.ticket = mem.ticket \ {d}
        /\ mem'.quarantined = mem.quarantined
    BY <1>1, <1>4 DEF CancelRestore, Memory
  <2>2. data'.ticket = mem'.ticket /\ data'.quarantined = mem'.quarantined
    BY <1>1, <1>4, <2>1, SnapshotFields DEF CancelRestore, Save
  <2>3. /\ disk' = disk /\ image' = image
        /\ UNCHANGED <<left, exposed, spent>>
    BY <1>4 DEF CancelRestore
  <2> QED
    BY <1>1, <2>1, <2>2, <2>3 DEF Narrows, MovesOn
<1> QED
  BY <1>1, <1>2, <1>3, <1>4

LEMMA TrailingFields ==
    ASSUME TypeOK, NEW unsaved, Trailing(unsaved)
    PROVE  /\ data'.ticket \in {data.ticket, mem.ticket}
           /\ data'.quarantined \in {data.quarantined, mem.quarantined}
BY SnapshotFields DEF Trailing, TypeOK

LEMMA LandingNarrows ==
    ASSUME TypeOK, OpLands
    PROVE  Narrows /\ MovesOn /\ op.pc # "calling"
<1>1. /\ mem \in Memory /\ data \in File /\ op.dev \subseteq Device
      /\ mem' = mem /\ left' = left /\ exposed' = exposed /\ spent' = spent
      /\ MovesOn /\ op.pc # "calling"
  BY DEF TypeOK, Operation, OpLands, PreparedLands, DispatchedLands,
         TerminalLands, FinalLands, DirectLands, HeadIs, Written, MovesOn
<1>2. CASE PreparedLands
  <2>1. Recorded(data, op.dev, "dispatched") \in File
    BY <1>1, RecordedFields DEF Phase, Unresolved
  <2>2. data'.ticket = mem.ticket /\ data'.quarantined = mem.quarantined
    BY <1>1, <1>2, <2>1, SnapshotFields DEF PreparedLands
  <2> QED
    BY <1>1, <2>2 DEF Narrows
<1>3. CASE TerminalLands
  <2>1. /\ data'.ticket \in {data.ticket, mem.ticket}
        /\ data'.quarantined \in {data.quarantined, mem.quarantined}
    BY <1>3, TrailingFields DEF TerminalLands
  <2> QED
    BY <1>1, <2>1 DEF Narrows
<1>4. CASE DispatchedLands \/ FinalLands \/ DirectLands
  BY <1>1, <1>4 DEF DispatchedLands, FinalLands, DirectLands, Narrows
<1> QED
  BY <1>2, <1>3, <1>4 DEF OpLands

LEMMA FailingNarrows ==
    ASSUME TypeOK, OpFails
    PROVE  Narrows /\ MovesOn /\ op.pc # "calling"
<1>1. /\ mem \in Memory /\ data \in File /\ op.dev \subseteq Device
      /\ left' = left /\ exposed' = exposed /\ spent' = spent
      /\ MovesOn /\ op.pc # "calling"
  BY DEF TypeOK, Operation, OpFails, SaveFails, FinalFails, DirectFails,
         Raised, MovesOn
<1>2. CASE SaveFails
  <2>1. /\ mem' = Abandoned /\ mem' \in Memory
        /\ mem'.quarantined = mem.quarantined \cup op.dev
        /\ mem'.ticket = mem.ticket \ op.dev
    BY <1>2, AbandonedFields DEF SaveFails
  <2> DEFINE r == Recorded(data, op.dev, "unsaved")
  <2>2. /\ r \in File /\ r.ticket = data.ticket
        /\ r.quarantined = data.quarantined
    <3>1. "unsaved" \in Phase
      BY DEF Phase
    <3> QED
      BY <1>1, <3>1, RecordedFields
  <2>3. data' = r \/ data' = Snapshot(mem', r)
    BY <1>2, <2>1 DEF SaveFails
  <2>4. /\ data'.ticket \in {data.ticket, mem'.ticket}
        /\ data'.quarantined \in {data.quarantined, mem'.quarantined}
    <3> HIDE DEF r
    <3> QED
      BY <2>1, <2>2, <2>3, SnapshotFields
  <2> QED
    BY <1>1, <2>1, <2>4 DEF Narrows
<1>3. CASE FinalFails \/ DirectFails
  <2>1. /\ data' = data /\ mem'.ticket = mem.ticket
        /\ mem.quarantined \subseteq mem'.quarantined
    BY <1>1, <1>3 DEF FinalFails, DirectFails, Memory
  <2> QED
    BY <1>1, <2>1 DEF Narrows
<1> QED
  BY <1>2, <1>3 DEF OpFails

-----------------------------------------------------------------------------
(* The steps that issue a command, end it, or vouch for a load.            *)

(* The file has said "dispatched" since before the call.                   *)
LEMMA CommandKeeps ==
    ASSUME IInv, Command
    PROVE  AmbiguityIsKept' /\ SpentIsKept'
<1>1. /\ op.pc = "commanding" /\ op'.pc = "calling"
      /\ op'.dev = op.dev /\ op'.lane = op.lane
      /\ exposed' = exposed \cup op.dev
      /\ spent' \in {spent, spent \cup op.dev}
      /\ spent' # spent => op.lane = "restore"
      /\ UNCHANGED <<mem, data, disk, left, image>>
  BY OpMoves DEF Command, IInv, TypeOK
<1>2. \A d \in op.dev : /\ Blocks(disk, d)'
                        /\ image' # NoImage => Blocks(image, d)'
  BY <1>1 DEF IInv, IntentIsKept, Dispatched, Blocks, Unresolved
<1>3. \A d : /\ Quarantined(d)' <=> Quarantined(d)
             /\ Blocks(disk, d)' <=> Blocks(disk, d)
             /\ Blocks(image, d)' <=> Blocks(image, d)
  BY <1>1 DEF Quarantined, Blocks
<1>4. AmbiguityIsKept'
  <2> SUFFICES ASSUME NEW d \in exposed'
               PROVE  /\ Quarantined(d)' \/ (op'.pc = "calling" /\ d \in op'.dev)
                      /\ Blocks(disk, d)'
                      /\ image' # NoImage => Blocks(image, d)'
    BY DEF AmbiguityIsKept
  <2> QED
    BY <1>1, <1>2, <1>3 DEF IInv, AmbiguityIsKept
<1>5. SpentIsKept'
  <2> SUFFICES ASSUME NEW d \in spent'
               PROVE  /\ \/ Quarantined(d)'
                         \/ d \notin mem'.ticket /\ d \notin data'.ticket
                         \/ /\ op'.pc = "calling" /\ op'.lane = "restore"
                            /\ d \in op'.dev
                      /\ d \in disk'.ticket => Blocks(disk, d)'
                      /\ image' # NoImage /\ d \in image'.ticket =>
                           Blocks(image, d)'
    BY DEF SpentIsKept
  <2>1. CASE d \in spent
    BY <1>1, <1>3, <2>1 DEF IInv, SpentIsKept
  <2>2. CASE d \notin spent
    BY <1>1, <1>2, <2>2
  <2> QED
    BY <2>1, <2>2
<1> QED
  BY <1>4, <1>5

(* The outcome enters memory and the dict together; the file still has the *)
(* intent.                                                                 *)
LEMMA OutcomeKeeps ==
    ASSUME IInv, NEW r \in Results, CommandEnds(r)
    PROVE  AmbiguityIsKept' /\ SpentIsKept'
<1>1. /\ mem \in Memory /\ data \in File /\ op \in Operation
      /\ op.dev \subseteq Device
  BY DEF IInv, TypeOK, Operation
<1>2. /\ mem' = Completed(r) /\ mem' \in Memory
      /\ mem'.quarantined = IF r = "failed" THEN mem.quarantined \cup op.dev
                            ELSE mem.quarantined
      /\ mem'.ticket = IF r # "confirmed" THEN mem.ticket
                       ELSE IF op.lane = "stop" THEN mem.ticket \cup op.dev
                       ELSE IF op.lane = "restore" THEN mem.ticket \ op.dev
                       ELSE mem.ticket
  BY CompletedFields DEF CommandEnds, IInv
<1>3. data'.ticket = mem'.ticket /\ data'.quarantined = mem'.quarantined
  <2>1. Recorded(data, op.dev, "resolved") \in File
    BY <1>1, RecordedFields DEF Phase
  <2> QED
    BY <1>2, <2>1, SnapshotFields DEF CommandEnds, Save
<1>4. /\ disk' = disk /\ image' = image /\ left' = left
      /\ op.pc = (IF r = "rejected" THEN "commanding" ELSE "calling")
      /\ exposed' = IF r = "confirmed" THEN exposed \ op.dev ELSE exposed
      /\ spent' = IF r = "confirmed" /\ op.lane = "stop"
                  THEN spent \ op.dev ELSE spent
  BY DEF CommandEnds
<1>5. \A d : /\ Quarantined(d) => Quarantined(d)'
             /\ r = "failed" /\ d \in op.dev => Quarantined(d)'
             /\ Blocks(disk, d)' <=> Blocks(disk, d)
             /\ Blocks(image, d)' <=> Blocks(image, d)
  BY <1>2, <1>3, <1>4 DEF Quarantined, Blocks
<1>6. ASSUME NEW d \in exposed'
      PROVE  /\ Quarantined(d)' \/ (op'.pc = "calling" /\ d \in op'.dev)
             /\ Blocks(disk, d)'
             /\ image' # NoImage => Blocks(image, d)'
  <2>1. /\ d \in exposed /\ (r = "confirmed" => d \notin op.dev)
    BY <1>4, <1>6
  <2>2. /\ Quarantined(d) \/ (op.pc = "calling" /\ d \in op.dev)
        /\ Blocks(disk, d) /\ (image # NoImage => Blocks(image, d))
    BY <2>1 DEF IInv, AmbiguityIsKept
  <2> QED
    BY <1>4, <1>5, <2>1, <2>2 DEF Results
<1>7. ASSUME NEW d \in spent'
      PROVE  /\ \/ Quarantined(d)'
                \/ d \notin mem'.ticket /\ d \notin data'.ticket
                \/ op'.pc = "calling" /\ op'.lane = "restore" /\ d \in op'.dev
             /\ d \in disk'.ticket => Blocks(disk, d)'
             /\ image' # NoImage /\ d \in image'.ticket => Blocks(image, d)'
  <2>1. /\ d \in spent
        /\ r = "confirmed" /\ op.lane = "stop" => d \notin op.dev
    BY <1>4, <1>7
  <2>2. /\ \/ Quarantined(d)
           \/ d \notin mem.ticket /\ d \notin data.ticket
           \/ op.pc = "calling" /\ op.lane = "restore" /\ d \in op.dev
        /\ d \in disk.ticket => Blocks(disk, d)
        /\ image # NoImage /\ d \in image.ticket => Blocks(image, d)
    BY <2>1 DEF IInv, SpentIsKept
  <2>3. CASE Quarantined(d) \/ (r = "failed" /\ d \in op.dev)
    BY <1>4, <1>5, <2>2, <2>3
  <2>4. CASE d \notin mem.ticket
    BY <1>2, <1>3, <1>4, <1>5, <2>1, <2>2, <2>4
  <2>5. CASE /\ op.pc = "calling" /\ op.lane = "restore" /\ d \in op.dev
             /\ r # "failed"
    BY <1>2, <1>3, <1>4, <1>5, <2>2, <2>5 DEF Results
  <2> QED
    BY <2>2, <2>3, <2>4, <2>5
<1> QED
  BY <1>6, <1>7 DEF AmbiguityIsKept, SpentIsKept

(* Clearing settles what the load's commands left open, for it alone.      *)
LEMMA ClearKeeps ==
    ASSUME IInv, NEW c \in Device, ClearQuarantine(c)
    PROVE  AmbiguityIsKept' /\ SpentIsKept'
<1>1. /\ op.pc = "idle"
      /\ mem \in Memory /\ data \in File
  BY IdleIsOperation DEF ClearQuarantine, IInv, TypeOK
<1>2. /\ mem' \in Memory /\ mem'.ticket = mem.ticket
      /\ mem'.quarantined = mem.quarantined \ {c}
      /\ exposed' = exposed \ {c} /\ spent' = spent \ {c}
      /\ disk' = disk /\ left' = left /\ image' = image
  BY <1>1 DEF ClearQuarantine, Memory
<1>3. data'.ticket = mem'.ticket /\ data'.quarantined = mem'.quarantined
  BY <1>1, <1>2, SnapshotFields DEF ClearQuarantine, Save
<1>4. \A d : /\ Quarantined(d) /\ d # c => Quarantined(d)'
             /\ Blocks(disk, d)' <=> Blocks(disk, d)
             /\ Blocks(image, d)' <=> Blocks(image, d)
  BY <1>2, <1>3 DEF Quarantined, Blocks
<1>5. AmbiguityIsKept'
  BY <1>1, <1>2, <1>4 DEF IInv, AmbiguityIsKept
<1>6. SpentIsKept'
  BY <1>1, <1>2, <1>3, <1>4 DEF IInv, SpentIsKept
<1> QED
  BY <1>5, <1>6

(* A restart blocks whatever the file blocks.                              *)
LEMMA RestartKeeps ==
    ASSUME IInv, Restart
    PROVE  AmbiguityIsKept' /\ SpentIsKept'
<1>1. /\ disk \in File /\ exposed \subseteq Device /\ spent \subseteq Device
      /\ left' = left \cup UnresolvedIn(disk) /\ left \subseteq Device
      /\ mem' = [ticket |-> disk.ticket,
                 quarantined |-> disk.quarantined \cup left']
      /\ image' = NoImage /\ exposed' = exposed /\ spent' = spent
  BY DEF IInv, TypeOK, Restart
<1>2. mem' \in Memory
  BY <1>1 DEF Memory, File, UnresolvedIn
<1>3. /\ data'.ticket = disk.ticket
      /\ data'.quarantined = disk.quarantined \cup left'
  <2>1. [disk EXCEPT !.phase = [d \in Device |-> "resolved"]] \in File
    BY <1>1 DEF File, Phase
  <2>2. data' = Snapshot(mem', [disk EXCEPT !.phase =
                                   [d \in Device |-> "resolved"]])
    BY DEF Restart
  <2>3. /\ data'.ticket = mem'.ticket
        /\ data'.quarantined = mem'.quarantined
    BY <1>2, <2>1, <2>2, SnapshotFields
  <2> QED
    BY <1>1, <2>3
<1>4. /\ disk'.ticket = disk.ticket
      /\ disk'.quarantined \in {disk.quarantined, disk.quarantined \cup left'}
  BY <1>1, <1>3 DEF Restart, File
<1>5. ASSUME NEW d \in Device, Blocks(disk, d)
      PROVE  Quarantined(d)' /\ Blocks(disk, d)'
  <2>1. d \in disk.quarantined \cup left'
    BY <1>1, <1>5 DEF Blocks, UnresolvedIn
  <2> QED
    BY <1>1, <1>3, <1>4, <2>1 DEF Quarantined, Blocks
<1>6. AmbiguityIsKept'
  BY <1>1, <1>5 DEF IInv, AmbiguityIsKept
<1>7. SpentIsKept'
  <2> SUFFICES ASSUME NEW d \in spent
               PROVE  /\ \/ Quarantined(d)'
                         \/ d \notin mem'.ticket /\ d \notin data'.ticket
                      /\ d \in disk'.ticket => Blocks(disk, d)'
    BY <1>1 DEF SpentIsKept
  <2>1. d \in disk.ticket => Blocks(disk, d)
    BY DEF IInv, SpentIsKept
  <2> QED
    BY <1>1, <1>3, <1>4, <1>5, <2>1
<1> QED
  BY <1>6, <1>7

-----------------------------------------------------------------------------
LEMMA NextHolds == IInv /\ [Next]_vars => IInv'
<1> SUFFICES ASSUME IInv, [Next]_vars PROVE IInv'
  OBVIOUS
<1>1. TypeOK' /\ IntentIsKept'
  BY TypesKept, IntentKept DEF IInv
<1>2. TypeOK
  BY DEF IInv
<1>3. AmbiguityIsKept' /\ SpentIsKept'
  <2>1. CASE UNCHANGED vars
    <3>1. Narrows /\ MovesOn /\ op' = op
      BY <2>1 DEF vars, Narrows, MovesOn
    <3> QED
      BY <3>1, NarrowingKeeps
  <2>2. CASE WriteStarts
    <3>1. Narrows /\ MovesOn /\ op' = op
      BY <2>2 DEF WriteStarts, Narrows, MovesOn
    <3> QED
      BY <3>1, NarrowingKeeps
  <2>3. CASE ReportEnds
    <3>1. /\ data'.ticket \in {data.ticket, mem.ticket}
          /\ data'.quarantined \in {data.quarantined, mem.quarantined}
      BY <1>2, <2>3, TrailingFields DEF ReportEnds
    <3>2. Narrows /\ MovesOn /\ op.pc # "calling"
      BY <2>3, <3>1 DEF ReportEnds, Narrows, MovesOn
    <3> QED
      BY <3>2, NarrowingKeeps
  <2>4. CASE \E u \in Updater :
               UpdaterSaves(u) \/ UpdaterLands(u) \/ UpdaterFails(u)
    BY <1>2, <2>4, RefreshNarrows, NarrowingKeeps
  <2>5. CASE \E d \in Device : \/ \E lane \in Lane : Begin(lane, d)
                               \/ Accept(d) \/ CancelRestore(d)
    <3>1. Narrows /\ MovesOn /\ op.pc # "calling"
      BY <1>2, <2>5, StartNarrows
    <3> QED
      BY <3>1, NarrowingKeeps
  <2>6. CASE \E d \in Device : ClearQuarantine(d)
    BY <2>6, ClearKeeps
  <2>7. CASE Command
    BY <2>7, CommandKeeps
  <2>8. CASE \E r \in Results : CommandEnds(r)
    BY <2>8, OutcomeKeeps
  <2>9. CASE OpLands
    BY <1>2, <2>9, LandingNarrows, NarrowingKeeps
  <2>10. CASE OpFails
    BY <1>2, <2>10, FailingNarrows, NarrowingKeeps
  <2>11. CASE Restart
    BY <2>11, RestartKeeps
  <2> QED
    BY <2>1, <2>2, <2>3, <2>4, <2>5, <2>6, <2>7, <2>8, <2>9, <2>10, <2>11
    DEF Next
<1> QED
  BY <1>1, <1>3 DEF IInv

LEMMA InitHolds == Init => IInv
BY InitIsTyped, IdleIsOperation
DEF IInv, Init, IntentIsKept, AmbiguityIsKept, SpentIsKept

LEMMA Invariance == Spec => []IInv
BY InitHolds, NextHolds, PTL DEF Spec

-----------------------------------------------------------------------------
(* The state keeps its shape, and a task waits for at most one write.      *)
THEOREM TypeCorrect == Spec => []TypeOK
<1>1. IInv => TypeOK
  BY DEF IInv
<1> QED
  BY Invariance, <1>1, PTL

(* No call is issued before the file holds its intent, and no write by a   *)
(* refresh takes the intent away again (execute, _persist_runtime_if_dirty).*)
THEOREM IntentsAreOnDisk == Spec => []IntentOnDisk
<1>1. IInv => IntentOnDisk
  BY DEF IInv, IntentIsKept, Dispatched, IntentOnDisk
<1> QED
  BY Invariance, <1>1, PTL

(* No save leaves the file with a command's outcome and without the        *)
(* quarantine of a load that was not confirmed (complete, _storage_failure).*)
THEOREM AmbiguityIsAlwaysBlocked == Spec => []AmbiguityIsBlocked
<1>1. IInv => AmbiguityIsBlocked
  BY DEF IInv, TypeOK, AmbiguityIsKept, AmbiguityIsBlocked, Blocked, Blocks,
         UnresolvedIn
<1> QED
  BY Invariance, <1>1, PTL

(* The file never offers a ticket again that an ON was issued for, however *)
(* the writes of refreshes and of operations follow each other.            *)
THEOREM SpentTicketsAreBlocked == Spec => []SpentTicketIsBlocked
<1>1. IInv => SpentTicketIsBlocked
  BY DEF IInv, TypeOK, SpentIsKept, SpentTicketIsBlocked, Blocked, Blocks,
         UnresolvedIn
<1> QED
  BY Invariance, <1>1, PTL

-----------------------------------------------------------------------------
(* The contract.  While an operation acts on a load, the dict has memory's *)
(* tickets, and the ticket a restore or a re-shed rests on is still there. *)

Acting ==
    op.pc \in {"prepared", "dispatched", "commanding", "calling", "terminal"}

OperationIsHeld ==
    Acting =>
        /\ op.lane \in {"stop", "reshed", "restore"}
        /\ \E d \in Device : op.dev = {d}
        /\ data.ticket = mem.ticket /\ data.quarantined = mem.quarantined
        /\ op.lane = "reshed" => op.dev \subseteq mem.ticket
        /\ op.lane = "restore" /\ op.pc # "terminal" =>
             op.dev \subseteq mem.ticket \ mem.quarantined

(* How memory and the dict change under an operation that goes on.         *)
LEMMA DictFollows ==
    ASSUME TypeOK, [Next]_vars, Acting'
    PROVE  \/ /\ op' = op /\ mem' = mem
              /\ \/ data' = data
                 \/ data'.ticket = mem.ticket /\ data'.quarantined = mem.quarantined
           \/ \E lane \in Lane, d \in Device : Begin(lane, d)
           \/ PreparedLands \/ DispatchedLands \/ Command
           \/ \E r \in Results : CommandEnds(r)
<1>1. /\ mem \in Memory /\ data \in File /\ op \in Operation
      /\ Idle.pc = "idle"
  BY IdleIsOperation DEF TypeOK
<1>2. CASE UNCHANGED vars \/ WriteStarts
  BY <1>2 DEF vars, WriteStarts
<1>3. ASSUME NEW u \in Updater,
             UpdaterSaves(u) \/ UpdaterLands(u) \/ UpdaterFails(u)
      PROVE  /\ op' = op /\ mem' = mem
             /\ \/ data' = data
                \/ data'.ticket = mem.ticket /\ data'.quarantined = mem.quarantined
  BY <1>1, <1>3, SnapshotFields
  DEF UpdaterSaves, UpdaterLands, UpdaterFails, Save
<1>4. CASE \E d \in Device : Accept(d) \/ ClearQuarantine(d) \/ CancelRestore(d)
  <2>1. op'.pc \in {"reporting", "direct"}
    BY <1>4 DEF Accept, ClearQuarantine, CancelRestore
  <2> QED
    BY <2>1 DEF Acting
<1>5. CASE TerminalLands \/ SaveFails \/ ReportEnds
  <2>1. \/ op' = [op EXCEPT !.pc = "reporting"]
        \/ op' = [op EXCEPT !.pc = "final"] \/ op' = Idle
    BY <1>5 DEF TerminalLands, SaveFails, ReportEnds, Trailing
  <2>2. op'.pc \in {"reporting", "final", "idle"}
    BY <1>1, <2>1, OpMoves DEF Waiting
  <2> QED
    BY <2>2 DEF Acting
<1>6. CASE FinalLands \/ DirectLands \/ FinalFails \/ DirectFails \/ Restart
  <2>1. op'.pc = "idle"
    BY <1>1, <1>6
    DEF FinalLands, DirectLands, FinalFails, DirectFails, Restart
  <2> QED
    BY <2>1 DEF Acting
<1> QED
  BY <1>2, <1>3, <1>4, <1>5, <1>6 DEF Next, OpLands, OpFails

LEMMA OperationStaysHeld ==
    ASSUME TypeOK, OperationIsHeld, [Next]_vars
    PROVE  OperationIsHeld'
<1> SUFFICES ASSUME Acting'
             PROVE  OperationIsHeld'
  BY DEF OperationIsHeld
<1>1. /\ mem \in Memory /\ data \in File /\ op \in Operation
      /\ op.dev \subseteq Device
  BY DEF TypeOK, Operation
<1>2. CASE /\ op' = op /\ mem' = mem
           /\ \/ data' = data
              \/ data'.ticket = mem.ticket /\ data'.quarantined = mem.quarantined
  BY <1>2 DEF OperationIsHeld, Acting
<1>3. ASSUME NEW lane \in Lane, NEW d \in Device, Begin(lane, d)
      PROVE  OperationIsHeld'
  <2>1. Recorded(data, {d}, "prepared") \in File
    BY <1>1, RecordedFields DEF Phase, Unresolved
  <2>2. data'.ticket = mem.ticket /\ data'.quarantined = mem.quarantined
        /\ mem' = mem
    BY <1>1, <1>3, <2>1, SnapshotFields DEF Begin, Save
  <2>3. /\ op'.lane = lane /\ op'.dev = {d} /\ Permits(lane, d)
        /\ lane \in {"stop", "reshed", "restore"}
    BY <1>3 DEF Begin
  <2> QED
    BY <2>2, <2>3 DEF OperationIsHeld, Permits
<1>4. CASE PreparedLands \/ DispatchedLands \/ Command
  <2>1. /\ op.pc \in {"prepared", "dispatched", "commanding"} /\ mem' = mem
        /\ \/ op' = [op EXCEPT !.pc = "dispatched"]
           \/ op' = [op EXCEPT !.pc = "commanding"]
           \/ op' = [op EXCEPT !.pc = "calling"]
    BY <1>4 DEF PreparedLands, DispatchedLands, Command
  <2>3. /\ op'.lane = op.lane /\ op'.dev = op.dev
        /\ Acting /\ op.pc # "terminal"
    <3>1. CASE op' = [op EXCEPT !.pc = "dispatched"]
      BY <1>1, <2>1, <3>1, OpMoves DEF Waiting, Acting
    <3>2. CASE op' = [op EXCEPT !.pc = "commanding"]
      BY <1>1, <2>1, <3>2, OpMoves DEF Acting
    <3>3. CASE op' = [op EXCEPT !.pc = "calling"]
      BY <1>1, <2>1, <3>3, OpMoves DEF Acting
    <3> QED
      BY <2>1, <3>1, <3>2, <3>3
  <2>2. data'.ticket = mem.ticket /\ data'.quarantined = mem.quarantined
    <3>1. CASE PreparedLands
      <4>1. Recorded(data, op.dev, "dispatched") \in File
        BY <1>1, RecordedFields DEF Phase, Unresolved
      <4> QED
        BY <1>1, <3>1, <4>1, SnapshotFields DEF PreparedLands
    <3>2. CASE DispatchedLands \/ Command
      BY <2>1, <2>3, <3>2 DEF DispatchedLands, Command, OperationIsHeld
    <3> QED
      BY <1>4, <3>1, <3>2
  <2> QED
    BY <2>1, <2>2, <2>3 DEF OperationIsHeld
<1>5. ASSUME NEW r \in Results, CommandEnds(r)
      PROVE  OperationIsHeld'
  <2>1. /\ op'.pc = "terminal" /\ op'.lane = op.lane /\ op'.dev = op.dev
        /\ Acting
    BY <1>1, <1>5, OpMoves DEF CommandEnds, Waiting, Acting
  <2>2. /\ mem' = Completed(r) /\ mem' \in Memory
        /\ op.lane = "reshed" => mem'.ticket = mem.ticket
    BY <1>5, CompletedFields DEF CommandEnds
  <2>3. data'.ticket = mem'.ticket /\ data'.quarantined = mem'.quarantined
    <3>1. Recorded(data, op.dev, "resolved") \in File
      BY <1>1, RecordedFields DEF Phase
    <3> QED
      BY <1>5, <2>2, <3>1, SnapshotFields DEF CommandEnds, Save
  <2> QED
    BY <2>1, <2>2, <2>3 DEF OperationIsHeld
<1> QED
  BY <1>2, <1>3, <1>4, <1>5, DictFollows

(* CInv is inductive.                                                      *)
CInv == IInv /\ OperationIsHeld

LEMMA ContractInvariance == Spec => []CInv
<1>1. Init => OperationIsHeld
  BY IdleIsOperation DEF Init, OperationIsHeld, Acting
<1>2. IInv /\ OperationIsHeld /\ [Next]_vars => OperationIsHeld'
  BY OperationStaysHeld DEF IInv
<1> QED
  BY <1>1, <1>2, InitHolds, NextHolds, PTL DEF Spec, CInv

-----------------------------------------------------------------------------
(* What memory offers, and where the other claims come from.               *)
Offered == (mem.ticket \ mem.quarantined)
             \ (IF OnOutstanding THEN op.dev ELSE {})

LEMMA ClaimParts ==
    Claims = Unspent(disk) \cup Unspent(data)
               \cup (IF image = NoImage THEN {} ELSE Unspent(image))
               \cup Offered
BY DEF Claims, Offered

(* Contents move on from the dict to the file, and the dict takes what it  *)
(* has from memory: only memory can bring a claim.                         *)
LEMMA ClaimsFollow ==
    ASSUME TypeOK', IntentIsKept', left' = left, MovesOn,
           data' = data \/ (/\ data'.ticket = mem'.ticket
                            /\ data'.quarantined = mem'.quarantined)
    PROVE  Claims' \subseteq Claims \cup Offered'
<1>1. \A f : Unspent(f) = f.ticket \ (f.quarantined \cup left \cup UnresolvedIn(f))
  BY DEF Unspent
<1>2. /\ Unspent(disk)' = disk'.ticket \ (disk'.quarantined \cup left
                                            \cup UnresolvedIn(disk'))
      /\ Unspent(image)' = image'.ticket \ (image'.quarantined \cup left
                                              \cup UnresolvedIn(image'))
      /\ Unspent(data)' = data'.ticket \ (data'.quarantined \cup left
                                            \cup UnresolvedIn(data'))
  BY DEF Unspent, UnresolvedIn
<1>3. Unspent(data)' \subseteq Unspent(data) \cup Offered'
  <2>1. CASE data' = data
    BY <1>1, <1>2, <2>1
  <2>2. CASE /\ data'.ticket = mem'.ticket
             /\ data'.quarantined = mem'.quarantined
    <3>1. ASSUME OnOutstanding', NEW d \in op'.dev
          PROVE  d \in UnresolvedIn(data')
      <4>1. data'.phase[d] = "dispatched" /\ d \in Device
        BY <3>1 DEF OnOutstanding, IntentIsKept, Dispatched, TypeOK, Operation
      <4> QED
        BY <4>1 DEF UnresolvedIn, Unresolved
    <3>2. Offered' = (mem'.ticket \ mem'.quarantined)
                       \ (IF OnOutstanding' THEN op'.dev ELSE {})
      BY DEF Offered
    <3> QED
      BY <1>2, <2>2, <3>1, <3>2
  <2> QED
    BY <2>1, <2>2
<1>4. /\ Unspent(disk)' \subseteq
           Unspent(disk) \cup (IF image = NoImage THEN {} ELSE Unspent(image))
      /\ image' # NoImage =>
           Unspent(image)' \subseteq
             Unspent(data) \cup (IF image = NoImage THEN {} ELSE Unspent(image))
  BY <1>1, <1>2 DEF MovesOn
<1>5. Claims' = Unspent(disk)' \cup Unspent(data)'
                  \cup (IF image' = NoImage THEN {} ELSE Unspent(image)')
                  \cup Offered'
  BY DEF Claims, Offered
<1> QED
  BY <1>3, <1>4, <1>5, ClaimParts

(* Losing claims, or the command, is always allowed.                       *)
LEMMA NothingGained ==
    ASSUME Claims' \subseteq Claims, CommandOut' \in {CommandOut, <<>>}
    PROVE  Contract!Next
BY DEF Contract!Next, Contract!GiveUp, Contract!NoCommand

(* Between two commands, and while one is outstanding.                     *)
Sent(o) ==
    IF o.pc = "calling"
    THEN <<IF o.lane = "restore" THEN "on" ELSE "off",
           CHOOSE d \in o.dev : TRUE>>
    ELSE <<>>

LEMMA QuietCommand ==
    /\ op.pc # "calling" => CommandOut = <<>> /\ ~OnOutstanding
    /\ op'.pc # "calling" => CommandOut' = <<>> /\ ~OnOutstanding'
    /\ op' = op => CommandOut' = CommandOut /\ (OnOutstanding' <=> OnOutstanding)
<1>1. /\ op.pc # "calling" => CommandOut = <<>> /\ ~OnOutstanding
      /\ op'.pc # "calling" => CommandOut' = <<>> /\ ~OnOutstanding'
  BY DEF CommandOut, OnOutstanding
<1>2. ASSUME op' = op
      PROVE  CommandOut' = CommandOut
  <2>1. CommandOut = Sent(op) /\ CommandOut' = Sent(op')
    BY DEF CommandOut, Sent
  <2> QED
    BY <1>2, <2>1
<1>3. op' = op => (OnOutstanding' <=> OnOutstanding)
  BY DEF OnOutstanding
<1> QED
  BY <1>1, <1>2, <1>3

(* The ON of a restore uses the claim up: the dict, the write under way    *)
(* and the file have the intent, memory's ticket has its command.          *)
LEMMA CommandKeepsContract ==
    ASSUME CInv, Command
    PROVE  Contract!Next
<1>1. /\ op.pc = "commanding" /\ op'.pc = "calling"
      /\ op'.dev = op.dev /\ op'.lane = op.lane
      /\ UNCHANGED <<mem, data, disk, left, image>>
  BY OpMoves DEF Command, CInv, IInv, TypeOK
<1>2. Acting /\ op.lane \in {"stop", "reshed", "restore"}
  BY <1>1 DEF CInv, OperationIsHeld, Acting
<1>3. PICK d \in Device : op.dev = {d}
  BY <1>2 DEF CInv, OperationIsHeld
<1>4. (CHOOSE e \in op.dev : TRUE) = d
  BY <1>3
<1>5. /\ CommandOut = <<>> /\ ~OnOutstanding
      /\ CommandOut' = <<IF op.lane = "restore" THEN "on" ELSE "off", d>>
      /\ OnOutstanding' <=> op.lane = "restore"
  <2>1. CommandOut = Sent(op) /\ CommandOut' = Sent(op')
    BY DEF CommandOut, Sent
  <2> QED
    BY <1>1, <1>4, <2>1 DEF Sent, OnOutstanding
<1>6. /\ Unspent(disk)' = Unspent(disk) /\ Unspent(data)' = Unspent(data)
      /\ Unspent(image)' = Unspent(image)
  BY <1>1 DEF Unspent, UnresolvedIn
<1>7. CASE op.lane = "restore"
  <2>1. d \in Offered
    BY <1>1, <1>2, <1>3, <1>5, <1>7 DEF CInv, OperationIsHeld, Offered
  <2>2. Offered' = Offered \ {d}
    BY <1>1, <1>3, <1>5, <1>7 DEF Offered
  <2>3. /\ data.phase[d] = "dispatched" /\ disk.phase[d] = "dispatched"
        /\ image # NoImage => image.phase[d] = "dispatched"
    BY <1>1, <1>3 DEF CInv, IInv, IntentIsKept, Dispatched
  <2>4. /\ d \notin Unspent(disk) /\ d \notin Unspent(data)
        /\ image # NoImage => d \notin Unspent(image)
    BY <2>3 DEF Unspent, UnresolvedIn, Unresolved
  <2>5. Claims' = Claims \ {d}
    <3>1. Claims' = Unspent(disk)' \cup Unspent(data)'
                      \cup (IF image' = NoImage THEN {} ELSE Unspent(image)')
                      \cup Offered'
      BY DEF Claims, Offered
    <3> QED
      BY <1>1, <1>6, <2>2, <2>4, <3>1, ClaimParts
  <2>6. Contract!SwitchOn(d)
    BY <1>5, <1>7, <2>1, <2>5, ClaimParts
    DEF Contract!SwitchOn, Contract!NoCommand
  <2> QED
    BY <2>6 DEF Contract!Next
<1>8. CASE op.lane # "restore"
  <2>1. Offered' = Offered
    BY <1>1, <1>5, <1>8 DEF Offered
  <2>2. Claims' = Claims
    <3>1. Claims' = Unspent(disk)' \cup Unspent(data)'
                      \cup (IF image' = NoImage THEN {} ELSE Unspent(image)')
                      \cup Offered'
      BY DEF Claims, Offered
    <3> QED
      BY <1>1, <1>6, <2>1, <3>1, ClaimParts
  <2>3. Contract!SwitchOff(d)
    BY <1>5, <1>8, <2>2 DEF Contract!SwitchOff, Contract!NoCommand
  <2> QED
    BY <2>3 DEF Contract!Next
<1> QED
  BY <1>7, <1>8

(* A confirmed stop begins a claim, unless the load is quarantined; every  *)
(* other outcome begins none, and a confirmed restore has none left.       *)
LEMMA OutcomeKeepsContract ==
    ASSUME CInv, IInv', NEW r \in Results, CommandEnds(r)
    PROVE  Contract!Next
<1>1. /\ mem \in Memory /\ data \in File /\ op \in Operation
      /\ TypeOK /\ op.dev \subseteq Device
  BY DEF CInv, IInv, TypeOK, Operation
<1>2. /\ mem' = Completed(r) /\ mem' \in Memory
      /\ mem'.quarantined = IF r = "failed" THEN mem.quarantined \cup op.dev
                            ELSE mem.quarantined
      /\ mem'.ticket = IF r # "confirmed" THEN mem.ticket
                       ELSE IF op.lane = "stop" THEN mem.ticket \cup op.dev
                       ELSE IF op.lane = "restore" THEN mem.ticket \ op.dev
                       ELSE mem.ticket
  BY <1>1, CompletedFields DEF CommandEnds
<1>3. /\ Recorded(data, op.dev, "resolved") \in File
      /\ data'.ticket = mem'.ticket /\ data'.quarantined = mem'.quarantined
      /\ data'.phase = Recorded(data, op.dev, "resolved").phase
  <2>1. Recorded(data, op.dev, "resolved") \in File
    BY <1>1, RecordedFields DEF Phase
  <2> QED
    BY <1>2, <2>1, SnapshotFields DEF CommandEnds, Save
<1>4. /\ disk' = disk /\ image' = image /\ left' = left
      /\ op.pc = (IF r = "rejected" THEN "commanding" ELSE "calling")
      /\ op'.pc = "terminal"
  BY <1>1, OpMoves DEF CommandEnds, Waiting
<1>5. /\ CommandOut' = <<>> /\ ~OnOutstanding'
      /\ r = "rejected" => CommandOut = <<>>
      /\ OnOutstanding <=> r # "rejected" /\ op.lane = "restore"
  BY <1>4, QuietCommand DEF OnOutstanding
<1>6. Claims' \subseteq Claims \cup Offered'
  <2>1. IntentIsKept' /\ TypeOK' /\ MovesOn
    BY <1>4 DEF IInv, MovesOn
  <2> QED
    BY <1>3, <1>4, <2>1, ClaimsFollow
<1>7. Offered' = mem'.ticket \ mem'.quarantined
  BY <1>5 DEF Offered
<1>8. CASE r = "confirmed" /\ op.lane = "stop"
  <2>1. /\ Offered = mem.ticket \ mem.quarantined
        /\ Offered' = (mem.ticket \cup op.dev) \ mem.quarantined
    BY <1>2, <1>5, <1>7, <1>8 DEF Offered
  <2>2. PICK d \in Device : op.dev = {d}
    BY <1>4, <1>8 DEF CInv, OperationIsHeld, Acting
  <2>3. CommandOut = <<"off", d>>
    <3>1. (CHOOSE e \in op.dev : TRUE) = d
      BY <2>2
    <3> QED
      BY <1>4, <1>8, <3>1 DEF CommandOut
  <2>4. CASE d \in mem.quarantined
    <3>1. Offered' \subseteq Offered
      BY <2>1, <2>2, <2>4
    <3> QED
      BY <1>5, <1>6, <3>1, ClaimParts, NothingGained
  <2>5. CASE d \notin mem.quarantined
    <3>1. Offered' = Offered \cup {d}
      BY <2>1, <2>2, <2>5
    <3>2. Unspent(data) \subseteq Unspent(data)'
      <4>1. data.ticket = mem.ticket /\ data.quarantined = mem.quarantined
        BY <1>4, <1>8 DEF CInv, OperationIsHeld, Acting
      <4>2. data.ticket \subseteq data'.ticket
            /\ data'.quarantined = data.quarantined
        BY <1>2, <1>3, <1>8, <4>1
      <4>3. UnresolvedIn(data)' \subseteq UnresolvedIn(data)
        <5> SUFFICES ASSUME NEW e \in Device, data'.phase[e] \in Unresolved
                     PROVE  data.phase[e] \in Unresolved
          BY DEF UnresolvedIn
        <5>1. data'.phase[e] = IF e \in op.dev THEN "resolved"
                               ELSE data.phase[e]
          BY <1>1, <1>3, RecordedFields DEF Phase
        <5> QED
          BY <5>1 DEF Unresolved
      <4> QED
        BY <1>4, <4>2, <4>3 DEF Unspent
    <3>3. /\ Unspent(disk)' = Unspent(disk) /\ Unspent(image)' = Unspent(image)
      BY <1>4 DEF Unspent, UnresolvedIn
    <3>4. Claims \cup {d} \subseteq Claims'
      <4>1. Claims' = Unspent(disk)' \cup Unspent(data)'
                        \cup (IF image' = NoImage THEN {} ELSE Unspent(image)')
                        \cup Offered'
        BY DEF Claims, Offered
      <4> QED
        BY <1>4, <3>1, <3>2, <3>3, <4>1, ClaimParts
    <3>5. Claims' = Claims \cup {d}
      BY <1>6, <3>1, <3>4, ClaimParts
    <3>6. Contract!Take(d)
      BY <1>5, <2>3, <3>5 DEF Contract!Take, Contract!NoCommand
    <3> QED
      BY <3>6 DEF Contract!Next
  <2> QED
    BY <2>4, <2>5
<1>9. CASE ~(r = "confirmed" /\ op.lane = "stop")
  <2>1. Offered' \subseteq Offered
    BY <1>2, <1>5, <1>7, <1>9 DEF Offered, Results
  <2> QED
    BY <1>5, <1>6, <2>1, ClaimParts, NothingGained
<1> QED
  BY <1>8, <1>9

(* Clearing vouches for one load.                                          *)
LEMMA ClearKeepsContract ==
    ASSUME CInv, IInv', NEW c \in Device, ClearQuarantine(c)
    PROVE  Contract!Next
<1>1. op.pc = "idle" /\ mem \in Memory /\ data \in File
  BY IdleIsOperation DEF ClearQuarantine, CInv, IInv, TypeOK
<1>2. /\ mem' \in Memory /\ mem'.ticket = mem.ticket
      /\ mem'.quarantined = mem.quarantined \ {c}
      /\ disk' = disk /\ left' = left /\ image' = image
      /\ op'.pc = "direct"
  BY <1>1 DEF ClearQuarantine, Memory
<1>3. data'.ticket = mem'.ticket /\ data'.quarantined = mem'.quarantined
  BY <1>1, <1>2, SnapshotFields DEF ClearQuarantine, Save
<1>4. /\ CommandOut = <<>> /\ CommandOut' = <<>>
      /\ ~OnOutstanding /\ ~OnOutstanding'
  BY <1>1, <1>2, QuietCommand
<1>5. Claims' \subseteq Claims \cup Offered'
  <2>1. IntentIsKept' /\ TypeOK' /\ MovesOn
    BY <1>2 DEF IInv, MovesOn
  <2> QED
    BY <1>2, <1>3, <2>1, ClaimsFollow
<1>6. Offered' \subseteq Offered \cup {c}
  BY <1>2, <1>4 DEF Offered
<1>7. Contract!Vouch(c)
  BY <1>4, <1>5, <1>6, ClaimParts DEF Contract!Vouch, Contract!NoCommand
<1> QED
  BY <1>7 DEF Contract!Next

(* A restart offers what the file did, less what it blocks.                *)
LEMMA RestartKeepsContract ==
    ASSUME CInv, IInv', Restart
    PROVE  Contract!Next
<1>1. /\ disk \in File /\ left' = left \cup UnresolvedIn(disk)
      /\ left' \subseteq Device
      /\ mem' = [ticket |-> disk.ticket,
                 quarantined |-> disk.quarantined \cup left']
      /\ image' = NoImage /\ op'.pc = "idle"
  BY IdleIsOperation DEF CInv, IInv, TypeOK, Restart, UnresolvedIn
<1>2. mem' \in Memory
  BY <1>1 DEF Memory, File
<1>3. /\ data'.ticket = disk.ticket
      /\ data'.quarantined = disk.quarantined \cup left'
  <2>1. [disk EXCEPT !.phase = [d \in Device |-> "resolved"]] \in File
    BY <1>1 DEF File, Phase
  <2>2. data' = Snapshot(mem', [disk EXCEPT !.phase =
                                   [d \in Device |-> "resolved"]])
    BY DEF Restart
  <2>3. /\ data'.ticket = mem'.ticket
        /\ data'.quarantined = mem'.quarantined
    BY <1>2, <2>1, <2>2, SnapshotFields
  <2> QED
    BY <1>1, <2>3
<1>4. /\ disk'.ticket = disk.ticket
      /\ disk'.quarantined \in {disk.quarantined, disk.quarantined \cup left'}
  BY <1>1, <1>3 DEF Restart, File
<1>5. CommandOut' = <<>> /\ ~OnOutstanding'
  BY <1>1, QuietCommand
<1>6. /\ Unspent(disk)' \subseteq Unspent(disk)
      /\ Unspent(data)' \subseteq Unspent(disk)
      /\ Offered' \subseteq Unspent(disk)
  <2>1. Unspent(disk) = disk.ticket \ (disk.quarantined \cup left')
    BY <1>1 DEF Unspent
  <2>2. /\ Unspent(disk)' \subseteq disk'.ticket \ (disk'.quarantined \cup left')
        /\ Unspent(data)' \subseteq data'.ticket \ (data'.quarantined \cup left')
        /\ Offered' \subseteq mem'.ticket \ mem'.quarantined
    BY DEF Unspent, Offered
  <2> QED
    BY <1>1, <1>3, <1>4, <2>1, <2>2
<1>7. Claims' = Unspent(disk)' \cup Unspent(data)' \cup Offered'
  BY <1>1 DEF Claims, Offered
<1> QED
  BY <1>5, <1>6, <1>7, ClaimParts, NothingGained

(* A failed save retires the ticket; only a re-shed leaves it in the dict  *)
(* for a while, and then memory offered it until now.                      *)
LEMMA FailingKeepsContract ==
    ASSUME CInv, IInv', OpFails
    PROVE  Contract!Next
<1>1. /\ TypeOK /\ mem \in Memory /\ data \in File /\ op \in Operation
      /\ op.dev \subseteq Device
      /\ left' = left /\ disk' = disk /\ image' = NoImage
      /\ op.pc # "calling" /\ MovesOn
  BY DEF CInv, IInv, TypeOK, Operation, OpFails, SaveFails, FinalFails,
         DirectFails, Raised, MovesOn
<1>2. op'.pc # "calling"
  <2>1. \/ op' = [op EXCEPT !.pc = "reporting"]
        \/ op' = [op EXCEPT !.pc = "final"] \/ op' = Idle
    BY DEF OpFails, SaveFails, FinalFails, DirectFails
  <2> QED
    BY <1>1, <2>1, OpMoves, IdleIsOperation DEF Waiting
<1>3. /\ CommandOut = <<>> /\ CommandOut' = <<>>
      /\ ~OnOutstanding /\ ~OnOutstanding'
  BY <1>1, <1>2, QuietCommand
<1>4. Offered' \subseteq Offered
  <2>1. /\ mem'.ticket \subseteq mem.ticket
        /\ mem.quarantined \subseteq mem'.quarantined
    BY <1>1, FailingNarrows DEF Narrows
  <2> QED
    BY <1>3, <2>1 DEF Offered
<1>5. IntentIsKept' /\ TypeOK'
  BY DEF IInv
<1>6. CASE FinalFails \/ DirectFails
  <2>1. data' = data
    BY <1>6 DEF FinalFails, DirectFails
  <2> QED
    BY <1>1, <1>3, <1>4, <1>5, <2>1, ClaimsFollow, ClaimParts, NothingGained
<1>7. CASE SaveFails
  <2> DEFINE r == Recorded(data, op.dev, "unsaved")
  <2>1. /\ r \in File /\ r.ticket = data.ticket
        /\ r.quarantined = data.quarantined
    <3>1. "unsaved" \in Phase
      BY DEF Phase
    <3> QED
      BY <1>1, <3>1, RecordedFields
  <2>2. CASE ~Notifies
    <3>1. data' = Snapshot(mem', r) /\ mem' \in Memory
      BY <1>1, <1>7, <2>2, AbandonedFields DEF SaveFails
    <3>2. data'.ticket = mem'.ticket /\ data'.quarantined = mem'.quarantined
      <4> HIDE DEF r
      <4> QED
        BY <2>1, <3>1, SnapshotFields
    <3> QED
      BY <1>1, <1>3, <1>4, <1>5, <3>2, ClaimsFollow, ClaimParts, NothingGained
  <2>3. CASE Notifies
    <3>1. data' = r /\ op.lane = "reshed" /\ Acting
      BY <1>7, <2>3 DEF SaveFails, Notifies, Acting
    <3>2. op.dev \subseteq mem.ticket /\ data.ticket = mem.ticket
          /\ data.quarantined = mem.quarantined
      BY <3>1 DEF CInv, OperationIsHeld
    <3>3. Unspent(data)' \subseteq Offered
      <4>1. Unspent(data)' \subseteq data'.ticket \ data'.quarantined
        BY DEF Unspent
      <4>2. data'.ticket = data.ticket /\ data'.quarantined = data.quarantined
        <5> HIDE DEF r
        <5> QED
          BY <2>1, <3>1
      <4> QED
        BY <1>3, <3>2, <4>1, <4>2 DEF Offered
    <3>4. Unspent(disk)' = Unspent(disk)
      BY <1>1 DEF Unspent, UnresolvedIn
    <3>5. Claims' = Unspent(disk)' \cup Unspent(data)' \cup Offered'
      BY <1>1 DEF Claims, Offered
    <3> QED
      BY <1>3, <1>4, <3>3, <3>4, <3>5, ClaimParts, NothingGained
  <2> QED
    BY <2>2, <2>3
<1> QED
  BY <1>6, <1>7 DEF OpFails

(* Every other step saves, writes or reads what is there already.          *)
LEMMA QuietKeepsContract ==
    ASSUME CInv, IInv',
           \/ UNCHANGED vars \/ WriteStarts \/ ReportEnds \/ OpLands
           \/ \E u \in Updater : \/ UpdaterSaves(u) \/ UpdaterLands(u)
                                 \/ UpdaterFails(u)
           \/ \E d \in Device : \/ \E lane \in Lane : Begin(lane, d)
                                \/ Accept(d) \/ CancelRestore(d)
    PROVE  Contract!Next
<1>1. /\ TypeOK /\ mem \in Memory /\ data \in File /\ op \in Operation
      /\ op.dev \subseteq Device /\ IntentIsKept' /\ TypeOK'
      /\ Idle.pc = "idle"
  BY IdleIsOperation DEF CInv, IInv, TypeOK, Operation
<1> DEFINE Follows == data' = data \/ (/\ data'.ticket = mem'.ticket
                                       /\ data'.quarantined = mem'.quarantined)
<1>2. SUFFICES /\ left' = left /\ MovesOn /\ Follows
               /\ mem'.ticket \subseteq mem.ticket
               /\ mem.quarantined \subseteq mem'.quarantined
               /\ op' = op \/ (op.pc # "calling" /\ op'.pc # "calling")
  <2>1. ASSUME left' = left, MovesOn, Follows
        PROVE  Claims' \subseteq Claims \cup Offered'
    BY <1>1, <2>1, ClaimsFollow
  <2>2. ASSUME mem'.ticket \subseteq mem.ticket,
               mem.quarantined \subseteq mem'.quarantined,
               op' = op \/ (op.pc # "calling" /\ op'.pc # "calling")
        PROVE  /\ Offered' \subseteq Offered
               /\ CommandOut' \in {CommandOut, <<>>}
    BY <2>2, QuietCommand DEF Offered
  <2> QED
    BY <2>1, <2>2, ClaimParts, NothingGained
<1>3. CASE UNCHANGED vars \/ WriteStarts
  BY <1>3 DEF vars, WriteStarts, MovesOn
<1>4. CASE ReportEnds
  <2>1. data' = data \/ data' = Snapshot(mem, data)
    BY <1>4 DEF ReportEnds, Trailing
  <2>2. Follows /\ mem' = mem
    BY <1>1, <1>4, <2>1, SnapshotFields DEF ReportEnds
  <2>3. op'.pc # "calling"
    <3>1. op' = [op EXCEPT !.pc = "final"] \/ op' = Idle
      BY <1>4 DEF ReportEnds, Trailing
    <3> QED
      BY <1>1, <3>1, OpMoves DEF Waiting
  <2> QED
    BY <1>4, <2>2, <2>3 DEF ReportEnds, MovesOn
<1>5. ASSUME NEW u \in Updater,
             UpdaterSaves(u) \/ UpdaterLands(u) \/ UpdaterFails(u)
      PROVE  /\ left' = left /\ MovesOn /\ Follows /\ mem' = mem /\ op' = op
  <2>1. left' = left /\ MovesOn /\ op' = op /\ mem' = mem
    BY <1>1, <1>5, RefreshNarrows
    DEF Narrows, UpdaterSaves, UpdaterLands, UpdaterFails
  <2>2. data' = data \/ data' = Snapshot(mem, data)
    BY <1>5 DEF UpdaterSaves, UpdaterLands, UpdaterFails, Save
  <2> QED
    BY <1>1, <2>1, <2>2, SnapshotFields
<1>6. ASSUME NEW d \in Device,
             (\E lane \in Lane : Begin(lane, d)) \/ Accept(d) \/ CancelRestore(d)
      PROVE  /\ left' = left /\ MovesOn /\ Follows
             /\ mem'.ticket \subseteq mem.ticket
             /\ mem.quarantined \subseteq mem'.quarantined
             /\ op.pc # "calling" /\ op'.pc # "calling"
  <2>1. Narrows /\ MovesOn /\ op.pc = "idle"
    BY <1>1, <1>6, StartNarrows
  <2>2. op'.pc # "calling"
    BY <1>6 DEF Begin, Accept, CancelRestore
  <2>3. Follows
    <3>1. CASE \E lane \in Lane : Begin(lane, d)
      <4>1. Recorded(data, {d}, "prepared") \in File
        BY <1>1, RecordedFields DEF Phase, Unresolved
      <4> QED
        BY <1>1, <3>1, <4>1, SnapshotFields DEF Begin, Save
    <3>2. CASE Accept(d)
      BY <3>2 DEF Accept
    <3>3. CASE CancelRestore(d)
      <4>1. mem' \in Memory
        BY <1>1, <3>3 DEF CancelRestore, Memory
      <4> QED
        BY <1>1, <3>3, <4>1, SnapshotFields DEF CancelRestore, Save
    <3> QED
      BY <1>6, <3>1, <3>2, <3>3
  <2> QED
    BY <2>1, <2>2, <2>3 DEF Narrows
<1>7. CASE OpLands
  <2>1. /\ left' = left /\ MovesOn /\ op.pc # "calling"
        /\ mem' = mem
    BY <1>1, <1>7, LandingNarrows
    DEF Narrows, OpLands, PreparedLands, DispatchedLands, TerminalLands,
        FinalLands, DirectLands
  <2>2. Follows
    <3>1. CASE PreparedLands
      <4>1. Recorded(data, op.dev, "dispatched") \in File
        BY <1>1, RecordedFields DEF Phase, Unresolved
      <4> QED
        BY <1>1, <2>1, <3>1, <4>1, SnapshotFields DEF PreparedLands
    <3>2. CASE DispatchedLands \/ TerminalLands \/ FinalLands \/ DirectLands
      <4>1. data' = data \/ data' = Snapshot(mem, data)
        BY <3>2 DEF DispatchedLands, TerminalLands, FinalLands, DirectLands,
                    Trailing
      <4> QED
        BY <1>1, <2>1, <4>1, SnapshotFields
    <3> QED
      BY <1>7, <3>1, <3>2 DEF OpLands
  <2>3. op'.pc # "calling"
    <3>1. \/ op' = [op EXCEPT !.pc = "dispatched"]
          \/ op' = [op EXCEPT !.pc = "commanding"]
          \/ op' = [op EXCEPT !.pc = "reporting"]
          \/ op' = [op EXCEPT !.pc = "final"] \/ op' = Idle
      BY <1>7 DEF OpLands, PreparedLands, DispatchedLands, TerminalLands,
                  FinalLands, DirectLands, Trailing
    <3> QED
      BY <1>1, <3>1, OpMoves DEF Waiting
  <2> QED
    BY <2>1, <2>2, <2>3
<1> QED
  BY <1>3, <1>4, <1>5, <1>6, <1>7

(* The saves of refreshes and of operations, in whatever order they reach  *)
(* the file, keep the promise about ONs: one for each confirmed stop, and  *)
(* none from a stale dict, a late write or a restart (execute, complete,   *)
(* _storage_failure, _persist_runtime_if_dirty).                           *)
THEOREM ContractIsKept == Spec => KeepsContract
<1>1. Init => Contract!Init
  <2> SUFFICES ASSUME Init PROVE Contract!Init
    OBVIOUS
  <2>1. op.pc = "idle" /\ CommandOut = <<>>
    BY IdleIsOperation, QuietCommand DEF Init
  <2>2. Claims = {}
    BY DEF Init, Claims, Unspent
  <2> QED
    BY <2>1, <2>2 DEF Contract!Init, Contract!NoCommand
<1>2. CInv /\ CInv' /\ [Next]_vars => [Contract!Next]_Contract!vars
  <2> SUFFICES ASSUME CInv, CInv', [Next]_vars
               PROVE  Contract!Next
    OBVIOUS
  <2>1. IInv'
    BY DEF CInv
  <2>2. CASE Command
    BY <2>2, CommandKeepsContract
  <2>3. CASE \E r \in Results : CommandEnds(r)
    BY <2>1, <2>3, OutcomeKeepsContract
  <2>4. CASE \E c \in Device : ClearQuarantine(c)
    BY <2>1, <2>4, ClearKeepsContract
  <2>5. CASE Restart
    BY <2>1, <2>5, RestartKeepsContract
  <2>6. CASE OpFails
    BY <2>1, <2>6, FailingKeepsContract
  <2>7. CASE \/ UNCHANGED vars \/ WriteStarts \/ ReportEnds \/ OpLands
             \/ \E u \in Updater : \/ UpdaterSaves(u) \/ UpdaterLands(u)
                                   \/ UpdaterFails(u)
             \/ \E d \in Device : \/ \E lane \in Lane : Begin(lane, d)
                                  \/ Accept(d) \/ CancelRestore(d)
    BY <2>1, <2>7, QuietKeepsContract
  <2> QED
    BY <2>2, <2>3, <2>4, <2>5, <2>6, <2>7 DEF Next
<1> QED
  BY <1>1, <1>2, ContractInvariance, PTL
  DEF Spec, KeepsContract, Contract!Spec

-----------------------------------------------------------------------------
(* Without refreshes.  TLC's counterexamples to QueueIsSaved and to        *)
(* NoObsoleteTicket each use a save made without the evaluation lock; here *)
(* is that nothing else can cause them.                                    *)

(* QueueIsSaved for quarantines: one that is put back because its clearing *)
(* could not be saved, is in the settled file again.                       *)
QuarantinesAreSaved == Settled => disk.quarantined = mem.quarantined

Current(file) ==
    file.ticket = mem.ticket /\ file.quarantined = mem.quarantined

(* The dict is current while a save of it is awaited, and is what is being *)
(* written; a flag stays up until a write of the present has landed.       *)
AInv ==
    /\ op.pc \in Waiting => Current(data)
    /\ image # NoImage => op.pc \in Waiting /\ image = data
    /\ op.pc = "direct" => dirty
    /\ op.pc \in {"idle", "reporting"} /\ ~dirty => Current(disk)
    /\ \A d \in mem.ticket : data.phase[d] # "unsaved"
    /\ NoObsoleteTicket

(* A snapshot of memory that adds no unsaved record.                       *)
LEMMA SnapshotIsCurrent ==
    ASSUME NEW m \in Memory, NEW f \in File,
           \A d \in m.ticket : f.phase[d] # "unsaved"
    PROVE  /\ Snapshot(m, f).ticket = m.ticket
           /\ Snapshot(m, f).quarantined = m.quarantined
           /\ \A d \in m.ticket : Snapshot(m, f).phase[d] # "unsaved"
BY SnapshotFields

LEMMA AloneStarts ==
    ASSUME TypeOK, AInv, NEW d \in Device,
           \/ \E lane \in Lane : Begin(lane, d)
           \/ Accept(d) \/ ClearQuarantine(d) \/ CancelRestore(d)
    PROVE  AInv'
<1>1. /\ mem \in Memory /\ data \in File /\ op.pc = "idle"
      /\ op.pc \notin Waiting /\ image = NoImage
  BY IdleIsOperation
  DEF TypeOK, AInv, Waiting, Begin, Accept, ClearQuarantine, CancelRestore
<1>2. disk' = disk /\ image' = NoImage /\ dirty' = TRUE
  BY <1>1 DEF Begin, Accept, ClearQuarantine, CancelRestore
<1>3. NoObsoleteTicket'
  BY <1>2 DEF AInv, NoObsoleteTicket
<1>4. ASSUME NEW lane \in Lane, Begin(lane, d)
      PROVE  AInv'
  <2> DEFINE r == Recorded(data, {d}, "prepared")
  <2>1. "prepared" \in Phase /\ {d} \in SUBSET Device
    BY DEF Phase, Unresolved
  <2>2. r \in File /\ \A e \in Device :
                        r.phase[e] # "unsaved" \/ r.phase[e] = data.phase[e]
    BY <1>1, <2>1, RecordedFields
  <2>3. \A e \in mem.ticket : r.phase[e] # "unsaved"
    BY <1>1, <2>2 DEF AInv, Memory
  <2>4. data' = Snapshot(mem, r) /\ mem' = mem /\ op'.pc = "prepared"
    BY <1>4 DEF Begin, Save
  <2>5. Current(data)' /\ \A e \in mem'.ticket : data'.phase[e] # "unsaved"
    <3> HIDE DEF r
    <3> QED
      BY <1>1, <2>2, <2>3, <2>4, SnapshotIsCurrent DEF Current
  <2> QED
    BY <1>2, <1>3, <2>4, <2>5 DEF AInv
<1>5. CASE Accept(d)
  <2>1. mem'.ticket \subseteq mem.ticket /\ data' = data /\ op'.pc = "reporting"
    BY <1>1, <1>5 DEF Accept, Memory
  <2> QED
    BY <1>2, <1>3, <2>1 DEF AInv, Waiting
<1>6. CASE ClearQuarantine(d) \/ CancelRestore(d)
  <2>1. /\ mem' \in Memory /\ mem'.ticket \subseteq mem.ticket
        /\ data' = Snapshot(mem', data) /\ op'.pc = "direct"
    BY <1>1, <1>6 DEF ClearQuarantine, CancelRestore, Memory, Save
  <2>2. \A e \in mem'.ticket : data.phase[e] # "unsaved"
    BY <2>1 DEF AInv
  <2>3. Current(data)' /\ \A e \in mem'.ticket : data'.phase[e] # "unsaved"
    BY <1>1, <2>1, <2>2, SnapshotIsCurrent DEF Current
  <2> QED
    BY <1>2, <1>3, <2>1, <2>3 DEF AInv
<1> QED
  BY <1>4, <1>5, <1>6

LEMMA AloneCommands ==
    ASSUME TypeOK, AInv, Command \/ \E r \in Results : CommandEnds(r)
    PROVE  AInv'
<1>1. /\ mem \in Memory /\ data \in File /\ op \in Operation
      /\ op.dev \subseteq Device /\ op.pc \notin Waiting /\ image = NoImage
      /\ disk' = disk /\ image' = NoImage
  BY DEF TypeOK, Operation, AInv, Waiting, Command, CommandEnds
<1>2. NoObsoleteTicket'
  BY <1>1 DEF AInv, NoObsoleteTicket
<1>3. CASE Command
  <2>1. op'.pc = "calling" /\ mem' = mem /\ data' = data
    BY <1>1, <1>3, OpMoves DEF Command
  <2> QED
    BY <1>1, <1>2, <2>1 DEF AInv, Waiting
<1>4. ASSUME NEW o \in Results, CommandEnds(o)
      PROVE  AInv'
  <2> DEFINE r == Recorded(data, op.dev, "resolved")
  <2>1. "resolved" \in Phase
    BY DEF Phase
  <2>2. r \in File /\ \A e \in Device : r.phase[e] =
                        IF e \in op.dev THEN "resolved" ELSE data.phase[e]
    BY <1>1, <2>1, RecordedFields
  <2>3. /\ mem' = Completed(o) /\ mem' \in Memory
        /\ mem'.ticket \subseteq mem.ticket \cup op.dev
    BY <1>1, <1>4, CompletedFields DEF CommandEnds
  <2>4. \A e \in mem'.ticket : r.phase[e] # "unsaved"
    BY <1>1, <2>2, <2>3 DEF AInv, Memory
  <2>5. data' = Snapshot(mem', r) /\ dirty' = TRUE
    BY <1>4, <2>3 DEF CommandEnds, Save
  <2>6. Current(data)' /\ \A e \in mem'.ticket : data'.phase[e] # "unsaved"
    <3> HIDE DEF r
    <3> QED
      BY <2>2, <2>3, <2>4, <2>5, SnapshotIsCurrent DEF Current
  <2>7. op'.pc = "terminal"
    BY <1>1, <1>4, OpMoves DEF CommandEnds, Waiting
  <2> QED
    BY <1>1, <1>2, <2>5, <2>6, <2>7 DEF AInv, Waiting
<1> QED
  BY <1>3, <1>4

LEMMA AloneLands ==
    ASSUME TypeOK, AInv, OpLands
    PROVE  AInv'
<1>1. /\ mem \in Memory /\ data \in File /\ op \in Operation
      /\ op.dev \subseteq Device /\ Idle.pc = "idle"
      /\ disk' = image /\ image' = NoImage /\ image # NoImage /\ mem' = mem
  BY IdleIsOperation
  DEF TypeOK, Operation, OpLands, PreparedLands, DispatchedLands,
      TerminalLands, FinalLands, DirectLands, HeadIs, Written
<1>2. /\ disk' = data /\ Current(data)
      /\ \A d \in mem.ticket : data.phase[d] # "unsaved"
  BY <1>1 DEF AInv
<1>3. Current(disk)' /\ NoObsoleteTicket'
  BY <1>1, <1>2 DEF Current, NoObsoleteTicket
<1>4. CASE PreparedLands
  <2> DEFINE r == Recorded(data, op.dev, "dispatched")
  <2>1. "dispatched" \in Phase
    BY DEF Phase, Unresolved
  <2>2. r \in File /\ \A e \in Device : r.phase[e] =
                        IF e \in op.dev THEN "dispatched" ELSE data.phase[e]
    BY <1>1, <2>1, RecordedFields
  <2>3. \A e \in mem.ticket : r.phase[e] # "unsaved"
    BY <1>1, <1>2, <2>2 DEF Memory
  <2>4. data' = Snapshot(mem, r)
    BY <1>4 DEF PreparedLands
  <2>5. Current(data)' /\ \A e \in mem'.ticket : data'.phase[e] # "unsaved"
    <3> HIDE DEF r
    <3> QED
      BY <1>1, <2>2, <2>3, <2>4, SnapshotIsCurrent DEF Current
  <2>6. op'.pc = "dispatched"
    BY <1>1, <1>4, OpMoves DEF PreparedLands, Waiting
  <2> QED
    BY <1>1, <1>3, <2>5, <2>6 DEF AInv
<1>5. CASE DispatchedLands \/ FinalLands \/ DirectLands
  <2>1. data' = data /\ op'.pc \in {"commanding", "idle"}
    BY <1>1, <1>5, OpMoves DEF DispatchedLands, FinalLands, DirectLands
  <2> QED
    BY <1>1, <1>2, <1>3, <2>1 DEF AInv, Waiting
<1>6. CASE TerminalLands
  <2>1. \/ op' = [op EXCEPT !.pc = "reporting"] /\ data' = data
        \/ op' = [op EXCEPT !.pc = "final"] /\ data' = Snapshot(mem, data)
        \/ op' = Idle /\ data' = data
    BY <1>6 DEF TerminalLands, Trailing
  <2>2. op'.pc \in {"reporting", "final", "idle"}
    BY <1>1, <2>1, OpMoves DEF Waiting
  <2>3. Current(data)' /\ \A e \in mem'.ticket : data'.phase[e] # "unsaved"
    BY <1>1, <1>2, <2>1, SnapshotIsCurrent DEF Current
  <2> QED
    BY <1>1, <1>3, <2>2, <2>3 DEF AInv
<1> QED
  BY <1>4, <1>5, <1>6 DEF OpLands

LEMMA AloneFails ==
    ASSUME TypeOK, AInv, OpFails
    PROVE  AInv'
<1>1. /\ mem \in Memory /\ data \in File /\ op \in Operation
      /\ op.dev \subseteq Device /\ Idle.pc = "idle"
      /\ disk' = disk /\ image' = NoImage
  BY IdleIsOperation
  DEF TypeOK, Operation, OpFails, SaveFails, FinalFails, DirectFails, Raised
<1>2. dirty' = TRUE
  BY DEF OpFails, SaveFails, FinalFails, DirectFails, AInv, TypeOK
<1>3. NoObsoleteTicket'
  BY <1>1 DEF AInv, NoObsoleteTicket
<1>4. CASE FinalFails \/ DirectFails
  <2>1. op'.pc = "idle" /\ data' = data /\ mem'.ticket = mem.ticket
    BY <1>1, <1>4 DEF FinalFails, DirectFails, Memory
  <2> QED
    BY <1>1, <1>2, <1>3, <2>1 DEF AInv, Waiting
<1>5. CASE SaveFails
  <2> DEFINE r == Recorded(data, op.dev, "unsaved")
  <2>1. "unsaved" \in Phase
    BY DEF Phase
  <2>2. r \in File /\ \A e \in Device : r.phase[e] =
                        IF e \in op.dev THEN "unsaved" ELSE data.phase[e]
    BY <1>1, <2>1, RecordedFields
  <2>3. /\ mem' \in Memory /\ mem' = Abandoned
        /\ mem'.ticket = mem.ticket \ op.dev
    BY <1>5, AbandonedFields DEF SaveFails
  <2>4. \A e \in mem'.ticket : r.phase[e] # "unsaved"
    BY <1>1, <2>2, <2>3 DEF AInv, Memory
  <2>5. CASE Notifies
    <3>1. data' = r /\ op' = [op EXCEPT !.pc = "reporting"]
      BY <1>5, <2>5 DEF SaveFails
    <3>2. op'.pc = "reporting"
      BY <1>1, <3>1, OpMoves
    <3>3. \A e \in mem'.ticket : data'.phase[e] # "unsaved"
      <4> HIDE DEF r
      <4> QED
        BY <2>4, <3>1
    <3> QED
      BY <1>1, <1>2, <1>3, <3>2, <3>3 DEF AInv, Waiting
  <2>6. CASE ~Notifies
    <3>1. data' = Snapshot(mem', r) /\ op' = [op EXCEPT !.pc = "final"]
      BY <1>5, <2>3, <2>6 DEF SaveFails
    <3>2. op'.pc = "final"
      BY <1>1, <3>1, OpMoves DEF Waiting
    <3>3. Current(data)' /\ \A e \in mem'.ticket : data'.phase[e] # "unsaved"
      <4> HIDE DEF r
      <4> QED
        BY <2>2, <2>3, <2>4, <3>1, SnapshotIsCurrent DEF Current
    <3> QED
      BY <1>1, <1>2, <1>3, <3>2, <3>3 DEF AInv
  <2> QED
    BY <2>5, <2>6
<1> QED
  BY <1>4, <1>5 DEF OpFails

LEMMA AloneRestarts ==
    ASSUME TypeOK, TypeOK', Restart
    PROVE  AInv'
<1>1. /\ disk \in File /\ disk' \in File /\ data' \in File /\ mem' \in Memory
      /\ image' = NoImage /\ op'.pc = "idle"
  BY IdleIsOperation DEF TypeOK, Restart
<1> DEFINE f == [disk EXCEPT !.phase = [d \in Device |-> "resolved"]]
<1>2. f \in File /\ f.phase = [d \in Device |-> "resolved"]
  BY <1>1 DEF File, Phase
<1>3. data' = Snapshot(mem', f)
  BY DEF Restart
<1>4. /\ data'.ticket = mem'.ticket /\ data'.quarantined = mem'.quarantined
      /\ data'.phase = [d \in Device |-> "resolved"]
  <2> HIDE DEF f
  <2> QED
    BY <1>1, <1>2, <1>3, SnapshotFields
<1>5. disk'.phase = [d \in Device |-> "resolved"]
  BY <1>1, <1>4 DEF Restart, File
<1>6. ~dirty' => disk' = data'
  BY DEF Restart
<1>7. mem'.ticket \subseteq Device /\ disk'.ticket \subseteq Device
  BY <1>1 DEF Memory, File
<1> QED
  BY <1>1, <1>4, <1>5, <1>6, <1>7
  DEF AInv, Current, NoObsoleteTicket, Waiting

LEMMA AloneHolds ==
    ASSUME Updater = {}, TypeOK, TypeOK', AInv, [Next]_vars
    PROVE  AInv'
<1>1. CASE UNCHANGED vars
  BY <1>1 DEF vars, AInv, Current, NoObsoleteTicket
<1>2. CASE WriteStarts
  <2>1. writes \in Seq({"op"}) /\ writes # <<>>
    BY <1>2 DEF WriteStarts, TypeOK
  <2>2. Contains(writes, "op")
    <3>1. 1 \in 1..Len(writes) /\ writes[1] = "op"
      BY <2>1
    <3> QED
      BY <3>1 DEF Contains
  <2>3. op.pc \in Waiting
    BY <2>2 DEF TypeOK
  <2> QED
    BY <1>2, <2>3 DEF WriteStarts, AInv, Current, NoObsoleteTicket
<1>3. CASE ReportEnds
  <2>1. /\ op.pc = "reporting" /\ image = NoImage /\ image' = NoImage
        /\ disk' = disk /\ mem' = mem /\ dirty' = dirty
        /\ mem \in Memory /\ data \in File /\ op \in Operation
        /\ Idle.pc = "idle"
    BY <1>3, IdleIsOperation DEF ReportEnds, AInv, Waiting, TypeOK
  <2>2. NoObsoleteTicket'
    BY <2>1 DEF AInv, NoObsoleteTicket
  <2>3. CASE dirty \/ left # {}
    <3>1. data' = Snapshot(mem, data) /\ op' = [op EXCEPT !.pc = "final"]
      BY <1>3, <2>3 DEF ReportEnds, Trailing
    <3>2. op'.pc = "final"
      BY <2>1, <3>1, OpMoves DEF Waiting
    <3>3. Current(data)' /\ \A e \in mem'.ticket : data'.phase[e] # "unsaved"
      BY <2>1, <3>1, SnapshotIsCurrent DEF AInv, Current
    <3> QED
      BY <2>1, <2>2, <3>2, <3>3 DEF AInv
  <2>4. CASE ~(dirty \/ left # {})
    <3>1. op' = Idle /\ data' = data
      BY <1>3, <2>4 DEF ReportEnds, Trailing
    <3> QED
      BY <2>1, <2>2, <2>4, <3>1 DEF AInv, Current, Waiting
  <2> QED
    BY <2>3, <2>4
<1> QED
  BY <1>1, <1>2, <1>3, AloneStarts, AloneCommands, AloneLands, AloneFails,
     AloneRestarts DEF Next

(* If no refresh saved without the lock, the operations alone would keep   *)
(* the file in step with memory, tickets and quarantines, whatever writes  *)
(* fail and wherever the process stops, and would never record a failure   *)
(* next to a retired ticket: clearing every flag when a save completes     *)
(* (_persist_runtime_if_dirty) is wrong only because such saves exist.     *)
THEOREM OperationsAloneKeepFile ==
    Updater = {} =>
        (Spec => [](QueueIsSaved /\ QuarantinesAreSaved /\ NoObsoleteTicket))
<1> SUFFICES ASSUME Updater = {}
             PROVE  Spec => [](QueueIsSaved /\ QuarantinesAreSaved
                                 /\ NoObsoleteTicket)
  OBVIOUS
<1>1. Init => AInv
  BY IdleIsOperation
  DEF Init, AInv, Current, NoObsoleteTicket, Waiting
<1>2. TypeOK /\ TypeOK' /\ AInv /\ [Next]_vars => AInv'
  BY AloneHolds
<1>3. AInv => QueueIsSaved /\ QuarantinesAreSaved /\ NoObsoleteTicket
  BY IdleIsOperation
  DEF AInv, QueueIsSaved, QuarantinesAreSaved, Settled, NeedsSave, Current
<1> QED
  BY <1>1, <1>2, <1>3, TypeCorrect, PTL DEF Spec

-----------------------------------------------------------------------------
(* The count of OwnershipLedger, kept of the store and its operations.     *)
VARIABLES stops, vouchings, ons

Ledger ==
    INSTANCE OwnershipLedger WITH
        Load <- Device, owed <- Claims, wanted <- Device, command <- CommandOut

(* Whatever saves are queued, overtake each other or fail, the ONs issued  *)
(* to a load do not outnumber the confirmed stops that left a ticket and   *)
(* the quarantines an operator cleared: no copy of a ticket, in memory, in *)
(* the live dict, in a write under way or in the file, serves twice.       *)
THEOREM OnsAnswerStops == Spec /\ Ledger!Counting => []Ledger!OnsAreCovered
<1>1. KeepsContract => Ledger!Spec
  <2>1. Contract!Init => Ledger!Init
    BY DEF Contract!Init, Ledger!Init, Contract!NoCommand, Ledger!NoCommand
  <2>2. Contract!NoCommand = Ledger!NoCommand /\ Contract!vars = Ledger!vars
    BY DEF Contract!NoCommand, Ledger!NoCommand, Contract!vars, Ledger!vars
  <2>3. ASSUME NEW d \in Device
        PROVE  /\ Contract!SwitchOff(d) => Ledger!SwitchOff(d)
               /\ Contract!Take(d) => Ledger!Take(d)
               /\ Contract!SwitchOn(d) => Ledger!SwitchOn(d)
               /\ Contract!Vouch(d) => Ledger!Vouch(d)
    BY <2>2
    DEF Contract!SwitchOff, Ledger!SwitchOff, Contract!Take, Ledger!Take,
        Contract!SwitchOn, Ledger!SwitchOn, Contract!Vouch, Ledger!Vouch
  <2>4. Contract!GiveUp => Ledger!GiveUp
    BY <2>2 DEF Contract!GiveUp, Ledger!GiveUp
  <2>5. Contract!Next => Ledger!Next
    BY <2>3, <2>4 DEF Contract!Next, Ledger!Next
  <2>6. UNCHANGED Contract!vars => UNCHANGED Ledger!vars
    BY DEF Contract!vars, Ledger!vars
  <2> QED
    BY <2>1, <2>5, <2>6, PTL DEF KeepsContract, Contract!Spec, Ledger!Spec
<1>2. Ledger!Spec /\ Ledger!Counting => []Ledger!OnsAreCovered
  BY Ledger!OneOnPerClaim
<1> QED
  BY ContractIsKept, <1>1, <1>2, PTL
=============================================================================
