--------------------- MODULE RestoreTransactionsProofs ---------------------
(* The safety of RestoreTransactions for any set of loads and any bound.   *)
EXTENDS RestoreTransactions, TLAPS

-----------------------------------------------------------------------------
(* The inductive invariant.                                                *)

(* A dead process holds nothing.                                           *)
DownIsEmpty == proc = "down" => mem = Fresh /\ txn = Idle

(* Serials not handed out yet are not in any journal.                      *)
UnusedSerials ==
    \A n \in Serial :
        n >= next => mem.journal[n] = Blank /\ disk.journal[n] = Blank

(* A record keeps its load and action from the file to memory.             *)
JournalsAgree ==
    proc # "down" => \A n \in Serial :
        \/ disk.journal[n] = Blank
        \/ /\ disk.journal[n].dev = mem.journal[n].dev
           /\ disk.journal[n].action = mem.journal[n].action

(* The phase the journal gives to the transaction under way.               *)
PhaseAt(pc) ==
    CASE pc = "save_prepared" -> {"prepared"}
      [] pc = "save_terminal" -> {"confirmed", "rejected", "failed"}
      [] OTHER -> {"dispatched"}

InFlight ==
    txn.pc \in Executing =>
        /\ txn.act \in Serial /\ txn.act < next
        /\ txn.dev \in Device
        /\ txn.action \in {"turn_off", "turn_on"}
        /\ txn.action = "turn_on" => txn.ticket # 0
        /\ mem.journal[txn.act].dev = txn.dev
        /\ mem.journal[txn.act].action = txn.action
        /\ mem.journal[txn.act].phase \in PhaseAt(txn.pc)

ClearsALoad == txn.pc = "save_clear" => txn.dev \in Device

(* IntentIsDurable from the permission check on.                           *)
DispatchedOnDisk ==
    txn.pc \in Commanding \cup {"permission"} =>
        disk.journal[txn.act] =
            [dev |-> txn.dev, action |-> txn.action, phase |-> "dispatched"]

(* A ticket an ON was issued for cannot be used by anyone.                 *)
SpentTicketsAreBlocked ==
    \A d \in Device :
        /\ mem.ticket[d] \in spent =>
             \/ d \in mem.quarantined
             \/ txn.dev = d /\ txn.action = "turn_on" /\ txn.pc \in Outstanding
        /\ disk.ticket[d] \in spent => Covered(disk, d)

SpentTicketsAreOld ==
    \A t \in spent : t < next /\ (txn.pc \in Executing => t # txn.act)

IInv ==
    /\ TypeOK
    /\ DownIsEmpty
    /\ UnusedSerials
    /\ JournalsAgree
    /\ InFlight
    /\ ClearsALoad
    /\ TicketIsProof
    /\ DispatchedOnDisk
    /\ AmbiguityIsBlocked
    /\ SpentTicketsAreBlocked
    /\ SpentTicketsAreOld

-----------------------------------------------------------------------------
(* What the operators on snapshots return.                                 *)

(* The initial snapshot is well formed, owns nothing and blocks nothing.   *)
LEMMA FreshSnapshot ==
    /\ Fresh \in Snapshot
    /\ Proves(Fresh)
    /\ \A n \in Serial : Fresh.journal[n] = Blank
    /\ Fresh.quarantined = {}
    /\ \A d \in Device : Fresh.ticket[d] = 0
BY ConstantsAssumption
   DEF Fresh, Snapshot, Proves, Blank, Record, Mode, Phase, Unresolved, Serial,
       SerialOrNone, Fence

(* Recorded writes one journal entry and nothing else.                     *)
LEMMA RecordedFields ==
    ASSUME NEW m \in Snapshot, NEW n \in Serial, NEW p \in Phase,
           txn.dev \in Device, txn.action \in {"turn_off", "turn_on"}
    PROVE  /\ Recorded(m, n, p) \in Snapshot
           /\ Recorded(m, n, p).mode = m.mode
           /\ Recorded(m, n, p).ticket = m.ticket
           /\ Recorded(m, n, p).quarantined = m.quarantined
           /\ Recorded(m, n, p).journal =
                [m.journal EXCEPT ![n] =
                    [dev |-> txn.dev, action |-> txn.action, phase |-> p]]
BY DEF Recorded, Snapshot, Record

(* Removed clears one ticket and nothing else.                             *)
LEMMA RemovedFields ==
    ASSUME NEW m \in Snapshot, NEW d \in Device
    PROVE  /\ Removed(m, d) \in Snapshot
           /\ Removed(m, d).mode = m.mode
           /\ Removed(m, d).ticket = [m.ticket EXCEPT ![d] = 0]
           /\ Removed(m, d).quarantined = m.quarantined
           /\ Removed(m, d).journal = m.journal
BY ConstantsAssumption DEF Removed, Snapshot, SerialOrNone

(* Latched quarantines one load and changes nothing else.                  *)
LEMMA LatchedFields ==
    ASSUME NEW m \in Snapshot, NEW d \in Device
    PROVE  /\ Latched(m, d) \in Snapshot
           /\ Latched(m, d).mode = m.mode
           /\ Latched(m, d).ticket = m.ticket
           /\ Latched(m, d).quarantined = m.quarantined \cup {d}
           /\ Latched(m, d).journal = m.journal
BY DEF Latched, Snapshot

(* Abandoning a transaction removes the ticket, quarantines the load and   *)
(* records the failure.                                                    *)
LEMMA AbandonedFields ==
    ASSUME NEW m \in Snapshot, txn.act \in Serial,
           txn.dev \in Device, txn.action \in {"turn_off", "turn_on"}
    PROVE  /\ Abandoned(m) \in Snapshot
           /\ Abandoned(m).mode = m.mode
           /\ Abandoned(m).ticket = [m.ticket EXCEPT ![txn.dev] = 0]
           /\ Abandoned(m).quarantined = m.quarantined \cup {txn.dev}
           /\ Abandoned(m).journal =
                [m.journal EXCEPT ![txn.act] =
                    [dev |-> txn.dev, action |-> txn.action, phase |-> "failed"]]
<1> DEFINE r == Removed(m, txn.dev)
           q == Latched(r, txn.dev)
<1>1. "failed" \in Phase
  BY DEF Phase
<1>2. /\ r \in Snapshot /\ r.mode = m.mode
      /\ r.ticket = [m.ticket EXCEPT ![txn.dev] = 0]
      /\ r.quarantined = m.quarantined /\ r.journal = m.journal
  BY RemovedFields
<1>3. /\ q \in Snapshot /\ q.mode = r.mode /\ q.ticket = r.ticket
      /\ q.quarantined = r.quarantined \cup {txn.dev}
      /\ q.journal = r.journal
  BY <1>2, LatchedFields
<1>4. /\ Abandoned(m) \in Snapshot /\ Abandoned(m).mode = q.mode
      /\ Abandoned(m).ticket = q.ticket
      /\ Abandoned(m).quarantined = q.quarantined
      /\ Abandoned(m).journal =
           [q.journal EXCEPT ![txn.act] =
               [dev |-> txn.dev, action |-> txn.action, phase |-> "failed"]]
  <2> HIDE DEF q
  <2>1. Abandoned(m) = Recorded(q, txn.act, "failed")
    BY DEF Abandoned, q, r
  <2> QED
    BY <1>1, <1>3, <2>1, RecordedFields
<1> QED
  BY <1>2, <1>3, <1>4

(* The terminal projections touch the ticket and the quarantine of the     *)
(* transaction's own load only; only a confirmed stop yields a ticket.     *)
LEMMA CompletedFields ==
    ASSUME mem \in Snapshot, txn.act \in Serial, txn.dev \in Device,
           txn.action \in {"turn_off", "turn_on"},
           NEW result \in {"confirmed", "rejected", "failed"}
    PROVE  /\ Completed(mem, result) \in Snapshot
           /\ Completed(mem, result).journal = mem.journal
           /\ Completed(mem, result).quarantined =
                IF result = "failed" THEN mem.quarantined \cup {txn.dev}
                                     ELSE mem.quarantined
           /\ \A d \in Device \ {txn.dev} :
                Completed(mem, result).ticket[d] = mem.ticket[d]
           /\ Completed(mem, result).ticket[txn.dev] =
                IF result # "confirmed" THEN mem.ticket[txn.dev]
                ELSE IF txn.action = "turn_on" THEN 0
                ELSE IF CommitsTicket(txn.source) THEN txn.act
                ELSE mem.ticket[txn.dev]
<1>1. CASE result = "failed"
  BY <1>1, LatchedFields DEF Completed
<1>2. CASE result = "rejected"
  BY <1>2 DEF Completed
<1>3. CASE result = "confirmed" /\ txn.action = "turn_off"
  <2> DEFINE t == IF CommitsTicket(txn.source) THEN txn.act
                  ELSE mem.ticket[txn.dev]
             f == IF txn.source = "policy" THEN mem.fences \cup {"shed"}
                  ELSE mem.fences
  <2>1. Completed(mem, result) =
          [mem EXCEPT !.ticket[txn.dev] = t, !.fences = f]
    BY <1>3 DEF Completed
  <2>2. t \in SerialOrNone /\ f \in SUBSET Fence
    BY DEF Snapshot, Serial, SerialOrNone, Fence
  <2>3. result # "failed" /\ ~(result # "confirmed") /\ txn.action # "turn_on"
    BY <1>3
  <2>4. /\ Completed(mem, result) \in Snapshot
        /\ Completed(mem, result).journal = mem.journal
        /\ Completed(mem, result).quarantined = mem.quarantined
        /\ Completed(mem, result).ticket = [mem.ticket EXCEPT ![txn.dev] = t]
    <3> DEFINE e == [mem EXCEPT !.ticket[txn.dev] = t]
    <3>1. /\ e \in Snapshot /\ e.journal = mem.journal
          /\ e.quarantined = mem.quarantined
          /\ e.ticket = [mem.ticket EXCEPT ![txn.dev] = t]
      <4> HIDE DEF t
      <4> QED
        BY <2>2 DEF Snapshot
    <3>2. Completed(mem, result) = [e EXCEPT !.fences = f]
      <4> HIDE DEF t, f
      <4> QED
        BY <2>1 DEF Snapshot
    <3> HIDE DEF t, f, e
    <3> QED
      BY <2>2, <3>1, <3>2 DEF Snapshot
  <2>5. /\ \A d \in Device \ {txn.dev} :
             Completed(mem, result).ticket[d] = mem.ticket[d]
        /\ Completed(mem, result).ticket[txn.dev] = t
    <3> HIDE DEF t, f
    <3> QED
      BY <2>4 DEF Snapshot
  <2> QED
    BY <2>3, <2>4, <2>5
<1>4. CASE result = "confirmed" /\ txn.action = "turn_on"
  <2>1. Completed(mem, result) =
          [Removed(mem, txn.dev) EXCEPT !.fences = @ \cup {"restore"}]
    BY <1>4 DEF Completed
  <2>2. /\ Removed(mem, txn.dev) \in Snapshot
        /\ Removed(mem, txn.dev).ticket = [mem.ticket EXCEPT ![txn.dev] = 0]
        /\ Removed(mem, txn.dev).quarantined = mem.quarantined
        /\ Removed(mem, txn.dev).journal = mem.journal
    BY RemovedFields
  <2> QED
    BY <1>4, <2>1, <2>2 DEF Snapshot, Fence
<1> QED
  BY <1>1, <1>2, <1>3, <1>4

(* What Finish does to the fields of memory.                               *)
LEMMA FinishFields ==
    ASSUME mem \in Snapshot, txn.act \in Serial, txn.dev \in Device,
           txn.action \in {"turn_off", "turn_on"},
           NEW result \in {"confirmed", "rejected", "failed"}, Finish(result)
    PROVE  /\ mem' \in Snapshot
           /\ mem'.journal = [mem.journal EXCEPT ![txn.act] =
                [dev |-> txn.dev, action |-> txn.action, phase |-> result]]
           /\ mem'.quarantined =
                IF result = "failed" THEN mem.quarantined \cup {txn.dev}
                                     ELSE mem.quarantined
           /\ \A d \in Device \ {txn.dev} : mem'.ticket[d] = mem.ticket[d]
           /\ mem'.ticket[txn.dev] =
                IF result # "confirmed" THEN mem.ticket[txn.dev]
                ELSE IF txn.action = "turn_on" THEN 0
                ELSE IF CommitsTicket(txn.source) THEN txn.act
                ELSE mem.ticket[txn.dev]
<1> DEFINE c == Completed(mem, result)
<1>1. c \in Snapshot
  BY CompletedFields
<1>2. result \in Phase
  BY DEF Phase
<1>3. /\ mem' \in Snapshot /\ mem'.ticket = c.ticket
      /\ mem'.quarantined = c.quarantined
      /\ mem'.journal = [c.journal EXCEPT ![txn.act] =
            [dev |-> txn.dev, action |-> txn.action, phase |-> result]]
  <2>1. mem' = Recorded(c, txn.act, result)
    BY DEF Finish
  <2> HIDE DEF c
  <2> QED
    BY <1>1, <1>2, <2>1, RecordedFields
<1>4. mem'.journal = [mem.journal EXCEPT ![txn.act] =
         [dev |-> txn.dev, action |-> txn.action, phase |-> result]]
  <2>1. c.journal = mem.journal
    BY CompletedFields
  <2> HIDE DEF c
  <2> QED
    BY <1>3, <2>1
<1>5. mem'.quarantined = IF result = "failed" THEN mem.quarantined \cup {txn.dev}
                                              ELSE mem.quarantined
  <2>1. c.quarantined = IF result = "failed" THEN mem.quarantined \cup {txn.dev}
                                             ELSE mem.quarantined
    BY CompletedFields
  <2> HIDE DEF c
  <2> QED
    BY <1>3, <2>1
<1>6. /\ \A d \in Device \ {txn.dev} : mem'.ticket[d] = mem.ticket[d]
      /\ mem'.ticket[txn.dev] =
           IF result # "confirmed" THEN mem.ticket[txn.dev]
           ELSE IF txn.action = "turn_on" THEN 0
           ELSE IF CommitsTicket(txn.source) THEN txn.act
           ELSE mem.ticket[txn.dev]
  <2>1. /\ \A d \in Device \ {txn.dev} : c.ticket[d] = mem.ticket[d]
        /\ c.ticket[txn.dev] =
             IF result # "confirmed" THEN mem.ticket[txn.dev]
             ELSE IF txn.action = "turn_on" THEN 0
             ELSE IF CommitsTicket(txn.source) THEN txn.act
             ELSE mem.ticket[txn.dev]
    BY CompletedFields
  <2> HIDE DEF c
  <2> QED
    BY <1>3, <2>1
<1> QED
  BY <1>3, <1>4, <1>5, <1>6

-----------------------------------------------------------------------------
(* Each step of the protocol preserves the invariant.                      *)

(* The transaction under way, as the invariant describes it.               *)
LEMMA ExecutingFacts ==
    ASSUME IInv, txn.pc \in Executing
    PROVE  /\ txn.act \in Serial /\ txn.act < next
           /\ \A n \in Serial : n >= next => n # txn.act
           /\ txn.dev \in Device
           /\ txn.action \in {"turn_off", "turn_on"}
           /\ mem \in Snapshot /\ disk \in Snapshot /\ txn \in Transaction
           /\ proc # "down"
           /\ mem.journal[txn.act].dev = txn.dev
           /\ mem.journal[txn.act].action = txn.action
           /\ mem.journal[txn.act].phase \in PhaseAt(txn.pc)
BY ConstantsAssumption
   DEF IInv, InFlight, TypeOK, DownIsEmpty, Idle, Executing, Commanding, Serial

(* The invariant's word on one ticket.                                     *)
LEMMA TicketsProve ==
    ASSUME IInv, NEW d \in Device
    PROVE  /\ mem.ticket[d] # 0 => mem.journal[mem.ticket[d]] =
                [dev |-> d, action |-> "turn_off", phase |-> "confirmed"]
           /\ disk.ticket[d] # 0 => disk.journal[disk.ticket[d]] =
                [dev |-> d, action |-> "turn_off", phase |-> "confirmed"]
BY DEF IInv, TicketIsProof, Proves

(* Proof of ownership survives the writing of one journal record that no   *)
(* remaining ticket names.                                                 *)
LEMMA ProvesKept ==
    ASSUME NEW m \in Snapshot, NEW k \in Snapshot, NEW n \in Serial, NEW r,
           Proves(m),
           k.journal = [m.journal EXCEPT ![n] = r],
           \A d \in Device : k.ticket[d] \in {0, m.ticket[d]},
           \A d \in Device : k.ticket[d] # n
    PROVE  Proves(k)
BY DEF Proves, Snapshot, Serial, SerialOrNone

(* No ticket names a record that is not a confirmed stop.                  *)
LEMMA UnconfirmedIsNoTicket ==
    ASSUME NEW m \in Snapshot, NEW n \in Serial, Proves(m),
           m.journal[n].phase # "confirmed"
    PROVE  \A d \in Device : m.ticket[d] # n
<1> SUFFICES ASSUME NEW d \in Device, m.ticket[d] = n
             PROVE  FALSE
  OBVIOUS
<1>1. m.ticket[d] # 0
  BY ConstantsAssumption DEF Serial
<1>2. m.journal[n] = [dev |-> d, action |-> "turn_off", phase |-> "confirmed"]
  BY <1>1 DEF Proves
<1> QED
  BY <1>2

(* The prepared save lands and the record becomes "dispatched".           *)
LEMMA SavePreparedStep ==
    ASSUME IInv, SavePrepared
    PROVE  IInv'
<1>1. txn.pc = "save_prepared" /\ txn.pc \in Executing
  BY DEF SavePrepared, Executing, Commanding
<1>2. /\ txn.act \in Serial /\ txn.act < next
      /\ \A n \in Serial : n >= next => n # txn.act
      /\ txn.dev \in Device
      /\ txn.action \in {"turn_off", "turn_on"}
      /\ mem \in Snapshot /\ disk \in Snapshot /\ txn \in Transaction
      /\ proc # "down"
      /\ mem.journal[txn.act].dev = txn.dev
      /\ mem.journal[txn.act].action = txn.action
      /\ mem.journal[txn.act].phase \in PhaseAt(txn.pc)
  BY <1>1, ExecutingFacts
<1>3. "dispatched" \in Phase
  BY DEF Phase, Unresolved
<1>4. /\ mem' \in Snapshot
      /\ mem'.ticket = mem.ticket /\ mem'.quarantined = mem.quarantined
      /\ mem'.journal = [mem.journal EXCEPT ![txn.act] =
            [dev |-> txn.dev, action |-> txn.action, phase |-> "dispatched"]]
  BY <1>2, <1>3, RecordedFields DEF SavePrepared
<1>5. /\ txn' \in Transaction /\ txn'.pc = "save_dispatched"
      /\ txn'.act = txn.act /\ txn'.dev = txn.dev
      /\ txn'.action = txn.action /\ txn'.ticket = txn.ticket
  BY <1>2 DEF SavePrepared, Transaction, Saving, Commanding
<1>6. /\ proc' = proc /\ next' = next /\ window' = window /\ exposed' = exposed
      /\ spent' = spent /\ disk' = mem
  BY DEF SavePrepared
<1>7. TypeOK'
  BY <1>1, <1>2, <1>3, <1>4, <1>5, <1>6 DEF IInv, TypeOK
<1>8. DownIsEmpty'
  BY <1>1, <1>2, <1>3, <1>4, <1>5, <1>6 DEF IInv, DownIsEmpty
<1>9. UnusedSerials'
  BY <1>1, <1>2, <1>3, <1>4, <1>5, <1>6 DEF IInv, UnusedSerials, Snapshot
<1>10. JournalsAgree'
  BY <1>1, <1>2, <1>3, <1>4, <1>5, <1>6
  DEF IInv, JournalsAgree, Snapshot, Blank
<1>11. InFlight'
  BY <1>1, <1>2, <1>3, <1>4, <1>5, <1>6
  DEF IInv, InFlight, PhaseAt, Executing, Commanding, Snapshot
<1>12. ClearsALoad'
  BY <1>1, <1>2, <1>3, <1>4, <1>5, <1>6 DEF IInv, ClearsALoad
<1>13. TicketIsProof'
  <2>1. Proves(mem) /\ Proves(disk)
    BY DEF IInv, TicketIsProof
  <2>2. mem.journal[txn.act].phase # "confirmed"
    BY <1>1, <1>2 DEF PhaseAt
  <2>3. \A d \in Device : mem.ticket[d] # txn.act
    BY <1>2, <2>1, <2>2, UnconfirmedIsNoTicket
  <2>4. Proves(mem')
    BY <1>2, <1>4, <2>1, <2>3, ProvesKept
  <2> QED
    BY <1>6, <2>1, <2>4 DEF TicketIsProof
<1>14. DispatchedOnDisk'
  BY <1>1, <1>2, <1>3, <1>4, <1>5, <1>6 DEF IInv, DispatchedOnDisk, Commanding
<1>15. AmbiguityIsBlocked'
  BY <1>1, <1>2, <1>3, <1>4, <1>5, <1>6
  DEF IInv, AmbiguityIsBlocked, Covered, UnresolvedDevices, Unresolved,
      Outstanding, Commanding, Snapshot
<1>16. SpentTicketsAreBlocked'
  BY <1>1, <1>2, <1>3, <1>4, <1>5, <1>6
  DEF IInv, SpentTicketsAreBlocked, Covered, UnresolvedDevices, Unresolved,
      Outstanding, Commanding, Snapshot
<1>17. SpentTicketsAreOld'
  BY <1>1, <1>2, <1>3, <1>4, <1>5, <1>6
  DEF IInv, SpentTicketsAreOld, Executing, Commanding
<1> QED
  BY <1>7, <1>8, <1>9, <1>10, <1>11, <1>12, <1>13, <1>14, <1>15, <1>16, <1>17
  DEF IInv

(* The dispatched save lands: from here on the file knows the intent.     *)
LEMMA SaveDispatchedStep ==
    ASSUME IInv, SaveDispatched
    PROVE  IInv'
<1>1. txn.pc = "save_dispatched" /\ txn.pc \in Executing
  BY DEF SaveDispatched, Executing, Commanding
<1>2. /\ txn.act \in Serial /\ txn.act < next
      /\ \A n \in Serial : n >= next => n # txn.act
      /\ txn.dev \in Device
      /\ txn.action \in {"turn_off", "turn_on"}
      /\ mem \in Snapshot /\ disk \in Snapshot /\ txn \in Transaction
      /\ proc # "down"
      /\ mem.journal[txn.act].dev = txn.dev
      /\ mem.journal[txn.act].action = txn.action
      /\ mem.journal[txn.act].phase \in PhaseAt(txn.pc)
  BY <1>1, ExecutingFacts
<1>3. /\ txn' \in Transaction /\ txn'.pc = "permission"
      /\ txn'.act = txn.act /\ txn'.dev = txn.dev
      /\ txn'.action = txn.action /\ txn'.ticket = txn.ticket
  BY <1>2 DEF SaveDispatched, Transaction, Saving, Commanding
<1>4. /\ mem' = mem /\ proc' = proc /\ next' = next /\ window' = window
      /\ exposed' = exposed /\ spent' = spent /\ disk' = mem
  BY DEF SaveDispatched
<1>5. TypeOK'
  BY <1>1, <1>2, <1>3, <1>4 DEF IInv, TypeOK
<1>6. DownIsEmpty'
  BY <1>1, <1>2, <1>3, <1>4 DEF IInv, DownIsEmpty
<1>7. UnusedSerials'
  BY <1>1, <1>2, <1>3, <1>4 DEF IInv, UnusedSerials, Snapshot
<1>8. JournalsAgree'
  BY <1>1, <1>2, <1>3, <1>4 DEF IInv, JournalsAgree, Snapshot, Blank
<1>9. InFlight'
  BY <1>1, <1>2, <1>3, <1>4
  DEF IInv, InFlight, PhaseAt, Executing, Commanding, Snapshot
<1>10. ClearsALoad'
  BY <1>1, <1>2, <1>3, <1>4 DEF IInv, ClearsALoad
<1>11. TicketIsProof'
  BY <1>4 DEF IInv, TicketIsProof
<1>12. DispatchedOnDisk'
  BY <1>1, <1>2, <1>3, <1>4
  DEF IInv, DispatchedOnDisk, Commanding, PhaseAt, Snapshot, Record
<1>13. AmbiguityIsBlocked'
  BY <1>1, <1>2, <1>3, <1>4
  DEF IInv, AmbiguityIsBlocked, Covered, UnresolvedDevices, Unresolved,
      Outstanding, Commanding, Snapshot
<1>14. SpentTicketsAreBlocked'
  BY <1>1, <1>2, <1>3, <1>4
  DEF IInv, SpentTicketsAreBlocked, Covered, UnresolvedDevices, Unresolved,
      Outstanding, Commanding, Snapshot
<1>15. SpentTicketsAreOld'
  BY <1>1, <1>2, <1>3, <1>4 DEF IInv, SpentTicketsAreOld, Executing, Commanding
<1> QED
  BY <1>5, <1>6, <1>7, <1>8, <1>9, <1>10, <1>11, <1>12, <1>13, <1>14, <1>15
  DEF IInv

(* set_temperature is called: nothing the invariant speaks of changes.    *)
LEMMA SetTemperatureStep ==
    ASSUME NEW reading \in Reading, IInv, SetTemperature(reading)
    PROVE  IInv'
<1>1. txn.pc = "permission" /\ txn.pc \in Executing
  BY DEF SetTemperature, Executing, Commanding
<1>2. /\ txn.act \in Serial /\ txn.act < next
      /\ \A n \in Serial : n >= next => n # txn.act
      /\ txn.dev \in Device
      /\ txn.action \in {"turn_off", "turn_on"}
      /\ mem \in Snapshot /\ disk \in Snapshot /\ txn \in Transaction
      /\ proc # "down"
      /\ mem.journal[txn.act].dev = txn.dev
      /\ mem.journal[txn.act].action = txn.action
      /\ mem.journal[txn.act].phase \in PhaseAt(txn.pc)
  BY <1>1, ExecutingFacts
<1>3. /\ txn' \in Transaction /\ txn'.pc = "tempering"
      /\ txn'.act = txn.act /\ txn'.dev = txn.dev
      /\ txn'.action = txn.action /\ txn'.ticket = txn.ticket
  BY <1>2 DEF SetTemperature, Transaction, Saving, Commanding
<1>4. /\ mem' = mem /\ disk' = disk /\ proc' = proc /\ next' = next
      /\ window' = window /\ exposed' = exposed /\ spent' = spent
  BY DEF SetTemperature
<1>5. TypeOK'
  BY <1>1, <1>2, <1>3, <1>4 DEF IInv, TypeOK
<1>6. DownIsEmpty'
  BY <1>1, <1>2, <1>3, <1>4 DEF IInv, DownIsEmpty
<1>7. UnusedSerials'
  BY <1>1, <1>2, <1>3, <1>4 DEF IInv, UnusedSerials, Snapshot
<1>8. JournalsAgree'
  BY <1>1, <1>2, <1>3, <1>4 DEF IInv, JournalsAgree, Snapshot, Blank
<1>9. InFlight'
  BY <1>1, <1>2, <1>3, <1>4
  DEF IInv, InFlight, PhaseAt, Executing, Commanding, Snapshot
<1>10. ClearsALoad'
  BY <1>1, <1>2, <1>3, <1>4 DEF IInv, ClearsALoad
<1>11. TicketIsProof'
  BY <1>4 DEF IInv, TicketIsProof
<1>12. DispatchedOnDisk'
  BY <1>1, <1>2, <1>3, <1>4 DEF IInv, DispatchedOnDisk, Commanding
<1>13. AmbiguityIsBlocked'
  BY <1>1, <1>2, <1>3, <1>4
  DEF IInv, AmbiguityIsBlocked, Covered, UnresolvedDevices, Unresolved,
      Outstanding, Commanding, Snapshot
<1>14. SpentTicketsAreBlocked'
  BY <1>1, <1>2, <1>3, <1>4
  DEF IInv, SpentTicketsAreBlocked, Covered, UnresolvedDevices, Unresolved,
      Outstanding, Commanding, Snapshot
<1>15. SpentTicketsAreOld'
  BY <1>1, <1>2, <1>3, <1>4 DEF IInv, SpentTicketsAreOld, Executing, Commanding
<1> QED
  BY <1>5, <1>6, <1>7, <1>8, <1>9, <1>10, <1>11, <1>12, <1>13, <1>14, <1>15
  DEF IInv

(* set_temperature returned; permission is checked again.                 *)
LEMMA TemperatureSetStep ==
    ASSUME IInv, TemperatureSet
    PROVE  IInv'
<1>1. txn.pc = "tempering" /\ txn.pc \in Executing
  BY DEF TemperatureSet, Executing, Commanding
<1>2. /\ txn.act \in Serial /\ txn.act < next
      /\ \A n \in Serial : n >= next => n # txn.act
      /\ txn.dev \in Device
      /\ txn.action \in {"turn_off", "turn_on"}
      /\ mem \in Snapshot /\ disk \in Snapshot /\ txn \in Transaction
      /\ proc # "down"
      /\ mem.journal[txn.act].dev = txn.dev
      /\ mem.journal[txn.act].action = txn.action
      /\ mem.journal[txn.act].phase \in PhaseAt(txn.pc)
  BY <1>1, ExecutingFacts
<1>3. /\ txn' \in Transaction /\ txn'.pc = "permission"
      /\ txn'.act = txn.act /\ txn'.dev = txn.dev
      /\ txn'.action = txn.action /\ txn'.ticket = txn.ticket
  BY <1>2 DEF TemperatureSet, Transaction, Saving, Commanding
<1>4. /\ mem' = mem /\ disk' = disk /\ proc' = proc /\ next' = next
      /\ window' = window /\ exposed' = exposed /\ spent' = spent
  BY DEF TemperatureSet
<1>5. TypeOK'
  BY <1>1, <1>2, <1>3, <1>4 DEF IInv, TypeOK
<1>6. DownIsEmpty'
  BY <1>1, <1>2, <1>3, <1>4 DEF IInv, DownIsEmpty
<1>7. UnusedSerials'
  BY <1>1, <1>2, <1>3, <1>4 DEF IInv, UnusedSerials, Snapshot
<1>8. JournalsAgree'
  BY <1>1, <1>2, <1>3, <1>4 DEF IInv, JournalsAgree, Snapshot, Blank
<1>9. InFlight'
  BY <1>1, <1>2, <1>3, <1>4
  DEF IInv, InFlight, PhaseAt, Executing, Commanding, Snapshot
<1>10. ClearsALoad'
  BY <1>1, <1>2, <1>3, <1>4 DEF IInv, ClearsALoad
<1>11. TicketIsProof'
  BY <1>4 DEF IInv, TicketIsProof
<1>12. DispatchedOnDisk'
  BY <1>1, <1>2, <1>3, <1>4 DEF IInv, DispatchedOnDisk, Commanding
<1>13. AmbiguityIsBlocked'
  BY <1>1, <1>2, <1>3, <1>4
  DEF IInv, AmbiguityIsBlocked, Covered, UnresolvedDevices, Unresolved,
      Outstanding, Commanding, Snapshot
<1>14. SpentTicketsAreBlocked'
  BY <1>1, <1>2, <1>3, <1>4
  DEF IInv, SpentTicketsAreBlocked, Covered, UnresolvedDevices, Unresolved,
      Outstanding, Commanding, Snapshot
<1>15. SpentTicketsAreOld'
  BY <1>1, <1>2, <1>3, <1>4 DEF IInv, SpentTicketsAreOld, Executing, Commanding
<1> QED
  BY <1>5, <1>6, <1>7, <1>8, <1>9, <1>10, <1>11, <1>12, <1>13, <1>14, <1>15
  DEF IInv

(* The service call returned; the readback begins.                        *)
LEMMA CallReturnsStep ==
    ASSUME IInv, CallReturns
    PROVE  IInv'
<1>1. txn.pc = "calling" /\ txn.pc \in Executing
  BY DEF CallReturns, Executing, Commanding
<1>2. /\ txn.act \in Serial /\ txn.act < next
      /\ \A n \in Serial : n >= next => n # txn.act
      /\ txn.dev \in Device
      /\ txn.action \in {"turn_off", "turn_on"}
      /\ mem \in Snapshot /\ disk \in Snapshot /\ txn \in Transaction
      /\ proc # "down"
      /\ mem.journal[txn.act].dev = txn.dev
      /\ mem.journal[txn.act].action = txn.action
      /\ mem.journal[txn.act].phase \in PhaseAt(txn.pc)
  BY <1>1, ExecutingFacts
<1>3. /\ txn' \in Transaction /\ txn'.pc = "readback"
      /\ txn'.act = txn.act /\ txn'.dev = txn.dev
      /\ txn'.action = txn.action /\ txn'.ticket = txn.ticket
  BY <1>2 DEF CallReturns, Transaction, Saving, Commanding
<1>4. /\ mem' = mem /\ disk' = disk /\ proc' = proc /\ next' = next
      /\ window' = window /\ exposed' = exposed /\ spent' = spent
  BY DEF CallReturns
<1>5. TypeOK'
  BY <1>1, <1>2, <1>3, <1>4 DEF IInv, TypeOK
<1>6. DownIsEmpty'
  BY <1>1, <1>2, <1>3, <1>4 DEF IInv, DownIsEmpty
<1>7. UnusedSerials'
  BY <1>1, <1>2, <1>3, <1>4 DEF IInv, UnusedSerials, Snapshot
<1>8. JournalsAgree'
  BY <1>1, <1>2, <1>3, <1>4 DEF IInv, JournalsAgree, Snapshot, Blank
<1>9. InFlight'
  BY <1>1, <1>2, <1>3, <1>4
  DEF IInv, InFlight, PhaseAt, Executing, Commanding, Snapshot
<1>10. ClearsALoad'
  BY <1>1, <1>2, <1>3, <1>4 DEF IInv, ClearsALoad
<1>11. TicketIsProof'
  BY <1>4 DEF IInv, TicketIsProof
<1>12. DispatchedOnDisk'
  BY <1>1, <1>2, <1>3, <1>4 DEF IInv, DispatchedOnDisk, Commanding
<1>13. AmbiguityIsBlocked'
  BY <1>1, <1>2, <1>3, <1>4
  DEF IInv, AmbiguityIsBlocked, Covered, UnresolvedDevices, Unresolved,
      Outstanding, Commanding, Snapshot
<1>14. SpentTicketsAreBlocked'
  BY <1>1, <1>2, <1>3, <1>4
  DEF IInv, SpentTicketsAreBlocked, Covered, UnresolvedDevices, Unresolved,
      Outstanding, Commanding, Snapshot
<1>15. SpentTicketsAreOld'
  BY <1>1, <1>2, <1>3, <1>4 DEF IInv, SpentTicketsAreOld, Executing, Commanding
<1> QED
  BY <1>5, <1>6, <1>7, <1>8, <1>9, <1>10, <1>11, <1>12, <1>13, <1>14, <1>15
  DEF IInv

(* The emergency fallback is called after the first readback.             *)
LEMMA CallFallbackStep ==
    ASSUME NEW reading \in Reading, IInv, CallFallback(reading)
    PROVE  IInv'
<1>1. txn.pc = "readback" /\ txn.pc \in Executing
  BY DEF CallFallback, Executing, Commanding
<1>2. /\ txn.act \in Serial /\ txn.act < next
      /\ \A n \in Serial : n >= next => n # txn.act
      /\ txn.dev \in Device
      /\ txn.action \in {"turn_off", "turn_on"}
      /\ mem \in Snapshot /\ disk \in Snapshot /\ txn \in Transaction
      /\ proc # "down"
      /\ mem.journal[txn.act].dev = txn.dev
      /\ mem.journal[txn.act].action = txn.action
      /\ mem.journal[txn.act].phase \in PhaseAt(txn.pc)
  BY <1>1, ExecutingFacts
<1>3. /\ txn' \in Transaction /\ txn'.pc = "calling"
      /\ txn'.act = txn.act /\ txn'.dev = txn.dev
      /\ txn'.action = txn.action /\ txn'.ticket = txn.ticket
  BY <1>2 DEF CallFallback, Transaction, Saving, Commanding
<1>4. /\ mem' = mem /\ disk' = disk /\ proc' = proc /\ next' = next
      /\ window' = window /\ exposed' = exposed /\ spent' = spent
  BY DEF CallFallback
<1>5. TypeOK'
  BY <1>1, <1>2, <1>3, <1>4 DEF IInv, TypeOK
<1>6. DownIsEmpty'
  BY <1>1, <1>2, <1>3, <1>4 DEF IInv, DownIsEmpty
<1>7. UnusedSerials'
  BY <1>1, <1>2, <1>3, <1>4 DEF IInv, UnusedSerials, Snapshot
<1>8. JournalsAgree'
  BY <1>1, <1>2, <1>3, <1>4 DEF IInv, JournalsAgree, Snapshot, Blank
<1>9. InFlight'
  BY <1>1, <1>2, <1>3, <1>4
  DEF IInv, InFlight, PhaseAt, Executing, Commanding, Snapshot
<1>10. ClearsALoad'
  BY <1>1, <1>2, <1>3, <1>4 DEF IInv, ClearsALoad
<1>11. TicketIsProof'
  BY <1>4 DEF IInv, TicketIsProof
<1>12. DispatchedOnDisk'
  BY <1>1, <1>2, <1>3, <1>4 DEF IInv, DispatchedOnDisk, Commanding
<1>13. AmbiguityIsBlocked'
  BY <1>1, <1>2, <1>3, <1>4
  DEF IInv, AmbiguityIsBlocked, Covered, UnresolvedDevices, Unresolved,
      Outstanding, Commanding, Snapshot
<1>14. SpentTicketsAreBlocked'
  BY <1>1, <1>2, <1>3, <1>4
  DEF IInv, SpentTicketsAreBlocked, Covered, UnresolvedDevices, Unresolved,
      Outstanding, Commanding, Snapshot
<1>15. SpentTicketsAreOld'
  BY <1>1, <1>2, <1>3, <1>4 DEF IInv, SpentTicketsAreOld, Executing, Commanding
<1> QED
  BY <1>5, <1>6, <1>7, <1>8, <1>9, <1>10, <1>11, <1>12, <1>13, <1>14, <1>15
  DEF IInv

(* The service is called.  A ticket an ON is issued for was not spent.     *)
LEMMA CallStep ==
    ASSUME NEW reading \in Reading, IInv, Call(reading)
    PROVE  IInv'
<1>1. txn.pc = "permission" /\ txn.pc \in Executing
  BY DEF Call, Executing, Commanding
<1>2. /\ txn.act \in Serial /\ txn.act < next
      /\ \A n \in Serial : n >= next => n # txn.act
      /\ txn.dev \in Device
      /\ txn.action \in {"turn_off", "turn_on"}
      /\ mem \in Snapshot /\ disk \in Snapshot /\ txn \in Transaction
      /\ proc # "down"
      /\ mem.journal[txn.act].dev = txn.dev
      /\ mem.journal[txn.act].action = txn.action
      /\ mem.journal[txn.act].phase \in PhaseAt(txn.pc)
  BY <1>1, ExecutingFacts
<1>3. /\ txn' \in Transaction /\ txn'.pc = "calling"
      /\ txn'.act = txn.act /\ txn'.dev = txn.dev
      /\ txn'.action = txn.action /\ txn'.ticket = txn.ticket
  BY <1>2 DEF Call, Transaction, Saving, Commanding
<1>4. /\ mem' = mem /\ disk' = disk /\ proc' = proc /\ next' = next
      /\ window' = window /\ exposed' = exposed \cup {txn.dev}
  BY DEF Call
<1>5. \/ txn.action = "turn_off" /\ spent' = spent
      \/ /\ txn.action = "turn_on" /\ spent' = spent \cup {txn.ticket}
         /\ txn.ticket = mem.ticket[txn.dev] /\ txn.ticket # 0
         /\ txn.ticket \in Serial
  <2>1. txn.action = "turn_on" => txn.ticket # 0 /\ txn.ticket \in SerialOrNone
    BY <1>1 DEF IInv, InFlight, TypeOK, Transaction
  <2>2. ASSUME NEW n \in SerialOrNone, n # 0
        PROVE  n \in Serial
    BY <2>2, ConstantsAssumption DEF Serial, SerialOrNone
  <2> QED
    BY <1>2, <2>1, <2>2 DEF Call, DispatchPermitted, OffPermitted, OnPermitted
<1>6. txn.action = "turn_on" =>
        mem.journal[txn.ticket] =
            [dev |-> txn.dev, action |-> "turn_off", phase |-> "confirmed"]
  BY <1>2, <1>5 DEF IInv, TicketIsProof, Proves
<1>7. Covered(disk, txn.dev)
  BY <1>1, <1>2
  DEF IInv, DispatchedOnDisk, Covered, UnresolvedDevices, Unresolved
<1>8. TypeOK'
  BY <1>1, <1>2, <1>3, <1>4, <1>5, <1>6, <1>7 DEF IInv, TypeOK
<1>9. DownIsEmpty'
  BY <1>1, <1>2, <1>3, <1>4, <1>5, <1>6, <1>7 DEF IInv, DownIsEmpty
<1>10. UnusedSerials'
  BY <1>1, <1>2, <1>3, <1>4, <1>5, <1>6, <1>7 DEF IInv, UnusedSerials, Snapshot
<1>11. JournalsAgree'
  BY <1>1, <1>2, <1>3, <1>4, <1>5, <1>6, <1>7
  DEF IInv, JournalsAgree, Snapshot, Blank
<1>12. InFlight'
  BY <1>1, <1>2, <1>3, <1>4, <1>5, <1>6, <1>7
  DEF IInv, InFlight, PhaseAt, Executing, Commanding, Snapshot
<1>13. ClearsALoad'
  BY <1>1, <1>2, <1>3, <1>4, <1>5, <1>6, <1>7 DEF IInv, ClearsALoad
<1>14. TicketIsProof'
  BY <1>4 DEF IInv, TicketIsProof
<1>15. DispatchedOnDisk'
  BY <1>1, <1>2, <1>3, <1>4, <1>5, <1>6, <1>7
  DEF IInv, DispatchedOnDisk, Commanding
<1>16. AmbiguityIsBlocked'
  BY <1>1, <1>2, <1>3, <1>4, <1>7
  DEF IInv, AmbiguityIsBlocked, Outstanding, Covered, UnresolvedDevices
<1>17. SpentTicketsAreBlocked'
  <2>1. ASSUME NEW d \in Device, mem'.ticket[d] \in spent'
        PROVE  \/ d \in mem'.quarantined
               \/ /\ txn'.dev = d /\ txn'.action = "turn_on"
                  /\ txn'.pc \in Outstanding
    <3>1. CASE mem.ticket[d] \in spent
      BY <3>1, <1>1, <1>4
      DEF IInv, SpentTicketsAreBlocked, Outstanding
    <3>2. CASE mem.ticket[d] \notin spent
      <4>1. txn.action = "turn_on" /\ mem.ticket[d] = txn.ticket
        BY <2>1, <3>2, <1>4, <1>5
      <4>2. mem.journal[txn.ticket] =
              [dev |-> d, action |-> "turn_off", phase |-> "confirmed"]
        BY <4>1, <1>5, TicketsProve
      <4> QED
        BY <4>1, <4>2, <1>6, <1>3 DEF Outstanding
    <3> QED
      BY <3>1, <3>2
  <2>2. ASSUME NEW d \in Device, disk'.ticket[d] \in spent'
        PROVE  Covered(disk', d)
    <3>1. CASE disk.ticket[d] \in spent
      BY <3>1, <1>4
      DEF IInv, SpentTicketsAreBlocked, Covered, UnresolvedDevices
    <3>2. CASE disk.ticket[d] \notin spent
      <4>1. txn.action = "turn_on" /\ disk.ticket[d] = txn.ticket
        BY <2>2, <3>2, <1>4, <1>5
      <4>2. disk.journal[txn.ticket] =
              [dev |-> d, action |-> "turn_off", phase |-> "confirmed"]
        BY <4>1, <1>5 DEF IInv, TicketIsProof, Proves
      <4>3. disk.journal[txn.ticket].dev = mem.journal[txn.ticket].dev
        BY <4>1, <4>2, <1>2, <1>5 DEF IInv, JournalsAgree, Blank
      <4> QED
        BY <4>1, <4>2, <4>3, <1>6, <1>4, <1>7 DEF Covered, UnresolvedDevices
    <3> QED
      BY <3>1, <3>2
  <2> QED
    BY <2>1, <2>2 DEF SpentTicketsAreBlocked
<1>18. SpentTicketsAreOld'
  <2>1. txn.action = "turn_on" => txn.ticket # txn.act
    BY <1>1, <1>2, <1>6 DEF PhaseAt
  <2>2. txn.action = "turn_on" => txn.ticket < next
    <3>1. next \in Nat /\ \A n \in Serial : n \in Nat
      BY ConstantsAssumption DEF IInv, TypeOK, Serial
    <3>2. txn.action = "turn_on" /\ txn.ticket >= next =>
            mem.journal[txn.ticket] = Blank
      BY <1>5 DEF IInv, UnusedSerials
    <3> QED
      BY <3>1, <3>2, <1>6, <1>5 DEF Blank
  <2> QED
    BY <2>1, <2>2, <1>1, <1>3, <1>4, <1>5
    DEF IInv, SpentTicketsAreOld, Executing, Commanding
<1> QED
  BY <1>8, <1>9, <1>10, <1>11, <1>12, <1>13, <1>14, <1>15, <1>16, <1>17, <1>18
  DEF IInv

(* A terminal result is projected and recorded (complete and the terminal  *)
(* record of execute), whatever the result is.                             *)
LEMMA FinishStep ==
    ASSUME IInv, NEW result \in {"confirmed", "rejected", "failed"},
           Finish(result),
           txn.pc \in {"permission"} \cup Commanding,
           result = "rejected" => txn.pc = "permission",
           UNCHANGED <<proc, disk, next, spent>>,
           exposed' = IF result = "confirmed" THEN exposed \ {txn.dev}
                                              ELSE exposed
    PROVE  IInv'
<1>1. txn.pc \in Executing /\ txn.pc \notin {"save_prepared", "save_terminal"}
  BY DEF Executing, Commanding
<1>2. /\ txn.act \in Serial /\ txn.act < next
      /\ \A n \in Serial : n >= next => n # txn.act
      /\ txn.dev \in Device
      /\ txn.action \in {"turn_off", "turn_on"}
      /\ mem \in Snapshot /\ disk \in Snapshot /\ txn \in Transaction
      /\ proc # "down"
      /\ mem.journal[txn.act].dev = txn.dev
      /\ mem.journal[txn.act].action = txn.action
      /\ mem.journal[txn.act].phase \in PhaseAt(txn.pc)
  BY <1>1, ExecutingFacts
<1>3. /\ mem' \in Snapshot
      /\ mem'.journal = [mem.journal EXCEPT ![txn.act] =
            [dev |-> txn.dev, action |-> txn.action, phase |-> result]]
      /\ mem'.quarantined =
           IF result = "failed" THEN mem.quarantined \cup {txn.dev}
                                ELSE mem.quarantined
      /\ \A d \in Device \ {txn.dev} : mem'.ticket[d] = mem.ticket[d]
      /\ mem'.ticket[txn.dev] =
           IF result # "confirmed" THEN mem.ticket[txn.dev]
           ELSE IF txn.action = "turn_on" THEN 0
           ELSE IF CommitsTicket(txn.source) THEN txn.act
           ELSE mem.ticket[txn.dev]
  BY <1>2, FinishFields
<1>4. /\ txn' \in Transaction /\ txn'.pc = "save_terminal"
      /\ txn'.act = txn.act /\ txn'.dev = txn.dev
      /\ txn'.action = txn.action /\ txn'.ticket = txn.ticket
  BY <1>2 DEF Finish, Transaction, Saving
<1>5. /\ disk' = disk /\ proc' = proc /\ next' = next /\ spent' = spent
      /\ window' \in BOOLEAN
  BY DEF Finish, WindowAfter, IInv, TypeOK
<1>6. TypeOK'
  BY <1>1, <1>2, <1>3, <1>4, <1>5 DEF IInv, TypeOK
<1>7. DownIsEmpty'
  BY <1>1, <1>2, <1>3, <1>4, <1>5 DEF IInv, DownIsEmpty
<1>8. UnusedSerials'
  BY <1>1, <1>2, <1>3, <1>4, <1>5 DEF IInv, UnusedSerials, Snapshot
<1>9. JournalsAgree'
  BY <1>1, <1>2, <1>3, <1>4, <1>5 DEF IInv, JournalsAgree, Snapshot, Blank
<1>10. InFlight'
  BY <1>1, <1>2, <1>3, <1>4, <1>5
  DEF IInv, InFlight, PhaseAt, Executing, Commanding, Snapshot
<1>11. ClearsALoad'
  BY <1>1, <1>2, <1>3, <1>4, <1>5 DEF IInv, ClearsALoad
<1>12. TicketIsProof'
  <2>1. Proves(mem) /\ Proves(disk)
    BY DEF IInv, TicketIsProof
  <2>2. mem.journal[txn.act].phase # "confirmed"
    BY <1>1, <1>2 DEF PhaseAt
  <2>3. \A d \in Device : mem.ticket[d] # txn.act
    BY <1>2, <2>1, <2>2, UnconfirmedIsNoTicket
  <2>4. ASSUME NEW d \in Device, mem'.ticket[d] # 0
        PROVE  mem'.journal[mem'.ticket[d]] =
                 [dev |-> d, action |-> "turn_off", phase |-> "confirmed"]
    <3>1. CASE mem'.ticket[d] = txn.act
      <4>1. d = txn.dev
        BY <2>3, <3>1, <1>3
      <4>2. result = "confirmed" /\ txn.action # "turn_on"
        BY <2>3, <2>4, <3>1, <4>1, <1>3
      <4> QED
        BY <3>1, <4>1, <4>2, <1>2, <1>3 DEF Snapshot
    <3>2. CASE mem'.ticket[d] # txn.act
      <4>1. mem'.ticket[d] = mem.ticket[d]
        BY <2>4, <3>2, <1>2, <1>3
      <4>2. mem.ticket[d] \in Serial
        BY <2>4, <4>1, <1>2, ConstantsAssumption
        DEF Snapshot, Serial, SerialOrNone
      <4>3. mem'.journal[mem.ticket[d]] = mem.journal[mem.ticket[d]]
        BY <3>2, <4>1, <4>2, <1>2, <1>3 DEF Snapshot
      <4> QED
        BY <2>1, <2>4, <4>1, <4>3 DEF Proves
    <3> QED
      BY <3>1, <3>2
  <2> QED
    BY <1>5, <2>1, <2>4 DEF TicketIsProof, Proves
<1>13. DispatchedOnDisk'
  BY <1>1, <1>2, <1>3, <1>4, <1>5 DEF IInv, DispatchedOnDisk, Commanding
<1>14. AmbiguityIsBlocked'
  BY <1>1, <1>2, <1>3, <1>4, <1>5
  DEF IInv, AmbiguityIsBlocked, Outstanding, Commanding, Covered,
      UnresolvedDevices
<1>15. SpentTicketsAreBlocked'
  <2>1. 0 \notin spent /\ txn.act \notin spent
    <3>1. 0 \notin Serial
      BY ConstantsAssumption DEF Serial
    <3> QED
      BY <3>1, <1>1 DEF IInv, TypeOK, SpentTicketsAreOld
  <2>2. ASSUME NEW d \in Device, mem'.ticket[d] \in spent
        PROVE  d \in mem'.quarantined
    <3>1. CASE d # txn.dev
      BY <2>2, <3>1, <1>3 DEF IInv, SpentTicketsAreBlocked
    <3>2. CASE d = txn.dev
      <4>1. mem'.ticket[d] = mem.ticket[d]
        BY <2>1, <2>2, <3>2, <1>3
      <4>2. CASE result = "rejected"
        BY <2>2, <4>1, <4>2, <1>3
        DEF IInv, SpentTicketsAreBlocked, Outstanding
      <4>3. CASE result = "failed"
        BY <3>2, <4>3, <1>3
      <4>4. CASE result = "confirmed"
        <5>1. txn.action # "turn_on"
          BY <2>1, <2>2, <3>2, <4>4, <1>3
        <5> QED
          BY <2>2, <4>1, <4>4, <5>1, <1>3 DEF IInv, SpentTicketsAreBlocked
      <4> QED
        BY <4>2, <4>3, <4>4
    <3> QED
      BY <3>1, <3>2
  <2> QED
    BY <2>2, <1>5
    DEF IInv, SpentTicketsAreBlocked, Covered, UnresolvedDevices
<1>16. SpentTicketsAreOld'
  BY <1>1, <1>2, <1>3, <1>4, <1>5
  DEF IInv, SpentTicketsAreOld, Executing, Commanding
<1> QED
  BY <1>6, <1>7, <1>8, <1>9, <1>10, <1>11, <1>12, <1>13, <1>14, <1>15, <1>16
  DEF IInv

(* A save that failed, or a cancellation, abandons the transaction.        *)
LEMMA AbandonStep ==
    ASSUME IInv, txn.pc \in Executing, mem' = Abandoned(mem),
           txn' \in {[txn EXCEPT !.pc = "settle"],
                    [txn EXCEPT !.pc = "save_cancelled"]},
           disk' = disk \/ (txn.pc \in Saving /\ disk' = mem),
           window' = FALSE,
           UNCHANGED <<proc, next, exposed, spent>>
    PROVE  IInv'
<1>1. /\ txn.act \in Serial /\ txn.act < next
      /\ \A n \in Serial : n >= next => n # txn.act
      /\ txn.dev \in Device
      /\ txn.action \in {"turn_off", "turn_on"}
      /\ mem \in Snapshot /\ disk \in Snapshot /\ txn \in Transaction
      /\ proc # "down"
      /\ mem.journal[txn.act].dev = txn.dev
      /\ mem.journal[txn.act].action = txn.action
      /\ mem.journal[txn.act].phase \in PhaseAt(txn.pc)
  BY ExecutingFacts
<1>2. /\ mem' \in Snapshot
      /\ mem'.ticket = [mem.ticket EXCEPT ![txn.dev] = 0]
      /\ mem'.quarantined = mem.quarantined \cup {txn.dev}
      /\ mem'.journal = [mem.journal EXCEPT ![txn.act] =
            [dev |-> txn.dev, action |-> txn.action, phase |-> "failed"]]
  BY <1>1, AbandonedFields
<1>3. /\ txn' \in Transaction /\ txn'.pc \in {"settle", "save_cancelled"}
      /\ txn'.pc \notin Executing
  BY <1>1 DEF Transaction, Saving, Executing, Commanding
<1>4. \A d \in Device : mem'.ticket[d] # txn.act
  <2>1. ASSUME NEW d \in Device, mem.ticket[d] # 0
        PROVE  mem.journal[mem.ticket[d]].dev = d
    <3>1. mem.journal[mem.ticket[d]] =
             [dev |-> d, action |-> "turn_off", phase |-> "confirmed"]
      BY <2>1, TicketsProve
    <3> QED
      BY <3>1
  <2>2. txn.act # 0
    BY <1>1, ConstantsAssumption DEF Serial
  <2> QED
    BY <1>1, <1>2, <2>1, <2>2 DEF Snapshot
<1>5. TypeOK'
  BY <1>1, <1>2, <1>3 DEF IInv, TypeOK
<1>6. DownIsEmpty'
  BY <1>1 DEF DownIsEmpty
<1>7. UnusedSerials'
  BY <1>1, <1>2 DEF IInv, UnusedSerials, Snapshot
<1>8. JournalsAgree'
  BY <1>1, <1>2 DEF IInv, JournalsAgree, Snapshot, Blank
<1>9. InFlight'
  BY <1>3 DEF InFlight
<1>10. ClearsALoad'
  BY <1>3 DEF ClearsALoad
<1>11. TicketIsProof'
  <2>1. Proves(mem) /\ Proves(disk)
    BY DEF IInv, TicketIsProof
  <2>2. \A d \in Device : mem'.ticket[d] \in {0, mem.ticket[d]}
    BY <1>1, <1>2 DEF Snapshot
  <2>3. PICK r : mem'.journal = [mem.journal EXCEPT ![txn.act] = r]
    BY <1>2
  <2>4. mem \in Snapshot /\ mem' \in Snapshot /\ txn.act \in Serial
    BY <1>1, <1>2
  <2>5. Proves(mem')
    BY <1>4, <2>1, <2>2, <2>3, <2>4, ProvesKept
  <2> QED
    BY <2>1, <2>5 DEF TicketIsProof
<1>12. DispatchedOnDisk'
  BY <1>3 DEF DispatchedOnDisk, Commanding
<1>13. AmbiguityIsBlocked'
  <2>1. txn.pc \in Saving => txn.pc \notin Outstanding
    BY DEF Saving, Outstanding
  <2>2. \A d \in exposed :
           /\ Covered(disk, d)
           /\ d \in mem'.quarantined
           /\ txn.pc \in Saving => Covered(mem, d)
    BY <2>1, <1>1, <1>2 DEF IInv, AmbiguityIsBlocked, Covered
  <2>3. \A d \in exposed : Covered(disk', d)
    BY <2>2 DEF Covered, UnresolvedDevices
  <2> QED
    BY <2>2, <2>3 DEF AmbiguityIsBlocked
<1>14. SpentTicketsAreBlocked'
  <2>1. 0 \notin spent
    BY ConstantsAssumption DEF IInv, TypeOK, Serial
  <2>2. txn.pc \in Saving => txn.pc \notin Outstanding
    BY DEF Saving, Outstanding
  <2>3. \A d \in Device : mem'.ticket[d] \in spent => d \in mem'.quarantined
    BY <2>1, <1>1, <1>2 DEF IInv, SpentTicketsAreBlocked, Snapshot
  <2>4. \A d \in Device : disk'.ticket[d] \in spent => Covered(disk', d)
    BY <2>2 DEF IInv, SpentTicketsAreBlocked, Covered, UnresolvedDevices
  <2> QED
    BY <2>3, <2>4 DEF SpentTicketsAreBlocked
<1>15. SpentTicketsAreOld'
  BY <1>3 DEF IInv, SpentTicketsAreOld
<1> QED
  BY <1>5, <1>6, <1>7, <1>8, <1>9, <1>10, <1>11, <1>12, <1>13, <1>14, <1>15
  DEF IInv

(* The terminal save lands; an all-stop may then quarantine the load.      *)
LEMMA SaveTerminalStep ==
    ASSUME IInv, SaveTerminal
    PROVE  IInv'
<1>1. txn.pc = "save_terminal" /\ txn.pc \in Executing
  BY DEF SaveTerminal, Executing
<1>2. /\ txn.act \in Serial /\ txn.dev \in Device
      /\ mem \in Snapshot /\ disk \in Snapshot /\ txn \in Transaction
      /\ proc # "down"
  BY <1>1, ExecutingFacts
<1>3. /\ mem' \in Snapshot /\ mem'.journal = mem.journal
      /\ mem'.ticket = mem.ticket /\ mem.quarantined \subseteq mem'.quarantined
  <2>1. mem' = mem \/ mem' = Latched(mem, txn.dev)
    BY DEF SaveTerminal
  <2>2. CASE mem' = mem
    BY <2>2, <1>2
  <2>3. CASE mem' = Latched(mem, txn.dev)
    BY <2>3, <1>2, LatchedFields
  <2> QED
    BY <2>1, <2>2, <2>3
<1>4. /\ txn' \in Transaction /\ txn'.pc = "settle"
      /\ txn'.pc \notin Executing
  BY <1>2 DEF SaveTerminal, Transaction, Saving, Executing, Commanding
<1>5. /\ disk' = mem /\ proc' = proc /\ next' = next /\ window' = window
      /\ exposed' = exposed /\ spent' = spent
  BY DEF SaveTerminal
<1>6. TypeOK'
  BY <1>2, <1>3, <1>4, <1>5 DEF IInv, TypeOK
<1>7. DownIsEmpty' /\ InFlight' /\ ClearsALoad'
  BY <1>2, <1>4, <1>5 DEF DownIsEmpty, InFlight, ClearsALoad
<1>8. UnusedSerials' /\ JournalsAgree'
  BY <1>3, <1>5 DEF IInv, UnusedSerials, JournalsAgree
<1>9. TicketIsProof'
  BY <1>3, <1>5 DEF IInv, TicketIsProof, Proves
<1>10. DispatchedOnDisk'
  BY <1>4 DEF DispatchedOnDisk, Commanding
<1>11. txn.pc \notin Outstanding
  BY <1>1 DEF Outstanding
<1>12. AmbiguityIsBlocked'
  BY <1>2, <1>3, <1>5, <1>11 DEF IInv, AmbiguityIsBlocked, Covered
<1>13. SpentTicketsAreBlocked'
  BY <1>3, <1>5, <1>11 DEF IInv, SpentTicketsAreBlocked, Covered
<1>14. SpentTicketsAreOld'
  BY <1>4, <1>5 DEF IInv, SpentTicketsAreOld
<1> QED
  BY <1>6, <1>7, <1>8, <1>9, <1>10, <1>12, <1>13, <1>14 DEF IInv

(* A step outside execute keeps the invariant when it writes no record,    *)
(* makes no ticket, and takes a load out of quarantine only together with  *)
(* the evidence that it is off.                                            *)
LEMMA OutsideStep ==
    ASSUME IInv, proc # "down", txn.pc \notin Executing,
           mem' \in Snapshot, mem'.journal = mem.journal,
           \A d \in Device : mem'.ticket[d] \in {0, mem.ticket[d]},
           \A d \in mem.quarantined \ mem'.quarantined :
               d \notin exposed' /\ mem.ticket[d] \notin spent',
           disk' \in {disk, mem},
           txn' \in Transaction, txn'.pc \notin Executing,
           txn'.pc = "save_clear" => txn'.dev \in Device,
           window' \in BOOLEAN, UNCHANGED <<proc, next>>,
           exposed' \subseteq exposed, spent' \subseteq spent
    PROVE  IInv'
<1>1. mem \in Snapshot /\ disk \in Snapshot
  BY DEF IInv, TypeOK
<1>2. TypeOK'
  BY <1>1 DEF IInv, TypeOK
<1>3. DownIsEmpty' /\ InFlight' /\ ClearsALoad'
  BY DEF DownIsEmpty, InFlight, ClearsALoad
<1>4. UnusedSerials'
  BY DEF IInv, UnusedSerials
<1>5. JournalsAgree'
  BY DEF IInv, JournalsAgree
<1>6. TicketIsProof'
  <2>1. Proves(mem) /\ Proves(disk)
    BY DEF IInv, TicketIsProof
  <2>2. Proves(mem')
    BY <2>1 DEF Proves
  <2>3. Proves(disk')
    BY <2>1
  <2> QED
    BY <2>2, <2>3 DEF TicketIsProof
<1>7. DispatchedOnDisk'
  BY DEF DispatchedOnDisk, Executing
<1>8. txn.pc \notin Outstanding
  BY DEF Outstanding, Executing, Commanding
<1>9. AmbiguityIsBlocked'
  <2>1. \A d \in exposed : d \in mem.quarantined /\ Covered(disk, d)
    BY <1>8 DEF IInv, AmbiguityIsBlocked
  <2>2. \A d \in exposed : Covered(disk', d)
    BY <2>1 DEF Covered
  <2> QED
    BY <2>1, <2>2 DEF AmbiguityIsBlocked
<1>10. SpentTicketsAreBlocked'
  <2>1. 0 \notin spent
    <3>1. 0 \notin Serial
      BY ConstantsAssumption DEF Serial
    <3> QED
      BY <3>1 DEF IInv, TypeOK
  <2>2. \A d \in Device : mem.ticket[d] \in spent => d \in mem.quarantined
    BY <1>8 DEF IInv, SpentTicketsAreBlocked
  <2>3. \A d \in Device : mem'.ticket[d] \in spent' => d \in mem'.quarantined
    BY <2>1, <2>2
  <2>4. \A d \in Device : disk.ticket[d] \in spent => Covered(disk, d)
    BY DEF IInv, SpentTicketsAreBlocked
  <2>5. \A d \in Device : disk'.ticket[d] \in spent' => Covered(disk', d)
    BY <2>2, <2>4 DEF Covered
  <2> QED
    BY <2>3, <2>5 DEF SpentTicketsAreBlocked
<1>11. SpentTicketsAreOld'
  BY DEF IInv, SpentTicketsAreOld
<1> QED
  BY <1>2, <1>3, <1>4, <1>5, <1>6, <1>7, <1>9, <1>10, <1>11 DEF IInv

(* A step that leaves the protocol's state alone and starts no process.    *)
LEMMA QuietStep ==
    ASSUME IInv, UNCHANGED <<mem, disk, txn, next, exposed, spent>>,
           window' \in BOOLEAN,
           proc' = proc \/ (proc # "down" /\ proc' = "stopping")
    PROVE  IInv'
<1>1. TypeOK' /\ DownIsEmpty' /\ UnusedSerials' /\ JournalsAgree' /\ InFlight'
  BY DEF IInv, TypeOK, DownIsEmpty, UnusedSerials, JournalsAgree, InFlight
<1>2. ClearsALoad' /\ TicketIsProof' /\ DispatchedOnDisk'
  BY DEF IInv, ClearsALoad, TicketIsProof, DispatchedOnDisk
<1>3. AmbiguityIsBlocked'
  BY DEF IInv, AmbiguityIsBlocked, Covered, UnresolvedDevices
<1>4. SpentTicketsAreBlocked' /\ SpentTicketsAreOld'
  BY DEF IInv, SpentTicketsAreBlocked, SpentTicketsAreOld, Covered,
         UnresolvedDevices
<1> QED
  BY <1>1, <1>2, <1>3, <1>4 DEF IInv

(* An unlocked save lands between two saves of the operation under way.    *)
LEMMA BackgroundSaveStep ==
    ASSUME IInv, BackgroundSave
    PROVE  IInv'
<1>1. /\ proc # "down" /\ txn.pc \notin Saving /\ disk' = mem
      /\ UNCHANGED <<proc, mem, txn, window, next, exposed, spent>>
  BY DEF BackgroundSave
<1>2. mem \in Snapshot
  BY DEF IInv, TypeOK
<1>3. TypeOK' /\ DownIsEmpty' /\ UnusedSerials' /\ JournalsAgree' /\ InFlight'
  BY <1>1 DEF IInv, TypeOK, DownIsEmpty, UnusedSerials, JournalsAgree, InFlight
<1>4. ClearsALoad' /\ TicketIsProof' /\ SpentTicketsAreOld'
  BY <1>1 DEF IInv, ClearsALoad, TicketIsProof, SpentTicketsAreOld
<1>5. txn.pc \in Commanding \cup {"permission"} =>
        /\ txn.act \in Serial /\ txn.dev \in Device
        /\ mem.journal[txn.act] =
             [dev |-> txn.dev, action |-> txn.action, phase |-> "dispatched"]
  <2> SUFFICES ASSUME txn.pc \in Commanding \cup {"permission"}
               PROVE  /\ txn.act \in Serial /\ txn.dev \in Device
                      /\ mem.journal[txn.act] =
                           [dev |-> txn.dev, action |-> txn.action,
                            phase |-> "dispatched"]
    OBVIOUS
  <2>1. txn.pc \in Executing /\ txn.pc \notin {"save_prepared", "save_terminal"}
    BY DEF Executing, Commanding
  <2>2. /\ txn.act \in Serial /\ txn.dev \in Device
        /\ mem.journal[txn.act].dev = txn.dev
        /\ mem.journal[txn.act].action = txn.action
        /\ mem.journal[txn.act].phase \in PhaseAt(txn.pc)
    BY <2>1, ExecutingFacts
  <2>3. mem.journal[txn.act] \in Record
    BY <1>2, <2>2 DEF Snapshot
  <2> QED
    BY <2>1, <2>2, <2>3 DEF PhaseAt, Record
<1>6. DispatchedOnDisk'
  BY <1>1, <1>5 DEF DispatchedOnDisk
<1>7. txn.pc \in Outstanding => Covered(mem, txn.dev)
  BY <1>5 DEF Covered, UnresolvedDevices, Unresolved, Outstanding, Commanding
<1>8. AmbiguityIsBlocked'
  <2>1. \A d \in exposed : Covered(mem, d)
    BY <1>1, <1>7 DEF IInv, AmbiguityIsBlocked, Covered
  <2> QED
    BY <2>1, <1>1 DEF IInv, AmbiguityIsBlocked, Covered, UnresolvedDevices
<1>9. SpentTicketsAreBlocked'
  <2>1. \A d \in Device : mem.ticket[d] \in spent => Covered(mem, d)
    BY <1>1, <1>7 DEF IInv, SpentTicketsAreBlocked, Covered
  <2> QED
    BY <2>1, <1>1
    DEF IInv, SpentTicketsAreBlocked, Covered, UnresolvedDevices
<1> QED
  BY <1>3, <1>4, <1>6, <1>8, <1>9 DEF IInv

(* A transaction starts under a serial no record and no ticket names.      *)
LEMMA PrepareStep ==
    ASSUME IInv, NEW d \in Device, NEW action \in {"turn_off", "turn_on"},
           NEW source \in Source, NEW emergency \in BOOLEAN,
           action = "turn_on" => mem.ticket[d] # 0,
           txn = Idle, proc = "up", Prepare(d, action, source, emergency),
           UNCHANGED <<proc, disk, window, exposed, spent>>
    PROVE  IInv'
<1>1. /\ mem \in Snapshot /\ disk \in Snapshot
      /\ next \in Serial /\ next \in Nat /\ next' = next + 1
  BY ConstantsAssumption DEF IInv, TypeOK, Prepare, Serial
<1> DEFINE r == [dev |-> d, action |-> action, phase |-> "prepared"]
<1>2. r \in Record
  BY DEF Record, Phase, Unresolved
<1>3. /\ mem' \in Snapshot /\ mem'.ticket = mem.ticket
      /\ mem'.quarantined = mem.quarantined
      /\ mem'.journal = [mem.journal EXCEPT ![next] = r]
  <2>1. mem' = [mem EXCEPT !.journal[next] = r]
    BY DEF Prepare
  <2> HIDE DEF r
  <2> QED
    BY <2>1, <1>1, <1>2 DEF Snapshot
<1>4. mem.journal[next] = Blank /\ disk.journal[next] = Blank
  BY <1>1 DEF IInv, UnusedSerials
<1>5. /\ txn' \in Transaction /\ txn'.pc = "save_prepared"
      /\ txn'.act = next /\ txn'.dev = d /\ txn'.action = action
      /\ txn'.ticket = mem.ticket[d]
  <2>1. mem.ticket[d] \in SerialOrNone /\ next \in SerialOrNone
    BY <1>1 DEF Snapshot, Serial, SerialOrNone
  <2>2. txn' = [Idle EXCEPT !.pc = "save_prepared", !.act = next, !.dev = d,
                            !.action = action, !.source = source,
                            !.emergency = emergency, !.ticket = mem.ticket[d]]
    BY DEF Prepare
  <2> QED
    BY <2>1, <2>2 DEF Idle, Transaction, Saving, Mode
<1>6. TypeOK'
  <2>1. next' \in 1..(MaxActions + 1)
    BY <1>1, ConstantsAssumption DEF Serial
  <2> QED
    BY <2>1, <1>1, <1>3, <1>5 DEF IInv, TypeOK
<1>7. DownIsEmpty' /\ ClearsALoad'
  BY <1>5 DEF DownIsEmpty, ClearsALoad
<1>8. UnusedSerials'
  BY <1>1, <1>3, ConstantsAssumption
  DEF IInv, UnusedSerials, Snapshot, Serial
<1>9. JournalsAgree'
  BY <1>1, <1>3, <1>4 DEF IInv, JournalsAgree, Snapshot
<1>10. InFlight'
  BY <1>1, <1>3, <1>5 DEF InFlight, PhaseAt, Snapshot
<1>11. TicketIsProof'
  <2>1. Proves(mem) /\ Proves(disk)
    BY DEF IInv, TicketIsProof
  <2>2. mem.journal[next].phase # "confirmed"
    BY <1>4 DEF Blank
  <2>3. \A e \in Device : mem.ticket[e] # next
    BY <1>1, <2>1, <2>2, UnconfirmedIsNoTicket
  <2>4. \A e \in Device :
          mem'.ticket[e] \in {0, mem.ticket[e]} /\ mem'.ticket[e] # next
    BY <1>3, <2>3
  <2>5. mem \in Snapshot /\ mem' \in Snapshot /\ next \in Serial
    BY <1>1, <1>3
  <2>6. Proves(mem')
    <3>1. PICK q : mem'.journal = [mem.journal EXCEPT ![next] = q]
      BY <1>3
    <3> QED
      BY <2>1, <2>4, <2>5, <3>1, ProvesKept
  <2> QED
    BY <2>1, <2>6 DEF TicketIsProof
<1>12. DispatchedOnDisk'
  BY <1>5 DEF DispatchedOnDisk, Commanding
<1>13. txn.pc \notin Outstanding
  BY DEF Idle, Outstanding
<1>14. AmbiguityIsBlocked'
  BY <1>3, <1>13
  DEF IInv, AmbiguityIsBlocked, Covered, UnresolvedDevices
<1>15. SpentTicketsAreBlocked'
  BY <1>3, <1>13
  DEF IInv, SpentTicketsAreBlocked, Covered, UnresolvedDevices
<1>16. SpentTicketsAreOld'
  <2>1. \A t \in spent : t \in Nat
    BY ConstantsAssumption DEF IInv, TypeOK, Serial
  <2> QED
    BY <2>1, <1>1, <1>5 DEF IInv, SpentTicketsAreOld
<1> QED
  BY <1>6, <1>7, <1>8, <1>9, <1>10, <1>11, <1>12, <1>14, <1>15, <1>16 DEF IInv

(* The process goes away, after its last save or in the middle of one.     *)
LEMMA VanishStep ==
    ASSUME IInv, proc # "down", Vanish,
           disk' = disk \/ (txn.pc \notin Outstanding /\ disk' = mem)
    PROVE  IInv'
<1>1. /\ proc' = "down" /\ mem' = Fresh /\ txn' = Idle /\ window' = FALSE
      /\ UNCHANGED <<next, exposed, spent>>
  BY DEF Vanish
<1>2. txn' \in Transaction
  BY <1>1, ConstantsAssumption
  DEF Idle, Transaction, SerialOrNone, Mode
<1>3. TypeOK'
  BY <1>1, <1>2, FreshSnapshot DEF IInv, TypeOK
<1>4. DownIsEmpty' /\ JournalsAgree' /\ InFlight' /\ ClearsALoad'
      /\ DispatchedOnDisk'
  BY <1>1
  DEF DownIsEmpty, JournalsAgree, InFlight, ClearsALoad, DispatchedOnDisk,
      Idle, Executing, Commanding, Fresh
<1>5. UnusedSerials'
  BY <1>1, FreshSnapshot DEF IInv, UnusedSerials
<1>6. TicketIsProof'
  <2>1. Proves(disk')
    BY DEF IInv, TicketIsProof
  <2> QED
    BY <2>1, <1>1, FreshSnapshot DEF TicketIsProof
<1>7. AmbiguityIsBlocked'
  <2>1. \A d \in exposed : Covered(disk', d)
    BY DEF IInv, AmbiguityIsBlocked, Covered, UnresolvedDevices
  <2> QED
    BY <2>1, <1>1 DEF AmbiguityIsBlocked
<1>8. SpentTicketsAreBlocked'
  <2>1. 0 \notin spent
    <3>1. 0 \notin Serial
      BY ConstantsAssumption DEF Serial
    <3> QED
      BY <3>1 DEF IInv, TypeOK
  <2>2. \A d \in Device : disk'.ticket[d] \in spent => Covered(disk', d)
    BY DEF IInv, SpentTicketsAreBlocked, Covered, UnresolvedDevices
  <2> QED
    BY <2>1, <2>2, <1>1, FreshSnapshot DEF SpentTicketsAreBlocked
<1>9. SpentTicketsAreOld'
  BY <1>1 DEF IInv, SpentTicketsAreOld, Idle, Executing, Commanding
<1> QED
  BY <1>3, <1>4, <1>5, <1>6, <1>7, <1>8, <1>9 DEF IInv

(* A restart rebuilds memory from the file and blocks what is unresolved.  *)
LEMMA RecoverStep ==
    ASSUME IInv, NEW expired \in SUBSET Device, Recover(expired)
    PROVE  IInv'
<1>1. /\ proc = "down" /\ proc' = "up" /\ txn = Idle /\ txn' = Idle
      /\ UNCHANGED <<window, next, exposed, spent>>
      /\ disk \in Snapshot
  BY DEF Recover, IInv, DownIsEmpty, TypeOK
<1> DEFINE k == [d \in Device |-> IF d \in expired THEN 0 ELSE disk.ticket[d]]
           q == disk.quarantined \cup UnresolvedDevices(disk)
<1>2. k \in [Device -> SerialOrNone] /\ q \in SUBSET Device
  BY <1>1, ConstantsAssumption DEF Snapshot, SerialOrNone, UnresolvedDevices
<1>3. /\ Recovered(expired) \in Snapshot
      /\ Recovered(expired).ticket = k
      /\ Recovered(expired).quarantined = q
      /\ Recovered(expired).journal = disk.journal
  <2>1. Recovered(expired) = [disk EXCEPT !.quarantined = q, !.ticket = k]
    BY DEF Recovered
  <2> HIDE DEF k, q
  <2> QED
    BY <2>1, <1>1, <1>2 DEF Snapshot
<1>4. /\ mem' \in Snapshot /\ mem'.ticket = k /\ mem'.quarantined = q
      /\ mem'.journal = disk.journal
      /\ disk' = disk \/ disk' = mem'
  <2>1. CASE mem' = Recovered(expired) /\ disk' = mem'
    BY <2>1, <1>3
  <2>2. CASE /\ mem' = [Recovered(expired) EXCEPT !.mode = "observe"]
             /\ disk' = disk
    <3> HIDE DEF k, q
    <3> QED
      BY <2>2, <1>3 DEF Snapshot, Mode
  <2> QED
    BY <2>1, <2>2 DEF Recover
<1>5. \A d \in Device : mem'.ticket[d] \in {0, disk.ticket[d]}
  BY <1>4
<1>6. TypeOK'
  BY <1>1, <1>4 DEF IInv, TypeOK
<1>7. DownIsEmpty' /\ InFlight' /\ ClearsALoad' /\ DispatchedOnDisk'
  BY <1>1
  DEF DownIsEmpty, InFlight, ClearsALoad, DispatchedOnDisk, Idle, Executing,
      Commanding
<1>8. UnusedSerials' /\ JournalsAgree'
  BY <1>1, <1>4 DEF IInv, UnusedSerials, JournalsAgree
<1>9. TicketIsProof'
  <2>1. Proves(disk)
    BY DEF IInv, TicketIsProof
  <2>2. Proves(mem')
    BY <2>1, <1>4, <1>5 DEF Proves
  <2> QED
    BY <2>1, <2>2, <1>4 DEF TicketIsProof
<1>10. \A d \in Device : Covered(disk, d) => d \in mem'.quarantined
  BY <1>4 DEF Covered
<1>11. AmbiguityIsBlocked'
  <2>1. \A d \in exposed : d \in Device /\ Covered(disk, d)
    BY DEF IInv, AmbiguityIsBlocked, TypeOK
  <2>2. \A d \in exposed : d \in mem'.quarantined
    BY <2>1, <1>10
  <2>3. \A d \in exposed : Covered(disk', d)
    BY <2>1, <2>2, <1>4 DEF Covered, UnresolvedDevices
  <2> QED
    BY <2>2, <2>3, <1>1 DEF AmbiguityIsBlocked
<1>12. SpentTicketsAreBlocked'
  <2>1. 0 \notin spent
    <3>1. 0 \notin Serial
      BY ConstantsAssumption DEF Serial
    <3> QED
      BY <3>1 DEF IInv, TypeOK
  <2>2. \A d \in Device : disk.ticket[d] \in spent => Covered(disk, d)
    BY DEF IInv, SpentTicketsAreBlocked
  <2>3. \A d \in Device : mem'.ticket[d] \in spent => d \in mem'.quarantined
    BY <2>1, <2>2, <1>5, <1>10
  <2>4. \A d \in Device : disk'.ticket[d] \in spent => Covered(disk', d)
    BY <2>2, <2>3, <1>4 DEF Covered, UnresolvedDevices
  <2> QED
    BY <2>3, <2>4, <1>1 DEF SpentTicketsAreBlocked
<1>13. SpentTicketsAreOld'
  BY <1>1 DEF IInv, SpentTicketsAreOld, Idle, Executing, Commanding
<1> QED
  BY <1>6, <1>7, <1>8, <1>9, <1>11, <1>12, <1>13 DEF IInv

-----------------------------------------------------------------------------
(* The invariant holds initially and every step keeps it.                  *)

(* The first installation starts with nothing owned and nothing pending.   *)
LEMMA InitHolds == Init => IInv
<1> SUFFICES ASSUME Init PROVE IInv
  OBVIOUS
<1>1. /\ proc = "up" /\ mem = Fresh /\ disk = Fresh /\ txn = Idle
      /\ window = FALSE /\ next = 1 /\ exposed = {} /\ spent = {}
  BY DEF Init
<1>2. txn \in Transaction
  BY <1>1, ConstantsAssumption DEF Idle, Transaction, SerialOrNone, Mode
<1>3. TypeOK
  <2>1. next \in 1..(MaxActions + 1)
    BY <1>1, ConstantsAssumption
  <2> QED
    BY <2>1, <1>1, <1>2, FreshSnapshot DEF TypeOK
<1>4. DownIsEmpty /\ InFlight /\ ClearsALoad /\ DispatchedOnDisk
  BY <1>1
  DEF DownIsEmpty, InFlight, ClearsALoad, DispatchedOnDisk, Idle, Executing,
      Commanding
<1>5. UnusedSerials /\ JournalsAgree
  BY <1>1, FreshSnapshot DEF UnusedSerials, JournalsAgree
<1>6. TicketIsProof /\ AmbiguityIsBlocked
  BY <1>1, FreshSnapshot DEF TicketIsProof, AmbiguityIsBlocked
<1>7. SpentTicketsAreBlocked /\ SpentTicketsAreOld
  BY <1>1 DEF SpentTicketsAreBlocked, SpentTicketsAreOld
<1> QED
  BY <1>3, <1>4, <1>5, <1>6, <1>7 DEF IInv

(* Every step of the operation that holds the lock keeps the invariant.    *)
LEMMA AdvanceStep ==
    ASSUME IInv, Advance
    PROVE  IInv'
<1>1. proc # "down" \/ txn.pc = "idle"
  BY DEF IInv, DownIsEmpty, Idle
<1>2. mem \in Snapshot /\ txn \in Transaction /\ window \in BOOLEAN
  BY DEF IInv, TypeOK
<1>3. CASE SavePrepared
  BY <1>3, SavePreparedStep
<1>4. CASE SaveDispatched
  BY <1>4, SaveDispatchedStep
<1>5. CASE SaveFails
  <2>1. txn.pc \in Executing
    BY <1>5 DEF SaveFails, Executing
  <2> QED
    BY <1>5, <2>1, AbandonStep DEF SaveFails
<1>6. CASE Reject
  BY <1>6, FinishStep DEF Reject
<1>7. CASE TemperatureSet
  BY <1>7, TemperatureSetStep
<1>8. CASE CallReturns
  BY <1>8, CallReturnsStep
<1>9. CASE CallRaises
  BY <1>9, FinishStep DEF CallRaises, Commanding
<1>10. CASE ReadbackTimeout
  BY <1>10, FinishStep DEF ReadbackTimeout, Commanding
<1>11. ASSUME NEW r \in Reading, SetTemperature(r)
       PROVE  IInv'
  BY <1>11, SetTemperatureStep
<1>12. ASSUME NEW r \in Reading, Call(r)
       PROVE  IInv'
  BY <1>12, CallStep
<1>13. ASSUME NEW r \in Reading, Confirm(r)
       PROVE  IInv'
  BY <1>13, FinishStep DEF Confirm, Commanding
<1>14. ASSUME NEW r \in Reading, CallFallback(r)
       PROVE  IInv'
  BY <1>14, CallFallbackStep
<1>15. CASE SaveTerminal
  BY <1>15, SaveTerminalStep
<1>16. CASE Cancel
  BY <1>16, AbandonStep DEF Cancel
<1>17. CASE /\ txn.pc \in {"save_cancelled", "settle", "save_clear",
                           "save_mode"}
            /\ disk' \in {disk, mem}
            /\ txn' = Idle
            /\ UNCHANGED <<proc, mem, window, next, exposed, spent>>
  <2>1. proc # "down" /\ txn.pc \notin Executing
    BY <1>1, <1>17 DEF Executing, Commanding
  <2>2. txn' \in Transaction /\ txn'.pc = "idle"
    BY <1>17, ConstantsAssumption DEF Idle, Transaction, SerialOrNone, Mode
  <2>3. txn'.pc \notin Executing
    BY <2>2 DEF Executing, Commanding
  <2> QED
    BY <1>2, <1>17, <2>1, <2>2, <2>3, OutsideStep
<1>18. CASE ClearSaveFails \/ ModeSaveFails
  <2>1. /\ txn.pc \in {"save_clear", "save_mode"} /\ txn' = Idle
        /\ UNCHANGED <<proc, disk, window, next, exposed, spent>>
    BY <1>18 DEF ClearSaveFails, ModeSaveFails
  <2>2. proc # "down" /\ txn.pc \notin Executing
    BY <1>1, <2>1 DEF Executing, Commanding
  <2>3. txn' \in Transaction /\ txn'.pc = "idle"
    BY <2>1, ConstantsAssumption DEF Idle, Transaction, SerialOrNone, Mode
  <2>4. txn'.pc \notin Executing
    BY <2>3 DEF Executing, Commanding
  <2>5. /\ mem' \in Snapshot /\ mem'.journal = mem.journal
        /\ mem'.ticket = mem.ticket
        /\ mem.quarantined \subseteq mem'.quarantined
    <3>1. CASE ClearSaveFails
      <4>1. txn.dev \in Device /\ mem' = Latched(mem, txn.dev)
        BY <3>1 DEF ClearSaveFails, IInv, ClearsALoad
      <4> QED
        BY <4>1, <1>2, LatchedFields
    <3>2. CASE ModeSaveFails
      <4>1. mem' = [mem EXCEPT !.mode = txn.previous] /\ txn.previous \in Mode
        BY <3>2, <1>2 DEF ModeSaveFails, Transaction
      <4> QED
        BY <4>1, <1>2 DEF Snapshot
    <3> QED
      BY <1>18, <3>1, <3>2
  <2> QED
    BY <1>2, <2>1, <2>2, <2>3, <2>4, <2>5, OutsideStep
<1> QED
  BY <1>3, <1>4, <1>5, <1>6, <1>7, <1>8, <1>9, <1>10, <1>11, <1>12, <1>13,
     <1>14, <1>15, <1>16, <1>17, <1>18
  DEF Advance, EndOperation, ClearSaved, ModeSaved, CancelOperation

(* Every operation started by a caller or a callback keeps the invariant.  *)
LEMMA OperationStep ==
    ASSUME IInv, txn = Idle, proc # "down",
           \/ \E d \in Device, r \in Reading :
                 RefuseEmergencyStop(d, r) \/ ClearQuarantine(d, r)
           \/ \E m \in Mode : SetMode(m)
           \/ \E d \in Device : Retire(d)
           \/ \E reached \in SUBSET Fence : ReleaseFences(reached)
           \/ WindowMatures
    PROVE  IInv'
<1>1. /\ mem \in Snapshot /\ txn \in Transaction /\ window \in BOOLEAN
      /\ txn.pc = "idle" /\ txn.pc \notin Executing
  BY DEF IInv, TypeOK, Idle, Executing, Commanding
<1>2. ASSUME NEW d \in Device, NEW r \in Reading, RefuseEmergencyStop(d, r)
      PROVE  IInv'
  <2>1. /\ mem' \in Snapshot /\ mem'.journal = mem.journal
        /\ mem'.ticket = mem.ticket
        /\ mem.quarantined \subseteq mem'.quarantined
    BY <1>1, <1>2, LatchedFields DEF RefuseEmergencyStop
  <2>2. /\ txn' \in Transaction /\ txn'.pc = "settle"
        /\ UNCHANGED <<proc, disk, next, exposed, spent>> /\ window' = FALSE
    BY <1>1, <1>2 DEF RefuseEmergencyStop, Idle, Transaction, Saving
  <2>3. txn'.pc \notin Executing
    BY <2>2 DEF Executing, Commanding
  <2> QED
    BY <1>1, <2>1, <2>2, <2>3, OutsideStep
<1>3. ASSUME NEW d \in Device, NEW r \in Reading, ClearQuarantine(d, r)
      PROVE  IInv'
  <2>1. mem' = [mem EXCEPT !.quarantined = @ \ {d}]
    BY <1>3 DEF ClearQuarantine
  <2>2. /\ mem' \in Snapshot /\ mem'.journal = mem.journal
        /\ mem'.ticket = mem.ticket
        /\ mem.quarantined \ mem'.quarantined \subseteq {d}
    BY <1>1, <2>1 DEF Snapshot
  <2>3. /\ txn' \in Transaction /\ txn'.pc = "save_clear" /\ txn'.dev = d
        /\ UNCHANGED <<proc, disk, window, next>>
        /\ exposed' = exposed \ {d} /\ spent' = spent \ {mem.ticket[d]}
    BY <1>1, <1>3 DEF ClearQuarantine, Idle, Transaction, Saving
  <2>4. txn'.pc \notin Executing
    BY <2>3 DEF Executing, Commanding
  <2> QED
    BY <1>1, <2>2, <2>3, <2>4, OutsideStep
<1>4. ASSUME NEW m \in Mode, SetMode(m)
      PROVE  IInv'
  <2>1. mem' = [mem EXCEPT !.mode = m] /\ mem.mode \in Mode
    BY <1>1, <1>4 DEF SetMode, Snapshot
  <2>2. /\ mem' \in Snapshot /\ mem'.journal = mem.journal
        /\ mem'.ticket = mem.ticket /\ mem'.quarantined = mem.quarantined
    BY <1>1, <2>1 DEF Snapshot
  <2>3. /\ txn' \in Transaction /\ txn'.pc = "save_mode"
        /\ UNCHANGED <<proc, disk, next, exposed, spent>>
        /\ window' \in BOOLEAN
    BY <1>1, <1>4, <2>1 DEF SetMode, Idle, Transaction, Saving
  <2>4. txn'.pc \notin Executing
    BY <2>3 DEF Executing, Commanding
  <2> QED
    BY <1>1, <2>2, <2>3, <2>4, OutsideStep
<1>5. ASSUME NEW d \in Device, Retire(d)
      PROVE  IInv'
  <2>1. /\ mem' \in Snapshot /\ mem'.journal = mem.journal
        /\ mem'.ticket = [mem.ticket EXCEPT ![d] = 0]
        /\ mem'.quarantined = mem.quarantined
    BY <1>1, <1>5, RemovedFields DEF Retire
  <2>2. \A e \in Device : mem'.ticket[e] \in {0, mem.ticket[e]}
    BY <1>1, <2>1 DEF Snapshot
  <2>3. /\ txn' \in Transaction /\ txn'.pc = "settle"
        /\ UNCHANGED <<proc, disk, next, exposed, spent>>
        /\ window' \in BOOLEAN
    BY <1>1, <1>5 DEF Retire, Idle, Transaction, Saving
  <2>4. txn'.pc \notin Executing
    BY <2>3 DEF Executing, Commanding
  <2> QED
    BY <1>1, <2>1, <2>2, <2>3, <2>4, OutsideStep
<1>6. ASSUME NEW reached \in SUBSET Fence, ReleaseFences(reached)
      PROVE  IInv'
  <2>1. /\ mem' = [mem EXCEPT !.fences = @ \ reached]
        /\ UNCHANGED <<proc, disk, txn, window, next, exposed, spent>>
    BY <1>6 DEF ReleaseFences
  <2>2. /\ mem' \in Snapshot /\ mem'.journal = mem.journal
        /\ mem'.ticket = mem.ticket /\ mem'.quarantined = mem.quarantined
    BY <1>1, <2>1 DEF Snapshot
  <2> QED
    BY <1>1, <2>1, <2>2, OutsideStep
<1>7. CASE WindowMatures
  BY <1>7, QuietStep DEF WindowMatures
<1> QED
  BY <1>2, <1>3, <1>4, <1>5, <1>6, <1>7

(* Induction step.                                                         *)
LEMMA NextHolds == IInv /\ [Next]_vars => IInv'
<1> SUFFICES ASSUME IInv, [Next]_vars PROVE IInv'
  OBVIOUS
<1>1. CASE UNCHANGED vars
  <2>1. window \in BOOLEAN
    BY DEF IInv, TypeOK
  <2> QED
    BY <1>1, <2>1, QuietStep DEF vars
<1>2. CASE Advance
  BY <1>2, AdvanceStep
<1>3. ASSUME NEW d \in Device, NEW r \in Reading, NEW s \in Source,
             NEW e \in BOOLEAN, BeginStop(d, s, e, r)
      PROVE  IInv'
  BY <1>3, PrepareStep DEF BeginStop, CommandsAllowed
<1>4. ASSUME NEW d \in Device, NEW r \in Reading, BeginRestore(d, r)
      PROVE  IInv'
  <2>1. "policy" \in Source
    BY DEF Source
  <2> QED
    BY <1>4, <2>1, PrepareStep
    DEF BeginRestore, RestoreAllowed, CommandsAllowed
<1>5. CASE \/ \E d \in Device, r \in Reading :
                 RefuseEmergencyStop(d, r) \/ ClearQuarantine(d, r)
           \/ \E m \in Mode : SetMode(m)
           \/ \E d \in Device : Retire(d)
           \/ \E reached \in SUBSET Fence : ReleaseFences(reached)
           \/ WindowMatures
  <2>1. txn = Idle /\ proc # "down"
    BY <1>5
    DEF RefuseEmergencyStop, ClearQuarantine, SetMode, Retire, ReleaseFences,
        WindowMatures, RestoreAllowed, CommandsAllowed
  <2> QED
    BY <1>5, <2>1, OperationStep
<1>6. CASE WindowResets
  <2>1. /\ window' \in BOOLEAN /\ proc' = proc
        /\ UNCHANGED <<mem, disk, txn, next, exposed, spent>>
    BY <1>6 DEF WindowResets
  <2> QED
    BY <2>1, QuietStep
<1>7. CASE BackgroundSave
  BY <1>7, BackgroundSaveStep
<1>8. CASE Shutdown
  <2>1. window \in BOOLEAN
    BY DEF IInv, TypeOK
  <2> QED
    BY <1>8, <2>1, QuietStep DEF Shutdown
<1>9. CASE ShutdownSaves
  <2>1. txn.pc \notin Outstanding
    BY <1>9 DEF ShutdownSaves, Idle, Outstanding
  <2> QED
    BY <1>9, <2>1, VanishStep DEF ShutdownSaves
<1>10. CASE Crash
  <2>1. txn.pc \in Saving => txn.pc \notin Outstanding
    BY DEF Saving, Outstanding
  <2> QED
    BY <1>10, <2>1, VanishStep DEF Crash
<1>11. ASSUME NEW expired \in SUBSET Device, Recover(expired)
       PROVE  IInv'
  BY <1>11, RecoverStep
<1> QED
  BY <1>1, <1>2, <1>3, <1>4, <1>5, <1>6, <1>7, <1>8, <1>9, <1>10, <1>11
  DEF Next

(* The inductive invariant holds in every reachable state.                 *)
LEMMA Invariance == Spec => []IInv
BY InitHolds, NextHolds, PTL DEF Spec

-----------------------------------------------------------------------------
(* What follows for every set of loads and every number of actions.        *)

(* Every reachable state is well typed: the operations of the coordinator, *)
(* the failure paths of execute and recovery keep the shape of the state.  *)
THEOREM TypeCorrect == Spec => []TypeOK
<1>1. IInv => TypeOK
  BY DEF IInv
<1> QED
  BY Invariance, <1>1, PTL

(* A ticket, in memory or on disk, names a confirmed stop of its own load, *)
(* whatever saves failed and whenever the process died (_commit_stop,      *)
(* _storage_failure).                                                      *)
THEOREM TicketsAreProofs == Spec => []TicketIsProof
<1>1. IInv => TicketIsProof
  BY DEF IInv
<1> QED
  BY Invariance, <1>1, PTL

(* No service call is outstanding without its "dispatched" record on disk  *)
(* (the two saves of execute before dispatch).                             *)
THEOREM IntentsAreDurable == Spec => []IntentIsDurable
<1>1. IInv => IntentIsDurable
  BY DEF IInv, DispatchedOnDisk, IntentIsDurable
<1> QED
  BY Invariance, <1>1, PTL

(* A load commanded without a confirmed outcome is quarantined, or is the  *)
(* load under command, and the file would quarantine it after a crash.     *)
THEOREM AmbiguityIsAlwaysBlocked == Spec => []AmbiguityIsBlocked
<1>1. IInv => AmbiguityIsBlocked
  BY DEF IInv
<1> QED
  BY Invariance, <1>1, PTL

LEMMA IdleIsIdle == Idle.pc = "idle"
  BY DEF Idle

(* No ON is issued twice for one ticket (the permission check of the       *)
(* actuator against the ticket and the quarantine).                        *)
THEOREM NoTicketIsUsedTwice == Spec => NoSecondOn
<1>1. ASSUME IInv, [Next]_vars
      PROVE  [txn'.pc = "calling" /\ txn.pc = "permission"
                /\ txn.action = "turn_on" => txn.ticket \notin spent]_vars
  <2> SUFFICES ASSUME Next, txn'.pc = "calling", txn.pc = "permission",
                      txn.action = "turn_on"
               PROVE  txn.ticket \notin spent
    BY <1>1
  <2>1. \E r \in Reading : Call(r)
    <3>1. txn \in Transaction /\ txn # Idle /\ Idle.pc # "calling"
      BY <1>1, IdleIsIdle DEF IInv, TypeOK
    <3>2. \/ Reject \/ \E r \in Reading : SetTemperature(r) \/ Call(r)
          \/ txn' = txn \/ txn' = Idle
      BY <3>1
      DEF Next, Advance, SavePrepared, SaveDispatched, SaveFails,
          TemperatureSet, CallReturns, CallRaises, ReadbackTimeout, Confirm,
          CallFallback, SaveTerminal, Cancel, EndOperation, ClearSaved,
          ClearSaveFails, ModeSaved, ModeSaveFails, CancelOperation, BeginStop,
          RefuseEmergencyStop, BeginRestore, ClearQuarantine, SetMode, Retire,
          ReleaseFences, WindowMatures, WindowResets, BackgroundSave, Shutdown,
          ShutdownSaves, Crash, Recover, Vanish
    <3>3. ~Reject /\ \A r \in Reading : ~SetTemperature(r)
      BY <3>1 DEF Reject, Finish, SetTemperature, Transaction
    <3> QED
      BY <3>1, <3>2, <3>3
  <2>2. /\ mem.ticket[txn.dev] = txn.ticket /\ txn.dev \notin mem.quarantined
    BY <2>1 DEF Call, DispatchPermitted, OffPermitted, OnPermitted
  <2>3. txn.dev \in Device /\ txn.pc \notin Outstanding
    BY <1>1 DEF IInv, InFlight, Executing, Outstanding
  <2> QED
    BY <1>1, <2>2, <2>3 DEF IInv, SpentTicketsAreBlocked
<1> QED
  BY Invariance, <1>1, PTL DEF Spec, NoSecondOn

(* A restart that is cut short after its save and repeated is one restart: *)
(* async_recover quarantines and retires by the file alone, and its own    *)
(* save takes nothing from the journal that a later recovery reads.        *)
THEOREM RestartsAddUp ==
    ASSUME disk \in Snapshot, NEW e \in SUBSET Device, NEW f \in SUBSET Device,
           disk' = Recovered(e)
    PROVE  Recovered(f)' = Recovered(e \cup f)
<1> DEFINE q == disk.quarantined \cup UnresolvedDevices(disk)
           t == [d \in Device |-> IF d \in e THEN 0 ELSE disk.ticket[d]]
<1>1. disk' = [disk EXCEPT !.quarantined = q, !.ticket = t]
  BY DEF Recovered
<1>2. /\ disk'.journal = disk.journal /\ disk'.mode = disk.mode
      /\ disk'.fences = disk.fences /\ disk'.quarantined = q
      /\ disk'.ticket = t
      /\ DOMAIN disk' = {"mode", "ticket", "quarantined", "journal", "fences"}
  <2> HIDE DEF q, t
  <2> QED
    BY <1>1 DEF Snapshot
<1>3. UnresolvedDevices(disk)' = UnresolvedDevices(disk)
  BY <1>2 DEF UnresolvedDevices
<1>4. Recovered(f)' =
        [disk' EXCEPT !.quarantined = q,
                      !.ticket = [d \in Device |->
                                    IF d \in e \cup f THEN 0 ELSE disk.ticket[d]]]
  <2>1. disk'.quarantined \cup UnresolvedDevices(disk)' = q
    BY <1>2, <1>3
  <2>2. [d \in Device |-> IF d \in f THEN 0 ELSE disk'.ticket[d]]
          = [d \in Device |-> IF d \in e \cup f THEN 0 ELSE disk.ticket[d]]
    BY <1>2
  <2> HIDE DEF q, t
  <2> QED
    BY <2>1, <2>2 DEF Recovered
<1>5. Recovered(e \cup f) =
        [disk EXCEPT !.quarantined = q,
                     !.ticket = [d \in Device |->
                                   IF d \in e \cup f THEN 0 ELSE disk.ticket[d]]]
  BY DEF Recovered
<1>6. ASSUME NEW g
      PROVE  [disk' EXCEPT !.quarantined = q, !.ticket = g]
               = [disk EXCEPT !.quarantined = q, !.ticket = g]
  <2> HIDE DEF q, t
  <2> QED
    BY <1>1 DEF Snapshot
<1> QED
  BY <1>4, <1>5, <1>6
=============================================================================
