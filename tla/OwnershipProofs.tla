--------------------------- MODULE OwnershipProofs ---------------------------
(* RestoreTransactions implements Ownership, for any set of loads and any  *)
(* bound on the actions.                                                   *)
EXTENDS RestoreTransactionsProofs

(* Between the two saves of the intent and the call nothing writes memory, *)
(* so the file a crash would leave behind is what memory says: the ticket  *)
(* an ON is issued for is retired in both at once.                         *)
SavedIsCurrent == txn.pc \in {"permission", "tempering"} => disk = mem

-----------------------------------------------------------------------------
LEMMA InitIsCurrent == Init => SavedIsCurrent
BY DEF Init, SavedIsCurrent, Idle

(* The steps that enter or stay at the permission check.                   *)
LEMMA StepIsCurrent == IInv /\ SavedIsCurrent /\ [Next]_vars => SavedIsCurrent'
<1> SUFFICES ASSUME IInv, SavedIsCurrent, [Next]_vars,
                    txn'.pc \in {"permission", "tempering"}
             PROVE  disk' = mem'
  BY DEF SavedIsCurrent
<1>1. txn \in Transaction
  BY DEF IInv, TypeOK
<1>2. Idle.pc = "idle"
  BY DEF Idle
<1>3. CASE UNCHANGED vars
  BY <1>3 DEF vars, SavedIsCurrent
<1>4. CASE SaveDispatched
  BY <1>4 DEF SaveDispatched
<1>5. CASE TemperatureSet \/ \E r \in Reading : SetTemperature(r)
  BY <1>5 DEF TemperatureSet, SetTemperature, SavedIsCurrent
<1>6. CASE WindowResets \/ BackgroundSave \/ Shutdown
  BY <1>6 DEF WindowResets, BackgroundSave, Shutdown, SavedIsCurrent
<1>7. CASE \/ SavePrepared \/ SaveFails \/ CallReturns \/ SaveTerminal
           \/ Cancel \/ \E r \in Reading : Call(r) \/ CallFallback(r)
  <2>1. \/ txn' = [txn EXCEPT !.pc = "save_dispatched"]
        \/ txn' = [txn EXCEPT !.pc = "settle"]
        \/ txn' = [txn EXCEPT !.pc = "readback"]
        \/ txn' = [txn EXCEPT !.pc = "save_cancelled"]
        \/ txn' = [txn EXCEPT !.pc = "calling"]
        \/ txn' = [txn EXCEPT !.pc = "calling", !.retried = TRUE]
    BY <1>7
    DEF SavePrepared, SaveFails, CallReturns, SaveTerminal, Cancel, Call,
        CallFallback
  <2> QED
    BY <1>1, <2>1 DEF Transaction
<1>8. CASE \/ EndOperation \/ ClearSaved \/ ClearSaveFails
            \/ ModeSaved \/ ModeSaveFails \/ CancelOperation
  BY <1>2, <1>8
  DEF EndOperation, ClearSaved, ClearSaveFails, ModeSaved, ModeSaveFails,
      CancelOperation
<1>9. CASE \/ Reject \/ CallRaises \/ ReadbackTimeout
            \/ \E r \in Reading : Confirm(r)
  <2>1. txn'.pc = "save_terminal"
    BY <1>1, <1>9
    DEF Reject, CallRaises, ReadbackTimeout, Confirm, Finish, Transaction
  <2> QED
    BY <2>1
<1>10. ASSUME NEW d \in Device, NEW r \in Reading,
              \/ \E s \in Source, e \in BOOLEAN : BeginStop(d, s, e, r)
              \/ BeginRestore(d, r)
       PROVE  disk' = mem'
  <2>1. txn'.pc = "save_prepared"
    <3>1. ASSUME NEW a, NEW s, NEW e, Prepare(d, a, s, e)
          PROVE  txn'.pc = "save_prepared"
      BY <3>1 DEF Prepare, Idle
    <3> QED
      BY <1>10, <3>1 DEF BeginStop, BeginRestore
  <2> QED
    BY <2>1
<1>11. ASSUME NEW d \in Device, NEW r \in Reading,
              RefuseEmergencyStop(d, r) \/ ClearQuarantine(d, r)
       PROVE  disk' = mem'
  BY <1>11 DEF RefuseEmergencyStop, ClearQuarantine, Idle
<1>12. CASE \E m \in Mode : SetMode(m)
  BY <1>12 DEF SetMode, Idle
<1>13. CASE \/ \E reached \in SUBSET Fence : ReleaseFences(reached)
            \/ WindowMatures \/ ShutdownSaves \/ Crash
            \/ \E expired \in SUBSET Device : Recover(expired)
  BY <1>2, <1>13
  DEF ReleaseFences, WindowMatures, ShutdownSaves, Crash, Recover, Vanish,
      IInv, DownIsEmpty
<1>14. CASE Advance
  BY <1>4, <1>5, <1>7, <1>8, <1>9, <1>14 DEF Advance
<1>15. CASE \E d \in Device : Retire(d)
  BY <1>15 DEF Retire, Idle
<1> QED
  BY <1>3, <1>6, <1>10, <1>11, <1>12, <1>13, <1>14, <1>15 DEF Next

-----------------------------------------------------------------------------
(* The steps of the contract.                                              *)

(* Tickets only go away, and the command ends or stays: for the contract   *)
(* nothing is gained.                                                      *)
LEMMA NothingGained ==
    ASSUME spent' = spent,
           \A d \in Device : mem'.ticket[d] \in {0, mem.ticket[d], disk.ticket[d]},
           \A d \in Device : disk'.ticket[d] \in {0, mem.ticket[d], disk.ticket[d]},
           txn'.pc \notin Outstanding \/ CommandOut' = CommandOut
    PROVE  Contract!Next
<1>1. Claims' \subseteq Claims
  BY DEF Claims
<1>2. CommandOut' \in {CommandOut, <<>>}
  BY DEF CommandOut
<1> QED
  BY <1>1, <1>2 DEF Contract!Next, Contract!GiveUp, Contract!NoCommand

(* The same for a step that leaves memory and file as they are or writes   *)
(* one into the other.                                                     *)
LEMMA NothingChanged ==
    ASSUME spent' = spent, mem' = mem, disk' \in {disk, mem},
           txn'.pc \notin Outstanding \/ CommandOut' = CommandOut
    PROVE  Contract!Next
BY NothingGained

(* Two loads never share a ticket, not even across memory and file.        *)
LEMMA TicketsDiffer ==
    ASSUME IInv, proc # "down", NEW d \in Device, NEW e \in Device, d # e,
           mem.ticket[d] # 0
    PROVE  mem.ticket[e] # mem.ticket[d] /\ disk.ticket[e] # mem.ticket[d]
<1> DEFINE t == mem.ticket[d]
           stop(x) == [dev |-> x, action |-> "turn_off", phase |-> "confirmed"]
<1>1. t \in Serial
  BY DEF IInv, TypeOK, Snapshot, Serial, SerialOrNone
<1>2. mem.journal[t] = stop(d)
  BY TicketsProve
<1>3. mem.ticket[e] # t
  <2>1. mem.ticket[e] # 0 => mem.journal[mem.ticket[e]] = stop(e)
    BY TicketsProve
  <2> QED
    BY <1>2, <2>1
<1>4. ASSUME disk.ticket[e] = t
      PROVE  FALSE
  <2>1. disk.journal[t] = stop(e)
    <3>1. disk.ticket[e] # 0 => disk.journal[disk.ticket[e]] = stop(e)
      BY TicketsProve
    <3> QED
      BY <1>4, <3>1
  <2>2. disk.journal[t] # Blank
    BY <2>1 DEF Blank
  <2>3. disk.journal[t].dev = mem.journal[t].dev
    BY <1>1, <2>2 DEF IInv, JournalsAgree
  <2> QED
    BY <1>2, <2>1, <2>3
<1> QED
  BY <1>3, <1>4

(* A call: an OFF claims nothing, an ON uses up the claim of its load.     *)
LEMMA CallIsSwitching ==
    ASSUME IInv, SavedIsCurrent, NEW r \in Reading, Call(r)
    PROVE  Contract!Next
<1> DEFINE d == txn.dev
<1>1. txn.pc = "permission" /\ txn.pc \in Executing /\ txn.pc \notin Outstanding
  BY DEF Call, Executing, Outstanding
<1>2. /\ d \in Device /\ txn.action \in {"turn_off", "turn_on"}
      /\ txn \in Transaction /\ proc # "down"
  BY <1>1, ExecutingFacts
<1>3. /\ mem' = mem /\ disk' = disk /\ disk = mem
      /\ txn'.pc = "calling" /\ txn'.dev = d /\ txn'.action = txn.action
  BY <1>1, <1>2 DEF Call, SavedIsCurrent, Transaction
<1>4. CommandOut = <<>>
  BY <1>1 DEF CommandOut
<1>5. CommandOut' = IF txn.action = "turn_on" THEN <<"on", d>> ELSE <<"off", d>>
  BY <1>3 DEF CommandOut, Outstanding
<1>6. CASE txn.action = "turn_off"
  <2>1. spent' = spent
    BY <1>6 DEF Call
  <2>2. Claims' = Claims
    BY <1>3, <2>1 DEF Claims
  <2>3. Contract!SwitchOff(d)
    BY <1>4, <1>5, <1>6, <2>2 DEF Contract!SwitchOff, Contract!NoCommand
  <2> QED
    BY <1>2, <2>3 DEF Contract!Next
<1>7. CASE txn.action = "turn_on"
  <2>1. spent' = spent \cup {txn.ticket}
    BY <1>7 DEF Call
  <2>2. mem.ticket[d] = txn.ticket /\ d \notin mem.quarantined
    BY <1>7 DEF Call, DispatchPermitted, OffPermitted, OnPermitted
  <2>3. mem.ticket[d] # 0
    BY <1>1, <1>7, <2>2 DEF IInv, InFlight
  <2>4. mem.ticket[d] \notin spent
    BY <1>1, <1>2, <2>2 DEF IInv, SpentTicketsAreBlocked
  <2>5. \A e \in Device \ {d} : mem.ticket[e] # txn.ticket
    BY <1>2, <2>2, <2>3, TicketsDiffer
  <2>6. d \in Claims
    BY <1>2, <2>3, <2>4 DEF Claims
  <2>7. Claims' = Claims \ {d}
    BY <1>3, <2>1, <2>2, <2>5 DEF Claims
  <2>8. Contract!SwitchOn(d)
    BY <1>2, <1>4, <1>5, <1>7, <2>6, <2>7 DEF Contract!SwitchOn, Contract!NoCommand
  <2> QED
    BY <1>2, <2>8 DEF Contract!Next
<1> QED
  BY <1>2, <1>6, <1>7

(* A terminal result: only the confirmation of an OFF can begin a claim.   *)
LEMMA FinishEndsCommand ==
    ASSUME IInv, txn.pc \in Executing \ {"save_terminal"},
           NEW result \in {"confirmed", "rejected", "failed"}, Finish(result),
           result = "confirmed" => txn.pc \in Outstanding,
           disk' = disk, spent' = spent
    PROVE  Contract!Next
<1> DEFINE d == txn.dev
<1>1. /\ d \in Device /\ txn.action \in {"turn_off", "turn_on"}
      /\ txn.act \in Serial /\ mem \in Snapshot /\ txn \in Transaction
  BY ExecutingFacts
<1>2. /\ \A e \in Device \ {d} : mem'.ticket[e] = mem.ticket[e]
      /\ mem'.ticket[d] =
           IF result # "confirmed" THEN mem.ticket[d]
           ELSE IF txn.action = "turn_on" THEN 0
           ELSE IF CommitsTicket(txn.source) THEN txn.act
           ELSE mem.ticket[d]
  BY <1>1, FinishFields
<1>3. txn'.pc = "save_terminal" /\ txn'.pc \notin Outstanding
  BY <1>1 DEF Finish, Transaction, Outstanding
<1>4. CASE /\ result = "confirmed" /\ txn.action = "turn_off"
           /\ CommitsTicket(txn.source)
  <2>1. CommandOut = <<"off", d>> /\ CommandOut' = <<>>
    BY <1>3, <1>4 DEF CommandOut
  <2>2. mem'.ticket[d] = txn.act
    BY <1>2, <1>4
  <2>3. txn.act # 0 /\ txn.act \notin spent
    BY <1>1, ConstantsAssumption DEF IInv, SpentTicketsAreOld, Serial
  <2>4. Claims' = Claims \cup {d}
    BY <1>1, <1>2, <2>2, <2>3 DEF Claims
  <2>5. Contract!Take(d)
    BY <2>1, <2>4 DEF Contract!Take, Contract!NoCommand
  <2> QED
    BY <1>1, <2>5 DEF Contract!Next
<1>5. CASE ~(/\ result = "confirmed" /\ txn.action = "turn_off"
             /\ CommitsTicket(txn.source))
  <2>1. \A e \in Device : mem'.ticket[e] \in {0, mem.ticket[e]}
    BY <1>1, <1>2, <1>5
  <2> QED
    BY <1>3, <2>1, NothingGained
<1> QED
  BY <1>4, <1>5

(* An abandoned action gives its ticket up.                                *)
LEMMA AbandoningGivesUp ==
    ASSUME IInv, txn.pc \in Executing, mem' = Abandoned(mem),
           disk' \in {disk, mem}, spent' = spent, txn'.pc \notin Outstanding
    PROVE  Contract!Next
<1>1. \A e \in Device : mem'.ticket[e] \in {0, mem.ticket[e]}
  <2>1. mem \in Snapshot /\ mem'.ticket = [mem.ticket EXCEPT ![txn.dev] = 0]
    BY ExecutingFacts, AbandonedFields
  <2> QED
    BY <2>1 DEF Snapshot
<1> QED
  BY <1>1, NothingGained

(* An operator's clear: the ticket the load has counts again.              *)
LEMMA ClearVouches ==
    ASSUME IInv, NEW d \in Device, NEW r \in Reading, ClearQuarantine(d, r)
    PROVE  Contract!Next
<1>1. /\ mem'.ticket = mem.ticket /\ disk' = disk /\ proc # "down"
      /\ spent' = spent \ {mem.ticket[d]}
  BY DEF ClearQuarantine, IInv, TypeOK, Snapshot
<1>2. CommandOut = <<>> /\ CommandOut' = <<>>
  BY DEF ClearQuarantine, CommandOut, Idle, Outstanding
<1>3. Claims' \subseteq Claims \cup {d}
  <2>1. CASE mem.ticket[d] = 0
    BY <1>1, <2>1 DEF Claims
  <2>2. CASE mem.ticket[d] # 0
    <3>1. \A e \in Device \ {d} : /\ mem.ticket[e] # mem.ticket[d]
                                  /\ disk.ticket[e] # mem.ticket[d]
      BY <1>1, <2>2, TicketsDiffer
    <3> QED
      BY <1>1, <3>1 DEF Claims
  <2> QED
    BY <2>1, <2>2
<1>4. Contract!Vouch(d)
  BY <1>2, <1>3 DEF Contract!Vouch, Contract!NoCommand
<1> QED
  BY <1>4 DEF Contract!Next

-----------------------------------------------------------------------------
(* Every step of the operation under way is a step of the contract.        *)
LEMMA AdvanceKeepsContract ==
    ASSUME IInv, SavedIsCurrent, Advance
    PROVE  Contract!Next
<1>1. txn \in Transaction /\ mem \in Snapshot /\ disk \in Snapshot
  BY DEF IInv, TypeOK
<1>2. txn.pc \in Commanding => txn.pc \in Executing
  BY DEF Executing
<1>3. CASE SavePrepared
  <2>1. txn.pc \in Executing
    BY <1>3 DEF SavePrepared, Executing
  <2>2. mem'.ticket = mem.ticket
    <3>1. /\ mem \in Snapshot /\ txn.act \in Serial
          /\ txn.dev \in Device /\ txn.action \in {"turn_off", "turn_on"}
      BY <2>1, ExecutingFacts
    <3>2. Recorded(mem, txn.act, "dispatched").ticket = mem.ticket
      BY <3>1 DEF Recorded, Snapshot
    <3> QED
      BY <1>3, <3>2 DEF SavePrepared
  <2> QED
    BY <1>1, <1>3, <2>2, NothingGained
    DEF SavePrepared, Transaction, Outstanding
<1>4. CASE SaveDispatched \/ TemperatureSet \/ \E r \in Reading : SetTemperature(r)
  BY <1>1, <1>4, NothingChanged
  DEF SaveDispatched, TemperatureSet, SetTemperature, Transaction, Outstanding
<1>5. CASE CallReturns \/ \E r \in Reading : CallFallback(r)
  <2>1. /\ CommandOut' = CommandOut
        /\ mem' = mem /\ disk' = disk /\ spent' = spent
    BY <1>1, <1>5
    DEF CallReturns, CallFallback, Transaction, CommandOut, Outstanding
  <2> QED
    BY <2>1, NothingChanged
<1>6. CASE SaveFails
  BY <1>1, <1>6, AbandoningGivesUp
  DEF SaveFails, Transaction, Outstanding, Executing
<1>7. CASE Cancel
  BY <1>1, <1>7, AbandoningGivesUp DEF Cancel, Transaction, Outstanding
<1>8. CASE Reject
  BY <1>8, FinishEndsCommand DEF Reject, Executing
<1>9. CASE CallRaises
  BY <1>2, <1>9, FinishEndsCommand DEF CallRaises, Commanding
<1>10. CASE ReadbackTimeout
  BY <1>2, <1>10, FinishEndsCommand DEF ReadbackTimeout, Commanding
<1>11. ASSUME NEW r \in Reading, Confirm(r)
       PROVE  Contract!Next
  BY <1>2, <1>11, FinishEndsCommand DEF Confirm, Commanding, Outstanding
<1>12. ASSUME NEW r \in Reading, Call(r)
       PROVE  Contract!Next
  BY <1>12, CallIsSwitching
<1>13. CASE SaveTerminal
  <2>1. txn.dev \in Device
    BY <1>13, ExecutingFacts DEF SaveTerminal, Executing
  <2>2. mem'.ticket = mem.ticket
    BY <1>1, <1>13, <2>1, LatchedFields DEF SaveTerminal
  <2> QED
    BY <1>1, <1>13, <2>2, NothingGained
    DEF SaveTerminal, Transaction, Outstanding
<1>14. CASE \/ EndOperation \/ ClearSaved \/ ModeSaved \/ CancelOperation
  BY <1>14, NothingChanged
  DEF EndOperation, ClearSaved, ModeSaved, CancelOperation, Idle, Outstanding
<1>15. CASE ClearSaveFails \/ ModeSaveFails
  <2>1. mem'.ticket = mem.ticket
    BY <1>1, <1>15 DEF ClearSaveFails, ModeSaveFails, Latched, Snapshot
  <2> QED
    BY <1>15, <2>1, NothingGained
    DEF ClearSaveFails, ModeSaveFails, Idle, Outstanding
<1> QED
  BY <1>3, <1>4, <1>5, <1>6, <1>7, <1>8, <1>9, <1>10, <1>11, <1>12, <1>13,
     <1>14, <1>15 DEF Advance

(* So is every other step.                                                 *)
LEMMA NextKeepsContract ==
    IInv /\ SavedIsCurrent /\ [Next]_vars => [Contract!Next]_(Contract!vars)
<1> SUFFICES ASSUME IInv, SavedIsCurrent, [Next]_vars
             PROVE  [Contract!Next]_(Contract!vars)
  OBVIOUS
<1>1. txn \in Transaction /\ mem \in Snapshot /\ disk \in Snapshot
  BY DEF IInv, TypeOK
<1>2. CASE UNCHANGED vars
  BY <1>2 DEF vars, Contract!vars, Claims, CommandOut
<1>3. CASE Advance
  BY <1>3, AdvanceKeepsContract
<1>4. ASSUME NEW d \in Device, NEW r \in Reading, ClearQuarantine(d, r)
      PROVE  Contract!Next
  BY <1>4, ClearVouches
<1>5. ASSUME NEW d \in Device, NEW r \in Reading,
             \/ \E s \in Source, e \in BOOLEAN : BeginStop(d, s, e, r)
             \/ BeginRestore(d, r)
      PROVE  Contract!Next
  <2>1. /\ mem'.ticket = mem.ticket /\ disk' = disk /\ spent' = spent
        /\ txn'.pc = "save_prepared"
    <3>1. /\ disk' = disk /\ spent' = spent
          /\ \E a \in {"turn_off", "turn_on"}, s \in Source, e \in BOOLEAN :
                 Prepare(d, a, s, e)
      BY <1>5 DEF BeginStop, BeginRestore, Source
    <3>2. ASSUME NEW a, NEW s, NEW e, Prepare(d, a, s, e)
          PROVE  mem'.ticket = mem.ticket /\ txn'.pc = "save_prepared"
      BY <1>1, <3>2 DEF Prepare, Snapshot, Idle
    <3> QED
      BY <3>1, <3>2
  <2> QED
    BY <2>1, NothingGained DEF Outstanding
<1>6. CASE \/ \E d \in Device, r \in Reading : RefuseEmergencyStop(d, r)
           \/ \E m \in Mode : SetMode(m)
           \/ \E d \in Device : Retire(d)
  <2>1. /\ disk' = disk /\ spent' = spent /\ txn'.pc \notin Outstanding
    <3>1. \A pc : [Idle EXCEPT !.pc = pc].pc = pc
      BY DEF Idle
    <3>2. CASE \E d \in Device, r \in Reading : RefuseEmergencyStop(d, r)
      BY <3>1, <3>2 DEF RefuseEmergencyStop, Outstanding
    <3>3. CASE \E m \in Mode : SetMode(m)
      BY <3>1, <3>3 DEF SetMode, Outstanding, Idle
    <3>4. CASE \E d \in Device : Retire(d)
      BY <3>1, <3>4 DEF Retire, Outstanding
    <3> QED
      BY <1>6, <3>2, <3>3, <3>4
  <2>2. \A e \in Device : mem'.ticket[e] \in {0, mem.ticket[e]}
    <3>1. CASE \/ \E d \in Device, r \in Reading : RefuseEmergencyStop(d, r)
               \/ \E m \in Mode : SetMode(m)
      BY <1>1, <3>1 DEF RefuseEmergencyStop, SetMode, Latched, Snapshot
    <3>2. ASSUME NEW d \in Device, Retire(d)
          PROVE  \A e \in Device : mem'.ticket[e] \in {0, mem.ticket[e]}
      <4>1. mem'.ticket = [mem.ticket EXCEPT ![d] = 0]
        BY <1>1, <3>2, RemovedFields DEF Retire
      <4> QED
        BY <1>1, <4>1 DEF Snapshot
    <3> QED
      BY <1>6, <3>1, <3>2
  <2> QED
    BY <2>1, <2>2, NothingGained
<1>7. CASE \E reached \in SUBSET Fence : ReleaseFences(reached)
  <2>1. /\ mem'.ticket = mem.ticket /\ disk' = disk /\ spent' = spent
        /\ txn' = txn
    BY <1>1, <1>7 DEF ReleaseFences, Snapshot
  <2>2. CommandOut' = CommandOut
    BY <2>1 DEF CommandOut
  <2> QED
    BY <2>1, <2>2, NothingGained
<1>8. CASE WindowMatures \/ WindowResets \/ BackgroundSave \/ Shutdown
  <2>1. mem' = mem /\ disk' \in {disk, mem} /\ spent' = spent /\ txn' = txn
    BY <1>8 DEF WindowMatures, WindowResets, BackgroundSave, Shutdown
  <2>2. CommandOut' = CommandOut
    BY <2>1 DEF CommandOut
  <2> QED
    BY <2>1, <2>2, NothingChanged
<1>9. CASE ShutdownSaves \/ Crash
  <2>1. /\ mem' = Fresh /\ disk' \in {disk, mem} /\ spent' = spent
        /\ txn' = Idle
    BY <1>9 DEF ShutdownSaves, Crash, Vanish
  <2> QED
    BY <2>1, FreshSnapshot, NothingGained DEF Idle, Outstanding
<1>10. ASSUME NEW expired \in SUBSET Device, Recover(expired)
       PROVE  Contract!Next
  <2>1. /\ spent' = spent /\ txn' = txn
        /\ mem'.ticket = [d \in Device |->
                             IF d \in expired THEN 0 ELSE disk.ticket[d]]
        /\ disk' \in {disk, mem'}
    BY <1>1, <1>10 DEF Recover, Recovered, Snapshot
  <2>2. CommandOut' = CommandOut
    BY <2>1 DEF CommandOut
  <2> QED
    BY <2>1, <2>2, NothingGained
<1> QED
  BY <1>2, <1>3, <1>4, <1>5, <1>6, <1>7, <1>8, <1>9, <1>10 DEF Next

-----------------------------------------------------------------------------
(* The transactions implement the contract: every ON answers a confirmed   *)
(* stop of its own that no ON has answered yet, in whatever order saves    *)
(* fail, callers are cancelled and the process dies and recovers           *)
(* (RestoreTransactions.execute, async_recover).                           *)
THEOREM ContractIsKept == Spec => KeepsContract
<1>1. Init => Contract!Init
  BY FreshSnapshot
  DEF Init, Contract!Init, Contract!NoCommand, Claims, CommandOut, Idle, Outstanding
<1>2. Spec => []SavedIsCurrent
  BY Invariance, InitIsCurrent, StepIsCurrent, PTL DEF Spec
<1> QED
  BY Invariance, NextKeepsContract, <1>1, <1>2, PTL
  DEF Spec, KeepsContract, Contract!Spec

-----------------------------------------------------------------------------
(* The count of OwnershipLedger, kept of the transactions.                 *)
VARIABLES stops, vouchings, ons

Ledger ==
    INSTANCE OwnershipLedger WITH
        Load <- Device, owed <- Claims, wanted <- Device, command <- CommandOut

(* However often it restarts, fails to save or is cancelled, the program   *)
(* issues no more ONs to a load than it confirmed stops that left a ticket *)
(* and an operator cleared quarantines that did.                           *)
THEOREM OnsAnswerStops == Spec /\ Ledger!Counting => []Ledger!OnsAreCovered
<1>1. KeepsContract => Ledger!Spec
  <2>1. Contract!Init => Ledger!Init
    BY DEF Contract!Init, Ledger!Init, Contract!NoCommand, Ledger!NoCommand
  <2>2. Contract!NoCommand = Ledger!NoCommand /\ Contract!vars = Ledger!vars
    BY DEF Contract!NoCommand, Ledger!NoCommand, Contract!vars, Ledger!vars
  <2>3. ASSUME NEW d \in Device
        PROVE  /\ Contract!SwitchOff(d) => Ledger!SwitchOff(d)
               /\ Contract!Take(d) => Ledger!Take(d)
               /\ Contract!SwitchOn(d) => Ledger!SwitchOn(d)
               /\ Contract!Vouch(d) => Ledger!Vouch(d)
    BY <2>2
    DEF Contract!SwitchOff, Ledger!SwitchOff, Contract!Take, Ledger!Take,
        Contract!SwitchOn, Ledger!SwitchOn, Contract!Vouch, Ledger!Vouch
  <2>4. Contract!GiveUp => Ledger!GiveUp
    BY <2>2 DEF Contract!GiveUp, Ledger!GiveUp
  <2>5. Contract!Next => Ledger!Next
    BY <2>3, <2>4 DEF Contract!Next, Ledger!Next
  <2>6. UNCHANGED Contract!vars => UNCHANGED Ledger!vars
    BY DEF Contract!vars, Ledger!vars
  <2> QED
    BY <2>1, <2>5, <2>6, PTL DEF KeepsContract, Contract!Spec, Ledger!Spec
<1>2. Ledger!Spec /\ Ledger!Counting => []Ledger!OnsAreCovered
  BY Ledger!OneOnPerClaim
<1> QED
  BY ContractIsKept, <1>1, <1>2, PTL
=============================================================================
