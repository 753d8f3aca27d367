--------------------------- MODULE GridLossProofs ---------------------------
(***************************************************************************)
(* No outage leaves a load running and forgotten, for any number of loads, *)
(* whichever of them have a battery minimum.                               *)
(***************************************************************************)
EXTENDS GridLoss, TLAPS, WellFoundedInduction

-----------------------------------------------------------------------------
(* The inductive invariant.                                                *)

Commanding == {"saving", "calling", "ended"}

(* Only a command has a lane, and it has a load; a refresh that was        *)
(* interrupted goes on behind a load.                                      *)
OpShape ==
    /\ op.pc \in Commanding => op.dev \in Device
    /\ op.pc \notin Commanding => op.lane = "none"
    /\ op.pc = "refresh" => op.dev \in 1..(Loads + 1)

Done(d) == relay[d] = "off" \/ d \in flagged \cup excused

Settled(d) == Done(d) \/ d \in deferred

(* The loop of _handle_grid_loss has settled the loads before the one it   *)
(* is at, and a retry had settled the others before it began.  What it     *)
(* notes of the load it is at, when that command has ended, is right.      *)
Progress ==
    incident /\ acted =>
        \A d \in Ordinary :
            /\ \/ op.lane # "loss"
               \/ d < op.dev
               \/ op.retry /\ d # op.dev
               => Settled(d)
            /\ /\ op.lane = "loss" /\ op.pc = "ended" /\ d = op.dev
               /\ op.outcome # "rejected"
               => Done(d)

IInv == TypeOK /\ OpShape /\ Progress

-----------------------------------------------------------------------------
(* The first load of a set.                                                *)

LEMMA FirstIsLeast ==
    ASSUME NEW S, S \subseteq Nat, S # {}
    PROVE  First(S) \in S /\ \A e \in S : First(S) <= e
<1> DEFINE Less == OpToRel(<, Nat)
<1>1. \A x, y \in Nat : x < y => <<x, y>> \in Less
  BY DEF OpToRel
<1>2. \E d \in S : \A e \in S : ~(<<e, d>> \in Less)
  <2>1. IsWellFoundedOn(Less, Nat)
    BY NatLessThanWellFounded
  <2> HIDE DEF Less
  <2> QED
    BY <2>1, WFMin
<1>3. \E d \in S : \A e \in S : d <= e
  <2>1. PICK d \in S : \A e \in S : ~(<<e, d>> \in Less)
    BY <1>2
  <2>2. \A e \in S : ~(e < d)
    <3> HIDE DEF Less
    <3> QED
      BY <1>1, <2>1
  <2>3. \A e \in S : d <= e
    BY <2>2
  <2> QED
    BY <2>3
<1> QED
  BY <1>3 DEF First

(* A nonempty set of loads from the k-th on begins with one of them.       *)
LEMMA FirstOfLoads ==
    ASSUME NEW k \in 1..(Loads + 1), NEW S, S \subseteq k..Loads, S # {}
    PROVE  /\ First(S) \in S /\ First(S) \in Device /\ First(S) >= k
           /\ \A e \in S : First(S) <= e
<1>1. k \in Nat /\ Loads \in Nat /\ k >= 1
  BY LossAssumption
<1>2. S \subseteq Nat
  BY <1>1
<1>3. First(S) \in S /\ \A e \in S : First(S) <= e
  BY <1>2, FirstIsLeast
<1>4. First(S) \in k..Loads
  BY <1>3
<1>5. First(S) \in Device /\ First(S) >= k
  BY <1>1, <1>4 DEF Device
<1> QED
  BY <1>3, <1>5

-----------------------------------------------------------------------------
(* The operations that a step can leave under way.                         *)

(* Nothing, an await of the evaluation, or the rest of a refresh.          *)
Plain(o) ==
    /\ o \in Operation /\ o.lane = "none" /\ o.pc \notin Commanding
    /\ o.pc = "refresh" => o.dev \in 1..(Loads + 1)

LEMMA PlainOperations ==
    /\ Plain(Idle)
    /\ Plain([Idle EXCEPT !.pc = "lane"])
    /\ Plain([Idle EXCEPT !.pc = "recovering"])
    /\ Plain([Idle EXCEPT !.pc = "settling"])
    /\ \A d \in Device : Plain([Idle EXCEPT !.pc = "refresh", !.dev = d + 1])
<1>1. Loads \in Nat
  BY LossAssumption
<1>2. Plain(Idle)
  BY <1>1 DEF Plain, Idle, Operation, Lane, Outcome, Commanding
<1>3a. Plain([Idle EXCEPT !.pc = "lane"])
  BY <1>1, 0 \in 0..(Loads + 1) DEF Plain, Idle, Operation, Lane, Outcome, Commanding
<1>3b. Plain([Idle EXCEPT !.pc = "recovering"])
  BY <1>1, 0 \in 0..(Loads + 1) DEF Plain, Idle, Operation, Lane, Outcome, Commanding
<1>3c. Plain([Idle EXCEPT !.pc = "settling"])
  BY <1>1, 0 \in 0..(Loads + 1) DEF Plain, Idle, Operation, Lane, Outcome, Commanding
<1>4. ASSUME NEW d \in Device
      PROVE  Plain([Idle EXCEPT !.pc = "refresh", !.dev = d + 1])
  <2>1. d + 1 \in 1..(Loads + 1) /\ d + 1 \in 0..(Loads + 1)
    BY <1>1 DEF Device
  <2> QED
    BY <2>1 DEF Plain, Idle, Operation, Lane, Outcome, Commanding
<1> QED
  BY <1>2, <1>3a, <1>3b, <1>3c, <1>4

(* A command that was permitted is at its saves, one that was not has      *)
(* ended.                                                                  *)
LEMMA CommandFields ==
    ASSUME NEW lane \in Lane, NEW d \in Device, NEW urgent \in BOOLEAN,
           NEW retry \in BOOLEAN, NEW v, NEW c,
           c = Command(lane, d, urgent, retry, v)
    PROVE  /\ c \in Operation /\ c.lane = lane /\ c.dev = d
           /\ c.retry = retry
           /\ c.pc \in {"saving", "ended"}
           /\ c.pc = "ended" => c.outcome = "rejected"
<1>1. Loads \in Nat
  BY LossAssumption
<1> QED
  BY <1>1 DEF Command, Operation, Device, Outcome

(* The await a command is at.                                              *)
LEMMA CommandMoves ==
    ASSUME op \in Operation
    PROVE  /\ [op EXCEPT !.pc = "calling"] \in Operation
           /\ [op EXCEPT !.pc = "calling"].pc = "calling"
           /\ [op EXCEPT !.pc = "calling"].lane = op.lane
           /\ [op EXCEPT !.pc = "calling"].dev = op.dev
           /\ [op EXCEPT !.pc = "calling"].retry = op.retry
           /\ \A o \in Outcome :
                /\ [op EXCEPT !.pc = "ended", !.outcome = o] \in Operation
                /\ [op EXCEPT !.pc = "ended", !.outcome = o].pc = "ended"
                /\ [op EXCEPT !.pc = "ended", !.outcome = o].lane = op.lane
                /\ [op EXCEPT !.pc = "ended", !.outcome = o].dev = op.dev
                /\ [op EXCEPT !.pc = "ended", !.outcome = o].retry = op.retry
                /\ [op EXCEPT !.pc = "ended", !.outcome = o].outcome = o
BY DEF Operation, Outcome

(* A plain operation, or a command for a load in another lane than the     *)
(* loop of the loss.                                                       *)
Other(o) ==
    \/ Plain(o)
    \/ /\ o \in Operation /\ o.pc \in Commanding /\ o.dev \in Device
       /\ o.lane # "loss"

-----------------------------------------------------------------------------
(* The state of the relays as the coordinator notes it.                    *)

LEMMA RefreshTypes ==
    ASSUME TypeOK, NEW S
    PROVE  Refresh(S) \in [Device -> RelayState]
BY DEF TypeOK, Refresh, RelayState

LEMMA NoteTypes ==
    ASSUME TypeOK, Note
    PROVE  observed' \in [Device -> RelayState] /\ reconciled' \in BOOLEAN
BY RefreshTypes DEF TypeOK, Note, Refreshing

LEMMA FromIsALoad ==
    ASSUME TypeOK, OpShape
    PROVE  From \in 1..(Loads + 1)
BY LossAssumption DEF From, OpShape

-----------------------------------------------------------------------------
(* What keeps Progress.                                                    *)

(* A step that neither begins an incident nor unsettles a load.            *)
Steady ==
    /\ incident' /\ acted' => incident /\ acted
    /\ \A d \in Ordinary : /\ Done(d) => Done(d)'
                           /\ Settled(d) => Settled(d)'

(* Nothing is owed any more, or everything is excused.                     *)
LEMMA Released ==
    ASSUME ~(incident' /\ acted') \/ excused' = Ordinary
    PROVE  Progress'
BY DEF Progress, Settled, Done

LEMMA OutsideKeeps ==
    ASSUME IInv, Steady, op.lane # "loss", op'.lane # "loss"
    PROVE  Progress'
BY DEF IInv, Progress, Steady

LEMMA InsideKeeps ==
    ASSUME IInv, Steady, op' = op
    PROVE  Progress'
BY DEF IInv, Progress, Steady

LEMMA UnchangedIsSteady ==
    ASSUME UNCHANGED <<relay, incident, acted, deferred, excused>>,
           flagged \subseteq flagged'
    PROVE  Steady
BY DEF Steady, Settled, Done

LEMMA OtherShapes ==
    ASSUME Other(op')
    PROVE  op' \in Operation /\ OpShape' /\ op'.lane # "loss"
BY DEF Other, Plain, OpShape, Commanding

-----------------------------------------------------------------------------
(* The loop over the loads.                                                *)

(* From load k on, with everything before it settled: the loop notes what  *)
(* is off, and stops at the first load that is not.                        *)
LEMMA LoopKeeps ==
    ASSUME TypeOK, NEW k \in 1..(Loads + 1), NEW retry \in BOOLEAN,
           NEW owed \in SUBSET Ordinary, NEW v \in BOOLEAN,
           StopFrom(k, retry, owed, v),
           UNCHANGED <<relay, flagged>>,
           incident' /\ acted' => \A d \in Ordinary :
               d < k \/ retry =>
                   \/ relay[d] = "off" \/ d \in flagged \cup excused'
                   \/ d \in owed
    PROVE  /\ op' \in Operation /\ OpShape' /\ Progress'
           /\ deferred' \in SUBSET Ordinary
<1> DEFINE targets == LossTargets(k, retry, owed, v)
           last == IF targets = {} THEN Loads ELSE First(targets) - 1
<1>1. Loads \in Nat /\ Device = 1..Loads /\ k \in Nat /\ k >= 1
  BY LossAssumption DEF Device
<1>2. targets \subseteq k..Loads
  BY DEF LossTargets
<1>3. /\ deferred' = owed \ {d \in k..last : relay[d] = "off"}
      /\ op' = IF targets = {} THEN Idle
               ELSE Command("loss", First(targets), TRUE, retry, v)
  BY DEF StopFrom
<1>4. deferred' \in SUBSET Ordinary
  BY <1>3
<1>5. \A d \in Ordinary : d \in owed => relay[d] = "off" \/ d \in deferred'
  BY <1>3
<1>6. ASSUME NEW d \in Ordinary, d \notin targets, d >= k
      PROVE  relay[d] = "off" \/ (retry /\ d \notin owed)
  <2>1. d \in k..Loads /\ ~Permits(d, v)
    BY <1>1, <1>6 DEF Ordinary, Permits
  <2> QED
    BY <1>6, <2>1 DEF LossTargets
<1>7. ASSUME NEW d \in Ordinary, incident' /\ acted',
             d < k \/ retry \/ d \notin targets
      PROVE  Settled(d)'
  <2>1. CASE d < k \/ retry
    BY <1>5, <1>7, <2>1 DEF Settled, Done
  <2>2. CASE d >= k /\ ~retry /\ d \notin targets
    BY <1>6, <2>2 DEF Settled, Done
  <2> QED
    BY <1>1, <1>7, <2>1, <2>2 DEF Ordinary
<1>8. CASE targets = {}
  <2>1. op' = Idle /\ Plain(op')
    BY <1>3, <1>8, PlainOperations
  <2>2. op' \in Operation /\ OpShape' /\ op'.lane = "none"
    BY <2>1 DEF Plain, OpShape
  <2>3. incident' /\ acted' => \A d \in Ordinary : Settled(d)'
    BY <1>7, <1>8
  <2> QED
    BY <1>4, <2>2, <2>3 DEF Progress
<1>9. CASE targets # {}
  <2> DEFINE f == First(targets)
  <2>1. f \in Device /\ f >= k /\ \A e \in targets : f <= e
    BY <1>2, <1>9, FirstOfLoads
  <2>2. op' = Command("loss", f, TRUE, retry, v)
    BY <1>3, <1>9
  <2> HIDE DEF targets, f
  <2>3. ASSUME NEW c, c = Command("loss", f, TRUE, retry, v)
        PROVE  /\ c \in Operation /\ c.lane = "loss" /\ c.dev = f
               /\ c.retry = retry /\ c.pc \in {"saving", "ended"}
               /\ c.pc = "ended" => c.outcome = "rejected"
    BY <1>1, <2>1, <2>3 DEF Command, Operation, Outcome, Lane
  <2>4. /\ op' \in Operation /\ op'.lane = "loss" /\ op'.dev = f
        /\ op'.retry = retry /\ op'.pc \in {"saving", "ended"}
        /\ op'.pc = "ended" => op'.outcome = "rejected"
    BY <2>2, <2>3
  <2>5. OpShape'
    BY <2>1, <2>4 DEF OpShape, Commanding
  <2>6. \A d \in Ordinary : d < f => d \notin targets
    BY <1>1, <2>1 DEF Ordinary
  <2>7. Progress'
    BY <1>7, <2>4, <2>6 DEF Progress
  <2> QED
    BY <1>4, <2>4, <2>5, <2>7
<1> QED
  BY <1>8, <1>9

-----------------------------------------------------------------------------
(* Steps outside the loop, or that leave it.                               *)

(* What a step leaves of the types, but for the operation.                 *)
Typed ==
    /\ supply' \in Supplies /\ load' \in BOOLEAN /\ enough' \subseteq BatteryLoads
    /\ relay' \in [Device -> RelayState]
    /\ mode' \in Modes /\ valid' \in BOOLEAN
    /\ fault' \in {"none", "reported", "latched"}
    /\ incident' \in BOOLEAN /\ acted' \in BOOLEAN
    /\ deferred' \subseteq Ordinary /\ excused' \subseteq Ordinary
    /\ flagged' \subseteq Device /\ pending' \subseteq Device
    /\ observed' \in [Device -> RelayState] /\ reconciled' \in BOOLEAN

LEMMA TypedTypes ==
    ASSUME Typed, op' \in Operation
    PROVE  TypeOK'
BY DEF Typed, TypeOK

(* From one operation outside the loop to the next one.                    *)
LEMMA DetourKeeps ==
    ASSUME IInv, Typed, op.lane # "loss", Other(op'),
           UNCHANGED <<relay, outage>>, flagged \subseteq flagged'
    PROVE  IInv'
<1>1. Steady
  BY UnchangedIsSteady DEF outage
<1> QED
  BY <1>1, OtherShapes, OutsideKeeps, TypedTypes DEF IInv

(* The incident ends or everything is excused.                             *)
LEMMA ReleaseKeeps ==
    ASSUME Typed, Other(op'),
           ~(incident' /\ acted') \/ excused' = Ordinary
    PROVE  IInv'
BY OtherShapes, Released, TypedTypes DEF IInv

(* What is around an operation changes.                                    *)
LEMMA AroundKeeps ==
    ASSUME IInv, Typed, op' = op, Steady
    PROVE  IInv'
<1>1. op' \in Operation /\ OpShape'
  BY DEF IInv, TypeOK, OpShape
<1> QED
  BY <1>1, InsideKeeps, TypedTypes DEF IInv

(* The places an evaluation comes to are outside the loop.                 *)
LEMMA PlacesAreOutside ==
    ASSUME IInv
    PROVE  /\ Refreshing \/ AtLane \/ AtSupply => op.lane # "loss"
           /\ op.pc \in {"idle", "refresh", "lane", "recovering", "settling"} =>
                 op.lane # "loss"
           /\ op = Idle => op.lane # "loss"
<1>1. op.pc \in {"idle", "refresh", "lane", "recovering", "settling"} =>
          op.lane # "loss"
  BY DEF IInv, OpShape, Commanding
<1>2. Refreshing \/ AtLane \/ AtSupply =>
          op.pc \in {"idle", "refresh", "lane", "recovering"}
  BY DEF Refreshing, AtLane, AtSupply, Refreshed
<1>3. op = Idle => op.pc = "idle"
  BY DEF Idle
<1> QED
  BY <1>1, <1>2, <1>3

LEMMA SampledType ==
    ASSUME TypeOK
    PROVE  Sampled \in BOOLEAN
BY DEF TypeOK, Sampled

-----------------------------------------------------------------------------
(* The evaluation.                                                         *)

LEMMA ManualOnKeeps ==
    ASSUME IInv, ManualOn
    PROVE  IInv'
<1> DEFINE d == First(ManualOns)
<1>1. TypeOK /\ Loads \in Nat /\ From \in 1..(Loads + 1)
  <2>1. TypeOK /\ OpShape
    BY DEF IInv
  <2> QED
    BY <2>1, FromIsALoad, LossAssumption
<1>2. ManualOns \subseteq From..Loads /\ ManualOns # {}
  BY DEF ManualOns, ManualOn
<1>3. d \in Device
  BY <1>1, <1>2, FirstOfLoads
<1>4. /\ valid' = load /\ observed' = Refresh(From..d)
      /\ UNCHANGED <<inputs, relay, mode, fault, outage, flagged, reconciled>>
      /\ pending' \subseteq pending
      /\ \/ op' = [Idle EXCEPT !.pc = "refresh", !.dev = d + 1]
         \/ op' = Command("manual", d, supply = "down" /\ ~Permits(d, load),
                          FALSE, load)
  BY DEF ManualOn
<1>5. Refresh(From..d) \in [Device -> RelayState]
  BY <1>1, RefreshTypes
<1> HIDE DEF d
<1>6. Typed
  BY <1>1, <1>4, <1>5 DEF TypeOK, Typed, inputs, outage
<1>7. Other(op')
  <2>1. CASE op' = [Idle EXCEPT !.pc = "refresh", !.dev = d + 1]
    BY <1>3, <2>1, PlainOperations DEF Other
  <2>2. CASE op' = Command("manual", d, supply = "down" /\ ~Permits(d, load),
                           FALSE, load)
    BY <1>1, <1>3, <2>2
    DEF Command, Operation, Outcome, Lane, Other, Commanding, Device
  <2> QED
    BY <1>4, <2>1, <2>2
<1>8. op.lane # "loss"
  BY PlacesAreOutside DEF ManualOn
<1> QED
  BY <1>4, <1>6, <1>7, <1>8, DetourKeeps

LEMMA HandleReportKeeps ==
    ASSUME IInv, HandleReport
    PROVE  IInv'
<1>1. TypeOK /\ op.lane # "loss"
  BY PlacesAreOutside DEF IInv, HandleReport, Refreshed
<1>2. Typed
  BY <1>1, NoteTypes DEF TypeOK, Typed, HandleReport, inputs, outage, books
<1>3. Other(op')
  BY PlainOperations DEF Other, HandleReport
<1> QED
  BY <1>1, <1>2, <1>3, DetourKeeps DEF HandleReport, books

LEMMA BlockedKeeps ==
    ASSUME IInv, Blocked
    PROVE  IInv'
<1>1. TypeOK /\ op.lane # "loss"
  BY PlacesAreOutside DEF IInv, Blocked
<1>2. Typed
  BY <1>1, NoteTypes, SampledType
  DEF TypeOK, Typed, Blocked, inputs, outage, books
<1>3. Other(op')
  BY PlainOperations DEF Other, Blocked
<1> QED
  BY <1>1, <1>2, <1>3, DetourKeeps DEF Blocked, books

LEMMA RecoveryKeeps ==
    ASSUME IInv, BeginRecovery \/ RecoveryFails
    PROVE  IInv'
<1>1. TypeOK
  BY DEF IInv
<1>2. CASE BeginRecovery
  <2>1. op.lane # "loss"
    BY <1>2, PlacesAreOutside DEF BeginRecovery
  <2>2. Typed
    BY <1>1, <1>2, NoteTypes
    DEF TypeOK, Typed, BeginRecovery, inputs, outage, books
  <2>3. Other(op')
    BY <1>2, PlainOperations DEF Other, BeginRecovery
  <2> QED
    BY <1>2, <2>1, <2>2, <2>3, DetourKeeps DEF BeginRecovery, books
<1>3. CASE RecoveryFails
  <2>1. op.lane # "loss"
    BY <1>3, PlacesAreOutside DEF RecoveryFails
  <2>2. Typed
    BY <1>1, <1>3 DEF TypeOK, Typed, RecoveryFails, inputs, outage, books, seen
  <2>3. Other(op')
    BY <1>3, PlainOperations DEF Other, RecoveryFails
  <2> QED
    BY <1>3, <2>1, <2>2, <2>3, DetourKeeps DEF RecoveryFails, books
<1> QED
  BY <1>2, <1>3

(* With the supply up, the incident ends, or a fault keeps it and every    *)
(* ordinary load counts as switched since.                                 *)
LEMMA SupplyIsUpReleases ==
    ASSUME TypeOK, SupplyIsUp
    PROVE  /\ ~(incident' /\ acted') \/ excused' = Ordinary
           /\ incident' \in BOOLEAN /\ acted' \in BOOLEAN
           /\ deferred' \subseteq Ordinary /\ excused' \subseteq Ordinary
           /\ valid' \in BOOLEAN
           /\ UNCHANGED <<inputs, mode, flagged>>
BY SampledType DEF TypeOK, SupplyIsUp

LEMMA MonitorKeeps ==
    ASSUME IInv, Monitor
    PROVE  IInv'
<1>1. TypeOK /\ SupplyIsUp
  BY DEF IInv, Monitor
<1>2. Typed
  BY <1>1, SupplyIsUpReleases, NoteTypes DEF TypeOK, Typed, Monitor, inputs
<1>3. Other(op')
  BY PlainOperations DEF Other, Monitor
<1> QED
  BY <1>1, <1>2, <1>3, SupplyIsUpReleases, ReleaseKeeps

LEMMA PlannedKeeps ==
    ASSUME IInv, NEW d \in Device, Shed(d) \/ Restore(d)
    PROVE  IInv'
<1>1. TypeOK /\ SupplyIsUp /\ Loads \in Nat
  BY LossAssumption DEF IInv, Shed, Restore
<1>2. CASE Shed(d)
  <2>1. Typed
    BY <1>1, <1>2, SupplyIsUpReleases, NoteTypes DEF TypeOK, Typed, Shed, inputs
  <2>2. op' = Command("policy", d, FALSE, FALSE, Sampled)
    BY <1>2 DEF Shed
  <2>3. Other(op')
    BY <1>1, <2>2
    DEF Command, Operation, Outcome, Lane, Other, Commanding, Device
  <2> QED
    BY <1>1, <2>1, <2>3, SupplyIsUpReleases, ReleaseKeeps
<1>3. CASE Restore(d)
  <2>1. (IF Refreshing THEN Refresh(From..Loads) ELSE observed)
           \in [Device -> RelayState]
    BY <1>1, RefreshTypes DEF TypeOK
  <2>2. observed' \in [Device -> RelayState] /\ relay' \in [Device -> RelayState]
    BY <1>1, <1>3, <2>1 DEF TypeOK, Restore, RelayState
  <2>3. Typed
    BY <1>1, <1>3, <2>2, SupplyIsUpReleases DEF TypeOK, Typed, Restore, inputs
  <2>4. Other(op')
    BY <1>3, PlainOperations DEF Other, Restore
  <2> QED
    BY <1>1, <2>3, <2>4, SupplyIsUpReleases, ReleaseKeeps
<1> QED
  BY <1>2, <1>3

(* The loop begins with nothing settled.                                   *)
LEMMA LossBeginsKeeps ==
    ASSUME IInv, LossBegins
    PROVE  IInv'
<1>1. TypeOK /\ Loads \in Nat /\ Sampled \in BOOLEAN /\ 1 \in 1..(Loads + 1)
  BY SampledType, LossAssumption DEF IInv
<1>2. /\ incident' = TRUE /\ acted' = (mode = "auto") /\ excused' = {}
      /\ valid' = Sampled /\ Note
      /\ UNCHANGED <<inputs, relay, mode, fault, books>>
  BY DEF LossBegins
<1>3. CASE mode = "auto"
  <2>1. StopFrom(1, FALSE, {}, Sampled)
    BY <1>3 DEF LossBegins
  <2>2. \A d \in Ordinary : ~(d < 1)
    BY <1>1 DEF Ordinary, Device
  <2>3. {} \in SUBSET Ordinary /\ UNCHANGED <<relay, flagged>>
    BY <1>2 DEF books
  <2>4. /\ op' \in Operation /\ OpShape' /\ Progress'
        /\ deferred' \in SUBSET Ordinary
    BY <1>1, <2>1, <2>2, <2>3, LoopKeeps
  <2>5. Typed
    BY <1>1, <1>2, <2>4, NoteTypes DEF TypeOK, Typed, inputs, books
  <2> QED
    BY <2>4, <2>5, TypedTypes DEF IInv
<1>4. CASE mode # "auto"
  <2>1. deferred' = {} /\ Other(op') /\ acted' = FALSE
    BY <1>2, <1>4, PlainOperations DEF LossBegins, Other
  <2>2. Typed
    BY <1>1, <1>2, <2>1, NoteTypes DEF TypeOK, Typed, inputs, books
  <2> QED
    BY <2>1, <2>2, ReleaseKeeps
<1> QED
  BY <1>3, <1>4

LEMMA MinimumCommand ==
    ASSUME TypeOK, NEW k \in 1..(Loads + 1), NEW v \in BOOLEAN,
           \/ op' = Idle
           \/ op' = [Idle EXCEPT !.pc = "settling"]
           \/ /\ MinimumTargets(k, v) # {}
              /\ op' = Command("minimum", First(MinimumTargets(k, v)),
                               TRUE, TRUE, v)
    PROVE  Other(op')
<1> DEFINE targets == MinimumTargets(k, v)
           d == First(targets)
<1>1. CASE op' = Idle \/ op' = [Idle EXCEPT !.pc = "settling"]
  BY <1>1, PlainOperations DEF Other
<1>2. CASE targets # {} /\ op' = Command("minimum", d, TRUE, TRUE, v)
  <2>1. targets \subseteq k..Loads
    BY DEF MinimumTargets
  <2>2. d \in Device /\ Loads \in Nat
    BY <1>2, <2>1, FirstOfLoads, LossAssumption
  <2> HIDE DEF d
  <2> QED
    BY <1>2, <2>2
    DEF Command, Operation, Outcome, Lane, Other, Commanding, Device
<1> QED
  BY <1>1, <1>2

LEMMA LossAgainKeeps ==
    ASSUME IInv, LossAgain
    PROVE  IInv'
<1>1. TypeOK /\ Loads \in Nat /\ Sampled \in BOOLEAN /\ 1 \in 1..(Loads + 1)
  BY SampledType, LossAssumption DEF IInv
<1>2. Typed
  BY <1>1, NoteTypes DEF TypeOK, Typed, LossAgain, inputs, outage, books
<1>3. Other(op')
  BY <1>1, MinimumCommand DEF LossAgain
<1>4. op.lane # "loss"
  BY PlacesAreOutside DEF LossAgain
<1> QED
  BY <1>2, <1>3, <1>4, DetourKeeps DEF LossAgain, books

(* Between evaluations everything is settled, so the retry begins with it. *)
LEMMA RetryDeferredKeeps ==
    ASSUME IInv, RetryDeferred
    PROVE  IInv'
<1>1. TypeOK /\ Progress /\ Loads \in Nat /\ 1 \in 1..(Loads + 1)
  BY LossAssumption DEF IInv
<1>2. /\ StopFrom(1, TRUE, deferred, valid)
      /\ UNCHANGED <<inputs, relay, latches, incident, acted, excused, books, seen>>
      /\ op.lane # "loss"
  BY PlacesAreOutside DEF RetryDeferred
<1>3. incident' /\ acted' => \A d \in Ordinary :
          \/ relay[d] = "off" \/ d \in flagged \cup excused'
          \/ d \in deferred
  BY <1>1, <1>2 DEF Progress, Settled, Done
<1>4. /\ deferred \in SUBSET Ordinary /\ valid \in BOOLEAN /\ TRUE \in BOOLEAN
      /\ UNCHANGED <<relay, flagged>>
  BY <1>1, <1>2 DEF TypeOK, books
<1>5. /\ op' \in Operation /\ OpShape' /\ Progress'
      /\ deferred' \in SUBSET Ordinary
  BY <1>1, <1>2, <1>3, <1>4, LoopKeeps
<1>6. Typed
  BY <1>1, <1>2, <1>5 DEF TypeOK, Typed, inputs, latches, books, seen
<1> QED
  BY <1>5, <1>6, TypedTypes DEF IInv

LEMMA StopAllCommand ==
    ASSUME TypeOK, NEW k \in 1..(Loads + 1), StopAllFrom(k)
    PROVE  Other(op')
<1> DEFINE targets == AllTargets(k)
           d == First(targets)
<1>1. op' = Idle \/ (targets # {} /\ op' = Command("all", d, TRUE, FALSE, valid))
  BY DEF StopAllFrom
<1>2. CASE op' = Idle
  BY <1>2, PlainOperations DEF Other
<1>3. CASE targets # {} /\ op' = Command("all", d, TRUE, FALSE, valid)
  <2>1. targets \subseteq k..Loads
    BY DEF AllTargets
  <2>2. d \in Device /\ Loads \in Nat
    BY <1>3, <2>1, FirstOfLoads, LossAssumption
  <2> HIDE DEF d
  <2> QED
    BY <1>3, <2>2
    DEF Command, Operation, Outcome, Lane, Other, Commanding, Device
<1> QED
  BY <1>1, <1>2, <1>3

LEMMA EvaluationRaisesKeeps ==
    ASSUME IInv, EvaluationRaises
    PROVE  IInv'
<1>1. TypeOK /\ Loads \in Nat /\ 1 \in 1..(Loads + 1)
  BY LossAssumption DEF IInv
<1>2. Typed
  BY <1>1, NoteTypes DEF TypeOK, Typed, EvaluationRaises, inputs, outage, books
<1>3. Other(op')
  BY <1>1, StopAllCommand DEF EvaluationRaises
<1>4. op.lane # "loss"
  BY PlacesAreOutside DEF EvaluationRaises, Refreshed
<1> QED
  BY <1>2, <1>3, <1>4, DetourKeeps DEF EvaluationRaises, books

-----------------------------------------------------------------------------
(* The command, and where each lane goes on.                               *)

(* A command stays for its load and in its lane until it has ended, and    *)
(* when a stop of the loop ended without a rejection, its load is settled. *)
LEMMA CommandKeeps ==
    ASSUME IInv, Typed, op.pc \in Commanding,
           UNCHANGED outage, flagged \subseteq flagged',
           \A d \in Ordinary : relay[d] = "off" => relay'[d] = "off",
           op' \in Operation, op'.pc \in Commanding, op'.lane = op.lane,
           op'.dev = op.dev, op'.retry = op.retry,
           op'.pc = "ended" => \/ op'.outcome = "rejected"
                               \/ relay'[op.dev] = "off"
                               \/ op.dev \in flagged'
    PROVE  IInv'
<1>1. OpShape'
  BY DEF IInv, OpShape, Commanding
<1>2. Steady
  BY DEF Steady, Settled, Done, outage
<1>3. Progress'
  <2>1. SUFFICES ASSUME incident' /\ acted', NEW d \in Ordinary
                 PROVE  /\ \/ op'.lane # "loss"
                           \/ d < op'.dev
                           \/ op'.retry /\ d # op'.dev
                           => Settled(d)'
                        /\ /\ op'.lane = "loss" /\ op'.pc = "ended"
                           /\ d = op'.dev /\ op'.outcome # "rejected"
                           => Done(d)'
    BY DEF Progress
  <2>2. /\ op.lane # "loss" \/ d < op.dev \/ (op.retry /\ d # op.dev)
           => Settled(d)
    BY <2>1, <1>2 DEF IInv, Progress, Steady
  <2>3. Settled(d) => Settled(d)'
    BY <1>2 DEF Steady
  <2>4. /\ op'.pc = "ended" /\ d = op'.dev /\ op'.outcome # "rejected"
        => Done(d)'
    BY DEF Done
  <2> QED
    BY <2>2, <2>3, <2>4
<1> QED
  BY <1>1, <1>3, TypedTypes DEF IInv

LEMMA DispatchKeeps ==
    ASSUME IInv, Dispatch
    PROVE  IInv'
<1>1. TypeOK /\ op \in Operation /\ op.pc \in Commanding
  BY DEF IInv, TypeOK, Dispatch, Commanding
<1>2. /\ relay' \in [Device -> RelayState]
      /\ \A d \in Ordinary : relay[d] = "off" => relay'[d] = "off"
  BY <1>1 DEF TypeOK, Dispatch, RelayState, Ordinary
<1>3. Typed
  BY <1>1, <1>2 DEF TypeOK, Typed, Dispatch, inputs, outage, books, seen
<1>4. op' = [op EXCEPT !.pc = "calling"]
      /\ UNCHANGED outage /\ UNCHANGED flagged
  BY DEF Dispatch, books
<1> QED
  BY <1>1, <1>2, <1>3, <1>4, CommandMoves, CommandKeeps DEF Commanding

LEMMA RejectKeeps ==
    ASSUME IInv, Reject
    PROVE  IInv'
<1>1. TypeOK /\ op \in Operation /\ op.pc \in Commanding
  BY DEF IInv, TypeOK, Reject, Commanding
<1>2. Typed
  BY <1>1 DEF TypeOK, Typed, Reject, inputs, outage, books, seen
<1>3. op' = [op EXCEPT !.pc = "ended", !.outcome = "rejected"]
      /\ UNCHANGED <<relay, outage>> /\ UNCHANGED flagged
  BY DEF Reject, books
<1>4. "rejected" \in Outcome
  BY DEF Outcome
<1> QED
  BY <1>1, <1>2, <1>3, <1>4, CommandMoves, CommandKeeps DEF Commanding

LEMMA ConfirmKeeps ==
    ASSUME IInv, Confirm
    PROVE  IInv'
<1>1. TypeOK /\ op \in Operation /\ op.pc \in Commanding /\ op.dev \in Device
  BY DEF IInv, TypeOK, OpShape, Confirm, Commanding
<1>2. Typed
  BY <1>1 DEF TypeOK, Typed, Confirm, inputs, latches, outage, seen
<1>3. op' = [op EXCEPT !.pc = "ended", !.outcome = "confirmed"]
      /\ UNCHANGED <<relay, outage>> /\ UNCHANGED flagged
      /\ relay[op.dev] = "off"
  BY DEF Confirm
<1>4. "confirmed" \in Outcome
  BY DEF Outcome
<1> QED
  BY <1>1, <1>2, <1>3, <1>4, CommandMoves, CommandKeeps DEF Commanding

LEMMA FailKeeps ==
    ASSUME IInv, Fail
    PROVE  IInv'
<1>1. TypeOK /\ op \in Operation /\ op.pc \in Commanding /\ op.dev \in Device
  BY DEF IInv, TypeOK, OpShape, Fail, Commanding
<1>2. Typed
  BY <1>1 DEF TypeOK, Typed, Fail, inputs, latches, outage, seen
<1>3. op' = [op EXCEPT !.pc = "ended", !.outcome = "failed"]
      /\ UNCHANGED <<relay, outage>> /\ flagged' = flagged \cup {op.dev}
  BY DEF Fail
<1>4. "failed" \in Outcome
  BY DEF Outcome
<1> QED
  BY <1>1, <1>2, <1>3, <1>4, CommandMoves, CommandKeeps DEF Commanding

(* The load the loop was at is off, faulted, excused or owed, and so are   *)
(* those before it: the loop goes on behind it.                            *)
LEMMA ContinueLossKeeps ==
    ASSUME IInv, ContinueLoss
    PROVE  IInv'
<1>1. TypeOK /\ OpShape /\ Progress /\ Loads \in Nat
  BY LossAssumption DEF IInv
<1>2. /\ op.pc = "ended" /\ op.lane = "loss"
      /\ StopFrom(op.dev + 1, op.retry, Owed, valid)
      /\ UNCHANGED <<inputs, relay, latches, incident, acted, excused, books, seen>>
  BY DEF ContinueLoss
<1>3. op.dev \in Device /\ op.dev + 1 \in 1..(Loads + 1)
  BY <1>1, <1>2 DEF OpShape, Commanding, Device
<1>4. op.retry \in BOOLEAN /\ valid \in BOOLEAN
  BY <1>1 DEF TypeOK, Operation
<1>5. Owed \in SUBSET Ordinary
  BY <1>1, <1>3 DEF TypeOK, Owed, Ordinary
<1>6. ASSUME incident', acted', NEW d \in Ordinary, d < op.dev + 1 \/ op.retry
      PROVE  \/ relay[d] = "off" \/ d \in flagged \cup excused'
             \/ d \in Owed
  <2>1. incident /\ acted /\ excused' = excused
    BY <1>2, <1>6
  <2>2. CASE d # op.dev
    <3>1. d < op.dev \/ op.retry
      BY <1>1, <1>3, <1>6, <2>2 DEF Ordinary, Device
    <3>2. Settled(d)
      BY <1>1, <2>1, <2>2, <3>1 DEF Progress
    <3> QED
      BY <2>1, <2>2, <3>2 DEF Settled, Done, Owed
  <2>3. CASE d = op.dev
    <3>1. op.outcome # "rejected" => Done(d)
      BY <1>1, <1>2, <2>1, <2>3 DEF Progress
    <3>2. op.outcome = "rejected" => d \in Owed
      BY <1>6, <2>3 DEF Owed, Ordinary
    <3> QED
      BY <2>1, <3>1, <3>2 DEF Done
  <2> QED
    BY <2>2, <2>3
<1>7. UNCHANGED <<relay, flagged>>
  BY <1>2 DEF books
<1>8. /\ op' \in Operation /\ OpShape' /\ Progress'
      /\ deferred' \in SUBSET Ordinary
  BY <1>1, <1>2, <1>3, <1>4, <1>5, <1>6, <1>7, LoopKeeps
<1>9. Typed
  BY <1>1, <1>2, <1>8 DEF TypeOK, Typed, inputs, latches, books, seen
<1> QED
  BY <1>8, <1>9, TypedTypes DEF IInv

LEMMA BehindALoad ==
    ASSUME IInv, op.pc = "ended"
    PROVE  op.dev \in Device /\ op.dev + 1 \in 1..(Loads + 1)
BY LossAssumption DEF IInv, OpShape, Commanding, Device

LEMMA ContinueMinimumKeeps ==
    ASSUME IInv, ContinueMinimum
    PROVE  IInv'
<1>1. TypeOK /\ valid \in BOOLEAN /\ op.dev + 1 \in 1..(Loads + 1)
      /\ op.lane # "loss"
  BY BehindALoad DEF IInv, TypeOK, ContinueMinimum
<1>2. Typed
  BY <1>1 DEF TypeOK, Typed, ContinueMinimum, inputs, latches, outage, books, seen
<1>3. Other(op')
  BY <1>1, MinimumCommand DEF ContinueMinimum
<1> QED
  BY <1>1, <1>2, <1>3, DetourKeeps DEF ContinueMinimum, books

LEMMA ContinueAllKeeps ==
    ASSUME IInv, ContinueAll
    PROVE  IInv'
<1>1. TypeOK /\ op.dev \in Device /\ op.dev + 1 \in 1..(Loads + 1)
      /\ op.lane # "loss"
  BY BehindALoad DEF IInv, ContinueAll
<1>2. flagged \subseteq flagged' /\ flagged' \subseteq Device
  BY <1>1 DEF TypeOK, ContinueAll
<1>3. Typed
  BY <1>1, <1>2 DEF TypeOK, Typed, ContinueAll, inputs, latches, outage, seen
<1>4. Other(op')
  BY <1>1, StopAllCommand DEF ContinueAll
<1> QED
  BY <1>1, <1>2, <1>3, <1>4, DetourKeeps DEF ContinueAll

LEMMA ContinueManualKeeps ==
    ASSUME IInv, ContinueManual
    PROVE  IInv'
<1>1. TypeOK /\ op.dev \in Device /\ op.lane # "loss"
  BY BehindALoad DEF IInv, ContinueManual
<1>2. observed' \in [Device -> RelayState]
  BY <1>1 DEF TypeOK, ContinueManual, RelayState
<1>3. Typed
  BY <1>1, <1>2
  DEF TypeOK, Typed, ContinueManual, inputs, latches, outage, books
<1>4. Other(op')
  BY <1>1, PlainOperations DEF ContinueManual, Other
<1> QED
  BY <1>1, <1>3, <1>4, DetourKeeps DEF ContinueManual, books

LEMMA EndCommandKeeps ==
    ASSUME IInv, EndCommand
    PROVE  IInv'
<1>1. TypeOK /\ op.lane # "loss"
  BY DEF IInv, EndCommand
<1>2. Typed
  BY <1>1 DEF TypeOK, Typed, EndCommand, inputs, latches, outage, books, seen
<1>3. Other(op')
  BY PlainOperations DEF EndCommand, Other
<1> QED
  BY <1>1, <1>2, <1>3, DetourKeeps DEF EndCommand, books

-----------------------------------------------------------------------------
(* The other operations.                                                   *)

LEMMA RequestStopKeeps ==
    ASSUME IInv, NEW d \in Device, RequestStop(d)
    PROVE  IInv'
<1>1. TypeOK /\ op.lane # "loss" /\ Loads \in Nat
  BY PlacesAreOutside, LossAssumption DEF IInv, RequestStop
<1>2. Typed
  BY <1>1 DEF TypeOK, Typed, RequestStop, inputs, outage, books, seen
<1>3. op' = Command("service", d, supply = "down", FALSE, load)
  BY DEF RequestStop
<1>4. Other(op')
  BY <1>1, <1>3
  DEF Command, Operation, Outcome, Lane, Other, Commanding, Device
<1> QED
  BY <1>1, <1>2, <1>4, DetourKeeps DEF RequestStop, books

LEMMA SetModeKeeps ==
    ASSUME IInv, NEW m \in Modes, SetMode(m)
    PROVE  IInv'
<1>1. TypeOK
  BY DEF IInv
<1>2. Typed
  BY <1>1 DEF TypeOK, Typed, SetMode, inputs, outage, books, seen
<1>3. Steady /\ op' = op
  BY UnchangedIsSteady DEF SetMode, outage, books
<1> QED
  BY <1>2, <1>3, AroundKeeps

LEMMA RetireKeeps ==
    ASSUME IInv, NEW d \in Device, Retire(d)
    PROVE  IInv'
<1>1. TypeOK
  BY DEF IInv
<1>2. Typed
  BY <1>1 DEF TypeOK, Typed, Retire, inputs, latches, outage, seen
<1>3. Steady /\ op' = op
  BY UnchangedIsSteady DEF Retire, outage
<1> QED
  BY <1>2, <1>3, AroundKeeps

LEMMA ClearFaultKeeps ==
    ASSUME IInv, ClearFault
    PROVE  IInv'
<1>1. TypeOK
  BY DEF IInv
<1>2. Typed
  BY <1>1 DEF TypeOK, Typed, ClearFault, inputs, books, seen
<1>3. Other(op')
  BY PlainOperations DEF ClearFault, Other
<1> QED
  BY <1>2, <1>3, ReleaseKeeps DEF ClearFault

(* The quarantine of a load is cleared while the load is off.              *)
LEMMA ClearQuarantineKeeps ==
    ASSUME IInv, NEW d \in Device, ClearQuarantine(d)
    PROVE  IInv'
<1>1. TypeOK
  BY DEF IInv
<1>2. Typed
  BY <1>1 DEF TypeOK, Typed, ClearQuarantine, inputs, outage, seen
<1>3. Steady
  BY DEF Steady, Settled, Done, ClearQuarantine, outage
<1> QED
  BY <1>2, <1>3, AroundKeeps DEF ClearQuarantine

LEMMA RestartKeeps ==
    ASSUME IInv, Restart
    PROVE  IInv'
<1>1. TypeOK /\ OpShape
  BY DEF IInv
<1>2. UNCHANGED books \/ (flagged' = flagged \cup {op.dev} /\ op.dev \in Device
                          /\ pending' \subseteq pending)
  BY <1>1 DEF Restart, OpShape, Commanding
<1>3. flagged' \subseteq Device /\ pending' \subseteq Device
  BY <1>1, <1>2 DEF TypeOK, books
<1>4. mode' \in Modes
  BY <1>1 DEF TypeOK, Restart
<1>5. observed' \in [Device -> RelayState]
  BY DEF Restart, RelayState
<1>6. Typed
  BY <1>1, <1>3, <1>4, <1>5 DEF TypeOK, Typed, Restart, inputs
<1>7. Other(op')
  BY PlainOperations DEF Restart, Other
<1> QED
  BY <1>6, <1>7, ReleaseKeeps DEF Restart

-----------------------------------------------------------------------------
(* What happens at any await.                                              *)

LEMMA InputsKeep ==
    ASSUME IInv, SupplyChanges \/ LoadChanges \/ ChargeChanges
    PROVE  IInv'
<1>1. TypeOK
  BY DEF IInv
<1>2. Typed
  <2>1. CASE SupplyChanges
    BY <1>1, <2>1 DEF TypeOK, Typed, SupplyChanges, Reported, outage, books, seen
  <2>2. CASE LoadChanges
    BY <1>1, <2>2 DEF TypeOK, Typed, LoadChanges, Reported, outage, books, seen
  <2>3. CASE ChargeChanges
    BY <1>1, <2>3 DEF TypeOK, Typed, ChargeChanges, latches, outage, books, seen
  <2> QED
    BY <2>1, <2>2, <2>3
<1>3. op' = op /\ UNCHANGED <<relay, outage>> /\ UNCHANGED flagged
  BY DEF SupplyChanges, LoadChanges, ChargeChanges, books
<1>4. Steady
  BY <1>3, UnchangedIsSteady DEF outage
<1> QED
  BY <1>2, <1>3, <1>4, AroundKeeps

(* A load that another hand does not leave off is excused.                 *)
LEMMA SwitchedKeeps ==
    ASSUME IInv, NEW d \in Device, Switched(d)
    PROVE  IInv'
<1>1. TypeOK /\ Switchings \subseteq RelayState
  BY LossAssumption DEF IInv, RelayState
<1>2. PICK s \in Switchings \ {relay[d]} :
          /\ relay' = [relay EXCEPT ![d] = s]
          /\ excused' = IF s = "off" THEN excused
                        ELSE excused \cup ({d} \cap Ordinary)
  BY DEF Switched
<1>3. UNCHANGED <<inputs, latches, incident, deferred, acted, books, seen, op>>
  BY DEF Switched
<1>4. relay' \in [Device -> RelayState] /\ excused' \subseteq Ordinary
  BY <1>1, <1>2 DEF TypeOK
<1>5. Typed
  BY <1>1, <1>3, <1>4 DEF TypeOK, Typed, inputs, latches, books, seen
<1>6. ASSUME NEW e \in Ordinary
      PROVE  /\ Done(e) => Done(e)'
             /\ Settled(e) => Settled(e)'
  <2>1. CASE e # d
    BY <1>1, <1>2, <1>3, <2>1 DEF TypeOK, Done, Settled, books, Ordinary
  <2>2. CASE e = d
    <3>1. relay'[e] = "off" \/ e \in excused'
      BY <1>1, <1>2, <1>6, <2>2 DEF TypeOK
    <3> QED
      BY <3>1 DEF Done, Settled
  <2> QED
    BY <2>1, <2>2
<1>7. Steady /\ op' = op
  BY <1>3, <1>6 DEF Steady
<1> QED
  BY <1>5, <1>7, AroundKeeps

-----------------------------------------------------------------------------
(* The invariant holds in the initial states, and every step keeps it.     *)

LEMMA InitHolds ==
    ASSUME Init
    PROVE  IInv
<1>1. Plain(Idle) /\ op = Idle
  BY PlainOperations DEF Init
<1>2. TypeOK
  <2>1. op \in Operation
    BY <1>1 DEF Plain
  <2>2. relay \in [Device -> RelayState] /\ observed \in [Device -> RelayState]
    BY DEF Init, RelayState
  <2> QED
    BY <2>1, <2>2 DEF Init, TypeOK
<1>3. OpShape
  BY <1>1 DEF Plain, OpShape
<1>4. Progress
  BY DEF Init, Progress
<1> QED
  BY <1>2, <1>3, <1>4 DEF IInv

LEMMA StutterHolds ==
    ASSUME IInv, UNCHANGED vars
    PROVE  IInv'
<1>1. Typed
  BY DEF IInv, TypeOK, Typed, vars, inputs, latches, outage, books, seen
<1>2. op' = op /\ Steady
  BY UnchangedIsSteady DEF vars, outage, books
<1> QED
  BY <1>1, <1>2, AroundKeeps

LEMMA EvaluateHolds ==
    ASSUME IInv, Evaluate
    PROVE  IInv'
BY ManualOnKeeps, HandleReportKeeps, BlockedKeeps, RecoveryKeeps, MonitorKeeps,
   LossBeginsKeeps, LossAgainKeeps, RetryDeferredKeeps
DEF Evaluate

LEMMA AdvanceHolds ==
    ASSUME IInv, Advance
    PROVE  IInv'
BY DispatchKeeps, RejectKeeps, ConfirmKeeps, FailKeeps, ContinueLossKeeps,
   ContinueMinimumKeeps, ContinueAllKeeps, ContinueManualKeeps, EndCommandKeeps
DEF Advance

LEMMA OperateHolds ==
    ASSUME IInv, Operate
    PROVE  IInv'
BY EvaluationRaisesKeeps, PlannedKeeps, RequestStopKeeps, ClearQuarantineKeeps,
   RetireKeeps, SetModeKeeps, ClearFaultKeeps, RestartKeeps
DEF Operate

LEMMA EnvironmentHolds ==
    ASSUME IInv, Environment
    PROVE  IInv'
BY InputsKeep, SwitchedKeeps DEF Environment

LEMMA NextHolds ==
    ASSUME IInv, [Next]_vars
    PROVE  IInv'
BY EvaluateHolds, AdvanceHolds, OperateHolds, EnvironmentHolds, StutterHolds
DEF Next

(* IInv is an invariant of every evaluation, whatever the supply, the      *)
(* sensors, the relays and the restarts do.                                *)
THEOREM Invariance == Spec => []IInv
<1>1. Init => IInv
  BY InitHolds
<1>2. IInv /\ [Next]_vars => IInv'
  BY NextHolds
<1> QED
  BY <1>1, <1>2, PTL DEF Spec

(* Every variable keeps its type; so the loop's next load always exists,   *)
(* and what is owed is only ever a load without a battery minimum.         *)
THEOREM TypeCorrect == Spec => []TypeOK
<1>1. IInv => TypeOK
  BY DEF IInv
<1> QED
  BY <1>1, Invariance, PTL

(* An outage handled in Auto leaves no ordinary load on and forgotten      *)
(* between evaluations: it is off, faulted, owed a retry, or came on since *)
(* (_handle_grid_loss).                                                    *)
THEOREM NothingIsForgotten == Spec => []NothingForgotten
<1>1. IInv => NothingForgotten
  <2>1. SUFFICES ASSUME IInv, op = Idle, incident, acted, NEW d \in Ordinary
                 PROVE  relay[d] = "off" \/ d \in flagged \cup deferred \cup excused
    BY DEF NothingForgotten
  <2>2. Settled(d)
    BY <2>1, PlacesAreOutside DEF IInv, Progress
  <2> QED
    BY <2>2 DEF Settled, Done
<1> QED
  BY <1>1, Invariance, PTL

=============================================================================
