------------------------- MODULE PolicyEngineProofs -------------------------
(***************************************************************************)
(* The safety properties of PolicyEngine for every set of tiers, loads,    *)
(* dwells and ages.                                                        *)
(*                                                                         *)
(* DwellIsContinuous and WindowIsContinuous compare a timer with the       *)
(* history it must not predate.  They become inductive once more is known: *)
(* the window a failed mode save puts back is no older than its room       *)
(* (SavedWindowIsContinuous), a window is measured only in auto and with   *)
(* no fence, where every evaluation looks at it (WindowIsWatched), and a   *)
(* fence is the relay's report of the planner's last shed, or of the last  *)
(* restore, unless a later aggregate report was seen since                 *)
(* (FencesFollowActions).  A confirmed command of any lane ends the window *)
(* and the room counted for it together.                                   *)
(***************************************************************************)
EXTENDS PolicyEngine, TLAPS

Typed(e) ==
    /\ e \in Runtime
    /\ \A t \in Tier : e.tierSince[t] \in Age(Duration[t])

PastTyped(p) ==
    /\ p \in History
    /\ \A t \in Tier : p.over[t] \in Age(Duration[t])

TimersTimed(e, p) == \A t \in Tier : e.tierSince[t] <= p.over[t]

WindowTimed(e, p) == e.capacity # 0 => e.restoreSince <= p.safe[e.capacity]

Timed(e, p) == TimersTimed(e, p) /\ WindowTimed(e, p)

SavedWindowIsContinuous ==
    op.pc = "mode" /\ engine.capacity # 0 =>
        op.since <= past.safe[engine.capacity]

WindowIsWatched ==
    engine.capacity # 0 =>
        /\ mode = "auto"
        /\ op.pc = "mode" => op.mode = "auto"
        /\ engine.shedFence = None /\ engine.restoreFence = None

(* An action and the fence it leaves.                                      *)
Tracks(fence, last) ==
    \/ last = None
    \/ fence = last
    \/ last >= 1 /\ (Readable => sensor.age < last)

FencesFollowActions ==
    /\ Tracks(engine.shedFence, past.lastOff)
    /\ Tracks(engine.restoreFence, past.lastOn)

OperationIsComplete ==
    /\ op.pc \in {"saving", "calling"} => op.dev \in Device
    /\ op.pc = "recovering" => op.load \in Nat

IInv ==
    /\ TypeOK
    /\ DwellIsContinuous
    /\ WindowIsContinuous
    /\ SavedWindowIsContinuous
    /\ WindowIsWatched
    /\ FencesFollowActions
    /\ OperationIsComplete

-----------------------------------------------------------------------------
(* The constants, and what an age is.                                      *)

LEMMA Constants ==
    /\ Dwell \in Nat /\ MaxAge \in Nat /\ Horizon \in Nat
    /\ \A t \in Tier : t \in Nat /\ Duration[t] \in Nat
    /\ Capacity \subseteq Nat \ {0}
    /\ \A d \in Device : Expected[d] \in Capacity
    /\ Load \subseteq Nat
    /\ LowestLimit \in Nat
  <1>1. LowestLimit \in Tier
    BY PolicyAssumption DEF LowestLimit
  <1>2. QED
    BY <1>1, PolicyAssumption DEF Horizon, Capacity

LEMMA Ages ==
    ASSUME NEW cap \in Nat
    PROVE  /\ None \in Age(cap) /\ 0 \in Age(cap) /\ Age(cap) \subseteq Int
           /\ None \in Int /\ None # 0
           /\ \A a \in Age(cap) : None <= a /\ a <= cap /\ (a = None \/ a >= 0)
  BY DEF Age, None

LEMMA LaterAges ==
    ASSUME NEW cap \in Nat, NEW a \in Age(cap)
    PROVE  /\ Later(a, cap) \in Age(cap)
           /\ Later(a, cap) = None <=> a = None
           /\ a <= Later(a, cap)
           /\ a >= 0 => Later(a, cap) >= 0
           /\ \A b \in Age(cap) : a <= b => Later(a, cap) <= Later(b, cap)
  BY DEF Later, Age, None

LEMMA RunAges ==
    ASSUME NEW cap \in Nat, NEW a \in Age(cap),
           NEW holds \in BOOLEAN, NEW gap \in BOOLEAN
    PROVE  /\ Run(a, holds, gap) \in Age(cap)
           /\ holds => Run(a, holds, gap) >= 0
           /\ holds /\ ~gap => a <= Run(a, holds, gap)
  BY DEF Run, Age, None

-----------------------------------------------------------------------------
(* The engine's operations keep its type and its timers honest.            *)

LEMMA ResetKeeps ==
    ASSUME NEW e, NEW p, Typed(e)
    PROVE  /\ Typed(WindowReset(e))
           /\ WindowReset(e).shedFence = e.shedFence
           /\ WindowReset(e).restoreFence = e.restoreFence
           /\ WindowReset(e).capacity = 0
           /\ WindowReset(e).tierSince = e.tierSince
           /\ TimersTimed(e, p) => Timed(WindowReset(e), p)
  <1>1. WindowReset(e) \in Runtime
    BY Constants, Ages DEF WindowReset, Typed, Runtime
  <1>2. /\ WindowReset(e).shedFence = e.shedFence
        /\ WindowReset(e).restoreFence = e.restoreFence
        /\ WindowReset(e).capacity = 0
        /\ WindowReset(e).tierSince = e.tierSince
    BY DEF WindowReset, Typed, Runtime
  <1>3. QED
    BY <1>1, <1>2 DEF Typed, Timed, TimersTimed, WindowTimed

LEMMA ClearedKeeps ==
    ASSUME NEW e, NEW p, Typed(e), PastTyped(p)
    PROVE  /\ Typed(TimersCleared(e)) /\ Timed(TimersCleared(e), p)
           /\ TimersCleared(e).shedFence = e.shedFence
           /\ TimersCleared(e).restoreFence = e.restoreFence
           /\ TimersCleared(e).capacity = 0
           /\ TimersCleared(e).tierSince = NoTimers
  <1>1. NoTimers \in [Tier -> Int] /\ \A t \in Tier : NoTimers[t] = None
    BY Constants, Ages DEF NoTimers
  <1>2. /\ TimersCleared(e) \in Runtime
        /\ TimersCleared(e).shedFence = e.shedFence
        /\ TimersCleared(e).restoreFence = e.restoreFence
        /\ TimersCleared(e).capacity = 0
        /\ TimersCleared(e).tierSince = NoTimers
    BY <1>1, Constants, Ages DEF TimersCleared, WindowReset, Typed, Runtime
  <1>3. \A t \in Tier : /\ TimersCleared(e).tierSince[t] \in Age(Duration[t])
                        /\ TimersCleared(e).tierSince[t] <= p.over[t]
    BY <1>1, <1>2, Constants, Ages DEF PastTyped
  <1>4. QED
    BY <1>2, <1>3 DEF Typed, Timed, TimersTimed, WindowTimed

LEMMA UpdatedKeeps ==
    ASSUME NEW e, Typed(e), NEW load \in Nat
    PROVE  /\ Typed(TimersUpdated(e, load))
           /\ TimersUpdated(e, load).shedFence = e.shedFence
           /\ TimersUpdated(e, load).restoreFence = e.restoreFence
           /\ TimersUpdated(e, load).capacity = e.capacity
           /\ TimersUpdated(e, load).restoreSince = e.restoreSince
           /\ \A t \in Tier : TimersUpdated(e, load).tierSince[t] =
                 IF load <= t THEN None
                 ELSE IF e.tierSince[t] = None THEN 0 ELSE e.tierSince[t]
  <1> DEFINE timers == [t \in Tier |->
                IF load <= t THEN None
                ELSE IF e.tierSince[t] = None THEN 0 ELSE e.tierSince[t]]
  <1>1. \A t \in Tier : timers[t] \in Age(Duration[t]) /\ timers[t] \in Int
    BY Constants, Ages DEF Typed
  <1>2. timers \in [Tier -> Int]
    BY <1>1
  <1>3. TimersUpdated(e, load) = [e EXCEPT !.tierSince = timers]
    BY DEF TimersUpdated
  <1> HIDE DEF timers
  <1>4. /\ TimersUpdated(e, load) \in Runtime
        /\ TimersUpdated(e, load).tierSince = timers
        /\ TimersUpdated(e, load).shedFence = e.shedFence
        /\ TimersUpdated(e, load).restoreFence = e.restoreFence
        /\ TimersUpdated(e, load).capacity = e.capacity
        /\ TimersUpdated(e, load).restoreSince = e.restoreSince
    BY <1>2, <1>3 DEF Typed, Runtime
  <1>5. QED
    BY <1>1, <1>4 DEF Typed, timers

(* Timers and history that take in the same observation stay in step.      *)
LEMMA UpdatedIsTimed ==
    ASSUME NEW e, NEW p, NEW q, Typed(e), PastTyped(p), PastTyped(q),
           TimersTimed(e, p), NEW load \in Nat,
           \A t \in Tier : load > t =>
               q.over[t] >= 0 /\ p.over[t] <= q.over[t]
    PROVE  TimersTimed(TimersUpdated(e, load), q)
  <1> SUFFICES ASSUME NEW t \in Tier
               PROVE  TimersUpdated(e, load).tierSince[t] <= q.over[t]
    BY DEF TimersTimed
  <1>1. /\ e.tierSince[t] \in Age(Duration[t])
        /\ p.over[t] \in Age(Duration[t]) /\ q.over[t] \in Age(Duration[t])
        /\ e.tierSince[t] <= p.over[t]
        /\ Duration[t] \in Nat /\ t \in Nat
    BY Constants DEF Typed, PastTyped, TimersTimed
  <1>2. TimersUpdated(e, load).tierSince[t] =
            IF load <= t THEN None
            ELSE IF e.tierSince[t] = None THEN 0 ELSE e.tierSince[t]
    BY UpdatedKeeps
  <1>3. CASE load <= t
    BY <1>1, <1>2, <1>3, Ages
  <1>4. CASE load > t
    <2>1. q.over[t] >= 0 /\ p.over[t] <= q.over[t]
      BY <1>4
    <2>2. TimersUpdated(e, load).tierSince[t] =
              IF e.tierSince[t] = None THEN 0 ELSE e.tierSince[t]
      BY <1>1, <1>2, <1>4
    <2>3. QED
      BY <1>1, <2>1, <2>2 DEF Age, None
  <1>5. QED
    BY <1>1, <1>3, <1>4

LEMMA WindowKeeps ==
    ASSUME NEW e, NEW p, NEW q, Typed(e), PastTyped(p), PastTyped(q),
           WindowTimed(e, p), TimersTimed(e, q), NEW c \in Capacity,
           q.safe[c] >= 0, p.safe[c] <= q.safe[c]
    PROVE  /\ Typed(WindowFor(e, c)) /\ Timed(WindowFor(e, c), q)
           /\ WindowFor(e, c).shedFence = e.shedFence
           /\ WindowFor(e, c).restoreFence = e.restoreFence
  <1> DEFINE since == IF e.capacity # c \/ e.restoreSince = None THEN 0
                                                          ELSE e.restoreSince
  <1>1. since \in Age(Dwell) /\ since <= q.safe[c]
    <2>1. /\ e.restoreSince \in Age(Dwell) /\ p.safe[c] \in Age(Dwell)
          /\ q.safe[c] \in Age(Dwell) /\ Dwell \in Nat /\ c # 0
      BY Constants DEF Typed, PastTyped, Runtime, History
    <2>2. e.capacity = c => e.restoreSince <= p.safe[c]
      BY <2>1 DEF WindowTimed
    <2>3. QED
      BY <2>1, <2>2 DEF Age, None
  <1>2. WindowFor(e, c) = [e EXCEPT !.restoreSince = since, !.capacity = c]
    BY DEF WindowFor, Typed, Runtime
  <1> HIDE DEF since
  <1>3. /\ WindowFor(e, c) \in Runtime
        /\ WindowFor(e, c).tierSince = e.tierSince
        /\ WindowFor(e, c).restoreSince = since
        /\ WindowFor(e, c).capacity = c
        /\ WindowFor(e, c).shedFence = e.shedFence
        /\ WindowFor(e, c).restoreFence = e.restoreFence
    BY <1>1, <1>2 DEF Typed, Runtime
  <1>4. QED
    BY <1>1, <1>3 DEF Typed, Timed, TimersTimed, WindowTimed

LEMMA FenceKeeps ==
    ASSUME NEW fence \in Age(Horizon), NEW last \in Age(Horizon),
           sensor.age \in 0..Horizon, Readable, Tracks(fence, last)
    PROVE  /\ FenceAfter(fence) \in Age(Horizon)
           /\ Tracks(FenceAfter(fence), last)
  BY Constants DEF FenceAfter, Tracks, Age, None

LEMMA ReconciledKeeps ==
    ASSUME NEW e, NEW p, Typed(e), Timed(e, p), TypeOK, Readable,
           Tracks(e.shedFence, past.lastOff),
           Tracks(e.restoreFence, past.lastOn)
    PROVE  /\ Typed(Reconciled(e)) /\ Timed(Reconciled(e), p)
           /\ Tracks(Reconciled(e).shedFence, past.lastOff)
           /\ Tracks(Reconciled(e).restoreFence, past.lastOn)
           /\ Reconciled(e).capacity = e.capacity
           /\ e.shedFence = None => Reconciled(e).shedFence = None
           /\ e.restoreFence = None => Reconciled(e).restoreFence = None
  <1> DEFINE shed == FenceAfter(e.shedFence)
             restore == FenceAfter(e.restoreFence)
  <1>1. /\ e.shedFence \in Age(Horizon) /\ e.restoreFence \in Age(Horizon)
        /\ sensor.age \in 0..Horizon
        /\ past.lastOff \in Age(Horizon) /\ past.lastOn \in Age(Horizon)
    BY DEF Typed, Runtime, TypeOK, History
  <1>2. /\ shed \in Age(Horizon) /\ Tracks(shed, past.lastOff)
        /\ restore \in Age(Horizon) /\ Tracks(restore, past.lastOn)
        /\ e.shedFence = None => shed = None
        /\ e.restoreFence = None => restore = None
    BY <1>1, FenceKeeps DEF FenceAfter
  <1>3. Reconciled(e) = [e EXCEPT !.shedFence = shed, !.restoreFence = restore]
    BY DEF Reconciled, Typed, Runtime
  <1> HIDE DEF shed, restore
  <1>4. /\ Reconciled(e) \in Runtime
        /\ Reconciled(e).tierSince = e.tierSince
        /\ Reconciled(e).restoreSince = e.restoreSince
        /\ Reconciled(e).capacity = e.capacity
        /\ Reconciled(e).shedFence = shed
        /\ Reconciled(e).restoreFence = restore
    BY <1>2, <1>3 DEF Typed, Runtime
  <1>5. QED
    BY <1>2, <1>4 DEF Typed, Timed, TimersTimed, WindowTimed

-----------------------------------------------------------------------------
(* Steps.                                                                  *)

LEMMA Facts ==
    ASSUME IInv
    PROVE  /\ Typed(engine) /\ Timed(engine, past) /\ PastTyped(past)
           /\ Tracks(engine.shedFence, past.lastOff)
           /\ Tracks(engine.restoreFence, past.lastOn)
           /\ op \in Operation /\ mode \in Mode /\ fault \in Fault
           /\ pending \subseteq Device
           /\ op.pc \in {"saving", "calling"} => op.dev \in Device
           /\ op.pc = "recovering" => op.load \in Nat
  BY DEF IInv, TypeOK, Typed, Timed, TimersTimed, WindowTimed, PastTyped,
         DwellIsContinuous, WindowIsContinuous, FencesFollowActions,
         OperationIsComplete

LEMMA IdleFacts ==
    /\ Idle \in Operation /\ Idle.pc = "idle"
  BY Constants, Ages DEF Idle, Operation, Mode

(* A step that replaces the engine and leaves reports and actions alone.   *)
LEMMA EngineStep ==
    ASSUME IInv, UNCHANGED sensor,
           past'.lastOff = past.lastOff, past'.lastOn = past.lastOn,
           PastTyped(past'), Typed(engine'), Timed(engine', past'),
           Tracks(engine'.shedFence, past.lastOff),
           Tracks(engine'.restoreFence, past.lastOn),
           op' \in Operation, mode' \in Mode, fault' \in Fault,
           pending' \subseteq Device,
           op'.pc \in {"saving", "calling"} => op'.dev \in Device,
           op'.pc = "recovering" => op'.load \in Nat,
           engine'.capacity # 0 =>
               /\ op'.pc = "mode" => /\ op'.since <= past'.safe[engine'.capacity]
                                     /\ op'.mode = "auto"
               /\ mode' = "auto"
               /\ engine'.shedFence = None /\ engine'.restoreFence = None
    PROVE  IInv'
  <1>1. TypeOK'
    BY DEF IInv, TypeOK, Typed, PastTyped
  <1>2. DwellIsContinuous' /\ WindowIsContinuous'
    BY DEF Timed, TimersTimed, WindowTimed, DwellIsContinuous,
           WindowIsContinuous
  <1>3. SavedWindowIsContinuous' /\ WindowIsWatched'
    BY DEF SavedWindowIsContinuous, WindowIsWatched
  <1>4. FencesFollowActions'
    BY DEF FencesFollowActions, Tracks, Readable
  <1>5. OperationIsComplete'
    BY DEF OperationIsComplete
  <1>6. QED
    BY <1>1, <1>2, <1>3, <1>4, <1>5 DEF IInv

LEMMA InitHolds == Init => IInv
  <1> SUFFICES ASSUME Init PROVE IInv
    OBVIOUS
  <1>1. NoTimers \in [Tier -> Int] /\ \A t \in Tier : NoTimers[t] = None
    BY Constants, Ages DEF NoTimers
  <1>2. engine \in Runtime
    BY <1>1, Constants, Ages DEF Init, Runtime
  <1>3. past \in History
    BY <1>1, Constants, Ages DEF Init, History, NoRoom
  <1>4. op \in Operation
    BY IdleFacts DEF Init
  <1>5. /\ sensor \in [load : Load \cup {Invalid}, age : 0..Horizon]
        /\ mode \in Mode /\ fault \in Fault /\ pending \subseteq Device
    <2>1. 0 \in 0..Horizon
      BY Constants
    <2>2. QED
      BY <2>1 DEF Init, Mode, Fault
  <1>6. TypeOK
    BY <1>1, <1>2, <1>3, <1>4, <1>5, Constants, Ages DEF TypeOK, Init
  <1>7. DwellIsContinuous /\ WindowIsContinuous /\ SavedWindowIsContinuous
    BY <1>1, Constants, Ages
    DEF Init, DwellIsContinuous, WindowIsContinuous, SavedWindowIsContinuous
  <1>8. WindowIsWatched /\ OperationIsComplete
    BY DEF Init, WindowIsWatched, OperationIsComplete, Idle
  <1>9. FencesFollowActions
    BY DEF Init, FencesFollowActions, Tracks
  <1>10. QED
    BY <1>6, <1>7, <1>8, <1>9 DEF IInv

-----------------------------------------------------------------------------
(* Time.                                                                   *)

LEMMA TickStep ==
    ASSUME IInv, Tick PROVE IInv'
  <1> DEFINE timers == [t \in Tier |-> Later(engine.tierSince[t], Duration[t])]
             over == [t \in Tier |-> Later(past.over[t], Duration[t])]
             safe == [c \in Capacity |-> Later(past.safe[c], Dwell)]
             age == Later(sensor.age, Horizon)
  <1>1. Typed(engine) /\ Timed(engine, past) /\ PastTyped(past) /\ TypeOK
    BY Facts DEF IInv
  <1>2. \A t \in Tier :
            /\ engine.tierSince[t] \in Age(Duration[t])
            /\ past.over[t] \in Age(Duration[t])
            /\ engine.tierSince[t] <= past.over[t]
    BY <1>1 DEF Typed, Timed, TimersTimed, PastTyped
  <1>3. \A t \in Tier :
            /\ timers[t] \in Age(Duration[t]) /\ over[t] \in Age(Duration[t])
            /\ timers[t] <= over[t]
    BY <1>2, LaterAges, Constants
  <1>4. timers \in [Tier -> Int] /\ over \in [Tier -> Int]
    BY <1>3, Constants, Ages
  <1>5. \A c \in Capacity :
            /\ past.safe[c] \in Age(Dwell)
            /\ safe[c] \in Age(Dwell)
            /\ \A a \in Age(Dwell) :
                  a <= past.safe[c] => Later(a, Dwell) <= safe[c]
    BY <1>1, LaterAges, Constants DEF PastTyped, History
  <1>6. sensor \in [load : Load \cup {Invalid}, age : 0..Horizon]
        /\ sensor.age \in Age(Horizon) /\ sensor.age >= 0 /\ age \in 0..Horizon
    BY <1>1, LaterAges, Constants, Ages DEF TypeOK, Age, None
  <1>7. /\ sensor'.load = sensor.load /\ sensor'.age = age
        /\ sensor' \in [load : Load \cup {Invalid}, age : 0..Horizon]
    BY <1>6 DEF Tick
  <1>8. /\ engine.restoreSince \in Age(Dwell)
        /\ engine.shedFence \in Age(Horizon)
        /\ engine.restoreFence \in Age(Horizon)
        /\ op.age \in Age(Horizon) /\ op.since \in Age(Dwell)
        /\ past.lastOff \in Age(Horizon) /\ past.lastOn \in Age(Horizon)
        /\ engine.capacity \in Capacity \cup {0}
    BY <1>1 DEF TypeOK, Runtime, Operation, History
  <1>9. /\ engine' \in Runtime
        /\ engine'.tierSince = timers
        /\ engine'.restoreSince = Later(engine.restoreSince, Dwell)
        /\ engine'.capacity = engine.capacity
        /\ engine'.shedFence = Later(engine.shedFence, Horizon)
        /\ engine'.restoreFence = Later(engine.restoreFence, Horizon)
    <2>1. /\ Later(engine.restoreSince, Dwell) \in Age(Dwell)
          /\ Later(engine.shedFence, Horizon) \in Age(Horizon)
          /\ Later(engine.restoreFence, Horizon) \in Age(Horizon)
      BY <1>8, LaterAges, Constants
    <2>2. engine' = [engine EXCEPT
                        !.tierSince = timers,
                        !.restoreSince = Later(engine.restoreSince, Dwell),
                        !.shedFence = Later(engine.shedFence, Horizon),
                        !.restoreFence = Later(engine.restoreFence, Horizon)]
      BY <1>1 DEF Tick, TypeOK, Runtime
    <2> HIDE DEF timers
    <2>3. QED
      BY <1>1, <1>4, <2>1, <2>2 DEF TypeOK, Runtime
  <1>10. /\ op' \in Operation /\ op'.pc = op.pc
         /\ op'.since = Later(op.since, Dwell)
         /\ op'.dev = op.dev /\ op'.load = op.load /\ op'.mode = op.mode
    <2>1. Later(op.age, Horizon) \in Age(Horizon)
          /\ Later(op.since, Dwell) \in Age(Dwell)
      BY <1>8, LaterAges, Constants
    <2>2. QED
      BY <1>1, <2>1 DEF Tick, TypeOK, Operation
  <1>11. /\ past' \in History
         /\ past'.over = over /\ past'.safe = safe
         /\ past'.lastOff = Later(past.lastOff, Horizon)
         /\ past'.lastOn = Later(past.lastOn, Horizon)
    <2>1. Later(past.lastOff, Horizon) \in Age(Horizon)
          /\ Later(past.lastOn, Horizon) \in Age(Horizon)
      BY <1>8, LaterAges, Constants
    <2>2. safe \in [Capacity -> Age(Dwell)]
      BY <1>5
    <2>3. past' = [over |-> over, safe |-> safe,
                   lastOff |-> Later(past.lastOff, Horizon),
                   lastOn |-> Later(past.lastOn, Horizon)]
      BY DEF Tick
    <2> HIDE DEF over, safe
    <2>4. QED
      BY <1>4, <2>1, <2>2, <2>3 DEF History
  <1> HIDE DEF timers, over, safe, age
  <1>12. TypeOK'
    BY <1>1, <1>3, <1>7, <1>9, <1>10, <1>11 DEF TypeOK, Tick
  <1>13. DwellIsContinuous'
    BY <1>3, <1>9, <1>11 DEF DwellIsContinuous
  <1>14. WindowIsContinuous'
    BY <1>1, <1>5, <1>8, <1>9, <1>11
    DEF WindowIsContinuous, Timed, WindowTimed
  <1>15. SavedWindowIsContinuous'
    BY <1>5, <1>8, <1>9, <1>10, <1>11 DEF IInv, SavedWindowIsContinuous
  <1>16. WindowIsWatched'
    BY <1>9, <1>10 DEF IInv, WindowIsWatched, Tick, Later
  <1>17. FencesFollowActions'
    <2>1. \A fence, last \in Age(Horizon) :
              Tracks(fence, last) =>
                  \/ Later(last, Horizon) = None
                  \/ Later(fence, Horizon) = Later(last, Horizon)
                  \/ /\ Later(last, Horizon) >= 1
                     /\ Readable' => age < Later(last, Horizon)
      BY <1>6, <1>7, Constants
      DEF Tracks, Readable, Later, Age, None, age, Horizon
    <2>2. QED
      BY <1>7, <1>8, <1>9, <1>11, <2>1 DEF IInv, FencesFollowActions, Tracks
  <1>18. OperationIsComplete'
    BY <1>10 DEF IInv, OperationIsComplete
  <1>19. QED
    BY <1>12, <1>13, <1>14, <1>15, <1>16, <1>17, <1>18 DEF IInv

-----------------------------------------------------------------------------
(* A report, at any await of any operation.                                *)

LEMMA ReportStep ==
    ASSUME IInv, NEW load \in Load \cup {Invalid}, Report(load) PROVE IInv'
  <1> DEFINE gap == sensor.age > MaxAge
             holds(c) == load # Invalid /\ load + c < LowestLimit
             over == [t \in Tier |-> Run(past.over[t], load > t, gap)]
             safe == [c \in Capacity |-> Run(past.safe[c], holds(c), gap)]
  <1>1. Typed(engine) /\ Timed(engine, past) /\ PastTyped(past) /\ TypeOK
    BY Facts DEF IInv
  <1>2. /\ load \in Int
        /\ load # Invalid => load \in Nat
        /\ gap \in BOOLEAN /\ 0 \in 0..Horizon
        /\ load = Invalid => \A t \in Tier : ~(load > t)
    BY <1>1, Constants DEF Invalid
  <1>3. \A t \in Tier :
            /\ over[t] \in Age(Duration[t])
            /\ load > t => over[t] >= 0
            /\ load > t /\ ~gap => past.over[t] <= over[t]
    <2> TAKE t \in Tier
    <2>1. past.over[t] \in Age(Duration[t]) /\ Duration[t] \in Nat
      BY <1>1, Constants DEF PastTyped
    <2>2. over[t] = Run(past.over[t], load > t, gap)
      OBVIOUS
    <2> HIDE DEF over, gap
    <2>3. QED
      BY <2>1, <2>2 DEF Run, Age, None
  <1>4. \A c \in Capacity :
            /\ safe[c] \in Age(Dwell)
            /\ holds(c) => safe[c] >= 0
            /\ holds(c) /\ ~gap => past.safe[c] <= safe[c]
    BY <1>1, <1>2, RunAges, Constants DEF PastTyped, History
  <1>5. over \in [Tier -> Int] /\ safe \in [Capacity -> Age(Dwell)]
    BY <1>3, <1>4, Constants, Ages
  <1>6. /\ past' = [past EXCEPT !.over = over, !.safe = safe]
        /\ sensor' = [load |-> load, age |-> 0]
        /\ engine' = Observed(engine, load, gap)
        /\ fault' \in {fault, "reported"}
        /\ UNCHANGED <<mode, op, pending>>
    BY DEF Report
  <1> HIDE DEF over, safe
  <1>7. /\ past' \in History
        /\ past'.over = over /\ past'.safe = safe
        /\ past'.lastOff = past.lastOff /\ past'.lastOn = past.lastOn
    BY <1>1, <1>5, <1>6 DEF TypeOK, History
  <1>8. /\ Typed(engine')
        /\ engine'.shedFence = engine.shedFence
        /\ engine'.restoreFence = engine.restoreFence
        /\ \A t \in Tier : engine'.tierSince[t] <= over[t]
        /\ engine'.capacity # 0 =>
              /\ ~gap /\ holds(engine.capacity)
              /\ engine'.capacity = engine.capacity
              /\ engine'.restoreSince = engine.restoreSince
    <2>1. CASE load = Invalid \/ gap
      <3>1. engine' = TimersCleared(engine)
        BY <2>1, <1>6 DEF Observed
      <3>2. /\ Typed(engine')
            /\ engine'.shedFence = engine.shedFence
            /\ engine'.restoreFence = engine.restoreFence
            /\ engine'.capacity = 0
        BY <3>1, <1>1, ClearedKeeps
      <3>3. engine'.tierSince = NoTimers
        BY <3>1, <1>1, ClearedKeeps
      <3>4. \A t \in Tier : engine'.tierSince[t] <= over[t]
        BY <3>3, <1>3, Constants, Ages DEF NoTimers
      <3>5. QED
        BY <3>2, <3>4
    <2>2. CASE ~(load = Invalid \/ gap)
      <3> DEFINE u == TimersUpdated(engine, load)
      <3>1. load \in Nat
        BY <2>2, <1>2
      <3>2. /\ Typed(u)
            /\ u.shedFence = engine.shedFence
            /\ u.restoreFence = engine.restoreFence
            /\ u.capacity = engine.capacity
            /\ u.restoreSince = engine.restoreSince
            /\ \A t \in Tier : u.tierSince[t] =
                  IF load <= t THEN None
                  ELSE IF engine.tierSince[t] = None THEN 0
                       ELSE engine.tierSince[t]
        BY <3>1, <1>1, UpdatedKeeps
      <3>3. \A t \in Tier : u.tierSince[t] <= over[t]
        <4>1. PastTyped(past')
          BY <1>3, <1>7 DEF PastTyped
        <4>2. TimersTimed(u, past')
          BY <4>1, <3>1, <2>2, <1>1, <1>3, <1>7, UpdatedIsTimed DEF Timed
        <4>3. QED
          BY <4>2, <1>7 DEF TimersTimed
      <3> HIDE DEF u
      <3>4. engine.capacity \in Capacity \cup {0}
        BY <1>1 DEF Typed, Runtime
      <3>5. CASE engine.capacity # 0 /\ load + engine.capacity >= LowestLimit
        <4>1. engine' = WindowReset(u)
          BY <3>5, <2>2, <1>6 DEF Observed, u
        <4>2. /\ WindowReset(u) \in Runtime
              /\ WindowReset(u).shedFence = u.shedFence
              /\ WindowReset(u).restoreFence = u.restoreFence
              /\ WindowReset(u).capacity = 0
              /\ WindowReset(u).tierSince = u.tierSince
          BY <3>2, Constants, Ages DEF WindowReset, Typed, Runtime
        <4>3. QED
          BY <4>1, <4>2, <3>2, <3>3 DEF Typed
      <3>6. CASE ~(engine.capacity # 0
                     /\ load + engine.capacity >= LowestLimit)
        <4>1. engine' = u
          BY <3>6, <2>2, <1>6 DEF Observed, u
        <4>2. ASSUME engine.capacity # 0 PROVE holds(engine.capacity)
          <5>1. /\ engine.capacity \in Nat /\ LowestLimit \in Nat
                /\ load \in Nat /\ load # Invalid
            BY <4>2, <3>1, <3>4, <2>2, Constants
          <5>2. ~(load + engine.capacity >= LowestLimit)
            BY <4>2, <3>6
          <5>3. load + engine.capacity < LowestLimit
            BY <5>1, <5>2
          <5>4. QED
            BY <5>1, <5>3
        <4>3. QED
          BY <4>1, <4>2, <3>2, <3>3, <2>2
      <3>7. QED
        BY <3>5, <3>6
    <2>3. QED
      BY <2>1, <2>2
  <1>9. engine'.capacity \in Capacity \cup {0}
    BY <1>8 DEF Typed, Runtime
  <1>10. /\ engine.restoreSince \in Age(Dwell) /\ op.since \in Age(Dwell)
         /\ \A c \in Capacity : past.safe[c] \in Age(Dwell)
    BY <1>1 DEF TypeOK, Runtime, Operation, PastTyped, History
  <1>11. TypeOK'
    BY <1>1, <1>2, <1>3, <1>6, <1>7, <1>8 DEF TypeOK, Typed, Fault
  <1>12. DwellIsContinuous'
    BY <1>7, <1>8 DEF DwellIsContinuous
  <1> HIDE DEF holds, gap
  <1>13. WindowIsContinuous'
    <2> SUFFICES ASSUME engine'.capacity # 0
                 PROVE  engine'.restoreSince <= safe[engine.capacity]
      BY <1>7, <1>8 DEF WindowIsContinuous
    <2>1. engine.capacity \in Capacity /\ engine.capacity # 0
      BY <1>8, <1>9
    <2>2. engine.restoreSince <= past.safe[engine.capacity]
      BY <2>1, <1>1 DEF Timed, WindowTimed
    <2>3. /\ past.safe[engine.capacity] <= safe[engine.capacity]
          /\ safe[engine.capacity] \in Age(Dwell)
          /\ past.safe[engine.capacity] \in Age(Dwell)
      BY <2>1, <1>4, <1>8, <1>10
    <2>4. QED
      BY <2>2, <2>3, <1>8, <1>10 DEF Age, None
  <1>14. SavedWindowIsContinuous'
    BY <1>4, <1>6, <1>7, <1>8, <1>9, <1>10, Constants, Ages
    DEF IInv, SavedWindowIsContinuous
  <1>15. WindowIsWatched'
    BY <1>6, <1>8 DEF IInv, WindowIsWatched
  <1>16. FencesFollowActions'
    <2>1. \A fence, last \in Age(Horizon) :
              Tracks(fence, last) =>
                  last = None \/ fence = last \/ (last >= 1 /\ 0 < last)
      BY Constants DEF Tracks, Age, None
    <2>2. /\ engine.shedFence \in Age(Horizon)
          /\ engine.restoreFence \in Age(Horizon)
          /\ past.lastOff \in Age(Horizon) /\ past.lastOn \in Age(Horizon)
      BY <1>1 DEF TypeOK, Runtime, History
    <2>3. QED
      BY <2>1, <2>2, <1>6, <1>7, <1>8 DEF IInv, FencesFollowActions, Tracks
  <1>17. OperationIsComplete'
    BY <1>6 DEF IInv, OperationIsComplete
  <1>18. QED
    BY <1>11, <1>12, <1>13, <1>14, <1>15, <1>16, <1>17 DEF IInv

-----------------------------------------------------------------------------
(* One evaluation.                                                         *)

(* An engine an operation may leave behind.                                *)
Sound(e, p) ==
    /\ Typed(e) /\ Timed(e, p)
    /\ Tracks(e.shedFence, past.lastOff)
    /\ Tracks(e.restoreFence, past.lastOn)
    /\ e.capacity # 0 => /\ mode = "auto"
                         /\ e.shedFence = None /\ e.restoreFence = None

LEMMA IngestedKeeps ==
    ASSUME IInv
    PROVE  Sound(Ingested, past)
  <1>1. /\ Typed(engine) /\ Timed(engine, past) /\ TypeOK
        /\ Tracks(engine.shedFence, past.lastOff)
        /\ Tracks(engine.restoreFence, past.lastOn)
        /\ engine.capacity # 0 =>
              /\ mode = "auto"
              /\ engine.shedFence = None /\ engine.restoreFence = None
    BY Facts DEF IInv, WindowIsWatched
  <1>2. CASE Readable
    BY <1>1, <1>2, ReconciledKeeps DEF Ingested, Sound
  <1>3. CASE ~Readable
    BY <1>1, <1>3, ResetKeeps DEF Ingested, Sound, Timed
  <1>4. QED
    BY <1>2, <1>3

LEMMA SoundReset ==
    ASSUME IInv, NEW e, Sound(e, past)
    PROVE  /\ Sound(WindowReset(e), past) /\ WindowReset(e).capacity = 0
           /\ Sound(TimersCleared(e), past) /\ TimersCleared(e).capacity = 0
  <1>1. Typed(e) /\ TimersTimed(e, past) /\ PastTyped(past)
    BY Facts DEF Sound, Timed
  <1>2. Sound(WindowReset(e), past) /\ WindowReset(e).capacity = 0
    BY <1>1, ResetKeeps DEF Sound
  <1>3. Sound(TimersCleared(e), past) /\ TimersCleared(e).capacity = 0
    BY <1>1, ClearedKeeps DEF Sound
  <1>4. QED
    BY <1>2, <1>3

LEMMA HandledKeeps ==
    ASSUME IInv
    PROVE  Sound(Handled(Ingested), past)
  BY IngestedKeeps, SoundReset DEF Handled

LEMMA SoundEngine ==
    ASSUME IInv
    PROVE  Sound(engine, past)
  BY Facts DEF IInv, WindowIsWatched, Sound

(* What an evaluation decides on.                                          *)
LEMMA ReadyKeeps ==
    ASSUME IInv, Deciding
    PROVE  Sound(Ready, past) /\ Sample \in Nat
  <1>1. CASE op.pc = "recovering"
    BY <1>1, Facts, SoundEngine, SoundReset DEF Ready, Sample
  <1>2. CASE op.pc # "recovering"
    <2>1. sensor.load \in Nat
      BY Constants DEF IInv, TypeOK, Deciding, Readable
    <2>2. QED
      BY <1>2, <2>1, IngestedKeeps DEF Ready, Sample
  <1>3. QED
    BY <1>1, <1>2

LEMMA NotedKeeps ==
    ASSUME IInv, NEW load \in Nat
    PROVE  /\ PastTyped(Noted(load))
           /\ Noted(load).lastOff = past.lastOff
           /\ Noted(load).lastOn = past.lastOn
           /\ \A t \in Tier : load > t =>
                 Noted(load).over[t] >= 0 /\ past.over[t] <= Noted(load).over[t]
           /\ \A c \in Capacity : load + c < LowestLimit =>
                 Noted(load).safe[c] >= 0 /\ past.safe[c] <= Noted(load).safe[c]
  <1> DEFINE over == [t \in Tier |-> Run(past.over[t], load > t, FALSE)]
             safe == [c \in Capacity |->
                         Run(past.safe[c], load + c < LowestLimit, FALSE)]
  <1>1. PastTyped(past)
    BY Facts
  <1>2. \A t \in Tier :
            /\ over[t] \in Age(Duration[t])
            /\ load > t => over[t] >= 0 /\ past.over[t] <= over[t]
    <2> TAKE t \in Tier
    <2>1. past.over[t] \in Age(Duration[t]) /\ Duration[t] \in Nat
      BY <1>1, Constants DEF PastTyped
    <2>2. over[t] = Run(past.over[t], load > t, FALSE)
      OBVIOUS
    <2> HIDE DEF over
    <2>3. QED
      BY <2>1, <2>2 DEF Run, Age, None
  <1>3. \A c \in Capacity :
            /\ safe[c] \in Age(Dwell)
            /\ load + c < LowestLimit => safe[c] >= 0 /\ past.safe[c] <= safe[c]
    <2> TAKE c \in Capacity
    <2>1. past.safe[c] \in Age(Dwell) /\ Dwell \in Nat
      BY <1>1, Constants DEF PastTyped, History
    <2>2. safe[c] = Run(past.safe[c], load + c < LowestLimit, FALSE)
      OBVIOUS
    <2> HIDE DEF safe
    <2>3. QED
      BY <2>1, <2>2 DEF Run, Age, None
  <1>4. over \in [Tier -> Int] /\ safe \in [Capacity -> Age(Dwell)]
    BY <1>2, <1>3, Constants, Ages
  <1>5. Noted(load) = [past EXCEPT !.over = over, !.safe = safe]
    BY DEF Noted
  <1> HIDE DEF over, safe
  <1>6. /\ Noted(load) \in History
        /\ Noted(load).over = over /\ Noted(load).safe = safe
        /\ Noted(load).lastOff = past.lastOff
        /\ Noted(load).lastOn = past.lastOn
    BY <1>1, <1>4, <1>5 DEF PastTyped, History
  <1>7. QED
    BY <1>2, <1>3, <1>6 DEF PastTyped

(* The engine once the decision's load has been observed.                  *)
LEMMA EvaluatedKeeps ==
    ASSUME IInv, Deciding
    PROVE  LET e == TimersUpdated(Ready, Sample)
           IN  /\ Typed(e) /\ TimersTimed(e, Noted(Sample))
               /\ Tracks(e.shedFence, past.lastOff)
               /\ Tracks(e.restoreFence, past.lastOn)
               /\ WindowTimed(e, past)
               /\ e.capacity # 0 => /\ mode = "auto"
                                    /\ e.shedFence = None
                                    /\ e.restoreFence = None
  <1>1. Sound(Ready, past) /\ Sample \in Nat /\ PastTyped(past)
    BY ReadyKeeps, Facts
  <1>2. /\ PastTyped(Noted(Sample))
        /\ \A t \in Tier : Sample > t =>
              /\ Noted(Sample).over[t] >= 0
              /\ past.over[t] <= Noted(Sample).over[t]
    BY <1>1, NotedKeeps
  <1>3. TimersTimed(TimersUpdated(Ready, Sample), Noted(Sample))
    BY <1>1, <1>2, UpdatedIsTimed DEF Sound, Timed
  <1>4. QED
    BY <1>1, <1>3, UpdatedKeeps DEF Sound, Timed, WindowTimed

(* The cycles that end before the planner.                                 *)
LEMMA BlockedStep ==
    ASSUME IInv,
           \/ EvaluateWaiting \/ EvaluateBlocked \/ HandleReportFault
           \/ BeginRecovery \/ RecoveryFails
           \/ EvaluateSupplyLoss \/ EvaluateModeOff
    PROVE  IInv'
  <1>1. /\ Sound(Ingested, past) /\ Sound(Handled(Ingested), past)
        /\ Sound(engine, past)
        /\ PastTyped(past) /\ mode \in Mode /\ fault \in Fault
        /\ op \in Operation /\ pending \subseteq Device
        /\ Idle \in Operation /\ Idle.pc = "idle"
    BY IngestedKeeps, HandledKeeps, SoundEngine, Facts, IdleFacts
  <1>2. /\ Sound(engine', past)
        /\ engine'.capacity # 0 => mode = "auto"
    <2>1. CASE EvaluateWaiting \/ EvaluateBlocked
      BY <1>1, <2>1, SoundReset DEF EvaluateWaiting, EvaluateBlocked
    <2>2. CASE HandleReportFault \/ BeginRecovery
      BY <1>1, <2>2 DEF HandleReportFault, BeginRecovery, Sound
    <2>3. CASE RecoveryFails
      BY <1>1, <2>3, SoundReset DEF RecoveryFails
    <2>4. CASE EvaluateSupplyLoss
      <3>1. \/ Deciding /\ engine' = WindowReset(Ready)
            \/ engine' = WindowReset(Handled(Ingested))
        BY <2>4 DEF EvaluateSupplyLoss
      <3>2. QED
        BY <1>1, <3>1, ReadyKeeps, SoundReset
    <2>5. CASE EvaluateModeOff
      BY <2>5, ReadyKeeps, SoundReset DEF EvaluateModeOff
    <2>6. QED
      BY <2>1, <2>2, <2>3, <2>4, <2>5
  <1>3. /\ UNCHANGED <<sensor, mode, pending, past>>
        /\ fault' \in Fault
    BY <1>1
    DEF EvaluateWaiting, EvaluateBlocked, HandleReportFault, BeginRecovery,
        RecoveryFails, EvaluateSupplyLoss, EvaluateModeOff, Fault, Cleared
  <1>4. /\ op' \in Operation /\ op'.pc \in {"idle", "recovering"}
        /\ op'.pc = "recovering" => op'.load \in Nat
    <2>1. CASE BeginRecovery
      <3>1. sensor.load \in Nat /\ sensor.load \in Load \cup {Invalid}
        BY <2>1, Constants DEF BeginRecovery, Readable, IInv, TypeOK
      <3>2. op' = [Idle EXCEPT !.pc = "recovering", !.load = sensor.load]
        BY <2>1 DEF BeginRecovery
      <3>3. QED
        BY <1>1, <3>1, <3>2 DEF Operation
    <2>2. CASE ~BeginRecovery
      BY <1>1, <2>2
      DEF EvaluateWaiting, EvaluateBlocked, HandleReportFault,
          RecoveryFails, EvaluateSupplyLoss, EvaluateModeOff
    <2>3. QED
      BY <2>1, <2>2
  <1>5. QED
    BY <1>1, <1>2, <1>3, <1>4, EngineStep DEF Sound

(* An evaluation ends with no operation or with the save of an action.     *)
LEMMA SavingTypes ==
    ASSUME Idle \in Operation, NEW k \in {"shed", "restore"},
           \/ op' = Idle
           \/ \E d \in Device :
                 op' = [Idle EXCEPT !.pc = "saving", !.kind = k, !.dev = d]
    PROVE  /\ op' \in Operation /\ op'.pc \in {"idle", "saving"}
           /\ op'.pc = "saving" => op'.dev \in Device
  <1>1. CASE op' = Idle
    BY <1>1 DEF Idle
  <1>2. ASSUME NEW d \in Device,
               op' = [Idle EXCEPT !.pc = "saving", !.kind = k, !.dev = d]
        PROVE  op' \in Operation /\ op'.pc = "saving" /\ op'.dev = d
    <2>1. op' = [pc |-> "saving", kind |-> k, dev |-> d, age |-> Idle.age,
                 load |-> Idle.load, mode |-> Idle.mode, since |-> Idle.since]
      BY <1>2 DEF Idle
    <2>2. /\ Idle.age \in Age(Horizon) /\ Idle.load \in Load \cup {Invalid}
          /\ Idle.mode \in Mode /\ Idle.since \in Age(Dwell)
      BY DEF Operation
    <2> QED
      BY <2>1, <2>2 DEF Operation
  <1> QED
    BY <1>1, <1>2

LEMMA EvaluateStep ==
    ASSUME IInv, Evaluate PROVE IInv'
  <1> DEFINE e == TimersUpdated(Ready, Sample)
  <1>1. /\ op \in Operation /\ mode \in Mode
        /\ pending \subseteq Device
        /\ Idle \in Operation /\ Idle.pc = "idle"
        /\ Cleared \subseteq Fault
    BY Facts, IdleFacts DEF Fault, Cleared
  <1>2. ASSUME Deciding
        PROVE  /\ Typed(e) /\ TimersTimed(e, Noted(Sample))
               /\ Tracks(e.shedFence, past.lastOff)
               /\ Tracks(e.restoreFence, past.lastOn)
               /\ WindowTimed(e, past)
               /\ e.capacity # 0 => /\ mode = "auto"
                                    /\ e.shedFence = None
                                    /\ e.restoreFence = None
               /\ Sample \in Nat
               /\ PastTyped(Noted(Sample))
               /\ Noted(Sample).lastOff = past.lastOff
               /\ Noted(Sample).lastOn = past.lastOn
    BY <1>2, EvaluatedKeeps, ReadyKeeps, NotedKeeps
  <1>3. ASSUME Deciding
        PROVE  /\ Typed(WindowReset(e)) /\ Timed(WindowReset(e), Noted(Sample))
               /\ WindowReset(e).shedFence = e.shedFence
               /\ WindowReset(e).restoreFence = e.restoreFence
               /\ WindowReset(e).capacity = 0
    BY <1>2, <1>3, ResetKeeps
  <1> HIDE DEF e
  <1>4. CASE EvaluateOverload
    <2>1. /\ engine' = WindowReset(e) /\ Deciding /\ fault' \in Cleared
          /\ past' = Noted(Sample)
          /\ UNCHANGED <<sensor, mode, pending>>
      BY <1>4 DEF EvaluateOverload, e
    <2>2. /\ op' \in Operation /\ op'.pc \in {"idle", "saving"}
          /\ op'.pc = "saving" => op'.dev \in Device
      <3>1. \/ op' = Idle
            \/ \E d \in Device :
                  op' = [Idle EXCEPT !.pc = "saving", !.kind = "shed",
                                     !.dev = d]
        BY <1>4 DEF EvaluateOverload
      <3>2. Idle \in Operation
        BY <1>1
      <3>3. QED
        BY <3>1, <3>2, SavingTypes
    <2>3. QED
      BY <1>1, <1>2, <1>3, <2>1, <2>2, EngineStep
  <1>5. CASE EvaluateMonitor
    <2>1. /\ Deciding /\ fault' \in Cleared /\ op' = Idle
          /\ past' = Noted(Sample)
          /\ UNCHANGED <<sensor, mode, pending>>
          /\ \/ engine' = e /\ (mode = "observe" \/ e.shedFence # None
                                                 \/ e.restoreFence # None)
             \/ engine' = WindowReset(e)
      BY <1>5 DEF EvaluateMonitor, e
    <2>2. /\ Typed(engine') /\ Timed(engine', Noted(Sample))
          /\ engine'.shedFence = e.shedFence
          /\ engine'.restoreFence = e.restoreFence
          /\ engine'.capacity = 0
      BY <1>2, <1>3, <2>1 DEF Timed, WindowTimed
    <2>3. QED
      BY <1>1, <1>2, <2>1, <2>2, EngineStep
  <1>6. ASSUME NEW d \in Device, EvaluateRestore(d) PROVE IInv'
    <2>1. /\ engine' = WindowFor(e, Expected[d]) /\ Deciding
          /\ Sample + Expected[d] < LowestLimit
          /\ mode = "auto" /\ fault' \in Cleared
          /\ e.shedFence = None /\ e.restoreFence = None
          /\ past' = Noted(Sample)
          /\ UNCHANGED <<sensor, mode, pending>>
      BY <1>6 DEF EvaluateRestore, e
    <2>2. /\ Expected[d] \in Capacity
          /\ Noted(Sample).safe[Expected[d]] >= 0
          /\ past.safe[Expected[d]] <= Noted(Sample).safe[Expected[d]]
      BY <1>2, <2>1, Constants, NotedKeeps
    <2>3. PastTyped(past)
      BY Facts
    <2>4. /\ Typed(engine') /\ Timed(engine', Noted(Sample))
          /\ engine'.shedFence = e.shedFence
          /\ engine'.restoreFence = e.restoreFence
      BY <1>2, <2>1, <2>2, <2>3, WindowKeeps
    <2>5. /\ op' \in Operation /\ op'.pc \in {"idle", "saving"}
          /\ op'.pc = "saving" => op'.dev \in Device
      <3>1. \/ op' = Idle
            \/ op' = [Idle EXCEPT !.pc = "saving", !.kind = "restore",
                                  !.dev = d]
        BY <1>6 DEF EvaluateRestore
      <3>2. Idle \in Operation
        BY <1>1
      <3>3. QED
        BY <3>1, <3>2, SavingTypes
    <2>6. QED
      BY <1>1, <1>2, <2>1, <2>4, <2>5, EngineStep
  <1>7. QED
    BY <1>4, <1>5, <1>6, BlockedStep DEF Evaluate

-----------------------------------------------------------------------------
(* The command and its outcome, and the other operations.                  *)

LEMMA ConfirmStep ==
    ASSUME IInv, NEW confirmed \in 0..Horizon, Confirm(confirmed) PROVE IInv'
  <1> DEFINE r == WindowReset(engine)
  <1>1. /\ Typed(engine) /\ TimersTimed(engine, past)
        /\ PastTyped(past) /\ TypeOK
        /\ Tracks(engine.shedFence, past.lastOff)
        /\ Tracks(engine.restoreFence, past.lastOn)
    BY Facts DEF IInv, Timed
  <1>2. /\ Typed(r) /\ Timed(r, past)
        /\ r.shedFence = engine.shedFence
        /\ r.restoreFence = engine.restoreFence
        /\ r.capacity = 0
    BY <1>1, ResetKeeps
  <1>3. /\ op' = Idle /\ UNCHANGED <<sensor, mode, fault>>
        /\ op \in Operation /\ op.dev \in Device
        /\ Idle \in Operation /\ Idle.pc = "idle"
    BY Facts, IdleFacts DEF Confirm
  <1>4. confirmed \in Age(Horizon) /\ confirmed # None
    BY Constants DEF Age, None
  <1>5. pending' \subseteq Device
    BY <1>1, <1>3 DEF Confirm, TypeOK
  <1> HIDE DEF r
  <1>6. \/ /\ engine' = [r EXCEPT !.shedFence = confirmed]
           /\ past' = [past EXCEPT !.safe = NoRoom, !.lastOff = confirmed]
        \/ /\ engine' = [r EXCEPT !.restoreFence = confirmed]
           /\ past' = [past EXCEPT !.safe = NoRoom, !.lastOn = confirmed]
    BY DEF Confirm, r
  <1>7. /\ engine' \in Runtime
        /\ engine'.tierSince = r.tierSince /\ engine'.capacity = 0
        /\ past' \in History
        /\ past'.over = past.over
        /\ \/ /\ engine'.shedFence = confirmed /\ past'.lastOff = confirmed
              /\ engine'.restoreFence = engine.restoreFence
              /\ past'.lastOn = past.lastOn
           \/ /\ engine'.restoreFence = confirmed /\ past'.lastOn = confirmed
              /\ engine'.shedFence = engine.shedFence
              /\ past'.lastOff = past.lastOff
    <2>1. NoRoom \in [Capacity -> Age(Dwell)]
      BY Ages, Constants DEF NoRoom
    <2>2. /\ r \in Runtime /\ past \in History
          /\ r.shedFence = engine.shedFence
          /\ r.restoreFence = engine.restoreFence /\ r.capacity = 0
      BY <1>1, <1>2 DEF Typed, TypeOK
    <2>3. /\ past' \in History /\ past'.over = past.over
          /\ \/ past'.lastOff = confirmed /\ past'.lastOn = past.lastOn
             \/ past'.lastOn = confirmed /\ past'.lastOff = past.lastOff
      BY <1>4, <1>6, <2>1, <2>2 DEF History
    <2>4. /\ engine' \in Runtime
          /\ engine'.tierSince = r.tierSince /\ engine'.capacity = 0
      BY <1>4, <1>6, <2>2 DEF Runtime
    <2>5. CASE /\ engine' = [r EXCEPT !.shedFence = confirmed]
               /\ past' = [past EXCEPT !.safe = NoRoom, !.lastOff = confirmed]
      BY <2>2, <2>3, <2>4, <2>5 DEF Runtime, History
    <2>6. CASE /\ engine' = [r EXCEPT !.restoreFence = confirmed]
               /\ past' = [past EXCEPT !.safe = NoRoom, !.lastOn = confirmed]
      BY <2>2, <2>3, <2>4, <2>6 DEF Runtime, History
    <2>7. QED
      BY <1>6, <2>3, <2>4, <2>5, <2>6
  <1>8. TypeOK'
    BY <1>1, <1>2, <1>3, <1>5, <1>7 DEF TypeOK, Typed
  <1>9. DwellIsContinuous' /\ WindowIsContinuous' /\ SavedWindowIsContinuous'
    BY <1>2, <1>7
    DEF Timed, TimersTimed, DwellIsContinuous, WindowIsContinuous,
        SavedWindowIsContinuous
  <1>10. WindowIsWatched' /\ OperationIsComplete'
    BY <1>3, <1>7 DEF WindowIsWatched, OperationIsComplete
  <1>11. FencesFollowActions'
    BY <1>1, <1>3, <1>7 DEF FencesFollowActions, Tracks, Readable
  <1>12. QED
    BY <1>8, <1>9, <1>10, <1>11 DEF IInv

LEMMA AdvanceStep ==
    ASSUME IInv, Advance PROVE IInv'
  <1>1. /\ Sound(engine, past) /\ Sound(WindowReset(engine), past)
        /\ WindowReset(engine).capacity = 0
        /\ PastTyped(past) /\ mode \in Mode /\ fault \in Fault
        /\ op \in Operation /\ pending \subseteq Device
        /\ Idle \in Operation /\ Idle.pc = "idle"
        /\ op.pc \in {"saving", "calling"} => op.dev \in Device
    BY SoundEngine, SoundReset, Facts, IdleFacts
  <1>2. CASE DispatchShed \/ DispatchRestore
    <2>1. /\ op' = [op EXCEPT !.pc = "calling", !.age = 0]
          /\ UNCHANGED <<sensor, engine, mode, fault, pending, past>>
      BY <1>2 DEF DispatchShed, DispatchRestore
    <2>2. /\ op' \in Operation /\ op'.pc = "calling"
          /\ op'.dev \in Device
      BY <1>1, <1>2, <2>1, Constants, Ages
      DEF Operation, DispatchShed, DispatchRestore
    <2>3. QED
      BY <1>1, <2>1, <2>2, EngineStep DEF Sound
  <1>3. CASE GiveUp \/ Abandon
    <2>1. /\ engine' = engine \/ engine' = WindowReset(engine)
          /\ op' = Idle /\ pending' \subseteq pending
          /\ UNCHANGED <<sensor, mode, fault, past>>
      BY <1>3 DEF GiveUp, Abandon
    <2>2. /\ Sound(engine', past)
          /\ engine'.capacity # 0 => mode = "auto"
      BY <1>1, <2>1 DEF Sound
    <2>3. QED
      BY <1>1, <2>1, <2>2, EngineStep DEF Sound
  <1>4. ASSUME NEW confirmed \in 0..Horizon, Confirm(confirmed) PROVE IInv'
    BY <1>4, ConfirmStep
  <1>5. CASE ModeSaved
    <2>1. op' = Idle /\ UNCHANGED <<sensor, engine, mode, fault, pending, past>>
      BY <1>5 DEF ModeSaved
    <2>2. QED
      BY <1>1, <2>1, EngineStep DEF Sound
  <1>6. CASE ModeSaveFails
    <2>1. /\ op.pc = "mode" /\ mode' = op.mode /\ op' = Idle
          /\ engine' = [engine EXCEPT !.restoreSince = op.since]
          /\ UNCHANGED <<sensor, fault, pending, past>>
      BY <1>6 DEF ModeSaveFails
    <2>2. mode' \in Mode /\ op.since \in Age(Dwell)
      BY <1>1, <2>1 DEF Operation
    <2>3. /\ engine' \in Runtime
          /\ engine'.tierSince = engine.tierSince
          /\ engine'.capacity = engine.capacity
          /\ engine'.restoreSince = op.since
          /\ engine'.shedFence = engine.shedFence
          /\ engine'.restoreFence = engine.restoreFence
      BY <1>1, <2>1, <2>2 DEF Sound, Typed, Runtime
    <2>4. Typed(engine') /\ Timed(engine', past)
      BY <1>1, <2>1, <2>3
      DEF Sound, Typed, Timed, TimersTimed, WindowTimed, IInv,
          SavedWindowIsContinuous
    <2>5. engine'.capacity # 0 => mode' = "auto"
      BY <2>1, <2>3 DEF IInv, WindowIsWatched
    <2>6. QED
      BY <1>1, <2>1, <2>2, <2>3, <2>4, <2>5, EngineStep DEF Sound
  <1>7. QED
    BY <1>2, <1>3, <1>4, <1>5, <1>6 DEF Advance

LEMMA OperationStep ==
    ASSUME IInv,
           \/ SupplyReport
           \/ \E d \in Device : StopElsewhere(d) \/ Retire(d)
           \/ ChangeIntents \/ ClearFault
           \/ \E m \in Mode : SetMode(m)
           \/ Reload
    PROVE  IInv'
  <1>1. /\ Sound(engine, past)
        /\ Sound(WindowReset(engine), past) /\ WindowReset(engine).capacity = 0
        /\ Sound(TimersCleared(engine), past)
        /\ TimersCleared(engine).capacity = 0
        /\ PastTyped(past) /\ mode \in Mode /\ fault \in Fault
        /\ op \in Operation /\ pending \subseteq Device
        /\ Idle \in Operation /\ Idle.pc = "idle"
        /\ op.pc \in {"saving", "calling"} => op.dev \in Device
        /\ op.pc = "recovering" => op.load \in Nat
    BY SoundEngine, SoundReset, Facts, IdleFacts
  <1>2. CASE SupplyReport
    <2>1. /\ engine' = WindowReset(engine) /\ fault' \in Fault
          /\ UNCHANGED <<sensor, mode, op, pending, past>>
      BY <1>1, <1>2 DEF SupplyReport, Fault
    <2>2. QED
      BY <1>1, <2>1, EngineStep DEF Sound
  <1>3. ASSUME NEW d \in Device, Retire(d) PROVE IInv'
    <2>1. /\ engine' = engine \/ engine' = WindowReset(engine)
          /\ op = Idle /\ pending' \subseteq Device
          /\ UNCHANGED <<sensor, mode, fault, op, past>>
      BY <1>1, <1>3 DEF Retire
    <2>2. Sound(engine', past)
      BY <1>1, <2>1
    <2>3. QED
      BY <1>1, <2>1, <2>2, EngineStep DEF Sound
  <1>7. ASSUME NEW d \in Device, StopElsewhere(d) PROVE IInv'
    <2>1. /\ engine' = WindowReset(engine)
          /\ op = Idle /\ pending' \subseteq Device
          /\ past' = [past EXCEPT !.safe = NoRoom]
          /\ UNCHANGED <<sensor, mode, fault, op>>
      BY <1>1, <1>7 DEF StopElsewhere
    <2>2. /\ PastTyped(past') /\ past'.over = past.over
          /\ past'.lastOff = past.lastOff /\ past'.lastOn = past.lastOn
      <3>1. NoRoom \in [Capacity -> Age(Dwell)]
        BY Ages, Constants DEF NoRoom
      <3>2. QED
        BY <1>1, <2>1, <3>1 DEF PastTyped, History
    <2>3. Timed(engine', past')
      BY <1>1, <2>1, <2>2 DEF Sound, Timed, TimersTimed, WindowTimed
    <2>4. QED
      BY <1>1, <2>1, <2>2, <2>3, EngineStep DEF Sound
  <1>4. ASSUME NEW m \in Mode, SetMode(m) PROVE IInv'
    <2>1. /\ mode' = m
          /\ engine' = IF m = "auto" THEN engine ELSE WindowReset(engine)
          /\ op' = [Idle EXCEPT !.pc = "mode", !.mode = mode,
                                !.since = engine.restoreSince]
          /\ fault' \in Fault
          /\ UNCHANGED <<sensor, pending, past>>
      BY <1>1, <1>4 DEF SetMode, Fault
    <2>2. /\ op' \in Operation /\ op'.pc = "mode"
          /\ op'.since = engine.restoreSince /\ op'.mode = mode
      BY <1>1, <2>1 DEF Sound, Typed, Runtime, Operation, Idle
    <2>3. Sound(engine', past)
      BY <1>1, <2>1
    <2>4. engine'.capacity # 0 => m = "auto" /\ engine' = engine
      BY <1>1, <2>1
    <2>5. engine'.capacity # 0 =>
              op'.since <= past.safe[engine'.capacity] /\ op'.mode = "auto"
      BY <1>1, <2>2, <2>4 DEF Sound, Timed, WindowTimed
    <2>6. QED
      BY <1>1, <2>1, <2>2, <2>3, <2>4, <2>5, EngineStep DEF Sound
  <1>5. CASE ChangeIntents \/ ClearFault
    <2>1. /\ engine' = WindowReset(engine) /\ op = Idle /\ fault' \in Fault
          /\ UNCHANGED <<sensor, mode, op, pending, past>>
      BY <1>1, <1>5 DEF ChangeIntents, ClearFault, Fault
    <2>2. QED
      BY <1>1, <2>1, EngineStep DEF Sound
  <1>6. CASE Reload
    <2>1. /\ engine' = TimersCleared(engine) /\ op = Idle /\ fault' \in Fault
          /\ UNCHANGED <<sensor, mode, op, pending, past>>
      BY <1>6 DEF Reload, Restored, FaultRestored, Fault
    <2>2. QED
      BY <1>1, <2>1, EngineStep DEF Sound
  <1>8. QED
    BY <1>2, <1>3, <1>4, <1>5, <1>6, <1>7

(* After a restart no sensor has reported yet, and the report that will    *)
(* follow is later than every action before it.                            *)
LEMMA RestartStep ==
    ASSUME IInv, Restart PROVE IInv'
  <1> DEFINE safe == [c \in Capacity |-> None]
             r == TimersCleared(engine)
  <1>1. /\ Typed(engine) /\ PastTyped(past) /\ TypeOK
        /\ Typed(r) /\ r.capacity = 0 /\ r.tierSince = NoTimers
        /\ Idle \in Operation /\ Idle.pc = "idle"
    BY Facts, IdleFacts, ClearedKeeps DEF IInv
  <1>2. /\ NoTimers \in [Tier -> Int] /\ \A t \in Tier : NoTimers[t] = None
        /\ safe \in [Capacity -> Age(Dwell)]
        /\ \A t \in Tier : None \in Age(Duration[t])
    BY Constants, Ages DEF NoTimers
  <1> HIDE DEF safe, r
  <1>3. PICK shed \in Saved(engine.shedFence),
             restore \in Saved(engine.restoreFence) :
            engine' = [r EXCEPT !.shedFence = shed, !.restoreFence = restore]
    BY DEF Restart, Restored, r
  <1>4. shed \in Age(Horizon) /\ restore \in Age(Horizon)
    <2>1. /\ engine.shedFence \in Age(Horizon)
          /\ engine.restoreFence \in Age(Horizon)
          /\ Horizon \in Nat /\ Horizon \in Age(Horizon)
      BY <1>1, Constants DEF Typed, Runtime, Age, None
    <2>2. \A fence \in Age(Horizon) : Saved(fence) \subseteq Age(Horizon)
      BY <2>1, Ages, LaterAges DEF Saved
    <2>3. QED
      BY <2>1, <2>2
  <1>5. /\ engine' \in Runtime /\ engine'.tierSince = NoTimers
        /\ engine'.capacity = 0
    BY <1>1, <1>3, <1>4 DEF Typed, Runtime
  <1>6. /\ Later(past.lastOff, Horizon) \in Age(Horizon)
        /\ Later(past.lastOn, Horizon) \in Age(Horizon)
        /\ \A last \in {past.lastOff, past.lastOn} :
              Later(last, Horizon) = None \/ Later(last, Horizon) >= 1
    BY <1>1, Constants DEF TypeOK, History, Later, Age, None, Horizon
  <1>7. /\ sensor' = [load |-> Invalid, age |-> 0]
        /\ mode' \in Mode /\ fault' \in Fault /\ op' = Idle
        /\ pending' \subseteq Device
        /\ past' = [over |-> NoTimers, safe |-> safe,
                    lastOff |-> Later(past.lastOff, Horizon),
                    lastOn |-> Later(past.lastOn, Horizon)]
    BY <1>1 DEF Restart, FaultRestored, TypeOK, Fault, Mode, safe, NoRoom
  <1>8. /\ past' \in History
        /\ past'.over = NoTimers
        /\ past'.lastOff = Later(past.lastOff, Horizon)
        /\ past'.lastOn = Later(past.lastOn, Horizon)
    BY <1>2, <1>6, <1>7 DEF History
  <1>9. /\ sensor' \in [load : Load \cup {Invalid}, age : 0..Horizon]
        /\ ~Readable'
    <2>1. 0 \in 0..Horizon
      BY Constants
    <2>2. QED
      BY <2>1, <1>7 DEF Readable
  <1>10. TypeOK'
    BY <1>1, <1>2, <1>5, <1>7, <1>8, <1>9 DEF TypeOK
  <1>11. DwellIsContinuous' /\ WindowIsContinuous' /\ SavedWindowIsContinuous'
    BY <1>2, <1>5, <1>8, Ages, Constants
    DEF DwellIsContinuous, WindowIsContinuous, SavedWindowIsContinuous
  <1>12. FencesFollowActions'
    BY <1>6, <1>8, <1>9 DEF FencesFollowActions, Tracks
  <1>13. WindowIsWatched' /\ OperationIsComplete'
    BY <1>1, <1>5, <1>7 DEF WindowIsWatched, OperationIsComplete
  <1>14. QED
    BY <1>10, <1>11, <1>12, <1>13 DEF IInv

LEMMA StutterStep ==
    ASSUME IInv, UNCHANGED vars PROVE IInv'
  BY DEF IInv, vars, TypeOK, DwellIsContinuous, WindowIsContinuous,
         SavedWindowIsContinuous, WindowIsWatched, FencesFollowActions,
         OperationIsComplete, Tracks, Readable

LEMMA NextHolds == IInv /\ [Next]_vars => IInv'
  <1> SUFFICES ASSUME IInv, [Next]_vars PROVE IInv'
    OBVIOUS
  <1>1. CASE Tick
    BY <1>1, TickStep
  <1>2. ASSUME NEW load \in Load \cup {Invalid}, Report(load) PROVE IInv'
    BY <1>2, ReportStep
  <1>3. CASE Evaluate
    BY <1>3, EvaluateStep
  <1>4. CASE Advance
    BY <1>4, AdvanceStep
  <1>5. CASE \/ SupplyReport
             \/ \E d \in Device : StopElsewhere(d) \/ Retire(d)
             \/ ChangeIntents \/ ClearFault
             \/ \E m \in Mode : SetMode(m)
             \/ Reload
    BY <1>5, OperationStep
  <1>6. CASE Restart
    BY <1>6, RestartStep
  <1>7. CASE UNCHANGED vars
    BY <1>7, StutterStep
  <1>8. QED
    BY <1>1, <1>2, <1>3, <1>4, <1>5, <1>6, <1>7 DEF Next

LEMMA Invariance == Spec => []IInv
  BY InitHolds, NextHolds, PTL DEF Spec

-----------------------------------------------------------------------------
(* The results.                                                            *)

(* Ages, timers, fences and operations keep their type, whatever mixture   *)
(* of reports, evaluations, commands, mode changes and restarts happens.   *)
THEOREM TypeCorrect == Spec => []TypeOK
  <1>1. IInv => TypeOK
    BY DEF IInv
  <1>2. QED
    BY <1>1, Invariance, PTL

(* No overload timer runs from before the first observation of an unbroken *)
(* run above its limit (observe_report, _update_exceeded_tiers).           *)
THEOREM OverloadDwellIsContinuous == Spec => []DwellIsContinuous
  <1>1. IInv => DwellIsContinuous
    BY DEF IInv
  <1>2. QED
    BY <1>1, Invariance, PTL

(* The restore window never runs from before the room for its load was     *)
(* there, nor from before a confirmed stop of any lane or a restore,       *)
(* failed mode saves included (_restore_window_elapsed).                   *)
THEOREM RestoreWindowIsContinuous == Spec => []WindowIsContinuous
  <1>1. IInv => WindowIsContinuous
    BY DEF IInv
  <1>2. QED
    BY <1>1, Invariance, PTL

(* Only an evaluation that finds a matured tier begins a shed.             *)
LEMMA ShedBegins ==
    ASSUME IInv, Next, op.pc # "saving", op'.pc = "saving", op'.kind = "shed"
    PROVE  EvaluateOverload /\ TimersUpdated(Ready, Sample).shedFence = None
  <1>1. op'.pc # op.pc /\ op' # Idle
    BY IdleFacts
  <1>2. ~(\E d \in Device : EvaluateRestore(d))
    BY <1>1 DEF EvaluateRestore, Idle
  <1>3. Evaluate
    BY <1>1, Facts
    DEF Next, Tick, Report, SupplyReport, Advance, DispatchShed,
        DispatchRestore, GiveUp, Abandon, Confirm, ModeSaved, ModeSaveFails,
        StopElsewhere, Retire,
        ChangeIntents, ClearFault, SetMode, Reload, Restart, Idle, Operation
  <1>4. EvaluateOverload
    BY <1>1, <1>2, <1>3
    DEF Evaluate, EvaluateWaiting, EvaluateBlocked, HandleReportFault,
        BeginRecovery, RecoveryFails, EvaluateSupplyLoss, EvaluateModeOff,
        EvaluateMonitor, Idle
  <1>5. QED
    BY <1>1, <1>4 DEF EvaluateOverload

(* A load is shed only when a tier's overload has lasted, and after a      *)
(* report later than the relay's report of the planner's previous shed     *)
(* (_shedding_lane_handled).                                               *)
THEOREM ShedsAreJustified == Spec => ShedIsJustified
  <1> DEFINE Justified ==
          op.pc # "saving" /\ op'.pc = "saving" /\ op'.kind = "shed" =>
              /\ \E t \in Tier : past.over'[t] = Duration[t]
              /\ past.lastOff = None \/ sensor.age < past.lastOff
  <1>1. IInv /\ [Next]_vars => [Justified]_vars
    <2> SUFFICES ASSUME IInv, Next, op.pc # "saving",
                        op'.pc = "saving", op'.kind = "shed"
                 PROVE  /\ \E t \in Tier : past.over'[t] = Duration[t]
                        /\ past.lastOff = None \/ sensor.age < past.lastOff
      OBVIOUS
    <2> DEFINE e == TimersUpdated(Ready, Sample)
    <2>1. /\ Deciding /\ Readable /\ e.shedFence = None
          /\ Matured(e, Sample) # {} /\ past' = Noted(Sample)
      BY ShedBegins DEF EvaluateOverload, Deciding
    <2>2. /\ Typed(e) /\ TimersTimed(e, Noted(Sample))
          /\ PastTyped(Noted(Sample))
          /\ Tracks(e.shedFence, past.lastOff)
      BY <2>1, EvaluatedKeeps, ReadyKeeps, NotedKeeps
    <2> HIDE DEF e
    <2>3. PICK t \in Tier : e.tierSince[t] >= Duration[t]
      BY <2>1 DEF Matured
    <2>4. Noted(Sample).over[t] = Duration[t]
      <3>1. /\ e.tierSince[t] \in Age(Duration[t])
            /\ Noted(Sample).over[t] \in Age(Duration[t])
            /\ e.tierSince[t] <= Noted(Sample).over[t]
            /\ Duration[t] \in Nat
        BY <2>2, Constants DEF Typed, TimersTimed, PastTyped
      <3>2. QED
        BY <2>3, <3>1 DEF Age, None
    <2>5. past.lastOff = None \/ sensor.age < past.lastOff
      BY <2>1, <2>2, Facts, Constants DEF Tracks
    <2>6. QED
      BY <2>1, <2>4, <2>5
  <1>2. QED
    BY <1>1, Invariance, PTL DEF Spec, ShedIsJustified

(* When an ON is called its room has lasted for the whole dwell, all of it *)
(* after the last confirmed stop of whichever lane and the last restore,   *)
(* and the last report is later than the planner's last shed and the last  *)
(* restore (_restore_dispatch_permitted, _commit_stop).                    *)
THEOREM RestoresAreJustified == Spec => RestoreIsJustified
  <1> DEFINE Justified ==
        op.pc = "saving" /\ op'.pc = "calling" /\ op.kind = "restore" =>
            /\ past.safe[Expected[op.dev]] = Dwell
            /\ sensor.load # Invalid /\ ReportIsCausal
  <1>1. IInv /\ [Next]_vars => [Justified]_vars
    <2> SUFFICES ASSUME IInv, Next, op.pc = "saving", op'.pc = "calling",
                        op.kind = "restore"
                 PROVE  /\ past.safe[Expected[op.dev]] = Dwell
                        /\ sensor.load # Invalid /\ ReportIsCausal
      OBVIOUS
    <2>1. DispatchRestore
      <3>1. op # Idle /\ op' # Idle /\ op' # op
        BY IdleFacts
      <3>2. ~Evaluate
        BY <3>1
        DEF Evaluate, EvaluateWaiting, EvaluateBlocked, HandleReportFault,
            BeginRecovery, RecoveryFails, Deciding, EvaluateSupplyLoss,
            EvaluateModeOff, EvaluateOverload, EvaluateMonitor,
            EvaluateRestore
      <3>3. Advance
        BY <3>1, <3>2, Facts
        DEF Next, Tick, Report, SupplyReport, StopElsewhere, Retire,
            ChangeIntents, ClearFault, SetMode, Reload, Restart, Operation
      <3>4. QED
        BY <3>1, <3>3
        DEF Advance, DispatchShed, GiveUp, Abandon, Confirm, ModeSaved,
            ModeSaveFails
    <2>2. /\ engine.shedFence = None /\ engine.restoreFence = None
          /\ engine.capacity = Expected[op.dev]
          /\ engine.restoreSince >= Dwell
          /\ Readable
      BY <2>1 DEF DispatchRestore, CommandsAllowed
    <2>3. Expected[op.dev] \in Capacity /\ Expected[op.dev] # 0
      BY Constants, Facts
    <2>4. /\ WindowTimed(engine, past) /\ PastTyped(past) /\ Typed(engine)
          /\ Tracks(None, past.lastOff) /\ Tracks(None, past.lastOn)
      BY <2>2, Facts DEF Timed
    <2>5. past.safe[Expected[op.dev]] = Dwell
      <3>1. /\ engine.restoreSince <= past.safe[Expected[op.dev]]
            /\ engine.restoreSince \in Age(Dwell)
            /\ past.safe[Expected[op.dev]] \in Age(Dwell)
            /\ Dwell \in Nat
        BY <2>2, <2>3, <2>4, Constants
        DEF WindowTimed, PastTyped, Typed, Runtime, History
      <3>2. QED
        BY <2>2, <3>1 DEF Age, None
    <2>6. ReportIsCausal
      BY <2>2, <2>4 DEF Tracks, ReportIsCausal
    <2>7. QED
      BY <2>2, <2>5, <2>6 DEF Readable
  <1>2. QED
    BY <1>1, Invariance, PTL DEF Spec, RestoreIsJustified
=============================================================================
