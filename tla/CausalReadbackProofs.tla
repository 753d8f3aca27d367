------------------------ MODULE CausalReadbackProofs ------------------------
(***************************************************************************)
(* A confirmed command was carried out, and its stamp covers the group,    *)
(* for every set of members, every thermostat and every bound of           *)
(* CausalReadback: no report that Home Assistant had before the command    *)
(* can confirm it.                                                         *)
(***************************************************************************)
EXTENDS CausalReadback, TLAPS, WellFoundedInduction

Reported == {"on", "off", "idle"}

(* What each conjunct of the invariant needs to know of types.             *)
Typed ==
    /\ clock \in Nat
    /\ transit \in [Entity -> Seq(Reported)]
    /\ relay \in [Entity -> Reported]
    /\ ha \in [Entity -> [value : Reported \cup {"unknown"},
                          at : Nat \cup {Never}]]
    /\ calls \subseteq {"on", "off"}
    /\ disturbed \in BOOLEAN
    /\ Waiting =>
         wait \in [phase : {"waiting"}, want : {"on", "off"}, attempt : Nat,
                   issued : Nat, previous : [Entity -> Nat \cup {Never}]]

(* While nobody else interferes, whatever is on its way or was received    *)
(* since the capture, and shows what was asked, is still true.             *)
Honest(e) ==
    /\ \A i \in 1..Len(transit[e]) :
          Shows(transit[e][i], wait.want) => Shows(relay[e], wait.want)
    /\ ha[e].at # wait.previous[e] /\ Shows(ha[e].value, wait.want) =>
          Shows(relay[e], wait.want)

Undisturbed ==
    Waiting /\ ~disturbed =>
        /\ calls \subseteq {wait.want}
        /\ \A e \in Entity : Honest(e)

Inv == Typed /\ Undisturbed

-----------------------------------------------------------------------------
(* Sequences of reports: what Append, Head and Tail leave behind.          *)

LEMMA AppendReports ==
    ASSUME NEW q \in Seq(Reported), NEW v \in Reported
    PROVE  /\ Append(q, v) \in Seq(Reported)
           /\ \A i \in 1..Len(Append(q, v)) :
                 Append(q, v)[i] = v \/ (i \in 1..Len(q) /\ Append(q, v)[i] = q[i])
  OBVIOUS

LEMMA TailReports ==
    ASSUME NEW q \in Seq(Reported), q # <<>>
    PROVE  /\ Head(q) \in Reported /\ Head(q) = q[1] /\ 1 \in 1..Len(q)
           /\ Tail(q) \in Seq(Reported)
           /\ \A i \in 1..Len(Tail(q)) : i + 1 \in 1..Len(q) /\ Tail(q)[i] = q[i + 1]
  OBVIOUS

-----------------------------------------------------------------------------
LEMMA Initially == Init => Inv
  <1> SUFFICES ASSUME Init PROVE Inv
    OBVIOUS
  <1>1. ~Waiting
    BY DEF Init, Idle, Waiting
  <1>2. transit \in [Entity -> Seq(Reported)]
    BY DEF Init
  <1>3. relay \in [Entity -> Reported]
    BY DEF Init, Reported
  <1>4. ha \in [Entity -> [value : Reported \cup {"unknown"},
                           at : Nat \cup {Never}]]
    BY SMT DEF Init, Reported
  <1>5. clock \in Nat /\ calls \subseteq {"on", "off"} /\ disturbed \in BOOLEAN
    BY DEF Init
  <1> QED
    BY <1>1, <1>2, <1>3, <1>4, <1>5 DEF Inv, Typed, Undisturbed

(* A move that the command under way does not ask for is a disturbance.    *)
LEMMA MovesHonestly ==
    ASSUME Inv, NEW e \in Entity, NEW v, Moves(e, v), UNCHANGED <<clock, ha, wait>>
    PROVE  /\ relay' \in [Entity -> Reported]
           /\ transit' \in [Entity -> Seq(Reported)]
           /\ Waiting /\ ~disturbed /\ Shows(v, wait.want) =>
                \A f \in Entity : Honest(f)'
  <1>1. v \in Reported
    BY DEF Moves, Mode, Reported
  <1>2. relay' \in [Entity -> Reported]
    BY <1>1 DEF Moves, Inv, Typed
  <1>3. \A f \in Entity : transit'[f] = transit[f]
                          \/ (f = e /\ transit'[f] = Append(transit[f], v))
    BY DEF Moves, Inv, Typed
  <1>4. transit' \in [Entity -> Seq(Reported)]
    <2>1. transit[e] \in Seq(Reported) /\ transit \in [Entity -> Seq(Reported)]
      BY DEF Inv, Typed
    <2>2. Append(transit[e], v) \in Seq(Reported)
      BY <2>1, <1>1, AppendReports
    <2> QED
      BY <2>1, <2>2 DEF Moves
  <1>5. ASSUME Waiting, ~disturbed, Shows(v, wait.want), NEW f \in Entity
        PROVE  Honest(f)'
    <2>1. Honest(f)
      BY <1>5 DEF Inv, Undisturbed
    <2>2. relay'[f] = relay[f] \/ relay'[f] = v
      BY DEF Moves, Inv, Typed
    <2>3. Shows(relay[f], wait.want) => Shows(relay'[f], wait.want)
      BY <2>2, <1>5
    <2>4. ASSUME NEW i \in 1..Len(transit'[f]),
                 Shows(transit'[f][i], wait.want)
          PROVE  Shows(relay'[f], wait.want)
      <3>1. CASE transit'[f] = transit[f]
        BY <3>1, <2>4, <2>3, <2>1 DEF Honest
      <3>2. CASE f = e /\ transit'[f] = Append(transit[f], v)
        BY <3>2, <1>5 DEF Moves, Inv, Typed
      <3> QED
        BY <3>1, <3>2, <1>3
    <2>5. ha[f].at # wait.previous[f] /\ Shows(ha[f].value, wait.want) =>
             Shows(relay'[f], wait.want)
      BY <2>1, <2>3 DEF Honest
    <2> QED
      BY <2>4, <2>5 DEF Honest
  <1> QED
    BY <1>2, <1>4, <1>5

(* Both captures start with an undisturbed observation, or a disturbed one.*)
LEMMA CapturesHonestly ==
    ASSUME Inv, NEW want \in {"on", "off"}, NEW attempt \in Nat,
           wait' = Captured(want, attempt), disturbed' = Disturbs(want),
           calls' \in {calls, calls \cup {want}},
           UNCHANGED <<clock, relay, transit, ha>>
    PROVE  Inv'
  <1>1. wait' \in [phase : {"waiting"}, want : {"on", "off"}, attempt : Nat,
                   issued : Nat, previous : [Entity -> Nat \cup {Never}]]
    BY DEF Captured, Inv, Typed
  <1>2. Typed'
    BY <1>1 DEF Inv, Typed, Waiting, Disturbs
  <1>3. ASSUME ~disturbed'
        PROVE  calls' \subseteq {want} /\ \A e \in Entity : transit'[e] = <<>>
    BY <1>3 DEF Disturbs
  <1>4. \A e \in Entity : ha'[e].at = wait'.previous[e]
    BY DEF Captured
  <1>5. ASSUME ~disturbed', NEW e \in Entity PROVE Honest(e)'
    <2>1. transit'[e] = <<>>
      BY <1>3, <1>5
    <2> QED
      BY <2>1, <1>4 DEF Honest
  <1>6. wait'.want = want
    BY DEF Captured
  <1> QED
    BY <1>2, <1>3, <1>5, <1>6 DEF Inv, Undisturbed

LEMMA StepKeeps == ASSUME ConstantsAssumption, Inv, [Next]_vars PROVE Inv'
  <1>1. CASE Tick
    <2>1. clock' \in Nat
      BY <1>1 DEF Tick, Inv, Typed
    <2>2. UNCHANGED <<relay, transit, ha, calls, wait, disturbed>>
      BY <1>1 DEF Tick
    <2> QED
      BY <2>1, <2>2 DEF Inv, Typed, Undisturbed, Honest, Waiting
  <1>2. CASE SetBack
    <2>1. clock' \in Nat
      BY <1>2 DEF SetBack, Inv, Typed
    <2>2. UNCHANGED <<relay, transit, ha, calls, wait, disturbed>>
      BY <1>2 DEF SetBack
    <2> QED
      BY <2>1, <2>2 DEF Inv, Typed, Undisturbed, Honest, Waiting
  <1>3. CASE CallsSettle
    <2>1. ~Waiting'
      BY <1>3 DEF CallsSettle, Waiting, Idle
    <2> QED
      BY <2>1, <1>3 DEF CallsSettle, Inv, Typed, Undisturbed, Waiting
  <1>4. ASSUME NEW e \in Entity, ReportsAgain(e) PROVE Inv'
    <2>1. relay[e] \in Reported
      BY DEF Inv, Typed
    <2>2. transit' \in [Entity -> Seq(Reported)]
      BY <1>4, <2>1, AppendReports DEF ReportsAgain, Inv, Typed
    <2>3. ASSUME Waiting, ~disturbed, NEW f \in Entity PROVE Honest(f)'
      <3>1. Honest(f)
        BY <2>3 DEF Inv, Undisturbed
      <3>2. CASE f # e
        BY <3>1, <3>2, <1>4 DEF ReportsAgain, Honest, Inv, Typed
      <3>3. CASE f = e
        <4>1. transit'[e] = Append(transit[e], relay[e])
          BY <1>4 DEF ReportsAgain, Inv, Typed
        <4>2. \A i \in 1..Len(transit'[e]) :
                 transit'[e][i] = relay[e]
                 \/ (i \in 1..Len(transit[e]) /\ transit'[e][i] = transit[e][i])
          BY <4>1, <2>1, AppendReports DEF Inv, Typed
        <4> QED
          BY <4>2, <3>1, <3>3, <1>4 DEF ReportsAgain, Honest
      <3> QED
        BY <3>2, <3>3
    <2> QED
      BY <2>2, <2>3, <1>4 DEF ReportsAgain, Inv, Typed, Undisturbed, Waiting
  <1>5. ASSUME NEW e \in Entity, Arrives(e) PROVE Inv'
    <2>1. /\ Head(transit[e]) \in Reported
          /\ Head(transit[e]) = transit[e][1] /\ 1 \in 1..Len(transit[e])
          /\ Tail(transit[e]) \in Seq(Reported)
          /\ \A i \in 1..Len(Tail(transit[e])) :
                i + 1 \in 1..Len(transit[e])
                /\ Tail(transit[e])[i] = transit[e][i + 1]
      BY <1>5, TailReports DEF Arrives, Inv, Typed
    <2>2. Typed'
      BY <1>5, <2>1 DEF Arrives, Inv, Typed, Waiting
    <2>3. ASSUME Waiting, ~disturbed, NEW f \in Entity PROVE Honest(f)'
      <3>1. Honest(f)
        BY <2>3 DEF Inv, Undisturbed
      <3>2. CASE f # e
        BY <3>1, <3>2, <1>5 DEF Arrives, Honest, Inv, Typed
      <3>3. CASE f = e
        <4>1. transit'[e] = Tail(transit[e]) /\ ha'[e].value = Head(transit[e])
          BY <1>5 DEF Arrives, Inv, Typed
        <4>2. UNCHANGED <<relay, wait>>
          BY <1>5 DEF Arrives
        <4>3. \A i \in 1..Len(transit'[e]) :
                 Shows(transit'[e][i], wait.want) => Shows(relay[e], wait.want)
          BY <4>1, <2>1, <3>1, <3>3 DEF Honest
        <4>4. Shows(ha'[e].value, wait.want) => Shows(relay[e], wait.want)
          BY <4>1, <2>1, <3>1, <3>3 DEF Honest
        <4> QED
          BY <4>2, <4>3, <4>4, <3>3 DEF Honest
      <3> QED
        BY <3>2, <3>3
    <2> QED
      BY <2>2, <2>3, <1>5 DEF Arrives, Inv, Undisturbed, Waiting
  <1>6. ASSUME NEW e \in Entity, BecomesUnavailable(e) PROVE Inv'
    <2>1. Typed'
      BY <1>6 DEF BecomesUnavailable, Inv, Typed, Waiting
    <2>2. ASSUME Waiting, ~disturbed, NEW f \in Entity PROVE Honest(f)'
      <3>1. Honest(f)
        BY <2>2 DEF Inv, Undisturbed
      <3>2. CASE f # e
        BY <3>1, <3>2, <1>6 DEF BecomesUnavailable, Honest, Inv, Typed
      <3>3. CASE f = e
        <4>1. ~Shows(ha'[e].value, wait.want)
          BY <1>6 DEF BecomesUnavailable, Shows, Inv, Typed
        <4> QED
          BY <4>1, <3>1, <3>3, <1>6 DEF BecomesUnavailable, Honest
      <3> QED
        BY <3>2, <3>3
    <2> QED
      BY <2>1, <2>2, <1>6 DEF BecomesUnavailable, Inv, Undisturbed, Waiting
  <1>7. ASSUME NEW e \in Entity, NEW v \in Mode(e), ByHand(e, v) PROVE Inv'
    <2>1. /\ relay' \in [Entity -> Reported]
          /\ transit' \in [Entity -> Seq(Reported)]
      BY <1>7, MovesHonestly DEF ByHand
    <2>2. disturbed' /\ UNCHANGED <<clock, ha, calls, wait>>
      BY <1>7 DEF ByHand
    <2> QED
      BY <2>1, <2>2 DEF Inv, Typed, Undisturbed, Waiting
  <1>8. ASSUME NEW e \in Entity, NEW v \in Mode(e), Obeys(e, v) PROVE Inv'
    <2>1. Moves(e, v) /\ UNCHANGED <<clock, ha, calls, wait, disturbed>>
      BY <1>8 DEF Obeys
    <2>2. PICK w \in calls : Shows(v, w)
      BY <1>8 DEF Obeys
    <2>3. Waiting /\ ~disturbed => Shows(v, wait.want)
      BY <2>2 DEF Inv, Undisturbed
    <2>4. /\ relay' \in [Entity -> Reported]
          /\ transit' \in [Entity -> Seq(Reported)]
          /\ Waiting /\ ~disturbed => \A f \in Entity : Honest(f)'
      BY <2>1, <2>3, MovesHonestly
    <2> QED
      BY <2>1, <2>4 DEF Inv, Typed, Undisturbed, Waiting
  <1>9. ASSUME NEW want \in {"on", "off"}, Command(want) PROVE Inv'
    BY <1>9, CapturesHonestly DEF Command
  <1>10. CASE Fallback
    <2>1. wait' = Captured("off", 2)
      BY <1>10 DEF Fallback, CapturedAgain
    <2> QED
      BY <1>10, <2>1, CapturesHonestly DEF Fallback
  <1>11. CASE Confirm \/ GiveUp \/ Return
    <2>1. ~Waiting' /\ UNCHANGED <<clock, relay, transit, ha, calls, disturbed>>
      BY <1>11 DEF Confirm, GiveUp, Return, Idle, Waiting
    <2> QED
      BY <2>1 DEF Inv, Typed, Undisturbed
  <1>12. CASE UNCHANGED vars
    BY <1>12 DEF vars, Inv, Typed, Undisturbed, Honest, Waiting
  <1> QED
    BY <1>1, <1>2, <1>3, <1>4, <1>5, <1>6, <1>7, <1>8, <1>9, <1>10, <1>11,
       <1>12 DEF Next

LEMMA Invariance == ASSUME ConstantsAssumption PROVE Spec => []Inv
  <1>1. Init => Inv
    BY Initially
  <1>2. Inv /\ [Next]_vars => Inv'
    BY StepKeeps, ConstantsAssumption
  <1> QED
    BY <1>1, <1>2, PTL DEF Spec

-----------------------------------------------------------------------------
(* A causal report was received since the capture.                         *)
LEMMA CausalIsNew ==
    ASSUME Inv, Waiting, ConstantsAssumption, NEW e \in Entity, Causal(e)
    PROVE  ha[e].at # wait.previous[e]
  BY DEF Causal, Inv, Typed, ConstantsAssumption

LEMMA ConfirmationIsTrue ==
    ASSUME Inv, ConstantsAssumption, [Next]_vars,
           wait'.phase = "confirmed", Waiting, ~disturbed,
           NEW e \in IF wait'.idle THEN {Target} ELSE Member
    PROVE  Shows(relay[e], wait'.want)
  <1>1. Confirm
    <2>1. wait'.phase \notin {"waiting", "idle"}
      OBVIOUS
    <2>2. wait' # wait
      BY DEF Waiting
    <2> QED
      BY <2>1, <2>2 DEF Next, vars, Tick, SetBack, CallsSettle, ReportsAgain,
         Arrives, BecomesUnavailable, ByHand, Obeys, Command, Fallback,
         CapturedAgain, Captured, GiveUp, Return, Idle
  <1>2. wait'.want = wait.want /\ wait'.idle = IdleConfirms
    BY <1>1 DEF Confirm
  <1>3. e \in Entity /\ Honest(e)
    BY DEF Entity, Inv, Undisturbed
  <1>4. CASE IdleConfirms
    <2>1. e = Target /\ Causal(e) /\ ha[e].value = "idle" /\ wait.want = "on"
      BY <1>4, <1>2 DEF IdleConfirms
    <2>2. Shows(ha[e].value, wait.want)
      BY <2>1 DEF Shows, IsOn
    <2> QED
      BY <2>1, <2>2, <1>2, <1>3, CausalIsNew DEF Honest
  <1>5. CASE ~IdleConfirms
    <2>1. Causal(e) /\ Shows(ha[e].value, wait.want)
      BY <1>1, <1>2, <1>5 DEF Confirm, GroupConfirms
    <2> QED
      BY <2>1, <1>2, <1>3, CausalIsNew DEF Honest
  <1> QED
    BY <1>4, <1>5

(* A command is confirmed only by entities that did what it asked, unless  *)
(* somebody else moved one of them or a report was already under way.      *)
THEOREM ConfirmationsAreTrue == Spec => ConfirmedIsTrue
  <1>1. Inv /\ [Next]_vars =>
          (wait'.phase = "confirmed" /\ Waiting /\ ~disturbed =>
             \A e \in IF wait'.idle THEN {Target} ELSE Member :
                Shows(relay[e], wait'.want))
    BY ConfirmationIsTrue, ConstantsAssumption
  <1>2. Spec => []Inv
    BY Invariance, ConstantsAssumption
  <1> QED
    BY <1>1, <1>2, PTL DEF Spec, ConfirmedIsTrue

-----------------------------------------------------------------------------
(* The fence: somebody reported at or after the last time the group was    *)
(* seen incomplete.                                                        *)

GroupComplete ==
    \A e \in Member :
        /\ ha[e].at # wait.previous[e] /\ ha[e].at # Never
        /\ Shows(ha[e].value, wait.want)

Fenced ==
    /\ lagging \in Nat
    /\ Waiting =>
         /\ lagging <= clock
         /\ Member # {} /\ GroupComplete => \E e \in Member : ha[e].at >= lagging
         /\ IdleConfirms => \E e \in Entity : ha[e].at >= lagging

FInv == Inv /\ Fenced

(* A bounded nonempty set of numbers has a greatest one.                   *)
LEMMA GreatestExists ==
    ASSUME NEW S \in SUBSET Nat, S # {}, NEW b \in Nat, \A x \in S : x <= b
    PROVE  \E t \in S : \A x \in S : x <= t
  <1> DEFINE Bounds == {n \in Nat : \A x \in S : x <= n}
             Less == OpToRel(<, Nat)
  <1>1. b \in Bounds /\ Bounds \subseteq Nat
    OBVIOUS
  <1>2. \A x, y \in Nat : x < y => <<x, y>> \in Less
    BY DEF OpToRel
  <1>3. \E n \in Bounds : \A m \in Bounds : ~(<<m, n>> \in Less)
    <2>1. IsWellFoundedOn(Less, Nat)
      BY NatLessThanWellFounded
    <2> HIDE DEF Less, Bounds
    <2> QED
      BY <1>1, <2>1, WFMin
  <1>4. PICK n \in Bounds : \A m \in Bounds : ~(m < n)
    <2> HIDE DEF Less
    <2> QED
      BY <1>1, <1>2, <1>3
  <1>5. n \in S
    <2>1. SUFFICES ASSUME n \notin S PROVE FALSE
      OBVIOUS
    <2>2. \A x \in S : x <= n - 1
      BY <1>4, <2>1
    <2>3. n - 1 \in Nat
      <3>1. PICK x \in S : TRUE
        OBVIOUS
      <3> QED
        BY <2>2, <3>1, <1>4
    <2> QED
      BY <1>4, <2>2, <2>3
  <1> QED
    BY <1>4, <1>5

LEMMA LatestIsLatest ==
    ASSUME clock \in Nat, NEW es, es # {},
           \A e \in es : ha[e].at \in Nat /\ ha[e].at <= clock
    PROVE  /\ Latest(es) \in Nat /\ \A e \in es : ha[e].at <= Latest(es)
           /\ \E e \in es : Latest(es) = ha[e].at
  <1> DEFINE S == {ha[e].at : e \in es}
  <1>1. S \in SUBSET Nat /\ S # {} /\ \A x \in S : x <= clock
    OBVIOUS
  <1>2. \E t \in S : \A x \in S : x <= t
    <2> HIDE DEF S
    <2> QED
      BY <1>1, GreatestExists
  <1>3. \E t \in S : \A e \in es : ha[e].at <= t
    BY <1>2
  <1>4. Latest(es) \in S /\ \A e \in es : ha[e].at <= Latest(es)
    BY <1>3 DEF Latest
  <1> QED
    BY <1>1, <1>4

LEMMA FencedInitially == Init => FInv
  BY Initially DEF Init, FInv, Fenced, Waiting, Idle

(* Both captures: nothing was reported since.                              *)
LEMMA CapturesFence ==
    ASSUME Inv, NEW want \in {"on", "off"}, NEW attempt \in Nat,
           wait' = Captured(want, attempt), lagging' = clock,
           UNCHANGED <<clock, ha>>
    PROVE  Fenced'
  <1>1. clock \in Nat
    BY DEF Inv, Typed
  <1>2. \A e \in Entity : ha'[e].at = wait'.previous[e]
    BY DEF Captured
  <1>3. ~(Member # {} /\ GroupComplete')
    BY <1>2 DEF GroupComplete, Entity
  <1>4. ~IdleConfirms'
    <2>1. ~Causal(Target)'
      <3>1. Target \in Entity
        BY DEF Entity
      <3>2. ha[Target].at \in Nat \cup {Never}
        BY <3>1 DEF Inv, Typed
      <3> QED
        BY <1>2, <3>1, <3>2 DEF Causal
    <2> QED
      BY <2>1 DEF IdleConfirms
  <1> QED
    BY <1>1, <1>3, <1>4 DEF Fenced

LEMMA FenceKeeps == ASSUME ConstantsAssumption, FInv, [Next]_vars PROVE FInv'
  <1>0. Inv /\ Inv' /\ clock \in Nat
    BY StepKeeps DEF FInv, Inv, Typed
  <1>1. CASE Tick
    <2>1. CASE ~Waiting
      BY <1>0, <1>1, <2>1 DEF Tick, FInv, Fenced, Waiting
    <2>2. CASE Waiting
      <3>1. /\ clock' = clock + 1 /\ UNCHANGED <<ha, wait>>
            /\ lagging' = IF Complete THEN lagging ELSE clock'
        BY <1>1, <2>2 DEF Tick
      <3>2. lagging' \in Nat /\ lagging' <= clock'
        BY <1>0, <2>2, <3>1 DEF FInv, Fenced
      <3>3. GroupComplete' => GroupComplete /\ Complete
        BY <3>1 DEF GroupComplete, Complete
      <3>4. CASE IdleConfirms' /\ ~IdleConfirms
        <4>1. ASSUME \A e \in Entity : ha[e].at \in Nat => ha[e].at <= clock
              PROVE  FALSE
          <5>1. Target \in Entity /\ Member \subseteq Entity
            BY DEF Entity
          <5>2. Causal(Target)
            BY <3>1, <3>4, <4>1, <5>1, <1>0 DEF IdleConfirms, Causal, Inv, Typed
          <5>3. ASSUME NEW e \in Member \ {Target}
                PROVE  /\ ha[e].value = "off" /\ ha[e].at # Never
                       /\ ha[e].at <= clock /\ clock <= ha[e].at + MaxAge
            <6>1. /\ ha[e].value = "off" /\ ha[e].at # Never
                  /\ clock + 1 <= ha[e].at + MaxAge
              BY <3>1, <3>4 DEF IdleConfirms
            <6>2. e \in Entity /\ ha[e].at \in Nat
              BY <5>1, <6>1, <1>0 DEF Inv, Typed
            <6>3. ha[e].at <= clock
              BY <4>1, <6>2
            <6> QED
              BY <6>1, <6>2, <6>3, <1>0, ConstantsAssumption
              DEF ConstantsAssumption
          <5> QED
            BY <3>1, <3>4, <5>2, <5>3 DEF IdleConfirms
        <4>2. PICK e \in Entity : ha[e].at \in Nat /\ ~(ha[e].at <= clock)
          BY <4>1
        <4>3. ha'[e].at >= lagging'
          BY <3>1, <3>2, <4>2, <1>0 DEF FInv, Fenced
        <4> QED
          BY <3>1, <3>2, <3>3, <3>4, <4>3, <2>2, <1>0 DEF FInv, Fenced, Waiting
      <3>5. CASE ~IdleConfirms' \/ IdleConfirms
        <4>1. IdleConfirms => Complete
          BY DEF Complete
        <4> QED
          BY <3>1, <3>2, <3>3, <3>5, <4>1, <2>2, <1>0 DEF FInv, Fenced, Waiting
      <3> QED
        BY <3>4, <3>5
    <2> QED
      BY <2>1, <2>2
  <1>2. ASSUME NEW e \in Entity, Arrives(e) PROVE FInv'
    <2>1. /\ ha' = [ha EXCEPT ![e] = [value |-> Head(transit[e]), at |-> clock]]
          /\ lagging' = IF Waiting /\ ~Complete THEN clock ELSE lagging
          /\ UNCHANGED <<clock, wait>>
      BY <1>2 DEF Arrives
    <2>2. lagging' \in Nat /\ (Waiting => lagging' <= clock)
      BY <1>0, <2>1 DEF FInv, Fenced
    <2>3. ha'[e].at = clock /\ \A f \in Entity : f # e => ha'[f] = ha[f]
      BY <1>0, <2>1 DEF Inv, Typed
    <2>4. CASE ~Waiting
      BY <1>0, <2>1, <2>2, <2>4 DEF FInv, Fenced, Waiting
    <2>5. CASE Waiting /\ e \in Member
      BY <1>0, <2>1, <2>2, <2>3, <2>5 DEF FInv, Fenced, Waiting
    <2>6. CASE Waiting /\ e \notin Member
      <3>1. \A f \in Member : ha'[f] = ha[f]
        BY <2>3, <2>6 DEF Entity
      <3>2. GroupComplete' => GroupComplete /\ Complete
        BY <2>1, <3>1 DEF GroupComplete, Complete
      <3> QED
        BY <1>0, <2>1, <2>2, <2>3, <2>6, <3>1, <3>2 DEF FInv, Fenced, Waiting
    <2> QED
      BY <2>4, <2>5, <2>6
  <1>3. ASSUME NEW e \in Entity, BecomesUnavailable(e) PROVE FInv'
    <2>1. /\ ha' = [ha EXCEPT ![e] = [value |-> "unknown", at |-> clock]]
          /\ lagging' = IF Waiting /\ ~(Complete /\ Complete') THEN clock
                        ELSE lagging
          /\ UNCHANGED <<clock, wait>>
      BY <1>3 DEF BecomesUnavailable
    <2>2. lagging' \in Nat /\ (Waiting => lagging' <= clock)
      BY <1>0, <2>1 DEF FInv, Fenced
    <2>3. /\ ha'[e].at = clock /\ ha'[e].value = "unknown"
          /\ \A f \in Entity : f # e => ha'[f] = ha[f]
      BY <1>0, <2>1 DEF Inv, Typed
    <2>4. ~IdleConfirms'
      BY <2>3 DEF IdleConfirms, Entity
    <2>5. GroupComplete' => /\ \A f \in Member : ha'[f] = ha[f]
                            /\ GroupComplete /\ Complete /\ Complete'
      <3>1. GroupComplete' => e \notin Member
        BY <2>3 DEF GroupComplete, Shows
      <3>2. e \notin Member => \A f \in Member : ha'[f] = ha[f]
        BY <2>3 DEF Entity
      <3> QED
        BY <2>1, <3>1, <3>2 DEF GroupComplete, Complete
    <2> QED
      BY <1>0, <2>1, <2>2, <2>4, <2>5 DEF FInv, Fenced, Waiting
  <1>4. ASSUME NEW want \in {"on", "off"}, Command(want) PROVE FInv'
    BY <1>0, <1>4, CapturesFence DEF Command, FInv
  <1>5. CASE Fallback
    BY <1>0, <1>5, CapturesFence DEF Fallback, CapturedAgain, FInv
  <1>6. CASE Confirm \/ GiveUp \/ Return \/ SetBack
    <2>1. ~Waiting' /\ lagging' = lagging
      BY <1>6 DEF Confirm, GiveUp, Return, SetBack, Waiting, Idle
    <2> QED
      BY <1>0, <2>1 DEF FInv, Fenced
  <1>7. CASE \/ CallsSettle \/ UNCHANGED vars
             \/ \E e \in Entity : ReportsAgain(e)
             \/ \E e \in Entity : \E v \in Mode(e) : ByHand(e, v) \/ Obeys(e, v)
    <2>1. UNCHANGED <<clock, ha, wait, lagging>>
      BY <1>7 DEF CallsSettle, ReportsAgain, ByHand, Obeys, vars
    <2>2. GroupComplete' <=> GroupComplete
      BY <2>1 DEF GroupComplete
    <2>3. IdleConfirms' <=> IdleConfirms
      BY <2>1 DEF IdleConfirms, Causal
    <2> QED
      BY <1>0, <2>1, <2>2, <2>3 DEF FInv, Fenced, Waiting
  <1> QED
    BY <1>1, <1>2, <1>3, <1>4, <1>5, <1>6, <1>7 DEF Next

LEMMA ConfirmationIsLast ==
    ASSUME FInv, ConstantsAssumption, [Next]_vars,
           wait'.phase = "confirmed", Waiting
    PROVE  wait'.at >= lagging
  <1>1. Confirm
    <2>1. wait'.phase \notin {"waiting", "idle"} /\ wait' # wait
      BY DEF Waiting
    <2> QED
      BY <2>1 DEF Next, vars, Tick, SetBack, CallsSettle, ReportsAgain,
         Arrives, BecomesUnavailable, ByHand, Obeys, Command, Fallback,
         CapturedAgain, Captured, GiveUp, Return, Idle
  <1>2. wait'.at = ConfirmedAt /\ (GroupConfirms \/ IdleConfirms) /\ Member # {}
    BY <1>1 DEF Confirm, GroupConfirms, IdleConfirms
  <1>3. clock \in Nat /\ \A e \in Entity : ha[e].at \in Nat \cup {Never}
    BY DEF FInv, Inv, Typed
  <1>4. CASE IdleConfirms
    <2>1. \A e \in Entity : ha[e].at \in Nat /\ ha[e].at <= clock
      BY <1>3, <1>4 DEF IdleConfirms, Causal, Entity
    <2>2. ConfirmedAt = Latest(Entity)
      BY <1>4 DEF ConfirmedAt, Entity
    <2>3. Latest(Entity) \in Nat /\ \A e \in Entity : ha[e].at <= Latest(Entity)
      BY <1>3, <2>1, LatestIsLatest DEF Entity
    <2>4. PICK e \in Entity : ha[e].at >= lagging
      BY <1>4 DEF FInv, Fenced
    <2> QED
      BY <1>2, <2>1, <2>2, <2>3, <2>4 DEF FInv, Fenced
  <1>5. CASE ~IdleConfirms
    <2>1. \A e \in Member : Causal(e) /\ Shows(ha[e].value, wait.want)
      BY <1>2, <1>5 DEF GroupConfirms
    <2>2. \A e \in Member : ha[e].at \in Nat /\ ha[e].at <= clock
      BY <1>3, <2>1 DEF Causal, Entity
    <2>3. GroupComplete
      BY <2>1, <2>2, CausalIsNew, ConstantsAssumption
      DEF GroupComplete, Entity, FInv
    <2>4. ConfirmedAt = Latest(Member)
      BY <1>5 DEF ConfirmedAt
    <2>5. Latest(Member) \in Nat /\ \A e \in Member : ha[e].at <= Latest(Member)
      BY <1>2, <1>3, <2>2, LatestIsLatest
    <2>6. PICK e \in Member : ha[e].at >= lagging
      BY <1>2, <2>3 DEF FInv, Fenced
    <2> QED
      BY <1>2, <2>2, <2>4, <2>5, <2>6 DEF FInv, Fenced
  <1> QED
    BY <1>4, <1>5

(* The confirmed stamp, the fence for the aggregate's reports, is not      *)
(* older than the last time the group was seen incomplete                  *)
(* (_confirmed_report, max over the members).                              *)
THEOREM FencesCoverTheGroup == Spec => FenceCoversGroup
  <1>1. Init => FInv
    BY FencedInitially
  <1>2. FInv /\ [Next]_vars => FInv'
    BY FenceKeeps, ConstantsAssumption
  <1>3. FInv /\ [Next]_vars =>
          (wait'.phase = "confirmed" /\ Waiting => wait'.at >= lagging)
    BY ConfirmationIsLast, ConstantsAssumption
  <1> QED
    BY <1>1, <1>2, <1>3, PTL DEF Spec, FenceCoversGroup

-----------------------------------------------------------------------------
(* Types: every stamp is a time of the clock, the confirmed one included,  *)
(* and a command is captured at most twice.                                *)

Reports == [value : {"on", "off", "idle", "unknown"}, at : Stamp]

WaitingFor ==
    [phase : {"waiting"}, want : {"on", "off"}, attempt : 1..2,
     issued : 0..MaxClock, previous : [Entity -> Stamp]]

LEMMA WaitKinds ==
  /\ Wait = {Idle} \cup WaitingFor
              \cup [phase : {"confirmed"}, want : {"on", "off"},
                    at : 0..MaxClock, idle : BOOLEAN]
  /\ wait \in Wait /\ Waiting => wait \in WaitingFor
  BY DEF Wait, WaitingFor, Waiting, Idle

LEMMA InitTypes ==
    ASSUME Init, ConstantsAssumption
    PROVE  TypeOK
  <1>1. clock \in 0..MaxClock /\ lagging \in 0..MaxClock
    BY DEF Init, ConstantsAssumption
  <1>2. transit \in [Entity -> Seq({"on", "off", "idle"})]
    BY DEF Init
  <1>3. relay \in [Entity -> {"on", "off", "idle"}]
    BY DEF Init
  <1>4. ha \in [Entity -> Reports]
    <2>1. 0 \in Stamp /\ Never \in Stamp
      BY DEF Stamp, ConstantsAssumption
    <2> QED
      BY <2>1, SMT DEF Init, Reports
  <1>5. spent \in [calls : 0..MaxCalls, moves : 0..MaxMoves]
    BY DEF Init, ConstantsAssumption
  <1>6. wait \in Wait
    BY DEF Init, Wait
  <1> QED
    BY <1>1, <1>2, <1>3, <1>4, <1>5, <1>6 DEF Init, TypeOK, Reports

LEMMA CapturedTypes ==
    ASSUME TypeOK, NEW want \in {"on", "off"}, NEW attempt \in 1..2
    PROVE  Captured(want, attempt) \in Wait
  <1>1. Captured(want, attempt) \in WaitingFor
    BY DEF Captured, TypeOK, WaitingFor
  <1> QED
    BY <1>1, WaitKinds

(* A function changed at one point to a value of its range keeps its type. *)
LEMMA ExceptTyped ==
    ASSUME NEW D, NEW R, NEW f \in [D -> R], NEW d \in D, NEW r \in R
    PROVE  [f EXCEPT ![d] = r] \in [D -> R]
  OBVIOUS

LEMMA MovesTypes ==
    ASSUME TypeOK, NEW e \in Entity, NEW v, Moves(e, v)
    PROVE  /\ relay' \in [Entity -> {"on", "off", "idle"}]
           /\ transit' \in [Entity -> Seq({"on", "off", "idle"})]
  <1>1. v \in {"on", "off", "idle"}
    BY DEF Moves, Mode
  <1>2. /\ relay \in [Entity -> {"on", "off", "idle"}]
        /\ transit \in [Entity -> Seq({"on", "off", "idle"})]
    BY DEF TypeOK
  <1>3. relay' \in [Entity -> {"on", "off", "idle"}]
    <2>1. relay' = [relay EXCEPT ![e] = v]
      BY DEF Moves
    <2> QED
      BY <1>1, <1>2, <2>1
  <1>4. transit' \in [Entity -> Seq({"on", "off", "idle"})]
    <2>1. \/ transit' = transit
          \/ transit' = [transit EXCEPT ![e] = Append(transit[e], v)]
      BY DEF Moves
    <2>2. transit[e] \in Seq({"on", "off", "idle"})
      BY <1>2
    <2>3. Append(transit[e], v) \in Seq({"on", "off", "idle"})
      BY <1>1, <2>2, AppendReports DEF Reported
    <2>4. [transit EXCEPT ![e] = Append(transit[e], v)]
             \in [Entity -> Seq({"on", "off", "idle"})]
      BY <1>2, <2>3, ExceptTyped
    <2> QED
      BY <1>2, <2>1, <2>4
  <1> QED
    BY <1>3, <1>4

(* A new report of an entity, stamped with the clock.                      *)
LEMMA ReportTypes ==
    ASSUME TypeOK, NEW e \in Entity, NEW v \in {"on", "off", "idle", "unknown"},
           ha' = [ha EXCEPT ![e] = [value |-> v, at |-> clock]]
    PROVE  ha' \in [Entity -> Reports]
  <1>1. [value |-> v, at |-> clock] \in Reports
    BY DEF TypeOK, Reports, Stamp
  <1> QED
    BY <1>1 DEF TypeOK, Reports

(* The stamp that is returned is one of those that were read.              *)
LEMMA ConfirmTypes ==
    ASSUME TypeOK, ConstantsAssumption, Confirm
    PROVE  wait' \in Wait
  <1> DEFINE es == IF IdleConfirms THEN Member \cup {Target} ELSE Member
  <1>1. Waiting /\ wait.want \in {"on", "off"} /\ IdleConfirms \in BOOLEAN
    BY WaitKinds DEF Confirm, TypeOK, WaitingFor, IdleConfirms
  <1>2. es \subseteq Entity /\ es # {}
    BY DEF Confirm, GroupConfirms, IdleConfirms, Entity
  <1>3. \A e \in Entity : ha[e].at \in 0..MaxClock \cup {Never}
    BY DEF TypeOK, Stamp
  <1>4. clock \in Nat
    BY DEF TypeOK
  <1>5. \A e \in es : ha[e].at \in Nat /\ ha[e].at <= clock
    <2>1. CASE IdleConfirms
      <3>1. es = Member \cup {Target}
        BY <2>1
      <3>2. ha[Target].at # Never /\ ha[Target].at <= clock
        BY <2>1 DEF IdleConfirms, Causal
      <3>3. \A e \in Member \ {Target} : ha[e].at # Never /\ ha[e].at <= clock
        BY <2>1 DEF IdleConfirms
      <3> HIDE DEF es
      <3>4. \A e \in es : ha[e].at # Never /\ ha[e].at <= clock
        BY <3>1, <3>2, <3>3, Zenon
      <3>5. \A e \in es : ha[e].at \in 0..MaxClock \cup {Never}
        BY <1>2, <1>3, Zenon
      <3> QED
        BY <3>4, <3>5
    <2>2. CASE ~IdleConfirms
      BY <1>2, <1>3, <2>2 DEF Confirm, GroupConfirms, Causal
    <2> QED
      BY <2>1, <2>2
  <1>6. ConfirmedAt = Latest(es)
    BY DEF ConfirmedAt
  <1> HIDE DEF es
  <1>7. \E e \in es : ConfirmedAt = ha[e].at
    BY <1>2, <1>4, <1>5, <1>6, LatestIsLatest
  <1>8. ConfirmedAt \in 0..MaxClock
    BY <1>2, <1>3, <1>5, <1>7, ConstantsAssumption DEF ConstantsAssumption
  <1> QED
    BY <1>1, <1>8, WaitKinds DEF Confirm

(* The budgets of the model are counted within their bounds.               *)
LEMMA AnotherMove ==
    ASSUME ConstantsAssumption, spent.moves < MaxMoves,
           spent \in [calls : 0..MaxCalls, moves : 0..MaxMoves]
    PROVE  [spent EXCEPT !.moves = @ + 1]
              \in [calls : 0..MaxCalls, moves : 0..MaxMoves]
  <1>1. MaxMoves \in Nat /\ spent.moves \in 0..MaxMoves
    BY DEF ConstantsAssumption
  <1>2. spent.moves + 1 \in 0..MaxMoves
    BY <1>1
  <1> QED
    BY <1>2

LEMMA AnotherCall ==
    ASSUME ConstantsAssumption, spent.calls < MaxCalls,
           spent \in [calls : 0..MaxCalls, moves : 0..MaxMoves]
    PROVE  [spent EXCEPT !.calls = @ + 1]
              \in [calls : 0..MaxCalls, moves : 0..MaxMoves]
  <1>1. MaxCalls \in Nat /\ spent.calls \in 0..MaxCalls
    BY DEF ConstantsAssumption
  <1>2. spent.calls + 1 \in 0..MaxCalls
    BY <1>1
  <1> QED
    BY <1>2

LEMMA NextTypes ==
    ASSUME TypeOK, ConstantsAssumption, [Next]_vars
    PROVE  TypeOK'
  <1>1. CASE Tick
    BY <1>1 DEF Tick, TypeOK, ConstantsAssumption
  <1>2. CASE SetBack
    <2>1. spent' \in [calls : 0..MaxCalls, moves : 0..MaxMoves]
      BY <1>2, AnotherMove DEF SetBack, TypeOK
    <2> QED
      BY <1>2, <2>1 DEF SetBack, TypeOK
  <1>3. CASE CallsSettle \/ GiveUp \/ Return
    BY <1>3, WaitKinds DEF CallsSettle, GiveUp, Return, TypeOK
  <1>4. ASSUME NEW e \in Entity, ReportsAgain(e)
        PROVE  TypeOK'
    <2>1. Append(transit[e], relay[e]) \in Seq({"on", "off", "idle"})
      BY AppendReports DEF TypeOK, Reported
    <2> QED
      BY <1>4, <2>1 DEF ReportsAgain, TypeOK
  <1>5. ASSUME NEW e \in Entity, Arrives(e)
        PROVE  TypeOK'
    <2>1. /\ Head(transit[e]) \in {"on", "off", "idle"}
          /\ Tail(transit[e]) \in Seq({"on", "off", "idle"})
      BY <1>5, TailReports DEF Arrives, TypeOK, Reported
    <2>2. ha' \in [Entity -> Reports]
      BY <1>5, <2>1, ReportTypes DEF Arrives
    <2> QED
      BY <1>5, <2>1, <2>2 DEF Arrives, TypeOK, Reports
  <1>6. ASSUME NEW e \in Entity, BecomesUnavailable(e)
        PROVE  TypeOK'
    <2>1. ha' \in [Entity -> Reports]
      BY <1>6, ReportTypes DEF BecomesUnavailable
    <2> QED
      BY <1>6, <2>1 DEF BecomesUnavailable, TypeOK, Reports
  <1>7. ASSUME NEW e \in Entity, NEW v \in Mode(e), ByHand(e, v)
        PROVE  TypeOK'
    <2>1. /\ relay' \in [Entity -> {"on", "off", "idle"}]
          /\ transit' \in [Entity -> Seq({"on", "off", "idle"})]
      BY <1>7, MovesTypes DEF ByHand
    <2>2. spent' \in [calls : 0..MaxCalls, moves : 0..MaxMoves]
      BY <1>7, AnotherMove DEF ByHand, TypeOK
    <2> QED
      BY <1>7, <2>1, <2>2 DEF ByHand, TypeOK
  <1>8. ASSUME NEW e \in Entity, NEW v \in Mode(e), Obeys(e, v)
        PROVE  TypeOK'
    BY <1>8, MovesTypes DEF Obeys, TypeOK
  <1>9. ASSUME NEW want \in {"on", "off"}, Command(want)
        PROVE  TypeOK'
    <2>1. wait' \in Wait
      BY <1>9, CapturedTypes DEF Command
    <2>2. Disturbs(want) \in BOOLEAN
      BY DEF Disturbs
    <2>3. spent' \in [calls : 0..MaxCalls, moves : 0..MaxMoves]
      BY <1>9, AnotherCall DEF Command, TypeOK
    <2> QED
      BY <1>9, <2>1, <2>2, <2>3 DEF Command, TypeOK
  <1>10. CASE Fallback
    <2>1. wait' \in Wait
      BY <1>10, CapturedTypes DEF Fallback, CapturedAgain
    <2>2. Disturbs("off") \in BOOLEAN
      BY DEF Disturbs
    <2> QED
      BY <1>10, <2>1, <2>2 DEF Fallback, TypeOK
  <1>11. CASE Confirm
    BY <1>11, ConfirmTypes DEF Confirm, TypeOK
  <1>12. CASE UNCHANGED vars
    BY <1>12 DEF vars, TypeOK
  <1> QED
    BY <1>1, <1>2, <1>3, <1>4, <1>5, <1>6, <1>7, <1>8, <1>9, <1>10, <1>11,
       <1>12 DEF Next

(* Every stamp, the returned one included, is a time that the clock had    *)
(* shown, and an observation is repeated at most once (_command_off).      *)
THEOREM TypeCorrect == Spec => []TypeOK
  <1>1. Init => TypeOK
    BY InitTypes, ConstantsAssumption
  <1>2. TypeOK /\ [Next]_vars => TypeOK'
    BY NextTypes, ConstantsAssumption
  <1> QED
    BY <1>1, <1>2, PTL DEF Spec
=============================================================================
