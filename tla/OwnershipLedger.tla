-------------------------- MODULE OwnershipLedger --------------------------
(***************************************************************************)
(* What the contract of Ownership amounts to, counted: over any behaviour  *)
(* no load is switched on more often than a stop of it was confirmed or an *)
(* operator vouched for it.  The ledger only watches: Counting says how    *)
(* the counts follow the contract's variables and nothing about those.     *)
(***************************************************************************)
EXTENDS Ownership, Integers, TLAPS

VARIABLES
    stops,      \* per load, the claims begun by a confirmed stop
    vouchings,  \* per load, the claims begun by an operator
    ons         \* per load, the ONs

ledger == <<stops, vouchings, ons>>

Claimed(d) == d \in owed' \ owed

Stopped(d) == command = <<"off", d>> /\ command' = NoCommand /\ Claimed(d)

Vouched(d) == command = NoCommand /\ command' = NoCommand /\ Claimed(d)

SwitchedOn(d) == command # <<"on", d>> /\ command' = <<"on", d>>

CountingInit ==
    /\ stops = [d \in Load |-> 0]
    /\ vouchings = [d \in Load |-> 0]
    /\ ons = [d \in Load |-> 0]

Count ==
    /\ stops' = [d \in Load |-> stops[d] + IF Stopped(d) THEN 1 ELSE 0]
    /\ vouchings' = [d \in Load |-> vouchings[d] + IF Vouched(d) THEN 1 ELSE 0]
    /\ ons' = [d \in Load |-> ons[d] + IF SwitchedOn(d) THEN 1 ELSE 0]

Counting == CountingInit /\ [][Count]_<<vars, ledger>>

(* One stop is answered by at most one ON (RestoreTicket, and the checks   *)
(* of OnPermit against it), however often tickets are saved, lost, put     *)
(* back or rebuilt: the ONs of a load never outnumber its claims.          *)
OnsAreCovered == \A d \in Load : ons[d] <= stops[d] + vouchings[d]

(* A claim that still stands was counted and not used.                     *)
LedgerInv ==
    /\ {stops, vouchings, ons} \subseteq [Load -> Nat]
    /\ \A d \in Load :
          ons[d] + (IF d \in owed THEN 1 ELSE 0) <= stops[d] + vouchings[d]

-----------------------------------------------------------------------------
LEMMA LedgerInitially == Init /\ CountingInit => LedgerInv
  BY DEF CountingInit, Init, LedgerInv

(* A claim begins in one of two ways.                                      *)
LEMMA ClaimsBegin ==
    ASSUME Next, NEW d \in Load, Claimed(d)
    PROVE  (Stopped(d) \/ Vouched(d)) /\ ~SwitchedOn(d)
  <1>1. ASSUME NEW e \in Load, SwitchOff(e) \/ SwitchOn(e)
        PROVE  FALSE
    BY <1>1 DEF SwitchOff, SwitchOn, Claimed
  <1>2. ASSUME NEW e \in Load, Take(e)
        PROVE  Stopped(d) /\ command' = NoCommand
    BY <1>2 DEF Take, Claimed, Stopped
  <1>3. ASSUME NEW e \in Load, Vouch(e)
        PROVE  Vouched(d) /\ command' = NoCommand
    BY <1>3 DEF Vouch, Claimed, Vouched
  <1>4. ~GiveUp
    BY DEF GiveUp, Claimed
  <1>5. NoCommand # <<"on", d>>
    BY DEF NoCommand
  <1> QED
    BY <1>1, <1>2, <1>3, <1>4, <1>5 DEF Next, SwitchedOn

(* An ON uses up a claim that stood.                                       *)
LEMMA OnsUseClaims ==
    ASSUME Next, NEW d \in Load, SwitchedOn(d)
    PROVE  d \in owed /\ d \notin owed'
  <1>1. /\ NoCommand # <<"on", d>>
        /\ \A e : <<"off", e>> # <<"on", d>>
        /\ \A e : <<"on", e>> = <<"on", d>> => e = d
    BY DEF NoCommand
  <1>2. ASSUME NEW e \in Load, SwitchOff(e) \/ Take(e) \/ Vouch(e)
        PROVE  FALSE
    BY <1>1, <1>2 DEF SwitchOff, Take, Vouch, SwitchedOn
  <1>3. ~GiveUp
    BY <1>1 DEF GiveUp, SwitchedOn
  <1>4. ASSUME NEW e \in Load, SwitchOn(e)
        PROVE  d \in owed /\ d \notin owed'
    BY <1>1, <1>4 DEF SwitchOn, SwitchedOn
  <1> QED
    BY <1>2, <1>3, <1>4 DEF Next

(* What the contract allows to a load whose claim or command changes, also *)
(* when nothing does.                                                      *)
LEMMA ClaimsMove ==
    ASSUME [Next]_vars, NEW d \in Load
    PROVE  /\ d \in owed' /\ d \notin owed =>
                (Stopped(d) \/ Vouched(d)) /\ ~SwitchedOn(d)
           /\ SwitchedOn(d) => d \in owed /\ d \notin owed'
  <1>1. CASE Next
    BY <1>1, ClaimsBegin, OnsUseClaims DEF Claimed
  <1>2. CASE UNCHANGED vars
    BY <1>2 DEF vars, SwitchedOn
  <1> QED
    BY <1>1, <1>2

LEMMA LedgerStep ==
    ASSUME LedgerInv, [Next]_vars, [Count]_<<vars, ledger>>
    PROVE  LedgerInv'
  <1>1. CASE UNCHANGED <<vars, ledger>>
    BY <1>1 DEF LedgerInv, vars, ledger
  <1>2. CASE Count
    <2>1. {stops, vouchings, ons}' \subseteq [Load -> Nat]
      BY <1>2 DEF LedgerInv, Count
    <2>2. ASSUME NEW d \in Load
          PROVE  ons'[d] + (IF d \in owed' THEN 1 ELSE 0)
                    <= stops'[d] + vouchings'[d]
      <3>1. /\ {stops[d], vouchings[d], ons[d]} \subseteq Nat
            /\ ons[d] + (IF d \in owed THEN 1 ELSE 0) <= stops[d] + vouchings[d]
        BY DEF LedgerInv
      <3>2. /\ stops'[d] = stops[d] + IF Stopped(d) THEN 1 ELSE 0
            /\ vouchings'[d] = vouchings[d] + IF Vouched(d) THEN 1 ELSE 0
            /\ ons'[d] = ons[d] + IF SwitchedOn(d) THEN 1 ELSE 0
        BY <1>2 DEF Count
      <3> QED
        BY <3>1, <3>2, ClaimsMove
    <2> QED
      BY <2>1, <2>2 DEF LedgerInv
  <1> QED
    BY <1>1, <1>2

LEMMA LedgerHolds == Spec /\ Counting => []LedgerInv
  BY LedgerInitially, LedgerStep, PTL DEF Spec, Counting

(* Every program that keeps the contract (ContractIsKept of the three      *)
(* modules that refine it) answers a confirmed stop, or an operator's      *)
(* word, with at most one ON.                                              *)
THEOREM OneOnPerClaim == Spec /\ Counting => []OnsAreCovered
  <1>1. LedgerInv => OnsAreCovered
    <2> SUFFICES ASSUME LedgerInv, NEW d \in Load
                 PROVE  ons[d] <= stops[d] + vouchings[d]
      BY DEF OnsAreCovered
    <2>1. {stops[d], vouchings[d], ons[d]} \subseteq Nat
      BY DEF LedgerInv
    <2>2. ons[d] + (IF d \in owed THEN 1 ELSE 0) <= stops[d] + vouchings[d]
      BY DEF LedgerInv
    <2> QED
      BY <2>1, <2>2
  <1> QED
    BY LedgerHolds, <1>1, PTL
=============================================================================
