--------------------------- MODULE CausalReadback ---------------------------
(***************************************************************************)
(* Which report may confirm which command (readback.py, states.py, and the *)
(* dispatch of _command_off and _command_on).  A logical load is a command *)
(* target and the members that must report; each of them moves on its own, *)
(* reports late, again or not at all, and Home Assistant stamps a report   *)
(* with the wall clock when it arrives.                                    *)
(***************************************************************************)
EXTENDS Naturals, Sequences

CONSTANTS
    Member,        \* device.readback_entities
    Target,        \* device.command_entity, perhaps a member
    IsClimate,     \* whether the target is a thermostat
    HasFallback,   \* whether emergency_off_entities are configured
    MaxAge,        \* _IDLE_RELAY_MAX_AGE_SECONDS in ticks
    MaxClock,      \* bound on the wall clock
    MaxCalls,      \* bound on the commands
    MaxMoves,      \* bound on moves by hand and settings of the clock
    MaxTransit,    \* bound on the reports of one entity under way
    Never          \* no stamp

Entity == Member \cup {Target}

ASSUME ConstantsAssumption ==
    /\ {IsClimate, HasFallback} \subseteq BOOLEAN
    /\ {MaxAge, MaxClock, MaxCalls, MaxMoves, MaxTransit} \subseteq Nat
    /\ Never \notin Nat

VARIABLES
    clock,      \* time.time(); it is set back only between commands
    relay,      \* what each entity really does
    transit,    \* reports that have not arrived
    ha,         \* hass.states: value and last_reported
    calls,      \* commands that entities may still obey
    wait,       \* the command under way and its CausalReadback
    spent,      \* commands, moves so far
    disturbed,  \* history: not this command alone decides what relays do
    lagging     \* history: when the group was last seen incomplete

vars == <<clock, relay, transit, ha, calls, wait, spent, disturbed, lagging>>

-----------------------------------------------------------------------------
Mode(e) == {"on", "off"} \cup (IF IsClimate /\ e = Target THEN {"idle"} ELSE {})

Value(e) == Mode(e) \cup {"unknown"}

Stamp == 0..MaxClock \cup {Never}

(* actuator_state_on is TRUE, or FALSE; unknown is neither.                *)
IsOn(v) == v \in {"on", "idle"}

Shows(v, want) == v # "unknown" /\ (IsOn(v) <=> want = "on")

Idle == [phase |-> "idle"]

Waiting == wait.phase = "waiting"

-----------------------------------------------------------------------------
(* Mutant of Causal: a report as old as the captured one will do.          *)
CausalOrSame(e) ==
    /\ ha[e].at # Never
    /\ ha[e].at <= clock

(* _causal_report: neither older than the command, nor the captured one.   *)
Causal(e) ==
    /\ ha[e].at # Never
    /\ wait.issued <= ha[e].at /\ ha[e].at <= clock
    /\ wait.previous[e] # Never => wait.previous[e] < ha[e].at

(* _confirmed_report, the ordinary way: every member, and there is one.    *)
GroupConfirms ==
    /\ Member # {}
    /\ \A e \in Member : Causal(e) /\ Shows(ha[e].value, wait.want)

(* _idle_climate_report: the thermostat is newly on and at its target, and *)
(* the relays, which nobody switched, are known to be off.                 *)
IdleConfirms ==
    /\ Member # {}
    /\ wait.want = "on" /\ IsClimate
    /\ Causal(Target) /\ ha[Target].value = "idle"
    /\ \A e \in Member \ {Target} :
          /\ ha[e].value = "off" /\ ha[e].at # Never
          /\ ha[e].at <= clock /\ clock <= ha[e].at + MaxAge

(* Mutant of Latest: the first report of the group.                        *)
Earliest(es) ==
    CHOOSE t \in {ha[e].at : e \in es} : \A e \in es : t <= ha[e].at

Latest(es) ==
    CHOOSE t \in {ha[e].at : e \in es} : \A e \in es : ha[e].at <= t

ConfirmedAt == Latest(IF IdleConfirms THEN Member \cup {Target} ELSE Member)

Complete ==
    \/ IdleConfirms
    \/ \A e \in Member :
          /\ ha[e].at # wait.previous[e] /\ ha[e].at # Never
          /\ Shows(ha[e].value, wait.want)

-----------------------------------------------------------------------------
Init ==
    /\ clock = 0
    /\ relay \in [Entity -> {"on", "off"}]
    /\ transit = [e \in Entity |-> <<>>]
    /\ ha \in [Entity -> {[value |-> "unknown", at |-> Never]}
                          \cup [value : {"on", "off"}, at : {0}]]
    /\ \A e \in Entity : ha[e].value \in {"unknown", relay[e]}
    /\ calls = {}
    /\ wait = Idle
    /\ spent = [calls |-> 0, moves |-> 0]
    /\ disturbed = FALSE
    /\ lagging = 0

-----------------------------------------------------------------------------
(* The world.                                                              *)

Tick ==
    /\ clock < MaxClock
    /\ clock' = clock + 1
    /\ lagging' = IF Waiting /\ ~Complete THEN clock' ELSE lagging
    /\ UNCHANGED <<relay, transit, ha, calls, wait, spent, disturbed>>

SetBack ==
    /\ wait = Idle
    /\ spent.moves < MaxMoves
    /\ spent' = [spent EXCEPT !.moves = @ + 1]
    /\ clock' \in {t \in 0..MaxClock : t < clock}
    /\ UNCHANGED <<relay, transit, ha, calls, wait, disturbed, lagging>>

(* Entity e takes up mode v, and its report is sent or lost.               *)
Moves(e, v) ==
    /\ v \in Mode(e) \ {relay[e]}
    /\ relay' = [relay EXCEPT ![e] = v]
    /\ \/ UNCHANGED transit
       \/ /\ Len(transit[e]) < MaxTransit
          /\ transit' = [transit EXCEPT ![e] = Append(@, v)]

ByHand(e, v) ==
    /\ spent.moves < MaxMoves
    /\ spent' = [spent EXCEPT !.moves = @ + 1]
    /\ Moves(e, v)
    /\ disturbed' = TRUE
    /\ UNCHANGED <<clock, ha, calls, wait, lagging>>

Obeys(e, v) ==
    /\ \E w \in calls : Shows(v, w)
    /\ Moves(e, v)
    /\ UNCHANGED <<clock, ha, calls, wait, spent, disturbed, lagging>>

(* What has not been obeyed by now never is.                               *)
CallsSettle ==
    /\ wait = Idle
    /\ calls # {}
    /\ calls' = {}
    /\ UNCHANGED <<clock, relay, transit, ha, wait, spent, disturbed, lagging>>

ReportsAgain(e) ==
    /\ Len(transit[e]) < MaxTransit
    /\ transit' = [transit EXCEPT ![e] = Append(@, relay[e])]
    /\ UNCHANGED <<clock, relay, ha, calls, wait, spent, disturbed, lagging>>

Arrives(e) ==
    /\ transit[e] # <<>>
    /\ transit' = [transit EXCEPT ![e] = Tail(@)]
    /\ ha' = [ha EXCEPT ![e] = [value |-> Head(transit[e]), at |-> clock]]
    /\ lagging' = IF Waiting /\ ~Complete THEN clock ELSE lagging
    /\ UNCHANGED <<clock, relay, calls, wait, spent, disturbed>>

BecomesUnavailable(e) ==
    /\ ha[e].value # "unknown"
    /\ ha' = [ha EXCEPT ![e] = [value |-> "unknown", at |-> clock]]
    /\ UNCHANGED <<clock, relay, transit, calls, wait, spent, disturbed>>
    /\ lagging' = IF Waiting /\ ~(Complete /\ Complete') THEN clock ELSE lagging

-----------------------------------------------------------------------------
(* A new CausalReadback and time.time(), then the call.                    *)
Captured(want, attempt) ==
    [phase |-> "waiting", want |-> want, attempt |-> attempt, issued |-> clock,
     previous |-> [e \in Entity |-> ha[e].at]]

(* Mutant of CapturedAgain: the fallback waits with the first readback.    *)
CapturedBefore == [wait EXCEPT !.attempt = 2]

CapturedAgain == Captured(wait.want, 2)

Disturbs(want) ==
    \/ calls \ {want} # {}
    \/ \E e \in Entity : transit[e] # <<>>

Command(want) ==
    /\ wait = Idle
    /\ spent.calls < MaxCalls
    /\ spent' = [spent EXCEPT !.calls = @ + 1]
    /\ wait' = Captured(want, 1)
    /\ calls' = calls \cup {want}
    /\ disturbed' = Disturbs(want)
    /\ lagging' = clock
    /\ UNCHANGED <<clock, relay, transit, ha>>

(* A poll that finds the report returns its stamp, the fence of the next   *)
(* decision; any other poll changes nothing.                               *)
Confirm ==
    /\ Waiting
    /\ GroupConfirms \/ IdleConfirms
    /\ wait' = [phase |-> "confirmed", want |-> wait.want, at |-> ConfirmedAt,
                idle |-> IdleConfirms]
    /\ UNCHANGED <<clock, relay, transit, ha, calls, spent, disturbed, lagging>>

(* Mutant of Fallback: once is not counted.                                *)
FallbackAgain ==
    /\ Waiting
    /\ HasFallback /\ wait.want = "off"
    /\ wait' = Captured("off", wait.attempt + 1)
    /\ disturbed' = Disturbs("off")
    /\ lagging' = clock
    /\ UNCHANGED <<clock, relay, transit, ha, calls, spent>>

(* The monotonic budget is used up, even if a report came since the last   *)
(* poll: an emergency OFF is repeated once, through the fallback entities. *)
Fallback ==
    /\ Waiting
    /\ HasFallback /\ wait.want = "off" /\ wait.attempt = 1
    /\ wait' = CapturedAgain
    /\ disturbed' = Disturbs("off")
    /\ lagging' = clock
    /\ UNCHANGED <<clock, relay, transit, ha, calls, spent>>

(* No fallback, not permitted any more, or the call itself raised.         *)
GiveUp ==
    /\ Waiting
    /\ wait' = Idle
    /\ UNCHANGED <<clock, relay, transit, ha, calls, spent, disturbed, lagging>>

Return ==
    /\ wait.phase = "confirmed"
    /\ wait' = Idle
    /\ UNCHANGED <<clock, relay, transit, ha, calls, spent, disturbed, lagging>>

-----------------------------------------------------------------------------
Next ==
    \/ Tick \/ SetBack \/ CallsSettle
    \/ \E e \in Entity :
          \/ ReportsAgain(e) \/ Arrives(e) \/ BecomesUnavailable(e)
          \/ \E v \in Mode(e) : ByHand(e, v) \/ Obeys(e, v)
    \/ \E want \in {"on", "off"} : Command(want)
    \/ Confirm \/ Fallback \/ GiveUp \/ Return

Spec == Init /\ [][Next]_vars

-----------------------------------------------------------------------------
Wait ==
    {Idle} \cup [phase : {"waiting"}, want : {"on", "off"}, attempt : 1..2,
                 issued : 0..MaxClock, previous : [Entity -> Stamp]]
           \cup [phase : {"confirmed"}, want : {"on", "off"}, at : 0..MaxClock,
                 idle : BOOLEAN]

TypeOK ==
    /\ clock \in 0..MaxClock
    /\ relay \in [Entity -> {"on", "off", "idle"}]
    /\ transit \in [Entity -> Seq({"on", "off", "idle"})]
    /\ ha \in [Entity -> [value : {"on", "off", "idle", "unknown"}, at : Stamp]]
    /\ calls \subseteq {"on", "off"}
    /\ wait \in Wait
    /\ spent \in [calls : 0..MaxCalls, moves : 0..MaxMoves]
    /\ disturbed \in BOOLEAN
    /\ lagging \in 0..MaxClock

(* A confirmed command was carried out: unless somebody else moved an      *)
(* entity, an opposite call was still to be obeyed, or an earlier report   *)
(* was still under way, every member, or the thermostat of an idle climate *)
(* load, really does what was asked, however many reports were lost.       *)
ConfirmedIsTrue ==
    [][wait'.phase = "confirmed" /\ Waiting /\ ~disturbed =>
         \A e \in IF wait'.idle THEN {Target} ELSE Member :
            Shows(relay[e], wait'.want)]_vars

(* "The logical device is confirmed only when its final member reports":   *)
(* at no time after the confirmed stamp, which is the fence for aggregate  *)
(* load reports, was the group seen incomplete.                            *)
FenceCoversGroup ==
    [][wait'.phase = "confirmed" /\ Waiting => wait'.at >= lagging]_vars
=============================================================================
