----------------------------- MODULE Ownership -----------------------------
(***************************************************************************)
(* What the controller promises about switching loads on, whatever it      *)
(* stores, decides and retries inside (the docstrings of requests.py and   *)
(* of RestoreTicket): a ticket records that the controller itself stopped  *)
(* the load, an intent that somebody wants it to run, "both are required   *)
(* for restore", and one stop is answered by at most one ON.               *)
(*                                                                         *)
(* owed is every load that may still be switched on, now or after a        *)
(* restart; wanted belongs to the owners and may change at any step;       *)
(* command is the one outstanding command, <<>> when there is none.        *)
(***************************************************************************)
CONSTANT Load

VARIABLES owed, wanted, command

vars == <<owed, wanted, command>>

NoCommand == <<>>

Init ==
    /\ owed = {}
    /\ wanted \subseteq Load
    /\ command = NoCommand

SwitchOff(d) ==
    /\ command = NoCommand
    /\ owed' = owed
    /\ command' = <<"off", d>>

(* A claim begins with the confirmation of an OFF.                         *)
Take(d) ==
    /\ command = <<"off", d>>
    /\ owed' = owed \cup {d}
    /\ command' = NoCommand

(* The only way to an ON, and it uses the claim up.                        *)
SwitchOn(d) ==
    /\ command = NoCommand
    /\ d \in owed \cap wanted
    /\ owed' = owed \ {d}
    /\ command' = <<"on", d>>

(* A command ends some other way, claims go away, or nothing happens.      *)
GiveUp ==
    /\ owed' \subseteq owed
    /\ command' \in {command, NoCommand}

(* An operator vouches for d: its claim stands, whatever happened before.  *)
Vouch(d) ==
    /\ command = NoCommand
    /\ owed' \subseteq owed \cup {d}
    /\ command' = NoCommand

Next ==
    /\ wanted' \subseteq Load
    /\ \/ \E d \in Load : SwitchOff(d) \/ Take(d) \/ SwitchOn(d) \/ Vouch(d)
       \/ GiveUp

Spec == Init /\ [][Next]_vars
=============================================================================
