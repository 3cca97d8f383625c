------------------------------ MODULE ControlPanel ------------------------------
(***************************************************************************)
(* PhoneController's camera controls (windows/app/phone_controller.cpp).   *)
(* A slider changes faster than the phone should be told: a change is kept *)
(* as pending and a single-shot timer sends what is pending when it fires. *)
(* One control stands for all of them.                                     *)
(***************************************************************************)
EXTENDS Naturals

CONSTANTS Values,     \* positions of the control
          Unknown,    \* no position
          Delay       \* the timer's interval

ASSUME UnknownApart == Values # {} /\ Unknown \notin Values
ASSUME DelayAssumption == Delay \in Nat \ {0}

VARIABLES
    chosen,    \* what the window shows: phoneZoom_, focus_, ...
    pending,   \* the field of pendingControls_
    timer,     \* what is left of controlTimer_, 0 when it is not active
    given      \* what the phone was last told in this session, if it arrived

panelVars == <<chosen, pending, timer, given>>

PanelInit ==
    /\ chosen = (CHOOSE v \in Values : TRUE)
    /\ pending = Unknown /\ timer = 0 /\ given = Unknown

(* scheduleControls does not restart a timer that is running. *)
Restarted == Delay   \* mutant: the timer is restarted by every change
Scheduled == IF timer = 0 THEN Delay ELSE timer

FirstKept(v) == IF pending = Unknown THEN v ELSE pending   \* mutant: the first change is sent
Merged(v) == v

(* setPhoneZoom, setFocus, ...: nothing happens when the value is the one   *)
(* shown.                                                                    *)
SetControl(v) ==
    /\ v # chosen
    /\ chosen' = v
    /\ pending' = Merged(v)
    /\ timer' = Scheduled
    /\ UNCHANGED given

TimerRuns ==
    /\ timer > 1
    /\ timer' = timer - 1
    /\ UNCHANGED <<chosen, pending, given>>

(* flushControls, when the timer fires: sent, or reported as failed. *)
FlushControls(sent) ==
    /\ timer = 1
    /\ timer' = 0
    /\ given' = IF sent THEN pending ELSE Unknown
    /\ pending' = Unknown
    /\ UNCHANGED chosen

(* The window has closed. *)
PanelCloses ==
    /\ chosen' = Unknown /\ pending' = Unknown /\ timer' = 0
    /\ given' = Unknown
=============================================================================
