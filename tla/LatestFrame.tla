------------------------------ MODULE LatestFrame ------------------------------
(***************************************************************************)
(* What the frame ring promises its cameras, without slots, sequence       *)
(* numbers, handles or guards: a register that holds the newest frame of   *)
(* the current camera session.  A read returns one whole frame of that     *)
(* session, no older than the newest one announced when the read began and *)
(* at most one ahead of the announcements; or it returns nothing.          *)
(***************************************************************************)
EXTENDS Naturals

CONSTANTS Cameras

VARIABLES
    session,  \* the camera session's generation
    newest,   \* the number of its newest announced frame, 0 for none
    call,     \* away, idle, reading or done
    low,      \* the newest frame when the call began
    frame     \* what the call returned

vars == <<session, newest, call, low, frame>>

Nothing == [seq |-> 0, gen |-> 0]
Present(c) == call[c] # "away"

Init ==
    /\ session = 0 /\ newest = 0
    /\ call = [c \in Cameras |-> "away"]
    /\ low = [c \in Cameras |-> 0]
    /\ frame = [c \in Cameras |-> Nothing]

(* A session is replaced only when no camera but c could notice. *)
Replaced(c) ==
    /\ \A d \in Cameras \ {c} : ~Present(d)
    /\ session' \in Nat /\ newest' = 0

Arrive(c) ==
    /\ ~Present(c)
    /\ call' = [call EXCEPT ![c] = "idle"]
    /\ UNCHANGED <<session, newest>> \/ Replaced(c)
    /\ UNCHANGED <<low, frame>>

Depart(c) ==
    /\ Present(c)
    /\ call' = [call EXCEPT ![c] = "away"]
    /\ low' = [low EXCEPT ![c] = 0]
    /\ frame' = [frame EXCEPT ![c] = Nothing]
    /\ UNCHANGED <<session, newest>> \/ Replaced(c)

(* The section goes with its last user. *)
Vanish ==
    /\ \A c \in Cameras : ~Present(c)
    /\ session' = 0 /\ newest' = 0
    /\ UNCHANGED <<call, low, frame>>

Announce ==
    /\ newest' = newest + 1
    /\ UNCHANGED <<session, call, low, frame>>

Begin(c) ==
    /\ call[c] = "idle"
    /\ call' = [call EXCEPT ![c] = "reading"]
    /\ low' = [low EXCEPT ![c] = newest]
    /\ UNCHANGED <<session, newest, frame>>

Deliver(c) ==
    /\ call[c] = "reading"
    /\ call' = [call EXCEPT ![c] = "done"]
    /\ \E n \in (low[c] .. newest + 1) \ {0} :
         frame' = [frame EXCEPT ![c] = [seq |-> n, gen |-> session]]
    /\ UNCHANGED <<session, newest, low>>

Return(c) ==
    /\ call[c] \in {"reading", "done"}
    /\ call' = [call EXCEPT ![c] = "idle"]
    /\ low' = [low EXCEPT ![c] = 0]
    /\ frame' = [frame EXCEPT ![c] = Nothing]
    /\ UNCHANGED <<session, newest>>

Next ==
    \/ Vanish \/ Announce
    \/ \E c \in Cameras : Arrive(c) \/ Depart(c) \/ Begin(c) \/ Deliver(c)
                            \/ Return(c)

Spec == Init /\ [][Next]_vars
=============================================================================
