------------------------------- MODULE Advertiser -------------------------------
(***************************************************************************)
(* BonjourAdvertiser (windows/app/bonjour_advertiser.cpp) in the process   *)
(* of one application, as main() uses it (windows/app/main.cpp): bind      *)
(* first, advertise second.  Windows's DNS client is external: it answers  *)
(* asynchronously, works off the requests it accepted in their order, and  *)
(* takes the record off the link when the process ends.                    *)
(***************************************************************************)
EXTENDS Sequences, Naturals

VARIABLES
    process,    \* "off", "launching", "runs" or "quits"
    bound,      \* the listener's port is bound
    ready,      \* receiverReady_
    discovery,  \* state_
    callback,   \* callbackPending_
    requests,   \* what Windows has accepted and not answered
    answer,     \* the queued finishRegistration, "none", "ok" or "failed"
    record      \* the service record is on the link

advertiserVars == <<process, bound, ready, discovery, callback, requests, answer, record>>

Off ==
    /\ process' = "off" /\ bound' = FALSE /\ ready' = FALSE
    /\ discovery' = "WaitingForReceiver" /\ callback' = FALSE
    /\ requests' = <<>> /\ answer' = "none" /\ record' = FALSE

AdvertiserInit ==
    /\ process = "off" /\ bound = FALSE /\ ready = FALSE
    /\ discovery = "WaitingForReceiver" /\ callback = FALSE
    /\ requests = <<>> /\ answer = "none" /\ record = FALSE

-----------------------------------------------------------------------------
(* start() with the requests that are already on their way: the record or    *)
(* its guard cannot be made, Windows refuses at once, or it will call back.  *)
Starts(before) ==
    \/ /\ discovery' = "Starting" /\ callback' = TRUE
       /\ requests' = Append(before, "register")
    \/ /\ discovery' = "Failed" /\ callback' = FALSE
       /\ requests' = before

(* listener.start and what main() tells the advertiser of it. *)
BindAdvertises ==
    /\ process = "launching"
    /\ process' = "runs" /\ bound' = TRUE /\ ready' = TRUE
    /\ Starts(requests)
    /\ UNCHANGED <<answer, record>>

BindLoopback ==
    /\ process = "launching"
    /\ process' = "runs" /\ bound' = TRUE
    /\ discovery' = "TestLoopback"
    /\ UNCHANGED <<ready, callback, requests, answer, record>>

BindFails ==
    /\ process = "launching"
    /\ process' = "runs" /\ ready' = FALSE
    /\ discovery' = "Failed"
    /\ UNCHANGED <<bound, callback, requests, answer, record>>

-----------------------------------------------------------------------------
(* restart(), the window's Retry.  An advertised record is withdrawn first,  *)
(* as far as the request for it can be made; its answer is not waited for.   *)
RestartsAlways == ~callback   \* mutant: whether the port is bound is not asked
RestartsTwice == ready        \* mutant: nor whether Windows owes an answer
MayRestart == ~callback /\ ready

WithdrawFirst == IF discovery = "Advertising" THEN {requests, Append(requests, "withdraw")}
                                              ELSE {requests}

RegistersFirst ==   \* mutant: the old record is withdrawn after the new one
    /\ process = "runs" /\ MayRestart /\ discovery # "TestLoopback"
    /\ discovery' = "Starting" /\ callback' = TRUE
    /\ requests' = Append(requests, "register")
                     \o (IF discovery = "Advertising" THEN <<"withdraw">> ELSE <<>>)
    /\ UNCHANGED <<process, bound, ready, answer, record>>
Restart ==
    /\ process = "runs" /\ MayRestart /\ discovery # "TestLoopback"
    /\ \E before \in WithdrawFirst : Starts(before)
    /\ UNCHANGED <<process, bound, ready, answer, record>>

(* registrationComplete posts finishRegistration to the window's thread. *)
DnsRegisters ==
    /\ requests # <<>> /\ Head(requests) = "register"
    /\ requests' = Tail(requests)
    /\ \/ record' = TRUE /\ answer' = "ok"
       \/ UNCHANGED record /\ answer' = "failed"
    /\ UNCHANGED <<process, bound, ready, discovery, callback>>

DnsWithdraws ==
    /\ requests # <<>> /\ Head(requests) = "withdraw"
    /\ requests' = Tail(requests)
    /\ record' \in {FALSE, record}
    /\ UNCHANGED <<process, bound, ready, discovery, callback, answer>>

StillPending(ok) == ~ok   \* mutant: a failure leaves callbackPending_ set
NonePending(ok) == FALSE

FinishRegistration ==
    /\ process = "runs" /\ answer # "none" /\ callback
    /\ callback' = NonePending(answer = "ok")
    /\ discovery' = IF answer = "ok" THEN "Advertising" ELSE "Failed"
    /\ answer' = "none"
    /\ UNCHANGED <<process, bound, ready, requests, record>>

(* The event loop ends, listener.stop() closes the port, and the destructor  *)
(* cancels what is pending.                                                  *)
QuitApplication ==
    /\ process = "runs"
    /\ process' = "quits" /\ bound' = FALSE
    /\ UNCHANGED <<ready, discovery, callback, requests, answer, record>>

Advertises ==
    \/ BindAdvertises \/ BindLoopback \/ BindFails \/ Restart
    \/ DnsRegisters \/ DnsWithdraws \/ FinishRegistration \/ QuitApplication

=============================================================================
