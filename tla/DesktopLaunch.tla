----------------------------- MODULE DesktopLaunch -----------------------------
(***************************************************************************)
(* A launch of the application on a machine that setup may be changing:    *)
(* main() runs the registration helper (CameraRegistrar), goes on whatever *)
(* came of it, binds its port and advertises it (Advertiser).              *)
(***************************************************************************)
EXTENDS CameraRegistrar, Advertiser

ASSUME AppCalls == "app" \in Callers \ Orphans

launchVars == <<vars, advertiserVars>>

LaunchInit == Init /\ AdvertiserInit

Launch(d) ==
    /\ process = "off" /\ BeginLaunch("app", d)
    /\ process' = "launching"
    /\ UNCHANGED <<bound, ready, discovery, callback, requests, answer, record>>

(* The helper is run before anything else. *)
Integrated == job["app"] = <<>>

Kill ==
    \/ \E c \in Orphans \cup {"setup"} : Killed(c) /\ UNCHANGED advertiserVars
    \/ Killed("app") /\ Off

ExitProcess == process = "quits" /\ Off /\ UNCHANGED vars

Machine ==
    /\ \/ \E d \in Dirs : BeginInstall(d) \/ BeginUninstall(d)
       \/ DeleteFiles \/ Settles
       \/ \E c \in Callers : Tool(c)
    /\ UNCHANGED advertiserVars

LaunchNext ==
    \/ \E d \in Dirs : Launch(d)
    \/ Kill \/ ExitProcess \/ Machine
    \/ Integrated /\ Advertises /\ UNCHANGED vars

LaunchSpec == LaunchInit /\ [][LaunchNext]_launchVars

-----------------------------------------------------------------------------
(* The advertiser's state, and that Windows owes it an answer to one         *)
(* registration at most, of which callbackPending_ keeps account: the        *)
(* request and its context are single fields that Windows still reads.       *)
Registrations == {i \in DOMAIN requests : requests[i] = "register"}

AdvertiserTypeOK ==
    /\ process \in {"off", "launching", "runs", "quits"}
    /\ bound \in BOOLEAN /\ ready \in BOOLEAN /\ callback \in BOOLEAN /\ record \in BOOLEAN
    /\ discovery \in {"WaitingForReceiver", "Starting", "Advertising", "Failed", "TestLoopback"}
    /\ requests \in Seq({"register", "withdraw"})
    /\ answer \in {"none", "ok", "failed"}
    /\ \A i, j \in Registrations : i = j
    /\ Registrations # {} => answer = "none"
    /\ callback <=> Registrations # {} \/ answer # "none"

(* restart()'s comment: never re-advertise a port nothing is listening on.   *)
(* While the application runs its record is on the link only if its port is  *)
(* bound, also after a failed bind and any number of retries.                *)
AdvertisedPortBound == record /\ process = "runs" => bound

(* The window says "Visible to nearby iPhones" only while the record is on   *)
(* the link: a retry's withdrawal is worked off before its registration.     *)
VisibleWhenSaid == discovery = "Advertising" => record

(* A failed advertisement of a bound port can be retried: nothing that       *)
(* restart() would wait for is left over from the failure.                   *)
RetryPossible == process = "runs" /\ bound /\ discovery = "Failed" => MayRestart

(* The advertisement, over answers that come late or not at all and retries   *)
(* in between: one request at a time (AdvertiserTypeOK), only for a bound    *)
(* port, visible when the window says so, and never beyond another retry.    *)
AdvertiserInv ==
    AdvertiserTypeOK /\ AdvertisedPortBound /\ VisibleWhenSaid /\ RetryPossible
=============================================================================
