---------------------------- MODULE DesktopLaunchProofs ----------------------------
(***************************************************************************)
(* Proofs about DesktopLaunch, for every set of directories, of callers    *)
(* and orphans, every choice of elevated ones and any number of jobs at    *)
(* once: whatever fails or is killed, a camera that Windows lists can be   *)
(* activated unless jobs overlapped and none has repaired it, an uninstall *)
(* that was alone leaves nothing behind, and the advertisement is truthful *)
(* and can be retried.                                                     *)
(*                                                                         *)
(* A job that is on record as the sole one is alone with the machine       *)
(* (SoleInv), so that what a step of its tool found or wrote still holds   *)
(* at the next one (MachineOk).  Any other job has mixed on record.        *)
(***************************************************************************)
EXTENDS DesktopLaunch, TLAPS

(* What is left of the jobs. *)
AddOnly == <<"firewall-add">>
UnregisterOn == <<"unregister", "firewall-remove", "delete">>
RemoveOn == <<"firewall-remove", "delete">>
DeleteOnly == <<"delete">>
RemoveOnly == <<"firewall-remove">>

SetupJobs == {<<>>, InstallJob, AddOnly, UninstallJob, UnregisterOn, RemoveOn, DeleteOnly,
              FallbackJob, RemoveOnly}
LaunchJobs == {<<>>, LaunchJob, InstallJob, AddOnly}
OrphanJobs == {<<>>} \cup {<<mode>> : mode \in Modes \ {"delete"}}
Cleared == {RemoveOn, DeleteOnly, RemoveOnly}

(* The machine's and the callers' variables, the jobs apart. *)
MachineType ==
    /\ clsid \in BOOLEAN /\ path \in Dirs \cup {None}
    /\ camera \in {"absent", "installed", "lingering"}
    /\ rule \in Dirs \cup {None, "foreign"} /\ files \in SUBSET Dirs
ToolType ==
    /\ undo \in [Callers -> BOOLEAN] /\ dir \in [Callers -> Dirs]
    /\ at \in [Callers -> Places] /\ prev \in [Callers -> Dirs \cup {None}]
    /\ sole \in Callers \cup {None} /\ mixed \in BOOLEAN

(* A caller has what is left of one of its jobs, an orphan the mode it runs. *)
JobInv ==
    /\ job \in [Callers -> SetupJobs \cup LaunchJobs \cup OrphanJobs]
    /\ job["setup"] \in SetupJobs
    /\ \A c \in Callers : c # "setup" => job[c] \in IF c \in Orphans THEN OrphanJobs ELSE LaunchJobs

(* The sole job is alone with the machine, and whoever is not has mixed it. *)
SoleInv ==
    /\ sole # None => sole \in Elevated /\ \A d \in Elevated : d # sole => job[d] = <<>>
    /\ ~mixed => \A c \in Elevated : job[c] # <<>> => sole = c

(* The tool is only past its beginning for an elevated caller, in the mode  *)
(* its place belongs to.                                                    *)
PlaceOk(c) ==
    /\ at[c] # "idle" => c \in Elevated
    /\ at[c] \in {"key", "path", "model", "start", "link", "verify", "restoreKey",
                  "restorePath", "restoreModel", "dropPath", "dropKey"} => Mode(c) = "register"
    /\ at[c] \in {"create", "find", "remove", "confirm"} => Mode(c) \in {"register", "unregister"}
    /\ at[c] \in {"delPath", "delKey"} => Mode(c) = "unregister"
    /\ at[c] \in {"ruleAdd", "ruleCheck", "ruleUndo", "ruleRecheck"} => Mode(c) = "firewall-add"
    /\ at[c] = "ruleDrop" => Mode(c) \in {"firewall-add", "firewall-remove"}

(* Up to its end a registration that is alone keeps the files it found and  *)
(* what it wrote, and the registry is only changed back with the camera's   *)
(* absence confirmed.                                                       *)
Registering(c, places) == at[c] \in places \/ (at[c] = "create" /\ Mode(c) = "register")

MachineOk(c) ==
    sole = c =>
      /\ Registering(c, {"key", "path", "model", "start", "link", "verify"}) => dir[c] \in files
      /\ Registering(c, {"path", "model", "start", "link", "verify"}) => clsid
      /\ Registering(c, {"model", "start", "link", "verify"}) => path = dir[c]
      /\ at[c] \in {"delPath", "delKey", "dropPath", "dropKey", "restoreKey", "restorePath",
                    "restoreModel"} => camera = "absent"

CallerInv == \A c \in Callers : PlaceOk(c) /\ MachineOk(c)

(* Past --unregister an uninstall that is alone has cleared the registry,   *)
(* and past --firewall-remove the rule as well.                             *)
ClearedInv ==
    sole = "setup" =>
      /\ job["setup"] \in Cleared => camera = "absent" /\ ~clsid /\ path = None
      /\ job["setup"] = DeleteOnly => rule = None

RInv == MachineType /\ ToolType /\ JobInv /\ SoleInv /\ CallerInv /\ ClearedInv /\ ActivatableCamera

(* What the advertiser knows of Windows's answers. *)
Untouched ==
    /\ ~bound /\ ~ready /\ ~record /\ discovery = "WaitingForReceiver"
    /\ requests = <<>> /\ answer = "none"

FlagType == bound \in BOOLEAN /\ ready \in BOOLEAN /\ callback \in BOOLEAN /\ record \in BOOLEAN
ValueType ==
    /\ process \in {"off", "launching", "runs", "quits"}
    /\ discovery \in {"WaitingForReceiver", "Starting", "Advertising", "Failed", "TestLoopback"}
    /\ requests \in Seq({"register", "withdraw"}) /\ answer \in {"none", "ok", "failed"}

(* A registration that Windows has is the last of its requests and the one  *)
(* that callbackPending_ stands for.                                        *)
Owed(reqs, owed) ==
    /\ \A i \in 1..Len(reqs) : reqs[i] = "register" => i = Len(reqs) /\ owed
    /\ owed => reqs # <<>> /\ reqs[Len(reqs)] = "register"

AnswerInv ==
    /\ Owed(requests, callback /\ answer = "none")
    /\ callback <=> discovery = "Starting"
    /\ answer # "none" => callback /\ requests = <<>>
    /\ answer = "ok" => record
    /\ discovery = "Advertising" => record /\ requests = <<>>
BoundInv ==
    /\ process \in {"off", "launching"} => Untouched
    /\ process = "runs" /\ bound => ready \/ discovery = "TestLoopback"
    /\ process = "runs" /\ ~bound => ~ready /\ ~record /\ requests = <<>> /\ answer = "none"

AInv == FlagType /\ ValueType /\ AnswerInv /\ BoundInv

-----------------------------------------------------------------------------
(* The advertiser's queue of requests *)
LEMMA OwedAppend ==
  ASSUME NEW reqs \in Seq({"register", "withdraw"}), Owed(reqs, FALSE)
  PROVE  /\ Append(reqs, "register") \in Seq({"register", "withdraw"})
         /\ Append(reqs, "withdraw") \in Seq({"register", "withdraw"})
         /\ Owed(Append(reqs, "register"), TRUE) /\ Owed(Append(reqs, "withdraw"), FALSE)
  <1>1. PICK n \in Nat : n = Len(reqs)
    OBVIOUS
  <1>2. \A i \in 1..n : reqs[i] # "register"
    BY <1>1 DEF Owed
  <1>3. PICK r, w : r = Append(reqs, "register") /\ w = Append(reqs, "withdraw")
    OBVIOUS
  <1>4. /\ r \in Seq({"register", "withdraw"}) /\ w \in Seq({"register", "withdraw"})
        /\ Len(r) = n + 1 /\ Len(w) = n + 1 /\ r[n + 1] = "register" /\ w[n + 1] = "withdraw"
        /\ \A i \in 1..n : r[i] = reqs[i] /\ w[i] = reqs[i]
        /\ r # <<>>
    BY <1>1, <1>3
  <1>5. \A i \in 1..n + 1 : i \in 1..n \/ i = n + 1
    OBVIOUS
  <1> QED BY <1>2, <1>3, <1>4, <1>5 DEF Owed

LEMMA OwedTail ==
  ASSUME NEW reqs \in Seq({"register", "withdraw"}), reqs # <<>>, NEW owed \in BOOLEAN,
         Owed(reqs, owed)
  PROVE  /\ Tail(reqs) \in Seq({"register", "withdraw"})
         /\ Head(reqs) = "register" => Tail(reqs) = <<>> /\ owed
         /\ Head(reqs) = "withdraw" => Owed(Tail(reqs), owed)
  <1>1. PICK n \in Nat : n = Len(reqs) - 1
    OBVIOUS
  <1>2. PICK rest : rest = Tail(reqs)
    OBVIOUS
  <1>3. /\ rest \in Seq({"register", "withdraw"}) /\ Len(rest) = n /\ Len(reqs) = n + 1
        /\ Head(reqs) = reqs[1] /\ \A i \in 1..n : rest[i] = reqs[i + 1]
        /\ 1 \in 1..n + 1
    BY <1>1, <1>2
  <1>4. \A q \in Seq({"register", "withdraw"}) : q = <<>> <=> Len(q) = 0
    OBVIOUS
  <1>5. ASSUME Head(reqs) = "register" PROVE rest = <<>> /\ owed
    <2>1. 1 = n + 1 /\ owed
      BY <1>3, <1>5 DEF Owed
    <2> QED BY <1>3, <1>4, <2>1
  <1>6. ASSUME Head(reqs) = "withdraw" PROVE Owed(rest, owed)
    <2>1. ASSUME NEW i \in 1..n, rest[i] = "register" PROVE i = n /\ owed
      <3>1. i + 1 \in 1..n + 1 /\ reqs[i + 1] = "register"
        BY <1>3, <2>1
      <3>2. i + 1 = n + 1 /\ owed
        BY <1>3, <3>1 DEF Owed
      <3> QED BY <3>2
    <2>2. ASSUME owed PROVE rest # <<>> /\ rest[n] = "register"
      <3>1. reqs[n + 1] = "register"
        BY <1>3, <2>2 DEF Owed
      <3>2. n # 0
        BY <1>3, <1>6, <3>1
      <3> QED BY <1>3, <1>4, <3>1, <3>2
    <2> QED BY <1>3, <2>1, <2>2 DEF Owed
  <1> QED BY <1>2, <1>3, <1>5, <1>6

LEMMA OwedNothing == Owed(<<>>, FALSE)
  BY DEF Owed

(* The state of a process that is not there *)
LEMMA OffInv == Off => AInv'
  <1> SUFFICES ASSUME Off PROVE AInv'
    OBVIOUS
  <1>1. /\ process' = "off" /\ ~bound' /\ ~ready' /\ discovery' = "WaitingForReceiver"
        /\ ~callback' /\ requests' = <<>> /\ answer' = "none" /\ ~record'
    BY DEF Off
  <1>2. FlagType'
    BY Zenon DEF Off, FlagType
  <1>3. ValueType'
    BY <1>1 DEF ValueType
  <1>4. AnswerInv'
    BY <1>1 DEF AnswerInv, Owed
  <1>5. BoundInv'
    BY <1>1 DEF BoundInv, Untouched
  <1> QED BY <1>2, <1>3, <1>4, <1>5 DEF AInv

(* start() from a queue without a registration *)
LEMMA StartsInv ==
  ASSUME NEW before \in Seq({"register", "withdraw"}), Owed(before, FALSE), answer = "none",
         process' = "runs", bound', ready', UNCHANGED <<answer, record>>, FlagType, ValueType,
         Starts(before)
  PROVE  AInv'
  <1>1. FlagType'
    BY Zenon DEF Starts, FlagType
  <1>2. /\ requests' \in Seq({"register", "withdraw"}) /\ answer' = "none"
        /\ \/ discovery' = "Starting" /\ callback' /\ Owed(requests', TRUE)
           \/ discovery' = "Failed" /\ ~callback' /\ Owed(requests', FALSE)
    BY OwedAppend DEF Starts
  <1>3. Owed(requests', callback' /\ answer' = "none")
    BY <1>2 DEF Owed
  <1>4. ValueType'
    BY <1>2 DEF ValueType
  <1>5. AnswerInv'
    BY <1>2, <1>3 DEF AnswerInv
  <1>6. BoundInv'
    BY DEF BoundInv
  <1> QED BY <1>1, <1>4, <1>5, <1>6 DEF AInv

LEMMA AdvertisesInv == AInv /\ Advertises => AInv'
  <1> SUFFICES ASSUME AInv, Advertises PROVE AInv'
    OBVIOUS
  <1>1. requests \in Seq({"register", "withdraw"}) /\ FlagType /\ ValueType
    BY DEF AInv, ValueType
  <1>2. ~callback \/ answer # "none" => Owed(requests, FALSE)
    BY DEF AInv, AnswerInv, Owed
  <1>3. CASE BindAdvertises
    <2>1. answer = "none" /\ requests = <<>>
      BY <1>3 DEF BindAdvertises, AInv, BoundInv, Untouched
    <2> QED BY <1>1, <1>3, <2>1, StartsInv, OwedNothing DEF BindAdvertises
  <1>4. CASE BindLoopback \/ BindFails
    <2>1. Untouched /\ ~callback
      BY <1>4 DEF BindLoopback, BindFails, AInv, BoundInv, AnswerInv, Untouched
    <2>2. FlagType'
      BY <1>1, <1>4, Zenon DEF BindLoopback, BindFails, FlagType
    <2>3. /\ process' = "runs" /\ UNCHANGED <<callback, requests, answer, record>>
          /\ \/ bound' /\ discovery' = "TestLoopback"
             \/ ~bound' /\ ~ready' /\ discovery' = "Failed"
      BY <1>4, <2>1 DEF BindLoopback, BindFails, Untouched
    <2>4. ValueType'
      BY <1>1, <2>3 DEF ValueType
    <2>5. AnswerInv'
      BY <2>1, <2>3 DEF AInv, AnswerInv, Untouched
    <2>6. BoundInv'
      BY <2>1, <2>3 DEF BoundInv, Untouched
    <2> QED BY <2>2, <2>4, <2>5, <2>6 DEF AInv
  <1>5. CASE Restart
    <2>1. PICK before \in WithdrawFirst : Starts(before)
      BY <1>5 DEF Restart
    <2>2. ~callback /\ ready /\ process = "runs" /\ UNCHANGED <<process, bound, ready, answer, record>>
      BY <1>5 DEF Restart, MayRestart
    <2>3. answer = "none" /\ bound
      BY <2>2 DEF AInv, AnswerInv, BoundInv
    <2>4. before \in Seq({"register", "withdraw"}) /\ Owed(before, FALSE)
      BY <1>1, <1>2, <2>1, <2>2, OwedAppend DEF WithdrawFirst
    <2> QED BY <1>1, <2>1, <2>2, <2>3, <2>4, StartsInv
  <1>6. CASE DnsRegisters
    <2>1. /\ requests # <<>> /\ Head(requests) = "register" /\ requests' = Tail(requests)
          /\ \/ record' /\ answer' = "ok"
             \/ record' = record /\ answer' = "failed"
          /\ UNCHANGED <<process, bound, ready, discovery, callback>>
      BY <1>6 DEF DnsRegisters
    <2>2. requests' = <<>> /\ callback
      BY <1>1, <2>1, OwedTail DEF AInv, AnswerInv
    <2>3. FlagType'
      BY <1>1, <1>6, Zenon DEF DnsRegisters, FlagType
    <2>4. ValueType'
      BY <1>1, <2>1, <2>2 DEF ValueType
    <2>5. AnswerInv'
      BY <2>1, <2>2 DEF AInv, AnswerInv, Owed
    <2>6. BoundInv'
      BY <2>1, <2>2 DEF AInv, BoundInv, Untouched
    <2> QED BY <2>3, <2>4, <2>5, <2>6 DEF AInv
  <1>7. CASE DnsWithdraws
    <2>1. /\ requests # <<>> /\ Head(requests) = "withdraw" /\ requests' = Tail(requests)
          /\ UNCHANGED <<process, bound, ready, discovery, callback, answer>>
      BY <1>7 DEF DnsWithdraws
    <2>2. /\ requests' \in Seq({"register", "withdraw"}) /\ answer = "none"
          /\ Owed(requests', callback /\ answer = "none") /\ discovery # "Advertising"
      <3>1. answer = "none" /\ discovery # "Advertising"
        BY <2>1 DEF AInv, AnswerInv
      <3>2. (callback /\ answer = "none") \in BOOLEAN /\ Owed(requests, callback /\ answer = "none")
        BY DEF AInv, AnswerInv
      <3> QED BY <1>1, <2>1, <3>1, <3>2, OwedTail
    <2>3. FlagType'
      BY <1>1, <1>7, Zenon DEF DnsWithdraws, FlagType
    <2>4. ValueType'
      BY <1>1, <2>1, <2>2 DEF ValueType
    <2>5. AnswerInv'
      BY <2>1, <2>2 DEF AInv, AnswerInv
    <2>6. BoundInv'
      BY <2>1 DEF AInv, BoundInv, Untouched
    <2> QED BY <2>3, <2>4, <2>5, <2>6 DEF AInv
  <1>8. CASE FinishRegistration
    <2>1. /\ process = "runs" /\ answer # "none" /\ ~callback' /\ answer' = "none"
          /\ discovery' = IF answer = "ok" THEN "Advertising" ELSE "Failed"
          /\ UNCHANGED <<process, bound, ready, requests, record>>
      BY <1>8 DEF FinishRegistration, NonePending
    <2>2. requests = <<>> /\ callback /\ (answer = "ok" => record)
      BY <2>1 DEF AInv, AnswerInv
    <2>3. FlagType'
      BY <1>1, <1>8, Zenon DEF FinishRegistration, NonePending, FlagType
    <2>4. ValueType'
      BY <1>1, <2>1 DEF ValueType
    <2>5. AnswerInv'
      BY <2>1, <2>2 DEF AnswerInv, Owed
    <2>6. BoundInv'
      BY <2>1, <2>2 DEF AInv, BoundInv, AnswerInv
    <2> QED BY <2>3, <2>4, <2>5, <2>6 DEF AInv
  <1>9. CASE QuitApplication
    <2>1. FlagType'
      BY <1>1, <1>9, Zenon DEF QuitApplication, FlagType
    <2>2. ValueType' /\ AnswerInv' /\ BoundInv'
      BY <1>1, <1>9 DEF QuitApplication, ValueType, AInv, AnswerInv, BoundInv
    <2> QED BY <2>1, <2>2 DEF AInv
  <1> QED BY <1>3, <1>4, <1>5, <1>6, <1>7, <1>8, <1>9 DEF Advertises

LEMMA AdvertiserInit0 == LaunchInit => AInv
  <1> SUFFICES ASSUME AdvertiserInit PROVE AInv
    BY DEF LaunchInit
  <1>1. FlagType
    BY Zenon DEF AdvertiserInit, FlagType
  <1>2. ValueType /\ AnswerInv /\ BoundInv
    BY DEF AdvertiserInit, ValueType, AnswerInv, BoundInv, Untouched, Owed
  <1> QED BY <1>1, <1>2 DEF AInv

LEMMA AdvertiserNext == AInv /\ [LaunchNext]_launchVars => AInv'
  <1> SUFFICES ASSUME AInv, [LaunchNext]_launchVars PROVE AInv'
    OBVIOUS
  <1>1. ASSUME UNCHANGED advertiserVars PROVE AInv'
    BY <1>1 DEF advertiserVars, AInv, FlagType, ValueType, AnswerInv, BoundInv, Untouched
  <1>2. ASSUME NEW d \in Dirs, Launch(d) PROVE AInv'
    <2>1. /\ process = "off" /\ process' = "launching"
          /\ UNCHANGED <<bound, ready, discovery, callback, requests, answer, record>>
      BY <1>2 DEF Launch
    <2> QED BY <2>1 DEF AInv, FlagType, ValueType, AnswerInv, BoundInv, Untouched
  <1>3. CASE Kill \/ ExitProcess \/ Machine
    BY <1>1, <1>3, OffInv DEF Kill, ExitProcess, Machine
  <1>4. CASE Advertises
    BY <1>4, AdvertisesInv
  <1>5. CASE UNCHANGED launchVars
    BY <1>1, <1>5 DEF launchVars
  <1> QED BY <1>2, <1>3, <1>4, <1>5 DEF LaunchNext

(* The advertisement: Windows has one registration at most and an answer to   *)
(* it is awaited exactly then, only a bound port is advertised, the window    *)
(* says "Visible" only with the record on the link, and a failure of a bound  *)
(* port can always be retried.                                                *)
THEOREM AdvertiserSafe == LaunchSpec => []AdvertiserInv
  <1>1. AInv => AdvertiserInv
    <2> SUFFICES ASSUME AInv PROVE AdvertiserInv
      OBVIOUS
    <2>1. requests \in Seq({"register", "withdraw"}) /\ DOMAIN requests = 1..Len(requests)
      BY DEF AInv, ValueType
    <2>2. Owed(requests, callback /\ answer = "none")
      BY DEF AInv, AnswerInv
    <2>3. \A i, j \in Registrations : i = j
      <3>1. \A i \in Registrations : i = Len(requests)
        BY <2>1, <2>2 DEF Registrations, Owed
      <3> QED BY <3>1, Zenon
    <2>4. Registrations # {} => callback /\ answer = "none"
      BY <2>1, <2>2 DEF Registrations, Owed
    <2>5. callback /\ answer = "none" => Registrations # {}
      <3> SUFFICES ASSUME callback, answer = "none" PROVE Registrations # {}
        OBVIOUS
      <3>1. requests # <<>> /\ requests[Len(requests)] = "register"
        BY <2>2 DEF Owed
      <3>2. Len(requests) \in 1..Len(requests)
        BY <2>1, <3>1
      <3> QED BY <2>1, <3>1, <3>2 DEF Registrations
    <2>6. AdvertiserTypeOK
      BY <2>3, <2>4, <2>5 DEF AdvertiserTypeOK, AInv, FlagType, ValueType, AnswerInv
    <2>7. AdvertisedPortBound /\ VisibleWhenSaid /\ RetryPossible
      BY DEF AdvertisedPortBound, VisibleWhenSaid, RetryPossible, MayRestart, AInv, AnswerInv,
             BoundInv, FlagType
    <2> QED BY <2>6, <2>7 DEF AdvertiserInv
  <1> QED BY <1>1, AdvertiserInit0, AdvertiserNext, PTL DEF LaunchSpec

-----------------------------------------------------------------------------
(* The jobs, their first mode and what follows it *)
LEMMA JobModes ==
  /\ InstallJob # <<>> /\ Head(InstallJob) = "register" /\ Tail(InstallJob) = AddOnly
  /\ AddOnly # <<>> /\ Head(AddOnly) = "firewall-add" /\ Tail(AddOnly) = <<>>
  /\ UninstallJob # <<>> /\ Head(UninstallJob) = "preflight" /\ Tail(UninstallJob) = UnregisterOn
  /\ UnregisterOn # <<>> /\ Head(UnregisterOn) = "unregister" /\ Tail(UnregisterOn) = RemoveOn
  /\ RemoveOn # <<>> /\ Head(RemoveOn) = "firewall-remove" /\ Tail(RemoveOn) = DeleteOnly
  /\ DeleteOnly # <<>> /\ Head(DeleteOnly) = "delete" /\ Tail(DeleteOnly) = <<>>
  /\ FallbackJob # <<>> /\ Head(FallbackJob) = "unregister" /\ Tail(FallbackJob) = RemoveOnly
  /\ RemoveOnly # <<>> /\ Head(RemoveOnly) = "firewall-remove" /\ Tail(RemoveOnly) = <<>>
  /\ LaunchJob # <<>> /\ Head(LaunchJob) = "status" /\ Tail(LaunchJob) = InstallJob
  BY DEF InstallJob, AddOnly, UninstallJob, UnregisterOn, RemoveOn, DeleteOnly, FallbackJob,
         RemoveOnly, LaunchJob

LEMMA JobsApart ==
  /\ RemoveOn # DeleteOnly /\ RemoveOnly # DeleteOnly
  /\ \A j \in SetupJobs : j # <<>> /\ Head(j) = "delete" => j = DeleteOnly
  /\ \A j \in Cleared : j # <<>> /\ Head(j) \in {"firewall-remove", "delete"}
  /\ \A j \in {<<>>, InstallJob, AddOnly, UninstallJob, UnregisterOn, FallbackJob} : j \notin Cleared
  <1>1. /\ RemoveOn # DeleteOnly /\ RemoveOnly # DeleteOnly
        /\ \A j \in SetupJobs : j # <<>> /\ Head(j) = "delete" => j = DeleteOnly
        /\ \A j \in Cleared : j # <<>> /\ Head(j) \in {"firewall-remove", "delete"}
    BY JobModes DEF SetupJobs, Cleared
  <1> QED BY <1>1, JobModes

LEMMA JobsTyped == SetupJobs \cup LaunchJobs \cup OrphanJobs \subseteq Seq(Modes)
  <1>1. SetupJobs \cup LaunchJobs \subseteq Seq(Modes)
    BY DEF SetupJobs, LaunchJobs, Modes, InstallJob, AddOnly, UninstallJob, UnregisterOn, RemoveOn,
           DeleteOnly, FallbackJob, RemoveOnly, LaunchJob
  <1>2. ASSUME NEW mode \in Modes PROVE <<mode>> \in Seq(Modes)
    OBVIOUS
  <1>3. \A j \in OrphanJobs : j \in Seq(Modes)
    <2>1. <<>> \in Seq(Modes)
      OBVIOUS
    <2> QED BY <1>2, <2>1, Zenon DEF OrphanJobs
  <1> QED BY <1>1, <1>3, Zenon

LEMMA ModeNone == ASSUME NEW c, job[c] = <<>> PROVE Mode(c) = "none"
  BY DEF Mode

LEMMA Working == ASSUME NEW c, Mode(c) # "none" PROVE job[c] # <<>>
  BY DEF Mode

(* What a caller goes on with.  It only gets to a job of Cleared when       *)
(* --unregister succeeded, or from another one.                             *)
LEMMA ExitFacts ==
  ASSUME JobInv, SoleInv, ToolType, NEW c \in Callers, NEW ok \in BOOLEAN, job[c] # <<>>,
         Exit(c, ok)
  PROVE  /\ JobInv' /\ SoleInv' /\ ToolType'
         /\ at' = [at EXCEPT ![c] = "idle"] /\ UNCHANGED <<dir, sole>>
         /\ mixed' = (mixed /\ ~Repairs(c, ok))
         /\ \A d \in Callers : d # c => job'[d] = job[d]
         /\ c = "setup" /\ job'["setup"] \in Cleared
               => ok /\ \/ Mode(c) = "unregister" /\ job'["setup"] # DeleteOnly
                        \/ Mode(c) = "firewall-remove" /\ job["setup"] \in Cleared
  <1>1. PICK new : new = AfterExit(c, ok)
    OBVIOUS
  <1>2. /\ at' = [at EXCEPT ![c] = "idle"] /\ UNCHANGED <<dir, sole>>
        /\ job' = [job EXCEPT ![c] = new] /\ prev' = [prev EXCEPT ![c] = None]
        /\ mixed' = (mixed /\ ~Repairs(c, ok))
    BY <1>1 DEF Exit, Goto
  <1>3. undo' \in [Callers -> BOOLEAN]
    <2>1. PICK u : u = (AfterExit(c, ok) # <<>>
                          /\ (undo[c] \/ (~ok /\ Mode(c) \in {"register", "firewall-add"})))
      OBVIOUS
    <2>2. u \in BOOLEAN
      BY <2>1, Zenon
    <2>3. undo' = [undo EXCEPT ![c] = u]
      BY <2>1 DEF Exit
    <2> QED BY <2>2, <2>3 DEF ToolType
  <1>4. ASSUME c = "setup" PROVE /\ new \in SetupJobs
                                 /\ new \in Cleared =>
                                       ok /\ \/ Mode(c) = "unregister" /\ new # DeleteOnly
                                             \/ Mode(c) = "firewall-remove" /\ job[c] \in Cleared
    <2>1. job[c] \in SetupJobs \ {<<>>} /\ Mode(c) = Head(job[c])
      BY <1>4 DEF JobInv, Mode
    <2>2. new \in {UninstallJob, FallbackJob, <<>>} \/ (ok /\ new = Tail(job[c]))
      BY <1>1, <1>4 DEF AfterExit
    <2>3. Tail(job[c]) \in SetupJobs
      BY <2>1, JobModes DEF SetupJobs
    <2>4. Tail(job[c]) \in Cleared => \/ Mode(c) = "unregister" /\ Tail(job[c]) # DeleteOnly
                                      \/ Mode(c) = "firewall-remove" /\ job[c] \in Cleared
      <3>1. CASE job[c] \in {InstallJob, AddOnly, UninstallJob, DeleteOnly, RemoveOnly}
        BY <3>1, JobModes, JobsApart
      <3>2. CASE job[c] \in {UnregisterOn, FallbackJob}
        BY <2>1, <3>2, JobModes, JobsApart
      <3>3. CASE job[c] = RemoveOn
        BY <2>1, <3>3, JobModes DEF Cleared
      <3> QED BY <2>1, <3>1, <3>2, <3>3 DEF SetupJobs
    <2> QED BY <2>2, <2>3, <2>4, JobsApart DEF SetupJobs
  <1>5. ASSUME c # "setup" PROVE new \in IF c \in Orphans THEN OrphanJobs ELSE LaunchJobs
    <2>1. CASE c \in Orphans
      BY <1>1, <2>1 DEF AfterExit, OrphanJobs
    <2>2. CASE c \notin Orphans
      <3>1. job[c] \in LaunchJobs \ {<<>>} /\ Mode(c) = Head(job[c])
        BY <1>5, <2>2 DEF JobInv, Mode
      <3>2. new = Tail(job[c]) \/ (Mode(c) = "status" /\ new = Tail(Tail(job[c])))
        BY <1>1, <1>5, <2>2 DEF AfterExit
      <3>3. Tail(job[c]) \in LaunchJobs
        BY <3>1, JobModes DEF LaunchJobs
      <3>4. Mode(c) = "status" => job[c] = LaunchJob
        BY <3>1, JobModes DEF LaunchJobs
      <3> QED BY <2>2, <3>2, <3>3, <3>4, JobModes DEF LaunchJobs
    <2> QED BY <2>1, <2>2
  <1>6. JobInv'
    BY <1>2, <1>4, <1>5, SetupCalls DEF JobInv
  <1>7. SoleInv'
    <2>1. \A d \in Callers : d # c => job'[d] = job[d]
      BY <1>2 DEF JobInv
    <2>2. \A d \in Elevated : d # c /\ sole = c => job[d] = <<>>
      BY NoneApart, CallersElevated DEF SoleInv
    <2>3. sole' # None => sole' \in Elevated /\ \A d \in Elevated : d # sole' => job'[d] = <<>>
      BY <1>2, <2>1, CallersElevated DEF SoleInv
    <2>4. ASSUME ~mixed', NEW d \in Elevated, job'[d] # <<>> PROVE sole' = d
      <3>1. ~mixed \/ sole = c
        BY <1>2, <2>4 DEF Repairs
      <3> QED BY <1>2, <2>1, <2>2, <2>4, <3>1, CallersElevated DEF SoleInv
    <2> QED BY <2>3, <2>4 DEF SoleInv
  <1>8. ToolType'
    <2>1. mixed' \in BOOLEAN
      BY <1>2, Zenon DEF ToolType
    <2> QED BY <1>2, <1>3, <2>1 DEF ToolType, Places
  <1> QED BY <1>2, <1>4, <1>6, <1>7, <1>8 DEF JobInv

(* A caller without a job is not in the tool. *)
LEMMA Idle == ASSUME ToolType, CallerInv, NEW c \in Callers, job[c] = <<>> PROVE at[c] = "idle"
  <1>1. Mode(c) = "none" /\ PlaceOk(c) /\ at[c] \in Places
    BY ModeNone DEF CallerInv, ToolType
  <1> QED BY <1>1 DEF PlaceOk, Places

(* Nobody else is sole while an elevated caller has a job. *)
LEMMA NotSole ==
  ASSUME SoleInv, NEW c \in Elevated, job[c] # <<>>, NEW d \in Callers, d # c
  PROVE  sole # d
  BY NoneApart DEF SoleInv

(* A caller in the tool is elevated and has a job. *)
LEMMA InTool ==
  ASSUME RInv, NEW c \in Callers, at[c] # "idle"
  PROVE  c \in Elevated /\ job[c] # <<>> /\ PlaceOk(c) /\ MachineOk(c) /\ (~mixed => sole = c)
  <1>1. c \in Elevated /\ job[c] # <<>> /\ PlaceOk(c) /\ MachineOk(c)
    BY Idle DEF RInv, CallerInv, PlaceOk
  <1> QED BY <1>1 DEF RInv, SoleInv

LEMMA IdleOk == ASSUME NEW c, at[c] = "idle" PROVE PlaceOk(c) /\ MachineOk(c)
  BY DEF PlaceOk, MachineOk, Registering

(* A step of the tool that is not its last one *)
LEMMA StepInv ==
  ASSUME RInv, NEW c \in Elevated, NEW to \in Places, job[c] # <<>>,
         at' = [at EXCEPT ![c] = to], UNCHANGED <<job, undo, dir>>,
         prev' \in [Callers -> Dirs \cup {None}],
         UNCHANGED <<sole, mixed>> \/ (sole' = None /\ mixed' = TRUE),
         MachineType', ActivatableCamera', PlaceOk(c)', MachineOk(c)',
         Mode(c) \in {"register", "unregister", "firewall-add"} \/ UNCHANGED machineVars
  PROVE  RInv'
  <1>1. c \in Callers /\ at \in [Callers -> Places]
    BY CallersElevated DEF RInv, ToolType
  <1>2. \A d \in Callers : d # c => sole # d /\ sole' # d
    BY NotSole, NoneApart DEF RInv
  <1>3. ToolType' /\ JobInv'
    BY <1>1 DEF RInv, ToolType, JobInv
  <1>4. SoleInv'
    BY DEF RInv, SoleInv
  <1>5. CallerInv'
    <2>1. ASSUME NEW d \in Callers, d # c PROVE PlaceOk(d)' /\ MachineOk(d)'
      <3>1. at'[d] = at[d] /\ Mode(d)' = Mode(d)
        BY <1>1, <2>1 DEF Mode
      <3>2. PlaceOk(d)'
        BY <3>1 DEF RInv, CallerInv, PlaceOk
      <3> QED BY <1>2, <2>1, <3>2 DEF MachineOk
    <2> QED BY <2>1 DEF CallerInv
  <1>6. ClearedInv'
    <2>1. CASE UNCHANGED machineVars
      BY <2>1, NoneApart, SetupCalls DEF RInv, ClearedInv, machineVars
    <2>2. CASE Mode(c) \in {"register", "unregister", "firewall-add"}
      <3>1. CASE c = "setup"
        <4>1. job["setup"] \notin Cleared
          BY <2>2, <3>1, JobsApart DEF Mode
        <4>2. job["setup"] # DeleteOnly
          BY <4>1 DEF Cleared
        <4> QED BY <4>1, <4>2 DEF ClearedInv
      <3>2. CASE c # "setup"
        BY <1>2, <3>2, SetupCalls DEF ClearedInv
      <3> QED BY <3>1, <3>2
    <2> QED BY <2>1, <2>2
  <1> QED BY <1>3, <1>4, <1>5, <1>6 DEF RInv

(* The end of the tool, with the machine changed by an elevated caller only *)
LEMMA ExitInv ==
  ASSUME RInv, NEW c \in Callers, NEW ok \in BOOLEAN, job[c] # <<>>, Exit(c, ok),
         c \in Elevated \/ UNCHANGED machineVars,
         MachineType', ActivatableCamera', ClearedInv'
  PROVE  RInv'
  <1>1. at \in [Callers -> Places]
    BY DEF RInv, ToolType
  <1>2. /\ JobInv' /\ SoleInv' /\ ToolType' /\ at' = [at EXCEPT ![c] = "idle"]
        /\ UNCHANGED <<dir, sole>> /\ \A d \in Callers : d # c => job'[d] = job[d]
    BY ExitFacts DEF RInv
  <1>3. ASSUME NEW d \in Callers PROVE PlaceOk(d)' /\ MachineOk(d)'
    <2>1. CASE d = c
      <3>1. at'[d] = "idle"
        BY <1>1, <1>2, <2>1
      <3> QED BY <3>1 DEF PlaceOk, MachineOk, Registering
    <2>2. CASE d # c
      <3>1. at'[d] = at[d] /\ job'[d] = job[d] /\ dir'[d] = dir[d]
        BY <1>1, <1>2, <2>2
      <3>2. Mode(d)' = Mode(d) /\ PlaceOk(d) /\ MachineOk(d)
        BY <3>1 DEF Mode, RInv, CallerInv
      <3>3. PlaceOk(d)'
        BY <3>1, <3>2 DEF PlaceOk
      <3>4. CASE c \in Elevated
        BY <1>2, <2>2, <3>3, <3>4, NotSole DEF RInv, MachineOk
      <3>5. CASE UNCHANGED machineVars
        BY <1>2, <3>1, <3>2, <3>3, <3>5 DEF MachineOk, Registering, machineVars
      <3> QED BY <3>4, <3>5
    <2> QED BY <2>1, <2>2
  <1>4. CallerInv'
    BY <1>3 DEF CallerInv
  <1> QED BY <1>2, <1>4 DEF RInv

(* The end of the tool by anyone, with the machine as it was *)
LEMMA ExitSame ==
  ASSUME RInv, NEW c \in Callers, NEW ok \in BOOLEAN, job[c] # <<>>, Exit(c, ok),
         UNCHANGED machineVars, ok => Mode(c) \notin {"unregister", "firewall-remove"},
         ok /\ Mode(c) = "register" /\ sole = c => clsid /\ path \in files
  PROVE  RInv'
  <1>1. /\ UNCHANGED sole /\ \A d \in Callers : d # c => job'[d] = job[d]
        /\ mixed' = (mixed /\ ~Repairs(c, ok))
    BY ExitFacts DEF RInv
  <1>2. job'["setup"] \in Cleared => job'["setup"] = job["setup"]
    <2>1. c = "setup" => job'["setup"] \notin Cleared
      BY ExitFacts DEF RInv
    <2> QED BY <1>1, <2>1, SetupCalls
  <1>3. MachineType'
    BY DEF RInv, MachineType, machineVars
  <1>4. ActivatableCamera'
    <2>1. mixed => mixed' \/ Repairs(c, ok)
      BY <1>1
    <2>2. Repairs(c, ok) => clsid /\ path \in files
      BY DEF Repairs
    <2> QED BY <2>1, <2>2 DEF RInv, ActivatableCamera, machineVars
  <1>5. ClearedInv'
    <2>1. job'["setup"] = DeleteOnly => job'["setup"] \in Cleared
      BY DEF Cleared
    <2> QED BY <1>1, <1>2, <2>1 DEF RInv, ClearedInv, machineVars
  <1> QED BY <1>3, <1>4, <1>5, ExitInv

-----------------------------------------------------------------------------
(* Beginnings and kills *)
LEMMA BeginInv ==
  ASSUME RInv, NEW c \in Callers, NEW new, NEW d \in Dirs, Begin(c, new, d),
         new \in IF c = "setup" THEN {InstallJob, UninstallJob} ELSE {LaunchJob},
         UNCHANGED <<clsid, path, camera, rule>>,
         UNCHANGED files \/ (c = "setup" /\ files = {} /\ files' \in SUBSET Dirs)
  PROVE  RInv'
  <1>1. /\ c \notin Orphans /\ job[c] = <<>> /\ job' = [job EXCEPT ![c] = new]
        /\ dir' = [dir EXCEPT ![c] = d] /\ UNCHANGED <<undo, at, prev>>
    BY DEF Begin
  <1>2. \/ /\ c \in Elevated /\ mixed' = (mixed \/ Others(c) # {})
           /\ sole' = IF Others(c) = {} THEN c ELSE None
        \/ c \notin Elevated /\ UNCHANGED <<sole, mixed>>
    BY DEF Begin, history
  <1>3. /\ at \in [Callers -> Places] /\ at[c] = "idle"
        /\ job \in [Callers -> SetupJobs \cup LaunchJobs \cup OrphanJobs]
    BY <1>1, Idle DEF RInv, ToolType, JobInv
  <1>4. Others(c) = {} <=> \A e \in Elevated : e # c => job[e] = <<>>
    BY DEF Others
  <1>5. ToolType'
    <2>1. mixed' \in BOOLEAN
      BY <1>2, Zenon DEF RInv, ToolType
    <2> QED BY <1>1, <1>2, <2>1 DEF RInv, ToolType
  <1>6. MachineType'
    BY DEF RInv, MachineType
  <1>7. ActivatableCamera'
    <2>1. mixed => mixed'
      BY <1>2
    <2> QED BY <2>1 DEF RInv, ActivatableCamera
  <1>8. JobInv'
    BY <1>1, <1>3, SetupCalls DEF RInv, JobInv, SetupJobs, LaunchJobs
  <1>9. SoleInv'
    <2>1. \A e \in Callers : e # c => job'[e] = job[e]
      BY <1>1, <1>3
    <2>2. CASE c \in Elevated
      <3>1. CASE Others(c) = {}
        <4>1. sole' = c /\ \A e \in Elevated : e # c => job'[e] = <<>>
          BY <1>2, <1>4, <2>1, <2>2, <3>1, CallersElevated
        <4> QED BY <2>2, <4>1 DEF SoleInv
      <3>2. CASE Others(c) # {}
        <4>1. sole' = None /\ mixed' = TRUE
          BY <1>2, <2>2, <3>2
        <4> QED BY <4>1 DEF SoleInv
      <3> QED BY <3>1, <3>2
    <2>3. CASE c \notin Elevated
      BY <1>2, <2>1, <2>3, CallersElevated DEF RInv, SoleInv
    <2> QED BY <2>2, <2>3
  <1>10. ClearedInv'
    <2>1. CASE c = "setup"
      <3>1. job'["setup"] \notin Cleared
        BY <1>1, <1>3, <2>1, JobsApart
      <3>2. job'["setup"] # DeleteOnly
        BY <3>1 DEF Cleared
      <3> QED BY <3>1, <3>2 DEF ClearedInv
    <2>2. CASE c # "setup"
      <3>1. job'["setup"] = job["setup"] /\ (sole' = "setup" => sole = "setup")
        BY <1>1, <1>2, <1>3, <2>2, SetupCalls, NoneApart
      <3> QED BY <2>2, <3>1 DEF RInv, ClearedInv
    <2> QED BY <2>1, <2>2
  <1>11. CallerInv'
    <2>1. ASSUME NEW e \in Callers PROVE PlaceOk(e)' /\ MachineOk(e)'
      <3>1. CASE e = c
        <4>1. at'[e] = "idle"
          BY <1>1, <1>3, <3>1
        <4> QED BY <4>1 DEF PlaceOk, MachineOk, Registering
      <3>2. CASE e # c
        <4>1. at'[e] = at[e] /\ job'[e] = job[e] /\ dir'[e] = dir[e]
          BY <1>1, <1>3, <3>2 DEF RInv, ToolType
        <4>2. Mode(e)' = Mode(e) /\ PlaceOk(e) /\ MachineOk(e)
          BY <4>1 DEF Mode, RInv, CallerInv
        <4>3. PlaceOk(e)'
          BY <4>1, <4>2 DEF PlaceOk
        <4>4. sole' = e => c \notin Elevated /\ sole = e
          BY <1>2, <3>2, NoneApart
        <4>5. c \notin Elevated => UNCHANGED files
          BY CallersElevated
        <4> QED BY <4>1, <4>2, <4>3, <4>4, <4>5 DEF MachineOk, Registering
      <3> QED BY <3>1, <3>2
    <2> QED BY <2>1 DEF CallerInv
  <1> QED BY <1>5, <1>6, <1>7, <1>8, <1>9, <1>10, <1>11 DEF RInv

LEMMA KilledAloneInv ==
  ASSUME RInv, NEW c \in Callers, KilledAlone(c), UNCHANGED machineVars, UNCHANGED mixed,
         undo' = [undo EXCEPT ![c] = FALSE]
  PROVE  RInv'
  <1>1. /\ job' = [job EXCEPT ![c] = <<>>] /\ at' = [at EXCEPT ![c] = "idle"]
        /\ prev' = [prev EXCEPT ![c] = None]
        /\ UNCHANGED <<clsid, path, camera, rule, files, dir, sole, mixed>>
    BY DEF KilledAlone, Goto, machineVars
  <1>2. /\ at \in [Callers -> Places]
        /\ job \in [Callers -> SetupJobs \cup LaunchJobs \cup OrphanJobs]
    BY DEF RInv, ToolType, JobInv
  <1>3. ToolType' /\ MachineType' /\ ActivatableCamera'
    BY <1>1, <1>2 DEF RInv, ToolType, MachineType, ActivatableCamera, Places
  <1>4. JobInv'
    BY <1>1, <1>2, SetupCalls DEF RInv, JobInv, SetupJobs, LaunchJobs, OrphanJobs
  <1>5. SoleInv'
    BY <1>1, <1>2, CallersElevated DEF RInv, SoleInv
  <1>6. ClearedInv'
    <2>1. job'["setup"] \in Cleared => job'["setup"] = job["setup"]
      BY <1>1, <1>2, JobsApart, SetupCalls
    <2>2. job'["setup"] = DeleteOnly => job'["setup"] \in Cleared
      BY DEF Cleared
    <2> QED BY <1>1, <2>1, <2>2 DEF RInv, ClearedInv
  <1>7. CallerInv'
    <2>1. ASSUME NEW d \in Callers PROVE PlaceOk(d)' /\ MachineOk(d)'
      <3>1. CASE d = c
        <4>1. at'[d] = "idle"
          BY <1>1, <1>2, <3>1
        <4> QED BY <4>1 DEF PlaceOk, MachineOk, Registering
      <3>2. CASE d # c
        <4>1. at'[d] = at[d] /\ job'[d] = job[d]
          BY <1>1, <1>2, <3>2
        <4>2. Mode(d)' = Mode(d)
          BY <4>1 DEF Mode
        <4> QED BY <1>1, <4>1, <4>2 DEF RInv, CallerInv, PlaceOk, MachineOk, Registering
      <3> QED BY <3>1, <3>2
    <2> QED BY <2>1 DEF CallerInv
  <1> QED BY <1>3, <1>4, <1>5, <1>6, <1>7 DEF RInv

(* The tool's mode passes to an orphan with its place and its directory. *)
LEMMA OrphanedInv ==
  ASSUME RInv, NEW c \in Callers, NEW o \in Orphans, job[c] # <<>>, Orphaned(c, o),
         UNCHANGED machineVars, UNCHANGED mixed, undo' = [undo EXCEPT ![c] = FALSE]
  PROVE  RInv'
  <1>1. /\ c \notin Orphans /\ o \in Callers /\ o # c /\ o # "setup"
        /\ Mode(c) # "delete" /\ job[o] = <<>> /\ (o \in Elevated <=> c \in Elevated)
        /\ job' = [job EXCEPT ![c] = <<>>, ![o] = <<Mode(c)>>]
        /\ at' = [at EXCEPT ![c] = "idle", ![o] = at[c]]
        /\ dir' = [dir EXCEPT ![o] = dir[c]]
        /\ prev' = [prev EXCEPT ![c] = None, ![o] = prev[c]]
        /\ sole' = IF sole = c THEN o ELSE sole
        /\ UNCHANGED <<clsid, path, camera, rule, files, mixed>>
    BY OrphansAssumption DEF Orphaned, machineVars
  <1>2. /\ at \in [Callers -> Places] /\ dir \in [Callers -> Dirs]
        /\ prev \in [Callers -> Dirs \cup {None}]
        /\ job \in [Callers -> SetupJobs \cup LaunchJobs \cup OrphanJobs]
    BY DEF RInv, ToolType, JobInv
  <1>3. Mode(c) \in Modes \ {"delete"}
    <2>1. job[c] \in SetupJobs \cup LaunchJobs /\ job[c] # <<>> /\ Mode(c) = Head(job[c])
      BY <1>1 DEF RInv, JobInv, Mode
    <2>2. Head(job[c]) \in Modes
      BY <2>1, JobsTyped
    <2> QED BY <1>1, <2>1, <2>2
  <1>4. PICK mine : mine = <<Mode(c)>>
    OBVIOUS
  <1>5. mine \in OrphanJobs /\ mine # <<>> /\ Head(mine) = Mode(c)
    BY <1>3, <1>4 DEF OrphanJobs
  <1>6. /\ job'[c] = <<>> /\ job'[o] = mine /\ at'[c] = "idle" /\ at'[o] = at[c]
        /\ dir'[o] = dir[c]
        /\ \A d \in Callers : d \notin {c, o} => job'[d] = job[d] /\ at'[d] = at[d] /\ dir'[d] = dir[d]
    BY <1>1, <1>2, <1>4
  <1>7. ToolType' /\ MachineType' /\ ActivatableCamera'
    <2>1. MachineType' /\ ActivatableCamera'
      BY <1>1 DEF RInv, MachineType, ActivatableCamera
    <2>2. ToolType'
      BY <1>1, <1>2 DEF RInv, ToolType, Places
    <2> QED BY <2>1, <2>2
  <1>8. JobInv'
    <2>1. \A d \in Callers : job'[d] \in SetupJobs \cup LaunchJobs \cup OrphanJobs
      BY <1>2, <1>5, <1>6 DEF SetupJobs
    <2>2. job' \in [Callers -> SetupJobs \cup LaunchJobs \cup OrphanJobs]
      BY <1>1, <1>2, <2>1
    <2>3. job'["setup"] \in SetupJobs
      BY <1>1, <1>6, SetupCalls DEF RInv, JobInv, SetupJobs
    <2>4. ASSUME NEW d \in Callers, d # "setup"
          PROVE  job'[d] \in IF d \in Orphans THEN OrphanJobs ELSE LaunchJobs
      BY <1>1, <1>5, <1>6, <2>4 DEF RInv, JobInv, LaunchJobs
    <2> QED BY <2>2, <2>3, <2>4 DEF JobInv
  <1>9. SoleInv'
    <2>1. CASE c \in Elevated
      <3>1. \A d \in Callers : sole = d => d = c
        BY <2>1, NotSole DEF RInv
      <3>2. sole = None \/ sole = c
        BY <3>1 DEF RInv, ToolType
      <3>3. ~mixed => sole = c
        BY <2>1 DEF RInv, SoleInv
      <3>4. CASE sole = c
        <4>1. sole' = o /\ o \in Elevated /\ \A d \in Elevated : d # o => job'[d] = <<>>
          BY <1>1, <1>6, <2>1, <3>4, CallersElevated, NoneApart DEF RInv, SoleInv
        <4> QED BY <4>1 DEF SoleInv
      <3>5. CASE sole = None
        BY <1>1, <3>3, <3>5, NoneApart DEF SoleInv
      <3> QED BY <3>2, <3>4, <3>5
    <2>2. CASE c \notin Elevated
      <3>1. UNCHANGED sole
        BY <1>1, <2>2, NoneApart DEF RInv, SoleInv
      <3>2. \A d \in Elevated : job'[d] = job[d]
        BY <1>1, <1>6, <2>2, CallersElevated
      <3>3. UNCHANGED mixed
        BY <1>1
      <3> QED BY <3>1, <3>2, <3>3 DEF RInv, SoleInv
    <2> QED BY <2>1, <2>2
  <1>10. ClearedInv'
    <2>1. job'["setup"] \in Cleared => job'["setup"] = job["setup"]
      BY <1>1, <1>6, JobsApart, SetupCalls
    <2>2. job'["setup"] = DeleteOnly => job'["setup"] \in Cleared
      BY DEF Cleared
    <2>3. sole' = "setup" => sole = "setup"
      BY <1>1
    <2> QED BY <1>1, <2>1, <2>2, <2>3 DEF RInv, ClearedInv
  <1>11. ASSUME NEW d \in Callers PROVE PlaceOk(d)' /\ MachineOk(d)'
    <2>1. CASE d = c
      BY <1>6, <2>1 DEF PlaceOk, MachineOk, Registering
    <2>2. CASE d = o
      <3>1. Mode(o)' = Mode(c)
        BY <1>5, <1>6 DEF Mode
      <3>2. PlaceOk(c) /\ MachineOk(c)
        BY DEF RInv, CallerInv
      <3>3. PlaceOk(o)'
        BY <1>1, <1>6, <3>1, <3>2 DEF PlaceOk
      <3>4. sole' = o => sole = c \/ at[c] = "idle"
        <4>1. CASE at[c] = "idle"
          BY <4>1
        <4>2. CASE at[c] # "idle"
          BY <1>1, <4>2, InTool, NotSole DEF RInv
        <4> QED BY <4>1, <4>2
      <3>5. MachineOk(o)'
        <4>1. CASE at[c] = "idle"
          <5>1. at'[o] = "idle"
            BY <1>6, <4>1
          <5> QED BY <5>1 DEF MachineOk, Registering
        <4>2. CASE sole = c
          <5>1. /\ at'[o] = at[c] /\ dir'[o] = dir[c] /\ Mode(o)' = Mode(c)
                /\ UNCHANGED <<clsid, path, camera, files>>
            BY <1>1, <1>6, <3>1
          <5>2. \A places : Registering(o, places)' = Registering(c, places)
            BY <5>1 DEF Registering
          <5> QED BY <3>2, <4>2, <5>1, <5>2 DEF MachineOk
        <4>3. CASE at[c] # "idle" /\ sole # c
          BY <3>4, <4>3 DEF MachineOk
        <4> QED BY <4>1, <4>2, <4>3
      <3> QED BY <2>2, <3>3, <3>5
    <2>3. CASE d \notin {c, o}
      <3>1. Mode(d)' = Mode(d) /\ PlaceOk(d) /\ MachineOk(d)
        BY <1>6, <2>3 DEF Mode, RInv, CallerInv
      <3>2. at'[d] = at[d] /\ dir'[d] = dir[d] /\ (sole' = d => sole = d)
        BY <1>1, <1>6, <2>3
      <3> QED BY <1>1, <3>1, <3>2 DEF PlaceOk, MachineOk, Registering
    <2> QED BY <2>1, <2>2, <2>3
  <1>12. CallerInv'
    BY <1>11 DEF CallerInv
  <1> QED BY <1>7, <1>8, <1>9, <1>10, <1>12 DEF RInv

LEMMA KilledInv == ASSUME RInv, NEW c \in Callers, Killed(c) PROVE RInv'
  BY KilledAloneInv, OrphanedInv DEF Killed

-----------------------------------------------------------------------------
(* The tool's steps *)
LEMMA StepFacts ==
  ASSUME RInv, NEW c \in Callers, NEW from, NEW to, from # "idle", Step(c, from, to)
  PROVE  /\ c \in Elevated /\ job[c] # <<>> /\ PlaceOk(c) /\ MachineOk(c)
         /\ (~mixed => sole = c) /\ UNCHANGED <<sole, mixed>>
         /\ at[c] = from /\ at' = [at EXCEPT ![c] = to] /\ at'[c] = to
         /\ UNCHANGED <<job, undo, dir>> /\ prev' \in [Callers -> Dirs \cup {None}]
         /\ Mode(c)' = Mode(c) /\ dir[c] \in Dirs /\ prev[c] \in Dirs \cup {None}
  <1>1. /\ at[c] = from /\ at' = [at EXCEPT ![c] = to] /\ UNCHANGED <<job, undo, dir, prev>>
        /\ UNCHANGED <<sole, mixed>>
    BY DEF Step, Moves, Goto, history
  <1>2. c \in Elevated /\ job[c] # <<>> /\ PlaceOk(c) /\ MachineOk(c) /\ (~mixed => sole = c)
    BY <1>1, InTool
  <1>3. at'[c] = to
    BY <1>1 DEF RInv, ToolType
  <1>4. Mode(c)' = Mode(c)
    BY <1>1 DEF Mode
  <1>5. prev' \in [Callers -> Dirs \cup {None}] /\ dir[c] \in Dirs /\ prev[c] \in Dirs \cup {None}
    BY <1>1 DEF RInv, ToolType
  <1> QED BY <1>1, <1>2, <1>3, <1>4, <1>5

LEMMA SameMachine ==
  RInv /\ UNCHANGED machineVars /\ UNCHANGED mixed => MachineType' /\ ActivatableCamera'
  BY DEF RInv, machineVars, MachineType, ActivatableCamera

(* A step that leaves the machine alone *)
LEMMA QuietStep ==
  ASSUME RInv, NEW c \in Callers, NEW from, NEW to \in Places, from # "idle", Step(c, from, to),
         UNCHANGED machineVars, PlaceOk(c)', MachineOk(c)'
  PROVE  RInv'
  BY StepFacts, StepInv, SameMachine

(* A step that changes the machine *)
LEMMA MachineStep ==
  ASSUME RInv, NEW c \in Callers, NEW from, NEW to \in Places, from # "idle", Step(c, from, to),
         MachineType', ActivatableCamera', PlaceOk(c)', MachineOk(c)',
         Mode(c) \in {"register", "unregister", "firewall-add"}
  PROVE  RInv'
  BY StepFacts, StepInv

LEMMA StartsTool ==
  ASSUME RInv, NEW c \in Elevated, NEW to \in Places, job[c] # <<>>, Goto(c, to),
         UNCHANGED <<job, undo, dir>>, prev' \in [Callers -> Dirs \cup {None}],
         UNCHANGED machineVars, UNCHANGED <<sole, mixed>>, to \in {"key", "create", "ruleAdd", "ruleDrop"},
         to = "key" => Mode(c) = "register" /\ dir[c] \in files,
         to = "create" => Mode(c) = "unregister",
         to = "ruleAdd" => Mode(c) = "firewall-add",
         to = "ruleDrop" => Mode(c) = "firewall-remove"
  PROVE  RInv'
  <1>1. c \in Callers
    BY CallersElevated
  <1>2. at' = [at EXCEPT ![c] = to] /\ at'[c] = to
    BY <1>1 DEF Goto, RInv, ToolType
  <1>3. Mode(c)' = Mode(c)
    BY DEF Mode
  <1>4. PlaceOk(c)' /\ MachineOk(c)'
    BY <1>2, <1>3 DEF PlaceOk, MachineOk, Registering, machineVars
  <1> QED BY <1>2, <1>4, StepInv, SameMachine

LEMMA BeginToolInv ==
  ASSUME RInv, NEW c \in Callers,
         BeginRegister(c) \/ BeginUnregister(c) \/ BeginRuleAdd(c) \/ BeginRuleRemove(c)
  PROVE  RInv'
  <1> USE DEF Runs
  <1>1. prev \in [Callers -> Dirs \cup {None}] /\ path \in Dirs \cup {None}
        /\ rule \in Dirs \cup {None, "foreign"}
    BY DEF RInv, ToolType, MachineType
  <1>2. CASE BeginRegister(c)
    <2>1. /\ c \in Elevated /\ Mode(c) = "register" /\ dir[c] \in files /\ Goto(c, "key")
          /\ UNCHANGED <<job, undo, dir>> /\ UNCHANGED machineVars
          /\ UNCHANGED <<sole, mixed>> /\ prev' \in [Callers -> Dirs \cup {None}]
      BY <1>1, <1>2 DEF BeginRegister, machineVars, history
    <2>2. job[c] # <<>> /\ "key" \in Places
      BY <2>1, Working DEF Places
    <2> QED BY <2>1, <2>2, StartsTool
  <1>3. CASE BeginUnregister(c)
    <2>1. /\ c \in Elevated /\ Mode(c) = "unregister" /\ Goto(c, "create")
          /\ UNCHANGED <<job, undo, dir>> /\ UNCHANGED machineVars
          /\ UNCHANGED <<sole, mixed>> /\ prev' \in [Callers -> Dirs \cup {None}]
      BY <1>1, <1>3 DEF BeginUnregister, machineVars, history
    <2>2. job[c] # <<>> /\ "create" \in Places
      BY <2>1, Working DEF Places
    <2> QED BY <2>1, <2>2, StartsTool
  <1>4. CASE BeginRuleAdd(c)
    <2>1. /\ c \in Elevated /\ Mode(c) = "firewall-add" /\ Goto(c, "ruleAdd")
          /\ UNCHANGED <<job, undo, dir>> /\ UNCHANGED machineVars
          /\ UNCHANGED <<sole, mixed>> /\ prev' \in [Callers -> Dirs \cup {None}]
      BY <1>1, <1>4 DEF BeginRuleAdd, CapturesOurs, machineVars, history
    <2>2. job[c] # <<>> /\ "ruleAdd" \in Places
      BY <2>1, Working DEF Places
    <2> QED BY <2>1, <2>2, StartsTool
  <1>5. CASE BeginRuleRemove(c)
    <2>1. /\ c \in Elevated /\ Mode(c) = "firewall-remove" /\ Goto(c, "ruleDrop")
          /\ UNCHANGED <<job, undo, dir>> /\ UNCHANGED machineVars
          /\ UNCHANGED <<sole, mixed>> /\ prev' \in [Callers -> Dirs \cup {None}]
      BY <1>1, <1>5 DEF BeginRuleRemove, machineVars, history
    <2>2. job[c] # <<>> /\ "ruleDrop" \in Places
      BY <2>1, Working DEF Places
    <2> QED BY <2>1, <2>2, StartsTool
  <1> QED BY <1>2, <1>3, <1>4, <1>5

(* Ends of the tool that leave the machine alone *)
LEMMA QuietExits ==
  ASSUME RInv, NEW c \in Callers,
         \/ Refused(c) \/ StatusOk(c) \/ PreflightOk(c) \/ CallFails(c)
         \/ at[c] \in {"restoreModel", "verify", "ruleCheck"} /\ UNCHANGED machineVars
              /\ \E ok \in BOOLEAN : Exit(c, ok) /\ (ok => at[c] # "restoreModel")
  PROVE  RInv'
  <1>1. CASE Refused(c)
    <2>1. Mode(c) # "none" /\ Exit(c, FALSE) /\ UNCHANGED machineVars
      BY <1>1 DEF Refused, Modes
    <2> QED BY <2>1, Working, ExitSame
  <1>2. CASE StatusOk(c) \/ PreflightOk(c)
    <2>1. Mode(c) \in {"status", "preflight"} /\ Exit(c, TRUE) /\ UNCHANGED machineVars
      BY <1>2 DEF StatusOk, PreflightOk, Runs
    <2> QED BY <2>1, Working, ExitSame
  <1>3. CASE CallFails(c)
    <2>1. at[c] # "idle" /\ Exit(c, FALSE) /\ UNCHANGED machineVars
      BY <1>3 DEF CallFails, Fails
    <2> QED BY <2>1, InTool, ExitSame
  <1>4. ASSUME at[c] \in {"restoreModel", "verify", "ruleCheck"}, UNCHANGED machineVars,
               NEW ok \in BOOLEAN, Exit(c, ok), ok => at[c] # "restoreModel"
        PROVE  RInv'
    <2>1. Mode(c) \in {"register", "firewall-add"} /\ job[c] # <<>> /\ PlaceOk(c) /\ MachineOk(c)
      BY <1>4, InTool DEF PlaceOk
    <2>2. ok /\ Mode(c) = "register" => at[c] = "verify"
      BY <1>4, <2>1 DEF PlaceOk
    <2>3. ok /\ Mode(c) = "register" /\ sole = c => clsid /\ path \in files
      BY <2>1, <2>2 DEF MachineOk, Registering
    <2> QED BY <1>4, <2>1, <2>3, ExitSame
  <1> QED BY <1>1, <1>2, <1>3, <1>4

LEMMA RegisterInv ==
  ASSUME RInv, NEW c \in Callers,
         WriteKey(c) \/ WritePath(c) \/ WriteModel(c) \/ CreateCamera(c) \/ StartCamera(c)
           \/ ReadLink(c) \/ VerifyCamera(c)
  PROVE  RInv'
  <1> USE DEF PlaceOk, MachineOk, Registering
  <1>1. MachineType /\ ActivatableCamera
    BY DEF RInv
  <1>2. CASE WriteKey(c)
    <2>1. PICK from \in {"key", "restoreKey"}, to \in {"path", "restorePath"} :
             /\ Step(c, from, to) /\ (from = "key" <=> to = "path")
      BY <1>2 DEF WriteKey
    <2>2. clsid' = TRUE /\ UNCHANGED <<path, camera, rule, files>>
      BY <1>2 DEF WriteKey
    <2>3. MachineType' /\ ActivatableCamera'
      BY <1>1, <2>1, <2>2, StepFacts DEF MachineType, ActivatableCamera
    <2>4. Mode(c) = "register" /\ to \in Places
      BY <2>1, StepFacts DEF Places
    <2>5. PlaceOk(c)' /\ MachineOk(c)'
      BY <2>1, <2>2, StepFacts
    <2> QED BY <2>1, <2>3, <2>4, <2>5, MachineStep
  <1>3. CASE WritePath(c)
    <2>1. CASE Step(c, "path", "model") /\ path' = dir[c]
      <3>1. clsid' = TRUE /\ UNCHANGED <<camera, rule, files>>
        BY <1>3 DEF WritePath
      <3>2. /\ Mode(c) = "register" /\ (sole = c => dir[c] \in files) /\ dir[c] \in Dirs
            /\ (~mixed => sole = c) /\ UNCHANGED mixed /\ "model" \in Places
        BY <2>1, StepFacts DEF Places
      <3>3. MachineType' /\ ActivatableCamera'
        BY <1>1, <2>1, <3>1, <3>2 DEF MachineType, ActivatableCamera
      <3>4. PlaceOk(c)' /\ MachineOk(c)'
        BY <2>1, <3>1, StepFacts
      <3> QED BY <2>1, <3>2, <3>3, <3>4, MachineStep
    <2>2. CASE Step(c, "restorePath", "restoreModel") /\ path' = prev[c]
      <3>1. clsid' = TRUE /\ UNCHANGED <<camera, rule, files>>
        BY <1>3 DEF WritePath
      <3>2. /\ Mode(c) = "register" /\ (sole = c => camera = "absent") /\ prev[c] \in Dirs \cup {None}
            /\ (~mixed => sole = c) /\ UNCHANGED mixed /\ "restoreModel" \in Places
        BY <2>2, StepFacts DEF Places
      <3>3. MachineType' /\ ActivatableCamera'
        BY <1>1, <2>2, <3>1, <3>2 DEF MachineType, ActivatableCamera
      <3>4. PlaceOk(c)' /\ MachineOk(c)'
        BY <2>2, <3>1, StepFacts
      <3> QED BY <2>2, <3>2, <3>3, <3>4, MachineStep
    <2> QED BY <1>3, <2>1, <2>2 DEF WritePath
  <1>4. CASE WriteModel(c)
    <2>1. CASE Step(c, "model", "create")
      <3>1. UNCHANGED machineVars /\ "create" \in Places
        BY <1>4 DEF WriteModel, Places
      <3>2. PlaceOk(c)' /\ MachineOk(c)'
        BY <2>1, <3>1, StepFacts DEF machineVars
      <3> QED BY <2>1, <3>1, <3>2, QuietStep
    <2>2. CASE at[c] = "restoreModel" /\ Exit(c, FALSE)
      BY <1>4, <2>2, QuietExits DEF WriteModel
    <2> QED BY <1>4, <2>1, <2>2 DEF WriteModel
  <1>5. CASE CreateCamera(c)
    <2>1. PICK to : to = IF Mode(c) = "register" THEN "start" ELSE "find"
      OBVIOUS
    <2>2. Step(c, "create", to) /\ UNCHANGED machineVars /\ to \in Places
      BY <1>5, <2>1 DEF CreateCamera, Places
    <2>3. PlaceOk(c)' /\ MachineOk(c)'
      BY <2>1, <2>2, StepFacts DEF machineVars
    <2> QED BY <2>2, <2>3, QuietStep
  <1>6. CASE StartCamera(c)
    <2>1. PICK to \in {"link", "find"} : Step(c, "start", to)
      BY <1>6 DEF StartCamera
    <2>2. camera' \in {camera, "installed"} /\ UNCHANGED <<clsid, path, rule, files>>
      BY <1>6 DEF StartCamera
    <2>3. /\ Mode(c) = "register" /\ (sole = c => clsid /\ path \in files) /\ to \in Places
          /\ (~mixed => sole = c) /\ UNCHANGED mixed
      BY <2>1, StepFacts DEF Places
    <2>4. MachineType' /\ ActivatableCamera'
      BY <1>1, <2>2, <2>3 DEF MachineType, ActivatableCamera
    <2>5. PlaceOk(c)' /\ MachineOk(c)'
      BY <2>1, <2>2, StepFacts
    <2> QED BY <2>1, <2>3, <2>4, <2>5, MachineStep
  <1>7. CASE ReadLink(c)
    <2>1. PICK to \in {"verify", "find"} : Step(c, "link", to)
      BY <1>7 DEF ReadLink
    <2>2. UNCHANGED machineVars /\ to \in Places
      BY <1>7 DEF ReadLink, Places
    <2>3. PlaceOk(c)' /\ MachineOk(c)'
      BY <2>1, <2>2, StepFacts DEF machineVars
    <2> QED BY <2>1, <2>2, <2>3, QuietStep
  <1>8. CASE VerifyCamera(c)
    <2>1. CASE Step(c, "verify", "remove")
      <3>1. UNCHANGED machineVars /\ "remove" \in Places
        BY <1>8 DEF VerifyCamera, Places
      <3>2. PlaceOk(c)' /\ MachineOk(c)'
        BY <2>1, <3>1, StepFacts DEF machineVars
      <3> QED BY <2>1, <3>1, <3>2, QuietStep
    <2>2. CASE at[c] = "verify" /\ Exit(c, TRUE)
      BY <1>8, <2>2, QuietExits DEF VerifyCamera
    <2> QED BY <1>8, <2>1, <2>2 DEF VerifyCamera
  <1> QED BY <1>2, <1>3, <1>4, <1>5, <1>6, <1>7, <1>8

(* The clean-up of --register and --unregister *)
LEMMA CleanUpInv ==
  ASSUME RInv, NEW c \in Callers,
         FindLink(c) \/ RemoveCamera(c) \/ ConfirmAbsent(c) \/ DeletePath(c) \/ DeleteKey(c)
  PROVE  RInv'
  <1> USE DEF PlaceOk, MachineOk, Registering
  <1>1. MachineType /\ ActivatableCamera
    BY DEF RInv
  <1>2. ASSUME NEW from \in {"find", "confirm"}, Moves(c, from, Unwind(c)), UNCHANGED machineVars,
               \/ camera = "absent" /\ UNCHANGED <<sole, mixed>>
               \/ sole' = None /\ mixed' = TRUE
        PROVE  RInv'
    <2>1. PICK to : to = Unwind(c)
      OBVIOUS
    <2>2. /\ c \in Elevated /\ job[c] # <<>> /\ Mode(c) \in {"register", "unregister"}
          /\ at' = [at EXCEPT ![c] = to] /\ UNCHANGED <<job, undo, dir, prev>>
      BY <1>2, <2>1, InTool DEF Moves, Goto
    <2>3. /\ Mode(c) = "unregister" => to = "delPath"
          /\ Mode(c) = "register" => to \in {"restoreKey", "dropPath"}
          /\ to \in Places
      BY <2>1, <2>2 DEF Unwind, Places
    <2>4. at'[c] = to /\ Mode(c)' = Mode(c) /\ prev' \in [Callers -> Dirs \cup {None}]
      BY <2>2 DEF RInv, ToolType, Mode
    <2>5. PlaceOk(c)'
      BY <2>2, <2>3, <2>4
    <2>6. MachineOk(c)'
      BY <1>2, <2>2, <2>3, <2>4, NoneApart DEF machineVars
    <2>7. MachineType' /\ ActivatableCamera'
      BY <1>1, <1>2 DEF machineVars, MachineType, ActivatableCamera
    <2> QED BY <1>2, <2>2, <2>3, <2>4, <2>5, <2>6, <2>7, StepInv
  <1>3. CASE FindLink(c)
    <2>1. CASE Step(c, "find", "remove")
      <3>1. UNCHANGED machineVars /\ "remove" \in Places
        BY <1>3 DEF FindLink, Places
      <3>2. PlaceOk(c)' /\ MachineOk(c)'
        BY <2>1, <3>1, StepFacts DEF machineVars
      <3> QED BY <2>1, <3>1, <3>2, QuietStep
    <2>2. CASE /\ Moves(c, "find", Unwind(c))
               /\ sole' = IF Seen THEN None ELSE sole
               /\ mixed' = (mixed \/ Seen)
      <3>1. CASE Seen
        BY <1>2, <1>3, <2>2, <3>1 DEF FindLink
      <3>2. CASE ~Seen
        <4>1. camera = "absent" /\ UNCHANGED <<sole, mixed>>
          BY <2>2, <3>2 DEF Seen, RInv, ToolType
        <4> QED BY <1>2, <1>3, <2>2, <4>1 DEF FindLink
      <3> QED BY <3>1, <3>2
    <2> QED BY <1>3, <2>1, <2>2 DEF FindLink
  <1>4. CASE RemoveCamera(c)
    <2>1. /\ Step(c, "remove", "confirm") /\ UNCHANGED <<clsid, path, rule, files>>
          /\ camera' \in {camera, "lingering", "absent"} /\ "confirm" \in Places
      BY <1>4 DEF RemoveCamera, Places
    <2>2. MachineType' /\ ActivatableCamera'
      BY <1>1, <2>1, StepFacts DEF MachineType, ActivatableCamera
    <2>3. Mode(c) \in {"register", "unregister"}
      BY <2>1, StepFacts
    <2>4. PlaceOk(c)' /\ MachineOk(c)'
      BY <2>1, StepFacts
    <2> QED BY <2>1, <2>2, <2>3, <2>4, MachineStep
  <1>5. CASE ConfirmAbsent(c)
    BY <1>2, <1>5 DEF ConfirmAbsent, AbsenceConfirmed, Step, history
  <1>6. CASE DeletePath(c)
    <2>1. PICK from \in {"delPath", "dropPath"}, to \in {"delKey", "dropKey"} :
             Step(c, from, to) /\ (from = "delPath" <=> to = "delKey")
      BY <1>6 DEF DeletePath
    <2>2. path' = None /\ UNCHANGED <<clsid, camera, rule, files>> /\ to \in Places
      BY <1>6 DEF DeletePath, Places
    <2>3. /\ Mode(c) \in {"register", "unregister"} /\ (sole = c => camera = "absent")
          /\ (~mixed => sole = c) /\ UNCHANGED mixed
      BY <2>1, StepFacts
    <2>4. MachineType' /\ ActivatableCamera'
      BY <1>1, <2>2, <2>3 DEF MachineType, ActivatableCamera
    <2>5. PlaceOk(c)' /\ MachineOk(c)'
      BY <2>1, <2>2, StepFacts
    <2> QED BY <2>1, <2>2, <2>3, <2>4, <2>5, MachineStep
  <1>7. CASE DeleteKey(c)
    <2>1. PICK ok \in BOOLEAN : /\ Exit(c, ok)
                               /\ at[c] = IF ok THEN "delKey" ELSE "dropKey"
      BY <1>7 DEF DeleteKey
    <2>2. clsid' = FALSE /\ UNCHANGED <<path, camera, rule, files>>
      BY <1>7 DEF DeleteKey
    <2>3. /\ c \in Elevated /\ job[c] # <<>> /\ (sole = c => camera = "absent")
          /\ (~mixed => sole = c) /\ path = None /\ Mode(c) # "firewall-remove"
      BY <1>7, <2>1, InTool DEF DeleteKey
    <2>4. UNCHANGED sole /\ mixed' = (mixed /\ ~Repairs(c, ok))
      BY <2>1, <2>3, ExitFacts DEF RInv
    <2>5. MachineType' /\ ActivatableCamera'
      <3>1. camera = "installed" => mixed'
        BY <2>3, <2>4 DEF Repairs
      <3> QED BY <1>1, <2>2, <3>1 DEF MachineType, ActivatableCamera
    <2>6. ClearedInv'
      <3>1. CASE c = "setup"
        <4>1. job'["setup"] \in Cleared => job'["setup"] # DeleteOnly
          BY <2>1, <2>3, <3>1, ExitFacts DEF RInv
        <4>2. job'["setup"] # DeleteOnly
          BY <4>1 DEF Cleared
        <4> QED BY <2>2, <2>3, <2>4, <3>1, <4>2 DEF ClearedInv
      <3>2. CASE c # "setup"
        <4>1. sole' # "setup"
          BY <2>3, <2>4, <3>2, NotSole, SetupCalls DEF RInv
        <4> QED BY <4>1 DEF ClearedInv
      <3> QED BY <3>1, <3>2
    <2> QED BY <2>1, <2>3, <2>5, <2>6, ExitInv
  <1> QED BY <1>3, <1>4, <1>5, <1>6, <1>7

(* The firewall rule *)
LEMMA RuleInv ==
  ASSUME RInv, NEW c \in Callers, AddRule(c) \/ CheckRule(c) \/ UndoAdd(c) \/ DropRule(c)
  PROVE  RInv'
  <1> USE DEF PlaceOk, MachineOk, Registering
  <1>1. MachineType /\ ActivatableCamera
    BY DEF RInv
  <1>2. CASE AddRule(c) \/ UndoAdd(c)
    <2>1. PICK from \in {"ruleAdd", "ruleUndo"}, to \in {"ruleCheck", "ruleRecheck"} :
             Step(c, from, to)
      BY <1>2 DEF AddRule, UndoAdd
    <2>2. /\ rule' \in {dir[c], prev[c]} /\ UNCHANGED <<clsid, path, camera, files>>
          /\ to \in Places
      BY <1>2 DEF AddRule, UndoAdd, Places
    <2>3. /\ Mode(c) = "firewall-add" /\ dir[c] \in Dirs /\ prev[c] \in Dirs \cup {None}
          /\ UNCHANGED mixed
      BY <2>1, StepFacts
    <2>4. MachineType' /\ ActivatableCamera'
      BY <1>1, <2>2, <2>3 DEF MachineType, ActivatableCamera
    <2>5. PlaceOk(c)' /\ MachineOk(c)'
      BY <2>1, <2>2, StepFacts
    <2> QED BY <2>1, <2>2, <2>3, <2>4, <2>5, MachineStep
  <1>3. CASE CheckRule(c)
    <2>1. CASE Step(c, "ruleCheck", UndoRule(c))
      <3>1. PICK to : to = UndoRule(c)
        OBVIOUS
      <3>2. UNCHANGED machineVars /\ to \in {"ruleUndo", "ruleDrop"} /\ to \in Places
        BY <1>3, <3>1 DEF CheckRule, UndoRule, Places
      <3>3. PlaceOk(c)' /\ MachineOk(c)'
        BY <2>1, <3>1, <3>2, StepFacts DEF machineVars
      <3> QED BY <2>1, <3>1, <3>2, <3>3, QuietStep
    <2>2. CASE at[c] = "ruleCheck" /\ Exit(c, TRUE)
      BY <1>3, <2>2, QuietExits DEF CheckRule
    <2> QED BY <1>3, <2>1, <2>2 DEF CheckRule
  <1>4. CASE DropRule(c)
    <2>1. PICK ok \in BOOLEAN : Exit(c, ok)
      BY <1>4 DEF DropRule
    <2>2. at[c] = "ruleDrop" /\ rule' = None /\ UNCHANGED <<clsid, path, camera, files>>
      BY <1>4 DEF DropRule
    <2>3. c \in Elevated /\ job[c] # <<>> /\ Mode(c) \in {"firewall-add", "firewall-remove"}
      BY <2>2, InTool
    <2>4. UNCHANGED sole /\ mixed' = mixed
      <3>1. ~Repairs(c, ok)
        BY <2>3 DEF Repairs
      <3>2. UNCHANGED sole /\ mixed' = (mixed /\ ~Repairs(c, ok)) /\ mixed \in BOOLEAN
        BY <2>1, <2>3, ExitFacts DEF RInv, ToolType
      <3> QED BY <3>1, <3>2
    <2>5. MachineType' /\ ActivatableCamera'
      BY <1>1, <2>2, <2>4 DEF MachineType, ActivatableCamera
    <2>6. job'["setup"] \in Cleared => job["setup"] \in Cleared
      <3>1. CASE c = "setup"
        BY <2>1, <2>3, <3>1, ExitFacts DEF RInv
      <3>2. CASE c # "setup"
        BY <2>1, <2>3, <3>2, ExitFacts, SetupCalls DEF RInv
      <3> QED BY <3>1, <3>2
    <2>7. ClearedInv'
      BY <2>2, <2>4, <2>6 DEF RInv, ClearedInv
    <2> QED BY <2>1, <2>3, <2>5, <2>7, ExitInv
  <1> QED BY <1>2, <1>3, <1>4

LEMMA ToolInv == ASSUME RInv, NEW c \in Callers, Tool(c) PROVE RInv'
  BY BeginToolInv, QuietExits, RegisterInv, CleanUpInv, RuleInv DEF Tool

LEMMA DeleteInv == RInv /\ DeleteFiles => RInv'
  <1> SUFFICES ASSUME RInv, DeleteFiles PROVE RInv'
    OBVIOUS
  <1>1. PICK ok \in BOOLEAN : Exit("setup", ok)
    BY DEF DeleteFiles
  <1>2. /\ Mode("setup") = "delete" /\ UNCHANGED <<clsid, path, camera, rule>>
        /\ files' \in {files, files \ {dir["setup"]}}
    BY DEF DeleteFiles, Runs
  <1>3. job["setup"] # <<>> /\ Head(job["setup"]) = "delete"
    BY <1>2 DEF Mode
  <1>4. job["setup"] = DeleteOnly
    BY <1>3, JobsApart DEF RInv, JobInv
  <1>5. sole = "setup" => camera = "absent"
    BY <1>4 DEF RInv, ClearedInv, Cleared
  <1>6. (~mixed => sole = "setup") /\ mixed' = mixed
    <2>1. ~mixed => sole = "setup"
      BY <1>3, CallersElevated DEF RInv, SoleInv
    <2>2. mixed' = (mixed /\ ~Repairs("setup", ok))
      BY <1>1, <1>3, ExitFacts, SetupCalls DEF RInv
    <2>3. ~Repairs("setup", ok)
      BY <1>2 DEF Repairs
    <2> QED BY <2>1, <2>2, <2>3 DEF RInv, ToolType
  <1>7. MachineType' /\ ActivatableCamera'
    BY <1>2, <1>5, <1>6 DEF RInv, MachineType, ActivatableCamera
  <1>8. job'["setup"] \notin Cleared
    BY <1>1, <1>2, <1>3, ExitFacts, SetupCalls DEF RInv
  <1>9. ClearedInv'
    <2>1. job'["setup"] # DeleteOnly
      BY <1>8 DEF Cleared
    <2> QED BY <1>8, <2>1 DEF ClearedInv
  <1> QED BY <1>1, <1>3, <1>7, <1>9, ExitInv, SetupCalls, CallersElevated

LEMMA SettlesInv == RInv /\ Settles => RInv'
  <1> SUFFICES ASSUME RInv, Settles PROVE RInv'
    OBVIOUS
  <1>1. /\ camera = "lingering" /\ camera' = "absent"
        /\ UNCHANGED <<clsid, path, rule, files, job, undo, dir, at, prev, sole, mixed>>
    BY DEF Settles, toolVars, history
  <1>2. \A c \in Callers : Mode(c)' = Mode(c)
    BY <1>1 DEF Mode
  <1>3. CallerInv'
    BY <1>1, <1>2 DEF RInv, CallerInv, PlaceOk, MachineOk, Registering
  <1> QED BY <1>1, <1>3 DEF RInv, MachineType, ToolType, JobInv, SoleInv, ClearedInv,
                            ActivatableCamera

-----------------------------------------------------------------------------
LEMMA RegistrarInit == LaunchInit => RInv
  <1> SUFFICES ASSUME Init PROVE RInv
    BY DEF LaunchInit
  <1>1. MachineType /\ ToolType
    BY DEF Init, MachineType, ToolType, Places
  <1>2. JobInv /\ SoleInv
    BY SetupCalls, CallersElevated DEF Init, JobInv, SoleInv, SetupJobs, LaunchJobs, OrphanJobs
  <1>3. CallerInv
    BY DEF Init, CallerInv, PlaceOk, MachineOk, Registering
  <1>4. ClearedInv /\ ActivatableCamera
    <2>1. job["setup"] = <<>>
      BY SetupCalls DEF Init
    <2>2. <<>> \notin Cleared /\ <<>> # DeleteOnly
      BY JobsApart, JobModes
    <2> QED BY <2>1, <2>2 DEF Init, ClearedInv, ActivatableCamera
  <1> QED BY <1>1, <1>2, <1>3, <1>4 DEF RInv

LEMMA RegistrarNext == RInv /\ [LaunchNext]_launchVars => RInv'
  <1> SUFFICES ASSUME RInv, [LaunchNext]_launchVars PROVE RInv'
    OBVIOUS
  <1>1. ASSUME NEW d \in Dirs, BeginInstall(d) PROVE RInv'
    <2>1. /\ Begin("setup", InstallJob, d) /\ files = {} /\ files' \in SUBSET Dirs
          /\ UNCHANGED <<clsid, path, camera, rule>>
      BY <1>1 DEF BeginInstall
    <2> QED BY <2>1, BeginInv, SetupCalls
  <1>2. ASSUME NEW d \in Dirs, BeginUninstall(d) PROVE RInv'
    <2>1. /\ Begin("setup", UninstallJob, d)
          /\ UNCHANGED <<clsid, path, camera, rule>> /\ UNCHANGED files
      BY <1>2 DEF BeginUninstall, machineVars
    <2> QED BY <2>1, BeginInv, SetupCalls
  <1>3. ASSUME NEW d \in Dirs, Launch(d) PROVE RInv'
    <2>1. /\ Begin("app", LaunchJob, d)
          /\ UNCHANGED <<clsid, path, camera, rule>> /\ UNCHANGED files
      BY <1>3 DEF Launch, BeginLaunch, machineVars
    <2>2. "app" \in Callers /\ "app" # "setup"
      BY AppCalls
    <2> QED BY <2>1, <2>2, BeginInv
  <1>4. CASE Kill
    BY <1>4, KilledInv, SetupCalls, AppCalls, OrphansAssumption DEF Kill
  <1>5. CASE UNCHANGED vars
    <2>1. UNCHANGED <<clsid, path, camera, rule, files, job, undo, dir, at, prev, sole, mixed>>
      BY <1>5 DEF vars, machineVars, toolVars, history
    <2>2. \A c \in Callers : Mode(c)' = Mode(c)
      BY <2>1 DEF Mode
    <2>3. CallerInv'
      BY <2>1, <2>2 DEF RInv, CallerInv, PlaceOk, MachineOk, Registering
    <2> QED BY <2>1, <2>3 DEF RInv, MachineType, ToolType, JobInv, SoleInv, ClearedInv,
                              ActivatableCamera
  <1>6. CASE Machine
    BY <1>1, <1>2, <1>6, DeleteInv, SettlesInv, ToolInv DEF Machine
  <1> QED BY <1>3, <1>4, <1>5, <1>6 DEF LaunchNext, ExitProcess, launchVars

(* Whatever call fails, is rolled back, is killed or outlives its caller, a   *)
(* camera that Windows lists can be activated, unless jobs overlapped or a    *)
(* link was denied and no job that is alone has repaired it (mixed), and      *)
(* nobody ever holds a foreign firewall rule as RemoteCam's own.              *)
THEOREM RegistrarSafe == LaunchSpec => []RegistrarInv
  <1>1. RInv => RegistrarInv
    BY JobsTyped DEF RInv, RegistrarInv, TypeOK, MachineType, ToolType, JobInv
  <1>2. RInv /\ [LaunchNext]_launchVars => RInv'
    BY RegistrarNext
  <1> QED BY <1>1, <1>2, RegistrarInit, PTL DEF LaunchSpec

(* An uninstall, or a rollback, that was alone since it began and deletes the *)
(* last files leaves no camera, no CLSID, no path and no firewall rule.       *)
THEOREM UninstallClean == LaunchSpec => UninstallLeavesNothing
  <1>1. RInv /\ [LaunchNext]_launchVars => RInv'
    BY RegistrarNext
  <1>2. RInv /\ [LaunchNext]_launchVars
          => [files # {} /\ files' = {} /\ sole = "setup"
                => camera = "absent" /\ ~clsid /\ path = None /\ rule = None]_vars
    <2> SUFFICES ASSUME RInv, [LaunchNext]_launchVars, files # {}, files' = {},
                        sole = "setup"
                 PROVE  camera = "absent" /\ ~clsid /\ path = None /\ rule = None
      OBVIOUS
    <2>1. ASSUME UNCHANGED files PROVE FALSE
      BY <2>1
    <2>2. CASE DeleteFiles
      <3>1. job["setup"] # <<>> /\ Head(job["setup"]) = "delete"
        BY <2>2 DEF DeleteFiles, Runs, Mode
      <3>2. job["setup"] = DeleteOnly
        BY <3>1, JobsApart DEF RInv, JobInv
      <3> QED BY <3>2 DEF RInv, ClearedInv, Cleared
    <2>3. ASSUME NEW c \in Callers, Tool(c) PROVE FALSE
      BY <2>1, <2>3 DEF Tool, Refused, StatusOk, PreflightOk, BeginRegister, WriteKey, WritePath,
           WriteModel, CreateCamera, StartCamera, ReadLink, VerifyCamera, BeginUnregister, FindLink,
           RemoveCamera, ConfirmAbsent, DeletePath, DeleteKey, BeginRuleAdd, AddRule, CheckRule,
           UndoAdd, BeginRuleRemove, DropRule, CallFails, Fails, machineVars
    <2>4. CASE Kill \/ ExitProcess \/ (Advertises /\ UNCHANGED vars) \/ UNCHANGED launchVars
      BY <2>1, <2>4 DEF Kill, Killed, ExitProcess, launchVars, vars, machineVars
    <2>5. ASSUME NEW d \in Dirs, Launch(d) \/ BeginInstall(d) \/ BeginUninstall(d) PROVE FALSE
      BY <2>1, <2>5 DEF Launch, BeginLaunch, BeginInstall, BeginUninstall, machineVars
    <2>6. CASE Settles
      BY <2>1, <2>6 DEF Settles
    <2> QED BY <2>2, <2>3, <2>4, <2>5, <2>6 DEF LaunchNext, Machine
  <1> QED BY <1>1, <1>2, RegistrarInit, PTL DEF LaunchSpec, UninstallLeavesNothing

=============================================================================
