----------------------------- MODULE CameraRegistrar -----------------------------
(***************************************************************************)
(* rc-vcam-register.exe (windows/register/main.cpp) and its two callers:   *)
(* the installer, whose install, rollback and uninstall jobs run it with   *)
(* administrator rights (windows/installer/RemoteCamPackaging.cmake), and  *)
(* the application, which runs it at every launch                          *)
(* (windows/app/main.cpp, ensureMachineIntegration).                       *)
(*                                                                         *)
(* The machine is the CLSID's registry keys, the virtual camera device,    *)
(* the firewall rule named RemoteCam and the installed files.  Every call  *)
(* of the tool into Windows is a step that may fail.  Nothing makes the    *)
(* callers take turns.  A caller may be killed between any two steps, and  *)
(* the tool that it was waiting for, which is not in a job object, then    *)
(* runs on until it ends or is killed itself; when the power fails, one    *)
(* after the other is killed.                                              *)
(*                                                                         *)
(* Left out: --session, a developer's camera that lives as long as its     *)
(* process, and the log directory.                                         *)
(***************************************************************************)
EXTENDS Naturals, Sequences, SequencesExt, FiniteSets

CONSTANTS Dirs,       \* installation directories, each with its app and DLL
          Callers,    \* who may run the tool; "setup" is the installer
          Elevated,   \* the callers that have administrator rights
          Orphans,    \* bound: places for the tools that outlive their caller
          AtOnce,     \* bound: jobs under way at the same time
          None

ASSUME SetupCalls == "setup" \in Callers
ASSUME CallersElevated == Elevated \subseteq Callers /\ "setup" \in Elevated
ASSUME OrphansAssumption == Orphans \subseteq Callers \ {"setup"}
ASSUME NoneApart ==
    /\ None \notin Dirs \cup Callers /\ "foreign" \notin Dirs
    /\ None # "foreign"

VARIABLES
    clsid,    \* the CLSID key exists
    path,     \* InprocServer32's value, the directory of the DLL, or None
    camera,   \* the device: "absent", "installed", or "lingering" once removed
    rule,     \* the rule RemoteCam: None, "foreign", or the directory it allows
    files,    \* the directories whose app and DLL are installed
    job,      \* per caller, the tool's modes still to run
    undo,     \* per caller, whether the job is rcRollbackInstall
    dir,      \* per caller, the directory the job is about
    at,       \* per caller, where the running tool is, or "idle"
    prev,     \* per caller, the path or the rule read before changing it
    \* history
    sole,     \* who has had the machine for itself since its job began, if any
    mixed     \* jobs overlapped, and no job of a sole caller has repaired it yet

machineVars == <<clsid, path, camera, rule, files>>
toolVars == <<job, undo, dir, at, prev>>
history == <<sole, mixed>>
vars == <<machineVars, toolVars, history>>

-----------------------------------------------------------------------------
(* The jobs. *)
InstallJob == <<"register", "firewall-add">>
UninstallJob == <<"preflight", "unregister", "firewall-remove", "delete">>
FallbackJob == <<"unregister", "firewall-remove">>
LaunchJob == <<"status", "register", "firewall-add">>

Modes == {"register", "unregister", "firewall-add", "firewall-remove",
          "preflight", "status", "delete"}
Places == {"idle", "key", "path", "model", "create", "start", "link", "verify",
           "find", "remove", "confirm", "delPath", "delKey",
           "restoreKey", "restorePath", "restoreModel", "dropPath", "dropKey",
           "ruleAdd", "ruleCheck", "ruleUndo", "ruleRecheck", "ruleDrop"}

Init ==
    /\ clsid = FALSE /\ path = None /\ camera = "absent"
    /\ rule \in {None, "foreign"} /\ files = {}
    /\ job = [c \in Callers |-> <<>>]
    /\ undo = [c \in Callers |-> FALSE]
    /\ dir \in [Callers -> Dirs]
    /\ at = [c \in Callers |-> "idle"]
    /\ prev = [c \in Callers |-> None]
    /\ sole = None /\ mixed = FALSE

Mode(c) == IF job[c] = <<>> THEN "none" ELSE Head(job[c])
Runs(c, mode) == at[c] = "idle" /\ Mode(c) = mode
Goto(c, place) == at' = [at EXCEPT ![c] = place]

(* What a caller does with the exit code: the installer turns a failed       *)
(* installation into a rollback and a failed rollback into the fallback, and *)
(* stops an uninstall; the application registers when --status fails, and    *)
(* only logs the failure of anything else.  Nobody waits for an orphan.      *)
GoesOnAnyway(c, ok) ==   \* mutant: the tool's exit code is ignored
    IF c \in Orphans THEN <<>> ELSE Tail(job[c])
AfterExit(c, ok) ==
    IF c \in Orphans THEN <<>>
    ELSE IF c = "setup"
    THEN IF ok THEN Tail(job[c])
         ELSE IF Mode(c) \in {"register", "firewall-add"} THEN UninstallJob
         ELSE IF undo[c] /\ Last(job[c]) = "delete" THEN FallbackJob
         ELSE <<>>
    ELSE IF ok /\ Mode(c) = "status" THEN Tail(Tail(job[c])) ELSE Tail(job[c])

(* A camera that was registered or removed without interference is whole.    *)
Repairs(c, ok) == ok /\ sole = c /\ Mode(c) \in {"register", "unregister"}

Exit(c, ok) ==
    /\ Goto(c, "idle")
    /\ job' = [job EXCEPT ![c] = AfterExit(c, ok)]
    /\ undo' = [undo EXCEPT ![c] =
                  /\ AfterExit(c, ok) # <<>>
                  /\ undo[c] \/ (~ok /\ Mode(c) \in {"register", "firewall-add"})]
    /\ prev' = [prev EXCEPT ![c] = None]
    /\ mixed' = (mixed /\ ~Repairs(c, ok))
    /\ UNCHANGED <<dir, sole>>

(* The call at `from` returned, and the tool goes on. *)
Moves(c, from, to) ==
    /\ at[c] = from
    /\ Goto(c, to)
    /\ UNCHANGED <<job, undo, dir, prev>>

Step(c, from, to) == Moves(c, from, to) /\ UNCHANGED history

Fails(c, from) == at[c] = from /\ Exit(c, FALSE) /\ UNCHANGED machineVars

-----------------------------------------------------------------------------
(* A caller begins a job in directory d, while others may be in theirs. *)
Others(c) == {other \in Elevated \ {c} : job[other] # <<>>}

Begin(c, modes, d) ==
    /\ c \notin Orphans /\ job[c] = <<>>
    /\ Cardinality({other \in Callers : job[other] # <<>>}) < AtOnce
    /\ job' = [job EXCEPT ![c] = modes]
    /\ dir' = [dir EXCEPT ![c] = d]
    /\ IF c \in Elevated
       THEN /\ sole' = IF Others(c) = {} THEN c ELSE None
            /\ mixed' = (mixed \/ Others(c) # {})
       ELSE UNCHANGED history
    /\ UNCHANGED <<undo, at, prev>>

(* Setup.  A new version is only installed once the previous one is gone. *)
BeginInstall(d) ==
    /\ files = {}
    /\ Begin("setup", InstallJob, d)
    /\ files' = {d}
    /\ UNCHANGED <<clsid, path, camera, rule>>

BeginUninstall(d) ==
    /\ d \in files
    /\ Begin("setup", UninstallJob, d)
    /\ UNCHANGED machineVars

(* The generated Delete commands; a file in use stays, and the uninstaller  *)
(* then keeps itself and its metadata for a retry.                           *)
DeleteFiles ==
    /\ Runs("setup", "delete")
    /\ \/ files' = files \ {dir["setup"]} /\ Exit("setup", TRUE)
       \/ files' = files /\ Exit("setup", FALSE)
    /\ UNCHANGED <<clsid, path, camera, rule>>

(* The application starts from an installed directory. *)
BeginLaunch(c, d) ==
    /\ c # "setup" /\ d \in files
    /\ Begin(c, LaunchJob, d)
    /\ UNCHANGED machineVars

(* A caller that is not waiting for a tool is killed, or an orphaned tool. *)
KilledAlone(c) ==
    /\ at[c] = "idle" \/ c \in Orphans
    /\ job' = [job EXCEPT ![c] = <<>>]
    /\ Goto(c, "idle")
    /\ prev' = [prev EXCEPT ![c] = None]
    /\ UNCHANGED <<dir, sole>>

(* A caller is killed and its tool, with the rights it was given, runs on. *)
Orphaned(c, o) ==
    /\ c \notin Orphans /\ Mode(c) # "delete"
    /\ job[o] = <<>> /\ (o \in Elevated <=> c \in Elevated)
    /\ job' = [job EXCEPT ![c] = <<>>, ![o] = <<Mode(c)>>]
    /\ at' = [at EXCEPT ![c] = "idle", ![o] = at[c]]
    /\ dir' = [dir EXCEPT ![o] = dir[c]]
    /\ prev' = [prev EXCEPT ![c] = None, ![o] = prev[c]]
    /\ sole' = IF sole = c THEN o ELSE sole

Killed(c) ==
    /\ job[c] # <<>>
    /\ undo' = [undo EXCEPT ![c] = FALSE]
    /\ KilledAlone(c) \/ \E o \in Orphans : Orphaned(c, o)
    /\ UNCHANGED <<machineVars, mixed>>

-----------------------------------------------------------------------------
(* Windows.  A removed device may still enumerate for a moment; an           *)
(* enumeration shows every device whose link it can read, or fails.          *)
Seen == camera # "absent"

Settles ==
    /\ camera = "lingering"
    /\ camera' = "absent"
    /\ UNCHANGED <<clsid, path, rule, files, toolVars, history>>

(* Refused without administrator rights, or before anything was changed. *)
Refused(c) ==
    /\ at[c] = "idle" /\ Mode(c) \in Modes \ {"delete"}
    /\ Exit(c, FALSE) /\ UNCHANGED machineVars

(* --status: the path is registered, its file exists and the camera is seen. *)
StatusOk(c) ==
    /\ Runs(c, "status")
    /\ path \in files /\ Seen
    /\ Exit(c, TRUE) /\ UNCHANGED machineVars

(* --uninstall-preflight: both files are unused and deletable. *)
PreflightOk(c) ==
    /\ Runs(c, "preflight") /\ c \in Elevated
    /\ Exit(c, TRUE) /\ UNCHANGED machineVars

-----------------------------------------------------------------------------
(* --register: writeRegistry, createCamera, Start, the link, enumeration. *)
BeginRegister(c) ==
    /\ Runs(c, "register") /\ c \in Elevated /\ dir[c] \in files
    /\ prev' = [prev EXCEPT ![c] = path]
    /\ Goto(c, "key")
    /\ UNCHANGED <<machineVars, job, undo, dir, history>>

WriteKey(c) ==
    /\ \/ Step(c, "key", "path")
       \/ Step(c, "restoreKey", "restorePath")
    /\ clsid' = TRUE
    /\ UNCHANGED <<path, camera, rule, files>>

(* InprocServer32 is a subkey of the CLSID's key, and creating it creates    *)
(* that one too.                                                             *)
WritePath(c) ==
    /\ \/ Step(c, "path", "model") /\ path' = dir[c]
       \/ Step(c, "restorePath", "restoreModel") /\ path' = prev[c]
    /\ clsid' = TRUE
    /\ UNCHANGED <<camera, rule, files>>

WriteModel(c) ==
    /\ \/ Step(c, "model", "create")
       \/ at[c] = "restoreModel" /\ Exit(c, FALSE)
    /\ UNCHANGED machineVars

(* Without a camera object there is nothing to clean up with, and the        *)
(* registry is kept.                                                         *)
CreateCamera(c) ==
    /\ Step(c, "create", IF Mode(c) = "register" THEN "start" ELSE "find")
    /\ UNCHANGED machineVars

(* Start may report success without a device, and failure with one. *)
StartCamera(c) ==
    /\ \/ Step(c, "start", "link") \/ Step(c, "start", "find")
    /\ camera' \in {camera, "installed"}
    /\ UNCHANGED <<clsid, path, rule, files>>

ReadLink(c) ==
    /\ \/ Step(c, "link", "verify") /\ Seen
       \/ Step(c, "link", "find")
    /\ UNCHANGED machineVars

(* reportEnumeration after the registration: anything but a camera that is   *)
(* seen starts the clean-up, with the link already known.                    *)
VerifyCamera(c) ==
    /\ \/ at[c] = "verify" /\ Seen /\ Exit(c, TRUE)
       \/ Step(c, "verify", "remove")
    /\ UNCHANGED machineVars

(* --unregister: the camera object is created and goes to the clean-up. *)
BeginUnregister(c) ==
    /\ Runs(c, "unregister") /\ c \in Elevated
    /\ Goto(c, "create")
    /\ UNCHANGED <<machineVars, job, undo, dir, prev, history>>

-----------------------------------------------------------------------------
(* removeCameraAndConfirm.  With the camera's absence confirmed --register   *)
(* restores the registry it found and --unregister removes it.               *)
Unwind(c) ==
    IF Mode(c) = "unregister" THEN "delPath"
    ELSE IF prev[c] # None THEN "restoreKey" ELSE "dropPath"

(* MF_E_ATTRIBUTENOTFOUND is taken for a camera that is gone, whether or not *)
(* Windows still has the device.                                             *)
FindLink(c) ==
    /\ \/ Step(c, "find", "remove") /\ Seen
       \/ /\ Moves(c, "find", Unwind(c))
          /\ sole' = IF Seen THEN None ELSE sole
          /\ mixed' = (mixed \/ Seen)
    /\ UNCHANGED machineVars

RemoveCamera(c) ==
    /\ Step(c, "remove", "confirm")
    /\ camera' \in {camera, IF Seen THEN "lingering" ELSE "absent", "absent"}
    /\ UNCHANGED <<clsid, path, rule, files>>

AbsenceAssumed == TRUE   \* mutant: Remove() is believed
AbsenceConfirmed == camera = "absent"

ConfirmAbsent(c) ==
    /\ Step(c, "confirm", Unwind(c)) /\ AbsenceConfirmed
    /\ UNCHANGED machineVars

(* removeRegistry: both keys are tried and the first error is reported.      *)
(* Windows deletes no key that has a subkey.                                 *)
DeletePath(c) ==
    /\ \/ Step(c, "delPath", "delKey")
       \/ Step(c, "dropPath", "dropKey")
    /\ path' = None
    /\ UNCHANGED <<clsid, camera, rule, files>>

DeleteKey(c) ==
    /\ path = None
    /\ \/ at[c] = "delKey" /\ Exit(c, TRUE)
       \/ at[c] = "dropKey" /\ Exit(c, FALSE)
    /\ clsid' = FALSE
    /\ UNCHANGED <<path, camera, rule, files>>

-----------------------------------------------------------------------------
(* --firewall-add.  captureExistingFirewallRule refuses a rule that is not   *)
(* exactly ours; Add overwrites the rule of that name.                       *)
CapturesAny == TRUE   \* mutant: the rule's properties are not compared
CapturesOurs == rule # "foreign"

BeginRuleAdd(c) ==
    /\ Runs(c, "firewall-add") /\ c \in Elevated /\ dir[c] \in files
    /\ CapturesOurs
    /\ prev' = [prev EXCEPT ![c] = rule]
    /\ Goto(c, "ruleAdd")
    /\ UNCHANGED <<machineVars, job, undo, dir, history>>

AddRule(c) ==
    /\ Step(c, "ruleAdd", "ruleCheck")
    /\ rule' = dir[c]
    /\ UNCHANGED <<clsid, path, camera, files>>

UndoRule(c) == IF prev[c] # None THEN "ruleUndo" ELSE "ruleDrop"

CheckRule(c) ==
    /\ \/ at[c] = "ruleCheck" /\ rule = dir[c] /\ Exit(c, TRUE)
       \/ Step(c, "ruleCheck", UndoRule(c))
    /\ UNCHANGED machineVars

UndoAdd(c) ==
    /\ Step(c, "ruleUndo", "ruleRecheck")
    /\ rule' = prev[c]
    /\ UNCHANGED <<clsid, path, camera, files>>

(* --firewall-remove, and the clean-up after an Add without a previous rule: *)
(* whatever rule has the name is removed, and looked up again.               *)
BeginRuleRemove(c) ==
    /\ Runs(c, "firewall-remove") /\ c \in Elevated
    /\ Goto(c, "ruleDrop")
    /\ UNCHANGED <<machineVars, job, undo, dir, prev, history>>

DropRule(c) ==
    /\ at[c] = "ruleDrop"
    /\ rule' = None
    /\ Exit(c, Mode(c) = "firewall-remove")
    /\ UNCHANGED <<clsid, path, camera, files>>

-----------------------------------------------------------------------------
(* A call into Windows fails.  writeRegistry and createCamera end the run    *)
(* with what was written in place; so does every step of the clean-up.       *)
CallFails(c) == \E p \in Places \ {"idle", "start", "link", "verify", "remove"} : Fails(c, p)

Tool(c) ==
    \/ Refused(c) \/ StatusOk(c) \/ PreflightOk(c)
    \/ BeginRegister(c) \/ WriteKey(c) \/ WritePath(c) \/ WriteModel(c)
    \/ CreateCamera(c) \/ StartCamera(c) \/ ReadLink(c) \/ VerifyCamera(c)
    \/ BeginUnregister(c) \/ FindLink(c) \/ RemoveCamera(c) \/ ConfirmAbsent(c)
    \/ DeletePath(c) \/ DeleteKey(c)
    \/ BeginRuleAdd(c) \/ AddRule(c) \/ CheckRule(c) \/ UndoAdd(c)
    \/ BeginRuleRemove(c) \/ DropRule(c) \/ CallFails(c)

Next ==
    \/ \E d \in Dirs : BeginInstall(d) \/ BeginUninstall(d)
    \/ DeleteFiles
    \/ \E c \in Callers, d \in Dirs : BeginLaunch(c, d)
    \/ \E c \in Callers : Killed(c) \/ Tool(c)
    \/ Settles

Spec == Init /\ [][Next]_vars

-----------------------------------------------------------------------------
(* The machine's state and each caller's; no caller ever remembers, and so   *)
(* restores, a rule that is not RemoteCam's (captureExistingFirewallRule).   *)
TypeOK ==
    /\ clsid \in BOOLEAN
    /\ path \in Dirs \cup {None}
    /\ camera \in {"absent", "installed", "lingering"}
    /\ rule \in Dirs \cup {None, "foreign"}
    /\ files \in SUBSET Dirs
    /\ job \in [Callers -> Seq(Modes)]
    /\ undo \in [Callers -> BOOLEAN]
    /\ dir \in [Callers -> Dirs]
    /\ at \in [Callers -> Places]
    /\ prev \in [Callers -> Dirs \cup {None}]
    /\ sole \in Callers \cup {None} /\ mixed \in BOOLEAN

(* confirmCameraAbsent's comment: the CLSID is never removed until the exact *)
(* symbolic link is gone.  A camera that Windows lists can be activated: its *)
(* CLSID resolves to a DLL that is there, whatever failed, was rolled back   *)
(* or was killed on the way.  Overlapping tools, one of them an orphan       *)
(* perhaps, and a Windows that denies the link of a camera it has, do leave  *)
(* a camera without its CLSID: `mixed` says that this may have happened, and *)
(* the next --register or --unregister that is alone and succeeds repairs it.*)
ActivatableCamera == camera = "installed" => (clsid /\ path \in files) \/ mixed

(* An uninstall that deletes the files leaves nothing that points at them:   *)
(* no camera, no CLSID and no firewall rule, also when it runs as the        *)
(* rollback of an installation, repeats an uninstall that was cut short or   *)
(* finds what overlapping tools left behind.  It cannot vouch for a tool     *)
(* that runs beside it, nor for a camera that Windows denies.                *)
UninstallLeavesNothing ==
    [][files # {} /\ files' = {} /\ sole = "setup"
         => camera = "absent" /\ ~clsid /\ path = None /\ rule = None]_vars

(* The registrar's machine: whatever failed, was rolled back or was killed    *)
(* half way, the camera Windows lists can be activated (ActivatableCamera),  *)
(* and nobody holds a foreign firewall rule as RemoteCam's own (TypeOK).     *)
RegistrarInv == TypeOK /\ ActivatableCamera

=============================================================================
