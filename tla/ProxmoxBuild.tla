---------------------------- MODULE ProxmoxBuild ----------------------------
(***************************************************************************)
(* One `proxmox build`: installWithClient and the deferred interrupt       *)
(* cleanup of internal/backend/proxmox/proxmox.go, against a Proxmox node  *)
(* that runs the requested operations as tasks of its own.                 *)
(*                                                                         *)
(* The builder is sequential: `pc` is the call it makes next, `awaiting`   *)
(* is TRUE while it sits in WaitTask for the task that call started.  The  *)
(* node's state is `vm` (what occupies the build's VMID), `iso` (whether   *)
(* the temporary installer ISO volume exists) and `task`.  A call may be   *)
(* refused, may be executed although its reply is lost, may be executed at *)
(* once (a reply without a UPID), or may start a task that outlives the    *)
(* builder's interest in it.                                               *)
(***************************************************************************)
EXTENDS Naturals

VARIABLES
  cfg,          \* the build's options: fixed by the command line
  pc,           \* the builder's next call
  awaiting,     \* in WaitTask for the task of that call
  vmCreated,    \* buildState.vmCreated
  isoRecorded,  \* buildState.tempISOVolumeID is set
  isoDeleted,   \* buildState.tempISODeleted
  completed,    \* buildState.completed
  tempDir,      \* the local temporary directory exists
  signalled,    \* SIGINT or SIGTERM arrived: the build's context is done
  expired,      \* the two minutes of the cleanup's context are over
  warned,       \* the cleanup printed that it could not delete something
  vm, iso,      \* the node: the VM with our VMID, the installer volume
  task,         \* the node: the tasks it runs, by kind
  vmAcked,      \* history: CreateVM and its WaitTask succeeded
  createLost    \* history: CreateVM took effect but answered an error

buildState == <<vmCreated, isoRecorded, isoDeleted, completed>>
node == <<vm, iso, task>>
history == <<vmAcked, createLost>>
vars == <<cfg, pc, awaiting, vmCreated, isoRecorded, isoDeleted, completed,
          tempDir, signalled, expired, warned, vm, iso, task,
          vmAcked, createLost>>

Configs == [vmid : {"next", "requested"}, template : BOOLEAN,
            cloudInit : BOOLEAN, options : {"off", "plain", "protect"}]

VMs == [owner : {"none", "ours", "foreign"}, power : {"stopped", "running"},
        booted : BOOLEAN, ide2 : {"empty", "installer", "cloudinit"},
        serial : BOOLEAN, diskBoot : BOOLEAN, template : BOOLEAN,
        protected : BOOLEAN]

NoVM == [owner |-> "none", power |-> "stopped", booted |-> FALSE,
         ide2 |-> "empty", serial |-> FALSE, diskBoot |-> FALSE,
         template |-> FALSE, protected |-> FALSE]

\* BuildCreateVMValues: the installer ISO on ide2, a serial console.
FreshVM == [NoVM EXCEPT !.owner = "ours", !.ide2 = "installer", !.serial = TRUE]

\* A VM that another client of the node created with the same VMID.
ForeignVM == [NoVM EXCEPT !.owner = "foreign", !.power = "running",
                          !.booted = TRUE, !.diskBoot = TRUE]

Ops == {"upload", "create", "start", "finalize", "cloudInit", "options",
        "template", "deleteISO", "stop", "destroy"}

MainSteps == {"validate", "localISO", "preflight", "checkISO", "upload",
              "selectVMID", "create", "discardISO", "start", "poll",
              "finalize", "cloudInit", "options", "template", "deleteISO"}
CleanupSteps == {"cStatus", "cStop", "cDestroy", "cDeleteISO"}
Ended == {"ended", "cleaned"}
Steps == MainSteps \cup CleanupSteps \cup Ended \cup {"return"}

\* The operation whose call or task a step is about.
OpOf(step) ==
  CASE step \in {"discardISO", "deleteISO", "cDeleteISO"} -> "deleteISO"
    [] step = "cStop" -> "stop"
    [] step = "cDestroy" -> "destroy"
    [] OTHER -> step

-----------------------------------------------------------------------------
(* The node.                                                               *)

\* What the node requires of an operation when it executes it.
Applies(op) ==
  CASE op = "create" -> vm.owner = "none"
    [] op = "start" -> /\ vm.owner = "ours"
                       /\ vm.power = "stopped"
                       /\ ~vm.template
                       /\ vm.ide2 = "installer" => iso
    [] op \in {"finalize", "cloudInit", "options"} -> vm.owner = "ours"
    [] op = "template" -> vm.owner = "ours" /\ vm.power = "stopped"
    [] op = "stop" -> vm.owner # "none"
    [] op = "destroy" -> /\ vm.owner # "none"
                         /\ vm.power = "stopped"
                         /\ ~vm.protected
    [] op = "deleteISO" -> iso
    [] OTHER -> TRUE

\* BuildFinalizeVMValues, BuildCloudInitValues and BuildOptionsValues say what
\* the three config updates change.
VMAfter(op) ==
  CASE op = "create" -> FreshVM
    [] op = "start" -> [vm EXCEPT !.power = "running", !.booted = TRUE]
    [] op = "finalize" -> [vm EXCEPT !.ide2 = "empty", !.serial = FALSE,
                                     !.diskBoot = TRUE]
    [] op = "cloudInit" -> [vm EXCEPT !.ide2 = "cloudinit"]
    [] op = "options" -> [vm EXCEPT !.protected = (cfg.options = "protect")]
    [] op = "template" -> [vm EXCEPT !.template = TRUE]
    [] op = "stop" -> [vm EXCEPT !.power = "stopped"]
    [] op = "destroy" -> NoVM
    [] OTHER -> vm

ISOAfter(op) ==
  CASE op = "upload" -> TRUE
    [] op = "deleteISO" -> FALSE
    [] OTHER -> iso

Execute(op) == /\ Applies(op)
               /\ vm' = VMAfter(op)
               /\ iso' = ISOAfter(op)

\* A delete of what is not there answers 404, which the client takes as done.
Gone(op) == \/ op = "deleteISO" /\ ~iso
            \/ op = "destroy" /\ vm.owner = "none"

builderOnly == <<cfg, pc, awaiting, buildState, tempDir, signalled, expired,
                 warned, history>>

\* Mutant: the exit status is kept as the node words it.
ExitsUnclassified(op, exit) == task' = [task EXCEPT ![op] = "WARNINGS"]

\* A task that nobody waits for is forgotten when it ends.
Exits(op, exit) ==
  task' = [task EXCEPT ![op] = IF awaiting /\ OpOf(pc) = op THEN exit ELSE "idle"]

\* A task ends OK, or with a warning that WaitTask reports as a failure.
TaskRuns(op) ==
  /\ task[op] = "queued"
  /\ Execute(op)
  /\ Exits(op, "ok") \/ Exits(op, "failed")
  /\ UNCHANGED builderOnly

TaskFails(op) ==
  /\ task[op] = "queued"
  /\ Exits(op, "failed")
  /\ UNCHANGED <<vm, iso, builderOnly>>

\* The installer's shutdown, or a crash of the guest: the node reports both
\* as "stopped".
GuestPowersOff ==
  /\ vm.owner = "ours" /\ vm.power = "running"
  /\ vm' = [vm EXCEPT !.power = "stopped"]
  /\ UNCHANGED <<iso, task, builderOnly>>

\* Another client takes the VMID.  A VMID that NextID returned was free then.
ForeignCreate ==
  /\ vm.owner = "none"
  /\ cfg.vmid = "requested" \/ pc \in Steps \ {"validate", "localISO",
       "preflight", "checkISO", "upload", "selectVMID"}
  /\ vm' = ForeignVM
  /\ UNCHANGED <<iso, task, builderOnly>>

-----------------------------------------------------------------------------
(* The client: calls, replies and WaitTask.  The build's calls carry the   *)
(* signal's context, the cleanup's calls a context of two minutes.         *)

CanCall == IF pc \in CleanupSteps THEN ~expired ELSE ~signalled

\* The call is accepted and answers a UPID.
Submit(op) ==
  /\ ~awaiting /\ CanCall
  /\ task' = [task EXCEPT ![op] = "queued"]
  /\ awaiting' = TRUE
  /\ UNCHANGED <<pc, vm, iso>>

\* Mutant: WaitTask takes every stopped task for a success.
TaskStopped(op) == task[op] # "queued"

\* WaitTask: the task is stopped and its exit status is empty or "OK".
TaskOK(op) == task[op] = "ok"

\* WaitTask reads "OK", or the reply has no UPID because the work is done.
Succeeds(op) ==
  /\ CanCall
  /\ awaiting' = FALSE
  /\ \/ /\ awaiting /\ TaskOK(op)
        /\ task' = [task EXCEPT ![op] = "idle"]
        /\ UNCHANGED <<vm, iso>>
     \/ /\ ~awaiting
        /\ \/ Execute(op)
           \/ Gone(op) /\ UNCHANGED <<vm, iso>>
        /\ UNCHANGED task

\* The call answers an error; the request may have been executed all the same.
CallFails(op) ==
  /\ ~awaiting
  /\ UNCHANGED <<awaiting, vm, iso>>
  /\ \/ UNCHANGED task
     \/ CanCall /\ task' = [task EXCEPT ![op] = "queued"]

\* WaitTask: the task failed, one status read failed, or the context is done.
WaitFails(op) ==
  /\ awaiting
  /\ awaiting' = FALSE
  /\ task' = [task EXCEPT ![op] = IF @ = "queued" THEN @ ELSE "idle"]
  /\ UNCHANGED <<vm, iso>>

Fails(op) == CallFails(op) \/ WaitFails(op)

\* The frame of most builder steps.
Quiet == UNCHANGED <<cfg, tempDir, signalled, expired, warned>>

-----------------------------------------------------------------------------
(* installWithClient                                                       *)

\* A step that changes nothing remote: it moves on, or returns its error.
Reads(step, next) ==
  /\ pc = step
  /\ \/ CanCall /\ pc' = next
     \/ pc' = "return"
  /\ UNCHANGED <<awaiting, buildState, node, history>>

ValidateTargetNameAvailable ==
  /\ Reads("validate", "localISO")
  /\ cfg.vmid = "requested" /\ vm.owner # "none" => pc' = "return"
  /\ Quiet

CreateInstallerISO ==
  /\ Reads("localISO", "preflight")
  /\ tempDir' = TRUE
  /\ UNCHANGED <<cfg, signalled, expired, warned>>

PreflightBuildStorages == Reads("preflight", "checkISO") /\ Quiet

CheckTemporaryISOAbsent ==
  /\ Reads("checkISO", "upload")
  /\ iso => pc' = "return"
  /\ Quiet

UploadTemporaryInstallerISO ==
  /\ pc = "upload"
  /\ \/ Submit("upload") /\ UNCHANGED isoRecorded
     \/ Succeeds("upload") /\ pc' = "selectVMID" /\ isoRecorded' = TRUE
     \/ Fails("upload") /\ pc' = "return" /\ UNCHANGED isoRecorded
  /\ UNCHANGED <<vmCreated, isoDeleted, completed, history>>
  /\ Quiet

\* A requested VMID is taken without a call.
SelectVMID ==
  /\ pc = "selectVMID"
  /\ \/ cfg.vmid = "requested" /\ pc' = "create"
     \/ cfg.vmid = "next" /\ CanCall /\ pc' = "create"
     \/ cfg.vmid = "next" /\ pc' = "discardISO"
  /\ UNCHANGED <<awaiting, buildState, node, history>>
  /\ Quiet

CreateVM ==
  /\ pc = "create"
  /\ \/ Submit("create") /\ UNCHANGED <<vmCreated, history>>
     \/ /\ Succeeds("create") /\ pc' = "start"
        /\ vmCreated' = TRUE /\ vmAcked' = TRUE
        /\ UNCHANGED createLost
     \/ /\ CallFails("create") /\ pc' = "discardISO"
        /\ createLost' = (task' # task)
        /\ UNCHANGED <<vmCreated, vmAcked>>
     \/ WaitFails("create") /\ pc' = "return" /\ UNCHANGED <<vmCreated, history>>
  /\ UNCHANGED <<isoRecorded, isoDeleted, completed>>
  /\ Quiet

ISOToDelete == isoRecorded /\ ~isoDeleted

\* deleteTemporaryISO: nothing to do when no volume is recorded or it is gone.
DeleteTemporaryISO(done, failed) ==
  /\ \/ /\ ~ISOToDelete
        /\ pc' = done
        /\ UNCHANGED <<awaiting, isoDeleted, node>>
     \/ /\ ISOToDelete
        /\ \/ Submit("deleteISO") /\ UNCHANGED isoDeleted
           \/ Succeeds("deleteISO") /\ pc' = done /\ isoDeleted' = TRUE
           \/ Fails("deleteISO") /\ pc' = failed /\ UNCHANGED isoDeleted
  /\ UNCHANGED <<cfg, vmCreated, isoRecorded, signalled, expired, history>>

\* After NextID or CreateVM answered an error; its own error is ignored.
DiscardTemporaryISO ==
  /\ pc = "discardISO"
  /\ DeleteTemporaryISO("return", "return")
  /\ UNCHANGED <<completed, tempDir, warned>>

\* One POST and its WaitTask; any error returns.
VMStep(step, wanted, next) ==
  /\ pc = step
  /\ \/ wanted /\ Submit(step)
     \/ wanted /\ Succeeds(step) /\ pc' = next
     \/ wanted /\ Fails(step) /\ pc' = "return"
     \/ ~wanted /\ pc' = next /\ UNCHANGED <<awaiting, node>>
  /\ UNCHANGED <<buildState, history>>
  /\ Quiet

StartVM == VMStep("start", TRUE, "poll")

\* powerOnAndWaitForInstaller's loop; reading "running" changes nothing.
ReadStopped ==
  /\ pc = "poll" /\ CanCall
  /\ vm.owner # "none" /\ vm.power = "stopped"
  /\ pc' = "finalize"
  /\ UNCHANGED <<awaiting, buildState, node, history>>
  /\ Quiet

PollFails ==
  /\ pc = "poll"
  /\ pc' = "return"
  /\ UNCHANGED <<awaiting, buildState, node, history>>
  /\ Quiet

\* Mutant: the conversion to a template comes right after the finalisation.
FinalizeThenConvert == VMStep("finalize", TRUE, "template")

FinalizePostInstallConfig == VMStep("finalize", TRUE, "cloudInit")
ApplyCloudInitOptions == VMStep("cloudInit", cfg.cloudInit, "options")
ApplyVMOptions == VMStep("options", cfg.options # "off", "template")
MaybeConvertToTemplate == VMStep("template", cfg.template, "deleteISO")

DeleteInstallerISO ==
  /\ pc = "deleteISO"
  /\ DeleteTemporaryISO("return", "return")
  /\ completed' = (pc' = "return" /\ isoDeleted')
  /\ UNCHANGED <<tempDir, warned>>

-----------------------------------------------------------------------------
(* The deferred functions: cleanup after an interrupt, then cleanupLocal.  *)

CleanupDue == signalled /\ ~completed

\* Mutant: a chosen VMID is enough, whoever owns the VM.
VMIDChosen == isoRecorded

VMToDestroy == vmCreated

Return ==
  /\ pc = "return"
  /\ IF CleanupDue
       THEN /\ pc' = IF VMToDestroy THEN "cStatus" ELSE "cDeleteISO"
            /\ UNCHANGED tempDir
       ELSE pc' = "ended" /\ tempDir' = FALSE
  /\ UNCHANGED <<cfg, awaiting, buildState, signalled, expired, warned, node,
                 history>>

\* destroyInterruptedVM: the power state, as far as it can be read.
CleanupReadStatus ==
  /\ pc = "cStatus"
  /\ \/ CanCall /\ vm.owner # "none" /\ vm.power = "running" /\ pc' = "cStop"
     \/ CanCall /\ (vm.owner = "none" \/ vm.power = "stopped") /\ pc' = "cDestroy"
     \/ pc' = "cDestroy"
  /\ UNCHANGED <<awaiting, buildState, node, history>>
  /\ Quiet

CleanupStopVM ==
  /\ pc = "cStop"
  /\ \/ Submit("stop") /\ UNCHANGED warned
     \/ Succeeds("stop") /\ pc' = "cDestroy" /\ UNCHANGED warned
     \/ Fails("stop") /\ pc' = "cDeleteISO" /\ warned' = TRUE
  /\ UNCHANGED <<cfg, buildState, tempDir, signalled, expired, history>>

CleanupDestroyVM ==
  /\ pc = "cDestroy"
  /\ \/ Submit("destroy") /\ UNCHANGED <<vmCreated, warned>>
     \/ /\ Succeeds("destroy") /\ pc' = "cDeleteISO"
        /\ vmCreated' = FALSE /\ UNCHANGED warned
     \/ /\ Fails("destroy") /\ pc' = "cDeleteISO"
        /\ warned' = TRUE /\ UNCHANGED vmCreated
  /\ UNCHANGED <<cfg, isoRecorded, isoDeleted, completed, tempDir, signalled,
                 expired, history>>

\* The ISO is deleted whatever became of the VM, then cleanupLocal runs.
CleanupDeleteISO ==
  /\ pc = "cDeleteISO"
  /\ DeleteTemporaryISO("cleaned", "cleaned")
  /\ warned' = (warned \/ (pc' = "cleaned" /\ ISOToDelete /\ ~isoDeleted'))
  /\ tempDir' = (tempDir /\ pc' # "cleaned")
  /\ UNCHANGED completed

CleanupExpires ==
  /\ pc \in CleanupSteps /\ ~expired
  /\ expired' = TRUE
  /\ UNCHANGED <<cfg, pc, awaiting, buildState, tempDir, signalled, warned,
                 node, history>>

Signal ==
  /\ pc \notin Ended /\ ~signalled
  /\ signalled' = TRUE
  /\ UNCHANGED <<cfg, pc, awaiting, buildState, tempDir, expired, warned,
                 node, history>>

-----------------------------------------------------------------------------

Init ==
  /\ cfg \in Configs
  /\ pc = "validate" /\ awaiting = FALSE
  /\ vmCreated = FALSE /\ isoRecorded = FALSE /\ isoDeleted = FALSE
  /\ completed = FALSE /\ tempDir = FALSE
  /\ signalled = FALSE /\ expired = FALSE /\ warned = FALSE
  /\ vm \in {NoVM, ForeignVM} /\ iso = FALSE
  /\ cfg.vmid = "next" => vm = NoVM
  /\ task = [op \in Ops |-> "idle"]
  /\ vmAcked = FALSE /\ createLost = FALSE

Builder ==
  \/ ValidateTargetNameAvailable \/ CreateInstallerISO
  \/ PreflightBuildStorages \/ CheckTemporaryISOAbsent
  \/ UploadTemporaryInstallerISO \/ SelectVMID \/ CreateVM
  \/ DiscardTemporaryISO \/ StartVM \/ ReadStopped \/ PollFails
  \/ FinalizePostInstallConfig \/ ApplyCloudInitOptions \/ ApplyVMOptions
  \/ MaybeConvertToTemplate \/ DeleteInstallerISO \/ Return
  \/ CleanupReadStatus \/ CleanupStopVM \/ CleanupDestroyVM
  \/ CleanupDeleteISO

Node ==
  \/ \E op \in Ops : TaskRuns(op) \/ TaskFails(op)
  \/ GuestPowersOff
  \/ ForeignCreate

Next == Builder \/ Node \/ Signal \/ CleanupExpires

\* Nothing makes the node answer a poll with an error, a task end or a guest
\* power off: the builder owes a step only when it is not waiting for those.
Waiting == /\ CanCall
           /\ \/ awaiting /\ task[OpOf(pc)] = "queued"
              \/ pc = "poll" /\ vm.power = "running"

Spec == /\ Init /\ [][Next]_vars
        /\ WF_vars(~Waiting /\ Builder)
        /\ WF_vars(CleanupExpires)

-----------------------------------------------------------------------------

\* Every variable keeps the type the code gives it.
TypeOK ==
  /\ cfg \in Configs /\ pc \in Steps
  /\ awaiting \in BOOLEAN
  /\ vmCreated \in BOOLEAN /\ isoRecorded \in BOOLEAN
  /\ isoDeleted \in BOOLEAN /\ completed \in BOOLEAN
  /\ tempDir \in BOOLEAN /\ signalled \in BOOLEAN
  /\ expired \in BOOLEAN /\ warned \in BOOLEAN
  /\ vm \in VMs /\ iso \in BOOLEAN
  /\ task \in [Ops -> {"idle", "queued", "ok", "failed"}]
  /\ vmAcked \in BOOLEAN /\ createLost \in BOOLEAN

\* The VM as the command line asked for it.
Finished ==
  /\ vm.owner = "ours" /\ vm.booted /\ vm.power = "stopped"
  /\ vm.ide2 = (IF cfg.cloudInit THEN "cloudinit" ELSE "empty")
  /\ ~vm.serial /\ vm.diskBoot
  /\ vm.template = cfg.template
  /\ vm.protected = (cfg.options = "protect")

\* What installWithClient promises when it returns nil: the VM ran, is powered
\* off, has neither installer ISO nor serial console, boots from its disk, has
\* a Cloud-Init drive and is a template exactly as asked, no installer ISO is
\* left on the storage, and no task can still change any of it.
SuccessMeansFinishedImage ==
  completed => Finished /\ ~iso /\ \A op \in Ops : task[op] # "queued"

\* The cleanup works on the VMID, not on a VM: it must hold that a VM of
\* another client on that VMID is never stopped, reconfigured or destroyed,
\* by a call of the build or by a task the build gave up waiting for.
ForeignVMUntouched == [][vm.owner = "foreign" => vm' = vm]_vars

\* The node converts the VM to a template only once it is finalised: stopped,
\* without installer and console, with the Cloud-Init drive the user asked for.
TemplateIsFinal ==
  [][~vm.template /\ vm'.template =>
       /\ vm.owner = "ours" /\ vm.power = "stopped" /\ vm.diskBoot
       /\ vm.ide2 = (IF cfg.cloudInit THEN "cloudinit" ELSE "empty")]_vars

-----------------------------------------------------------------------------
(* The contract of a remote build, as this builder keeps it.  Its machine  *)
(* and its ISO are those whose creation and upload were acknowledged.      *)

Contract == INSTANCE RemoteBuild WITH
  phase <- IF pc = "cleaned" THEN "cleaned"
           ELSE IF pc = "ended" THEN IF completed THEN "success" ELSE "failure"
           ELSE IF pc \in CleanupSteps THEN "cleaning" ELSE "working",
  interrupted <- signalled,
  machine <- IF ~vmAcked \/ vm.owner # "ours" THEN "none"
             ELSE IF Finished THEN "image" ELSE "draft",
  files <- IF isoRecorded /\ iso THEN {"iso"} ELSE {}

\* A Proxmox build keeps the contract: a success is final, a failure gives
\* nothing up, an interrupt ends the build, and what its cleanup or a task it
\* stopped waiting for leaves behind or removes later is within what was said.
ImplementsRemoteBuild == Contract!Spec
=============================================================================
