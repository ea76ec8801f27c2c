---------------------------- MODULE VCenterBuild ----------------------------
(***************************************************************************)
(* One `vcenter build`: Install of internal/backend/vcenter/vcenter.go and *)
(* its deferred functions, against a vCenter that runs the requested       *)
(* operations as tasks of its own.                                         *)
(*                                                                         *)
(* Unlike the Proxmox build this one addresses its VM by the reference     *)
(* CreateVM returned (`handle`), looks a VM up by its inventory path when  *)
(* it has none, keeps the guest's console in a log file on the datastore,  *)
(* and announces after a failure which artifacts it leaves in place.       *)
(***************************************************************************)
EXTENDS Naturals

VARIABLES
  template,     \* the build's output type is a template
  pc,           \* the builder's next call
  awaiting,     \* waiting for the task of that call
  handle,       \* the VM that state.vm, or the cleanup's vm, refers to
  vmCreated,    \* vCenterBuildState.vmCreated
  recorded,     \* the remote paths of installer ISO and console log are set
  isoDeleted,   \* vCenterBuildState.isoDeleted
  logDeleted,   \* vCenterBuildState.consoleLogDeleted
  completed,    \* vCenterBuildState.completed
  tempDir,      \* the local temporary directory exists
  signalled,    \* SIGINT or SIGTERM arrived: the build's context is done
  expired,      \* the two minutes of the cleanup's context are over
  announced,    \* "Debug artifacts left in place" was printed
  warned,       \* the cleanup printed a warning
  vm,           \* vCenter: what holds the target's inventory path
  iso, log,     \* the datastore: installer ISO, console log
  task,         \* vCenter: the tasks it runs, by kind
  vmAcked,      \* history: createVM returned a VM
  createLost    \* history: the task of a createVM that failed went on

flags == <<vmCreated, recorded, isoDeleted, logDeleted, completed>>
remote == <<vm, iso, log, task>>
history == <<vmAcked, createLost>>
vars == <<template, pc, awaiting, handle, vmCreated, recorded, isoDeleted,
          logDeleted, completed, tempDir, signalled, expired, announced,
          warned, vm, iso, log, task, vmAcked, createLost>>

Owners == {"none", "ours", "foreign"}

VMs == [owner : Owners, on : BOOLEAN, booted : BOOLEAN,
        installer : BOOLEAN, serial : BOOLEAN, diskBoot : BOOLEAN,
        sized : BOOLEAN, template : BOOLEAN]

NoVM == [owner |-> "none", on |-> FALSE, booted |-> FALSE,
         installer |-> FALSE, serial |-> FALSE, diskBoot |-> FALSE,
         sized |-> FALSE, template |-> FALSE]

\* BuildVMConfig: a CD drive with the ISO that boots first, a serial port.
FreshVM == [NoVM EXCEPT !.owner = "ours", !.installer = TRUE, !.serial = TRUE]

\* A VM that another client of vCenter put at the same inventory path.
ForeignVM == [NoVM EXCEPT !.owner = "foreign", !.on = TRUE, !.booted = TRUE]

Ops == {"create", "powerOn", "finalize", "hardware", "template", "deleteISO",
        "deleteLog", "powerOff", "destroy"}

MainSteps == {"connect", "localISO", "upload", "uploadHost", "create",
              "discardISO", "powerOn", "waitOff", "finalize", "verify",
              "hardware", "template", "deleteISO", "deleteLog"}
CleanupSteps == {"cFind", "cPower", "cPowerOff", "cDestroy", "cDeleteISO",
                 "cDeleteLog"}
\* The deferred Logout, without and after a cleanup, and the return of Install.
LogoutSteps == {"logout", "cLogout"}
Ended == {"ended", "cleaned"}
Steps == MainSteps \cup CleanupSteps \cup LogoutSteps \cup Ended
           \cup {"announce", "return"}

\* The operation whose task a step is about.
OpOf(step) ==
  CASE step \in {"discardISO", "deleteISO", "cDeleteISO"} -> "deleteISO"
    [] step \in {"deleteLog", "cDeleteLog"} -> "deleteLog"
    [] step = "cPowerOff" -> "powerOff"
    [] step = "cDestroy" -> "destroy"
    [] OTHER -> step

-----------------------------------------------------------------------------
(* vCenter, the datastore, the guest and the other clients.                *)

\* Mutant: the VM is addressed by its inventory path.
AtPath == vm.owner # "none"

\* A task works on the VM it was started for; there is none without a handle.
Ours == vm.owner # "none" /\ vm.owner = handle

Applies(op) ==
  CASE op = "create" -> vm.owner = "none"
    [] op = "powerOn" -> /\ Ours /\ ~vm.on /\ ~vm.template
                         /\ vm.installer => iso
    [] op \in {"finalize", "hardware"} -> Ours
    [] op = "template" -> Ours /\ ~vm.on
    [] op = "powerOff" -> Ours /\ vm.on
    [] op = "destroy" -> Ours /\ ~vm.on
    [] op = "deleteISO" -> iso
    [] op = "deleteLog" -> log

\* buildPostInstallDeviceSpec, applyFinalHardware: what the updates change.
VMAfter(op) ==
  CASE op = "create" -> FreshVM
    [] op = "powerOn" -> [vm EXCEPT !.on = TRUE, !.booted = TRUE]
    [] op = "finalize" -> [vm EXCEPT !.installer = FALSE, !.serial = FALSE,
                                     !.diskBoot = TRUE]
    [] op = "hardware" -> [vm EXCEPT !.sized = TRUE]
    [] op = "template" -> [vm EXCEPT !.template = TRUE]
    [] op = "powerOff" -> [vm EXCEPT !.on = FALSE]
    [] op = "destroy" -> NoVM
    [] OTHER -> vm

\* A VM that is powered on opens the file behind its serial port.
Execute(op) == /\ Applies(op)
               /\ vm' = VMAfter(op)
               /\ iso' = (iso /\ op # "deleteISO")
               /\ log' = ((log \/ (op = "powerOn" /\ vm.serial)) /\ op # "deleteLog")

builderOnly == <<template, pc, awaiting, handle, flags, tempDir, signalled,
                 expired, announced, warned, history>>

\* Mutant: the task's state is kept as vCenter words it.
ExitsUnclassified(op, exit) == task' = [task EXCEPT ![op] = "error"]

\* A task that nobody waits for is forgotten when it ends.
Exits(op, exit) ==
  task' = [task EXCEPT ![op] = IF awaiting /\ OpOf(pc) = op THEN exit ELSE "idle"]

TaskRuns(op) ==
  /\ task[op] = "queued"
  /\ Execute(op)
  /\ Exits(op, "ok")
  /\ UNCHANGED builderOnly

\* A file that is not there fails a delete with a message of its own.
TaskFails(op) ==
  /\ task[op] = "queued"
  /\ \/ Exits(op, "failed")
     \/ /\ (op = "deleteISO" /\ ~iso) \/ (op = "deleteLog" /\ ~log)
        /\ Exits(op, "missing")
  /\ UNCHANGED <<vm, iso, log, builderOnly>>

GuestPowersOff ==
  /\ vm.owner = "ours" /\ vm.on
  /\ vm' = [vm EXCEPT !.on = FALSE]
  /\ UNCHANGED <<iso, log, task, builderOnly>>

ForeignCreate ==
  /\ vm.owner = "none"
  /\ vm' = ForeignVM
  /\ UNCHANGED <<iso, log, task, builderOnly>>

-----------------------------------------------------------------------------
(* The client.  The build's calls carry the signal's context, the          *)
(* cleanup's a context of two minutes.                                     *)

\* Mutant: the cleanup runs under context.Background().
CanCallWithoutDeadline == pc \in CleanupSteps \/ ~signalled

CanCall == IF pc \in CleanupSteps THEN ~expired ELSE ~signalled

Submit(op) ==
  /\ ~awaiting /\ CanCall
  /\ task' = [task EXCEPT ![op] = "queued"]
  /\ awaiting' = TRUE
  /\ UNCHANGED <<pc, vm, iso, log>>

\* The wait ends with one of the results.
WaitEnds(op, results) ==
  /\ awaiting /\ CanCall
  /\ task[op] \in results
  /\ awaiting' = FALSE
  /\ task' = [task EXCEPT ![op] = "idle"]
  /\ UNCHANGED <<vm, iso, log>>

\* Mutant: a wait that ends without a transport error is a success.
AnyResult(op) == WaitEnds(op, {"ok", "failed", "missing"})

Succeeds(op) == WaitEnds(op, {"ok"})

\* The request or the wait answers an error; vCenter may run the task anyway.
Fails(op) ==
  /\ awaiting' = FALSE
  /\ UNCHANGED <<vm, iso, log>>
  /\ \/ ~awaiting /\ UNCHANGED task
     \/ ~awaiting /\ CanCall /\ task' = [task EXCEPT ![op] = "queued"]
     \/ awaiting /\ task' = [task EXCEPT ![op] = IF @ = "queued" THEN @ ELSE "idle"]

\* The frame of most builder steps.
Quiet == UNCHANGED <<template, tempDir, signalled, expired, announced, warned>>

-----------------------------------------------------------------------------
(* Install                                                                 *)

\* A step that changes nothing remote: it moves on, or returns its error.
Reads(step, next, failed) ==
  /\ pc = step
  /\ \/ CanCall /\ pc' = next
     \/ pc' = failed
  /\ UNCHANGED <<awaiting, handle, flags, remote, history>>

\* validateTargetNameAvailable: nothing at the target's inventory path.
TargetNameAvailable == vm.owner = "none"

\* No deferred cleanup is registered yet when this one fails; without a client
\* there is no session to log out of either.
ConnectAndResolvePlacement ==
  /\ \/ Reads("connect", "localISO", "ended")
     \/ Reads("connect", "localISO", "logout")
  /\ pc' = "localISO" => TargetNameAvailable
  /\ Quiet

CreateInstallerISO ==
  /\ Reads("localISO", "upload", "return")
  /\ tempDir' = TRUE
  /\ UNCHANGED <<template, signalled, expired, announced, warned>>

\* Through vCenter's endpoint, then through the ESXi host's.  A PUT that
\* failed may have left a file.
UploadInstallerISO(step, failed) ==
  /\ pc = step
  /\ \/ /\ CanCall
        /\ iso' = TRUE /\ recorded' = TRUE /\ pc' = "create"
     \/ /\ iso' \in {iso, iso \/ CanCall}
        /\ pc' = failed
        /\ UNCHANGED recorded
  /\ UNCHANGED <<awaiting, handle, vmCreated, isoDeleted, logDeleted,
                 completed, vm, log, task, history>>
  /\ Quiet

CreateVM ==
  /\ pc = "create"
  /\ \/ Submit("create") /\ UNCHANGED <<handle, vmCreated, history>>
     \/ /\ Succeeds("create") /\ pc' = "powerOn"
        /\ handle' = "ours" /\ vmCreated' = TRUE /\ vmAcked' = TRUE
        /\ UNCHANGED createLost
     \/ /\ Fails("create") /\ pc' = "discardISO"
        /\ createLost' = (task'["create"] = "queued" \/ task["create"] = "ok")
        /\ UNCHANGED <<handle, vmCreated, vmAcked>>
  /\ UNCHANGED <<recorded, isoDeleted, logDeleted, completed>>
  /\ Quiet

\* After createVM failed: the ISO goes at once, unless it was an interrupt.
DiscardISO ==
  /\ pc = "discardISO"
  /\ \/ /\ signalled /\ ~awaiting /\ pc' = "announce"
        /\ UNCHANGED <<awaiting, remote, isoDeleted, warned>>
     \/ Submit("deleteISO") /\ UNCHANGED <<isoDeleted, warned>>
     \/ /\ Succeeds("deleteISO") /\ pc' = "announce"
        /\ isoDeleted' = TRUE
        /\ UNCHANGED warned
     \/ /\ Fails("deleteISO") /\ pc' = "announce"
        /\ warned' = TRUE
        /\ UNCHANGED isoDeleted
  /\ UNCHANGED <<template, handle, vmCreated, recorded, logDeleted, completed,
                 tempDir, signalled, expired, announced, history>>

\* One task on the VM; any error leads to the deferred functions.
VMStep(step, next) ==
  /\ pc = step
  /\ \/ Submit(step)
     \/ Succeeds(step) /\ pc' = next
     \/ Fails(step) /\ pc' = "announce"
  /\ UNCHANGED <<handle, flags, history>>
  /\ Quiet

PowerOn == VMStep("powerOn", "waitOff")

\* WaitForPowerState(poweredOff), without a timeout of its own.
ReadPoweredOff ==
  /\ Reads("waitOff", "finalize", "announce")
  /\ pc' = "finalize" => Ours /\ ~vm.on
  /\ Quiet

\* Mutant: the template is marked before the final hardware is applied.
FinalizeThenMark == VMStep("finalize", IF template THEN "template" ELSE "verify")

FinalizePostInstallDevices == VMStep("finalize", "verify")

\* verifyPostInstallDevices, verifyDiskOnlyBootOrder
VerifyPostInstallDevices ==
  /\ Reads("verify", "hardware", "announce")
  /\ pc' = "hardware" => Ours /\ ~vm.installer /\ ~vm.serial /\ vm.diskBoot
  /\ Quiet

AfterHardware == IF template THEN "template" ELSE "deleteISO"

ApplyFinalHardware == VMStep("hardware", AfterHardware)

MaybeMarkAsTemplate == VMStep("template", "deleteISO")

DeleteDatastoreISO ==
  /\ pc = "deleteISO"
  /\ \/ Submit("deleteISO") /\ UNCHANGED isoDeleted
     \/ Succeeds("deleteISO") /\ pc' = "deleteLog" /\ isoDeleted' = TRUE
     \/ Fails("deleteISO") /\ pc' = "announce" /\ UNCHANGED isoDeleted
  /\ UNCHANGED <<handle, vmCreated, recorded, logDeleted, completed, history>>
  /\ Quiet

DeleteDatastoreConsoleLog ==
  /\ pc = "deleteLog"
  /\ \/ Submit("deleteLog") /\ UNCHANGED <<logDeleted, completed>>
     \/ /\ Succeeds("deleteLog") /\ pc' = "announce"
        /\ logDeleted' = TRUE /\ completed' = TRUE
     \/ Fails("deleteLog") /\ pc' = "announce" /\ UNCHANGED <<logDeleted, completed>>
  /\ UNCHANGED <<handle, vmCreated, recorded, isoDeleted, history>>
  /\ Quiet

-----------------------------------------------------------------------------
(* The deferred functions, last one first: the message about the debug     *)
(* artifacts, the cleanup after an interrupt, the logout from vCenter, the *)
(* local cleanup.                                                          *)

Announce ==
  /\ pc = "announce" /\ pc' = "return"
  /\ announced' = (vmCreated /\ ~completed /\ ~signalled)
  /\ UNCHANGED <<template, awaiting, handle, flags, tempDir, signalled,
                 expired, warned, remote, history>>

\* Mutant: every failed build cleans up.
CleanupAfterAnyError == ~completed

CleanupDue == signalled /\ ~completed

Return ==
  /\ pc = "return"
  /\ pc' = IF ~CleanupDue THEN "logout"
           ELSE IF handle = "none" THEN "cFind" ELSE "cPower"
  /\ UNCHANGED <<template, awaiting, handle, flags, tempDir, signalled,
                 expired, announced, warned, remote, history>>

\* findTargetVMByInventoryPath: whatever is at the path now.
CleanupFindVM ==
  /\ pc = "cFind"
  /\ \/ /\ CanCall /\ handle' = vm.owner
        /\ pc' = IF handle' = "none" THEN "cDeleteISO" ELSE "cPower"
        /\ UNCHANGED warned
     \/ /\ pc' = "cDeleteISO" /\ warned' = TRUE
        /\ UNCHANGED handle
  /\ UNCHANGED <<template, awaiting, flags, tempDir, signalled, expired,
                 announced, remote, history>>

\* destroyInterruptedVM: the power state, as far as it can be read.
CleanupReadPower ==
  /\ pc = "cPower"
  /\ \/ CanCall /\ Ours /\ vm.on /\ pc' = "cPowerOff" /\ UNCHANGED warned
     \/ CanCall /\ Ours /\ ~vm.on /\ pc' = "cDestroy" /\ UNCHANGED warned
     \/ pc' = "cDestroy" /\ warned' = TRUE
  /\ UNCHANGED <<template, awaiting, handle, flags, tempDir, signalled,
                 expired, announced, remote, history>>

CleanupPowerOff ==
  /\ pc = "cPowerOff"
  /\ \/ Submit("powerOff") /\ UNCHANGED warned
     \/ Succeeds("powerOff") /\ pc' = "cDestroy" /\ UNCHANGED warned
     \/ Fails("powerOff") /\ pc' = "cDeleteISO" /\ warned' = TRUE
  /\ UNCHANGED <<template, handle, flags, tempDir, signalled, expired,
                 announced, history>>

CleanupDestroyVM ==
  /\ pc = "cDestroy"
  /\ \/ Submit("destroy") /\ UNCHANGED <<handle, vmCreated, warned>>
     \/ /\ Succeeds("destroy") /\ pc' = "cDeleteISO"
        /\ handle' = "none" /\ vmCreated' = FALSE
        /\ UNCHANGED warned
     \/ /\ Fails("destroy") /\ pc' = "cDeleteISO"
        /\ warned' = TRUE
        /\ UNCHANGED <<handle, vmCreated>>
  /\ UNCHANGED <<template, recorded, isoDeleted, logDeleted, completed,
                 tempDir, signalled, expired, announced, history>>

\* deleteDatastoreFileForInterrupt: a file that is missing counts as deleted.
DeleteForInterrupt(op, due, next, deletes) ==
  /\ \/ ~due /\ ~deletes /\ pc' = next /\ UNCHANGED <<awaiting, remote, warned>>
     \/ due /\ ~deletes /\ Submit(op) /\ UNCHANGED warned
     \/ /\ due /\ deletes /\ WaitEnds(op, {"ok", "missing"})
        /\ pc' = next /\ UNCHANGED warned
     \/ due /\ ~deletes /\ Fails(op) /\ pc' = next /\ warned' = TRUE
  /\ UNCHANGED <<template, handle, vmCreated, recorded, completed, signalled,
                 expired, announced, history>>

ISOToDelete == recorded /\ ~isoDeleted

\* The files are deleted whatever became of the VM.
CleanupDeleteISO ==
  /\ pc = "cDeleteISO"
  /\ \E deletes \in BOOLEAN :
       /\ DeleteForInterrupt("deleteISO", ISOToDelete, "cDeleteLog", deletes)
       /\ isoDeleted' = (isoDeleted \/ deletes)
  /\ UNCHANGED <<logDeleted, tempDir>>

CleanupDeleteLog ==
  /\ pc = "cDeleteLog"
  /\ \E deletes \in BOOLEAN :
       /\ DeleteForInterrupt("deleteLog", recorded /\ ~logDeleted, "cLogout", deletes)
       /\ logDeleted' = (logDeleted \/ deletes)
  /\ UNCHANGED <<isoDeleted, tempDir>>

\* client.Logout(context.Background()): without a deadline, in a context that
\* no signal ends; whatever vCenter answers, the local cleanup follows.
Logout ==
  /\ pc \in LogoutSteps
  /\ pc' = IF pc = "logout" THEN "ended" ELSE "cleaned"
  /\ tempDir' = FALSE
  /\ UNCHANGED <<template, awaiting, handle, flags, signalled, expired,
                 announced, warned, remote, history>>

CleanupExpires ==
  /\ pc \in CleanupSteps /\ ~expired
  /\ expired' = TRUE
  /\ UNCHANGED <<template, pc, awaiting, handle, flags, tempDir, signalled,
                 announced, warned, remote, history>>

\* A signal during the logout is caught as well, but nothing reads the context
\* any more: it changes nothing.
Signal ==
  /\ pc \notin LogoutSteps \cup Ended /\ ~signalled
  /\ signalled' = TRUE
  /\ UNCHANGED <<template, pc, awaiting, handle, flags, tempDir, expired,
                 announced, warned, remote, history>>

-----------------------------------------------------------------------------

Init ==
  /\ template \in BOOLEAN
  /\ pc = "connect" /\ awaiting = FALSE /\ handle = "none"
  /\ vmCreated = FALSE /\ recorded = FALSE
  /\ isoDeleted = FALSE /\ logDeleted = FALSE /\ completed = FALSE
  /\ tempDir = FALSE /\ signalled = FALSE /\ expired = FALSE
  /\ announced = FALSE /\ warned = FALSE
  /\ vm \in {NoVM, ForeignVM} /\ iso = FALSE /\ log = FALSE
  /\ task = [op \in Ops |-> "idle"]
  /\ vmAcked = FALSE /\ createLost = FALSE

Builder ==
  \/ ConnectAndResolvePlacement \/ CreateInstallerISO
  \/ UploadInstallerISO("upload", "uploadHost")
  \/ UploadInstallerISO("uploadHost", "return")
  \/ CreateVM \/ DiscardISO \/ PowerOn \/ ReadPoweredOff
  \/ FinalizePostInstallDevices \/ VerifyPostInstallDevices
  \/ ApplyFinalHardware \/ MaybeMarkAsTemplate
  \/ DeleteDatastoreISO \/ DeleteDatastoreConsoleLog
  \/ Announce \/ Return
  \/ CleanupFindVM \/ CleanupReadPower \/ CleanupPowerOff
  \/ CleanupDestroyVM \/ CleanupDeleteISO \/ CleanupDeleteLog
  \/ Logout

VCenter ==
  \/ \E op \in Ops : TaskRuns(op) \/ TaskFails(op)
  \/ GuestPowersOff
  \/ ForeignCreate

Next == Builder \/ VCenter \/ Signal \/ CleanupExpires

\* Nothing makes vCenter answer with an error, a task end, a guest power off
\* or an end of the session: the builder owes a step only when it is not
\* waiting for those, and for the last one nothing ends its wait.
Waiting == \/ /\ CanCall
              /\ \/ awaiting /\ task[OpOf(pc)] = "queued"
                 \/ pc = "waitOff" /\ vm.on
           \/ pc \in LogoutSteps

Spec == /\ Init /\ [][Next]_vars
        /\ WF_vars(~Waiting /\ Builder)
        /\ WF_vars(CleanupExpires)

-----------------------------------------------------------------------------

\* Every variable keeps the type the code gives it.
TypeOK ==
  /\ template \in BOOLEAN /\ pc \in Steps /\ awaiting \in BOOLEAN
  /\ handle \in Owners
  /\ vmCreated \in BOOLEAN /\ recorded \in BOOLEAN
  /\ isoDeleted \in BOOLEAN /\ logDeleted \in BOOLEAN
  /\ completed \in BOOLEAN /\ tempDir \in BOOLEAN
  /\ signalled \in BOOLEAN /\ expired \in BOOLEAN
  /\ announced \in BOOLEAN /\ warned \in BOOLEAN
  /\ vm \in VMs /\ iso \in BOOLEAN /\ log \in BOOLEAN
  /\ task \in [Ops -> {"idle", "queued", "ok", "failed", "missing"}]
  /\ vmAcked \in BOOLEAN /\ createLost \in BOOLEAN

\* The VM as the command line asked for it.
Finished ==
  /\ vm.owner = "ours" /\ vm.booted /\ ~vm.on
  /\ ~vm.installer /\ ~vm.serial /\ vm.diskBoot /\ vm.sized
  /\ vm.template = template

\* Without an interrupt a failed build keeps what its user debugs it with: the
\* VM, the ISO the VM still boots from, the console log of a guest that ran,
\* unless the answer to createVM was lost or the final deletion had begun.
FailedBuildStaysDebuggable ==
  ~signalled /\ ~createLost =>
    /\ vmAcked => vm.owner = "ours"
    /\ vm.installer => iso
    /\ vm.serial /\ vm.booted => log

\* The cleanup finds a VM by its inventory path only when the build has none
\* of its own: once createVM returned a VM, neither the build nor a task it
\* left behind touches another client's VM at that path.
ForeignVMUntouchedOnceCreated ==
  [][vm.owner = "foreign" /\ (vmAcked \/ ~signalled) => vm' = vm]_vars

\* vCenter marks the VM as a template only once it is final.
TemplateIsFinal ==
  [][~vm.template /\ vm'.template =>
       vm.owner = "ours" /\ ~vm.on /\ vm.diskBoot /\ ~vm.serial /\ vm.sized]_vars

\* The README has the console log "left in place on failure for debugging" and
\* the build prints "Debug artifacts left in place: VM ..., installer ISO ...,
\* console log ...": what was announced is not removed afterwards.
AnnouncedArtifactsStay ==
  [][announced => /\ vm.owner = "ours" => vm'.owner = "ours"
                  /\ log => log']_vars

-----------------------------------------------------------------------------
(* The contract of a remote build, as this builder keeps it.  Its machine  *)
(* is the one createVM returned, its files those it recorded.  The logout  *)
(* is outside the contract: the build counts as ended before it, for a     *)
(* vCenter that does not answer it keeps Install from returning for ever,  *)
(* interrupted or not.                                                     *)

Contract == INSTANCE RemoteBuild WITH
  phase <- IF pc \in {"cLogout", "cleaned"} THEN "cleaned"
           ELSE IF pc \in {"logout", "ended"}
                  THEN IF completed THEN "success" ELSE "failure"
           ELSE IF pc \in CleanupSteps THEN "cleaning" ELSE "working",
  interrupted <- signalled,
  machine <- IF ~vmAcked \/ vm.owner # "ours" THEN "none"
             ELSE IF Finished THEN "image" ELSE "draft",
  files <- {file \in {"iso", "log"} :
              recorded /\ (IF file = "iso" THEN iso ELSE log)}

\* A vCenter build keeps the contract of a remote build: a success is final, a
\* failure gives nothing up, an interrupt ends the build up to the logout, and
\* what its cleanup or a task it stopped waiting for leaves behind is within
\* what was said.
ImplementsRemoteBuild == Contract!Spec
=============================================================================
